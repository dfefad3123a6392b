------------------------------- MODULE Bisect -------------------------------
(***************************************************************************)
(* evmsec solvency <route> --since: bisect() of commands/solvency.ts and   *)
(* firstBreachBlock of lib.ts, one step per await.  A measurement of a     *)
(* historical block is a fact about the chain, so what isUnderBacked says  *)
(* of each mint-chain block is one function, fixed from the start and      *)
(* arbitrary: backing may break, recover and break again.  The mint chain  *)
(* goes on growing.  Any read may fail for good (no archive node).         *)
(***************************************************************************)
EXTENDS Integers

CONSTANT MaxBlock    \* bound: the highest block the mint chain reaches

ASSUME BisectAssumption == MaxBlock \in Nat

Blocks == 0 .. MaxBlock

VARIABLES
  broken,     \* block -> isUnderBacked(measure(block))
  head,       \* the mint chain's last block
  pc,         \* where the command is
  latest,     \* the head it saw
  start,      \* the block --since resolved to
  lo, hi,     \* firstBreachBlock's interval
  result,     \* what it reports
  exit        \* the exit code, or -1 while it runs

command == <<pc, latest, start, lo, hi, result, exit>>
vars    == <<broken, head, command>>

Results == {"none", "error", "already-breached-at-start", "healthy", "breach-located"}

Init ==
  /\ broken \in [Blocks -> BOOLEAN]
  /\ head \in Blocks
  /\ pc = "begin"
  /\ latest = 0 /\ start = 0 /\ lo = 0 /\ hi = 0
  /\ result = "none" /\ exit = -1
-----------------------------------------------------------------------------
Grow ==
  /\ head < MaxBlock
  /\ head' = head + 1
  /\ UNCHANGED <<broken, command>>

Finish(r, code) == pc' = "done" /\ result' = r /\ exit' = code

GetHead ==
  /\ pc = "begin"
  /\ pc' = "since" /\ latest' = head
  /\ UNCHANGED <<broken, head, start, lo, hi, result, exit>>

\* A block number up to the head seen, or a time, which blockAtOrBefore may
\* map to a block the chain has produced since.
ResolveSince(b) ==
  /\ pc = "since"
  /\ b <= head
  /\ start' = b
  /\ IF b >= latest THEN Finish("error", 1) ELSE pc' = "endpoints" /\ UNCHANGED <<result, exit>>
  /\ UNCHANGED <<broken, head, latest, lo, hi>>

\* Mutant: the search begins without a look at its start.
EndpointsStartUnchecked ==
  /\ pc = "endpoints"
  /\ IF ~broken[latest] THEN Finish("healthy", 0) /\ UNCHANGED <<lo, hi>>
     ELSE pc' = "search" /\ lo' = start /\ hi' = latest /\ UNCHANGED <<result, exit>>
  /\ UNCHANGED <<broken, head, latest, start>>

\* Mutant: a healthy start is enough.
EndpointsHeadUnchecked ==
  /\ pc = "endpoints"
  /\ IF ~broken[start] THEN Finish("healthy", 0) ELSE Finish("already-breached-at-start", 1)
  /\ UNCHANGED <<broken, head, latest, start, lo, hi>>

\* Both ends are measured; the start is judged first.
Endpoints ==
  /\ pc = "endpoints"
  /\ IF broken[start] THEN Finish("already-breached-at-start", 1) /\ UNCHANGED <<lo, hi>>
     ELSE IF ~broken[latest] THEN Finish("healthy", 0) /\ UNCHANGED <<lo, hi>>
     ELSE pc' = "search" /\ lo' = start /\ hi' = latest /\ UNCHANGED <<result, exit>>
  /\ UNCHANGED <<broken, head, latest, start>>

Probe ==
  /\ pc = "search" /\ hi - lo > 1
  /\ LET mid == lo + (hi - lo) \div 2
     IN  IF broken[mid] THEN hi' = mid /\ UNCHANGED lo ELSE lo' = mid /\ UNCHANGED hi
  /\ UNCHANGED <<broken, head, pc, latest, start, result, exit>>

\* Both sides of the boundary are measured again, for the report.
Report ==
  /\ pc = "search" /\ hi - lo <= 1
  /\ Finish("breach-located", 1)
  /\ UNCHANGED <<broken, head, latest, start, lo, hi>>

\* Any await may throw; the command ends with the error.
ReadFails ==
  /\ pc # "done"
  /\ Finish("error", 1)
  /\ UNCHANGED <<broken, head, latest, start, lo, hi>>

CommandStep ==
  \/ GetHead
  \/ \E b \in Blocks : ResolveSince(b)
  \/ Endpoints
  \/ Probe
  \/ Report

Next == Grow \/ CommandStep \/ ReadFails

Spec == Init /\ [][Next]_vars
-----------------------------------------------------------------------------
TypeOK ==
  /\ broken \in [Blocks -> BOOLEAN]
  /\ head \in Blocks
  /\ pc \in {"begin", "since", "endpoints", "search", "done"}
  /\ latest \in 0 .. head /\ start \in 0 .. head
  /\ lo \in Blocks /\ hi \in lo .. MaxBlock
  /\ result \in Results /\ exit \in {-1, 0, 1}

\* Backing breaks at most once and stays broken.
Monotonic == \A m, n \in Blocks : m <= n /\ broken[m] => broken[n]

(***************************************************************************)
(* What is reported as the breach is one: a healthy block and the broken   *)
(* one right after it, both inside the window, for any history of backing; *)
(* and if backing broke only once, no earlier block is broken              *)
(* (lib.ts:287-291, solvency.ts:444-455).                                  *)
(***************************************************************************)
LocatedIsOnset ==
  result = "breach-located" =>
    /\ start <= lo /\ hi = lo + 1 /\ hi <= latest
    /\ ~broken[lo] /\ broken[hi]
    /\ Monotonic => \A n \in start .. lo : ~broken[n]

(***************************************************************************)
(* Exit code 0 is given for nothing but two healthy ends: a script may     *)
(* rely on it, whatever failed on the way (README.md:250).             *)
(***************************************************************************)
ExitZeroMeansBacked == exit = 0 => ~broken[start] /\ ~broken[latest]

(***************************************************************************)
(* Each probe at least halves what is left to search, counted in blocks    *)
(* strictly inside the interval (lib.ts:299; the test allows 25 probes for *)
(* 25 million blocks), so the command ends however long the window is.     *)
(***************************************************************************)
ProbesHalve ==
  [][pc = "search" /\ <<lo, hi>>' # <<lo, hi>> => 2 * (hi' - lo' - 1) <= hi - lo - 1]_vars

=============================================================================
