----------------------------- MODULE BlockAlign -----------------------------
(***************************************************************************)
(* blockAtOrBefore and getBlockCached of lib.ts: the binary search for the *)
(* last block of a chain at or before a wall-clock time, over a cache of   *)
(* block headers that lives as long as the process.  Searches follow one   *)
(* another (every sweep of the watchtower runs one per lock leg) while the *)
(* chain grows and, if Reorgs allows it, replaces its head.                *)
(***************************************************************************)
EXTENDS Integers

CONSTANTS
  MaxBlock,   \* bound: the highest block the chain reaches
  MaxTime,    \* bound: the latest timestamp
  Reorgs      \* bound: how often the head block is replaced by a sibling

ASSUME AlignAssumption == MaxBlock \in Nat /\ MaxTime \in Nat /\ Reorgs \in Nat

Blocks == 0 .. MaxBlock
Times  == 0 .. MaxTime
Absent == -1                  \* a block that is not in the cache

VARIABLES
  ts,         \* block -> its timestamp, also for the blocks still to come
  head,       \* the chain's last block
  cache,      \* blockCache: block -> the timestamp once read, or Absent
  pc, target, latest, lo, hi,     \* the search
  answer,     \* what it returned
  reorgs      \* history, not in the code: reorganisations so far

search == <<pc, target, latest, lo, hi, answer>>
vars   == <<ts, head, cache, search, reorgs>>

\* Consensus: a block is never older than its parent.
Ordered(t) == \A m, n \in Blocks : m <= n => t[m] <= t[n]

Init ==
  /\ ts \in [Blocks -> Times] /\ Ordered(ts)
  /\ head \in Blocks
  /\ cache = [n \in Blocks |-> Absent]
  /\ pc = "idle" /\ target = 0 /\ latest = 0 /\ lo = 0 /\ hi = 0
  /\ answer = 0
  /\ reorgs = 0
-----------------------------------------------------------------------------
Grow ==
  /\ head < MaxBlock
  /\ head' = head + 1
  /\ UNCHANGED <<ts, cache, search, reorgs>>

Reorg ==
  /\ reorgs < Reorgs
  /\ \E t \in Times : ts' = [ts EXCEPT ![head] = t]
  /\ Ordered(ts')
  /\ reorgs' = reorgs + 1
  /\ UNCHANGED <<head, cache, search>>

\* provider.getBlockNumber()
Start(t) ==
  /\ pc \in {"idle", "found", "failed"}
  /\ pc' = "head"
  /\ target' = t /\ latest' = head
  /\ lo' = 0 /\ hi' = 0 /\ answer' = 0
  /\ UNCHANGED <<ts, head, cache, reorgs>>

\* The block is read once per process; later calls answer from the cache.
getBlockCached(n, t) ==
  /\ t = IF cache[n] # Absent THEN cache[n] ELSE ts[n]
  /\ cache' = [cache EXCEPT ![n] = t]

\* ... and a node that does not have the block ends the search with an error.
BlockNotFound ==
  /\ \/ pc = "head" /\ cache[latest] = Absent
     \/ pc = "search" /\ lo < hi /\ cache[(lo + hi + 1) \div 2] = Absent
  /\ pc' = "failed"
  /\ UNCHANGED <<ts, head, cache, target, latest, lo, hi, answer, reorgs>>

\* A chain that ends at or before the target is taken at its head.
ReadHead ==
  /\ pc = "head"
  /\ \E t \in Times :
       /\ getBlockCached(latest, t)
       /\ IF t <= target
          THEN pc' = "found" /\ answer' = latest /\ UNCHANGED <<lo, hi>>
          ELSE pc' = "search" /\ lo' = 0 /\ hi' = latest /\ UNCHANGED answer
  /\ UNCHANGED <<ts, head, target, latest, reorgs>>

\* Mutant: the middle is rounded down, as in firstBreachBlock.
ProbeFloor ==
  /\ pc = "search" /\ lo < hi
  /\ LET mid == (lo + hi) \div 2
     IN  \E t \in Times :
           /\ getBlockCached(mid, t)
           /\ IF t <= target THEN lo' = mid /\ UNCHANGED hi ELSE hi' = mid - 1 /\ UNCHANGED lo
  /\ UNCHANGED <<ts, head, pc, target, latest, answer, reorgs>>

\* Mutant: a block at the target itself is taken for too late.
ProbeStrict ==
  /\ pc = "search" /\ lo < hi
  /\ LET mid == (lo + hi + 1) \div 2
     IN  \E t \in Times :
           /\ getBlockCached(mid, t)
           /\ IF t < target THEN lo' = mid /\ UNCHANGED hi ELSE hi' = mid - 1 /\ UNCHANGED lo
  /\ UNCHANGED <<ts, head, pc, target, latest, answer, reorgs>>

Probe ==
  /\ pc = "search" /\ lo < hi
  /\ LET mid == (lo + hi + 1) \div 2
     IN  \E t \in Times :
           /\ getBlockCached(mid, t)
           /\ IF t <= target THEN lo' = mid /\ UNCHANGED hi ELSE hi' = mid - 1 /\ UNCHANGED lo
  /\ UNCHANGED <<ts, head, pc, target, latest, answer, reorgs>>

Return ==
  /\ pc = "search" /\ lo >= hi
  /\ pc' = "found" /\ answer' = lo
  /\ UNCHANGED <<ts, head, cache, target, latest, lo, hi, reorgs>>

SearchStep == ReadHead \/ Probe \/ Return \/ BlockNotFound

Next == Grow \/ Reorg \/ (\E t \in Times : Start(t)) \/ SearchStep

Spec == Init /\ [][Next]_vars
-----------------------------------------------------------------------------
TypeOK ==
  /\ ts \in [Blocks -> Times] /\ Ordered(ts)
  /\ head \in Blocks
  /\ cache \in [Blocks -> Times \cup {Absent}]
  /\ pc \in {"idle", "head", "search", "found", "failed"}
  /\ target \in Times /\ answer \in Blocks
  /\ latest \in 0 .. head /\ lo \in 0 .. latest /\ hi \in lo .. latest
  /\ reorgs \in 0 .. Reorgs

(***************************************************************************)
(* The answer is the highest block up to the head first seen whose         *)
(* timestamp does not exceed the target (comment at lib.ts:338-342); if    *)
(* even the first block is later than the target, it is the first block.   *)
(* It holds over any number of searches that share the cache, also when    *)
(* several blocks have the same timestamp, until a block is replaced: its  *)
(* old header stays in the cache, and no later search is safe from it.     *)
(***************************************************************************)
HighestAtOrBefore ==
  pc = "found" /\ reorgs = 0 =>
    /\ answer <= latest
    /\ ts[answer] <= target \/ answer = 0
    /\ \A n \in 0 .. latest : ts[n] <= target => n <= answer

(***************************************************************************)
(* Every probe at least halves the interval: an archive node is not asked  *)
(* for more than some thirty blocks of a chain of any length, and a search *)
(* always ends (lib.ts:350-354).                                           *)
(***************************************************************************)
ProbesHalve ==
  [][pc = "search" /\ <<lo, hi>>' # <<lo, hi>> /\ pc' = "search"
       => 2 * (hi' - lo') <= hi - lo]_vars

=============================================================================
