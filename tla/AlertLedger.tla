---------------------------- MODULE AlertLedger -----------------------------
(***************************************************************************)
(* What the Watchtower promises about alerts, without saying how: the      *)
(* status of a route is observed from time to time, every change of status *)
(* is told exactly once, and nothing new is observed while a change is     *)
(* still untold.  The Monitor of serve/monitor.ts (module Watchtower) and  *)
(* the watch loop of commands/solvency.ts (module SolvencyWatch) are shown *)
(* to implement it.                                                        *)
(***************************************************************************)
CONSTANT Routes

VARIABLES
  known,       \* the routes observed to be failing
  lastTold,    \* per route, the last alert told, or "none"
  prevTold     \* per route, the alert told before that, or "none"

vars == <<known, lastTold, prevTold>>

Told == {"breach", "recovery", "none"}

\* The last thing told about r is its present status.
UpToDate(r) == (r \in known) <=> (lastTold[r] = "breach")

Init ==
  /\ known = {}
  /\ lastTold = [r \in Routes |-> "none"]
  /\ prevTold = [r \in Routes |-> "none"]

\* New statuses are observed; every earlier change has been told.
Observe ==
  /\ \A r \in Routes : UpToDate(r)
  /\ known' \in SUBSET Routes
  /\ UNCHANGED <<lastTold, prevTold>>

\* One untold change is told.
Tell(r) ==
  /\ ~UpToDate(r)
  /\ lastTold' = [lastTold EXCEPT ![r] = IF r \in known THEN "breach" ELSE "recovery"]
  /\ prevTold' = [prevTold EXCEPT ![r] = lastTold[r]]
  /\ UNCHANGED known

\* The route is no longer monitored: its past alerts no longer matter.
Retire(r) ==
  /\ known' = known \ {r}
  /\ lastTold' = [lastTold EXCEPT ![r] = "none"]
  /\ prevTold' = [prevTold EXCEPT ![r] = "none"]

Next ==
  \/ Observe
  \/ \E r \in Routes : Tell(r) \/ Retire(r)

Spec == Init /\ [][Next]_vars
=============================================================================
