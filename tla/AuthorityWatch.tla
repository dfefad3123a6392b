--------------------------- MODULE AuthorityWatch ---------------------------
(***************************************************************************)
(* authority watch: the polling loop of commands/authority.ts over the     *)
(* transitions of authority-watch-core.ts.  The process loads the baseline *)
(* once; each round captures every address of it (module BaselineFile) and *)
(* diffs it.  An address whose diff becomes non-empty is alerted on, and   *)
(* one whose diff becomes empty recovers.                                  *)
(***************************************************************************)
EXTENDS BaselineFile

VARIABLES
  stop,       \* set by the signal handler
  drifted,    \* the addresses the map state takes to true
  queue,      \* transitions computed and not yet emitted
  \* history, not in the code
  lastTold,   \* address -> the kind of its last alert
  repeated    \* an alert said what the one before it had said

told == <<lastTold, repeated>>
watchVars == <<stop, drifted, queue, told>>

Kinds == {"drift", "recovered"}

WatchInit ==
  /\ stop = FALSE /\ drifted = {} /\ queue = {}
  /\ lastTold = [a \in Addresses |-> "none"]
  /\ repeated = FALSE

\* A new process has nothing of this.
NewWatch ==
  /\ stop' = FALSE /\ drifted' = {} /\ queue' = {}
  /\ lastTold' = [a \in Addresses |-> "none"]
  /\ repeated' = FALSE

\* Bound: one watch at a time, and not as the last command.
BeginWatch(p) ==
  /\ commands + 2 <= MaxCommands
  /\ \A q \in Processes \ {p} : run[q].sub # "watch"
  /\ BeginFromBaseline(p, "watch")
  /\ NewWatch

Signal(p) ==
  /\ run[p].sub = "watch" /\ run[p].at \in {"capturing", "posting", "sleeping"}
  /\ stop' = TRUE
  /\ UNCHANGED <<fileVars, drifted, queue, told>>

\* The process is where it was told, its baseline and its captures are kept.
Moves(p, where) ==
  /\ Becomes(p, [run[p] EXCEPT !.at = where])
  /\ UNCHANGED <<chains, file, commands, fileHistory>>

\* Mutant: only the keys the diff reports are looked at, so none recovers.
computeAuthorityTransitionsReported(prev, diff) ==
  {[id |-> a, kind |-> "drift"] : a \in diff \ prev}

computeAuthorityTransitions(prev, diff) ==
       {[id |-> a, kind |-> "drift"]     : a \in diff \ prev}
  \cup {[id |-> a, kind |-> "recovered"] : a \in prev \ diff}

\* Every address is captured: the transitions are computed and the map is
\* updated before anything is sent.
Round(p) ==
  /\ Captured(p) /\ run[p].sub = "watch"
  /\ queue' = computeAuthorityTransitions(drifted, Diff(p))
  /\ drifted' = Diff(p)
  /\ Moves(p, "alerting")
  /\ UNCHANGED <<stop, told>>

Emit(p, t) ==
  /\ run[p].at = "alerting"
  /\ t \in queue
  /\ queue' = queue \ {t}
  /\ lastTold' = [lastTold EXCEPT ![t.id] = t.kind]
  /\ repeated' = (repeated \/ lastTold[t.id] = t.kind)
  /\ Moves(p, "posting")
  /\ UNCHANGED <<stop, drifted>>

\* A POST that is refused or times out is swallowed.
WebhookSettles(p) ==
  /\ run[p].at = "posting"
  /\ Moves(p, "alerting")
  /\ UNCHANGED watchVars

Stopped(p) ==
  /\ Becomes(p, [run[p] EXCEPT !.at = "idle", !.exit = 0])
  /\ UNCHANGED <<chains, file, commands, fileHistory>>

EndRound(p) ==
  /\ run[p].at = "alerting"
  /\ queue = {}
  /\ IF stop THEN Stopped(p) ELSE Moves(p, "sleeping")
  /\ UNCHANGED watchVars

Wake(p) ==
  /\ run[p].at = "sleeping"
  /\ IF stop THEN Stopped(p)
     ELSE /\ Becomes(p, [run[p] EXCEPT !.at = "capturing", !.taken = None])
          /\ UNCHANGED <<chains, file, commands, fileHistory>>
  /\ UNCHANGED watchVars

WatchStep(p) ==
  \/ BeginWatch(p)
  \/ Signal(p)
  \/ Round(p)
  \/ \E t \in [id : Addresses, kind : Kinds] : Emit(p, t)
  \/ WebhookSettles(p)
  \/ EndRound(p)
  \/ Wake(p)
-----------------------------------------------------------------------------
(***************************************************************************)
(* Whoever reads the alerts of a round that is over, even of the last one  *)
(* before a stop, knows which addresses were captured off the baseline     *)
(* that the process loaded, whatever became of the file since; no alert    *)
(* repeats the one before it (authority.ts:231-285).                       *)
(***************************************************************************)
AlertsTellStatus ==
  \A p \in Processes :
    run[p].sub = "watch" /\ (run[p].at = "sleeping" \/ run[p].exit = 0) =>
      /\ ~repeated
      /\ \A a \in Addresses :
           lastTold[a] = "drift"
             <=> a \in DOMAIN run[p].base /\ run[p].taken[a] # run[p].base[a]
=============================================================================
