------------------------------- MODULE Solvency -------------------------------
(***************************************************************************)
(* evmsec solvency: the options decide which routes are looked at, and     *)
(* whether they are searched for the onset of a breach (--since, module    *)
(* Bisect), watched, or checked once (module SolvencyWatch).  What the     *)
(* command does not use stays as it began.                                 *)
(***************************************************************************)
EXTENDS SolvencyWatch, Bisect

CONSTANTS
  Registry,     \* the routes of bridges.json
  AdHoc,        \* the route the ad-hoc flags describe
  Invocations   \* the options: [since, watch, adHoc, all, id]

ASSUME RegistryAssumption == Registry \cup {AdHoc} \subseteq Routes

NoId == "none"

VARIABLE opts

SolvencyInit ==
  /\ opts \in Invocations
  /\ WatchInit
  /\ Init
  /\ ~opts.since => broken = [b \in Blocks |-> FALSE] /\ head = 0

\* Ad-hoc flags come before --all, --all before an id, and a search takes one
\* route: with --since, --all is not looked at.
Selected ==
  IF opts.adHoc THEN {AdHoc}
  ELSE IF opts.all /\ ~opts.since THEN Registry
  ELSE {opts.id} \cap Registry

\* The registry cannot be read, or no route was asked for that it holds.
Refused(readable) ==
  ~opts.adHoc /\ (readable => ~(opts.all /\ ~opts.since) /\ opts.id \notin Registry)

Refuse ==
  /\ phase = "start"
  /\ \E readable \in BOOLEAN : Refused(readable)
  /\ phase' = "done" /\ exitCode' = 1
  /\ UNCHANGED <<stop, selection, checks, alerts, drops>>

Start ==
  /\ phase = "start"
  /\ \E readable \in BOOLEAN : ~Refused(readable)
  /\ routes' = Selected
  /\ watching' = (opts.watch /\ ~opts.since)
  /\ phase' = IF opts.since THEN "bisecting" ELSE "checking"
  /\ UNCHANGED <<stop, exitCode, checks, alerts, drops>>

\* loadCtx, then the search; its exit code is the command's.
Search == phase = "bisecting" /\ Next

SolvencyNext ==
  \/ (Refuse \/ Start) /\ UNCHANGED <<opts, vars>>
  \/ (Loop \/ Signal) /\ UNCHANGED <<opts, vars>>
  \/ Search /\ UNCHANGED <<opts, watchVars>>

SolvencyVars == <<opts, vars, watchVars>>

\* Fairness of the loop alone: RPC reads have a timeout and bounded retries,
\* fetch gives up on a silent server, and the timer fires.
SolvencySpec ==
  SolvencyInit /\ [][SolvencyNext]_SolvencyVars /\ WF_SolvencyVars(Loop /\ UNCHANGED <<opts, vars>>)
=============================================================================
