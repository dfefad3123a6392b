---------------------------- MODULE WatchtowerDisk ----------------------------
(***************************************************************************)
(* The Watchtower over the files it writes.  Module Watchtower takes the   *)
(* newest reading of a route to be on disk once it is stored, module       *)
(* StoreLog follows one route's file line by line; DiskSpec checks each on *)
(* its own.  TornSpec puts into the one what it leaves to the other: an *)
(* append that a crash cuts short, and the next, written behind the rest.  *)
(***************************************************************************)
EXTENDS Watchtower, StoreLog

VARIABLES
  part,    \* what is looked at
  torn     \* the routes whose file ends in the middle of a line

DiskVars == <<vars, logVars, part, torn>>

DiskInit(parts) == Init /\ LogInit /\ part \in parts /\ torn = {}

DiskNext ==
  \/ part = "monitor" /\ Next /\ UNCHANGED <<logVars, part, torn>>
  \/ part = "log" /\ LogNext /\ UNCHANGED <<vars, part, torn>>

\* With the fairness of Watchtower: a sweep under way goes on.
DiskSpec ==
  /\ DiskInit({"monitor", "log"}) /\ [][DiskNext]_DiskVars
  /\ WF_DiskVars(part = "monitor" /\ SweepStep /\ UNCHANGED <<logVars, part, torn>>)
-----------------------------------------------------------------------------
\* The process dies inside appendObservation.
CrashInRecord(r) ==
  /\ pc = "recording" /\ r \in todo
  /\ torn' = torn \cup {r}
  /\ MemoryLost
  /\ UNCHANGED <<disk, history>>

\* The observation continues the torn line: a load skips both.  In memory it
\* is there.
RecordBehind(r) ==
  /\ pc = "recording" /\ r \in todo \cap torn
  /\ torn' = torn \ {r}
  /\ latest' = [latest EXCEPT ![r] = results[r]]
  /\ seen' = [seen EXCEPT ![r] = @ \cup {Fails(watches, results[r], r)}]
  /\ todo' = todo \ {r}
  /\ pc' = IF todo' = {} THEN "judging" ELSE pc
  /\ UNCHANGED <<up, rerun, batch, results, queue, failing, watches, board, disk, spent, acked>>

TornNext ==
  \/ \E r \in Routes : CrashInRecord(r) \/ RecordBehind(r)
  \/ /\ \/ Boot \/ Shutdown \/ Tick
        \/ \E r \in Routes \ torn : Record(r)
        \/ CheckResolves \/ Judge \/ WebhookSettles \/ Publish
        \/ \E a \in Alerts(Routes) : Alert(a)
     /\ UNCHANGED torn

TornSpec == DiskInit({"torn"}) /\ [][TornNext /\ UNCHANGED <<logVars, part>>]_DiskVars
=============================================================================
