----------------------------- MODULE Watchtower -----------------------------
(***************************************************************************)
(* The Watchtower process (evmsec serve): the sweep loop of                *)
(* serve/monitor.ts over the part of serve/storage.ts it reads and writes, *)
(* the watch handlers of serve/server.ts, and the wiring of                *)
(* commands/serve.ts, with restarts and crashes of the process.            *)
(*                                                                         *)
(* Node runs one callback at a time.  A sweep gives the thread up twice:   *)
(* while it awaits the readings (pc = "checking") and while it awaits the  *)
(* webhook (pc = "posting").  Timer ticks and HTTP requests run only then  *)
(* or between sweeps; a crash can come anywhere, which is why the          *)
(* uninterrupted stretches are still cut into one step per write to disk.  *)
(*                                                                         *)
(* Per route the store is abstracted to its newest reading, in memory and  *)
(* on disk; module StoreLog has the ring, the log file and its compaction. *)
(***************************************************************************)
EXTENDS SolvencyCore, FiniteSets

CONSTANTS
  Registry,        \* the routes of bridges.json
  Watches,         \* the watch ids there are to hand out
  Outcomes,        \* what a check of a route may read
  DefaultRatio,    \* --min-ratio
  WatchRatio,      \* watch id -> the threshold it is created with
  Faults           \* which failures may happen, a subset of FaultKinds

FaultKinds == {"crash",        \* the process dies at any step
               "torn",         \* ... and may leave watches.json half written
               "appendFails",  \* an append to a .jsonl file throws (disk full)
               "sweepThrows"}  \* loadRoutes throws on an unreadable registry

Routes == Registry \cup Watches

ASSUME ConstantsAssumption ==
  /\ Registry \cap Watches = {}
  /\ Outcomes \subseteq Readings
  /\ Outcomes # {}
  /\ DefaultRatio \in Nat
  /\ WatchRatio \in [Watches -> Nat]
  /\ Faults \subseteq FaultKinds

NoReading == [verdict |-> "NONE", ratio |-> NoRatio]
Corrupt == {"corrupt"}        \* a watches.json that does not parse
ASSUME CorruptAssumption == "corrupt" \notin Routes

VARIABLES
  \* the process
  up,            \* the process runs
  pc,            \* where the sweep is
  rerun,         \* Monitor.rerun: a sweep was asked for during this one
  batch,         \* the routes of the running sweep, read when it began
  results,       \* route -> its reading in the running sweep
  todo,          \* routes of the batch whose reading is not yet stored
  queue,         \* alerts computed and not yet dispatched
  failing,       \* Monitor.failing: the routes mapped to true
  watches,       \* Store.watchList
  latest,        \* route -> last element of its ring in memory
  board,         \* route -> its reading in Monitor.last
  \* the data directory
  diskWatches,   \* watches.json
  diskLatest,    \* route -> last line of its .jsonl file
  lastAlert,     \* route -> the kind of its last line in alerts.jsonl
  prevAlert,     \* route -> the kind of the line before that
  \* history, not in the code
  spent,         \* watch ids handed out so far
  acked,         \* watches whose POST was answered 201 and that nobody deleted
  seen           \* route -> the statuses stored since its last alert

memory  == <<up, pc, rerun, batch, results, todo, queue, failing, watches, latest, board>>
disk    == <<diskWatches, diskLatest, lastAlert, prevAlert>>
history == <<spent, acked, seen>>
vars    == <<memory, disk, history>>

Phases == {"idle", "checking", "recording", "judging", "alerting", "posting"}

\* The points where other callbacks may run.
Yielded == pc \in {"idle", "checking", "posting"}

\* minRatioFor: a watch's own threshold while the watch is listed, else the default.
minRatioFor(ws, r) == IF r \in ws THEN WatchRatio[r] ELSE DefaultRatio
Fails(ws, reading, r) == isRouteFailing(reading, minRatioFor(ws, r))

\* The status the data directory holds for r.
StoredFailing(ws, stored) ==
  {r \in Routes : stored[r] # NoReading /\ Fails(ws, stored[r], r)}

\* Registry + watches, re-read at every sweep.
sweepRoutes(ws) == Registry \cup ws
-----------------------------------------------------------------------------
Init ==
  /\ up = FALSE /\ pc = "idle" /\ rerun = FALSE
  /\ batch = {} /\ results = [r \in Routes |-> NoReading] /\ todo = {} /\ queue = {}
  /\ failing = {} /\ watches = {}
  /\ latest = [r \in Routes |-> NoReading]
  /\ board  = [r \in Routes |-> NoReading]
  /\ diskWatches = {}
  /\ diskLatest = [r \in Routes |-> NoReading]
  /\ lastAlert = [r \in Routes |-> "none"]
  /\ prevAlert = [r \in Routes |-> "none"]
  /\ spent = {} /\ acked = {}
  /\ seen = [r \in Routes |-> {}]

\* sweep(), first half: the flag is taken and the routes are read.
BeginSweep(ws) ==
  /\ pc' = "checking"
  /\ batch' = sweepRoutes(ws)

\* sweep() on entry: never two at a time, but the request is kept.
RequestSweep(ws) ==
  IF pc = "idle"
  THEN BeginSweep(ws) /\ UNCHANGED rerun
  ELSE rerun' = TRUE /\ UNCHANGED <<pc, batch>>

\* Mutant: the kept request is forgotten.
EndSweepDropsRerun ==
  /\ results' = [r \in Routes |-> NoReading]
  /\ todo' = {} /\ queue' = {}
  /\ rerun' = FALSE
  /\ pc' = "idle" /\ batch' = {}

\* sweep()'s finally block: a kept request starts the next sweep at once.
EndSweep ==
  /\ results' = [r \in Routes |-> NoReading]
  /\ todo' = {} /\ queue' = {}
  /\ rerun' = FALSE
  /\ IF rerun THEN BeginSweep(watches) ELSE pc' = "idle" /\ batch' = {}
-----------------------------------------------------------------------------
(***************************************************************************)
(* The life of the process.                                                *)
(***************************************************************************)
\* Mutant: the failing map starts empty.
BootUnseeded ==
  /\ ~up
  /\ diskWatches # Corrupt
  /\ up' = TRUE
  /\ watches' = diskWatches
  /\ latest' = diskLatest
  /\ failing' = {}
  /\ BeginSweep(diskWatches)
  /\ UNCHANGED <<rerun, results, todo, queue, board, disk, history>>

\* Mutant: a watches file that does not parse is taken for an empty one.
BootTolerant ==
  /\ ~up
  /\ up' = TRUE
  /\ watches' = diskWatches \ Corrupt
  /\ latest' = diskLatest
  /\ failing' = StoredFailing(watches', diskLatest)
  /\ BeginSweep(watches')
  /\ UNCHANGED <<rerun, results, todo, queue, board, disk, history>>

\* Store.load, the Monitor constructor (which seeds failing from the stored
\* readings), and Monitor.start, which sweeps at once.  A watches.json that
\* does not parse makes the constructor throw: the process does not come up.
Boot ==
  /\ ~up
  /\ diskWatches # Corrupt
  /\ up' = TRUE
  /\ watches' = diskWatches
  /\ latest' = diskLatest
  /\ failing' = StoredFailing(diskWatches, diskLatest)
  /\ BeginSweep(diskWatches)
  /\ UNCHANGED <<rerun, results, todo, queue, board, disk, history>>

\* The memory of a process that is gone.
MemoryLost ==
  /\ up' = FALSE /\ pc' = "idle" /\ rerun' = FALSE
  /\ batch' = {} /\ results' = [r \in Routes |-> NoReading] /\ todo' = {} /\ queue' = {}
  /\ failing' = {} /\ watches' = {}
  /\ latest' = [r \in Routes |-> NoReading]
  /\ board'  = [r \in Routes |-> NoReading]

\* SIGINT or SIGTERM: no more ticks and requests; the loop drains, so a
\* sweep in flight is finished before the process ends.
Shutdown ==
  /\ up
  /\ pc = "idle"
  /\ MemoryLost
  /\ UNCHANGED <<disk, history>>

Crash ==
  /\ up
  /\ "crash" \in Faults
  /\ MemoryLost
  /\ UNCHANGED <<disk, history>>

\* removeWatch has rewritten watches.json and has not reached rmSync.
CrashInRemove(w) ==
  /\ up /\ Yielded
  /\ "crash" \in Faults
  /\ w \in watches
  /\ diskWatches' = watches \ {w}
  /\ acked' = acked \ {w}
  /\ MemoryLost
  /\ UNCHANGED <<diskLatest, lastAlert, prevAlert, spent, seen>>

\* persistWatches truncates the file before it writes it.
CrashInPersist ==
  /\ up /\ Yielded
  /\ "torn" \in Faults
  /\ diskWatches' = Corrupt
  /\ MemoryLost
  /\ UNCHANGED <<diskLatest, lastAlert, prevAlert, history>>
-----------------------------------------------------------------------------
(***************************************************************************)
(* The sweep.                                                              *)
(***************************************************************************)
Tick ==
  /\ up /\ Yielded
  /\ RequestSweep(watches)
  /\ UNCHANGED <<up, results, todo, queue, failing, watches, latest, board, disk, history>>

\* deps.check resolves with one reading per route of the batch.
CheckResolves ==
  /\ pc = "checking"
  /\ \E read \in [batch -> Outcomes] :
       results' = [r \in Routes |-> IF r \in batch THEN read[r] ELSE NoReading]
  /\ todo' = batch
  /\ pc' = IF batch = {} THEN "judging" ELSE "recording"
  /\ UNCHANGED <<up, rerun, batch, queue, failing, watches, latest, board, disk, history>>

\* deps.routes throws before anything is read; the catch block logs it.
SweepThrows ==
  /\ pc = "checking"
  /\ "sweepThrows" \in Faults
  /\ EndSweep
  /\ UNCHANGED <<up, failing, watches, latest, board, disk, history>>

\* store.appendObservation of one result.
Record(r) ==
  /\ pc = "recording"
  /\ r \in todo
  /\ latest' = [latest EXCEPT ![r] = results[r]]
  /\ diskLatest' = [diskLatest EXCEPT ![r] = results[r]]
  /\ seen' = [seen EXCEPT ![r] = @ \cup {Fails(watches, results[r], r)}]
  /\ todo' = todo \ {r}
  /\ pc' = IF todo' = {} THEN "judging" ELSE pc
  /\ UNCHANGED <<up, rerun, batch, results, queue, failing, watches, board,
                 diskWatches, lastAlert, prevAlert, spent, acked>>

\* ... the ring is pushed before the append throws, which ends the sweep.
RecordFails(r) ==
  /\ pc = "recording"
  /\ r \in todo
  /\ "appendFails" \in Faults
  /\ latest' = [latest EXCEPT ![r] = results[r]]
  /\ EndSweep
  /\ UNCHANGED <<up, failing, watches, board, disk, history>>

\* Mutant: the failing map is updated before the transitions are computed.
JudgeUpdatesFirst ==
  /\ pc = "judging"
  /\ LET now == {r \in batch : Fails(watches, results[r], r)}
     IN  /\ failing' = (failing \ batch) \cup now
         /\ queue' = computeTransitions(failing', batch, now)
  /\ pc' = "alerting"
  /\ UNCHANGED <<up, rerun, batch, results, todo, watches, latest, board, disk, history>>

\* Mutant: a route that recovered is never taken out of the map.
JudgeNeverClears ==
  /\ pc = "judging"
  /\ LET now == {r \in batch : Fails(watches, results[r], r)}
     IN  /\ queue' = computeTransitions(failing, batch, now)
         /\ failing' = failing \cup now
  /\ pc' = "alerting"
  /\ UNCHANGED <<up, rerun, batch, results, todo, watches, latest, board, disk, history>>

\* The transitions of the whole batch, and the failing map they update.
Judge ==
  /\ pc = "judging"
  /\ LET now == {r \in batch : Fails(watches, results[r], r)}
     IN  /\ queue' = computeTransitions(failing, batch, now)
         /\ failing' = (failing \ batch) \cup now
  /\ pc' = "alerting"
  /\ UNCHANGED <<up, rerun, batch, results, todo, watches, latest, board, disk, history>>

\* store.appendAlert, the SSE broadcast, and the webhook POST being sent.
Alert(a) ==
  /\ pc = "alerting"
  /\ a \in queue
  /\ queue' = queue \ {a}
  /\ lastAlert' = [lastAlert EXCEPT ![a.id] = a.kind]
  /\ prevAlert' = [prevAlert EXCEPT ![a.id] = lastAlert[a.id]]
  /\ seen' = [seen EXCEPT ![a.id] = {}]
  /\ pc' = "posting"
  /\ UNCHANGED <<up, rerun, batch, results, todo, failing, watches, latest, board,
                 diskWatches, diskLatest, spent, acked>>

\* ... the append throws: the sweep ends, and the rest of the queue with it.
AlertFails(a) ==
  /\ pc = "alerting"
  /\ a \in queue
  /\ "appendFails" \in Faults
  /\ EndSweep
  /\ UNCHANGED <<up, failing, watches, latest, board, disk, history>>

\* The webhook answers, refuses or times out: postWebhook swallows all three.
WebhookSettles ==
  /\ pc = "posting"
  /\ pc' = "alerting"
  /\ UNCHANGED <<up, rerun, batch, results, todo, queue, failing, watches, latest, board,
                 disk, history>>

\* The snapshot is rebuilt from the store, kept and broadcast.
Publish ==
  /\ pc = "alerting"
  /\ queue = {}
  /\ board' = latest
  /\ EndSweep
  /\ UNCHANGED <<up, failing, watches, latest, disk, history>>
-----------------------------------------------------------------------------
(***************************************************************************)
(* The watch handlers.  The body is read before the store is touched, so   *)
(* from there to the answer a handler is one callback.                     *)
(***************************************************************************)
addWatch(w) ==
  /\ watches' = watches \cup {w}
  /\ diskWatches' = watches'

PostWatch(w) ==
  /\ up /\ Yielded
  /\ w \in Watches \ spent
  /\ addWatch(w)
  /\ spent' = spent \cup {w}
  /\ acked' = acked \cup {w}
  /\ RequestSweep(watches')
  /\ UNCHANGED <<up, results, todo, queue, failing, latest, board,
                 diskLatest, lastAlert, prevAlert, seen>>

\* Mutant: the shorter list is not written back.
removeWatchUnsaved(w) ==
  /\ watches' = watches \ {w}
  /\ diskWatches' = diskWatches
  /\ latest' = [latest EXCEPT ![w] = NoReading]
  /\ diskLatest' = [diskLatest EXCEPT ![w] = NoReading]

removeWatch(w) ==
  /\ watches' = watches \ {w}
  /\ diskWatches' = watches'
  /\ latest' = [latest EXCEPT ![w] = NoReading]
  /\ diskLatest' = [diskLatest EXCEPT ![w] = NoReading]

\* Mutant: the handler does not ask for a sweep.
DeleteWatchNoSweep(w) ==
  /\ up /\ Yielded
  /\ w \in watches
  /\ removeWatch(w)
  /\ acked' = acked \ {w}
  /\ seen' = [seen EXCEPT ![w] = {}]
  /\ UNCHANGED <<up, pc, rerun, batch, results, todo, queue, failing, board,
                 lastAlert, prevAlert, spent>>

DeleteWatch(w) ==
  /\ up /\ Yielded
  /\ w \in watches
  /\ removeWatch(w)
  /\ acked' = acked \ {w}
  /\ seen' = [seen EXCEPT ![w] = {}]
  /\ RequestSweep(watches')
  /\ UNCHANGED <<up, results, todo, queue, failing, board, lastAlert, prevAlert, spent>>
-----------------------------------------------------------------------------
SweepStep ==
  \/ CheckResolves
  \/ \E r \in Routes : Record(r)
  \/ Judge
  \/ \E a \in Alerts(Routes) : Alert(a)
  \/ WebhookSettles
  \/ Publish

SweepFault ==
  \/ SweepThrows
  \/ \E r \in Routes : RecordFails(r)
  \/ \E a \in Alerts(Routes) : AlertFails(a)

Next ==
  \/ Boot \/ Shutdown \/ Crash \/ CrashInPersist
  \/ Tick
  \/ SweepStep
  \/ SweepFault
  \/ \E w \in Watches : PostWatch(w) \/ DeleteWatch(w) \/ CrashInRemove(w)

Spec == Init /\ [][Next]_vars

(***************************************************************************)
(* Fairness: a sweep under way goes on.  The readings settle because every *)
(* RPC request has a timeout and a bounded number of retries; the webhook  *)
(* settles because fetch gives up on an unanswered request.  Nothing is    *)
(* assumed of the timer, of the users or of the operator.                  *)
(***************************************************************************)
FairSpec == Spec /\ WF_vars(SweepStep)
-----------------------------------------------------------------------------
TypeOK ==
  /\ up \in BOOLEAN /\ rerun \in BOOLEAN
  /\ pc \in Phases
  /\ batch \subseteq Routes /\ todo \subseteq batch
  /\ results \in [Routes -> Outcomes \cup {NoReading}]
  /\ queue \subseteq Alerts(Routes)
  /\ failing \subseteq Routes /\ watches \subseteq Watches
  /\ latest \in [Routes -> Outcomes \cup {NoReading}]
  /\ board \in [Routes -> Outcomes \cup {NoReading}]
  /\ diskWatches \subseteq Watches \/ diskWatches = Corrupt
  /\ diskLatest \in [Routes -> Outcomes \cup {NoReading}]
  /\ lastAlert \in [Routes -> Kinds \cup {"none"}]
  /\ prevAlert \in [Routes -> Kinds \cup {"none"}]
  /\ spent \subseteq Watches /\ acked \subseteq spent
  /\ seen \in [Routes -> SUBSET BOOLEAN]

\* The routes somebody asked to be monitored.
Live == sweepRoutes(IF up THEN watches ELSE diskWatches \cap Watches)

Quiet == up /\ pc = "idle"

(***************************************************************************)
(* Between sweeps the failing map is what the store says: a restart at     *)
(* that moment would rebuild the same map (serve/monitor.ts:79-83 seeds it *)
(* from the store, :111 maintains it).  It holds whatever crashed before.  *)
(***************************************************************************)
FailingMatchesStore ==
  Quiet => \A r \in Live : r \in failing <=> r \in StoredFailing(watches, diskLatest)

(***************************************************************************)
(* Between sweeps the last alert of every monitored route tells its        *)
(* present status, and no alert repeats the one before it: one alert per   *)
(* change (docs/watchtower.md:326), none lost and none doubled, whatever   *)
(* requests came in while the sweep was waiting.                           *)
(***************************************************************************)
AlertsTellStatus ==
  /\ Quiet => \A r \in Live : r \in failing <=> lastAlert[r] = "breach"
  /\ \A r \in Live : lastAlert[r] # "none" => prevAlert[r] # lastAlert[r]

(***************************************************************************)
(* No alert is about to repeat the last one of its route unless the        *)
(* opposite status was stored in between: a restart, after a crash at any  *)
(* step, does not page again for a breach it already paged for             *)
(* (serve/monitor.test.ts:88).                                             *)
(***************************************************************************)
NoRepeatedAlert ==
  \A a \in queue :
    a.id \in Live /\ a.kind = lastAlert[a.id] => (a.kind # "breach") \in seen[a.id]

(***************************************************************************)
(* Between sweeps the snapshot that the API serves is the store's: no      *)
(* handler leaves it behind (serve/monitor.ts:123 rebuilds it last, and    *)
(* POST and DELETE ask for a sweep).                                       *)
(***************************************************************************)
BoardIsStore == Quiet => board = latest

(***************************************************************************)
(* A running process monitors every watch it acknowledged: no crash, not   *)
(* even one that tears watches.json, lets the process come up with a watch *)
(* missing (serve/storage.ts:99-106, :164-186).                            *)
(***************************************************************************)
AckedWatchesMonitored == up => acked \subseteq watches

(***************************************************************************)
(* A watch that was deleted stays deleted: it is never listed again, by    *)
(* this process or a later one, whatever crashed.                          *)
(***************************************************************************)
DeletedStaysDeleted ==
  [][\A w \in spent : w \notin watches /\ up => w \notin watches' /\ w \notin diskWatches']_vars

(***************************************************************************)
(* A watch appears on the board without waiting for the timer: a sweep     *)
(* asked for during a sweep is queued, not dropped (serve/monitor.ts:97).  *)
(***************************************************************************)
WatchAppears ==
  \A w \in Watches : w \in watches ~> board[w] # NoReading \/ w \notin watches

(***************************************************************************)
(* Every row of the board belongs to a monitored route.  The comment in    *)
(* removeWatch says so (serve/storage.ts:176-177) and so does its test;    *)
(* a delete that lands while the check is awaited breaks it.               *)
(***************************************************************************)
NoGhostRow == Quiet => \A r \in Routes : board[r] # NoReading => r \in Live

(***************************************************************************)
(* Without faults the monitor implements AlertLedger.  While the process   *)
(* is down, what it knows is what it would seed its map with.              *)
(***************************************************************************)
KnownFailing ==
  Live \cap IF up THEN failing ELSE StoredFailing(diskWatches, diskLatest)

Ledger == INSTANCE AlertLedger WITH
  known    <- KnownFailing,
  lastTold <- [r \in Routes |-> IF r \in Live THEN lastAlert[r] ELSE "none"],
  prevTold <- [r \in Routes |-> IF r \in Live THEN prevAlert[r] ELSE "none"]

ImplementsAlertLedger == Ledger!Spec
=============================================================================
