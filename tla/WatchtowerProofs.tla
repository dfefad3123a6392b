-------------------------- MODULE WatchtowerProofs --------------------------
(***************************************************************************)
(* Theorems about the Watchtower, for every registry, pool of watches, set *)
(* of readings and thresholds, and about the log files it keeps, for every *)
(* size of the ring and of a file.  What a theorem assumes of Faults is in *)
(* its statement.                                                          *)
(***************************************************************************)
EXTENDS WatchtowerDisk, RecursionLemmas

\* Every set of transitions is a set of alerts for the routes swept or known.
LEMMA TransitionsTyped ==
  ASSUME NEW prev \in SUBSET Routes, NEW swept \in SUBSET Routes, NEW now \in SUBSET Routes
  PROVE  computeTransitions(prev, swept, now) \subseteq Alerts(Routes)
  BY DEF computeTransitions, Alerts, Kinds

\* The end of a sweep leaves the sweep's own variables well typed.
LEMMA EndSweepTyped ==
  ASSUME TypeOK, EndSweep
  PROVE  /\ pc' \in Phases /\ rerun' \in BOOLEAN
         /\ batch' \subseteq Routes /\ todo' \subseteq batch'
         /\ results' \in [Routes -> Outcomes \cup {NoReading}]
         /\ queue' \subseteq Alerts(Routes)
  BY DEF TypeOK, EndSweep, BeginSweep, sweepRoutes, Phases, Routes

\* Asking for a sweep keeps the types.
LEMMA RequestSweepTyped ==
  ASSUME TypeOK, NEW ws \in SUBSET Watches, RequestSweep(ws), todo = {} \/ pc # "idle"
  PROVE  /\ pc' \in Phases /\ rerun' \in BOOLEAN
         /\ batch' \subseteq Routes /\ todo \subseteq batch'
  BY DEF TypeOK, RequestSweep, BeginSweep, sweepRoutes, Phases, Routes

\* Losing the process keeps the types of what it loses.
LEMMA MemoryLostTyped ==
  ASSUME MemoryLost
  PROVE  /\ up' \in BOOLEAN /\ rerun' \in BOOLEAN /\ pc' \in Phases
         /\ batch' \subseteq Routes /\ todo' \subseteq batch'
         /\ results' \in [Routes -> Outcomes \cup {NoReading}]
         /\ queue' \subseteq Alerts(Routes)
         /\ failing' \subseteq Routes /\ watches' \subseteq Watches
         /\ latest' \in [Routes -> Outcomes \cup {NoReading}]
         /\ board' \in [Routes -> Outcomes \cup {NoReading}]
  BY DEF MemoryLost, Phases

(***************************************************************************)
(* Type correctness needs to know which of the sweep's variables are empty *)
(* in which phase: RequestSweep takes a new batch only when nothing of the *)
(* last one is left.                                                       *)
(***************************************************************************)
PhaseInv ==
  /\ ~up => pc = "idle"
  /\ pc \in {"idle", "checking", "recording", "judging"} => queue = {}
  /\ pc # "recording" => todo = {}

TypeInv == TypeOK /\ PhaseInv

\* The types hold at the start.
LEMMA InitTypeInv == Init => TypeInv
  BY DEF Init, TypeInv, TypeOK, PhaseInv, Phases, Routes, Alerts, Kinds

\* Every step keeps the types.
LEMMA NextTypeInv == TypeInv /\ [Next]_vars => TypeInv'
<1> SUFFICES ASSUME TypeInv, [Next]_vars PROVE TypeInv'
  OBVIOUS
<1> USE DEF TypeInv
<1>1. CASE Boot
  <2>1. watches' \subseteq Watches /\ batch' \subseteq Routes
    BY <1>1 DEF Boot, TypeOK, BeginSweep, sweepRoutes, Routes
  <2>2. failing' \subseteq Routes
    BY <1>1 DEF Boot, StoredFailing
  <2>3. todo = {} /\ queue = {} /\ todo' = {} /\ queue' = {}
    BY <1>1 DEF Boot, PhaseInv
  <2> QED
    BY <1>1, <2>1, <2>2, <2>3 DEF Boot, TypeOK, PhaseInv, BeginSweep, Phases, disk, history
<1>2. CASE Shutdown
  BY <1>2, MemoryLostTyped DEF Shutdown, TypeOK, PhaseInv, MemoryLost, disk, history
<1>3. CASE Crash
  BY <1>3, MemoryLostTyped DEF Crash, TypeOK, PhaseInv, MemoryLost, disk, history
<1>4. CASE CrashInPersist
  BY <1>4, MemoryLostTyped DEF CrashInPersist, TypeOK, PhaseInv, MemoryLost, history
<1>5. CASE Tick
  <2>1. /\ pc' \in Phases /\ rerun' \in BOOLEAN
        /\ batch' \subseteq Routes /\ todo \subseteq batch'
    BY <1>5, RequestSweepTyped DEF Tick, TypeOK, PhaseInv
  <2> QED
    BY <1>5, <2>1 DEF Tick, TypeOK, PhaseInv, RequestSweep, BeginSweep, disk, history
<1>6. CASE CheckResolves
  BY <1>6 DEF CheckResolves, TypeOK, PhaseInv, Phases, disk, history
<1>7. CASE Judge
  <2>1. queue' \subseteq Alerts(Routes) /\ failing' \subseteq Routes
    BY <1>7, TransitionsTyped DEF Judge, TypeOK
  <2> QED
    BY <1>7, <2>1 DEF Judge, TypeOK, PhaseInv, Phases, disk, history
<1>8. CASE WebhookSettles
  BY <1>8 DEF WebhookSettles, TypeOK, PhaseInv, Phases, disk, history
<1>9. CASE Publish
  <2>1. todo' = {} /\ queue' = {} /\ up' = up /\ pc' \in {"idle", "checking"} /\ up
    BY <1>9 DEF Publish, EndSweep, BeginSweep, PhaseInv
  <2> QED
    BY <1>9, <2>1, EndSweepTyped DEF Publish, TypeOK, PhaseInv, disk, history
<1>10. CASE SweepThrows
  <2>1. todo' = {} /\ queue' = {} /\ up' = up /\ pc' \in {"idle", "checking"} /\ up
    BY <1>10 DEF SweepThrows, EndSweep, BeginSweep, PhaseInv
  <2> QED
    BY <1>10, <2>1, EndSweepTyped DEF SweepThrows, TypeOK, PhaseInv, disk, history
<1>11. ASSUME NEW r \in Routes, Record(r) PROVE TypeInv'
  <2>1. /\ latest' \in [Routes -> Outcomes \cup {NoReading}]
        /\ diskLatest' \in [Routes -> Outcomes \cup {NoReading}]
    BY <1>11 DEF Record, TypeOK
  <2>2. Fails(watches, results[r], r) \in BOOLEAN
    BY DEF Fails, isRouteFailing
  <2>3. seen' \in [Routes -> SUBSET BOOLEAN]
    BY <1>11, <2>2 DEF Record, TypeOK
  <2>4. pc' \in {"recording", "judging"} /\ (pc' # "recording" => todo' = {}) /\ queue' = {}
    BY <1>11 DEF Record, PhaseInv
  <2> QED
    BY <1>11, <2>1, <2>3, <2>4 DEF Record, TypeOK, PhaseInv, Phases
<1>12. ASSUME NEW r \in Routes, RecordFails(r) PROVE TypeInv'
  <2>1. todo' = {} /\ queue' = {} /\ up' = up /\ pc' \in {"idle", "checking"} /\ up
    BY <1>12 DEF RecordFails, EndSweep, BeginSweep, PhaseInv
  <2> QED
    BY <1>12, <2>1, EndSweepTyped DEF RecordFails, TypeOK, PhaseInv, disk, history
<1>13. ASSUME NEW a \in Alerts(Routes), Alert(a) PROVE TypeInv'
  <2>1. a.id \in Routes /\ a.kind \in Kinds
    BY DEF Alerts
  <2> QED
    BY <1>13, <2>1 DEF Alert, TypeOK, PhaseInv, Phases
<1>14. ASSUME NEW a \in Alerts(Routes), AlertFails(a) PROVE TypeInv'
  <2>1. todo' = {} /\ queue' = {} /\ up' = up /\ pc' \in {"idle", "checking"} /\ up
    BY <1>14 DEF AlertFails, EndSweep, BeginSweep, PhaseInv
  <2> QED
    BY <1>14, <2>1, EndSweepTyped DEF AlertFails, TypeOK, PhaseInv, disk, history
<1>15. ASSUME NEW w \in Watches, PostWatch(w) PROVE TypeInv'
  <2>1. watches' \subseteq Watches /\ diskWatches' \subseteq Watches
    BY <1>15 DEF PostWatch, addWatch, TypeOK
  <2>2. /\ pc' \in Phases /\ rerun' \in BOOLEAN
        /\ batch' \subseteq Routes /\ todo \subseteq batch'
    BY <1>15, <2>1, RequestSweepTyped DEF PostWatch, TypeOK, PhaseInv
  <2> QED
    BY <1>15, <2>1, <2>2 DEF PostWatch, TypeOK, PhaseInv, RequestSweep, BeginSweep
<1>16. ASSUME NEW w \in Watches, DeleteWatch(w) PROVE TypeInv'
  <2>1. watches' \subseteq Watches /\ diskWatches' \subseteq Watches
    BY <1>16 DEF DeleteWatch, removeWatch, TypeOK
  <2>2. /\ pc' \in Phases /\ rerun' \in BOOLEAN
        /\ batch' \subseteq Routes /\ todo \subseteq batch'
    BY <1>16, <2>1, RequestSweepTyped DEF DeleteWatch, TypeOK, PhaseInv
  <2>3. /\ latest' \in [Routes -> Outcomes \cup {NoReading}]
        /\ diskLatest' \in [Routes -> Outcomes \cup {NoReading}]
    BY <1>16 DEF DeleteWatch, removeWatch, TypeOK
  <2> QED
    BY <1>16, <2>1, <2>2, <2>3
    DEF DeleteWatch, TypeOK, PhaseInv, RequestSweep, BeginSweep
<1>17. ASSUME NEW w \in Watches, CrashInRemove(w) PROVE TypeInv'
  BY <1>17, MemoryLostTyped DEF CrashInRemove, TypeOK, PhaseInv, MemoryLost
<1>18. CASE UNCHANGED vars
  BY <1>18 DEF vars, memory, disk, history, TypeOK, PhaseInv
<1> QED
  BY <1>1, <1>2, <1>3, <1>4, <1>5, <1>6, <1>7, <1>8, <1>9, <1>10, <1>11, <1>12, <1>13,
     <1>14, <1>15, <1>16, <1>17, <1>18 DEF Next, SweepStep, SweepFault

\* So the types are an invariant.
LEMMA TypeInvariant == Spec => []TypeInv
  BY InitTypeInv, NextTypeInv, PTL DEF Spec

(***************************************************************************)
(* Every variable of the process and of the data directory keeps its type, *)
(* under every combination of faults (serve/monitor.ts, serve/storage.ts). *)
(***************************************************************************)
THEOREM TypeCorrect == Spec => []TypeOK
  BY TypeInvariant, PTL DEF TypeInv
-----------------------------------------------------------------------------
(***************************************************************************)
(* Watches.  The list in memory and the file agree while the process runs, *)
(* the file holds every acknowledged watch unless it is torn, and an id    *)
(* that was never handed out has left no trace anywhere.                   *)
(***************************************************************************)
WatchInv ==
  /\ up => watches = diskWatches
  /\ diskWatches # Corrupt => acked \subseteq diskWatches /\ diskWatches \subseteq spent
  /\ watches \subseteq spent

\* A corrupt watches file is told apart from every list and watch.
LEMMA CorruptIsNoList ==
  /\ \A ws \in SUBSET Watches : ws # Corrupt
  /\ \A w \in Watches : w \notin Corrupt
  BY CorruptAssumption DEF Corrupt, Routes

\* Watches in memory, on disk and acknowledged agree at the start.
LEMMA InitWatchInv == Init => WatchInv
  BY DEF Init, WatchInv

\* Every step keeps them in agreement.
LEMMA NextWatchInv == TypeInv /\ WatchInv /\ [Next]_vars => WatchInv'
<1> SUFFICES ASSUME TypeInv, WatchInv, [Next]_vars PROVE WatchInv'
  OBVIOUS
<1> USE DEF WatchInv
<1>1. CASE Boot
  BY <1>1 DEF Boot, disk, history
<1>2. CASE Shutdown \/ Crash
  BY <1>2 DEF Shutdown, Crash, MemoryLost, disk, history
<1>3. CASE CrashInPersist
  BY <1>3 DEF CrashInPersist, MemoryLost, history
<1>4. CASE Tick \/ SweepThrows \/ CheckResolves \/ Judge \/ WebhookSettles \/ Publish
  BY <1>4 DEF Tick, SweepThrows, CheckResolves, Judge, WebhookSettles, Publish, disk, history
<1>5. ASSUME NEW r \in Routes, Record(r) \/ RecordFails(r) PROVE WatchInv'
  BY <1>5 DEF Record, RecordFails, disk, history
<1>6. ASSUME NEW a \in Alerts(Routes), Alert(a) \/ AlertFails(a) PROVE WatchInv'
  BY <1>6 DEF Alert, AlertFails, disk, history
<1>7. ASSUME NEW w \in Watches, PostWatch(w) PROVE WatchInv'
  BY <1>7, CorruptIsNoList DEF PostWatch, addWatch, TypeInv, TypeOK
<1>8. ASSUME NEW w \in Watches, DeleteWatch(w) PROVE WatchInv'
  BY <1>8, CorruptIsNoList DEF DeleteWatch, removeWatch, TypeInv, TypeOK
<1>9. ASSUME NEW w \in Watches, CrashInRemove(w) PROVE WatchInv'
  BY <1>9, CorruptIsNoList DEF CrashInRemove, MemoryLost, TypeInv, TypeOK
<1>10. CASE UNCHANGED vars
  BY <1>10 DEF vars, memory, disk, history
<1> QED
  BY <1>1, <1>2, <1>3, <1>4, <1>5, <1>6, <1>7, <1>8, <1>9, <1>10 DEF Next, SweepStep, SweepFault

\* So their agreement is an invariant.
LEMMA WatchInvariant == Spec => []WatchInv
  BY InitWatchInv, NextWatchInv, TypeInvariant, PTL DEF Spec

(***************************************************************************)
(* A running process monitors every watch it acknowledged, under every     *)
(* combination of faults, torn files included: a process that could not    *)
(* read the list does not come up (serve/storage.ts:99-106).               *)
(***************************************************************************)
THEOREM AckedWatchesAreMonitored == Spec => []AckedWatchesMonitored
<1>1. TypeInv /\ WatchInv => AckedWatchesMonitored
  BY CorruptIsNoList DEF TypeInv, TypeOK, WatchInv, AckedWatchesMonitored
<1> QED
  BY <1>1, TypeInvariant, WatchInvariant, PTL

(***************************************************************************)
(* A deleted watch is never listed again, by this process or a later one   *)
(* (serve/storage.ts:171-182).                                             *)
(***************************************************************************)
THEOREM DeletedWatchesStayDeleted == Spec => DeletedStaysDeleted
<1>1. ASSUME TypeInv, WatchInv, [Next]_vars
      PROVE  [\A w \in spent : w \notin watches /\ up => w \notin watches' /\ w \notin diskWatches']_vars
  <2> SUFFICES ASSUME Next, NEW w \in spent, w \notin watches, up
               PROVE  w \notin watches' /\ w \notin diskWatches'
    BY <1>1
  <2>0. w \in Watches /\ w \notin diskWatches /\ w \notin Corrupt
    BY <1>1, CorruptIsNoList DEF TypeInv, TypeOK, WatchInv
  <2>1. CASE Boot
    BY <2>1 DEF Boot
  <2>2. CASE Shutdown \/ Crash
    BY <2>0, <2>2 DEF Shutdown, Crash, MemoryLost, disk
  <2>3. CASE CrashInPersist
    BY <2>0, <2>3 DEF CrashInPersist, MemoryLost
  <2>4. CASE Tick \/ SweepThrows \/ CheckResolves \/ Judge \/ WebhookSettles \/ Publish
    BY <2>0, <2>4 DEF Tick, SweepThrows, CheckResolves, Judge, WebhookSettles, Publish, disk
  <2>5. ASSUME NEW r \in Routes, Record(r) \/ RecordFails(r)
        PROVE  w \notin watches' /\ w \notin diskWatches'
    BY <2>0, <2>5 DEF Record, RecordFails, disk
  <2>6. ASSUME NEW a \in Alerts(Routes), Alert(a) \/ AlertFails(a)
        PROVE  w \notin watches' /\ w \notin diskWatches'
    BY <2>0, <2>6 DEF Alert, AlertFails, disk
  <2>7. ASSUME NEW v \in Watches, PostWatch(v) \/ DeleteWatch(v) \/ CrashInRemove(v)
        PROVE  w \notin watches' /\ w \notin diskWatches'
    BY <2>0, <2>7 DEF PostWatch, addWatch, DeleteWatch, removeWatch, CrashInRemove, MemoryLost
  <2> QED
    BY <2>1, <2>2, <2>3, <2>4, <2>5, <2>6, <2>7 DEF Next, SweepStep, SweepFault
<1> QED
  BY <1>1, TypeInvariant, WatchInvariant, PTL DEF Spec, DeletedStaysDeleted

-----------------------------------------------------------------------------
Known == Registry \cup spent

FreshInv ==
  /\ failing \subseteq Known /\ batch \subseteq Known
  /\ \A a \in queue : a.id \in Known
  /\ \A r \in Routes \ Known :
       diskLatest[r] = NoReading /\ lastAlert[r] = "none" /\ prevAlert[r] = "none"

\* At the start nothing is on record of a route never asked for.
LEMMA InitFreshInv == Init => FreshInv
  BY DEF Init, FreshInv

\* What a sweep takes up or leaves behind is known.
LEMMA SweepKnown ==
  ASSUME WatchInv, FreshInv, NEW ws \in SUBSET spent, RequestSweep(ws) \/ BeginSweep(ws)
  PROVE  batch' \subseteq Known
  BY DEF WatchInv, FreshInv, Known, RequestSweep, BeginSweep, sweepRoutes

\* The end of a sweep leaves no unknown route under way.
LEMMA EndSweepKnown ==
  ASSUME WatchInv, FreshInv, EndSweep
  PROVE  batch' \subseteq Known /\ queue' = {}
  BY DEF WatchInv, FreshInv, Known, EndSweep, BeginSweep, sweepRoutes

\* No step puts anything on record of such a route.
LEMMA NextFreshInv == TypeInv /\ WatchInv /\ FreshInv /\ [Next]_vars => FreshInv'
<1> SUFFICES ASSUME TypeInv, WatchInv, FreshInv, [Next]_vars PROVE FreshInv'
  OBVIOUS
<1>1. CASE Boot
  <2>1. diskWatches \in SUBSET spent
    BY <1>1 DEF Boot, WatchInv
  <2>2. failing' \subseteq Known
    BY <1>1 DEF Boot, StoredFailing, FreshInv
  <2> QED
    BY <1>1, <2>1, <2>2, SweepKnown DEF Boot, FreshInv, Known, disk, history
<1>2. CASE Shutdown \/ Crash \/ CrashInPersist
  BY <1>2 DEF Shutdown, Crash, CrashInPersist, MemoryLost, FreshInv, Known, disk, history
<1>3. CASE Tick
  <2>1. watches \in SUBSET spent
    BY DEF WatchInv
  <2> QED
    BY <1>3, <2>1, SweepKnown DEF Tick, FreshInv, Known, disk, history
<1>4. CASE CheckResolves \/ WebhookSettles
  BY <1>4 DEF CheckResolves, WebhookSettles, FreshInv, Known, disk, history
<1>5. CASE Judge
  <2> DEFINE now == {r \in batch : Fails(watches, results[r], r)}
  <2>1. /\ queue' = computeTransitions(failing, batch, now)
        /\ failing' = (failing \ batch) \cup now
        /\ now \subseteq batch
    BY <1>5 DEF Judge
  <2> HIDE DEF now
  <2>2. failing' \subseteq Known
    BY <2>1 DEF FreshInv
  <2>3. \A a \in queue' : a.id \in Known
    BY <2>1 DEF FreshInv, computeTransitions
  <2> QED
    BY <1>5, <2>2, <2>3 DEF Judge, FreshInv, Known, disk, history
<1>6. CASE SweepThrows \/ Publish
  BY <1>6, EndSweepKnown DEF SweepThrows, Publish, FreshInv, Known, disk, history
<1>7. ASSUME NEW r \in Routes, Record(r) PROVE FreshInv'
  <2>1. r \in Known
    BY <1>7 DEF Record, TypeInv, TypeOK, FreshInv
  <2> QED
    BY <1>7, <2>1 DEF Record, FreshInv, Known, TypeInv, TypeOK
<1>8. ASSUME NEW r \in Routes, RecordFails(r) PROVE FreshInv'
  BY <1>8, EndSweepKnown DEF RecordFails, FreshInv, Known, disk, history
<1>9. ASSUME NEW a \in Alerts(Routes), Alert(a) PROVE FreshInv'
  <2>1. a.id \in Known
    BY <1>9 DEF Alert, FreshInv
  <2> QED
    BY <1>9, <2>1 DEF Alert, FreshInv, Known, TypeInv, TypeOK
<1>10. ASSUME NEW a \in Alerts(Routes), AlertFails(a) PROVE FreshInv'
  BY <1>10, EndSweepKnown DEF AlertFails, FreshInv, Known, disk, history
<1>11. ASSUME NEW w \in Watches, PostWatch(w) PROVE FreshInv'
  <2>1. Known \subseteq Known' /\ watches' \subseteq spent'
    BY <1>11 DEF PostWatch, addWatch, Known, WatchInv
  <2>2. batch' \subseteq Known'
    BY <1>11, <2>1 DEF PostWatch, FreshInv, Known, RequestSweep, BeginSweep, sweepRoutes
  <2> QED
    BY <1>11, <2>1, <2>2 DEF PostWatch, FreshInv
<1>12. ASSUME NEW w \in Watches, DeleteWatch(w) PROVE FreshInv'
  <2>1. watches' \in SUBSET spent
    BY <1>12 DEF DeleteWatch, removeWatch, WatchInv
  <2>2. batch' \subseteq Known
    BY <1>12, <2>1, SweepKnown DEF DeleteWatch
  <2> QED
    BY <1>12, <2>2 DEF DeleteWatch, removeWatch, FreshInv, Known, TypeInv, TypeOK
<1>13. ASSUME NEW w \in Watches, CrashInRemove(w) PROVE FreshInv'
  BY <1>13 DEF CrashInRemove, MemoryLost, FreshInv, Known
<1>14. CASE UNCHANGED vars
  BY <1>14 DEF vars, memory, disk, history, FreshInv, Known
<1> QED
  BY <1>1, <1>2, <1>3, <1>4, <1>5, <1>6, <1>7, <1>8, <1>9, <1>10, <1>11, <1>12, <1>13, <1>14
  DEF Next, SweepStep, SweepFault

\* So nothing ever is.
LEMMA FreshInvariant == Spec => []FreshInv
  BY InitFreshInv, NextFreshInv, TypeInvariant, WatchInvariant, PTL DEF Spec

-----------------------------------------------------------------------------
(***************************************************************************)
(* The failing map and the store.  While a sweep stores its readings the   *)
(* routes already stored are ahead of the map, by exactly the readings the *)
(* sweep holds; everybody else agrees.                                     *)
(***************************************************************************)
Ahead(r) == pc \in {"recording", "judging"} /\ r \in batch \ todo

StoreInv ==
  up => \A r \in Live :
          IF Ahead(r) THEN diskLatest[r] = results[r]
                      ELSE r \in failing <=> r \in StoredFailing(watches, diskLatest)

ReadInv == pc \in {"recording", "judging"} => \A r \in batch : results[r] \in Outcomes

\* Every step keeps a reading for each route of a finished sweep.
LEMMA NextReadInv == TypeInv /\ ReadInv /\ [Next]_vars => ReadInv'
<1> SUFFICES ASSUME TypeInv, ReadInv, [Next]_vars, pc' \in {"recording", "judging"}
             PROVE  \A r \in batch' : results'[r] \in Outcomes
  BY DEF ReadInv
<1>1. CASE CheckResolves
  BY <1>1 DEF CheckResolves, TypeInv, TypeOK
<1>2. ASSUME NEW r \in Routes, Record(r) PROVE \A x \in batch' : results'[x] \in Outcomes
  BY <1>2 DEF Record, ReadInv
<1>3. CASE UNCHANGED vars
  BY <1>3 DEF vars, memory, ReadInv
<1>4. ASSUME NEW r \in Routes, RecordFails(r) PROVE FALSE
  BY <1>4 DEF RecordFails, EndSweep, BeginSweep
<1>5. ASSUME NEW a \in Alerts(Routes), Alert(a) \/ AlertFails(a) PROVE FALSE
  BY <1>5 DEF Alert, AlertFails, EndSweep, BeginSweep
<1>6. ASSUME NEW w \in Watches, PostWatch(w) \/ DeleteWatch(w) \/ CrashInRemove(w) PROVE FALSE
  BY <1>6 DEF PostWatch, DeleteWatch, CrashInRemove, MemoryLost, RequestSweep, BeginSweep, Yielded
<1>7. CASE Boot \/ Shutdown \/ Crash \/ CrashInPersist \/ Tick
  BY <1>7 DEF Boot, Shutdown, Crash, CrashInPersist, MemoryLost, Tick, RequestSweep, BeginSweep, Yielded
<1>8. CASE Judge \/ WebhookSettles \/ Publish \/ SweepThrows
  BY <1>8 DEF Judge, WebhookSettles, Publish, SweepThrows, EndSweep, BeginSweep
<1> QED
  BY <1>1, <1>2, <1>3, <1>4, <1>5, <1>6, <1>7, <1>8 DEF Next, SweepStep, SweepFault

\* So a sweep is never recorded or judged with a reading missing.
LEMMA ReadInvariant == Spec => []ReadInv
<1>1. Init => ReadInv
  BY DEF Init, ReadInv
<1> QED
  BY <1>1, NextReadInv, TypeInvariant, PTL DEF Spec

\* A reading that a check returned is never the placeholder.
LEMMA OutcomeIsReading == \A x \in Outcomes : x # NoReading
<1> SUFFICES ASSUME NEW x \in Outcomes PROVE x # NoReading
  OBVIOUS
<1>1. x.verdict \in Verdicts
  BY ConstantsAssumption DEF Readings
<1> QED
  BY <1>1 DEF Verdicts, NoReading

\* The stored status of a monitored route does not depend on the other watches.
LEMMA StoredStable ==
  ASSUME NEW ws1, NEW ws2, NEW st1, NEW st2,
         NEW r \in Routes, r \in ws1 <=> r \in ws2, st1[r] = st2[r]
  PROVE  r \in StoredFailing(ws1, st1) <=> r \in StoredFailing(ws2, st2)
  BY DEF StoredFailing, Fails, minRatioFor

\* Only routes are monitored.
LEMMA LiveRoutes == TypeOK => Live \subseteq Routes
  BY DEF TypeOK, Live, sweepRoutes, Routes

\* Outside its uninterrupted stretch a sweep is not ahead of the map, so a
\* step that touches neither the map nor the store changes nothing.
LEMMA StoreKept ==
  ASSUME TypeOK, StoreInv, up' = up, failing' = failing, diskLatest' = diskLatest,
         watches' = watches, pc \notin {"recording", "judging"}, 
         pc' \notin {"recording", "judging"} \/ todo' = batch'
  PROVE  StoreInv'
<1>1. up => Live' = Live
  BY DEF Live
<1>2. \A r : ~Ahead(r) /\ ~Ahead(r)'
  BY DEF Ahead
<1>3. StoredFailing(watches, diskLatest)' = StoredFailing(watches, diskLatest)
  BY DEF StoredFailing, Fails, minRatioFor
<1> QED
  BY <1>1, <1>2, <1>3 DEF StoreInv

\* While no append fails, every step keeps store and failing map in step.
LEMMA NextStoreInv ==
  ASSUME "appendFails" \notin Faults,
         TypeInv, WatchInv, FreshInv, ReadInv, StoreInv, [Next]_vars
  PROVE  StoreInv'
<1> USE DEF TypeInv
<1>1. CASE Boot
  BY <1>1 DEF Boot, BeginSweep, StoreInv, Ahead, disk
<1>2. CASE Shutdown \/ Crash \/ CrashInPersist \/ \E w \in Watches : CrashInRemove(w)
  BY <1>2 DEF Shutdown, Crash, CrashInPersist, CrashInRemove, MemoryLost, StoreInv
<1>3. CASE Tick
  BY <1>3, StoreKept DEF Tick, Yielded, RequestSweep, BeginSweep, disk
<1>4. CASE CheckResolves
  BY <1>4, StoreKept DEF CheckResolves, disk
<1>5. CASE WebhookSettles
  BY <1>5, StoreKept DEF WebhookSettles, disk
<1>6. CASE Publish
  BY <1>6, StoreKept DEF Publish, EndSweep, BeginSweep, disk
<1>7. CASE SweepThrows
  BY <1>7, StoreKept DEF SweepThrows, EndSweep, BeginSweep, disk
<1>8. ASSUME NEW a \in Alerts(Routes), Alert(a) PROVE StoreInv'
  BY <1>8, StoreKept DEF Alert
<1>9. ASSUME NEW r \in Routes, Record(r) PROVE StoreInv'
  <2> SUFFICES ASSUME up, NEW x \in Live
               PROVE  IF Ahead(x)' THEN diskLatest'[x] = results'[x]
                      ELSE x \in failing' <=> x \in StoredFailing(watches', diskLatest')
    BY <1>9 DEF StoreInv, Record, Live
  <2>1. x \in Routes
    BY LiveRoutes
  <2>2. CASE x = r
    BY <1>9, <2>1, <2>2 DEF Record, Ahead, TypeOK
  <2>3. CASE x # r
    <3>1. diskLatest'[x] = diskLatest[x] /\ Ahead(x)' = Ahead(x)
      BY <1>9, <2>1, <2>3 DEF Record, Ahead, TypeOK
    <3>2. x \in StoredFailing(watches', diskLatest') <=> x \in StoredFailing(watches, diskLatest)
      BY <1>9, <2>1, <3>1, StoredStable DEF Record
    <3> QED
      BY <1>9, <3>1, <3>2 DEF Record, StoreInv
  <2> QED
    BY <2>2, <2>3
<1>10. CASE Judge
  <2> SUFFICES ASSUME up, NEW x \in Live
               PROVE  x \in failing' <=> x \in StoredFailing(watches', diskLatest')
    BY <1>10 DEF StoreInv, Judge, Live, Ahead
  <2>1. x \in Routes /\ todo = {} /\ pc = "judging"
    BY <1>10, LiveRoutes DEF Judge, PhaseInv
  <2>2. watches' = watches /\ diskLatest' = diskLatest
    BY <1>10 DEF Judge, disk
  <2>3. CASE x \in batch
    <3>1. diskLatest[x] = results[x] /\ results[x] # NoReading
      BY <2>1, <2>3, OutcomeIsReading DEF StoreInv, Ahead, ReadInv
    <3>2. x \in failing' <=> Fails(watches, results[x], x)
      BY <1>10, <2>3 DEF Judge
    <3> QED
      BY <2>1, <2>2, <3>1, <3>2 DEF StoredFailing
  <2>4. CASE x \notin batch
    <3>1. x \in failing' <=> x \in failing
      BY <1>10, <2>4 DEF Judge
    <3> QED
      BY <2>2, <2>4, <3>1 DEF StoreInv, Ahead
  <2> QED
    BY <2>3, <2>4
<1>11. ASSUME NEW w \in Watches, PostWatch(w) PROVE StoreInv'
  <2> SUFFICES ASSUME NEW x \in Live'
               PROVE  x \in failing' <=> x \in StoredFailing(watches', diskLatest')
    BY <1>11 DEF PostWatch, Yielded, RequestSweep, BeginSweep, StoreInv, Ahead
  <2>1. x \in Routes /\ w \in Routes /\ w \notin Registry
    BY <1>11, ConstantsAssumption DEF PostWatch, addWatch, Live, sweepRoutes, Routes, TypeOK
  <2>2. failing' = failing /\ diskLatest' = diskLatest /\ watches' = watches \cup {w} /\ up /\ up'
    BY <1>11 DEF PostWatch, addWatch
  <2>3. CASE x = w
    BY <1>11, <2>1, <2>2, <2>3 DEF PostWatch, FreshInv, Known, StoredFailing
  <2>4. CASE x # w
    <3>1. x \in Live /\ (x \in watches <=> x \in watches')
      BY <2>2, <2>4 DEF Live, sweepRoutes
    <3>2. ~Ahead(x)
      BY <1>11 DEF PostWatch, Yielded, Ahead
    <3>3. x \in StoredFailing(watches', diskLatest') <=> x \in StoredFailing(watches, diskLatest)
      BY <2>1, <2>2, <3>1, StoredStable
    <3> QED
      BY <2>2, <3>1, <3>2, <3>3 DEF StoreInv
  <2> QED
    BY <2>3, <2>4
<1>12. ASSUME NEW w \in Watches, DeleteWatch(w) PROVE StoreInv'
  <2> SUFFICES ASSUME NEW x \in Live'
               PROVE  x \in failing' <=> x \in StoredFailing(watches', diskLatest')
    BY <1>12 DEF DeleteWatch, Yielded, RequestSweep, BeginSweep, StoreInv, Ahead
  <2>1. /\ failing' = failing /\ watches' = watches \ {w} /\ up /\ up'
        /\ diskLatest' = [diskLatest EXCEPT ![w] = NoReading]
    BY <1>12 DEF DeleteWatch, removeWatch
  <2>2. x \in Live /\ x \in Routes /\ x # w
    BY <2>1, ConstantsAssumption DEF Live, sweepRoutes, Routes, TypeOK
  <2>3. diskLatest'[x] = diskLatest[x] /\ (x \in watches <=> x \in watches')
    BY <2>1, <2>2 DEF TypeOK
  <2>4. ~Ahead(x)
    BY <1>12 DEF DeleteWatch, Yielded, Ahead
  <2>5. x \in StoredFailing(watches', diskLatest') <=> x \in StoredFailing(watches, diskLatest)
    BY <2>2, <2>3, StoredStable
  <2> QED
    BY <2>1, <2>2, <2>4, <2>5 DEF StoreInv
<1>13. CASE UNCHANGED vars
  BY <1>13 DEF vars, memory, disk, StoreInv, Live, Ahead, StoredFailing, Fails, minRatioFor
<1>14. ASSUME NEW r \in Routes, RecordFails(r) PROVE FALSE
  BY <1>14 DEF RecordFails
<1>15. ASSUME NEW a \in Alerts(Routes), AlertFails(a) PROVE FALSE
  BY <1>15 DEF AlertFails
<1> QED
  BY <1>1, <1>2, <1>3, <1>4, <1>5, <1>6, <1>7, <1>8, <1>9, <1>10, <1>11, <1>12, <1>13, <1>14,
     <1>15 DEF Next, SweepStep, SweepFault

(***************************************************************************)
(* Unless an append fails, the failing map is between sweeps what a        *)
(* restart would seed it with, whatever crashed before                     *)
(* (serve/monitor.ts:79-83, :107-111).                                     *)
(***************************************************************************)
THEOREM FailingMapMatchesStore ==
  ASSUME "appendFails" \notin Faults
  PROVE  Spec => []FailingMatchesStore
<1>1. Init => StoreInv
  BY DEF Init, StoreInv
<1>2. TypeInv /\ WatchInv /\ FreshInv /\ ReadInv /\ StoreInv /\ [Next]_vars => StoreInv'
  BY NextStoreInv
<1>3. StoreInv => FailingMatchesStore
  BY DEF StoreInv, FailingMatchesStore, Quiet, Ahead
<1> QED
  BY <1>1, <1>2, <1>3, TypeInvariant, WatchInvariant, FreshInvariant, ReadInvariant, PTL DEF Spec
-----------------------------------------------------------------------------
(***************************************************************************)
(* The alerts.  A queued alert says what the failing map says and what the *)
(* last alert of its route does not; a route without one is up to date.    *)
(***************************************************************************)
Queued(r) == \E a \in queue : a.id = r

AlertInv ==
  /\ up => \A r \in Live : Queued(r) \/ (r \in failing <=> lastAlert[r] = "breach")
  /\ \A a \in queue : a.id \in Live =>
       /\ a.kind = "breach" <=> a.id \in failing
       /\ a.kind = "breach" <=> lastAlert[a.id] # "breach"
  /\ \A r \in Live : lastAlert[r] # "none" => prevAlert[r] # lastAlert[r]
  /\ ~up => \A r \in Live : r \in StoredFailing(diskWatches, diskLatest) <=> lastAlert[r] = "breach"

NoFaults == Faults = {}

\* Nothing is failing, queued or alerted at the start.
LEMMA InitAlertInv == Init => AlertInv
<1> SUFFICES ASSUME Init PROVE AlertInv
  OBVIOUS
<1>1. ~up /\ queue = {} /\ Live \subseteq Routes
  BY DEF Init, Live, sweepRoutes, Routes
<1>2. \A r \in Routes : lastAlert[r] = "none" /\ r \notin StoredFailing(diskWatches, diskLatest)
  BY DEF Init, StoredFailing
<1> QED
  BY <1>1, <1>2 DEF AlertInv

\* A step that leaves the map, the alerts and the monitored routes alone.
LEMMA AlertKept ==
  ASSUME AlertInv, up, up', failing' = failing, lastAlert' = lastAlert, prevAlert' = prevAlert,
         watches' = watches, queue' = queue
  PROVE  AlertInv'
<1>1. Live' = Live
  BY DEF Live
<1>2. \A r : Queued(r)' <=> Queued(r)
  BY DEF Queued
<1> QED
  BY <1>1, <1>2 DEF AlertInv

\* The monitored routes are the same before a boot or a shutdown and after it.
LEMMA LiveWhileDown ==
  ASSUME TypeOK, diskWatches # Corrupt
  PROVE  sweepRoutes(diskWatches) = sweepRoutes(diskWatches \cap Watches)
  BY DEF TypeOK, sweepRoutes

\* Every step keeps the alerts told and the failing map in step.
LEMMA NextAlertInv ==
  ASSUME NoFaults, TypeInv, WatchInv, FreshInv, StoreInv, AlertInv, [Next]_vars
  PROVE  AlertInv'
<1> USE DEF TypeInv
<1>0. up => diskWatches # Corrupt
  BY CorruptIsNoList DEF WatchInv, TypeOK
<1>1. CASE Boot
  <2>1. Live' = Live
    BY <1>1, LiveWhileDown DEF Boot, Live
  <2>2. queue' = {} /\ up' /\ lastAlert' = lastAlert /\ prevAlert' = prevAlert
        /\ failing' = StoredFailing(diskWatches, diskLatest)
    BY <1>1 DEF Boot, PhaseInv, disk
  <2> QED
    BY <1>1, <2>1, <2>2 DEF Boot, AlertInv
<1>2. CASE Shutdown
  <2>1. Live' = Live /\ watches = diskWatches
    BY <1>0, <1>2, LiveWhileDown DEF Shutdown, MemoryLost, Live, WatchInv, disk
  <2>2. queue = {} /\ queue' = {} /\ ~up' /\ diskWatches' = diskWatches /\ diskLatest' = diskLatest
        /\ lastAlert' = lastAlert /\ prevAlert' = prevAlert
    BY <1>2 DEF Shutdown, MemoryLost, PhaseInv, disk
  <2>3. StoredFailing(diskWatches, diskLatest)' = StoredFailing(watches, diskLatest)
    BY <2>1, <2>2 DEF StoredFailing, Fails, minRatioFor
  <2>4. \A r \in Live : r \in StoredFailing(watches, diskLatest) <=> lastAlert[r] = "breach"
    BY <1>2, <2>2 DEF Shutdown, StoreInv, Ahead, AlertInv, Queued
  <2> QED
    BY <2>1, <2>2, <2>3, <2>4 DEF AlertInv
<1>3. CASE Tick \/ CheckResolves \/ WebhookSettles
  <2>1. up /\ up' /\ failing' = failing /\ watches' = watches /\ queue' = queue
        /\ lastAlert' = lastAlert /\ prevAlert' = prevAlert
    BY <1>3 DEF Tick, CheckResolves, WebhookSettles, PhaseInv, disk
  <2> QED
    BY <2>1, AlertKept
<1>4. ASSUME NEW r \in Routes, Record(r) PROVE AlertInv'
  <2>1. up /\ up' /\ failing' = failing /\ watches' = watches /\ queue' = queue
        /\ lastAlert' = lastAlert /\ prevAlert' = prevAlert
    BY <1>4 DEF Record, PhaseInv
  <2> QED
    BY <2>1, AlertKept
<1>5. CASE Judge
  <2> DEFINE now == {r \in batch : Fails(watches, results[r], r)}
  <2>1. /\ queue' = computeTransitions(failing, batch, now)
        /\ failing' = (failing \ batch) \cup now
        /\ now \subseteq batch
    BY <1>5 DEF Judge
  <2> HIDE DEF now
  <2>2. up /\ up' /\ queue = {} /\ Live' = Live /\ lastAlert' = lastAlert /\ prevAlert' = prevAlert
    BY <1>5 DEF Judge, PhaseInv, Live, disk
  <2>3. \A r \in Live : r \in failing <=> lastAlert[r] = "breach"
    BY <2>2 DEF AlertInv, Queued
  <2>4. \A a \in queue' : \/ a.kind = "breach" /\ a.id \in now \ failing
                          \/ a.kind = "recovery" /\ a.id \in (batch \ now) \cap failing
    BY <2>1 DEF computeTransitions
  <2>5. ASSUME NEW r \in Live, ~Queued(r)' PROVE r \in failing' <=> r \in failing
    <3>1. ASSUME r \in now \ failing PROVE FALSE
      <4>1. [id |-> r, kind |-> "breach"] \in queue'
        BY <2>1, <3>1 DEF computeTransitions
      <4> QED
        BY <2>5, <4>1 DEF Queued
    <3>2. ASSUME r \in (batch \ now) \cap failing PROVE FALSE
      <4>1. [id |-> r, kind |-> "recovery"] \in queue'
        BY <2>1, <3>2 DEF computeTransitions
      <4> QED
        BY <2>5, <4>1 DEF Queued
    <3> QED
      BY <2>1, <3>1, <3>2
  <2>6. \A r \in Live' : Queued(r)' \/ (r \in failing' <=> lastAlert'[r] = "breach")
    BY <2>2, <2>3, <2>5
  <2>7. ASSUME NEW a \in queue', a.id \in Live'
        PROVE  /\ a.kind = "breach" <=> a.id \in failing'
               /\ a.kind = "breach" <=> lastAlert'[a.id] # "breach"
    BY <2>1, <2>2, <2>3, <2>4, <2>7
  <2> QED
    BY <2>2, <2>6, <2>7 DEF AlertInv
<1>6. ASSUME NEW a \in Alerts(Routes), Alert(a) PROVE AlertInv'
  <2>1. /\ up /\ up' /\ Live' = Live /\ failing' = failing
        /\ a \in queue /\ queue' = queue \ {a}
        /\ lastAlert' = [lastAlert EXCEPT ![a.id] = a.kind]
        /\ prevAlert' = [prevAlert EXCEPT ![a.id] = lastAlert[a.id]]
    BY <1>6 DEF Alert, PhaseInv, Live
  <2>2. a.id \in Routes /\ a.kind \in {"breach", "recovery"}
    BY DEF Alerts, Kinds
  <2>3. \A r \in Live : r # a.id => lastAlert'[r] = lastAlert[r] /\ prevAlert'[r] = prevAlert[r]
    BY <2>1, <2>2, LiveRoutes DEF TypeOK
  <2>4. lastAlert'[a.id] = a.kind /\ prevAlert'[a.id] = lastAlert[a.id]
    BY <2>1, <2>2 DEF TypeOK
  <2>5. ASSUME NEW b \in queue', b.id \in Live PROVE b.id # a.id
    <3>1. b \in Alerts(Routes) /\ b \in queue /\ b # a
      BY <2>1, <2>5 DEF TypeOK
    <3>2. ASSUME b.id = a.id PROVE b.kind = a.kind
      <4>1. b.kind \in {"breach", "recovery"}
        BY <3>1 DEF Alerts, Kinds
      <4> QED
        BY <2>1, <2>2, <2>5, <3>1, <3>2, <4>1 DEF AlertInv
    <3>3. ASSUME b.id = a.id PROVE FALSE
      BY <3>1, <3>2, <3>3 DEF Alerts
    <3> QED
      BY <3>3
  <2>6. ASSUME NEW r \in Live PROVE Queued(r)' \/ (r \in failing <=> lastAlert'[r] = "breach")
    <3>1. CASE r = a.id
      BY <2>1, <2>4, <3>1 DEF AlertInv
    <3>2. CASE r # a.id
      <4>1. Queued(r) => Queued(r)'
        BY <2>1, <3>2 DEF Queued
      <4> QED
        BY <2>1, <2>3, <3>2, <4>1 DEF AlertInv
    <3> QED
      BY <3>1, <3>2
  <2>7. ASSUME NEW b \in queue', b.id \in Live
        PROVE  /\ b.kind = "breach" <=> b.id \in failing
               /\ b.kind = "breach" <=> lastAlert'[b.id] # "breach"
    BY <2>1, <2>3, <2>5, <2>7 DEF AlertInv
  <2>8. ASSUME NEW r \in Live, lastAlert'[r] # "none" PROVE prevAlert'[r] # lastAlert'[r]
    <3>1. CASE r = a.id
      BY <2>1, <2>2, <2>4, <3>1 DEF AlertInv
    <3>2. CASE r # a.id
      BY <2>3, <2>8, <3>2 DEF AlertInv
    <3> QED
      BY <3>1, <3>2
  <2> QED
    BY <2>1, <2>6, <2>7, <2>8 DEF AlertInv
<1>7. CASE Publish
  <2>1. up /\ up' /\ failing' = failing /\ watches' = watches /\ queue' = queue
        /\ lastAlert' = lastAlert /\ prevAlert' = prevAlert
    BY <1>7 DEF Publish, EndSweep, PhaseInv, disk
  <2> QED
    BY <2>1, AlertKept
<1>8. ASSUME NEW w \in Watches, PostWatch(w) PROVE AlertInv'
  <2>1. /\ up /\ up' /\ failing' = failing /\ queue' = queue
        /\ lastAlert' = lastAlert /\ prevAlert' = prevAlert
        /\ Live' = Live \cup {w}
    BY <1>8 DEF PostWatch, addWatch, Live, sweepRoutes
  <2>2. w \notin failing /\ lastAlert[w] = "none" /\ \A a \in queue : a.id # w
    BY <1>8, ConstantsAssumption DEF PostWatch, FreshInv, Known, Routes
  <2>3. \A r : Queued(r)' <=> Queued(r)
    BY <2>1 DEF Queued
  <2> QED
    BY <2>1, <2>2, <2>3 DEF AlertInv
<1>9. ASSUME NEW w \in Watches, DeleteWatch(w) PROVE AlertInv'
  <2>1. /\ up /\ up' /\ failing' = failing /\ queue' = queue
        /\ lastAlert' = lastAlert /\ prevAlert' = prevAlert
        /\ Live' \subseteq Live
    BY <1>9 DEF DeleteWatch, removeWatch, Live, sweepRoutes
  <2>2. \A r : Queued(r)' <=> Queued(r)
    BY <2>1 DEF Queued
  <2> QED
    BY <2>1, <2>2 DEF AlertInv
<1>10. CASE UNCHANGED vars
  BY <1>10 DEF vars, memory, disk, AlertInv, Queued, Live, sweepRoutes, StoredFailing, Fails, minRatioFor
<1>11. ASSUME Crash \/ CrashInPersist \/ SweepFault \/ \E w \in Watches : CrashInRemove(w)
       PROVE  FALSE
  BY <1>11 DEF NoFaults, Crash, CrashInPersist, SweepFault, SweepThrows, RecordFails, AlertFails,
                CrashInRemove
<1> QED
  BY <1>1, <1>2, <1>3, <1>4, <1>5, <1>6, <1>7, <1>8, <1>9, <1>10, <1>11 DEF Next, SweepStep

\* All that the alert theorems rest on, without faults.
LEMMA AlertInvariants ==
  ASSUME NoFaults
  PROVE  Spec => [](StoreInv /\ AlertInv)
<1>0. "appendFails" \notin Faults
  BY DEF NoFaults
<1>1. Init => StoreInv
  BY DEF Init, StoreInv
<1>2. TypeInv /\ WatchInv /\ FreshInv /\ ReadInv /\ StoreInv /\ [Next]_vars => StoreInv'
  BY <1>0, NextStoreInv
<1>3. TypeInv /\ WatchInv /\ FreshInv /\ StoreInv /\ AlertInv /\ [Next]_vars => AlertInv'
  BY NextAlertInv
<1> QED
  BY <1>1, <1>2, <1>3, InitAlertInv, TypeInvariant, WatchInvariant, FreshInvariant, ReadInvariant,
     PTL DEF Spec

(***************************************************************************)
(* Between sweeps the last alert of every monitored route tells its        *)
(* present status, and no alert repeats the one before it                  *)
(* (docs/watchtower.md:326, serve/monitor.ts:104-125).                     *)
(***************************************************************************)
THEOREM AlertsAlwaysTellStatus ==
  ASSUME NoFaults
  PROVE  Spec => []AlertsTellStatus
<1>1. TypeInv /\ AlertInv => AlertsTellStatus
  BY DEF TypeInv, PhaseInv, AlertInv, AlertsTellStatus, Quiet, Queued
<1> QED
  BY <1>1, TypeInvariant, AlertInvariants, PTL

-----------------------------------------------------------------------------
(***************************************************************************)
(* Refinement.  Judge is the ledger's Observe, an Alert for a monitored    *)
(* route its Tell, a deleted watch its Retire; every other step stutters.  *)
(***************************************************************************)
LEMMA InitLedger == Init => Ledger!Init
<1> SUFFICES ASSUME Init PROVE Ledger!Init
  OBVIOUS
<1>1. KnownFailing = {}
  BY DEF Init, KnownFailing, StoredFailing
<1>2. \A r \in Routes : lastAlert[r] = "none" /\ prevAlert[r] = "none"
  BY DEF Init
<1> QED
  BY <1>1, <1>2 DEF Ledger!Init

\* What the ledger sees does not change.
LEMMA LedgerStutters ==
  ASSUME Live' = Live, KnownFailing' = KnownFailing,
         \A r \in Live : lastAlert'[r] = lastAlert[r] /\ prevAlert'[r] = prevAlert[r]
  PROVE  UNCHANGED Ledger!vars
<1>1. \A r \in Routes : (IF r \in Live THEN lastAlert[r] ELSE "none")'
                        = IF r \in Live THEN lastAlert[r] ELSE "none"
  OBVIOUS
<1>2. \A r \in Routes : (IF r \in Live THEN prevAlert[r] ELSE "none")'
                        = IF r \in Live THEN prevAlert[r] ELSE "none"
  OBVIOUS
<1> QED
  BY <1>1, <1>2 DEF Ledger!vars

\* Every step of the watchtower is a step of the ledger or a stutter.
LEMMA NextLedger ==
  ASSUME NoFaults, TypeInv, WatchInv, FreshInv, StoreInv, AlertInv, [Next]_vars
  PROVE  [Ledger!Next]_(Ledger!vars)
<1> USE DEF TypeInv
<1>0. up => diskWatches # Corrupt
  BY CorruptIsNoList DEF WatchInv, TypeOK
<1>1. CASE Boot
  <2>1. Live' = Live /\ KnownFailing' = KnownFailing
    BY <1>1, LiveWhileDown DEF Boot, Live, KnownFailing
  <2> QED
    BY <1>1, <2>1, LedgerStutters DEF Boot, disk
<1>2. CASE Shutdown
  <2>1. Live' = Live /\ watches = diskWatches
    BY <1>0, <1>2, LiveWhileDown DEF Shutdown, MemoryLost, Live, WatchInv, disk
  <2>2. ~up' /\ diskWatches' = diskWatches /\ diskLatest' = diskLatest
    BY <1>2 DEF Shutdown, MemoryLost, disk
  <2>3. StoredFailing(diskWatches, diskLatest)' = StoredFailing(watches, diskLatest)
    BY <2>1, <2>2 DEF StoredFailing, Fails, minRatioFor
  <2>4. \A r \in Live : r \in StoredFailing(watches, diskLatest) <=> r \in failing
    BY <1>2 DEF Shutdown, StoreInv, Ahead
  <2>5. KnownFailing' = KnownFailing
    BY <1>2, <2>1, <2>2, <2>3, <2>4 DEF KnownFailing, Shutdown
  <2> QED
    BY <1>2, <2>1, <2>5, LedgerStutters DEF Shutdown, disk
<1>3. CASE Tick \/ CheckResolves \/ WebhookSettles \/ Publish
  <2>1. up /\ up' /\ failing' = failing /\ watches' = watches
        /\ lastAlert' = lastAlert /\ prevAlert' = prevAlert
    BY <1>3 DEF Tick, CheckResolves, WebhookSettles, Publish, PhaseInv, disk
  <2> QED
    BY <2>1, LedgerStutters DEF Live, KnownFailing
<1>4. ASSUME NEW r \in Routes, Record(r) PROVE UNCHANGED Ledger!vars
  <2>1. up /\ up' /\ failing' = failing /\ watches' = watches
        /\ lastAlert' = lastAlert /\ prevAlert' = prevAlert
    BY <1>4 DEF Record, PhaseInv
  <2> QED
    BY <2>1, LedgerStutters DEF Live, KnownFailing
<1>5. CASE Judge
  <2>1. up /\ up' /\ queue = {} /\ watches' = watches /\ lastAlert' = lastAlert /\ prevAlert' = prevAlert
    BY <1>5 DEF Judge, PhaseInv, disk
  <2>2. Live' = Live
    BY <2>1 DEF Live
  <2>3. \A r \in Routes : Ledger!UpToDate(r)
    BY <2>1 DEF Ledger!UpToDate, KnownFailing, AlertInv, Queued
  <2>4. KnownFailing' \in SUBSET Routes
    BY <2>2, LiveRoutes DEF KnownFailing
  <2> QED
    BY <2>1, <2>2, <2>3, <2>4 DEF Ledger!Next, Ledger!Observe
<1>6. ASSUME NEW a \in Alerts(Routes), Alert(a) PROVE [Ledger!Next]_(Ledger!vars)
  <2>1. /\ up /\ up' /\ Live' = Live /\ failing' = failing /\ a \in queue
        /\ lastAlert' = [lastAlert EXCEPT ![a.id] = a.kind]
        /\ prevAlert' = [prevAlert EXCEPT ![a.id] = lastAlert[a.id]]
    BY <1>6 DEF Alert, PhaseInv, Live
  <2>2. a.id \in Routes /\ a.kind \in {"breach", "recovery"}
    BY DEF Alerts, Kinds
  <2>3. KnownFailing' = KnownFailing
    BY <2>1 DEF KnownFailing
  <2>4. CASE a.id \notin Live
    <3>1. \A r \in Live : lastAlert'[r] = lastAlert[r] /\ prevAlert'[r] = prevAlert[r]
      BY <2>1, <2>4, LiveRoutes DEF TypeOK
    <3> QED
      BY <2>1, <2>3, <3>1, LedgerStutters
  <2>5. CASE a.id \in Live
    <3> DEFINE last == [r \in Routes |-> IF r \in Live THEN lastAlert[r] ELSE "none"]
               prev == [r \in Routes |-> IF r \in Live THEN prevAlert[r] ELSE "none"]
    <3>1. /\ a.kind = "breach" <=> a.id \in KnownFailing
          /\ a.kind = "breach" <=> lastAlert[a.id] # "breach"
      BY <2>1, <2>5 DEF AlertInv, KnownFailing
    <3>2. ~Ledger!UpToDate(a.id)
      BY <2>2, <2>5, <3>1 DEF Ledger!UpToDate
    <3>3. last' = [last EXCEPT ![a.id] = IF a.id \in KnownFailing THEN "breach" ELSE "recovery"]
      BY <2>1, <2>2, <2>5, <3>1 DEF TypeOK
    <3>4. prev' = [prev EXCEPT ![a.id] = last[a.id]]
      BY <2>1, <2>2, <2>5 DEF TypeOK
    <3>5. Ledger!Tell(a.id)
      BY <2>3, <3>2, <3>3, <3>4 DEF Ledger!Tell
    <3> QED
      BY <2>2, <3>5 DEF Ledger!Next
  <2> QED
    BY <2>4, <2>5
<1>7. ASSUME NEW w \in Watches, PostWatch(w) PROVE UNCHANGED Ledger!vars
  <2>1. /\ up /\ up' /\ failing' = failing
        /\ lastAlert' = lastAlert /\ prevAlert' = prevAlert
        /\ Live' = Live \cup {w}
    BY <1>7 DEF PostWatch, addWatch, Live, sweepRoutes
  <2>2. w \notin failing /\ lastAlert[w] = "none" /\ prevAlert[w] = "none"
    BY <1>7, ConstantsAssumption DEF PostWatch, FreshInv, Known, Routes
  <2>3. KnownFailing' = KnownFailing
    BY <2>1, <2>2 DEF KnownFailing
  <2>4. \A r \in Routes : (IF r \in Live THEN lastAlert[r] ELSE "none")'
                          = IF r \in Live THEN lastAlert[r] ELSE "none"
    BY <2>1, <2>2
  <2>5. \A r \in Routes : (IF r \in Live THEN prevAlert[r] ELSE "none")'
                          = IF r \in Live THEN prevAlert[r] ELSE "none"
    BY <2>1, <2>2
  <2> QED
    BY <2>3, <2>4, <2>5 DEF Ledger!vars
<1>8. ASSUME NEW w \in Watches, DeleteWatch(w) PROVE [Ledger!Next]_(Ledger!vars)
  <2> DEFINE last == [r \in Routes |-> IF r \in Live THEN lastAlert[r] ELSE "none"]
             prev == [r \in Routes |-> IF r \in Live THEN prevAlert[r] ELSE "none"]
  <2>1. /\ up /\ up' /\ failing' = failing
        /\ lastAlert' = lastAlert /\ prevAlert' = prevAlert
        /\ watches' = watches \ {w}
    BY <1>8 DEF DeleteWatch, removeWatch
  <2>2. w \in Routes /\ Live' = Live \ {w}
    BY <2>1, ConstantsAssumption DEF Live, sweepRoutes, Routes
  <2>3. KnownFailing' = KnownFailing \ {w}
    BY <2>1, <2>2 DEF KnownFailing
  <2>4. last' = [last EXCEPT ![w] = "none"] /\ prev' = [prev EXCEPT ![w] = "none"]
    BY <2>1, <2>2
  <2>5. Ledger!Retire(w)
    BY <2>3, <2>4 DEF Ledger!Retire
  <2> QED
    BY <2>2, <2>5 DEF Ledger!Next
<1>9. CASE UNCHANGED vars
  <2>1. UNCHANGED <<up, failing, watches, lastAlert, prevAlert, diskWatches, diskLatest>>
    BY <1>9 DEF vars, memory, disk
  <2>2. Live' = Live /\ StoredFailing(diskWatches, diskLatest)' = StoredFailing(diskWatches, diskLatest)
    BY <2>1 DEF Live, StoredFailing, Fails, minRatioFor
  <2> QED
    BY <2>1, <2>2, LedgerStutters DEF KnownFailing
<1>10. ASSUME Crash \/ CrashInPersist \/ SweepFault \/ \E w \in Watches : CrashInRemove(w)
       PROVE  FALSE
  BY <1>10 DEF NoFaults, Crash, CrashInPersist, SweepFault, SweepThrows, RecordFails, AlertFails,
                CrashInRemove
<1> QED
  BY <1>1, <1>2, <1>3, <1>4, <1>5, <1>6, <1>7, <1>8, <1>9, <1>10 DEF Next, SweepStep

(***************************************************************************)
(* The monitor implements the alert ledger: every change of status is told *)
(* once, in order, and nothing is observed while a change is untold.       *)
(***************************************************************************)
THEOREM MonitorImplementsLedger ==
  ASSUME NoFaults
  PROVE  Spec => ImplementsAlertLedger
<1>1. TypeInv /\ WatchInv /\ FreshInv /\ StoreInv /\ AlertInv /\ [Next]_vars
      => [Ledger!Next]_(Ledger!vars)
  BY NextLedger
<1> QED
  BY <1>1, InitLedger, TypeInvariant, WatchInvariant, FreshInvariant, AlertInvariants,
     PTL DEF Spec, ImplementsAlertLedger, Ledger!Spec

-----------------------------------------------------------------------------
(***************************************************************************)
(* Alerts under faults.  A crash, a failed append or an unreadable         *)
(* registry can lose an alert, so the last one no longer tells the status. *)
(* What remains is that a status other than the one last told has been     *)
(* stored since: of the newest stored reading, and of the failing map,     *)
(* which a restart rebuilds from it.                                       *)
(***************************************************************************)
Listed == IF up THEN watches ELSE diskWatches

Accounted(r, status) ==
  /\ lastAlert[r] = "breach" /\ ~status => FALSE \in seen[r]
  /\ lastAlert[r] = "recovery" /\ status => TRUE \in seen[r]

PagedInv ==
  \A r \in Live :
    /\ Accounted(r, r \in StoredFailing(Listed, diskLatest))
    /\ up => Accounted(r, r \in failing)
    /\ diskLatest[r] = NoReading => lastAlert[r] = "none"
    /\ Ahead(r) => diskLatest[r] = results[r]

\* An alert still queued is about a reading that has been stored.
QueueInv ==
  \A a \in queue : a.id \in Live =>
    /\ a.kind = "breach" <=> a.id \in failing
    /\ a.id \in failing <=> a.id \in StoredFailing(watches, diskLatest)
    /\ diskLatest[a.id] # NoReading
    /\ a.kind = lastAlert[a.id] => (a.kind # "breach") \in seen[a.id]

\* Nothing was told at the start.
LEMMA InitPagedInv == Init => PagedInv /\ QueueInv
<1> SUFFICES ASSUME Init PROVE PagedInv /\ QueueInv
  OBVIOUS
<1>1. Live \subseteq Routes /\ queue = {}
  BY DEF Init, Live, sweepRoutes, Routes
<1>2. \A r \in Routes : lastAlert[r] = "none" /\ ~Ahead(r)
  BY DEF Init, Ahead
<1> QED
  BY <1>1, <1>2 DEF PagedInv, QueueInv, Accounted

\* A step after which a monitored route was monitored before, and its record
\* says no less; a boot takes the map from the store.
LEMMA PagedKept ==
  ASSUME TypeOK, PagedInv, Live' \subseteq Live,
         \A r \in Live' :
           /\ lastAlert'[r] = lastAlert[r] /\ seen'[r] = seen[r] /\ diskLatest'[r] = diskLatest[r]
           /\ r \in Listed' <=> r \in Listed
           /\ ~Ahead(r)'
           /\ up' => \/ up /\ (r \in failing' <=> r \in failing)
                     \/ r \in failing' <=> r \in StoredFailing(Listed, diskLatest)
  PROVE  PagedInv'
<1> SUFFICES ASSUME NEW r \in Live'
             PROVE  /\ Accounted(r, r \in StoredFailing(Listed, diskLatest))'
                    /\ up' => Accounted(r, r \in failing)'
                    /\ diskLatest'[r] = NoReading => lastAlert'[r] = "none"
                    /\ Ahead(r)' => diskLatest'[r] = results'[r]
  BY DEF PagedInv
<1>1. r \in Live /\ r \in Routes
  BY LiveRoutes
<1>2. r \in StoredFailing(Listed', diskLatest') <=> r \in StoredFailing(Listed, diskLatest)
  BY <1>1, StoredStable
<1> QED
  BY <1>1, <1>2 DEF PagedInv, Accounted

\* A step that leaves the queue alone.
LEMMA QueueKept ==
  ASSUME TypeOK, QueueInv, Live' \subseteq Live, queue' = queue,
         \A r \in Live' :
           /\ lastAlert'[r] = lastAlert[r] /\ seen'[r] = seen[r] /\ diskLatest'[r] = diskLatest[r]
           /\ r \in watches' <=> r \in watches
           /\ r \in failing' <=> r \in failing
  PROVE  QueueInv'
<1> SUFFICES ASSUME NEW a \in queue', a.id \in Live'
             PROVE  /\ a.kind = "breach" <=> a.id \in failing'
                    /\ a.id \in failing' <=> a.id \in StoredFailing(watches', diskLatest')
                    /\ diskLatest'[a.id] # NoReading
                    /\ a.kind = lastAlert'[a.id] => (a.kind # "breach") \in seen'[a.id]
  BY DEF QueueInv
<1>1. a.id \in Live /\ a.id \in Routes
  BY LiveRoutes
<1>2. a.id \in StoredFailing(watches', diskLatest') <=> a.id \in StoredFailing(watches, diskLatest)
  BY <1>1, StoredStable
<1> QED
  BY <1>1, <1>2 DEF QueueInv

\* An empty queue repeats nothing.
LEMMA QueueEmpty == queue' = {} => QueueInv'
  BY DEF QueueInv

\* The end of the process leaves the data directory's account.
LEMMA DownPaged ==
  ASSUME TypeOK, WatchInv, PagedInv, up, MemoryLost, UNCHANGED <<diskLatest, lastAlert, seen>>,
         \/ diskWatches' \subseteq diskWatches /\ diskWatches # Corrupt
         \/ diskWatches' = Corrupt
  PROVE  PagedInv' /\ QueueInv'
<1>1. ~up' /\ queue' = {} /\ watches = diskWatches
  BY DEF MemoryLost, WatchInv
<1>2. watches \subseteq Watches
  BY DEF TypeOK
<1>3. Live = Registry \cup watches /\ Live' = Registry \cup (diskWatches' \cap Watches)
  BY <1>1 DEF Live, sweepRoutes
<1>4. Live' \subseteq Live
  BY <1>1, <1>2, <1>3, CorruptIsNoList
<1>5. \A r \in Live' : ~Ahead(r)'
  BY DEF MemoryLost, Ahead
<1>6. ASSUME NEW r \in Live' PROVE r \in Listed' <=> r \in Listed
  <2>1. Listed = watches /\ Listed' = diskWatches'
    BY <1>1 DEF Listed
  <2>2. CASE diskWatches' = Corrupt
    <3>1. r \in Registry
      BY <1>3, <1>6, <2>2, CorruptIsNoList
    <3> QED
      BY <1>2, <2>1, <2>2, <3>1, ConstantsAssumption, CorruptAssumption DEF Corrupt, Routes
  <2>3. CASE diskWatches' \subseteq diskWatches
    BY <1>1, <1>2, <1>3, <2>1, <2>3, ConstantsAssumption
  <2> QED
    BY <2>2, <2>3
<1> QED
  BY <1>1, <1>4, <1>5, <1>6, PagedKept, QueueEmpty

\* Every step keeps the account, whatever fails.
LEMMA NextPagedInv ==
  ASSUME TypeInv, WatchInv, FreshInv, ReadInv, PagedInv, QueueInv, [Next]_vars
  PROVE  PagedInv' /\ QueueInv'
<1> USE DEF TypeInv
<1>0. up => watches = diskWatches /\ diskWatches # Corrupt
  BY CorruptIsNoList DEF WatchInv, TypeOK
<1>1. CASE Boot
  <2>1. Live' = Live /\ Listed' = Listed
    BY <1>1, LiveWhileDown DEF Boot, Live, Listed
  <2>2. queue' = {} /\ up' /\ failing' = StoredFailing(Listed, diskLatest)
        /\ UNCHANGED <<lastAlert, seen, diskLatest>> /\ pc' = "checking"
    BY <1>1 DEF Boot, BeginSweep, PhaseInv, disk, history, Listed
  <2> QED
    BY <2>1, <2>2, PagedKept, QueueEmpty DEF Ahead
<1>2. CASE Shutdown \/ Crash
  BY <1>0, <1>2, DownPaged DEF Shutdown, Crash, disk, history
<1>3. CASE CrashInPersist
  BY <1>3, DownPaged DEF CrashInPersist, history
<1>4. ASSUME NEW w \in Watches, CrashInRemove(w) PROVE PagedInv' /\ QueueInv'
  BY <1>0, <1>4, DownPaged DEF CrashInRemove
<1>5. CASE Tick \/ CheckResolves \/ WebhookSettles
  <2>1. /\ up /\ up' /\ UNCHANGED <<watches, failing, queue, lastAlert, seen, diskLatest>>
        /\ \A r : ~Ahead(r)'
    BY <1>5 DEF Tick, CheckResolves, WebhookSettles, PhaseInv, Ahead, Yielded, RequestSweep, BeginSweep,
                disk, history
  <2>2. Live' = Live /\ Listed' = Listed
    BY <2>1 DEF Live, Listed
  <2> QED
    BY <2>1, <2>2, PagedKept, QueueKept
<1>6. CASE SweepThrows \/ Publish \/ (\E r \in Routes : RecordFails(r))
           \/ (\E a \in Alerts(Routes) : AlertFails(a))
  <2>1. /\ up /\ up' /\ UNCHANGED <<watches, failing, lastAlert, seen, diskLatest>>
        /\ EndSweep
    BY <1>6 DEF SweepThrows, Publish, RecordFails, AlertFails, PhaseInv, disk, history
  <2>2. Live' = Live /\ Listed' = Listed /\ queue' = {} /\ \A r : ~Ahead(r)'
    BY <2>1 DEF Live, Listed, EndSweep, BeginSweep, Ahead
  <2> QED
    BY <2>1, <2>2, PagedKept, QueueEmpty
<1>7. ASSUME NEW r \in Routes, Record(r) PROVE PagedInv' /\ QueueInv'
  <2>1. /\ up /\ up' /\ UNCHANGED <<watches, failing, lastAlert, results, batch>>
        /\ queue' = {} /\ r \in batch /\ todo' = todo \ {r}
        /\ diskLatest' = [diskLatest EXCEPT ![r] = results[r]]
        /\ seen' = [seen EXCEPT ![r] = @ \cup {Fails(watches, results[r], r)}]
        /\ pc = "recording" /\ pc' \in {"recording", "judging"}
    BY <1>7 DEF Record, PhaseInv, TypeOK
  <2>2. Live' = Live /\ Listed = watches /\ Listed' = watches
    BY <2>1 DEF Live, Listed
  <2>3. ASSUME NEW x \in Live
        PROVE  /\ Accounted(x, x \in StoredFailing(watches, diskLatest))'
               /\ Accounted(x, x \in failing)'
               /\ diskLatest'[x] = NoReading => lastAlert'[x] = "none"
               /\ Ahead(x)' => diskLatest'[x] = results'[x]
    <3>1. x \in Routes
      BY LiveRoutes
    <3>2. Accounted(x, x \in StoredFailing(watches, diskLatest)) /\ Accounted(x, x \in failing)
      BY <2>1, <2>2 DEF PagedInv
    <3>3. CASE x = r
      <4>1. diskLatest'[x] = results[x] /\ results[x] # NoReading
        BY <2>1, <3>1, <3>3, OutcomeIsReading DEF TypeOK, ReadInv
      <4>2. seen'[x] = seen[x] \cup {Fails(watches, results[x], x)}
        BY <2>1, <3>1, <3>3 DEF TypeOK
      <4>3. x \in StoredFailing(watches, diskLatest') <=> Fails(watches, results[x], x)
        BY <3>1, <4>1 DEF StoredFailing
      <4>4. Fails(watches, results[x], x) \in BOOLEAN
        BY DEF Fails, isRouteFailing
      <4>5. Accounted(x, x \in StoredFailing(watches, diskLatest))'
        <5>1. CASE Fails(watches, results[x], x)
          BY <2>1, <4>2, <4>3, <4>4, <5>1 DEF Accounted
        <5>2. CASE ~Fails(watches, results[x], x)
          BY <2>1, <4>2, <4>3, <4>4, <5>2 DEF Accounted
        <5> QED
          BY <5>1, <5>2
      <4> QED
        BY <2>1, <3>2, <4>1, <4>2, <4>5 DEF Accounted
    <3>4. CASE x # r
      <4>1. diskLatest'[x] = diskLatest[x] /\ seen'[x] = seen[x] /\ (Ahead(x)' => Ahead(x))
        BY <2>1, <3>1, <3>4 DEF TypeOK, Ahead
      <4>2. x \in StoredFailing(watches, diskLatest') <=> x \in StoredFailing(watches, diskLatest)
        BY <3>1, <4>1, StoredStable
      <4> QED
        BY <2>1, <3>2, <4>1, <4>2 DEF PagedInv, Accounted
    <3> QED
      BY <3>3, <3>4
  <2> QED
    BY <2>1, <2>2, <2>3, QueueEmpty DEF PagedInv, Accounted
<1>8. CASE Judge
  <2> DEFINE now == {r \in batch : Fails(watches, results[r], r)}
  <2>1. /\ queue' = computeTransitions(failing, batch, now)
        /\ failing' = (failing \ batch) \cup now
        /\ now \subseteq batch
        /\ \A x \in batch : x \in now <=> Fails(watches, results[x], x)
    BY <1>8 DEF Judge
  <2> HIDE DEF now
  <2>2. /\ up /\ up' /\ UNCHANGED <<watches, lastAlert, seen, diskLatest>>
        /\ pc = "judging" /\ pc' = "alerting" /\ todo = {}
    BY <1>8 DEF Judge, PhaseInv, disk, history
  <2>3. Live' = Live /\ Listed = watches /\ Listed' = watches
    BY <2>2 DEF Live, Listed
  <2>4. ASSUME NEW x \in Live
        PROVE  /\ x \in Routes
               /\ Accounted(x, x \in StoredFailing(watches, diskLatest))
               /\ Accounted(x, x \in failing)
               /\ diskLatest[x] = NoReading => lastAlert[x] = "none"
               /\ x \in batch => diskLatest[x] = results[x]
    BY <2>2, <2>3, LiveRoutes DEF PagedInv, Ahead
  <2>5. ASSUME NEW x \in Live, x \in batch
        PROVE  /\ diskLatest[x] # NoReading
               /\ x \in failing' <=> x \in StoredFailing(watches, diskLatest)
               /\ x \in failing' <=> x \in now
    <3>1. diskLatest[x] = results[x] /\ results[x] # NoReading /\ x \in Routes
      BY <2>2, <2>4, <2>5, OutcomeIsReading DEF ReadInv
    <3>2. x \in failing' <=> Fails(watches, results[x], x)
      BY <2>1, <2>5
    <3> QED
      BY <2>1, <2>5, <3>1, <3>2 DEF StoredFailing
  <2>6. PagedInv'
    <3> SUFFICES ASSUME NEW x \in Live
                 PROVE  /\ Accounted(x, x \in StoredFailing(watches, diskLatest))'
                        /\ Accounted(x, x \in failing)'
                        /\ diskLatest'[x] = NoReading => lastAlert'[x] = "none"
                        /\ ~Ahead(x)'
      BY <2>2, <2>3 DEF PagedInv
    <3>1. ~Ahead(x)'
      BY <2>2 DEF Ahead
    <3>2. StoredFailing(watches, diskLatest)' = StoredFailing(watches, diskLatest)
      BY <2>2 DEF StoredFailing, Fails, minRatioFor
    <3>3. CASE x \in batch
      BY <2>2, <2>4, <2>5, <3>1, <3>2, <3>3 DEF Accounted
    <3>4. CASE x \notin batch
      <4>1. x \in failing' <=> x \in failing
        BY <2>1, <3>4
      <4> QED
        BY <2>2, <2>4, <3>1, <3>2, <4>1 DEF Accounted
    <3> QED
      BY <3>3, <3>4
  <2>7. QueueInv'
    <3> SUFFICES ASSUME NEW a \in queue', a.id \in Live
                 PROVE  /\ a.kind = "breach" <=> a.id \in failing'
                        /\ a.id \in failing' <=> a.id \in StoredFailing(watches', diskLatest')
                        /\ diskLatest'[a.id] # NoReading
                        /\ a.kind = lastAlert'[a.id] => (a.kind # "breach") \in seen'[a.id]
      BY <2>3 DEF QueueInv
    <3>1. \/ a.kind = "breach" /\ a.id \in now \ failing
          \/ a.kind = "recovery" /\ a.id \in (batch \ now) \cap failing
      BY <2>1 DEF computeTransitions
    <3>2. a.id \in batch
      BY <2>1, <3>1
    <3>3. StoredFailing(watches', diskLatest') = StoredFailing(watches, diskLatest)
      BY <2>2
    <3>4. a.kind = "breach" <=> a.id \in failing'
      BY <2>5, <3>1, <3>2
    <3>5. a.kind = lastAlert[a.id] => (a.kind # "breach") \in seen[a.id]
      BY <2>4, <3>1 DEF Accounted
    <3> QED
      BY <2>2, <2>5, <3>2, <3>3, <3>4, <3>5
  <2> QED
    BY <2>6, <2>7
<1>9. ASSUME NEW a \in Alerts(Routes), Alert(a) PROVE PagedInv' /\ QueueInv'
  <2>1. /\ up /\ up' /\ UNCHANGED <<watches, failing, diskLatest>>
        /\ a \in queue /\ queue' = queue \ {a}
        /\ lastAlert' = [lastAlert EXCEPT ![a.id] = a.kind]
        /\ seen' = [seen EXCEPT ![a.id] = {}]
        /\ pc' = "posting"
    BY <1>9 DEF Alert, PhaseInv
  <2>2. a.id \in Routes /\ a.kind \in {"breach", "recovery"}
    BY DEF Alerts, Kinds
  <2>3. Live' = Live /\ Listed = watches /\ Listed' = watches
    BY <2>1 DEF Live, Listed
  <2>4. lastAlert'[a.id] = a.kind /\ seen'[a.id] = {}
    BY <2>1, <2>2 DEF TypeOK
  <2>5. \A x \in Live : x # a.id => lastAlert'[x] = lastAlert[x] /\ seen'[x] = seen[x]
    BY <2>1, <2>2, LiveRoutes DEF TypeOK
  <2>6. StoredFailing(watches, diskLatest)' = StoredFailing(watches, diskLatest)
    BY <2>1 DEF StoredFailing, Fails, minRatioFor
  <2>7. PagedInv'
    <3> SUFFICES ASSUME NEW x \in Live
                 PROVE  /\ Accounted(x, x \in StoredFailing(watches, diskLatest))'
                        /\ Accounted(x, x \in failing)'
                        /\ diskLatest'[x] = NoReading => lastAlert'[x] = "none"
                        /\ ~Ahead(x)'
      BY <2>1, <2>3 DEF PagedInv
    <3>1. ~Ahead(x)'
      BY <2>1 DEF Ahead
    <3>2. CASE x = a.id
      <4>1. /\ a.kind = "breach" <=> x \in failing
            /\ x \in failing <=> x \in StoredFailing(watches, diskLatest)
            /\ diskLatest[x] # NoReading
        BY <2>1, <3>2 DEF QueueInv
      <4> QED
        BY <2>1, <2>2, <2>4, <2>6, <3>1, <3>2, <4>1 DEF Accounted
    <3>3. CASE x # a.id
      BY <2>1, <2>3, <2>5, <2>6, <3>1, <3>3 DEF PagedInv, Accounted
    <3> QED
      BY <3>2, <3>3
  <2>8. QueueInv'
    <3> SUFFICES ASSUME NEW b \in queue', b.id \in Live
                 PROVE  /\ b.kind = "breach" <=> b.id \in failing'
                        /\ b.id \in failing' <=> b.id \in StoredFailing(watches', diskLatest')
                        /\ diskLatest'[b.id] # NoReading
                        /\ b.kind = lastAlert'[b.id] => (b.kind # "breach") \in seen'[b.id]
      BY <2>3 DEF QueueInv
    <3>1. b \in Alerts(Routes) /\ b \in queue /\ b # a
      BY <2>1 DEF TypeOK
    <3>2. b.id # a.id
      <4>1. SUFFICES ASSUME b.id = a.id PROVE FALSE
        OBVIOUS
      <4>2. b.kind \in {"breach", "recovery"}
        BY <3>1 DEF Alerts, Kinds
      <4>3. b.kind = a.kind
        BY <2>1, <2>2, <3>1, <4>1, <4>2 DEF QueueInv
      <4> QED
        BY <3>1, <4>1, <4>3 DEF Alerts
    <3> QED
      BY <2>1, <2>5, <2>6, <3>1, <3>2 DEF QueueInv
  <2> QED
    BY <2>7, <2>8
<1>10. ASSUME NEW w \in Watches, PostWatch(w) PROVE PagedInv' /\ QueueInv'
  <2>1. /\ up /\ up' /\ UNCHANGED <<failing, queue, lastAlert, seen, diskLatest>>
        /\ watches' = watches \cup {w} /\ \A x : ~Ahead(x)'
    BY <1>10 DEF PostWatch, addWatch, Ahead, Yielded, RequestSweep, BeginSweep
  <2>2. Live' = Live \cup {w} /\ Listed = watches /\ Listed' = watches \cup {w}
    BY <2>1 DEF Live, Listed, sweepRoutes
  <2>3. w \in Routes /\ lastAlert[w] = "none" /\ \A a \in queue : a.id # w
    BY <1>10, ConstantsAssumption DEF PostWatch, FreshInv, Known, Routes
  <2>4. ASSUME NEW x \in Live, x # w
        PROVE  x \in StoredFailing(watches', diskLatest') <=> x \in StoredFailing(watches, diskLatest)
    BY <2>1, <2>4, LiveRoutes, StoredStable
  <2>5. PagedInv'
    <3> SUFFICES ASSUME NEW x \in Live'
                 PROVE  /\ Accounted(x, x \in StoredFailing(watches, diskLatest))'
                        /\ Accounted(x, x \in failing)'
                        /\ diskLatest'[x] = NoReading => lastAlert'[x] = "none"
      BY <2>1, <2>2 DEF PagedInv
    <3>1. CASE x = w
      BY <2>1, <2>3, <3>1 DEF Accounted
    <3>2. CASE x # w
      BY <2>1, <2>2, <2>4, <3>2 DEF PagedInv, Accounted
    <3> QED
      BY <3>1, <3>2
  <2>6. QueueInv'
    BY <2>1, <2>2, <2>3, <2>4 DEF QueueInv
  <2> QED
    BY <2>5, <2>6
<1>11. ASSUME NEW w \in Watches, DeleteWatch(w) PROVE PagedInv' /\ QueueInv'
  <2>1. /\ up /\ up' /\ UNCHANGED <<failing, queue, lastAlert>>
        /\ watches' = watches \ {w} /\ \A x : ~Ahead(x)'
        /\ diskLatest' = [diskLatest EXCEPT ![w] = NoReading]
        /\ seen' = [seen EXCEPT ![w] = {}]
    BY <1>11 DEF DeleteWatch, removeWatch, Ahead, Yielded, RequestSweep, BeginSweep
  <2>2. Live' = Live \ {w} /\ Listed = watches /\ Listed' = watches \ {w}
    BY <2>1, ConstantsAssumption DEF Live, Listed, sweepRoutes
  <2>3. \A x \in Live' : /\ seen'[x] = seen[x] /\ diskLatest'[x] = diskLatest[x]
                         /\ x \in watches' <=> x \in watches
    BY <2>1, <2>2, LiveRoutes DEF TypeOK
  <2> QED
    BY <2>1, <2>2, <2>3, PagedKept, QueueKept
<1>12. CASE UNCHANGED vars
  <2>1. UNCHANGED <<up, pc, batch, todo, results, watches, diskWatches, failing, queue, lastAlert, seen, diskLatest>>
    BY <1>12 DEF vars, memory, disk, history
  <2> QED
    BY <2>1 DEF PagedInv, QueueInv, Accounted, Live, Listed, Ahead, StoredFailing, Fails, minRatioFor
<1> QED
  BY <1>1, <1>2, <1>3, <1>4, <1>5, <1>6, <1>7, <1>8, <1>9, <1>10, <1>11, <1>12
  DEF Next, SweepStep, SweepFault

(***************************************************************************)
(* Whatever crashes or fails, and whenever: an alert is repeated only if   *)
(* the opposite status was stored in between (serve/monitor.ts:79-83,      *)
(* :104-125; serve/monitor.test.ts:88).                                    *)
(***************************************************************************)
THEOREM NoAlertIsRepeated == Spec => []NoRepeatedAlert
<1>1. QueueInv => NoRepeatedAlert
  BY DEF QueueInv, NoRepeatedAlert
<1>2. TypeInv /\ WatchInv /\ FreshInv /\ ReadInv /\ PagedInv /\ QueueInv /\ [Next]_vars
      => PagedInv' /\ QueueInv'
  BY NextPagedInv
<1> QED
  BY <1>1, <1>2, InitPagedInv, TypeInvariant, WatchInvariant, FreshInvariant, ReadInvariant,
     PTL DEF Spec

-----------------------------------------------------------------------------
(***************************************************************************)
(* The board.  Only Publish ends a sweep that was not cut off, and every   *)
(* handler that touches the store leaves a sweep under way; an unreadable  *)
(* registry or a full disk ends one without rebuilding the snapshot, so    *)
(* these two faults are excluded and the process may die at any step.      *)
(***************************************************************************)
LEMMA NextBoard ==
  ASSUME Faults \subseteq {"crash", "torn"}, TypeInv, BoardIsStore, [Next]_vars
  PROVE  BoardIsStore'
<1> SUFFICES ASSUME up', pc' = "idle" PROVE board' = latest'
  BY DEF BoardIsStore, Quiet
<1> USE DEF TypeInv
<1>1. CASE Boot \/ Tick \/ CheckResolves \/ Judge \/ WebhookSettles
  BY <1>1 DEF Boot, Tick, CheckResolves, Judge, WebhookSettles, RequestSweep, BeginSweep
<1>2. CASE Shutdown \/ Crash \/ CrashInPersist \/ \E w \in Watches : CrashInRemove(w)
  BY <1>2 DEF Shutdown, Crash, CrashInPersist, CrashInRemove, MemoryLost
<1>3. CASE Publish
  BY <1>3 DEF Publish
<1>4. CASE \E r \in Routes : Record(r)
  BY <1>4 DEF Record
<1>5. CASE \E a \in Alerts(Routes) : Alert(a)
  BY <1>5 DEF Alert
<1>6. CASE \E w \in Watches : PostWatch(w) \/ DeleteWatch(w)
  BY <1>6 DEF PostWatch, DeleteWatch, RequestSweep, BeginSweep
<1>7. CASE SweepFault
  BY <1>7 DEF SweepFault, SweepThrows, RecordFails, AlertFails
<1>8. CASE UNCHANGED vars
  BY <1>8 DEF vars, memory, BoardIsStore, Quiet
<1> QED
  BY <1>1, <1>2, <1>3, <1>4, <1>5, <1>6, <1>7, <1>8 DEF Next, SweepStep

(***************************************************************************)
(* Between sweeps the API serves what the store holds, also after a crash  *)
(* at any step (serve/monitor.ts:123).                                     *)
(***************************************************************************)
THEOREM BoardServesStore ==
  ASSUME Faults \subseteq {"crash", "torn"}
  PROVE  Spec => []BoardIsStore
<1>1. Init => BoardIsStore
  BY DEF Init, BoardIsStore, Quiet
<1>2. TypeInv /\ BoardIsStore /\ [Next]_vars => BoardIsStore'
  BY NextBoard
<1> QED
  BY <1>1, <1>2, TypeInvariant, PTL DEF Spec

-----------------------------------------------------------------------------
(***************************************************************************)
(* The log file of a route.  What a restart would read of it is the        *)
(* observations newer than some t, but for a set that is lost; each crash  *)
(* inside an append costs at most two of them, of which the second goes    *)
(* only with the next append: until then it is owed.  The ring holds its   *)
(* own such part, because after a line was lost memory and file differ.    *)
(***************************************************************************)
Observation == Nat \ {0}

\* p[n] is what the first n lines of the file parse to.
Parses(file, p) ==
  p = [n \in 0 .. Len(file) |->
         IF n = 0 THEN <<>>
         ELSE IF file[n] = Garbage THEN p[n - 1] ELSE Append(p[n - 1], file[n])]

LEMMA ParsesExists ==
  ASSUME NEW file \in Seq(Nat)
  PROVE  \E p : Parses(file, p)
<1> DEFINE go == [z \in (1 .. Len(file)) \X Seq(Nat) |->
                    IF file[z[1]] = Garbage THEN z[2] ELSE Append(z[2], file[z[1]])]
<1>1. Len(file) \in Nat /\ <<>> \in Seq(Nat) /\ \A n \in 1 .. Len(file) : file[n] \in Nat
  OBVIOUS
<1>2. \A z \in (1 .. Len(file)) \X Seq(Nat) : go[z] \in Seq(Nat)
  BY <1>1
<1>3. go \in [(1 .. Len(file)) \X Seq(Nat) -> Seq(Nat)]
  BY <1>2
<1>4. \A n \in 1 .. Len(file), s \in Seq(Nat) :
        go[<<n, s>>] = IF file[n] = Garbage THEN s ELSE Append(s, file[n])
  OBVIOUS
<1> HIDE DEF go
<1>5. Runs(Len(file), Seq(Nat), <<>>, go) # {}
  BY <1>1, <1>3, RunsExist
<1>6. PICK p \in [0 .. Len(file) -> Seq(Nat)] :
        \A n \in 0 .. Len(file) : p[n] = IF n = 0 THEN <<>> ELSE go[<<n, p[n - 1]>>]
  BY <1>5 DEF Runs
<1>7. ASSUME NEW n \in 0 .. Len(file)
      PROVE  p[n] = IF n = 0 THEN <<>>
                    ELSE IF file[n] = Garbage THEN p[n - 1] ELSE Append(p[n - 1], file[n])
  <2>1. n # 0 => n \in 1 .. Len(file) /\ p[n - 1] \in Seq(Nat)
    BY <1>1
  <2> QED
    BY <1>4, <1>6, <2>1
<1>8. p = [n \in 0 .. Len(file) |->
             IF n = 0 THEN <<>>
             ELSE IF file[n] = Garbage THEN p[n - 1] ELSE Append(p[n - 1], file[n])]
  BY <1>7, Zenon
<1> QED
  BY <1>8 DEF Parses

LEMMA ParsesReads ==
  ASSUME NEW file \in Seq(Nat)
  PROVE  \E p : Parses(file, p) /\ readJsonl(file) = p[Len(file)]
BY ParsesExists, Zenon DEF Parses, readJsonl

\* What lies behind the first k lines does not change what these parse to.
LEMMA ParsesAgree ==
  ASSUME NEW file \in Seq(Nat), NEW other \in Seq(Nat), NEW p, NEW q,
         Parses(file, p), Parses(other, q),
         NEW k \in Nat, k <= Len(file), k <= Len(other), \A i \in 1 .. k : file[i] = other[i]
  PROVE  p[k] = q[k]
<1> DEFINE N == {n \in Nat : n <= k => p[n] = q[n]}
<1>1. 0 \in N
  BY SMT DEF Parses
<1>2. ASSUME NEW n \in Nat, n \in N PROVE n + 1 \in N
  <2> SUFFICES ASSUME n + 1 <= k PROVE p[n + 1] = q[n + 1]
    OBVIOUS
  <2>1. p[n] = q[n] /\ file[n + 1] = other[n + 1] /\ n + 1 # 0 /\ (n + 1) - 1 = n
    BY <1>2, SMT
  <2>2. n + 1 \in 0 .. Len(file) /\ n + 1 \in 0 .. Len(other)
    BY SMT
  <2>3. p[n + 1] = IF file[n + 1] = Garbage THEN p[n] ELSE Append(p[n], file[n + 1])
    BY <2>1, <2>2 DEF Parses
  <2>4. q[n + 1] = IF other[n + 1] = Garbage THEN q[n] ELSE Append(q[n], other[n + 1])
    BY <2>1, <2>2 DEF Parses
  <2> QED
    BY <2>1, <2>3, <2>4
<1> HIDE DEF N
<1>3. k \in N
  BY <1>1, <1>2, NatSetInduction
<1> QED
  BY <1>3 DEF N

LEMMA ReadEmpty == readJsonl(<<>>) = <<>>
<1>1. <<>> \in Seq(Nat) /\ Len(<<>>) = 0
  OBVIOUS
<1>2. PICK p : Parses(<<>>, p) /\ readJsonl(<<>>) = p[Len(<<>>)]
  BY <1>1, ParsesReads
<1>3. p[0] = <<>>
  BY <1>1, <1>2 DEF Parses
<1> QED
  BY <1>1, <1>2, <1>3

LEMMA ReadAppend ==
  ASSUME NEW file \in Seq(Nat), NEW line \in Nat
  PROVE  readJsonl(Append(file, line))
           = IF line = Garbage THEN readJsonl(file) ELSE Append(readJsonl(file), line)
<1> DEFINE more == Append(file, line)
<1>1. more \in Seq(Nat) /\ Len(more) = Len(file) + 1 /\ Len(file) \in Nat
      /\ more[Len(file) + 1] = line /\ \A i \in 1 .. Len(file) : file[i] = more[i]
  OBVIOUS
<1> HIDE DEF more
<1>2. PICK p : Parses(file, p) /\ readJsonl(file) = p[Len(file)]
  BY ParsesReads
<1>3. PICK q : Parses(more, q) /\ readJsonl(more) = q[Len(more)]
  BY <1>1, ParsesReads
<1>4. p[Len(file)] = q[Len(file)]
  <2>1. Len(file) <= Len(file) /\ Len(file) <= Len(more)
    BY <1>1, SMT
  <2>2. \A k \in Nat : k <= Len(file) /\ k <= Len(more) /\ (\A i \in 1 .. k : file[i] = more[i])
                         => p[k] = q[k]
    BY <1>1, <1>2, <1>3, ParsesAgree
  <2> QED
    BY <1>1, <2>1, <2>2
<1>5. Len(more) \in 0 .. Len(more) /\ Len(more) # 0 /\ Len(more) - 1 = Len(file)
  BY <1>1
<1>6. q[Len(more)] = IF more[Len(more)] = Garbage THEN q[Len(more) - 1]
                     ELSE Append(q[Len(more) - 1], more[Len(more)])
  BY <1>3, <1>5 DEF Parses
<1>7. readJsonl(more) = IF line = Garbage THEN readJsonl(file) ELSE Append(readJsonl(file), line)
  BY <1>1, <1>2, <1>3, <1>4, <1>5, <1>6
<1> QED
  BY <1>7 DEF more

LEMMA ReadType ==
  ASSUME NEW file \in Seq(Nat)
  PROVE  readJsonl(file) \in Seq(Observation)
<1>1. PICK p : Parses(file, p) /\ readJsonl(file) = p[Len(file)]
  BY ParsesReads
<1> DEFINE N == {n \in Nat : n <= Len(file) => p[n] \in Seq(Observation)}
<1>2. 0 \in N
  BY <1>1, SMT DEF Parses
<1>3. ASSUME NEW n \in Nat, n \in N PROVE n + 1 \in N
  <2> SUFFICES ASSUME n + 1 <= Len(file) PROVE p[n + 1] \in Seq(Observation)
    OBVIOUS
  <2>1. p[n] \in Seq(Observation) /\ n + 1 \in 0 .. Len(file) /\ n + 1 # 0 /\ (n + 1) - 1 = n
    BY <1>3, SMT
  <2>2. p[n + 1] = IF file[n + 1] = Garbage THEN p[n] ELSE Append(p[n], file[n + 1])
    BY <1>1, <2>1 DEF Parses
  <2>3. file[n + 1] # Garbage => file[n + 1] \in Observation
    BY SMT DEF Observation, Garbage
  <2> QED
    BY <2>1, <2>2, <2>3
<1> HIDE DEF N
<1>4. Len(file) \in N
  BY <1>2, <1>3, NatSetInduction
<1> QED
  BY <1>1, <1>4 DEF N

\* A file without garbage is read as it is.
LEMMA ReadClean ==
  ASSUME NEW file \in Seq(Observation)
  PROVE  readJsonl(file) = file
<1>0. file \in Seq(Nat)
  BY DEF Observation
<1>1. PICK p : Parses(file, p) /\ readJsonl(file) = p[Len(file)]
  BY <1>0, ParsesReads
<1> DEFINE N == {n \in Nat : n <= Len(file) => p[n] = SubSeq(file, 1, n)}
<1>2. 0 \in N
  BY <1>1, SMT DEF Parses
<1>3. ASSUME NEW n \in Nat, n \in N PROVE n + 1 \in N
  <2> SUFFICES ASSUME n + 1 <= Len(file) PROVE p[n + 1] = SubSeq(file, 1, n + 1)
    OBVIOUS
  <2>1. p[n] = SubSeq(file, 1, n) /\ n + 1 \in 0 .. Len(file) /\ n + 1 # 0 /\ (n + 1) - 1 = n
    BY <1>3, SMT
  <2>2. p[n + 1] = IF file[n + 1] = Garbage THEN p[n] ELSE Append(p[n], file[n + 1])
    BY <1>1, <2>1 DEF Parses
  <2>3. file[n + 1] # Garbage
    BY SMT DEF Observation, Garbage
  <2>4. Append(SubSeq(file, 1, n), file[n + 1]) = SubSeq(file, 1, n + 1)
    BY <1>0, SMT
  <2> QED
    BY <2>1, <2>2, <2>3, <2>4
<1> HIDE DEF N
<1>4. Len(file) \in N
  BY <1>2, <1>3, NatSetInduction
<1>5. p[Len(file)] = SubSeq(file, 1, Len(file))
  BY <1>4 DEF N
<1> QED
  BY <1>1, <1>5, SMT
-----------------------------------------------------------------------------
Increasing(s) == \A i, j \in 1 .. Len(s) : i < j => s[i] < s[j]
Elements(s) == {s[i] : i \in 1 .. Len(s)}

\* s holds, in their order, those of the first n observations that are newer than t, but
\* for those in lost.
Covers(s, n, t, lost) ==
  /\ s \in Seq(Observation) /\ Increasing(s)
  /\ t \in 0 .. n /\ lost \in SUBSET (1 .. n)
  /\ \A x : x \in Elements(s) <=> x \in 1 .. n /\ x > t /\ x \notin lost

\* ... and goes back to the first of them unless it holds at least k; at most c are lost.
Holds(s, n, t, lost, c, k) ==
  Covers(s, n, t, lost) /\ Cardinality(lost) <= c /\ (t = 0 \/ Len(s) >= k)

\* What the next append will lose besides, and whether it was read already.
Owed == IF ~open THEN 0 ELSE IF Last(log) = Garbage THEN 1 ELSE 2
Loose == IF open /\ Last(log) # Garbage THEN 1 ELSE 0

LogType ==
  /\ stored \in Nat /\ crashes \in Nat
  /\ log \in Seq(Nat) /\ (open => log # <<>>)
  /\ ring \in Seq(Observation) /\ Len(ring) <= RING

FileInv ==
  ~gutted => \E t, lost : Holds(readJsonl(log), stored, t, lost, 2 * crashes - Owed, RING + Loose)

RingInv ==
  ~gutted /\ alive =>
    /\ \E t, lost : Holds(ring, stored, t, lost, 2 * crashes, RING)
    /\ crashes = 0 => ring = Loaded(log)

LogInv == LogType /\ FileInv /\ RingInv
-----------------------------------------------------------------------------
LEMMA LostIsFinite ==
  ASSUME NEW n \in Nat, NEW lost \in SUBSET (1 .. n)
  PROVE  IsFiniteSet(lost) /\ Cardinality(lost) \in Nat
         /\ \A x : x \notin lost => Cardinality(lost \cup {x}) = Cardinality(lost) + 1
<1>1. IsFiniteSet(1 .. n)
  BY FS_Interval
<1>2. IsFiniteSet(lost)
  BY <1>1, FS_Subset
<1> QED
  BY <1>2, FS_CardinalityType, FS_AddElement

\* A list in order grows by at least one from element to element.
LEMMA IncreasingSpan ==
  ASSUME NEW s \in Seq(Observation), Increasing(s), NEW k \in Nat, k < Len(s)
  PROVE  s[k + 1] >= s[1] + k
<1> DEFINE N == {n \in Nat : n < Len(s) => s[n + 1] >= s[1] + n}
<1>0. \A i \in 1 .. Len(s) : s[i] \in Nat
  BY DEF Observation
<1>1. 0 \in N
  BY <1>0, SMT
<1>2. ASSUME NEW n \in Nat, n \in N PROVE n + 1 \in N
  <2> SUFFICES ASSUME n + 1 < Len(s) PROVE s[(n + 1) + 1] >= s[1] + (n + 1)
    OBVIOUS
  <2>1. n + 1 \in 1 .. Len(s) /\ (n + 1) + 1 \in 1 .. Len(s) /\ 1 \in 1 .. Len(s)
        /\ s[n + 1] >= s[1] + n
    BY <1>2, SMT
  <2>2. s[n + 1] < s[(n + 1) + 1]
    BY <2>1, SMT DEF Increasing
  <2> QED
    BY <1>0, <2>1, <2>2, SMT
<1> HIDE DEF N
<1>3. k \in N
  BY <1>1, <1>2, NatSetInduction
<1> QED
  BY <1>3 DEF N

\* The newest of what is held, a ring of them, still hold a ring.
LEMMA NewestHolds ==
  ASSUME NEW s, NEW n \in Nat, NEW t, NEW lost, NEW c, Holds(s, n, t, lost, c, RING)
  PROVE  /\ Newest(s, RING) \in Seq(Observation) /\ Len(Newest(s, RING)) <= RING
         /\ \E u : Holds(Newest(s, RING), n, u, lost, c, RING)
<1>1. RING \in Nat \ {0} /\ s \in Seq(Observation) /\ Len(s) \in Nat
      /\ \A i \in 1 .. Len(s) : s[i] \in Nat
  BY LogAssumption DEF Holds, Covers, Observation
<1>2. CASE Len(s) <= RING
  <2>0. ~(Len(s) > RING)
    BY <1>1, <1>2, SMT
  <2>1. Newest(s, RING) = SubSeq(s, 1, Len(s))
    BY <2>0, Zenon DEF Newest
  <2>2. Newest(s, RING) = s
    BY <1>1, <2>1, SMT
  <2> QED
    BY <1>1, <1>2, <2>2
<1>3. CASE Len(s) > RING
  <2> DEFINE d == Len(s) - RING
             r == Newest(s, RING)
  <2>1. d \in 1 .. Len(s) /\ s[d] \in Nat
    BY <1>1, <1>3, SMT
  <2>2. r \in Seq(Observation) /\ Len(r) = RING /\ \A i \in 1 .. RING : r[i] = s[i + d]
    BY <1>1, <1>3, SMT DEF Newest
  <2>3. \A i, j \in 1 .. Len(s) : i < j <=> s[i] < s[j]
    BY <1>1, SMT DEF Holds, Covers, Increasing
  <2> HIDE DEF r
  <2>4. Increasing(r)
    <3> SUFFICES ASSUME NEW i \in 1 .. RING, NEW j \in 1 .. RING, i < j PROVE r[i] < r[j]
      BY <2>2 DEF Increasing
    <3>1. i + d \in 1 .. Len(s) /\ j + d \in 1 .. Len(s) /\ i + d < j + d
      BY <1>1, <2>1, SMT
    <3> QED
      BY <2>2, <2>3, <3>1
  <2>5. ASSUME NEW x
        PROVE  x \in Elements(r) <=> x \in Elements(s) /\ x \in Nat /\ x > s[d]
    <3>1. ASSUME NEW i \in 1 .. RING, x = r[i]
          PROVE  x \in Elements(s) /\ x \in Nat /\ x > s[d]
      <4>1. i + d \in 1 .. Len(s) /\ d < i + d /\ x = s[i + d]
        BY <1>1, <2>1, <2>2, <3>1, SMT
      <4> HIDE DEF d
      <4> QED
        BY <1>1, <2>1, <2>3, <4>1, SMT DEF Elements
    <3>2. ASSUME NEW i \in 1 .. Len(s), x = s[i], x > s[d]
          PROVE  x \in Elements(r)
      <4>1. d < i
        BY <1>1, <2>1, <2>3, <3>2
      <4>2. i - d \in 1 .. RING /\ (i - d) + d = i
        BY <1>1, <4>1, SMT
      <4>3. r[i - d] = x
        BY <2>2, <3>2, <4>2
      <4> QED
        BY <2>2, <4>2, <4>3 DEF Elements
    <3> QED
      BY <2>2, <3>1, <3>2 DEF Elements
  <2>6. s[d] > t /\ t \in Nat /\ s[d] \in 0 .. n
    <3>1. s[d] \in Elements(s)
      BY <2>1 DEF Elements
    <3>2. t \in 0 .. n /\ s[d] \in 1 .. n /\ s[d] > t
      BY <3>1 DEF Holds, Covers
    <3> QED
      BY <2>1, <3>2, SMT
  <2>7. \A x : x \in Elements(r) <=> x \in 1 .. n /\ x > s[d] /\ x \notin lost
    <3>1. \A x : x \in Elements(s) <=> x \in 1 .. n /\ x > t /\ x \notin lost
      BY DEF Holds, Covers
    <3> HIDE DEF d
    <3> QED
      BY <2>1, <2>5, <2>6, <3>1, SMT
  <2>8. Holds(r, n, s[d], lost, c, RING)
    BY <2>1, <2>2, <2>4, <2>6, <2>7, <1>1 DEF Holds, Covers
  <2> QED
    BY <1>1, <2>2, <2>8 DEF r
<1> QED
  BY <1>1, <1>2, <1>3, SMT

\* The next observation behind those held.
LEMMA OneMoreHeld ==
  ASSUME NEW s, NEW n \in Nat, NEW t, NEW lost, NEW c, NEW k \in Nat, Holds(s, n, t, lost, c, k)
  PROVE  Holds(Append(s, n + 1), n + 1, t, lost, c, k + 1)
<1> DEFINE r == Append(s, n + 1)
<1>1. s \in Seq(Observation) /\ Len(s) \in Nat
      /\ \A i \in 1 .. Len(s) : s[i] \in 1 .. n
  <2>1. \A i \in 1 .. Len(s) : s[i] \in Elements(s)
    BY DEF Elements
  <2> QED
    BY <2>1 DEF Holds, Covers
<1>2. n + 1 \in Observation
  BY SMT DEF Observation
<1>3. r \in Seq(Observation) /\ Len(r) = Len(s) + 1 /\ r[Len(s) + 1] = n + 1
      /\ \A i \in 1 .. Len(s) : r[i] = s[i]
  BY <1>1, <1>2
<1> HIDE DEF r
<1>4. Increasing(r)
  <2> SUFFICES ASSUME NEW i \in 1 .. Len(r), NEW j \in 1 .. Len(r), i < j PROVE r[i] < r[j]
    BY DEF Increasing
  <2>1. i \in 1 .. Len(s)
    BY <1>1, <1>3, SMT
  <2>2. CASE j = Len(s) + 1
    BY <1>1, <1>3, <2>1, <2>2, SMT
  <2>3. CASE j # Len(s) + 1
    <3>1. j \in 1 .. Len(s)
      BY <1>1, <1>3, <2>3, SMT
    <3> QED
      BY <1>3, <2>1, <3>1 DEF Holds, Covers, Increasing
  <2> QED
    BY <2>2, <2>3
<1>5. ASSUME NEW x
      PROVE  x \in Elements(r) <=> x \in Elements(s) \/ x = n + 1
  <2>1. ASSUME x \in Elements(r) PROVE x \in Elements(s) \/ x = n + 1
    <3>1. PICK i \in 1 .. Len(r) : x = r[i]
      BY <2>1 DEF Elements
    <3>2. i \in 1 .. Len(s) \/ i = Len(s) + 1
      BY <1>1, <1>3, SMT
    <3> QED
      BY <1>3, <3>1, <3>2 DEF Elements
  <2>2. ASSUME NEW i \in 1 .. Len(s), x = s[i] PROVE x \in Elements(r)
    <3>1. i \in 1 .. Len(r) /\ r[i] = x
      BY <1>1, <1>3, <2>2, SMT
    <3> QED
      BY <3>1 DEF Elements
  <2>3. n + 1 \in Elements(r)
    <3>1. Len(s) + 1 \in 1 .. Len(r)
      BY <1>1, <1>3, SMT
    <3> QED
      BY <1>3, <3>1 DEF Elements
  <2> QED
    BY <2>1, <2>2, <2>3 DEF Elements
<1>6. t \in 0 .. n /\ lost \in SUBSET (1 .. n)
      /\ \A x : x \in Elements(s) <=> x \in 1 .. n /\ x > t /\ x \notin lost
  BY DEF Holds, Covers
<1>7. \A x : x \in Elements(r) <=> x \in 1 .. n + 1 /\ x > t /\ x \notin lost
  BY <1>5, <1>6, SMT
<1>8. t \in 0 .. n + 1 /\ lost \in SUBSET (1 .. n + 1)
  BY <1>6, SMT
<1>9. Covers(r, n + 1, t, lost)
  BY <1>3, <1>4, <1>7, <1>8 DEF Covers
<1>10. t = 0 \/ Len(r) >= k + 1
  BY <1>1, <1>3, SMT DEF Holds
<1> QED
  BY <1>9, <1>10 DEF Holds, r

\* The next observation is lost.
LEMMA OneMoreLost ==
  ASSUME NEW s, NEW n \in Nat, NEW t, NEW lost, NEW c \in Int, NEW k, Holds(s, n, t, lost, c, k)
  PROVE  Holds(s, n + 1, t, lost \cup {n + 1}, c + 1, k)
<1>1. s \in Seq(Observation) /\ Increasing(s) /\ t \in 0 .. n /\ lost \in SUBSET (1 .. n)
      /\ (\A x : x \in Elements(s) <=> x \in 1 .. n /\ x > t /\ x \notin lost)
      /\ Cardinality(lost) <= c
  BY DEF Holds, Covers
<1>2. \A x : x \in Elements(s) <=> x \in 1 .. n + 1 /\ x > t /\ x \notin lost \cup {n + 1}
  BY <1>1, SMT
<1>3. t \in 0 .. n + 1 /\ lost \cup {n + 1} \in SUBSET (1 .. n + 1)
  BY <1>1, SMT
<1>4. Cardinality(lost \cup {n + 1}) <= c + 1
  <2>1. n + 1 \notin lost
    BY <1>1, SMT
  <2>2. Cardinality(lost) \in Nat /\ Cardinality(lost \cup {n + 1}) = Cardinality(lost) + 1
    BY <1>1, <2>1, LostIsFinite
  <2> QED
    BY <1>1, <2>2, SMT
<1> QED
  BY <1>1, <1>2, <1>3, <1>4 DEF Holds, Covers

\* The last of those held is lost.
LEMMA LastLost ==
  ASSUME NEW s \in Seq(Observation), NEW x \in Observation, NEW n \in Nat, NEW t, NEW lost,
         NEW c \in Int, NEW k \in Nat, Holds(Append(s, x), n, t, lost, c, k + 1)
  PROVE  Holds(s, n, t, lost \cup {x}, c + 1, k)
<1> DEFINE r == Append(s, x)
<1>1. r \in Seq(Observation) /\ Len(r) = Len(s) + 1 /\ Len(s) \in Nat /\ r[Len(s) + 1] = x
      /\ \A i \in 1 .. Len(s) : r[i] = s[i]
  OBVIOUS
<1> HIDE DEF r
<1>2. Increasing(r) /\ t \in 0 .. n /\ lost \in SUBSET (1 .. n)
      /\ (\A y : y \in Elements(r) <=> y \in 1 .. n /\ y > t /\ y \notin lost)
      /\ Cardinality(lost) <= c /\ (t = 0 \/ Len(r) >= k + 1)
  BY DEF Holds, Covers, r
<1>3. \A i \in 1 .. Len(s) : s[i] < x
  <2> SUFFICES ASSUME NEW i \in 1 .. Len(s) PROVE s[i] < x
    OBVIOUS
  <2>1. i \in 1 .. Len(r) /\ Len(s) + 1 \in 1 .. Len(r) /\ i < Len(s) + 1
    BY <1>1, SMT
  <2>2. r[i] < r[Len(s) + 1]
    BY <1>2, <2>1 DEF Increasing
  <2> QED
    BY <1>1, <2>2
<1>4. Increasing(s)
  <2> SUFFICES ASSUME NEW i \in 1 .. Len(s), NEW j \in 1 .. Len(s), i < j PROVE s[i] < s[j]
    BY DEF Increasing
  <2>1. i \in 1 .. Len(r) /\ j \in 1 .. Len(r)
    BY <1>1, SMT
  <2>2. r[i] < r[j]
    BY <1>2, <2>1 DEF Increasing
  <2> QED
    BY <1>1, <2>2
<1>5. ASSUME NEW y
      PROVE  y \in Elements(s) <=> y \in Elements(r) /\ y # x
  <2>1. ASSUME NEW i \in 1 .. Len(s), y = s[i] PROVE y \in Elements(r) /\ y # x
    <3>1. i \in 1 .. Len(r) /\ r[i] = y
      BY <1>1, <2>1, SMT
    <3>2. y < x /\ y \in Nat /\ x \in Nat
      BY <1>3, <2>1 DEF Observation
    <3> QED
      BY <3>1, <3>2, SMT DEF Elements
  <2>2. ASSUME y \in Elements(r), y # x PROVE y \in Elements(s)
    <3>1. PICK i \in 1 .. Len(r) : y = r[i]
      BY <2>2 DEF Elements
    <3>2. i \in 1 .. Len(s)
      BY <1>1, <2>2, <3>1, SMT
    <3> QED
      BY <1>1, <3>1, <3>2 DEF Elements
  <2> QED
    BY <2>1, <2>2 DEF Elements
<1>6. x \in 1 .. n /\ x \notin lost
  <2>1. Len(s) + 1 \in 1 .. Len(r)
    BY <1>1, SMT
  <2>2. x \in Elements(r)
    BY <1>1, <2>1 DEF Elements
  <2> QED
    BY <1>2, <2>2
<1>7. \A y : y \in Elements(s) <=> y \in 1 .. n /\ y > t /\ y \notin lost \cup {x}
  BY <1>2, <1>5
<1>8. Cardinality(lost \cup {x}) <= c + 1
  <2>1. Cardinality(lost) \in Nat /\ Cardinality(lost \cup {x}) = Cardinality(lost) + 1
    BY <1>2, <1>6, LostIsFinite
  <2> QED
    BY <1>2, <2>1, SMT
<1>9. t = 0 \/ Len(s) >= k
  BY <1>1, <1>2, SMT
<1> QED
  BY <1>2, <1>4, <1>6, <1>7, <1>8, <1>9 DEF Holds, Covers

\* Of the newest RING observations only those that are lost are not held.
LEMMA HeldExplains ==
  ASSUME NEW s, NEW n \in Nat, NEW t, NEW lost, NEW c \in Int, Holds(s, n, t, lost, c, RING),
         Len(s) <= RING
  PROVE  Cardinality({i \in 1 .. n : i > n - RING} \ Elements(s)) <= c
<1>1. s \in Seq(Observation) /\ Increasing(s) /\ t \in 0 .. n /\ lost \in SUBSET (1 .. n)
      /\ (\A x : x \in Elements(s) <=> x \in 1 .. n /\ x > t /\ x \notin lost)
      /\ Cardinality(lost) <= c /\ (t = 0 \/ Len(s) >= RING) /\ RING \in Nat \ {0}
  BY LogAssumption DEF Holds, Covers
<1>2. ASSUME NEW i \in 1 .. n, i > n - RING, i \notin Elements(s)
      PROVE  i \in lost
  <2> SUFFICES ASSUME i <= t PROVE FALSE
    BY <1>1, <1>2, SMT
  <2>1. Len(s) = RING /\ RING - 1 \in Nat /\ RING - 1 < Len(s)
    BY <1>1, SMT
  <2>2. s[(RING - 1) + 1] >= s[1] + (RING - 1) /\ (RING - 1) + 1 = RING
    BY <1>1, <2>1, IncreasingSpan, SMT
  <2>3. 1 \in 1 .. Len(s) /\ RING \in 1 .. Len(s)
    BY <1>1, <2>1, SMT
  <2>4. s[1] \in Elements(s) /\ s[RING] \in Elements(s)
    BY <2>3 DEF Elements
  <2>5. s[1] \in 1 .. n /\ s[1] > t /\ s[RING] \in 1 .. n
    BY <1>1, <2>4
  <2> QED
    BY <1>1, <1>2, <2>2, <2>5, SMT
<1>3. {i \in 1 .. n : i > n - RING} \ Elements(s) \subseteq lost
  BY <1>2
<1>4. IsFiniteSet(lost)
  BY <1>1, LostIsFinite
<1>5. /\ Cardinality({i \in 1 .. n : i > n - RING} \ Elements(s)) <= Cardinality(lost)
      /\ IsFiniteSet({i \in 1 .. n : i > n - RING} \ Elements(s))
  BY <1>3, <1>4, FS_Subset
<1> QED
  BY <1>1, <1>4, <1>5, FS_CardinalityType, SMT

LEMMA WeakerHolds ==
  ASSUME NEW s, NEW n, NEW t, NEW lost, NEW c \in Int, NEW k \in Nat, NEW d \in Int, NEW m \in Nat,
         n \in Nat, Holds(s, n, t, lost, c, k), c <= d, m <= k
  PROVE  Holds(s, n, t, lost, d, m)
<1>1. s \in Seq(Observation) /\ lost \in SUBSET (1 .. n) /\ Cardinality(lost) <= c
      /\ (t = 0 \/ Len(s) >= k)
  BY DEF Holds, Covers
<1>2. Cardinality(lost) \in Nat
  BY <1>1, LostIsFinite
<1>3. Cardinality(lost) <= d
  BY <1>1, <1>2, SMT
<1>4. t = 0 \/ Len(s) >= m
  <2>1. Len(s) \in Nat
    BY <1>1
  <2> QED
    BY <1>1, <2>1, SMT
<1> QED
  BY <1>3, <1>4 DEF Holds

LEMMA NewestShape ==
  ASSUME NEW s \in Seq(Observation)
  PROVE  /\ Newest(s, RING) \in Seq(Observation) /\ Len(Newest(s, RING)) <= RING
         /\ Len(s) <= RING => Newest(s, RING) = s
         /\ Len(s) > RING =>
              /\ Len(Newest(s, RING)) = RING
              /\ \A i \in 1 .. RING : Newest(s, RING)[i] = s[i + (Len(s) - RING)]
<1>1. RING \in Nat \ {0} /\ Len(s) \in Nat
  BY LogAssumption
<1>2. CASE Len(s) <= RING
  <2>1. ~(Len(s) > RING)
    BY <1>1, <1>2, SMT
  <2>2. Newest(s, RING) = SubSeq(s, 1, Len(s))
    BY <2>1, Zenon DEF Newest
  <2>3. Newest(s, RING) = s
    BY <1>1, <2>2, SMT
  <2> QED
    BY <1>2, <2>1, <2>3
<1>3. CASE Len(s) > RING
  <2>1. ~(Len(s) <= RING)
    BY <1>1, <1>3, SMT
  <2>2. Newest(s, RING) \in Seq(Observation) /\ Len(Newest(s, RING)) = RING
        /\ \A i \in 1 .. RING : Newest(s, RING)[i] = s[i + (Len(s) - RING)]
    BY <1>1, <1>3, SMT DEF Newest
  <2> QED
    BY <1>1, <1>3, <2>1, <2>2, SMT
<1> QED
  BY <1>1, <1>2, <1>3, SMT

\* A ring that takes one more holds what it would hold of them all.
LEMMA NewestOfMore ==
  ASSUME NEW s \in Seq(Observation), NEW x \in Observation
  PROVE  Newest(Append(Newest(s, RING), x), RING) = Newest(Append(s, x), RING)
<1>1. RING \in Nat \ {0} /\ Len(s) \in Nat
  BY LogAssumption
<1>2. CASE Len(s) <= RING
  BY <1>2, NewestShape
<1>3. CASE Len(s) > RING
  <2> DEFINE r == Newest(s, RING)
             a == Append(r, x)
             b == Append(s, x)
  <2>1. r \in Seq(Observation) /\ Len(r) = RING /\ \A i \in 1 .. RING : r[i] = s[i + (Len(s) - RING)]
    BY <1>3, NewestShape
  <2> HIDE DEF r
  <2>2. a \in Seq(Observation) /\ Len(a) = RING + 1 /\ a[RING + 1] = x
        /\ \A i \in 1 .. RING : a[i] = r[i]
    BY <1>1, <2>1
  <2>3. b \in Seq(Observation) /\ Len(b) = Len(s) + 1 /\ b[Len(s) + 1] = x
        /\ \A i \in 1 .. Len(s) : b[i] = s[i]
    OBVIOUS
  <2> HIDE DEF a, b
  <2>4. Len(a) > RING /\ Len(b) > RING /\ Len(a) - RING = 1 /\ Len(b) - RING = Len(s) + 1 - RING
    BY <1>1, <1>3, <2>2, <2>3, SMT
  <2>5. /\ Newest(a, RING) \in Seq(Observation) /\ Len(Newest(a, RING)) = RING
        /\ \A i \in 1 .. RING : Newest(a, RING)[i] = a[i + (Len(a) - RING)]
    BY <2>2, <2>4, NewestShape
  <2>6. /\ Newest(b, RING) \in Seq(Observation) /\ Len(Newest(b, RING)) = RING
        /\ \A i \in 1 .. RING : Newest(b, RING)[i] = b[i + (Len(b) - RING)]
    BY <2>3, <2>4, NewestShape
  <2>7. ASSUME NEW i \in 1 .. RING PROVE Newest(a, RING)[i] = Newest(b, RING)[i]
    <3>1. Newest(a, RING)[i] = a[i + 1] /\ Newest(b, RING)[i] = b[i + (Len(s) + 1 - RING)]
      BY <2>4, <2>5, <2>6
    <3>2. CASE i = RING
      <4>1. i + (Len(s) + 1 - RING) = Len(s) + 1
        BY <1>1, <3>2, SMT
      <4> QED
        BY <2>2, <2>3, <3>1, <3>2, <4>1
    <3>3. CASE i # RING
      <4>1. i + 1 \in 1 .. RING /\ i + (Len(s) + 1 - RING) = (i + 1) + (Len(s) - RING)
            /\ (i + 1) + (Len(s) - RING) \in 1 .. Len(s)
        BY <1>1, <1>3, <3>3, SMT
      <4> QED
        BY <2>1, <2>2, <2>3, <3>1, <4>1
    <3> QED
      BY <3>2, <3>3
  <2>8. Newest(a, RING) = Newest(b, RING)
    BY <2>5, <2>6, <2>7, SMT
  <2> QED
    BY <2>8 DEF a, b, r
<1> QED
  BY <1>1, <1>2, <1>3, SMT
-----------------------------------------------------------------------------
\* A line behind one that has no newline: both are lost.
LEMMA LostBehind ==
  ASSUME LogType, open
  PROVE  /\ Append(Front(log), Garbage) \in Seq(Nat)
         /\ Last(Append(Front(log), Garbage)) = Garbage
         /\ FileInv /\ ~gutted =>
              \E t, lost : Holds(readJsonl(Append(Front(log), Garbage)), stored + 1, t, lost,
                                 2 * crashes, RING)
<1> DEFINE body == Front(log)
           last == Last(log)
<1>1. body \in Seq(Nat) /\ last \in Nat /\ log = Append(body, last)
  BY SMT DEF LogType, Front, Last
<1> HIDE DEF body, last
<1>2. Append(body, Garbage) \in Seq(Nat) /\ Last(Append(body, Garbage)) = Garbage
  BY <1>1, SMT DEF Last, Garbage
<1>3. readJsonl(Append(body, Garbage)) = readJsonl(body)
  BY <1>1, ReadAppend DEF Garbage
<1>4. readJsonl(log) = IF last = Garbage THEN readJsonl(body) ELSE Append(readJsonl(body), last)
  BY <1>1, ReadAppend
<1>5. readJsonl(body) \in Seq(Observation)
  BY <1>1, ReadType
<1>6. ASSUME FileInv, ~gutted
      PROVE  \E t, lost : Holds(readJsonl(body), stored + 1, t, lost, 2 * crashes, RING)
  <2>1. PICK t, lost : Holds(readJsonl(log), stored, t, lost, 2 * crashes - Owed, RING + Loose)
    BY <1>6 DEF FileInv
  <2>2. stored \in Nat /\ crashes \in Nat /\ RING \in Nat
    BY LogAssumption DEF LogType
  <2>3. CASE last = Garbage
    <3>1. Owed = 1 /\ Loose = 0
      BY <2>3 DEF Owed, Loose, last
    <3>2. 2 * crashes - Owed = 2 * crashes - 1 /\ RING + Loose = RING
      BY <2>2, <3>1, SMT
    <3>3. Holds(readJsonl(body), stored, t, lost, 2 * crashes - 1, RING)
      BY <1>4, <2>1, <2>3, <3>2
    <3>4. 2 * crashes - 1 \in Int /\ (2 * crashes - 1) + 1 = 2 * crashes
      BY <2>2, SMT
    <3>5. Holds(readJsonl(body), stored + 1, t, lost \cup {stored + 1}, (2 * crashes - 1) + 1, RING)
      BY <2>2, <3>3, <3>4, OneMoreLost
    <3> QED
      BY <3>4, <3>5
  <2>4. CASE last # Garbage
    <3>1. Owed = 2 /\ Loose = 1
      BY <2>4 DEF Owed, Loose, last
    <3>2. 2 * crashes - Owed = 2 * crashes - 2 /\ RING + Loose = RING + 1
      BY <2>2, <3>1, SMT
    <3>3. Holds(Append(readJsonl(body), last), stored, t, lost, 2 * crashes - 2, RING + 1)
      BY <1>4, <2>1, <2>4, <3>2
    <3>4. /\ 2 * crashes - 2 \in Int /\ 2 * crashes - 1 \in Int
          /\ (2 * crashes - 2) + 1 = 2 * crashes - 1 /\ (2 * crashes - 1) + 1 = 2 * crashes
      BY <2>2, SMT
    <3>5. last \in Observation
      BY <1>1, <2>4 DEF Observation, Garbage
    <3>6. Holds(readJsonl(body), stored, t, lost \cup {last}, (2 * crashes - 2) + 1, RING)
      BY <1>5, <2>2, <3>3, <3>4, <3>5, LastLost
    <3>7. Holds(readJsonl(body), stored + 1, t, (lost \cup {last}) \cup {stored + 1},
                (2 * crashes - 1) + 1, RING)
      BY <2>2, <3>4, <3>6, OneMoreLost
    <3> QED
      BY <3>4, <3>7
  <2> QED
    BY <2>3, <2>4
<1> QED
  BY <1>2, <1>3, <1>6 DEF body

LEMMA LogInitInv == LogInit => LogInv
<1> SUFFICES ASSUME LogInit PROVE LogInv
  OBVIOUS
<1>0. RING \in Nat \ {0}
  BY LogAssumption
<1>1. LogType
  BY <1>0, SMT DEF LogInit, LogType
<1>2. RingInv
  BY DEF LogInit, RingInv
<1>3. FileInv
  <2>1. readJsonl(log) = <<>> /\ Owed = 0 /\ stored = 0 /\ crashes = 0
    BY ReadEmpty DEF LogInit, Owed
  <2>2. <<>> \in Seq(Observation) /\ Len(<<>>) = 0 /\ Increasing(<<>>) /\ Elements(<<>>) = {}
    BY SMT DEF Increasing, Elements
  <2>3. Covers(<<>>, 0, 0, {})
    BY <2>2, SMT DEF Covers
  <2>4. Cardinality({}) <= 2 * 0 - 0
    BY FS_EmptySet, SMT
  <2>5. Holds(<<>>, 0, 0, {}, 2 * 0 - 0, RING + Loose)
    BY <2>3, <2>4 DEF Holds
  <2> QED
    BY <2>1, <2>5 DEF FileInv
<1> QED
  BY <1>1, <1>2, <1>3 DEF LogInv

LEMMA LogLoadInv == LogInv /\ Load => LogInv'
<1> SUFFICES ASSUME LogInv, Load PROVE LogInv'
  OBVIOUS
<1>1. UNCHANGED <<log, open, stored, crashes, gutted>> /\ ring' = Newest(readJsonl(log), RING)
  BY DEF Load, onDisk, logHistory, Loaded
<1>2. readJsonl(log) \in Seq(Observation) /\ stored \in Nat /\ crashes \in Nat /\ RING \in Nat
  BY ReadType, LogAssumption DEF LogInv, LogType
<1>3. LogType'
  BY <1>1, <1>2, NewestShape DEF LogInv, LogType
<1>4. FileInv'
  BY <1>1 DEF LogInv, FileInv, Owed, Loose
<1>5. RingInv'
  <2>1. SUFFICES ASSUME ~gutted
                 PROVE  \E t, lost : Holds(ring', stored, t, lost, 2 * crashes, RING)
    BY <1>1 DEF RingInv, Loaded
  <2>2. PICK t, lost : Holds(readJsonl(log), stored, t, lost, 2 * crashes - Owed, RING + Loose)
    BY <2>1 DEF LogInv, FileInv
  <2>3. /\ 2 * crashes - Owed \in Int /\ 2 * crashes - Owed <= 2 * crashes /\ 2 * crashes \in Int
        /\ RING + Loose \in Nat /\ RING <= RING + Loose
    BY <1>2, SMT DEF Owed, Loose
  <2>4. Holds(readJsonl(log), stored, t, lost, 2 * crashes, RING)
    BY <1>2, <2>2, <2>3, WeakerHolds
  <2> QED
    BY <1>1, <1>2, <2>4, NewestHolds
<1> QED
  BY <1>3, <1>4, <1>5 DEF LogInv

LEMMA LogExitInv == LogInv /\ Exit => LogInv'
<1> SUFFICES ASSUME LogInv, Exit PROVE LogInv'
  OBVIOUS
<1>1. UNCHANGED <<log, open, stored, crashes, gutted>> /\ ring' = <<>> /\ ~alive'
  BY DEF Exit, Gone, onDisk, logHistory
<1>2. LogType'
  BY <1>1, LogAssumption, SMT DEF LogInv, LogType
<1>3. FileInv' /\ RingInv'
  BY <1>1 DEF LogInv, FileInv, RingInv, Owed, Loose
<1> QED
  BY <1>2, <1>3 DEF LogInv

\* What the ring is when one more observation is pushed.
LEMMA PushedHolds ==
  ASSUME LogInv, alive
  PROVE  /\ Pushed \in Seq(Observation) /\ Len(Pushed) <= RING
         /\ ~gutted => \E t, lost : Holds(Pushed, stored + 1, t, lost, 2 * crashes, RING)
<1>1. stored \in Nat /\ crashes \in Nat /\ RING \in Nat /\ ring \in Seq(Observation)
      /\ stored + 1 \in Observation
  BY LogAssumption, SMT DEF LogInv, LogType, Observation
<1>2. Append(ring, stored + 1) \in Seq(Observation)
  BY <1>1
<1>3. ASSUME ~gutted
      PROVE  \E t, lost : Holds(Pushed, stored + 1, t, lost, 2 * crashes, RING)
  <2>1. PICK t, lost : Holds(ring, stored, t, lost, 2 * crashes, RING)
    BY <1>3 DEF LogInv, RingInv
  <2>2. Holds(Append(ring, stored + 1), stored + 1, t, lost, 2 * crashes, RING + 1)
    BY <1>1, <2>1, OneMoreHeld
  <2>3. 2 * crashes \in Int /\ 2 * crashes <= 2 * crashes /\ RING + 1 \in Nat /\ RING <= RING + 1
        /\ stored + 1 \in Nat
    BY <1>1, SMT
  <2>4. Holds(Append(ring, stored + 1), stored + 1, t, lost, 2 * crashes, RING)
    BY <1>1, <2>2, <2>3, WeakerHolds
  <2> QED
    BY <2>3, <2>4, NewestHolds DEF Pushed
<1> QED
  BY <1>2, <1>3, NewestShape DEF Pushed

LEMMA LogStoreInv == LogInv /\ Store => LogInv'
<1> SUFFICES ASSUME LogInv, Store PROVE LogInv'
  OBVIOUS
<1>1. /\ alive /\ stored' = stored + 1 /\ ring' = Pushed /\ ~open' /\ open' = FALSE
      /\ UNCHANGED <<alive, crashes, gutted>>
      /\ log' = Pushed \/ log' = Extended(stored + 1)
  BY DEF Store
<1>2. /\ stored \in Nat /\ crashes \in Nat /\ RING \in Nat /\ log \in Seq(Nat)
      /\ stored + 1 \in Observation /\ stored + 1 \in Nat /\ LogType
  BY LogAssumption, SMT DEF LogInv, LogType, Observation
<1>3. /\ Pushed \in Seq(Observation) /\ Len(Pushed) <= RING
      /\ ~gutted => \E t, lost : Holds(Pushed, stored + 1, t, lost, 2 * crashes, RING)
  BY <1>1, PushedHolds
<1>4. Pushed \in Seq(Nat) /\ readJsonl(Pushed) = Pushed
  BY <1>3, ReadClean DEF Observation
<1>5. /\ Extended(stored + 1) \in Seq(Nat)
      /\ ~open => /\ Extended(stored + 1) = Append(log, stored + 1)
                  /\ readJsonl(Extended(stored + 1)) = Append(readJsonl(log), stored + 1)
  <2>1. CASE open
    <3>1. Extended(stored + 1) = Append(Front(log), Garbage)
      BY <2>1 DEF Extended
    <3>2. Append(Front(log), Garbage) \in Seq(Nat)
      BY <2>1, <1>2, LostBehind
    <3> QED
      BY <2>1, <3>1, <3>2
  <2>2. CASE ~open
    <3>1. stored + 1 # Garbage
      BY <1>2, SMT DEF Garbage
    <3>2. Extended(stored + 1) = Append(log, stored + 1)
      BY <2>2 DEF Extended
    <3>3. readJsonl(Append(log, stored + 1)) = Append(readJsonl(log), stored + 1)
      BY <1>2, <3>1, ReadAppend
    <3>4. Append(log, stored + 1) \in Seq(Nat)
      BY <1>2
    <3> QED
      BY <3>2, <3>3, <3>4
  <2> QED
    BY <2>1, <2>2
<1>6. LogType'
  BY <1>1, <1>2, <1>3, <1>4, <1>5 DEF LogType
<1>7. Owed' = 0 /\ Loose' = 0 /\ 2 * crashes - 0 = 2 * crashes /\ RING + 0 = RING
  BY <1>1, <1>2, SMT DEF Owed, Loose
<1>8. FileInv'
  <2> SUFFICES ASSUME ~gutted
               PROVE  \E t, lost : Holds(readJsonl(log'), stored + 1, t, lost, 2 * crashes, RING)
    BY <1>1, <1>7 DEF FileInv
  <2>1. CASE log' = Pushed
    BY <1>3, <1>4, <2>1
  <2>2. CASE log' = Extended(stored + 1) /\ open
    BY <1>2, <2>2, LostBehind DEF Extended, LogInv
  <2>3. CASE log' = Extended(stored + 1) /\ ~open
    <3>1. PICK t, lost : Holds(readJsonl(log), stored, t, lost, 2 * crashes - Owed, RING + Loose)
      BY DEF LogInv, FileInv
    <3>2. 2 * crashes - Owed = 2 * crashes /\ RING + Loose = RING /\ 2 * crashes \in Int
          /\ 2 * crashes <= 2 * crashes /\ RING + 1 \in Nat /\ RING <= RING + 1
      BY <1>2, <2>3, SMT DEF Owed, Loose
    <3>3. Holds(Append(readJsonl(log), stored + 1), stored + 1, t, lost, 2 * crashes, RING + 1)
      BY <1>2, <3>1, <3>2, OneMoreHeld
    <3>4. Holds(Append(readJsonl(log), stored + 1), stored + 1, t, lost, 2 * crashes, RING)
      BY <1>2, <3>2, <3>3, WeakerHolds
    <3> QED
      BY <1>5, <2>3, <3>4
  <2> QED
    BY <1>1, <2>1, <2>2, <2>3
<1>9. ASSUME ~gutted, crashes = 0
      PROVE  Pushed = Newest(readJsonl(log'), RING)
  <2>1. ring = Newest(readJsonl(log), RING)
    BY <1>1, <1>9 DEF LogInv, RingInv, Loaded
  <2>2. ~open
    <3> SUFFICES ASSUME open PROVE FALSE
      OBVIOUS
    <3>1. PICK t, lost : Holds(readJsonl(log), stored, t, lost, 2 * crashes - Owed, RING + Loose)
      BY <1>9 DEF LogInv, FileInv
    <3>2. lost \in SUBSET (1 .. stored) /\ Cardinality(lost) <= 2 * crashes - Owed
      BY <3>1 DEF Holds, Covers
    <3>3. Cardinality(lost) \in Nat
      BY <1>2, <3>2, LostIsFinite
    <3>4. Owed \in {1, 2}
      BY DEF Owed
    <3> QED
      BY <1>9, <3>2, <3>3, <3>4, SMT
  <2>3. CASE log' = Pushed
    BY <1>3, <1>4, <2>3, NewestShape
  <2>4. CASE log' = Extended(stored + 1)
    <3>1. readJsonl(log') = Append(readJsonl(log), stored + 1)
      BY <1>5, <2>2, <2>4
    <3>2. readJsonl(log) \in Seq(Observation)
      BY <1>2, ReadType
    <3> QED
      BY <1>2, <2>1, <3>1, <3>2, NewestOfMore DEF Pushed
  <2> QED
    BY <1>1, <2>3, <2>4
<1>10. RingInv'
  BY <1>1, <1>3, <1>9 DEF RingInv, Loaded
<1> QED
  BY <1>6, <1>8, <1>10 DEF LogInv

LEMMA CrashInAppendInv == LogInv /\ CrashInAppend => LogInv'
<1> SUFFICES ASSUME LogInv, CrashInAppend PROVE LogInv'
  OBVIOUS
<1>1. /\ stored' = stored + 1 /\ crashes' = crashes + 1 /\ ~alive' /\ ring' = <<>>
      /\ gutted' = gutted
  BY DEF CrashInAppend, Gone
<1>2. /\ stored \in Nat /\ crashes \in Nat /\ RING \in Nat /\ log \in Seq(Nat)
      /\ stored + 1 \in Observation /\ stored + 1 \in Nat /\ crashes + 1 \in Nat /\ LogType
  BY LogAssumption, SMT DEF LogInv, LogType, Observation
<1>3. RingInv'
  BY <1>1 DEF RingInv
<1>4. CASE UNCHANGED onDisk
  <2>1. UNCHANGED <<log, open>>
    BY <1>4 DEF onDisk
  <2>2. LogType'
    BY <1>1, <1>2, <2>1, SMT DEF LogType
  <2>3. Owed' = Owed /\ Loose' = Loose
    BY <2>1 DEF Owed, Loose
  <2>4. FileInv'
    <3> SUFFICES ASSUME ~gutted
                 PROVE  \E t, lost : Holds(readJsonl(log), stored + 1, t, lost,
                                           2 * (crashes + 1) - Owed, RING + Loose)
      BY <1>1, <2>1, <2>3 DEF FileInv
    <3>1. PICK t, lost : Holds(readJsonl(log), stored, t, lost, 2 * crashes - Owed, RING + Loose)
      BY DEF LogInv, FileInv
    <3>2. /\ 2 * crashes - Owed \in Int /\ (2 * crashes - Owed) + 1 \in Int
          /\ 2 * (crashes + 1) - Owed \in Int
          /\ (2 * crashes - Owed) + 1 <= 2 * (crashes + 1) - Owed
          /\ RING + Loose \in Nat /\ RING + Loose <= RING + Loose
      BY <1>2, SMT DEF Owed, Loose
    <3>3. Holds(readJsonl(log), stored + 1, t, lost \cup {stored + 1}, (2 * crashes - Owed) + 1,
                RING + Loose)
      BY <1>2, <3>1, <3>2, OneMoreLost
    <3>4. Holds(readJsonl(log), stored + 1, t, lost \cup {stored + 1},
                2 * (crashes + 1) - Owed, RING + Loose)
      BY <1>2, <3>2, <3>3, WeakerHolds
    <3> QED
      BY <3>4
  <2> QED
    BY <1>3, <2>2, <2>4 DEF LogInv
<1>5. ASSUME NEW cut \in {Garbage, stored + 1}, log' = Extended(cut), open' = TRUE
      PROVE  LogInv'
  <2>1. CASE open
    <3>1. log' = Append(Front(log), Garbage)
      BY <1>5, <2>1 DEF Extended
    <3>2. log' \in Seq(Nat) /\ Last(log') = Garbage
      BY <1>2, <2>1, <3>1, LostBehind
    <3>3. log' # <<>>
      <4>1. Front(log) \in Seq(Nat)
        BY <1>2, <2>1, SMT DEF LogType, Front
      <4> QED
        BY <3>1, <4>1, SMT DEF Garbage
    <3>4. LogType'
      BY <1>1, <1>2, <3>2, <3>3, SMT DEF LogType
    <3>5. Owed' = 1 /\ Loose' = 0
      BY <1>5, <3>2 DEF Owed, Loose
    <3>6. FileInv'
      <4> SUFFICES ASSUME ~gutted
                   PROVE  \E t, lost : Holds(readJsonl(log'), stored + 1, t, lost,
                                             2 * (crashes + 1) - 1, RING + 0)
        BY <1>1, <3>5 DEF FileInv
      <4>1. PICK t, lost : Holds(readJsonl(log'), stored + 1, t, lost, 2 * crashes, RING)
        BY <1>2, <2>1, <3>1, LostBehind DEF LogInv
      <4>2. /\ 2 * crashes \in Int /\ 2 * (crashes + 1) - 1 \in Int
            /\ 2 * crashes <= 2 * (crashes + 1) - 1 /\ RING + 0 \in Nat /\ RING + 0 <= RING
        BY <1>2, SMT
      <4>3. Holds(readJsonl(log'), stored + 1, t, lost, 2 * (crashes + 1) - 1, RING + 0)
        BY <1>2, <4>1, <4>2, WeakerHolds
      <4> QED
        BY <4>3
    <3> QED
      BY <1>3, <3>4, <3>6 DEF LogInv
  <2>2. CASE ~open
    <3>1. log' = Append(log, cut) /\ cut \in Nat
      BY <1>2, <1>5, <2>2 DEF Extended, Garbage
    <3>2. log' \in Seq(Nat) /\ log' # <<>> /\ Last(log') = cut
      BY <1>2, <3>1, SMT DEF Last
    <3>3. LogType'
      BY <1>1, <1>2, <3>2, SMT DEF LogType
    <3>4. readJsonl(log') = IF cut = Garbage THEN readJsonl(log) ELSE Append(readJsonl(log), cut)
      BY <1>2, <3>1, ReadAppend
    <3>5. FileInv'
      <4> SUFFICES ASSUME ~gutted
                   PROVE  \E t, lost : Holds(readJsonl(log'), stored + 1, t, lost,
                                             2 * (crashes + 1) - Owed', RING + Loose')
        BY <1>1 DEF FileInv
      <4>1. PICK t, lost : Holds(readJsonl(log), stored, t, lost, 2 * crashes - Owed, RING + Loose)
        BY DEF LogInv, FileInv
      <4>2. Holds(readJsonl(log), stored, t, lost, 2 * crashes, RING) /\ 2 * crashes \in Int
        <5>1. 2 * crashes - Owed = 2 * crashes /\ RING + Loose = RING /\ 2 * crashes \in Int
          BY <1>2, <2>2, SMT DEF Owed, Loose
        <5> QED
          BY <4>1, <5>1
      <4>3. CASE cut = Garbage
        <5>1. Owed' = 1 /\ Loose' = 0
          BY <1>5, <3>2, <4>3 DEF Owed, Loose
        <5>2. 2 * (crashes + 1) - 1 = 2 * crashes + 1 /\ RING + 0 = RING
          BY <1>2, SMT
        <5>3. Holds(readJsonl(log), stored + 1, t, lost \cup {stored + 1}, 2 * crashes + 1, RING)
          BY <1>2, <4>2, OneMoreLost
        <5> QED
          BY <3>4, <4>3, <5>1, <5>2, <5>3
      <4>4. CASE cut # Garbage
        <5>1. Owed' = 2 /\ Loose' = 1 /\ cut = stored + 1
          BY <1>5, <3>2, <4>4 DEF Owed, Loose
        <5>2. 2 * (crashes + 1) - 2 = 2 * crashes
          BY <1>2, SMT
        <5>3. Holds(Append(readJsonl(log), stored + 1), stored + 1, t, lost, 2 * crashes, RING + 1)
          BY <1>2, <4>2, OneMoreHeld
        <5> QED
          BY <3>4, <4>4, <5>1, <5>2, <5>3
      <4> QED
        BY <4>3, <4>4
    <3> QED
      BY <1>3, <3>3, <3>5 DEF LogInv
  <2> QED
    BY <2>1, <2>2
<1> QED
  BY <1>4, <1>5 DEF CrashInAppend

LEMMA CrashInCompactInv == LogInv /\ CrashInCompact => LogInv'
<1> SUFFICES ASSUME LogInv, CrashInCompact PROVE LogInv'
  OBVIOUS
<1>1. /\ alive /\ stored' = stored + 1 /\ gutted' = TRUE /\ ~alive' /\ ring' = <<>>
      /\ crashes' = crashes /\ (open' => log' # <<>>)
  BY DEF CrashInCompact, Gone
<1>2. PICK n \in 0 .. Len(Pushed) : log' = SubSeq(Pushed, 1, n)
  BY DEF CrashInCompact
<1>3. Pushed \in Seq(Observation)
  BY <1>1, PushedHolds
<1>4. log' \in Seq(Nat)
  BY <1>2, <1>3, SMT DEF Observation
<1>5. LogType'
  BY <1>1, <1>4, LogAssumption, SMT DEF LogInv, LogType
<1>6. FileInv' /\ RingInv'
  BY <1>1 DEF FileInv, RingInv
<1> QED
  BY <1>5, <1>6 DEF LogInv

LEMMA LogStepInv == LogInv /\ (LogNext \/ UNCHANGED logVars) => LogInv'
<1> SUFFICES ASSUME LogInv, LogNext \/ UNCHANGED logVars PROVE LogInv'
  OBVIOUS
<1>1. CASE LogNext
  BY <1>1, LogLoadInv, LogExitInv, LogStoreInv, CrashInAppendInv, CrashInCompactInv DEF LogNext
<1>2. CASE UNCHANGED logVars
  <2>1. UNCHANGED <<alive, ring, log, open, stored, crashes, gutted>>
    BY <1>2 DEF logVars, inMemory, onDisk, logHistory
  <2> QED
    BY <2>1 DEF LogInv, LogType, FileInv, RingInv, Loaded, Owed, Loose
<1> QED
  BY <1>1, <1>2

LEMMA LogInvKeepsHistory == LogInv => RestartKeepsHistory
<1> SUFFICES ASSUME LogInv, ~gutted PROVE RestartKeepsHistory
  BY DEF RestartKeepsHistory
<1> DEFINE file == Loaded(log)
<1>1. stored \in Nat /\ crashes \in Nat /\ RING \in Nat /\ log \in Seq(Nat)
  BY LogAssumption DEF LogInv, LogType
<1>2. PICK t, lost : Holds(readJsonl(log), stored, t, lost, 2 * crashes - Owed, RING + Loose)
  BY DEF LogInv, FileInv
<1>3. /\ 2 * crashes - Owed \in Int /\ 2 * crashes - Owed <= 2 * crashes /\ 2 * crashes \in Int
      /\ RING + Loose \in Nat /\ RING <= RING + Loose
  BY <1>1, SMT DEF Owed, Loose
<1>4. Holds(readJsonl(log), stored, t, lost, 2 * crashes, RING)
  BY <1>1, <1>2, <1>3, WeakerHolds
<1>5. /\ file \in Seq(Observation) /\ Len(file) <= RING
      /\ \E u : Holds(file, stored, u, lost, 2 * crashes, RING)
  BY <1>1, <1>4, NewestHolds DEF Loaded
<1> HIDE DEF file
<1>6. PICK u : Holds(file, stored, u, lost, 2 * crashes, RING)
  BY <1>5
<1>7. Cardinality({i \in 1 .. stored : i > stored - RING} \ Elements(file)) <= 2 * crashes
  BY <1>1, <1>3, <1>5, <1>6, HeldExplains
<1>8. DOMAIN file = 1 .. Len(file)
  BY <1>5
<1>9. Elements(file) = {file[i] : i \in DOMAIN file}
  BY <1>8 DEF Elements
<1>10. \A i, j \in DOMAIN file : i < j => file[i] < file[j]
  BY <1>6, <1>8 DEF Holds, Covers, Increasing
<1>11. crashes = 0 /\ alive => ring = file
  BY DEF LogInv, RingInv, file
<1> QED
  BY <1>7, <1>9, <1>10, <1>11 DEF RestartKeepsHistory, file

(***************************************************************************)
(* Whatever the size of the ring and of a file, and wherever processes die *)
(* inside an append: what a restart loads is in order, it lacks at most    *)
(* two of the newest observations per crash, and without a crash it is     *)
(* what was in memory (storage.ts:56-68, 111-126).                         *)
(***************************************************************************)
THEOREM HistorySurvives == DiskSpec => []RestartKeepsHistory
<1>1. DiskInit({"monitor", "log"}) => LogInv
  BY LogInitInv DEF DiskInit
<1>2. LogInv /\ [DiskNext]_DiskVars => LogInv'
  <2>1. [DiskNext]_DiskVars => LogNext \/ UNCHANGED logVars
    BY DEF DiskNext, DiskVars
  <2> QED
    BY <2>1, LogStepInv
<1> QED
  BY <1>1, <1>2, LogInvKeepsHistory, PTL DEF DiskSpec
=============================================================================
