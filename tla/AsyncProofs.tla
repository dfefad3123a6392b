---------------------------- MODULE AsyncProofs ----------------------------
(***************************************************************************)
(* Proofs about the two modules whose state is what has been asked for and *)
(* not yet answered.  They share nothing else.                             *)
(*                                                                         *)
(* WorkerPool, for every number of items, limit, number of retries and set *)
(* of replies: an index below next was taken, and what was taken is either *)
(* in its slot or with the one worker that took it.  A worker is done only *)
(* when next has passed N, so when all are done nothing is left to be with *)
(* a worker.                                                               *)
(*                                                                         *)
(* Dashboard, for every number of sweeps, of faults and of alerts in an    *)
(* answer: a refresh that was answered with no broadcast since the stream  *)
(* was accepted found nothing in the stream but the greeting, so from then *)
(* on the frames not yet read are exactly what takes the tab from what it  *)
(* shows to the server's snapshot and its latest alerts.  That is carried  *)
(* along frame by frame (AlertsThrough, StatusThrough), and what breaks    *)
(* the stream ends it.                                                     *)
(***************************************************************************)
EXTENDS WorkerPool, Dashboard, TLAPS
-----------------------------------------------------------------------------
(***************************************************************************)
(* The worker pool.                                                        *)
(***************************************************************************)
Unfinished(w) == state[w] # "done"

HeldInv ==
  \A w \in Workers : Unfinished(w) =>
    item[w] \in Items /\ item[w] < next /\ results[item[w]] = Hole

ApartInv ==
  \A v, w \in Workers : v # w /\ Unfinished(v) /\ Unfinished(w) => item[v] # item[w]

SlotInv ==
  \A i \in Items : results[i] \in {Hole, i} /\ (results[i] = i => i < next)

TakenInv ==
  \A i \in Items : i < next =>
    results[i] = i \/ \E w \in Workers : Unfinished(w) /\ item[w] = i

DoneInv == \A w \in Workers : state[w] = "done" => next > N

PromiseInv ==
  /\ (promise = "rejected") <=> (\E w \in Workers : state[w] = "failed")
  /\ (promise = "resolved") <=> (\A w \in Workers : state[w] = "done")

\* A worker sleeps only when it has an attempt left.
SleepInv == \A w \in Workers : state[w] = "backoff" => attempt[w] < Retries

IInv ==
  /\ TypeOK /\ HeldInv /\ ApartInv /\ SlotInv /\ TakenInv /\ DoneInv
  /\ PromiseInv /\ SleepInv
-----------------------------------------------------------------------------
\* The pool has a natural number of workers, and at least one unless the limit is NaN.
LEMMA WorkerCountType ==
  /\ WorkerCount \in Nat
  /\ Limit # NaN => WorkerCount > 0
BY PoolAssumption, SMT DEF WorkerCount

\* The workers that start hold the first items, one each.
LEMMA InitInv == Init => IInv
<1> SUFFICES ASSUME Init PROVE IInv
  OBVIOUS
<1>1. WorkerCount \in Nat /\ N \in Nat /\ Retries \in Nat
  BY WorkerCountType, PoolAssumption
<1>2. TypeOK
  BY <1>1, SMT DEF Init, TypeOK, Workers, WorkerStates, Promises, Items
<1>3. HeldInv /\ ApartInv /\ SlotInv /\ DoneInv /\ SleepInv
  BY <1>1, SMT DEF Init, HeldInv, ApartInv, SlotInv, DoneInv, SleepInv, Unfinished, Workers,
                   Items, Hole
<1>4. TakenInv
  BY <1>1, SMT DEF Init, TakenInv, Unfinished, Workers, Items
<1>5. PromiseInv
  BY <1>1, SMT DEF Init, PromiseInv, Workers
<1>6. QED
  BY <1>2, <1>3, <1>4, <1>5 DEF IInv

\* Settle keeps the promise in step with the workers, if the finished ones stay so.
LEMMA SettleKeepsPromise ==
  ASSUME PromiseInv, Settle, NEW w \in Workers, Busy(w), TypeOK, TypeOK',
         \A v \in Workers \ {w} : state'[v] = state[v]
  PROVE  PromiseInv'
BY SMT DEF PromiseInv, Settle, Busy, TypeOK, Promises, WorkerStates

\* A worker stores its result and takes the next index.
LEMMA ReturnKeepsInv ==
  ASSUME IInv, NEW w \in Workers, CallReturns(w)
  PROVE  IInv'
<1> USE DEF IInv
<1>1. N \in Nat /\ Retries \in Nat /\ next \in Nat \ {0}
  BY PoolAssumption DEF TypeOK
<1>2. /\ Unfinished(w) /\ Busy(w)
      /\ item[w] \in Items /\ item[w] < next
  BY DEF CallReturns, HeldInv, Unfinished, Busy
<1>3. TypeOK'
  BY <1>1, <1>2, SMT DEF CallReturns, TakeNext, Settle, TypeOK, WorkerStates, Promises, Items
<1>4. /\ next' = next + 1
      /\ results' = [results EXCEPT ![item[w]] = item[w]]
      /\ item' = [item EXCEPT ![w] = next]
      /\ state' = [state EXCEPT ![w] = IF next <= N THEN "calling" ELSE "done"]
  BY DEF CallReturns, TakeNext
<1>5. \A v \in Workers \ {w} : Unfinished(v)' =>
        Unfinished(v) /\ item'[v] = item[v] /\ item[v] # item[w]
  BY <1>2, <1>4, SMT DEF TypeOK, Unfinished, ApartInv
<1>6. HeldInv'
  <2> SUFFICES ASSUME NEW v \in Workers, Unfinished(v)'
               PROVE  item'[v] \in Items /\ item'[v] < next' /\ results'[item'[v]] = Hole
    BY DEF HeldInv
  <2>1. CASE v = w
    <3>1. next <= N /\ item'[v] = next /\ next # item[w]
      BY <2>1, <1>1, <1>2, <1>4, SMT DEF TypeOK, Unfinished
    <3>2. results[next] = Hole
      BY <3>1, <1>1, SMT DEF SlotInv, Items, Hole
    <3>3. QED
      BY <3>1, <3>2, <1>1, <1>2, <1>4, SMT DEF TypeOK, Items
  <2>2. CASE v # w
    BY <2>2, <1>1, <1>2, <1>4, <1>5, SMT DEF TypeOK, HeldInv, Items
  <2>3. QED
    BY <2>1, <2>2
<1>7. ApartInv'
  BY <1>1, <1>2, <1>4, <1>5, SMT DEF TypeOK, ApartInv, HeldInv, Unfinished
<1>8. SlotInv'
  <2> SUFFICES ASSUME NEW i \in Items
               PROVE  results'[i] \in {Hole, i} /\ (results'[i] = i => i < next')
    BY DEF SlotInv
  <2>1. results'[i] = IF i = item[w] THEN i ELSE results[i]
    BY <1>4 DEF TypeOK
  <2>2. results[i] \in {Hole, i} /\ (results[i] = i => i < next)
    BY DEF SlotInv
  <2>3. QED
    BY <2>1, <2>2, <1>1, <1>2, <1>4, SMT DEF Items
<1>9. TakenInv'
  <2> SUFFICES ASSUME NEW i \in Items, i < next'
               PROVE  results'[i] = i \/ \E v \in Workers : Unfinished(v)' /\ item'[v] = i
    BY DEF TakenInv
  <2>1. CASE i = next
    BY <2>1, <1>1, <1>4, SMT DEF TypeOK, Unfinished, Items
  <2>2. CASE i = item[w]
    BY <2>2, <1>2, <1>4, SMT DEF TypeOK
  <2>3. CASE i # next /\ i # item[w]
    <3>1. i < next /\ results'[i] = results[i]
      BY <2>3, <1>1, <1>4, SMT DEF TypeOK, Items
    <3>2. CASE results[i] = i
      BY <3>1, <3>2
    <3>3. CASE \E v \in Workers : Unfinished(v) /\ item[v] = i
      <4>1. PICK v \in Workers : Unfinished(v) /\ item[v] = i
        BY <3>3
      <4>2. v # w /\ item'[v] = i /\ state'[v] = state[v]
        BY <4>1, <2>3, <1>4, SMT DEF TypeOK
      <4>3. QED
        BY <4>1, <4>2 DEF Unfinished
    <3>4. QED
      BY <3>1, <3>2, <3>3 DEF TakenInv
  <2>4. QED
    BY <2>1, <2>2, <2>3
<1>10. DoneInv'
  BY <1>1, <1>4, SMT DEF TypeOK, DoneInv, Workers
<1>11. PromiseInv'
  <2>1. \A v \in Workers \ {w} : state'[v] = state[v]
    BY <1>4 DEF TypeOK
  <2>2. QED
    BY <2>1, <1>2, <1>3, SettleKeepsPromise DEF CallReturns
<1>12. SleepInv'
  BY <1>4, SMT DEF CallReturns, TakeNext, SleepInv, TypeOK
<1>13. QED
  BY <1>3, <1>6, <1>7, <1>8, <1>9, <1>10, <1>11, <1>12

\* A sleep that starts or ends changes neither what a worker holds nor what is done.
LEMMA BackoffKeepsInv ==
  ASSUME IInv, NEW w \in Workers, CallIsRetried(w) \/ BackoffEnds(w)
  PROVE  IInv'
<1> USE DEF IInv
<1>1. /\ UNCHANGED <<next, item, results, promise>>
      /\ \A v \in Workers : Unfinished(v)' <=> Unfinished(v)
      /\ \A v \in Workers : (state'[v] = "failed") <=> (state[v] = "failed")
  BY DEF CallIsRetried, BackoffEnds, TypeOK, Unfinished
<1>2. TypeOK'
  <2>1. Retries \in Nat
    BY PoolAssumption
  <2>2. CASE CallIsRetried(w)
    BY <2>1, <2>2, <1>1, SMT DEF CallIsRetried, TypeOK, WorkerStates
  <2>3. CASE BackoffEnds(w)
    <3>1. attempt[w] < Retries
      BY <2>3 DEF BackoffEnds, SleepInv
    <3>2. QED
      BY <3>1, <2>1, <2>3, <1>1, SMT DEF BackoffEnds, TypeOK, WorkerStates
  <2>4. QED
    BY <2>2, <2>3
<1>3. HeldInv' /\ ApartInv' /\ SlotInv' /\ TakenInv'
  BY <1>1 DEF HeldInv, ApartInv, SlotInv, TakenInv, Unfinished
<1>4. DoneInv' /\ PromiseInv'
  BY <1>1 DEF DoneInv, PromiseInv, Unfinished
<1>5. SleepInv'
  BY <1>1, SMT DEF SleepInv, CallIsRetried, BackoffEnds, TypeOK
<1>6. QED
  BY <1>2, <1>3, <1>4, <1>5

\* A worker that fails keeps its item; the promise is rejected with it.
LEMMA ThrowKeepsInv ==
  ASSUME IInv, NEW w \in Workers, CallThrows(w)
  PROVE  IInv'
<1> USE DEF IInv
<1>1. /\ UNCHANGED <<next, item, attempt, results>>
      /\ state' = [state EXCEPT ![w] = "failed"]
      /\ Busy(w)
  BY DEF CallThrows, Busy
<1>2. \A v \in Workers : Unfinished(v)' <=> Unfinished(v)
  BY <1>1, SMT DEF TypeOK, Unfinished, Busy
<1>3. TypeOK' /\ SleepInv'
  BY <1>1, SMT DEF CallThrows, Settle, TypeOK, WorkerStates, Promises, SleepInv
<1>4. HeldInv' /\ ApartInv' /\ SlotInv' /\ TakenInv' /\ DoneInv'
  BY <1>1, <1>2 DEF HeldInv, ApartInv, SlotInv, TakenInv, DoneInv, Unfinished
<1>5. PromiseInv'
  <2>1. \A v \in Workers \ {w} : state'[v] = state[v]
    BY <1>1 DEF TypeOK
  <2>2. QED
    BY <2>1, <1>1, <1>3, SettleKeepsPromise DEF CallThrows
<1>6. QED
  BY <1>3, <1>4, <1>5

\* The invariant is inductive.
LEMMA StepInv == IInv /\ [Next]_vars => IInv'
<1> SUFFICES ASSUME IInv, [Next]_vars PROVE IInv'
  OBVIOUS
<1>1. ASSUME NEW w \in Workers, WorkerStep(w) PROVE IInv'
  BY <1>1, ReturnKeepsInv, BackoffKeepsInv, ThrowKeepsInv DEF WorkerStep
<1>2. CASE UNCHANGED vars
  BY <1>2 DEF vars, IInv, TypeOK, HeldInv, ApartInv, SlotInv, TakenInv, DoneInv,
              PromiseInv, SleepInv, Unfinished
<1>3. QED
  BY <1>1, <1>2 DEF Next

\* The strengthening is an invariant.
LEMMA Invariance == Spec => []IInv
BY InitInv, StepInv, PTL DEF Spec
-----------------------------------------------------------------------------
(***************************************************************************)
(* The pool's variables keep their types (lib.ts:121-157).                 *)
(***************************************************************************)
THEOREM PoolTypeCorrect == Spec => []TypeOK
<1>1. IInv => TypeOK
  BY DEF IInv
<1>2. QED
  BY <1>1, Invariance, PTL

(***************************************************************************)
(* Whatever the number of items, the limit and the failures: an array that *)
(* mapWithConcurrency returns has every result in its place (lib.ts:138),  *)
(* provided the limit is a number.                                         *)
(***************************************************************************)
THEOREM ResolvedMapIsComplete ==
  ASSUME Limit # NaN
  PROVE  Spec => []ResolvedInOrder
<1>1. IInv => ResolvedInOrder
  <2> SUFFICES ASSUME IInv, promise = "resolved", NEW i \in Items PROVE results[i] = i
    BY DEF ResolvedInOrder
  <2>1. \A w \in Workers : state[w] = "done"
    BY DEF IInv, PromiseInv
  <2>2. 1 \in Workers
    BY WorkerCountType, SMT DEF Workers
  <2>3. next > N
    BY <2>1, <2>2 DEF IInv, DoneInv
  <2>4. i < next
    BY <2>3, PoolAssumption, SMT DEF Items, IInv, TypeOK
  <2>5. QED
    BY <2>1, <2>4 DEF IInv, TakenInv, Unfinished
<1>2. QED
  BY <1>1, Invariance, PTL

(***************************************************************************)
(* No item is called by two workers, or called again after its result is   *)
(* in (lib.ts:148-152).                                                    *)
(***************************************************************************)
THEOREM ItemsAreCalledApart == Spec => []OneCallerPerItem
<1>1. IInv => OneCallerPerItem
  <2> SUFFICES ASSUME IInv, NEW w \in Workers, Busy(w)
               PROVE  /\ results[item[w]] = Hole
                      /\ \A v \in Workers \ {w} : Unfinished(v) => item[v] # item[w]
    BY DEF OneCallerPerItem, Unfinished
  <2>1. Unfinished(w)
    BY DEF Busy, Unfinished
  <2>2. QED
    BY <2>1 DEF IInv, HeldInv, ApartInv
<1>2. QED
  BY <1>1, Invariance, PTL

(***************************************************************************)
(* The caller's promise is rejected exactly when a call has failed for     *)
(* good (lib.ts:155).                                                      *)
(***************************************************************************)
THEOREM FailuresReachCaller == Spec => []FailureReachesCaller
<1>1. IInv => FailureReachesCaller
  BY DEF IInv, PromiseInv, FailureReachesCaller
<1>2. QED
  BY <1>1, Invariance, PTL
-----------------------------------------------------------------------------
(***************************************************************************)
(* The dashboard's tab.                                                    *)
(***************************************************************************)
FrameSet == {"alert", "status"} \X (Nat \ {0})

IsRequest(g) ==
  g = [kind |-> g.kind, n |-> g.n, status |-> g.status, alerts |-> g.alerts, clean |-> g.clean]

ServerInv ==
  /\ log \in Nat /\ sweepNo \in Nat /\ snap \in Nat
  /\ posting => sweepNo # Null
  /\ channel \in Seq(FrameSet)
  /\ stream \in Streams

\* The first answers come before the stream; it is polled only once it is given up.
StreamInv ==
  /\ stream \notin {"accepted", "open"} => channel = <<>>
  /\ (\A g \in gets : g.kind # "load") \/ (stream = "none" /\ \E g : gets = {g})
  /\ \A g \in gets : g.kind = "poll" => stream = "polling"
  /\ caughtUp => stream = "open"

\* Nothing but the greeting was sent.
Greeted(ch, s) == ch = <<>> \/ (s # Null /\ ch = <<<<"status", s>>>>)

\* A refresh nothing was broadcast under is answered with what there is.
IsCurrent(g, s, n) ==
  g.kind = "refresh" /\ g.clean =>
    /\ g.alerts \in {Unanswered, n}
    /\ s # Null => g.status \in {Unanswered, s}

CleanInv ==
  /\ stream = "accepted" /\ quiet => Greeted(channel, snap)
  /\ \A g \in gets :
       /\ IsRequest(g)
       /\ IsCurrent(g, snap, log)
       /\ g.kind = "refresh" /\ g.clean /\ stream \in {"accepted", "open"} =>
            Greeted(channel, snap)

\* The list al holds the latest of n alerts: all, or no fewer than one answer has.
UpTo(al, n) == \E k \in 0 .. n : al = Latest(n, k) /\ (k = n \/ k >= AlertsLimit)

\* The frames ch take a tab that shows the alerts al to the latest of n, none
\* missing: after i frames they are the latest of shown[i].
Shows(ch, al, n, shown) ==
  /\ shown \in [0 .. Len(ch) -> Nat]
  /\ UpTo(al, shown[0])
  /\ shown[Len(ch)] = n
  /\ \A i \in 1 .. Len(ch) :
       IF ch[i][1] = "alert" THEN ch[i][2] = shown[i] /\ shown[i] = shown[i - 1] + 1
       ELSE shown[i] = shown[i - 1]
AlertsThrough(ch, al, n) == \E shown : Shows(ch, al, n, shown)

\* The frames ch take a tab whose status is st to the snapshot s.
StatusThrough(ch, st, s) ==
  \/ st = s /\ \A i \in 1 .. Len(ch) : ch[i][1] = "alert"
  \/ \E i \in 1 .. Len(ch) :
       ch[i] = <<"status", s>> /\ \A j \in i + 1 .. Len(ch) : ch[j][1] = "alert"

TabInv ==
  caughtUp =>
    /\ AlertsThrough(channel, alerts, log)
    /\ snap # Null => StatusThrough(channel, status, snap)

DashInv == ServerInv /\ StreamInv /\ CleanInv /\ TabInv
-----------------------------------------------------------------------------
\* With the alert that follows in front, the latest k are the latest k + 1.
LEMMA LatestGrows ==
  ASSUME NEW n \in Nat, NEW k \in 0 .. n
  PROVE  <<n + 1>> \o Latest(n, k) = Latest(n + 1, k + 1)
<1>1. Latest(n, k) \in Seq(Int) /\ Len(Latest(n, k)) = k
  BY SMT DEF Latest
<1>2. /\ <<n + 1>> \o Latest(n, k) \in Seq(Int) /\ Len(<<n + 1>> \o Latest(n, k)) = k + 1
      /\ Latest(n + 1, k + 1) \in Seq(Int) /\ Len(Latest(n + 1, k + 1)) = k + 1
  BY <1>1, SMT DEF Latest
<1>3. ASSUME NEW i \in 1 .. k + 1
      PROVE  (<<n + 1>> \o Latest(n, k))[i] = Latest(n + 1, k + 1)[i]
  <2>1. Latest(n + 1, k + 1)[i] = n + 2 - i
    BY SMT DEF Latest
  <2>2. CASE i = 1
    BY <1>1, <2>1, <2>2, SMT
  <2>3. CASE i # 1
    <3>1. (<<n + 1>> \o Latest(n, k))[i] = Latest(n, k)[i - 1]
      BY <1>1, <2>3, SMT
    <3>2. Latest(n, k)[i - 1] = n + 2 - i
      BY <2>3, SMT DEF Latest
    <3> QED
      BY <2>1, <3>1, <3>2
  <2> QED
    BY <2>2, <2>3
<1> QED
  BY <1>2, <1>3, SMT

LEMMA NewestUpTo ==
  ASSUME NEW n \in Nat PROVE UpTo(Newest(n), n)
<1>1. CASE n < AlertsLimit
  BY <1>1, SMT DEF Newest, UpTo
<1>2. CASE ~(n < AlertsLimit)
  <2>1. AlertsLimit \in 0 .. n /\ AlertsLimit >= AlertsLimit
    BY <1>2, DashboardAssumption, SMT
  <2> QED
    BY <1>2, <2>1 DEF Newest, UpTo
<1> QED
  BY <1>1, <1>2

LEMMA UpToGrows ==
  ASSUME NEW al, NEW n \in Nat, UpTo(al, n)
  PROVE  UpTo(<<n + 1>> \o al, n + 1)
<1>1. PICK k \in 0 .. n : al = Latest(n, k) /\ (k = n \/ k >= AlertsLimit)
  BY DEF UpTo
<1>2. k + 1 \in 0 .. n + 1 /\ (k + 1 = n + 1 \/ k + 1 >= AlertsLimit)
  BY <1>1, DashboardAssumption, SMT
<1>3. <<n + 1>> \o al = Latest(n + 1, k + 1)
  BY <1>1, LatestGrows
<1> QED
  BY <1>2, <1>3 DEF UpTo

LEMMA AlertSent ==
  ASSUME NEW ch \in Seq(FrameSet), NEW al, NEW n \in Nat, AlertsThrough(ch, al, n)
  PROVE  AlertsThrough(Append(ch, <<"alert", n + 1>>), al, n + 1)
<1>1. PICK shown : Shows(ch, al, n, shown)
  BY DEF AlertsThrough
<1> DEFINE longer == Append(ch, <<"alert", n + 1>>)
           more == [i \in 0 .. Len(longer) |-> IF i = Len(longer) THEN n + 1 ELSE shown[i]]
<1>2. longer \in Seq(FrameSet) /\ Len(longer) = Len(ch) + 1 /\ Len(ch) \in Nat
  BY SMT DEF FrameSet
<1>3. longer[Len(ch) + 1] = <<"alert", n + 1>> /\ \A i \in 1 .. Len(ch) : longer[i] = ch[i]
  BY SMT
<1> HIDE DEF longer
<1>4. more \in [0 .. Len(longer) -> Nat]
  BY <1>1, <1>2, SMT DEF Shows
<1>5. more[0] = shown[0] /\ more[Len(longer)] = n + 1
  BY <1>2, SMT
<1>6. ASSUME NEW i \in 1 .. Len(longer)
      PROVE  IF longer[i][1] = "alert" THEN longer[i][2] = more[i] /\ more[i] = more[i - 1] + 1
             ELSE more[i] = more[i - 1]
  <2>1. CASE i = Len(longer)
    <3>1. more[i] = n + 1 /\ more[i - 1] = shown[Len(ch)]
      BY <1>2, <2>1, SMT
    <3>2. shown[Len(ch)] = n
      BY <1>1 DEF Shows
    <3> QED
      BY <1>2, <1>3, <2>1, <3>1, <3>2, SMT
  <2>2. CASE i # Len(longer)
    <3>1. i \in 1 .. Len(ch)
      BY <1>2, <2>2, SMT
    <3>2. more[i] = shown[i] /\ more[i - 1] = shown[i - 1] /\ longer[i] = ch[i]
      BY <1>2, <1>3, <3>1, SMT
    <3> HIDE DEF more
    <3> QED
      BY <1>1, <3>1, <3>2, SMT DEF Shows
  <2> QED
    BY <2>1, <2>2
<1>7. UpTo(al, more[0])
  BY <1>1, <1>5 DEF Shows
<1> HIDE DEF more
<1>8. Shows(longer, al, n + 1, more)
  BY <1>4, <1>5, <1>6, <1>7 DEF Shows
<1> QED
  BY <1>8 DEF AlertsThrough, longer

LEMMA StatusSent ==
  ASSUME NEW ch \in Seq(FrameSet), NEW al, NEW n \in Nat, NEW s \in Nat \ {0},
         AlertsThrough(ch, al, n)
  PROVE  AlertsThrough(Append(ch, <<"status", s>>), al, n)
<1>1. PICK shown : Shows(ch, al, n, shown)
  BY DEF AlertsThrough
<1> DEFINE longer == Append(ch, <<"status", s>>)
           more == [i \in 0 .. Len(longer) |-> IF i = Len(longer) THEN n ELSE shown[i]]
<1>2. longer \in Seq(FrameSet) /\ Len(longer) = Len(ch) + 1 /\ Len(ch) \in Nat
  BY SMT DEF FrameSet
<1>3. longer[Len(ch) + 1] = <<"status", s>> /\ \A i \in 1 .. Len(ch) : longer[i] = ch[i]
  BY SMT
<1> HIDE DEF longer
<1>4. more \in [0 .. Len(longer) -> Nat]
  BY <1>1, <1>2, SMT DEF Shows
<1>5. more[0] = shown[0] /\ more[Len(longer)] = n
  BY <1>2, SMT
<1>6. ASSUME NEW i \in 1 .. Len(longer)
      PROVE  IF longer[i][1] = "alert" THEN longer[i][2] = more[i] /\ more[i] = more[i - 1] + 1
             ELSE more[i] = more[i - 1]
  <2>1. CASE i = Len(longer)
    <3>1. more[i] = n /\ more[i - 1] = shown[Len(ch)]
      BY <1>2, <2>1, SMT
    <3>2. shown[Len(ch)] = n
      BY <1>1 DEF Shows
    <3> QED
      BY <1>2, <1>3, <2>1, <3>1, <3>2, SMT
  <2>2. CASE i # Len(longer)
    <3>1. i \in 1 .. Len(ch)
      BY <1>2, <2>2, SMT
    <3>2. more[i] = shown[i] /\ more[i - 1] = shown[i - 1] /\ longer[i] = ch[i]
      BY <1>2, <1>3, <3>1, SMT
    <3> HIDE DEF more
    <3> QED
      BY <1>1, <3>1, <3>2, SMT DEF Shows
  <2> QED
    BY <2>1, <2>2
<1>7. UpTo(al, more[0])
  BY <1>1, <1>5 DEF Shows
<1> HIDE DEF more
<1>8. Shows(longer, al, n, more)
  BY <1>4, <1>5, <1>6, <1>7 DEF Shows
<1> QED
  BY <1>8 DEF AlertsThrough, longer

\* What is behind the first frame takes the tab that has read it where the whole took it.
LEMMA FrameRead ==
  ASSUME NEW ch \in Seq(FrameSet), ch # <<>>, NEW al, NEW n \in Nat, AlertsThrough(ch, al, n)
  PROVE  AlertsThrough(Tail(ch),
                       IF Head(ch)[1] = "alert" THEN <<Head(ch)[2]>> \o al ELSE al, n)
<1>1. PICK shown : Shows(ch, al, n, shown)
  BY DEF AlertsThrough
<1> DEFINE rest == Tail(ch)
           less == [i \in 0 .. Len(rest) |-> shown[i + 1]]
           read == IF Head(ch)[1] = "alert" THEN <<Head(ch)[2]>> \o al ELSE al
<1>2. rest \in Seq(FrameSet) /\ Len(ch) = Len(rest) + 1 /\ Len(rest) \in Nat
  BY SMT DEF FrameSet
<1>3. Head(ch) = ch[1] /\ \A i \in 1 .. Len(rest) : rest[i] = ch[i + 1]
  BY SMT
<1> HIDE DEF rest
<1>4. less \in [0 .. Len(rest) -> Nat]
  BY <1>1, <1>2, SMT DEF Shows
<1>5. less[0] = shown[1] /\ less[Len(rest)] = n
  BY <1>1, <1>2, SMT DEF Shows
<1>6. ASSUME NEW i \in 1 .. Len(rest)
      PROVE  IF rest[i][1] = "alert" THEN rest[i][2] = less[i] /\ less[i] = less[i - 1] + 1
             ELSE less[i] = less[i - 1]
  <2>1. i + 1 \in 1 .. Len(ch) /\ (i + 1) - 1 = i
    BY <1>2, SMT
  <2>2. less[i] = shown[i + 1] /\ less[i - 1] = shown[i] /\ rest[i] = ch[i + 1]
    BY <1>2, <1>3, SMT
  <2>3. IF ch[i + 1][1] = "alert"
        THEN ch[i + 1][2] = shown[i + 1] /\ shown[i + 1] = shown[(i + 1) - 1] + 1
        ELSE shown[i + 1] = shown[(i + 1) - 1]
    BY <1>1, <2>1 DEF Shows
  <2> HIDE DEF less
  <2> QED
    BY <2>1, <2>2, <2>3
<1>7. UpTo(read, less[0])
  <2>1. 1 \in 1 .. Len(ch) /\ 1 - 1 = 0 /\ shown[0] \in Nat
    BY <1>1, <1>2, SMT DEF Shows
  <2>2. /\ UpTo(al, shown[0])
        /\ IF ch[1][1] = "alert" THEN ch[1][2] = shown[1] /\ shown[1] = shown[0] + 1
           ELSE shown[1] = shown[0]
    BY <1>1, <2>1 DEF Shows
  <2> QED
    BY <1>3, <1>5, <2>1, <2>2, UpToGrows
<1> HIDE DEF less, read
<1>8. Shows(rest, read, n, less)
  BY <1>4, <1>5, <1>6, <1>7 DEF Shows
<1> QED
  BY <1>8 DEF AlertsThrough, rest, read

LEMMA StatusAfterAlert ==
  ASSUME NEW ch \in Seq(FrameSet), NEW st, NEW s, NEW n \in Nat \ {0}, StatusThrough(ch, st, s)
  PROVE  StatusThrough(Append(ch, <<"alert", n>>), st, s)
<1> DEFINE longer == Append(ch, <<"alert", n>>)
<1>1. Len(longer) = Len(ch) + 1 /\ Len(ch) \in Nat
  BY SMT
<1>2. longer[Len(ch) + 1] = <<"alert", n>> /\ \A i \in 1 .. Len(ch) : longer[i] = ch[i]
  BY SMT
<1> HIDE DEF longer
<1>3. CASE st = s /\ \A i \in 1 .. Len(ch) : ch[i][1] = "alert"
  <2>1. \A i \in 1 .. Len(longer) : longer[i][1] = "alert"
    BY <1>1, <1>2, <1>3, SMT
  <2> QED
    BY <1>3, <2>1 DEF StatusThrough, longer
<1>4. ASSUME NEW i \in 1 .. Len(ch), ch[i] = <<"status", s>>,
             \A j \in i + 1 .. Len(ch) : ch[j][1] = "alert"
      PROVE  StatusThrough(longer, st, s)
  <2>1. i \in 1 .. Len(longer) /\ longer[i] = <<"status", s>>
    BY <1>1, <1>2, <1>4, SMT
  <2>2. \A j \in i + 1 .. Len(longer) : longer[j][1] = "alert"
    BY <1>1, <1>2, <1>4, SMT
  <2> QED
    BY <2>1, <2>2 DEF StatusThrough
<1> QED
  BY <1>3, <1>4 DEF StatusThrough, longer

LEMMA StatusAfterStatus ==
  ASSUME NEW ch \in Seq(FrameSet), NEW st, NEW s
  PROVE  StatusThrough(Append(ch, <<"status", s>>), st, s)
<1> DEFINE longer == Append(ch, <<"status", s>>)
<1>1. Len(longer) = Len(ch) + 1 /\ Len(ch) \in Nat /\ longer[Len(ch) + 1] = <<"status", s>>
  BY SMT
<1> HIDE DEF longer
<1>2. Len(longer) \in 1 .. Len(longer) /\ longer[Len(longer)] = <<"status", s>>
      /\ \A j \in Len(longer) + 1 .. Len(longer) : longer[j][1] = "alert"
  BY <1>1, SMT
<1> QED
  BY <1>2 DEF StatusThrough, longer

LEMMA StatusRead ==
  ASSUME NEW ch \in Seq(FrameSet), ch # <<>>, NEW st, NEW s, StatusThrough(ch, st, s)
  PROVE  StatusThrough(Tail(ch), IF Head(ch)[1] = "alert" THEN st ELSE Head(ch)[2], s)
<1> DEFINE rest == Tail(ch)
           read == IF Head(ch)[1] = "alert" THEN st ELSE Head(ch)[2]
<1>1. Len(ch) = Len(rest) + 1 /\ Len(rest) \in Nat
  BY SMT DEF FrameSet
<1>2. Head(ch) = ch[1] /\ \A i \in 1 .. Len(rest) : rest[i] = ch[i + 1]
  BY SMT
<1> HIDE DEF rest
<1>3. CASE st = s /\ \A i \in 1 .. Len(ch) : ch[i][1] = "alert"
  <2>1. \A i \in 1 .. Len(rest) : rest[i][1] = "alert"
    BY <1>1, <1>2, <1>3, SMT
  <2>2. read = s
    BY <1>1, <1>2, <1>3, SMT
  <2> QED
    BY <2>1, <2>2 DEF StatusThrough, rest
<1>4. ASSUME NEW i \in 1 .. Len(ch), ch[i] = <<"status", s>>,
             \A j \in i + 1 .. Len(ch) : ch[j][1] = "alert"
      PROVE  StatusThrough(rest, read, s)
  <2>1. CASE i = 1
    <3>1. \A j \in 1 .. Len(rest) : rest[j][1] = "alert"
      BY <1>1, <1>2, <1>4, <2>1, SMT
    <3>2. read = s
      BY <1>2, <1>4, <2>1
    <3> QED
      BY <3>1, <3>2 DEF StatusThrough
  <2>2. CASE i # 1
    <3>1. i - 1 \in 1 .. Len(rest) /\ rest[i - 1] = <<"status", s>>
      BY <1>1, <1>2, <1>4, <2>2, SMT
    <3>2. \A j \in (i - 1) + 1 .. Len(rest) : rest[j][1] = "alert"
      BY <1>1, <1>2, <1>4, SMT
    <3> HIDE DEF read
    <3> QED
      BY <3>1, <3>2 DEF StatusThrough
  <2> QED
    BY <2>1, <2>2
<1> QED
  BY <1>3, <1>4 DEF StatusThrough, rest

\* A frame that comes is taken over, and what is told of the rest stays true.
LEMMA GreetingShows ==
  ASSUME NEW ch, NEW s \in Nat, NEW n \in Nat, Greeted(ch, s)
  PROVE  AlertsThrough(ch, Newest(n), n) /\ StatusThrough(ch, s, s)
<1> DEFINE all == [i \in 0 .. Len(ch) |-> n]
<1>1. Len(ch) \in Nat /\ \A i \in 1 .. Len(ch) : i = 1 /\ Len(ch) = 1 /\ ch[i] = <<"status", s>>
  BY SMT DEF Greeted
<1>2. all \in [0 .. Len(ch) -> Nat] /\ all[0] = n /\ all[Len(ch)] = n
      /\ \A i \in 1 .. Len(ch) : all[i] = n /\ all[i - 1] = n
  BY <1>1, SMT
<1>3. \A i \in 1 .. Len(ch) : ch[i][1] = "status" /\ ch[i][1] # "alert"
  BY <1>1, SMT
<1> HIDE DEF all
<1>4. Shows(ch, Newest(n), n, all)
  BY <1>2, <1>3, NewestUpTo DEF Shows
<1>5. CASE ch = <<>>
  BY <1>4, <1>5, SMT DEF AlertsThrough, StatusThrough
<1>6. CASE ch = <<<<"status", s>>>>
  <2>1. Len(ch) = 1 /\ ch[1] = <<"status", s>>
    BY <1>6, SMT
  <2>2. 1 \in 1 .. Len(ch) /\ \A j \in 1 + 1 .. Len(ch) : ch[j][1] = "alert"
    BY <2>1, SMT
  <2> QED
    BY <1>4, <2>1, <2>2 DEF AlertsThrough, StatusThrough
<1> QED
  BY <1>5, <1>6 DEF Greeted
-----------------------------------------------------------------------------
LEMMA DashInitInv == DashInit => DashInv
<1> SUFFICES ASSUME DashInit PROVE DashInv
  OBVIOUS
<1>1. ServerInv
  BY SMT DEF DashInit, ServerInv, Null, Streams
<1>2. StreamInv
  <2>1. \A g \in gets : g.kind = "load"
    BY DEF DashInit, Request
  <2> QED
    BY <2>1, SMT DEF DashInit, StreamInv
<1>3. CleanInv
  <2>1. \A g \in gets : IsRequest(g) /\ g.kind = "load"
    BY DEF DashInit, Request, IsRequest
  <2> QED
    BY <2>1 DEF DashInit, CleanInv, IsCurrent
<1>4. TabInv
  BY DEF DashInit, TabInv
<1> QED
  BY <1>1, <1>2, <1>3, <1>4 DEF DashInv

\* What a broadcast leaves of the requests, and of what a caught-up tab will read.
LEMMA BroadcastKeepsStream ==
  ASSUME DashInv, NEW event \in {"alert", "status"}, NEW data \in Nat \ {0},
         broadcast(event, data), UNCHANGED <<stream, caughtUp>>
  PROVE  /\ channel' \in Seq(FrameSet)
         /\ StreamInv'
         /\ stream' = "accepted" => ~quiet'
         /\ \A g \in gets' : IsRequest(g) /\ ~g.clean
<1>1. \A g \in gets : IsRequest(g)
  BY DEF DashInv, CleanInv
<1>2. <<event, data>> \in FrameSet
  BY DEF FrameSet
<1>3. channel' \in Seq(FrameSet)
  BY <1>2, SMT DEF DashInv, ServerInv, broadcast
<1>4. ASSUME NEW g \in gets, NEW h, h = [g EXCEPT !.clean = FALSE]
      PROVE  IsRequest(h) /\ h.kind = g.kind /\ ~h.clean
  <2>1. g = [kind |-> g.kind, n |-> g.n, status |-> g.status, alerts |-> g.alerts,
             clean |-> g.clean]
    BY <1>1 DEF IsRequest
  <2>2. \A c : [[kind |-> g.kind, n |-> g.n, status |-> g.status, alerts |-> g.alerts,
             clean |-> g.clean] EXCEPT !.clean = c]
           = [kind |-> g.kind, n |-> g.n, status |-> g.status, alerts |-> g.alerts, clean |-> c]
    BY SMT
  <2>3. h = [kind |-> g.kind, n |-> g.n, status |-> g.status, alerts |-> g.alerts,
             clean |-> FALSE]
    BY <1>4, <2>1, <2>2, Zenon
  <2>4. h.kind = g.kind /\ h.clean = FALSE
    BY <2>3
  <2>5. h.n = g.n /\ h.status = g.status /\ h.alerts = g.alerts
    BY <2>3
  <2> QED
    BY <2>3, <2>4, <2>5 DEF IsRequest
<1>5. gets' = {[g EXCEPT !.clean = FALSE] : g \in gets}
  BY DEF broadcast
<1>6. \A h \in gets' : IsRequest(h) /\ ~h.clean
  BY <1>4, <1>5
<1>7. StreamInv'
  <2>1. stream' \notin {"accepted", "open"} => channel' = <<>>
    BY DEF DashInv, StreamInv, broadcast
  <2>2. ASSUME NEW g, gets = {g}, stream = "none"
        PROVE  stream' = "none" /\ \E h : gets' = {h}
    BY <1>5, <2>2
  <2>3. (\A g \in gets : g.kind # "load") => \A h \in gets' : h.kind # "load"
    BY <1>4, <1>5
  <2>4. (\A g \in gets' : g.kind # "load") \/ (stream' = "none" /\ \E g : gets' = {g})
    BY <2>2, <2>3 DEF DashInv, StreamInv
  <2>5. \A h \in gets' : h.kind = "poll" => stream' = "polling"
    BY <1>4, <1>5 DEF DashInv, StreamInv
  <2>6. caughtUp' => stream' = "open"
    BY DEF DashInv, StreamInv
  <2> QED
    BY <2>1, <2>4, <2>5, <2>6 DEF StreamInv
<1>8. stream' = "accepted" => ~quiet'
  BY DEF broadcast
<1> QED
  BY <1>3, <1>6, <1>7, <1>8

LEMMA SweepAlertsInv == DashInv /\ SweepAlerts => DashInv'
<1> SUFFICES ASSUME DashInv, SweepAlerts PROVE DashInv'
  OBVIOUS
<1>1. log \in Nat /\ log' = log + 1 /\ log' \in Nat \ {0}
  BY SMT DEF DashInv, ServerInv, SweepAlerts
<1>2. broadcast("alert", log') /\ UNCHANGED <<stream, caughtUp, status, alerts, snap>>
  BY DEF SweepAlerts, tab
<1>3. /\ channel' \in Seq(FrameSet) /\ StreamInv' /\ (stream' = "accepted" => ~quiet')
      /\ \A g \in gets' : IsRequest(g) /\ ~g.clean
  BY <1>1, <1>2, BroadcastKeepsStream
<1>4. ServerInv'
  BY <1>1, <1>2, <1>3, SMT DEF DashInv, ServerInv, SweepAlerts, BeginSweep, Null
<1>5. CleanInv'
  BY <1>3 DEF CleanInv, IsCurrent
<1>6. ASSUME caughtUp'
      PROVE  AlertsThrough(channel', alerts', log')
             /\ (snap' # Null => StatusThrough(channel', status', snap'))
  <2>1. caughtUp /\ stream = "open"
    BY <1>2, <1>6 DEF DashInv, StreamInv
  <2>2. channel' = Append(channel, <<"alert", log + 1>>)
    BY <1>1, <1>2, <2>1 DEF broadcast
  <2>3. channel \in Seq(FrameSet) /\ AlertsThrough(channel, alerts, log)
        /\ (snap # Null => StatusThrough(channel, status, snap))
    BY <2>1 DEF DashInv, ServerInv, TabInv
  <2>4. AlertsThrough(channel', alerts', log')
    BY <1>1, <1>2, <2>2, <2>3, AlertSent
  <2>5. snap' # Null => StatusThrough(channel', status', snap')
    BY <1>1, <1>2, <2>2, <2>3, StatusAfterAlert
  <2> QED
    BY <2>4, <2>5
<1>7. TabInv'
  BY <1>6 DEF TabInv
<1> QED
  BY <1>3, <1>4, <1>5, <1>7 DEF DashInv

LEMMA SweepPublishesInv == DashInv /\ SweepPublishes => DashInv'
<1> SUFFICES ASSUME DashInv, SweepPublishes PROVE DashInv'
  OBVIOUS
<1>1. sweepNo' \in Nat \ {0} /\ snap' = sweepNo'
  BY SMT DEF DashInv, ServerInv, SweepPublishes, BeginSweep, Null
<1>2. broadcast("status", snap') /\ UNCHANGED <<stream, caughtUp, status, alerts, log>>
  BY DEF SweepPublishes, tab
<1>3. /\ channel' \in Seq(FrameSet) /\ StreamInv' /\ (stream' = "accepted" => ~quiet')
      /\ \A g \in gets' : IsRequest(g) /\ ~g.clean
  BY <1>1, <1>2, BroadcastKeepsStream
<1>4. ServerInv'
  BY <1>1, <1>2, <1>3, SMT DEF DashInv, ServerInv, SweepPublishes, Null
<1>5. CleanInv'
  BY <1>3 DEF CleanInv, IsCurrent
<1>6. ASSUME caughtUp'
      PROVE  AlertsThrough(channel', alerts', log')
             /\ (snap' # Null => StatusThrough(channel', status', snap'))
  <2>1. caughtUp /\ stream = "open"
    BY <1>2, <1>6 DEF DashInv, StreamInv
  <2>2. channel' = Append(channel, <<"status", snap'>>)
    BY <1>2, <2>1 DEF broadcast
  <2>3. channel \in Seq(FrameSet) /\ AlertsThrough(channel, alerts, log) /\ log \in Nat
    BY <2>1 DEF DashInv, ServerInv, TabInv
  <2>4. AlertsThrough(channel', alerts', log')
    BY <1>1, <1>2, <2>2, <2>3, StatusSent
  <2>5. StatusThrough(channel', status', snap')
    BY <2>2, <2>3, StatusAfterStatus
  <2> QED
    BY <2>4, <2>5
<1>7. TabInv'
  BY <1>6 DEF TabInv
<1> QED
  BY <1>3, <1>4, <1>5, <1>7 DEF DashInv

\* Whatever breaks the stream leaves nothing to be read and nothing to be kept.
LEMMA BrokenStream ==
  ASSUME DashInv, onerror, stream # "none", UNCHANGED <<log>>, gets' \subseteq gets,
         sweepNo' = sweepNo, snap' \in {Null, snap}, posting' => posting,
         snap' = snap \/ snap' = Null, \A g \in gets : g.kind # "poll"
  PROVE  DashInv'
<1>1. channel' = <<>> /\ ~caughtUp' /\ stream' \in {"polling", "connecting"}
  BY DEF onerror
<1>2. ServerInv'
  BY <1>1, SMT DEF DashInv, ServerInv, Null, Streams
<1>3. StreamInv'
  BY <1>1 DEF DashInv, StreamInv
<1>4. CleanInv'
  BY <1>1 DEF DashInv, CleanInv, IsCurrent
<1>5. TabInv'
  BY <1>1 DEF TabInv
<1> QED
  BY <1>2, <1>3, <1>4, <1>5 DEF DashInv

LEMMA StreamBreaksInv == DashInv /\ StreamBreaks => DashInv'
<1> SUFFICES ASSUME DashInv, StreamBreaks PROVE DashInv'
  OBVIOUS
<1>1. onerror /\ stream \in {"connecting", "accepted", "open"}
  BY DEF StreamBreaks
<1>2. UNCHANGED <<log, gets, sweepNo, snap, posting>>
  BY DEF StreamBreaks, server
<1>3. \A g \in gets : g.kind # "poll"
  BY <1>1 DEF DashInv, StreamInv
<1> QED
  BY <1>1, <1>2, <1>3, BrokenStream

LEMMA RestartInv == DashInv /\ Restart => DashInv'
<1> SUFFICES ASSUME DashInv, Restart PROVE DashInv'
  OBVIOUS
<1>1. /\ UNCHANGED <<log, sweepNo, status, alerts>> /\ gets' \subseteq gets
      /\ snap' = Null /\ ~posting'
  BY DEF Restart, tab
<1>2. CASE stream \in {"accepted", "open"}
  <2>1. onerror
    BY <1>2 DEF Restart
  <2>2. \A g \in gets : g.kind # "poll"
    BY <1>2 DEF DashInv, StreamInv
  <2> QED
    BY <1>1, <1>2, <2>1, <2>2, BrokenStream
<1>3. CASE stream \notin {"accepted", "open"}
  <2>1. UNCHANGED <<channel, stream, quiet, caughtUp>> /\ ~caughtUp
    BY <1>3 DEF Restart, DashInv, StreamInv
  <2>2. ServerInv'
    BY <1>1, <2>1, SMT DEF DashInv, ServerInv, Null
  <2>3. StreamInv'
    <3>1. (\A g \in gets' : g.kind # "load") \/ (stream' = "none" /\ \E g : gets' = {g})
      BY <1>1, <2>1 DEF DashInv, StreamInv
    <3> QED
      BY <1>1, <2>1, <3>1 DEF DashInv, StreamInv
  <2>4. CleanInv'
    BY <1>1, <1>3, <2>1 DEF DashInv, CleanInv, IsCurrent
  <2>5. TabInv'
    BY <2>1 DEF TabInv
  <2> QED
    BY <2>2, <2>3, <2>4, <2>5 DEF DashInv
<1> QED
  BY <1>2, <1>3

\* A request that is answered, in part or in full, from what the server has.
LEMMA AnswerKeeps ==
  ASSUME DashInv, NEW g \in gets, NEW h, IsRequest(h), h.kind = g.kind,
         g.kind = "refresh" /\ h.clean => g.clean, IsCurrent(h, snap, log),
         gets' = (gets \ {g}) \cup {h},
         UNCHANGED <<server, channel, tab, stream, failures, faults, quiet, caughtUp>>
  PROVE  DashInv'
<1>1. UNCHANGED <<sweepNo, posting, snap, log, channel, status, alerts, stream, quiet, caughtUp>>
  BY DEF server, tab
<1>2. ServerInv'
  BY <1>1 DEF DashInv, ServerInv
<1>3. StreamInv'
  <2>1. CASE \A f \in gets : f.kind # "load"
    BY <1>1, <2>1 DEF DashInv, StreamInv
  <2>2. ASSUME stream = "none", NEW f, gets = {f}
        PROVE  StreamInv'
    <3>1. gets' = {h}
      BY <2>2
    <3> QED
      BY <1>1, <2>2, <3>1 DEF DashInv, StreamInv
  <2> QED
    BY <2>1, <2>2 DEF DashInv, StreamInv
<1>4. CleanInv'
  BY <1>1 DEF DashInv, CleanInv
<1>5. TabInv'
  BY <1>1 DEF DashInv, TabInv
<1> QED
  BY <1>2, <1>3, <1>4, <1>5 DEF DashInv

LEMMA AnswersInv == DashInv /\ Answers => DashInv'
<1> SUFFICES ASSUME DashInv, NEW g \in gets, AnswerStatus(g) \/ AnswerAlerts(g) PROVE DashInv'
  BY DEF Answers
<1>1. IsRequest(g) /\ IsCurrent(g, snap, log)
  BY DEF DashInv, CleanInv
<1>2. CASE AnswerStatus(g)
  <2> DEFINE h == [g EXCEPT !.status = snap]
  <2>1. IsRequest(h) /\ h.kind = g.kind /\ h.clean = g.clean /\ h.status = snap
        /\ h.alerts = g.alerts
    BY <1>1, SMT DEF IsRequest
  <2>2. gets' = (gets \ {g}) \cup {h}
    BY <1>2 DEF AnswerStatus
  <2> HIDE DEF h
  <2>3. IsCurrent(h, snap, log)
    BY <1>1, <2>1 DEF IsCurrent
  <2> QED
    BY <1>2, <2>1, <2>2, <2>3, AnswerKeeps DEF AnswerStatus
<1>3. CASE AnswerAlerts(g)
  <2> DEFINE h == [g EXCEPT !.alerts = log]
  <2>1. IsRequest(h) /\ h.kind = g.kind /\ h.clean = g.clean /\ h.alerts = log
        /\ h.status = g.status
    BY <1>1, SMT DEF IsRequest
  <2>2. gets' = (gets \ {g}) \cup {h}
    BY <1>3 DEF AnswerAlerts
  <2> HIDE DEF h
  <2>3. IsCurrent(h, snap, log)
    BY <1>1, <2>1 DEF IsCurrent
  <2> QED
    BY <1>3, <2>1, <2>2, <2>3, AnswerKeeps DEF AnswerAlerts
<1> QED
  BY <1>2, <1>3

LEMMA AcceptInv == DashInv /\ Accept => DashInv'
<1> SUFFICES ASSUME DashInv, Accept PROVE DashInv'
  OBVIOUS
<1>1. /\ stream = "connecting" /\ stream' = "accepted" /\ ~caughtUp'
      /\ UNCHANGED <<sweepNo, posting, snap, log, gets>>
  BY DEF Accept, server, DashInv, StreamInv
<1>2. channel' = IF snap = Null THEN <<>> ELSE <<<<"status", snap>>>>
  BY DEF Accept
<1>3. Greeted(channel', snap') /\ channel' \in Seq(FrameSet)
  <2>1. snap \in Nat
    BY DEF DashInv, ServerInv
  <2>2. CASE snap = Null
    BY <1>1, <1>2, <2>2, SMT DEF Greeted
  <2>3. CASE snap # Null
    <3>1. <<"status", snap>> \in FrameSet
      BY <2>1, <2>3, SMT DEF FrameSet, Null
    <3> QED
      BY <1>1, <1>2, <2>3, <3>1, SMT DEF Greeted
  <2> QED
    BY <2>2, <2>3
<1>4. ServerInv'
  BY <1>1, <1>3 DEF DashInv, ServerInv, Streams
<1>5. StreamInv'
  BY <1>1 DEF DashInv, StreamInv
<1>6. CleanInv'
  BY <1>1, <1>3 DEF DashInv, CleanInv
<1>7. TabInv'
  BY <1>1 DEF TabInv
<1> QED
  BY <1>4, <1>5, <1>6, <1>7 DEF DashInv

\* The refresh is clean if all that was sent since the accept is the greeting.
LEMMA OpenInv == DashInv /\ Open => DashInv'
<1> SUFFICES ASSUME DashInv, Open PROVE DashInv'
  OBVIOUS
<1> DEFINE n == Unused
           h == [Request("refresh", n) EXCEPT !.clean = quiet]
<1>1. /\ stream = "accepted" /\ stream' = "open" /\ ~caughtUp'
      /\ UNCHANGED <<sweepNo, posting, snap, log, channel>>
  BY DEF Open, server, DashInv, StreamInv
<1>2. gets' = gets \cup {h}
  BY DEF Open
<1> HIDE DEF n
<1>3. h = [kind |-> "refresh", n |-> n, status |-> Unanswered, alerts |-> Unanswered,
           clean |-> quiet]
  <2>1. Request("refresh", n) = [kind |-> "refresh", n |-> n, status |-> Unanswered,
                                 alerts |-> Unanswered, clean |-> TRUE]
    BY DEF Request
  <2>2. \A c : [[kind |-> "refresh", n |-> n, status |-> Unanswered, alerts |-> Unanswered,
                 clean |-> TRUE] EXCEPT !.clean = c]
               = [kind |-> "refresh", n |-> n, status |-> Unanswered, alerts |-> Unanswered,
                  clean |-> c]
    BY SMT
  <2> QED
    BY <2>1, <2>2, Zenon
<1> HIDE DEF h
<1>4. h.kind = "refresh" /\ h.status = Unanswered /\ h.alerts = Unanswered /\ h.clean = quiet
      /\ h.n = n
  BY <1>3
<1>5. IsRequest(h) /\ IsCurrent(h, snap, log)
  BY <1>3, <1>4 DEF IsRequest, IsCurrent
<1>6. ServerInv'
  BY <1>1 DEF DashInv, ServerInv, Streams
<1>7. StreamInv'
  BY <1>1, <1>2, <1>4 DEF DashInv, StreamInv
<1>8. CleanInv'
  <2>1. \A g \in gets : IsRequest(g) /\ IsCurrent(g, snap', log')
                        /\ (g.kind = "refresh" /\ g.clean => Greeted(channel', snap'))
    BY <1>1 DEF DashInv, CleanInv
  <2>2. h.clean => Greeted(channel', snap')
    BY <1>1, <1>4 DEF DashInv, CleanInv
  <2> QED
    BY <1>1, <1>2, <1>5, <2>1, <2>2 DEF CleanInv
<1>9. TabInv'
  BY <1>1 DEF TabInv
<1> QED
  BY <1>6, <1>7, <1>8, <1>9 DEF DashInv

\* A request that is over leaves the rest as they are.
LEMMA GetLeaves ==
  ASSUME DashInv, NEW g \in gets, gets' = gets \ {g},
         UNCHANGED <<sweepNo, posting, snap, log, channel, stream, quiet>>,
         caughtUp' => stream = "open", TabInv'
  PROVE  DashInv'
<1>1. ServerInv'
  BY DEF DashInv, ServerInv
<1>2. StreamInv'
  <2>1. CASE \A f \in gets : f.kind # "load"
    BY <2>1 DEF DashInv, StreamInv
  <2>2. ASSUME NEW f, gets = {f}
        PROVE  StreamInv'
    <3>1. gets' = {}
      BY <2>2
    <3> QED
      BY <3>1 DEF DashInv, StreamInv
  <2> QED
    BY <2>1, <2>2 DEF DashInv, StreamInv
<1>3. CleanInv'
  BY DEF DashInv, CleanInv
<1> QED
  BY <1>1, <1>2, <1>3 DEF DashInv

LEMMA LoadArrivesInv ==
  ASSUME DashInv, NEW g \in gets, LoadArrives(g)
  PROVE  DashInv'
<1>1. /\ g.kind = "load" /\ stream' = "connecting" /\ gets' = gets \ {g}
      /\ UNCHANGED <<sweepNo, posting, snap, log, channel, quiet, caughtUp>>
  BY DEF LoadArrives, server
<1>2. stream = "none" /\ gets' = {}
  BY <1>1 DEF DashInv, StreamInv
<1>3. channel = <<>> /\ ~caughtUp
  BY <1>2 DEF DashInv, StreamInv
<1>4. ServerInv'
  BY <1>1 DEF DashInv, ServerInv, Streams
<1>5. StreamInv'
  BY <1>1, <1>2, <1>3 DEF StreamInv
<1>6. CleanInv'
  BY <1>1, <1>2 DEF CleanInv
<1>7. TabInv'
  BY <1>1, <1>3 DEF TabInv
<1> QED
  BY <1>4, <1>5, <1>6, <1>7 DEF DashInv

\* Only a clean refresh, with nothing sent but the greeting, makes a tab caught up.
LEMMA RefreshArrivesInv ==
  ASSUME DashInv, NEW g \in gets, RefreshArrives(g)
  PROVE  DashInv'
<1>1. /\ g.kind = "refresh" /\ Answered(g) /\ gets' = gets \ {g}
      /\ UNCHANGED <<sweepNo, posting, snap, log, channel, stream, quiet>>
      /\ caughtUp' = (stream = "open" /\ g.clean)
      /\ alerts' = Newest(g.alerts) /\ Take(g.status)
  BY DEF RefreshArrives, server
<1>2. ASSUME stream = "open", g.clean
      PROVE  AlertsThrough(channel', alerts', log')
             /\ (snap' # Null => StatusThrough(channel', status', snap'))
  <2>1. Greeted(channel, snap) /\ IsCurrent(g, snap, log) /\ snap \in Nat /\ log \in Nat
    BY <1>1, <1>2 DEF DashInv, CleanInv, ServerInv
  <2>2. g.alerts = log /\ (snap # Null => g.status = snap)
    BY <1>1, <1>2, <2>1 DEF IsCurrent, Answered
  <2>3. snap # Null => status' = snap
    BY <1>1, <2>2 DEF Take
  <2>4. AlertsThrough(channel, Newest(log), log) /\ StatusThrough(channel, snap, snap)
    BY <2>1, GreetingShows
  <2> QED
    BY <1>1, <2>2, <2>3, <2>4
<1>3. TabInv'
  BY <1>1, <1>2 DEF TabInv
<1> QED
  BY <1>1, <1>3, GetLeaves

LEMMA PollArrivesInv ==
  ASSUME DashInv, NEW g \in gets, PollArrives(g)
  PROVE  DashInv'
<1>1. /\ g.kind = "poll" /\ gets' = gets \ {g}
      /\ UNCHANGED <<sweepNo, posting, snap, log, channel, stream, quiet, caughtUp>>
  BY DEF PollArrives, server
<1>2. ~caughtUp
  BY <1>1 DEF DashInv, StreamInv
<1> QED
  BY <1>1, <1>2, GetLeaves DEF TabInv

LEMMA GetFailsInv ==
  ASSUME DashInv, NEW g \in gets, GetFails(g)
  PROVE  DashInv'
<1>1. /\ gets' = gets \ {g}
      /\ UNCHANGED <<sweepNo, posting, snap, log, channel, stream, quiet, caughtUp, status, alerts>>
  BY DEF GetFails, server, tab
<1>2. TabInv' /\ (caughtUp' => stream = "open")
  BY <1>1 DEF DashInv, TabInv, StreamInv
<1> QED
  BY <1>1, <1>2, GetLeaves

\* What both kinds of frame leave.
LEMMA FrameLeaves ==
  ASSUME DashInv, stream = "open", channel # <<>>, channel' = Tail(channel),
         UNCHANGED <<sweepNo, posting, snap, log, stream, gets, quiet, caughtUp>>, TabInv'
  PROVE  DashInv'
<1>1. channel' \in Seq(FrameSet)
  BY SMT DEF DashInv, ServerInv
<1>2. ServerInv'
  BY <1>1 DEF DashInv, ServerInv
<1>3. StreamInv'
  BY DEF DashInv, StreamInv
<1>4. Greeted(channel, snap) => Greeted(channel', snap')
  BY SMT DEF Greeted
<1>5. CleanInv'
  BY <1>4 DEF DashInv, CleanInv
<1> QED
  BY <1>2, <1>3, <1>5 DEF DashInv

LEMMA AlertArrivesInv == DashInv /\ AlertArrives => DashInv'
<1> SUFFICES ASSUME DashInv, AlertArrives PROVE DashInv'
  OBVIOUS
<1>1. /\ stream = "open" /\ channel # <<>> /\ Head(channel)[1] = "alert"
      /\ channel' = Tail(channel) /\ alerts' = <<Head(channel)[2]>> \o alerts
      /\ UNCHANGED <<sweepNo, posting, snap, log, stream, gets, quiet, caughtUp, status>>
  BY DEF AlertArrives, server
<1>2. channel \in Seq(FrameSet) /\ log \in Nat
  BY DEF DashInv, ServerInv
<1>3. ASSUME caughtUp
      PROVE  AlertsThrough(channel', alerts', log')
             /\ (snap' # Null => StatusThrough(channel', status', snap'))
  <2>1. AlertsThrough(channel, alerts, log) /\ (snap # Null => StatusThrough(channel, status, snap))
    BY <1>3 DEF DashInv, TabInv
  <2>2. AlertsThrough(Tail(channel), <<Head(channel)[2]>> \o alerts, log)
    BY <1>1, <1>2, <2>1, FrameRead
  <2>3. snap # Null => StatusThrough(Tail(channel), status, snap)
    BY <1>1, <1>2, <2>1, StatusRead
  <2> QED
    BY <1>1, <2>2, <2>3
<1>4. TabInv'
  BY <1>1, <1>3 DEF TabInv
<1> QED
  BY <1>1, <1>4, FrameLeaves

LEMMA StatusArrivesInv == DashInv /\ StatusArrives => DashInv'
<1> SUFFICES ASSUME DashInv, StatusArrives PROVE DashInv'
  OBVIOUS
<1>1. /\ stream = "open" /\ channel # <<>> /\ Head(channel)[1] = "status"
      /\ channel' = Tail(channel) /\ Take(Head(channel)[2])
      /\ UNCHANGED <<sweepNo, posting, snap, log, stream, gets, quiet, caughtUp, alerts>>
  BY DEF StatusArrives, server
<1>2. channel \in Seq(FrameSet) /\ log \in Nat
  BY DEF DashInv, ServerInv
<1>3. status' = Head(channel)[2]
  <2>1. Head(channel) \in FrameSet
    BY <1>1, <1>2, SMT
  <2>2. Head(channel)[2] # Null
    BY <2>1, SMT DEF FrameSet, Null
  <2> QED
    BY <1>1, <2>2 DEF Take
<1>4. ASSUME caughtUp
      PROVE  AlertsThrough(channel', alerts', log')
             /\ (snap' # Null => StatusThrough(channel', status', snap'))
  <2>1. AlertsThrough(channel, alerts, log) /\ (snap # Null => StatusThrough(channel, status, snap))
    BY <1>4 DEF DashInv, TabInv
  <2>2. AlertsThrough(Tail(channel), alerts, log)
    BY <1>1, <1>2, <2>1, FrameRead
  <2>3. snap # Null => StatusThrough(Tail(channel), Head(channel)[2], snap)
    BY <1>1, <1>2, <2>1, StatusRead
  <2> QED
    BY <1>1, <1>3, <2>2, <2>3
<1>5. TabInv'
  BY <1>1, <1>4 DEF TabInv
<1> QED
  BY <1>1, <1>5, FrameLeaves

LEMMA PollStatusInv == DashInv /\ PollStatus => DashInv'
<1> SUFFICES ASSUME DashInv, PollStatus PROVE DashInv'
  OBVIOUS
<1> DEFINE h == Request("poll", 0)
<1>1. /\ stream = "polling" /\ gets' = gets \cup {h} /\ ~caughtUp
      /\ UNCHANGED <<sweepNo, posting, snap, log, channel, stream, quiet, caughtUp>>
  BY DEF PollStatus, server, DashInv, StreamInv
<1>2. IsRequest(h) /\ h.kind = "poll"
  BY DEF Request, IsRequest
<1> HIDE DEF h
<1>3. ServerInv'
  BY <1>1 DEF DashInv, ServerInv
<1>4. StreamInv'
  BY <1>1, <1>2 DEF DashInv, StreamInv
<1>5. CleanInv'
  BY <1>1, <1>2 DEF DashInv, CleanInv, IsCurrent
<1>6. TabInv'
  BY <1>1 DEF TabInv
<1> QED
  BY <1>3, <1>4, <1>5, <1>6 DEF DashInv

LEMMA DashStepInv == DashInv /\ [DashNext]_dashVars => DashInv'
<1> SUFFICES ASSUME DashInv, [DashNext]_dashVars PROVE DashInv'
  OBVIOUS
<1>1. CASE SweepAlerts \/ SweepPublishes \/ Restart
  BY <1>1, SweepAlertsInv, SweepPublishesInv, RestartInv
<1>2. CASE Answers \/ Frames \/ Connects
  BY <1>2, AnswersInv, AlertArrivesInv, StatusArrivesInv, AcceptInv, OpenInv DEF Frames, Connects
<1>3. CASE Arrivals
  BY <1>3, LoadArrivesInv, RefreshArrivesInv, PollArrivesInv DEF Arrivals
<1>4. CASE StreamBreaks \/ PollStatus
  BY <1>4, StreamBreaksInv, PollStatusInv
<1>5. CASE \E g \in gets : GetFails(g)
  BY <1>5, GetFailsInv
<1>6. CASE UNCHANGED dashVars
  <2>1. UNCHANGED <<sweepNo, posting, snap, log, channel, status, alerts, stream, gets, quiet,
                    caughtUp>>
    BY <1>6 DEF dashVars, server, tab
  <2>2. ServerInv' /\ StreamInv' /\ TabInv'
    BY <2>1 DEF DashInv, ServerInv, StreamInv, TabInv
  <2>3. CleanInv'
    BY <2>1 DEF DashInv, CleanInv
  <2> QED
    BY <2>2, <2>3 DEF DashInv
<1> QED
  BY <1>1, <1>2, <1>3, <1>4, <1>5, <1>6 DEF DashNext

(***************************************************************************)
(* However many sweeps, faults and reconnections, and however many alerts  *)
(* one answer holds: a tab whose stream was refreshed with no broadcast in *)
(* between, and that has read its frames, shows the server's snapshot and  *)
(* the latest of its alerts without a gap, all of them or at least as many *)
(* as one answer holds (serve/ui.ts:358-395, serve/server.ts:209-213).     *)
(***************************************************************************)
THEOREM TabsAreExact == DashSpec => []TabIsExact
<1>1. DashInv => TabIsExact
  <2> SUFFICES ASSUME DashInv, caughtUp, channel = <<>>
               PROVE  (snap # Null => status = snap) /\ UpTo(alerts, log)
    BY DEF TabIsExact, UpTo
  <2>1. AlertsThrough(<<>>, alerts, log) /\ (snap # Null => StatusThrough(<<>>, status, snap))
    BY DEF DashInv, TabInv
  <2>2. Len(<<>>) = 0 /\ \A i : i \notin 1 .. Len(<<>>)
    BY SMT
  <2> QED
    BY <2>1, <2>2 DEF AlertsThrough, Shows, StatusThrough
<1> QED
  BY <1>1, DashInitInv, DashStepInv, PTL DEF DashSpec
=============================================================================
