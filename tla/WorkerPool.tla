----------------------------- MODULE WorkerPool -----------------------------
(***************************************************************************)
(* mapWithConcurrency over calls wrapped in withRetry (lib.ts): how        *)
(* solvency --all, the contract checks, the authority captures and the     *)
(* exposure scan read many things at once.  Workers share one index and    *)
(* run one at a time, giving the thread up only inside a call or a backoff *)
(* sleep; Promise.all settles on the last worker or on the first failure,  *)
(* and the workers that are left then keep calling in the background.      *)
(*                                                                         *)
(* Items are 1..N where the code counts from 0.  fn(item i) answers Value  *)
(* of i: any value that tells the items apart will do, so it is i itself.  *)
(***************************************************************************)
EXTENDS Integers, FiniteSets

CONSTANTS
  N,         \* the number of items
  Limit,     \* the concurrency asked for, or NaN
  NaN,       \* what Number("abc") gives
  Retries,   \* attempts after the first one (RPC_RETRIES)
  Replies    \* what a call may do, a subset of ReplyKinds

ReplyKinds == {"ok",          \* it returns its value
               "transient",   \* it throws an error isTransientRpcError accepts
               "fatal"}       \* it throws any other error

ASSUME PoolAssumption ==
  /\ N \in Nat
  /\ Limit \in Nat \/ Limit = NaN
  /\ NaN \notin Int
  /\ Retries \in Nat
  /\ Replies \subseteq ReplyKinds

Items == 1 .. N
Hole  == 0                     \* an array slot nothing was assigned to

\* Array.from({length: Math.max(1, Math.min(limit, n))}): a NaN length gives none.
WorkerCount ==
  IF Limit = NaN THEN 0
  ELSE LET bounded == IF Limit < N THEN Limit ELSE N
       IN  IF bounded < 1 THEN 1 ELSE bounded
Workers == 1 .. WorkerCount

VARIABLES
  next,      \* the shared index
  item,      \* worker -> the item it has
  attempt,   \* worker -> withRetry's attempt counter
  state,     \* worker -> what it is doing
  results,   \* the array the map returns
  promise    \* what the caller's await sees
vars == <<next, item, attempt, state, results, promise>>

WorkerStates == {"calling", "backoff", "done", "failed"}
Promises     == {"pending", "resolved", "rejected"}

Busy(w) == state[w] \in {"calling", "backoff"}

\* All workers start in one go, each taking the next index.
Init ==
  /\ next = WorkerCount + 1
  /\ item = [w \in Workers |-> w]
  /\ attempt = [w \in Workers |-> 0]
  /\ state = [w \in Workers |-> IF w <= N THEN "calling" ELSE "done"]
  /\ results = [i \in Items |-> Hole]
  /\ promise = IF \A w \in Workers : w > N THEN "resolved" ELSE "pending"

\* Promise.all: the first failure rejects it, the last success resolves it.
Settle ==
  promise' = IF promise # "pending" THEN promise
             ELSE IF \E w \in Workers : state'[w] = "failed" THEN "rejected"
             ELSE IF \A w \in Workers : state'[w] = "done" THEN "resolved"
             ELSE "pending"

\* Mutant: a worker walks on from its own item.
TakeNextOwn(w) ==
  /\ item' = [item EXCEPT ![w] = @ + 1]
  /\ next' = next + 1
  /\ attempt' = [attempt EXCEPT ![w] = 0]
  /\ state' = [state EXCEPT ![w] = IF item'[w] <= N THEN "calling" ELSE "done"]

\* i = next++; past the end the worker returns.
TakeNext(w) ==
  /\ item' = [item EXCEPT ![w] = next]
  /\ next' = next + 1
  /\ attempt' = [attempt EXCEPT ![w] = 0]
  /\ state' = [state EXCEPT ![w] = IF next <= N THEN "calling" ELSE "done"]

\* Mutant: the slot is looked up after the await, in the shared index.
CallReturnsLate(w) ==
  /\ state[w] = "calling"
  /\ "ok" \in Replies
  /\ results' = [results EXCEPT ![IF next <= N THEN next ELSE N] = item[w]]
  /\ TakeNext(w)
  /\ Settle

CallReturns(w) ==
  /\ state[w] = "calling"
  /\ "ok" \in Replies
  /\ results' = [results EXCEPT ![item[w]] = item[w]]
  /\ TakeNext(w)
  /\ Settle

\* A transient error with an attempt left: the worker sleeps.
CallIsRetried(w) ==
  /\ state[w] = "calling"
  /\ "transient" \in Replies
  /\ attempt[w] < Retries
  /\ state' = [state EXCEPT ![w] = "backoff"]
  /\ UNCHANGED <<next, item, attempt, results, promise>>

\* Mutant: attempts are not counted.
BackoffEndsUncounted(w) ==
  /\ state[w] = "backoff"
  /\ state' = [state EXCEPT ![w] = "calling"]
  /\ UNCHANGED <<next, item, attempt, results, promise>>

\* The attempt counter goes up as the sleep ends.
BackoffEnds(w) ==
  /\ state[w] = "backoff"
  /\ attempt' = [attempt EXCEPT ![w] = @ + 1]
  /\ state' = [state EXCEPT ![w] = "calling"]
  /\ UNCHANGED <<next, item, results, promise>>

\* Mutant: nobody awaits the worker's promise.
CallThrowsUnawaited(w) ==
  /\ state[w] = "calling"
  /\ \/ "fatal" \in Replies
     \/ "transient" \in Replies /\ attempt[w] >= Retries
  /\ state' = [state EXCEPT ![w] = "failed"]
  /\ UNCHANGED <<next, item, attempt, results, promise>>

\* Any other error, or the last attempt: the worker's promise rejects.
CallThrows(w) ==
  /\ state[w] = "calling"
  /\ \/ "fatal" \in Replies
     \/ "transient" \in Replies /\ attempt[w] >= Retries
  /\ state' = [state EXCEPT ![w] = "failed"]
  /\ Settle
  /\ UNCHANGED <<next, item, attempt, results>>

WorkerStep(w) ==
  CallReturns(w) \/ CallIsRetried(w) \/ BackoffEnds(w) \/ CallThrows(w)

Next == \E w \in Workers : WorkerStep(w)

Spec == Init /\ [][Next]_vars

\* Every call settles (FetchRequest has a timeout) and every sleep ends.
FairSpec == Spec /\ \A w \in Workers : WF_vars(WorkerStep(w))
-----------------------------------------------------------------------------
TypeOK ==
  /\ next \in Nat \ {0}
  /\ item \in [Workers -> Nat \ {0}]
  /\ attempt \in [Workers -> 0 .. Retries]
  /\ state \in [Workers -> WorkerStates]
  /\ results \in [Items -> Items \cup {Hole}]
  /\ promise \in Promises

(***************************************************************************)
(* When the map resolves, every item has its own result in its own slot,   *)
(* however the calls overlapped and retried (lib.ts:138, "preserving input *)
(* order"): no hole, nothing in a neighbour's place.                       *)
(***************************************************************************)
ResolvedInOrder == promise = "resolved" => \A i \in Items : results[i] = i

(***************************************************************************)
(* An item is called by one worker at a time, and never again once it has  *)
(* its result or has failed: a route is not probed twice in a sweep        *)
(* (lib.ts:148-152).                                                       *)
(***************************************************************************)
OneCallerPerItem ==
  \A w \in Workers : Busy(w) =>
    /\ results[item[w]] = Hole
    /\ \A v \in Workers \ {w} : state[v] # "done" => item[v] # item[w]

(***************************************************************************)
(* A worker that failed is never passed over: from then on the caller's    *)
(* promise is rejected, although the other workers go on filling the array *)
(* and may fill all the rest of it.                                        *)
(***************************************************************************)
FailureReachesCaller ==
  (promise = "rejected") <=> (\E w \in Workers : state[w] = "failed")

(***************************************************************************)
(* The map settles whatever the calls do, and then no worker is left       *)
(* calling, not even those of a rejected map that nobody awaits any more:  *)
(* retries are bounded and no worker waits for another (lib.ts:128-134,    *)
(* :149-155).                                                              *)
(***************************************************************************)
Settles == <>[](promise # "pending" /\ \A w \in Workers : ~Busy(w))
=============================================================================
