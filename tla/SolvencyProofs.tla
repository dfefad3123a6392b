--------------------------- MODULE SolvencyProofs ---------------------------
(***************************************************************************)
(* Proofs about the solvency command: the search for the onset of a breach *)
(* (module Bisect), for a chain of any length and any history of backing,  *)
(* and the watch loop (module SolvencyWatch), for any routes, readings,    *)
(* prices and signals.                                                     *)
(***************************************************************************)
EXTENDS Solvency, TLAPS

(***************************************************************************)
(* The search keeps one healthy end and one broken end, which is all that  *)
(* the report needs: nothing is assumed of what lies in between.           *)
(***************************************************************************)

SearchInv ==
  /\ pc = "endpoints" => start < latest
  /\ pc = "search" \/ result = "breach-located" =>
       /\ start <= lo /\ lo < hi /\ hi <= latest
       /\ ~broken[lo] /\ broken[hi]
  /\ result = "breach-located" => hi = lo + 1 /\ pc = "done"
  /\ exit = 0 => ~broken[start] /\ ~broken[latest] /\ pc = "done"

IInv == TypeOK /\ SearchInv

\* The middle lies strictly inside, and leaves at most half on either side.
LEMMA MiddleRoundedDown ==
  ASSUME NEW a \in Nat, NEW b \in Nat, b - a > 1
  PROVE  LET mid == a + (b - a) \div 2
         IN  /\ mid \in Nat /\ a < mid /\ mid < b
             /\ 2 * (b - mid - 1) <= b - a - 1
             /\ 2 * (mid - a - 1) <= b - a - 1
BY SMT

\* The strengthening holds at the start.
LEMMA InitInv == Init => IInv
BY BisectAssumption, SMT DEF Init, IInv, TypeOK, SearchInv, Blocks, Results

\* Every step keeps the strengthening.
LEMMA StepInv == IInv /\ [Next]_vars => IInv'
<1> SUFFICES ASSUME TypeOK, SearchInv, [Next]_vars PROVE TypeOK' /\ SearchInv'
  BY DEF IInv
<1>1. /\ MaxBlock \in Nat /\ head \in Nat /\ head <= MaxBlock
      /\ latest \in Nat /\ latest <= head /\ start \in Nat /\ start <= head
      /\ lo \in Nat /\ hi \in Nat /\ lo <= hi /\ hi <= MaxBlock
  BY BisectAssumption, SMT DEF TypeOK, Blocks
<1>2. CASE Grow
  <2>1. head' \in Blocks /\ latest \in 0 .. head' /\ start \in 0 .. head'
    BY <1>1, <1>2, SMT DEF Grow, Blocks
  <2>2. UNCHANGED <<broken, pc, latest, start, lo, hi, result, exit>>
    BY <1>2 DEF Grow, command
  <2>3. QED
    BY <2>1, <2>2 DEF TypeOK, SearchInv
<1>3. CASE GetHead
  <2>1. latest' \in 0 .. head' /\ start' \in 0 .. head'
    BY <1>1, <1>3, SMT DEF GetHead
  <2>2. QED
    BY <2>1, <1>3 DEF GetHead, TypeOK, SearchInv
<1>4. ASSUME NEW b \in Blocks, ResolveSince(b) PROVE TypeOK' /\ SearchInv'
  <2>1. start' \in 0 .. head'
    BY <1>1, <1>4, SMT DEF ResolveSince, Blocks
  <2>2. pc' = "endpoints" => start' < latest
    BY <1>1, <1>4, SMT DEF ResolveSince, Finish, Blocks
  <2>3. QED
    BY <2>1, <2>2, <1>4 DEF ResolveSince, Finish, TypeOK, SearchInv, Results
<1>5. CASE Endpoints
  <2>1. CASE pc' = "search"
    <3>1. start < latest /\ lo' = start /\ hi' = latest /\ ~broken[start] /\ broken[latest]
      BY <2>1, <1>5, <1>1, SMT DEF Endpoints, Finish, SearchInv
    <3>2. lo' \in Blocks /\ hi' \in lo' .. MaxBlock
      BY <3>1, <1>1, SMT DEF Blocks
    <3>3. UNCHANGED <<broken, head, latest, start, result, exit>>
      BY <2>1, <1>5 DEF Endpoints, Finish
    <3>4. QED
      BY <2>1, <3>1, <3>2, <3>3, <1>1, <1>5 DEF Endpoints, TypeOK, SearchInv
  <2>2. CASE pc' # "search"
    BY <2>2, <1>5 DEF Endpoints, Finish, TypeOK, SearchInv, Results
  <2>3. QED
    BY <2>1, <2>2
<1>6. CASE Probe
  <2> DEFINE mid == lo + (hi - lo) \div 2
  <2>1. pc = "search" /\ hi - lo > 1 /\ UNCHANGED <<broken, head, pc, latest, start, result, exit>>
    BY <1>6 DEF Probe
  <2>2. IF broken[mid] THEN hi' = mid /\ lo' = lo ELSE lo' = mid /\ hi' = hi
    BY <1>6 DEF Probe
  <2>3. mid \in Nat /\ lo < mid /\ mid < hi
    BY <2>1, <1>1, MiddleRoundedDown
  <2> HIDE DEF mid
  <2>4. start <= lo' /\ lo' < hi' /\ hi' <= latest /\ lo' \in Blocks /\ hi' \in lo' .. MaxBlock
    BY <2>1, <2>2, <2>3, <1>1, SMT DEF SearchInv, Blocks
  <2>5. ~broken[lo'] /\ broken[hi']
    BY <2>1, <2>2 DEF SearchInv
  <2>6. result # "breach-located" /\ exit # 0
    BY <2>1 DEF SearchInv
  <2>7. QED
    BY <2>1, <2>4, <2>5, <2>6 DEF TypeOK, SearchInv
<1>7. CASE Report
  <2>1. hi = lo + 1
    BY <1>1, <1>7, SMT DEF Report, SearchInv
  <2>2. QED
    BY <2>1, <1>7 DEF Report, Finish, TypeOK, SearchInv, Results
<1>8. CASE ReadFails
  BY <1>8 DEF ReadFails, Finish, TypeOK, SearchInv, Results
<1>9. CASE UNCHANGED vars
  BY <1>9 DEF vars, command, TypeOK, SearchInv
<1>10. QED
  BY <1>2, <1>3, <1>4, <1>5, <1>6, <1>7, <1>8, <1>9 DEF Next, CommandStep

\* So the strengthening is an invariant.
LEMMA Invariance == Spec => []IInv
BY InitInv, StepInv, PTL DEF Spec
-----------------------------------------------------------------------------
(***************************************************************************)
(* The interval stays inside the chain (lib.ts:292-305).                   *)
(***************************************************************************)
THEOREM BisectTypeCorrect == Spec => []TypeOK
<1>1. IInv => TypeOK
  BY DEF IInv
<1>2. QED
  BY <1>1, Invariance, PTL

(***************************************************************************)
(* For any history of backing, what is reported as the breach is a healthy *)
(* block with a broken one right after it; and it is the first broken      *)
(* block of the window if backing broke only once (solvency.ts:444-455).   *)
(***************************************************************************)
THEOREM LocatedBreachIsOnset == Spec => []LocatedIsOnset
<1>1. IInv => LocatedIsOnset
  <2> SUFFICES ASSUME IInv, result = "breach-located"
               PROVE  /\ start <= lo /\ hi = lo + 1 /\ hi <= latest
                      /\ ~broken[lo] /\ broken[hi]
                      /\ Monotonic => \A n \in start .. lo : ~broken[n]
    BY DEF LocatedIsOnset
  <2>1. ASSUME Monotonic, NEW n \in start .. lo PROVE ~broken[n]
    <3>1. n \in Blocks /\ lo \in Blocks /\ n <= lo
      BY BisectAssumption, SMT DEF IInv, TypeOK, Blocks
    <3>2. QED
      BY <3>1, <2>1 DEF Monotonic, IInv, SearchInv
  <2>2. QED
    BY <2>1 DEF IInv, SearchInv
<1>2. QED
  BY <1>1, Invariance, PTL

(***************************************************************************)
(* Exit code 0 means that both ends of the window were measured and backed *)
(* (solvency.ts:416-442).                                                  *)
(***************************************************************************)
THEOREM ExitZeroIsBacked == Spec => []ExitZeroMeansBacked
<1>1. IInv => ExitZeroMeansBacked
  BY DEF IInv, SearchInv, ExitZeroMeansBacked
<1>2. QED
  BY <1>1, Invariance, PTL

(***************************************************************************)
(* Each probe at least halves the interval (lib.ts:298-303).               *)
(***************************************************************************)
THEOREM EveryProbeHalves == Spec => ProbesHalve
<1> DEFINE P == pc = "search" /\ <<lo, hi>>' # <<lo, hi>>
                  => 2 * (hi' - lo' - 1) <= hi - lo - 1
<1>1. IInv /\ [Next]_vars => [P]_vars
  <2> SUFFICES ASSUME TypeOK, Next, pc = "search", <<lo, hi>>' # <<lo, hi>>
               PROVE  2 * (hi' - lo' - 1) <= hi - lo - 1
    BY DEF IInv
  <2>1. Probe
    BY DEF Next, CommandStep, Grow, GetHead, ResolveSince, Endpoints, Report, ReadFails, command
  <2> DEFINE mid == lo + (hi - lo) \div 2
  <2>2. lo \in Nat /\ hi \in Nat /\ hi - lo > 1
    BY <2>1, BisectAssumption, SMT DEF Probe, TypeOK, Blocks
  <2>3. (hi' = mid /\ lo' = lo) \/ (lo' = mid /\ hi' = hi)
    BY <2>1 DEF Probe
  <2>4. mid \in Nat /\ 2 * (hi - mid - 1) <= hi - lo - 1 /\ 2 * (mid - lo - 1) <= hi - lo - 1
    BY <2>2, MiddleRoundedDown
  <2> HIDE DEF mid
  <2>5. QED
    BY <2>2, <2>3, <2>4, SMT
<1>2. QED
  BY <1>1, Invariance, PTL DEF Spec, ProbesHalve
-----------------------------------------------------------------------------
(***************************************************************************)
(* The loop.                                                               *)
(***************************************************************************)
Phases == {"start", "bisecting", "checking", "alerting", "posting", "degrading", "postingDrop", "sleeping", "done"}
Told == {"none", "breach", "recovery"}

\* What the variables may hold.
WatchType ==
  /\ phase \in Phases /\ watching \in BOOLEAN
  /\ routes \subseteq Routes /\ state \subseteq routes
  /\ phase = "start" => ~watching /\ routes = {}
  /\ phase \in {"alerting", "posting", "degrading", "postingDrop", "sleeping"} => watching
  /\ stage \in [Routes -> {"waiting", "pricing", "done"}]
  /\ results \in [Routes -> Readings \cup {NoReading}]
  /\ previous \in [Routes -> Readings \cup {NoReading}]
  /\ lastTold \in [Routes -> Told] /\ prevTold \in [Routes -> Told]
  /\ ratios \in [Routes -> Int]

\* What is untold is exactly what is queued, and nothing is told twice.
AlertInv ==
  /\ queue \subseteq Alerts(Routes)
  /\ phase \notin {"alerting", "posting"} => queue = {}
  /\ \A r \in Routes :
       /\ [id |-> r, kind |-> "breach"] \in queue <=> r \in state /\ lastTold[r] # "breach"
       /\ [id |-> r, kind |-> "recovery"] \in queue <=> r \notin state /\ lastTold[r] = "breach"
       /\ lastTold[r] # "none" => lastTold[r] # prevTold[r]
  /\ watching /\ phase # "checking" => state = Failing(results)

\* The drops between the last two readings of each route.
Dropped == {r \in routes : Fell(previous[r].ratio, results[r].ratio)}

DropInv ==
  /\ phase \notin {"sleeping", "done"} => \A r \in Routes : ratios[r] = previous[r].ratio
  /\ phase = "sleeping" => \A r \in Routes : ratios[r] = results[r].ratio
  /\ phase \notin {"degrading", "postingDrop", "sleeping", "done"} => dropsTold = {}
  /\ phase \notin {"degrading", "postingDrop"} => degrades = {}
  /\ Delta # NoDelta /\ watching /\ phase \in {"degrading", "postingDrop", "sleeping", "done"} =>
       dropsTold \cup degrades = Dropped

\* What is shown is what was measured, and a price is what its feeds say now:
\* an answer stays, and so does a rejection.
PriceInv ==
  /\ DOMAIN feedCache = Feeds /\ DOMAIN usd = Routes
  /\ results = measured
  /\ phase # "done" => exitCode = -1
  /\ ~watching /\ phase = "done" /\ routes # {} => (exitCode = 1 <=> Failing(results) # {})
  /\ \A r \in Routes :
       /\ stage[r] = "waiting" \/ measured[r] = ErrorReading \/ \A f \in Hops[r] : feedCache[f] # Unset
       /\ stage[r] = "done" /\ measured[r] # ErrorReading =>
            Readable(Hops[r]) /\ usd[r] = priceFromHops(Hops[r])

WatchInv == WatchType /\ AlertInv /\ DropInv /\ PriceInv

\* The process begins with nothing selected, read or told.
LEMMA InitWatch == WatchInit => WatchInv
<1> SUFFICES ASSUME WatchInit PROVE WatchInv
  OBVIOUS
<1>1. WatchType
  <2>1. /\ results = [r \in Routes |-> NoReading] /\ previous = results
        /\ lastTold = [r \in Routes |-> "none"] /\ prevTold = lastTold
        /\ stage = [r \in Routes |-> "waiting"] /\ ratios = [r \in Routes |-> NoRatio]
        /\ phase = "start" /\ watching = FALSE /\ routes = {} /\ state = {}
    BY DEF WatchInit
  <2>2. results \in [Routes -> Readings \cup {NoReading}] /\ previous \in [Routes -> Readings \cup {NoReading}]
    BY <2>1
  <2>3. ratios \in [Routes -> Int]
    BY <2>1 DEF NoRatio
  <2>4. /\ stage \in [Routes -> {"waiting", "pricing", "done"}]
        /\ lastTold \in [Routes -> Told] /\ prevTold \in [Routes -> Told]
    BY <2>1 DEF Told
  <2> QED
    BY <2>1, <2>2, <2>3, <2>4 DEF WatchType, Phases
<1>2. AlertInv
  BY DEF WatchInit, AlertInv
<1>3. DropInv
  BY DEF WatchInit, DropInv, NoReading
<1>4. PriceInv
  BY DEF WatchInit, PriceInv
<1> QED
  BY <1>1, <1>2, <1>3, <1>4 DEF WatchInv

\* Only the start of the command selects, and only routes there are.
LEMMA WatchTypeInductive == WatchType /\ [SolvencyNext]_SolvencyVars => WatchType'
<1> SUFFICES ASSUME WatchType, [SolvencyNext]_SolvencyVars PROVE WatchType'
  OBVIOUS
<1> USE DEF WatchType, Phases
<1>1. CASE UNCHANGED watchVars
  BY <1>1 DEF watchVars, selection, checks, alerts, drops
<1>2. CASE Refuse
  BY <1>2 DEF Refuse, selection, checks, alerts, drops
<1>3. CASE Start
  <2>1. routes' \subseteq Routes
    BY <1>3, RegistryAssumption DEF Start, Selected
  <2>2. watching' \in BOOLEAN /\ phase' \in {"bisecting", "checking"} /\ state = {} /\ UNCHANGED <<checks, alerts, drops>>
    BY <1>3 DEF Start
  <2> QED
    BY <2>1, <2>2 DEF checks, alerts, drops
<1>4. ASSUME NEW r \in routes, CheckRoute(r) PROVE WatchType'
  <2>1. PICK outcome \in Outcomes : Measure(r, outcome, readFeeds(Hops[r]))
    BY <1>4 DEF CheckRoute
  <2>2. outcome \in Readings
    BY ConstantsAssumption
  <2> QED
    BY <2>1, <2>2 DEF Measure, selection, alerts, drops
<1>5. ASSUME NEW r \in routes, PriceRoute(r) PROVE WatchType'
  BY <1>5 DEF PriceRoute, selection, alerts, drops
<1>6. ASSUME NEW f \in Feeds, FeedSettles(f) PROVE WatchType'
  BY <1>6 DEF FeedSettles, selection, alerts, drops
<1>7. CASE ExitWithReport
  BY <1>7 DEF ExitWithReport, selection, checks, alerts, drops, Checked
<1>8. CASE Judge
  BY <1>8 DEF Judge, selection, checks, drops, Checked, Failing
<1>9. ASSUME NEW a \in Alerts(Routes), EmitAlert(a) PROVE WatchType'
  <2>1. a.id \in Routes /\ a.kind \in Told
    BY DEF Alerts, Kinds, Told
  <2> QED
    BY <1>9, <2>1 DEF EmitAlert, selection, checks, drops
<1>10. CASE WebhookSettles
  BY <1>10 DEF WebhookSettles, selection, checks, alerts, drops
<1>11. CASE FindDegrades
  BY <1>11 DEF FindDegrades, selection, checks, alerts
<1>12. ASSUME NEW r \in Routes, EmitDegrade(r) PROVE WatchType'
  BY <1>12 DEF EmitDegrade, selection, checks, alerts
<1>13. CASE EndSweep
  <2>1. \A r \in Routes : results[r].ratio \in Int
    BY DEF Readings, NoReading, NoRatio
  <2> QED
    BY <1>13, <2>1 DEF EndSweep, selection, checks, alerts
<1>14. CASE Wake
  BY <1>14 DEF Wake, Stopped, NextSweep, selection, alerts
<1>15. CASE Signal
  BY <1>15 DEF Signal, selection, checks, alerts, drops
<1> QED
  BY <1>1, <1>2, <1>3, <1>4, <1>5, <1>6, <1>7, <1>8, <1>9, <1>10, <1>11, <1>12, <1>13, <1>14, <1>15
  DEF SolvencyNext, SolvencyVars, Loop, CheckAll

\* The transitions between two sets of failing routes are what is not yet told.
LEMMA JudgeQueues ==
  ASSUME NEW was, NEW swept, NEW now, now \subseteq swept, was \subseteq swept
  PROVE  \A r :
           /\ [id |-> r, kind |-> "breach"] \in computeTransitions(was, swept, now) <=> r \in now /\ r \notin was
           /\ [id |-> r, kind |-> "recovery"] \in computeTransitions(was, swept, now) <=> r \notin now /\ r \in was
<1> SUFFICES ASSUME NEW r
             PROVE  /\ [id |-> r, kind |-> "breach"] \in computeTransitions(was, swept, now) <=> r \in now /\ r \notin was
                    /\ [id |-> r, kind |-> "recovery"] \in computeTransitions(was, swept, now) <=> r \notin now /\ r \in was
  OBVIOUS
<1>1. ASSUME NEW q PROVE [id |-> r, kind |-> "breach"] # [id |-> q, kind |-> "recovery"]
  <2>1. [id |-> r, kind |-> "breach"].kind = "breach" /\ [id |-> q, kind |-> "recovery"].kind = "recovery"
    OBVIOUS
  <2> QED
    BY <2>1
<1>2. ASSUME NEW q, NEW k, [id |-> r, kind |-> k] = [id |-> q, kind |-> k] PROVE r = q
  <2>1. [id |-> r, kind |-> k].id = r /\ [id |-> q, kind |-> k].id = q
    OBVIOUS
  <2> QED
    BY <2>1, <1>2
<1> QED
  BY <1>1, <1>2 DEF computeTransitions

\* An alert taken from the queue leaves the others in it.
LEMMA EmitQueues ==
  ASSUME WatchType, AlertInv, NEW a \in Alerts(Routes), EmitAlert(a)
  PROVE  AlertInv'
<1>1. /\ a \in queue /\ queue' = queue \ {a} /\ phase' = "posting" /\ phase = "alerting"
      /\ lastTold' = [lastTold EXCEPT ![a.id] = a.kind]
      /\ prevTold' = [prevTold EXCEPT ![a.id] = lastTold[a.id]]
      /\ state' = state /\ watching' = watching /\ routes' = routes /\ results' = results
  BY DEF EmitAlert, selection, checks
<1>2. PICK p \in Routes, k \in Kinds : a = [id |-> p, kind |-> k]
  BY DEF Alerts
<1>3. a.id = p /\ a.kind = k
  BY <1>2
<1>4. lastTold'[p] = k /\ prevTold'[p] = lastTold[p]
      /\ \A r \in Routes \ {p} : lastTold'[r] = lastTold[r] /\ prevTold'[r] = prevTold[r]
  BY <1>1, <1>3 DEF WatchType
<1>5. ASSUME NEW r \in Routes, r # p, NEW j \in Kinds
      PROVE  [id |-> r, kind |-> j] \in queue' <=> [id |-> r, kind |-> j] \in queue
  <2>1. [id |-> r, kind |-> j].id = r
    OBVIOUS
  <2> QED
    BY <2>1, <1>1, <1>3, <1>5
<1>6. ASSUME NEW r \in Routes
      PROVE  /\ [id |-> r, kind |-> "breach"] \in queue' <=> r \in state /\ lastTold'[r] # "breach"
             /\ [id |-> r, kind |-> "recovery"] \in queue' <=> r \notin state /\ lastTold'[r] = "breach"
             /\ lastTold'[r] # "none" => lastTold'[r] # prevTold'[r]
  <2>1. CASE r # p
    BY <2>1, <1>4, <1>5 DEF AlertInv, Kinds
  <2>2. CASE r = p /\ k = "breach"
    <3>1. r \in state /\ lastTold[r] # "breach" /\ [id |-> r, kind |-> "breach"] \notin queue'
      BY <2>2, <1>1, <1>2 DEF AlertInv
    <3>2. [id |-> r, kind |-> "recovery"] \notin queue'
      BY <3>1, <1>1 DEF AlertInv
    <3> QED
      BY <3>1, <3>2, <2>2, <1>4
  <2>3. CASE r = p /\ k = "recovery"
    <3>1. r \notin state /\ lastTold[r] = "breach" /\ [id |-> r, kind |-> "recovery"] \notin queue'
      BY <2>3, <1>1, <1>2 DEF AlertInv
    <3>2. [id |-> r, kind |-> "breach"] \notin queue'
      BY <3>1, <1>1 DEF AlertInv
    <3> QED
      BY <3>1, <3>2, <2>3, <1>4
  <2> QED
    BY <2>1, <2>2, <2>3 DEF Kinds
<1>7. Failing(results)' = Failing(results)
  BY <1>1 DEF Failing
<1> QED
  BY <1>1, <1>6, <1>7 DEF AlertInv

\* Who fails is judged by the readings of a finished sweep, and stays judged
\* until the next one starts.
LEMMA AlertInductive == WatchType /\ AlertInv /\ [SolvencyNext]_SolvencyVars => AlertInv'
<1> SUFFICES ASSUME WatchType, AlertInv, [SolvencyNext]_SolvencyVars PROVE AlertInv'
  OBVIOUS
<1>0. ASSUME UNCHANGED <<queue, state, lastTold, prevTold>>,
             phase' \in {"alerting", "posting"} \/ queue = {},
             (watching /\ phase # "checking")' => watching /\ phase # "checking" /\ UNCHANGED <<routes, results>>
      PROVE  AlertInv'
  BY <1>0 DEF AlertInv, Failing
<1>1. CASE UNCHANGED watchVars
  <2>1. UNCHANGED <<queue, state, lastTold, prevTold, phase, watching, routes, results>>
    BY <1>1 DEF watchVars, selection, checks, alerts
  <2>2. AlertInv' <=> AlertInv
    BY <2>1 DEF AlertInv, Failing
  <2> QED
    BY <2>2
<1>2. CASE Refuse
  BY <1>2, <1>0 DEF Refuse, selection, checks, alerts, AlertInv, WatchType
<1>3. CASE Start
  <2>1. UNCHANGED <<queue, state, lastTold, prevTold, results>> /\ queue = {} /\ state = {}
    BY <1>3 DEF Start, alerts, checks, AlertInv, WatchType
  <2>2. (watching /\ phase # "checking")' => FALSE
    BY <1>3 DEF Start
  <2> QED
    BY <2>1, <2>2, <1>0
<1>4. ASSUME phase = "checking", UNCHANGED <<phase, alerts, selection>> PROVE AlertInv'
  BY <1>4, <1>0 DEF alerts, selection, AlertInv
<1>5. ASSUME NEW r \in routes, CheckRoute(r) \/ PriceRoute(r) PROVE AlertInv'
  BY <1>5, <1>4 DEF CheckRoute, Measure, PriceRoute
<1>6. ASSUME NEW f \in Feeds, FeedSettles(f) PROVE AlertInv'
  BY <1>6, <1>0 DEF FeedSettles, alerts, selection, AlertInv
<1>7. CASE ExitWithReport
  BY <1>7, <1>0 DEF ExitWithReport, Checked, alerts, selection, AlertInv
<1>8. CASE Judge
  <2>1. /\ queue' = computeTransitions(state, routes, Failing(results)) /\ state' = Failing(results)
        /\ phase = "checking" /\ phase' = "alerting" /\ queue = {}
        /\ UNCHANGED <<lastTold, prevTold, watching, routes, results>>
    BY <1>8 DEF Judge, Checked, selection, checks, AlertInv
  <2>2. Failing(results) \subseteq routes /\ Failing(results)' = Failing(results)
    BY <2>1 DEF Failing
  <2>3. \A r \in Routes : r \in state <=> lastTold[r] = "breach"
    BY <2>1 DEF AlertInv
  <2>4. ASSUME NEW r \in Routes
        PROVE  /\ [id |-> r, kind |-> "breach"] \in queue' <=> r \in state' /\ lastTold[r] # "breach"
               /\ [id |-> r, kind |-> "recovery"] \in queue' <=> r \notin state' /\ lastTold[r] = "breach"
    BY <2>1, <2>2, <2>3, JudgeQueues DEF WatchType
  <2>5. queue' \subseteq Alerts(Routes)
    <3>1. queue' \subseteq {[id |-> r, kind |-> k] : r \in routes, k \in Kinds}
      BY <2>1, <2>2 DEF computeTransitions, Kinds
    <3> QED
      BY <3>1 DEF Alerts, WatchType
  <2> QED
    BY <2>1, <2>2, <2>4, <2>5 DEF AlertInv
<1>9. CASE WebhookSettles
  BY <1>9, <1>0 DEF WebhookSettles, selection, checks, alerts, AlertInv
<1>10. CASE FindDegrades
  BY <1>10, <1>0 DEF FindDegrades, selection, checks, alerts, AlertInv
<1>11. ASSUME NEW r \in Routes, EmitDegrade(r) PROVE AlertInv'
  BY <1>11, <1>0 DEF EmitDegrade, selection, checks, alerts, AlertInv
<1>12. CASE EndSweep
  BY <1>12, <1>0 DEF EndSweep, selection, checks, alerts, AlertInv
<1>13. CASE Wake
  BY <1>13, <1>0 DEF Wake, Stopped, NextSweep, selection, alerts, AlertInv
<1>14. CASE Signal
  BY <1>14, <1>0 DEF Signal, selection, checks, alerts, AlertInv
<1> QED
  BY <1>1, <1>2, <1>3, <1>5, <1>6, <1>7, <1>8, <1>9, <1>10, <1>11, <1>12, <1>13, <1>14, EmitQueues
  DEF SolvencyNext, SolvencyVars, Loop, CheckAll

\* The ratios of one sweep are those the next one is compared with.
LEMMA DropInductive == WatchType /\ DropInv /\ [SolvencyNext]_SolvencyVars => DropInv'
<1> SUFFICES ASSUME WatchType, DropInv, [SolvencyNext]_SolvencyVars PROVE DropInv'
  OBVIOUS
<1>1. CASE UNCHANGED watchVars
  <2>1. UNCHANGED <<phase, watching, routes, results, ratios, degrades, previous, dropsTold>>
    BY <1>1 DEF watchVars, selection, checks, drops
  <2>2. DropInv' <=> DropInv
    BY <2>1 DEF DropInv, Dropped
  <2> QED
    BY <2>2
<1>2. CASE Refuse
  BY <1>2 DEF Refuse, selection, drops, DropInv, WatchType
<1>3. CASE Start
  BY <1>3 DEF Start, drops, DropInv, WatchType
<1>4. ASSUME phase = "checking", phase' = "checking", UNCHANGED <<watching, ratios, degrades, previous, dropsTold>>
      PROVE  DropInv'
  BY <1>4 DEF DropInv
<1>5. ASSUME NEW r \in routes, CheckRoute(r) \/ PriceRoute(r) PROVE DropInv'
  BY <1>5, <1>4 DEF CheckRoute, Measure, PriceRoute, selection, drops
<1>6. ASSUME UNCHANGED <<phase, selection, results, drops>> PROVE DropInv'
  <2>1. UNCHANGED <<phase, watching, routes, results, ratios, degrades, previous, dropsTold>>
    BY <1>6 DEF selection, drops
  <2>2. DropInv' <=> DropInv
    BY <2>1 DEF DropInv, Dropped
  <2> QED
    BY <2>2
<1>7. ASSUME NEW f \in Feeds, FeedSettles(f) PROVE DropInv'
  BY <1>7, <1>6 DEF FeedSettles
<1>8. CASE ExitWithReport
  BY <1>8 DEF ExitWithReport, Checked, drops, selection, DropInv
<1>9. CASE Judge
  BY <1>9 DEF Judge, Checked, selection, drops, DropInv
<1>10. ASSUME NEW a \in Alerts(Routes), EmitAlert(a) PROVE DropInv'
  BY <1>10 DEF EmitAlert, selection, drops, DropInv
<1>11. CASE WebhookSettles
  <2>1. \/ phase = "posting" /\ phase' = "alerting"
        \/ phase = "postingDrop" /\ phase' = "degrading"
    BY <1>11 DEF WebhookSettles
  <2>2. UNCHANGED <<watching, routes, results, ratios, degrades, previous, dropsTold>>
    BY <1>11 DEF WebhookSettles, selection, checks, drops
  <2>3. Dropped' = Dropped
    BY <2>2 DEF Dropped
  <2> QED
    BY <2>1, <2>2, <2>3 DEF DropInv
<1>12. CASE FindDegrades
  <2>1. /\ phase = "alerting" /\ phase' = "degrading"
        /\ degrades' = IF Delta = NoDelta THEN {} ELSE computeDegrades(ratios, results)
        /\ UNCHANGED <<watching, routes, results, ratios, previous, dropsTold>>
    BY <1>12 DEF FindDegrades, selection, checks
  <2>2. computeDegrades(ratios, results) = Dropped
    BY <2>1 DEF computeDegrades, Dropped, DropInv, WatchType
  <2>3. Dropped' = Dropped
    BY <2>1 DEF Dropped
  <2> QED
    BY <2>1, <2>2, <2>3 DEF DropInv
<1>13. ASSUME NEW r \in Routes, EmitDegrade(r) PROVE DropInv'
  <2>1. /\ phase = "degrading" /\ phase' = "postingDrop" /\ r \in degrades
        /\ degrades' = degrades \ {r} /\ dropsTold' = dropsTold \cup {r}
        /\ UNCHANGED <<watching, routes, results, ratios, previous>>
    BY <1>13 DEF EmitDegrade, selection, checks
  <2>2. Dropped' = Dropped /\ dropsTold' \cup degrades' = dropsTold \cup degrades
    BY <2>1 DEF Dropped
  <2> QED
    BY <2>1, <2>2 DEF DropInv
<1>14. CASE EndSweep
  <2>1. /\ phase = "degrading" /\ phase' \in {"sleeping", "done"} /\ degrades = {}
        /\ ratios' = [r \in Routes |-> results[r].ratio]
        /\ UNCHANGED <<watching, routes, results, degrades, previous, dropsTold>>
    BY <1>14 DEF EndSweep, selection, checks
  <2>2. Dropped' = Dropped
    BY <2>1 DEF Dropped
  <2> QED
    BY <2>1, <2>2 DEF DropInv
<1>15. CASE Wake
  <2>1. phase = "sleeping" /\ UNCHANGED <<watching, routes, ratios, degrades>>
    BY <1>15 DEF Wake, selection
  <2>2. CASE Stopped
    <3>1. phase' = "done" /\ UNCHANGED <<results, previous, dropsTold>>
      BY <2>2 DEF Stopped
    <3>2. Dropped' = Dropped
      BY <2>1, <3>1 DEF Dropped
    <3> QED
      BY <2>1, <3>1, <3>2 DEF DropInv
  <2>3. CASE NextSweep
    BY <2>1, <2>3 DEF NextSweep, DropInv
  <2> QED
    BY <1>15, <2>2, <2>3 DEF Wake
<1>16. CASE Signal
  BY <1>16, <1>6 DEF Signal, checks
<1> QED
  BY <1>1, <1>2, <1>3, <1>5, <1>7, <1>8, <1>9, <1>10, <1>11, <1>12, <1>13, <1>14, <1>15, <1>16
  DEF SolvencyNext, SolvencyVars, Loop, CheckAll

\* What PriceInv says of one route.
Priced(r) ==
  /\ stage[r] = "waiting" \/ measured[r] = ErrorReading \/ \A f \in Hops[r] : feedCache[f] # Unset
  /\ stage[r] = "done" /\ measured[r] # ErrorReading =>
       Readable(Hops[r]) /\ usd[r] = priceFromHops(Hops[r])

\* A feed that settles changes no price already made: an unsettled feed was in
\* it only beside a rejected one, and that price is none.
LEMMA SettledPriceKept ==
  ASSUME NEW hops \in SUBSET Feeds, NEW g \in Feeds, FeedSettles(g), Readable(hops), DOMAIN feedCache = Feeds
  PROVE  Readable(hops)' /\ priceFromHops(hops)' = priceFromHops(hops)
<1>1. PICK answer \in Prices \cup {Rejected} : feedCache' = [feedCache EXCEPT ![g] = answer]
  BY DEF FeedSettles
<1>2. feedCache[g] = Pending /\ Pending # Rejected /\ Rejected <= 0
  BY DEF FeedSettles, Pending, Rejected
<1>3. \A f \in Feeds : f # g => feedCache'[f] = feedCache[f]
  BY <1>1
<1>4. CASE g \notin hops
  <2>1. \A f \in hops : feedCache'[f] = feedCache[f]
    BY <1>3, <1>4
  <2>2. [f \in hops |-> feedCache[f]]' = [f \in hops |-> feedCache[f]]
    BY <2>1
  <2> QED
    BY <2>1, <2>2 DEF Readable, priceFromHops
<1>5. CASE g \in hops
  <2>1. PICK f \in hops : feedCache[f] = Rejected
    BY <1>2, <1>5 DEF Readable
  <2>2. feedCache'[f] = Rejected
    BY <2>1, <1>2, <1>3
  <2> QED
    BY <2>1, <2>2, <1>2 DEF Readable, priceFromHops
<1> QED
  BY <1>4, <1>5

\* A sweep measures each route once and prices it once.
LEMMA PriceInductive == WatchType /\ PriceInv /\ [SolvencyNext]_SolvencyVars => PriceInv'
<1> SUFFICES ASSUME WatchType, PriceInv, [SolvencyNext]_SolvencyVars PROVE PriceInv'
  OBVIOUS
<1>0. ASSUME UNCHANGED <<stage, results, usd, feedCache, measured>>,
             (phase # "done")' => UNCHANGED exitCode /\ phase # "done",
             (~watching /\ phase = "done" /\ routes # {})'
               => \/ UNCHANGED <<watching, phase, routes, exitCode>>
                  \/ (exitCode' = 1 <=> Failing(results)' # {})
      PROVE  PriceInv'
  <2>1. \A r \in Routes : Readable(Hops[r])' = Readable(Hops[r]) /\ priceFromHops(Hops[r])' = priceFromHops(Hops[r])
    BY <1>0 DEF Readable, priceFromHops
  <2>2. \A r \in Routes : Priced(r)'
    BY <2>1, <1>0 DEF PriceInv, Priced
  <2> QED
    BY <2>2, <1>0 DEF PriceInv, Priced, Failing
<1>1. CASE UNCHANGED watchVars
  BY <1>1, <1>0 DEF watchVars, selection, checks
<1>2. CASE Refuse
  BY <1>2, <1>0 DEF Refuse, selection, checks, WatchType
<1>3. CASE Start
  BY <1>3, <1>0 DEF Start, checks
<1>4. ASSUME NEW r \in routes, CheckRoute(r) PROVE PriceInv'
  <2>1. PICK outcome \in Outcomes : Measure(r, outcome, readFeeds(Hops[r]))
    BY <1>4 DEF CheckRoute
  <2>2. r \in Routes /\ Hops[r] \subseteq Feeds
    BY ConstantsAssumption DEF WatchType
  <2>3. /\ phase = "checking" /\ stage[r] = "waiting" /\ UNCHANGED <<phase, exitCode, usd>>
        /\ results' = [results EXCEPT ![r] = outcome] /\ measured' = [measured EXCEPT ![r] = outcome]
        /\ results' = measured' /\ measured'[r] = outcome
        /\ \A q \in Routes : q # r => measured'[q] = measured[q] /\ stage'[q] = stage[q]
    BY <2>1, <2>2 DEF Measure, WatchType, PriceInv
  <2>4. \A f \in Feeds : feedCache[f] # Unset => feedCache'[f] = feedCache[f]
    BY <2>1 DEF Measure, readFeeds
  <2>5. DOMAIN feedCache' = Feeds
    BY <2>1 DEF Measure, readFeeds, PriceInv
  <2>6. ASSUME NEW q \in Routes, q # r PROVE Priced(q)'
    <3>1. Hops[q] \subseteq Feeds
      BY ConstantsAssumption
    <3>2. CASE \A f \in Hops[q] : feedCache[f] # Unset
      <4>1. \A f \in Hops[q] : feedCache'[f] = feedCache[f]
        BY <3>1, <3>2, <2>4
      <4>2. [f \in Hops[q] |-> feedCache[f]]' = [f \in Hops[q] |-> feedCache[f]]
        BY <4>1
      <4>3. Readable(Hops[q])' = Readable(Hops[q]) /\ priceFromHops(Hops[q])' = priceFromHops(Hops[q])
        BY <4>1, <4>2 DEF Readable, priceFromHops
      <4>4. Priced(q)
        BY DEF PriceInv, Priced
      <4>5. measured'[q] = measured[q] /\ stage'[q] = stage[q] /\ usd'[q] = usd[q]
        BY <2>3, <2>6
      <4> QED
        BY <4>1, <4>3, <4>4, <4>5, <3>2 DEF Priced
    <3>3. CASE stage[q] = "waiting" \/ measured[q] = ErrorReading
      BY <3>3, <2>3, <2>6 DEF Priced
    <3> QED
      BY <3>2, <3>3 DEF PriceInv
  <2>7. Priced(r)'
    <3>1. CASE outcome = ErrorReading
      BY <3>1, <2>3 DEF Priced
    <3>2. CASE outcome # ErrorReading
      <4>1. stage'[r] = "pricing" /\ feedCache' = readFeeds(Hops[r])
        BY <3>2, <2>1, <2>2 DEF Measure, WatchType
      <4>2. \A f \in Hops[r] : feedCache'[f] # Unset
        BY <4>1, <2>2 DEF readFeeds, Unset, Pending
      <4> QED
        BY <4>1, <4>2 DEF Priced
    <3> QED
      BY <3>1, <3>2
  <2>8. \A q \in Routes : Priced(q)'
    BY <2>6, <2>7
  <2> QED
    BY <2>3, <2>5, <2>8 DEF PriceInv, Priced
<1>5. ASSUME NEW r \in routes, PriceRoute(r) PROVE PriceInv'
  <2>1. /\ phase = "checking" /\ stage[r] = "pricing" /\ Readable(Hops[r])
        /\ usd' = [usd EXCEPT ![r] = priceFromHops(Hops[r])] /\ stage' = [stage EXCEPT ![r] = "done"]
        /\ UNCHANGED <<phase, exitCode, results, feedCache, measured>>
    BY <1>5 DEF PriceRoute
  <2>2. r \in Routes
    BY DEF WatchType
  <2>3. \A q \in Routes : Readable(Hops[q])' = Readable(Hops[q]) /\ priceFromHops(Hops[q])' = priceFromHops(Hops[q])
    BY <2>1 DEF Readable, priceFromHops
  <2>4. ASSUME NEW q \in Routes, q # r PROVE Priced(q)'
    <3>1. stage'[q] = stage[q] /\ usd'[q] = usd[q]
      BY <2>1, <2>4
    <3>2. Priced(q)
      BY DEF PriceInv, Priced
    <3> QED
      BY <3>1, <3>2, <2>1, <2>3 DEF Priced
  <2>5. Priced(r)'
    <3>1. stage'[r] = "done" /\ usd'[r] = priceFromHops(Hops[r])
      BY <2>1, <2>2 DEF WatchType, PriceInv
    <3>2. measured[r] = ErrorReading \/ \A f \in Hops[r] : feedCache[f] # Unset
      BY <2>1, <2>2 DEF PriceInv
    <3> QED
      BY <3>1, <3>2, <2>1, <2>2, <2>3 DEF Priced
  <2>6. \A q \in Routes : Priced(q)'
    BY <2>4, <2>5
  <2> QED
    BY <2>1, <2>6 DEF PriceInv, Priced
<1>6. ASSUME NEW g \in Feeds, FeedSettles(g) PROVE PriceInv'
  <2>1. UNCHANGED <<phase, exitCode, watching, routes, stage, results, usd, measured>>
    BY <1>6 DEF FeedSettles, selection
  <2>2. PICK answer \in Prices \cup {Rejected} : feedCache' = [feedCache EXCEPT ![g] = answer]
    BY <1>6 DEF FeedSettles
  <2>3. answer # Unset
    BY <2>2, ConstantsAssumption DEF Rejected, Unset
  <2>4. \A f \in Feeds : feedCache[f] # Unset => feedCache'[f] # Unset
    BY <2>2, <2>3
  <2>5. ASSUME NEW q \in Routes PROVE Priced(q)'
    <3>1. Hops[q] \in SUBSET Feeds /\ Priced(q)
      BY ConstantsAssumption DEF PriceInv, Priced
    <3>2. Readable(Hops[q]) => Readable(Hops[q])' /\ priceFromHops(Hops[q])' = priceFromHops(Hops[q])
      BY <3>1, <1>6, SettledPriceKept DEF PriceInv
    <3> QED
      BY <3>1, <3>2, <2>1, <2>4 DEF Priced
  <2> QED
    BY <2>1, <2>2, <2>5 DEF PriceInv, Priced, Failing
<1>7. CASE ExitWithReport
  <2>1. Failing(results)' = Failing(results) /\ phase # "done"
    BY <1>7 DEF ExitWithReport, selection, checks, Failing, Checked
  <2> QED
    BY <2>1, <1>7, <1>0 DEF ExitWithReport, checks
<1>8. CASE Judge
  BY <1>8, <1>0 DEF Judge, Checked, selection, checks
<1>9. ASSUME NEW a \in Alerts(Routes), EmitAlert(a) PROVE PriceInv'
  BY <1>9, <1>0 DEF EmitAlert, selection, checks
<1>10. CASE WebhookSettles
  BY <1>10, <1>0 DEF WebhookSettles, selection, checks
<1>11. CASE FindDegrades
  BY <1>11, <1>0 DEF FindDegrades, selection, checks
<1>12. ASSUME NEW r \in Routes, EmitDegrade(r) PROVE PriceInv'
  BY <1>12, <1>0 DEF EmitDegrade, selection, checks
<1>13. CASE EndSweep
  BY <1>13, <1>0 DEF EndSweep, selection, checks, WatchType
<1>14. CASE Wake
  <2>1. phase = "sleeping" /\ watching /\ UNCHANGED <<watching, routes, feedCache>>
    BY <1>14 DEF Wake, selection, WatchType
  <2>2. CASE Stopped
    BY <2>1, <2>2, <1>0 DEF Stopped
  <2>3. CASE NextSweep
    <3>1. phase' = "checking" /\ exitCode' = exitCode /\ results' = measured' /\ DOMAIN usd' = Routes
      BY <2>3 DEF NextSweep
    <3>2. \A r \in Routes : stage'[r] = "waiting"
      BY <2>3 DEF NextSweep
    <3>3. \A r \in Routes : Priced(r)'
      BY <3>2 DEF Priced
    <3> QED
      BY <2>1, <3>1, <3>3 DEF PriceInv, Priced
  <2> QED
    BY <1>14, <2>2, <2>3 DEF Wake
<1>15. CASE Signal
  BY <1>15, <1>0 DEF Signal, selection, checks
<1> QED
  BY <1>1, <1>2, <1>3, <1>4, <1>5, <1>6, <1>7, <1>8, <1>9, <1>10, <1>11, <1>12, <1>13, <1>14, <1>15
  DEF SolvencyNext, SolvencyVars, Loop, CheckAll

\* So the strengthening is an invariant of the command.
LEMMA WatchInvariance == SolvencySpec => []WatchInv
<1>1. SolvencyInit => WatchInv
  BY InitWatch DEF SolvencyInit
<1>2. WatchInv /\ [SolvencyNext]_SolvencyVars => WatchInv'
  BY WatchTypeInductive, AlertInductive, DropInductive, PriceInductive DEF WatchInv
<1> QED
  BY <1>1, <1>2, PTL DEF SolvencySpec
-----------------------------------------------------------------------------
(***************************************************************************)
(* For any routes, readings, thresholds and signals: when a sweep is over, *)
(* the last alert of a route says whether it fails, none repeats the one   *)
(* before, and the drops told are exactly those since the sweep before     *)
(* (solvency.ts:125-148).                                                  *)
(***************************************************************************)
THEOREM ReaderKnowsAtRest == SolvencySpec => []ToldAtRest
<1>1. WatchInv => ToldAtRest
  <2> SUFFICES ASSUME WatchInv, watching, phase \in {"sleeping", "done"}
               PROVE  /\ \A r \in routes :
                           /\ isRouteFailing(results[r], MinRatio) <=> lastTold[r] = "breach"
                           /\ lastTold[r] # "none" => lastTold[r] # prevTold[r]
                      /\ Delta # NoDelta => dropsTold = {r \in routes : Fell(previous[r].ratio, results[r].ratio)}
    BY DEF ToldAtRest, AtRest
  <2>1. queue = {} /\ state = Failing(results) /\ degrades = {}
    BY DEF WatchInv, AlertInv, DropInv
  <2>2. ASSUME NEW r \in routes
        PROVE  /\ isRouteFailing(results[r], MinRatio) <=> lastTold[r] = "breach"
               /\ lastTold[r] # "none" => lastTold[r] # prevTold[r]
    <3>1. r \in Routes
      BY DEF WatchInv, WatchType
    <3>2. r \in state <=> lastTold[r] = "breach"
      BY <2>1, <3>1 DEF WatchInv, AlertInv
    <3>3. r \in state <=> isRouteFailing(results[r], MinRatio)
      BY <2>1 DEF Failing
    <3> QED
      BY <3>1, <3>2, <3>3 DEF WatchInv, AlertInv
  <2>3. Delta # NoDelta => dropsTold = Dropped
    BY <2>1 DEF WatchInv, DropInv
  <2> QED
    BY <2>2, <2>3 DEF Dropped
<1> QED
  BY <1>1, WatchInvariance, PTL

(***************************************************************************)
(* For any feeds, answers and hops: no price and no failure to price       *)
(* changes a verdict or the exit code, and two routes priced through the   *)
(* same feeds show the same price (solvency.ts:315-316, 356, 87-89).       *)
(***************************************************************************)
THEOREM PricesNeverJudge == SolvencySpec => []PricesStayAside
<1>1. WatchInv => PricesStayAside
  <2> SUFFICES ASSUME WatchInv PROVE PricesStayAside
    OBVIOUS
  <2>1. results = measured /\ routes \subseteq Routes
    BY DEF WatchInv, WatchType, PriceInv
  <2>2. ASSUME ~watching, exitCode # -1, routes # {}
        PROVE  exitCode = 1 <=> \E r \in routes : isRouteFailing(measured[r], MinRatio)
    BY <2>1, <2>2 DEF WatchInv, PriceInv, Failing
  <2>3. ASSUME NEW r \in routes, NEW s \in routes, stage[r] = "done", stage[s] = "done", Hops[r] = Hops[s],
               ErrorReading \notin {measured[r], measured[s]}
        PROVE  usd[r] = usd[s]
    BY <2>1, <2>3 DEF WatchInv, PriceInv
  <2> QED
    BY <2>1, <2>2, <2>3 DEF PricesStayAside
<1> QED
  BY <1>1, WatchInvariance, PTL
-----------------------------------------------------------------------------
(***************************************************************************)
(* The loop implements AlertLedger: Judge observes, EmitAlert tells, and   *)
(* no other step is seen.                                                  *)
(***************************************************************************)
THEOREM LoopImplementsLedger == SolvencySpec => ImplementsAlertLedger
<1>1. SolvencyInit => Ledger!Init
  BY DEF SolvencyInit, WatchInit, Ledger!Init
<1>2. ASSUME WatchInv, [SolvencyNext]_SolvencyVars
      PROVE  [Ledger!Next]_(Ledger!vars)
  <2>0. WatchType /\ AlertInv
    BY <1>2 DEF WatchInv
  <2>1. ASSUME UNCHANGED <<state, lastTold, prevTold>> PROVE UNCHANGED Ledger!vars
    BY <2>1 DEF Ledger!vars
  <2>2. CASE Judge
    <3>1. UNCHANGED <<lastTold, prevTold>> /\ state' \subseteq Routes /\ queue = {}
      BY <2>2, <2>0 DEF Judge, Checked, Failing, WatchType, AlertInv
    <3>2. \A r \in Routes : Ledger!UpToDate(r)
      BY <3>1, <2>0 DEF Ledger!UpToDate, AlertInv
    <3>3. Ledger!Observe
      BY <3>1, <3>2 DEF Ledger!Observe
    <3> QED
      BY <3>3 DEF Ledger!Next
  <2>3. ASSUME NEW a \in Alerts(Routes), EmitAlert(a) PROVE Ledger!Next
    <3>1. PICK p \in Routes, k \in Kinds : a = [id |-> p, kind |-> k]
      BY DEF Alerts
    <3>2. a.id = p /\ a.kind = k
      BY <3>1
    <3>3. /\ a \in queue /\ UNCHANGED state
          /\ lastTold' = [lastTold EXCEPT ![p] = k] /\ prevTold' = [prevTold EXCEPT ![p] = lastTold[p]]
      BY <2>3, <3>2 DEF EmitAlert
    <3>4. ~Ledger!UpToDate(p) /\ k = IF p \in state THEN "breach" ELSE "recovery"
      BY <3>1, <3>3, <2>0 DEF Ledger!UpToDate, AlertInv, Kinds
    <3>5. Ledger!Tell(p)
      BY <3>3, <3>4 DEF Ledger!Tell
    <3> QED
      BY <3>5 DEF Ledger!Next
  <2>4. CASE ~Judge /\ ~\E a \in Alerts(Routes) : EmitAlert(a)
    <3>1. UNCHANGED <<state, lastTold, prevTold>>
      BY <1>2, <2>4
      DEF SolvencyNext, SolvencyVars, watchVars, alerts, Loop, CheckAll, Refuse, Start, CheckRoute, Measure,
          PriceRoute, FeedSettles, ExitWithReport, WebhookSettles, FindDegrades, EmitDegrade, EndSweep, Wake, Signal
    <3> QED
      BY <3>1, <2>1
  <2> QED
    BY <2>2, <2>3, <2>4
<1> QED
  BY <1>1, <1>2, WatchInvariance, PTL DEF SolvencySpec, ImplementsAlertLedger, Ledger!Spec
-----------------------------------------------------------------------------
(***************************************************************************)
(* Behind the options the search is the one proved above: the command      *)
(* steps it only as Bisect does, so what is reported as the onset is one,  *)
(* whatever else the command can do (solvency.ts:444-455).                 *)
(***************************************************************************)
THEOREM CommandSearches == SolvencySpec => Spec /\ []LocatedIsOnset /\ []ExitZeroMeansBacked
<1>1. SolvencyInit => Init
  BY DEF SolvencyInit
<1>2. [SolvencyNext]_SolvencyVars => [Next]_vars
  BY DEF SolvencyNext, SolvencyVars, Search
<1>3. SolvencySpec => Spec
  BY <1>1, <1>2, PTL DEF SolvencySpec, Spec
<1> QED
  BY <1>3, LocatedBreachIsOnset, ExitZeroIsBacked, PTL
=============================================================================
