---------------------------- MODULE SolvencyWatch ----------------------------
(***************************************************************************)
(* solvency <routes> [--watch], of commands/solvency.ts.  One process      *)
(* checks its routes, each on its own: measure it, then price it.  Without *)
(* --watch it reports and exits.  With it, it alerts on every change of    *)
(* status and, with --delta, on every sudden drop, sleeps, and starts      *)
(* again until it is signalled.  Nothing is persisted: a restart is a new  *)
(* behaviour.                                                              *)
(*                                                                         *)
(* The loop gives the thread up while it awaits the readings, a webhook or *)
(* the timer; a signal handler runs only then.                             *)
(***************************************************************************)
EXTENDS SolvencyCore

CONSTANTS
  Routes,      \* the routes there are
  Outcomes,    \* what the measurement of a route may come to, a throw included
  MinRatio,    \* --min-ratio
  Delta,       \* --delta, or NoDelta
  Feeds,       \* the price feeds
  Hops,        \* route -> the feeds its asset is priced through ({}: none)
  Prices       \* what a feed may answer; 0 for an answer that is not positive

NoDelta == -1
NoReading == [verdict |-> "NONE", ratio |-> NoRatio]

\* An entry of feedCache: nothing, a promise, a rejected one, or an answer.
Unset == -1
Pending == -2
Rejected == -3
NoPrice == [f \in {} |-> 0]

ASSUME ConstantsAssumption ==
  /\ Outcomes \subseteq Readings
  /\ Outcomes # {}
  /\ MinRatio \in Nat
  /\ Delta \in Nat \cup {NoDelta}
  /\ Hops \in [Routes -> SUBSET Feeds]
  /\ Prices \subseteq Nat

VARIABLES
  phase,       \* where the process is
  watching,    \* --watch
  routes,      \* the routes selected
  stop,        \* set by the signal handler
  exitCode,    \* process.exitCode, or -1 while it runs
  stage,       \* route -> how far its check is
  results,     \* route -> its reading in this sweep
  usd,         \* route -> the answers its price is made of, NoPrice without one
  feedCache,   \* feed -> what readFeed keeps of it, as long as the process lives
  state,       \* the routes the map state takes to true
  ratios,      \* route -> the ratio of its previous reading (absent and null alike)
  queue,       \* transitions computed and not yet emitted
  degrades,    \* drops computed and not yet emitted
  \* history, not in the code
  measured,    \* route -> what its measurement came to in this sweep
  previous,    \* route -> its reading in the sweep before
  lastTold,    \* route -> the last alert emitted
  prevTold,    \* route -> the alert before that
  dropsTold    \* the routes whose drop this sweep was emitted

selection == <<watching, routes>>
checks == <<stage, results, usd, feedCache, measured>>
alerts == <<state, queue, lastTold, prevTold>>
drops == <<ratios, degrades, previous, dropsTold>>
watchVars == <<phase, stop, exitCode, selection, checks, alerts, drops>>

WatchInit ==
  /\ phase = "start" /\ stop = FALSE /\ exitCode = -1
  /\ watching = FALSE /\ routes = {}
  /\ stage = [r \in Routes |-> "waiting"]
  /\ results = [r \in Routes |-> NoReading]
  /\ usd = [r \in Routes |-> NoPrice]
  /\ feedCache = [f \in Feeds |-> Unset]
  /\ state = {} /\ queue = {} /\ degrades = {}
  /\ ratios = [r \in Routes |-> NoRatio]
  /\ measured = results /\ previous = results
  /\ lastTold = [r \in Routes |-> "none"]
  /\ prevTold = lastTold
  /\ dropsTold = {}

\* SIGINT, SIGTERM: the handler that watch installs only raises the flag.
Signal ==
  /\ watching
  /\ phase \in {"checking", "posting", "postingDrop", "sleeping"}
  /\ stop' = TRUE
  /\ UNCHANGED <<phase, exitCode, selection, checks, alerts, drops>>
-----------------------------------------------------------------------------
(***************************************************************************)
(* checkAll: every route on its own, up to five at a time (module          *)
(* WorkerPool), measured (module CrossChainRead), then priced.             *)
(***************************************************************************)
Measure(r, outcome, cached) ==
  /\ phase = "checking" /\ stage[r] = "waiting"
  /\ results' = [results EXCEPT ![r] = outcome]
  /\ measured' = [measured EXCEPT ![r] = outcome]
  /\ IF outcome = ErrorReading THEN stage' = [stage EXCEPT ![r] = "done"] /\ UNCHANGED feedCache
     ELSE stage' = [stage EXCEPT ![r] = "pricing"] /\ feedCache' = cached
  /\ UNCHANGED <<phase, stop, exitCode, selection, usd, alerts, drops>>

\* readFeed: the promise is kept before it settles, and once it has, whatever
\* it settled as.
readFeeds(hops) == [f \in Feeds |-> IF f \in hops /\ feedCache[f] = Unset THEN Pending ELSE feedCache[f]]

\* A read that throws makes an ERROR of the route, and it is not priced.
CheckRoute(r) == \E outcome \in Outcomes : Measure(r, outcome, readFeeds(Hops[r]))

FeedSettles(f) ==
  /\ feedCache[f] = Pending
  /\ \E answer \in Prices \cup {Rejected} : feedCache' = [feedCache EXCEPT ![f] = answer]
  /\ UNCHANGED <<phase, stop, exitCode, selection, stage, results, usd, measured, alerts, drops>>

\* priceFromHops: no price without a hop, or with one that is not positive.
priceFromHops(hops) ==
  IF hops = {} \/ \E f \in hops : feedCache[f] <= 0 THEN NoPrice ELSE [f \in hops |-> feedCache[f]]

\* Promise.all: all hops have answered, or one of them was rejected.
Readable(hops) ==
  \/ \A f \in hops : feedCache[f] # Pending
  \/ \E f \in hops : feedCache[f] = Rejected

\* Mutant: a feed that cannot be read fails the check of the route.
PriceRouteThrows(r) ==
  /\ phase = "checking" /\ stage[r] = "pricing" /\ Readable(Hops[r])
  /\ usd' = [usd EXCEPT ![r] = priceFromHops(Hops[r])]
  /\ results' = [results EXCEPT ![r] = IF \E f \in Hops[r] : feedCache[f] = Rejected THEN ErrorReading ELSE @]
  /\ stage' = [stage EXCEPT ![r] = "done"]
  /\ UNCHANGED <<phase, stop, exitCode, selection, feedCache, measured, alerts, drops>>

PriceRoute(r) ==
  /\ phase = "checking" /\ stage[r] = "pricing" /\ Readable(Hops[r])
  /\ usd' = [usd EXCEPT ![r] = priceFromHops(Hops[r])]
  /\ stage' = [stage EXCEPT ![r] = "done"]
  /\ UNCHANGED <<phase, stop, exitCode, selection, results, feedCache, measured, alerts, drops>>

Checked == phase = "checking" /\ \A r \in routes : stage[r] = "done"
Failing(readings) == {r \in routes : isRouteFailing(readings[r], MinRatio)}

\* Without --watch: the report, and the exit code.
ExitWithReport ==
  /\ Checked /\ ~watching
  /\ phase' = "done"
  /\ exitCode' = IF Failing(results) # {} THEN 1 ELSE 0
  /\ UNCHANGED <<stop, selection, checks, alerts, drops>>
-----------------------------------------------------------------------------
(***************************************************************************)
(* The loop of watch.                                                      *)
(***************************************************************************)
\* Mutant: the map only learns of breaches.
JudgeKeepsBreaches ==
  /\ Checked /\ watching
  /\ queue' = computeTransitions(state, routes, Failing(results))
  /\ state' = state \cup Failing(results)
  /\ phase' = "alerting"
  /\ UNCHANGED <<stop, exitCode, selection, checks, lastTold, prevTold, drops>>

\* Every route has its reading.  The transitions are computed and the map is
\* updated before anything is sent.
Judge ==
  /\ Checked /\ watching
  /\ queue' = computeTransitions(state, routes, Failing(results))
  /\ state' = Failing(results)
  /\ phase' = "alerting"
  /\ UNCHANGED <<stop, exitCode, selection, checks, lastTold, prevTold, drops>>

\* emitAlert prints, then awaits the webhook.
EmitAlert(a) ==
  /\ phase = "alerting"
  /\ a \in queue
  /\ queue' = queue \ {a}
  /\ lastTold' = [lastTold EXCEPT ![a.id] = a.kind]
  /\ prevTold' = [prevTold EXCEPT ![a.id] = lastTold[a.id]]
  /\ phase' = "posting"
  /\ UNCHANGED <<stop, exitCode, selection, checks, state, drops>>

\* Mutant: a stopping loop leaves the rest of its alerts.
WebhookSettlesStops ==
  /\ phase \in {"posting", "postingDrop"}
  /\ phase' = IF stop THEN "done" ELSE IF phase = "posting" THEN "alerting" ELSE "degrading"
  /\ exitCode' = IF stop THEN 0 ELSE exitCode
  /\ UNCHANGED <<stop, selection, checks, alerts, drops>>

\* postWebhook swallows a refused or timed-out POST: the loop goes on either way.
WebhookSettles ==
  /\ phase \in {"posting", "postingDrop"}
  /\ phase' = IF phase = "posting" THEN "alerting" ELSE "degrading"
  /\ UNCHANGED <<stop, exitCode, selection, checks, alerts, drops>>

\* A ratio fell by at least Delta, both ends being known.
Fell(from, to) == from # NoRatio /\ to # NoRatio /\ from - to >= Delta

computeDegrades(prev, current) == {r \in routes : Fell(prev[r], current[r].ratio)}

\* All transitions are out: the drops are computed against the previous ratios.
FindDegrades ==
  /\ phase = "alerting"
  /\ queue = {}
  /\ degrades' = IF Delta = NoDelta THEN {} ELSE computeDegrades(ratios, results)
  /\ phase' = "degrading"
  /\ UNCHANGED <<stop, exitCode, selection, checks, alerts, ratios, previous, dropsTold>>

EmitDegrade(r) ==
  /\ phase = "degrading"
  /\ r \in degrades
  /\ degrades' = degrades \ {r}
  /\ dropsTold' = dropsTold \cup {r}
  /\ phase' = "postingDrop"
  /\ UNCHANGED <<stop, exitCode, selection, checks, alerts, ratios, previous>>

\* The ratios are remembered, null ones too, and the loop rests or ends.
EndSweep ==
  /\ phase = "degrading"
  /\ degrades = {}
  /\ ratios' = [r \in Routes |-> results[r].ratio]
  /\ IF stop THEN phase' = "done" /\ exitCode' = 0 ELSE phase' = "sleeping" /\ UNCHANGED exitCode
  /\ UNCHANGED <<stop, selection, checks, alerts, degrades, previous, dropsTold>>

NextSweep ==
  /\ phase' = "checking" /\ UNCHANGED exitCode
  /\ stage' = [r \in Routes |-> "waiting"]
  /\ results' = [r \in Routes |-> NoReading] /\ measured' = results'
  /\ usd' = [r \in Routes |-> NoPrice]
  /\ previous' = results
  /\ dropsTold' = {}

Stopped ==
  /\ phase' = "done" /\ exitCode' = 0
  /\ UNCHANGED <<stage, results, measured, usd, previous, dropsTold>>

\* Mutant: every round starts with the flag down.
WakeResets ==
  /\ phase = "sleeping"
  /\ stop' = FALSE
  /\ NextSweep
  /\ UNCHANGED <<selection, feedCache, alerts, ratios, degrades>>

\* sleepInterruptible ends, early if the flag is up and at once if the
\* interval is not a number, and the loop tests the flag.
Wake ==
  /\ phase = "sleeping"
  /\ IF stop THEN Stopped ELSE NextSweep
  /\ UNCHANGED <<stop, selection, feedCache, alerts, ratios, degrades>>

CheckAll ==
  \/ \E r \in routes : CheckRoute(r) \/ PriceRoute(r)
  \/ \E f \in Feeds : FeedSettles(f)

Loop ==
  \/ CheckAll
  \/ ExitWithReport
  \/ Judge
  \/ \E a \in Alerts(Routes) : EmitAlert(a)
  \/ WebhookSettles
  \/ FindDegrades
  \/ \E r \in Routes : EmitDegrade(r)
  \/ EndSweep
  \/ Wake
-----------------------------------------------------------------------------
AtRest == watching /\ phase \in {"sleeping", "done"}

(***************************************************************************)
(* Whoever reads the output of a sweep that is over, even of the last one  *)
(* before a stop, knows which routes fail (the last alert of a failing     *)
(* route is a breach, that of a route that recovered a recovery, and none  *)
(* repeats) and, with --delta, of exactly the drops between its readings   *)
(* and those of the sweep before (solvency.ts:125-148).                    *)
(***************************************************************************)
ToldAtRest ==
  AtRest =>
    /\ \A r \in routes :
         /\ isRouteFailing(results[r], MinRatio) <=> lastTold[r] = "breach"
         /\ lastTold[r] # "none" => lastTold[r] # prevTold[r]
    /\ Delta # NoDelta => dropsTold = {r \in routes : Fell(previous[r].ratio, results[r].ratio)}

(***************************************************************************)
(* Prices stay beside the verdict: whatever the feeds answer, and whenever *)
(* they do, a route is reported as it was measured, the exit code is 1     *)
(* exactly if one of them fails, and two routes that go through the same   *)
(* feeds in one sweep show the same price or none (solvency.ts:315-316,    *)
(* 356, 87-89).                                                            *)
(***************************************************************************)
PricesStayAside ==
  /\ phase # "checking" => \A r \in routes : results[r] = measured[r]
  /\ ~watching /\ exitCode # -1 /\ routes # {} =>
       (exitCode = 1 <=> \E r \in routes : isRouteFailing(measured[r], MinRatio))
  /\ \A r, s \in routes :
       stage[r] = "done" /\ stage[s] = "done" /\ Hops[r] = Hops[s] =>
         usd[r] = usd[s] \/ ErrorReading \in {measured[r], measured[s]}

\* The loop implements the ledger of alerts: each change of status is told
\* once, and no new reading is judged while one is untold.
Ledger == INSTANCE AlertLedger WITH known <- state
ImplementsAlertLedger == Ledger!Spec

\* A signal, whenever it comes, ends the process.
StopsOnSignal == stop ~> phase = "done"
=============================================================================
