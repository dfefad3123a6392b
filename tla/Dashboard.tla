------------------------------ MODULE Dashboard ------------------------------
(***************************************************************************)
(* One browser tab on the dashboard (serve/ui.ts) and the part of the      *)
(* server it talks to: the SSE hub and the reads of serve/server.ts, over  *)
(* sweeps told by their number (module Watchtower has their inside).       *)
(*                                                                         *)
(* Frames of the event stream come in order until it breaks.  The answers  *)
(* to GET requests come in any order, among themselves and among the       *)
(* frames, and two requests awaited together may be answered with a sweep  *)
(* between them.  The browser's EventSource reconnects by itself.          *)
(*                                                                         *)
(* Left out: the layout, and the views that keep nothing in the tab's      *)
(* memory of status and alerts (watches, exposure, a route's history).     *)
(***************************************************************************)
EXTENDS Integers, Sequences

CONSTANTS
  AlertsLimit,   \* GET /api/alerts answers with so many alerts at most (50 in the code)
  MaxSweeps,     \* bound: the sweeps there are
  MaxFaults      \* bound: streams broken after they were accepted, lost requests, restarts

\* The ring in memory holds 200 alerts, so it has all that a request asks for.
ASSUME DashboardAssumption ==
  AlertsLimit \in Nat \ {0} /\ MaxSweeps \in Nat /\ MaxFaults \in Nat

Null   == 0                   \* no snapshot yet
Unanswered == -1

VARIABLES
  \* the server
  sweepNo,     \* the sweep under way, or the last one
  posting,     \* an alert is out and the sweep awaits its webhook
  snap,        \* Monitor.last: the sweep it is of, or Null
  log,         \* how many alerts are stored; they are numbered from 1
  channel,     \* the frames written to this client and not yet read
  \* the tab
  page,        \* loading, or live once the three first answers are in
  status,      \* S.status
  alerts,      \* S.alerts, newest first
  stream,      \* the EventSource
  failures,    \* its onerror calls since the last onopen
  gets,        \* GET requests under way
  \* history, not in the code
  faults,      \* faults so far
  quiet,       \* nothing was broadcast between the server's accept and onopen
  caughtUp,    \* the stream's refresh arrived, and nothing was broadcast meanwhile
  newest       \* the newest snapshot the tab ever took over

server   == <<sweepNo, posting, snap, log>>
tab      == <<page, status, alerts, newest>>
dashVars == <<server, channel, tab, stream, failures, gets, faults, quiet, caughtUp>>

Streams == {"none", "connecting", "accepted", "open", "polling"}
Request(kind, n) == [kind |-> kind, n |-> n, status |-> Unanswered,
                     alerts |-> IF kind = "poll" THEN 0 ELSE Unanswered, clean |-> TRUE]
\* Tells the refreshes under way apart.
Unused == CHOOSE n \in 0 .. MaxFaults :
            (\A g \in gets : g.n # n) /\ (\A m \in 0 .. n - 1 : \E g \in gets : g.n = m)
Answered(g) == g.status # Unanswered /\ g.alerts # Unanswered

\* The latest k of n alerts, newest first.
Latest(n, k) == [i \in 1 .. k |-> n + 1 - i]

\* Mutant: the first of them are answered, not the last (slice(0, limit)).
NewestFromStart(n) == LET k == IF n < AlertsLimit THEN n ELSE AlertsLimit IN Latest(k, k)

\* store.alerts(limit) when n are stored.  The page sends no limit of its own.
Newest(n) == Latest(n, IF n < AlertsLimit THEN n ELSE AlertsLimit)

DashInit ==
  /\ sweepNo = 0 /\ posting = FALSE /\ snap = Null /\ log = 0 /\ channel = <<>>
  /\ page = "loading" /\ status = Null /\ alerts = <<>>
  /\ stream = "none" /\ failures = 0
  /\ gets = {Request("load", 0)}
  /\ faults = 0 /\ quiet = TRUE /\ caughtUp = FALSE
  /\ newest = Null

Fault == faults < MaxFaults /\ faults' = faults + 1
-----------------------------------------------------------------------------
(***************************************************************************)
(* The stream breaks, as the tab sees it.                                  *)
(***************************************************************************)
\* Mutant: the third failure closes the stream and nothing takes its place.
onerrorToNothing ==
  /\ failures' = failures + 1
  /\ stream' = IF failures' >= 3 THEN "none" ELSE "connecting"
  /\ channel' = <<>>
  /\ quiet' = TRUE /\ caughtUp' = FALSE

\* es.onerror: EventSource tries again; the third failure in a row closes it
\* for good and starts setInterval(pollStatus, 60000).
onerror ==
  /\ failures' = failures + 1
  /\ stream' = IF failures' >= 3 THEN "polling" ELSE "connecting"
  /\ channel' = <<>>
  /\ quiet' = TRUE /\ caughtUp' = FALSE

StreamBreaks ==
  /\ \/ stream = "connecting" /\ UNCHANGED faults
     \/ stream \in {"accepted", "open"} /\ Fault
  /\ onerror
  /\ UNCHANGED <<server, tab, gets>>
-----------------------------------------------------------------------------
(***************************************************************************)
(* The server.                                                             *)
(***************************************************************************)
\* SseHub.broadcast: to the clients there are, or to nobody.
broadcast(event, data) ==
  /\ channel' = IF stream \in {"accepted", "open"} THEN Append(channel, <<event, data>>) ELSE channel
  /\ gets' = {[g EXCEPT !.clean = FALSE] : g \in gets}
  /\ quiet' = (stream # "accepted")

BeginSweep == sweepNo < MaxSweeps /\ ~posting /\ sweepNo' = sweepNo + 1

SweepAlerts ==
  /\ BeginSweep
  /\ log' = log + 1 /\ posting' = TRUE
  /\ broadcast("alert", log')
  /\ UNCHANGED <<snap, tab, stream, failures, faults, caughtUp>>

\* The snapshot is kept and broadcast in one go.
SweepPublishes ==
  /\ \/ posting /\ sweepNo' = sweepNo
     \/ BeginSweep
  /\ posting' = FALSE
  /\ snap' = sweepNo'
  /\ broadcast("status", snap')
  /\ UNCHANGED <<log, tab, stream, failures, faults, caughtUp>>

\* What the process knew is gone, but for the alerts; requests it had are refused.
Restart ==
  /\ Fault /\ sweepNo < MaxSweeps
  /\ posting' = FALSE /\ snap' = Null
  /\ gets' = {g \in gets : Answered(g)}
  /\ IF stream \in {"accepted", "open"} THEN onerror
     ELSE UNCHANGED <<channel, stream, failures, quiet, caughtUp>>
  /\ UNCHANGED <<sweepNo, log, tab>>

\* GET /api/status and GET /api/alerts.  The alerts answered with are told by
\* how many there were: they are Newest(g.alerts).
AnswerStatus(g) ==
  /\ g.status = Unanswered
  /\ gets' = (gets \ {g}) \cup {[g EXCEPT !.status = snap]}
  /\ UNCHANGED <<server, channel, tab, stream, failures, faults, quiet, caughtUp>>

AnswerAlerts(g) ==
  /\ g.alerts = Unanswered
  /\ gets' = (gets \ {g}) \cup {[g EXCEPT !.alerts = log]}
  /\ UNCHANGED <<server, channel, tab, stream, failures, faults, quiet, caughtUp>>

\* GET /api/stream: SseHub.add greets the client with the snapshot, if there is one.
Accept ==
  /\ stream = "connecting"
  /\ stream' = "accepted"
  /\ channel' = IF snap = Null THEN <<>> ELSE <<<<"status", snap>>>>
  /\ UNCHANGED <<server, tab, failures, gets, faults, quiet, caughtUp>>
-----------------------------------------------------------------------------
(***************************************************************************)
(* The tab.                                                                *)
(***************************************************************************)
\* A status without generatedAt, "pending", is not taken.
Take(newStatus) ==
  /\ status' = IF newStatus = Null THEN status ELSE newStatus
  /\ newest' = IF newStatus > newest THEN newStatus ELSE newest

\* The stream is opened only after the first answers are in.
LoadArrives(g) ==
  /\ g.kind = "load" /\ Answered(g)
  /\ Take(g.status) /\ alerts' = Newest(g.alerts)
  /\ page' = "live" /\ stream' = "connecting"
  /\ gets' = gets \ {g}
  /\ UNCHANGED <<server, channel, failures, faults, quiet, caughtUp>>

\* es.onopen
Open ==
  /\ stream = "accepted"
  /\ stream' = "open" /\ failures' = 0
  /\ gets' = gets \cup {[Request("refresh", Unused) EXCEPT !.clean = quiet]}
  /\ quiet' = TRUE
  /\ UNCHANGED <<server, channel, tab, faults, caughtUp>>

RefreshArrives(g) ==
  /\ g.kind = "refresh" /\ Answered(g)
  /\ Take(g.status) /\ alerts' = Newest(g.alerts)
  /\ gets' = gets \ {g}
  /\ caughtUp' = (stream = "open" /\ g.clean)
  /\ UNCHANGED <<server, channel, page, stream, failures, faults, quiet>>

\* Mutant: an alert is put at the end of the list.
AlertArrivesLast ==
  /\ stream = "open" /\ channel # <<>> /\ Head(channel)[1] = "alert"
  /\ alerts' = Append(alerts, Head(channel)[2])
  /\ channel' = Tail(channel)
  /\ UNCHANGED <<server, page, status, newest, stream, failures, gets, faults, quiet, caughtUp>>

AlertArrives ==
  /\ stream = "open" /\ channel # <<>> /\ Head(channel)[1] = "alert"
  /\ alerts' = <<Head(channel)[2]>> \o alerts
  /\ channel' = Tail(channel)
  /\ UNCHANGED <<server, page, status, newest, stream, failures, gets, faults, quiet, caughtUp>>

StatusArrives ==
  /\ stream = "open" /\ channel # <<>> /\ Head(channel)[1] = "status"
  /\ Take(Head(channel)[2])
  /\ channel' = Tail(channel)
  /\ UNCHANGED <<server, page, alerts, stream, failures, gets, faults, quiet, caughtUp>>

\* The interval; one unanswered poll at a time is a bound of the model.
PollStatus ==
  /\ stream = "polling"
  /\ \A g \in gets : g.kind # "poll"
  /\ gets' = gets \cup {Request("poll", 0)}
  /\ UNCHANGED <<server, channel, tab, stream, failures, faults, quiet, caughtUp>>

PollArrives(g) ==
  /\ g.kind = "poll" /\ Answered(g)
  /\ Take(g.status)
  /\ gets' = gets \ {g}
  /\ UNCHANGED <<server, channel, page, alerts, stream, failures, faults, quiet, caughtUp>>

\* fetch rejects: nobody catches it, and nothing is taken over.
GetFails(g) ==
  /\ Fault
  /\ ~Answered(g)
  /\ gets' = gets \ {g}
  /\ UNCHANGED <<server, channel, tab, stream, failures, quiet, caughtUp>>
-----------------------------------------------------------------------------
Answers  == \E g \in gets : AnswerStatus(g) \/ AnswerAlerts(g)
Arrivals == \E g \in gets : LoadArrives(g) \/ RefreshArrives(g) \/ PollArrives(g)
Frames   == AlertArrives \/ StatusArrives
Connects == Accept \/ Open

DashNext ==
  \/ SweepAlerts \/ SweepPublishes \/ Restart
  \/ Answers \/ Arrivals \/ Frames \/ Connects
  \/ StreamBreaks \/ PollStatus
  \/ \E g \in gets : GetFails(g)

(***************************************************************************)
(* Fairness: requests are answered and answers arrive (their failure is a  *)
(* fault of its own), a broken stream is tried again, the poll timer runs, *)
(* a process sweeps when it comes up (Monitor.start) and ends its sweeps.  *)
(***************************************************************************)
DashSpec ==
  /\ DashInit /\ [][DashNext]_dashVars
  /\ WF_dashVars(Answers) /\ WF_dashVars(Arrivals)
  /\ WF_dashVars(Frames) /\ WF_dashVars(Connects) /\ WF_dashVars(PollStatus)
  /\ WF_dashVars((snap = Null \/ posting) /\ SweepPublishes)
-----------------------------------------------------------------------------
(***************************************************************************)
(* A tab whose stream has been refreshed without a broadcast in between,   *)
(* and that has read its frames, shows the server's snapshot and the       *)
(* latest of its alerts, newest first, none missing between them and none  *)
(* twice: all there are, or at least as many as one answer holds.  A       *)
(* refresh cuts the list to that, the frames behind it lengthen it again.  *)
(* It holds whatever answers of former connections come in late, and       *)
(* whatever broke or restarted before (docs/watchtower.md:364-367).        *)
(***************************************************************************)
TabIsExact ==
  stream = "open" /\ caughtUp /\ channel = <<>> =>
    /\ snap # Null => status = snap
    /\ \E k \in 0 .. log : alerts = Latest(log, k) /\ (k = log \/ k >= AlertsLimit)

(***************************************************************************)
(* News reaches a live tab: it does not stay behind the server's snapshot, *)
(* whatever broke, but takes over that one or a later one, by a frame, a   *)
(* refresh or, after three failures in a row, a poll (serve/ui.ts:358-387).*)
(* It may lose it again: an answer that is out of date can come in after   *)
(* it, and stands until the next sweep.                                    *)
(***************************************************************************)
NewsArrives == page = "live" /\ newest < snap ~> newest >= snap
=============================================================================
