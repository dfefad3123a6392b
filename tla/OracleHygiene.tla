---------------------------- MODULE OracleHygiene ----------------------------
(***************************************************************************)
(* evmsec oracle-hygiene: is a price feed safe to read now?  The feed's    *)
(* round and the chain's clock are read together, in either order, and on  *)
(* an L2 the sequencer's uptime feed after them, while all three move on.  *)
(* The verdict becomes the exit code.                                      *)
(***************************************************************************)
EXTENDS CommandLine

CONSTANTS
  Answers,      \* prices a round may report
  MaxClock      \* bound: the chain's clock, which begins at 1

ASSUME OracleAssumption == Answers \subseteq Int /\ MaxClock \in Nat

NoRound == [answer |-> 0, updatedAt |-> -1, carried |-> FALSE]
NoStatus == [up |-> TRUE, since |-> -1]
NoClock == -1

VARIABLES
  clock,        \* timestamp of the chain's latest block
  feed,         \* the feed's latest round
  uptime,       \* the sequencer's status, and since when
  round, now, sequencer,   \* what the command has read of the three
  risk,         \* its verdict
  \* history, not in the code
  usable,       \* the feed was usable at some instant between the two reads
  lastOutage    \* the latest instant at which the sequencer was down

oracleWorld == <<clock, feed, uptime, lastOutage>>
oracleReads == <<round, now, sequencer, risk>>
oracleVars == <<oracleWorld, oracleReads, usable>>

Rounds == [answer : Answers, updatedAt : 0 .. MaxClock, carried : BOOLEAN]
Statuses == [up : BOOLEAN, since : 0 .. MaxClock]

OracleInit ==
  /\ clock = 1
  /\ feed \in {r \in Rounds : r.updatedAt \in {0, 1}}
  /\ uptime \in {s \in Statuses : s.since = 1}
  /\ lastOutage = IF uptime.up THEN 0 ELSE 1
  /\ round = NoRound /\ now = NoClock /\ sequencer = NoStatus
  /\ risk = "none" /\ usable = FALSE
-----------------------------------------------------------------------------
\* Math.round of a number of seconds, given in quarters.
Seconds(quarters) == (quarters + 2) \div 4

\* An instant at which a consumer may take the feed's price.
Usable == feed.answer > 0 /\ feed.updatedAt > 0 /\ clock - feed.updatedAt <= Seconds(argv.heartbeat)

Between == pc = "reads" /\ (round = NoRound) # (now = NoClock)

\* Time passes; the feed posts a round, or leaves one incomplete; the
\* sequencer goes down or comes back.
Tick == clock < MaxClock /\ clock' = clock + 1 /\ UNCHANGED <<feed, uptime>>
Post ==
  /\ feed' \in {r \in Rounds : r.updatedAt \in {0, clock}} \ {feed}
  /\ UNCHANGED <<clock, uptime>>
Switch ==
  /\ uptime' = [up |-> ~uptime.up, since |-> clock]
  /\ UNCHANGED <<clock, feed>>

World ==
  /\ argv.cmd = "oracle-hygiene" /\ pc \in {"begin", "reads", "sequencer"}
  /\ Tick \/ Post \/ Switch
  /\ UNCHANGED <<commandLine, oracleReads>>
  /\ lastOutage' = IF uptime'.up THEN lastOutage ELSE clock'
  /\ usable' = (usable \/ (Between /\ Usable'))

\* Options: a heartbeat that is no positive number, or a grace below zero, is
\* an error before anything is read; so is a missing feed.  They are checked
\* before they are rounded, so a heartbeat may become 0.
ReadOptions ==
  /\ pc = "begin" /\ argv.cmd = "oracle-hygiene"
  /\ IF argv.feed /\ argv.heartbeat > 0 /\ argv.grace >= 0
     THEN pc' = "reads" /\ UNCHANGED exit ELSE Throw
  /\ UNCHANGED <<argv, oracleVars>>

\* Mutant: a sequencer that is up is enough.
classifyOracleNoGrace(r, at, heartbeat, asked, s, grace) ==
  LET age == IF at > r.updatedAt THEN at - r.updatedAt ELSE 0
  IN  IF asked /\ ~s.up THEN "critical"
      ELSE IF r.updatedAt <= 0 \/ r.answer <= 0 \/ age > heartbeat THEN "critical"
      ELSE IF r.carried THEN "elevated" ELSE "info"

\* A sequencer that is down, or that has just come back, decides first: within
\* its grace the feed itself is not looked at ("grace" is reported elevated).
classifyOracle(r, at, heartbeat, asked, s, grace) ==
  LET age == IF at > r.updatedAt THEN at - r.updatedAt ELSE 0
      upFor == IF at > s.since THEN at - s.since ELSE 0
  IN  IF asked /\ ~s.up THEN "critical"
      ELSE IF asked /\ upFor < grace THEN "grace"
      ELSE IF r.updatedAt <= 0 \/ r.answer <= 0 \/ age > heartbeat THEN "critical"
      ELSE IF r.carried THEN "elevated" ELSE "info"

Verdict(s) ==
  /\ risk' = classifyOracle(round', now', Seconds(argv.heartbeat), argv.sequencer, s, Seconds(argv.grace))
  /\ Exit(IF risk' = "critical" THEN 1 ELSE 0)

\* Both reads of the first round are in: the uptime feed is next, if asked for.
Continue ==
  IF round' = NoRound \/ now' = NoClock THEN UNCHANGED <<pc, exit, risk>>
  ELSE IF argv.sequencer THEN pc' = "sequencer" /\ UNCHANGED <<exit, risk>>
  ELSE Verdict(NoStatus)

ReadRound ==
  /\ pc = "reads" /\ round = NoRound
  /\ round' = feed /\ now' = now
  /\ Continue
  /\ usable' = (usable \/ Usable)
  /\ UNCHANGED <<argv, oracleWorld, sequencer>>

\* A node without a latest block counts as one at time 0.
ReadLatestBlock ==
  /\ pc = "reads" /\ now = NoClock
  /\ now' \in {clock, 0} /\ round' = round
  /\ Continue
  /\ usable' = (usable \/ Usable)
  /\ UNCHANGED <<argv, oracleWorld, sequencer>>

ReadSequencer ==
  /\ pc = "sequencer"
  /\ sequencer' = uptime
  /\ UNCHANGED <<round, now>>
  /\ Verdict(uptime)
  /\ UNCHANGED <<argv, oracleWorld, usable>>

\* Decimals and description may fail, the three readings may not.
OracleReadFails ==
  /\ pc \in {"reads", "sequencer"} /\ argv.cmd = "oracle-hygiene"
  /\ Throw
  /\ UNCHANGED <<argv, oracleVars>>

OracleNext == World \/ ReadOptions \/ ReadRound \/ ReadLatestBlock \/ ReadSequencer \/ OracleReadFails
-----------------------------------------------------------------------------
(***************************************************************************)
(* Exit code 0 is earned: unless the verdict was given within the grace of *)
(* a restarted sequencer, or the node had no latest block to take the time *)
(* from, there was an instant, while the command read, at which the feed   *)
(* had a positive answer younger than its heartbeat, in whatever order     *)
(* round and clock were read; and the sequencer, if a grace was asked for, *)
(* was not down at any time in the grace before the clock that was read,   *)
(* nor since (oracle-hygiene.ts:15, 35-56).                                *)
(***************************************************************************)
CleanFeedWasUsable ==
  argv.cmd = "oracle-hygiene" /\ exit = 0 /\ risk # "grace" /\ now # 0 =>
    /\ usable
    /\ argv.sequencer /\ Seconds(argv.grace) > 0 => lastOutage <= now - Seconds(argv.grace)
=============================================================================
