---------------------------- MODULE OneShotsProofs ----------------------------
(***************************************************************************)
(* Proofs about the one-shot commands, for any invocations, feeds and      *)
(* chains.  Each takes an invariant that ties what the command has read so *)
(* far to what the world went through meanwhile; of a process that runs    *)
(* another command nothing is to be shown, since its options stay.         *)
(***************************************************************************)
EXTENDS OneShots, RecursionLemmas, SequenceTheorems

Settling == argv.cmd = "settlement"
Feeding  == argv.cmd = "oracle-hygiene"
Proving  == argv.cmd = "message-proof"

\* The options stay, and before the end there is no exit code.
ProcessInv == argv \in Invocations /\ (pc # "done" => exit = Running)

\* Only a settlement is diagnosed.
ModeInv == ~Settling => mode = None

\* What a command does not touch stays as it was.
LEMMA Frames ==
  ASSUME [Next]_vars
  PROVE  /\ argv' = argv
         /\ ~Settling => UNCHANGED settlementVars
         /\ ~Feeding => UNCHANGED oracleVars
         /\ ~Proving => UNCHANGED proofVars
<1>1. CASE Dispatch
  BY <1>1 DEF Dispatch, main
<1>2. CASE Settle
  <2>1. argv' = argv
    BY <1>2 DEF Settle, SettlementNext, commandLine, ReadIntent, ScanHead, ScanChunk, SkipChunk, Discover,
       Diagnose, ReadFillReceipt, Judge, ReadFails
  <2>2. QED
    BY <1>2, <2>1 DEF Settle, Settling, Feeding, Proving
<1>3. CASE WatchFeed
  <2>1. argv' = argv
    BY <1>3 DEF WatchFeed, OracleNext, commandLine, World, ReadOptions, ReadRound, ReadLatestBlock,
       ReadSequencer, OracleReadFails
  <2>2. QED
    BY <1>3, <2>1 DEF WatchFeed, Settling, Feeding, Proving
<1>4. CASE ProveMessage
  <2>1. argv' = argv
    BY <1>4 DEF ProveMessage, ProofNext, commandLine, Relay, Prepare, Verify, VerifyFails
  <2>2. QED
    BY <1>4, <2>1 DEF ProveMessage, Settling, Feeding, Proving
<1>5. CASE ClassifyCode
  BY <1>5 DEF ClassifyCode, PqNext, PqReadiness, GetCodeFails
<1>6. CASE UNCHANGED vars
  BY <1>6 DEF vars, commandLine
<1>7. QED
  BY <1>1, <1>2, <1>3, <1>4, <1>5, <1>6 DEF Next

\* Every step of every command that ends the process leaves an exit code, and
\* no other step does.
LEMMA ProcessStep == ProcessInv /\ [Next]_vars => ProcessInv'
<1> SUFFICES ASSUME ProcessInv, [Next]_vars PROVE ProcessInv'
  OBVIOUS
<1>1. argv' = argv
  BY Frames
<1>2. pc' # "done" => exit' = Running
  <2>1. CASE Dispatch
    BY <2>1 DEF Dispatch, main, Exit, ProcessInv
  <2>2. CASE Settle
    BY <2>2 DEF Settle, SettlementNext, commandLine, ReadIntent, ScanHead, ScanChunk, SkipChunk, Discover,
       Diagnose, ReadFillReceipt, Judge, ReadFails, Throw, Exit, ProcessInv
  <2>3. CASE WatchFeed
    BY <2>3 DEF WatchFeed, OracleNext, commandLine, World, ReadOptions, ReadRound, ReadLatestBlock,
       ReadSequencer, OracleReadFails, Continue, Verdict, Throw, Exit, ProcessInv
  <2>4. CASE ProveMessage
    BY <2>4 DEF ProveMessage, ProofNext, commandLine, Relay, Prepare, Verify, VerifyFails, Throw, Exit, ProcessInv
  <2>5. CASE ClassifyCode
    BY <2>5 DEF ClassifyCode, PqNext, PqReadiness, GetCodeFails, Throw, Exit, ProcessInv
  <2>6. CASE UNCHANGED vars
    BY <2>6 DEF vars, commandLine, ProcessInv
  <2>7. QED
    BY <2>1, <2>2, <2>3, <2>4, <2>5, <2>6 DEF Next
<1>3. QED
  BY <1>1, <1>2 DEF ProcessInv

LEMMA ModeStep == ModeInv /\ [Next]_vars => ModeInv'
BY Frames DEF ModeInv, Settling, settlementVars
-----------------------------------------------------------------------------
(***************************************************************************)
(* Message proofs: while the contract is asked, whatever it could attest   *)
(* has been noticed.                                                       *)
(***************************************************************************)
AttestInv ==
  Proving =>
    /\ delivered \in BOOLEAN /\ guardians \in BOOLEAN
    /\ pc = "verify" /\ Attests => attested
    /\ VerifiedWasAttested

LEMMA AttestInit == Init => AttestInv
BY DEF Init, ProofInit, AttestInv, VerifiedWasAttested, Running

LEMMA AttestStep == ProcessInv /\ AttestInv /\ [Next]_vars => AttestInv'
<1> SUFFICES ASSUME ProcessInv, AttestInv, [Next]_vars, Proving PROVE AttestInv'
  BY Frames DEF AttestInv, Proving
<1>1. argv' = argv /\ Proving
  BY Frames
<1>2. CASE Dispatch
  BY <1>1, <1>2 DEF Dispatch, main, Exit, proofVars, AttestInv, ProcessInv, Proving, Attests,
     VerifiedWasAttested, COMMANDS, Running
<1>3. CASE Relay
  BY <1>1, <1>3 DEF Relay, commandLine, AttestInv, Proving, Attests, VerifiedWasAttested
<1>4. CASE Prepare
  BY <1>1, <1>4 DEF Prepare, Throw, Exit, AttestInv, ProcessInv, Proving, Attests, VerifiedWasAttested, Running
<1>5. CASE Verify
  <2>1. PICK yes \in ProofAnswers : exit' = IF yes THEN 0 ELSE 1
    BY <1>5 DEF Verify, Exit
  <2>2. ~argv.contract /\ yes => Attests /\ (argv.layer = "hyperlane" => argv.chain = argv.destination)
    BY <2>1 DEF ProofAnswers
  <2>3. QED
    BY <1>1, <1>5, <2>1, <2>2 DEF Verify, Exit, AttestInv, Proving, Attests, VerifiedWasAttested
<1>6. CASE VerifyFails
  BY <1>1, <1>6 DEF VerifyFails, Throw, Exit, proofVars, AttestInv, Proving, Attests, VerifiedWasAttested
<1>7. CASE UNCHANGED vars
  BY <1>7 DEF vars, commandLine, proofVars, AttestInv, Proving, Attests, VerifiedWasAttested
<1>8. QED
  BY <1>1, <1>2, <1>3, <1>4, <1>5, <1>6, <1>7
     DEF Next, Settle, WatchFeed, ProveMessage, ClassifyCode, ProofNext, Proving, PqNext, PqReadiness, GetCodeFails
-----------------------------------------------------------------------------
(***************************************************************************)
(* Oracle hygiene.  Latest and Instant are what the verdict will be about, *)
(* as far as it is known; unless the feed was usable at some instant since *)
(* the first of them was read, they already say that it is not.            *)
(***************************************************************************)
Round  == [answer : Int, updatedAt : Nat, carried : BOOLEAN]
Status == [up : BOOLEAN, since : Nat]

Latest  == IF round = NoRound THEN feed ELSE round
Instant == IF now = NoClock THEN clock ELSE now
Good(r) == r.answer > 0 /\ r.updatedAt > 0

WorldInv ==
  /\ clock \in Nat /\ feed \in Round /\ uptime \in Status
  /\ lastOutage \in Nat /\ lastOutage <= clock
  /\ uptime.up => lastOutage <= uptime.since

ReadInv ==
  /\ round \in Round \cup {NoRound}
  /\ now \in Nat \cup {NoClock}
  /\ pc \in {"main", "begin"} => round = NoRound /\ now = NoClock
  /\ pc \in {"reads", "sequencer"} => Seconds(argv.heartbeat) >= 0 /\ Seconds(argv.grace) >= 0
  /\ pc = "reads" => round = NoRound \/ now = NoClock
  /\ pc = "sequencer" => round # NoRound /\ now # NoClock

StaleInv ==
  /\ pc \in {"reads", "sequencer"} /\ (round # NoRound \/ now # NoClock)
  /\ now # 0 /\ ~usable /\ Good(Latest)
  => Instant - Latest.updatedAt > Seconds(argv.heartbeat)

OracleInv == Feeding => WorldInv /\ ReadInv /\ StaleInv /\ CleanFeedWasUsable

LEMMA RoundsTyped == Rounds \subseteq Round
<1> SUFFICES ASSUME NEW r \in Rounds PROVE r \in Round
  OBVIOUS
<1>1. MaxClock \in Nat /\ Answers \subseteq Int
  BY OracleAssumption
<1>2. r.answer \in Answers /\ r.updatedAt \in 0 .. MaxClock /\ r.carried \in BOOLEAN
      /\ r = [answer |-> r.answer, updatedAt |-> r.updatedAt, carried |-> r.carried]
  BY DEF Rounds
<1>3. r.answer \in Int /\ r.updatedAt \in Nat
  BY <1>1, <1>2, SMT
<1>4. QED
  BY <1>2, <1>3 DEF Round

\* Rounding keeps the sign.
LEMMA SecondsTyped ==
  ASSUME NEW quarters \in Int
  PROVE  Seconds(quarters) \in Int /\ (quarters >= 0 => Seconds(quarters) >= 0)
BY SMT DEF Seconds

LEMMA OptionsTyped ==
  ASSUME ProcessInv, Feeding
  PROVE  /\ argv.heartbeat \in Int /\ argv.grace \in Int /\ argv.sequencer \in BOOLEAN
         /\ Seconds(argv.heartbeat) \in Int /\ Seconds(argv.grace) \in Int
<1>1. argv.heartbeat \in Int /\ argv.grace \in Int /\ argv.sequencer \in BOOLEAN
  BY InvocationsAssumption DEF ProcessInv, Feeding
<1> QED
  BY <1>1, SecondsTyped

\* What a verdict below critical, and not within the grace, says of what it is
\* made of.
LEMMA CleanVerdict ==
  ASSUME NEW r \in Round, NEW at \in Nat, NEW heartbeat \in Int, heartbeat >= 0,
         NEW asked \in BOOLEAN, NEW s, asked => s \in Status, NEW grace \in Int,
         classifyOracle(r, at, heartbeat, asked, s, grace) \notin {"critical", "grace"}
  PROVE  /\ Good(r) /\ at - r.updatedAt <= heartbeat
         /\ asked /\ grace > 0 => s.up /\ at - s.since >= grace
<1> DEFINE age == IF at > r.updatedAt THEN at - r.updatedAt ELSE 0
           upFor == IF at > s.since THEN at - s.since ELSE 0
<1>1. ~(asked /\ ~s.up) /\ ~(asked /\ upFor < grace)
  BY DEF classifyOracle
<1>2. ~(r.updatedAt <= 0 \/ r.answer <= 0 \/ age > heartbeat)
  BY DEF classifyOracle
<1>3. Good(r) /\ at - r.updatedAt <= heartbeat
  BY <1>2, SMT DEF Round, Good
<1>4. ASSUME asked, grace > 0 PROVE s.up /\ at - s.since >= grace
  BY <1>1, <1>4, SMT DEF Status
<1>5. QED
  BY <1>3, <1>4

LEMMA OracleInitInv == Init => OracleInv
<1> SUFFICES ASSUME Init, Feeding PROVE WorldInv /\ ReadInv /\ StaleInv /\ CleanFeedWasUsable
  BY DEF OracleInv
<1>1. MaxClock \in Nat /\ Answers \subseteq Int
  BY OracleAssumption
<1>2. feed \in Rounds /\ uptime \in Statuses /\ uptime.since = 1 /\ clock = 1
      /\ lastOutage = (IF uptime.up THEN 0 ELSE 1)
  BY DEF Init, OracleInit
<1>3. WorldInv
  <2>1. feed \in Round
    BY <1>2, RoundsTyped
  <2>2. uptime \in Status
    BY <1>1, <1>2 DEF Statuses, Status
  <2>3. QED
    BY <1>2, <2>1, <2>2, SMT DEF WorldInv
<1>4. QED
  BY <1>3 DEF Init, OracleInit, ReadInv, StaleInv, CleanFeedWasUsable, Running

\* The feed, the sequencer or the clock moves.
LEMMA WorldStep ==
  ASSUME ProcessInv, Feeding, WorldInv, ReadInv, StaleInv, CleanFeedWasUsable, World
  PROVE  (WorldInv /\ ReadInv /\ StaleInv /\ CleanFeedWasUsable)'
<1>1. MaxClock \in Nat /\ Answers \subseteq Int
  BY OracleAssumption
<1>2. UNCHANGED <<argv, pc, exit, round, now, sequencer, risk>>
  BY DEF World, commandLine, oracleReads
<1>3. /\ clock' \in Nat /\ clock' >= clock
      /\ feed' \in Round /\ (feed' = feed \/ feed'.updatedAt \in {0, clock})
      /\ feed' = feed \/ clock' = clock
  <2>1. CASE Tick
    BY <2>1, SMT DEF Tick, WorldInv
  <2>2. CASE Post
    <3>1. feed' \in Rounds /\ feed'.updatedAt \in {0, clock} /\ clock' = clock
      BY <2>2 DEF Post
    <3>2. feed' \in Round
      BY <3>1, RoundsTyped
    <3>3. QED
      BY <3>1, <3>2, SMT DEF WorldInv
  <2>3. CASE Switch
    BY <2>3, SMT DEF Switch, WorldInv
  <2>4. QED
    BY <2>1, <2>2, <2>3 DEF World
<1>4. /\ uptime' \in Status /\ lastOutage' \in Nat /\ lastOutage' <= clock'
      /\ uptime'.up => lastOutage' <= uptime'.since
  <2>0. lastOutage' = IF uptime'.up THEN lastOutage ELSE clock'
    BY DEF World
  <2>1. CASE Switch
    <3>1. uptime' = [up |-> ~uptime.up, since |-> clock] /\ clock' = clock
      BY <2>1 DEF Switch
    <3>2. uptime' \in Status /\ uptime'.since = clock
      BY <3>1 DEF WorldInv, Status
    <3>3. QED
      BY <2>0, <3>1, <3>2, SMT DEF WorldInv
  <2>2. CASE UNCHANGED uptime
    BY <2>0, <2>2, <1>3, SMT DEF WorldInv
  <2>3. QED
    BY <2>1, <2>2 DEF World, Tick, Post
<1>5. WorldInv'
  BY <1>3, <1>4 DEF WorldInv
<1>6. ReadInv'
  BY <1>2 DEF ReadInv
<1>7. StaleInv'
  <2> SUFFICES ASSUME pc \in {"reads", "sequencer"}, round # NoRound \/ now # NoClock,
                      now # 0, ~usable', Good(Latest')
               PROVE  Instant' - Latest'.updatedAt > Seconds(argv.heartbeat)
    BY <1>2 DEF StaleInv
  <2>1. ~usable /\ Seconds(argv.heartbeat) >= 0 /\ Seconds(argv.heartbeat) \in Int
    BY OptionsTyped DEF World, ReadInv
  <2>2. CASE round # NoRound
    <3>1. Latest' = Latest /\ Latest \in Round
      BY <1>2, <2>2 DEF Latest, ReadInv
    <3>2. Instant - Latest.updatedAt > Seconds(argv.heartbeat)
      BY <2>1, <3>1 DEF StaleInv
    <3>3. Instant' = Instant \/ (Instant = clock /\ Instant' = clock')
      BY <1>2 DEF Instant
    <3>4. QED
      BY <1>3, <2>1, <3>1, <3>2, <3>3, SMT DEF WorldInv, Round
  <2>3. CASE round = NoRound
    <3>1. pc = "reads" /\ now # NoClock /\ Between /\ Instant' = now /\ Latest' = feed' /\ Instant = now
      BY <1>2, <2>3 DEF ReadInv, Between, Instant, Latest
    <3>2. ~Usable'
      <4>1. usable' = (usable \/ (Between /\ Usable'))
        BY DEF World
      <4>2. QED
        BY <3>1, <4>1
    <3>3. feed' = feed
      BY <1>2, <1>3, <2>1, <3>1, <3>2, SMT DEF Usable, Good, WorldInv, Round
    <3>4. QED
      BY <2>1, <2>3, <3>1, <3>3 DEF StaleInv, Latest
  <2>4. QED
    BY <2>2, <2>3
<1>8. CleanFeedWasUsable'
  <2>1. exit = Running
    BY DEF World, ProcessInv
  <2>2. QED
    BY <1>2, <2>1 DEF CleanFeedWasUsable, Running
<1>9. QED
  BY <1>5, <1>6, <1>7, <1>8

\* The round and the clock are read, or one of them, and may give the verdict.
LEMMA ContinueStep ==
  ASSUME ProcessInv, Feeding, WorldInv, ReadInv, StaleInv, pc = "reads", Continue,
         UNCHANGED <<argv, oracleWorld, sequencer>>,
         usable' = (usable \/ Usable),
         \/ round = NoRound /\ round' = feed /\ now' = now
         \/ now = NoClock /\ now' \in {clock, 0} /\ round' = round
  PROVE  (WorldInv /\ ReadInv /\ StaleInv /\ CleanFeedWasUsable)'
<1>1. /\ Seconds(argv.heartbeat) >= 0 /\ Seconds(argv.grace) >= 0
      /\ Seconds(argv.heartbeat) \in Int /\ Seconds(argv.grace) \in Int /\ argv.sequencer \in BOOLEAN
  BY OptionsTyped DEF ReadInv
<1>2. WorldInv'
  BY DEF WorldInv, oracleWorld
<1>3. round' \in Round \cup {NoRound} /\ now' \in Nat \cup {NoClock} /\ (round' # NoRound \/ now' # NoClock)
  BY SMT DEF WorldInv, ReadInv, Round, NoRound, NoClock
<1>5. ASSUME now' # 0, ~usable', Good(Latest')
      PROVE  Instant' - Latest'.updatedAt > Seconds(argv.heartbeat)
  <2>1. ~usable /\ ~Usable
    BY <1>5
  <2>2. CASE round = NoRound /\ now = NoClock
    <3>1. Latest' = feed /\ Instant' = clock
      BY <1>3, <1>5, <2>2 DEF Latest, Instant, oracleWorld
    <3>2. QED
      BY <1>1, <1>5, <2>1, <3>1, SMT DEF Usable, Good, WorldInv, Round
  <2>3. CASE round # NoRound
    <3>1. Latest' = Latest /\ Latest \in Round /\ now = NoClock /\ now' \in {clock, 0}
      BY <2>3 DEF Latest, ReadInv
    <3>2. Instant' = clock /\ Instant = clock
      BY <1>5, <3>1, SMT DEF Instant, NoClock, WorldInv
    <3>3. QED
      BY <1>5, <2>1, <2>3, <3>1, <3>2, SMT DEF StaleInv, NoClock
  <2>4. CASE round = NoRound /\ now # NoClock
    <3>1. Latest' = feed /\ Latest = feed /\ Instant' = now /\ Instant = now
      BY <2>4 DEF Latest, Instant, oracleWorld
    <3>2. QED
      BY <1>5, <2>1, <2>4, <3>1 DEF StaleInv
  <2>5. QED
    BY <2>2, <2>3, <2>4
<1>6. CASE round' # NoRound /\ now' # NoClock
  <2>1. round' \in Round /\ now' \in Nat
    BY <1>3, <1>6
  <2>2. CASE argv.sequencer
    BY <1>1, <1>2, <1>3, <1>5, <1>6, <2>2
       DEF Continue, ReadInv, StaleInv, ProcessInv, CleanFeedWasUsable, Running
  <2>3. CASE ~argv.sequencer
    <3>1. /\ risk' = classifyOracle(round', now', Seconds(argv.heartbeat), argv.sequencer, NoStatus, Seconds(argv.grace))
          /\ pc' = "done" /\ exit' = IF risk' = "critical" THEN 1 ELSE 0
      BY <1>6, <2>3 DEF Continue, Verdict, Exit
    <3>2. ASSUME risk' \notin {"critical", "grace"}, now' # 0 PROVE usable'
      <4>1. Good(round') /\ now' - round'.updatedAt <= Seconds(argv.heartbeat)
        BY <1>1, <2>1, <2>3, <3>1, <3>2, CleanVerdict
      <4>2. Latest' = round' /\ Instant' = now'
        BY <1>6 DEF Latest, Instant
      <4>3. QED
        BY <1>1, <1>5, <2>1, <3>2, <4>1, <4>2, SMT DEF Round
    <3>3. CleanFeedWasUsable'
      BY <2>3, <3>1, <3>2 DEF CleanFeedWasUsable
    <3>4. QED
      BY <1>2, <1>3, <3>1, <3>3 DEF ReadInv, StaleInv
  <2>4. QED
    BY <1>1, <2>2, <2>3
<1>7. CASE round' = NoRound \/ now' = NoClock
  <2>1. UNCHANGED <<pc, exit, risk>> /\ exit = Running
    BY <1>7 DEF Continue, ProcessInv
  <2>2. ReadInv'
    BY <1>1, <1>3, <1>7, <2>1 DEF ReadInv
  <2>3. StaleInv'
    BY <1>5, <2>1 DEF StaleInv
  <2>4. CleanFeedWasUsable'
    BY <2>1 DEF CleanFeedWasUsable, Running
  <2>5. QED
    BY <1>2, <2>2, <2>3, <2>4
<1>8. QED
  BY <1>6, <1>7

\* The sequencer is read last, and gives the verdict.
LEMMA SequencerStep ==
  ASSUME ProcessInv, Feeding, WorldInv, ReadInv, StaleInv, ReadSequencer
  PROVE  (WorldInv /\ ReadInv /\ StaleInv /\ CleanFeedWasUsable)'
<1>1. /\ Seconds(argv.heartbeat) >= 0 /\ Seconds(argv.grace) >= 0
      /\ Seconds(argv.heartbeat) \in Int /\ Seconds(argv.grace) \in Int /\ argv.sequencer \in BOOLEAN
  BY OptionsTyped DEF ReadInv, ReadSequencer
<1>2. UNCHANGED <<argv, clock, feed, uptime, lastOutage, usable, round, now>> /\ pc' = "done" /\ pc = "sequencer"
  BY DEF ReadSequencer, Verdict, Exit, oracleWorld
<1>3. round \in Round /\ now \in Nat /\ round # NoRound /\ now # NoClock /\ uptime \in Status
  BY <1>2 DEF ReadInv, WorldInv
<1>4. WorldInv' /\ ReadInv' /\ StaleInv'
  BY <1>2, <1>3 DEF WorldInv, ReadInv, StaleInv
<1>5. /\ risk' = classifyOracle(round, now, Seconds(argv.heartbeat), argv.sequencer, uptime, Seconds(argv.grace))
      /\ exit' = IF risk' = "critical" THEN 1 ELSE 0
  BY <1>2 DEF ReadSequencer, Verdict, Exit
<1>6. ASSUME risk' \notin {"critical", "grace"}, now # 0
      PROVE  usable /\ (argv.sequencer /\ Seconds(argv.grace) > 0 => lastOutage <= now - Seconds(argv.grace))
  <2>1. /\ Good(round) /\ now - round.updatedAt <= Seconds(argv.heartbeat)
        /\ argv.sequencer /\ Seconds(argv.grace) > 0 => uptime.up /\ now - uptime.since >= Seconds(argv.grace)
    BY <1>1, <1>3, <1>5, <1>6, CleanVerdict
  <2>2. Latest = round /\ Instant = now
    BY <1>3 DEF Latest, Instant
  <2>3. usable
    <3>1. ~(now - round.updatedAt > Seconds(argv.heartbeat))
      BY <1>1, <1>3, <2>1, SMT DEF Round
    <3>2. QED
      BY <1>2, <1>3, <1>6, <2>1, <2>2, <3>1 DEF StaleInv
  <2>4. ASSUME argv.sequencer, Seconds(argv.grace) > 0 PROVE lastOutage <= now - Seconds(argv.grace)
    BY <1>1, <1>3, <2>1, <2>4, SMT DEF WorldInv, Status
  <2>5. QED
    BY <2>3, <2>4
<1>7. CleanFeedWasUsable'
  BY <1>2, <1>5, <1>6 DEF CleanFeedWasUsable
<1>8. QED
  BY <1>4, <1>7

LEMMA OracleStep == ProcessInv /\ OracleInv /\ [Next]_vars => OracleInv'
<1> SUFFICES ASSUME ProcessInv, WorldInv, ReadInv, StaleInv, CleanFeedWasUsable, [Next]_vars, Feeding
             PROVE  (WorldInv /\ ReadInv /\ StaleInv /\ CleanFeedWasUsable)'
  BY Frames DEF OracleInv, Feeding
<1>1. argv' = argv
  BY Frames
<1>2. ASSUME UNCHANGED oracleVars, pc' \in {"begin", "reads", "done"},
             pc' # "reads" \/ (pc = "begin" /\ Seconds(argv.heartbeat) >= 0 /\ Seconds(argv.grace) >= 0),
             pc' = "begin" => pc = "main",
             exit' # 0
      PROVE  (WorldInv /\ ReadInv /\ StaleInv /\ CleanFeedWasUsable)'
  BY <1>1, <1>2 DEF oracleVars, oracleWorld, oracleReads, WorldInv, ReadInv, StaleInv, CleanFeedWasUsable,
     Latest, Instant
<1>3. CASE Dispatch
  <2>1. UNCHANGED oracleVars /\ pc = "main" /\ pc' = "begin" /\ exit' = Running
    BY <1>3 DEF Dispatch, main, Exit, Feeding, COMMANDS, ProcessInv
  <2>2. QED
    BY <1>2, <2>1 DEF Running
<1>4. CASE World
  BY <1>4, WorldStep
<1>5. CASE ReadOptions
  <2>1. pc' = "reads" => Seconds(argv.heartbeat) >= 0 /\ Seconds(argv.grace) >= 0
    <3> SUFFICES ASSUME argv.heartbeat > 0, argv.grace >= 0
                 PROVE  Seconds(argv.heartbeat) >= 0 /\ Seconds(argv.grace) >= 0
      BY <1>5 DEF ReadOptions, Throw, Exit
    <3>1. argv.heartbeat >= 0
      BY OptionsTyped, SMT
    <3> QED
      BY <3>1, OptionsTyped, SecondsTyped
  <2> QED
    BY <1>2, <1>5, <2>1 DEF ReadOptions, Throw, Exit, ProcessInv, Running
<1>6. CASE ReadRound
  BY <1>6, ContinueStep DEF ReadRound
<1>7. CASE ReadLatestBlock
  BY <1>7, ContinueStep DEF ReadLatestBlock
<1>8. CASE ReadSequencer
  BY <1>8, SequencerStep
<1>9. CASE OracleReadFails
  BY <1>2, <1>9 DEF OracleReadFails, Throw, Exit
<1>10. CASE UNCHANGED vars
  BY <1>10 DEF vars, commandLine, oracleVars, oracleWorld, oracleReads, WorldInv, ReadInv, StaleInv,
     CleanFeedWasUsable, Latest, Instant
<1>11. QED
  BY <1>3, <1>4, <1>5, <1>6, <1>7, <1>8, <1>9, <1>10
     DEF Next, Settle, WatchFeed, ProveMessage, ClassifyCode, OracleNext, Feeding, PqNext, PqReadiness, GetCodeFails
-----------------------------------------------------------------------------
(***************************************************************************)
(* Settlement.  A receipt names the block its transaction is in, unless    *)
(* blocks were replaced since; a fill reported as final is deeper in the   *)
(* chain than any reorganisation goes, and the chain never gets shorter.   *)
(***************************************************************************)
Held == receipt.block \in DOMAIN blocks /\ fillTx \in Txs(blocks[receipt.block])

FinalInv ==
  Settling =>
    /\ blocks \in Seq(Contents)
    /\ pc # "done" => finalized = FALSE
    /\ pc \notin {"times", "done"} => receipt = NoReceipt
    /\ receipt # NoReceipt => receipt.block \in Nat
    /\ pc = "times" /\ ~shaken => Held
    /\ exit = 0 /\ receipt # NoReceipt /\ finalized /\ argv.finalityDepth >= MaxDepth /\ ~shaken =>
         Held /\ Len(blocks) - receipt.block >= MaxDepth

LEMMA FinalInitInv == Init => FinalInv
BY DEF Init, SettlementInit, FinalInv, Running

\* The chain grows: what is in a block stays there.
LEMMA NewBlockStep ==
  ASSUME Settling, FinalInv, NewBlock, UNCHANGED commandLine
  PROVE  FinalInv'
<1>1. PICK c \in Contents : blocks' = Append(blocks, c)
  BY DEF NewBlock
<1>2. UNCHANGED <<argv, pc, exit, receipt, fillTx, finalized, shaken>>
  BY DEF NewBlock, fillState, commandLine
<1>3. blocks \in Seq(Contents)
  BY DEF FinalInv
<1>4. /\ blocks' \in Seq(Contents) /\ Len(blocks') = Len(blocks) + 1
      /\ \A i \in DOMAIN blocks : i \in DOMAIN blocks' /\ blocks'[i] = blocks[i]
  BY <1>1, <1>3
<1>5. Held => Held'
  BY <1>2, <1>4 DEF Held, Txs
<1>6. Len(blocks) \in Nat /\ MaxDepth \in Nat
  BY <1>3, SettlementAssumption
<1>7. receipt # NoReceipt /\ Len(blocks) - receipt.block >= MaxDepth => Len(blocks') - receipt.block >= MaxDepth
  BY <1>4, <1>6, SMT DEF FinalInv
<1>8. QED
  BY <1>2, <1>4, <1>5, <1>7 DEF FinalInv, Settling

\* The chain replaces at most MaxDepth blocks: what is as deep stays.
LEMMA ReorgStep ==
  ASSUME Settling, FinalInv, Reorg, UNCHANGED commandLine
  PROVE  FinalInv'
<1>0. PICK k \in 1 .. MaxDepth \cap 1 .. HeadBlock :
        \E cs \in [1 .. k -> Contents] : blocks' = SubSeq(blocks, 1, HeadBlock - k) \o cs
  BY DEF Reorg
<1>1. PICK cs \in [1 .. k -> Contents] : blocks' = SubSeq(blocks, 1, HeadBlock - k) \o cs
  BY <1>0
<1>2. UNCHANGED <<argv, pc, exit, receipt, fillTx, finalized>> /\ shaken' = (shaken \/ pc = "times")
  BY DEF Reorg, commandLine
<1>3. blocks \in Seq(Contents) /\ Len(blocks) \in Nat /\ MaxDepth \in Nat /\ k \in Nat /\ k <= MaxDepth /\ k <= Len(blocks)
  BY SettlementAssumption, SMT DEF FinalInv, HeadBlock
<1>4. cs \in Seq(Contents) /\ Len(cs) = k
  BY <1>3
<1>5. /\ SubSeq(blocks, 1, Len(blocks) - k) \in Seq(Contents)
      /\ Len(SubSeq(blocks, 1, Len(blocks) - k)) = Len(blocks) - k
      /\ \A i \in 1 .. Len(blocks) - k : SubSeq(blocks, 1, Len(blocks) - k)[i] = blocks[i]
  BY <1>3
<1>6. /\ blocks' \in Seq(Contents) /\ Len(blocks') = Len(blocks)
      /\ \A i \in 1 .. Len(blocks) - k : blocks'[i] = blocks[i]
  <2> DEFINE kept == SubSeq(blocks, 1, Len(blocks) - k)
  <2>1. blocks' = kept \o cs
    BY <1>1 DEF HeadBlock
  <2>2. kept \in Seq(Contents) /\ Len(kept) = Len(blocks) - k /\ \A i \in 1 .. Len(blocks) - k : kept[i] = blocks[i]
    BY <1>5
  <2> HIDE DEF kept
  <2>3. blocks' \in Seq(Contents) /\ Len(blocks') = Len(kept) + Len(cs)
    BY <1>4, <2>1, <2>2, ConcatProperties
  <2>4. \A i \in 1 .. Len(kept) : blocks'[i] = kept[i]
    BY <1>3, <1>4, <2>1, <2>2
  <2>5. Len(blocks') = Len(blocks)
    BY <1>3, <1>4, <2>2, <2>3
  <2>6. QED
    BY <2>2, <2>3, <2>4, <2>5
<1>7. ASSUME receipt # NoReceipt, Held, Len(blocks) - receipt.block >= MaxDepth
      PROVE  Held' /\ Len(blocks') - receipt.block >= MaxDepth
  <2>1. receipt.block \in Nat /\ receipt.block \in 1 .. Len(blocks)
    BY <1>3, <1>7 DEF Held, FinalInv
  <2>2. receipt.block \in 1 .. Len(blocks) - k
    BY <1>3, <1>7, <2>1, SMT
  <2>3. receipt.block \in DOMAIN blocks' /\ blocks'[receipt.block] = blocks[receipt.block]
    BY <1>6, <2>1, <2>2
  <2>4. QED
    BY <1>2, <1>6, <1>7, <2>3 DEF Held, Txs
<1>8. QED
  BY <1>2, <1>6, <1>7 DEF FinalInv, Settling

LEMMA FinalStep == ProcessInv /\ FinalInv /\ [Next]_vars => FinalInv'
<1> SUFFICES ASSUME ProcessInv, FinalInv, [Next]_vars, Settling PROVE FinalInv'
  BY Frames DEF FinalInv, Settling
<1>1. argv' = argv
  BY Frames
<1>3. CASE Dispatch
  BY <1>1, <1>3 DEF Dispatch, main, Exit, settlementVars, chain, fillState, FinalInv, Held, Txs, Settling, COMMANDS,
     ProcessInv, Running
<1>4. CASE NewBlock /\ UNCHANGED commandLine
  BY <1>4, NewBlockStep
<1>5. CASE Reorg /\ UNCHANGED commandLine
  BY <1>5, ReorgStep
<1>6. CASE ReadIntent
  BY <1>1, <1>6 DEF ReadIntent, chain, Throw, Exit, FinalInv, Settling, ProcessInv, Running
<1>7. CASE ScanHead
  BY <1>1, <1>7 DEF ScanHead, chain, fillState, Throw, Exit, FinalInv, Settling, ProcessInv, Running
<1>8. CASE ScanChunk \/ SkipChunk
  BY <1>1, <1>8 DEF ScanChunk, SkipChunk, chain, fillState, commandLine, FinalInv, Settling, ProcessInv, Running
<1>9. CASE Discover
  BY <1>1, <1>9 DEF Discover, chain, Throw, Exit, FinalInv, Settling, ProcessInv, Running
<1>10. CASE Diagnose
  BY <1>1, <1>10 DEF Diagnose, chain, fillState, Exit, FinalInv, Settling, ProcessInv, Running
<1>11. CASE ReadFillReceipt
  <2>1. CASE \E n \in DOMAIN blocks : fillTx \in Txs(blocks[n])
    <3>1. PICK n \in DOMAIN blocks : fillTx \in Txs(blocks[n]) /\ receipt'.block = n
      BY <1>11, <2>1 DEF ReadFillReceipt
    <3>2. UNCHANGED <<blocks, fillTx, finalized, shaken, exit>> /\ pc = "receipt" /\ pc' = "times"
      BY <1>11, <2>1 DEF ReadFillReceipt, chain
    <3>3. n \in Nat
      BY <3>1 DEF FinalInv, Settling
    <3>4. QED
      BY <1>1, <3>1, <3>2, <3>3 DEF FinalInv, Settling, Held, Txs, ProcessInv, Running
  <2>2. CASE ~\E n \in DOMAIN blocks : fillTx \in Txs(blocks[n])
    BY <1>1, <1>11, <2>2 DEF ReadFillReceipt, chain, Throw, Exit, FinalInv, Settling, ProcessInv
  <2>3. QED
    BY <2>1, <2>2
<1>12. CASE Judge
  <2>1. UNCHANGED <<blocks, receipt, fillTx, shaken>> /\ pc = "times" /\ pc' = "done"
    BY <1>12 DEF Judge, chain, Exit
  <2>2. finalized' = (argv.finalityDepth # NaN /\ Len(blocks) - receipt.block >= argv.finalityDepth)
    BY <1>12 DEF Judge, isFinalized, HeadBlock
  <2>3. argv.finalityDepth \in Int /\ MaxDepth \in Nat /\ Len(blocks) \in Nat
    BY InvocationsAssumption, SettlementAssumption DEF ProcessInv, Settling, FinalInv
  <2>4. finalized' /\ receipt # NoReceipt /\ argv.finalityDepth >= MaxDepth
          => Len(blocks) - receipt.block >= MaxDepth
    <3>1. finalized' => Len(blocks) - receipt.block >= argv.finalityDepth
      BY <2>2
    <3>2. receipt # NoReceipt => receipt.block \in Nat
      BY DEF FinalInv
    <3>3. receipt # NoReceipt /\ Len(blocks) - receipt.block >= argv.finalityDepth /\ argv.finalityDepth >= MaxDepth
            => Len(blocks) - receipt.block >= MaxDepth
      BY <2>3, <3>2, SMT
    <3>4. QED
      BY <3>1, <3>3, Zenon
  <2>5. Held => Held'
    BY <2>1 DEF Held, Txs
  <2>6. QED
    BY <1>1, <2>1, <2>4, <2>5 DEF FinalInv, Settling
<1>13. CASE ReadFails
  BY <1>1, <1>13 DEF ReadFails, settlementVars, chain, fillState, Throw, Exit, FinalInv, Settling, ProcessInv
<1>14. CASE UNCHANGED vars
  BY <1>1, <1>14 DEF vars, commandLine, settlementVars, chain, fillState, FinalInv, Settling, Held, Txs
<1>15. QED
  BY <1>3, <1>4, <1>5, <1>6, <1>7, <1>8, <1>9, <1>10, <1>11, <1>12, <1>13, <1>14
     DEF Next, Settle, WatchFeed, ProveMessage, ClassifyCode, SettlementNext, Settling, PqNext, PqReadiness, GetCodeFails
-----------------------------------------------------------------------------
(***************************************************************************)
(* Settlement: what was promised.  Every protocol's decoder yields outputs *)
(* at positions, with amounts; the intent read first stays, and so does    *)
(* the chain it resolved to.                                               *)
(***************************************************************************)
Parsed == pc \in {"head", "scan", "receipt", "times"} \/ mode # None \/ receipt # NoReceipt

PromiseInv ==
  Settling =>
    /\ pc # "done" => mode = None
    /\ Parsed =>
         /\ order.fillDeadline \in Nat
         /\ DOMAIN order.outputs \subseteq Nat /\ DOMAIN order.outputs # {}
         /\ \A i \in DOMAIN order.outputs : order.outputs[i].amount \in Nat
         /\ argv.destChain = None => \A i \in DOMAIN order.outputs : order.outputs[i].chainId = dest
    /\ receipt # NoReceipt => \A i \in DOMAIN receipt.logs : receipt.logs[i].tx = fillTx
    /\ SettledWasDelivered

LEMMA OrderTyped ==
  ASSUME NEW protocol \in {"erc7683", "across", "cow"}, NEW tx \in DOMAIN SourceTxs, NEW src,
         NEW o, o = parseIntent(protocol, SourceTxs[tx], src)
  PROVE  /\ o.fillDeadline \in Nat
         /\ DOMAIN o.outputs \in SUBSET Nat /\ IsFiniteSet(DOMAIN o.outputs)
         /\ \A i \in DOMAIN o.outputs : o.outputs[i].amount \in Nat
<1> DEFINE logs == SourceTxs[tx]
<1>1. logs \in Seq(ToSet(logs)) /\ \A i \in DOMAIN logs : logs[i] \in ToSet(logs)
  BY LogsAssumption DEF ToSet
<1>2. ASSUME NEW i \in DOMAIN logs, logs[i].event # "Other"
      PROVE  /\ logs[i].deadline \in Nat
             /\ logs[i].outs \in Seq(ToSet(logs[i].outs))
             /\ logs[i].event # "Open" => logs[i].outs # <<>>
             /\ \A k \in DOMAIN logs[i].outs : logs[i].outs[k].amount \in Nat
  BY <1>1, <1>2, LogsAssumption DEF ToSet
<1>3. DOMAIN logs = 1 .. Len(logs) /\ Len(logs) \in Nat
  BY <1>1
<1> HIDE DEF logs
<1>4. ASSUME NEW own \in SUBSET DOMAIN logs, own # {} PROVE Min(own) \in own
  <2>1. own \in SUBSET Nat
    BY <1>3
  <2>2. \E x \in own : \A y \in own : x <= y
    BY <1>4, <2>1, LeastNatural
  <2> QED
    BY <2>2 DEF Min
<1>5. NoOrder.fillDeadline \in Nat /\ DOMAIN NoOrder.outputs = {}
  BY DEF NoOrder
<1>6. CASE protocol = "erc7683"
  <2> DEFINE own == logs[Min(Own(logs, {"Open"}))]
  <2>1. o = parseOpen(logs)
    BY <1>6 DEF parseIntent, logs
  <2>2. CASE Own(logs, {"Open"}) = {}
    BY <1>5, <2>1, <2>2, FS_EmptySet DEF parseOpen
  <2>3. CASE Own(logs, {"Open"}) # {}
    <3>1. Min(Own(logs, {"Open"})) \in DOMAIN logs /\ own.event = "Open"
      <4>1. Own(logs, {"Open"}) \in SUBSET DOMAIN logs
        BY DEF Own
      <4>2. Min(Own(logs, {"Open"})) \in Own(logs, {"Open"})
        BY <1>4, <2>3, <4>1
      <4> QED
        BY <4>2 DEF Own
    <3>2. own.deadline \in Nat /\ DOMAIN own.outs = 1 .. Len(own.outs) /\ Len(own.outs) \in Nat
          /\ \A k \in DOMAIN own.outs : own.outs[k].amount \in Nat
      BY <1>2, <3>1
    <3>3. /\ o.fillDeadline = own.deadline /\ DOMAIN o.outputs = DOMAIN own.outs
          /\ \A k \in DOMAIN own.outs : o.outputs[k].amount = own.outs[k].amount
      BY <2>1, <2>3 DEF parseOpen, Order, Output
    <3>4. IsFiniteSet(DOMAIN own.outs) /\ DOMAIN own.outs \in SUBSET Nat
      BY <3>2, FS_Interval
    <3> HIDE DEF own
    <3> QED
      BY <3>2, <3>3, <3>4
  <2> QED
    BY <2>2, <2>3
<1>7. CASE protocol = "across"
  <2> DEFINE names == {"FundsDeposited", "V3FundsDeposited"}
             own == logs[Min(Own(logs, names))]
  <2>1. o = parseDeposit(logs)
    BY <1>7 DEF parseIntent, logs
  <2>2. CASE Own(logs, names) = {}
    BY <1>5, <2>1, <2>2, FS_EmptySet DEF parseDeposit
  <2>3. CASE Own(logs, names) # {}
    <3>1. Min(Own(logs, names)) \in DOMAIN logs /\ own.event \in names
      <4>1. Own(logs, names) \in SUBSET DOMAIN logs
        BY DEF Own
      <4>2. Min(Own(logs, names)) \in Own(logs, names)
        BY <1>4, <2>3, <4>1
      <4> QED
        BY <4>2 DEF Own
    <3>2. own.deadline \in Nat /\ 1 \in DOMAIN own.outs
          /\ \A k \in DOMAIN own.outs : own.outs[k].amount \in Nat
      BY <1>2, <3>1
    <3>3. /\ o.fillDeadline = own.deadline /\ DOMAIN o.outputs = {1}
          /\ o.outputs[1].amount = own.outs[1].amount
      BY <2>1, <2>3 DEF parseDeposit, Order, Output
    <3>4. IsFiniteSet({1}) /\ o.fillDeadline \in Nat
      BY <3>2, <3>3, FS_Singleton
    <3>5. \A i \in DOMAIN o.outputs : o.outputs[i].amount \in Nat
      BY <3>2, <3>3
    <3> QED
      BY <3>3, <3>4, <3>5
  <2> QED
    BY <2>2, <2>3
<1>8. CASE protocol = "cow"
  <2>1. o = parseTrades(logs, src)
    BY <1>8 DEF parseIntent, logs
  <2>2. /\ o.fillDeadline = 0 /\ DOMAIN o.outputs = Own(logs, {"Trade"})
        /\ \A i \in Own(logs, {"Trade"}) : o.outputs[i].amount = logs[i].outs[1].amount
    BY <2>1 DEF parseTrades, Order, Output
  <2>3. ASSUME NEW i \in Own(logs, {"Trade"}) PROVE i \in DOMAIN logs /\ logs[i].outs[1].amount \in Nat
    <3>1. i \in DOMAIN logs /\ logs[i].event = "Trade"
      BY DEF Own
    <3>2. 1 \in DOMAIN logs[i].outs
      BY <1>2, <3>1
    <3> QED
      BY <1>2, <3>1, <3>2
  <2>4. IsFiniteSet(DOMAIN logs) /\ DOMAIN o.outputs \in SUBSET DOMAIN logs
    BY <1>3, <2>2, <2>3, FS_Interval
  <2> QED
    BY <1>3, <2>2, <2>3, <2>4, FS_Subset
<1> QED
  BY <1>6, <1>7, <1>8

LEMMA PromiseInit == Init => PromiseInv
BY DEF Init, SettlementInit, PromiseInv, Parsed, SettledWasDelivered, Verified, Running

\* What an intent that does not end the command is.
LEMMA ReadIntentStep ==
  ASSUME ProcessInv, FinalInv, PromiseInv, Settling, ReadIntent, argv' = argv
  PROVE  PromiseInv'
<1>1. UNCHANGED <<receipt, mode>> /\ pc = "begin" /\ receipt = NoReceipt /\ mode = None
  BY DEF ReadIntent, FinalInv, PromiseInv
<1>2. CASE pc' = "done"
  BY <1>1, <1>2 DEF PromiseInv, Parsed, SettledWasDelivered, Verified
<1>3. CASE pc' # "done"
  <2>1. /\ argv.protocol \in {"erc7683", "across", "cow"} /\ argv.intentTx \in DOMAIN SourceTxs
        /\ order' = parseIntent(argv.protocol, SourceTxs[argv.intentTx], argv.sourceChain)
        /\ dest' = resolveDestChain(argv.destChain, order'.outputs)
        /\ DOMAIN order'.outputs # {} /\ dest' # None
    BY <1>3 DEF ReadIntent, Throw, Exit
  <2>2. /\ order'.fillDeadline \in Nat
        /\ DOMAIN order'.outputs \in SUBSET Nat /\ IsFiniteSet(DOMAIN order'.outputs)
        /\ \A i \in DOMAIN order'.outputs : order'.outputs[i].amount \in Nat
    BY <2>1, OrderTyped
  <2>3. ASSUME argv.destChain = None
        PROVE  \A i \in DOMAIN order'.outputs : order'.outputs[i].chainId = dest'
    <3> DEFINE outs == order'.outputs
               f == [i \in DOMAIN outs |-> outs[i].chainId]
               ids == {outs[i].chainId : i \in DOMAIN outs}
    <3>1. Cardinality(ids) = 1 /\ dest' = CHOOSE c \in ids : TRUE
      BY <2>1, <2>3 DEF resolveDestChain
    <3>2. IsFiniteSet(ids)
      <4>1. f \in Surjection(DOMAIN outs, ids)
        BY DEF Surjection
      <4> HIDE DEF f, ids
      <4> QED
        BY <2>2, <4>1, FS_Surjection
    <3> HIDE DEF ids
    <3>3. PICK c : ids = {c}
      BY <3>1, <3>2, FS_Singleton
    <3>4. dest' = c
      BY <3>1, <3>3
    <3> QED
      BY <3>3, <3>4 DEF ids
  <2>4. exit' = Running
    BY <1>1, <1>3 DEF ReadIntent, Throw, Exit, ProcessInv
  <2>5. SettledWasDelivered'
    BY <2>4 DEF SettledWasDelivered, Verified, Running
  <2> QED
    BY <1>1, <2>1, <2>2, <2>3, <2>5 DEF PromiseInv
<1> QED
  BY <1>2, <1>3

\* The logs of a receipt are those of its transaction.
LEMMA ReceiptStep ==
  ASSUME ProcessInv, FinalInv, PromiseInv, Settling, ReadFillReceipt, argv' = argv
  PROVE  PromiseInv'
<1>1. UNCHANGED <<order, dest, fillTx, mode>> /\ pc = "receipt" /\ Parsed /\ receipt = NoReceipt
  BY DEF ReadFillReceipt, Parsed, FinalInv
<1>2. CASE \E n \in DOMAIN blocks : fillTx \in Txs(blocks[n])
  <2>1. PICK n \in DOMAIN blocks : receipt' = [block |-> n, logs |-> receiptLogs(n, fillTx)]
    BY <1>2 DEF ReadFillReceipt
  <2>2. \A i \in DOMAIN receipt'.logs : receipt'.logs[i].tx = fillTx
    <3>1. receipt'.logs = receiptLogs(n, fillTx)
      BY <2>1
    <3> QED
      BY <3>1 DEF receiptLogs, Restrict
  <2>3. pc' = "times" /\ exit' = Running
    BY <1>2 DEF ReadFillReceipt, ProcessInv
  <2> QED
    BY <1>1, <2>2, <2>3 DEF PromiseInv, Parsed, SettledWasDelivered, Verified, Running
<1>3. CASE ~\E n \in DOMAIN blocks : fillTx \in Txs(blocks[n])
  BY <1>1, <1>3 DEF ReadFillReceipt, Throw, Exit, PromiseInv, Parsed, SettledWasDelivered, Verified
<1> QED
  BY <1>2, <1>3

\* A verdict of "settled" on every output of the chain looked at.
LEMMA JudgeStep ==
  ASSUME ProcessInv, PromiseInv, Settling, Judge, argv' = argv
  PROVE  PromiseInv'
<1>1. UNCHANGED <<order, dest, fillTx, receipt, mode>> /\ pc = "times" /\ pc' = "done" /\ Parsed /\ mode = None
  BY DEF Judge, Parsed, Exit, PromiseInv
<1> DEFINE transfers == decodeErc20Transfers(receipt.logs)
           deadlineMet == order.fillDeadline = 0 \/ Timestamp(receipt.block) <= order.fillDeadline
           verdict(o) == IF o.native THEN "anomaly" ELSE classify(matchDelivery(o, transfers), deadlineMet)
<1>2. exit' = 0 => \A i \in onDest : verdict(order.outputs[i]) = "settled"
  BY DEF Judge, Exit
<1>3. ASSUME exit' = 0, receipt # NoReceipt, NEW i \in DOMAIN order.outputs, order.outputs[i].chainId = dest
      PROVE  /\ ~order.outputs[i].native
             /\ \E l \in Range(receipt.logs) : l.tx = fillTx /\ Pays(l, order.outputs[i])
             /\ deadlineMet
  <2> DEFINE o == order.outputs[i]
  <2>1. verdict(o) = "settled"
    BY <1>2, <1>3 DEF onDest
  <2> HIDE DEF o
  <2>2. ~o.native /\ matchDelivery(o, transfers).matched /\ deadlineMet
    BY <2>1 DEF classify
  <2> HIDE DEF transfers, deadlineMet
  <2>3. PICK k \in DOMAIN transfers : transfers[k].to = o.recipient /\ transfers[k].token = o.token
    BY <2>2 DEF matchDelivery
  <2>4. k \in DOMAIN receipt.logs /\ receipt.logs[k].event = "Transfer" /\ transfers[k] = receipt.logs[k]
    BY <2>3 DEF transfers, decodeErc20Transfers, Restrict
  <2>5. receipt.logs[k] \in Range(receipt.logs)
    BY <2>4 DEF Range
  <2>6. receipt.logs[k].tx = fillTx
    BY <1>3, <2>4 DEF PromiseInv
  <2>7. Pays(receipt.logs[k], o)
    BY <2>3, <2>4 DEF Pays
  <2> QED
    BY <2>2, <2>5, <2>6, <2>7 DEF o
<1>4. SettledWasDelivered'
  <2> HIDE DEF transfers, verdict
  <2>1. argv.destChain = None =>
          DOMAIN order.outputs # {} /\ \A i \in DOMAIN order.outputs : order.outputs[i].chainId = dest
    BY <1>1 DEF PromiseInv
  <2> QED
    BY <1>1, <1>3, <2>1 DEF SettledWasDelivered, Verified, Pays
<1> QED
  BY <1>1, <1>4 DEF PromiseInv, Parsed

LEMMA PromiseStep == ProcessInv /\ FinalInv /\ PromiseInv /\ [Next]_vars => PromiseInv'
<1> SUFFICES ASSUME ProcessInv, FinalInv, PromiseInv, [Next]_vars, Settling PROVE PromiseInv'
  BY Frames DEF PromiseInv, Settling
<1>1. argv' = argv
  BY Frames
<1>2. ASSUME UNCHANGED <<order, dest, receipt, mode>>,
             pc' # "done" => (pc = "main" /\ pc' = "begin") \/ pc \in {"head", "scan"},
             receipt = NoReceipt, exit' # 0 \/ pc' # "done", pc # "done"
      PROVE  PromiseInv'
  BY <1>1, <1>2 DEF PromiseInv, Parsed, SettledWasDelivered, Verified, FinalInv
<1>3. CASE Dispatch
  <2>1. UNCHANGED settlementVars /\ pc = "main" /\ pc' = "begin"
    BY <1>3 DEF Dispatch, main, Exit, Settling, COMMANDS
  <2> QED
    BY <1>2, <2>1 DEF settlementVars, fillState, FinalInv
<1>4. CASE (NewBlock \/ Reorg) /\ UNCHANGED commandLine
  <2>1. UNCHANGED <<argv, pc, exit, order, dest, receipt, fillTx, mode>>
    BY <1>4 DEF NewBlock, Reorg, fillState, commandLine
  <2> QED
    BY <2>1 DEF PromiseInv, Parsed, SettledWasDelivered, Verified, Pays
<1>5. CASE ReadIntent
  BY <1>1, <1>5, ReadIntentStep
<1>6. CASE ScanHead \/ ScanChunk \/ SkipChunk \/ Discover
  <2>1. /\ UNCHANGED <<order, dest, receipt, mode>> /\ pc \in {"head", "scan"}
        /\ exit' # 0
    BY <1>6 DEF ScanHead, ScanChunk, SkipChunk, Discover, fillState, commandLine, Throw, Exit, ProcessInv, Running
  <2> QED
    BY <1>2, <2>1 DEF FinalInv
<1>7. CASE Diagnose
  BY <1>1, <1>7 DEF Diagnose, fillState, Exit, PromiseInv, Parsed, SettledWasDelivered, Verified, FinalInv
<1>8. CASE ReadFillReceipt
  BY <1>1, <1>8, ReceiptStep
<1>9. CASE Judge
  BY <1>1, <1>9, JudgeStep
<1>10. CASE ReadFails
  BY <1>1, <1>10 DEF ReadFails, settlementVars, fillState, Throw, Exit, PromiseInv, Parsed, SettledWasDelivered, Verified, FinalInv, Pays
<1>11. CASE UNCHANGED vars
  BY <1>11 DEF vars, commandLine, settlementVars, fillState, PromiseInv, Parsed, SettledWasDelivered, Verified, Settling, Pays
<1> QED
  BY <1>3, <1>4, <1>5, <1>6, <1>7, <1>8, <1>9, <1>10, <1>11
     DEF Next, Settle, WatchFeed, ProveMessage, ClassifyCode, SettlementNext, Settling, PqNext, PqReadiness, GetCodeFails

-----------------------------------------------------------------------------
(***************************************************************************)
(* Settlement: what was searched.  A delivery is where its block and its   *)
(* position say.                                                           *)
(***************************************************************************)
LEMMA PaymentIs ==
  ASSUME blocks \in Seq(Contents), NEW ns
  PROVE  /\ \A d \in Payments(ns) :
              /\ d.block \in ns /\ d.block \in DOMAIN blocks /\ d.block \in Nat
              /\ d.at \in DOMAIN blocks[d.block] /\ d.at \in Nat
              /\ d.tx = blocks[d.block][d.at].tx
              /\ d.value \in Nat
         /\ \A d \in Payments(ns) : \A ms : d.block \in ms => d \in Payments(ms)
<1>1. ASSUME NEW d \in Payments(ns)
      PROVE  \E n \in ns \cap DOMAIN blocks : \E i \in DOMAIN blocks[n] :
               /\ Pays(blocks[n][i], target)
               /\ d = [block |-> n, at |-> i, tx |-> blocks[n][i].tx, value |-> blocks[n][i].value]
  BY DEF Payments
<1>2. ASSUME NEW d \in Payments(ns)
      PROVE  /\ d.block \in ns /\ d.block \in DOMAIN blocks /\ d.block \in Nat
             /\ d.at \in DOMAIN blocks[d.block] /\ d.at \in Nat
             /\ d.tx = blocks[d.block][d.at].tx
             /\ d.value \in Nat
             /\ Pays(blocks[d.block][d.at], target)
             /\ d = [block |-> d.block, at |-> d.at, tx |-> blocks[d.block][d.at].tx, value |-> blocks[d.block][d.at].value]
  <2>0. PICK n \in ns \cap DOMAIN blocks : \E i \in DOMAIN blocks[n] :
          /\ Pays(blocks[n][i], target)
          /\ d = [block |-> n, at |-> i, tx |-> blocks[n][i].tx, value |-> blocks[n][i].value]
    BY <1>1
  <2>1. PICK i \in DOMAIN blocks[n] :
          /\ Pays(blocks[n][i], target)
          /\ d = [block |-> n, at |-> i, tx |-> blocks[n][i].tx, value |-> blocks[n][i].value]
    BY <2>0
  <2>2. d.block = n /\ d.at = i /\ d.tx = blocks[n][i].tx /\ d.value = blocks[n][i].value
    BY <2>1
  <2>3. n \in Nat /\ blocks[n] \in Contents
    OBVIOUS
  <2>4. blocks[n] \in Seq(ToSet(blocks[n])) /\ blocks[n][i] \in ToSet(blocks[n])
    BY <2>3, LogsAssumption DEF ToSet
  <2>5. i \in Nat
    BY <2>4
  <2>6. blocks[n][i].value \in Nat
    BY <2>1, <2>3, <2>4, LogsAssumption DEF Pays
  <2> QED
    BY <2>1, <2>2, <2>3, <2>5, <2>6
<1>3. ASSUME NEW d \in Payments(ns), NEW ms, d.block \in ms PROVE d \in Payments(ms)
  <2>1. d.block \in ms \cap DOMAIN blocks /\ d.at \in {j \in DOMAIN blocks[d.block] : Pays(blocks[d.block][j], target)}
    BY <1>2, <1>3
  <2> QED
    BY <1>2, <2>1 DEF Payments
<1> QED
  BY <1>2, <1>3

LEMMA PaymentsFinite ==
  ASSUME blocks \in Seq(Contents), NEW ns
  PROVE  IsFiniteSet(Payments(ns))
<1> DEFINE places(n) == {j \in DOMAIN blocks[n] : Pays(blocks[n][j], target)}
           at(n) == {[block |-> n, at |-> i, tx |-> blocks[n][i].tx, value |-> blocks[n][i].value] : i \in places(n)}
           all == {at(n) : n \in ns \cap DOMAIN blocks}
<1>1. ASSUME NEW n \in DOMAIN blocks PROVE IsFiniteSet(at(n))
  <2>1. blocks[n] \in Seq(ToSet(blocks[n]))
    BY LogsAssumption
  <2>2. DOMAIN blocks[n] = 1 .. Len(blocks[n]) /\ Len(blocks[n]) \in Nat
    BY <2>1
  <2>3. IsFiniteSet(DOMAIN blocks[n])
    BY <2>2, FS_Interval
  <2>4. IsFiniteSet(places(n))
    <3>1. places(n) \in SUBSET DOMAIN blocks[n]
      OBVIOUS
    <3> QED
      BY <2>3, <3>1, FS_Subset
  <2> DEFINE f == [i \in places(n) |-> [block |-> n, at |-> i, tx |-> blocks[n][i].tx, value |-> blocks[n][i].value]]
  <2>5. f \in Surjection(places(n), at(n))
    BY DEF Surjection
  <2> HIDE DEF f, places, at
  <2> QED
    BY <2>4, <2>5, FS_Surjection
<1> HIDE DEF at
<1>2. IsFiniteSet(all)
  <2>1. IsFiniteSet(ns \cap DOMAIN blocks)
    <3>1. DOMAIN blocks = 1 .. Len(blocks) /\ Len(blocks) \in Nat
      OBVIOUS
    <3>2. IsFiniteSet(DOMAIN blocks)
      BY <3>1, FS_Interval
    <3> QED
      BY <3>2, FS_Intersection
  <2> DEFINE f == [n \in ns \cap DOMAIN blocks |-> at(n)]
  <2>2. f \in Surjection(ns \cap DOMAIN blocks, all)
    BY DEF Surjection
  <2> HIDE DEF f, all
  <2> QED
    BY <2>1, <2>2, FS_Surjection
<1>3. \A T \in all : IsFiniteSet(T)
  BY <1>1
<1>4. IsFiniteSet(UNION all)
  <2> HIDE DEF all
  <2> QED
    BY <1>2, <1>3, FS_UNION
<1>5. Payments(ns) = UNION all
  BY DEF Payments, at
<1> QED
  BY <1>4, <1>5

\* Of finitely many deliveries one is not later than any other, and one not earlier.
LEMMA FirstAndLast ==
  ASSUME NEW D, IsFiniteSet(D), D # {}, \A d \in D : d.block \in Nat /\ d.at \in Nat
  PROVE  /\ \E d \in D : \A e \in D : ~Earlier(e, d)
         /\ \E d \in D : \A e \in D : ~Earlier(d, e)
<1> DEFINE IsFirst(T) == \E d \in T : \A e \in T : ~Earlier(e, d)
           IsLast(T) == \E d \in T : \A e \in T : ~Earlier(d, e)
           Q == {T \in SUBSET D : T # {} => IsFirst(T) /\ IsLast(T)}
<1>0. ASSUME NEW d \in D, NEW e \in D, NEW f \in D, ~Earlier(e, d), ~Earlier(f, e) PROVE ~Earlier(f, d)
  BY <1>0 DEF Earlier
<1>1. ASSUME NEW d \in D PROVE ~Earlier(d, d)
  BY DEF Earlier
<1>2. ASSUME NEW d \in D, NEW e \in D PROVE ~Earlier(d, e) \/ ~Earlier(e, d)
  BY DEF Earlier
<1>3. ASSUME NEW T \in SUBSET D, \A U \in SUBSET T : U # T => U \in Q PROVE T \in Q
  <2> SUFFICES ASSUME T # {} PROVE IsFirst(T) /\ IsLast(T)
    OBVIOUS
  <2>1. PICK x \in T : TRUE
    OBVIOUS
  <2>2. CASE T = {x}
    BY <1>1, <2>2
  <2>3. CASE T # {x}
    <3> DEFINE U == T \ {x}
    <3>1. IsFirst(U) /\ IsLast(U)
      <4>1. U \in SUBSET T /\ U # T /\ U # {}
        BY <2>1, <2>3
      <4>2. U \in Q
        BY <1>3, <4>1
      <4> HIDE DEF U, IsFirst, IsLast
      <4> QED
        BY <4>1, <4>2
    <3>2. PICK a \in U : \A e \in U : ~Earlier(e, a)
      BY <3>1
    <3>3. PICK z \in U : \A e \in U : ~Earlier(z, e)
      BY <3>1
    <3>4. IsFirst(T)
      <4>1. CASE ~Earlier(x, a)
        BY <3>2, <4>1
      <4>2. CASE Earlier(x, a)
        <5>1. ~Earlier(a, x)
          BY <1>2, <4>2
        <5>2. \A e \in T : ~Earlier(e, x)
          BY <1>0, <1>1, <3>2, <5>1
        <5> QED
          BY <5>2
      <4> QED
        BY <4>1, <4>2
    <3>5. IsLast(T)
      <4>1. CASE ~Earlier(z, x)
        BY <3>3, <4>1
      <4>2. CASE Earlier(z, x)
        <5>1. ~Earlier(x, z)
          BY <1>2, <4>2
        <5>2. \A e \in T : ~Earlier(x, e)
          BY <1>0, <1>1, <3>3, <5>1
        <5> QED
          BY <5>2
      <4> QED
        BY <4>1, <4>2
    <3> QED
      BY <3>4, <3>5
  <2> QED
    BY <2>2, <2>3
<1> HIDE DEF Q
<1>4. D \in Q
  BY <1>3, SubsetInduction
<1> QED
  BY <1>4 DEF Q

LEMMA MinOfTwo ==
  ASSUME NEW a \in Int, NEW b \in Int
  PROVE  Min({a, b}) \in {a, b} /\ Min({a, b}) <= a /\ Min({a, b}) <= b
BY DEF Min

LEMMA MaxOfTwo ==
  ASSUME NEW a \in Int, NEW b \in Int
  PROVE  Max({a, b}) \in {a, b} /\ Max({a, b}) >= a /\ Max({a, b}) >= b
BY DEF Max

\* The ranges asked for cover the window, and nothing else.
LEMMA RangesCover ==
  ASSUME NEW from \in Nat, NEW to \in Nat, from <= to, NEW size \in Nat
  PROVE  /\ chunkRange(from, to, size) \in Seq(Int \X Int)
         /\ \A i \in DOMAIN chunkRange(from, to, size) :
              chunkRange(from, to, size)[i][1] .. chunkRange(from, to, size)[i][2] \subseteq from .. to
         /\ \A n \in from .. to : \E i \in DOMAIN chunkRange(from, to, size) :
              n \in chunkRange(from, to, size)[i][1] .. chunkRange(from, to, size)[i][2]
<1> DEFINE step == Max({1, size})
           count == (to - from) \div step + 1
           first(i) == from + (i - 1) * step
           last(i) == Min({from + i * step - 1, to})
<1>1. step \in Nat /\ step > 0
  BY DEF Max
<1>2. chunkRange(from, to, size) = [i \in 1 .. count |-> <<first(i), last(i)>>]
  BY DEF chunkRange, NaN
<1> HIDE DEF step
<1>3. count \in Nat /\ count > 0
  BY <1>1
<1>4. ASSUME NEW i \in Nat PROVE first(i) \in Int /\ last(i) \in Int /\ last(i) <= to
                                 /\ (last(i) = to \/ last(i) = first(i) + step - 1)
  <2>1. i * step \in Int /\ (i - 1) * step \in Int /\ i * step = (i - 1) * step + step
    BY <1>1
  <2>2. from + i * step - 1 \in Int
    BY <2>1
  <2>3. last(i) \in {from + i * step - 1, to} /\ last(i) <= to
    <3> DEFINE end == from + i * step - 1
    <3>1. end \in Int /\ to \in Int /\ last(i) = Min({end, to})
      BY <2>2
    <3> HIDE DEF end, last
    <3>2. Min({end, to}) \in {end, to} /\ Min({end, to}) <= to
      BY <3>1, MinOfTwo
    <3> QED
      BY <3>1, <3>2 DEF end
  <2> QED
    BY <1>1, <2>1, <2>3
<1>5. ASSUME NEW i \in 1 .. count PROVE first(i) >= from
  <2>1. (i - 1) * step >= 0
    BY <1>1, <1>3
  <2> QED
    BY <1>1, <1>3, <2>1
<1>6. ASSUME NEW n \in from .. to PROVE \E i \in 1 .. count : n \in first(i) .. last(i)
  <2> DEFINE q == (n - from) \div step
  <2>1. q \in Nat /\ q * step <= n - from /\ n - from < q * step + step
    BY <1>1
  <2>2. q + 1 \in 1 .. count
    <3> DEFINE Q == (to - from) \div step
    <3>1. Q \in Nat /\ to - from < Q * step + step
      BY <1>1
    <3>2. q <= Q
      <4> SUFFICES ASSUME q > Q PROVE FALSE
        BY <2>1, <3>1
      <4>1. PICK k \in Nat : q = Q + 1 + k
        <5>1. q - Q - 1 \in Nat
          BY <2>1, <3>1
        <5> QED
          BY <2>1, <3>1, <5>1
      <4> HIDE DEF q, Q
      <4>2. q * step = Q * step + step + k * step /\ k * step >= 0
        BY <1>1, <3>1, <4>1
      <4>3. q * step \in Int /\ Q * step \in Int /\ k * step \in Int
        BY <1>1, <2>1, <3>1
      <4> QED
        BY <1>1, <2>1, <3>1, <4>2, <4>3
    <3> QED
      BY <2>1, <3>1, <3>2
  <2>3. first(q + 1) <= n /\ n < first(q + 1) + step
    <3>1. first(q + 1) = from + q * step
      BY <1>1, <2>1
    <3> QED
      BY <1>1, <2>1, <3>1
  <2>4. n <= last(q + 1)
    <3>1. /\ first(q + 1) \in Int /\ last(q + 1) \in Int
          /\ last(q + 1) = to \/ last(q + 1) = first(q + 1) + step - 1
      BY <1>4, <2>1
    <3> HIDE DEF q, first, last
    <3> QED
      BY <1>1, <2>3, <3>1
  <2> HIDE DEF q, first, last
  <2> QED
    BY <1>4, <2>1, <2>2, <2>3, <2>4
<1> HIDE DEF first, last
<1>7. ASSUME NEW i \in 1 .. count PROVE first(i) .. last(i) \subseteq from .. to
  BY <1>3, <1>4, <1>5
<1>8. chunkRange(from, to, size) \in Seq(Int \X Int)
  <2>1. [i \in 1 .. count |-> <<first(i), last(i)>>] \in [1 .. count -> Int \X Int]
    BY <1>3, <1>4
  <2> HIDE DEF count
  <2> QED
    BY <1>2, <1>3, <2>1, SeqDef
<1> HIDE DEF count
<1>9. /\ DOMAIN chunkRange(from, to, size) = 1 .. count
      /\ \A i \in 1 .. count : chunkRange(from, to, size)[i][1] = first(i) /\ chunkRange(from, to, size)[i][2] = last(i)
  BY <1>2
<1> QED
  BY <1>6, <1>7, <1>8, <1>9


\* The value of deliveries is such a sum, for all the subsets of a set at once.
LEMMA ValueIsSum ==
  ASSUME NEW S, IsFiniteSet(S), \A d \in S : d.value \in Nat
  PROVE  \E g \in [SUBSET S -> Nat] :
           /\ Adds(g, [d \in S |-> d.value], SUBSET S)
           /\ \A T \in SUBSET S : ValueOf(T) = g[T]
<1> DEFINE f == [d \in S |-> d.value]
<1>1. f \in [S -> Nat]
  OBVIOUS
<1>2. PICK g \in [SUBSET S -> Nat] : Adds(g, f, SUBSET S)
  <2> HIDE DEF f
  <2> QED BY <1>1, SumExists
<1>3. ASSUME NEW T \in SUBSET S PROVE ValueOf(T) = g[T]
  <2> DEFINE P(h) == h = [U \in SUBSET T |->
                            IF U = {} THEN 0
                            ELSE (CHOOSE x \in U : TRUE).value + h[U \ {CHOOSE x \in U : TRUE}]]
             sum == CHOOSE h : P(h)
             ours == [U \in SUBSET T |-> g[U]]
  <2>1. P(ours)
    <3>1. ASSUME NEW U \in SUBSET T, U # {}
          PROVE  g[U] = (CHOOSE x \in U : TRUE).value + ours[U \ {CHOOSE x \in U : TRUE}]
      <4>1. Picked(U) \in U
        BY <3>1 DEF Picked
      <4>2. g[U] = f[Picked(U)] + g[U \ {Picked(U)}]
        BY <1>2, <3>1 DEF Adds
      <4> QED BY <4>1, <4>2 DEF Picked
    <3>2. g[{}] = 0
      BY <1>2 DEF Adds
    <3> QED BY <3>1, <3>2
  <2>2. P(sum)
    <3> HIDE DEF P
    <3> QED BY <2>1
  <2>3. ValueOf(T) = sum[T]
    BY DEF ValueOf, MapThenSumSet, MapThenFoldSet
  <2> HIDE DEF sum
  <2> DEFINE Q == {U \in SUBSET T : sum[U] = g[U]}
  <2>4. ASSUME NEW U \in SUBSET T, \A V \in SUBSET U : V # U => V \in Q PROVE U \in Q
    <3>1. CASE U = {}
      BY <2>1, <2>2, <3>1
    <3>2. CASE U # {}
      <4> DEFINE x == CHOOSE x \in U : TRUE
      <4>1. x \in U
        BY <3>2
      <4>2. sum[U \ {x}] = g[U \ {x}] /\ U \ {x} \in SUBSET T
        BY <2>4, <4>1
      <4>3. sum[U] = x.value + sum[U \ {x}]
        BY <2>2, <3>2
      <4>4. ours[U] = x.value + ours[U \ {x}]
        BY <2>1, <3>2
      <4> QED BY <4>2, <4>3, <4>4
    <3> QED BY <3>1, <3>2
  <2>5. T \in Q
    <3>1. IsFiniteSet(T)
      BY FS_Subset
    <3> HIDE DEF Q
    <3> QED BY <2>4, <3>1, SubsetInduction
  <2> QED BY <2>3, <2>5
<1> QED BY <1>2, <1>3


\* More deliveries are worth no less.
LEMMA ValueGrows ==
  ASSUME NEW E, IsFiniteSet(E), \A d \in E : d.value \in Nat, NEW D \in SUBSET E
  PROVE  ValueOf(D) \in Nat /\ ValueOf(E) \in Nat /\ ValueOf(D) <= ValueOf(E)
<1> DEFINE f == [d \in E |-> d.value]
<1>1. f \in [E -> Nat]
  OBVIOUS
<1>2. PICK g \in [SUBSET E -> Nat] : Adds(g, f, SUBSET E) /\ \A T \in SUBSET E : ValueOf(T) = g[T]
  BY ValueIsSum
<1> HIDE DEF f
<1>3. g[D] <= g[E]
  BY <1>1, <1>2, SumGrows
<1> QED
  BY <1>2, <1>3

-----------------------------------------------------------------------------
(***************************************************************************)
(* While no block is replaced, what was found is what the chain holds in   *)
(* the window, but for ranges still to ask and ranges that were skipped.   *)
(* The window itself is below the head that was read, so that new blocks   *)
(* do not matter.                                                          *)
(***************************************************************************)
Scanned == pc = "scan" \/ mode # None \/ (pc = "receipt" /\ argv.fillTx = None)

Pending(n) == \E i \in DOMAIN chunks : n \in chunks[i][1] .. chunks[i][2]

ScanInv ==
  /\ verifiable # {}
  /\ window \in Int \X Nat /\ (window[1] # NaN => window[1] \in Nat)
  /\ chunks \in Seq(Int \X Int)
  /\ reorgs = 0 =>
       /\ window[2] <= Len(blocks)
       /\ \A i \in DOMAIN chunks : chunks[i][1] .. chunks[i][2] \subseteq Window
       /\ found \subseteq Payments(Window)
       /\ \A d \in Payments(Window) : d \in found \/ d.block \in skipped \/ Pending(d.block)

PickInv ==
  /\ mode # None =>
       /\ pc = "done" /\ chunks = <<>>
       /\ mode = diagnose(target.amount, order.fillDeadline, found)
       /\ exit = 0 <=> mode = "settled"
  /\ pc = "receipt" /\ argv.fillTx = None =>
       /\ chunks = <<>> /\ fillTx # None
       /\ fillTx = selectFillTx(target, found)

ChainInv == reorgs \in Nat /\ (reorgs = 0 => Len(blocks) <= MaxBlock /\ OneBlockEach(blocks))

SearchInv ==
  Settling =>
    /\ ChainInv
    /\ pc \in {"main", "begin", "head"} => found = {} /\ skipped = {}
    /\ Scanned => ScanInv
    /\ PickInv

LEMMA SearchInit == Init => SearchInv
BY SettlementAssumption DEF Init, SettlementInit, SearchInv, ChainInv, Scanned, PickInv, OneBlockEach

\* What the scan knows depends on the chain only through its window.
LEMMA ScanKept ==
  ASSUME ScanInv, UNCHANGED <<order, dest, window, chunks, found, skipped>>,
         reorgs' = 0 =>
           /\ reorgs = 0 /\ Len(blocks) \in Nat /\ Len(blocks') \in Nat /\ Len(blocks) <= Len(blocks')
           /\ DOMAIN blocks = 1 .. Len(blocks) /\ DOMAIN blocks' = 1 .. Len(blocks')
           /\ \A n \in DOMAIN blocks : blocks'[n] = blocks[n]
  PROVE  ScanInv'
<1>1. target' = target /\ verifiable' = verifiable /\ Window' = Window
  BY DEF target, verifiable, onDest, Window
<1>2. ASSUME reorgs' = 0 PROVE Payments(Window)' = Payments(Window) /\ window[2] <= Len(blocks')
  <2>1. Window \in SUBSET (0 .. Len(blocks))
    BY <1>2 DEF Window, ScanInv
  <2>2. Window \cap DOMAIN blocks' = Window \cap DOMAIN blocks
    BY <1>2, <2>1
  <2>3. \A n \in Window \cap DOMAIN blocks : blocks'[n] = blocks[n]
    BY <1>2
  <2> HIDE DEF Window
  <2>4. Payments(Window)' = Payments(Window)
    <3> DEFINE on(bs, n) == {[block |-> n, at |-> i, tx |-> bs[n][i].tx, value |-> bs[n][i].value] :
                              i \in {j \in DOMAIN bs[n] : Pays(bs[n][j], target)}}
    <3>1. Payments(Window) = UNION {on(blocks, n) : n \in Window \cap DOMAIN blocks}
      BY DEF Payments
    <3>2. Payments(Window)' = UNION {on(blocks', n) : n \in Window \cap DOMAIN blocks'}
      BY <1>1 DEF Payments
    <3>3. \A n \in Window \cap DOMAIN blocks : on(blocks', n) = on(blocks, n)
      BY <2>3
    <3> HIDE DEF on
    <3> QED
      BY <2>2, <3>1, <3>2, <3>3
  <2>5. window[2] <= Len(blocks')
    BY <1>2 DEF ScanInv
  <2> QED
    BY <2>4, <2>5
<1>3. \A n : Pending(n)' <=> Pending(n)
  BY DEF Pending
<1> QED
  BY <1>1, <1>2, <1>3 DEF ScanInv

\* The window is below the head, and its ranges are all asked for.
LEMMA ScanHeadStep ==
  ASSUME ProcessInv, FinalInv, PromiseInv, SearchInv, Settling, ScanHead, argv' = argv
  PROVE  SearchInv'
<1>1. /\ UNCHANGED <<blocks, reorgs, order, dest, found, skipped, fillTx, mode>> /\ pc = "head" /\ mode = None
      /\ found = {} /\ skipped = {} /\ blocks \in Seq(Contents) /\ ChainInv
  BY DEF ScanHead, chain, fillState, PromiseInv, SearchInv, FinalInv
<1>4. ChainInv'
  BY <1>1 DEF ChainInv
<1>2. CASE pc' = "done"
  BY <1>1, <1>2, <1>4 DEF SearchInv, Scanned, PickInv
<1>3. CASE pc' # "done"
  <2> DEFINE n == argv.scanBlocks
             from == Max({0, HeadBlock - Max({1, n})})
  <2>1. /\ pc' = "scan" /\ verifiable # {}
        /\ window' = <<IF n = NaN THEN NaN ELSE from, HeadBlock>>
        /\ chunks' = chunkRange(window'[1], HeadBlock, SCAN_CHUNK)
    BY <1>3 DEF ScanHead, Throw, Exit
  <2>2. n \in Int /\ HeadBlock \in Nat /\ SCAN_CHUNK \in Nat
    BY <1>1, InvocationsAssumption, SettlementAssumption DEF ProcessInv, Settling, HeadBlock
  <2>3. from \in Nat /\ from <= HeadBlock
    <3>1. Max({1, n}) \in {1, n} /\ Max({1, n}) >= 1
      <4> HIDE DEF n
      <4> QED
        BY <2>2, MaxOfTwo
    <3> DEFINE low == HeadBlock - Max({1, n})
    <3>2. low \in Int /\ low <= HeadBlock
      BY <2>2, <3>1
    <3> HIDE DEF low
    <3>3. Max({0, low}) \in {0, low} /\ Max({0, low}) >= 0
      BY <3>2, MaxOfTwo
    <3> QED
      BY <2>2, <3>2, <3>3 DEF low
  <2> HIDE DEF from
  <2>4. UNCHANGED <<target, verifiable>>
    BY <1>1 DEF target, verifiable, onDest
  <2>5. CASE n = NaN
    <3>1. window' = <<NaN, HeadBlock>> /\ chunks' = <<>> /\ Window' = {}
      BY <2>1, <2>5 DEF chunkRange, Window
    <3>2. Payments(Window)' = {}
      BY <3>1 DEF Payments
    <3>3. /\ window' \in Int \X Nat /\ window'[1] = NaN /\ window'[2] = Len(blocks')
          /\ chunks' \in Seq(Int \X Int) /\ DOMAIN chunks' = {}
      BY <1>1, <2>2, <3>1 DEF HeadBlock, NaN
    <3>4. window'[2] <= Len(blocks')
      BY <3>3
    <3>5. ScanInv'
      BY <1>1, <2>1, <2>4, <3>2, <3>3, <3>4 DEF ScanInv
    <3> QED
      BY <1>1, <1>4, <2>1, <3>5 DEF SearchInv, PickInv, Scanned
  <2>6. CASE n # NaN
    <3>1. window' = <<from, HeadBlock>> /\ chunks' = chunkRange(from, HeadBlock, SCAN_CHUNK) /\ from # NaN
      BY <2>1, <2>3, <2>6 DEF NaN
    <3>2. Window' = from .. HeadBlock
      BY <3>1 DEF Window
    <3>3. /\ chunks' \in Seq(Int \X Int)
          /\ \A i \in DOMAIN chunks' : chunks'[i][1] .. chunks'[i][2] \subseteq Window'
          /\ \A k \in Window' : \E i \in DOMAIN chunks' : k \in chunks'[i][1] .. chunks'[i][2]
      <4> DEFINE to == HeadBlock
                 cs == chunkRange(from, to, SCAN_CHUNK)
      <4>1. to \in Nat /\ from <= to
        BY <2>2, <2>3
      <4> HIDE DEF to
      <4>2. /\ cs \in Seq(Int \X Int)
            /\ \A i \in DOMAIN cs : cs[i][1] .. cs[i][2] \subseteq from .. to
            /\ \A k \in from .. to : \E i \in DOMAIN cs : k \in cs[i][1] .. cs[i][2]
        BY <2>2, <2>3, <4>1, RangesCover
      <4>3. chunks' = cs /\ Window' = from .. to
        BY <3>1, <3>2 DEF to
      <4> HIDE DEF cs
      <4> QED
        BY <4>2, <4>3
    <3>4. \A d \in Payments(Window)' : Pending(d.block)'
      <4>1. Payments(Window)' = Payments(from .. HeadBlock)
        BY <1>1, <2>4, <3>2 DEF Payments
      <4>2. \A d \in Payments(from .. HeadBlock) : d.block \in from .. HeadBlock
        BY <1>1, PaymentIs
      <4> QED
        BY <3>2, <3>3, <4>1, <4>2 DEF Pending
    <3>5. window' \in Int \X Nat /\ window'[1] \in Nat /\ window'[2] = Len(blocks')
      BY <1>1, <2>2, <2>3, <3>1 DEF HeadBlock
    <3>6. ScanInv'
      <4>1. window'[2] <= Len(blocks')
        BY <2>2, <3>5, <1>1 DEF HeadBlock
      <4> QED
        BY <1>1, <2>1, <2>4, <3>3, <3>4, <3>5, <4>1 DEF ScanInv
    <3> QED
      BY <1>1, <1>4, <2>1, <3>6 DEF SearchInv, PickInv, Scanned
  <2> QED
    BY <2>5, <2>6
<1> QED
  BY <1>2, <1>3

\* One range is asked for, or skipped; the others are still to come.
LEMMA ChunkStep ==
  ASSUME ProcessInv, FinalInv, PromiseInv, SearchInv, Settling, ScanChunk \/ SkipChunk, argv' = argv
  PROVE  SearchInv'
<1>1. /\ UNCHANGED <<blocks, reorgs, order, dest, window, fillTx, mode, pc>> /\ pc = "scan" /\ mode = None
      /\ chunks # <<>> /\ chunks' = Tail(chunks)
      /\ blocks \in Seq(Contents) /\ ChainInv /\ ScanInv
  BY DEF ScanChunk, SkipChunk, chain, fillState, commandLine, PromiseInv, SearchInv, FinalInv, Scanned
<1> DEFINE range == chunks[1][1] .. chunks[1][2]
<1>2. /\ found' \subseteq found \cup Payments(range) /\ found \subseteq found'
      /\ skipped \subseteq skipped'
      /\ Payments(range) \subseteq found' \/ range \subseteq skipped'
  <2>1. CASE ScanChunk
    BY <2>1 DEF ScanChunk, queryFilter
  <2>2. CASE SkipChunk
    BY <2>2 DEF SkipChunk, queryFilter
  <2> QED
    BY <2>1, <2>2
<1>3. /\ chunks \in Seq(Int \X Int) /\ Tail(chunks) \in Seq(Int \X Int)
      /\ DOMAIN chunks = 1 .. Len(chunks) /\ Len(chunks) \in Nat /\ 1 \in DOMAIN chunks
      /\ DOMAIN Tail(chunks) = 1 .. Len(chunks) - 1
      /\ \A i \in DOMAIN Tail(chunks) : i + 1 \in DOMAIN chunks /\ Tail(chunks)[i] = chunks[i + 1]
  BY <1>1 DEF ScanInv
<1>4. \A n : Pending(n) => n \in range \/ Pending(n)'
  <2> SUFFICES ASSUME NEW n, NEW i \in DOMAIN chunks, n \in chunks[i][1] .. chunks[i][2], i # 1
               PROVE  Pending(n)'
    BY DEF Pending
  <2>1. i - 1 \in DOMAIN Tail(chunks) /\ Tail(chunks)[i - 1] = chunks[i]
    <3>1. i \in 1 .. Len(chunks) /\ i # 1
      BY <1>3
    <3>2. i - 1 \in 1 .. Len(chunks) - 1 /\ (i - 1) + 1 = i
      BY <1>3, <3>1
    <3> QED
      BY <1>3, <3>2
  <2> QED
    BY <1>1, <2>1 DEF Pending
<1>5. UNCHANGED <<target, verifiable, Window>>
  BY <1>1 DEF target, verifiable, onDest, Window
<1>6. Payments(Window)' = Payments(Window)
  BY <1>1, <1>5 DEF Payments
<1>7. ASSUME reorgs = 0
      PROVE  /\ window[2] <= Len(blocks')
             /\ \A i \in DOMAIN chunks' : chunks'[i][1] .. chunks'[i][2] \subseteq Window'
             /\ found' \subseteq Payments(Window)'
             /\ \A d \in Payments(Window)' : d \in found' \/ d.block \in skipped' \/ Pending(d.block)'
  <2>1. range \subseteq Window /\ found \subseteq Payments(Window)
    BY <1>1, <1>3, <1>7 DEF ScanInv
  <2>2. Payments(range) \subseteq Payments(Window)
    BY <1>1, <2>1, PaymentIs
  <2>3. \A i \in DOMAIN chunks' : chunks'[i][1] .. chunks'[i][2] \subseteq Window'
    BY <1>1, <1>3, <1>5, <1>7 DEF ScanInv
  <2>4. ASSUME NEW d \in Payments(Window), d \notin found', d.block \notin skipped'
        PROVE  Pending(d.block)'
    <3>1. Pending(d.block)
      BY <1>1, <1>2, <1>7, <2>4 DEF ScanInv
    <3>2. d.block \notin range
      BY <1>1, <1>2, <2>4, PaymentIs
    <3> QED
      BY <1>4, <3>1, <3>2
  <2> QED
    BY <1>1, <1>2, <1>6, <1>7, <2>1, <2>2, <2>3, <2>4 DEF ScanInv
<1>8. ScanInv'
  BY <1>1, <1>3, <1>5, <1>7 DEF ScanInv
<1> QED
  <2>1. ChainInv'
    BY <1>1 DEF ChainInv
  <2> QED
    BY <1>1, <1>8, <2>1 DEF SearchInv, PickInv, Scanned

LEMMA SearchStep == ProcessInv /\ FinalInv /\ PromiseInv /\ SearchInv /\ [Next]_vars => SearchInv'
<1> SUFFICES ASSUME ProcessInv, FinalInv, PromiseInv, SearchInv, [Next]_vars, Settling PROVE SearchInv'
  BY Frames DEF SearchInv, Settling
<1>1. argv' = argv
  BY Frames
<1>2. ChainInv /\ blocks \in Seq(Contents) /\ Len(blocks) \in Nat
  BY DEF SearchInv, FinalInv
<1>3. ASSUME UNCHANGED <<blocks, reorgs>> PROVE ChainInv'
  BY <1>2, <1>3 DEF ChainInv
<1>4. UNCHANGED <<order, dest>> => target' = target
  BY DEF target, verifiable, onDest
<1>5. ASSUME UNCHANGED <<blocks, reorgs, order, dest, window, chunks, found, skipped>>, ScanInv PROVE ScanInv'
  BY <1>2, <1>5, ScanKept
<1>6. ASSUME UNCHANGED <<pc, exit, order, dest, window, chunks, found, skipped, fillTx, mode>>,
             ChainInv', Scanned => ScanInv'
      PROVE  SearchInv'
  BY <1>1, <1>4, <1>6 DEF SearchInv, PickInv, Scanned
<1>7. ASSUME UNCHANGED <<blocks, reorgs, mode, found, skipped>>, mode = None,
             \/ pc' = "begin" /\ pc = "main"
             \/ pc' = "head" /\ pc = "begin"
             \/ pc' \in {"times", "done"}
             \/ pc' = "receipt" /\ argv.fillTx # None
      PROVE  SearchInv'
  BY <1>1, <1>3, <1>7 DEF SearchInv, PickInv, Scanned
<1>8. CASE Dispatch
  <2>1. UNCHANGED settlementVars /\ pc = "main" /\ pc' = "begin"
    BY <1>8 DEF Dispatch, main, Exit, Settling, COMMANDS
  <2>2. UNCHANGED <<blocks, reorgs, mode, found, skipped>> /\ mode = None
    BY <2>1 DEF settlementVars, chain, scanState, PromiseInv
  <2> QED
    BY <1>7, <2>1, <2>2
<1>9. CASE NewBlock /\ UNCHANGED commandLine
  <2>1. UNCHANGED <<pc, exit, order, dest, window, chunks, found, skipped, fillTx, mode, reorgs>>
    BY <1>9 DEF NewBlock, commandLine, scanState, fillState
  <2>2. PICK c \in Contents : blocks' = Append(blocks, c)
    BY <1>9 DEF NewBlock
  <2>3. /\ Len(blocks') = Len(blocks) + 1
        /\ DOMAIN blocks = 1 .. Len(blocks) /\ DOMAIN blocks' = 1 .. Len(blocks')
        /\ \A n \in DOMAIN blocks : blocks'[n] = blocks[n]
    BY <1>2, <2>2
  <2>4. ChainInv'
    <3>1. Len(blocks) < MaxBlock /\ OneBlockEach(blocks')
      BY <1>9 DEF NewBlock, HeadBlock
    <3>2. Len(blocks') <= MaxBlock
      BY <1>2, <2>3, <3>1, SettlementAssumption
    <3> QED
      BY <1>2, <2>1, <3>1, <3>2 DEF ChainInv
  <2>5. ScanInv => ScanInv'
    <3>1. Len(blocks') \in Nat /\ Len(blocks) <= Len(blocks')
      BY <1>2, <2>3
    <3> QED
      BY <1>2, <2>1, <2>3, <3>1, ScanKept
  <2> QED
    BY <1>6, <2>1, <2>4, <2>5 DEF SearchInv
<1>10. CASE Reorg /\ UNCHANGED commandLine
  <2>1. UNCHANGED <<pc, exit, order, dest, window, chunks, found, skipped, fillTx, mode>> /\ reorgs' = reorgs + 1
    BY <1>10 DEF Reorg, commandLine, scanState
  <2>2. reorgs' \in Nat /\ reorgs' # 0
    BY <1>2, <2>1 DEF ChainInv
  <2>3. ChainInv'
    BY <2>2 DEF ChainInv
  <2>4. ScanInv => ScanInv'
    BY <2>1, <2>2, ScanKept
  <2> QED
    BY <1>6, <2>1, <2>3, <2>4 DEF SearchInv
<1>11. CASE ReadIntent
  <2>1. UNCHANGED <<blocks, reorgs, mode, found, skipped>> /\ mode = None /\ pc = "begin"
    BY <1>11 DEF ReadIntent, chain, scanState, PromiseInv
  <2>2. pc' \in {"done", "head"} \/ (pc' = "receipt" /\ argv.fillTx # None)
    BY <1>11 DEF ReadIntent, Throw, Exit
  <2> QED
    BY <1>7, <2>1, <2>2
<1>12. CASE ScanHead
  BY <1>1, <1>12, ScanHeadStep
<1>13. CASE ScanChunk \/ SkipChunk
  BY <1>1, <1>13, ChunkStep
<1>14. CASE Discover
  <2>1. /\ UNCHANGED <<blocks, reorgs, order, dest, window, chunks, found, skipped, mode>>
        /\ pc = "scan" /\ chunks = <<>> /\ mode = None /\ fillTx' = selectFillTx(target, found)
        /\ pc' = "done" \/ (pc' = "receipt" /\ fillTx' # None)
    BY <1>14 DEF Discover, chain, scanState, Throw, Exit, PromiseInv
  <2>2. ScanInv'
    BY <1>5, <2>1 DEF SearchInv, Scanned
  <2>3. fillTx' = selectFillTx(target', found')
    BY <1>4, <2>1
  <2> QED
    BY <1>1, <1>3, <2>1, <2>2, <2>3 DEF SearchInv, PickInv, Scanned
<1>15. CASE Diagnose
  <2>1. /\ UNCHANGED <<blocks, reorgs, order, dest, window, chunks, found, skipped>>
        /\ pc = "scan" /\ chunks = <<>> /\ mode' = diagnose(target.amount, order.fillDeadline, found)
        /\ pc' = "done" /\ exit' = IF mode' = "settled" THEN 0 ELSE 1
    BY <1>15 DEF Diagnose, chain, scanState, Exit
  <2>2. ScanInv'
    BY <1>5, <2>1 DEF SearchInv, Scanned
  <2>3. mode' = diagnose(target'.amount, order'.fillDeadline, found')
    BY <1>4, <2>1
  <2>4. PickInv'
    BY <2>1, <2>3 DEF PickInv
  <2> QED
    BY <1>1, <1>3, <2>1, <2>2, <2>4 DEF SearchInv
<1>16. CASE ReadFillReceipt \/ Judge \/ ReadFails
  <2>1. UNCHANGED <<blocks, reorgs, mode, found, skipped>> /\ mode = None /\ pc' \in {"times", "done"}
    BY <1>16 DEF ReadFillReceipt, Judge, ReadFails, settlementVars, chain, scanState, Throw, Exit, PromiseInv
  <2> QED
    BY <1>7, <2>1
<1>17. CASE UNCHANGED vars
  <2>1. UNCHANGED <<blocks, reorgs, order, dest, window, chunks, found, skipped, pc, exit, fillTx, mode>>
    BY <1>17 DEF vars, commandLine, settlementVars, chain, scanState, fillState
  <2> QED
    BY <1>3, <1>5, <1>6, <2>1 DEF SearchInv
<1> QED
  BY <1>8, <1>9, <1>10, <1>11, <1>12, <1>13, <1>14, <1>15, <1>16, <1>17
     DEF Next, Settle, WatchFeed, ProveMessage, ClassifyCode, SettlementNext, Settling, PqNext, PqReadiness, GetCodeFails
-----------------------------------------------------------------------------
(***************************************************************************)
(* What a scan at its end says of the chain.                               *)
(***************************************************************************)
\* Every delivery in the window was found, but for those in skipped ranges.
LEMMA ScanDone ==
  ASSUME FinalInv, PromiseInv, SearchInv, Settling, Scanned, chunks = <<>>, reorgs = 0
  PROVE  /\ blocks \in Seq(Contents) /\ OneBlockEach(blocks)
         /\ Window \subseteq 0 .. Len(blocks) /\ Len(blocks) <= MaxBlock
         /\ found \subseteq Payments(Window)
         /\ \A d \in Payments(Window) : d \in found \/ d.block \in skipped
         /\ target.amount \in Nat /\ order.fillDeadline \in Nat
<1>1. ScanInv /\ blocks \in Seq(Contents) /\ ChainInv
  BY DEF SearchInv, FinalInv
<1>2. \A n : ~Pending(n)
  BY DEF Pending
<1>3. Window \subseteq 0 .. Len(blocks)
  BY <1>1 DEF Window, ScanInv
<1>4. target.amount \in Nat /\ order.fillDeadline \in Nat
  <2>1. /\ order.fillDeadline \in Nat /\ DOMAIN order.outputs \subseteq Nat
        /\ \A i \in DOMAIN order.outputs : order.outputs[i].amount \in Nat
    BY DEF PromiseInv, Parsed, Scanned
  <2>2. verifiable \in SUBSET Nat /\ verifiable # {} /\ verifiable \subseteq DOMAIN order.outputs
    BY <1>1, <2>1 DEF verifiable, onDest, ScanInv
  <2>3. Min(verifiable) \in verifiable
    <3>1. \E x \in verifiable : \A y \in verifiable : x <= y
      BY <2>2, LeastNatural
    <3> QED
      BY <3>1 DEF Min
  <2> QED
    BY <2>1, <2>2, <2>3 DEF target
<1> QED
  BY <1>1, <1>2, <1>3, <1>4 DEF ScanInv, ChainInv

\* The fill that is picked, and what is not picked.
LEMMA PickedFill ==
  ASSUME ProcessInv, FinalInv, PromiseInv, SearchInv, Settling
  PROVE  DiscoveredFillSuffices
<1> SUFFICES ASSUME pc = "receipt", argv.fillTx = None, reorgs = 0
             PROVE  /\ PaidBy(fillTx) >= target.amount
                    /\ \A d \in Payments(Window \ skipped) :
                         PaidBy(d.tx) >= target.amount => \E e \in Payments(0 .. d.block) : e.tx = fillTx
  BY DEF DiscoveredFillSuffices
<1> DEFINE all == Payments(DOMAIN blocks)
           worth(t) == ValueOf({e \in found : e.tx = t})
           satisfying == {d \in found : worth(d.tx) >= target.amount}
<1>1. chunks = <<>> /\ fillTx # None /\ fillTx = selectFillTx(target, found) /\ Scanned
  BY DEF SearchInv, PickInv, Scanned
<1>2. /\ blocks \in Seq(Contents) /\ OneBlockEach(blocks)
      /\ found \subseteq Payments(Window) /\ target.amount \in Nat
      /\ \A d \in Payments(Window) : d \in found \/ d.block \in skipped
  BY <1>1, ScanDone
<1>3. \A d \in all : d.value \in Nat /\ d.block \in DOMAIN blocks /\ d.block \in Nat /\ d.at \in Nat
                     /\ d.tx = blocks[d.block][d.at].tx /\ d.at \in DOMAIN blocks[d.block]
  BY <1>2, PaymentIs
<1>4. IsFiniteSet(all) /\ found \subseteq all
  BY <1>2, PaymentIs, PaymentsFinite
<1>5. satisfying # {} /\ fillTx = (CHOOSE d \in satisfying : \A e \in satisfying : ~Earlier(e, d)).tx
  BY <1>1 DEF selectFillTx
<1> HIDE DEF all, worth, satisfying
<1>6. PICK f \in satisfying : f.tx = fillTx /\ \A e \in satisfying : ~Earlier(e, f)
  <2>1. satisfying \subseteq all /\ IsFiniteSet(satisfying)
    <3>1. satisfying \in SUBSET all
      BY <1>4 DEF satisfying
    <3> QED
      BY <1>4, <3>1, FS_Subset
  <2>2. \E d \in satisfying : \A e \in satisfying : ~Earlier(e, d)
    BY <1>3, <1>5, <2>1, FirstAndLast
  <2> QED
    BY <1>5, <2>2
<1>7. ASSUME NEW t PROVE worth(t) <= PaidBy(t) /\ worth(t) \in Nat /\ PaidBy(t) \in Nat
  <2> DEFINE big == {d \in all : d.tx = t}
             small == {e \in found : e.tx = t}
  <2>1. big \in SUBSET all /\ small \in SUBSET big
    BY <1>4
  <2>2. IsFiniteSet(big) /\ \A d \in big : d.value \in Nat
    BY <1>3, <1>4, <2>1, FS_Subset
  <2>3. PaidBy(t) = ValueOf(big) /\ worth(t) = ValueOf(small)
    BY DEF PaidBy, worth, all
  <2> HIDE DEF big, small
  <2> QED
    BY <2>1, <2>2, <2>3, ValueGrows
<1>8. f \in found /\ worth(fillTx) >= target.amount
  BY <1>6 DEF satisfying
<1>9. PaidBy(fillTx) >= target.amount
  BY <1>2, <1>7, <1>8
<1>10. ASSUME NEW d \in Payments(Window \ skipped), PaidBy(d.tx) >= target.amount
       PROVE  \E e \in Payments(0 .. d.block) : e.tx = fillTx
  <2>1. d \in found /\ d \in all /\ d \in Payments(Window) /\ d.block \notin skipped
    BY <1>2, <1>4, PaymentIs
  <2>2. {e \in found : e.tx = d.tx} = {e \in all : e.tx = d.tx}
    <3> SUFFICES ASSUME NEW e \in all, e.tx = d.tx PROVE e \in found
      BY <1>4
    <3>1. e.block = d.block
      <4>1. e.tx \in Txs(blocks[e.block]) /\ d.tx \in Txs(blocks[d.block])
        BY <1>3, <2>1 DEF Txs
      <4>2. e.block \in DOMAIN blocks /\ d.block \in DOMAIN blocks
        BY <1>3, <2>1
      <4> QED
        BY <1>2, <4>1, <4>2 DEF OneBlockEach
    <3>2. e \in Payments(Window)
      <4>1. d.block \in Window
        BY <1>2, <2>1, PaymentIs
      <4> QED
        BY <1>2, <3>1, <4>1, PaymentIs DEF all
    <3> QED
      BY <1>2, <2>1, <3>1, <3>2
  <2>3. d \in satisfying
    BY <1>10, <2>1, <2>2 DEF satisfying, worth, PaidBy, all
  <2>4. ~Earlier(d, f)
    BY <1>6, <2>3
  <2>5. f.block <= d.block /\ f.block \in 0 .. d.block
    BY <1>3, <1>4, <1>8, <2>1, <2>4 DEF Earlier
  <2>6. f \in Payments(0 .. d.block)
    BY <1>2, <1>4, <1>8, <2>5, PaymentIs DEF all
  <2> QED
    BY <1>6, <2>6
<1> QED
  BY <1>9, <1>10

\* The deliveries up to a time, of those in the window.
LEMMA PaidUntilIs ==
  ASSUME blocks \in Seq(Contents), NEW n
  PROVE  /\ PaidUntil(n) = {d \in Payments(Window) : d.block <= n}
         /\ IsFiniteSet(PaidUntil(n)) /\ PaidUntil(n) \in SUBSET Payments(Window)
         /\ ValueOf(PaidUntil(n)) \in Nat /\ ValueOf(Payments(Window)) \in Nat
         /\ ValueOf(PaidUntil(n)) <= ValueOf(Payments(Window))
<1>1. PaidUntil(n) = {d \in Payments(Window) : d.block <= n}
  BY DEF PaidUntil, Timestamp
<1>2. PaidUntil(n) \in SUBSET Payments(Window)
  BY <1>1
<1>3. IsFiniteSet(Payments(Window)) /\ \A d \in Payments(Window) : d.value \in Nat
  BY PaymentIs, PaymentsFinite
<1> QED
  BY <1>1, <1>2, <1>3, FS_Subset, ValueGrows

\* The diagnosis of what was found, against the chain.
LEMMA TrueDiagnosis ==
  ASSUME ProcessInv, FinalInv, PromiseInv, SearchInv, Settling
  PROVE  DiagnosisHolds
<1> SUFFICES ASSUME mode # None, reorgs = 0
             PROVE  mode = "settled" \/ skipped = {} => mode = Truth
  BY DEF DiagnosisHolds, SearchInv, PickInv
<1> DEFINE P == Payments(Window)
           amount == target.amount
           due == order.fillDeadline
           limit == IF due = 0 THEN MaxBlock ELSE due
           upTo(d) == {e \in found : ~Earlier(d, e)}
           reaching == {d \in found : ValueOf(upTo(d)) >= amount}
           completing == CHOOSE d \in reaching : \A e \in reaching : ~Earlier(e, d)
           reached(n) == PaidUntil(n) # {} /\ ValueOf(PaidUntil(n)) >= amount
<1>1. chunks = <<>> /\ Scanned /\ mode = diagnose(amount, due, found)
  BY DEF SearchInv, PickInv, Scanned
<1>2. /\ blocks \in Seq(Contents) /\ Window \subseteq 0 .. Len(blocks) /\ Len(blocks) <= MaxBlock
      /\ found \subseteq P /\ amount \in Nat /\ due \in Nat
      /\ \A d \in P : d \in found \/ d.block \in skipped
  BY <1>1, ScanDone
<1>3. /\ IsFiniteSet(P) /\ IsFiniteSet(found)
      /\ \A d \in P : d.value \in Nat /\ d.block \in Nat /\ d.at \in Nat /\ d.block <= MaxBlock
  <2>1. IsFiniteSet(P) /\ \A d \in P : d.value \in Nat /\ d.block \in Nat /\ d.at \in Nat /\ d.block \in DOMAIN blocks
    BY <1>2, PaymentIs, PaymentsFinite
  <2>2. DOMAIN blocks = 1 .. Len(blocks) /\ Len(blocks) \in Nat /\ MaxBlock \in Nat
    BY <1>2, SettlementAssumption
  <2> HIDE DEF P
  <2>3. \A d \in P : d.block <= MaxBlock
    BY <1>2, <2>1, <2>2
  <2> QED
    BY <1>2, <2>1, <2>3, FS_Subset
<1>4. ASSUME NEW n
      PROVE  /\ PaidUntil(n) = {d \in P : d.block <= n} /\ IsFiniteSet(PaidUntil(n))
             /\ ValueOf(PaidUntil(n)) \in Nat /\ ValueOf(PaidUntil(n)) <= ValueOf(P) /\ ValueOf(P) \in Nat
  BY <1>2, PaidUntilIs
<1>5. Truth = IF P = {} THEN "never-filled" ELSE IF reached(limit) THEN "settled"
              ELSE IF reached(MaxBlock) THEN "filled-late" ELSE "underfilled"
  BY DEF Truth
<1>6. mode = IF found = {} THEN "never-filled" ELSE IF ValueOf(found) < amount THEN "underfilled"
             ELSE IF due = 0 \/ completing.block <= due THEN "settled" ELSE "filled-late"
  BY <1>1 DEF diagnose, Timestamp
<1>7. ValueOf(found) \in Nat /\ ValueOf(found) <= ValueOf(P)
  BY <1>2, <1>3, ValueGrows
<1>8. ASSUME NEW D \in SUBSET P, NEW E \in SUBSET D PROVE ValueOf(E) <= ValueOf(D) /\ ValueOf(E) \in Nat /\ ValueOf(D) \in Nat
  <2>1. IsFiniteSet(D) /\ \A d \in D : d.value \in Nat
    BY <1>3, FS_Subset
  <2> QED
    BY <2>1, ValueGrows
<1> HIDE DEF P, amount, due, upTo, reaching, completing, reached
\* If the whole of what was found reaches the amount, one delivery completes it.
<1>9. ASSUME found # {}, ValueOf(found) >= amount
      PROVE  completing \in reaching /\ \A e \in reaching : ~Earlier(e, completing)
  <2>1. PICK last \in found : \A e \in found : ~Earlier(last, e)
    BY <1>2, <1>3, <1>9, FirstAndLast
  <2>2. upTo(last) = found
    BY <2>1 DEF upTo
  <2>3. last \in reaching /\ reaching \in SUBSET found
    BY <1>9, <2>1, <2>2 DEF reaching
  <2>4. IsFiniteSet(reaching) /\ \A d \in reaching : d.block \in Nat /\ d.at \in Nat
    BY <1>2, <1>3, <2>3, FS_Subset
  <2>5. \E d \in reaching : \A e \in reaching : ~Earlier(e, d)
    BY <2>3, <2>4, FirstAndLast
  <2> QED
    BY <2>5 DEF completing
<1>10. ASSUME mode = "settled" PROVE Truth = "settled"
  <2>1. found # {} /\ ValueOf(found) >= amount /\ (due = 0 \/ completing.block <= due)
    BY <1>2, <1>6, <1>7, <1>10
  <2>2. completing \in found /\ completing \in P /\ ValueOf(upTo(completing)) >= amount
    BY <1>2, <1>9, <2>1 DEF reaching
  <2>3. completing.block <= limit
    BY <1>3, <2>1, <2>2
  <2>4. upTo(completing) \subseteq PaidUntil(limit) /\ completing \in PaidUntil(limit)
    <3>1. limit \in Nat
      BY <1>2, SettlementAssumption
    <3>2. ASSUME NEW e \in upTo(completing) PROVE e \in P /\ e.block <= limit
      <4>1. e \in P /\ ~Earlier(completing, e)
        BY <1>2 DEF upTo
      <4>2. e.block <= completing.block
        BY <1>3, <2>2, <4>1 DEF Earlier
      <4> HIDE DEF limit
      <4> QED
        BY <1>3, <2>2, <2>3, <3>1, <4>1, <4>2
    <3> HIDE DEF limit
    <3> QED
      BY <1>4, <2>2, <2>3, <3>2
  <2> HIDE DEF limit
  <2>5. PaidUntil(limit) \in SUBSET P
    BY <1>4
  <2>6. ValueOf(PaidUntil(limit)) >= amount
    <3>1. /\ ValueOf(upTo(completing)) <= ValueOf(PaidUntil(limit))
          /\ ValueOf(upTo(completing)) \in Nat /\ ValueOf(PaidUntil(limit)) \in Nat
      BY <1>8, <2>4, <2>5
    <3> QED
      BY <1>2, <2>2, <3>1
  <2> QED
    BY <1>5, <2>2, <2>4, <2>6 DEF reached
<1>11. ASSUME skipped = {} PROVE mode = Truth
  <2>1. found = P
    BY <1>2, <1>11
  <2>2. CASE P = {}
    BY <1>5, <1>6, <2>1, <2>2
  <2>3. CASE P # {} /\ ValueOf(P) < amount
    <3>1. \A n : ~(ValueOf(PaidUntil(n)) >= amount)
      BY <1>2, <1>4, <2>3
    <3> QED
      BY <1>5, <1>6, <2>1, <2>3, <3>1 DEF reached
  <2>4. CASE P # {} /\ ~(ValueOf(P) < amount)
    <3>1. ValueOf(P) >= amount /\ ValueOf(P) \in Nat
      BY <1>2, <1>4, <2>4
    <3>2. completing \in reaching /\ \A e \in reaching : ~Earlier(e, completing)
      BY <1>9, <2>1, <2>4, <3>1
    <3>3. CASE due = 0 \/ completing.block <= due
      BY <1>6, <1>10, <2>1, <2>4, <3>3
    <3>4. CASE ~(due = 0 \/ completing.block <= due)
      <4>1. mode = "filled-late" /\ limit = due
        BY <1>6, <2>1, <2>4, <3>4
      <4>2. reached(MaxBlock)
        <5>1. PaidUntil(MaxBlock) = P
          BY <1>3, <1>4
        <5> QED
          BY <2>4, <3>1, <5>1 DEF reached
      <4>3. ~reached(due)
        <5> SUFFICES ASSUME PaidUntil(due) # {}, ValueOf(PaidUntil(due)) >= amount PROVE FALSE
          BY DEF reached
        <5>1. PaidUntil(due) \subseteq P /\ IsFiniteSet(PaidUntil(due))
          BY <1>4
        <5>2. PICK m \in PaidUntil(due) : \A e \in PaidUntil(due) : ~Earlier(m, e)
          <6>1. \A d \in PaidUntil(due) : d.block \in Nat /\ d.at \in Nat
            BY <1>3, <5>1
          <6> QED
            BY <5>1, <6>1, FirstAndLast
        <5>3. m \in P /\ m.block <= due
          BY <1>4, <5>2
        <5>4. upTo(m) = PaidUntil(due)
          <6>1. ASSUME NEW e \in P, ~Earlier(m, e) PROVE e.block <= due
            <7>1. e.block <= m.block
              BY <1>3, <5>3, <6>1 DEF Earlier
            <7> QED
              BY <1>2, <1>3, <5>3, <7>1
          <6> QED
            BY <1>4, <2>1, <5>2, <6>1 DEF upTo
        <5>5. m \in reaching
          BY <2>1, <5>3, <5>4 DEF reaching
        <5>6. completing.block <= m.block
          <6>1. completing \in P
            BY <2>1, <3>2 DEF reaching
          <6> QED
            BY <1>3, <3>2, <5>3, <5>5, <6>1 DEF Earlier
        <5> QED
          BY <1>2, <1>3, <2>1, <3>2, <3>4, <5>3, <5>6 DEF reaching
      <4> QED
        BY <1>5, <2>4, <4>1, <4>2, <4>3
    <3> QED
      BY <3>3, <3>4
  <2> QED
    BY <2>2, <2>3, <2>4
<1> QED
  BY <1>10, <1>11

-----------------------------------------------------------------------------
(***************************************************************************)
(* Post-quantum readiness.  The loops over bytecode are functions of how   *)
(* many bytes are behind, each value following from the one before; what   *)
(* they compute is shown by induction over the bytes.  The walk stops at   *)
(* the boundaries of instructions; the window holds the values of the last *)
(* small pushes, so that what is found at a call is what it can refer to.  *)
(***************************************************************************)
LEMMA ImmediateFacts ==
  ASSUME NEW op \in Byte
  PROVE  Immediate(op) \in Nat /\ (Immediate(op) \in 1 .. 2 <=> op \in {PUSH1, PUSH1 + 1})
BY DEF Immediate, IsPush, PUSH1, PUSH32, Byte

\* after[n] is where the walk stops next, once it is past n.
Stops(code, after) ==
  after = [n \in 0 .. Len(code) |->
             IF n = 0 THEN 1
             ELSE IF after[n - 1] > n THEN after[n - 1] ELSE n + Immediate(code[n]) + 1]

LEMMA StopsExist ==
  ASSUME NEW code \in Seq(Byte)
  PROVE  \E after : Stops(code, after)
<1> DEFINE go == [z \in (1 .. Len(code)) \X Nat |->
                      IF z[2] > z[1] THEN z[2] ELSE z[1] + Immediate(code[z[1]]) + 1]
<1>1. Len(code) \in Nat /\ \A n \in 1 .. Len(code) : Immediate(code[n]) \in Nat
  BY ImmediateFacts
<1>2. \A z \in (1 .. Len(code)) \X Nat : go[z] \in Nat
  BY <1>1
<1>3. go \in [(1 .. Len(code)) \X Nat -> Nat]
  BY <1>2
<1>4. \A n \in 1 .. Len(code), k \in Nat :
        go[<<n, k>>] = IF k > n THEN k ELSE n + Immediate(code[n]) + 1
  OBVIOUS
<1> HIDE DEF go
<1>5. PICK after \in [0 .. Len(code) -> Nat] :
        \A n \in 0 .. Len(code) : after[n] = IF n = 0 THEN 1 ELSE go[<<n, after[n - 1]>>]
  <2>1. Runs(Len(code), Nat, 1, go) # {}
    BY <1>1, <1>3, RunsExist
  <2> QED
    BY <2>1 DEF Runs
<1>6. ASSUME NEW n \in 0 .. Len(code)
      PROVE  after[n] = IF n = 0 THEN 1
                        ELSE IF after[n - 1] > n THEN after[n - 1] ELSE n + Immediate(code[n]) + 1
  <2>1. n # 0 => n \in 1 .. Len(code) /\ after[n - 1] \in Nat
    BY <1>1
  <2> QED
    BY <1>4, <1>5, <2>1
<1>7. after = [n \in 0 .. Len(code) |->
             IF n = 0 THEN 1
             ELSE IF after[n - 1] > n THEN after[n - 1] ELSE n + Immediate(code[n]) + 1]
  BY <1>6, Zenon
<1> QED
  BY <1>7 DEF Stops

LEMMA WalkStops ==
  ASSUME NEW code \in Seq(Byte)
  PROVE  \E after : Stops(code, after) /\ Walk(code) = {n \in DOMAIN code : after[n - 1] = n}
BY StopsExist, Zenon DEF Stops, Walk

\* What follows the instruction at n.
Follow(code, n) == n + Immediate(code[n]) + 1

\* The walk stops at the first byte, and behind each stop where its data ends.
LEMMA WalkFollows ==
  ASSUME NEW code \in Seq(Byte), NEW i \in DOMAIN code
  PROVE  i \in Walk(code) <=> i = 1 \/ \E j \in 1 .. i - 1 : j \in Walk(code) /\ Follow(code, j) = i
<1>1. PICK after : Stops(code, after) /\ Walk(code) = {n \in DOMAIN code : after[n - 1] = n}
  BY WalkStops
<1>2. Len(code) \in Nat /\ DOMAIN code = 1 .. Len(code) /\ \A n \in 1 .. Len(code) : Immediate(code[n]) \in Nat
  BY ImmediateFacts
<1>3. /\ after[0] = 1
      /\ \A n \in 1 .. Len(code) :
           after[n] = IF after[n - 1] > n THEN after[n - 1] ELSE n + Immediate(code[n]) + 1
  <2>1. ASSUME NEW n \in 0 .. Len(code)
        PROVE  after[n] = IF n = 0 THEN 1
             ELSE IF after[n - 1] > n THEN after[n - 1] ELSE n + Immediate(code[n]) + 1
    BY <1>1, Zenon DEF Stops
  <2> QED
    BY <1>2, <2>1
<1> DEFINE W == Walk(code)
           F(n) == Follow(code, n)
           N == {n \in Nat : n <= Len(code) =>
                   /\ after[n] \in Nat /\ after[n] > n
                   /\ \A j \in 1 .. n : j \in W => F(j) <= n \/ F(j) = after[n]
                   /\ after[n] = 1 \/ \E j \in 1 .. n : j \in W /\ F(j) = after[n]}
<1>4. \A n \in 1 .. Len(code) : (n \in W <=> after[n - 1] = n) /\ F(n) = n + Immediate(code[n]) + 1 /\ F(n) \in Nat
  BY <1>1, <1>2 DEF Follow
<1> HIDE DEF W, F
<1>5. 0 \in N
  BY <1>3
<1>6. ASSUME NEW n \in Nat, n \in N PROVE n + 1 \in N
  <2> SUFFICES ASSUME n + 1 <= Len(code)
               PROVE  /\ after[n + 1] \in Nat /\ after[n + 1] > n + 1
                      /\ \A j \in 1 .. n + 1 : j \in W => F(j) <= n + 1 \/ F(j) = after[n + 1]
                      /\ after[n + 1] = 1 \/ \E j \in 1 .. n + 1 : j \in W /\ F(j) = after[n + 1]
    OBVIOUS
  <2>1. /\ after[n] \in Nat /\ after[n] > n
        /\ \A j \in 1 .. n : j \in W => F(j) <= n \/ F(j) = after[n]
        /\ after[n] = 1 \/ \E j \in 1 .. n : j \in W /\ F(j) = after[n]
    BY <1>2, <1>6
  <2>2. n + 1 \in 1 .. Len(code) /\ (n + 1) - 1 = n
    BY <1>2
  <2>3. /\ after[n + 1] = IF after[n] > n + 1 THEN after[n] ELSE F(n + 1)
        /\ n + 1 \in W <=> after[n] = n + 1
        /\ F(n + 1) \in Nat /\ F(n + 1) > n + 1
    BY <1>2, <1>3, <1>4, <2>2
  <2>4. \A j \in 1 .. n + 1 : j \in 1 .. n \/ j = n + 1
    OBVIOUS
  <2>5. CASE after[n] > n + 1
    <3>1. after[n + 1] = after[n] /\ n + 1 \notin W
      BY <2>1, <2>3, <2>5
    <3>2. ASSUME NEW j \in 1 .. n + 1, j \in W PROVE F(j) <= n + 1 \/ F(j) = after[n + 1]
      <4>1. j \in 1 .. n
        BY <2>4, <3>1, <3>2
      <4>2. F(j) <= n \/ F(j) = after[n]
        BY <2>1, <3>2, <4>1
      <4>3. j \in 1 .. Len(code)
        BY <4>1, <2>2, <1>2
      <4>4. F(j) \in Nat
        BY <1>4, <4>3
      <4> QED
        BY <3>1, <4>2, <4>4
    <3>3. \A j \in 1 .. n : j \in 1 .. n + 1
      OBVIOUS
    <3> QED
      BY <2>1, <2>5, <3>1, <3>2, <3>3
  <2>6. CASE after[n] = n + 1
    <3>1. after[n + 1] = F(n + 1) /\ n + 1 \in W /\ n + 1 \in 1 .. n + 1
      BY <2>1, <2>3, <2>6
    <3>2. ASSUME NEW j \in 1 .. n + 1, j \in W PROVE F(j) <= n + 1 \/ F(j) = after[n + 1]
      <4>1. CASE j \in 1 .. n
        <5>1. F(j) <= n \/ F(j) = n + 1
          BY <2>1, <2>6, <3>2, <4>1
        <5>2. j \in 1 .. Len(code)
          BY <4>1, <2>2, <1>2
        <5>3. F(j) \in Nat
          BY <1>4, <5>2
        <5> QED
          BY <5>1, <5>3
      <4> QED
        BY <2>4, <3>1, <4>1
    <3> QED
      BY <2>3, <3>1, <3>2
  <2> QED
    BY <2>1, <2>5, <2>6
<1> HIDE DEF N
<1>7. i - 1 \in N
  BY <1>2, <1>5, <1>6, NatSetInduction
<1>8. i \in 1 .. Len(code) /\ i - 1 \in Nat /\ i - 1 <= Len(code)
  BY <1>2
<1>9. /\ after[i - 1] \in Nat /\ after[i - 1] > i - 1
      /\ \A j \in 1 .. i - 1 : j \in W => F(j) <= i - 1 \/ F(j) = after[i - 1]
      /\ after[i - 1] = 1 \/ \E j \in 1 .. i - 1 : j \in W /\ F(j) = after[i - 1]
  BY <1>7, <1>8 DEF N
<1>10. i \in W <=> i = 1 \/ \E j \in 1 .. i - 1 : j \in W /\ F(j) = i
  <2>1. ASSUME i \in W PROVE i = 1 \/ \E j \in 1 .. i - 1 : j \in W /\ F(j) = i
    BY <1>4, <1>8, <1>9, <2>1
  <2>2. ASSUME i = 1 PROVE i \in W
    BY <1>3, <1>4, <1>8, <2>2
  <2>3. ASSUME NEW j \in 1 .. i - 1, j \in W, F(j) = i PROVE i \in W
    BY <1>4, <1>8, <1>9, <2>3
  <2> QED
    BY <2>1, <2>2, <2>3
<1> QED
  BY <1>10 DEF W, F

\* b marks the boundaries.
Marks(code, b) ==
  b = [i \in DOMAIN code |-> i = 1 \/ \E j \in 1 .. i - 1 : b[j] /\ j + Immediate(code[j]) + 1 = i]

\* The walk stops exactly where an EVM finds instructions.
LEMMA WalkIsBoundary ==
  ASSUME NEW code \in Seq(Byte)
  PROVE  Walk(code) = Boundary(code)
<1>1. Len(code) \in Nat /\ DOMAIN code = 1 .. Len(code)
  OBVIOUS
<1> DEFINE W == Walk(code)
<1>2. \A i \in DOMAIN code : i \in W <=> i = 1 \/ \E j \in 1 .. i - 1 : j \in W /\ j + Immediate(code[j]) + 1 = i
  BY WalkFollows DEF Follow
<1>3. W \subseteq DOMAIN code
  BY WalkStops
<1> HIDE DEF W
<1>4. \E b : Marks(code, b)
  <2> DEFINE b == [i \in DOMAIN code |-> i \in W]
  <2>1. \A i \in DOMAIN code : \A j \in 1 .. i - 1 : j \in DOMAIN code
    BY <1>1
  <2>2. ASSUME NEW i \in DOMAIN code
        PROVE  b[i] = (i = 1 \/ \E j \in 1 .. i - 1 : b[j] /\ j + Immediate(code[j]) + 1 = i)
    <3>1. \A j \in 1 .. i - 1 : b[j] = (j \in W)
      BY <2>1
    <3>2. b[i] = (i \in W)
      OBVIOUS
    <3> HIDE DEF b
    <3>3. (\E j \in 1 .. i - 1 : b[j] /\ j + Immediate(code[j]) + 1 = i)
          <=> \E j \in 1 .. i - 1 : j \in W /\ j + Immediate(code[j]) + 1 = i
      BY <3>1, Zenon
    <3>4. (i \in W) = (i = 1 \/ \E j \in 1 .. i - 1 : b[j] /\ j + Immediate(code[j]) + 1 = i)
      <4>1. i \in W <=> i = 1 \/ \E j \in 1 .. i - 1 : b[j] /\ j + Immediate(code[j]) + 1 = i
        BY <1>2, <3>3, Zenon
      <4> QED
        BY <4>1, SMT
    <3> QED
      BY <3>2, <3>4, Zenon
  <2>3. b = [i \in DOMAIN code |-> b[i]]
    BY Zenon
  <2> HIDE DEF b
  <2>4. b = [i \in DOMAIN code |-> i = 1 \/ \E j \in 1 .. i - 1 : b[j] /\ j + Immediate(code[j]) + 1 = i]
    BY <2>2, <2>3, Zenon
  <2> QED
    BY <2>4 DEF Marks
<1>5. PICK b : Marks(code, b) /\ Boundary(code) = {i \in DOMAIN code : b[i]}
  BY <1>4, Zenon DEF Marks, Boundary
<1>6. ASSUME NEW i \in DOMAIN code
      PROVE  b[i] <=> i = 1 \/ \E j \in 1 .. i - 1 : b[j] /\ j + Immediate(code[j]) + 1 = i
  BY <1>5, Zenon DEF Marks
<1> DEFINE N == {n \in Nat : \A i \in DOMAIN code : i <= n => (b[i] <=> i \in W)}
<1>7. 0 \in N
  BY <1>1
<1>8. ASSUME NEW n \in Nat, n \in N PROVE n + 1 \in N
  <2> SUFFICES ASSUME NEW i \in DOMAIN code, i <= n + 1 PROVE b[i] <=> i \in W
    OBVIOUS
  <2>1. CASE i <= n
    BY <1>8, <2>1
  <2>2. CASE ~(i <= n)
    <3>1. \A j \in 1 .. i - 1 : j \in DOMAIN code /\ j <= n
      BY <1>1
    <3>2. \A j \in 1 .. i - 1 : b[j] <=> j \in W
      BY <1>8, <3>1
    <3> QED
      BY <1>2, <1>6, <3>2, Zenon
  <2> QED
    BY <2>1, <2>2
<1> HIDE DEF N
<1>9. \A i \in DOMAIN code : i \in N
  BY <1>1, <1>7, <1>8, NatSetInduction
<1>10. \A i \in DOMAIN code : b[i] <=> i \in W
  <2> SUFFICES ASSUME NEW i \in DOMAIN code PROVE b[i] <=> i \in W
    OBVIOUS
  <2>1. i \in N /\ i <= i
    BY <1>1, <1>9
  <2> QED
    BY <2>1 DEF N
<1>11. W = {i \in DOMAIN code : b[i]}
  BY <1>3, <1>10, Zenon
<1> QED
  BY <1>5, <1>11 DEF W
-----------------------------------------------------------------------------
\* upTo[n] is the window and the finds once the first n bytes are behind.
Scans(code, positions, upTo) ==
  upTo = [n \in 0 .. Len(code) |->
            IF n = 0 THEN [window |-> <<>>, found |-> {}] ELSE ScannedByte(code, positions, n, upTo[n - 1])]

\* Counted from its end, the window keeps its last values behind the new one.
LEMMA PushedFacts ==
  ASSUME NEW w \in Seq(Nat), NEW v \in Nat, Len(w) <= Recent
  PROVE  /\ Pushed(w, v) \in Seq(Nat)
         /\ Len(Pushed(w, v)) = IF Len(w) = Recent THEN Recent ELSE Len(w) + 1
         /\ \A d \in 0 .. Len(Pushed(w, v)) - 1 :
              Pushed(w, v)[Len(Pushed(w, v)) - d] = IF d = 0 THEN v ELSE w[Len(w) - (d - 1)]
<1>1. Recent \in Nat /\ Len(w) \in Nat
  BY PqAssumption
<1>2. /\ Append(w, v) \in Seq(Nat) /\ Len(Append(w, v)) = Len(w) + 1
      /\ \A i \in 1 .. Len(w) + 1 : Append(w, v)[i] = IF i = Len(w) + 1 THEN v ELSE w[i]
  OBVIOUS
<1>3. CASE Len(w) = Recent
  <2> DEFINE a == Append(w, v)
  <2>1. a # <<>> /\ Pushed(w, v) = Tail(a)
    BY <1>1, <1>2, <1>3 DEF Pushed
  <2>2. Tail(a) \in Seq(Nat) /\ Len(Tail(a)) = Len(a) - 1 /\ \A i \in 1 .. Len(a) - 1 : Tail(a)[i] = a[i + 1]
    BY <1>1, <1>2, <2>1
  <2> HIDE DEF a
  <2>3. ASSUME NEW d \in 0 .. Recent - 1
        PROVE  Tail(a)[Recent - d] = IF d = 0 THEN v ELSE w[Len(w) - (d - 1)]
    <3>1. Recent - d \in 1 .. Len(a) - 1 /\ Recent - d + 1 \in 1 .. Len(w) + 1
      BY <1>1, <1>2, <1>3 DEF a
    <3>2. Tail(a)[Recent - d] = a[Recent - d + 1]
      BY <2>2, <3>1
    <3>3. a[Recent - d + 1] = IF Recent - d + 1 = Len(w) + 1 THEN v ELSE w[Recent - d + 1]
      BY <1>2, <3>1 DEF a
    <3>4. Recent - d + 1 = Len(w) - (d - 1) /\ (Recent - d + 1 = Len(w) + 1 <=> d = 0)
      BY <1>1, <1>3
    <3> QED
      BY <3>2, <3>3, <3>4
  <2>4. Len(Tail(a)) = Recent
    BY <1>1, <1>2, <1>3, <2>2 DEF a
  <2> QED
    BY <1>3, <2>1, <2>2, <2>3, <2>4
<1>4. CASE Len(w) # Recent
  <2>1. Pushed(w, v) = Append(w, v)
    BY <1>1, <1>2, <1>4 DEF Pushed
  <2>2. ASSUME NEW d \in 0 .. Len(w)
        PROVE  Append(w, v)[Len(w) + 1 - d] = IF d = 0 THEN v ELSE w[Len(w) - (d - 1)]
    <3>1. Len(w) + 1 - d \in 1 .. Len(w) + 1 /\ Len(w) + 1 - d = Len(w) - (d - 1)
          /\ (Len(w) + 1 - d = Len(w) + 1 <=> d = 0)
      BY <1>1
    <3> QED
      BY <1>2, <3>1
  <2> QED
    BY <1>1, <1>2, <1>4, <2>1, <2>2
<1> QED
  BY <1>3, <1>4

LEMMA ScansExist ==
  ASSUME NEW code \in Seq(Byte), NEW positions
  PROVE  \E upTo : Scans(code, positions, upTo)
<1> DEFINE T == [window : Seq(Nat), found : SUBSET Nat]
           After(n, acc) == ScannedByte(code, positions, n, acc)
           go == [z \in (1 .. Len(code)) \X T |-> After(z[1], z[2])]
<1>1. Len(code) \in Nat
  OBVIOUS
<1>2. ASSUME NEW n \in 1 .. Len(code), NEW acc \in T PROVE After(n, acc) \in T
  <2>1. acc.window \in Seq(Nat) /\ acc.found \in SUBSET Nat
    OBVIOUS
  <2>2. ToSet(acc.window) \in SUBSET Nat
    BY <2>1 DEF ToSet
  <2>3. IsSmallPush(code, n) => Value(Data(code, n)) \in Nat
    BY DEF IsSmallPush
  <2>4. ASSUME NEW v \in Nat PROVE Pushed(acc.window, v) \in Seq(Nat)
    <3>1. Append(acc.window, v) \in Seq(Nat) /\ Append(acc.window, v) # <<>>
      BY <2>1
    <3> QED
      BY <3>1 DEF Pushed
  <2> QED
    BY <2>1, <2>2, <2>3, <2>4 DEF ScannedByte
<1>3. \A n \in 1 .. Len(code), acc \in T : go[<<n, acc>>] = After(n, acc)
  OBVIOUS
<1>4. go \in [(1 .. Len(code)) \X T -> T]
  <2> HIDE DEF After, T
  <2> QED
    BY <1>2
<1>5. [window |-> <<>>, found |-> {}] \in T
  OBVIOUS
<1> HIDE DEF go, T
<1>6. Runs(Len(code), T, [window |-> <<>>, found |-> {}], go) # {}
  BY <1>1, <1>4, <1>5, RunsExist
<1>7. PICK upTo \in [0 .. Len(code) -> T] :
        \A n \in 0 .. Len(code) :
          upTo[n] = IF n = 0 THEN [window |-> <<>>, found |-> {}] ELSE go[<<n, upTo[n - 1]>>]
  BY <1>6 DEF Runs
<1>8. ASSUME NEW n \in 0 .. Len(code)
      PROVE  upTo[n] = IF n = 0 THEN [window |-> <<>>, found |-> {}] ELSE After(n, upTo[n - 1])
  <2>1. n # 0 => n \in 1 .. Len(code) /\ upTo[n - 1] \in T
    BY <1>1
  <2> HIDE DEF After
  <2> QED
    BY <1>3, <1>7, <2>1
<1>9. upTo = [n \in 0 .. Len(code) |->
                IF n = 0 THEN [window |-> <<>>, found |-> {}] ELSE After(n, upTo[n - 1])]
  <2> HIDE DEF After
  <2> QED
    BY <1>8, Zenon
<1>10. Scans(code, positions, upTo)
  BY <1>9 DEF Scans
<1> QED
  BY <1>10

LEMMA CallsAtScans ==
  ASSUME NEW code \in Seq(Byte), NEW positions
  PROVE  \E upTo : /\ Scans(code, positions, upTo)
                   /\ CallsAt(code, positions) = upTo[Len(code)].found
BY ScansExist, Zenon DEF Scans, CallsAt
-----------------------------------------------------------------------------
IsCall(code, n) == code[n] \in {CALL, STATICCALL}
Pushes(code) == {n \in Walk(code) : IsSmallPush(code, n)}
Val(code, p) == Value(Data(code, p))

\* The small pushes behind p, the first n bytes taken.
Later(code, p, n) == {q \in Pushes(code) : p < q /\ q <= n}

LEMMA LaterFacts ==
  ASSUME NEW code \in Seq(Byte), NEW n \in Nat, NEW p \in Nat, p <= n
  PROVE  /\ IsFiniteSet(Later(code, p, n)) /\ Cardinality(Later(code, p, n)) \in Nat
         /\ Cardinality(Later(code, p, n + 1))
              = IF n + 1 \in Pushes(code) THEN Cardinality(Later(code, p, n)) + 1
                ELSE Cardinality(Later(code, p, n))
         /\ Cardinality(Later(code, n, n)) = 0
<1>1. Pushes(code) \subseteq Nat
  <2>1. Walk(code) \subseteq DOMAIN code
    BY WalkStops
  <2> QED
    BY <2>1 DEF Pushes
<1>2. IsFiniteSet(Later(code, p, n))
  <2>1. Later(code, p, n) \subseteq 1 .. n
    BY <1>1 DEF Later
  <2>2. IsFiniteSet(1 .. n)
    BY FS_Interval
  <2> QED
    BY <2>1, <2>2, FS_Subset
<1>3. Cardinality(Later(code, p, n)) \in Nat
  BY <1>2, FS_CardinalityType
<1>6. Cardinality(Later(code, n, n)) = 0
  <2>1. Later(code, n, n) = {}
    BY <1>1 DEF Later
  <2> QED
    BY <2>1, FS_EmptySet
<1>4. CASE n + 1 \in Pushes(code)
  <2>1. Later(code, p, n + 1) = Later(code, p, n) \cup {n + 1} /\ n + 1 \notin Later(code, p, n)
    BY <1>1, <1>4 DEF Later
  <2>2. Cardinality(Later(code, p, n) \cup {n + 1}) = Cardinality(Later(code, p, n)) + 1
    BY <1>2, <2>1, FS_AddElement
  <2> QED
    BY <1>2, <1>3, <1>4, <1>6, <2>1, <2>2
<1>5. CASE n + 1 \notin Pushes(code)
  <2>1. Later(code, p, n + 1) = Later(code, p, n)
    BY <1>1, <1>5 DEF Later
  <2> QED
    BY <1>2, <1>3, <1>5, <1>6, <2>1
<1> QED
  BY <1>4, <1>5

\* What the window holds: the values of the last pushes, in order.
WindowIs(code, n, w) ==
  /\ w \in Seq(Nat) /\ Len(w) <= Recent
  /\ \A d \in 0 .. Len(w) - 1 :
       \E p \in Pushes(code) :
         p <= n /\ Val(code, p) = w[Len(w) - d] /\ Cardinality(Later(code, p, n)) = d
  /\ \A p \in Pushes(code) :
       p <= n /\ Cardinality(Later(code, p, n)) < Recent =>
         /\ Cardinality(Later(code, p, n)) < Len(w)
         /\ w[Len(w) - Cardinality(Later(code, p, n))] = Val(code, p)

\* The push at p is one of the last ones at the call at c, and its value is v.
Recalls(code, c, p, v) ==
  p < c /\ Val(code, p) = v /\ Cardinality(Later(code, p, c - 1)) < Recent

\* What was found in the first n bytes: the values recalled at a call.
FoundIs(code, n, hits) ==
  \A v : v \in hits <=>
    \E c \in Walk(code) : c <= n /\ IsCall(code, c) /\ \E p \in Pushes(code) : Recalls(code, c, p, v)

LEMMA WindowPushed ==
  ASSUME NEW code \in Seq(Byte), NEW n \in Nat, NEW w, WindowIs(code, n, w), n + 1 \in Pushes(code)
  PROVE  WindowIs(code, n + 1, Pushed(w, Val(code, n + 1)))
<1> DEFINE v == Val(code, n + 1)
           r == Pushed(w, v)
           K(p) == Cardinality(Later(code, p, n))
           L(p) == Cardinality(Later(code, p, n + 1))
<1>1. v \in Nat /\ Pushes(code) \subseteq Nat
  <2>1. Walk(code) \subseteq DOMAIN code
    BY WalkStops
  <2> QED
    BY <2>1 DEF Pushes, IsSmallPush, Val
<1>2. /\ w \in Seq(Nat) /\ Len(w) <= Recent
      /\ \A d \in 0 .. Len(w) - 1 : \E p \in Pushes(code) : p <= n /\ Val(code, p) = w[Len(w) - d] /\ K(p) = d
      /\ \A p \in Pushes(code) : p <= n /\ K(p) < Recent => K(p) < Len(w) /\ w[Len(w) - K(p)] = Val(code, p)
  BY DEF WindowIs
<1>3. Len(w) \in Nat /\ Recent \in Nat
  BY <1>2, PqAssumption
<1> HIDE DEF v
<1>4. /\ r \in Seq(Nat) /\ Len(r) = IF Len(w) = Recent THEN Recent ELSE Len(w) + 1
      /\ \A d \in 0 .. Len(r) - 1 : r[Len(r) - d] = IF d = 0 THEN v ELSE w[Len(w) - (d - 1)]
  BY <1>1, <1>2, PushedFacts
<1>5. \A p \in Pushes(code) : p <= n => K(p) \in Nat /\ L(p) = K(p) + 1
  BY <1>1, LaterFacts
<1>6. L(n + 1) = 0
  BY LaterFacts
<1>7. \A p \in Pushes(code) : p <= n + 1 => p <= n \/ p = n + 1
  BY <1>1
<1> HIDE DEF r, K, L
<1>8. ASSUME NEW d \in 0 .. Len(r) - 1
      PROVE  \E p \in Pushes(code) : p <= n + 1 /\ Val(code, p) = r[Len(r) - d] /\ L(p) = d
  <2>1. CASE d = 0
    BY <1>4, <1>6, <2>1 DEF v
  <2>2. CASE d # 0
    <3>1. d - 1 \in 0 .. Len(w) - 1 /\ r[Len(r) - d] = w[Len(w) - (d - 1)]
      BY <1>2, <1>3, <1>4, <2>2
    <3>2. PICK p \in Pushes(code) : p <= n /\ Val(code, p) = w[Len(w) - (d - 1)] /\ K(p) = d - 1
      BY <1>2, <3>1
    <3>3. p <= n + 1 /\ L(p) = d
      BY <1>1, <1>5, <3>2
    <3> QED
      BY <3>1, <3>2, <3>3
  <2> QED
    BY <2>1, <2>2
<1>9. ASSUME NEW p \in Pushes(code), p <= n + 1, L(p) < Recent
      PROVE  L(p) < Len(r) /\ r[Len(r) - L(p)] = Val(code, p)
  <2>1. CASE p = n + 1
    <3>1. L(p) = 0 /\ 0 < Len(r) /\ 0 \in 0 .. Len(r) - 1
      BY <1>3, <1>4, <1>6, <1>9, <2>1
    <3> QED
      BY <1>4, <2>1, <3>1 DEF v
  <2>2. CASE p <= n
    <3>1. K(p) \in Nat /\ L(p) = K(p) + 1 /\ K(p) < Len(w) /\ w[Len(w) - K(p)] = Val(code, p)
      BY <1>2, <1>3, <1>5, <1>9, <2>2
    <3>2. L(p) < Len(r) /\ L(p) \in 0 .. Len(r) - 1 /\ L(p) # 0 /\ L(p) - 1 = K(p)
      <4>1. L(p) \in Nat /\ L(p) < Recent /\ Len(r) \in Nat
        BY <1>4, <1>9, <3>1
      <4>2. L(p) < Len(r)
        <5>1. CASE Len(w) = Recent
          BY <1>4, <4>1, <5>1
        <5>2. CASE Len(w) # Recent
          BY <1>3, <1>4, <3>1, <5>2
        <5> QED
          BY <5>1, <5>2
      <4> QED
        BY <3>1, <4>1, <4>2
    <3>3. r[Len(r) - L(p)] = w[Len(w) - (L(p) - 1)]
      BY <1>4, <3>2
    <3> QED
      BY <3>1, <3>2, <3>3
  <2> QED
    BY <1>7, <1>9, <2>1, <2>2
<1>10. Len(r) <= Recent
  BY <1>2, <1>3, <1>4
<1> QED
  BY <1>4, <1>8, <1>9, <1>10 DEF WindowIs, r, L, v

\* Bytes that are no small push leave the window what it is.
LEMMA WindowStays ==
  ASSUME NEW code \in Seq(Byte), NEW n \in Nat, NEW w, WindowIs(code, n, w), n + 1 \notin Pushes(code)
  PROVE  WindowIs(code, n + 1, w)
<1>1. Pushes(code) \subseteq Nat
  <2>1. Walk(code) \subseteq DOMAIN code
    BY WalkStops
  <2> QED
    BY <2>1 DEF Pushes
<1>2. \A p \in Pushes(code) : (p <= n <=> p <= n + 1)
  BY <1>1
<1>3. \A p \in Pushes(code) : p <= n => Cardinality(Later(code, p, n + 1)) = Cardinality(Later(code, p, n))
  BY <1>1, LaterFacts
<1>4. /\ w \in Seq(Nat) /\ Len(w) <= Recent
      /\ \A d \in 0 .. Len(w) - 1 :
           \E p \in Pushes(code) : p <= n + 1 /\ Val(code, p) = w[Len(w) - d] /\ Cardinality(Later(code, p, n + 1)) = d
  <2>1. ASSUME NEW d \in 0 .. Len(w) - 1
        PROVE \E p \in Pushes(code) : p <= n + 1 /\ Val(code, p) = w[Len(w) - d] /\ Cardinality(Later(code, p, n + 1)) = d
    <3>1. PICK p \in Pushes(code) : p <= n /\ Val(code, p) = w[Len(w) - d] /\ Cardinality(Later(code, p, n)) = d
      BY DEF WindowIs
    <3> QED
      BY <1>2, <1>3, <3>1
  <2> QED
    BY <2>1 DEF WindowIs
<1>5. ASSUME NEW p \in Pushes(code), p <= n + 1, Cardinality(Later(code, p, n + 1)) < Recent
      PROVE  /\ Cardinality(Later(code, p, n + 1)) < Len(w)
             /\ w[Len(w) - Cardinality(Later(code, p, n + 1))] = Val(code, p)
  BY <1>2, <1>3, <1>5 DEF WindowIs
<1> QED
  BY <1>4, <1>5 DEF WindowIs

\* The window at a call holds exactly the values of the pushes it recalls.
LEMMA WindowRecalls ==
  ASSUME NEW code \in Seq(Byte), NEW n \in Nat, NEW w, WindowIs(code, n, w), NEW v
  PROVE  v \in ToSet(w) <=> \E p \in Pushes(code) : Recalls(code, n + 1, p, v)
<1>1. Pushes(code) \subseteq Nat /\ (n + 1) - 1 = n
  <2>1. Walk(code) \subseteq DOMAIN code
    BY WalkStops
  <2> QED
    BY <2>1 DEF Pushes
<1>2. \A p \in Pushes(code) : (p < n + 1 <=> p <= n)
  BY <1>1
<1>3. w \in Seq(Nat) /\ Len(w) \in Nat /\ Len(w) <= Recent /\ Recent \in Nat
  BY PqAssumption DEF WindowIs
<1>4. ASSUME v \in ToSet(w) PROVE \E p \in Pushes(code) : Recalls(code, n + 1, p, v)
  <2>1. PICK k \in 1 .. Len(w) : w[k] = v
    BY <1>3, <1>4 DEF ToSet
  <2>2. Len(w) - k \in 0 .. Len(w) - 1 /\ Len(w) - (Len(w) - k) = k /\ Len(w) - k < Recent
    BY <1>3
  <2>3. PICK p \in Pushes(code) :
          p <= n /\ Val(code, p) = w[k] /\ Cardinality(Later(code, p, n)) = Len(w) - k
    BY <2>2 DEF WindowIs
  <2> QED
    BY <1>1, <1>2, <2>1, <2>2, <2>3 DEF Recalls
<1>5. ASSUME NEW p \in Pushes(code), Recalls(code, n + 1, p, v) PROVE v \in ToSet(w)
  <2>1. p <= n /\ p \in Nat /\ Val(code, p) = v /\ Cardinality(Later(code, p, n)) < Recent
    BY <1>1, <1>2, <1>5 DEF Recalls
  <2>2. Cardinality(Later(code, p, n)) \in Nat
    BY <2>1, LaterFacts
  <2>3. Cardinality(Later(code, p, n)) < Len(w) /\ w[Len(w) - Cardinality(Later(code, p, n))] = v
    BY <2>1 DEF WindowIs
  <2>4. Len(w) - Cardinality(Later(code, p, n)) \in 1 .. Len(w)
    BY <1>3, <2>2, <2>3
  <2> QED
    BY <1>3, <2>3, <2>4 DEF ToSet
<1> QED
  BY <1>4, <1>5
-----------------------------------------------------------------------------
\* One turn of the loop.
LEMMA ScanStep ==
  ASSUME NEW code \in Seq(Byte), NEW n \in Nat, n + 1 \in DOMAIN code,
         NEW acc \in [window : Seq(Nat), found : SUBSET Nat],
         WindowIs(code, n, acc.window), FoundIs(code, n, acc.found),
         NEW next, next = ScannedByte(code, Walk(code), n + 1, acc)
  PROVE  /\ next \in [window : Seq(Nat), found : SUBSET Nat]
         /\ WindowIs(code, n + 1, next.window) /\ FoundIs(code, n + 1, next.found)
<1> DEFINE m == n + 1
<1>1. Walk(code) \subseteq DOMAIN code /\ DOMAIN code \subseteq Nat
  BY WalkStops
<1>2. acc.window \in Seq(Nat) /\ acc.found \in SUBSET Nat /\ acc = [window |-> acc.window, found |-> acc.found]
  OBVIOUS
<1>3. \A c \in Walk(code) : c <= m <=> c <= n \/ c = m
  BY <1>1
<1>4. code[m] \in Byte
  OBVIOUS
<1>5. m \in Pushes(code) => m \in Walk(code) /\ ~IsCall(code, m) /\ Val(code, m) \in Nat
  <2>1. Immediate(code[m]) \in 1 .. 2 => code[m] \in {PUSH1, PUSH1 + 1}
    BY <1>4, ImmediateFacts
  <2> QED
    BY <2>1 DEF Pushes, IsSmallPush, IsCall, PUSH1, CALL, STATICCALL, Val
<1>6. ASSUME ~(m \in Walk(code) /\ IsCall(code, m)) PROVE FoundIs(code, m, acc.found)
  <2>1. \A c \in Walk(code) : c <= m /\ IsCall(code, c) <=> c <= n /\ IsCall(code, c)
    BY <1>1, <1>3, <1>6
  <2> QED
    BY <2>1, Zenon DEF FoundIs
<1>7. CASE m \in Pushes(code)
  <2>1. next = [acc EXCEPT !.window = Pushed(@, Val(code, m))]
    BY <1>7 DEF ScannedByte, Pushes, Val
  <2>2. next.window = Pushed(acc.window, Val(code, m)) /\ next.found = acc.found
    BY <1>2, <2>1
  <2>3. WindowIs(code, m, next.window)
    BY <1>7, <2>2, WindowPushed
  <2>4. next = [window |-> next.window, found |-> next.found]
    BY <1>2, <2>1
  <2>5. next.window \in Seq(Nat)
    BY <2>3 DEF WindowIs
  <2> QED
    BY <1>2, <1>5, <1>6, <1>7, <2>2, <2>3, <2>4, <2>5
<1>8. CASE m \in Walk(code) /\ IsCall(code, m)
  <2>1. m \notin Pushes(code) /\ ~IsSmallPush(code, m)
    BY <1>5, <1>8 DEF Pushes
  <2>2. next = [acc EXCEPT !.found = @ \cup ToSet(acc.window)]
    BY <1>8, <2>1 DEF ScannedByte, IsCall
  <2>3. next.window = acc.window /\ next.found = acc.found \cup ToSet(acc.window)
        /\ next = [window |-> next.window, found |-> next.found]
    BY <1>2, <2>2
  <2>4. WindowIs(code, m, next.window)
    BY <2>1, <2>3, WindowStays
  <2>5. ToSet(acc.window) \in SUBSET Nat
    BY <1>2 DEF ToSet
  <2>6. ASSUME NEW v
        PROVE  v \in next.found <=>
                 \E c \in Walk(code) : c <= m /\ IsCall(code, c) /\ \E p \in Pushes(code) : Recalls(code, c, p, v)
    <3>1. v \in ToSet(acc.window) <=> \E p \in Pushes(code) : Recalls(code, m, p, v)
      BY WindowRecalls
    <3>2. v \in acc.found <=>
            \E c \in Walk(code) : c <= n /\ IsCall(code, c) /\ \E p \in Pushes(code) : Recalls(code, c, p, v)
      BY DEF FoundIs
    <3>3. v \in next.found <=> v \in acc.found \/ v \in ToSet(acc.window)
      BY <2>3
    <3> HIDE DEF m
    <3> QED
      BY <1>3, <1>8, <3>1, <3>2, <3>3, Zenon
  <2>7. FoundIs(code, m, next.found)
    BY <2>6, Zenon DEF FoundIs
  <2> QED
    BY <1>2, <2>3, <2>4, <2>5, <2>7
<1>9. CASE m \notin Pushes(code) /\ ~(m \in Walk(code) /\ IsCall(code, m))
  <2>1. next = acc
    BY <1>9 DEF ScannedByte, Pushes, IsCall
  <2>2. WindowIs(code, m, acc.window)
    BY <1>9, WindowStays
  <2> QED
    BY <1>6, <1>9, <2>1, <2>2
<1> QED
  BY <1>7, <1>8, <1>9

LEMMA WindowEmpty ==
  ASSUME NEW code \in Seq(Byte)
  PROVE  WindowIs(code, 0, <<>>) /\ FoundIs(code, 0, {})
<1>1. \A c \in Walk(code) : c \in Nat /\ ~(c <= 0)
  BY WalkStops
<1>2. Pushes(code) \subseteq Walk(code)
  BY DEF Pushes
<1>3. WindowIs(code, 0, <<>>)
  BY <1>1, <1>2, PqAssumption DEF WindowIs
<1>4. FoundIs(code, 0, {})
  BY <1>1 DEF FoundIs
<1> QED
  BY <1>3, <1>4

\* The scan finds the addresses that are called, and no others.
LEMMA ScanFindsCalls ==
  ASSUME NEW code \in Seq(Byte), NEW v
  PROVE  v \in precompileCalls(code) <=> Calls(code, v)
<1>1. PICK upTo : Scans(code, Walk(code), upTo) /\ precompileCalls(code) = upTo[Len(code)].found
  BY CallsAtScans DEF precompileCalls
<1>2. Len(code) \in Nat /\ DOMAIN code = 1 .. Len(code)
  OBVIOUS
<1>3. ASSUME NEW n \in 0 .. Len(code)
      PROVE  upTo[n] = IF n = 0 THEN [window |-> <<>>, found |-> {}]
                       ELSE ScannedByte(code, Walk(code), n, upTo[n - 1])
  BY <1>1, Zenon DEF Scans
<1> DEFINE Upheld(n) == /\ upTo[n] \in [window : Seq(Nat), found : SUBSET Nat]
                        /\ WindowIs(code, n, upTo[n].window) /\ FoundIs(code, n, upTo[n].found)
           N == {n \in Nat : n <= Len(code) => Upheld(n)}
<1>4. 0 \in N
  <2>1. upTo[0] = [window |-> <<>>, found |-> {}]
    BY <1>2, <1>3
  <2>2. upTo[0] \in [window : Seq(Nat), found : SUBSET Nat] /\ upTo[0].window = <<>> /\ upTo[0].found = {}
    BY <2>1
  <2> QED
    BY <2>2, WindowEmpty
<1>5. ASSUME NEW n \in Nat, n \in N PROVE n + 1 \in N
  <2> SUFFICES ASSUME n + 1 <= Len(code) PROVE Upheld(n + 1)
    OBVIOUS
  <2>1. n <= Len(code) /\ n + 1 \in 0 .. Len(code) /\ n + 1 # 0 /\ (n + 1) - 1 = n /\ n + 1 \in DOMAIN code
    BY <1>2
  <2>2. Upheld(n)
    BY <1>5, <2>1
  <2>3. upTo[n + 1] = ScannedByte(code, Walk(code), n + 1, upTo[n])
    BY <1>3, <2>1
  <2> QED
    BY <2>1, <2>2, <2>3, ScanStep
<1> HIDE DEF N
<1>6. Len(code) \in N
  BY <1>2, <1>4, <1>5, NatSetInduction
<1>7. FoundIs(code, Len(code), precompileCalls(code))
  BY <1>1, <1>2, <1>6 DEF N
<1>8. \A n \in Boundary(code) : n \in 1 .. Len(code)
  BY <1>2, WalkIsBoundary, WalkStops
<1>9. SmallPushes(code) = Pushes(code)
  <2>1. \A n \in DOMAIN code : Immediate(code[n]) \in 1 .. 2 <=> code[n] \in {PUSH1, PUSH1 + 1}
    BY ImmediateFacts
  <2> QED
    BY <1>2, <1>8, <2>1, WalkIsBoundary DEF SmallPushes, Pushes, IsSmallPush
<1>10. \A c \in Walk(code) : \A p \in Pushes(code) :
         {q \in SmallPushes(code) : p < q /\ q < c} = Later(code, p, c - 1)
  <2>1. Walk(code) \subseteq Nat /\ Pushes(code) \subseteq Nat
    BY <1>8, WalkIsBoundary DEF Pushes
  <2> SUFFICES ASSUME NEW c \in Walk(code), NEW p \in Pushes(code)
               PROVE  {q \in SmallPushes(code) : p < q /\ q < c} = Later(code, p, c - 1)
    OBVIOUS
  <2>2. \A q \in Pushes(code) : q < c <=> q <= c - 1
    BY <2>1
  <2> QED
    BY <1>9, <2>2 DEF Later
<1>11. \A c \in Walk(code) : c <= Len(code)
  BY <1>2, <1>8, WalkIsBoundary
<1>12. v \in precompileCalls(code) <=>
         \E c \in Walk(code) : IsCall(code, c) /\ \E p \in Pushes(code) : Recalls(code, c, p, v)
  BY <1>7, <1>11, Zenon DEF FoundIs
<1>13. \A c \in Walk(code) : \A p \in Pushes(code) :
         Recalls(code, c, p, v) <=>
           p < c /\ Value(Data(code, p)) = v /\ Cardinality({q \in SmallPushes(code) : p < q /\ q < c}) < Recent
  BY <1>10, Zenon DEF Recalls, Val
<1>14. Walk(code) = Boundary(code)
  BY WalkIsBoundary
<1> QED
  BY <1>9, <1>12, <1>13, <1>14, Zenon DEF Calls, IsCall

\* A selector is reported exactly where it stands behind a PUSH4.
LEMMA SelectorsAreExposed ==
  ASSUME NEW code \in Seq(Byte)
  PROVE  detectSelectors(code) = {sel \in Selectors : Exposes(code, sel)}
<1>1. Walk(code) = Boundary(code) /\ Walk(code) \subseteq DOMAIN code
  BY WalkIsBoundary, WalkStops
<1>2. Len(code) \in Nat /\ DOMAIN code = 1 .. Len(code)
  OBVIOUS
<1>3. ASSUME NEW p \in Walk(code), code[p] = PUSH4, NEW sel \in Selectors
      PROVE  Data(code, p) = sel <=> Len(code) >= p + 4 /\ SubSeq(code, p + 1, p + 4) = sel
  <2>1. Immediate(code[p]) = 4 /\ p \in 1 .. Len(code)
    BY <1>1, <1>2, <1>3 DEF Immediate, IsPush, PUSH1, PUSH4, PUSH32
  <2>2. Data(code, p) = SubSeq(code, p + 1, IF p + 4 < Len(code) THEN p + 4 ELSE Len(code))
    BY <2>1 DEF Data
  <2>3. sel \in [1 .. 4 -> Byte]
    BY PqAssumption DEF SelectorSize
  <2>4. DOMAIN sel = 1 .. 4
    BY <2>3
  <2>5. CASE p + 4 <= Len(code)
    <3>1. (IF p + 4 < Len(code) THEN p + 4 ELSE Len(code)) = p + 4 /\ Len(code) >= p + 4
      BY <1>2, <2>1, <2>5
    <3>2. Data(code, p) = SubSeq(code, p + 1, p + 4)
      BY <2>2, <3>1
    <3> QED
      BY <3>1, <3>2
  <2>6. CASE ~(p + 4 <= Len(code))
    <3>1. Data(code, p) = SubSeq(code, p + 1, Len(code))
      BY <1>2, <2>1, <2>2, <2>6
    <3>2. DOMAIN SubSeq(code, p + 1, Len(code)) = 1 .. Len(code) - p
      BY <1>2, <2>1
    <3>3. 4 \notin 1 .. Len(code) - p /\ 4 \in 1 .. 4
      BY <1>2, <2>1, <2>6
    <3> QED
      BY <1>2, <2>1, <2>4, <2>6, <3>1, <3>2, <3>3
  <2> QED
    BY <2>5, <2>6
<1>4. ASSUME NEW sel PROVE sel \in detectSelectors(code) <=> sel \in Selectors /\ Exposes(code, sel)
  <2>1. sel \in detectSelectors(code) <=>
          sel \in Selectors /\ \E p \in Walk(code) : code[p] = PUSH4 /\ Data(code, p) = sel
    BY DEF detectSelectors, selectorsPresent
  <2> QED
    BY <1>1, <1>3, <2>1 DEF Exposes
<1> QED
  BY <1>4
\* What the classification says of code.
LEMMA SchemeIsExact ==
  ASSUME NEW code \in Seq(Byte)
  PROVE  /\ classifyScheme(code) # "none"
         /\ classifyScheme(code) \in {"eoa", "ecdsa", "bls-pairing"} <=>
              \/ code = <<>>
              \/ Len(code) = DelegationSize /\ SubSeq(code, 1, 3) = DelegationPrefix
              \/ \E v \in {1, 8} \cup EIP2537 : Calls(code, v)
         /\ classifyScheme(code) \in {"sig-interface", "unknown"} =>
              (classifyScheme(code) = "sig-interface" <=> \E sel \in Selectors : Exposes(code, sel))
<1>1. IsPrefix(DelegationPrefix, code) /\ Len(code) = DelegationSize
        <=> Len(code) = DelegationSize /\ SubSeq(code, 1, 3) = DelegationPrefix
  <2>1. Len(DelegationPrefix) = 3 /\ SubSeq(DelegationPrefix, 1, 3) = DelegationPrefix
    <3>1. DelegationPrefix \in Seq(Nat) /\ Len(DelegationPrefix) = 3
      BY DEF DelegationPrefix
    <3> QED
      BY <3>1, SubSeqFull
  <2>2. Len(code) = DelegationSize => 3 <= Len(code)
    BY <2>1, PqAssumption
  <2> QED
    BY <2>1, <2>2 DEF IsPrefix
<1>2. (\E v \in {1, 8} \cup EIP2537 : Calls(code, v))
        <=> 1 \in precompileCalls(code) \/ precompileCalls(code) \cap ({8} \cup EIP2537) # {}
  <2>1. \A v : v \in precompileCalls(code) <=> Calls(code, v)
    BY ScanFindsCalls
  <2> QED
    BY <2>1, Zenon
<1>3. detectSelectors(code) # {} <=> \E sel \in Selectors : Exposes(code, sel)
  BY SelectorsAreExposed, Zenon
<1> QED
  BY <1>1, <1>2, <1>3 DEF classifyScheme

PqInv == (scheme # "none" => argv.cmd = "pq-readiness" /\ pc = "done") /\ VulnerableExactly

LEMMA PqInitInv == Init => PqInv
BY DEF Init, PqInit, PqInv, VulnerableExactly

LEMMA PqStep == (argv \in Invocations) /\ PqInv /\ [Next]_vars => PqInv'
<1> SUFFICES ASSUME argv \in Invocations, PqInv, [Next]_vars PROVE PqInv'
  OBVIOUS
<1>1. CASE argv.cmd = "pq-readiness" /\ PqReadiness
  <2>1. argv.code \in Seq(Byte)
    BY <1>1, InvocationsAssumption
  <2>2. /\ argv' = argv /\ pc' = "done" /\ scheme' = classifyScheme(argv.code)
        /\ exit' = 1 <=> scheme' \in {"eoa", "ecdsa", "bls-pairing"}
    BY <1>1 DEF PqReadiness, Exit
  <2>3. VulnerableExactly'
    BY <2>1, <2>2, SchemeIsExact DEF VulnerableExactly
  <2> QED
    BY <1>1, <2>2, <2>3 DEF PqInv
<1>2. CASE argv.cmd = "pq-readiness" /\ GetCodeFails
  BY <1>2 DEF GetCodeFails, PqInv, VulnerableExactly
<1>3. CASE Dispatch
  BY <1>3 DEF Dispatch, main, pqVars, PqInv, VulnerableExactly
<1>4. CASE Settle \/ WatchFeed \/ ProveMessage
  <2>1. argv.cmd # "pq-readiness" /\ scheme' = scheme
    BY <1>4 DEF Settle, WatchFeed, ProveMessage, pqVars
  <2> QED
    BY <2>1 DEF PqInv, VulnerableExactly
<1>5. CASE UNCHANGED vars
  BY <1>5 DEF vars, commandLine, pqVars, PqInv, VulnerableExactly
<1> QED
  BY <1>1, <1>2, <1>3, <1>4, <1>5 DEF Next, ClassifyCode, PqNext
-----------------------------------------------------------------------------
(***************************************************************************)
(* The invariants hold of every behaviour.                                 *)
(***************************************************************************)
SpecInvariant ==
  ProcessInv /\ ModeInv /\ AttestInv /\ OracleInv /\ FinalInv /\ PromiseInv /\ SearchInv /\ PqInv

LEMMA SpecInv == Spec => []SpecInvariant
<1>1. Init => SpecInvariant
  BY AttestInit, OracleInitInv, FinalInitInv, PromiseInit, SearchInit, PqInitInv DEF Init, SettlementInit, ProcessInv, ModeInv, SpecInvariant
<1>2. SpecInvariant /\ [Next]_vars => SpecInvariant'
  BY ProcessStep, ModeStep, AttestStep, OracleStep, FinalStep, PromiseStep, SearchStep, PqStep
     DEF SpecInvariant, ProcessInv
<1>3. QED
  BY <1>1, <1>2, PTL DEF Spec

(***************************************************************************)
(* A command that exits with 0 over a price feed has read one that was     *)
(* usable meanwhile, however the feed, the sequencer and the clock moved   *)
(* between its reads.                                                      *)
(***************************************************************************)
THEOREM CleanFeedsWereUsable == Spec => []CleanFeedWasUsable
<1>1. SpecInvariant => CleanFeedWasUsable
  BY DEF SpecInvariant, OracleInv, CleanFeedWasUsable, Feeding
<1>2. QED
  BY <1>1, SpecInv, PTL

(***************************************************************************)
(* A command that exits with 0 over a message has asked a contract that    *)
(* attested it.                                                            *)
(***************************************************************************)
THEOREM VerifiedMessagesWereAttested == Spec => []VerifiedWasAttested
<1>1. SpecInvariant => VerifiedWasAttested
  BY DEF SpecInvariant, AttestInv, VerifiedWasAttested, Proving
<1>2. QED
  BY <1>1, SpecInv, PTL

(***************************************************************************)
(* A fill reported as final stays in the chain, whatever the chain does    *)
(* within its deepest reorganisation.                                      *)
(***************************************************************************)
THEOREM FinalFillsStay == Spec => []FinalIsFinal
<1>1. SpecInvariant => FinalIsFinal
  BY DEF SpecInvariant, FinalInv, FinalIsFinal, Verified, Held, Settling
<1>2. QED
  BY <1>1, SpecInv, PTL

(***************************************************************************)
(* A settlement verified with exit code 0 was delivered: every output on   *)
(* the chain looked at, in its token, to its recipient and in time.        *)
(***************************************************************************)
THEOREM SettlementsWereDelivered == Spec => []SettledWasDelivered
<1>1. SpecInvariant => SettledWasDelivered
  BY DEF SpecInvariant, PromiseInv, SettledWasDelivered, Verified, Settling
<1>2. QED
  BY <1>1, SpecInv, PTL

(***************************************************************************)
(* A fill that the scan discovers delivers the amount by itself, and is in *)
(* no later block than any other that does, however the ranges divide the  *)
(* window and whichever of them cannot be read.                            *)
(***************************************************************************)
THEOREM DiscoveredFillsSuffice == Spec => []DiscoveredFillSuffices
<1>1. SpecInvariant => DiscoveredFillSuffices
  <2>1. ~Settling => DiscoveredFillSuffices
    BY DEF Settling, DiscoveredFillSuffices
  <2>2. QED
    BY <2>1, PickedFill DEF SpecInvariant
<1>2. QED
  BY <1>1, SpecInv, PTL

(***************************************************************************)
(* A diagnosis of "settled" is true of the chain, whatever was skipped;    *)
(* any diagnosis is if nothing was.                                        *)
(***************************************************************************)
THEOREM DiagnosesHold == Spec => []DiagnosisHolds
<1>1. SpecInvariant => DiagnosisHolds
  <2>1. ModeInv /\ ~Settling => DiagnosisHolds
    BY DEF ModeInv, DiagnosisHolds
  <2>2. QED
    BY <2>1, TrueDiagnosis DEF SpecInvariant
<1>2. QED
  BY <1>1, SpecInv, PTL

(***************************************************************************)
(* The post-quantum verdict fails exactly an account without code of its   *)
(* own and code that calls a curve precompile at a real instruction, and   *)
(* reports a signature interface exactly where a selector is pushed,       *)
(* however code and data are mixed.                                        *)
(***************************************************************************)
THEOREM VulnerableCodeIsFound == Spec => []VulnerableExactly
<1>1. SpecInvariant => VulnerableExactly
  BY DEF SpecInvariant, PqInv
<1>2. QED
  BY <1>1, SpecInv, PTL
=============================================================================
