------------------------------- MODULE OneShots -------------------------------
(***************************************************************************)
(* index.ts and four of the commands it dispatches to: one process, one    *)
(* invocation, one exit code.  What a command does not touch stays as it   *)
(* began.                                                                  *)
(***************************************************************************)
EXTENDS Settlement, OracleHygiene, MessageProof, PqReadiness

CONSTANT Invocations

\* Number() of an option is a number, NaN among them; code is bytes.
ASSUME InvocationsAssumption ==
  \A i \in Invocations :
    /\ i.cmd = "oracle-hygiene" => i.heartbeat \in Int /\ i.grace \in Int /\ i.sequencer \in BOOLEAN
    /\ i.cmd = "settlement" => i.finalityDepth \in Int /\ i.scanBlocks \in Int
    /\ i.cmd = "pq-readiness" => i.code \in Seq(Byte)

vars == <<commandLine, settlementVars, oracleVars, proofVars, pqVars>>

\* What another command would have found varies only where one may look.
Init ==
  /\ argv \in Invocations /\ pc = "main" /\ exit = Running
  /\ SettlementInit /\ OracleInit /\ ProofInit /\ PqInit
  /\ argv.cmd # "oracle-hygiene" => feed.answer <= 0 /\ feed.updatedAt = 0 /\ ~feed.carried /\ uptime.up
  /\ argv.cmd # "message-proof" => ~delivered /\ ~guardians

Settle ==
  /\ argv.cmd = "settlement" /\ SettlementNext
  /\ UNCHANGED <<oracleVars, proofVars, pqVars>>

WatchFeed ==
  /\ argv.cmd = "oracle-hygiene" /\ OracleNext
  /\ UNCHANGED <<settlementVars, proofVars, pqVars>>

ProveMessage ==
  /\ argv.cmd = "message-proof" /\ ProofNext
  /\ UNCHANGED <<settlementVars, oracleVars, pqVars>>

ClassifyCode ==
  /\ argv.cmd = "pq-readiness" /\ PqNext
  /\ UNCHANGED <<settlementVars, oracleVars, proofVars>>

Dispatch == main /\ UNCHANGED <<settlementVars, oracleVars, proofVars, pqVars>>

Next == Dispatch \/ Settle \/ WatchFeed \/ ProveMessage \/ ClassifyCode

Spec == Init /\ [][Next]_vars
=============================================================================
