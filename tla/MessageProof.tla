----------------------------- MODULE MessageProof -----------------------------
(***************************************************************************)
(* evmsec message-proof: was a cross-chain message validly attested?  One  *)
(* call of the layer's contract on the destination chain decides.          *)
(* Messages are executed and guardian sets replaced meanwhile; a contract  *)
(* given with --contract may answer anything.                              *)
(***************************************************************************)
EXTENDS CommandLine

CONSTANTS
  Bundled       \* the <<layer, chain>> pairs whose contract the code knows

VARIABLES
  delivered,    \* the message was processed by the mailbox of its destination
  guardians,    \* whether the VAA's signatures are the current guardian set's
  status,       \* the verdict
  attested      \* history: the genuine contract attested the message meanwhile

proofVars == <<delivered, guardians, status, attested>>

ProofInit ==
  /\ delivered \in BOOLEAN /\ guardians \in BOOLEAN
  /\ status = "none" /\ attested = FALSE
-----------------------------------------------------------------------------
\* What the layer's own contract on the message's destination answers.
Attests == IF argv.layer = "hyperlane" THEN delivered ELSE guardians

\* A message is executed, or its block replaced: the mailbox is read at the
\* head.  Guardian sets are replaced too.
Relay ==
  /\ argv.cmd = "message-proof"
  /\ \/ delivered' = ~delivered /\ UNCHANGED guardians
     \/ guardians' = ~guardians /\ UNCHANGED delivered
  /\ UNCHANGED <<commandLine, status>>
  /\ attested' = (attested \/ (pc = "verify" /\ Attests'))

\* getLayer, chain, the contract to ask, and what the layer asks for.
Prepare ==
  /\ pc = "begin" /\ argv.cmd = "message-proof"
  /\ IF /\ argv.layer \in {"hyperlane", "wormhole"}
        /\ argv.contract \/ <<argv.layer, argv.chain>> \in Bundled
        /\ (IF argv.layer = "hyperlane" THEN "id" ELSE "vaa") \in argv.evidence
     THEN pc' = "verify" /\ UNCHANGED exit
     ELSE Throw
  /\ attested' = Attests
  /\ UNCHANGED <<argv, delivered, guardians, status>>

\* Mailbox.delivered on another chain than the message's says no; another
\* contract says what it likes.
ProofAnswers ==
  IF argv.contract THEN BOOLEAN
  ELSE {Attests /\ (argv.layer = "hyperlane" => argv.chain = argv.destination)}

\* Mutant: only a layer that rejects fails the command.
VerifyLenient ==
  /\ pc = "verify"
  /\ \E yes \in ProofAnswers : status' = IF yes THEN "verified" ELSE "unverified"
  /\ Exit(0)
  /\ UNCHANGED <<argv, delivered, guardians, attested>>

Verify ==
  /\ pc = "verify"
  /\ \E yes \in ProofAnswers : status' = IF yes THEN "verified" ELSE "unverified"
  /\ Exit(IF status' = "verified" THEN 0 ELSE 1)
  /\ UNCHANGED <<argv, delivered, guardians, attested>>

VerifyFails ==
  /\ pc = "verify"
  /\ Throw
  /\ UNCHANGED <<argv, proofVars>>

ProofNext == Relay \/ Prepare \/ Verify \/ VerifyFails
-----------------------------------------------------------------------------
(***************************************************************************)
(* Exit code 0 from a contract the code knows: at some instant while the   *)
(* command ran the layer attested the message, Hyperlane on the chain the  *)
(* message is for.  Nothing says that it still does: the block may be      *)
(* replaced, the guardian set too (message-proof.ts:15-16).                *)
(***************************************************************************)
VerifiedWasAttested ==
  argv.cmd = "message-proof" /\ exit = 0 /\ ~argv.contract =>
    /\ attested
    /\ argv.layer = "hyperlane" => argv.chain = argv.destination
=============================================================================
