------------------------------ MODULE Settlement ------------------------------
(***************************************************************************)
(* evmsec settlement [diagnose]: decode what an intent promised, find the  *)
(* transaction that fills it on the destination chain (given, or scanned   *)
(* for in getLogs chunks), and judge what it delivered.  One step per      *)
(* await.  The destination chain grows and replaces its newest blocks      *)
(* meanwhile, and any read may fail for good.                              *)
(***************************************************************************)
EXTENDS CommandLine, Sequences, SequencesExt, FiniteSets, FiniteSetsExt, Functions

CONSTANTS
  SourceTxs,     \* the opening transactions: transaction -> its logs
  Contents,      \* what a block of the destination chain may hold: sequences of logs
  SCAN_CHUNK,    \* blocks per getLogs request (10 000 in the code)
  Configured,    \* the chains config.ts knows
  MaxBlock,      \* bound: the highest block of the destination chain
  Reorgs,        \* bound: how often it replaces its newest blocks
  MaxDepth       \* bound: how many blocks it then replaces

ASSUME SettlementAssumption ==
  /\ SCAN_CHUNK \in Nat /\ MaxBlock \in Nat /\ Reorgs \in Nat /\ MaxDepth \in Nat

\* Logs come in order, the words of an amount, a deadline or a value as numbers.
ASSUME LogsAssumption ==
  /\ \A tx \in DOMAIN SourceTxs :
       /\ SourceTxs[tx] \in Seq(ToSet(SourceTxs[tx]))
       /\ \A log \in ToSet(SourceTxs[tx]) : log.event # "Other" =>
            /\ log.deadline \in Nat
            /\ log.outs \in Seq(ToSet(log.outs))
            /\ log.event # "Open" => log.outs # <<>>
            /\ \A o \in ToSet(log.outs) : o.amount \in Nat
  /\ \A logs \in Contents :
       /\ logs \in Seq(ToSet(logs))
       /\ \A log \in ToSet(logs) : log.event = "Transfer" => log.value \in Nat

ZERO == "zero"              \* ERC-7683 and Across: native value
SENTINEL == "sentinel"      \* CoW: native value
None == "none"
NaN == -2                   \* Number("abc")
NoOrder == [outputs |-> <<>>, fillDeadline |-> 0]
NoReceipt == [block |-> 0, logs |-> <<>>]

VARIABLES
  blocks,        \* the destination chain, block 1 first
  reorgs,        \* how often it replaced blocks
  order,         \* the normalized intent
  dest,          \* the destination chain resolved
  window,        \* the blocks the scan covers: <<from, head>>
  chunks,        \* ranges not yet asked for
  found,         \* candidates, or deliveries: Transfer logs by block and position
  fillTx,        \* the fill, given or discovered
  receipt,       \* its receipt
  finalized,     \* what is reported of its finality
  mode,          \* the diagnosis
  \* history, not in the code
  skipped,       \* blocks in ranges that failed
  shaken         \* blocks were replaced between the receipt and the head read

chain == <<blocks, reorgs>>
scanState == <<window, chunks, found, skipped>>
fillState == <<fillTx, receipt, finalized, shaken>>
settlementVars == <<chain, order, dest, scanState, fillState, mode>>

SettlementInit ==
  /\ blocks = <<>> /\ reorgs = 0
  /\ order = NoOrder /\ dest = None
  /\ window = <<>> /\ chunks = <<>> /\ found = {}
  /\ fillTx = None /\ receipt = NoReceipt /\ finalized = FALSE
  /\ mode = None
  /\ skipped = {} /\ shaken = FALSE
-----------------------------------------------------------------------------
(***************************************************************************)
(* The destination chain.  A transaction is in one block.                  *)
(***************************************************************************)
HeadBlock == Len(blocks)
Txs(logs) == {logs[i].tx : i \in DOMAIN logs}
\* A replaced block keeps the time of its height.
Timestamp(n) == n

OneBlockEach(bs) == \A i, j \in DOMAIN bs : i # j => Txs(bs[i]) \cap Txs(bs[j]) = {}

NewBlock ==
  /\ HeadBlock < MaxBlock
  /\ \E c \in Contents : blocks' = Append(blocks, c)
  /\ OneBlockEach(blocks')
  /\ UNCHANGED <<reorgs, order, dest, scanState, fillState, mode>>

Reorg ==
  /\ reorgs < Reorgs
  /\ \E k \in 1 .. MaxDepth \cap 1 .. HeadBlock : \E cs \in [1 .. k -> Contents] :
       blocks' = SubSeq(blocks, 1, HeadBlock - k) \o cs
  /\ OneBlockEach(blocks')
  /\ reorgs' = reorgs + 1
  /\ shaken' = (shaken \/ pc = "times")
  /\ UNCHANGED <<order, dest, scanState, fillTx, receipt, finalized, mode>>
-----------------------------------------------------------------------------
(***************************************************************************)
(* The intent.  An event names words; a bytes32 word is <<high, address>>, *)
(* of which the low 20 bytes are kept.                                     *)
(***************************************************************************)
bytes32ToAddress(word) == word[2]

Output(token, amount, recipient, chainId, native) ==
  [token |-> token, amount |-> amount, recipient |-> recipient, chainId |-> chainId, native |-> native]

Order(outputs, deadline) == [outputs |-> outputs, fillDeadline |-> deadline]

\* What the decoder of the protocol reads off the opening transaction, its
\* outputs by their position; none where it finds no event of its own.
Own(logs, events) == {i \in DOMAIN logs : logs[i].event \in events}

parseOpen(logs) ==
  LET own == logs[Min(Own(logs, {"Open"}))]
      Spent(o) == LET token == bytes32ToAddress(o.token)
                  IN  Output(token, o.amount, bytes32ToAddress(o.recipient), o.chainId, token = ZERO)
  IN  IF Own(logs, {"Open"}) = {} THEN NoOrder
      ELSE Order([i \in DOMAIN own.outs |-> Spent(own.outs[i])], own.deadline)

parseDeposit(logs) ==
  LET own == logs[Min(Own(logs, {"FundsDeposited", "V3FundsDeposited"}))]
      asAddr(w) == IF own.event = "FundsDeposited" THEN bytes32ToAddress(w) ELSE w
      Promised(o) == Output(asAddr(o.token), o.amount, asAddr(o.recipient), o.chainId, asAddr(o.token) = ZERO)
  IN  IF Own(logs, {"FundsDeposited", "V3FundsDeposited"}) = {} THEN NoOrder
      ELSE Order(<<Promised(own.outs[1])>>, own.deadline)

\* A batch settles on the chain it trades on, and names no deadline.
parseTrades(logs, src) ==
  LET Bought(o) == Output(o.token, o.amount, o.recipient, src, o.token = SENTINEL)
  IN  Order([i \in Own(logs, {"Trade"}) |-> Bought(logs[i].outs[1])], 0)

parseIntent(protocol, logs, src) ==
  CASE protocol = "erc7683" -> parseOpen(logs)
    [] protocol = "across" -> parseDeposit(logs)
    [] protocol = "cow" -> parseTrades(logs, src)

\* The chain --dest-chain names, or the only one the outputs are on.
resolveDestChain(key, outputs) ==
  LET ids == {outputs[i].chainId : i \in DOMAIN outputs}
      candidates == IF key # None THEN {key} ELSE IF Cardinality(ids) = 1 THEN ids ELSE {}
  IN  IF candidates \cap Configured = {} THEN None ELSE CHOOSE c \in candidates : TRUE

\* Usage, protocol and source chain; then the receipt of the opening
\* transaction, which names the chain to look at.
ReadIntent ==
  /\ pc = "begin"
  /\ LET usable == /\ {argv.sourceChain, argv.intentTx} \cap {None} = {}
                   /\ argv.protocol \in {"erc7683", "across", "cow"}
                   /\ argv.sourceChain \in Configured
                   /\ argv.intentTx \in DOMAIN SourceTxs
     IN  IF ~usable THEN Throw /\ UNCHANGED <<order, dest>>
         ELSE /\ order' = parseIntent(argv.protocol, SourceTxs[argv.intentTx], argv.sourceChain)
              /\ dest' = resolveDestChain(argv.destChain, order'.outputs)
              /\ IF DOMAIN order'.outputs = {} \/ dest' = None THEN Throw
                 ELSE /\ pc' = IF argv.diagnose \/ argv.fillTx = None THEN "head" ELSE "receipt"
                      /\ UNCHANGED exit
  /\ fillTx' = argv.fillTx
  /\ UNCHANGED <<argv, chain, scanState, receipt, finalized, shaken, mode>>

onDest == {i \in DOMAIN order.outputs : order.outputs[i].chainId = dest}
-----------------------------------------------------------------------------
(***************************************************************************)
(* The scan for deliveries of the first output that is not native.         *)
(***************************************************************************)
verifiable == {i \in onDest : ~order.outputs[i].native}
target == order.outputs[Min(verifiable)]

\* Ascending ranges of at most size blocks; none if an end is not a number.
chunkRange(from, to, size) ==
  LET step == Max({1, size})
      count == IF from = NaN THEN 0 ELSE (to - from) \div step + 1
  IN  [i \in 1 .. count |->
         <<from + (i - 1) * step, Min({from + i * step - 1, to})>>]

\* Math.max passes NaN on.
ScanHead ==
  /\ pc = "head"
  /\ IF verifiable = {} THEN Throw /\ UNCHANGED <<window, chunks>>
     ELSE /\ window' = <<IF argv.scanBlocks = NaN THEN NaN ELSE Max({0, HeadBlock - Max({1, argv.scanBlocks})}), HeadBlock>>
          /\ chunks' = chunkRange(window'[1], HeadBlock, SCAN_CHUNK)
          /\ pc' = "scan" /\ UNCHANGED exit
  /\ UNCHANGED <<argv, chain, order, dest, found, skipped, fillState, mode>>

Pays(log, out) == log.event = "Transfer" /\ log.token = out.token /\ log.to = out.recipient

\* The matching Transfer logs of some blocks, each by its block and position.
Payments(ns) ==
  UNION {{[block |-> n, at |-> i, tx |-> blocks[n][i].tx, value |-> blocks[n][i].value] :
            i \in {j \in DOMAIN blocks[n] : Pays(blocks[n][j], target)}} : n \in ns \cap DOMAIN blocks}

queryFilter(range) == Payments(range[1] .. range[2])

ScanChunk ==
  /\ pc = "scan" /\ chunks # <<>>
  /\ found' = found \cup queryFilter(chunks[1])
  /\ chunks' = Tail(chunks)
  /\ UNCHANGED <<commandLine, chain, order, dest, window, skipped, fillState, mode>>

\* Logs come in the chain's order, and ranges ascend.
Earlier(d, e) == d.block < e.block \/ (d.block = e.block /\ d.at < e.at)

\* The range is rejected, or, in a diagnosis, the time of one of its blocks
\* cannot be read: what was found of it by then is kept, the scan goes on.
SkipChunk ==
  /\ pc = "scan" /\ chunks # <<>>
  /\ \E kept \in SUBSET queryFilter(chunks[1]) :
       /\ \A d \in kept, e \in queryFilter(chunks[1]) : Earlier(e, d) => e \in kept
       /\ kept # {} => argv.diagnose /\ kept # queryFilter(chunks[1])
       /\ found' = found \cup kept
  /\ skipped' = skipped \cup (chunks[1][1] .. chunks[1][2])
  /\ chunks' = Tail(chunks)
  /\ UNCHANGED <<commandLine, chain, order, dest, window, fillState, mode>>

ValueOf(ds) == MapThenSumSet(LAMBDA d : d.value, ds)

\* Mutant: any transaction that pays the recipient will do.
selectFillTxAny(out, candidates) ==
  IF candidates = {} THEN None
  ELSE (CHOOSE d \in candidates : \A e \in candidates : ~Earlier(e, d)).tx

\* The transaction in the lowest block, the first seen of several, that
\* delivers the amount; None if there is none.
selectFillTx(out, candidates) ==
  LET satisfying == {d \in candidates : ValueOf({e \in candidates : e.tx = d.tx}) >= out.amount}
  IN  IF satisfying = {} THEN None
      ELSE (CHOOSE d \in satisfying : \A e \in satisfying : ~Earlier(e, d)).tx

Discover ==
  /\ pc = "scan" /\ chunks = <<>> /\ ~argv.diagnose
  /\ fillTx' = selectFillTx(target, found)
  /\ IF fillTx' = None THEN Throw ELSE pc' = "receipt" /\ UNCHANGED exit
  /\ UNCHANGED <<argv, chain, order, dest, scanState, receipt, finalized, shaken, mode>>

\* Mutant: lateness is judged by the last delivery, not by the one that
\* completed the amount.
diagnoseByLast(amount, deadline, deliveries) ==
  LET last == CHOOSE d \in deliveries : \A e \in deliveries : ~Earlier(d, e)
  IN  IF deliveries = {} THEN "never-filled"
      ELSE IF ValueOf(deliveries) < amount THEN "underfilled"
      ELSE IF deadline = 0 \/ Timestamp(last.block) <= deadline THEN "settled" ELSE "filled-late"

\* Deliveries in the order of their times; the first whose running total
\* reaches the amount completes the fill, on time or late.
diagnose(amount, deadline, deliveries) ==
  LET reaching == {d \in deliveries : ValueOf({e \in deliveries : ~Earlier(d, e)}) >= amount}
      completing == CHOOSE d \in reaching : \A e \in reaching : ~Earlier(e, d)
  IN  IF deliveries = {} THEN "never-filled"
      ELSE IF ValueOf(deliveries) < amount THEN "underfilled"
      ELSE IF deadline = 0 \/ Timestamp(completing.block) <= deadline THEN "settled" ELSE "filled-late"

Diagnose ==
  /\ pc = "scan" /\ chunks = <<>> /\ argv.diagnose
  /\ mode' = diagnose(target.amount, order.fillDeadline, found)
  /\ Exit(IF mode' = "settled" THEN 0 ELSE 1)
  /\ UNCHANGED <<argv, chain, order, dest, scanState, fillState>>
-----------------------------------------------------------------------------
(***************************************************************************)
(* The verdict on a fill.                                                  *)
(***************************************************************************)
\* By their position in the block.
receiptLogs(n, tx) == Restrict(blocks[n], {i \in DOMAIN blocks[n] : blocks[n][i].tx = tx})

ReadFillReceipt ==
  /\ pc = "receipt"
  /\ IF \E n \in DOMAIN blocks : fillTx \in Txs(blocks[n])
     THEN /\ \E n \in DOMAIN blocks :
               /\ fillTx \in Txs(blocks[n])
               /\ receipt' = [block |-> n, logs |-> receiptLogs(n, fillTx)]
          /\ pc' = "times" /\ UNCHANGED exit
     ELSE Throw /\ UNCHANGED receipt
  /\ UNCHANGED <<argv, chain, order, dest, scanState, fillTx, finalized, shaken, mode>>

decodeErc20Transfers(logs) == Restrict(logs, {i \in DOMAIN logs : logs[i].event = "Transfer"})

\* matched and tokenCorrect are one; an amount below the expected one is a
\* warning, and so is a fill that is not final.
matchDelivery(out, transfers) ==
  LET toRecipient == {i \in DOMAIN transfers : transfers[i].to = out.recipient}
      ofToken == {i \in toRecipient : transfers[i].token = out.token}
  IN  [matched |-> ofToken # {}, recipientReached |-> toRecipient # {},
       amountSufficient |-> MapThenSumSet(LAMBDA i : transfers[i].value, ofToken) >= out.amount]

\* Mutant: a transfer of another token passes.
classifyReached(check, deadlineMet) ==
  IF ~check.recipientReached THEN "unsettled" ELSE IF deadlineMet THEN "settled" ELSE "anomaly"

classify(check, deadlineMet) ==
  IF ~check.matched THEN "unsettled" ELSE IF deadlineMet THEN "settled" ELSE "anomaly"

\* Mutant: the fill's own block is counted among those on top of it.
isFinalizedOwnBlock(head, block) == argv.finalityDepth # NaN /\ head - block + 1 >= argv.finalityDepth

isFinalized(head, block) == argv.finalityDepth # NaN /\ head - block >= argv.finalityDepth

\* The block's time and the chain's head, read together; a native output
\* cannot be judged from logs and counts as an anomaly.  Decimals are read for
\* display, and 18 stands in for those that cannot be.
Judge ==
  /\ pc = "times"
  /\ finalized' = isFinalized(HeadBlock, receipt.block)
  /\ LET transfers == decodeErc20Transfers(receipt.logs)
         deadlineMet == order.fillDeadline = 0 \/ Timestamp(receipt.block) <= order.fillDeadline
         status(o) == IF o.native THEN "anomaly" ELSE classify(matchDelivery(o, transfers), deadlineMet)
     IN  Exit(IF \E i \in onDest : status(order.outputs[i]) # "settled" THEN 1 ELSE 0)
  /\ UNCHANGED <<argv, chain, order, dest, scanState, fillTx, receipt, shaken, mode>>

\* A read outside the scan runs out of retries.
ReadFails ==
  /\ pc \in {"begin", "head", "receipt", "times"}
  /\ Throw
  /\ UNCHANGED <<argv, settlementVars>>

SettlementNext ==
  \/ (NewBlock \/ Reorg) /\ UNCHANGED commandLine
  \/ ReadIntent
  \/ ScanHead \/ ScanChunk \/ SkipChunk \/ Discover \/ Diagnose
  \/ ReadFillReceipt \/ Judge
  \/ ReadFails
-----------------------------------------------------------------------------
Verified == argv.cmd = "settlement" /\ exit = 0 /\ receipt # NoReceipt

(***************************************************************************)
(* Exit code 0 without diagnose: the transaction judged paid the promised  *)
(* token to the promised recipient, in time, for every output on the chain *)
(* looked at, none of them native; and unless --dest-chain chose a part,   *)
(* that is every output of the intent (settlement.ts:46-48, 132-133).      *)
(***************************************************************************)
SettledWasDelivered ==
  Verified =>
    /\ argv.destChain = None =>
         DOMAIN order.outputs # {} /\ \A i \in DOMAIN order.outputs : order.outputs[i].chainId = dest
    /\ \A i \in DOMAIN order.outputs :
         LET o == order.outputs[i]
         IN  o.chainId = dest =>
               /\ ~o.native
               /\ \E l \in Range(receipt.logs) : l.tx = fillTx /\ Pays(l, o)
               /\ order.fillDeadline = 0 \/ Timestamp(receipt.block) <= order.fillDeadline

(***************************************************************************)
(* A fill reported without the finality warning stays where it is, however *)
(* the chain goes on, if --finality-depth is not below the deepest reorg.  *)
(* It holds unless blocks are replaced between the two reads the verdict   *)
(* is made of (settlement.ts:66-74): then the fill it reads may be gone    *)
(* although the head it reads is far beyond it.                            *)
(***************************************************************************)
FinalIsFinal ==
  Verified /\ finalized /\ argv.finalityDepth >= MaxDepth /\ ~shaken =>
    receipt.block \in DOMAIN blocks /\ fillTx \in Txs(blocks[receipt.block])

\* What the chain holds of the target in the blocks of the scanned window.
Window == IF window = <<>> \/ window[1] = NaN THEN {} ELSE window[1] .. window[2]
PaidBy(tx) == ValueOf({d \in Payments(DOMAIN blocks) : d.tx = tx})
PaidUntil(n) == {d \in Payments(Window) : Timestamp(d.block) <= n}

(***************************************************************************)
(* A discovered fill delivers the amount by itself, and no transaction in  *)
(* an earlier block that was searched does (settlement.ts:145-150), while  *)
(* no block is replaced: one that moves between two ranges is found twice, *)
(* and its value counted twice.                                            *)
(***************************************************************************)
DiscoveredFillSuffices ==
  argv.cmd = "settlement" /\ pc = "receipt" /\ argv.fillTx = None /\ reorgs = 0 =>
    /\ PaidBy(fillTx) >= target.amount
    /\ \A d \in Payments(Window \ skipped) :
         PaidBy(d.tx) >= target.amount => \E e \in Payments(0 .. d.block) : e.tx = fillTx

(***************************************************************************)
(* The diagnosis, against the chain and not against what was read of it:   *)
(* "settled", the only one that exits 0, is true whatever ranges were      *)
(* skipped; and if none was, the mode is the one that the deliveries in    *)
(* the window make true (diagnose-core.ts:31-35).                          *)
(***************************************************************************)
Truth ==
  LET Reached(n) == PaidUntil(n) # {} /\ ValueOf(PaidUntil(n)) >= target.amount
      deadline == IF order.fillDeadline = 0 THEN MaxBlock ELSE order.fillDeadline
  IN  IF Payments(Window) = {} THEN "never-filled"
      ELSE IF Reached(deadline) THEN "settled"
      ELSE IF Reached(MaxBlock) THEN "filled-late" ELSE "underfilled"

DiagnosisHolds ==
  mode # None /\ reorgs = 0 =>
    /\ exit = 0 <=> mode = "settled"
    /\ mode = "settled" \/ skipped = {} => mode = Truth
=============================================================================
