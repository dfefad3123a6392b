------------------------------ MODULE MCOneShots ------------------------------
(***************************************************************************)
(* Invocations of the one-shot commands, each option at the values that    *)
(* the code tells apart, and the logs and bytecode they meet.              *)
(***************************************************************************)
EXTENDS OneShots

Transfer(tx, token, to, value) == [event |-> "Transfer", tx |-> tx, token |-> token, to |-> to, value |-> value]
Noise == [event |-> "Other", tx |-> "f"]

MCContents ==
  { <<>>,
    <<Transfer("f", "usd", "alice", 1)>>,
    <<Transfer("f", "usd", "alice", 1), Transfer("f", "usd", "alice", 1)>>,
    <<Transfer("g", "usd", "alice", 1)>>,
    <<Transfer("f", "dai", "alice", 2)>>,
    <<Noise, Transfer("f", "usd", "bob", 2)>> }

Word(a) == <<"high", a>>
Wide(token, amount, c) == [token |-> Word(token), amount |-> amount, recipient |-> Word("alice"), chainId |-> c]
Plain(token, amount, c) == [token |-> token, amount |-> amount, recipient |-> "alice", chainId |-> c]
Event(e, outs, deadline) == [event |-> e, outs |-> outs, deadline |-> deadline]

MCSourceTxs ==
  [open |-> <<[event |-> "Other"], Event("Open", <<Wide("usd", 2, "dst")>>, 2)>>,
   two |-> <<Event("Open", <<Wide("usd", 1, "dst"), Wide("dai", 1, "src")>>, 0)>>,
   native |-> <<Event("Open", <<Wide("zero", 1, "dst"), Wide("usd", 1, "dst")>>, 0)>>,
   deposit |-> <<Event("FundsDeposited", <<Wide("usd", 2, "dst")>>, 3)>>,
   legacy |-> <<Event("V3FundsDeposited", <<Plain("usd", 1, "dst")>>, 1)>>,
   far |-> <<Event("FundsDeposited", <<Wide("usd", 2, "solana")>>, 3)>>,
   batch |-> <<Event("Trade", <<Plain("usd", 1, "")>>, 0), Event("Trade", <<Plain("dai", 1, "")>>, 0)>>,
   eth |-> <<Event("Trade", <<Plain("sentinel", 1, "")>>, 0)>>,
   none |-> <<[event |-> "Other"]>>]

Fill == [cmd |-> "settlement", diagnose |-> FALSE, protocol |-> "erc7683", sourceChain |-> "src",
         intentTx |-> "open", destChain |-> None, fillTx |-> None, scanBlocks |-> 5, finalityDepth |-> 1]

Settlements ==
  { Fill,
    [Fill EXCEPT !.fillTx = "f"],
    [Fill EXCEPT !.diagnose = TRUE],
    [Fill EXCEPT !.diagnose = TRUE, !.scanBlocks = NaN],
    [Fill EXCEPT !.intentTx = "two"],
    [Fill EXCEPT !.intentTx = "two", !.destChain = "dst"],
    [Fill EXCEPT !.intentTx = "native", !.fillTx = "f"],
    [Fill EXCEPT !.protocol = "across", !.intentTx = "deposit", !.diagnose = TRUE, !.scanBlocks = 2],
    [Fill EXCEPT !.protocol = "across", !.intentTx = "legacy", !.fillTx = "f", !.finalityDepth = NaN],
    [Fill EXCEPT !.protocol = "across", !.intentTx = "far"],
    [Fill EXCEPT !.protocol = "cow", !.intentTx = "batch", !.fillTx = "f"],
    [Fill EXCEPT !.protocol = "cow", !.intentTx = "eth"],
    [Fill EXCEPT !.intentTx = "none"],
    [Fill EXCEPT !.intentTx = "lost"],
    [Fill EXCEPT !.protocol = "uniswapx"],
    [Fill EXCEPT !.sourceChain = None] }

\* Options in quarter seconds: a whole second, one that rounds to 0, errors.
Feeds == [cmd : {"oracle-hygiene"}, feed : {TRUE}, heartbeat : {1, 4}, sequencer : BOOLEAN, grace : {0, 4}]
         \cup {[cmd |-> "oracle-hygiene", feed |-> f, heartbeat |-> h, sequencer |-> TRUE, grace |-> g] :
                 f \in BOOLEAN, h \in {0}, g \in {-1, 4}}

Messages == [cmd : {"message-proof"}, layer : {"hyperlane", "wormhole", "layerzero"}, contract : BOOLEAN,
             chain : {"src", "dst"}, destination : {"dst"}, evidence : SUBSET {"id", "vaa"}]

\* Bytes the walk tells apart: three pushes, two calls, a small value, zero.
Bytes == {96, 97, 99, 241, 1, 0}
Codes == UNION {[1 .. n -> Bytes] : n \in 0 .. 4}
         \cup {<<239, 1, 0>> \o tail : tail \in {<<1, 1>>, <<96, 1, 241>>, <<>>}}
         \cup {<<a, 99>> \o sel \o tail : a \in Bytes, sel \in {<<1, 8, 1, 8>>, <<1, 8, 1, 1>>}, tail \in {<<>>, <<8>>}}
         \cup {<<96, a, 96, b, 96, c, d>> : a \in {1, 8, 9}, b \in {8, 9, 0}, c \in {9, 8}, d \in {241, 250, 0}}

MCInvocations ==
  Settlements \cup Feeds \cup Messages
  \cup {[cmd |-> "pq-readiness", code |-> c] : c \in Codes}
  \cup {[cmd |-> c] : c \in {"", "help", "settle"}}

MCSelectors == {<<1, 8, 1, 8>>}
MCBundled == {"hyperlane", "wormhole"} \X {"dst"} \cup {<<"hyperlane", "src">>}
MCAnswers == {0, 1}
=============================================================================
