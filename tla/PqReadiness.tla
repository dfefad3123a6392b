----------------------------- MODULE PqReadiness -----------------------------
(***************************************************************************)
(* evmsec pq-readiness, and the walk over bytecode it shares with the      *)
(* selector scan of the contract checks.  Code is a sequence of bytes, in  *)
(* which an instruction and the data behind a PUSH look alike: a walk that *)
(* is one byte off reads data as instructions.  What the walk finds is     *)
(* compared with a definition by instruction boundaries.                   *)
(***************************************************************************)
EXTENDS CommandLine, Sequences, SequencesExt, FiniteSets

CONSTANTS
  Recent,          \* small pushes remembered (10 in the code)
  DelegationSize,  \* bytes of an EIP-7702 delegation (23)
  Selectors        \* the selectors looked for: sequences of SelectorSize bytes

PUSH1 == 96
PUSH4 == 99
PUSH32 == 127
CALL == 241
STATICCALL == 250
DelegationPrefix == <<239, 1, 0>>
MaxPrecompile == 17                        \* 0x11
EIP2537 == 11 .. 17
SelectorSize == 4

Byte == 0 .. 255

ASSUME PqAssumption ==
  /\ Recent \in Nat
  /\ DelegationSize \in Nat /\ DelegationSize >= Len(DelegationPrefix)
  /\ \A sel \in Selectors : sel \in [1 .. SelectorSize -> Byte]

VARIABLES
  scheme           \* the verdict

pqVars == <<scheme>>

PqInit == scheme = "none"
-----------------------------------------------------------------------------
IsPush(op) == op \in PUSH1 .. PUSH32
Immediate(op) == IF IsPush(op) THEN op - PUSH1 + 1 ELSE 0

\* The data of a PUSH at i, cut off where the code ends.
Data(code, i) == SubSeq(code, i + 1, IF i + Immediate(code[i]) < Len(code) THEN i + Immediate(code[i]) ELSE Len(code))
Value(data) == FoldLeft(LAMBDA v, byte : 256 * v + byte, 0, data)

\* Where the walk stops: after[n] is the next stop once it is past n, behind the data of a
\* PUSH.
Walk(code) ==
  LET after[n \in 0 .. Len(code)] ==
        IF n = 0 THEN 1
        ELSE IF after[n - 1] > n THEN after[n - 1] ELSE n + Immediate(code[n]) + 1
  IN  {n \in DOMAIN code : after[n - 1] = n}

IsSmallPush(code, n) == Immediate(code[n]) \in 1 .. 2 /\ Value(Data(code, n)) \in 1 .. MaxPrecompile

Pushed(window, v) ==
  LET w == Append(window, v) IN IF Len(w) > Recent THEN Tail(w) ELSE w

\* One turn of the loop: a small value is remembered, and at a call each one
\* remembered is taken for its address.
ScannedByte(code, positions, n, acc) ==
  IF n \notin positions THEN acc
  ELSE IF IsSmallPush(code, n) THEN [acc EXCEPT !.window = Pushed(@, Value(Data(code, n)))]
  ELSE IF code[n] \in {CALL, STATICCALL} THEN [acc EXCEPT !.found = @ \cup ToSet(acc.window)]
  ELSE acc

CallsAt(code, positions) ==
  LET upTo[n \in 0 .. Len(code)] ==
        IF n = 0 THEN [window |-> <<>>, found |-> {}] ELSE ScannedByte(code, positions, n, upTo[n - 1])
  IN  upTo[Len(code)].found

\* Mutant: the data of a PUSH is read as code.
precompileCallsNoSkip(code) == CallsAt(code, DOMAIN code)

precompileCalls(code) == CallsAt(code, Walk(code))

\* The selectors among the data of PUSH4s.
selectorsPresent(code, wanted) ==
  {Data(code, i) : i \in {j \in Walk(code) : code[j] = PUSH4}} \cap wanted

detectSelectors(code) == selectorsPresent(code, Selectors)

\* An account without code, or with a delegation for code, signs with ECDSA.
classifyScheme(code) ==
  LET calls == precompileCalls(code)
  IN  IF code = <<>> \/ (IsPrefix(DelegationPrefix, code) /\ Len(code) = DelegationSize) THEN "eoa"
      ELSE IF 1 \in calls THEN "ecdsa"
      ELSE IF calls \cap ({8} \cup EIP2537) # {} THEN "bls-pairing"
      ELSE IF detectSelectors(code) # {} THEN "sig-interface" ELSE "unknown"

PqReadiness ==
  /\ pc = "begin" /\ argv.cmd = "pq-readiness"
  /\ scheme' = classifyScheme(argv.code)
  /\ Exit(IF scheme' \in {"eoa", "ecdsa", "bls-pairing"} THEN 1 ELSE 0)
  /\ UNCHANGED argv

GetCodeFails ==
  /\ pc = "begin" /\ argv.cmd = "pq-readiness"
  /\ Throw
  /\ UNCHANGED <<argv, scheme>>

PqNext == PqReadiness \/ GetCodeFails
-----------------------------------------------------------------------------
\* Where an EVM that starts at the first byte finds instructions.
Boundary(code) ==
  LET b[i \in DOMAIN code] == i = 1 \/ \E j \in 1 .. i - 1 : b[j] /\ j + Immediate(code[j]) + 1 = i
  IN  {i \in DOMAIN code : b[i]}

SmallPushes(code) ==
  {i \in Boundary(code) : code[i] \in {PUSH1, PUSH1 + 1} /\ Value(Data(code, i)) \in 1 .. MaxPrecompile}

\* A call that has v among the Recent last small values pushed before it.
Calls(code, v) ==
  \E c \in Boundary(code) : code[c] \in {CALL, STATICCALL} /\
    \E p \in SmallPushes(code) :
      /\ p < c /\ Value(Data(code, p)) = v
      /\ Cardinality({q \in SmallPushes(code) : p < q /\ q < c}) < Recent

Exposes(code, sel) ==
  \E p \in Boundary(code) : code[p] = PUSH4 /\ Len(code) >= p + 4 /\ SubSeq(code, p + 1, p + 4) = sel

(***************************************************************************)
(* Code that calls a curve precompile, with the address among its latest   *)
(* small pushes, never passes the gate, nor does an account without code   *)
(* or a delegated one; and nothing fails it but such a call at a real      *)
(* instruction, however code and data are mixed (pq-core.ts:50-67).  Of    *)
(* the rest, a signature interface is reported exactly where a selector    *)
(* stands behind a PUSH4 that is an instruction.                           *)
(***************************************************************************)
VulnerableExactly ==
  /\ scheme # "none" =>
       exit = 1 <=>
         \/ argv.code = <<>>
         \/ Len(argv.code) = DelegationSize /\ SubSeq(argv.code, 1, 3) = DelegationPrefix
         \/ \E v \in {1, 8} \cup EIP2537 : Calls(argv.code, v)
  /\ scheme \in {"sig-interface", "unknown"} =>
       (scheme = "sig-interface" <=> \E sel \in Selectors : Exposes(argv.code, sel))
=============================================================================
