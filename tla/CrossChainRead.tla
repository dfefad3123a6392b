--------------------------- MODULE CrossChainRead ---------------------------
(***************************************************************************)
(* measure() and checkRoute() of commands/solvency.ts: one reading of a    *)
(* route, taken from several chains while they and the bridge move on.     *)
(*                                                                         *)
(* Time is wall-clock time.  A chain is its balance as of each instant, so *)
(* "the last block at or before t" is the balance as of t: that the binary *)
(* search finds it is the subject of BlockAlign.  The bridge is what       *)
(* bridges.json registers: it locks before it mints and burns before it    *)
(* releases, with at least one instant in between for the message.  Its    *)
(* actions model the world the code reads, not the code.                   *)
(***************************************************************************)
EXTENDS SolvencyCore, Sequences, FiniteSetsExt

CONSTANTS
  Legs,        \* the lock legs of the route, each on its own chain
  MaxInstant,  \* bound: how long the world is watched
  MaxUnits,    \* bound: units of the asset in existence
  LockLag,     \* how far the node of a lock chain may be behind its chain
  MintLag,     \* ... and the node of the mint chain
  Unbacked     \* whether supply may appear that nothing was locked for

ASSUME ReadAssumption ==
  /\ Legs # {} /\ IsFiniteSet(Legs)
  /\ MaxInstant \in Nat /\ MaxUnits \in Nat /\ LockLag \in Nat /\ MintLag \in Nat
  /\ Unbacked \in BOOLEAN

VARIABLES
  \* the world
  now,          \* the present instant
  locked,       \* leg -> sequence of escrow balances, instant t at index t + 1
  supply,       \* sequence of wrapped supplies, instant t at index t + 1
  toMint,       \* units locked and not yet minted
  toRelease,    \* units burned and not yet released
  \* the reading
  phase,        \* how far it is
  asOf,         \* the timestamp of the mint block
  legTime,      \* leg -> the timestamp its balance is read at, or Unread
  raw,          \* leg -> its balance, or Unread
  minted,       \* the supply read, or Unread
  reading       \* the verdict, in the end

world    == <<now, locked, supply, toMint, toRelease>>
probe    == <<phase, asOf, legTime, raw, minted, reading>>
readVars == <<world, probe>>

Unread    == -1
NoReading == [verdict |-> "NONE", ratio |-> NoRatio]

Balance(l, t) == locked[l][t + 1]
Supply(t)     == supply[t + 1]
\* All legs together.
Total(amounts) == MapThenSumSet(LAMBDA l : amounts[l], Legs)
Backing(t)     == Total([l \in Legs |-> Balance(l, t)])

ReadInit ==
  /\ now = 0
  /\ locked = [l \in Legs |-> <<1>>]
  /\ supply = <<Cardinality(Legs)>>
  /\ toMint = 0 /\ toRelease = 0
  /\ phase = "idle" /\ asOf = 0
  /\ legTime = [l \in Legs |-> Unread] /\ raw = [l \in Legs |-> Unread]
  /\ minted = Unread /\ reading = NoReading
-----------------------------------------------------------------------------
(***************************************************************************)
(* The world: at each instant at most one transfer reaches a chain.        *)
(***************************************************************************)
Advance(lockDelta, supplyDelta) ==
  /\ now < MaxInstant
  /\ now' = now + 1
  /\ locked' = [l \in Legs |-> Append(locked[l], Balance(l, now) + lockDelta[l])]
  /\ supply' = Append(supply, Supply(now) + supplyDelta)
  /\ UNCHANGED probe

Still      == [l \in Legs |-> 0]
On(leg, d) == [l \in Legs |-> IF l = leg THEN d ELSE 0]

Quiet == Advance(Still, 0) /\ UNCHANGED <<toMint, toRelease>>

Deposit(l) ==
  /\ Backing(now) < MaxUnits
  /\ Advance(On(l, 1), 0)
  /\ toMint' = toMint + 1 /\ UNCHANGED toRelease

Mint ==
  /\ toMint > 0
  /\ Advance(Still, 1)
  /\ toMint' = toMint - 1 /\ UNCHANGED toRelease

Burn ==
  /\ Supply(now) > 0
  /\ Advance(Still, -1)
  /\ toRelease' = toRelease + 1 /\ UNCHANGED toMint

Release(l) ==
  /\ toRelease > 0 /\ Balance(l, now) > 0
  /\ Advance(On(l, -1), 0)
  /\ toRelease' = toRelease - 1 /\ UNCHANGED toMint

\* Supply that no lock stands behind: what the tool is there to see.
MintUnbacked ==
  /\ Unbacked
  /\ Supply(now) < MaxUnits
  /\ Advance(Still, 1)
  /\ UNCHANGED <<toMint, toRelease>>

World ==
  \/ Quiet \/ Mint \/ Burn \/ MintUnbacked
  \/ \E l \in Legs : Deposit(l) \/ Release(l)
-----------------------------------------------------------------------------
(***************************************************************************)
(* The reading.                                                            *)
(***************************************************************************)
\* A node shows its chain as it was at most lag ago.
NodeTimes(lag) == {t \in 0 .. now : t + lag >= now}

\* getBlockNumber and the block's timestamp.
ReadMintHead ==
  /\ phase = "idle"
  /\ asOf' \in NodeTimes(MintLag)
  /\ phase' = "reading"
  /\ UNCHANGED <<world, legTime, raw, minted, reading>>

\* Mutant: each lock chain is read at its own head.
AlignLegAtHead(l) ==
  /\ phase = "reading" /\ legTime[l] = Unread
  /\ \E seen \in NodeTimes(LockLag) : legTime' = [legTime EXCEPT ![l] = seen]
  /\ UNCHANGED <<world, phase, asOf, raw, minted, reading>>

\* blockAtOrBefore(asOf): the chain's state as of asOf, or its newest if the
\* node's head is not yet there.
AlignLeg(l) ==
  /\ phase = "reading" /\ legTime[l] = Unread
  /\ \E seen \in NodeTimes(LockLag) :
       legTime' = [legTime EXCEPT ![l] = IF seen <= asOf THEN seen ELSE asOf]
  /\ UNCHANGED <<world, phase, asOf, raw, minted, reading>>

\* balanceOf(escrow) at that block.
ReadLeg(l) ==
  /\ phase = "reading" /\ legTime[l] # Unread /\ raw[l] = Unread
  /\ raw' = [raw EXCEPT ![l] = Balance(l, legTime[l])]
  /\ UNCHANGED <<world, phase, asOf, legTime, minted, reading>>

\* Mutant: totalSupply is read at the latest block.
ReadSupplyLatest ==
  /\ phase = "reading" /\ minted = Unread
  /\ minted' = Supply(now)
  /\ UNCHANGED <<world, phase, asOf, legTime, raw, reading>>

\* totalSupply at the mint block.
ReadSupply ==
  /\ phase = "reading" /\ minted = Unread
  /\ minted' = Supply(asOf)
  /\ UNCHANGED <<world, phase, asOf, legTime, raw, reading>>

\* The legs are summed when all of them are in.
Judge ==
  /\ phase = "reading"
  /\ minted # Unread /\ \A l \in Legs : raw[l] # Unread
  /\ reading' = checkRoute(Total(raw), minted)
  /\ phase' = "done"
  /\ UNCHANGED <<world, asOf, legTime, raw, minted>>

\* Any read that throws makes the whole reading an ERROR.
ReadFails ==
  /\ phase = "reading"
  /\ reading' = ErrorReading
  /\ phase' = "done"
  /\ UNCHANGED <<world, asOf, legTime, raw, minted>>

Reader ==
  \/ ReadMintHead \/ ReadSupply \/ Judge \/ ReadFails
  \/ \E l \in Legs : AlignLeg(l) \/ ReadLeg(l)

ReadNext == World \/ Reader
-----------------------------------------------------------------------------
(***************************************************************************)
(* The bridge itself is sound: it never owes more than it holds.           *)
(***************************************************************************)
BridgeSound == \A t \in 0 .. now : Backing(t) >= Supply(t)

(***************************************************************************)
(* A bridge that is backed at every instant is never read as               *)
(* undercollateralized, whatever it moved while the chains were being      *)
(* read: a lock is never missed for a mint that was seen, and a release    *)
(* never seen before its burn (solvency.ts:268-301, and                    *)
(* docs/watchtower.md:343 "point-in-time consistency").  The nodes of the  *)
(* lock chains must not be behind; that of the mint chain may be.          *)
(***************************************************************************)
NoFalseBreach == BridgeSound => reading.verdict # "UNDERCOLLATERALIZED"

(***************************************************************************)
(* ... and a bridge that was short at the instant the reading is about is  *)
(* never read as backed, although collateral may have arrived before the   *)
(* lock chains were read.                                                  *)
(***************************************************************************)
NoMissedBreach ==
  phase = "done" /\ Backing(asOf) < Supply(asOf) => reading.verdict \in {"UNDERCOLLATERALIZED", "ERROR"}
=============================================================================
