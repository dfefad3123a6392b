--------------------------- MODULE RoleEnumeration ---------------------------
(***************************************************************************)
(* enumerateRoleHolders of lib.ts: who holds a role, read one by one at    *)
(* the head while the role is granted and revoked.  The contract keeps its *)
(* members as OpenZeppelin's EnumerableSet does: a grant appends, a revoke *)
(* moves the last member into the gap.  Where that cannot be read, the     *)
(* accounts of all RoleGranted logs are asked whether they hold it now.    *)
(***************************************************************************)
EXTENDS Integers, Sequences, SequencesExt

CONSTANTS
  Accounts,      \* who may hold the role
  MaxMembers,    \* bound: how many hold the role when the enumeration begins
  MaxRoleMoves   \* bound: grants and revokes during the enumeration

ASSUME RoleAssumption == MaxMembers \in Nat /\ MaxRoleMoves \in Nat

VARIABLES
  \* the contract and its node
  members,      \* the holders, in the contract's order
  granted,      \* the accounts of RoleGranted logs
  \* the enumeration
  step,         \* what is read next
  count,        \* getRoleMemberCount
  asked,        \* i, how many members were read
  suspects,     \* accounts of the logs not yet asked about
  holders,      \* the answer so far
  method,       \* how it was found
  \* history, not in the code
  moves,        \* grants and revokes so far
  revoked,      \* a holder was removed meanwhile
  capped,       \* the node left logs out
  everHeld,     \* accounts that held the role at some moment of the enumeration
  stayed        \* accounts that held it at every moment

contract == <<members, granted, moves, revoked, everHeld, stayed>>
roleVars == <<contract, step, count, asked, suspects, holders, method, capped>>

RoleInit ==
  /\ members \in {m \in UNION {[1 .. n -> Accounts] : n \in 0 .. MaxMembers} : IsInjective(m)}
  /\ granted \in {g \in SUBSET Accounts : ToSet(members) \subseteq g}
  /\ step = "count" /\ count = 0 /\ asked = 0 /\ suspects = {} /\ holders = {} /\ method = ""
  /\ moves = 0 /\ revoked = FALSE /\ capped = FALSE
  /\ everHeld = ToSet(members) /\ stayed = ToSet(members)
-----------------------------------------------------------------------------
Enumeration == <<step, count, asked, suspects, holders, method, capped>>

Change == step # "done" /\ moves < MaxRoleMoves /\ moves' = moves + 1

Grant(a) ==
  /\ Change /\ a \notin ToSet(members)
  /\ members' = Append(members, a)
  /\ granted' = granted \cup {a}
  /\ everHeld' = everHeld \cup {a}
  /\ UNCHANGED <<revoked, stayed, Enumeration>>

Revoke(i) ==
  /\ Change /\ i \in DOMAIN members
  /\ members' = SubSeq([members EXCEPT ![i] = members[Len(members)]], 1, Len(members) - 1)
  /\ stayed' = stayed \ {members[i]}
  /\ revoked' = TRUE
  /\ UNCHANGED <<granted, everHeld, Enumeration>>
-----------------------------------------------------------------------------
ReadCount ==
  /\ step = "count"
  /\ count' = Len(members) /\ step' = "members"
  /\ UNCHANGED <<contract, asked, suspects, holders, method, capped>>

ReadMember ==
  /\ step = "members" /\ asked < count /\ asked < Len(members)
  /\ holders' = holders \cup {members[asked + 1]}
  /\ asked' = asked + 1
  /\ UNCHANGED <<contract, step, count, suspects, method, capped>>

AllRead ==
  /\ step = "members" /\ asked = count
  /\ method' = "enumerable" /\ step' = "done"
  /\ UNCHANGED <<contract, count, asked, suspects, holders, capped>>

\* No such function, a read that fails for good, or an index that is gone by
\* now: on to the logs, and what was read so far is dropped.
NotEnumerable ==
  /\ step = "count" \/ (step = "members" /\ asked < count)
  /\ step' = "logs" /\ holders' = {}
  /\ UNCHANGED <<contract, count, asked, suspects, method, capped>>

\* queryFilter over all blocks; a node that caps ranges may answer with a part.
ReadLogs ==
  /\ step = "logs"
  /\ suspects' \in SUBSET granted
  /\ capped' = (suspects' # granted)
  /\ step' = "recheck"
  /\ UNCHANGED <<contract, count, asked, holders, method>>

\* Mutant: an account is a holder because it was granted the role once.
RecheckTrusting(a) ==
  /\ step = "recheck" /\ a \in suspects
  /\ suspects' = suspects \ {a}
  /\ holders' = holders \cup {a}
  /\ UNCHANGED <<contract, step, count, asked, method, capped>>

\* hasRole, at the head.
Recheck(a) ==
  /\ step = "recheck" /\ a \in suspects
  /\ suspects' = suspects \ {a}
  /\ holders' = IF a \in ToSet(members) THEN holders \cup {a} ELSE holders
  /\ UNCHANGED <<contract, step, count, asked, method, capped>>

AllRechecked ==
  /\ step = "recheck" /\ suspects = {}
  /\ method' = "events" /\ step' = "done"
  /\ UNCHANGED <<contract, count, asked, suspects, holders, capped>>

\* Neither way is open: reported as such.
Unenumerable ==
  /\ step \in {"logs", "recheck"}
  /\ method' = "none" /\ holders' = {} /\ step' = "done"
  /\ UNCHANGED <<contract, count, asked, suspects, capped>>

RoleNext ==
  \/ \E a \in Accounts : Grant(a) \/ Recheck(a)
  \/ \E i \in DOMAIN members : Revoke(i)
  \/ ReadCount \/ ReadMember \/ AllRead \/ NotEnumerable
  \/ ReadLogs \/ AllRechecked \/ Unenumerable
-----------------------------------------------------------------------------
(***************************************************************************)
(* An enumeration that was possible names nobody who did not hold the role *)
(* while it ran, and misses nobody who held it all along, unless, on the   *)
(* way by index, a holder was removed meanwhile, or, on the way by logs,   *)
(* the node left some out (lib.ts:179-184).                                *)
(***************************************************************************)
HoldersInFull ==
  method \in {"enumerable", "events"} =>
    /\ holders \subseteq everHeld
    /\ (IF method = "enumerable" THEN ~revoked ELSE ~capped) => stayed \subseteq holders
=============================================================================
