--------------------------- MODULE AuthorityProofs ---------------------------
(***************************************************************************)
(* Proofs about module Authority.  Whichever processes run over the        *)
(* baseline file, and whoever is killed half-way, a clean check has        *)
(* compared everything that was recorded; a watch tells what it captured.  *)
(* And read by read: a snapshot names nothing the account did not have,    *)
(* and a check that finds no drift in an account at rest is exact.  They   *)
(* hold for every set of addresses, states, processes and accounts.        *)
(***************************************************************************)
EXTENDS Authority, FiniteSetTheorems, SequenceTheorems, TLAPS

\* Functions from some of the addresses to states: the entries of a file.
Partial == UNION {[D -> States] : D \in SUBSET Addresses}

Places == {"idle", "loading", "capturing", "merged", "emptied", "alerting", "posting", "sleeping"}

Commands ==
  [at : Places, sub : {"none", "snapshot", "check", "watch"}, asked : SUBSET Addresses,
   append : BOOLEAN, route : BOOLEAN, base : Partial, taken : Partial, vouched : Partial,
   exit : {-1, 0}]

FileType ==
  /\ world \in [Addresses -> States]
  /\ file \in [form : {"absent", "torn", "whole"}, snapshots : Partial]
  /\ file.form = "torn" => file = Torn
  /\ recorded \in Partial
  /\ run \in [Processes -> Commands]

LEMMA Entries ==
  /\ None \in Partial /\ DOMAIN None = {}
  /\ \A f, g \in Partial : Over(f, g) \in Partial
  /\ \A f \in Partial : DOMAIN f \subseteq Addresses
  /\ \A D \in SUBSET Addresses : \A s \in [Addresses -> States] : [a \in D |-> s[a]] \in Partial
<1>1. DOMAIN None = {} /\ None = [a \in {} |-> 0]
  BY DEF None
<1>2. None \in Partial
  <2>1. None \in [{} -> States]
    BY <1>1
  <2>2. QED
    BY <2>1 DEF Partial
<1>3. ASSUME NEW f \in Partial, NEW g \in Partial PROVE Over(f, g) \in Partial
  <2>1. PICK D \in SUBSET Addresses : f \in [D -> States]
    BY DEF Partial
  <2>2. PICK E \in SUBSET Addresses : g \in [E -> States]
    BY DEF Partial
  <2>3. Over(f, g) \in [D \cup E -> States]
    BY <2>1, <2>2 DEF Over
  <2>4. QED
    BY <2>3 DEF Partial
<1>4. QED
  BY <1>1, <1>2, <1>3 DEF Partial
-----------------------------------------------------------------------------
(***************************************************************************)
(* Types.                                                                  *)
(***************************************************************************)
LEMMA TypeInit == AuthorityInit => FileType
<1> SUFFICES ASSUME AuthorityInit PROVE FileType
  OBVIOUS
<1>1. world \in [Addresses -> States] /\ run = [p \in Processes |-> Resting]
  BY DEF AuthorityInit, BaselineInit
<1>2. Resting \in Commands
  BY Entries DEF Resting, Commands, Places
<1>3. recorded \in Partial
  BY <1>1, Entries DEF AuthorityInit, BaselineInit
<1>4. file \in {Absent, Whole(recorded)}
  BY DEF AuthorityInit, BaselineInit
<1>5. QED
  BY <1>1, <1>2, <1>3, <1>4, Entries DEF FileType, Absent, Whole, Torn

\* What a process becomes is a command again.
LEMMA Updates ==
  ASSUME NEW p \in Processes, NEW c \in Commands, run \in [Processes -> Commands], Becomes(p, c)
  PROVE  /\ run' \in [Processes -> Commands]
         /\ run'[p] = c
         /\ \A q \in Processes \ {p} : run'[q] = run[q]
BY DEF Becomes

LEMMA FileCommandType ==
  ASSUME FileType, NEW p \in Processes, FileCommand(p)
  PROVE  FileType'
<1>0. run[p] \in Commands /\ Resting \in Commands
  BY Entries DEF FileType, Resting, Commands, Places
<1>1. CASE BeginSnapshot(p)
  <2>1. PICK asked \in (SUBSET Addresses) \ {{}}, append, route \in BOOLEAN :
          Begin(p, [Resting EXCEPT !.at = "capturing", !.sub = "snapshot",
                                   !.asked = asked, !.append = append, !.route = route])
    BY <1>1 DEF BeginSnapshot
  <2>2. [Resting EXCEPT !.at = "capturing", !.sub = "snapshot",
                        !.asked = asked, !.append = append, !.route = route] \in Commands
    BY <1>0 DEF Commands, Places
  <2>3. QED
    BY <2>1, <2>2, Updates DEF Begin, FileType, chains, fileHistory
<1>2. CASE BeginFromBaseline(p, "check")
  <2>1. [Resting EXCEPT !.at = "loading", !.sub = "check"] \in Commands
    BY <1>0 DEF Commands, Places
  <2>2. QED
    BY <1>2, <2>1, Updates DEF BeginFromBaseline, Begin, FileType, chains, fileHistory
<1>3. CASE Capture(p)
  <2>1. Wanted(p) \in SUBSET Addresses
    BY <1>0, Entries DEF Wanted, Commands
  <2>2. [a \in Wanted(p) |-> world[a]] \in Partial
    BY <2>1, Entries DEF FileType
  <2>3. [run[p] EXCEPT !.taken = [a \in Wanted(p) |-> world[a]]] \in Commands
    BY <1>0, <2>2 DEF Commands
  <2>4. QED
    BY <1>3, <2>3, Updates DEF Capture, FileType, chains, fileHistory
<1>4. CASE ResolveAuthority(p)
  <2>1. PICK found \in {{}} \cup {{a} : a \in Addresses} :
          Becomes(p, [run[p] EXCEPT !.route = FALSE, !.asked = @ \cup found,
                                    !.taken = Over(@, [a \in found |-> world[a]])])
    BY <1>4 DEF ResolveAuthority
  <2>2. [a \in found |-> world[a]] \in Partial /\ found \in SUBSET Addresses
    BY Entries DEF FileType
  <2>3. run[p].taken \in Partial /\ run[p].asked \in SUBSET Addresses
    BY <1>0 DEF Commands
  <2>4. Over(run[p].taken, [a \in found |-> world[a]]) \in Partial
    BY <2>2, <2>3, Entries
  <2>5. [run[p] EXCEPT !.route = FALSE, !.asked = @ \cup found,
                       !.taken = Over(@, [a \in found |-> world[a]])] \in Commands
    BY <1>0, <2>2, <2>3, <2>4 DEF Commands
  <2>6. QED
    BY <1>4, <2>1, <2>5, Updates DEF ResolveAuthority, FileType, chains, fileHistory
<1>5. CASE ReadExisting(p)
  <2>1. CASE run[p].append /\ file = Torn
    BY <1>0, <1>5, <2>1, Updates DEF ReadExisting, FileType, chains, fileHistory
  <2>2. CASE ~(run[p].append /\ file = Torn)
    <3>1. [run[p] EXCEPT !.at = "merged", !.base = IF run[p].append THEN file.snapshots ELSE @] \in Commands
      BY <1>0 DEF Commands, Places, FileType
    <3>2. Merge(p)
      BY <1>5, <2>2 DEF ReadExisting
    <3>3. QED
      BY <3>1, <3>2, Updates DEF Merge, FileType, chains
  <2>3. QED
    BY <2>1, <2>2
<1>6. CASE Empty(p)
  <2>1. [run[p] EXCEPT !.at = "emptied"] \in Commands
    BY <1>0 DEF Commands, Places
  <2>2. Torn \in [form : {"absent", "torn", "whole"}, snapshots : Partial]
    BY Entries DEF Torn
  <2>3. QED
    BY <1>6, <2>1, <2>2, Updates DEF Empty, FileType, chains, fileHistory
<1>7. CASE Write(p)
  <2>1. /\ Over(run[p].taken, run[p].base) \in Partial
        /\ Over(run[p].taken, recorded) \in Partial
        /\ run[p].taken \in Partial
    BY <1>0, Entries DEF Commands, FileType
  <2>2. recorded' \in Partial
    BY <1>7, <2>1 DEF Write, mergeSnapshots
  <2>3. file' \in {Whole(Over(run[p].taken, run[p].base)), Torn}
    BY <1>7 DEF Write, mergeSnapshots
  <2>4. file' \in [form : {"absent", "torn", "whole"}, snapshots : Partial] /\ (file'.form = "torn" => file' = Torn)
    BY <2>1, <2>3, Entries DEF Torn, Whole
  <2>5. QED
    BY <1>0, <1>7, <2>2, <2>4, Updates DEF Write, FileType, chains, Torn
<1>8. CASE Load(p)
  <2>1. [run[p] EXCEPT !.at = "capturing", !.base = file.snapshots,
                       !.vouched = IF run[p].sub = "check" THEN recorded ELSE @] \in Commands
    BY <1>0 DEF Commands, Places, FileType
  <2>2. QED
    BY <1>0, <1>8, <2>1, Updates DEF Load, FileType, chains, fileHistory
<1>9. CASE Compare(p)
  <2>1. [run[p] EXCEPT !.at = "idle", !.exit = 0] \in Commands
    BY <1>0 DEF Commands, Places
  <2>2. QED
    BY <1>0, <1>9, <2>1, Updates DEF Compare, FileType, chains, fileHistory
<1>10. QED
  BY <1>1, <1>2, <1>3, <1>4, <1>5, <1>6, <1>7, <1>8, <1>9 DEF FileCommand

LEMMA WatchStepType ==
  ASSUME FileType, NEW p \in Processes, WatchStep(p)
  PROVE  FileType'
<1>0. run[p] \in Commands /\ Resting \in Commands
  BY Entries DEF FileType, Resting, Commands, Places
<1>1. CASE BeginWatch(p)
  <2>1. [Resting EXCEPT !.at = "loading", !.sub = "watch"] \in Commands
    BY <1>0 DEF Commands, Places
  <2>2. QED
    BY <1>1, <2>1, Updates DEF BeginWatch, BeginFromBaseline, Begin, FileType, chains, fileHistory
<1>2. CASE Signal(p)
  BY <1>2 DEF Signal, fileVars, chains, fileHistory, FileType
<1>3. \A where \in Places : [run[p] EXCEPT !.at = where] \in Commands
  BY <1>0 DEF Commands
<1>4. ASSUME NEW where \in Places, Moves(p, where) PROVE FileType'
  BY <1>3, <1>4, Updates DEF Moves, chains, fileHistory, FileType
<1>5. ASSUME Stopped(p) PROVE FileType'
  <2>1. [run[p] EXCEPT !.at = "idle", !.exit = 0] \in Commands
    BY <1>0 DEF Commands, Places
  <2>2. QED
    BY <1>5, <2>1, Updates DEF Stopped, chains, fileHistory, FileType
<1>6. CASE Round(p)
  BY <1>4, <1>6 DEF Round, Places
<1>7. CASE \E t \in [id : Addresses, kind : Kinds] : Emit(p, t)
  BY <1>4, <1>7 DEF Emit, Places
<1>8. CASE WebhookSettles(p)
  BY <1>4, <1>8 DEF WebhookSettles, Places
<1>9. CASE EndRound(p)
  BY <1>4, <1>5, <1>9 DEF EndRound, Places
<1>10. CASE Wake(p)
  <2>1. [run[p] EXCEPT !.at = "capturing", !.taken = None] \in Commands
    BY <1>0, Entries DEF Commands, Places
  <2>2. QED
    BY <1>5, <1>10, <2>1, Updates DEF Wake, chains, fileHistory, FileType
<1>11. QED
  BY <1>1, <1>2, <1>6, <1>7, <1>8, <1>9, <1>10 DEF WatchStep

LEMMA TypeStep == FileType /\ [AuthorityNext]_<<grain, vars, fileVars, watchVars>> => FileType'
<1> SUFFICES ASSUME FileType, [AuthorityNext]_<<grain, vars, fileVars, watchVars>> PROVE FileType'
  OBVIOUS
<1>1. CASE UNCHANGED fileVars
  BY <1>1 DEF fileVars, chains, fileHistory, FileType
<1>2. CASE \E a \in Addresses : AddressChanges(a)
  BY <1>2 DEF AddressChanges, fileHistory, FileType
<1>3. CASE \E p \in Processes : FileCommand(p)
  BY <1>3, FileCommandType
<1>4. CASE \E p \in Processes : WatchStep(p)
  BY <1>4, WatchStepType
<1>5. CASE \E p \in Processes : Dies(p)
  <2>1. Resting \in Commands
    BY Entries DEF Resting, Commands, Places
  <2>2. QED
    BY <1>5, <2>1, Updates DEF Dies, Killed, chains, fileHistory, FileType
<1>6. QED
  BY <1>1, <1>2, <1>3, <1>4, <1>5 DEF AuthorityNext, FileStep
-----------------------------------------------------------------------------
(***************************************************************************)
(* Which command may be where.                                             *)
(***************************************************************************)
Orderly(c) ==
  /\ c.at = "loading" => c.sub \in {"check", "watch"}
  /\ c.at \in {"merged", "emptied"} => c.sub = "snapshot"
  /\ c.at \in {"alerting", "posting", "sleeping"} => c.sub = "watch"
  /\ c.at = "capturing" => c.sub # "none"
  /\ c.route => c.sub = "snapshot"
  /\ c.at # "idle" => c.exit = -1

RunInv == \A p \in Processes : Orderly(run[p])

LEMMA RestingOrderly == Resting \in Commands /\ Orderly(Resting)
BY Entries DEF Resting, Commands, Places, Orderly

LEMMA RunInit == AuthorityInit => RunInv
BY RestingOrderly DEF AuthorityInit, BaselineInit, RunInv

LEMMA RunStep == FileType /\ RunInv /\ [AuthorityNext]_<<grain, vars, fileVars, watchVars>> => RunInv'
<1> SUFFICES ASSUME FileType, RunInv, [AuthorityNext]_<<grain, vars, fileVars, watchVars>> PROVE RunInv'
  OBVIOUS
<1>1. CASE UNCHANGED run
  BY <1>1 DEF RunInv
<1>2. ASSUME NEW p \in Processes, NEW c, Becomes(p, c), Orderly(c) PROVE RunInv'
  BY <1>2 DEF RunInv, FileType, Becomes
<1>3. ASSUME NEW p \in Processes PROVE run[p] \in Commands /\ Orderly(run[p])
  BY <1>3 DEF RunInv, FileType
<1>4. CASE \E p \in Processes : FileCommand(p)
  <2>1. PICK p \in Processes : FileCommand(p)
    BY <1>4
  <2>2. run[p] \in Commands /\ Orderly(run[p])
    BY <1>3
  <2>3. CASE BeginSnapshot(p) \/ BeginFromBaseline(p, "check")
    <3>1. CASE BeginFromBaseline(p, "check")
      BY <1>2, <3>1 DEF BeginFromBaseline, Begin, Orderly, Resting
    <3>2. CASE BeginSnapshot(p)
      <4>1. PICK asked \in (SUBSET Addresses) \ {{}}, append, route \in BOOLEAN :
              Begin(p, [Resting EXCEPT !.at = "capturing", !.sub = "snapshot",
                                       !.asked = asked, !.append = append, !.route = route])
        BY <3>2 DEF BeginSnapshot
      <4>2. Orderly([Resting EXCEPT !.at = "capturing", !.sub = "snapshot",
                                    !.asked = asked, !.append = append, !.route = route])
        BY DEF Orderly, Resting
      <4>3. QED
        BY <1>2, <4>1, <4>2 DEF Begin
    <3>3. QED
      BY <2>3, <3>1, <3>2
  <2>4. CASE Capture(p)
    BY <1>2, <2>2, <2>4 DEF Capture, Orderly, Commands
  <2>5. CASE ResolveAuthority(p)
    BY <1>2, <2>2, <2>5 DEF ResolveAuthority, Orderly, Commands
  <2>6. CASE ReadExisting(p)
    BY <1>2, <2>2, <2>6, RestingOrderly DEF ReadExisting, Merge, ToMerge, Captured, Orderly, Commands
  <2>7. CASE Empty(p) \/ Write(p)
    BY <1>2, <2>2, <2>7, RestingOrderly DEF Empty, Write, Orderly, Commands
  <2>8. CASE Load(p)
    BY <1>2, <2>2, <2>8, RestingOrderly DEF Load, Orderly, Commands
  <2>9. CASE Compare(p)
    BY <1>2, <2>2, <2>9, RestingOrderly DEF Compare, Orderly, Commands
  <2>10. QED
    BY <2>1, <2>3, <2>4, <2>5, <2>6, <2>7, <2>8, <2>9 DEF FileCommand
<1>5. CASE \E p \in Processes : WatchStep(p)
  <2>1. PICK p \in Processes : WatchStep(p)
    BY <1>5
  <2>2. run[p] \in Commands /\ Orderly(run[p])
    BY <1>3
  <2>3. CASE BeginWatch(p)
    BY <1>2, <2>3 DEF BeginWatch, BeginFromBaseline, Begin, Orderly, Resting
  <2>4. CASE Signal(p)
    BY <1>1, <2>4 DEF Signal, fileVars
  <2>5. CASE Round(p)
    BY <1>2, <2>2, <2>5 DEF Round, Captured, Moves, Orderly, Commands
  <2>6. CASE (\E t \in [id : Addresses, kind : Kinds] : Emit(p, t)) \/ WebhookSettles(p)
    <3>1. run[p].sub = "watch" /\ \E where \in {"alerting", "posting"} : Moves(p, where)
      BY <2>2, <2>6 DEF Emit, WebhookSettles, Orderly
    <3>2. QED
      BY <1>2, <2>2, <2>6, <3>1 DEF Emit, WebhookSettles, Moves, Orderly, Commands
  <2>7. CASE EndRound(p) \/ Wake(p)
    BY <1>2, <2>2, <2>7 DEF EndRound, Wake, Stopped, Moves, Orderly, Commands
  <2>8. QED
    BY <2>1, <2>3, <2>4, <2>5, <2>6, <2>7 DEF WatchStep
<1>6. CASE \E p \in Processes : Dies(p)
  BY <1>2, <1>6, RestingOrderly DEF Dies, Killed
<1>7. QED
  BY <1>1, <1>4, <1>5, <1>6 DEF AuthorityNext, FileStep, AddressChanges, fileVars
-----------------------------------------------------------------------------
(***************************************************************************)
(* What the file holds, and what a check has compared.                     *)
(***************************************************************************)
Covers(f, g) == \A a \in DOMAIN g : a \in DOMAIN f /\ f[a] = g[a]

Writing(c) == c.at \in {"merged", "emptied"}

Vouches(c, known) ==
  /\ Writing(c) /\ c.append => Covers(c.base, known)
  /\ c.sub = "check" /\ c.at = "capturing" => Covers(c.base, c.vouched)
  /\ c.sub = "check" /\ c.exit = 0 => Covers(c.taken, c.vouched)

VouchInv ==
  ~overlapped =>
    /\ file.form # "torn" => Covers(file.snapshots, recorded)
    /\ \A p, q \in Processes : Writing(run[p]) /\ Writing(run[q]) => p = q
    /\ \A p \in Processes : Vouches(run[p], recorded)

LEMMA RestingVouches == \A known : Vouches(Resting, known)
BY DEF Vouches, Resting, Writing

LEMMA VouchInit == AuthorityInit => VouchInv
<1> SUFFICES ASSUME AuthorityInit PROVE VouchInv
  OBVIOUS
<1>1. \A p \in Processes : run[p] = Resting
  BY DEF AuthorityInit, BaselineInit
<1>2. file.form # "torn" => Covers(file.snapshots, recorded)
  <2>1. file = IF recorded = None THEN Absent ELSE Whole(recorded)
    BY DEF AuthorityInit, BaselineInit
  <2>2. QED
    BY <2>1 DEF Absent, Whole, Covers
<1>3. ~Writing(Resting)
  BY DEF Writing, Resting
<1>4. QED
  BY <1>1, <1>2, <1>3, RestingVouches DEF VouchInv

\* One process moves on, and neither begins to write nor ends it.
LEMMA VouchKept ==
  ASSUME FileType, VouchInv, NEW p \in Processes, NEW c, Becomes(p, c),
         Writing(c) => Writing(run[p]),
         ~overlapped => Vouches(c, recorded),
         UNCHANGED <<recorded, overlapped>>, file' \in {file, Torn}
  PROVE  VouchInv'
<1> SUFFICES ASSUME ~overlapped PROVE VouchInv'
  BY DEF VouchInv
<1>1. run'[p] = c /\ \A q \in Processes \ {p} : run'[q] = run[q]
  BY DEF FileType, Becomes
<1>2. file'.form # "torn" => Covers(file'.snapshots, recorded')
  BY DEF VouchInv, Torn
<1>3. \A q \in Processes : Vouches(run'[q], recorded')
  BY <1>1 DEF VouchInv
<1>4. \A q, r \in Processes : Writing(run'[q]) /\ Writing(run'[r]) => q = r
  BY <1>1 DEF VouchInv
<1>5. QED
  BY <1>2, <1>3, <1>4 DEF VouchInv

LEMMA FileCommandVouches ==
  ASSUME FileType, RunInv, VouchInv, NEW p \in Processes, FileCommand(p)
  PROVE  VouchInv'
<1>0. run[p] \in Commands /\ Orderly(run[p])
  BY DEF FileType, RunInv
<1>1. CASE BeginSnapshot(p)
  <2>1. PICK asked \in (SUBSET Addresses) \ {{}}, append, route \in BOOLEAN :
          Begin(p, [Resting EXCEPT !.at = "capturing", !.sub = "snapshot",
                                   !.asked = asked, !.append = append, !.route = route])
    BY <1>1 DEF BeginSnapshot
  <2> DEFINE c == [Resting EXCEPT !.at = "capturing", !.sub = "snapshot",
                                  !.asked = asked, !.append = append, !.route = route]
  <2>2. ~Writing(c) /\ Vouches(c, recorded)
    BY DEF Vouches, Writing, Resting
  <2>3. Becomes(p, c) /\ UNCHANGED <<file, recorded, overlapped>>
    BY <2>1 DEF Begin, fileHistory
  <2>4. QED
    BY <2>2, <2>3, VouchKept
<1>2. CASE BeginFromBaseline(p, "check")
  <2> DEFINE c == [Resting EXCEPT !.at = "loading", !.sub = "check"]
  <2>1. ~Writing(c) /\ Vouches(c, recorded)
    BY DEF Vouches, Writing, Resting
  <2>2. Becomes(p, c) /\ UNCHANGED <<file, recorded, overlapped>>
    BY <1>2 DEF BeginFromBaseline, Begin, fileHistory
  <2>3. QED
    BY <2>1, <2>2, VouchKept
<1>3. CASE Capture(p)
  <2> DEFINE c == [run[p] EXCEPT !.taken = [a \in Wanted(p) |-> world[a]]]
  <2>1. ~Writing(c) /\ (~overlapped => Vouches(c, recorded))
    BY <1>0, <1>3 DEF Capture, Vouches, Writing, Orderly, Commands, VouchInv
  <2>2. Becomes(p, c) /\ UNCHANGED <<file, recorded, overlapped>>
    BY <1>3 DEF Capture, fileHistory
  <2>3. QED
    BY <2>1, <2>2, VouchKept
<1>4. CASE ResolveAuthority(p)
  <2>1. PICK found \in {{}} \cup {{a} : a \in Addresses} :
          Becomes(p, [run[p] EXCEPT !.route = FALSE, !.asked = @ \cup found,
                                    !.taken = Over(@, [a \in found |-> world[a]])])
    BY <1>4 DEF ResolveAuthority
  <2> DEFINE c == [run[p] EXCEPT !.route = FALSE, !.asked = @ \cup found,
                                 !.taken = Over(@, [a \in found |-> world[a]])]
  <2>2. c.at = "capturing" /\ c.sub = "snapshot"
    BY <1>0, <1>4 DEF ResolveAuthority, Captured, Orderly, Commands
  <2>3. ~Writing(c) /\ Vouches(c, recorded)
    BY <2>2 DEF Vouches, Writing
  <2>4. Becomes(p, c) /\ UNCHANGED <<file, recorded, overlapped>>
    BY <1>4, <2>1 DEF ResolveAuthority, fileHistory
  <2>5. QED
    BY <2>3, <2>4, VouchKept
<1>5. CASE ReadExisting(p)
  <2>1. CASE run[p].append /\ file = Torn
    <3>1. Becomes(p, Resting) /\ UNCHANGED <<file, recorded, overlapped>>
      BY <1>5, <2>1 DEF ReadExisting, fileHistory
    <3>2. QED
      BY <3>1, RestingVouches, VouchKept DEF Writing, Resting
  <2>2. CASE ~(run[p].append /\ file = Torn)
    <3> SUFFICES ASSUME ~overlapped' PROVE VouchInv'
      BY DEF VouchInv
    <3> DEFINE c == [run[p] EXCEPT !.at = "merged", !.base = IF run[p].append THEN file.snapshots ELSE @]
    <3>1. Merge(p) /\ run[p].sub = "snapshot"
      BY <1>5, <2>2 DEF ReadExisting, ToMerge
    <3>2. ~overlapped /\ \A q \in Processes \ {p} : ~Writing(run[q])
      BY <3>1 DEF Merge, Writing
    <3>3. /\ run'[p] = c /\ \A q \in Processes \ {p} : run'[q] = run[q]
          /\ UNCHANGED <<file, recorded>>
      BY <3>1 DEF Merge, Becomes, FileType
    <3>4. run[p].append => file.form # "torn" /\ Covers(file.snapshots, recorded)
      BY <2>2, <3>2 DEF FileType, VouchInv
    <3>5. Vouches(c, recorded)
      BY <1>0, <3>1, <3>4 DEF Vouches, Commands
    <3>6. QED
      BY <3>2, <3>3, <3>5 DEF VouchInv
  <2>3. QED
    BY <2>1, <2>2
<1>6. CASE Empty(p)
  <2> DEFINE c == [run[p] EXCEPT !.at = "emptied"]
  <2>1. Writing(run[p]) /\ (~overlapped => Vouches(c, recorded))
    BY <1>0, <1>6 DEF Empty, Vouches, Writing, Commands, VouchInv
  <2>2. Becomes(p, c) /\ file' = Torn /\ UNCHANGED <<recorded, overlapped>>
    BY <1>6 DEF Empty, fileHistory
  <2>3. QED
    BY <2>1, <2>2, VouchKept
<1>7. CASE Write(p)
  <2> SUFFICES ASSUME ~overlapped PROVE VouchInv'
    BY <1>7 DEF Write, VouchInv
  <2>1. Writing(run[p]) /\ \A q \in Processes \ {p} : ~Writing(run[q])
    BY <1>7 DEF Write, Writing, VouchInv
  <2>2. run'[p] = Resting /\ \A q \in Processes \ {p} : run'[q] = run[q]
    BY <1>7 DEF Write, Becomes, FileType
  <2>3. \A q \in Processes : ~Writing(run'[q])
    BY <2>1, <2>2 DEF Writing, Resting
  <2>4. \A q \in Processes : Vouches(run'[q], recorded')
    BY <2>2, <2>3, RestingVouches DEF VouchInv, Vouches
  <2>5. file' \in {Whole(Over(run[p].taken, run[p].base)), Torn}
    BY <1>7 DEF Write, mergeSnapshots
  <2>6. recorded' = IF run[p].append THEN Over(run[p].taken, recorded) ELSE run[p].taken
    BY <1>7 DEF Write, mergeSnapshots
  <2>7. run[p].append => Covers(run[p].base, recorded)
    BY <2>1 DEF VouchInv, Vouches
  <2>8. Covers(Over(run[p].taken, run[p].base), recorded')
    BY <2>6, <2>7 DEF Covers, Over
  <2>9. file'.form # "torn" => Covers(file'.snapshots, recorded')
    BY <2>5, <2>8 DEF Whole, Torn
  <2>10. QED
    BY <2>3, <2>4, <2>9 DEF VouchInv
<1>8. CASE Load(p)
  <2>1. CASE file.form # "whole"
    BY <1>8, <2>1, RestingVouches, VouchKept DEF Load, fileHistory, Writing, Resting
  <2>2. CASE file.form = "whole"
    <3> DEFINE c == [run[p] EXCEPT !.at = "capturing", !.base = file.snapshots,
                                   !.vouched = IF run[p].sub = "check" THEN recorded ELSE @]
    <3>1. ~Writing(c) /\ (~overlapped => Vouches(c, recorded))
      BY <1>0, <1>8, <2>2 DEF Load, Vouches, Writing, Orderly, Commands, VouchInv
    <3>2. Becomes(p, c) /\ UNCHANGED <<file, recorded, overlapped>>
      BY <1>8, <2>2 DEF Load, fileHistory
    <3>3. QED
      BY <3>1, <3>2, VouchKept
  <2>3. QED
    BY <2>1, <2>2
<1>9. CASE Compare(p)
  <2>1. CASE Diff(p) # {}
    BY <1>9, <2>1, RestingVouches, VouchKept DEF Compare, fileHistory, Writing, Resting
  <2>2. CASE Diff(p) = {}
    <3> DEFINE c == [run[p] EXCEPT !.at = "idle", !.exit = 0]
    <3>1. Covers(run[p].taken, run[p].base)
      BY <2>2 DEF Diff, diffBaselines, Covers
    <3>2. ~overlapped => Covers(run[p].base, run[p].vouched)
      BY <1>9 DEF Compare, Captured, VouchInv, Vouches
    <3>3. ~Writing(c) /\ (~overlapped => Vouches(c, recorded))
      BY <1>0, <3>1, <3>2 DEF Vouches, Writing, Commands, Covers
    <3>4. Becomes(p, c) /\ UNCHANGED <<file, recorded, overlapped>>
      BY <1>9, <2>2 DEF Compare, fileHistory
    <3>5. QED
      BY <3>3, <3>4, VouchKept
  <2>3. QED
    BY <2>1, <2>2
<1>10. QED
  BY <1>1, <1>2, <1>3, <1>4, <1>5, <1>6, <1>7, <1>8, <1>9 DEF FileCommand

\* A watch writes nothing and vouches for nothing.
LEMMA WatchVouches ==
  ASSUME FileType, RunInv, VouchInv, NEW p \in Processes, WatchStep(p)
  PROVE  VouchInv'
<1>0. run[p] \in Commands /\ Orderly(run[p])
  BY DEF FileType, RunInv
<1>1. CASE Signal(p)
  BY <1>1 DEF Signal, fileVars, fileHistory, VouchInv
<1>2. CASE ~Signal(p)
  <2>1. PICK c : Becomes(p, c) /\ c.sub = "watch" /\ ~Writing(c)
    <3>1. CASE BeginWatch(p)
      <4> DEFINE c == [Resting EXCEPT !.at = "loading", !.sub = "watch"]
      <4>1. Becomes(p, c)
        BY <3>1 DEF BeginWatch, BeginFromBaseline, Begin
      <4>2. c.sub = "watch" /\ ~Writing(c)
        BY DEF Resting, Writing
      <4>3. QED
        BY <4>1, <4>2
    <3>2. CASE Round(p)
      BY <1>0, <3>2 DEF Round, Moves, Writing, Commands
    <3>3. CASE (\E t \in [id : Addresses, kind : Kinds] : Emit(p, t)) \/ WebhookSettles(p)
      <4>1. run[p].sub = "watch" /\ \E where \in {"alerting", "posting"} : Moves(p, where)
        BY <1>0, <3>3 DEF Emit, WebhookSettles, Orderly
      <4>2. QED
        BY <1>0, <4>1 DEF Moves, Writing, Commands
    <3>4. CASE EndRound(p) \/ Wake(p)
      <4>1. run[p].sub = "watch"
        BY <1>0, <3>4 DEF EndRound, Wake, Orderly
      <4>2. ASSUME NEW where \in Places \ {"merged", "emptied"}, Moves(p, where)
            PROVE  \E c : Becomes(p, c) /\ c.sub = "watch" /\ ~Writing(c)
        BY <1>0, <4>1, <4>2 DEF Moves, Writing, Commands
      <4>3. ASSUME Stopped(p) PROVE \E c : Becomes(p, c) /\ c.sub = "watch" /\ ~Writing(c)
        <5> DEFINE c == [run[p] EXCEPT !.at = "idle", !.exit = 0]
        <5>1. Becomes(p, c) /\ c.sub = "watch" /\ ~Writing(c)
          BY <1>0, <4>1, <4>3 DEF Stopped, Writing, Commands
        <5>2. QED
          BY <5>1
      <4>4. ASSUME Becomes(p, [run[p] EXCEPT !.at = "capturing", !.taken = None])
            PROVE  \E c : Becomes(p, c) /\ c.sub = "watch" /\ ~Writing(c)
        <5> DEFINE c == [run[p] EXCEPT !.at = "capturing", !.taken = None]
        <5>1. Becomes(p, c) /\ c.sub = "watch" /\ ~Writing(c)
          BY <1>0, <4>1, <4>4 DEF Writing, Commands
        <5>2. QED
          BY <5>1
      <4>5. QED
        BY <3>4, <4>2, <4>3, <4>4 DEF EndRound, Wake, Places
    <3>5. QED
      BY <1>2, <3>1, <3>2, <3>3, <3>4 DEF WatchStep
  <2>2. UNCHANGED <<file, recorded, overlapped>>
    BY <1>2 DEF WatchStep, BeginWatch, BeginFromBaseline, Begin, Round, Emit, WebhookSettles, EndRound, Wake,
       Stopped, Moves, fileHistory
  <2>3. Vouches(c, recorded)
    BY <2>1 DEF Vouches
  <2>4. QED
    BY <2>1, <2>2, <2>3, VouchKept
<1>3. QED
  BY <1>1, <1>2

LEMMA VouchStep ==
  FileType /\ RunInv /\ VouchInv /\ [AuthorityNext]_<<grain, vars, fileVars, watchVars>> => VouchInv'
<1> SUFFICES ASSUME FileType, RunInv, VouchInv, [AuthorityNext]_<<grain, vars, fileVars, watchVars>> PROVE VouchInv'
  OBVIOUS
<1>1. CASE UNCHANGED <<file, run, fileHistory>>
  BY <1>1 DEF fileHistory, VouchInv
<1>2. CASE \E p \in Processes : FileCommand(p)
  BY <1>2, FileCommandVouches
<1>3. CASE \E p \in Processes : WatchStep(p)
  BY <1>3, WatchVouches
<1>4. CASE \E p \in Processes : Dies(p)
  BY <1>4, RestingVouches, VouchKept DEF Dies, Killed, fileHistory, Writing, Resting
<1>5. QED
  BY <1>1, <1>2, <1>3, <1>4 DEF AuthorityNext, FileStep, AddressChanges, fileVars
-----------------------------------------------------------------------------
(***************************************************************************)
(* What the watch has told.                                                *)
(***************************************************************************)
\* The map says which addresses were captured off the baseline.
Judged(c) == \A a \in Addresses : a \in drifted <=> a \in DOMAIN c.base /\ c.taken[a] # c.base[a]

\* An address whose last alert is not true any more has one in the queue that is.
Queued ==
  /\ queue \subseteq [id : Addresses, kind : Kinds]
  /\ \A t \in queue : (t.kind = "drift" <=> t.id \in drifted) /\ (lastTold[t.id] = "drift" <=> t.id \notin drifted)
  /\ \A a \in Addresses : (a \in drifted <=> lastTold[a] = "drift") \/ \E t \in queue : t.id = a

Truthful(c) ==
  /\ ~repeated /\ Queued
  /\ c.at \notin {"alerting", "posting"} => queue = {}
  /\ c.at \in {"alerting", "posting", "sleeping"} \/ c.exit = 0 => Judged(c)

WatchInv ==
  /\ drifted \subseteq Addresses
  /\ lastTold \in [Addresses -> Kinds \cup {"none"}]
  /\ \A p, q \in Processes : run[p].sub = "watch" /\ run[q].sub = "watch" => p = q
  /\ \A p \in Processes : run[p].sub = "watch" => Truthful(run[p])

LEMMA WatchInitInv == AuthorityInit => WatchInv
BY DEF AuthorityInit, BaselineInit, WatchInit, WatchInv, Resting

\* A process moves on and the alerts stay as they are.
LEMMA WatchKept ==
  ASSUME FileType, WatchInv, NEW p \in Processes, NEW c, Becomes(p, c), UNCHANGED watchVars,
         c.sub = "watch" => run[p].sub = "watch" /\ Truthful(c)
  PROVE  WatchInv'
<1>1. run'[p] = c /\ \A q \in Processes \ {p} : run'[q] = run[q]
  BY DEF FileType, Becomes
<1>2. UNCHANGED <<drifted, queue, lastTold, repeated>>
  BY DEF watchVars, told
<1>3. \A q \in Processes : run'[q].sub = "watch" => Truthful(run[q])'
  <2> SUFFICES ASSUME NEW q \in Processes, run'[q].sub = "watch" PROVE Truthful(run[q])'
    OBVIOUS
  <2>1. Truthful(run'[q])
    BY <1>1 DEF WatchInv
  <2>2. QED
    BY <1>2, <2>1 DEF Truthful, Queued, Judged
<1>4. \A q, r \in Processes : run'[q].sub = "watch" /\ run'[r].sub = "watch" => q = r
  BY <1>1 DEF WatchInv
<1>5. QED
  BY <1>2, <1>3, <1>4 DEF WatchInv

LEMMA FileCommandWatch ==
  ASSUME FileType, RunInv, WatchInv, NEW p \in Processes, FileCommand(p), UNCHANGED watchVars
  PROVE  WatchInv'
<1>0. run[p] \in Commands /\ Orderly(run[p])
  BY DEF FileType, RunInv
<1>1. ASSUME NEW c, Becomes(p, c), c.sub # "watch" PROVE WatchInv'
  BY <1>1, WatchKept
<1>2. Resting.sub # "watch"
  BY DEF Resting
<1>3. CASE BeginSnapshot(p)
  <2>1. PICK asked \in (SUBSET Addresses) \ {{}}, append, route \in BOOLEAN :
          Begin(p, [Resting EXCEPT !.at = "capturing", !.sub = "snapshot",
                                   !.asked = asked, !.append = append, !.route = route])
    BY <1>3 DEF BeginSnapshot
  <2>2. QED
    BY <1>1, <2>1 DEF Begin, Resting
<1>4. CASE BeginFromBaseline(p, "check")
  BY <1>1, <1>4 DEF BeginFromBaseline, Begin, Resting
<1>5. CASE Capture(p)
  <2> DEFINE c == [run[p] EXCEPT !.taken = [a \in Wanted(p) |-> world[a]]]
  <2>1. c.sub = run[p].sub /\ c.at = "capturing" /\ c.exit = -1
    BY <1>0, <1>5 DEF Capture, Orderly, Commands
  <2>2. c.sub = "watch" => Truthful(c)
    BY <1>5, <2>1 DEF Capture, WatchInv, Truthful
  <2>3. QED
    BY <1>5, <2>1, <2>2, WatchKept DEF Capture
<1>6. CASE ResolveAuthority(p)
  <2>1. PICK found \in {{}} \cup {{a} : a \in Addresses} :
          Becomes(p, [run[p] EXCEPT !.route = FALSE, !.asked = @ \cup found,
                                    !.taken = Over(@, [a \in found |-> world[a]])])
    BY <1>6 DEF ResolveAuthority
  <2>2. run[p].sub = "snapshot"
    BY <1>0, <1>6 DEF ResolveAuthority, Orderly
  <2>3. QED
    BY <1>0, <1>1, <2>1, <2>2 DEF Commands
<1>7. CASE ReadExisting(p)
  <2>1. run[p].sub = "snapshot"
    BY <1>7 DEF ReadExisting, ToMerge
  <2>2. QED
    BY <1>0, <1>1, <1>2, <1>7, <2>1 DEF ReadExisting, Merge, Commands
<1>8. CASE Empty(p) \/ Write(p)
  <2>1. run[p].sub = "snapshot"
    BY <1>0, <1>8 DEF Empty, Write, Orderly
  <2>2. QED
    BY <1>0, <1>1, <1>2, <1>8, <2>1 DEF Empty, Write, Commands
<1>9. CASE Load(p)
  <2>1. CASE file.form # "whole"
    BY <1>1, <1>2, <1>9, <2>1 DEF Load
  <2>2. CASE file.form = "whole"
    <3> DEFINE c == [run[p] EXCEPT !.at = "capturing", !.base = file.snapshots,
                                   !.vouched = IF run[p].sub = "check" THEN recorded ELSE @]
    <3>1. c.sub = run[p].sub /\ c.at = "capturing" /\ c.exit = -1
      BY <1>0, <1>9 DEF Load, Orderly, Commands
    <3>2. c.sub = "watch" => Truthful(c)
      BY <1>9, <3>1 DEF Load, WatchInv, Truthful
    <3>3. Becomes(p, c)
      BY <1>9, <2>2 DEF Load
    <3>4. QED
      BY <3>1, <3>2, <3>3, WatchKept
  <2>3. QED
    BY <2>1, <2>2
<1>10. CASE Compare(p)
  BY <1>0, <1>1, <1>2, <1>10 DEF Compare, Commands
<1>11. QED
  BY <1>3, <1>4, <1>5, <1>6, <1>7, <1>8, <1>9, <1>10 DEF FileCommand

\* A new watch has told nothing, and there is none beside it.
LEMMA NewWatchInv ==
  ASSUME NewWatch, FileType', \A p, q \in Processes : run'[p].sub = "watch" /\ run'[q].sub = "watch" => p = q,
         \A p \in Processes : run'[p].sub = "watch" => run'[p].at = "loading" /\ run'[p].exit = -1
  PROVE  WatchInv'
<1>1. drifted' = {} /\ queue' = {} /\ ~repeated' /\ lastTold' = [a \in Addresses |-> "none"]
  BY DEF NewWatch
<1>2. Queued'
  BY <1>1 DEF Queued
<1>3. \A p \in Processes : run'[p].sub = "watch" => Truthful(run[p])'
  BY <1>1, <1>2 DEF Truthful
<1>4. QED
  BY <1>1, <1>3 DEF WatchInv

LEMMA WatchStepWatch ==
  ASSUME FileType, RunInv, WatchInv, NEW p \in Processes, WatchStep(p)
  PROVE  WatchInv'
<1>0. run[p] \in Commands /\ Orderly(run[p]) /\ FileType'
  BY WatchStepType DEF FileType, RunInv
\* Only p is a watch, before and after.
<1>1. ASSUME NEW c, Becomes(p, c), run[p].sub = "watch", drifted' \subseteq Addresses,
             lastTold' \in [Addresses -> Kinds \cup {"none"}],
             Truthful(run[p])'
      PROVE  WatchInv'
  <2>1. \A q \in Processes \ {p} : run'[q] = run[q]
    BY <1>1 DEF Becomes, FileType
  <2>2. \A q \in Processes \ {p} : run[q].sub # "watch"
    BY <1>1 DEF WatchInv
  <2>3. QED
    BY <1>1, <2>1, <2>2 DEF WatchInv
<1>2. ASSUME NEW c, Becomes(p, c) PROVE run'[p] = c
  BY <1>2 DEF Becomes, FileType
<1>3. CASE BeginWatch(p)
  <2> DEFINE c == [Resting EXCEPT !.at = "loading", !.sub = "watch"]
  <2>1. Becomes(p, c) /\ NewWatch /\ \A q \in Processes \ {p} : run[q].sub # "watch"
    BY <1>3 DEF BeginWatch, BeginFromBaseline, Begin
  <2>2. run'[p] = c /\ \A q \in Processes \ {p} : run'[q] = run[q]
    BY <2>1 DEF Becomes, FileType
  <2>3. c.at = "loading" /\ c.exit = -1
    BY DEF Resting
  <2>4. \A q, r \in Processes : run'[q].sub = "watch" /\ run'[r].sub = "watch" => q = r
    BY <2>1, <2>2
  <2>5. \A q \in Processes : run'[q].sub = "watch" => run'[q].at = "loading" /\ run'[q].exit = -1
    BY <2>1, <2>2, <2>3
  <2>6. QED
    BY <1>0, <2>1, <2>4, <2>5, NewWatchInv
<1>4. CASE Signal(p)
  BY <1>4 DEF Signal, fileVars, WatchInv, told, Truthful, Queued, Judged
<1>5. CASE Round(p)
  <2> DEFINE c == [run[p] EXCEPT !.at = "alerting"]
  <2>1. run[p].sub = "watch" /\ Becomes(p, c) /\ run'[p] = c /\ UNCHANGED <<lastTold, repeated>>
    BY <1>2, <1>5 DEF Round, Moves, told
  <2>2. DOMAIN run[p].taken = DOMAIN run[p].base /\ DOMAIN run[p].base \subseteq Addresses
    BY <1>0, <1>5, Entries DEF Round, Captured, Wanted, Commands
  <2>3. drifted' = {a \in DOMAIN run[p].base : run[p].base[a] # run[p].taken[a]}
    BY <1>5, <2>2 DEF Round, Diff, diffBaselines
  <2>4. queue = {} /\ Queued /\ ~repeated
    BY <1>5, <2>1 DEF Round, Captured, WatchInv, Truthful
  <2>5. queue' = computeAuthorityTransitions(drifted, drifted')
    BY <1>5 DEF Round
  <2>6. \A a \in Addresses : a \in drifted <=> lastTold[a] = "drift"
    BY <2>4 DEF Queued
  <2>7. drifted' \subseteq Addresses /\ drifted \subseteq Addresses
    BY <2>2, <2>3 DEF WatchInv
  <2>8. Queued'
    <3>1. /\ \A t \in queue' : \/ t.kind = "drift" /\ t.id \in drifted' \ drifted
                               \/ t.kind = "recovered" /\ t.id \in drifted \ drifted'
          /\ queue' \subseteq [id : Addresses, kind : Kinds]
      BY <2>5, <2>7 DEF computeAuthorityTransitions, Kinds
    <3>2. \A a \in drifted' \ drifted : [id |-> a, kind |-> "drift"] \in queue'
      BY <2>5 DEF computeAuthorityTransitions
    <3>3. \A a \in drifted \ drifted' : [id |-> a, kind |-> "recovered"] \in queue'
      BY <2>5 DEF computeAuthorityTransitions
    <3>4. ASSUME NEW a \in Addresses
          PROVE  (a \in drifted' <=> lastTold'[a] = "drift") \/ \E t \in queue' : t.id = a
      <4>1. CASE a \in drifted' \ drifted
        <5>1. [id |-> a, kind |-> "drift"].id = a
          OBVIOUS
        <5>2. QED
          BY <3>2, <4>1, <5>1
      <4>2. CASE a \in drifted \ drifted'
        <5>1. [id |-> a, kind |-> "recovered"].id = a
          OBVIOUS
        <5>2. QED
          BY <3>3, <4>2, <5>1
      <4>3. CASE a \in drifted <=> a \in drifted'
        <5>1. lastTold'[a] = lastTold[a]
          BY <2>1
        <5>2. QED
          BY <2>6, <4>3, <5>1
      <4>4. QED
        BY <4>1, <4>2, <4>3
    <3>5. \A t \in queue' : (t.kind = "drift" <=> t.id \in drifted') /\ (lastTold'[t.id] = "drift" <=> t.id \notin drifted')
      BY <2>1, <2>6, <3>1
    <3>6. QED
      BY <3>1, <3>4, <3>5 DEF Queued
  <2>9. c.base = run[p].base /\ c.taken = run[p].taken /\ c.at = "alerting"
    BY <1>0 DEF Commands
  <2>10. Judged(run[p])'
    BY <2>1, <2>2, <2>3, <2>9 DEF Judged
  <2>11. Truthful(run[p])'
    BY <2>1, <2>4, <2>8, <2>9, <2>10 DEF Truthful
  <2>12. QED
    BY <1>1, <2>1, <2>7, <2>11 DEF WatchInv
<1>6. CASE \E t \in [id : Addresses, kind : Kinds] : Emit(p, t)
  <2>1. PICK t \in [id : Addresses, kind : Kinds] : Emit(p, t)
    BY <1>6
  <2> DEFINE c == [run[p] EXCEPT !.at = "posting"]
  <2>2. run[p].sub = "watch" /\ run[p].at = "alerting" /\ Becomes(p, c) /\ run'[p] = c
    BY <1>0, <1>2, <2>1 DEF Emit, Moves, Orderly
  <2>3. Truthful(run[p]) /\ Queued /\ Judged(run[p])
    BY <2>2 DEF WatchInv, Truthful
  <2>4. t \in queue /\ queue' = queue \ {t} /\ lastTold' = [lastTold EXCEPT ![t.id] = t.kind] /\ drifted' = drifted
    BY <2>1 DEF Emit
  <2>5. /\ t.id \in Addresses /\ t.kind \in Kinds
        /\ t.kind = "drift" <=> t.id \in drifted
        /\ lastTold[t.id] = "drift" <=> t.id \notin drifted
    BY <2>3, <2>4 DEF Queued
  <2>6. ~repeated'
    BY <2>1, <2>3, <2>5 DEF Emit, Truthful, Kinds
  <2>7. \A u \in queue : u.id = t.id => u = t
    BY <2>3, <2>4, <2>5 DEF Queued, Kinds
  <2>8. /\ lastTold'[t.id] = t.kind
        /\ \A a \in Addresses \ {t.id} : lastTold'[a] = lastTold[a]
        /\ lastTold' \in [Addresses -> Kinds \cup {"none"}]
    BY <2>4, <2>5 DEF WatchInv
  <2>9. Queued'
    <3>1. queue' \subseteq [id : Addresses, kind : Kinds]
      BY <2>3, <2>4 DEF Queued
    <3>2. \A u \in queue' : (u.kind = "drift" <=> u.id \in drifted') /\ (lastTold'[u.id] = "drift" <=> u.id \notin drifted')
      BY <2>3, <2>4, <2>7, <2>8, <3>1 DEF Queued
    <3>3. \A a \in Addresses : (a \in drifted' <=> lastTold'[a] = "drift") \/ \E u \in queue' : u.id = a
      BY <2>3, <2>4, <2>5, <2>8 DEF Queued
    <3>4. QED
      BY <3>1, <3>2, <3>3 DEF Queued
  <2>10. c.base = run[p].base /\ c.taken = run[p].taken /\ c.at = "posting"
    BY <1>0 DEF Commands
  <2>11. Truthful(run[p])'
    BY <2>2, <2>3, <2>4, <2>6, <2>9, <2>10 DEF Truthful, Judged
  <2>12. QED
    BY <1>1, <2>2, <2>4, <2>8, <2>11 DEF WatchInv
<1>7. CASE WebhookSettles(p)
  <2> DEFINE c == [run[p] EXCEPT !.at = "alerting"]
  <2>1. run[p].sub = "watch" /\ Becomes(p, c) /\ UNCHANGED watchVars
    BY <1>0, <1>7 DEF WebhookSettles, Moves, Orderly
  <2>2. Truthful(c)
    BY <1>0, <1>7, <2>1 DEF WebhookSettles, WatchInv, Truthful, Judged, Commands
  <2>3. QED
    BY <2>1, <2>2, WatchKept
<1>8. ASSUME run[p].at \in {"alerting", "sleeping"}, queue = {}, UNCHANGED watchVars,
             NEW c \in Commands, Becomes(p, c), c.sub = "watch",
             \/ c.base = run[p].base /\ c.taken = run[p].taken
             \/ c.at = "capturing" /\ c.exit = -1
      PROVE  WatchInv'
  <2>1. run[p].sub = "watch" /\ Truthful(run[p]) /\ Judged(run[p])
    BY <1>0, <1>8 DEF Orderly, WatchInv, Truthful
  <2>2. Truthful(c)
    BY <1>8, <2>1 DEF Truthful, Judged
  <2>3. QED
    BY <1>8, <2>1, <2>2, WatchKept
<1>9. CASE EndRound(p) \/ Wake(p)
  <2>1. run[p].at \in {"alerting", "sleeping"} /\ UNCHANGED watchVars /\ run[p].sub = "watch"
    BY <1>0, <1>9 DEF EndRound, Wake, Orderly
  <2>2. queue = {}
    BY <1>9, <2>1 DEF EndRound, Wake, WatchInv, Truthful
  <2>3. ASSUME Stopped(p) PROVE WatchInv'
    <3> DEFINE c == [run[p] EXCEPT !.at = "idle", !.exit = 0]
    <3>1. c \in Commands /\ c.sub = "watch" /\ c.base = run[p].base /\ c.taken = run[p].taken
      BY <1>0, <2>1 DEF Commands, Places
    <3>2. Becomes(p, c)
      BY <2>3 DEF Stopped
    <3>3. QED
      BY <1>8, <2>1, <2>2, <3>1, <3>2
  <2>4. ASSUME Moves(p, "sleeping") PROVE WatchInv'
    <3> DEFINE c == [run[p] EXCEPT !.at = "sleeping"]
    <3>1. c \in Commands /\ c.sub = "watch" /\ c.base = run[p].base /\ c.taken = run[p].taken
      BY <1>0, <2>1 DEF Commands, Places
    <3>2. Becomes(p, c)
      BY <2>4 DEF Moves
    <3>3. QED
      BY <1>8, <2>1, <2>2, <3>1, <3>2
  <2>5. ASSUME Becomes(p, [run[p] EXCEPT !.at = "capturing", !.taken = None]) PROVE WatchInv'
    <3> DEFINE c == [run[p] EXCEPT !.at = "capturing", !.taken = None]
    <3>1. c \in Commands /\ c.sub = "watch" /\ c.at = "capturing" /\ c.exit = -1
      BY <1>0, <2>1, Entries DEF Commands, Places, Orderly
    <3>2. QED
      BY <1>8, <2>1, <2>2, <2>5, <3>1
  <2>6. QED
    BY <1>9, <2>3, <2>4, <2>5 DEF EndRound, Wake
<1>10. QED
  BY <1>3, <1>4, <1>5, <1>6, <1>7, <1>9 DEF WatchStep

LEMMA WatchInvStep ==
  FileType /\ RunInv /\ WatchInv /\ [AuthorityNext]_<<grain, vars, fileVars, watchVars>> => WatchInv'
<1> SUFFICES ASSUME FileType, RunInv, WatchInv, [AuthorityNext]_<<grain, vars, fileVars, watchVars>> PROVE WatchInv'
  OBVIOUS
<1>1. CASE UNCHANGED run /\ UNCHANGED watchVars
  BY <1>1 DEF watchVars, told, WatchInv, Truthful, Queued, Judged
<1>2. CASE \E p \in Processes : FileCommand(p) /\ UNCHANGED watchVars
  BY <1>2, FileCommandWatch
<1>3. CASE \E p \in Processes : WatchStep(p)
  BY <1>3, WatchStepWatch
<1>4. CASE \E p \in Processes : Dies(p)
  <2>1. PICK p \in Processes : Dies(p)
    BY <1>4
  <2>2. Becomes(p, Resting) /\ Resting.sub # "watch"
    BY <2>1 DEF Dies, Killed, Resting
  <2>3. CASE run[p].sub = "watch"
    <3>1. run'[p] = Resting /\ \A q \in Processes \ {p} : run'[q] = run[q]
      BY <2>2 DEF Becomes, FileType
    <3>2. \A q \in Processes : run'[q].sub # "watch"
      BY <2>2, <2>3, <3>1 DEF WatchInv
    <3>3. FileType'
      BY TypeStep
    <3>4. QED
      BY <2>1, <2>3, <3>2, <3>3, NewWatchInv DEF Dies
  <2>4. CASE run[p].sub # "watch"
    BY <2>1, <2>2, <2>4, WatchKept DEF Dies
  <2>5. QED
    BY <2>3, <2>4
<1>5. QED
  BY <1>1, <1>2, <1>3, <1>4 DEF AuthorityNext, FileStep, AddressChanges, fileVars
-----------------------------------------------------------------------------
(***************************************************************************)
(* The invariants hold of every behaviour.                                 *)
(***************************************************************************)
LEMMA SpecInv == AuthoritySpec => [](FileType /\ RunInv /\ VouchInv /\ WatchInv)
BY TypeInit, RunInit, VouchInit, WatchInitInv, TypeStep, RunStep, VouchStep, WatchInvStep, PTL DEF AuthoritySpec

(***************************************************************************)
(* The world, the file and every process keep their types.                 *)
(***************************************************************************)
THEOREM AuthorityTypeCorrect == AuthoritySpec => []FileType
BY SpecInv, PTL

(***************************************************************************)
(* A check that exits with 0 has compared every address that was recorded  *)
(* with what was recorded of it, whoever was killed at whatever step, as   *)
(* long as no two processes rewrote the file at once.                      *)
(***************************************************************************)
THEOREM CleanChecksVouchForAll == AuthoritySpec => []CleanCheckVouchesForAll
<1>1. VouchInv => CleanCheckVouchesForAll
  BY DEF VouchInv, Vouches, Covers, CleanCheckVouchesForAll
<1>2. QED
  BY <1>1, SpecInv, PTL

(***************************************************************************)
(* After every round of a watch, the last alert of an address says whether *)
(* the round found it off the baseline, and no alert repeated another.     *)
(***************************************************************************)
THEOREM WatchTellsStatus == AuthoritySpec => []AlertsTellStatus
<1>1. RunInv /\ WatchInv => AlertsTellStatus
  <2> SUFFICES ASSUME RunInv, WatchInv, NEW p \in Processes, run[p].sub = "watch",
                      run[p].at = "sleeping" \/ run[p].exit = 0
               PROVE  /\ ~repeated
                      /\ \A a \in Addresses :
                           lastTold[a] = "drift"
                             <=> a \in DOMAIN run[p].base /\ run[p].taken[a] # run[p].base[a]
    BY DEF AlertsTellStatus
  <2>1. Truthful(run[p]) /\ Judged(run[p]) /\ queue = {}
    BY DEF WatchInv, Truthful, RunInv, Orderly
  <2>2. QED
    BY <2>1 DEF Truthful, Queued, Judged
<1>2. QED
  BY <1>1, SpecInv, PTL
-----------------------------------------------------------------------------
(***************************************************************************)
(* The capture.  What it has read so far is something the account was      *)
(* meanwhile; and if the account did not change, and every read was        *)
(* answered, it is the account.                                            *)
(***************************************************************************)
Targets == {"none"} \cup {a.delegation : a \in Accounts}
Signers == UNION {a.owners : a \in Accounts}
Snapshots ==
  [kind : {"unknown", "eoa", "safe", "timelock", "contract"},
   codehash : (Codes \cup {"unreadable"}) \X Targets,
   owners : SUBSET Signers, threshold : Nat \cup {NoThreshold}, modules : [Modules -> Nat],
   delay : Nat \cup {NoDelay}, delegation : Targets]

CaptureType ==
  /\ account \in Accounts /\ account \in seen /\ seen \subseteq Accounts
  /\ pass \in {"baseline", "check"} /\ failed \subseteq {"baseline", "check"}
  /\ pc \in {"code", "safe", "modules", "timelock", "done"}
  /\ part \in Snapshots /\ base \in Snapshots
  /\ page \in Nat /\ awaited \subseteq {"threshold", "owners"}

\* Nothing in the capture so far is made up.
SeenInv ==
  /\ \A o \in part.owners : \E a \in seen : o \in a.owners
  /\ \A m \in Modules : part.modules[m] > 0 => \E a \in seen : m \in ModuleSet(a)
  /\ part.threshold # NoThreshold => \E a \in seen : part.threshold = a.threshold
  /\ part.delay # NoDelay => \E a \in seen : part.delay = a.delay

\* The snapshot that an account deserves.
KindOf(a) ==
  CASE a.code \in {"0x", "delegation"} -> "eoa"
    [] a.code = "safe" -> "safe"
    [] a.code = "timelock" -> "timelock"
    [] OTHER -> "contract"
Has(a, n, m) == IF \E i \in 1 .. n : a.modules[i] = m THEN 1 ELSE 0
Snap(a) == [kind |-> KindOf(a), codehash |-> <<a.code, a.delegation>>, owners |-> a.owners,
            threshold |-> a.threshold, modules |-> [m \in Modules |-> Has(a, Len(a.modules), m)],
            delay |-> a.delay, delegation |-> a.delegation]

\* A capture of a that may lack what a failed read would have told.
Partly(s, a) ==
  \/ s.codehash = <<"unreadable", "none">>
  \/ /\ s.codehash = <<a.code, a.delegation>>
     /\ s.kind = "safe" => s.owners = a.owners /\ s.threshold = a.threshold
     /\ s.kind = "timelock" => s.delay = a.delay

\* How far the capture of an account that does not change is.
ReadSoFar(a) ==
  /\ pc = "code" => part = Blank /\ start = SENTINEL /\ page = 0
  /\ pc \in {"safe", "modules", "timelock"} =>
       /\ a.code \in {"safe", "timelock", "plain"}
       /\ part.codehash = <<a.code, a.delegation>> /\ part.kind = "unknown"
       /\ part.delay = NoDelay /\ part.delegation = "none"
  /\ pc \in {"safe", "timelock"} => part.modules = NoModules /\ start = SENTINEL /\ page = 0
  /\ pc = "safe" =>
       /\ part.threshold = IF "threshold" \in awaited THEN NoThreshold ELSE a.threshold
       /\ part.owners = IF "owners" \in awaited THEN {} ELSE a.owners
       /\ awaited # {}
  /\ pc = "timelock" =>
       /\ part.owners = {} /\ part.threshold = NoThreshold
       /\ a.code = "safe" => pass \in failed
  /\ pc = "modules" =>
       /\ a.code = "safe" /\ part.owners = a.owners /\ part.threshold = a.threshold
       /\ page < MaxPages /\ page * PageSize <= Len(a.modules)
       /\ start = IF page = 0 THEN SENTINEL ELSE a.modules[page * PageSize]
       /\ part.modules = [m \in Modules |-> Has(a, page * PageSize, m)]
  /\ pc = "done" => Partly(part, a) /\ (pass \notin failed => part = Snap(a))

CaptureInv ==
  /\ seen = {account} => ReadSoFar(account)
  /\ pass = "check" \/ pc = "done" =>
       \A a \in Accounts : baseSeen = {a} /\ "baseline" \notin failed => base = Snap(a)
  /\ pass = "check" /\ pc = "done" => drift = diffSnapshots(base, part)

LEMMA AccountFacts ==
  ASSUME NEW a \in Accounts
  PROVE  /\ a.code \in Codes /\ a.owners \in SUBSET Signers /\ a.delegation \in Targets
         /\ a.threshold \in Nat \cup {NoThreshold} /\ a.delay \in Nat \cup {NoDelay}
         /\ a.modules \in Seq(Modules)
         /\ \A i, j \in DOMAIN a.modules : a.modules[i] = a.modules[j] => i = j
         /\ a.code # "safe" => a.owners = {} /\ a.threshold = NoThreshold /\ a.modules = <<>>
         /\ a.code # "timelock" => a.delay = NoDelay
         /\ a.code # "delegation" => a.delegation = "none"
BY ConstantsAssumption DEF IsAccount, Signers, Targets

LEMMA BlankSnapshot == Blank \in Snapshots
<1>1. NoModules \in [Modules -> Nat]
  BY DEF NoModules
<1>2. <<"unreadable", "none">> \in (Codes \cup {"unreadable"}) \X Targets
  BY DEF Targets
<1> QED
  BY <1>1, <1>2 DEF Blank, Snapshots, Targets

\* How often a module is in a list of them.
LEMMA CountedFacts ==
  ASSUME NEW ms \in Seq(Modules), NEW m \in Modules
  PROVE  /\ Counted(ms)[m] \in Nat
         /\ Counted(ms)[m] > 0 => \E i \in DOMAIN ms : ms[i] = m
         /\ (\A i, j \in DOMAIN ms : ms[i] = ms[j] => i = j)
              => Counted(ms)[m] = IF \E i \in DOMAIN ms : ms[i] = m THEN 1 ELSE 0
<1> DEFINE D == {i \in DOMAIN ms : ms[i] = m}
<1>1. Counted(ms)[m] = Cardinality(D)
  BY DEF Counted
<1>2. IsFiniteSet(D)
  <2>1. DOMAIN ms = 1 .. Len(ms) /\ Len(ms) \in Nat
    OBVIOUS
  <2>2. IsFiniteSet(1 .. Len(ms))
    BY <2>1, FS_Interval
  <2> QED
    BY <2>1, <2>2, FS_Subset
<1>3. Cardinality(D) \in Nat /\ (Cardinality(D) = 0 <=> D = {})
  BY <1>2, FS_CardinalityType, FS_EmptySet
<1>4. ASSUME \A i, j \in DOMAIN ms : ms[i] = ms[j] => i = j, NEW i \in DOMAIN ms, ms[i] = m
      PROVE  Cardinality(D) = 1
  <2>1. D = {i}
    BY <1>4
  <2> QED
    BY <2>1, FS_Singleton
<1> QED
  BY <1>1, <1>3, <1>4

\* What is left of a list after its first n.
After(ms, n) == SubSeq(ms, n + 1, Len(ms))

\* A page is a stretch of the list, of PageSize or of what is left.
LEMMA PageOf ==
  ASSUME NEW ms \in Seq(Modules), NEW at \in 0 .. Len(ms)
  PROVE  /\ Len(After(ms, at)) = Len(ms) - at
         /\ FirstPage(After(ms, at)) \in Seq(Modules)
         /\ Len(FirstPage(After(ms, at))) = IF Len(ms) - at < PageSize THEN Len(ms) - at ELSE PageSize
         /\ \A i \in 1 .. Len(FirstPage(After(ms, at))) : FirstPage(After(ms, at))[i] = ms[at + i]
<1> DEFINE behind == After(ms, at)
           size == IF Len(behind) < PageSize THEN Len(behind) ELSE PageSize
<1>1. /\ Len(ms) \in Nat /\ at \in Nat /\ at <= Len(ms) /\ PageSize \in Nat /\ PageSize > 0
      /\ \A i \in 1 .. Len(ms) : ms[i] \in Modules
  BY ConstantsAssumption
<1>2. /\ behind \in Seq(Modules) /\ Len(behind) = Len(ms) - at
      /\ \A i \in 1 .. Len(ms) - at : behind[i] = ms[at + i]
  <2>1. at + 1 \in Int /\ Len(ms) \in Int /\ \A i \in at + 1 .. Len(ms) : ms[i] \in Modules
    BY <1>1
  <2>2. /\ behind \in Seq(Modules) /\ Len(behind) = (IF at + 1 <= Len(ms) THEN Len(ms) - (at + 1) + 1 ELSE 0)
        /\ \A i \in 1 .. Len(ms) - (at + 1) + 1 : behind[i] = ms[at + 1 + i - 1]
    BY <2>1, SubSeqProperties DEF After
  <2> HIDE DEF behind
  <2>3. Len(behind) = Len(ms) - at
    BY <2>2, <1>1
  <2>4. ASSUME NEW i \in 1 .. Len(ms) - at PROVE behind[i] = ms[at + i]
    <3>1. i \in 1 .. Len(ms) - (at + 1) + 1 /\ at + 1 + i - 1 = at + i
      BY <1>1
    <3> QED
      BY <3>1, <2>2
  <2> QED
    BY <2>2, <2>3, <2>4
<1> HIDE DEF behind
<1>3. size \in Nat /\ size <= Len(behind) /\ \A i \in 1 .. size : behind[i] \in Modules
  BY <1>1, <1>2
<1>4. /\ SubSeq(behind, 1, size) \in Seq(Modules) /\ Len(SubSeq(behind, 1, size)) = size
      /\ \A i \in 1 .. size : SubSeq(behind, 1, size)[i] = behind[i]
  <2> HIDE DEF size
  <2>1. /\ SubSeq(behind, 1, size) \in Seq(Modules)
        /\ Len(SubSeq(behind, 1, size)) = (IF 1 <= size THEN size - 1 + 1 ELSE 0)
        /\ \A i \in 1 .. size - 1 + 1 : SubSeq(behind, 1, size)[i] = behind[1 + i - 1]
    BY <1>3, SubSeqProperties
  <2> QED
    BY <2>1, <1>3
<1>5. FirstPage(behind) = SubSeq(behind, 1, size)
  BY DEF FirstPage
<1>6. \A i \in 1 .. size : FirstPage(behind)[i] = ms[at + i]
  <2> HIDE DEF size
  <2>1. \A i \in 1 .. size : i \in 1 .. Len(ms) - at
    BY <1>1, <1>2, <1>3
  <2> QED
    BY <2>1, <1>2, <1>4, <1>5
<1>7. size = IF Len(ms) - at < PageSize THEN Len(ms) - at ELSE PageSize
  BY <1>2
<1> QED
  <2> HIDE DEF size
  <2> QED
    BY <1>2, <1>4, <1>5, <1>6, <1>7 DEF behind

\* What a Safe answers lies behind some place of its list.
LEMMA BehindAt ==
  ASSUME account \in Accounts, Known(start)
  PROVE  \E at \in 0 .. Len(account.modules) : Behind(start) = After(account.modules, at)
<1>1. account.modules \in Seq(Modules)
  BY AccountFacts
<1>2. CASE start = SENTINEL
  BY <1>1, <1>2 DEF Behind, After
<1>3. CASE start # SENTINEL
  <2> DEFINE at == CHOOSE i \in DOMAIN account.modules : account.modules[i] = start
  <2>1. at \in DOMAIN account.modules
    BY <1>3 DEF Known
  <2>2. at \in 0 .. Len(account.modules)
    BY <2>1, <1>1
  <2>3. Behind(start) = After(account.modules, at)
    BY <1>3 DEF Behind, After
  <2> HIDE DEF at
  <2> QED
    BY <2>2, <2>3
<1> QED
  BY <1>2, <1>3

\* A page read adds to the modules counted so far.
LEMMA PageRead ==
  ASSUME CaptureType, account.code = "safe", Known(start)
  PROVE  LET array == FirstPage(Behind(start))
             sum   == [m \in Modules |-> part.modules[m] + Counted(array)[m]]
         IN  /\ array \in Seq(Modules) /\ sum \in [Modules -> Nat]
             /\ \A m \in Modules : sum[m] > 0 => part.modules[m] > 0 \/ m \in ModuleSet(account)
<1>0. account.modules \in Seq(Modules)
  BY AccountFacts DEF CaptureType
<1>1. PICK at \in 0 .. Len(account.modules) : Behind(start) = After(account.modules, at)
  BY BehindAt DEF CaptureType
<1> DEFINE array == FirstPage(Behind(start))
<1>2. /\ array \in Seq(Modules) /\ Len(array) <= Len(account.modules) - at
      /\ \A i \in 1 .. Len(array) : array[i] = account.modules[at + i]
  BY <1>0, <1>1, PageOf, ConstantsAssumption
<1>3. \A i \in DOMAIN array : array[i] \in ModuleSet(account)
  <2> SUFFICES ASSUME NEW i \in DOMAIN array PROVE array[i] \in ModuleSet(account)
    OBVIOUS
  <2>1. i \in 1 .. Len(array) /\ Len(array) \in Nat
    BY <1>2
  <2>2. at + i \in DOMAIN account.modules
    BY <2>1, <1>0, <1>2
  <2> QED
    BY <2>1, <2>2, <1>2 DEF ModuleSet
<1> HIDE DEF array
<1>4. ASSUME NEW m \in Modules
      PROVE  Counted(array)[m] \in Nat /\ (Counted(array)[m] > 0 => m \in ModuleSet(account))
  BY <1>2, <1>3, CountedFacts
<1>5. part.modules \in [Modules -> Nat]
  BY DEF CaptureType, Snapshots
<1>6. ASSUME NEW m \in Modules
      PROVE  /\ part.modules[m] + Counted(array)[m] \in Nat
             /\ part.modules[m] + Counted(array)[m] > 0 => part.modules[m] > 0 \/ m \in ModuleSet(account)
  BY <1>4, <1>5
<1> QED
  BY <1>2, <1>6 DEF array

\* Every read fills in fields of a snapshot.
LEMMA CaptureTypeInductive == CaptureType /\ [Next]_vars => CaptureType'
<1> SUFFICES ASSUME CaptureType, [Next]_vars PROVE CaptureType'
  OBVIOUS
<1>0. /\ account.code \in Codes /\ account.owners \in SUBSET Signers /\ account.delegation \in Targets
      /\ account.threshold \in Nat \cup {NoThreshold} /\ account.delay \in Nat \cup {NoDelay}
      /\ part \in Snapshots /\ base \in Snapshots
  BY AccountFacts DEF CaptureType
<1>1. ASSUME NEW s \in Snapshots, Return(s), UNCHANGED <<account, pass, seen>>,
             failed' \subseteq {"baseline", "check"}, page' \in Nat, awaited' \subseteq {"threshold", "owners"}
      PROVE  CaptureType'
  BY <1>0, <1>1 DEF Return, CaptureType
<1>2. CASE Change
  BY <1>2 DEF Change, capture, CaptureType
<1>3. CASE ReadCode
  <2> DEFINE s == [part EXCEPT !.codehash = codehash]
  <2>1. codehash \in (Codes \cup {"unreadable"}) \X Targets
    BY <1>0 DEF codehash
  <2>2. /\ s \in Snapshots /\ [s EXCEPT !.kind = "eoa"] \in Snapshots
        /\ [s EXCEPT !.kind = "eoa", !.delegation = account.delegation] \in Snapshots
    BY <2>1, <1>0 DEF Snapshots
  <2> HIDE DEF s
  <2>3. UNCHANGED <<account, changes, pass, start, page, seen, failed>>
    BY <1>3 DEF ReadCode
  <2>4. \/ Return([s EXCEPT !.kind = "eoa", !.delegation = account.delegation]) /\ UNCHANGED awaited
        \/ Return([s EXCEPT !.kind = "eoa"]) /\ UNCHANGED awaited
        \/ /\ part' = s /\ pc' = "safe" /\ awaited' = {"threshold", "owners"}
           /\ UNCHANGED <<base, drift, baseSeen>>
    BY <1>3 DEF ReadCode, s
  <2>5. page \in Nat /\ awaited \subseteq {"threshold", "owners"} /\ failed \subseteq {"baseline", "check"}
    BY DEF CaptureType
  <2> QED
    BY <2>2, <2>3, <2>4, <2>5, <1>1 DEF CaptureType
<1>4. CASE ReadCodeFails
  BY <1>4, <1>0, <1>1 DEF ReadCodeFails, Fails, CaptureType
<1>5. ASSUME NEW field \in {"threshold", "owners"}, ReadSafe(field) PROVE CaptureType'
  <2>1. [part EXCEPT !["threshold"] = account["threshold"]] \in Snapshots
    BY <1>0 DEF Snapshots
  <2>2. [part EXCEPT !["owners"] = account["owners"]] \in Snapshots
    BY <1>0 DEF Snapshots
  <2>3. part' \in Snapshots
    BY <1>5, <2>1, <2>2 DEF ReadSafe
  <2> QED
    BY <1>5, <2>3 DEF ReadSafe, CaptureType, history
<1>6. CASE NotASafe
  <2>1. [part EXCEPT !.owners = {}, !.threshold = NoThreshold] \in Snapshots
    BY <1>0 DEF Snapshots
  <2> QED
    BY <1>6, <2>1 DEF NotASafe, Fails, CaptureType
<1>7. CASE ReadPage
  <2> DEFINE sum == [m \in Modules |-> part.modules[m] + Counted(FirstPage(Behind(start)))[m]]
             s   == [part EXCEPT !.modules = sum]
  <2>1. sum \in [Modules -> Nat]
    BY <1>7, PageRead DEF ReadPage
  <2> HIDE DEF sum
  <2>2. s \in Snapshots /\ SafeOf(s) \in Snapshots
    BY <2>1, <1>0 DEF Snapshots, SafeOf
  <2> HIDE DEF s
  <2>3. UNCHANGED <<account, pass, awaited, seen, failed>>
    BY <1>7 DEF ReadPage
  <2>4. \/ Return(SafeOf(s)) /\ UNCHANGED <<start, page>>
        \/ part' = s /\ page' = page + 1 /\ UNCHANGED <<pc, base, drift, baseSeen>>
    BY <1>7 DEF ReadPage, s, sum
  <2>5. page \in Nat /\ awaited \subseteq {"threshold", "owners"} /\ failed \subseteq {"baseline", "check"}
    BY DEF CaptureType
  <2> QED
    BY <2>2, <2>3, <2>4, <2>5, <1>1 DEF CaptureType
<1>8. CASE PageEnds
  <2>1. SafeOf(part) \in Snapshots
    BY <1>0 DEF Snapshots, SafeOf
  <2> QED
    BY <1>8, <2>1, <1>1 DEF PageEnds, Fails, CaptureType
<1>9. CASE ReadDelay
  <2>1. [part EXCEPT !.kind = "timelock", !.delay = account.delay] \in Snapshots
    BY <1>0 DEF Snapshots
  <2> QED
    BY <1>9, <2>1, <1>1 DEF ReadDelay, CaptureType
<1>10. CASE NotATimelock
  <2>1. [part EXCEPT !.kind = "contract"] \in Snapshots
    BY <1>0 DEF Snapshots
  <2> QED
    BY <1>10, <2>1, <1>1 DEF NotATimelock, Fails, CaptureType
<1>11. CASE BeginCheck
  BY <1>11, BlankSnapshot DEF BeginCheck, CaptureType
<1>12. CASE UNCHANGED vars
  BY <1>12 DEF vars, capture, history, CaptureType
<1> QED
  BY <1>2, <1>3, <1>4, <1>5, <1>6, <1>7, <1>8, <1>9, <1>10, <1>11, <1>12 DEF Next

\* A snapshot that names nothing but what one of the accounts seen had.
Attested(s) ==
  /\ \A o \in s.owners : \E a \in seen : o \in a.owners
  /\ \A m \in Modules : s.modules[m] > 0 => \E a \in seen : m \in ModuleSet(a)
  /\ s.threshold # NoThreshold => \E a \in seen : s.threshold = a.threshold
  /\ s.delay # NoDelay => \E a \in seen : s.delay = a.delay

\* Every read adds what the account is at that moment, and seen remembers it.
LEMMA SeenInductive == CaptureType /\ SeenInv /\ [Next]_vars => SeenInv'
<1> SUFFICES ASSUME CaptureType, SeenInv, [Next]_vars PROVE SeenInv'
  OBVIOUS
<1>0. account \in seen /\ part \in Snapshots /\ Attested(part)
  BY DEF CaptureType, SeenInv, Attested
<1>1. ASSUME NEW s, Attested(s), part' = s, seen' = seen PROVE SeenInv'
  BY <1>1 DEF SeenInv, Attested
<1>2. CASE Change
  BY <1>2 DEF Change, capture, SeenInv
<1>3. CASE ReadCode
  <2> DEFINE s == [part EXCEPT !.codehash = codehash]
  <2>1. /\ Attested(s) /\ Attested([s EXCEPT !.kind = "eoa"])
        /\ Attested([s EXCEPT !.kind = "eoa", !.delegation = account.delegation])
    BY <1>0 DEF Attested, Snapshots
  <2> HIDE DEF s
  <2>2. seen' = seen
    BY <1>3 DEF ReadCode
  <2>3. part' \in {s, [s EXCEPT !.kind = "eoa"], [s EXCEPT !.kind = "eoa", !.delegation = account.delegation]}
    BY <1>3 DEF ReadCode, Return, s
  <2> QED
    BY <2>1, <2>2, <2>3, <1>1
<1>4. CASE ReadCodeFails
  BY <1>4, <1>0, <1>1 DEF ReadCodeFails, Return
<1>5. ASSUME NEW field \in {"threshold", "owners"}, ReadSafe(field) PROVE SeenInv'
  <2>1. Attested([part EXCEPT !["threshold"] = account["threshold"]])
    BY <1>0 DEF Attested, Snapshots
  <2>2. Attested([part EXCEPT !["owners"] = account["owners"]])
    BY <1>0 DEF Attested, Snapshots
  <2>3. Attested([part EXCEPT ![field] = account[field]])
    BY <2>1, <2>2
  <2> QED
    BY <1>5, <2>3, <1>1 DEF ReadSafe, history
<1>6. CASE NotASafe
  <2>1. Attested([part EXCEPT !.owners = {}, !.threshold = NoThreshold])
    BY <1>0 DEF Attested, Snapshots
  <2> QED
    BY <1>6, <2>1, <1>1 DEF NotASafe
<1>7. CASE ReadPage
  <2> DEFINE sum == [m \in Modules |-> part.modules[m] + Counted(FirstPage(Behind(start)))[m]]
             s   == [part EXCEPT !.modules = sum]
  <2>1. \A m \in Modules : sum[m] > 0 => part.modules[m] > 0 \/ m \in ModuleSet(account)
    BY <1>7, PageRead DEF ReadPage
  <2> HIDE DEF sum
  <2>2. Attested(s) /\ Attested(SafeOf(s))
    BY <2>1, <1>0 DEF Attested, Snapshots, SafeOf
  <2> HIDE DEF s
  <2>3. seen' = seen /\ part' \in {s, SafeOf(s)}
    BY <1>7 DEF ReadPage, Return, s, sum
  <2> QED
    BY <2>2, <2>3, <1>1
<1>8. CASE PageEnds
  <2>1. Attested(SafeOf(part))
    BY <1>0 DEF Attested, Snapshots, SafeOf
  <2> QED
    BY <1>8, <2>1, <1>1 DEF PageEnds, Return
<1>9. CASE ReadDelay
  <2>1. Attested([part EXCEPT !.kind = "timelock", !.delay = account.delay])
    BY <1>0 DEF Attested, Snapshots
  <2> QED
    BY <1>9, <2>1, <1>1 DEF ReadDelay, Return
<1>10. CASE NotATimelock
  <2>1. Attested([part EXCEPT !.kind = "contract"])
    BY <1>0 DEF Attested, Snapshots
  <2> QED
    BY <1>10, <2>1, <1>1 DEF NotATimelock, Return
<1>11. CASE BeginCheck
  BY <1>11 DEF BeginCheck, Blank, NoModules, SeenInv
<1>12. CASE UNCHANGED vars
  BY <1>12 DEF vars, capture, history, SeenInv
<1> QED
  BY <1>2, <1>3, <1>4, <1>5, <1>6, <1>7, <1>8, <1>9, <1>10, <1>11, <1>12 DEF Next

\* A capture begins with nothing read.
LEMMA InitCapture == Init => CaptureType /\ SeenInv /\ CaptureInv
<1> SUFFICES ASSUME Init PROVE CaptureType /\ SeenInv /\ CaptureInv
  OBVIOUS
<1>1. CaptureType
  BY BlankSnapshot DEF Init, CaptureType
<1>2. SeenInv
  BY DEF Init, SeenInv, Blank, NoModules
<1>3. CaptureInv
  BY DEF Init, CaptureInv, ReadSoFar
<1> QED
  BY <1>1, <1>2, <1>3

\* Without modules, owners and threshold there is little to read.
LEMMA SnapBare ==
  ASSUME NEW a \in Accounts, a.code # "safe"
  PROVE  Snap(a) = [kind |-> KindOf(a), codehash |-> <<a.code, a.delegation>>, owners |-> {},
                    threshold |-> NoThreshold, modules |-> NoModules,
                    delay |-> a.delay, delegation |-> a.delegation]
<1>1. a.owners = {} /\ a.threshold = NoThreshold /\ Len(a.modules) = 0
  BY AccountFacts
<1>2. [m \in Modules |-> Has(a, Len(a.modules), m)] = NoModules
  BY <1>1 DEF Has, NoModules
<1> QED
  BY <1>1, <1>2 DEF Snap

\* The page behind the first n modules adds the next ones, each once.
LEMMA NextPage ==
  ASSUME NEW a \in Accounts, NEW n \in 0 .. Len(a.modules)
  PROVE  LET behind == After(a.modules, n)
             array  == FirstPage(behind)
         IN  /\ Len(behind) = Len(a.modules) - n
             /\ n + Len(array) <= Len(a.modules)
             /\ Len(behind) <= PageSize => n + Len(array) = Len(a.modules)
             /\ Len(behind) > PageSize => Len(array) = PageSize /\ array[PageSize] = a.modules[n + PageSize]
             /\ \A m \in Modules : Has(a, n, m) + Counted(array)[m] = Has(a, n + Len(array), m)
<1> DEFINE behind == After(a.modules, n)
           array  == FirstPage(behind)
           ms     == a.modules
<1>0. /\ ms \in Seq(Modules) /\ DOMAIN ms = 1 .. Len(ms)
      /\ \A i, j \in DOMAIN ms : ms[i] = ms[j] => i = j
  BY AccountFacts
<1>1. /\ Len(behind) = Len(ms) - n /\ array \in Seq(Modules)
      /\ Len(array) = IF Len(ms) - n < PageSize THEN Len(ms) - n ELSE PageSize
      /\ \A i \in 1 .. Len(array) : array[i] = ms[n + i]
  BY <1>0, PageOf
<1>2. n \in Nat /\ Len(ms) \in Nat /\ n <= Len(ms) /\ PageSize \in Nat /\ PageSize > 0
  BY <1>0, ConstantsAssumption
<1> HIDE DEF behind, array, ms
<1>3. /\ Len(array) \in Nat /\ n + Len(array) <= Len(ms)
      /\ Len(behind) <= PageSize => n + Len(array) = Len(ms)
  <2>1. Len(array) = IF Len(ms) - n < PageSize THEN Len(ms) - n ELSE PageSize
    BY <1>1
  <2>2. Len(behind) = Len(ms) - n
    BY <1>1
  <2> QED
    BY <2>1, <2>2, <1>2
<1>4. Len(behind) > PageSize => Len(array) = PageSize /\ array[PageSize] = ms[n + PageSize]
  BY <1>1, <1>2
<1>5. ASSUME NEW m \in Modules
      PROVE  (IF \E i \in 1 .. n : ms[i] = m THEN 1 ELSE 0) + Counted(array)[m]
               = IF \E i \in 1 .. n + Len(array) : ms[i] = m THEN 1 ELSE 0
  <2>1. \A i \in 1 .. Len(array) : n + i \in DOMAIN ms /\ n + i \notin 1 .. n /\ n + i \in 1 .. n + Len(array)
    <3> SUFFICES ASSUME NEW i \in 1 .. Len(array)
                 PROVE  n + i \in 1 .. Len(ms) /\ n + i \notin 1 .. n /\ n + i \in 1 .. n + Len(array)
      BY <1>0
    <3> QED
      BY <1>2, <1>3
  <2>2. DOMAIN array = 1 .. Len(array)
    BY <1>1
  <2>3. \A i, j \in DOMAIN array : array[i] = array[j] => i = j
    <3> SUFFICES ASSUME NEW i \in 1 .. Len(array), NEW j \in 1 .. Len(array), array[i] = array[j] PROVE i = j
      BY <2>2
    <3>1. n + i = n + j
      BY <2>1, <1>0, <1>1
    <3> QED
      BY <3>1, <1>2, <1>3
  <2>4. Counted(array)[m] = IF \E i \in DOMAIN array : array[i] = m THEN 1 ELSE 0
    BY <1>1, <2>3, CountedFacts
  <2>5. \A i \in 1 .. n : i \in DOMAIN ms
    BY <1>0, <1>2
  <2>6. CASE \E i \in DOMAIN array : array[i] = m
    <3>1. PICK i \in 1 .. Len(array) : ms[n + i] = m
      BY <2>6, <2>2, <1>1
    <3>2. ~\E j \in 1 .. n : ms[j] = m
      BY <3>1, <2>1, <2>5, <1>0
    <3>3. \E j \in 1 .. n + Len(array) : ms[j] = m
      BY <3>1, <2>1
    <3> QED
      BY <3>2, <3>3, <2>4, <2>6
  <2>7. CASE ~\E i \in DOMAIN array : array[i] = m
    <3>1. ASSUME NEW j \in 1 .. n + Len(array), ms[j] = m PROVE j \in 1 .. n
      <4>1. CASE j > n
        <5>1. j - n \in 1 .. Len(array) /\ n + (j - n) = j
          BY <4>1, <1>2, <1>3
        <5>2. array[j - n] = m
          BY <5>1, <1>1, <3>1
        <5> QED
          BY <5>1, <5>2, <2>2, <2>7
      <4>2. CASE ~(j > n)
        BY <4>2, <1>2, <1>3
      <4> QED
        BY <4>1, <4>2
    <3>2. \A j \in 1 .. n : j \in 1 .. n + Len(array)
      BY <1>2, <1>3
    <3> QED
      BY <3>1, <3>2, <2>4, <2>7
  <2> QED
    BY <2>6, <2>7
<1> QED
  BY <1>1, <1>3, <1>4, <1>5 DEF Has, behind, array, ms

\* The reads of the capture, as opposed to a change of the account and the
\* start of the next capture.
Reading ==
  \/ ReadCode \/ ReadCodeFails
  \/ \E field \in {"threshold", "owners"} : ReadSafe(field)
  \/ NotASafe
  \/ ReadPage \/ PageEnds
  \/ ReadDelay \/ NotATimelock

\* All modules of a are within the pages that are read at most.
Paged(a) == Len(a.modules) <= PageSize * MaxPages

\* Each read brings the capture of an account that stays as it is one further.
LEMMA ReadingGoesOn ==
  ASSUME CaptureType, ReadSoFar(account), Paged(account), Reading
  PROVE  ReadSoFar(account)'
<1> DEFINE a == account
<1>0. /\ a \in Accounts /\ part \in Snapshots /\ a' = a
      /\ a.code # "safe" => Snap(a) = [kind |-> KindOf(a), codehash |-> <<a.code, a.delegation>>, owners |-> {},
                    threshold |-> NoThreshold, modules |-> NoModules,
                    delay |-> a.delay, delegation |-> a.delegation]
  BY SnapBare DEF CaptureType, Reading, ReadCode, ReadCodeFails, ReadSafe, NotASafe, ReadPage, PageEnds,
                  ReadDelay, NotATimelock
<1>1. /\ a.code \in Codes
      /\ a.code # "safe" => a.owners = {} /\ a.threshold = NoThreshold
      /\ a.code # "timelock" => a.delay = NoDelay
      /\ a.code # "delegation" => a.delegation = "none"
  BY <1>0, AccountFacts
<1> HIDE DEF a
<1>2. ASSUME pc' = "done", Partly(part', a), pass \notin failed' => part' = Snap(a), UNCHANGED pass
      PROVE  ReadSoFar(account)'
  BY <1>0, <1>2 DEF ReadSoFar, Partly, Snap, KindOf, Has, a
<1>3. CASE ReadCode
  <2>1. pc = "code" /\ part = Blank /\ UNCHANGED pass
    BY <1>3 DEF ReadCode, ReadSoFar
  <2>2. CASE a.code \in {"0x", "delegation"}
    <3>1. pc' = "done" /\ part' = [kind |-> "eoa", codehash |-> <<a.code, a.delegation>>, owners |-> {},
                    threshold |-> NoThreshold, modules |-> NoModules, delay |-> NoDelay, delegation |-> a.delegation]
      BY <1>3, <2>1, <2>2, <1>1 DEF ReadCode, Return, Blank, codehash, a
    <3>2. part' = Snap(a)
      BY <3>1, <2>2, <1>0, <1>1 DEF KindOf
    <3>3. Partly(part', a)
      BY <3>1 DEF Partly
    <3> QED
      BY <3>1, <3>2, <3>3, <2>1, <1>2
  <2>3. CASE a.code \notin {"0x", "delegation"}
    <3>1. /\ part' = [part EXCEPT !.codehash = codehash] /\ pc' = "safe" /\ awaited' = {"threshold", "owners"}
          /\ UNCHANGED <<start, page>>
      BY <1>3, <2>3 DEF ReadCode, a
    <3>2. /\ part'.codehash = <<a.code, a.delegation>> /\ part'.kind = "unknown"
          /\ part'.delay = NoDelay /\ part'.delegation = "none" /\ part'.modules = NoModules
          /\ part'.owners = {} /\ part'.threshold = NoThreshold
      BY <3>1, <2>1 DEF Blank, codehash, a
    <3>3. a.code \in {"safe", "timelock", "plain"}
      BY <2>3, <1>1 DEF Codes
    <3>4. start = SENTINEL /\ page = 0
      BY <2>1 DEF ReadSoFar
    <3> QED
      BY <3>1, <3>2, <3>3, <3>4, <1>0 DEF ReadSoFar, a
  <2> QED
    BY <2>2, <2>3
<1>4. CASE ReadCodeFails
  <2>1. pc' = "done" /\ part' = Blank /\ pass \in failed' /\ UNCHANGED pass
    BY <1>4 DEF ReadCodeFails, Return, Fails, ReadSoFar
  <2>2. Partly(part', a)
    BY <2>1 DEF Partly, Blank
  <2> QED
    BY <2>1, <2>2, <1>2
<1>5. ASSUME NEW field \in {"threshold", "owners"}, ReadSafe(field) PROVE ReadSoFar(account)'
  <2>1. /\ pc = "safe" /\ field \in awaited /\ a.code = "safe" /\ awaited' = awaited \ {field}
        /\ part' = [part EXCEPT ![field] = a[field]]
        /\ pc' = IF awaited' = {} THEN "modules" ELSE "safe"
        /\ UNCHANGED <<pass, start, page, failed>>
    BY <1>5 DEF ReadSafe, history, a
  <2>2. /\ part.codehash = <<a.code, a.delegation>> /\ part.kind = "unknown"
        /\ part.delay = NoDelay /\ part.delegation = "none"
        /\ part.modules = NoModules /\ start = SENTINEL /\ page = 0
        /\ part.threshold = IF "threshold" \in awaited THEN NoThreshold ELSE a.threshold
        /\ part.owners = IF "owners" \in awaited THEN {} ELSE a.owners
    BY <2>1 DEF ReadSoFar, a
  <2>3. /\ part'.codehash = part.codehash /\ part'.kind = part.kind
        /\ part'.delay = part.delay /\ part'.delegation = part.delegation /\ part'.modules = part.modules
        /\ part'.threshold = IF field = "threshold" THEN a.threshold ELSE part.threshold
        /\ part'.owners = IF field = "owners" THEN a.owners ELSE part.owners
    <3>1. CASE field = "threshold"
      BY <3>1, <2>1, <1>0 DEF Snapshots
    <3>2. CASE field = "owners"
      BY <3>2, <2>1, <1>0 DEF Snapshots
    <3> QED
      BY <3>1, <3>2
  <2>4. CASE awaited' # {}
    BY <2>1, <2>2, <2>3, <2>4, <1>0 DEF ReadSoFar, a
  <2>5. CASE awaited' = {}
    <3>1. part'.owners = a.owners /\ part'.threshold = a.threshold
      BY <2>1, <2>2, <2>3, <2>5
    <3>2. /\ 0 < MaxPages /\ 0 * PageSize = 0 /\ 0 <= Len(a.modules)
          /\ NoModules = [m \in Modules |-> Has(a, 0, m)]
      BY <1>0, AccountFacts, ConstantsAssumption DEF Has, NoModules
    <3> QED
      BY <2>1, <2>2, <2>3, <2>5, <3>1, <3>2, <1>0 DEF ReadSoFar, a
  <2> QED
    BY <2>4, <2>5
<1>6. CASE NotASafe
  <2>1. /\ pc = "safe" /\ pc' = "timelock" /\ awaited' = {}
        /\ part' = [part EXCEPT !.owners = {}, !.threshold = NoThreshold]
        /\ a.code = "safe" => pass \in failed'
        /\ UNCHANGED <<pass, start, page>>
    BY <1>6 DEF NotASafe, Fails, a
  <2>2. /\ a.code \in {"safe", "timelock", "plain"}
        /\ part.codehash = <<a.code, a.delegation>> /\ part.kind = "unknown"
        /\ part.delay = NoDelay /\ part.delegation = "none"
        /\ part.modules = NoModules /\ start = SENTINEL /\ page = 0
    BY <2>1 DEF ReadSoFar, a
  <2>3. /\ part'.codehash = part.codehash /\ part'.kind = part.kind
        /\ part'.delay = part.delay /\ part'.delegation = part.delegation /\ part'.modules = part.modules
        /\ part'.owners = {} /\ part'.threshold = NoThreshold
    BY <2>1, <1>0 DEF Snapshots
  <2> QED
    BY <2>1, <2>2, <2>3, <1>0 DEF ReadSoFar, a
<1>7. CASE ReadPage
  <2> DEFINE n == page * PageSize
             behind == Behind(start)
             array == FirstPage(behind)
             sum == [m \in Modules |-> part.modules[m] + Counted(array)[m]]
             s == [part EXCEPT !.modules = sum]
  <2>1. /\ pc = "modules" /\ UNCHANGED <<pass, failed>>
        /\ IF Len(behind) <= PageSize \/ page + 1 = MaxPages
           THEN Return(SafeOf(s)) /\ UNCHANGED <<start, page>>
           ELSE part' = s /\ start' = array[PageSize] /\ page' = page + 1 /\ UNCHANGED pc
    BY <1>7 DEF ReadPage
  <2>2. /\ a.code = "safe" /\ part.owners = a.owners /\ part.threshold = a.threshold
        /\ part.codehash = <<a.code, a.delegation>> /\ part.kind = "unknown"
        /\ part.delay = NoDelay /\ part.delegation = "none"
        /\ page < MaxPages /\ n <= Len(a.modules)
        /\ start = IF page = 0 THEN SENTINEL ELSE a.modules[n]
        /\ part.modules = [m \in Modules |-> Has(a, n, m)]
    BY <2>1 DEF ReadSoFar, a
  <2>3. /\ page \in Nat /\ PageSize \in Nat /\ PageSize > 0 /\ MaxPages \in Nat /\ n \in Nat
        /\ page > 0 => n > 0
        /\ page = 0 => n = 0
        /\ (page + 1) * PageSize = n + PageSize
        /\ page + 1 = MaxPages => PageSize * MaxPages = n + PageSize
    <3>1. page \in Nat /\ PageSize \in Nat /\ PageSize > 0 /\ MaxPages \in Nat
      BY ConstantsAssumption DEF CaptureType
    <3> QED
      BY <3>1
  <2>4. /\ a.modules \in Seq(Modules) /\ DOMAIN a.modules = 1 .. Len(a.modules) /\ Len(a.modules) \in Nat
        /\ \A i, j \in DOMAIN a.modules : a.modules[i] = a.modules[j] => i = j
    BY <1>0, AccountFacts
  <2> HIDE DEF n
  <2>5. behind = After(a.modules, n)
    <3>1. CASE page = 0
      BY <3>1, <2>2, <2>3 DEF Behind, After, a
    <3>2. CASE page # 0
      <4>1. n \in DOMAIN a.modules /\ start = a.modules[n]
        BY <3>2, <2>2, <2>3, <2>4
      <4>2. start # SENTINEL
        BY <4>1, <2>4, SentinelAssumption
      <4>3. (CHOOSE i \in DOMAIN a.modules : a.modules[i] = start) = n
        BY <4>1, <2>4
      <4> QED
        BY <4>2, <4>3 DEF Behind, After, a
    <3> QED
      BY <3>1, <3>2
  <2> HIDE DEF behind
  <2>6. /\ Len(behind) = Len(a.modules) - n
        /\ n + Len(array) <= Len(a.modules)
        /\ Len(behind) <= PageSize => n + Len(array) = Len(a.modules)
        /\ Len(behind) > PageSize => Len(array) = PageSize /\ array[PageSize] = a.modules[n + PageSize]
        /\ \A m \in Modules : Has(a, n, m) + Counted(array)[m] = Has(a, n + Len(array), m)
    <3>1. n \in 0 .. Len(a.modules)
      BY <2>2, <2>3, <2>4
    <3> QED
      BY <3>1, <2>5, <1>0, NextPage
  <2> HIDE DEF array
  <2>7. sum = [m \in Modules |-> Has(a, n + Len(array), m)]
    BY <2>2, <2>6
  <2> HIDE DEF sum
  <2>8. /\ s.codehash = part.codehash /\ s.kind = part.kind /\ s.modules = sum
        /\ s.delay = part.delay /\ s.delegation = part.delegation
        /\ s.owners = part.owners /\ s.threshold = part.threshold
        /\ SafeOf(s) = [kind |-> "safe", codehash |-> part.codehash, owners |-> part.owners,
                        threshold |-> part.threshold, modules |-> sum, delay |-> part.delay,
                        delegation |-> part.delegation]
    <3>1. s = [kind |-> part.kind, codehash |-> part.codehash, owners |-> part.owners,
               threshold |-> part.threshold, modules |-> sum, delay |-> part.delay,
               delegation |-> part.delegation]
      BY <1>0 DEF Snapshots
    <3> HIDE DEF s
    <3> QED
      BY <3>1 DEF SafeOf
  <2> HIDE DEF s
  <2>9. CASE Len(behind) <= PageSize \/ page + 1 = MaxPages
    <3>1. pc' = "done" /\ part' = SafeOf(s)
      BY <2>1, <2>9 DEF Return
    <3>2. Len(behind) <= PageSize
      <4>1. Len(a.modules) <= PageSize * MaxPages
        BY DEF Paged, a
      <4> QED
        BY <4>1, <2>9, <2>3, <2>4, <2>6
    <3>3. sum = [m \in Modules |-> Has(a, Len(a.modules), m)]
      BY <3>2, <2>6, <2>7
    <3>4. a.delay = NoDelay /\ a.delegation = "none"
      BY <2>2, <1>1
    <3>5. part' = Snap(a)
      BY <3>1, <3>3, <3>4, <2>2, <2>8 DEF Snap, KindOf
    <3>6. Partly(part', a)
      BY <3>1, <2>2, <2>8 DEF Partly
    <3> QED
      BY <3>1, <3>5, <3>6, <2>1, <1>2
  <2>10. CASE ~(Len(behind) <= PageSize \/ page + 1 = MaxPages)
    <3>1. part' = s /\ start' = array[PageSize] /\ page' = page + 1 /\ pc' = "modules"
      BY <2>1, <2>10
    <3>2. Len(behind) > PageSize /\ page + 1 # MaxPages /\ Len(behind) \in Int
      BY <2>10, <2>3, <2>4, <2>6
    <3>3. page' < MaxPages /\ page' # 0 /\ page' * PageSize = n + PageSize
      BY <3>1, <3>2, <2>2, <2>3
    <3>4. n + PageSize <= Len(a.modules) /\ start' = a.modules[n + PageSize]
      BY <3>1, <3>2, <2>6
    <3>5. part'.modules = [m \in Modules |-> Has(a, n + PageSize, m)]
      BY <3>1, <3>2, <2>6, <2>7, <2>8
    <3> QED
      BY <3>1, <3>3, <3>4, <3>5, <2>2, <2>8, <1>0 DEF ReadSoFar, a
  <2> QED
    BY <2>9, <2>10
<1>8. CASE PageEnds
  <2>1. /\ pc = "modules" /\ pc' = "done" /\ part' = SafeOf(part) /\ UNCHANGED pass
        /\ a.code = "safe" /\ Known(start) => pass \in failed'
    BY <1>8 DEF PageEnds, Return, Fails, a
  <2>2. /\ a.code = "safe" /\ part.owners = a.owners /\ part.threshold = a.threshold
        /\ part.codehash = <<a.code, a.delegation>>
        /\ page * PageSize <= Len(a.modules)
        /\ start = IF page = 0 THEN SENTINEL ELSE a.modules[page * PageSize]
    BY <2>1 DEF ReadSoFar, a
  <2>3. Known(start)
    <3>1. CASE page = 0
      BY <3>1, <2>2 DEF Known
    <3>2. CASE page # 0
      <4>1. page \in Nat /\ PageSize \in Nat /\ PageSize > 0
        BY ConstantsAssumption DEF CaptureType
      <4>2. page * PageSize \in 1 .. Len(a.modules)
        BY <4>1, <3>2, <2>2
      <4>3. page * PageSize \in DOMAIN a.modules
        BY <4>2, <1>0, AccountFacts
      <4> QED
        BY <4>3, <3>2, <2>2 DEF Known, a
    <3> QED
      BY <3>1, <3>2
  <2>4. Partly(part', a)
    <3>1. /\ part'.codehash = part.codehash /\ part'.kind = "safe"
          /\ part'.owners = part.owners /\ part'.threshold = part.threshold
      BY <2>1, <1>0 DEF SafeOf, Snapshots
    <3> QED
      BY <3>1, <2>2 DEF Partly
  <2> QED
    BY <2>1, <2>2, <2>3, <2>4, <1>2
<1>9. CASE ReadDelay \/ NotATimelock
  <2>1. pc = "timelock" /\ pc' = "done" /\ UNCHANGED pass /\ (pass \in failed => pass \in failed')
    BY <1>9 DEF ReadDelay, NotATimelock, Return, Fails
  <2>2. /\ a.code \in {"safe", "timelock", "plain"} /\ (a.code = "safe" => pass \in failed)
        /\ part.codehash = <<a.code, a.delegation>> /\ part.kind = "unknown"
        /\ part.delay = NoDelay /\ part.delegation = "none" /\ part.modules = NoModules
        /\ part.owners = {} /\ part.threshold = NoThreshold
    BY <2>1 DEF ReadSoFar, a
  <2>3. CASE ReadDelay
    <3>1. a.code = "timelock" /\ part' = [part EXCEPT !.kind = "timelock", !.delay = a.delay]
      BY <2>3 DEF ReadDelay, Return, a
    <3>2. part' = [kind |-> "timelock", codehash |-> <<a.code, a.delegation>>, owners |-> {},
                    threshold |-> NoThreshold, modules |-> NoModules, delay |-> a.delay, delegation |-> "none"]
      BY <3>1, <2>2, <1>0 DEF Snapshots
    <3>3. part' = Snap(a)
      BY <3>1, <3>2, <1>0, <1>1 DEF KindOf
    <3>4. Partly(part', a)
      BY <3>2 DEF Partly
    <3> QED
      BY <2>1, <3>3, <3>4, <1>2
  <2>4. CASE NotATimelock
    <3>1. part' = [part EXCEPT !.kind = "contract"] /\ (a.code = "timelock" => pass \in failed')
      BY <2>4 DEF NotATimelock, Return, Fails, a
    <3>2. part' = [kind |-> "contract", codehash |-> <<a.code, a.delegation>>, owners |-> {},
                    threshold |-> NoThreshold, modules |-> NoModules, delay |-> NoDelay, delegation |-> "none"]
      BY <3>1, <2>2, <1>0 DEF Snapshots
    <3>3. a.code = "plain" => part' = Snap(a)
      BY <3>2, <1>0, <1>1 DEF KindOf
    <3>4. Partly(part', a)
      BY <3>2 DEF Partly
    <3> QED
      BY <2>1, <2>2, <3>1, <3>3, <3>4, <1>2
  <2> QED
    BY <1>9, <2>3, <2>4
<1> QED
  BY <1>3, <1>4, <1>5, <1>6, <1>7, <1>8, <1>9 DEF Reading

\* Every step reads, changes the account, starts the next capture, or stutters.
LEMMA StepKinds ==
  ASSUME [Next]_vars
  PROVE  \/ Reading
         \/ Change
         \/ BeginCheck
         \/ UNCHANGED vars
BY DEF Next, Reading

\* A read ends the capture or goes on with it, and forgets no failure.
LEMMA ReadingEnds ==
  ASSUME Reading
  PROVE  /\ UNCHANGED <<account, pass, seen>> /\ failed \subseteq failed' /\ pc # "done"
         /\ \/ Return(part')
            \/ pc' # "done" /\ UNCHANGED <<base, drift, baseSeen>>
<1>1. UNCHANGED <<account, pass, seen>> /\ failed \subseteq failed'
  BY DEF Reading, ReadCode, ReadCodeFails, ReadSafe, NotASafe, ReadPage, PageEnds, ReadDelay, NotATimelock,
         Fails, history
<1>2. pc # "done"
  BY DEF Reading, ReadCode, ReadCodeFails, ReadSafe, NotASafe, ReadPage, PageEnds, ReadDelay, NotATimelock
<1>3. ASSUME NEW s, Return(s) PROVE Return(part')
  BY <1>3 DEF Return
<1>4. CASE ReadCode
  BY <1>4, <1>1, <1>2, <1>3 DEF ReadCode
<1>5. CASE ReadPage
  <2>1. pc = "modules" /\ ((\E s : Return(s)) \/ UNCHANGED <<pc, base, drift, baseSeen>>)
    BY <1>5 DEF ReadPage
  <2> QED
    BY <2>1, <1>1, <1>2, <1>3
<1>6. CASE ReadCodeFails \/ PageEnds \/ ReadDelay \/ NotATimelock
  BY <1>6, <1>1, <1>2, <1>3 DEF ReadCodeFails, PageEnds, ReadDelay, NotATimelock
<1>7. ASSUME NEW field \in {"threshold", "owners"}, ReadSafe(field)
      PROVE  pc' # "done" /\ UNCHANGED <<base, drift, baseSeen>>
  BY <1>7 DEF ReadSafe, history
<1>8. CASE NotASafe
  BY <1>8, <1>1, <1>2 DEF NotASafe
<1> QED
  BY <1>1, <1>2, <1>4, <1>5, <1>6, <1>7, <1>8 DEF Reading

\* The capture stays true to an account that stays as it is, and the baseline
\* to the account it was taken of.
LEMMA CaptureInductive ==
  ASSUME \A a \in Accounts : Paged(a), CaptureType, CaptureInv, [Next]_vars
  PROVE  CaptureInv'
<1>0. account \in Accounts /\ account \in seen /\ CaptureType'
  BY CaptureTypeInductive DEF CaptureType
<1>1. CASE Reading
  <2>1. /\ UNCHANGED <<account, pass, seen>> /\ failed \subseteq failed' /\ pc # "done"
        /\ Return(part') \/ (pc' # "done" /\ UNCHANGED <<base, drift, baseSeen>>)
    BY <1>1, ReadingEnds
  <2>2. (seen = {account} => ReadSoFar(account))'
    BY <1>0, <1>1, <2>1, ReadingGoesOn DEF CaptureInv
  <2>3. CASE Return(part')
    <3>1. /\ pc' = "done"
          /\ IF pass = "baseline"
             THEN base' = part' /\ baseSeen' = seen
             ELSE base' = base /\ drift' = diffSnapshots(base, part') /\ baseSeen' = baseSeen
      BY <2>3 DEF Return
    <3>2. ASSUME NEW a \in Accounts, baseSeen' = {a}, "baseline" \notin failed' PROVE base' = Snap(a)
      <4>1. CASE pass = "baseline"
        <5>1. seen' = {account'} /\ a = account'
          BY <3>1, <3>2, <4>1, <2>1, <1>0
        <5>2. ReadSoFar(account)'
          BY <5>1, <2>2
        <5>3. part' = Snap(account)'
          BY <5>2, <3>1, <3>2, <4>1, <2>1 DEF ReadSoFar
        <5> QED
          BY <5>1, <5>3, <3>1, <4>1 DEF Snap, KindOf, Has
      <4>2. CASE pass # "baseline"
        BY <3>1, <3>2, <4>2, <2>1 DEF CaptureInv, CaptureType
      <4> QED
        BY <4>1, <4>2
    <3>3. (pass = "check" /\ pc = "done" => drift = diffSnapshots(base, part))'
      BY <3>1, <2>1 DEF diffSnapshots
    <3> QED
      BY <2>2, <3>2, <3>3 DEF CaptureInv
  <2>4. CASE pc' # "done" /\ UNCHANGED <<base, drift, baseSeen>>
    BY <2>1, <2>2, <2>4 DEF CaptureInv
  <2> QED
    BY <2>1, <2>3, <2>4
<1>2. CASE Change
  <2>1. UNCHANGED <<pass, pc, part, base, drift, baseSeen, failed>>
        /\ account' # account /\ seen' = seen \cup {account'}
    BY <1>2 DEF Change, capture
  <2>2. seen' # {account'}
    BY <2>1, <1>0
  <2> QED
    BY <2>1, <2>2 DEF CaptureInv, diffSnapshots
<1>3. CASE BeginCheck
  <2>1. /\ pc = "done" /\ pass' = "check" /\ pc' = "code" /\ part' = Blank /\ start' = SENTINEL /\ page' = 0
        /\ failed' = failed \ {"check"} /\ UNCHANGED <<base, baseSeen>>
    BY <1>3 DEF BeginCheck
  <2>2. ReadSoFar(account)'
    BY <2>1 DEF ReadSoFar
  <2> QED
    BY <2>1, <2>2 DEF CaptureInv
<1>4. CASE UNCHANGED vars
  <2>1. UNCHANGED <<account, pass, pc, part, awaited, start, page, base, drift, seen, baseSeen, failed>>
    BY <1>4 DEF vars, capture, history
  <2>2. CaptureInv' <=> CaptureInv
    BY <2>1 DEF CaptureInv, ReadSoFar, diffSnapshots, Snap, KindOf, Has, Partly
  <2> QED
    BY <2>2
<1> QED
  BY <1>1, <1>2, <1>3, <1>4, StepKinds

\* No drift means that all seven fields are the same.
LEMMA NoDrift ==
  ASSUME NEW s, NEW t
  PROVE  diffSnapshots(s, t) = {} <=>
           /\ s.kind = t.kind /\ s.codehash = t.codehash /\ s.owners = t.owners /\ s.threshold = t.threshold
           /\ s.modules = t.modules /\ s.delay = t.delay /\ s.delegation = t.delegation
<1>1. Fields = {"kind", "codehash", "owners", "threshold", "modules", "delay", "delegation"}
  BY DEF Fields, Blank
<1> QED
  BY <1>1 DEF diffSnapshots

\* What is captured of two accounts is the same exactly if their authority is.
LEMMA SnapsTell ==
  ASSUME NEW a \in Accounts, NEW b \in Accounts
  PROVE  diffSnapshots(Snap(a), Snap(b)) = {} <=> SameAuthority(a, b)
<1>1. ASSUME NEW c \in Accounts, NEW m \in Modules
      PROVE  Has(c, Len(c.modules), m) = 1 <=> m \in ModuleSet(c)
  BY AccountFacts DEF Has, ModuleSet
<1>2. ModuleSet(a) \subseteq Modules /\ ModuleSet(b) \subseteq Modules
  BY AccountFacts DEF ModuleSet
<1>3. ASSUME [m \in Modules |-> Has(a, Len(a.modules), m)] = [m \in Modules |-> Has(b, Len(b.modules), m)]
      PROVE  ModuleSet(a) = ModuleSet(b)
  <2>1. ASSUME NEW m \in Modules PROVE Has(a, Len(a.modules), m) = Has(b, Len(b.modules), m)
    <3>1. /\ [k \in Modules |-> Has(a, Len(a.modules), k)][m] = Has(a, Len(a.modules), m)
          /\ [k \in Modules |-> Has(b, Len(b.modules), k)][m] = Has(b, Len(b.modules), m)
      OBVIOUS
    <3> QED
      BY <3>1, <1>3
  <2> QED
    BY <2>1, <1>1, <1>2
<1>4. ASSUME ModuleSet(a) = ModuleSet(b), NEW m \in Modules
      PROVE  Has(a, Len(a.modules), m) = Has(b, Len(b.modules), m)
  <2>1. \A c \in {a, b} : Has(c, Len(c.modules), m) \in {0, 1}
    BY DEF Has
  <2> QED
    BY <2>1, <1>1, <1>4
<1>5. /\ Snap(a).kind = KindOf(a) /\ Snap(b).kind = KindOf(b)
      /\ Snap(a).codehash = <<a.code, a.delegation>> /\ Snap(b).codehash = <<b.code, b.delegation>>
      /\ Snap(a).owners = a.owners /\ Snap(b).owners = b.owners
      /\ Snap(a).threshold = a.threshold /\ Snap(b).threshold = b.threshold
      /\ Snap(a).modules = [m \in Modules |-> Has(a, Len(a.modules), m)]
      /\ Snap(b).modules = [m \in Modules |-> Has(b, Len(b.modules), m)]
      /\ Snap(a).delay = a.delay /\ Snap(b).delay = b.delay
      /\ Snap(a).delegation = a.delegation /\ Snap(b).delegation = b.delegation
  BY DEF Snap
<1>6. a.code = b.code => KindOf(a) = KindOf(b)
  BY DEF KindOf
<1>7. <<a.code, a.delegation>> = <<b.code, b.delegation>> <=> a.code = b.code /\ a.delegation = b.delegation
  OBVIOUS
<1>8. diffSnapshots(Snap(a), Snap(b)) = {} <=>
        /\ KindOf(a) = KindOf(b) /\ a.code = b.code /\ a.delegation = b.delegation
        /\ a.owners = b.owners /\ a.threshold = b.threshold /\ a.delay = b.delay
        /\ [m \in Modules |-> Has(a, Len(a.modules), m)] = [m \in Modules |-> Has(b, Len(b.modules), m)]
  BY <1>5, <1>7, NoDrift
<1> QED
  BY <1>3, <1>4, <1>6, <1>8 DEF SameAuthority, SameSigners

\* The capture takes the steps of Next, among all those of the command.
LEMMA CaptureInvariance == AuthoritySpec => [](CaptureType /\ SeenInv)
<1>1. AuthorityInit => CaptureType /\ SeenInv
  BY InitCapture DEF AuthorityInit
<1>2. CaptureType /\ SeenInv /\ [AuthorityNext]_<<grain, vars, fileVars, watchVars>> => (CaptureType /\ SeenInv)'
  BY CaptureTypeInductive, SeenInductive DEF AuthorityNext
<1> QED
  BY <1>1, <1>2, PTL DEF AuthoritySpec

(***************************************************************************)
(* For any accounts, however often and whenever they change, and whatever  *)
(* reads fail: a snapshot names no owner, module, threshold or delay that  *)
(* the account did not have while it was captured                          *)
(* (checks/onchain.ts, captureAuthoritySnapshot).                          *)
(***************************************************************************)
THEOREM SnapshotsInventNothing == AuthoritySpec => []NoPhantomAuthority
<1>1. SeenInv => NoPhantomAuthority
  BY DEF SeenInv, NoPhantomAuthority
<1> QED
  BY <1>1, CaptureInvariance, PTL

(***************************************************************************)
(* For any accounts whose modules fit into the pages read, and an account  *)
(* that rests during either capture: whatever reads of the check fail, no  *)
(* drift means the same code, owners, threshold, delay and delegation; and *)
(* if none fails, there is a drift exactly if the authority changed        *)
(* (authority-watch-core.ts, diffSnapshots).                               *)
(***************************************************************************)
THEOREM QuietChecksAreExact ==
  ASSUME \A a \in Accounts : Paged(a)
  PROVE  AuthoritySpec => []QuietCheckIsExact
<1>1. AuthorityInit => CaptureType /\ CaptureInv
  BY InitCapture DEF AuthorityInit
<1>2. CaptureType /\ CaptureInv /\ [AuthorityNext]_<<grain, vars, fileVars, watchVars>>
        => (CaptureType /\ CaptureInv)'
  <2>1. AuthorityNext => [Next]_vars
    BY DEF AuthorityNext
  <2> QED
    BY <2>1, CaptureTypeInductive, CaptureInductive
<1>3. CaptureType /\ CaptureInv => QuietCheckIsExact
  <2> SUFFICES ASSUME CaptureType, CaptureInv, NEW a \in Accounts, NEW b \in Accounts, QuietChange(a, b)
               PROVE  /\ drift = {} => SameSigners(a, b)
                      /\ "check" \notin failed => (drift = {} <=> SameAuthority(a, b))
    BY DEF QuietCheckIsExact
  <2>1. /\ pass = "check" /\ pc = "done" /\ "baseline" \notin failed /\ baseSeen = {a} /\ seen = {b} /\ account = b
    BY DEF QuietChange, CheckDone, CaptureType
  <2>2. base = Snap(a) /\ drift = diffSnapshots(base, part)
    BY <2>1 DEF CaptureInv
  <2>3. Partly(part, b) /\ ("check" \notin failed => part = Snap(b))
    BY <2>1 DEF CaptureInv, ReadSoFar
  <2>4. "check" \notin failed => (drift = {} <=> SameAuthority(a, b))
    BY <2>2, <2>3, SnapsTell
  <2>5. ASSUME drift = {} PROVE SameSigners(a, b)
    <3>1. /\ part.kind = KindOf(a) /\ part.codehash = <<a.code, a.delegation>>
          /\ part.owners = a.owners /\ part.threshold = a.threshold /\ part.delay = a.delay
      BY <2>2, <2>5, NoDrift DEF Snap
    <3>2. a.code # "unreadable"
      BY AccountFacts DEF Codes
    <3>3. <<a.code, a.delegation>> # <<"unreadable", "none">>
      BY <3>2
    <3>4. /\ part.codehash = <<b.code, b.delegation>>
          /\ part.kind = "safe" => part.owners = b.owners /\ part.threshold = b.threshold
          /\ part.kind = "timelock" => part.delay = b.delay
      BY <2>3, <3>1, <3>3 DEF Partly
    <3>5. a.code = b.code /\ a.delegation = b.delegation
      BY <3>1, <3>4
    <3>6. a.owners = b.owners /\ a.threshold = b.threshold
      <4>1. CASE a.code = "safe"
        BY <4>1, <3>1, <3>4 DEF KindOf
      <4>2. CASE a.code # "safe"
        BY <4>2, <3>5, AccountFacts
      <4> QED
        BY <4>1, <4>2
    <3>7. a.delay = b.delay
      <4>1. CASE a.code = "timelock"
        BY <4>1, <3>1, <3>4 DEF KindOf
      <4>2. CASE a.code # "timelock"
        BY <4>2, <3>5, AccountFacts
      <4> QED
        BY <4>1, <4>2
    <3> QED
      BY <3>5, <3>6, <3>7 DEF SameSigners
  <2> QED
    BY <2>4, <2>5
<1> QED
  BY <1>1, <1>2, <1>3, PTL DEF AuthoritySpec
=============================================================================
