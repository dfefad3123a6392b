-------------------------- MODULE AuthorityCapture --------------------------
(***************************************************************************)
(* evmsec authority: the capture of one monitored address (checks/         *)
(* onchain.ts) and the diff of two captures (authority-watch-core.ts).  A  *)
(* capture is a series of reads at the chain's head, and the account may   *)
(* change between any two of them; with ReadsFail any read may run out of  *)
(* retries.  A baseline is captured once, then checks are captured and     *)
(* compared with it.                                                       *)
(***************************************************************************)
EXTENDS Integers, Sequences, FiniteSets

CONSTANTS
  Accounts,     \* the states the account may be in
  Modules,      \* Safe modules there are
  PageSize,     \* modules per page (10 in the code)
  MaxPages,     \* pages read at most (20 in the code)
  MaxChanges,   \* bound: how often the account changes
  ReadsFail     \* whether reads may fail

\* An account: its code, and what its contract answers ({}, -1, "none", <<>>
\* where it has no answer).  A Safe keeps its modules in a linked list, so none
\* is in it twice.
Codes == {"0x", "delegation", "safe", "timelock", "plain"}
NoDelay == -1
NoThreshold == -1
IsAccount(a) ==
  /\ a.code \in Codes
  /\ a.threshold \in Nat \cup {NoThreshold}
  /\ a.delay \in Nat \cup {NoDelay}
  /\ a.modules \in Seq(Modules)
  /\ \A i, j \in DOMAIN a.modules : a.modules[i] = a.modules[j] => i = j
  /\ a.code # "safe" => a.owners = {} /\ a.threshold = NoThreshold /\ a.modules = <<>>
  /\ a.code # "timelock" => a.delay = NoDelay
  /\ a.code # "delegation" => a.delegation = "none"

ASSUME ConstantsAssumption ==
  /\ Accounts # {}
  /\ \A a \in Accounts : IsAccount(a)
  /\ PageSize \in Nat \ {0}
  /\ MaxPages \in Nat \ {0}
  /\ MaxChanges \in Nat
  /\ ReadsFail \in BOOLEAN

SENTINEL == "sentinel"
ASSUME SentinelAssumption == SENTINEL \notin Modules

VARIABLES
  account,    \* the account on chain
  changes,    \* how often it changed
  pass,       \* what is captured: "baseline" or "check"
  pc,         \* the read awaited
  part,       \* the capture so far
  awaited,    \* of the owner and threshold reads, those not answered
  start,      \* cursor of the module pages
  page,       \* pages read
  base,       \* the baseline's snapshot
  drift,      \* the fields that differ, once a check is done
  seen,       \* the accounts there were during this capture (history)
  baseSeen,   \* ... during the capture of the baseline (history)
  failed      \* a read of the baseline, or of this capture, failed (history)

capture == <<pass, pc, part, awaited, start, page, base, drift>>
history == <<seen, baseSeen, failed>>
vars == <<account, changes, capture, history>>

NoModules == [m \in Modules |-> 0]
Blank == [kind |-> "unknown", codehash |-> <<"unreadable", "none">>, owners |-> {},
          threshold |-> NoThreshold, modules |-> NoModules, delay |-> NoDelay,
          delegation |-> "none"]
Fields == DOMAIN Blank

Init ==
  /\ account \in Accounts /\ changes = 0
  /\ pass = "baseline" /\ pc = "code" /\ part = Blank
  /\ awaited = {} /\ start = SENTINEL /\ page = 0
  /\ base = Blank /\ drift = {}
  /\ seen = {account} /\ baseSeen = {} /\ failed = {}

\* The world: a transaction changes the account.
Change ==
  /\ changes < MaxChanges
  /\ account' \in Accounts \ {account}
  /\ changes' = changes + 1
  /\ seen' = seen \cup {account'}
  /\ UNCHANGED <<capture, baseSeen, failed>>

\* diffSnapshots: every field but the label and the time.
diffSnapshots(b, c) == {f \in Fields : b[f] # c[f]}

\* captureAuthoritySnapshot returns s.
Return(s) ==
  /\ part' = s
  /\ pc' = "done"
  /\ IF pass = "baseline"
     THEN base' = s /\ drift' = {} /\ baseSeen' = seen
     ELSE base' = base /\ drift' = diffSnapshots(base, s) /\ baseSeen' = baseSeen

Fails == ReadsFail /\ failed' = failed \cup {pass}

\* keccak256 of the code; a delegation's code holds its target.
codehash == <<account.code, account.delegation>>

ReadCode ==
  /\ pc = "code"
  /\ LET s == [part EXCEPT !.codehash = codehash]
     IN  CASE account.code = "delegation" ->
                Return([s EXCEPT !.kind = "eoa", !.delegation = account.delegation])
                /\ UNCHANGED awaited
           [] account.code = "0x" -> Return([s EXCEPT !.kind = "eoa"]) /\ UNCHANGED awaited
           [] OTHER -> /\ part' = s /\ pc' = "safe" /\ awaited' = {"threshold", "owners"}
                       /\ UNCHANGED <<base, drift, baseSeen>>
  /\ UNCHANGED <<account, changes, pass, start, page, seen, failed>>

\* An unreadable target is a snapshot of its own.
ReadCodeFails ==
  /\ pc = "code"
  /\ Fails
  /\ Return(part)
  /\ UNCHANGED <<account, changes, pass, awaited, start, page, seen>>

\* getThreshold and getOwners are awaited together.
ReadSafe(field) ==
  /\ pc = "safe"
  /\ field \in awaited
  /\ account.code = "safe"
  /\ part' = [part EXCEPT ![field] = account[field]]
  /\ awaited' = awaited \ {field}
  /\ IF awaited' = {} THEN pc' = "modules" ELSE UNCHANGED pc
  /\ UNCHANGED <<account, changes, pass, start, page, base, drift, history>>

\* One of them reverts, or fails: not a Safe, a timelock is tried.
NotASafe ==
  /\ pc = "safe"
  /\ IF account.code = "safe" THEN Fails ELSE UNCHANGED failed
  /\ part' = [part EXCEPT !.owners = {}, !.threshold = NoThreshold]
  /\ awaited' = {}
  /\ pc' = "timelock"
  /\ UNCHANGED <<account, changes, pass, start, page, base, drift, seen, baseSeen>>

\* getModulesPaginated, as a Safe of version 1.4 answers it: up to PageSize
\* modules behind the cursor, and the last of them as the next cursor if more
\* follow.  Older Safes give the first one that was left out, and the page that
\* begins behind it skips it.
Behind(cursor) ==
  LET at == IF cursor = SENTINEL THEN 0
            ELSE CHOOSE i \in DOMAIN account.modules : account.modules[i] = cursor
  IN  SubSeq(account.modules, at + 1, Len(account.modules))

FirstPage(ms) == SubSeq(ms, 1, IF Len(ms) < PageSize THEN Len(ms) ELSE PageSize)

Known(cursor) == cursor = SENTINEL \/ \E i \in DOMAIN account.modules : account.modules[i] = cursor

Counted(ms) == [m \in Modules |-> Cardinality({i \in DOMAIN ms : ms[i] = m})]

SafeOf(s) == [s EXCEPT !.kind = "safe"]

\* Mutant: the first page is taken for all of them.
ReadPageOnce ==
  /\ pc = "modules"
  /\ account.code = "safe" /\ Known(start)
  /\ LET array == FirstPage(Behind(start))
     IN  Return(SafeOf([part EXCEPT !.modules = Counted(array)]))
  /\ UNCHANGED <<account, changes, pass, awaited, start, page, seen, failed>>

ReadPage ==
  /\ pc = "modules"
  /\ account.code = "safe" /\ Known(start)
  /\ LET behind == Behind(start)
         array == FirstPage(behind)
         s == [part EXCEPT !.modules = [m \in Modules |-> @[m] + Counted(array)[m]]]
     IN  IF Len(behind) <= PageSize \/ page + 1 = MaxPages
         THEN Return(SafeOf(s)) /\ UNCHANGED <<start, page>>
         ELSE /\ part' = s /\ start' = array[PageSize] /\ page' = page + 1
              /\ UNCHANGED <<pc, base, drift, baseSeen>>
  /\ UNCHANGED <<account, changes, pass, awaited, seen, failed>>

\* A page that reverts (the cursor is no longer a module, the code is no
\* longer a Safe's) or fails ends the list where it is.
PageEnds ==
  /\ pc = "modules"
  /\ IF account.code = "safe" /\ Known(start) THEN Fails ELSE UNCHANGED failed
  /\ Return(SafeOf(part))
  /\ UNCHANGED <<account, changes, pass, awaited, start, page, seen>>

\* probeTimelock: getMinDelay, then delay.
ReadDelay ==
  /\ pc = "timelock"
  /\ account.code = "timelock"
  /\ Return([part EXCEPT !.kind = "timelock", !.delay = account.delay])
  /\ UNCHANGED <<account, changes, pass, awaited, start, page, seen, failed>>

\* Neither answers: some other contract.
NotATimelock ==
  /\ pc = "timelock"
  /\ IF account.code = "timelock" THEN Fails ELSE UNCHANGED failed
  /\ Return([part EXCEPT !.kind = "contract"])
  /\ UNCHANGED <<account, changes, pass, awaited, start, page, seen>>

\* Mutant: the next capture starts from the fields of the last one.
BeginCheckKeepsPart ==
  /\ pc = "done"
  /\ pass' = "check" /\ pc' = "code"
  /\ awaited' = {} /\ start' = SENTINEL /\ page' = 0
  /\ drift' = {}
  /\ seen' = {account}
  /\ failed' = failed \ {"check"}
  /\ UNCHANGED <<account, changes, part, base, baseSeen>>

\* The next capture, a check against the baseline file.
BeginCheck ==
  /\ pc = "done"
  /\ pass' = "check" /\ pc' = "code" /\ part' = Blank
  /\ awaited' = {} /\ start' = SENTINEL /\ page' = 0
  /\ drift' = {}
  /\ seen' = {account}
  /\ failed' = failed \ {"check"}
  /\ UNCHANGED <<account, changes, base, baseSeen>>

Next ==
  \/ Change
  \/ ReadCode \/ ReadCodeFails
  \/ \E field \in {"threshold", "owners"} : ReadSafe(field)
  \/ NotASafe
  \/ ReadPage \/ PageEnds
  \/ ReadDelay \/ NotATimelock
  \/ BeginCheck

Spec == Init /\ [][Next]_vars
-----------------------------------------------------------------------------
ModuleSet(a) == {a.modules[i] : i \in DOMAIN a.modules}

\* What makes two accounts the same authority: the code, the signers, the
\* delay, the delegation.  The order of modules does not matter.
SameSigners(a, b) ==
  /\ a.code = b.code /\ a.owners = b.owners /\ a.threshold = b.threshold
  /\ a.delay = b.delay /\ a.delegation = b.delegation
SameAuthority(a, b) == SameSigners(a, b) /\ ModuleSet(a) = ModuleSet(b)

CheckDone == pass = "check" /\ pc = "done"

\* The baseline was captured without a failed read, and the account did not
\* change during either capture: from a to b, in between.
QuietChange(a, b) == CheckDone /\ "baseline" \notin failed /\ baseSeen = {a} /\ seen = {b}

\* Whatever reads fail in the check, it is clean only if the code, the
\* owners, the threshold, the delay and the delegation are the baseline's;
\* and when none failed, it reports a drift exactly if the authority changed.
QuietCheckIsExact ==
  \A a, b \in Accounts : QuietChange(a, b) =>
    /\ drift = {} => SameSigners(a, b)
    /\ "check" \notin failed => (drift = {} <=> SameAuthority(a, b))

\* However an account changes while it is captured, a snapshot names no
\* owner, no module, no threshold and no delay that it did not have meanwhile.
NoPhantomAuthority ==
  pc = "done" =>
    /\ \A o \in part.owners : \E a \in seen : o \in a.owners
    /\ \A m \in Modules : part.modules[m] > 0 => \E a \in seen : m \in ModuleSet(a)
    /\ part.threshold # NoThreshold => \E a \in seen : part.threshold = a.threshold
    /\ part.delay # NoDelay => \E a \in seen : part.delay = a.delay
=============================================================================
