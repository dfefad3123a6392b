---------------------------- MODULE ContractAudit ----------------------------
(***************************************************************************)
(* The commands that run the contract checks: audit on one contract,       *)
(* audit-bridge on the escrows and the token of a route after its solvency *)
(* check, deps on every entry of a manifest at once, and audit_contract of *)
(* the MCP server.  One step per await of the command.  How the checks of  *)
(* one target share the worker pool is module WorkerPool; nothing passes   *)
(* between them, so here they settle together.                             *)
(***************************************************************************)
EXTENDS ContractChecks, Sequences, FiniteSets

CONSTANTS
  Plans,    \* what may be audited: sequences of contracts
  Faults,   \* which reads fail in one assessment: check -> set of reads
  MaxFaulty \* bound: how many targets meet a failed read

ASSUME AuditAssumption ==
  /\ Plans \subseteq Seq(Contract) /\ MaxFaulty \in Nat
  /\ Faults \subseteq [CheckIds -> SUBSET Reads]

Commands == {"audit", "audit-bridge", "deps", "mcp"}
MultiTarget == {"audit-bridge", "deps"}

VARIABLES
  command, failOn,
  key,         \* ETHERSCAN_API_KEY is set
  targets,     \* the contracts to assess, in report order
  invalid,     \* deps: the manifest has entries that were dropped
  solvency,    \* severity of the solvency report, "pending", or "none" without one
  phase,       \* target -> waiting, checking, done
  reports,     \* target -> check -> severity
  result,      \* overall severity, "no-code", "error", or "none" so far
  exit,        \* the exit code
  \* history, not in the code
  unread,      \* target -> checks of which some read failed
  missed       \* target -> checks whose role enumeration left a holder out

inputs == <<command, failOn, key, targets, invalid>>
vars   == <<inputs, solvency, phase, reports, result, exit, unread, missed>>

Targets   == DOMAIN targets
NoReports == [id \in {} |-> "skip"]

\* An escrow or more, then the token of the route.  What else is validated, of
\* an address or a chain, decides only whether a plan comes about.
planTargets(plan) == Len(plan) > 1

\* Entries dropped from a manifest are errors; with none left deps stops there.
validateDeps(plan) == Len(plan) > 0

\* The MCP tool answers its caller, and sets no exit code.
audit_contract == command = "mcp"

Init ==
  /\ command \in Commands /\ failOn \in Severities /\ key \in BOOLEAN
  /\ targets \in Plans
  /\ invalid \in BOOLEAN /\ (invalid => command = "deps")
  /\ command = "deps" => validateDeps(targets)
  /\ command = "audit-bridge" => planTargets(targets)
  /\ command \notin MultiTarget => Len(targets) = 1
  /\ audit_contract => failOn = "critical"
  /\ solvency = IF command = "audit-bridge" THEN "pending" ELSE "none"
  /\ phase = [t \in Targets |-> "waiting"]
  /\ reports = [t \in Targets |-> NoReports]
  /\ result = "none" /\ exit = IF invalid THEN 1 ELSE 0
  /\ unread = [t \in Targets |-> {}] /\ missed = [t \in Targets |-> {}]
-----------------------------------------------------------------------------
solvencyToReport ==
  [BACKED |-> "ok", UNDERCOLLATERALIZED |-> "critical", NO_SUPPLY |-> "warning", ERROR |-> "skip"]

SolvencyResolves(verdict) ==
  /\ solvency = "pending"
  /\ solvency' = solvencyToReport[verdict]
  /\ UNCHANGED <<inputs, phase, reports, result, exit, unread, missed>>

\* deps starts on all its targets; audit-bridge takes one after the other.
Turn(t) ==
  /\ result = "none" /\ phase[t] = "waiting"
  /\ \/ command = "deps"
     \/ solvency # "pending" /\ \A u \in Targets : u < t => phase[u] = "done"

\* Where there is no code no check applies.
ReadCode(t) ==
  /\ Turn(t)
  /\ phase' = [phase EXCEPT ![t] = IF targets[t].deployed THEN "checking" ELSE "done"]
  /\ UNCHANGED <<inputs, solvency, reports, result, exit, unread, missed>>

\* The command ends with the error, whatever else is under way.
ReadCodeFails(t) ==
  /\ Turn(t)
  /\ result' = "error"
  /\ exit' = IF audit_contract THEN exit ELSE 1
  /\ UNCHANGED <<inputs, solvency, phase, reports, unread, missed>>

ChecksSettle(t, failed) ==
  /\ result = "none" /\ phase[t] = "checking"
  /\ \/ \A id \in CheckIds : failed[id] = {}
     \/ Cardinality({u \in Targets : unread[u] # {}}) < MaxFaulty
  /\ phase' = [phase EXCEPT ![t] = "done"]
  /\ reports' = [reports EXCEPT ![t] = [id \in CheckIds |-> Assess(id, targets[t], failed[id], key)]]
  /\ unread' = [unread EXCEPT ![t] = {id \in CheckIds : failed[id] # {}}]
  /\ missed' = [missed EXCEPT ![t] = {id \in CheckIds : "missed" \in failed[id]}]
  /\ UNCHANGED <<inputs, solvency, result, exit>>

AllReports ==
  (UNION {{reports[t][id] : id \in DOMAIN reports[t]} : t \in Targets})
    \cup (IF solvency = "none" THEN {} ELSE {solvency})

\* Mutant: the build fails only above the bar.
ReportStrict ==
  /\ result = "none" /\ solvency # "pending"
  /\ \A t \in Targets : phase[t] = "done"
  /\ result' = worstSeverity(AllReports)
  /\ exit' = IF ~audit_contract /\ RANK[result'] > RANK[failOn] THEN 1 ELSE exit
  /\ UNCHANGED <<inputs, solvency, phase, reports, unread, missed>>

Report ==
  /\ result = "none" /\ solvency # "pending"
  /\ \A t \in Targets : phase[t] = "done"
  /\ result' = IF command = "audit" /\ AllReports = {} THEN "no-code" ELSE worstSeverity(AllReports)
  /\ exit' = IF ~audit_contract /\ (result' = "no-code" \/ RANK[result'] >= RANK[failOn])
             THEN 1 ELSE exit
  /\ UNCHANGED <<inputs, solvency, phase, reports, unread, missed>>

Next ==
  \/ \E v \in DOMAIN solvencyToReport : SolvencyResolves(v)
  \/ \E t \in Targets :
       \/ ReadCode(t)
       \/ ReadCodeFails(t)
       \/ \E failed \in Faults : ChecksSettle(t, failed)
  \/ Report

Spec == Init /\ [][Next]_vars
-----------------------------------------------------------------------------
(***************************************************************************)
(* What is really the case with a contract, told by its gates: the finding *)
(* each check is there to make.                                            *)
(***************************************************************************)
SingleKey(a) == a.kind = "eoa" \/ (a.kind = "safe" /\ a.threshold <= 1)

Held(gate, c, holders, getter) ==
  \/ gate = "owner" /\ c.owner.kind = "eoa"
  \/ gate = "role" /\ "eoa" \in holders
  \/ gate = "getter" /\ getter.kind = "eoa"

Finding(id, c) ==
  CASE id = "verification-status" -> c.sourcify = "null" /\ ~c.etherscan
    [] id = "compiler-bugs"       -> \E b \in c.bugs : b.severity \in SERIOUS /\ ~b.conditional
    [] id = "upgradeability"      -> c.proxy # "none" /\ c.admin.kind = "eoa"
    [] id = "admin-power"         -> SingleKey(IF c.admin.kind \in {"null", "zero"} THEN c.owner ELSE c.admin)
    [] id = "mint-authority"      -> Held(c.mintGate, c, c.minters, c.masterMinter)
    [] id = "pause-guardian"      -> Held(c.pauseGate, c, c.pausers, c.pauser)
    [] id = "freeze-authority"    -> Held(c.freezeGate, c, {}, c.blacklister)

\* The checks that scan the bytecode of the implementation.
ByScan == {"mint-authority", "pause-guardian", "freeze-authority"}
KeyChecks == ByScan \cup {"upgradeability", "admin-power"}

(***************************************************************************)
(* What the scan presumes of a contract: a gate shows in the selectors,    *)
(* and a contract with AccessControl does not gate by its owner.           *)
(***************************************************************************)
Gated(gate, entry, owners, roles, getter, found) ==
  /\ gate = "none"   => found \cap entry = {}
  /\ gate = "owner"  => found \cap entry # {} /\ found \cap owners # {}
                        /\ found \cap (roles \cup {getter}) = {}
  /\ gate = "role"   => found \cap entry # {} /\ found \cap roles # {} /\ getter \notin found
  /\ gate = "getter" => found \cap entry # {} /\ getter \in found

Presumed(c) ==
  /\ Gated(c.mintGate, {"mint", "masterMinter"}, {"owner", "pendingOwner"},
           {"hasRole", "getRoleAdmin", "grantRole"}, "masterMinter", c.selectors)
  /\ c.mintGate # "role" => c.minters = {}
  /\ Gated(c.pauseGate, {"pause", "unpause"}, {"owner"}, {"hasRole", "grantRole"}, "pauser", c.selectors)
  /\ c.freezeGate # "role"
  /\ Gated(c.freezeGate, {"blacklist", "addBlackList"}, Selectors, {}, "blacklister", c.selectors)

(***************************************************************************)
(* A power held by a single key is never reported ok, whichever reads fail *)
(* on the way to it: what cannot be read is at best a warning or a skip    *)
(* (authority-core.ts:15-17).  Left out are beacon proxies and roles whose *)
(* enumeration silently misses a holder.                                   *)
(***************************************************************************)
SingleKeyNeverPasses ==
  \A t \in Targets : \A id \in KeyChecks \cap DOMAIN reports[t] :
    /\ Finding(id, targets[t]) /\ Presumed(targets[t])
    /\ ~(id \in ByScan /\ targets[t].proxy = "beacon")
    /\ id \notin missed[t]
    => reports[t][id] # "ok"

(***************************************************************************)
(* A critical report is real: no combination of failed reads makes one up, *)
(* except that a contract may count as unverified when a provider that has *)
(* its source did not answer or was not asked (README.md:616-622).         *)
(***************************************************************************)
CriticalIsReal ==
  \A t \in Targets : \A id \in DOMAIN reports[t] :
    /\ reports[t][id] = "critical" /\ Presumed(targets[t])
    /\ id = "verification-status" => key /\ id \notin unread[t]
    => Finding(id, targets[t])

(***************************************************************************)
(* A finding fails the build: whatever else failed to run, on this target  *)
(* or another, and whichever command found it, the overall severity is     *)
(* critical and the exit code is 1 (README.md:94, 197-199).                *)
(***************************************************************************)
FindingFailsTheBuild ==
  \A t \in Targets : \A id \in DOMAIN reports[t] :
    /\ result \notin {"none", "error"}
    /\ Finding(id, targets[t]) /\ Presumed(targets[t])
    /\ ~(id \in ByScan /\ targets[t].proxy = "beacon")
    /\ id \notin unread[t]
    => result = "critical" /\ (exit = 1 \/ audit_contract)

(***************************************************************************)
(* README.md:442 says of mint-authority that "It follows the proxy to its  *)
(* implementation (most bridge tokens are proxies)": a proxy of whatever   *)
(* kind does not hide a minting key.                                       *)
(***************************************************************************)
ProxiesAreFollowed ==
  \A t \in Targets :
    "mint-authority" \in DOMAIN reports[t] \ unread[t]
      /\ Finding("mint-authority", targets[t]) /\ Presumed(targets[t])
    => reports[t]["mint-authority"] # "ok"
=============================================================================
