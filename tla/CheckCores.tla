----------------------------- MODULE CheckCores -----------------------------
(***************************************************************************)
(* The verdict functions behind the contract checks: mint-authority-core,  *)
(* pause-guardian-core, freeze-core, authority-core, verification-core and *)
(* compiler-core, and the severity scale of check.ts.  A verdict keeps     *)
(* fail and risk; its wording is left out.  A role holder is known by its  *)
(* kind, which is all a verdict looks at; "null" stands for null and for   *)
(* undefined.                                                              *)
(***************************************************************************)
EXTENDS Integers

\* From worst to best; "skip": the check did not apply or could not run.
Severities == {"critical", "warning", "ok", "skip"}
RANK == [critical |-> 3, warning |-> 2, ok |-> 1, skip |-> 0]

worstSeverity(reports) ==
  CHOOSE s \in reports \cup {"skip"} : \A t \in reports : RANK[t] <= RANK[s]

Verdict(risk) == [fail |-> risk = "critical", risk |-> risk]

verdictToSeverity(verdict) ==
  IF verdict.fail THEN "critical" ELSE IF verdict.risk = "elevated" THEN "warning" ELSE "ok"
-----------------------------------------------------------------------------
\* What classifyMintSurface and its siblings look for in the bytecode.
Selectors ==
  {"mint", "owner", "pendingOwner", "hasRole", "getRoleAdmin", "grantRole", "masterMinter",
   "pause", "unpause", "pauser", "blacklist", "blacklister", "addBlackList"}

authModel(ownable, accessControl) ==
  CASE ownable /\ accessControl  -> "ownable+access-control"
    [] ~ownable /\ accessControl -> "access-control"
    [] ownable /\ ~accessControl -> "ownable"
    [] OTHER                     -> "none-detected"

RoleGated(surface) == surface.authModel \in {"access-control", "ownable+access-control"}
OwnerGated(surface) == surface.authModel \in {"ownable", "ownable+access-control"}

classifyMintSurface(found) ==
  [mintable        |-> "mint" \in found,
   hasMasterMinter |-> "masterMinter" \in found,
   authModel       |-> authModel(found \cap {"owner", "pendingOwner"} # {},
                                 found \cap {"hasRole", "getRoleAdmin", "grantRole"} # {})]

classifyPauseSurface(present) ==
  [pausable        |-> present \cap {"pause", "unpause"} # {},
   hasPauserGetter |-> "pauser" \in present,
   authModel       |-> authModel("owner" \in present, present \cap {"hasRole", "grantRole"} # {})]

classifyFreezeSurface(present) ==
  [canFreeze            |-> present \cap {"blacklist", "addBlackList"} # {},
   hasBlacklisterGetter |-> "blacklister" \in present]

\* Kinds of a role holder; roles that could not be listed are Unlisted.
Kinds    == {"renounced", "eoa", "contract"}
Unlisted == {"unlisted"}

\* The verdict on a single holder, the same for pauser, blacklister and owner.
HolderVerdict(kind) ==
  CASE kind = "eoa"       -> Verdict("critical")
    [] kind = "renounced" -> Verdict("info")
    [] OTHER              -> Verdict("elevated")

\* The verdict on the holders of a role.
RoleVerdict(holders) ==
  CASE "eoa" \in holders -> Verdict("critical")
    [] holders = {}      -> Verdict("info")
    [] OTHER             -> Verdict("elevated")

classifyMintAuthority(surface, ownerKind, minters, masterMinter) ==
  CASE ~surface.mintable /\ ~RoleGated(surface) /\ ~surface.hasMasterMinter -> Verdict("info")
    [] surface.hasMasterMinter ->
         IF masterMinter = "eoa" THEN Verdict("critical") ELSE Verdict("elevated")
    [] RoleGated(surface) /\ ~surface.hasMasterMinter -> RoleVerdict(minters)
    [] OTHER -> HolderVerdict(ownerKind)

classifyPauseGuardian(surface, guardianKind, pausers, pauser) ==
  CASE ~surface.pausable -> Verdict("info")
    [] surface.pausable /\ surface.hasPauserGetter -> HolderVerdict(pauser)
    [] surface.pausable /\ ~surface.hasPauserGetter /\ RoleGated(surface) -> RoleVerdict(pausers)
    [] OTHER -> HolderVerdict(guardianKind)

classifyFreezeAuthority(surface, authority) ==
  IF ~surface.canFreeze THEN Verdict("info") ELSE HolderVerdict(authority)
-----------------------------------------------------------------------------
(***************************************************************************)
(* An authority as the reads of checks/authority.ts give it: null, zero,   *)
(* a Safe with its threshold and number of owners, a timelock with its     *)
(* delay, an EOA or another contract.                                      *)
(***************************************************************************)
AuthorityKinds == {"null", "zero", "safe", "timelock", "eoa", "contract"}

classifyAuthority(input, minDelay) ==
  CASE input.kind = "safe" /\ input.threshold <= 1 -> Verdict("critical")
    [] input.kind = "safe" /\ input.threshold > 1 ->
         IF 2 * input.threshold < input.owners THEN Verdict("elevated") ELSE Verdict("info")
    [] input.kind = "timelock" ->
         IF input.delay <= 0 \/ input.delay < minDelay THEN Verdict("elevated") ELSE Verdict("info")
    [] input.kind = "eoa" -> Verdict("critical")
    [] input.kind = "contract" -> Verdict("elevated")
    [] OTHER -> Verdict("info")

\* Sourcify's match, whether it answered, and what Etherscan said.
classifyVerification(match, reachable, etherscan) ==
  CASE match # "null" \/ etherscan = "verified" -> Verdict("info")
    [] match = "null" /\ etherscan # "verified" /\ (reachable \/ etherscan = "unverified") ->
         [fail |-> TRUE, risk |-> "elevated"]
    [] OTHER -> Verdict("info")

\* The bugs of a solc version, as the bundled table lists them.
Bugs == [severity : {"high", "medium/high", "medium", "low/medium", "low", "very low"},
         conditional : BOOLEAN]
SERIOUS == {"high", "medium/high"}
MEDIUM  == {"medium", "low/medium"}

classifyCompilerBugs(bugs) ==
  CASE \E b \in bugs : b.severity \in SERIOUS /\ ~b.conditional -> Verdict("critical")
    [] /\ \E b \in bugs : b.severity \in SERIOUS \cup MEDIUM
       /\ ~ \E b \in bugs : b.severity \in SERIOUS /\ ~b.conditional -> Verdict("elevated")
    [] OTHER -> Verdict("info")
=============================================================================
