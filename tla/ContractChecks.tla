--------------------------- MODULE ContractChecks ---------------------------
(***************************************************************************)
(* The checks of checks/registry.ts: what each reads of a contract, and    *)
(* what severity it comes to when some of the reads fail.  A read that     *)
(* fails has used up its retries; inside a try/catch it gives null, and    *)
(* outside one it throws, which makes the check a skip (checks/run.ts).    *)
(* A contract is described by what there is to read of it and, for the     *)
(* properties, by which of its powers are really gated by whom.            *)
(***************************************************************************)
EXTENDS CheckCores

CONSTANT MinDelay     \* --min-delay, or its default of a day

ASSUME MinDelayAssumption == MinDelay \in Nat

\* Accounts: what the address of an owner, an admin or a role holder can be.
Accounts == [kind : AuthorityKinds, threshold : Nat, owners : Nat, delay : Nat]
Account(k) == [kind |-> k, threshold |-> 0, owners |-> 0, delay |-> 0]
Nobody == Account("null")                     \* a getter or slot that is not there

KindOf(a) ==
  CASE a.kind = "null" -> "null"
    [] a.kind = "zero" -> "renounced"
    [] a.kind = "eoa"  -> "eoa"
    [] OTHER           -> "contract"          \* addressKind looks at the code only

Gates == {"none", "owner", "role", "getter"}

Contract ==
  [deployed  : BOOLEAN,                       \* there is code at the address
   proxy     : {"none", "implementation", "beacon"},
   admin     : Accounts,                      \* EIP-1967 or legacy admin slot
   selectors : SUBSET Selectors,              \* of the code that calls end up in
   owner     : Accounts, masterMinter : Accounts, pauser : Accounts, blacklister : Accounts,
   minters   : SUBSET Kinds, pausers : SUBSET Kinds,
   bugs      : SUBSET Bugs,                   \* of the solc version of the code scanned
   sourcify  : {"exact_match", "match", "null"}, etherscan : BOOLEAN,
   mintGate  : Gates, pauseGate : Gates, freezeGate : Gates]

\* The reads that may fail.  "missed" is no error: the enumeration of a role
\* may leave a holder out (capped logs, or a role that changes meanwhile).
Reads ==
  {"slots", "implCode", "adminCode", "owner", "getter", "roles", "holderCode", "missed",
   "safe", "delay", "sourcify", "etherscan", "etherscanBody"}

CheckIds ==
  {"verification-status", "compiler-bugs", "upgradeability", "admin-power",
   "mint-authority", "pause-guardian", "freeze-authority"}
-----------------------------------------------------------------------------
\* Following the proxy to the code that is scanned.  A beacon is not
\* followed: the proxy's own code is scanned, and has no dispatcher.
Scanned(c) == IF c.proxy = "beacon" THEN {} ELSE c.selectors

Unscannable(c, failed) == "slots" \in failed \/ (c.proxy = "implementation" /\ "implCode" \in failed)

\* Mutant: a getter that cannot be read counts as renounced.
resolveRoleHolderOptimist(holder, failedRead) == IF failedRead THEN "renounced" ELSE KindOf(holder)

resolveRoleHolder(holder, failedRead) == IF failedRead THEN "null" ELSE KindOf(holder)

enumerateRoleHolders(holders, failed) ==
  CASE "roles" \in failed -> Unlisted
    [] "missed" \in failed /\ "roles" \notin failed -> holders \ {"eoa"}
    [] OTHER -> holders

\* The kind of each holder listed is read outside any try/catch.
HolderThrows(holders, failed) == "holderCode" \in failed /\ holders \notin {{}, Unlisted}

mintAuthorityCheck(c, failed) ==
  LET surface == classifyMintSurface(Scanned(c))
      owner   == IF OwnerGated(surface) THEN resolveRoleHolder(c.owner, "owner" \in failed) ELSE "null"
      minters == IF RoleGated(surface) THEN enumerateRoleHolders(c.minters, failed) ELSE Unlisted
      master  == IF surface.hasMasterMinter
                 THEN resolveRoleHolder(c.masterMinter, "getter" \in failed) ELSE "null"
  IN  IF Unscannable(c, failed) \/ HolderThrows(minters, failed) THEN "skip"
      ELSE verdictToSeverity(classifyMintAuthority(surface, owner, minters, master))

\* Mutant: the owner is taken for the pauser.
pauseGuardianCheckOwner(c, failed) ==
  LET surface == classifyPauseSurface(Scanned(c))
      owner   == resolveRoleHolder(c.owner, "owner" \in failed)
      pausers == IF RoleGated(surface) THEN enumerateRoleHolders(c.pausers, failed) ELSE Unlisted
  IN  IF Unscannable(c, failed) \/ HolderThrows(pausers, failed) THEN "skip"
      ELSE verdictToSeverity(classifyPauseGuardian(surface, owner, pausers, owner))

pauseGuardianCheck(c, failed) ==
  LET surface == classifyPauseSurface(Scanned(c))
      byRole  == ~surface.hasPauserGetter /\ RoleGated(surface)
      byOwner == ~surface.hasPauserGetter /\ surface.authModel = "ownable"
      pauser  == IF surface.hasPauserGetter
                 THEN resolveRoleHolder(c.pauser, "getter" \in failed) ELSE "null"
      pausers == IF byRole THEN enumerateRoleHolders(c.pausers, failed) ELSE Unlisted
      owner   == IF byOwner THEN resolveRoleHolder(c.owner, "owner" \in failed) ELSE "null"
  IN  IF Unscannable(c, failed) \/ HolderThrows(pausers, failed) THEN "skip"
      ELSE verdictToSeverity(classifyPauseGuardian(surface, owner, pausers, pauser))

freezeAuthorityCheck(c, failed) ==
  LET surface   == classifyFreezeSurface(Scanned(c))
      authority == IF surface.hasBlacklisterGetter
                   THEN resolveRoleHolder(c.blacklister, "getter" \in failed)
                   ELSE resolveRoleHolder(c.owner, "owner" \in failed)
  IN  IF Unscannable(c, failed) THEN "skip"
      ELSE verdictToSeverity(classifyFreezeAuthority(surface, authority))
-----------------------------------------------------------------------------
\* The admin slot, else owner(); a zero slot counts as none.
resolveAuthority(c, failed) ==
  CASE c.admin.kind \notin {"null", "zero"} -> c.admin
    [] c.admin.kind \in {"null", "zero"} /\ "owner" \in failed -> Nobody
    [] OTHER -> c.owner

\* probeSafe, then probeTimelock: what cannot be read is just a contract.
Probed(a, failed) ==
  IF (a.kind = "safe" /\ "safe" \in failed) \/ (a.kind = "timelock" /\ "delay" \in failed)
  THEN [a EXCEPT !.kind = "contract"] ELSE a

authorityCheck(c, failed) ==
  LET authority == resolveAuthority(c, failed)
      verdict   == classifyAuthority(Probed(authority, failed), MinDelay)
  IN  CASE \/ "slots" \in failed
           \/ authority.kind \notin {"null", "zero"} /\ "adminCode" \in failed -> "skip"
        [] /\ "slots" \notin failed
           /\ authority.kind = "null" -> "warning"      \* not assessed
        [] OTHER -> verdictToSeverity(verdict)

upgradeabilityCheck(c, failed) ==
  LET admin == IF c.admin.kind = "zero" THEN Nobody ELSE c.admin
  IN  CASE "slots" \in failed -> "skip"
        [] "slots" \notin failed /\ c.proxy = "none" -> "ok"
        [] "slots" \notin failed /\ c.proxy # "none" /\ admin = Nobody -> "warning"
        [] OTHER -> CASE "adminCode" \in failed -> "skip"
                      [] "adminCode" \notin failed /\ admin.kind = "eoa" -> "critical"
                      [] OTHER -> "ok"

compilerBugsCheck(c, failed) ==
  IF Unscannable(c, failed) THEN "skip" ELSE verdictToSeverity(classifyCompilerBugs(c.bugs))

\* Etherscan is asked, if there is a key, when Sourcify gave no match.  One that
\* answers with an error in the body counts as one that knows no source.
verificationCheck(c, failed, key) ==
  LET match == IF "sourcify" \in failed THEN "null" ELSE c.sourcify
      etherscan == CASE match # "null" \/ ~key -> "undefined"
                     [] match = "null" /\ key /\ "etherscan" \in failed -> "unreachable"
                     [] OTHER -> IF c.etherscan /\ "etherscanBody" \notin failed THEN "verified" ELSE "unverified"
  IN  verdictToSeverity(classifyVerification(match, "sourcify" \notin failed, etherscan))

Assess(id, c, failed, key) ==
  CASE id = "verification-status" -> verificationCheck(c, failed, key)
    [] id = "compiler-bugs"       -> compilerBugsCheck(c, failed)
    [] id = "upgradeability"      -> upgradeabilityCheck(c, failed)
    [] id = "admin-power"         -> authorityCheck(c, failed)
    [] id = "mint-authority"      -> mintAuthorityCheck(c, failed)
    [] id = "pause-guardian"      -> pauseGuardianCheck(c, failed)
    [] id = "freeze-authority"    -> freezeAuthorityCheck(c, failed)
=============================================================================
