------------------------ MODULE ContractAuditProofs ------------------------
(***************************************************************************)
(* Whatever the contracts, their thresholds and delays, and whichever      *)
(* reads fail: a power held by a single key is never reported ok, a        *)
(* critical report is real, and a finding fails the build.  The lemmas     *)
(* settle each check by check; the first invariant says that every report  *)
(* on file is what its check came to for some set of failed reads, the     *)
(* second what the overall verdict owes to the reports.                    *)
(***************************************************************************)
EXTENDS ContractAudit, TLAPS

\* What the mint scan sees of a contract that fits its presumptions.
LEMMA MintSurface ==
  ASSUME NEW c \in Contract, Presumed(c), c.proxy # "beacon", c.mintGate # "none",
         NEW s, s = classifyMintSurface(Scanned(c))
  PROVE  /\ s.mintable \/ s.hasMasterMinter
         /\ c.mintGate = "getter" <=> s.hasMasterMinter
         /\ c.mintGate = "role" => RoleGated(s)
         /\ c.mintGate = "owner" => OwnerGated(s) /\ ~RoleGated(s)
<1> DEFINE f == c.selectors
           ownable == f \cap {"owner", "pendingOwner"} # {}
           accessControl == f \cap {"hasRole", "getRoleAdmin", "grantRole"} # {}
<1>1. /\ s.mintable <=> "mint" \in f
      /\ s.hasMasterMinter <=> "masterMinter" \in f
      /\ s.authModel = authModel(ownable, accessControl)
  BY DEF Scanned, classifyMintSurface
<1>2. /\ RoleGated(s) <=> accessControl
      /\ OwnerGated(s) <=> ownable
  <2>. HIDE DEF ownable, accessControl
  <2> QED BY <1>1 DEF RoleGated, OwnerGated, authModel
<1>3. c.mintGate \in {"owner", "role", "getter"}
  BY DEF Contract, Gates
<1>4. Gated(c.mintGate, {"mint", "masterMinter"}, {"owner", "pendingOwner"},
           {"hasRole", "getRoleAdmin", "grantRole"}, "masterMinter", f)
  BY DEF Presumed
<1>5. CASE c.mintGate = "owner"
  BY <1>1, <1>2, <1>4, <1>5 DEF Gated
<1>6. CASE c.mintGate = "role"
  BY <1>1, <1>2, <1>4, <1>6 DEF Gated
<1>7. CASE c.mintGate = "getter"
  BY <1>1, <1>2, <1>4, <1>7 DEF Gated
<1> QED BY <1>3, <1>5, <1>6, <1>7

\* What the pause scan sees of such a contract.
LEMMA PauseSurface ==
  ASSUME NEW c \in Contract, Presumed(c), c.proxy # "beacon", c.pauseGate # "none",
         NEW s, s = classifyPauseSurface(Scanned(c))
  PROVE  /\ s.pausable
         /\ c.pauseGate = "getter" <=> s.hasPauserGetter
         /\ c.pauseGate = "role" => RoleGated(s)
         /\ c.pauseGate = "owner" => s.authModel = "ownable" /\ ~RoleGated(s)
<1> DEFINE f == c.selectors
           accessControl == f \cap {"hasRole", "grantRole"} # {}
<1>1. /\ s.pausable <=> f \cap {"pause", "unpause"} # {}
      /\ s.hasPauserGetter <=> "pauser" \in f
      /\ s.authModel = authModel("owner" \in f, accessControl)
  BY DEF Scanned, classifyPauseSurface
<1>2. /\ RoleGated(s) <=> accessControl
      /\ "owner" \in f /\ ~accessControl => s.authModel = "ownable"
  <2>. HIDE DEF accessControl
  <2> QED BY <1>1 DEF RoleGated, authModel
<1>3. c.pauseGate \in {"owner", "role", "getter"}
  BY DEF Contract, Gates
<1>4. Gated(c.pauseGate, {"pause", "unpause"}, {"owner"}, {"hasRole", "grantRole"}, "pauser", f)
  BY DEF Presumed
<1>5. CASE c.pauseGate = "owner"
  BY <1>1, <1>2, <1>4, <1>5 DEF Gated
<1>6. CASE c.pauseGate = "role"
  BY <1>1, <1>2, <1>4, <1>6 DEF Gated
<1>7. CASE c.pauseGate = "getter"
  BY <1>1, <1>2, <1>4, <1>7 DEF Gated
<1> QED BY <1>3, <1>5, <1>6, <1>7

\* What the freeze scan sees of such a contract.
LEMMA FreezeSurface ==
  ASSUME NEW c \in Contract, Presumed(c), c.proxy # "beacon", c.freezeGate # "none",
         NEW s, s = classifyFreezeSurface(Scanned(c))
  PROVE  /\ s.canFreeze
         /\ c.freezeGate = "getter" <=> s.hasBlacklisterGetter
         /\ c.freezeGate \in {"owner", "getter"}
<1>1. /\ s.canFreeze <=> c.selectors \cap {"blacklist", "addBlackList"} # {}
      /\ s.hasBlacklisterGetter <=> "blacklister" \in c.selectors
  BY DEF Scanned, classifyFreezeSurface
<1>2. c.freezeGate \in {"owner", "getter"}
  BY DEF Contract, Gates, Presumed
<1>3. Gated(c.freezeGate, {"blacklist", "addBlackList"}, Selectors, {}, "blacklister", c.selectors)
  BY DEF Presumed
<1> QED BY <1>1, <1>2, <1>3 DEF Gated

\* Neither a holder that cannot be read nor a single key passes.
LEMMA HolderNeverPasses ==
  ASSUME NEW kind \in {"eoa", "null"}
  PROVE  verdictToSeverity(HolderVerdict(kind)) # "ok"
BY DEF verdictToSeverity, HolderVerdict, Verdict

\* Nor does a role with a single key among its holders.
LEMMA RoleNeverPasses ==
  ASSUME NEW holders \in SUBSET Kinds, "eoa" \in holders, NEW failed, "missed" \notin failed
  PROVE  verdictToSeverity(RoleVerdict(enumerateRoleHolders(holders, failed))) # "ok"
BY DEF verdictToSeverity, RoleVerdict, enumerateRoleHolders, Verdict, Unlisted
-----------------------------------------------------------------------------
\* A minting key held by an EOA is critical, a warning or a skip.
LEMMA MintKeyNeverPasses ==
  ASSUME NEW c \in Contract, NEW failed \in SUBSET Reads, "missed" \notin failed,
         Presumed(c), c.proxy # "beacon", Finding("mint-authority", c)
  PROVE  mintAuthorityCheck(c, failed) # "ok"
<1> DEFINE s       == classifyMintSurface(Scanned(c))
           owner   == IF OwnerGated(s) THEN resolveRoleHolder(c.owner, "owner" \in failed) ELSE "null"
           minters == IF RoleGated(s) THEN enumerateRoleHolders(c.minters, failed) ELSE Unlisted
           master  == IF s.hasMasterMinter
                      THEN resolveRoleHolder(c.masterMinter, "getter" \in failed) ELSE "null"
<1>1. Held(c.mintGate, c, c.minters, c.masterMinter) /\ c.mintGate # "none"
  BY DEF Finding, Held
<1>2. /\ s.mintable \/ s.hasMasterMinter
      /\ c.mintGate = "getter" <=> s.hasMasterMinter
      /\ c.mintGate = "role" => RoleGated(s)
      /\ c.mintGate = "owner" => OwnerGated(s) /\ ~RoleGated(s)
  BY <1>1, MintSurface
<1>3. verdictToSeverity(classifyMintAuthority(s, owner, minters, master)) # "ok"
  <2>1. CASE c.mintGate = "getter"
    <3>1. master \in {"eoa", "null"}
      BY <1>1, <1>2, <2>1 DEF Held, resolveRoleHolder, KindOf
    <3> HIDE DEF s, owner, minters, master
    <3> QED BY <1>2, <2>1, <3>1 DEF classifyMintAuthority, verdictToSeverity, Verdict
  <2>2. CASE c.mintGate = "role"
    <3>1. c.minters \in SUBSET Kinds /\ "eoa" \in c.minters
      BY <1>1, <2>2 DEF Held, Contract
    <3>2. verdictToSeverity(RoleVerdict(minters)) # "ok"
      BY <1>2, <2>2, <3>1, RoleNeverPasses
    <3> HIDE DEF s, owner, minters, master
    <3> QED BY <1>2, <2>2, <3>2 DEF classifyMintAuthority
  <2>3. CASE c.mintGate = "owner"
    <3>1. owner \in {"eoa", "null"}
      BY <1>1, <1>2, <2>3 DEF Held, resolveRoleHolder, KindOf
    <3>2. verdictToSeverity(HolderVerdict(owner)) # "ok"
      BY <3>1, HolderNeverPasses
    <3> HIDE DEF s, owner, minters, master
    <3> QED BY <1>2, <2>3, <3>2 DEF classifyMintAuthority
  <2> QED BY <1>1, <2>1, <2>2, <2>3 DEF Held
<1>4. mintAuthorityCheck(c, failed) =
        IF Unscannable(c, failed) \/ HolderThrows(minters, failed) THEN "skip"
        ELSE verdictToSeverity(classifyMintAuthority(s, owner, minters, master))
  BY DEF mintAuthorityCheck
<1> QED BY <1>3, <1>4

\* The same of a pausing key.
LEMMA PauseKeyNeverPasses ==
  ASSUME NEW c \in Contract, NEW failed \in SUBSET Reads, "missed" \notin failed,
         Presumed(c), c.proxy # "beacon", Finding("pause-guardian", c)
  PROVE  pauseGuardianCheck(c, failed) # "ok"
<1> DEFINE s       == classifyPauseSurface(Scanned(c))
           byRole  == ~s.hasPauserGetter /\ RoleGated(s)
           byOwner == ~s.hasPauserGetter /\ s.authModel = "ownable"
           pauser  == IF s.hasPauserGetter
                      THEN resolveRoleHolder(c.pauser, "getter" \in failed) ELSE "null"
           pausers == IF byRole THEN enumerateRoleHolders(c.pausers, failed) ELSE Unlisted
           owner   == IF byOwner THEN resolveRoleHolder(c.owner, "owner" \in failed) ELSE "null"
<1>1. Held(c.pauseGate, c, c.pausers, c.pauser) /\ c.pauseGate # "none"
  BY DEF Finding, Held
<1>2. /\ s.pausable
      /\ c.pauseGate = "getter" <=> s.hasPauserGetter
      /\ c.pauseGate = "role" => RoleGated(s)
      /\ c.pauseGate = "owner" => s.authModel = "ownable" /\ ~RoleGated(s)
  BY <1>1, PauseSurface
<1>3. verdictToSeverity(classifyPauseGuardian(s, owner, pausers, pauser)) # "ok"
  <2>1. CASE c.pauseGate = "getter"
    <3>1. pauser \in {"eoa", "null"}
      BY <1>1, <1>2, <2>1 DEF Held, resolveRoleHolder, KindOf
    <3>2. verdictToSeverity(HolderVerdict(pauser)) # "ok"
      BY <3>1, HolderNeverPasses
    <3> HIDE DEF s, owner, pausers, pauser
    <3> QED BY <1>2, <2>1, <3>2 DEF classifyPauseGuardian
  <2>2. CASE c.pauseGate = "role"
    <3>1. c.pausers \in SUBSET Kinds /\ "eoa" \in c.pausers
      BY <1>1, <2>2 DEF Held, Contract
    <3>2. verdictToSeverity(RoleVerdict(pausers)) # "ok"
      BY <1>2, <2>2, <3>1, RoleNeverPasses
    <3> HIDE DEF s, owner, pausers, pauser
    <3> QED BY <1>2, <2>2, <3>2 DEF classifyPauseGuardian
  <2>3. CASE c.pauseGate = "owner"
    <3>1. owner \in {"eoa", "null"}
      BY <1>1, <1>2, <2>3 DEF Held, resolveRoleHolder, KindOf
    <3>2. verdictToSeverity(HolderVerdict(owner)) # "ok"
      BY <3>1, HolderNeverPasses
    <3> HIDE DEF s, owner, pausers, pauser
    <3> QED BY <1>2, <2>3, <3>2 DEF classifyPauseGuardian
  <2> QED BY <1>1, <2>1, <2>2, <2>3 DEF Held
<1>4. pauseGuardianCheck(c, failed) =
        IF Unscannable(c, failed) \/ HolderThrows(pausers, failed) THEN "skip"
        ELSE verdictToSeverity(classifyPauseGuardian(s, owner, pausers, pauser))
  BY DEF pauseGuardianCheck
<1> QED BY <1>3, <1>4

\* The same of a freezing key.
LEMMA FreezeKeyNeverPasses ==
  ASSUME NEW c \in Contract, NEW failed \in SUBSET Reads,
         Presumed(c), c.proxy # "beacon", Finding("freeze-authority", c)
  PROVE  freezeAuthorityCheck(c, failed) # "ok"
<1> DEFINE s         == classifyFreezeSurface(Scanned(c))
           authority == IF s.hasBlacklisterGetter
                        THEN resolveRoleHolder(c.blacklister, "getter" \in failed)
                        ELSE resolveRoleHolder(c.owner, "owner" \in failed)
<1>1. Held(c.freezeGate, c, {}, c.blacklister) /\ c.freezeGate # "none"
  BY DEF Finding, Held
<1>2. s.canFreeze /\ (c.freezeGate = "getter" <=> s.hasBlacklisterGetter) /\ c.freezeGate \in {"owner", "getter"}
  BY <1>1, FreezeSurface
<1>3. authority \in {"eoa", "null"}
  BY <1>1, <1>2 DEF Held, resolveRoleHolder, KindOf
<1>4. verdictToSeverity(HolderVerdict(authority)) # "ok"
  BY <1>3, HolderNeverPasses
<1>5. verdictToSeverity(classifyFreezeAuthority(s, authority)) # "ok"
  <2> HIDE DEF s, authority
  <2> QED BY <1>2, <1>4 DEF classifyFreezeAuthority
<1>6. freezeAuthorityCheck(c, failed) =
        IF Unscannable(c, failed) THEN "skip" ELSE verdictToSeverity(classifyFreezeAuthority(s, authority))
  BY DEF freezeAuthorityCheck
<1> QED BY <1>5, <1>6

\* A single key in control is critical, a warning or a skip.
LEMMA AdminKeyNeverPasses ==
  ASSUME NEW c \in Contract, NEW failed \in SUBSET Reads, Finding("admin-power", c)
  PROVE  authorityCheck(c, failed) # "ok"
<1> DEFINE a == IF c.admin.kind \in {"null", "zero"} THEN c.owner ELSE c.admin
<1>1. SingleKey(a) /\ a \in Accounts
  BY DEF Finding, Contract
<1>2. resolveAuthority(c, failed) \in {a, Nobody}
  BY DEF resolveAuthority
<1>3. verdictToSeverity(classifyAuthority(Probed(a, failed), MinDelay)) # "ok"
  <2> HIDE DEF a
  <2> DEFINE p == Probed(a, failed)
  <2>1. p.threshold \in Nat /\ (p.kind \in {"eoa", "contract"} \/ (p.kind = "safe" /\ p.threshold <= 1))
    BY <1>1 DEF SingleKey, Probed, Accounts
  <2> HIDE DEF p
  <2>2. classifyAuthority(p, MinDelay) \in {Verdict("critical"), Verdict("elevated")}
    BY <2>1 DEF classifyAuthority
  <2>3. \A r \in {"critical", "elevated"} : verdictToSeverity(Verdict(r)) # "ok"
    BY DEF verdictToSeverity, Verdict
  <2> QED BY <2>2, <2>3 DEF p
<1>4. a.kind \notin {"null", "zero"} /\ Nobody.kind = "null"
  BY <1>1 DEF SingleKey, Nobody, Account
<1> HIDE DEF a
<1> QED BY <1>2, <1>3, <1>4 DEF authorityCheck

\* An EOA that upgrades the proxy is critical or a skip.
LEMMA UpgradeKeyNeverPasses ==
  ASSUME NEW c \in Contract, NEW failed \in SUBSET Reads, Finding("upgradeability", c)
  PROVE  upgradeabilityCheck(c, failed) # "ok"
<1>1. c.proxy # "none" /\ c.admin.kind = "eoa" /\ Nobody.kind = "null"
  BY DEF Finding, Nobody, Account
<1> QED BY <1>1 DEF upgradeabilityCheck
-----------------------------------------------------------------------------
\* Who a critical verdict points at is there, and is a single key.
LEMMA HolderCriticalIsReal ==
  ASSUME NEW a, NEW failedRead,
         verdictToSeverity(HolderVerdict(resolveRoleHolder(a, failedRead))) = "critical"
  PROVE  a.kind = "eoa"
BY DEF verdictToSeverity, HolderVerdict, resolveRoleHolder, KindOf, Verdict

\* A role that is critical has a single key among its holders.
LEMMA RoleCriticalIsReal ==
  ASSUME NEW holders \in SUBSET Kinds, NEW failed,
         verdictToSeverity(RoleVerdict(enumerateRoleHolders(holders, failed))) = "critical"
  PROVE  "eoa" \in holders
BY DEF verdictToSeverity, RoleVerdict, enumerateRoleHolders, Verdict, Unlisted, Kinds

\* Only the critical verdict fails (verification-status aside).
LEMMA NotCritical ==
  ASSUME NEW risk \in {"info", "elevated"}
  PROVE  verdictToSeverity(Verdict(risk)) # "critical"
BY DEF verdictToSeverity, Verdict

\* A critical mint report names a key that really mints.
LEMMA MintCriticalIsReal ==
  ASSUME NEW c \in Contract, NEW failed \in SUBSET Reads, Presumed(c),
         mintAuthorityCheck(c, failed) = "critical"
  PROVE  Finding("mint-authority", c)
<1> DEFINE s       == classifyMintSurface(Scanned(c))
           owner   == IF OwnerGated(s) THEN resolveRoleHolder(c.owner, "owner" \in failed) ELSE "null"
           minters == IF RoleGated(s) THEN enumerateRoleHolders(c.minters, failed) ELSE Unlisted
           master  == IF s.hasMasterMinter
                      THEN resolveRoleHolder(c.masterMinter, "getter" \in failed) ELSE "null"
           f       == c.selectors
           accessControl == f \cap {"hasRole", "getRoleAdmin", "grantRole"} # {}
<1>1. verdictToSeverity(classifyMintAuthority(s, owner, minters, master)) = "critical"
  BY DEF mintAuthorityCheck
<1>2. /\ s.mintable <=> "mint" \in Scanned(c)
      /\ s.hasMasterMinter <=> "masterMinter" \in Scanned(c)
      /\ RoleGated(s) <=> Scanned(c) \cap {"hasRole", "getRoleAdmin", "grantRole"} # {}
  <2> DEFINE o == Scanned(c) \cap {"owner", "pendingOwner"} # {}
             r == Scanned(c) \cap {"hasRole", "getRoleAdmin", "grantRole"} # {}
  <2>1. s.authModel = authModel(o, r)
    BY DEF classifyMintSurface
  <2>2. RoleGated(s) <=> r
    <3> HIDE DEF o, r
    <3> QED BY <2>1 DEF RoleGated, authModel
  <2> QED BY <2>2 DEF classifyMintSurface
<1>3. s.mintable \/ s.hasMasterMinter \/ RoleGated(s)
  <2> HIDE DEF s, owner, minters, master
  <2> QED BY <1>1, NotCritical DEF classifyMintAuthority
<1>4. c.proxy # "beacon" /\ Scanned(c) = f
  BY <1>2, <1>3 DEF Scanned
<1>5. /\ c.mintGate \in Gates /\ (c.mintGate # "role" => c.minters = {}) /\ c.minters \in SUBSET Kinds
      /\ Gated(c.mintGate, {"mint", "masterMinter"}, {"owner", "pendingOwner"},
               {"hasRole", "getRoleAdmin", "grantRole"}, "masterMinter", f)
  BY DEF Contract, Presumed
<1>6. CASE s.hasMasterMinter
  <2>1. master = "eoa"
    <3> HIDE DEF s, owner, minters, master
    <3> QED BY <1>1, <1>6, NotCritical DEF classifyMintAuthority
  <2>2. c.masterMinter.kind = "eoa"
    BY <1>6, <2>1 DEF resolveRoleHolder, KindOf
  <2>3. c.mintGate = "getter"
    BY <1>2, <1>4, <1>5, <1>6 DEF Gated, Gates
  <2> QED BY <2>2, <2>3 DEF Finding, Held
<1>7. CASE ~s.hasMasterMinter /\ RoleGated(s)
  <2>1. verdictToSeverity(RoleVerdict(minters)) = "critical"
    <3> HIDE DEF s, owner, minters, master
    <3> QED BY <1>1, <1>7 DEF classifyMintAuthority
  <2>2. "eoa" \in c.minters
    BY <1>5, <1>7, <2>1, RoleCriticalIsReal
  <2> QED BY <1>5, <2>2 DEF Finding, Held
<1>8. CASE ~s.hasMasterMinter /\ ~RoleGated(s)
  <2>1. verdictToSeverity(HolderVerdict(owner)) = "critical" /\ s.mintable
    <3> HIDE DEF s, owner, minters, master
    <3> QED BY <1>1, <1>8, NotCritical DEF classifyMintAuthority
  <2>2. owner # "null"
    <3> HIDE DEF owner
    <3> QED BY <2>1 DEF verdictToSeverity, HolderVerdict, Verdict
  <2>3. c.owner.kind = "eoa"
    BY <2>1, <2>2, HolderCriticalIsReal
  <2>4. c.mintGate = "owner"
    BY <1>2, <1>4, <1>5, <1>8, <2>1 DEF Gated, Gates
  <2> QED BY <2>3, <2>4 DEF Finding, Held
<1> QED BY <1>6, <1>7, <1>8

\* A critical pause report names a key that really pauses.
LEMMA PauseCriticalIsReal ==
  ASSUME NEW c \in Contract, NEW failed \in SUBSET Reads, Presumed(c),
         pauseGuardianCheck(c, failed) = "critical"
  PROVE  Finding("pause-guardian", c)
<1> DEFINE s       == classifyPauseSurface(Scanned(c))
           byRole  == ~s.hasPauserGetter /\ RoleGated(s)
           byOwner == ~s.hasPauserGetter /\ s.authModel = "ownable"
           pauser  == IF s.hasPauserGetter
                      THEN resolveRoleHolder(c.pauser, "getter" \in failed) ELSE "null"
           pausers == IF byRole THEN enumerateRoleHolders(c.pausers, failed) ELSE Unlisted
           owner   == IF byOwner THEN resolveRoleHolder(c.owner, "owner" \in failed) ELSE "null"
           f       == c.selectors
<1>1. verdictToSeverity(classifyPauseGuardian(s, owner, pausers, pauser)) = "critical"
  BY DEF pauseGuardianCheck
<1>2. /\ s.pausable <=> Scanned(c) \cap {"pause", "unpause"} # {}
      /\ s.hasPauserGetter <=> "pauser" \in Scanned(c)
      /\ RoleGated(s) <=> Scanned(c) \cap {"hasRole", "grantRole"} # {}
  <2> DEFINE o == "owner" \in Scanned(c)
             r == Scanned(c) \cap {"hasRole", "grantRole"} # {}
  <2>1. s.authModel = authModel(o, r)
    BY DEF classifyPauseSurface
  <2>2. RoleGated(s) <=> r
    <3> HIDE DEF o, r
    <3> QED BY <2>1 DEF RoleGated, authModel
  <2> QED BY <2>2 DEF classifyPauseSurface
<1>3. s.pausable
  <2> HIDE DEF s, owner, pausers, pauser
  <2> QED BY <1>1, NotCritical DEF classifyPauseGuardian
<1>4. c.proxy # "beacon" /\ Scanned(c) = f
  BY <1>2, <1>3 DEF Scanned
<1>5. /\ c.pauseGate \in Gates /\ c.pausers \in SUBSET Kinds
      /\ Gated(c.pauseGate, {"pause", "unpause"}, {"owner"}, {"hasRole", "grantRole"}, "pauser", f)
  BY DEF Contract, Presumed
<1>6. CASE s.hasPauserGetter
  <2>1. verdictToSeverity(HolderVerdict(pauser)) = "critical"
    <3> HIDE DEF s, owner, pausers, pauser
    <3> QED BY <1>1, <1>3, <1>6 DEF classifyPauseGuardian
  <2>2. c.pauser.kind = "eoa"
    BY <1>6, <2>1, HolderCriticalIsReal
  <2>3. c.pauseGate = "getter"
    BY <1>2, <1>3, <1>4, <1>5, <1>6 DEF Gated, Gates
  <2> QED BY <2>2, <2>3 DEF Finding, Held
<1>7. CASE ~s.hasPauserGetter /\ RoleGated(s)
  <2>1. verdictToSeverity(RoleVerdict(pausers)) = "critical"
    <3> HIDE DEF s, owner, pausers, pauser
    <3> QED BY <1>1, <1>3, <1>7 DEF classifyPauseGuardian
  <2>2. "eoa" \in c.pausers
    BY <1>5, <1>7, <2>1, RoleCriticalIsReal
  <2>3. c.pauseGate = "role"
    BY <1>2, <1>3, <1>4, <1>5, <1>7 DEF Gated, Gates
  <2> QED BY <2>2, <2>3 DEF Finding, Held
<1>8. CASE ~s.hasPauserGetter /\ ~RoleGated(s)
  <2>1. verdictToSeverity(HolderVerdict(owner)) = "critical"
    <3> HIDE DEF s, owner, pausers, pauser
    <3> QED BY <1>1, <1>3, <1>8 DEF classifyPauseGuardian
  <2>2. owner # "null"
    <3> HIDE DEF owner
    <3> QED BY <2>1 DEF verdictToSeverity, HolderVerdict, Verdict
  <2>3. c.owner.kind = "eoa"
    BY <2>1, <2>2, HolderCriticalIsReal
  <2>4. c.pauseGate = "owner"
    BY <1>2, <1>3, <1>4, <1>5, <1>8 DEF Gated, Gates
  <2> QED BY <2>3, <2>4 DEF Finding, Held
<1> QED BY <1>6, <1>7, <1>8

\* A critical freeze report names a key that really freezes.
LEMMA FreezeCriticalIsReal ==
  ASSUME NEW c \in Contract, NEW failed \in SUBSET Reads, Presumed(c),
         freezeAuthorityCheck(c, failed) = "critical"
  PROVE  Finding("freeze-authority", c)
<1> DEFINE s         == classifyFreezeSurface(Scanned(c))
           authority == IF s.hasBlacklisterGetter
                        THEN resolveRoleHolder(c.blacklister, "getter" \in failed)
                        ELSE resolveRoleHolder(c.owner, "owner" \in failed)
<1>1. verdictToSeverity(classifyFreezeAuthority(s, authority)) = "critical"
  BY DEF freezeAuthorityCheck
<1>2. /\ s.canFreeze <=> Scanned(c) \cap {"blacklist", "addBlackList"} # {}
      /\ s.hasBlacklisterGetter <=> "blacklister" \in Scanned(c)
  BY DEF classifyFreezeSurface
<1>3. s.canFreeze /\ verdictToSeverity(HolderVerdict(authority)) = "critical"
  <2> HIDE DEF s, authority
  <2> QED BY <1>1, NotCritical DEF classifyFreezeAuthority
<1>4. c.proxy # "beacon" /\ Scanned(c) = c.selectors
  BY <1>2, <1>3 DEF Scanned
<1>5. /\ c.freezeGate \in Gates /\ c.freezeGate # "role"
      /\ Gated(c.freezeGate, {"blacklist", "addBlackList"}, Selectors, {}, "blacklister", c.selectors)
  BY DEF Contract, Presumed
<1>6. CASE s.hasBlacklisterGetter
  <2>1. c.blacklister.kind = "eoa"
    BY <1>3, <1>6, HolderCriticalIsReal
  <2>2. c.freezeGate = "getter"
    BY <1>2, <1>3, <1>4, <1>5, <1>6 DEF Gated, Gates
  <2> QED BY <2>1, <2>2 DEF Finding, Held
<1>7. CASE ~s.hasBlacklisterGetter
  <2>1. c.owner.kind = "eoa"
    BY <1>3, <1>7, HolderCriticalIsReal
  <2>2. c.freezeGate = "owner"
    BY <1>2, <1>3, <1>4, <1>5, <1>7 DEF Gated, Gates
  <2> QED BY <2>1, <2>2 DEF Finding, Held
<1> QED BY <1>6, <1>7

\* A critical admin report names a single key really in control.
LEMMA AdminCriticalIsReal ==
  ASSUME NEW c \in Contract, NEW failed \in SUBSET Reads, authorityCheck(c, failed) = "critical"
  PROVE  Finding("admin-power", c)
<1> DEFINE a == IF c.admin.kind \in {"null", "zero"} THEN c.owner ELSE c.admin
           r == resolveAuthority(c, failed)
           p == Probed(r, failed)
<1>1. verdictToSeverity(classifyAuthority(p, MinDelay)) = "critical" /\ r.kind # "null"
  BY DEF authorityCheck
<1>2. r = a
  BY <1>1 DEF resolveAuthority, Nobody, Account
<1>3. a \in Accounts
  BY DEF Contract
<1>4. p.kind = "eoa" \/ (p.kind = "safe" /\ p.threshold <= 1)
  <2> HIDE DEF p
  <2> QED BY <1>1, NotCritical DEF classifyAuthority
<1>5. p = a
  <2> HIDE DEF a, r
  <2> QED BY <1>2, <1>3, <1>4 DEF Probed, Accounts
<1> QED BY <1>4, <1>5 DEF Finding, SingleKey

\* A critical upgrade report names the EOA that upgrades.
LEMMA UpgradeCriticalIsReal ==
  ASSUME NEW c \in Contract, NEW failed \in SUBSET Reads, upgradeabilityCheck(c, failed) = "critical"
  PROVE  Finding("upgradeability", c)
<1>1. c.proxy # "none" /\ c.admin.kind # "zero" => c.admin.kind = "eoa"
  BY DEF upgradeabilityCheck
<1>2. c.proxy # "none" /\ c.admin.kind # "zero"
  BY DEF upgradeabilityCheck
<1> QED BY <1>1, <1>2 DEF Finding

\* A critical compiler report rests on a serious unconditional bug.
LEMMA CompilerCriticalIsReal ==
  ASSUME NEW c \in Contract, NEW failed \in SUBSET Reads, compilerBugsCheck(c, failed) = "critical"
  PROVE  Finding("compiler-bugs", c)
<1>1. verdictToSeverity(classifyCompilerBugs(c.bugs)) = "critical"
  BY DEF compilerBugsCheck
<1>2. \E b \in c.bugs : b.severity \in SERIOUS /\ ~b.conditional
  BY <1>1, NotCritical DEF classifyCompilerBugs
<1> QED BY <1>2 DEF Finding

\* With both providers answering, unverified means unpublished.
LEMMA UnverifiedIsReal ==
  ASSUME NEW c \in Contract, verificationCheck(c, {}, TRUE) = "critical"
  PROVE  Finding("verification-status", c)
<1>1. ~(c.sourcify # "null" \/ c.etherscan)
  BY NotCritical DEF verificationCheck, classifyVerification
<1> QED BY <1>1 DEF Finding
-----------------------------------------------------------------------------
\* The invariant: every report on file is what its check made of the contract.
OnFile ==
  /\ targets \in Seq(Contract) /\ key \in BOOLEAN
  /\ DOMAIN reports = Targets /\ DOMAIN unread = Targets /\ DOMAIN missed = Targets
  /\ \A t \in Targets : \A id \in DOMAIN reports[t] :
       /\ id \in CheckIds
       /\ \E failed \in SUBSET Reads :
            /\ reports[t][id] = Assess(id, targets[t], failed, key)
            /\ "missed" \in failed => id \in missed[t]
            /\ failed # {} => id \in unread[t]

\* No step puts a report on file that its check did not make.
LEMMA OnFileInductive == Spec => []OnFile
<1>1. Init => OnFile
  BY AuditAssumption DEF Init, OnFile, Targets, NoReports
<1>2. OnFile /\ [Next]_vars => OnFile'
  <2> SUFFICES ASSUME OnFile, [Next]_vars PROVE OnFile'
    OBVIOUS
  <2>1. ASSUME NEW t \in Targets, NEW failed \in Faults, ChecksSettle(t, failed) PROVE OnFile'
    <3>1. failed \in [CheckIds -> SUBSET Reads]
      BY AuditAssumption
    <3>2. /\ UNCHANGED <<targets, key>>
          /\ reports' = [reports EXCEPT ![t] = [id \in CheckIds |-> Assess(id, targets[t], failed[id], key)]]
          /\ unread' = [unread EXCEPT ![t] = {id \in CheckIds : failed[id] # {}}]
          /\ missed' = [missed EXCEPT ![t] = {id \in CheckIds : "missed" \in failed[id]}]
      BY <2>1 DEF ChecksSettle, inputs
    <3>3. ASSUME NEW u \in Targets, NEW id \in DOMAIN reports'[u]
          PROVE  /\ id \in CheckIds
                 /\ \E none \in SUBSET Reads :
                      /\ reports'[u][id] = Assess(id, targets[u], none, key)
                      /\ "missed" \in none => id \in missed'[u]
                      /\ none # {} => id \in unread'[u]
      <4>1. CASE u = t
        BY <3>1, <3>2, <3>3, <4>1 DEF OnFile
      <4>2. CASE u # t
        BY <3>2, <3>3, <4>2 DEF OnFile
      <4> QED BY <4>1, <4>2
    <3> QED BY <3>2, <3>3 DEF OnFile, Targets
  <2>2. ASSUME UNCHANGED <<targets, key, reports, unread, missed>> PROVE OnFile'
    BY <2>2 DEF OnFile, Targets
  <2>3. ASSUME NEW v \in DOMAIN solvencyToReport, SolvencyResolves(v) PROVE OnFile'
    BY <2>2, <2>3 DEF SolvencyResolves, inputs
  <2>4. ASSUME NEW t \in Targets, ReadCode(t) \/ ReadCodeFails(t) PROVE OnFile'
    BY <2>2, <2>4 DEF ReadCode, ReadCodeFails, inputs
  <2>5. CASE Report
    BY <2>2, <2>5 DEF Report, inputs
  <2>6. CASE UNCHANGED vars
    BY <2>2, <2>6 DEF vars, inputs
  <2> QED BY <2>1, <2>3, <2>4, <2>5, <2>6 DEF Next
<1> QED BY <1>1, <1>2, PTL DEF Spec

(***************************************************************************)
(* SingleKeyNeverPasses for every plan of contracts and every fault.       *)
(***************************************************************************)
THEOREM SingleKeysNeverPass == Spec => []SingleKeyNeverPasses
<1>1. OnFile => SingleKeyNeverPasses
  <2> SUFFICES ASSUME OnFile, NEW t \in Targets, NEW id \in KeyChecks \cap DOMAIN reports[t],
                      Finding(id, targets[t]), Presumed(targets[t]),
                      ~(id \in ByScan /\ targets[t].proxy = "beacon"), id \notin missed[t]
               PROVE  reports[t][id] # "ok"
    BY DEF SingleKeyNeverPasses
  <2> DEFINE c == targets[t]
  <2>1. c \in Contract
    BY DEF OnFile, Targets
  <2>2. PICK failed \in SUBSET Reads :
          reports[t][id] = Assess(id, c, failed, key) /\ "missed" \notin failed
    BY DEF OnFile
  <2> HIDE DEF c
  <2>3. CASE id = "upgradeability"
    BY <2>1, <2>2, <2>3, UpgradeKeyNeverPasses DEF Assess, c
  <2>4. CASE id = "admin-power"
    BY <2>1, <2>2, <2>4, AdminKeyNeverPasses DEF Assess, c
  <2>5. CASE id = "mint-authority"
    BY <2>1, <2>2, <2>5, MintKeyNeverPasses DEF Assess, ByScan, c
  <2>6. CASE id = "pause-guardian"
    BY <2>1, <2>2, <2>6, PauseKeyNeverPasses DEF Assess, ByScan, c
  <2>7. CASE id = "freeze-authority"
    BY <2>1, <2>2, <2>7, FreezeKeyNeverPasses DEF Assess, ByScan, c
  <2> QED BY <2>3, <2>4, <2>5, <2>6, <2>7 DEF KeyChecks, ByScan
<1> QED BY <1>1, OnFileInductive, PTL

(***************************************************************************)
(* CriticalIsReal for every plan of contracts and every fault.             *)
(***************************************************************************)
THEOREM CriticalsAreReal == Spec => []CriticalIsReal
<1>1. OnFile => CriticalIsReal
  <2> SUFFICES ASSUME OnFile, NEW t \in Targets, NEW id \in DOMAIN reports[t],
                      reports[t][id] = "critical", Presumed(targets[t]),
                      id = "verification-status" => key /\ id \notin unread[t]
               PROVE  Finding(id, targets[t])
    BY DEF CriticalIsReal
  <2> DEFINE c == targets[t]
  <2>1. c \in Contract /\ id \in CheckIds
    BY DEF OnFile, Targets
  <2>2. PICK failed \in SUBSET Reads :
          /\ reports[t][id] = Assess(id, c, failed, key)
          /\ id = "verification-status" => failed = {} /\ key = TRUE
    BY DEF OnFile
  <2> HIDE DEF c
  <2>3. CASE id = "verification-status"
    BY <2>1, <2>2, <2>3, UnverifiedIsReal DEF Assess, c
  <2>4. CASE id = "compiler-bugs"
    BY <2>1, <2>2, <2>4, CompilerCriticalIsReal DEF Assess, c
  <2>5. CASE id = "upgradeability"
    BY <2>1, <2>2, <2>5, UpgradeCriticalIsReal DEF Assess, c
  <2>6. CASE id = "admin-power"
    BY <2>1, <2>2, <2>6, AdminCriticalIsReal DEF Assess, c
  <2>7. CASE id = "mint-authority"
    BY <2>1, <2>2, <2>7, MintCriticalIsReal DEF Assess, c
  <2>8. CASE id = "pause-guardian"
    BY <2>1, <2>2, <2>8, PauseCriticalIsReal DEF Assess, c
  <2>9. CASE id = "freeze-authority"
    BY <2>1, <2>2, <2>9, FreezeCriticalIsReal DEF Assess, c
  <2> QED BY <2>1, <2>3, <2>4, <2>5, <2>6, <2>7, <2>8, <2>9 DEF CheckIds
<1> QED BY <1>1, OnFileInductive, PTL
-----------------------------------------------------------------------------
\* With every read answered, a single key is found: the reverse of the above.
LEMMA HolderFound ==
  ASSUME NEW a, a.kind = "eoa", NEW failedRead, ~failedRead
  PROVE  verdictToSeverity(HolderVerdict(resolveRoleHolder(a, failedRead))) = "critical"
BY DEF verdictToSeverity, HolderVerdict, resolveRoleHolder, KindOf, Verdict

\* A role that lists in full lists its single key.
LEMMA RoleFound ==
  ASSUME NEW holders \in SUBSET Kinds, "eoa" \in holders
  PROVE  /\ verdictToSeverity(RoleVerdict(enumerateRoleHolders(holders, {}))) = "critical"
         /\ ~HolderThrows(enumerateRoleHolders(holders, {}), {})
BY DEF verdictToSeverity, RoleVerdict, enumerateRoleHolders, Verdict, HolderThrows

\* A minting key whose reads all answer is critical.
LEMMA MintKeyFound ==
  ASSUME NEW c \in Contract, Presumed(c), c.proxy # "beacon", Finding("mint-authority", c)
  PROVE  mintAuthorityCheck(c, {}) = "critical"
<1> DEFINE s       == classifyMintSurface(Scanned(c))
           owner   == IF OwnerGated(s) THEN resolveRoleHolder(c.owner, "owner" \in {}) ELSE "null"
           minters == IF RoleGated(s) THEN enumerateRoleHolders(c.minters, {}) ELSE Unlisted
           master  == IF s.hasMasterMinter THEN resolveRoleHolder(c.masterMinter, "getter" \in {}) ELSE "null"
<1>1. Held(c.mintGate, c, c.minters, c.masterMinter) /\ c.mintGate # "none"
  BY DEF Finding, Held
<1>2. /\ s.mintable \/ s.hasMasterMinter
      /\ c.mintGate = "getter" <=> s.hasMasterMinter
      /\ c.mintGate = "role" => RoleGated(s)
      /\ c.mintGate = "owner" => OwnerGated(s) /\ ~RoleGated(s)
  BY <1>1, MintSurface
<1>3. verdictToSeverity(classifyMintAuthority(s, owner, minters, master)) = "critical"
  <2>1. CASE c.mintGate = "getter"
    <3>1. master = "eoa"
      BY <1>1, <1>2, <2>1 DEF Held, resolveRoleHolder, KindOf
    <3> HIDE DEF s, owner, minters, master
    <3> QED BY <1>2, <2>1, <3>1 DEF classifyMintAuthority, verdictToSeverity, Verdict
  <2>2. CASE c.mintGate = "role"
    <3>1. verdictToSeverity(RoleVerdict(minters)) = "critical"
      BY <1>1, <1>2, <2>2, RoleFound DEF Held, Contract
    <3> HIDE DEF s, owner, minters, master
    <3> QED BY <1>2, <2>2, <3>1 DEF classifyMintAuthority
  <2>3. CASE c.mintGate = "owner"
    <3>1. verdictToSeverity(HolderVerdict(owner)) = "critical"
      BY <1>1, <1>2, <2>3, HolderFound DEF Held
    <3> HIDE DEF s, owner, minters, master
    <3> QED BY <1>2, <2>3, <3>1 DEF classifyMintAuthority
  <2> QED BY <1>1, <2>1, <2>2, <2>3 DEF Held
<1>4. ~Unscannable(c, {}) /\ ~HolderThrows(minters, {})
  BY DEF Unscannable, HolderThrows
<1>5. mintAuthorityCheck(c, {}) =
        IF Unscannable(c, {}) \/ HolderThrows(minters, {}) THEN "skip"
        ELSE verdictToSeverity(classifyMintAuthority(s, owner, minters, master))
  BY DEF mintAuthorityCheck
<1> QED BY <1>3, <1>4, <1>5

\* A pausing key whose reads all answer is critical.
LEMMA PauseKeyFound ==
  ASSUME NEW c \in Contract, Presumed(c), c.proxy # "beacon", Finding("pause-guardian", c)
  PROVE  pauseGuardianCheck(c, {}) = "critical"
<1> DEFINE s       == classifyPauseSurface(Scanned(c))
           byRole  == ~s.hasPauserGetter /\ RoleGated(s)
           byOwner == ~s.hasPauserGetter /\ s.authModel = "ownable"
           pauser  == IF s.hasPauserGetter THEN resolveRoleHolder(c.pauser, "getter" \in {}) ELSE "null"
           pausers == IF byRole THEN enumerateRoleHolders(c.pausers, {}) ELSE Unlisted
           owner   == IF byOwner THEN resolveRoleHolder(c.owner, "owner" \in {}) ELSE "null"
<1>1. Held(c.pauseGate, c, c.pausers, c.pauser) /\ c.pauseGate # "none"
  BY DEF Finding, Held
<1>2. /\ s.pausable
      /\ c.pauseGate = "getter" <=> s.hasPauserGetter
      /\ c.pauseGate = "role" => RoleGated(s)
      /\ c.pauseGate = "owner" => s.authModel = "ownable" /\ ~RoleGated(s)
  BY <1>1, PauseSurface
<1>3. verdictToSeverity(classifyPauseGuardian(s, owner, pausers, pauser)) = "critical"
  <2>1. CASE c.pauseGate = "getter"
    <3>1. verdictToSeverity(HolderVerdict(pauser)) = "critical"
      BY <1>1, <1>2, <2>1, HolderFound DEF Held
    <3> HIDE DEF s, owner, pausers, pauser
    <3> QED BY <1>2, <2>1, <3>1 DEF classifyPauseGuardian
  <2>2. CASE c.pauseGate = "role"
    <3>1. verdictToSeverity(RoleVerdict(pausers)) = "critical"
      BY <1>1, <1>2, <2>2, RoleFound DEF Held, Contract
    <3> HIDE DEF s, owner, pausers, pauser
    <3> QED BY <1>2, <2>2, <3>1 DEF classifyPauseGuardian
  <2>3. CASE c.pauseGate = "owner"
    <3>1. verdictToSeverity(HolderVerdict(owner)) = "critical"
      BY <1>1, <1>2, <2>3, HolderFound DEF Held
    <3> HIDE DEF s, owner, pausers, pauser
    <3> QED BY <1>2, <2>3, <3>1 DEF classifyPauseGuardian
  <2> QED BY <1>1, <2>1, <2>2, <2>3 DEF Held
<1>4. ~Unscannable(c, {}) /\ ~HolderThrows(pausers, {})
  BY DEF Unscannable, HolderThrows
<1>5. pauseGuardianCheck(c, {}) =
        IF Unscannable(c, {}) \/ HolderThrows(pausers, {}) THEN "skip"
        ELSE verdictToSeverity(classifyPauseGuardian(s, owner, pausers, pauser))
  BY DEF pauseGuardianCheck
<1> QED BY <1>3, <1>4, <1>5

\* A freezing key whose reads all answer is critical.
LEMMA FreezeKeyFound ==
  ASSUME NEW c \in Contract, Presumed(c), c.proxy # "beacon", Finding("freeze-authority", c)
  PROVE  freezeAuthorityCheck(c, {}) = "critical"
<1> DEFINE s         == classifyFreezeSurface(Scanned(c))
           authority == IF s.hasBlacklisterGetter
                        THEN resolveRoleHolder(c.blacklister, "getter" \in {})
                        ELSE resolveRoleHolder(c.owner, "owner" \in {})
<1>1. Held(c.freezeGate, c, {}, c.blacklister) /\ c.freezeGate # "none"
  BY DEF Finding, Held
<1>2. s.canFreeze /\ (c.freezeGate = "getter" <=> s.hasBlacklisterGetter) /\ c.freezeGate \in {"owner", "getter"}
  BY <1>1, FreezeSurface
<1>3. verdictToSeverity(HolderVerdict(authority)) = "critical"
  BY <1>1, <1>2, HolderFound DEF Held
<1>4. verdictToSeverity(classifyFreezeAuthority(s, authority)) = "critical"
  <2> HIDE DEF s, authority
  <2> QED BY <1>2, <1>3 DEF classifyFreezeAuthority
<1>5. ~Unscannable(c, {})
  BY DEF Unscannable
<1>6. freezeAuthorityCheck(c, {}) =
        IF Unscannable(c, {}) THEN "skip" ELSE verdictToSeverity(classifyFreezeAuthority(s, authority))
  BY DEF freezeAuthorityCheck
<1> QED BY <1>4, <1>5, <1>6

\* A single key in control whose reads all answer is critical.
LEMMA AdminKeyFound ==
  ASSUME NEW c \in Contract, Finding("admin-power", c)
  PROVE  authorityCheck(c, {}) = "critical"
<1> DEFINE a == IF c.admin.kind \in {"null", "zero"} THEN c.owner ELSE c.admin
<1>1. SingleKey(a) /\ a \in Accounts
  BY DEF Finding, Contract
<1>2. resolveAuthority(c, {}) = a
  BY DEF resolveAuthority
<1> HIDE DEF a
<1>3. Probed(a, {}) = a
  BY DEF Probed
<1>4. classifyAuthority(a, MinDelay) = Verdict("critical")
  BY <1>1 DEF classifyAuthority, SingleKey, Accounts
<1>5. verdictToSeverity(Verdict("critical")) = "critical"
  BY DEF verdictToSeverity, Verdict
<1>6. a.kind \notin {"null", "zero"}
  BY <1>1 DEF SingleKey
<1> QED BY <1>2, <1>3, <1>4, <1>5, <1>6 DEF authorityCheck

\* An EOA that upgrades, a serious bug, a contract no provider has: the rest.
LEMMA OtherFindingsFound ==
  ASSUME NEW c \in Contract, NEW k \in BOOLEAN
  PROVE  /\ Finding("upgradeability", c) => upgradeabilityCheck(c, {}) = "critical"
         /\ Finding("compiler-bugs", c) => compilerBugsCheck(c, {}) = "critical"
         /\ Finding("verification-status", c) => verificationCheck(c, {}, k) = "critical"
<1>1. ASSUME Finding("upgradeability", c) PROVE upgradeabilityCheck(c, {}) = "critical"
  <2>1. c.proxy # "none" /\ c.admin.kind = "eoa" /\ Nobody.kind = "null"
    BY <1>1 DEF Finding, Nobody, Account
  <2> QED BY <2>1 DEF upgradeabilityCheck
<1>2. ASSUME Finding("compiler-bugs", c) PROVE compilerBugsCheck(c, {}) = "critical"
  <2>1. classifyCompilerBugs(c.bugs) = Verdict("critical")
    BY <1>2 DEF Finding, classifyCompilerBugs
  <2>2. ~Unscannable(c, {})
    BY DEF Unscannable
  <2>3. verdictToSeverity(Verdict("critical")) = "critical"
    BY DEF verdictToSeverity, Verdict
  <2> QED BY <2>1, <2>2, <2>3 DEF compilerBugsCheck
<1>3. ASSUME Finding("verification-status", c) PROVE verificationCheck(c, {}, k) = "critical"
  <2> DEFINE etherscan == IF k THEN "unverified" ELSE "undefined"
  <2>1. c.sourcify = "null" /\ ~c.etherscan
    BY <1>3 DEF Finding
  <2>2. verificationCheck(c, {}, k) = verdictToSeverity(classifyVerification("null", TRUE, etherscan))
    BY <2>1 DEF verificationCheck
  <2>3. etherscan # "verified"
    OBVIOUS
  <2> HIDE DEF etherscan
  <2>4. classifyVerification("null", TRUE, etherscan) = [fail |-> TRUE, risk |-> "elevated"]
    BY <2>3 DEF classifyVerification
  <2>5. verdictToSeverity([fail |-> TRUE, risk |-> "elevated"]) = "critical"
    BY DEF verdictToSeverity
  <2> QED BY <2>2, <2>4, <2>5
<1> QED BY <1>1, <1>2, <1>3

\* Each check finds what it is there to find, when all it reads answers.
LEMMA FindingIsCritical ==
  ASSUME NEW id \in CheckIds, NEW c \in Contract, NEW k \in BOOLEAN,
         Finding(id, c), Presumed(c), ~(id \in ByScan /\ c.proxy = "beacon")
  PROVE  Assess(id, c, {}, k) = "critical"
<1>1. CASE id = "verification-status"
  BY <1>1, OtherFindingsFound DEF Assess
<1>2. CASE id = "compiler-bugs"
  BY <1>2, OtherFindingsFound DEF Assess
<1>3. CASE id = "upgradeability"
  BY <1>3, OtherFindingsFound DEF Assess
<1>4. CASE id = "admin-power"
  BY <1>4, AdminKeyFound DEF Assess
<1>5. CASE id = "mint-authority"
  BY <1>5, MintKeyFound DEF Assess, ByScan
<1>6. CASE id = "pause-guardian"
  BY <1>6, PauseKeyFound DEF Assess, ByScan
<1>7. CASE id = "freeze-authority"
  BY <1>7, FreezeKeyFound DEF Assess, ByScan
<1> QED BY <1>1, <1>2, <1>3, <1>4, <1>5, <1>6, <1>7 DEF CheckIds

\* A check comes to one of the four severities, whatever fails.
LEMMA AssessIsSeverity ==
  ASSUME NEW id \in CheckIds, NEW c, NEW failed, NEW k
  PROVE  Assess(id, c, failed, k) \in Severities
<1>1. \A verdict : verdictToSeverity(verdict) \in Severities
  BY DEF verdictToSeverity, Severities
<1>2. /\ verificationCheck(c, failed, k) \in Severities
      /\ compilerBugsCheck(c, failed) \in Severities
  BY <1>1 DEF verificationCheck, compilerBugsCheck, Severities
<1>3. upgradeabilityCheck(c, failed) \in Severities
  BY DEF upgradeabilityCheck, Severities
<1>4. authorityCheck(c, failed) \in Severities
  BY <1>1 DEF authorityCheck, Severities
<1>5. /\ mintAuthorityCheck(c, failed) \in Severities
      /\ pauseGuardianCheck(c, failed) \in Severities
      /\ freezeAuthorityCheck(c, failed) \in Severities
  BY <1>1 DEF mintAuthorityCheck, pauseGuardianCheck, freezeAuthorityCheck, Severities
<1> QED BY <1>2, <1>3, <1>4, <1>5 DEF Assess, CheckIds

\* One critical report makes the whole critical, however many others there are.
LEMMA CriticalIsWorst ==
  ASSUME NEW R \in SUBSET Severities, "critical" \in R
  PROVE  worstSeverity(R) = "critical"
<1> DEFINE Worst(s) == s \in R \cup {"skip"} /\ \A t \in R : RANK[t] <= RANK[s]
           w == worstSeverity(R)
<1>1. Worst("critical")
  BY DEF Severities, RANK
<1>2. Worst(w)
  BY <1>1 DEF worstSeverity
<1>3. RANK["critical"] <= RANK[w] /\ w \in Severities
  BY <1>2 DEF Severities
<1> HIDE DEF w
<1>4. w = "critical"
  BY <1>3 DEF Severities, RANK
<1> QED BY <1>4 DEF w
-----------------------------------------------------------------------------
\* The invariant of the verdict: what the reports and the solvency check may
\* say, and that a critical report, once the command is done, has decided it.
VerdictInv ==
  /\ failOn \in Severities
  /\ solvency \in Severities \cup {"none", "pending"}
  /\ \A t \in Targets : \A id \in DOMAIN reports[t] : reports[t][id] \in Severities
  /\ result \notin {"none", "error"} =>
       \A t \in Targets : \A id \in DOMAIN reports[t] :
         reports[t][id] = "critical" => result = "critical" /\ (exit = 1 \/ audit_contract)

\* No step takes back what a critical report decided.
LEMMA VerdictInvHolds == Spec => []VerdictInv
<1>1. Init => VerdictInv
  BY DEF Init, VerdictInv, Targets, NoReports
<1>2. OnFile /\ VerdictInv /\ [Next]_vars => VerdictInv'
  <2> SUFFICES ASSUME OnFile, VerdictInv, [Next]_vars PROVE VerdictInv'
    OBVIOUS
  <2>1. ASSUME NEW v \in DOMAIN solvencyToReport, SolvencyResolves(v) PROVE VerdictInv'
    <3>1. solvency' \in Severities
      BY <2>1 DEF SolvencyResolves, solvencyToReport, Severities
    <3> QED BY <2>1, <3>1 DEF SolvencyResolves, VerdictInv, inputs, Targets, audit_contract
  <2>2. ASSUME NEW t \in Targets, NEW failed \in Faults, ChecksSettle(t, failed) PROVE VerdictInv'
    <3>1. /\ UNCHANGED <<inputs, solvency, result>>
          /\ result = "none"
          /\ reports' = [reports EXCEPT ![t] = [id \in CheckIds |-> Assess(id, targets[t], failed[id], key)]]
      BY <2>2 DEF ChecksSettle
    <3>2. ASSUME NEW u \in Targets, NEW id \in DOMAIN reports'[u] PROVE reports'[u][id] \in Severities
      <4>1. CASE u = t
        BY <3>1, <3>2, <4>1, AssessIsSeverity DEF OnFile
      <4>2. CASE u # t
        BY <3>1, <3>2, <4>2 DEF OnFile, VerdictInv
      <4> QED BY <4>1, <4>2
    <3> QED BY <3>1, <3>2 DEF VerdictInv, inputs, Targets
  <2>3. CASE Report
    <3>1. UNCHANGED <<inputs, solvency, reports>> /\ solvency # "pending"
      BY <2>3 DEF Report
    <3>2. ASSUME NEW t \in Targets, NEW id \in DOMAIN reports[t], reports[t][id] = "critical"
          PROVE  result' = "critical" /\ (exit' = 1 \/ audit_contract)
      <4> DEFINE on(u) == {reports[u][i] : i \in DOMAIN reports[u]}
                 theirs == UNION {on(u) : u \in Targets}
                 ours == IF solvency = "none" THEN {} ELSE {solvency}
      <4>1. AllReports = theirs \cup ours
        BY DEF AllReports
      <4>2. AllReports \in SUBSET Severities
        <5>1. \A u \in Targets : on(u) \in SUBSET Severities
          BY DEF VerdictInv
        <5>2. ours \in SUBSET Severities
          BY <3>1 DEF VerdictInv
        <5> HIDE DEF on, ours
        <5> QED BY <4>1, <5>1, <5>2
      <4>3. "critical" \in AllReports
        <5>1. "critical" \in on(t)
          BY <3>2
        <5> HIDE DEF on, ours
        <5> QED BY <4>1, <5>1
      <4>4. worstSeverity(AllReports) = "critical"
        BY <4>2, <4>3, CriticalIsWorst
      <4>5. result' = "critical"
        BY <2>3, <4>3, <4>4 DEF Report
      <4>6. RANK["critical"] >= RANK[failOn]
        BY DEF VerdictInv, Severities, RANK
      <4> QED BY <2>3, <4>5, <4>6 DEF Report
    <3> QED BY <3>1, <3>2 DEF VerdictInv, inputs, Targets, audit_contract
  <2>4. ASSUME NEW t \in Targets, ReadCode(t) PROVE VerdictInv'
    BY <2>4 DEF ReadCode, VerdictInv, inputs, Targets, audit_contract
  <2>5. ASSUME NEW t \in Targets, ReadCodeFails(t) PROVE VerdictInv'
    BY <2>5 DEF ReadCodeFails, VerdictInv, inputs, Targets, audit_contract
  <2>6. CASE UNCHANGED vars
    BY <2>6 DEF vars, VerdictInv, inputs, Targets, audit_contract
  <2> QED BY <2>1, <2>2, <2>3, <2>4, <2>5, <2>6 DEF Next
<1> QED BY <1>1, <1>2, OnFileInductive, PTL DEF Spec

(***************************************************************************)
(* FindingFailsTheBuild for every plan of contracts, every fault and every *)
(* --fail-on: a finding whose own reads answered makes the run critical.   *)
(***************************************************************************)
THEOREM FindingsFailTheBuild == Spec => []FindingFailsTheBuild
<1>1. OnFile /\ VerdictInv => FindingFailsTheBuild
  <2> SUFFICES ASSUME OnFile, VerdictInv, NEW t \in Targets, NEW id \in DOMAIN reports[t],
                      result \notin {"none", "error"},
                      Finding(id, targets[t]), Presumed(targets[t]),
                      ~(id \in ByScan /\ targets[t].proxy = "beacon"), id \notin unread[t]
               PROVE  result = "critical" /\ (exit = 1 \/ audit_contract)
    BY DEF FindingFailsTheBuild
  <2>1. targets[t] \in Contract /\ id \in CheckIds /\ key \in BOOLEAN
    BY DEF OnFile, Targets
  <2>2. reports[t][id] = Assess(id, targets[t], {}, key)
    BY DEF OnFile
  <2>3. reports[t][id] = "critical"
    BY <2>1, <2>2, FindingIsCritical
  <2> QED BY <2>3 DEF VerdictInv
<1> QED BY <1>1, OnFileInductive, VerdictInvHolds, PTL
=============================================================================
