-------------------------- MODULE MCContractAudit --------------------------
(***************************************************************************)
(* Contracts for TLC: one that is in order, and every variation of it in   *)
(* one of the ways the checks look at, plus a USDC-like one.               *)
(***************************************************************************)
EXTENDS ContractAudit

Eoa == Account("eoa")
Safe(t, n) == [Account("safe") EXCEPT !.threshold = t, !.owners = n]
Timelock(d) == [Account("timelock") EXCEPT !.delay = d]
Holders == {Nobody, Account("zero"), Eoa, Account("contract"), Safe(1, 2)}
Admins == Holders \cup {Safe(2, 5), Safe(2, 3), Timelock(0), Timelock(1), Timelock(MinDelay)}

Sound ==
  [deployed |-> TRUE, proxy |-> "none", admin |-> Nobody, selectors |-> {"owner"},
   owner |-> Safe(2, 3), masterMinter |-> Nobody, pauser |-> Nobody, blacklister |-> Nobody,
   minters |-> {}, pausers |-> {}, bugs |-> {}, sourcify |-> "match", etherscan |-> TRUE,
   mintGate |-> "none", pauseGate |-> "none", freezeGate |-> "none"]

\* USDC: proxy admin, masterMinter, pauser and blacklister are all single keys.
UsdcLike ==
  [Sound EXCEPT !.proxy = "implementation", !.admin = Eoa, !.masterMinter = Eoa, !.pauser = Eoa,
                !.blacklister = Eoa, !.mintGate = "getter", !.pauseGate = "getter",
                !.freezeGate = "getter",
                !.selectors = {"mint", "owner", "masterMinter", "pause", "pauser", "blacklist", "blacklister"}]

Undeployed == [Sound EXCEPT !.deployed = FALSE]
Upgradeable == {[Sound EXCEPT !.proxy = "implementation", !.admin = a, !.owner = Eoa] : a \in Admins}
Owned == {[Sound EXCEPT !.owner = a] : a \in Admins}
ByOwner ==
  {[Sound EXCEPT !.owner = a, !.selectors = {"owner", "mint", "unpause", "addBlackList"},
                 !.mintGate = "owner", !.pauseGate = "owner", !.freezeGate = "owner"] : a \in Admins}
ByRole ==
  {[Sound EXCEPT !.minters = m, !.pausers = m, !.selectors = {"mint", "hasRole", "pause"} \cup s,
                 !.mintGate = "role", !.pauseGate = "role"] :
     m \in SUBSET {"eoa", "contract"}, s \in {{}, {"owner"}}}
ByGetter ==
  {[UsdcLike EXCEPT !.owner = Eoa, !.masterMinter = a, !.pauser = a, !.blacklister = a] : a \in Holders}
Published == {[Sound EXCEPT !.sourcify = m, !.etherscan = e] : m \in {"exact_match", "null"}, e \in BOOLEAN}
Compiled ==
  {[Sound EXCEPT !.bugs = b] :
     b \in SUBSET {[severity |-> "high", conditional |-> TRUE],
                   [severity |-> "medium/high", conditional |-> FALSE],
                   [severity |-> "medium", conditional |-> FALSE],
                   [severity |-> "very low", conditional |-> FALSE]}}
Beacon == {[c EXCEPT !.proxy = "beacon", !.admin = Nobody] : c \in {UsdcLike} \cup ByOwner \cup ByRole}

Singles == Upgradeable \cup Owned \cup ByOwner \cup ByRole \cup ByGetter \cup Published \cup Compiled
             \cup {UsdcLike, Undeployed}
Few == {Sound, UsdcLike, Undeployed}

MCPlans == {<<c>> : c \in Singles \cup Beacon} \cup {<<c, d>> : c, d \in Few}
MCBeaconPlans == {<<c>> : c \in Beacon}

\* At most two reads of a check fail.
ReadsOf ==
  [id \in CheckIds |->
     CASE id = "verification-status" -> {"sourcify", "etherscan", "etherscanBody"}
       [] id = "compiler-bugs"       -> {"slots", "implCode"}
       [] id = "upgradeability"      -> {"slots", "adminCode"}
       [] id = "admin-power"         -> {"slots", "owner", "adminCode", "safe", "delay"}
       [] id = "mint-authority"      -> {"slots", "implCode", "owner", "getter", "roles", "holderCode", "missed"}
       [] id = "pause-guardian"      -> {"implCode", "owner", "getter", "roles", "holderCode", "missed"}
       [] id = "freeze-authority"    -> {"implCode", "owner", "getter"}]
MCFaults ==
  {[id \in CheckIds |-> {}]} \cup
  UNION {{[id \in CheckIds |-> IF id = i THEN {r, s} ELSE {}] : r, s \in ReadsOf[i]} : i \in CheckIds}
=============================================================================
