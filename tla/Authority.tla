------------------------------ MODULE Authority ------------------------------
(***************************************************************************)
(* evmsec authority.  The processes that run snapshot, check and watch     *)
(* over one baseline file and the addresses that change meanwhile          *)
(* (modules BaselineFile and AuthorityWatch), or, read by read, the two    *)
(* captures of one address that a check compares (module                   *)
(* AuthorityCapture).  grain says which: what is not looked at stays as it *)
(* began.                                                                  *)
(***************************************************************************)
EXTENDS AuthorityCapture, AuthorityWatch

VARIABLE grain

AuthorityInit ==
  /\ Init /\ BaselineInit /\ WatchInit
  /\ \/ grain = "read" /\ file = Absent /\ \A a, b \in Addresses : world[a] = world[b]
     \/ grain = "file" /\ account = CHOOSE a \in Accounts : TRUE

\* A process that is killed takes its watch with it.
Dies(p) ==
  /\ Killed(p)
  /\ IF run[p].sub = "watch" THEN NewWatch ELSE UNCHANGED watchVars

FileStep ==
  \/ (\E a \in Addresses : AddressChanges(a)) /\ UNCHANGED watchVars
  \/ (\E p \in Processes : FileCommand(p)) /\ UNCHANGED watchVars
  \/ \E p \in Processes : WatchStep(p)
  \/ \E p \in Processes : Dies(p)

AuthorityNext ==
  \/ grain = "read" /\ Next /\ UNCHANGED <<grain, fileVars, watchVars>>
  \/ grain = "file" /\ FileStep /\ UNCHANGED <<grain, vars>>

AuthoritySpec == AuthorityInit /\ [][AuthorityNext]_<<grain, vars, fileVars, watchVars>>
=============================================================================
