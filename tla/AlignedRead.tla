----------------------------- MODULE AlignedRead -----------------------------
(***************************************************************************)
(* What evmsec reads of chains that move while they are read: the block of *)
(* an instant on one chain (module BlockAlign), a route as of that instant *)
(* on all its chains, which takes the search's word for the block (module  *)
(* CrossChainRead), and the holders of a role (module RoleEnumeration).    *)
(* What is not looked at stays as it began.                                *)
(***************************************************************************)
EXTENDS BlockAlign, CrossChainRead, RoleEnumeration

VARIABLE subject

NoChain == head = 0 /\ ts = [n \in Blocks |-> 0]
NoRole  == members = <<>> /\ granted = {}

AlignedInit ==
  /\ Init /\ ReadInit /\ RoleInit
  /\ \/ subject = "search" /\ NoRole
     \/ subject = "reading" /\ NoChain /\ NoRole
     \/ subject = "role" /\ NoChain

AlignedNext ==
  /\ UNCHANGED subject
  /\ \/ subject = "search" /\ Next /\ UNCHANGED <<readVars, roleVars>>
     \/ subject = "reading" /\ ReadNext /\ UNCHANGED <<vars, roleVars>>
     \/ subject = "role" /\ RoleNext /\ UNCHANGED <<vars, readVars>>

AlignedSpec == AlignedInit /\ [][AlignedNext]_<<subject, vars, readVars, roleVars>>
=============================================================================
