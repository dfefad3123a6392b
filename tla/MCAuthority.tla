----------------------------- MODULE MCAuthority -----------------------------
(***************************************************************************)
(* A small set of accounts, each a neighbour of another in one field: two  *)
(* delegations, Safes that differ in an owner, the threshold or a module,  *)
(* two delays, a plain account and a plain contract.  Pages hold one       *)
(* module, so that a list of two takes two reads.  Addresses, their states *)
(* and the processes are interchangeable.                                  *)
(***************************************************************************)
EXTENDS Authority, TLC

CONSTANTS o1, o2, m1, m2

MCModules == {m1, m2}

Plain(c) == [code |-> c, owners |-> {}, threshold |-> NoThreshold, modules |-> <<>>,
             delay |-> NoDelay, delegation |-> "none"]
SafeAccount(os, t, ms) ==
  [Plain("safe") EXCEPT !.owners = os, !.threshold = t, !.modules = ms]

MCSafes ==
  {SafeAccount({o1, o2}, 2, <<>>), SafeAccount({o1, o2}, 1, <<>>), SafeAccount({o1}, 1, <<>>),
   SafeAccount({o1, o2}, 2, <<m1>>), SafeAccount({o1, o2}, 2, <<m2, m1>>),
   SafeAccount({o1, o2}, 2, <<m1, m2>>), SafeAccount({o1, o2}, 2, <<m2>>)}
MCAccounts ==
  MCSafes \cup {Plain("0x"), Plain("plain")}
          \cup {[Plain("delegation") EXCEPT !.delegation = d] : d \in {"d1", "d2"}}
          \cup {[Plain("timelock") EXCEPT !.delay = d] : d \in {0, 2}}

FileSymmetry == Permutations(Addresses) \cup Permutations(States) \cup Permutations(Processes)
=============================================================================
