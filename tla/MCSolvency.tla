------------------------------ MODULE MCSolvency ------------------------------
(***************************************************************************)
(* Two registered routes whose assets share a feed, an ad-hoc route, and   *)
(* five readings: two backed ones a drop apart, one below full backing, no *)
(* supply, and a failed read.                                              *)
(***************************************************************************)
EXTENDS Solvency

MCRoutes == {"r1", "r2", "adhoc"}
MCOutcomes ==
  {checkRoute(108, 100), checkRoute(102, 100), checkRoute(97, 100), checkRoute(0, 0), ErrorReading}
MCMinRatio == 100 * Percent
MCDelta == 5 * Percent
MCHops == [r \in MCRoutes |-> IF r = "adhoc" THEN {} ELSE {"btc"}]

Options(since, watch, adHoc, all, id) ==
  [since |-> since, watch |-> watch, adHoc |-> adHoc, all |-> all, id |-> id]
MCInvocations ==
  {Options(s, w, a, all, id) :
     s \in BOOLEAN, w \in BOOLEAN, a \in BOOLEAN, all \in BOOLEAN, id \in {NoId}}
  \cup {Options(s, FALSE, FALSE, FALSE, id) : s \in BOOLEAN, id \in {"r1", "r9"}}
=============================================================================
