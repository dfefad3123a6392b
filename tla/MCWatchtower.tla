---------------------------- MODULE MCWatchtower ----------------------------
(***************************************************************************)
(* Small Watchtowers for TLC: one registry route and one watch with a      *)
(* threshold above the default, or two watches alone, under readings that  *)
(* pass one threshold and not the other, fall short, or fail.              *)
(***************************************************************************)
EXTENDS Watchtower

CONSTANTS r1, w1, w2

MCRegistry == {r1}
MCNoRegistry == {}
MCNoWatches == {}
MCWatches == {w1}
MCTwoWatches == {w1, w2}
MCDefaultRatio == 100 * Percent
MCWatchRatio == [w \in Watches |-> IF w = w1 THEN 110 * Percent ELSE 100 * Percent]
MCOutcomes == {checkRoute(105, 100), checkRoute(98, 100)}
MCAllOutcomes == MCOutcomes \cup {checkRoute(0, 0), ErrorReading}
=============================================================================
