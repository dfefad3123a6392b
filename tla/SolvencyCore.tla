---------------------------- MODULE SolvencyCore ----------------------------
(***************************************************************************)
(* The pure core of the solvency engine: what one reading of a route says, *)
(* when a reading counts as failing, and which status changes are worth an *)
(* alert.  Three callers share it: the one-shot command (its exit code),   *)
(* the watch loop of the command line, and the Watchtower monitor.         *)
(*                                                                         *)
(* Amounts are naturals on the common 18-decimal scale.  A ratio is a      *)
(* natural number of ten-thousandths of a percent, the precision the code  *)
(* keeps; NoRatio stands for null.                                         *)
(***************************************************************************)
EXTENDS Integers

NoRatio == -1
Percent == 10000                     \* one percent, in ratio units

Verdicts == {"BACKED", "UNDERCOLLATERALIZED", "NO_SUPPLY", "ERROR"}
Readings == [verdict : Verdicts, ratio : Nat \cup {NoRatio}]

(***************************************************************************)
(* One reading of a route (checkRoute), and the reading that a throw is    *)
(* turned into (checkRouteSafe).                                           *)
(***************************************************************************)
\* backingPct truncates the bigint division, so it rounds towards zero.
backingPct(locked, minted) == (locked * 1000000) \div minted

checkRoute(locked, minted) ==
  IF minted = 0
  THEN [verdict |-> "NO_SUPPLY", ratio |-> NoRatio]
  ELSE [verdict |-> IF locked >= minted THEN "BACKED" ELSE "UNDERCOLLATERALIZED",
        ratio   |-> backingPct(locked, minted)]

ErrorReading == [verdict |-> "ERROR", ratio |-> NoRatio]

(***************************************************************************)
(* The failure predicate.  The verdict alone fails a route, whatever the   *)
(* threshold; the threshold only matters above full backing.               *)
(***************************************************************************)
isRouteFailing(r, minRatio) ==
  \/ r.verdict \in {"UNDERCOLLATERALIZED", "ERROR"}
  \/ r.ratio # NoRatio /\ r.ratio < minRatio

(***************************************************************************)
(* The forensic search uses a different test, in exact integer arithmetic: *)
(* the threshold is first rounded to hundredths of a percent (Math.round,  *)
(* half up), and the ratio is not truncated.                               *)
(***************************************************************************)
isUnderBacked(locked, minted, minRatio) ==
  /\ minted # 0
  /\ locked * 10000 < minted * ((minRatio + 50) \div 100)

(***************************************************************************)
(* Status changes.  The map from route to failing is the set of the routes *)
(* it maps to true: a route it does not hold and one it maps to false are  *)
(* treated alike (was !== true).                                           *)
(***************************************************************************)
Kinds == {"breach", "recovery"}
Alerts(ids) == [id : ids, kind : Kinds]

\* prev: the set of routes known to fail; swept: the routes just read;
\* now: those of them that fail.
computeTransitions(prev, swept, now) ==
       {[id |-> r, kind |-> "breach"]   : r \in now \ prev}
  \cup {[id |-> r, kind |-> "recovery"] : r \in (swept \ now) \cap prev}

\* Roll-up of the latest readings into the word the board shows.
overall(readings) ==
  IF \E r \in readings : r.verdict = "UNDERCOLLATERALIZED" THEN "undercollateralized"
  ELSE IF \E r \in readings : r.verdict = "ERROR" THEN "degraded"
  ELSE "backed"
=============================================================================
