------------------------- MODULE AlignedReadProofs --------------------------
(***************************************************************************)
(* Proofs about what is read of moving chains, for chains of any length    *)
(* and any timestamps, routes of any number of legs and roles of any       *)
(* number of holders.                                                      *)
(***************************************************************************)
EXTENDS AlignedRead, RecursionLemmas, SequenceTheorems

(***************************************************************************)
(* The search.  The argument is the usual one: everything above hi is too  *)
(* late, and lo is not, unless it is the first block.  The order of the    *)
(* timestamps carries the verdict on one block to all later ones, and the  *)
(* cache may stand in for the chain as long as no block is replaced.       *)
(***************************************************************************)
\* Rounding the middle up keeps it above lo, and halves what is left on both sides.
LEMMA MiddleRoundedUp ==
  ASSUME NEW a \in Nat, NEW b \in Nat, a < b
  PROVE  LET mid == (a + b + 1) \div 2
         IN  /\ mid \in Nat /\ a < mid /\ mid <= b
             /\ 2 * (b - mid) <= b - a
             /\ 2 * (mid - 1 - a) <= b - a
BY SMT

\* A search keeps its interval inside the chain it saw.
LEMMA TypeInductive == TypeOK /\ [Next]_vars => TypeOK'
<1> SUFFICES ASSUME TypeOK, [Next]_vars PROVE TypeOK'
  OBVIOUS
<1>1. MaxBlock \in Nat /\ MaxTime \in Nat /\ Reorgs \in Nat
  BY AlignAssumption
<1> USE <1>1
<1>2. CASE Grow
  <2>1. head' \in Blocks /\ head <= head' /\ head \in Nat
    BY <1>2, SMT DEF Grow, TypeOK, Blocks
  <2>2. UNCHANGED <<ts, cache, pc, target, latest, lo, hi, answer, reorgs>>
    BY <1>2 DEF Grow, search
  <2>3. latest' \in 0 .. head'
    BY <2>1, <2>2, SMT DEF TypeOK
  <2>4. QED
    BY <2>1, <2>2, <2>3 DEF TypeOK, Ordered
<1>3. CASE Reorg
  <2>1. PICK t \in Times : ts' = [ts EXCEPT ![head] = t]
    BY <1>3 DEF Reorg
  <2>2. ts' \in [Blocks -> Times] /\ Ordered(ts')
    BY <2>1, <1>3 DEF Reorg, TypeOK
  <2>3. reorgs' \in 0 .. Reorgs
    <3>1. reorgs \in 0 .. Reorgs /\ reorgs < Reorgs /\ reorgs' = reorgs + 1
      BY <1>3 DEF Reorg, TypeOK
    <3>2. QED
      BY <3>1, SMT
  <2>4. UNCHANGED <<head, cache, pc, target, latest, lo, hi, answer>>
    BY <1>3 DEF Reorg, search
  <2>5. QED
    BY <2>2, <2>3, <2>4 DEF TypeOK
<1>4. ASSUME NEW t \in Times, Start(t) PROVE TypeOK'
  BY <1>4, SMT DEF Start, TypeOK, Blocks, Ordered
<1>5. CASE ReadHead
  <2>1. PICK t \in Times :
          /\ getBlockCached(latest, t)
          /\ IF t <= target
             THEN pc' = "found" /\ answer' = latest /\ UNCHANGED <<lo, hi>>
             ELSE pc' = "search" /\ lo' = 0 /\ hi' = latest /\ UNCHANGED answer
    BY <1>5 DEF ReadHead
  <2>2. UNCHANGED <<ts, head, target, latest, reorgs>>
    BY <1>5 DEF ReadHead
  <2>3. latest \in Nat /\ latest \in Blocks
    BY SMT DEF TypeOK, Blocks
  <2>4. cache' \in [Blocks -> Times \cup {Absent}]
    BY <2>1 DEF getBlockCached, TypeOK
  <2>5. /\ pc' \in {"search", "found"} /\ answer' \in Blocks
        /\ lo' \in 0 .. latest /\ hi' \in lo' .. latest
    BY <2>1, <2>3, SMT DEF TypeOK
  <2>6. QED
    BY <2>2, <2>4, <2>5 DEF TypeOK, Ordered
<1>6. CASE Probe
  <2> DEFINE mid == (lo + hi + 1) \div 2
  <2>1. lo \in Nat /\ hi \in Nat /\ latest \in Nat /\ hi <= latest /\ lo < hi
    BY <1>6, SMT DEF Probe, TypeOK, Blocks
  <2>2. mid \in Nat /\ lo < mid /\ mid <= hi
    BY <2>1, MiddleRoundedUp
  <2>3. PICK t \in Times :
          /\ getBlockCached(mid, t)
          /\ IF t <= target THEN lo' = mid /\ UNCHANGED hi ELSE hi' = mid - 1 /\ UNCHANGED lo
    BY <1>6 DEF Probe
  <2>4. cache' \in [Blocks -> Times \cup {Absent}]
    BY <2>3 DEF getBlockCached, TypeOK
  <2>5. lo' \in 0 .. latest /\ hi' \in lo' .. latest
    <3> HIDE DEF mid
    <3>1. QED
      BY <2>1, <2>2, <2>3, SMT
  <2>6. UNCHANGED <<ts, head, pc, target, latest, answer, reorgs>>
    BY <1>6 DEF Probe
  <2>7. QED
    BY <2>4, <2>5, <2>6 DEF TypeOK, Ordered
<1>7. CASE Return
  BY <1>7, SMT DEF Return, TypeOK, Blocks, Ordered
<1>8. CASE BlockNotFound
  BY <1>8 DEF BlockNotFound, TypeOK, Ordered
<1>9. CASE UNCHANGED vars
  BY <1>9 DEF vars, search, TypeOK, Ordered
<1>10. QED
  BY <1>2, <1>3, <1>4, <1>5, <1>6, <1>7, <1>8, <1>9 DEF Next, SearchStep

\* The types hold at the start.
LEMMA InitType == Init => TypeOK
BY AlignAssumption, SMT DEF Init, TypeOK, Blocks, Times, Absent

(***************************************************************************)
(* The search never leaves the chain it saw: 0 <= lo <= hi <= latest, for  *)
(* every chain and also across reorganisations (lib.ts:348-355).           *)
(***************************************************************************)
THEOREM AlignTypeCorrect == Spec => []TypeOK
BY InitType, TypeInductive, PTL DEF Spec
-----------------------------------------------------------------------------
(***************************************************************************)
(* Every probe at least halves the interval (lib.ts:350-354).              *)
(***************************************************************************)
THEOREM EveryProbeHalves == Spec => ProbesHalve
<1> DEFINE P == pc = "search" /\ <<lo, hi>>' # <<lo, hi>> /\ pc' = "search"
                  => 2 * (hi' - lo') <= hi - lo
<1>1. TypeOK /\ [Next]_vars => [P]_vars
  <2> SUFFICES ASSUME TypeOK, Next, pc = "search", <<lo, hi>>' # <<lo, hi>>, pc' = "search"
               PROVE  2 * (hi' - lo') <= hi - lo
    OBVIOUS
  <2>1. CASE Probe
    <3> DEFINE mid == (lo + hi + 1) \div 2
    <3>1. lo \in Nat /\ hi \in Nat /\ lo < hi
      BY <2>1, AlignAssumption, SMT DEF Probe, TypeOK, Blocks
    <3>2. (lo' = mid /\ hi' = hi) \/ (hi' = mid - 1 /\ lo' = lo)
      BY <2>1 DEF Probe
    <3>3. mid \in Nat /\ 2 * (hi - mid) <= hi - lo /\ 2 * (mid - 1 - lo) <= hi - lo
      BY <3>1, MiddleRoundedUp
    <3> HIDE DEF mid
    <3>4. QED
      BY <3>1, <3>2, <3>3, SMT
  <2>2. ~Probe => FALSE
    BY DEF Next, SearchStep, Grow, Reorg, Start, ReadHead, Return, BlockNotFound, search
  <2>3. QED
    BY <2>1, <2>2
<1>2. QED
  BY <1>1, AlignTypeCorrect, PTL DEF Spec, ProbesHalve
-----------------------------------------------------------------------------
\* The cache agrees with the chain.
CacheInv == \A n \in Blocks : cache[n] \in {Absent, ts[n]}

\* What the search knows so far, and what it has answered.
SearchInv ==
  /\ pc = "search" =>
       /\ lo = 0 \/ ts[lo] <= target
       /\ \A n \in 0 .. latest : hi < n => ts[n] > target
  /\ pc = "found" =>
       /\ answer <= latest
       /\ ts[answer] <= target \/ answer = 0
       /\ \A n \in 0 .. latest : ts[n] <= target => n <= answer

\* A read through a faithful cache gives the block's timestamp and keeps it faithful.
LEMMA CachedRead ==
  ASSUME TypeOK, CacheInv, NEW n \in Blocks, NEW t \in Times, getBlockCached(n, t), ts' = ts
  PROVE  t = ts[n] /\ CacheInv'
BY DEF getBlockCached, CacheInv, TypeOK

\* Both hold as long as the chain has replaced no block.
AlignInv == reorgs = 0 => CacheInv /\ SearchInv

\* A block once replaced stays so: the count of reorganisations never returns to zero.
LEMMA NoReorgBefore ==
  ASSUME TypeOK, [Next]_vars, reorgs' = 0
  PROVE  reorgs = 0 /\ ~Reorg
<1>1. reorgs \in Nat
  BY AlignAssumption, SMT DEF TypeOK
<1>2. ~Reorg
  BY <1>1, SMT DEF Reorg
<1>3. reorgs' = reorgs
  BY <1>2 DEF Next, SearchStep, Grow, Start, ReadHead, Probe, Return, BlockNotFound, vars, search
<1>4. QED
  BY <1>2, <1>3

\* Every step keeps the cache and the search interval right.
LEMMA SearchInductive == TypeOK /\ AlignInv /\ [Next]_vars => AlignInv'
<1> SUFFICES ASSUME TypeOK, CacheInv, SearchInv, [Next]_vars, ~Reorg
             PROVE  CacheInv' /\ SearchInv'
  BY NoReorgBefore DEF AlignInv
<1>1. /\ MaxBlock \in Nat /\ MaxTime \in Nat
      /\ head \in Nat /\ head <= MaxBlock
      /\ latest \in Nat /\ latest <= head
      /\ lo \in Nat /\ hi \in Nat /\ lo <= hi /\ hi <= latest
      /\ target \in Nat
      /\ \A n \in Blocks : ts[n] \in Nat
  BY AlignAssumption, SMT DEF TypeOK, Blocks, Times
<1>2. \A n \in 0 .. latest : n \in Blocks
  BY <1>1, SMT DEF Blocks
<1>3. CASE Grow
  BY <1>3 DEF Grow, search, CacheInv, SearchInv
<1>5. ASSUME NEW t \in Times, Start(t) PROVE CacheInv' /\ SearchInv'
  BY <1>5 DEF Start, CacheInv, SearchInv
<1>6. CASE ReadHead
  <2>1. PICK t \in Times :
          /\ getBlockCached(latest, t)
          /\ IF t <= target
             THEN pc' = "found" /\ answer' = latest /\ UNCHANGED <<lo, hi>>
             ELSE pc' = "search" /\ lo' = 0 /\ hi' = latest /\ UNCHANGED answer
    BY <1>6 DEF ReadHead
  <2>2. UNCHANGED <<ts, head, target, latest>>
    BY <1>6 DEF ReadHead
  <2>3. latest \in Blocks
    BY <1>1, SMT DEF Blocks
  <2>4. t = ts[latest] /\ CacheInv'
    BY <2>1, <2>2, <2>3, CachedRead
  <2>5. SearchInv'
    BY <2>1, <2>2, <2>4, <1>1, SMT DEF SearchInv
  <2>6. QED
    BY <2>4, <2>5
<1>7. CASE Probe
  <2> DEFINE mid == (lo + hi + 1) \div 2
  <2>1. pc = "search" /\ lo < hi
        /\ UNCHANGED <<ts, head, pc, target, latest, answer>>
    BY <1>7 DEF Probe
  <2>2. PICK t \in Times :
          /\ getBlockCached(mid, t)
          /\ IF t <= target THEN lo' = mid /\ UNCHANGED hi ELSE hi' = mid - 1 /\ UNCHANGED lo
    BY <1>7 DEF Probe
  <2>3. mid \in Nat /\ lo < mid /\ mid <= hi
    BY <2>1, <1>1, MiddleRoundedUp
  <2> HIDE DEF mid
  <2>4. mid \in Blocks
    BY <2>3, <1>1, SMT DEF Blocks
  <2>5. t = ts[mid] /\ CacheInv'
    BY <2>1, <2>2, <2>4, CachedRead
  <2>6. ASSUME NEW n \in 0 .. latest, mid <= n PROVE ts[mid] <= ts[n]
    BY <2>6, <2>4, <1>2 DEF TypeOK, Ordered
  <2>7. CASE t <= target
    <3>1. lo' = mid /\ hi' = hi
      BY <2>2, <2>7
    <3>2. QED
      BY <3>1, <2>1, <2>5, <2>7 DEF SearchInv
  <2>8. CASE ~(t <= target)
    <3>1. hi' = mid - 1 /\ lo' = lo
      BY <2>2, <2>8
    <3>2. ASSUME NEW n \in 0 .. latest, mid - 1 < n PROVE ts[n] > target
      <4>1. mid <= n
        BY <3>2, <2>3, SMT
      <4>2. ts[mid] \in Nat /\ ts[n] \in Nat /\ ts[mid] <= ts[n] /\ ~(ts[mid] <= target)
        BY <4>1, <2>6, <2>5, <2>8, <2>4, <1>1, <1>2
      <4>3. QED
        BY <4>2, <1>1, SMT
    <3>3. QED
      BY <3>1, <3>2, <2>1, <2>5 DEF SearchInv
  <2>9. QED
    BY <2>7, <2>8
<1>8. CASE Return
  <2>1. /\ pc = "search" /\ lo = hi /\ pc' = "found" /\ answer' = lo
        /\ UNCHANGED <<ts, cache, target, latest>>
    BY <1>8, <1>1, SMT DEF Return
  <2>2. ASSUME NEW n \in 0 .. latest, ts[n] <= target PROVE n <= lo
    BY <2>2, <2>1, <1>1, <1>2, SMT DEF SearchInv
  <2>3. QED
    BY <2>1, <2>2, <1>1 DEF SearchInv, CacheInv
<1>9. CASE BlockNotFound
  BY <1>9 DEF BlockNotFound, CacheInv, SearchInv
<1>10. CASE UNCHANGED vars
  BY <1>10 DEF vars, search, CacheInv, SearchInv
<1>11. QED
  BY <1>3, <1>5, <1>6, <1>7, <1>8, <1>9, <1>10 DEF Next, SearchStep

(***************************************************************************)
(* While the chain replaces no block, a search answers with the highest    *)
(* block whose timestamp does not exceed the target, whatever the length   *)
(* of the chain, its timestamps, and the searches that filled the cache    *)
(* (lib.ts:338-357).                                                       *)
(***************************************************************************)
THEOREM SearchFindsTheBlock == Spec => []HighestAtOrBefore
<1>1. Init => AlignInv
  BY DEF Init, AlignInv, CacheInv, SearchInv
<1>2. AlignInv => HighestAtOrBefore
  BY DEF AlignInv, SearchInv, HighestAtOrBefore
<1>3. QED
  BY <1>1, <1>2, SearchInductive, AlignTypeCorrect, PTL DEF Spec

-----------------------------------------------------------------------------
(***************************************************************************)
(* What a route's legs hold is the fold of the community modules: a        *)
(* function on the sets of legs defined by recursion, one of module        *)
(* RecursionLemmas.                                                        *)
(***************************************************************************)
\* So a route holds a natural number of units if every leg does.
LEMMA TotalIsNat ==
  ASSUME NEW f \in [Legs -> Nat]
  PROVE  Total(f) \in Nat
<1> DEFINE P(h) == h = [T \in SUBSET Legs |->
                          IF T = {} THEN 0
                          ELSE f[CHOOSE x \in T : TRUE] + h[T \ {CHOOSE x \in T : TRUE}]]
           sum == CHOOSE h : P(h)
<1>0. IsFiniteSet(Legs)
  BY ReadAssumption
<1>1. \E g : P(g)
  <2>1. PICK g \in [SUBSET Legs -> Nat] : Adds(g, f, SUBSET Legs)
    BY <1>0, SumExists
  <2>2. P(g)
    BY <2>1 DEF Adds, Picked
  <2> QED
    BY <2>2
<1>2. P(sum)
  BY <1>1
<1>3. Total(f) = sum[Legs]
  BY DEF Total, MapThenSumSet, MapThenFoldSet
<1> HIDE DEF sum, P
<1>4. ASSUME NEW T \in SUBSET Legs, \A U \in SUBSET T : U # T => sum[U] \in Nat
      PROVE  sum[T] \in Nat
  <2>1. CASE T = {}
    BY <1>2, <2>1 DEF P
  <2>2. CASE T # {}
    <3> DEFINE x == CHOOSE x \in T : TRUE
    <3>1. x \in T
      BY <2>2
    <3>2. sum[T \ {x}] \in Nat /\ f[x] \in Nat
      BY <1>4, <3>1
    <3>3. sum[T] = f[x] + sum[T \ {x}]
      BY <1>2, <2>2 DEF P
    <3> QED
      BY <3>2, <3>3
  <2> QED
    BY <2>1, <2>2
<1> DEFINE Q == {T \in SUBSET Legs : sum[T] \in Nat}
<1>5. ASSUME NEW T \in SUBSET Legs, \A U \in SUBSET T : U # T => U \in Q
      PROVE  T \in Q
  BY <1>4, <1>5
<1>6. Legs \in Q
  <2> HIDE DEF Q
  <2> QED
    BY <1>0, <1>5, SubsetInduction
<1> QED
  BY <1>3, <1>6
-----------------------------------------------------------------------------
(***************************************************************************)
(* The route.  The past does not change: a balance as of an instant that   *)
(* has been is the same whenever it is asked for.  A reading that takes    *)
(* everything as of one instant is therefore the verdict on that instant,  *)
(* however long it takes and whatever happens meanwhile.                   *)
(***************************************************************************)
\* Every chain has a history up to now.
WorldInv ==
  /\ now \in Nat
  /\ locked \in [Legs -> Seq(Nat)] /\ \A l \in Legs : Len(locked[l]) = now + 1
  /\ supply \in Seq(Nat) /\ Len(supply) = now + 1

\* What has been read is the state as of the mint block.
ProbeInv ==
  /\ asOf \in 0 .. now
  /\ phase \in {"idle", "reading", "done"}
  /\ legTime \in [Legs -> Int] /\ raw \in [Legs -> Int] /\ minted \in Int
  /\ phase = "idle" => \A l \in Legs : legTime[l] = Unread
  /\ \A l \in Legs : legTime[l] \in {Unread, asOf}
  /\ \A l \in Legs : raw[l] = Unread \/ (phase # "idle" /\ raw[l] = Balance(l, asOf))
  /\ minted = Unread \/ (phase # "idle" /\ minted = Supply(asOf))
  /\ phase # "done" => reading = NoReading
  /\ phase = "done" => reading \in {ErrorReading, checkRoute(Backing(asOf), Supply(asOf))}

ReadInv == WorldInv /\ ProbeInv

\* The chains begin with one instant each, and nothing is read yet.
LEMMA InitRead == ReadInit => ReadInv
<1> SUFFICES ASSUME ReadInit PROVE ReadInv
  OBVIOUS
<1>1. Cardinality(Legs) \in Nat
  BY ReadAssumption, FS_CardinalityType
<1>2. WorldInv
  BY <1>1 DEF ReadInit, WorldInv
<1>3. ProbeInv
  BY DEF ReadInit, ProbeInv, Unread
<1> QED
  BY <1>2, <1>3 DEF ReadInv

\* One more instant, if it takes nobody below zero, leaves those before it as they were.
LEMMA PastKept ==
  ASSUME WorldInv, NEW d \in [Legs -> Int], NEW e \in Int, Advance(d, e),
         Supply(now) + e >= 0, \A l \in Legs : Balance(l, now) + d[l] >= 0
  PROVE  /\ WorldInv'
         /\ now' = now + 1 /\ UNCHANGED probe
         /\ \A t \in 0 .. now : Supply(t)' = Supply(t) /\ \A l \in Legs : Balance(l, t)' = Balance(l, t)
<1>0. /\ now \in Nat /\ now' = now + 1 /\ UNCHANGED probe
      /\ supply' = Append(supply, Supply(now) + e)
      /\ supply \in Seq(Nat) /\ Len(supply) = now + 1
      /\ locked' = [l \in Legs |-> Append(locked[l], Balance(l, now) + d[l])]
  BY DEF Advance, WorldInv
<1>1. Supply(now) + e \in Nat
  BY <1>0 DEF Supply
<1>2. /\ supply' \in Seq(Nat) /\ Len(supply') = now' + 1
      /\ \A i \in 1 .. now + 1 : supply'[i] = supply[i]
  BY <1>0, <1>1
<1>3. ASSUME NEW l \in Legs
      PROVE  /\ locked'[l] \in Seq(Nat) /\ Len(locked'[l]) = now' + 1
             /\ \A i \in 1 .. now + 1 : locked'[l][i] = locked[l][i]
  <2>1. locked[l] \in Seq(Nat) /\ Len(locked[l]) = now + 1
    BY DEF WorldInv
  <2>2. Balance(l, now) + d[l] \in Nat
    BY <2>1, <1>0 DEF Balance
  <2>3. locked'[l] = Append(locked[l], Balance(l, now) + d[l])
    BY <1>0
  <2> QED
    BY <2>1, <2>2, <2>3, <1>0
<1>4. WorldInv'
  <2>1. locked' \in [Legs -> Seq(Nat)]
    BY <1>0, <1>3
  <2> QED
    BY <2>1, <1>0, <1>2, <1>3 DEF WorldInv
<1>5. ASSUME NEW t \in 0 .. now PROVE Supply(t)' = Supply(t)
  BY <1>0, <1>2 DEF Supply
<1>6. ASSUME NEW t \in 0 .. now, NEW l \in Legs PROVE Balance(l, t)' = Balance(l, t)
  BY <1>0, <1>3 DEF Balance
<1> QED
  BY <1>0, <1>4, <1>5, <1>6

\* Whatever moves in the world only adds an instant.
LEMMA WorldKeepsPast ==
  ASSUME WorldInv, World
  PROVE  /\ WorldInv'
         /\ now' = now + 1 /\ UNCHANGED probe
         /\ \A t \in 0 .. now : Supply(t)' = Supply(t) /\ \A l \in Legs : Balance(l, t)' = Balance(l, t)
<1>1. Supply(now) \in Nat /\ \A l \in Legs : Balance(l, now) \in Nat
  BY DEF WorldInv, Supply, Balance
<1>2. Still \in [Legs -> Int] /\ \A l \in Legs : Still[l] = 0
  BY DEF Still
<1>3. CASE Quiet \/ Mint \/ MintUnbacked
  <2>1. PICK e \in {0, 1} : Advance(Still, e)
    BY <1>3 DEF Quiet, Mint, MintUnbacked
  <2> QED
    BY <2>1, <1>1, <1>2, PastKept
<1>4. CASE Burn
  BY <1>4, <1>1, <1>2, PastKept DEF Burn
<1>5. ASSUME NEW l \in Legs, Deposit(l) \/ Release(l) PROVE \E d \in [Legs -> Int] :
         Advance(d, 0) /\ \A k \in Legs : Balance(k, now) + d[k] >= 0
  <2>1. CASE Deposit(l)
    <3>1. On(l, 1) \in [Legs -> Int] /\ \A k \in Legs : On(l, 1)[k] >= 0
      BY DEF On
    <3> QED
      BY <2>1, <3>1, <1>1 DEF Deposit
  <2>2. CASE Release(l)
    <3>1. On(l, -1) \in [Legs -> Int] /\ \A k \in Legs : On(l, -1)[k] = IF k = l THEN -1 ELSE 0
      BY DEF On
    <3> QED
      BY <2>2, <3>1, <1>1 DEF Release
  <2> QED
    BY <1>5, <2>1, <2>2
<1>6. CASE \E l \in Legs : Deposit(l) \/ Release(l)
  <2>1. PICK d \in [Legs -> Int] : Advance(d, 0) /\ \A k \in Legs : Balance(k, now) + d[k] >= 0
    BY <1>6, <1>5
  <2> QED
    BY <2>1, <1>1, PastKept
<1> QED
  BY <1>3, <1>4, <1>6 DEF World

\* So what is read as of one instant stays what it was.
LEMMA BackingKept ==
  ASSUME NEW t, \A l \in Legs : Balance(l, t)' = Balance(l, t)
  PROVE  Backing(t)' = Backing(t)
<1>1. [l \in Legs |-> Balance(l, t)]' = [l \in Legs |-> Balance(l, t)]
  OBVIOUS
<1> QED
  BY <1>1 DEF Backing

\* No step of the world or the reader disturbs that, if no lock chain's node is behind.
LEMMA ReadInductive ==
  ASSUME LockLag = 0, ReadInv, [ReadNext]_readVars
  PROVE  ReadInv'
<1> USE DEF ReadInv
<1>0. now \in Nat /\ asOf \in Nat /\ asOf <= now
  BY DEF WorldInv, ProbeInv
<1>1. CASE World
  <2>1. /\ WorldInv' /\ now' = now + 1 /\ UNCHANGED <<phase, asOf, legTime, raw, minted, reading>>
        /\ Supply(asOf)' = Supply(asOf) /\ \A l \in Legs : Balance(l, asOf)' = Balance(l, asOf)
    BY <1>1, <1>0, WorldKeepsPast DEF probe
  <2>2. Backing(asOf)' = Backing(asOf)
    BY <2>1, BackingKept
  <2>3. asOf' \in 0 .. now'
    BY <2>1, <1>0
  <2>4. ProbeInv'
    BY <2>1, <2>2, <2>3 DEF ProbeInv
  <2> QED
    BY <2>1, <2>4
<1>2. ASSUME UNCHANGED world PROVE WorldInv' /\ \A t : Supply(t)' = Supply(t) /\ Backing(t)' = Backing(t) /\ \A l : Balance(l, t)' = Balance(l, t)
  BY <1>2 DEF world, WorldInv, Supply, Backing, Balance
<1>3. CASE ReadMintHead
  <2>1. /\ phase = "idle" /\ phase' = "reading" /\ asOf' \in 0 .. now
        /\ UNCHANGED <<world, legTime, raw, minted, reading>> /\ now' = now
    BY <1>3 DEF ReadMintHead, NodeTimes, world
  <2> QED
    BY <2>1, <1>2 DEF ProbeInv
<1>4. ASSUME NEW l \in Legs, AlignLeg(l) PROVE ReadInv'
  <2>1. /\ phase = "reading" /\ now' = now /\ UNCHANGED <<world, phase, asOf, raw, minted, reading>>
    BY <1>4 DEF AlignLeg, world
  <2>2. PICK seen \in NodeTimes(LockLag) :
          legTime' = [legTime EXCEPT ![l] = IF seen <= asOf THEN seen ELSE asOf]
    BY <1>4 DEF AlignLeg
  <2>3. seen = now
    BY <2>2, <1>0 DEF NodeTimes
  <2>4. (IF seen <= asOf THEN seen ELSE asOf) = asOf
    BY <2>3, <1>0
  <2>5. legTime' = [legTime EXCEPT ![l] = asOf]
    BY <2>2, <2>4
  <2>6. ProbeInv'
    BY <2>1, <2>5, <1>0, <1>2 DEF ProbeInv
  <2> QED
    BY <2>1, <2>6, <1>2
<1>5. ASSUME NEW l \in Legs, ReadLeg(l) PROVE ReadInv'
  <2>1. /\ phase = "reading" /\ now' = now /\ UNCHANGED <<world, phase, asOf, legTime, minted, reading>>
        /\ raw' = [raw EXCEPT ![l] = Balance(l, asOf)]
    BY <1>5 DEF ReadLeg, ProbeInv, world
  <2>2. Balance(l, asOf) \in Int
    BY <1>0 DEF WorldInv, Balance
  <2>3. ProbeInv'
    BY <2>1, <2>2, <1>0, <1>2 DEF ProbeInv
  <2> QED
    BY <2>1, <2>3, <1>2
<1>6. CASE ReadSupply
  <2>1. /\ phase = "reading" /\ now' = now /\ UNCHANGED <<world, phase, asOf, legTime, raw, reading>>
        /\ minted' = Supply(asOf)
    BY <1>6 DEF ReadSupply, world
  <2>2. Supply(asOf) \in Int
    BY <1>0 DEF WorldInv, Supply
  <2>3. ProbeInv'
    BY <2>1, <2>2, <1>0, <1>2 DEF ProbeInv
  <2> QED
    BY <2>1, <2>3, <1>2
<1>7. CASE Judge
  <2>1. /\ phase = "reading" /\ phase' = "done" /\ now' = now
        /\ UNCHANGED <<world, asOf, legTime, raw, minted>>
        /\ reading' = checkRoute(Total(raw), minted)
    BY <1>7 DEF Judge, world
  <2>2. raw = [l \in Legs |-> Balance(l, asOf)] /\ minted = Supply(asOf)
    BY <1>7 DEF Judge, ProbeInv
  <2>3. reading' = checkRoute(Backing(asOf), Supply(asOf))
    BY <2>1, <2>2 DEF Backing
  <2>4. ProbeInv'
    BY <2>1, <2>3, <1>0, <1>2 DEF ProbeInv
  <2> QED
    BY <2>1, <2>4, <1>2
<1>8. CASE ReadFails
  <2>1. /\ phase = "reading" /\ phase' = "done" /\ now' = now /\ reading' = ErrorReading
        /\ UNCHANGED <<world, asOf, legTime, raw, minted>>
    BY <1>8 DEF ReadFails, world
  <2>2. ProbeInv'
    BY <2>1, <1>0, <1>2 DEF ProbeInv
  <2> QED
    BY <2>1, <2>2, <1>2
<1>9. CASE UNCHANGED readVars
  <2>1. UNCHANGED <<world, phase, asOf, legTime, raw, minted, reading>> /\ now' = now
    BY <1>9 DEF readVars, world, probe
  <2>2. ProbeInv'
    BY <2>1, <1>2 DEF ProbeInv
  <2> QED
    BY <2>1, <2>2, <1>2
<1> QED
  BY <1>1, <1>3, <1>4, <1>5, <1>6, <1>7, <1>8, <1>9 DEF ReadNext, Reader

\* A finished reading is an error or the verdict on the instant of the mint block.
LEMMA ReadInvSays ==
  ASSUME ReadInv
  PROVE  NoFalseBreach /\ NoMissedBreach
<1>1. asOf \in 0 .. now /\ now \in Nat
  BY DEF ReadInv, WorldInv, ProbeInv
<1>2. [l \in Legs |-> Balance(l, asOf)] \in [Legs -> Nat] /\ Supply(asOf) \in Nat
  BY <1>1 DEF ReadInv, WorldInv, Balance, Supply
<1>3. Backing(asOf) \in Nat
  BY <1>2, TotalIsNat DEF Backing
<1>4. NoFalseBreach
  <2> SUFFICES ASSUME Backing(asOf) >= Supply(asOf) PROVE reading.verdict # "UNDERCOLLATERALIZED"
    BY <1>1 DEF NoFalseBreach, BridgeSound
  <2>1. ErrorReading.verdict = "ERROR" /\ NoReading.verdict = "NONE"
    BY DEF ErrorReading, NoReading
  <2>2. checkRoute(Backing(asOf), Supply(asOf)).verdict # "UNDERCOLLATERALIZED"
    BY DEF checkRoute
  <2> QED
    BY <2>1, <2>2 DEF ReadInv, ProbeInv
<1>5. NoMissedBreach
  <2> SUFFICES ASSUME phase = "done", Backing(asOf) < Supply(asOf)
               PROVE  reading.verdict \in {"UNDERCOLLATERALIZED", "ERROR"}
    BY DEF NoMissedBreach
  <2>1. ErrorReading.verdict = "ERROR"
    BY DEF ErrorReading
  <2>2. Supply(asOf) # 0 /\ ~(Backing(asOf) >= Supply(asOf))
    BY <1>2, <1>3
  <2>3. checkRoute(Backing(asOf), Supply(asOf)).verdict = "UNDERCOLLATERALIZED"
    BY <2>2 DEF checkRoute
  <2> QED
    BY <2>1, <2>3 DEF ReadInv, ProbeInv
<1> QED
  BY <1>4, <1>5

\* The reading is one of the subjects; the others leave it alone.
LEMMA AlignedReads == AlignedNext => [ReadNext]_readVars
BY DEF AlignedNext

(***************************************************************************)
(* For routes of any number of legs, any traffic, and nodes of the mint    *)
(* chain as far behind as they like: if those of the lock chains are not   *)
(* behind, a bridge that is backed at every instant is never called        *)
(* undercollateralized (solvency.ts:268-301).                              *)
(***************************************************************************)
THEOREM NoFalseBreachWhenCurrent ==
  ASSUME LockLag = 0
  PROVE  AlignedSpec => []NoFalseBreach
<1>1. AlignedInit => ReadInv
  BY InitRead DEF AlignedInit
<1>2. ReadInv /\ [AlignedNext]_<<subject, vars, readVars, roleVars>> => ReadInv'
  BY ReadInductive, AlignedReads
<1>3. ReadInv => NoFalseBreach
  BY ReadInvSays
<1> QED
  BY <1>1, <1>2, <1>3, PTL DEF AlignedSpec

(***************************************************************************)
(* ... and a bridge that is short at the instant of the mint block is      *)
(* never called anything but undercollateralized, or an error.             *)
(***************************************************************************)
THEOREM NoMissedBreachWhenCurrent ==
  ASSUME LockLag = 0
  PROVE  AlignedSpec => []NoMissedBreach
<1>1. AlignedInit => ReadInv
  BY InitRead DEF AlignedInit
<1>2. ReadInv /\ [AlignedNext]_<<subject, vars, readVars, roleVars>> => ReadInv'
  BY ReadInductive, AlignedReads
<1>3. ReadInv => NoMissedBreach
  BY ReadInvSays
<1> QED
  BY <1>1, <1>2, <1>3, PTL DEF AlignedSpec
-----------------------------------------------------------------------------
(***************************************************************************)
(* The role.  By index: as long as nobody is removed the list only grows,  *)
(* so the first count members are those of the count, and who was asked    *)
(* for is in the answer.  By logs: who stayed has a log, and is found when *)
(* asked about.                                                            *)
(***************************************************************************)
\* Those at the first n places of the contract's list.
First(n) == {members[i] : i \in 1 .. n}

ContractInv ==
  /\ members \in Seq(Accounts)
  /\ ToSet(members) \subseteq everHeld \cap granted
  /\ stayed \subseteq ToSet(members)

EnumerationInv ==
  /\ count \in Nat /\ asked \in 0 .. count
  /\ step \in {"count", "members", "logs", "recheck", "done"} /\ (step # "done" => method = "")
  /\ holders \subseteq everHeld
  /\ step = "count" => holders = {} /\ asked = 0
  /\ step = "members" /\ ~revoked =>
       count <= Len(members) /\ stayed \subseteq First(count) /\ First(asked) \subseteq holders
  /\ step = "logs" => holders = {}
  /\ step = "recheck" /\ ~capped => stayed \subseteq holders \cup suspects

RoleInv == ContractInv /\ EnumerationInv /\ HoldersInFull

\* The enumeration begins with an empty answer.
LEMMA InitRole == RoleInit => RoleInv
<1> SUFFICES ASSUME RoleInit PROVE RoleInv
  OBVIOUS
<1>1. PICK n \in 0 .. MaxMembers : members \in [1 .. n -> Accounts]
  BY DEF RoleInit
<1>2. members \in Seq(Accounts)
  BY <1>1, RoleAssumption
<1>3. ContractInv
  BY <1>2 DEF RoleInit, ContractInv
<1>4. /\ step = "count" /\ count = 0 /\ asked = 0 /\ holders = {} /\ method = ""
  BY DEF RoleInit
<1>5. 0 \in 0 .. 0
  OBVIOUS
<1>6. EnumerationInv
  BY <1>4, <1>5 DEF EnumerationInv
<1>7. HoldersInFull
  BY <1>4 DEF HoldersInFull
<1> QED
  BY <1>3, <1>6, <1>7 DEF RoleInv

\* A grant appends, and so keeps the first places.
LEMMA GrantKeeps ==
  ASSUME RoleInv, NEW a \in Accounts, Grant(a)
  PROVE  RoleInv'
<1>1. /\ members \in Seq(Accounts) /\ members' = Append(members, a)
      /\ granted' = granted \cup {a} /\ everHeld' = everHeld \cup {a}
      /\ UNCHANGED <<revoked, stayed, step, count, asked, suspects, holders, method, capped>>
  BY DEF Grant, Enumeration, RoleInv, ContractInv
<1>2. /\ members' \in Seq(Accounts) /\ Len(members') = Len(members) + 1
      /\ \A i \in 1 .. Len(members) : members'[i] = members[i]
      /\ members'[Len(members) + 1] = a
  BY <1>1
<1>3. ToSet(members) \subseteq ToSet(members') /\ ToSet(members') \subseteq ToSet(members) \cup {a}
  BY <1>1, <1>2 DEF ToSet
<1>4. ContractInv'
  BY <1>1, <1>2, <1>3 DEF RoleInv, ContractInv
<1>5. EnumerationInv'
  <2>0. count \in Nat /\ asked \in 0 .. count
    BY DEF RoleInv, EnumerationInv
  <2>1. count \in Nat /\ asked \in Nat /\ asked <= count /\ Len(members) \in Nat
    BY <1>1, <2>0
  <2>2. ASSUME step = "members", ~revoked
        PROVE  count <= Len(members') /\ First(count)' = First(count) /\ First(asked)' = First(asked)
    <3>0. count <= Len(members)
      BY <2>2 DEF RoleInv, EnumerationInv
    <3>1. count <= Len(members) /\ asked <= Len(members)
      BY <3>0, <2>1
    <3> QED
      BY <3>1, <2>1, <1>1, <1>2 DEF First
  <2> QED
    BY <1>1, <2>2 DEF RoleInv, EnumerationInv
<1> QED
  BY <1>1, <1>4, <1>5 DEF RoleInv, HoldersInFull

\* A removal takes one account off the list, and whoever it was did not stay.
LEMMA RevokeKeeps ==
  ASSUME RoleInv, NEW i \in DOMAIN members, Revoke(i)
  PROVE  RoleInv'
<1> DEFINE m == [members EXCEPT ![i] = members[Len(members)]]
<1>1. /\ members \in Seq(Accounts) /\ members' = SubSeq(m, 1, Len(members) - 1)
      /\ stayed' = stayed \ {members[i]} /\ revoked' = TRUE
      /\ UNCHANGED <<granted, everHeld, step, count, asked, suspects, holders, method, capped>>
  BY DEF Revoke, Enumeration, RoleInv, ContractInv
<1>2. /\ i \in 1 .. Len(members) /\ Len(members) \in Nat
      /\ \A j \in 1 .. Len(members) : members[j] \in Accounts
  BY <1>1
<1>3. \A j \in 1 .. Len(members) : m[j] = IF j = i THEN members[Len(members)] ELSE members[j]
  BY <1>1
<1>4. \A j \in 1 .. Len(members) - 1 : m[j] \in Accounts
  BY <1>2, <1>3
<1>5. /\ members' \in Seq(Accounts) /\ Len(members') = Len(members) - 1
      /\ \A j \in 1 .. Len(members) - 1 : members'[j] = m[j]
  <2> DEFINE n == Len(members) - 1
  <2>1. n \in Nat /\ 1 \in Int
    BY <1>2
  <2>2. \A j \in 1 .. n : m[j] \in Accounts
    BY <1>4
  <2> HIDE DEF m, n
  <2>3. /\ SubSeq(m, 1, n) \in Seq(Accounts) /\ Len(SubSeq(m, 1, n)) = n
        /\ \A j \in 1 .. n : SubSeq(m, 1, n)[j] = m[j]
    BY <2>1, <2>2, SubSeqProperties
  <2> QED
    BY <2>3, <1>1 DEF n
<1> HIDE DEF m
<1>6. ToSet(members') \subseteq ToSet(members)
  <2>1. ASSUME NEW j \in 1 .. Len(members) - 1 PROVE members'[j] \in {members[k] : k \in 1 .. Len(members)}
    BY <1>2, <1>3, <1>5, <2>1
  <2> QED
    BY <2>1, <1>1, <1>5 DEF ToSet
<1>7. ASSUME NEW a \in ToSet(members), a # members[i] PROVE a \in ToSet(members')
  <2>1. PICK j \in 1 .. Len(members) : a = members[j]
    BY <1>1 DEF ToSet
  <2>2. j # i
    BY <2>1, <1>7
  <2>3. CASE j < Len(members)
    BY <2>1, <2>2, <2>3, <1>2, <1>3, <1>5 DEF ToSet
  <2>4. CASE j = Len(members)
    <3>1. i \in 1 .. Len(members) - 1 /\ members'[i] = a
      BY <2>1, <2>2, <2>4, <1>2, <1>3, <1>5
    <3> QED
      BY <3>1, <1>5 DEF ToSet
  <2> QED
    BY <2>3, <2>4, <1>2
<1>8. ContractInv'
  BY <1>1, <1>5, <1>6, <1>7 DEF RoleInv, ContractInv
<1>9. EnumerationInv'
  BY <1>1 DEF RoleInv, EnumerationInv
<1> QED
  BY <1>1, <1>8, <1>9 DEF RoleInv, HoldersInFull

\* So does every step of the enumeration.
LEMMA RoleInductive == RoleInv /\ [RoleNext]_roleVars => RoleInv'
<1> SUFFICES ASSUME RoleInv, [RoleNext]_roleVars PROVE RoleInv'
  OBVIOUS
<1>0. /\ members \in Seq(Accounts) /\ Len(members) \in Nat /\ DOMAIN members = 1 .. Len(members)
      /\ count \in Nat /\ asked \in Nat /\ asked <= count
      /\ ToSet(members) = First(Len(members))
  <2>1. members \in Seq(Accounts) /\ count \in Nat /\ asked \in 0 .. count
    BY DEF RoleInv, ContractInv, EnumerationInv
  <2>2. Len(members) \in Nat /\ DOMAIN members = 1 .. Len(members)
    BY <2>1
  <2> QED
    BY <2>1, <2>2 DEF ToSet, First
<1>1. ASSUME UNCHANGED contract
      PROVE  /\ ContractInv' /\ \A n : First(n)' = First(n)
             /\ UNCHANGED <<members, granted, revoked, everHeld, stayed>>
  BY <1>1 DEF contract, RoleInv, ContractInv, First
<1>2. CASE ReadCount
  <2>1. /\ step' = "members" /\ count' = Len(members)
        /\ UNCHANGED <<contract, asked, suspects, holders, method, capped>>
        /\ step = "count" /\ asked = 0 /\ holders = {} /\ method = ""
    BY <1>2 DEF ReadCount, RoleInv, EnumerationInv
  <2>2. UNCHANGED <<members, granted, revoked, everHeld, stayed>>
    BY <2>1, <1>1
  <2>0. count' = Len(members) /\ asked' = 0 /\ members' = members
    BY <2>1, <2>2
  <2>3. count' \in Nat /\ asked' \in 0 .. count' /\ count' <= Len(members')
    BY <2>0, <1>0
  <2>4. First(count)' = ToSet(members) /\ First(asked)' = {}
    BY <2>0, <1>0 DEF First
  <2>5. stayed \subseteq ToSet(members)
    BY DEF RoleInv, ContractInv
  <2>6. EnumerationInv'
    BY <2>1, <2>2, <2>3, <2>4, <2>5 DEF EnumerationInv
  <2> QED
    BY <2>1, <2>6, <1>1 DEF RoleInv, HoldersInFull
<1>3. CASE ReadMember
  <2>0. asked < count /\ asked < Len(members) /\ asked' = asked + 1 /\ count' = count
    BY <1>3 DEF ReadMember
  <2>1. /\ step = "members" /\ asked < count /\ asked < Len(members)
        /\ holders' = holders \cup {members[asked + 1]} /\ asked' = asked + 1
        /\ UNCHANGED <<contract, step, count, suspects, method, capped>>
        /\ method = ""
    BY <1>3 DEF ReadMember, RoleInv, EnumerationInv
  <2>2. members[asked + 1] \in everHeld
    <3>1. asked + 1 \in 1 .. Len(members)
      BY <2>0, <1>0
    <3>2. members[asked + 1] \in ToSet(members)
      BY <3>1, <1>0 DEF ToSet
    <3> QED
      BY <3>2 DEF RoleInv, ContractInv
  <2>3. First(asked + 1) = First(asked) \cup {members[asked + 1]}
    BY <1>0 DEF First
  <2>4. asked' \in 0 .. count'
    BY <2>0, <1>0
  <2>5. EnumerationInv'
    BY <2>1, <2>2, <2>3, <2>4, <1>1 DEF RoleInv, EnumerationInv
  <2> QED
    BY <2>1, <2>5, <1>1 DEF RoleInv, HoldersInFull
<1>4. CASE AllRead
  <2>1. /\ step = "members" /\ asked = count /\ step' = "done" /\ method' = "enumerable"
        /\ UNCHANGED <<contract, count, asked, suspects, holders, capped>>
    BY <1>4 DEF AllRead
  <2>2. EnumerationInv' /\ HoldersInFull'
    BY <2>1, <1>1 DEF RoleInv, EnumerationInv, HoldersInFull
  <2> QED
    BY <2>1, <2>2, <1>1 DEF RoleInv
<1>5. CASE NotEnumerable
  <2>1. /\ step' = "logs" /\ holders' = {} /\ method = ""
        /\ UNCHANGED <<contract, count, asked, suspects, method, capped>>
    BY <1>5 DEF NotEnumerable, RoleInv, EnumerationInv
  <2>2. EnumerationInv' /\ HoldersInFull'
    BY <2>1, <1>1 DEF RoleInv, EnumerationInv, HoldersInFull
  <2> QED
    BY <2>1, <2>2, <1>1 DEF RoleInv
<1>6. CASE ReadLogs
  <2>1. /\ step' = "recheck" /\ suspects' \subseteq granted /\ capped' = (suspects' # granted)
        /\ method = "" /\ UNCHANGED <<contract, count, asked, holders, method>>
    BY <1>6 DEF ReadLogs, RoleInv, EnumerationInv
  <2>2. stayed \subseteq granted
    BY DEF RoleInv, ContractInv
  <2>3. EnumerationInv' /\ HoldersInFull'
    BY <2>1, <2>2, <1>1 DEF RoleInv, EnumerationInv, HoldersInFull
  <2> QED
    BY <2>1, <2>3, <1>1 DEF RoleInv
<1>7. ASSUME NEW a \in Accounts, Recheck(a) PROVE RoleInv'
  <2>1. /\ step = "recheck" /\ suspects' = suspects \ {a}
        /\ holders' = IF a \in ToSet(members) THEN holders \cup {a} ELSE holders
        /\ method = "" /\ UNCHANGED <<contract, step, count, asked, method, capped>>
    BY <1>7 DEF Recheck, RoleInv, EnumerationInv
  <2>2. EnumerationInv' /\ HoldersInFull'
    BY <2>1, <1>1 DEF RoleInv, ContractInv, EnumerationInv, HoldersInFull
  <2> QED
    BY <2>1, <2>2, <1>1 DEF RoleInv
<1>8. CASE AllRechecked
  <2>1. /\ step = "recheck" /\ suspects = {} /\ step' = "done" /\ method' = "events"
        /\ UNCHANGED <<contract, count, asked, suspects, holders, capped>>
    BY <1>8 DEF AllRechecked
  <2>2. EnumerationInv' /\ HoldersInFull'
    BY <2>1, <1>1 DEF RoleInv, EnumerationInv, HoldersInFull
  <2> QED
    BY <2>1, <2>2, <1>1 DEF RoleInv
<1>9. CASE Unenumerable
  <2>1. /\ step' = "done" /\ method' = "none" /\ holders' = {}
        /\ UNCHANGED <<contract, count, asked, suspects, capped>>
    BY <1>9 DEF Unenumerable
  <2>2. EnumerationInv' /\ HoldersInFull'
    BY <2>1, <1>1 DEF RoleInv, EnumerationInv, HoldersInFull
  <2> QED
    BY <2>1, <2>2, <1>1 DEF RoleInv
<1>10. CASE UNCHANGED roleVars
  <2>1. UNCHANGED <<contract, step, count, asked, suspects, holders, method, capped>>
    BY <1>10 DEF roleVars
  <2>2. /\ step' = step /\ count' = count /\ asked' = asked /\ suspects' = suspects
        /\ holders' = holders /\ method' = method /\ capped' = capped
        /\ members' = members /\ revoked' = revoked /\ everHeld' = everHeld /\ stayed' = stayed
    BY <2>1, <1>1
  <2>3. First(count)' = First(count) /\ First(asked)' = First(asked)
    BY <2>2 DEF First
  <2>4. EnumerationInv'
    BY <2>2, <2>3 DEF RoleInv, EnumerationInv
  <2>5. HoldersInFull'
    BY <2>2 DEF RoleInv, HoldersInFull
  <2> QED
    BY <2>1, <2>4, <2>5, <1>1 DEF RoleInv
<1> QED
  BY <1>2, <1>3, <1>4, <1>5, <1>6, <1>7, <1>8, <1>9, <1>10, GrantKeeps, RevokeKeeps DEF RoleNext

(***************************************************************************)
(* For a role of any number of holders, granted and revoked while it is    *)
(* enumerated: the answer names nobody who never held it meanwhile, and,   *)
(* unless a removal moved the list or the node left logs out, everyone who *)
(* held it throughout (lib.ts:179-184).                                    *)
(***************************************************************************)
THEOREM EnumerationIsFull == AlignedSpec => []HoldersInFull
<1>1. AlignedInit => RoleInv
  BY InitRole DEF AlignedInit
<1>2. AlignedNext => [RoleNext]_roleVars
  BY DEF AlignedNext
<1>3. RoleInv /\ [AlignedNext]_<<subject, vars, readVars, roleVars>> => RoleInv'
  BY <1>2, RoleInductive
<1>4. RoleInv => HoldersInFull
  BY DEF RoleInv
<1> QED
  BY <1>1, <1>3, <1>4, PTL DEF AlignedSpec
=============================================================================
