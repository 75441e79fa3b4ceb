------------------------ MODULE CoinsViewCacheProofs ------------------------
(***************************************************************************)
(* Three results for every number of caches, outpoints, coins and blocks.  *)
(* The meaning of DIRTY and FRESH, and the absence of a logic_error.  The  *)
(* refinement of UTXOStack: whatever is fetched, evicted or flushed, a     *)
(* view changes only by the writes made to it, and a flush hands exactly   *)
(* those to the view below.  The memory accounting: cachedCoinsUsage is    *)
(* the sum over the entries of its cache.                                  *)
(*                                                                         *)
(* The lemmas speak of an arbitrary database d and stack ch rather than of *)
(* the variables, so that they serve the state before and after a step.    *)
(***************************************************************************)
EXTENDS CoinsViewCache, WellFoundedInduction, FiniteSetTheorems, TLAPS

\* Steps for SMT say so; the others are for Zenon.
USE ZenonT(30)

Caches == [Levels -> [OutPoints -> Entry \cup {NoEntry}]]

\* Holder, CoinAt and View of a database d under a stack ch.
Ends(ch, k, i, o) == /\ k # 0 => ch[k][o] # NoEntry
                     /\ \A j \in (k + 1)..i : ~(ch[j][o] # NoEntry)

CoinOf(d, ch, k, o) == IF k = 0 THEN d[o] ELSE ch[k][o].coin

ViewOf(d, ch, i, o) == CoinOf(d, ch, CHOOSE k \in 0..i : Ends(ch, k, i, o), o)

\* What an entry says, given what the level below it shows.
EntryOK(e, below) ==
    e # NoEntry => /\ "FRESH" \in e.flags => below = Spent
                   /\ "DIRTY" \notin e.flags => e.coin = below
                   /\ e.coin = Spent => e.flags = {"DIRTY"}
                   /\ e.coin # Spent => e.flags \in {{"DIRTY", "FRESH"}, {"DIRTY"}, {}}

StackOK(d, ch, n) == \A i \in 1..n, o \in OutPoints : EntryOK(ch[i][o], ViewOf(d, ch, i - 1, o))

\* The inductive invariant.
IInv == TypeOK /\ StackOK(db, cache, top) /\ thrown = "none"
-----------------------------------------------------------------------------
\* A nonempty set of naturals has a least element, for any well-founded
\* relation that contains <.
LEMMA LeastElement ==
    ASSUME NEW R, IsWellFoundedOn(R, Nat),
           \A x, y \in Nat : y < x => <<y, x>> \in R,
           NEW T \in SUBSET Nat, T # {}
    PROVE  \E x \in T : \A y \in T : x <= y
<1>1. PICK x \in T : \A y \in T : ~(<<y, x>> \in R)
  BY WFMin
<1>2. ASSUME NEW y \in T PROVE x <= y
  <2>1. x \in Nat /\ y \in Nat
    OBVIOUS
  <2>2. ~(y < x)
    BY <1>1, <2>1
  <2> QED BY <2>1, <2>2, SMTT(30)
<1> QED BY <1>2

\* A nonempty set of naturals has a least element.
LEMMA NatMin == ASSUME NEW T \in SUBSET Nat, T # {}
                PROVE  \E x \in T : \A y \in T : x <= y
<1>1. \A x, y \in Nat : y < x => <<y, x>> \in OpToRel(<, Nat)
  BY DEF OpToRel
<1>2. IsWellFoundedOn(OpToRel(<, Nat), Nat)
  BY NatLessThanWellFounded
<1> QED BY <1>1, <1>2, LeastElement

\* A nonempty set of naturals up to n has a greatest element.
LEMMA NatMax == ASSUME NEW n \in Nat, NEW T \in SUBSET (0..n), T # {}
                PROVE  \E x \in T : \A y \in T : y <= x
<1> DEFINE U == {n - t : t \in T}
<1>1. U \in SUBSET Nat
  BY SMTT(30)
<1>2. U # {}
  OBVIOUS
<1>3. PICK u \in U : \A v \in U : u <= v
  <2> HIDE DEF U
  <2> QED BY <1>1, <1>2, NatMin
<1>4. n - u \in T
  BY SMTT(30)
<1>5. \A y \in T : y <= n - u
  BY <1>3, SMTT(30)
<1> QED BY <1>4, <1>5

\* FetchCoin's recursion ends: at some level there is an entry, or it is the
\* database.
LEMMA EndsExists == ASSUME NEW ch, NEW i \in Nat, NEW o
                    PROVE  \E k \in 0..i : Ends(ch, k, i, o)
<1> DEFINE T == {k \in 0..i : k # 0 => ch[k][o] # NoEntry}
<1>1. T \in SUBSET (0..i) /\ 0 \in T
  BY SMTT(30)
<1>2. PICK k \in T : \A y \in T : y <= k
  BY <1>1, NatMax
<1>3. Ends(ch, k, i, o)
  BY <1>2, SMTT(30) DEF Ends
<1> QED BY <1>3

\* The view at a level is the coin at the level where the lookup ends.
LEMMA ViewEnds == ASSUME NEW d, NEW ch, NEW i \in Nat, NEW o,
                         NEW k \in 0..i, Ends(ch, k, i, o)
                  PROVE  ViewOf(d, ch, i, o) = CoinOf(d, ch, k, o)
<1>1. \A l \in 0..i : Ends(ch, l, i, o) => l = k
  BY SMTT(30) DEF Ends
<1>2. (CHOOSE l \in 0..i : Ends(ch, l, i, o)) = k
  BY <1>1
<1> QED BY <1>2 DEF ViewOf

\* A level shows its own entry, or what the level below shows.
LEMMA ViewStep == ASSUME NEW d, NEW ch, NEW i \in Nat \ {0}, NEW o
                  PROVE  ViewOf(d, ch, i, o) = IF ch[i][o] # NoEntry THEN ch[i][o].coin
                                               ELSE ViewOf(d, ch, i - 1, o)
<1>1. CASE ch[i][o] # NoEntry
  <2>1. Ends(ch, i, i, o)
    BY <1>1, SMTT(30) DEF Ends
  <2>2. ViewOf(d, ch, i, o) = CoinOf(d, ch, i, o)
    BY <2>1, ViewEnds, SMTT(30)
  <2> QED BY <1>1, <2>2 DEF CoinOf
<1>2. CASE ch[i][o] = NoEntry
  <2>1. PICK k \in 0..(i - 1) : Ends(ch, k, i - 1, o)
    BY EndsExists, SMTT(30)
  <2>2. Ends(ch, k, i, o)
    BY <1>2, <2>1, SMTT(30) DEF Ends
  <2>3. ViewOf(d, ch, i, o) = CoinOf(d, ch, k, o)
    BY <2>2, ViewEnds, SMTT(30)
  <2>4. ViewOf(d, ch, i - 1, o) = CoinOf(d, ch, k, o)
    BY <2>1, ViewEnds, SMTT(30)
  <2> QED BY <1>2, <2>3, <2>4
<1> QED BY <1>1, <1>2

\* The database shows what it stores.
LEMMA ViewZero == ASSUME NEW d, NEW ch, NEW o PROVE ViewOf(d, ch, 0, o) = d[o]
<1>1. Ends(ch, 0, 0, o)
  BY SMTT(30) DEF Ends
<1> QED BY <1>1, ViewEnds, SMTT(30) DEF CoinOf

\* Two stacks that agree at o up to level i.
Agree(d, d2, ch, ch2, i, o) == d[o] = d2[o] /\ \A j \in 1..i : ch[j][o] = ch2[j][o]

\* The view at a level depends only on the levels up to it.
LEMMA ViewSame == ASSUME NEW d, NEW d2, NEW ch, NEW ch2, NEW i \in Nat, NEW o,
                         Agree(d, d2, ch, ch2, i, o)
                  PROVE  ViewOf(d, ch, i, o) = ViewOf(d2, ch2, i, o)
<1> USE DEF Agree
<1>1. PICK k \in 0..i : Ends(ch, k, i, o)
  BY EndsExists
<1>2. Ends(ch2, k, i, o)
  BY <1>1, SMTT(30) DEF Ends
<1>3. CoinOf(d, ch, k, o) = CoinOf(d2, ch2, k, o)
  BY SMTT(30) DEF CoinOf
<1> QED BY <1>1, <1>2, <1>3, ViewEnds, SMTT(30)
-----------------------------------------------------------------------------
\* FetchCoin(o) at level i filled the levels between k and i with coin c.
Filled(ch, ch2, k, i, o, c) ==
    \A j \in Levels, p \in OutPoints :
      ch2[j][p] = IF p = o /\ k < j /\ j <= i THEN Fetched(c) ELSE ch[j][p]

\* The level where a lookup of an unspent coin ends is at most the level where
\* any higher lookup ends, and what FetchCoin caches is what was seen before:
\* filling the caches changes no view.
LEMMA ViewFilled ==
    ASSUME NEW d \in [OutPoints -> Coins \cup {Spent}], NEW ch \in Caches, NEW ch2,
           NEW i \in Levels, NEW o \in OutPoints, NEW k \in 0..i, Ends(ch, k, i, o),
           NEW c \in Coins, c = CoinOf(d, ch, k, o), Filled(ch, ch2, k, i, o, c)
    PROVE  \A l \in 0..Depth, p \in OutPoints : ViewOf(d, ch2, l, p) = ViewOf(d, ch, l, p)
<1> USE DepthAssumption DEF Levels
<1>0. Fetched(c) # NoEntry /\ Fetched(c).coin = c
  BY EntryAssumption, CoinAssumption, SMTT(30) DEF Fetched, Entry
<1> SUFFICES ASSUME NEW l \in 0..Depth, NEW p \in OutPoints
             PROVE  ViewOf(d, ch2, l, p) = ViewOf(d, ch, l, p)
  OBVIOUS
<1>1. CASE p # o \/ l <= k
  <2>1. Agree(d, d, ch2, ch, l, p)
    BY <1>1, SMTT(30) DEF Filled, Agree
  <2> QED BY <2>1, ViewSame, SMTT(30)
<1>2. CASE p = o /\ k < l /\ l <= i
  <2>1. Ends(ch, k, l, o)
    BY <1>2, SMTT(30) DEF Ends
  <2>2. ViewOf(d, ch, l, o) = c
    BY <2>1, <1>2, ViewEnds, SMTT(30)
  <2>3. ch2[l][o] = Fetched(c)
    BY <1>2, SMTT(30) DEF Filled
  <2>4. ViewOf(d, ch2, l, o) = IF ch2[l][o] # NoEntry THEN ch2[l][o].coin
                               ELSE ViewOf(d, ch2, l - 1, o)
    BY <1>2, ViewStep, SMTT(30)
  <2> QED BY <2>2, <2>3, <2>4, <1>0, <1>2
<1>3. CASE p = o /\ i < l
  <2>1. PICK m \in 0..l : Ends(ch, m, l, o)
    BY EndsExists, SMTT(30)
  <2>2. CASE i < m
    <3>1. ch2[m][o] = ch[m][o] /\ \A j \in (m + 1)..l : ch2[j][o] = ch[j][o]
      BY <2>2, SMTT(30) DEF Filled
    <3>2. Ends(ch2, m, l, o)
      BY <2>1, <3>1 DEF Ends
    <3>3. CoinOf(d, ch2, m, o) = CoinOf(d, ch, m, o)
      BY <2>2, <3>1 DEF CoinOf
    <3>4. ViewOf(d, ch, l, o) = CoinOf(d, ch, m, o)
      BY <2>1, ViewEnds, SMTT(30)
    <3>5. ViewOf(d, ch2, l, o) = CoinOf(d, ch2, m, o)
      BY <3>2, ViewEnds, SMTT(30)
    <3> QED BY <3>3, <3>4, <3>5, <1>3
  <2>3. CASE m <= i
    <3>1. m = k
      BY <2>1, <2>3, <1>3, SMTT(30) DEF Ends
    <3>2. ViewOf(d, ch, l, o) = c
      BY <2>1, <3>1, ViewEnds, SMTT(30)
    <3>3. \A j \in (i + 1)..l : ch2[j][o] = NoEntry
      BY <2>1, <3>1, <1>3, SMTT(30) DEF Ends, Filled
    <3>4. CASE k = i
      <4>1. Agree(d, d, ch2, ch, l, o)
        BY <3>4, SMTT(30) DEF Filled, Agree
      <4> QED BY <4>1, <1>3, ViewSame, SMTT(30)
    <3>5. CASE k < i
      <4>1. ch2[i][o] = Fetched(c)
        BY <3>5, SMTT(30) DEF Filled
      <4>2. Ends(ch2, i, l, o)
        BY <4>1, <3>3, <1>0 DEF Ends
      <4>3. ViewOf(d, ch2, l, o) = CoinOf(d, ch2, i, o)
        BY <4>2, <1>3, ViewEnds, SMTT(30)
      <4> QED BY <4>1, <4>3, <3>2, <1>0, <1>3, SMTT(30) DEF CoinOf
    <3> QED BY <3>4, <3>5, SMTT(30)
  <2> QED BY <2>2, <2>3, SMTT(30)
<1> QED BY <1>1, <1>2, <1>3, SMTT(30)

\* Filling the caches keeps the meaning of the flags.
LEMMA StackFilled ==
    ASSUME NEW d \in [OutPoints -> Coins \cup {Spent}], NEW ch \in Caches, NEW ch2,
           NEW n \in Levels, NEW i \in 1..n, NEW o \in OutPoints, NEW k \in 0..i,
           Ends(ch, k, i, o), NEW c \in Coins, c = CoinOf(d, ch, k, o),
           Filled(ch, ch2, k, i, o, c), StackOK(d, ch, n)
    PROVE  StackOK(d, ch2, n)
<1> USE DepthAssumption DEF Levels
<1>1. \A l \in 0..Depth, p \in OutPoints : ViewOf(d, ch2, l, p) = ViewOf(d, ch, l, p)
  BY ViewFilled, SMTT(30)
<1> SUFFICES ASSUME NEW j \in 1..n, NEW p \in OutPoints
             PROVE  EntryOK(ch2[j][p], ViewOf(d, ch, j - 1, p))
  BY <1>1, SMTT(30) DEF StackOK
<1>2. CASE p = o /\ k < j /\ j <= i
  <2>1. Ends(ch, k, j - 1, o)
    BY <1>2, SMTT(30) DEF Ends
  <2>2. ViewOf(d, ch, j - 1, o) = c
    BY <2>1, <1>2, ViewEnds, SMTT(30)
  <2>3. ch2[j][o] = Fetched(c)
    BY <1>2, SMTT(30) DEF Filled
  <2> QED BY <2>2, <2>3, <1>2, CoinAssumption, SMTT(30) DEF EntryOK, Fetched
<1>3. CASE ~(p = o /\ k < j /\ j <= i)
  <2>1. ch2[j][p] = ch[j][p]
    BY <1>3, SMTT(30) DEF Filled
  <2> QED BY <2>1 DEF StackOK
<1> QED BY <1>2, <1>3

\* ch2 is ch with the entry e at level n for o.
Put(ch, ch2, n, o, e) ==
    \A j \in Levels, p \in OutPoints : ch2[j][p] = IF j = n /\ p = o THEN e ELSE ch[j][p]

\* ch2 shows c at o at level n, and what ch shows elsewhere up to level n.
Shows(d, ch, ch2, n, o, c) ==
    /\ ViewOf(d, ch2, n, o) = c
    /\ \A l \in 0..n, p \in OutPoints :
         l # n \/ p # o => ViewOf(d, ch2, l, p) = ViewOf(d, ch, l, p)

\* Writing an entry of the topmost cache that is right for the level below
\* keeps the meaning of the flags, and changes one view at most.
LEMMA StackTop ==
    ASSUME NEW d \in [OutPoints -> Coins \cup {Spent}], NEW ch, NEW ch2,
           NEW n \in Levels, NEW o \in OutPoints, NEW e,
           StackOK(d, ch, n), EntryOK(e, ViewOf(d, ch, n - 1, o)),
           Put(ch, ch2, n, o, e)
    PROVE  /\ StackOK(d, ch2, n)
           /\ Shows(d, ch, ch2, n, o,
                    IF e # NoEntry THEN e.coin ELSE ViewOf(d, ch, n - 1, o))
<1> USE DepthAssumption DEF Levels
<1>1. ASSUME NEW l \in 0..n, NEW p \in OutPoints, l # n \/ p # o
      PROVE  ViewOf(d, ch2, l, p) = ViewOf(d, ch, l, p)
  <2>1. Agree(d, d, ch2, ch, l, p)
    BY <1>1, SMTT(30) DEF Put, Agree
  <2>2. l \in Nat
    BY SMTT(30)
  <2> QED BY <2>1, <2>2, ViewSame, SMTT(30)
<1>2. ASSUME NEW j \in 1..n, NEW p \in OutPoints
      PROVE  EntryOK(ch2[j][p], ViewOf(d, ch2, j - 1, p))
  <2>1. ViewOf(d, ch2, j - 1, p) = ViewOf(d, ch, j - 1, p)
    BY <1>1, SMTT(30)
  <2>2. CASE j = n /\ p = o
    BY <2>1, <2>2 DEF Put
  <2>3. CASE ~(j = n /\ p = o)
    BY <2>1, <2>3, SMTT(30) DEF StackOK, Put
  <2> QED BY <2>2, <2>3
<1>3. ViewOf(d, ch2, n, o) = IF ch2[n][o] # NoEntry THEN ch2[n][o].coin
                             ELSE ViewOf(d, ch2, n - 1, o)
  BY ViewStep, SMTT(30)
<1>4. ch2[n][o] = e /\ ViewOf(d, ch2, n - 1, o) = ViewOf(d, ch, n - 1, o)
  BY <1>1, SMTT(30) DEF Put
<1> QED BY <1>1, <1>2, <1>3, <1>4 DEF StackOK, Shows

\* Uncaching an entry without flags changes no view.
LEMMA ViewUncached ==
    ASSUME NEW d \in [OutPoints -> Coins \cup {Spent}], NEW ch, NEW ch2, NEW i \in Levels, NEW o \in OutPoints,
           ch[i][o] # NoEntry, ch[i][o].coin = ViewOf(d, ch, i - 1, o),
           Put(ch, ch2, i, o, NoEntry)
    PROVE  \A l \in 0..Depth, p \in OutPoints : ViewOf(d, ch2, l, p) = ViewOf(d, ch, l, p)
<1> USE DepthAssumption DEF Levels
<1> SUFFICES ASSUME NEW l \in 0..Depth, NEW p \in OutPoints
             PROVE  ViewOf(d, ch2, l, p) = ViewOf(d, ch, l, p)
  OBVIOUS
<1>0. l \in Nat /\ i - 1 \in Nat
  BY SMTT(30)
<1>1. CASE p # o \/ l < i
  <2>1. Agree(d, d, ch2, ch, l, p)
    BY <1>1, SMTT(30) DEF Put, Agree
  <2> QED BY <1>0, <2>1, ViewSame, SMTT(30)
<1>2. CASE p = o /\ i <= l
  <2>1. PICK m \in 0..l : Ends(ch, m, l, o)
    BY ONLY <1>0, EndsExists
  <2>2. i <= m
    BY <2>1, <1>2, SMTT(30) DEF Ends
  <2>3. ViewOf(d, ch, l, o) = CoinOf(d, ch, m, o)
    BY <2>1, ViewEnds, SMTT(30)
  <2>4. CASE i < m
    <3>1. Ends(ch2, m, l, o)
      BY <2>1, <2>4, SMTT(30) DEF Ends, Put
    <3>2. ViewOf(d, ch2, l, o) = CoinOf(d, ch2, m, o)
      BY <3>1, ViewEnds, SMTT(30)
    <3> QED BY <3>2, <2>3, <2>4, <1>2, SMTT(30) DEF CoinOf, Put
  <2>5. CASE m = i
    <3>1. PICK k \in 0..(i - 1) : Ends(ch, k, i - 1, o)
      BY ONLY <1>0, EndsExists, Zenon
    <3>2. Ends(ch2, k, l, o)
      BY <3>1, <2>1, <2>5, <1>2, SMTT(30) DEF Ends, Put
    <3>3. ViewOf(d, ch2, l, o) = CoinOf(d, ch2, k, o)
      BY <3>2, <1>2, ViewEnds, SMTT(30)
    <3>4. ViewOf(d, ch, i - 1, o) = CoinOf(d, ch, k, o)
      BY <3>1, ViewEnds, SMTT(30)
    <3>5. CoinOf(d, ch2, k, o) = CoinOf(d, ch, k, o)
      BY SMTT(30) DEF CoinOf, Put
    <3> QED BY <3>3, <3>4, <3>5, <2>3, <2>5, <1>2, SMTT(30) DEF CoinOf
  <2> QED BY <2>2, <2>4, <2>5, SMTT(30)
<1> QED BY <1>1, <1>2, SMTT(30)

\* BatchWrite of one entry into the parent: the merged entry is right for the
\* level below the parent, shows what the child showed, and no FRESH entry
\* meets an unspent one.
LEMMA MergedOK ==
    ASSUME NEW e \in Entry \cup {NoEntry}, NEW us \in Entry \cup {NoEntry},
           NEW below \in Coins \cup {Spent}, EntryOK(us, below),
           EntryOK(e, IF us # NoEntry THEN us.coin ELSE below)
    PROVE  /\ Merged(e, us) \in Entry \cup {NoEntry}
           /\ EntryOK(Merged(e, us), below)
           /\ (IF Merged(e, us) # NoEntry THEN Merged(e, us).coin ELSE below)
              = (IF e # NoEntry THEN e.coin ELSE IF us # NoEntry THEN us.coin ELSE below)
           /\ ~Misapplied(e, us)
<1> USE EntryAssumption DEF Entry
<1>1. Merged(e, us) \in Entry \cup {NoEntry}
  BY DEF Merged
<1>2. EntryOK(Merged(e, us), below)
  BY DEF Merged, EntryOK
<1>3. (IF Merged(e, us) # NoEntry THEN Merged(e, us).coin ELSE below)
      = (IF e # NoEntry THEN e.coin ELSE IF us # NoEntry THEN us.coin ELSE below)
  BY SMTT(30) DEF Merged, EntryOK
<1>4. ~Misapplied(e, us)
  BY DEF Misapplied, EntryOK
<1> QED BY <1>1, <1>2, <1>3, <1>4
-----------------------------------------------------------------------------
\* View is ViewOf of the variables.
LEMMA ViewIsViewOf == ASSUME NEW i, NEW o PROVE View(i, o) = ViewOf(db, cache, i, o)
BY DEF View, ViewOf, Holder, Ends, Has, CoinAt, CoinOf

\* A view shows a coin, spent or not.
LEMMA ViewType == ASSUME NEW d \in [OutPoints -> Coins \cup {Spent}], NEW ch \in Caches,
                         NEW i \in 0..Depth, NEW o \in OutPoints
                  PROVE  ViewOf(d, ch, i, o) \in Coins \cup {Spent}
<1> USE DepthAssumption
<1>1. PICK k \in 0..i : Ends(ch, k, i, o)
  BY EndsExists, SMTT(30)
<1>2. ViewOf(d, ch, i, o) = CoinOf(d, ch, k, o)
  BY <1>1, ViewEnds, SMTT(30)
<1>3. k # 0 => ch[k][o] \in Entry
  BY <1>1, SMTT(30) DEF Ends, Caches, Levels
<1> QED BY <1>2, <1>3 DEF CoinOf, Entry

\* FetchCoin at a live level: the caches stay well formed, and either nothing
\* is cached or the levels below the reader are filled with the coin it saw.
LEMMA FetchCoinOK ==
    ASSUME IInv, NEW i \in 1..top, NEW o \in OutPoints, NEW k \in 0..i, Holder(k, i, o)
    PROVE  /\ FetchCoin(k, i, o) \in Caches
           /\ \A j \in Levels : j > top => FetchCoin(k, i, o)[j] = Empty
           /\ StackOK(db, FetchCoin(k, i, o), top)
           /\ \A l \in 0..Depth, p \in OutPoints :
                ViewOf(db, FetchCoin(k, i, o), l, p) = ViewOf(db, cache, l, p)
           /\ CoinAt(k, o) = ViewOf(db, cache, i, o)
           /\ FetchCoin(k, i, o)[i][o] # NoEntry
              => FetchCoin(k, i, o)[i][o].coin = ViewOf(db, cache, i, o)
           /\ FetchCoin(k, i, o)[i][o] = NoEntry => ViewOf(db, cache, i, o) = Spent
<1> USE DepthAssumption, CoinAssumption DEF Levels
<1> DEFINE c == CoinAt(k, o)
           ch2 == FetchCoin(k, i, o)
<1>1. /\ db \in [OutPoints -> Coins \cup {Spent}] /\ cache \in Caches /\ top \in Levels
      /\ StackOK(db, cache, top)
      /\ \A j \in Levels : j > top => cache[j] = Empty
  BY DEF IInv, TypeOK, Caches
<1>2. i \in Levels /\ i \in Nat
  BY <1>1, SMTT(30)
<1>3. Ends(cache, k, i, o) /\ c = CoinOf(db, cache, k, o)
  BY DEF Holder, Ends, Has, CoinAt, CoinOf
<1>4. c = ViewOf(db, cache, i, o)
  BY <1>2, <1>3, ViewEnds, SMTT(30)
<1>5. c \in Coins \cup {Spent}
  BY <1>1, <1>2, <1>4, ViewType, SMTT(30)
<1>6. CASE c = Spent
  <2>1. ch2 = cache
    BY <1>6 DEF FetchCoin
  <2>2. cache[i][o] # NoEntry => cache[i][o].coin = ViewOf(db, cache, i, o)
    BY <1>2, ViewStep, SMTT(30)
  <2> HIDE DEF c, ch2
  <2> QED BY <2>1, <2>2, <1>1, <1>4, <1>6 DEF c, ch2
<1>7. CASE c \in Coins
  <2>1. ch2 = [j \in Levels |-> IF k < j /\ j <= i
                                THEN [cache[j] EXCEPT ![o] = Fetched(c)] ELSE cache[j]]
    BY <1>7 DEF FetchCoin
  <2>2. Fetched(c) \in Entry
    BY <1>5 DEF Fetched, Entry
  <2>3. ch2 \in Caches
    BY <2>1, <2>2, <1>1, SMTT(30) DEF Caches
  <2>4. \A j \in Levels : j > top => ch2[j] = Empty
    BY <2>1, <1>1, SMTT(30)
  <2>5. Filled(cache, ch2, k, i, o, c)
    BY <2>1, <1>1 DEF Filled, Caches
  <2> HIDE DEF c, ch2
  <2>6. \A l \in 0..Depth, p \in OutPoints : ViewOf(db, ch2, l, p) = ViewOf(db, cache, l, p)
    BY <2>5, <1>1, <1>2, <1>3, <1>7, ViewFilled, SMTT(30)
  <2>7. StackOK(db, ch2, top)
    BY <2>5, <1>1, <1>2, <1>3, <1>7, StackFilled
  <2>8. ViewOf(db, ch2, i, o) = IF ch2[i][o] # NoEntry THEN ch2[i][o].coin
                                ELSE ViewOf(db, ch2, i - 1, o)
    BY <1>2, ViewStep, SMTT(30)
  <2>9. ch2[i][o] # NoEntry
    <3>1. CASE k < i
      BY <3>1, <2>5, <2>2, <1>2, EntryAssumption, SMTT(30) DEF Filled
    <3>2. CASE k = i
      BY <3>2, <2>5, <1>2, <1>3, SMTT(30) DEF Filled, Ends
    <3> QED BY <3>1, <3>2, <1>2, SMTT(30)
  <2> QED BY <2>3, <2>4, <2>6, <2>7, <2>8, <2>9, <1>2, <1>4, SMTT(30) DEF c, ch2
<1> QED BY <1>5, <1>6, <1>7
-----------------------------------------------------------------------------
\* The step changes no view.
ViewsKept == \A l \in 0..top, p \in OutPoints :
               ViewOf(db', cache', l, p) = ViewOf(db, cache, l, p)

\* The step writes c at o in the topmost view, and changes no other view.
Writes(o, c) == /\ ViewOf(db', cache', top, o) = c
                /\ \A l \in 0..top, p \in OutPoints :
                     l # top \/ p # o => ViewOf(db', cache', l, p) = ViewOf(db, cache, l, p)

\* What the invariant says of the state, in the form the lemmas use.
LEMMA IInvFacts ==
    ASSUME IInv
    PROVE  /\ db \in [OutPoints -> Coins \cup {Spent}] /\ cache \in Caches
           /\ top \in Levels /\ top \in 1..top /\ top \in Nat
           /\ StackOK(db, cache, top) /\ thrown = "none"
           /\ \A j \in Levels : j > top => cache[j] = Empty
BY DepthAssumption, SMTT(30) DEF IInv, TypeOK, Caches, Levels

\* A read fills caches and changes no view.
LEMMA AccessCoinStep ==
    ASSUME IInv, NEW i \in Levels, NEW o \in OutPoints, AccessCoin(i, o)
    PROVE  IInv' /\ ViewsKept
<1> USE DepthAssumption DEF Levels
<1>1. PICK k \in 0..i : Holder(k, i, o) /\ cache' = FetchCoin(k, i, o)
  BY DEF AccessCoin
<1>2. i \in 1..top /\ top \in Levels /\ 0..top \subseteq 0..Depth
  BY IInvFacts, SMTT(30) DEF AccessCoin
<1>3. /\ FetchCoin(k, i, o) \in Caches
      /\ \A j \in Levels : j > top => FetchCoin(k, i, o)[j] = Empty
      /\ StackOK(db, FetchCoin(k, i, o), top)
      /\ \A l \in 0..Depth, p \in OutPoints :
           ViewOf(db, FetchCoin(k, i, o), l, p) = ViewOf(db, cache, l, p)
  BY <1>1, <1>2, FetchCoinOK
<1>4. UNCHANGED <<db, dbBest, hashBlock, top, thrown>>
  BY DEF AccessCoin
<1>5. IInv'
  BY <1>1, <1>3, <1>4 DEF IInv, TypeOK, Caches
<1>6. ViewsKept
  BY <1>1, <1>2, <1>3, <1>4 DEF ViewsKept
<1> QED BY <1>5, <1>6

\* Uncaching an unflagged entry changes no view.
LEMMA UncacheStep ==
    ASSUME IInv, NEW i \in Levels, NEW o \in OutPoints, Uncache(i, o)
    PROVE  IInv' /\ ViewsKept
<1> USE DepthAssumption DEF Levels
<1>0. /\ top \in Levels /\ db \in [OutPoints -> Coins \cup {Spent}] /\ cache \in Caches
      /\ StackOK(db, cache, top) /\ \A j \in Levels : j > top => cache[j] = Empty
  BY IInvFacts
<1>1. i \in 1..top /\ cache[i][o] # NoEntry /\ cache[i][o].flags = {} /\ 0..top \subseteq 0..Depth
  BY <1>0, SMTT(30) DEF Uncache, Has
<1>2. UNCHANGED <<db, dbBest, hashBlock, top, thrown>>
  BY DEF Uncache
<1>3. /\ cache' \in Caches /\ Put(cache, cache', i, o, NoEntry)
      /\ \A j \in Levels : j > top => cache'[j] = Empty
  BY <1>0, <1>1, SMTT(30) DEF Caches, Uncache, Put
<1>4. cache[i][o].coin = ViewOf(db, cache, i - 1, o)
  <2>1. EntryOK(cache[i][o], ViewOf(db, cache, i - 1, o))
    BY <1>0, <1>1 DEF StackOK
  <2> QED BY <1>1, <2>1 DEF EntryOK
<1>5. \A l \in 0..Depth, p \in OutPoints : ViewOf(db, cache', l, p) = ViewOf(db, cache, l, p)
  BY <1>0, <1>1, <1>3, <1>4, ViewUncached, SMTT(30)
<1>6. ASSUME NEW j \in 1..top, NEW p \in OutPoints
      PROVE  EntryOK(cache'[j][p], ViewOf(db, cache', j - 1, p))
  <2>1. EntryOK(cache[j][p], ViewOf(db, cache, j - 1, p))
    BY <1>0 DEF StackOK
  <2>2. cache'[j][p] = NoEntry \/ cache'[j][p] = cache[j][p]
    BY <1>0, <1>3, SMTT(30) DEF Put
  <2>3. ViewOf(db, cache', j - 1, p) = ViewOf(db, cache, j - 1, p)
    BY <1>0, <1>5, SMTT(30)
  <2> QED BY <2>1, <2>2, <2>3 DEF EntryOK
<1>7. IInv'
  BY <1>2, <1>3, <1>6 DEF IInv, TypeOK, Caches, StackOK
<1>8. ViewsKept
  BY <1>1, <1>2, <1>5 DEF ViewsKept
<1> QED BY <1>7, <1>8

\* The entry AddCoin makes is right, if the caller told the truth.
LEMMA AddedOK ==
    ASSUME NEW e \in Entry \cup {NoEntry}, NEW below \in Coins \cup {Spent}, EntryOK(e, below),
           NEW c \in Coins, NEW overwrite \in BOOLEAN,
           ~overwrite => (IF e # NoEntry THEN e.coin ELSE below) = Spent
    PROVE  /\ Added(Emplaced(e), c, overwrite) \in Entry
           /\ EntryOK(Added(Emplaced(e), c, overwrite), below)
           /\ Added(Emplaced(e), c, overwrite).coin = c
<1> USE EntryAssumption, CoinAssumption DEF Entry
<1>1. CASE e = NoEntry
  BY <1>1 DEF Added, Emplaced, EntryOK
<1>2. CASE e # NoEntry
  BY <1>2 DEF Added, Emplaced, EntryOK
<1> QED BY <1>1, <1>2

\* The entry SpendCoin leaves is right, and shows a spent coin.
LEMMA SpentOK ==
    ASSUME NEW e \in Entry, NEW below \in Coins \cup {Spent}, EntryOK(e, below)
    PROVE  /\ SpentEntry(e) \in Entry \cup {NoEntry}
           /\ EntryOK(SpentEntry(e), below)
           /\ (IF SpentEntry(e) # NoEntry THEN SpentEntry(e).coin ELSE below) = Spent
BY EntryAssumption, CoinAssumption, SMTT(30) DEF Entry, SpentEntry, EntryOK

\* A stack that shows the same as the caches, as FetchCoin leaves it.
Refilled(ch) == /\ ch \in Caches
                /\ \A j \in Levels : j > top => ch[j] = Empty
                /\ StackOK(db, ch, top)
                /\ \A l \in 0..Depth, p \in OutPoints :
                     ViewOf(db, ch, l, p) = ViewOf(db, cache, l, p)

\* A step that refills the caches and then writes one entry of the topmost one.
LEMMA WriteTop ==
    ASSUME IInv, NEW ch, Refilled(ch), NEW o \in OutPoints, NEW e \in Entry \cup {NoEntry},
           EntryOK(e, ViewOf(db, cache, top - 1, o)),
           cache' = [ch EXCEPT ![top][o] = e],
           UNCHANGED <<db, dbBest, hashBlock, top, thrown>>
    PROVE  /\ IInv'
           /\ Writes(o, IF e # NoEntry THEN e.coin ELSE ViewOf(db, cache, top - 1, o))
<1> USE DepthAssumption DEF Levels
<1>0. /\ top \in Levels /\ db \in [OutPoints -> Coins \cup {Spent}] /\ 0..top \subseteq 0..Depth
      /\ top - 1 \in 0..Depth /\ o \in OutPoints
  BY IInvFacts, SMTT(30)
<1>1. /\ cache' \in Caches /\ Put(ch, cache', top, o, e)
      /\ \A j \in Levels : j > top => cache'[j] = Empty
  BY <1>0, SMTT(30) DEF Caches, Put, Refilled
<1>2. /\ StackOK(db, ch, top) /\ EntryOK(e, ViewOf(db, ch, top - 1, o))
      /\ \A l \in 0..top, p \in OutPoints : ViewOf(db, ch, l, p) = ViewOf(db, cache, l, p)
      /\ ViewOf(db, ch, top - 1, o) = ViewOf(db, cache, top - 1, o)
  BY <1>0 DEF Refilled
<1>3. /\ StackOK(db, cache', top)
      /\ Shows(db, ch, cache', top, o, IF e # NoEntry THEN e.coin ELSE ViewOf(db, ch, top - 1, o))
  BY <1>0, <1>1, <1>2, StackTop
<1>4. IInv'
  BY <1>1, <1>3 DEF IInv, TypeOK, Caches
<1>5. Writes(o, IF e # NoEntry THEN e.coin ELSE ViewOf(db, cache, top - 1, o))
  BY <1>2, <1>3 DEF Writes, Shows
<1> QED BY <1>4, <1>5

\* What the entry of the topmost cache says about the view there.
LEMMA TopEntry ==
    ASSUME IInv, NEW ch, Refilled(ch), NEW o \in OutPoints
    PROVE  /\ ch[top][o] \in Entry \cup {NoEntry}
           /\ EntryOK(ch[top][o], ViewOf(db, cache, top - 1, o))
           /\ ViewOf(db, cache, top, o)
              = IF ch[top][o] # NoEntry THEN ch[top][o].coin ELSE ViewOf(db, cache, top - 1, o)
           /\ ViewOf(db, cache, top - 1, o) \in Coins \cup {Spent}
<1> USE DepthAssumption DEF Levels
<1>0. /\ top \in Levels /\ db \in [OutPoints -> Coins \cup {Spent}] /\ top \in 0..Depth
      /\ top - 1 \in 0..Depth /\ cache \in Caches /\ top \in Nat \ {0} /\ top \in 1..top
  BY IInvFacts, SMTT(30)
<1>1. ch[top][o] \in Entry \cup {NoEntry}
  BY <1>0, SMTT(30) DEF Refilled, Caches
<1>2. /\ ViewOf(db, ch, top, o) = ViewOf(db, cache, top, o)
      /\ ViewOf(db, ch, top - 1, o) = ViewOf(db, cache, top - 1, o)
  BY <1>0 DEF Refilled
<1>3. EntryOK(ch[top][o], ViewOf(db, ch, top - 1, o))
  BY <1>0 DEF Refilled, StackOK
<1>4. ViewOf(db, ch, top, o) = IF ch[top][o] # NoEntry THEN ch[top][o].coin
                               ELSE ViewOf(db, ch, top - 1, o)
  BY <1>0, ViewStep
<1>5. ViewOf(db, cache, top - 1, o) \in Coins \cup {Spent}
  BY <1>0, ViewType
<1> QED BY <1>1, <1>2, <1>3, <1>4, <1>5

\* The caches themselves, and the caches after FetchCoin, are refilled stacks.
LEMMA RefilledStacks ==
    ASSUME IInv
    PROVE  /\ Refilled(cache)
           /\ \A o \in OutPoints : \A k \in 0..top :
                Holder(k, top, o) => Refilled(FetchCoin(k, top, o))
<1>1. Refilled(cache)
  BY IInvFacts DEF Refilled
<1>2. ASSUME NEW o \in OutPoints, NEW k \in 0..top, Holder(k, top, o)
      PROVE  Refilled(FetchCoin(k, top, o))
  BY <1>2, IInvFacts, FetchCoinOK DEF Refilled
<1> QED BY <1>1, <1>2

\* AddCoin by UpdateCoins throws nothing, and the coin is in the view.
LEMMA UpdateCoinsAddStep ==
    ASSUME IInv, NEW o \in OutPoints, NEW c \in Coins, NEW coinbase \in BOOLEAN,
           UpdateCoinsAdd(o, c, coinbase)
    PROVE  IInv' /\ Writes(o, c)
<1> DEFINE e == cache[top][o]
           below == ViewOf(db, cache, top - 1, o)
<1>1. Refilled(cache)
  BY RefilledStacks
<1>2. /\ e \in Entry \cup {NoEntry} /\ EntryOK(e, below) /\ below \in Coins \cup {Spent}
      /\ ViewOf(db, cache, top, o) = IF e # NoEntry THEN e.coin ELSE below
  BY <1>1, TopEntry
<1>3. ~coinbase => (IF e # NoEntry THEN e.coin ELSE below) = Spent
  BY <1>2, ViewIsViewOf DEF UpdateCoinsAdd
<1>4. ~(~coinbase /\ Emplaced(e).coin # Spent)
  BY <1>3 DEF Emplaced
<1>5. /\ cache' = [cache EXCEPT ![top][o] = Added(Emplaced(e), c, coinbase)]
      /\ UNCHANGED <<db, dbBest, hashBlock, top, thrown>>
  BY <1>4 DEF UpdateCoinsAdd, AddCoin
<1> DEFINE new == Added(Emplaced(e), c, coinbase)
<1>6. new \in Entry /\ EntryOK(new, below) /\ new.coin = c
  <2> HIDE DEF e, below
  <2> QED BY <1>2, <1>3, AddedOK
<1>7. new # NoEntry
  BY <1>6, EntryAssumption
<1>8. cache' = [cache EXCEPT ![top][o] = new]
  BY <1>5
<1> HIDE DEF new
<1>9. IInv' /\ Writes(o, IF new # NoEntry THEN new.coin ELSE below)
  BY <1>1, <1>5, <1>6, <1>8, WriteTop
<1> QED BY <1>6, <1>7, <1>9

\* AddCoin after HaveCoin puts the coin in the view.
LEMMA AddCoinCheckedStep ==
    ASSUME IInv, NEW o \in OutPoints, NEW c \in Coins, AddCoinChecked(o, c)
    PROVE  IInv' /\ Writes(o, c)
<1>1. PICK k \in 0..top : /\ Holder(k, top, o)
                          /\ cache' = [FetchCoin(k, top, o) EXCEPT ![top][o] =
                                         Added(Emplaced(FetchCoin(k, top, o)[top][o]), c,
                                               CoinAt(k, o) # Spent)]
                          /\ UNCHANGED <<db, dbBest, hashBlock, top, thrown>>
  BY DEF AddCoinChecked
<1> DEFINE ch == FetchCoin(k, top, o)
           e == ch[top][o]
           below == ViewOf(db, cache, top - 1, o)
           ow == CoinAt(k, o) # Spent
           new == Added(Emplaced(e), c, ow)
<1>2. Refilled(ch)
  BY <1>1, RefilledStacks
<1>3. /\ e \in Entry \cup {NoEntry} /\ EntryOK(e, below) /\ below \in Coins \cup {Spent}
      /\ ViewOf(db, cache, top, o) = IF e # NoEntry THEN e.coin ELSE below
  <2> HIDE DEF ch
  <2> QED BY <1>2, TopEntry
<1>4. CoinAt(k, o) = ViewOf(db, cache, top, o)
  BY <1>1, IInvFacts, FetchCoinOK
<1>5. ow \in BOOLEAN /\ (~ow => (IF e # NoEntry THEN e.coin ELSE below) = Spent)
  BY <1>3, <1>4
<1>6. new \in Entry /\ EntryOK(new, below) /\ new.coin = c
  <2> HIDE DEF e, below, ow
  <2> QED BY <1>3, <1>5, AddedOK
<1>7. new # NoEntry
  BY <1>6, EntryAssumption
<1>8. cache' = [ch EXCEPT ![top][o] = new]
  BY <1>1
<1> HIDE DEF new, ch
<1>9. IInv' /\ Writes(o, IF new # NoEntry THEN new.coin ELSE below)
  BY <1>1, <1>2, <1>6, <1>8, WriteTop
<1> QED BY <1>6, <1>7, <1>9

\* SpendCoin leaves a spent coin in the view.
LEMMA SpendCoinStep ==
    ASSUME IInv, NEW o \in OutPoints, SpendCoin(o)
    PROVE  IInv' /\ Writes(o, Spent)
<1>1. PICK k \in 0..top : /\ Holder(k, top, o)
                          /\ FetchCoin(k, top, o)[top][o] # NoEntry
                          /\ cache' = [FetchCoin(k, top, o) EXCEPT ![top][o] =
                                         SpentEntry(FetchCoin(k, top, o)[top][o])]
                          /\ UNCHANGED <<db, dbBest, hashBlock, top, thrown>>
  BY DEF SpendCoin
<1> DEFINE ch == FetchCoin(k, top, o)
           e == ch[top][o]
           below == ViewOf(db, cache, top - 1, o)
           new == SpentEntry(e)
<1>2. Refilled(ch)
  BY <1>1, RefilledStacks
<1>3. e \in Entry /\ EntryOK(e, below) /\ below \in Coins \cup {Spent}
  <2>1. e # NoEntry
    BY <1>1
  <2> HIDE DEF ch
  <2> QED BY <1>2, <2>1, TopEntry
<1>4. /\ new \in Entry \cup {NoEntry} /\ EntryOK(new, below)
      /\ (IF new # NoEntry THEN new.coin ELSE below) = Spent
  <2> HIDE DEF e, below
  <2> QED BY <1>3, SpentOK
<1>5. cache' = [ch EXCEPT ![top][o] = new]
  BY <1>1
<1> HIDE DEF new, ch
<1>6. IInv' /\ Writes(o, IF new # NoEntry THEN new.coin ELSE below)
  BY <1>1, <1>2, <1>4, <1>5, WriteTop
<1> QED BY <1>4, <1>6

\* The best-block operations leave the coins alone.
LEMMA BestBlockStep ==
    ASSUME IInv, \/ \E i \in Levels : GetBestBlock(i)
                 \/ \E b \in Blocks : SetBestBlock(b)
    PROVE  IInv' /\ ViewsKept
<1> USE DepthAssumption DEF Levels
<1>1. UNCHANGED <<db, dbBest, cache, top, thrown>>
  BY DEF GetBestBlock, SetBestBlock
<1>2. hashBlock' \in [Levels -> Blocks \cup {NullHash}]
  <2>1. ASSUME NEW b \in Blocks, SetBestBlock(b)
        PROVE  hashBlock' \in [Levels -> Blocks \cup {NullHash}]
    BY <2>1 DEF IInv, TypeOK, SetBestBlock
  <2>2. ASSUME NEW i \in Levels, GetBestBlock(i)
        PROVE  hashBlock' \in [Levels -> Blocks \cup {NullHash}]
    BY <2>2, SMTT(30) DEF IInv, TypeOK, GetBestBlock, HashAt
  <2> QED BY <2>1, <2>2
<1>3. \A j \in Levels : j > top => hashBlock'[j] = NullHash
  <2>1. ASSUME NEW b \in Blocks, SetBestBlock(b)
        PROVE  \A j \in Levels : j > top => hashBlock'[j] = NullHash
    BY <2>1, SMTT(30) DEF IInv, TypeOK, SetBestBlock
  <2>2. ASSUME NEW i \in Levels, GetBestBlock(i)
        PROVE  \A j \in Levels : j > top => hashBlock'[j] = NullHash
    BY <2>2, SMTT(30) DEF IInv, TypeOK, GetBestBlock
  <2> QED BY <2>1, <2>2
<1>4. IInv'
  BY <1>1, <1>2, <1>3 DEF IInv, TypeOK
<1>5. ViewsKept
  BY <1>1 DEF ViewsKept
<1> QED BY <1>4, <1>5

\* A new cache shows what the one below it shows.
LEMMA PushViewStep ==
    ASSUME IInv, PushView
    PROVE  /\ IInv' /\ ViewsKept
           /\ \A p \in OutPoints : ViewOf(db', cache', top', p) = ViewOf(db, cache, top, p)
<1> USE DepthAssumption DEF Levels
<1>1. /\ UNCHANGED <<db, dbBest, cache, hashBlock, thrown>> /\ top' = top + 1
      /\ top' \in Levels /\ top \in Nat
  BY IInvFacts, SMTT(30) DEF PushView
<1>2. cache[top'] = Empty
  BY <1>1, IInvFacts, SMTT(30)
<1>3. StackOK(db, cache, top')
  <2>1. \A o \in OutPoints : cache[top'][o] = NoEntry
    BY <1>2 DEF Empty
  <2>2. ASSUME NEW i \in 1..top', NEW o \in OutPoints
        PROVE  EntryOK(cache[i][o], ViewOf(db, cache, i - 1, o))
    <3>1. i \in 1..top \/ i = top'
      BY <1>1, SMTT(30)
    <3>2. CASE i = top'
      BY <2>1, <3>2 DEF EntryOK
    <3>3. CASE i \in 1..top
      BY <3>3, IInvFacts DEF StackOK
    <3> QED BY <3>1, <3>2, <3>3
  <2> QED BY <2>2 DEF StackOK
<1>4. IInv'
  BY <1>1, <1>3, SMTT(30) DEF IInv, TypeOK
<1>5. ViewsKept
  BY <1>1 DEF ViewsKept
<1>6. ASSUME NEW p \in OutPoints
      PROVE  ViewOf(db', cache', top', p) = ViewOf(db, cache, top, p)
  <2>1. PICK n \in Nat \ {0} : n = top'
    BY <1>1, SMTT(30)
  <2>2. ViewOf(db, cache, n, p) = IF cache[n][p] # NoEntry THEN cache[n][p].coin
                                  ELSE ViewOf(db, cache, n - 1, p)
    BY ViewStep, SMTT(30)
  <2>3. cache[n][p] = NoEntry /\ n - 1 = top
    BY <2>1, <1>1, <1>2, SMTT(30) DEF Empty
  <2> QED BY <2>1, <2>2, <2>3, <1>1
<1> QED BY <1>4, <1>5, <1>6

\* Destroying the topmost cache changes no view below it.
LEMMA PopViewStep ==
    ASSUME IInv, PopView
    PROVE  /\ IInv'
           /\ \A l \in 0..top', p \in OutPoints :
                ViewOf(db', cache', l, p) = ViewOf(db, cache, l, p)
<1> USE DepthAssumption DEF Levels
<1>1. /\ top \in Levels /\ top' = top - 1 /\ top' \in Levels
      /\ UNCHANGED <<db, dbBest, thrown>>
      /\ db \in [OutPoints -> Coins \cup {Spent}] /\ cache \in Caches
      /\ StackOK(db, cache, top)
  BY IInvFacts, SMTT(30) DEF PopView
<1>2. /\ cache' \in Caches
      /\ \A j \in Levels : j > top' => cache'[j] = Empty
      /\ \A j \in 1..top' : cache'[j] = cache[j]
  BY <1>1, IInvFacts, SMTT(30) DEF PopView, Caches, Empty
<1>3. ASSUME NEW l \in 0..top', NEW p \in OutPoints
      PROVE  ViewOf(db', cache', l, p) = ViewOf(db, cache, l, p)
  <2>1. Agree(db', db, cache', cache, l, p)
    BY <1>1, <1>2, SMTT(30) DEF Agree
  <2>2. l \in Nat
    BY <1>1, SMTT(30)
  <2> QED BY <2>1, <2>2, ViewSame, SMTT(30)
<1>4. StackOK(db', cache', top')
  BY <1>1, <1>2, <1>3, SMTT(30) DEF StackOK
<1>5. /\ hashBlock' \in [Levels -> Blocks \cup {NullHash}]
      /\ \A j \in Levels : j > top' => hashBlock'[j] = NullHash
  BY <1>1, SMTT(30) DEF PopView, IInv, TypeOK
<1>6. IInv'
  BY <1>1, <1>2, <1>4, <1>5 DEF IInv, TypeOK, Caches
<1> QED BY <1>3, <1>6

\* Every view up to the top agrees with a stack in which the two topmost
\* levels are merged.
Committed == /\ \A p \in OutPoints : /\ ViewOf(db', cache', top, p) = ViewOf(db, cache, top, p)
                                     /\ ViewOf(db', cache', top - 1, p) = ViewOf(db, cache, top, p)
             /\ \A l \in 0..(top - 2), p \in OutPoints :
                  ViewOf(db', cache', l, p) = ViewOf(db, cache, l, p)

\* A flush into the cache below throws nothing and commits the topmost view.
LEMMA FlushToCacheStep ==
    ASSUME IInv, FlushToCache
    PROVE  IInv' /\ Committed /\ top' = top
<1> USE DepthAssumption DEF Levels
<1> DEFINE e(p) == cache[top][p]
           us(p) == cache[top - 1][p]
           below(p) == ViewOf(db, cache, top - 2, p)
<1>1. /\ top \in Nat /\ top \in Levels /\ top > 1 /\ UNCHANGED <<db, dbBest, top>>
      /\ db \in [OutPoints -> Coins \cup {Spent}] /\ cache \in Caches
      /\ StackOK(db, cache, top)
      /\ top - 1 \in Nat \ {0} /\ top \in Nat \ {0} /\ top - 2 \in Nat
      /\ (top - 1) - 1 = top - 2 /\ top - 1 \in Levels
  BY IInvFacts, SMTT(30) DEF FlushToCache
<1>0. top \in Nat /\ top > 1 /\ top \in 1..Depth /\ top - 2 \in Nat /\ top' = top
  BY <1>1
<1>2. ASSUME NEW p \in OutPoints
      PROVE  /\ e(p) \in Entry \cup {NoEntry} /\ us(p) \in Entry \cup {NoEntry}
             /\ below(p) \in Coins \cup {Spent}
             /\ EntryOK(us(p), below(p))
             /\ ViewOf(db, cache, top - 1, p) = IF us(p) # NoEntry THEN us(p).coin ELSE below(p)
             /\ ViewOf(db, cache, top, p) = IF e(p) # NoEntry THEN e(p).coin
                                            ELSE ViewOf(db, cache, top - 1, p)
             /\ EntryOK(e(p), ViewOf(db, cache, top - 1, p))
  <2>1. e(p) \in Entry \cup {NoEntry} /\ us(p) \in Entry \cup {NoEntry}
    BY <1>1 DEF Caches
  <2>2. below(p) \in Coins \cup {Spent}
    <3>1. top - 2 \in 0..Depth
      BY <1>1, SMTT(30)
    <3> QED BY <1>1, <3>1, ViewType
  <2>3. EntryOK(us(p), ViewOf(db, cache, (top - 1) - 1, p))
    BY <1>1, SMTT(30) DEF StackOK
  <2>4. EntryOK(e(p), ViewOf(db, cache, top - 1, p))
    BY <1>1, SMTT(30) DEF StackOK
  <2>5. ViewOf(db, cache, top - 1, p) = IF us(p) # NoEntry THEN us(p).coin
                                        ELSE ViewOf(db, cache, (top - 1) - 1, p)
    <3>1. PICK n \in Nat \ {0} : n = top - 1
      BY <1>1
    <3>2. ViewOf(db, cache, n, p) = IF cache[n][p] # NoEntry THEN cache[n][p].coin
                                    ELSE ViewOf(db, cache, n - 1, p)
      BY ViewStep, SMTT(30)
    <3> QED BY <3>1, <3>2
  <2>6. ViewOf(db, cache, top, p) = IF e(p) # NoEntry THEN e(p).coin
                                    ELSE ViewOf(db, cache, top - 1, p)
    BY <1>1, ViewStep, SMTT(30)
  <2> QED BY <1>1, <2>1, <2>2, <2>3, <2>4, <2>5, <2>6
<1> DEFINE new(p) == Merged(e(p), us(p))
<1>3. ASSUME NEW p \in OutPoints
      PROVE  /\ new(p) \in Entry \cup {NoEntry} /\ EntryOK(new(p), below(p))
             /\ (IF new(p) # NoEntry THEN new(p).coin ELSE below(p)) = ViewOf(db, cache, top, p)
             /\ ~Misapplied(e(p), us(p))
  <2> DEFINE x == e(p) y == us(p) z == below(p) v == ViewOf(db, cache, top - 1, p)
  <2>1. /\ x \in Entry \cup {NoEntry} /\ y \in Entry \cup {NoEntry} /\ z \in Coins \cup {Spent}
        /\ EntryOK(y, z) /\ EntryOK(x, v)
        /\ v = (IF y # NoEntry THEN y.coin ELSE z)
        /\ ViewOf(db, cache, top, p) = IF x # NoEntry THEN x.coin ELSE v
    BY <1>2
  <2>2. new(p) = Merged(x, y)
    OBVIOUS
  <2> HIDE DEF x, y, z, v, new
  <2>3. EntryOK(x, IF y # NoEntry THEN y.coin ELSE z)
    BY <2>1
  <2>4. /\ Merged(x, y) \in Entry \cup {NoEntry}
        /\ EntryOK(Merged(x, y), z)
        /\ (IF Merged(x, y) # NoEntry THEN Merged(x, y).coin ELSE z)
           = (IF x # NoEntry THEN x.coin ELSE IF y # NoEntry THEN y.coin ELSE z)
        /\ ~Misapplied(x, y)
    BY <2>1, <2>3, MergedOK
  <2>5. /\ new(p) \in Entry \cup {NoEntry} /\ EntryOK(new(p), z) /\ ~Misapplied(x, y)
        /\ (IF new(p) # NoEntry THEN new(p).coin ELSE z) = ViewOf(db, cache, top, p)
    BY <2>1, <2>2, <2>4
  <2> QED BY <2>5 DEF x, y, z
<1>4. /\ thrown' = "none"
      /\ cache' = [cache EXCEPT ![top] = Empty,
                                ![top - 1] = [p \in OutPoints |-> new(p)]]
      /\ hashBlock' = [hashBlock EXCEPT ![top - 1] = hashBlock[top]]
  <2>1. ~\E p \in OutPoints : Misapplied(cache[top][p], cache[top - 1][p])
    BY <1>3
  <2> QED BY <2>1, IInvFacts DEF FlushToCache
<1>5. ASSUME NEW p \in OutPoints, NEW j \in Levels
      PROVE  cache'[j][p] = IF j = top THEN NoEntry ELSE IF j = top - 1 THEN new(p)
                            ELSE cache[j][p]
  BY <1>1, <1>4, SMTT(30) DEF Empty, Caches
<1>6. /\ cache' \in Caches
      /\ \A j \in Levels : j > top' => cache'[j] = Empty
  <2>1. \A j \in Levels : cache'[j] = IF j = top THEN Empty
                                     ELSE IF j = top - 1 THEN [p \in OutPoints |-> new(p)]
                                     ELSE cache[j]
    BY <1>1, <1>4, SMTT(30) DEF Caches
  <2>2. [p \in OutPoints |-> new(p)] \in [OutPoints -> Entry \cup {NoEntry}]
    BY <1>3
  <2>3. Empty \in [OutPoints -> Entry \cup {NoEntry}]
    BY DEF Empty
  <2>4. cache' = [j \in Levels |-> cache'[j]]
    BY <1>1, <1>4 DEF Caches
  <2> HIDE DEF new
  <2> QED BY <1>1, <2>1, <2>2, <2>3, <2>4, IInvFacts, SMTT(30) DEF Caches
<1> HIDE DEF new
<1>7. ASSUME NEW l \in 0..(top - 2), NEW p \in OutPoints
      PROVE  ViewOf(db', cache', l, p) = ViewOf(db, cache, l, p)
  <2>1. PICK n \in Nat : n = l
    BY <1>1, SMTT(30)
  <2>2. \A j \in 1..n : cache'[j][p] = cache[j][p]
    <3>1. \A j \in 1..n : j \in Levels /\ j # top /\ j # top - 1
      BY <1>0, <2>1, SMTT(30)
    <3> QED BY <1>5, <3>1
  <2>3. db'[p] = db[p]
    BY <1>1
  <2>4. ViewOf(db', cache', n, p) = ViewOf(db, cache, n, p)
    <3>1. Agree(db', db, cache', cache, n, p)
      BY <2>2, <2>3 DEF Agree
    <3> QED BY <3>1, ViewSame, SMTT(30)
  <2> QED BY <2>1, <2>4
<1>8. ASSUME NEW p \in OutPoints
      PROVE  /\ ViewOf(db', cache', top - 1, p) = ViewOf(db, cache, top, p)
             /\ ViewOf(db', cache', top, p) = ViewOf(db, cache, top, p)
  <2>1. ViewOf(db', cache', top - 1, p) = IF cache'[top - 1][p] # NoEntry
                                          THEN cache'[top - 1][p].coin
                                          ELSE ViewOf(db', cache', (top - 1) - 1, p)
    <3>1. PICK n \in Nat \ {0} : n = top - 1
      BY <1>1
    <3>2. ViewOf(db', cache', n, p) = IF cache'[n][p] # NoEntry THEN cache'[n][p].coin
                                      ELSE ViewOf(db', cache', n - 1, p)
      BY ViewStep, SMTT(30)
    <3> QED BY <3>1, <3>2
  <2>2. ViewOf(db', cache', top, p) = IF cache'[top][p] # NoEntry THEN cache'[top][p].coin
                                      ELSE ViewOf(db', cache', top - 1, p)
    BY <1>1, ViewStep, SMTT(30)
  <2>3. cache'[top][p] = NoEntry /\ cache'[top - 1][p] = new(p)
    BY <1>1, <1>5, SMTT(30)
  <2>4. ViewOf(db', cache', top - 2, p) = below(p)
    BY <1>1, <1>7, SMTT(30)
  <2>5. (IF new(p) # NoEntry THEN new(p).coin ELSE below(p)) = ViewOf(db, cache, top, p)
    BY <1>3
  <2> QED BY <1>1, <2>1, <2>2, <2>3, <2>4, <2>5
<1>9. StackOK(db', cache', top')
  <2> SUFFICES ASSUME NEW i \in 1..top, NEW p \in OutPoints
               PROVE  EntryOK(cache'[i][p], ViewOf(db', cache', i - 1, p))
    BY <1>0 DEF StackOK
  <2>1. CASE i = top
    <3>1. cache'[i][p] = NoEntry
      BY <1>0, <1>5, <2>1
    <3> QED BY <3>1 DEF EntryOK
  <2>2. CASE i = top - 1
    <3>1. i \in Levels /\ i # top /\ i - 1 = top - 2 /\ top - 2 \in 0..(top - 2)
      BY <1>0, <2>2, SMTT(30)
    <3>2. cache'[i][p] = new(p)
      BY <1>5, <2>2, <3>1
    <3>3. ViewOf(db', cache', top - 2, p) = below(p)
      BY <1>7, <3>1
    <3>4. EntryOK(new(p), below(p))
      BY <1>3
    <3> QED BY <3>1, <3>2, <3>3, <3>4
  <2>3. CASE i < top - 1
    <3>1. i \in Levels /\ i - 1 \in 0..(top - 2) /\ i # top /\ i # top - 1
      BY <1>0, <2>3, SMTT(30)
    <3>2. cache'[i][p] = cache[i][p]
      BY <1>5, <3>1
    <3>3. ViewOf(db', cache', i - 1, p) = ViewOf(db, cache, i - 1, p)
      BY <1>7, <3>1
    <3>4. EntryOK(cache[i][p], ViewOf(db, cache, i - 1, p))
      BY <1>1 DEF StackOK
    <3> QED BY <3>2, <3>3, <3>4
  <2>4. i = top \/ i = top - 1 \/ i < top - 1
    BY <1>0, SMTT(30)
  <2> QED BY <2>1, <2>2, <2>3, <2>4
<1>10. /\ hashBlock' \in [Levels -> Blocks \cup {NullHash}]
       /\ \A j \in Levels : j > top' => hashBlock'[j] = NullHash
  BY <1>1, <1>4, SMTT(30) DEF IInv, TypeOK
<1>11. IInv'
  BY <1>1, <1>4, <1>6, <1>9, <1>10 DEF IInv, TypeOK, Caches
<1> QED BY <1>1, <1>7, <1>8, <1>11 DEF Committed

\* A flush into the database commits the view of the coins tip.
LEMMA FlushToDBStep ==
    ASSUME IInv, FlushToDB
    PROVE  IInv' /\ Committed /\ top' = top
<1> USE DepthAssumption DEF Levels
<1>1. /\ top = 1 /\ top' = top /\ thrown' = "none" /\ UNCHANGED hashBlock
      /\ db \in [OutPoints -> Coins \cup {Spent}] /\ cache \in Caches
      /\ StackOK(db, cache, top)
  BY IInvFacts DEF FlushToDB
<1>2. /\ cache' \in Caches
      /\ \A j \in Levels : cache'[j] = Empty
  BY <1>1, IInvFacts, SMTT(30) DEF FlushToDB, Caches, Empty
<1>3. ASSUME NEW p \in OutPoints
      PROVE  /\ ViewOf(db', cache', 0, p) = ViewOf(db, cache, 1, p)
             /\ ViewOf(db', cache', 1, p) = ViewOf(db, cache, 1, p)
             /\ ViewOf(db, cache, 1, p) \in Coins \cup {Spent}
  <2>1. ViewOf(db', cache', 0, p) = db'[p] /\ ViewOf(db, cache, 0, p) = db[p]
    BY ViewZero
  <2>2. ViewOf(db', cache', 1, p) = IF cache'[1][p] # NoEntry THEN cache'[1][p].coin
                                    ELSE ViewOf(db', cache', 1 - 1, p)
    BY ViewStep, SMTT(30)
  <2>3. ViewOf(db, cache, 1, p) = IF cache[1][p] # NoEntry THEN cache[1][p].coin
                                  ELSE ViewOf(db, cache, 1 - 1, p)
    BY ViewStep, SMTT(30)
  <2>4. cache'[1][p] = NoEntry /\ 1 - 1 = 0
    BY <1>2, SMTT(30) DEF Empty
  <2>5. EntryOK(cache[1][p], ViewOf(db, cache, 1 - 1, p))
    BY <1>1, SMTT(30) DEF StackOK
  <2>6. db'[p] = Stored(cache[1][p], db[p])
    BY DEF FlushToDB
  <2>7. ViewOf(db, cache, 1, p) \in Coins \cup {Spent}
    BY <1>1, ViewType, SMTT(30)
  <2>8. db'[p] = ViewOf(db, cache, 1, p)
    BY <2>1, <2>3, <2>4, <2>5, <2>6 DEF Stored, EntryOK
  <2> QED BY <2>1, <2>2, <2>4, <2>7, <2>8
<1>4. db' \in [OutPoints -> Coins \cup {Spent}]
  <2>1. \A p \in OutPoints : db'[p] \in Coins \cup {Spent}
    <3> SUFFICES ASSUME NEW p \in OutPoints PROVE db'[p] \in Coins \cup {Spent}
      OBVIOUS
    <3>1. ViewOf(db', cache', 0, p) = db'[p]
      BY ViewZero
    <3> QED BY <1>3, <3>1
  <2>2. db' = [p \in OutPoints |-> db'[p]]
    BY DEF FlushToDB
  <2> QED BY <2>1, <2>2
<1>5. StackOK(db', cache', top')
  <2>1. 1 \in Levels /\ \A i \in 1..top' : i = 1
    BY <1>1, SMTT(30)
  <2>2. \A i \in 1..top', p \in OutPoints : cache'[i][p] = NoEntry
    BY <1>2, <2>1 DEF Empty
  <2> QED BY <2>2 DEF StackOK, EntryOK
<1>6. dbBest' \in Blocks \cup {NullHash}
  BY <1>1 DEF FlushToDB, IInv, TypeOK
<1>7. IInv'
  BY <1>1, <1>2, <1>4, <1>5, <1>6 DEF IInv, TypeOK, Caches
<1> QED BY <1>1, <1>3, <1>7, SMTT(30) DEF Committed
-----------------------------------------------------------------------------
LEMMA InitIInv == Init => IInv
<1> SUFFICES ASSUME Init PROVE IInv
  OBVIOUS
<1> USE DepthAssumption DEF Levels, Init
<1>1. TypeOK
  BY SMTT(30) DEF TypeOK, Empty
<1>2. StackOK(db, cache, top)
  BY SMTT(30) DEF StackOK, EntryOK, Empty
<1> QED BY <1>1, <1>2 DEF IInv

LEMMA NextIInv == IInv /\ [Next]_vars => IInv'
<1> SUFFICES ASSUME IInv, [Next]_vars PROVE IInv'
  OBVIOUS
<1>1. CASE UNCHANGED vars
  BY <1>1 DEF vars, IInv, TypeOK
<1>2. CASE \E i \in Levels, o \in OutPoints : AccessCoin(i, o)
  BY <1>2, AccessCoinStep
<1>3. CASE \E i \in Levels, o \in OutPoints : Uncache(i, o)
  BY <1>3, UncacheStep
<1>4. CASE \E o \in OutPoints, c \in Coins, coinbase \in BOOLEAN : UpdateCoinsAdd(o, c, coinbase)
  BY <1>4, UpdateCoinsAddStep
<1>5. CASE \E o \in OutPoints, c \in Coins : AddCoinChecked(o, c)
  BY <1>5, AddCoinCheckedStep
<1>6. CASE \E o \in OutPoints : SpendCoin(o)
  BY <1>6, SpendCoinStep
<1>7. CASE \/ \E i \in Levels : GetBestBlock(i)
           \/ \E b \in Blocks : SetBestBlock(b)
  BY <1>7, BestBlockStep
<1>8. CASE PushView
  BY <1>8, PushViewStep
<1>9. CASE PopView
  BY <1>9, PopViewStep
<1>10. CASE Flush
  BY <1>10, FlushToCacheStep, FlushToDBStep DEF Flush
<1> QED BY <1>1, <1>2, <1>3, <1>4, <1>5, <1>6, <1>7, <1>8, <1>9, <1>10 DEF Next

\* The inductive invariant: types, the meaning of every entry with respect to
\* the view below it, and no logic_error.
THEOREM Invariance == Spec => []IInv
BY InitIInv, NextIInv, PTL DEF Spec

\* Every operation of the cache stack keeps the state well-typed, and a cache
\* that has gone out of scope leaves nothing behind.
THEOREM TypeCorrect == Spec => []TypeOK
<1>1. IInv => TypeOK
  BY DEF IInv
<1> QED BY <1>1, Invariance, PTL

LEMMA IInvViews ==
    ASSUME IInv, NEW i \in 1..top, NEW o \in OutPoints
    PROVE  /\ EntryOK(cache[i][o], View(i - 1, o))
           /\ cache[i][o] \in Entry \cup {NoEntry}
<1>1. EntryOK(cache[i][o], ViewOf(db, cache, i - 1, o))
  BY IInvFacts DEF StackOK
<1>2. cache[i][o] \in Entry \cup {NoEntry}
  BY IInvFacts, DepthAssumption, SMTT(30) DEF Caches, Levels
<1> QED BY <1>1, <1>2, ViewIsViewOf

\* No interleaving of reads, writes, flushes, evictions and scopes sets FRESH
\* on an entry while the view below still has an unspent coin there.
THEOREM FreshSafe == Spec => []FreshMeansAbsentBelow
<1>1. IInv => FreshMeansAbsentBelow
  BY IInvViews DEF FreshMeansAbsentBelow, EntryOK, Has
<1> QED BY <1>1, Invariance, PTL

\* An entry that a flush skips or Uncache drops repeats what the view below
\* says, however the levels below have been read and evicted since.
THEOREM CleanSafe == Spec => []CleanMatchesParent
<1>1. IInv => CleanMatchesParent
  BY IInvViews DEF CleanMatchesParent, EntryOK, Has
<1> QED BY <1>1, Invariance, PTL

\* The flag combinations of CCoinsCacheEntry are the only ones.
THEOREM FlagsSafe == Spec => []ValidFlags
<1>1. IInv => ValidFlags
  BY IInvViews DEF ValidFlags, EntryOK, Has
<1> QED BY <1>1, Invariance, PTL

\* Neither logic_error of coins.cpp is ever thrown, given callers that pass
\* possible_overwrite as validation.cpp does.
THEOREM NeverThrows == Spec => []NoLogicError
<1>1. IInv => NoLogicError
  BY DEF IInv, NoLogicError
<1> QED BY <1>1, Invariance, PTL
-----------------------------------------------------------------------------
(* The refinement of UTXOStack.                                            *)


\* HashHolder, HashAt and Best of a database hash d under the hashes hb.
HashEnds(hb, k, i) == /\ k # 0 => hb[k] # NullHash
                      /\ \A j \in (k + 1)..i : hb[j] = NullHash

HashOf(d, hb, k) == IF k = 0 THEN d ELSE hb[k]

BestOf(d, hb, i) == HashOf(d, hb, CHOOSE k \in 0..i : HashEnds(hb, k, i))

LEMMA HashEndsExists == ASSUME NEW hb, NEW i \in Nat
                        PROVE  \E k \in 0..i : HashEnds(hb, k, i)
<1> DEFINE T == {k \in 0..i : k # 0 => hb[k] # NullHash}
<1>1. T \in SUBSET (0..i) /\ 0 \in T
  BY SMTT(30)
<1>2. PICK k \in T : \A y \in T : y <= k
  BY <1>1, NatMax
<1>3. HashEnds(hb, k, i)
  <2>1. \A j \in (k + 1)..i : j \notin T
    BY <1>2, SMTT(30)
  <2> QED BY <1>2, <2>1, SMTT(30) DEF HashEnds
<1> QED BY <1>3

LEMMA BestEnds == ASSUME NEW d, NEW hb, NEW i \in Nat, NEW k \in 0..i, HashEnds(hb, k, i)
                  PROVE  BestOf(d, hb, i) = HashOf(d, hb, k)
<1>1. \A l \in 0..i : HashEnds(hb, l, i) => l = k
  BY SMTT(30) DEF HashEnds
<1>2. (CHOOSE l \in 0..i : HashEnds(hb, l, i)) = k
  BY <1>1
<1> QED BY <1>2 DEF BestOf

\* One step of the recursion of GetBestBlock.
LEMMA BestStep == ASSUME NEW d, NEW hb, NEW i \in Nat \ {0}
                  PROVE  BestOf(d, hb, i) = IF hb[i] # NullHash THEN hb[i]
                                            ELSE BestOf(d, hb, i - 1)
<1>1. CASE hb[i] # NullHash
  <2>1. HashEnds(hb, i, i)
    BY <1>1, SMTT(30) DEF HashEnds
  <2>2. BestOf(d, hb, i) = HashOf(d, hb, i)
    BY <2>1, BestEnds, SMTT(30)
  <2> QED BY <1>1, <2>2 DEF HashOf
<1>2. CASE hb[i] = NullHash
  <2>1. PICK k \in 0..(i - 1) : HashEnds(hb, k, i - 1)
    BY HashEndsExists, SMTT(30)
  <2>2. HashEnds(hb, k, i)
    BY <1>2, <2>1, SMTT(30) DEF HashEnds
  <2>3. BestOf(d, hb, i - 1) = HashOf(d, hb, k)
    BY <2>1, BestEnds, SMTT(30)
  <2>4. BestOf(d, hb, i) = HashOf(d, hb, k)
    BY <2>2, BestEnds, SMTT(30)
  <2> QED BY <1>2, <2>3, <2>4
<1> QED BY <1>1, <1>2

LEMMA BestZero == ASSUME NEW d, NEW hb PROVE BestOf(d, hb, 0) = d
<1>1. HashEnds(hb, 0, 0)
  BY SMTT(30) DEF HashEnds
<1> QED BY <1>1, BestEnds, SMTT(30) DEF HashOf

\* Two rows of hashes that agree up to level i.
AgreeTo(hb, hb2, i) == \A j \in 1..i : hb[j] = hb2[j]

LEMMA BestSame == ASSUME NEW d, NEW hb, NEW hb2, NEW i \in Nat, AgreeTo(hb, hb2, i)
                  PROVE  BestOf(d, hb, i) = BestOf(d, hb2, i)
<1> USE DEF AgreeTo
<1>1. PICK k \in 0..i : HashEnds(hb, k, i)
  BY HashEndsExists
<1>2. HashEnds(hb2, k, i)
  BY <1>1, SMTT(30) DEF HashEnds
<1>3. HashOf(d, hb, k) = HashOf(d, hb2, k)
  BY SMTT(30) DEF HashOf
<1>4. BestOf(d, hb, i) = HashOf(d, hb, k) /\ BestOf(d, hb2, i) = HashOf(d, hb2, k)
  BY <1>1, <1>2, BestEnds
<1> QED BY <1>3, <1>4

\* GetBestBlock copies the hash it finds into every level it passed.
HashFilled(d, hb, hb2, k, i, l) ==
    \A j \in 1..l : hb2[j] = IF k < j /\ j <= i THEN HashOf(d, hb, k) ELSE hb[j]

LEMMA BestFilled ==
    ASSUME NEW d, NEW hb, NEW hb2, NEW k \in Nat, NEW i \in Nat, NEW l \in Nat, k <= i,
           HashEnds(hb, k, i), HashFilled(d, hb, hb2, k, i, l)
    PROVE  BestOf(d, hb2, l) = BestOf(d, hb, l)
<1> USE DEF HashFilled
<1>1. PICK m \in 0..l : HashEnds(hb, m, l)
  BY HashEndsExists
<1>2. BestOf(d, hb, l) = HashOf(d, hb, m)
  BY <1>1, BestEnds
<1>3. CASE HashOf(d, hb, k) = NullHash
  <2>1. AgreeTo(hb2, hb, l)
    BY <1>3, SMTT(30) DEF HashEnds, AgreeTo
  <2> QED BY <2>1, BestSame
<1>4. CASE HashOf(d, hb, k) # NullHash /\ (m > i \/ l <= k)
  <2>1. HashEnds(hb2, m, l) /\ HashOf(d, hb2, m) = HashOf(d, hb, m)
    BY <1>1, <1>4, SMTT(30) DEF HashEnds, HashOf
  <2> QED BY <1>2, <2>1, BestEnds
<1>5. CASE HashOf(d, hb, k) # NullHash /\ m <= i /\ l > k
  <2>1. m = k
    BY <1>1, <1>5, SMTT(30) DEF HashEnds
  <2> DEFINE n == IF l <= i THEN l ELSE i
  <2>2. n \in 0..l /\ n \in Nat /\ HashEnds(hb2, n, l)
    BY <1>1, <1>5, <2>1, SMTT(30) DEF HashEnds, HashOf
  <2>3. HashOf(d, hb2, n) = HashOf(d, hb, k)
    BY <1>5, SMTT(30) DEF HashOf
  <2> HIDE DEF n
  <2>4. BestOf(d, hb2, l) = HashOf(d, hb2, n)
    BY <2>2, BestEnds
  <2> QED BY <1>2, <2>1, <2>3, <2>4
<1> QED BY <1>3, <1>4, <1>5, SMTT(30)
-----------------------------------------------------------------------------
\* The state of UTXOStack that the caches stand for.
Utxo == [i \in 0..top |-> [o \in OutPoints |-> ViewOf(db, cache, i, o)]]
Bests == [i \in 0..top |-> BestOf(dbBest, hashBlock, i)]

LEMMA Mapped ==
    /\ [i \in 0..top |-> [o \in OutPoints |-> View(i, o)]] = Utxo
    /\ [i \in 0..top |-> Best(i)] = Bests
<1>1. \A i \in 0..top : Best(i) = BestOf(dbBest, hashBlock, i)
  BY DEF Best, BestOf, HashHolder, HashEnds, HashAt, HashOf
<1>2. \A i \in 0..top, o \in OutPoints : View(i, o) = ViewOf(db, cache, i, o)
  BY ViewIsViewOf
<1> QED BY <1>1, <1>2 DEF Utxo, Bests

LEMMA MappedAfter ==
    /\ [i \in 0..top |-> [o \in OutPoints |-> View(i, o)]]' = Utxo'
    /\ [i \in 0..top |-> Best(i)]' = Bests'
<1>1. \A i \in 0..top' : Best(i)' = BestOf(dbBest', hashBlock', i)
  BY DEF Best, BestOf, HashHolder, HashEnds, HashAt, HashOf
<1>2. \A i \in 0..top', o \in OutPoints : View(i, o)' = ViewOf(db', cache', i, o)
  BY DEF View, ViewOf, Holder, Ends, Has, CoinAt, CoinOf
<1> QED BY <1>1, <1>2 DEF Utxo, Bests

\* A function on 0..n that changes at n only, and one that commits n to n - 1.
ChangedOnlyAt(f, g, n, b) ==
    /\ f = [i \in 0..n |-> f[i]] /\ g = [i \in 0..n |-> g[i]]
    /\ g[n] = b /\ \A l \in 0..(n - 1) : g[l] = f[l]

LEMMA ChangedAtTop ==
    ASSUME NEW n \in Nat \ {0}, NEW f, NEW g, NEW b, ChangedOnlyAt(f, g, n, b)
    PROVE  g = [f EXCEPT ![n] = b]
<1> USE DEF ChangedOnlyAt
<1> DEFINE h == [f EXCEPT ![n] = b]
<1>1. DOMAIN f = 0..n
  <2>1. DOMAIN [i \in 0..n |-> f[i]] = 0..n
    OBVIOUS
  <2> QED BY <2>1
<1>2. h = [i \in 0..n |-> h[i]] /\ \A i \in 0..n : h[i] = IF i = n THEN b ELSE f[i]
  BY <1>1
<1>3. \A i \in 0..n : g[i] = IF i = n THEN b ELSE f[i]
  <2>1. \A i \in 0..n : i # n => i \in 0..(n - 1)
    BY SMTT(30)
  <2> QED BY <2>1
<1> HIDE DEF h
<1>4. [i \in 0..n |-> g[i]] = [i \in 0..n |-> h[i]]
  BY <1>2, <1>3
<1>5. g = h
  BY <1>2, <1>4
<1> QED BY <1>5 DEF h

LEMMA CommittedBelow ==
    ASSUME NEW n \in Nat \ {0}, NEW f, NEW g,
           f = [i \in 0..n |-> f[i]], g = [i \in 0..n |-> g[i]],
           g[n] = f[n], g[n - 1] = f[n], \A l \in 0..(n - 2) : g[l] = f[l]
    PROVE  g = [f EXCEPT ![n - 1] = f[n]]
<1> DEFINE h == [f EXCEPT ![n - 1] = f[n]]
<1>1. DOMAIN f = 0..n
  <2>1. DOMAIN [i \in 0..n |-> f[i]] = 0..n
    OBVIOUS
  <2> QED BY <2>1
<1>2. h = [i \in 0..n |-> h[i]] /\ \A i \in 0..n : h[i] = IF i = n - 1 THEN f[n] ELSE f[i]
  BY <1>1
<1>3. \A i \in 0..n : g[i] = IF i = n - 1 THEN f[n] ELSE f[i]
  <2>1. \A i \in 0..n : i = n \/ i = n - 1 \/ i \in 0..(n - 2)
    BY SMTT(30)
  <2> QED BY <2>1
<1> HIDE DEF h
<1>4. [i \in 0..n |-> g[i]] = [i \in 0..n |-> h[i]]
  BY <1>2, <1>3
<1>5. g = h
  BY <1>2, <1>4
<1> QED BY <1>5 DEF h

\* The best block of every level up to the top is as before.
BestsKept == \A l \in 0..top : BestOf(dbBest', hashBlock', l) = BestOf(dbBest, hashBlock, l)

LEMMA UtxoKept == ASSUME ViewsKept, top' = top PROVE Utxo' = Utxo
BY DEF Utxo, ViewsKept

LEMMA BestsSame == ASSUME BestsKept, top' = top PROVE Bests' = Bests
BY DEF Bests, BestsKept

LEMMA UtxoWritten ==
    ASSUME NEW o \in OutPoints, NEW c, Writes(o, c), top \in Nat, top' = top
    PROVE  Utxo' = [Utxo EXCEPT ![top][o] = c]
BY DEF Utxo, Writes

\* Nothing that happens to the coins changes a best block.
LEMMA HashesUntouched ==
    ASSUME UNCHANGED <<dbBest, hashBlock, top>> PROVE Bests' = Bests
BY DEF Bests

LEMMA GetBestBlockKeeps ==
    ASSUME IInv, NEW i \in Levels, GetBestBlock(i) PROVE BestsKept
<1> USE DepthAssumption DEF Levels
<1>1. PICK k \in 0..i : /\ HashHolder(k, i)
                        /\ hashBlock' = [j \in Levels |-> IF k < j /\ j <= i THEN HashAt(k)
                                                          ELSE hashBlock[j]]
  BY DEF GetBestBlock
<1>2. HashEnds(hashBlock, k, i) /\ HashAt(k) = HashOf(dbBest, hashBlock, k) /\ dbBest' = dbBest
  BY <1>1 DEF HashHolder, HashEnds, HashAt, HashOf, GetBestBlock
<1>3. top \in 1..Depth
  BY IInvFacts
<1> SUFFICES ASSUME NEW l \in 0..top
             PROVE  BestOf(dbBest', hashBlock', l) = BestOf(dbBest, hashBlock, l)
  BY DEF BestsKept
<1>4. HashFilled(dbBest, hashBlock, hashBlock', k, i, l)
  BY <1>1, <1>2, <1>3, SMTT(30) DEF HashFilled
<1>5. k \in Nat /\ i \in Nat /\ l \in Nat /\ k <= i
  BY <1>3, SMTT(30)
<1>6. BestOf(dbBest, hashBlock', l) = BestOf(dbBest, hashBlock, l)
  BY <1>2, <1>4, <1>5, BestFilled, SMTT(30)
<1> QED BY <1>2, <1>6

LEMMA SetBestBlockSets ==
    ASSUME IInv, NEW b \in Blocks, SetBestBlock(b)
    PROVE  Bests' = [Bests EXCEPT ![top] = b]
<1> USE DepthAssumption DEF Levels
<1>1. /\ top \in 1..Depth /\ top' = top /\ dbBest' = dbBest /\ top \in Nat \ {0}
      /\ hashBlock'[top] = b /\ b # NullHash
      /\ \A j \in 1..(top - 1) : hashBlock'[j] = hashBlock[j]
  BY IInvFacts, HashAssumption, SMTT(30) DEF SetBestBlock, IInv, TypeOK
<1>2. BestOf(dbBest', hashBlock', top) = b
  <2>1. BestOf(dbBest', hashBlock', top) = IF hashBlock'[top] # NullHash THEN hashBlock'[top]
                                           ELSE BestOf(dbBest', hashBlock', top - 1)
    BY <1>1, BestStep
  <2> QED BY <1>1, <2>1
<1>3. ASSUME NEW l \in 0..(top - 1)
      PROVE  BestOf(dbBest', hashBlock', l) = BestOf(dbBest, hashBlock, l)
  <2>1. PICK n \in Nat : n = l
    BY <1>1, SMTT(30)
  <2>2. AgreeTo(hashBlock', hashBlock, n)
    BY <1>1, <2>1, SMTT(30) DEF AgreeTo
  <2>3. BestOf(dbBest, hashBlock', n) = BestOf(dbBest, hashBlock, n)
    BY <2>2, BestSame
  <2> QED BY <1>1, <2>1, <2>3
<1>4. ChangedOnlyAt(Bests, Bests', top, b)
  BY <1>1, <1>2, <1>3, SMTT(30) DEF Bests, ChangedOnlyAt
<1>5. top \in Nat \ {0}
  BY <1>1
<1> QED BY <1>4, <1>5, ChangedAtTop

LEMMA FlushBests ==
    ASSUME IInv, Flush
    PROVE  Bests' = [Bests EXCEPT ![top - 1] = Bests[top]] /\ top' = top
<1> USE DepthAssumption DEF Levels
<1>1. top \in 1..Depth /\ top \in Nat \ {0} /\ hashBlock[top] # NullHash
      /\ hashBlock \in [Levels -> Blocks \cup {NullHash}]
  BY IInvFacts, SMTT(30) DEF Flush, IInv, TypeOK
<1>2. BestOf(dbBest, hashBlock, top) = hashBlock[top]
  <2>1. BestOf(dbBest, hashBlock, top) = IF hashBlock[top] # NullHash THEN hashBlock[top]
                                         ELSE BestOf(dbBest, hashBlock, top - 1)
    BY <1>1, BestStep
  <2> QED BY <1>1, <2>1
<1>3. CASE FlushToDB
  <2>1. top = 1 /\ top' = 1 /\ dbBest' = hashBlock[1] /\ hashBlock' = hashBlock
    BY <1>3 DEF FlushToDB
  <2>2. BestOf(dbBest', hashBlock', 0) = hashBlock[1]
    BY <2>1, BestZero
  <2>3. BestOf(dbBest', hashBlock', 1) = hashBlock[1]
    <3>1. BestOf(dbBest', hashBlock', 1) = IF hashBlock'[1] # NullHash THEN hashBlock'[1]
                                           ELSE BestOf(dbBest', hashBlock', 1 - 1)
      BY BestStep, SMTT(30)
    <3> QED BY <1>1, <2>1, <3>1
  <2>4. /\ Bests = [i \in 0..top |-> Bests[i]] /\ Bests' = [i \in 0..top |-> Bests'[i]]
        /\ Bests'[top] = Bests[top] /\ Bests'[top - 1] = Bests[top]
        /\ \A l \in 0..(top - 2) : Bests'[l] = Bests[l]
    BY <1>1, <1>2, <2>1, <2>2, <2>3, SMTT(30) DEF Bests
  <2> QED BY <1>1, <2>1, <2>4, CommittedBelow, SMTT(30)
<1>4. CASE FlushToCache
  <2>1. top > 1 /\ top' = top /\ dbBest' = dbBest
        /\ hashBlock' = [hashBlock EXCEPT ![top - 1] = hashBlock[top]]
    <3>1. thrown' = "none"
      BY <1>4, FlushToCacheStep DEF IInv
    <3> QED BY <1>4, <3>1 DEF FlushToCache
  <2>2. /\ hashBlock'[top] = hashBlock[top] /\ hashBlock'[top - 1] = hashBlock[top]
        /\ \A j \in 1..(top - 2) : hashBlock'[j] = hashBlock[j]
    BY <1>1, <2>1, SMTT(30)
  <2>3. BestOf(dbBest', hashBlock', top) = hashBlock[top]
    <3>1. BestOf(dbBest', hashBlock', top) = IF hashBlock'[top] # NullHash THEN hashBlock'[top]
                                             ELSE BestOf(dbBest', hashBlock', top - 1)
      BY <1>1, BestStep
    <3> QED BY <1>1, <2>2, <3>1
  <2>4. BestOf(dbBest', hashBlock', top - 1) = hashBlock[top]
    <3>1. PICK n \in Nat \ {0} : n = top - 1
      BY <1>1, <2>1, SMTT(30)
    <3>2. BestOf(dbBest', hashBlock', n) = IF hashBlock'[n] # NullHash THEN hashBlock'[n]
                                           ELSE BestOf(dbBest', hashBlock', n - 1)
      BY BestStep
    <3> QED BY <1>1, <2>2, <3>1, <3>2
  <2>5. ASSUME NEW l \in 0..(top - 2)
        PROVE  BestOf(dbBest', hashBlock', l) = BestOf(dbBest, hashBlock, l)
    <3>1. PICK n \in Nat : n = l
      BY <1>1, SMTT(30)
    <3>2. AgreeTo(hashBlock', hashBlock, n)
      BY <1>1, <2>2, <3>1, SMTT(30) DEF AgreeTo
    <3>3. BestOf(dbBest, hashBlock', n) = BestOf(dbBest, hashBlock, n)
      BY <3>2, BestSame
    <3> QED BY <2>1, <3>1, <3>3
  <2>6. /\ Bests = [i \in 0..top |-> Bests[i]] /\ Bests' = [i \in 0..top |-> Bests'[i]]
        /\ Bests'[top] = Bests[top] /\ Bests'[top - 1] = Bests[top]
        /\ \A l \in 0..(top - 2) : Bests'[l] = Bests[l]
    <3>1. top' = top /\ top \in Nat /\ top \in 0..top /\ top - 1 \in 0..top
          /\ \A l \in 0..(top - 2) : l \in 0..top
      BY <1>1, <2>1, SMTT(30)
    <3>2. \A l \in 0..(top - 2) : Bests'[l] = Bests[l]
      BY <2>5, <3>1 DEF Bests
    <3> QED BY <1>2, <2>3, <2>4, <3>1, <3>2 DEF Bests
  <2> QED BY <1>1, <2>1, <2>6, CommittedBelow
<1> QED BY <1>3, <1>4 DEF Flush

LEMMA FlushUtxo ==
    ASSUME IInv, Flush
    PROVE  Utxo' = [Utxo EXCEPT ![top - 1] = Utxo[top]]
<1>1. Committed /\ top' = top
  BY FlushToCacheStep, FlushToDBStep DEF Flush
<1>2. top \in Nat /\ top \in 1..top
  BY IInvFacts
<1>3. /\ Utxo = [i \in 0..top |-> Utxo[i]] /\ Utxo' = [i \in 0..top |-> Utxo'[i]]
      /\ Utxo'[top] = Utxo[top] /\ Utxo'[top - 1] = Utxo[top]
      /\ \A l \in 0..(top - 2) : Utxo'[l] = Utxo[l]
  BY <1>1, <1>2, SMTT(30) DEF Committed, Utxo
<1>4. top \in Nat \ {0}
  BY <1>2, SMTT(30)
<1> QED BY <1>3, <1>4, CommittedBelow

LEMMA PushViewOpens ==
    ASSUME IInv, PushView
    PROVE  /\ Utxo' = [i \in 0..top' |-> Utxo[IF i <= top THEN i ELSE top]]
           /\ Bests' = [i \in 0..top' |-> Bests[IF i <= top THEN i ELSE top]]
           /\ top < Depth /\ top' = top + 1
<1> USE DepthAssumption DEF Levels
<1>1. /\ top \in Nat /\ top' = top + 1 /\ top < Depth /\ top' \in Levels
      /\ UNCHANGED <<dbBest, hashBlock>>
  BY IInvFacts, SMTT(30) DEF PushView
<1>2. ViewsKept /\ \A p \in OutPoints : ViewOf(db', cache', top', p) = ViewOf(db, cache, top, p)
  BY PushViewStep
<1>3. BestOf(dbBest, hashBlock, top') = BestOf(dbBest, hashBlock, top)
  <2>1. PICK n \in Nat \ {0} : n = top'
    BY <1>1, SMTT(30)
  <2>2. BestOf(dbBest, hashBlock, n) = IF hashBlock[n] # NullHash THEN hashBlock[n]
                                       ELSE BestOf(dbBest, hashBlock, n - 1)
    BY BestStep
  <2>3. hashBlock[n] = NullHash /\ n - 1 = top
    BY <1>1, <2>1, SMTT(30) DEF IInv, TypeOK
  <2> QED BY <2>1, <2>2, <2>3
<1>4. \A i \in 0..top' : (i \in 0..top /\ i <= top) \/ (i = top' /\ ~(i <= top))
  BY <1>1, SMTT(30)
<1>5. top \in 0..top
  BY <1>1, SMTT(30)
<1>6. Utxo' = [i \in 0..top' |-> Utxo[IF i <= top THEN i ELSE top]]
  <2>1. \A i \in 0..top' : [o \in OutPoints |-> ViewOf(db', cache', i, o)]
                          = Utxo[IF i <= top THEN i ELSE top]
    BY <1>2, <1>4, <1>5 DEF ViewsKept, Utxo
  <2> QED BY <2>1 DEF Utxo
<1>7. Bests' = [i \in 0..top' |-> Bests[IF i <= top THEN i ELSE top]]
  <2>1. \A i \in 0..top' : BestOf(dbBest', hashBlock', i) = Bests[IF i <= top THEN i ELSE top]
    BY <1>1, <1>3, <1>4, <1>5 DEF Bests
  <2> QED BY <2>1 DEF Bests
<1> QED BY <1>1, <1>6, <1>7

LEMMA PopViewDiscards ==
    ASSUME IInv, PopView
    PROVE  /\ Utxo' = [i \in 0..top' |-> Utxo[i]]
           /\ Bests' = [i \in 0..top' |-> Bests[i]]
           /\ top > 1 /\ top' = top - 1
<1> USE DepthAssumption DEF Levels
<1>1. /\ top \in 1..Depth /\ top' = top - 1 /\ top > 1 /\ dbBest' = dbBest
      /\ \A j \in 1..top' : hashBlock'[j] = hashBlock[j]
  BY IInvFacts, SMTT(30) DEF PopView, IInv, TypeOK
<1>2. \A i \in 0..top' : i \in 0..top /\ i \in Nat
  BY <1>1, SMTT(30)
<1>3. Utxo' = [i \in 0..top' |-> Utxo[i]]
  <2>1. \A l \in 0..top', p \in OutPoints : ViewOf(db', cache', l, p) = ViewOf(db, cache, l, p)
    BY PopViewStep
  <2> QED BY <1>2, <2>1 DEF Utxo
<1>4. ASSUME NEW l \in 0..top'
      PROVE  BestOf(dbBest', hashBlock', l) = BestOf(dbBest, hashBlock, l)
  <2>1. PICK n \in Nat : n = l
    BY <1>2
  <2>2. AgreeTo(hashBlock', hashBlock, n)
    BY <1>1, <2>1, SMTT(30) DEF AgreeTo
  <2>3. BestOf(dbBest, hashBlock', n) = BestOf(dbBest, hashBlock, n)
    BY <2>2, BestSame
  <2> QED BY <1>1, <2>1, <2>3
<1>5. Bests' = [i \in 0..top' |-> Bests[i]]
  BY <1>2, <1>4 DEF Bests
<1> QED BY <1>1, <1>3, <1>5
-----------------------------------------------------------------------------
LEMMA InitMaps == Init => Stack!Init
<1> SUFFICES ASSUME Init PROVE Stack!Init
  OBVIOUS
<1>1. top = 1 /\ db \in [OutPoints -> Coins \cup {Spent}] /\ dbBest \in Blocks \cup {NullHash}
  BY DEF Init
<1>2. 1 \in Levels /\ \A o \in OutPoints : cache[1][o] = NoEntry
  BY DepthAssumption, SMTT(30) DEF Init, Levels, Empty
<1>3. ASSUME NEW o \in OutPoints
      PROVE  ViewOf(db, cache, 0, o) = db[o] /\ ViewOf(db, cache, 1, o) = db[o]
  <2>1. ViewOf(db, cache, 1, o) = IF cache[1][o] # NoEntry THEN cache[1][o].coin
                                  ELSE ViewOf(db, cache, 1 - 1, o)
    BY ViewStep, SMTT(30)
  <2>2. ViewOf(db, cache, 0, o) = db[o] /\ 1 - 1 = 0
    BY ViewZero, SMTT(30)
  <2> QED BY <1>2, <2>1, <2>2
<1>4. BestOf(dbBest, hashBlock, 0) = dbBest /\ BestOf(dbBest, hashBlock, 1) = dbBest
  <2>1. BestOf(dbBest, hashBlock, 1) = IF hashBlock[1] # NullHash THEN hashBlock[1]
                                       ELSE BestOf(dbBest, hashBlock, 1 - 1)
    BY BestStep, SMTT(30)
  <2>2. BestOf(dbBest, hashBlock, 0) = dbBest /\ 1 - 1 = 0
    BY BestZero, SMTT(30)
  <2>3. hashBlock[1] = NullHash
    BY <1>2 DEF Init
  <2> QED BY <2>1, <2>2, <2>3
<1>5. \A i \in 0..1 : i = 0 \/ i = 1
  BY SMTT(30)
<1>6. Utxo = [i \in 0..1 |-> db]
  <2>1. db = [o \in OutPoints |-> db[o]]
    BY <1>1
  <2>2. \A i \in 0..1 : [o \in OutPoints |-> ViewOf(db, cache, i, o)]
                       = [o \in OutPoints |-> db[o]]
    BY <1>3, <1>5
  <2> QED BY <1>1, <2>1, <2>2 DEF Utxo
<1>7. Bests = [i \in 0..1 |-> dbBest]
  BY <1>1, <1>4, <1>5 DEF Bests
<1> QED BY <1>1, <1>6, <1>7, Mapped DEF Stack!Init

LEMMA NextMaps == IInv /\ [Next]_vars => [Stack!Next]_(Stack!vars)
<1> SUFFICES ASSUME IInv, [Next]_vars PROVE [Stack!Next]_(Stack!vars)
  OBVIOUS
<1> USE Mapped, MappedAfter
<1>1. ASSUME Utxo' = Utxo, Bests' = Bests, top' = top PROVE UNCHANGED Stack!vars
  BY <1>1 DEF Stack!vars
<1>2. CASE UNCHANGED vars
  <2>1. Utxo' = Utxo /\ Bests' = Bests /\ top' = top
    BY <1>2 DEF vars, Utxo, Bests
  <2> QED BY <1>1, <2>1
<1>3. ASSUME NEW i \in Levels, NEW o \in OutPoints, AccessCoin(i, o) \/ Uncache(i, o)
      PROVE  UNCHANGED Stack!vars
  <2>1. UNCHANGED <<dbBest, hashBlock, top>>
    BY <1>3 DEF AccessCoin, Uncache
  <2>2. ViewsKept
    BY <1>3, AccessCoinStep, UncacheStep
  <2> QED BY <1>1, <2>1, <2>2, UtxoKept, HashesUntouched
<1>4. ASSUME NEW o \in OutPoints, NEW c \in Coins \cup {Spent}, Writes(o, c),
             UNCHANGED <<dbBest, hashBlock, top>>
      PROVE  Stack!Next
  <2>1. Utxo' = [Utxo EXCEPT ![top][o] = c] /\ Bests' = Bests
    BY <1>4, IInvFacts, UtxoWritten, HashesUntouched
  <2>2. Stack!Write(o, c)
    BY <1>4, <2>1 DEF Stack!Write
  <2> QED BY <2>2 DEF Stack!Next
<1>5. ASSUME NEW o \in OutPoints, NEW c \in Coins, NEW coinbase \in BOOLEAN,
             UpdateCoinsAdd(o, c, coinbase)
      PROVE  Stack!Next
  <2>1. UNCHANGED <<dbBest, hashBlock, top>>
    BY <1>5 DEF UpdateCoinsAdd, AddCoin
  <2> QED BY <1>4, <1>5, <2>1, UpdateCoinsAddStep
<1>6. ASSUME NEW o \in OutPoints, NEW c \in Coins, AddCoinChecked(o, c)
      PROVE  Stack!Next
  <2>1. UNCHANGED <<dbBest, hashBlock, top>>
    BY <1>6 DEF AddCoinChecked
  <2> QED BY <1>4, <1>6, <2>1, AddCoinCheckedStep
<1>7. ASSUME NEW o \in OutPoints, SpendCoin(o)
      PROVE  Stack!Next
  <2>1. UNCHANGED <<dbBest, hashBlock, top>>
    BY <1>7 DEF SpendCoin
  <2> QED BY <1>4, <1>7, <2>1, SpendCoinStep
<1>8. ASSUME NEW i \in Levels, GetBestBlock(i)
      PROVE  UNCHANGED Stack!vars
  <2>1. top' = top
    BY <1>8 DEF GetBestBlock
  <2>2. ViewsKept /\ BestsKept
    BY <1>8, BestBlockStep, GetBestBlockKeeps
  <2> QED BY <1>1, <2>1, <2>2, UtxoKept, BestsSame
<1>9. ASSUME NEW b \in Blocks, SetBestBlock(b)
      PROVE  Stack!Next
  <2>1. top' = top
    BY <1>9 DEF SetBestBlock
  <2>2. Utxo' = Utxo
    BY <1>9, <2>1, BestBlockStep, UtxoKept
  <2>3. Bests' = [Bests EXCEPT ![top] = b]
    BY <1>9, SetBestBlockSets
  <2>4. Stack!SetBest(b)
    BY <2>1, <2>2, <2>3 DEF Stack!SetBest
  <2> QED BY <2>4 DEF Stack!Next
<1>10. CASE PushView
  <2>1. Stack!Open
    BY <1>10, PushViewOpens DEF Stack!Open
  <2> QED BY <2>1 DEF Stack!Next
<1>11. CASE PopView
  <2>1. Stack!Discard
    BY <1>11, PopViewDiscards DEF Stack!Discard
  <2> QED BY <2>1 DEF Stack!Next
<1>12. CASE Flush
  <2>1. Stack!Commit
    BY <1>12, FlushUtxo, FlushBests DEF Stack!Commit
  <2> QED BY <2>1 DEF Stack!Next
<1> QED BY <1>2, <1>3, <1>5, <1>6, <1>7, <1>8, <1>9, <1>10, <1>11, <1>12 DEF Next

\* The caches are invisible: each operation of the stack is one write, commit,
\* opening or discarding of nested UTXO maps, or changes nothing a caller sees.
THEOREM Refinement == Spec => ImplementsStack
<1>1. Init => Stack!Init
  BY InitMaps
<1>2. IInv /\ [Next]_vars => [Stack!Next]_(Stack!vars)
  BY NextMaps
<1> QED BY <1>1, <1>2, Invariance, PTL DEF Spec, ImplementsStack, Stack!Spec
-----------------------------------------------------------------------------
(* Sums over the outpoints.  FiniteSetTheorems proves facts about all finite *)
(* sets by induction; here a smallest counterexample takes its place.        *)

\* A nonempty set of subsets of a finite set has a minimal one.
LEMMA Minimal ==
    ASSUME NEW S, IsFiniteSet(S), NEW B \in SUBSET SUBSET S, B # {}
    PROVE  \E T \in B : \A x \in T : T \ {x} \notin B
<1> DEFINE N == {Cardinality(T) : T \in B}
<1>1. \A T \in B : IsFiniteSet(T) /\ Cardinality(T) \in Nat
  BY FS_Subset, FS_CardinalityType
<1>2. N \in SUBSET Nat /\ N # {}
  <2>1. PICK T \in B : TRUE
    OBVIOUS
  <2>2. Cardinality(T) \in N
    OBVIOUS
  <2> QED BY <1>1, <2>2
<1>3. PICK n \in N : \A m \in N : n <= m
  BY <1>2, NatMin
<1>4. PICK T \in B : n = Cardinality(T)
  OBVIOUS
<1>5. ASSUME NEW x \in T, T \ {x} \in B PROVE FALSE
  <2>1. Cardinality(T \ {x}) = Cardinality(T) - 1
    BY <1>1, FS_RemoveElement
  <2>2. Cardinality(T \ {x}) \in N
    BY <1>5
  <2>3. Cardinality(T) <= Cardinality(T \ {x}) /\ Cardinality(T) \in Nat
    BY <1>1, <1>3, <1>4, <2>2
  <2> QED BY <2>1, <2>3, SMTT(30)
<1> QED BY <1>5

\* f[T] is the sum of w over T, in whatever order it is taken.
IsSum(S, w, f) ==
    /\ f \in [SUBSET S -> Int] /\ f[{}] = 0
    /\ \A T \in SUBSET S : \A x \in T : f[T] = w[x] + f[T \ {x}]

\* w has sums on R.
HasSum(w, R) == \E f : IsSum(R, w, f)

LEMMA SumExists ==
    ASSUME NEW S, IsFiniteSet(S), NEW w \in [S -> Int]
    PROVE  HasSum(w, S)
<1> DEFINE B == {R \in SUBSET S : ~HasSum(w, R)}
<1> SUFFICES B = {}
  OBVIOUS
<1>1. SUFFICES ASSUME B # {} PROVE FALSE
  OBVIOUS
<1>2. B \in SUBSET SUBSET S
  OBVIOUS
<1>3. PICK R \in B : \A x \in R : R \ {x} \notin B
  <2> HIDE DEF B
  <2> QED BY <1>1, <1>2, Minimal
<1>4. CASE R = {}
  <2> DEFINE f == [T \in SUBSET R |-> 0]
  <2>1. IsSum(R, w, f)
    BY <1>4, SMTT(30) DEF IsSum
  <2> HIDE DEF f
  <2> QED BY <1>3, <2>1 DEF HasSum
<1>5. CASE R # {}
  <2>1. PICK y \in R : TRUE
    BY <1>5
  <2> DEFINE Q == R \ {y}
  <2>2. PICK g : IsSum(Q, w, g)
    BY <1>3, <2>1 DEF HasSum
  <2> DEFINE f == [T \in SUBSET R |-> IF y \in T THEN w[y] + g[T \ {y}] ELSE g[T]]
  <2>3. \A T \in SUBSET R : T \ {y} \in SUBSET Q /\ (y \notin T => T \in SUBSET Q)
    OBVIOUS
  <2>4. w[y] \in Int /\ \A x \in R : w[x] \in Int
    BY <2>1
  <2>5. g \in [SUBSET Q -> Int] /\ g[{}] = 0
        /\ \A T \in SUBSET Q : \A x \in T : g[T] = w[x] + g[T \ {x}]
    BY <2>2 DEF IsSum
  <2>6. f \in [SUBSET R -> Int]
    BY <2>3, <2>4, <2>5, SMTT(30)
  <2>7. f[{}] = 0
    BY <2>5
  <2>8. ASSUME NEW T \in SUBSET R, NEW x \in T PROVE f[T] = w[x] + f[T \ {x}]
    <3>0. T \ {x} \in SUBSET R
      OBVIOUS
    <3>1. CASE x = y
      BY <2>3, <3>0, <3>1
    <3>2. CASE x # y /\ y \in T
      <4>1. PICK n \in Int : n = g[(T \ {x}) \ {y}]
        BY <2>3, <2>5, <3>0
      <4>2. (T \ {y}) \ {x} = (T \ {x}) \ {y}
        OBVIOUS
      <4>3. g[T \ {y}] = w[x] + n
        <5>1. T \ {y} \in SUBSET Q /\ x \in T \ {y}
          BY <3>2
        <5>2. g[T \ {y}] = w[x] + g[(T \ {y}) \ {x}]
          BY <2>5, <5>1
        <5> QED BY <4>1, <4>2, <5>2
      <4>4. f[T] = w[y] + (w[x] + n)
        BY <3>2, <4>3
      <4>5. f[T \ {x}] = w[y] + n
        BY <3>0, <3>2, <4>1
      <4>6. PICK a \in Int, b \in Int : a = w[x] /\ b = w[y]
        BY <2>4
      <4>7. b + (a + n) = a + (b + n)
        BY SMTT(30)
      <4> HIDE DEF f
      <4> QED BY <4>4, <4>5, <4>6, <4>7
    <3>3. CASE x # y /\ y \notin T
      <4>1. f[T] = g[T] /\ f[T \ {x}] = g[T \ {x}]
        BY <3>0, <3>3
      <4>2. T \in SUBSET Q
        BY <3>3
      <4>3. g[T] = w[x] + g[T \ {x}]
        BY <2>5, <4>2
      <4> HIDE DEF f
      <4> QED BY <4>1, <4>3
    <3> QED BY <3>1, <3>2, <3>3
  <2>9. IsSum(R, w, f)
    <3> HIDE DEF f
    <3> QED BY <2>6, <2>7, <2>8 DEF IsSum
  <2> HIDE DEF f
  <2> QED BY <1>3, <2>9 DEF HasSum
<1> QED BY <1>4, <1>5

\* Total is that sum.
LEMMA TotalIsSum ==
    ASSUME NEW w \in [OutPoints -> Int]
    PROVE  \E f : IsSum(OutPoints, w, f) /\ Total(w) = f[OutPoints]
<1> DEFINE S == OutPoints
           first(T) == CHOOSE x \in T : TRUE
           Iter(h) == h = [T \in SUBSET S |-> IF T = {} THEN 0 ELSE w[first(T)] + h[T \ {first(T)}]]
           g == CHOOSE h : Iter(h)
<1>1. PICK f : IsSum(S, w, f)
  BY FiniteAssumption, SumExists DEF HasSum
<1>2. Total(w) = g[S]
  BY DEF Total, MapThenSumSet, MapThenFoldSet
<1>3. Iter(f)
  <2>1. ASSUME NEW T \in SUBSET S
        PROVE  f[T] = IF T = {} THEN 0 ELSE w[first(T)] + f[T \ {first(T)}]
    <3>1. CASE T = {}
      BY <1>1, <3>1 DEF IsSum
    <3>2. CASE T # {}
      <4>1. first(T) \in T
        BY <3>2
      <4> HIDE DEF first
      <4> QED BY <1>1, <3>2, <4>1 DEF IsSum
    <3> QED BY <3>1, <3>2
  <2>2. f = [T \in SUBSET S |-> f[T]]
    BY <1>1 DEF IsSum
  <2> HIDE DEF first
  <2> QED BY <2>1, <2>2
<1>4. Iter(g)
  <2> HIDE DEF Iter
  <2> QED BY <1>3
<1>5. \A T \in SUBSET S : g[T] = IF T = {} THEN 0 ELSE w[first(T)] + g[T \ {first(T)}]
  <2> HIDE DEF g, first
  <2> QED BY <1>4
<1>6. \A T \in SUBSET S : f[T] = IF T = {} THEN 0 ELSE w[first(T)] + f[T \ {first(T)}]
  <2> HIDE DEF first
  <2> QED BY <1>3
<1> HIDE DEF g, Iter
<1>7. \A T \in SUBSET S : g[T] = f[T]
  <2> DEFINE B == {T \in SUBSET S : g[T] # f[T]}
  <2> SUFFICES ASSUME B # {} PROVE FALSE
    OBVIOUS
  <2>1. PICK T \in B : \A x \in T : T \ {x} \notin B
    <3>1. B \in SUBSET SUBSET S
      OBVIOUS
    <3> HIDE DEF B
    <3> QED BY <3>1, Minimal, FiniteAssumption
  <2>2. T # {}
    BY <1>5, <1>6
  <2>3. first(T) \in T
    BY <2>2
  <2> HIDE DEF first
  <2>4. g[T \ {first(T)}] = f[T \ {first(T)}]
    BY <2>1, <2>3
  <2> QED BY <1>5, <1>6, <2>2, <2>4
<1> QED BY <1>1, <1>2, <1>7

\* Changing one outpoint changes the sum by as much.
LEMMA TotalChange ==
    ASSUME NEW w \in [OutPoints -> Int], NEW v \in [OutPoints -> Int], NEW o \in OutPoints,
           \A p \in OutPoints \ {o} : v[p] = w[p]
    PROVE  Total(v) = Total(w) - w[o] + v[o] /\ Total(w) \in Int
<1> DEFINE S == OutPoints
<1>1. PICK f : IsSum(S, w, f) /\ Total(w) = f[S]
  BY TotalIsSum
<1>2. PICK g : IsSum(S, v, g) /\ Total(v) = g[S]
  BY TotalIsSum
<1>3. \A T \in SUBSET (S \ {o}) : g[T] = f[T]
  <2> DEFINE B == {T \in SUBSET (S \ {o}) : g[T] # f[T]}
  <2> SUFFICES ASSUME B # {} PROVE FALSE
    OBVIOUS
  <2>1. PICK T \in B : \A x \in T : T \ {x} \notin B
    <3>1. B \in SUBSET SUBSET (S \ {o}) /\ IsFiniteSet(S \ {o})
      BY FS_RemoveElement, FiniteAssumption
    <3> HIDE DEF B
    <3> QED BY <3>1, Minimal
  <2>2. T # {}
    BY <1>1, <1>2 DEF IsSum
  <2>3. PICK x \in T : TRUE
    BY <2>2
  <2>4. g[T \ {x}] = f[T \ {x}] /\ v[x] = w[x]
    BY <2>1, <2>3
  <2>5. g[T] = v[x] + g[T \ {x}] /\ f[T] = w[x] + f[T \ {x}]
    BY <1>1, <1>2, <2>3 DEF IsSum
  <2> QED BY <2>4, <2>5
<1>4. g[S] = v[o] + g[S \ {o}] /\ f[S] = w[o] + f[S \ {o}]
  BY <1>1, <1>2 DEF IsSum
<1>5. f[S \ {o}] \in Int /\ f[S] \in Int /\ v[o] \in Int /\ w[o] \in Int
  BY <1>1 DEF IsSum
<1>6. g[S \ {o}] = f[S \ {o}]
  BY <1>3
<1> QED BY <1>1, <1>2, <1>4, <1>5, <1>6, SMTT(30)

\* The sum of the differences is the difference of the sums.
LEMMA TotalAdd ==
    ASSUME NEW u \in [OutPoints -> Int], NEW v \in [OutPoints -> Int], NEW w \in [OutPoints -> Int],
           \A p \in OutPoints : u[p] = v[p] + w[p]
    PROVE  Total(u) = Total(v) + Total(w) /\ Total(v) \in Int /\ Total(w) \in Int
<1> DEFINE S == OutPoints
<1>1. PICK e : IsSum(S, u, e) /\ Total(u) = e[S]
  BY TotalIsSum
<1>2. PICK f : IsSum(S, v, f) /\ Total(v) = f[S]
  BY TotalIsSum
<1>3. PICK g : IsSum(S, w, g) /\ Total(w) = g[S]
  BY TotalIsSum
<1>4. \A T \in SUBSET S : e[T] = f[T] + g[T]
  <2> DEFINE B == {T \in SUBSET S : e[T] # f[T] + g[T]}
  <2> SUFFICES ASSUME B # {} PROVE FALSE
    OBVIOUS
  <2>1. PICK T \in B : \A x \in T : T \ {x} \notin B
    <3>1. B \in SUBSET SUBSET S
      OBVIOUS
    <3> HIDE DEF B
    <3> QED BY <3>1, Minimal, FiniteAssumption
  <2>2. T # {}
    <3>1. e[{}] = 0 /\ f[{}] = 0 /\ g[{}] = 0
      BY <1>1, <1>2, <1>3 DEF IsSum
    <3>2. e[{}] = f[{}] + g[{}]
      BY <3>1, SMTT(30)
    <3>3. e[T] # f[T] + g[T]
      BY <2>1
    <3> HIDE DEF B
    <3> QED BY <3>2, <3>3
  <2>3. PICK x \in T : TRUE
    BY <2>2
  <2>4. e[T \ {x}] = f[T \ {x}] + g[T \ {x}] /\ u[x] = v[x] + w[x]
    BY <2>1, <2>3
  <2>5. e[T] = u[x] + e[T \ {x}] /\ f[T] = v[x] + f[T \ {x}] /\ g[T] = w[x] + g[T \ {x}]
    BY <1>1, <1>2, <1>3, <2>3 DEF IsSum
  <2>6. f[T \ {x}] \in Int /\ g[T \ {x}] \in Int /\ v[x] \in Int /\ w[x] \in Int
    BY <1>2, <1>3, <2>3 DEF IsSum
  <2> QED BY <2>4, <2>5, <2>6, SMTT(30)
<1>5. f[S] \in Int /\ g[S] \in Int
  BY <1>2, <1>3 DEF IsSum
<1> QED BY <1>1, <1>2, <1>3, <1>4, <1>5

LEMMA TotalZero ==
    ASSUME NEW w \in [OutPoints -> Int], \A p \in OutPoints : w[p] = 0
    PROVE  Total(w) = 0
<1>1. Total(w) = Total(w) + Total(w) /\ Total(w) \in Int
  <2>1. \A p \in OutPoints : w[p] = w[p] + w[p]
    BY SMTT(30)
  <2>2. Total(w) = Total(w) + Total(w) /\ Total(w) \in Int /\ Total(w) \in Int
    BY ONLY <2>1, w \in [OutPoints -> Int], TotalAdd
  <2> QED BY <2>2
<1>2. \A n \in Int : n = n + n => n = 0
  BY SMTT(30)
<1> QED BY <1>1, <1>2
-----------------------------------------------------------------------------
(* The memory accounting.                                                  *)

\* us is what the entries of the stack ch use, level by level.
Accounted(ch, us) == us \in [Levels -> Int] /\ \A i \in Levels : us[i] = CacheUsage(ch[i])

\* The inductive invariant of the accounting, beside IInv.
UInv == Accounted(cache, usage)

LEMMA UsageType ==
    /\ \A c \in Coins \cup {Spent} : DynamicMemoryUsage(c) \in Int
    /\ \A e \in Entry \cup {NoEntry} : EntryUsage(e) \in Int
    /\ EntryUsage(NoEntry) = 0
<1>1. \A c \in Coins \cup {Spent} : DynamicMemoryUsage(c) \in Int
  BY CoinAssumption, SMTT(30) DEF DynamicMemoryUsage
<1>2. \A e \in Entry : e.coin \in Coins \cup {Spent}
  BY DEF Entry
<1> QED BY <1>1, <1>2, SMTT(30) DEF EntryUsage

\* A cache that changes at one outpoint.
LEMMA EntryChanged ==
    ASSUME NEW a \in [OutPoints -> Entry \cup {NoEntry}],
           NEW b \in [OutPoints -> Entry \cup {NoEntry}],
           NEW o \in OutPoints, \A p \in OutPoints \ {o} : b[p] = a[p]
    PROVE  /\ CacheUsage(b) = CacheUsage(a) - EntryUsage(a[o]) + EntryUsage(b[o])
           /\ CacheUsage(a) \in Int
<1> DEFINE v == [p \in OutPoints |-> EntryUsage(a[p])]
           w == [p \in OutPoints |-> EntryUsage(b[p])]
<1>1. v \in [OutPoints -> Int] /\ w \in [OutPoints -> Int]
  BY UsageType
<1>2. \A p \in OutPoints \ {o} : w[p] = v[p]
  OBVIOUS
<1>3. v[o] = EntryUsage(a[o]) /\ w[o] = EntryUsage(b[o])
  OBVIOUS
<1>4. CacheUsage(a) = Total(v) /\ CacheUsage(b) = Total(w)
  BY DEF CacheUsage
<1> HIDE DEF v, w
<1>5. Total(w) = Total(v) - v[o] + w[o] /\ Total(v) \in Int
  BY <1>1, <1>2, TotalChange
<1> QED BY <1>3, <1>4, <1>5

LEMMA EmptyUsage == CacheUsage(Empty) = 0
<1> DEFINE w == [p \in OutPoints |-> EntryUsage(Empty[p])]
<1>1. w \in [OutPoints -> Int] /\ \A p \in OutPoints : w[p] = 0
  BY UsageType DEF Empty
<1>2. CacheUsage(Empty) = Total(w)
  BY DEF CacheUsage
<1> HIDE DEF w
<1> QED BY <1>1, <1>2, TotalZero

\* One entry of one level is replaced, and its usage with it.
LEMMA PutAccounted ==
    ASSUME NEW ch \in Caches, NEW us, Accounted(ch, us), NEW i \in Levels, NEW o \in OutPoints,
           NEW e \in Entry \cup {NoEntry}, NEW n \in Int,
           n = us[i] - EntryUsage(ch[i][o]) + EntryUsage(e)
    PROVE  Accounted([ch EXCEPT ![i][o] = e], [us EXCEPT ![i] = n])
<1> DEFINE ch2 == [ch EXCEPT ![i][o] = e]
           us2 == [us EXCEPT ![i] = n]
<1>1. us \in [Levels -> Int] /\ \A j \in Levels : us[j] = CacheUsage(ch[j])
  BY DEF Accounted
<1>2. us2 \in [Levels -> Int] /\ us2[i] = n /\ \A j \in Levels : j # i => us2[j] = us[j]
  BY <1>1
<1>3. /\ ch[i] \in [OutPoints -> Entry \cup {NoEntry}]
      /\ ch2[i] \in [OutPoints -> Entry \cup {NoEntry}]
      /\ ch2[i][o] = e /\ \A p \in OutPoints \ {o} : ch2[i][p] = ch[i][p]
      /\ \A j \in Levels : j # i => ch2[j] = ch[j]
  BY DEF Caches
<1> HIDE DEF ch2, us2
<1>4. CacheUsage(ch2[i]) = CacheUsage(ch[i]) - EntryUsage(ch[i][o]) + EntryUsage(ch2[i][o])
  BY <1>3, EntryChanged
<1>5. CacheUsage(ch2[i]) = n
  BY <1>1, <1>3, <1>4
<1>6. \A j \in Levels : us2[j] = CacheUsage(ch2[j])
  BY <1>1, <1>2, <1>3, <1>5
<1>7. Accounted(ch2, us2)
  BY <1>2, <1>6 DEF Accounted
<1> QED BY <1>7 DEF ch2, us2

\* FetchCoin adds the coin to every level that it fills.
LEMMA FetchAccounted ==
    ASSUME IInv, UInv, NEW i \in 1..top, NEW o \in OutPoints, NEW k \in 0..i, Holder(k, i, o)
    PROVE  Accounted(FetchCoin(k, i, o), FetchUsage(k, i, o))
<1> USE DepthAssumption DEF Levels
<1> DEFINE c == CoinAt(k, o)
           ch == FetchCoin(k, i, o)
           us == FetchUsage(k, i, o)
<1>1. /\ cache \in Caches /\ db \in [OutPoints -> Coins \cup {Spent}] /\ top \in 1..Depth
      /\ usage \in [Levels -> Int] /\ \A j \in Levels : usage[j] = CacheUsage(cache[j])
  BY IInvFacts DEF UInv, Accounted
<1>2. c \in Coins \cup {Spent}
  <2>1. CASE k = 0
    BY <1>1, <2>1 DEF CoinAt
  <2>2. CASE k # 0
    <3>1. k \in 1..Depth /\ cache[k][o] # NoEntry
      BY <1>1, <2>2, SMTT(30) DEF Holder, Has
    <3>2. cache[k][o] \in Entry
      BY <1>1, <3>1, SMTT(30) DEF Caches
    <3> QED BY <2>2, <3>2 DEF CoinAt, Entry
  <2> QED BY <2>1, <2>2
<1>3. DynamicMemoryUsage(c) \in Int
  BY <1>2, UsageType
<1>4. /\ us \in [Levels -> Int]
      /\ \A j \in Levels : us[j] = IF k < j /\ j <= i THEN usage[j] + DynamicMemoryUsage(c)
                                   ELSE usage[j]
  BY <1>1, <1>3, SMTT(30) DEF FetchUsage
<1>5. ASSUME NEW j \in Levels PROVE us[j] = CacheUsage(ch[j])
  <2>1. CASE c = Spent
    <3>1. DynamicMemoryUsage(c) = 0 /\ ch = cache
      BY <2>1 DEF DynamicMemoryUsage, FetchCoin
    <3> QED BY <1>1, <1>4, <3>1, SMTT(30)
  <2>2. CASE c # Spent /\ ~(k < j /\ j <= i)
    <3>1. ch[j] = cache[j]
      BY <2>2 DEF FetchCoin
    <3> QED BY <1>1, <1>4, <2>2, <3>1
  <2>3. CASE c # Spent /\ k < j /\ j <= i
    <3> DEFINE f == Fetched(c)
    <3>1. ch[j] = [cache[j] EXCEPT ![o] = f]
      BY <2>3 DEF FetchCoin
    <3>2. f \in Entry /\ EntryUsage(f) = DynamicMemoryUsage(c)
      <4>1. f = [coin |-> c, flags |-> {}]
        BY <2>3 DEF Fetched
      <4>2. f \in Entry
        BY <1>2, <4>1, SMTT(30) DEF Entry
      <4> QED BY <4>1, <4>2, EntryAssumption, SMTT(30) DEF EntryUsage
    <3>3. cache[j] \in [OutPoints -> Entry \cup {NoEntry}] /\ cache[j][o] = NoEntry
      <4>1. j \in (k + 1)..i
        BY <2>3, SMTT(30)
      <4> QED BY <1>1, <4>1 DEF Holder, Has, Caches
    <3> HIDE DEF f, c, ch
    <3>4. /\ ch[j] \in [OutPoints -> Entry \cup {NoEntry}] /\ ch[j][o] = f
          /\ \A p \in OutPoints \ {o} : ch[j][p] = cache[j][p]
      BY <3>1, <3>2, <3>3
    <3>5. /\ CacheUsage(ch[j]) = CacheUsage(cache[j]) - EntryUsage(cache[j][o]) + EntryUsage(ch[j][o])
          /\ CacheUsage(cache[j]) \in Int
      BY <3>3, <3>4, EntryChanged
    <3>6. EntryUsage(cache[j][o]) = 0 /\ EntryUsage(ch[j][o]) = DynamicMemoryUsage(c)
      BY <3>2, <3>3, <3>4, UsageType
    <3> QED BY <1>1, <1>3, <1>4, <2>3, <3>5, <3>6, SMTT(30)
  <2> QED BY <2>1, <2>2, <2>3
<1> QED BY <1>4, <1>5 DEF Accounted

\* What AddCoin and SpendCoin subtract and add is the usage of the entries.
LEMMA WrittenUsage ==
    ASSUME NEW e \in Entry \cup {NoEntry}, NEW c \in Coins, NEW overwrite \in BOOLEAN
    PROVE  /\ DynamicMemoryUsage(Emplaced(e).coin) = EntryUsage(e)
           /\ EntryUsage(Added(Emplaced(e), c, overwrite)) = DynamicMemoryUsage(c)
           /\ Added(Emplaced(e), c, overwrite) \in Entry
<1>1. DynamicMemoryUsage(Emplaced(e).coin) = EntryUsage(e)
  BY DEF Emplaced, EntryUsage, DynamicMemoryUsage
<1>2. Emplaced(e).flags \in SUBSET {"DIRTY", "FRESH"}
  BY DEF Emplaced, Entry
<1>3. Added(Emplaced(e), c, overwrite) \in Entry /\ Added(Emplaced(e), c, overwrite).coin = c
  BY <1>2 DEF Added, Entry
<1> QED BY <1>1, <1>3, EntryAssumption DEF EntryUsage

\* The topmost cache of a stack that is accounted for gets a coin added.
LEMMA AddAccounted ==
    ASSUME IInv, NEW ch \in Caches, NEW us, Accounted(ch, us), NEW o \in OutPoints,
           NEW c \in Coins, NEW overwrite \in BOOLEAN,
           cache' = [ch EXCEPT ![top][o] = Added(Emplaced(ch[top][o]), c, overwrite)],
           usage' = [us EXCEPT ![top] = @ - DynamicMemoryUsage(Emplaced(ch[top][o]).coin)
                                          + DynamicMemoryUsage(c)]
    PROVE  UInv'
<1> DEFINE e == ch[top][o]
           a == Added(Emplaced(e), c, overwrite)
           n == us[top] - DynamicMemoryUsage(Emplaced(e).coin) + DynamicMemoryUsage(c)
<1>1. top \in Levels /\ us \in [Levels -> Int]
  BY IInvFacts DEF Accounted
<1>2. e \in Entry \cup {NoEntry}
  BY <1>1 DEF Caches
<1>3. /\ DynamicMemoryUsage(Emplaced(e).coin) = EntryUsage(e)
      /\ EntryUsage(a) = DynamicMemoryUsage(c) /\ a \in Entry
  BY <1>2, WrittenUsage
<1>4. EntryUsage(e) \in Int /\ DynamicMemoryUsage(c) \in Int /\ us[top] \in Int
  BY <1>1, <1>2, UsageType
<1>5. n \in Int /\ n = us[top] - EntryUsage(e) + EntryUsage(a)
  BY <1>3, <1>4, SMTT(30)
<1>6. usage' = [us EXCEPT ![top] = n]
  OBVIOUS
<1>7. cache' = [ch EXCEPT ![top][o] = a]
  OBVIOUS
<1> HIDE DEF n, a
<1>8. Accounted([ch EXCEPT ![top][o] = a], [us EXCEPT ![top] = n])
  BY <1>1, <1>3, <1>5, PutAccounted
<1> QED BY <1>6, <1>7, <1>8 DEF UInv, Accounted

LEMMA UpdateCoinsAddUsage ==
    ASSUME IInv, UInv, NEW o \in OutPoints, NEW c \in Coins, NEW coinbase \in BOOLEAN,
           UpdateCoinsAdd(o, c, coinbase)
    PROVE  UInv'
<1>1. thrown' = "none"
  BY UpdateCoinsAddStep DEF IInv
<1>2. /\ cache' = [cache EXCEPT ![top][o] = Added(Emplaced(cache[top][o]), c, coinbase)]
      /\ usage' = [usage EXCEPT ![top] = @ - DynamicMemoryUsage(Emplaced(cache[top][o]).coin)
                                           + DynamicMemoryUsage(c)]
  BY <1>1 DEF UpdateCoinsAdd, AddCoin
<1>3. cache \in Caches /\ Accounted(cache, usage)
  BY IInvFacts DEF UInv
<1> QED BY <1>2, <1>3, AddAccounted

LEMMA AddCoinCheckedUsage ==
    ASSUME IInv, UInv, NEW o \in OutPoints, NEW c \in Coins, AddCoinChecked(o, c)
    PROVE  UInv'
<1>1. PICK k \in 0..top :
        /\ Holder(k, top, o)
        /\ cache' = [FetchCoin(k, top, o) EXCEPT ![top][o] =
                       Added(Emplaced(FetchCoin(k, top, o)[top][o]), c, CoinAt(k, o) # Spent)]
        /\ usage' = [FetchUsage(k, top, o) EXCEPT ![top] =
                       @ - DynamicMemoryUsage(Emplaced(FetchCoin(k, top, o)[top][o]).coin)
                         + DynamicMemoryUsage(c)]
  BY DEF AddCoinChecked
<1>2. PICK ch, us, overwrite :
        ch = FetchCoin(k, top, o) /\ us = FetchUsage(k, top, o) /\ overwrite = (CoinAt(k, o) # Spent)
  OBVIOUS
<1>3. Accounted(ch, us) /\ ch \in Caches /\ overwrite \in BOOLEAN
  BY <1>1, <1>2, FetchAccounted, FetchCoinOK, IInvFacts
<1>4. /\ cache' = [ch EXCEPT ![top][o] = Added(Emplaced(ch[top][o]), c, overwrite)]
      /\ usage' = [us EXCEPT ![top] = @ - DynamicMemoryUsage(Emplaced(ch[top][o]).coin)
                                        + DynamicMemoryUsage(c)]
  BY <1>1, <1>2
<1> QED BY <1>3, <1>4, AddAccounted

LEMMA SpendCoinUsage ==
    ASSUME IInv, UInv, NEW o \in OutPoints, SpendCoin(o)
    PROVE  UInv'
<1>1. PICK k \in 0..top :
        /\ Holder(k, top, o)
        /\ FetchCoin(k, top, o)[top][o] # NoEntry
        /\ cache' = [FetchCoin(k, top, o) EXCEPT ![top][o] = SpentEntry(FetchCoin(k, top, o)[top][o])]
        /\ usage' = [FetchUsage(k, top, o) EXCEPT ![top] =
                       @ - DynamicMemoryUsage(FetchCoin(k, top, o)[top][o].coin)]
  BY DEF SpendCoin
<1>2. PICK ch, us : ch = FetchCoin(k, top, o) /\ us = FetchUsage(k, top, o)
  OBVIOUS
<1>3. Accounted(ch, us) /\ ch \in Caches
  BY <1>1, <1>2, FetchAccounted, FetchCoinOK, IInvFacts
<1> DEFINE e == ch[top][o]
           n == us[top] - DynamicMemoryUsage(e.coin)
<1>4. top \in Levels /\ us \in [Levels -> Int]
  BY <1>3, IInvFacts DEF Accounted
<1>5. e \in Entry
  BY <1>1, <1>2, <1>3, <1>4 DEF Caches
<1>6. SpentEntry(e) \in Entry \cup {NoEntry} /\ EntryUsage(SpentEntry(e)) = 0
  <2>1. e.flags \cup {"DIRTY"} \in SUBSET {"DIRTY", "FRESH"}
    BY <1>5 DEF Entry
  <2> QED BY <2>1 DEF SpentEntry, Entry, EntryUsage, DynamicMemoryUsage
<1>7. EntryUsage(e) = DynamicMemoryUsage(e.coin) /\ EntryUsage(e) \in Int /\ us[top] \in Int
  BY <1>4, <1>5, EntryAssumption, UsageType DEF EntryUsage
<1>8. n \in Int /\ n = us[top] - EntryUsage(e) + EntryUsage(SpentEntry(e))
  BY <1>6, <1>7, SMTT(30)
<1>9. cache' = [ch EXCEPT ![top][o] = SpentEntry(e)] /\ usage' = [us EXCEPT ![top] = n]
  BY <1>1, <1>2
<1> HIDE DEF n
<1>10. Accounted([ch EXCEPT ![top][o] = SpentEntry(e)], [us EXCEPT ![top] = n])
  BY <1>3, <1>4, <1>6, <1>8, PutAccounted
<1> QED BY <1>9, <1>10 DEF UInv, Accounted

LEMMA UncacheUsage ==
    ASSUME IInv, UInv, NEW i \in Levels, NEW o \in OutPoints, Uncache(i, o)
    PROVE  UInv'
<1> DEFINE e == cache[i][o]
           n == usage[i] - DynamicMemoryUsage(e.coin)
<1>1. cache \in Caches /\ Accounted(cache, usage) /\ usage \in [Levels -> Int]
  BY IInvFacts DEF UInv, Accounted
<1>2. e \in Entry /\ e # NoEntry
  BY <1>1 DEF Uncache, Has, Caches
<1>3. /\ EntryUsage(e) = DynamicMemoryUsage(e.coin) /\ EntryUsage(e) \in Int
      /\ usage[i] \in Int /\ EntryUsage(NoEntry) = 0
  BY <1>1, <1>2, UsageType DEF EntryUsage
<1>4. n \in Int /\ n = usage[i] - EntryUsage(e) + EntryUsage(NoEntry)
  BY <1>3, SMTT(30)
<1>5. cache' = [cache EXCEPT ![i][o] = NoEntry] /\ usage' = [usage EXCEPT ![i] = n]
  BY DEF Uncache
<1> HIDE DEF n
<1>6. Accounted([cache EXCEPT ![i][o] = NoEntry], [usage EXCEPT ![i] = n])
  BY <1>1, <1>4, PutAccounted
<1> QED BY <1>5, <1>6 DEF UInv, Accounted

\* What BatchWrite adds for one entry.
LEMMA MergedUsageExact ==
    ASSUME NEW e \in Entry \cup {NoEntry}, NEW us \in Entry \cup {NoEntry}
    PROVE  /\ EntryUsage(Merged(e, us)) = EntryUsage(us) + MergedUsage(e, us)
           /\ MergedUsage(e, us) \in Int
<1>1. EntryUsage(us) \in Int /\ EntryUsage(e) \in Int /\ EntryUsage(NoEntry) = 0
  BY UsageType
<1>2. us # NoEntry => EntryUsage(us) = DynamicMemoryUsage(us.coin)
  BY DEF EntryUsage
<1>3. e # NoEntry => EntryUsage(e) = DynamicMemoryUsage(e.coin)
  BY DEF EntryUsage
<1>4. CASE e = NoEntry \/ "DIRTY" \notin e.flags
  BY <1>1, <1>4, SMTT(30) DEF Merged, MergedUsage
<1>5. CASE e # NoEntry /\ "DIRTY" \in e.flags
  <2>0. \A f \in SUBSET {"DIRTY", "FRESH"} :
          /\ [coin |-> e.coin, flags |-> f] \in Entry
          /\ EntryUsage([coin |-> e.coin, flags |-> f]) = DynamicMemoryUsage(e.coin)
    <3>1. e.coin \in Coins \cup {Spent}
      BY <1>5 DEF Entry
    <3>2. \A f \in SUBSET {"DIRTY", "FRESH"} : [coin |-> e.coin, flags |-> f] \in Entry
      BY <3>1 DEF Entry
    <3> QED BY <3>2, EntryAssumption DEF EntryUsage
  <2>1. CASE us = NoEntry
    <3>1. CASE "FRESH" \in e.flags /\ e.coin = Spent
      BY <1>1, <1>5, <2>1, <3>1, SMTT(30) DEF Merged, MergedUsage
    <3>2. CASE ~("FRESH" \in e.flags /\ e.coin = Spent)
      <4>1. {"DIRTY"} \cup (e.flags \cap {"FRESH"}) \in SUBSET {"DIRTY", "FRESH"}
        OBVIOUS
      <4>2. Merged(e, us) = [coin |-> e.coin, flags |-> {"DIRTY"} \cup (e.flags \cap {"FRESH"})]
        BY <1>5, <2>1, <3>2 DEF Merged
      <4>3. EntryUsage(Merged(e, us)) = DynamicMemoryUsage(e.coin)
        BY <2>0, <4>1, <4>2
      <4>4. MergedUsage(e, us) = DynamicMemoryUsage(e.coin)
        BY <1>5, <2>1, <3>2 DEF MergedUsage
      <4> QED BY <1>1, <1>3, <1>5, <2>1, <4>3, <4>4, SMTT(30)
    <3> QED BY <3>1, <3>2
  <2>2. CASE us # NoEntry /\ "FRESH" \in us.flags /\ e.coin = Spent
    <3>1. Merged(e, us) = NoEntry /\ MergedUsage(e, us) = -DynamicMemoryUsage(us.coin)
      BY <1>5, <2>2 DEF Merged, MergedUsage
    <3> QED BY <1>1, <1>2, <2>2, <3>1, SMTT(30)
  <2>3. CASE us # NoEntry /\ ~("FRESH" \in us.flags /\ e.coin = Spent)
    <3>1. us.flags \cup {"DIRTY"} \in SUBSET {"DIRTY", "FRESH"}
      BY <2>3 DEF Entry
    <3>2. Merged(e, us) = [coin |-> e.coin, flags |-> us.flags \cup {"DIRTY"}]
      BY <1>5, <2>3 DEF Merged
    <3>3. EntryUsage(Merged(e, us)) = DynamicMemoryUsage(e.coin)
      BY <2>0, <3>1, <3>2
    <3>4. MergedUsage(e, us) = DynamicMemoryUsage(e.coin) - DynamicMemoryUsage(us.coin)
      BY <1>5, <2>3 DEF MergedUsage
    <3> QED BY <1>1, <1>2, <1>3, <1>5, <2>3, <3>3, <3>4, SMTT(30)
  <2> QED BY <2>1, <2>2, <2>3
<1> QED BY <1>4, <1>5

\* BatchWrite into the cache below keeps both levels accounted for.
LEMMA FlushToCacheUsage ==
    ASSUME IInv, UInv, FlushToCache
    PROVE  UInv'
<1> USE DepthAssumption DEF Levels
<1> DEFINE e(p) == cache[top][p]
           us(p) == cache[top - 1][p]
           merged == [p \in OutPoints |-> Merged(e(p), us(p))]
           more == [p \in OutPoints |-> MergedUsage(e(p), us(p))]
           old == [p \in OutPoints |-> EntryUsage(us(p))]
           new == [p \in OutPoints |-> EntryUsage(merged[p])]
<1>1. /\ top \in 1..Depth /\ top > 1 /\ top - 1 \in 1..Depth /\ top # top - 1 /\ cache \in Caches
      /\ usage \in [Levels -> Int] /\ \A j \in Levels : usage[j] = CacheUsage(cache[j])
  BY IInvFacts, SMTT(30) DEF UInv, Accounted, FlushToCache
<1>2. thrown' = "none"
  BY FlushToCacheStep DEF IInv
<1>3. /\ cache' = [cache EXCEPT ![top] = Empty, ![top - 1] = merged]
      /\ usage' = [usage EXCEPT ![top] = 0, ![top - 1] = @ + Total(more)]
  BY <1>2 DEF FlushToCache
<1>4. \A p \in OutPoints : e(p) \in Entry \cup {NoEntry} /\ us(p) \in Entry \cup {NoEntry}
  BY <1>1 DEF Caches
<1>5. /\ more \in [OutPoints -> Int] /\ old \in [OutPoints -> Int]
      /\ \A p \in OutPoints : new[p] = old[p] + more[p]
  BY <1>4, MergedUsageExact, UsageType
<1>6. new \in [OutPoints -> Int]
  <2>1. \A p \in OutPoints : old[p] + more[p] \in Int
    <3> HIDE DEF old, more
    <3> QED BY <1>5, SMTT(30)
  <2>2. \A p \in OutPoints : new[p] \in Int
    <3> HIDE DEF old, more, new
    <3> QED BY <1>5, <2>1
  <2> QED BY <2>2
<1>7. CacheUsage(merged) = Total(new) /\ CacheUsage(cache[top - 1]) = Total(old)
  BY DEF CacheUsage
<1> HIDE DEF more, old, new, merged
<1>8. Total(new) = Total(old) + Total(more) /\ Total(old) \in Int /\ Total(more) \in Int
  BY <1>5, <1>6, TotalAdd
<1>9. /\ cache'[top] = Empty /\ cache'[top - 1] = merged
      /\ \A j \in Levels : j # top /\ j # top - 1 => cache'[j] = cache[j]
  BY <1>1, <1>3 DEF Caches
<1>10. /\ usage' \in [Levels -> Int] /\ usage'[top] = 0
       /\ usage'[top - 1] = usage[top - 1] + Total(more)
       /\ \A j \in Levels : j # top /\ j # top - 1 => usage'[j] = usage[j]
  BY <1>1, <1>3, <1>8, SMTT(30)
<1>11. usage'[top - 1] = CacheUsage(merged) /\ usage'[top] = CacheUsage(Empty)
  BY <1>1, <1>7, <1>8, <1>10, EmptyUsage
<1>12. ASSUME NEW j \in Levels PROVE usage'[j] = CacheUsage(cache'[j])
  BY <1>1, <1>9, <1>10, <1>11
<1> QED BY <1>10, <1>12 DEF UInv, Accounted

\* A cache that is emptied uses nothing.
LEMMA EmptiedUsage ==
    ASSUME IInv, UInv, NEW i \in Levels, cache' = [cache EXCEPT ![i] = Empty],
           usage' = [usage EXCEPT ![i] = 0]
    PROVE  UInv'
<1>1. /\ cache \in Caches /\ usage \in [Levels -> Int]
      /\ \A j \in Levels : usage[j] = CacheUsage(cache[j])
  BY IInvFacts DEF UInv, Accounted
<1>2. cache'[i] = Empty /\ \A j \in Levels : j # i => cache'[j] = cache[j]
  BY <1>1 DEF Caches
<1>3. usage' \in [Levels -> Int] /\ usage'[i] = 0 /\ \A j \in Levels : j # i => usage'[j] = usage[j]
  BY <1>1, SMTT(30)
<1>4. ASSUME NEW j \in Levels PROVE usage'[j] = CacheUsage(cache'[j])
  BY <1>1, <1>2, <1>3, EmptyUsage
<1> QED BY <1>3, <1>4 DEF UInv, Accounted

LEMMA NextUInv == IInv /\ UInv /\ [Next]_vars => UInv'
<1> SUFFICES ASSUME IInv, UInv, [Next]_vars PROVE UInv'
  OBVIOUS
<1>1. ASSUME UNCHANGED <<cache, usage>> PROVE UInv'
  BY <1>1 DEF UInv, Accounted
<1>2. ASSUME NEW i \in Levels, NEW o \in OutPoints, AccessCoin(i, o) PROVE UInv'
  <2>1. PICK k \in 0..i : /\ Holder(k, i, o)
                          /\ cache' = FetchCoin(k, i, o) /\ usage' = FetchUsage(k, i, o)
    BY <1>2 DEF AccessCoin
  <2>2. i \in 1..top
    BY <1>2, IInvFacts, SMTT(30) DEF AccessCoin, Levels
  <2>3. Accounted(FetchCoin(k, i, o), FetchUsage(k, i, o))
    BY <2>1, <2>2, FetchAccounted
  <2> QED BY <2>1, <2>3 DEF UInv, Accounted
<1>3. CASE PopView
  <2>1. top \in Levels
    BY IInvFacts
  <2> QED BY <1>3, <2>1, EmptiedUsage DEF PopView
<1>4. CASE Flush
  <2>1. ASSUME FlushToDB PROVE UInv'
    <3>1. 1 \in Levels
      BY DepthAssumption, SMTT(30) DEF Levels
    <3> QED BY <2>1, <3>1, EmptiedUsage DEF FlushToDB
  <2> QED BY <1>4, <2>1, FlushToCacheUsage DEF Flush
<1>5. CASE UNCHANGED vars
  BY <1>1, <1>5 DEF vars
<1>6. ASSUME \/ \E i \in Levels : GetBestBlock(i)
             \/ \E b \in Blocks : SetBestBlock(b)
             \/ PushView
      PROVE  UInv'
  BY <1>1, <1>6 DEF GetBestBlock, SetBestBlock, PushView
<1> QED BY <1>2, <1>3, <1>4, <1>5, <1>6, UncacheUsage, UpdateCoinsAddUsage, AddCoinCheckedUsage,
           SpendCoinUsage DEF Next

\* cachedCoinsUsage never drifts: whatever is fetched, added, spent, uncached or
\* merged by BatchWrite, it is the sum over the entries of its cache.
THEOREM UsageSafe == Spec => []UsageExact
<1>1. Init => UInv
  <2> SUFFICES ASSUME Init PROVE UInv
    OBVIOUS
  <2>1. usage \in [Levels -> Int] /\ \A i \in Levels : usage[i] = 0 /\ cache[i] = Empty
    BY SMTT(30) DEF Init
  <2> QED BY <2>1, EmptyUsage DEF UInv, Accounted
<1>2. IInv /\ UInv /\ [Next]_vars => UInv'
  BY NextUInv
<1>3. UInv => UsageExact
  BY DEF UInv, Accounted, UsageExact
<1> QED BY <1>1, <1>2, <1>3, Invariance, PTL DEF Spec
=============================================================================
