--------------------------- MODULE CoinsViewCache ---------------------------
(***************************************************************************)
(* The stack of UTXO caches of coins.cpp.  Level 0 is the coins database   *)
(* (CCoinsViewDB, here a plain map), level 1 is CoinsTip(), and a higher   *)
(* level is a CCoinsViewCache that ConnectTip, DisconnectTip, VerifyDB or  *)
(* the mempool puts on top of it for the duration of a scope.  A level     *)
(* answers a read from its own entry, and asks its base for the others.    *)
(*                                                                         *)
(* The code's recursion base->GetCoin(...) is written with the level that  *)
(* ends it: Holder(k, i, o) says that k is the first level at or below i   *)
(* that has an entry for o.  The MWEB half of a view shares no state with  *)
(* this one.                                                               *)
(***************************************************************************)
EXTENDS Integers, FiniteSetsExt

CONSTANTS OutPoints,     \* the outpoints of the instance
          Coins,         \* unspent coins (output, height and flags together)
          Spent,         \* the cleared coin, Coin::IsSpent()
          CoinUsage,     \* Coin::DynamicMemoryUsage(), a function on Coins
          NoEntry,       \* cacheCoins.end()
          Blocks,        \* block hashes
          NullHash,      \* uint256()
          Depth          \* the largest number of caches on top of each other

ASSUME DepthAssumption == Depth \in Nat \ {0}
ASSUME CoinAssumption == Spent \notin Coins /\ CoinUsage \in [Coins -> Nat]
ASSUME FiniteAssumption == IsFiniteSet(OutPoints)
ASSUME HashAssumption == NullHash \notin Blocks

Levels == 1..Depth
Entry == [coin : Coins \cup {Spent}, flags : SUBSET {"DIRTY", "FRESH"}]

ASSUME EntryAssumption == NoEntry \notin Entry

VARIABLES db,         \* CCoinsViewDB: the coin stored under each outpoint
          dbBest,     \* CCoinsViewDB::GetBestBlock()
          cache,      \* cacheCoins of each level
          hashBlock,  \* hashBlock of each level, NullHash until known
          usage,      \* cachedCoinsUsage of each level
          top,        \* the topmost live cache
          thrown      \* the std::logic_error that escaped, or "none"

vars == <<db, dbBest, cache, hashBlock, usage, top, thrown>>
-----------------------------------------------------------------------------
Empty == [o \in OutPoints |-> NoEntry]

\* Coin::DynamicMemoryUsage() of a coin that may be spent.
DynamicMemoryUsage(c) == IF c = Spent THEN 0 ELSE CoinUsage[c]

Has(i, o) == cache[i][o] # NoEntry

CoinAt(k, o) == IF k = 0 THEN db[o] ELSE cache[k][o].coin

\* k is the level at which a lookup of o that starts at level i ends.
Holder(k, i, o) == /\ k # 0 => Has(k, o)
                   /\ \A j \in (k + 1)..i : ~Has(j, o)

\* What level i says about o: GetCoin, AccessCoin and HaveCoin.
View(i, o) == CoinAt(CHOOSE k \in 0..i : Holder(k, i, o), o)

\* The entry FetchCoin makes of a coin that the base returned.
Fetched(c) == [coin |-> c, flags |-> IF c = Spent THEN {"FRESH"} ELSE {}]

\* The caches after FetchCoin(o) at level i when the lookup ends at level k.
\* A base that has the coin spent returns false, and nothing is cached.
FetchCoin(k, i, o) ==
    IF CoinAt(k, o) = Spent THEN cache
    ELSE [j \in Levels |-> IF k < j /\ j <= i
                           THEN [cache[j] EXCEPT ![o] = Fetched(CoinAt(k, o))]
                           ELSE cache[j]]

FetchUsage(k, i, o) ==
    [j \in Levels |-> IF k < j /\ j <= i
                      THEN usage[j] + DynamicMemoryUsage(CoinAt(k, o))
                      ELSE usage[j]]

\* The entry that cacheCoins.emplace(o) finds or makes.
Emplaced(e) == IF e = NoEntry THEN [coin |-> Spent, flags |-> {}] ELSE e

\* Variant of Added that forgets that a DIRTY spent entry may not become FRESH.
AddedFreshWhenDirty(e, c, overwrite) ==
    [coin |-> c, flags |-> e.flags \cup {"DIRTY"} \cup IF ~overwrite THEN {"FRESH"} ELSE {}]

\* Variant of Added that takes every addition for a new coin.
AddedIgnoresOverwrite(e, c, overwrite) ==
    [coin |-> c,
     flags |-> e.flags \cup {"DIRTY"} \cup IF "DIRTY" \notin e.flags THEN {"FRESH"} ELSE {}]

\* The entry of level top after AddCoin(o, c, overwrite) on entry e.
Added(e, c, overwrite) ==
    [coin |-> c,
     flags |-> e.flags \cup {"DIRTY"}
               \cup IF ~overwrite /\ "DIRTY" \notin e.flags THEN {"FRESH"} ELSE {}]

\* Variant of SpentEntry that does not set DIRTY.
SpentEntryNotDirty(e) == IF "FRESH" \in e.flags THEN NoEntry
                         ELSE [coin |-> Spent, flags |-> e.flags]

\* The entry after SpendCoin on the entry e that FetchCoin returned.
SpentEntry(e) == IF "FRESH" \in e.flags THEN NoEntry
                 ELSE [coin |-> Spent, flags |-> e.flags \cup {"DIRTY"}]
-----------------------------------------------------------------------------
\* A node that starts on a data directory: CoinsTip is an empty cache.
Init == /\ db \in [OutPoints -> Coins \cup {Spent}]
        /\ dbBest \in Blocks \cup {NullHash}
        /\ dbBest = NullHash => \A o \in OutPoints : db[o] = Spent
        /\ cache = [i \in Levels |-> Empty]
        /\ hashBlock = [i \in Levels |-> NullHash]
        /\ usage = [i \in Levels |-> 0]
        /\ top = 1
        /\ thrown = "none"

\* GetCoin, AccessCoin, HaveCoin: a read at any live level fills the caches.
AccessCoin(i, o) ==
    /\ i <= top
    /\ \E k \in 0..i : /\ Holder(k, i, o)
                       /\ cache' = FetchCoin(k, i, o)
                       /\ usage' = FetchUsage(k, i, o)
    /\ UNCHANGED <<db, dbBest, hashBlock, top, thrown>>

\* AddCoin on the topmost cache.  The logic_error leaves after the old coin
\* was subtracted from cachedCoinsUsage.
AddCoin(o, c, overwrite) ==
    LET e == Emplaced(cache[top][o])
    IN /\ IF ~overwrite /\ e.coin # Spent
          THEN /\ thrown' = "overwrite"
               /\ usage' = [usage EXCEPT ![top] = @ - DynamicMemoryUsage(e.coin)]
               /\ cache' = cache
          ELSE /\ cache' = [cache EXCEPT ![top][o] = Added(e, c, overwrite)]
               /\ usage' = [usage EXCEPT ![top] = @ - DynamicMemoryUsage(e.coin)
                                                    + DynamicMemoryUsage(c)]
               /\ thrown' = thrown
       /\ UNCHANGED <<db, dbBest, hashBlock, top>>

\* UpdateCoins on behalf of ConnectBlock: possible_overwrite is true for a
\* coinbase only; for the others BIP30 and BIP34 have made sure that the view
\* has no unspent coin there.
UpdateCoinsAdd(o, c, coinbase) ==
    /\ ~coinbase => View(top, o) = Spent
    /\ AddCoin(o, c, coinbase)

\* AddCoins with check_for_overwrite, and ApplyTxInUndo: HaveCoin first, then
\* AddCoin with its answer.
AddCoinChecked(o, c) ==
    \E k \in 0..top :
      /\ Holder(k, top, o)
      /\ LET filled == FetchCoin(k, top, o)
             used == FetchUsage(k, top, o)
             e == Emplaced(filled[top][o])
         IN /\ cache' = [filled EXCEPT ![top][o] = Added(e, c, CoinAt(k, o) # Spent)]
            /\ usage' = [used EXCEPT ![top] = @ - DynamicMemoryUsage(e.coin)
                                                + DynamicMemoryUsage(c)]
      /\ UNCHANGED <<db, dbBest, hashBlock, top, thrown>>

\* SpendCoin on the topmost cache.
SpendCoin(o) ==
    \E k \in 0..top :
      /\ Holder(k, top, o)
      /\ LET filled == FetchCoin(k, top, o)
             used == FetchUsage(k, top, o)
             e == filled[top][o]
         IN /\ e # NoEntry
            /\ cache' = [filled EXCEPT ![top][o] = SpentEntry(e)]
            /\ usage' = [used EXCEPT ![top] = @ - DynamicMemoryUsage(e.coin)]
      /\ UNCHANGED <<db, dbBest, hashBlock, top, thrown>>

\* Variant of Uncache that forgets the memory accounting.
UncacheKeepsUsage(i, o) ==
    /\ i <= top
    /\ Has(i, o) /\ cache[i][o].flags = {}
    /\ cache' = [cache EXCEPT ![i][o] = NoEntry]
    /\ UNCHANGED <<db, dbBest, hashBlock, usage, top, thrown>>

\* Uncache drops an entry that carries no flag.
Uncache(i, o) ==
    /\ i <= top
    /\ Has(i, o) /\ cache[i][o].flags = {}
    /\ cache' = [cache EXCEPT ![i][o] = NoEntry]
    /\ usage' = [usage EXCEPT ![i] = @ - DynamicMemoryUsage(cache[i][o].coin)]
    /\ UNCHANGED <<db, dbBest, hashBlock, top, thrown>>
-----------------------------------------------------------------------------
HashAt(k) == IF k = 0 THEN dbBest ELSE hashBlock[k]

\* k is the level at which GetBestBlock started at level i ends.
HashHolder(k, i) == /\ k # 0 => hashBlock[k] # NullHash
                    /\ \A j \in (k + 1)..i : hashBlock[j] = NullHash

\* The block the UTXO set seen at level i belongs to.
Best(i) == HashAt(CHOOSE k \in 0..i : HashHolder(k, i))

GetBestBlock(i) ==
    /\ i <= top
    /\ \E k \in 0..i :
         /\ HashHolder(k, i)
         /\ hashBlock' = [j \in Levels |-> IF k < j /\ j <= i THEN HashAt(k)
                                           ELSE hashBlock[j]]
    /\ UNCHANGED <<db, dbBest, cache, usage, top, thrown>>

SetBestBlock(b) ==
    /\ hashBlock' = [hashBlock EXCEPT ![top] = b]
    /\ UNCHANGED <<db, dbBest, cache, usage, top, thrown>>

\* A scope opens: CCoinsViewCache view(&CoinsTip()).
PushView == /\ top < Depth
            /\ top' = top + 1
            /\ UNCHANGED <<db, dbBest, cache, hashBlock, usage, thrown>>

\* The scope closes: the cache is destroyed, with whatever it still holds.
PopView == /\ top > 1
           /\ top' = top - 1
           /\ cache' = [cache EXCEPT ![top] = Empty]
           /\ hashBlock' = [hashBlock EXCEPT ![top] = NullHash]
           /\ usage' = [usage EXCEPT ![top] = 0]
           /\ UNCHANGED <<db, dbBest, thrown>>

\* Variant of Merged that marks the parent's entry FRESH when the child's is.
MergedCopiesFresh(e, us) ==
    IF e = NoEntry \/ "DIRTY" \notin e.flags THEN us
    ELSE IF us = NoEntry THEN e
    ELSE IF "FRESH" \in us.flags /\ e.coin = Spent THEN NoEntry
    ELSE [coin |-> e.coin, flags |-> us.flags \cup e.flags]

\* CCoinsViewCache::BatchWrite, one entry: the entry "us" of the parent after
\* the entry e of the child is written to it.
Merged(e, us) ==
    IF e = NoEntry \/ "DIRTY" \notin e.flags THEN us
    ELSE IF us = NoEntry
    THEN IF "FRESH" \in e.flags /\ e.coin = Spent THEN NoEntry
         ELSE [coin |-> e.coin, flags |-> {"DIRTY"} \cup (e.flags \cap {"FRESH"})]
    ELSE IF "FRESH" \in us.flags /\ e.coin = Spent THEN NoEntry
    ELSE [coin |-> e.coin, flags |-> us.flags \cup {"DIRTY"}]

\* BatchWrite throws on a FRESH child entry whose parent entry is unspent.
Misapplied(e, us) == /\ e # NoEntry /\ us # NoEntry
                     /\ {"DIRTY", "FRESH"} \subseteq e.flags
                     /\ us.coin # Spent

\* CCoinsViewDB::BatchWrite, one entry.
Stored(e, c) == IF e = NoEntry \/ "DIRTY" \notin e.flags THEN c ELSE e.coin

\* What CCoinsViewCache::BatchWrite adds to cachedCoinsUsage for one entry: the
\* coin that it stores, less the one that it replaces or erases.
MergedUsage(e, us) ==
    IF e = NoEntry \/ "DIRTY" \notin e.flags THEN 0
    ELSE IF us = NoEntry
    THEN IF "FRESH" \in e.flags /\ e.coin = Spent THEN 0 ELSE DynamicMemoryUsage(e.coin)
    ELSE IF "FRESH" \in us.flags /\ e.coin = Spent THEN -DynamicMemoryUsage(us.coin)
    ELSE DynamicMemoryUsage(e.coin) - DynamicMemoryUsage(us.coin)

\* The sum over all outpoints.
Total(w) == MapThenSumSet(LAMBDA o : w[o], OutPoints)

\* Flush into the cache below.  What BatchWrite had merged before it threw is
\* not told apart: the run ends there.
FlushToCache ==
    /\ top > 1
    /\ IF \E o \in OutPoints : Misapplied(cache[top][o], cache[top - 1][o])
       THEN thrown' = "misapplied" /\ UNCHANGED <<cache, hashBlock, usage>>
       ELSE LET merged == [o \in OutPoints |-> Merged(cache[top][o], cache[top - 1][o])]
            IN /\ cache' = [cache EXCEPT ![top] = Empty, ![top - 1] = merged]
               /\ usage' = [usage EXCEPT ![top] = 0,
                                         ![top - 1] = @ + Total([o \in OutPoints |->
                                             MergedUsage(cache[top][o], cache[top - 1][o])])]
               /\ hashBlock' = [hashBlock EXCEPT ![top - 1] = hashBlock[top]]
               /\ thrown' = thrown
    /\ UNCHANGED <<db, dbBest, top>>

\* Flush into the database, taken as one step.
FlushToDB ==
    /\ top = 1
    /\ db' = [o \in OutPoints |-> Stored(cache[1][o], db[o])]
    /\ dbBest' = hashBlock[1]
    /\ cache' = [cache EXCEPT ![1] = Empty]
    /\ usage' = [usage EXCEPT ![1] = 0]
    /\ UNCHANGED <<hashBlock, top, thrown>>

\* Flush on the topmost cache.  Its callers have set or read the best block
\* of the view before (CCoinsViewDB::BatchWrite asserts it).
Flush == /\ hashBlock[top] # NullHash
         /\ FlushToCache \/ FlushToDB
-----------------------------------------------------------------------------
Next ==
    /\ thrown = "none"
    /\ \/ \E i \in Levels, o \in OutPoints : AccessCoin(i, o) \/ Uncache(i, o)
       \/ \E o \in OutPoints, c \in Coins, coinbase \in BOOLEAN : UpdateCoinsAdd(o, c, coinbase)
       \/ \E o \in OutPoints, c \in Coins : AddCoinChecked(o, c)
       \/ \E o \in OutPoints : SpendCoin(o)
       \/ \E i \in Levels : GetBestBlock(i)
       \/ \E b \in Blocks : SetBestBlock(b)
       \/ PushView \/ PopView \/ Flush

Spec == Init /\ [][Next]_vars

-----------------------------------------------------------------------------
\* The variables stay within their types (usage: see UsageExact), and a cache
\* that is not live is empty.
TypeOK ==
    /\ db \in [OutPoints -> Coins \cup {Spent}]
    /\ dbBest \in Blocks \cup {NullHash}
    /\ cache \in [Levels -> [OutPoints -> Entry \cup {NoEntry}]]
    /\ hashBlock \in [Levels -> Blocks \cup {NullHash}]
    /\ top \in Levels
    /\ thrown \in {"none", "overwrite", "misapplied"}
    /\ \A i \in Levels : i > top => cache[i] = Empty /\ hashBlock[i] = NullHash

\* CCoinsCacheEntry: "FRESH means the parent cache does not have this coin or
\* that it is a spent coin in the parent cache".
FreshMeansAbsentBelow ==
    \A i \in 1..top, o \in OutPoints :
      Has(i, o) /\ "FRESH" \in cache[i][o].flags => View(i - 1, o) = Spent

\* CCoinsCacheEntry: an entry that is not DIRTY is the version of the parent,
\* so leaving it out of a flush, or uncaching it, loses nothing.
CleanMatchesParent ==
    \A i \in 1..top, o \in OutPoints :
      Has(i, o) /\ "DIRTY" \notin cache[i][o].flags => cache[i][o].coin = View(i - 1, o)

\* The combinations of spent, FRESH and DIRTY that the comment on
\* CCoinsCacheEntry allows; the one it gives for a spent coin fetched from the
\* parent never arises, because a base returns false for a spent coin.
ValidFlags ==
    \A i \in 1..top, o \in OutPoints :
      Has(i, o) => LET e == cache[i][o]
                   IN IF e.coin = Spent THEN e.flags = {"DIRTY"}
                      ELSE e.flags \in {{"DIRTY", "FRESH"}, {"DIRTY"}, {}}

\* Neither AddCoin nor BatchWrite meets the situation its logic_error is for.
NoLogicError == thrown = "none"

\* The memory that the entries of one cache use.
EntryUsage(e) == IF e = NoEntry THEN 0 ELSE DynamicMemoryUsage(e.coin)
CacheUsage(entries) == Total([o \in OutPoints |-> EntryUsage(entries[o])])

\* cachedCoinsUsage, "Cached dynamic memory usage for the inner Coin objects",
\* is the sum over the entries of the cache.
UsageExact == \A i \in Levels : usage[i] = CacheUsage(cache[i])

\* The views of the live levels are nested versions of one UTXO map: what the
\* caches hold, and when they are filled, flushed or uncached, is invisible.
Stack == INSTANCE UTXOStack WITH
           depth <- top,
           utxo <- [i \in 0..top |-> [o \in OutPoints |-> View(i, o)]],
           best <- [i \in 0..top |-> Best(i)]

\* The cache stack implements the nested UTXO maps of UTXOStack.
ImplementsStack == Stack!Spec
=============================================================================
