--------------------------- MODULE CoinStateCache ---------------------------
(***************************************************************************)
(* The light client's mirror of the coins it subscribes to                 *)
(* (src/peer/light_client/cache.rs), with the calls its owner makes under  *)
(* one lock.  What it is told comes from one untrusted peer.               *)
(*                                                                         *)
(* An optional height is a set of at most one height.  The items of one    *)
(* message name each coin once; which of them find room in a full cache    *)
(* depends on their order, and is left open.                               *)
(***************************************************************************)
EXTENDS Naturals, FiniteSets

CONSTANTS
    Coin,
    PuzzleHash,
    PuzzleHashOf,               \* the puzzle hash of each coin
    Height,
    MaxCoinsPerPuzzleHash,      \* MAX_COINS_PER_PUZZLE_HASH
    Lives                       \* bound: the heights a peer may claim of a coin

Optional(S) == {{}} \cup {{x} : x \in S}
Life == [created : Optional(Height), spent : Optional(Height)]
CoinState == [coin : Coin, created : Optional(Height), spent : Optional(Height)]

ASSUME CacheAssumption ==
    /\ IsFiniteSet(Coin) /\ IsFiniteSet(PuzzleHash)
    /\ PuzzleHashOf \in [Coin -> PuzzleHash]
    /\ Height \subseteq Nat
    /\ MaxCoinsPerPuzzleHash \in Nat
    /\ Lives \subseteq Life

VARIABLES
    coins,                      \* the last known state of every cached coin
    subscribed_coins,
    subscribed_puzzle_hashes,
    peak                        \* the peak's height, if one was observed

cacheVars == <<coins, subscribed_coins, subscribed_puzzle_hashes, peak>>
subscribed == <<subscribed_coins, subscribed_puzzle_hashes>>

CoinsIn(states) == {s.coin : s \in states}
NamesCoinsOnce(states) == \A s, t \in states : s.coin = t.coin => s = t

CacheInit ==
    /\ coins = {}
    /\ subscribed_coins = {}
    /\ subscribed_puzzle_hashes = {}
    /\ peak = {}

IsSubscribed(s) ==
    s.coin \in subscribed_coins \/ PuzzleHashOf[s.coin] \in subscribed_puzzle_hashes

Capacity(ids, hashes) == Cardinality(ids) + Cardinality(hashes) * MaxCoinsPerPuzzleHash

-----------------------------------------------------------------------------
(* The two boundaries: every coin enters by cache_coin, every peak change   *)
(* is made by update_peak.                                                  *)

\* Mutant: a coin is taken whatever height it claims.
AnyHeight(s, peaks) == TRUE

Storable(s, peaks) == \A h \in s.created, p \in peaks : h <= p

\* Mutant: the map is full one coin too late.
OneTooMany(kept, capacity) == Cardinality(kept) <= capacity

HasRoom(kept, capacity) == Cardinality(kept) < capacity

\* The new coins a message may add: as many as find room.
Admissions(kept, new, capacity) ==
    {added \in SUBSET new :
        /\ added = {} \/ \E x \in added : HasRoom(kept \cup (added \ {x}), capacity)
        /\ added = new \/ ~ HasRoom(kept \cup added, capacity)}

\* Mutant: a coin's former state stays beside the new one.
BothStates(kept, states) == kept \cup states

Overwrite(kept, states) == {s \in kept : s.coin \notin CoinsIn(states)} \cup states

\* The maps cache_coin may leave behind for the states of one message.
CacheCoins(kept, states, peaks, capacity) ==
    LET taken == {s \in states : Storable(s, peaks)}
        known == {s \in taken : s.coin \in CoinsIn(kept)}
    IN  {Overwrite(kept, known \cup added) :
            added \in Admissions(kept, taken \ known, capacity)}

PeakChanges(height, lower) == \A p \in peak : height >= p \/ lower

\* Mutant: the coins above a lowered peak stay.
NoSweep(kept, height) == kept

Sweep(kept, height) == {s \in kept : \A h \in s.created : h <= height}

PeakAfter(height, lower) == IF PeakChanges(height, lower) THEN {height} ELSE peak
CoinsAfter(kept, height, lower) ==
    IF PeakChanges(height, lower) THEN Sweep(kept, height) ELSE kept

-----------------------------------------------------------------------------
(* apply_update.                                                            *)

Reasserted(items) == CoinsIn({s \in items : IsSubscribed(s)})

\* Cached states a fork makes suspect: created, or else spent, above it.
Erased(items, fork) ==
    {s \in coins : s.coin \notin Reasserted(items) /\ \E h \in s.created : h > fork}
Unspent(items, fork) ==
    {s \in coins \ Erased(items, fork) :
        s.coin \notin Reasserted(items) /\ \E h \in s.spent : h > fork}

Retained(items, fork) ==
    (coins \ (Erased(items, fork) \cup Unspent(items, fork)))
        \cup {[s EXCEPT !.spent = {}] : s \in Unspent(items, fork)}

\* Mutant: a low fork is enough.
ForkBelowPeak(items, height, fork) == height >= fork /\ \E p \in peak : fork < p

IsGenuineReorg(items, height, fork) ==
    /\ Erased(items, fork) \cup Unspent(items, fork) # {}
    /\ height >= fork
    /\ \E p \in peak : fork < p

\* An update and, under the same lock, the untracking of what it reports spent.
ApplyUpdate(items, height, fork) ==
    LET lower == IsGenuineReorg(items, height, fork)
    IN  /\ peak' = PeakAfter(height, lower)
        /\ coins' \in CacheCoins(
                          CoinsAfter(Retained(items, fork), height, lower),
                          {s \in items : IsSubscribed(s)},
                          PeakAfter(height, lower),
                          Capacity(subscribed_coins, subscribed_puzzle_hashes))
        /\ subscribed_coins' = subscribed_coins \ CoinsIn({s \in items : s.spent # {}})
        /\ UNCHANGED subscribed_puzzle_hashes

\* A bare new peak.
SetPeak(height) ==
    /\ peak' = PeakAfter(height, FALSE)
    /\ coins' = CoinsAfter(coins, height, FALSE)
    /\ UNCHANGED subscribed

-----------------------------------------------------------------------------
(* Subscriptions.                                                           *)

\* track and seed: the answer is not held against the subscriptions.
Track(ids, hashes, answer) ==
    /\ subscribed_coins' = subscribed_coins \cup ids
    /\ subscribed_puzzle_hashes' = subscribed_puzzle_hashes \cup hashes
    /\ coins' \in CacheCoins(coins, answer, peak,
                             Capacity(subscribed_coins', subscribed_puzzle_hashes'))
    /\ UNCHANGED peak

Untrack(ids) ==
    /\ subscribed_coins' = subscribed_coins \ ids
    /\ UNCHANGED <<coins, subscribed_puzzle_hashes, peak>>

\* What a peer may send: any states, of each coin at most one.
StatesOf(life) ==
    {[coin |-> c, created |-> life[c].created, spent |-> life[c].spent] : c \in DOMAIN life}
Message == {StatesOf(life) : life \in UNION {[named -> Lives] : named \in SUBSET Coin}}

CacheNext ==
    \/ \E height \in Height : SetPeak(height)
    \/ \E items \in Message, height, fork \in Height : ApplyUpdate(items, height, fork)
    \/ \E ids \in SUBSET Coin, hashes \in SUBSET PuzzleHash, answer \in Message :
          Track(ids, hashes, answer)
    \/ \E ids \in SUBSET Coin : Untrack(ids)

CacheSpec == CacheInit /\ [][CacheNext]_cacheVars

-----------------------------------------------------------------------------
(* Properties.                                                              *)

\* The cache is a map from coins to their states, and its peak one height.
CacheTypeOK ==
    /\ coins \subseteq CoinState
    /\ NamesCoinsOnce(coins)
    /\ subscribed_coins \subseteq Coin
    /\ subscribed_puzzle_hashes \subseteq PuzzleHash
    /\ peak \in Optional(Height)

\* Whatever order seeds, updates, reorgs and bare peaks arrive in, and
\* whatever heights they claim, no cached coin is created above the peak: a
\* reader's `peak - created` does not wrap.
NoCoinAbovePeak == \A s \in coins : \A h \in s.created, p \in peak : h <= p

\* The peak falls only by an update that takes something back from the cache:
\* a coin that it held, or a spend.  No empty or garbage update lowers it.
PeakFallsOnlyByReorg ==
    [][\A p \in peak, q \in peak' : q < p =>
          \E s \in coins : s.created \cup s.spent # {} /\ s \notin coins']_cacheVars

\* The cache never grows past one coin for each subscribed coin and the
\* allowance of each subscribed puzzle hash, whatever a peer sends.
GrowthIsBounded ==
    [][Cardinality(coins') > Cardinality(coins) =>
          Cardinality(coins') <= Capacity(subscribed_coins, subscribed_puzzle_hashes)
                              \/ Cardinality(coins') <=
                                    Capacity(subscribed_coins', subscribed_puzzle_hashes')]_cacheVars
=============================================================================
