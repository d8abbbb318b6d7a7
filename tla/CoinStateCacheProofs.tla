------------------------ MODULE CoinStateCacheProofs ------------------------
(***************************************************************************)
(* What holds of the light client's cache for every set of coins, puzzle   *)
(* hashes and heights, and for whatever a peer says of them.               *)
(*                                                                         *)
(* NoCoinAbovePeak and CacheTypeOK are inductive together: the first needs *)
(* the peak to be one height, and the second needs nothing of the first.   *)
(* Each action is a peak change followed by an insertion, so the two       *)
(* boundaries the code names are the two lemmas.  The bound on growth is   *)
(* about one insertion: a cache with one state of each coin is counted by  *)
(* its coins, and only what finds room is added.                           *)
(***************************************************************************)
EXTENDS CoinStateCache, FunctionTheorems, FiniteSetTheorems, TLAPS

\* Any states, of each coin at most one: what a Message is but for the bound on
\* the lives it claims.  The proofs are about peers that report anything.
Report == {states \in SUBSET CoinState : NamesCoinsOnce(states)}

AnyReport ==
    \/ \E height \in Height : SetPeak(height)
    \/ \E items \in Report, height, fork \in Height : ApplyUpdate(items, height, fork)
    \/ \E ids \in SUBSET Coin, hashes \in SUBSET PuzzleHash, answer \in Report :
          Track(ids, hashes, answer)
    \/ \E ids \in SUBSET Coin : Untrack(ids)

AnyPeerSpec == CacheInit /\ [][AnyReport]_cacheVars

\* What a peer may send is a set of coin states, of each coin at most one.
LEMMA MessagesAreReports == Message \subseteq Report
<1>. SUFFICES ASSUME NEW items \in Message
              PROVE  items \subseteq CoinState /\ NamesCoinsOnce(items)
  BY DEF Report
<1>1. PICK named \in SUBSET Coin : \E life \in [named -> Lives] : items = StatesOf(life)
  BY DEF Message
<1>2. PICK life \in [named -> Lives] : items = StatesOf(life)
  BY <1>1
<1>3. \A c \in named : life[c] \in Life
  BY <1>2, CacheAssumption
<1>. QED
  BY <1>2, <1>3 DEF StatesOf, NamesCoinsOnce, CoinState, Life

LEMMA MovesAreReports == CacheNext => AnyReport
BY MessagesAreReports DEF CacheNext, AnyReport

\* The add boundary: an insertion adds nothing above the peak, and leaves one
\* state of each coin.
LEMMA AddBoundary ==
  ASSUME NEW kept, NEW states, NEW peaks, NEW capacity,
         kept \subseteq CoinState, NamesCoinsOnce(kept),
         states \subseteq CoinState, NamesCoinsOnce(states),
         NEW after \in CacheCoins(kept, states, peaks, capacity)
  PROVE  /\ after \subseteq CoinState
         /\ NamesCoinsOnce(after)
         /\ \A s \in after : s \in kept \/ Storable(s, peaks)
<1>. DEFINE stored == {s \in states : Storable(s, peaks)}
            known == {s \in stored : s.coin \in CoinsIn(kept)}
<1>1. PICK added \in Admissions(kept, stored \ known, capacity) :
              after = Overwrite(kept, known \cup added)
  BY DEF CacheCoins
<1>2. added \subseteq stored
  BY DEF Admissions
<1>3. known \cup added \subseteq stored
  BY <1>2
<1>4. after = {s \in kept : s.coin \notin CoinsIn(known \cup added)} \cup (known \cup added)
  BY <1>1 DEF Overwrite
<1>. HIDE DEF known
<1>5. NamesCoinsOnce(after)
  BY <1>3, <1>4 DEF NamesCoinsOnce, CoinsIn
<1>. QED
  BY <1>3, <1>4, <1>5

\* The peak boundary: after a peak change, what is kept is at most as high as
\* the peak, if it was before.
LEMMA PeakBoundary ==
  ASSUME NEW kept, kept \subseteq CoinState, NEW height \in Height, NEW lower \in BOOLEAN,
         peak \in Optional(Height),
         \A s \in kept : Storable(s, peak)
  PROVE  /\ PeakAfter(height, lower) \in Optional(Height)
         /\ CoinsAfter(kept, height, lower) \subseteq kept
         /\ \A s \in CoinsAfter(kept, height, lower) : Storable(s, PeakAfter(height, lower))
<1>1. CASE PeakChanges(height, lower)
  BY <1>1 DEF PeakAfter, CoinsAfter, Sweep, Storable, Optional
<1>2. CASE ~ PeakChanges(height, lower)
  BY <1>2 DEF PeakAfter, CoinsAfter
<1>. QED  BY <1>1, <1>2

\* A rollback takes spends back and coins away: it adds none and raises none.
LEMMA RollbackKeepsHeights ==
  ASSUME CacheTypeOK, NEW items, NEW fork
  PROVE  /\ Retained(items, fork) \subseteq CoinState
         /\ NamesCoinsOnce(Retained(items, fork))
         /\ \A s \in Retained(items, fork) : \E t \in coins : s.created = t.created
<1>. DEFINE undone == {[s EXCEPT !.spent = {}] : s \in Unspent(items, fork)}
<1>1. Unspent(items, fork) \subseteq coins
  BY DEF Unspent
<1>2. \A u \in undone : /\ u \in CoinState
                        /\ \E t \in Unspent(items, fork) :
                              u = [t EXCEPT !.spent = {}] /\ u.coin = t.coin /\ u.created = t.created
  BY <1>1 DEF CacheTypeOK, CoinState, Optional
<1>3. Retained(items, fork) = (coins \ (Erased(items, fork) \cup Unspent(items, fork))) \cup undone
  BY DEF Retained
<1>. HIDE DEF undone
<1>4. \A s \in coins, t \in coins : s.coin = t.coin => s = t
  BY DEF CacheTypeOK, NamesCoinsOnce
<1>5. ASSUME NEW s \in Retained(items, fork), NEW t \in Retained(items, fork), s.coin = t.coin
      PROVE  s = t
  <2>1. CASE s \in undone /\ t \in undone
    <3>1. PICK u \in Unspent(items, fork) : s = [u EXCEPT !.spent = {}] /\ s.coin = u.coin
      BY <1>2, <2>1
    <3>2. PICK v \in Unspent(items, fork) : t = [v EXCEPT !.spent = {}] /\ t.coin = v.coin
      BY <1>2, <2>1
    <3>3. u = v
      BY <1>1, <1>4, <1>5, <3>1, <3>2
    <3>. QED  BY <3>1, <3>2, <3>3
  <2>2. CASE s \in undone /\ t \notin undone
    BY <1>1, <1>2, <1>3, <1>4, <1>5, <2>2
  <2>3. CASE s \notin undone /\ t \in undone
    BY <1>1, <1>2, <1>3, <1>4, <1>5, <2>3
  <2>4. CASE s \notin undone /\ t \notin undone
    BY <1>3, <1>4, <1>5, <2>4
  <2>. QED  BY <2>1, <2>2, <2>3, <2>4
<1>6. \A s \in Retained(items, fork) : \E t \in coins : s.created = t.created
  BY <1>1, <1>2, <1>3
<1>. QED  BY <1>2, <1>3, <1>5, <1>6 DEF CacheTypeOK, NamesCoinsOnce

-----------------------------------------------------------------------------
IInv == CacheTypeOK /\ NoCoinAbovePeak

\* The invariant in the words of the lemmas.
LEMMA EveryCoinIsStorable == NoCoinAbovePeak <=> \A s \in coins : Storable(s, peak)
BY DEF NoCoinAbovePeak, Storable

\* One step: whatever message, bare peak or subscription comes in, the cache
\* stays a map below its peak.
LEMMA CacheStep ==
  ASSUME IInv, [AnyReport]_cacheVars
  PROVE  IInv'
<1>1. CacheTypeOK /\ \A s \in coins : Storable(s, peak)
  BY EveryCoinIsStorable DEF IInv
<1>2. ASSUME CacheTypeOK', \A s \in coins' : Storable(s, peak')
      PROVE  IInv'
  BY <1>2 DEF IInv, NoCoinAbovePeak, Storable
<1>3. ASSUME NEW height \in Height, SetPeak(height)
      PROVE  IInv'
  <2>1. /\ peak' = PeakAfter(height, FALSE)
        /\ coins' = CoinsAfter(coins, height, FALSE)
        /\ subscribed' = subscribed
    BY <1>3 DEF SetPeak, subscribed
  <2>2. /\ peak' \in Optional(Height)
        /\ coins' \subseteq coins
        /\ \A s \in coins' : Storable(s, peak')
    BY <1>1, <2>1, PeakBoundary DEF CacheTypeOK
  <2>3. CacheTypeOK'
    BY <1>1, <2>1, <2>2 DEF CacheTypeOK, NamesCoinsOnce, subscribed
  <2>. QED  BY <1>2, <2>2, <2>3
<1>4. ASSUME NEW items \in Report, NEW height \in Height, NEW fork \in Height,
             ApplyUpdate(items, height, fork)
      PROVE  IInv'
  <2>. DEFINE lower == IsGenuineReorg(items, height, fork)
              kept == CoinsAfter(Retained(items, fork), height, lower)
              states == {s \in items : IsSubscribed(s)}
              capacity == Capacity(subscribed_coins, subscribed_puzzle_hashes)
  <2>1. /\ peak' = PeakAfter(height, lower)
        /\ coins' \in CacheCoins(kept, states, peak', capacity)
        /\ subscribed_coins' \subseteq subscribed_coins
        /\ subscribed_puzzle_hashes' = subscribed_puzzle_hashes
    BY <1>4 DEF ApplyUpdate
  <2>2. lower \in BOOLEAN
    BY DEF IsGenuineReorg
  <2>3. /\ Retained(items, fork) \subseteq CoinState
        /\ NamesCoinsOnce(Retained(items, fork))
        /\ \A s \in Retained(items, fork) : Storable(s, peak)
    BY <1>1, RollbackKeepsHeights DEF Storable
  <2>. HIDE DEF lower
  <2>4. /\ peak' \in Optional(Height)
        /\ kept \subseteq Retained(items, fork)
        /\ \A s \in kept : Storable(s, peak')
    BY <1>1, <2>1, <2>2, <2>3, PeakBoundary DEF CacheTypeOK
  <2>5. kept \subseteq CoinState /\ NamesCoinsOnce(kept)
    BY <2>3, <2>4 DEF NamesCoinsOnce
  <2>6. states \subseteq CoinState /\ NamesCoinsOnce(states)
    BY DEF Report, NamesCoinsOnce
  <2>. HIDE DEF kept, states, capacity
  <2>7. /\ coins' \subseteq CoinState
        /\ NamesCoinsOnce(coins')
        /\ \A s \in coins' : s \in kept \/ Storable(s, peak')
    BY <2>1, <2>5, <2>6, AddBoundary
  <2>8. CacheTypeOK'
    BY <1>1, <2>1, <2>4, <2>7 DEF CacheTypeOK, NamesCoinsOnce
  <2>. QED  BY <1>2, <2>4, <2>7, <2>8
<1>5. ASSUME NEW ids \in SUBSET Coin, NEW hashes \in SUBSET PuzzleHash,
             NEW answer \in Report, Track(ids, hashes, answer)
      PROVE  IInv'
  <2>. DEFINE capacity == Capacity(subscribed_coins', subscribed_puzzle_hashes')
  <2>1. /\ coins' \in CacheCoins(coins, answer, peak, capacity)
        /\ peak' = peak
        /\ subscribed_coins' = subscribed_coins \cup ids
        /\ subscribed_puzzle_hashes' = subscribed_puzzle_hashes \cup hashes
    BY <1>5 DEF Track
  <2>2. answer \subseteq CoinState /\ NamesCoinsOnce(answer)
    BY DEF Report
  <2>. HIDE DEF capacity
  <2>3. /\ coins' \subseteq CoinState
        /\ NamesCoinsOnce(coins')
        /\ \A s \in coins' : s \in coins \/ Storable(s, peak)
    BY <1>1, <2>1, <2>2, AddBoundary DEF CacheTypeOK
  <2>4. CacheTypeOK'
    BY <1>1, <2>1, <2>3 DEF CacheTypeOK, NamesCoinsOnce
  <2>. QED  BY <1>1, <1>2, <2>1, <2>3, <2>4
<1>6. ASSUME NEW ids \in SUBSET Coin, Untrack(ids)
      PROVE  IInv'
  BY <1>1, <1>2, <1>6 DEF Untrack, CacheTypeOK, NamesCoinsOnce
<1>7. CASE UNCHANGED cacheVars
  BY <1>1, <1>2, <1>7 DEF cacheVars, CacheTypeOK, NamesCoinsOnce
<1>. QED
  BY <1>3, <1>4, <1>5, <1>6, <1>7 DEF AnyReport

\* The inductive invariant: the cache is a map below its peak.
THEOREM CacheInvariance == AnyPeerSpec => []IInv
<1>1. CacheInit => IInv
  BY DEF CacheInit, IInv, CacheTypeOK, NoCoinAbovePeak, NamesCoinsOnce, Optional
<1>2. IInv /\ [AnyReport]_cacheVars => IInv'
  BY CacheStep
<1>. QED  BY <1>1, <1>2, PTL DEF AnyPeerSpec

\* Every cached state is of a coin, and of each coin there is one.
THEOREM CacheTypeCorrect == AnyPeerSpec => []CacheTypeOK
BY CacheInvariance, PTL DEF IInv

\* cache.rs's confirmation-accuracy invariant: `peak - created` never wraps.
THEOREM ConfirmationsNeverWrap == AnyPeerSpec => []NoCoinAbovePeak
BY CacheInvariance, PTL DEF IInv

-----------------------------------------------------------------------------
(* The peak falls only when something is taken back.                        *)

\* An insertion leaves nothing but what was kept and what was sent.
LEMMA OnlyKeptOrSent ==
  ASSUME NEW kept, NEW states, NEW peaks, NEW capacity,
         NEW after \in CacheCoins(kept, states, peaks, capacity)
  PROVE  after \subseteq kept \cup states
<1>. DEFINE stored == {s \in states : Storable(s, peaks)}
            known == {s \in stored : s.coin \in CoinsIn(kept)}
<1>1. PICK added \in Admissions(kept, stored \ known, capacity) :
              after = Overwrite(kept, known \cup added)
  BY DEF CacheCoins
<1>2. added \subseteq stored
  BY DEF Admissions
<1>3. Overwrite(kept, known \cup added) \subseteq kept \cup (known \cup added)
  BY DEF Overwrite
<1>. QED
  BY <1>1, <1>2, <1>3

\* What a rollback takes back was in the cache, with a height, and is not kept.
LEMMA TakenBackIsGone ==
  ASSUME CacheTypeOK, NEW items, NEW fork,
         NEW s \in Erased(items, fork) \cup Unspent(items, fork)
  PROVE  /\ s \in coins
         /\ s.created \cup s.spent # {}
         /\ s.coin \notin Reasserted(items)
         /\ s \notin Retained(items, fork)
<1>1. s \in coins /\ s.coin \notin Reasserted(items) /\ s.created \cup s.spent # {}
  BY DEF Erased, Unspent
<1>2. ASSUME NEW u \in Unspent(items, fork), s = [u EXCEPT !.spent = {}]
      PROVE  FALSE
  <2>1. u \in coins /\ u \notin Erased(items, fork) /\ u.spent # {}
    BY DEF Unspent
  <2>2. u \in CoinState
    BY <2>1 DEF CacheTypeOK
  <2>3. s.coin = u.coin /\ s.spent = {}
    BY <1>2, <2>2 DEF CoinState
  <2>4. s = u
    BY <1>1, <2>1, <2>3 DEF CacheTypeOK, NamesCoinsOnce
  <2>. QED  BY <2>1, <2>3, <2>4
<1>. QED
  BY <1>1, <1>2 DEF Retained

\* A peak change that is not meant to lower the peak does not.
LEMMA PeakRises ==
  ASSUME NEW height \in Height, peak \in Optional(Height),
         NEW p \in peak, NEW q \in PeakAfter(height, FALSE)
  PROVE  ~ (q < p)
<1>1. p \in Nat /\ height \in Nat
  BY CacheAssumption DEF Optional
<1>2. CASE PeakChanges(height, FALSE)
  <2>1. q = height /\ height >= p
    BY <1>2 DEF PeakAfter, PeakChanges
  <2>. QED  BY <1>1, <2>1
<1>3. CASE ~ PeakChanges(height, FALSE)
  <2>1. q = p
    BY <1>3 DEF PeakAfter, Optional
  <2>. QED  BY <1>1, <2>1
<1>. QED  BY <1>2, <1>3

\* apply_update's guard against a peer that lowers the peak at will: whatever
\* messages, bare peaks and subscriptions come in, a peak that falls takes a
\* coin or a spend with it.
THEOREM PeakFallsOnlyWithAReorg == AnyPeerSpec => PeakFallsOnlyByReorg
<1>. DEFINE TakesBack == \E s \in coins : s.created \cup s.spent # {} /\ s \notin coins'
            Falls == \E p \in peak, q \in peak' : q < p
<1>1. ASSUME IInv, [AnyReport]_cacheVars, Falls
      PROVE  TakesBack
  <2>1. PICK p \in peak, q \in peak' : q < p
    BY <1>1
  <2>2. CacheTypeOK /\ peak \in Optional(Height)
    BY <1>1 DEF IInv, CacheTypeOK
  <2>3. peak' # peak
    <3>1. SUFFICES ASSUME peak' = peak PROVE FALSE
      OBVIOUS
    <3>2. p = q /\ p \in Nat
      BY <2>1, <2>2, <3>1, CacheAssumption DEF Optional
    <3>. QED  BY <2>1, <3>2
  <2>4. ASSUME NEW height \in Height, SetPeak(height)
        PROVE  FALSE
    BY <2>1, <2>2, <2>4, PeakRises DEF SetPeak
  <2>5. ASSUME NEW items \in Report, NEW height \in Height, NEW fork \in Height,
               ApplyUpdate(items, height, fork)
        PROVE  TakesBack
    <3>. DEFINE lower == IsGenuineReorg(items, height, fork)
                kept == CoinsAfter(Retained(items, fork), height, lower)
                states == {s \in items : IsSubscribed(s)}
                capacity == Capacity(subscribed_coins, subscribed_puzzle_hashes)
    <3>1. /\ peak' = PeakAfter(height, lower)
          /\ coins' \in CacheCoins(kept, states, peak', capacity)
      BY <2>5 DEF ApplyUpdate
    <3>2. lower \in BOOLEAN
      BY DEF IsGenuineReorg
    <3>3. lower = TRUE
      <4>. HIDE DEF lower
      <4>1. CASE lower = FALSE
        BY <2>1, <2>2, <3>1, <4>1, PeakRises
      <4>. QED  BY <3>2, <4>1
    <3>4. PICK s \in Erased(items, fork) \cup Unspent(items, fork) : TRUE
      BY <3>3 DEF IsGenuineReorg
    <3>5. /\ s \in coins
          /\ s.created \cup s.spent # {}
          /\ s.coin \notin Reasserted(items)
          /\ s \notin Retained(items, fork)
      BY <2>2, <3>4, TakenBackIsGone
    <3>6. s \notin states
      BY <3>5 DEF Reasserted, CoinsIn
    <3>7. s \notin kept
      BY <3>5 DEF CoinsAfter, Sweep
    <3>. HIDE DEF kept, states, capacity
    <3>8. coins' \subseteq kept \cup states
      BY <3>1, OnlyKeptOrSent
    <3>. QED  BY <3>5, <3>6, <3>7, <3>8
  <2>6. ASSUME NEW ids \in SUBSET Coin, NEW hashes \in SUBSET PuzzleHash,
               NEW answer \in Report, Track(ids, hashes, answer)
        PROVE  FALSE
    BY <2>3, <2>6 DEF Track
  <2>7. ASSUME NEW ids \in SUBSET Coin, Untrack(ids)
        PROVE  FALSE
    BY <2>3, <2>7 DEF Untrack
  <2>8. CASE UNCHANGED cacheVars
    BY <2>3, <2>8 DEF cacheVars
  <2>. QED
    BY <1>1, <2>4, <2>5, <2>6, <2>7, <2>8 DEF AnyReport
<1>2. ASSUME IInv, [AnyReport]_cacheVars
      PROVE  [\A p \in peak, q \in peak' : q < p =>
                 \E s \in coins : s.created \cup s.spent # {} /\ s \notin coins']_cacheVars
  BY <1>1, <1>2
<1>. QED
  BY CacheInvariance, <1>2, PTL DEF AnyPeerSpec, PeakFallsOnlyByReorg

-----------------------------------------------------------------------------
(* The cache is bounded by what is subscribed to.                           *)

\* A map has as many states as coins.
LEMMA StatesAreCoins ==
  ASSUME NEW states, states \subseteq CoinState, NamesCoinsOnce(states)
  PROVE  IsFiniteSet(states) /\ IsFiniteSet(CoinsIn(states)) /\ Cardinality(states) = Cardinality(CoinsIn(states))
<1>. DEFINE coin == [s \in states |-> s.coin]
<1>1. coin \in [states -> CoinsIn(states)] /\ \A s, t \in states : coin[s] = coin[t] => s = t
  BY DEF CoinsIn, NamesCoinsOnce
<1>2. \A c \in CoinsIn(states) : \E s \in states : coin[s] = c
  BY DEF CoinsIn
<1>3. ExistsBijection(states, CoinsIn(states))
  BY <1>1, <1>2, Fun_IsBij, Fun_ExistsBij
<1>4. CoinsIn(states) \in SUBSET Coin
  BY DEF CoinsIn, CoinState
<1>5. IsFiniteSet(CoinsIn(states))
  BY <1>4, CacheAssumption, FS_Subset
<1>6. ExistsBijection(CoinsIn(states), states)
  BY <1>3, Fun_ExistsBijSymmetric
<1>. QED  BY <1>5, <1>6, FS_Bijection

\* An insertion that makes the map grow leaves it within its capacity.
LEMMA InsertionIsBounded ==
  ASSUME NEW kept, kept \subseteq CoinState, NamesCoinsOnce(kept),
         NEW states, states \subseteq CoinState, NamesCoinsOnce(states),
         NEW peaks, NEW capacity \in Nat,
         NEW after \in CacheCoins(kept, states, peaks, capacity)
  PROVE  Cardinality(after) <= Cardinality(kept) \/ Cardinality(after) <= capacity
<1>. DEFINE taken == {s \in states : Storable(s, peaks)}
            known == {s \in taken : s.coin \in CoinsIn(kept)}
<1>1. PICK added \in Admissions(kept, taken \ known, capacity) : after = Overwrite(kept, known \cup added)
  BY DEF CacheCoins
<1>2. /\ added \subseteq taken \ known /\ known \subseteq states
      /\ added = {} \/ \E x \in added : HasRoom(kept \cup (added \ {x}), capacity)
  BY <1>1 DEF Admissions
<1>3. \A x \in added : x \in CoinState /\ x.coin \notin CoinsIn(kept)
  BY <1>2
<1>4. known \cup added \subseteq states
  BY <1>2
<1>5. CoinsIn(known) \subseteq CoinsIn(kept)
  BY DEF CoinsIn
<1>. HIDE DEF known
<1>6. after \subseteq CoinState /\ NamesCoinsOnce(after)
  BY <1>1, <1>4 DEF Overwrite, CoinsIn, NamesCoinsOnce
<1>7. kept \cup added \subseteq CoinState /\ NamesCoinsOnce(kept \cup added)
  BY <1>3, <1>4 DEF CoinsIn, NamesCoinsOnce
<1>8. CoinsIn(after) = CoinsIn(kept \cup added)
  BY <1>1, <1>5 DEF Overwrite, CoinsIn
<1>9. Cardinality(after) = Cardinality(kept \cup added)
  BY <1>6, <1>7, <1>8, StatesAreCoins
<1>10. CASE added = {}
  <2>1. kept \cup added = kept /\ Cardinality(kept) \in Nat
    BY <1>10, StatesAreCoins, FS_CardinalityType
  <2>. QED  BY <1>9, <2>1
<1>11. ASSUME NEW x \in added, HasRoom(kept \cup (added \ {x}), capacity)
       PROVE  Cardinality(after) <= capacity
  <2>. DEFINE rest == kept \cup (added \ {x})
  <2>1. x \notin rest /\ kept \cup added = rest \cup {x}
    BY <1>3 DEF CoinsIn
  <2>2. IsFiniteSet(rest)
    <3>1. rest \subseteq CoinState /\ NamesCoinsOnce(rest)
      BY <1>7 DEF NamesCoinsOnce
    <3>. QED  BY <3>1, StatesAreCoins
  <2>3. Cardinality(rest) < capacity
    BY <1>11 DEF HasRoom
  <2>. HIDE DEF rest
  <2>4. Cardinality(rest \cup {x}) = Cardinality(rest) + 1 /\ Cardinality(rest) \in Nat
    BY <2>1, <2>2, FS_AddElement, FS_CardinalityType
  <2>5. Cardinality(after) = Cardinality(rest) + 1
    BY <1>9, <2>1, <2>4
  <2>6. capacity \in Nat
    OBVIOUS
  <2>. QED  BY <2>3, <2>4, <2>5, <2>6
<1>. QED  BY <1>2, <1>10, <1>11

\* A map whose coins are all in another is no larger.
LEMMA FewerCoins ==
  ASSUME NEW some, some \subseteq CoinState, NamesCoinsOnce(some),
         NEW all, all \subseteq CoinState, NamesCoinsOnce(all),
         CoinsIn(some) \subseteq CoinsIn(all)
  PROVE  Cardinality(some) <= Cardinality(all)
<1>1. Cardinality(CoinsIn(some)) <= Cardinality(CoinsIn(all))
  BY StatesAreCoins, FS_Subset
<1>. QED  BY <1>1, StatesAreCoins

LEMMA CapacityIsNat ==
  ASSUME NEW ids \in SUBSET Coin, NEW hashes \in SUBSET PuzzleHash
  PROVE  Capacity(ids, hashes) \in Nat
<1>1. Cardinality(ids) \in Nat /\ Cardinality(hashes) \in Nat
  BY CacheAssumption, FS_Subset, FS_CardinalityType
<1>2. \A i, j, m \in Nat : i + j * m \in Nat
  OBVIOUS
<1>. QED  BY <1>1, <1>2, CacheAssumption DEF Capacity

\* A rollback leaves states of cached coins only.
LEMMA RollbackAddsNoCoin ==
  ASSUME CacheTypeOK, NEW items, NEW fork
  PROVE  CoinsIn(Retained(items, fork)) \subseteq CoinsIn(coins)
<1>1. Unspent(items, fork) \subseteq coins /\ coins \subseteq CoinState
  BY DEF Unspent, CacheTypeOK
<1>2. \A u \in Unspent(items, fork) : [u EXCEPT !.spent = {}].coin = u.coin
  BY <1>1 DEF CoinState
<1>3. ASSUME NEW s \in Retained(items, fork)
      PROVE  \E t \in coins : s.coin = t.coin
  <2>1. CASE s \in coins
    BY <2>1
  <2>2. CASE \E u \in Unspent(items, fork) : s = [u EXCEPT !.spent = {}]
    BY <1>1, <1>2, <2>2
  <2>. QED  BY <2>1, <2>2 DEF Retained
<1>. QED  BY <1>3 DEF CoinsIn

\* cache_coin's bound on memory: whatever is seeded, subscribed or reported, in
\* whatever order, the map grows only while it is within the capacity of the
\* subscriptions.
THEOREM GrowthStopsAtCapacity == AnyPeerSpec => GrowthIsBounded
<1>. DEFINE Grows == Cardinality(coins') > Cardinality(coins)
            Before == Cardinality(coins') <= Capacity(subscribed_coins, subscribed_puzzle_hashes)
            After == Cardinality(coins') <= Capacity(subscribed_coins', subscribed_puzzle_hashes')
<1>1. ASSUME IInv, IInv', [AnyReport]_cacheVars, Grows
      PROVE  Before \/ After
  <2>1. /\ CacheTypeOK
        /\ coins \subseteq CoinState /\ NamesCoinsOnce(coins)
        /\ coins' \subseteq CoinState /\ NamesCoinsOnce(coins')
        /\ subscribed_coins \in SUBSET Coin /\ subscribed_puzzle_hashes \in SUBSET PuzzleHash
        /\ subscribed_coins' \in SUBSET Coin /\ subscribed_puzzle_hashes' \in SUBSET PuzzleHash
        /\ peak \in Optional(Height)
        /\ \A s \in coins : Storable(s, peak)
    BY <1>1, EveryCoinIsStorable DEF IInv, CacheTypeOK
  <2>2. Cardinality(coins) \in Nat /\ Cardinality(coins') \in Nat
    BY <2>1, StatesAreCoins, FS_CardinalityType
  <2>3. ~ (Cardinality(coins') <= Cardinality(coins))
    BY <1>1, <2>2
  <2>4. CoinsIn(coins') \subseteq CoinsIn(coins) => FALSE
    BY <2>1, <2>3, FewerCoins
  <2>5. ASSUME NEW height \in Height, SetPeak(height)
        PROVE  FALSE
    <3>1. coins' \subseteq coins
      BY <2>1, <2>5, PeakBoundary DEF SetPeak
    <3>. QED  BY <2>4, <3>1 DEF CoinsIn
  <2>6. ASSUME NEW items \in Report, NEW height \in Height, NEW fork \in Height,
               ApplyUpdate(items, height, fork)
        PROVE  Before
    <3>. DEFINE lower == IsGenuineReorg(items, height, fork)
                back == Retained(items, fork)
                kept == CoinsAfter(back, height, lower)
                states == {s \in items : IsSubscribed(s)}
                capacity == Capacity(subscribed_coins, subscribed_puzzle_hashes)
    <3>1. coins' \in CacheCoins(kept, states, PeakAfter(height, lower), capacity)
      BY <2>6 DEF ApplyUpdate
    <3>2. lower \in BOOLEAN
      BY DEF IsGenuineReorg
    <3>3. /\ back \subseteq CoinState /\ NamesCoinsOnce(back)
          /\ \A s \in back : Storable(s, peak)
      BY <2>1, RollbackKeepsHeights DEF Storable
    <3>4. CoinsIn(back) \subseteq CoinsIn(coins)
      BY <2>1, RollbackAddsNoCoin
    <3>5. states \subseteq CoinState /\ NamesCoinsOnce(states)
      BY DEF Report, NamesCoinsOnce
    <3>6. capacity \in Nat
      BY <2>1, CapacityIsNat
    <3>. HIDE DEF lower, back
    <3>7. kept \subseteq back
      BY <2>1, <3>2, <3>3, PeakBoundary
    <3>8. kept \subseteq CoinState /\ NamesCoinsOnce(kept) /\ CoinsIn(kept) \subseteq CoinsIn(coins)
      BY <3>3, <3>4, <3>7 DEF NamesCoinsOnce, CoinsIn
    <3>. HIDE DEF kept, states
    <3>9. Cardinality(kept) <= Cardinality(coins)
      BY <2>1, <3>8, FewerCoins
    <3>10. Cardinality(kept) \in Nat
      BY <3>8, StatesAreCoins, FS_CardinalityType
    <3>11. Cardinality(coins') <= Cardinality(kept) \/ Cardinality(coins') <= capacity
      <4>. HIDE DEF capacity
      <4>. QED  BY <3>1, <3>5, <3>6, <3>8, InsertionIsBounded
    <3>12. ~ (Cardinality(coins') <= Cardinality(kept))
      BY <2>2, <2>3, <3>9, <3>10
    <3>. QED  BY <3>11, <3>12
  <2>7. ASSUME NEW ids \in SUBSET Coin, NEW hashes \in SUBSET PuzzleHash,
               NEW answer \in Report, Track(ids, hashes, answer)
        PROVE  After
    <3>. DEFINE capacity == Capacity(subscribed_coins', subscribed_puzzle_hashes')
    <3>1. coins' \in CacheCoins(coins, answer, peak, capacity)
      BY <2>7 DEF Track
    <3>2. answer \subseteq CoinState /\ NamesCoinsOnce(answer)
      BY DEF Report
    <3>3. capacity \in Nat
      BY <2>1, CapacityIsNat
    <3>4. Cardinality(coins') <= Cardinality(coins) \/ Cardinality(coins') <= capacity
      <4>. HIDE DEF capacity
      <4>. QED  BY <2>1, <3>1, <3>2, <3>3, InsertionIsBounded
    <3>. QED  BY <2>3, <3>4
  <2>8. ASSUME NEW ids \in SUBSET Coin, Untrack(ids)
        PROVE  FALSE
    BY <2>4, <2>8 DEF Untrack
  <2>9. CASE UNCHANGED cacheVars
    BY <2>4, <2>9 DEF cacheVars
  <2>. QED  BY <1>1, <2>5, <2>6, <2>7, <2>8, <2>9 DEF AnyReport
<1>2. ASSUME IInv, IInv', [AnyReport]_cacheVars
      PROVE  [Cardinality(coins') > Cardinality(coins) =>
                 Cardinality(coins') <= Capacity(subscribed_coins, subscribed_puzzle_hashes)
                     \/ Cardinality(coins') <=
                           Capacity(subscribed_coins', subscribed_puzzle_hashes')]_cacheVars
  BY <1>1, <1>2
<1>. QED
  BY <1>2, CacheInvariance, PTL DEF AnyPeerSpec, GrowthIsBounded
=============================================================================
