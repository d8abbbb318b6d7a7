----------------------------- MODULE SetProofs -----------------------------
(***************************************************************************)
(* What holds of the population queries for every pool, chain and number   *)
(* of nodes, wherever they stand and whatever the faulty ones say.         *)
(*                                                                         *)
(* The argument has three parts.  An answer of a node in good order, held  *)
(* down to a height that has settled for it, TELLS the chain at that       *)
(* height: its records are those of the View, whatever landed between its  *)
(* pages.  A fingerprint is made of the last record of each coin, so that  *)
(* telling a view and making its claims are one and the same.  And what a  *)
(* verdict rests on (SInv) is all of the answers, held to one common       *)
(* height, at which one source in good order decides for all that agree.   *)
(***************************************************************************)
EXTENDS SetRouter, FunctionTheorems, FiniteSetTheorems, SequenceTheorems,
        WellFoundedInduction, TLAPS

-----------------------------------------------------------------------------
(* Places, and the last record of a coin.                                   *)

\* A source's answer, or what is kept of one, is a finite list with gaps.
Listed(items) == \E n \in Nat : DOMAIN items \subseteq 1 .. n

LEMMA HasLast ==
  ASSUME NEW n \in Nat, NEW T \in SUBSET (1 .. n), T # {}
  PROVE  \E i \in T : \A j \in T : j <= i
<1>. DEFINE U == {k \in Nat : \E i \in T : k = n - i}
<1>1. U \subseteq Nat /\ U # {}
  <2>1. PICK i \in T : TRUE
    OBVIOUS
  <2>2. n - i \in Nat
    BY <2>1
  <2>. QED  BY <2>1, <2>2
<1>2. PICK k \in U : \A m \in U : ~ (<<m, k>> \in OpToRel(<, Nat))
  BY <1>1, WFMin, NatLessThanWellFounded
<1>3. \A m \in U : ~ (m < k)
  BY <1>1, <1>2 DEF OpToRel
<1>4. PICK i \in T : k = n - i
  BY <1>2
<1>5. ASSUME NEW j \in T
      PROVE  j <= i
  <2>1. n - j \in U /\ j \in Nat /\ i \in Nat
    OBVIOUS
  <2>2. ~ (n - j < n - i)
    BY <1>3, <1>4, <2>1
  <2>. QED  BY <2>1, <2>2
<1>. QED  BY <1>4, <1>5

\* Place i holds the last that a source says of its coin.
IsLast(items, i) ==
    i \in DOMAIN items /\ \A j \in DOMAIN items : items[j].coin = items[i].coin => j <= i

LEMMA EveryCoinHasALast ==
  ASSUME NEW items, Listed(items), NEW c \in Coins(items)
  PROVE  \E i \in DOMAIN items : items[i].coin = c /\ IsLast(items, i)
<1>1. PICK n \in Nat : DOMAIN items \subseteq 1 .. n
  BY DEF Listed
<1>. DEFINE T == {i \in DOMAIN items : items[i].coin = c}
<1>2. T \in SUBSET (1 .. n) /\ T # {}
  BY <1>1 DEF Coins
<1>3. PICK i \in T : \A j \in T : j <= i
  BY <1>2, HasLast
<1>. QED  BY <1>3 DEF IsLast

\* The fingerprint is made of the last records, and there is one of each coin.
LEMMA FingerprintIsOfTheLast ==
  ASSUME NEW items, Listed(items)
  PROVE  /\ DOMAIN Fingerprint(items) = Coins(items)
         /\ Fingerprint(items) = [c \in Coins(items) |-> Fingerprint(items)[c]]
         /\ \A i : IsLast(items, i) => Fingerprint(items)[items[i].coin] = items[i]
<1>1. ASSUME NEW i, IsLast(items, i)
      PROVE  Fingerprint(items)[items[i].coin] = items[i]
  <2>. DEFINE c == items[i].coin
              Chosen(k) == /\ k \in DOMAIN items
                           /\ items[k].coin = c
                           /\ \A j \in DOMAIN items : items[j].coin = c => j <= k
              k == CHOOSE k \in DOMAIN items :
                       /\ items[k].coin = c
                       /\ \A j \in DOMAIN items : items[j].coin = c => j <= k
  <2>1. Chosen(i)
    BY <1>1 DEF IsLast
  <2>2. Chosen(k)
    BY <2>1
  <2>3. DOMAIN items \subseteq Nat
    BY DEF Listed
  <2>4. k = i
    <3>1. k <= i /\ i <= k /\ k \in Nat /\ i \in Nat
      BY <2>1, <2>2, <2>3
    <3>. HIDE DEF k
    <3>. QED  BY <3>1
  <2>5. c \in Coins(items)
    BY <2>1 DEF Coins
  <2>6. Fingerprint(items)[c] = items[k]
    BY <2>5 DEF Fingerprint
  <2>. QED  BY <2>4, <2>6
<1>2. DOMAIN Fingerprint(items) = Coins(items)
  BY DEF Fingerprint
<1>. QED  BY <1>1, <1>2 DEF Fingerprint

\* A set of records with one record for a coin, as claims.
NamesOnce(view) == \A r, q \in view : r.coin = q.coin => r = q
ClaimsIn(view) == [c \in {r.coin : r \in view} |-> CHOOSE r \in view : r.coin = c]

\* The answer holds the records of the view, and no others.
Tells(items, view) ==
    /\ Listed(items)
    /\ \A i \in DOMAIN items : items[i] \in view
    /\ \A r \in view : \E i \in DOMAIN items : items[i] = r

\* The last that is said of each coin is the view's record of it, and no coin is
\* missing or added.
TellsLast(items, view) ==
    /\ Listed(items)
    /\ Coins(items) = {r.coin : r \in view}
    /\ \A i : IsLast(items, i) => items[i] \in view

LEMMA TellingIsTellingLast ==
  ASSUME NEW items, NEW view, Tells(items, view)
  PROVE  TellsLast(items, view)
<1>1. Coins(items) = {r.coin : r \in view}
  BY DEF Tells, Coins
<1>. QED  BY <1>1 DEF Tells, TellsLast, IsLast

LEMMA ClaimsAreTheRecords ==
  ASSUME NEW view, NamesOnce(view), NEW r \in view
  PROVE  ClaimsIn(view)[r.coin] = r
<1>. DEFINE c == r.coin
            q == CHOOSE q \in view : q.coin = c
<1>1. q \in view /\ q.coin = c
  OBVIOUS
<1>2. q = r
  BY <1>1 DEF NamesOnce
<1>3. ClaimsIn(view)[c] = q
  BY DEF ClaimsIn
<1>. QED  BY <1>2, <1>3

\* To tell a view last is to make its claims.
LEMMA FingerprintIsTheClaims ==
  ASSUME NEW items, NEW view, NamesOnce(view), Listed(items)
  PROVE  TellsLast(items, view) <=> Fingerprint(items) = ClaimsIn(view)
<1>1. /\ DOMAIN Fingerprint(items) = Coins(items)
      /\ Fingerprint(items) = [c \in Coins(items) |-> Fingerprint(items)[c]]
      /\ \A i : IsLast(items, i) => Fingerprint(items)[items[i].coin] = items[i]
  BY FingerprintIsOfTheLast
<1>2. ClaimsIn(view) = [c \in {r.coin : r \in view} |-> ClaimsIn(view)[c]]
  BY DEF ClaimsIn
<1>3. ASSUME TellsLast(items, view)
      PROVE  Fingerprint(items) = ClaimsIn(view)
  <2>1. Coins(items) = {r.coin : r \in view}
    BY <1>3 DEF TellsLast
  <2>2. ASSUME NEW c \in Coins(items)
        PROVE  Fingerprint(items)[c] = ClaimsIn(view)[c]
    <3>1. PICK i \in DOMAIN items : items[i].coin = c /\ IsLast(items, i)
      BY EveryCoinHasALast
    <3>2. items[i] \in view
      BY <1>3, <3>1 DEF TellsLast
    <3>3. Fingerprint(items)[c] = items[i] /\ ClaimsIn(view)[c] = items[i]
      BY <1>1, <3>1, <3>2, ClaimsAreTheRecords
    <3>. QED  BY <3>3
  <2>. QED  BY <1>1, <1>2, <2>1, <2>2
<1>4. ASSUME Fingerprint(items) = ClaimsIn(view)
      PROVE  TellsLast(items, view)
  <2>1. Coins(items) = {r.coin : r \in view}
    BY <1>1, <1>2, <1>4
  <2>2. ASSUME NEW i, IsLast(items, i)
        PROVE  items[i] \in view
    <3>1. items[i].coin \in Coins(items)
      BY <2>2 DEF IsLast, Coins
    <3>2. PICK r \in view : r.coin = items[i].coin
      BY <2>1, <3>1
    <3>3. ClaimsIn(view)[r.coin] = r
      BY ClaimsAreTheRecords
    <3>. QED  BY <1>1, <1>4, <2>2, <3>2, <3>3
  <2>. QED  BY <2>1, <2>2 DEF TellsLast
<1>. QED  BY <1>3, <1>4

-----------------------------------------------------------------------------
(* What a node's branch says at a height.                                   *)

\* A finite set, written as a list, has the same elements.
LEMMA ListsTellTheirSet ==
  ASSUME NEW S, IsFiniteSet(S)
  PROVE  /\ SetToSeq(S) \in [1 .. Cardinality(S) -> S]
         /\ \A r \in S : \E i \in 1 .. Cardinality(S) : SetToSeq(S)[i] = r
         /\ \A i, j \in 1 .. Cardinality(S) : SetToSeq(S)[i] = SetToSeq(S)[j] => i = j
         /\ Cardinality(S) \in Nat
<1>. DEFINE n == Cardinality(S)
<1>1. n \in Nat /\ ExistsBijection(1 .. n, S)
  BY FS_CardinalityType
<1>2. \E f \in [1 .. n -> S] : IsInjective(f)
  <2>1. PICK f : f \in Bijection(1 .. n, S)
    BY <1>1 DEF ExistsBijection
  <2>2. f \in [1 .. n -> S] /\ \A i, j \in 1 .. n : f[i] = f[j] => i = j
    BY <2>1 DEF Bijection, Injection, Surjection, IsInjective
  <2>. QED  BY <2>2 DEF IsInjective
<1>3. SetToSeq(S) \in [1 .. n -> S] /\ IsInjective(SetToSeq(S))
  BY <1>2 DEF SetToSeq
<1>. DEFINE f == SetToSeq(S)
<1>4. f \in [1 .. n -> S] /\ \A i, j \in 1 .. n : f[i] = f[j] => i = j
  BY <1>3 DEF IsInjective
<1>. HIDE DEF f
<1>5. f \in Injection(1 .. n, S)
  BY <1>4 DEF Injection, IsInjective
<1>6. f \in Surjection(1 .. n, S)
  <2>1. IsFiniteSet(1 .. n) /\ Cardinality(1 .. n) = n
    BY <1>1, FS_Interval
  <2>. QED  BY <1>5, <2>1, FS_Injection
<1>7. \A r \in S : \E i \in 1 .. n : f[i] = r
  BY <1>6 DEF Surjection
<1>. QED  BY <1>1, <1>4, <1>7 DEF f

LEMMA ListsTell ==
  ASSUME NEW S, IsFiniteSet(S)
  PROVE  Tells(SetToSeq(S), S)
<1>1. SetToSeq(S) \in [1 .. Cardinality(S) -> S] /\ Cardinality(S) \in Nat
  BY ListsTellTheirSet
<1>2. \A r \in S : \E i \in 1 .. Cardinality(S) : SetToSeq(S)[i] = r
  BY ListsTellTheirSet
<1>. QED  BY <1>1, <1>2 DEF Tells, Listed

\* The record of one coin.
RecordOf(branch, c, t) ==
    [coin |-> c, created |-> branch[c].created,
     spent |-> IF branch[c].spent <= t THEN branch[c].spent ELSE 0]

Branch == [Coin -> [created : Nat, spent : Nat]]

LEMMA ViewsHoldRecords ==
  ASSUME NEW branch, NEW t
  PROVE  \A r : r \in View(branch, t) <=>
                   \E c \in Coin : branch[c].created \in 1 .. t /\ r = RecordOf(branch, c, t)
BY DEF View, RecordOf

LEMMA ViewsAreFinite ==
  ASSUME NEW branch, NEW t
  PROVE  NamesOnce(View(branch, t)) /\ IsFiniteSet(View(branch, t))
<1>. DEFINE S == {c \in Coin : branch[c].created \in 1 .. t}
            f == [c \in S |-> RecordOf(branch, c, t)]
<1>1. IsFiniteSet(S)
  BY SetReadAssumption, FS_Subset
<1>2. f \in Surjection(S, View(branch, t))
  BY ViewsHoldRecords DEF Surjection
<1>3. IsFiniteSet(View(branch, t))
  BY <1>1, <1>2, FS_Surjection
<1>4. NamesOnce(View(branch, t))
  BY ViewsHoldRecords DEF NamesOnce, RecordOf
<1>. QED  BY <1>3, <1>4

\* Held down to h, a record is what the branch said at h.
LEMMA RecordsHoldDown ==
  ASSUME NEW branch \in Branch, NEW c \in Coin, NEW t \in Nat, NEW h \in Nat, h <= t
  PROVE  WithSpendDropped(RecordOf(branch, c, t), h) = RecordOf(branch, c, h)
<1>1. branch[c].spent \in Nat
  BY DEF Branch
<1>. QED  BY <1>1 DEF WithSpendDropped, RecordOf

LEMMA TheBranchesShareTheirRoot ==
  ASSUME NEW h \in Nat, h <= ForkAt
  PROVE  View(Orphan, h) = View(Main, h)
<1>1. ASSUME NEW c \in Coin
      PROVE  /\ Main[c].created \in 1 .. h <=> Orphan[c].created \in 1 .. h
             /\ Main[c].created \in 1 .. h => RecordOf(Main, c, h) = RecordOf(Orphan, c, h)
  <2>1. /\ Main[c].created \in Nat /\ Orphan[c].created \in Nat
        /\ Main[c].spent \in Nat /\ Orphan[c].spent \in Nat
        /\ ForkAt \in Nat
    BY SetReadAssumption
  <2>2. \A k \in 1 .. ForkAt : /\ Main[c].created = k <=> Orphan[c].created = k
                               /\ Main[c].spent = k <=> Orphan[c].spent = k
    BY SetReadAssumption
  <2>3. 1 .. h \subseteq 1 .. ForkAt
    BY <2>1
  <2>4. Main[c].created \in 1 .. h \/ Orphan[c].created \in 1 .. h => Main[c].created = Orphan[c].created
    BY <2>2, <2>3
  <2>5. (IF Main[c].spent <= h THEN Main[c].spent ELSE 0) = (IF Orphan[c].spent <= h THEN Orphan[c].spent ELSE 0)
    <3>1. CASE Main[c].spent \in 1 .. h \/ Orphan[c].spent \in 1 .. h
      <4>1. Main[c].spent = Orphan[c].spent
        BY <2>2, <2>3, <3>1
      <4>. QED  BY <4>1
    <3>2. CASE Main[c].spent \notin 1 .. h /\ Orphan[c].spent \notin 1 .. h
      BY <2>1, <3>2
    <3>. QED  BY <3>1, <3>2
  <2>. QED  BY <2>4, <2>5 DEF RecordOf
<1>2. \A r : r \in View(Main, h) <=>
                \E c \in Coin : Main[c].created \in 1 .. h /\ r = RecordOf(Main, c, h)
  BY ViewsHoldRecords
<1>3. \A r : r \in View(Orphan, h) <=>
                \E c \in Coin : Orphan[c].created \in 1 .. h /\ r = RecordOf(Orphan, c, h)
  BY ViewsHoldRecords
<1>4. \A r : r \in View(Main, h) <=> r \in View(Orphan, h)
  BY <1>1, <1>2, <1>3
<1>. QED  BY <1>4

-----------------------------------------------------------------------------
(* What a node in good order answers.                                       *)

\* An answer whose records are all of one branch, at some height from h on, and
\* which leaves out no coin that was there at h.
Faithful(items, branch, h) ==
    /\ Listed(items)
    /\ \A i \in DOMAIN items : \E c \in Coin, t \in Nat :
          h <= t /\ items[i] = RecordOf(branch, c, t)
    /\ \A i \in DOMAIN items : items[i].created \in Nat \ {0}
    /\ \A c \in Coin : branch[c].created \in 1 .. h =>
          \E i \in DOMAIN items : items[i].coin = c

LEMMA NormalisedIsFiltered ==
  ASSUME NEW items, NEW h
  PROVE  NormaliseAt(items, h) =
             [i \in {j \in DOMAIN items : items[j].created <= h} |-> WithSpendDropped(items[i], h)]
BY DEF NormaliseAt, RestrictValues, Restrict

LEMMA FaithfulAnswersTell ==
  ASSUME NEW branch \in Branch, NEW h \in Nat, NEW items, Faithful(items, branch, h)
  PROVE  Tells(NormaliseAt(items, h), View(branch, h))
<1>. DEFINE held == NormaliseAt(items, h)
<1>1. /\ DOMAIN held = {j \in DOMAIN items : items[j].created <= h}
      /\ \A i \in DOMAIN held : held[i] = WithSpendDropped(items[i], h)
  BY NormalisedIsFiltered
<1>. HIDE DEF held
<1>2. Listed(held)
  BY <1>1 DEF Faithful, Listed
<1>3. ASSUME NEW i \in DOMAIN held
      PROVE  \E c \in Coin : /\ branch[c].created \in 1 .. h
                             /\ items[i].coin = c
                             /\ held[i] = RecordOf(branch, c, h)
  <2>1. i \in DOMAIN items /\ items[i].created <= h /\ items[i].created \in Nat \ {0}
    BY <1>1 DEF Faithful
  <2>2. PICK c \in Coin : \E t \in Nat : h <= t /\ items[i] = RecordOf(branch, c, t)
    BY <2>1 DEF Faithful
  <2>3. PICK t \in Nat : h <= t /\ items[i] = RecordOf(branch, c, t)
    BY <2>2
  <2>4. items[i].created = branch[c].created /\ items[i].coin = c
    BY <2>3 DEF RecordOf
  <2>5. held[i] = RecordOf(branch, c, h)
    BY <1>1, <2>3, RecordsHoldDown
  <2>. QED  BY <2>1, <2>4, <2>5
<1>4. \A i \in DOMAIN held : held[i] \in View(branch, h)
  BY <1>3, ViewsHoldRecords
<1>5. ASSUME NEW r \in View(branch, h)
      PROVE  \E i \in DOMAIN held : held[i] = r
  <2>1. PICK c \in Coin : branch[c].created \in 1 .. h /\ r = RecordOf(branch, c, h)
    BY ViewsHoldRecords
  <2>2. PICK i \in DOMAIN items : items[i].coin = c
    BY <2>1 DEF Faithful
  <2>3. PICK d \in Coin, t \in Nat : h <= t /\ items[i] = RecordOf(branch, d, t)
    BY DEF Faithful
  <2>4. d = c /\ items[i].created = branch[c].created
    BY <2>2, <2>3 DEF RecordOf
  <2>5. i \in DOMAIN held
    BY <1>1, <2>1, <2>4
  <2>6. held[i] = r
    BY <1>1, <2>1, <2>3, <2>4, <2>5, RecordsHoldDown
  <2>. QED  BY <2>5, <2>6
<1>. QED  BY <1>2, <1>4, <1>5 DEF held, Tells

LEMMA ViewsAreFaithful ==
  ASSUME NEW branch \in Branch, NEW t \in Nat, NEW h \in Nat, h <= t
  PROVE  Faithful(SetToSeq(View(branch, t)), branch, h)
<1>. DEFINE items == SetToSeq(View(branch, t))
<1>1. Tells(items, View(branch, t))
  BY ViewsAreFinite, ListsTell
<1>. HIDE DEF items
<1>2. \A i \in DOMAIN items : \E c \in Coin :
         branch[c].created \in 1 .. t /\ items[i] = RecordOf(branch, c, t)
  BY <1>1, ViewsHoldRecords DEF Tells
<1>3. \A i \in DOMAIN items : items[i].created \in Nat \ {0}
  BY <1>2 DEF RecordOf
<1>4. ASSUME NEW c \in Coin, branch[c].created \in 1 .. h
      PROVE  \E i \in DOMAIN items : items[i].coin = c
  <2>1. branch[c].created \in 1 .. t
    BY <1>4
  <2>2. RecordOf(branch, c, t) \in View(branch, t)
    BY <2>1, ViewsHoldRecords
  <2>. QED  BY <1>1, <2>2 DEF Tells, RecordOf
<1>. QED  BY <1>1, <1>2, <1>3, <1>4 DEF Faithful, Tells, items

\* What a concatenation holds, and where.
LEMMA PagesInARow ==
  ASSUME NEW S, IsFiniteSet(S), NEW T, IsFiniteSet(T)
  PROVE  LET items == SetToSeq(S) \o SetToSeq(T)
         IN  /\ Listed(items)
             /\ \A i \in DOMAIN items : items[i] \in S \cup T
             /\ \A r \in S \cup T : \E i \in DOMAIN items : items[i] = r
<1>. DEFINE f == SetToSeq(S)
            g == SetToSeq(T)
            m == Cardinality(S)
            n == Cardinality(T)
<1>1. /\ m \in Nat /\ f \in [1 .. m -> S]
      /\ \A r \in S : \E i \in 1 .. m : f[i] = r
  BY ListsTellTheirSet
<1>2. /\ n \in Nat /\ g \in [1 .. n -> T]
      /\ \A r \in T : \E i \in 1 .. n : g[i] = r
  BY ListsTellTheirSet
<1>. HIDE DEF f, g, m, n
<1>3. /\ f \in Seq(S \cup T) /\ Len(f) = m
      /\ g \in Seq(S \cup T) /\ Len(g) = n
  BY <1>1, <1>2
<1>4. /\ f \o g \in Seq(S \cup T) /\ Len(f \o g) = m + n
      /\ \A i \in 1 .. m + n : (f \o g)[i] = IF i <= m THEN f[i] ELSE g[i - m]
  BY <1>3, ConcatProperties
<1>. DEFINE items == f \o g
<1>5. DOMAIN items = 1 .. m + n /\ \A i \in 1 .. m + n : items[i] \in S \cup T
  BY <1>1, <1>2, <1>4
<1>6. ASSUME NEW r \in S
      PROVE  \E i \in 1 .. m + n : items[i] = r
  <2>1. PICK i \in 1 .. m : f[i] = r
    BY <1>1
  <2>. QED  BY <1>1, <1>2, <1>4, <2>1
<1>7. ASSUME NEW r \in T
      PROVE  \E i \in 1 .. m + n : items[i] = r
  <2>1. PICK i \in 1 .. n : g[i] = r
    BY <1>2
  <2>2. m + i \in 1 .. m + n /\ ~ (m + i <= m) /\ (m + i) - m = i
    BY <1>1, <1>2, <2>1
  <2>3. items[m + i] = g[(m + i) - m]
    BY <1>4, <2>2
  <2>. QED  BY <2>1, <2>2, <2>3
<1>8. Listed(items)
  <2>1. m + n \in Nat
    BY <1>1, <1>2
  <2>. HIDE DEF items
  <2>. QED  BY <1>5, <2>1 DEF Listed
<1>. QED  BY <1>5, <1>6, <1>7, <1>8 DEF f, g

\* A block between two pages sends a coin twice, but says nothing false of it at
\* the height of the first, and loses none.
LEMMA WalksAreFaithful ==
  ASSUME NEW branch \in Branch, NEW t \in Nat, NEW u \in Nat, NEW p \in Nat, p <= t, t <= u,
         NEW h \in Nat, h <= t
  PROVE  Faithful(Walk(branch, t, u, p), branch, h)
<1>. DEFINE S == {r \in View(branch, t) : Wanted(r) /\ LastChange(r) <= p}
            T == {r \in View(branch, u) : Wanted(r) /\ LastChange(r) > p}
            items == Walk(branch, t, u, p)
<1>1. IsFiniteSet(S) /\ IsFiniteSet(T)
  BY ViewsAreFinite, FS_Subset
<1>2. items = SetToSeq(S) \o SetToSeq(T)
  BY DEF Walk
<1>3. \A r \in S \cup T : \E c \in Coin, k \in Nat :
         h <= k /\ r = RecordOf(branch, c, k) /\ branch[c].created \in 1 .. k
  <2>1. ASSUME NEW r \in S
        PROVE  \E c \in Coin : r = RecordOf(branch, c, t) /\ branch[c].created \in 1 .. t
    BY ViewsHoldRecords
  <2>2. ASSUME NEW r \in T
        PROVE  \E c \in Coin : r = RecordOf(branch, c, u) /\ branch[c].created \in 1 .. u
    BY ViewsHoldRecords
  <2>3. h <= u
    OBVIOUS
  <2>. QED  BY <2>1, <2>2, <2>3
<1>4. ASSUME NEW c \in Coin, branch[c].created \in 1 .. h
      PROVE  \E r \in S \cup T : r.coin = c
  <2>1. branch[c].created \in Nat /\ branch[c].spent \in Nat
    BY DEF Branch
  <2>2. /\ branch[c].created \in 1 .. t /\ branch[c].created \in 1 .. u
    BY <1>4, <2>1
  <2>3. RecordOf(branch, c, t) \in View(branch, t) /\ RecordOf(branch, c, u) \in View(branch, u)
    BY <2>2, ViewsHoldRecords
  <2>4. CASE LastChange(RecordOf(branch, c, u)) > p
    BY <2>3, <2>4 DEF Wanted, RecordOf
  <2>5. CASE ~ (LastChange(RecordOf(branch, c, u)) > p)
    <3>1. RecordOf(branch, c, t) = RecordOf(branch, c, u)
      BY <2>1, <2>5 DEF RecordOf, LastChange
    <3>2. LastChange(RecordOf(branch, c, t)) <= p
      BY <2>1, <2>5, <3>1 DEF RecordOf, LastChange
    <3>. QED  BY <2>3, <3>2 DEF Wanted, RecordOf
  <2>. QED  BY <2>4, <2>5
<1>. HIDE DEF S, T, items
<1>5. /\ Listed(items)
      /\ \A i \in DOMAIN items : items[i] \in S \cup T
      /\ \A r \in S \cup T : \E i \in DOMAIN items : items[i] = r
  BY <1>1, <1>2, PagesInARow
<1>6. \A i \in DOMAIN items : items[i].created \in Nat \ {0}
  BY <1>3, <1>5 DEF RecordOf
<1>7. \A c \in Coin : branch[c].created \in 1 .. h => \E i \in DOMAIN items : items[i].coin = c
  <2>. SUFFICES ASSUME NEW c \in Coin, branch[c].created \in 1 .. h
                PROVE  \E i \in DOMAIN items : items[i].coin = c
    OBVIOUS
  <2>1. PICK r \in S \cup T : r.coin = c
    BY <1>4
  <2>. QED  BY <1>5, <2>1
<1>8. \A i \in DOMAIN items : \E c \in Coin, k \in Nat : h <= k /\ items[i] = RecordOf(branch, c, k)
  BY <1>3, <1>5
<1>. QED  BY <1>5, <1>6, <1>7, <1>8 DEF Faithful, items

\* A branch a node may be on at t is the chain at the heights settled for it.
LEMMA SettledIsCommon ==
  ASSUME NEW t \in Nat, NEW branch \in BranchesAt(t), NEW h \in Nat, h + SettledLag <= t
  PROVE  branch \in Branch /\ View(branch, h) = View(Main, h)
<1>1. Main \in Branch /\ Orphan \in Branch /\ ForkAt \in Nat /\ SettledLag \in Nat
  BY SetReadAssumption, LagAssumption DEF Branch
<1>2. branch = Main \/ (branch = Orphan /\ h <= ForkAt)
  BY <1>1 DEF BranchesAt
<1>. QED  BY <1>1, <1>2, TheBranchesShareTheirRoot

LEMMA MaxIsAMember ==
  ASSUME NEW n \in Nat, NEW T \in SUBSET (1 .. n), T # {}
  PROVE  Max(T) \in T
<1>1. PICK i \in T : \A j \in T : j <= i
  BY HasLast
<1>2. \A j \in T : i >= j
  BY <1>1
<1>. QED  BY <1>2 DEF Max

LEMMA SupportingPeaks ==
  ASSUME NEW h \in Nat, NEW k \in Supporting(h)
  PROVE  k \in Nat \ {0} /\ k <= h + PeakLagEviction
BY SetReadAssumption, LagAssumption DEF Supporting, AsOfIsSupported, Announced

\* A source in good order says at a settled height what the chain says.
LEMMA OrderlyReadsAreFaithful ==
  ASSUME NEW set \in Walks \cup CoinIdReads, NEW h \in Nat, h + SettledLag <= set.as_of,
         set.as_of \in Nat
  PROVE  Tells(NormaliseAt(set.items, h), View(Main, h))
<1>1. Tips \subseteq Nat /\ Peaks \subseteq Nat /\ Drift \in Nat /\ SettledLag \in Nat /\ Drift <= SettledLag
  BY SetReadAssumption, LagAssumption
<1>2. PICK v \in Visits : set \in WalksOf(v) \/ set \in CoinIdReadsOf(v)
  BY DEF Walks, CoinIdReads
<1>3. /\ v.from \in Nat /\ v.to \in Nat /\ v.from <= v.to /\ v.to <= v.from + Drift
      /\ v.branch \in BranchesAt(v.to)
  BY <1>1 DEF Visits
<1>4. set.as_of <= v.to
  BY <1>1, <1>2, <1>3 DEF WalksOf, CoinIdReadsOf
<1>5. h + SettledLag <= v.to /\ h <= v.from
  BY <1>1, <1>3, <1>4
<1>6. v.branch \in Branch /\ View(v.branch, h) = View(Main, h)
  BY <1>3, <1>5, SettledIsCommon
<1>7. Faithful(set.items, v.branch, h)
  <2>1. CASE set \in WalksOf(v)
    <3>1. PICK p \in Tips : p <= v.from /\ set.items = Walk(v.branch, v.from, v.to, p)
      BY <2>1 DEF WalksOf
    <3>2. p \in Nat
      BY <1>1
    <3>. QED  BY <1>3, <1>5, <1>6, <3>1, <3>2, WalksAreFaithful
  <2>2. CASE set \in CoinIdReadsOf(v)
    <3>1. set.items = SetToSeq(View(v.branch, v.from))
      BY <2>2 DEF CoinIdReadsOf
    <3>. QED  BY <1>3, <1>5, <1>6, <3>1, ViewsAreFaithful
  <2>. QED  BY <1>2, <2>1, <2>2
<1>. QED  BY <1>6, <1>7, FaithfulAnswersTell

\* What a read brings back, whoever answers: a list, and a height that the peak
\* the source announced supports.
Dated(set) ==
    /\ Listed(set.items)
    /\ set.as_of \in Nat /\ set.announced \in Nat
    /\ set.announced <= set.as_of + PeakLagEviction

LEMMA ReadsAreDated ==
  ASSUME NEW set \in Walks \cup CoinIdReads \cup FabricatedReads
  PROVE  Dated(set)
<1>1. /\ Tips \subseteq Nat /\ Peaks \subseteq Nat /\ FabricatedAsOf \subseteq Nat
      /\ PeakLagEviction \in Nat /\ Main \in Branch /\ Orphan \in Branch
  BY SetReadAssumption, LagAssumption DEF Branch
<1>2. ASSUME NEW h \in Nat, NEW T \in SUBSET Supporting(h), T # {}
      PROVE  Max(T) \in Nat /\ Max(T) <= h + PeakLagEviction
  <2>1. \A k \in T : k \in Nat \ {0} /\ k <= h + PeakLagEviction
    BY SupportingPeaks
  <2>2. T \in SUBSET (1 .. h + PeakLagEviction) /\ h + PeakLagEviction \in Nat
    BY <1>1, <2>1
  <2>3. Max(T) \in T
    <3>. HIDE DEF Max
    <3>. QED  BY <1>2, <2>2, MaxIsAMember
  <2>. QED  BY <2>1, <2>3
<1>3. ASSUME NEW v \in Visits, set \in WalksOf(v), Supporting(v.to) \cap 1 .. v.to # {}
      PROVE  Dated(set)
  <2>1. v.from \in Nat /\ v.to \in Nat /\ v.from <= v.to /\ v.branch \in Branch
    BY <1>1 DEF Visits
  <2>2. PICK p \in Tips : p <= v.from /\ set = [items |-> Walk(v.branch, v.from, v.to, p),
               as_of |-> v.to, announced |-> Max(Supporting(v.to) \cap 1 .. v.to)]
    BY <1>3 DEF WalksOf
  <2>3. Listed(Walk(v.branch, v.from, v.to, p))
    <3>1. p \in Nat /\ 0 \in Nat /\ 0 <= v.from
      BY <1>1, <2>1
    <3>2. Faithful(Walk(v.branch, v.from, v.to, p), v.branch, 0)
      BY <2>1, <2>2, <3>1, WalksAreFaithful
    <3>. QED  BY <3>2 DEF Faithful
  <2>4. /\ Max(Supporting(v.to) \cap 1 .. v.to) \in Nat
        /\ Max(Supporting(v.to) \cap 1 .. v.to) <= v.to + PeakLagEviction
    BY <1>2, <1>3, <2>1
  <2>. QED  BY <2>1, <2>2, <2>3, <2>4 DEF Dated
<1>4. ASSUME NEW v \in Visits, set \in CoinIdReadsOf(v)
      PROVE  Dated(set)
  <2>1. PICK k \in Peaks : set = [items |-> SetToSeq(View(v.branch, v.from)), as_of |-> k, announced |-> k]
    BY <1>4 DEF CoinIdReadsOf
  <2>2. Listed(SetToSeq(View(v.branch, v.from)))
    BY ViewsAreFinite, ListsTell DEF Tells
  <2>3. k \in Nat /\ k <= k + PeakLagEviction
    BY <1>1
  <2>. QED  BY <2>1, <2>2, <2>3 DEF Dated
<1>5. ASSUME NEW h \in FabricatedAsOf \cup Peaks, Supporting(h) # {}, set \in FabricationsAt(h)
      PROVE  Dated(set)
  <2>1. PICK f \in Fabrications :
               set = [items |-> SetToSeq(f), as_of |-> h, announced |-> Max(Supporting(h))]
    BY <1>5 DEF FabricationsAt
  <2>2. Listed(SetToSeq(f))
    BY SetReadAssumption, ListsTell DEF Tells
  <2>3. h \in Nat
    BY <1>1
  <2>4. Max(Supporting(h)) \in Nat /\ Max(Supporting(h)) <= h + PeakLagEviction
    BY <1>2, <1>5, <2>3
  <2>. QED  BY <2>1, <2>2, <2>3, <2>4 DEF Dated
<1>. QED  BY <1>3, <1>4, <1>5 DEF Walks, CoinIdReads, FabricatedReads

-----------------------------------------------------------------------------
(* What is projected for the caller.                                        *)

InWindow(r, w) ==
    (\A start \in w.start_height : r.created >= start) /\ (w.include_spent \/ r.spent = 0)

Within(view, w) == {r \in view : InWindow(r, w)}

LEMMA ProjectedIsFiltered ==
  ASSUME NEW items, NEW w
  PROVE  /\ DOMAIN Project(items, w) = {i \in DOMAIN items : InWindow(items[i], w)}
         /\ \A i \in DOMAIN Project(items, w) : Project(items, w)[i] = items[i]
BY DEF Project, RestrictValues, Restrict, InWindow

LEMMA ProjectionsAreListed ==
  ASSUME NEW items, Listed(items), NEW w
  PROVE  Listed(Project(items, w))
<1>1. DOMAIN Project(items, w) \subseteq DOMAIN items
  BY ProjectedIsFiltered
<1>. QED  BY <1>1 DEF Listed

LEMMA NormalisedIsListed ==
  ASSUME NEW items, Listed(items), NEW h
  PROVE  Listed(NormaliseAt(items, h))
<1>1. DOMAIN NormaliseAt(items, h) \subseteq DOMAIN items
  BY NormalisedIsFiltered
<1>. QED  BY <1>1 DEF Listed

\* A list that tells a view tells of it what is in the window.
LEMMA ProjectionsTell ==
  ASSUME NEW items, NEW view, Tells(items, view), NEW w
  PROVE  Tells(Project(items, w), Within(view, w))
<1>1. Listed(Project(items, w))
  BY ProjectionsAreListed DEF Tells
<1>2. /\ DOMAIN Project(items, w) = {i \in DOMAIN items : InWindow(items[i], w)}
      /\ \A i \in DOMAIN Project(items, w) : Project(items, w)[i] = items[i]
  BY ProjectedIsFiltered
<1>3. \A i \in DOMAIN Project(items, w) : Project(items, w)[i] \in Within(view, w)
  BY <1>2 DEF Tells, Within
<1>4. ASSUME NEW r \in Within(view, w)
      PROVE  \E i \in DOMAIN Project(items, w) : Project(items, w)[i] = r
  <2>1. PICK i \in DOMAIN items : items[i] = r
    BY DEF Tells, Within
  <2>. QED  BY <1>2, <2>1 DEF Within
<1>. QED  BY <1>1, <1>3, <1>4 DEF Tells

LEMMA WithinNamesOnce ==
  ASSUME NEW view, NamesOnce(view), NEW w
  PROVE  NamesOnce(Within(view, w))
BY DEF NamesOnce, Within

\* The caller's window of the chain, as claims.
LEMMA WindowIsTheClaims ==
  ASSUME NEW h
  PROVE  /\ WindowAt(h) = ClaimsIn(Within(View(Main, h), window))
         /\ NamesOnce(Within(View(Main, h), window))
<1>1. Tells(SetToSeq(View(Main, h)), View(Main, h)) /\ NamesOnce(View(Main, h))
  BY ViewsAreFinite, ListsTell
<1>2. Tells(Project(SetToSeq(View(Main, h)), window), Within(View(Main, h), window))
  BY <1>1, ProjectionsTell
<1>3. NamesOnce(Within(View(Main, h), window))
  BY <1>1, WithinNamesOnce
<1>. QED
  BY <1>2, <1>3, TellingIsTellingLast, FingerprintIsTheClaims DEF WindowAt, Tells

LEMMA TruthIsTheClaims ==
  ASSUME NEW h
  PROVE  TruthAt(h) = ClaimsIn(View(Main, h)) /\ NamesOnce(View(Main, h))
BY ViewsAreFinite, ListsTell, TellingIsTellingLast, FingerprintIsTheClaims DEF TruthAt, Tells

\* If the last that is said of every coin is so, a projection omits nothing: the
\* last record of a coin in the window is in it, and is its last there.
LEMMA ProjectionsOmitNothing ==
  ASSUME NEW items, NEW view, NamesOnce(view), TellsLast(items, view), NEW w
  PROVE  ~ Omits(ClaimsIn(Within(view, w)), Fingerprint(Project(items, w)))
<1>. DEFINE kept == Project(items, w)
            within == Within(view, w)
<1>1. /\ DOMAIN kept = {i \in DOMAIN items : InWindow(items[i], w)}
      /\ \A i \in DOMAIN kept : kept[i] = items[i]
  BY ProjectedIsFiltered
<1>2. Listed(kept) /\ NamesOnce(within)
  BY ProjectionsAreListed, WithinNamesOnce DEF TellsLast
<1>3. DOMAIN ClaimsIn(within) = {r.coin : r \in within}
  BY DEF ClaimsIn
<1>. HIDE DEF kept
<1>4. ASSUME NEW r \in within
      PROVE  /\ r.coin \in DOMAIN Fingerprint(kept)
             /\ Fingerprint(kept)[r.coin] = ClaimsIn(within)[r.coin]
  <2>1. r \in view /\ InWindow(r, w)
    BY DEF Within
  <2>2. r.coin \in Coins(items)
    BY <2>1 DEF TellsLast
  <2>3. PICK i \in DOMAIN items : items[i].coin = r.coin /\ IsLast(items, i)
    BY <2>2, EveryCoinHasALast DEF TellsLast
  <2>4. items[i] = r
    BY <2>1, <2>3 DEF TellsLast, NamesOnce
  <2>5. i \in DOMAIN kept /\ kept[i] = r
    BY <1>1, <2>1, <2>4
  <2>6. IsLast(kept, i)
    BY <1>1, <2>3, <2>4, <2>5 DEF IsLast
  <2>7. r.coin \in Coins(kept)
    BY <2>5 DEF Coins
  <2>8. Fingerprint(kept)[r.coin] = r /\ DOMAIN Fingerprint(kept) = Coins(kept)
    BY <1>2, <2>5, <2>6, FingerprintIsOfTheLast
  <2>9. ClaimsIn(within)[r.coin] = r
    BY <1>2, ClaimsAreTheRecords
  <2>. QED  BY <2>7, <2>8, <2>9
<1>. QED  BY <1>3, <1>4 DEF Omits, kept

\* A list with one state for a coin, whose last records are the view's, tells it.
LEMMA OneStateTells ==
  ASSUME NEW items, NEW view, NamesOnce(view), TellsLast(items, view),
         \A i, j \in DOMAIN items : items[i].coin = items[j].coin => items[i] = items[j]
  PROVE  Tells(items, view)
<1>1. ASSUME NEW i \in DOMAIN items
      PROVE  items[i] \in view
  <2>1. items[i].coin \in Coins(items)
    BY DEF Coins
  <2>2. PICK j \in DOMAIN items : items[j].coin = items[i].coin /\ IsLast(items, j)
    BY <2>1, EveryCoinHasALast DEF TellsLast
  <2>. QED  BY <2>2 DEF TellsLast
<1>2. ASSUME NEW r \in view
      PROVE  \E i \in DOMAIN items : items[i] = r
  <2>1. r.coin \in Coins(items)
    BY DEF TellsLast
  <2>2. PICK i \in DOMAIN items : items[i].coin = r.coin
    BY <2>1 DEF Coins
  <2>3. items[i] \in view
    BY <1>1
  <2>. QED  BY <2>2, <2>3 DEF NamesOnce
<1>. QED  BY <1>1, <1>2 DEF Tells, TellsLast

-----------------------------------------------------------------------------
(* Comparing answers at a common height.                                    *)

Claims(set, h) == Fingerprint(NormaliseAt(set.items, h))

\* Two fingerprints that do not contradict each other are the same.
LEMMA AgreementIsEquality ==
  ASSUME NEW a, a = [c \in DOMAIN a |-> a[c]], NEW b, b = [c \in DOMAIN b |-> b[c]]
  PROVE  ~ Contradicts(a, b) <=> a = b
<1>1. ASSUME ~ Contradicts(a, b)
      PROVE  a = b
  <2>1. DOMAIN a = DOMAIN b /\ \A c \in DOMAIN a : a[c] = b[c]
    BY <1>1 DEF Contradicts, Omits
  <2>. QED  BY <2>1
<1>2. ASSUME a = b
      PROVE  ~ Contradicts(a, b)
  BY <1>2 DEF Contradicts, Omits
<1>. QED  BY <1>1, <1>2

LEMMA FingerprintsAreFunctions ==
  ASSUME NEW items
  PROVE  Fingerprint(items) = [c \in DOMAIN Fingerprint(items) |-> Fingerprint(items)[c]]
BY DEF Fingerprint

LEMMA CommonHeights ==
  ASSUME NEW as_of, as_of \subseteq Nat, NEW end_height, end_height \subseteq Nat,
         NEW h \in CommonHeight(as_of, end_height)
  PROVE  /\ h \in Nat
         /\ \A a \in as_of : h + SettledLag <= a
         /\ h \in end_height \/ \E a \in as_of : a = h + SettledLag
<1>. DEFINE settled == {l - SettledLag : l \in {l \in Lowest(as_of) : l >= SettledLag}}
<1>1. SettledLag \in Nat
  BY LagAssumption
<1>2. settled # {} /\ h \in Lowest(settled \cup end_height)
  BY DEF CommonHeight
<1>3. PICK l \in Lowest(as_of) : l >= SettledLag
  BY <1>2
<1>4. l \in as_of /\ l \in Nat /\ \A a \in as_of : l <= a
  BY <1>3 DEF Lowest
<1>5. l - SettledLag \in settled
  BY <1>3
<1>6. h \in settled \cup end_height /\ h <= l - SettledLag
  BY <1>2, <1>5 DEF Lowest
<1>7. settled \subseteq Nat
  BY <1>1 DEF Lowest
<1>8. h \in Nat
  BY <1>6, <1>7
<1>9. ASSUME h \in settled
      PROVE  \E a \in as_of : a = h + SettledLag
  <2>1. PICK m \in Lowest(as_of) : m >= SettledLag /\ h = m - SettledLag
    BY <1>9
  <2>2. m \in as_of /\ m \in Nat
    BY <2>1 DEF Lowest
  <2>. QED  BY <1>1, <2>1, <2>2
<1>10. \A a \in as_of : h + SettledLag <= a
  <2>. SUFFICES ASSUME NEW a \in as_of PROVE h + SettledLag <= a
    OBVIOUS
  <2>1. a \in Nat /\ l <= a
    BY <1>4
  <2>. HIDE DEF settled
  <2>. QED  BY <1>1, <1>4, <1>6, <1>8, <2>1
<1>. QED  BY <1>6, <1>8, <1>9, <1>10

-----------------------------------------------------------------------------
(* The read.                                                                *)

\* What a read holds: one asked peer, the answers it and the others gave.
ReadOK ==
    /\ window \in Windows
    /\ stage \in {"pick", "readiness", "first", "select", "round", "done"}
    /\ \A a, b \in asked : a = b
    /\ \A s, t \in first : s = t
    /\ stage = "pick" => first = {}
    /\ waiting # {} => stage = "round"
    /\ \A s \in first : \E a \in asked : s \in Reads(a)
    /\ \A o \in others : o.set \in Reads(o.address)

Grades == {"corroborated", "uncorroborated", "disagree"}

\* What a verdict on an answer rests on: all of the answers, held to their common
\* height.
VerdictOK ==
    /\ stage # "done" => verdict.grade = "none"
    /\ verdict.grade \in Grades =>
          /\ verdict.height \in CommonHeight(AsOfHeights, window.end_height)
          /\ first # {}
          /\ verdict.grade = "disagree" =>
                \E s \in first, o \in others :
                    Claims(s, verdict.height) # Claims(o.set, verdict.height)
          /\ verdict.grade # "disagree" =>
                \A s \in first :
                    /\ \A o \in others :
                          Claims(s, verdict.height) = Claims(o.set, verdict.height)
                    /\ verdict.items = Project(NormaliseAt(s.items, verdict.height), window)
    /\ verdict.grade = "corroborated" => WindowHasSettled(verdict.height)

SInv == ReadOK /\ VerdictOK

\* Every source's answer comes from a node in good order or is made up.
LEMMA AnswersComeFromReads ==
  ASSUME NEW a, NEW set \in Reads(a)
  PROVE  /\ set \in Walks \cup CoinIdReads \cup FabricatedReads
         /\ HostOf[a] \notin Faulty => set \in Walks \cup CoinIdReads
         /\ HostOf[a] \in Faulty => set \in FabricatedReads
BY DEF Reads

LEMMA AnswersAreDated ==
  ASSUME ReadOK, NEW set \in Answers
  PROVE  Dated(set)
<1>1. PICK a : set \in Reads(a)
  BY DEF Answers, ReadOK
<1>. QED  BY <1>1, AnswersComeFromReads, ReadsAreDated

LEMMA VerdictsAreSettled ==
  ASSUME SInv, verdict.grade \in Grades
  PROVE  /\ verdict.height \in Nat
         /\ \A set \in Answers : verdict.height + SettledLag <= set.as_of
         /\ \/ verdict.height \in window.end_height
            \/ \E set \in Answers : set.as_of = verdict.height + SettledLag
<1>1. AsOfHeights \subseteq Nat
  BY AnswersAreDated DEF AsOfHeights, Dated, SInv
<1>2. window.end_height \subseteq Nat
  BY SetReadAssumption DEF SInv, ReadOK
<1>3. verdict.height \in CommonHeight(AsOfHeights, window.end_height)
  BY DEF SInv, VerdictOK
<1>4. /\ verdict.height \in Nat
      /\ \A a \in AsOfHeights : verdict.height + SettledLag <= a
      /\ verdict.height \in window.end_height \/ \E a \in AsOfHeights : a = verdict.height + SettledLag
  BY <1>1, <1>2, <1>3, CommonHeights
<1>. QED  BY <1>4 DEF AsOfHeights

\* A source in good order says at the height of the verdict what the chain says.
LEMMA OrderlySourcesTellTheTruth ==
  ASSUME SInv, verdict.grade \in Grades, NEW a, HostOf[a] \notin Faulty,
         NEW set \in Answers, set \in Reads(a)
  PROVE  /\ Tells(NormaliseAt(set.items, verdict.height), View(Main, verdict.height))
         /\ Claims(set, verdict.height) = TruthAt(verdict.height)
<1>1. verdict.height \in Nat /\ verdict.height + SettledLag <= set.as_of
  BY VerdictsAreSettled
<1>2. Dated(set) /\ set \in Walks \cup CoinIdReads
  BY AnswersAreDated, AnswersComeFromReads DEF SInv
<1>3. Tells(NormaliseAt(set.items, verdict.height), View(Main, verdict.height))
  BY <1>1, <1>2, OrderlyReadsAreFaithful DEF Dated
<1>4. Claims(set, verdict.height) = ClaimsIn(View(Main, verdict.height))
  BY <1>3, ViewsAreFinite, TellingIsTellingLast, FingerprintIsTheClaims DEF Claims, Tells
<1>. QED  BY <1>3, <1>4, TruthIsTheClaims

\* If any source is in good order, the asked peer's claims are the chain.
LEMMA AgreementIsOnTheChain ==
  ASSUME SInv, verdict.grade \in Grades \ {"disagree"}, Reliable # {}, NEW set \in first
  PROVE  Claims(set, verdict.height) = TruthAt(verdict.height)
<1>1. PICK a \in Sources : HostOf[a] \notin Faulty
  BY DEF Reliable
<1>2. CASE a \in asked
  <2>1. set \in Reads(a)
    BY <1>2 DEF SInv, ReadOK
  <2>2. set \in Answers
    BY DEF Answers
  <2>. QED  BY <1>1, <2>1, <2>2, OrderlySourcesTellTheTruth
<1>3. CASE \E o \in others : a = o.address
  <2>1. PICK o \in others : a = o.address
    BY <1>3
  <2>2. o.set \in Reads(a) /\ o.set \in Answers
    BY <2>1 DEF SInv, ReadOK, Answers
  <2>3. Claims(o.set, verdict.height) = TruthAt(verdict.height)
    BY <1>1, <2>2, OrderlySourcesTellTheTruth
  <2>4. Claims(set, verdict.height) = Claims(o.set, verdict.height)
    BY <2>1 DEF SInv, VerdictOK
  <2>. QED  BY <2>3, <2>4
<1>. QED  BY <1>1, <1>2, <1>3 DEF Sources

-----------------------------------------------------------------------------
(* No step of a read breaks its invariant.                                  *)

LEMMA ReadsStart ==
  ASSUME Init
  PROVE  SInv
BY DEF Init, SInv, ReadOK, VerdictOK, NoVerdict, Grades

\* What does not grade leaves the verdict open, or ends the read without one.
LEMMA UngradedStepsKeepTheVerdict ==
  ASSUME verdict'.grade \notin Grades, stage' # "done" => verdict'.grade = "none"
  PROVE  VerdictOK'
BY DEF VerdictOK, Grades

LEMMA GradingKeepsTheInvariant ==
  ASSUME SInv, Grade
  PROVE  SInv'
<1>1. /\ asked' = asked /\ first' = first /\ others' = others /\ window' = window
      /\ anchor' = anchor /\ waiting = {} /\ waiting' = {} /\ stage' = "done"
  BY DEF Grade, EndWith, GradeAt
<1>2. \A a : Reads(a)' = Reads(a)
  BY <1>1 DEF Reads, FabricatedReads
<1>3. ReadOK'
  BY <1>1, <1>2 DEF SInv, ReadOK
<1>4. AsOfHeights' = AsOfHeights
  BY <1>1 DEF AsOfHeights, Answers
<1>. DEFINE common == CommonHeight(AsOfHeights, window.end_height)
<1>5. CASE common = {}
  <2>1. verdict'.grade = "refused"
    BY <1>5 DEF Grade, EndWith
  <2>. QED  BY <1>1, <1>3, <2>1, UngradedStepsKeepTheVerdict DEF SInv, Grades
<1>6. CASE common # {}
  <2>1. PICK h \in common, set \in first : GradeAt(set, h)
    BY <1>6 DEF Grade
  <2>. DEFINE agreed == {o \in others : ~ Contradicts(Claims(set, h), Claims(o.set, h))}
              items == Project(NormaliseAt(set.items, h), window)
  <2>2. \A o \in others : o \in agreed <=> Claims(set, h) = Claims(o.set, h)
    BY AgreementIsEquality, FingerprintsAreFunctions DEF Claims
  <2>3. \A s \in first : s = set
    BY DEF SInv, ReadOK
  <2>4. CASE agreed # others
    <3>1. verdict' = [grade |-> "disagree", items |-> <<>>, height |-> h]
      BY <2>1, <2>4 DEF GradeAt, EndWith, Claims
    <3>2. \E o \in others : Claims(set, h) # Claims(o.set, h)
      BY <2>2, <2>4
    <3>3. VerdictOK'
      BY <1>1, <1>4, <3>1, <3>2 DEF VerdictOK, Claims
    <3>. QED  BY <1>3, <3>3 DEF SInv
  <2>5. CASE agreed = others
    <3>1. /\ verdict'.items = items /\ verdict'.height = h
          /\ verdict'.grade \in {"corroborated", "uncorroborated"}
          /\ verdict'.grade = "corroborated" => WindowHasSettled(h)
      BY <2>1, <2>5 DEF GradeAt, EndWith, Claims
    <3>2. \A s \in first :
              /\ \A o \in others : Claims(s, h) = Claims(o.set, h)
              /\ verdict'.items = Project(NormaliseAt(s.items, h), window)
      BY <2>2, <2>3, <2>5, <3>1
    <3>3. WindowHasSettled(h)' <=> WindowHasSettled(h)
      BY <1>1 DEF WindowHasSettled
    <3>. HIDE DEF items
    <3>4. VerdictOK'
      <4>1. verdict'.height \in CommonHeight(AsOfHeights, window.end_height)'
        BY <1>1, <1>4, <3>1
      <4>2. \A s \in first' :
              /\ \A o \in others' : Claims(s, verdict'.height) = Claims(o.set, verdict'.height)
              /\ verdict'.items = Project(NormaliseAt(s.items, verdict'.height), window')
        BY <1>1, <3>1, <3>2
      <4>3. verdict'.grade = "corroborated" => WindowHasSettled(verdict.height)'
        BY <1>1, <3>1 DEF WindowHasSettled
      <4>. QED  BY <1>1, <3>1, <4>1, <4>2, <4>3 DEF VerdictOK
    <3>. QED  BY <1>3, <3>4 DEF SInv
  <2>. QED  BY <2>4, <2>5
<1>. QED  BY <1>5, <1>6

LEMMA ReadingKeepsTheInvariant ==
  ASSUME SInv, [Next]_vars
  PROVE  SInv'
<1>1. anchor' = anchor => \A a : Reads(a)' = Reads(a)
  BY DEF Reads, FabricatedReads
<1>2. CASE Pick
  <2>1. ReadOK'
    BY <1>1, <1>2 DEF Pick, EndWith, SInv, ReadOK
  <2>2. VerdictOK'
    BY <1>2, UngradedStepsKeepTheVerdict DEF Pick, EndWith, SInv, VerdictOK, Grades
  <2>. QED  BY <2>1, <2>2 DEF SInv
<1>3. CASE ReadReadiness
  <2>1. ReadOK'
    BY <1>1, <1>3 DEF ReadReadiness, SInv, ReadOK
  <2>2. VerdictOK'
    BY <1>3, UngradedStepsKeepTheVerdict DEF ReadReadiness, SInv, VerdictOK, Grades
  <2>. QED  BY <2>1, <2>2 DEF SInv
<1>4. CASE FirstAnswers
  <2>1. ReadOK'
    BY <1>1, <1>4 DEF FirstAnswers, SInv, ReadOK
  <2>2. VerdictOK'
    BY <1>4, UngradedStepsKeepTheVerdict DEF FirstAnswers, SInv, VerdictOK, Grades
  <2>. QED  BY <2>1, <2>2 DEF SInv
<1>5. CASE FirstFails
  <2>1. ReadOK'
    BY <1>1, <1>5 DEF FirstFails, EndWith, SInv, ReadOK
  <2>2. VerdictOK'
    BY <1>5, UngradedStepsKeepTheVerdict DEF FirstFails, EndWith, SInv, VerdictOK, Grades
  <2>. QED  BY <2>1, <2>2 DEF SInv
<1>6. CASE SelectCorroborators
  <2>1. ReadOK'
    BY <1>1, <1>6 DEF SelectCorroborators, SInv, ReadOK
  <2>2. VerdictOK'
    BY <1>6, UngradedStepsKeepTheVerdict DEF SelectCorroborators, SInv, VerdictOK, Grades
  <2>. QED  BY <2>1, <2>2 DEF SInv
<1>7. ASSUME NEW a \in waiting, CorroboratorAnswers(a)
      PROVE  SInv'
  <2>. PICK set \in Reads(a) : others' = others \cup {[address |-> a, set |-> set]}
    BY <1>7 DEF CorroboratorAnswers
  <2>1. ReadOK'
    BY <1>1, <1>7 DEF CorroboratorAnswers, SInv, ReadOK
  <2>2. VerdictOK'
    BY <1>7, UngradedStepsKeepTheVerdict DEF CorroboratorAnswers, SInv, ReadOK, VerdictOK, Grades
  <2>. QED  BY <2>1, <2>2 DEF SInv
<1>8. ASSUME NEW a \in waiting, CorroboratorFails(a)
      PROVE  SInv'
  <2>1. ReadOK'
    BY <1>1, <1>8 DEF CorroboratorFails, SInv, ReadOK
  <2>2. VerdictOK'
    BY <1>8, UngradedStepsKeepTheVerdict DEF CorroboratorFails, SInv, ReadOK, VerdictOK, Grades
  <2>. QED  BY <2>1, <2>2 DEF SInv
<1>9. CASE Grade
  BY <1>9, GradingKeepsTheInvariant
<1>10. CASE UNCHANGED vars
  BY <1>1, <1>10 DEF vars, SInv, ReadOK, VerdictOK, AsOfHeights, Answers, WindowHasSettled
<1>. QED  BY <1>2, <1>3, <1>4, <1>5, <1>6, <1>7, <1>8, <1>9, <1>10 DEF Next

-----------------------------------------------------------------------------
(* The query.                                                               *)

\* The coinset tier's set is what a node in good order holds, and the node is
\* far enough along to know the height the answer carries.
Seconded ==
    /\ ~ coinset_lies
    /\ peak # {} \/ \E t \in node_at : reply.as_of + SettledLag <= t

\* What is asked of the coinset tier, and what is told to the caller.
RouterOK ==
    /\ route \in {"peer", "second", "alone", "dated", "done"}
    /\ route # "done" => ~ Answered /\ node_at = {}
    /\ route \in {"peer", "second", "alone"} => peak = {}
    /\ route = "second" => verdict.grade = "uncorroborated"
    /\ route = "dated" => peak # {}
    /\ peak \subseteq Nat
    /\ Answered /\ peak = {} =>
          /\ verdict.grade \in {"corroborated", "uncorroborated"}
          /\ reply.items = verdict.items /\ reply.as_of = verdict.height
    /\ Answered /\ Seconded => Fingerprint(reply.items) = WindowAt(reply.as_of)

RInv == SInv /\ RouterOK

\* At a height that has settled for its node, a coinset tier in good order tells
\* the caller's window of the chain.
LEMMA TheCoinsetTierTellsTheTruth ==
  ASSUME NEW t \in Tips, NEW raw \in CoinsetSets(t), ~ coinset_lies,
         NEW h \in Nat, h + SettledLag <= t
  PROVE  Fingerprint(HeldTo(raw, h)) = WindowAt(h)
<1>1. PICK b \in BranchesAt(t) : raw = SetToSeq(View(b, t))
  BY DEF CoinsetSets
<1>2. t \in Nat /\ h <= t
  BY SetReadAssumption, LagAssumption
<1>3. b \in Branch /\ View(b, h) = View(Main, h)
  BY <1>2, SettledIsCommon
<1>4. Tells(NormaliseAt(raw, h), View(Main, h))
  BY <1>1, <1>2, <1>3, ViewsAreFaithful, FaithfulAnswersTell
<1>5. Tells(HeldTo(raw, h), Within(View(Main, h), window))
  BY <1>4, ProjectionsTell DEF HeldTo
<1>. QED
  BY <1>5, WindowIsTheClaims, TellingIsTellingLast, FingerprintIsTheClaims DEF Tells

LEMMA QueriesStart ==
  ASSUME RouterInit
  PROVE  RInv
BY ReadsStart DEF RouterInit, RInv, RouterOK, Answered, Err

LEMMA QueryingKeepsTheRead ==
  ASSUME RInv, [RouterNext]_routerVars
  PROVE  SInv'
<1>1. CASE PeerTierReads
  BY <1>1, ReadingKeepsTheInvariant DEF PeerTierReads, RInv
<1>2. CASE Retry
  <2>1. /\ stage' = "pick" /\ asked' = {} /\ first' = {} /\ waiting' = {} /\ others' = {}
        /\ verdict'.grade = "none" /\ window' = window /\ stage' # "done"
    BY <1>2 DEF Retry, NoVerdict
  <2>2. ReadOK'
    BY <2>1 DEF RInv, SInv, ReadOK
  <2>3. VerdictOK'
    BY <2>1, UngradedStepsKeepTheVerdict DEF Grades
  <2>. QED  BY <2>2, <2>3 DEF SInv
<1>3. CASE UNCHANGED vars
  BY <1>3, ReadingKeepsTheInvariant DEF RInv
<1>. QED
  BY <1>1, <1>2, <1>3 DEF RouterNext, routerVars, SettleSetAnswer, RetryErrs, CoinsetSeconds,
     CoinsetStatesPeak, CoinsetAnswersAlone, CoinsetFails

LEMMA QueryingKeepsTheAnswer ==
  ASSUME RInv, [RouterNext]_routerVars
  PROVE  RouterOK'
<1>1. \A h : window' = window => WindowAt(h)' = WindowAt(h)
  BY DEF WindowAt
<1>2. CASE PeerTierReads
  BY <1>2 DEF PeerTierReads, routeVars, tiers, RInv, RouterOK, Answered
<1>3. CASE SettleSetAnswer
  <2>1. peak' = {} /\ node_at' = {} /\ verdict' = verdict /\ ~ Answered
    BY <1>3 DEF SettleSetAnswer, vars, RInv, RouterOK
  <2>2. ~ Seconded'
    BY <2>1 DEF Seconded
  <2>3. \/ /\ verdict.grade = "corroborated" /\ route' = "done"
           /\ reply'.items = verdict.items /\ reply'.as_of = verdict.height
        \/ /\ verdict.grade = "uncorroborated" /\ route' = "second" /\ reply' = reply
        \/ route' = "done" /\ reply'.kind = "Uncorroborated"
    BY <1>3 DEF SettleSetAnswer, Reply, Ok, Err
  <2>. QED  BY <2>1, <2>2, <2>3 DEF RouterOK, Answered
<1>4. CASE Retry
  BY <1>4 DEF Retry, Erred, tiers, RInv, RouterOK, Answered
<1>5. CASE RetryErrs
  <2>1. peak' = {} /\ node_at' = {} /\ ~ Answered
    BY <1>5 DEF RetryErrs, Erred, RInv, RouterOK
  <2>2. \/ route' = "alone" /\ reply' = reply
        \/ route' = "done" /\ reply'.kind # "Ok"
    <3>1. CASE fallback_enabled
      BY <1>5, <3>1 DEF RetryErrs
    <3>2. CASE ~ fallback_enabled
      BY <1>5, <3>2 DEF RetryErrs, Reply, Err
    <3>. QED  BY <3>1, <3>2
  <2>. QED  BY <2>1, <2>2 DEF RouterOK, Answered
<1>6. CASE CoinsetSeconds
  <2>1. PICK t \in Tips : \E raw \in CoinsetSets(t) : Reply(Settlement(raw)) /\ node_at' = {t}
    BY <1>6 DEF CoinsetSeconds
  <2>2. PICK raw \in CoinsetSets(t) : Reply(Settlement(raw)) /\ node_at' = {t}
    BY <2>1
  <2>. DEFINE h == verdict.height
  <2>3. /\ peak = {} /\ peak' = {} /\ route' = "done" /\ verdict' = verdict /\ window' = window
        /\ coinset_lies' = coinset_lies /\ verdict.grade = "uncorroborated"
        /\ reply' = Settlement(raw)
    BY <1>6, <2>2 DEF CoinsetSeconds, Reply, vars, tiers, RInv, RouterOK
  <2>4. h \in Nat
    BY <2>3, VerdictsAreSettled DEF RInv, Grades
  <2>5. CASE Contradicts(Fingerprint(verdict.items), Fingerprint(HeldTo(raw, h)))
    <3>1. reply'.kind = "SourcesDisagree"
      BY <2>3, <2>5 DEF Settlement, Err
    <3>. QED  BY <2>3, <3>1 DEF RouterOK, Answered
  <2>6. CASE ~ Contradicts(Fingerprint(verdict.items), Fingerprint(HeldTo(raw, h)))
    <3>1. reply'.kind = "Ok" /\ reply'.items = verdict.items /\ reply'.as_of = h
      BY <2>3, <2>6 DEF Settlement, Ok
    <3>2. Fingerprint(verdict.items) = Fingerprint(HeldTo(raw, h))
      BY <2>6, AgreementIsEquality, FingerprintsAreFunctions
    <3>3. ~ coinset_lies /\ h + SettledLag <= t => Fingerprint(HeldTo(raw, h)) = WindowAt(h)
      BY <2>4, TheCoinsetTierTellsTheTruth
    <3>4. Seconded' => ~ coinset_lies /\ h + SettledLag <= t
      BY <2>2, <2>3, <3>1 DEF Seconded
    <3>. QED  BY <1>1, <2>3, <3>1, <3>2, <3>3, <3>4 DEF RouterOK, Answered
  <2>. QED  BY <2>5, <2>6
<1>7. CASE CoinsetStatesPeak
  <2>1. peak = {} /\ node_at' = {} /\ ~ Answered
    BY <1>7 DEF CoinsetStatesPeak, RInv, RouterOK
  <2>2. PICK k \in Tips :
           \/ route' = "done" /\ reply'.kind = "AllSourcesFailed" /\ peak' = peak
           \/ route' = "dated" /\ peak' = {k} /\ reply' = reply
    BY <1>7 DEF CoinsetStatesPeak, Reply, Err
  <2>3. k \in Nat
    BY SetReadAssumption
  <2>. QED  BY <2>1, <2>2, <2>3 DEF RouterOK, Answered
<1>8. CASE CoinsetAnswersAlone
  <2>1. PICK t \in TipsSince, h \in CommonHeight(peak, window.end_height) :
           \E raw \in CoinsetSets(t) : Reply(Ok(HeldTo(raw, h), h)) /\ node_at' = {t}
    BY <1>8 DEF CoinsetAnswersAlone
  <2>2. PICK raw \in CoinsetSets(t) : Reply(Ok(HeldTo(raw, h), h)) /\ node_at' = {t}
    BY <2>1
  <2>3. /\ peak # {} /\ peak \subseteq Nat /\ peak' = peak /\ route' = "done"
        /\ window' = window /\ coinset_lies' = coinset_lies
        /\ reply'.kind = "Ok" /\ reply'.items = HeldTo(raw, h) /\ reply'.as_of = h
    BY <1>8, <2>2 DEF CoinsetAnswersAlone, Reply, Ok, vars, tiers, RInv, RouterOK
  <2>4. window.end_height \subseteq Nat
    BY SetReadAssumption DEF RInv, SInv, ReadOK
  <2>5. h \in Nat /\ \A k \in peak : h + SettledLag <= k
    BY <2>1, <2>3, <2>4, CommonHeights
  <2>6. t \in Tips /\ t \in Nat /\ h + SettledLag <= t
    BY <2>1, <2>3, <2>5, SetReadAssumption, LagAssumption DEF TipsSince
  <2>7. ~ coinset_lies => Fingerprint(HeldTo(raw, h)) = WindowAt(h)
    BY <2>2, <2>5, <2>6, TheCoinsetTierTellsTheTruth
  <2>. QED  BY <1>1, <2>3, <2>7 DEF RouterOK, Answered, Seconded
<1>9. CASE CoinsetFails
  BY <1>9 DEF CoinsetFails, Reply, Err, vars, tiers, RInv, RouterOK, Answered
<1>10. CASE UNCHANGED routerVars
  BY <1>1, <1>10 DEF routerVars, routeVars, vars, tiers, RInv, RouterOK, Answered, Seconded
<1>. QED  BY <1>2, <1>3, <1>4, <1>5, <1>6, <1>7, <1>8, <1>9, <1>10 DEF RouterNext

THEOREM QueryInvariance == RouterSpec => []RInv
<1>1. RouterInit => RInv
  BY QueriesStart
<1>2. RInv /\ [RouterNext]_routerVars => RInv'
  BY QueryingKeepsTheRead, QueryingKeepsTheAnswer DEF RInv
<1>. QED  BY <1>1, <1>2, PTL DEF RouterSpec

-----------------------------------------------------------------------------
(* What the caller may rely on.                                             *)

\* A corroborated answer of which one source is in good order is the chain at the
\* height it carries: read_set_corroborated holds every answer of the round to
\* one settled height and demands that all of them then agree.
THEOREM AgreementIsTheChain == RouterSpec => []AgreedClaimsAreTheChain
<1>1. RInv => AgreedClaimsAreTheChain
  BY AgreementIsOnTheChain
     DEF RInv, AgreedClaimsAreTheChain, IsCorroborated, Claims, Grades
<1>. QED  BY <1>1, QueryInvariance, PTL

\* Nodes in good order do not contradict each other at a common height.
THEOREM OrderlyNodesAgree == RouterSpec => []NodesInOrderNeverDisagree
<1>1. ASSUME RInv, verdict.grade = "disagree", Reliable = Sources
      PROVE  FALSE
  <2>1. PICK s \in first, o \in others :
           Claims(s, verdict.height) # Claims(o.set, verdict.height)
    BY <1>1 DEF RInv, SInv, VerdictOK, Grades
  <2>2. PICK a \in asked : s \in Reads(a)
    BY <1>1 DEF RInv, SInv, ReadOK
  <2>3. o.set \in Reads(o.address) /\ s \in Answers /\ o.set \in Answers
    BY <1>1 DEF RInv, SInv, ReadOK, Answers
  <2>4. HostOf[a] \notin Faulty /\ HostOf[o.address] \notin Faulty
    BY <1>1 DEF Reliable, Sources
  <2>5. /\ Claims(s, verdict.height) = TruthAt(verdict.height)
        /\ Claims(o.set, verdict.height) = TruthAt(verdict.height)
    BY <1>1, <2>2, <2>3, <2>4, OrderlySourcesTellTheTruth DEF RInv, Grades
  <2>. QED  BY <2>1, <2>5
<1>2. RInv => NodesInOrderNeverDisagree
  BY <1>1 DEF NodesInOrderNeverDisagree
<1>. QED  BY <1>2, QueryInvariance, PTL

\* The height is SETTLED_LAG below one of the heights the sources state, and none
\* of those is PEAK_LAG_EVICTION below the source's own announcements.
THEOREM NobodyDragsTheHeightDown == RouterSpec => []NotDraggedDown
<1>1. ASSUME RInv, IsCorroborated
      PROVE  \/ verdict.height \in window.end_height
             \/ \E set \in Answers :
                    set.announced <= verdict.height + SettledLag + PeakLagEviction
  <2>1. /\ verdict.height \in Nat
        /\ \/ verdict.height \in window.end_height
           \/ \E set \in Answers : set.as_of = verdict.height + SettledLag
    BY <1>1, VerdictsAreSettled DEF RInv, IsCorroborated, Grades
  <2>2. \A set \in Answers : Dated(set)
    BY <1>1, AnswersAreDated DEF RInv, SInv
  <2>. QED  BY <2>1, <2>2 DEF Dated
<1>2. RInv => NotDraggedDown
  BY <1>1 DEF NotDraggedDown
<1>. QED  BY <1>2, QueryInvariance, PTL

\* No corroborated answer, and no empty one, is about a window that has not settled.
THEOREM CorroboratedWindowsHaveSettled == RouterSpec => []WindowIsSettled
<1>1. ASSUME RInv, IsCorroborated
      PROVE  \A start \in {0} \cup window.start_height : start <= verdict.height
  <2>1. verdict.height \in Nat
    BY <1>1, VerdictsAreSettled DEF RInv, IsCorroborated, Grades
  <2>2. \A start \in window.start_height : start <= verdict.height
    BY <1>1 DEF RInv, SInv, VerdictOK, IsCorroborated, WindowHasSettled
  <2>. QED  BY <2>1, <2>2
<1>2. RInv => WindowIsSettled
  BY <1>1 DEF WindowIsSettled
<1>. QED  BY <1>2, QueryInvariance, PTL

\* An answer the peers agreed upon, one of them in good order, tells the chain.
LEMMA PeersTellTheWindow ==
  ASSUME RInv, verdict.grade \in {"corroborated", "uncorroborated"}, Reliable # {}
  PROVE  LET h == verdict.height
         IN  /\ ~ Omits(WindowAt(h), Fingerprint(verdict.items))
             /\ ToldOnce => Fingerprint(verdict.items) = WindowAt(h)
<1>. DEFINE h == verdict.height
<1>1. PICK set \in first : TRUE
  BY DEF RInv, SInv, VerdictOK, Grades
<1>. DEFINE held == NormaliseAt(set.items, h)
            view == View(Main, h)
<1>2. verdict.items = Project(held, window)
  BY DEF RInv, SInv, VerdictOK, Grades
<1>3. /\ WindowAt(h) = ClaimsIn(Within(view, window))
      /\ NamesOnce(Within(view, window))
      /\ NamesOnce(view)
  BY WindowIsTheClaims, ViewsAreFinite
<1>4. Listed(set.items) /\ Listed(held)
  BY AnswersAreDated, NormalisedIsListed DEF RInv, SInv, Answers, Dated
<1>5. TellsLast(held, view)
  <2>1. Fingerprint(held) = ClaimsIn(view)
    BY AgreementIsOnTheChain, TruthIsTheClaims DEF RInv, Claims, Grades
  <2>. QED  BY <1>3, <1>4, <2>1, FingerprintIsTheClaims
<1>6. ~ Omits(WindowAt(h), Fingerprint(verdict.items))
  BY <1>2, <1>3, <1>5, ProjectionsOmitNothing
<1>7. ASSUME ToldOnce
      PROVE  Tells(held, view)
  <2>1. PICK a \in asked : set \in Reads(a)
    BY DEF RInv, SInv, ReadOK
  <2>2. CASE HostOf[a] \notin Faulty
    BY <2>1, <2>2, OrderlySourcesTellTheTruth DEF RInv, Answers, Grades
  <2>3. CASE HostOf[a] \in Faulty
    <3>1. PICK f \in Fabrications : set.items = SetToSeq(f)
      BY <2>1, <2>3, AnswersComeFromReads DEF FabricatedReads, FabricationsAt
    <3>2. Tells(set.items, f)
      BY <3>1, SetReadAssumption, ListsTell
    <3>3. \A i, j \in DOMAIN set.items :
              set.items[i].coin = set.items[j].coin => set.items[i] = set.items[j]
      BY <1>7, <3>2 DEF Tells, ToldOnce
    <3>4. /\ DOMAIN held = {j \in DOMAIN set.items : set.items[j].created <= h}
          /\ \A i \in DOMAIN held : held[i] = WithSpendDropped(set.items[i], h)
      BY NormalisedIsFiltered
    <3>5. \A r \in f : WithSpendDropped(r, h).coin = r.coin
      BY SetReadAssumption DEF WithSpendDropped, Record
    <3>. HIDE DEF held
    <3>6. \A i, j \in DOMAIN held : held[i].coin = held[j].coin => held[i] = held[j]
      BY <3>2, <3>3, <3>4, <3>5 DEF Tells
    <3>. QED  BY <1>3, <1>5, <3>6, OneStateTells
  <2>. QED  BY <2>2, <2>3
<1>8. ASSUME ToldOnce
      PROVE  Fingerprint(verdict.items) = WindowAt(h)
  <2>1. Tells(verdict.items, Within(view, window))
    BY <1>2, <1>7, <1>8, ProjectionsTell
  <2>. QED
    BY <1>3, <2>1, TellingIsTellingLast, FingerprintIsTheClaims DEF Tells
<1>. QED  BY <1>6, <1>8

\* What the caller gets as a fact from peer_then_coinset_set, by either tier or
\* by both, is the chain at the height it carries, put to the caller's window.
THEOREM AnswersAreTheChain == RouterSpec => []SetIsTheChainAtItsHeight
<1>1. ASSUME RInv, Answered, Vouched
      PROVE  /\ ~ Omits(WindowAt(reply.as_of), Fingerprint(reply.items))
             /\ ToldOnce => Fingerprint(reply.items) = WindowAt(reply.as_of)
  <2>1. CASE peak = {} /\ Reliable # {}
    BY <1>1, <2>1, PeersTellTheWindow DEF RInv, RouterOK
  <2>2. CASE Seconded
    <3>1. Fingerprint(reply.items) = WindowAt(reply.as_of)
      BY <1>1, <2>2 DEF RInv, RouterOK
    <3>. QED  BY <3>1 DEF Omits
  <2>. QED  BY <1>1, <2>1, <2>2 DEF Vouched, Seconded
<1>2. RInv => SetIsTheChainAtItsHeight
  BY <1>1 DEF SetIsTheChainAtItsHeight
<1>. QED  BY <1>2, QueryInvariance, PTL
=============================================================================
