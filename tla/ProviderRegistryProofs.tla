----------------------- MODULE ProviderRegistryProofs -----------------------
(***************************************************************************)
(* What holds of the provider registry for every registry, every bound and *)
(* every reply of the sources.                                             *)
(*                                                                         *)
(* From the response up: an envelope that carries a value is read as that  *)
(* value and a broken one is an error, a conversion keeps a stage of the   *)
(* chain what it is, and so a source that does not lie answers what was so *)
(* when it was asked.  From the registration up: two groups never share a  *)
(* voice, so a quorum of two groups has two.  The invariant of a read      *)
(* (IInv) keeps both of whatever has been answered so far.                 *)
(***************************************************************************)
EXTENDS ProviderRegistry, FunctionTheorems, FiniteSetTheorems, SequenceTheorems, TLAPS

-----------------------------------------------------------------------------
(* One exchange with coinset.org.                                           *)

\* Two chunks that together pass the largest usize are never taken in.
LEMMA NoTotalWraps == ~ AccumulateWithinCap(<<1, MaxUsize>>)
<1>. SUFFICES ASSUME NEW total \in [0 .. 2 -> 0 .. MaxUsize], total[0] = 0,
                     total[1] = SaturatingAdd(total[0], 1), WithinCap(total[1]),
                     total[2] = SaturatingAdd(total[1], MaxUsize), WithinCap(total[2])
              PROVE  FALSE
  <2>1. Len(<<1, MaxUsize>>) = 2 /\ <<1, MaxUsize>>[1] = 1 /\ <<1, MaxUsize>>[2] = MaxUsize
    OBVIOUS
  <2>2. 1 - 1 = 0 /\ 2 - 1 = 1 /\ 1 \in 1 .. 2 /\ 2 \in 1 .. 2
    OBVIOUS
  <2>. QED  BY <2>1, <2>2 DEF AccumulateWithinCap
<1>1. MaxUsize \in Nat /\ MaxUsize > 1 /\ MaxResponseBytes \in Nat /\ MaxResponseBytes < MaxUsize
  BY ClientAssumption
<1>2. total[1] = 1
  BY <1>1 DEF SaturatingAdd
<1>3. total[2] = MaxUsize
  BY <1>1, <1>2 DEF SaturatingAdd
<1>. QED  BY <1>1, <1>3 DEF WithinCap

\* A response is posted whole and successful, or it is an error.
LEMMA PostedWhole ==
  ASSUME NEW r, Post(r).ok
  PROVE  Received(r) /\ r.success = "true" /\ Post(r) = Ok(r)
<1>1. CASE ~ Received(r)
  BY <1>1 DEF Post, PostRaw, Ok, Err
<1>2. CASE Received(r) /\ ~ Successful(r)
  BY <1>2 DEF Post, PostRaw, Ok, Err
<1>3. CASE Received(r) /\ Successful(r)
  BY <1>3 DEF Post, PostRaw, Ok, Err, Successful
<1>. QED  BY <1>1, <1>2, <1>3

LEMMA BrokenIsAnError ==
  ASSUME NEW r \in Broken
  PROVE  ~ Post(r).ok
<1>. SUFFICES ASSUME Post(r).ok PROVE FALSE
  OBVIOUS
<1>1. /\ r.sent /\ ContentLengthWithinCap(r.length) /\ AccumulateWithinCap(r.chunks)
      /\ ~ r.broken /\ r.success = "true"
  BY PostedWhole DEF Received
<1>2. r.sent
  BY <1>1
<1>3. r.length # {MaxResponseBytes + 1}
  BY <1>1, ClientAssumption DEF ContentLengthWithinCap
<1>4. r.chunks # <<1, MaxUsize>>
  BY <1>1, NoTotalWraps
<1>. QED  BY <1>1, <1>2, <1>3, <1>4 DEF Broken, Envelope

\* What is taken from an envelope is what its field says.
LEMMA FieldsAreRead ==
  ASSUME NEW success, NEW field
  PROVE  LET r == Envelope(success, field)
         IN  /\ PostExtract(r).ok =>
                   success = "true" /\ field.is = "value" /\ PostExtract(r) = Ok(field.value)
             /\ PostExtractOpt(r).ok =>
                   success = "true" /\ PostExtractOpt(r) = OptionalField(field)
<1>. DEFINE r == Envelope(success, field)
<1>1. r.field = field /\ r.success = success
  BY DEF Envelope
<1>. HIDE DEF r
<1>2. Post(r).ok => success = "true"
  BY <1>1, PostedWhole
<1>3. ASSUME PostExtract(r).ok
      PROVE  Post(r).ok /\ field.is = "value" /\ PostExtract(r) = Ok(field.value)
  BY <1>1, <1>3 DEF PostExtract, Parsed, Ok, Err
<1>4. ASSUME PostExtractOpt(r).ok
      PROVE  Post(r).ok /\ PostExtractOpt(r) = OptionalField(field)
  BY <1>1, <1>4 DEF PostExtractOpt
<1>. QED  BY <1>2, <1>3, <1>4 DEF r

-----------------------------------------------------------------------------
(* What a source answers is a value that it holds, or makes up.             *)

\* An optional value: none, or one.
Optional(v) == v = {} \/ \E x : v = {x}

LEMMA OptionalFields ==
  ASSUME NEW v, Optional(v)
  PROVE  OptionalField(FieldOf(v)) = Ok(v)
<1>1. CASE v = {}
  BY <1>1 DEF FieldOf, OptionalField
<1>2. ASSUME NEW x, v = {x}
      PROVE  OptionalField(FieldOf(v)) = Ok(v)
  <2>1. (CHOOSE y \in v : TRUE) = x /\ v # {}
    BY <1>2
  <2>2. FieldOf(v) = [is |-> "value", value |-> x]
    BY <2>1 DEF FieldOf, Value
  <2>. QED  BY <1>2, <2>2 DEF OptionalField
<1>. QED  BY <1>1, <1>2 DEF Optional

LEMMA FailuresPass ==
  ASSUME NEW result, MapQueryError(result).ok
  PROVE  result.ok /\ MapQueryError(result) = result
<1>1. CASE result.ok
  BY <1>1 DEF MapQueryError
<1>2. CASE ~ result.ok
  BY <1>2 DEF MapQueryError, Err
<1>. QED  BY <1>1, <1>2

\* A successful read of the coinset source is of the field it asked for.
LEMMA CoinsetSourceReadsItsField ==
  ASSUME NEW q \in Query, NEW r, CoinsetSource(q, r).ok
  PROVE  /\ q = "coin_record" =>
               PostExtractOpt(r).ok /\ CoinsetSource(q, r) = ConvertSome(PostExtractOpt(r).value)
         /\ q = "coin_records" =>
               PostExtract(r).ok /\ CoinsetSource(q, r) = ConvertAll(PostExtract(r).value)
         /\ q \in {"coin_spend", "block_timestamp"} =>
               PostExtractOpt(r).ok /\ CoinsetSource(q, r) = PostExtractOpt(r)
         /\ q = "peak_height" => PostExtract(r).ok /\ CoinsetSource(q, r) = PostExtract(r)
<1>1. CASE q = "coin_record"
  <2>1. CoinsetSource(q, r) = AndThen(PostExtractOpt(r), ConvertSome)
    BY <1>1 DEF CoinsetSource, CoinsEndpoint
  <2>2. PostExtractOpt(r).ok
    BY <2>1, FailuresPass DEF AndThen
  <2>. QED  BY <1>1, <2>1, <2>2 DEF AndThen
<1>2. CASE q = "coin_records"
  <2>1. CoinsetSource(q, r) = AndThen(PostExtract(r), Cap)
    BY <1>2 DEF CoinsetSource, CoinsEndpoint
  <2>2. PostExtract(r).ok
    BY <2>1, FailuresPass DEF AndThen
  <2>3. CoinsetSource(q, r) = Cap(PostExtract(r).value)
    BY <2>1, <2>2 DEF AndThen
  <2>4. Cap(PostExtract(r).value) = ConvertAll(PostExtract(r).value)
    BY <2>3 DEF Cap, Err
  <2>. QED  BY <1>2, <2>2, <2>3, <2>4
<1>3. CASE q = "coin_spend"
  <2>1. CoinsetSource(q, r) = MapQueryError(PostExtractOpt(r))
    BY <1>3 DEF CoinsetSource, CoinsEndpoint
  <2>. QED  BY <1>3, <2>1, FailuresPass
<1>4. CASE q = "peak_height"
  <2>1. CoinsetSource(q, r) = MapQueryError(PostExtract(r))
    BY <1>4 DEF CoinsetSource
  <2>. QED  BY <1>4, <2>1, FailuresPass
<1>5. CASE q = "block_timestamp"
  <2>1. CoinsetSource(q, r) = MapQueryError(PostExtractOpt(r))
    BY <1>5 DEF CoinsetSource, BlocksEndpoint
  <2>. QED  BY <1>5, <2>1, FailuresPass
<1>. QED  BY <1>1, <1>2, <1>3, <1>4, <1>5 DEF Query

\* An envelope that holds a value is read as that value, or is an error.
LEMMA EnvelopesAreReadAsTheirValue ==
  ASSUME NEW q \in Query, NEW v, q # "coin_records" => Optional(v),
         NEW r \in Envelopes(q, v), CoinsetSource(q, r).ok
  PROVE  CoinsetSource(q, r) = Bridged(q, v)
<1>1. CASE q \in {"coin_records", "peak_height"}
  <2>1. r = Envelope("true", Value(v))
    BY <1>1 DEF Envelopes
  <2>2. PostExtract(r).ok
    BY <1>1, CoinsetSourceReadsItsField
  <2>3. PostExtract(r) = Ok(Value(v).value)
    BY <2>1, <2>2, FieldsAreRead
  <2>4. PostExtract(r) = Ok(v) /\ PostExtract(r).value = v
    BY <2>3 DEF Value, Ok
  <2>. QED  BY <1>1, <2>4, CoinsetSourceReadsItsField DEF Bridged
<1>2. CASE q \notin {"coin_records", "peak_height"}
  <2>1. PostExtractOpt(r).ok
    BY <1>2, CoinsetSourceReadsItsField DEF Query
  <2>2. \/ r = Envelope("true", FieldOf(v))
        \/ r = Envelope("false", [is |-> "missing"])
    BY <1>2 DEF Envelopes
  <2>3. r = Envelope("true", FieldOf(v))
    BY <2>1, <2>2, FieldsAreRead
  <2>4. PostExtractOpt(r) = Ok(v) /\ PostExtractOpt(r).value = v
    BY <1>2, <2>1, <2>3, FieldsAreRead, OptionalFields DEF Ok
  <2>. QED  BY <1>2, <2>4, CoinsetSourceReadsItsField DEF Bridged, Query
<1>. QED  BY <1>1, <1>2

\* What does not arrive, is no success or does not parse is an error.
LEMMA BadRepliesAreErrors ==
  ASSUME NEW q \in Query, NEW r \in Broken \cup Malformed
  PROVE  ~ CoinsetSource(q, r).ok
<1>. SUFFICES ASSUME CoinsetSource(q, r).ok PROVE FALSE
  OBVIOUS
<1>1. PostExtract(r).ok \/ PostExtractOpt(r).ok
  BY CoinsetSourceReadsItsField DEF Query
<1>2. CASE r \in Broken
  <2>1. ~ Post(r).ok
    BY <1>2, BrokenIsAnError
  <2>. QED  BY <1>1, <2>1 DEF PostExtract, PostExtractOpt
<1>3. CASE r \in Malformed
  <2>. DEFINE field == [is |-> "malformed"]
  <2>1. r = Envelope("true", field)
    BY <1>3 DEF Malformed
  <2>2. ~ PostExtract(r).ok
    BY <2>1, FieldsAreRead
  <2>3. PostExtractOpt(r).ok => OptionalField(field).ok
    BY <2>1, FieldsAreRead
  <2>4. ~ OptionalField(field).ok
    BY DEF OptionalField, Err
  <2>. QED  BY <1>1, <2>2, <2>3, <2>4
<1>. QED  BY <1>2, <1>3

\* What a source may say, of the fabrics' records at a stage.
Sayable(q, c, lies) ==
    Held(q, c, 0) \cup Held(q, c, 1) \cup (IF lies THEN Lies(q) ELSE {})

LEMMA ValuesAreOptional ==
  ASSUME NEW q \in Query, q # "coin_records", NEW c, NEW lies,
         NEW v \in Sayable(q, c, lies)
  PROVE  Optional(v)
BY DEF Sayable, Query, Held, Lies, Optional

LEMMA EveryAnswerIsOfAValue ==
  ASSUME query \in Query, NEW i, NEW voice, NEW r \in Results(i, voice), r.ok
  PROVE  \E v \in Sayable(query, chain, voice \in lying) : r = Bridged(query, v)
<1>. DEFINE values == Sayable(query, chain, voice \in lying)
<1>1. \A e \in Failures : ~ e.ok
  BY DEF Failures, Err
<1>2. ASSUME \/ r \in FromPeers(query, chain, FALSE)
             \/ r \in FromPeers(query, chain, voice \in lying)
      PROVE  \E v \in values : r = Bridged(query, v)
  BY <1>1, <1>2 DEF FromPeers, FromRouter, RunBlocking, Sayable
<1>3. ASSUME r \in RelayedByRouter(query, chain, voice \in lying)
      PROVE  \E v \in values : r = Bridged(query, v)
  BY <1>1, <1>3 DEF RelayedByRouter, FromRouter, RunBlocking, Sayable
<1>4. ASSUME r \in FromCoinset(query, chain, voice \in lying)
      PROVE  \E v \in values : r = Bridged(query, v)
  <2>. DEFINE said == Held(query, chain, 1) \cup (IF voice \in lying THEN Lies(query) ELSE {})
  <2>1. PICK e \in Broken \cup Malformed \cup UNION {Envelopes(query, v) : v \in said} :
           r = CoinsetSource(query, e)
    BY <1>4 DEF FromCoinset
  <2>2. e \notin Broken \cup Malformed
    BY <2>1, BadRepliesAreErrors
  <2>3. PICK v \in said : e \in Envelopes(query, v)
    BY <2>1, <2>2
  <2>4. v \in values
    BY DEF Sayable
  <2>5. query # "coin_records" => Optional(v)
    BY <2>4, ValuesAreOptional
  <2>6. r = Bridged(query, v)
    BY <2>1, <2>3, <2>5, EnvelopesAreReadAsTheirValue
  <2>. QED  BY <2>4, <2>6
<1>5. \/ r \in FromPeers(query, chain, FALSE)
      \/ r \in FromPeers(query, chain, voice \in lying)
      \/ r \in RelayedByRouter(query, chain, voice \in lying)
      \/ r \in FromCoinset(query, chain, voice \in lying)
  BY DEF Results
<1>. QED  BY <1>2, <1>3, <1>4, <1>5

-----------------------------------------------------------------------------
(* What is so, and what is told of it.                                      *)

Stamp == {{}, {1}}

LEMMA TruthsAreStamped ==
  ASSUME NEW c, NEW value
  PROVE  value \in TrueAt(c) <=> \E stamp \in Stamp : value \in TruthsStamped(c, stamp)
BY DEF TrueAt, Stamp

LEMMA RecordsConvert ==
  ASSUME NEW c \in {1, 2}, NEW timestamp \in {0, 1}
  PROVE  /\ CoinRecordFromChq(FirstCoin(c, timestamp)) = TrueFirst(c, NoneIfZero(timestamp))
         /\ CoinRecordFromChq(Flat(2, 2, 0, timestamp))
               = TrueRecord(2, 2, {}, NoneIfZero(timestamp))
         /\ FirstCoin(c, timestamp).hex /\ Flat(2, 2, 0, timestamp).hex
<1>1. ASSUME NEW coin, NEW height \in {1, 2}
      PROVE  /\ CoinRecordFromChq(Flat(coin, height, 0, timestamp))
                   = TrueRecord(coin, height, {}, NoneIfZero(timestamp))
             /\ CoinRecordFromChq(Flat(coin, height, 2, timestamp))
                   = TrueRecord(coin, height, {2}, NoneIfZero(timestamp))
             /\ Flat(coin, height, 0, timestamp).hex /\ Flat(coin, height, 2, timestamp).hex
  <2>1. NoneIfZero(height) = {height} /\ ~ (0 > 0) /\ 2 > 0
    BY DEF NoneIfZero
  <2>. QED  BY <2>1 DEF CoinRecordFromChq, Flat, TrueRecord
<1>. QED  BY <1>1 DEF FirstCoin, TrueFirst

LEMMA Reversed ==
  ASSUME NEW n \in Nat, NEW f, f = [k \in 1 .. n |-> f[k]]
  PROVE  Len(f) = n /\ Reverse(f) = [k \in 1 .. n |-> f[(n - k) + 1]]
<1>1. Len(f) = n
  <2>. DEFINE S == {f[k] : k \in 1 .. n}
  <2>1. f \in [1 .. n -> S]
    OBVIOUS
  <2>. HIDE DEF S
  <2>. QED  BY <2>1
<1>. QED  BY <1>1 DEF Reverse

\* The list of the fabric's records becomes the list of the true ones.
LEMMA ListsConvert ==
  ASSUME NEW c \in Stage, NEW timestamp \in {0, 1},
         NEW v \in {CoinsHeld(c, timestamp), Reverse(CoinsHeld(c, timestamp))}
  PROVE  LET truth == TrueCoins(c, NoneIfZero(timestamp))
         IN  /\ ConvertAll(v).ok
             /\ ConvertAll(v).value \in {truth, Reverse(truth)}
             /\ Len(ConvertAll(v).value) = c
<1>. DEFINE held == CoinsHeld(c, timestamp)
            truth == TrueCoins(c, NoneIfZero(timestamp))
<1>1. c \in Nat
  BY DEF Stage
<1>2. held = [k \in 1 .. c |-> held[k]] /\ truth = [k \in 1 .. c |-> truth[k]]
  BY DEF CoinsHeld, TrueCoins
<1>3. \A k \in 1 .. c : CoinRecordFromChq(held[k]) = truth[k] /\ held[k].hex
  <2>. SUFFICES ASSUME NEW k \in 1 .. c
                PROVE  CoinRecordFromChq(held[k]) = truth[k] /\ held[k].hex
    OBVIOUS
  <2>1. c \in {1, 2}
    BY DEF Stage
  <2>2. held[k] = IF k = 1 THEN FirstCoin(c, timestamp) ELSE Flat(2, 2, 0, timestamp)
    BY DEF CoinsHeld
  <2>3. truth[k] = IF k = 1 THEN TrueFirst(c, NoneIfZero(timestamp))
                            ELSE TrueRecord(2, 2, {}, NoneIfZero(timestamp))
    BY DEF TrueCoins
  <2>4. CASE k = 1
    BY <2>1, <2>2, <2>3, <2>4, RecordsConvert
  <2>5. CASE k # 1
    BY <2>1, <2>2, <2>3, <2>5, RecordsConvert
  <2>. QED  BY <2>4, <2>5
<1>. HIDE DEF held, truth
<1>4. Len(held) = c /\ Reverse(held) = [k \in 1 .. c |-> held[(c - k) + 1]]
  BY <1>1, <1>2, Reversed
<1>5. Len(truth) = c /\ Reverse(truth) = [k \in 1 .. c |-> truth[(c - k) + 1]]
  BY <1>1, <1>2, Reversed
<1>6. \A k \in 1 .. c : (c - k) + 1 \in 1 .. c
  BY <1>1
<1>7. DOMAIN v = 1 .. c /\ \A k \in 1 .. c : v[k].hex
  BY <1>2, <1>3, <1>4, <1>6 DEF held
<1>8. ConvertAll(v) = Ok([k \in 1 .. c |-> CoinRecordFromChq(v[k])])
  BY <1>7 DEF ConvertAll
<1>. DEFINE told == [k \in 1 .. c |-> CoinRecordFromChq(v[k])]
<1>9. told \in {truth, Reverse(truth)}
  <2>1. CASE v = held
    <3>1. told = [k \in 1 .. c |-> truth[k]]
      BY <1>3, <2>1
    <3>. QED  BY <1>2, <3>1
  <2>2. CASE v = Reverse(held)
    <3>1. \A k \in 1 .. c : v[k] = held[(c - k) + 1]
      BY <1>4, <2>2
    <3>2. \A k \in 1 .. c : CoinRecordFromChq(v[k]) = truth[(c - k) + 1]
      BY <1>3, <1>6, <3>1
    <3>3. told = [k \in 1 .. c |-> truth[(c - k) + 1]]
      BY <3>2
    <3>. QED  BY <1>5, <3>3
  <2>. QED  BY <2>1, <2>2 DEF held
<1>10. Len(told) = c
  BY <1>1, Reversed
<1>11. ConvertAll(v).ok /\ ConvertAll(v).value = told
  BY <1>8 DEF Ok
<1>. HIDE DEF told
<1>. QED  BY <1>9, <1>10, <1>11 DEF truth

\* What a fabric in good order holds is told as it is.
LEMMA HonestValuesAreTrue ==
  ASSUME query \in Query, NEW c \in Stage, NEW timestamp \in {0, 1},
         NEW v \in Held(query, c, timestamp)
  PROVE  /\ Bridged(query, v).ok
         /\ Bridged(query, v).value \in TrueAt(c)
         /\ WithinBound(Bridged(query, v).value)
<1>1. NoneIfZero(timestamp) \in Stamp
  BY DEF NoneIfZero, Stamp
<1>. DEFINE stamp == NoneIfZero(timestamp)
<1>. SUFFICES /\ Bridged(query, v).ok
              /\ Bridged(query, v).value \in TruthsStamped(c, stamp)
              /\ WithinBound(Bridged(query, v).value)
  BY <1>1, TruthsAreStamped
<1>2. CASE query = "coin_record"
  <2>1. CASE c = 0
    <3>1. v = {} /\ Bridged(query, v) = Ok({CoinRecordFromChq(r) : r \in v})
      BY <1>2, <2>1 DEF Held, Bridged, ConvertSome
    <3>2. Bridged(query, v) = Ok({})
      BY <3>1
    <3>. QED  BY <1>2, <2>1, <3>2 DEF TruthsStamped, Ok, WithinBound
  <2>2. CASE c # 0
    <3>1. v = {FirstCoin(c, timestamp)} /\ c \in {1, 2}
      BY <1>2, <2>2 DEF Held, Stage
    <3>2. CoinRecordFromChq(FirstCoin(c, timestamp)) = TrueFirst(c, stamp)
          /\ FirstCoin(c, timestamp).hex
      BY <3>1, RecordsConvert
    <3>3. Bridged(query, v) = Ok({CoinRecordFromChq(r) : r \in v})
      BY <1>2, <3>1, <3>2 DEF Bridged, ConvertSome
    <3>4. {CoinRecordFromChq(r) : r \in v} = {TrueFirst(c, stamp)}
      BY <3>1, <3>2
    <3>. QED  BY <1>2, <2>2, <3>3, <3>4 DEF TruthsStamped, Ok, WithinBound
  <2>. QED  BY <2>1, <2>2
<1>3. CASE query = "coin_records"
  <2>1. v \in {CoinsHeld(c, timestamp), Reverse(CoinsHeld(c, timestamp))}
    BY <1>3 DEF Held
  <2>2. Bridged(query, v) = ConvertAll(v)
    BY <1>3 DEF Bridged
  <2>3. c <= MaxRecords
    BY SourcesAssumption DEF Stage
  <2>. QED  BY <1>3, <2>1, <2>2, <2>3, ListsConvert DEF TruthsStamped, WithinBound
<1>4. CASE query \in {"coin_spend", "peak_height", "block_timestamp"}
  BY <1>4 DEF Held, Bridged, TruthsStamped, Ok, WithinBound
<1>. QED  BY <1>2, <1>3, <1>4 DEF Query

\* A list: places from 1 on, without a gap.
IsList(value) == \E n \in Nat : value = [k \in 1 .. n |-> value[k]]

LEMMA ListedAnswersAreLists ==
  ASSUME query = "coin_records", NEW c \in Stage, NEW lies,
         NEW v \in Sayable(query, c, lies), Bridged(query, v).ok
  PROVE  IsList(Bridged(query, v).value)
<1>1. \E n \in Nat : DOMAIN v = 1 .. n
  <2>1. CASE \E timestamp \in {0, 1} : v \in Held(query, c, timestamp)
    <3>1. PICK timestamp \in {0, 1} : v \in Held(query, c, timestamp)
      BY <2>1
    <3>. DEFINE held == CoinsHeld(c, timestamp)
    <3>2. v = held \/ v = Reverse(held)
      BY <3>1 DEF Held
    <3>3. c \in Nat /\ held = [k \in 1 .. c |-> held[k]] /\ DOMAIN held = 1 .. c
      BY DEF CoinsHeld, Stage
    <3>. HIDE DEF held
    <3>4. DOMAIN Reverse(held) = 1 .. c
      BY <3>3, Reversed
    <3>. QED  BY <3>2, <3>3, <3>4
  <2>2. CASE v \in Lies(query)
    <3>1. MaxRecords + 1 \in Nat /\ 0 \in Nat /\ 1 \in Nat
      BY SourcesAssumption
    <3>2. \/ v = <<>> \/ v = <<Flat(2, 1, 0, 0)>>
          \/ v = [k \in 1 .. MaxRecords + 1 |-> Flat(k, 1, 0, 0)]
      BY <2>2 DEF Lies
    <3>3. v = <<>> => DOMAIN v = 1 .. 0
      OBVIOUS
    <3>4. v = <<Flat(2, 1, 0, 0)>> => DOMAIN v = 1 .. 1
      OBVIOUS
    <3>. QED  BY <3>1, <3>2, <3>3, <3>4
  <2>. QED  BY <2>1, <2>2 DEF Sayable
<1>2. Bridged(query, v) = Ok([k \in DOMAIN v |-> CoinRecordFromChq(v[k])])
  BY DEF Bridged, ConvertAll, Err
<1>. QED  BY <1>1, <1>2 DEF IsList, Ok

\* An answer of a source: true when it was given if the voice does not lie, and
\* within the bound if the voice is always to be relied on.
LEMMA AnswersOfASource ==
  ASSUME query \in Query, chain \in Stage, steady \cap (lying \cup {Coinset}) = {},
         NEW i, NEW voice, NEW r \in Results(i, voice)
  PROVE  /\ r.ok /\ voice \notin lying => r.value \in TrueAt(chain)
         /\ r.ok /\ query = "coin_records" => IsList(r.value)
         /\ voice \in steady => r.ok /\ WithinBound(r.value)
<1>1. ASSUME r.ok
      PROVE  /\ voice \notin lying => r.value \in TrueAt(chain)
             /\ query = "coin_records" => IsList(r.value)
  <2>1. PICK v \in Sayable(query, chain, voice \in lying) : r = Bridged(query, v)
    BY <1>1, EveryAnswerIsOfAValue
  <2>2. voice \notin lying => \E timestamp \in {0, 1} : v \in Held(query, chain, timestamp)
    BY <2>1 DEF Sayable
  <2>3. voice \notin lying => r.value \in TrueAt(chain)
    BY <2>1, <2>2, HonestValuesAreTrue
  <2>4. query = "coin_records" => IsList(r.value)
    BY <1>1, <2>1, ListedAnswersAreLists
  <2>. QED  BY <2>3, <2>4
<1>2. ASSUME voice \in steady
      PROVE  r.ok /\ WithinBound(r.value)
  <2>1. r \in FromPeers(query, chain, FALSE) \ Failures
    BY <1>2 DEF Results
  <2>2. PICK v \in Held(query, chain, 0) : r = Bridged(query, v)
    BY <2>1 DEF FromPeers, FromRouter, RunBlocking
  <2>. QED  BY <2>2, HonestValuesAreTrue
<1>. QED  BY <1>1, <1>2

\* Two lists with the same records are both so, or neither is.
LEMMA TruthHasNoOrder ==
  ASSUME query \in Query, NEW c \in Stage, NEW a \in TrueAt(c), NEW b, QuorumEq(a, b),
         query = "coin_records" => IsList(b)
  PROVE  b \in TrueAt(c)
<1>1. CASE query # "coin_records"
  BY <1>1 DEF QuorumEq
<1>2. CASE query = "coin_records"
  <2>1. PICK stamp \in Stamp : a \in TruthsStamped(c, stamp)
    BY TruthsAreStamped
  <2>. DEFINE truth == TrueCoins(c, stamp)
  <2>2. a = truth \/ a = Reverse(truth)
    BY <1>2, <2>1 DEF TruthsStamped
  <2>3. c \in Nat /\ truth = [k \in 1 .. c |-> truth[k]]
    BY DEF Stage, TrueCoins
  <2>4. PICK n \in Nat : b = [k \in 1 .. n |-> b[k]]
    BY <1>2 DEF IsList
  <2>5. PICK place \in Bijection(DOMAIN a, DOMAIN b) : \A i \in DOMAIN a : a[i] = b[place[i]]
    BY <1>2 DEF QuorumEq, SameRecords
  <2>. HIDE DEF truth
  <2>6. Reverse(truth) = [k \in 1 .. c |-> truth[(c - k) + 1]]
    BY <2>3, Reversed
  <2>7. DOMAIN a = 1 .. c /\ DOMAIN b = 1 .. n
    BY <2>2, <2>3, <2>4, <2>6
  <2>8. n = c
    <3>1. \A m \in Nat : IsFiniteSet(1 .. m) /\ Cardinality(1 .. m) = m
      BY FS_Interval
    <3>2. ExistsBijection(1 .. c, 1 .. n)
      BY <2>5, <2>7 DEF ExistsBijection
    <3>. QED  BY <2>3, <2>4, <3>1, <3>2, FS_Bijection
  <2>9. /\ place \in [1 .. c -> 1 .. c]
        /\ \A j \in 1 .. c : \E i \in 1 .. c : place[i] = j
        /\ \A i \in 1 .. c : a[i] = b[place[i]]
    BY <2>5, <2>7, <2>8 DEF Bijection, Injection, Surjection
  <2>10. b = truth \/ b = Reverse(truth)
    <3>1. CASE c = 0
      BY <2>3, <2>4, <2>8, <3>1
    <3>2. CASE c = 1
      <4>1. a[1] = truth[1]
        BY <2>2, <2>3, <2>6, <3>2
      <4>2. b[1] = truth[1]
        BY <2>9, <3>2, <4>1
      <4>. QED  BY <2>3, <2>4, <2>8, <3>2, <4>2
    <3>3. CASE c = 2
      <4>1. \/ a[1] = truth[1] /\ a[2] = truth[2]
            \/ a[1] = truth[2] /\ a[2] = truth[1]
        BY <2>2, <2>3, <2>6, <3>3
      <4>2. \/ place[1] = 1 /\ place[2] = 2
            \/ place[1] = 2 /\ place[2] = 1
        BY <2>9, <3>3
      <4>3. \/ b[1] = truth[1] /\ b[2] = truth[2]
            \/ b[1] = truth[2] /\ b[2] = truth[1]
        BY <2>9, <3>3, <4>1, <4>2
      <4>. QED  BY <2>3, <2>4, <2>6, <2>8, <3>3, <4>3
    <3>. QED  BY <3>1, <3>2, <3>3 DEF Stage
  <2>11. b \in TruthsStamped(c, stamp)
    BY <1>2, <2>10 DEF TruthsStamped, truth
  <2>. QED  BY <2>11, TruthsAreStamped
<1>. QED  BY <1>1, <1>2

-----------------------------------------------------------------------------
(* Whose voice it is.                                                       *)

LEMMA RegistrationsAreMade ==
  ASSUME providers \in Registries, NEW i \in Registered
  PROVE  /\ providers[i].fabric \in Fabrics
         /\ providers[i].group = IF providers[i].fabric = "node" THEN "local"
                                 ELSE IndependenceGroupFor(providers[i].fabric)
BY RegistryAssumption DEF Registered, Register

\* A voice speaks for one group only.
LEMMA OneGroupForAVoice ==
  ASSUME providers \in Registries, NEW i \in Registered, NEW j \in Registered,
         NEW voice \in VoicesOf(i), voice \in VoicesOf(j)
  PROVE  providers[i].group = providers[j].group
<1>1. /\ providers[i].fabric \in Fabrics
      /\ providers[i].group = IF providers[i].fabric = "node" THEN "local"
                              ELSE IndependenceGroupFor(providers[i].fabric)
  BY RegistrationsAreMade
<1>2. /\ providers[j].fabric \in Fabrics
      /\ providers[j].group = IF providers[j].fabric = "node" THEN "local"
                              ELSE IndependenceGroupFor(providers[j].fabric)
  BY RegistrationsAreMade
<1>3. /\ Coinset # PoolOf(i) /\ Coinset # PoolOf(j) /\ Coinset # OwnNode
      /\ OwnNode # PoolOf(i) /\ OwnNode # PoolOf(j)
      /\ PoolOf(i) = PoolOf(j) => i = j
  BY DEF Coinset, PoolOf, OwnNode
<1>4. ASSUME NEW k \in {i, j}, voice \in VoicesOf(k)
      PROVE  /\ providers[k].fabric = "coinset" => voice = Coinset
             /\ providers[k].fabric = "router" => voice \in {Coinset, PoolOf(k)}
             /\ providers[k].fabric = "peers" => voice = PoolOf(k)
             /\ providers[k].fabric = "node" => voice = OwnNode
  BY <1>4 DEF VoicesOf
<1>5. /\ providers[i].fabric = "coinset" => voice = Coinset
      /\ providers[i].fabric = "router" => voice \in {Coinset, PoolOf(i)}
      /\ providers[i].fabric = "peers" => voice = PoolOf(i)
      /\ providers[i].fabric = "node" => voice = OwnNode
  BY <1>4
<1>6. /\ providers[j].fabric = "coinset" => voice = Coinset
      /\ providers[j].fabric = "router" => voice \in {Coinset, PoolOf(j)}
      /\ providers[j].fabric = "peers" => voice = PoolOf(j)
      /\ providers[j].fabric = "node" => voice = OwnNode
  BY <1>4
<1>7. i # j => (providers[i].fabric = "node" <=> providers[j].fabric = "node")
               /\ (providers[i].fabric = "peers" => FALSE) /\ (providers[j].fabric = "peers" => FALSE)
  BY <1>1, <1>2, <1>3, <1>5, <1>6 DEF Fabrics
<1>. QED  BY <1>1, <1>2, <1>7 DEF IndependenceGroupFor, CoinsetReachable, Fabrics

-----------------------------------------------------------------------------
(* The invariant of a read.                                                 *)

\* What does not change, and the clock.
Settled ==
    /\ providers \in Registries /\ query \in Query
    /\ view \in {"trusted", "any"}
    /\ steady \cap (lying \cup {Coinset}) = {}
    /\ chain \in Stage /\ since \in Stage /\ since <= chain

\* What each mode is for, and whom it asks.
ModeOK ==
    /\ mode \in {"begin", "custody", "discovery", "quorum", "done"}
    /\ mode # "done" => ~ reply.ok
    /\ ~ last_error.ok
    /\ left \subseteq Registered
    /\ mode = "custody" => view = "trusted" /\ TrustedOnes # {} /\ left \subseteq TrustedOnes
    /\ mode = "discovery" => view = "any"
    /\ mode = "quorum" => view = "trusted" /\ TrustedOnes = {}

\* An answer that was given in the course of the read.
SoAtSomeTime(value) == \E stage \in since .. chain : value \in TrueAt(stage)

\* What a group has contributed.
ContributionOK(k) ==
    /\ \E i \in Registered : /\ per_group[k].group = providers[i].group
                             /\ per_group[k].voice \in VoicesOf(i)
    /\ per_group[k].voice \notin lying => SoAtSomeTime(per_group[k].value)
    /\ query = "coin_records" => IsList(per_group[k].value)

IsSequence(s) == s \in Seq(Range(s))

ContributionsOK ==
    /\ mode \in {"begin", "custody", "discovery"} => per_group = <<>>
    /\ IsSequence(per_group)
    /\ \A k \in DOMAIN per_group : ContributionOK(k)
    /\ \A j, k \in DOMAIN per_group : per_group[j].group = per_group[k].group => j = k

\* A source that answers is still to be asked, or the read has its reply.
SteadyOK ==
    \A i \in Registered : VoicesOf(i) \subseteq steady =>
        /\ mode = "discovery" => i \in left
        /\ mode = "done" /\ view = "any" => reply.ok /\ WithinBound(reply.value)

\* Who is behind a reply.
ReplyOK ==
    mode = "done" /\ reply.ok =>
        /\ backing # {} /\ IsFiniteSet(backing)
        /\ (\E voice \in backing : voice \notin lying) => SoAtSomeTime(reply.value)
        /\ view = "trusted" /\ TrustedOnes # {} =>
              \E i \in TrustedOnes : backing \subseteq VoicesOf(i)
        /\ view = "trusted" /\ TrustedOnes = {} => \E v, w \in backing : v # w

IInv == Settled /\ ModeOK /\ ContributionsOK /\ SteadyOK /\ ReplyOK

LEMMA ReadsBegin ==
  ASSUME Init
  PROVE  IInv
<1>1. since <= chain
  BY DEF Init, Stage
<1>2. Settled
  BY <1>1 DEF Init, Settled
<1>3. ModeOK
  BY DEF Init, ModeOK, None, Err
<1>4. ContributionsOK
  <2>1. per_group = <<>>
    BY DEF Init
  <2>2. IsSequence(per_group) /\ DOMAIN per_group = {}
    BY <2>1 DEF IsSequence
  <2>. QED  BY <2>1, <2>2 DEF ContributionsOK
<1>5. SteadyOK /\ ReplyOK
  BY DEF Init, SteadyOK, ReplyOK
<1>. QED  BY <1>2, <1>3, <1>4, <1>5 DEF IInv

LEMMA AppendedSequences ==
  ASSUME NEW s, IsSequence(s), NEW x
  PROVE  /\ Len(Append(s, x)) = Len(s) + 1 /\ Len(s) \in Nat
         /\ DOMAIN s = 1 .. Len(s) /\ DOMAIN Append(s, x) = 1 .. Len(s) + 1
         /\ \A k \in 1 .. Len(s) : Append(s, x)[k] = s[k]
         /\ Append(s, x)[Len(s) + 1] = x
         /\ IsSequence(Append(s, x))
<1>. DEFINE T == Range(s) \cup {x}
            t == Append(s, x)
<1>1. s \in Seq(T) /\ x \in T
  <2>1. s \in [1 .. Len(s) -> Range(s)] /\ Len(s) \in Nat
    BY DEF IsSequence
  <2>2. s \in [1 .. Len(s) -> T]
    BY <2>1
  <2>. HIDE DEF T
  <2>. QED  BY <2>1, <2>2 DEF T
<1>. HIDE DEF T
<1>2. /\ Len(t) = Len(s) + 1 /\ Len(s) \in Nat
      /\ DOMAIN s = 1 .. Len(s) /\ DOMAIN t = 1 .. Len(s) + 1
      /\ \A k \in 1 .. Len(s) : t[k] = s[k]
      /\ t[Len(s) + 1] = x
      /\ t \in Seq(T)
  BY <1>1, AppendProperties
<1>3. t \in Seq(Range(t))
  <2>. HIDE DEF t
  <2>1. t \in [1 .. Len(s) + 1 -> T] /\ Len(s) + 1 \in Nat
    BY <1>2
  <2>2. t \in [1 .. Len(s) + 1 -> Range(t)]
    BY <2>1 DEF Range
  <2>. QED  BY <2>1, <2>2
<1>. QED  BY <1>2, <1>3 DEF IsSequence

LEMMA SettingsStay ==
  ASSUME settingVars' = settingVars
  PROVE  /\ providers' = providers /\ lying' = lying /\ steady' = steady
         /\ view' = view /\ query' = query
         /\ Registered' = Registered /\ TrustedOnes' = TrustedOnes
         /\ \A i : VoicesOf(i)' = VoicesOf(i)
         /\ \A c : TrueAt(c)' = TrueAt(c)
         /\ \A value : WithinBound(value)' <=> WithinBound(value)
<1>1. /\ providers' = providers /\ lying' = lying /\ steady' = steady
      /\ view' = view /\ query' = query
  BY DEF settingVars
<1>2. Registered' = Registered /\ TrustedOnes' = TrustedOnes
  BY <1>1 DEF Registered, TrustedOnes, Trusted
<1>3. \A i : VoicesOf(i)' = VoicesOf(i)
  BY <1>1 DEF VoicesOf
<1>4. \A c : TrueAt(c)' = TrueAt(c)
  BY <1>1 DEF TrueAt, TruthsStamped
<1>5. \A value : WithinBound(value)' <=> WithinBound(value)
  BY <1>1 DEF WithinBound
<1>. QED  BY <1>1, <1>2, <1>3, <1>4, <1>5

\* What was so at some time of the read remains so.
LEMMA TimesAreKept ==
  ASSUME settingVars' = settingVars, Settled, Settled', since' = since, chain <= chain'
  PROVE  \A value : SoAtSomeTime(value) => SoAtSomeTime(value)'
<1>1. \A c : TrueAt(c)' = TrueAt(c)
  BY SettingsStay
<1>2. since .. chain \subseteq since' .. chain'
  BY DEF Settled, Stage
<1>. QED  BY <1>1, <1>2 DEF SoAtSomeTime

LEMMA ContributionsAreKept ==
  ASSUME settingVars' = settingVars, Settled, Settled', since' = since, chain <= chain',
         per_group' = per_group, ContributionsOK,
         mode' \in {"begin", "custody", "discovery"} => per_group = <<>>
  PROVE  ContributionsOK'
<1>1. \A value : SoAtSomeTime(value) => SoAtSomeTime(value)'
  BY TimesAreKept
<1>2. /\ providers' = providers /\ lying' = lying /\ query' = query
      /\ Registered' = Registered /\ \A i : VoicesOf(i)' = VoicesOf(i)
  BY SettingsStay
<1>3. \A k \in DOMAIN per_group : ContributionOK(k)'
  BY <1>1, <1>2 DEF ContributionsOK, ContributionOK
<1>. QED  BY <1>3 DEF ContributionsOK

LEMMA NextKeepsSettled ==
  ASSUME IInv, [Next]_vars
  PROVE  Settled' /\ settingVars' = settingVars
<1>1. settingVars' = settingVars
  BY DEF Next, ChainMoves, Begin, AskNext, AllFailed, AskGroup, Tally, Done, vars
<1>2. \/ chain' = chain /\ since' = since
      \/ chain' = chain /\ since' = chain
      \/ chain' = chain + 1 /\ chain' \in Stage /\ since' = since
  BY DEF Next, ChainMoves, Begin, AskNext, AllFailed, AskGroup, Tally, Done, vars
<1>3. chain' \in Stage /\ since' \in Stage /\ since' <= chain'
  BY <1>2 DEF IInv, Settled, Stage
<1>. QED  BY <1>1, <1>3 DEF settingVars, IInv, Settled

LEMMA ChainKeepsInvariant ==
  ASSUME IInv, ChainMoves
  PROVE  IInv'
<1>1. Settled' /\ settingVars' = settingVars
  BY NextKeepsSettled DEF Next
<1>2. /\ mode' = mode /\ left' = left /\ per_group' = per_group /\ last_error' = last_error
      /\ reply' = reply /\ backing' = backing /\ since' = since /\ chain' = chain + 1
      /\ ~ reply.ok
  BY DEF ChainMoves, None, Err
<1>3. /\ view' = view /\ Registered' = Registered /\ TrustedOnes' = TrustedOnes
      /\ \A i : VoicesOf(i)' = VoicesOf(i)
      /\ steady' = steady /\ \A value : WithinBound(value)' <=> WithinBound(value)
  BY <1>1, SettingsStay
<1>4. ModeOK'
  BY <1>2, <1>3 DEF IInv, ModeOK
<1>5. ContributionsOK'
  <2>1. chain <= chain'
    BY <1>2 DEF IInv, Settled, Stage
  <2>. QED  BY <1>1, <1>2, <2>1, ContributionsAreKept DEF IInv, ContributionsOK
<1>6. SteadyOK' /\ ReplyOK'
  BY <1>2, <1>3 DEF IInv, SteadyOK, ReplyOK
<1>. QED  BY <1>1, <1>4, <1>5, <1>6 DEF IInv

LEMMA BeginKeepsInvariant ==
  ASSUME IInv, Begin
  PROVE  IInv'
<1>1. Settled' /\ settingVars' = settingVars
  BY NextKeepsSettled DEF Next
<1>2. /\ mode = "begin" /\ per_group' = per_group /\ last_error' = last_error
      /\ backing' = backing /\ since' = chain /\ chain' = chain
      /\ per_group = <<>> /\ ~ reply.ok /\ ~ last_error.ok /\ left \subseteq Registered
  BY DEF Begin, IInv, ContributionsOK, ModeOK
<1>3. /\ view' = view /\ Registered' = Registered /\ TrustedOnes' = TrustedOnes
      /\ \A i : VoicesOf(i)' = VoicesOf(i) /\ steady' = steady
  BY <1>1, SettingsStay
<1>4. \/ view = "any" /\ mode' = "discovery" /\ left' = Registered /\ reply' = reply
      \/ /\ view = "trusted" /\ TrustedOnes # {}
         /\ mode' = "custody" /\ left' = TrustedOnes /\ reply' = reply
      \/ /\ view = "trusted" /\ TrustedOnes = {}
         /\ mode' = "quorum" /\ left' = Registered /\ reply' = reply
      \/ view = "trusted" /\ mode' = "done" /\ reply' = last_error /\ left' = left
  <2>1. CASE allow_public_quorum_custody
    BY <2>1 DEF Begin, Begins, CustodySources
  <2>2. CASE ~ allow_public_quorum_custody
    BY <2>2 DEF Begin, Begins, CustodySources
  <2>. QED  BY <2>1, <2>2
<1>5. TrustedOnes \subseteq Registered
  BY DEF TrustedOnes
<1>6. ModeOK'
  BY <1>2, <1>3, <1>4, <1>5 DEF ModeOK
<1>7. ContributionsOK'
  <2>1. IsSequence(per_group') /\ DOMAIN per_group' = {}
    BY <1>2 DEF IsSequence
  <2>. QED  BY <1>2, <2>1 DEF ContributionsOK
<1>8. SteadyOK' /\ ReplyOK'
  BY <1>2, <1>3, <1>4 DEF SteadyOK, ReplyOK
<1>. QED  BY <1>1, <1>6, <1>7, <1>8 DEF IInv

LEMMA AskNextKeepsInvariant ==
  ASSUME IInv, AskNext
  PROVE  IInv'
<1>1. Settled' /\ settingVars' = settingVars
  BY NextKeepsSettled DEF Next
<1>2. /\ view' = view /\ Registered' = Registered /\ TrustedOnes' = TrustedOnes
      /\ \A i : VoicesOf(i)' = VoicesOf(i)
      /\ lying' = lying /\ steady' = steady
      /\ \A value : WithinBound(value)' <=> WithinBound(value)
  BY <1>1, SettingsStay
<1>3. /\ mode \in {"custody", "discovery"} /\ per_group' = per_group
      /\ since' = since /\ chain' = chain
  BY DEF AskNext
<1>4. ContributionsOK'
  BY <1>1, <1>3, ContributionsAreKept DEF IInv, ContributionsOK, Settled, Stage
<1>5. PICK i \in left : \E a \in Answers(i) :
          IF Accepted(a.result)
          THEN reply' = a.result /\ mode' = "done" /\ backing' = {a.voice} /\ left' = left
               /\ last_error' = last_error
          ELSE last_error' = Failure(a.result) /\ left' = LeftAfter(i, a.result)
               /\ reply' = reply /\ mode' = mode /\ backing' = backing
  BY DEF AskNext
<1>6. PICK voice \in VoicesOf(i) : \E r \in Results(i, voice) :
          IF Accepted(r)
          THEN reply' = r /\ mode' = "done" /\ backing' = {voice} /\ left' = left
               /\ last_error' = last_error
          ELSE last_error' = Failure(r) /\ left' = LeftAfter(i, r)
               /\ reply' = reply /\ mode' = mode /\ backing' = backing
  BY <1>5 DEF Answers
<1>. PICK r \in Results(i, voice) :
          IF Accepted(r)
          THEN reply' = r /\ mode' = "done" /\ backing' = {voice} /\ left' = left
               /\ last_error' = last_error
          ELSE last_error' = Failure(r) /\ left' = LeftAfter(i, r)
               /\ reply' = reply /\ mode' = mode /\ backing' = backing
  BY <1>6
<1>7. /\ r.ok /\ voice \notin lying => r.value \in TrueAt(chain)
      /\ voice \in steady => r.ok /\ WithinBound(r.value)
  BY AnswersOfASource DEF IInv, Settled
<1>8. CASE Accepted(r)
  <2>1. r.ok /\ (mode = "discovery" => WithinBound(r.value))
    BY <1>8 DEF Accepted
  <2>2. reply' = r /\ mode' = "done" /\ backing' = {voice} /\ left' = left
        /\ last_error' = last_error
    BY <1>8
  <2>3. ModeOK'
    BY <1>2, <2>2 DEF IInv, ModeOK
  <2>4. SteadyOK'
    BY <1>2, <1>3, <2>1, <2>2 DEF IInv, ModeOK, SteadyOK
  <2>5. voice \notin lying => SoAtSomeTime(r.value)'
    <3>1. ASSUME voice \notin lying
          PROVE  SoAtSomeTime(r.value)
      <4>1. chain \in since .. chain
        BY DEF IInv, Settled, Stage
      <4>. QED  BY <1>7, <2>1, <3>1, <4>1 DEF SoAtSomeTime
    <3>2. SoAtSomeTime(r.value) => SoAtSomeTime(r.value)'
      BY <1>1, <1>3, TimesAreKept DEF IInv, Settled, Stage
    <3>. QED  BY <3>1, <3>2
  <2>6. view = "trusted" => TrustedOnes # {} /\ i \in TrustedOnes
    BY <1>3 DEF IInv, ModeOK
  <2>7. ReplyOK'
    <3>1. IsFiniteSet({voice})
      BY FS_Singleton
    <3>. QED  BY <1>2, <2>2, <2>5, <2>6, <3>1 DEF ReplyOK
  <2>. QED  BY <1>1, <1>4, <2>3, <2>4, <2>7 DEF IInv
<1>9. CASE ~ Accepted(r)
  <2>1. /\ last_error' = Failure(r) /\ left' = left \ {i}
        /\ reply' = reply /\ mode' = mode /\ backing' = backing
    BY <1>9 DEF LeftAfter
  <2>2. ~ Failure(r).ok
    BY DEF Failure, Err
  <2>3. ModeOK'
    BY <1>2, <2>1, <2>2 DEF IInv, ModeOK
  <2>4. ~ (VoicesOf(i) \subseteq steady)
    BY <1>7, <1>9 DEF Accepted
  <2>5. SteadyOK'
    BY <1>2, <1>3, <2>1, <2>4 DEF IInv, SteadyOK
  <2>6. ReplyOK'
    BY <1>3, <2>1 DEF ReplyOK
  <2>. QED  BY <1>1, <1>4, <2>3, <2>5, <2>6 DEF IInv
<1>. QED  BY <1>8, <1>9

LEMMA AllFailedKeepsInvariant ==
  ASSUME IInv, AllFailed
  PROVE  IInv'
<1>1. Settled' /\ settingVars' = settingVars
  BY NextKeepsSettled DEF Next
<1>2. /\ view' = view /\ Registered' = Registered /\ TrustedOnes' = TrustedOnes
      /\ \A i : VoicesOf(i)' = VoicesOf(i) /\ steady' = steady
  BY <1>1, SettingsStay
<1>3. /\ mode \in {"custody", "discovery"} /\ left = {} /\ left' = left
      /\ reply' = last_error /\ mode' = "done" /\ per_group' = per_group
      /\ last_error' = last_error /\ since' = since /\ chain' = chain
  BY DEF AllFailed
<1>4. ModeOK'
  BY <1>2, <1>3 DEF IInv, ModeOK
<1>5. ContributionsOK'
  BY <1>1, <1>3, ContributionsAreKept DEF IInv, ContributionsOK, Settled, Stage
<1>6. SteadyOK'
  BY <1>2, <1>3 DEF IInv, ModeOK, SteadyOK
<1>7. ReplyOK'
  BY <1>3 DEF IInv, ModeOK, ReplyOK
<1>. QED  BY <1>1, <1>4, <1>5, <1>6, <1>7 DEF IInv

LEMMA AskGroupKeepsInvariant ==
  ASSUME IInv, AskGroup
  PROVE  IInv'
<1>1. Settled' /\ settingVars' = settingVars
  BY NextKeepsSettled DEF Next
<1>2. /\ view' = view /\ Registered' = Registered /\ TrustedOnes' = TrustedOnes
      /\ \A i : VoicesOf(i)' = VoicesOf(i)
      /\ providers' = providers /\ lying' = lying /\ query' = query
  BY <1>1, SettingsStay
<1>3. /\ mode = "quorum" /\ mode' = "quorum" /\ last_error' = last_error /\ reply' = reply
      /\ since' = since /\ chain' = chain /\ left' \subseteq left
  BY DEF AskGroup
<1>4. ModeOK'
  BY <1>2, <1>3 DEF IInv, ModeOK
<1>5. SteadyOK' /\ ReplyOK'
  BY <1>3 DEF SteadyOK, ReplyOK
<1>6. PICK i \in left : \E a \in Answers(i) :
          per_group' = IF Counts(i, a.result)
                       THEN Append(per_group, [group |-> providers[i].group,
                                               value |-> a.result.value, voice |-> a.voice])
                       ELSE per_group
  BY DEF AskGroup
<1>7. PICK voice \in VoicesOf(i) : \E r \in Results(i, voice) :
          per_group' = IF Counts(i, r)
                       THEN Append(per_group, [group |-> providers[i].group,
                                               value |-> r.value, voice |-> voice])
                       ELSE per_group
  BY <1>6 DEF Answers
<1>. PICK r \in Results(i, voice) :
          per_group' = IF Counts(i, r)
                       THEN Append(per_group, [group |-> providers[i].group,
                                               value |-> r.value, voice |-> voice])
                       ELSE per_group
  BY <1>7
<1>8. CASE ~ Counts(i, r)
  <2>1. per_group' = per_group
    BY <1>8
  <2>2. ContributionsOK'
    BY <1>1, <1>3, <2>1, ContributionsAreKept DEF IInv, Settled, Stage
  <2>. QED  BY <1>1, <1>4, <1>5, <2>2 DEF IInv
<1>9. CASE Counts(i, r)
  <2>. DEFINE new == [group |-> providers[i].group, value |-> r.value, voice |-> voice]
  <2>. PICK n : n = Len(per_group)
    OBVIOUS
  <2>1. per_group' = Append(per_group, new)
    BY <1>9
  <2>2. r.ok /\ ~ Contributed(providers[i].group)
    BY <1>9 DEF Counts
  <2>3. /\ n \in Nat /\ DOMAIN per_group = 1 .. n /\ DOMAIN per_group' = 1 .. n + 1
        /\ \A k \in 1 .. n : per_group'[k] = per_group[k]
        /\ per_group'[n + 1] = new
        /\ IsSequence(per_group)'
    <3>1. IsSequence(per_group)
      BY DEF IInv, ContributionsOK
    <3>2. IsSequence(per_group)' <=> IsSequence(per_group')
      BY DEF IsSequence
    <3>. QED  BY <2>1, <3>1, <3>2, AppendedSequences
  <2>4. \A value : SoAtSomeTime(value) => SoAtSomeTime(value)'
    BY <1>1, <1>3, TimesAreKept DEF IInv, Settled, Stage
  <2>5. \A k \in 1 .. n : ContributionOK(k)'
    BY <1>2, <2>3, <2>4 DEF IInv, ContributionsOK, ContributionOK
  <2>6. ContributionOK(n + 1)'
    <3>1. /\ voice \notin lying => r.value \in TrueAt(chain)
          /\ query = "coin_records" => IsList(r.value)
      BY <2>2, AnswersOfASource DEF IInv, Settled
    <3>2. chain \in since .. chain
      BY DEF IInv, Settled, Stage
    <3>3. voice \notin lying => SoAtSomeTime(r.value)'
      BY <2>4, <3>1, <3>2 DEF SoAtSomeTime
    <3>4. i \in Registered
      BY DEF IInv, ModeOK
    <3>. QED  BY <1>2, <2>3, <3>1, <3>3, <3>4 DEF ContributionOK
  <2>7. \A k \in 1 .. n : per_group[k].group # providers[i].group
    BY <2>2, <2>3 DEF Contributed
  <2>8. \A j, k \in 1 .. n : per_group[j].group = per_group[k].group => j = k
    BY <2>3 DEF IInv, ContributionsOK
  <2>9. \A j, k \in 1 .. n + 1 : per_group'[j].group = per_group'[k].group => j = k
    <3>1. \A k \in 1 .. n + 1 : k \in 1 .. n \/ k = n + 1
      BY <2>3
    <3>2. per_group'[n + 1].group = providers[i].group
      BY <2>3
    <3>3. \A k \in 1 .. n : per_group'[k].group = per_group[k].group
      BY <2>3
    <3>. QED  BY <2>7, <2>8, <3>1, <3>2, <3>3
  <2>10. \A k \in 1 .. n + 1 : ContributionOK(k)'
    BY <2>3, <2>5, <2>6
  <2>11. ContributionsOK'
    BY <1>3, <2>3, <2>9, <2>10 DEF ContributionsOK
  <2>. QED  BY <1>1, <1>4, <1>5, <2>11 DEF IInv
<1>. QED  BY <1>8, <1>9

\* Contributions that differ have voices that differ.
LEMMA ContributorsHaveTheirOwnVoice ==
  ASSUME IInv, NEW j \in DOMAIN per_group, NEW k \in DOMAIN per_group,
         per_group[j].voice = per_group[k].voice
  PROVE  j = k
<1>1. ContributionOK(j) /\ ContributionOK(k)
  BY DEF IInv, ContributionsOK
<1>2. PICK a \in Registered : /\ per_group[j].group = providers[a].group
                              /\ per_group[j].voice \in VoicesOf(a)
  BY <1>1 DEF ContributionOK
<1>3. PICK b \in Registered : /\ per_group[k].group = providers[b].group
                              /\ per_group[k].voice \in VoicesOf(b)
  BY <1>1 DEF ContributionOK
<1>4. providers[a].group = providers[b].group
  BY <1>2, <1>3, OneGroupForAVoice DEF IInv, Settled
<1>. QED  BY <1>2, <1>3, <1>4 DEF IInv, ContributionsOK

\* Two groups that agree have two voices.
LEMMA AQuorumHasTwoVoices ==
  ASSUME IInv, NEW k \in DOMAIN per_group, Qualifies(k)
  PROVE  LET voices == {per_group[j].voice : j \in Agreeing(per_group[k].value)}
         IN  IsFiniteSet(voices) /\ \E v, w \in voices : v # w
<1>. DEFINE A == Agreeing(per_group[k].value)
            voices == {per_group[j].voice : j \in A}
<1>1. IsFiniteSet(A) /\ A \subseteq DOMAIN per_group
  <2>1. IsSequence(per_group)
    BY DEF IInv, ContributionsOK
  <2>2. DOMAIN per_group = 1 .. Len(per_group) /\ Len(per_group) \in Nat
    BY <2>1 DEF IsSequence
  <2>3. IsFiniteSet(1 .. Len(per_group))
    BY <2>2, FS_Interval
  <2>4. A \subseteq 1 .. Len(per_group)
    BY <2>2 DEF Agreeing
  <2>. QED  BY <2>2, <2>3, <2>4, FS_Subset
<1>2. Cardinality(A) \in Nat /\ Cardinality(A) >= 2
  BY <1>1, FS_CardinalityType, RegistryAssumption DEF Qualifies
<1>3. \E i, j \in A : i # j
  <2>1. A # {}
    BY <1>2, FS_EmptySet
  <2>2. PICK i \in A : TRUE
    BY <2>1
  <2>3. A # {i}
    BY <1>2, FS_Singleton
  <2>. QED  BY <2>2, <2>3
<1>4. PICK i \in A, j \in A : i # j
  BY <1>3
<1>5. per_group[i].voice # per_group[j].voice
  BY <1>1, <1>4, ContributorsHaveTheirOwnVoice
<1>6. IsFiniteSet(voices)
  <2>. DEFINE f == [m \in A |-> per_group[m].voice]
  <2>1. f \in Surjection(A, voices)
    BY DEF Surjection
  <2>. HIDE DEF f, A, voices
  <2>. QED  BY <1>1, <2>1, FS_Surjection
<1>. QED  BY <1>4, <1>5, <1>6

LEMMA TallyKeepsInvariant ==
  ASSUME IInv, Tally
  PROVE  IInv'
<1>1. Settled' /\ settingVars' = settingVars
  BY NextKeepsSettled DEF Next
<1>2. /\ view' = view /\ Registered' = Registered /\ TrustedOnes' = TrustedOnes
      /\ \A i : VoicesOf(i)' = VoicesOf(i) /\ lying' = lying
  BY <1>1, SettingsStay
<1>3. /\ mode = "quorum" /\ mode' = "done" /\ per_group' = per_group /\ left' = left
      /\ last_error' = last_error /\ since' = since /\ chain' = chain
      /\ view = "trusted" /\ TrustedOnes = {}
  BY DEF Tally, IInv, ModeOK
<1>4. ModeOK'
  BY <1>2, <1>3 DEF IInv, ModeOK
<1>5. ContributionsOK'
  BY <1>1, <1>3, ContributionsAreKept DEF IInv, Settled, Stage
<1>6. SteadyOK'
  BY <1>2, <1>3 DEF SteadyOK
<1>7. CASE reply'.ok
  <2>1. PICK k \in DOMAIN per_group :
           /\ Qualifies(k)
           /\ reply' = Ok(per_group[k].value)
           /\ backing' = {per_group[j].voice : j \in Agreeing(per_group[k].value)}
    BY <1>7 DEF Tally, Err
  <2>2. IsFiniteSet(backing') /\ \E v, w \in backing' : v # w
    BY <2>1, AQuorumHasTwoVoices
  <2>3. reply'.value = per_group[k].value
    BY <2>1 DEF Ok
  <2>4. ASSUME NEW voice \in backing', voice \notin lying
        PROVE  SoAtSomeTime(per_group[k].value)
    <3>1. PICK j \in Agreeing(per_group[k].value) : voice = per_group[j].voice
      BY <2>1
    <3>2. j \in DOMAIN per_group /\ QuorumEq(per_group[j].value, per_group[k].value)
      BY DEF Agreeing
    <3>3. ContributionOK(j) /\ ContributionOK(k)
      BY <3>2 DEF IInv, ContributionsOK
    <3>4. PICK stage \in since .. chain : per_group[j].value \in TrueAt(stage)
      BY <2>4, <3>1, <3>3 DEF ContributionOK, SoAtSomeTime
    <3>5. stage \in Stage
      BY DEF IInv, Settled, Stage
    <3>6. query = "coin_records" => IsList(per_group[k].value)
      BY <3>3 DEF ContributionOK
    <3>7. per_group[k].value \in TrueAt(stage)
      BY <3>2, <3>4, <3>5, <3>6, TruthHasNoOrder DEF IInv, Settled
    <3>. QED  BY <3>7 DEF SoAtSomeTime
  <2>5. SoAtSomeTime(per_group[k].value) => SoAtSomeTime(per_group[k].value)'
    BY <1>1, <1>3, TimesAreKept DEF IInv, Settled, Stage
  <2>6. SoAtSomeTime(per_group[k].value)' => SoAtSomeTime(reply.value)'
    BY <1>3, <2>3 DEF SoAtSomeTime
  <2>7. ReplyOK'
    BY <1>2, <1>3, <2>2, <2>4, <2>5, <2>6 DEF ReplyOK
  <2>. QED  BY <1>1, <1>4, <1>5, <1>6, <2>7 DEF IInv
<1>8. CASE ~ reply'.ok
  <2>1. ReplyOK'
    BY <1>8 DEF ReplyOK
  <2>. QED  BY <1>1, <1>4, <1>5, <1>6, <2>1 DEF IInv
<1>. QED  BY <1>7, <1>8

LEMMA NothingKeepsInvariant ==
  ASSUME IInv, UNCHANGED vars
  PROVE  IInv'
<1>1. Settled' /\ settingVars' = settingVars
  BY NextKeepsSettled
<1>2. /\ mode' = mode /\ left' = left /\ per_group' = per_group /\ last_error' = last_error
      /\ reply' = reply /\ backing' = backing /\ since' = since /\ chain' = chain
  BY DEF vars
<1>3. /\ view' = view /\ Registered' = Registered /\ TrustedOnes' = TrustedOnes
      /\ \A i : VoicesOf(i)' = VoicesOf(i) /\ lying' = lying
      /\ steady' = steady /\ \A value : WithinBound(value)' <=> WithinBound(value)
  BY <1>1, SettingsStay
<1>4. ModeOK'
  BY <1>2, <1>3 DEF IInv, ModeOK
<1>5. ContributionsOK'
  BY <1>1, <1>2, ContributionsAreKept DEF IInv, ContributionsOK, Settled, Stage
<1>6. \A c : TrueAt(c)' = TrueAt(c)
  BY <1>1, SettingsStay
<1>7. SteadyOK' /\ ReplyOK'
  BY <1>2, <1>3, <1>6 DEF IInv, SteadyOK, ReplyOK, SoAtSomeTime
<1>. QED  BY <1>1, <1>4, <1>5, <1>7 DEF IInv

\* The invariant of a read, of the registry's two views.
THEOREM ReadInvariance == Spec => []IInv
<1>1. Init => IInv
  BY ReadsBegin
<1>2. ASSUME IInv, [Next]_vars
      PROVE  IInv'
  BY <1>2, ChainKeepsInvariant, BeginKeepsInvariant, AskNextKeepsInvariant,
     AllFailedKeepsInvariant, AskGroupKeepsInvariant, TallyKeepsInvariant,
     NothingKeepsInvariant DEF Next, Done
<1>. QED  BY <1>1, <1>2, PTL DEF Spec

-----------------------------------------------------------------------------
(* What a caller may rely on.                                               *)

\* No failed request, error envelope, field that does not parse or panic becomes
\* an answer: with every voice honest an answer was so while it was read.
THEOREM HonestReadsAreTrue == Spec => []HonestAnswersAreTrue
<1>1. IInv => HonestAnswersAreTrue
  BY DEF IInv, ModeOK, ReplyOK, HonestAnswersAreTrue, IsTrue, SoAtSomeTime
<1>. QED  BY <1>1, ReadInvariance, PTL

\* The groups of independence_group_for keep two contributions from having one
\* voice, so that a quorum_read that was never so has two that lie.
THEOREM QuorumsHaveTwoVoices == Spec => []FalseCustodyNeedsTwoVoices
<1>1. ASSUME IInv, mode = "done", view = "trusted", TrustedOnes = {}, reply.ok, ~ IsTrue
      PROVE  Cardinality(backing \cap lying) >= 2
  <2>1. /\ IsFiniteSet(backing) /\ \E v, w \in backing : v # w
        /\ (\E voice \in backing : voice \notin lying) => SoAtSomeTime(reply.value)
    BY <1>1 DEF IInv, ReplyOK
  <2>2. \A voice \in backing : voice \in lying
    BY <1>1, <2>1 DEF IsTrue, SoAtSomeTime
  <2>3. PICK v \in backing, w \in backing : v # w
    BY <2>1
  <2>4. IsFiniteSet({v}) /\ Cardinality({v}) = 1
    BY FS_Singleton
  <2>5. IsFiniteSet({v} \cup {w}) /\ Cardinality({v} \cup {w}) = 2
    BY <2>3, <2>4, FS_AddElement
  <2>6. IsFiniteSet(backing \cap lying) /\ {v} \cup {w} \subseteq backing \cap lying
    BY <2>1, <2>2, FS_Subset
  <2>7. Cardinality(backing \cap lying) \in Nat /\ 2 <= Cardinality(backing \cap lying)
    BY <2>5, <2>6, FS_Subset, FS_CardinalityType
  <2>. QED  BY <2>7
<1>2. IInv => FalseCustodyNeedsTwoVoices
  BY <1>1 DEF FalseCustodyNeedsTwoVoices
<1>. QED  BY <1>2, ReadInvariance, PTL

\* custody_read asks the trusted sources, and when all have failed it fails.
THEOREM CustodyIsTrusted == Spec => []CustodyNeverDegrades
<1>1. IInv => CustodyNeverDegrades
  BY DEF IInv, ReplyOK, CustodyNeverDegrades
<1>. QED  BY <1>1, ReadInvariance, PTL

\* discovery_read goes on past what fails and what is too long, and asks every
\* source before it gives up.
THEOREM SteadySourcesAreHeard == Spec => []SteadySourceIsHeard
<1>1. IInv => SteadySourceIsHeard
  BY DEF IInv, SteadyOK, SteadySourceIsHeard
<1>. QED  BY <1>1, ReadInvariance, PTL
=============================================================================
