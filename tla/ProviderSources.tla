--------------------------- MODULE ProviderSources ---------------------------
(***************************************************************************)
(* What a registered source answers to one read                            *)
(* (src/provider_registry/{coinset_source,chia_query_provider,bridge,      *)
(* convert,providers}.rs): the reply of the fabric behind it, converted to *)
(* the records of the interface, or an error.                              *)
(*                                                                         *)
(* A coin at one puzzle hash is unborn, then confirmed, then spent; a      *)
(* second one is confirmed when the first is spent.  `chain` is how far    *)
(* that has gone, a block for each stage.  The timestamp asked for is that *)
(* of the second block.                                                    *)
(***************************************************************************)
EXTENDS CoinsetClient, SequencesExt

CONSTANT MaxRecords             \* MAX_COIN_RECORDS and MAX_QUORUM_RECORDS

\* There are never more records than a list may hold.
ASSUME SourcesAssumption == MaxRecords \in Nat /\ MaxRecords >= 2

Stage == 0 .. 2
Query == {"coin_record", "coin_records", "coin_spend", "peak_height", "block_timestamp"}

-----------------------------------------------------------------------------
(* Conversions.                                                             *)

\* The flat record of this crate: heights and timestamp are 0 when not set.
Flat(coin, confirmed, spent, timestamp) ==
    [coin |-> coin, confirmed_block_index |-> confirmed, spent |-> spent > 0,
     spent_block_index |-> spent, timestamp |-> timestamp, hex |-> TRUE]

\* Mutant: 0 is a height.
AnyHeight(n) == {n}

NoneIfZero(n) == IF n = 0 THEN {} ELSE {n}

\* The interface's record.
CoinRecordFromChq(record) ==
    [coin |-> record.coin,
     confirmed_height |-> NoneIfZero(record.confirmed_block_index),
     spent_height |-> IF record.spent THEN {record.spent_block_index} ELSE {},
     timestamp |-> NoneIfZero(record.timestamp)]

\* One malformed record fails the list it is in.
ConvertAll(records) ==
    IF \A i \in DOMAIN records : records[i].hex
    THEN Ok([i \in DOMAIN records |-> CoinRecordFromChq(records[i])])
    ELSE Err("malformed")

ConvertSome(record) ==
    IF \A r \in record : r.hex THEN Ok({CoinRecordFromChq(r) : r \in record})
    ELSE Err("malformed")

\* Whatever fails behind the bridge is an error of the read, never an absence.
MapQueryError(result) == IF result.ok THEN result ELSE Err("transport")

AndThen(result, convert(_)) ==
    IF result.ok THEN convert(result.value) ELSE MapQueryError(result)

Cap(records) == IF Len(records) > MaxRecords THEN Err("too_many") ELSE ConvertAll(records)

-----------------------------------------------------------------------------
(* What the fabrics hold.  The peer tier's records carry no timestamp.      *)

FirstCoin(chain, timestamp) == Flat(1, 1, IF chain = 2 THEN 2 ELSE 0, timestamp)
CoinsHeld(chain, timestamp) ==
    [k \in 1 .. chain |-> IF k = 1 THEN FirstCoin(chain, timestamp) ELSE Flat(2, 2, 0, timestamp)]

\* A list promises no order.
Held(query, chain, timestamp) ==
    CASE query = "coin_record" ->
            {IF chain = 0 THEN {} ELSE {FirstCoin(chain, timestamp)}}
      [] query = "coin_records" ->
            {CoinsHeld(chain, timestamp), Reverse(CoinsHeld(chain, timestamp))}
      [] query = "coin_spend" -> {IF chain = 2 THEN {"spend"} ELSE {}}
      [] query = "peak_height" -> {{chain + 1}}
      [] query = "block_timestamp" -> {IF chain = 0 THEN {} ELSE {"stamped"}}

\* What a source that is not to be relied on may say instead: nothing, a
\* record that is not so, a list too long to be taken in.
Lies(query) ==
    CASE query = "coin_record" -> {{}, {Flat(1, 2, 0, 0)}, {Flat(1, 0, 0, 0)}}
      [] query = "coin_records" ->
            {<<>>, <<Flat(2, 1, 0, 0)>>, [i \in 1 .. MaxRecords + 1 |-> Flat(i, 1, 0, 0)]}
      [] query = "coin_spend" -> {{}, {"forged"}}
      [] query = "peak_height" -> {{}, {3}}
      [] query = "block_timestamp" -> {{}, {"backdated"}}

-----------------------------------------------------------------------------
(* CoinsetChainSource.                                                      *)

\* A value of an optional field, as the field states it.
FieldOf(value) == IF value = {} THEN [is |-> "null"] ELSE Value(CHOOSE v \in value : TRUE)

\* The live endpoint answers for a coin that is not spent with an error.
Envelopes(query, value) ==
    CASE query \in {"coin_records", "peak_height"} -> {Envelope("true", Value(value))}
      [] query = "coin_spend" /\ value = {} -> {Envelope("false", [is |-> "missing"])}
      [] OTHER -> {Envelope("true", FieldOf(value))}

Broken ==
    {[Envelope("true", [is |-> "null"]) EXCEPT !.sent = FALSE],
     [Envelope("true", [is |-> "null"]) EXCEPT !.length = {MaxResponseBytes + 1}],
     [Envelope("true", [is |-> "null"]) EXCEPT !.chunks = <<1, MaxUsize>>],
     [Envelope("true", [is |-> "null"]) EXCEPT !.broken = TRUE],
     Envelope("false", [is |-> "null"]),
     Envelope("missing", [is |-> "missing"])}

Malformed == {Envelope("true", [is |-> "malformed"])}

CoinsetSource(query, r) ==
    CASE query = "coin_record" ->
            AndThen(CoinsEndpoint("get_coin_record_by_name_opt", r), ConvertSome)
      [] query = "coin_records" ->
            AndThen(CoinsEndpoint("get_coin_records_by_puzzle_hash", r), Cap)
      [] query = "coin_spend" ->
            MapQueryError(CoinsEndpoint("get_puzzle_and_solution_opt", r))
      [] query = "peak_height" -> MapQueryError(PostExtract(r))
      [] query = "block_timestamp" ->
            MapQueryError(BlocksEndpoint("get_block_record_by_height_opt", r))

\* The replies of coinset.org, honest or not; an exchange may fail.
FromCoinset(query, chain, lies) ==
    LET values == Held(query, chain, 1) \cup (IF lies THEN Lies(query) ELSE {})
    IN  {CoinsetSource(query, r) :
            r \in Broken \cup Malformed \cup UNION {Envelopes(query, v) : v \in values}}

-----------------------------------------------------------------------------
(* ChiaQueryProvider: the graded reads of the router, bridged.              *)

\* run_blocking: a read driven from a current-thread runtime, or one that
\* panics, is an error.
Failures == {Err("transport")}
RunBlocking(results) == results \cup Failures

Bridged(query, value) ==
    CASE query = "coin_record" -> ConvertSome(value)
      [] query = "coin_records" -> ConvertAll(value)
      [] OTHER -> Ok(value)

FromRouter(query, values) ==
    RunBlocking({Bridged(query, v) : v \in values})

FromPeers(query, chain, lies) ==
    FromRouter(query, Held(query, chain, 0) \cup (IF lies THEN Lies(query) ELSE {}))

\* The router passes on what the coinset client makes of the exchange.
RelayedByRouter(query, chain, lies) ==
    FromRouter(query,
        {v \in Held(query, chain, 1) \cup (IF lies THEN Lies(query) ELSE {}) :
            ~ (query = "coin_spend" /\ v = {})})
=============================================================================
