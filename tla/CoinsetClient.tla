---------------------------- MODULE CoinsetClient ----------------------------
(***************************************************************************)
(* The coinset.org client: what one HTTP exchange becomes                  *)
(* (src/coinset/transport.rs and src/coinset/mod.rs).  There is no state:  *)
(* a response goes in, an answer or an error comes out.                    *)
(*                                                                         *)
(* A response is what arrives, in the order the client looks at it: the    *)
(* length the server advertises, the chunks of the body, whether the       *)
(* stream broke off, and, when the body is JSON, its `success` flag and    *)
(* the state of every field.  Only the fields a call reads are told apart: *)
(* `field` is the one the answer is taken from, `second` the other of a    *)
(* call that takes two.                                                    *)
(***************************************************************************)
EXTENDS Naturals, Sequences

CONSTANTS
    MaxResponseBytes,           \* MAX_RESPONSE_BYTES
    MaxUsize                    \* the largest usize

\* A cap at the largest usize would let a total pass that has stopped counting.
ASSUME ClientAssumption ==
    /\ MaxUsize \in Nat /\ MaxResponseBytes \in Nat \ {0}
    /\ MaxResponseBytes < MaxUsize

\* An answer, of an optional value a set of at most one; or an error.
Ok(v) == [ok |-> TRUE, value |-> v]
Err(e) == [ok |-> FALSE, error |-> e]

-----------------------------------------------------------------------------
(* The transport.                                                           *)

ContentLengthWithinCap(length) == \A n \in length : n <= MaxResponseBytes

\* Mutant: the running total wraps.
WrappingAdd(a, b) == (a + b) % (MaxUsize + 1)

SaturatingAdd(a, b) == IF a + b > MaxUsize THEN MaxUsize ELSE a + b

WithinCap(total) == total <= MaxResponseBytes

\* The chunks of a body are taken in one by one, each within the cap with those
\* before it.
AccumulateWithinCap(chunks) ==
    \E total \in [0 .. Len(chunks) -> 0 .. MaxUsize] :
        /\ total[0] = 0
        /\ \A k \in 1 .. Len(chunks) :
              /\ total[k] = SaturatingAdd(total[k - 1], chunks[k])
              /\ WithinCap(total[k])

\* post_json: the body of a response, if it was received whole and is JSON.
Received(r) ==
    /\ r.sent
    /\ ContentLengthWithinCap(r.length)
    /\ AccumulateWithinCap(r.chunks)
    /\ ~ r.broken
    /\ r.json

-----------------------------------------------------------------------------
(* The envelope and its fields.                                             *)

\* Mutant: an error envelope is read like any other.
AnyEnvelope(r) == TRUE

Successful(r) == r.success = "true"

\* post_raw: the envelope, whatever it says.
PostRaw(r) == IF Received(r) THEN Ok(r) ELSE Err("http")

\* post: a successful envelope.
Post(r) == IF PostRaw(r).ok /\ ~ Successful(r) THEN Err("api") ELSE PostRaw(r)

Parsed(field) == IF field.is = "value" THEN Ok(field.value) ELSE Err("api")

\* post_extract: the field must be there and parse.
PostExtract(r) == IF Post(r).ok THEN Parsed(r.field) ELSE Post(r)

\* Mutant: what does not parse is taken for absent.
UnparsedIsAbsent(field) == IF field.is = "value" THEN Ok({field.value}) ELSE Ok({})

\* Absence is a null or a missing field, never one that does not parse.
OptionalField(field) ==
    IF field.is \in {"null", "missing"} THEN Ok({})
    ELSE IF field.is = "value" THEN Ok({field.value})
    ELSE Err("api")

\* post_extract_opt
PostExtractOpt(r) == IF Post(r).ok THEN OptionalField(r.field) ELSE Post(r)

-----------------------------------------------------------------------------
(* The endpoints, by how they read the envelope.                            *)

\* get_additions_and_removals: both lists, or an error.
AdditionsAndRemovals(r) ==
    IF Post(r).ok /\ Parsed(r.field).ok /\ ~ Parsed(r.second).ok THEN Parsed(r.second)
                                                               ELSE PostExtract(r)

BlocksEndpoint(name, r) ==
    CASE name = "get_additions_and_removals" -> AdditionsAndRemovals(r)
      [] name = "get_block_record_by_height_opt" -> PostExtractOpt(r)
      [] OTHER -> PostExtract(r)

\* Of the coins' endpoints two say that there is none, for a null or a missing
\* field; the rest, lists among them, must have theirs.
CoinsEndpoint(name, r) ==
    IF name \in {"get_coin_record_by_name_opt", "get_puzzle_and_solution_opt"}
    THEN PostExtractOpt(r) ELSE PostExtract(r)

\* A response whose body is JSON and arrived whole.
Envelope(success, field) ==
    [sent |-> TRUE, length |-> {}, chunks |-> <<1>>, broken |-> FALSE, json |-> TRUE,
     success |-> success, field |-> field, second |-> [is |-> "missing"]]

Value(v) == [is |-> "value", value |-> v]
=============================================================================
