---------------------------- MODULE ClientReads ----------------------------
(***************************************************************************)
(* The reads of src/router.rs that no second source corroborates: blocks   *)
(* by hash, by height and by range, what only coinset.org can answer, and  *)
(* the children of several parents, one corroborated round for each.       *)
(*                                                                         *)
(* The peer protocol knows blocks by height, coinset.org by hash: each is  *)
(* turned into the other at one moment and used at a later one, and the    *)
(* chain may have reorganised in between.  Every step finds the pool as    *)
(* other calls have left it, so any peer may be picked and none may be     *)
(* held.                                                                   *)
(***************************************************************************)
EXTENDS CoinsetClient, FiniteSets

CONSTANTS
    Address,
    Faulty,             \* addresses of peers that may answer anything
    MaxHeight,          \* bound: the heights of the chain
    Branch,             \* what tells two blocks of one height apart
    Parent,
    BornOf,             \* the heights the children of each parent were created at
    MaxU32              \* u32::MAX

Height == 1 .. MaxHeight

VARIABLES
    fallback_enabled,   \* QueryRouter.coinset_fallback_enabled
    coinset_lies,       \* may coinset.org answer anything?
    chain,              \* the branch of the block at each height
    call,               \* the read: its kind, and what it asks for
    leg,                \* "resolve", "peer", "coinset", "by_hash", "rounds", "done"
    attempts,           \* the attempts on the peer tier that have failed
    wanted,             \* the heights to ask peers for, in order
    asked,              \* the peer asked for the next of them, if any
    got,                \* the blocks an attempt has gathered
    items,              \* the children the rounds have found
    left,               \* the parents whose children are still to be read
    as_of_height,       \* the lowest height of the rounds so far
    reply,              \* "none", "ok" (with `got`) or an error
    exchanges,          \* history: the exchanges with coinset.org
    honest,             \* history: was every source heard a reliable one?
    was                 \* history: the blocks that have been on the chain

world == <<fallback_enabled, coinset_lies, chain>>
round == <<items, left, as_of_height>>
progress == <<call, leg, attempts, wanted, asked, got, round, reply>>
vars == <<world, progress, exchanges, honest, was>>

Block == [height : Height, branch : Branch]
At(h) == [height |-> h, branch |-> chain[h]]

Call ==
    [kind : {"hash"}, endpoint : {"get_block", "get_additions_and_removals"}, block : Block] \cup [kind : {"height"}, start : Height]
    \cup [kind : {"range"}, start : Height, end : Height]
    \cup [kind : {"coinset"}] \cup [kind : {"parents"}, ids : SUBSET Parent]

Running == reply = "none"
Done(word) == leg' = "done" /\ reply' = word

-----------------------------------------------------------------------------
(* What the call starts with.                                               *)

\* Mutant: a range has its end.
HeightsThrough(start, end) == [i \in 1 .. end - start + 1 |-> start + i - 1]

HeightsOf(start, end) == [i \in 1 .. end - start |-> start + i - 1]

FirstLeg(c) ==
    CASE c.kind = "hash" -> "resolve"
      [] c.kind \in {"height", "range"} -> "peer"
      [] c.kind = "coinset" -> "coinset"
      [] c.kind = "parents" -> "rounds"

Init ==
    /\ fallback_enabled \in BOOLEAN /\ coinset_lies \in BOOLEAN
    /\ chain \in [Height -> Branch]
    /\ call \in {c \in Call : c.kind = "range" => c.start <= c.end}
    /\ leg = FirstLeg(call)
    /\ attempts = 0 /\ asked = {} /\ got = <<>> /\ items = {}
    /\ wanted = CASE call.kind = "height" -> <<call.start>>
                  [] call.kind = "range" -> HeightsOf(call.start, call.end)
                  [] OTHER -> <<>>
    /\ left = IF call.kind = "parents" THEN call.ids ELSE {}
    /\ as_of_height = MaxU32
    /\ reply = "none" /\ exchanges = 0 /\ honest = TRUE
    /\ was = {At(h) : h \in Height}

\* A reorganisation replaces every block from some height on.
Reorg ==
    /\ Running
    /\ \E from \in Height, branch \in Branch :
          chain' = [h \in Height |-> IF h < from THEN chain[h] ELSE branch]
    /\ was' = was \cup {[height |-> h, branch |-> chain'[h]] : h \in Height}
    /\ UNCHANGED <<fallback_enabled, coinset_lies, progress, exchanges, honest>>

-----------------------------------------------------------------------------
(* The coinset tier.                                                        *)

\* Mutant: the switch is not looked at.
AlwaysAllowed == TRUE

RequireCoinset == fallback_enabled

\* The envelopes that may arrive with one of these values for a field, and
\* what may be in the other field.
Envelopes(values) ==
    {Envelope("true", Value(v)) : v \in values}
    \cup {Envelope("false", [is |-> "missing"]), Envelope("true", [is |-> "malformed"])}
Seconds == {Value("removals"), [is |-> "missing"]}

\* An exchange about what is so, or about anything there might be.
CoinsetReplies(endpoint, fact, all) ==
    {BlocksEndpoint(endpoint, [e EXCEPT !.second = s]) :
        e \in Envelopes(IF coinset_lies THEN all ELSE {fact}), s \in Seconds}

Exchange == exchanges' = exchanges + 1 /\ honest' = (honest /\ ~ coinset_lies)

\* The record of the named block tells its height; any failure leaves the
\* peers out.
Resolve ==
    /\ leg = "resolve"
    /\ IF RequireCoinset
       THEN /\ Exchange
            /\ \E r \in CoinsetReplies("get_block_record", call.block.height, Height) :
                  IF r.ok THEN leg' = "peer" /\ wanted' = <<r.value>>
                          ELSE leg' = "coinset" /\ UNCHANGED wanted
       ELSE leg' = "coinset" /\ UNCHANGED <<wanted, exchanges, honest>>
    /\ UNCHANGED <<world, call, attempts, asked, got, round, reply, was>>

Unsupported ==
    /\ leg = "coinset" /\ ~ RequireCoinset
    /\ Done("unsupported")
    /\ UNCHANGED <<world, call, attempts, wanted, asked, got, round, exchanges, honest, was>>

\* What one exchange answers, as the blocks of the reply.
Endpoint == IF call.kind = "hash" THEN call.endpoint ELSE "get_blocks"
Asked ==
    CASE call.kind = "hash" -> <<call.block>>
      [] call.kind = "range" -> [i \in 1 .. Len(wanted) |-> At(wanted[i])]
      [] OTHER -> <<>>
Anything == UNION {[1 .. Len(Asked) -> Block], {Asked}}

AskCoinset ==
    /\ leg = "coinset" /\ RequireCoinset /\ call.kind # "height"
    /\ Exchange
    /\ \E r \in CoinsetReplies(Endpoint, Asked, Anything) :
          IF r.ok THEN Done("ok") /\ got' = r.value ELSE Done("error") /\ UNCHANGED got
    /\ UNCHANGED <<world, call, attempts, wanted, asked, round, was>>

\* coinset.org has no blocks by height: the record's hash is asked for next.
AskForHash ==
    /\ leg = "coinset" /\ RequireCoinset /\ call.kind = "height"
    /\ Exchange
    /\ \E r \in CoinsetReplies("get_block_record_by_height", At(call.start), Block) :
          IF r.ok THEN leg' = "by_hash" /\ got' = <<r.value>> /\ UNCHANGED reply
                  ELSE Done("error") /\ UNCHANGED got
    /\ UNCHANGED <<world, call, attempts, wanted, asked, round, was>>

AskByHash ==
    /\ leg = "by_hash"
    /\ Exchange
    /\ \E r \in CoinsetReplies("get_block", got[1], Block) :
          IF r.ok THEN Done("ok") /\ got' = <<r.value>> ELSE Done("error") /\ UNCHANGED got
    /\ UNCHANGED <<world, call, attempts, wanted, asked, round, was>>

-----------------------------------------------------------------------------
(* The peer tier: an attempt asks for each height in turn, of a peer picked *)
(* anew, and fails with the first of them.  A failing peer is ejected.      *)

NextHeight == wanted[Len(got) + 1]

Pick(a) ==
    /\ leg = "peer" /\ asked = {} /\ Len(got) < Len(wanted)
    /\ asked' = {a}
    /\ UNCHANGED <<world, call, leg, attempts, wanted, got, round, reply, exchanges, honest, was>>

PeerAnswers ==
    /\ \E a \in asked : \E block \in IF a \in Faulty THEN Block ELSE {At(NextHeight)} :
          /\ got' = Append(got, block)
          /\ honest' = (honest /\ a \notin Faulty)
    /\ asked' = {}
    /\ UNCHANGED <<world, call, leg, attempts, wanted, round, reply, exchanges, was>>

\* Mutant: coinset.org is asked as soon as a peer fails.
OneAttempt == 1

Attempts == IF call.kind = "hash" THEN 1 ELSE 2

\* No peer is held, or the one picked fails.
AttemptFails ==
    /\ leg = "peer" /\ Len(got) < Len(wanted)
    /\ attempts' = attempts + 1
    /\ got' = <<>> /\ asked' = {}
    /\ CASE attempts' < Attempts -> UNCHANGED <<leg, reply>>
         [] attempts' >= Attempts /\ (fallback_enabled \/ call.kind = "hash") ->
                leg' = "coinset" /\ UNCHANGED reply
         [] OTHER -> Done("error")
    /\ UNCHANGED <<world, call, wanted, round, exchanges, honest, was>>

Gathered ==
    /\ leg = "peer" /\ Len(got) = Len(wanted)
    /\ Done("ok")
    /\ UNCHANGED <<world, call, attempts, wanted, asked, got, round, exchanges, honest, was>>

-----------------------------------------------------------------------------
(* get_coin_records_by_parent_ids_graded: a set is read for each parent, to *)
(* which SetRouter answers what was so at the height it names, or errs.     *)

\* Mutant: the answer is dated by the freshest round.
Freshest(h) == IF as_of_height = MaxU32 \/ h > as_of_height THEN h ELSE as_of_height

Lowest(h) == IF h < as_of_height THEN h ELSE as_of_height

ReadChildren(parent, h) ==
    /\ leg = "rounds" /\ parent \in left
    /\ left' = left \ {parent}
    /\ as_of_height' = Lowest(h)
    /\ items' = items \cup {[parent |-> parent, born |-> b] : b \in {c \in BornOf[parent] : c <= h}}
    /\ UNCHANGED <<world, call, leg, attempts, wanted, asked, got, reply, exchanges, honest, was>>

RoundFails ==
    /\ leg = "rounds" /\ left # {}
    /\ Done("error")
    /\ UNCHANGED <<world, call, attempts, wanted, asked, got, round, exchanges, honest, was>>

\* No parents, no round to be dated by.
Combine ==
    /\ leg = "rounds" /\ left = {}
    /\ Done("ok")
    /\ as_of_height' = IF call.ids = {} THEN 0 ELSE as_of_height
    /\ UNCHANGED <<world, call, attempts, wanted, asked, got, items, left, exchanges, honest, was>>

-----------------------------------------------------------------------------
CoinsetTier == Resolve \/ Unsupported \/ AskCoinset \/ AskForHash \/ AskByHash
PeerTier == (\E a \in Address : Pick(a)) \/ PeerAnswers \/ AttemptFails \/ Gathered
Rounds ==
    \/ \E parent \in left, h \in Height : ReadChildren(parent, h)
    \/ RoundFails \/ Combine

ReadStep == CoinsetTier \/ PeerTier \/ Rounds

Next == Reorg \/ ReadStep

Spec == Init /\ [][Next]_vars

-----------------------------------------------------------------------------
(* Properties.                                                              *)

Answered(kind) == reply = "ok" /\ call.kind = kind

\* Over reliable sources, a block asked for by height is one that was there
\* during the call, in a range each in its place whatever attempts failed
\* halfway; and a block asked for by hash is that very block or, since a peer is
\* asked by height, one that the chain held in its place at some moment.
BlocksAreTheOnesAskedFor ==
    honest =>
        /\ Answered("height") => got[1] \in was /\ got[1].height = call.start
        /\ Answered("range") =>
              /\ Len(got) = call.end - call.start
              /\ \A i \in DOMAIN got : got[i] \in was /\ got[i].height = call.start + i - 1
        /\ Answered("hash") =>
              /\ got[1] \in was \cup {call.block}
              /\ got[1].height = call.block.height

\* coinset.org is told of a call only if the operator allows it, and of one
\* that peers can answer by themselves only after two attempts have failed.
CoinsetIsTheLastResort ==
    exchanges > 0 =>
        /\ fallback_enabled
        /\ call.kind \in {"height", "range"} => attempts = 2

\* The children of several parents, read in rounds at heights of their own,
\* are complete at the one height they are reported with, and it is a height
\* that a round was read at.
ParentsAreCompleteAtTheirHeight ==
    Answered("parents") =>
        /\ as_of_height \in 0 .. MaxHeight
        /\ \A parent \in call.ids : \A b \in BornOf[parent] :
              b <= as_of_height => [parent |-> parent, born |-> b] \in items
=============================================================================
