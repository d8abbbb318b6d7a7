-------------------------- MODULE ProviderRegistry --------------------------
(***************************************************************************)
(* The provider registry (src/provider_registry/registry.rs): one read     *)
(* through its custody view or its discovery view, over sources that are   *)
(* asked one after the other while the chain moves on.                     *)
(*                                                                         *)
(* A source answers with a voice: coinset.org, the peers of its own pool,  *)
(* or the operator's node.  A voice in `lying` may say anything, the       *)
(* others say what is so when they are asked, or fail; one in `steady`     *)
(* does not fail.                                                          *)
(***************************************************************************)
EXTENDS ProviderSources

CONSTANTS
    Registries,                 \* bound: the registries to look at
    Threshold                   \* PUBLIC_QUORUM_THRESHOLD

VARIABLES
    providers,                  \* the registrations, in registration order
    allow_public_quorum_custody,
    lying, steady,              \* the voices not, and always, to be relied on
    chain,
    view, query,                \* the read
    mode,                       \* how it is answered, once it has begun
    left,                       \* the registrations still to be asked
    per_group,                  \* one answer of each group that has given one
    last_error,
    reply,
    backing,                    \* history: the voices behind the reply
    since                       \* history: the chain when the read began

settingVars == <<providers, allow_public_quorum_custody, lying, steady, view, query>>
vars == <<settingVars, chain, mode, left, per_group, last_error, reply, backing, since>>

-----------------------------------------------------------------------------
(* Registering a source.                                                    *)

\* Mutant: a router is placed with the peers it holds.
PeersWheneverHeld(fabric) == IF fabric = "coinset" THEN "coinset.org" ELSE "chia-peers"

CoinsetReachable(fabric) == fabric \in {"coinset", "router"}

\* independence_group_for
IndependenceGroupFor(fabric) ==
    IF CoinsetReachable(fabric) THEN "coinset.org" ELSE "chia-peers"

Fabrics == {"coinset", "router", "peers", "node"}

\* The wrapper a fabric is registered in labels it; it grants no trust.
KindOf(fabric) ==
    CASE fabric = "node" -> "LocalNode"
      [] fabric = "coinset" -> "PublicOracle"
      [] OTHER -> "Custom"

\* TrustLevel::default_for: only the operator's own node is trusted unasked.
DefaultTrust(kind) == IF kind = "LocalNode" THEN "Trusted" ELSE "Untrusted"

\* register: the trust is the operator's, or else the default of the kind.
Register(fabric, priority, override) ==
    [fabric |-> fabric, priority |-> priority,
     trust |-> IF override = {} THEN DefaultTrust(KindOf(fabric)) ELSE CHOOSE t \in override : TRUE,
     group |-> IF fabric = "node" THEN "local" ELSE IndependenceGroupFor(fabric)]

ASSUME RegistryAssumption ==
    /\ Threshold \in Nat /\ Threshold >= 2
    /\ \A registry \in Registries : \A i \in DOMAIN registry :
          \E fabric \in Fabrics, override \in SUBSET {"Trusted", "Untrusted"} :
              registry[i] = Register(fabric, registry[i].priority, override)

\* Whether i is asked before j: in registration order by a quorum; else by
\* priority (by_priority, a stable sort, lowest first).
Before(how, i, j) ==
    LET p == providers[i].priority
        q == providers[j].priority
    IN  IF how = "quorum" THEN i < j ELSE p < q \/ (p = q /\ i < j)

Trusted(i) == providers[i].trust = "Trusted"

-----------------------------------------------------------------------------
(* What a registered source answers, and whose voice it is.                 *)

Coinset == <<"coinset.org", 0>>
PoolOf(i) == <<"peers", i>>
OwnNode == <<"node", 0>>
VoicesOf(i) ==
    CASE providers[i].fabric = "coinset" -> {Coinset}
      [] providers[i].fabric = "router" -> {Coinset, PoolOf(i)}
      [] providers[i].fabric = "peers" -> {PoolOf(i)}
      [] providers[i].fabric = "node" -> {OwnNode}
Voices == UNION {VoicesOf(i) : i \in DOMAIN providers}

Results(i, voice) ==
    CASE voice \in steady -> FromPeers(query, chain, FALSE) \ Failures
      [] voice = Coinset /\ providers[i].fabric = "coinset" ->
            FromCoinset(query, chain, voice \in lying)
      [] voice = Coinset /\ providers[i].fabric = "router" ->
            RelayedByRouter(query, chain, voice \in lying)
      [] OTHER -> FromPeers(query, chain, voice \in lying)

Answers(i) ==
    UNION {{[result |-> r, voice |-> v] : r \in Results(i, v)} : v \in VoicesOf(i)}

-----------------------------------------------------------------------------
(* Comparing answers.                                                       *)

\* validate_bound: only a list can be too long.
WithinBound(value) == query = "coin_records" => Len(value) <= MaxRecords

\* quorum_eq over canonical_order, a stable sort by coin: the same records, those
\* of one coin in the same order.
SameRecords(a, b) ==
    \E place \in Bijection(DOMAIN a, DOMAIN b) :
        /\ \A i \in DOMAIN a : a[i] = b[place[i]]
        /\ \A i, j \in DOMAIN a : i < j /\ a[i].coin = a[j].coin => place[i] < place[j]

\* quorum_eq
QuorumEq(a, b) == IF query = "coin_records" THEN SameRecords(a, b) ELSE a = b

Contributed(group) == \E k \in DOMAIN per_group : per_group[k].group = group

Agreeing(candidate) ==
    {k \in DOMAIN per_group : QuorumEq(per_group[k].value, candidate)}

\* Mutant: any two answers do.
AnyTwo(k) == Len(per_group) >= Threshold

Qualifies(k) == Cardinality(Agreeing(per_group[k].value)) >= Threshold

-----------------------------------------------------------------------------
(* A read.                                                                  *)

None == Err("none")

Init ==
    /\ providers \in Registries
    /\ allow_public_quorum_custody \in BOOLEAN
    /\ lying \in SUBSET Voices
    /\ steady \in SUBSET (Voices \ (lying \cup {Coinset}))
    /\ chain \in Stage
    /\ view \in {"trusted", "any"}
    /\ query \in Query
    /\ mode = "begin"
    /\ left = {} /\ per_group = <<>>
    /\ last_error = Err("no_provider")
    /\ reply = None
    /\ backing = {}
    /\ since = chain

\* The chain moves on while the sources are asked.
ChainMoves ==
    /\ reply = None
    /\ chain + 1 \in Stage
    /\ chain' = chain + 1
    /\ UNCHANGED <<settingVars, mode, left, per_group, last_error, reply, backing, since>>

Begins(how, asked) ==
    /\ mode' = how
    /\ left' = asked
    /\ UNCHANGED reply

Registered == DOMAIN providers

TrustedOnes == {i \in Registered : Trusted(i)}

\* Mutant: when every trusted source fails, the others are asked.
ThenTheOthers == Registered

CustodySources == TrustedOnes

Begin ==
    /\ mode = "begin"
    /\ \/ view = "any" /\ Begins("discovery", Registered)
       \/ view = "trusted" /\ TrustedOnes # {} /\ Begins("custody", CustodySources)
       \/ /\ view = "trusted" /\ TrustedOnes = {}
          /\ IF allow_public_quorum_custody THEN Begins("quorum", Registered)
             ELSE mode' = "done" /\ reply' = last_error /\ UNCHANGED left
    /\ since' = chain
    /\ UNCHANGED <<settingVars, chain, per_group, last_error, backing>>

\* The source that is asked next.
IsNext(i) == i \in left /\ \A j \in left \ {i} : Before(mode, i, j)

\* Mutant: an answer that is too long ends the read.
BoundIsFinal(i, result) == IF result.ok THEN {} ELSE left \ {i}

LeftAfter(i, result) == left \ {i}

\* Mutant: any answer is the reply, however long.
AnyAnswer(result) == result.ok

\* Whether an answer is the reply, in the mode the read is in.
Accepted(result) ==
    /\ result.ok
    /\ mode = "discovery" => WithinBound(result.value)

Failure(result) == IF result.ok THEN Err("too_many") ELSE result

\* custody_read over the trusted sources, and discovery_read: the first
\* source that answers is the reply.
AskNext ==
    /\ mode \in {"custody", "discovery"}
    /\ \E i \in left :
          /\ IsNext(i)
          /\ \E a \in Answers(i) :
                IF Accepted(a.result)
                THEN /\ reply' = a.result
                     /\ mode' = "done"
                     /\ backing' = {a.voice}
                     /\ UNCHANGED <<last_error, left>>
                ELSE /\ last_error' = Failure(a.result)
                     /\ left' = LeftAfter(i, a.result)
                     /\ UNCHANGED <<reply, mode, backing>>
    /\ UNCHANGED <<settingVars, chain, per_group, since>>

AllFailed ==
    /\ mode \in {"custody", "discovery"}
    /\ left = {}
    /\ reply' = last_error
    /\ mode' = "done"
    /\ UNCHANGED <<settingVars, chain, left, per_group, last_error, backing, since>>

\* Mutant: every source contributes for itself.
EverySource(i, result) == result.ok /\ WithinBound(result.value)

Counts(i, result) ==
    /\ ~ Contributed(providers[i].group)
    /\ result.ok
    /\ WithinBound(result.value)

\* quorum_read: a group that has contributed is not asked again.
AskGroup ==
    /\ mode = "quorum"
    /\ \E i \in left :
          /\ IsNext(i)
          /\ \E a \in Answers(i) :
                per_group' = IF Counts(i, a.result)
                             THEN Append(per_group, [group |-> providers[i].group,
                                                     value |-> a.result.value,
                                                     voice |-> a.voice])
                             ELSE per_group
          /\ left' = left \ {i}
    /\ UNCHANGED <<settingVars, chain, mode, last_error, reply, backing, since>>

Tally ==
    /\ mode = "quorum"
    /\ left = {}
    /\ \/ \E k \in DOMAIN per_group :
             /\ Qualifies(k)
             /\ \A j \in 1 .. k - 1 : ~ Qualifies(j)
             /\ reply' = Ok(per_group[k].value)
             /\ backing' = {per_group[j].voice : j \in Agreeing(per_group[k].value)}
       \/ /\ \A k \in DOMAIN per_group : ~ Qualifies(k)
          /\ reply' = Err("no_provider")
          /\ UNCHANGED backing
    /\ mode' = "done"
    /\ UNCHANGED <<settingVars, chain, left, per_group, last_error, since>>

\* The read is over.
Done == mode = "done" /\ UNCHANGED vars

Next == ChainMoves \/ Begin \/ AskNext \/ AllFailed \/ AskGroup \/ Tally \/ Done

Spec == Init /\ [][Next]_vars

-----------------------------------------------------------------------------
(* Properties.                                                              *)

TrueRecord(coin, confirmed, spent, timestamp) ==
    [coin |-> coin, confirmed_height |-> {confirmed}, spent_height |-> spent,
     timestamp |-> timestamp]

\* The first coin and the second at a stage, with a timestamp or without.
TrueFirst(stage, timestamp) == TrueRecord(1, 1, IF stage = 2 THEN {2} ELSE {}, timestamp)
TrueCoins(stage, timestamp) ==
    [k \in 1 .. stage |-> IF k = 1 THEN TrueFirst(stage, timestamp)
                                   ELSE TrueRecord(2, 2, {}, timestamp)]

\* What is so at a stage, whichever tier says it and in whatever order.
TruthsStamped(stage, timestamp) ==
    CASE query = "coin_record" -> {IF stage = 0 THEN {} ELSE {TrueFirst(stage, timestamp)}}
      [] query = "coin_records" ->
            {TrueCoins(stage, timestamp), Reverse(TrueCoins(stage, timestamp))}
      [] query = "coin_spend" -> {IF stage = 2 THEN {"spend"} ELSE {}}
      [] query = "peak_height" -> {{stage + 1}}
      [] query = "block_timestamp" -> {IF stage = 0 THEN {} ELSE {"stamped"}}
TrueAt(stage) == UNION {TruthsStamped(stage, timestamp) : timestamp \in {{}, {1}}}

IsTrue == \E stage \in since .. chain : reply.value \in TrueAt(stage)

\* If no voice lies, an answer was so at some moment of the read: no failed
\* request, error envelope, field that does not parse, panic or malformed
\* record is ever told as an absence or as another record.
HonestAnswersAreTrue == lying = {} /\ reply.ok => IsTrue

\* A custody answer of the public quorum that was never so takes two voices
\* that lie alike: coinset.org cannot be both, however it is reached.
FalseCustodyNeedsTwoVoices ==
    mode = "done" /\ view = "trusted" /\ TrustedOnes = {} /\ reply.ok /\ ~ IsTrue
        => Cardinality(backing \cap lying) >= 2

\* Where the operator trusts a source, no other has a part in custody: not
\* when every trusted one fails either.
CustodyNeverDegrades ==
    mode = "done" /\ view = "trusted" /\ TrustedOnes # {} /\ reply.ok
        => \E i \in TrustedOnes : backing \subseteq VoicesOf(i)

\* A source that answers is heard through the discovery view, whatever the
\* sources before it do: fail, or flood the reader.
SteadySourceIsHeard ==
    mode = "done" /\ view = "any" /\ (\E i \in Registered : VoicesOf(i) \subseteq steady)
        => reply.ok /\ WithinBound(reply.value)
=============================================================================
