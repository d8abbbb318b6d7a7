---------------------------- MODULE ScalarRouter ----------------------------
(***************************************************************************)
(* An absence-aware scalar query as a caller sees it: peer_then_coinset_opt *)
(* of src/router.rs over the graded reads of the peer tier.                *)
(*                                                                         *)
(* The peer tier is read; if that read errs it is read once more; an       *)
(* answer it could not corroborate is put to the coinset tier, and when    *)
(* both reads have erred the coinset tier answers alone.  Each read is a   *)
(* GradedRead of its own.                                                  *)
(***************************************************************************)
EXTENDS GradedRead, Sequences

VARIABLES
    fallback_enabled,   \* QueryRouter.coinset_fallback_enabled
    coinset_lies,       \* may the coinset tier answer anything?
    route,      \* "peer", "second" (coinset as a second voice), "alone", "done"
    attempts,   \* the verdicts of the reads that have ended
    coinset,    \* what the coinset tier answered, if it was asked and did
    reply       \* what the caller gets

tiers == <<fallback_enabled, coinset_lies>>
routerVars == <<vars, tiers, route, attempts, coinset, reply>>

NoReply == [kind |-> "none", value |-> "absent"]
Ok(v) == [kind |-> "Ok", value |-> v]
Err(e) == [kind |-> e, value |-> "absent"]

CoinsetSays == IF coinset_lies THEN Answer ELSE {truth}

RouterInit ==
    /\ Init
    /\ fallback_enabled \in BOOLEAN /\ coinset_lies \in BOOLEAN
    /\ route = "peer"
    /\ attempts = <<>>
    /\ coinset = {}
    /\ reply = NoReply

Reply(r) == route' = "done" /\ reply' = r

PeerTierReads == route = "peer" /\ Next /\ UNCHANGED <<tiers, route, attempts, coinset, reply>>

\* The read's own state, as the next read finds it.
FreshRead ==
    /\ stage' = "pick" /\ asked' = {} /\ first' = "absent"
    /\ armed' = FALSE /\ armable' = FALSE /\ grade' = "none"
    /\ waiting' = {} /\ agreeing' = {} /\ dissenting' = {}
    /\ failed' = {} /\ ejected' = {}

\* Mutant: an answer the peer tier has not corroborated is good enough.
AnySettles == {"corroborated", "uncorroborated"}

\* OptAnswer::Found and OptAnswer::CorroboratedAbsent
SettlesAlone == {"corroborated"}

\* settle_peer_answer, up to the consultation of the coinset tier.
SettlePeerAnswer ==
    /\ route = "peer"
    /\ grade \in {"corroborated", "uncorroborated"}
    /\ attempts' = Append(attempts, grade)
    /\ IF grade \in SettlesAlone THEN Reply(Ok(first))
       ELSE IF fallback_enabled THEN route' = "second" /\ UNCHANGED reply
       ELSE Reply(Err("Uncorroborated"))
    /\ UNCHANGED <<vars, tiers, coinset>>

Erred == route = "peer" /\ grade \in {"failed", "disagree"}

\* Any error of the first read, SourcesDisagree among them, earns the retry.
Retry ==
    /\ Erred /\ attempts = <<>>
    /\ attempts' = <<grade>>
    /\ FreshRead
    /\ UNCHANGED <<truth, tiers, route, coinset, reply>>

RetryErrs ==
    /\ Erred /\ Len(attempts) = 1
    /\ attempts' = Append(attempts, grade)
    /\ IF fallback_enabled THEN route' = "alone" /\ UNCHANGED reply
       ELSE Reply(Err(IF grade = "disagree" THEN "SourcesDisagree" ELSE "PeerError"))
    /\ UNCHANGED <<vars, tiers, coinset>>

\* Mutant: the peer's answer stands whatever the coinset tier says.
FirstAnswerStands(theirs) == Ok(first)

\* settle_uncorroborated_presence and settle_uncorroborated_absence
Settlement(theirs) == IF theirs = first THEN Ok(first) ELSE Err("SourcesDisagree")

CoinsetSeconds ==
    /\ route = "second"
    /\ \E a \in CoinsetSays : coinset' = {a} /\ Reply(Settlement(a))
    /\ UNCHANGED <<vars, tiers, attempts>>

CoinsetAnswersAlone ==
    /\ route = "alone"
    /\ \E a \in CoinsetSays : coinset' = {a} /\ Reply(Ok(a))
    /\ UNCHANGED <<vars, tiers, attempts>>

CoinsetFails ==
    /\ route \in {"second", "alone"}
    /\ Reply(Err(IF route = "second" THEN "Uncorroborated" ELSE "AllSourcesFailed"))
    /\ UNCHANGED <<vars, tiers, attempts, coinset>>

RouterNext ==
    \/ PeerTierReads
    \/ SettlePeerAnswer
    \/ Retry
    \/ RetryErrs
    \/ CoinsetSeconds
    \/ CoinsetAnswersAlone
    \/ CoinsetFails

RouterSpec == RouterInit /\ [][RouterNext]_routerVars

-----------------------------------------------------------------------------
(* Properties.                                                              *)

IsWrong == reply.kind = "Ok" /\ reply.value # truth

BothReadsErred ==
    Len(attempts) = 2 /\ \A i \in 1 .. 2 : attempts[i] \in {"failed", "disagree"}

\* Two independent sources have to lie for a falsehood to reach the caller as
\* a fact: CORROBORATION_FLOOR hosts besides the one asked, or the coinset tier
\* together with the peer it was to second -- unless both reads of the peer
\* tier have erred, when the coinset tier's word is all there is.
WrongNeedsTwoSources ==
    IsWrong =>
        \/ Cardinality({HostOf[a] : a \in agreeing} \cap Faulty) >= CorroborationFloor
        \/ /\ coinset_lies /\ coinset = {reply.value}
           /\ \/ \A a \in asked : HostOf[a] \in Faulty
              \/ BothReadsErred

\* peer_then_coinset_opt: "When no peer answers at all, the coinset tier is
\* the only source there is", and only then does its word alone suffice.
CoinsetAloneOnlyIfNoPeerAnswers ==
    reply.kind = "Ok" /\ BothReadsErred => \A i \in 1 .. 2 : attempts[i] = "failed"
=============================================================================
