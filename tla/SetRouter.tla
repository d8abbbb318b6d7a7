----------------------------- MODULE SetRouter -----------------------------
(***************************************************************************)
(* A population query as a caller sees it: peer_then_coinset_set of        *)
(* src/router.rs over the graded population reads of the peer tier.        *)
(*                                                                         *)
(* A set the peer tier could not corroborate is held against the coinset   *)
(* tier's, at the height of the peer's answer.  When both reads of the     *)
(* peer tier have erred the coinset tier answers alone, held to a height   *)
(* of its own: the peak it states BEFORE its answer is asked for.  Its node *)
(* takes blocks in between like any other.                                 *)
(***************************************************************************)
EXTENDS SetRead

VARIABLES
    fallback_enabled,   \* QueryRouter.coinset_fallback_enabled
    coinset_lies,       \* may the coinset tier answer with a fabrication?
    route,      \* "peer", "second", "alone", "dated" (its peak is known), "done"
    erred,      \* how many reads of the peer tier have erred
    peak,       \* the peak the coinset tier stated, if it did
    node_at,    \* history: the height its node answered at, if it answered
    reply       \* what the caller gets

tiers == <<fallback_enabled, coinset_lies>>
routeVars == <<tiers, route, erred, peak, node_at, reply>>
routerVars == <<vars, routeVars>>

\* A set and the height it is true about.
Ok(items, h) == [kind |-> "Ok", items |-> items, as_of |-> h]
Err(e) == [kind |-> e, items |-> <<>>, as_of |-> 0]

RouterInit ==
    /\ Init
    /\ fallback_enabled \in BOOLEAN /\ coinset_lies \in BOOLEAN
    /\ route = "peer" /\ erred = 0
    /\ peak = {} /\ node_at = {} /\ reply = Err("none")

\* What the coinset tier's node holds at a height it is at, spent coins included.
CoinsetSets(t) ==
    {SetToSeq(View(b, t)) : b \in BranchesAt(t)}
    \cup (IF coinset_lies THEN {SetToSeq(f) : f \in Fabrications} ELSE {})

Reply(r) == route' = "done" /\ reply' = r

PeerTierReads == route = "peer" /\ Next /\ UNCHANGED routeVars

\* settle_set_answer, up to the consultation of the coinset tier.
SettleSetAnswer ==
    /\ route = "peer" /\ stage = "done"
    /\ \/ /\ verdict.grade = "corroborated"
          /\ Reply(Ok(verdict.items, verdict.height))
       \/ /\ verdict.grade = "uncorroborated"
          /\ IF fallback_enabled THEN route' = "second" /\ UNCHANGED reply
             ELSE Reply(Err("Uncorroborated"))
    /\ UNCHANGED <<vars, tiers, erred, peak, node_at>>

Erred == route = "peer" /\ verdict.grade \in {"failed", "refused", "disagree"}

Retry ==
    /\ Erred /\ erred = 0
    /\ erred' = 1
    /\ stage' = "pick" /\ asked' = {} /\ armed' = FALSE /\ first' = {}
    /\ waiting' = {} /\ others' = {} /\ failed' = {} /\ ejected' = {}
    /\ verdict' = NoVerdict
    /\ UNCHANGED <<anchor, window, tiers, route, peak, reply, node_at>>

RetryErrs ==
    /\ Erred /\ erred = 1
    /\ erred' = 2
    /\ IF fallback_enabled THEN route' = "alone" /\ UNCHANGED reply
       ELSE Reply(Err(IF verdict.grade = "disagree" THEN "SourcesDisagree" ELSE "PeerError"))
    /\ UNCHANGED <<vars, tiers, peak, node_at>>

\* The coinset tier's set, held to h and then filtered.
HeldTo(raw, h) == Project(NormaliseAt(raw, h), window)

\* Mutant: where they differ the coinset tier is believed.
CoinsetWins(raw) == Ok(HeldTo(raw, verdict.height), verdict.height)

\* settle_uncorroborated_set
Settlement(raw) ==
    IF Contradicts(Fingerprint(verdict.items), Fingerprint(HeldTo(raw, verdict.height)))
    THEN Err("SourcesDisagree")
    ELSE Ok(verdict.items, verdict.height)

CoinsetSeconds ==
    /\ route = "second"
    /\ \E t \in Tips : \E raw \in CoinsetSets(t) :
          Reply(Settlement(raw)) /\ node_at' = {t}
    /\ UNCHANGED <<vars, tiers, erred, peak>>

\* get_blockchain_state; a coinset tier not to be relied on states what it likes.
CoinsetStatesPeak ==
    /\ route = "alone"
    /\ \E k \in Tips :
          IF CommonHeight({k}, window.end_height) = {}
          THEN Reply(Err("AllSourcesFailed")) /\ UNCHANGED peak
          ELSE route' = "dated" /\ peak' = {k} /\ UNCHANGED reply
    /\ UNCHANGED <<vars, tiers, erred, node_at>>

\* Mutant: the peak is that of a node further on than the answer's.
AnyTip == Tips

\* The heights the node may be at by the time it answers.
TipsSince == {t \in Tips : \A k \in peak : k <= t}

CoinsetAnswersAlone ==
    /\ route = "dated"
    /\ \E t \in TipsSince, h \in CommonHeight(peak, window.end_height) :
          \E raw \in CoinsetSets(t) : Reply(Ok(HeldTo(raw, h), h)) /\ node_at' = {t}
    /\ UNCHANGED <<vars, tiers, erred, peak>>

CoinsetFails ==
    /\ route \in {"second", "alone", "dated"}
    /\ Reply(Err(IF route = "second" THEN "Uncorroborated" ELSE "AllSourcesFailed"))
    /\ UNCHANGED <<vars, tiers, erred, peak, node_at>>

RouterNext ==
    \/ PeerTierReads
    \/ SettleSetAnswer
    \/ Retry
    \/ RetryErrs
    \/ CoinsetSeconds
    \/ CoinsetStatesPeak
    \/ CoinsetAnswersAlone
    \/ CoinsetFails

RouterSpec == RouterInit /\ [][RouterNext]_routerVars

-----------------------------------------------------------------------------
(* Properties.                                                              *)

Answered == reply.kind = "Ok"

\* What the caller asked for, of the chain as it stood at h.
WindowAt(h) == Fingerprint(Project(SetToSeq(View(Main, h)), window))

\* Sources in good order stand behind an answer: one of the peers that agreed,
\* or the coinset tier -- as the second voice only if the height has settled for
\* its node as well.
Vouched ==
    \/ peak = {} /\ Reliable # {}
    \/ /\ ~ coinset_lies
       /\ peak # {} \/ \E t \in node_at : reply.as_of + SettledLag <= t

\* What a peer that makes its answer up says of one coin, it says once.
ToldOnce == \A f \in Fabrications : \A r, q \in f : r.coin = q.coin => r = q

\* A set the caller gets as a fact is the chain at the height it carries, put
\* to the caller's own window, if any source in good order stands behind it:
\* a lone peer and the coinset tier cannot talk each other into a falsehood
\* unless both lie, whatever block lands while they are asked.  A coinset tier
\* too far behind is no such source: the height is that of the peers' answers,
\* nobody asks how far its node is, and it may second what it cannot know.
\* (Nothing is left out in any case.  A coin that a peer tells of twice is
\* compared in its last state and may be returned in another.)
SetIsTheChainAtItsHeight ==
    Answered /\ Vouched =>
        /\ ~ Omits(WindowAt(reply.as_of), Fingerprint(reply.items))
        /\ ToldOnce => Fingerprint(reply.items) = WindowAt(reply.as_of)

\* read_set_corroborated: an empty set is "the WRONG way to say" that a window
\* has not settled, "indistinguishable from 'there is nothing there'".  What two
\* sources tell a caller as a fact is about a window that has settled.
NoUnsettledWindow ==
    Answered /\ peak = {} => \A start \in window.start_height : start <= reply.as_of
=============================================================================
