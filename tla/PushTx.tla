------------------------------- MODULE PushTx -------------------------------
(***************************************************************************)
(* Relaying one signed bundle: QueryRouter::push_tx of src/router.rs, over *)
(* the push attempts of src/peer/mod.rs.                                   *)
(*                                                                         *)
(* A peer that refuses the bundle for a reason of its own earns it one     *)
(* more transmission, to another peer; a transmission that fails at the    *)
(* transport is retried and then left to the coinset tier.  A failed       *)
(* transmission may have been received all the same.  Other calls move the *)
(* pool in between, within its contract.                                   *)
(***************************************************************************)
EXTENDS Naturals, FiniteSets

CONSTANTS
    Address,            \* socket addresses the pool may hold
    Priority,           \* the operator's own among them
    Session,            \* identities of connections
    MaxPeers,           \* PeerPool.max_peers
    Faulty              \* addresses whose verdicts are not to be relied on

VARIABLES
    fallback_enabled,   \* QueryRouter.coinset_fallback_enabled
    held,       \* the pool
    valid,      \* is the bundle one that a node in good order would admit?
    admitted,   \* the addresses whose mempool holds it
    leg,        \* "first", "retry" (after a failure), "other" (after a refusal), "coinset"
    asked,      \* the peer this leg transmits to, once it is picked
    sent,       \* the addresses transmitted to so far, each with its leg
    unanswered, \* those of them whose transmission failed
    verdict,    \* what the first peer answered, if it did
    reply       \* what the caller gets

vars == <<fallback_enabled, held, valid, admitted, leg, asked, sent, unanswered, verdict, reply>>

Pool == INSTANCE PoolContract

\* A mempool's verdict: admission, or a refusal that names a property of the
\* bundle, or any other refusal.
Verdicts == {"admitted", "intrinsic", "view"}

Init ==
    /\ Pool!Init
    /\ fallback_enabled \in BOOLEAN /\ valid \in BOOLEAN
    /\ admitted = {}
    /\ leg = "first"
    /\ asked = {} /\ sent = {} /\ unanswered = {}
    /\ verdict = "none" /\ reply = "none"

\* mempool_refusal::is_final
IsFinal(v) == v \in {"admitted", "intrinsic"}

\* A node in good order: it admits what it holds already, names a property of
\* the bundle only if the bundle has it, and may refuse for reasons of its own.
Answers(a) ==
    IF a \in Faulty THEN Verdicts
    ELSE IF a \in admitted THEN {"admitted"}
    ELSE IF valid THEN {"admitted", "view"} ELSE {"intrinsic", "view"}

\* Mutant: the second peer is drawn as a corroborator would be.
OtherVoices == {s \in held : \A t \in sent : s.address \notin Priority \cup {t.address}}

\* select_peer_excluding
OtherPeers == {s \in held : \A t \in sent : s.address # t.address}

Candidates == IF leg = "other" THEN OtherPeers ELSE held

Running == reply = "none"

\* `pick`, or select_peer_excluding for the second transmission.
PickPeer ==
    /\ Running /\ leg # "coinset" /\ asked = {}
    /\ \E s \in Candidates :
          /\ asked' = {s}
          /\ sent' = sent \cup {[leg |-> leg, address |-> s.address]}
    /\ UNCHANGED <<fallback_enabled, held, valid, admitted, leg, unanswered, verdict, reply>>

\* Mutant: with no second verdict the push takes the ladder of a failed one.
OntoTheLadder ==
    CASE leg = "first" -> leg' = "retry" /\ UNCHANGED reply
      [] leg = "other" -> leg' = "retry" /\ UNCHANGED reply
      [] leg = "retry" /\ fallback_enabled -> leg' = "coinset" /\ UNCHANGED reply
      [] OTHER -> reply' = "error" /\ UNCHANGED leg

\* What follows a leg that brought no verdict.
AfterFailure ==
    CASE leg = "first" -> leg' = "retry" /\ UNCHANGED reply
      [] leg = "other" -> reply' = verdict /\ UNCHANGED leg
      [] leg = "retry" /\ fallback_enabled -> leg' = "coinset" /\ UNCHANGED reply
      [] OTHER -> reply' = "error" /\ UNCHANGED leg

NobodyToAsk ==
    /\ Running /\ leg # "coinset" /\ asked = {}
    /\ Candidates = {}
    /\ AfterFailure
    /\ UNCHANGED <<fallback_enabled, held, valid, admitted, asked, sent, unanswered, verdict>>

\* Mutant: the first answer stands whatever the second peer says.
FirstStands(v) == IF leg = "other" THEN verdict ELSE v

\* The second answer wins if it is definitive; otherwise the first one stands.
Outcome(v) == IF leg = "other" /\ ~ IsFinal(v) THEN verdict ELSE v

\* Mutant: a peer that refuses is ejected.
RefuserLeaves(s, v) ==
    held' = IF v = "view" THEN {t \in held : t.address # s.address} ELSE held

RefuserStays(s, v) == held' = held

PeerAnswers ==
    \E s \in asked : \E v \in Answers(s.address) :
        /\ admitted' = IF v = "admitted" /\ s.address \notin Faulty
                       THEN admitted \cup {s.address} ELSE admitted
        /\ RefuserStays(s, v)
        /\ asked' = {}
        /\ IF leg = "first" /\ ~ IsFinal(v)
           THEN leg' = "other" /\ verdict' = v /\ UNCHANGED reply
           ELSE reply' = Outcome(v) /\ UNCHANGED <<leg, verdict>>
        /\ UNCHANGED <<fallback_enabled, valid, sent, unanswered>>

\* The transmission fails, before the bundle reached the peer or after it did.
PeerFails ==
    \E s \in asked :
        /\ held' = {t \in held : t.address # s.address}
        /\ admitted' \in {admitted} \cup (IF valid THEN {admitted \cup {s.address}} ELSE {})
        /\ unanswered' = unanswered \cup {s.address}
        /\ asked' = {}
        /\ AfterFailure
        /\ UNCHANGED <<fallback_enabled, valid, sent, verdict>>

\* The coinset tier's mempool admits or refuses, or its endpoint fails.
CoinsetAnswers ==
    /\ Running /\ leg = "coinset"
    /\ reply' \in Verdicts \cup {"error"}
    /\ UNCHANGED <<fallback_enabled, held, valid, admitted, leg, asked, sent, unanswered, verdict>>

PushStep == PickPeer \/ NobodyToAsk \/ PeerAnswers \/ PeerFails \/ CoinsetAnswers

PoolMoves ==
    /\ Pool!Next
    /\ UNCHANGED <<fallback_enabled, valid, admitted, leg, asked, sent, unanswered, verdict, reply>>

Next == PushStep \/ PoolMoves

Spec == Init /\ [][Next]_vars

-----------------------------------------------------------------------------
(* Properties.                                                              *)

\* The bundle is transmitted to no third peer, whichever of the transmissions
\* are refused and whichever fail, and once a peer has answered, with a refusal
\* above all, the coinset tier is not asked.
NoThirdDestination ==
    /\ Cardinality(sent) <= 2
    /\ leg = "coinset" => verdict = "none"

\* A caller told of a refusal may take the bundle not to be in flight, except
\* through a peer whose transmission failed: no admission that was answered is
\* covered by the refusal of the other peer.
RefusalIsClean ==
    reply \in {"intrinsic", "view"} =>
        admitted \subseteq unanswered

\* A refusal that depends on the node asked is the caller's answer only after
\* another peer got the bundle too, if any other was held -- the operator's own
\* node included: no single lagging or fee-strict peer vetoes a spend.  This is
\* what push_tx promises once its first transmission has been answered.
NoVetoByOneNode ==
    [][Running /\ reply' = "view" /\ Cardinality(sent) = 1 /\ leg \in {"first", "other"} =>
          \A s \in held : \E t \in sent : s.address = t.address]_vars

\* A push costs no peer its seat but one whose transmission failed: pushing a
\* bundle that is sure to be refused does not churn the pool.
RefusalEjectsNobody ==
    [][<<leg, asked, reply>>' # <<leg, asked, reply>> =>
          \A s \in held \ held' : s.address \in unanswered']_vars
=============================================================================
