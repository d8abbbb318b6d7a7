----------------------------- MODULE GradedRead -----------------------------
(***************************************************************************)
(* One scalar read of src/peer/mod.rs: read_opt_corroborated, with         *)
(* corroborate_presence and corroborate_absence, which differ only in what *)
(* the first answer was.                                                   *)
(*                                                                         *)
(* The pool's locks are held for one step of the read at a time, and in    *)
(* between other calls seat peers and vacate seats.  PoolContract leads    *)
(* from any set of seats to any other, so each step finds the pool in any  *)
(* state the contract allows: the pool whose readiness was read need not   *)
(* be the pool the corroborators come from.  What the read does to the     *)
(* pool is the set of addresses it ejects.                                 *)
(*                                                                         *)
(* What a peer answers is a claim about the chain, or that there is no     *)
(* such thing.  One answer is the truth; a reliable host gives it or       *)
(* fails, a faulty one may give any answer.                                *)
(***************************************************************************)
EXTENDS Corroboration

CONSTANTS
    MaxPeers,   \* PeerPool.max_peers
    Claims,     \* chain claims a record may carry
    Faulty      \* hosts whose answers are not to be relied on

ASSUME ReadAssumption == Faulty \subseteq Host /\ MaxPeers \in Nat

VARIABLES
    truth,      \* what the chain says
    stage,      \* "pick", "first", "readiness", "select", "round" or "done"
    asked,      \* the address picked, if any
    first,      \* its answer
    armed,      \* the readiness read before the round
    waiting,    \* corroborators asked that have not answered
    agreeing,   \* corroborators that gave the first answer
    dissenting, \* corroborators that gave another
    failed,     \* corroborators whose read failed
    ejected,    \* addresses the read has ejected from the pool
    grade,      \* "none", "failed", "uncorroborated", "corroborated" or "disagree"
    armable     \* history: could the pool corroborate when the round began?

round == <<waiting, agreeing, dissenting, failed>>
vars == <<truth, stage, asked, first, armed, round, ejected, grade, armable>>

Answer == Claims \cup {"absent"}

\* The addresses a pool that keeps its contract may hold at some moment.
Pools == {seats \in SUBSET Address : IsFiniteSet(seats) /\ Cardinality(seats) <= MaxPeers}

\* What may come back from the machine behind an address.
Says(a) == IF HostOf[a] \in Faulty THEN Answer ELSE {truth}

Init ==
    /\ truth \in Answer
    /\ stage = "pick"
    /\ asked = {}
    /\ first = "absent"
    /\ armed = FALSE
    /\ waiting = {} /\ agreeing = {} /\ dissenting = {} /\ failed = {}
    /\ ejected = {}
    /\ grade = "none"
    /\ armable = FALSE

-----------------------------------------------------------------------------

EndWith(g) == stage' = "done" /\ grade' = g

\* `pick`: the pass of maintenance is among the other calls' steps.
Pick ==
    /\ stage = "pick"
    /\ \E pool \in Pools :
          IF pool = {}
          THEN EndWith("failed") /\ UNCHANGED asked
          ELSE /\ \E a \in pool : asked' = {a}
               /\ stage' = "first"
               /\ UNCHANGED grade
    /\ UNCHANGED <<truth, first, armed, round, ejected, armable>>

FirstAnswers ==
    /\ stage = "first"
    /\ \E a \in asked : first' \in Says(a)
    /\ stage' = "readiness"
    /\ UNCHANGED <<truth, asked, armed, round, ejected, grade, armable>>

FirstFails ==
    /\ stage = "first"
    /\ ejected' = asked
    /\ EndWith("failed")
    /\ UNCHANGED <<truth, asked, first, armed, round, armable>>

\* Hosts other than the asked one that the pool holds a discovered peer of.
OtherHosts(pool, a) == {HostOf[b] : b \in pool \cap Discovered} \ {HostOf[a]}

ReadReadiness ==
    /\ stage = "readiness"
    /\ \E a \in asked, pool \in Pools :
          /\ armed' = Armed(pool, a)
          /\ armable' = (Cardinality(OtherHosts(pool, a)) >= CorroborationFloor)
    /\ stage' = "select"
    /\ UNCHANGED <<truth, asked, first, round, ejected, grade>>

SelectCorroborators ==
    /\ stage = "select"
    /\ \E a \in asked, pool \in Pools : \E panel \in Panels(pool, a) :
          /\ waiting' = panel
          /\ IF panel = {}
             THEN EndWith("uncorroborated")
             ELSE stage' = "round" /\ UNCHANGED grade
    /\ UNCHANGED <<truth, asked, first, armed, agreeing, dissenting, failed,
                   ejected, armable>>

CorroboratorAnswers(a) ==
    /\ waiting' = waiting \ {a}
    /\ \E said \in Says(a) :
          IF said = first
          THEN agreeing' = agreeing \cup {a} /\ UNCHANGED dissenting
          ELSE dissenting' = dissenting \cup {a} /\ UNCHANGED agreeing
    /\ UNCHANGED <<truth, stage, asked, first, armed, failed, ejected, grade, armable>>

CorroboratorFails(a) ==
    /\ waiting' = waiting \ {a}
    /\ failed' = failed \cup {a}
    /\ UNCHANGED <<truth, stage, asked, first, armed, agreeing, dissenting,
                   ejected, grade, armable>>

\* Mutant: the round needs every corroborator it asked.
EveryoneAnswered == waiting = {} /\ failed = {}

\* join_all: every answer is in, or has failed.
RoundOver == waiting = {}

\* Mutant: a peer that contradicts is ejected like one that fails.
FailedOrDissenting == failed \cup dissenting

\* Ejected one after the other, whatever the verdict will be.
Unusable == failed

\* Mutant: votes are counted, and enough of them outrank a contradiction.
Majority ==
    IF Corroborated(armed, Cardinality(agreeing)) THEN "corroborated"
    ELSE IF dissenting # {} THEN "disagree" ELSE "uncorroborated"

Verdict ==
    IF dissenting # {} THEN "disagree"
    ELSE IF Corroborated(armed, Cardinality(agreeing)) THEN "corroborated"
    ELSE "uncorroborated"

Grade ==
    /\ stage = "round" /\ RoundOver
    /\ ejected' = Unusable
    /\ EndWith(Verdict)
    /\ UNCHANGED <<truth, asked, first, armed, round, armable>>

Next ==
    \/ Pick
    \/ FirstAnswers
    \/ FirstFails
    \/ ReadReadiness
    \/ SelectCorroborators
    \/ \E a \in waiting : CorroboratorAnswers(a) \/ CorroboratorFails(a)
    \/ Grade

Spec == Init /\ [][Next]_vars

-----------------------------------------------------------------------------
(* Properties.                                                              *)

Misled == grade = "corroborated" /\ first # truth

\* A falsehood is reported as corroborated only if CORROBORATION_FLOOR faulty
\* hosts, discovered ones and none of them the machine asked first, repeat it:
\* neither a second port nor the operator's own node adds a voice.
FalsehoodNeedsMoreHosts ==
    Misled =>
        \E a \in asked :
            LET repeating == {HostOf[b] : b \in agreeing \cap Discovered}
            IN  Cardinality(repeating \ {HostOf[a]}) >= CorroborationFloor

\* One reliable host among those that answered is enough to keep a falsehood
\* from being corroborated, however many others repeat it.
OneReliableVoiceBlocksIt ==
    Misled => \A a \in asked \cup agreeing \cup dissenting : HostOf[a] \in Faulty

\* A pool that could not have corroborated anything when the round began is
\* not rescued by a peer that another call seats in the middle of it.
ArrivalsDoNotRescue == grade = "corroborated" => armable

\* The read ejects a peer whose request failed and nobody else: least of all
\* one that contradicts the others, and never one that has answered.
OnlyFailureEjects ==
    /\ ejected \cap (agreeing \cup dissenting) = {}
    /\ ejected # {} => \/ ejected = failed
                       \/ grade = "failed" /\ ejected = asked
=============================================================================
