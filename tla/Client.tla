------------------------------- MODULE Client -------------------------------
(***************************************************************************)
(* One call of ChiaQuery (src/lib.rs), which hands every operation to the  *)
(* router: a wait for a coin's confirmation, made of scalar queries; a     *)
(* push; or a read that is not corroborated.  Calls share the pool, which  *)
(* each of them finds in any state its contract allows, and nothing else:  *)
(* what the calls of other callers do is part of each call's environment.  *)
(* The call that makes a client fills its pool.                            *)
(*                                                                         *)
(* The variables of the push begin with p, those of the read with r, those *)
(* of the construction with n.                                             *)
(***************************************************************************)
EXTENDS Confirmation

CONSTANTS
    Session,
    Seats,              \* PeerPool.max_peers, for the push
    Unreliable,         \* addresses that may answer a push or a read anything
    MaxResponseBytes, MaxUsize,
    MaxHeight, Branch, Parent, BornOf, MaxU32,
    Configured, Introduced, Local, SubnetOf, PoolSize   \* what a new client dials

\* What PushTx, ClientReads and PoolConstruction assume of their constants.
ASSUME ClientAssumption ==
    /\ PoolSize \in Nat /\ Cardinality(Configured) <= 2
    /\ IsFiniteSet(Configured \cup Introduced) /\ Configured \cup Introduced \subseteq DOMAIN SubnetOf
    /\ Unreliable \subseteq Address /\ Seats \in Nat
    /\ MaxHeight \in Nat /\ MaxU32 \in Nat /\ MaxHeight < MaxU32
    /\ BornOf \in [Parent -> SUBSET (1 .. MaxHeight)]

VARIABLES
    service,            \* "new", "confirm", "push" or "read"
    pHeld, pValid, pAdmitted, pLeg, pAsked, pSent, pUnanswered, pVerdict, pReply,
    rLies, rChain, rCall, rLeg, rAttempts, rWanted, rAsked, rGot, rItems, rLeft, rAsOf,
    rReply, rExchanges, rHonest, rWas,
    nSeats, nRounds, nStatus, nReached, nFruitful

Push == INSTANCE PushTx WITH
    MaxPeers <- Seats, Faulty <- Unreliable,
    held <- pHeld, valid <- pValid, admitted <- pAdmitted, leg <- pLeg, asked <- pAsked,
    sent <- pSent, unanswered <- pUnanswered, verdict <- pVerdict, reply <- pReply

Read == INSTANCE ClientReads WITH
    Faulty <- Unreliable,
    coinset_lies <- rLies, chain <- rChain, call <- rCall, leg <- rLeg,
    attempts <- rAttempts, wanted <- rWanted, asked <- rAsked, got <- rGot,
    items <- rItems, left <- rLeft, as_of_height <- rAsOf, reply <- rReply,
    exchanges <- rExchanges, honest <- rHonest, was <- rWas

New == INSTANCE PoolConstruction WITH
    Priority <- Configured, MaxPeers <- PoolSize,
    required <- ~ fallback_enabled, seats <- nSeats, rounds <- nRounds, status <- nStatus,
    reached <- nReached, fruitful <- nFruitful

pVars == <<pHeld, pValid, pAdmitted, pLeg, pAsked, pSent, pUnanswered, pVerdict, pReply>>
rVars == <<rLies, rChain, rCall, rLeg, rAttempts, rWanted, rAsked, rGot, rItems, rLeft, rAsOf,
           rReply, rExchanges, rHonest, rWas>>
nVars == <<nSeats, nRounds, nStatus, nReached, nFruitful>>
clientVars == <<confirmationVars, pVars, rVars, nVars, service>>

\* The variables of the operations that are not called stay where one state
\* of their Init puts them.
Uncalled ==
    /\ service # "confirm" => truth = "absent" /\ ~ coinset_lies
    /\ service # "push" => ~ pValid
    /\ service # "read" =>
          /\ ~ rLies /\ \A h, k \in 1 .. MaxHeight : rChain[h] = rChain[k]
          /\ rCall = [kind |-> "coinset"]
          /\ rChain = CHOOSE c \in [1 .. MaxHeight -> Branch] : \A h, k \in 1 .. MaxHeight : c[h] = c[k]

ClientInit ==
    /\ service \in {"new", "confirm", "push", "read"}
    /\ WaitInit /\ Push!Init /\ Read!Init /\ New!Init
    /\ Uncalled

Constructs == service = "new" /\ UNCHANGED <<confirmationVars, pVars, rVars, service>> /\ New!Next
Confirms == service = "confirm" /\ WaitNext /\ UNCHANGED <<pVars, rVars, nVars, service>>
Pushes == service = "push" /\ Push!PushStep /\ UNCHANGED <<confirmationVars, rVars, nVars, service>>
Reads == service = "read" /\ Read!ReadStep /\ UNCHANGED <<confirmationVars, pVars, nVars, service>>

\* The pool moves under a push, and the chain under a read.
Surroundings ==
    \/ service = "push" /\ Push!PoolMoves /\ UNCHANGED <<confirmationVars, rVars, nVars, service>>
    \/ service = "read" /\ Read!Reorg /\ UNCHANGED <<confirmationVars, pVars, nVars, service>>

CallGoesOn == Constructs \/ Confirms \/ Pushes \/ Reads

ClientNext == CallGoesOn \/ Surroundings

\* Requests and exchanges are bounded by timeouts, and nothing waits for the
\* surroundings.
ClientSpec ==
    /\ ClientInit
    /\ [][ClientNext]_clientVars
    /\ WF_clientVars(CallGoesOn)

-----------------------------------------------------------------------------
(* Properties: those of the operations, and one of all of them.             *)

\* See PoolConstruction.
StrangersGetSeats == service = "new" => New!StrangersGetSeats
\* See PoolConstruction.
EverySeatBuysAVoice == New!EverySeatBuysAVoice

\* A bundle has at most two destinations, and a refusal reported to the caller
\* hides no admission that was answered: see PushTx.
PushIsAccountable == service = "push" => Push!NoThirdDestination /\ Push!RefusalIsClean
\* See PushTx.
NoVetoByOneNode == Push!NoVetoByOneNode

\* No call costs a peer its seat but by a request of its own that failed: not
\* contradicting the others, not refusing a bundle that is sure to be refused.
OnlyFailureCostsASeat ==
    /\ []OnlyFailureEjects
    /\ Push!RefusalEjectsNobody

\* Blocks are those of the heights or the hash asked for, and the children of
\* several parents are complete at the height they are told of: see ClientReads.
ReadsAnswerTheirQuestion ==
    service = "read" => Read!BlocksAreTheOnesAskedFor /\ Read!ParentsAreCompleteAtTheirHeight
\* See ClientReads.
CoinsetIsTheLastResort == service = "read" => Read!CoinsetIsTheLastResort

Returned ==
    \/ service = "new" /\ nStatus \in {"open", "failed"}
    \/ service = "confirm" /\ outcome # "polling"
    \/ service = "push" /\ pReply # "none"
    \/ service = "read" /\ rReply # "none"

\* Every call returns, whichever peers fail, whatever coinset.org does, and
\* however often the pool and the chain move: no retry, no poll and no fallback
\* goes on without end.
EveryCallReturns == <>Returned
=============================================================================
