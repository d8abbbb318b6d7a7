---------------------------- MODULE ClientProofs ----------------------------
(***************************************************************************)
(* What holds of the calls of ChiaQuery for every set of addresses and     *)
(* machines, whichever of them are faulty, and for every size of the pool. *)
(*                                                                         *)
(* The argument about corroboration has three steps.  A panel has one      *)
(* voice for each machine it could ask, so the answers counted are those   *)
(* of as many machines.  An answer of a machine in good order is the       *)
(* truth, so what agrees with a falsehood is faulty.  And the router makes *)
(* a fact of an answer in three ways only: corroborated, seconded by the   *)
(* coinset tier, or the coinset tier's own after both reads have erred.    *)
(*                                                                         *)
(* Of a push, the leg it is on says how many destinations there have been  *)
(* and what they have answered.  Of a read, what has been gathered is of   *)
(* the first heights wanted, each block on the chain at some time, and the *)
(* children so far are complete at a height the rounds only lower.         *)
(*                                                                         *)
(* Of a round of dials, the distinct candidates have places in a strict    *)
(* order, so those at the first places are as many as the slots; and who   *)
(* has a first pass comes before all who have a second.  Of the rounds     *)
(* together, each seats one peer more, or nobody is left to dial.          *)
(***************************************************************************)
EXTENDS Client, FunctionTheorems, FiniteSetTheorems, SequenceTheorems,
        TLAPS

-----------------------------------------------------------------------------
(* Panels.                                                                  *)

HostsOf(addresses) == {HostOf[b] : b \in addresses}
OneVoiceEach(addresses) == \A b, c \in addresses : HostOf[b] = HostOf[c] => b = c

\* Where no two addresses are of one machine, as many machines speak as addresses.
LEMMA VoicesAreMachines ==
  ASSUME NEW addresses \in SUBSET Address, IsFiniteSet(addresses), OneVoiceEach(addresses)
  PROVE  IsFiniteSet(HostsOf(addresses)) /\ Cardinality(HostsOf(addresses)) = Cardinality(addresses)
<1>. DEFINE host == [b \in addresses |-> HostOf[b]]
<1>1. host \in [addresses -> HostsOf(addresses)] /\ \A b, c \in addresses : host[b] = host[c] => b = c
  BY DEF HostsOf, OneVoiceEach
<1>2. \A h \in HostsOf(addresses) : \E b \in addresses : host[b] = h
  BY DEF HostsOf
<1>3. host \in Bijection(addresses, HostsOf(addresses))
  BY <1>1, <1>2, Fun_IsBij
<1>4. ExistsBijection(addresses, HostsOf(addresses))
  BY <1>3, Fun_ExistsBij
<1>. QED  BY <1>4, FS_Bijection

\* A panel has one voice for each machine of a corroborator in the pool, and
\* none for the machine asked.
LEMMA PanelsAreFair ==
  ASSUME NEW pool \in Pools, NEW a \in Address, NEW panel \in Panels(pool, a)
  PROVE  /\ IsFiniteSet(panel) /\ panel \subseteq Discovered
         /\ OneVoiceEach(panel)
         /\ \A b \in panel : HostOf[b] # HostOf[a]
         /\ Cardinality(panel) = Cardinality(OtherHosts(pool, a))
<1>. DEFINE voices == {b \in pool : IsCorroborator(b, a)}
<1>1. /\ panel \subseteq voices /\ voices \subseteq pool
      /\ \A b \in voices : Cardinality({c \in panel : HostOf[c] = HostOf[b]}) = 1
  BY DEF Panels
<1>2. IsFiniteSet(pool) /\ pool \subseteq Address
  BY DEF Pools
<1>3. IsFiniteSet(panel) /\ panel \subseteq Discovered /\ \A b \in panel : HostOf[b] # HostOf[a]
  BY <1>1, <1>2, FS_Subset DEF IsCorroborator
<1>4. ASSUME NEW b \in voices
      PROVE  \E c : {d \in panel : HostOf[d] = HostOf[b]} = {c}
  <2>1. {d \in panel : HostOf[d] = HostOf[b]} \in SUBSET panel
    OBVIOUS
  <2>2. IsFiniteSet({d \in panel : HostOf[d] = HostOf[b]})
    BY <2>1, <1>3, FS_Subset
  <2>. QED  BY <1>1, <2>2, FS_Singleton
<1>5. OneVoiceEach(panel)
  BY <1>1, <1>4 DEF OneVoiceEach
<1>6. HostsOf(panel) = OtherHosts(pool, a)
  <2>1. HostsOf(panel) \subseteq OtherHosts(pool, a)
    BY <1>1, <1>3 DEF HostsOf, OtherHosts
  <2>2. ASSUME NEW h \in OtherHosts(pool, a)
        PROVE  h \in HostsOf(panel)
    <3>1. PICK b \in pool \cap Discovered : h = HostOf[b] /\ h # HostOf[a]
      BY DEF OtherHosts
    <3>2. b \in voices
      BY <3>1 DEF IsCorroborator
    <3>. QED  BY <1>4, <3>1, <3>2 DEF HostsOf
  <2>. QED  BY <2>1, <2>2
<1>7. panel \in SUBSET Address
  BY <1>1, <1>2
<1>8. Cardinality(HostsOf(panel)) = Cardinality(panel)
  BY <1>3, <1>5, <1>7, VoicesAreMachines
<1>. QED  BY <1>3, <1>5, <1>6, <1>8

\* One address of each machine makes a panel.
LEMMA SomePanel ==
  ASSUME NEW pool \in Pools, NEW a \in Address
  PROVE  Panels(pool, a) # {}
<1>. DEFINE voices == {b \in pool : IsCorroborator(b, a)}
            speaker(h) == CHOOSE b \in voices : HostOf[b] = h
            panel == {speaker(HostOf[b]) : b \in voices}
<1>1. \A b \in voices : speaker(HostOf[b]) \in voices /\ HostOf[speaker(HostOf[b])] = HostOf[b]
  OBVIOUS
<1>. HIDE DEF speaker
<1>2. panel \in SUBSET voices
  BY <1>1
<1>3. ASSUME NEW b \in voices
      PROVE  Cardinality({c \in panel : HostOf[c] = HostOf[b]}) = 1
  <2>1. {c \in panel : HostOf[c] = HostOf[b]} = {speaker(HostOf[b])}
    BY <1>1
  <2>. QED  BY <2>1, FS_Singleton
<1>. QED  BY <1>2, <1>3 DEF Panels

\* A pool is armed only if it holds peers of enough machines.
LEMMA ArmedByMachines ==
  ASSUME NEW pool \in Pools, NEW a \in Address, Armed(pool, a)
  PROVE  Cardinality(OtherHosts(pool, a)) >= CorroborationFloor
<1>1. PICK panel \in Panels(pool, a) : TRUE
  BY SomePanel
<1>. QED  BY <1>1, PanelsAreFair DEF Armed

-----------------------------------------------------------------------------
(* One graded read.                                                         *)

Panel == waiting \cup agreeing \cup dissenting \cup failed

\* The round is asked of a panel, and everybody in it is in one place.
RoundIsFair ==
    /\ IsFiniteSet(Panel) /\ Panel \subseteq Discovered /\ OneVoiceEach(Panel)
    /\ \A a \in asked, b \in Panel : HostOf[b] # HostOf[a]
    /\ waiting \cap (agreeing \cup dissenting \cup failed) = {}
    /\ failed \cap (agreeing \cup dissenting) = {}

\* A read that stands at a stage has what that stage needs.
StagesAreInOrder ==
    /\ stage \in {"pick", "first", "readiness", "select", "round", "done"}
    /\ stage = "done" <=> grade # "none"
    /\ stage \in {"pick", "first", "readiness", "select"} => Panel = {}
    /\ waiting # {} => stage = "round"
    /\ asked \subseteq Address /\ \A a, b \in asked : a = b
    /\ stage # "pick" /\ grade # "failed" => asked # {}
    /\ armed => armable

\* Whoever stands behind a falsehood is faulty.
FalsehoodIsFaulty ==
    first # truth =>
        /\ \A a \in agreeing : HostOf[a] \in Faulty
        /\ stage \notin {"pick", "first"} /\ grade # "failed" =>
              \A a \in asked : HostOf[a] \in Faulty

GradeIsEarned ==
    grade = "corroborated" =>
        armed /\ Cardinality(agreeing) >= CorroborationFloor /\ dissenting = {}

EjectionIsEarned ==
    /\ stage # "done" => ejected = {}
    /\ grade = "failed" => agreeing \cup dissenting = {}
    /\ OnlyFailureEjects

ReadInv == RoundIsFair /\ StagesAreInOrder /\ FalsehoodIsFaulty /\ GradeIsEarned /\ EjectionIsEarned

\* A read that has not begun has nothing behind it, the first of a call or
\* another.
LEMMA FirstReadIsFair == Init => ReadInv
BY FS_EmptySet
DEF Init, ReadInv, RoundIsFair, StagesAreInOrder, FalsehoodIsFaulty, GradeIsEarned, EjectionIsEarned,
    OnlyFailureEjects, Panel, OneVoiceEach

LEMMA FreshReadIsFair == FreshRead => ReadInv'
BY FS_EmptySet
DEF FreshRead, ReadInv, RoundIsFair, StagesAreInOrder, FalsehoodIsFaulty, GradeIsEarned,
    EjectionIsEarned, OnlyFailureEjects, Panel, OneVoiceEach

\* An answer or a failure moves one of the panel, and leaves it the panel.
LEMMA AnswersKeepThePanel ==
  ASSUME ReadInv, NEW a \in waiting, CorroboratorAnswers(a) \/ CorroboratorFails(a)
  PROVE  RoundIsFair' /\ Panel' = Panel
<1>1. Panel' = Panel
  BY DEF CorroboratorAnswers, CorroboratorFails, Panel
<1>2. /\ asked' = asked
      /\ (waiting \cap (agreeing \cup dissenting \cup failed) = {})'
      /\ (failed \cap (agreeing \cup dissenting) = {})'
  BY DEF CorroboratorAnswers, CorroboratorFails, ReadInv, RoundIsFair
<1>. QED  BY <1>1, <1>2 DEF ReadInv, RoundIsFair, OneVoiceEach

\* Every step of a read keeps it fair, its stages in order, its falsehoods with
\* the faulty, its grade and its ejections earned.
LEMMA ReadStaysFair ==
  ASSUME ReadInv, Next
  PROVE  ReadInv'
<1>. USE VoicesAssumption DEF ReadInv, StagesAreInOrder, FalsehoodIsFaulty, GradeIsEarned,
                              EjectionIsEarned, OnlyFailureEjects, round
<1>1. CASE Pick
  BY <1>1 DEF Pick, Pools, EndWith, RoundIsFair, Panel, OneVoiceEach
<1>2. CASE FirstAnswers
  <2>1. RoundIsFair' /\ StagesAreInOrder'
    BY <1>2 DEF FirstAnswers, RoundIsFair, Panel, OneVoiceEach
  <2>2. FalsehoodIsFaulty'
    BY <1>2 DEF FirstAnswers, Says, Panel
  <2>. QED  BY <1>2, <2>1, <2>2 DEF FirstAnswers
<1>3. CASE FirstFails
  BY <1>3 DEF FirstFails, EndWith, RoundIsFair, Panel, OneVoiceEach
<1>4. CASE ReadReadiness
  <2>1. PICK a \in asked, pool \in Pools :
           /\ armed' = Armed(pool, a)
           /\ armable' = (Cardinality(OtherHosts(pool, a)) >= CorroborationFloor)
    BY <1>4 DEF ReadReadiness
  <2>2. armed' => armable'
    BY <2>1, ArmedByMachines
  <2>. QED  BY <1>4, <2>2 DEF ReadReadiness, RoundIsFair, Panel, OneVoiceEach
<1>5. CASE SelectCorroborators
  <2>0. PICK a \in asked, pool \in Pools : \E panel \in Panels(pool, a) :
           /\ waiting' = panel
           /\ IF panel = {} THEN EndWith("uncorroborated") ELSE stage' = "round" /\ UNCHANGED grade
    BY <1>5 DEF SelectCorroborators
  <2>1. PICK panel \in Panels(pool, a) :
           /\ waiting' = panel
           /\ IF panel = {} THEN EndWith("uncorroborated") ELSE stage' = "round" /\ UNCHANGED grade
    BY <2>0
  <2>2. agreeing = {} /\ dissenting = {} /\ failed = {} /\ Panel' = waiting'
        /\ UNCHANGED <<truth, asked, first, armed, agreeing, dissenting, failed, ejected, armable>>
    BY <1>5 DEF SelectCorroborators, Panel
  <2>3. a \in Address
    OBVIOUS
  <2>4. /\ IsFiniteSet(panel) /\ panel \subseteq Discovered /\ OneVoiceEach(panel)
        /\ \A b \in panel : HostOf[b] # HostOf[a]
    BY <2>3, PanelsAreFair
  <2>5. asked' = asked /\ \A b \in asked : HostOf[b] = HostOf[a]
    BY <1>5 DEF SelectCorroborators
  <2>6. RoundIsFair'
    BY <2>1, <2>2, <2>4, <2>5 DEF RoundIsFair, OneVoiceEach
  <2>7. StagesAreInOrder'
    BY <1>5, <2>1, <2>2, <2>5 DEF SelectCorroborators, EndWith, Panel
  <2>8. FalsehoodIsFaulty'
    BY <1>5, <2>2, <2>5 DEF SelectCorroborators
  <2>. QED  BY <1>5, <2>1, <2>2, <2>6, <2>7, <2>8 DEF SelectCorroborators, EndWith
<1>6. ASSUME NEW a \in waiting, CorroboratorAnswers(a)
      PROVE  ReadInv'
  <2>1. RoundIsFair' /\ Panel' = Panel
    BY <1>6, AnswersKeepThePanel
  <2>2. FalsehoodIsFaulty'
    BY <1>6 DEF CorroboratorAnswers, Says
  <2>. QED  BY <1>6, <2>1, <2>2 DEF CorroboratorAnswers
<1>7. ASSUME NEW a \in waiting, CorroboratorFails(a)
      PROVE  ReadInv'
  <2>1. RoundIsFair' /\ Panel' = Panel
    BY <1>7, AnswersKeepThePanel
  <2>. QED  BY <1>7, <2>1 DEF CorroboratorFails
<1>8. CASE Grade
  <2>1. RoundIsFair' /\ UNCHANGED <<truth, asked, first, armed, waiting, agreeing, dissenting,
                                    failed, armable>>
    BY <1>8 DEF Grade, RoundIsFair, Panel, OneVoiceEach
  <2>2. grade' \in {"disagree", "corroborated", "uncorroborated"}
        /\ (grade' = "corroborated" => dissenting = {} /\ Corroborated(armed, Cardinality(agreeing)))
    BY <1>8 DEF Grade, EndWith, Verdict
  <2>3. stage = "round" /\ waiting = {} /\ grade = "none" /\ stage' = "done" /\ ejected' = failed
    BY <1>8 DEF Grade, RoundOver, EndWith, Unusable
  <2>4. StagesAreInOrder' /\ FalsehoodIsFaulty'
    BY <2>1, <2>2, <2>3, Zenon DEF Panel
  <2>5. EjectionIsEarned'
    BY <2>1, <2>2, <2>3 DEF RoundIsFair
  <2>. QED  BY <2>1, <2>2, <2>4, <2>5 DEF Corroborated
<1>. QED  BY <1>1, <1>2, <1>3, <1>4, <1>5, <1>6, <1>7, <1>8 DEF Next

-----------------------------------------------------------------------------
(* The router and the wait.                                                 *)

\* The three ways an answer becomes a fact.
Corroborates == grade = "corroborated" /\ reply.value = first
CoinsetSaid == coinset = {reply.value} /\ (coinset_lies \/ reply.value = truth)
ReplyIsBacked ==
    reply.kind = "Ok" =>
        /\ route = "done"
        /\ \/ Corroborates
           \/ CoinsetSaid /\ grade = "uncorroborated" /\ reply.value = first
           \/ CoinsetSaid /\ BothReadsErred

RouteIsInOrder ==
    /\ route = "peer" => attempts \in Seq({"failed", "disagree"})
    /\ route = "second" => grade = "uncorroborated"
    /\ route = "alone" => BothReadsErred

RouterInv == ReadInv /\ RouteIsInOrder /\ ReplyIsBacked

LEMMA SecondIsAppended ==
  ASSUME NEW S, NEW s \in Seq(S), NEW g \in S, Len(s) = 1
  PROVE  Len(Append(s, g)) = 2 /\ Append(s, g)[1] \in S /\ Append(s, g)[2] \in S
<1>1. Len(Append(s, g)) = Len(s) + 1
  BY AppendProperties
<1>2. Append(s, g)[Len(s) + 1] = g
  BY AppendProperties
<1>3. Append(s, g)[1] = s[1]
  <2>1. \A i \in 1 .. Len(s) : Append(s, g)[i] = s[i]
    BY AppendProperties
  <2>. QED  BY <2>1
<1>4. s[1] \in S
  BY 1 \in 1 .. Len(s), ElementOfSeq
<1>. QED  BY <1>1, <1>2, <1>3, <1>4

\* Whichever attempts fail and whatever the coinset tier says.
LEMMA RouterStaysInOrder ==
  ASSUME RouterInv, RouterNext
  PROVE  RouterInv'
<1>. USE DEF RouterInv, RouteIsInOrder, ReplyIsBacked, Corroborates, CoinsetSaid, tiers
<1>1. CASE PeerTierReads
  <2>1. ReadInv'
    BY <1>1, ReadStaysFair DEF PeerTierReads
  <2>. QED  BY <1>1, <2>1 DEF PeerTierReads
<1>2. ASSUME UNCHANGED vars
      PROVE  ReadInv' /\ UNCHANGED <<truth, grade, first>>
  BY <1>2
  DEF vars, round, ReadInv, RoundIsFair, StagesAreInOrder, FalsehoodIsFaulty, GradeIsEarned,
      EjectionIsEarned, OnlyFailureEjects, Panel, OneVoiceEach
<1>3. CASE SettlePeerAnswer
  BY <1>2, <1>3 DEF SettlePeerAnswer, SettlesAlone, Reply, Ok, Err
<1>4. CASE Retry
  <2>1. ReadInv'
    BY <1>4, FreshReadIsFair DEF Retry
  <2>. QED  BY <1>4, <2>1 DEF Retry, Erred, StagesAreInOrder, ReadInv
<1>5. CASE RetryErrs
  <2>1. BothReadsErred'
    <3>1. /\ attempts \in Seq({"failed", "disagree"}) /\ Len(attempts) = 1
          /\ grade \in {"failed", "disagree"} /\ attempts' = Append(attempts, grade)
      BY <1>5 DEF RetryErrs, Erred
    <3>2. /\ Len(Append(attempts, grade)) = 2
          /\ Append(attempts, grade)[1] \in {"failed", "disagree"}
          /\ Append(attempts, grade)[2] \in {"failed", "disagree"}
      BY <3>1, SecondIsAppended
    <3>. QED  BY <3>1, <3>2 DEF BothReadsErred
  <2>. QED  BY <1>2, <1>5, <2>1 DEF RetryErrs, Reply, Err, Erred
<1>6. CASE CoinsetSeconds
  <2>1. PICK a \in CoinsetSays : coinset' = {a} /\ Reply(Settlement(a))
    BY <1>6 DEF CoinsetSeconds
  <2>. QED  BY <1>2, <1>6, <2>1 DEF CoinsetSeconds, CoinsetSays, Settlement, Reply, Ok, Err
<1>7. CASE CoinsetAnswersAlone
  BY <1>2, <1>7 DEF CoinsetAnswersAlone, CoinsetSays, Reply, Ok, BothReadsErred
<1>8. CASE CoinsetFails
  BY <1>2, <1>8 DEF CoinsetFails, Reply, Err
<1>. QED  BY <1>1, <1>3, <1>4, <1>5, <1>6, <1>7, <1>8 DEF RouterNext

\* However often it is polled, and whatever becomes of the chain in between.
LEMMA PollsStayInOrder ==
  ASSUME RouterInv, WaitNext
  PROVE  RouterInv'
<1>1. CASE Poll
  BY <1>1, RouterStaysInOrder DEF Poll
<1>2. ASSUME UNCHANGED routerVars
      PROVE  RouterInv'
  BY <1>2
  DEF routerVars, tiers, vars, round, ReadInv, RoundIsFair, StagesAreInOrder, FalsehoodIsFaulty,
      GradeIsEarned, EjectionIsEarned, OnlyFailureEjects, Panel, OneVoiceEach, RouterInv,
      RouteIsInOrder, ReplyIsBacked, Corroborates, CoinsetSaid, BothReadsErred
<1>3. CASE ReturnRecord
  BY <1>2, <1>3 DEF ReturnRecord
<1>4. CASE GiveUp
  BY <1>2, <1>4 DEF GiveUp
<1>5. CASE PollAgain
  <2>1. ReadInv'
    BY <1>5, FreshReadIsFair DEF PollAgain, NextPoll
  <2>. QED
    BY <1>5, <2>1 DEF PollAgain, NextPoll, NoReply, RouterInv, RouteIsInOrder, ReplyIsBacked
<1>. QED  BY <1>1, <1>3, <1>4, <1>5 DEF WaitNext


\* What the state of a query that is in order says of its answer.
LEMMA AgreementIsOfMachines ==
  ASSUME ReadInv, grade = "corroborated", first # truth
  PROVE  /\ agreeing \subseteq Discovered /\ HostsOf(agreeing) \subseteq Faulty
         /\ Cardinality(HostsOf(agreeing)) >= CorroborationFloor
         /\ \A a \in asked : HostOf[a] \in Faulty /\ HostOf[a] \notin HostsOf(agreeing)
         /\ asked # {} /\ dissenting = {}
<1>1. agreeing \in SUBSET Address /\ agreeing \subseteq Panel /\ IsFiniteSet(agreeing) /\ OneVoiceEach(agreeing)
  BY FS_Subset DEF ReadInv, RoundIsFair, Panel, OneVoiceEach, Discovered
<1>2. Cardinality(HostsOf(agreeing)) = Cardinality(agreeing)
  BY <1>1, VoicesAreMachines
<1>3. stage = "done"
  BY DEF ReadInv, StagesAreInOrder
<1>4. HostsOf(agreeing) \subseteq Faulty /\ \A a \in asked : HostOf[a] \in Faulty
  BY <1>3 DEF ReadInv, FalsehoodIsFaulty, HostsOf
<1>5. agreeing \subseteq Discovered /\ \A a \in asked : HostOf[a] \notin HostsOf(agreeing)
  BY <1>1 DEF ReadInv, RoundIsFair, HostsOf
<1>. QED  BY <1>2, <1>3, <1>4, <1>5 DEF ReadInv, StagesAreInOrder, GradeIsEarned

LEMMA OrderIsEnough ==
  ASSUME RouterInv
  PROVE  /\ FalsehoodNeedsMoreHosts /\ OneReliableVoiceBlocksIt /\ ArrivalsDoNotRescue
         /\ OnlyFailureEjects /\ WrongNeedsTwoSources
<1>1. ASSUME Misled
      PROVE  FalsehoodNeedsMoreHosts /\ OneReliableVoiceBlocksIt
  <2>1. /\ agreeing \subseteq Discovered /\ HostsOf(agreeing) \subseteq Faulty
        /\ Cardinality(HostsOf(agreeing)) >= CorroborationFloor
        /\ \A a \in asked : HostOf[a] \in Faulty /\ HostOf[a] \notin HostsOf(agreeing)
        /\ asked # {} /\ dissenting = {}
    BY <1>1, AgreementIsOfMachines DEF Misled, RouterInv
  <2>2. PICK a \in asked : TRUE
    BY <2>1
  <2>3. agreeing \cap Discovered = agreeing /\ HostsOf(agreeing) \ {HostOf[a]} = HostsOf(agreeing)
    BY <2>1
  <2>4. FalsehoodNeedsMoreHosts
    BY <2>1, <2>3 DEF FalsehoodNeedsMoreHosts, HostsOf
  <2>5. OneReliableVoiceBlocksIt
    BY <2>1 DEF OneReliableVoiceBlocksIt, HostsOf
  <2>. QED  BY <2>4, <2>5
<1>2. ~ Misled => FalsehoodNeedsMoreHosts /\ OneReliableVoiceBlocksIt
  BY DEF FalsehoodNeedsMoreHosts, OneReliableVoiceBlocksIt
<1>3. ArrivalsDoNotRescue /\ OnlyFailureEjects
  BY DEF RouterInv, ReadInv, GradeIsEarned, StagesAreInOrder, EjectionIsEarned, ArrivalsDoNotRescue
<1>4. ASSUME IsWrong
      PROVE  WrongNeedsTwoSources
  <2>1. CASE Corroborates
    <3>1. HostsOf(agreeing) \subseteq Faulty /\ Cardinality(HostsOf(agreeing)) >= CorroborationFloor
      BY <1>4, <2>1, AgreementIsOfMachines DEF IsWrong, Corroborates, RouterInv
    <3>2. {HostOf[a] : a \in agreeing} \cap Faulty = HostsOf(agreeing)
      BY <3>1 DEF HostsOf
    <3>. QED  BY <3>1, <3>2 DEF WrongNeedsTwoSources
  <2>2. CASE CoinsetSaid /\ grade = "uncorroborated" /\ reply.value = first
    BY <1>4, <2>2
    DEF IsWrong, CoinsetSaid, WrongNeedsTwoSources, RouterInv, ReadInv, StagesAreInOrder, FalsehoodIsFaulty
  <2>3. CASE CoinsetSaid /\ BothReadsErred
    BY <1>4, <2>3 DEF IsWrong, CoinsetSaid, WrongNeedsTwoSources
  <2>. QED  BY <1>4, <2>1, <2>2, <2>3 DEF IsWrong, RouterInv, ReplyIsBacked
<1>. QED  BY <1>1, <1>2, <1>3, <1>4 DEF WrongNeedsTwoSources

LEMMA QueriesBeginInOrder == ClientInit => RouterInv
BY FirstReadIsFair
DEF ClientInit, WaitInit, RouterInit, RouterInv, RouteIsInOrder, ReplyIsBacked, NoReply

\* Nothing but the wait's own steps touches its queries.
LEMMA CallsStayInOrder == RouterInv /\ [ClientNext]_clientVars => RouterInv'
<1>. SUFFICES ASSUME RouterInv, [ClientNext]_clientVars
              PROVE  RouterInv'
  OBVIOUS
<1>1. CASE Confirms
  BY <1>1, PollsStayInOrder DEF Confirms
<1>2. CASE UNCHANGED routerVars
  BY <1>2
  DEF routerVars, tiers, vars, round, ReadInv, RoundIsFair, StagesAreInOrder, FalsehoodIsFaulty,
      GradeIsEarned, EjectionIsEarned, OnlyFailureEjects, Panel, OneVoiceEach, RouterInv,
      RouteIsInOrder, ReplyIsBacked, Corroborates, CoinsetSaid, BothReadsErred
<1>3. Confirms \/ UNCHANGED routerVars
  BY DEF ClientNext, CallGoesOn, Constructs, Pushes, Reads, Surroundings, clientVars, confirmationVars
<1>. QED  BY <1>1, <1>2, <1>3

LEMMA QueriesAreInOrder == ClientSpec => []RouterInv
BY QueriesBeginInOrder, CallsStayInOrder, PTL DEF ClientSpec

\* Throughout a wait, in every query of it, a falsehood is reported as
\* corroborated only if faulty machines repeat it, discovered ones and none of
\* them the one asked first, as many as CORROBORATION_FLOOR says: whichever
\* ports they have, and whatever the pool holds at each step.
THEOREM FalsehoodTakesTheFloor == ClientSpec => []FalsehoodNeedsMoreHosts
BY OrderIsEnough, QueriesAreInOrder, PTL

\* And only if no reliable machine has answered.
THEOREM ReliableVoiceBlocks == ClientSpec => []OneReliableVoiceBlocksIt
BY OrderIsEnough, QueriesAreInOrder, PTL

\* A round is corroborated only where the pool could have done it when the round
\* began: a machine seated in the middle of it arms nothing.
THEOREM RoundsAreArmedBeforehand == ClientSpec => []ArrivalsDoNotRescue
BY OrderIsEnough, QueriesAreInOrder, PTL

\* A falsehood reaches the caller as a fact only if two sources have lied: the
\* floor's machines, or the coinset tier and the peer it seconded -- or the
\* coinset tier alone once both reads of the peers have erred.
THEOREM FactsTakeTwoSources == ClientSpec => []WrongNeedsTwoSources
BY OrderIsEnough, QueriesAreInOrder, PTL

-----------------------------------------------------------------------------
(* The push.                                                                *)

Transmitted(l, seats) == {[leg |-> l, address |-> s.address] : s \in seats}

\* What a leg has transmitted: to the peer it asks, if it asks one yet, and
\* before that to the one peer of the first leg.
MaySend(l, asking, transmissions) ==
    /\ l = "first" => transmissions = Transmitted("first", asking)
    /\ l = "retry" =>
          \E s : transmissions \subseteq Transmitted("first", {s}) \cup Transmitted("retry", asking)
    /\ l = "other" =>
          \E s : transmissions = Transmitted("first", {s}) \cup Transmitted("other", asking)

LegsAreInOrder == MaySend(pLeg, pAsked, pSent)

\* One transmission at a time, none after the reply, and a verdict once there
\* is one to wait for another peer with.
VerdictsAreInOrder ==
    /\ pLeg \in {"first", "retry", "other", "coinset"}
    /\ \A s, t \in pAsked : s = t
    /\ pReply # "none" \/ pLeg = "coinset" => pAsked = {}
    /\ pVerdict = IF pLeg = "other" THEN "view" ELSE "none"

\* No admission was answered unless the caller is told of it.
AdmissionsAreTold == pReply # "admitted" => pAdmitted \subseteq pUnanswered

TwoTransmissions == IsFiniteSet(pSent) /\ Cardinality(pSent) <= 2

PushInv ==
    /\ pReply = "none" => LegsAreInOrder
    /\ VerdictsAreInOrder
    /\ AdmissionsAreTold
    /\ TwoTransmissions

LEMMA TransmissionsAreOne ==
  ASSUME NEW l, NEW seats, \A s, t \in seats : s = t
  PROVE  /\ IsFiniteSet(Transmitted(l, seats))
         /\ Cardinality(Transmitted(l, seats)) = IF seats = {} THEN 0 ELSE 1
<1>1. CASE seats = {}
  BY <1>1, FS_EmptySet DEF Transmitted
<1>2. ASSUME NEW s \in seats
      PROVE  IsFiniteSet(Transmitted(l, seats)) /\ Cardinality(Transmitted(l, seats)) = 1
  <2>1. Transmitted(l, seats) = {[leg |-> l, address |-> s.address]}
    BY DEF Transmitted
  <2>. QED  BY <2>1, FS_Singleton
<1>. QED  BY <1>1, <1>2

\* Two legs transmit twice, unless the second has nobody to ask.
LEMMA TransmissionsAreTwo ==
  ASSUME NEW s, NEW l, l # "first", NEW seats, \A t, u \in seats : t = u
  PROVE  LET sent == Transmitted("first", {s}) \cup Transmitted(l, seats)
         IN  IsFiniteSet(sent) /\ Cardinality(sent) = IF seats = {} THEN 1 ELSE 2
<1>. DEFINE early == Transmitted("first", {s})
            late == Transmitted(l, seats)
<1>1. IsFiniteSet(early) /\ Cardinality(early) = 1
  <2>1. \A t, u \in {s} : t = u
    OBVIOUS
  <2>. QED  BY <2>1, TransmissionsAreOne
<1>2. IsFiniteSet(late) /\ Cardinality(late) = IF seats = {} THEN 0 ELSE 1
  BY TransmissionsAreOne
<1>3. early \cap late = {}
  BY DEF Transmitted
<1>. HIDE DEF early, late
<1>4. IsFiniteSet(early \cup late) /\ Cardinality(early \cup late) = Cardinality(early) + Cardinality(late)
  BY <1>1, <1>2, <1>3, FS_EmptySet, FS_Union
<1>5. Cardinality(early \cup late) = IF seats = {} THEN 1 ELSE 2
  BY <1>1, <1>2, <1>4
<1>. QED  BY <1>4, <1>5 DEF early, late

\* What a leg has transmitted it has transmitted at most twice.
LEMMA LegsSendTwice ==
  ASSUME NEW l \in {"first", "retry", "other"}, NEW asking, \A s, t \in asking : s = t,
         NEW transmissions, MaySend(l, asking, transmissions)
  PROVE  IsFiniteSet(transmissions) /\ Cardinality(transmissions) <= 2
<1>1. CASE l = "first"
  BY <1>1, TransmissionsAreOne DEF MaySend
<1>2. ASSUME NEW s, l # "first", 
             transmissions \subseteq Transmitted("first", {s}) \cup Transmitted(l, asking)
      PROVE  IsFiniteSet(transmissions) /\ Cardinality(transmissions) <= 2
  <2>. DEFINE both == Transmitted("first", {s}) \cup Transmitted(l, asking)
  <2>1. IsFiniteSet(both) /\ Cardinality(both) = IF asking = {} THEN 1 ELSE 2
    BY <1>2, TransmissionsAreTwo
  <2>2. transmissions \in SUBSET both
    BY <1>2
  <2>. HIDE DEF both
  <2>3. IsFiniteSet(transmissions) /\ Cardinality(transmissions) <= Cardinality(both)
    BY <2>1, <2>2, FS_Subset
  <2>4. Cardinality(transmissions) \in Nat
    BY <2>3, FS_CardinalityType
  <2>. QED  BY <2>1, <2>3, <2>4
<1>. QED  BY <1>1, <1>2 DEF MaySend

LEMMA PushesBeginInOrder == ClientInit => PushInv
BY FS_EmptySet
DEF ClientInit, Push!Init, PushInv, LegsAreInOrder, MaySend, VerdictsAreInOrder, AdmissionsAreTold, TwoTransmissions,
    Transmitted

\* Whoever is picked, whatever is answered and whichever transmission fails.
LEMMA PushStaysInOrder ==
  ASSUME PushInv, Push!PushStep
  PROVE  PushInv'
<1>. USE DEF PushInv, VerdictsAreInOrder, AdmissionsAreTold, Push!Running
<1>1. CASE Push!PickPeer
  <2>1. PICK s \in Push!Candidates :
           pAsked' = {s} /\ pSent' = pSent \cup {[leg |-> pLeg, address |-> s.address]}
    BY <1>1 DEF Push!PickPeer
  <2>2. pSent' = pSent \cup Transmitted(pLeg, {s}) /\ Transmitted(pLeg, {}) = {}
    BY <2>1 DEF Transmitted
  <2>3. LegsAreInOrder'
    BY <1>1, <2>1, <2>2 DEF Push!PickPeer, LegsAreInOrder, MaySend
  <2>4. (\A t, u \in pAsked : t = u)' /\ (pLeg \in {"first", "retry", "other"})'
    BY <1>1, <2>1 DEF Push!PickPeer
  <2>5. TwoTransmissions'
    BY <2>3, <2>4, LegsSendTwice DEF LegsAreInOrder, TwoTransmissions
  <2>. QED  BY <1>1, <2>3, <2>4, <2>5 DEF Push!PickPeer
<1>2. CASE Push!NobodyToAsk
  BY <1>2 DEF Push!NobodyToAsk, Push!AfterFailure, LegsAreInOrder, MaySend, Transmitted, TwoTransmissions
<1>3. CASE Push!PeerAnswers
  <2>1. PICK s \in pAsked : \E v \in Push!Answers(s.address) :
           /\ pAdmitted' = IF v = "admitted" /\ s.address \notin Unreliable
                           THEN pAdmitted \cup {s.address} ELSE pAdmitted
           /\ IF pLeg = "first" /\ ~ Push!IsFinal(v)
              THEN pLeg' = "other" /\ pVerdict' = v /\ UNCHANGED pReply
              ELSE pReply' = Push!Outcome(v) /\ UNCHANGED <<pLeg, pVerdict>>
    BY <1>3 DEF Push!PeerAnswers
  <2>2. PICK v \in {"admitted", "intrinsic", "view"} :
           /\ pAdmitted' = IF v = "admitted" /\ s.address \notin Unreliable
                           THEN pAdmitted \cup {s.address} ELSE pAdmitted
           /\ IF pLeg = "first" /\ ~ Push!IsFinal(v)
              THEN pLeg' = "other" /\ pVerdict' = v /\ UNCHANGED pReply
              ELSE pReply' = Push!Outcome(v) /\ UNCHANGED <<pLeg, pVerdict>>
    BY <2>1 DEF Push!Answers, Push!Verdicts
  <2>3. pAsked' = {} /\ UNCHANGED <<pSent, pUnanswered>> /\ pReply = "none" /\ TwoTransmissions'
    BY <1>3 DEF Push!PeerAnswers, TwoTransmissions
  <2>4. CASE pLeg = "first" /\ ~ Push!IsFinal(v)
    <3>1. pAsked = {s}
      OBVIOUS
    <3>2. LegsAreInOrder'
      BY <2>2, <2>3, <2>4, <3>1 DEF LegsAreInOrder, MaySend, Transmitted
    <3>. QED  BY <2>2, <2>3, <2>4, <3>2 DEF Push!IsFinal
  <2>5. CASE ~ (pLeg = "first" /\ ~ Push!IsFinal(v))
    BY <2>2, <2>3, <2>5 DEF Push!IsFinal, Push!Outcome
  <2>. QED  BY <2>4, <2>5
<1>4. CASE Push!PeerFails
  <2>1. PICK s \in pAsked :
           /\ pAdmitted' \in {pAdmitted} \cup (IF pValid THEN {pAdmitted \cup {s.address}} ELSE {})
           /\ pUnanswered' = pUnanswered \cup {s.address}
           /\ pAsked' = {} /\ Push!AfterFailure /\ UNCHANGED <<pSent, pVerdict>>
    BY <1>4 DEF Push!PeerFails
  <2>2. pReply = "none" /\ AdmissionsAreTold' /\ TwoTransmissions' /\ pAsked = {s}
    BY <2>1 DEF Push!AfterFailure, TwoTransmissions
  <2>3. VerdictsAreInOrder'
    BY <2>1, <2>2 DEF Push!AfterFailure
  <2>4. (pReply = "none" => LegsAreInOrder)'
    BY <2>1, <2>2 DEF Push!AfterFailure, LegsAreInOrder, MaySend, Transmitted
  <2>. QED  BY <2>2, <2>3, <2>4
<1>5. CASE Push!CoinsetAnswers
  BY <1>5 DEF Push!CoinsetAnswers, LegsAreInOrder, TwoTransmissions
<1>. QED  BY <1>1, <1>2, <1>3, <1>4, <1>5 DEF Push!PushStep

\* The instance counts as its client does.
LEMMA PushCounts == \A S : Push!Cardinality(S) = Cardinality(S)
BY DEF Push!Cardinality, Cardinality

\* Every step of a client is a step of the push or leaves the push where it is.
LEMMA StepsOfAPush ==
  ASSUME [ClientNext]_clientVars
  PROVE  \/ Push!PushStep
         \/ UNCHANGED <<pLeg, pAsked, pSent, pAdmitted, pUnanswered, pVerdict, pReply>>
BY DEF ClientNext, CallGoesOn, Constructs, Confirms, Pushes, Reads, Surroundings, clientVars, pVars, Push!PoolMoves

LEMMA CallsPushInOrder == PushInv /\ [ClientNext]_clientVars => PushInv'
BY StepsOfAPush, PushStaysInOrder
DEF PushInv, LegsAreInOrder, VerdictsAreInOrder, AdmissionsAreTold, TwoTransmissions

LEMMA PushesAreInOrder == ClientSpec => []PushInv
BY PushesBeginInOrder, CallsPushInOrder, PTL DEF ClientSpec

\* Whichever transmissions are refused and whichever fail, the bundle goes to at
\* most two peers, a verdict of a peer keeps the coinset tier from being asked,
\* and a caller told of a refusal is not told so in the face of an admission
\* that was answered.
THEOREM PushesAreAccountable == ClientSpec => []PushIsAccountable
<1>1. PushInv => PushIsAccountable
  BY PushCounts
  DEF PushInv, VerdictsAreInOrder, AdmissionsAreTold, TwoTransmissions, PushIsAccountable,
      Push!NoThirdDestination, Push!RefusalIsClean
<1>. QED  BY <1>1, PushesAreInOrder, PTL

\* The leg to another peer ends with the view of the first one only if that
\* other peer has been transmitted to, or there is none.
LEMMA ViewsAreSeconded ==
  ASSUME PushInv, [ClientNext]_clientVars, pReply = "none", pReply' = "view",
         Cardinality(pSent) = 1, pLeg \in {"first", "other"}, NEW s \in pHeld
  PROVE  \E t \in pSent : s.address = t.address
<1>. USE DEF PushInv, VerdictsAreInOrder
<1>1. Push!PushStep
  BY StepsOfAPush
<1>2. pAsked = {} \/ pLeg = "first"
  <2>1. SUFFICES ASSUME pLeg = "other"
                 PROVE  pAsked = {}
    OBVIOUS
  <2>2. PICK u : pSent = Transmitted("first", {u}) \cup Transmitted("other", pAsked)
    BY <2>1 DEF LegsAreInOrder, MaySend
  <2>3. IsFiniteSet(pSent) /\ Cardinality(pSent) = IF pAsked = {} THEN 1 ELSE 2
    BY <2>2, TransmissionsAreTwo
  <2>. QED  BY <2>3
<1>3. CASE Push!NobodyToAsk
  BY <1>3 DEF Push!NobodyToAsk, Push!AfterFailure, Push!Candidates, Push!OtherPeers
<1>4. CASE Push!PeerAnswers
  BY <1>2, <1>4 DEF Push!PeerAnswers, Push!Outcome, Push!IsFinal, Push!Answers, Push!Verdicts
<1>5. ~ Push!PickPeer /\ ~ Push!PeerFails /\ ~ Push!CoinsetAnswers
  BY <1>2 DEF Push!PickPeer, Push!PeerFails, Push!AfterFailure, Push!CoinsetAnswers
<1>. QED  BY <1>1, <1>3, <1>4, <1>5 DEF Push!PushStep

\* The view of one node ends a push only if every other node held, the
\* operator's own included, has been asked too or there is none: whatever the
\* pool does in between.
THEOREM NoNodeVetoes == ClientSpec => NoVetoByOneNode
<1>1. PushInv /\ [ClientNext]_clientVars =>
         [Push!Running /\ pReply' = "view" /\ Push!Cardinality(pSent) = 1 /\ pLeg \in {"first", "other"} =>
            \A s \in pHeld : \E t \in pSent : s.address = t.address]_Push!vars
  BY ViewsAreSeconded, PushCounts DEF Push!Running
<1>. QED  BY <1>1, PushesAreInOrder, PTL DEF ClientSpec, NoVetoByOneNode, Push!NoVetoByOneNode

\* The steps of a push that empty a seat are its failed transmissions, and the
\* read ejects whom it could not read.
THEOREM FailuresAloneCostSeats == ClientSpec => OnlyFailureCostsASeat
<1>1. RouterInv => OnlyFailureEjects
  BY OrderIsEnough
<1>2. [ClientNext]_clientVars =>
         [<<pLeg, pAsked, pReply>>' # <<pLeg, pAsked, pReply>> =>
            \A s \in pHeld \ pHeld' : s.address \in pUnanswered']_Push!vars
  BY StepsOfAPush
  DEF Push!PushStep, Push!PickPeer, Push!NobodyToAsk, Push!PeerAnswers, Push!RefuserStays, Push!PeerFails,
      Push!CoinsetAnswers
<1>. QED
  BY <1>1, <1>2, QueriesAreInOrder, PTL
  DEF ClientSpec, OnlyFailureCostsASeat, Push!RefusalEjectsNobody

-----------------------------------------------------------------------------
(* The read that is not corroborated.                                       *)

\* An endpoint that takes its answer from a field answers what the field holds,
\* or errs.
LEMMA FieldsAreTheAnswer ==
  ASSUME NEW endpoint \in {"get_block_record", "get_blocks", "get_block", "get_block_record_by_height",
                           "get_additions_and_removals"},
         NEW r, Read!BlocksEndpoint(endpoint, r).ok
  PROVE  r.field.is = "value" /\ Read!BlocksEndpoint(endpoint, r).value = r.field.value
<1>1. ASSUME Read!PostExtract(r).ok
      PROVE  r.field.is = "value" /\ Read!PostExtract(r).value = r.field.value
  BY <1>1 DEF Read!PostExtract, Read!Parsed, Read!Ok, Read!Err
<1>2. Read!BlocksEndpoint(endpoint, r) = Read!PostExtract(r)
  BY DEF Read!BlocksEndpoint, Read!AdditionsAndRemovals, Read!Parsed, Read!Ok, Read!Err
<1>. QED  BY <1>1, <1>2

\* What coinset.org answers is so, or it is one that lies.
LEMMA RepliesAreWhatIsSo ==
  ASSUME NEW endpoint \in {"get_block_record", "get_blocks", "get_block", "get_block_record_by_height",
                           "get_additions_and_removals"},
         NEW fact, NEW all, NEW r \in Read!CoinsetReplies(endpoint, fact, all), r.ok
  PROVE  r.value \in IF rLies THEN all ELSE {fact}
<1>1. PICK e \in Read!Envelopes(IF rLies THEN all ELSE {fact}), s \in Read!Seconds :
         r = Read!BlocksEndpoint(endpoint, [e EXCEPT !.second = s])
  BY DEF Read!CoinsetReplies
<1>. DEFINE response == [e EXCEPT !.second = s]
<1>2. response.field = e.field
  BY <1>1 DEF Read!Envelopes, Read!Envelope
<1>. HIDE DEF response
<1>3. e.field.is = "value" /\ r.value = e.field.value
  <2>1. r = Read!BlocksEndpoint(endpoint, response)
    BY <1>1 DEF response
  <2>2. Read!BlocksEndpoint(endpoint, response).ok
    BY <2>1
  <2>. QED  BY <1>2, <2>1, <2>2, FieldsAreTheAnswer
<1>4. ASSUME NEW v \in IF rLies THEN all ELSE {fact}, e = Read!Envelope("true", Read!Value(v))
      PROVE  r.value = v
  BY <1>3, <1>4 DEF Read!Envelope, Read!Value
<1>5. e.field.is = "value" =>
         \E v \in IF rLies THEN all ELSE {fact} : e = Read!Envelope("true", Read!Value(v))
  BY <1>1 DEF Read!Envelopes, Read!Envelope
<1>. QED  BY <1>3, <1>4, <1>5

\* Which leg serves which read, and what it still may do.
ReadLegsAreInOrder ==
    /\ rCall \in Read!Call
    /\ rLeg \in {"resolve", "peer", "coinset", "by_hash", "rounds", "done"}
    /\ rReply = "none" <=> rLeg # "done"
    /\ rLeg = "resolve" => rCall.kind = "hash"
    /\ rLeg = "peer" => rCall.kind \in {"height", "range", "hash"}
    /\ rLeg = "coinset" => rCall.kind \in {"height", "range", "hash", "coinset"}
    /\ rLeg = "by_hash" => rCall.kind = "height" /\ fallback_enabled
    /\ rLeg = "rounds" => rCall.kind = "parents"
    /\ rCall.kind = "parents" => rLeg \in {"rounds", "done"}

\* Two attempts on the peers come before the first exchange.
PeersComeFirst ==
    /\ rExchanges \in Nat /\ rAttempts \in Nat
    /\ rExchanges > 0 => fallback_enabled
    /\ rCall.kind \in {"height", "range"} =>
          /\ rLeg = "peer" => rExchanges = 0 /\ rAttempts < 2
          /\ rLeg \in {"coinset", "by_hash"} \/ rExchanges > 0 => rAttempts = 2

LookupInv == ReadLegsAreInOrder /\ PeersComeFirst

LEMMA LookupsBeginInOrder == ClientInit => LookupInv
<1>. SUFFICES ASSUME Read!Init
              PROVE  LookupInv
  BY DEF ClientInit
<1>1. rCall \in Read!Call /\ rLeg = Read!FirstLeg(rCall) /\ rReply = "none" /\ rExchanges = 0 /\ rAttempts = 0
  BY DEF Read!Init
<1>2. rCall.kind \in {"hash", "height", "range", "coinset", "parents"}
  BY <1>1 DEF Read!Call
<1>3. ReadLegsAreInOrder /\ (rCall.kind \in {"height", "range"} => rLeg = "peer")
  BY <1>1, <1>2 DEF ReadLegsAreInOrder, Read!FirstLeg
<1>4. PeersComeFirst
  BY <1>1, <1>3 DEF PeersComeFirst
<1>. QED  BY <1>3, <1>4 DEF LookupInv

LEMMA LookupStaysInOrder ==
  ASSUME LookupInv, Read!ReadStep
  PROVE  LookupInv' /\ UNCHANGED <<fallback_enabled, rCall>>
<1>. USE DEF LookupInv, ReadLegsAreInOrder, PeersComeFirst, Read!Done, Read!world, Read!round, Read!Exchange,
             Read!RequireCoinset
<1>1. CASE Read!Resolve
  <2>1. /\ rLeg = "resolve" /\ rLeg' \in {"peer", "coinset"}
        /\ \/ fallback_enabled /\ rExchanges' = rExchanges + 1
           \/ UNCHANGED rExchanges
        /\ UNCHANGED <<fallback_enabled, rCall, rAttempts, rReply>>
    BY <1>1 DEF Read!Resolve
  <2>. QED  BY <2>1
<1>2. CASE Read!Unsupported
  BY <1>2 DEF Read!Unsupported
<1>3. CASE Read!AskCoinset
  <2>1. /\ rLeg = "coinset" /\ rLeg' = "done" /\ rReply' \in {"ok", "error"}
        /\ fallback_enabled /\ rExchanges' = rExchanges + 1
        /\ UNCHANGED <<fallback_enabled, rCall, rAttempts>>
    BY <1>3 DEF Read!AskCoinset
  <2>. QED  BY <2>1
<1>4. CASE Read!AskForHash
  <2>1. /\ rLeg = "coinset" /\ rCall.kind = "height"
        /\ \/ rLeg' = "by_hash" /\ UNCHANGED rReply
           \/ rLeg' = "done" /\ rReply' = "error"
        /\ fallback_enabled /\ rExchanges' = rExchanges + 1
        /\ UNCHANGED <<fallback_enabled, rCall, rAttempts>>
    BY <1>4 DEF Read!AskForHash
  <2>. QED  BY <2>1
<1>5. CASE Read!AskByHash
  <2>1. /\ rLeg = "by_hash" /\ rLeg' = "done" /\ rReply' \in {"ok", "error"}
        /\ rExchanges' = rExchanges + 1
        /\ UNCHANGED <<fallback_enabled, rCall, rAttempts>>
    BY <1>5 DEF Read!AskByHash
  <2>. QED  BY <2>1
<1>6. CASE \E a \in Address : Read!Pick(a)
  BY <1>6 DEF Read!Pick
<1>7. CASE Read!PeerAnswers
  BY <1>7 DEF Read!PeerAnswers
<1>8. CASE Read!AttemptFails
  <2>1. /\ rLeg = "peer" /\ rAttempts' = rAttempts + 1
        /\ CASE rAttempts' < Read!Attempts -> UNCHANGED <<rLeg, rReply>>
             [] rAttempts' >= Read!Attempts /\ (fallback_enabled \/ rCall.kind = "hash") ->
                    rLeg' = "coinset" /\ UNCHANGED rReply
             [] OTHER -> rLeg' = "done" /\ rReply' = "error"
        /\ UNCHANGED <<fallback_enabled, rCall, rExchanges>>
    BY <1>8 DEF Read!AttemptFails
  <2>2. \/ rAttempts' < Read!Attempts /\ UNCHANGED <<rLeg, rReply>>
        \/ rAttempts' >= Read!Attempts /\ rLeg' = "coinset" /\ UNCHANGED rReply
        \/ rLeg' = "done" /\ rReply' = "error"
    BY <2>1
  <2>. QED  BY <2>1, <2>2 DEF Read!Attempts
<1>9. CASE Read!Gathered
  BY <1>9 DEF Read!Gathered
<1>10. CASE \E parent \in rLeft, h \in Read!Height : Read!ReadChildren(parent, h)
  BY <1>10 DEF Read!ReadChildren
<1>11. CASE Read!RoundFails
  BY <1>11 DEF Read!RoundFails
<1>12. CASE Read!Combine
  BY <1>12 DEF Read!Combine
<1>. QED
  BY <1>1, <1>2, <1>3, <1>4, <1>5, <1>6, <1>7, <1>8, <1>9, <1>10, <1>11, <1>12
  DEF Read!ReadStep, Read!CoinsetTier, Read!PeerTier, Read!Rounds

\* Every step of a client is a step of the read, or moves no more of it than
\* the chain and the blocks that have been on it.
LEMMA StepsOfARead ==
  ASSUME [ClientNext]_clientVars
  PROVE  \/ Read!ReadStep
         \/ Read!Reorg
         \/ UNCHANGED <<rLies, rChain, rCall, rLeg, rAttempts, rWanted, rAsked, rGot, rItems, rLeft, rAsOf,
                        rReply, rExchanges, rHonest, rWas>>
BY DEF ClientNext, CallGoesOn, Constructs, Confirms, Pushes, Reads, Surroundings, clientVars, rVars

\* The operator's switch is what it was when the client was made.
LEMMA SwitchStays ==
  ASSUME [ClientNext]_clientVars
  PROVE  UNCHANGED fallback_enabled
<1>1. CASE Confirms
  BY <1>1
  DEF Confirms, WaitNext, Poll, ReturnRecord, GiveUp, PollAgain, NextPoll, routerVars, tiers, RouterNext, PeerTierReads,
      SettlePeerAnswer, Retry, RetryErrs, CoinsetSeconds, CoinsetAnswersAlone, CoinsetFails
<1>. QED
  BY <1>1
  DEF ClientNext, CallGoesOn, Constructs, Pushes, Reads, Surroundings, clientVars, confirmationVars, routerVars,
      tiers

LEMMA CallsLookInOrder == LookupInv /\ [ClientNext]_clientVars => LookupInv'
<1>. SUFFICES ASSUME LookupInv, [ClientNext]_clientVars
              PROVE  LookupInv'
  OBVIOUS
<1>1. CASE Read!ReadStep
  BY <1>1, LookupStaysInOrder
<1>2. CASE UNCHANGED <<rCall, rLeg, rAttempts, rReply, rExchanges>>
  BY <1>2, SwitchStays DEF LookupInv, ReadLegsAreInOrder, PeersComeFirst
<1>3. Read!ReadStep \/ UNCHANGED <<rCall, rLeg, rAttempts, rReply, rExchanges>>
  BY StepsOfARead DEF Read!Reorg, Read!progress
<1>. QED  BY <1>1, <1>2, <1>3

LEMMA LookupsAreInOrder == ClientSpec => []LookupInv
BY LookupsBeginInOrder, CallsLookInOrder, PTL DEF ClientSpec

\* Whatever the chain does and whoever fails: coinset.org is told of no call
\* that the operator does not allow it to be told of, and of none for blocks by
\* height before two attempts on the peers have failed.
THEOREM CoinsetIsAskedLast == ClientSpec => []CoinsetIsTheLastResort
<1>1. LookupInv => CoinsetIsTheLastResort
  BY DEF LookupInv, PeersComeFirst, CoinsetIsTheLastResort, Read!CoinsetIsTheLastResort
<1>. QED  BY <1>1, LookupsAreInOrder, PTL

-----------------------------------------------------------------------------
(* Children of several parents.                                             *)

ReadParents == rCall.ids \ rLeft

\* What has been read is complete at the lowest height so far, which is none
\* until a round has ended.
RoundsAreInOrder ==
    rCall.kind = "parents" /\ rLeg = "rounds" =>
        /\ ReadParents # {} => rAsOf \in Read!Height
        /\ rAsOf \in Read!Height \cup {MaxU32}
        /\ \A p \in ReadParents : \A b \in BornOf[p] : b <= rAsOf => [parent |-> p, born |-> b] \in rItems

ParentsInv == LookupInv /\ RoundsAreInOrder /\ Read!ParentsAreCompleteAtTheirHeight

LEMMA RoundStaysInOrder ==
  ASSUME ParentsInv, NEW parent \in rLeft, NEW h \in Read!Height, Read!ReadChildren(parent, h)
  PROVE  RoundsAreInOrder'
<1>. SUFFICES ASSUME rCall.kind = "parents", rLeg = "rounds"
              PROVE  RoundsAreInOrder'
  BY DEF Read!ReadChildren, RoundsAreInOrder
<1>1. rAsOf \in Nat /\ h \in Nat /\ rAsOf' \in Nat /\ rAsOf' \in Read!Height /\ rAsOf' <= rAsOf /\ rAsOf' <= h
  BY ClientAssumption DEF ParentsInv, RoundsAreInOrder, Read!Height, Read!ReadChildren, Read!Lowest
<1>2. rCall' = rCall /\ rLeg' = rLeg /\ rLeft' = rLeft \ {parent}
      /\ rItems' = rItems \cup {[parent |-> parent, born |-> b] : b \in {c \in BornOf[parent] : c <= h}}
  BY DEF Read!ReadChildren
<1>3. ASSUME NEW p \in ReadParents', NEW b \in BornOf[p], b <= rAsOf', b \in Nat
      PROVE  [parent |-> p, born |-> b] \in rItems'
  <2>1. CASE p = parent
    <3>1. b <= h
      BY <1>1, <1>3
    <3>. QED  BY <1>2, <1>3, <2>1, <3>1
  <2>2. CASE p # parent
    <3>1. p \in ReadParents
      BY <1>2, <1>3, <2>2 DEF ReadParents
    <3>2. b <= rAsOf
      BY <1>1, <1>3
    <3>. QED  BY <1>2, <3>1, <3>2 DEF ParentsInv, RoundsAreInOrder
  <2>. QED  BY <2>1, <2>2
<1>4. \A p \in rCall.ids : \A b \in BornOf[p] : b \in Nat
  BY ClientAssumption DEF ParentsInv, LookupInv, ReadLegsAreInOrder, Read!Call
<1>. QED  BY <1>1, <1>2, <1>3, <1>4 DEF RoundsAreInOrder, ReadParents

LEMMA ParentsBeginInOrder == ClientInit => ParentsInv
<1>. SUFFICES ASSUME ClientInit
              PROVE  RoundsAreInOrder /\ Read!ParentsAreCompleteAtTheirHeight
  BY LookupsBeginInOrder DEF ParentsInv
<1>1. rReply = "none" /\ rAsOf = MaxU32 /\ (rCall.kind = "parents" => rLeft = rCall.ids)
  BY DEF ClientInit, Read!Init
<1>. QED
  BY <1>1
  DEF RoundsAreInOrder, ReadParents, Read!ParentsAreCompleteAtTheirHeight, Read!Answered

LEMMA ParentsStayComplete == ParentsInv /\ [ClientNext]_clientVars => ParentsInv'
<1>. SUFFICES ASSUME ParentsInv, [ClientNext]_clientVars
              PROVE  RoundsAreInOrder' /\ Read!ParentsAreCompleteAtTheirHeight'
  BY CallsLookInOrder DEF ParentsInv
<1>. USE DEF ParentsInv, LookupInv, ReadLegsAreInOrder
<1>1. CASE UNCHANGED <<rCall, rLeg, rItems, rLeft, rAsOf, rReply>>
  BY <1>1
  DEF RoundsAreInOrder, ReadParents, Read!ParentsAreCompleteAtTheirHeight, Read!Answered
<1>2. CASE \E parent \in rLeft, h \in Read!Height : Read!ReadChildren(parent, h)
  <2>1. UNCHANGED rReply /\ rReply = "none"
    BY <1>2 DEF Read!ReadChildren
  <2>. QED  BY <1>2, <2>1, RoundStaysInOrder DEF Read!ParentsAreCompleteAtTheirHeight, Read!Answered
<1>3. CASE Read!RoundFails
  BY <1>3 DEF Read!RoundFails, Read!Done, RoundsAreInOrder, Read!ParentsAreCompleteAtTheirHeight, Read!Answered
<1>4. CASE Read!Combine
  <2>1. /\ rLeg = "rounds" /\ rLeft = {} /\ rLeg' = "done"
        /\ rAsOf' = IF rCall.ids = {} THEN 0 ELSE rAsOf
        /\ UNCHANGED <<rCall, rItems>>
    BY <1>4 DEF Read!Combine, Read!Done
  <2>2. rCall.kind = "parents" /\ ReadParents = rCall.ids
    BY <2>1 DEF ReadParents, Read!Call
  <2>3. (rCall.ids # {} => rAsOf \in Read!Height) /\ rAsOf' \in 0 .. MaxHeight
    BY <2>1, <2>2, ClientAssumption DEF RoundsAreInOrder, Read!Height
  <2>4. \A p \in rCall.ids : rAsOf' = rAsOf
    BY <2>1
  <2>. QED
    BY <2>1, <2>2, <2>3, <2>4 DEF RoundsAreInOrder, Read!ParentsAreCompleteAtTheirHeight
<1>5. CASE rCall.kind # "parents" /\ UNCHANGED rCall
  BY <1>5 DEF RoundsAreInOrder, Read!ParentsAreCompleteAtTheirHeight, Read!Answered
<1>6. UNCHANGED rCall
  BY StepsOfARead, LookupStaysInOrder DEF Read!Reorg, Read!progress
<1>7. rCall.kind = "parents" =>
         \/ UNCHANGED <<rCall, rLeg, rItems, rLeft, rAsOf, rReply>>
         \/ \E parent \in rLeft, h \in Read!Height : Read!ReadChildren(parent, h)
         \/ Read!RoundFails
         \/ Read!Combine
  <2>1. CASE Read!Reorg
    BY <2>1 DEF Read!Reorg, Read!progress, Read!round
  <2>2. ASSUME Read!ReadStep, rCall.kind = "parents"
        PROVE  Read!Rounds \/ UNCHANGED <<rCall, rLeg, rItems, rLeft, rAsOf, rReply>>
    BY <2>2
    DEF Read!ReadStep, Read!CoinsetTier, Read!Resolve, Read!Unsupported, Read!AskCoinset, Read!AskForHash,
        Read!AskByHash, Read!PeerTier, Read!Pick, Read!PeerAnswers, Read!AttemptFails, Read!Gathered, Read!round
  <2>. QED  BY <2>1, <2>2, StepsOfARead DEF Read!Rounds
<1>. QED  BY <1>1, <1>2, <1>3, <1>4, <1>5, <1>6, <1>7

-----------------------------------------------------------------------------
(* Blocks.                                                                  *)

ChainIsKnown ==
    /\ rChain \in [Read!Height -> Branch]
    /\ \A h \in Read!Height : Read!At(h) \in rWas

\* The heights a call asks peers for: its own, or the one it resolved a hash to.
HeightsAreAsked ==
    /\ rCall.kind = "height" => rWanted = <<rCall.start>>
    /\ rCall.kind = "range" => rCall.start <= rCall.end /\ rWanted = Read!HeightsOf(rCall.start, rCall.end)
    /\ rCall.kind = "hash" /\ rLeg = "peer" =>
          \E h \in Read!Height : rWanted = <<h>> /\ (rHonest => h = rCall.block.height)
    /\ rLeg = "peer" => rWanted \in Seq(Read!Height)

\* Each block gathered was on the chain, at the height asked for in its place.
OnceThere(blocks, wanted) ==
    \A i \in 1 .. Len(blocks) : blocks[i] \in rWas /\ blocks[i].height = wanted[i]

BlocksAreGathered ==
    /\ rAsked # {} => rLeg = "peer" /\ Len(rGot) < Len(rWanted)
    /\ rLeg = "resolve" => rGot = <<>>
    /\ rLeg = "peer" =>
          /\ rGot \in Seq(Read!Block) /\ Len(rGot) <= Len(rWanted)
          /\ rHonest => OnceThere(rGot, rWanted)
    /\ rLeg = "by_hash" /\ rHonest => rGot[1] \in rWas /\ rGot[1].height = rCall.start

BlocksInv ==
    LookupInv /\ ChainIsKnown /\ HeightsAreAsked /\ BlocksAreGathered /\ Read!BlocksAreTheOnesAskedFor

LEMMA RangesAreHeights ==
  ASSUME NEW start \in Read!Height, NEW end \in Read!Height, start <= end
  PROVE  /\ Read!HeightsOf(start, end) \in Seq(Read!Height)
         /\ Len(Read!HeightsOf(start, end)) = end - start
         /\ \A i \in 1 .. end - start : Read!HeightsOf(start, end)[i] = start + i - 1
<1>1. end - start \in Nat /\ \A i \in 1 .. end - start : start + i - 1 \in Read!Height
  BY ClientAssumption DEF Read!Height
<1>2. Read!HeightsOf(start, end) \in [1 .. end - start -> Read!Height]
  BY <1>1 DEF Read!HeightsOf
<1>3. Read!HeightsOf(start, end) \in Seq(Read!Height)
  BY <1>1, <1>2
<1>4. DOMAIN Read!HeightsOf(start, end) = 1 .. end - start
  BY DEF Read!HeightsOf
<1>. QED  BY <1>1, <1>3, <1>4, LenProperties DEF Read!HeightsOf

LEMMA BlocksBeginInOrder == ClientInit => BlocksInv
<1>. SUFFICES ASSUME Read!Init
              PROVE  ChainIsKnown /\ HeightsAreAsked /\ BlocksAreGathered /\ Read!BlocksAreTheOnesAskedFor
  BY LookupsBeginInOrder DEF ClientInit, BlocksInv
<1>1. /\ rCall \in Read!Call /\ (rCall.kind = "range" => rCall.start <= rCall.end)
      /\ rLeg = Read!FirstLeg(rCall) /\ rReply = "none" /\ rGot = <<>> /\ rAsked = {}
      /\ rWanted = CASE rCall.kind = "height" -> <<rCall.start>>
                     [] rCall.kind = "range" -> Read!HeightsOf(rCall.start, rCall.end)
                     [] OTHER -> <<>>
  BY DEF Read!Init
<1>2. rCall.kind \in {"hash", "height", "range", "coinset", "parents"}
  BY <1>1 DEF Read!Call
<1>3. rLeg = "peer" => rCall.kind \in {"height", "range"}
  BY <1>1, <1>2 DEF Read!FirstLeg
<1>4. rCall.kind = "height" => rCall.start \in Read!Height
  BY <1>1 DEF Read!Call
<1>5. rCall.kind = "range" => rCall.start \in Read!Height /\ rCall.end \in Read!Height
  BY <1>1 DEF Read!Call
<1>6. rLeg = "peer" => rWanted \in Seq(Read!Height)
  <2>1. CASE rCall.kind = "height"
    BY <1>1, <1>4, <2>1
  <2>2. CASE rCall.kind = "range"
    BY <1>1, <1>5, <2>2, RangesAreHeights
  <2>. QED  BY <1>3, <2>1, <2>2
<1>7. HeightsAreAsked
  BY <1>1, <1>3, <1>6 DEF HeightsAreAsked
<1>8. BlocksAreGathered
  BY <1>1, <1>2, <1>6, EmptySeq, LenProperties DEF BlocksAreGathered, OnceThere, Read!FirstLeg
<1>9. ChainIsKnown
  BY DEF Read!Init, ChainIsKnown
<1>. QED  BY <1>1, <1>7, <1>8, <1>9 DEF Read!BlocksAreTheOnesAskedFor, Read!Answered

\* The chain moves, and what was on it once has been.
LEMMA ReorgsAreKnown ==
  ASSUME BlocksInv, Read!Reorg
  PROVE  BlocksInv'
<1>. DEFINE news == {[height |-> h, branch |-> rChain'[h]] : h \in Read!Height}
<1>1. /\ rReply = "none" /\ rWas' = rWas \cup news /\ rChain' \in [Read!Height -> Branch]
      /\ UNCHANGED <<rCall, rLeg, rWanted, rAsked, rGot, rReply, rHonest, rExchanges, rAttempts, fallback_enabled>>
  BY DEF Read!Reorg, Read!Running, Read!progress, BlocksInv, ChainIsKnown
<1>2. ChainIsKnown'
  BY <1>1 DEF ChainIsKnown, Read!At
<1>. HIDE DEF news
<1>3. HeightsAreAsked'
  BY <1>1 DEF BlocksInv, HeightsAreAsked
<1>4. BlocksAreGathered'
  BY <1>1 DEF BlocksInv, BlocksAreGathered, OnceThere
<1>5. LookupInv'
  BY <1>1 DEF BlocksInv, LookupInv, ReadLegsAreInOrder, PeersComeFirst
<1>. QED  BY <1>1, <1>2, <1>3, <1>4, <1>5 DEF BlocksInv, Read!BlocksAreTheOnesAskedFor, Read!Answered

\* One block more, of the next height.
LEMMA GatheredOneMore ==
  ASSUME NEW blocks \in Seq(Read!Block), NEW wanted \in Seq(Read!Height), Len(blocks) < Len(wanted),
         NEW block \in Read!Block
  PROVE  /\ Append(blocks, block) \in Seq(Read!Block) /\ Len(Append(blocks, block)) <= Len(wanted)
         /\ OnceThere(blocks, wanted) /\ block \in rWas /\ block.height = wanted[Len(blocks) + 1] =>
               OnceThere(Append(blocks, block), wanted)
<1>1. /\ Append(blocks, block) \in Seq(Read!Block)
      /\ Len(Append(blocks, block)) = Len(blocks) + 1
      /\ \A i \in 1 .. Len(blocks) : Append(blocks, block)[i] = blocks[i]
      /\ Append(blocks, block)[Len(blocks) + 1] = block
  BY AppendProperties
<1>. DEFINE more == Append(blocks, block)
<1>. HIDE DEF more
<1>2. Len(blocks) \in Nat /\ Len(wanted) \in Nat
  BY LenProperties
<1>3. ASSUME OnceThere(blocks, wanted), block \in rWas, block.height = wanted[Len(blocks) + 1],
             NEW i \in 1 .. Len(more)
      PROVE  more[i] \in rWas /\ more[i].height = wanted[i]
  <2>1. i \in 1 .. Len(blocks) \/ i = Len(blocks) + 1
    BY <1>1, <1>2 DEF more
  <2>. QED  BY <1>1, <1>3, <2>1 DEF more, OnceThere
<1>. QED  BY <1>1, <1>2, <1>3 DEF more, OnceThere

LEMMA PeersAnswerInOrder ==
  ASSUME BlocksInv, Read!PeerAnswers
  PROVE  HeightsAreAsked' /\ BlocksAreGathered'
<1>1. rLeg = "peer" /\ Len(rGot) < Len(rWanted)
  BY DEF Read!PeerAnswers, BlocksInv, BlocksAreGathered
<1>2. rGot \in Seq(Read!Block) /\ rWanted \in Seq(Read!Height) /\ (rHonest => OnceThere(rGot, rWanted))
  BY <1>1 DEF BlocksInv, BlocksAreGathered, HeightsAreAsked
<1>3. Read!NextHeight \in Read!Height
  <2>1. Len(rGot) + 1 \in 1 .. Len(rWanted)
    BY <1>1, <1>2, LenProperties
  <2>. QED  BY <1>2, <2>1, ElementOfSeq DEF Read!NextHeight
<1>4. PICK block \in Read!Block :
         rGot' = Append(rGot, block) /\ (rHonest' => rHonest /\ block = Read!At(Read!NextHeight))
  <2>1. Read!At(Read!NextHeight) \in Read!Block
    BY <1>3 DEF BlocksInv, ChainIsKnown, Read!At, Read!Block
  <2>. QED  BY <2>1 DEF Read!PeerAnswers
<1>5. rHonest' => block \in rWas /\ block.height = rWanted[Len(rGot) + 1]
  BY <1>3, <1>4 DEF BlocksInv, ChainIsKnown, Read!At, Read!NextHeight
<1>6. UNCHANGED <<rCall, rLeg, rWanted, rWas>> /\ rAsked' = {}
  BY DEF Read!PeerAnswers
<1>7. /\ rGot' \in Seq(Read!Block) /\ Len(rGot') <= Len(rWanted)
      /\ rHonest' => OnceThere(rGot', rWanted)
  BY <1>1, <1>2, <1>4, <1>5, GatheredOneMore
<1>8. BlocksAreGathered'
  BY <1>1, <1>6, <1>7 DEF BlocksAreGathered, OnceThere
<1>9. HeightsAreAsked'
  BY <1>1, <1>4, <1>6 DEF BlocksInv, HeightsAreAsked
<1>. QED  BY <1>8, <1>9

\* What a resolved hash, an answer of coinset.org or a gathered attempt leaves
\* behind.
LEMMA BlocksStayInOrder ==
  ASSUME BlocksInv, Read!ReadStep
  PROVE  HeightsAreAsked' /\ BlocksAreGathered' /\ Read!BlocksAreTheOnesAskedFor'
<1>. USE DEF BlocksInv
<1>0. rReply = "none" <=> rLeg # "done"
  BY DEF LookupInv, ReadLegsAreInOrder
<1>1. CASE Read!Resolve
  <2>1. /\ rLeg = "resolve" /\ rCall.kind = "hash" /\ rCall.block.height \in Read!Height
        /\ rGot = <<>> /\ rAsked = {} /\ rReply = "none"
    BY <1>1, <1>0
    DEF Read!Resolve, LookupInv, ReadLegsAreInOrder, Read!Call, Read!Block, BlocksAreGathered
  <2>2. UNCHANGED <<rCall, rGot, rAsked, rReply, rWas>> /\ rLeg' \in {"peer", "coinset"}
    BY <1>1 DEF Read!Resolve
  <2>3. rLeg' = "peer" => \E h \in Read!Height : rWanted' = <<h>> /\ (rHonest' => h = rCall.block.height)
    <3>1. SUFFICES ASSUME rLeg' = "peer"
                   PROVE  \E h \in Read!Height : rWanted' = <<h>> /\ (rHonest' => h = rCall.block.height)
      OBVIOUS
    <3>2. PICK r \in Read!CoinsetReplies("get_block_record", rCall.block.height, Read!Height) :
             r.ok /\ rWanted' = <<r.value>>
      BY <1>1, <3>1 DEF Read!Resolve
    <3>3. r.value \in IF rLies THEN Read!Height ELSE {rCall.block.height}
      BY <3>2, RepliesAreWhatIsSo
    <3>4. rHonest' => ~ rLies
      BY <1>1, <3>1 DEF Read!Resolve, Read!Exchange
    <3>. QED  BY <2>1, <3>2, <3>3, <3>4
  <2>4. HeightsAreAsked'
    <3>1. ASSUME rLeg' = "peer"
          PROVE  rWanted' \in Seq(Read!Height)
      <4>1. PICK h \in Read!Height : rWanted' = <<h>>
        BY <2>3, <3>1
      <4>. QED  BY <4>1
    <3>2. rCall' = rCall /\ rCall.kind = "hash"
      BY <2>1, <2>2
    <3>. QED  BY <2>3, <3>1, <3>2 DEF HeightsAreAsked
  <2>5. BlocksAreGathered'
    <3>1. rLeg' = "peer" => rWanted' \in Seq(Read!Height)
      BY <2>4 DEF HeightsAreAsked
    <3>. QED  BY <2>1, <2>2, <3>1, EmptySeq, LenProperties DEF BlocksAreGathered, OnceThere
  <2>. QED  BY <2>1, <2>2, <2>4, <2>5 DEF Read!BlocksAreTheOnesAskedFor, Read!Answered
<1>2. ASSUME rLeg # "done", rLeg' = "done", rReply' # "ok", UNCHANGED <<rCall, rWanted, rAsked>>, rLeg # "peer"
      PROVE  HeightsAreAsked' /\ BlocksAreGathered' /\ Read!BlocksAreTheOnesAskedFor'
  BY <1>2 DEF HeightsAreAsked, BlocksAreGathered, Read!BlocksAreTheOnesAskedFor, Read!Answered
<1>3. CASE Read!Unsupported
  BY <1>2, <1>3 DEF Read!Unsupported, Read!Done
<1>4. CASE Read!RoundFails
  BY <1>2, <1>4 DEF Read!RoundFails, Read!Done
<1>5. CASE Read!AskCoinset
  <2>1. /\ rLeg = "coinset" /\ rLeg' = "done" /\ rAsked = {}
        /\ UNCHANGED <<rCall, rWanted, rAsked, rWas>>
    BY <1>5 DEF Read!AskCoinset, Read!Done, BlocksAreGathered
  <2>2. HeightsAreAsked' /\ BlocksAreGathered'
    BY <2>1 DEF HeightsAreAsked, BlocksAreGathered
  <2>3. SUFFICES ASSUME rReply' = "ok", rHonest'
                 PROVE  Read!BlocksAreTheOnesAskedFor'
    BY <2>2 DEF Read!BlocksAreTheOnesAskedFor, Read!Answered
  <2>4. PICK r \in Read!CoinsetReplies(Read!Endpoint, Read!Asked, Read!Anything) : r.ok /\ rGot' = r.value
    BY <1>5, <2>3 DEF Read!AskCoinset, Read!Done
  <2>5. Read!Endpoint \in {"get_blocks", "get_block", "get_additions_and_removals"} /\ ~ rLies
        /\ rCall.kind # "height"
    BY <1>5, <2>3
    DEF Read!AskCoinset, Read!Exchange, Read!Endpoint, LookupInv, ReadLegsAreInOrder, Read!Call
  <2>6. rGot' = Read!Asked
    BY <2>4, <2>5, RepliesAreWhatIsSo
  <2>7. ASSUME rCall.kind = "range"
        PROVE  /\ Len(rGot') = rCall.end - rCall.start
               /\ \A i \in DOMAIN rGot' : rGot'[i] \in rWas /\ rGot'[i].height = rCall.start + i - 1
    <3>1. rCall.start \in Read!Height /\ rCall.end \in Read!Height /\ rCall.start <= rCall.end
          /\ rWanted = Read!HeightsOf(rCall.start, rCall.end)
      BY <2>7 DEF LookupInv, ReadLegsAreInOrder, Read!Call, HeightsAreAsked
    <3>2. /\ rWanted \in Seq(Read!Height) /\ Len(rWanted) = rCall.end - rCall.start
          /\ \A i \in 1 .. Len(rWanted) : rWanted[i] = rCall.start + i - 1
      BY <3>1, RangesAreHeights
    <3>3. \A i \in 1 .. Len(rWanted) : rWanted[i] \in Read!Height
      BY <3>2, ElementOfSeq
    <3>4. rGot' = [i \in 1 .. Len(rWanted) |-> Read!At(rWanted[i])]
      BY <2>6, <2>7 DEF Read!Asked
    <3>5. Len(rWanted) \in Nat
      BY <3>2, LenProperties
    <3>6. Len(rGot') = Len(rWanted) /\ DOMAIN rGot' = 1 .. Len(rWanted)
      BY <3>4, <3>5
    <3>7. \A h \in Read!Height : Read!At(h) \in rWas /\ Read!At(h).height = h
      BY DEF ChainIsKnown, Read!At
    <3>. QED  BY <3>2, <3>3, <3>4, <3>6, <3>7
  <2>8. rCall.kind = "hash" => rGot'[1] = rCall.block
    BY <2>6 DEF Read!Asked
  <2>. QED  BY <2>1, <2>5, <2>7, <2>8 DEF Read!BlocksAreTheOnesAskedFor, Read!Answered
<1>6. CASE Read!AskForHash
  <2>1. /\ rLeg = "coinset" /\ rLeg' \in {"by_hash", "done"} /\ rAsked = {} /\ rReply' # "ok"
        /\ rCall.kind = "height"
        /\ UNCHANGED <<rCall, rWanted, rAsked, rWas>>
    BY <1>0, <1>6 DEF Read!AskForHash, Read!Done, BlocksAreGathered
  <2>2. rCall.start \in Read!Height
    BY <2>1 DEF LookupInv, ReadLegsAreInOrder, Read!Call
  <2>3. ASSUME rLeg' = "by_hash", rHonest'
        PROVE  rGot'[1] \in rWas /\ rGot'[1].height = rCall.start
    <3>1. PICK r \in Read!CoinsetReplies("get_block_record_by_height", Read!At(rCall.start), Read!Block) :
             r.ok /\ rGot' = <<r.value>>
      BY <1>6, <2>3 DEF Read!AskForHash, Read!Done
    <3>2. ~ rLies
      BY <1>6, <2>3 DEF Read!AskForHash, Read!Exchange
    <3>3. r.value = Read!At(rCall.start)
      BY <3>1, <3>2, RepliesAreWhatIsSo
    <3>. QED  BY <2>2, <3>1, <3>3 DEF ChainIsKnown, Read!At
  <2>. QED
    BY <2>1, <2>3 DEF HeightsAreAsked, BlocksAreGathered, Read!BlocksAreTheOnesAskedFor, Read!Answered
<1>7. CASE Read!AskByHash
  <2>1. /\ rLeg = "by_hash" /\ rLeg' = "done" /\ rAsked = {} /\ rCall.kind = "height"
        /\ UNCHANGED <<rCall, rWanted, rAsked, rWas>>
    BY <1>7 DEF Read!AskByHash, Read!Done, BlocksAreGathered, LookupInv, ReadLegsAreInOrder
  <2>2. ASSUME rReply' = "ok", rHonest'
        PROVE  rGot'[1] \in rWas /\ rGot'[1].height = rCall.start
    <3>1. PICK r \in Read!CoinsetReplies("get_block", rGot[1], Read!Block) : r.ok /\ rGot' = <<r.value>>
      BY <1>7, <2>2 DEF Read!AskByHash, Read!Done
    <3>2. ~ rLies /\ rHonest
      BY <1>7, <2>2 DEF Read!AskByHash, Read!Exchange
    <3>3. r.value = rGot[1]
      BY <3>1, <3>2, RepliesAreWhatIsSo
    <3>. QED  BY <2>1, <3>1, <3>2, <3>3 DEF BlocksAreGathered
  <2>. QED
    BY <2>1, <2>2 DEF HeightsAreAsked, BlocksAreGathered, Read!BlocksAreTheOnesAskedFor, Read!Answered
<1>8. CASE \E a \in Address : Read!Pick(a)
  <2>1. /\ rLeg = "peer" /\ Len(rGot) < Len(rWanted)
        /\ UNCHANGED <<rCall, rLeg, rWanted, rGot, rReply, rHonest, rWas>>
    BY <1>8 DEF Read!Pick
  <2>. QED
    BY <2>1
    DEF HeightsAreAsked, BlocksAreGathered, OnceThere, Read!BlocksAreTheOnesAskedFor, Read!Answered
<1>9. CASE Read!PeerAnswers
  <2>1. UNCHANGED rReply /\ rReply = "none"
    BY <1>0, <1>9 DEF Read!PeerAnswers, BlocksAreGathered
  <2>. QED
    BY <1>9, <2>1, PeersAnswerInOrder DEF Read!BlocksAreTheOnesAskedFor, Read!Answered
<1>10. CASE Read!AttemptFails
  <2>1. /\ rLeg = "peer" /\ rGot' = <<>> /\ rAsked' = {} /\ rReply' # "ok"
        /\ rLeg' \in {"peer", "coinset", "done"}
        /\ UNCHANGED <<rCall, rWanted, rHonest, rWas>>
    BY <1>0, <1>10 DEF Read!AttemptFails, Read!Done
  <2>2. HeightsAreAsked'
    BY <2>1 DEF HeightsAreAsked
  <2>3. rWanted \in Seq(Read!Height)
    BY <2>1 DEF HeightsAreAsked
  <2>4. BlocksAreGathered'
    BY <2>1, <2>3, EmptySeq, LenProperties DEF BlocksAreGathered, OnceThere
  <2>. QED  BY <2>1, <2>2, <2>4 DEF Read!BlocksAreTheOnesAskedFor, Read!Answered
<1>11. CASE Read!Gathered
  <2>1. /\ rLeg = "peer" /\ Len(rGot) = Len(rWanted) /\ rLeg' = "done" /\ rAsked = {}
        /\ UNCHANGED <<rCall, rWanted, rAsked, rGot, rHonest, rWas>>
    BY <1>11 DEF Read!Gathered, Read!Done, BlocksAreGathered
  <2>2. HeightsAreAsked' /\ BlocksAreGathered'
    BY <2>1 DEF HeightsAreAsked, BlocksAreGathered
  <2>3. SUFFICES ASSUME rHonest
                 PROVE  Read!BlocksAreTheOnesAskedFor'
    BY <2>1, <2>2 DEF Read!BlocksAreTheOnesAskedFor
  <2>4. \A i \in 1 .. Len(rWanted) : rGot[i] \in rWas /\ rGot[i].height = rWanted[i]
    BY <2>1, <2>3 DEF BlocksAreGathered, OnceThere
  <2>5. rCall.kind = "height" => rGot[1] \in rWas /\ rGot[1].height = rCall.start
    BY <2>4 DEF HeightsAreAsked
  <2>6. rCall.kind = "hash" => rGot[1] \in rWas /\ rGot[1].height = rCall.block.height
    BY <2>1, <2>3, <2>4 DEF HeightsAreAsked
  <2>7. ASSUME rCall.kind = "range"
        PROVE  /\ Len(rGot) = rCall.end - rCall.start
               /\ \A i \in DOMAIN rGot : rGot[i] \in rWas /\ rGot[i].height = rCall.start + i - 1
    <3>1. rCall.start \in Read!Height /\ rCall.end \in Read!Height /\ rCall.start <= rCall.end
          /\ rWanted = Read!HeightsOf(rCall.start, rCall.end)
      BY <2>7 DEF LookupInv, ReadLegsAreInOrder, Read!Call, HeightsAreAsked
    <3>2. /\ rWanted \in Seq(Read!Height) /\ Len(rWanted) = rCall.end - rCall.start
          /\ \A i \in 1 .. Len(rWanted) : rWanted[i] = rCall.start + i - 1
      BY <3>1, RangesAreHeights
    <3>3. DOMAIN rGot = 1 .. Len(rGot)
      BY <2>1, LenProperties DEF BlocksAreGathered
    <3>. QED  BY <2>1, <2>4, <3>2, <3>3
  <2>. QED  BY <2>1, <2>5, <2>6, <2>7 DEF Read!BlocksAreTheOnesAskedFor, Read!Answered
<1>12. CASE \E parent \in rLeft, h \in Read!Height : Read!ReadChildren(parent, h)
  BY <1>0, <1>12
  DEF Read!ReadChildren, HeightsAreAsked, BlocksAreGathered, OnceThere, Read!BlocksAreTheOnesAskedFor,
      Read!Answered
<1>13. CASE Read!Combine
  <2>1. /\ rLeg = "rounds" /\ rLeg' = "done" /\ rCall.kind = "parents" /\ rAsked = {}
        /\ UNCHANGED <<rCall, rWanted, rAsked>>
    BY <1>13 DEF Read!Combine, Read!Done, BlocksAreGathered, LookupInv, ReadLegsAreInOrder
  <2>. QED
    BY <2>1 DEF HeightsAreAsked, BlocksAreGathered, Read!BlocksAreTheOnesAskedFor, Read!Answered
<1>. QED
  BY <1>1, <1>3, <1>4, <1>5, <1>6, <1>7, <1>8, <1>9, <1>10, <1>11, <1>12, <1>13
  DEF Read!ReadStep, Read!CoinsetTier, Read!PeerTier, Read!Rounds

LEMMA BlocksStayTheOnes == BlocksInv /\ [ClientNext]_clientVars => BlocksInv'
<1>. SUFFICES ASSUME BlocksInv, [ClientNext]_clientVars
              PROVE  BlocksInv'
  OBVIOUS
<1>1. CASE Read!ReadStep
  <2>1. ChainIsKnown'
    BY <1>1
    DEF BlocksInv, ChainIsKnown, Read!At, Read!world, Read!ReadStep, Read!CoinsetTier, Read!Resolve,
        Read!Unsupported, Read!AskCoinset, Read!AskForHash, Read!AskByHash, Read!PeerTier, Read!Pick,
        Read!PeerAnswers, Read!AttemptFails, Read!Gathered, Read!Rounds, Read!ReadChildren, Read!RoundFails,
        Read!Combine
  <2>. QED  BY <1>1, <2>1, BlocksStayInOrder, LookupStaysInOrder DEF BlocksInv
<1>2. CASE Read!Reorg
  BY <1>2, ReorgsAreKnown
<1>3. CASE UNCHANGED <<rLies, rChain, rCall, rLeg, rAttempts, rWanted, rAsked, rGot, rItems, rLeft, rAsOf,
                       rReply, rExchanges, rHonest, rWas>>
  <2>1. LookupInv'
    BY CallsLookInOrder DEF BlocksInv
  <2>. QED
    BY <1>3, <2>1
    DEF BlocksInv, ChainIsKnown, Read!At, HeightsAreAsked, BlocksAreGathered, OnceThere,
        Read!BlocksAreTheOnesAskedFor, Read!Answered
<1>. QED  BY <1>1, <1>2, <1>3, StepsOfARead

\* However the chain reorganises and whichever peers and attempts fail: over
\* reliable sources the blocks answered are those of the heights, the range or
\* the hash asked for, and over any sources the children of several parents are
\* complete at the height they are reported with.
THEOREM ReadsAnswerWhatIsAsked == ClientSpec => []ReadsAnswerTheirQuestion
<1>1. ClientSpec => []BlocksInv
  BY BlocksBeginInOrder, BlocksStayTheOnes, PTL DEF ClientSpec
<1>2. ClientSpec => []ParentsInv
  BY ParentsBeginInOrder, ParentsStayComplete, PTL DEF ClientSpec
<1>3. BlocksInv /\ ParentsInv => ReadsAnswerTheirQuestion
  BY DEF BlocksInv, ParentsInv, ReadsAnswerTheirQuestion
<1>. QED  BY <1>1, <1>2, <1>3, PTL

-----------------------------------------------------------------------------
(* Places in an order.                                                      *)

IsOrder(S, R) ==
    /\ \A x \in S : <<x, x>> \notin R
    /\ \A x, y, z \in S : <<x, y>> \in R /\ <<y, z>> \in R => <<x, z>> \in R
    /\ \A x, y \in S : x # y => <<x, y>> \in R \/ <<y, x>> \in R

Before(S, R, x) == {y \in S : <<y, x>> \in R}
FirstOf(S, R, k) == {x \in S : Cardinality(Before(S, R, x)) < k}

\* Who comes later has more before him, and everybody fewer than there are.
LEMMA PlacesDiffer ==
  ASSUME NEW S, IsFiniteSet(S), NEW R, IsOrder(S, R), NEW x \in S
  PROVE  /\ Cardinality(Before(S, R, x)) \in Nat
         /\ Cardinality(Before(S, R, x)) < Cardinality(S)
         /\ \A y \in S : <<x, y>> \in R => Cardinality(Before(S, R, x)) < Cardinality(Before(S, R, y))
<1>1. \A T \in SUBSET S : IsFiniteSet(T) /\ Cardinality(T) \in Nat
  BY FS_Subset, FS_CardinalityType
<1>2. ASSUME NEW T \in SUBSET S, Before(S, R, x) \subseteq T, x \in T
      PROVE  Cardinality(Before(S, R, x)) < Cardinality(T)
  <2>1. Before(S, R, x) \in SUBSET T /\ Before(S, R, x) # T
    BY <1>2 DEF IsOrder, Before
  <2>2. Cardinality(Before(S, R, x)) <= Cardinality(T) /\ Cardinality(Before(S, R, x)) # Cardinality(T)
    BY <1>1, <2>1, FS_Subset
  <2>3. Cardinality(Before(S, R, x)) \in Nat /\ Cardinality(T) \in Nat
    BY <1>1 DEF Before
  <2>. QED  BY <2>2, <2>3
<1>3. Cardinality(Before(S, R, x)) < Cardinality(S)
  BY <1>2 DEF Before
<1>4. ASSUME NEW y \in S, <<x, y>> \in R
      PROVE  Cardinality(Before(S, R, x)) < Cardinality(Before(S, R, y))
  <2>1. Before(S, R, x) \subseteq Before(S, R, y) /\ x \in Before(S, R, y) /\ Before(S, R, y) \in SUBSET S
    BY <1>4 DEF IsOrder, Before
  <2>. QED  BY <1>2, <2>1
<1>. QED  BY <1>1, <1>3, <1>4 DEF Before

\* Those at the first k places are k, or all there are.
LEMMA FirstPlaces ==
  ASSUME NEW S, IsFiniteSet(S), NEW R, IsOrder(S, R), NEW k \in Nat
  PROVE  /\ FirstOf(S, R, k) \subseteq S /\ IsFiniteSet(FirstOf(S, R, k))
         /\ Cardinality(FirstOf(S, R, k)) = IF k <= Cardinality(S) THEN k ELSE Cardinality(S)
         /\ \A x \in FirstOf(S, R, k), y \in S : <<y, x>> \in R => y \in FirstOf(S, R, k)
<1>. USE DEF FirstOf
<1>. DEFINE front == FirstOf(S, R, k)
            n == Cardinality(S)
            place == [x \in S |-> Cardinality(Before(S, R, x))]
<1>1. n \in Nat
  BY FS_CardinalityType
<1>2. place \in [S -> 0 .. n - 1]
  BY <1>1, PlacesDiffer
<1>3. ASSUME NEW x \in S, NEW y \in S, place[x] = place[y]
      PROVE  x = y
  <2>1. <<x, y>> \notin R /\ <<y, x>> \notin R
    BY <1>3, PlacesDiffer
  <2>. QED  BY <2>1 DEF IsOrder
<1>4. place \in Injection(S, 0 .. n - 1)
  BY <1>2, <1>3, Fun_IsInj
<1>5. IsFiniteSet(0 .. n - 1) /\ Cardinality(0 .. n - 1) = n
  BY <1>1, FS_Interval
<1>6. place \in Surjection(S, 0 .. n - 1)
  BY <1>4, <1>5, FS_Injection
<1>7. \A i \in 0 .. n - 1 : \E x \in S : place[x] = i
  BY <1>6 DEF Surjection
<1>8. IsFiniteSet(front)
  <2>1. front \in SUBSET S
    OBVIOUS
  <2>. QED  BY <2>1, FS_Subset
<1>9. CASE k > n
  <2>1. front = S
    BY <1>1, <1>9, PlacesDiffer
  <2>. QED  BY <1>1, <1>8, <1>9, <2>1
<1>10. CASE k <= n
  <2>. DEFINE placed == [x \in front |-> place[x]]
  <2>1. placed \in [front -> 0 .. k - 1]
    BY <1>1, PlacesDiffer
  <2>2. \A x, y \in front : placed[x] = placed[y] => x = y
    BY <1>3
  <2>3. ASSUME NEW i \in 0 .. k - 1
        PROVE  \E x \in front : placed[x] = i
    <3>1. i \in 0 .. n - 1 /\ i < k
      BY <1>1, <1>10
    <3>2. PICK x \in S : place[x] = i
      BY <1>7, <3>1
    <3>. QED  BY <3>1, <3>2
  <2>4. placed \in Bijection(front, 0 .. k - 1)
    BY <2>1, <2>2, <2>3, Fun_IsBij
  <2>5. ExistsBijection(front, 0 .. k - 1)
    BY <2>4, Fun_ExistsBij
  <2>6. Cardinality(0 .. k - 1) = k
    BY FS_Interval
  <2>7. Cardinality(front) = k
    BY <1>8, <2>5, <2>6, FS_Bijection
  <2>8. \A x \in front, y \in S : <<y, x>> \in R => y \in front
    BY PlacesDiffer
  <2>. QED  BY <1>8, <1>10, <2>7, <2>8
<1>. QED  BY <1>1, <1>9, <1>10

\* As many are named as name one, or fewer.
LEMMA NamesAreFewer ==
  ASSUME NEW S, IsFiniteSet(S), NEW T, NEW name,
         \A x \in S : name[x] \in T, \A t \in T : \E x \in S : name[x] = t
  PROVE  /\ IsFiniteSet(T) /\ Cardinality(T) <= Cardinality(S)
         /\ (\A x, y \in S : name[x] = name[y] => x = y) => Cardinality(T) = Cardinality(S)
<1>. DEFINE named == [x \in S |-> name[x]]
<1>1. named \in [S -> T] /\ \A t \in T : \E x \in S : named[x] = t
  OBVIOUS
<1>2. named \in Surjection(S, T)
  BY <1>1, Fun_IsSurj
<1>3. ASSUME \A x, y \in S : name[x] = name[y] => x = y
      PROVE  Cardinality(T) = Cardinality(S)
  <2>1. named \in Injection(S, T)
    BY <1>1, <1>3, Fun_IsInj
  <2>. QED  BY <1>2, <2>1, FS_Surjection
<1>. QED  BY <1>2, <1>3, FS_Surjection

\* A set of natural numbers has a first.
LEMMA HasFirst ==
  ASSUME NEW S \in SUBSET Nat, S # {}
  PROVE  \E f \in S : \A g \in S : f <= g
<1>1. PICK f \in S : \A g \in S : ~ (<<g, f>> \in OpToRel(<, Nat))
  BY WFMin, NatLessThanWellFounded
<1>2. \A g \in S : ~ (g < f)
  BY <1>1 DEF OpToRel
<1>. QED  BY <1>2

-----------------------------------------------------------------------------
(* A round of dials.                                                        *)

Preferred == [address : Configured, origin : {"Priority"}]
Welcome == [address : Introduced \ (Local \cup Configured), origin : {"Discovered"}]

\* A dial ends at one of the operator's addresses, or at an introduced one that
\* is neither local nor one of those; in either case at one not held.
LEMMA DialsEndSomewhere ==
  /\ New!Dialled \subseteq Preferred \cup Welcome
  /\ \A c \in New!Dialled : c.address \notin New!Held
BY DEF New!Dialled, New!Offered, New!Discoverable, Preferred, Welcome

\* An address says who is there, and how it was found.
LEMMA AddressesTell ==
  /\ \A c \in Preferred \cup Welcome :
        /\ c.origin = "Priority" \/ c.origin = "Discovered"
        /\ New!IsPriority(c) <=> c.address \in Configured
        /\ New!IsDiscovered(c) <=> c.address \notin Configured
        /\ New!IsDiscovered(c) => c.address \in Introduced \ (Local \cup Configured)
        /\ c.address \in Configured \cup Introduced
  /\ \A c, d \in Preferred \cup Welcome : c.address = d.address => c = d
BY DEF Preferred, Welcome, New!IsPriority, New!IsDiscovered

\* Each address reached has one candidate of its own.
LEMMA EachAddressHasItsBest ==
  ASSUME NEW n \in Nat, NEW cs \in [1 .. n -> Preferred \cup Welcome]
  PROVE  /\ New!Distinct(cs) \subseteq 1 .. n /\ IsFiniteSet(New!Distinct(cs))
         /\ \A i, j \in New!Distinct(cs) : cs[i].address = cs[j].address => i = j
         /\ \A k \in 1 .. n : \E i \in New!Distinct(cs) : cs[i] = cs[k]
<1>1. New!Distinct(cs) \subseteq 1 .. n
  BY DEF New!Distinct
<1>2. IsFiniteSet(New!Distinct(cs))
  <2>1. IsFiniteSet(1 .. n) /\ New!Distinct(cs) \in SUBSET (1 .. n)
    BY <1>1, FS_Interval
  <2>. QED  BY <2>1, FS_Subset
<1>3. ASSUME NEW i \in 1 .. n, NEW j \in 1 .. n, cs[i].address = cs[j].address
      PROVE  New!MoreCredible(cs, i, j) <=> i < j
  <2>1. cs[i] = cs[j] /\ (cs[i].origin = "Priority" \/ cs[i].origin = "Discovered")
    BY <1>3, AddressesTell
  <2>. QED  BY <2>1 DEF New!MoreCredible, New!IsPriority, New!IsDiscovered
<1>4. ASSUME NEW i \in New!Distinct(cs), NEW j \in New!Distinct(cs), cs[i].address = cs[j].address
      PROVE  i = j
  <2>1. i \in 1 .. n /\ j \in 1 .. n /\ ~ New!MoreCredible(cs, i, j) /\ ~ New!MoreCredible(cs, j, i)
    BY <1>4 DEF New!Distinct
  <2>. QED  BY <1>3, <1>4, <2>1
<1>5. ASSUME NEW k \in 1 .. n
      PROVE  \E i \in New!Distinct(cs) : cs[i] = cs[k]
  <2>. DEFINE same == {i \in 1 .. n : cs[i].address = cs[k].address}
  <2>1. same \in SUBSET Nat /\ same # {}
    OBVIOUS
  <2>2. PICK i \in same : \A j \in same : i <= j
    BY <2>1, HasFirst
  <2>3. \A j \in 1 .. n : cs[j].address = cs[i].address => ~ New!MoreCredible(cs, j, i)
    BY <1>3, <2>2
  <2>4. i \in New!Distinct(cs)
    BY <2>2, <2>3 DEF New!Distinct
  <2>. QED  BY <2>2, <2>4, AddressesTell
<1>. QED  BY <1>1, <1>2, <1>4, <1>5

\* The instance counts as its client does.
LEMMA NewCounts == \A S : New!Cardinality(S) = Cardinality(S)
BY DEF New!Cardinality, Cardinality

LEMMA TheLesser ==
  /\ \A a, b \in Nat : New!Min({a, b}) = IF a <= b THEN a ELSE b
  /\ \A a, b, c, d \in Nat : d >= a \/ d >= b \/ d >= c => d >= New!Min({a, b, c})
<1>1. ASSUME NEW a \in Nat, NEW b \in Nat
      PROVE  New!Min({a, b}) = IF a <= b THEN a ELSE b
  BY DEF New!Min
<1>2. ASSUME NEW a \in Nat, NEW b \in Nat, NEW c \in Nat
      PROVE  LET m == New!Min({a, b, c}) IN m \in Nat /\ m <= a /\ m <= b /\ m <= c
  <2>1. {a, b, c} \in SUBSET Nat /\ {a, b, c} # {}
    OBVIOUS
  <2>2. PICK m \in {a, b, c} : \A x \in {a, b, c} : m <= x
    BY <2>1, HasFirst
  <2>3. New!Min({a, b, c}) \in {a, b, c} /\ \A x \in {a, b, c} : New!Min({a, b, c}) <= x
    BY <2>2 DEF New!Min
  <2>. QED  BY <2>3
<1>. QED  BY <1>1, <1>2

\* The discovered candidates of a round, their neighbours, in which pass each
\* of them is dealt a slot, and who of its subnet was the first.
Found(cs) == {i \in New!Distinct(cs) : New!IsDiscovered(cs[i])}
SubnetAt(cs, i) == SubnetOf[cs[i].address]
Neighbours(cs, i) == {j \in Found(cs) : SubnetAt(cs, j) = SubnetAt(cs, i)}
Pass(cs, i) == Cardinality({j \in Neighbours(cs, i) : j < i})
Lead(cs, i) == CHOOSE f \in Neighbours(cs, i) : \A g \in Neighbours(cs, i) : f <= g

\* Within a subnet the passes follow the order of the handshakes, and the first
\* has the first pass.
LEMMA PassesFollow ==
  ASSUME NEW n \in Nat, NEW cs \in [1 .. n -> Preferred \cup Welcome], NEW i \in Found(cs)
  PROVE  /\ i \in 1 .. n /\ Pass(cs, i) \in Nat
         /\ Lead(cs, i) \in Neighbours(cs, i) /\ \A g \in Neighbours(cs, i) : Lead(cs, i) <= g
         /\ \A j \in Neighbours(cs, i) :
               /\ j \in 1 .. n
               /\ i < j => Pass(cs, i) < Pass(cs, j)
               /\ Neighbours(cs, j) = Neighbours(cs, i)
         /\ Pass(cs, Lead(cs, i)) = 0
<1>. DEFINE earlier(k) == {j \in Neighbours(cs, k) : j < k}
<1>1. /\ Found(cs) \subseteq 1 .. n /\ IsFiniteSet(New!Distinct(cs))
      /\ Found(cs) \in SUBSET New!Distinct(cs)
  BY EachAddressHasItsBest DEF Found
<1>2. IsFiniteSet(Found(cs)) /\ \A k : Neighbours(cs, k) \in SUBSET Found(cs)
  BY <1>1, FS_Subset DEF Neighbours
<1>3. \A T \in SUBSET Found(cs) : IsFiniteSet(T) /\ Cardinality(T) \in Nat
  BY <1>2, FS_Subset, FS_CardinalityType
<1>4. \A k : earlier(k) \in SUBSET Found(cs)
  BY <1>2
<1>5. \A k : Pass(cs, k) \in Nat /\ Pass(cs, k) = Cardinality(earlier(k))
  BY <1>3, <1>4 DEF Pass
<1>6. i \in Neighbours(cs, i)
  BY DEF Neighbours
<1>7. Lead(cs, i) \in Neighbours(cs, i) /\ \A g \in Neighbours(cs, i) : Lead(cs, i) <= g
  <2>1. Neighbours(cs, i) \in SUBSET Nat /\ Neighbours(cs, i) # {}
    BY <1>1, <1>2, <1>6
  <2>2. \E f \in Neighbours(cs, i) : \A g \in Neighbours(cs, i) : f <= g
    BY <2>1, HasFirst
  <2>. QED  BY <2>2 DEF Lead
<1>8. \A j \in Neighbours(cs, i) : Neighbours(cs, j) = Neighbours(cs, i)
  BY DEF Neighbours
<1>9. ASSUME NEW j \in Neighbours(cs, i), i < j
      PROVE  Pass(cs, i) < Pass(cs, j)
  <2>0. i \in 1 .. n /\ j \in 1 .. n
    BY <1>1, <1>2
  <2>1. earlier(i) \subseteq earlier(j)
    BY <1>1, <1>2, <1>8, <1>9, <2>0
  <2>2. i \in earlier(j) /\ i \notin earlier(i)
    BY <1>6, <1>8, <1>9, <2>0
  <2>3. earlier(i) \in SUBSET earlier(j) /\ earlier(i) # earlier(j) /\ IsFiniteSet(earlier(j))
    BY <1>3, <1>4, <2>1, <2>2
  <2>4. Cardinality(earlier(i)) <= Cardinality(earlier(j)) /\ Cardinality(earlier(i)) # Cardinality(earlier(j))
    BY <2>3, FS_Subset
  <2>. QED  BY <1>5, <2>4
<1>10. Pass(cs, Lead(cs, i)) = 0
  <2>1. earlier(Lead(cs, i)) = {}
    BY <1>1, <1>2, <1>7, <1>8
  <2>. QED  BY <1>5, <2>1, FS_EmptySet
<1>. QED  BY <1>1, <1>2, <1>5, <1>7, <1>8, <1>9, <1>10

\* The discovered candidates go by pass, and within a pass by the first of
\* their subnets; the preferred ones come before them.
LEMMA WhoPrecedes ==
  ASSUME NEW n \in Nat, NEW cs \in [1 .. n -> Preferred \cup Welcome],
         NEW i \in New!Distinct(cs), NEW j \in New!Distinct(cs)
  PROVE  New!Precedes(cs, New!Distinct(cs), i, j) <=>
            \/ i \notin Found(cs) /\ j \in Found(cs)
            \/ i \notin Found(cs) /\ j \notin Found(cs) /\ i < j
            \/ /\ i \in Found(cs) /\ j \in Found(cs)
               /\ \/ Pass(cs, i) < Pass(cs, j)
                  \/ Pass(cs, i) = Pass(cs, j) /\ Lead(cs, i) < Lead(cs, j)
<1>. DEFINE best == New!Distinct(cs)
<1>1. i \in 1 .. n /\ j \in 1 .. n
  BY EachAddressHasItsBest
<1>2. CASE i \in Found(cs) /\ j \in Found(cs)
  <2>1. \A k : New!Bucket(cs, best, k) = Neighbours(cs, k)
    BY DEF New!Bucket, Neighbours, Found, SubnetAt
  <2>2. (\E f \in Neighbours(cs, i) : \A g \in Neighbours(cs, j) : f < g) <=> Lead(cs, i) < Lead(cs, j)
    <3>1. Neighbours(cs, i) \subseteq Nat /\ Neighbours(cs, j) \subseteq Nat
      BY <1>2, PassesFollow
    <3>. QED  BY <1>2, <3>1, PassesFollow
  <2>3. New!SpreadAcrossSubnets(cs, best, i, j) <=>
           \/ Pass(cs, i) < Pass(cs, j)
           \/ Pass(cs, i) = Pass(cs, j) /\ \E f \in Neighbours(cs, i) : \A g \in Neighbours(cs, j) : f < g
    <3>1. ASSUME NEW k
          PROVE  New!Cardinality({f \in New!Bucket(cs, best, k) : f < k}) = Pass(cs, k)
      <4>1. New!Bucket(cs, best, k) = Neighbours(cs, k)
        BY <2>1
      <4>. QED  BY <4>1, NewCounts DEF Pass
    <3>. HIDE DEF best
    <3>. QED  BY <2>1, <3>1 DEF New!SpreadAcrossSubnets
  <2>. QED  BY <1>2, <2>2, <2>3 DEF New!Precedes, Found
<1>3. CASE ~ (i \in Found(cs) /\ j \in Found(cs))
  <2>1. /\ i \in Found(cs) <=> New!IsDiscovered(cs[i])
        /\ j \in Found(cs) <=> New!IsDiscovered(cs[j])
    BY DEF Found
  <2>2. /\ cs[i].origin = "Priority" \/ cs[i].origin = "Discovered"
        /\ cs[j].origin = "Priority" \/ cs[j].origin = "Discovered"
    BY <1>1, AddressesTell
  <2>. QED
    BY <1>3, <2>1, <2>2 DEF New!Precedes, New!MoreCredible, New!IsDiscovered, New!IsPriority
<1>. QED  BY <1>2, <1>3

Ranking(cs) ==
    {p \in New!Distinct(cs) \X New!Distinct(cs) : New!Precedes(cs, New!Distinct(cs), p[1], p[2])}

\* So the candidates have places.
LEMMA CandidatesAreRanked ==
  ASSUME NEW n \in Nat, NEW cs \in [1 .. n -> Preferred \cup Welcome]
  PROVE  IsOrder(New!Distinct(cs), Ranking(cs))
<1>. DEFINE best == New!Distinct(cs)
<1>1. \A i, j \in best : <<i, j>> \in Ranking(cs) <=> New!Precedes(cs, best, i, j)
  BY DEF Ranking
<1>2. best \subseteq Nat
  BY EachAddressHasItsBest
<1>3. \A i \in Found(cs) : Pass(cs, i) \in Nat /\ Lead(cs, i) \in Nat
  BY PassesFollow, <1>2 DEF Neighbours, Found
<1>4. \A i \in best : <<i, i>> \notin Ranking(cs)
  BY <1>1, <1>2, <1>3, WhoPrecedes
<1>5. ASSUME NEW i \in best, NEW j \in best, NEW k \in best, <<i, j>> \in Ranking(cs), <<j, k>> \in Ranking(cs)
      PROVE  <<i, k>> \in Ranking(cs)
  <2>1. i \in Nat /\ j \in Nat /\ k \in Nat
    BY <1>2
  <2>. QED  BY <1>1, <1>3, <1>5, <2>1, WhoPrecedes
<1>6. ASSUME NEW i \in best, NEW j \in best, i # j
      PROVE  <<i, j>> \in Ranking(cs) \/ <<j, i>> \in Ranking(cs)
  <2>1. i \in Nat /\ j \in Nat
    BY <1>2
  <2>2. CASE i \in Found(cs) /\ j \in Found(cs)
    <3>1. CASE Lead(cs, i) = Lead(cs, j)
      <4>1. SubnetAt(cs, i) = SubnetAt(cs, j)
        BY <2>2, <3>1, PassesFollow DEF Neighbours
      <4>2. i \in Neighbours(cs, j) /\ j \in Neighbours(cs, i)
        BY <2>2, <4>1 DEF Neighbours
      <4>3. Pass(cs, i) < Pass(cs, j) \/ Pass(cs, j) < Pass(cs, i)
        BY <1>6, <2>1, <2>2, <4>2, PassesFollow
      <4>. QED  BY <1>1, <2>2, <4>3, WhoPrecedes
    <3>2. CASE Lead(cs, i) # Lead(cs, j)
      <4>1. Pass(cs, i) \in Nat /\ Pass(cs, j) \in Nat /\ Lead(cs, i) \in Nat /\ Lead(cs, j) \in Nat
        BY <1>3, <2>2
      <4>. QED  BY <1>1, <2>2, <3>2, <4>1, WhoPrecedes
    <3>. QED  BY <3>1, <3>2
  <2>3. CASE ~ (i \in Found(cs) /\ j \in Found(cs))
    BY <1>1, <1>6, <2>1, <2>3, WhoPrecedes
  <2>. QED  BY <2>2, <2>3
<1>. QED  BY <1>4, <1>5, <1>6 DEF IsOrder

\* Who is kept of a round are the candidates at its first places.
Placed(cs, slots) == FirstOf(New!Distinct(cs), Ranking(cs), slots)

LEMMA SlotsGoToTheFirst ==
  ASSUME NEW n \in Nat, NEW cs \in [1 .. n -> Preferred \cup Welcome], NEW slots \in Nat
  PROVE  /\ Placed(cs, slots) \subseteq New!Distinct(cs) /\ IsFiniteSet(Placed(cs, slots))
         /\ New!MostCredible(cs, slots) = {cs[i] : i \in Placed(cs, slots)}
         /\ LET all == Cardinality(New!Distinct(cs))
            IN /\ all \in Nat
               /\ Cardinality(Placed(cs, slots)) = IF slots <= all THEN slots ELSE all
         /\ \A i \in Placed(cs, slots), j \in New!Distinct(cs) :
               New!Precedes(cs, New!Distinct(cs), j, i) => j \in Placed(cs, slots)
<1>. DEFINE best == New!Distinct(cs)
<1>1. IsFiniteSet(best) /\ Cardinality(best) \in Nat
  BY EachAddressHasItsBest, FS_CardinalityType
<1>2. \A i, j \in best : <<j, i>> \in Ranking(cs) <=> New!Precedes(cs, best, j, i)
  BY DEF Ranking
<1>3. ASSUME NEW k \in best
      PROVE  New!Cardinality({j \in best : New!Precedes(cs, best, j, k)})
                = Cardinality(Before(best, Ranking(cs), k))
  <2>1. {j \in best : New!Precedes(cs, best, j, k)} = Before(best, Ranking(cs), k)
    BY <1>2 DEF Before
  <2>. QED  BY <2>1, NewCounts
<1>4. New!MostCredible(cs, slots) = {cs[i] : i \in Placed(cs, slots)}
  <2>. HIDE DEF best
  <2>1. {k \in best : New!Cardinality({j \in best : New!Precedes(cs, best, j, k)}) < slots} = Placed(cs, slots)
    BY <1>3 DEF Placed, FirstOf, best
  <2>. QED  BY <2>1 DEF New!MostCredible, best
<1>5. /\ IsFiniteSet(Placed(cs, slots))
      /\ Cardinality(Placed(cs, slots)) = IF slots <= Cardinality(best) THEN slots ELSE Cardinality(best)
      /\ \A i \in Placed(cs, slots), j \in best : <<j, i>> \in Ranking(cs) => j \in Placed(cs, slots)
  <2>1. IsOrder(best, Ranking(cs))
    BY CandidatesAreRanked
  <2>. HIDE DEF best
  <2>. QED  BY <1>1, <2>1, FirstPlaces DEF Placed, best
<1>6. Placed(cs, slots) \subseteq best
  BY DEF Placed, FirstOf
<1>. QED  BY <1>1, <1>2, <1>4, <1>5, <1>6

SubnetsOf(peers) == {SubnetOf[c.address] : c \in New!Strangers(peers)}
Reached(cs) == {cs[i] : i \in DOMAIN cs}
AddressesOf(peers) == {c.address : c \in peers}

\* There are as many distinct candidates as addresses reached, and as many kept
\* as places.
LEMMA SeatsAreOfDifferentPeers ==
  ASSUME NEW n \in Nat, NEW cs \in [1 .. n -> Preferred \cup Welcome], NEW slots \in Nat,
         NEW kept, kept = New!MostCredible(cs, slots)
  PROVE  /\ kept \subseteq Reached(cs) /\ IsFiniteSet(kept)
         /\ Cardinality(AddressesOf(Reached(cs))) \in Nat
         /\ Cardinality(kept) = New!Min({slots, Cardinality(AddressesOf(Reached(cs)))})
         /\ slots > 0 /\ n > 0 => kept # {}
<1>. DEFINE best == New!Distinct(cs)
            places == Placed(cs, slots)
<1>1. /\ best \subseteq 1 .. n /\ IsFiniteSet(best)
      /\ \A i, j \in best : cs[i].address = cs[j].address => i = j
      /\ \A k \in 1 .. n : \E i \in best : cs[i] = cs[k]
  BY EachAddressHasItsBest
<1>2. /\ places \subseteq best /\ IsFiniteSet(places) /\ kept = {cs[i] : i \in places}
      /\ Cardinality(best) \in Nat
      /\ Cardinality(places) = IF slots <= Cardinality(best) THEN slots ELSE Cardinality(best)
  BY SlotsGoToTheFirst
<1>3. DOMAIN cs = 1 .. n
  OBVIOUS
<1>4. Cardinality(AddressesOf(Reached(cs))) = Cardinality(best)
  <2>. DEFINE name == [i \in best |-> cs[i].address]
  <2>1. \A i \in best : name[i] \in AddressesOf(Reached(cs))
    BY <1>1, <1>3 DEF AddressesOf, Reached
  <2>2. \A a \in AddressesOf(Reached(cs)) : \E i \in best : name[i] = a
    BY <1>1, <1>3 DEF AddressesOf, Reached
  <2>3. \A i, j \in best : name[i] = name[j] => i = j
    BY <1>1
  <2>. HIDE DEF name
  <2>. QED  BY <1>1, <2>1, <2>2, <2>3, NamesAreFewer
<1>5. IsFiniteSet(kept) /\ Cardinality(kept) = Cardinality(places)
  <2>. DEFINE name == [i \in places |-> cs[i]]
  <2>1. \A i \in places : name[i] \in kept
    BY <1>2
  <2>2. \A c \in kept : \E i \in places : name[i] = c
    BY <1>2
  <2>3. \A i, j \in places : name[i] = name[j] => i = j
    BY <1>1, <1>2
  <2>. HIDE DEF name
  <2>. QED  BY <1>2, <2>1, <2>2, <2>3, NamesAreFewer
<1>6. kept \subseteq Reached(cs)
  BY <1>1, <1>2, <1>3 DEF Reached
<1>7. Cardinality(kept) = New!Min({slots, Cardinality(AddressesOf(Reached(cs)))})
  BY <1>2, <1>4, <1>5, TheLesser
<1>8. ASSUME slots > 0, n > 0
      PROVE  kept # {}
  <2>1. best # {}
    BY <1>1, <1>8
  <2>2. Cardinality(best) # 0
    BY <1>1, <2>1, FS_EmptySet
  <2>3. Cardinality(kept) # 0
    BY <1>2, <1>5, <1>8, <2>2
  <2>. QED  BY <2>3, FS_EmptySet
<1>. QED  BY <1>2, <1>4, <1>5, <1>6, <1>7, <1>8

\* Either somebody is seated in a second pass, and the first one has gone
\* through all subnets, or all who are seated are of different ones.
LEMMA SeatsAreOfDifferentSubnets ==
  ASSUME NEW n \in Nat, NEW cs \in [1 .. n -> Preferred \cup Welcome], NEW slots \in Nat,
         NEW kept, kept = New!MostCredible(cs, slots)
  PROVE  Cardinality(SubnetsOf(kept))
            = New!Min({Cardinality(New!Strangers(kept)), Cardinality(SubnetsOf(Reached(cs)))})
<1>. DEFINE best == New!Distinct(cs)
            places == Placed(cs, slots)
            seated == {i \in places : i \in Found(cs)}
<1>1. /\ best \subseteq 1 .. n /\ IsFiniteSet(best)
      /\ \A i, j \in best : cs[i].address = cs[j].address => i = j
      /\ \A k \in 1 .. n : \E i \in best : cs[i] = cs[k]
  BY EachAddressHasItsBest
<1>2. /\ places \subseteq best /\ IsFiniteSet(places) /\ kept = {cs[i] : i \in places}
      /\ \A i \in places, j \in best : New!Precedes(cs, best, j, i) => j \in places
  BY SlotsGoToTheFirst
<1>3. New!Strangers(kept) = {cs[i] : i \in seated}
  BY <1>2 DEF New!Strangers, Found
<1>4. SubnetsOf(kept) = {SubnetAt(cs, i) : i \in seated}
  BY <1>3 DEF SubnetsOf, SubnetAt
<1>5. SubnetsOf(Reached(cs)) = {SubnetAt(cs, i) : i \in Found(cs)}
  <2>1. DOMAIN cs = 1 .. n
    OBVIOUS
  <2>2. New!Strangers(Reached(cs)) = {cs[i] : i \in Found(cs)}
    BY <1>1, <2>1 DEF New!Strangers, Reached, Found
  <2>. QED  BY <2>2 DEF SubnetsOf, SubnetAt
<1>6. IsFiniteSet(seated) /\ IsFiniteSet(Found(cs))
  <2>1. seated \in SUBSET places /\ Found(cs) \in SUBSET best
    BY DEF Found
  <2>. QED  BY <1>1, <1>2, <2>1, FS_Subset
<1>7. /\ IsFiniteSet(New!Strangers(kept))
      /\ Cardinality(New!Strangers(kept)) = Cardinality(seated)
  <2>. DEFINE name == [i \in seated |-> cs[i]]
  <2>1. \A i \in seated : name[i] \in New!Strangers(kept)
    BY <1>3
  <2>2. \A c \in New!Strangers(kept) : \E i \in seated : name[i] = c
    BY <1>3
  <2>3. \A i, j \in seated : name[i] = name[j] => i = j
    BY <1>1, <1>2
  <2>. HIDE DEF name, seated
  <2>. QED  BY <1>6, <2>1, <2>2, <2>3, NamesAreFewer
<1>8. /\ IsFiniteSet(SubnetsOf(kept)) /\ Cardinality(SubnetsOf(kept)) <= Cardinality(seated)
      /\ (\A i, j \in seated : SubnetAt(cs, i) = SubnetAt(cs, j) => i = j) =>
            Cardinality(SubnetsOf(kept)) = Cardinality(seated)
  <2>. DEFINE name == [i \in seated |-> SubnetAt(cs, i)]
  <2>1. \A i \in seated : name[i] \in SubnetsOf(kept)
    BY <1>4
  <2>2. \A s \in SubnetsOf(kept) : \E i \in seated : name[i] = s
    BY <1>4
  <2>3. \A i \in seated : name[i] = SubnetAt(cs, i)
    OBVIOUS
  <2>. HIDE DEF name, seated
  <2>. QED  BY <1>6, <2>1, <2>2, <2>3, NamesAreFewer
<1>9. IsFiniteSet(SubnetsOf(Reached(cs)))
  <2>. DEFINE name == [i \in Found(cs) |-> SubnetAt(cs, i)]
  <2>1. \A i \in Found(cs) : name[i] \in SubnetsOf(Reached(cs))
    BY <1>5
  <2>2. \A s \in SubnetsOf(Reached(cs)) : \E i \in Found(cs) : name[i] = s
    BY <1>5
  <2>. HIDE DEF name
  <2>. QED  BY <1>6, <2>1, <2>2, NamesAreFewer
<1>10. SubnetsOf(kept) \in SUBSET SubnetsOf(Reached(cs))
  BY <1>4, <1>5
<1>11. /\ Cardinality(SubnetsOf(kept)) <= Cardinality(SubnetsOf(Reached(cs)))
       /\ Cardinality(SubnetsOf(kept)) \in Nat /\ Cardinality(SubnetsOf(Reached(cs))) \in Nat
       /\ Cardinality(seated) \in Nat
  BY <1>6, <1>8, <1>9, <1>10, FS_Subset, FS_CardinalityType
<1>12. CASE \E i \in seated : Pass(cs, i) # 0
  <2>1. PICK i \in seated : Pass(cs, i) # 0
    BY <1>12
  <2>2. ASSUME NEW k \in Found(cs)
        PROVE  SubnetAt(cs, k) \in SubnetsOf(kept)
    <3>1. Lead(cs, k) \in Found(cs) /\ SubnetAt(cs, Lead(cs, k)) = SubnetAt(cs, k) /\ Pass(cs, Lead(cs, k)) = 0
      BY PassesFollow DEF Neighbours
    <3>2. Pass(cs, i) \in Nat
      BY PassesFollow
    <3>3. New!Precedes(cs, best, Lead(cs, k), i)
      BY <1>2, <2>1, <3>1, <3>2, WhoPrecedes DEF Found
    <3>4. Lead(cs, k) \in seated
      BY <1>2, <2>1, <3>1, <3>3 DEF Found
    <3>. QED  BY <1>4, <3>1, <3>4
  <2>3. SubnetsOf(kept) = SubnetsOf(Reached(cs))
    BY <1>5, <1>10, <2>2
  <2>. QED  BY <1>7, <1>8, <1>11, <2>3, TheLesser
<1>13. CASE \A i \in seated : Pass(cs, i) = 0
  <2>1. ASSUME NEW i \in seated, NEW j \in seated, SubnetAt(cs, i) = SubnetAt(cs, j)
        PROVE  i = j
    <3>1. i \in Neighbours(cs, j) /\ j \in Neighbours(cs, i)
      BY <2>1 DEF Neighbours
    <3>2. i \in 1 .. n /\ j \in 1 .. n /\ ~ i < j /\ ~ j < i
      BY <1>13, <3>1, PassesFollow
    <3>. QED  BY <3>2
  <2>2. Cardinality(SubnetsOf(kept)) = Cardinality(seated)
    BY <1>8, <2>1
  <2>. QED  BY <1>7, <1>11, <2>2, TheLesser
<1>. QED  BY <1>12, <1>13

-----------------------------------------------------------------------------
(* The seats of a new client.                                              *)

\* The seats are filled from the addresses to be had, one by each round that
\* reaches anybody, until all are held.
SeatsAreFilled ==
    /\ nSeats \subseteq Preferred \cup Welcome /\ IsFiniteSet(nSeats) /\ Cardinality(nSeats) <= PoolSize
    /\ nRounds \in Nat
FruitIsSeated ==
    /\ nStatus \in {"filling", "filled", "open", "failed"}
    /\ nFruitful =>
          /\ nStatus = "filling" => Cardinality(nSeats) >= nRounds
          /\ nStatus = "filled" => New!Dialled = {}
          /\ nStatus \in {"open", "failed"} =>
                \/ New!Dialled = {}
                \/ Cardinality(nSeats) >= New!FillRounds
                \/ Cardinality(nSeats) = PoolSize
FillInv == SeatsAreFilled /\ FruitIsSeated

LEMMA FillingBegins == ClientInit => FillInv
<1>1. PoolSize \in Nat
  BY ClientAssumption
<1>. QED
  BY <1>1, FS_EmptySet DEF ClientInit, New!Init, FillInv, SeatsAreFilled, FruitIsSeated

\* What a round does, whatever its dials return.
LEMMA RoundsSeat ==
  ASSUME SeatsAreFilled, New!Round
  PROVE  /\ SeatsAreFilled'
         /\ nRounds' = nRounds + 1 /\ nStatus = "filling" /\ nStatus' \in {"filling", "filled"}
         /\ nStatus' = "filled" => nSeats' = nSeats /\ (nFruitful' => New!Dialled = {})
         /\ nStatus' = "filling" => Cardinality(nSeats') >= Cardinality(nSeats) + 1
         /\ nFruitful' => nFruitful
         /\ LET new == nSeats' \ nSeats
            IN /\ new \subseteq Preferred \cup Welcome
               /\ Cardinality(new) = New!Min({New!Wanted, Cardinality(AddressesOf(nReached'))})
               /\ Cardinality(SubnetsOf(new))
                     = New!Min({Cardinality(New!Strangers(new)), Cardinality(SubnetsOf(nReached'))})
<1>1. PICK n \in 0 .. New!DialsFor(New!Wanted) :
        \E cs \in [1 .. n -> New!Dialled] :
           /\ nSeats' = nSeats \cup New!MostCredible(cs, New!Wanted)
           /\ nStatus' = IF New!MostCredible(cs, New!Wanted) = {} THEN "filled" ELSE "filling"
           /\ nReached' = {cs[i] : i \in DOMAIN cs}
           /\ nFruitful' = (nFruitful /\ (n > 0 \/ New!Dialled = {}))
  BY DEF New!Round
<1>2. PICK cs \in [1 .. n -> New!Dialled] :
           /\ nSeats' = nSeats \cup New!MostCredible(cs, New!Wanted)
           /\ nStatus' = IF New!MostCredible(cs, New!Wanted) = {} THEN "filled" ELSE "filling"
           /\ nReached' = {cs[i] : i \in DOMAIN cs}
           /\ nFruitful' = (nFruitful /\ (n > 0 \/ New!Dialled = {}))
  BY <1>1
<1>3. /\ PoolSize \in Nat /\ Cardinality(nSeats) \in Nat
      /\ New!Wanted = PoolSize - Cardinality(nSeats) /\ New!Wanted \in Nat /\ New!Wanted > 0
      /\ nStatus = "filling" /\ nRounds' = nRounds + 1
  <2>1. PoolSize \in Nat /\ Cardinality(nSeats) \in Nat
    BY ClientAssumption, FS_CardinalityType DEF SeatsAreFilled
  <2>2. New!Wanted = PoolSize - Cardinality(nSeats)
    BY NewCounts DEF New!Wanted
  <2>3. nStatus = "filling" /\ nRounds' = nRounds + 1 /\ New!Wanted > 0
    BY DEF New!Round
  <2>. QED  BY <2>1, <2>2, <2>3 DEF SeatsAreFilled
<1>4. n \in Nat /\ cs \in [1 .. n -> Preferred \cup Welcome] /\ nReached' = Reached(cs)
  <2>1. n \in Nat
    BY <1>1, <1>3 DEF New!DialsFor
  <2>2. New!Dialled \subseteq Preferred \cup Welcome
    BY DialsEndSomewhere
  <2>. QED  BY <1>2, <2>1, <2>2 DEF Reached
<1>. DEFINE kept == New!MostCredible(cs, New!Wanted)
<1>5. /\ kept \subseteq Reached(cs) /\ IsFiniteSet(kept)
      /\ Cardinality(AddressesOf(Reached(cs))) \in Nat
      /\ Cardinality(kept) = New!Min({New!Wanted, Cardinality(AddressesOf(Reached(cs)))})
      /\ n > 0 => kept # {}
  BY <1>3, <1>4, SeatsAreOfDifferentPeers
<1>6. Cardinality(SubnetsOf(kept))
         = New!Min({Cardinality(New!Strangers(kept)), Cardinality(SubnetsOf(Reached(cs)))})
  BY <1>3, <1>4, SeatsAreOfDifferentSubnets
<1>7. kept \subseteq New!Dialled
  BY <1>2, <1>5 DEF Reached
<1>8. kept \cap nSeats = {}
  BY <1>7, DialsEndSomewhere DEF New!Held
<1>9. nSeats' \ nSeats = kept /\ kept \subseteq Preferred \cup Welcome
  BY <1>2, <1>7, <1>8, DialsEndSomewhere
<1>10. Cardinality(kept) \in Nat /\ Cardinality(kept) <= New!Wanted /\ (kept # {} => Cardinality(kept) >= 1)
  <2>1. Cardinality(kept) \in Nat /\ (kept # {} => Cardinality(kept) # 0)
    BY <1>5, FS_CardinalityType, FS_EmptySet
  <2>2. Cardinality(kept) <= New!Wanted
    BY <1>3, <1>5, TheLesser
  <2>. QED  BY <2>1, <2>2
<1>11. IsFiniteSet(nSeats') /\ Cardinality(nSeats') = Cardinality(nSeats) + Cardinality(kept)
  <2>1. /\ IsFiniteSet(nSeats \cup kept)
        /\ Cardinality(nSeats \cup kept) = Cardinality(nSeats) + Cardinality(kept) - Cardinality(nSeats \cap kept)
    BY <1>5, FS_Union DEF SeatsAreFilled
  <2>2. Cardinality(nSeats \cap kept) = 0
    BY <1>8, FS_EmptySet
  <2>. QED  BY <1>2, <1>3, <1>10, <2>1, <2>2
<1>12. SeatsAreFilled'
  <2>1. nSeats' \subseteq Preferred \cup Welcome
    BY <1>2, <1>9 DEF SeatsAreFilled
  <2>2. Cardinality(nSeats') <= PoolSize
    BY <1>3, <1>10, <1>11
  <2>3. nRounds' \in Nat
    BY <1>3 DEF SeatsAreFilled
  <2>. QED  BY <1>11, <2>1, <2>2, <2>3 DEF SeatsAreFilled, Preferred, Welcome
<1>13. CASE kept = {}
  <2>1. n = 0 /\ nStatus' = "filled" /\ nSeats' = nSeats
    BY <1>2, <1>4, <1>5, <1>13
  <2>. QED  BY <1>2, <1>3, <1>4, <1>5, <1>6, <1>9, <1>12, <2>1
<1>14. CASE kept # {}
  <2>1. nStatus' = "filling" /\ Cardinality(nSeats') >= Cardinality(nSeats) + 1
    BY <1>2, <1>3, <1>10, <1>11, <1>14
  <2>. QED  BY <1>2, <1>3, <1>4, <1>5, <1>6, <1>9, <1>12, <2>1
<1>. QED  BY <1>13, <1>14

\* Every step of a client is one of its construction or leaves that where it is.
LEMMA StepsOfAConstruction ==
  ASSUME [ClientNext]_clientVars
  PROVE  \/ New!Round
         \/ New!Open
         \/ UNCHANGED nVars
BY DEF ClientNext, CallGoesOn, Constructs, Confirms, Pushes, Reads, Surroundings, clientVars, New!Next

LEMMA FillingGoesOn == FillInv /\ [ClientNext]_clientVars => FillInv'
<1>. SUFFICES ASSUME FillInv, [ClientNext]_clientVars
              PROVE  FillInv'
  OBVIOUS
<1>1. Cardinality(nSeats) \in Nat /\ nRounds \in Nat /\ PoolSize \in Nat
  BY ClientAssumption, FS_CardinalityType DEF FillInv, SeatsAreFilled
<1>2. CASE New!Round
  <2>1. /\ SeatsAreFilled' /\ nRounds' = nRounds + 1 /\ nStatus = "filling" /\ nStatus' \in {"filling", "filled"}
        /\ nStatus' = "filled" => nSeats' = nSeats /\ (nFruitful' => New!Dialled = {})
        /\ nStatus' = "filling" => Cardinality(nSeats') >= Cardinality(nSeats) + 1
        /\ nFruitful' => nFruitful
    BY <1>2, RoundsSeat DEF FillInv
  <2>2. CASE nStatus' = "filled"
    <3>1. nFruitful' => New!Dialled' = {}
      BY <2>1, <2>2 DEF New!Dialled, New!Offered, New!Discoverable, New!Held
    <3>. QED  BY <2>1, <2>2, <3>1 DEF FillInv, FruitIsSeated
  <2>3. CASE nStatus' = "filling"
    <3>1. Cardinality(nSeats') \in Nat
      BY <2>1, FS_CardinalityType DEF SeatsAreFilled
    <3>2. nFruitful' => Cardinality(nSeats') >= nRounds'
      BY <1>1, <2>1, <2>3, <3>1 DEF FillInv, FruitIsSeated
    <3>. QED  BY <2>1, <2>3, <3>2 DEF FillInv, FruitIsSeated
  <2>. QED  BY <2>1, <2>2, <2>3
<1>3. CASE New!Open
  <2>1. /\ UNCHANGED <<nSeats, nRounds, nFruitful>> /\ nStatus' \in {"open", "failed"}
        /\ \/ nStatus = "filled"
           \/ nStatus = "filling" /\ (nRounds = New!FillRounds \/ New!Wanted = 0)
    BY <1>3 DEF New!Open
  <2>2. New!Dialled' = New!Dialled
    BY <2>1 DEF New!Dialled, New!Offered, New!Discoverable, New!Held
  <2>3. New!Wanted = PoolSize - Cardinality(nSeats)
    BY NewCounts DEF New!Wanted
  <2>. QED  BY <1>1, <2>1, <2>2, <2>3 DEF FillInv, SeatsAreFilled, FruitIsSeated
<1>4. CASE UNCHANGED nVars
  <2>1. UNCHANGED <<nSeats, nRounds, nFruitful, nStatus>>
    BY <1>4 DEF nVars
  <2>. QED
    BY <2>1
    DEF FillInv, SeatsAreFilled, FruitIsSeated, New!Dialled, New!Offered, New!Discoverable, New!Held
<1>. QED  BY <1>2, <1>3, <1>4, StepsOfAConstruction

LEMMA SeatsFill == ClientSpec => []FillInv
BY FillingBegins, FillingGoesOn, PTL DEF ClientSpec

\* The operator has two nodes at most, so of four seats two are of strangers;
\* a full pool has as many as the operator's nodes leave; and where nobody is
\* left to dial, every introduced stranger is seated.
LEMMA StrangersAreAmongThem ==
  ASSUME FillInv, nStatus \in {"open", "failed"}, nFruitful
  PROVE  New!StrangersGetSeats
<1>. DEFINE strangers == New!Strangers(nSeats)
            own == nSeats \ strangers
            welcome == Introduced \ (Local \cup Configured)
<1>1. PoolSize \in Nat /\ Cardinality(Configured) <= 2 /\ IsFiniteSet(Configured \cup Introduced)
  BY ClientAssumption
<1>2. /\ IsFiniteSet(nSeats) /\ Cardinality(nSeats) \in Nat /\ Cardinality(nSeats) <= PoolSize
      /\ nSeats \subseteq Preferred \cup Welcome
  BY FS_CardinalityType DEF FillInv, SeatsAreFilled
<1>3. strangers \in SUBSET nSeats
  BY DEF New!Strangers
<1>4. IsFiniteSet(strangers) /\ Cardinality(strangers) \in Nat /\ IsFiniteSet(own) /\ Cardinality(own) \in Nat
  <2>1. own \in SUBSET nSeats
    OBVIOUS
  <2>. QED  BY <1>2, <1>3, <2>1, FS_Subset, FS_CardinalityType
<1>5. Cardinality(nSeats) = Cardinality(own) + Cardinality(strangers)
  <2>1. Cardinality(nSeats \cap strangers) = Cardinality(strangers)
    <3>1. nSeats \cap strangers = strangers
      BY <1>3
    <3>. QED  BY <3>1
  <2>2. Cardinality(own) = Cardinality(nSeats) - Cardinality(nSeats \cap strangers)
    <3>. HIDE DEF strangers
    <3>. QED  BY <1>2, FS_Difference
  <2>. QED  BY <1>2, <1>4, <2>1, <2>2
<1>6. IsFiniteSet(Configured) /\ IsFiniteSet(welcome) /\ Cardinality(welcome) \in Nat
  <2>1. Configured \in SUBSET (Configured \cup Introduced) /\ welcome \in SUBSET (Configured \cup Introduced)
    OBVIOUS
  <2>. QED  BY <1>1, <2>1, FS_Subset, FS_CardinalityType
<1>7. Cardinality(own) <= 2
  <2>. DEFINE seatsOf == {c.address : c \in own}
              name == [c \in own |-> c.address]
  <2>1. \A c \in own : name[c] \in seatsOf
    OBVIOUS
  <2>2. \A a \in seatsOf : \E c \in own : name[c] = a
    OBVIOUS
  <2>3. \A c, d \in own : name[c] = name[d] => c = d
    BY <1>2, AddressesTell
  <2>4. seatsOf \in SUBSET Configured
    BY <1>2, AddressesTell DEF New!Strangers
  <2>5. IsFiniteSet(seatsOf) /\ Cardinality(seatsOf) <= Cardinality(Configured) /\ Cardinality(Configured) \in Nat
    BY <1>6, <2>4, FS_Subset, FS_CardinalityType
  <2>6. Cardinality(seatsOf) = Cardinality(own)
    <3>. HIDE DEF name, seatsOf, own
    <3>. QED  BY <1>4, <2>1, <2>2, <2>3, NamesAreFewer
  <2>. QED  BY <1>1, <1>4, <2>5, <2>6
<1>8. ASSUME \/ Cardinality(strangers) >= 2
             \/ Cardinality(strangers) >= PoolSize - Cardinality(own)
             \/ Cardinality(strangers) >= Cardinality(welcome)
      PROVE  New!StrangersGetSeats
  <2>. HIDE DEF strangers, own, welcome
  <2>1. PoolSize - Cardinality(own) \in Nat
    BY <1>1, <1>2, <1>4, <1>5
  <2>2. Cardinality(strangers) >= New!Min({2, PoolSize - Cardinality(own), Cardinality(welcome)})
    BY <1>4, <1>6, <1>8, <2>1, TheLesser
  <2>3. New!Cardinality(strangers) >= New!Min({2, PoolSize - New!Cardinality(own), New!Cardinality(welcome)})
    BY <2>2, NewCounts
  <2>. QED  BY <2>3 DEF New!StrangersGetSeats, strangers, own, welcome
<1>9. CASE Cardinality(nSeats) >= New!FillRounds
  <2>1. Cardinality(strangers) >= 2
    BY <1>2, <1>4, <1>5, <1>7, <1>9 DEF New!FillRounds, New!PrioritySlots
  <2>. QED  BY <1>8, <2>1
<1>10. CASE Cardinality(nSeats) = PoolSize
  <2>1. Cardinality(strangers) >= PoolSize - Cardinality(own)
    BY <1>1, <1>4, <1>5, <1>10
  <2>. QED  BY <1>8, <2>1
<1>11. CASE New!Dialled = {}
  <2>. DEFINE name == [c \in strangers |-> c.address]
  <2>1. \A c \in strangers : name[c] \in welcome
    BY <1>2, AddressesTell DEF New!Strangers
  <2>2. ASSUME NEW a \in welcome
        PROVE  \E c \in strangers : name[c] = a
    <3>1. a \notin New!Discoverable
      <4>1. a \in New!Discoverable => [address |-> a, origin |-> "Discovered"] \in New!Dialled
        BY DEF New!Dialled
      <4>. QED  BY <1>11, <4>1
    <3>2. a \in New!Held
      BY <3>1 DEF New!Discoverable, New!Offered
    <3>3. PICK c \in nSeats : c.address = a
      BY <3>2 DEF New!Held
    <3>4. New!IsDiscovered(c)
      BY <1>2, <3>3, AddressesTell
    <3>. QED  BY <3>3, <3>4 DEF New!Strangers
  <2>3. Cardinality(welcome) <= Cardinality(strangers)
    <3>. HIDE DEF name, strangers, welcome
    <3>. QED  BY <1>4, <2>1, <2>2, NamesAreFewer
  <2>. QED  BY <1>8, <2>3
<1>. QED  BY <1>9, <1>10, <1>11 DEF FillInv, FruitIsSeated

\* admit refuses an address that is held and a peer beyond capacity.  Nobody
\* whom a round keeps is refused, whatever the dials return: so Round seats
\* them all.
THEOREM NobodyKeptIsRefused ==
  ClientSpec => [](/\ Cardinality(nSeats) <= PoolSize
                   /\ \A c, d \in nSeats : c.address = d.address => c = d)
<1>1. FillInv => /\ Cardinality(nSeats) <= PoolSize
                 /\ \A c, d \in nSeats : c.address = d.address => c = d
  BY AddressesTell DEF FillInv, SeatsAreFilled
<1>. QED  BY <1>1, SeatsFill, PTL

\* However few dials of a round come home and with whom: if no round comes home
\* empty-handed, the rounds suffice to seat two discovered peers beside the
\* operator's nodes, or as many as there are seats or introduced ones.
THEOREM StrangersAreSeated == ClientSpec => []StrangersGetSeats
<1>1. FillInv => StrangersGetSeats
  BY StrangersAreAmongThem DEF StrangersGetSeats, New!StrangersGetSeats
<1>. QED  BY <1>1, SeatsFill, PTL

\* What EverySeatBuysAVoice says of the step that is a round.
RoundBuysVoices ==
    LET new == nSeats' \ nSeats
        Subnets(cs) == {SubnetOf[c.address] : c \in New!Strangers(cs)}
    IN /\ New!Cardinality(new) = New!Min({New!Wanted, New!Cardinality({c.address : c \in nReached'})})
       /\ New!Cardinality(Subnets(new)) =
              New!Min({New!Cardinality(New!Strangers(new)), New!Cardinality(Subnets(nReached'))})
       /\ \A c \in New!Strangers(new) : c.address \notin Local \cup Configured

\* Whatever the dials of a round return, the seats it fills go to different
\* addresses, of as many subnets as can be, and none to an address that is
\* local or preferred under another name.
THEOREM SeatsBuyVoices == ClientSpec => EverySeatBuysAVoice
<1>1. FillInv /\ [ClientNext]_clientVars => [nRounds' # nRounds => RoundBuysVoices]_New!vars
  <2>. SUFFICES ASSUME FillInv, [ClientNext]_clientVars, nRounds' # nRounds
                PROVE  RoundBuysVoices
    OBVIOUS
  <2>1. New!Round
    BY StepsOfAConstruction DEF New!Open, nVars
  <2>. DEFINE new == nSeats' \ nSeats
  <2>2. /\ new \subseteq Preferred \cup Welcome
        /\ Cardinality(new) = New!Min({New!Wanted, Cardinality(AddressesOf(nReached'))})
        /\ Cardinality(SubnetsOf(new))
              = New!Min({Cardinality(New!Strangers(new)), Cardinality(SubnetsOf(nReached'))})
    BY <2>1, RoundsSeat DEF FillInv
  <2>3. \A c \in New!Strangers(new) : c.address \notin Local \cup Configured
    BY <2>2, AddressesTell DEF New!Strangers
  <2>. HIDE DEF new
  <2>. QED  BY <2>2, <2>3, NewCounts DEF RoundBuysVoices, new, AddressesOf, SubnetsOf
<1>. QED
  BY <1>1, SeatsFill, PTL DEF ClientSpec, EverySeatBuysAVoice, New!EverySeatBuysAVoice, RoundBuysVoices
=============================================================================
