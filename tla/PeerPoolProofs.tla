--------------------------- MODULE PeerPoolProofs ---------------------------
(***************************************************************************)
(* What holds of the peer pool for every set of addresses, every number of *)
(* callers, every capacity and every bound.                                *)
(*                                                                         *)
(* The inductive invariant IInv adds two facts to the properties the runs *)
(* check: the seats are finitely many (Cardinality says nothing of any     *)
(* other set), and deaths are in a pass's hands only while it is about to  *)
(* act on them -- so the next pass of that caller overwrites nothing.      *)
(*                                                                         *)
(* That only a dropped call orphans a seat follows step by step: every     *)
(* other step that ends somebody's charge of a seat hands it on, or takes  *)
(* the seat.                                                               *)
(*                                                                         *)
(* That seats are lost for a cause rests on two more arguments: the bar of *)
(* the lagging is a lower median, so that who is below it is outvoted by a *)
(* majority, and a session is followed or dead, never both.                *)
(***************************************************************************)
EXTENDS PeerPool, FiniteSetTheorems, TLAPS

\* A pass that has left "eject_dead" holds no deaths any more.
TakenOnlyToEject ==
    \A c \in Callers : pc[c] # "eject_dead" => taken[c] = {}

IInv ==
    /\ TypeOK
    /\ IsFiniteSet(entries)
    /\ OneSeatPerAddress
    /\ WithinCapacity
    /\ TakenOnlyToEject

-----------------------------------------------------------------------------
(* Type correctness.                                                        *)

\* Every variable of the pool keeps its type.
THEOREM TypeCorrect == Spec => []TypeOK
<1>. USE AddressesAssumption, BoundsAssumption
<1>1. Init => TypeOK
  BY DEF Init, TypeOK, Session, Stages
<1>2. TypeOK /\ [Next]_vars => TypeOK'
  <2>. SUFFICES ASSUME TypeOK, [Next]_vars
                PROVE  TypeOK'
    OBVIOUS
  <2>. USE DEF TypeOK, Reach, Stages
  <2>1. ASSUME NEW c \in Callers, BeginCall(c)
        PROVE  TypeOK'
    BY <2>1 DEF BeginCall
  <2>2. ASSUME NEW c \in Callers, EjectDead(c)
        PROVE  TypeOK'
    BY <2>2 DEF EjectDead
  <2>3. ASSUME NEW c \in Callers, EvictLagging(c)
        PROVE  TypeOK'
    BY <2>3 DEF EvictLagging
  <2>4. ASSUME NEW c \in Callers, CycleExpired(c)
        PROVE  TypeOK'
    BY <2>4 DEF CycleExpired
  <2>5. ASSUME NEW c \in Callers, TryRefill(c)
        PROVE  TypeOK'
    <3>1. HeldAddresses \subseteq Address
      BY DEF HeldAddresses, PeerEntry
    <3>. QED  BY <2>5, <3>1 DEF TryRefill
  <2>6. ASSUME NEW c \in Callers, DialSucceeds(c)
        PROVE  TypeOK'
    <3>1. next_session \in Session /\ next_session + 1 \in Session
      BY <2>6 DEF DialSucceeds, Session
    <3>2. \A a \in Address : [address |-> a, session |-> next_session] \in FrameSource
      BY <3>1 DEF FrameSource
    <3>. QED  BY <2>6, <3>1, <3>2 DEF DialSucceeds, Reachable
  <2>7. ASSUME NEW c \in Callers, DialFails(c)
        PROVE  TypeOK'
    BY <2>7 DEF DialFails
  <2>8. ASSUME NEW c \in Callers, Admit(c)
        PROVE  TypeOK'
    <3>1. \A s \in dialled[c] :
             [address |-> s.address, session |-> s.session,
              last_peak |-> 0, admitted_at |-> now] \in PeerEntry
      BY DEF FrameSource, PeerEntry
    <3>. QED  BY <2>8, <3>1 DEF Admit
  <2>9. ASSUME NEW c \in Callers, Follow(c)
        PROVE  TypeOK'
    BY <2>9 DEF Follow
  <2>10. ASSUME NEW c \in Callers, SelectPeer(c)
         PROVE  TypeOK'
    <3>1. \A e \in entries : SourceOf(e) \in FrameSource
      BY DEF SourceOf, PeerEntry, FrameSource
    <3>. QED  BY <2>10, <3>1 DEF SelectPeer
  <2>11. ASSUME NEW c \in Callers, RequestAnswered(c)
         PROVE  TypeOK'
    BY <2>11 DEF RequestAnswered
  <2>12. ASSUME NEW c \in Callers, RequestFails(c)
         PROVE  TypeOK'
    BY <2>12 DEF RequestFails
  <2>13. ASSUME NEW c \in Callers, Cancel(c)
         PROVE  TypeOK'
    BY <2>13 DEF Cancel
  <2>14. ASSUME NEW s \in following, NEW h \in Heights, Announce(s, h)
         PROVE  TypeOK'
    <3>1. \A e \in entries :
             /\ RaisedPeak(e, h) \in Heights \cup {0}
             /\ [e EXCEPT !.last_peak = RaisedPeak(e, h)] \in PeerEntry
      BY DEF RaisedPeak, PeerEntry
    <3>. QED  BY <2>14, <3>1 DEF Announce, callVars
  <2>15. ASSUME NEW s \in following, SessionEnds(s)
         PROVE  TypeOK'
    BY <2>15 DEF SessionEnds, DeathRecorded, callVars
  <2>16. CASE Tick
    BY <2>16 DEF Tick, callVars
  <2>17. CASE UNCHANGED vars
    BY <2>17 DEF vars
  <2>. QED
    BY <2>1, <2>2, <2>3, <2>4, <2>5, <2>6, <2>7, <2>8, <2>9, <2>10, <2>11,
       <2>12, <2>13, <2>14, <2>15, <2>16, <2>17 DEF Next, CallStep
<1>. QED  BY <1>1, <1>2, PTL DEF Spec

-----------------------------------------------------------------------------
(* What a step may do to the seats.                                         *)

\* The seat a connection is given.
NewSeat(s) ==
    [address |-> s.address, session |-> s.session,
     last_peak |-> 0, admitted_at |-> now]

\* Seats are only vacated.
Vacated == entries' \subseteq entries

\* One free seat is taken, at an address nobody sits at.
Taken(c) ==
    /\ pc[c] = "admit" /\ pc'[c] = "follow"
    /\ dialled'[c] = dialled[c]
    /\ Cardinality(entries) < MaxPeers
    /\ \E s \in dialled[c] :
          /\ s.address \notin HeldAddresses
          /\ entries' = entries \cup {NewSeat(s)}

\* A peak is recorded in a seat that stays what it is otherwise.
Raised(s, h) ==
    entries' = {IF SourceOf(e) = s
                THEN [e EXCEPT !.last_peak = RaisedPeak(e, h)]
                ELSE e : e \in entries}

\* Every step leaves the seats to one of the three.
LEMMA SeatStep ==
    ASSUME TypeOK, IsFiniteSet(entries), [Next]_vars
    PROVE  \/ Vacated
           \/ \E c \in Callers : Taken(c)
           \/ \E s \in following, h \in Heights : Raised(s, h)
<1>. USE DEF Vacated
<1>1. ASSUME NEW c \in Callers, BeginCall(c) \/ CallStep(c) \/ Cancel(c), ~ Admit(c)
      PROVE  Vacated
  BY <1>1 DEF CallStep, BeginCall, EjectDead, EvictLagging, CycleExpired, TryRefill,
     DialSucceeds, DialFails, Follow, SelectPeer, RequestAnswered, RequestFails, Cancel
<1>2. ASSUME NEW c \in Callers, Admit(c)
      PROVE  Vacated \/ Taken(c)
  <2>1. PICK s \in dialled[c] :
           IF Refused(s)
           THEN Reach(c, "select") /\ UNCHANGED entries
           ELSE /\ entries' = entries \cup {NewSeat(s)}
                /\ Reach(c, "follow")
                /\ UNCHANGED dialled
    BY <1>2 DEF Admit, NewSeat
  <2>2. CASE Refused(s)
    BY <2>1, <2>2
  <2>3. CASE ~ Refused(s)
    <3>1. Cardinality(entries) \in Nat
      BY FS_CardinalityType
    <3>2. Cardinality(entries) < MaxPeers /\ s.address \notin HeldAddresses
      BY <2>3, <3>1, BoundsAssumption DEF Refused
    <3>3. pc[c] = "admit" /\ pc'[c] = "follow"
      BY <1>2, <2>1, <2>3 DEF Admit, Reach, TypeOK
    <3>. QED  BY <2>1, <2>3, <3>2, <3>3 DEF Taken
  <2>. QED  BY <2>2, <2>3
<1>3. ASSUME NEW s \in following, NEW h \in Heights, Announce(s, h)
      PROVE  Raised(s, h)
  BY <1>3 DEF Announce, Raised
<1>4. ASSUME NEW s \in following, SessionEnds(s)
      PROVE  Vacated
  BY <1>4 DEF SessionEnds
<1>5. CASE Tick \/ UNCHANGED vars
  BY <1>5 DEF Tick, vars
<1>. QED  BY <1>1, <1>2, <1>3, <1>4, <1>5 DEF Next

\* Recording a peak moves nobody: same connections, no more seats than before.
LEMMA RaisedKeepsSeats ==
    ASSUME TypeOK, IsFiniteSet(entries),
           NEW s, NEW h \in Heights, Raised(s, h)
    PROVE  /\ Seated' = Seated
           /\ IsFiniteSet(entries')
           /\ Cardinality(entries') <= Cardinality(entries)
           /\ OneSeatPerAddress => OneSeatPerAddress'
<1>. DEFINE image(e) == IF SourceOf(e) = s
                        THEN [e EXCEPT !.last_peak = RaisedPeak(e, h)]
                        ELSE e
            f == [e \in entries |-> image(e)]
<1>1. entries' = {image(e) : e \in entries}
  BY DEF Raised
<1>2. \A e \in entries : /\ image(e).address = e.address
                         /\ SourceOf(image(e)) = SourceOf(e)
  BY DEF SourceOf, TypeOK, PeerEntry
<1>3. Seated' = Seated
  BY <1>1, <1>2 DEF Seated, SourceOf
<1>4. f \in Surjection(entries, entries')
  BY <1>1 DEF Surjection
<1>5. /\ IsFiniteSet(entries')
      /\ Cardinality(entries') <= Cardinality(entries)
  BY <1>4, FS_Surjection
<1>6. ASSUME OneSeatPerAddress
      PROVE  OneSeatPerAddress'
  <2>. HIDE DEF image
  <2>1. ASSUME NEW d \in entries', NEW e \in entries', d.address = e.address
        PROVE  d = e
    <3>1. PICK dd \in entries, ee \in entries : d = image(dd) /\ e = image(ee)
      BY <1>1
    <3>2. dd = ee
      BY <1>2, <1>6, <2>1, <3>1 DEF OneSeatPerAddress
    <3>. QED  BY <3>1, <3>2
  <2>. QED  BY <2>1 DEF OneSeatPerAddress
<1>. QED  BY <1>3, <1>5, <1>6

\* No step seats two connections at one address or one too many.
LEMMA SeatsStep ==
    ASSUME TypeOK, IsFiniteSet(entries), OneSeatPerAddress, WithinCapacity, [Next]_vars
    PROVE  IsFiniteSet(entries') /\ OneSeatPerAddress' /\ WithinCapacity'
<1>0. Cardinality(entries) \in Nat /\ MaxPeers \in Nat
  BY FS_CardinalityType, BoundsAssumption
<1>1. CASE Vacated
  <2>1. IsFiniteSet(entries') /\ Cardinality(entries') <= Cardinality(entries)
    BY <1>1, FS_Subset DEF Vacated
  <2>2. Cardinality(entries') \in Nat
    BY <2>1, FS_CardinalityType
  <2>3. WithinCapacity'
    BY <1>0, <2>1, <2>2 DEF WithinCapacity
  <2>4. OneSeatPerAddress'
    BY <1>1 DEF Vacated, OneSeatPerAddress
  <2>. QED  BY <2>1, <2>3, <2>4
<1>2. ASSUME NEW c \in Callers, Taken(c)
      PROVE  IsFiniteSet(entries') /\ OneSeatPerAddress' /\ WithinCapacity'
  <2>1. PICK s \in dialled[c] : /\ s.address \notin HeldAddresses
                                /\ entries' = entries \cup {NewSeat(s)}
    BY <1>2 DEF Taken
  <2>2. IsFiniteSet(entries') /\ Cardinality(entries') <= Cardinality(entries) + 1
    <3>1. /\ IsFiniteSet(entries \cup {NewSeat(s)})
          /\ Cardinality(entries \cup {NewSeat(s)}) =
               IF NewSeat(s) \in entries THEN Cardinality(entries)
                                         ELSE Cardinality(entries) + 1
      BY FS_AddElement
    <3>. QED  BY <1>0, <2>1, <3>1
  <2>3. Cardinality(entries') \in Nat
    BY <2>2, FS_CardinalityType
  <2>4. WithinCapacity'
    BY <1>0, <1>2, <2>2, <2>3 DEF WithinCapacity, Taken
  <2>5. NewSeat(s).address = s.address
    BY DEF NewSeat
  <2>6. OneSeatPerAddress'
    BY <2>1, <2>5 DEF OneSeatPerAddress, HeldAddresses
  <2>. QED  BY <2>2, <2>4, <2>6
<1>3. ASSUME NEW s \in following, NEW h \in Heights, Raised(s, h)
      PROVE  IsFiniteSet(entries') /\ OneSeatPerAddress' /\ WithinCapacity'
  <2>1. /\ IsFiniteSet(entries')
        /\ Cardinality(entries') <= Cardinality(entries)
        /\ OneSeatPerAddress'
    BY <1>3, RaisedKeepsSeats
  <2>2. Cardinality(entries') \in Nat
    BY <2>1, FS_CardinalityType
  <2>. QED  BY <1>0, <2>1, <2>2 DEF WithinCapacity
<1>. QED  BY <1>1, <1>2, <1>3, SeatStep

-----------------------------------------------------------------------------
(* Nobody is seated without somebody to notice its death.                   *)

\* A step that orphans a seat is the dropping of the call in charge of it.
LEMMA OrphanStep ==
    ASSUME TypeOK, IsFiniteSet(entries), TakenOnlyToEject, [Next]_vars
    PROVE  \A s \in OrphanSeats' \ OrphanSeats :
              \E c \in Callers : InCharge(c, s) /\ Cancel(c)
<1>. DEFINE Kept == OrphanSeats' \subseteq OrphanSeats
<1>. USE DEF OrphanSeats, InCharge, Seated, TypeOK, Reach
<1>1. ASSUME NEW c \in Callers, BeginCall(c)
      PROVE  Kept
  <2>1. taken[c] = {}
    BY <1>1 DEF BeginCall, TakenOnlyToEject
  <2>. QED  BY <1>1, <2>1 DEF BeginCall
<1>2. ASSUME NEW c \in Callers, EjectDead(c)
      PROVE  Kept
  <2>1. \A s \in Seated' : s \in Seated /\ s \notin taken[c]
    BY <1>2 DEF EjectDead, Died
  <2>. QED  BY <1>2, <2>1 DEF EjectDead
<1>3. ASSUME NEW c \in Callers,
             EvictLagging(c) \/ CycleExpired(c) \/ TryRefill(c) \/ DialFails(c)
               \/ DialSucceeds(c) \/ SelectPeer(c) \/ RequestAnswered(c) \/ RequestFails(c)
      PROVE  Kept
  <2>1. /\ entries' \subseteq entries
        /\ UNCHANGED <<following, dead_sessions, taken>>
        /\ \A d \in Callers : pc[d] = "follow" => pc'[d] = "follow" /\ dialled'[d] = dialled[d]
    BY <1>3 DEF EvictLagging, CycleExpired, TryRefill, DialFails, DialSucceeds,
       SelectPeer, RequestAnswered, RequestFails
  <2>. QED  BY <2>1, Zenon
<1>4. ASSUME NEW c \in Callers, Admit(c)
      PROVE  Kept
  <2>1. /\ UNCHANGED <<following, dead_sessions, taken>>
        /\ \A d \in Callers : pc[d] = "follow" => pc'[d] = "follow" /\ dialled'[d] = dialled[d]
    BY <1>4 DEF Admit
  <2>2. CASE Vacated
    BY <2>1, <2>2, Zenon DEF Vacated
  <2>3. ASSUME NEW d \in Callers, Taken(d)
        PROVE  Kept
    <3>1. PICK s \in dialled[d] : entries' = entries \cup {NewSeat(s)}
      BY <2>3 DEF Taken
    <3>2. SourceOf(NewSeat(s)) = s
      BY DEF SourceOf, NewSeat, FrameSource
    <3>3. pc'[d] = "follow" /\ s \in dialled'[d]
      BY <2>3 DEF Taken
    <3>4. Seated' \subseteq Seated \cup {s}
      BY <3>1, <3>2
    <3>. QED  BY <2>1, <3>3, <3>4, Zenon
  <2>4. Vacated \/ \E d \in Callers : Taken(d)
    <3>1. entries' # entries => Taken(c)
      <4>1. PICK s \in dialled[c] :
               IF Refused(s)
               THEN UNCHANGED entries
               ELSE /\ entries' = entries \cup {NewSeat(s)}
                    /\ Reach(c, "follow")
                    /\ UNCHANGED dialled
        BY <1>4 DEF Admit, NewSeat
      <4>2. Cardinality(entries) \in Nat
        BY FS_CardinalityType
      <4>. QED  BY <1>4, <4>1, <4>2, BoundsAssumption DEF Admit, Taken, Refused
    <3>. QED  BY <3>1 DEF Vacated
  <2>. QED  BY <2>2, <2>3, <2>4
<1>5. ASSUME NEW c \in Callers, Follow(c)
      PROVE  Kept
  BY <1>5 DEF Follow
<1>6. ASSUME NEW s \in following, NEW h \in Heights, Announce(s, h)
      PROVE  Kept
  <2>1. Raised(s, h)
    BY <1>6 DEF Announce, Raised
  <2>2. Seated' = Seated
    BY <2>1, RaisedKeepsSeats, Zenon
  <2>. QED  BY <1>6, <2>2, Zenon DEF Announce, callVars
<1>7. ASSUME NEW s \in following, SessionEnds(s)
      PROVE  Kept
  BY <1>7 DEF SessionEnds, DeathRecorded, callVars
<1>8. CASE Tick \/ UNCHANGED vars
  BY <1>8 DEF Tick, callVars, vars
<1>9. ASSUME NEW c \in Callers, Cancel(c), NEW s \in OrphanSeats' \ OrphanSeats
      PROVE  InCharge(c, s)
  <2>1. s \in Seated /\ s \notin following \cup dead_sessions
    BY <1>9 DEF Cancel
  <2>2. PICK d \in Callers : InCharge(d, s)
    BY <2>1
  <2>3. d # c => InCharge(d, s)'
    BY <1>9, <2>2 DEF Cancel
  <2>. QED  BY <2>2, <2>3
<1>10. \/ Kept
       \/ \E c \in Callers : Cancel(c)
  BY <1>1, <1>2, <1>3, <1>4, <1>5, <1>6, <1>7, <1>8 DEF Next, CallStep
<1>. QED  BY <1>9, <1>10

\* A step leaves deaths in hand only with a pass about to act on them.
LEMMA TakenStep ==
    ASSUME TypeOK, TakenOnlyToEject, [Next]_vars
    PROVE  TakenOnlyToEject'
<1>. USE DEF TakenOnlyToEject, TypeOK, Reach
<1>1. ASSUME NEW c \in Callers, BeginCall(c) \/ CallStep(c) \/ Cancel(c)
      PROVE  TakenOnlyToEject'
  <2>1. CASE BeginCall(c)
    BY <2>1 DEF BeginCall
  <2>2. CASE EjectDead(c) \/ Cancel(c)
    BY <2>2 DEF EjectDead, Cancel
  <2>3. CASE CallStep(c) /\ ~ EjectDead(c)
    <3>1. /\ taken' = taken
          /\ pc[c] # "eject_dead"
          /\ \A d \in Callers \ {c} : pc'[d] = pc[d]
      BY <2>3 DEF CallStep, EvictLagging, CycleExpired, TryRefill, DialFails,
         DialSucceeds, Admit, Follow, SelectPeer, RequestAnswered, RequestFails
    <3>. QED  BY <3>1
  <2>. QED  BY <1>1, <2>1, <2>2, <2>3
<1>2. CASE (\E s \in following : (\E h \in Heights : Announce(s, h)) \/ SessionEnds(s))
             \/ Tick \/ UNCHANGED vars
  BY <1>2 DEF Announce, SessionEnds, Tick, callVars, vars
<1>. QED  BY <1>1, <1>2 DEF Next

-----------------------------------------------------------------------------
(* The invariant, and what follows from it.                                 *)

\* The inductive invariant holds from the start and through every step.
THEOREM Invariance == Spec => []IInv
<1>1. Init => IInv
  <2>. SUFFICES ASSUME Init PROVE IInv
    OBVIOUS
  <2>1. TypeOK
    BY BoundsAssumption DEF Init, TypeOK, Session, Stages
  <2>2. IsFiniteSet(entries) /\ Cardinality(entries) = 0
    BY FS_EmptySet DEF Init
  <2>3. OneSeatPerAddress /\ WithinCapacity /\ TakenOnlyToEject
    BY <2>2, BoundsAssumption
       DEF Init, OneSeatPerAddress, WithinCapacity, TakenOnlyToEject
  <2>. QED  BY <2>1, <2>2, <2>3 DEF IInv
<1>2. IInv /\ TypeOK' /\ [Next]_vars => IInv'
  <2>. SUFFICES ASSUME IInv, TypeOK', [Next]_vars PROVE IInv'
    OBVIOUS
  <2>1. IsFiniteSet(entries') /\ OneSeatPerAddress' /\ WithinCapacity'
    BY SeatsStep DEF IInv
  <2>2. TakenOnlyToEject'
    BY TakenStep DEF IInv
  <2>. QED  BY <2>1, <2>2 DEF IInv
<1>. QED  BY <1>1, <1>2, TypeCorrect, PTL DEF Spec

\* One address never holds two seats, however many dials race for it.
THEOREM SeatsAreDistinct == Spec => []OneSeatPerAddress
<1>1. IInv => OneSeatPerAddress
  BY DEF IInv
<1>. QED  BY <1>1, Invariance, PTL

\* The pool never holds more than max_peers connections.
THEOREM CapacityHolds == Spec => []WithinCapacity
<1>1. IInv => WithinCapacity
  BY DEF IInv
<1>. QED  BY <1>1, Invariance, PTL

\* The death of a seated session is lost in one way only: the caller drops the
\* call that took it off the list, or that has just admitted the session.  For
\* callers who drop nothing it is never lost.
THEOREM OnlyDropsOrphan == Spec => OnlyADropOrphans
<1>. DEFINE Dropped == \A s \in OrphanSeats' \ OrphanSeats :
                          \E c \in Callers : InCharge(c, s) /\ Cancel(c)
<1>1. IInv /\ [Next]_vars => [Dropped]_vars
  BY OrphanStep DEF IInv
<1>. QED  BY <1>1, Invariance, PTL DEF Spec, OnlyADropOrphans

\* Every step of the pool is a step its contract allows, or none of its seats
\* changes hands.
LEMMA StepsKeepContract ==
    ASSUME IInv, [Next]_vars
    PROVE  [Contract!Next]_Seated
<1>1. CASE Vacated
  <2>1. Seated' \subseteq Seated
    BY <1>1 DEF Vacated, Seated
  <2>2. CASE Seated' = Seated
    BY <2>2
  <2>3. CASE Seated' # Seated
    <3>. DEFINE gone == Seated \ Seated'
    <3>1. gone # {} /\ Seated' = Seated \ gone /\ gone \in SUBSET Seated
      BY <2>1, <2>3
    <3>2. Contract!Leave(gone)
      BY <3>1 DEF Contract!Leave
    <3>. QED  BY <3>1, <3>2 DEF Contract!Next
  <2>. QED  BY <2>2, <2>3
<1>2. ASSUME NEW c \in Callers, Taken(c)
      PROVE  Contract!Next
  <2>1. PICK s \in dialled[c] : /\ s.address \notin HeldAddresses
                                /\ entries' = entries \cup {NewSeat(s)}
    BY <1>2 DEF Taken
  <2>2. s \in Contract!Source
    BY DEF IInv, TypeOK, FrameSource, Contract!Source
  <2>3. SourceOf(NewSeat(s)) = s
    BY <2>2 DEF SourceOf, NewSeat, Contract!Source
  <2>4. Seated' = Seated \cup {s}
    BY <2>1, <2>3 DEF Seated
  <2>5. ~ Contract!SeatedAt(s.address)
    BY <2>1 DEF Contract!SeatedAt, Seated, SourceOf, HeldAddresses
  <2>6. Cardinality(Seated) < MaxPeers
    <3>. DEFINE f == [e \in entries |-> SourceOf(e)]
    <3>1. f \in Surjection(entries, Seated)
      BY DEF Surjection, Seated
    <3>2. IsFiniteSet(Seated) /\ Cardinality(Seated) <= Cardinality(entries)
      BY <3>1, FS_Surjection DEF IInv
    <3>3. Cardinality(Seated) \in Nat /\ Cardinality(entries) \in Nat
      BY <3>2, FS_CardinalityType DEF IInv
    <3>. QED  BY <1>2, <3>2, <3>3, BoundsAssumption DEF Taken
  <2>7. Contract!Join(s)
    BY <2>4, <2>5, <2>6, Zenon DEF Contract!Join, Contract!Cardinality, Cardinality
  <2>. QED  BY <2>2, <2>7 DEF Contract!Next
<1>3. ASSUME NEW s \in following, NEW h \in Heights, Raised(s, h)
      PROVE  Seated' = Seated
  BY <1>3, RaisedKeepsSeats DEF IInv
<1>. QED  BY <1>1, <1>2, <1>3, SeatStep DEF IInv

\* The pool implements what its readers rely on.
THEOREM PoolImplementsContract == Spec => ImplementsContract
<1>1. Init => Contract!Init
  BY DEF Init, Contract!Init, Seated
<1>2. IInv /\ [Next]_vars => [Contract!Next]_Seated
  BY StepsKeepContract
<1>. QED  BY <1>1, <1>2, Invariance, PTL DEF Spec, ImplementsContract, Contract!Spec
-----------------------------------------------------------------------------
(* The bar a lagging peer is held to.                                       *)

\* A peak is a natural number.
LEMMA PeaksAreNatural == \A e \in PeerEntry : e.last_peak \in Nat
<1>1. Heights \cup {0} \subseteq Nat
  BY BoundsAssumption
<1>2. \A e \in PeerEntry : e.last_peak \in Heights \cup {0}
  BY DEF PeerEntry
<1>. QED  BY <1>1, <1>2

\* Among finitely many peers one announces the most.
LEMMA OneIsHighest ==
    ASSUME NEW V \in SUBSET PeerEntry, IsFiniteSet(V), V # {}
    PROVE  \E e \in V : \A f \in V : f.last_peak <= e.last_peak
<1>. DEFINE above(e) == {f \in V : f.last_peak > e.last_peak}
            family == {above(e) : e \in V}
<1>1. \A e \in V : e.last_peak \in Nat
  BY PeaksAreNatural
<1>2. family \subseteq FiniteSubsetsOf(V) /\ family # {}
  <2>1. \A U \in SUBSET V : U \in FiniteSubsetsOf(V)
    BY FS_Subset DEF FiniteSubsetsOf
  <2>. QED  BY <2>1
<1>3. PICK least \in family : \A u \in family : <<u, least>> \notin StrictSubsetOrdering(V)
  <2>. HIDE DEF family
  <2>. QED  BY <1>2, FS_StrictSubsetOrderingWellFounded, WFMin
<1>4. PICK e \in V : least = above(e)
  BY <1>3
<1>5. ASSUME NEW f \in above(e)
      PROVE  FALSE
  <2>1. above(f) \subseteq above(e) /\ f \notin above(f)
    BY <1>1, <1>5
  <2>2. <<above(f), above(e)>> \in StrictSubsetOrdering(V)
    BY <1>5, <2>1 DEF StrictSubsetOrdering
  <2>. QED  BY <1>3, <1>4, <1>5, <2>2
<1>6. \A f \in V : f.last_peak <= e.last_peak
  BY <1>1, <1>5
<1>. QED  BY <1>6

\* ... and one the least.
LEMMA OneIsLowest ==
    ASSUME NEW V \in SUBSET PeerEntry, IsFiniteSet(V), V # {}
    PROVE  \E e \in V : \A f \in V : e.last_peak <= f.last_peak
<1>. DEFINE below(e) == {f \in V : f.last_peak < e.last_peak}
            family == {below(e) : e \in V}
<1>1. \A e \in V : e.last_peak \in Nat
  BY PeaksAreNatural
<1>2. family \subseteq FiniteSubsetsOf(V) /\ family # {}
  <2>1. \A U \in SUBSET V : U \in FiniteSubsetsOf(V)
    BY FS_Subset DEF FiniteSubsetsOf
  <2>. QED  BY <2>1
<1>3. PICK least \in family : \A u \in family : <<u, least>> \notin StrictSubsetOrdering(V)
  <2>. HIDE DEF family
  <2>. QED  BY <1>2, FS_StrictSubsetOrderingWellFounded, WFMin
<1>4. PICK e \in V : least = below(e)
  BY <1>3
<1>5. ASSUME NEW f \in below(e)
      PROVE  FALSE
  <2>1. below(f) \subseteq below(e) /\ f \notin below(f)
    BY <1>1, <1>5
  <2>2. <<below(f), below(e)>> \in StrictSubsetOrdering(V)
    BY <1>5, <2>1 DEF StrictSubsetOrdering
  <2>. QED  BY <1>3, <1>4, <1>5, <2>2
<1>6. \A f \in V : e.last_peak <= f.last_peak
  BY <1>1, <1>5
<1>. QED  BY <1>6

\* There is a lower median, whoever announces what: the bar is well defined,
\* and at most half of the peers -- rounded down, and one less if there is an
\* even number -- announce less than it.
LEMMA BarIsTheMedian ==
    ASSUME NEW V \in SUBSET PeerEntry, IsFiniteSet(V), V # {}
    PROVE  /\ ReferencePeak(V) \in Nat
           /\ Cardinality({e \in V : e.last_peak < ReferencePeak(V)})
                <= (Cardinality(V) - 1) \div 2
<1>. DEFINE middle == (Cardinality(V) - 1) \div 2
            upTo(v) == {f \in V : f.last_peak <= v}
            good == {e \in V : Cardinality(upTo(e.last_peak)) > middle}
<1>1. \A e \in V : e.last_peak \in Nat
  BY PeaksAreNatural
<1>2. /\ Cardinality(V) \in Nat \ {0} /\ middle \in Nat /\ middle < Cardinality(V)
  BY FS_CardinalityType, FS_EmptySet
<1>3. \A v : IsFiniteSet(upTo(v)) /\ Cardinality(upTo(v)) \in Nat
  BY FS_Subset, FS_CardinalityType
<1>. HIDE DEF middle
<1>4. good # {}
  <2>1. PICK e \in V : \A f \in V : f.last_peak <= e.last_peak
    BY OneIsHighest
  <2>2. upTo(e.last_peak) = V
    BY <2>1
  <2>. QED  BY <1>2, <2>2
<1>5. PICK e \in good : \A f \in good : e.last_peak <= f.last_peak
  <2>1. good \in SUBSET PeerEntry /\ IsFiniteSet(good)
    BY FS_Subset
  <2>. HIDE DEF good
  <2>. QED  BY <1>4, <2>1, OneIsLowest
<1>. DEFINE v == e.last_peak
            under == {f \in V : f.last_peak < v}
<1>6. Cardinality(under) <= middle
  <2>1. CASE under = {}
    <3>. HIDE DEF under
    <3>. QED  BY <1>2, <2>1, FS_EmptySet
  <2>2. CASE under # {}
    <3>1. PICK u \in under : \A f \in under : f.last_peak <= u.last_peak
      <4>1. under \in SUBSET PeerEntry /\ IsFiniteSet(under)
        BY FS_Subset
      <4>. HIDE DEF under
      <4>. QED  BY <2>2, <4>1, OneIsHighest
    <3>2. under = upTo(u.last_peak)
      BY <1>1, <3>1
    <3>3. u \notin good
      BY <1>1, <1>5, <3>1
    <3>4. ~ (Cardinality(upTo(u.last_peak)) > middle)
      BY <3>1, <3>3
    <3>5. Cardinality(upTo(u.last_peak)) \in Nat
      BY <1>3
    <3>. HIDE DEF under, upTo
    <3>. QED  BY <1>2, <3>2, <3>4, <3>5
  <2>. QED  BY <2>1, <2>2
<1>7. Cardinality(upTo(v)) > middle
  BY <1>5
<1>8. \E w \in {f.last_peak : f \in V} :
         /\ Cardinality({f \in V : f.last_peak < w}) <= middle
         /\ Cardinality({f \in V : f.last_peak <= w}) > middle
  BY <1>5, <1>6, <1>7
<1>9. /\ ReferencePeak(V) \in {f.last_peak : f \in V}
      /\ Cardinality({f \in V : f.last_peak < ReferencePeak(V)}) <= middle
  BY <1>8 DEF ReferencePeak, middle
<1>. QED  BY <1>1, <1>9 DEF middle

\* Who is evicted as lagging has been outvoted by a majority.
LEMMA LaggingAreOutvoted ==
    ASSUME TypeOK, IsFiniteSet(entries), NEW e \in Lagging
    PROVE  Outvoted(e)
<1>. DEFINE bar == ReferencePeak(LagVoters)
            under == {v \in LagVoters : v.last_peak < bar}
            ahead == {v \in LagVoters : v.last_peak > e.last_peak + PeakLagEviction}
<1>1. e \in LagVoters /\ bar > e.last_peak + PeakLagEviction
  BY DEF Lagging
<1>2. LagVoters \in SUBSET PeerEntry /\ IsFiniteSet(LagVoters)
  BY FS_Subset DEF LagVoters, TypeOK
<1>3. /\ bar \in Nat
      /\ Cardinality(under) <= (Cardinality(LagVoters) - 1) \div 2
  BY <1>1, <1>2, BarIsTheMedian
<1>4. e.last_peak + PeakLagEviction \in Nat /\ \A v \in LagVoters : v.last_peak \in Nat
  BY <1>1, <1>2, PeaksAreNatural, BoundsAssumption
<1>. HIDE DEF bar
<1>5. LagVoters \ under \subseteq ahead
  BY <1>1, <1>3, <1>4
<1>6. /\ Cardinality(LagVoters) \in Nat \ {0}
      /\ Cardinality(under) \in Nat
      /\ Cardinality(LagVoters \ under) = Cardinality(LagVoters) - Cardinality(under)
  <2>1. LagVoters \cap under = under
    OBVIOUS
  <2>2. under \in SUBSET LagVoters /\ LagVoters # {}
    BY <1>1
  <2>. HIDE DEF under
  <2>3. IsFiniteSet(under)
    BY <1>2, <2>2, FS_Subset
  <2>4. Cardinality(LagVoters) \in Nat /\ Cardinality(LagVoters) # 0
    BY <1>2, <2>2, FS_CardinalityType, FS_EmptySet
  <2>5. Cardinality(under) \in Nat
    BY <2>3, FS_CardinalityType
  <2>6. Cardinality(LagVoters \ under) =
          Cardinality(LagVoters) - Cardinality(LagVoters \cap under)
    BY <1>2, FS_Difference
  <2>. QED  BY <2>1, <2>4, <2>5, <2>6
<1>7. /\ Cardinality(ahead) \in Nat
      /\ Cardinality(LagVoters \ under) <= Cardinality(ahead)
  <2>1. IsFiniteSet(ahead)
    BY <1>2, FS_Subset
  <2>. HIDE DEF ahead, under
  <2>. QED  BY <1>5, <2>1, FS_CardinalityType, FS_Subset
<1>8. 2 * Cardinality(ahead) > Cardinality(LagVoters)
  <2>. HIDE DEF ahead, under
  <2>. QED  BY <1>3, <1>6, <1>7
<1>. QED  BY <1>1, <1>8 DEF Outvoted, LagVoters, Discovered

-----------------------------------------------------------------------------
(* Every session is in one pair of hands.                                   *)

\* A session is dialled, or followed by its task, or dead, and its number is
\* used once.
SessionsAreApart ==
    /\ \A s \in following \cup dead_sessions : s.session < next_session
    /\ \A c \in Callers : \A s \in taken[c] \cup dialled[c] : s.session < next_session
    /\ following \cap dead_sessions = {}
    /\ \A c \in Callers : following \cap taken[c] = {}
    /\ \A c \in Callers : dialled[c] \cap (following \cup dead_sessions) = {}
    /\ \A c, d \in Callers : dialled[c] \cap taken[d] = {}
    /\ \A c, d \in Callers : c # d => dialled[c] \cap dialled[d] = {}

\* No step makes one session two, or brings a dead one back.
LEMMA ApartStep ==
    ASSUME TypeOK, SessionsAreApart, [Next]_vars
    PROVE  SessionsAreApart'
<1>. USE DEF SessionsAreApart
<1>1. ASSUME NEW c \in Callers, BeginCall(c)
      PROVE  SessionsAreApart'
  BY <1>1 DEF BeginCall, TypeOK
<1>2. ASSUME NEW c \in Callers, EjectDead(c)
      PROVE  SessionsAreApart'
  BY <1>2 DEF EjectDead, TypeOK
<1>3. ASSUME NEW c \in Callers,
             EvictLagging(c) \/ CycleExpired(c) \/ TryRefill(c) \/ DialFails(c)
               \/ SelectPeer(c) \/ RequestAnswered(c) \/ RequestFails(c)
      PROVE  SessionsAreApart'
  <2>1. UNCHANGED <<following, dead_sessions, next_session, taken, dialled>>
    BY <1>3 DEF EvictLagging, CycleExpired, TryRefill, DialFails, SelectPeer,
                RequestAnswered, RequestFails
  <2>. QED  BY <2>1
<1>4. ASSUME NEW c \in Callers, DialSucceeds(c)
      PROVE  SessionsAreApart'
  <2>1. PICK a \in Reachable(c) :
           dialled' = [dialled EXCEPT ![c] = {[address |-> a, session |-> next_session]}]
    BY <1>4 DEF DialSucceeds
  <2>. DEFINE new == [address |-> a, session |-> next_session]
  <2>2. /\ dialled'[c] = {new}
        /\ \A d \in Callers \ {c} : dialled'[d] = dialled[d]
    BY <2>1 DEF TypeOK
  <2>3. new.session = next_session
    OBVIOUS
  <2>4. next_session \in Nat /\ next_session' = next_session + 1
    BY <1>4 DEF DialSucceeds, TypeOK, Session
  <2>5. UNCHANGED <<following, dead_sessions, taken>>
    BY <1>4 DEF DialSucceeds
  <2>6. \A s \in FrameSource : s.session \in Nat
    BY DEF FrameSource, Session
  <2>. HIDE DEF new
  <2>7. /\ \A s \in following \cup dead_sessions : s # new /\ s.session < next_session'
        /\ \A d \in Callers : \A s \in taken[d] \cup dialled[d] :
              s # new /\ s.session < next_session'
    BY <2>3, <2>4, <2>6 DEF TypeOK
  <2>8. new.session < next_session'
    BY <2>3, <2>4
  <2>. QED  BY <2>2, <2>5, <2>7, <2>8
<1>5. ASSUME NEW c \in Callers, Admit(c) \/ Cancel(c)
      PROVE  SessionsAreApart'
  <2>1. /\ UNCHANGED <<following, dead_sessions, next_session>>
        /\ \A d \in Callers : taken'[d] \subseteq taken[d] /\ dialled'[d] \subseteq dialled[d]
    BY <1>5 DEF Admit, Cancel, TypeOK
  <2>. QED  BY <2>1
<1>6. ASSUME NEW c \in Callers, Follow(c)
      PROVE  SessionsAreApart'
  <2>1. /\ UNCHANGED <<dead_sessions, next_session, taken>>
        /\ following' = following \cup dialled[c]
        /\ dialled'[c] = {}
        /\ \A d \in Callers \ {c} : dialled'[d] = dialled[d]
    BY <1>6 DEF Follow, TypeOK
  <2>. QED  BY <2>1
<1>7. ASSUME NEW s \in following, SessionEnds(s)
      PROVE  SessionsAreApart'
  BY <1>7 DEF SessionEnds, DeathRecorded, callVars
<1>8. ASSUME \/ \E s \in following, h \in Heights : Announce(s, h)
             \/ Tick \/ UNCHANGED vars
      PROVE  SessionsAreApart'
  BY <1>8 DEF Announce, Tick, callVars, vars
<1>. QED
  BY <1>1, <1>2, <1>3, <1>4, <1>5, <1>6, <1>7, <1>8 DEF Next, CallStep

\* A death is never that of a session whose receiver task runs.
THEOREM DeadAreNotFollowed == Spec => []SessionsAreApart
<1>1. Init => SessionsAreApart
  BY DEF Init, SessionsAreApart
<1>2. TypeOK /\ SessionsAreApart /\ [Next]_vars => SessionsAreApart'
  BY ApartStep
<1>. QED  BY <1>1, <1>2, TypeCorrect, PTL DEF Spec

\* A peer whose receiver task runs loses its seat to a majority that is far
\* ahead of it, to its age, or to a request that failed at its address, and to
\* nothing else a call does.
LEMMA EvictionsAreCaused ==
    ASSUME IInv, SessionsAreApart, [Next]_vars,
           NEW e \in entries, SourceOf(e) \in following, SourceOf(e) \notin Seated'
    PROVE  \/ Outvoted(e)
           \/ e.address \notin Priority /\ now - e.admitted_at >= PeerLifetime
           \/ \E c \in Callers :
                 /\ pc[c] = "request" /\ pc'[c] = "idle"
                 /\ \E s \in asked[c] : s.address = e.address
<1>1. TypeOK /\ IsFiniteSet(entries)
  BY DEF IInv
<1>2. e \notin entries'
  BY DEF Seated
<1>3. ASSUME NEW c \in Callers, EjectDead(c)
      PROVE  FALSE
  <2>1. SourceOf(e) \in taken[c]
    BY <1>2, <1>3 DEF EjectDead, Died
  <2>. QED  BY <2>1 DEF SessionsAreApart
<1>4. ASSUME NEW c \in Callers, EvictLagging(c)
      PROVE  Outvoted(e)
  <2>1. e \in Lagging
    BY <1>2, <1>4 DEF EvictLagging
  <2>. QED  BY <1>1, <2>1, LaggingAreOutvoted
<1>5. ASSUME NEW c \in Callers, CycleExpired(c)
      PROVE  e.address \notin Priority /\ now - e.admitted_at >= PeerLifetime
  <2>1. e \in OverAge
    BY <1>2, <1>5 DEF CycleExpired
  <2>. QED  BY <2>1 DEF OverAge, Discovered
<1>6. ASSUME NEW c \in Callers, RequestFails(c)
      PROVE  /\ pc[c] = "request" /\ pc'[c] = "idle"
             /\ \E s \in asked[c] : s.address = e.address
  BY <1>1, <1>2, <1>6 DEF RequestFails, Reach, TypeOK
<1>7. ASSUME NEW c \in Callers,
             \/ BeginCall(c) \/ TryRefill(c) \/ DialSucceeds(c) \/ DialFails(c)
             \/ Admit(c) \/ Follow(c) \/ SelectPeer(c) \/ RequestAnswered(c) \/ Cancel(c)
      PROVE  FALSE
  <2>1. entries \subseteq entries'
    BY <1>7 DEF BeginCall, TryRefill, DialSucceeds, DialFails, Admit, Follow, SelectPeer,
                RequestAnswered, Cancel
  <2>. QED  BY <1>2, <2>1
<1>8. ASSUME NEW s \in following, NEW h \in Heights, Announce(s, h)
      PROVE  FALSE
  <2>1. Raised(s, h)
    BY <1>8 DEF Announce, Raised
  <2>2. Seated' = Seated
    BY <1>1, <2>1, RaisedKeepsSeats
  <2>. QED  BY <2>2 DEF Seated
<1>9. ASSUME (\E s \in following : SessionEnds(s)) \/ Tick \/ UNCHANGED vars
      PROVE  FALSE
  BY <1>2, <1>9 DEF SessionEnds, Tick, vars
<1>. QED
  BY <1>3, <1>4, <1>5, <1>6, <1>7, <1>8, <1>9 DEF Next, CallStep

\* No minority of peers, no node of the operator's and no death of an earlier
\* connection takes a live peer's seat.
THEOREM EvictionsHaveCauses == Spec => OnlyCausedEvictions
<1>1. IInv /\ SessionsAreApart /\ [Next]_vars =>
         [\A e \in entries :
            SourceOf(e) \in following /\ SourceOf(e) \notin Seated' =>
                \/ Outvoted(e)
                \/ e.address \notin Priority /\ now - e.admitted_at >= PeerLifetime
                \/ \E c \in Callers :
                      /\ pc[c] = "request" /\ pc'[c] = "idle"
                      /\ \E s \in asked[c] : s.address = e.address]_vars
  BY EvictionsAreCaused, Zenon
<1>. QED
  BY <1>1, Invariance, DeadAreNotFollowed, PTL DEF Spec, OnlyCausedEvictions
=============================================================================
