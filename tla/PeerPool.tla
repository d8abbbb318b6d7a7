------------------------------ MODULE PeerPool ------------------------------
(***************************************************************************)
(* The peer pool of src/peer/pool.rs: the seats it holds, the sessions     *)
(* behind them, and the calls that read through it.                        *)
(*                                                                         *)
(* Nothing maintains the pool in the background.  A call (PeerBackend's    *)
(* `pick`) makes one maintenance pass -- eject the dead, evict the         *)
(* lagging, rotate the oldest, refill one seat -- then selects a peer and  *)
(* sends it a request, and a failed request ejects that peer.  Each stage  *)
(* takes and releases the locks for itself, so the stages of concurrent    *)
(* calls interleave, and a dial is a long wait in the middle.  A receiver  *)
(* task per admitted session runs beside them: it records the peaks its    *)
(* peer announces and, when the session stops, leaves a note of the death. *)
(*                                                                         *)
(* Time is a clock that may tick at any moment.  A dial is abstracted to   *)
(* the address it reaches; which peer a request goes to is left open,      *)
(* where the code takes the next one of a round robin all calls share.     *)
(***************************************************************************)
EXTENDS Naturals, FiniteSets

CONSTANTS
    Address,            \* socket addresses the network offers
    Priority,           \* those of TRUSTED_FULLNODE and the loopback
    Heights,            \* peaks a peer may announce
    Callers,            \* concurrent callers of the backend
    MaxPeers,           \* PeerPool.max_peers
    PeerLifetime,       \* plurality.rs PEER_LIFETIME, in ticks
    PeakLagEviction,    \* plurality.rs PEAK_LAG_EVICTION
    Impatient,          \* callers that may drop the future of a call in progress
    MaxSessions,        \* bound: dials that succeed
    MaxTime             \* bound: ticks of the clock

ASSUME AddressesAssumption == Priority \subseteq Address
ASSUME BoundsAssumption ==
    /\ MaxPeers \in Nat
    /\ PeerLifetime \in Nat
    /\ PeakLagEviction \in Nat
    /\ MaxSessions \in Nat
    /\ MaxTime \in Nat
    /\ Heights \subseteq Nat
    /\ Impatient \subseteq Callers

VARIABLES
    entries,        \* the seats held: a set of PeerEntry
    following,      \* the sessions whose receiver task is running
    dead_sessions,  \* deaths recorded and not yet acted upon
    next_session,   \* FrameFanout.next_session
    now,            \* the clock
    pc,             \* per caller: the stage its call has reached
    taken,          \* per caller: deaths its pass took off the list
    snapshot,       \* per caller: addresses held when its dial began
    dialled,        \* per caller: the connection its dial produced, if any
    asked           \* per caller: the connection its request went to, if any

vars == <<entries, following, dead_sessions, next_session, now,
          pc, taken, snapshot, dialled, asked>>
callVars == <<pc, taken, snapshot, dialled, asked>>

Session == 0 .. MaxSessions
FrameSource == [address : Address, session : Session]
PeerEntry == [address : Address, session : Session,
              last_peak : Heights \cup {0}, admitted_at : 0 .. MaxTime]

Stages == {"idle", "eject_dead", "evict_lagging", "cycle_expired",
           "try_refill", "dial", "admit", "follow", "select", "request"}

SourceOf(e) == [address |-> e.address, session |-> e.session]
Discovered(e) == e.address \notin Priority
HeldAddresses == {e.address : e \in entries}

Init ==
    /\ entries = {}
    /\ following = {}
    /\ dead_sessions = {}
    /\ next_session = 0
    /\ now = 0
    /\ pc = [c \in Callers |-> "idle"]
    /\ taken = [c \in Callers |-> {}]
    /\ snapshot = [c \in Callers |-> {}]
    /\ dialled = [c \in Callers |-> {}]
    /\ asked = [c \in Callers |-> {}]

Reach(c, stage) == pc' = [pc EXCEPT ![c] = stage]

-----------------------------------------------------------------------------
(* The maintenance pass, stage by stage.                                    *)

\* `mem::take` of the list, before the entries lock is asked for.
BeginCall(c) ==
    /\ pc[c] = "idle"
    /\ taken' = [taken EXCEPT ![c] = dead_sessions]
    /\ dead_sessions' = {}
    /\ Reach(c, IF dead_sessions = {} THEN "evict_lagging" ELSE "eject_dead")
    /\ UNCHANGED <<entries, following, next_session, now, snapshot, dialled, asked>>

\* Mutant: the seat is found by its address alone, whoever sits there now.
DiedByAddress(e, dead) == \E d \in dead : d.address = e.address

Died(e, dead) == SourceOf(e) \in dead

EjectDead(c) ==
    /\ pc[c] = "eject_dead"
    /\ entries' = {e \in entries : ~ Died(e, taken[c])}
    /\ taken' = [taken EXCEPT ![c] = {}]
    /\ Reach(c, "evict_lagging")
    /\ UNCHANGED <<following, dead_sessions, next_session, now,
                   snapshot, dialled, asked>>

\* Mutant: the bar is the highest peak anybody claims.
HighestPeak(announced) ==
    CHOOSE v \in {e.last_peak : e \in announced} :
        \A e \in announced : e.last_peak <= v

\* sorted[(n - 1) / 2] of the announced peaks: the lower median.
ReferencePeak(announced) ==
    CHOOSE v \in {e.last_peak : e \in announced} :
        LET middle == (Cardinality(announced) - 1) \div 2
        IN  /\ Cardinality({e \in announced : e.last_peak < v}) <= middle
            /\ Cardinality({e \in announced : e.last_peak <= v}) > middle

\* Only discovered peers vote on the bar, and only they are judged by it.
LagVoters == {e \in entries : Discovered(e) /\ e.last_peak > 0}

Lagging ==
    {e \in LagVoters : ReferencePeak(LagVoters) > e.last_peak + PeakLagEviction}

EvictLagging(c) ==
    /\ pc[c] = "evict_lagging"
    /\ entries' = entries \ Lagging
    /\ Reach(c, "cycle_expired")
    /\ UNCHANGED <<following, dead_sessions, next_session, now,
                   taken, snapshot, dialled, asked>>

\* Mutant: only a full pool rotates.
OverAgeWhenFull ==
    {e \in entries : /\ Discovered(e)
                     /\ now - e.admitted_at >= PeerLifetime
                     /\ Cardinality(entries) = MaxPeers}

OverAge == {e \in entries : Discovered(e) /\ now - e.admitted_at >= PeerLifetime}

Oldest(e) == \A f \in OverAge : e.admitted_at <= f.admitted_at

CycleExpired(c) ==
    /\ pc[c] = "cycle_expired"
    /\ IF OverAge = {}
       THEN UNCHANGED entries
       ELSE \E e \in OverAge : Oldest(e) /\ entries' = entries \ {e}
    /\ Reach(c, "try_refill")
    /\ UNCHANGED <<following, dead_sessions, next_session, now,
                   taken, snapshot, dialled, asked>>

TryRefill(c) ==
    /\ pc[c] = "try_refill"
    /\ IF Cardinality(entries) >= MaxPeers
       THEN Reach(c, "select") /\ UNCHANGED snapshot
       ELSE Reach(c, "dial") /\ snapshot' = [snapshot EXCEPT ![c] = HeldAddresses]
    /\ UNCHANGED <<entries, following, dead_sessions, next_session, now,
                   taken, dialled, asked>>

\* What a dial told to avoid the held addresses may reach.
Reachable(c) == Address \ snapshot[c]

\* The connection is given its session at once, before the pool decides
\* whether to keep it.
DialSucceeds(c) ==
    /\ pc[c] = "dial"
    /\ next_session < MaxSessions
    /\ \E a \in Reachable(c) :
          dialled' = [dialled EXCEPT ![c] = {[address |-> a, session |-> next_session]}]
    /\ next_session' = next_session + 1
    /\ snapshot' = [snapshot EXCEPT ![c] = {}]
    /\ Reach(c, "admit")
    /\ UNCHANGED <<entries, following, dead_sessions, now, taken, asked>>

DialFails(c) ==
    /\ pc[c] = "dial"
    /\ snapshot' = [snapshot EXCEPT ![c] = {}]
    /\ Reach(c, "select")
    /\ UNCHANGED <<entries, following, dead_sessions, next_session, now,
                   taken, dialled, asked>>

\* Mutant: the checks were made before the dial, and nothing re-decides.
NoCheckAtAdmission(s) == FALSE
\* Mutant: capacity is re-decided under the lock, the address is not.
OnlyCapacityChecked(s) == Cardinality(entries) >= MaxPeers
\* Mutant: off by one at capacity.
CapacityOffByOne(s) == Cardinality(entries) > MaxPeers \/ s.address \in HeldAddresses

\* Both checks are made under the write lock that the push is made under.
Refused(s) == Cardinality(entries) >= MaxPeers \/ s.address \in HeldAddresses

Admit(c) ==
    /\ pc[c] = "admit"
    /\ \E s \in dialled[c] :
          IF Refused(s)
          THEN /\ dialled' = [dialled EXCEPT ![c] = {}]
               /\ Reach(c, "select")
               /\ UNCHANGED entries
          ELSE /\ entries' = entries \cup
                     {[address |-> s.address, session |-> s.session,
                       last_peak |-> 0, admitted_at |-> now]}
               /\ Reach(c, "follow")
               /\ UNCHANGED dialled
    /\ UNCHANGED <<following, dead_sessions, next_session, now,
                   taken, snapshot, asked>>

\* The session is opened for subscribers and its receiver task spawned.
Follow(c) ==
    /\ pc[c] = "follow"
    /\ following' = following \cup dialled[c]
    /\ dialled' = [dialled EXCEPT ![c] = {}]
    /\ Reach(c, "select")
    /\ UNCHANGED <<entries, dead_sessions, next_session, now, taken, snapshot, asked>>

-----------------------------------------------------------------------------
(* The request the pass was made for.                                       *)

SelectPeer(c) ==
    /\ pc[c] = "select"
    /\ IF entries = {}
       THEN Reach(c, "idle") /\ UNCHANGED asked
       ELSE /\ \E e \in entries : asked' = [asked EXCEPT ![c] = {SourceOf(e)}]
            /\ Reach(c, "request")
    /\ UNCHANGED <<entries, following, dead_sessions, next_session, now,
                   taken, snapshot, dialled>>

RequestAnswered(c) ==
    /\ pc[c] = "request"
    /\ asked' = [asked EXCEPT ![c] = {}]
    /\ Reach(c, "idle")
    /\ UNCHANGED <<entries, following, dead_sessions, next_session, now,
                   taken, snapshot, dialled>>

\* eject_peer takes an address: whoever sits there now is the one removed.
RequestFails(c) ==
    /\ pc[c] = "request"
    /\ entries' = {e \in entries : \A s \in asked[c] : e.address # s.address}
    /\ asked' = [asked EXCEPT ![c] = {}]
    /\ Reach(c, "idle")
    /\ UNCHANGED <<following, dead_sessions, next_session, now,
                   taken, snapshot, dialled>>

\* The caller drops the future at one of its awaits: what the call had in
\* hand -- deaths taken off the list, a connection dialled -- goes with it.
Cancel(c) ==
    /\ c \in Impatient
    /\ pc[c] # "idle"
    /\ taken' = [taken EXCEPT ![c] = {}]
    /\ snapshot' = [snapshot EXCEPT ![c] = {}]
    /\ dialled' = [dialled EXCEPT ![c] = {}]
    /\ asked' = [asked EXCEPT ![c] = {}]
    /\ Reach(c, "idle")
    /\ UNCHANGED <<entries, following, dead_sessions, next_session, now>>

-----------------------------------------------------------------------------
(* The receiver tasks, one per followed session, and the clock.             *)

\* Mutant: fetch_add for fetch_max.
SummedPeak(e, height) == e.last_peak + height

\* last_peak.fetch_max(height)
RaisedPeak(e, height) == IF height > e.last_peak THEN height ELSE e.last_peak

Announce(s, height) ==
    /\ s \in following
    /\ entries' = {IF SourceOf(e) = s
                   THEN [e EXCEPT !.last_peak = RaisedPeak(e, height)]
                   ELSE e : e \in entries}
    /\ UNCHANGED <<following, dead_sessions, next_session, now>>
    /\ UNCHANGED callVars

\* Mutant: the task ends quietly.
DeathUnrecorded(s) == dead_sessions

DeathRecorded(s) == dead_sessions \cup {s}

\* Transport closed, undecodable frame or oversized frame.
SessionEnds(s) ==
    /\ s \in following
    /\ following' = following \ {s}
    /\ dead_sessions' = DeathRecorded(s)
    /\ UNCHANGED <<entries, next_session, now>>
    /\ UNCHANGED callVars

Tick ==
    /\ now < MaxTime
    /\ now' = now + 1
    /\ UNCHANGED <<entries, following, dead_sessions, next_session>>
    /\ UNCHANGED callVars

-----------------------------------------------------------------------------
\* What a call does once it has begun; each disjunct is a stage of its own.
CallStep(c) ==
    \/ EjectDead(c)
    \/ EvictLagging(c)
    \/ CycleExpired(c)
    \/ TryRefill(c)
    \/ DialSucceeds(c)
    \/ DialFails(c)
    \/ Admit(c)
    \/ Follow(c)
    \/ SelectPeer(c)
    \/ RequestAnswered(c)
    \/ RequestFails(c)

Next ==
    \/ \E c \in Callers : BeginCall(c) \/ CallStep(c) \/ Cancel(c)
    \/ \E s \in following : (\E h \in Heights : Announce(s, h)) \/ SessionEnds(s)
    \/ Tick

Spec == Init /\ [][Next]_vars

(***************************************************************************)
(* A call that has begun runs to its end or is dropped: every wait in it   *)
(* -- a lock, a dial, a request -- is bounded by a timeout.  That callers  *)
(* who see their calls through keep coming is an assumption about them,    *)
(* and the one the pool is written under: "it refills on the next          *)
(* request".                                                               *)
(***************************************************************************)
FairSpec ==
    /\ Spec
    /\ \A c \in Callers : WF_vars(CallStep(c) \/ Cancel(c))
    /\ \A c \in Callers \ Impatient : WF_vars(BeginCall(c))

-----------------------------------------------------------------------------
(* Properties.                                                              *)

\* The type of every variable of the pool.
TypeOK ==
    /\ entries \subseteq PeerEntry
    /\ following \subseteq FrameSource
    /\ dead_sessions \subseteq FrameSource
    /\ next_session \in Session
    /\ now \in 0 .. MaxTime
    /\ pc \in [Callers -> Stages]
    /\ taken \in [Callers -> SUBSET FrameSource]
    /\ snapshot \in [Callers -> SUBSET Address]
    /\ dialled \in [Callers -> SUBSET FrameSource]
    /\ asked \in [Callers -> SUBSET FrameSource]

Seated == {SourceOf(e) : e \in entries}

\* However many dials race, no address is ever held twice: `admit` decides
\* under the write lock, not from the snapshot the dial was given.
OneSeatPerAddress == \A e, f \in entries : e.address = f.address => e = f

\* However many dials race for the last seat, max_peers is never exceeded.
WithinCapacity == Cardinality(entries) <= MaxPeers

\* A call holds the fate of a seat: it took the death off the list and is about
\* to act on it, or admitted the session and has not yet had it followed.
InCharge(c, s) == s \in taken[c] \/ (pc[c] = "follow" /\ s \in dialled[c])

\* Seats whose death nobody will report, has reported, or is acting upon.
OrphanSeats ==
    {s \in Seated \ (following \cup dead_sessions) :
        \A c \in Callers : ~ InCharge(c, s)}

\* No death of a seated session is lost between its receiver task, the list and
\* the passes that empty the list, whatever interleaves -- save in one way: the
\* caller drops the very call that held the seat's fate.
OnlyADropOrphans ==
    [][\A s \in OrphanSeats' \ OrphanSeats :
          \E c \in Callers : InCharge(c, s) /\ Cancel(c)]_vars

\* More than half of the discovered peers that have announced a peak claim one
\* that leaves e more than PEAK_LAG_EVICTION behind.
Outvoted(e) ==
    LET voters == {v \in entries : v.address \notin Priority /\ v.last_peak > 0}
        ahead == {v \in voters : v.last_peak > e.last_peak + PeakLagEviction}
    IN  e \in voters /\ 2 * Cardinality(ahead) > Cardinality(voters)

\* A connection whose receiver task is running loses its seat only for a cause
\* of its own: a majority of the independent peers is far ahead of it, it has
\* outlived PEER_LIFETIME, or a request to its address failed.  No minority of
\* peers votes the others out, the operator's own nodes vote nobody out and are
\* never rotated, and the death of an earlier connection to its address does
\* not take it along.
OnlyCausedEvictions ==
    [][\A e \in entries :
          SourceOf(e) \in following /\ SourceOf(e) \notin Seated' =>
              \/ Outvoted(e)
              \/ e.address \notin Priority /\ now - e.admitted_at >= PeerLifetime
              \/ \E c \in Callers :
                    /\ pc[c] = "request" /\ pc'[c] = "idle"
                    /\ \E s \in asked[c] : s.address = e.address]_vars

\* Seats whose death has been reported, and is on the list or taken off it.
KnownDead ==
    {s \in Seated : s \in dead_sessions \/ \E c \in Callers : s \in taken[c]}

\* As long as calls keep coming, a connection whose session has ended gives up
\* its seat -- no request to it has to fail first --, unless the call that took
\* its death is dropped; and a discovered peer that outlives PEER_LIFETIME gives
\* up its seat in any case, orphaned or answering well: NC-12's cycling.
SeatIsGivenUp ==
    \A n \in Session :
        (\E e \in entries : e.session = n /\ (SourceOf(e) \in KnownDead \/ e \in OverAge))
            ~> \A e \in entries : e.session = n => SourceOf(e) \in OrphanSeats /\ e \notin OverAge

\* What PeerEntry.session is documented to give: the failure of one connection
\* never removes the connection that replaced it at the same address.
FailureSparesReplacement ==
    [][\A c \in Callers :
          pc[c] = "request" /\ pc'[c] = "idle" => Seated \ asked[c] \subseteq Seated']_vars

\* The pool implements its contract.
Contract == INSTANCE PoolContract WITH held <- Seated
ImplementsContract == Contract!Spec
=============================================================================
