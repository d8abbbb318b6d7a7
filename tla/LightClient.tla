----------------------------- MODULE LightClient -----------------------------
(***************************************************************************)
(* The subscribing light client of src/peer/light_client: the anchor, the  *)
(* one pooled session that its subscribing reads go to and its drive loop  *)
(* follows; the loop; and the calls that pin, use and lose the anchor.     *)
(*                                                                         *)
(* An anchor is pinned under a lock held across two looks at the pool: one *)
(* picks a connection to send requests on, one subscribes to the frames of *)
(* whatever session then sits at its address.  The pool moves in between.  *)
(* What a peer answers and pushes is arbitrary.                            *)
(***************************************************************************)
EXTENDS CoinStateCache, Sequences

CONSTANTS
    Address,
    Caller,
    Wishes,         \* bound: what a caller may subscribe to: [ids, hashes]
    MaxSessions     \* bound: sessions the pool may seat

ASSUME ClientAssumption ==
    /\ MaxSessions \in Nat
    /\ Wishes \subseteq [ids : SUBSET Coin, hashes : SUBSET PuzzleHash]

VARIABLES
    seats,          \* the pool: the sessions seated
    next_session,
    ended,          \* sessions that have ended
    cut,            \* sessions whose subscriber fell behind and was cut off
    anchor,         \* the pinned session, if any, and the peer to send to
    rearm_needed,
    subscriptions,  \* subscriptions on their way to the drive loop
    followed,       \* the subscription the loop reads, if any
    turn,           \* "wait", "apply", "release" or "close"
    pc,             \* per caller: the await its call stands at, or "idle"
    job,            \* per caller: what its call is for
    target,         \* per caller: the connection picked or asked, if any
    cleared_late    \* history: the signal of the latest loss was cleared by a
                    \* reconnect that had not made it good

poolVars == <<seats, next_session, ended, cut>>
loopVars == <<subscriptions, followed, turn>>
callVars == <<pc, job, target>>
anchorVars == <<anchor, rearm_needed>>
vars == <<cacheVars, poolVars, loopVars, callVars, anchorVars, cleared_late>>

Session == 0 .. MaxSessions
FrameSource == [address : Address, session : Session]
Anchor == [source : FrameSource, peer : FrameSource]

Job == [kind : {"none", "subscribe", "rearm", "remove", "read"},
        ids : SUBSET Coin, hashes : SUBSET PuzzleHash]
Nothing == [ids |-> {}, hashes |-> {}]
Of(kind, wish) == [kind |-> kind, ids |-> wish.ids, hashes |-> wish.hashes]
NoJob == Of("none", Nothing)

Init ==
    /\ CacheInit
    /\ seats = {} /\ next_session = 0 /\ ended = {} /\ cut = {}
    /\ anchor = {} /\ rearm_needed = FALSE
    /\ subscriptions = <<>> /\ followed = {} /\ turn = "wait"
    /\ pc = [c \in Caller |-> "idle"]
    /\ job = [c \in Caller |-> NoJob]
    /\ target = [c \in Caller |-> {}]
    /\ cleared_late = FALSE

-----------------------------------------------------------------------------
(* The pool, as far as it is seen from here.                                *)

SeatedAt(a) == {e \in seats : e.address = a}

Seat(a) ==
    /\ SeatedAt(a) = {} /\ next_session < MaxSessions
    /\ seats' = seats \cup {[address |-> a, session |-> next_session]}
    /\ next_session' = next_session + 1
    /\ UNCHANGED <<cacheVars, ended, cut, loopVars, callVars, anchorVars, cleared_late>>

\* A maintenance pass or a failed read of another user takes a seat away; the
\* session behind it may go on.
LoseSeat(e) ==
    /\ seats' = seats \ {e}
    /\ UNCHANGED <<cacheVars, next_session, ended, cut, loopVars, callVars, anchorVars, cleared_late>>

Known == seats \cup {a.source : a \in anchor} \cup followed

SessionEnds(e) ==
    /\ e.session \notin ended
    /\ ended' = ended \cup {e.session}
    /\ UNCHANGED <<cacheVars, seats, next_session, cut, loopVars, callVars, anchorVars, cleared_late>>

\* The loop falls FRAME_BUFFER frames behind the session it follows.
FallsBehind(e) ==
    /\ e \in followed
    /\ cut' = cut \cup {e.session}
    /\ UNCHANGED <<cacheVars, seats, next_session, ended, loopVars, callVars, anchorVars, cleared_late>>

-----------------------------------------------------------------------------
(* Unpinning.  The anchor's lock is held by the call that is pinning.       *)

Unlocked == \A c \in Caller : pc[c] # "pinning"

\* Mutant: a failed read unpins and asks for nothing.
UnpinQuietly(lost) ==
    /\ anchor' = IF lost THEN {} ELSE anchor
    /\ UNCHANGED rearm_needed

Unpin(lost) ==
    /\ anchor' = IF lost THEN {} ELSE anchor
    /\ rearm_needed' = (rearm_needed \/ lost)

AnchoredTo(e) == \E a \in anchor : a.source = e

-----------------------------------------------------------------------------
(* The drive loop.                                                          *)

\* Mutant: the loop reads its subscription to the end first.
AdoptsAfterEnd == followed = {}

MayAdopt == TRUE

Adopted(e) == {e}

Adopt ==
    /\ turn = "wait" /\ subscriptions # <<>> /\ MayAdopt
    /\ followed' = Adopted(Head(subscriptions))
    /\ subscriptions' = Tail(subscriptions)
    /\ UNCHANGED <<cacheVars, poolVars, turn, callVars, anchorVars, cleared_late>>

\* The other arm of the select, taken only when nothing waits to be adopted.
Receives(e) == turn = "wait" /\ e \in followed /\ (subscriptions = <<>> \/ ~ MayAdopt)

\* A peak or coin states, of the session the client is anchored to.
ReceiveFrame(e) ==
    /\ Receives(e) /\ Unlocked /\ AnchoredTo(e)
    /\ turn' = "apply"
    /\ UNCHANGED <<cacheVars, poolVars, subscriptions, followed, callVars, anchorVars, cleared_late>>

\* The cache lock is taken after the anchor's is released.
ApplyFrame ==
    /\ turn = "apply"
    /\ turn' = "wait"
    /\ \/ \E height \in Height : SetPeak(height)
       \/ \E items \in Message, height, fork \in Height : ApplyUpdate(items, height, fork)
    /\ UNCHANGED <<poolVars, subscriptions, followed, callVars, anchorVars, cleared_late>>

ReceiveEnded(e) ==
    /\ Receives(e) /\ Unlocked /\ AnchoredTo(e)
    /\ e.session \in ended
    /\ turn' = "release"
    /\ UNCHANGED <<cacheVars, poolVars, subscriptions, followed, callVars, anchorVars, cleared_late>>

Over(e) == e.session \in ended \cup cut

ReceiveNone(e) ==
    /\ Receives(e) /\ Over(e)
    /\ turn' = "close"
    /\ UNCHANGED <<cacheVars, poolVars, subscriptions, followed, callVars, anchorVars, cleared_late>>

\* Mutant: whatever session is pinned at the address.
ReleaseByAddress(e) == Unpin(\E a \in anchor : a.source.address = e.address)

\* Mutant: the end of a subscription is taken note of, and no more.
ReleaseOnWord(e) == Unpin(turn = "release" /\ AnchoredTo(e))

ReleaseAnchor(e) == Unpin(AnchoredTo(e))

\* release_anchor, after a SessionEnded or at the end of the subscription.
Release(e) ==
    /\ turn \in {"release", "close"} /\ e \in followed /\ Unlocked
    /\ ReleaseAnchor(e)
    /\ followed' = IF turn = "close" THEN {} ELSE followed
    /\ turn' = "wait"
    /\ UNCHANGED <<cacheVars, poolVars, subscriptions, callVars, cleared_late>>

-----------------------------------------------------------------------------
(* Calls.                                                                   *)

At(c, stage) == pc' = [pc EXCEPT ![c] = stage]

Stop(c) == At(c, "idle") /\ target' = [target EXCEPT ![c] = {}] /\ job' = [job EXCEPT ![c] = NoJob]

Begin(c, asked) ==
    /\ pc[c] = "idle"
    /\ At(c, "session")
    /\ job' = [job EXCEPT ![c] = asked]
    /\ UNCHANGED <<cacheVars, poolVars, loopVars, target, anchorVars, cleared_late>>

\* reconnect takes down what is subscribed; coins are armed first.
BeginReconnect(c) ==
    /\ pc[c] = "idle"
    /\ At(c, IF subscribed_coins \cup subscribed_puzzle_hashes = {} THEN "clear" ELSE "session")
    /\ job' = [job EXCEPT ![c] = Of("rearm", [ids |-> subscribed_coins,
                                              hashes |-> subscribed_puzzle_hashes])]
    /\ UNCHANGED <<cacheVars, poolVars, loopVars, target, anchorVars, cleared_late>>

\* anchor(): the session is pinned already ...
UseAnchor(c) ==
    /\ pc[c] = "session" /\ job[c].kind # "read" /\ Unlocked
    /\ \E a \in anchor : target' = [target EXCEPT ![c] = {a.peer}]
    /\ At(c, "request")
    /\ UNCHANGED <<cacheVars, poolVars, loopVars, job, anchorVars, cleared_late>>

\* ... or a connection is picked, under the lock where it is to be pinned.
Pick(c) ==
    /\ pc[c] = "session"
    /\ job[c].kind # "read" => Unlocked /\ anchor = {}
    /\ \E e \in seats :
          /\ target' = [target EXCEPT ![c] = {e}]
          /\ At(c, IF job[c].kind = "read" THEN "request" ELSE "pinning")
    /\ UNCHANGED <<cacheVars, poolVars, loopVars, job, anchorVars, cleared_late>>

PickFails(c) ==
    /\ pc[c] = "session"
    /\ job[c].kind # "read" => Unlocked /\ anchor = {}
    /\ Stop(c)
    /\ UNCHANGED <<cacheVars, poolVars, loopVars, anchorVars, cleared_late>>

\* subscribe_frames: the session at the address now, if it is live.
Pin(c) ==
    /\ pc[c] = "pinning"
    /\ \E p \in target[c] : \E e \in SeatedAt(p.address) :
          /\ e.session \notin ended
          /\ anchor' = {[source |-> e, peer |-> p]}
          /\ subscriptions' = Append(subscriptions, e)
          /\ cut' = cut \ {e.session}
    /\ cleared_late' = FALSE
    /\ At(c, "request")
    /\ UNCHANGED <<cacheVars, seats, next_session, ended, followed, turn, job, target,
                   rearm_needed>>

NothingToPin(c) ==
    /\ pc[c] = "pinning"
    /\ \A p \in target[c] : \A e \in SeatedAt(p.address) : e.session \in ended
    /\ Stop(c)
    /\ UNCHANGED <<cacheVars, poolVars, loopVars, anchorVars, cleared_late>>

Answered(c) ==
    /\ pc[c] = "request"
    /\ IF job[c].kind \in {"subscribe", "rearm", "remove"}
       THEN At(c, "answered") /\ UNCHANGED <<job, target>>
       ELSE Stop(c)
    /\ UNCHANGED <<cacheVars, poolVars, loopVars, anchorVars, cleared_late>>

\* What one subscribing call covers: coins, or puzzle hashes.
Covers(j) == IF j.ids # {} THEN [j EXCEPT !.hashes = {}] ELSE j
Rest(j) == IF j.ids # {} THEN [j EXCEPT !.ids = {}] ELSE NoJob

\* The answer is tracked and seeded under the cache lock.
Store(c) ==
    /\ pc[c] = "answered"
    /\ IF job[c].kind = "remove"
       THEN Untrack(job[c].ids)
       ELSE \E answer \in Message : Track(Covers(job[c]).ids, Covers(job[c]).hashes, answer)
    /\ IF job[c].kind # "rearm"
       THEN Stop(c)
       ELSE /\ job' = [job EXCEPT ![c] = Of("rearm", Rest(job[c]))]
            /\ target' = [target EXCEPT ![c] = {}]
            /\ At(c, IF Rest(job[c]).hashes = {} THEN "clear" ELSE "session")
    /\ UNCHANGED <<poolVars, loopVars, anchorVars, cleared_late>>

\* clear_rearm, once every re-subscription has succeeded.
ClearRearm(c) ==
    /\ pc[c] = "clear"
    /\ rearm_needed' = FALSE
    /\ cleared_late' = (anchor = {})
    /\ Stop(c)
    /\ UNCHANGED <<cacheVars, poolVars, loopVars, anchor>>

\* A request fails, is refused or times out: discard ejects whoever sits at
\* the address ...
Fails(c) ==
    /\ pc[c] = "request"
    /\ seats' = {e \in seats : \A p \in target[c] : e.address # p.address}
    /\ At(c, "discard")
    /\ UNCHANGED <<cacheVars, next_session, ended, cut, loopVars, job, target, anchorVars, cleared_late>>

UnpinFailed(lost) == Unpin(lost)

\* ... and unpins the anchor if it is held there.
ReleaseAt(c) ==
    /\ pc[c] = "discard" /\ Unlocked
    /\ UnpinFailed(\E a \in anchor, p \in target[c] : a.source.address = p.address)
    /\ Stop(c)
    /\ UNCHANGED <<cacheVars, poolVars, loopVars, cleared_late>>

\* The caller drops its call at an await; a lock it holds is released.  (A
\* transaction that is sent goes the way of a removal and stops before Store.)
Cancel(c) ==
    /\ pc[c] \notin {"idle", "clear"}
    /\ Stop(c)
    /\ UNCHANGED <<cacheVars, poolVars, loopVars, anchorVars, cleared_late>>

-----------------------------------------------------------------------------
Begins(c) ==
    \/ \E wish \in Wishes : Begin(c, Of("subscribe", wish))
    \/ \E wish \in Wishes : wish.ids # {} /\ Begin(c, Of("remove", wish))
    \/ Begin(c, Of("read", Nothing))
    \/ BeginReconnect(c)

GoesOn(c) ==
    \/ UseAnchor(c) \/ Pick(c) \/ PickFails(c) \/ Pin(c) \/ NothingToPin(c)
    \/ Answered(c) \/ Store(c) \/ ClearRearm(c) \/ Fails(c) \/ ReleaseAt(c)

Next ==
    \/ \E a \in Address : Seat(a)
    \/ \E e \in seats : LoseSeat(e)
    \/ \E e \in Known : SessionEnds(e)
    \/ \E e \in followed :
          \/ FallsBehind(e) \/ ReceiveFrame(e) \/ ReceiveEnded(e)
          \/ ReceiveNone(e) \/ Release(e)
    \/ Adopt \/ ApplyFrame
    \/ \E c \in Caller : Begins(c) \/ GoesOn(c) \/ Cancel(c)

Spec == Init /\ [][Next]_vars

\* The loop is a task of its own and its locks are fair; a subscription that
\* is over holds at most FRAME_BUFFER frames; a call goes on, its requests
\* being timed.
FairSpec ==
    /\ Spec
    /\ WF_vars(Adopt) /\ WF_vars(ApplyFrame)
    /\ SF_vars(\E e \in followed : ReceiveNone(e))
    /\ SF_vars(\E e \in followed : Release(e))
    /\ \A c \in Caller : WF_vars(GoesOn(c))

-----------------------------------------------------------------------------
(* Properties.                                                              *)

\* Whatever was subscribed, with nobody pinned the client says that it has to
\* be re-armed: a failed read signals it no less than a session's end, before
\* the first reconnect and after any.  One reconnect can hide one loss: that
\* which comes before its last act, the clearing of the signal, and after what
\* it pinned; it stays hidden until a session is pinned again, and no longer.
PinnedOrSignalled ==
    subscribed_coins \cup subscribed_puzzle_hashes # {} /\ anchor = {} /\ ~ cleared_late
        => rearm_needed

\* The parting frame of a former session, at the same address perhaps, does
\* not unpin its successor: an anchor is lost when its session is over for its
\* subscriber, to the end of an earlier subscription to that very session, or
\* to a failed read at its address.
OnlyOwnLossUnpins ==
    [][\A a \in anchor : a \notin anchor' =>
          \/ Over(a.source)
          \/ turn = "close" /\ turn' = "wait" /\ a.source \in followed
          \/ \E c \in Caller : \E p \in target[c] :
                /\ pc[c] = "discard" /\ pc'[c] # "discard"
                /\ p.address = a.source.address]_vars

\* Whatever is pinned and lives comes to be followed, even if the session the
\* loop follows stays open and never says another word; and a pinned session
\* that ends, or that the loop falls behind, comes to be unpinned.
PinMeansFollowing ==
    \A e \in FrameSource :
        AnchoredTo(e) /\ (e \notin followed \/ Over(e))
            ~> ~ AnchoredTo(e) \/ (e \in followed /\ ~ Over(e))
=============================================================================
