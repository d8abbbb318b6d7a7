------------------------- MODULE LightClientProofs -------------------------
(***************************************************************************)
(* What holds of the light client for any number of callers, sessions and  *)
(* subscriptions, and whatever a peer says.                                *)
(*                                                                         *)
(* The client moves its cache only as the cache's own specification        *)
(* allows, so what is proved of the cache holds of it under the drive      *)
(* loop, reconnects and dropped calls.  And a subscription that nobody     *)
(* feeds is signalled: for that the calls that are about to subscribe have *)
(* to be counted in, from the moment they have an anchor to subscribe at.  *)
(***************************************************************************)
EXTENDS LightClient, CoinStateCacheProofs

Awaits == {"idle", "session", "pinning", "request", "answered", "clear", "discard"}

\* The calls, which name coins and puzzle hashes, and stand at an await.
CallsTypeOK == pc \in [Caller -> Awaits] /\ job \in [Caller -> Job]

\* The calls that have been given an anchor and may still subscribe.
Subscribing ==
    {c \in Caller : pc[c] = "answered" \/ (pc[c] = "request" /\ job[c].kind # "read")}

\* What PinnedOrSignalled rests on: the loss of an anchor is signalled also
\* while the first subscription is only on its way.
LossIsSignalled ==
    \/ anchor # {} \/ rearm_needed \/ cleared_late
    \/ Subscribing = {} /\ subscribed_coins \cup subscribed_puzzle_hashes = {}

-----------------------------------------------------------------------------
(* The cache under the client.                                              *)

\* Every step of the client is a step of the cache's specification, or leaves
\* the cache as it is.
LEMMA StepsOfTheCache ==
  ASSUME CallsTypeOK, [Next]_vars
  PROVE  [CacheNext]_cacheVars
<1>1. CASE ApplyFrame
  BY <1>1 DEF ApplyFrame, CacheNext
<1>2. ASSUME NEW c \in Caller, Store(c)
      PROVE  CacheNext
  <2>1. job[c] \in Job
    BY DEF CallsTypeOK
  <2>2. CASE job[c].kind = "remove"
    BY <1>2, <2>1, <2>2 DEF Store, CacheNext, Job
  <2>3. CASE job[c].kind # "remove"
    <3>1. PICK answer \in Message :
              Track(Covers(job[c]).ids, Covers(job[c]).hashes, answer)
      BY <1>2, <2>3 DEF Store
    <3>2. Covers(job[c]).ids \in SUBSET Coin /\ Covers(job[c]).hashes \in SUBSET PuzzleHash
      BY <2>1 DEF Covers, Job
    <3>. QED  BY <3>1, <3>2 DEF CacheNext
  <2>. QED  BY <2>2, <2>3
<1>3. ASSUME NEW c \in Caller, Begins(c) \/ Cancel(c)
      PROVE  UNCHANGED cacheVars
  BY <1>3 DEF Begins, Begin, BeginReconnect, Cancel
<1>4. ASSUME NEW c \in Caller, GoesOn(c), ~ Store(c)
      PROVE  UNCHANGED cacheVars
  BY <1>4 DEF GoesOn, UseAnchor, Pick, PickFails, Pin, NothingToPin, Answered, ClearRearm,
              Fails, ReleaseAt
<1>5. ASSUME NEW e \in followed,
             FallsBehind(e) \/ ReceiveFrame(e) \/ ReceiveEnded(e) \/ ReceiveNone(e) \/ Release(e)
      PROVE  UNCHANGED cacheVars
  BY <1>5 DEF FallsBehind, ReceiveFrame, ReceiveEnded, ReceiveNone, Release
<1>6. ASSUME \/ \E a \in Address : Seat(a)
             \/ \E e \in seats : LoseSeat(e)
             \/ \E e \in Known : SessionEnds(e)
             \/ Adopt
      PROVE  UNCHANGED cacheVars
  BY <1>6 DEF Seat, LoseSeat, SessionEnds, Adopt
<1>7. CASE UNCHANGED vars
  BY <1>7 DEF vars, cacheVars
<1>. QED  BY <1>1, <1>2, <1>3, <1>4, <1>5, <1>6, <1>7 DEF Next

\* What a call is for, and where it stands, are never anything else.
LEMMA CallsStayTyped ==
  ASSUME CallsTypeOK, CacheTypeOK, [Next]_vars
  PROVE  CallsTypeOK'
<1>1. NoJob \in Job /\ Of("read", Nothing) \in Job
  BY DEF NoJob, Of, Nothing, Job
<1>2. ASSUME NEW c \in Caller, Stop(c)
      PROVE  CallsTypeOK'
  BY <1>1, <1>2 DEF Stop, At, CallsTypeOK, Awaits
<1>3. ASSUME NEW c \in Caller, NEW stage \in Awaits, At(c, stage), UNCHANGED job
      PROVE  CallsTypeOK'
  BY <1>3 DEF At, CallsTypeOK
<1>4. ASSUME NEW c \in Caller, NEW stage \in Awaits, NEW j \in Job,
             At(c, stage), job' = [job EXCEPT ![c] = j]
      PROVE  CallsTypeOK'
  BY <1>4 DEF At, CallsTypeOK
<1>5. ASSUME NEW c \in Caller, Begins(c)
      PROVE  CallsTypeOK'
  <2>1. \A wish \in Wishes : Of("subscribe", wish) \in Job /\ Of("remove", wish) \in Job
    BY ClientAssumption DEF Of, Job
  <2>2. Of("rearm", [ids |-> subscribed_coins, hashes |-> subscribed_puzzle_hashes]) \in Job
    BY DEF Of, Job, CacheTypeOK
  <2>3. CASE BeginReconnect(c)
    BY <1>4, <2>2, <2>3 DEF BeginReconnect, Awaits
  <2>4. ASSUME NEW j \in Job, Begin(c, j)
        PROVE  CallsTypeOK'
    BY <1>4, <2>4 DEF Begin, Awaits
  <2>. QED  BY <1>1, <1>5, <2>1, <2>3, <2>4 DEF Begins
<1>6. ASSUME NEW c \in Caller, Store(c)
      PROVE  CallsTypeOK'
  <2>1. CASE job[c].kind # "rearm"
    BY <1>2, <1>6, <2>1 DEF Store
  <2>2. CASE job[c].kind = "rearm"
    <3>1. Of("rearm", Rest(job[c])) \in Job
      BY DEF CallsTypeOK, Of, Rest, Job, NoJob, Nothing
    <3>. QED  BY <1>4, <1>6, <2>2, <3>1 DEF Store, Awaits
  <2>. QED  BY <2>1, <2>2
<1>7. ASSUME NEW c \in Caller, GoesOn(c) \/ Cancel(c), ~ Store(c)
      PROVE  CallsTypeOK'
  <2>1. CASE Answered(c)
    BY <1>2, <1>3, <2>1 DEF Answered, Awaits
  <2>2. CASE PickFails(c) \/ NothingToPin(c) \/ ClearRearm(c) \/ ReleaseAt(c) \/ Cancel(c)
    BY <1>2, <2>2 DEF PickFails, NothingToPin, ClearRearm, ReleaseAt, Cancel
  <2>3. CASE UseAnchor(c) \/ Pick(c) \/ Pin(c) \/ Fails(c)
    BY <1>3, <2>3 DEF UseAnchor, Pick, Pin, Fails, Awaits
  <2>. QED  BY <1>7, <2>1, <2>2, <2>3 DEF GoesOn
<1>8. ASSUME UNCHANGED <<pc, job>>
      PROVE  CallsTypeOK'
  BY <1>8 DEF CallsTypeOK
<1>9. ASSUME \/ \E a \in Address : Seat(a)
             \/ \E e \in seats : LoseSeat(e)
             \/ \E e \in Known : SessionEnds(e)
             \/ \E e \in followed : \/ FallsBehind(e) \/ ReceiveFrame(e) \/ ReceiveEnded(e)
                                    \/ ReceiveNone(e) \/ Release(e)
             \/ Adopt \/ ApplyFrame \/ UNCHANGED vars
      PROVE  UNCHANGED <<pc, job>>
  BY <1>9 DEF Seat, LoseSeat, SessionEnds, FallsBehind, ReceiveFrame, ReceiveEnded, ReceiveNone,
              Release, Adopt, ApplyFrame, vars, callVars
<1>. QED  BY <1>5, <1>6, <1>7, <1>8, <1>9 DEF Next

-----------------------------------------------------------------------------
(* The loss of an anchor.                                                   *)

\* A step that keeps the signal, and after which no more calls subscribe and
\* no more is subscribed than before, leaves no loss unsignalled.
LEMMA NothingNewToSignal ==
  ASSUME LossIsSignalled,
         anchor # {} => anchor' # {} \/ rearm_needed',
         rearm_needed => rearm_needed' \/ cleared_late',
         cleared_late => cleared_late',
         Subscribing' \subseteq Subscribing,
         subscribed_coins' \subseteq subscribed_coins,
         subscribed_puzzle_hashes' \subseteq subscribed_puzzle_hashes
  PROVE  LossIsSignalled'
BY DEF LossIsSignalled

\* A call that stops, or moves to an await where it does not subscribe,
\* subscribes no longer.
LEMMA FewerSubscribe ==
  ASSUME CallsTypeOK, NEW c \in Caller, NEW stage \in Awaits \ {"request", "answered"},
         At(c, stage), \A d \in Caller \ {c} : job'[d] = job[d]
  PROVE  Subscribing' \subseteq Subscribing
BY DEF CallsTypeOK, At, Subscribing

\* No step loses an anchor unsignalled: whoever unpins says so, and a call
\* gets to subscribe only while somebody is pinned.
LEMMA LossStaysSignalled ==
  ASSUME CallsTypeOK, LossIsSignalled, [Next]_vars
  PROVE  LossIsSignalled'
<1>1. ASSUME NEW c \in Caller, Stop(c)
      PROVE  Subscribing' \subseteq Subscribing
  BY <1>1, FewerSubscribe DEF Stop, Awaits, CallsTypeOK
<1>2. ASSUME NEW lost \in BOOLEAN, Unpin(lost)
      PROVE  /\ anchor # {} => anchor' # {} \/ rearm_needed'
             /\ rearm_needed => rearm_needed'
  BY <1>2 DEF Unpin
<1>3. ASSUME NEW c \in Caller, Begins(c)
      PROVE  LossIsSignalled'
  <2>1. Subscribing' \subseteq Subscribing
    BY <1>3, FewerSubscribe DEF Begins, Begin, BeginReconnect, Awaits, CallsTypeOK
  <2>2. UNCHANGED <<anchorVars, cleared_late, cacheVars>>
    BY <1>3 DEF Begins, Begin, BeginReconnect
  <2>. QED  BY <2>1, <2>2, NothingNewToSignal DEF anchorVars, cacheVars
<1>4. ASSUME NEW c \in Caller, UseAnchor(c)
      PROVE  LossIsSignalled'
  <2>1. anchor # {} /\ UNCHANGED anchor
    BY <1>4 DEF UseAnchor, anchorVars
  <2>. QED  BY <2>1 DEF LossIsSignalled
<1>5. ASSUME NEW c \in Caller, Pick(c)
      PROVE  LossIsSignalled'
  <2>1. Subscribing' \subseteq Subscribing
    BY <1>5 DEF Pick, At, CallsTypeOK, Subscribing
  <2>2. UNCHANGED <<anchorVars, cleared_late, cacheVars>>
    BY <1>5 DEF Pick
  <2>. QED  BY <2>1, <2>2, NothingNewToSignal DEF anchorVars, cacheVars
<1>6. ASSUME NEW c \in Caller, Pin(c)
      PROVE  LossIsSignalled'
  BY <1>6 DEF Pin, LossIsSignalled
<1>7. ASSUME NEW c \in Caller, Answered(c)
      PROVE  LossIsSignalled'
  <2>1. Subscribing' \subseteq Subscribing
    <3>1. CASE job[c].kind \in {"subscribe", "rearm", "remove"}
      BY <1>7, <3>1 DEF Answered, At, CallsTypeOK, Subscribing
    <3>2. CASE job[c].kind \notin {"subscribe", "rearm", "remove"}
      BY <1>1, <1>7, <3>2 DEF Answered
    <3>. QED  BY <3>1, <3>2
  <2>2. UNCHANGED <<anchorVars, cleared_late, cacheVars>>
    BY <1>7 DEF Answered
  <2>. QED  BY <2>1, <2>2, NothingNewToSignal DEF anchorVars, cacheVars
<1>8. ASSUME NEW c \in Caller, Store(c)
      PROVE  LossIsSignalled'
  <2>1. UNCHANGED <<anchorVars, cleared_late>>
    BY <1>8 DEF Store
  <2>2. CASE job[c].kind = "remove"
    <3>1. Subscribing' \subseteq Subscribing
      BY <1>1, <1>8, <2>2 DEF Store
    <3>2. /\ subscribed_coins' \subseteq subscribed_coins
          /\ subscribed_puzzle_hashes' = subscribed_puzzle_hashes
      BY <1>8, <2>2 DEF Store, Untrack
    <3>. QED  BY <2>1, <3>1, <3>2, NothingNewToSignal DEF anchorVars
  <2>3. CASE job[c].kind # "remove"
    <3>1. c \in Subscribing
      BY <1>8 DEF Store, Subscribing
    <3>. QED  BY <2>1, <3>1 DEF LossIsSignalled, anchorVars
  <2>. QED  BY <2>2, <2>3
<1>9. ASSUME NEW c \in Caller, ClearRearm(c)
      PROVE  LossIsSignalled'
  BY <1>9 DEF ClearRearm, LossIsSignalled
<1>10. ASSUME NEW c \in Caller, Fails(c)
       PROVE  LossIsSignalled'
  <2>1. Subscribing' \subseteq Subscribing
    BY <1>10, FewerSubscribe DEF Fails, Awaits
  <2>2. UNCHANGED <<anchorVars, cleared_late, cacheVars>>
    BY <1>10 DEF Fails
  <2>. QED  BY <2>1, <2>2, NothingNewToSignal DEF anchorVars, cacheVars
<1>11. ASSUME NEW c \in Caller, ReleaseAt(c)
       PROVE  LossIsSignalled'
  <2>1. Subscribing' \subseteq Subscribing
    BY <1>1, <1>11 DEF ReleaseAt
  <2>2. UNCHANGED <<cleared_late, cacheVars>>
    BY <1>11 DEF ReleaseAt
  <2>3. /\ anchor # {} => anchor' # {} \/ rearm_needed'
        /\ rearm_needed => rearm_needed'
    BY <1>2, <1>11 DEF ReleaseAt, UnpinFailed
  <2>. QED  BY <2>1, <2>2, <2>3, NothingNewToSignal DEF cacheVars
<1>12. ASSUME NEW c \in Caller, PickFails(c) \/ NothingToPin(c) \/ Cancel(c)
       PROVE  LossIsSignalled'
  <2>1. Subscribing' \subseteq Subscribing
    BY <1>1, <1>12 DEF PickFails, NothingToPin, Cancel
  <2>2. UNCHANGED <<anchorVars, cleared_late, cacheVars>>
    BY <1>12 DEF PickFails, NothingToPin, Cancel
  <2>. QED  BY <2>1, <2>2, NothingNewToSignal DEF anchorVars, cacheVars
<1>13. ASSUME NEW e \in followed, Release(e)
       PROVE  LossIsSignalled'
  <2>1. UNCHANGED <<cleared_late, cacheVars, callVars>>
    BY <1>13 DEF Release
  <2>2. /\ anchor # {} => anchor' # {} \/ rearm_needed'
        /\ rearm_needed => rearm_needed'
    BY <1>2, <1>13 DEF Release, ReleaseAnchor, AnchoredTo
  <2>. QED  BY <2>1, <2>2, NothingNewToSignal DEF cacheVars, callVars, Subscribing
<1>14. ASSUME ApplyFrame
       PROVE  LossIsSignalled'
  <2>1. UNCHANGED <<cleared_late, anchorVars, callVars>>
    BY <1>14 DEF ApplyFrame
  <2>2. /\ subscribed_coins' \subseteq subscribed_coins
        /\ subscribed_puzzle_hashes' \subseteq subscribed_puzzle_hashes
    BY <1>14 DEF ApplyFrame, ApplyUpdate, SetPeak, subscribed
  <2>. QED  BY <2>1, <2>2, NothingNewToSignal DEF anchorVars, callVars, Subscribing
<1>15. ASSUME \/ \E a \in Address : Seat(a)
              \/ \E e \in seats : LoseSeat(e)
              \/ \E e \in Known : SessionEnds(e)
              \/ \E e \in followed : \/ FallsBehind(e) \/ ReceiveFrame(e) \/ ReceiveEnded(e)
                                     \/ ReceiveNone(e)
              \/ Adopt \/ UNCHANGED vars
       PROVE  LossIsSignalled'
  <2>1. UNCHANGED <<cleared_late, anchorVars, cacheVars, callVars>>
    BY <1>15 DEF Seat, LoseSeat, SessionEnds, FallsBehind, ReceiveFrame, ReceiveEnded,
                 ReceiveNone, Adopt, vars
  <2>. QED
    BY <2>1, NothingNewToSignal DEF anchorVars, cacheVars, callVars, Subscribing
<1>. QED
  BY <1>3, <1>4, <1>5, <1>6, <1>7, <1>8, <1>9, <1>10, <1>11, <1>12, <1>13, <1>14, <1>15
  DEF Next, GoesOn

-----------------------------------------------------------------------------
(* What unpins.                                                             *)

\* One session is pinned at a time, by one caller and only where none is; one
\* subscription is read; and the loop acts on the word that its session has
\* ended only if it has.
PinsAreSound ==
    /\ \A a, b \in anchor : a = b
    /\ \A c \in Caller : pc[c] = "pinning" => anchor = {}
    /\ \A c, d \in Caller : pc[c] = "pinning" /\ pc[d] = "pinning" => c = d
    /\ \A e, f \in followed : e = f
    /\ turn = "release" => \A e \in followed : e.session \in ended

\* The lock that is held while a session is pinned, the loop's turns and the
\* finality of an end keep it so.
LEMMA PinsStaySound ==
  ASSUME PinsAreSound, CallsTypeOK, [Next]_vars
  PROVE  PinsAreSound'
<1>1. ASSUME NEW lost \in BOOLEAN, Unpin(lost)
      PROVE  anchor' \subseteq anchor
  BY <1>1 DEF Unpin
<1>2. ASSUME anchor' \subseteq anchor, UNCHANGED <<turn, followed, ended>>,
             \A d \in Caller : pc'[d] = "pinning" => pc[d] = "pinning"
      PROVE  PinsAreSound'
  BY <1>2 DEF PinsAreSound
<1>3. ASSUME NEW c \in Caller, Begins(c) \/ GoesOn(c) \/ Cancel(c)
      PROVE  PinsAreSound'
  <2>1. UNCHANGED <<turn, followed, ended>>
    BY <1>3 DEF Begins, Begin, BeginReconnect, Cancel, GoesOn, UseAnchor, Pick, PickFails,
                Pin, NothingToPin, Answered, Store, ClearRearm, Fails, ReleaseAt, poolVars, loopVars
  <2>2. CASE Pick(c)
    <3>1. UNCHANGED anchor
      BY <2>2 DEF Pick, anchorVars
    <3>2. CASE job[c].kind = "read"
      <4>1. \A d \in Caller : pc'[d] = "pinning" => pc[d] = "pinning"
        BY <2>2, <3>2 DEF Pick, At, CallsTypeOK
      <4>. QED  BY <1>2, <2>1, <3>1, <4>1
    <3>3. CASE job[c].kind # "read"
      <4>1. anchor = {} /\ \A d \in Caller : pc'[d] = "pinning" => d = c
        BY <2>2, <3>3 DEF Pick, At, Unlocked, CallsTypeOK
      <4>. QED  BY <2>1, <3>1, <4>1 DEF PinsAreSound
    <3>. QED  BY <3>2, <3>3
  <2>3. CASE Pin(c)
    <3>1. \E p \in target[c] : \E e \in SeatedAt(p.address) :
              anchor' = {[source |-> e, peer |-> p]}
      BY <2>3 DEF Pin
    <3>2. \A d \in Caller : pc'[d] # "pinning"
      BY <2>3 DEF Pin, At, CallsTypeOK, PinsAreSound
    <3>. QED  BY <2>1, <3>1, <3>2 DEF PinsAreSound
  <2>4. CASE ~ Pick(c) /\ ~ Pin(c)
    <3>1. anchor' \subseteq anchor
      <4>1. CASE ReleaseAt(c)
        BY <1>1, <4>1 DEF ReleaseAt, UnpinFailed
      <4>2. CASE ~ ReleaseAt(c)
        BY <1>3, <2>4, <4>2
           DEF Begins, Begin, BeginReconnect, Cancel, GoesOn, UseAnchor, PickFails,
               NothingToPin, Answered, Store, ClearRearm, Fails, anchorVars
      <4>. QED  BY <4>1, <4>2
    <3>2. \A d \in Caller : pc'[d] = "pinning" => pc[d] = "pinning"
      BY <1>3, <2>4
         DEF Begins, Begin, BeginReconnect, Cancel, GoesOn, UseAnchor, PickFails, NothingToPin,
             Answered, Store, ClearRearm, Fails, ReleaseAt, Stop, At, CallsTypeOK
    <3>. QED  BY <1>2, <2>1, <3>1, <3>2
  <2>. QED  BY <2>2, <2>3, <2>4
<1>4. ASSUME NEW e \in followed, Release(e)
      PROVE  PinsAreSound'
  <2>1. anchor' \subseteq anchor
    BY <1>1, <1>4 DEF Release, ReleaseAnchor, AnchoredTo
  <2>2. turn' = "wait" /\ followed' \subseteq followed /\ UNCHANGED pc
    BY <1>4 DEF Release, callVars
  <2>. QED  BY <2>1, <2>2 DEF PinsAreSound
<1>5. ASSUME NEW e \in followed, ReceiveEnded(e)
      PROVE  PinsAreSound'
  <2>1. UNCHANGED <<anchor, followed, ended, pc>> /\ e.session \in ended
    BY <1>5 DEF ReceiveEnded, anchorVars, poolVars, callVars
  <2>. QED  BY <2>1 DEF PinsAreSound
<1>6. ASSUME NEW e \in followed, ReceiveFrame(e) \/ ReceiveNone(e)
      PROVE  PinsAreSound'
  BY <1>6 DEF ReceiveFrame, ReceiveNone, anchorVars, callVars, PinsAreSound
<1>7. CASE ApplyFrame \/ Adopt
  BY <1>7 DEF ApplyFrame, Adopt, Adopted, anchorVars, callVars, PinsAreSound
<1>8. ASSUME \/ \E a \in Address : Seat(a)
             \/ \E e \in seats : LoseSeat(e)
             \/ \E e \in Known : SessionEnds(e)
             \/ \E e \in followed : FallsBehind(e)
             \/ UNCHANGED vars
      PROVE  PinsAreSound'
  <2>1. UNCHANGED <<anchor, turn, followed, pc>> /\ ended \subseteq ended'
    BY <1>8 DEF Seat, LoseSeat, SessionEnds, FallsBehind, vars, anchorVars, loopVars, poolVars,
                callVars
  <2>. QED  BY <2>1 DEF PinsAreSound
<1>. QED  BY <1>3, <1>4, <1>5, <1>6, <1>7, <1>8 DEF Next

\* Nothing but the loop's own end of a subscription and a failed read unpins,
\* and neither takes another session's anchor.
LEMMA OwnLossStep ==
  ASSUME PinsAreSound, CallsTypeOK, [Next]_vars, NEW a \in anchor, a \notin anchor'
  PROVE  \/ Over(a.source)
         \/ turn = "close" /\ turn' = "wait" /\ a.source \in followed
         \/ \E c \in Caller : \E p \in target[c] :
               /\ pc[c] = "discard" /\ pc'[c] # "discard"
               /\ p.address = a.source.address
<1>1. anchor = {a}
  BY DEF PinsAreSound
<1>2. ASSUME NEW c \in Caller, Begins(c) \/ GoesOn(c) \/ Cancel(c)
      PROVE  ReleaseAt(c)
  <2>1. ~ Pin(c)
    BY <1>1 DEF Pin, PinsAreSound
  <2>. QED
    BY <1>2, <2>1 DEF Begins, Begin, BeginReconnect, Cancel, GoesOn, UseAnchor, Pick, PickFails,
                     NothingToPin, Answered, Store, ClearRearm, Fails, anchorVars
<1>3. ASSUME NEW c \in Caller, ReleaseAt(c)
      PROVE  \E p \in target[c] :
               /\ pc[c] = "discard" /\ pc'[c] # "discard"
               /\ p.address = a.source.address
  <2>1. \E b \in anchor, p \in target[c] : b.source.address = p.address
    BY <1>3 DEF ReleaseAt, UnpinFailed, Unpin
  <2>2. pc'[c] = "idle" /\ pc[c] = "discard"
    BY <1>3 DEF ReleaseAt, Stop, At, CallsTypeOK
  <2>. QED  BY <1>1, <2>1, <2>2
<1>4. ASSUME NEW e \in followed, Release(e)
      PROVE  \/ Over(a.source)
             \/ turn = "close" /\ turn' = "wait" /\ a.source \in followed
  <2>1. a.source = e
    BY <1>1, <1>4 DEF Release, ReleaseAnchor, AnchoredTo, Unpin
  <2>. QED  BY <1>4, <2>1 DEF Release, Over, PinsAreSound
<1>5. ASSUME \/ \E b \in Address : Seat(b)
             \/ \E e \in seats : LoseSeat(e)
             \/ \E e \in Known : SessionEnds(e)
             \/ \E e \in followed : \/ FallsBehind(e) \/ ReceiveFrame(e) \/ ReceiveEnded(e)
                                    \/ ReceiveNone(e)
             \/ Adopt \/ ApplyFrame \/ UNCHANGED vars
      PROVE  FALSE
  BY <1>5 DEF Seat, LoseSeat, SessionEnds, FallsBehind, ReceiveFrame, ReceiveEnded, ReceiveNone,
              Adopt, ApplyFrame, vars, anchorVars
<1>. QED  BY <1>2, <1>3, <1>4, <1>5 DEF Next

-----------------------------------------------------------------------------
(* The invariant, and what follows from it.                                 *)

LInv == IInv /\ CallsTypeOK /\ LossIsSignalled /\ PinsAreSound

\* The inductive invariant of the client: its cache's, no loss unsignalled, and
\* one session pinned at a time.
THEOREM ClientInvariance == Spec => []LInv
<1>1. Init => LInv
  <2>. SUFFICES ASSUME Init PROVE LInv
    OBVIOUS
  <2>1. IInv
    BY DEF Init, CacheInit, IInv, CacheTypeOK, NoCoinAbovePeak, NamesCoinsOnce, Optional
  <2>2. CallsTypeOK
    BY DEF Init, CallsTypeOK, Awaits, NoJob, Of, Nothing, Job
  <2>3. LossIsSignalled
    BY DEF Init, CacheInit, LossIsSignalled, Subscribing
  <2>4. PinsAreSound
    BY DEF Init, PinsAreSound
  <2>. QED  BY <2>1, <2>2, <2>3, <2>4 DEF LInv
<1>2. LInv /\ [Next]_vars => LInv'
  <2>1. LInv /\ [Next]_vars => [AnyReport]_cacheVars
    BY StepsOfTheCache, MovesAreReports DEF LInv
  <2>. QED
    BY <2>1, CacheStep, CallsStayTyped, LossStaysSignalled, PinsStaySound DEF LInv, IInv
<1>. QED  BY <1>1, <1>2, PTL DEF Spec

\* The client implements its cache: drive loop, subscriptions, removals,
\* reconnects and dropped calls move the cache as CoinStateCache allows.
THEOREM ClientImplementsCache == Spec => CacheSpec
<1>1. Init => CacheInit
  BY DEF Init
<1>2. LInv /\ [Next]_vars => [CacheNext]_cacheVars
  BY StepsOfTheCache DEF LInv
<1>. QED  BY <1>1, <1>2, ClientInvariance, PTL DEF Spec, CacheSpec

\* With nobody pinned, a client that has subscribed says that it has to be
\* re-armed, however losses, failed reads, new calls and reconnects interleave,
\* unless a reconnect has just cleared the signal of a loss it did not repair.
THEOREM LossesAreSignalled == Spec => []PinnedOrSignalled
<1>1. LInv => PinnedOrSignalled
  BY DEF LInv, LossIsSignalled, PinnedOrSignalled
<1>. QED  BY <1>1, ClientInvariance, PTL

\* However callers, sessions and subscriptions interleave, an anchor is lost
\* to the end of a subscription to its own session or to a failed read.
THEOREM LossesAreOwn == Spec => OnlyOwnLossUnpins
<1>1. LInv /\ [Next]_vars =>
         [\A a \in anchor : a \notin anchor' =>
            \/ Over(a.source)
            \/ turn = "close" /\ turn' = "wait" /\ a.source \in followed
            \/ \E c \in Caller : \E p \in target[c] :
                  /\ pc[c] = "discard" /\ pc'[c] # "discard"
                  /\ p.address = a.source.address]_vars
  BY OwnLossStep, Zenon DEF LInv
<1>. QED  BY <1>1, ClientInvariance, PTL DEF Spec, OnlyOwnLossUnpins
=============================================================================
