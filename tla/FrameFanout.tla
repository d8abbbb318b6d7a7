----------------------------- MODULE FrameFanout -----------------------------
(***************************************************************************)
(* The frame fan-out of src/peer/frames.rs: sessions that open, publish    *)
(* and end, and subscriptions that each follow one session through a       *)
(* bounded queue of their own.                                             *)
(*                                                                         *)
(* The map of subscribers is behind one mutex, and every operation on it   *)
(* is one action -- except open_session, which takes the mutex twice.      *)
(* A frame is abstracted to its kind and, for the peaks and coin states a  *)
(* session's task publishes, its number in that session.                   *)
(***************************************************************************)
EXTENDS Naturals, Sequences

CONSTANTS
    Source,         \* sessions: FrameSource values the pool allocates
    Subscriber,     \* subscriptions consumers may open
    Capacities,     \* queue capacities consumers ask for, zero included
    MaxFrames       \* bound: frames one session publishes

ASSUME FanoutAssumption == Capacities \subseteq Nat /\ MaxFrames \in Nat

VARIABLES
    stage,          \* per session: "allocated", "registering" (in the map, its Reset
                    \* not yet published), "running" or "ended"
    followers,      \* per session: the subscriptions holding a sender
    published,      \* per session: frames its task has published
    follows,        \* per subscription: the session followed, if any
    capacity,       \* per subscription: the capacity of its queue
    queue,          \* per subscription: frames queued and not yet received
    open,           \* per subscription: does the consumer still hold it?
    last,           \* per subscription: the last frame received
    done,           \* per subscription: has recv returned None?
    joined          \* history: published[s] when the subscription was opened

vars == <<stage, followers, published, follows, capacity, queue, open, last, done, joined>>
consumerVars == <<open, last, done>>

Reset == [kind |-> "reset", n |-> 0]
Data(n) == [kind |-> "data", n |-> n]
Ended == [kind |-> "ended", n |-> 0]
Nothing == [kind |-> "nothing", n |-> 0]
Frame == {Reset, Ended} \cup {Data(n) : n \in 1 .. MaxFrames}

\* The sources the map holds an entry for.
Registered(s) == stage[s] \in {"registering", "running"}

Init ==
    /\ stage = [s \in Source |-> "allocated"]
    /\ followers = [s \in Source |-> {}]
    /\ published = [s \in Source |-> 0]
    /\ follows = [f \in Subscriber |-> {}]
    /\ capacity = [f \in Subscriber |-> 0]
    /\ queue = [f \in Subscriber |-> <<>>]
    /\ open = [f \in Subscriber |-> FALSE]
    /\ last = [f \in Subscriber |-> Nothing]
    /\ done = [f \in Subscriber |-> FALSE]
    /\ joined = [f \in Subscriber |-> 0]

-----------------------------------------------------------------------------
(* Publishing.                                                              *)

\* try_send: the receiver is there and its queue has room.
Accepts(f) == open[f] /\ Len(queue[f]) < capacity[f]

\* Mutant: the frame goes to every subscriber, whatever session it follows.
Everybody(s) == {f \in Subscriber : \E t \in Source : f \in followers[t]}

Reached(s) == followers[s]

\* The frame is queued for the followers that can take it ...
Enqueue(s, frame) ==
    queue' = [f \in Subscriber |->
                 IF f \in Reached(s) /\ Accepts(f)
                 THEN Append(queue[f], frame) ELSE queue[f]]

\* Mutant: a full queue costs the subscriber the frame, not the subscription.
SkipWhenFull(s) ==
    followers' = [t \in Source |-> {f \in followers[t] : f \in Reached(s) => open[f]}]

\* ... and the others lose their sender.
Retain(s) ==
    followers' = [t \in Source |-> {f \in followers[t] : f \in Reached(s) => Accepts(f)}]

Publish(s, frame) ==
    IF Registered(s)
    THEN Enqueue(s, frame) /\ Retain(s)
    ELSE UNCHANGED <<queue, followers>>

\* open_session, first critical section: the map gets an entry.
OpenRegister(s) ==
    /\ stage[s] = "allocated"
    /\ stage' = [stage EXCEPT ![s] = "registering"]
    /\ UNCHANGED <<followers, published, follows, capacity, queue, joined>>
    /\ UNCHANGED consumerVars

\* open_session, second critical section: the session's own Reset.
OpenReset(s) ==
    /\ stage[s] = "registering"
    /\ Publish(s, Reset)
    /\ stage' = [stage EXCEPT ![s] = "running"]
    /\ UNCHANGED <<published, follows, capacity, joined>>
    /\ UNCHANGED consumerVars

\* The receiver task publishes a peak or a batch of coin states.
PublishData(s) ==
    /\ stage[s] = "running"
    /\ published[s] < MaxFrames
    /\ published' = [published EXCEPT ![s] = @ + 1]
    /\ Publish(s, Data(published[s] + 1))
    /\ UNCHANGED <<stage, follows, capacity, joined>>
    /\ UNCHANGED consumerVars

\* Mutant: the map entry outlives the session.
KeepAtEnd(s) == Retain(s)

\* A SessionEnded deregisters the source: every sender drops.
DropAtEnd(s) == followers' = [followers EXCEPT ![s] = {}]

PublishEnd(s) ==
    /\ stage[s] = "running"
    /\ Enqueue(s, Ended)
    /\ DropAtEnd(s)
    /\ stage' = [stage EXCEPT ![s] = "ended"]
    /\ UNCHANGED <<published, follows, capacity, joined>>
    /\ UNCHANGED consumerVars

-----------------------------------------------------------------------------
(* Subscribing and receiving.                                               *)

Subscribable(s) == Registered(s)

\* The Reset is queued before the sender is registered.
Opening == <<Reset>>

\* The capacity asked for, and at least one frame's room.
Room(asked) == IF asked = 0 THEN 1 ELSE asked

Subscribe(f, s, asked) ==
    /\ follows[f] = {}
    /\ Subscribable(s)
    /\ follows' = [follows EXCEPT ![f] = {s}]
    /\ capacity' = [capacity EXCEPT ![f] = Room(asked)]
    /\ queue' = [queue EXCEPT ![f] = Opening]
    /\ followers' = [followers EXCEPT ![s] = @ \cup {f}]
    /\ open' = [open EXCEPT ![f] = TRUE]
    /\ joined' = [joined EXCEPT ![f] = published[s]]
    /\ UNCHANGED <<stage, published, last, done>>

\* recv and try_recv with a frame queued.
Recv(f) ==
    /\ open[f] /\ queue[f] # <<>>
    /\ last' = [last EXCEPT ![f] = Head(queue[f])]
    /\ queue' = [queue EXCEPT ![f] = Tail(@)]
    /\ UNCHANGED <<stage, followers, published, follows, capacity, open, done, joined>>

HasSender(f) == \E s \in Source : f \in followers[s]

\* recv returns None: nothing queued and no sender left.
RecvNone(f) ==
    /\ open[f] /\ queue[f] = <<>> /\ ~ HasSender(f)
    /\ done' = [done EXCEPT ![f] = TRUE]
    /\ open' = [open EXCEPT ![f] = FALSE]
    /\ UNCHANGED <<stage, followers, published, follows, capacity, queue, last, joined>>

\* The consumer drops the subscription; its sender goes with the next publish.
Drop(f) ==
    /\ open[f]
    /\ open' = [open EXCEPT ![f] = FALSE]
    /\ queue' = [queue EXCEPT ![f] = <<>>]
    /\ UNCHANGED <<stage, followers, published, follows, capacity, last, done, joined>>

-----------------------------------------------------------------------------
Opens(s) == OpenRegister(s) \/ OpenReset(s)
Receives(f) == Recv(f) \/ RecvNone(f)

Next ==
    \/ \E s \in Source : Opens(s) \/ PublishData(s) \/ PublishEnd(s)
    \/ \E f \in Subscriber :
          \/ \E s \in Source, k \in Capacities : Subscribe(f, s, k)
          \/ Receives(f)
          \/ Drop(f)

Spec == Init /\ [][Next]_vars

\* A consumer that holds its subscription keeps calling recv.
FairSpec == Spec /\ \A f \in Subscriber : WF_vars(Receives(f))

-----------------------------------------------------------------------------
(* Properties.                                                              *)

Stream(f) == INSTANCE SessionStream WITH
                 follows <- follows[f], joined <- joined[f],
                 last <- last[f], done <- done[f]

\* Whatever the interleaving of publishers, consumers and terminations, what
\* a consumer receives is its session's frames from the moment it joined: a
\* Reset, then every frame in order with no gap, and it is the stream that
\* ends when the consumer cannot keep up.
StreamsHaveNoGap ==
    /\ \A f \in Subscriber : Stream(f)!Init
    /\ [][\A f \in Subscriber : [Stream(f)!Next]_(Stream(f)!vars)]_vars

\* Only the session a consumer chose can end its subscription: no other peer,
\* however fast it publishes, reaches its queue or its sender.
OnlyItsOwnPeerEndsIt ==
    [][\A f \in Subscriber, s \in Source :
          f \in followers[s] /\ f \notin followers'[s] =>
              /\ follows[f] = {s}
              /\ published'[s] # published[s] \/ stage'[s] # stage[s]]_vars

\* A consumer that keeps receiving learns that its stream is over, whether its
\* session ended -- before it subscribed, even -- or it fell behind: recv does
\* not wait for a frame that will never come.
EndIsLearned ==
    \A f \in Subscriber :
        (open[f] /\ (~ HasSender(f) \/ \E s \in follows[f] : stage[s] = "ended"))
            ~> ~ open[f]
=============================================================================
