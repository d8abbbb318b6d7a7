-------------------------- MODULE FrameFanoutProofs --------------------------
(***************************************************************************)
(* The fan-out implements SessionStream, for any number of sessions and    *)
(* subscriptions, capacities and frames.                                   *)
(*                                                                         *)
(* What a consumer will receive is in its queue before it is received, so  *)
(* the invariant is about the queue: it continues what was received last   *)
(* without a gap, and as long as the subscription has its sender it ends   *)
(* with the last frame the session published.  A sender is lost with the   *)
(* first frame that is not queued, which leaves the queue a prefix.        *)
(***************************************************************************)
EXTENDS FrameFanout, TLAPS

FanoutTypeOK ==
    /\ stage \in [Source -> {"allocated", "registering", "running", "ended"}]
    /\ followers \in [Source -> SUBSET Subscriber]
    /\ published \in [Source -> 0 .. MaxFrames]
    /\ follows \in [Subscriber -> SUBSET Source]
    /\ capacity \in [Subscriber -> Nat]
    /\ queue \in [Subscriber -> Seq(Frame)]
    /\ open \in [Subscriber -> BOOLEAN]
    /\ last \in [Subscriber -> Frame \cup {Nothing}]
    /\ done \in [Subscriber -> BOOLEAN]
    /\ joined \in [Subscriber -> 0 .. MaxFrames]

\* May a frame come next after another, in a stream joined at frame j?
Succeeds(frame, prev, j) ==
    \/ frame = Reset /\ prev \in {Nothing, Reset}
    \/ /\ frame.kind = "data"
       /\ \/ prev = Reset /\ frame.n = j + 1
          \/ prev.kind = "data" /\ frame.n = prev.n + 1
    \/ frame = Ended /\ prev.kind \in {"reset", "data"}

\* A queue that continues prev, frame by frame.
Continues(q, prev, j) ==
    /\ q # <<>> => Succeeds(q[1], prev, j)
    /\ \A i \in 1 .. Len(q) - 1 : Succeeds(q[i + 1], q[i], j)

\* The frame the consumer will have received when its queue is empty.
EndOf(q, prev) == IF q = <<>> THEN prev ELSE q[Len(q)]

\* The stream has come as far as its session.
CaughtUp(end, s, j) ==
    \/ end = Reset /\ published[s] = j
    \/ end.kind = "data" /\ end.n = published[s]

\* A subscription before and after it is opened.
SubscriptionOK(f) ==
    /\ follows[f] = {} => last[f] = Nothing /\ ~ done[f]
    /\ open[f] => follows[f] # {} /\ ~ done[f]
    /\ open[f] /\ last[f] = Nothing => queue[f] # <<>>
    /\ Continues(queue[f], last[f], joined[f])

\* A subscription and the session that holds its sender.
SenderOK(f, s) ==
    f \in followers[s] =>
        /\ follows[f] = {s}
        /\ Registered(s)
        /\ open[f] => CaughtUp(EndOf(queue[f], last[f]), s, joined[f])

IInv ==
    /\ FanoutTypeOK
    /\ \A s \in Source : stage[s] \in {"allocated", "registering"} => published[s] = 0
    /\ \A f \in Subscriber : SubscriptionOK(f)
    /\ \A f \in Subscriber, s \in Source : SenderOK(f, s)

-----------------------------------------------------------------------------
(* Queues.                                                                  *)

\* A frame that succeeds the end of a queue may be appended to it.
LEMMA QueueGrows ==
    ASSUME NEW q \in Seq(Frame), NEW prev, NEW j, NEW frame \in Frame,
           Continues(q, prev, j), Succeeds(frame, EndOf(q, prev), j)
    PROVE  /\ Append(q, frame) \in Seq(Frame)
           /\ Append(q, frame) # <<>>
           /\ Continues(Append(q, frame), prev, j)
           /\ EndOf(Append(q, frame), prev) = frame
<1>. DEFINE r == Append(q, frame)
<1>1. /\ r \in Seq(Frame) /\ r # <<>> /\ Len(r) = Len(q) + 1 /\ Len(q) \in Nat
      /\ \A i \in 1 .. Len(q) : r[i] = q[i]
      /\ r[Len(q) + 1] = frame
  OBVIOUS
<1>2. EndOf(r, prev) = frame
  BY <1>1 DEF EndOf
<1>3. Succeeds(r[1], prev, j)
  <2>1. CASE q = <<>>
    <3>1. r[1] = frame /\ EndOf(q, prev) = prev
      BY <1>1, <2>1 DEF EndOf
    <3>. QED  BY <3>1
  <2>2. CASE q # <<>>
    <3>1. r[1] = q[1]
      BY <1>1, <2>2
    <3>. QED  BY <2>2, <3>1 DEF Continues
  <2>. QED  BY <2>1, <2>2
<1>4. ASSUME NEW i \in 1 .. Len(r) - 1
      PROVE  Succeeds(r[i + 1], r[i], j)
  <2>1. CASE i = Len(q)
    <3>1. r[i + 1] = frame /\ r[i] = EndOf(q, prev)
      BY <1>1, <1>4, <2>1 DEF EndOf
    <3>. QED  BY <3>1
  <2>2. CASE i # Len(q)
    <3>1. i \in 1 .. Len(q) - 1 /\ r[i + 1] = q[i + 1] /\ r[i] = q[i]
      BY <1>1, <1>4, <2>2
    <3>. QED  BY <3>1 DEF Continues
  <2>. QED  BY <2>1, <2>2
<1>. QED  BY <1>1, <1>2, <1>3, <1>4 DEF Continues

\* What is received from a queue is continued by the rest of it.
LEMMA QueueMoves ==
    ASSUME NEW q \in Seq(Frame), NEW prev, NEW j, q # <<>>, Continues(q, prev, j)
    PROVE  /\ Head(q) \in Frame
           /\ Tail(q) \in Seq(Frame)
           /\ Succeeds(Head(q), prev, j)
           /\ Continues(Tail(q), Head(q), j)
           /\ EndOf(Tail(q), Head(q)) = EndOf(q, prev)
<1>. DEFINE r == Tail(q)
<1>1. /\ Head(q) = q[1] /\ Head(q) \in Frame /\ r \in Seq(Frame)
      /\ Len(q) \in Nat \ {0} /\ Len(r) = Len(q) - 1
      /\ \A i \in 1 .. Len(r) : r[i] = q[i + 1]
  OBVIOUS
<1>2. Succeeds(Head(q), prev, j)
  BY <1>1 DEF Continues
<1>3. r # <<>> => Succeeds(r[1], Head(q), j)
  BY <1>1 DEF Continues
<1>4. ASSUME NEW i \in 1 .. Len(r) - 1
      PROVE  Succeeds(r[i + 1], r[i], j)
  <2>1. i + 1 \in 1 .. Len(q) - 1 /\ r[i + 1] = q[i + 2] /\ r[i] = q[i + 1]
    BY <1>1, <1>4
  <2>2. (i + 1) + 1 = i + 2
    BY <1>1, <1>4
  <2>. QED  BY <2>1, <2>2 DEF Continues
<1>5. EndOf(r, Head(q)) = EndOf(q, prev)
  <2>1. CASE r = <<>>
    <3>1. \A t \in Seq(Frame) : t = <<>> => Len(t) = 0
      OBVIOUS
    <3>. HIDE DEF r
    <3>2. Len(q) = 1
      BY <1>1, <2>1, <3>1
    <3>. QED  BY <1>1, <2>1, <3>2 DEF EndOf
  <2>2. CASE r # <<>>
    <3>1. Len(r) \in 1 .. Len(r) /\ Len(r) + 1 = Len(q)
      BY <1>1, <2>2
    <3>2. r[Len(r)] = q[Len(q)]
      BY <1>1, <3>1
    <3>. HIDE DEF r
    <3>. QED  BY <2>2, <3>2 DEF EndOf
  <2>. QED  BY <2>1, <2>2
<1>. QED  BY <1>1, <1>2, <1>3, <1>4, <1>5 DEF Continues

-----------------------------------------------------------------------------
(* What a session publishes.                                                *)

\* A frame that succeeds the end of every stream with a sender leaves every
\* stream without a gap, and with its sender only if it got the frame.
LEMMA PublishKeepsStreams ==
    ASSUME IInv, NEW s \in Source, NEW frame \in Frame, Enqueue(s, frame),
           UNCHANGED <<follows, capacity, joined, open, last, done>>,
           \A f \in followers[s] : open[f] =>
               Succeeds(frame, EndOf(queue[f], last[f]), joined[f])
    PROVE  /\ queue' \in [Subscriber -> Seq(Frame)]
           /\ \A f \in Subscriber : SubscriptionOK(f)'
           /\ \A f \in Subscriber : f \in followers[s] /\ Accepts(f) =>
                  EndOf(queue'[f], last[f]) = frame
           /\ \A f \in Subscriber : f \notin followers[s] => queue'[f] = queue[f]
<1>1. ASSUME NEW f \in Subscriber, f \in followers[s], Accepts(f)
      PROVE  /\ queue'[f] \in Seq(Frame)
             /\ SubscriptionOK(f)'
             /\ EndOf(queue'[f], last[f]) = frame
  <2>1. queue'[f] = Append(queue[f], frame)
    BY <1>1 DEF Enqueue, Reached
  <2>2. /\ queue[f] \in Seq(Frame) /\ Continues(queue[f], last[f], joined[f])
        /\ Succeeds(frame, EndOf(queue[f], last[f]), joined[f])
    BY <1>1 DEF IInv, FanoutTypeOK, SubscriptionOK, Accepts
  <2>3. /\ queue'[f] \in Seq(Frame) /\ queue'[f] # <<>>
        /\ Continues(queue'[f], last[f], joined[f])
        /\ EndOf(queue'[f], last[f]) = frame
    BY <2>1, <2>2, QueueGrows
  <2>4. SubscriptionOK(f)
    BY DEF IInv
  <2>. QED  BY <2>3, <2>4 DEF SubscriptionOK
<1>2. ASSUME NEW f \in Subscriber, ~ (f \in followers[s] /\ Accepts(f))
      PROVE  /\ queue'[f] = queue[f]
             /\ queue'[f] \in Seq(Frame)
             /\ SubscriptionOK(f)'
  <2>1. queue'[f] = queue[f]
    BY <1>2 DEF Enqueue, Reached
  <2>. QED  BY <2>1 DEF IInv, FanoutTypeOK, SubscriptionOK
<1>3. queue' = [f \in Subscriber |-> queue'[f]]
  BY DEF Enqueue
<1>. QED  BY <1>1, <1>2, <1>3

\* The streams of the other sessions are left as they are.
LEMMA OthersKeepSenders ==
    ASSUME IInv, NEW s \in Source, NEW t \in Source, t # s, NEW f \in Subscriber,
           followers'[t] \subseteq followers[t],
           stage'[t] = stage[t], published'[t] = published[t],
           f \notin followers[s] => queue'[f] = queue[f],
           UNCHANGED <<follows, joined, open, last>>
    PROVE  SenderOK(f, t)'
<1>1. CASE f \in followers[t]
  <2>1. f \notin followers[s]
    BY <1>1 DEF IInv, SenderOK
  <2>2. SenderOK(f, t)
    BY DEF IInv
  <2>. QED  BY <2>1, <2>2 DEF SenderOK, CaughtUp, Registered
<1>2. CASE f \notin followers[t]
  BY <1>2 DEF SenderOK
<1>. QED  BY <1>1, <1>2

-----------------------------------------------------------------------------
(* The steps.                                                               *)

\* The frames are told apart by their kinds, and numbered from 1.
LEMMA Frames ==
    /\ Reset \in Frame /\ Ended \in Frame
    /\ \A n \in 1 .. MaxFrames : Data(n) \in Frame /\ Data(n).kind = "data" /\ Data(n).n = n
    /\ Reset.kind = "reset" /\ Ended.kind = "ended" /\ Nothing.kind = "nothing"
    /\ Reset # Nothing /\ Ended # Reset /\ Ended # Nothing
    /\ \A x \in Frame : x.kind = "data" => x.n \in 1 .. MaxFrames
    /\ \A x \in Frame : x # Nothing
<1>. USE DEF Reset, Ended, Data, Nothing
<1>1. Reset \in Frame /\ Ended \in Frame
  BY DEF Frame
<1>2. \A n \in 1 .. MaxFrames : Data(n) \in Frame /\ Data(n).kind = "data" /\ Data(n).n = n
  BY DEF Frame
<1>3. Reset.kind = "reset" /\ Ended.kind = "ended" /\ Nothing.kind = "nothing"
  OBVIOUS
<1>4. Reset # Nothing /\ Ended # Reset /\ Ended # Nothing
  BY <1>3
<1>5. \A x \in Frame : x.kind = "data" => x.n \in 1 .. MaxFrames
  BY DEF Frame
<1>6. \A x \in Frame : x.kind # "nothing"
  BY DEF Frame
<1>. QED  BY <1>1, <1>2, <1>3, <1>4, <1>5, <1>6

\* open_session registers the session: nobody follows it yet.
LEMMA RegisterStep ==
    ASSUME IInv, NEW s \in Source, OpenRegister(s)
    PROVE  IInv'
<1>1. FanoutTypeOK'
  BY DEF IInv, FanoutTypeOK, OpenRegister, consumerVars
<1>2. \A t \in Source : stage'[t] \in {"allocated", "registering"} => published'[t] = 0
  BY DEF IInv, FanoutTypeOK, OpenRegister
<1>3. \A f \in Subscriber : SubscriptionOK(f)'
  BY DEF IInv, SubscriptionOK, OpenRegister, consumerVars
<1>4. ASSUME NEW f \in Subscriber, NEW t \in Source
      PROVE  SenderOK(f, t)'
  <2>1. UNCHANGED <<followers, published, follows, queue, joined, open, last>>
    BY DEF OpenRegister, consumerVars
  <2>2. Registered(t) => Registered(t)'
    BY DEF OpenRegister, Registered, IInv, FanoutTypeOK
  <2>3. SenderOK(f, t)
    BY DEF IInv
  <2>. QED  BY <2>1, <2>2, <2>3 DEF SenderOK, CaughtUp
<1>. QED  BY <1>1, <1>2, <1>3, <1>4 DEF IInv

\* ... and its Reset succeeds the Reset of whoever joined in between, for
\* nothing else can have been published.
LEMMA ResetStep ==
    ASSUME IInv, NEW s \in Source, OpenReset(s)
    PROVE  IInv'
<1>1. /\ stage[s] = "registering" /\ published[s] = 0
      /\ stage' = [stage EXCEPT ![s] = "running"]
      /\ UNCHANGED <<published, follows, capacity, joined, open, last, done>>
  BY DEF IInv, OpenReset, consumerVars
<1>2. Enqueue(s, Reset) /\ Retain(s)
  BY <1>1 DEF OpenReset, Publish, Registered
<1>3. ASSUME NEW f \in followers[s], open[f]
      PROVE  EndOf(queue[f], last[f]) = Reset /\ joined[f] = 0
  <2>1. CaughtUp(EndOf(queue[f], last[f]), s, joined[f])
    BY <1>3 DEF IInv, FanoutTypeOK, SenderOK
  <2>2. EndOf(queue[f], last[f]) \in Frame \cup {Nothing}
    BY <1>3 DEF IInv, FanoutTypeOK, EndOf
  <2>. QED  BY <1>1, <2>1, <2>2, Frames DEF CaughtUp
<1>4. /\ queue' \in [Subscriber -> Seq(Frame)]
      /\ \A f \in Subscriber : SubscriptionOK(f)'
      /\ \A f \in Subscriber : f \in followers[s] /\ Accepts(f) =>
             EndOf(queue'[f], last[f]) = Reset
      /\ \A f \in Subscriber : f \notin followers[s] => queue'[f] = queue[f]
  <2>1. \A f \in followers[s] : open[f] =>
            Succeeds(Reset, EndOf(queue[f], last[f]), joined[f])
    BY <1>3 DEF Succeeds
  <2>. QED  BY <1>1, <1>2, <2>1, Frames, PublishKeepsStreams
<1>5. FanoutTypeOK'
  BY <1>1, <1>2, <1>4 DEF IInv, FanoutTypeOK, Retain, Reached
<1>6. \A t \in Source : stage'[t] \in {"allocated", "registering"} => published'[t] = 0
  BY <1>1 DEF IInv, FanoutTypeOK
<1>7. ASSUME NEW f \in Subscriber, NEW t \in Source
      PROVE  SenderOK(f, t)'
  <2>1. CASE t = s
    <3>1. f \in followers'[s] => f \in followers[s] /\ Accepts(f)
      BY <1>2 DEF Retain, Reached
    <3>2. f \in followers[s] => follows[f] = {s}
      BY DEF IInv, SenderOK
    <3>3. Registered(s)'
      BY <1>1 DEF Registered, IInv, FanoutTypeOK
    <3>4. f \in followers[s] /\ Accepts(f) => open[f]
      BY DEF Accepts
    <3>. QED
      BY <1>1, <1>3, <1>4, <2>1, <3>1, <3>2, <3>3, <3>4 DEF SenderOK, CaughtUp
  <2>2. CASE t # s
    <3>1. followers'[t] \subseteq followers[t] /\ stage'[t] = stage[t]
      BY <1>1, <1>2, <2>2 DEF Retain, IInv, FanoutTypeOK
    <3>. QED  BY <1>1, <1>4, <2>2, <3>1, OthersKeepSenders
  <2>. QED  BY <2>1, <2>2
<1>. QED  BY <1>4, <1>5, <1>6, <1>7 DEF IInv

\* The next frame of a session.
LEMMA DataStep ==
    ASSUME IInv, NEW s \in Source, PublishData(s)
    PROVE  IInv'
<1>. DEFINE m == published[s] + 1
<1>1. /\ stage[s] = "running" /\ m \in 1 .. MaxFrames
      /\ published' = [published EXCEPT ![s] = m]
      /\ UNCHANGED <<stage, follows, capacity, joined, open, last, done>>
  BY FanoutAssumption DEF IInv, FanoutTypeOK, PublishData, consumerVars
<1>2. Enqueue(s, Data(m)) /\ Retain(s)
  BY <1>1 DEF PublishData, Publish, Registered
<1>. HIDE DEF m
<1>3. \A f \in followers[s] : open[f] => Succeeds(Data(m), EndOf(queue[f], last[f]), joined[f])
  <2>1. ASSUME NEW f \in followers[s], open[f]
        PROVE  Succeeds(Data(m), EndOf(queue[f], last[f]), joined[f])
    <3>1. CaughtUp(EndOf(queue[f], last[f]), s, joined[f])
      BY <2>1 DEF IInv, FanoutTypeOK, SenderOK
    <3>. QED  BY <1>1, <3>1, Frames DEF CaughtUp, Succeeds, m
  <2>. QED  BY <2>1
<1>4. /\ queue' \in [Subscriber -> Seq(Frame)]
      /\ \A f \in Subscriber : SubscriptionOK(f)'
      /\ \A f \in Subscriber : f \in followers[s] /\ Accepts(f) =>
             EndOf(queue'[f], last[f]) = Data(m)
      /\ \A f \in Subscriber : f \notin followers[s] => queue'[f] = queue[f]
  BY <1>1, <1>2, <1>3, Frames, PublishKeepsStreams
<1>5. FanoutTypeOK'
  BY <1>1, <1>2, <1>4 DEF IInv, FanoutTypeOK, Retain, Reached
<1>6. \A t \in Source : stage'[t] \in {"allocated", "registering"} => published'[t] = 0
  BY <1>1 DEF IInv, FanoutTypeOK
<1>7. ASSUME NEW f \in Subscriber, NEW t \in Source
      PROVE  SenderOK(f, t)'
  <2>1. CASE t = s
    <3>1. f \in followers'[s] => f \in followers[s] /\ Accepts(f)
      BY <1>2 DEF Retain, Reached
    <3>2. f \in followers[s] => follows[f] = {s}
      BY DEF IInv, SenderOK
    <3>3. Registered(s)'
      BY <1>1 DEF Registered
    <3>4. published'[s] = m
      BY <1>1 DEF IInv, FanoutTypeOK
    <3>. QED
      BY <1>1, <1>4, <2>1, <3>1, <3>2, <3>3, <3>4, Frames DEF SenderOK, CaughtUp
  <2>2. CASE t # s
    <3>1. followers'[t] \subseteq followers[t] /\ published'[t] = published[t]
      BY <1>1, <1>2, <2>2 DEF Retain, IInv, FanoutTypeOK
    <3>. QED  BY <1>1, <1>4, <2>2, <3>1, OthersKeepSenders
  <2>. QED  BY <2>1, <2>2
<1>. QED  BY <1>4, <1>5, <1>6, <1>7 DEF IInv

\* The end of a session: every sender goes.
LEMMA EndStep ==
    ASSUME IInv, NEW s \in Source, PublishEnd(s)
    PROVE  IInv'
<1>1. /\ stage[s] = "running"
      /\ stage' = [stage EXCEPT ![s] = "ended"]
      /\ followers' = [followers EXCEPT ![s] = {}]
      /\ Enqueue(s, Ended)
      /\ UNCHANGED <<published, follows, capacity, joined, open, last, done>>
  BY DEF PublishEnd, DropAtEnd, consumerVars
<1>2. \A f \in followers[s] : open[f] => Succeeds(Ended, EndOf(queue[f], last[f]), joined[f])
  <2>1. ASSUME NEW f \in followers[s], open[f]
        PROVE  Succeeds(Ended, EndOf(queue[f], last[f]), joined[f])
    <3>1. CaughtUp(EndOf(queue[f], last[f]), s, joined[f])
      BY <2>1 DEF IInv, FanoutTypeOK, SenderOK
    <3>. QED  BY <3>1, Frames DEF CaughtUp, Succeeds
  <2>. QED  BY <2>1
<1>3. /\ queue' \in [Subscriber -> Seq(Frame)]
      /\ \A f \in Subscriber : SubscriptionOK(f)'
      /\ \A f \in Subscriber : f \notin followers[s] => queue'[f] = queue[f]
  BY <1>1, <1>2, Frames, PublishKeepsStreams
<1>4. FanoutTypeOK'
  BY <1>1, <1>3 DEF IInv, FanoutTypeOK
<1>5. \A t \in Source : stage'[t] \in {"allocated", "registering"} => published'[t] = 0
  BY <1>1 DEF IInv, FanoutTypeOK
<1>6. ASSUME NEW f \in Subscriber, NEW t \in Source
      PROVE  SenderOK(f, t)'
  <2>1. CASE t = s
    BY <1>1, <2>1 DEF SenderOK, IInv, FanoutTypeOK
  <2>2. CASE t # s
    <3>1. followers'[t] \subseteq followers[t] /\ stage'[t] = stage[t]
      BY <1>1, <2>2 DEF IInv, FanoutTypeOK
    <3>. QED  BY <1>1, <1>3, <2>2, <3>1, OthersKeepSenders
  <2>. QED  BY <2>1, <2>2
<1>. QED  BY <1>3, <1>4, <1>5, <1>6 DEF IInv

\* A subscription starts with its Reset and the frame published next.
LEMMA SubscribeStep ==
    ASSUME IInv, NEW f \in Subscriber, NEW s \in Source, NEW k \in Capacities,
           Subscribe(f, s, k)
    PROVE  IInv'
<1>1. /\ follows[f] = {} /\ Registered(s)
      /\ follows' = [follows EXCEPT ![f] = {s}]
      /\ queue' = [queue EXCEPT ![f] = <<Reset>>]
      /\ followers' = [followers EXCEPT ![s] = @ \cup {f}]
      /\ open' = [open EXCEPT ![f] = TRUE]
      /\ joined' = [joined EXCEPT ![f] = published[s]]
      /\ UNCHANGED <<stage, published, last, done>>
  BY DEF Subscribe, Subscribable, Opening
<1>2. last[f] = Nothing /\ ~ done[f]
  BY <1>1 DEF IInv, SubscriptionOK
<1>3. <<Reset>> \in Seq(Frame) /\ <<Reset>> # <<>> /\ Len(<<Reset>>) = 1 /\ <<Reset>>[1] = Reset
  BY Frames
<1>4. FanoutTypeOK'
  <2>1. capacity' \in [Subscriber -> Nat]
    BY FanoutAssumption DEF Subscribe, Room, IInv, FanoutTypeOK
  <2>. QED  BY <1>1, <1>3, <2>1 DEF IInv, FanoutTypeOK
<1>5. \A t \in Source : stage'[t] \in {"allocated", "registering"} => published'[t] = 0
  BY <1>1 DEF IInv
<1>6. ASSUME NEW g \in Subscriber
      PROVE  SubscriptionOK(g)'
  <2>1. CASE g = f
    <3>1. /\ follows'[f] = {s} /\ queue'[f] = <<Reset>> /\ last'[f] = Nothing /\ ~ done'[f]
      BY <1>1, <1>2 DEF IInv, FanoutTypeOK
    <3>2. Continues(queue'[f], last'[f], joined'[f])
      BY <1>3, <3>1 DEF Continues, Succeeds
    <3>. QED  BY <1>3, <2>1, <3>1, <3>2 DEF SubscriptionOK
  <2>2. CASE g # f
    BY <1>1, <2>2 DEF IInv, FanoutTypeOK, SubscriptionOK
  <2>. QED  BY <2>1, <2>2
<1>7. ASSUME NEW g \in Subscriber, NEW t \in Source
      PROVE  SenderOK(g, t)'
  <2>1. SenderOK(g, t)
    BY DEF IInv
  <2>2. CASE g # f
    BY <1>1, <2>1, <2>2 DEF IInv, FanoutTypeOK, SenderOK, CaughtUp, Registered
  <2>3. CASE g = f /\ t # s
    <3>1. f \notin followers'[t]
      BY <1>1, <2>1, <2>3 DEF IInv, FanoutTypeOK, SenderOK
    <3>. QED  BY <2>3, <3>1 DEF SenderOK
  <2>4. CASE g = f /\ t = s
    <3>1. follows'[f] = {s} /\ joined'[f] = published'[s] /\ Registered(s)'
      BY <1>1 DEF IInv, FanoutTypeOK, Registered
    <3>2. EndOf(queue'[f], last'[f]) = Reset
      <4>1. queue'[f] = <<Reset>>
        BY <1>1 DEF IInv, FanoutTypeOK
      <4>. QED  BY <1>3, <4>1 DEF EndOf
    <3>. QED  BY <2>4, <3>1, <3>2 DEF SenderOK, CaughtUp
  <2>. QED  BY <2>2, <2>3, <2>4
<1>. QED  BY <1>4, <1>5, <1>6, <1>7 DEF IInv

\* What is received leaves the queue, and the stream goes on from it.
LEMMA RecvStep ==
    ASSUME IInv, NEW f \in Subscriber, Recv(f)
    PROVE  /\ IInv'
           /\ Succeeds(last'[f], last[f], joined[f]) /\ last'[f] \in Frame
<1>1. /\ open[f] /\ queue[f] # <<>>
      /\ last' = [last EXCEPT ![f] = Head(queue[f])]
      /\ queue' = [queue EXCEPT ![f] = Tail(queue[f])]
      /\ UNCHANGED <<stage, followers, published, follows, capacity, open, done, joined>>
  BY DEF Recv
<1>2. queue[f] \in Seq(Frame) /\ Continues(queue[f], last[f], joined[f])
  BY DEF IInv, FanoutTypeOK, SubscriptionOK
<1>3. /\ Head(queue[f]) \in Frame
      /\ Tail(queue[f]) \in Seq(Frame)
      /\ Succeeds(Head(queue[f]), last[f], joined[f])
      /\ Continues(Tail(queue[f]), Head(queue[f]), joined[f])
      /\ EndOf(Tail(queue[f]), Head(queue[f])) = EndOf(queue[f], last[f])
  BY <1>1, <1>2, QueueMoves
<1>4. last'[f] = Head(queue[f]) /\ queue'[f] = Tail(queue[f])
  BY <1>1 DEF IInv, FanoutTypeOK
<1>5. FanoutTypeOK'
  BY <1>1, <1>3 DEF IInv, FanoutTypeOK
<1>6. ASSUME NEW g \in Subscriber
      PROVE  SubscriptionOK(g)'
  <2>1. SubscriptionOK(g)
    BY DEF IInv
  <2>2. CASE g = f
    BY <1>1, <1>3, <1>4, <2>1, <2>2, Frames DEF SubscriptionOK
  <2>3. CASE g # f
    BY <1>1, <2>1, <2>3 DEF IInv, FanoutTypeOK, SubscriptionOK
  <2>. QED  BY <2>2, <2>3
<1>7. ASSUME NEW g \in Subscriber, NEW t \in Source
      PROVE  SenderOK(g, t)'
  <2>1. SenderOK(g, t)
    BY DEF IInv
  <2>2. EndOf(queue'[g], last'[g]) = EndOf(queue[g], last[g])
    <3>1. CASE g = f
      BY <1>3, <1>4, <3>1
    <3>2. CASE g # f
      BY <1>1, <3>2 DEF IInv, FanoutTypeOK
    <3>. QED  BY <3>1, <3>2
  <2>. QED  BY <1>1, <2>1, <2>2 DEF SenderOK, CaughtUp, Registered
<1>8. \A t \in Source : stage'[t] \in {"allocated", "registering"} => published'[t] = 0
  BY <1>1 DEF IInv
<1>. QED  BY <1>3, <1>4, <1>5, <1>6, <1>7, <1>8 DEF IInv

\* A consumer that is told there is nothing more, or wants no more, holds no
\* subscription.
LEMMA CloseStep ==
    ASSUME IInv, NEW f \in Subscriber, RecvNone(f) \/ Drop(f)
    PROVE  IInv'
<1>1. /\ open[f] /\ open' = [open EXCEPT ![f] = FALSE]
      /\ queue' = queue \/ queue' = [queue EXCEPT ![f] = <<>>]
      /\ done' = done \/ done' = [done EXCEPT ![f] = TRUE]
      /\ UNCHANGED <<stage, followers, published, follows, capacity, last, joined>>
  BY DEF RecvNone, Drop
<1>2. FanoutTypeOK'
  <2>1. <<>> \in Seq(Frame)
    OBVIOUS
  <2>2. queue' \in [Subscriber -> Seq(Frame)]
    BY <1>1, <2>1 DEF IInv, FanoutTypeOK
  <2>3. done' \in [Subscriber -> BOOLEAN] /\ open' \in [Subscriber -> BOOLEAN]
    BY <1>1 DEF IInv, FanoutTypeOK
  <2>. QED  BY <1>1, <2>2, <2>3 DEF IInv, FanoutTypeOK
<1>3. ASSUME NEW g \in Subscriber
      PROVE  SubscriptionOK(g)'
  <2>1. SubscriptionOK(g)
    BY DEF IInv
  <2>2. Continues(<<>>, last[g], joined[g])
    BY DEF Continues
  <2>3. CASE g = f
    <3>1. ~ open'[f] /\ (queue'[f] = queue[f] \/ queue'[f] = <<>>)
      BY <1>1 DEF IInv, FanoutTypeOK
    <3>. QED  BY <1>1, <2>1, <2>2, <2>3, <3>1 DEF SubscriptionOK
  <2>4. CASE g # f
    <3>1. open'[g] = open[g] /\ queue'[g] = queue[g] /\ done'[g] = done[g]
      BY <1>1, <2>4 DEF IInv, FanoutTypeOK
    <3>. QED  BY <1>1, <2>1, <3>1 DEF SubscriptionOK
  <2>. QED  BY <2>3, <2>4
<1>4. ASSUME NEW g \in Subscriber, NEW t \in Source
      PROVE  SenderOK(g, t)'
  <2>1. SenderOK(g, t)
    BY DEF IInv
  <2>2. open'[g] => open[g] /\ queue'[g] = queue[g]
    BY <1>1 DEF IInv, FanoutTypeOK
  <2>. QED  BY <1>1, <2>1, <2>2 DEF SenderOK, CaughtUp, Registered
<1>5. \A t \in Source : stage'[t] \in {"allocated", "registering"} => published'[t] = 0
  BY <1>1 DEF IInv
<1>. QED  BY <1>2, <1>3, <1>4, <1>5 DEF IInv

-----------------------------------------------------------------------------
(* The invariant, and what follows from it.                                 *)

\* The inductive invariant: what is queued continues what was received.
THEOREM FanoutInvariance == Spec => []IInv
<1>1. Init => IInv
  <2>. SUFFICES ASSUME Init PROVE IInv
    OBVIOUS
  <2>1. <<>> \in Seq(Frame) /\ 0 \in 0 .. MaxFrames
    BY FanoutAssumption
  <2>2. FanoutTypeOK
    BY <2>1 DEF Init, FanoutTypeOK
  <2>3. \A f \in Subscriber : SubscriptionOK(f)
    BY DEF Init, SubscriptionOK, Continues
  <2>4. \A f \in Subscriber, s \in Source : SenderOK(f, s)
    BY DEF Init, SenderOK
  <2>. QED  BY <2>2, <2>3, <2>4 DEF Init, IInv
<1>2. ASSUME IInv, [Next]_vars
      PROVE  IInv'
  <2>1. CASE UNCHANGED vars
    <3>1. FanoutTypeOK'
      BY <1>2, <2>1 DEF vars, IInv, FanoutTypeOK
    <3>2. \A f \in Subscriber : SubscriptionOK(f)'
      BY <1>2, <2>1 DEF vars, IInv, SubscriptionOK
    <3>3. \A f \in Subscriber, s \in Source : SenderOK(f, s)'
      BY <1>2, <2>1 DEF vars, IInv, SenderOK, CaughtUp, Registered
    <3>. QED  BY <1>2, <2>1, <3>1, <3>2, <3>3 DEF vars, IInv
  <2>. QED
    BY <1>2, <2>1, RegisterStep, ResetStep, DataStep, EndStep, SubscribeStep, RecvStep, CloseStep
    DEF Next, Opens, Receives
<1>. QED  BY <1>1, <1>2, PTL DEF Spec

\* What a step does to one subscription is what SessionStream lets it do.
LEMMA StepsKeepStreams ==
    ASSUME IInv, [Next]_vars, NEW f \in Subscriber
    PROVE  [Stream(f)!Next]_(Stream(f)!vars)
<1>. USE DEF Stream!vars
<1>1. ASSUME NEW s \in Source, Opens(s) \/ PublishData(s) \/ PublishEnd(s)
      PROVE  UNCHANGED Stream(f)!vars
  BY <1>1 DEF Opens, OpenRegister, OpenReset, PublishData, PublishEnd, consumerVars
<1>2. ASSUME NEW g \in Subscriber, g # f,
             (\E s \in Source, k \in Capacities : Subscribe(g, s, k)) \/ Receives(g) \/ Drop(g)
      PROVE  UNCHANGED Stream(f)!vars
  BY <1>2 DEF IInv, FanoutTypeOK, Subscribe, Receives, Recv, RecvNone, Drop
<1>3. ASSUME NEW s \in Source, NEW k \in Capacities, Subscribe(f, s, k)
      PROVE  Stream(f)!Next
  <2>1. follows[f] = {} /\ follows'[f] = {s} /\ joined'[f] \in Nat
        /\ UNCHANGED <<last[f], done[f]>>
    BY <1>3 DEF Subscribe, IInv, FanoutTypeOK
  <2>. QED  BY <2>1 DEF Stream!Next, Stream!Open
<1>4. ASSUME Recv(f)
      PROVE  [Stream(f)!Next]_(Stream(f)!vars)
  <2>1. Succeeds(last'[f], last[f], joined[f]) /\ last'[f] \in Frame
    BY <1>4, RecvStep
  <2>2. follows[f] # {} /\ ~ done[f] /\ UNCHANGED <<follows[f], joined[f], done[f]>>
    BY <1>4 DEF Recv, IInv, SubscriptionOK
  <2>3. CASE last'[f] = Reset /\ last[f] = Reset
    BY <2>2, <2>3
  <2>4. CASE last'[f] = Reset /\ last[f] = Nothing
    BY <2>2, <2>4 DEF Stream!Next, Stream!Deliver, Stream!Reset, Reset, Stream!Nothing, Nothing
  <2>5. CASE last'[f].kind = "data"
    <3>1. last'[f] = Stream(f)!Data(last'[f].n)
      BY <2>1, <2>5 DEF Frame, Reset, Ended, Data, Stream!Data
    <3>2. /\ last[f].kind \in {"reset", "data"}
          /\ last'[f].n = Stream(f)!NextFrame
      BY <2>1, <2>5, Frames DEF Succeeds, Stream!NextFrame
    <3>3. Stream(f)!Deliver(Stream(f)!Data(Stream(f)!NextFrame))
      BY <2>2, <3>1, <3>2 DEF Stream!Deliver
    <3>. QED  BY <3>3 DEF Stream!Next
  <2>6. CASE last'[f] = Ended /\ last[f].kind \in {"reset", "data"}
    BY <2>2, <2>6 DEF Stream!Next, Stream!Deliver, Stream!Ended, Ended
  <2>. QED  BY <2>1, <2>3, <2>4, <2>5, <2>6 DEF Succeeds
<1>5. ASSUME RecvNone(f)
      PROVE  Stream(f)!Next
  <2>1. /\ follows[f] # {} /\ last[f] # Nothing /\ done'[f] = TRUE
        /\ UNCHANGED <<follows[f], joined[f], last[f]>>
    BY <1>5 DEF RecvNone, IInv, FanoutTypeOK, SubscriptionOK
  <2>. QED  BY <2>1 DEF Stream!Next, Stream!Stop, Stream!Nothing, Nothing
<1>6. ASSUME Drop(f) \/ UNCHANGED vars
      PROVE  UNCHANGED Stream(f)!vars
  BY <1>6 DEF Drop, vars
<1>. QED  BY <1>1, <1>2, <1>3, <1>4, <1>5, <1>6 DEF Next, Receives

\* Every subscription implements SessionStream: a consumer receives a Reset and
\* then its session's frames in order, none missing, up to where it is stopped.
THEOREM StreamsAreGapless == Spec => StreamsHaveNoGap
<1>1. Init => \A f \in Subscriber : Stream(f)!Init
  BY DEF Init, Stream!Init, Stream!Nothing, Nothing
<1>2. IInv /\ [Next]_vars =>
         [\A f \in Subscriber : [Stream(f)!Next]_(Stream(f)!vars)]_vars
  BY StepsKeepStreams, Zenon
<1>. QED  BY <1>1, <1>2, FanoutInvariance, PTL DEF Spec, StreamsHaveNoGap

\* A sender is lost to a frame or to the end of the session followed, and to
\* no other session's.
THEOREM SendersAreLostToTheirOwn == Spec => OnlyItsOwnPeerEndsIt
<1>1. ASSUME IInv, [Next]_vars, NEW f \in Subscriber, NEW s \in Source,
             f \in followers[s], f \notin followers'[s]
      PROVE  /\ follows[f] = {s}
             /\ published'[s] # published[s] \/ stage'[s] # stage[s]
  <2>1. SenderOK(f, s)
    BY <1>1 DEF IInv
  <2>2. ASSUME NEW t \in Source, OpenReset(t) \/ PublishData(t) \/ PublishEnd(t)
        PROVE  published'[s] # published[s] \/ stage'[s] # stage[s]
    <3>1. ASSUME Retain(t) PROVE t = s
      <4>1. f \in followers[t]
        BY <1>1, <3>1 DEF Retain, Reached
      <4>2. SenderOK(f, t)
        BY <1>1, <2>2 DEF IInv
      <4>. QED  BY <1>1, <2>1, <4>1, <4>2 DEF SenderOK
    <3>2. CASE PublishEnd(t)
      <4>1. t = s
        BY <1>1, <3>2 DEF IInv, FanoutTypeOK, PublishEnd, DropAtEnd
      <4>. QED  BY <1>1, <3>2, <4>1 DEF IInv, FanoutTypeOK, PublishEnd
    <3>3. CASE OpenReset(t)
      <4>1. t = s
        BY <1>1, <3>1, <3>3 DEF OpenReset, Publish
      <4>. QED  BY <1>1, <3>3, <4>1 DEF IInv, FanoutTypeOK, OpenReset
    <3>4. CASE PublishData(t)
      <4>1. t = s
        BY <1>1, <3>1, <3>4 DEF PublishData, Publish
      <4>. QED  BY <1>1, <3>4, <4>1 DEF IInv, FanoutTypeOK, PublishData
    <3>. QED  BY <2>2, <3>2, <3>3, <3>4
  <2>3. ASSUME \/ \E t \in Source : OpenRegister(t)
               \/ \E g \in Subscriber : \/ Receives(g) \/ Drop(g)
                                        \/ \E t \in Source, k \in Capacities : Subscribe(g, t, k)
               \/ UNCHANGED vars
        PROVE  FALSE
    <3>1. CASE \E g \in Subscriber, t \in Source, k \in Capacities : Subscribe(g, t, k)
      BY <1>1, <3>1 DEF IInv, FanoutTypeOK, Subscribe
    <3>2. CASE followers' = followers
      BY <1>1, <3>2
    <3>. QED
      BY <2>3, <3>1, <3>2 DEF OpenRegister, Receives, Recv, RecvNone, Drop, vars
  <2>. QED  BY <1>1, <2>1, <2>2, <2>3 DEF SenderOK, Next, Opens
<1>2. IInv /\ [Next]_vars =>
         [\A f \in Subscriber, s \in Source :
            f \in followers[s] /\ f \notin followers'[s] =>
                /\ follows[f] = {s}
                /\ published'[s] # published[s] \/ stage'[s] # stage[s]]_vars
  BY <1>1, Zenon
<1>. QED  BY <1>2, FanoutInvariance, PTL DEF Spec, OnlyItsOwnPeerEndsIt
=============================================================================
