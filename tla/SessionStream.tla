--------------------------- MODULE SessionStream ---------------------------
(***************************************************************************)
(* What one frame subscription promises its consumer.  It is opened on one *)
(* session, at the point that session has then reached; it delivers a      *)
(* Reset first -- repeated perhaps, before anything else -- and then every *)
(* frame the session publishes from that point on, each one once, in order *)
(* and with none missing; it may say that the session has ended, after    *)
(* which it delivers nothing more; and it may stop at any point -- a       *)
(* consumer that falls behind is stopped, never served a stream with a     *)
(* hole in it.                                                             *)
(***************************************************************************)
EXTENDS Naturals

CONSTANT Source

VARIABLES
    follows,    \* the session followed, as a set of at most one
    joined,     \* frames that session had published when it was joined
    last,       \* the last frame delivered: its kind and its number
    done        \* has the consumer been told there is nothing more?

vars == <<follows, joined, last, done>>

Nothing == [kind |-> "nothing", n |-> 0]
Reset == [kind |-> "reset", n |-> 0]
Data(n) == [kind |-> "data", n |-> n]
Ended == [kind |-> "ended", n |-> 0]

Init == follows = {} /\ joined = 0 /\ last = Nothing /\ done = FALSE

Open(s) ==
    /\ follows = {}
    /\ follows' = {s}
    /\ joined' \in Nat
    /\ UNCHANGED <<last, done>>

\* The number of the frame that must come next.
NextFrame == IF last.kind = "data" THEN last.n + 1 ELSE joined + 1

Deliver(f) ==
    /\ follows # {} /\ ~ done
    /\ \/ f = Reset /\ last = Nothing
       \/ f = Data(NextFrame) /\ last.kind \in {"reset", "data"}
       \/ f = Ended /\ last.kind \in {"reset", "data"}
    /\ last' = f
    /\ UNCHANGED <<follows, joined, done>>

Stop ==
    /\ follows # {}
    /\ last # Nothing
    /\ done' = TRUE
    /\ UNCHANGED <<follows, joined, last>>

Next ==
    \/ \E s \in Source : Open(s)
    \/ \E f \in {Reset, Data(NextFrame), Ended} : Deliver(f)
    \/ Stop

Spec == Init /\ [][Next]_vars
=============================================================================
