---------------------------- MODULE PoolContract ----------------------------
(***************************************************************************)
(* What the peer pool promises the code that reads through it, and no      *)
(* more: a set of seats, each a connection named by its address and its    *)
(* session, that changes only by ONE connection taking a free seat or by   *)
(* some connections leaving.  Nobody is seated at an address that is       *)
(* already held, and the pool never grows past max_peers.                  *)
(*                                                                         *)
(* PeerPool implements this; the modules of the readers take it as the     *)
(* environment they run in instead of the pool's maintenance in full.      *)
(***************************************************************************)
EXTENDS Naturals, FiniteSets

CONSTANTS
    Address,    \* socket addresses a dial can reach
    Session,    \* identities of connections, one per successful dial
    MaxPeers    \* PeerPool.max_peers

VARIABLE held   \* the seats: a set of sources

\* frames.rs: a FrameSource, the identity of one connection.
Source == [address : Address, session : Session]

SeatedAt(a) == \E s \in held : s.address = a

TypeOK == held \subseteq Source

-----------------------------------------------------------------------------
Init == held = {}

\* PeerPool::admit, as its callers see it.
Join(s) ==
    /\ Cardinality(held) < MaxPeers
    /\ ~ SeatedAt(s.address)
    /\ held' = held \cup {s}

\* Every eviction and ejection: some of the seats are vacated at once.
Leave(gone) ==
    /\ gone # {}
    /\ held' = held \ gone

Next ==
    \/ \E s \in Source : Join(s)
    \/ \E gone \in SUBSET held : Leave(gone)

Spec == Init /\ [][Next]_held
=============================================================================
