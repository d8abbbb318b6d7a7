-------------------------- MODULE PoolConstruction --------------------------
(***************************************************************************)
(* How a new client gets its peers: ChiaQuery::new of src/lib.rs over      *)
(* fill_toward_capacity of src/peer/pool.rs.  Rounds of concurrent dials,  *)
(* each round judged as a whole, until the pool is full, a round seats     *)
(* nobody or the rounds are used up.                                       *)
(*                                                                         *)
(* The dials of a round know nothing of each other: all of them try the    *)
(* same addresses in the same order, and any of them may end at any        *)
(* address or at none.                                                     *)
(***************************************************************************)
EXTENDS Naturals, FiniteSets, FiniteSetsExt

CONSTANTS
    Priority,           \* the trusted node and the loopback, as configured
    Introduced,         \* what the DNS introducers return, whatever it is
    Local,              \* addresses on this host or its network
    SubnetOf,           \* the routing prefix of each address
    MaxPeers            \* PeerPool.max_peers

VARIABLES
    required,           \* PeerRequirement: is a client without peers of no use?
    seats,              \* the pool's entries: address and origin
    rounds,             \* rounds dialled so far
    status,             \* "filling", "filled", "open" (Ok) or "failed" (Err)
    reached,            \* history: the candidates of the last round
    fruitful            \* history: has every round reached somebody new, if anybody was left?

vars == <<required, seats, rounds, status, reached, fruitful>>

PrioritySlots == 2      \* plurality::PRIORITY_SLOTS

FillRounds == PrioritySlots + 2

DialsFor(wanted) == 2 * wanted

Wanted == MaxPeers - Cardinality(seats)
Held == {c.address : c \in seats}

Init == seats = {} /\ rounds = 0 /\ status = "filling" /\ reached = {} /\ fruitful = TRUE

-----------------------------------------------------------------------------
(* What a dial may return.                                                  *)

\* priority_addresses: the preferred addresses, whose dials come first.
Offered == Priority \ Held

\* Mutant: an introduced address is dialled whatever it names.
Whatever == Introduced \ Held

\* Introduced addresses are neither local nor preferred ones.
Discoverable == Introduced \ (Local \cup Offered \cup Held)

Dialled ==
    [address : Offered, origin : {"Priority"}] \cup [address : Discoverable, origin : {"Discovered"}]

-----------------------------------------------------------------------------
(* Judging a round: candidates come in the order of their handshakes.       *)

IsPriority(c) == c.origin = "Priority"
IsDiscovered(c) == c.origin = "Discovered"

\* The operator's own nodes come first, and the faster before the slower.
MoreCredible(cs, i, j) ==
    \/ IsPriority(cs[i]) /\ IsDiscovered(cs[j])
    \/ cs[i].origin = cs[j].origin /\ i < j

\* Of the dials that reached one address, the most credible.
Distinct(cs) ==
    {i \in DOMAIN cs :
        \A j \in DOMAIN cs : cs[j].address = cs[i].address => ~ MoreCredible(cs, j, i)}

\* The discovered candidates among those of best that are of i's subnet.
Bucket(cs, best, i) ==
    {j \in best : IsDiscovered(cs[j]) /\ SubnetOf[cs[j].address] = SubnetOf[cs[i].address]}

\* Mutant: the candidates in the order of their handshakes alone.
Unspread(cs, best, i, j) == i < j

\* One candidate of each subnet, then a second of each, and so on; the subnets
\* in the order of their fastest candidates.
SpreadAcrossSubnets(cs, best, i, j) ==
    LET Pass(k) == Cardinality({f \in Bucket(cs, best, k) : f < k})
        SubnetIsFaster == \E f \in Bucket(cs, best, i) : \A g \in Bucket(cs, best, j) : f < g
    IN Pass(i) < Pass(j) \/ (Pass(i) = Pass(j) /\ SubnetIsFaster)

Precedes(cs, best, i, j) ==
    IF IsDiscovered(cs[i]) /\ IsDiscovered(cs[j])
    THEN SpreadAcrossSubnets(cs, best, i, j)
    ELSE MoreCredible(cs, i, j)

\* Mutant: the slots are dealt out before the copies of a peer are dropped.
TruncateFirst(cs, slots) ==
    {cs[i] : i \in {k \in DOMAIN cs : Cardinality({j \in DOMAIN cs : MoreCredible(cs, j, k)}) < slots}}

\* Those with fewer than slots candidates before them.
MostCredible(cs, slots) ==
    LET best == Distinct(cs)
    IN {cs[i] : i \in {k \in best : Cardinality({j \in best : Precedes(cs, best, j, k)}) < slots}}

\* No round admits an address twice or beyond capacity, so whoever is kept is
\* seated.
Round ==
    /\ status = "filling" /\ rounds < FillRounds /\ Wanted > 0
    /\ \E n \in 0 .. DialsFor(Wanted) : \E candidates \in [1 .. n -> Dialled] :
          LET kept == MostCredible(candidates, Wanted)
          IN /\ seats' = seats \cup kept
             /\ status' = IF kept = {} THEN "filled" ELSE "filling"
             /\ reached' = {candidates[i] : i \in DOMAIN candidates}
             /\ fruitful' = (fruitful /\ (n > 0 \/ Dialled = {}))
    /\ rounds' = rounds + 1
    /\ UNCHANGED required

\* PeerPool::new: having no peer is fatal to a client that needs one.
Open ==
    /\ \/ status = "filled"
       \/ status = "filling" /\ (rounds = FillRounds \/ Wanted = 0)
    /\ status' = IF seats = {} /\ required THEN "failed" ELSE "open"
    /\ UNCHANGED <<required, seats, rounds, reached, fruitful>>

Next == Round \/ Open

Spec == Init /\ [][Next]_vars

-----------------------------------------------------------------------------
(* Properties.                                                              *)

Strangers(cs) == {c \in cs : IsDiscovered(c)}

\* The operator's own nodes do not keep strangers out: if no round comes home
\* empty-handed, the pool that opens holds two discovered peers, or as many as
\* its other seats or the introducers allow.  Two are what corroboration needs,
\* and each preferred address may use up a round of its own: the arithmetic
\* behind FILL_ROUNDS.
StrangersGetSeats ==
    status \in {"open", "failed"} /\ fruitful =>
        Cardinality(Strangers(seats)) >=
            Min({2, MaxPeers - Cardinality(seats \ Strangers(seats)),
                 Cardinality(Introduced \ (Local \cup Priority))})

\* Whatever copies of one peer the dials of a round bring home, each seat to
\* fill goes to another of the addresses reached, the discovered ones among
\* those who get one come from as many subnets as there were, and none of them
\* is this host or a node preferred already under another name.
EverySeatBuysAVoice ==
    [][rounds' # rounds =>
          LET new == seats' \ seats
              Subnets(cs) == {SubnetOf[c.address] : c \in Strangers(cs)}
          IN /\ Cardinality(new) = Min({Wanted, Cardinality({c.address : c \in reached'})})
             /\ Cardinality(Subnets(new)) =
                    Min({Cardinality(Strangers(new)), Cardinality(Subnets(reached'))})
             /\ \A c \in Strangers(new) : c.address \notin Local \cup Priority]_vars
=============================================================================
