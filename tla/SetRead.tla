------------------------------ MODULE SetRead ------------------------------
(***************************************************************************)
(* One population read of src/peer/mod.rs: read_set_corroborated, over the *)
(* puzzle-hash walk (do_puzzle_hash_query) or the read by coin id          *)
(* (do_coin_ids_query with peer_as_of), which take the height an answer is *)
(* held to from different places.                                          *)
(*                                                                         *)
(* Each step finds the pool as other calls have left it: any set of seats  *)
(* the pool's contract allows.  What the read does to the pool is the set  *)
(* of addresses it ejects.                                                 *)
(*                                                                         *)
(* The chain is fixed and its nodes are not at one height.  A node may     *)
(* still be on a branch that is orphaned, as long as that branch is no     *)
(* deeper than SETTLED_LAG; blocks land while it is being read.  A walk is *)
(* two pages in the order of the coins' last change, each page as the node *)
(* stood when it was asked for.                                            *)
(***************************************************************************)
EXTENDS Corroboration, SetAgreement, SequencesExt

CONSTANTS
    MaxPeers,       \* PeerPool.max_peers
    Coin,           \* coins at the puzzle hash
    Main, Orphan,   \* the two branches: a coin's created and spent height, or 0
    ForkAt,         \* the last height they have in common
    Tips,           \* heights the nodes may be at
    Peaks,          \* peaks they may have announced, 0 for none
    Drift,          \* bound: blocks that land while one node is read
    Faulty,         \* hosts that answer with a fabrication
    Fabrications,   \* sets of records they answer with ...
    FabricatedAsOf, \* ... and the heights they state
    Windows         \* what callers ask for: start, end and include_spent

Record == [coin : Coin, created : Nat, spent : Nat]

\* A node takes no more blocks while it is read than it takes for a height to
\* settle; on what lands in between the two would otherwise stand or fall.
ASSUME SetReadAssumption ==
    /\ Faulty \subseteq Host
    /\ ForkAt \in Nat /\ Drift \in Nat /\ Drift <= SettledLag
    /\ Tips \subseteq Nat /\ Peaks \subseteq Nat /\ FabricatedAsOf \subseteq Nat
    /\ IsFiniteSet(Coin)
    /\ {Main, Orphan} \subseteq [Coin -> [created : Nat, spent : Nat]]
    /\ \A c \in Coin, h \in 1 .. ForkAt :
          /\ Main[c].created = h <=> Orphan[c].created = h
          /\ Main[c].spent = h <=> Orphan[c].spent = h
    /\ \A f \in Fabrications : f \subseteq Record /\ IsFiniteSet(f)
    /\ \A w \in Windows : w.end_height \subseteq Nat

VARIABLES
    stage,      \* "pick", "readiness", "first", "select", "round" or "done"
    anchor,     \* its height: "wire", the walk's last page, or "peak", announced
    window,     \* what the caller asked for
    asked,      \* the address picked, if any
    armed,      \* the readiness read before the first answer
    first,      \* the asked peer's set, if it gave one
    waiting,    \* corroborators asked that have not answered
    others,     \* the corroborators' sets, each with its address
    failed,     \* corroborators whose read failed
    ejected,    \* addresses the read has ejected from the pool
    verdict     \* the grade, the set and its height

vars == <<stage, anchor, window, asked, armed, first, waiting, others, failed, ejected, verdict>>

Pools == {seats \in SUBSET Address : IsFiniteSet(seats) /\ Cardinality(seats) <= MaxPeers}
NoVerdict == [grade |-> "none", items |-> <<>>, height |-> 0]

-----------------------------------------------------------------------------
(* What the nodes answer.                                                   *)

\* The records of a node on the branch, at height t.
View(branch, t) ==
    {[coin |-> c, created |-> branch[c].created,
      spent |-> IF branch[c].spent <= t THEN branch[c].spent ELSE 0] :
        c \in {d \in Coin : branch[d].created \in 1 .. t}}

LastChange(r) == IF r.spent > r.created THEN r.spent ELSE r.created

\* A branch a node at height t may be on.
BranchesAt(t) == IF t <= ForkAt + SettledLag THEN {Main, Orphan} ELSE {Main}

\* Mutant: the wire request carries the caller's own filter.
UnspentOnly(r) == r.spent = 0

\* CoinStateFilters: spent coins are asked for whatever the caller wants.
Wanted(r) == TRUE

\* The pages of a walk: up to last change p at height t, the rest at height u.
Walk(branch, t, u, p) ==
    SetToSeq({r \in View(branch, t) : Wanted(r) /\ LastChange(r) <= p})
        \o SetToSeq({r \in View(branch, u) : Wanted(r) /\ LastChange(r) > p})

Announced(peak) == IF peak = 0 THEN {} ELSE {peak}

\* One node while it is read: its branch, and its heights before and after.
Visits ==
    {v \in [branch : {Main, Orphan}, from : Tips, to : Tips] :
        v.from <= v.to /\ v.to <= v.from + Drift /\ v.branch \in BranchesAt(v.to)}

\* The announced peaks that support a height; of those a source may have made,
\* its read records the highest, the one that is hardest on NotDraggedDown.
Supporting(h) == {k \in Peaks : AsOfIsSupported(Announced(k), h)}

\* do_puzzle_hash_query: the last page's height, if the peer's peak supports it.
WalksOf(v) ==
    {[items |-> Walk(v.branch, v.from, v.to, p), as_of |-> v.to,
      announced |-> Max(Supporting(v.to) \cap 1 .. v.to)] : p \in {p \in Tips : p <= v.from}}
Walks == UNION {WalksOf(v) : v \in {v \in Visits : Supporting(v.to) \cap 1 .. v.to # {}}}

\* do_coin_ids_query and then peer_as_of: the peak the pool holds afterwards.
CoinIdReadsOf(v) ==
    {[items |-> SetToSeq(View(v.branch, v.from)), as_of |-> k, announced |-> k] :
        k \in {k \in Peaks : k <= v.to /\ Announced(k) # {}}}
CoinIdReads == UNION {CoinIdReadsOf(v) : v \in Visits}

FabricationsAt(h) ==
    {[items |-> SetToSeq(f), as_of |-> h, announced |-> Max(Supporting(h))] : f \in Fabrications}
FabricatedReads ==
    UNION {FabricationsAt(h) : h \in {h \in FabricatedAsOf \cup Peaks :
               Supporting(h) # {} /\ (anchor = "wire" \/ h \in Peaks \ {0})}}

Reads(a) ==
    IF HostOf[a] \in Faulty THEN FabricatedReads
    ELSE IF anchor = "wire" THEN Walks ELSE CoinIdReads

-----------------------------------------------------------------------------
(* The read.                                                                *)

Init ==
    /\ stage = "pick"
    /\ anchor \in {"wire", "peak"}
    /\ window \in Windows
    /\ asked = {}
    /\ armed = FALSE
    /\ first = {}
    /\ waiting = {} /\ others = {} /\ failed = {} /\ ejected = {}
    /\ verdict = NoVerdict

EndWith(grade, items, height) ==
    /\ stage' = "done"
    /\ verdict' = [grade |-> grade, items |-> items, height |-> height]

Pick ==
    /\ stage = "pick"
    /\ \E pool \in Pools :
          IF pool = {}
          THEN EndWith("failed", <<>>, 0) /\ UNCHANGED asked
          ELSE /\ \E a \in pool : asked' = {a}
               /\ stage' = "readiness"
               /\ UNCHANGED verdict
    /\ UNCHANGED <<anchor, window, armed, first, waiting, others, failed, ejected>>

ReadReadiness ==
    /\ stage = "readiness"
    /\ \E a \in asked, pool \in Pools : armed' = Armed(pool, a)
    /\ stage' = "first"
    /\ UNCHANGED <<anchor, window, asked, first, waiting, others, failed, ejected, verdict>>

FirstAnswers ==
    /\ stage = "first"
    /\ \E a \in asked : \E set \in Reads(a) : first' = {set}
    /\ stage' = "select"
    /\ UNCHANGED <<anchor, window, asked, armed, waiting, others, failed, ejected, verdict>>

\* Rejected, timed out, or held to a height its announcements do not support.
FirstFails ==
    /\ stage = "first"
    /\ ejected' = asked
    /\ EndWith("failed", <<>>, 0)
    /\ UNCHANGED <<anchor, window, asked, armed, first, waiting, others, failed>>

SelectCorroborators ==
    /\ stage = "select"
    /\ \E a \in asked, pool \in Pools : waiting' \in Panels(pool, a)
    /\ stage' = "round"
    /\ UNCHANGED <<anchor, window, asked, armed, first, others, failed, ejected, verdict>>

CorroboratorAnswers(a) ==
    /\ waiting' = waiting \ {a}
    /\ \E set \in Reads(a) : others' = others \cup {[address |-> a, set |-> set]}
    /\ UNCHANGED <<stage, anchor, window, asked, armed, first, failed, ejected, verdict>>

CorroboratorFails(a) ==
    /\ waiting' = waiting \ {a}
    /\ failed' = failed \cup {a}
    /\ UNCHANGED <<stage, anchor, window, asked, armed, first, others, ejected, verdict>>

Answers == first \cup {o.set : o \in others}
AsOfHeights == {set.as_of : set \in Answers}

\* Mutant: a window that has not settled is answered like any other.
AlwaysSettled(h) == TRUE

WindowHasSettled(h) == \A start \in window.start_height : start <= h

\* The verdict at the common height h on the asked peer's set.
GradeAt(set, h) ==
    LET claims(s) == Fingerprint(NormaliseAt(s.items, h))
        agreed == {o \in others : ~ Contradicts(claims(set), claims(o.set))}
        items == Project(NormaliseAt(set.items, h), window)
    IN  IF agreed # others
        THEN EndWith("disagree", <<>>, h)
        ELSE EndWith(IF WindowHasSettled(h) /\ Corroborated(armed, Cardinality(agreed))
                     THEN "corroborated" ELSE "uncorroborated", items, h)

Grade ==
    /\ stage = "round" /\ waiting = {}
    /\ ejected' = failed
    /\ LET common == CommonHeight(AsOfHeights, window.end_height)
       IN  IF common = {}
           THEN EndWith("refused", <<>>, 0)
           ELSE \E h \in common, set \in first : GradeAt(set, h)
    /\ UNCHANGED <<anchor, window, asked, armed, first, waiting, others, failed>>

Next ==
    \/ Pick
    \/ ReadReadiness
    \/ FirstAnswers
    \/ FirstFails
    \/ SelectCorroborators
    \/ \E a \in waiting : CorroboratorAnswers(a) \/ CorroboratorFails(a)
    \/ Grade

Spec == Init /\ [][Next]_vars

-----------------------------------------------------------------------------
(* Properties.                                                              *)

\* The sources the verdict rests on.
Sources == asked \cup {o.address : o \in others}
Reliable == {a \in Sources : HostOf[a] \notin Faulty}

\* The chain at h, as claims.
TruthAt(h) == Fingerprint(SetToSeq(View(Main, h)))

IsCorroborated == verdict.grade = "corroborated"

\* If one of the sources of a corroborated answer is a node in good order, the
\* claims agreed upon are the chain as it stood at the height the answer
\* carries: nothing omitted, nothing added, no spend from above that height --
\* whatever the other sources said and at whatever heights the nodes were.
AgreedClaimsAreTheChain ==
    IsCorroborated /\ Reliable # {} =>
        \A set \in first :
            Fingerprint(NormaliseAt(set.items, verdict.height)) = TruthAt(verdict.height)

\* Nodes in good order never appear to contradict each other, however far
\* apart they are, whichever of them is on a branch about to be orphaned, and
\* whatever lands while they are read.
NodesInOrderNeverDisagree == verdict.grade = "disagree" => Reliable # Sources

\* No source drags the answer to a height its own announcements do not
\* support: the height is SETTLED_LAG and PEAK_LAG_EVICTION below the lowest
\* peak announced, or the caller's own end_height, and never lower.
NotDraggedDown ==
    IsCorroborated =>
        \/ verdict.height \in window.end_height
        \/ \E set \in Answers :
               set.announced <= verdict.height + SettledLag + PeakLagEviction

\* A corroborated set, an empty one above all, is about a window that has
\* settled at the height the set carries; one without a start begins at 0, and
\* on a chain shorter than SETTLED_LAG no window has settled.
WindowIsSettled ==
    IsCorroborated => \A start \in {0} \cup window.start_height : start <= verdict.height

\* SetAnswer::Corroborated.items: "the agreed set, with the caller's projection
\* applied".  What is returned is what was agreed upon, one record for a coin.
ItemsAreTheAgreedSet ==
    IsCorroborated =>
        \A set \in first :
            LET agreed == Fingerprint(NormaliseAt(set.items, verdict.height))
            IN  /\ Cardinality(Coins(verdict.items)) = Cardinality(DOMAIN verdict.items)
                /\ \A i \in DOMAIN verdict.items :
                       verdict.items[i] = agreed[verdict.items[i].coin]
=============================================================================
