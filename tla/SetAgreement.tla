---------------------------- MODULE SetAgreement ----------------------------
(***************************************************************************)
(* What agreement means for a read that returns a set of coin records: the *)
(* pure functions of src/peer/set_agreement.rs.                            *)
(*                                                                         *)
(* A record is a coin's identity and its chain claim: the height it was    *)
(* created at and the height it was spent at, 0 standing for unspent.  A   *)
(* source's answer is a sequence of records, in the order it sent them;    *)
(* what is filtered out of it leaves a gap, so that an answer is a         *)
(* function on places.  An optional height is a set of at most one.        *)
(***************************************************************************)
EXTENDS Integers, Functions

CONSTANTS
    SettledLag,         \* plurality.rs SETTLED_LAG
    PeakLagEviction     \* plurality.rs PEAK_LAG_EVICTION

ASSUME LagAssumption == SettledLag \in Nat /\ PeakLagEviction \in Nat

Lowest(heights) == {h \in heights : \A o \in heights : h <= o}

\* Mutant: the question is put at the slowest source's very tip.
AtTheTip(as_of, end_height) == Lowest(Lowest(as_of) \cup end_height)

\* Mutant: the subtraction is unchecked.
UncheckedLag(as_of, end_height) ==
    Lowest({h - SettledLag : h \in Lowest(as_of)} \cup end_height)

\* The lowest as-of height less SETTLED_LAG -- none on a shorter chain --
\* clamped down to the caller's end_height.
CommonHeight(as_of, end_height) ==
    LET settled == {h - SettledLag : h \in {l \in Lowest(as_of) : l >= SettledLag}}
    IN  IF settled = {} THEN {} ELSE Lowest(settled \cup end_height)

\* Mutant: any height the source states will do.
AnyAsOf(announced, as_of) == announced # {}

\* announced: the peak of that peer's own announcements, if it made any.
AsOfIsSupported(announced, as_of) ==
    announced # {} /\ \A peak \in announced : peak <= as_of + PeakLagEviction

\* Mutant: a coin spent above h is dropped, not demoted.
DropSpentAbove(items, h) ==
    RestrictValues(items, LAMBDA r : r.created <= h /\ r.spent <= h)

WithSpendDropped(r, h) == IF r.spent > h THEN [r EXCEPT !.spent = 0] ELSE r

NormaliseAt(items, h) ==
    LET existing == RestrictValues(items, LAMBDA r : r.created <= h)
    IN  [i \in DOMAIN existing |-> WithSpendDropped(existing[i], h)]

Coins(items) == {items[i].coin : i \in DOMAIN items}

\* Identity to claim; a coin met again replaces what was recorded of it.
Fingerprint(items) ==
    [c \in Coins(items) |->
        items[CHOOSE i \in DOMAIN items :
                 /\ items[i].coin = c
                 /\ \A j \in DOMAIN items : items[j].coin = c => j <= i]]

Omits(claims, others) ==
    \E c \in DOMAIN claims : c \notin DOMAIN others \/ others[c] # claims[c]

\* Mutant: what the asked source reports must be seconded, and no more.
OneWay(asked, other) == Omits(asked, other)

Contradicts(asked, other) ==
    Omits(asked, other) \/ \E c \in DOMAIN other : c \notin DOMAIN asked

\* window: the caller's start_height, end_height and include_spent.
Project(items, window) ==
    RestrictValues(items, LAMBDA r :
        /\ \A start \in window.start_height : r.created >= start
        /\ window.include_spent \/ r.spent = 0)
=============================================================================
