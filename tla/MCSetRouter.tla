----------------------------- MODULE MCSetRouter -----------------------------
(* Three machines, a chain of six blocks and four coins, one of which no    *)
(* chain holds.  The branches part after block 3: on one of them coin "a"   *)
(* is spent at 4 and coin "c" created at 5, on the other "a" is spent at 5  *)
(* and "b" at 4.  The coinset tier has a node of its own.                   *)
EXTENDS SetRouter, TLC

CONSTANTS d1, d2, d3, h1, h2, h3

Life(created, spent) == [created |-> created, spent |-> spent]

MCMain == "a" :> Life(1, 4) @@ "b" :> Life(3, 0) @@ "c" :> Life(5, 0) @@ "x" :> Life(0, 0)
MCOrphan == "a" :> Life(1, 5) @@ "b" :> Life(3, 4) @@ "c" :> Life(0, 0) @@ "x" :> Life(0, 0)

MCHostOf == d1 :> h1 @@ d2 :> h2 @@ d3 :> h3

\* The machines that are never faulty are interchangeable, with their addresses.
Symmetry ==
    {p @@ (h2 :> HostOf[p[d2]] @@ h3 :> HostOf[p[d3]]) : p \in Permutations({d2, d3})}

Said(c, created, spent) == [coin |-> c, created |-> created, spent |-> spent]

\* Everything left out, a spend left out, a coin invented, a coin unspent.
MCFabrications ==
    {{}, {Said("a", 1, 4)}, {Said("a", 1, 0), Said("b", 3, 0), Said("x", 1, 0)},
     {Said("a", 1, 0), Said("b", 3, 0)}}

Asking(start, end, spent) ==
    [start_height |-> start, end_height |-> end, include_spent |-> spent]

MCWindows == {Asking({}, {}, TRUE), Asking({3}, {2}, FALSE), Asking({4}, {}, FALSE)}
MCRecentWindow == {Asking({5}, {}, TRUE)}
MCUnspentWindow == {Asking({}, {}, FALSE)}
=============================================================================
