------------------------------ MODULE MCClient ------------------------------
(* Four seats, and the operator's own node, a machine at two ports and two  *)
(* more machines that may sit in them; three of the four machines may lie.  *)
(* A push and a read meet two discovered peers and the operator's node, one *)
(* of the former unreliable.  A new client has three seats, two nodes of    *)
(* its operator's and three introduced ones, two of them neighbours.        *)
EXTENDS Client, TLC

MCHostOf == "p" :> "own" @@ "d1" :> "h1" @@ "d1x" :> "h1" @@ "d2" :> "h2" @@ "d3" :> "h3"

MCSubnetOf == "own" :> 1 @@ "loop" :> 0 @@ "n1" :> 2 @@ "n2" :> 2 @@ "n3" :> 3

MCBornOf == "m" :> {1, 2} @@ "n" :> {2}
=============================================================================
