--------------------------- MODULE MCScalarRouter ---------------------------
(* Four seats, and the operator's own node, a machine at two ports and two  *)
(* more machines that may sit in them.                                      *)
EXTENDS ScalarRouter, TLC

MCHostOf == "p" :> "own" @@ "d1" :> "h1" @@ "d1x" :> "h1" @@ "d2" :> "h2" @@ "d3" :> "h3"
=============================================================================
