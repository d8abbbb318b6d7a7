----------------------------- MODULE MCPeerPool -----------------------------
(* The peer pool on small instances.  The discovered addresses are          *)
(* interchangeable, nothing orders them, and so are the callers of the      *)
(* instance that uses the symmetry: all of them see their calls through.    *)
EXTENDS PeerPool, TLC

Symmetry == Permutations(Callers) \cup Permutations(Address \ Priority)
=============================================================================
