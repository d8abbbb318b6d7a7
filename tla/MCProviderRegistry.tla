------------------------- MODULE MCProviderRegistry -------------------------
(* Every pair of sources, the operator's node and a coinset source the      *)
(* operator vouches for among them, and three triples; priorities that      *)
(* agree with the order of registration, that reverse it, and that tie.     *)
EXTENDS ProviderRegistry

MCCoinset == Register("coinset", 30, {})
MCVouchedFor == Register("coinset", 30, {"Trusted"})
MCRouter == Register("router", 10, {})
MCPeers == Register("peers", 10, {})
MCNode == Register("node", 20, {})
MCDoubtedNode == Register("node", 20, {"Untrusted"})

MCPairs == [1 .. 2 -> {MCCoinset, MCVouchedFor, MCRouter, MCPeers, MCNode}]
MCTriples ==
    {<<MCCoinset, MCRouter, MCPeers>>, <<MCPeers, MCDoubtedNode, MCCoinset>>,
     <<MCNode, MCPeers, MCVouchedFor>>}
MCRegistries == MCPairs \cup MCTriples
=============================================================================
