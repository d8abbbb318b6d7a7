---------------------------- MODULE MCLightClient ----------------------------
(* One address, seated by one session after another, and one coin, to be    *)
(* subscribed to by its id or by its puzzle hash.  Messages name no coins:  *)
(* what becomes of those is MCLightClientProvider's business.               *)
EXTENDS LightClient, TLC

MCPuzzleHashOf == "a" :> "p"

MCWishes == {[ids |-> {"a"}, hashes |-> {}], [ids |-> {}, hashes |-> {"p"}]}
=============================================================================
