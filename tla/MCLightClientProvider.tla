----------------------- MODULE MCLightClientProvider -----------------------
(* Two coins of one puzzle hash.  A reliable node starts with one of them    *)
(* created; an unreliable one sends any message there is, among them one of  *)
(* a coin spent before it was created.                                       *)
EXTENDS LightClientProvider, TLC

MCPuzzleHashOf == "a" :> "p" @@ "b" :> "p"

Lived(created, spent) == [created |-> created, spent |-> spent]

MCLives ==
    {Lived({}, {}), Lived({1}, {}), Lived({1}, {2}), Lived({1}, {3}),
     Lived({2}, {}), Lived({3}, {}), Lived({3}, {2})}

MCGenesis == {"a" :> Lived({1}, {}) @@ "b" :> Lived({1}, {})}

MCWishes == {[ids |-> {"a"}, hashes |-> {}],
             [ids |-> {}, hashes |-> {"p"}]}

MCFabrications ==
    {{}, {[coin |-> "a", created |-> {1}, spent |-> {3}]},
     {[coin |-> "a", created |-> {3}, spent |-> {}]}}
=============================================================================
