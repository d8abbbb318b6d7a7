--------------------------- MODULE Corroboration ---------------------------
(***************************************************************************)
(* Who may second an answer, and when that is enough: the selection rules  *)
(* of src/peer/pool.rs and the floor of src/peer/plurality.rs.             *)
(*                                                                         *)
(* An address is an IP and a port.  Two addresses with one IP are one      *)
(* machine, and a machine has one voice.                                   *)
(***************************************************************************)
EXTENDS Naturals, FiniteSets

CONSTANTS
    Address,                \* socket addresses the pool may hold
    Priority,               \* those of TRUSTED_FULLNODE and the loopback
    Host,                   \* machines, named by their IP
    HostOf,                 \* the machine behind each address
    CorroborationFloor      \* plurality.rs CORROBORATION_FLOOR

ASSUME VoicesAssumption ==
    /\ Priority \subseteq Address
    /\ HostOf \in [Address -> Host]
    /\ CorroborationFloor \in Nat \ {0}

Discovered == Address \ Priority

IsCorroborator(a, asked) == HostOf[a] # HostOf[asked] /\ a \in Discovered

\* Mutant: every entry that qualifies, however many of them one host has.
EveryPort(addresses, asked) == {{a \in addresses : IsCorroborator(a, asked)}}

\* The panels `corroborators` may return: one address for each host that has a
\* corroborator.  The code keeps the host's first entry in seating order.
Panels(addresses, asked) ==
    LET voices == {a \in addresses : IsCorroborator(a, asked)}
    IN  {p \in SUBSET voices :
            \A a \in voices : Cardinality({b \in p : HostOf[b] = HostOf[a]}) = 1}

\* CorroborationReadiness::Armed
Armed(addresses, asked) ==
    \A p \in Panels(addresses, asked) : Cardinality(p) >= CorroborationFloor

\* Mutant: the round's own answers are enough.
AgreedAlone(armed, agreed) == agreed >= CorroborationFloor

\* mod.rs `corroborated`: membership before the round AND agreement within it.
Corroborated(armed, agreed) == armed /\ agreed >= CorroborationFloor
=============================================================================
