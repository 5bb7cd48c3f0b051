--------------------------- MODULE MCPeerRegistry ---------------------------
(***************************************************************************)
(* Small instances of PeerRegistry: every pair of the Primary's operations   *)
(* with an addition or a change of the synchronization settings; operations *)
(* that change tokens, of either side; those that restart the services.     *)
(***************************************************************************)
EXTENDS PeerRegistry

CONSTANTS a, b

Ops == <<[kind |-> "claim", sat |-> a], [kind |-> "rotate", sat |-> a],
         [kind |-> "unpair", sat |-> a], [kind |-> "remove", sat |-> a],
         [kind |-> "remove", sat |-> b], [kind |-> "refresh", sat |-> a],
         [kind |-> "toggle", sat |-> a], [kind |-> "settings", sat |-> a],
         [kind |-> "sync", sat |-> a], [kind |-> "setup", sat |-> a],
         [kind |-> "push", sat |-> a], [kind |-> "dialog", sat |-> a],
         [kind |-> "reset", sat |-> a]>>

Pairs == {g \in [{1, 2} -> DOMAIN Ops] : g[1] <= g[2]}
With(ops, third) ==
    {<<Ops[g[1]], Ops[g[2]], Ops[n]>> : g \in {h \in Pairs : h[1] \in ops /\ h[2] \in ops}, n \in third}
TokenOps == {1, 2, 3, 4, 10, 11, 12, 13}
MCPrograms == With(1..10, {1, 9}) \cup With(TokenOps, {1, 11})
MCRestartPrograms == With({1, 5, 8, 9, 10}, {9})

MCRegistries == {<<>>, <<b, a>>}
=============================================================================
