---------------------------- MODULE MCRootScope ----------------------------
(* Two servers in two rollups, two transaction types, and layouts that    *)
(* differ in mode and in the types each rollup offers.                    *)
EXTENDS RootScope, TLC

MCServers == {"s1", "s2"}
MCRollups == {"r1", "r2"}
MCTTs == {"Web", "Background"}

\* A central layout; a newer one where r1 no longer offers the default;
\* a single-server layout.
MCLayouts ==
    { [central |-> TRUE, defaultTransactionType |-> "Web",
       serverRollups |-> ("r1" :> <<"Web", "Background">>) @@ ("r2" :> <<"Background">>)
                          @@ ("s1" :> <<"Web">>)],
      [central |-> TRUE, defaultTransactionType |-> "Web",
       serverRollups |-> ("r1" :> <<"Background">>) @@ ("s2" :> <<"Background", "Web">>)],
      [central |-> FALSE, defaultTransactionType |-> "Web",
       serverRollups |-> ("" :> <<"Web">>)] }

=============================================================================
