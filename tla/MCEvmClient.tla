---------------------------- MODULE MCEvmClient ----------------------------
(* Instance of EvmClient: weights for two nodes, a single request and a    *)
(* batch.                                                                  *)
EXTENDS EvmClient

MCWeights == {<<0, 0>>, <<1, 2>>, <<2, 0>>}

MCRequests == { [batch |-> FALSE, numbers |-> <<1>>],
                [batch |-> TRUE, numbers |-> <<2, 3>>] }

=============================================================================
