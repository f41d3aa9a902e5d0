---------------------------- MODULE MCNodeManager ----------------------------
(* Instance of NodeManager: weights for two nodes.                         *)
EXTENDS NodeManager

MCWeights == {<<0, 0>>, <<1, 2>>, <<2, 0>>}

=============================================================================
