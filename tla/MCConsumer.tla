---------------------------- MODULE MCConsumer ----------------------------
(***************************************************************************)
(* An instance of Consumer for TLC.  The new branch has replaced the first *)
(* of two blocks; the second, which has the transactions, is not stored    *)
(* yet or belongs to the old branch.                                       *)
(***************************************************************************)
EXTENDS Consumer

CONSTANTS t1, t2

MCRules == {<<"pending", "confirmed">>, <<"confirmed", "reverted">>}

MCBlockOf == [t \in Txs |-> 2]

(* No transaction is stored yet, or both are.                              *)
MCContents ==
    { (1 :> "new") @@ (2 :> None) @@ (t1 :> None) @@ (t2 :> None),
      (1 :> "new") @@ (2 :> "old") @@ (t1 :> "pending") @@ (t2 :> "confirmed") }
===========================================================================
