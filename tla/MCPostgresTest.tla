--------------------------- MODULE MCPostgresTest ---------------------------
(* testx and pgxutil for TLC: a call of TxValue, one inside it, and the test's
   own transaction, on pools of one, two and three connections. *)
EXTENDS PostgresTest, TLC

CONSTANTS outer, inner, test

MCParent == outer :> Root @@ inner :> outer @@ test :> Root
=============================================================================
