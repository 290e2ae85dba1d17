------------------------------ MODULE MCTxPool ------------------------------
(***************************************************************************)
(* The transaction pool for TLC.  Account l is used by this node's users   *)
(* alone, r by peers alone, m by both.  One branch mines a transaction of  *)
(* r and then outdates one of l, the other mines one of l, then one of r   *)
(* that leaves r without the funds for its next.                           *)
(***************************************************************************)
EXTENDS TxPool

MCTx(a, n, p, c, k) == [from |-> a, nonce |-> n, price |-> p, cost |-> c, kind |-> k]

L0 == MCTx("l", 0, 1, 1, "normal")
L0x == MCTx("l", 0, 2, 1, "normal")
L1 == MCTx("l", 1, 1, 1, "pos")
L2 == MCTx("l", 2, 1, 1, "normal")
R0 == MCTx("r", 0, 1, 1, "normal")
R1 == MCTx("r", 1, 2, 2, "normal")
M0 == MCTx("m", 0, 1, 1, "normal")
M1 == MCTx("m", 1, 2, 1, "privacy")

MCAccount == {"l", "r", "m"}
MCTxs == {L0, L0x, L1, L2, R0, R1, M0, M1}
MCLocalTx == {L0, L0x, L1, L2, M1}
MCBatches == {<<R0>>, <<R1, M0>>}
MCBlock == {"g", "b1", "b2", "c1", "c2"}
MCParent == [b \in MCBlock |-> CASE b = "b2" -> "b1" [] b = "c2" -> "c1" [] OTHER -> "g"]
MCBody == [g |-> <<>>, b1 |-> <<R0>>, b2 |-> <<>>, c1 |-> <<L0>>, c2 |-> <<R0>>]
MCBalance == [b \in MCBlock |-> [a \in MCAccount |-> IF b = "c2" /\ a = "r" THEN 1 ELSE 2]]
MCOutdated == [b \in MCBlock |-> IF b = "b2" THEN {L1} ELSE {}]
Ascending == <<L0, L0x, L1, L2, R0, R1, M0, M1>>
MCOrders == {Ascending, Reverse(Ascending)}
=============================================================================
