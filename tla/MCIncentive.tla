---------------------------- MODULE MCIncentive ------------------------------
(* Instances of Incentive for TLC: v1 has a delegator, v2 has none. *)
EXTENDS Incentive, TLC

CONSTANTS v1, v2, w1, w2, d1

MCStakers == v1 :> <<[wallet |-> w1, prob |-> 2], [wallet |-> d1, prob |-> 1]>>
             @@ v2 :> <<[wallet |-> w2, prob |-> 3]>>
MCEpochLeaders == <<v1, v2, v1>>
MCRandomProposers == <<v2, v1>>

All == [el |-> 3, elAct |-> 1..3, rp |-> TRUE, rpAct |-> 1..2,
        known |-> {v1, v2}, knownPrev |-> {v1, v2}]
MCWork == {[All EXCEPT !.elAct = {1}, !.rpAct = {}, !.knownPrev = {v1}],
           [All EXCEPT !.el = 0, !.elAct = {}, !.known = {v2}],
           [All EXCEPT !.el = 1, !.elAct = {1}, !.known = {v1}],
           [All EXCEPT !.rp = FALSE, !.rpAct = {}, !.elAct = {2}]}
AllWork == {All}

None == [kind |-> "none"]
Plain == [kind |-> "plain"]
NewFee == [kind |-> "fee", v |-> v1, rate |-> 20]
NewWl(n, c) == [kind |-> "wl", ahead |-> n, count |-> c]
MCTx == {Plain, NewWl(1, 0), NewWl(2, 0)}
WlTx == {None, NewWl(1, 0), NewWl(2, 0)}
ForkTx == {None, NewFee}
NoTx == {None}
=============================================================================
