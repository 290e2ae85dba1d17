------------------------------- MODULE Beacon -------------------------------
(***************************************************************************)
(* What the random beacon promises its users (leader selection and the     *)
(* contracts that read random numbers).  In each epoch a key is fixed      *)
(* once, before anything of the outcome is known; at most one random       *)
(* number for the next epoch is revealed, it is determined by that key and *)
(* the number of the current epoch, and it is revealed before the next     *)
(* epoch begins or never.                                                  *)
(***************************************************************************)
EXTENDS Naturals

CONSTANTS Keys, NoKey, NoRandom, First, Last, Genesis

VARIABLES
    now,        \* the current epoch
    key,        \* the key of the current epoch, NoKey until it is fixed
    random      \* the random number of each epoch, NoRandom if there is none

bvars == <<now, key, random>>

\* The number an epoch uses: its own, or the genesis number.
Used(e) == IF random[e] # NoRandom THEN random[e] ELSE Genesis

\* The only possible outcome of the current epoch under its key.
Outcome == [key |-> key, msg |-> [next |-> now + 1, prev |-> Used(now)]]

BInit ==
    /\ now = First
    /\ key = NoKey
    /\ random = [e \in First .. Last + 1 |->
                   IF e = First THEN Genesis ELSE NoRandom]

Fix ==
    /\ key = NoKey
    /\ key' \in Keys
    /\ UNCHANGED <<now, random>>

Reveal ==
    /\ key # NoKey
    /\ random[now + 1] = NoRandom
    /\ random' = [random EXCEPT ![now + 1] = Outcome]
    /\ UNCHANGED <<now, key>>

Advance ==
    /\ key # NoKey
    /\ now < Last
    /\ now' = now + 1
    /\ key' = NoKey
    /\ UNCHANGED random

BNext == Fix \/ Reveal \/ Advance

BSpec == BInit /\ [][BNext]_bvars
=============================================================================
