-------------------------- MODULE TrailingAccount --------------------------
(***************************************************************************)
(* What every prop-firm account of src/pipeline promises, whatever its      *)
(* rules: a loss limit that only moves up while the account lives, an account*)
(* that is open exactly as long as its balance is above it, payouts out of a  *)
(* funded account alone, and a new start only for an account that died unpaid.*)
(***************************************************************************)
EXTENDS Integers

VARIABLES
    open,     \* the account may trade
    funded,   \* the evaluation is passed
    balance, limit, payouts

vars == <<open, funded, balance, limit, payouts>>

\* An evaluation, or an account sold funded.
Init == open = TRUE /\ funded \in BOOLEAN /\ balance > limit /\ payouts = 0

\* A fresh account, above a fresh limit.
Fresh == open' /\ balance' > limit' /\ payouts' = payouts

\* A trade, or the close of a day.
Trade ==
    /\ open /\ limit' >= limit
    /\ open' = (balance' > limit')
    /\ UNCHANGED <<funded, payouts>>

Pass == open /\ ~funded /\ funded' /\ Fresh

\* A payout may end the account, but leaves none open at or under its limit.
Payout ==
    /\ open /\ funded /\ funded'
    /\ payouts' = payouts + 1 /\ balance' < balance /\ limit' >= limit
    /\ open' => balance' > limit'

Restart == ~open /\ payouts = 0 /\ funded' = funded /\ Fresh

Next == Trade \/ Pass \/ Payout \/ Restart

Spec == Init /\ [][Next]_vars
=============================================================================
