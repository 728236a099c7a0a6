------------------------------ MODULE LucidRules ------------------------------
(***************************************************************************)
(* LucidFlex50K (src/rules/lucidflex.py): the amounts and the pure rules of a *)
(* LucidFlex account.  Contract limits, trading times, the microscalping rule *)
(* and the fees are left out: the account's state does not depend on them.    *)
(***************************************************************************)
EXTENDS Integers, Money

CONSTANTS
    LucidStart,      \* account_size
    LucidTarget,     \* profit_target
    LucidMaxLoss,    \* max_loss_limit
    TrailBalance,    \* initial_trail_balance
    LockedMll,       \* locked_mll_balance
    ProfitDay,       \* payout_min_daily_profit
    ProfitDays,      \* payout_min_profitable_days
    LucidPayoutMin,  \* payout_minimum
    LucidPayoutMax,  \* payout_maximum
    MaxSimPayouts,   \* max_simulated_payouts
    LucidTrades,     \* what a trade may make or lose
    LucidMaxProfit,  \* bound: profit over the starting balance
    LucidMaxResets   \* bound: resets of a breached evaluation

\* The MLL locks where the trail ends, and the smallest payout leaves more than
\* the lock's buffer.
ASSUME LucidAssumption ==
    /\ LucidStart \in Int
    /\ LucidTarget \in Int /\ LucidTarget > 0
    /\ LucidMaxLoss \in Int /\ LucidMaxLoss > 0
    /\ LockedMll \in Int /\ LockedMll >= LucidStart
    /\ TrailBalance \in Int /\ TrailBalance >= LockedMll + LucidMaxLoss
    /\ ProfitDay \in Int /\ ProfitDays \in Nat
    /\ LucidPayoutMin \in Int /\ LucidPayoutMin > LockedMll - LucidStart
    /\ LucidPayoutMax \in Int /\ MaxSimPayouts \in Nat \ {0}

ASSUME LucidBoundsAssumption ==
    LucidTrades \subseteq Int /\ LucidMaxProfit \in Int /\ LucidMaxResets \in Nat

InitialMll == LucidStart - LucidMaxLoss

\* Mutant: the lock comes without the ratchet.
LucidTrailUnlocked(close, mll) == Higher(mll, close - LucidMaxLoss)

\* update_mll_after_close: trail the close, never down, locked for good.
LucidTrail(close, mll) ==
    IF close >= TrailBalance THEN LockedMll
    ELSE Higher(mll, Lower(close - LucidMaxLoss, LockedMll))

\* consistency_ok of the largest day so far.
LucidConsistencyOk(largest, profit) ==
    profit >= LucidTarget /\ profit > 0 /\ 2 * largest <= profit

\* Mutant: the whole profit may be asked for.
LucidRequestAll(profit) ==
    LET request == Lower(profit, LucidPayoutMax)
    IN  IF profit <= 0 \/ request < LucidPayoutMin THEN 0 ELSE request

\* payout_request_amount (`simulated_profit * 0.50` is exact while the profit is
\* even, which instances see to by the unit they choose).
LucidRequest(profit) ==
    LET request == Lower(profit \div 2, LucidPayoutMax)
    IN  IF profit <= 0 \/ request < LucidPayoutMin THEN 0 ELSE request
=============================================================================
