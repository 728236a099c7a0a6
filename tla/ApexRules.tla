------------------------------ MODULE ApexRules ------------------------------
(***************************************************************************)
(* Apex50K (src/rules/apex.py): the amounts and the pure rules of an Apex     *)
(* account.  Contract limits, fees and the activity rule, which is off and    *)
(* read by nothing, are left out.                                             *)
(***************************************************************************)
EXTENDS Integers, Sequences, Money

CONSTANTS
    ApexStart,     \* account_size
    ApexTarget,    \* profit_target
    Drawdown,      \* trailing_drawdown
    SafetyBuffer,  \* safety_net_buffer
    SoftDll,       \* eod_soft_daily_loss_limit
    QualDay,       \* payout_qualifying_day_min_profit
    QualDays,      \* payout_qualifying_days_required
    ApexPayoutMin, \* payout_minimum
    PayoutBuffer,  \* payout_balance_buffer_above_safety_net
    Caps           \* payout_caps_by_cycle

ASSUME ApexAssumption ==
    /\ ApexStart \in Int /\ ApexTarget \in Int /\ ApexTarget > 0
    /\ Drawdown \in Int /\ Drawdown > 0
    /\ SafetyBuffer \in Nat /\ SoftDll \in Int /\ SoftDll > 0
    /\ QualDay \in Int /\ QualDays \in Nat
    /\ ApexPayoutMin \in Int /\ ApexPayoutMin > 0
    /\ PayoutBuffer \in Int /\ Caps \in Seq(Int)

\* safety_net_balance, eval_initial_threshold
SafetyNet == ApexStart + SafetyBuffer
InitialThreshold == ApexStart - Drawdown

\* Mutant: the candidate alone.
ApexTrailDown(b, threshold) == Lower(b - Drawdown, SafetyNet)

\* update_eod_threshold_after_close of the closing balance and
\* update_intraday_threshold of the peak are one function: trail it, never down,
\* frozen at the safety net.
ApexTrail(b, threshold) ==
    IF b >= SafetyNet + Drawdown THEN SafetyNet
    ELSE Higher(threshold, Lower(b - Drawdown, SafetyNet))

\* payout_consistency_ok: no day made more than half of the cycle's profit.
ApexConsistencyOk(best, profit) == profit > 0 /\ 2 * best <= profit

\* Mutant: the cap of the cycle is paid out, made or not.
ApexRequestCap(profit, cycle) ==
    IF profit <= 0 THEN 0 ELSE IF cycle <= Len(Caps) THEN Caps[cycle] ELSE profit

\* payout_request_amount
ApexRequest(profit, cycle) ==
    LET request == IF cycle <= Len(Caps) THEN Lower(profit, Caps[cycle]) ELSE profit
    IN  IF profit <= 0 \/ request < ApexPayoutMin THEN 0 ELSE request
=============================================================================
