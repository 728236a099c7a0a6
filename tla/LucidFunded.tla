----------------------------- MODULE LucidFunded -----------------------------
(***************************************************************************)
(* LucidFlexFundedAccount (src/pipeline/lucidflex_funded.py): the funded half *)
(* of a LucidFlex account, written a second time.                             *)
(***************************************************************************)
EXTENDS LucidRules

VARIABLES
    breached, balance, mll,
    day,         \* current_day_pnl
    profDays,    \* cycle_profitable_days, counted up to ProfitDays
    cycleStart, payouts

vars == <<breached, balance, mll, day, profDays, cycleStart, payouts>>

Init ==
    /\ breached = FALSE /\ balance = LucidStart /\ mll = InitialMll
    /\ day = 0 /\ profDays = 0 /\ cycleStart = LucidStart /\ payouts = 0

\* apply_trade
ApplyTrade(t) ==
    /\ ~breached /\ balance + t - LucidStart <= LucidMaxProfit
    /\ balance' = balance + t /\ day' = day + t
    /\ breached' = (balance' <= mll)
    /\ UNCHANGED <<mll, profDays, cycleStart, payouts>>

\* close_day
CloseDay ==
    /\ ~breached
    /\ profDays' = IF day >= ProfitDay THEN Lower(profDays + 1, ProfitDays) ELSE profDays
    /\ mll' = LucidTrail(balance, mll) /\ day' = 0
    /\ UNCHANGED <<breached, balance, cycleStart, payouts>>

\* eligible_payout_request_amount
EligibleRequest ==
    IF breached \/ payouts >= MaxSimPayouts \/ profDays < ProfitDays \/ balance <= cycleStart
    THEN 0 ELSE LucidRequest(balance - LucidStart)

\* Mutant: the profitable days of the last cycle still count.
RequestPayoutKeepingDays ==
    /\ EligibleRequest > 0
    /\ balance' = balance - EligibleRequest /\ payouts' = payouts + 1
    /\ cycleStart' = balance' /\ mll' = LockedMll
    /\ breached' = (balance' <= mll')
    /\ UNCHANGED <<day, profDays>>

\* request_payout: unlike request_payout of LucidFlexAccountState, the day's P&L
\* stays, and the last payout retires nothing.
RequestPayout ==
    /\ EligibleRequest > 0
    /\ balance' = balance - EligibleRequest /\ payouts' = payouts + 1
    /\ profDays' = 0 /\ cycleStart' = balance' /\ mll' = LockedMll
    /\ breached' = (balance' <= mll')
    /\ UNCHANGED day

Next == (\E t \in LucidTrades : ApplyTrade(t)) \/ CloseDay \/ RequestPayout
=============================================================================
