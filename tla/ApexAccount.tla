----------------------------- MODULE ApexAccount -----------------------------
(***************************************************************************)
(* ApexAccountState (src/pipeline/apex_account.py): one Apex account from the *)
(* evaluation to the performance account (PA), in either drawdown variant.    *)
(*                                                                         *)
(* As in TopStepAccount, cycle_daily_pnls is kept as its best day (no less    *)
(* than 0, which compares with a positive profit as the list's maximum does); *)
(* eval_daily_pnls is read by nothing.                                        *)
(***************************************************************************)
EXTENDS ApexRules

CONSTANTS
    ApexTrades,      \* what a trade may make or lose
    ApexMaxProfit,   \* bound: profit over the starting balance
    ApexMaxPayouts   \* bound: payouts requested

ASSUME ApexBoundsAssumption ==
    ApexTrades \subseteq Int /\ ApexMaxProfit \in Int /\ ApexMaxPayouts \in Nat

VARIABLES
    variant,     \* drawdown_variant
    phase, balance, threshold, peak, locked,
    day,         \* current_day_pnl
    best,        \* the best day of cycle_daily_pnls
    qualDays,    \* cycle_qualifying_days, counted up to QualDays
    cycleStart, payouts,
    seen         \* what the account went through; no code reads it

vars == <<variant, phase, balance, threshold, peak, locked, day, best, qualDays,
          cycleStart, payouts, seen>>

Phases == {"eval", "pa", "breached_eval", "breached_pa"}
Active == {"eval", "pa"}

\* In `seen`: the highest balance of those that the variant trails, the sum of the
\* cycle's closed days, and how many there are (up to QualDays).
Fresh == [high |-> ApexStart, sum |-> 0, sessions |-> 0]

Init ==
    /\ variant \in {"eod", "intraday"}
    /\ phase = "eval" /\ balance = ApexStart /\ threshold = InitialThreshold
    /\ peak = ApexStart /\ locked = FALSE /\ day = 0 /\ best = 0 /\ qualDays = 0
    /\ cycleStart = ApexStart /\ payouts = 0
    /\ seen = Fresh

-----------------------------------------------------------------------------
\* _activate_pa: a fresh account.
ActivatePa ==
    /\ phase' = "pa" /\ balance' = ApexStart /\ threshold' = InitialThreshold
    /\ peak' = ApexStart /\ locked' = FALSE /\ day' = 0 /\ best' = 0 /\ qualDays' = 0
    /\ cycleStart' = ApexStart
    /\ seen' = Fresh

\* The intraday variant ratchets peak and threshold with the trade.
PeakAfter(t) == IF variant = "intraday" THEN Higher(peak, balance + t) ELSE peak
ThresholdAfter(t) ==
    IF variant = "intraday" THEN ApexTrail(PeakAfter(t), threshold) ELSE threshold

Survives(t) == balance + t > ThresholdAfter(t)
LocksSession(t) == variant = "eod" /\ day + t <= -SoftDll

PassesEval(t) ==
    /\ phase = "eval" /\ Survives(t) /\ ~LocksSession(t)
    /\ balance + t - ApexStart >= ApexTarget

ApplyTrade(t) ==
    /\ balance' = balance + t /\ day' = day + t
    /\ peak' = PeakAfter(t) /\ threshold' = ThresholdAfter(t)
    /\ phase' = IF Survives(t) THEN phase
                ELSE IF phase = "eval" THEN "breached_eval" ELSE "breached_pa"
    /\ locked' = (Survives(t) /\ LocksSession(t))
    /\ seen' = [seen EXCEPT !.high = IF variant = "intraday" THEN Higher(@, balance') ELSE @]
    /\ UNCHANGED <<best, qualDays, cycleStart>>

\* update(): ratchet, breach, soft daily loss limit, pass.
Update(t) ==
    /\ phase \in Active /\ ~locked /\ balance + t - ApexStart <= ApexMaxProfit
    /\ \/ PassesEval(t) /\ ActivatePa
       \/ ~PassesEval(t) /\ ApplyTrade(t)
    /\ UNCHANGED <<variant, payouts>>

ThresholdAtClose ==
    IF variant = "eod" THEN ApexTrail(balance, threshold) ELSE threshold
SeenAtClose == IF variant = "eod" THEN Higher(seen.high, balance) ELSE seen.high

\* close_day() in the evaluation: the trailing update, and a last chance to pass
\* (which EvalBelowTarget shows is never left to it).
CloseEvalDay ==
    /\ phase = "eval"
    /\ \/ balance - ApexStart >= ApexTarget /\ ActivatePa
       \/ /\ balance - ApexStart < ApexTarget
          /\ threshold' = ThresholdAtClose
          /\ day' = 0 /\ locked' = FALSE
          /\ seen' = [seen EXCEPT !.high = SeenAtClose]
          /\ UNCHANGED <<phase, balance, peak, best, qualDays, cycleStart>>
    /\ UNCHANGED <<variant, payouts>>

\* close_day() in the PA: the day counts towards the cycle's payout.
ClosePaDay ==
    /\ phase = "pa"
    /\ best' = Higher(best, day)
    /\ qualDays' = IF day >= QualDay THEN Lower(qualDays + 1, QualDays) ELSE qualDays
    /\ threshold' = ThresholdAtClose
    /\ day' = 0 /\ locked' = FALSE
    /\ seen' = [high |-> SeenAtClose, sum |-> seen.sum + day,
                sessions |-> Lower(seen.sessions + 1, QualDays)]
    /\ UNCHANGED <<variant, phase, balance, peak, cycleStart, payouts>>

CloseTerminalDay ==
    /\ phase \notin Active
    /\ day' = 0 /\ locked' = FALSE
    /\ UNCHANGED <<variant, phase, balance, threshold, peak, best, qualDays,
                   cycleStart, payouts, seen>>

CloseDay == CloseEvalDay \/ ClosePaDay \/ CloseTerminalDay

Request == ApexRequest(balance - ApexStart, payouts + 1)

PayoutEligible ==
    /\ phase = "pa" /\ qualDays >= QualDays
    /\ balance > SafetyNet + PayoutBuffer
    /\ ApexConsistencyOk(best, balance - cycleStart)
    /\ Request > 0

\* request_payout(): the threshold stays where it is.
RequestPayout ==
    /\ PayoutEligible
    /\ payouts < ApexMaxPayouts /\ payouts' = payouts + 1
    /\ balance' = balance - Request
    /\ phase' = IF balance' <= threshold THEN "breached_pa" ELSE phase
    /\ day' = 0 /\ best' = 0 /\ qualDays' = 0 /\ cycleStart' = balance'
    /\ seen' = [high |-> seen.high, sum |-> 0, sessions |-> 0]
    /\ UNCHANGED <<variant, threshold, peak, locked>>

Next == \/ \E t \in ApexTrades : Update(t)
        \/ CloseDay
        \/ RequestPayout

Spec == Init /\ [][Next]_vars

-----------------------------------------------------------------------------
(* Properties                                                                *)

\* Every variable keeps its type.
TypeOK ==
    /\ variant \in {"eod", "intraday"} /\ phase \in Phases
    /\ balance \in Int /\ threshold \in Int /\ peak \in Int /\ locked \in BOOLEAN
    /\ day \in Int /\ best \in Nat /\ qualDays \in 0..QualDays /\ cycleStart \in Int
    /\ payouts \in 0..ApexMaxPayouts
    /\ seen \in [high : Int, sum : Int, sessions : 0..QualDays]

\* The threshold moved step by step is the published one: the highest balance of
\* those the variant trails less the drawdown, frozen at the safety net.
ThresholdTrails == threshold = Lower(SafetyNet, seen.high - Drawdown)

\* The profit that the consistency rule divides by is the profit of the very days
\* it compares, so a lopsided day taints no cycle but its own.
CycleIsItsDays == phase = "pa" => balance - cycleStart = seen.sum + day

\* An evaluation is passed by the trade that reaches the target: none is left at
\* it, locked or open, for the close of the day to pass.
EvalBelowTarget == phase = "eval" => balance - ApexStart < ApexTarget

\* A payout takes profit and nothing else, and closes only an account that was
\* once a whole drawdown above its start.
PayoutTakesProfit ==
    [][payouts' > payouts =>
          /\ balance' >= ApexStart
          /\ phase' = "breached_pa" => seen.high >= ApexStart + Drawdown]_vars

\* Two payouts are at least a cycle of sessions apart.
PayoutIsEarned == [][payouts' > payouts => seen.sessions >= QualDays]_vars

\* The account is a trailing account.
Trailing == INSTANCE TrailingAccount
              WITH open <- phase \in Active, funded <- phase \in {"pa", "breached_pa"},
                   limit <- threshold
Trails == Trailing!Spec
=============================================================================
