--------------------------- MODULE LucidFlexAccount ---------------------------
(***************************************************************************)
(* LucidFlexAccountState (src/pipeline/lucidflex_account.py): one LucidFlex   *)
(* account from the evaluation to its last simulated payout.                 *)
(*                                                                         *)
(* eval_daily_pnls is kept as its best day, no less than 0, as in            *)
(* TopStepAccount.                                                           *)
(***************************************************************************)
EXTENDS LucidRules

VARIABLES
    phase, balance, mll,
    day,         \* current_day_pnl
    best,        \* the best day of eval_daily_pnls
    profDays,    \* cycle_profitable_days, counted up to ProfitDays
    cycleStart, payouts, resets,
    seen         \* what the account went through; no code reads it

vars == <<phase, balance, mll, day, best, profDays, cycleStart, payouts, resets, seen>>

Phases == {"eval", "funded", "max_payouts", "breached_eval", "breached_funded"}
Active == {"eval", "funded"}

\* In `seen`: the highest close, and the sessions closed in the evaluation or
\* since the last payout, up to those a payout takes and one more.
Fresh == [high |-> LucidStart, sessions |-> 0]
OneMore(n) == Lower(n + 1, ProfitDays + 1)

Init ==
    /\ phase = "eval" /\ balance = LucidStart /\ mll = InitialMll
    /\ day = 0 /\ best = 0 /\ profDays = 0 /\ cycleStart = LucidStart
    /\ payouts = 0 /\ resets = 0
    /\ seen = Fresh

-----------------------------------------------------------------------------
\* A pristine account: _activate_funded and attempt_reset.
StartOver(ph) ==
    /\ phase' = ph /\ balance' = LucidStart /\ mll' = InitialMll
    /\ day' = 0 /\ best' = 0 /\ profDays' = 0 /\ cycleStart' = LucidStart
    /\ seen' = Fresh

\* Mutant: today does not count before its close.
EvalCanPassYesterday(b, bestDay, today) == LucidConsistencyOk(bestDay, b - LucidStart)

\* _eval_can_pass_now: over the closed days and today.
EvalCanPass(b, bestDay, today) ==
    LucidConsistencyOk(Higher(bestDay, today), b - LucidStart)

Passes(t) == phase = "eval" /\ balance + t > mll /\ EvalCanPass(balance + t, best, day + t)

ApplyTrade(t) ==
    /\ balance' = balance + t /\ day' = day + t
    /\ phase' = IF balance' > mll THEN phase
                ELSE IF phase = "eval" THEN "breached_eval" ELSE "breached_funded"
    /\ UNCHANGED <<mll, best, profDays, cycleStart, seen>>

\* update(): the P&L, then the MLL, then the pass.
Update(t) ==
    /\ phase \in Active /\ balance + t - LucidStart <= LucidMaxProfit
    /\ \/ Passes(t) /\ StartOver("funded")
       \/ ~Passes(t) /\ ApplyTrade(t)
    /\ UNCHANGED <<payouts, resets>>

\* close_day() in the evaluation: the trailing update, and a last chance to pass.
CloseEvalDay ==
    LET bestDay == Higher(best, day)
        passes == EvalCanPass(balance, bestDay, 0)
    IN
    /\ phase = "eval"
    /\ \/ passes /\ StartOver("funded")
       \/ /\ ~passes
          /\ mll' = LucidTrail(balance, mll)
          /\ day' = 0 /\ best' = bestDay
          /\ seen' = [high |-> Higher(seen.high, balance), sessions |-> OneMore(seen.sessions)]
          /\ UNCHANGED <<phase, balance, profDays, cycleStart>>
    /\ UNCHANGED <<payouts, resets>>

CloseFundedDay ==
    /\ phase = "funded"
    /\ profDays' = IF day >= ProfitDay THEN Lower(profDays + 1, ProfitDays) ELSE profDays
    /\ mll' = LucidTrail(balance, mll)
    /\ day' = 0
    /\ seen' = [high |-> Higher(seen.high, balance), sessions |-> OneMore(seen.sessions)]
    /\ UNCHANGED <<phase, balance, best, cycleStart, payouts, resets>>

\* close_day() in a terminal phase changes nothing.
CloseDay == CloseEvalDay \/ CloseFundedDay

Request == LucidRequest(balance - LucidStart)

PayoutEligible ==
    /\ phase = "funded" /\ payouts < MaxSimPayouts
    /\ profDays >= ProfitDays
    /\ balance > cycleStart
    /\ Request > 0

\* Mutant: the days of the last cycle still count.
RequestPayoutKeepingDays ==
    /\ PayoutEligible
    /\ balance' = balance - Request /\ payouts' = payouts + 1
    /\ day' = 0 /\ cycleStart' = balance' /\ mll' = LockedMll
    /\ phase' = IF balance' <= mll' THEN "breached_funded"
                ELSE IF payouts' >= MaxSimPayouts THEN "max_payouts" ELSE phase
    /\ seen' = [high |-> seen.high, sessions |-> 0]
    /\ UNCHANGED <<best, profDays, resets>>

\* request_payout(): the MLL locks, and the last payout ends the account.
RequestPayout ==
    /\ PayoutEligible
    /\ balance' = balance - Request /\ payouts' = payouts + 1
    /\ day' = 0 /\ profDays' = 0 /\ cycleStart' = balance' /\ mll' = LockedMll
    /\ phase' = IF balance' <= mll' THEN "breached_funded"
                ELSE IF payouts' >= MaxSimPayouts THEN "max_payouts" ELSE phase
    /\ seen' = [high |-> seen.high, sessions |-> 0]
    /\ UNCHANGED <<best, resets>>

AttemptReset ==
    /\ phase = "breached_eval"
    /\ resets < LucidMaxResets /\ resets' = resets + 1
    /\ StartOver("eval")
    /\ UNCHANGED payouts

Next == \/ \E t \in LucidTrades : Update(t)
        \/ CloseDay
        \/ RequestPayout
        \/ AttemptReset

Spec == Init /\ [][Next]_vars

-----------------------------------------------------------------------------
(* Properties                                                                *)

\* Every variable keeps its type.
TypeOK ==
    /\ phase \in Phases /\ balance \in Int /\ mll \in Int
    /\ day \in Int /\ best \in Nat /\ profDays \in 0..ProfitDays /\ cycleStart \in Int
    /\ payouts \in 0..MaxSimPayouts /\ resets \in 0..LucidMaxResets
    /\ seen \in [high : Int, sessions : 0..(ProfitDays + 1)]

\* The MLL moved step by step is the published one: the highest close less the
\* maximum loss, locked at the locked MLL, and there once a payout was taken.
MllTrails ==
    mll = IF payouts > 0 THEN LockedMll ELSE Lower(LockedMll, seen.high - LucidMaxLoss)

\* An evaluation takes two days: nobody passes it on the first, however much he
\* makes, and a reset forgets the days before it.
PassTakesTwoDays ==
    [][phase = "eval" /\ phase' = "funded" => seen.sessions >= 1]_vars

\* A payout never breaches the account although it lifts the MLL to the lock; it
\* leaves a funded account, or ends it with the last payout and no other.
PayoutKeepsOpen ==
    [][payouts' > payouts =>
          /\ balance' > mll'
          /\ phase' = IF payouts' = MaxSimPayouts THEN "max_payouts" ELSE "funded"]_vars

\* Two payouts are at least a cycle of sessions apart.
PayoutIsEarned == [][payouts' > payouts => seen.sessions >= ProfitDays]_vars

\* The account is a trailing account.
Trailing == INSTANCE TrailingAccount
              WITH open <- phase \in Active,
                   funded <- phase \in {"funded", "max_payouts", "breached_funded"},
                   limit <- mll
Trails == Trailing!Spec
=============================================================================
