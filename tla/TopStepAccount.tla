--------------------------- MODULE TopStepAccount ---------------------------
(***************************************************************************)
(* TopStepNoFeeAccountState (src/pipeline/topstep_account.py) with its     *)
(* ruleset TopStepNoFee50K (src/rules/topstep.py): one simulated account    *)
(* from the Trading Combine to the Express Funded Account (XFA), its        *)
(* payouts, and the two ways of starting over.                             *)
(*                                                                         *)
(* Money is an integer number of a unit the instance chooses.  The lists of *)
(* daily P&Ls are kept as what the rules read of them: the best day (no     *)
(* less than 0, which compares with a positive profit as the list's maximum *)
(* does) and, up to the number a rule asks for, how many there are.        *)
(* Fees are a function of the counters kept here and are left out.         *)
(***************************************************************************)
EXTENDS Integers, Money

CONSTANTS
    Start,          \* combine_starting_balance
    Target,         \* combine_profit_target
    MaxLoss,        \* max_loss_limit
    Dll,            \* daily_loss_limit
    WinDay,         \* standard_min_winning_day
    WinDays,        \* standard_winning_days_required
    ConsDays,       \* consistency_days_required
    PayoutMin,      \* payout_minimum
    StandardMax,    \* standard_payout_maximum
    ConsistencyMax, \* consistency_payout_maximum
    MaxBack2Funded, \* max_back2funded_reactivations
    Gains, Losses,  \* what a trade may make or lose
    MaxProfit,      \* bound: profit over the phase's starting balance
    MaxPayouts,     \* bound: payouts requested
    MaxResets       \* bound: resets of a failed Combine

Paths == {"standard", "consistency"}

ASSUME RulesAssumption ==
    /\ Start \in Int /\ Target \in Int /\ Target > 0
    /\ MaxLoss \in Int /\ MaxLoss > 0
    /\ Dll \in Int /\ WinDay \in Int
    /\ WinDays \in Nat /\ ConsDays \in Nat
    /\ PayoutMin \in Int /\ PayoutMin > 0
    /\ StandardMax \in Int /\ ConsistencyMax \in Int
    /\ MaxBack2Funded \in Nat
    /\ Gains \subseteq Int /\ Losses \subseteq Int
    /\ MaxProfit \in Int /\ MaxPayouts \in Nat /\ MaxResets \in Nat

VARIABLES
    opts,      \* what was chosen at checkout: the payout path, the optional DLL
    phase, balance, mll, locked,
    day,       \* current_day_pnl
    best,      \* the best closed day of combine_daily_pnls or cycle_daily_pnls
    days,      \* len(cycle_daily_pnls), counted up to ConsDays
    winDays,   \* standard_winning_days, counted up to WinDays
    payouts, resets, back2funded,
    seen       \* what the account went through; no code reads it

counts == <<payouts, resets, back2funded>>
session == <<day, best, days, winDays, locked>>
vars == <<opts, phase, balance, mll, session, counts, seen>>

-----------------------------------------------------------------------------
Phases == {"combine", "xfa", "combine_failed", "xfa_closed"}
Active == {"combine", "xfa"}

Trades == Gains \union {-l : l \in Losses}

\* combine_starting_balance and xfa_starting_balance.
StartOf(ph) == IF ph \in {"combine", "combine_failed"} THEN Start ELSE 0

\* What a phase starts with in `seen`: the highest close, and the sessions closed in
\* the cycle (up to WinDays + ConsDays).
Fresh(start) == [high |-> start, sessions |-> 0]

Init ==
    /\ opts \in [path : Paths, dll : BOOLEAN]
    /\ phase = "combine" /\ balance = Start /\ mll = Start - MaxLoss
    /\ day = 0 /\ best = 0 /\ days = 0 /\ winDays = 0 /\ locked = FALSE
    /\ payouts = 0 /\ resets = 0 /\ back2funded = 0
    /\ seen = Fresh(Start)

-----------------------------------------------------------------------------
(* The rules                                                                 *)

\* (without the lock; without the ratchet)
TrailUnlocked(close, lock) == Higher(mll, close - MaxLoss)
TrailDown(close, lock) == Lower(close - MaxLoss, lock)

\* update_combine_mll_after_close, update_xfa_mll_after_close: trail the close,
\* never down, locked at the starting balance.
Trail(close, lock) == Higher(mll, Lower(close - MaxLoss, lock))

\* combine_consistency_ok over the closed days and today.
CombineCanPass(b, bestDay, today) ==
    /\ b - Start >= Target
    /\ 2 * Higher(bestDay, today) <= b - Start

\* _payout_eligible; xfa_consistency_ok takes the balance for the cycle's profit.
PayoutEligible ==
    IF opts.path = "standard"
    THEN winDays >= WinDays /\ balance > 0
    ELSE days >= ConsDays /\ balance > 0 /\ 5 * best <= 2 * balance

PayoutMax == IF opts.path = "standard" THEN StandardMax ELSE ConsistencyMax

\* (the whole balance may be asked for)
WholeBalance == Lower(balance, PayoutMax)

\* payout_request_amount before its minimum (`balance * 0.5` is exact while the
\* balance is even, which instances see to by the unit they choose).
GrossRequest == Lower(balance \div 2, PayoutMax)

-----------------------------------------------------------------------------
(* The account's operations                                                  *)

\* _activate_xfa
ActivateXfa ==
    /\ phase' = "xfa" /\ balance' = 0 /\ mll' = -MaxLoss
    /\ day' = 0 /\ best' = 0 /\ days' = 0 /\ winDays' = 0 /\ locked' = FALSE
    /\ seen' = Fresh(0)

LocksSession(t) == opts.dll /\ day + t <= -Dll
PassesCombine(t) ==
    /\ phase = "combine" /\ balance + t > mll /\ ~LocksSession(t)
    /\ CombineCanPass(balance + t, best, day + t)

\* The trade counts; at or below the MLL it closes the account, else it may lock
\* the session.
ApplyTrade(t) ==
    /\ balance' = balance + t /\ day' = day + t
    /\ phase' = IF balance' > mll THEN phase
                ELSE IF phase = "combine" THEN "combine_failed" ELSE "xfa_closed"
    /\ locked' = (balance' > mll /\ LocksSession(t))
    /\ UNCHANGED <<mll, best, days, winDays, seen>>

\* update(): the P&L, then the MLL, then the optional DLL, then the pass.
Update(t) ==
    /\ phase \in Active /\ ~locked /\ balance + t - StartOf(phase) <= MaxProfit
    /\ \/ PassesCombine(t) /\ ActivateXfa
       \/ ~PassesCombine(t) /\ ApplyTrade(t)
    /\ UNCHANGED <<opts, counts>>

\* close_day() in the Combine: the trailing update, and a last chance to pass.
CloseCombineDay ==
    LET bestDay == Higher(best, day)
        passes == CombineCanPass(balance, bestDay, 0)
    IN
    /\ phase = "combine"
    /\ \/ passes /\ ActivateXfa
       \/ /\ ~passes
          /\ mll' = Trail(balance, Start)
          /\ day' = 0 /\ best' = bestDay /\ locked' = FALSE
          /\ seen' = [seen EXCEPT !.high = Higher(seen.high, balance)]
          /\ UNCHANGED <<phase, balance, days, winDays>>
    /\ UNCHANGED <<opts, counts>>

\* close_day() in the XFA: the day counts towards either path's payout.
CloseXfaDay ==
    /\ phase = "xfa"
    /\ mll' = Trail(balance, 0)
    /\ day' = 0 /\ best' = Higher(best, day) /\ locked' = FALSE
    /\ days' = Lower(days + 1, ConsDays)
    /\ winDays' = IF day >= WinDay THEN Lower(winDays + 1, WinDays) ELSE winDays
    /\ seen' = [seen EXCEPT !.high = Higher(seen.high, balance),
                            !.sessions = Lower(seen.sessions + 1, WinDays + ConsDays)]
    /\ UNCHANGED <<phase, balance, opts, counts>>

CloseTerminalDay ==
    /\ phase \notin Active
    /\ day' = 0 /\ locked' = FALSE
    /\ UNCHANGED <<phase, balance, mll, best, days, winDays, opts, counts, seen>>

CloseDay == CloseCombineDay \/ CloseXfaDay \/ CloseTerminalDay

\* (the winning days of the last cycle still count)
RequestPayoutKeepingDays ==
    /\ phase = "xfa" /\ PayoutEligible /\ GrossRequest >= PayoutMin
    /\ payouts < MaxPayouts /\ payouts' = payouts + 1
    /\ balance' = balance - GrossRequest
    /\ mll' = 0 /\ day' = 0 /\ best' = 0 /\ phase' = phase
    /\ seen' = [high |-> seen.high, sessions |-> 0]
    /\ UNCHANGED <<opts, locked, days, winDays, resets, back2funded>>

\* request_payout(): the MLL is set to 0 and the cycle starts over.
RequestPayout ==
    /\ phase = "xfa" /\ PayoutEligible /\ GrossRequest >= PayoutMin
    /\ payouts < MaxPayouts /\ payouts' = payouts + 1
    /\ balance' = balance - GrossRequest
    /\ mll' = 0
    /\ phase' = IF balance' <= mll' THEN "xfa_closed" ELSE phase
    /\ day' = 0 /\ best' = 0 /\ days' = 0 /\ winDays' = 0
    /\ seen' = [high |-> seen.high, sessions |-> 0]
    /\ UNCHANGED <<opts, locked, resets, back2funded>>

AttemptReset ==
    /\ phase = "combine_failed"
    /\ resets < MaxResets /\ resets' = resets + 1
    /\ phase' = "combine" /\ balance' = Start /\ mll' = Start - MaxLoss
    /\ day' = 0 /\ best' = 0 /\ locked' = FALSE
    /\ seen' = Fresh(Start)
    /\ UNCHANGED <<opts, days, winDays, payouts, back2funded>>

AttemptBack2Funded ==
    /\ phase = "xfa_closed" /\ payouts = 0
    /\ back2funded < MaxBack2Funded /\ back2funded' = back2funded + 1
    /\ ActivateXfa
    /\ UNCHANGED <<opts, payouts, resets>>

Next == \/ \E t \in Trades : Update(t)
        \/ CloseDay
        \/ RequestPayout
        \/ AttemptReset
        \/ AttemptBack2Funded

Spec == Init /\ [][Next]_vars

-----------------------------------------------------------------------------
(* Properties                                                                *)

\* Every variable keeps its type.
TypeOK ==
    /\ opts \in [path : Paths, dll : BOOLEAN]
    /\ phase \in Phases /\ balance \in Int /\ mll \in Int /\ locked \in BOOLEAN
    /\ day \in Int /\ best \in Nat /\ days \in 0..ConsDays /\ winDays \in 0..WinDays
    /\ payouts \in 0..MaxPayouts /\ resets \in 0..MaxResets
    /\ back2funded \in 0..MaxBack2Funded
    /\ seen \in [high : Int, sessions : 0..(WinDays + ConsDays)]

\* An account that may trade is above its MLL, at every moment and by whichever
\* path it got there: a breach is never left unnoticed by a close, a payout or a
\* reactivation.
OpenAboveMll == phase \in Active => balance > mll

\* The MLL the code moves step by step is the published one: the highest closing
\* balance less the maximum loss, no higher than the starting balance, and 0 once
\* a payout was taken.
MllIsTrailing ==
    mll = IF payouts > 0 THEN 0
          ELSE Lower(StartOf(phase), seen.high - MaxLoss)

\* A payout never closes the account that takes it: the branch of request_payout
\* that would is unreachable.
PayoutKeepsOpen == [][payouts' > payouts => phase' = "xfa" /\ balance' > mll']_vars

\* Two payouts are at least a cycle apart: as many sessions are closed since the
\* last one as the path asks days for.
PayoutIsEarned ==
    [][payouts' > payouts =>
         seen.sessions >= IF opts.path = "standard" THEN WinDays ELSE ConsDays]_vars

\* The account is a trailing account: its MLL never falls while it lives, not even
\* when a payout overwrites it, and it is open as long as it is above it.
Trailing == INSTANCE TrailingAccount
              WITH open <- phase \in Active, funded <- phase \in {"xfa", "xfa_closed"},
                   limit <- mll
Trails == Trailing!Spec
=============================================================================
