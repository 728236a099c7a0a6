----------------------------- MODULE ApexDrivers -----------------------------
(***************************************************************************)
(* simulate_apex_pipeline and simulate_apex_trade_replay                      *)
(* (src/pipeline/apex_pipeline.py, apex_replay.py): an attempt from the       *)
(* evaluation to the PA and its payouts, over ApexAccount.                    *)
(***************************************************************************)
EXTENDS ApexAccount, Attempt

\* The bound ApexMaxPayouts is out of a driver's reach: a payout takes a cycle of days.
ASSUME ApexDriversAssumption == FundedDays < (ApexMaxPayouts + 1) * QualDays

account == vars

Pipeline(step) == driver = "pipeline" /\ at = step
Replay(step) == driver = "replay" /\ at = step
Breach == IF phase = "breached_pa" THEN {"closed"} ELSE {}

-----------------------------------------------------------------------------
(* The pipeline                                                              *)

PipelineEvalDay ==
    /\ Pipeline("day") /\ ~Passed /\ UNCHANGED account
    /\ \/ BeginEvalDay
       \/ evalDays = EvalDays /\ Goto("done", {"eval_timeout"}) /\ gross' = gross

PipelineEvalTrade ==
    /\ Pipeline("trades") /\ ~Passed /\ gross' = gross
    /\ \E t \in ApexTrades : Update(t)
    /\ IF phase' = "breached_eval" THEN Goto("done", {"eval_breach"})
       ELSE IF phase' = "pa" THEN Goto("day", {"passed"})
       ELSE IF locked' THEN Goto("close", {})
       ELSE NextTrade

PipelineEvalClose ==
    /\ Pipeline("close") /\ ~Passed /\ gross' = gross
    /\ CloseDay
    /\ Goto("day", IF phase' = "pa" THEN {"passed"} ELSE {})

PipelinePaDay ==
    /\ Pipeline("day") /\ Passed /\ UNCHANGED account
    /\ \/ BeginFundedDay
       \/ /\ fundedDays = FundedDays /\ gross' = gross
          /\ Goto("done", {"funded_timeout"} \union Breach)

PipelinePaTrade ==
    /\ Pipeline("trades") /\ Passed /\ gross' = gross
    /\ \E t \in ApexTrades : Update(t)
    /\ IF phase' = "breached_pa" THEN Goto("done", {"closed"})
       ELSE IF locked' THEN Goto("close", {})
       ELSE NextTrade

PipelinePaClose ==
    /\ Pipeline("close") /\ Passed /\ gross' = gross
    /\ CloseDay /\ Goto("payout", {})

PipelineRefused ==
    /\ Pipeline("payout") /\ ~PayoutEligible
    /\ Goto("day", {}) /\ gross' = gross /\ UNCHANGED account

\* Mutant: the account that the payout closed is traded on.
PipelinePayoutUnchecked ==
    /\ Pipeline("payout")
    /\ RequestPayout /\ gross' = gross + balance - balance'
    /\ IF CapReached(payouts') THEN Goto("done", {"capped"})
       ELSE Goto("day", {})

\* The payout after every close; one that closes the account ends the attempt, as
\* one that reaches the cap does.
PipelinePayout ==
    /\ Pipeline("payout")
    /\ RequestPayout /\ gross' = gross + balance - balance'
    /\ IF phase' = "breached_pa" THEN Goto("done", {"closed"})
       ELSE IF phase' = "pa" /\ CapReached(payouts') THEN Goto("done", {"capped"})
       ELSE Goto("day", {})

PipelineNext ==
    \/ PipelineEvalDay \/ PipelineEvalTrade \/ PipelineEvalClose
    \/ PipelinePaDay \/ PipelinePaTrade \/ PipelinePaClose
    \/ PipelineRefused \/ PipelinePayout

-----------------------------------------------------------------------------
(* The replay                                                                *)

\* The next recorded session goes to the phase the account is in.
ReplayDay ==
    /\ Replay("day") /\ UNCHANGED account
    /\ \/ phase = "eval" /\ BeginEvalDay
       \/ phase = "pa" /\ BeginFundedDay

\* After the loop: the sessions ran out, or the days of the phase did.
ReplayEnds ==
    /\ Replay("day") /\ gross' = gross /\ UNCHANGED account
    /\ Goto("done", IF ~Passed THEN {"eval_timeout"}
                    ELSE IF phase = "pa" THEN {"funded_timeout"}
                    ELSE Breach)

\* A recorded session may have no trade, or fewer than the longest one.
ReplayNoMoreTrades == Replay("trades") /\ Goto("close", {}) /\ gross' = gross /\ UNCHANGED account

\* _apply_eval_day
ReplayEvalTrade ==
    /\ Replay("trades") /\ phase = "eval" /\ gross' = gross
    /\ \E t \in ApexTrades : Update(t)
    /\ IF phase' = "breached_eval" THEN Goto("done", {"eval_breach"})
       ELSE IF phase' = "pa" THEN Goto("day", {"passed"})
       ELSE IF locked' THEN Goto("close", {})
       ELSE NextTrade

ReplayEvalClose ==
    /\ Replay("close") /\ phase = "eval" /\ gross' = gross
    /\ CloseDay
    /\ Goto("day", IF phase' = "pa" THEN {"passed"} ELSE {})

\* _apply_funded_day
ReplayPaTrade ==
    /\ Replay("trades") /\ phase = "pa" /\ gross' = gross
    /\ \E t \in ApexTrades : Update(t)
    /\ IF phase' = "breached_pa" THEN Goto("done", {"closed"})
       ELSE IF locked' THEN Goto("close", {})
       ELSE NextTrade

ReplayPaClose ==
    /\ Replay("close") /\ phase = "pa" /\ gross' = gross
    /\ CloseDay /\ Goto("payout", {})

\* The day's result is looked at, whether the payout was refused or paid.
ReplayRefused ==
    /\ Replay("payout") /\ ~PayoutEligible /\ gross' = gross /\ UNCHANGED account
    /\ IF CapReached(payouts) THEN Goto("done", {"capped"}) ELSE Goto("day", {})

ReplayPayout ==
    /\ Replay("payout")
    /\ RequestPayout /\ gross' = gross + balance - balance'
    /\ IF phase' = "breached_pa" THEN Goto("done", {"closed"})
       ELSE IF phase' = "pa" /\ CapReached(payouts') THEN Goto("done", {"capped"})
       ELSE Goto("day", {})

ReplayNext ==
    \/ ReplayDay \/ ReplayEnds \/ ReplayNoMoreTrades
    \/ ReplayEvalTrade \/ ReplayEvalClose
    \/ ReplayPaTrade \/ ReplayPaClose \/ ReplayRefused \/ ReplayPayout

-----------------------------------------------------------------------------
AttemptsInit == Init /\ AttemptInit
ByHand == at = "hand" /\ Next /\ UNCHANGED attempt
AttemptsNext == ByHand \/ PipelineNext \/ ReplayNext
AttemptsSpec == AttemptsInit /\ [][AttemptsNext]_<<vars, attempt>>

-----------------------------------------------------------------------------
\* What AttemptContract reads of the account.
Funded == phase \in {"pa", "breached_pa"}
Status == CASE phase \notin Active -> "breached"
            [] phase \in Active /\ locked -> "locked"
            [] OTHER -> "open"

\* Whichever driver plays it, an attempt keeps AttemptContract; in particular an
\* account that its own payout closed is not traded again.
Contract == INSTANCE AttemptContract WITH status <- Status, funded <- Funded
KeepsContract == Contract!Spec
=============================================================================
