--------------------------- MODULE TopStepDrivers ---------------------------
(***************************************************************************)
(* simulate_topstep_pipeline and simulate_topstep_trade_replay                *)
(* (src/pipeline/topstep_pipeline.py, topstep_replay.py): an attempt from the *)
(* Combine to the XFA, its payouts and reactivations, over TopStepAccount.    *)
(***************************************************************************)
EXTENDS TopStepAccount, Attempt

CONSTANT Reactivations  \* max_back2funded_reactivations

\* The bound MaxPayouts is out of a driver's reach: a payout takes a cycle of days.
ASSUME DriversAssumption ==
    /\ Reactivations \in Nat
    /\ FundedDays < (MaxPayouts + 1) * Lower(WinDays, ConsDays)

account == vars

Pipeline(step) == driver = "pipeline" /\ at = step
Replay(step) == driver = "replay" /\ at = step

-----------------------------------------------------------------------------
(* The pipeline                                                              *)

\* The Combine's loop over days, to its end: the attempt timed out.
PipelineCombineDay ==
    /\ Pipeline("day") /\ ~Passed /\ UNCHANGED account
    /\ \/ BeginEvalDay
       \/ evalDays = EvalDays /\ Goto("done", {"eval_timeout"}) /\ gross' = gross

\* A trade of the Combine: a breach ends the attempt, a pass the loop, and the lock
\* the session.
PipelineCombineTrade ==
    /\ Pipeline("trades") /\ ~Passed /\ gross' = gross
    /\ \E t \in Trades : Update(t)
    /\ IF phase' = "combine_failed" THEN Goto("done", {"eval_breach"})
       ELSE IF phase' = "xfa" THEN Goto("day", {"passed"})
       ELSE IF locked' THEN Goto("close", {})
       ELSE NextTrade

PipelineCombineClose ==
    /\ Pipeline("close") /\ ~Passed /\ gross' = gross
    /\ CloseDay
    /\ Goto("day", IF phase' = "xfa" THEN {"passed"} ELSE {})

PipelineXfaDay ==
    /\ Pipeline("day") /\ Passed /\ UNCHANGED account
    /\ \/ BeginFundedDay
       \/ /\ fundedDays = FundedDays /\ gross' = gross
          /\ Goto("done", {"funded_timeout"} \union
                          IF phase = "xfa_closed" THEN {"closed"} ELSE {})

\* Mutant: the account that was just reactivated plays on in the same session.
PipelineXfaTradeOn ==
    /\ Pipeline("trades") /\ Passed /\ gross' = gross
    /\ \E t \in Trades : Update(t)
    /\ IF locked' THEN Goto("close", {})
       ELSE NextTrade

PipelineXfaTrade ==
    /\ Pipeline("trades") /\ Passed /\ gross' = gross
    /\ \E t \in Trades : Update(t)
    /\ IF phase' = "xfa_closed" THEN Goto("dead", {})
       ELSE IF locked' THEN Goto("close", {})
       ELSE NextTrade

\* _try_back2funded: the rest of the day is dropped, or the attempt is over.
PipelineReactivate ==
    /\ Pipeline("dead") /\ gross' = gross
    /\ \/ back2funded < Reactivations /\ AttemptBack2Funded /\ Goto("day", {})
       \/ /\ back2funded >= Reactivations \/ payouts > 0 \/ back2funded >= MaxBack2Funded
          /\ Goto("done", {"closed"}) /\ UNCHANGED account

PipelineXfaClose ==
    /\ Pipeline("close") /\ Passed /\ gross' = gross
    /\ CloseDay /\ Goto("payout", {})

Refused == ~(phase = "xfa" /\ PayoutEligible /\ GrossRequest >= PayoutMin)

\* The payout after every close: request_payout raises, or the cap may be reached.
PipelinePayout ==
    /\ Pipeline("payout")
    /\ \/ Refused /\ Goto("day", {}) /\ gross' = gross /\ UNCHANGED account
       \/ /\ RequestPayout /\ gross' = gross + balance - balance'
          /\ IF CapReached(payouts')
             THEN Goto("done", {"capped"} \union
                               IF phase' = "xfa_closed" THEN {"closed"} ELSE {})
             ELSE Goto("day", {})

PipelineNext ==
    \/ PipelineCombineDay \/ PipelineCombineTrade \/ PipelineCombineClose
    \/ PipelineXfaDay \/ PipelineXfaTrade \/ PipelineReactivate \/ PipelineXfaClose
    \/ PipelinePayout

-----------------------------------------------------------------------------
(* The replay                                                                *)

\* After the loop: the sessions ran out, or the days of the phase did.
ReplayEnds ==
    /\ Replay("day") /\ gross' = gross /\ UNCHANGED account
    /\ Goto("done", IF ~Passed THEN {"eval_timeout"}
                    ELSE IF phase = "xfa_closed" THEN {"closed"}
                    ELSE {"funded_timeout"})

\* The next recorded session goes to the phase the account is in.
ReplayDay ==
    /\ Replay("day") /\ UNCHANGED account
    /\ \/ phase = "combine" /\ BeginEvalDay
       \/ phase = "xfa" /\ BeginFundedDay

\* A recorded session may have no trade, or fewer than the longest one.
ReplayNoMoreTrades == Replay("trades") /\ Goto("close", {}) /\ gross' = gross /\ UNCHANGED account

\* _apply_combine_day
ReplayCombineTrade ==
    /\ Replay("trades") /\ phase = "combine" /\ gross' = gross
    /\ \E t \in Trades : Update(t)
    /\ IF phase' = "combine_failed" THEN Goto("done", {"eval_breach"})
       ELSE IF phase' = "xfa" THEN Goto("day", {"passed"})
       ELSE IF locked' THEN Goto("close", {})
       ELSE NextTrade

ReplayCombineClose ==
    /\ Replay("close") /\ phase = "combine" /\ gross' = gross
    /\ CloseDay
    /\ Goto("day", IF phase' = "xfa" THEN {"passed"} ELSE {})

\* _apply_xfa_day
ReplayXfaTrade ==
    /\ Replay("trades") /\ phase = "xfa" /\ gross' = gross
    /\ \E t \in Trades : Update(t)
    /\ IF phase' = "xfa_closed" THEN Goto("dead", {})
       ELSE IF locked' THEN Goto("close", {})
       ELSE NextTrade

\* _try_back2funded
ReplayReactivate ==
    /\ Replay("dead") /\ gross' = gross
    /\ \/ back2funded < Reactivations /\ AttemptBack2Funded /\ Goto("day", {})
       \/ /\ back2funded >= Reactivations \/ payouts > 0 \/ back2funded >= MaxBack2Funded
          /\ Goto("done", {"closed"}) /\ UNCHANGED account

ReplayXfaClose ==
    /\ Replay("close") /\ phase = "xfa" /\ gross' = gross
    /\ CloseDay /\ Goto("payout", {})

\* A payout that closed the account ends the attempt before the cap does.
ReplayPayout ==
    /\ Replay("payout")
    /\ \/ /\ Refused /\ gross' = gross /\ UNCHANGED account
          /\ Goto(IF CapReached(payouts) THEN "done" ELSE "day",
                  IF CapReached(payouts) THEN {"capped"} ELSE {})
       \/ /\ RequestPayout /\ gross' = gross + balance - balance'
          /\ IF phase' = "xfa_closed" THEN Goto("done", {"closed"})
             ELSE IF phase' = "xfa" /\ CapReached(payouts') THEN Goto("done", {"capped"})
             ELSE Goto("day", {})

ReplayNext ==
    \/ ReplayDay \/ ReplayEnds \/ ReplayNoMoreTrades
    \/ ReplayCombineTrade \/ ReplayCombineClose
    \/ ReplayXfaTrade \/ ReplayXfaClose \/ ReplayPayout \/ ReplayReactivate

-----------------------------------------------------------------------------
AttemptsInit == Init /\ AttemptInit
ByHand == at = "hand" /\ Next /\ UNCHANGED attempt
AttemptsNext == ByHand \/ PipelineNext \/ ReplayNext
AttemptsSpec == AttemptsInit /\ [][AttemptsNext]_<<vars, attempt>>

-----------------------------------------------------------------------------
(* Properties                                                                *)

\* What AttemptContract reads of the account.
Funded == phase \in {"xfa", "xfa_closed"}
Status == CASE phase \notin Active -> "breached"
            [] phase \in Active /\ locked -> "locked"
            [] OTHER -> "open"

\* Whichever driver plays it, an attempt keeps AttemptContract: no trade is sent to an
\* account that would refuse it, no session mixes the Combine and the XFA, no payout
\* is taken within a session (where it would lift the daily loss limit), and the
\* attempt ends for the one reason the account bears out.
Contract == INSTANCE AttemptContract WITH status <- Status, funded <- Funded
KeepsContract == Contract!Spec
=============================================================================
