---------------------------- MODULE LucidDrivers ----------------------------
(***************************************************************************)
(* simulate_lucidflex_pipeline and simulate_lucidflex_trade_replay            *)
(* (src/pipeline/lucidflex_pipeline.py, lucidflex_replay.py): an attempt from *)
(* the evaluation to the last simulated payout, over LucidFlexAccount.  There *)
(* is no payout_cap, no session lock and no reset.                            *)
(***************************************************************************)
EXTENDS LucidFlexAccount, Attempt

account == vars

Pipeline(step) == driver = "pipeline" /\ at = step
Replay(step) == driver = "replay" /\ at = step
Breach == IF phase = "breached_funded" THEN {"closed"} ELSE {}

-----------------------------------------------------------------------------
(* The pipeline                                                              *)

PipelineEvalDay ==
    /\ Pipeline("day") /\ ~Passed /\ UNCHANGED account
    /\ \/ BeginEvalDay
       \/ evalDays = EvalDays /\ Goto("done", {"eval_timeout"}) /\ gross' = gross

PipelineEvalTrade(t) ==
    /\ Pipeline("trades") /\ ~Passed /\ gross' = gross
    /\ Update(t)
    /\ IF phase' = "breached_eval" THEN Goto("done", {"eval_breach"})
       ELSE IF phase' = "funded" THEN Goto("day", {"passed"})
       ELSE NextTrade

PipelineEvalClose ==
    /\ Pipeline("close") /\ ~Passed /\ gross' = gross
    /\ CloseDay
    /\ Goto("day", IF phase' = "funded" THEN {"passed"} ELSE {})

PipelineFundedDay ==
    /\ Pipeline("day") /\ Passed /\ UNCHANGED account
    /\ \/ BeginFundedDay
       \/ /\ fundedDays = FundedDays /\ gross' = gross
          /\ Goto("done", {"funded_timeout"} \union Breach)

PipelineFundedTrade ==
    /\ Pipeline("trades") /\ Passed /\ gross' = gross
    /\ \E t \in LucidTrades : Update(t)
    /\ IF phase' = "breached_funded" THEN Goto("done", {"closed"}) ELSE NextTrade

PipelineFundedClose ==
    /\ Pipeline("close") /\ Passed /\ gross' = gross
    /\ CloseDay /\ Goto("payout", {})

PipelineRefused ==
    /\ Pipeline("payout") /\ ~PayoutEligible
    /\ Goto("day", {}) /\ gross' = gross /\ UNCHANGED account

\* The payout after every close; the last one ends the attempt, and a breach by it is
\* not looked for.
PipelinePayout ==
    /\ Pipeline("payout")
    /\ RequestPayout /\ gross' = gross + balance - balance'
    /\ IF phase' = "max_payouts" THEN Goto("done", {"capped"}) ELSE Goto("day", {})

PipelineEval ==
    PipelineEvalDay \/ PipelineEvalClose \/ \E t \in LucidTrades : PipelineEvalTrade(t)

PipelineFunded ==
    \/ PipelineFundedDay \/ PipelineFundedTrade \/ PipelineFundedClose
    \/ PipelineRefused \/ PipelinePayout

-----------------------------------------------------------------------------
(* The replay                                                                *)

\* The next recorded session goes to the phase the account is in.
ReplayDay ==
    /\ Replay("day") /\ UNCHANGED account
    /\ \/ phase = "eval" /\ BeginEvalDay
       \/ phase = "funded" /\ BeginFundedDay

\* After the loop: the sessions ran out, or the days of the phase did.
ReplayEnds ==
    /\ Replay("day") /\ gross' = gross /\ UNCHANGED account
    /\ Goto("done", IF ~Passed THEN {"eval_timeout"}
                    ELSE IF phase = "funded" THEN {"funded_timeout"}
                    ELSE IF phase = "max_payouts" THEN {"capped"}
                    ELSE Breach)

\* A recorded session may have no trade, or fewer than the longest one.
ReplayNoMoreTrades == Replay("trades") /\ Goto("close", {}) /\ gross' = gross /\ UNCHANGED account

\* _apply_eval_day
ReplayEvalTrade ==
    /\ Replay("trades") /\ phase = "eval" /\ gross' = gross
    /\ \E t \in LucidTrades : Update(t)
    /\ IF phase' = "breached_eval" THEN Goto("done", {"eval_breach"})
       ELSE IF phase' = "funded" THEN Goto("day", {"passed"})
       ELSE NextTrade

ReplayEvalClose ==
    /\ Replay("close") /\ phase = "eval" /\ gross' = gross
    /\ CloseDay
    /\ Goto("day", IF phase' = "funded" THEN {"passed"} ELSE {})

\* _apply_funded_day
ReplayFundedTrade ==
    /\ Replay("trades") /\ phase = "funded" /\ gross' = gross
    /\ \E t \in LucidTrades : Update(t)
    /\ IF phase' = "breached_funded" THEN Goto("done", {"closed"}) ELSE NextTrade

ReplayFundedClose ==
    /\ Replay("close") /\ phase = "funded" /\ gross' = gross
    /\ CloseDay /\ Goto("payout", {})

ReplayRefused ==
    /\ Replay("payout") /\ ~PayoutEligible
    /\ Goto("day", {}) /\ gross' = gross /\ UNCHANGED account

ReplayPayout ==
    /\ Replay("payout")
    /\ RequestPayout /\ gross' = gross + balance - balance'
    /\ IF phase' = "breached_funded" THEN Goto("done", {"closed"})
       ELSE IF phase' = "max_payouts" THEN Goto("done", {"capped"})
       ELSE Goto("day", {})

ReplayNext ==
    \/ ReplayDay \/ ReplayEnds \/ ReplayNoMoreTrades
    \/ ReplayEvalTrade \/ ReplayEvalClose
    \/ ReplayFundedTrade \/ ReplayFundedClose \/ ReplayRefused \/ ReplayPayout

-----------------------------------------------------------------------------
AttemptsInit == Init /\ AttemptInit /\ cap = 0
ByHand == at = "hand" /\ Next /\ UNCHANGED attempt
AttemptsNext == ByHand \/ PipelineEval \/ PipelineFunded \/ ReplayNext
AttemptsSpec == AttemptsInit /\ [][AttemptsNext]_<<vars, attempt>>

-----------------------------------------------------------------------------
\* What AttemptContract reads of the account.
Funded == phase \in {"funded", "max_payouts", "breached_funded"}
Status == CASE phase = "max_payouts" -> "retired"
            [] phase \in Active -> "open"
            [] OTHER -> "breached"

\* Whichever driver plays it, an attempt keeps AttemptContract; in particular the
\* payout whose breach the pipeline does not look for breaches nothing.
Contract == INSTANCE AttemptContract WITH status <- Status, funded <- Funded
KeepsContract == Contract!Spec
=============================================================================
