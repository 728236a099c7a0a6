---------------------------- MODULE EvalSimulator ----------------------------
(***************************************************************************)
(* simulate_lucidflex_eval (src/pipeline/eval_simulator.py): the evaluation   *)
(* of a LucidFlex account, written a second time with the day's P&L as the    *)
(* balance less the balance the day opened with, and with no chance to pass   *)
(* at the close.  The days' P&Ls are kept as the best of them; the touches of *)
(* the target, a statistic, are left out.                                     *)
(***************************************************************************)
EXTENDS LucidRules

VARIABLES
    simBalance, simMll,
    simOpen,     \* day_open_balance
    simBest,     \* the best of daily_pnls, no less than 0
    simResult    \* "running" before the return

simVars == <<simBalance, simMll, simOpen, simBest, simResult>>

SimInit ==
    /\ simBalance = LucidStart /\ simMll = InitialMll
    /\ simOpen = LucidStart /\ simBest = 0 /\ simResult = "running"

\* Mutant: today is not among the days of the consistency rule.
SimCanPassYesterday(b) == LucidConsistencyOk(simBest, b - LucidStart)

SimCanPass(b) == LucidConsistencyOk(Higher(simBest, b - simOpen), b - LucidStart)

\* A trade: a breach or a pass returns (a pass forgets the days it took).
SimTrade(t) ==
    /\ simResult = "running"
    /\ LET b == simBalance + t
           breached == b <= simMll
       IN
       \/ /\ ~breached /\ SimCanPass(b) /\ simResult' = "passed"
          /\ simBalance' = LucidStart /\ simMll' = InitialMll
          /\ simOpen' = LucidStart /\ simBest' = 0
       \/ /\ breached \/ ~SimCanPass(b)
          /\ simBalance' = b /\ simResult' = IF breached THEN "breached" ELSE "running"
          /\ UNCHANGED <<simMll, simOpen, simBest>>

\* The end of a day.
SimClose ==
    /\ simResult = "running"
    /\ simBest' = Higher(simBest, simBalance - simOpen)
    /\ simMll' = LucidTrail(simBalance, simMll)
    /\ simOpen' = simBalance
    /\ UNCHANGED <<simBalance, simResult>>

\* The end of the loop over days.
SimTimeout ==
    /\ simResult = "running" /\ simResult' = "timed_out"
    /\ UNCHANGED <<simBalance, simMll, simOpen, simBest>>
=============================================================================
