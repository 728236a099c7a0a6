------------------------------- MODULE Attempt -------------------------------
(***************************************************************************)
(* What the drivers of src/pipeline keep besides the account: the session     *)
(* they are in, the days used, the payouts counted and the flags of the       *)
(* result.  A pipeline (<firm>_pipeline.py) plays trades_per_day sampled      *)
(* trades a session; a replay (<firm>_replay.py) plays the trades of each     *)
(* recorded session, until the sessions run out.  A trade is any amount that  *)
(* the account's instance allows, which stands for every strategy, sizing and *)
(* cost.  The timestamps, drawn numbers and statistics of the result are left  *)
(* out.                                                                      *)
(***************************************************************************)
EXTENDS Integers

CONSTANTS
    EvalDays,     \* max_eval_days, max_combine_days
    FundedDays,   \* max_funded_days, max_xfa_days
    DayTrades,    \* trades_per_day; the longest recorded session
    PayoutCaps    \* payout_cap: a number of payouts, or 0 for None

ASSUME AttemptAssumption ==
    /\ EvalDays \in Nat \ {0} /\ FundedDays \in Nat \ {0} /\ DayTrades \in Nat \ {0}
    /\ PayoutCaps \subseteq Nat

VARIABLES
    driver,       \* "hand": no driver, the account is used as it comes
    cap,          \* payout_cap
    at,           \* what the driver does next
    evalDays, fundedDays,
    sent,         \* trades of this session
    gross,        \* gross_payouts
    result        \* the flags of the result that are up

attempt == <<driver, cap, at, evalDays, fundedDays, sent, gross, result>>

AttemptInit ==
    /\ \/ driver = "hand" /\ at = "hand" /\ cap = 0
       \/ driver \in {"pipeline", "replay"} /\ at = "day" /\ cap \in PayoutCaps
    /\ evalDays = 0 /\ fundedDays = 0 /\ sent = 0 /\ gross = 0 /\ result = {}

Passed == "passed" \in result

\* One more session of the evaluation, or of the funded account.
BeginEvalDay ==
    /\ evalDays < EvalDays /\ evalDays' = evalDays + 1
    /\ at' = "trades" /\ sent' = 0
    /\ UNCHANGED <<driver, cap, fundedDays, gross, result>>

BeginFundedDay ==
    /\ fundedDays < FundedDays /\ fundedDays' = fundedDays + 1
    /\ at' = "trades" /\ sent' = 0
    /\ UNCHANGED <<driver, cap, evalDays, gross, result>>

\* The driver goes on with `step`, and raises `flags`.
Goto(step, flags) ==
    /\ at' = step /\ result' = result \union flags /\ sent' = 0
    /\ UNCHANGED <<driver, cap, evalDays, fundedDays>>

\* After a trade that ended nothing: the next one, up to the number a session has.
NextTrade ==
    /\ \/ sent + 1 < DayTrades /\ at' = "trades" /\ sent' = sent + 1
       \/ sent + 1 = DayTrades /\ at' = "close" /\ sent' = 0
    /\ UNCHANGED <<driver, cap, evalDays, fundedDays, result>>

\* payout_cap is reached.
CapReached(n) == cap > 0 /\ n >= cap
=============================================================================
