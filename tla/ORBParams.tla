------------------------------ MODULE ORBParams ------------------------------
(***************************************************************************)
(* What src/live/engine.py and src/backtest/orb.py share: the parameters of  *)
(* FROZEN_PARAMS both read and the few pure helpers the engine ports.        *)
(* Prices are integers, in ticks; a minute of the session is its number.     *)
(***************************************************************************)
EXTENDS Integers, Sequences

CONSTANTS
    OrMinutes,      \* or_minutes: length of the opening range
    TimeStop,       \* time_stop_minutes, 0 when off
    TargetR,        \* target_r
    Slip,           \* slippage_ticks
    DojiNum,        \* doji_threshold is DojiNum / DojiDen
    DojiDen

ASSUME ORBAssumption ==
    /\ OrMinutes \in Nat \ {0} /\ TimeStop \in Nat
    /\ TargetR \in Nat \ {0} /\ Slip \in Nat
    /\ DojiNum \in Nat /\ DojiDen \in Nat \ {0}

Bar == [at : Nat, open : Int, high : Int, low : Int, close : Int]

Sign(dir) == IF dir = "long" THEN 1 ELSE -1

\* An order that opens (closes) a position of direction dir executes at a
\* price worse than its trigger by the slippage.
EntryFill(dir, trigger) == trigger + Sign(dir) * Slip
ExitFill(dir, trigger) == trigger - Sign(dir) * Slip

IsDoji(range, body) == range <= 0 \/ body * DojiDen < DojiNum * range

Size(x) == IF x < 0 THEN -x ELSE x

\* The bar trades at or beyond the level, on the losing or the winning side.
Loses(dir, bar, level) ==
    IF dir = "long" THEN bar.low <= level ELSE bar.high >= level
Wins(dir, bar, level) ==
    IF dir = "long" THEN bar.high >= level ELSE bar.low <= level

\* The close is at +1R or better (favorable_excursion_r(...) >= 1.0).
EarnsOneR(dir, bar, entry, risk) == Sign(dir) * (bar.close - entry) >= risk

NoTrade == [taken |-> FALSE]
Trade(dir, entryAt, entry, exitAt, exit, reason) ==
    [taken |-> TRUE, dir |-> dir, entryAt |-> entryAt, entry |-> entry,
     exitAt |-> exitAt, exit |-> exit, reason |-> reason]
=============================================================================
