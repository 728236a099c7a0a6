-------------------------------- MODULE MCORB --------------------------------
(***************************************************************************)
(* The strategy: a paper day and its backtest, a replay of history with its   *)
(* books and its loss cap, a session with the exit overlays, the days that    *)
(* the filters and gates let through, the walk-forward that chooses the       *)
(* parameters and the guard of their holdout.  They share no state, so each   *)
(* is run alone while the others stay as they began.                          *)
(***************************************************************************)
EXTENDS MCORBSession, ReplayRun, ORBOverlays, RegimeFolds, WalkForward, HoldoutGuard

VARIABLE part

mcVars == <<part, vars, replayVars, walkVars, dayVars, tuneVars, guardVars>>

-----------------------------------------------------------------------------
(* Parameters, and what a backtest may find                                   *)

LOCAL Overlay(entry, stop, target, hold, trail, time, partial) ==
    [entry |-> entry, stop |-> stop, target |-> target, hold |-> hold,
     trail |-> trail, time |-> time, partial |-> partial]
MCOverlaid ==
    {Overlay("first_candle", "or_opposite", 2, FALSE, 0, 1, 0),
     Overlay("first_candle", "or_opposite", 2, FALSE, 0, 1, 1),
     Overlay("breakout", "or_opposite", 2, TRUE, 1, 1, 2),
     Overlay("breakout", "atr_frac", 0, FALSE, 1, 2, 1),
     Overlay("strangle", "or_opposite", 2, TRUE, 1, 1, 1)}

\* A calm day, a roll that gaps, a wild day without a trade, a half-day.
LOCAL Day(count, volume, open, high, low, close, contract, r) ==
    [bars |-> count, orVolume |-> volume, open |-> open, high |-> high, low |-> low,
     close |-> close, contract |-> contract, r |-> r]
MCRawDays ==
    {Day(390, 10, 100, 104, 99, 103, 1, 30), Day(390, 5, 108, 109, 95, 96, 2, -20),
     Day(390, 20, 103, 110, 90, 101, 1, NaN), Day(200, 5, 100, 101, 99, 100, 1, 10)}
LOCAL Filter(weekdays, needsAtr, vol, volume, gap) ==
    [weekdays |-> weekdays, needsAtr |-> needsAtr, atrDays |-> 2, vol |-> vol, volDays |-> 2,
     volume |-> volume, volumeDays |-> 2, gap |-> gap]
MCFilterParams ==
    {Filter(Off, TRUE, Off, Off, Off), Filter({0, 1, 3}, FALSE, 60, Off, Off),
     Filter(Off, FALSE, Off, 100, 100)}
LOCAL Gate(family, n, threshold) == [family |-> family, n |-> n, threshold |-> threshold]
MCGateSpecs == {Gate("er", 2, 50), Gate("trailing_r", 2, 0), Gate("unfiltered", 1, 0)}

MCMonthDays == <<3, 2, 3, 3, 2>>

\* The second and the third differ in nothing and in what is not hashed.
MCGrid ==
    <<[hashed |-> <<1, 1>>, other |-> 1], [hashed |-> <<1, 2>>, other |-> 1],
      [hashed |-> <<1, 1>>, other |-> 2]>>
LOCAL Oos(trades, low, mean) == [trades |-> trades, low |-> low, mean |-> mean]
MCOutcomes ==
    {<<Oos(2, <<1, 1>>, <<1, -1>>), Oos(2, <<1, 2>>, <<2, -1>>)>>,
     <<Oos(2, <<1, 1>>, <<0, 1>>), Oos(2, <<1, 1>>, <<2, 1>>)>>,       \* a worst fold of 0
     <<Oos(0, <<0, 0>>, <<0, 0>>), Oos(3, <<1, 2>>, <<-1, -2>>)>>,     \* a fold without trades
     <<Oos(2, <<-1, -1>>, <<1, 1>>), Oos(3, <<0, 0>>, <<1, 1>>)>>,     \* a median below 0
     <<Oos(1, <<2, 2>>, <<1, 1>>), Oos(1, <<2, 2>>, <<1, 1>>)>>,       \* too few trades
     <<Oos(2, <<3, -2>>, <<-2, 1>>), Oos(2, <<1, 1>>, <<1, 1>>)>>}
MCIsScores == {NegInf, 0, 1}
MCEvalFee == <<2, 3>>
MCHashOf == <<1, 2, 1>>

\* The plan whose folds are tuned on; every plan's folds are made.
LOCAL TunedPlan ==
    plan = [start |-> <<1, 1>>, is |-> 2, oos |-> 1, step |-> 1, holdout |-> <<Months - 2, 1>>]

-----------------------------------------------------------------------------
MCInit ==
    /\ part \in {"session", "replay", "walk", "days", "folds", "tune", "guard"}
    /\ Init
    /\ ReplayInit
    /\ WalkInit /\ (part = "walk" \/ prm = Overlay("first_candle", "or_opposite", 2, FALSE, 0, 1, 0))
    /\ DaysInit
    /\ TuneInit /\ (part = "folds" \/ TunedPlan)
    /\ GuardInit

MCNext ==
    \/ part = "session" /\ Next /\ UNCHANGED <<part, replayVars, walkVars, dayVars, tuneVars, guardVars>>
    \/ part = "replay" /\ ReplayNext /\ UNCHANGED <<part, vars, walkVars, dayVars, tuneVars, guardVars>>
    \/ part = "walk" /\ WalkBar /\ UNCHANGED <<part, vars, replayVars, dayVars, tuneVars, guardVars>>
    \/ part = "days" /\ NextDay /\ UNCHANGED <<part, vars, replayVars, walkVars, tuneVars, guardVars>>
    \/ part = "folds" /\ FoldNext /\ UNCHANGED <<part, vars, replayVars, walkVars, dayVars, guardVars>>
    \/ part = "tune" /\ TuneNext /\ UNCHANGED <<part, vars, replayVars, walkVars, dayVars, guardVars>>
    \/ part = "guard" /\ GuardNext /\ UNCHANGED <<part, vars, replayVars, walkVars, dayVars, tuneVars>>

\* As in FairSpec of a session.
MCSpec ==
    /\ MCInit /\ [][MCNext]_mcVars
    /\ WF_mcVars(part = "session" /\ MarketMinute /\ UNCHANGED <<part, replayVars, walkVars, dayVars, tuneVars, guardVars>>)
    /\ WF_mcVars(part = "session" /\ Feed /\ UNCHANGED <<part, replayVars, walkVars, dayVars, tuneVars, guardVars>>)
=============================================================================
