----------------------------- MODULE ORBBacktest -----------------------------
(***************************************************************************)
(* The reference the engine must agree with: one session of run_orb_backtest   *)
(* in src/backtest/orb.py under FROZEN_PARAMS (first-candle entry, stop at the *)
(* opposite extreme of the range, fixed target, time stop; the other overlays  *)
(* are off).  It sees the whole session at once, so it is stated with sets and *)
(* quantifiers over the bars instead of a walk.                                *)
(***************************************************************************)
EXTENDS ORBParams, FiniteSetsExt

CandleHigh(range) == Max({range[i].high : i \in DOMAIN range})
CandleLow(range) == Min({range[i].low : i \in DOMAIN range})

\* The bars of a session are in the order of their time: those before the end of the
\* opening range come first.
OrCount(bars) == Cardinality({i \in DOMAIN bars : bars[i].at < bars[1].at + OrMinutes})
OrBars(bars) == SubSeq(bars, 1, OrCount(bars))
PostOrBars(bars) == SubSeq(bars, OrCount(bars) + 1, Len(bars))

\* _resolve_first_candle_entry: nothing on a doji, else the candle's direction.
FirstCandle(range) ==
    LET open == range[1].open
        close == range[Len(range)].close
    IN IF IsDoji(CandleHigh(range) - CandleLow(range), Size(close - open)) THEN "none"
       ELSE IF close > open THEN "long" ELSE "short"

\* Bar k closes with the time stop armed: some bar up to k was at or past the
\* deadline while no close up to it had earned one R.
Armed(dir, entry, risk, post, k) ==
    /\ TimeStop > 0
    /\ \E j \in 1..k :
        /\ post[j].at >= post[1].at + TimeStop
        /\ \A i \in 1..j : ~EarnsOneR(dir, post[i], entry, risk)

\* _walk_to_exit: the first bar that ends the trade and why.
WalkToExit(dir, entry, stop, target, risk, post) ==
    LET Due(k) == k > 1 /\ Armed(dir, entry, risk, post, k - 1)
        ends == {k \in DOMAIN post :
                    \/ Loses(dir, post[k], stop)
                    \/ Wins(dir, post[k], target)
                    \/ Due(k)}
        k == IF ends = {} THEN Len(post) ELSE Min(ends)
        Exit(price, reason) == Trade(dir, post[1].at, entry, post[k].at, price, reason)
    IN CASE ends = {} -> Exit(post[k].close, "eod")
         [] ends # {} /\ Loses(dir, post[k], stop) -> Exit(ExitFill(dir, stop), "stop")
         [] ends # {} /\ ~Loses(dir, post[k], stop) /\ Wins(dir, post[k], target) ->
              Exit(ExitFill(dir, target), "target")
         [] OTHER -> Exit(ExitFill(dir, post[k].open), "time_stop")

\* _simulate_session
Backtest(bars) ==
    LET range == OrBars(bars)
        post == PostOrBars(bars)
        dir == FirstCandle(range)
        entry == EntryFill(dir, post[1].open)
        stop == IF dir = "long" THEN CandleLow(range) ELSE CandleHigh(range)
        risk == Size(entry - stop)
    IN IF bars = <<>> \/ post = <<>> \/ dir = "none" \/ risk <= 0 THEN NoTrade
       ELSE WalkToExit(dir, entry, stop, entry + Sign(dir) * TargetR * risk, risk, post)
=============================================================================
