----------------------------- MODULE RegimeFolds -----------------------------
(***************************************************************************)
(* The regime study's folds, Analysis/scripts/orb_regime_filter_run.py: a     *)
(* fold is backtested from its warm-up to the end of its out-of-sample        *)
(* window, every gate filters the window's own trades, and the signals look   *)
(* back into the warm-up.  A window is [from, to) in days.                    *)
(***************************************************************************)
EXTENDS DailyFilters

\* _slice_bars, _sessions_in_window, _trades_in_window
InWindow(rows, from, to) ==
    Rows(rows, {i \in DOMAIN rows : from <= rows[i].date /\ rows[i].date < to})
OutOfSample(rows, fold) == InWindow(rows, fold.oosStart, fold.oosEnd)

FoldSessions(fold) == InWindow(Sessions(raw), fold.warmup, fold.oosEnd)

\* _unfiltered_shadow_trades: not clipped to the window that is scored.
ShadowTrades(fold) == Trades(FoldSessions(fold), Unfiltered)

\* Mutant: a gate's history is clipped to the window, as a fold's score is.
GatedClipped(spec, fold) ==
    LET all == FoldSessions(fold)
        candidates == OutOfSample(ShadowTrades(fold), fold)
        oos == OutOfSample(all, fold)
    IN  IF spec.family = "trailing_r"
        THEN Passing(candidates, oos, TrailingShadowR(candidates, oos, spec.n), Threshold(spec))
        ELSE GatedTrades(spec, candidates, all)

\* _evaluate_fold_all_specs
Gated(spec, fold) ==
    LET all == FoldSessions(fold)
        candidates == OutOfSample(ShadowTrades(fold), fold)
        oos == OutOfSample(all, fold)
    IN  IF spec.family = "trailing_r"
        THEN Passing(candidates, oos, TrailingShadowR(ShadowTrades(fold), oos, spec.n), Threshold(spec))
        ELSE GatedTrades(spec, candidates, all)

-----------------------------------------------------------------------------
\* The folds that end with the history so far.
Folds ==
    {fold \in [warmup : DOMAIN raw, oosStart : DOMAIN raw, oosEnd : {Len(raw) + 1}] :
        fold.warmup <= fold.oosStart}

Earlier(rows, d) == Cardinality({i \in DOMAIN rows : rows[i].date < d})
\* Whether the fold holds the days the signal of day d is made of.
WarmedUp(spec, fold, d) ==
    CASE spec.family = "unfiltered" -> TRUE
      [] spec.family = "trailing_r" -> Earlier(ShadowTrades(fold), d) >= spec.n
      [] spec.family = "er" -> Earlier(FoldSessions(fold), d) > spec.n

\* FoldsDecideAlike: in a fold a gate lets through the trades it would let
\* through on the whole history, but for those of the days the fold's warm-up
\* is too short for: those are blocked, never taken on half a signal
\* (_evaluate_fold_all_specs).
FoldsDecideAlike ==
    \A spec \in GateSpecs :
        LET s == Sessions(raw)
            passed == {t.date : t \in ToSet(GatedTrades(spec, Trades(s, Unfiltered), s))}
        IN  \A fold \in Folds :
                {t.date : t \in ToSet(Gated(spec, fold))}
                    = {d \in passed : d >= fold.oosStart /\ WarmedUp(spec, fold, d)}

\* PastDecides: what is decided of a day depends on its past alone, and on the
\* same past in every backtest that holds it.
PastDecides == NoLookahead /\ FoldsDecideAlike
=============================================================================
