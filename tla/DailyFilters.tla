----------------------------- MODULE DailyFilters -----------------------------
(***************************************************************************)
(* Which days a backtest trades: the sessions of src/backtest/sessions.py,    *)
(* the daily columns and filters of run_orb_backtest (src/backtest/orb.py)    *)
(* and the regime gates of src/backtest/regime.py.  As in the code, a column  *)
(* is computed over the whole history at once and shifted by a day.           *)
(*                                                                         *)
(* A raw day holds what its bars come to: how many there are, the volume of   *)
(* the opening range, the prices, the contract and what a trade of it makes.  *)
(* Averages are kept as sums, deviations as squares: they order alike.        *)
(***************************************************************************)
EXTENDS Integers, Sequences, SequencesExt, FiniteSetsExt

CONSTANTS
    RawDays,      \* what a calendar day may bring
    MaxDays,      \* bound: days of history
    ExcludedDays, \* exclude_dates
    MinBarCount,  \* min_bar_count
    FilterParams, \* ORBParams: the filters that are tried
    GateSpecs,    \* RegimeFilterSpec: the gates that are tried
    NaN, Off      \* model values: no value, a filter of None

ASSUME DaysAssumption ==
    /\ MaxDays \in Nat /\ MinBarCount \in Nat /\ NaN \notin Int
    /\ RawDays \subseteq [bars : Nat, orVolume : Nat, open : Int, high : Int, low : Int, close : Int,
                          contract : Int \cup {NaN}, r : Int \cup {NaN}]
    /\ \A p \in FilterParams : {p.atrDays, p.volDays, p.volumeDays} \subseteq Nat \ {0}
    /\ \A spec \in GateSpecs : spec.family \in {"unfiltered", "trailing_r", "er"} /\ spec.n \in Nat \ {0}

VARIABLES
    raw,     \* the days so far
    atOpen   \* for each of them, what was decided when its range was complete

dayVars == <<raw, atOpen>>

-----------------------------------------------------------------------------
(* build_rth_sessions and _daily_ohlcv                                       *)

\* The k-th number of a set, and the rows of a sequence that stand at a set of
\* places, in their order.
Nth(places, k) == CHOOSE i \in places : Cardinality({j \in places : j <= i}) = k
Rows(rows, places) == [k \in 1..Cardinality(places) |-> rows[Nth(places, k)]]

Dated(day, d) ==
    [date |-> d, orVolume |-> day.orVolume, open |-> day.open, high |-> day.high, low |-> day.low,
     close |-> day.close, contract |-> day.contract, r |-> day.r]
Kept(day, d) == d \notin ExcludedDays /\ day.bars >= MinBarCount
Sessions(days) ==
    Rows([d \in DOMAIN days |-> Dated(days[d], d)], {d \in DOMAIN days : Kept(days[d], d)})

Shift(column) == [i \in DOMAIN column |-> IF i = 1 THEN NaN ELSE column[i - 1]]
Closes(s) == [i \in DOMAIN s |-> s[i].close]
AbsDiff(a, b) == IF a < b THEN b - a ELSE a - b

IsRoll(s, i) == i > 1 /\ s[i].contract # s[i - 1].contract /\ s[i - 1].contract # NaN

-----------------------------------------------------------------------------
(* _atr                                                                      *)

TrueRange(s, i) ==
    LET prior == Shift(Closes(s))[i]
    IN  Max({s[i].high - s[i].low} \cup
            IF prior = NaN THEN {} ELSE {AbsDiff(s[i].high, prior), AbsDiff(s[i].low, prior)})

SumAll(list) == MapThenSumSet(LAMBDA k : list[k], DOMAIN list)
SumOver(column, from, to) == SumAll([k \in 1 .. to - from + 1 |-> column[from + k - 1]])

\* rolling(n, min_periods=n).sum()
Rolling(column, n) ==
    [k \in DOMAIN column |->
        IF k < n \/ \E j \in k - n + 1 .. k : column[j] = NaN THEN NaN
        ELSE SumOver(column, k - n + 1, k)]

ForwardFill(column) ==
    LET f[i \in DOMAIN column] == IF column[i] # NaN \/ i = 1 THEN column[i] ELSE f[i - 1] IN f

\* Mutant: the true range of a roll is masked but its row is not dropped.
AtrMasked(s, n) ==
    ForwardFill(Rolling([i \in DOMAIN s |-> IF IsRoll(s, i) THEN NaN ELSE TrueRange(s, i)], n))

\* The roll days are dropped before the window is taken, and filled afterwards.
Atr(s, n) ==
    LET clean == {i \in DOMAIN s : ~IsRoll(s, i)}
        valid == Rolling(Rows([i \in DOMAIN s |-> TrueRange(s, i)], clean), n)
    IN  ForwardFill([i \in DOMAIN s |->
            IF IsRoll(s, i) THEN NaN ELSE valid[Cardinality({j \in clean : j <= i})]])

-----------------------------------------------------------------------------
(* The filters of run_orb_backtest                                           *)

\* pct_change, in thousandths
Returns(s) ==
    [i \in DOMAIN s |->
        IF i = 1 THEN NaN ELSE ((s[i].close - s[i - 1].close) * 1000) \div s[i - 1].close]

\* rolling(n).std(), as n^2 times the variance
RealizedVol(s, n) ==
    LET ret == Returns(s)
        squares == [i \in DOMAIN s |-> IF ret[i] = NaN THEN NaN ELSE ret[i] * ret[i]]
        sum == Rolling(ret, n)
        sumSquares == Rolling(squares, n)
    IN  [i \in DOMAIN s |-> IF sum[i] = NaN THEN NaN ELSE n * sumSquares[i] - sum[i] * sum[i]]

\* expanding().rank(pct=True) in percent, ties sharing their average
ExpandingRank(column) ==
    [i \in DOMAIN column |->
        IF column[i] = NaN THEN NaN
        ELSE LET known == {j \in 1..i : column[j] # NaN}
                 below == {j \in known : column[j] < column[i]}
                 ties == {j \in known : column[j] = column[i]}
             IN  (50 * (2 * Cardinality(below) + Cardinality(ties) + 1)) \div Cardinality(known)]

\* Mutant: the rank of the day itself.
VolPercentileToday(s, n) == ExpandingRank(RealizedVol(s, n))
VolPercentile(s, n) == Shift(ExpandingRank(RealizedVol(s, n)))

AtrPrior(s, n) == Shift(Atr(s, n))

OnWeekday(s, i, p) == p.weekdays = Off \/ s[i].date % 5 \in p.weekdays
AtrKnown(s, i, p) == p.needsAtr \/ p.gap # Off => AtrPrior(s, p.atrDays)[i] # NaN
VolHigh(s, i, p) ==
    p.vol = Off \/ LET vp == VolPercentile(s, p.volDays)[i] IN vp # NaN /\ vp >= p.vol
\* The volume of this range, in percent of the average of those before it.
VolumeHigh(s, i, p) ==
    \/ p.volume = Off
    \/ /\ i > p.volumeDays
       /\ LET before == SumOver([j \in DOMAIN s |-> s[j].orVolume], i - p.volumeDays, i - 1)
          IN  before > 0 /\ s[i].orVolume * 100 * p.volumeDays >= p.volume * before
\* The gap from the close before, in percent of the ATR; none at a roll.
GapSmall(s, i, p) ==
    \/ p.gap = Off
    \/ IsRoll(s, i)
    \/ /\ i > 1
       /\ AbsDiff(s[i].open, s[i - 1].close) * 100 * p.atrDays <= p.gap * AtrPrior(s, p.atrDays)[i]

Admits(s, i, p) ==
    /\ OnWeekday(s, i, p)
    /\ AtrKnown(s, i, p)
    /\ VolHigh(s, i, p)
    /\ VolumeHigh(s, i, p)
    /\ GapSmall(s, i, p)

\* run_orb_backtest: the trades, with the ATR the simulation was handed.
Trades(s, p) ==
    Rows([i \in DOMAIN s |-> [date |-> s[i].date, r |-> s[i].r, atr |-> AtrPrior(s, p.atrDays)[i]]],
         {i \in DOMAIN s : s[i].r # NaN /\ Admits(s, i, p)})

\* trades_to_replay_days
ReplayDays(trades, s) ==
    [i \in DOMAIN s |->
        [date |-> s[i].date, r |-> Rows(trades, {k \in DOMAIN trades : trades[k].date = s[i].date})]]

-----------------------------------------------------------------------------
(* The gates of src/backtest/regime.py                                       *)

\* kaufman_er: the way made in n days, in percent of the way gone.
KaufmanEr(closes, n) ==
    LET change == [i \in DOMAIN closes |-> IF i = 1 THEN NaN ELSE AbsDiff(closes[i], closes[i - 1])]
        path == Rolling(change, n)
    IN  Shift([i \in DOMAIN closes |->
            IF path[i] = NaN \/ path[i] = 0 THEN NaN
            ELSE (AbsDiff(closes[i], closes[i - n]) * 100) \div path[i]])

\* Mutant: bisect_right; the trade of the day itself is in the window.
CutoffThrough(shadow, d) == Cardinality({k \in DOMAIN shadow : shadow[k].date <= d})
\* bisect_left
Cutoff(shadow, d) == Cardinality({k \in DOMAIN shadow : shadow[k].date < d})

\* trailing_shadow_r, as a sum
TrailingShadowR(shadow, s, n) ==
    [i \in DOMAIN s |->
        LET cutoff == Cutoff(shadow, s[i].date)
        IN  IF cutoff < n THEN NaN
            ELSE SumOver([k \in DOMAIN shadow |-> shadow[k].r], cutoff - n + 1, cutoff)]

\* gated_trades_for_spec
Signal(spec, shadow, s) ==
    IF spec.family = "er" THEN KaufmanEr(Closes(s), spec.n) ELSE TrailingShadowR(shadow, s, spec.n)
Threshold(spec) == IF spec.family = "er" THEN spec.threshold ELSE spec.threshold * spec.n
\* apply_gate: a day without a signal is blocked.
Passing(trades, s, signal, threshold) ==
    LET open == {s[i].date : i \in {j \in DOMAIN s : signal[j] # NaN /\ signal[j] >= threshold}}
    IN  Rows(trades, {k \in DOMAIN trades : trades[k].date \in open})
GatedTrades(spec, shadow, s) ==
    IF spec.family = "unfiltered" THEN shadow
    ELSE Passing(shadow, s, Signal(spec, shadow, s), Threshold(spec))

-----------------------------------------------------------------------------
\* What day d is decided to be, by a backtest of these days: for each of the
\* params whether it is traded and on which ATR, for each gate how many of its
\* trades are replayed.
Unfiltered == [weekdays |-> Off, needsAtr |-> FALSE, atrDays |-> 2, vol |-> Off, volDays |-> 2,
               volume |-> Off, volumeDays |-> 2, gap |-> Off]
Decided(days, d) ==
    LET s == Sessions(days)
        shadow == Trades(s, Unfiltered)
        At(rows) == {row \in ToSet(rows) : row.date = d}
    IN  [params |-> [p \in FilterParams |-> {t.atr : t \in At(Trades(s, p))}],
         gates |-> [spec \in GateSpecs |->
                        {Len(day.r) : day \in At(ReplayDays(GatedTrades(spec, shadow, s), s))}]]

\* What a day shows when its range is complete: not yet its prices and its end.
Veiled(day) == [day EXCEPT !.high = @ + 900, !.low = day.open, !.close = day.open + 700,
                           !.r = IF @ = NaN THEN NaN ELSE @ - 50]

DaysInit == raw = <<>> /\ atOpen = <<>>

NextDay ==
    /\ Len(raw) < MaxDays
    /\ \E day \in RawDays :
        /\ raw' = Append(raw, day)
        /\ atOpen' = Append(atOpen, Decided(Append(raw, Veiled(day)), Len(raw) + 1))

DaysSpec == DaysInit /\ [][NextDay]_dayVars

-----------------------------------------------------------------------------
(* Properties                                                                *)

\* NoLookahead: whatever the rest of the history brings, a day is admitted by
\* the same filters and gates, and handed the same ATR, as on the history that
\* ended with its opening range (the causal signals regime.py promises, the
\* shifted columns of run_orb_backtest).  Its being a session is not covered:
\* its bars are counted at its end.
NoLookahead == \A d \in DOMAIN raw : Decided(raw, d) = atOpen[d]

\* AtrIsOfRealDays: the ATR of any day is the mean of the latest true ranges
\* up to it that are not a roll's, a stretch with rolls reaching further back,
\* and there is none before there are that many (_atr).
AtrIsOfRealDays ==
    LET s == Sessions(raw) IN
    \A n \in {p.atrDays : p \in FilterParams}, i \in DOMAIN s :
        LET real == {j \in 1..i : ~IsRoll(s, j)}
            latest == {j \in real : Cardinality({k \in real : k >= j}) <= n}
        IN  Atr(s, n)[i] = IF Cardinality(real) < n THEN NaN
                           ELSE MapThenSumSet(LAMBDA j : TrueRange(s, j), latest)
=============================================================================
