----------------------------- MODULE ORBOverlays -----------------------------
(***************************************************************************)
(* One session of run_orb_backtest (src/backtest/orb.py) with every entry     *)
(* mode, stop mode and exit overlay, walked bar by bar as _resolve_*_entry    *)
(* and _walk_to_exit do; ORBBacktest has the frozen parameters only.  Every   *)
(* bar has the same volume.  The R multiple, a function of the prices, is left*)
(* out.                                                                      *)
(***************************************************************************)
EXTENDS ORBParams, FiniteSetsExt

CONSTANTS
    Overlaid,        \* the parameter sets that are walked
    StrangleOffset,  \* strangle_rho * ATR
    StopOffset,      \* stop_atr_frac * ATR
    HoldFrom,        \* HOLD_INTO_CLOSE_ET_TIME, as a minute
    DayShapes,       \* the market's bars, as in ORBSession
    DayMinutes       \* minutes of the session

ASSUME OverlaysAssumption ==
    /\ \A o \in Overlaid :
          /\ o.entry \in {"breakout", "first_candle", "strangle"}
          /\ o.stop \in {"or_opposite", "atr_frac"}
          /\ {o.target, o.trail, o.time, o.partial} \subseteq Nat  \* 0 is None, trail and partial in half R
          /\ o.hold \in BOOLEAN
    /\ HoldFrom \in Int /\ DayShapes \subseteq [gap : Int, up : Int, down : Int, move : Int]
    /\ DayMinutes \in Nat /\ DayMinutes > OrMinutes

VARIABLES
    prm,    \* ORBParams
    bars,   \* the bars walked so far
    walk    \* where the walk is

walkVars == <<prm, bars, walk>>

Seeking ==
    [at |-> "range", dir |-> "none", since |-> 0, entry |-> 0, stop |-> 0, risk |-> 0,
     cancelled |-> FALSE, decided |-> FALSE,       \* target_cancelled, hold_into_close_decided
     earned |-> {},                                 \* the half R levels that mfe_r has reached
     vwap |-> 0,                                    \* vwap_num, three times
     pending |-> "no",                              \* pending_exit_reason
     partial |-> "no", partialAt |-> 0,             \* partial_pending, partial_fired_r as a price
     exit |-> NoTrade]

WalkInit == prm \in Overlaid /\ bars = <<>> /\ walk = Seeking

-----------------------------------------------------------------------------
(* Entry                                                                     *)

RangeHighest == Max({bars[i].high : i \in 1..OrMinutes})
RangeLowest == Min({bars[i].low : i \in 1..OrMinutes})

\* The levels of the resting orders.
Upper == IF prm.entry = "strangle" THEN bars[1].open + StrangleOffset ELSE RangeHighest
Lowermost == IF prm.entry = "strangle" THEN bars[1].open - StrangleOffset ELSE RangeLowest

HitsLong(b) == b.high >= Upper
HitsShort(b) == b.low <= Lowermost

\* _resolve_breakout_entry, _resolve_strangle_entry: a bar that trades through its
\* level fills at the open.
RestingFill(dir, b) ==
    EntryFill(dir, IF dir = "long" THEN Max({Upper, b.open}) ELSE Min({Lowermost, b.open}))

CandleDir ==
    LET open == bars[1].open
        close == bars[OrMinutes].close
    IN  IF IsDoji(RangeHighest - RangeLowest, Size(close - open)) THEN "none"
        ELSE IF close > open THEN "long" ELSE "short"

\* The side that bar b opens a position on, if any; both sides at once is no trade.
EntrySide(b) ==
    IF prm.entry = "first_candle" THEN CandleDir
    ELSE CASE HitsLong(b) /\ HitsShort(b) -> "none"
           [] HitsLong(b) /\ ~HitsShort(b) -> "long"
           [] ~HitsLong(b) /\ HitsShort(b) -> "short"
           [] OTHER -> "wait"

EntryPrice(dir, b) ==
    IF prm.entry = "first_candle" THEN EntryFill(dir, b.open) ELSE RestingFill(dir, b)

\* _resolve_stop; the strangle's is the opposite level.
StopPrice(dir, entry) ==
    IF prm.entry = "strangle" THEN IF dir = "long" THEN Lowermost ELSE Upper
    ELSE IF prm.stop = "atr_frac" THEN entry - Sign(dir) * StopOffset
    ELSE IF dir = "long" THEN RangeLowest ELSE RangeHighest

Entered(b) ==
    LET dir == EntrySide(b)
        entry == EntryPrice(dir, b)
        stop == StopPrice(dir, entry)
        risk == Size(entry - stop)
    IN  IF dir = "wait" THEN walk
        ELSE IF dir = "none" \/ risk = 0 THEN [walk EXCEPT !.at = "out"]
        ELSE [walk EXCEPT !.at = "in", !.dir = dir, !.since = b.at,
                          !.entry = entry, !.stop = stop, !.risk = risk]

-----------------------------------------------------------------------------
(* _walk_to_exit, for one bar                                                 *)

TargetPrice(w) == w.entry + Sign(w.dir) * prm.target * w.risk
HitsTarget(w, b) == prm.target > 0 /\ ~w.cancelled /\ Wins(w.dir, b, TargetPrice(w))

Exited(w, b, price, reason) ==
    [w EXCEPT !.at = "out", !.exit = Trade(w.dir, w.since, w.entry, b.at, price, reason)]

\* 1) What the last bar scheduled fills at this bar's open, unless this bar reaches the
\* stop or the target: the partial first, then the exit.
FillPartial(w, b) ==
    IF w.partial = "pending" /\ ~Loses(w.dir, b, w.stop) /\ ~HitsTarget(w, b)
    THEN [w EXCEPT !.partial = "fired", !.partialAt = ExitFill(w.dir, b.open)] ELSE w

\* Mutant: the exit waits while a partial fills.
FillPendingElse(w, b) ==
    IF w.pending # "no" /\ w.partial # "pending"
       /\ ~Loses(w.dir, b, w.stop) /\ ~HitsTarget(w, b)
    THEN Exited(w, b, ExitFill(w.dir, b.open), w.pending) ELSE FillPartial(w, b)

FillPending(w, b) ==
    IF w.pending # "no" /\ ~Loses(w.dir, b, w.stop) /\ ~HitsTarget(w, b)
    THEN Exited(FillPartial(w, b), b, ExitFill(w.dir, b.open), w.pending)
    ELSE FillPartial(w, b)

\* 2) hold_into_close, decided once.
DecideHold(w, b) ==
    IF prm.hold /\ ~w.decided /\ b.at >= HoldFrom
    THEN [w EXCEPT !.decided = TRUE, !.cancelled = Sign(w.dir) * (b.open - w.entry) > 0]
    ELSE w

\* 3) The stop, then the target.
StopOrTarget(w, b) ==
    CASE Loses(w.dir, b, w.stop) -> Exited(w, b, ExitFill(w.dir, w.stop), "stop")
      [] ~Loses(w.dir, b, w.stop) /\ HitsTarget(w, b) ->
           Exited(w, b, ExitFill(w.dir, TargetPrice(w)), "target")
      [] OTHER -> w

\* 4) What this bar's close schedules.
Earns(w, b) ==
    {h \in {2, prm.trail, prm.partial} : 2 * Sign(w.dir) * (b.close - w.entry) >= h * w.risk}

Breaches(w, b) ==
    /\ prm.trail > 0 /\ prm.trail \in w.earned
    /\ LET level == 3 * Len(bars) * b.close IN
       IF w.dir = "long" THEN level < w.vwap ELSE level > w.vwap

Schedule(w, b) ==
    LET e == [w EXCEPT !.earned = @ \union Earns(w, b)]
        late == prm.time > 0 /\ 2 \notin e.earned /\ b.at >= w.since + prm.time
    IN  [e EXCEPT
           !.pending = CASE Breaches(e, b) -> "vwap_trail"
                         [] ~Breaches(e, b) /\ @ = "no" /\ late -> "time_stop"
                         [] OTHER -> @,
           !.partial = IF @ = "no" /\ prm.partial > 0 /\ prm.partial \in e.earned
                       THEN "pending" ELSE @]

Walked(w, b) ==
    LET filled == FillPending(w, b)
        done == StopOrTarget(DecideHold(filled, b), b)
    IN  IF filled.at = "out" THEN filled
        ELSE IF done.at = "out" THEN done ELSE Schedule(done, b)

-----------------------------------------------------------------------------
DayBar(shape) ==
    LET open == IF bars = <<>> THEN 0 ELSE bars[Len(bars)].close + shape.gap
    IN  [at |-> Len(bars), open |-> open, high |-> open + shape.up,
         low |-> open - shape.down, close |-> open + shape.move]

\* The mandatory flat at the close of the last bar.
EndOfDay(w, b) ==
    IF Len(bars) + 1 < DayMinutes THEN w
    ELSE IF w.at = "in" THEN Exited(w, b, b.close, "eod")
    ELSE [w EXCEPT !.at = "out"]

\* The next bar: of the range, or one that may enter, and is then walked like any other.
WalkBar ==
    /\ walk.at # "out" /\ Len(bars) < DayMinutes
    /\ \E shape \in DayShapes :
        LET b == DayBar(shape)
            w == IF Len(bars) < OrMinutes THEN walk
                 ELSE IF walk.at = "in" THEN walk ELSE Entered(b)
            next == IF w.at = "in" THEN Walked(w, b) ELSE w
        IN  /\ bars' = Append(bars, b)
            /\ walk' = EndOfDay([next EXCEPT !.vwap = @ + b.high + b.low + b.close], b)
    /\ UNCHANGED prm

WalkSpec == WalkInit /\ [][WalkBar]_walkVars

-----------------------------------------------------------------------------
(* The same exit, from all the bars at once                                   *)

Held == walk.since..Len(bars) - 1
Bar0(t) == bars[t + 1]

\* Some close since the entry and up to minute t was h half R in favor.
Reached(h, t) ==
    \E s \in walk.since..t : 2 * Sign(walk.dir) * (Bar0(s).close - walk.entry) >= h * walk.risk
Vwap3(t) ==
    LET sum[n \in 0..t] == IF n = 0 THEN 0 ELSE sum[n - 1] + bars[n].high + bars[n].low + bars[n].close
    IN  sum[t]

TrailAt(t) ==
    /\ prm.trail > 0 /\ Reached(prm.trail, t)
    /\ LET level == 3 * t * Bar0(t).close IN
       IF walk.dir = "long" THEN level < Vwap3(t) ELSE level > Vwap3(t)
LateAt(t) == prm.time > 0 /\ t >= walk.since + prm.time /\ ~Reached(2, t)

\* The minute hold_into_close looks at, and whether it gives the target up.
HoldAt == {t \in Held : t >= HoldFrom}
GivesUp == /\ prm.hold /\ HoldAt # {}
           /\ Sign(walk.dir) * (Bar0(Min(HoldAt)).open - walk.entry) > 0
StopAt(t) == Loses(walk.dir, Bar0(t), walk.stop)
TouchesAt(t) == prm.target > 0 /\ Wins(walk.dir, Bar0(t), TargetPrice(walk))
TargetAt(t) == TouchesAt(t) /\ ~(GivesUp /\ t >= Min(HoldAt))

\* What was scheduled before minute t.
DueAt(t) == \E s \in walk.since..t - 1 : TrailAt(s) \/ LateAt(s)
PartialAt == {t \in Held : prm.partial > 0 /\ t > walk.since /\ Reached(prm.partial, t - 1)}

ExitAt ==
    LET ends == {t \in Held : StopAt(t) \/ TargetAt(t) \/ DueAt(t)}
        t == IF ends = {} THEN Max(Held) ELSE Min(ends)
        Exit(price, reason) ==
            Trade(walk.dir, walk.since, walk.entry, t, price, reason)
    IN  CASE ends = {} -> Exit(Bar0(t).close, "eod")
          [] ends # {} /\ StopAt(t) -> Exit(ExitFill(walk.dir, walk.stop), "stop")
          [] ends # {} /\ ~StopAt(t) /\ TargetAt(t) ->
               Exit(ExitFill(walk.dir, TargetPrice(walk)), "target")
          [] OTHER -> Exit(ExitFill(walk.dir, Bar0(t).open),
                           IF TrailAt(t - 1) THEN "vwap_trail" ELSE "time_stop")

\* hold_into_close gives the target up on the very bar that reaches it, while an exit
\* or a partial waits for that bar: it waits for one more.
Postponed == GivesUp /\ TouchesAt(Min(HoldAt)) /\
             (DueAt(Min(HoldAt)) \/ (PartialAt # {} /\ Min(PartialAt) = Min(HoldAt)))

\* An exit follows the module's rules whichever overlays are on together: the stop
\* before the target before what the last bar scheduled, which fills at the open of
\* the bar after it and never later; a partial fills likewise, once, and not on a bar
\* that ends the trade at the stop or the target.  The exception is Postponed.
OverlaysExitOnTime ==
    (walk.at = "out" /\ walk.dir # "none" /\ ~Postponed) =>
        /\ walk.exit = ExitAt
        /\ walk.partial = "fired" <=>
              /\ PartialAt # {} /\ Min(PartialAt) <= ExitAt.exitAt
              /\ Min(PartialAt) = ExitAt.exitAt => ExitAt.reason \notin {"stop", "target"}
        /\ walk.partial = "fired" =>
              walk.partialAt = ExitFill(walk.dir, Bar0(Min(PartialAt)).open)
=============================================================================
