-------------------------- MODULE Strategy_proofs --------------------------
(***************************************************************************)
(* The strategy's two runners, for any bars, parameters and bounds.  Their books *)
(* agree: a paper session takes one trade a day and the engine mirrors what      *)
(* state.json says is held; a replay's realized P&L is the sum of the rows its   *)
(* runs leave.  And both do what the backtester says of the same bars: the       *)
(* paper session trade for trade, the replay at the size of the risk and cut     *)
(* where the daily loss cap is lost.                                             *)
(***************************************************************************)
EXTENDS ORBSession, ReplayRun, FiniteSetTheorems,
        WellFoundedInduction, TLAPS

\* Every nonempty set of naturals has a least element.
LEMMA LeastNatural ==
    ASSUME NEW T, T \subseteq Nat, T # {}
    PROVE  \E x \in T : \A y \in T : x <= y
<1>1. PICK x \in T : \A y \in T : ~ (<<y, x>> \in OpToRel(<, Nat))
  BY NatLessThanWellFounded, WFMin, Zenon
<1>2. \A y \in T : <<y, x>> \in OpToRel(<, Nat) <=> y < x
  BY DEF OpToRel
<1>3. \A y \in T : x \in Nat /\ y \in Nat /\ ~(y < x)
  BY <1>1, <1>2
<1> QED BY <1>3

\* Among finitely many numbers there is a greatest: otherwise there would be a least
\* count of them without one.
LEMMA GreatestOf ==
    ASSUME NEW n \in Nat \ {0}, NEW f \in [1..n -> Int]
    PROVE  \E i \in 1..n : \A j \in 1..n : f[j] <= f[i]
<1> DEFINE Has(m) == \E i \in 1..m : \A j \in 1..m : f[j] <= f[i]
           Without == {m \in 1..n : ~Has(m)}
<1> SUFFICES ASSUME Without # {} PROVE FALSE
  <2>1. n \in 1..n
    OBVIOUS
  <2> QED BY <2>1
<1>1. Without \subseteq Nat
  OBVIOUS
<1>2. PICK m \in Without : \A k \in Without : m <= k
  <2> HIDE DEF Without
  <2> QED BY <1>1, LeastNatural
<1>3. m \in 1..n /\ ~Has(m) /\ \A j \in 1..m : j = m \/ j \in 1..(m - 1)
  <2>1. m \in 1..n /\ ~Has(m)
    BY <1>2
  <2>2. \A j \in 1..m : j = m \/ j \in 1..(m - 1)
    BY <2>1
  <2> QED BY <2>1, <2>2
<1>4. m # 1
  <2>1. Has(1)
    <3>1. 1 \in 1..1 /\ \A j \in 1..1 : j = 1 /\ f[j] \in Int
      OBVIOUS
    <3> QED BY <3>1
  <2> QED BY <1>3, <2>1
<1>5. m - 1 \in 1..n /\ m - 1 < m
  BY <1>3, <1>4
<1>6. Has(m - 1)
  <2>1. m - 1 \notin Without
    <3>1. m - 1 \in Without => m <= m - 1
      BY <1>2
    <3> HIDE DEF Without, Has
    <3> QED BY <1>3, <1>5, <3>1
  <2> QED BY <1>5, <2>1
<1>7. PICK i \in 1..(m - 1) : \A j \in 1..(m - 1) : f[j] <= f[i]
  BY <1>6
<1>8. f[i] \in Int /\ f[m] \in Int /\ \A j \in 1..(m - 1) : f[j] \in Int
  BY <1>3, <1>5, <1>7
<1>9. CASE f[m] <= f[i]
  <2>1. i \in 1..m
    BY <1>3, <1>7
  <2>2. \A j \in 1..m : f[j] <= f[i]
    BY <1>3, <1>7, <1>9
  <2> QED BY <1>3, <2>1, <2>2
<1>10. CASE ~(f[m] <= f[i])
  <2>1. m \in 1..m
    BY <1>3
  <2>2. \A j \in 1..m : f[j] <= f[m]
    <3> SUFFICES ASSUME NEW j \in 1..m PROVE f[j] <= f[m]
      OBVIOUS
    <3>1. CASE j = m
      BY <1>8, <3>1
    <3>2. CASE j \in 1..(m - 1)
      BY <1>7, <1>8, <1>10, <3>2
    <3> QED BY <1>3, <3>1, <3>2
  <2> QED BY <1>3, <2>1, <2>2
<1> QED BY <1>9, <1>10

\* The realized P&L of some rows, as ReplayBooksAgree has it.
TotalUsd(s) == FoldLeft(LAMBDA sum, row : sum + row.usd, 0, s)

\* The steps of the fold over some of the rows, the last first.
UsdStep(f, s) == [ids \in SUBSET (DOMAIN s) |-> IF ids = {} THEN 0 ELSE f[ids \ {Max(ids)}] + s[Max(ids)].usd]

\* The fold is the function that its steps define.
LEMMA TotalIsFold ==
    ASSUME NEW s PROVE TotalUsd(s) = (CHOOSE f : f = UsdStep(f, s))[DOMAIN s]
BY DEF TotalUsd, FoldLeft, MapThenFoldSet, UsdStep

\* No rows make nothing.
LEMMA TotalOfNone == TotalUsd(<<>>) = 0
<1>1. DOMAIN <<>> = {}
  OBVIOUS
<1> DEFINE g == [ids \in SUBSET {} |-> 0]
<1>2. g = UsdStep(g, <<>>)
  BY <1>1 DEF UsdStep
<1>3. \A f : f = UsdStep(f, <<>>) => f[{}] = 0
  BY <1>1 DEF UsdStep
<1> HIDE DEF g
<1>4. \E f : f = UsdStep(f, <<>>)
  BY <1>2
<1>5. LET f == CHOOSE f : f = UsdStep(f, <<>>) IN f = UsdStep(f, <<>>)
  BY <1>4
<1> QED BY <1>1, <1>3, <1>5, TotalIsFold

\* One row makes its dollars.
LEMMA TotalOfOne == ASSUME NEW row, row.usd \in Int PROVE TotalUsd(<<row>>) = row.usd
<1>1. DOMAIN <<row>> = {1} /\ <<row>>[1] = row
  OBVIOUS
<1>2. Max({1}) = 1
  BY DEF Max
<1>3. \A ids \in SUBSET {1} : ids = {} \/ (ids = {1} /\ ids \ {Max(ids)} = {} /\ Max(ids) = 1)
  BY <1>2
<1> DEFINE g == [ids \in SUBSET {1} |-> IF ids = {} THEN 0 ELSE row.usd]
<1>4. g = UsdStep(g, <<row>>)
  <2>1. UsdStep(g, <<row>>) = [ids \in SUBSET {1} |-> IF ids = {} THEN 0 ELSE g[ids \ {Max(ids)}] + <<row>>[Max(ids)].usd]
    BY <1>1 DEF UsdStep
  <2>2. \A ids \in SUBSET {1} : (IF ids = {} THEN 0 ELSE g[ids \ {Max(ids)}] + <<row>>[Max(ids)].usd) = g[ids]
    <3>1. g[{}] = 0 /\ \A ids \in SUBSET {1} : g[ids] = IF ids = {} THEN 0 ELSE row.usd
      OBVIOUS
    <3> HIDE DEF g
    <3> QED BY <1>1, <1>3, <3>1
  <2> QED BY <2>1, <2>2
<1>5. ASSUME NEW f, f = UsdStep(f, <<row>>) PROVE f[{1}] = row.usd
  <2>1. f = [ids \in SUBSET {1} |-> IF ids = {} THEN 0 ELSE f[ids \ {Max(ids)}] + <<row>>[Max(ids)].usd]
    BY <1>1, <1>5 DEF UsdStep
  <2>2. f[{}] = 0
    BY <2>1
  <2>3. f[{1}] = f[{1} \ {Max({1})}] + <<row>>[Max({1})].usd
    BY <2>1
  <2>4. {1} \ {Max({1})} = {} /\ <<row>>[Max({1})] = row
    BY <1>1, <1>2
  <2>5. f[{1}] = 0 + row.usd
    BY <2>2, <2>3, <2>4, Zenon
  <2> QED BY <2>5
<1>6. \E f : f = UsdStep(f, <<row>>)
  BY <1>4
<1>7. LET f == CHOOSE f : f = UsdStep(f, <<row>>) IN f = UsdStep(f, <<row>>)
  BY <1>6
<1> QED BY <1>1, <1>5, <1>7, TotalIsFold

-----------------------------------------------------------------------------
(* The engine                                                                *)

\* The extremes of the opening range are prices.
LEMMA RangeExtremes ==
    ASSUME NEW range \in Seq(Bar), range # <<>>
    PROVE  RangeHigh(range) \in Int /\ RangeLow(range) \in Int
<1> DEFINE n == Len(range)
<1>1. n \in Nat \ {0} /\ DOMAIN range = 1..n /\ \A i \in 1..n : range[i] \in Bar
  OBVIOUS
<1>2. \A i \in 1..n : range[i].high \in Int /\ range[i].low \in Int
  BY <1>1 DEF Bar
<1> HIDE DEF n
<1>3. RangeHigh(range) \in Int
  <2> DEFINE highs == {range[i].high : i \in 1..n}
             f == [i \in 1..n |-> range[i].high]
  <2>1. f \in [1..n -> Int]
    BY <1>2
  <2>2. PICK i \in 1..n : \A j \in 1..n : f[j] <= f[i]
    <3> HIDE DEF f
    <3> QED BY <1>1, <2>1, GreatestOf
  <2>3. \A j \in 1..n : range[i].high >= range[j].high
    BY <1>2, <2>2
  <2>4. \E x \in highs : \A y \in highs : x >= y
    BY <2>3
  <2>5. highs \subseteq Int
    BY <1>2
  <2>6. RangeHigh(range) = CHOOSE x \in highs : \A y \in highs : x >= y
    BY <1>1 DEF RangeHigh, Max
  <2> HIDE DEF highs
  <2> QED BY <2>4, <2>5, <2>6
<1>4. RangeLow(range) \in Int
  <2> DEFINE lows == {range[i].low : i \in 1..n}
             f == [i \in 1..n |-> -range[i].low]
  <2>1. f \in [1..n -> Int]
    BY <1>2
  <2>2. PICK i \in 1..n : \A j \in 1..n : f[j] <= f[i]
    <3> HIDE DEF f
    <3> QED BY <1>1, <2>1, GreatestOf
  <2>3. \A j \in 1..n : range[i].low =< range[j].low
    <3>1. \A j \in 1..n : -range[j].low <= -range[i].low
      BY <2>2
    <3> QED BY <1>2, <3>1
  <2>4. \E x \in lows : \A y \in lows : x =< y
    BY <2>3
  <2>5. lows \subseteq Int
    BY <1>2
  <2>6. RangeLow(range) = CHOOSE x \in lows : \A y \in lows : x =< y
    BY <1>1 DEF RangeLow, Min
  <2> HIDE DEF lows
  <2> QED BY <2>4, <2>5, <2>6
<1> QED BY <1>3, <1>4

OpenPosition ==
    [dir : {"long", "short"}, at : Nat, entry : Int, stop : Int, target : Int, risk : Nat \ {0}]

Engines ==
    [range : Seq(Bar), complete : BOOLEAN, taken : BOOLEAN,
     pos : OpenPosition \union {Flat}, earned : BOOLEAN, pending : BOOLEAN]

Reasons == {"stop", "target", "time_stop", "eod"}

Trades ==
    [taken : {TRUE}, dir : {"long", "short"}, entryAt : Nat, entry : Int,
     exitAt : Nat, exit : Int, reason : Reasons]

Quiet(e, step) == step.events = <<>> /\ step.e.pos = e.pos
Opens(e, step) ==
    \E pos \in OpenPosition :
        step.events = <<Opened(pos)>> /\ step.e.pos = pos /\ ~e.complete /\ step.e.complete
Closes(e, step) ==
    \E trade \in Trades :
        /\ step.events = <<[type |-> "closed", trade |-> trade]>>
        /\ e.pos # Flat /\ step.e.pos = Flat

\* A step of the engine emits nothing and keeps its position, opens one on a range that
\* was not complete, or closes the one it has.
EngineSteps(e, step) ==
    /\ step.e \in Engines
    /\ e.complete => step.e.complete
    /\ Quiet(e, step) \/ Opens(e, step) \/ Closes(e, step)

USE ORBAssumption

\* The engine that starts, and the one that is restored.
LEMMA EngineStarts ==
    /\ Fresh \in Engines /\ Fresh.pos = Flat /\ ~Fresh.complete
    /\ \A pos \in OpenPosition \union {Flat} :
          /\ Restored(TRUE, pos) \in Engines
          /\ Restored(TRUE, pos).pos = pos /\ Restored(TRUE, pos).complete
<1>1. <<>> \in Seq(Bar)
  OBVIOUS
<1> QED BY <1>1 DEF Fresh, Restored, Engines

\* A step that only completes the range.
LEMMA CompletesQuietly ==
    ASSUME NEW e \in Engines, NEW step, step = Emit([e EXCEPT !.complete = TRUE], <<>>)
    PROVE  EngineSteps(e, step)
<1>1. step.e = [e EXCEPT !.complete = TRUE] /\ step.events = <<>>
  BY DEF Emit
<1>2. step.e \in Engines /\ step.e.pos = e.pos /\ step.e.complete = TRUE
  BY <1>1 DEF Engines
<1> QED BY <1>1, <1>2 DEF EngineSteps, Quiet

\* _fill_entry_at
LEMMA FillSteps ==
    ASSUME NEW e \in Engines, ~e.complete, e.range # <<>>,
           NEW dir \in {"long", "short"}, NEW at \in Nat, NEW trigger \in Int
    PROVE  EngineSteps(e, FillEntryAt(e, dir, at, trigger))
<1> DEFINE entry == EntryFill(dir, trigger)
           stop == IF dir = "long" THEN RangeLow(e.range) ELSE RangeHigh(e.range)
           risk == Size(entry - stop)
           target == entry + Sign(dir) * TargetR * risk
           pos == [dir |-> dir, at |-> at, entry |-> entry, stop |-> stop, target |-> target, risk |-> risk]
           step == FillEntryAt(e, dir, at, trigger)
<1>1. e.range \in Seq(Bar)
  BY DEF Engines
<1>2. entry \in Int /\ Sign(dir) \in Int
  BY DEF EntryFill, Sign
<1>3. stop \in Int
  BY <1>1, RangeExtremes
<1> HIDE DEF entry, stop
<1>4. risk \in Nat
  BY <1>2, <1>3 DEF Size
<1> HIDE DEF risk
<1>5. target \in Int
  BY <1>2, <1>4
<1> HIDE DEF target
<1>6. step = IF risk <= 0 THEN Emit([e EXCEPT !.complete = TRUE], <<>>)
             ELSE Emit([e EXCEPT !.complete = TRUE, !.taken = TRUE, !.pos = pos,
                                 !.earned = FALSE, !.pending = FALSE], <<Opened(pos)>>)
  BY DEF FillEntryAt, entry, stop, risk, target
<1>7. CASE risk <= 0
  BY <1>6, <1>7, CompletesQuietly
<1>8. CASE ~(risk <= 0)
  <2>1. pos \in OpenPosition
    BY <1>2, <1>3, <1>4, <1>5, <1>8 DEF OpenPosition
  <2> HIDE DEF pos, step
  <2>2. step.e = [e EXCEPT !.complete = TRUE, !.taken = TRUE, !.pos = pos,
                           !.earned = FALSE, !.pending = FALSE]
        /\ step.events = <<Opened(pos)>>
    BY <1>6, <1>8 DEF Emit
  <2>3. step.e \in Engines /\ step.e.pos = pos /\ step.e.complete = TRUE
    BY <2>1, <2>2 DEF Engines
  <2>4. Opens(e, step)
    BY <2>1, <2>2, <2>3 DEF Opens
  <2>5. EngineSteps(e, step)
    BY <2>3, <2>4 DEF EngineSteps
  <2> QED BY <2>5 DEF step
<1> QED BY <1>7, <1>8

\* _complete_opening_range
LEMMA CompleteSteps ==
    ASSUME NEW e \in Engines, ~e.complete, e.range # <<>>, NEW at \in Nat, NEW trigger \in Int
    PROVE  EngineSteps(e, CompleteOpeningRange(e, at, trigger))
<1> DEFINE open == e.range[1].open
           close == e.range[Len(e.range)].close
           doji == IsDoji(RangeHigh(e.range) - RangeLow(e.range), Size(close - open))
           dir == IF close > open THEN "long" ELSE "short"
<1>1. CompleteOpeningRange(e, at, trigger) =
        IF doji THEN Emit([e EXCEPT !.complete = TRUE], <<>>) ELSE FillEntryAt(e, dir, at, trigger)
  BY DEF CompleteOpeningRange
<1>2. dir \in {"long", "short"}
  OBVIOUS
<1> HIDE DEF dir, doji
<1> QED BY <1>1, <1>2, CompletesQuietly, FillSteps

\* _process_or_bar
LEMMA OrBarSteps ==
    ASSUME NEW e \in Engines, ~e.complete, NEW bar \in Bar
    PROVE  EngineSteps(e, ProcessOrBar(e, bar))
<1> DEFINE grown == [e EXCEPT !.range = Append(e.range, bar)]
<1>1. e.range \in Seq(Bar) /\ bar.at \in Nat /\ bar.open \in Int /\ bar.close \in Int
  BY DEF Engines, Bar
<1>2. Append(e.range, bar) \in Seq(Bar) /\ Append(e.range, bar) # <<>>
  BY <1>1
<1>3. /\ grown \in Engines /\ ~grown.complete /\ grown.range # <<>>
      /\ grown.pos = e.pos /\ grown.complete = e.complete
  BY <1>2 DEF Engines
<1>4. OrEnd(grown.range) \in Nat
  <2>1. grown.range \in Seq(Bar) /\ grown.range # <<>>
    BY <1>3 DEF Engines
  <2> HIDE DEF grown
  <2>2. grown.range[1] \in Bar
    BY <2>1
  <2> QED BY <2>2 DEF OrEnd, Bar
<1>5. ProcessOrBar(e, bar) =
        IF e.range # <<>> /\ bar.at >= OrEnd(e.range) THEN CompleteOpeningRange(e, bar.at, bar.open)
        ELSE IF bar.at + 1 >= OrEnd(grown.range)
        THEN CompleteOpeningRange(grown, OrEnd(grown.range), bar.close)
        ELSE Emit(grown, <<>>)
  BY DEF ProcessOrBar
<1> HIDE DEF grown
<1>6. CASE e.range # <<>> /\ bar.at >= OrEnd(e.range)
  BY <1>1, <1>5, <1>6, CompleteSteps
<1>7. CASE ~(e.range # <<>> /\ bar.at >= OrEnd(e.range)) /\ bar.at + 1 >= OrEnd(grown.range)
  <2> DEFINE step == CompleteOpeningRange(grown, OrEnd(grown.range), bar.close)
  <2>1. EngineSteps(grown, step)
    BY <1>1, <1>3, <1>4, CompleteSteps
  <2>2. EngineSteps(e, step)
    <3> HIDE DEF step
    <3> QED BY <1>3, <2>1 DEF EngineSteps, Quiet, Opens, Closes
  <2> QED BY <1>5, <1>7, <2>2
<1>8. CASE ~(e.range # <<>> /\ bar.at >= OrEnd(e.range)) /\ ~(bar.at + 1 >= OrEnd(grown.range))
  <2> DEFINE step == Emit(grown, <<>>)
  <2>1. step.e = grown /\ step.events = <<>>
    BY DEF Emit
  <2>2. EngineSteps(e, step)
    <3> HIDE DEF step
    <3> QED BY <1>3, <2>1 DEF EngineSteps, Quiet
  <2> QED BY <1>5, <1>8, <2>2
<1> QED BY <1>6, <1>7, <1>8

\* A close at a price.
LEMMA CloseSteps ==
    ASSUME NEW e \in Engines, e.pos # Flat, NEW at \in Nat, NEW exit \in Int, NEW reason \in Reasons
    PROVE  EngineSteps(e, CloseTrade(e, at, exit, reason))
<1> DEFINE step == CloseTrade(e, at, exit, reason)
           trade == Trade(e.pos.dir, e.pos.at, e.pos.entry, at, exit, reason)
<1>1. step.e = [e EXCEPT !.pos = Flat, !.pending = FALSE]
      /\ step.events = <<[type |-> "closed", trade |-> trade]>>
  BY DEF CloseTrade, Emit, Closed
<1>2. trade \in Trades
  <2>1. e.pos \in OpenPosition
    BY DEF Engines
  <2> QED BY <2>1 DEF Trade, Trades, OpenPosition
<1> HIDE DEF step, trade
<1>3. step.e \in Engines /\ step.e.pos = Flat /\ step.e.complete = e.complete
  BY <1>1 DEF Engines
<1>4. Closes(e, step)
  BY <1>1, <1>2, <1>3 DEF Closes
<1>5. EngineSteps(e, step)
  BY <1>3, <1>4 DEF EngineSteps
<1> QED BY <1>5 DEF step

\* _process_position_bar
LEMMA PositionBarSteps ==
    ASSUME NEW e \in Engines, e.pos # Flat, NEW bar \in Bar
    PROVE  EngineSteps(e, ProcessPositionBar(e, bar))
<1> DEFINE dir == e.pos.dir
           loses == Loses(dir, bar, e.pos.stop)
           wins == Wins(dir, bar, e.pos.target)
           earned == e.earned \/ EarnsOneR(dir, bar, e.pos.entry, e.pos.risk)
           late == TimeStop > 0 /\ bar.at >= e.pos.at + TimeStop
<1>1. ProcessPositionBar(e, bar) =
        CASE loses -> CloseTrade(e, bar.at, ExitFill(dir, e.pos.stop), "stop")
          [] ~loses /\ wins -> CloseTrade(e, bar.at, ExitFill(dir, e.pos.target), "target")
          [] ~loses /\ ~wins /\ e.pending -> CloseTrade(e, bar.at, ExitFill(dir, bar.open), "time_stop")
          [] OTHER -> Emit([e EXCEPT !.earned = earned, !.pending = late /\ ~earned], <<>>)
  BY DEF ProcessPositionBar
<1>2. /\ e.pos \in OpenPosition /\ bar.at \in Nat /\ bar.open \in Int
      /\ e.pos.stop \in Int /\ e.pos.target \in Int
  BY DEF Engines, OpenPosition, Bar
<1>3. \A price \in Int : ExitFill(dir, price) \in Int
  BY DEF ExitFill, Sign
<1> HIDE DEF loses, wins, dir
<1>4. CASE loses
  <2>1. ProcessPositionBar(e, bar) = CloseTrade(e, bar.at, ExitFill(dir, e.pos.stop), "stop")
    BY <1>1, <1>4
  <2> QED BY <1>2, <1>3, <2>1, CloseSteps DEF Reasons
<1>5. CASE ~loses /\ wins
  <2>1. ProcessPositionBar(e, bar) = CloseTrade(e, bar.at, ExitFill(dir, e.pos.target), "target")
    BY <1>1, <1>5
  <2> QED BY <1>2, <1>3, <2>1, CloseSteps DEF Reasons
<1>6. CASE ~loses /\ ~wins /\ e.pending
  <2>1. ProcessPositionBar(e, bar) = CloseTrade(e, bar.at, ExitFill(dir, bar.open), "time_stop")
    BY <1>1, <1>6
  <2> QED BY <1>2, <1>3, <2>1, CloseSteps DEF Reasons
<1>7. CASE ~loses /\ ~wins /\ ~e.pending
  <2>1. PICK a \in BOOLEAN : a = earned
    BY Zenon
  <2>2. PICK b \in BOOLEAN : b = (late /\ ~earned)
    BY Zenon
  <2> HIDE DEF earned, late
  <2> DEFINE step == Emit([e EXCEPT !.earned = a, !.pending = b], <<>>)
  <2>3. ProcessPositionBar(e, bar) = step
    BY <1>1, <1>7, <2>1, <2>2, Zenon
  <2>4. step.e = [e EXCEPT !.earned = a, !.pending = b] /\ step.events = <<>>
    BY DEF Emit
  <2> HIDE DEF step
  <2>5. step.e \in Engines /\ step.e.pos = e.pos /\ step.e.complete = e.complete
    BY <2>4 DEF Engines
  <2>6. EngineSteps(e, step)
    BY <2>4, <2>5 DEF EngineSteps, Quiet
  <2> QED BY <2>3, <2>6
<1> QED BY <1>4, <1>5, <1>6, <1>7

\* on_bar
LEMMA BarSteps ==
    ASSUME NEW e \in Engines, NEW bar \in Bar
    PROVE  EngineSteps(e, OnBar(e, bar))
<1>1. CASE ~e.complete
  BY <1>1, OrBarSteps DEF OnBar
<1>2. CASE e.complete /\ e.pos # Flat
  BY <1>2, PositionBarSteps DEF OnBar
<1>3. CASE e.complete /\ e.pos = Flat
  <2> DEFINE step == Emit(e, <<>>)
  <2>1. OnBar(e, bar) = step
    BY <1>3 DEF OnBar
  <2>2. step.e = e /\ step.events = <<>>
    BY DEF Emit
  <2> HIDE DEF step
  <2>3. EngineSteps(e, step)
    BY <2>2 DEF EngineSteps, Quiet
  <2> QED BY <2>1, <2>3
<1> QED BY <1>1, <1>2, <1>3

\* on_session_end
LEMMA EndSteps ==
    ASSUME NEW e \in Engines, NEW last \in Bar
    PROVE  /\ EngineSteps(e, OnSessionEnd(e, last)) /\ OnSessionEnd(e, last).e.pos = Flat
           /\ ~Opens(e, OnSessionEnd(e, last))
<1>1. CASE e.pos = Flat
  <2> DEFINE step == Emit(e, <<>>)
  <2>1. OnSessionEnd(e, last) = step
    BY <1>1 DEF OnSessionEnd
  <2>2. step.e = e /\ step.events = <<>>
    BY DEF Emit
  <2> HIDE DEF step
  <2>3. EngineSteps(e, step) /\ ~Opens(e, step) /\ step.e.pos = Flat
    BY <1>1, <2>2 DEF EngineSteps, Quiet, Opens
  <2> QED BY <2>1, <2>3
<1>2. CASE e.pos # Flat
  <2>1. OnSessionEnd(e, last) = CloseTrade(e, last.at, last.close, "eod")
    BY <1>2 DEF OnSessionEnd
  <2>2. EngineSteps(e, CloseTrade(e, last.at, last.close, "eod"))
    BY <1>2, CloseSteps DEF Bar, Reasons
  <2>3. CloseTrade(e, last.at, last.close, "eod").e.pos = Flat
    BY DEF CloseTrade, Emit, Engines
  <2>4. Flat \notin OpenPosition
    BY DEF Flat, OpenPosition
  <2> QED BY <2>1, <2>2, <2>3, <2>4 DEF Opens
<1> QED BY <1>1, <1>2

-----------------------------------------------------------------------------
(* The paper session                                                         *)

USE SessionAssumption

Disks == [taken : BOOLEAN, pos : OpenPosition \union {Flat}]
Journalled ==
    [type : {"opened"}, pos : OpenPosition] \union [type : {"closed"}, trade : Trades]
JournalRows == [by : 1..MaxLaunches, event : Journalled]

SessionTypeOK ==
    /\ tape \in Seq(Bar) /\ Len(tape) <= Minutes
    /\ up \in BOOLEAN
    /\ minute \in 0..Len(tape)
    /\ engine \in Engines
    /\ served \in Seq(Bar)
    /\ disk \in Disks
    /\ journal \in Seq(JournalRows)
    /\ \A i \in 1..Len(journal) : journal[i].by <= launch
    /\ launch \in 0..MaxLaunches
    /\ missing \in 0..MaxMissing
    /\ outcome \in {"none", "skip", "done", "crash"}

\* A process that is past the opening range was handed a bar of it.
SomeBarServed == up => launch > 0 /\ (minute >= OrMinutes => served # <<>>)

\* Without the day's trade in state.json there is no position in it and no entry in the
\* journal; with it, there is one entry at most, and a running engine will not enter.
TakenGuardsEntry ==
    /\ ~disk.taken => disk.pos = Flat /\ Entries = {}
    /\ up /\ disk.taken => engine.complete
    /\ \A i, j \in Entries : i = j

SessionInv == SessionTypeOK /\ SomeBarServed /\ TakenGuardsEntry /\ StateMirrorsEngine

\* A row is put behind the journal.
LEMMA JournalGrows ==
    ASSUME journal \in Seq(JournalRows), \A i \in 1..Len(journal) : journal[i].by <= launch,
           launch \in 1..MaxLaunches, NEW ev \in Journalled,
           journal' = Append(journal, [by |-> launch, event |-> ev])
    PROVE  /\ journal' \in Seq(JournalRows)
           /\ \A i \in 1..Len(journal') : journal'[i].by <= launch
           /\ Entries' = IF ev.type = "opened" THEN Entries \union {Len(journal) + 1} ELSE Entries
<1> DEFINE row == [by |-> launch, event |-> ev]
<1>1. row \in JournalRows /\ row.by <= launch /\ row.event = ev
  BY DEF JournalRows
<1> HIDE DEF row
<1>2. /\ journal' \in Seq(JournalRows) /\ Len(journal) \in Nat /\ Len(journal') = Len(journal) + 1
      /\ journal'[Len(journal) + 1] = row /\ \A i \in 1..Len(journal) : journal'[i] = journal[i]
  BY <1>1 DEF row
<1>3. \A i \in 1..Len(journal') : journal'[i].by <= launch
  BY <1>1, <1>2
<1>4. Entries' = IF ev.type = "opened" THEN Entries \union {Len(journal) + 1} ELSE Entries
  <2>1. DOMAIN journal = 1..Len(journal) /\ DOMAIN journal' = 1..Len(journal) + 1
    BY <1>2
  <2> QED BY <1>1, <1>2, <2>1 DEF Entries
<1> QED BY <1>2, <1>3, <1>4

\* What the session loop does with a step of the engine keeps the books: an entry comes
\* only while the day's trade is not taken, and an exit only with a position.
LEMMA RecordEffect ==
    ASSUME SessionInv, up, NEW step, EngineSteps(engine, step), Record(step)
    PROVE  /\ engine' \in Engines /\ disk' \in Disks /\ journal' \in Seq(JournalRows)
           /\ \A i \in 1..Len(journal') : journal'[i].by <= launch
           /\ ~disk'.taken => disk'.pos = Flat /\ Entries' = {}
           /\ disk'.taken => engine'.complete
           /\ \A i, j \in Entries' : i = j
           /\ engine'.pos = disk'.pos
<1>1. /\ journal \in Seq(JournalRows) /\ \A i \in 1..Len(journal) : journal[i].by <= launch
      /\ launch \in 1..MaxLaunches /\ disk \in Disks /\ engine \in Engines
  BY DEF SessionInv, SessionTypeOK, SomeBarServed
<1>2. /\ ~disk.taken => disk.pos = Flat /\ Entries = {}
      /\ disk.taken => engine.complete
      /\ \A i, j \in Entries : i = j
      /\ engine.pos = disk.pos
  BY DEF SessionInv, TakenGuardsEntry, StateMirrorsEngine
<1>3. step.e \in Engines /\ (engine.complete => step.e.complete)
  BY DEF EngineSteps
<1>4. CASE Quiet(engine, step)
  <2>1. engine' = step.e /\ disk' = disk /\ journal' = journal
    BY <1>4 DEF Record, Quiet
  <2>2. Entries' = Entries
    BY <2>1 DEF Entries
  <2> QED BY <1>1, <1>2, <1>3, <1>4, <2>1, <2>2 DEF Quiet
<1>5. CASE Opens(engine, step)
  <2>1. PICK pos \in OpenPosition :
            step.events = <<Opened(pos)>> /\ step.e.pos = pos /\ ~engine.complete /\ step.e.complete
    BY <1>5 DEF Opens
  <2> DEFINE ev == [type |-> "opened", pos |-> pos]
  <2>2. step.events # <<>> /\ step.events[1] = ev /\ ev.type = "opened" /\ ev \in Journalled /\ ev.pos = pos
    BY <2>1 DEF Opened, Journalled
  <2> HIDE DEF ev
  <2>3. ~disk.taken
    BY <1>2, <2>1
  <2>4. TradeOpened(ev)
    BY <2>2, <2>3 DEF Record, Ignored
  <2>5. /\ engine' = Restored(TRUE, pos) /\ disk' = [taken |-> TRUE, pos |-> pos]
        /\ journal' = Append(journal, [by |-> launch, event |-> ev])
    BY <2>2, <2>4 DEF TradeOpened
  <2>6. engine' \in Engines /\ engine'.pos = pos /\ engine'.complete
    BY <2>5, EngineStarts
  <2>7. disk' \in Disks /\ disk'.taken = TRUE /\ disk'.pos = pos
    BY <2>5 DEF Disks
  <2>8. /\ journal' \in Seq(JournalRows) /\ \A i \in 1..Len(journal') : journal'[i].by <= launch
        /\ Entries' = Entries \union {Len(journal) + 1}
    BY <1>1, <2>2, <2>5, JournalGrows
  <2> QED BY <1>2, <2>3, <2>6, <2>7, <2>8
<1>6. CASE Closes(engine, step)
  <2>1. PICK trade \in Trades :
            /\ step.events = <<[type |-> "closed", trade |-> trade]>>
            /\ engine.pos # Flat /\ step.e.pos = Flat
    BY <1>6 DEF Closes
  <2> DEFINE ev == [type |-> "closed", trade |-> trade]
  <2>2. step.events # <<>> /\ step.events[1] = ev /\ ev.type # "opened" /\ ev \in Journalled
    BY <2>1 DEF Journalled
  <2> HIDE DEF ev
  <2>3. TradeClosed(step, ev)
    BY <1>2, <2>1, <2>2 DEF Record, Ignored
  <2>4. /\ engine' = step.e /\ disk' = [disk EXCEPT !.pos = Flat]
        /\ journal' = Append(journal, [by |-> launch, event |-> ev])
    BY <2>3 DEF TradeClosed
  <2>5. disk' \in Disks /\ disk'.taken = disk.taken /\ disk'.pos = Flat
    BY <1>1, <2>4 DEF Disks
  <2>6. /\ journal' \in Seq(JournalRows) /\ \A i \in 1..Len(journal') : journal'[i].by <= launch
        /\ Entries' = Entries
    BY <1>1, <2>2, <2>4, JournalGrows
  <2>7. disk.taken
    BY <1>2, <2>1
  <2> QED BY <1>2, <1>3, <2>1, <2>4, <2>5, <2>6, <2>7
<1> QED BY <1>4, <1>5, <1>6 DEF EngineSteps

\* Before the first process there is nothing in the books.
LEMMA SessionStarts == Init => SessionInv
<1> SUFFICES ASSUME Init PROVE SessionInv
  OBVIOUS
<1>1. <<>> \in Seq(Bar) /\ <<>> \in Seq(JournalRows) /\ Len(<<>>) = 0
  OBVIOUS
<1>2. SessionTypeOK
  <2>1. tape \in Seq(Bar) /\ Len(tape) <= Minutes /\ minute \in 0..Len(tape) /\ served \in Seq(Bar)
    BY <1>1 DEF Init
  <2>2. journal \in Seq(JournalRows) /\ \A i \in 1..Len(journal) : journal[i].by <= launch
    BY <1>1 DEF Init
  <2>3. up \in BOOLEAN /\ engine \in Engines /\ disk \in Disks
    BY EngineStarts DEF Init, Disks
  <2>4. launch \in 0..MaxLaunches /\ missing \in 0..MaxMissing
        /\ outcome \in {"none", "skip", "done", "crash"}
    BY DEF Init
  <2> QED BY <2>1, <2>2, <2>3, <2>4 DEF SessionTypeOK
<1>3. Entries = {}
  BY DEF Init, Entries
<1> QED BY <1>2, <1>3 DEF Init, SessionInv, SomeBarServed, TakenGuardsEntry, StateMirrorsEngine

\* The next bar of the market is one.
LEMMA NextBarIsBar ==
    ASSUME tape \in Seq(Bar), NEW shape \in Shapes PROVE NextBar(shape) \in Bar
<1>1. shape.gap \in Int /\ shape.up \in Int /\ shape.down \in Int /\ shape.move \in Int
  OBVIOUS
<1> DEFINE open == IF tape = <<>> THEN 0 ELSE tape[Len(tape)].close + shape.gap
<1>2. open \in Int
  <2>1. tape # <<>> => tape[Len(tape)] \in Bar
    OBVIOUS
  <2> QED BY <1>1, <2>1 DEF Bar
<1>3. NextBar(shape) = [at |-> Len(tape), open |-> open, high |-> open + shape.up,
                        low |-> open - shape.down, close |-> open + shape.move]
  BY DEF NextBar
<1>4. Len(tape) \in Nat
  OBVIOUS
<1> HIDE DEF open
<1> QED BY <1>1, <1>2, <1>3, <1>4 DEF Bar

\* A minute of the market: the process is at most one behind.
LEMMA MinuteKeeps == SessionInv /\ MarketMinute => SessionInv'
<1> SUFFICES ASSUME SessionInv, MarketMinute PROVE SessionInv'
  OBVIOUS
<1>1. PICK shape \in Shapes : tape' = Append(tape, NextBar(shape))
  BY DEF MarketMinute
<1>2. tape \in Seq(Bar) /\ Len(tape) \in Nat /\ minute \in 0..Len(tape)
  BY DEF SessionInv, SessionTypeOK
<1>3. tape' \in Seq(Bar) /\ Len(tape') = Len(tape) + 1
  BY <1>1, <1>2, NextBarIsBar
<1>4. /\ Len(tape') <= Minutes
      /\ UNCHANGED <<up, minute, engine, served, disk, journal, launch, missing, outcome>>
  BY <1>2, <1>3 DEF MarketMinute
<1>5. minute' \in 0..Len(tape')
  BY <1>2, <1>3, <1>4
<1>6. SessionTypeOK'
  BY <1>3, <1>4, <1>5 DEF SessionInv, SessionTypeOK
<1> QED BY <1>4, <1>6 DEF SessionInv, SomeBarServed, TakenGuardsEntry, StateMirrorsEngine, Entries

\* A process starts with the engine that state.json gives it.
LEMMA LaunchKeeps == SessionInv /\ Launch => SessionInv'
<1> SUFFICES ASSUME SessionInv, Launch PROVE SessionInv'
  OBVIOUS
<1>1. /\ disk' = disk /\ journal' = journal /\ tape' = tape /\ missing' = missing
      /\ launch' = launch + 1 /\ launch < MaxLaunches /\ minute' = 0 /\ served' = <<>>
      /\ engine' = StartupEngine /\ up' \in BOOLEAN /\ outcome' \in {"none", "skip"}
  BY DEF Launch
<1>2. disk \in Disks /\ disk.pos \in OpenPosition \union {Flat}
  BY DEF SessionInv, SessionTypeOK, Disks
<1>3. engine' \in Engines /\ engine'.pos = disk'.pos /\ (disk'.taken => engine'.complete)
  <2>1. CASE disk.taken
    BY <1>1, <1>2, <2>1, EngineStarts DEF StartupEngine
  <2>2. CASE ~disk.taken
    BY <1>1, <2>2, EngineStarts DEF StartupEngine, SessionInv, TakenGuardsEntry
  <2> QED BY <2>1, <2>2
<1>4. launch' \in 1..MaxLaunches /\ \A i \in 1..Len(journal') : journal'[i].by <= launch'
  <2>1. launch \in 0..MaxLaunches /\ \A i \in 1..Len(journal) : journal[i].by <= launch /\ journal[i].by \in Int
    <3>1. journal \in Seq(JournalRows) /\ launch \in 0..MaxLaunches
          /\ \A i \in 1..Len(journal) : journal[i].by <= launch
      BY DEF SessionInv, SessionTypeOK
    <3>2. \A i \in 1..Len(journal) : journal[i] \in JournalRows
      BY <3>1
    <3> QED BY <3>1, <3>2 DEF JournalRows
  <2> QED BY <1>1, <2>1
<1>5. <<>> \in Seq(Bar) /\ 0 \in 0..Len(tape)
  BY DEF SessionInv, SessionTypeOK
<1>6. SessionTypeOK'
  BY <1>1, <1>3, <1>4, <1>5 DEF SessionInv, SessionTypeOK
<1>7. SomeBarServed'
  BY <1>1, <1>4 DEF SomeBarServed
<1>8. Entries' = Entries
  BY <1>1 DEF Entries
<1>9. TakenGuardsEntry' /\ StateMirrorsEngine'
  BY <1>1, <1>3, <1>8 DEF SessionInv, TakenGuardsEntry, StateMirrorsEngine
<1> QED BY <1>6, <1>7, <1>9 DEF SessionInv

\* A bar is handed to the engine.
LEMMA ServeKeeps == SessionInv /\ ServeBar => SessionInv'
<1> SUFFICES ASSUME SessionInv, ServeBar PROVE SessionInv'
  OBVIOUS
<1> DEFINE bar == tape[minute + 1]
<1>1. /\ tape \in Seq(Bar) /\ Len(tape) \in Nat /\ minute \in 0..Len(tape) /\ engine \in Engines
      /\ served \in Seq(Bar)
  BY DEF SessionInv, SessionTypeOK
<1>2. /\ up /\ minute < Len(tape) /\ Record(OnBar(engine, bar)) /\ served' = Append(served, bar)
      /\ minute' = minute + 1 /\ UNCHANGED <<tape, up, launch, missing, outcome>>
  BY DEF ServeBar
<1>3. bar \in Bar
  BY <1>1, <1>2
<1> HIDE DEF bar
<1>4. EngineSteps(engine, OnBar(engine, bar))
  BY <1>1, <1>3, BarSteps
<1>5. /\ engine' \in Engines /\ disk' \in Disks /\ journal' \in Seq(JournalRows)
      /\ \A i \in 1..Len(journal') : journal'[i].by <= launch
      /\ ~disk'.taken => disk'.pos = Flat /\ Entries' = {}
      /\ disk'.taken => engine'.complete
      /\ \A i, j \in Entries' : i = j
      /\ engine'.pos = disk'.pos
  BY <1>2, <1>4, RecordEffect
<1>6. served' \in Seq(Bar) /\ served' # <<>> /\ minute' \in 0..Len(tape')
  BY <1>1, <1>2, <1>3
<1>7. SessionTypeOK'
  BY <1>2, <1>5, <1>6 DEF SessionInv, SessionTypeOK
<1>8. SomeBarServed'
  BY <1>2, <1>6 DEF SessionInv, SomeBarServed
<1>9. TakenGuardsEntry' /\ StateMirrorsEngine'
  BY <1>5 DEF TakenGuardsEntry, StateMirrorsEngine
<1> QED BY <1>7, <1>8, <1>9 DEF SessionInv

\* A bar is given up: not the last of the opening range, which ends the day.
LEMMA GiveUpKeeps == SessionInv /\ GiveUpBar => SessionInv'
<1> SUFFICES ASSUME SessionInv, GiveUpBar PROVE SessionInv'
  OBVIOUS
<1>1. /\ tape \in Seq(Bar) /\ Len(tape) \in Nat /\ minute \in 0..Len(tape) /\ missing \in 0..MaxMissing
      /\ outcome \in {"none", "skip", "done", "crash"}
  BY DEF SessionInv, SessionTypeOK
<1>2. /\ up /\ minute < Len(tape) /\ missing < MaxMissing /\ missing' = missing + 1
      /\ UNCHANGED <<tape, engine, served, disk, journal, launch>>
      /\ \/ minute' = minute /\ up' = FALSE /\ outcome' = "skip"
         \/ /\ ~(minute < OrMinutes /\ Len(tape) >= OrMinutes)
            /\ minute' = minute + 1 /\ up' = up /\ outcome' = outcome
  BY DEF GiveUpBar, PastOrDeadline
<1>3. minute' \in 0..Len(tape') /\ missing' \in 0..MaxMissing /\ up' \in BOOLEAN
      /\ outcome' \in {"none", "skip", "done", "crash"}
  <2>1. missing' \in 0..MaxMissing
    BY <1>1, <1>2
  <2>2. minute' \in 0..Len(tape')
    <3>1. (minute' = minute \/ minute' = minute + 1) /\ tape' = tape /\ minute < Len(tape)
      BY <1>2
    <3> QED BY <1>1, <3>1
  <2>3. up' \in BOOLEAN
    BY <1>2 DEF SessionInv, SessionTypeOK
  <2>4. outcome' \in {"none", "skip", "done", "crash"}
    BY <1>1, <1>2
  <2> QED BY <2>1, <2>2, <2>3, <2>4
<1>4. SessionTypeOK'
  BY <1>2, <1>3 DEF SessionInv, SessionTypeOK
<1>5. SomeBarServed'
  <2> SUFFICES ASSUME up' PROVE launch' > 0 /\ (minute' >= OrMinutes => served' # <<>>)
    BY DEF SomeBarServed
  <2>1. minute' = minute + 1 /\ (minute' >= OrMinutes => minute >= OrMinutes)
    BY <1>1, <1>2
  <2> QED BY <1>2, <2>1 DEF SessionInv, SomeBarServed
<1>6. Entries' = Entries
  BY <1>2 DEF Entries
<1>7. TakenGuardsEntry' /\ StateMirrorsEngine'
  BY <1>2, <1>6 DEF SessionInv, TakenGuardsEntry, StateMirrorsEngine
<1> QED BY <1>4, <1>5, <1>7 DEF SessionInv

\* The window ends: what is open is closed at the last bar that was handed over.
LEMMA SessionEndKeeps == SessionInv /\ SessionEnd => SessionInv'
<1> SUFFICES ASSUME SessionInv, SessionEnd PROVE SessionInv'
  OBVIOUS
<1> DEFINE last == served[Len(served)]
<1>1. /\ up /\ minute = Minutes /\ up' = FALSE /\ outcome' = "done"
      /\ Record(OnSessionEnd(engine, last))
      /\ UNCHANGED <<tape, minute, served, launch, missing>>
  BY DEF SessionEnd
<1>2. last \in Bar
  <2>1. served # <<>> /\ served \in Seq(Bar)
    BY <1>1 DEF SessionInv, SessionTypeOK, SomeBarServed
  <2> QED BY <2>1
<1> HIDE DEF last
<1>3. EngineSteps(engine, OnSessionEnd(engine, last))
  BY <1>2, EndSteps DEF SessionInv, SessionTypeOK
<1>4. /\ engine' \in Engines /\ disk' \in Disks /\ journal' \in Seq(JournalRows)
      /\ \A i \in 1..Len(journal') : journal'[i].by <= launch
      /\ ~disk'.taken => disk'.pos = Flat /\ Entries' = {}
      /\ \A i, j \in Entries' : i = j
  BY <1>1, <1>3, RecordEffect
<1>5. SessionTypeOK'
  BY <1>1, <1>4 DEF SessionInv, SessionTypeOK
<1> QED BY <1>1, <1>4, <1>5 DEF SessionInv, SomeBarServed, TakenGuardsEntry, StateMirrorsEngine

\* A process dies: its books are on disk.
LEMMA CrashKeeps == SessionInv /\ Crash => SessionInv'
<1> SUFFICES ASSUME SessionInv, Crash PROVE SessionInv'
  OBVIOUS
<1>1. /\ up' = FALSE /\ outcome' = "crash"
      /\ UNCHANGED <<tape, minute, engine, served, disk, journal, launch, missing>>
  BY DEF Crash
<1>2. SessionTypeOK'
  BY <1>1 DEF SessionInv, SessionTypeOK
<1>3. Entries' = Entries
  BY <1>1 DEF Entries
<1> QED BY <1>1, <1>2, <1>3 DEF SessionInv, SomeBarServed, TakenGuardsEntry, StateMirrorsEngine

\* SessionInv is an invariant of a paper day.
THEOREM SessionInvariant == Spec => []SessionInv
<1>1. SessionInv /\ [Next]_vars => SessionInv'
  <2> SUFFICES ASSUME SessionInv, [Next]_vars PROVE SessionInv'
    OBVIOUS
  <2>1. CASE UNCHANGED vars
    <3>1. Entries' = Entries
      BY <2>1 DEF vars, Entries
    <3>2. SessionTypeOK'
      BY <2>1 DEF vars, SessionInv, SessionTypeOK
    <3> QED BY <2>1, <3>1, <3>2
            DEF vars, SessionInv, SomeBarServed, TakenGuardsEntry, StateMirrorsEngine
  <2> QED BY <2>1, MinuteKeeps, LaunchKeeps, ServeKeeps, GiveUpKeeps, SessionEndKeeps, CrashKeeps
          DEF Next, Feed
<1> QED BY SessionStarts, <1>1, PTL DEF Spec

\* However often the process is relaunched: one position at most is opened in the day, and
\* the engine of a running process manages the position of state.json.
THEOREM PaperBooksAlwaysAgree == Spec => []PaperBooksAgree
<1>1. SessionInv => PaperBooksAgree
  <2> SUFFICES ASSUME SessionInv PROVE Cardinality(Entries) <= 1
    BY DEF SessionInv, PaperBooksAgree, OneTradePerDay
  <2>1. CASE Entries = {}
    BY <2>1, FS_EmptySet
  <2>2. CASE Entries # {}
    <3>1. PICK i : Entries = {i}
      BY <2>2 DEF SessionInv, TakenGuardsEntry
    <3>2. Cardinality({i}) = 1
      BY FS_Singleton
    <3> QED BY <3>1, <3>2
  <2> QED BY <2>1, <2>2
<1> QED BY SessionInvariant, <1>1, PTL

\* Every variable of a paper day keeps its type; a position's risk is positive.
THEOREM PaperTypeCorrect == Spec => []TypeOK
<1>1. SessionInv => TypeOK
  <2> SUFFICES ASSUME SessionInv PROVE TypeOK
    OBVIOUS
  <2>1. OpenPosition \union {Flat} \subseteq Position
    BY DEF OpenPosition, Flat, Position
  <2>2. \A pos \in OpenPosition \union {Flat} : pos # Flat => pos.risk > 0
    BY DEF OpenPosition
  <2>3. /\ engine.range \in Seq(Bar)
        /\ engine.complete \in BOOLEAN /\ engine.taken \in BOOLEAN
        /\ engine.earned \in BOOLEAN /\ engine.pending \in BOOLEAN
        /\ engine.pos \in OpenPosition \union {Flat}
    BY DEF SessionInv, SessionTypeOK, Engines
  <2>4. disk.taken \in BOOLEAN /\ disk.pos \in OpenPosition \union {Flat}
    BY DEF SessionInv, SessionTypeOK, Disks
  <2>5. \A i \in DOMAIN journal : journal[i].by \in 1..launch
    <3>1. journal \in Seq(JournalRows) /\ launch \in 0..MaxLaunches
      BY DEF SessionInv, SessionTypeOK
    <3>2. DOMAIN journal = 1..Len(journal) /\ \A i \in 1..Len(journal) : journal[i] \in JournalRows
      BY <3>1
    <3>3. \A i \in 1..Len(journal) : journal[i].by <= launch
      BY DEF SessionInv, SessionTypeOK
    <3> QED BY <3>1, <3>2, <3>3 DEF JournalRows
  <2> QED BY <2>1, <2>2, <2>3, <2>4, <2>5 DEF SessionInv, SessionTypeOK, TypeOK
<1> QED BY SessionInvariant, <1>1, PTL

-----------------------------------------------------------------------------
(* The replay                                                                *)

HIDE SessionAssumption
USE ReplayAssumption

Holdings == [pos : OpenPosition, contracts : Nat \ {0}] \union {NotHeld}
Books == [date : Nat, taken : BOOLEAN, realized : Int, held : Holdings]

DayOK == date \in Nat /\ day \in Seq(Bar) /\ fed \in 0..Len(day)

\* state.json and trades.csv tell of the same session: nothing without the day's trade, and
\* with it what is held or the one row that is left of it.
BookOK ==
    /\ book \in Books /\ book.date <= date
    /\ rows = <<>> \/ \E row : row.usd \in Int /\ rows = <<row>>
    /\ book.date # date => rows = <<>>
    /\ book.date = date =>
          /\ book.realized = TotalUsd(rows)
          /\ ~book.taken => rows = <<>> /\ book.held = NotHeld
          /\ rows # <<>> => book.held = NotHeld

\* A running engine manages what is held and saved, or a trade that was too big to take;
\* and with the day's trade taken it will not enter.
Managed ==
    /\ book.date = date /\ brain \in Engines
    /\ held = book.held
    /\ brain.pos = held.pos \/ (held = NotHeld /\ book.taken)
    /\ book.taken => brain.complete

ReplayInv == DayOK /\ BookOK /\ (active => Managed)

\* What is held is of contracts, and worth dollars.
LEMMA HoldingsOK ==
    /\ NotHeld \in Holdings /\ NotHeld.pos = Flat
    /\ \A pos \in OpenPosition, n \in Nat \ {0} :
          LET h == [pos |-> pos, contracts |-> n] IN h \in Holdings /\ h # NotHeld /\ h.pos = pos
    /\ \A h \in Holdings, price \in Int : h # NotHeld => Usd(h, price) \in Int
<1>1. NotHeld \in Holdings /\ NotHeld.pos = Flat /\ NotHeld.contracts = 0
  BY DEF Holdings, NotHeld
<1>2. ASSUME NEW pos \in OpenPosition, NEW n \in Nat \ {0}
      PROVE  LET h == [pos |-> pos, contracts |-> n] IN h \in Holdings /\ h # NotHeld /\ h.pos = pos
  <2> DEFINE h == [pos |-> pos, contracts |-> n]
  <2>1. h \in Holdings /\ h.pos = pos /\ h.contracts = n
    BY DEF Holdings
  <2> QED BY <1>1, <2>1
<1>3. ASSUME NEW h \in Holdings, NEW price \in Int, h # NotHeld PROVE Usd(h, price) \in Int
  <2>1. h.pos \in OpenPosition /\ h.contracts \in Int
    BY <1>3 DEF Holdings
  <2>2. h.pos.entry \in Int /\ Sign(h.pos.dir) \in Int /\ PointValue \in Int
    BY <2>1 DEF OpenPosition, Sign
  <2> QED BY <2>1, <2>2 DEF Usd
<1> QED BY <1>1, <1>2, <1>3

\* contracts_for a positive risk
LEMMA ContractsAreCounted == ASSUME NEW risk \in Nat \ {0} PROVE ContractsFor(risk) \in Nat
<1> DEFINE d == risk * PointValue
<1>1. d \in Nat /\ d > 0
  OBVIOUS
<1> HIDE DEF d
<1>2. RiskUsd \div d \in Nat
  BY <1>1
<1> QED BY <1>2 DEF ContractsFor, d

\* A position is closed: the row of it is the session's only one.
LEMMA BookedEffect ==
    ASSUME BookOK, Managed, held # NotHeld, NEW exitAt, NEW exit \in Int, NEW reason,
           Booked(exitAt, exit, reason), date' = date
    PROVE  BookOK' /\ held' = NotHeld /\ book'.held = NotHeld /\ book'.date = date /\ book'.taken = book.taken
<1> DEFINE usd == Usd(held, exit)
           row == [trade |-> Trade(held.pos.dir, held.pos.at, held.pos.entry, exitAt, exit, reason),
                   contracts |-> held.contracts, usd |-> usd]
<1>1. /\ book \in Books /\ book.date = date /\ book.held = held /\ held \in Holdings
      /\ book.taken /\ rows = <<>> /\ book.realized = TotalUsd(rows)
  BY DEF BookOK, Managed, Books
<1>2. usd \in Int
  BY <1>1, HoldingsOK
<1>3. /\ rows' = Append(rows, row) /\ held' = NotHeld
      /\ book' = [book EXCEPT !.realized = book.realized + usd, !.held = NotHeld]
  BY DEF Booked
<1>4. row.usd = usd
  OBVIOUS
<1> HIDE DEF row, usd
<1>5. rows' = <<row>>
  BY <1>1, <1>3
<1>6. TotalUsd(rows) = 0 /\ TotalUsd(rows') = usd
  BY <1>1, <1>2, <1>4, <1>5, TotalOfNone, TotalOfOne
<1>7. /\ book' \in Books /\ book'.date = date /\ book'.taken = book.taken
      /\ book'.realized = usd /\ book'.held = NotHeld
  <2>1. PICK n \in Int : n = book.realized + usd /\ n = usd
    BY <1>1, <1>2, <1>6
  <2>2. book' = [book EXCEPT !.realized = n, !.held = NotHeld]
    BY <1>3, <2>1
  <2> QED BY <1>1, <2>1, <2>2, HoldingsOK DEF Books
<1>8. BookOK'
  <2>1. date \in Int
    BY <1>1 DEF Books
  <2>2. \E r : r.usd \in Int /\ rows' = <<r>>
    BY <1>2, <1>4, <1>5
  <2>3. book'.date <= date' /\ book'.date = date'
    BY <1>7, <2>1
  <2>4. TotalUsd(rows') = TotalUsd(rows)'
    OBVIOUS
  <2> QED BY <1>1, <1>6, <1>7, <2>2, <2>3, <2>4 DEF BookOK
<1> QED BY <1>3, <1>7, <1>8

\* What the loop does with a step of the engine keeps the books.
LEMMA ActEffect ==
    ASSUME BookOK, Managed, NEW step, EngineSteps(brain, step), Act(step), date' = date
    PROVE  BookOK' /\ Managed'
<1>1. /\ book \in Books /\ book.date = date /\ held = book.held /\ held \in Holdings
      /\ brain \in Engines /\ (book.taken => brain.complete)
      /\ brain.pos = held.pos \/ (held = NotHeld /\ book.taken)
      /\ ~book.taken => rows = <<>> /\ book.held = NotHeld
      /\ book.realized = TotalUsd(rows)
  BY DEF BookOK, Managed, Books
<1>2. brain' = step.e /\ step.e \in Engines /\ (brain.complete => step.e.complete)
  BY DEF Act, EngineSteps
<1>3. ASSUME UNCHANGED <<held, book, rows>> PROVE BookOK'
  BY <1>3 DEF BookOK
<1>4. CASE Quiet(brain, step)
  <2>1. held' = held /\ book' = book /\ rows' = rows /\ step.e.pos = brain.pos
    BY <1>4 DEF Act, Quiet
  <2>2. Managed'
    BY <1>1, <1>2, <2>1 DEF Managed
  <2> QED BY <1>3, <2>1, <2>2
<1>5. CASE Opens(brain, step)
  <2>1. PICK pos \in OpenPosition :
            step.events = <<Opened(pos)>> /\ step.e.pos = pos /\ ~brain.complete /\ step.e.complete
    BY <1>5 DEF Opens
  <2> DEFINE ev == [type |-> "opened", pos |-> pos]
  <2>2. step.events # <<>> /\ step.events[1] = ev /\ ev.type = "opened" /\ ev.pos = pos
    BY <2>1 DEF Opened
  <2> HIDE DEF ev
  <2>3. ~book.taken /\ rows = <<>> /\ book.held = NotHeld
    BY <1>1, <2>1
  <2>4. EntersOn(ev)
    BY <2>2 DEF Act
  <2> DEFINE contracts == ContractsFor(pos.risk)
             h == [pos |-> pos, contracts |-> contracts]
  <2>5. contracts \in Nat
    BY ContractsAreCounted DEF OpenPosition
  <2> HIDE DEF contracts
  <2>6. /\ rows' = rows
        /\ IF contracts = 0 THEN book' = [book EXCEPT !.taken = TRUE] /\ held' = held
           ELSE held' = h /\ book' = [book EXCEPT !.taken = TRUE, !.held = h]
    BY <2>2, <2>3, <2>4 DEF EntersOn, contracts
  <2>7. TotalUsd(rows') = TotalUsd(rows)'
    OBVIOUS
  <2>8. CASE contracts = 0
    <3>1. /\ book' \in Books /\ book'.date = date /\ book'.taken = TRUE
          /\ book'.realized = book.realized /\ book'.held = NotHeld
      BY <1>1, <2>3, <2>6, <2>8 DEF Books
    <3>2. BookOK'
      BY <1>1, <2>3, <2>6, <2>7, <3>1 DEF BookOK, Books
    <3>3. held' = NotHeld
      BY <1>1, <2>3, <2>6, <2>8
    <3>4. Managed'
      BY <1>2, <2>1, <3>1, <3>3 DEF Managed
    <3> QED BY <3>2, <3>4
  <2>9. CASE contracts # 0
    <3>1. h \in Holdings /\ h # NotHeld /\ h.pos = pos
      BY <2>5, <2>9, HoldingsOK
    <3> HIDE DEF h
    <3>2. /\ book' \in Books /\ book'.date = date /\ book'.taken = TRUE
          /\ book'.realized = book.realized /\ book'.held = h
      BY <1>1, <2>6, <2>9, <3>1 DEF Books
    <3>3. BookOK'
      BY <1>1, <2>3, <2>6, <2>7, <3>2 DEF BookOK, Books
    <3>4. Managed'
      BY <1>2, <2>1, <2>6, <2>9, <3>1, <3>2 DEF Managed
    <3> QED BY <3>3, <3>4
  <2> QED BY <2>8, <2>9
<1>6. CASE Closes(brain, step)
  <2>1. PICK trade \in Trades :
            /\ step.events = <<[type |-> "closed", trade |-> trade]>>
            /\ brain.pos # Flat /\ step.e.pos = Flat
    BY <1>6 DEF Closes
  <2> DEFINE ev == [type |-> "closed", trade |-> trade]
  <2>2. step.events # <<>> /\ step.events[1] = ev /\ ev.type # "opened" /\ ev.trade = trade
    BY <2>1
  <2> HIDE DEF ev
  <2>3. ExitsOn(ev)
    BY <2>2 DEF Act
  <2>4. trade.exit \in Int
    BY DEF Trades
  <2>5. CASE held = NotHeld
    <3>1. held' = held /\ book' = book /\ rows' = rows
      BY <2>3, <2>5 DEF ExitsOn
    <3>2. Managed'
      BY <1>1, <1>2, <2>1, <2>5, <3>1, HoldingsOK DEF Managed
    <3> QED BY <1>3, <3>1, <3>2
  <2>6. CASE held # NotHeld
    <3>1. Booked(trade.exitAt, trade.exit, trade.reason)
      BY <2>2, <2>3, <2>6 DEF ExitsOn
    <3>2. BookOK' /\ held' = NotHeld /\ book'.held = NotHeld /\ book'.date = date /\ book'.taken = book.taken
      BY <2>4, <2>6, <3>1, BookedEffect
    <3>3. Managed'
      BY <1>1, <1>2, <2>1, <3>2, HoldingsOK DEF Managed
    <3> QED BY <3>2, <3>3
  <2> QED BY <2>5, <2>6
<1> QED BY <1>4, <1>5, <1>6 DEF EngineSteps

\* The first run has not begun.
LEMMA ReplayStarts == ReplayInit => ReplayInv
<1> SUFFICES ASSUME ReplayInit PROVE ReplayInv
  OBVIOUS
<1>1. DayOK
  <2>1. <<>> \in Seq(Bar) /\ Len(<<>>) = 0
    OBVIOUS
  <2> QED BY <2>1 DEF ReplayInit, DayOK
<1>2. BookOK
  <2>1. book \in Books /\ book.date = 0
    BY HoldingsOK DEF ReplayInit, Books
  <2> QED BY <2>1 DEF ReplayInit, BookOK
<1> QED BY <1>1, <1>2 DEF ReplayInit, ReplayInv

\* A run begins with what is saved of the session.
LEMMA BeginKeeps == ReplayInv /\ Begin => ReplayInv'
<1> SUFFICES ASSUME ReplayInv, Begin PROVE ReplayInv'
  OBVIOUS
<1>1. /\ book' = Rolled /\ held' = Rolled.held /\ fed' = 0
      /\ brain' = IF Rolled.taken THEN Restored(TRUE, Rolled.held.pos) ELSE Fresh
      /\ date' = date /\ day' = day /\ rows' = rows
  BY DEF Begin
<1>2. DayOK'
  BY <1>1 DEF ReplayInv, DayOK
<1>3. BookOK /\ date \in Nat
  BY DEF ReplayInv, DayOK
<1>4. /\ Rolled \in Books /\ Rolled.date = date
      /\ rows = <<>> \/ \E row : row.usd \in Int /\ rows = <<row>>
      /\ Rolled.realized = TotalUsd(rows)
      /\ ~Rolled.taken => rows = <<>> /\ Rolled.held = NotHeld
      /\ rows # <<>> => Rolled.held = NotHeld
  <2>1. CASE book.date = date
    BY <1>3, <2>1 DEF Rolled, BookOK
  <2>2. CASE book.date # date
    <3>1. Rolled = [date |-> date, taken |-> FALSE, realized |-> 0, held |-> NotHeld]
      BY <2>2 DEF Rolled
    <3>2. rows = <<>> /\ TotalUsd(rows) = 0
      BY <1>3, <2>2, TotalOfNone DEF BookOK
    <3> QED BY <1>3, <3>1, <3>2, HoldingsOK DEF Books
  <2> QED BY <2>1, <2>2
<1>5. BookOK'
  <2>1. TotalUsd(rows)' = TotalUsd(rows)
    BY <1>1
  <2> QED BY <1>1, <1>3, <1>4, <2>1 DEF BookOK
<1>6. Managed'
  <2>1. CASE Rolled.taken
    <3>1. Rolled.held.pos \in OpenPosition \union {Flat}
      BY <1>4 DEF Books, Holdings, NotHeld
    <3> QED BY <1>1, <1>4, <2>1, <3>1, EngineStarts DEF Managed
  <2>2. CASE ~Rolled.taken
    BY <1>1, <1>4, <2>2, EngineStarts, HoldingsOK DEF Managed
  <2> QED BY <2>1, <2>2
<1> QED BY <1>2, <1>5, <1>6 DEF ReplayInv

\* What the loop reads next is a bar.
LEMMA ReadsBars ==
    ASSUME DayOK, NEW bar \in ReadBars, Reads(bar)
    PROVE  bar \in Bar /\ day' \in Seq(Bar) /\ fed + 1 \in 0..Len(day')
<1>1. day \in Seq(Bar) /\ Len(day) \in Nat /\ fed \in 0..Len(day)
  BY DEF DayOK
<1>2. \A shape \in ReplayShapes : NextShape(shape) \in Bar
  <2> SUFFICES ASSUME NEW shape \in ReplayShapes PROVE NextShape(shape) \in Bar
    OBVIOUS
  <2>1. shape.gap \in Int /\ shape.up \in Int /\ shape.down \in Int /\ shape.move \in Int
    OBVIOUS
  <2> DEFINE open == IF day = <<>> THEN 0 ELSE day[Len(day)].close + shape.gap
  <2>2. open \in Int
    <3>1. day # <<>> => day[Len(day)] \in Bar
      BY <1>1
    <3> QED BY <2>1, <3>1 DEF Bar
  <2>3. NextShape(shape) = [at |-> Len(day), open |-> open, high |-> open + shape.up,
                            low |-> open - shape.down, close |-> open + shape.move]
    BY DEF NextShape
  <2> HIDE DEF open
  <2> QED BY <1>1, <2>1, <2>2, <2>3 DEF Bar
<1>3. bar \in Bar
  <2>1. fed < Len(day) => day[fed + 1] \in Bar
    BY <1>1
  <2> QED BY <1>2, <2>1 DEF ReadBars
<1>4. CASE fed < Len(day) /\ day' = day
  BY <1>1, <1>3, <1>4
<1>5. CASE fed = Len(day) /\ day' = Append(day, bar)
  BY <1>1, <1>3, <1>5
<1> QED BY <1>4, <1>5, <1>3 DEF Reads

\* A bar: the cap closes what is held, or the engine sees it, or the halted loop does not.
LEMMA HandleKeeps == ReplayInv /\ HandleBar => ReplayInv'
<1> SUFFICES ASSUME ReplayInv, HandleBar PROVE ReplayInv'
  OBVIOUS
<1>1. /\ active /\ fed' = fed + 1 /\ date' = date /\ active' = active
      /\ DayOK /\ BookOK /\ Managed
  BY DEF HandleBar, ReplayInv
<1>2. PICK bar \in ReadBars : Reads(bar) /\ (CapFlattens(bar) \/ EngineSees(bar) \/ HaltedBar)
  BY DEF HandleBar
<1>3. bar \in Bar /\ day' \in Seq(Bar) /\ fed + 1 \in 0..Len(day')
  BY <1>1, <1>2, ReadsBars
<1>4. DayOK'
  BY <1>1, <1>3 DEF DayOK
<1>5. CASE CapFlattens(bar)
  <2>1. held # NotHeld /\ Booked(bar.at, bar.close, "daily_loss_cap") /\ brain' = Restored(TRUE, Flat)
    BY <1>5 DEF CapFlattens, HitsCap
  <2>2. BookOK' /\ held' = NotHeld /\ book'.held = NotHeld /\ book'.date = date
    BY <1>1, <1>3, <2>1, BookedEffect DEF Bar
  <2>3. Managed'
    BY <1>1, <2>1, <2>2, EngineStarts, HoldingsOK DEF Managed
  <2> QED BY <1>4, <2>2, <2>3 DEF ReplayInv
<1>6. CASE EngineSees(bar)
  <2>1. EngineSteps(brain, OnBar(brain, bar))
    BY <1>1, <1>3, BarSteps DEF Managed
  <2>2. BookOK' /\ Managed'
    BY <1>1, <1>6, <2>1, ActEffect DEF EngineSees
  <2> QED BY <1>4, <2>2 DEF ReplayInv
<1>7. CASE HaltedBar
  <2>1. brain' = brain /\ held' = held /\ book' = book /\ rows' = rows
    BY <1>7 DEF HaltedBar
  <2>2. BookOK' /\ Managed'
    BY <1>1, <2>1 DEF BookOK, Managed
  <2> QED BY <1>4, <2>2 DEF ReplayInv
<1> QED BY <1>2, <1>5, <1>6, <1>7

\* The engine raises: what is held is closed, and the run is over.
LEMMA RaiseKeeps == ReplayInv /\ Raise => ReplayInv'
<1> SUFFICES ASSUME ReplayInv, Raise PROVE ReplayInv'
  OBVIOUS
<1>1. /\ active /\ fed' = 0 /\ date' = date /\ active' = FALSE
      /\ DayOK /\ BookOK /\ Managed
  BY DEF Raise, ReplayInv
<1>2. PICK bar \in ReadBars :
          /\ Reads(bar)
          /\ IF held = NotHeld THEN UNCHANGED <<rows, book, held>>
             ELSE Booked(bar.at, bar.close, "flatten_on_error")
  BY DEF Raise
<1>3. bar \in Bar /\ day' \in Seq(Bar) /\ fed + 1 \in 0..Len(day')
  BY <1>1, <1>2, ReadsBars
<1>4. DayOK'
  BY <1>1, <1>3 DEF DayOK
<1>5. BookOK'
  <2>1. CASE held = NotHeld
    BY <1>1, <1>2, <2>1 DEF BookOK
  <2>2. CASE held # NotHeld
    BY <1>1, <1>2, <1>3, <2>2, BookedEffect DEF Bar
  <2> QED BY <2>1, <2>2
<1> QED BY <1>1, <1>4, <1>5 DEF ReplayInv

\* The run is killed.
LEMMA KillKeeps == ReplayInv /\ Kill => ReplayInv'
<1> SUFFICES ASSUME ReplayInv, Kill PROVE ReplayInv'
  OBVIOUS
<1>1. fed' = 0 /\ active' = FALSE /\ date' = date /\ day' = day /\ book' = book /\ rows' = rows
  BY DEF Kill
<1>2. DayOK' /\ BookOK'
  BY <1>1 DEF ReplayInv, DayOK, BookOK
<1> QED BY <1>1, <1>2 DEF ReplayInv

\* The session ends: what is held is closed at its last close.
LEMMA EndKeeps == ReplayInv /\ EndSession => ReplayInv'
<1> SUFFICES ASSUME ReplayInv, EndSession PROVE ReplayInv'
  OBVIOUS
<1> DEFINE step == OnSessionEnd(brain, day[Len(day)])
<1>1. /\ active /\ active' = FALSE /\ UNCHANGED <<date, day, fed>>
      /\ DayOK /\ BookOK /\ Managed /\ fed = ReplayMinutes /\ fed = Len(day)
      /\ brain' = step.e
      /\ IF step.events = <<>> THEN UNCHANGED <<held, book, rows>> ELSE ExitsOn(step.events[1])
  BY DEF EndSession, ReplayInv
<1>2. day[Len(day)] \in Bar
  <2>1. day \in Seq(Bar) /\ Len(day) > 0
    BY <1>1 DEF DayOK
  <2> QED BY <2>1
<1>3. EngineSteps(brain, step) /\ ~Opens(brain, step)
  BY <1>1, <1>2, EndSteps DEF Managed
<1> HIDE DEF step
<1>4. Act(step)
  <2>1. CASE Quiet(brain, step)
    BY <1>1, <2>1 DEF Act, Quiet
  <2>2. CASE Closes(brain, step)
    BY <1>1, <2>2 DEF Act, Closes
  <2> QED BY <1>3, <2>1, <2>2 DEF EngineSteps
<1>5. BookOK'
  BY <1>1, <1>3, <1>4, ActEffect
<1>6. DayOK'
  BY <1>1 DEF DayOK
<1> QED BY <1>1, <1>5, <1>6 DEF ReplayInv

\* The next session: nothing of it is saved.
LEMMA NextSessionKeeps == ReplayInv /\ NextSession => ReplayInv'
<1> SUFFICES ASSUME ReplayInv, NextSession PROVE ReplayInv'
  OBVIOUS
<1>1. /\ date' = date + 1 /\ day' = <<>> /\ fed' = 0 /\ rows' = <<>>
      /\ active' = active /\ ~active /\ book' = book
  BY DEF NextSession
<1>2. DayOK'
  BY <1>1 DEF ReplayInv, DayOK
<1>3. book'.date <= date' /\ book'.date # date' /\ book' \in Books
  BY <1>1 DEF ReplayInv, DayOK, BookOK, Books
<1>4. BookOK'
  BY <1>1, <1>3 DEF BookOK
<1> QED BY <1>1, <1>2, <1>4 DEF ReplayInv

ReplaySpec == ReplayInit /\ [][ReplayNext]_replayVars

\* ReplayInv is an invariant of a replay.
THEOREM ReplayInvariant == ReplaySpec => []ReplayInv
<1>1. ReplayInv /\ [ReplayNext]_replayVars => ReplayInv'
  <2> SUFFICES ASSUME ReplayInv, [ReplayNext]_replayVars PROVE ReplayInv'
    OBVIOUS
  <2>1. CASE UNCHANGED replayVars
    BY <2>1 DEF replayVars, ReplayInv, DayOK, BookOK, Managed
  <2> QED BY <2>1, BeginKeeps, HandleKeeps, RaiseKeeps, KillKeeps, EndKeeps, NextSessionKeeps
          DEF ReplayNext
<1> QED BY ReplayStarts, <1>1, PTL DEF ReplaySpec

\* However often a session is begun again, and wherever a run of it dies: the broker holds
\* what is saved, the engine manages it, and the rows are one trade at most and add up to
\* the realized P&L that the loss cap is measured on.
THEOREM ReplayBooksAlwaysAgree == ReplaySpec => []ReplayBooksAgree
<1>1. ReplayInv => ReplayBooksAgree
  <2> SUFFICES ASSUME ReplayInv PROVE ReplayBooksAgree
    OBVIOUS
  <2>1. active => held = book.held /\ (brain.pos = held.pos \/ (held = NotHeld /\ book.taken))
    BY DEF ReplayInv, Managed
  <2>2. ASSUME book.date = date
        PROVE  /\ book.realized = FoldLeft(LAMBDA sum, row : sum + row.usd, 0, rows)
               /\ Len(rows) + (IF book.held = NotHeld THEN 0 ELSE 1) <= (IF book.taken THEN 1 ELSE 0)
    <3>1. /\ book.realized = TotalUsd(rows)
          /\ ~book.taken => rows = <<>> /\ book.held = NotHeld
          /\ rows # <<>> => book.held = NotHeld
          /\ rows = <<>> \/ \E row : rows = <<row>>
      BY <2>2 DEF ReplayInv, BookOK
    <3>2. Len(rows) = IF rows = <<>> THEN 0 ELSE 1
      BY <3>1
    <3>3. TotalUsd(rows) = FoldLeft(LAMBDA sum, row : sum + row.usd, 0, rows)
      BY DEF TotalUsd
    <3>4. Len(rows) + (IF book.held = NotHeld THEN 0 ELSE 1) <= (IF book.taken THEN 1 ELSE 0)
      BY <3>1, <3>2
    <3>5. book.realized = FoldLeft(LAMBDA sum, row : sum + row.usd, 0, rows)
      BY <3>1, <3>3, Zenon
    <3> QED BY <3>4, <3>5, Zenon
  <2> QED BY <2>1, <2>2 DEF ReplayBooksAgree
<1> QED BY ReplayInvariant, <1>1, PTL

-----------------------------------------------------------------------------
(* The backtester, bar by bar                                                *)

HIDE ReplayAssumption
USE SessionAssumption

\* Bars in the order of their time.
Ordered(bars) == \A i, j \in 1..Len(bars) : i < j => bars[i].at < bars[j].at

RangeEnd(bars) == bars[1].at + OrMinutes
\* Bar n is the last minute of the opening range.
EndsRange(bars, n) == n \in 1..Len(bars) /\ bars[n].at = RangeEnd(bars) - 1

\* What the first candle gives: the position it opens at a price, and whether it does.
Entry(range, trigger) == EntryFill(FirstCandle(range), trigger)
StopOf(range) == IF FirstCandle(range) = "long" THEN CandleLow(range) ELSE CandleHigh(range)
RiskOf(range, trigger) == Size(Entry(range, trigger) - StopOf(range))
Plan(range, at, trigger) ==
    [dir |-> FirstCandle(range), at |-> at, entry |-> Entry(range, trigger), stop |-> StopOf(range),
     target |-> Entry(range, trigger) + Sign(FirstCandle(range)) * TargetR * RiskOf(range, trigger),
     risk |-> RiskOf(range, trigger)]
Enters(range, trigger) == FirstCandle(range) # "none" /\ ~(RiskOf(range, trigger) <= 0)

\* Position p, opened on bar n, on the bars after it: whether one R was earned by bar k,
\* the deadline passed at it without, and whether it ends the trade.
EarnedBy(p, bars, n, k) == \E i \in (n + 1)..k : EarnsOneR(p.dir, bars[i], p.entry, p.risk)
ArmedAt(p, bars, n, k) ==
    k > n /\ TimeStop > 0 /\ bars[k].at >= p.at + TimeStop /\ ~EarnedBy(p, bars, n, k)
EndsAt(p, bars, n, k) ==
    Loses(p.dir, bars[k], p.stop) \/ Wins(p.dir, bars[k], p.target) \/ ArmedAt(p, bars, n, k - 1)
Runs(p, bars, n, k) == \A i \in (n + 1)..k : ~EndsAt(p, bars, n, i)
TradeOf(p, exitAt, exit, reason) == Trade(p.dir, p.at, p.entry, exitAt, exit, reason)
TradeAt(p, bar) ==
    IF Loses(p.dir, bar, p.stop) THEN TradeOf(p, bar.at, ExitFill(p.dir, p.stop), "stop")
    ELSE IF Wins(p.dir, bar, p.target) THEN TradeOf(p, bar.at, ExitFill(p.dir, p.target), "target")
    ELSE TradeOf(p, bar.at, ExitFill(p.dir, bar.open), "time_stop")

\* The bars before the range's end are those up to its last minute.
LEMMA OrCountIs ==
    ASSUME NEW bars \in Seq(Bar), Ordered(bars), NEW n, EndsRange(bars, n)
    PROVE  OrCount(bars) = n /\ n \in Nat /\ n > 0
<1>1. n \in 1..Len(bars) /\ DOMAIN bars = 1..Len(bars) /\ Len(bars) \in Nat
      /\ (\A i \in 1..Len(bars) : bars[i].at \in Nat) /\ OrMinutes \in Nat
  <2>1. \A i \in 1..Len(bars) : bars[i] \in Bar
    OBVIOUS
  <2>2. \A i \in 1..Len(bars) : bars[i].at \in Nat
    BY <2>1 DEF Bar
  <2>3. n \in 1..Len(bars) /\ DOMAIN bars = 1..Len(bars) /\ Len(bars) \in Nat
    BY DEF EndsRange
  <2> QED BY <2>2, <2>3
<1>2. bars[n].at = RangeEnd(bars) - 1 /\ RangeEnd(bars) \in Nat
  BY <1>1 DEF EndsRange, RangeEnd
<1>3. \A i \in 1..Len(bars) : bars[i].at < RangeEnd(bars) <=> i <= n
  <2> SUFFICES ASSUME NEW i \in 1..Len(bars) PROVE bars[i].at < RangeEnd(bars) <=> i <= n
    OBVIOUS
  <2>1. CASE i < n
    <3>1. bars[i].at < bars[n].at
      BY <1>1, <2>1 DEF Ordered
    <3> QED BY <1>1, <1>2, <2>1, <3>1
  <2>2. CASE i = n
    BY <1>1, <1>2, <2>2
  <2>3. CASE n < i
    <3>1. bars[n].at < bars[i].at
      BY <1>1, <2>3 DEF Ordered
    <3> QED BY <1>1, <1>2, <2>3, <3>1
  <2> QED BY <1>1, <2>1, <2>2, <2>3
<1>4. {i \in DOMAIN bars : bars[i].at < bars[1].at + OrMinutes} = 1..n
  BY <1>1, <1>3 DEF RangeEnd
<1>5. Cardinality(1..n) = n
  <2>1. 1 \in Int /\ n \in Int /\ (IF 1 > n THEN 0 ELSE n - 1 + 1) = n
    BY <1>1
  <2> QED BY <2>1, FS_Interval
<1>6. n \in Nat /\ n > 0
  BY <1>1
<1> QED BY <1>4, <1>5, <1>6 DEF OrCount

\* A bar before another that stands in both of two sequences stands at one place.
LEMMA RestOf ==
    ASSUME NEW bars \in Seq(Bar), NEW n \in 1..Len(bars)
    PROVE  LET post == SubSeq(bars, n + 1, Len(bars)) IN
           /\ post \in Seq(Bar) /\ Len(post) = Len(bars) - n
           /\ \A i \in 1..(Len(bars) - n) : post[i] = bars[n + i]
OBVIOUS

\* No trade, unless the first candle enters.
LEMMA BacktestIs ==
    ASSUME NEW bars \in Seq(Bar), Ordered(bars), NEW n, EndsRange(bars, n), n < Len(bars)
    PROVE  LET range == SubSeq(bars, 1, n)
               post == SubSeq(bars, n + 1, Len(bars))
               trigger == bars[n + 1].open
               p == Plan(range, bars[n + 1].at, trigger)
           IN  Backtest(bars) = IF Enters(range, trigger)
                                THEN WalkToExit(p.dir, p.entry, p.stop, p.target, p.risk, post)
                                ELSE NoTrade
<1> DEFINE range == SubSeq(bars, 1, n)
           post == SubSeq(bars, n + 1, Len(bars))
           trigger == bars[n + 1].open
           p == Plan(range, bars[n + 1].at, trigger)
<1>1. n \in 1..Len(bars) /\ OrBars(bars) = range /\ PostOrBars(bars) = post
  BY OrCountIs DEF EndsRange, OrBars, PostOrBars
<1>2. post[1] = bars[n + 1] /\ post # <<>> /\ bars # <<>>
  <2>1. /\ post \in Seq(Bar) /\ Len(post) = Len(bars) - n
        /\ \A i \in 1..(Len(bars) - n) : post[i] = bars[n + i]
    BY <1>1, RestOf
  <2> HIDE DEF post
  <2>2. 1 \in 1..(Len(bars) - n) /\ Len(bars) > 0
    BY <1>1
  <2>3. post[1] = bars[n + 1] /\ Len(post) > 0
    BY <1>1, <2>1, <2>2
  <2> QED BY <2>1, <2>2, <2>3
<1> HIDE DEF range, post
<1>3. Backtest(bars) =
        IF FirstCandle(range) = "none" \/ RiskOf(range, trigger) <= 0 THEN NoTrade
        ELSE WalkToExit(FirstCandle(range), Entry(range, trigger), StopOf(range),
                        Entry(range, trigger) + Sign(FirstCandle(range)) * TargetR * RiskOf(range, trigger),
                        RiskOf(range, trigger), post)
  BY <1>1, <1>2, Zenon DEF Backtest, Entry, StopOf, RiskOf
<1>4. /\ p.dir = FirstCandle(range) /\ p.entry = Entry(range, trigger) /\ p.stop = StopOf(range)
      /\ p.target = Entry(range, trigger) + Sign(FirstCandle(range)) * TargetR * RiskOf(range, trigger)
      /\ p.risk = RiskOf(range, trigger)
  BY DEF Plan
<1> HIDE DEF p
<1>5. Backtest(bars) = IF Enters(range, trigger)
                       THEN WalkToExit(p.dir, p.entry, p.stop, p.target, p.risk, post)
                       ELSE NoTrade
  BY <1>3, <1>4 DEF Enters
<1> QED BY <1>5 DEF p, range, post

\* The walk's own words: due on bar k, and the bars that end it.
DueIn(p, post, k) == k > 1 /\ Armed(p.dir, p.entry, p.risk, post, k - 1)
EndsIn(p, post) ==
    {k \in DOMAIN post :
        Loses(p.dir, post[k], p.stop) \/ Wins(p.dir, post[k], p.target) \/ DueIn(p, post, k)}

\* The walk is the trade of the first bar that ends it, or of the last.
LEMMA WalkIs ==
    ASSUME NEW p, NEW post, p.at = post[1].at
    PROVE  LET walk == WalkToExit(p.dir, p.entry, p.stop, p.target, p.risk, post) IN
           IF EndsIn(p, post) = {} THEN walk = TradeOf(p, post[Len(post)].at, post[Len(post)].close, "eod")
           ELSE walk = TradeAt(p, post[Min(EndsIn(p, post))])
<1> DEFINE dir == p.dir  stop == p.stop  target == p.target  entry == p.entry  risk == p.risk
           ends == EndsIn(p, post)
           k == IF ends = {} THEN Len(post) ELSE Min(ends)
<1>1. ends = {i \in DOMAIN post : Loses(dir, post[i], stop) \/ Wins(dir, post[i], target)
                                   \/ (i > 1 /\ Armed(dir, entry, risk, post, i - 1))}
  BY DEF EndsIn, DueIn
<1> HIDE DEF dir, stop, target, entry, risk, ends
<1>2. WalkToExit(dir, entry, stop, target, risk, post) =
        CASE ends = {} -> Trade(dir, post[1].at, entry, post[k].at, post[k].close, "eod")
          [] ends # {} /\ Loses(dir, post[k], stop) ->
               Trade(dir, post[1].at, entry, post[k].at, ExitFill(dir, stop), "stop")
          [] ends # {} /\ ~Loses(dir, post[k], stop) /\ Wins(dir, post[k], target) ->
               Trade(dir, post[1].at, entry, post[k].at, ExitFill(dir, target), "target")
          [] OTHER -> Trade(dir, post[1].at, entry, post[k].at, ExitFill(dir, post[k].open), "time_stop")
  BY <1>1, Zenon DEF WalkToExit
<1>3. CASE ends = {}
  <2>1. WalkToExit(dir, entry, stop, target, risk, post) =
            Trade(dir, post[1].at, entry, post[Len(post)].at, post[Len(post)].close, "eod")
    BY <1>2, <1>3
  <2> QED BY <1>3, <2>1 DEF TradeOf, dir, stop, target, entry, risk, ends
<1>4. CASE ends # {}
  <2> DEFINE loses == Loses(dir, post[k], stop)  wins == Wins(dir, post[k], target)
  <2>1. k = Min(ends)
    BY <1>4
  <2> HIDE DEF k
  <2>2. WalkToExit(dir, entry, stop, target, risk, post) =
          IF loses THEN Trade(dir, post[1].at, entry, post[k].at, ExitFill(dir, stop), "stop")
          ELSE IF wins THEN Trade(dir, post[1].at, entry, post[k].at, ExitFill(dir, target), "target")
          ELSE Trade(dir, post[1].at, entry, post[k].at, ExitFill(dir, post[k].open), "time_stop")
    <3> HIDE DEF loses, wins
    <3>1. CASE loses
      BY <1>2, <1>4, <3>1 DEF loses, wins
    <3>2. CASE ~loses /\ wins
      BY <1>2, <1>4, <3>2 DEF loses, wins
    <3>3. CASE ~loses /\ ~wins
      BY <1>2, <1>4, <3>3 DEF loses, wins
    <3> QED BY <3>1, <3>2, <3>3
  <2>3. WalkToExit(dir, entry, stop, target, risk, post) = TradeAt(p, post[k])
    BY <2>2 DEF TradeAt, TradeOf, dir, stop, target, entry, risk
  <2> QED BY <1>4, <2>1, <2>3 DEF dir, stop, target, entry, risk, ends
<1> QED BY <1>3, <1>4

\* Through the bars that have not ended it, the walk's words are the position's.
LEMMA WalkAndPosition ==
    ASSUME NEW bars \in Seq(Bar), NEW n \in 1..Len(bars), n < Len(bars), NEW p, p.at = bars[n + 1].at,
           NEW post, post = SubSeq(bars, n + 1, Len(bars)),
           NEW i \in 1..(Len(bars) - n), Runs(p, bars, n, n + i - 1)
    PROVE  i \in EndsIn(p, post) <=> EndsAt(p, bars, n, n + i)
<1>1. /\ Len(post) = Len(bars) - n /\ DOMAIN post = 1..(Len(bars) - n)
      /\ \A j \in 1..(Len(bars) - n) : post[j] = bars[n + j]
      /\ Len(bars) \in Nat /\ n \in Nat /\ i \in Nat /\ i > 0 /\ n + i <= Len(bars)
  <2>1. Len(bars) \in Nat /\ n \in Nat /\ i \in Nat /\ i > 0 /\ n + i <= Len(bars)
    OBVIOUS
  <2>2. Len(post) = Len(bars) - n /\ post \in Seq(Bar)
    BY <2>1
  <2>3. \A j \in 1..(Len(bars) - n) : post[j] = bars[n + j]
    BY <2>1
  <2> QED BY <2>1, <2>2, <2>3
<1>2. post[1] = bars[n + 1] /\ post[i] = bars[n + i]
  BY <1>1
<1>3. DueIn(p, post, i) => ArmedAt(p, bars, n, n + i - 1)
  <2> SUFFICES ASSUME i > 1, Armed(p.dir, p.entry, p.risk, post, i - 1)
               PROVE  ArmedAt(p, bars, n, n + i - 1)
    BY DEF DueIn
  <2>1. TimeStop > 0
    BY DEF Armed
  <2>2. PICK j \in 1..(i - 1) : /\ post[j].at >= post[1].at + TimeStop
                                /\ \A m \in 1..j : ~EarnsOneR(p.dir, post[m], p.entry, p.risk)
    BY DEF Armed
  <2>3. j \in 1..(Len(bars) - n) /\ post[j] = bars[n + j]
    BY <1>1
  <2>4. ~EarnedBy(p, bars, n, n + j)
    <3> SUFFICES ASSUME NEW m \in (n + 1)..(n + j), EarnsOneR(p.dir, bars[m], p.entry, p.risk) PROVE FALSE
      BY DEF EarnedBy
    <3>1. m - n \in 1..j /\ m - n \in 1..(Len(bars) - n) /\ n + (m - n) = m
      BY <1>1
    <3>2. post[m - n] = bars[m]
      BY <1>1, <3>1
    <3> QED BY <2>2, <3>1, <3>2
  <2>5. ArmedAt(p, bars, n, n + j)
    <3>1. n + j > n
      BY <1>1
    <3> QED BY <1>2, <2>1, <2>2, <2>3, <2>4, <3>1 DEF ArmedAt
  <2>6. j = i - 1
    <3> SUFFICES ASSUME j # i - 1 PROVE FALSE
      OBVIOUS
    <3>1. n + j + 1 \in (n + 1)..(n + i - 1) /\ n + j + 1 - 1 = n + j
      BY <1>1
    <3>2. EndsAt(p, bars, n, n + j + 1)
      BY <2>5, <3>1 DEF EndsAt
    <3> QED BY <3>1, <3>2 DEF Runs
  <2>7. n + j = n + i - 1
    BY <1>1, <2>6
  <2> QED BY <2>5, <2>7
<1>4. ArmedAt(p, bars, n, n + i - 1) => DueIn(p, post, i)
  <2> SUFFICES ASSUME ArmedAt(p, bars, n, n + i - 1) PROVE DueIn(p, post, i)
    OBVIOUS
  <2>1. n + i - 1 > n /\ TimeStop > 0 /\ bars[n + i - 1].at >= p.at + TimeStop
        /\ ~EarnedBy(p, bars, n, n + i - 1)
    BY DEF ArmedAt
  <2>2. i > 1 /\ i - 1 \in 1..(Len(bars) - n) /\ n + (i - 1) = n + i - 1
    BY <1>1, <2>1
  <2>3. post[i - 1] = bars[n + i - 1]
    BY <1>1, <2>2
  <2>4. \A m \in 1..(i - 1) : ~EarnsOneR(p.dir, post[m], p.entry, p.risk)
    <3> SUFFICES ASSUME NEW m \in 1..(i - 1), EarnsOneR(p.dir, post[m], p.entry, p.risk) PROVE FALSE
      OBVIOUS
    <3>1. m \in 1..(Len(bars) - n) /\ n + m \in (n + 1)..(n + i - 1)
      BY <1>1
    <3> QED BY <1>1, <2>1, <3>1 DEF EarnedBy
  <2>5. i - 1 \in 1..(i - 1)
    BY <2>2
  <2>6. Armed(p.dir, p.entry, p.risk, post, i - 1)
    BY <1>2, <2>1, <2>3, <2>4, <2>5 DEF Armed
  <2> QED BY <2>2, <2>6 DEF DueIn
<1>5. i \in EndsIn(p, post) <=> (Loses(p.dir, post[i], p.stop) \/ Wins(p.dir, post[i], p.target)
                                  \/ DueIn(p, post, i))
  BY <1>1 DEF EndsIn
<1> QED BY <1>2, <1>3, <1>4, <1>5 DEF EndsAt

\* What runs to a bar runs to each before it.
LEMMA RunsBefore ==
    ASSUME NEW n \in Nat, NEW k \in Int, NEW p, NEW bars, Runs(p, bars, n, k), NEW m \in Int, m <= k
    PROVE  Runs(p, bars, n, m)
<1>1. \A i \in (n + 1)..m : i \in (n + 1)..k
  OBVIOUS
<1> QED BY <1>1 DEF Runs

\* A position that no bar ends is closed at the last bar.
LEMMA WalkToEnd ==
    ASSUME NEW bars \in Seq(Bar), NEW n \in 1..Len(bars), n < Len(bars), NEW p, p.at = bars[n + 1].at,
           Runs(p, bars, n, Len(bars))
    PROVE  LET last == bars[Len(bars)] IN
           WalkToExit(p.dir, p.entry, p.stop, p.target, p.risk, SubSeq(bars, n + 1, Len(bars)))
             = TradeOf(p, last.at, last.close, "eod")
<1> DEFINE post == SubSeq(bars, n + 1, Len(bars))
<1>1. /\ Len(post) = Len(bars) - n /\ DOMAIN post = 1..(Len(bars) - n)
      /\ post[1] = bars[n + 1] /\ post[Len(bars) - n] = bars[Len(bars)]
      /\ Len(bars) \in Nat /\ n \in Nat
  <2>1. /\ post \in Seq(Bar) /\ Len(post) = Len(bars) - n
        /\ \A j \in 1..(Len(bars) - n) : post[j] = bars[n + j]
    BY RestOf
  <2> HIDE DEF post
  <2>2. 1 \in 1..(Len(bars) - n) /\ Len(bars) - n \in 1..(Len(bars) - n)
        /\ n + (Len(bars) - n) = Len(bars) /\ Len(bars) \in Nat /\ n \in Nat
    OBVIOUS
  <2>3. DOMAIN post = 1..(Len(bars) - n)
    BY <2>1
  <2> QED BY <2>1, <2>2, <2>3
<1>2. \A i \in 1..(Len(bars) - n) : i \notin EndsIn(p, post)
  <2> SUFFICES ASSUME NEW i \in 1..(Len(bars) - n) PROVE i \notin EndsIn(p, post)
    OBVIOUS
  <2>1. n + i - 1 \in Int /\ n + i - 1 <= Len(bars) /\ n + i \in (n + 1)..Len(bars)
    BY <1>1
  <2>2. Runs(p, bars, n, n + i - 1)
    BY <1>1, <2>1, RunsBefore
  <2>3. ~EndsAt(p, bars, n, n + i)
    BY <2>1 DEF Runs
  <2> HIDE DEF post
  <2> QED BY <2>2, <2>3, WalkAndPosition DEF post
<1>3. EndsIn(p, post) = {}
  BY <1>1, <1>2 DEF EndsIn
<1> HIDE DEF post
<1>4. WalkToExit(p.dir, p.entry, p.stop, p.target, p.risk, post)
        = TradeOf(p, post[Len(post)].at, post[Len(post)].close, "eod")
  BY <1>1, <1>3, WalkIs
<1> QED BY <1>1, <1>4 DEF post

\* The first bar that ends a position is where it is closed.
LEMMA WalkToBar ==
    ASSUME NEW bars \in Seq(Bar), NEW n \in 1..Len(bars), n < Len(bars), NEW p, p.at = bars[n + 1].at,
           NEW k \in (n + 1)..Len(bars), EndsAt(p, bars, n, k), Runs(p, bars, n, k - 1)
    PROVE  WalkToExit(p.dir, p.entry, p.stop, p.target, p.risk, SubSeq(bars, n + 1, Len(bars)))
             = TradeAt(p, bars[k])
<1> DEFINE post == SubSeq(bars, n + 1, Len(bars))
           i == k - n
<1>1. /\ Len(post) = Len(bars) - n /\ DOMAIN post = 1..(Len(bars) - n)
      /\ post[1] = bars[n + 1] /\ post[i] = bars[k]
      /\ Len(bars) \in Nat /\ n \in Nat /\ i \in 1..(Len(bars) - n) /\ k = n + i /\ k \in Int
  <2>1. /\ post \in Seq(Bar) /\ Len(post) = Len(bars) - n
        /\ \A j \in 1..(Len(bars) - n) : post[j] = bars[n + j]
    BY RestOf
  <2>2. Len(bars) \in Nat /\ n \in Nat /\ i \in 1..(Len(bars) - n) /\ k = n + i /\ k \in Int
        /\ 1 \in 1..(Len(bars) - n)
    OBVIOUS
  <2> HIDE DEF post, i
  <2>3. DOMAIN post = 1..(Len(bars) - n)
    BY <2>1
  <2> QED BY <2>1, <2>2, <2>3
<1> HIDE DEF post, i
<1>2. i \in EndsIn(p, post)
  <2>1. Runs(p, bars, n, n + i - 1) /\ EndsAt(p, bars, n, n + i)
    BY <1>1
  <2> QED BY <1>1, <2>1, WalkAndPosition DEF post
<1>3. \A j \in EndsIn(p, post) : i <= j
  <2> SUFFICES ASSUME NEW j \in EndsIn(p, post), ~(i <= j) PROVE FALSE
    OBVIOUS
  <2>1. j \in 1..(Len(bars) - n) /\ j < i
    BY <1>1 DEF EndsIn
  <2>2. n + j - 1 \in Int /\ n + j - 1 <= k - 1 /\ n + j \in (n + 1)..(k - 1) /\ k - 1 \in Int
    BY <1>1, <2>1
  <2>3. Runs(p, bars, n, n + j - 1)
    BY <1>1, <2>2, RunsBefore
  <2>4. ~EndsAt(p, bars, n, n + j)
    BY <2>2 DEF Runs
  <2> QED BY <2>1, <2>3, <2>4, WalkAndPosition DEF post
<1>4. Min(EndsIn(p, post)) = i
  <2>1. \A x \in EndsIn(p, post) : (\A y \in EndsIn(p, post) : x <= y) => x = i
    <3> SUFFICES ASSUME NEW x \in EndsIn(p, post), \A y \in EndsIn(p, post) : x <= y PROVE x = i
      OBVIOUS
    <3>1. x <= i /\ i <= x
      BY <1>2, <1>3
    <3>2. x \in 1..(Len(bars) - n)
      BY <1>1 DEF EndsIn
    <3> QED BY <1>1, <3>1, <3>2
  <2> QED BY <1>2, <1>3, <2>1 DEF Min
<1>5. WalkToExit(p.dir, p.entry, p.stop, p.target, p.risk, post) = TradeAt(p, post[i])
  <2>1. EndsIn(p, post) # {}
    BY <1>2
  <2> QED BY <1>1, <1>4, <2>1, WalkIs
<1> QED BY <1>1, <1>5 DEF post

\* What is said of the bars so far stays so when another comes.
LEMMA Growing ==
    ASSUME NEW bars \in Seq(Bar), NEW bar \in Bar, NEW n \in 1..Len(bars), NEW p
    PROVE  LET grown == Append(bars, bar) IN
           /\ \A k \in n..Len(bars) : EarnedBy(p, grown, n, k) <=> EarnedBy(p, bars, n, k)
           /\ \A k \in n..Len(bars) : ArmedAt(p, grown, n, k) <=> ArmedAt(p, bars, n, k)
           /\ \A k \in (n + 1)..Len(bars) : EndsAt(p, grown, n, k) <=> EndsAt(p, bars, n, k)
           /\ \A k \in n..Len(bars) : Runs(p, grown, n, k) <=> Runs(p, bars, n, k)
<1> DEFINE grown == Append(bars, bar)
<1>1. (\A i \in 1..Len(bars) : grown[i] = bars[i]) /\ Len(bars) \in Nat /\ n \in Nat
  OBVIOUS
<1> HIDE DEF grown
<1>2. \A k \in n..Len(bars) : EarnedBy(p, grown, n, k) <=> EarnedBy(p, bars, n, k)
  <2> SUFFICES ASSUME NEW k \in n..Len(bars) PROVE EarnedBy(p, grown, n, k) <=> EarnedBy(p, bars, n, k)
    OBVIOUS
  <2>1. \A i \in (n + 1)..k : i \in 1..Len(bars)
    BY <1>1
  <2>2. \A i \in (n + 1)..k : grown[i] = bars[i]
    BY <1>1, <2>1
  <2> QED BY <2>2 DEF EarnedBy
<1>3. \A k \in n..Len(bars) : ArmedAt(p, grown, n, k) <=> ArmedAt(p, bars, n, k)
  <2> SUFFICES ASSUME NEW k \in n..Len(bars) PROVE ArmedAt(p, grown, n, k) <=> ArmedAt(p, bars, n, k)
    OBVIOUS
  <2>1. k \in 1..Len(bars)
    BY <1>1
  <2>2. grown[k] = bars[k]
    BY <1>1, <2>1
  <2> QED BY <1>2, <2>2 DEF ArmedAt
<1>4. \A k \in (n + 1)..Len(bars) : EndsAt(p, grown, n, k) <=> EndsAt(p, bars, n, k)
  <2> SUFFICES ASSUME NEW k \in (n + 1)..Len(bars) PROVE EndsAt(p, grown, n, k) <=> EndsAt(p, bars, n, k)
    OBVIOUS
  <2>1. k \in 1..Len(bars) /\ k - 1 \in n..Len(bars)
    BY <1>1
  <2>2. grown[k] = bars[k]
    BY <1>1, <2>1
  <2> QED BY <1>3, <2>1, <2>2 DEF EndsAt
<1>5. \A k \in n..Len(bars) : Runs(p, grown, n, k) <=> Runs(p, bars, n, k)
  <2> SUFFICES ASSUME NEW k \in n..Len(bars) PROVE Runs(p, grown, n, k) <=> Runs(p, bars, n, k)
    OBVIOUS
  <2>1. \A i \in (n + 1)..k : i \in (n + 1)..Len(bars)
    BY <1>1
  <2> QED BY <1>4, <2>1 DEF Runs
<1> QED BY <1>2, <1>3, <1>4, <1>5 DEF grown

\* The engine manages position p, opened on bar n of the bars it was handed.
Manages(e, p, bars, n) ==
    /\ e.complete /\ e.pos = p
    /\ e.earned <=> EarnedBy(p, bars, n, Len(bars))
    /\ e.pending <=> ArmedAt(p, bars, n, Len(bars))

ClosedBy(step, trade) ==
    step.events = <<[type |-> "closed", trade |-> trade]>> /\ step.e.pos = Flat /\ step.e.complete

\* An engine that manages a position closes it on the bar that ends it.
LEMMA ManagedStep ==
    ASSUME NEW e \in Engines, NEW bars \in Seq(Bar), NEW n \in 1..Len(bars), NEW bar \in Bar,
           NEW p \in OpenPosition, Manages(e, p, bars, n)
    PROVE  LET grown == Append(bars, bar)
               step == OnBar(e, bar)
           IN  IF EndsAt(p, grown, n, Len(bars) + 1) THEN ClosedBy(step, TradeAt(p, bar))
               ELSE step.events = <<>> /\ Manages(step.e, p, grown, n)
<1> DEFINE grown == Append(bars, bar)  k == Len(bars) + 1
           loses == Loses(p.dir, bar, p.stop)  wins == Wins(p.dir, bar, p.target)
           earned == e.earned \/ EarnsOneR(p.dir, bar, p.entry, p.risk)
           late == TimeStop > 0 /\ bar.at >= p.at + TimeStop
<1>1. e.complete /\ e.pos = p /\ p # Flat
  BY DEF Manages, OpenPosition, Flat
<1>2. OnBar(e, bar) =
        CASE loses -> CloseTrade(e, bar.at, ExitFill(p.dir, p.stop), "stop")
          [] ~loses /\ wins -> CloseTrade(e, bar.at, ExitFill(p.dir, p.target), "target")
          [] ~loses /\ ~wins /\ e.pending -> CloseTrade(e, bar.at, ExitFill(p.dir, bar.open), "time_stop")
          [] OTHER -> Emit([e EXCEPT !.earned = earned, !.pending = late /\ ~earned], <<>>)
  BY <1>1 DEF OnBar, ProcessPositionBar
<1>3. /\ grown[k] = bar /\ Len(grown) = k /\ k - 1 = Len(bars) /\ Len(bars) \in Nat /\ n \in Nat
      /\ n <= Len(bars) /\ k > n /\ Len(bars) \in n..Len(bars)
      /\ \A i \in 1..Len(bars) : grown[i] = bars[i]
  OBVIOUS
<1>4. ArmedAt(p, grown, n, k - 1) <=> e.pending
  <2>1. ArmedAt(p, grown, n, Len(bars)) <=> ArmedAt(p, bars, n, Len(bars))
    BY <1>3, Growing
  <2>2. ArmedAt(p, bars, n, Len(bars)) <=> e.pending
    BY DEF Manages
  <2> HIDE DEF grown, k
  <2> QED BY <1>3, <2>1, <2>2
<1>5. EarnedBy(p, grown, n, k) <=> earned
  <2>1. EarnedBy(p, grown, n, Len(bars)) <=> e.earned
    BY <1>3, Growing DEF Manages
  <2>2. \A i \in (n + 1)..k : i = k \/ i \in (n + 1)..Len(bars)
    BY <1>3
  <2>3. k \in (n + 1)..k /\ \A i \in (n + 1)..Len(bars) : i \in (n + 1)..k
    BY <1>3
  <2> HIDE DEF grown, k
  <2> QED BY <1>3, <2>1, <2>2, <2>3 DEF EarnedBy
<1>6. ArmedAt(p, grown, n, k) <=> late /\ ~earned
  <2> HIDE DEF grown, k, earned
  <2> QED BY <1>3, <1>5 DEF ArmedAt
<1>7. EndsAt(p, grown, n, k) <=> loses \/ wins \/ e.pending
  <2> HIDE DEF grown, k
  <2> QED BY <1>3, <1>4 DEF EndsAt
<1>8. \A at, exit, reason : ClosedBy(CloseTrade(e, at, exit, reason), TradeOf(p, at, exit, reason))
  <2> SUFFICES ASSUME NEW at, NEW exit, NEW reason
               PROVE  ClosedBy(CloseTrade(e, at, exit, reason), TradeOf(p, at, exit, reason))
    OBVIOUS
  <2>1. CloseTrade(e, at, exit, reason).e = [e EXCEPT !.pos = Flat, !.pending = FALSE]
        /\ CloseTrade(e, at, exit, reason).events = <<[type |-> "closed", trade |-> TradeOf(p, at, exit, reason)]>>
    BY <1>1 DEF CloseTrade, Emit, Closed, TradeOf
  <2>2. [e EXCEPT !.pos = Flat, !.pending = FALSE].pos = Flat
        /\ [e EXCEPT !.pos = Flat, !.pending = FALSE].complete = e.complete
    BY DEF Engines
  <2> QED BY <1>1, <2>1, <2>2 DEF ClosedBy
<1> HIDE DEF loses, wins, late, earned, grown, k
<1>9. CASE loses
  <2>1. OnBar(e, bar) = CloseTrade(e, bar.at, ExitFill(p.dir, p.stop), "stop")
    BY <1>2, <1>9
  <2>2. TradeAt(p, bar) = TradeOf(p, bar.at, ExitFill(p.dir, p.stop), "stop")
    BY <1>9 DEF TradeAt, loses
  <2>3. ClosedBy(OnBar(e, bar), TradeAt(p, bar))
    BY <1>8, <2>1, <2>2
  <2> QED BY <1>7, <1>9, <2>3 DEF grown, k
<1>10. CASE ~loses /\ wins
  <2>1. OnBar(e, bar) = CloseTrade(e, bar.at, ExitFill(p.dir, p.target), "target")
    BY <1>2, <1>10
  <2>2. TradeAt(p, bar) = TradeOf(p, bar.at, ExitFill(p.dir, p.target), "target")
    BY <1>10 DEF TradeAt, loses, wins
  <2>3. ClosedBy(OnBar(e, bar), TradeAt(p, bar))
    BY <1>8, <2>1, <2>2
  <2> QED BY <1>7, <1>10, <2>3 DEF grown, k
<1>11. CASE ~loses /\ ~wins /\ e.pending
  <2>1. OnBar(e, bar) = CloseTrade(e, bar.at, ExitFill(p.dir, bar.open), "time_stop")
    BY <1>2, <1>11
  <2>2. TradeAt(p, bar) = TradeOf(p, bar.at, ExitFill(p.dir, bar.open), "time_stop")
    BY <1>11 DEF TradeAt, loses, wins
  <2>3. ClosedBy(OnBar(e, bar), TradeAt(p, bar))
    BY <1>8, <2>1, <2>2
  <2> QED BY <1>7, <1>11, <2>3 DEF grown, k
<1>12. CASE ~loses /\ ~wins /\ ~e.pending
  <2>1. PICK a \in BOOLEAN : a <=> earned
    BY Zenon
  <2>2. PICK b \in BOOLEAN : b <=> (late /\ ~earned)
    BY Zenon
  <2>3. OnBar(e, bar) = Emit([e EXCEPT !.earned = earned, !.pending = late /\ ~earned], <<>>)
    BY <1>2, <1>12
  <2>4. earned \in BOOLEAN /\ (late /\ ~earned) \in BOOLEAN
    BY DEF earned, late, Engines
  <2>5. OnBar(e, bar) = Emit([e EXCEPT !.earned = a, !.pending = b], <<>>)
    <3>1. a = earned /\ b = (late /\ ~earned)
      BY <2>1, <2>2, <2>4
    <3> QED BY <2>3, <3>1, Zenon
  <2>6. OnBar(e, bar).e = [e EXCEPT !.earned = a, !.pending = b] /\ OnBar(e, bar).events = <<>>
    BY <2>5 DEF Emit
  <2>7. [e EXCEPT !.earned = a, !.pending = b].pos = e.pos
        /\ [e EXCEPT !.earned = a, !.pending = b].complete = e.complete
        /\ [e EXCEPT !.earned = a, !.pending = b].earned = a
        /\ [e EXCEPT !.earned = a, !.pending = b].pending = b
    BY DEF Engines
  <2>8. Manages(OnBar(e, bar).e, p, grown, n)
    <3> DEFINE f == OnBar(e, bar).e
    <3>1. f.pos = e.pos /\ f.complete = e.complete /\ f.earned = a /\ f.pending = b
      BY <2>6, <2>7
    <3> HIDE DEF f
    <3>2. Manages(f, p, grown, n)
      BY <1>1, <1>3, <1>5, <1>6, <2>1, <2>2, <3>1 DEF Manages
    <3> QED BY <3>2 DEF f
  <2> QED BY <1>7, <1>12, <2>6, <2>8 DEF grown, k
<1> QED BY <1>9, <1>10, <1>11, <1>12

\* _complete_opening_range opens what the backtester's first candle would, at its price.
LEMMA CompletesAsPlanned ==
    ASSUME NEW e \in Engines, e.range # <<>>, NEW at \in Nat, NEW trigger \in Int
    PROVE  LET step == CompleteOpeningRange(e, at, trigger)
               p == Plan(e.range, at, trigger)
           IN  /\ step.e.complete
               /\ Enters(e.range, trigger) =>
                     /\ step.events = <<Opened(p)>>
                     /\ step.e.pos = p /\ ~step.e.earned /\ ~step.e.pending
               /\ ~Enters(e.range, trigger) => step.events = <<>>
<1> DEFINE range == e.range
           open == range[1].open
           close == range[Len(range)].close
           doji == IsDoji(RangeHigh(range) - RangeLow(range), Size(close - open))
           dir == IF close > open THEN "long" ELSE "short"
           step == CompleteOpeningRange(e, at, trigger)
           p == Plan(range, at, trigger)
<1>1. RangeHigh(range) = CandleHigh(range) /\ RangeLow(range) = CandleLow(range)
  BY DEF RangeHigh, RangeLow, CandleHigh, CandleLow
<1>2. FirstCandle(range) = IF doji THEN "none" ELSE dir
  BY <1>1 DEF FirstCandle
<1>3. step = IF doji THEN Emit([e EXCEPT !.complete = TRUE], <<>>) ELSE FillEntryAt(e, dir, at, trigger)
  BY DEF CompleteOpeningRange
<1>4. \A s : s = Emit([e EXCEPT !.complete = TRUE], <<>>) => s.e.complete /\ s.events = <<>>
  BY DEF Emit, Engines
<1>5. dir \in {"long", "short"} /\ dir # "none"
  OBVIOUS
<1> HIDE DEF doji, dir, step
<1>6. CASE doji
  <2>1. ~Enters(range, trigger)
    BY <1>2, <1>6 DEF Enters
  <2> QED BY <1>3, <1>4, <1>6, <2>1 DEF step
<1>7. CASE ~doji
  <2>1. FirstCandle(range) = dir
    BY <1>2, <1>7
  <2> DEFINE entry == EntryFill(dir, trigger)
             stop == IF dir = "long" THEN RangeLow(range) ELSE RangeHigh(range)
             risk == Size(entry - stop)
             target == entry + Sign(dir) * TargetR * risk
             pos == [dir |-> dir, at |-> at, entry |-> entry, stop |-> stop, target |-> target, risk |-> risk]
  <2>2. p = pos /\ RiskOf(range, trigger) = risk
    BY <1>1, <2>1 DEF Plan, Entry, StopOf, RiskOf
  <2>3. step = IF risk <= 0 THEN Emit([e EXCEPT !.complete = TRUE], <<>>)
               ELSE Emit([e EXCEPT !.complete = TRUE, !.taken = TRUE, !.pos = pos,
                                   !.earned = FALSE, !.pending = FALSE], <<Opened(pos)>>)
    BY <1>3, <1>7 DEF FillEntryAt
  <2> HIDE DEF risk, pos
  <2>4. Enters(range, trigger) <=> ~(risk <= 0)
    BY <1>5, <2>1, <2>2 DEF Enters
  <2>5. CASE risk <= 0
    <3>1. step = Emit([e EXCEPT !.complete = TRUE], <<>>)
      BY <2>3, <2>5
    <3> QED BY <1>4, <2>4, <2>5, <3>1 DEF step
  <2>6. CASE ~(risk <= 0)
    <3>1. step.e = [e EXCEPT !.complete = TRUE, !.taken = TRUE, !.pos = pos,
                             !.earned = FALSE, !.pending = FALSE]
          /\ step.events = <<Opened(pos)>>
      BY <2>3, <2>6 DEF Emit
    <3>2. step.e.complete /\ step.e.pos = pos /\ ~step.e.earned /\ ~step.e.pending
      BY <3>1 DEF Engines
    <3> QED BY <2>2, <2>4, <2>6, <3>1, <3>2 DEF step
  <2> QED BY <2>5, <2>6
<1> QED BY <1>6, <1>7

-----------------------------------------------------------------------------
(* The opening range, bar by bar                                             *)

\* The engine is still at the opening range of the bars it was handed.
Gathers(e, bars) ==
    /\ ~e.complete /\ e.range = bars /\ e.pos = Flat
    /\ \A i \in 1..Len(bars) : bars[i].at + 1 < RangeEnd(bars)

\* What the opening range that ends with bar n gives to do.
PlanOf(bars, n) == Plan(SubSeq(bars, 1, n), RangeEnd(bars), bars[n].close)
PlanEnters(bars, n) == Enters(SubSeq(bars, 1, n), bars[n].close)

Passed(bars) == bars # <<>> /\ bars[Len(bars)].at + 1 >= RangeEnd(bars)

\* The engine completes the range with the last of the bars: at the range's last minute as
\* planned; past it, after a feed that lost that minute, without a plan to compare with.
CompletesOn(step, bars) ==
    /\ step.e.complete /\ Passed(bars)
    /\ \A n \in 1..Len(bars) : EndsRange(bars, n) =>
          /\ n = Len(bars)
          /\ IF PlanEnters(bars, n)
             THEN /\ step.events = <<Opened(PlanOf(bars, n))>> /\ PlanOf(bars, n) \in OpenPosition
                  /\ step.e.pos = PlanOf(bars, n) /\ ~step.e.earned /\ ~step.e.pending
             ELSE step.events = <<>> /\ step.e.pos = Flat

\* The range's end is the first bar's doing.
LEMMA RangeEndStays ==
    ASSUME NEW bars \in Seq(Bar), NEW bar \in Bar
    PROVE  LET grown == Append(bars, bar) IN
           /\ grown \in Seq(Bar) /\ Len(grown) = Len(bars) + 1 /\ grown[Len(bars) + 1] = bar
           /\ \A i \in 1..Len(bars) : grown[i] = bars[i]
           /\ bars # <<>> => RangeEnd(grown) = RangeEnd(bars)
           /\ RangeEnd(grown) \in Nat
           /\ bars = <<>> => RangeEnd(grown) = bar.at + OrMinutes
<1> DEFINE grown == Append(bars, bar)
<1>1. /\ grown \in Seq(Bar) /\ Len(grown) = Len(bars) + 1 /\ grown[Len(bars) + 1] = bar
      /\ \A i \in 1..Len(bars) : grown[i] = bars[i]
      /\ Len(bars) \in Nat /\ (bars # <<>> => 1 \in 1..Len(bars)) /\ (bars = <<>> => Len(bars) = 0)
  OBVIOUS
<1> HIDE DEF grown
<1>2. bars # <<>> => RangeEnd(grown) = RangeEnd(bars)
  BY <1>1 DEF RangeEnd
<1>3. bars = <<>> => RangeEnd(grown) = bar.at + OrMinutes
  BY <1>1 DEF RangeEnd
<1>4. RangeEnd(grown) \in Nat
  <2>1. 1 \in 1..Len(grown)
    BY <1>1
  <2>2. grown[1] \in Bar
    BY <1>1, <2>1
  <2>3. grown[1].at \in Nat
    BY <2>2 DEF Bar
  <2> QED BY <2>3 DEF RangeEnd
<1> QED BY <1>1, <1>2, <1>3, <1>4 DEF grown

\* A bar that comes while the engine is at the opening range.
LEMMA GatherStep ==
    ASSUME NEW e \in Engines, NEW bars \in Seq(Bar), NEW bar \in Bar, Gathers(e, bars)
    PROVE  LET grown == Append(bars, bar)
               step == OnBar(e, bar)
           IN  (step.events = <<>> /\ Gathers(step.e, grown)) \/ CompletesOn(step, grown)
<1> DEFINE grown == Append(bars, bar)  k == Len(bars) + 1
           step == OnBar(e, bar)
           full == [e EXCEPT !.range = Append(e.range, bar)]
<1>1. ~e.complete /\ e.range = bars /\ e.pos = Flat
      /\ \A i \in 1..Len(bars) : bars[i].at + 1 < RangeEnd(bars)
  BY DEF Gathers
<1>2. /\ grown \in Seq(Bar) /\ Len(grown) = k /\ grown[k] = bar /\ grown # <<>>
      /\ \A i \in 1..Len(bars) : grown[i] = bars[i]
      /\ bars # <<>> => RangeEnd(grown) = RangeEnd(bars)
      /\ bars = <<>> => RangeEnd(grown) = bar.at + OrMinutes
      /\ RangeEnd(grown) \in Nat
      /\ Len(bars) \in Nat /\ bar.at \in Nat /\ bar.close \in Int /\ bar.open \in Int
  <2>1. Len(bars) \in Nat /\ bar.at \in Nat /\ bar.close \in Int /\ bar.open \in Int
    BY DEF Bar
  <2>2. grown # <<>>
    OBVIOUS
  <2> HIDE DEF grown
  <2> QED BY <2>1, <2>2, RangeEndStays DEF grown
<1>3. /\ full \in Engines /\ ~full.complete /\ full.range = grown /\ full.pos = Flat
  BY <1>1, <1>2 DEF Engines
<1>4. \A i \in 1..k : i = k \/ (i \in 1..Len(bars) /\ bars # <<>>)
  BY <1>2
<1>5. \A n \in 1..Len(bars) : ~EndsRange(grown, n)
  <2> SUFFICES ASSUME NEW n \in 1..Len(bars), EndsRange(grown, n) PROVE FALSE
    OBVIOUS
  <2>1. bars # <<>> /\ bars[n].at \in Nat
    <3>1. bars[n] \in Bar /\ bars # <<>>
      OBVIOUS
    <3>2. bars[n].at \in Nat
      BY <3>1 DEF Bar
    <3> QED BY <3>1, <3>2
  <2>2. grown[n].at = RangeEnd(grown) - 1
    BY DEF EndsRange
  <2> HIDE DEF grown
  <2> QED BY <1>1, <1>2, <2>1, <2>2
<1>6. step = IF bars # <<>> /\ bar.at >= RangeEnd(bars) THEN CompleteOpeningRange(e, bar.at, bar.open)
             ELSE IF bar.at + 1 >= RangeEnd(grown)
             THEN CompleteOpeningRange(full, RangeEnd(grown), bar.close)
             ELSE Emit(full, <<>>)
  <2>1. step = ProcessOrBar(e, bar)
    BY <1>1 DEF OnBar
  <2>2. OrEnd(e.range) = RangeEnd(bars) /\ OrEnd(full.range) = RangeEnd(grown)
    BY <1>1, <1>3 DEF OrEnd, RangeEnd
  <2> HIDE DEF grown, step
  <2> QED BY <1>1, <2>1, <2>2 DEF ProcessOrBar
<1> HIDE DEF grown, full, step
<1>7. CASE bars # <<>> /\ bar.at >= RangeEnd(bars)
  <2>1. step.e.complete
    BY <1>1, <1>2, <1>6, <1>7, CompletesAsPlanned
  <2>2. grown[Len(grown)].at + 1 >= RangeEnd(grown)
    BY <1>2, <1>7
  <2>3. ~EndsRange(grown, k)
    BY <1>2, <1>7 DEF EndsRange
  <2>4. \A n \in 1..Len(grown) : ~EndsRange(grown, n)
    BY <1>2, <1>4, <1>5, <2>3
  <2>5. CompletesOn(step, grown)
    BY <1>2, <2>1, <2>2, <2>4 DEF CompletesOn, Passed
  <2> QED BY <2>5 DEF step, grown
<1>8. CASE ~(bars # <<>> /\ bar.at >= RangeEnd(bars)) /\ bar.at + 1 >= RangeEnd(grown)
  <2> DEFINE p == PlanOf(grown, k)
  <2>1. step = CompleteOpeningRange(full, RangeEnd(grown), bar.close)
    BY <1>6, <1>8
  <2>2. SubSeq(grown, 1, k) = grown
    <3>1. Len(grown) = k /\ k \in Nat /\ grown \in Seq(Bar)
      BY <1>2
    <3> HIDE DEF k
    <3>2. SubSeq(grown, 1, Len(grown)) = grown
      BY <3>1
    <3> QED BY <3>1, <3>2
  <2>3. p = Plan(grown, RangeEnd(grown), bar.close)
        /\ (PlanEnters(grown, k) <=> Enters(grown, bar.close))
    <3> HIDE DEF k
    <3> QED BY <1>2, <2>2 DEF PlanOf, PlanEnters
  <2>4. /\ step.e.complete
        /\ PlanEnters(grown, k) =>
              step.events = <<Opened(p)>> /\ step.e.pos = p /\ ~step.e.earned /\ ~step.e.pending
        /\ ~PlanEnters(grown, k) => step.events = <<>>
    <3> HIDE DEF p, k
    <3> QED BY <1>2, <1>3, <2>1, <2>3, CompletesAsPlanned
  <2>5. EngineSteps(full, step)
    BY <1>2, <1>3, <2>1, CompleteSteps
  <2> HIDE DEF p
  <2>6. PlanEnters(grown, k) => p \in OpenPosition
    <3> SUFFICES ASSUME PlanEnters(grown, k) PROVE p \in OpenPosition
      OBVIOUS
    <3>1. step.events = <<Opened(p)>>
      BY <2>4
    <3>2. step.events # <<>> /\ step.events[1].type = "opened" /\ step.events[1].pos = p
      BY <3>1 DEF Opened
    <3>3. ~Quiet(full, step) /\ ~Closes(full, step)
      <4>1. ~Quiet(full, step)
        BY <3>2 DEF Quiet
      <4>2. ~Closes(full, step)
        <5> SUFFICES ASSUME Closes(full, step) PROVE FALSE
          OBVIOUS
        <5>1. PICK trade : step.events = <<[type |-> "closed", trade |-> trade]>>
          BY DEF Closes
        <5>2. step.events[1].type = "closed"
          BY <5>1
        <5> QED BY <3>2, <5>2
      <4> QED BY <4>1, <4>2
    <3>4. PICK pos \in OpenPosition : step.events = <<Opened(pos)>>
      BY <2>5, <3>3 DEF EngineSteps, Opens
    <3>5. step.events[1].pos = pos
      BY <3>4 DEF Opened
    <3> QED BY <3>2, <3>5
  <2>7. ~PlanEnters(grown, k) => step.e.pos = Flat
    <3> SUFFICES ASSUME ~PlanEnters(grown, k) PROVE step.e.pos = Flat
      OBVIOUS
    <3>1. step.events = <<>>
      BY <2>4
    <3>2. ~Opens(full, step) /\ ~Closes(full, step)
      BY <3>1 DEF Opens, Closes
    <3> QED BY <1>3, <2>5, <3>2 DEF EngineSteps, Quiet
  <2>8. grown[Len(grown)].at + 1 >= RangeEnd(grown)
    BY <1>2, <1>8
  <2>9. CompletesOn(step, grown)
    <3> SUFFICES ASSUME NEW n \in 1..Len(grown), EndsRange(grown, n)
                 PROVE  /\ n = Len(grown)
                        /\ IF PlanEnters(grown, n)
                           THEN /\ step.events = <<Opened(PlanOf(grown, n))>>
                                /\ PlanOf(grown, n) \in OpenPosition
                                /\ step.e.pos = PlanOf(grown, n) /\ ~step.e.earned /\ ~step.e.pending
                           ELSE step.events = <<>> /\ step.e.pos = Flat
      BY <1>2, <2>4, <2>8 DEF CompletesOn, Passed
    <3>1. n = k
      BY <1>2, <1>4, <1>5
    <3> QED BY <1>2, <2>4, <2>6, <2>7, <3>1 DEF p
  <2> QED BY <2>9 DEF step, grown
<1>9. CASE ~(bars # <<>> /\ bar.at >= RangeEnd(bars)) /\ ~(bar.at + 1 >= RangeEnd(grown))
  <2>1. step = Emit(full, <<>>)
    BY <1>6, <1>9
  <2>2. step.e = full /\ step.events = <<>>
    BY <2>1 DEF Emit
  <2>3. \A i \in 1..Len(grown) : grown[i].at + 1 < RangeEnd(grown)
    <3>1. grown[k].at + 1 < RangeEnd(grown)
      BY <1>2, <1>9
    <3>2. \A i \in 1..Len(bars) : bars # <<>> => grown[i].at + 1 < RangeEnd(grown)
      BY <1>1, <1>2
    <3> QED BY <1>2, <1>4, <3>1, <3>2
  <2>4. Gathers(step.e, grown)
    BY <1>3, <2>2, <2>3 DEF Gathers
  <2> QED BY <2>2, <2>4 DEF step, grown
<1> QED BY <1>7, <1>8, <1>9

\* Since bar n, with which the opening range ended, the process holds position p.
Holds(e, js, p, bars, n) ==
    Len(js) = 1 /\ p \in OpenPosition /\ Manages(e, p, bars, n) /\ Runs(p, bars, n, Len(bars))

\* It has closed p on the first bar that ends it.
HasClosed(e, js, p, bars, n) ==
    /\ Len(js) = 2 /\ e.pos = Flat
    /\ \E k \in (n + 1)..Len(bars) :
          EndsAt(p, bars, n, k) /\ Runs(p, bars, n, k - 1) /\ js[2].event.trade = TradeAt(p, bars[k])

FollowsPlan(e, js, bars, n) ==
    IF PlanEnters(bars, n)
    THEN Holds(e, js, PlanOf(bars, n), bars, n) \/ HasClosed(e, js, PlanOf(bars, n), bars, n)
    ELSE js = <<>> /\ e.pos = Flat

\* The opening range is over, and the journal is what came of it.
Decided(e, js, bars) ==
    /\ e.complete /\ Passed(bars)
    /\ \A n \in 1..Len(bars) : EndsRange(bars, n) => FollowsPlan(e, js, bars, n)

\* The range, the plan and the entry are those of the bars up to n.
LEMMA PlanStays ==
    ASSUME NEW bars \in Seq(Bar), NEW bar \in Bar, NEW n \in 1..Len(bars)
    PROVE  LET grown == Append(bars, bar) IN
           /\ EndsRange(grown, n) <=> EndsRange(bars, n)
           /\ PlanOf(grown, n) = PlanOf(bars, n)
           /\ PlanEnters(grown, n) <=> PlanEnters(bars, n)
<1> DEFINE grown == Append(bars, bar)
<1>1. bars # <<>>
  OBVIOUS
<1>2. SubSeq(grown, 1, n) = SubSeq(bars, 1, n)
  OBVIOUS
<1>3. n \in 1..Len(grown) /\ grown[n] = bars[n]
  OBVIOUS
<1>4. RangeEnd(grown) = RangeEnd(bars)
  BY <1>1, RangeEndStays
<1> HIDE DEF grown
<1>5. /\ EndsRange(grown, n) <=> EndsRange(bars, n)
      /\ PlanOf(grown, n) = PlanOf(bars, n)
      /\ PlanEnters(grown, n) <=> PlanEnters(bars, n)
  BY <1>2, <1>3, <1>4 DEF EndsRange, PlanOf, PlanEnters
<1> QED BY <1>5 DEF grown

\* What is put behind a journal for the events of a step.
Journals(js, next, events) ==
    /\ events = <<>> => next = js
    /\ \A trade : events = <<[type |-> "closed", trade |-> trade]>> =>
          Len(next) = Len(js) + 1 /\ next[Len(js) + 1].event.trade = trade

\* A bar that comes after the opening range.
LEMMA DecidedStep ==
    ASSUME NEW e \in Engines, NEW bars \in Seq(Bar), NEW bar \in Bar, NEW js, Decided(e, js, bars),
           \A i \in 1..Len(bars) : bars[i].at < bar.at,
           NEW next, Journals(js, next, OnBar(e, bar).events)
    PROVE  Decided(OnBar(e, bar).e, next, Append(bars, bar))
<1> DEFINE grown == Append(bars, bar)  k == Len(bars) + 1  step == OnBar(e, bar)
<1>1. /\ grown \in Seq(Bar) /\ Len(grown) = k /\ grown[k] = bar /\ grown # <<>> /\ bars # <<>>
      /\ \A i \in 1..Len(bars) : grown[i] = bars[i]
      /\ RangeEnd(grown) = RangeEnd(bars) /\ RangeEnd(bars) \in Nat
      /\ Len(bars) \in 1..Len(bars) /\ bars[Len(bars)].at \in Nat /\ bar.at \in Nat /\ Len(bars) \in Nat
      /\ bars[Len(bars)].at + 1 >= RangeEnd(bars) /\ e.complete
  <2>1. /\ bars # <<>> /\ bars[Len(bars)].at + 1 >= RangeEnd(bars) /\ e.complete
    BY DEF Decided, Passed
  <2>2. Len(bars) \in 1..Len(bars) /\ bars[Len(bars)] \in Bar /\ Len(bars) \in Nat
    BY <2>1
  <2>3. bars[Len(bars)].at \in Nat /\ bar.at \in Nat
    BY <2>2 DEF Bar
  <2>4. grown # <<>>
    OBVIOUS
  <2>5. /\ grown \in Seq(Bar) /\ Len(grown) = Len(bars) + 1 /\ grown[Len(bars) + 1] = bar
        /\ \A i \in 1..Len(bars) : grown[i] = bars[i]
        /\ RangeEnd(grown) = RangeEnd(bars) /\ RangeEnd(grown) \in Nat
    BY <2>1, RangeEndStays
  <2> HIDE DEF grown
  <2> QED BY <2>1, <2>2, <2>3, <2>4, <2>5
<1>2. bars[Len(bars)].at < bar.at
  BY <1>1
<1>3. Passed(grown)
  <2> HIDE DEF grown
  <2> QED BY <1>1, <1>2 DEF Passed
<1>4. EngineSteps(e, step) /\ step.e.complete
  <2>1. EngineSteps(e, step)
    BY BarSteps
  <2> QED BY <1>1, <2>1 DEF EngineSteps
<1>5. ~EndsRange(grown, k)
  <2> HIDE DEF grown
  <2> QED BY <1>1, <1>2 DEF EndsRange
<1>6. ASSUME NEW n \in 1..Len(grown), EndsRange(grown, n) PROVE FollowsPlan(step.e, next, grown, n)
  <2>1. n \in 1..Len(bars)
    <3> HIDE DEF grown
    <3>1. n # k
      BY <1>5, <1>6
    <3> QED BY <1>1, <3>1
  <2>2. /\ EndsRange(bars, n) /\ PlanOf(grown, n) = PlanOf(bars, n)
        /\ PlanEnters(grown, n) <=> PlanEnters(bars, n)
    BY <1>6, <2>1, PlanStays
  <2> DEFINE p == PlanOf(bars, n)
  <2>3. FollowsPlan(e, js, bars, n)
    BY <2>1, <2>2 DEF Decided
  <2>4. /\ \A m \in (n + 1)..Len(bars) : EndsAt(p, grown, n, m) <=> EndsAt(p, bars, n, m)
        /\ \A m \in n..Len(bars) : Runs(p, grown, n, m) <=> Runs(p, bars, n, m)
    BY <2>1, Growing
  <2>5. n \in Nat /\ n <= Len(bars)
    BY <1>1, <2>1
  <2> HIDE DEF p, grown, step
  <2>6. CASE e.pos = Flat
    <3>1. step.e = e /\ step.events = <<>>
      BY <1>1, <2>6 DEF OnBar, Emit, step
    <3>2. next = js
      BY <3>1 DEF Journals, step
    <3>3. CASE ~PlanEnters(bars, n)
      BY <2>2, <2>3, <3>1, <3>2, <3>3 DEF FollowsPlan
    <3>4. CASE PlanEnters(bars, n)
      <4>1. ~Holds(e, js, p, bars, n)
        BY <2>6 DEF Holds, Manages, OpenPosition, Flat
      <4>2. HasClosed(e, js, p, bars, n)
        BY <2>3, <3>4, <4>1 DEF FollowsPlan, p
      <4>3. PICK m \in (n + 1)..Len(bars) :
                EndsAt(p, bars, n, m) /\ Runs(p, bars, n, m - 1) /\ js[2].event.trade = TradeAt(p, bars[m])
        BY <4>2 DEF HasClosed
      <4>4. m \in (n + 1)..Len(grown) /\ m - 1 \in n..Len(bars) /\ grown[m] = bars[m]
        BY <1>1, <2>5, <4>3
      <4>5. HasClosed(step.e, next, p, grown, n)
        BY <2>4, <3>1, <3>2, <4>2, <4>3, <4>4 DEF HasClosed
      <4> QED BY <2>2, <3>4, <4>5 DEF FollowsPlan, p
    <3> QED BY <3>3, <3>4
  <2>7. CASE e.pos # Flat
    <3>1. PlanEnters(bars, n) /\ Holds(e, js, p, bars, n)
      BY <2>3, <2>7 DEF FollowsPlan, HasClosed, p
    <3>2. /\ Len(js) = 1 /\ p \in OpenPosition /\ Manages(e, p, bars, n)
          /\ Runs(p, bars, n, Len(bars))
      BY <3>1 DEF Holds
    <3>3. IF EndsAt(p, grown, n, k) THEN ClosedBy(step, TradeAt(p, bar))
          ELSE step.events = <<>> /\ Manages(step.e, p, grown, n)
      BY <2>1, <3>2, ManagedStep DEF grown, step
    <3>4. Len(bars) \in n..Len(bars)
      BY <1>1, <2>5
    <3>5. Runs(p, grown, n, Len(bars))
      BY <2>4, <3>2, <3>4
    <3>6. CASE EndsAt(p, grown, n, k)
      <4>1. step.events = <<[type |-> "closed", trade |-> TradeAt(p, bar)]>> /\ step.e.pos = Flat
        BY <3>3, <3>6 DEF ClosedBy
      <4>2. Len(next) = 2 /\ next[2].event.trade = TradeAt(p, bar)
        BY <3>2, <4>1 DEF Journals, step
      <4>3. k \in (n + 1)..Len(grown) /\ k - 1 = Len(bars)
        BY <1>1, <2>5
      <4>4. HasClosed(step.e, next, p, grown, n)
        <5> HIDE DEF k
        <5> QED BY <1>1, <3>5, <3>6, <4>1, <4>2, <4>3 DEF HasClosed
      <4> QED BY <2>2, <3>1, <4>4 DEF FollowsPlan, p
    <3>7. CASE ~EndsAt(p, grown, n, k)
      <4>1. next = js /\ Manages(step.e, p, grown, n)
        BY <3>3, <3>7 DEF Journals, step
      <4>2. \A i \in (n + 1)..Len(grown) : i = k \/ i \in (n + 1)..Len(bars)
        BY <1>1, <2>5
      <4>3. Runs(p, grown, n, Len(grown))
        <5> HIDE DEF k
        <5> QED BY <3>5, <3>7, <4>2 DEF Runs
      <4>4. Holds(step.e, next, p, grown, n)
        BY <3>2, <4>1, <4>3 DEF Holds
      <4> QED BY <2>2, <3>1, <4>4 DEF FollowsPlan, p
    <3> QED BY <3>6, <3>7
  <2> QED BY <2>6, <2>7
<1> QED BY <1>3, <1>4, <1>6 DEF Decided

\* What the last of the bars decided stands in the journal.
LEMMA CompletesDecided ==
    ASSUME NEW step, NEW bars \in Seq(Bar), CompletesOn(step, bars), step.e \in Engines, NEW e, NEW next,
           step.events = <<>> => e = step.e /\ next = <<>>,
           \A p : step.events = <<Opened(p)>> => e = Restored(TRUE, p) /\ Len(next) = 1,
           e.complete
    PROVE  Decided(e, next, bars)
<1> SUFFICES ASSUME NEW n \in 1..Len(bars), EndsRange(bars, n) PROVE FollowsPlan(e, next, bars, n)
  BY DEF CompletesOn, Decided
<1> DEFINE p == PlanOf(bars, n)
<1>1. /\ n = Len(bars) /\ n \in Nat
      /\ IF PlanEnters(bars, n) THEN step.events = <<Opened(p)>> /\ p \in OpenPosition
         ELSE step.events = <<>> /\ step.e.pos = Flat
  BY DEF CompletesOn
<1> HIDE DEF p
<1>2. CASE ~PlanEnters(bars, n)
  BY <1>1, <1>2 DEF FollowsPlan
<1>3. CASE PlanEnters(bars, n)
  <2>1. e = Restored(TRUE, p) /\ Len(next) = 1 /\ p \in OpenPosition
    BY <1>1, <1>3
  <2>2. e.complete = TRUE /\ e.pos = p /\ e.earned = FALSE /\ e.pending = FALSE
    BY <2>1 DEF Restored
  <2>3. (n + 1)..n = {} /\ ~(n > n)
    BY <1>1
  <2>4. ~EarnedBy(p, bars, n, n) /\ ~ArmedAt(p, bars, n, n) /\ Runs(p, bars, n, n)
    <3>1. ~EarnedBy(p, bars, n, n)
      BY <2>3 DEF EarnedBy
    <3>2. ~ArmedAt(p, bars, n, n)
      BY <2>3 DEF ArmedAt
    <3>3. Runs(p, bars, n, n)
      BY <2>3 DEF Runs
    <3> QED BY <3>1, <3>2, <3>3
  <2>5. Manages(e, p, bars, n)
    BY <1>1, <2>2, <2>4 DEF Manages
  <2>6. Holds(e, next, p, bars, n)
    BY <1>1, <2>1, <2>4, <2>5 DEF Holds
  <2> QED BY <1>3, <2>6 DEF FollowsPlan, p
<1> QED BY <1>2, <1>3

-----------------------------------------------------------------------------
(* The paper session's day against the backtester's                          *)

\* A process that runs is handed bars of the market in the order of their minutes; there is
\* something in the journal once the day's trade is taken.
HandedInOrder ==
    /\ \A i \in 1..Len(tape) : tape[i].at = i - 1
    /\ disk.taken => journal # <<>>
    /\ up => outcome = "none" /\ Ordered(served) /\ \A i \in 1..Len(served) : served[i].at < minute

\* All that is in the journal was done by this process.
Own == \A i \in 1..Len(journal) : journal[i].by = launch

Collecting == Gathers(engine, served) /\ journal = <<>> /\ ~disk.taken

ParityInv ==
    /\ HandedInOrder
    /\ up /\ Own => Collecting \/ Decided(engine, journal, served)
    /\ MatchesBacktest

\* What the session loop does with a step, event by event.
LEMMA RecordCases ==
    ASSUME NEW step, Record(step), engine.pos = disk.pos, journal \in Seq(JournalRows)
    PROVE  /\ step.events = <<>> => engine' = step.e /\ disk' = disk /\ journal' = journal
           /\ \A p : step.events = <<Opened(p)>> /\ ~disk.taken =>
                /\ engine' = Restored(TRUE, p) /\ disk'.taken
                /\ journal' = Append(journal, [by |-> launch, event |-> Opened(p)])
           /\ \A trade : step.events = <<[type |-> "closed", trade |-> trade]>> /\ engine.pos # Flat =>
                /\ engine' = step.e /\ disk' = [disk EXCEPT !.pos = Flat]
                /\ journal' = Append(journal, [by |-> launch, event |-> [type |-> "closed", trade |-> trade]])
<1>1. step.events = <<>> => engine' = step.e /\ disk' = disk /\ journal' = journal
  BY DEF Record
<1>2. ASSUME NEW p, step.events = <<Opened(p)>>, ~disk.taken
      PROVE  /\ engine' = Restored(TRUE, p) /\ disk'.taken
             /\ journal' = Append(journal, [by |-> launch, event |-> Opened(p)])
  <2>1. step.events # <<>> /\ step.events[1] = Opened(p) /\ Opened(p).type = "opened" /\ Opened(p).pos = p
    BY <1>2 DEF Opened
  <2>2. TradeOpened(Opened(p))
    BY <1>2, <2>1 DEF Record, Ignored
  <2> QED BY <2>1, <2>2 DEF TradeOpened
<1>3. ASSUME NEW trade, step.events = <<[type |-> "closed", trade |-> trade]>>, engine.pos # Flat
      PROVE  /\ engine' = step.e /\ disk' = [disk EXCEPT !.pos = Flat]
             /\ journal' = Append(journal, [by |-> launch, event |-> [type |-> "closed", trade |-> trade]])
  <2> DEFINE ev == [type |-> "closed", trade |-> trade]
  <2>1. step.events # <<>> /\ step.events[1] = ev /\ ev.type # "opened"
    BY <1>3
  <2> HIDE DEF ev
  <2>2. TradeClosed(step, ev)
    BY <1>3, <2>1 DEF Record, Ignored
  <2> QED BY <2>2 DEF TradeClosed, ev
<1> QED BY <1>1, <1>2, <1>3

\* The session loop puts at most a row of this process behind the journal.
LEMMA RowsOfProcess ==
    ASSUME SessionInv, ParityInv, up, launch' = launch, NEW step, EngineSteps(engine, step), Record(step)
    PROVE  /\ Own' => Own
           /\ disk'.taken => journal' # <<>>
           /\ engine.complete => Journals(journal, journal', step.events) /\ engine' = step.e
           /\ ~disk.taken => step.events = <<>> \/ \E p : step.events = <<Opened(p)>>
<1>1. /\ journal \in Seq(JournalRows) /\ engine.pos = disk.pos /\ disk \in Disks /\ engine \in Engines
      /\ disk.taken => journal # <<>>
      /\ ~disk.taken => disk.pos = Flat
      /\ disk.taken => engine.complete
  BY DEF SessionInv, SessionTypeOK, StateMirrorsEngine, ParityInv, HandedInOrder, TakenGuardsEntry
<1>2. ASSUME NEW ev, journal' = Append(journal, [by |-> launch, event |-> ev])
      PROVE  /\ Own' => Own
             /\ journal' # <<>> /\ Len(journal') = Len(journal) + 1 /\ journal'[Len(journal) + 1].event = ev
  <2> DEFINE row == [by |-> launch, event |-> ev]
  <2>1. row.event = ev
    OBVIOUS
  <2> HIDE DEF row
  <2>2. /\ journal' # <<>> /\ Len(journal') = Len(journal) + 1 /\ journal'[Len(journal) + 1] = row
        /\ Len(journal) \in Nat /\ \A i \in 1..Len(journal) : journal'[i] = journal[i]
    BY <1>1, <1>2 DEF row
  <2>3. Own' => Own
    BY <2>2 DEF Own
  <2> QED BY <2>1, <2>2, <2>3
<1>3. CASE step.events = <<>>
  <2>1. engine' = step.e /\ disk' = disk /\ journal' = journal
    BY <1>1, <1>3, RecordCases
  <2>2. Own' => Own
    BY <2>1 DEF Own
  <2>3. \A trade : step.events # <<[type |-> "closed", trade |-> trade]>>
    BY <1>3
  <2>4. Journals(journal, journal', step.events)
    BY <2>1, <2>3 DEF Journals
  <2> QED BY <1>1, <1>3, <2>1, <2>2, <2>4
<1>4. CASE Opens(engine, step)
  <2>1. PICK p \in OpenPosition : step.events = <<Opened(p)>> /\ ~engine.complete
    BY <1>4 DEF Opens
  <2>2. ~disk.taken
    BY <1>1, <2>1
  <2>3. journal' = Append(journal, [by |-> launch, event |-> Opened(p)])
    BY <1>1, <2>1, <2>2, RecordCases
  <2>4. journal' # <<>> /\ (Own' => Own)
    BY <1>2, <2>3
  <2> QED BY <2>1, <2>4
<1>5. CASE Closes(engine, step)
  <2>1. PICK trade \in Trades :
            step.events = <<[type |-> "closed", trade |-> trade]>> /\ engine.pos # Flat /\ step.e.pos = Flat
    BY <1>5 DEF Closes
  <2>2. /\ engine' = step.e
        /\ journal' = Append(journal, [by |-> launch, event |-> [type |-> "closed", trade |-> trade]])
    BY <1>1, <2>1, RecordCases
  <2>3. /\ Own' => Own
        /\ journal' # <<>> /\ Len(journal') = Len(journal) + 1
        /\ journal'[Len(journal) + 1].event = [type |-> "closed", trade |-> trade]
    BY <1>2, <2>2
  <2>4. step.events # <<>>
    BY <2>1
  <2>5. \A t : step.events = <<[type |-> "closed", trade |-> t]>> => t = trade
    <3> SUFFICES ASSUME NEW t, step.events = <<[type |-> "closed", trade |-> t]>> PROVE t = trade
      OBVIOUS
    <3>1. step.events[1].trade = t /\ step.events[1].trade = trade
      BY <2>1
    <3> QED BY <3>1
  <2>6. journal'[Len(journal) + 1].event.trade = trade
    BY <2>3
  <2>7. Journals(journal, journal', step.events)
    BY <2>3, <2>4, <2>5, <2>6 DEF Journals
  <2>8. disk.taken
    BY <1>1, <2>1
  <2> QED BY <2>2, <2>3, <2>7, <2>8
<1> QED BY <1>3, <1>4, <1>5 DEF EngineSteps, Quiet

\* A process that has not started has nothing to agree with.
LEMMA ParityStarts == Init => ParityInv
<1> SUFFICES ASSUME Init PROVE ParityInv
  OBVIOUS
<1>1. \A i \in 1..Len(tape) : tape[i].at = i - 1
  <2>1. tape = <<>> /\ Len(<<>>) = 0
    BY DEF Init
  <2> QED BY <2>1
<1> QED BY <1>1 DEF Init, ParityInv, HandedInOrder, MatchesBacktest

\* A minute of the market: it is the next one's bar.
LEMMA MinuteParity == SessionInv /\ ParityInv /\ MarketMinute => ParityInv'
<1> SUFFICES ASSUME SessionInv, ParityInv, MarketMinute PROVE ParityInv'
  OBVIOUS
<1>1. PICK shape \in Shapes : tape' = Append(tape, NextBar(shape))
  BY DEF MarketMinute
<1>2. UNCHANGED <<up, minute, engine, served, disk, journal, launch, missing, outcome>>
  BY DEF MarketMinute
<1>3. /\ tape \in Seq(Bar) /\ Len(tape) \in Nat /\ NextBar(shape) \in Bar /\ NextBar(shape).at = Len(tape)
      /\ \A i \in 1..Len(tape) : tape[i].at = i - 1
  BY NextBarIsBar DEF SessionInv, SessionTypeOK, ParityInv, HandedInOrder, NextBar
<1>4. /\ Len(tape') = Len(tape) + 1 /\ tape'[Len(tape) + 1] = NextBar(shape)
      /\ \A i \in 1..Len(tape) : tape'[i] = tape[i]
  BY <1>1, <1>3
<1>5. \A i \in 1..Len(tape') : tape'[i].at = i - 1
  <2>1. \A i \in 1..Len(tape') : i = Len(tape) + 1 \/ i \in 1..Len(tape)
    BY <1>3, <1>4
  <2>2. tape'[Len(tape) + 1].at = Len(tape) + 1 - 1
    BY <1>3, <1>4
  <2>3. \A i \in 1..Len(tape) : tape'[i].at = i - 1
    BY <1>3, <1>4
  <2> HIDE DEF NextBar
  <2> QED BY <2>1, <2>2, <2>3
<1>6. HandedInOrder'
  BY <1>2, <1>5 DEF ParityInv, HandedInOrder
<1>7. (Own' <=> Own) /\ (Collecting' <=> Collecting)
      /\ (MatchesBacktest' <=> MatchesBacktest)
  BY <1>2 DEF Own, Collecting, MatchesBacktest, Events
<1> QED BY <1>2, <1>6, <1>7 DEF ParityInv

\* A process starts: the journal is all its own only while there is nothing in it, and then
\* its engine is a fresh one.
LEMMA LaunchParity == SessionInv /\ ParityInv /\ Launch => ParityInv'
<1> SUFFICES ASSUME SessionInv, ParityInv, Launch PROVE ParityInv'
  OBVIOUS
<1>1. /\ disk' = disk /\ journal' = journal /\ tape' = tape /\ launch' = launch + 1
      /\ served' = <<>> /\ engine' = StartupEngine
      /\ (up' => outcome' = "none") /\ outcome' # "done"
  BY DEF Launch
<1>2. HandedInOrder'
  <2>1. Ordered(<<>>) /\ Len(<<>>) = 0
    BY DEF Ordered
  <2> QED BY <1>1, <2>1 DEF ParityInv, HandedInOrder
<1>3. MatchesBacktest'
  BY <1>1 DEF MatchesBacktest
<1>4. Own' => Collecting'
  <2> SUFFICES ASSUME Own' PROVE Collecting'
    OBVIOUS
  <2>1. journal = <<>>
    <3> SUFFICES ASSUME journal # <<>> PROVE FALSE
      OBVIOUS
    <3>1. journal \in Seq(JournalRows) /\ launch \in Nat /\ \A i \in 1..Len(journal) : journal[i].by <= launch
      BY DEF SessionInv, SessionTypeOK
    <3>2. 1 \in 1..Len(journal)
      BY <3>1
    <3>3. journal[1].by = launch + 1 /\ journal[1].by <= launch
      BY <1>1, <3>1, <3>2 DEF Own
    <3> QED BY <3>1, <3>3
  <2>2. ~disk.taken
    BY <2>1 DEF ParityInv, HandedInOrder
  <2>3. engine' = Fresh
    BY <1>1, <2>2 DEF StartupEngine
  <2>4. Gathers(Fresh, <<>>)
    BY DEF Fresh, Gathers
  <2> QED BY <1>1, <2>1, <2>2, <2>3, <2>4 DEF Collecting
<1> QED BY <1>2, <1>3, <1>4 DEF ParityInv

\* A bar is handed to the engine: GatherStep or DecidedStep.
LEMMA ServeParity == SessionInv /\ ParityInv /\ ServeBar => ParityInv'
<1> SUFFICES ASSUME SessionInv, ParityInv, ServeBar PROVE ParityInv'
  OBVIOUS
<1> DEFINE bar == tape[minute + 1]  step == OnBar(engine, bar)
<1>1. /\ tape \in Seq(Bar) /\ Len(tape) \in Nat /\ minute \in 0..Len(tape) /\ engine \in Engines
      /\ served \in Seq(Bar) /\ journal \in Seq(JournalRows) /\ engine.pos = disk.pos /\ disk \in Disks
  BY DEF SessionInv, SessionTypeOK, ServeBar, StateMirrorsEngine
<1>2. /\ up /\ minute < Len(tape) /\ Record(step) /\ served' = Append(served, bar)
      /\ minute' = minute + 1 /\ UNCHANGED <<tape, up, launch, missing, outcome>>
  BY DEF ServeBar
<1>3. bar \in Bar /\ bar.at = minute /\ minute \in Nat
  <2>1. minute + 1 \in 1..Len(tape) /\ minute \in Nat
    BY <1>1, <1>2
  <2>2. bar.at = minute + 1 - 1
    BY <2>1 DEF ParityInv, HandedInOrder
  <2> QED BY <1>1, <2>1, <2>2
<1> HIDE DEF bar
<1>4. EngineSteps(engine, step)
  BY <1>1, <1>3, BarSteps
<1>5. \A i \in 1..Len(served) : served[i].at < bar.at
  BY <1>2, <1>3 DEF ParityInv, HandedInOrder
<1>6. /\ Own' => Own
      /\ disk'.taken => journal' # <<>>
      /\ engine.complete => Journals(journal, journal', step.events) /\ engine' = step.e
  BY <1>2, <1>4, RowsOfProcess
<1>7. HandedInOrder'
  <2>1. /\ Len(served') = Len(served) + 1 /\ served'[Len(served) + 1] = bar /\ Len(served) \in Nat
        /\ \A i \in 1..Len(served) : served'[i] = served[i]
    BY <1>1, <1>2, <1>3
  <2>2. \A i \in 1..Len(served') : i = Len(served) + 1 \/ i \in 1..Len(served)
    BY <2>1
  <2>3. Ordered(served')
    <3> SUFFICES ASSUME NEW i \in 1..Len(served'), NEW j \in 1..Len(served'), i < j
                 PROVE  served'[i].at < served'[j].at
      BY DEF Ordered
    <3>1. i \in 1..Len(served)
      BY <2>1, <2>2
    <3>2. CASE j = Len(served) + 1
      BY <1>5, <2>1, <3>1, <3>2
    <3>3. CASE j \in 1..Len(served)
      <4>1. Ordered(served)
        BY <1>2 DEF ParityInv, HandedInOrder
      <4> QED BY <2>1, <3>1, <3>3, <4>1 DEF Ordered
    <3> QED BY <2>2, <3>2, <3>3
  <2>4. \A i \in 1..Len(served') : served'[i].at < minute'
    <3> SUFFICES ASSUME NEW i \in 1..Len(served') PROVE served'[i].at < minute'
      OBVIOUS
    <3>1. CASE i = Len(served) + 1
      BY <1>2, <1>3, <2>1, <3>1
    <3>2. CASE i \in 1..Len(served)
      <4>1. served[i] \in Bar
        BY <1>1, <3>2
      <4>2. served[i].at \in Nat /\ served[i].at < minute
        BY <1>3, <1>5, <3>2, <4>1 DEF Bar
      <4> QED BY <1>2, <1>3, <2>1, <3>2, <4>2
    <3> QED BY <2>2, <3>1, <3>2
  <2>5. \A i \in 1..Len(tape') : tape'[i].at = i - 1
    BY <1>2 DEF ParityInv, HandedInOrder
  <2>6. outcome' = "none"
    BY <1>2 DEF ParityInv, HandedInOrder
  <2> QED BY <1>6, <2>3, <2>4, <2>5, <2>6 DEF HandedInOrder
<1>8. MatchesBacktest'
  <2>1. outcome' = "none"
    BY <1>2 DEF ParityInv, HandedInOrder
  <2> QED BY <2>1 DEF MatchesBacktest
<1>9. ASSUME Own' PROVE Collecting' \/ Decided(engine, journal, served)'
  <2>1. Collecting \/ Decided(engine, journal, served)
    BY <1>2, <1>6, <1>9 DEF ParityInv
  <2>2. CASE Decided(engine, journal, served)
    <3>1. Journals(journal, journal', step.events) /\ engine' = step.e
      BY <1>6, <2>2 DEF Decided
    <3>2. Decided(step.e, journal', Append(served, bar))
      BY <1>1, <1>3, <1>5, <2>2, <3>1, DecidedStep
    <3> QED BY <1>2, <3>1, <3>2
  <2>3. CASE Collecting
    <3>1. Gathers(engine, served) /\ journal = <<>> /\ ~disk.taken
      BY <2>3 DEF Collecting
    <3>2. (step.events = <<>> /\ Gathers(step.e, Append(served, bar))) \/ CompletesOn(step, Append(served, bar))
      BY <1>1, <1>3, <3>1, GatherStep
    <3>3. /\ step.events = <<>> => engine' = step.e /\ disk' = disk /\ journal' = journal
          /\ \A p : step.events = <<Opened(p)>> =>
                engine' = Restored(TRUE, p) /\ journal' = Append(journal, [by |-> launch, event |-> Opened(p)])
      BY <1>1, <1>2, <3>1, RecordCases
    <3> HIDE DEF step
    <3>4. CASE step.events = <<>> /\ Gathers(step.e, Append(served, bar))
      BY <1>2, <3>1, <3>3, <3>4 DEF Collecting
    <3>5. CASE CompletesOn(step, Append(served, bar))
      <4>1. step.events = <<>> \/ \E p : step.events = <<Opened(p)>>
        BY <1>2, <1>4, <3>1, RowsOfProcess
      <4>2. step.e.complete /\ step.e \in Engines
        BY <1>4, <3>5 DEF CompletesOn, EngineSteps
      <4>3. \A p : Restored(TRUE, p).complete
        BY DEF Restored
      <4>4. engine'.complete
        BY <3>3, <4>1, <4>2, <4>3
      <4>5. \A row : Len(Append(<<>>, row)) = 1
        OBVIOUS
      <4>6. \A p : step.events = <<Opened(p)>> => engine' = Restored(TRUE, p) /\ Len(journal') = 1
        BY <3>1, <3>3, <4>5
      <4>7. Append(served, bar) \in Seq(Bar)
        BY <1>1, <1>3
      <4>8. Decided(engine', journal', Append(served, bar))
        BY <3>1, <3>3, <3>5, <4>2, <4>4, <4>6, <4>7, CompletesDecided
      <4> QED BY <1>2, <4>8
    <3> QED BY <3>2, <3>4, <3>5
  <2> QED BY <2>1, <2>2, <2>3
<1> QED BY <1>7, <1>8, <1>9 DEF ParityInv

\* A bar is given up: nothing is handed over.
LEMMA GiveUpParity == SessionInv /\ ParityInv /\ GiveUpBar => ParityInv'
<1> SUFFICES ASSUME SessionInv, ParityInv, GiveUpBar PROVE ParityInv'
  OBVIOUS
<1>1. /\ up /\ UNCHANGED <<tape, engine, served, disk, journal, launch>>
      /\ \/ minute' = minute /\ up' = FALSE /\ outcome' = "skip"
         \/ minute' = minute + 1 /\ up' = up /\ outcome' = outcome
  BY DEF GiveUpBar
<1>2. served \in Seq(Bar) /\ minute \in Nat
  BY DEF SessionInv, SessionTypeOK
<1>3. HandedInOrder'
  <2>1. up' => \A i \in 1..Len(served') : served'[i].at < minute'
    <3> SUFFICES ASSUME up', NEW i \in 1..Len(served) PROVE served[i].at < minute'
      BY <1>1
    <3>1. served[i] \in Bar
      BY <1>2
    <3>2. served[i].at \in Nat /\ served[i].at < minute
      BY <1>1, <3>1 DEF ParityInv, HandedInOrder, Bar
    <3>3. minute' = minute + 1
      BY <1>1
    <3> QED BY <1>2, <3>2, <3>3
  <2>2. up' => outcome' = "none" /\ Ordered(served')
    BY <1>1 DEF ParityInv, HandedInOrder
  <2>3. (\A i \in 1..Len(tape') : tape'[i].at = i - 1) /\ (disk'.taken => journal' # <<>>)
    BY <1>1 DEF ParityInv, HandedInOrder
  <2> QED BY <2>1, <2>2, <2>3 DEF HandedInOrder
<1>4. (Own' <=> Own) /\ (Collecting' <=> Collecting) /\ (MatchesBacktest')
  <2>1. outcome' # "done"
    BY <1>1 DEF ParityInv, HandedInOrder
  <2>2. MatchesBacktest'
    BY <2>1 DEF MatchesBacktest
  <2> QED BY <1>1, <2>2 DEF Own, Collecting
<1>5. up' => up
  BY <1>1
<1> QED BY <1>1, <1>3, <1>4, <1>5 DEF ParityInv

\* The backtester's trade, when the bars hold the last minute of the range and the next one.
LEMMA BacktestFollows ==
    ASSUME NEW bars \in Seq(Bar), Ordered(bars), NEW n, EndsRange(bars, n), n < Len(bars),
           bars[n + 1].at = RangeEnd(bars), bars[n + 1].open = bars[n].close
    PROVE  LET p == PlanOf(bars, n) IN
           /\ ~PlanEnters(bars, n) => ~Backtest(bars).taken
           /\ PlanEnters(bars, n) /\ Runs(p, bars, n, Len(bars)) =>
                 Backtest(bars) = TradeOf(p, bars[Len(bars)].at, bars[Len(bars)].close, "eod")
           /\ \A k \in (n + 1)..Len(bars) :
                 PlanEnters(bars, n) /\ EndsAt(p, bars, n, k) /\ Runs(p, bars, n, k - 1) =>
                    Backtest(bars) = TradeAt(p, bars[k])
<1> DEFINE p == PlanOf(bars, n)
           range == SubSeq(bars, 1, n)
           trigger == bars[n + 1].open
           q == Plan(range, bars[n + 1].at, trigger)
<1>1. n \in 1..Len(bars)
  BY DEF EndsRange
<1>2. p = q /\ (PlanEnters(bars, n) <=> Enters(range, trigger))
  BY DEF PlanOf, PlanEnters
<1>3. Backtest(bars) = IF Enters(range, trigger)
                       THEN WalkToExit(q.dir, q.entry, q.stop, q.target, q.risk, SubSeq(bars, n + 1, Len(bars)))
                       ELSE NoTrade
  BY BacktestIs
<1>4. q.at = bars[n + 1].at
  BY DEF Plan
<1> HIDE DEF p, range, trigger, q
<1>5. ~NoTrade.taken
  BY DEF NoTrade
<1>6. Runs(q, bars, n, Len(bars)) =>
        WalkToExit(q.dir, q.entry, q.stop, q.target, q.risk, SubSeq(bars, n + 1, Len(bars)))
          = TradeOf(q, bars[Len(bars)].at, bars[Len(bars)].close, "eod")
  BY <1>1, <1>4, WalkToEnd
<1>7. \A k \in (n + 1)..Len(bars) : EndsAt(q, bars, n, k) /\ Runs(q, bars, n, k - 1) =>
        WalkToExit(q.dir, q.entry, q.stop, q.target, q.risk, SubSeq(bars, n + 1, Len(bars)))
          = TradeAt(q, bars[k])
  BY <1>1, <1>4, WalkToBar
<1>8. /\ ~PlanEnters(bars, n) => ~Backtest(bars).taken
      /\ PlanEnters(bars, n) /\ Runs(p, bars, n, Len(bars)) =>
            Backtest(bars) = TradeOf(p, bars[Len(bars)].at, bars[Len(bars)].close, "eod")
      /\ \A k \in (n + 1)..Len(bars) :
            PlanEnters(bars, n) /\ EndsAt(p, bars, n, k) /\ Runs(p, bars, n, k - 1) =>
               Backtest(bars) = TradeAt(p, bars[k])
  BY <1>2, <1>3, <1>5, <1>6, <1>7
<1> QED BY <1>8 DEF p

\* The window ends: what is journalled is the backtester's trade.
LEMMA SessionEndParity == SessionInv /\ ParityInv /\ SessionEnd => ParityInv'
<1> SUFFICES ASSUME SessionInv, ParityInv, SessionEnd PROVE ParityInv'
  OBVIOUS
<1> DEFINE last == served[Len(served)]  step == OnSessionEnd(engine, last)
<1>1. /\ up /\ minute = Minutes /\ up' = FALSE /\ outcome' = "done" /\ Record(step)
      /\ UNCHANGED <<tape, minute, served, launch, missing>>
  BY DEF SessionEnd
<1>2. /\ served \in Seq(Bar) /\ served # <<>> /\ engine \in Engines /\ engine.pos = disk.pos
      /\ journal \in Seq(JournalRows)
  BY <1>1 DEF SessionInv, SessionTypeOK, SomeBarServed, StateMirrorsEngine
<1>3. last \in Bar
  BY <1>2
<1> HIDE DEF last
<1>4. EngineSteps(engine, step)
  BY <1>2, <1>3, EndSteps
<1>5. (Own' => Own) /\ (disk'.taken => journal' # <<>>)
  BY <1>1, <1>4, RowsOfProcess
<1>6. HandedInOrder'
  BY <1>1, <1>5 DEF ParityInv, HandedInOrder
<1>7. MatchesBacktest'
  <2> SUFFICES ASSUME SameEntry(served)', \A ev \in Events' : ev.by = launch'
               PROVE  IF Backtest(served).taken
                      THEN Len(journal') = 2 /\ journal'[2].event.trade = Backtest(served)
                      ELSE journal' = <<>>
    BY <1>1 DEF MatchesBacktest
  <2>1. Own
    <3>1. DOMAIN journal' = 1..Len(journal')
      <4>1. journal' \in Seq(JournalRows)
        BY <1>1, <1>4, RecordEffect
      <4> QED BY <4>1
    <3>2. Own'
      BY <3>1 DEF Own, Events
    <3> QED BY <1>5, <3>2
  <2>2. PICK n \in 1..Len(served) - 1 :
            /\ served[n].at = RangeEnd(served) - 1 /\ served[n + 1].at = RangeEnd(served)
            /\ served[n + 1].open = served[n].close
    BY <1>1 DEF SameEntry, RangeEnd
  <2>3. n \in 1..Len(served) /\ n < Len(served) /\ EndsRange(served, n) /\ Ordered(served)
    <3>1. n \in 1..Len(served) /\ n < Len(served)
      BY <1>2, <2>2
    <3> QED BY <1>1, <2>2, <3>1 DEF EndsRange, ParityInv, HandedInOrder
  <2> DEFINE p == PlanOf(served, n)
  <2>4. /\ ~PlanEnters(served, n) => ~Backtest(served).taken
        /\ PlanEnters(served, n) /\ Runs(p, served, n, Len(served)) =>
              Backtest(served) = TradeOf(p, last.at, last.close, "eod")
        /\ \A k \in (n + 1)..Len(served) :
              PlanEnters(served, n) /\ EndsAt(p, served, n, k) /\ Runs(p, served, n, k - 1) =>
                 Backtest(served) = TradeAt(p, served[k])
    BY <1>2, <2>2, <2>3, BacktestFollows DEF last
  <2>5. ~Collecting
    <3> SUFFICES ASSUME Collecting PROVE FALSE
      OBVIOUS
    <3>1. served[n].at + 1 < RangeEnd(served)
      BY <2>3 DEF Collecting, Gathers
    <3>2. served[n].at \in Nat /\ RangeEnd(served) = served[n].at + 1
      <4>1. served[n] \in Bar /\ served[n + 1] \in Bar
        BY <1>2, <2>2
      <4> QED BY <2>2, <4>1 DEF Bar
    <3> QED BY <3>1, <3>2
  <2>6. FollowsPlan(engine, journal, served, n)
    BY <1>1, <2>1, <2>3, <2>5 DEF ParityInv, Decided
  <2> HIDE DEF p
  <2>7. engine.pos = Flat => journal' = journal
    <3> SUFFICES ASSUME engine.pos = Flat PROVE journal' = journal
      OBVIOUS
    <3>1. step.events = <<>>
      BY DEF OnSessionEnd, Emit
    <3> HIDE DEF step
    <3> QED BY <1>1, <1>2, <3>1, RecordCases
  <2>8. \A at, exit, reason : TradeOf(p, at, exit, reason).taken
    BY DEF TradeOf, Trade
  <2>9. \A bar : TradeAt(p, bar).taken
    BY <2>8 DEF TradeAt
  <2>10. CASE ~PlanEnters(served, n)
    BY <2>4, <2>6, <2>7, <2>10 DEF FollowsPlan
  <2>11. CASE PlanEnters(served, n) /\ HasClosed(engine, journal, p, served, n)
    <3>1. PICK k \in (n + 1)..Len(served) :
              EndsAt(p, served, n, k) /\ Runs(p, served, n, k - 1) /\ journal[2].event.trade = TradeAt(p, served[k])
      BY <2>11 DEF HasClosed
    <3>2. Len(journal) = 2 /\ journal' = journal
      BY <2>7, <2>11 DEF HasClosed
    <3>3. Backtest(served) = TradeAt(p, served[k])
      BY <2>4, <2>11, <3>1
    <3> QED BY <2>9, <3>1, <3>2, <3>3
  <2>12. CASE PlanEnters(served, n) /\ Holds(engine, journal, p, served, n)
    <3>1. Len(journal) = 1 /\ engine.pos = p /\ p \in OpenPosition /\ Runs(p, served, n, Len(served))
      BY <2>12 DEF Holds, Manages
    <3>2. p # Flat
      BY <3>1 DEF OpenPosition, Flat
    <3> DEFINE trade == TradeOf(p, last.at, last.close, "eod")
               ev == [type |-> "closed", trade |-> trade]
    <3>3. step.events = <<ev>>
      BY <3>1, <3>2 DEF OnSessionEnd, CloseTrade, Emit, Closed, TradeOf
    <3> HIDE DEF step, trade
    <3>4. engine.complete
      BY <2>12 DEF Holds, Manages
    <3>5. Journals(journal, journal', step.events)
      BY <1>1, <1>4, <3>4, RowsOfProcess
    <3>6. Len(journal') = 2 /\ journal'[2].event.trade = trade
      BY <3>1, <3>3, <3>5 DEF Journals
    <3>7. Backtest(served) = trade
      BY <2>4, <2>12, <3>1 DEF trade
    <3> QED BY <2>8, <3>6, <3>7 DEF trade
  <2> QED BY <2>6, <2>10, <2>11, <2>12 DEF FollowsPlan, p
<1> QED BY <1>1, <1>6, <1>7 DEF ParityInv

\* A process dies: there is nothing to compare.
LEMMA CrashParity == SessionInv /\ ParityInv /\ Crash => ParityInv'
BY DEF ParityInv, HandedInOrder, MatchesBacktest, Crash

\* The engine fed bar by bar journals exactly the trade that the backtester finds in the
\* same bars, whenever one process ran the day's whole trade and the entry prices agree:
\* for every market, whatever bars are missing.
THEOREM AlwaysMatchesBacktest == Spec => []MatchesBacktest
<1>1. SessionInv /\ ParityInv /\ [Next]_vars => ParityInv'
  <2> SUFFICES ASSUME SessionInv, ParityInv, [Next]_vars PROVE ParityInv'
    OBVIOUS
  <2>1. CASE UNCHANGED vars
    BY <2>1 DEF vars, ParityInv, HandedInOrder, Own, Collecting, MatchesBacktest, Events
  <2> QED BY <2>1, MinuteParity, LaunchParity, ServeParity, GiveUpParity, SessionEndParity, CrashParity
          DEF Next, Feed
<1>2. ParityInv => MatchesBacktest
  BY DEF ParityInv
<1> QED BY ParityStarts, <1>1, <1>2, SessionInvariant, PTL DEF Spec

-----------------------------------------------------------------------------
(* The replay's session against the backtester's                             *)

HIDE SessionAssumption
USE ReplayAssumption

\* A session's bars are its minutes in order, and a first run reads them for the first time.
MinutesInOrder ==
    /\ runs \in Nat
    /\ \A i \in 1..Len(day) : day[i].at = i - 1
    /\ runs = 0 => day = <<>> /\ book.date # date
    /\ active /\ runs = 1 => fed = Len(day)

\* Position p, at the size of its risk: what a bar marks it to, and whether that is the cap's.
SizeOf(p) == ContractsFor(p.risk)
LosesCap(p, bar) == Breached(Sign(p.dir) * (bar.close - p.entry) * PointValue * SizeOf(p))
Spared(p, bars, n, k) == \A i \in (n + 1)..k : ~LosesCap(p, bars[i])

StillOpen(p, n) ==
    /\ ~halted /\ rows = <<>> /\ held = [pos |-> p, contracts |-> SizeOf(p)]
    /\ Manages(brain, p, day, n) /\ Runs(p, day, n, Len(day)) /\ Spared(p, day, n, Len(day))
RowIs(p, trade) == held = NotHeld /\ Len(rows) = 1 /\ rows[1].contracts = SizeOf(p) /\ rows[1].trade = trade
WasClosed(p, n) ==
    \E k \in (n + 1)..Len(day) :
        /\ EndsAt(p, day, n, k) /\ Runs(p, day, n, k - 1) /\ Spared(p, day, n, k)
        /\ RowIs(p, TradeAt(p, day[k]))
WasCut(p, n) ==
    \E k \in (n + 1)..Len(day) :
        /\ LosesCap(p, day[k]) /\ Runs(p, day, n, k - 1) /\ Spared(p, day, n, k - 1)
        /\ RowIs(p, TradeOf(p, day[k].at, day[k].close, "daily_loss_cap"))

\* A first run before the end of the opening range, and after it: a plan that is too big for
\* one contract leaves nothing, like none.
AtRange == Gathers(brain, day) /\ ~halted /\ held = NotHeld /\ rows = <<>> /\ ~book.taken
AfterRange ==
    /\ brain.complete /\ Len(day) >= OrMinutes
    /\ LET p == PlanOf(day, OrMinutes) IN
       IF PlanEnters(day, OrMinutes)
       THEN /\ p \in OpenPosition
            /\ IF SizeOf(p) = 0 THEN held = NotHeld /\ rows = <<>>
               ELSE StillOpen(p, OrMinutes) \/ WasClosed(p, OrMinutes) \/ WasCut(p, OrMinutes)
       ELSE held = NotHeld /\ rows = <<>>

CapInv == MinutesInOrder /\ (active /\ runs = 1 => AtRange \/ AfterRange) /\ CappedParity

\* The opening range of a session without gaps is its first minutes.
LEMMA MinutesOfDay ==
    ASSUME NEW bars \in Seq(Bar), \A i \in 1..Len(bars) : bars[i].at = i - 1, bars # <<>>
    PROVE  /\ Ordered(bars) /\ RangeEnd(bars) = OrMinutes
           /\ \A n \in 1..Len(bars) : EndsRange(bars, n) <=> n = OrMinutes
<1>1. Len(bars) \in Nat /\ 1 \in 1..Len(bars)
  OBVIOUS
<1>2. RangeEnd(bars) = OrMinutes
  <2>1. bars[1].at = 1 - 1
    BY <1>1
  <2> QED BY <2>1 DEF RangeEnd
<1>3. Ordered(bars)
  BY <1>1 DEF Ordered
<1>4. \A n \in 1..Len(bars) : EndsRange(bars, n) <=> n = OrMinutes
  BY <1>1, <1>2 DEF EndsRange
<1> QED BY <1>2, <1>3, <1>4

\* With nothing held and the range over, no bar changes the rows.
LEMMA NothingHeld ==
    ASSUME held = NotHeld, brain \in Engines, brain.complete, NEW bar \in Bar,
           CapFlattens(bar) \/ EngineSees(bar) \/ HaltedBar
    PROVE  held' = NotHeld /\ rows' = rows /\ brain'.complete
<1>1. ~CapFlattens(bar)
  BY DEF CapFlattens, HitsCap
<1>2. CASE HaltedBar
  BY <1>2 DEF HaltedBar
<1>3. CASE EngineSees(bar)
  <2> DEFINE step == OnBar(brain, bar)
  <2>1. EngineSteps(brain, step) /\ Act(step)
    BY <1>3, BarSteps DEF EngineSees
  <2> HIDE DEF step
  <2>2. brain' = step.e /\ step.e.complete
    BY <2>1 DEF Act, EngineSteps
  <2>3. CASE Quiet(brain, step)
    BY <2>1, <2>2, <2>3 DEF Act, Quiet
  <2>4. CASE Opens(brain, step)
    BY <2>4 DEF Opens
  <2>5. CASE Closes(brain, step)
    <3>1. PICK trade \in Trades : step.events = <<[type |-> "closed", trade |-> trade]>>
      BY <2>5 DEF Closes
    <3>2. step.events # <<>> /\ step.events[1].type # "opened"
      BY <3>1
    <3>3. ExitsOn(step.events[1])
      BY <2>1, <3>2 DEF Act
    <3> QED BY <2>2, <3>3 DEF ExitsOn
  <2> QED BY <2>1, <2>3, <2>4, <2>5 DEF EngineSteps
<1> QED BY <1>1, <1>2, <1>3

\* A bar while the first run is at the opening range.
LEMMA RangeBar ==
    ASSUME ReplayInv, MinutesInOrder, active, AtRange, NEW bar \in Bar, day' = Append(day, bar),
           \A i \in 1..Len(day') : day'[i].at = i - 1,
           CapFlattens(bar) \/ EngineSees(bar) \/ HaltedBar
    PROVE  AtRange' \/ AfterRange'
<1> DEFINE step == OnBar(brain, bar)  grown == Append(day, bar)  n == OrMinutes
           p == PlanOf(grown, n)
<1>1. /\ Gathers(brain, day) /\ ~halted /\ held = NotHeld /\ rows = <<>> /\ ~book.taken
      /\ day \in Seq(Bar) /\ brain \in Engines /\ book.realized = 0
  BY TotalOfNone DEF AtRange, ReplayInv, DayOK, Managed, BookOK
<1>2. Act(step) /\ (~Breached(book'.realized) => ~halted')
  <2>1. EngineSees(bar)
    BY <1>1 DEF CapFlattens, HitsCap, HaltedBar
  <2>2. halted' = (halted \/ Breached(book'.realized))
    BY <2>1 DEF EngineSees, Backstop
  <2>3. ~Breached(book'.realized) => ~halted'
    BY <1>1, <2>2, Zenon
  <2> QED BY <2>1, <2>3 DEF EngineSees
<1>3. EngineSteps(brain, step)
  BY <1>1, BarSteps
<1>4. (step.events = <<>> /\ Gathers(step.e, grown)) \/ CompletesOn(step, grown)
  BY <1>1, GatherStep
<1>5. ~Breached(0)
  BY DEF Breached
<1>6. brain' = step.e
  BY <1>2 DEF Act
<1>7. ASSUME step.events = <<>>
      PROVE  held' = NotHeld /\ rows' = <<>> /\ book' = book /\ ~halted'
  BY <1>1, <1>2, <1>5, <1>7 DEF Act
<1>8. CASE step.events = <<>> /\ Gathers(step.e, grown)
  BY <1>1, <1>6, <1>7, <1>8 DEF AtRange
<1>9. CASE CompletesOn(step, grown)
  <2>1. grown \in Seq(Bar) /\ Len(grown) = Len(day) + 1 /\ Len(day) \in Nat /\ grown # <<>>
        /\ \A i \in 1..Len(day) : grown[i] = day[i]
    BY <1>1
  <2>2. RangeEnd(grown) = n /\ \A i \in 1..Len(grown) : EndsRange(grown, i) <=> i = n
    BY <2>1, MinutesOfDay
  <2>3. Len(grown) = n
    <3>1. Len(grown) \in 1..Len(grown) /\ grown[Len(grown)].at = Len(grown) - 1
      BY <2>1
    <3>2. Len(grown) >= n
      BY <1>9, <2>1, <2>2, <3>1 DEF CompletesOn, Passed
    <3>3. CASE day = <<>>
      BY <2>1, <3>2, <3>3
    <3>4. CASE day # <<>>
      <4>1. Len(day) \in 1..Len(day)
        BY <1>1, <3>4
      <4>2. RangeEnd(grown) = RangeEnd(day)
        BY <1>1, <3>4, RangeEndStays
      <4>3. day[Len(day)].at = Len(day) - 1
        BY <4>1 DEF MinutesInOrder
      <4>4. day[Len(day)].at + 1 < n
        BY <1>1, <2>2, <4>1, <4>2 DEF Gathers
      <4> QED BY <2>1, <3>2, <4>3, <4>4
    <3> QED BY <3>3, <3>4
  <2> HIDE DEF step, grown, p
  <2>4. n \in 1..Len(grown) /\ EndsRange(grown, n)
    BY <2>2, <2>3
  <2>5. /\ step.e.complete
        /\ IF PlanEnters(grown, n)
           THEN /\ step.events = <<Opened(p)>> /\ p \in OpenPosition
                /\ step.e.pos = p /\ ~step.e.earned /\ ~step.e.pending
           ELSE step.events = <<>> /\ step.e.pos = Flat
    BY <1>9, <2>4 DEF CompletesOn, p
  <2>6. brain'.complete /\ Len(day') >= n /\ day' = grown
    BY <1>6, <2>3, <2>5 DEF grown
  <2>7. CASE ~PlanEnters(grown, n)
    BY <1>7, <2>5, <2>6, <2>7 DEF AfterRange
  <2>8. CASE PlanEnters(grown, n)
    <3>1. PICK q : q = p
      OBVIOUS
    <3>2. /\ step.events = <<Opened(q)>> /\ q \in OpenPosition
          /\ step.e.pos = q /\ ~step.e.earned /\ ~step.e.pending
      BY <2>5, <2>8, <3>1
    <3>3. step.events # <<>> /\ step.events[1].type = "opened" /\ step.events[1].pos = q
      BY <3>2 DEF Opened
    <3>4. EntersOn(step.events[1])
      BY <1>2, <3>3 DEF Act, step
    <3> DEFINE c == SizeOf(q)  h == [pos |-> q, contracts |-> c]
    <3>5. /\ rows' = rows
          /\ IF c = 0 THEN book' = [book EXCEPT !.taken = TRUE] /\ held' = held
             ELSE held' = h /\ book' = [book EXCEPT !.taken = TRUE, !.held = h]
      BY <1>1, <3>3, <3>4 DEF EntersOn, SizeOf
    <3>6. PlanOf(day, n)' = q /\ PlanEnters(day, n)'
      BY <2>6, <2>8, <3>1 DEF p
    <3>7. SizeOf(q)' = c
      BY DEF SizeOf
    <3> HIDE DEF c
    <3>8. CASE c = 0
      <4>1. held' = NotHeld /\ rows' = <<>>
        BY <1>1, <3>5, <3>8
      <4> QED BY <2>6, <3>2, <3>6, <3>7, <3>8, <4>1 DEF AfterRange
    <3>9. CASE c # 0
      <4>1. book'.realized = 0
        BY <1>1, <3>5, <3>9 DEF ReplayInv, BookOK, Books
      <4>2. ~halted' /\ rows' = <<>> /\ held' = [pos |-> q, contracts |-> c]
        BY <1>1, <1>2, <1>5, <3>5, <3>9, <4>1
      <4>3. (n + 1)..n = {} /\ ~(n > n)
        OBVIOUS
      <4>4. Runs(q, grown, n, n) /\ Spared(q, grown, n, n) /\ ~EarnedBy(q, grown, n, n) /\ ~ArmedAt(q, grown, n, n)
        <5>1. Runs(q, grown, n, n) /\ Spared(q, grown, n, n)
          BY <4>3 DEF Runs, Spared
        <5>2. ~EarnedBy(q, grown, n, n)
          BY <4>3 DEF EarnedBy
        <5>3. ~ArmedAt(q, grown, n, n)
          BY <4>3 DEF ArmedAt
        <5> QED BY <5>1, <5>2, <5>3
      <4>5. Manages(step.e, q, grown, n)
        BY <2>3, <2>5, <3>2, <4>4 DEF Manages
      <4>6. StillOpen(q, n)'
        BY <1>6, <2>3, <2>6, <3>7, <4>2, <4>4, <4>5 DEF StillOpen, step
      <4> QED BY <2>6, <3>2, <3>6, <3>7, <3>9, <4>6 DEF AfterRange
    <3> QED BY <3>8, <3>9
  <2> QED BY <2>7, <2>8
<1> QED BY <1>4, <1>8, <1>9

\* A trade of position p has its entry, and ends at its bar.
LEMMA TradeAtIs ==
    ASSUME NEW p, NEW bar
    PROVE  LET t == TradeAt(p, bar) IN
           /\ t = Trade(p.dir, p.at, p.entry, t.exitAt, t.exit, t.reason) /\ t.exitAt = bar.at
<1>1. \A at, exit, reason :
        LET t == TradeOf(p, at, exit, reason) IN
        t = Trade(p.dir, p.at, p.entry, t.exitAt, t.exit, t.reason) /\ t.exitAt = at
  BY DEF TradeOf, Trade
<1>2. \E exit, reason : TradeAt(p, bar) = TradeOf(p, bar.at, exit, reason)
  BY DEF TradeAt
<1> QED BY <1>1, <1>2

\* A position is closed at a price: the one row of the session.
LEMMA BookedRow ==
    ASSUME rows = <<>>, NEW p, held = [pos |-> p, contracts |-> SizeOf(p)],
           NEW exitAt, NEW exit, NEW reason, Booked(exitAt, exit, reason)
    PROVE  /\ held' = NotHeld /\ Len(rows') = 1 /\ rows'[1].contracts = SizeOf(p)
           /\ rows'[1].trade = Trade(p.dir, p.at, p.entry, exitAt, exit, reason)
<1> DEFINE row == [trade |-> Trade(held.pos.dir, held.pos.at, held.pos.entry, exitAt, exit, reason),
                   contracts |-> held.contracts, usd |-> Usd(held, exit)]
<1>1. rows' = Append(<<>>, row) /\ held' = NotHeld
  BY DEF Booked
<1>2. row.contracts = SizeOf(p) /\ row.trade = Trade(p.dir, p.at, p.entry, exitAt, exit, reason)
  OBVIOUS
<1> HIDE DEF row
<1>3. rows' = <<row>>
  BY <1>1
<1> QED BY <1>1, <1>2, <1>3

\* A bar of the first run after the opening range.
LEMMA LaterBar ==
    ASSUME ReplayInv, MinutesInOrder, active, AfterRange, NEW bar \in Bar, day' = Append(day, bar),
           CapFlattens(bar) \/ EngineSees(bar) \/ HaltedBar
    PROVE  AfterRange'
<1> DEFINE grown == Append(day, bar)  n == OrMinutes  k == Len(day) + 1
<1>1. /\ day \in Seq(Bar) /\ brain \in Engines /\ brain.complete /\ n \in 1..Len(day)
      /\ book.date = date /\ BookOK /\ Len(day) \in Nat
  <2>1. Len(day) >= n /\ day \in Seq(Bar) /\ n \in Nat /\ n > 0
    BY DEF AfterRange, ReplayInv, DayOK
  <2>2. n \in 1..Len(day) /\ Len(day) \in Nat
    BY <2>1
  <2> QED BY <2>1, <2>2 DEF AfterRange, ReplayInv, Managed
<1>2. /\ grown \in Seq(Bar) /\ Len(grown) = k /\ grown[k] = bar
      /\ \A i \in 1..Len(day) : grown[i] = day[i]
  BY <1>1, RangeEndStays
<1>3. PICK q : q = PlanOf(day, n)
  OBVIOUS
<1>4. PlanOf(grown, n) = q /\ (PlanEnters(grown, n) <=> PlanEnters(day, n))
  BY <1>1, <1>3, PlanStays
<1>5. /\ \A i \in (n + 1)..Len(day) : EndsAt(q, grown, n, i) <=> EndsAt(q, day, n, i)
      /\ \A i \in n..Len(day) : Runs(q, grown, n, i) <=> Runs(q, day, n, i)
  BY <1>1, Growing
<1>6. \A i \in n..Len(day) : Spared(q, grown, n, i) <=> Spared(q, day, n, i)
  <2> SUFFICES ASSUME NEW i \in n..Len(day) PROVE Spared(q, grown, n, i) <=> Spared(q, day, n, i)
    OBVIOUS
  <2>1. \A j \in (n + 1)..i : j \in 1..Len(day)
    BY <1>1
  <2>2. \A j \in (n + 1)..i : grown[j] = day[j]
    BY <1>2, <2>1
  <2> HIDE DEF grown
  <2> QED BY <2>2 DEF Spared
<1> HIDE DEF grown
<1>7. Len(day') >= n /\ day' = grown
  BY <1>1, <1>2 DEF grown
<1>8. PlanOf(day, n)' = q /\ (PlanEnters(day, n)' <=> PlanEnters(day, n))
  BY <1>4, <1>7
<1>9. SizeOf(q)' = SizeOf(q)
  BY DEF SizeOf
<1>10. IF PlanEnters(day, n)
       THEN /\ q \in OpenPosition
            /\ IF SizeOf(q) = 0 THEN held = NotHeld /\ rows = <<>>
               ELSE StillOpen(q, n) \/ WasClosed(q, n) \/ WasCut(q, n)
       ELSE held = NotHeld /\ rows = <<>>
  BY <1>3 DEF AfterRange
<1>11. held = NotHeld => held' = NotHeld /\ rows' = rows /\ brain'.complete
  BY <1>1, NothingHeld
<1>12. \A i \in (n + 1)..Len(day) :
          i \in (n + 1)..Len(grown) /\ i - 1 \in n..Len(day) /\ i \in n..Len(day) /\ grown[i] = day[i]
  <2>1. \A i \in (n + 1)..Len(day) : i \in (n + 1)..k /\ i - 1 \in n..Len(day) /\ i \in n..Len(day) /\ i \in 1..Len(day)
    BY <1>1
  <2> HIDE DEF k
  <2> QED BY <1>2, <2>1
<1>13. k \in (n + 1)..Len(grown) /\ k - 1 = Len(day) /\ Len(day) \in n..Len(day)
       /\ \A i \in (n + 1)..k : i = k \/ i \in (n + 1)..Len(day)
  <2>1. k \in (n + 1)..k /\ k - 1 = Len(day) /\ Len(day) \in n..Len(day)
        /\ \A i \in (n + 1)..k : i = k \/ i \in (n + 1)..Len(day)
    BY <1>1
  <2> HIDE DEF k
  <2> QED BY <1>2, <2>1
<1> HIDE DEF k
<1>14. CASE ~PlanEnters(day, n) \/ SizeOf(q) = 0
  BY <1>7, <1>8, <1>9, <1>10, <1>11, <1>14 DEF AfterRange
<1>15. CASE PlanEnters(day, n) /\ SizeOf(q) # 0 /\ WasClosed(q, n)
  <2>1. PICK i \in (n + 1)..Len(day) :
            /\ EndsAt(q, day, n, i) /\ Runs(q, day, n, i - 1) /\ Spared(q, day, n, i)
            /\ RowIs(q, TradeAt(q, day[i]))
    BY <1>15 DEF WasClosed
  <2>2. PICK t : t = TradeAt(q, day[i])
    OBVIOUS
  <2>3. RowIs(q, t)' /\ brain'.complete
    BY <1>9, <1>11, <2>1, <2>2 DEF RowIs
  <2>4. WasClosed(q, n)'
    BY <1>5, <1>6, <1>7, <1>12, <2>1, <2>2, <2>3 DEF WasClosed
  <2> QED BY <1>7, <1>8, <1>9, <1>10, <1>15, <2>3, <2>4 DEF AfterRange
<1>16. CASE PlanEnters(day, n) /\ SizeOf(q) # 0 /\ WasCut(q, n)
  <2>1. PICK i \in (n + 1)..Len(day) :
            /\ LosesCap(q, day[i]) /\ Runs(q, day, n, i - 1) /\ Spared(q, day, n, i - 1)
            /\ RowIs(q, TradeOf(q, day[i].at, day[i].close, "daily_loss_cap"))
    BY <1>16 DEF WasCut
  <2>2. PICK b : b = day[i]
    OBVIOUS
  <2>3. RowIs(q, TradeOf(q, b.at, b.close, "daily_loss_cap"))' /\ brain'.complete
    BY <1>9, <1>11, <2>1, <2>2 DEF RowIs
  <2>4. LosesCap(q, b)'
    BY <2>1, <2>2 DEF LosesCap, SizeOf
  <2>5. grown[i] = b /\ i \in (n + 1)..Len(grown) /\ Runs(q, grown, n, i - 1) /\ Spared(q, grown, n, i - 1)
    BY <1>5, <1>6, <1>12, <2>1, <2>2
  <2>6. WasCut(q, n)'
    BY <1>7, <2>3, <2>4, <2>5 DEF WasCut
  <2> QED BY <1>7, <1>8, <1>9, <1>10, <1>16, <2>3, <2>6 DEF AfterRange
<1>17. CASE PlanEnters(day, n) /\ SizeOf(q) # 0 /\ StillOpen(q, n)
  <2> DEFINE step == OnBar(brain, bar)
  <2>1. /\ ~halted /\ rows = <<>> /\ held = [pos |-> q, contracts |-> SizeOf(q)] /\ q \in OpenPosition
        /\ Manages(brain, q, day, n) /\ Runs(q, day, n, Len(day)) /\ Spared(q, day, n, Len(day))
    BY <1>10, <1>17 DEF StillOpen
  <2>2. held # NotHeld /\ held.pos = q /\ held.contracts = SizeOf(q)
    BY <1>17, <2>1 DEF NotHeld
  <2>3. book.realized = 0
    BY <1>1, <2>1, TotalOfNone DEF BookOK
  <2>4. HitsCap(bar) <=> LosesCap(q, bar)
    <3>1. Unrealized(bar.close) = Sign(q.dir) * (bar.close - q.entry) * PointValue * SizeOf(q)
      BY <2>2 DEF Unrealized, Usd
    <3> DEFINE usd == Sign(q.dir) * (bar.close - q.entry) * PointValue * SizeOf(q)
    <3>2. usd \in Int
      <4>1. q.entry \in Int /\ q.risk \in Nat \ {0} /\ bar.close \in Int
        BY <2>1 DEF OpenPosition, Bar
      <4>2. SizeOf(q) \in Nat
        BY <4>1, ContractsAreCounted DEF SizeOf
      <4> QED BY <4>1, <4>2 DEF Sign
    <3> HIDE DEF usd
    <3>3. book.realized + Unrealized(bar.close) = usd
      BY <2>3, <3>1, <3>2 DEF usd
    <3> QED BY <2>1, <2>2, <3>3 DEF HitsCap, LosesCap, usd
  <2>5. Runs(q, grown, n, Len(day)) /\ Spared(q, grown, n, Len(day))
    BY <1>5, <1>6, <1>13, <2>1
  <2>6. CASE LosesCap(q, bar)
    <3>1. Booked(bar.at, bar.close, "daily_loss_cap") /\ brain' = Restored(TRUE, Flat)
      BY <2>1, <2>4, <2>6 DEF CapFlattens, EngineSees, HaltedBar
    <3>2. /\ held' = NotHeld /\ Len(rows') = 1 /\ rows'[1].contracts = SizeOf(q)
          /\ rows'[1].trade = Trade(q.dir, q.at, q.entry, bar.at, bar.close, "daily_loss_cap")
      BY <2>1, <3>1, BookedRow
    <3>3. brain'.complete
      BY <3>1 DEF Restored
    <3>4. RowIs(q, TradeOf(q, bar.at, bar.close, "daily_loss_cap"))'
      BY <1>9, <3>2 DEF RowIs, TradeOf
    <3>5. LosesCap(q, bar)'
      BY <2>6 DEF LosesCap, SizeOf
    <3>6. Spared(q, grown, n, k - 1) /\ Runs(q, grown, n, k - 1)
      BY <1>13, <2>5
    <3>7. WasCut(q, n)'
      BY <1>2, <1>7, <1>13, <3>4, <3>5, <3>6 DEF WasCut
    <3> QED BY <1>7, <1>8, <1>9, <1>10, <1>17, <3>3, <3>7 DEF AfterRange
  <2>7. CASE ~LosesCap(q, bar)
    <3>1. EngineSees(bar)
      BY <2>1, <2>4, <2>7 DEF CapFlattens, HaltedBar
    <3>2. Act(step) /\ brain' = step.e
      BY <3>1 DEF EngineSees, Act
    <3>3. halted' = (halted \/ Breached(book'.realized))
      BY <3>1 DEF EngineSees, Backstop
    <3>4. IF EndsAt(q, grown, n, k) THEN ClosedBy(step, TradeAt(q, bar))
          ELSE step.events = <<>> /\ Manages(step.e, q, grown, n)
      BY <1>1, <2>1, ManagedStep DEF grown, k
    <3>5. Spared(q, grown, n, k)
      BY <1>2, <1>13, <2>5, <2>7 DEF Spared
    <3> HIDE DEF step
    <3>6. CASE EndsAt(q, grown, n, k)
      <4>1. PICK t : t = TradeAt(q, bar)
        OBVIOUS
      <4>2. step.events = <<[type |-> "closed", trade |-> t]>> /\ step.e.complete
        BY <3>4, <3>6, <4>1 DEF ClosedBy
      <4>3. step.events # <<>> /\ step.events[1].type # "opened" /\ step.events[1].trade = t
        BY <4>2
      <4>4. Booked(t.exitAt, t.exit, t.reason)
        BY <2>2, <3>2, <4>3 DEF Act, ExitsOn
      <4>5. /\ held' = NotHeld /\ Len(rows') = 1 /\ rows'[1].contracts = SizeOf(q)
            /\ rows'[1].trade = Trade(q.dir, q.at, q.entry, t.exitAt, t.exit, t.reason)
        BY <2>1, <4>4, BookedRow
      <4>6. rows'[1].trade = t
        BY <4>1, <4>5, TradeAtIs
      <4>7. RowIs(q, t)'
        BY <1>9, <4>5, <4>6 DEF RowIs
      <4>8. Runs(q, grown, n, k - 1)
        BY <1>13, <2>5
      <4>9. WasClosed(q, n)'
        BY <1>2, <1>7, <1>13, <3>5, <3>6, <4>1, <4>7, <4>8 DEF WasClosed
      <4> QED BY <1>7, <1>8, <1>9, <1>10, <1>17, <3>2, <4>2, <4>9 DEF AfterRange
    <3>7. CASE ~EndsAt(q, grown, n, k)
      <4>1. step.events = <<>> /\ Manages(step.e, q, grown, n)
        BY <3>4, <3>7
      <4>2. held' = held /\ book' = book /\ rows' = rows
        BY <3>2, <4>1 DEF Act
      <4>3. ~Breached(book'.realized)
        BY <2>3, <4>2 DEF Breached
      <4>4. ~halted'
        BY <2>1, <3>3, <4>3, Zenon
      <4>5. Runs(q, grown, n, k)
        BY <1>13, <2>5, <3>7 DEF Runs
      <4>6. StillOpen(q, n)'
        BY <1>2, <1>7, <1>9, <2>1, <3>2, <3>5, <4>1, <4>2, <4>4, <4>5 DEF StillOpen
      <4>7. brain'.complete
        BY <3>2, <4>1 DEF Manages
      <4> QED BY <1>7, <1>8, <1>9, <1>10, <1>17, <4>6, <4>7 DEF AfterRange
    <3> QED BY <3>6, <3>7
  <2> QED BY <2>6, <2>7
<1> QED BY <1>10, <1>14, <1>15, <1>16, <1>17

\* A position is ended by a first bar, or runs to the last.
LEMMA FirstEnd ==
    ASSUME NEW bars \in Seq(Bar), NEW n \in 1..Len(bars), NEW p, ~Runs(p, bars, n, Len(bars))
    PROVE  \E k \in (n + 1)..Len(bars) : EndsAt(p, bars, n, k) /\ Runs(p, bars, n, k - 1)
<1> DEFINE ends == {k \in (n + 1)..Len(bars) : EndsAt(p, bars, n, k)}
<1>1. Len(bars) \in Nat /\ n \in Nat
  OBVIOUS
<1>2. ends # {} /\ ends \subseteq Nat
  BY <1>1 DEF Runs
<1>3. PICK k \in ends : \A j \in ends : k <= j
  <2> HIDE DEF ends
  <2> QED BY <1>2, LeastNatural
<1>4. Runs(p, bars, n, k - 1)
  <2> SUFFICES ASSUME NEW i \in (n + 1)..(k - 1), EndsAt(p, bars, n, i) PROVE FALSE
    BY DEF Runs
  <2>1. i \in (n + 1)..Len(bars) /\ i < k /\ k \in Nat
    BY <1>1, <1>3
  <2>2. i \in ends
    BY <2>1
  <2>3. k <= i
    BY <1>3, <2>2
  <2> QED BY <2>1, <2>3
<1> QED BY <1>3, <1>4

\* Min, of a set whose least element is known.
LEMMA LeastIs ==
    ASSUME NEW S, S \subseteq Int, NEW j \in S, \A i \in S : j <= i
    PROVE  Min(S) = j
<1>1. \A x \in S : (\A y \in S : x =< y) => x = j
  <2> SUFFICES ASSUME NEW x \in S, \A y \in S : x =< y PROVE x = j
    OBVIOUS
  <2>1. x =< j /\ j <= x /\ x \in Int /\ j \in Int
    OBVIOUS
  <2> QED BY <2>1
<1> QED BY <1>1 DEF Min

\* What CappedParity says of the rows of a session: of a trade t of size c, and of none.
CutsOf(bars, t, c) ==
    {i \in DOMAIN bars : bars[i].at \in t.entryAt .. t.exitAt
                         /\ Breached(Sign(t.dir) * (bars[i].close - t.entry) * PointValue * c)}
RowsAre(bars, t, c, left) ==
    /\ Len(left) = 1 /\ left[1].contracts = c
    /\ left[1].trade =
         IF CutsOf(bars, t, c) = {} THEN t
         ELSE LET cut == bars[Min(CutsOf(bars, t, c))] IN
              Trade(t.dir, t.entryAt, t.entry, cut.at, cut.close, "daily_loss_cap")
StopFor(bars, t) == IF t.dir = "long" THEN RangeLow(OrBars(bars)) ELSE RangeHigh(OrBars(bars))
ContractsIn(bars, t) == ContractsFor(Size(t.entry - StopFor(bars, t)))
LeftBy(bars, left) ==
    LET t == Backtest(bars) IN
    IF ~t.taken \/ ContractsIn(bars, t) = 0 THEN left = <<>> ELSE RowsAre(bars, t, ContractsIn(bars, t), left)

\* The bars that lose the cap before the trade's end.
LEMMA CutsAre ==
    ASSUME DayOK, MinutesInOrder, NEW n \in 1..Len(day), n = OrMinutes,
           NEW k \in (n + 1)..Len(day), NEW p, p.at = n, NEW exit, NEW reason
    PROVE  CutsOf(day, TradeOf(p, day[k].at, exit, reason), SizeOf(p))
             = {i \in (n + 1)..k : LosesCap(p, day[i])}
<1> DEFINE t == TradeOf(p, day[k].at, exit, reason)
<1>1. day \in Seq(Bar) /\ Len(day) \in Nat /\ n \in Nat /\ \A i \in 1..Len(day) : day[i].at = i - 1
  BY DEF DayOK, MinutesInOrder
<1>2. t.entryAt = n /\ t.exitAt = k - 1 /\ t.dir = p.dir /\ t.entry = p.entry
  <2>1. k \in 1..Len(day)
    BY <1>1
  <2>2. day[k].at = k - 1
    BY <1>1, <2>1
  <2> QED BY <2>2 DEF TradeOf, Trade
<1> HIDE DEF t
<1>3. \A i \in 1..Len(day) : day[i].at \in n..(k - 1) <=> i \in (n + 1)..k
  BY <1>1
<1>4. \A i \in (n + 1)..k : i \in 1..Len(day)
  BY <1>1
<1>5. DOMAIN day = 1..Len(day)
  BY <1>1
<1>6. CutsOf(day, t, SizeOf(p)) = {i \in (n + 1)..k : LosesCap(p, day[i])}
  BY <1>2, <1>3, <1>4, <1>5 DEF CutsOf, LosesCap
<1> QED BY <1>6 DEF t

\* What is closed at a trade's end with no bar before it that loses the cap, is that trade;
\* what is cut on a bar before a trade's end is the trade up to there.
LEMMA RowMatches ==
    ASSUME DayOK, MinutesInOrder, NEW n \in 1..Len(day), n = OrMinutes,
           NEW k \in (n + 1)..Len(day), NEW p, p.at = n, NEW exit, NEW reason,
           NEW left, Len(left) = 1, left[1].contracts = SizeOf(p)
    PROVE  LET t == TradeOf(p, day[k].at, exit, reason) IN
           /\ Spared(p, day, n, k) /\ left[1].trade = t => RowsAre(day, t, SizeOf(p), left)
           /\ \A j \in (n + 1)..k :
                 /\ LosesCap(p, day[j]) /\ Spared(p, day, n, j - 1)
                 /\ left[1].trade = TradeOf(p, day[j].at, day[j].close, "daily_loss_cap")
                 => RowsAre(day, t, SizeOf(p), left)
<1> DEFINE t == TradeOf(p, day[k].at, exit, reason)  c == SizeOf(p)  cuts == CutsOf(day, t, c)
<1>1. cuts = {i \in (n + 1)..k : LosesCap(p, day[i])}
  BY CutsAre
<1>2. Len(day) \in Nat /\ n \in Int /\ k \in Int
  BY DEF DayOK
<1>3. \A at, x, why : Trade(t.dir, t.entryAt, t.entry, at, x, why) = TradeOf(p, at, x, why)
  BY DEF TradeOf, Trade
<1> HIDE DEF t, c
<1>4. ASSUME Spared(p, day, n, k), left[1].trade = t PROVE RowsAre(day, t, c, left)
  <2>1. cuts = {}
    BY <1>1, <1>4 DEF Spared
  <2> QED BY <1>4, <2>1 DEF RowsAre, c
<1>5. ASSUME NEW j \in (n + 1)..k, LosesCap(p, day[j]), Spared(p, day, n, j - 1),
             left[1].trade = TradeOf(p, day[j].at, day[j].close, "daily_loss_cap")
      PROVE  RowsAre(day, t, c, left)
  <2>1. j \in cuts /\ cuts \subseteq Int
    BY <1>1, <1>2, <1>5
  <2>2. \A i \in cuts : j <= i
    <3> SUFFICES ASSUME NEW i \in cuts, ~(j <= i) PROVE FALSE
      OBVIOUS
    <3>1. i \in (n + 1)..k /\ LosesCap(p, day[i]) /\ j \in Int
      BY <1>1, <1>2
    <3>2. i \in (n + 1)..(j - 1)
      BY <1>2, <3>1
    <3> QED BY <1>5, <3>1, <3>2 DEF Spared
  <2> HIDE DEF cuts
  <2>3. Min(cuts) = j /\ cuts # {}
    BY <2>1, <2>2, LeastIs
  <2> QED BY <1>3, <1>5, <2>3 DEF RowsAre, c, cuts
<1> QED BY <1>4, <1>5 DEF t, c

\* The session ends: the row that is left is the backtester's trade, cut where the cap was lost.
LEMMA EndParity ==
    ASSUME ReplayInv, CapInv, EndSession, runs = 1
    PROVE  CappedParity'
<1> DEFINE n == OrMinutes  last == day[Len(day)]  step == OnSessionEnd(brain, last)
<1>1. /\ active /\ fed = ReplayMinutes /\ fed = Len(day) /\ day' = day /\ runs' = runs
      /\ IF step.events = <<>> THEN UNCHANGED <<held, book, rows>> ELSE ExitsOn(step.events[1])
  BY DEF EndSession
<1>2. /\ day \in Seq(Bar) /\ Len(day) \in Nat /\ n \in 1..Len(day) /\ n < Len(day) /\ day # <<>>
      /\ DayOK /\ MinutesInOrder /\ (AtRange \/ AfterRange)
  <2>1. day \in Seq(Bar) /\ Len(day) \in Nat /\ DayOK /\ MinutesInOrder /\ (AtRange \/ AfterRange)
    BY <1>1 DEF ReplayInv, DayOK, CapInv
  <2>2. n \in 1..Len(day) /\ n < Len(day)
    BY <1>1, <2>1
  <2> QED BY <2>1, <2>2
<1>3. /\ Ordered(day) /\ RangeEnd(day) = n /\ EndsRange(day, n) /\ day[n + 1].at = n
      /\ \A i \in 1..Len(day) : day[i].at = i - 1
  <2>1. \A i \in 1..Len(day) : day[i].at = i - 1
    BY <1>2 DEF MinutesInOrder
  <2>2. n + 1 \in 1..Len(day) /\ n + 1 - 1 = n
    BY <1>2
  <2>3. day[n + 1].at = n
    BY <2>1, <2>2
  <2> QED BY <1>2, <2>1, <2>3, MinutesOfDay
<1>4. AfterRange
  <2>1. ~AtRange
    <3> SUFFICES ASSUME AtRange PROVE FALSE
      OBVIOUS
    <3>1. day[n].at + 1 < n /\ day[n].at = n - 1
      BY <1>2, <1>3 DEF AtRange, Gathers
    <3> QED BY <3>1
  <2> QED BY <1>2, <2>1
<1>5. SUFFICES ASSUME day[n + 1].open = day[n].close PROVE CappedParity'
  BY <1>1 DEF CappedParity, SameOpen
<1>6. SUFFICES LeftBy(day, rows')
  <2>1. LeftBy(day', rows') => CappedParity'
    BY Zenon DEF CappedParity, LeftBy, RowsAre, CutsOf, StopFor, ContractsIn
  <2> QED BY <1>1, <2>1
<1> DEFINE p == PlanOf(day, n)  t == Backtest(day)  range == OrBars(day)  c == ContractsIn(day, t)
<1>7. /\ ~PlanEnters(day, n) => ~t.taken
      /\ PlanEnters(day, n) /\ Runs(p, day, n, Len(day)) => t = TradeOf(p, last.at, last.close, "eod")
      /\ \A k \in (n + 1)..Len(day) :
            PlanEnters(day, n) /\ EndsAt(p, day, n, k) /\ Runs(p, day, n, k - 1) => t = TradeAt(p, day[k])
  BY <1>2, <1>3, <1>5, BacktestFollows
<1>8. range = SubSeq(day, 1, n)
  BY <1>2, <1>3, OrCountIs DEF OrBars
<1>9. /\ p.at = n /\ p.dir = FirstCandle(range) /\ p.entry = Entry(range, day[n].close)
      /\ p.risk = Size(p.entry - StopOf(range))
  BY <1>3, <1>8 DEF PlanOf, Plan, RiskOf
<1>10. \A at, exit, reason : t = TradeOf(p, at, exit, reason) => t.taken /\ c = SizeOf(p)
  <2> SUFFICES ASSUME NEW at, NEW exit, NEW reason, t = TradeOf(p, at, exit, reason)
               PROVE  t.taken /\ c = SizeOf(p)
    OBVIOUS
  <2>1. t.taken /\ t.dir = p.dir /\ t.entry = p.entry
    BY DEF TradeOf, Trade
  <2>2. StopFor(day, t) = StopOf(range)
    BY <1>9, <2>1 DEF StopFor, StopOf, RangeLow, RangeHigh, CandleLow, CandleHigh
  <2> HIDE DEF t, range, p
  <2> QED BY <1>9, <2>1, <2>2 DEF SizeOf, ContractsIn
<1>11. held = NotHeld => rows' = rows
  BY <1>1 DEF ExitsOn
<1>12. IF PlanEnters(day, n)
       THEN /\ p \in OpenPosition
            /\ IF SizeOf(p) = 0 THEN held = NotHeld /\ rows = <<>>
               ELSE StillOpen(p, n) \/ WasClosed(p, n) \/ WasCut(p, n)
       ELSE held = NotHeld /\ rows = <<>>
  BY <1>4 DEF AfterRange
<1>13. PICK q : q = p
  OBVIOUS
<1>14. last = day[Len(day)]
  OBVIOUS
<1> HIDE DEF p, t, c, range, last, step
\* However the position ends in the bars, the trade is one of it.
<1>15. ASSUME PlanEnters(day, n)
       PROVE  \/ Runs(q, day, n, Len(day)) /\ t = TradeOf(q, last.at, last.close, "eod")
              \/ \E k \in (n + 1)..Len(day) :
                    EndsAt(q, day, n, k) /\ Runs(q, day, n, k - 1) /\ t = TradeAt(q, day[k])
  BY <1>2, <1>7, <1>13, <1>15, FirstEnd
<1>16. \A bar : \E exit, reason : TradeAt(q, bar) = TradeOf(q, bar.at, exit, reason)
  BY DEF TradeAt
<1>17. PlanEnters(day, n) => t.taken /\ c = SizeOf(q)
  BY <1>10, <1>13, <1>15, <1>16
<1>18. Len(day) \in (n + 1)..Len(day)
  BY <1>2
<1>19. CASE ~PlanEnters(day, n)
  BY <1>7, <1>11, <1>12, <1>19 DEF LeftBy, t
<1>20. CASE PlanEnters(day, n) /\ SizeOf(q) = 0
  BY <1>11, <1>12, <1>13, <1>17, <1>20 DEF LeftBy, t, c
<1>21. CASE PlanEnters(day, n) /\ SizeOf(q) # 0 /\ StillOpen(q, n)
  <2>1. /\ rows = <<>> /\ held = [pos |-> q, contracts |-> SizeOf(q)] /\ q \in OpenPosition /\ brain.pos = q
        /\ Runs(q, day, n, Len(day)) /\ Spared(q, day, n, Len(day))
    BY <1>12, <1>13, <1>21 DEF StillOpen, Manages
  <2>2. q # Flat /\ held # NotHeld
    BY <1>21, <2>1 DEF OpenPosition, Flat, NotHeld
  <2>3. t = TradeOf(q, last.at, last.close, "eod")
    BY <1>7, <1>13, <1>21, <2>1
  <2> DEFINE ev == [type |-> "closed", trade |-> t]
  <2>4. step.events = <<ev>>
    BY <2>1, <2>2, <2>3 DEF step, OnSessionEnd, CloseTrade, Emit, Closed, TradeOf
  <2> HIDE DEF ev
  <2>5. ExitsOn(ev)
    BY <1>1, <2>4
  <2>6. Booked(t.exitAt, t.exit, t.reason)
    BY <2>2, <2>5 DEF ExitsOn, ev
  <2>7. t.exitAt = last.at /\ t.exit = last.close /\ t.reason = "eod"
    BY <2>3 DEF TradeOf, Trade
  <2>8. /\ Len(rows') = 1 /\ rows'[1].contracts = SizeOf(q) /\ rows'[1].trade = t
    BY <2>1, <2>3, <2>6, <2>7, BookedRow DEF TradeOf
  <2>9. RowsAre(day, TradeOf(q, last.at, last.close, "eod"), SizeOf(q), rows')
    <3>1. q.at = n /\ rows'[1].trade = TradeOf(q, last.at, last.close, "eod")
      BY <1>9, <1>13, <2>3, <2>8
    <3> QED BY <1>2, <1>14, <1>18, <2>1, <2>8, <3>1, RowMatches
  <2>10. RowsAre(day, t, SizeOf(q), rows')
    BY <2>3, <2>9
  <2> QED BY <1>17, <1>21, <2>10 DEF LeftBy, t, c
<1>22. CASE PlanEnters(day, n) /\ SizeOf(q) # 0 /\ WasClosed(q, n)
  <2>1. PICK k \in (n + 1)..Len(day) :
            /\ EndsAt(q, day, n, k) /\ Runs(q, day, n, k - 1) /\ Spared(q, day, n, k)
            /\ RowIs(q, TradeAt(q, day[k]))
    BY <1>22 DEF WasClosed
  <2>2. t = TradeAt(q, day[k])
    BY <1>7, <1>13, <1>22, <2>1
  <2>3. /\ Len(rows') = 1 /\ rows'[1].contracts = SizeOf(q) /\ rows'[1].trade = t
    BY <1>11, <2>1, <2>2 DEF RowIs
  <2>4. PICK exit, reason : t = TradeOf(q, day[k].at, exit, reason)
    BY <1>16, <2>2
  <2>5. RowsAre(day, TradeOf(q, day[k].at, exit, reason), SizeOf(q), rows')
    <3>1. rows'[1].trade = TradeOf(q, day[k].at, exit, reason) /\ q.at = n
      BY <1>9, <1>13, <2>3, <2>4
    <3> QED BY <1>2, <2>1, <2>3, <3>1, RowMatches
  <2>6. RowsAre(day, t, SizeOf(q), rows')
    BY <2>4, <2>5
  <2> QED BY <1>17, <1>22, <2>6 DEF LeftBy, t, c
<1>23. CASE PlanEnters(day, n) /\ SizeOf(q) # 0 /\ WasCut(q, n)
  <2>1. PICK j \in (n + 1)..Len(day) :
            /\ LosesCap(q, day[j]) /\ Runs(q, day, n, j - 1) /\ Spared(q, day, n, j - 1)
            /\ RowIs(q, TradeOf(q, day[j].at, day[j].close, "daily_loss_cap"))
    BY <1>23 DEF WasCut
  <2>2. /\ Len(rows') = 1 /\ rows'[1].contracts = SizeOf(q)
        /\ rows'[1].trade = TradeOf(q, day[j].at, day[j].close, "daily_loss_cap")
    BY <1>11, <2>1 DEF RowIs
  <2>3. PICK k \in (n + 1)..Len(day) : k >= j /\ \E exit, reason : t = TradeOf(q, day[k].at, exit, reason)
    <3>1. CASE Runs(q, day, n, Len(day)) /\ t = TradeOf(q, last.at, last.close, "eod")
      <4>1. Len(day) >= j
        BY <1>2, <2>1
      <4> QED BY <1>14, <1>18, <3>1, <4>1
    <3>2. ASSUME NEW k \in (n + 1)..Len(day), EndsAt(q, day, n, k), t = TradeAt(q, day[k])
          PROVE  k >= j
      <4> SUFFICES ASSUME ~(k >= j) PROVE FALSE
        OBVIOUS
      <4>1. k \in (n + 1)..(j - 1)
        BY <1>2, <2>1
      <4> QED BY <2>1, <3>2, <4>1 DEF Runs
    <3> QED BY <1>15, <1>16, <1>23, <3>1, <3>2
  <2>4. PICK exit, reason : t = TradeOf(q, day[k].at, exit, reason)
    BY <2>3
  <2>5. j \in (n + 1)..k
    BY <1>2, <2>1, <2>3
  <2>6. RowsAre(day, TradeOf(q, day[k].at, exit, reason), SizeOf(q), rows')
    <3>1. q.at = n
      BY <1>9, <1>13
    <3> QED BY <1>2, <2>1, <2>2, <2>5, <3>1, RowMatches
  <2>7. RowsAre(day, t, SizeOf(q), rows')
    BY <2>4, <2>6
  <2> QED BY <1>17, <1>23, <2>7 DEF LeftBy, t, c
<1> QED BY <1>12, <1>13, <1>19, <1>20, <1>21, <1>22, <1>23

\* The first run has not begun.
LEMMA CapStarts == ReplayInit => CapInv
<1> SUFFICES ASSUME ReplayInit PROVE CapInv
  OBVIOUS
<1>1. \A i \in 1..Len(day) : day[i].at = i - 1
  <2>1. day = <<>> /\ Len(<<>>) = 0
    BY DEF ReplayInit
  <2> QED BY <2>1
<1>2. fed # ReplayMinutes
  BY DEF ReplayInit
<1> QED BY <1>1, <1>2 DEF ReplayInit, CapInv, MinutesInOrder, CappedParity

\* The first run of a session begins with nothing saved of it.
LEMMA BeginCap == ReplayInv /\ CapInv /\ Begin => CapInv'
<1> SUFFICES ASSUME ReplayInv, CapInv, Begin PROVE CapInv'
  OBVIOUS
<1>1. /\ runs' = runs + 1 /\ active' = TRUE /\ book' = Rolled /\ held' = Rolled.held /\ halted' = FALSE
      /\ brain' = IF Rolled.taken THEN Restored(TRUE, Rolled.held.pos) ELSE Fresh
      /\ fed' = 0 /\ UNCHANGED <<date, day, rows>>
  BY DEF Begin
<1>2. CappedParity'
  BY <1>1 DEF CappedParity
<1>3. runs \in Nat /\ (runs = 0 => day = <<>> /\ book.date # date /\ rows = <<>>)
      /\ \A i \in 1..Len(day) : day[i].at = i - 1
  BY DEF CapInv, MinutesInOrder, ReplayInv, BookOK
<1>4. runs' = 1 => day = <<>> /\ Rolled = [date |-> date, taken |-> FALSE, realized |-> 0, held |-> NotHeld]
      /\ rows = <<>>
  BY <1>1, <1>3 DEF Rolled
<1>5. MinutesInOrder'
  <2>1. Len(<<>>) = 0 /\ runs' # 0 /\ runs' \in Nat
    BY <1>1, <1>3
  <2> QED BY <1>1, <1>3, <1>4, <2>1 DEF MinutesInOrder
<1>6. runs' = 1 => AtRange'
  <2> SUFFICES ASSUME runs' = 1 PROVE AtRange'
    OBVIOUS
  <2>1. day' = <<>> /\ brain' = Fresh /\ held' = NotHeld /\ rows' = <<>> /\ ~halted' /\ ~book'.taken
    BY <1>1, <1>4
  <2>2. Gathers(Fresh, <<>>)
    BY DEF Fresh, Gathers
  <2> QED BY <2>1, <2>2 DEF AtRange
<1> QED BY <1>2, <1>5, <1>6 DEF CapInv

\* What a run reads keeps the minutes in order.
LEMMA ReadsInOrder ==
    ASSUME DayOK, MinutesInOrder, NEW bar \in ReadBars, Reads(bar)
    PROVE  /\ \A i \in 1..Len(day') : day'[i].at = i - 1
           /\ fed = Len(day) => day' = Append(day, bar) /\ Len(day') = fed + 1
<1>1. day \in Seq(Bar) /\ Len(day) \in Nat /\ fed \in 0..Len(day) /\ \A i \in 1..Len(day) : day[i].at = i - 1
  BY DEF DayOK, MinutesInOrder
<1>2. CASE fed < Len(day) /\ day' = day
  BY <1>1, <1>2
<1>3. CASE fed = Len(day) /\ day' = Append(day, bar)
  <2>1. bar \in Bar /\ bar.at = Len(day)
    <3>1. PICK shape \in ReplayShapes : bar = NextShape(shape)
      BY <1>1, <1>3 DEF ReadBars
    <3> QED BY <3>1, ReadsBars DEF NextShape
  <2>2. /\ Len(day') = Len(day) + 1 /\ day'[Len(day) + 1] = bar
        /\ \A i \in 1..Len(day) : day'[i] = day[i]
    BY <1>1, <1>3, <2>1
  <2>3. \A i \in 1..Len(day') : i = Len(day) + 1 \/ i \in 1..Len(day)
    BY <1>1, <2>2
  <2>4. day'[Len(day) + 1].at = Len(day) + 1 - 1
    BY <1>1, <2>1, <2>2
  <2>5. \A i \in 1..Len(day) : day'[i].at = i - 1
    BY <1>1, <2>2
  <2> QED BY <1>3, <2>2, <2>3, <2>4, <2>5
<1> QED BY <1>1, <1>2, <1>3 DEF Reads

\* A bar.
LEMMA HandleCap == ReplayInv /\ CapInv /\ HandleBar => CapInv'
<1> SUFFICES ASSUME ReplayInv, CapInv, HandleBar PROVE CapInv'
  OBVIOUS
<1>1. active /\ active' = active /\ fed' = fed + 1 /\ runs' = runs /\ date' = date
  BY DEF HandleBar
<1>2. PICK bar \in ReadBars : Reads(bar) /\ (CapFlattens(bar) \/ EngineSees(bar) \/ HaltedBar)
  BY DEF HandleBar
<1>3. DayOK /\ MinutesInOrder /\ Managed
  BY <1>1 DEF ReplayInv, CapInv
<1>4. bar \in Bar
  BY <1>2, <1>3, ReadsBars
<1>5. /\ \A i \in 1..Len(day') : day'[i].at = i - 1
      /\ fed = Len(day) => day' = Append(day, bar) /\ Len(day') = fed + 1
  BY <1>2, <1>3, ReadsInOrder
<1>6. runs # 0
  BY <1>3 DEF MinutesInOrder, Managed
<1>7. MinutesInOrder'
  BY <1>1, <1>3, <1>5, <1>6 DEF MinutesInOrder
<1>8. CappedParity'
  BY <1>1 DEF CappedParity
<1>9. runs = 1 => AtRange' \/ AfterRange'
  <2> SUFFICES ASSUME runs = 1 PROVE AtRange' \/ AfterRange'
    OBVIOUS
  <2>1. day' = Append(day, bar) /\ (AtRange \/ AfterRange)
    BY <1>1, <1>3, <1>5 DEF MinutesInOrder, CapInv
  <2> QED BY <1>1, <1>2, <1>3, <1>4, <1>5, <2>1, RangeBar, LaterBar
<1> QED BY <1>1, <1>7, <1>8, <1>9 DEF CapInv

\* A run that raises, or is killed, does not complete its session.
LEMMA StopCap == ReplayInv /\ CapInv /\ (Raise \/ Kill) => CapInv'
<1> SUFFICES ASSUME ReplayInv, CapInv, Raise \/ Kill PROVE CapInv'
  OBVIOUS
<1>1. active /\ active' = FALSE /\ fed' = 0 /\ runs' = runs
  BY DEF Raise, Kill
<1>2. \A i \in 1..Len(day') : day'[i].at = i - 1
  <2>1. DayOK /\ MinutesInOrder
    BY DEF ReplayInv, CapInv
  <2>2. CASE Kill
    BY <2>1, <2>2 DEF Kill, MinutesInOrder
  <2>3. CASE Raise
    <3>1. PICK bar \in ReadBars : Reads(bar)
      BY <2>3 DEF Raise
    <3> QED BY <2>1, <3>1, ReadsInOrder
  <2> QED BY <2>2, <2>3
<1>3. runs # 0
  BY <1>1 DEF CapInv, MinutesInOrder, ReplayInv, Managed
<1>4. fed' # ReplayMinutes
  BY <1>1
<1> QED BY <1>1, <1>2, <1>3, <1>4 DEF CapInv, MinutesInOrder, CappedParity

\* The session ends.
LEMMA EndCap == ReplayInv /\ CapInv /\ EndSession => CapInv'
<1> SUFFICES ASSUME ReplayInv, CapInv, EndSession PROVE CapInv'
  OBVIOUS
<1>1. active /\ active' = FALSE /\ UNCHANGED <<date, day, fed, halted, runs>>
  BY DEF EndSession
<1>2. runs # 0
  BY <1>1 DEF CapInv, MinutesInOrder, ReplayInv, Managed
<1>3. MinutesInOrder'
  BY <1>1, <1>2 DEF CapInv, MinutesInOrder
<1>4. CappedParity'
  <2>1. CASE runs = 1
    BY <2>1, EndParity
  <2>2. CASE runs # 1
    BY <1>1, <2>2 DEF CappedParity
  <2> QED BY <2>1, <2>2
<1> QED BY <1>1, <1>3, <1>4 DEF CapInv

\* The next session has no bars yet.
LEMMA NextSessionCap == ReplayInv /\ CapInv /\ NextSession => CapInv'
<1> SUFFICES ASSUME ReplayInv, CapInv, NextSession PROVE CapInv'
  OBVIOUS
<1>1. /\ ~active /\ date' = date + 1 /\ day' = <<>> /\ fed' = 0 /\ runs' = 0 /\ active' = active /\ book' = book
  BY DEF NextSession
<1>2. book'.date # date'
  BY <1>1 DEF ReplayInv, DayOK, BookOK, Books
<1>3. \A i \in 1..Len(day') : day'[i].at = i - 1
  <2>1. Len(<<>>) = 0
    OBVIOUS
  <2> QED BY <1>1, <2>1
<1>4. fed' # ReplayMinutes
  BY <1>1
<1> QED BY <1>1, <1>2, <1>3, <1>4 DEF CapInv, MinutesInOrder, CappedParity

\* A session that one run went through leaves the backtester's trade of its bars, at the size
\* of its risk and cut where the daily loss cap was lost: for every market and every cap.
THEOREM AlwaysCappedParity == ReplaySpec => []CappedParity
<1>1. ReplayInv /\ CapInv /\ [ReplayNext]_replayVars => CapInv'
  <2> SUFFICES ASSUME ReplayInv, CapInv, [ReplayNext]_replayVars PROVE CapInv'
    OBVIOUS
  <2>1. CASE UNCHANGED replayVars
    <3>1. AtRange' = AtRange /\ AfterRange' = AfterRange
      BY <2>1 DEF replayVars, AtRange, AfterRange, StillOpen, WasClosed, WasCut, RowIs, Spared, LosesCap, SizeOf
    <3>2. CappedParity' = CappedParity
      BY <2>1 DEF replayVars, CappedParity, SameOpen
    <3> QED BY <2>1, <3>1, <3>2 DEF replayVars, CapInv, MinutesInOrder
  <2> QED BY <2>1, BeginCap, HandleCap, StopCap, EndCap, NextSessionCap DEF ReplayNext
<1>2. CapInv => CappedParity
  BY DEF CapInv
<1> QED BY CapStarts, <1>1, <1>2, ReplayInvariant, PTL DEF ReplaySpec
=============================================================================
