------------------------------ MODULE ORBEngine ------------------------------
(***************************************************************************)
(* ORBLiveEngine of src/live/engine.py: one record of state and a function    *)
(* per method.  A step returns the next state and the events it emits.        *)
(*                                                                         *)
(* mfe_r is read only through `mfe_r < 1.0`, so the state keeps whether it    *)
(* reached one R.  time_stop_deadline is always entry_ts + time_stop_minutes  *)
(* and is derived.  entry_bar_pending is set and reset inside one call.       *)
(***************************************************************************)
EXTENDS ORBParams, FiniteSetsExt

Flat == [dir |-> "none", at |-> 0, entry |-> 0, stop |-> 0, target |-> 0, risk |-> 0]

\* _SessionState(...) before the first bar of the session.
Fresh ==
    [range |-> <<>>, complete |-> FALSE, taken |-> FALSE,
     pos |-> Flat, earned |-> FALSE, pending |-> FALSE]

\* restore_session: the range is known, the excursion is not.
Restored(taken, pos) ==
    [range |-> <<>>, complete |-> TRUE, taken |-> taken,
     pos |-> pos, earned |-> FALSE, pending |-> FALSE]

Emit(e, events) == [e |-> e, events |-> events]
Opened(pos) == [type |-> "opened", pos |-> pos]
Closed(e, exitAt, exit, reason) ==
    [type |-> "closed",
     trade |-> Trade(e.pos.dir, e.pos.at, e.pos.entry, exitAt, exit, reason)]

CloseTrade(e, exitAt, exit, reason) ==
    Emit([e EXCEPT !.pos = Flat, !.pending = FALSE],
         <<Closed(e, exitAt, exit, reason)>>)

RangeHigh(range) == Max({range[i].high : i \in DOMAIN range})
RangeLow(range) == Min({range[i].low : i \in DOMAIN range})
OrEnd(range) == range[1].at + OrMinutes

FillEntryAt(e, dir, entryAt, trigger) ==
    LET entry == EntryFill(dir, trigger)
        stop == IF dir = "long" THEN RangeLow(e.range) ELSE RangeHigh(e.range)
        risk == Size(entry - stop)
        pos == [dir |-> dir, at |-> entryAt, entry |-> entry, stop |-> stop,
                target |-> entry + Sign(dir) * TargetR * risk, risk |-> risk]
    IN IF risk <= 0
       THEN Emit([e EXCEPT !.complete = TRUE], <<>>)
       ELSE Emit([e EXCEPT !.complete = TRUE, !.taken = TRUE, !.pos = pos,
                           !.earned = FALSE, !.pending = FALSE], <<Opened(pos)>>)

CompleteOpeningRange(e, entryAt, trigger) ==
    LET open == e.range[1].open
        close == e.range[Len(e.range)].close
    IN IF IsDoji(RangeHigh(e.range) - RangeLow(e.range), Size(close - open))
       THEN Emit([e EXCEPT !.complete = TRUE], <<>>)
       ELSE FillEntryAt(e, IF close > open THEN "long" ELSE "short", entryAt, trigger)

\* The range ends with the bar of its last minute; on a feed that lost that
\* bar, with the next one, which then also gives the entry.
ProcessOrBar(e, bar) ==
    LET grown == [e EXCEPT !.range = Append(@, bar)] IN
    IF e.range # <<>> /\ bar.at >= OrEnd(e.range)
    THEN CompleteOpeningRange(e, bar.at, bar.open)
    ELSE IF bar.at + 1 >= OrEnd(grown.range)
    THEN CompleteOpeningRange(grown, OrEnd(grown.range), bar.close)
    ELSE Emit(grown, <<>>)

\* Mutant: the target is looked at before the stop.
ProcessPositionBarTargetFirst(e, bar) ==
    LET dir == e.pos.dir
        earned == e.earned \/ EarnsOneR(dir, bar, e.pos.entry, e.pos.risk)
        late == TimeStop > 0 /\ bar.at >= e.pos.at + TimeStop
    IN CASE Wins(dir, bar, e.pos.target) ->
              CloseTrade(e, bar.at, ExitFill(dir, e.pos.target), "target")
         [] ~Wins(dir, bar, e.pos.target) /\ Loses(dir, bar, e.pos.stop) ->
              CloseTrade(e, bar.at, ExitFill(dir, e.pos.stop), "stop")
         [] ~Wins(dir, bar, e.pos.target) /\ ~Loses(dir, bar, e.pos.stop) /\ e.pending ->
              CloseTrade(e, bar.at, ExitFill(dir, bar.open), "time_stop")
         [] OTHER ->
              Emit([e EXCEPT !.earned = earned, !.pending = late /\ ~earned], <<>>)

\* Stop before target; a pending time stop fills at the open of a bar that
\* reaches neither; otherwise the bar counts for the excursion and the deadline.
ProcessPositionBar(e, bar) ==
    LET dir == e.pos.dir
        earned == e.earned \/ EarnsOneR(dir, bar, e.pos.entry, e.pos.risk)
        late == TimeStop > 0 /\ bar.at >= e.pos.at + TimeStop
    IN CASE Loses(dir, bar, e.pos.stop) ->
              CloseTrade(e, bar.at, ExitFill(dir, e.pos.stop), "stop")
         [] ~Loses(dir, bar, e.pos.stop) /\ Wins(dir, bar, e.pos.target) ->
              CloseTrade(e, bar.at, ExitFill(dir, e.pos.target), "target")
         [] ~Loses(dir, bar, e.pos.stop) /\ ~Wins(dir, bar, e.pos.target) /\ e.pending ->
              CloseTrade(e, bar.at, ExitFill(dir, bar.open), "time_stop")
         [] OTHER ->
              Emit([e EXCEPT !.earned = earned, !.pending = late /\ ~earned], <<>>)

OnBar(e, bar) ==
    IF ~e.complete THEN ProcessOrBar(e, bar)
    ELSE IF e.pos # Flat THEN ProcessPositionBar(e, bar)
    ELSE Emit(e, <<>>)

\* Mutant: the window ends and the position stays open.
OnSessionEndNoOp(e, last) == Emit(e, <<>>)

OnSessionEnd(e, last) ==
    IF e.pos = Flat THEN Emit(e, <<>>)
    ELSE CloseTrade(e, last.at, last.close, "eod")
=============================================================================
