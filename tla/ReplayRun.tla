------------------------------- MODULE ReplayRun -------------------------------
(***************************************************************************)
(* run_replay of src/live/runner.py: the engine over the sessions of a window *)
(* of history, PaperBroker (src/live/broker.py) with whole contracts, the     *)
(* daily loss cap, state.json and the journal.  A run may raise while it      *)
(* handles a bar, or be killed between two bars; a later run whose window     *)
(* begins with this session reads it again, from its first bar.              *)
(***************************************************************************)
EXTENDS ORBEngine, ORBBacktest, SequencesExt

CONSTANTS
    RiskUsd,        \* risk_per_trade_usd
    PointValue,     \* MNQ.point_value
    MaxContracts,
    LossCap,        \* daily_loss_cap_usd
    ReplayShapes,   \* as Shapes of ORBSession
    ReplayMinutes,  \* bound: bars of a session
    ReplaySessions,     \* bound: sessions of the window
    MaxRuns         \* bound: runs over a session

ASSUME ReplayAssumption ==
    /\ RiskUsd \in Nat \ {0} /\ PointValue \in Nat \ {0} /\ MaxContracts \in Nat \ {0}
    /\ LossCap \in Nat \ {0} /\ ReplayMinutes \in Nat /\ ReplayMinutes > OrMinutes
    /\ ReplayShapes \subseteq [gap : Int, up : Nat, down : Nat, move : Int]
    /\ ReplaySessions \in Nat /\ MaxRuns \in Nat

VARIABLES
    date,     \* the session
    day,      \* its bars, as far as some run has read
    fed,      \* how many of them this run has handled
    active,   \* a run is in the session's loop
    brain,    \* ORBLiveEngine._state
    held,     \* PaperBroker._position
    halted,
    book,     \* RunnerState, as saved in state.json
    rows,     \* the session's rows of trades.csv
    runs      \* runs that have begun on this session

replayVars == <<date, day, fed, active, brain, held, halted, book, rows, runs>>

NotHeld == [pos |-> Flat, contracts |-> 0]

ReplayInit ==
    /\ date = 1 /\ day = <<>> /\ fed = 0 /\ active = FALSE
    /\ brain = Fresh /\ held = NotHeld /\ halted = FALSE
    /\ book = [date |-> 0, taken |-> FALSE, realized |-> 0, held |-> NotHeld]
    /\ rows = <<>> /\ runs = 0

-----------------------------------------------------------------------------
(* Sizing, and PaperBroker's dollars                                         *)

\* contracts_for
ContractsFor(risk) ==
    LET fits == RiskUsd \div (risk * PointValue) IN IF fits > MaxContracts THEN MaxContracts ELSE fits

Usd(h, price) == Sign(h.pos.dir) * (price - h.pos.entry) * PointValue * h.contracts
\* unrealized_pnl_usd
Unrealized(mark) == IF held = NotHeld THEN 0 ELSE Usd(held, mark)

\* Mutant: the realized P&L of the session before is kept.
RolledWithPnl ==
    IF book.date = date THEN book
    ELSE [date |-> date, taken |-> FALSE, realized |-> book.realized, held |-> NotHeld]

\* roll_to_session: a session that is not the saved one begins empty.
Rolled ==
    IF book.date = date THEN book
    ELSE [date |-> date, taken |-> FALSE, realized |-> 0, held |-> NotHeld]

\* A run comes to the session: restored when the saved trade is of this session.
Begin ==
    /\ ~active /\ runs < MaxRuns
    /\ runs' = runs + 1
    /\ active' = TRUE
    /\ book' = Rolled
    /\ held' = Rolled.held
    /\ brain' = IF Rolled.taken THEN Restored(TRUE, Rolled.held.pos) ELSE Fresh
    /\ halted' = FALSE
    /\ fed' = 0
    /\ UNCHANGED <<date, day, rows>>

-----------------------------------------------------------------------------
(* A bar                                                                     *)

\* The position is closed, journalled and saved, at a total of realized P&L.
Booked(exitAt, exit, reason) ==
    /\ rows' = Append(rows, [trade |-> Trade(held.pos.dir, held.pos.at, held.pos.entry, exitAt, exit, reason),
                             contracts |-> held.contracts, usd |-> Usd(held, exit)])
    /\ book' = [book EXCEPT !.realized = @ + Usd(held, exit), !.held = NotHeld]
    /\ held' = NotHeld

Breached(usd) == usd <= -LossCap

\* Mutant: the cap looks at realized losses, not at the open position.
HitsCapRealized(bar) == ~halted /\ held # NotHeld /\ Breached(book.realized)
\* Before the engine sees the bar.
HitsCap(bar) == ~halted /\ held # NotHeld /\ Breached(book.realized + Unrealized(bar.close))

CapFlattens(bar) ==
    /\ HitsCap(bar)
    /\ Booked(bar.at, bar.close, "daily_loss_cap")
    /\ brain' = Restored(TRUE, Flat)
    /\ halted' = TRUE

\* The realized-only backstop.
Backstop == halted' = (halted \/ Breached(book'.realized))

EntersOn(ev) ==
    LET contracts == ContractsFor(ev.pos.risk)
        h == [pos |-> ev.pos, contracts |-> contracts]
    IN  IF book.taken THEN UNCHANGED <<held, book, rows>>
        ELSE IF contracts = 0 THEN book' = [book EXCEPT !.taken = TRUE] /\ UNCHANGED <<held, rows>>
        ELSE held' = h /\ book' = [book EXCEPT !.taken = TRUE, !.held = h] /\ UNCHANGED rows

ExitsOn(ev) ==
    IF held = NotHeld THEN UNCHANGED <<held, book, rows>>
    ELSE Booked(ev.trade.exitAt, ev.trade.exit, ev.trade.reason)

Act(step) ==
    /\ brain' = step.e
    /\ IF step.events = <<>> THEN UNCHANGED <<held, book, rows>>
       ELSE IF step.events[1].type = "opened" THEN EntersOn(step.events[1])
       ELSE ExitsOn(step.events[1])

EngineSees(bar) ==
    /\ ~HitsCap(bar) /\ ~halted
    /\ Act(OnBar(brain, bar))
    /\ Backstop

HaltedBar == halted /\ UNCHANGED <<brain, held, book, rows, halted>>

\* What the loop reads next: a bar an earlier run has read, or a new one.
NextShape(shape) ==
    LET open == IF day = <<>> THEN 0 ELSE day[Len(day)].close + shape.gap
    IN  [at |-> Len(day), open |-> open, high |-> open + shape.up,
         low |-> open - shape.down, close |-> open + shape.move]
Reads(bar) ==
    \/ fed < Len(day) /\ bar = day[fed + 1] /\ UNCHANGED day
    \/ fed = Len(day) /\ day' = Append(day, bar)
ReadBars ==
    IF fed < Len(day) THEN {day[fed + 1]} ELSE {NextShape(shape) : shape \in ReplayShapes}

HandleBar ==
    /\ active /\ fed < ReplayMinutes
    /\ \E bar \in ReadBars :
        /\ Reads(bar)
        /\ CapFlattens(bar) \/ EngineSees(bar) \/ HaltedBar
    /\ fed' = fed + 1
    /\ UNCHANGED <<date, active, runs>>

\* The engine raises: flattened at the bar's close, and raised.
Raise ==
    /\ active /\ fed < ReplayMinutes
    /\ \E bar \in ReadBars :
        /\ Reads(bar) /\ ~halted /\ ~HitsCap(bar)
        /\ IF held = NotHeld THEN UNCHANGED <<rows, book, held>>
           ELSE Booked(bar.at, bar.close, "flatten_on_error")
    /\ active' = FALSE /\ fed' = 0
    /\ UNCHANGED <<date, brain, halted, runs>>

\* The process is killed: its position is on disk.
Kill ==
    /\ active
    /\ active' = FALSE /\ fed' = 0 /\ held' = NotHeld
    /\ UNCHANGED <<date, day, brain, halted, book, rows, runs>>

\* on_session_end, whose close has no backstop and whose loss halts nothing.
EndSession ==
    /\ active /\ fed = ReplayMinutes /\ fed = Len(day)
    /\ LET step == OnSessionEnd(brain, day[Len(day)]) IN
        /\ brain' = step.e
        /\ IF step.events = <<>> THEN UNCHANGED <<held, book, rows>> ELSE ExitsOn(step.events[1])
    /\ active' = FALSE
    /\ UNCHANGED <<date, day, fed, halted, runs>>

\* The for loop: the same run comes to the next session.
NextSession ==
    /\ ~active /\ fed = ReplayMinutes /\ date < ReplaySessions
    /\ date' = date + 1
    /\ day' = <<>> /\ fed' = 0 /\ rows' = <<>> /\ runs' = 0
    /\ UNCHANGED <<active, brain, held, halted, book>>

ReplayNext == Begin \/ HandleBar \/ Raise \/ Kill \/ EndSession \/ NextSession

-----------------------------------------------------------------------------
(* Properties                                                                *)

\* The bar after the range opens where the range closed.
SameOpen == day[OrMinutes + 1].open = day[OrMinutes].close

\* CappedParity: a session that one run went through leaves the one row that
\* the backtester's trade of its bars would, at the size of its risk, and cut
\* at the close of the first bar at which that size had lost the cap (the
\* ordering run_replay's comment calls load-bearing: a bar that goes through
\* the stop is marked to its close before the engine fills it at the stop).
CappedParity ==
    (~active /\ fed = ReplayMinutes /\ runs = 1 /\ SameOpen)
    => LET t == Backtest(day)
           range == OrBars(day)
           stop == IF t.dir = "long" THEN RangeLow(range) ELSE RangeHigh(range)
           contracts == ContractsFor(Size(t.entry - stop))
           Lost(bar) == Breached(Sign(t.dir) * (bar.close - t.entry) * PointValue * contracts)
           cuts == {i \in DOMAIN day : day[i].at \in t.entryAt .. t.exitAt /\ Lost(day[i])}
           cut == day[Min(cuts)]
       IN  IF ~t.taken THEN rows = <<>>
           ELSE IF contracts = 0 THEN rows = <<>>
           ELSE /\ Len(rows) = 1 /\ rows[1].contracts = contracts
                /\ rows[1].trade =
                     IF cuts = {} THEN t
                     ELSE Trade(t.dir, t.entryAt, t.entry, cut.at, cut.close, "daily_loss_cap")

\* ReplayBooksAgree: however often the session is begun again, the broker holds
\* what state.json says is held, the engine manages that or a trade that was too
\* big to take, realized P&L is the sum of the session's rows, and they are one
\* trade at most.
ReplayBooksAgree ==
    /\ active => /\ held = book.held
                 /\ brain.pos = held.pos \/ (held = NotHeld /\ book.taken)
    /\ book.date = date =>
        /\ book.realized = FoldLeft(LAMBDA sum, row : sum + row.usd, 0, rows)
        /\ Len(rows) + (IF book.held = NotHeld THEN 0 ELSE 1) <= (IF book.taken THEN 1 ELSE 0)
=============================================================================
