----------------------------- MODULE ORBSession -----------------------------
(***************************************************************************)
(* One `--mode paper` day: LiveBarFeed (src/live/feed.py) polls the minute     *)
(* bars of the market and hands them to ORBLiveEngine; the session loop of     *)
(* run_live_or_paper_session (src/live/live_runner.py) opens and closes the    *)
(* PaperBroker's position on the engine's events and saves state.json, from    *)
(* which a later process resumes.                                              *)
(*                                                                         *)
(* A process starts at any minute and may crash between two bars.  A bar that  *)
(* is not there after the feed's retries is given up.  The feed is never more  *)
(* than a minute behind the market except when it catches up after its start:  *)
(* it waits at most half a minute for a bar.                                   *)
(***************************************************************************)
EXTENDS ORBEngine, ORBBacktest

CONSTANTS
    Shapes,          \* the market's bars: open from the close before it (gap),
                     \* high, low and close from the open (up, down, move)
    Minutes,         \* bound: minutes in the polling window
    MaxLaunches,     \* bound: processes launched in the day
    MaxMissing       \* bound: bars given up in the day

ASSUME SessionAssumption ==
    /\ Shapes \subseteq [gap : Int, up : Nat, down : Nat, move : Int]
    /\ Minutes \in Nat /\ Minutes > OrMinutes
    /\ MaxLaunches \in Nat \ {0} /\ MaxMissing \in Nat

VARIABLES
    tape,      \* the market's completed bars; bar i is minute i - 1
    up,        \* a process is in the session loop
    minute,    \* LiveBarFeed.__iter__'s `minute`
    engine,    \* ORBLiveEngine._state
    served,      \* the bars this process has handed to the engine
    disk,      \* RunnerState in state.json: trade_taken and position
    journal,   \* TradeOpened acted on and trades closed, in order
    launch,    \* processes launched so far
    missing,   \* bars given up so far
    outcome    \* how the last process left the session

vars == <<tape, up, minute, engine, served, disk, journal, launch, missing, outcome>>

Init ==
    /\ tape = <<>>
    /\ up = FALSE
    /\ minute = 0
    /\ engine = Fresh
    /\ served = <<>>
    /\ disk = [taken |-> FALSE, pos |-> Flat]
    /\ journal = <<>>
    /\ launch = 0
    /\ missing = 0
    /\ outcome = "none"

-----------------------------------------------------------------------------
NextBar(shape) ==
    LET open == IF tape = <<>> THEN 0 ELSE tape[Len(tape)].close + shape.gap
    IN [at |-> Len(tape), open |-> open, high |-> open + shape.up,
        low |-> open - shape.down, close |-> open + shape.move]

\* A minute of the market completes.
MarketMinute ==
    /\ Len(tape) < Minutes
    /\ up => minute = Len(tape)
    /\ \E shape \in Shapes : tape' = Append(tape, NextBar(shape))
    /\ UNCHANGED <<up, minute, engine, served, disk, journal, launch, missing, outcome>>

\* The engine a starting process has: fresh, or resumed from today's state.json.
StartupEngine == IF disk.taken THEN Restored(TRUE, disk.pos) ELSE Fresh

Launch ==
    /\ ~up
    /\ launch < MaxLaunches
    /\ launch' = launch + 1
    /\ minute' = 0
    /\ engine' = StartupEngine
    /\ served' = <<>>
    /\ IF Len(tape) < Minutes
       THEN up' = TRUE /\ outcome' = "none"
       ELSE up' = FALSE /\ outcome' = "skip"       \* outside the polling window
    /\ UNCHANGED <<tape, disk, journal, missing>>

\* The session loop on what the engine emits for a bar.  It does not act on an
\* entry when the day's trade is taken, nor on an exit without a position.
Ignored(ev) == IF ev.type = "opened" THEN disk.taken ELSE disk.pos = Flat

\* Mutant: the position is saved and the day's flag is not.
TradeOpenedWithoutFlag(ev) ==
    /\ engine' = Restored(TRUE, ev.pos)
    /\ disk' = [disk EXCEPT !.pos = ev.pos]
    /\ journal' = Append(journal, [by |-> launch, event |-> ev])

TradeOpened(ev) ==
    /\ engine' = Restored(TRUE, ev.pos)
    /\ disk' = [taken |-> TRUE, pos |-> ev.pos]
    /\ journal' = Append(journal, [by |-> launch, event |-> ev])

TradeClosed(step, ev) ==
    /\ engine' = step.e
    /\ disk' = [disk EXCEPT !.pos = Flat]
    /\ journal' = Append(journal, [by |-> launch, event |-> ev])

Record(step) ==
    IF step.events = <<>> \/ Ignored(step.events[1])
    THEN engine' = step.e /\ UNCHANGED <<disk, journal>>
    ELSE IF step.events[1].type = "opened"
    THEN TradeOpened(step.events[1])
    ELSE TradeClosed(step, step.events[1])

\* The bar of `minute` is there: it goes to the engine.
ServeBar ==
    /\ up
    /\ minute < Len(tape)
    /\ Record(OnBar(engine, tape[minute + 1]))
    /\ served' = Append(served, tape[minute + 1])
    /\ minute' = minute + 1
    /\ UNCHANGED <<tape, up, launch, missing, outcome>>

\* The deadline for the opening range has passed when the wait for a bar of it
\* ends and the market has completed the range.
PastOrDeadline == Len(tape) >= OrMinutes

\* The bar of `minute` is not there after the retries.
GiveUpBar ==
    /\ up
    /\ minute < Len(tape)
    /\ missing < MaxMissing
    /\ missing' = missing + 1
    /\ IF minute < OrMinutes /\ PastOrDeadline
       THEN up' = FALSE /\ outcome' = "skip" /\ UNCHANGED minute
       ELSE minute' = minute + 1 /\ UNCHANGED <<up, outcome>>
    /\ UNCHANGED <<tape, engine, served, disk, journal, launch>>

\* The window is over.  Some bar was handed over: a feed that has lost every
\* minute of the opening range has skipped the day.
SessionEnd ==
    /\ up
    /\ minute = Minutes
    /\ up' = FALSE
    /\ outcome' = "done"
    /\ Record(OnSessionEnd(engine, served[Len(served)]))
    /\ UNCHANGED <<tape, minute, served, launch, missing>>

Crash ==
    /\ up
    /\ up' = FALSE
    /\ outcome' = "crash"
    /\ UNCHANGED <<tape, minute, engine, served, disk, journal, launch, missing>>

Feed == ServeBar \/ GiveUpBar \/ SessionEnd

Next == MarketMinute \/ Launch \/ Feed \/ Crash

Spec == Init /\ [][Next]_vars

\* Time passes, and the feed answers each minute: it waits half a minute at most.
FairSpec == Spec /\ WF_vars(MarketMinute) /\ WF_vars(Feed)

-----------------------------------------------------------------------------
(* Properties                                                                *)

Events == {journal[i] : i \in DOMAIN journal}
Entries == {i \in DOMAIN journal : journal[i].event.type = "opened"}
Exits == {i \in DOMAIN journal : journal[i].event.type = "closed"}

Position == [dir : {"none", "long", "short"}, at : Nat, entry : Int,
             stop : Int, target : Int, risk : Nat]

\* TypeOK: every variable keeps its type; the feed is inside its window and
\* never ahead of the market, and a position has a positive risk.
TypeOK ==
    /\ tape \in Seq(Bar) /\ Len(tape) <= Minutes
    /\ up \in BOOLEAN
    /\ minute \in 0..Len(tape)
    /\ engine.range \in Seq(Bar)
    /\ engine.complete \in BOOLEAN /\ engine.taken \in BOOLEAN
    /\ engine.earned \in BOOLEAN /\ engine.pending \in BOOLEAN
    /\ engine.pos \in Position /\ (engine.pos # Flat => engine.pos.risk > 0)
    /\ served \in Seq(Bar)
    /\ disk.taken \in BOOLEAN /\ disk.pos \in Position
    /\ \A i \in DOMAIN journal : journal[i].by \in 1..launch
    /\ launch \in 0..MaxLaunches
    /\ missing \in 0..MaxMissing
    /\ outcome \in {"none", "skip", "done", "crash"}

\* The bars handed over hold the last minute of the range and the one after it,
\* which opens where the range closed: the engine enters at the former's close,
\* the backtest at the latter's open.
SameEntry(bars) ==
    LET end == bars[1].at + OrMinutes IN
    \E i \in 1..Len(bars) - 1 :
        /\ bars[i].at = end - 1 /\ bars[i + 1].at = end
        /\ bars[i + 1].open = bars[i].close

\* MatchesBacktest: when one process ran the day's whole trade and the entry
\* prices agree, the engine fed bar by bar journals exactly the trade that the
\* backtester finds in the same bars, missing ones included
\* (src/live/engine.py's parity contract with src/backtest/orb.py).
MatchesBacktest ==
    (/\ outcome = "done" /\ served # <<>> /\ SameEntry(served)
     /\ \A ev \in Events : ev.by = launch)
    => IF Backtest(served).taken
       THEN Len(journal) = 2 /\ journal[2].event.trade = Backtest(served)
       ELSE journal = <<>>

\* PaperBooksAgree: however often the process is relaunched, and whatever bars a
\* relaunch sees that the process before it missed, one position at most is
\* opened in the day; and while a process runs, the position the engine manages
\* is the one in state.json: a crash at any bar resumes the right position, and
\* no closed one is resumed (RunnerState's restart safety, src/live/runner.py).
OneTradePerDay == Cardinality(Entries) <= 1
StateMirrorsEngine == up => engine.pos = disk.pos
PaperBooksAgree == OneTradePerDay /\ StateMirrorsEngine

\* EntriesEnd: an open position is closed by a stop, target, time stop or the end
\* of the window, unless its process crashes or the feed skips the day.
EntriesEnd == disk.pos # Flat ~> (disk.pos = Flat \/ outcome \in {"crash", "skip"})

\* ExitsFollowEntry: no position is closed on a bar that was over before the
\* position was opened: restore_session says that the opening range is not
\* replayed to a restored position.
ExitsFollowEntry ==
    \A i \in Exits : journal[i].event.trade.exitAt >= journal[i].event.trade.entryAt

\* NeverTradesPartialRange: a process opens a position only after it was handed
\* every minute of the opening range: LiveBarFeed says that it raises rather than
\* ever handing the engine a partial range.
NeverTradesPartialRange ==
    \A i \in Entries : journal[i].by = launch =>
        0..OrMinutes - 1 \subseteq {served[k].at : k \in DOMAIN served}
=============================================================================
