----------------------------- MODULE LiveSession -----------------------------
(***************************************************************************)
(* One trading day of `--mode live` (src/live/live_runner.py) over         *)
(* LiveBroker (src/live/live_broker.py), state.json (RunnerState) and the   *)
(* exchange behind ProjectXClient.                                         *)
(*                                                                         *)
(* Every API call of the code is a step of its own, so that fills,         *)
(* rejections, failed or lost calls, crashes and relaunches interleave     *)
(* with it.  Prices are abstracted: the market decides which resting order *)
(* fills and the engine decides, bar by bar, to open, to close or to do    *)
(* nothing (ORBEngine models how).  Quantities are kept: a position is a    *)
(* signed number of contracts, positive in the direction of the entry.     *)
(***************************************************************************)
EXTENDS Integers, FiniteSets

CONSTANTS
    Size,             \* contracts the sizing asks for
    MaxLaunches,      \* bound: processes launched in the day
    MaxFaults,        \* bound: failed API calls and exchange rejections
    Minutes,          \* bound: minutes between the first bar and the window end
    OrMinutes,        \* minutes of the opening range
    PollsPerBar,      \* bound: OCO polls while waiting for one bar
    CancelAttempts,   \* CANCEL_RETRY_ATTEMPTS
    FlattenAttempts   \* FLATTEN_RETRY_ATTEMPTS

ASSUME LiveSessionAssumption ==
    /\ Size \in Nat \ {0} /\ MaxLaunches \in Nat \ {0} /\ MaxFaults \in Nat
    /\ OrMinutes \in Nat \ {0} /\ Minutes \in Nat /\ Minutes >= OrMinutes
    /\ PollsPerBar \in Nat
    /\ CancelAttempts \in Nat \ {0} /\ FlattenAttempts \in Nat \ {0}

VARIABLES
    pos,       \* exchange: net open contracts of the account
    orders,    \* exchange: orders[n][role], placed by the n-th process launched
    disk,      \* state.json
    stopReq,   \* the operator's requested_mode is "stopped"
    p,         \* the running process (its pc is "down" when there is none)
    launch,    \* processes launched so far
    faults,    \* failed calls and rejections so far
    log        \* what the day left behind: journal records and the last outcome

vars == <<pos, orders, disk, stopReq, p, launch, faults, log>>
exchange == <<pos, orders>>

-----------------------------------------------------------------------------
Launches == 1..MaxLaunches
Legs == {"stop", "target"}
Roles == {"entry"} \union Legs
Terminal == {"filled", "cancelled", "rejected"}

Order == [status : {"none", "open"} \union Terminal, qty : 0..Size, filled : 0..Size]
NoOrder == [status |-> "none", qty |-> 0, filled |-> 0]

\* The order fills, filled or may still fill.
Live(o) == o.status = "open" \/ o.filled > 0

\* Locations at which the process is about to cancel a tracked leg.
CancelPcs == {"oco_stop", "oco_target", "c_stop", "c_target"}
EntryPcs == {"e_send", "e_await", "e_stop", "e_target", "e_save"}
SavePcs == {"startup", "adopt_save", "z_save", "e_save", "c_save"}
Pcs == CancelPcs \union EntryPcs \union SavePcs \union
       {"down", "reconcile", "adopt", "wait", "bar", "engine", "bar_end",
        "c_positions", "c_close", "c_price", "c_journal",
        "coop", "handler", "flatten", "naked"}

Closers == {"oco_tick", "oco_bar", "cap", "model", "eod", "coop", "error"}

Process ==
    [pc : Pcs,
     position : Nat,                      \* contracts of LiveBroker._position, 0 is None
     stop : 0..MaxLaunches,               \* _working.stop_order_id, 0 is None
     target : 0..MaxLaunches,             \* _working.target_order_id
     seen : Nat,                          \* fill volume or size last read
     engine : {"or", "in", "done"},       \* OR pending, in a position, no more
     taken : BOOLEAN,                     \* RunnerState.trade_taken
     adopted : BOOLEAN,                   \* reconcile() returned a position
     halted : BOOLEAN, minute : 0..Minutes, lastBar : BOOLEAN,
     polls : 0..PollsPerBar,
     ret : Closers \union {"none"},       \* who called close_position
     attempt : 0..FlattenAttempts, tries : 0..CancelAttempts,
     checking : BOOLEAN]                  \* _safe_cancel is reading the status

NoProcess ==
    [pc |-> "down", position |-> 0, stop |-> 0, target |-> 0, seen |-> 0,
     engine |-> "or", taken |-> FALSE, adopted |-> FALSE, halted |-> FALSE,
     minute |-> 0, lastBar |-> FALSE, polls |-> 0, ret |-> "none",
     attempt |-> 0, tries |-> 0, checking |-> FALSE]

Outcomes == {"none", "clean", "skip", "coop", "errored_flat", "errored_naked",
             "aborted", "gated", "crashed"}

Init ==
    /\ pos = 0
    /\ orders = [n \in Launches |-> [r \in Roles |-> NoOrder]]
    /\ disk = [today |-> FALSE, taken |-> FALSE, bad |-> FALSE]
    /\ stopReq = FALSE
    /\ p = NoProcess
    /\ launch = 0
    /\ faults = 0
    /\ log = [outcome |-> "none", alarms |-> {}, trades |-> 0,
              lostEntry |-> FALSE, partial |-> FALSE]

-----------------------------------------------------------------------------
(* The exchange.  Exit legs are ordinary orders: one fills whatever the      *)
(* position is, in full (partial fills are modelled for the entry only).     *)

Own == <<disk, stopReq, p, launch, log>>

FillEntry(n) ==
    LET o == orders[n]["entry"] IN
    /\ o.status = "open"
    /\ orders' = [orders EXCEPT ![n]["entry"].filled = o.filled + 1,
           ![n]["entry"].status = IF o.filled + 1 = o.qty THEN "filled" ELSE "open"]
    /\ pos' = pos + 1
    /\ UNCHANGED <<Own, faults>>

FillLeg(n, leg) ==
    /\ orders[n][leg].status = "open"
    /\ orders' = [orders EXCEPT ![n][leg].filled = orders[n][leg].qty,
                                ![n][leg].status = "filled"]
    /\ pos' = pos - orders[n][leg].qty
    /\ UNCHANGED <<Own, faults>>

Reject(n, r) ==
    /\ orders[n][r].status = "open"
    /\ faults < MaxFaults
    /\ orders' = [orders EXCEPT ![n][r].status = "rejected"]
    /\ faults' = faults + 1
    /\ UNCHANGED <<Own, pos>>

Exchange == \E n \in Launches :
                \/ FillEntry(n)
                \/ \E leg \in Legs : FillLeg(n, leg)
                \/ \E r \in Roles : Reject(n, r)

-----------------------------------------------------------------------------
(* Steps shared by the process's actions.                                    *)

Goto(pc) == [p EXCEPT !.pc = pc]
CallOk == faults' = faults
CallFails == faults < MaxFaults /\ faults' = faults + 1

\* The session function ends: the process is gone, its outcome stays.
Ends(outcome) == /\ p' = NoProcess
                 /\ log' = [log EXCEPT !.outcome = outcome]

\* Where an exception that leaves the current call is caught: in the retry
\* loop of a flatten, or in the session's `except Exception` handler.
Raised ==
    IF p.ret \notin {"coop", "error"}
    THEN [p EXCEPT !.pc = "handler", !.checking = FALSE, !.tries = 0, !.ret = "none"]
    ELSE IF p.attempt + 1 < FlattenAttempts
         THEN [p EXCEPT !.pc = "flatten", !.attempt = p.attempt + 1,
                        !.checking = FALSE, !.tries = 0]
         ELSE [p EXCEPT !.pc = "naked", !.checking = FALSE, !.tries = 0]

Raises == p' = Raised /\ UNCHANGED log

\* close_position() called for `why`.
Closing(why) == [p EXCEPT !.pc = "c_stop", !.ret = why]

Place(r, qty) ==
    orders' = [orders EXCEPT ![launch][r] = [status |-> "open", qty |-> qty, filled |-> 0]]

SavedWithoutFlag(taken) == [today |-> TRUE, taken |-> FALSE, bad |-> FALSE]
Saved(taken) == [today |-> TRUE, taken |-> taken, bad |-> FALSE]

TakenToday == disk.today /\ disk.taken

-----------------------------------------------------------------------------
(* Launch, gate and recovery.                                                *)

\* `--auto` runs should_run_today first; `--mode live` alone does not.
Launch(auto) ==
    /\ p.pc = "down" /\ launch < MaxLaunches
    /\ launch' = launch + 1
    /\ \/ /\ auto /\ disk.bad
          /\ Ends("aborted")
       \/ /\ auto /\ ~disk.bad /\ TakenToday
          /\ Ends("gated")
       \/ /\ auto /\ ~disk.bad /\ ~TakenToday /\ stopReq
          /\ Ends("coop")
       \/ /\ auto => ~disk.bad /\ ~TakenToday
          /\ p' = Goto("startup")
          /\ UNCHANGED log
    /\ UNCHANGED <<exchange, disk, stopReq, faults>>

\* Login, account and contract resolution, RunnerState's load, roll_to_session.
Startup ==
    /\ p.pc = "startup"
    /\ \/ /\ CallFails /\ Ends("aborted") /\ UNCHANGED disk
       \/ /\ disk.bad /\ Ends("aborted") /\ UNCHANGED <<disk, faults>>
       \/ /\ ~disk.bad /\ CallOk
          /\ disk' = Saved(TakenToday)
          /\ p' = [p EXCEPT !.pc = "reconcile", !.taken = TakenToday]
          /\ UNCHANGED log
    /\ UNCHANGED <<exchange, stopReq, launch>>

\* reconcile(): the open positions first.  Flat keeps the engine waiting for the
\* opening range unless today's trade is already on disk.
Reconcile ==
    /\ p.pc = "reconcile"
    /\ \/ /\ CallFails /\ Ends("aborted")
       \/ /\ pos = 0 /\ CallOk
          /\ p' = [p EXCEPT !.pc = "wait", !.engine = IF p.taken THEN "done" ELSE "or"]
          /\ UNCHANGED log
       \/ /\ pos # 0 /\ CallOk
          /\ p' = [p EXCEPT !.pc = "adopt", !.seen = IF pos > 0 THEN pos ELSE -pos]
          /\ UNCHANGED log
    /\ UNCHANGED <<exchange, disk, stopReq, launch>>

\* The launches whose resting `leg` the open-order list still shows; 0 when none.
Resting(leg) ==
    LET open == {n \in Launches : orders[n][leg].status = "open"} IN
    IF open = {} THEN {0} ELSE open

\* (the adopted position is tracked, the engine left waiting for its opening range)
AdoptWithoutEngine ==
    /\ p.pc = "adopt"
    /\ CallOk
    /\ \E s \in Resting("stop"), t \in Resting("target") :
          p' = [p EXCEPT !.pc = "adopt_save", !.position = p.seen, !.seen = 0,
                         !.stop = s, !.target = t, !.adopted = TRUE]
    /\ UNCHANGED <<exchange, disk, stopReq, launch, log>>

\* reconcile(): then the open orders, re-attached as the tracked legs.
Adopt ==
    /\ p.pc = "adopt"
    /\ \/ /\ CallFails /\ Ends("aborted")
       \/ /\ CallOk
          /\ \E s \in Resting("stop"), t \in Resting("target") :
                p' = [p EXCEPT !.pc = "adopt_save", !.position = p.seen, !.seen = 0,
                               !.stop = s, !.target = t, !.engine = "in",
                               !.taken = TRUE, !.adopted = TRUE]
          /\ UNCHANGED log
    /\ UNCHANGED <<exchange, disk, stopReq, launch>>

\* RunnerState.save() and what follows it at each of its call sites.
AfterSave ==
    CASE p.pc = "adopt_save" -> Goto("wait")
      [] p.pc \in {"z_save", "e_save"} -> Goto("bar_end")
      [] p.pc = "c_save" /\ p.ret = "oco_tick" -> [p EXCEPT !.pc = "wait", !.ret = "none", !.engine = "done"]
      [] p.pc = "c_save" /\ p.ret = "oco_bar" -> [p EXCEPT !.pc = "engine", !.ret = "none", !.engine = "done"]
      [] p.pc = "c_save" /\ p.ret = "cap" -> [p EXCEPT !.pc = "bar_end", !.ret = "none", !.engine = "done"]
      [] OTHER -> [p EXCEPT !.pc = "bar_end", !.ret = "none"]

EndOf(why) == CASE why = "eod" -> "clean"
                [] why = "coop" -> "coop"
                [] why = "error" -> "errored_flat"

Save ==
    /\ p.pc \in SavePcs \ {"startup"}
    /\ disk' = Saved(p.taken)
    /\ IF p.pc = "c_save" /\ p.ret \in {"eod", "coop", "error"}
       THEN Ends(EndOf(p.ret))
       ELSE p' = AfterSave /\ UNCHANGED log
    /\ UNCHANGED <<exchange, stopReq, launch, faults>>

-----------------------------------------------------------------------------
(* The bar loop and the wait between bars.                                   *)

\* A bar is served; a requested stop is honoured before anything else.
NextBar ==
    /\ p.pc = "wait" /\ p.minute < Minutes
    /\ p' = [p EXCEPT !.minute = p.minute + 1, !.lastBar = TRUE,
                !.pc = IF stopReq THEN "coop"
                       ELSE IF p.position > 0 /\ ~p.halted THEN "bar" ELSE "engine"]
    /\ UNCHANGED <<exchange, disk, stopReq, launch, faults, log>>

\* The feed gives a minute up, or gives the day up inside the opening range.
MissingBar ==
    /\ p.pc = "wait" /\ p.minute < Minutes /\ p.minute + 1 # OrMinutes
    /\ p' = [p EXCEPT !.minute = p.minute + 1, !.polls = 0]
    /\ UNCHANGED <<exchange, disk, stopReq, launch, faults, log>>

FeedSkipsDay ==
    /\ p.pc = "wait" /\ p.minute < OrMinutes
    /\ Ends("skip")
    /\ UNCHANGED <<exchange, disk, stopReq, launch, faults>>

FeedFails ==
    /\ p.pc = "wait" /\ p.minute < Minutes /\ CallFails
    /\ Raises
    /\ UNCHANGED <<exchange, disk, stopReq, launch>>

\* The window is over: on_session_end closes what the engine still holds.
FeedEnds ==
    /\ p.pc = "wait" /\ p.minute = Minutes /\ p.lastBar
    /\ IF p.engine = "in" /\ p.position > 0
       THEN p' = [Closing("eod") EXCEPT !.engine = "done"] /\ UNCHANGED log
       ELSE Ends("clean")
    /\ UNCHANGED <<exchange, disk, stopReq, launch, faults>>

TickStops ==
    /\ p.pc = "wait" /\ stopReq /\ p.minute < Minutes
    /\ p' = Goto("coop")
    /\ UNCHANGED <<exchange, disk, stopReq, launch, faults, log>>

Status(leg, n) == IF n = 0 THEN "none" ELSE orders[n][leg].status

\* What poll_oco() does with the statuses it read; `quiet` if neither leg filled.
Polled(why, quiet) ==
    IF Status("stop", p.stop) = "filled" THEN [p EXCEPT !.pc = "oco_target", !.ret = why]
    ELSE IF Status("target", p.target) = "filled" THEN [p EXCEPT !.pc = "oco_stop", !.ret = why]
    ELSE quiet

Poll(why, quiet) ==
    \/ CallFails /\ Raises
    \/ CallOk /\ p' = Polled(why, quiet) /\ UNCHANGED log

PollOnTick ==
    /\ p.pc = "wait" /\ p.position > 0 /\ ~p.halted
    /\ p.polls < PollsPerBar /\ p.minute < Minutes
    /\ Poll("oco_tick", [p EXCEPT !.polls = p.polls + 1])
    /\ UNCHANGED <<exchange, disk, stopReq, launch>>

PollOnBar ==
    /\ p.pc = "bar"
    /\ Poll("oco_bar", Goto("engine"))
    /\ UNCHANGED <<exchange, disk, stopReq, launch>>

\* The open loss at this bar's close reaches the daily cap.
LossCap ==
    /\ p.pc = "bar"
    /\ p' = [Closing("cap") EXCEPT !.halted = TRUE]
    /\ UNCHANGED <<exchange, disk, stopReq, launch, faults, log>>

\* engine.on_bar(): no event for this bar.
EngineQuiet ==
    /\ p.pc = "engine"
    /\ p.halted \/ p.engine # "or" \/ p.minute < OrMinutes
    /\ p' = Goto("bar_end")
    /\ UNCHANGED <<exchange, disk, stopReq, launch, faults, log>>

\* The opening range completes: a doji or a zero risk ends the day, otherwise
\* TradeOpened is acted on unless today's trade is taken; no contracts, no order.
OpeningRange ==
    /\ p.pc = "engine" /\ ~p.halted /\ p.engine = "or" /\ p.minute >= OrMinutes
    /\ \/ p' = [p EXCEPT !.pc = "bar_end", !.engine = "done"]
       \/ p.taken /\ p' = [p EXCEPT !.pc = "bar_end", !.engine = "in"]
       \/ ~p.taken /\ p' = [p EXCEPT !.pc = "z_save", !.engine = "in", !.taken = TRUE]
       \/ ~p.taken /\ p' = [p EXCEPT !.pc = "e_send", !.engine = "in"]
    /\ UNCHANGED <<exchange, disk, stopReq, launch, faults, log>>

\* TradeClosed: the engine's modelled stop, target or time stop.
EngineCloses ==
    /\ p.pc = "engine" /\ ~p.halted /\ p.engine = "in"
    /\ p' = IF p.position = 0 THEN [p EXCEPT !.pc = "bar_end", !.engine = "done"]
            ELSE [Closing("model") EXCEPT !.engine = "done"]
    /\ UNCHANGED <<exchange, disk, stopReq, launch, faults, log>>

\* The realized loss may reach the cap too; nothing is open then.
BarEnds ==
    /\ p.pc = "bar_end"
    /\ \E h \in IF log.trades > 0 THEN {p.halted, TRUE} ELSE {p.halted} :
          p' = [p EXCEPT !.pc = "wait", !.polls = 0, !.halted = h]
    /\ UNCHANGED <<exchange, disk, stopReq, launch, faults, log>>

-----------------------------------------------------------------------------
(* LiveBroker.place_bracket                                                  *)

\* An exception on the way out of place_bracket: the process may leave an entry
\* behind that neither the broker nor state.json knows.
RaisesInEntry ==
    /\ p' = Raised
    /\ log' = [log EXCEPT !.lostEntry = @ \/ Live(orders'[launch]["entry"])]

\* place_order: accepted; refused; or accepted with the reply lost.
PlaceCall(r, qty, next) ==
    \/ CallOk /\ Place(r, qty) /\ p' = next /\ UNCHANGED log
    \/ CallFails /\ Place(r, qty) /\ RaisesInEntry
    \/ CallFails /\ UNCHANGED orders /\ RaisesInEntry

SendEntry ==
    /\ p.pc = "e_send"
    /\ PlaceCall("entry", Size, [p EXCEPT !.pc = "e_await", !.seen = 0])
    /\ UNCHANGED <<pos, disk, stopReq, launch>>

\* The contracts place_bracket goes on to protect.
Protect(qty) == [p EXCEPT !.pc = "e_stop", !.seen = qty]

\* (the first partial fill is taken for the whole fill)
AwaitAnyFill ==
    LET o == orders[launch]["entry"] IN
    /\ p.pc = "e_await" /\ CallOk /\ o.filled > 0
    /\ p' = Protect(o.filled)
    /\ UNCHANGED <<exchange, disk, stopReq, launch, log>>

\* _await_fill: one poll of the entry order.
AwaitFill ==
    LET o == orders[launch]["entry"] IN
    /\ p.pc = "e_await" /\ UNCHANGED <<exchange, disk, stopReq, launch>>
    /\ \/ CallFails /\ RaisesInEntry
       \/ /\ CallOk /\ o.status = "filled"
          /\ p' = Protect(o.filled) /\ UNCHANGED log
       \/ /\ CallOk /\ o.status \in Terminal \ {"filled"} /\ o.filled > 0
          /\ p' = Protect(o.filled) /\ UNCHANGED log
       \/ /\ CallOk /\ o.status \in Terminal \ {"filled"} /\ o.filled = 0
          /\ RaisesInEntry
       \/ /\ CallOk /\ o.status = "open"
          /\ p' = [p EXCEPT !.seen = IF o.filled > 0 THEN o.filled ELSE p.seen]
          /\ UNCHANGED log

\* (a timeout is only acted on when something filled)
FillTimesOutIfPartial ==
    /\ p.pc = "e_await" /\ p.seen > 0
    /\ p' = Protect(p.seen) /\ log' = [log EXCEPT !.partial = TRUE]
    /\ UNCHANGED <<exchange, disk, stopReq, launch, faults>>

\* The fill timeout: protect the partial fill last read, or give up.  The entry
\* order itself is not cancelled.
FillTimesOut ==
    /\ p.pc = "e_await" /\ UNCHANGED <<exchange, disk, stopReq, launch, faults>>
    /\ \/ p.seen > 0 /\ p' = Protect(p.seen) /\ log' = [log EXCEPT !.partial = TRUE]
       \/ p.seen = 0 /\ RaisesInEntry

PlaceStop ==
    /\ p.pc = "e_stop"
    /\ PlaceCall("stop", p.seen, Goto("e_target"))
    /\ UNCHANGED <<pos, disk, stopReq, launch>>

\* The target is the last call; only then does the broker track the position.
PlaceTarget ==
    /\ p.pc = "e_target"
    /\ PlaceCall("target", p.seen,
          [p EXCEPT !.pc = "e_save", !.position = p.seen, !.seen = 0,
                    !.stop = launch, !.target = launch, !.taken = TRUE])
    /\ UNCHANGED <<pos, disk, stopReq, launch>>

-----------------------------------------------------------------------------
(* LiveBroker._safe_cancel and close_position                                *)

LegAt(pc) == IF pc \in {"oco_stop", "c_stop"} THEN "stop" ELSE "target"
TrackedLeg == IF LegAt(p.pc) = "stop" THEN p.stop ELSE p.target

\* (close_position cancels one leg only)
AfterOneCancel(pc) == IF pc \in {"oco_stop", "oco_target"} THEN "c_stop" ELSE "c_positions"

\* poll_oco's cancel of the sibling returns to close_position, which cancels both.
AfterCancel(pc) == CASE pc \in {"oco_stop", "oco_target"} -> "c_stop"
                     [] pc = "c_stop" -> "c_target"
                     [] pc = "c_target" -> "c_positions"

Cancelled == [p EXCEPT !.pc = AfterCancel(p.pc), !.checking = FALSE, !.tries = 0]

\* The cancel call.  The exchange refuses it for an order that is terminal; a
\* ProjectXError leads to a status check, a transport error is not caught.
Cancel ==
    LET leg == LegAt(p.pc)
        n == TrackedLeg
        working == Status(leg, n) = "open"
        CancelsIt == orders' = [orders EXCEPT ![n][leg].status = "cancelled"]
    IN
    /\ p.pc \in CancelPcs /\ ~p.checking
    /\ \/ n = 0 /\ CallOk /\ p' = Cancelled /\ UNCHANGED <<orders, log>>
       \/ working /\ CallOk /\ CancelsIt /\ p' = Cancelled /\ UNCHANGED log
       \/ /\ n # 0 /\ ~working /\ CallOk
          /\ p' = [p EXCEPT !.checking = TRUE] /\ UNCHANGED <<orders, log>>
       \/ /\ n # 0 /\ CallFails
          /\ UNCHANGED orders \/ (working /\ CancelsIt)
          /\ \/ p' = [p EXCEPT !.checking = TRUE] /\ UNCHANGED log
             \/ Raises
    /\ UNCHANGED <<pos, disk, stopReq, launch>>

\* After a refused cancel: a terminal order needs none; otherwise retry, and when
\* the attempts are used up alarm and raise NakedOrderError.
CheckStatus ==
    LET terminal == Status(LegAt(p.pc), TrackedLeg) \in Terminal IN
    /\ p.pc \in CancelPcs /\ p.checking
    /\ \/ CallFails /\ Raises
       \/ terminal /\ CallOk /\ p' = Cancelled /\ UNCHANGED log
       \/ /\ ~terminal /\ CallOk /\ p.tries + 1 < CancelAttempts
          /\ p' = [p EXCEPT !.checking = FALSE, !.tries = p.tries + 1] /\ UNCHANGED log
       \/ /\ ~terminal /\ CallOk /\ p.tries + 1 >= CancelAttempts
          /\ p' = Raised
          /\ log' = [log EXCEPT !.alarms = @ \union {"NakedOrder"}]
    /\ UNCHANGED <<exchange, disk, stopReq, launch>>

\* close_position: is the account already flat?
CheckFlat ==
    /\ p.pc = "c_positions"
    /\ \/ CallFails /\ Raises
       \/ /\ CallOk /\ UNCHANGED log
          /\ p' = Goto(IF pos = 0 THEN "c_price" ELSE "c_close")
    /\ UNCHANGED <<exchange, disk, stopReq, launch>>

\* closeContract flattens whatever the account holds.
CloseContract ==
    /\ p.pc = "c_close"
    /\ \/ CallOk /\ pos' = 0 /\ p' = Goto("c_price") /\ UNCHANGED log
       \/ CallFails /\ pos' \in {0, pos} /\ Raises
    /\ UNCHANGED <<orders, disk, stopReq, launch>>

\* (the tracked position outlives its close)
ResolvePriceOnly ==
    /\ p.pc = "c_price" /\ CallOk
    /\ p' = Goto("c_journal")
    /\ UNCHANGED <<exchange, disk, stopReq, launch, log>>

\* _resolve_real_exit_price swallows a ProjectXError, not a transport error; then
\* the broker forgets the position and its legs.
ResolvePrice ==
    /\ p.pc = "c_price"
    /\ \/ CallFails /\ Raises
       \/ /\ CallOk /\ UNCHANGED log
          /\ p' = [p EXCEPT !.pc = "c_journal", !.position = 0, !.stop = 0, !.target = 0]
    /\ UNCHANGED <<exchange, disk, stopReq, launch>>

JournalTrade ==
    /\ p.pc = "c_journal"
    /\ p' = Goto("c_save")
    /\ log' = [log EXCEPT !.trades = @ + 1]
    /\ UNCHANGED <<exchange, disk, stopReq, launch, faults>>

-----------------------------------------------------------------------------
(* The session's exception handlers                                          *)

\* except CooperativeStopRequested
CooperativeStop ==
    /\ p.pc = "coop"
    /\ IF p.position = 0 THEN Ends("coop")
       ELSE p' = [p EXCEPT !.pc = "flatten", !.ret = "coop", !.attempt = 0] /\ UNCHANGED log
    /\ UNCHANGED <<exchange, disk, stopReq, launch, faults>>

\* (no flatten on the way out)
HandleErrorWithoutFlatten ==
    /\ p.pc = "handler"
    /\ Ends("errored_flat")
    /\ UNCHANGED <<exchange, disk, stopReq, launch, faults>>

\* except Exception: flattens what the broker tracks, once a bar has been seen.
HandleError ==
    /\ p.pc = "handler"
    /\ IF p.position = 0 \/ ~p.lastBar THEN Ends("errored_flat")
       ELSE p' = [p EXCEPT !.pc = "flatten", !.ret = "error", !.attempt = 0] /\ UNCHANGED log
    /\ UNCHANGED <<exchange, disk, stopReq, launch, faults>>

Flatten ==
    /\ p.pc = "flatten"
    /\ p' = Goto("c_stop")
    /\ UNCHANGED <<exchange, disk, stopReq, launch, faults, log>>

AlarmNaked ==
    /\ p.pc = "naked"
    /\ p' = NoProcess
    /\ log' = [log EXCEPT !.outcome = "errored_naked", !.alarms = @ \union {"NakedPosition"}]
    /\ UNCHANGED <<exchange, disk, stopReq, launch, faults>>

-----------------------------------------------------------------------------
(* The environment: the operator and crashes.                                *)

RequestStop ==
    /\ ~stopReq
    /\ stopReq' = TRUE
    /\ UNCHANGED <<exchange, disk, p, launch, faults, log>>

\* The process dies anywhere; inside write_text it leaves state.json unreadable.
Crash ==
    /\ p.pc # "down"
    /\ p' = NoProcess
    /\ log' = [log EXCEPT !.outcome = "crashed",
                          !.lostEntry = @ \/ (p.pc \in EntryPcs /\ Live(orders[launch]["entry"]))]
    /\ \/ UNCHANGED disk
       \/ /\ p.pc \in SavePcs /\ (p.pc = "startup" => ~disk.today)
          /\ disk' = [disk EXCEPT !.bad = TRUE]
    /\ UNCHANGED <<exchange, stopReq, launch, faults>>

Step ==
    \/ Startup \/ Reconcile \/ Adopt \/ Save
    \/ NextBar \/ MissingBar \/ FeedSkipsDay \/ FeedFails \/ FeedEnds
    \/ TickStops \/ PollOnTick \/ PollOnBar \/ LossCap
    \/ EngineQuiet \/ OpeningRange \/ EngineCloses \/ BarEnds
    \/ SendEntry \/ AwaitFill \/ FillTimesOut \/ PlaceStop \/ PlaceTarget
    \/ Cancel \/ CheckStatus \/ CheckFlat \/ CloseContract \/ ResolvePrice
    \/ JournalTrade \/ CooperativeStop \/ HandleError \/ Flatten \/ AlarmNaked

Next == \/ Step
        \/ Exchange
        \/ \E auto \in BOOLEAN : Launch(auto)
        \/ RequestStop
        \/ Crash

Spec == Init /\ [][Next]_vars
\* The process keeps running; a failing call is never what it waits for.
FairSpec == Spec /\ WF_vars(Step /\ CallOk)

-----------------------------------------------------------------------------
(* Properties                                                                *)

\* Every variable keeps its type.
TypeOK ==
    /\ pos \in Int
    /\ orders \in [Launches -> [Roles -> Order]]
    /\ disk \in [today : BOOLEAN, taken : BOOLEAN, bad : BOOLEAN]
    /\ stopReq \in BOOLEAN
    /\ p \in Process
    /\ launch \in 0..MaxLaunches
    /\ faults \in 0..MaxFaults
    /\ log \in [outcome : Outcomes, alarms : SUBSET {"NakedOrder", "NakedPosition"},
                trades : Nat, lostEntry : BOOLEAN, partial : BOOLEAN]

Entries == {n \in Launches : orders[n]["entry"].status # "none"}
LiveEntries == {n \in Launches : Live(orders[n]["entry"])}
Working == {o \in Launches \X Roles : orders[o[1]][o[2]].status = "open"}

\* A second entry order reaches the exchange only after an earlier one was lost:
\* its process raised inside place_bracket or died before state.json was saved.
\* A stop, a skipped day, a failed flatten or a crash at any other point never
\* leads a relaunch into a second trade.
OneEntryUnlessLost == Cardinality(LiveEntries) > 1 => log.lostEntry

\* Between bars, a position the broker tracks with a stop is covered by that stop:
\* as long as contracts are open, the resting stop is for at least as many.  The
\* stop the exchange itself rejected and the fill that arrives after a partial
\* fill timed out are outside what place_bracket promises.
StopCoversPosition ==
    (/\ p.pc = "wait" /\ p.position > 0 /\ p.stop # 0 /\ pos > 0
     /\ ~log.lostEntry /\ ~log.partial /\ Status("stop", p.stop) # "rejected")
        => /\ Status("stop", p.stop) = "open"
           /\ orders[p.stop]["stop"].qty >= pos

\* The first session of a day that ends by itself leaves the account flat with no
\* working order, or has journalled NakedPositionAlarm; the exceptions are a lost
\* entry and the late fill of a partial one.
FlatOrAlarmed ==
    (/\ p.pc = "down" /\ launch = 1 /\ ~log.lostEntry /\ ~log.partial
     /\ log.outcome \in {"clean", "skip", "coop", "errored_flat", "errored_naked"})
        => \/ pos = 0 /\ Working = {}
           \/ log.outcome = "errored_naked" /\ "NakedPosition" \in log.alarms

\* The trades journalled are the entries that filled, once each, when a day's only
\* session ended by itself.
EveryTradeJournalledOnce ==
    (/\ p.pc = "down" /\ launch = 1 /\ ~log.lostEntry
     /\ log.outcome \in {"clean", "coop", "errored_flat"})
        => log.trades = Cardinality({n \in Entries : orders[n]["entry"].filled > 0})

\* The broker forgets a position only when both of its legs are dead, whatever
\* failed on the way, and, unless an entry was lost or its late fill is still to
\* come, the account is flat by then.
ForgetsOnlyWhenDone ==
    [][(p.position > 0 /\ p'.position = 0 /\ p'.pc # "down") =>
          /\ Status("stop", p.stop) # "open" /\ Status("target", p.target) # "open"
          /\ (~log.lostEntry /\ ~log.partial => pos = 0)]_vars

\* A process that adopted an open position never sends an entry order, and the
\* flag it saves keeps every later one from doing so while state.json is intact.
AdoptedNeverReenters ==
    [][p.adopted \/ (disk.taken /\ disk.today) => Entries' = Entries]_vars

\* A session ends: whatever fails, retries are bounded.
SessionEnds == (p.pc # "down") ~> (p.pc = "down")

\* The claim of SessionErrored: `flattened` tells that the account is flat.
FlattenedFlagHonest == (p.pc = "down" /\ log.outcome = "errored_flat") => pos = 0

\* The claim beside reconcile(): a second process start can never double-enter.
NeverDoubleEnters == Cardinality(LiveEntries) <= 1
=============================================================================
