------------------------- MODULE LiveSession_proofs -------------------------
(***************************************************************************)
(* Proofs about a live day, for every number of launches, faults, minutes     *)
(* and retries: the type invariant, the four state invariants that the runs   *)
(* check and the two action properties, from one inductive invariant.         *)
(***************************************************************************)
EXTENDS LiveSession, FiniteSetTheorems, TLAPS

USE LiveSessionAssumption

-----------------------------------------------------------------------------
(* The inductive invariant                                                   *)

Entry(n) == orders[n]["entry"]
Untouched(n) == \A r \in Roles : orders[n][r] = NoOrder

ClosePcs == CancelPcs \union {"c_positions", "c_close", "c_price"}
BarPcs == {"wait", "bar", "engine", "bar_end"}

\* The exchange has orders of processes launched so far, an entry still to fill is
\* not full, and a process waiting for its opening range has sent nothing.
BookInv ==
    /\ p.pc # "down" => launch \in Launches
    /\ \A n \in Launches : n > launch => Untouched(n)
    /\ \A n \in Launches : Entry(n).status = "open" => Entry(n).filled < Entry(n).qty
    /\ \A n \in Launches : Entry(n).status = "filled" => Entry(n).filled > 0
    /\ \A n \in Launches : Entry(n).status = "none" => Entry(n).filled = 0
    /\ p.engine = "or" /\ p.pc # "down" => Untouched(launch)
    /\ p.pc \in {"startup", "reconcile", "e_send"} => Untouched(launch)

\* The locals of place_bracket: it protects contracts that filled, leg by leg.
BracketInv ==
    /\ p.pc \in {"e_await", "e_stop", "e_target"} => p.seen <= Entry(launch).filled
    /\ p.pc \in {"adopt", "e_stop", "e_target"} => p.seen > 0
    /\ p.pc \in {"e_await", "e_stop"} => orders[launch]["stop"].status = "none"
    /\ p.pc \in {"e_await", "e_stop", "e_target"} => orders[launch]["target"].status = "none"
    /\ p.pc = "e_target" => orders[launch]["stop"].status \notin {"none", "cancelled"}
    /\ p.pc = "e_save" => Entry(launch).filled > 0

\* What state.json says of the day, the process knows; it knows of its own position,
\* and it does not enter while it knows of a trade.
FlagInv ==
    /\ (p.pc \notin {"down", "startup"} /\ TakenToday) => p.taken
    /\ p.adopted \/ p.position > 0 => p.taken
    /\ p.pc \in {"down", "startup"} => ~p.taken
    /\ p.pc \in EntryPcs => (p.taken <=> p.pc = "e_save")

\* Where LiveBroker tracks a position, and what is dead by then of its legs.
TrackInv ==
    /\ p.pc \in EntryPcs \ {"e_save"} => p.position = 0
    /\ p.pc \in ClosePcs \union {"bar", "e_save", "flatten", "naked"} => p.position > 0
    /\ p.pc \in {"down", "startup", "reconcile", "adopt", "z_save", "c_journal", "c_save"}
          => p.position = 0
    /\ p.ret # "none" <=> p.pc \in ClosePcs \union {"c_journal", "c_save", "flatten", "naked"}
    /\ p.pc \in {"c_target", "c_positions", "c_close", "c_price"} => Status("stop", p.stop) # "open"
    /\ p.pc \in {"c_positions", "c_close", "c_price"} => Status("target", p.target) # "open"

\* The engine holds what the broker tracks, and a position that was not adopted was
\* entered on a bar after the opening range.
EngineInv ==
    /\ (p.position > 0 /\ p.pc \in BarPcs \union {"adopt_save"}) => p.engine = "in"
    /\ p.pc \in EntryPcs => p.engine = "in"
    /\ p.pc \in {"bar", "engine", "bar_end", "z_save"} \union EntryPcs => p.lastBar
    /\ p.ret \in {"oco_bar", "cap", "model"} => p.lastBar
    /\ p.position > 0 \/ p.pc \in EntryPcs => p.adopted \/ (p.minute >= OrMinutes /\ p.lastBar)

\* Unless an entry was lost: one entry lives, it is the one being placed or state.json
\* knows of it; only its legs exist, and the broker tracks those that work.
EntryInv == ~log.lostEntry =>
    /\ \A n \in Launches : Live(Entry(n)) => (n = launch /\ p.pc \in EntryPcs \ {"e_send"}) \/ TakenToday
    /\ \A m, n \in Launches : Live(Entry(m)) /\ Live(Entry(n)) => m = n
    /\ \A n \in Launches : Entry(n).status = "open" =>
          (n = launch /\ p.pc = "e_await") \/ (log.partial /\ Entry(n).filled > 0)
    /\ \A n \in Launches, leg \in Legs : orders[n][leg].status # "none" => Entry(n).filled > 0
    /\ (\A n \in Launches : Entry(n).filled = 0) => pos = 0
    /\ p.position > 0 => \A n \in Launches :
          /\ orders[n]["stop"].status = "open" => p.stop = n
          /\ orders[n]["target"].status = "open" => p.target = n

\* Unless an entry was lost or is still filling: the legs are for all that filled, no
\* more than that is open, and a stop that filled closed it.
Covered ==
    /\ p.pc \in {"e_stop", "e_target"} =>
          p.seen = Entry(launch).filled /\ Entry(launch).status # "open"
    /\ \A n \in Launches, leg \in Legs : orders[n][leg].status # "none" =>
          orders[n][leg].qty = Entry(n).filled /\ Entry(n).status # "open"
    /\ \A n \in Launches : Entry(n).filled > 0 => pos <= Entry(n).filled
    /\ \A n \in Launches : orders[n]["stop"].status = "filled" => pos <= 0
    /\ p.pc = "c_price" => pos = 0
    /\ (p.position > 0 /\ p.pc \in BarPcs \union {"adopt_save", "e_save"})
          => Status("stop", p.stop) # "cancelled"
    /\ (p.position > 0 /\ p.stop # 0) => Status("stop", p.stop) # "none"

LegInv == ~log.lostEntry /\ ~log.partial => Covered

\* The ends at which the first process of the day has settled its account.
Settled == p.position = 0 /\ p.pc \notin EntryPcs
           /\ ~(p.pc = "down" /\ log.outcome \in {"crashed", "errored_naked"})

\* The first process of the day, unless it lost an entry: it adopts nothing, it is
\* flat whenever it has settled, and it has journalled what it closed.
FirstInv == (launch = 1 /\ ~log.lostEntry) =>
    /\ ~p.adopted /\ p.pc \notin {"adopt", "adopt_save"}
    /\ Settled /\ ~log.partial => pos = 0 /\ Working = {}
    /\ (p.pc = "c_journal" \/ p.position > 0) => log.trades = 0 /\ Entry(1).filled > 0
    /\ p.pc \in EntryPcs => log.trades = 0
    /\ Settled /\ p.pc # "c_journal" => log.trades = IF Entry(1).filled > 0 THEN 1 ELSE 0

LogInv ==
    /\ launch = 0 => log.trades = 0 /\ p.pc = "down"
    /\ log.outcome = "errored_naked" => "NakedPosition" \in log.alarms

Safe == /\ BookInv /\ BracketInv /\ FlagInv /\ TrackInv /\ EngineInv
        /\ EntryInv /\ LegInv /\ FirstInv /\ LogInv
IInv == TypeOK /\ Safe

-----------------------------------------------------------------------------
(* What the provers need to know of the records                              *)

Book == [Launches -> [Roles -> Order]]
LogType == [outcome : Outcomes, alarms : SUBSET {"NakedOrder", "NakedPosition"},
            trades : Nat, lostEntry : BOOLEAN, partial : BOOLEAN]
DiskType == [today : BOOLEAN, taken : BOOLEAN, bad : BOOLEAN]

\* The counters may be zero.
LEMMA Zeros ==
    /\ 0 \in 0..MaxLaunches /\ 0 \in 0..Minutes /\ 0 \in 0..PollsPerBar
    /\ 0 \in 0..FlattenAttempts /\ 0 \in 0..CancelAttempts
OBVIOUS

\* The fields that arithmetic is done with.
LEMMA Fields ==
    ASSUME p \in Process
    PROVE  /\ p.pc \in Pcs /\ p.position \in Nat /\ p.seen \in Nat
           /\ p.stop \in 0..MaxLaunches /\ p.target \in 0..MaxLaunches
           /\ p.minute \in 0..Minutes /\ p.polls \in 0..PollsPerBar
           /\ p.attempt \in 0..FlattenAttempts /\ p.tries \in 0..CancelAttempts
           /\ p.taken \in BOOLEAN /\ p.halted \in BOOLEAN
BY DEF Process

\* No process is a process value.
LEMMA NoProcessType == NoProcess \in Process
BY DEF NoProcess, Process, Pcs

\* A raised exception leaves a process value.
LEMMA RaisedType == ASSUME p \in Process PROVE Raised \in Process
<1>1. p.attempt \in 0..FlattenAttempts
  BY Fields
<1>2. {"handler", "flatten", "naked"} \subseteq Pcs
  BY DEF Pcs
<1>3. CASE p.ret \notin {"coop", "error"}
  BY <1>2, <1>3, Zeros DEF Raised, Process
<1>4. CASE p.ret \in {"coop", "error"} /\ p.attempt + 1 < FlattenAttempts
  <2>1. p.attempt + 1 \in 0..FlattenAttempts
    BY <1>1, <1>4
  <2> QED BY <2>1, <1>2, <1>4, Zeros DEF Raised, Process
<1>5. CASE p.ret \in {"coop", "error"} /\ ~(p.attempt + 1 < FlattenAttempts)
  BY <1>2, <1>5, Zeros DEF Raised, Process
<1> QED BY <1>3, <1>4, <1>5

\* An exception leaves what the broker tracks alone; it is caught by the session or,
\* while a position is flattened, by the retry loop.
Thrown ==
    /\ p'.position = p.position /\ p'.stop = p.stop /\ p'.target = p.target
    /\ p'.taken = p.taken /\ p'.adopted = p.adopted
    /\ p'.engine = p.engine /\ p'.minute = p.minute /\ p'.lastBar = p.lastBar
    /\ \/ p'.pc = "handler" /\ p'.ret = "none"
       \/ p'.pc \in {"flatten", "naked"} /\ p'.ret = p.ret /\ p.ret \in {"coop", "error"}

\* What an exception leaves of the process.
LEMMA RaisedEffect == ASSUME p \in Process, p' = Raised PROVE Thrown
BY DEF Raised, Thrown, Process

\* A process that ended knows nothing.
Gone ==
    /\ p'.pc = "down" /\ p'.position = 0 /\ p'.stop = 0 /\ p'.target = 0
    /\ ~p'.taken /\ ~p'.adopted /\ p'.ret = "none"

\* What the end of a process leaves of it.
LEMMA GoneEffect == ASSUME p' = NoProcess PROVE Gone
BY DEF NoProcess, Gone

-----------------------------------------------------------------------------
(* The order book                                                            *)

\* Every other order is as it was.
Only(n, r) ==
    \A m \in Launches, q \in Roles : m # n \/ q # r => orders'[m][q] = orders[m][q]

\* A new value of one order leaves every other order alone.
LEMMA PutEffect ==
    ASSUME orders \in Book, NEW n \in Launches, NEW r \in Roles, NEW o \in Order,
           orders' = [orders EXCEPT ![n][r] = o]
    PROVE  orders' \in Book /\ orders'[n][r] = o /\ Only(n, r)
BY DEF Book, Only

\* place_order
LEMMA PlaceEffect ==
    ASSUME orders \in Book, launch \in Launches, NEW r \in Roles, NEW qty \in 0..Size,
           Place(r, qty)
    PROVE  /\ orders' \in Book /\ Only(launch, r)
           /\ orders'[launch][r].status = "open" /\ orders'[launch][r].qty = qty
           /\ orders'[launch][r].filled = 0
<1>1. [status |-> "open", qty |-> qty, filled |-> 0] \in Order
  BY DEF Order
<1>2. orders' \in Book /\ Only(launch, r)
      /\ orders'[launch][r] = [status |-> "open", qty |-> qty, filled |-> 0]
  BY <1>1, PutEffect DEF Place
<1> QED BY <1>2

\* An order is cancelled or rejected.
LEMMA StatusEffect ==
    ASSUME orders \in Book, NEW n \in Launches, NEW r \in Roles,
           NEW s \in {"cancelled", "rejected"},
           orders' = [orders EXCEPT ![n][r].status = s]
    PROVE  /\ orders' \in Book /\ Only(n, r) /\ orders'[n][r].status = s
           /\ orders'[n][r].qty = orders[n][r].qty
           /\ orders'[n][r].filled = orders[n][r].filled
<1>1. orders[n][r] \in Order
  BY DEF Book
<1>2. [orders[n][r] EXCEPT !.status = s] \in Order
  BY <1>1 DEF Order, Terminal
<1>3. orders' = [orders EXCEPT ![n][r] = [orders[n][r] EXCEPT !.status = s]]
  BY DEF Book
<1>4. orders' \in Book /\ orders'[n][r] = [orders[n][r] EXCEPT !.status = s] /\ Only(n, r)
  BY <1>2, <1>3, PutEffect
<1> QED BY <1>1, <1>4 DEF Order

\* An order fills, in part or in full.
Fills(n, r, f, s) == orders' = [orders EXCEPT ![n][r].filled = f, ![n][r].status = s]

\* A fill changes one order: its status and its filled contracts.
LEMMA FillEffect ==
    ASSUME orders \in Book, NEW n \in Launches, NEW r \in Roles,
           NEW s \in {"open", "filled"}, NEW f \in 0..Size,
           Fills(n, r, f, s)
    PROVE  /\ orders' \in Book /\ Only(n, r) /\ orders'[n][r].status = s
           /\ orders'[n][r].qty = orders[n][r].qty
           /\ orders'[n][r].filled = f
<1>1. orders[n][r] \in Order
  BY DEF Book
<1>2. [[orders[n][r] EXCEPT !.filled = f] EXCEPT !.status = s] \in Order
  BY <1>1 DEF Order, Terminal
<1>3. orders' = [orders EXCEPT ![n][r] = [[orders[n][r] EXCEPT !.filled = f] EXCEPT !.status = s]]
  BY DEF Book, Fills
<1>4. orders' \in Book /\ orders'[n][r] = [[orders[n][r] EXCEPT !.filled = f] EXCEPT !.status = s] /\ Only(n, r)
  BY <1>2, <1>3, PutEffect
<1> QED BY <1>1, <1>4 DEF Order


\* The quantities of the orders.
LEMMA OrderFields ==
    ASSUME orders \in Book
    PROVE  \A n \in Launches, r \in Roles :
              /\ orders[n][r] \in Order /\ orders[n][r].status \in {"none", "open"} \union Terminal
              /\ orders[n][r].qty \in Nat /\ orders[n][r].filled \in Nat
              /\ orders[n][r].qty \in 0..Size /\ orders[n][r].filled \in 0..Size
BY DEF Book, Order

\* The roles of the orders.
LEMMA RoleNames == "entry" \in Roles /\ "stop" \in Legs /\ "target" \in Legs /\ Legs \subseteq Roles
BY DEF Roles, Legs
-----------------------------------------------------------------------------
(* The type invariant                                                        *)

\* The bar loop, the wait between bars and the session's handlers.
LEMMA LoopType ==
    ASSUME p \in Process,
           NextBar \/ MissingBar \/ FeedSkipsDay \/ FeedFails \/ FeedEnds \/ TickStops
             \/ PollOnTick \/ PollOnBar \/ LossCap \/ EngineQuiet \/ OpeningRange
             \/ EngineCloses \/ BarEnds \/ CooperativeStop \/ HandleError \/ Flatten
             \/ AlarmNaked \/ JournalTrade
    PROVE  p' \in Process
<1>f. /\ p.minute \in 0..Minutes /\ p.polls \in 0..PollsPerBar
      /\ p.halted \in BOOLEAN /\ p.position \in Nat
  BY Fields
<1>p. {"wait", "bar", "engine", "bar_end", "coop", "oco_stop", "oco_target", "c_stop", "c_save",
       "z_save", "e_send", "flatten", "down"} \subseteq Pcs
  BY DEF Pcs, CancelPcs, SavePcs, EntryPcs
<1>1. CASE NextBar
  <2>1. p.minute + 1 \in 0..Minutes
    BY <1>1, <1>f DEF NextBar
  <2> QED BY <1>1, <1>p, <2>1 DEF NextBar, Process
<1>2. CASE MissingBar
  <2>1. p.minute + 1 \in 0..Minutes
    BY <1>2, <1>f DEF MissingBar
  <2> QED BY <1>2, <2>1, Zeros DEF MissingBar, Process
<1>3. CASE FeedSkipsDay \/ AlarmNaked
  BY <1>3, NoProcessType DEF FeedSkipsDay, AlarmNaked, Ends
<1>4. CASE FeedFails
  BY <1>4, RaisedType DEF FeedFails, Raises
<1>5. CASE FeedEnds
  <2>1. CASE p.engine = "in" /\ p.position > 0
    <3>1. p' = [p EXCEPT !.pc = "c_stop", !.ret = "eod", !.engine = "done"]
      BY <1>5, <2>1 DEF FeedEnds, Closing
    <3> QED BY <1>p, <3>1 DEF Closers, Process
  <2>2. CASE ~(p.engine = "in" /\ p.position > 0)
    BY <1>5, <2>2, NoProcessType DEF FeedEnds, Ends
  <2> QED BY <2>1, <2>2
<1>6. CASE TickStops \/ EngineQuiet \/ Flatten \/ JournalTrade
  BY <1>6, <1>p DEF TickStops, EngineQuiet, Flatten, JournalTrade, Goto, Process
<1>7. CASE PollOnTick
  <2>1. p.polls + 1 \in 0..PollsPerBar
    BY <1>7, <1>f DEF PollOnTick
  <2>2. CASE p' = Raised
    BY <2>2, RaisedType
  <2>3. CASE p' = [p EXCEPT !.polls = p.polls + 1]
    BY <2>1, <2>3 DEF Process
  <2>4. CASE p' = [p EXCEPT !.pc = "oco_target", !.ret = "oco_tick"]
    BY <1>p, <2>4 DEF Closers, Process
  <2>5. CASE p' = [p EXCEPT !.pc = "oco_stop", !.ret = "oco_tick"]
    BY <1>p, <2>5 DEF Closers, Process
  <2> QED BY <1>7, <2>2, <2>3, <2>4, <2>5 DEF PollOnTick, Poll, Polled, Raises
<1>8. CASE PollOnBar
  <2>1. CASE p' = Raised
    BY <2>1, RaisedType
  <2>2. CASE p' = [p EXCEPT !.pc = "engine"]
    BY <1>p, <2>2 DEF Process
  <2>3. CASE p' = [p EXCEPT !.pc = "oco_target", !.ret = "oco_bar"]
    BY <1>p, <2>3 DEF Closers, Process
  <2>4. CASE p' = [p EXCEPT !.pc = "oco_stop", !.ret = "oco_bar"]
    BY <1>p, <2>4 DEF Closers, Process
  <2> QED BY <1>8, <2>1, <2>2, <2>3, <2>4 DEF PollOnBar, Poll, Polled, Raises, Goto
<1>9. CASE LossCap
  BY <1>9, <1>p DEF LossCap, Closing, Closers, Process
<1>10. CASE OpeningRange
  <2>1. CASE p' = [p EXCEPT !.pc = "bar_end", !.engine = "done"]
    BY <1>p, <2>1 DEF Process
  <2>4. CASE p' = [p EXCEPT !.pc = "bar_end", !.engine = "in"]
    BY <1>p, <2>4 DEF Process
  <2>2. CASE p' = [p EXCEPT !.pc = "z_save", !.engine = "in", !.taken = TRUE]
    BY <1>p, <2>2 DEF Process
  <2>3. CASE p' = [p EXCEPT !.pc = "e_send", !.engine = "in"]
    BY <1>p, <2>3 DEF Process
  <2> QED BY <1>10, <2>1, <2>2, <2>3, <2>4 DEF OpeningRange
<1>11. CASE EngineCloses
  BY <1>11, <1>p DEF EngineCloses, Closing, Closers, Process
<1>12. CASE BarEnds
  <2>1. PICK h \in BOOLEAN : p' = [p EXCEPT !.pc = "wait", !.polls = 0, !.halted = h]
    BY <1>12, <1>f DEF BarEnds
  <2> QED BY <1>p, <2>1, Zeros DEF Process
<1>13. CASE CooperativeStop
  <2>1. CASE p' = NoProcess
    BY <2>1, NoProcessType
  <2>2. CASE p' = [p EXCEPT !.pc = "flatten", !.ret = "coop", !.attempt = 0]
    BY <1>p, <2>2, Zeros DEF Closers, Process
  <2> QED BY <1>13, <2>1, <2>2 DEF CooperativeStop, Ends
<1>14. CASE HandleError
  <2>1. CASE p' = NoProcess
    BY <2>1, NoProcessType
  <2>2. CASE p' = [p EXCEPT !.pc = "flatten", !.ret = "error", !.attempt = 0]
    BY <1>p, <2>2, Zeros DEF Closers, Process
  <2> QED BY <1>14, <2>1, <2>2 DEF HandleError, Ends
<1> QED BY <1>1, <1>2, <1>3, <1>4, <1>5, <1>6, <1>7, <1>8, <1>9, <1>10, <1>11, <1>12, <1>13, <1>14

\* What state.json may hold after a save.
LEMMA SavedType == ASSUME p \in Process PROVE Saved(p.taken) \in DiskType
BY Fields DEF Saved, DiskType

\* The start of a process and its saves.
LEMMA LaunchType ==
    ASSUME TypeOK, BookInv,
           Startup \/ Reconcile \/ Adopt \/ Save \/ Crash \/ (\E auto \in BOOLEAN : Launch(auto))
    PROVE  p' \in Process /\ disk' \in DiskType
<1>t. p \in Process /\ disk \in DiskType /\ pos \in Int
  BY DEF TypeOK, DiskType
<1>p. {"startup", "reconcile", "wait", "adopt", "adopt_save", "bar_end", "engine"} \subseteq Pcs
  BY DEF Pcs, SavePcs
<1>1. CASE Startup
  <2>1. CASE p' = NoProcess /\ UNCHANGED disk
    BY <1>t, <2>1, NoProcessType
  <2>2. CASE p' = [p EXCEPT !.pc = "reconcile", !.taken = TakenToday] /\ disk' = Saved(TakenToday)
    <3>1. TakenToday \in BOOLEAN
      BY <1>t DEF TakenToday, DiskType
    <3>2. p' \in Process
      BY <1>t, <1>p, <2>2, <3>1 DEF Process
    <3> QED BY <2>2, <3>1, <3>2 DEF Saved, DiskType
  <2> QED BY <1>1, <2>1, <2>2 DEF Startup, Ends
<1>2. CASE Reconcile
  <2>1. UNCHANGED disk
    BY <1>2 DEF Reconcile
  <2>2. CASE p' = NoProcess
    BY <1>t, <2>1, <2>2, NoProcessType
  <2>3. CASE p' = [p EXCEPT !.pc = "wait", !.engine = IF p.taken THEN "done" ELSE "or"]
    BY <1>t, <1>p, <2>1, <2>3 DEF Process
  <2>4. CASE p' = [p EXCEPT !.pc = "adopt", !.seen = IF pos > 0 THEN pos ELSE -pos]
    <3>1. (IF pos > 0 THEN pos ELSE -pos) \in Nat
      BY <1>t
    <3> QED BY <1>t, <1>p, <2>1, <2>4, <3>1 DEF Process
  <2> QED BY <1>2, <2>2, <2>3, <2>4 DEF Reconcile, Ends
<1>3. CASE Adopt
  <2>1. UNCHANGED disk
    BY <1>3 DEF Adopt
  <2>2. CASE p' = NoProcess
    BY <1>t, <2>1, <2>2, NoProcessType
  <2>3. ASSUME NEW s \in Resting("stop"), NEW t \in Resting("target"),
               p' = [p EXCEPT !.pc = "adopt_save", !.position = p.seen, !.seen = 0,
                               !.stop = s, !.target = t, !.engine = "in",
                               !.taken = TRUE, !.adopted = TRUE]
        PROVE  p' \in Process
    <3>1. s \in 0..MaxLaunches /\ t \in 0..MaxLaunches
      BY DEF Resting, Launches
    <3>2. p.seen \in Nat
      BY <1>t, Fields
    <3> QED BY <1>t, <1>p, <2>3, <3>1, <3>2 DEF Process
  <2> QED BY <1>3, <1>t, <2>1, <2>2, <2>3 DEF Adopt, Ends
<1>4. CASE Save
  <2>1. disk' \in DiskType
    BY <1>4, <1>t, SavedType DEF Save
  <2>2. CASE p' = NoProcess
    BY <2>1, <2>2, NoProcessType
  <2>3. CASE p' = AfterSave
    <3>1. AfterSave \in {Goto("wait"), Goto("bar_end"),
             [p EXCEPT !.pc = "wait", !.ret = "none", !.engine = "done"],
             [p EXCEPT !.pc = "engine", !.ret = "none", !.engine = "done"],
             [p EXCEPT !.pc = "bar_end", !.ret = "none", !.engine = "done"],
             [p EXCEPT !.pc = "bar_end", !.ret = "none"]}
      BY <1>4 DEF AfterSave, Save, SavePcs
    <3>2. Goto("wait") \in Process /\ Goto("bar_end") \in Process
      BY <1>t, <1>p DEF Goto, Process
    <3>3. [p EXCEPT !.pc = "wait", !.ret = "none", !.engine = "done"] \in Process
      BY <1>t, <1>p DEF Process
    <3>4. [p EXCEPT !.pc = "engine", !.ret = "none", !.engine = "done"] \in Process
      BY <1>t, <1>p DEF Process
    <3>5. [p EXCEPT !.pc = "bar_end", !.ret = "none", !.engine = "done"] \in Process
      BY <1>t, <1>p DEF Process
    <3>6. [p EXCEPT !.pc = "bar_end", !.ret = "none"] \in Process
      BY <1>t, <1>p DEF Process
    <3> QED BY <2>1, <2>3, <3>1, <3>2, <3>3, <3>4, <3>5, <3>6
  <2> QED BY <1>4, <2>2, <2>3 DEF Save, Ends
<1>5. CASE Crash
  <2>1. p' \in Process
    BY <1>5, NoProcessType DEF Crash
  <2>2. disk' \in DiskType
    BY <1>5, <1>t DEF Crash, DiskType
  <2> QED BY <2>1, <2>2
<1>6. ASSUME NEW auto \in BOOLEAN, Launch(auto)
      PROVE  p' \in Process /\ disk' \in DiskType
  <2>1. p' = NoProcess \/ p' = [p EXCEPT !.pc = "startup"]
    BY <1>6 DEF Launch, Ends, Goto
  <2>2. UNCHANGED disk
    BY <1>6 DEF Launch
  <2>3. CASE p' = [p EXCEPT !.pc = "startup"]
    BY <1>t, <1>p, <2>2, <2>3 DEF Process
  <2> QED BY <1>t, <2>1, <2>2, <2>3, NoProcessType
<1> QED BY <1>1, <1>2, <1>3, <1>4, <1>5, <1>6

\* place_bracket: the contracts it protects are no more than the order is for.
LEMMA BracketType ==
    ASSUME TypeOK, BookInv, BracketInv,
           SendEntry \/ AwaitFill \/ FillTimesOut \/ PlaceStop \/ PlaceTarget
    PROVE  p' \in Process /\ orders' \in Book
<1>t. p \in Process /\ orders \in Book /\ p.seen \in Nat
  BY Fields DEF TypeOK, Book
<1>p. {"e_await", "e_stop", "e_target", "e_save"} \subseteq Pcs
  BY DEF Pcs, EntryPcs
<1>l. launch \in Launches /\ launch \in 0..MaxLaunches
  BY DEF BookInv, SendEntry, AwaitFill, FillTimesOut, PlaceStop, PlaceTarget, Launches
<1>f. /\ Entry(launch) \in Order /\ Entry(launch).filled \in 0..Size
      /\ Entry(launch).filled \in Nat
  BY <1>l, <1>t DEF Entry, Book, Roles, Order
<1>r. {"entry", "stop", "target"} \subseteq Roles /\ Size \in 0..Size
  BY DEF Roles, Legs
<1>1. CASE SendEntry
  <2>1. Size \in 0..Size
    BY <1>r
  <2>2. orders' \in Book
    <3>1. CASE Place("entry", Size)
      BY <1>l, <1>t, <1>r, <2>1, <3>1, PlaceEffect
    <3> QED BY <1>1, <1>t, <3>1 DEF SendEntry, PlaceCall
  <2>3. ASSUME p' = [p EXCEPT !.pc = "e_await", !.seen = 0]
        PROVE  p' \in Process
    BY <1>t, <1>p, <2>3 DEF Process
  <2>4. p' \in Process
    BY <1>1, <1>t, <2>3, RaisedType DEF SendEntry, PlaceCall, RaisesInEntry, Goto
  <2> QED BY <2>2, <2>4
<1>2. CASE AwaitFill
  <2>1. UNCHANGED orders
    BY <1>2 DEF AwaitFill, exchange
  <2>2. CASE p' = Raised
    BY <1>t, <2>1, <2>2, RaisedType
  <2>3. CASE p' = Protect(Entry(launch).filled)
    BY <1>t, <1>p, <1>f, <2>1, <2>3 DEF Protect, Process
  <2>4. CASE p' = [p EXCEPT !.seen = IF Entry(launch).filled > 0 THEN Entry(launch).filled ELSE p.seen]
    BY <1>t, <1>f, <2>1, <2>4 DEF Process
  <2> QED BY <1>2, <2>2, <2>3, <2>4 DEF AwaitFill, RaisesInEntry, Entry
<1>3. CASE FillTimesOut
  <2>1. UNCHANGED orders
    BY <1>3 DEF FillTimesOut, exchange
  <2>2. CASE p' = Raised
    BY <1>t, <2>1, <2>2, RaisedType
  <2>3. CASE p' = Protect(p.seen)
    BY <1>t, <1>p, <2>1, <2>3 DEF Protect, Process
  <2> QED BY <1>3, <2>2, <2>3 DEF FillTimesOut, RaisesInEntry
<1>4. CASE PlaceStop
  <2>1. p.seen \in 0..Size
    BY <1>4, <1>t, <1>f DEF PlaceStop, BracketInv
  <2>2. orders' \in Book
    <3>1. CASE Place("stop", p.seen)
      BY <1>l, <1>t, <1>r, <2>1, <3>1, PlaceEffect
    <3> QED BY <1>4, <1>t, <3>1 DEF PlaceStop, PlaceCall
  <2>3. ASSUME p' = [p EXCEPT !.pc = "e_target"]
        PROVE  p' \in Process
    BY <1>t, <1>p, <2>3 DEF Process
  <2>4. p' \in Process
    BY <1>4, <1>t, <2>3, RaisedType DEF PlaceStop, PlaceCall, RaisesInEntry, Goto
  <2> QED BY <2>2, <2>4
<1>5. CASE PlaceTarget
  <2>1. p.seen \in 0..Size
    BY <1>5, <1>t, <1>f DEF PlaceTarget, BracketInv
  <2>2. orders' \in Book
    <3>1. CASE Place("target", p.seen)
      BY <1>l, <1>t, <1>r, <2>1, <3>1, PlaceEffect
    <3> QED BY <1>5, <1>t, <3>1 DEF PlaceTarget, PlaceCall
  <2>3. ASSUME p' = [p EXCEPT !.pc = "e_save", !.position = p.seen, !.seen = 0,
                             !.stop = launch, !.target = launch, !.taken = TRUE]
        PROVE  p' \in Process
    BY <1>t, <1>p, <1>l, <2>3 DEF Process
  <2>4. p' \in Process
    BY <1>5, <1>t, <2>3, RaisedType DEF PlaceTarget, PlaceCall, RaisesInEntry, Goto
  <2> QED BY <2>2, <2>4
<1> QED BY <1>1, <1>2, <1>3, <1>4, <1>5

\* _safe_cancel and close_position.
LEMMA CloseType ==
    ASSUME TypeOK,
           Cancel \/ CheckStatus \/ CheckFlat \/ CloseContract \/ ResolvePrice
    PROVE  p' \in Process /\ orders' \in Book
<1>t. p \in Process /\ orders \in Book /\ p.tries \in 0..CancelAttempts
  BY Fields DEF TypeOK, Book
<1>p. {"c_stop", "c_target", "c_positions", "c_price", "c_close", "c_journal"} \subseteq Pcs
  BY DEF Pcs, CancelPcs
<1>c. ASSUME p.pc \in CancelPcs PROVE Cancelled \in Process
  <2>1. AfterCancel(p.pc) \in Pcs
    BY <1>c, <1>p DEF AfterCancel, CancelPcs
  <2> QED BY <1>t, <2>1, Zeros DEF Cancelled, Process
<1>1. CASE Cancel
  <2>1. ASSUME p' = [p EXCEPT !.checking = TRUE]
        PROVE  p' \in Process
    BY <1>t, <2>1 DEF Process
  <2>2. p' \in Process
    BY <1>1, <1>c, <1>t, <2>1, RaisedType DEF Cancel, Raises
  <2>3. orders' \in Book
    <3>1. ASSUME TrackedLeg # 0,
                 orders' = [orders EXCEPT ![TrackedLeg][LegAt(p.pc)].status = "cancelled"]
          PROVE  orders' \in Book
      <4>1. LegAt(p.pc) \in Roles /\ TrackedLeg \in Launches
        BY <1>t, <3>1, Fields DEF LegAt, TrackedLeg, Roles, Legs, Launches
      <4> QED BY <1>t, <3>1, <4>1, StatusEffect
    <3>2. Status(LegAt(p.pc), TrackedLeg) = "open" => TrackedLeg # 0
      BY DEF Status
    <3> QED BY <1>1, <1>t, <3>1, <3>2 DEF Cancel
  <2> QED BY <2>2, <2>3
<1>2. CASE CheckStatus
  <2>1. ASSUME p.tries + 1 < CancelAttempts,
               p' = [p EXCEPT !.checking = FALSE, !.tries = p.tries + 1]
        PROVE  p' \in Process
    <3>1. p.tries + 1 \in 0..CancelAttempts
      BY <1>t, <2>1
    <3> QED BY <1>t, <2>1, <3>1 DEF Process
  <2>2. p' \in Process
    BY <1>2, <1>c, <1>t, <2>1, RaisedType DEF CheckStatus, Raises
  <2>3. UNCHANGED orders
    BY <1>2 DEF CheckStatus, exchange
  <2> QED BY <1>t, <2>2, <2>3
<1>3. CASE CheckFlat
  <2>1. p' = Raised \/ p' = [p EXCEPT !.pc = "c_price"] \/ p' = [p EXCEPT !.pc = "c_close"]
    BY <1>3 DEF CheckFlat, Raises, Goto
  <2>2. UNCHANGED orders
    BY <1>3 DEF CheckFlat, exchange
  <2>3. [p EXCEPT !.pc = "c_price"] \in Process /\ [p EXCEPT !.pc = "c_close"] \in Process
    BY <1>t, <1>p DEF Process
  <2> QED BY <1>t, <2>1, <2>2, <2>3, RaisedType
<1>4. CASE CloseContract
  <2>1. p' = Raised \/ p' = [p EXCEPT !.pc = "c_price"]
    BY <1>4 DEF CloseContract, Raises, Goto
  <2>2. UNCHANGED orders
    BY <1>4 DEF CloseContract
  <2>3. [p EXCEPT !.pc = "c_price"] \in Process
    BY <1>t, <1>p DEF Process
  <2> QED BY <1>t, <2>1, <2>2, <2>3, RaisedType
<1>5. CASE ResolvePrice
  <2>1. ASSUME p' = [p EXCEPT !.pc = "c_journal", !.position = 0, !.stop = 0, !.target = 0]
        PROVE  p' \in Process
    BY <1>t, <1>p, <2>1, Zeros DEF Process
  <2>2. UNCHANGED orders
    BY <1>5 DEF ResolvePrice, exchange
  <2>3. p' \in Process
    BY <1>5, <1>t, <2>1, RaisedType DEF ResolvePrice, Raises
  <2> QED BY <1>t, <2>2, <2>3
<1> QED BY <1>1, <1>2, <1>3, <1>4, <1>5

\* A fill stays within what was ordered.
LEMMA ExchangeType ==
    ASSUME TypeOK, BookInv, Exchange
    PROVE  orders' \in Book /\ pos' \in Int
<1>t. orders \in Book /\ pos \in Int
  BY DEF TypeOK, Book
<1>o. \A n \in Launches, r \in Roles :
        /\ orders[n][r] \in Order /\ orders[n][r].qty \in 0..Size
        /\ orders[n][r].filled \in 0..Size
  BY <1>t DEF Book, Order
<1>r. "entry" \in Roles /\ Legs \subseteq Roles
  BY DEF Roles
<1>1. ASSUME NEW n \in Launches, FillEntry(n)
      PROVE  orders' \in Book /\ pos' \in Int
  <2>1. Entry(n).filled + 1 \in 0..Size
    BY <1>1, <1>o, <1>r DEF FillEntry, BookInv, Entry
  <2>2. PICK s \in {"open", "filled"} : Fills(n, "entry", Entry(n).filled + 1, s)
    BY <1>1 DEF FillEntry, Entry, Fills
  <2>3. orders' \in Book
    BY <1>t, <1>r, <2>1, <2>2, FillEffect
  <2> QED BY <1>1, <1>t, <2>3 DEF FillEntry
<1>2. ASSUME NEW n \in Launches, NEW leg \in Legs, FillLeg(n, leg)
      PROVE  orders' \in Book /\ pos' \in Int
  <2>1. orders[n][leg].qty \in 0..Size
    BY <1>o, <1>r
  <2>2. orders' \in Book
    <3>1. Fills(n, leg, orders[n][leg].qty, "filled")
      BY <1>2 DEF FillLeg, Fills
    <3> QED BY <1>t, <1>r, <2>1, <3>1, FillEffect
  <2>3. pos' \in Int
    BY <1>2, <1>t, <2>1 DEF FillLeg
  <2> QED BY <2>2, <2>3
<1>3. ASSUME NEW n \in Launches, NEW r \in Roles, Reject(n, r)
      PROVE  orders' \in Book /\ pos' \in Int
  BY <1>3, <1>t, StatusEffect DEF Reject
<1> QED BY <1>1, <1>2, <1>3 DEF Exchange

\* What a step may note in the log.
LEMMA EndsType ==
    ASSUME log \in LogType, NEW o \in Outcomes, Ends(o)
    PROVE  log' \in LogType
BY DEF Ends, LogType

\* Noting that an entry was lost keeps the log's type.
LEMMA LostType ==
    ASSUME log \in LogType, NEW lost \in BOOLEAN,
           log' = [log EXCEPT !.lostEntry = lost]
    PROVE  log' \in LogType
BY DEF LogType

\* An exception while an entry is placed keeps the log's type.
LEMMA RaisesInEntryType ==
    ASSUME log \in LogType, RaisesInEntry
    PROVE  log' \in LogType
<1>1. PICK lost \in BOOLEAN : log' = [log EXCEPT !.lostEntry = lost]
  BY DEF RaisesInEntry
<1> QED BY <1>1, LostType

\* Every step of the process keeps the log's type.
LEMMA LogStep ==
    ASSUME TypeOK, Step
    PROVE  log' \in LogType
<1>t. log \in LogType
  BY DEF TypeOK, LogType
<1>o. /\ {"aborted", "gated", "coop", "skip", "clean", "errored_flat", "errored_naked", "crashed"}
           \subseteq Outcomes
      /\ \A why \in {"eod", "coop", "error"} : EndOf(why) \in Outcomes
  BY DEF Outcomes, EndOf
<1>1. CASE Startup \/ Reconcile \/ Adopt
  BY <1>1, <1>t, <1>o, EndsType DEF Startup, Reconcile, Adopt
<1>2. CASE Save
  BY <1>2, <1>t, <1>o, EndsType DEF Save
<1>3. CASE FeedSkipsDay \/ FeedEnds \/ CooperativeStop \/ HandleError
  BY <1>3, <1>t, <1>o, EndsType DEF FeedSkipsDay, FeedEnds, CooperativeStop, HandleError
<1>4. CASE NextBar \/ MissingBar \/ FeedFails \/ TickStops \/ PollOnTick \/ PollOnBar \/ LossCap
             \/ EngineQuiet \/ OpeningRange \/ EngineCloses \/ BarEnds \/ Flatten
  BY <1>4, <1>t DEF NextBar, MissingBar, FeedFails, TickStops, PollOnTick, PollOnBar, Poll,
     LossCap, EngineQuiet, OpeningRange, EngineCloses, BarEnds, Flatten, Raises
<1>5. CASE SendEntry \/ PlaceStop \/ PlaceTarget
  BY <1>5, <1>t, RaisesInEntryType DEF SendEntry, PlaceStop, PlaceTarget, PlaceCall
<1>6. CASE AwaitFill
  BY <1>6, <1>t, RaisesInEntryType DEF AwaitFill
<1>7. CASE FillTimesOut
  <2>1. ASSUME log' = [log EXCEPT !.partial = TRUE]
        PROVE  log' \in LogType
    BY <1>t, <2>1 DEF LogType
  <2> QED BY <1>7, <2>1, <1>t, RaisesInEntryType DEF FillTimesOut
<1>8. CASE CheckStatus
  <2>1. ASSUME log' = [log EXCEPT !.alarms = @ \union {"NakedOrder"}]
        PROVE  log' \in LogType
    BY <1>t, <2>1 DEF LogType
  <2> QED BY <1>8, <2>1, <1>t DEF CheckStatus, Raises
<1>9. CASE Cancel \/ CheckFlat \/ CloseContract \/ ResolvePrice
  BY <1>9, <1>t DEF Cancel, CheckFlat, CloseContract, ResolvePrice, Raises
<1>10. CASE JournalTrade
  BY <1>10, <1>t DEF JournalTrade, LogType
<1>11. CASE AlarmNaked
  BY <1>11, <1>t, <1>o DEF AlarmNaked, LogType
<1> QED BY <1>1, <1>2, <1>3, <1>4, <1>5, <1>6, <1>7, <1>8, <1>9, <1>10, <1>11 DEF Step

\* A step of the process counts at most one fault, and neither launches nor asks to stop.
LEMMA FaultsStep ==
    ASSUME TypeOK, Step
    PROVE  faults' \in 0..MaxFaults /\ launch' = launch /\ stopReq' = stopReq
<1>t. faults \in 0..MaxFaults
  BY DEF TypeOK
<1>1. UNCHANGED <<launch, stopReq>>
  BY DEF Step, Startup, Reconcile, Adopt, Save, NextBar, MissingBar, FeedSkipsDay, FeedFails,
     FeedEnds, TickStops, PollOnTick, PollOnBar, LossCap, EngineQuiet, OpeningRange,
     EngineCloses, BarEnds, SendEntry, AwaitFill, FillTimesOut, PlaceStop, PlaceTarget,
     Cancel, CheckStatus, CheckFlat, CloseContract, ResolvePrice, JournalTrade,
     CooperativeStop, HandleError, Flatten, AlarmNaked
<1>2. UNCHANGED faults \/ CallFails
  BY DEF Step, Startup, Reconcile, Adopt, Save, NextBar, MissingBar, FeedSkipsDay, FeedFails,
     FeedEnds, TickStops, PollOnTick, PollOnBar, Poll, LossCap, EngineQuiet, OpeningRange,
     EngineCloses, BarEnds, SendEntry, AwaitFill, FillTimesOut, PlaceStop, PlaceTarget,
     PlaceCall, Cancel, CheckStatus, CheckFlat, CloseContract, ResolvePrice, JournalTrade,
     CooperativeStop, HandleError, Flatten, AlarmNaked, CallOk
<1> QED BY <1>1, <1>2, <1>t DEF CallFails

\* A step of the process keeps the types.
LEMMA StepType ==
    ASSUME TypeOK, BookInv, BracketInv, Step
    PROVE  TypeOK'
<1>1. log' \in LogType /\ faults' \in 0..MaxFaults /\ launch' = launch /\ stopReq' = stopReq
  BY LogStep, FaultsStep
<1>2. p' \in Process
  BY LoopType, LaunchType, BracketType, CloseType DEF Step, TypeOK
<1>3. disk' \in DiskType
  <2>1. CASE Startup \/ Save
    BY <2>1, LaunchType
  <2>2. CASE ~(Startup \/ Save)
    <3>1. UNCHANGED disk
      BY <2>2 DEF Step, Reconcile, Adopt, NextBar, MissingBar, FeedSkipsDay, FeedFails,
         FeedEnds, TickStops, PollOnTick, PollOnBar, LossCap, EngineQuiet, OpeningRange,
         EngineCloses, BarEnds, SendEntry, AwaitFill, FillTimesOut, PlaceStop, PlaceTarget,
         Cancel, CheckStatus, CheckFlat, CloseContract, ResolvePrice, JournalTrade,
         CooperativeStop, HandleError, Flatten, AlarmNaked
    <3> QED BY <3>1 DEF TypeOK, DiskType
  <2> QED BY <2>1, <2>2
<1>4. orders' \in Book
  <2>1. CASE SendEntry \/ PlaceStop \/ PlaceTarget
    BY <2>1, BracketType
  <2>2. CASE Cancel
    BY <2>2, CloseType
  <2>3. CASE ~(SendEntry \/ PlaceStop \/ PlaceTarget \/ Cancel)
    <3>1. UNCHANGED orders
      BY <2>3 DEF Step, Startup, Save, Reconcile, Adopt, NextBar, MissingBar, FeedSkipsDay,
         FeedFails, FeedEnds, TickStops, PollOnTick, PollOnBar, LossCap, EngineQuiet,
         OpeningRange, EngineCloses, BarEnds, AwaitFill, FillTimesOut, CheckStatus, CheckFlat,
         CloseContract, ResolvePrice, JournalTrade, CooperativeStop, HandleError, Flatten,
         AlarmNaked, exchange
    <3> QED BY <3>1 DEF TypeOK, Book
  <2> QED BY <2>1, <2>2, <2>3
<1>5. pos' \in Int
  <2>1. pos' \in {pos, 0}
    BY DEF Step, Startup, Save, Reconcile, Adopt, NextBar, MissingBar, FeedSkipsDay,
       FeedFails, FeedEnds, TickStops, PollOnTick, PollOnBar, LossCap, EngineQuiet,
       OpeningRange, EngineCloses, BarEnds, SendEntry, AwaitFill, FillTimesOut, PlaceStop,
       PlaceTarget, Cancel, CheckStatus, CheckFlat, CloseContract, ResolvePrice,
       JournalTrade, CooperativeStop, HandleError, Flatten, AlarmNaked, exchange
  <2> QED BY <2>1 DEF TypeOK
<1> QED BY <1>1, <1>2, <1>3, <1>4, <1>5 DEF TypeOK, LogType, DiskType, Book

\* Every step keeps the types.
LEMMA NextType ==
    ASSUME TypeOK, BookInv, BracketInv, [Next]_vars
    PROVE  TypeOK'
<1>t. log \in LogType /\ "crashed" \in Outcomes
  BY DEF TypeOK, LogType, Outcomes
<1>1. CASE Step
  BY <1>1, StepType
<1>2. CASE Exchange
  <2>1. orders' \in Book /\ pos' \in Int
    BY <1>2, ExchangeType
  <2>2. UNCHANGED <<disk, stopReq, p, launch, log>>
    BY <1>2 DEF Exchange, FillEntry, FillLeg, Reject, Own
  <2>3. faults' \in 0..MaxFaults
    <3>1. faults' = faults \/ (faults < MaxFaults /\ faults' = faults + 1)
      BY <1>2 DEF Exchange, FillEntry, FillLeg, Reject
    <3> QED BY <3>1 DEF TypeOK
  <2> QED BY <2>1, <2>2, <2>3 DEF TypeOK, Book
<1>3. ASSUME NEW auto \in BOOLEAN, Launch(auto)
      PROVE  TypeOK'
  <2>1. p' \in Process /\ disk' \in DiskType
    BY <1>3, LaunchType
  <2>2. log' \in LogType
    <3>1. {"aborted", "gated", "coop"} \subseteq Outcomes
      BY DEF Outcomes
    <3> QED BY <1>3, <1>t, <3>1, EndsType DEF Launch
  <2>3. launch' \in 0..MaxLaunches
    BY <1>3 DEF Launch, TypeOK
  <2>4. UNCHANGED <<pos, orders, stopReq, faults>>
    BY <1>3 DEF Launch, exchange
  <2> QED BY <2>1, <2>2, <2>3, <2>4 DEF TypeOK, DiskType, LogType
<1>4. CASE RequestStop
  BY <1>4 DEF RequestStop, TypeOK, exchange
<1>5. CASE Crash
  <2>1. p' \in Process /\ disk' \in DiskType
    BY <1>5, LaunchType
  <2>2. log' \in LogType
    <3>1. PICK lost \in BOOLEAN : log' = [log EXCEPT !.outcome = "crashed", !.lostEntry = lost]
      BY <1>5 DEF Crash
    <3> QED BY <1>t, <3>1 DEF LogType
  <2>3. UNCHANGED <<pos, orders, stopReq, launch, faults>>
    BY <1>5 DEF Crash, exchange
  <2> QED BY <2>1, <2>2, <2>3 DEF TypeOK, DiskType, LogType
<1>6. CASE UNCHANGED vars
  BY <1>6 DEF vars, TypeOK
<1> QED BY <1>1, <1>2, <1>3, <1>4, <1>5, <1>6 DEF Next

-----------------------------------------------------------------------------
(* What a step of the process may change                                     *)

\* The runner knows and the broker tracks what they did.
Holds ==
    /\ p'.position = p.position /\ p'.stop = p.stop /\ p'.target = p.target
    /\ p'.taken = p.taken /\ p'.adopted = p.adopted

\* The exchange does not move, and state.json says what it said.
Still == UNCHANGED <<pos, orders, launch>> /\ TakenToday' = TakenToday

\* The process may have cancelled one of its legs or closed the whole position.
Mild ==
    /\ launch' = launch /\ TakenToday' = TakenToday /\ pos' \in {pos, 0}
    /\ \A n \in Launches, r \in Roles :
          \/ orders'[n][r] = orders[n][r]
          \/ /\ r # "entry" /\ orders[n][r].status = "open" /\ orders'[n][r].status = "cancelled"
             /\ orders'[n][r].qty = orders[n][r].qty /\ orders'[n][r].filled = orders[n][r].filled

\* Then no entry changes and nothing comes alive.
LEMMA MildEffect ==
    ASSUME Mild
    PROVE  /\ \A n \in Launches : Entry(n)' = Entry(n) /\ (Untouched(n) => Untouched(n)')
           /\ \A n \in Launches, leg \in Legs :
                 /\ orders'[n][leg].status \in {orders[n][leg].status, "cancelled"}
                 /\ orders'[n][leg].status = "none" <=> orders[n][leg].status = "none"
                 /\ orders'[n][leg].qty = orders[n][leg].qty
           /\ Working' \subseteq Working
<1>r. "entry" \in Roles /\ Legs \subseteq Roles
  BY DEF Roles
<1>1. ASSUME NEW n \in Launches
      PROVE  Entry(n)' = Entry(n) /\ (Untouched(n) => Untouched(n)')
  BY <1>r DEF Mild, Entry, Untouched, NoOrder
<1>2. ASSUME NEW n \in Launches, NEW leg \in Legs
      PROVE  /\ orders'[n][leg].status \in {orders[n][leg].status, "cancelled"}
             /\ orders'[n][leg].status = "none" <=> orders[n][leg].status = "none"
             /\ orders'[n][leg].qty = orders[n][leg].qty
  BY <1>r DEF Mild
<1>3. Working' \subseteq Working
  BY DEF Mild, Working
<1> QED BY <1>1, <1>2, <1>3

\* In particular when the exchange does not move.
LEMMA StillMild == Still => Mild
BY DEF Still, Mild

\* The log, but for its alarms and the outcome.
SameCounts ==
    /\ log'.lostEntry = log.lostEntry /\ log'.partial = log.partial
    /\ log'.trades = log.trades

\* The loop goes on.
Quiet ==
    /\ Still /\ Holds /\ UNCHANGED log
    /\ p.pc \in BarPcs /\ p'.pc \in BarPcs \union {"coop"} /\ p'.ret = p.ret
    /\ p'.minute >= p.minute /\ (p.lastBar => p'.lastBar)
    /\ p'.pc \in {"bar", "engine", "bar_end"} => p'.lastBar
    /\ p'.pc = "bar" => p.position > 0
    /\ p'.engine = "or" => p.engine = "or"
    /\ p.position > 0 => p'.engine = p.engine

\* A tracked position is going to be closed.
Closes ==
    /\ Still /\ Holds /\ UNCHANGED log
    /\ p.pc \in BarPcs /\ p.position > 0
    /\ p'.pc \in {"oco_stop", "oco_target", "c_stop"} /\ p'.ret # "none"
    /\ p'.minute = p.minute /\ p'.lastBar = p.lastBar /\ p'.engine \in {p.engine, "done"}
    /\ p'.ret \in {"oco_bar", "cap", "model"} => p.lastBar

\* The close goes on, and knows what it did.
Advances ==
    /\ Mild /\ Holds /\ SameCounts /\ log'.outcome = log.outcome /\ log.alarms \subseteq log'.alarms
    /\ p.position > 0 /\ p.pc \in ClosePcs \union {"coop", "handler", "flatten"}
    /\ p'.pc \in ClosePcs \union {"flatten"} /\ p'.ret # "none"
    /\ p'.ret \in {p.ret, "coop", "error"}
    /\ p'.minute = p.minute /\ p'.lastBar = p.lastBar /\ p'.engine = p.engine
    /\ p'.pc \in {"c_target", "c_positions", "c_close", "c_price"}
          => Status("stop", p.stop)' # "open"
    /\ p'.pc \in {"c_positions", "c_close", "c_price"}
          => Status("target", p.target)' # "open"
    /\ p'.pc = "c_price" => pos' = 0

\* An exception outside place_bracket.
Fails ==
    /\ Mild /\ Thrown /\ SameCounts /\ log'.outcome = log.outcome
    /\ log.alarms \subseteq log'.alarms
    /\ p.pc \in BarPcs \union ClosePcs

\* The process ends; what it leaves open it had adopted.
Leaves ==
    /\ UNCHANGED <<pos, orders, launch>> /\ (TakenToday => TakenToday')
    /\ Gone /\ SameCounts /\ log'.outcome \notin {"errored_naked", "crashed"}
    /\ p.pc \notin EntryPcs \union {"down", "c_journal"}
    /\ p.position = 0 \/ p.adopted

\* A process that ends by itself.
LEMMA EndsEffect ==
    ASSUME TypeOK, NEW o, Ends(o)
    PROVE  /\ Gone /\ SameCounts /\ log'.outcome = o /\ log'.alarms = log.alarms
<1>1. Gone
  BY GoneEffect DEF Ends
<1>2. log \in LogType
  BY DEF TypeOK, LogType
<1>3. log' = [log EXCEPT !.outcome = o]
  BY DEF Ends
<1> QED BY <1>1, <1>2, <1>3 DEF SameCounts, LogType

\* What the bar loop may do: go on, start to close, raise, or end.
LEMMA LoopEffect ==
    ASSUME TypeOK, TrackInv, EngineInv,
           NextBar \/ MissingBar \/ FeedFails \/ FeedEnds \/ FeedSkipsDay \/ TickStops
             \/ PollOnTick \/ PollOnBar \/ LossCap \/ EngineQuiet \/ EngineCloses \/ BarEnds
    PROVE  Quiet \/ Closes \/ Fails \/ Leaves
<1>t. p \in Process /\ p.minute \in Int /\ p.position \in Nat
  BY Fields DEF TypeOK
<1>s. UNCHANGED <<exchange, disk, launch>> => Still
  BY DEF Still, exchange, TakenToday
<1>1. CASE NextBar
  BY <1>1, <1>s, <1>t DEF NextBar, Quiet, Holds, BarPcs, Process
<1>2. CASE MissingBar
  BY <1>2, <1>s, <1>t DEF MissingBar, Quiet, Holds, BarPcs, Process
<1>3. CASE TickStops \/ EngineQuiet
  BY <1>3, <1>s, <1>t DEF TickStops, EngineQuiet, Goto, Quiet, Holds, BarPcs, Process, EngineInv
<1>4. CASE BarEnds
  <2>1. PICK h \in BOOLEAN : p' = [p EXCEPT !.pc = "wait", !.polls = 0, !.halted = h]
    BY <1>4, <1>t, Fields DEF BarEnds
  <2>2. p.pc = "bar_end" /\ UNCHANGED <<exchange, disk, launch, log>>
    BY <1>4 DEF BarEnds
  <2>3. /\ p'.pc = "wait" /\ Holds /\ p'.ret = p.ret /\ p'.minute = p.minute
        /\ p'.lastBar = p.lastBar /\ p'.engine = p.engine
    BY <1>t, <2>1 DEF Holds, Process
  <2> QED BY <1>s, <1>t, <2>2, <2>3 DEF Quiet, BarPcs
<1>5. CASE FeedFails
  BY <1>5, <1>s, <1>t, RaisedEffect, StillMild DEF FeedFails, Raises, Fails, SameCounts, BarPcs
<1>6. CASE FeedSkipsDay
  <2>1. p.pc = "wait" /\ Ends("skip") /\ UNCHANGED <<exchange, disk, launch>>
    BY <1>6 DEF FeedSkipsDay
  <2>2. p.position = 0 \/ p.adopted
    BY <1>6, <1>t DEF FeedSkipsDay, EngineInv
  <2> QED BY <1>s, <2>1, <2>2, EndsEffect DEF Leaves, Still, EntryPcs
<1>7. CASE FeedEnds
  <2>1. p.pc = "wait" /\ UNCHANGED <<exchange, disk, launch>>
    BY <1>7 DEF FeedEnds
  <2>2. CASE p.engine = "in" /\ p.position > 0
    <3>1. p' = [p EXCEPT !.pc = "c_stop", !.ret = "eod", !.engine = "done"] /\ UNCHANGED log
      BY <1>7, <2>2 DEF FeedEnds, Closing
    <3>2. /\ p'.pc = "c_stop" /\ Holds /\ p'.ret = "eod" /\ p'.minute = p.minute
          /\ p'.lastBar = p.lastBar /\ p'.engine = "done"
      BY <1>t, <3>1 DEF Holds, Process
    <3> QED BY <1>s, <2>1, <2>2, <3>1, <3>2 DEF Closes, BarPcs
  <2>3. CASE ~(p.engine = "in" /\ p.position > 0)
    <3>1. Ends("clean")
      BY <1>7, <2>3 DEF FeedEnds
    <3>2. p.position = 0
      BY <1>t, <2>1, <2>3 DEF EngineInv, BarPcs
    <3> QED BY <1>s, <2>1, <3>1, <3>2, EndsEffect DEF Leaves, Still, EntryPcs
  <2> QED BY <2>2, <2>3
<1>8. CASE PollOnTick
  <2>1. p.pc = "wait" /\ p.position > 0 /\ UNCHANGED <<exchange, disk, launch, log>>
    BY <1>8 DEF PollOnTick, Poll, Raises
  <2>2. CASE p' = Raised
    BY <1>s, <1>t, <2>1, <2>2, RaisedEffect, StillMild DEF Fails, SameCounts, BarPcs
  <2>3. CASE p' = [p EXCEPT !.polls = p.polls + 1]
    BY <1>s, <1>t, <2>1, <2>3 DEF Quiet, Holds, BarPcs, Process
  <2>4. CASE p' = [p EXCEPT !.pc = "oco_target", !.ret = "oco_tick"]
    BY <1>s, <1>t, <2>1, <2>4 DEF Closes, Holds, BarPcs, Process
  <2>5. CASE p' = [p EXCEPT !.pc = "oco_stop", !.ret = "oco_tick"]
    BY <1>s, <1>t, <2>1, <2>5 DEF Closes, Holds, BarPcs, Process
  <2> QED BY <1>8, <2>2, <2>3, <2>4, <2>5 DEF PollOnTick, Poll, Polled, Raises
<1>9. CASE PollOnBar
  <2>1. p.pc = "bar" /\ UNCHANGED <<exchange, disk, launch, log>>
    BY <1>9 DEF PollOnBar, Poll, Raises
  <2>p. p.position > 0 /\ p.lastBar
    BY <2>1 DEF TrackInv, EngineInv
  <2>2. CASE p' = Raised
    BY <1>s, <1>t, <2>1, <2>2, RaisedEffect, StillMild DEF Fails, SameCounts, BarPcs
  <2>3. CASE p' = [p EXCEPT !.pc = "engine"]
    BY <1>s, <1>t, <2>1, <2>p, <2>3 DEF Quiet, Holds, BarPcs, Process
  <2>4. CASE p' = [p EXCEPT !.pc = "oco_target", !.ret = "oco_bar"]
    BY <1>s, <1>t, <2>1, <2>p, <2>4 DEF Closes, Holds, BarPcs, Process
  <2>5. CASE p' = [p EXCEPT !.pc = "oco_stop", !.ret = "oco_bar"]
    BY <1>s, <1>t, <2>1, <2>p, <2>5 DEF Closes, Holds, BarPcs, Process
  <2> QED BY <1>9, <2>2, <2>3, <2>4, <2>5 DEF PollOnBar, Poll, Polled, Raises, Goto
<1>10. CASE LossCap
  <2>1. p.pc = "bar" /\ UNCHANGED <<exchange, disk, launch, log>>
    BY <1>10 DEF LossCap
  <2>2. p' = [p EXCEPT !.pc = "c_stop", !.ret = "cap", !.halted = TRUE]
    BY <1>10 DEF LossCap, Closing
  <2>3. p.position > 0 /\ p.lastBar
    BY <2>1 DEF TrackInv, EngineInv
  <2> QED BY <1>s, <1>t, <2>1, <2>2, <2>3 DEF Closes, Holds, BarPcs, Process
<1>11. CASE EngineCloses
  <2>1. p.pc = "engine" /\ p.engine = "in" /\ UNCHANGED <<exchange, disk, launch, log>>
    BY <1>11 DEF EngineCloses
  <2>2. CASE p.position = 0
    <3>1. p' = [p EXCEPT !.pc = "bar_end", !.engine = "done"]
      BY <1>11, <2>2 DEF EngineCloses
    <3> QED BY <1>s, <1>t, <2>1, <2>2, <3>1 DEF Quiet, Holds, BarPcs, Process, EngineInv
  <2>3. CASE p.position # 0
    <3>1. p' = [p EXCEPT !.pc = "c_stop", !.ret = "model", !.engine = "done"]
      BY <1>11, <2>3 DEF EngineCloses, Closing
    <3>2. p.lastBar
      BY <2>1 DEF EngineInv
    <3>3. /\ p'.pc = "c_stop" /\ Holds /\ p'.ret = "model" /\ p'.minute = p.minute
          /\ p'.lastBar = p.lastBar /\ p'.engine = "done"
      BY <1>t, <3>1 DEF Holds, Process
    <3> QED BY <1>s, <1>t, <2>1, <2>3, <3>2, <3>3 DEF Closes, BarPcs
  <2> QED BY <2>2, <2>3
<1> QED BY <1>1, <1>2, <1>3, <1>4, <1>5, <1>6, <1>7, <1>8, <1>9, <1>10, <1>11


-----------------------------------------------------------------------------
(* Each kind of step keeps the invariant                                     *)

\* The bar loop.
LEMMA QuietSafe == ASSUME TypeOK, Safe, TypeOK', Quiet PROVE Safe'
<1> USE DEF Quiet, Still, Holds, BarPcs
<1>t. p.minute \in Int /\ p'.minute \in Int /\ p.position \in Nat
  BY DEF TypeOK, Process
<1>1. BookInv'
  BY DEF Safe, BookInv, Entry, Untouched
<1>2. BracketInv'
  BY DEF Safe, BracketInv
<1>3. FlagInv'
  BY DEF Safe, FlagInv, EntryPcs
<1>4. TrackInv'
  BY DEF Safe, TrackInv, EntryPcs, ClosePcs, CancelPcs
<1>5. EngineInv'
  BY <1>t DEF Safe, EngineInv, EntryPcs
<1>6. EntryInv'
  BY DEF Safe, EntryInv, EntryPcs, Entry, Live
<1>7. LegInv'
  BY DEF Safe, LegInv, Covered, Entry, Status
<1>8. FirstInv'
  BY DEF Safe, FirstInv, Settled, EntryPcs, Entry, Working
<1>9. LogInv'
  BY DEF Safe, LogInv
<1> QED BY <1>1, <1>2, <1>3, <1>4, <1>5, <1>6, <1>7, <1>8, <1>9 DEF Safe

\* The start of a close.
LEMMA ClosesSafe == ASSUME TypeOK, Safe, TypeOK', Closes PROVE Safe'
<1> USE DEF Closes, Still, Holds, BarPcs
<1>t. p.position \in Nat
  BY DEF TypeOK, Process
<1>1. BookInv'
  BY <1>t DEF Safe, BookInv, EngineInv, Entry, Untouched
<1>2. BracketInv'
  BY DEF Safe, BracketInv
<1>3. FlagInv'
  BY DEF Safe, FlagInv, EntryPcs
<1>4. TrackInv'
  BY DEF Safe, TrackInv, EntryPcs, ClosePcs, CancelPcs
<1>5. EngineInv'
  BY <1>t DEF Safe, EngineInv, EntryPcs
<1>6. EntryInv'
  BY DEF Safe, EntryInv, EntryPcs, Entry, Live
<1>7. LegInv'
  BY DEF Safe, LegInv, Covered, Entry, Status
<1>8. FirstInv'
  BY <1>t DEF Safe, FirstInv, Settled, EntryPcs, Entry, Working
<1>9. LogInv'
  BY DEF Safe, LogInv
<1> QED BY <1>1, <1>2, <1>3, <1>4, <1>5, <1>6, <1>7, <1>8, <1>9 DEF Safe

\* A failed call outside place_bracket.
LEMMA FailsSafe == ASSUME TypeOK, Safe, TypeOK', Fails PROVE Safe'
<1> USE DEF Fails, Thrown, SameCounts, BarPcs, ClosePcs, CancelPcs
<1>m. /\ \A n \in Launches : Entry(n)' = Entry(n) /\ (Untouched(n) => Untouched(n)')
      /\ \A n \in Launches, leg \in Legs :
            /\ orders'[n][leg].status \in {orders[n][leg].status, "cancelled"}
            /\ orders'[n][leg].status = "none" <=> orders[n][leg].status = "none"
            /\ orders'[n][leg].qty = orders[n][leg].qty
      /\ Working' \subseteq Working
      /\ launch' = launch /\ TakenToday' = TakenToday /\ pos' \in {pos, 0}
  BY MildEffect DEF Mild
<1>t. p.position \in Nat /\ p.stop \in {0} \union Launches
  <2>1. p.stop \in 0..MaxLaunches /\ p.position \in Nat
    BY Fields DEF TypeOK
  <2> QED BY <2>1 DEF Launches
<1>l. launch = 1 => 1 \in Launches
  BY DEF TypeOK, Launches
<1>1. BookInv'
  BY <1>m, <1>t DEF Safe, BookInv, EngineInv
<1>2. BracketInv'
  BY <1>m DEF Safe, BracketInv
<1>3. FlagInv'
  BY <1>m DEF Safe, FlagInv, EntryPcs
<1>4. TrackInv'
  BY <1>m DEF Safe, TrackInv, EntryPcs
<1>5. EngineInv'
  BY <1>t DEF Safe, EngineInv, EntryPcs
<1>6. EntryInv'
  BY <1>m DEF Safe, EntryInv, EntryPcs, Live, Legs
<1>7. LegInv'
  <2> SUFFICES ASSUME ~log.lostEntry, ~log.partial PROVE Covered'
    BY DEF LegInv
  <2>0. pos \in Int /\ \A n \in Launches : Entry(n).filled \in Nat
    BY OrderFields, RoleNames DEF TypeOK, Book, Entry
  <2>1. Covered
    BY DEF Safe, LegInv
  <2>2. p.stop # 0 => Status("stop", p.stop)' \in {Status("stop", p.stop), "cancelled"}
                      /\ (Status("stop", p.stop)' = "none" <=> Status("stop", p.stop) = "none")
    BY <1>m, <1>t DEF Status, Legs
  <2>3. Covered!1'
    BY <1>m, <1>t, <2>1, <2>2 DEF Covered, Legs, BarPcs
  <2>4. Covered!2'
    BY <1>m, <1>t, <2>1, <2>2 DEF Covered, Legs, BarPcs
  <2>5. Covered!3'
    BY <1>m, <1>t, <2>0, <2>1, <2>2 DEF Covered, Legs, BarPcs
  <2>6. Covered!4'
    BY <1>m, <1>t, <2>1, <2>2 DEF Covered, Legs, BarPcs
  <2>7. Covered!5'
    BY <1>m, <1>t, <2>1, <2>2 DEF Covered, Legs, BarPcs
  <2>8. Covered!6'
    BY <1>m, <1>t, <2>1, <2>2 DEF Covered, Legs, BarPcs
  <2>9. Covered!7'
    BY <1>m, <1>t, <2>1, <2>2 DEF Covered, Legs, BarPcs
  <2> QED BY <2>3, <2>4, <2>5, <2>6, <2>7, <2>8, <2>9 DEF Covered
<1>8. FirstInv'
  BY <1>m, <1>t, <1>l DEF Safe, FirstInv, Settled, EntryPcs
<1>9. LogInv'
  BY <1>m DEF Safe, LogInv
<1> QED BY <1>1, <1>2, <1>3, <1>4, <1>5, <1>6, <1>7, <1>8, <1>9 DEF Safe

\* An end of the process.
LEMMA LeavesSafe == ASSUME TypeOK, Safe, TypeOK', Leaves PROVE Safe'
<1> USE DEF Leaves, Gone, SameCounts
<1>t. p.position \in Nat
  BY DEF TypeOK, Process
<1>1. BookInv'
  BY DEF Safe, BookInv, Entry, Untouched
<1>2. BracketInv'
  BY DEF Safe, BracketInv
<1>3. FlagInv'
  BY DEF Safe, FlagInv, EntryPcs
<1>4. TrackInv'
  BY DEF Safe, TrackInv, EntryPcs, ClosePcs, CancelPcs
<1>5. EngineInv'
  BY DEF Safe, EngineInv, EntryPcs, BarPcs
<1>6. EntryInv'
  BY DEF Safe, EntryInv, EntryPcs, Entry, Live
<1>7. LegInv'
  BY DEF Safe, LegInv, Covered, Entry, Status, BarPcs
<1>8. FirstInv'
  BY <1>t DEF Safe, FirstInv, Settled, EntryPcs, Entry, Working
<1>9. LogInv'
  BY DEF Safe, LogInv
<1> QED BY <1>1, <1>2, <1>3, <1>4, <1>5, <1>6, <1>7, <1>8, <1>9 DEF Safe

\* A step of a close.
LEMMA AdvancesSafe == ASSUME TypeOK, Safe, TypeOK', Advances PROVE Safe'
<1> USE DEF Advances, Holds, SameCounts, ClosePcs, CancelPcs
<1>m. /\ \A n \in Launches : Entry(n)' = Entry(n) /\ (Untouched(n) => Untouched(n)')
      /\ \A n \in Launches, leg \in Legs :
            /\ orders'[n][leg].status \in {orders[n][leg].status, "cancelled"}
            /\ orders'[n][leg].status = "none" <=> orders[n][leg].status = "none"
            /\ orders'[n][leg].qty = orders[n][leg].qty
      /\ Working' \subseteq Working
      /\ launch' = launch /\ TakenToday' = TakenToday /\ pos' \in {pos, 0}
  BY MildEffect DEF Mild
<1>t. p.position \in Nat /\ p.stop \in {0} \union Launches
  <2>1. p.stop \in 0..MaxLaunches /\ p.position \in Nat
    BY Fields DEF TypeOK
  <2> QED BY <2>1 DEF Launches
<1>l. launch = 1 => 1 \in Launches
  BY DEF TypeOK, Launches
<1>1. BookInv'
  BY <1>m, <1>t DEF Safe, BookInv, EngineInv
<1>2. BracketInv'
  BY <1>m DEF Safe, BracketInv
<1>3. FlagInv'
  BY <1>m DEF Safe, FlagInv, EntryPcs
<1>4. TrackInv'
  BY <1>m DEF Safe, TrackInv, EntryPcs, Status
<1>5. EngineInv'
  BY <1>t DEF Safe, EngineInv, EntryPcs, BarPcs
<1>6. EntryInv'
  BY <1>m DEF Safe, EntryInv, EntryPcs, Live, Legs
<1>7. LegInv'
  <2> SUFFICES ASSUME ~log.lostEntry, ~log.partial PROVE Covered'
    BY DEF LegInv
  <2>0. pos \in Int /\ \A n \in Launches : Entry(n).filled \in Nat
    BY OrderFields, RoleNames DEF TypeOK, Book, Entry
  <2>1. Covered
    BY DEF Safe, LegInv
  <2>2. p.stop # 0 => Status("stop", p.stop)' \in {Status("stop", p.stop), "cancelled"}
                      /\ (Status("stop", p.stop)' = "none" <=> Status("stop", p.stop) = "none")
    BY <1>m, <1>t DEF Status, Legs
  <2>3. Covered!1'
    BY <1>m, <1>t, <2>1, <2>2 DEF Covered, Legs, BarPcs
  <2>4. Covered!2'
    BY <1>m, <1>t, <2>1, <2>2 DEF Covered, Legs, BarPcs
  <2>5. Covered!3'
    BY <1>m, <1>t, <2>0, <2>1, <2>2 DEF Covered, Legs, BarPcs
  <2>6. Covered!4'
    BY <1>m, <1>t, <2>1, <2>2 DEF Covered, Legs, BarPcs
  <2>7. Covered!5'
    BY <1>m, <1>t, <2>1, <2>2 DEF Covered, Legs, BarPcs
  <2>8. Covered!6'
    BY <1>m, <1>t, <2>1, <2>2 DEF Covered, Legs, BarPcs
  <2>9. Covered!7'
    BY <1>m, <1>t, <2>1, <2>2 DEF Covered, Legs, BarPcs
  <2> QED BY <2>3, <2>4, <2>5, <2>6, <2>7, <2>8, <2>9 DEF Covered
<1>8. FirstInv'
  BY <1>m, <1>t, <1>l DEF Safe, FirstInv, Settled, EntryPcs
<1>9. LogInv'
  BY <1>m DEF Safe, LogInv
<1> QED BY <1>1, <1>2, <1>3, <1>4, <1>5, <1>6, <1>7, <1>8, <1>9 DEF Safe

-----------------------------------------------------------------------------
(* _safe_cancel, close_position and what calls them                          *)

\* A tracked leg may have been cancelled.
LEMMA TrackedStatus ==
    ASSUME TypeOK, Mild, p'.stop = p.stop, p'.target = p.target
    PROVE  /\ Status("stop", p.stop)' \in {Status("stop", p.stop), "cancelled"}
           /\ Status("target", p.target)' \in {Status("target", p.target), "cancelled"}
<1>1. p.stop \in {0} \union Launches /\ p.target \in {0} \union Launches
  <2>1. p.stop \in 0..MaxLaunches /\ p.target \in 0..MaxLaunches
    BY Fields DEF TypeOK
  <2> QED BY <2>1 DEF Launches
<1> QED BY <1>1, MildEffect, RoleNames DEF Status

\* A cancel that succeeded moves on to the next step of the close.
LEMMA CancelledEffect ==
    ASSUME p \in Process, p.pc \in CancelPcs, p' = Cancelled
    PROVE  /\ Holds /\ p'.ret = p.ret /\ p'.minute = p.minute /\ p'.lastBar = p.lastBar
           /\ p'.engine = p.engine
           /\ p'.pc \in {"c_stop", "c_target", "c_positions"}
           /\ p'.pc = "c_target" => p.pc = "c_stop"
           /\ p'.pc = "c_positions" => p.pc = "c_target"
<1>1. p'.pc = AfterCancel(p.pc) /\ Holds /\ p'.ret = p.ret /\ p'.minute = p.minute
      /\ p'.lastBar = p.lastBar /\ p'.engine = p.engine
  BY DEF Cancelled, Holds, Process
<1> QED BY <1>1 DEF AfterCancel, CancelPcs

\* A cancel of a tracked leg that works.
LEMMA CancelMild ==
    ASSUME TypeOK, UNCHANGED <<pos, disk, launch>>,
           \/ UNCHANGED orders
           \/ Status(LegAt(p.pc), TrackedLeg) = "open"
              /\ orders' = [orders EXCEPT ![TrackedLeg][LegAt(p.pc)].status = "cancelled"]
    PROVE  Mild
<1>t. orders \in Book /\ p.stop \in 0..MaxLaunches /\ p.target \in 0..MaxLaunches
  BY Fields DEF TypeOK, Book
<1>1. CASE UNCHANGED orders
  BY <1>1, StillMild DEF Still, TakenToday
<1>2. CASE Status(LegAt(p.pc), TrackedLeg) = "open"
           /\ orders' = [orders EXCEPT ![TrackedLeg][LegAt(p.pc)].status = "cancelled"]
  <2>1. TrackedLeg \in Launches /\ LegAt(p.pc) \in Roles /\ LegAt(p.pc) # "entry"
        /\ orders[TrackedLeg][LegAt(p.pc)].status = "open"
    BY <1>t, <1>2 DEF Status, TrackedLeg, LegAt, Launches, Roles, Legs
  <2> DEFINE n == TrackedLeg
             r == LegAt(p.pc)
  <2>2. /\ Only(n, r) /\ orders'[n][r].status = "cancelled"
        /\ orders'[n][r].qty = orders[n][r].qty /\ orders'[n][r].filled = orders[n][r].filled
    BY <1>t, <1>2, <2>1, StatusEffect
  <2> HIDE DEF n, r
  <2> QED BY <2>1, <2>2 DEF Only, Mild, TakenToday, n, r
<1> QED BY <1>1, <1>2

\* A cancel and its status query go on with the close, or raise.
LEMMA CancelEffect ==
    ASSUME TypeOK, TrackInv, Cancel \/ CheckStatus
    PROVE  Advances \/ Fails
<1>t. p \in Process /\ log \in LogType
  BY DEF TypeOK, LogType
<1>p. /\ p.pc \in CancelPcs /\ p.pc \in ClosePcs /\ p.position > 0 /\ p.ret # "none"
      /\ p.pc \notin {"c_positions", "c_close", "c_price"}
  BY DEF Cancel, CheckStatus, TrackInv, ClosePcs, CancelPcs
<1>m. Mild
  <2>1. CASE Cancel
    BY <2>1, CancelMild DEF Cancel
  <2>2. CASE CheckStatus
    BY <2>2, StillMild DEF CheckStatus, exchange, Still, TakenToday
  <2> QED BY <2>1, <2>2
<1>l. SameCounts /\ log'.outcome = log.outcome /\ log.alarms \subseteq log'.alarms
  <2>1. log' = log \/ log' = [log EXCEPT !.alarms = @ \union {"NakedOrder"}]
    BY DEF Cancel, CheckStatus, Raises
  <2> QED BY <1>t, <2>1 DEF SameCounts, LogType
<1>1. CASE p' = Raised
  BY <1>1, <1>t, <1>p, <1>m, <1>l, RaisedEffect DEF Fails
<1>2. ASSUME p' = [p EXCEPT !.checking = TRUE] \/ p' = [p EXCEPT !.checking = FALSE, !.tries = p.tries + 1]
      PROVE  Advances
  <2>1. Holds /\ p'.pc = p.pc /\ p'.ret = p.ret /\ p'.minute = p.minute
        /\ p'.lastBar = p.lastBar /\ p'.engine = p.engine
    BY <1>2, <1>t DEF Holds, Process
  <2>2. Status("stop", p.stop)' \in {Status("stop", p.stop), "cancelled"}
    BY <1>m, <2>1, TrackedStatus DEF Holds
  <2> QED BY <1>p, <1>m, <1>l, <2>1, <2>2 DEF Advances, TrackInv, ClosePcs
<1>3. ASSUME p' = Cancelled,
             p.pc = "c_stop" => Status("stop", p.stop)' # "open",
             p.pc = "c_target" => Status("target", p.target)' # "open"
      PROVE  Advances
  <2>1. /\ Holds /\ p'.ret = p.ret /\ p'.minute = p.minute /\ p'.lastBar = p.lastBar
        /\ p'.engine = p.engine
        /\ p'.pc \in {"c_stop", "c_target", "c_positions"}
        /\ p'.pc = "c_target" => p.pc = "c_stop"
        /\ p'.pc = "c_positions" => p.pc = "c_target"
    BY <1>3, <1>t, <1>p, CancelledEffect
  <2>2. Status("stop", p.stop)' \in {Status("stop", p.stop), "cancelled"}
    BY <1>m, <2>1, TrackedStatus DEF Holds
  <2> QED BY <1>3, <1>p, <1>m, <1>l, <2>1, <2>2 DEF Advances, TrackInv, ClosePcs, CancelPcs
<1>n. p' = Cancelled => p'.stop = p.stop /\ p'.target = p.target
  BY <1>t, <1>p, CancelledEffect DEF Holds
<1>4. ASSUME CheckStatus, Status(LegAt(p.pc), TrackedLeg) \in Terminal, p' = Cancelled
      PROVE  Advances
  <2>1. UNCHANGED orders
    BY <1>4 DEF CheckStatus, exchange
  <2> QED BY <1>3, <1>4, <1>n, <2>1 DEF LegAt, TrackedLeg, Status, Terminal
<1>5. ASSUME TrackedLeg = 0, UNCHANGED orders, p' = Cancelled
      PROVE  Advances
  BY <1>3, <1>5, <1>n DEF LegAt, TrackedLeg, Status
<1>6. ASSUME p' = Cancelled, Status(LegAt(p.pc), TrackedLeg) = "open",
             orders' = [orders EXCEPT ![TrackedLeg][LegAt(p.pc)].status = "cancelled"]
      PROVE  Advances
  <2>1. p.stop \in 0..MaxLaunches /\ p.target \in 0..MaxLaunches /\ orders \in Book
    BY <1>t, Fields DEF TypeOK, Book
  <2>2. TrackedLeg \in Launches /\ LegAt(p.pc) \in Roles
    BY <1>6, <2>1 DEF Status, TrackedLeg, LegAt, Launches, Roles, Legs
  <2>3. orders'[TrackedLeg][LegAt(p.pc)].status = "cancelled" /\ TrackedLeg # 0
    BY <1>6, <2>1, <2>2, StatusEffect DEF Status
  <2> QED BY <1>3, <1>6, <1>n, <2>3 DEF LegAt, TrackedLeg, Status
<1> QED BY <1>1, <1>2, <1>4, <1>5, <1>6 DEF Cancel, CheckStatus, Raises

\* The other steps of a close, and the handlers that start one.
LEMMA CloseEffect ==
    ASSUME TypeOK, TrackInv, EngineInv, LegInv,
           CheckFlat \/ CloseContract \/ Flatten \/ CooperativeStop \/ HandleError
    PROVE  Advances \/ Fails \/ Leaves
<1>t. p \in Process /\ log \in LogType /\ p.position \in Nat
  BY Fields DEF TypeOK, LogType
<1>1. CASE CheckFlat
  <2>1. p.pc = "c_positions" /\ p.position > 0 /\ p.ret # "none" /\ UNCHANGED <<exchange, disk, launch, log>>
    BY <1>1 DEF CheckFlat, TrackInv, ClosePcs, Raises
  <2>2. CASE p' = Raised
    BY <1>t, <2>1, <2>2, RaisedEffect, StillMild DEF Fails, Still, SameCounts, exchange, TakenToday, ClosePcs
  <2>3. CASE p' = [p EXCEPT !.pc = IF pos = 0 THEN "c_price" ELSE "c_close"]
    <3>1. /\ Holds /\ p'.ret = p.ret /\ p'.minute = p.minute /\ p'.lastBar = p.lastBar
          /\ p'.engine = p.engine
          /\ p'.pc \in {"c_price", "c_close"} /\ (p'.pc = "c_price" => pos = 0)
      BY <1>t, <2>3 DEF Holds, Process
    <3>2. Mild
      BY <2>1, StillMild DEF Still, exchange, TakenToday
    <3>3. Status("stop", p.stop)' # "open" /\ Status("target", p.target)' # "open"
      BY <2>1, <3>1 DEF TrackInv, Holds, Status, exchange
    <3> QED BY <2>1, <3>1, <3>2, <3>3 DEF Advances, SameCounts, ClosePcs, exchange
  <2> QED BY <1>1, <2>2, <2>3 DEF CheckFlat, Raises, Goto
<1>2. CASE CloseContract
  <2>1. p.pc = "c_close" /\ p.position > 0 /\ p.ret # "none" /\ UNCHANGED <<orders, disk, launch, log>>
        /\ pos' \in {0, pos}
    BY <1>2 DEF CloseContract, TrackInv, ClosePcs, Raises
  <2>m. Mild
    BY <2>1 DEF Mild, TakenToday
  <2>2. CASE p' = Raised
    BY <1>t, <2>1, <2>m, <2>2, RaisedEffect DEF Fails, SameCounts, ClosePcs
  <2>3. CASE pos' = 0 /\ p' = [p EXCEPT !.pc = "c_price"]
    <3>1. /\ Holds /\ p'.ret = p.ret /\ p'.minute = p.minute /\ p'.lastBar = p.lastBar
          /\ p'.engine = p.engine /\ p'.pc = "c_price"
      BY <1>t, <2>3 DEF Holds, Process
    <3>2. Status("stop", p.stop)' # "open" /\ Status("target", p.target)' # "open"
      BY <2>1, <3>1 DEF TrackInv, Holds, Status
    <3> QED BY <2>1, <2>3, <2>m, <3>1, <3>2 DEF Advances, SameCounts, ClosePcs
  <2> QED BY <1>2, <2>2, <2>3 DEF CloseContract, Raises, Goto
<1>3. CASE Flatten
  <2>1. p.pc = "flatten" /\ p.position > 0 /\ p.ret # "none" /\ UNCHANGED <<exchange, disk, launch, log>>
        /\ p' = [p EXCEPT !.pc = "c_stop"]
    BY <1>3 DEF Flatten, TrackInv, ClosePcs, Goto
  <2>2. /\ Holds /\ p'.ret = p.ret /\ p'.minute = p.minute /\ p'.lastBar = p.lastBar
        /\ p'.engine = p.engine /\ p'.pc = "c_stop"
    BY <1>t, <2>1 DEF Holds, Process
  <2> QED BY <2>1, <2>2, StillMild DEF Advances, Still, SameCounts, exchange, TakenToday, ClosePcs, CancelPcs
<1>4. CASE CooperativeStop \/ HandleError
  <2>1. p.pc \in {"coop", "handler"} /\ UNCHANGED <<exchange, disk, launch>>
    BY <1>4 DEF CooperativeStop, HandleError
  <2>2. ASSUME NEW why \in {"coop", "error"}, p.position > 0,
               p' = [p EXCEPT !.pc = "flatten", !.ret = why, !.attempt = 0], UNCHANGED log
        PROVE  Advances
    <3>1. /\ Holds /\ p'.ret = why /\ p'.minute = p.minute /\ p'.lastBar = p.lastBar
          /\ p'.engine = p.engine /\ p'.pc = "flatten"
      BY <1>t, <2>2 DEF Holds, Process
    <3> QED BY <2>1, <2>2, <3>1, StillMild DEF Advances, Still, SameCounts, exchange, TakenToday, ClosePcs, CancelPcs
  <2>3. ASSUME NEW o \in {"coop", "errored_flat"}, Ends(o), p.position = 0 \/ ~p.lastBar
        PROVE  Leaves
    <3>1. p.position = 0 \/ p.adopted
      BY <2>3, <1>t DEF EngineInv
    <3> QED BY <2>1, <2>3, <3>1, EndsEffect DEF Leaves, exchange, TakenToday, EntryPcs
  <2> QED BY <1>4, <1>t, <2>2, <2>3 DEF CooperativeStop, HandleError
<1> QED BY <1>1, <1>2, <1>3, <1>4

-----------------------------------------------------------------------------
(* The other steps of the process                                            *)

\* The opening range completes; the entry, or the day without contracts, is next.
LEMMA OpensSafe ==
    ASSUME TypeOK, Safe, TypeOK', OpeningRange
    PROVE  Safe'
<1>t. p \in Process /\ p.position \in Nat /\ p.minute \in Int
  BY Fields DEF TypeOK
<1>e. /\ p.pc = "engine" /\ p.engine = "or" /\ p.minute >= OrMinutes /\ p.position = 0 /\ p.lastBar
      /\ Still /\ UNCHANGED log
  BY <1>t DEF OpeningRange, Still, exchange, TakenToday, Safe, EngineInv, BarPcs
<1>q. ASSUME NEW e \in {"in", "done"}, p' = [p EXCEPT !.pc = "bar_end", !.engine = e]
      PROVE  Safe'
  <2>1. /\ Holds /\ p'.ret = p.ret /\ p'.minute = p.minute /\ p'.lastBar = p.lastBar
        /\ p'.engine # "or" /\ p'.pc = "bar_end"
    BY <1>q, <1>t DEF Holds, Process
  <2>2. Quiet
    BY <1>e, <1>t, <2>1 DEF Quiet, BarPcs
  <2> QED BY <2>2, QuietSafe
<1>s. SUFFICES ASSUME ~p.taken,
                      \/ p' = [p EXCEPT !.pc = "z_save", !.engine = "in", !.taken = TRUE]
                      \/ p' = [p EXCEPT !.pc = "e_send", !.engine = "in"]
               PROVE  Safe'
  BY <1>q DEF OpeningRange
<1>f. /\ p'.pc \in {"z_save", "e_send"} /\ (p'.taken <=> p'.pc = "z_save") /\ p'.engine = "in"
      /\ p'.position = 0 /\ p'.stop = p.stop /\ p'.target = p.target /\ p'.adopted = p.adopted
      /\ p'.minute = p.minute /\ p'.lastBar /\ p'.ret = p.ret
      /\ UNCHANGED <<pos, orders, launch, log>> /\ TakenToday' = TakenToday
  <2>1. CASE p' = [p EXCEPT !.pc = "z_save", !.engine = "in", !.taken = TRUE]
    BY <1>e, <1>t, <2>1 DEF Process, Still
  <2>2. CASE p' = [p EXCEPT !.pc = "e_send", !.engine = "in"]
    BY <1>s, <1>e, <1>t, <2>2 DEF Process, Still
  <2> QED BY <1>s, <2>1, <2>2
<1>u. launch = 1 => Entry(1).filled = 0
  BY <1>e DEF Safe, BookInv, Untouched, Entry, NoOrder, Launches, Roles
<1>1. BookInv'
  BY <1>s, <1>e, <1>f, <1>t DEF Safe, BookInv, Entry, Untouched
<1>2. BracketInv'
  BY <1>s, <1>e, <1>f, <1>t DEF Safe, BracketInv, Entry
<1>3. FlagInv'
  BY <1>s, <1>e, <1>f, <1>t DEF Safe, FlagInv, EntryPcs
<1>4. TrackInv'
  BY <1>s, <1>e, <1>f, <1>t DEF Safe, TrackInv, EntryPcs, ClosePcs, CancelPcs, Status
<1>5. EngineInv'
  BY <1>s, <1>e, <1>f, <1>t DEF Safe, EngineInv, EntryPcs, BarPcs
<1>6. EntryInv'
  BY <1>s, <1>e, <1>f, <1>t DEF Safe, EntryInv, EntryPcs, Entry, Live
<1>7. LegInv'
  BY <1>s, <1>e, <1>f, <1>t DEF Safe, LegInv, Covered, Entry, Status, BarPcs
<1>8. FirstInv'
  BY <1>s, <1>e, <1>f, <1>t, <1>u DEF Safe, FirstInv, Settled, EntryPcs, Entry, Working
<1>9. LogInv'
  BY <1>s, <1>e, <1>f, <1>t DEF Safe, LogInv
<1> QED BY <1>1, <1>2, <1>3, <1>4, <1>5, <1>6, <1>7, <1>8, <1>9 DEF Safe

\* Startup reads what state.json says of the day.
LEMMA StartupSafe == ASSUME TypeOK, Safe, TypeOK', Startup PROVE Safe'
<1>t. p \in Process /\ p.position = 0 /\ disk \in DiskType
  BY DEF TypeOK, Safe, TrackInv, Startup, DiskType
<1>a. CASE Ends("aborted") /\ UNCHANGED disk
  <2>1. Leaves
    BY <1>a, <1>t, EndsEffect DEF Leaves, Startup, exchange, TakenToday, EntryPcs
  <2> QED BY <2>1, LeavesSafe
<1>s. SUFFICES ASSUME p' = [p EXCEPT !.pc = "reconcile", !.taken = TakenToday],
                      disk' = Saved(TakenToday), UNCHANGED log
               PROVE  Safe'
  BY <1>a DEF Startup
<1>f. /\ p.pc = "startup" /\ p'.pc = "reconcile" /\ p'.taken = TakenToday /\ p'.engine = p.engine
      /\ p'.position = 0 /\ p'.stop = p.stop /\ p'.target = p.target /\ p'.adopted = p.adopted
      /\ p'.minute = p.minute /\ p'.lastBar = p.lastBar /\ p'.ret = p.ret
      /\ UNCHANGED <<pos, orders, launch, log>> /\ TakenToday' = TakenToday
  BY <1>s, <1>t DEF Startup, Process, Saved, TakenToday, exchange, DiskType
<1>1. BookInv'
  BY <1>f, <1>t DEF Safe, BookInv, Entry, Untouched
<1>2. BracketInv'
  BY <1>f, <1>t DEF Safe, BracketInv, Entry
<1>3. FlagInv'
  BY <1>f, <1>t DEF Safe, FlagInv, EntryPcs
<1>4. TrackInv'
  BY <1>f, <1>t DEF Safe, TrackInv, EntryPcs, ClosePcs, CancelPcs, Status
<1>5. EngineInv'
  BY <1>f, <1>t DEF Safe, EngineInv, EntryPcs, BarPcs
<1>6. EntryInv'
  BY <1>f, <1>t DEF Safe, EntryInv, EntryPcs, Entry, Live
<1>7. LegInv'
  BY <1>f, <1>t DEF Safe, LegInv, Covered, Entry, Status, BarPcs
<1>8. FirstInv'
  BY <1>f, <1>t DEF Safe, FirstInv, Settled, EntryPcs, Entry, Working
<1>9. LogInv'
  BY <1>f, <1>t DEF Safe, LogInv
<1> QED BY <1>1, <1>2, <1>3, <1>4, <1>5, <1>6, <1>7, <1>8, <1>9 DEF Safe

\* reconcile() finds the account flat, or contracts to adopt.
LEMMA ReconcileSafe == ASSUME TypeOK, Safe, TypeOK', Reconcile PROVE Safe'
<1>t. p \in Process /\ p.position = 0 /\ pos \in Int /\ p.pc = "reconcile"
  BY DEF TypeOK, Safe, TrackInv, Reconcile
<1>a. CASE Ends("aborted")
  <2>1. Leaves
    BY <1>a, <1>t, EndsEffect DEF Leaves, Reconcile, exchange, TakenToday, EntryPcs
  <2> QED BY <2>1, LeavesSafe
<1>s. SUFFICES ASSUME \/ pos = 0 /\ p' = [p EXCEPT !.pc = "wait", !.engine = IF p.taken THEN "done" ELSE "or"]
                      \/ pos # 0 /\ p' = [p EXCEPT !.pc = "adopt", !.seen = IF pos > 0 THEN pos ELSE -pos],
                      UNCHANGED log
               PROVE  Safe'
  BY <1>a DEF Reconcile
<1>f. /\ p'.taken = p.taken /\ p'.position = 0 /\ p'.stop = p.stop /\ p'.target = p.target
      /\ p'.adopted = p.adopted /\ p'.minute = p.minute /\ p'.lastBar = p.lastBar /\ p'.ret = p.ret
      /\ p'.pc \in {"wait", "adopt"} /\ (p'.pc = "adopt" => p'.seen > 0 /\ pos # 0)
      /\ UNCHANGED <<pos, orders, launch, log>> /\ TakenToday' = TakenToday
  <2>1. CASE p' = [p EXCEPT !.pc = "wait", !.engine = IF p.taken THEN "done" ELSE "or"]
    BY <1>s, <1>t, <2>1 DEF Reconcile, Process, TakenToday, exchange
  <2>2. CASE pos # 0 /\ p' = [p EXCEPT !.pc = "adopt", !.seen = IF pos > 0 THEN pos ELSE -pos]
    <3>1. (IF pos > 0 THEN pos ELSE -pos) > 0
      BY <1>t, <2>2
    <3> QED BY <1>s, <1>t, <2>2, <3>1 DEF Reconcile, Process, TakenToday, exchange
  <2> QED BY <1>s, <2>1, <2>2
<1>u. launch = 1 /\ ~log.lostEntry => pos = 0
  <2>1. \A n \in Launches : launch = 1 => n = launch \/ n > launch
    BY DEF Launches
  <2>2. \A n \in Launches : launch = 1 => Entry(n).filled = 0
    BY <1>t, <2>1 DEF Safe, BookInv, Untouched, Entry, NoOrder, Roles
  <2> QED BY <2>2 DEF Safe, EntryInv
<1>1. BookInv'
  BY <1>f, <1>t DEF Safe, BookInv, Entry, Untouched
<1>2. BracketInv'
  BY <1>f, <1>t DEF Safe, BracketInv, Entry
<1>3. FlagInv'
  BY <1>f, <1>t DEF Safe, FlagInv, EntryPcs
<1>4. TrackInv'
  BY <1>f, <1>t DEF Safe, TrackInv, EntryPcs, ClosePcs, CancelPcs, Status
<1>5. EngineInv'
  BY <1>f, <1>t DEF Safe, EngineInv, EntryPcs, BarPcs
<1>6. EntryInv'
  BY <1>f, <1>t DEF Safe, EntryInv, EntryPcs, Entry, Live
<1>7. LegInv'
  BY <1>f, <1>t DEF Safe, LegInv, Covered, Entry, Status, BarPcs
<1>8. FirstInv'
  BY <1>f, <1>t, <1>u DEF Safe, FirstInv, Settled, EntryPcs, Entry, Working
<1>9. LogInv'
  BY <1>f, <1>t DEF Safe, LogInv
<1> QED BY <1>1, <1>2, <1>3, <1>4, <1>5, <1>6, <1>7, <1>8, <1>9 DEF Safe

\* reconcile() adopts the open position and the legs that rest.
LEMMA AdoptSafe == ASSUME TypeOK, Safe, TypeOK', Adopt PROVE Safe'
<1>t. p \in Process /\ p.position = 0 /\ pos \in Int /\ p.pc = "adopt" /\ p.seen > 0 /\ p.ret = "none"
  BY DEF TypeOK, Safe, TrackInv, BracketInv, Adopt, ClosePcs, CancelPcs
<1>a. CASE Ends("aborted")
  <2>1. UNCHANGED <<exchange, disk, launch>>
    BY DEF Adopt
  <2>2. Gone /\ SameCounts /\ log'.outcome = "aborted"
    BY <1>a, EndsEffect
  <2>3. Leaves
    BY <1>t, <2>1, <2>2 DEF Leaves, exchange, TakenToday, EntryPcs
  <2> QED BY <2>3, LeavesSafe
<1>s. SUFFICES ASSUME NEW s \in Resting("stop"), NEW t \in Resting("target"), UNCHANGED log,
                      p' = [p EXCEPT !.pc = "adopt_save", !.position = p.seen, !.seen = 0,
                               !.stop = s, !.target = t, !.engine = "in",
                               !.taken = TRUE, !.adopted = TRUE]
               PROVE  Safe'
  BY <1>a DEF Adopt
<1>f. /\ p'.pc = "adopt_save" /\ p'.position > 0 /\ p'.stop = s /\ p'.target = t /\ p'.engine = "in"
      /\ p'.taken /\ p'.adopted /\ p'.ret = "none" /\ p'.minute = p.minute /\ p'.lastBar = p.lastBar
      /\ UNCHANGED <<pos, orders, launch, log>> /\ TakenToday' = TakenToday
  BY <1>s, <1>t DEF Adopt, Process, TakenToday, exchange
<1>r. /\ \A n \in Launches : orders[n]["stop"].status = "open" => s # 0 /\ orders[s]["stop"].status = "open"
      /\ \A n \in Launches : orders[n]["target"].status = "open" => t # 0 /\ orders[t]["target"].status = "open"
      /\ s # 0 => orders[s]["stop"].status = "open"
      /\ s \in {0} \union Launches /\ t \in {0} \union Launches
  BY DEF Resting, Launches
<1>1. BookInv'
  BY <1>f, <1>t DEF Safe, BookInv, Entry, Untouched
<1>2. BracketInv'
  BY <1>f, <1>t DEF Safe, BracketInv, Entry
<1>3. FlagInv'
  BY <1>f, <1>t DEF Safe, FlagInv, EntryPcs
<1>4. TrackInv'
  BY <1>f, <1>t DEF Safe, TrackInv, EntryPcs, ClosePcs, CancelPcs, Status
<1>5. EngineInv'
  BY <1>f, <1>t DEF Safe, EngineInv, EntryPcs, BarPcs
<1>6. EntryInv'
  <2> SUFFICES ASSUME ~log.lostEntry PROVE EntryInv!2'
    BY <1>f DEF EntryInv
  <2>1. EntryInv!2
    BY DEF Safe, EntryInv
  <2>2. ASSUME NEW n \in Launches
        PROVE  /\ orders[n]["stop"].status = "open" => s = n
               /\ orders[n]["target"].status = "open" => t = n
    BY <1>r, <2>1, RoleNames DEF Live, Launches
  <2> QED BY <1>f, <1>t, <2>1, <2>2 DEF EntryPcs, Entry, Live
<1>7. LegInv'
  BY <1>f, <1>t, <1>r DEF Safe, LegInv, Covered, Entry, Status, BarPcs
<1>8. FirstInv'
  BY <1>f, <1>t DEF Safe, FirstInv, Settled, EntryPcs, Entry, Working
<1>9. LogInv'
  BY <1>f, <1>t DEF Safe, LogInv
<1> QED BY <1>1, <1>2, <1>3, <1>4, <1>5, <1>6, <1>7, <1>8, <1>9 DEF Safe

\* A save that goes on, or ends the session, with state.json true to the process.
LEMMA SaveSafe == ASSUME TypeOK, Safe, TypeOK', Save PROVE Safe'
<1>t. p \in Process /\ p.position \in Nat /\ p.taken \in BOOLEAN /\ disk \in DiskType
  BY Fields DEF TypeOK, DiskType
<1>d. /\ p.pc \in {"adopt_save", "z_save", "e_save", "c_save"} /\ UNCHANGED <<pos, orders, launch>>
      /\ TakenToday' = p.taken /\ (TakenToday => p.taken)
  BY <1>t DEF Save, SavePcs, exchange, Saved, TakenToday, Safe, FlagInv
<1>a. CASE p.pc = "c_save" /\ Ends(EndOf(p.ret)) /\ p.ret \in {"eod", "coop", "error"}
  <2>1. Gone /\ SameCounts /\ log'.outcome = EndOf(p.ret)
    BY <1>a, EndsEffect
  <2>2. log'.outcome \notin {"errored_naked", "crashed"}
    BY <1>a, <2>1 DEF EndOf
  <2>3. p.position = 0
    BY <1>a DEF Safe, TrackInv
  <2>4. Leaves
    BY <1>a, <1>d, <2>1, <2>2, <2>3 DEF Leaves, EntryPcs
  <2> QED BY <2>4, LeavesSafe
<1>s. SUFFICES ASSUME p' = AfterSave, UNCHANGED log,
                      p.pc = "c_save" => p.ret \notin {"eod", "coop", "error"}
               PROVE  Safe'
  BY <1>a DEF Save
<1>r. /\ p.pc # "c_save" => p.ret = "none"
      /\ p.pc \in {"c_save", "z_save"} => p.position = 0
      /\ p.pc = "e_save" => p.position > 0 /\ p.taken
      /\ p.pc \in {"z_save", "e_save"} => p.lastBar
      /\ p.ret \in {"oco_bar", "cap", "model"} => p.lastBar
  BY <1>d DEF Safe, TrackInv, FlagInv, EngineInv, ClosePcs, CancelPcs, EntryPcs
<1>f. /\ p'.pc \in {"wait", "bar_end", "engine"} /\ p'.ret = "none"
      /\ p'.pc \in {"bar_end", "engine"} => p.lastBar
      /\ p'.position = p.position /\ p'.stop = p.stop /\ p'.target = p.target
      /\ p'.taken = p.taken /\ p'.adopted = p.adopted
      /\ p'.engine \in {p.engine, "done"} /\ (p.position > 0 => p'.engine = p.engine)
      /\ p'.minute = p.minute /\ p'.lastBar = p.lastBar
      /\ UNCHANGED <<pos, orders, launch, log>>
  <2>1. CASE p' = Goto("wait") /\ p.pc = "adopt_save"
    BY <1>s, <1>d, <1>t, <1>r, <2>1 DEF Goto, Process
  <2>2. CASE p' = Goto("bar_end") /\ p.pc \in {"z_save", "e_save"}
    BY <1>s, <1>d, <1>t, <1>r, <2>2 DEF Goto, Process
  <2>3. CASE p' = [p EXCEPT !.pc = "wait", !.ret = "none", !.engine = "done"] /\ p.pc = "c_save"
    BY <1>s, <1>d, <1>t, <1>r, <2>3 DEF Process
  <2>4. CASE p' = [p EXCEPT !.pc = "engine", !.ret = "none", !.engine = "done"]
             /\ p.pc = "c_save" /\ p.ret = "oco_bar"
    BY <1>s, <1>d, <1>t, <1>r, <2>4 DEF Process
  <2>5. CASE p' = [p EXCEPT !.pc = "bar_end", !.ret = "none", !.engine = "done"]
             /\ p.pc = "c_save" /\ p.ret = "cap"
    BY <1>s, <1>d, <1>t, <1>r, <2>5 DEF Process
  <2>6. CASE p' = [p EXCEPT !.pc = "bar_end", !.ret = "none"]
             /\ p.pc = "c_save" /\ p.ret = "model"
    BY <1>s, <1>d, <1>t, <1>r, <2>6 DEF Process
  <2>7. p.pc = "c_save" => p.ret \in {"oco_tick", "oco_bar", "cap", "model"}
    <3>1. p.ret \in Closers \union {"none"}
      BY <1>t DEF Process
    <3> QED BY <1>s, <3>1 DEF Safe, TrackInv, Closers
  <2>8. CASE p.pc \in {"adopt_save", "z_save", "e_save"}
    BY <1>s, <2>1, <2>2, <2>8 DEF AfterSave
  <2>9. CASE p.pc = "c_save"
    <3>1. \/ p.ret = "oco_tick" /\ p' = [p EXCEPT !.pc = "wait", !.ret = "none", !.engine = "done"]
          \/ p.ret = "oco_bar" /\ p' = [p EXCEPT !.pc = "engine", !.ret = "none", !.engine = "done"]
          \/ p.ret = "cap" /\ p' = [p EXCEPT !.pc = "bar_end", !.ret = "none", !.engine = "done"]
          \/ p.ret = "model" /\ p' = [p EXCEPT !.pc = "bar_end", !.ret = "none"]
      BY <1>s, <2>7, <2>9 DEF AfterSave
    <3> QED BY <2>3, <2>4, <2>5, <2>6, <2>9, <3>1
  <2> QED BY <1>d, <2>8, <2>9
<1>1. BookInv'
  BY <1>d, <1>r, <1>f, <1>t DEF Safe, BookInv, Entry, Untouched
<1>2. BracketInv'
  BY <1>d, <1>r, <1>f, <1>t DEF Safe, BracketInv, Entry
<1>3. FlagInv'
  BY <1>d, <1>r, <1>f, <1>t DEF Safe, FlagInv, EntryPcs
<1>4. TrackInv'
  BY <1>d, <1>r, <1>f, <1>t DEF Safe, TrackInv, EntryPcs, ClosePcs, CancelPcs, Status
<1>5. EngineInv'
  BY <1>d, <1>r, <1>f, <1>t DEF Safe, EngineInv, EntryPcs, BarPcs
<1>6. EntryInv'
  <2> SUFFICES ASSUME ~log.lostEntry PROVE EntryInv!2'
    BY <1>f DEF EntryInv
  <2>1. EntryInv!2
    BY DEF Safe, EntryInv
  <2>2. TakenToday => TakenToday'
    BY <1>d
  <2>3. p.pc \in EntryPcs \ {"e_send"} => TakenToday'
    BY <1>d, <1>r DEF EntryPcs
  <2> QED BY <1>d, <1>f, <2>1, <2>2, <2>3 DEF EntryPcs, Entry, Live
<1>7. LegInv'
  BY <1>d, <1>r, <1>f, <1>t DEF Safe, LegInv, Covered, Entry, Status, BarPcs
<1>8. FirstInv'
  BY <1>d, <1>r, <1>f, <1>t DEF Safe, FirstInv, Settled, EntryPcs, Entry, Working
<1>9. LogInv'
  BY <1>d, <1>r, <1>f, <1>t DEF Safe, LogInv
<1> QED BY <1>1, <1>2, <1>3, <1>4, <1>5, <1>6, <1>7, <1>8, <1>9 DEF Safe

\* A relaunch of the day finds what the earlier processes left.
LEMMA LaunchSafe ==
    ASSUME TypeOK, Safe, TypeOK', NEW auto \in BOOLEAN, Launch(auto)
    PROVE  Safe'
<1>t. p \in Process /\ p.position = 0 /\ launch \in Nat /\ log \in LogType /\ p.ret = "none"
      /\ ~p.taken /\ ~p.adopted
  BY DEF TypeOK, Safe, TrackInv, FlagInv, Launch, LogType, ClosePcs, CancelPcs
<1>d. /\ p.pc = "down" /\ launch' = launch + 1 /\ launch' \in Launches /\ launch \in 0..MaxLaunches
      /\ UNCHANGED <<pos, orders>> /\ TakenToday' = TakenToday
  BY <1>t DEF Launch, exchange, TakenToday, Launches, TypeOK
<1>f. /\ p'.pc \in {"down", "startup"} /\ p'.position = 0 /\ p'.ret = "none" /\ ~p'.taken
      /\ ~p'.adopted /\ SameCounts
      /\ log'.outcome \in {log.outcome, "aborted", "gated", "coop"} /\ log'.alarms = log.alarms
      /\ log'.outcome = log.outcome \/ p'.pc = "down"
  <2>1. CASE p' = Goto("startup") /\ UNCHANGED log
    BY <1>t, <2>1 DEF Goto, Process, SameCounts
  <2>2. ASSUME NEW o \in {"aborted", "gated", "coop"}, Ends(o)
        PROVE  /\ p'.pc = "down" /\ p'.position = 0 /\ p'.ret = "none" /\ ~p'.taken
               /\ ~p'.adopted /\ SameCounts /\ log'.outcome = o /\ log'.alarms = log.alarms
    BY <2>2, EndsEffect DEF Gone
  <2> QED BY <2>1, <2>2 DEF Launch
<1>u. /\ Untouched(launch')
      /\ launch = 0 => Entry(1).filled = 0 /\ log.trades = 0
      /\ launch = 0 /\ ~log.lostEntry => pos = 0 /\ Working = {}
  <2>1. Untouched(launch')
    BY <1>d, <1>t DEF Safe, BookInv
  <2>2. launch = 0 => \A n \in Launches : Untouched(n)
    BY DEF Safe, BookInv, Launches
  <2>3. launch = 0 => \A n \in Launches : Entry(n).filled = 0
    BY <2>2, RoleNames DEF Untouched, Entry, NoOrder
  <2>4. launch = 0 => Working = {}
    BY <2>2 DEF Untouched, Working, NoOrder
  <2> QED BY <1>d, <2>1, <2>3, <2>4 DEF Safe, EntryInv, LogInv
<1>1. BookInv'
  BY <1>d, <1>u, <1>f, <1>t DEF Safe, SameCounts, BookInv, Entry, Untouched
<1>2. BracketInv'
  BY <1>d, <1>u, <1>f, <1>t DEF Safe, SameCounts, BracketInv, Entry
<1>3. FlagInv'
  BY <1>d, <1>u, <1>f, <1>t DEF Safe, SameCounts, FlagInv, EntryPcs
<1>4. TrackInv'
  BY <1>d, <1>u, <1>f, <1>t DEF Safe, SameCounts, TrackInv, EntryPcs, ClosePcs, CancelPcs, Status
<1>5. EngineInv'
  BY <1>d, <1>u, <1>f, <1>t DEF Safe, SameCounts, EngineInv, EntryPcs, BarPcs
<1>6. EntryInv'
  BY <1>d, <1>u, <1>f, <1>t DEF Safe, SameCounts, EntryInv, EntryPcs, Entry, Live
<1>7. LegInv'
  BY <1>d, <1>u, <1>f, <1>t DEF Safe, SameCounts, LegInv, Covered, Entry, Status, BarPcs
<1>8. FirstInv'
  BY <1>d, <1>u, <1>f, <1>t DEF Safe, SameCounts, FirstInv, Settled, EntryPcs, Entry, Working
<1>9. LogInv'
  BY <1>d, <1>u, <1>f, <1>t DEF Safe, SameCounts, LogInv
<1> QED BY <1>1, <1>2, <1>3, <1>4, <1>5, <1>6, <1>7, <1>8, <1>9 DEF Safe

\* A crash loses what the process knew; the entry it was placing is lost with it.
LEMMA CrashSafe == ASSUME TypeOK, Safe, TypeOK', Crash PROVE Safe'
<1>t. p \in Process /\ log \in LogType /\ disk \in DiskType
  BY DEF TypeOK, LogType, DiskType
<1>d. UNCHANGED <<pos, orders, launch>> /\ TakenToday' = TakenToday /\ Gone
  BY <1>t, GoneEffect DEF Crash, exchange, TakenToday, DiskType
<1>f. /\ log'.outcome = "crashed" /\ log'.alarms = log.alarms
      /\ log'.trades = log.trades /\ log'.partial = log.partial
      /\ log'.lostEntry <=> (log.lostEntry \/ (p.pc \in EntryPcs /\ Live(Entry(launch))))
      /\ p.pc # "down"
  BY <1>t DEF Crash, LogType, Entry
<1>1. BookInv'
  BY <1>d, <1>f, <1>t DEF Safe, Gone, BookInv, Entry, Untouched
<1>2. BracketInv'
  BY <1>d, <1>f, <1>t DEF Safe, Gone, BracketInv, Entry
<1>3. FlagInv'
  BY <1>d, <1>f, <1>t DEF Safe, Gone, FlagInv, EntryPcs
<1>4. TrackInv'
  BY <1>d, <1>f, <1>t DEF Safe, Gone, TrackInv, EntryPcs, ClosePcs, CancelPcs, Status
<1>5. EngineInv'
  BY <1>d, <1>f, <1>t DEF Safe, Gone, EngineInv, EntryPcs, BarPcs
<1>6. EntryInv'
  BY <1>d, <1>f, <1>t DEF Safe, Gone, EntryInv, EntryPcs, Entry, Live
<1>7. LegInv'
  BY <1>d, <1>f, <1>t DEF Safe, Gone, LegInv, Covered, Entry, Status, BarPcs
<1>8. FirstInv'
  BY <1>d, <1>f, <1>t DEF Safe, Gone, FirstInv, Settled, EntryPcs, Entry, Working
<1>9. LogInv'
  BY <1>d, <1>f, <1>t DEF Safe, Gone, LogInv
<1> QED BY <1>1, <1>2, <1>3, <1>4, <1>5, <1>6, <1>7, <1>8, <1>9 DEF Safe

\* The flatten gave up: the alarm is raised.
LEMMA AlarmSafe == ASSUME TypeOK, Safe, TypeOK', AlarmNaked PROVE Safe'
<1>t. log \in LogType
  BY DEF TypeOK, LogType
<1>d. UNCHANGED <<pos, orders, launch>> /\ TakenToday' = TakenToday /\ Gone /\ p.pc = "naked"
  BY GoneEffect DEF AlarmNaked, exchange, TakenToday
<1>f. /\ log'.outcome = "errored_naked" /\ "NakedPosition" \in log'.alarms
      /\ SameCounts
  BY <1>t DEF AlarmNaked, LogType, SameCounts
<1>1. BookInv'
  BY <1>d, <1>f, <1>t DEF Safe, Gone, SameCounts, BookInv, Entry, Untouched
<1>2. BracketInv'
  BY <1>d, <1>f, <1>t DEF Safe, Gone, SameCounts, BracketInv, Entry
<1>3. FlagInv'
  BY <1>d, <1>f, <1>t DEF Safe, Gone, SameCounts, FlagInv, EntryPcs
<1>4. TrackInv'
  BY <1>d, <1>f, <1>t DEF Safe, Gone, SameCounts, TrackInv, EntryPcs, ClosePcs, CancelPcs, Status
<1>5. EngineInv'
  BY <1>d, <1>f, <1>t DEF Safe, Gone, SameCounts, EngineInv, EntryPcs, BarPcs
<1>6. EntryInv'
  BY <1>d, <1>f, <1>t DEF Safe, Gone, SameCounts, EntryInv, EntryPcs, Entry, Live
<1>7. LegInv'
  BY <1>d, <1>f, <1>t DEF Safe, Gone, SameCounts, LegInv, Covered, Entry, Status, BarPcs
<1>8. FirstInv'
  BY <1>d, <1>f, <1>t DEF Safe, Gone, SameCounts, FirstInv, Settled, EntryPcs, Entry, Working
<1>9. LogInv'
  BY <1>d, <1>f, <1>t DEF Safe, Gone, SameCounts, LogInv
<1> QED BY <1>1, <1>2, <1>3, <1>4, <1>5, <1>6, <1>7, <1>8, <1>9 DEF Safe

\* The broker forgets a position that is closed, and the trade is journalled.
LEMMA ForgetSafe == ASSUME TypeOK, Safe, TypeOK', ResolvePrice PROVE Safe'
<1>t. p \in Process /\ p.position \in Nat /\ p.pc = "c_price" /\ p.position > 0 /\ p.ret # "none"
  BY Fields DEF TypeOK, ResolvePrice, Safe, TrackInv, ClosePcs
<1>a. CASE p' = Raised /\ UNCHANGED log
  <2>1. Still
    BY DEF ResolvePrice, Still, exchange, TakenToday
  <2>2. Fails
    BY <1>a, <1>t, <2>1, StillMild, RaisedEffect DEF Fails, SameCounts, ClosePcs
  <2> QED BY <2>2, FailsSafe
<1>s. SUFFICES ASSUME p' = [p EXCEPT !.pc = "c_journal", !.position = 0, !.stop = 0, !.target = 0],
                      UNCHANGED log
               PROVE  Safe'
  BY <1>a DEF ResolvePrice, Raises
<1>f. /\ p'.pc = "c_journal" /\ p'.position = 0 /\ p'.stop = 0 /\ p'.target = 0
      /\ p'.taken = p.taken /\ p'.adopted = p.adopted /\ p'.engine = p.engine
      /\ p'.minute = p.minute /\ p'.lastBar = p.lastBar /\ p'.ret = p.ret
      /\ UNCHANGED <<pos, orders, launch, log>> /\ TakenToday' = TakenToday
  BY <1>s, <1>t DEF ResolvePrice, Process, TakenToday, exchange
<1>u. ~log.lostEntry /\ ~log.partial => pos = 0 /\ Working = {}
  <2> SUFFICES ASSUME ~log.lostEntry, ~log.partial PROVE pos = 0 /\ Working = {}
    OBVIOUS
  <2>1. pos = 0
    BY <1>t DEF Safe, LegInv, Covered
  <2>2. ASSUME NEW n \in Launches, NEW r \in Roles PROVE orders[n][r].status # "open"
    <3>1. Status("stop", p.stop) # "open" /\ Status("target", p.target) # "open"
      BY <1>t DEF Safe, TrackInv
    <3>2. CASE r = "entry"
      BY <1>t, <3>2 DEF Safe, EntryInv, Entry
    <3>3. CASE r = "stop"
      BY <1>t, <3>1, <3>3 DEF Safe, EntryInv, Status, Launches
    <3>4. CASE r = "target"
      BY <1>t, <3>1, <3>4 DEF Safe, EntryInv, Status, Launches
    <3> QED BY <3>2, <3>3, <3>4 DEF Roles, Legs
  <2>3. Working = {}
    BY <2>2 DEF Working
  <2> QED BY <2>1, <2>3
<1>1. BookInv'
  BY <1>f, <1>t DEF Safe, BookInv, Entry, Untouched
<1>2. BracketInv'
  BY <1>f, <1>t DEF Safe, BracketInv, Entry
<1>3. FlagInv'
  BY <1>f, <1>t DEF Safe, FlagInv, EntryPcs
<1>4. TrackInv'
  BY <1>f, <1>t DEF Safe, TrackInv, EntryPcs, ClosePcs, CancelPcs, Status
<1>5. EngineInv'
  BY <1>f, <1>t DEF Safe, EngineInv, EntryPcs, BarPcs
<1>6. EntryInv'
  BY <1>f, <1>t DEF Safe, EntryInv, EntryPcs, Entry, Live
<1>7. LegInv'
  BY <1>f, <1>t DEF Safe, LegInv, Covered, Entry, Status, BarPcs
<1>8. FirstInv'
  BY <1>f, <1>t, <1>u DEF Safe, FirstInv, Settled, EntryPcs, Entry, Working
<1>9. LogInv'
  BY <1>f, <1>t DEF Safe, LogInv
<1> QED BY <1>1, <1>2, <1>3, <1>4, <1>5, <1>6, <1>7, <1>8, <1>9 DEF Safe

\* Recording the trade keeps the invariant.
LEMMA JournalSafe == ASSUME TypeOK, Safe, TypeOK', JournalTrade PROVE Safe'
<1>t. p \in Process /\ log \in LogType /\ log.trades \in Nat /\ p.position = 0 /\ p.pc = "c_journal"
      /\ p.ret # "none"
  BY DEF TypeOK, LogType, JournalTrade, Safe, TrackInv
<1>f. /\ p'.pc = "c_save" /\ p'.position = 0 /\ p'.stop = p.stop /\ p'.target = p.target
      /\ p'.taken = p.taken /\ p'.adopted = p.adopted /\ p'.engine = p.engine
      /\ p'.minute = p.minute /\ p'.lastBar = p.lastBar /\ p'.ret = p.ret
      /\ UNCHANGED <<pos, orders, launch>> /\ TakenToday' = TakenToday
      /\ log'.trades = log.trades + 1 /\ log'.lostEntry = log.lostEntry
      /\ log'.partial = log.partial /\ log'.alarms = log.alarms /\ log'.outcome = log.outcome
  BY <1>t DEF JournalTrade, Goto, Process, TakenToday, exchange, LogType
<1>1. BookInv'
  BY <1>f, <1>t DEF Safe, BookInv, Entry, Untouched
<1>2. BracketInv'
  BY <1>f, <1>t DEF Safe, BracketInv, Entry
<1>3. FlagInv'
  BY <1>f, <1>t DEF Safe, FlagInv, EntryPcs
<1>4. TrackInv'
  BY <1>f, <1>t DEF Safe, TrackInv, EntryPcs, ClosePcs, CancelPcs, Status
<1>5. EngineInv'
  BY <1>f, <1>t DEF Safe, EngineInv, EntryPcs, BarPcs
<1>6. EntryInv'
  BY <1>f, <1>t DEF Safe, EntryInv, EntryPcs, Entry, Live
<1>7. LegInv'
  BY <1>f, <1>t DEF Safe, LegInv, Covered, Entry, Status, BarPcs
<1>8. FirstInv'
  BY <1>f, <1>t DEF Safe, FirstInv, Settled, EntryPcs, Entry, Working
<1>9. LogInv'
  BY <1>f, <1>t DEF Safe, LogInv
<1> QED BY <1>1, <1>2, <1>3, <1>4, <1>5, <1>6, <1>7, <1>8, <1>9 DEF Safe

-----------------------------------------------------------------------------
(* place_bracket                                                             *)

\* An exception on the way out of place_bracket; an entry that may live is lost.
Drops ==
    /\ p.pc \in {"e_send", "e_await", "e_stop", "e_target"} /\ Thrown
    /\ UNCHANGED <<pos, launch>> /\ TakenToday' = TakenToday
    /\ log'.trades = log.trades /\ log'.partial = log.partial
    /\ log'.outcome = log.outcome /\ log'.alarms = log.alarms
    /\ log'.lostEntry <=> (log.lostEntry \/ Live(Entry(launch))')
    /\ log'.lostEntry \/ orders' = orders
    /\ \A n \in Launches : n > launch => Untouched(n)'
    /\ \A n \in Launches : Entry(n)'.status = "open" => Entry(n)'.filled < Entry(n)'.qty
    /\ \A n \in Launches : Entry(n)'.status = "filled" => Entry(n)'.filled > 0
    /\ \A n \in Launches : Entry(n)'.status = "none" => Entry(n)'.filled = 0

\* While a process places its bracket, only its own entry may live.
LEMMA NoneLives ==
    ASSUME Safe, p.pc \in EntryPcs \ {"e_save"}, ~log.lostEntry
    PROVE  /\ \A n \in Launches : Live(Entry(n)) => n = launch /\ p.pc # "e_send"
           /\ \A n \in Launches, leg \in Legs : orders[n][leg].status # "none" => n = launch
<1>1. ~TakenToday
  BY DEF Safe, FlagInv, EntryPcs
<1>2. \A n \in Launches : Live(Entry(n)) => n = launch /\ p.pc # "e_send"
  BY <1>1 DEF Safe, EntryInv
<1> QED BY <1>2 DEF Safe, EntryInv, Live

\* An entry that place_bracket gives up on keeps the invariant.
LEMMA DropsSafe == ASSUME TypeOK, Safe, TypeOK', Drops PROVE Safe'
<1>t. p \in Process /\ p.position = 0 /\ p.ret = "none" /\ p.engine = "in" /\ ~p.taken /\ log.trades \in Nat
      /\ log' \in LogType /\ log \in LogType
  BY DEF TypeOK, Drops, Safe, TrackInv, EngineInv, FlagInv, EntryPcs, ClosePcs, CancelPcs, LogType
<1>f. /\ p'.pc = "handler" /\ p'.position = 0 /\ p'.stop = p.stop /\ p'.target = p.target
      /\ p'.taken = p.taken /\ p'.adopted = p.adopted /\ p'.engine = "in"
      /\ p'.minute = p.minute /\ p'.lastBar = p.lastBar /\ p'.ret = "none"
      /\ UNCHANGED <<pos, launch>> /\ TakenToday' = TakenToday
      /\ log'.trades = log.trades /\ log'.partial = log.partial
      /\ log'.outcome = log.outcome /\ log'.alarms = log.alarms
  BY <1>t DEF Drops, Thrown
<1>p. p.pc \in {"e_send", "e_await", "e_stop", "e_target"}
  BY DEF Drops
<1>l. ASSUME ~log'.lostEntry
      PROVE  /\ ~log.lostEntry /\ orders' = orders
             /\ \A n \in Launches : ~Live(Entry(n))
             /\ pos = 0 /\ Working = {}
  <2>1. ~log.lostEntry /\ orders' = orders /\ ~Live(Entry(launch))
    BY <1>l, <1>t DEF Drops, Entry, Live
  <2>2. \A n \in Launches : ~Live(Entry(n))
    BY <2>1, NoneLives DEF Drops, EntryPcs
  <2>3. \A n \in Launches : Entry(n).filled = 0 /\ Entry(n).status # "open"
    BY <2>2, OrderFields, RoleNames DEF Live, Entry, TypeOK, Book
  <2>4. pos = 0
    BY <2>1, <2>3 DEF Safe, EntryInv
  <2>5. \A n \in Launches, leg \in Legs : orders[n][leg].status = "none"
    BY <2>1, <2>3 DEF Safe, EntryInv
  <2>6. Working = {}
    BY <2>3, <2>5 DEF Working, Roles, Entry
  <2> QED BY <2>1, <2>2, <2>4, <2>6
<1>1. BookInv'
  BY <1>f DEF Safe, BookInv, Drops
<1>2. BracketInv'
  BY <1>f, <1>p, <1>t DEF Safe, BracketInv, Entry
<1>3. FlagInv'
  BY <1>f, <1>p, <1>t DEF Safe, FlagInv, EntryPcs
<1>4. TrackInv'
  BY <1>f, <1>p, <1>t DEF Safe, TrackInv, EntryPcs, ClosePcs, CancelPcs, Status
<1>5. EngineInv'
  BY <1>f, <1>p, <1>t DEF Safe, EngineInv, EntryPcs, BarPcs
<1>6. EntryInv'
  BY <1>f, <1>l DEF Safe, EntryInv, EntryPcs, Entry, Live
<1>7. LegInv'
  BY <1>f, <1>l, <1>t DEF Safe, LegInv, Covered, Entry, Status, BarPcs
<1>8. FirstInv'
  <2> SUFFICES ASSUME launch = 1, ~log'.lostEntry PROVE FirstInv!2'
    BY <1>f DEF FirstInv
  <2>1. 1 \in Launches /\ Entry(1).filled = 0
    <3>1. 1 \in Launches
      BY DEF TypeOK, Launches
    <3> QED BY <1>l, <3>1, OrderFields, RoleNames DEF Live, Entry, TypeOK, Book
  <2> QED BY <1>f, <1>p, <1>l, <2>1 DEF Safe, FirstInv, Settled, EntryPcs, Entry, Working
<1>9. LogInv'
  BY <1>f, <1>p, <1>t DEF Safe, LogInv
<1> QED BY <1>1, <1>2, <1>3, <1>4, <1>5, <1>6, <1>7, <1>8, <1>9 DEF Safe

\* place_order as place_bracket calls it.
LEMMA PlaceCases ==
    ASSUME TypeOK, Safe, UNCHANGED <<pos, disk, launch>>, launch \in Launches,
           p.pc \in {"e_send", "e_stop", "e_target"},
           NEW r \in Roles, NEW qty \in 0..Size, NEW next, PlaceCall(r, qty, next),
           IF r = "entry" THEN qty = Size ELSE Entry(launch).filled > 0
    PROVE  \/ Drops
           \/ Place(r, qty) /\ p' = next /\ UNCHANGED log
<1>t. p \in Process /\ log \in LogType /\ orders \in Book
  BY DEF TypeOK, LogType, Book
<1>l. ASSUME RaisesInEntry
      PROVE  /\ log'.trades = log.trades /\ log'.partial = log.partial
             /\ log'.outcome = log.outcome /\ log'.alarms = log.alarms
             /\ log'.lostEntry <=> (log.lostEntry \/ Live(Entry(launch))')
             /\ Thrown /\ TakenToday' = TakenToday
  BY <1>l, <1>t, RaisedEffect DEF RaisesInEntry, LogType, Entry, TakenToday
<1>1. ASSUME UNCHANGED orders, RaisesInEntry
      PROVE  Drops
  BY <1>1, <1>l DEF Drops, Safe, BookInv, Entry, Untouched
<1>2. ASSUME Place(r, qty), RaisesInEntry
      PROVE  Drops
  <2>1. /\ orders' \in Book /\ Only(launch, r)
        /\ orders'[launch][r].status = "open" /\ orders'[launch][r].qty = qty
        /\ orders'[launch][r].filled = 0
    BY <1>2, <1>t, PlaceEffect
  <2>2. Live(Entry(launch))'
    BY <2>1, RoleNames DEF Only, Live, Entry
  <2>3. \A n \in Launches : n > launch => Untouched(n)'
    BY <2>1 DEF Only, Safe, BookInv, Untouched, Launches
  <2>4. ASSUME NEW n \in Launches
        PROVE  /\ Entry(n)'.status = "open" => Entry(n)'.filled < Entry(n)'.qty
               /\ Entry(n)'.status = "filled" => Entry(n)'.filled > 0
               /\ Entry(n)'.status = "none" => Entry(n)'.filled = 0
    <3>1. CASE r = "entry" /\ n = launch
      BY <2>1, <3>1 DEF Entry
    <3>2. CASE ~(r = "entry" /\ n = launch)
      <4>1. Entry(n)' = Entry(n)
        BY <2>1, <3>2, RoleNames DEF Only, Entry
      <4> QED BY <4>1 DEF Safe, BookInv
    <3> QED BY <3>1, <3>2
  <2> QED BY <1>l, <1>2, <2>2, <2>3, <2>4 DEF Drops
<1> QED BY <1>1, <1>2 DEF PlaceCall

\* The entry is sent.
LEMMA SendSafe == ASSUME TypeOK, Safe, TypeOK', SendEntry PROVE Safe'
<1>t. /\ p \in Process /\ orders \in Book /\ p.pc = "e_send" /\ p.position = 0 /\ p.ret = "none"
      /\ p.engine = "in" /\ ~p.taken /\ launch \in Launches /\ Untouched(launch)
  BY DEF TypeOK, Book, SendEntry, Safe, TrackInv, EngineInv, FlagInv, BookInv, EntryPcs, ClosePcs, CancelPcs
<1>s. SUFFICES ASSUME Place("entry", Size), p' = [p EXCEPT !.pc = "e_await", !.seen = 0], UNCHANGED log
               PROVE  Safe'
  <2>1. Size \in 0..Size
    OBVIOUS
  <2>2. Drops \/ (Place("entry", Size) /\ p' = [p EXCEPT !.pc = "e_await", !.seen = 0] /\ UNCHANGED log)
    BY <1>t, <2>1, PlaceCases, RoleNames DEF SendEntry
  <2> QED BY <2>2, DropsSafe
<1>f. /\ p'.pc = "e_await" /\ p'.position = 0 /\ p'.seen = 0 /\ p'.stop = p.stop /\ p'.target = p.target
      /\ p'.taken = p.taken /\ p'.adopted = p.adopted /\ p'.engine = "in"
      /\ p'.minute = p.minute /\ p'.lastBar = p.lastBar /\ p'.ret = "none"
      /\ UNCHANGED <<pos, launch, log>> /\ TakenToday' = TakenToday
  BY <1>s, <1>t DEF Process, SendEntry, TakenToday
<1>o. /\ Only(launch, "entry") /\ Entry(launch)'.status = "open" /\ Entry(launch)'.qty = Size
      /\ Entry(launch)'.filled = 0
  <2>1. Size \in 0..Size
    OBVIOUS
  <2> QED BY <1>s, <1>f, <1>t, <2>1, PlaceEffect, RoleNames DEF Entry
<1>e. \A n \in Launches : n # launch => Entry(n)' = Entry(n)
  BY <1>o, RoleNames DEF Only, Entry
<1>g. \A n \in Launches, leg \in Legs : orders'[n][leg] = orders[n][leg]
  BY <1>o, RoleNames DEF Only, Legs
<1>u. Entry(launch).filled = 0 /\ \A leg \in Legs : orders[launch][leg].status = "none"
  BY <1>t, RoleNames DEF Untouched, Entry, NoOrder
<1>n. ~log.lostEntry => \A n \in Launches : ~Live(Entry(n))
  BY <1>t, NoneLives DEF EntryPcs
<1>1. BookInv'
  <2>1. \A n \in Launches : n > launch => Untouched(n)'
    BY <1>o DEF Only, Safe, BookInv, Untouched, Launches
  <2> QED BY <1>f, <1>t, <1>o, <1>e, <2>1 DEF Safe, BookInv
<1>2. BracketInv'
  BY <1>f, <1>o, <1>g, <1>u, <1>t, RoleNames DEF BracketInv
<1>3. FlagInv'
  BY <1>f, <1>t DEF Safe, FlagInv, EntryPcs
<1>4. TrackInv'
  BY <1>f, <1>t DEF Safe, TrackInv, EntryPcs, ClosePcs, CancelPcs
<1>5. EngineInv'
  BY <1>f, <1>t DEF Safe, EngineInv, EntryPcs, BarPcs
<1>6. EntryInv'
  <2> SUFFICES ASSUME ~log.lostEntry PROVE EntryInv!2'
    BY <1>f DEF EntryInv
  <2>1. \A n \in Launches : Live(Entry(n))' => n = launch
    BY <1>e, <1>n DEF Live
  <2>2. (\A n \in Launches : Entry(n)'.filled = 0) => pos' = 0
    BY <1>e, <1>f, <1>u DEF Safe, EntryInv
  <2>3. \A n \in Launches, leg \in Legs : orders'[n][leg].status # "none" => Entry(n)'.filled > 0
    BY <1>e, <1>g, <1>u DEF Safe, EntryInv
  <2>4. \A n \in Launches : Entry(n)'.status = "open" => n = launch
    BY <2>1 DEF Live
  <2> QED BY <1>f, <2>1, <2>2, <2>3, <2>4 DEF EntryPcs
<1>7. LegInv'
  <2> SUFFICES ASSUME ~log.lostEntry, ~log.partial PROVE Covered'
    BY <1>f DEF LegInv
  <2>1. Covered
    BY DEF Safe, LegInv
  <2> QED BY <1>f, <1>o, <1>e, <1>g, <1>u, <2>1, RoleNames DEF Covered
<1>8. FirstInv'
  BY <1>f, <1>t DEF Safe, FirstInv, Settled, EntryPcs
<1>9. LogInv'
  BY <1>f, <1>t DEF Safe, LogInv
<1> QED BY <1>1, <1>2, <1>3, <1>4, <1>5, <1>6, <1>7, <1>8, <1>9 DEF Safe

\* A fill, or a part of one, is read: the contracts to protect.
LEMMA AwaitSafe == ASSUME TypeOK, Safe, TypeOK', AwaitFill \/ FillTimesOut PROVE Safe'
<1>t. /\ p \in Process /\ orders \in Book /\ log \in LogType /\ p.pc = "e_await" /\ p.position = 0
      /\ p.ret = "none" /\ p.seen \in Nat /\ p.seen <= Entry(launch).filled
      /\ p.engine = "in" /\ ~p.taken /\ launch \in Launches /\ Entry(launch).filled \in Nat
      /\ orders[launch]["stop"].status = "none" /\ orders[launch]["target"].status = "none"
      /\ UNCHANGED <<pos, orders, disk, launch>> /\ TakenToday' = TakenToday
  <2>1. p.pc = "e_await" /\ UNCHANGED <<pos, orders, disk, launch>> /\ TakenToday' = TakenToday
    BY DEF AwaitFill, FillTimesOut, exchange, TakenToday
  <2>2. p \in Process /\ orders \in Book /\ log \in LogType /\ p.seen \in Nat
    BY Fields DEF TypeOK, Book, LogType
  <2>3. launch \in Launches /\ p.seen <= Entry(launch).filled
        /\ orders[launch]["stop"].status = "none" /\ orders[launch]["target"].status = "none"
    BY <2>1 DEF Safe, BookInv, BracketInv
  <2>4. p.position = 0 /\ p.ret = "none" /\ p.engine = "in" /\ ~p.taken
    BY <2>1 DEF Safe, TrackInv, EngineInv, FlagInv, EntryPcs, ClosePcs, CancelPcs
  <2>5. Entry(launch).filled \in Nat
    BY <2>2, <2>3, OrderFields, RoleNames DEF Entry
  <2> QED BY <2>1, <2>2, <2>3, <2>4, <2>5
<1>d. ASSUME RaisesInEntry PROVE Safe'
  <2>1. Drops
    BY <1>d, <1>t, RaisedEffect DEF RaisesInEntry, LogType, Entry, Drops, Safe, BookInv, Untouched
  <2> QED BY <2>1, DropsSafe
<1>w. ASSUME p' = [p EXCEPT !.seen = IF Entry(launch).filled > 0 THEN Entry(launch).filled ELSE p.seen],
             UNCHANGED log
      PROVE  p'.pc = "e_await" /\ p'.seen <= Entry(launch).filled
  BY <1>w, <1>t DEF Process
<1>v. ASSUME NEW n \in Nat, p' = Protect(n) PROVE p'.pc = "e_stop" /\ p'.seen = n
  BY <1>v, <1>t DEF Process, Protect
<1>s. SUFFICES ASSUME p'.pc \in {"e_await", "e_stop"}, p'.seen <= Entry(launch).filled,
                      p'.pc = "e_stop" => p'.seen > 0,
                      p'.pc = "e_stop" => log'.partial \/ (p'.seen = Entry(launch).filled
                                                         /\ Entry(launch).status # "open"),
                      log'.partial = log.partial \/ (log'.partial /\ p'.seen > 0),
                      p'.position = 0, p'.stop = p.stop, p'.target = p.target,
                      p'.taken = p.taken, p'.adopted = p.adopted, p'.engine = "in",
                      p'.minute = p.minute, p'.lastBar = p.lastBar, p'.ret = "none",
                      log'.lostEntry = log.lostEntry, log'.trades = log.trades,
                      log'.outcome = log.outcome, log'.alarms = log.alarms
               PROVE  Safe'
  <2>1. ASSUME p' = Protect(Entry(launch).filled) \/ p' = Protect(p.seen)
               \/ p' = [p EXCEPT !.seen = IF Entry(launch).filled > 0 THEN Entry(launch).filled ELSE p.seen]
        PROVE  /\ p'.position = 0 /\ p'.stop = p.stop /\ p'.target = p.target
               /\ p'.taken = p.taken /\ p'.adopted = p.adopted /\ p'.engine = "in"
               /\ p'.minute = p.minute /\ p'.lastBar = p.lastBar /\ p'.ret = "none"
    <3>1. ASSUME NEW n, p' = Protect(n)
          PROVE  /\ p'.position = 0 /\ p'.stop = p.stop /\ p'.target = p.target
                 /\ p'.taken = p.taken /\ p'.adopted = p.adopted /\ p'.engine = "in"
                 /\ p'.minute = p.minute /\ p'.lastBar = p.lastBar /\ p'.ret = "none"
      BY <3>1, <1>t DEF Protect, Process
    <3>2. CASE p' = [p EXCEPT !.seen = IF Entry(launch).filled > 0 THEN Entry(launch).filled ELSE p.seen]
      BY <3>2, <1>t DEF Process
    <3> QED BY <2>1, <3>1, <3>2
  <2>2. CASE AwaitFill
    <3>1. ASSUME p' = Protect(Entry(launch).filled), UNCHANGED log,
                 Entry(launch).status # "open", Entry(launch).filled > 0
          PROVE  Safe'
      BY <3>1, <1>s, <1>t, <1>v, <2>1
    <3>2. ASSUME p' = [p EXCEPT !.seen = IF Entry(launch).filled > 0 THEN Entry(launch).filled ELSE p.seen],
                 UNCHANGED log
          PROVE  Safe'
      BY <3>2, <1>s, <1>t, <1>w, <2>1
    <3>3. Entry(launch).status = "filled" => Entry(launch).filled > 0
      BY <1>t DEF Safe, BookInv
    <3>4. \/ RaisesInEntry
          \/ /\ p' = Protect(Entry(launch).filled) /\ UNCHANGED log
             /\ Entry(launch).status = "filled"
          \/ /\ p' = Protect(Entry(launch).filled) /\ UNCHANGED log
             /\ Entry(launch).status \in Terminal /\ Entry(launch).filled > 0
          \/ /\ p' = [p EXCEPT !.seen = IF Entry(launch).filled > 0 THEN Entry(launch).filled ELSE p.seen]
             /\ UNCHANGED log
      BY <2>2 DEF AwaitFill, Entry
    <3> QED BY <1>d, <3>1, <3>2, <3>3, <3>4 DEF Terminal
  <2>3. CASE FillTimesOut
    <3>1. ASSUME p.seen > 0, p' = Protect(p.seen), log' = [log EXCEPT !.partial = TRUE]
          PROVE  Safe'
      <4>1. /\ log'.partial /\ log'.lostEntry = log.lostEntry /\ log'.trades = log.trades
            /\ log'.outcome = log.outcome /\ log'.alarms = log.alarms
        BY <3>1, <1>t DEF LogType
      <4> QED BY <3>1, <4>1, <1>s, <1>t, <1>v, <2>1
    <3> QED BY <2>3, <1>d, <3>1 DEF FillTimesOut
  <2> QED BY <2>2, <2>3
<1>1. BookInv'
  BY <1>s, <1>t DEF Safe, BookInv, Entry, Untouched
<1>2. BracketInv'
  BY <1>s, <1>t DEF Safe, BracketInv, Entry
<1>3. FlagInv'
  BY <1>s, <1>t DEF Safe, FlagInv, EntryPcs
<1>4. TrackInv'
  BY <1>s, <1>t DEF Safe, TrackInv, EntryPcs, ClosePcs, CancelPcs
<1>5. EngineInv'
  BY <1>s, <1>t DEF Safe, EngineInv, EntryPcs, BarPcs
<1>6. EntryInv'
  <2> SUFFICES ASSUME ~log.lostEntry PROVE EntryInv!2'
    BY <1>s DEF EntryInv
  <2>1. \A n \in Launches : Live(Entry(n)) => n = launch
    BY <1>t, NoneLives DEF EntryPcs
  <2>2. p'.seen > 0 => Entry(launch).filled > 0
    BY <1>s, <1>t DEF TypeOK, Process
  <2> QED BY <1>s, <1>t, <2>1, <2>2 DEF Safe, EntryInv, EntryPcs, Entry, Live
<1>7. LegInv'
  BY <1>s, <1>t DEF Safe, LegInv, Covered, Entry, Status, BarPcs
<1>8. FirstInv'
  BY <1>s, <1>t DEF Safe, FirstInv, Settled, EntryPcs, Entry, Working
<1>9. LogInv'
  BY <1>s, <1>t DEF Safe, LogInv
<1> QED BY <1>1, <1>2, <1>3, <1>4, <1>5, <1>6, <1>7, <1>8, <1>9 DEF Safe

\* place_bracket protects contracts of its own entry.
LEMMA BracketFacts ==
    ASSUME TypeOK, Safe, p.pc \in {"e_stop", "e_target"}
    PROVE  /\ p \in Process /\ orders \in Book /\ launch \in Launches
           /\ p.position = 0 /\ p.ret = "none" /\ p.engine = "in" /\ ~p.taken /\ p.lastBar
           /\ p.seen \in 0..Size /\ p.seen > 0 /\ p.seen <= Entry(launch).filled
           /\ Entry(launch).filled \in Nat /\ Entry(launch).filled > 0
<1>1. p.seen \in Nat /\ p \in Process /\ orders \in Book
  BY Fields DEF TypeOK, Book
<1>2. launch \in Launches /\ p.seen > 0 /\ p.seen <= Entry(launch).filled
  BY DEF Safe, BookInv, BracketInv
<1>3. Entry(launch).filled \in Nat /\ Entry(launch).filled \in 0..Size
  BY <1>1, <1>2, OrderFields, RoleNames DEF Entry
<1>4. p.position = 0 /\ p.ret = "none" /\ p.engine = "in" /\ ~p.taken /\ p.lastBar
  BY DEF Safe, TrackInv, EngineInv, FlagInv, EntryPcs, ClosePcs, CancelPcs
<1> QED BY <1>1, <1>2, <1>3, <1>4

\* The leg that is placed is the only order that changes.
LEMMA LegPlaced ==
    ASSUME TypeOK, Safe, p.pc \in {"e_stop", "e_target"}, UNCHANGED launch,
           NEW leg \in Legs, Place(leg, p.seen)
    PROVE  /\ \A n \in Launches : Entry(n)' = Entry(n)
           /\ \A n \in Launches, q \in Legs : n # launch \/ q # leg => orders'[n][q] = orders[n][q]
           /\ orders'[launch][leg].status = "open" /\ orders'[launch][leg].qty = p.seen
           /\ \A n \in Launches : n > launch => Untouched(n)'
<1>1. /\ Only(launch, leg) /\ orders'[launch][leg].status = "open" /\ orders'[launch][leg].qty = p.seen
  BY BracketFacts, PlaceEffect, RoleNames
<1>2. leg # "entry"
  BY DEF Legs
<1>3. \A n \in Launches : n > launch => Untouched(n)'
  BY <1>1, BracketFacts DEF Only, Safe, BookInv, Untouched, Launches
<1> QED BY <1>1, <1>2, <1>3, RoleNames DEF Only, Entry

\* The stop is placed for the contracts read.
LEMMA StopSafe == ASSUME TypeOK, Safe, TypeOK', PlaceStop PROVE Safe'
<1>t. /\ p \in Process /\ orders \in Book /\ launch \in Launches /\ p.pc = "e_stop"
      /\ p.position = 0 /\ p.ret = "none" /\ p.engine = "in" /\ ~p.taken /\ p.lastBar
      /\ p.seen \in 0..Size /\ p.seen > 0 /\ p.seen <= Entry(launch).filled
      /\ Entry(launch).filled \in Nat /\ Entry(launch).filled > 0
  BY BracketFacts DEF PlaceStop
<1>s. SUFFICES ASSUME Place("stop", p.seen), p' = [p EXCEPT !.pc = "e_target"], UNCHANGED log
               PROVE  Safe'
  <2>1. Drops \/ (Place("stop", p.seen) /\ p' = Goto("e_target") /\ UNCHANGED log)
    BY <1>t, PlaceCases, RoleNames DEF PlaceStop
  <2> QED BY <2>1, DropsSafe DEF Goto
<1>f. /\ p'.pc = "e_target" /\ p'.position = 0 /\ p'.seen = p.seen /\ p'.stop = p.stop /\ p'.target = p.target
      /\ p'.taken = p.taken /\ p'.adopted = p.adopted /\ p'.engine = "in"
      /\ p'.minute = p.minute /\ p'.lastBar = p.lastBar /\ p'.ret = "none"
      /\ UNCHANGED <<pos, launch, log>> /\ TakenToday' = TakenToday
  BY <1>s, <1>t DEF Process, PlaceStop, TakenToday
<1>o. /\ \A n \in Launches : Entry(n)' = Entry(n)
      /\ \A n \in Launches, q \in Legs : n # launch \/ q # "stop" => orders'[n][q] = orders[n][q]
      /\ orders'[launch]["stop"].status = "open" /\ orders'[launch]["stop"].qty = p.seen
      /\ \A n \in Launches : n > launch => Untouched(n)'
  BY <1>s, <1>t, <1>f, LegPlaced, RoleNames
<1>1. BookInv'
  BY <1>f, <1>t, <1>o DEF Safe, BookInv
<1>2. BracketInv'
  <2>1. Entry(launch)' = Entry(launch)
    BY <1>o, <1>t, <1>f
  <2>2. orders'[launch]["target"] = orders[launch]["target"]
    BY <1>o, <1>t, RoleNames
  <2> QED BY <1>f, <1>t, <1>o, <2>1, <2>2 DEF Safe, BracketInv
<1>3. FlagInv'
  BY <1>f, <1>t DEF Safe, FlagInv, EntryPcs
<1>4. TrackInv'
  BY <1>f, <1>t DEF Safe, TrackInv, EntryPcs, ClosePcs, CancelPcs
<1>5. EngineInv'
  BY <1>f, <1>t DEF Safe, EngineInv, EntryPcs, BarPcs
<1>6. EntryInv'
  <2> SUFFICES ASSUME ~log.lostEntry PROVE EntryInv!2'
    BY <1>f DEF EntryInv
  <2>1. EntryInv!2
    BY DEF Safe, EntryInv
  <2>2. \A n \in Launches, leg \in Legs : orders'[n][leg].status # "none" => Entry(n)'.filled > 0
    BY <1>o, <1>t, <2>1
  <2> QED BY <1>f, <1>t, <1>o, <2>1, <2>2 DEF EntryPcs, Live
<1>7. LegInv'
  <2> SUFFICES ASSUME ~log.lostEntry, ~log.partial PROVE Covered'
    BY <1>f DEF LegInv
  <2>1. Covered
    BY DEF Safe, LegInv
  <2>2. \A n \in Launches, leg \in Legs : orders'[n][leg].status # "none" =>
           orders'[n][leg].qty = Entry(n)'.filled /\ Entry(n)'.status # "open"
    BY <1>o, <1>t, <2>1 DEF Covered
  <2>3. \A n \in Launches : orders'[n]["stop"].status = "filled" => pos' <= 0
    BY <1>f, <1>o, <2>1, RoleNames DEF Covered
  <2> QED BY <1>f, <1>t, <1>o, <2>1, <2>2, <2>3 DEF Covered
<1>8. FirstInv'
  BY <1>f, <1>t, <1>o DEF Safe, FirstInv, Settled, EntryPcs
<1>9. LogInv'
  BY <1>f, <1>t DEF Safe, LogInv
<1> QED BY <1>1, <1>2, <1>3, <1>4, <1>5, <1>6, <1>7, <1>8, <1>9 DEF Safe

\* The target is placed and the broker tracks the bracket.
LEMMA TargetSafe == ASSUME TypeOK, Safe, TypeOK', PlaceTarget PROVE Safe'
<1>t. /\ p \in Process /\ orders \in Book /\ launch \in Launches /\ p.pc = "e_target"
      /\ p.position = 0 /\ p.ret = "none" /\ p.engine = "in" /\ ~p.taken /\ p.lastBar
      /\ p.seen \in 0..Size /\ p.seen > 0 /\ p.seen <= Entry(launch).filled
      /\ Entry(launch).filled \in Nat /\ Entry(launch).filled > 0
  BY BracketFacts DEF PlaceTarget
<1>s. SUFFICES ASSUME Place("target", p.seen), UNCHANGED log,
                      p' = [p EXCEPT !.pc = "e_save", !.position = p.seen, !.seen = 0,
                               !.stop = launch, !.target = launch, !.taken = TRUE]
               PROVE  Safe'
  <2> DEFINE next == [p EXCEPT !.pc = "e_save", !.position = p.seen, !.seen = 0,
                               !.stop = launch, !.target = launch, !.taken = TRUE]
  <2>1. PlaceCall("target", p.seen, next) /\ UNCHANGED <<pos, disk, launch>>
    BY DEF PlaceTarget
  <2> HIDE DEF next
  <2>2. Drops \/ (Place("target", p.seen) /\ p' = next /\ UNCHANGED log)
    BY <1>t, <2>1, PlaceCases, RoleNames
  <2> QED BY <2>2, DropsSafe DEF next
<1>f. /\ p'.pc = "e_save" /\ p'.position = p.seen /\ p'.position > 0 /\ p'.stop = launch /\ p'.target = launch
      /\ p'.taken /\ p'.adopted = p.adopted /\ p'.engine = "in"
      /\ p'.minute = p.minute /\ p'.lastBar = p.lastBar /\ p'.ret = "none"
      /\ UNCHANGED <<pos, launch, log>> /\ TakenToday' = TakenToday
  BY <1>s, <1>t DEF Process, PlaceTarget, TakenToday
<1>o. /\ \A n \in Launches : Entry(n)' = Entry(n)
      /\ \A n \in Launches, q \in Legs : n # launch \/ q # "target" => orders'[n][q] = orders[n][q]
      /\ orders'[launch]["target"].status = "open" /\ orders'[launch]["target"].qty = p.seen
      /\ \A n \in Launches : n > launch => Untouched(n)'
  BY <1>s, <1>t, <1>f, LegPlaced, RoleNames
<1>z. Entry(launch)' = Entry(launch) /\ launch # 0
      /\ orders'[launch]["stop"] = orders[launch]["stop"]
  BY <1>o, <1>t, <1>f, RoleNames DEF Launches
<1>1. BookInv'
  BY <1>f, <1>t, <1>o DEF Safe, BookInv
<1>2. BracketInv'
  BY <1>f, <1>t, <1>z DEF Safe, BracketInv
<1>3. FlagInv'
  BY <1>f, <1>t DEF Safe, FlagInv, EntryPcs
<1>4. TrackInv'
  BY <1>f, <1>t DEF Safe, TrackInv, EntryPcs, ClosePcs, CancelPcs
<1>5. EngineInv'
  BY <1>f, <1>t DEF Safe, EngineInv, EntryPcs, BarPcs
<1>6. EntryInv'
  <2> SUFFICES ASSUME ~log.lostEntry PROVE EntryInv!2'
    BY <1>f DEF EntryInv
  <2>1. EntryInv!2
    BY DEF Safe, EntryInv
  <2>2. \A n \in Launches, leg \in Legs : orders'[n][leg].status # "none" => Entry(n)'.filled > 0
    BY <1>o, <1>t, <2>1
  <2>3. \A n \in Launches, leg \in Legs : orders'[n][leg].status = "open" => n = launch
    BY <1>o, <1>t, NoneLives DEF EntryPcs
  <2> QED BY <1>f, <1>t, <1>o, <2>1, <2>2, <2>3, RoleNames DEF EntryPcs, Live
<1>7. LegInv'
  <2> SUFFICES ASSUME ~log.lostEntry, ~log.partial PROVE Covered'
    BY <1>f DEF LegInv
  <2>1. Covered
    BY DEF Safe, LegInv
  <2>2. \A n \in Launches, leg \in Legs : orders'[n][leg].status # "none" =>
           orders'[n][leg].qty = Entry(n)'.filled /\ Entry(n)'.status # "open"
    BY <1>o, <1>t, <2>1 DEF Covered
  <2>3. \A n \in Launches : orders'[n]["stop"].status = "filled" => pos' <= 0
    BY <1>f, <1>o, <2>1, RoleNames DEF Covered, Legs
  <2>4. Status("stop", p.stop)' \notin {"none", "cancelled"}
    BY <1>f, <1>t, <1>z DEF Status, Safe, BracketInv
  <2> QED BY <1>f, <1>t, <1>o, <2>1, <2>2, <2>3, <2>4 DEF Covered
<1>8. FirstInv'
  BY <1>f, <1>t, <1>o, <1>z DEF Safe, FirstInv, Settled, EntryPcs, FlagInv
<1>9. LogInv'
  BY <1>f, <1>t DEF Safe, LogInv
<1> QED BY <1>1, <1>2, <1>3, <1>4, <1>5, <1>6, <1>7, <1>8, <1>9 DEF Safe

-----------------------------------------------------------------------------
(* The exchange                                                              *)

\* An entry fills by one contract more.
LEMMA FillEntrySafe ==
    ASSUME TypeOK, Safe, TypeOK', NEW n \in Launches, FillEntry(n)
    PROVE  Safe'
<1>t. /\ p \in Process /\ orders \in Book /\ pos \in Int
      /\ \A m \in Launches : Entry(m).filled \in Nat /\ Entry(m).qty \in Nat
      /\ Entry(n).status = "open" /\ Entry(n).filled < Entry(n).qty /\ Entry(n).filled + 1 \in 0..Size
  <2>1. p \in Process /\ orders \in Book /\ pos \in Int
    BY DEF TypeOK, Book
  <2>2. \A m \in Launches : Entry(m).filled \in Nat /\ Entry(m).qty \in 0..Size
    BY <2>1, OrderFields, RoleNames DEF Entry
  <2>3. Entry(n).status = "open" /\ Entry(n).filled < Entry(n).qty
    BY DEF FillEntry, Entry, Safe, BookInv
  <2> QED BY <2>1, <2>2, <2>3
<1>f. /\ UNCHANGED <<p, launch, log, disk>> /\ TakenToday' = TakenToday /\ pos' = pos + 1
  BY DEF FillEntry, Own, TakenToday
<1>o. /\ Only(n, "entry") /\ Entry(n)'.filled = Entry(n).filled + 1 /\ Entry(n)'.qty = Entry(n).qty
      /\ Entry(n)'.status \in {"open", "filled"}
      /\ Entry(n)'.status = "open" => Entry(n)'.filled < Entry(n)'.qty
  <2>1. CASE Entry(n).filled + 1 = Entry(n).qty
    <3>1. Fills(n, "entry", Entry(n).filled + 1, "filled")
      BY <2>1 DEF FillEntry, Entry, Fills
    <3>2. /\ Only(n, "entry") /\ Entry(n)'.filled = Entry(n).filled + 1
          /\ Entry(n)'.qty = Entry(n).qty /\ Entry(n)'.status = "filled"
      BY <1>t, <3>1, FillEffect, RoleNames DEF Entry
    <3> QED BY <3>2
  <2>2. CASE Entry(n).filled + 1 # Entry(n).qty
    <3>1. Fills(n, "entry", Entry(n).filled + 1, "open")
      BY <2>2 DEF FillEntry, Entry, Fills
    <3>2. /\ Only(n, "entry") /\ Entry(n)'.filled = Entry(n).filled + 1
          /\ Entry(n)'.qty = Entry(n).qty /\ Entry(n)'.status = "open"
      BY <1>t, <3>1, FillEffect, RoleNames DEF Entry
    <3> QED BY <1>t, <2>2, <3>2
  <2> QED BY <2>1, <2>2
<1>e. \A m \in Launches : m # n => Entry(m)' = Entry(m)
  BY <1>o, RoleNames DEF Only, Entry
<1>g. \A m \in Launches, leg \in Legs : orders'[m][leg] = orders[m][leg]
  BY <1>o, RoleNames DEF Only, Legs
<1>x. \A m \in Launches : /\ Entry(m)'.filled >= Entry(m).filled
                          /\ Entry(m).filled > 0 => Entry(m)'.filled > 0
                          /\ Live(Entry(m))' <=> Live(Entry(m))
                          /\ Entry(m)'.status = "open" => Entry(m).status = "open"
  BY <1>t, <1>o, <1>e DEF Live
<1>k. Status("stop", p.stop)' = Status("stop", p.stop) /\ Status("target", p.target)' = Status("target", p.target)
  <2>1. p.stop \in 0..MaxLaunches /\ p.target \in 0..MaxLaunches
    BY <1>t, Fields
  <2> QED BY <1>f, <1>g, <2>1, RoleNames DEF Status, Launches
<1>u. \A m \in Launches : Untouched(m) => Untouched(m)' /\ m # n
  BY <1>t, <1>o, RoleNames DEF Untouched, Only, Entry, NoOrder
<1>1. BookInv'
  BY <1>t, <1>f, <1>o, <1>e, <1>u DEF Safe, BookInv
<1>2. BracketInv'
  <2>1. p.pc # "down" => launch \in Launches
    BY DEF Safe, BookInv
  <2>2. p.pc \in {"e_await", "e_stop", "e_target"} => p.seen \in Nat
    BY <1>t, Fields
  <2>3. launch \in Launches => Entry(launch)'.filled >= Entry(launch).filled /\ Entry(launch)'.filled \in Nat
    BY <1>f, <1>x, <1>o, <1>e, <1>t
  <2> QED BY <1>t, <1>f, <1>g, <2>1, <2>2, <2>3, RoleNames DEF Safe, BracketInv
<1>3. FlagInv'
  BY <1>f DEF Safe, FlagInv
<1>4. TrackInv'
  BY <1>f, <1>k DEF Safe, TrackInv
<1>5. EngineInv'
  BY <1>f DEF Safe, EngineInv
<1>6. EntryInv'
  <2> SUFFICES ASSUME ~log.lostEntry PROVE EntryInv!2'
    BY <1>f DEF EntryInv
  <2>1. EntryInv!2
    BY DEF Safe, EntryInv
  <2>2. \A m \in Launches : Entry(m)'.status = "open" =>
          (m = launch /\ p.pc = "e_await") \/ (log.partial /\ Entry(m)'.filled > 0)
    BY <1>x, <2>1
  <2>3. ~ \A m \in Launches : Entry(m)'.filled = 0
    BY <1>o, <1>t
  <2> QED BY <1>f, <1>g, <1>x, <2>1, <2>2, <2>3, RoleNames
<1>7. LegInv'
  <2> SUFFICES ASSUME ~log.lostEntry, ~log.partial PROVE Covered'
    BY <1>f DEF LegInv
  <2>1. Covered /\ EntryInv!2
    BY DEF Safe, LegInv, EntryInv
  <2>2. n = launch /\ p.pc = "e_await" /\ p.position = 0
    BY <1>t, <2>1 DEF Safe, TrackInv, EntryPcs
  <2>3. \A m \in Launches, leg \in Legs : orders[m][leg].status = "none"
    <3>1. \A leg \in Legs : orders[n][leg].status = "none"
      BY <1>t, <2>1 DEF Covered
    <3>2. \A m \in Launches, leg \in Legs : orders[m][leg].status # "none" => m = n
      BY <2>2, NoneLives DEF EntryPcs
    <3> QED BY <3>1, <3>2
  <2>4. \A m \in Launches : m # n => Entry(m).filled = 0
    BY <1>t, <2>1 DEF Live
  <2>5. pos <= Entry(n).filled
    BY <1>t, <2>1, <2>4 DEF Covered
  <2>6. \A m \in Launches : Entry(m)'.filled > 0 => pos' <= Entry(m)'.filled
    BY <1>t, <1>f, <1>o, <1>e, <2>4, <2>5
  <2> QED BY <1>f, <1>g, <2>2, <2>3, <2>6, RoleNames DEF Covered, BarPcs
<1>8. FirstInv'
  <2> SUFFICES ASSUME launch = 1, ~log.lostEntry PROVE FirstInv!2'
    BY <1>f DEF FirstInv
  <2>1. FirstInv!2 /\ EntryInv!2 /\ 1 \in Launches
    BY DEF Safe, FirstInv, EntryInv, TypeOK, Launches
  <2>2. Settled => log.partial /\ (n = 1 => Entry(1).filled > 0)
    BY <1>t, <2>1 DEF Settled, EntryPcs
  <2>3. Settled' = Settled
    BY <1>f DEF Settled
  <2>4. Entry(1).filled > 0 => Entry(1)'.filled > 0
    BY <1>x, <2>1
  <2>5. Settled => (Entry(1)'.filled > 0 <=> Entry(1).filled > 0)
    BY <1>e, <2>1, <2>2, <2>4
  <2> QED BY <1>f, <2>1, <2>2, <2>3, <2>4, <2>5
<1>9. LogInv'
  BY <1>f DEF Safe, LogInv
<1> QED BY <1>1, <1>2, <1>3, <1>4, <1>5, <1>6, <1>7, <1>8, <1>9 DEF Safe

\* A resting leg fills in full.
LEMMA FillLegSafe ==
    ASSUME TypeOK, Safe, TypeOK', NEW n \in Launches, NEW leg \in Legs, FillLeg(n, leg)
    PROVE  Safe'
<1>t. /\ p \in Process /\ orders \in Book /\ pos \in Int /\ orders[n][leg].qty \in Nat
      /\ orders[n][leg].qty \in 0..Size
      /\ orders[n][leg].status = "open" /\ \A m \in Launches : Entry(m).filled \in Nat
  BY OrderFields, RoleNames DEF TypeOK, Book, FillLeg, Entry
<1>f. /\ UNCHANGED <<p, launch, log, disk>> /\ TakenToday' = TakenToday
      /\ pos' = pos - orders[n][leg].qty /\ pos' <= pos
  BY <1>t DEF FillLeg, Own, TakenToday
<1>o. /\ Only(n, leg) /\ orders'[n][leg].status = "filled" /\ orders'[n][leg].qty = orders[n][leg].qty
  <2>1. leg \in Roles
    BY RoleNames
  <2>2. Fills(n, leg, orders[n][leg].qty, "filled")
    BY DEF FillLeg, Fills
  <2> QED BY <1>t, <2>1, <2>2, FillEffect
<1>e. \A m \in Launches : Entry(m)' = Entry(m)
  BY <1>o, RoleNames DEF Only, Entry, Legs
<1>g. \A m \in Launches, q \in Legs : m # n \/ q # leg => orders'[m][q] = orders[m][q]
  BY <1>o, RoleNames DEF Only
<1>h. \A m \in Launches, q \in Legs :
         /\ orders'[m][q].status = "none" <=> orders[m][q].status = "none"
         /\ orders'[m][q].status = "open" => orders[m][q].status = "open"
         /\ orders'[m][q].status = "cancelled" => orders[m][q].status = "cancelled"
         /\ orders'[m][q].qty = orders[m][q].qty
  BY <1>t, <1>o, <1>g
<1>k. /\ Status("stop", p.stop)' = "open" => Status("stop", p.stop) = "open"
      /\ Status("target", p.target)' = "open" => Status("target", p.target) = "open"
      /\ Status("stop", p.stop)' = "cancelled" => Status("stop", p.stop) = "cancelled"
      /\ p.stop # 0 /\ Status("stop", p.stop)' = "none" => Status("stop", p.stop) = "none"
  <2>1. p.stop \in 0..MaxLaunches /\ p.target \in 0..MaxLaunches
    BY <1>t, Fields
  <2> QED BY <1>f, <1>h, <2>1, RoleNames DEF Status, Launches
<1>u. \A m \in Launches : Untouched(m) => Untouched(m)' /\ m # n
  BY <1>t, <1>o, RoleNames DEF Untouched, Only, NoOrder
<1>1. BookInv'
  BY <1>f, <1>e, <1>u DEF Safe, BookInv
<1>2. BracketInv'
  <2>1. p.pc # "down" => launch \in Launches
    BY DEF Safe, BookInv
  <2> QED BY <1>f, <1>e, <1>h, <2>1, RoleNames DEF Safe, BracketInv
<1>3. FlagInv'
  BY <1>f DEF Safe, FlagInv
<1>4. TrackInv'
  BY <1>f, <1>k DEF Safe, TrackInv
<1>5. EngineInv'
  BY <1>f DEF Safe, EngineInv
<1>6. EntryInv'
  <2> SUFFICES ASSUME ~log.lostEntry PROVE EntryInv!2'
    BY <1>f DEF EntryInv
  <2>1. EntryInv!2
    BY DEF Safe, EntryInv
  <2>2. Entry(n).filled > 0
    BY <1>t, <2>1
  <2> QED BY <1>f, <1>e, <1>h, <2>1, <2>2, RoleNames DEF Live
<1>7. LegInv'
  <2> SUFFICES ASSUME ~log.lostEntry, ~log.partial PROVE Covered'
    BY <1>f DEF LegInv
  <2>1. Covered /\ EntryInv!2
    BY DEF Safe, LegInv, EntryInv
  <2>2. Entry(n).filled > 0 /\ orders[n][leg].qty = Entry(n).filled /\ pos <= Entry(n).filled
    BY <1>t, <2>1 DEF Covered
  <2>3. pos' <= 0
    BY <1>t, <1>f, <2>2
  <2>4. p.pc # "c_price"
    <3> SUFFICES ASSUME p.pc = "c_price" PROVE FALSE
      OBVIOUS
    <3>1. p.position > 0 /\ Status("stop", p.stop) # "open" /\ Status("target", p.target) # "open"
      BY DEF Safe, TrackInv, ClosePcs
    <3> QED BY <1>t, <2>1, <3>1 DEF Legs, Status, Launches
  <2>5. \A m \in Launches : Entry(m)'.filled > 0 => pos' <= Entry(m)'.filled
    BY <1>t, <1>f, <1>e, <2>3
  <2>6. p.pc \in {"e_stop", "e_target"} => launch \in Launches
    BY DEF Safe, BookInv
  <2>7. Covered!1'
    BY <1>f, <1>e, <2>1, <2>6 DEF Covered
  <2>8. Covered!2'
    BY <1>e, <1>h, <2>1 DEF Covered
  <2> QED BY <1>f, <1>k, <2>1, <2>3, <2>4, <2>5, <2>7, <2>8 DEF Covered
<1>8. FirstInv'
  <2> SUFFICES ASSUME launch = 1, ~log.lostEntry PROVE FirstInv!2'
    BY <1>f DEF FirstInv
  <2>1. FirstInv!2 /\ 1 \in Launches
    BY DEF Safe, FirstInv, TypeOK, Launches
  <2>2. Working # {}
    <3>1. <<n, leg>> \in Working
      BY <1>t, RoleNames DEF Working
    <3> QED BY <3>1
  <2>3. Settled' = Settled
    BY <1>f DEF Settled
  <2> QED BY <1>f, <1>e, <2>1, <2>2, <2>3
<1>9. LogInv'
  BY <1>f DEF Safe, LogInv
<1> QED BY <1>1, <1>2, <1>3, <1>4, <1>5, <1>6, <1>7, <1>8, <1>9 DEF Safe

\* The exchange rejects a resting order.
LEMMA RejectSafe ==
    ASSUME TypeOK, Safe, TypeOK', NEW n \in Launches, NEW r \in Roles, Reject(n, r)
    PROVE  Safe'
<1>t. /\ p \in Process /\ orders \in Book /\ orders[n][r].status = "open"
  BY DEF TypeOK, Book, Reject
<1>f. /\ UNCHANGED <<p, launch, log, disk, pos>> /\ TakenToday' = TakenToday
  BY <1>t DEF Reject, Own, TakenToday
<1>o. /\ Only(n, r) /\ orders'[n][r].status = "rejected" /\ orders'[n][r].qty = orders[n][r].qty
      /\ orders'[n][r].filled = orders[n][r].filled
  BY <1>t, StatusEffect DEF Reject
<1>h. \A m \in Launches, q \in Roles :
         /\ orders'[m][q].status = "none" <=> orders[m][q].status = "none"
         /\ orders'[m][q].status = "open" => orders[m][q].status = "open"
         /\ orders'[m][q].status = "filled" => orders[m][q].status = "filled"
         /\ orders'[m][q].status = "cancelled" => orders[m][q].status = "cancelled"
         /\ orders'[m][q].qty = orders[m][q].qty /\ orders'[m][q].filled = orders[m][q].filled
  BY <1>t, <1>o DEF Only
<1>e. \A m \in Launches : /\ Entry(m)'.filled = Entry(m).filled /\ Entry(m)'.qty = Entry(m).qty
                          /\ Entry(m)'.status = "open" => Entry(m).status = "open"
                          /\ Entry(m)'.status = "filled" => Entry(m).status = "filled"
                          /\ Entry(m)'.status = "none" => Entry(m).status = "none"
                          /\ Live(Entry(m))' => Live(Entry(m))
  BY <1>h, RoleNames DEF Entry, Live
<1>k. /\ Status("stop", p.stop)' = "open" => Status("stop", p.stop) = "open"
      /\ Status("target", p.target)' = "open" => Status("target", p.target) = "open"
      /\ Status("stop", p.stop)' = "cancelled" => Status("stop", p.stop) = "cancelled"
      /\ p.stop # 0 /\ Status("stop", p.stop)' = "none" => Status("stop", p.stop) = "none"
  <2>1. p.stop \in 0..MaxLaunches /\ p.target \in 0..MaxLaunches
    BY <1>t, Fields
  <2> QED BY <1>f, <1>h, <2>1, RoleNames DEF Status, Launches
<1>u. \A m \in Launches : Untouched(m) => Untouched(m)'
  BY <1>t, <1>o DEF Untouched, Only, NoOrder
<1>g. \A m \in Launches, q \in Legs :
         /\ orders'[m][q].status = "none" <=> orders[m][q].status = "none"
         /\ orders'[m][q].status = "open" => orders[m][q].status = "open"
         /\ orders'[m][q].status = "filled" => orders[m][q].status = "filled"
         /\ orders'[m][q].status = "cancelled" => orders[m][q].status = "cancelled"
         /\ orders'[m][q].qty = orders[m][q].qty
  BY <1>h, RoleNames
<1>1. BookInv'
  BY <1>f, <1>e, <1>u DEF Safe, BookInv
<1>2. BracketInv'
  <2>1. p.pc # "down" => launch \in Launches
    BY DEF Safe, BookInv
  <2>2. launch \in Launches => Entry(launch)'.filled = Entry(launch).filled
    BY <1>e, <1>f
  <2> QED BY <1>f, <1>g, <2>1, <2>2, RoleNames DEF Safe, BracketInv
<1>3. FlagInv'
  BY <1>f DEF Safe, FlagInv
<1>4. TrackInv'
  BY <1>f, <1>k DEF Safe, TrackInv
<1>5. EngineInv'
  BY <1>f DEF Safe, EngineInv
<1>6. EntryInv'
  <2> SUFFICES ASSUME ~log.lostEntry PROVE EntryInv!2'
    BY <1>f DEF EntryInv
  <2>1. EntryInv!2
    BY DEF Safe, EntryInv
  <2> QED BY <1>f, <1>e, <1>g, <2>1, RoleNames
<1>7. LegInv'
  <2> SUFFICES ASSUME ~log.lostEntry, ~log.partial PROVE Covered'
    BY <1>f DEF LegInv
  <2>1. Covered
    BY DEF Safe, LegInv
  <2>2. p.pc # "down" => launch \in Launches
    BY DEF Safe, BookInv
  <2> QED BY <1>f, <1>e, <1>g, <1>k, <2>1, <2>2, RoleNames DEF Covered
<1>8. FirstInv'
  <2> SUFFICES ASSUME launch = 1, ~log.lostEntry PROVE FirstInv!2'
    BY <1>f DEF FirstInv
  <2>1. FirstInv!2 /\ 1 \in Launches
    BY DEF Safe, FirstInv, TypeOK, Launches
  <2>2. Working' \subseteq Working
    BY <1>h DEF Working
  <2>3. Settled' = Settled
    BY <1>f DEF Settled
  <2> QED BY <1>f, <1>e, <2>1, <2>2, <2>3
<1>9. LogInv'
  BY <1>f DEF Safe, LogInv
<1> QED BY <1>1, <1>2, <1>3, <1>4, <1>5, <1>6, <1>7, <1>8, <1>9 DEF Safe

\* A step that neither the process nor the exchange takes.
LEMMA IdleSafe ==
    ASSUME Safe, UNCHANGED <<pos, orders, disk, p, launch, log>>
    PROVE  Safe'
BY DEF Safe, BookInv, BracketInv, FlagInv, TrackInv, EngineInv, EntryInv, LegInv, Covered,
   FirstInv, LogInv, Settled, Working, Entry, Untouched, Status, TakenToday, Live

-----------------------------------------------------------------------------
(* The theorems                                                              *)

\* The inductive invariant holds at the start of the day.
LEMMA InitSafe == ASSUME Init PROVE IInv
<1>1. orders \in [Launches -> [Roles -> Order]] /\ \A n \in Launches : Untouched(n)
  <2>1. NoOrder \in Order
    BY DEF NoOrder, Order
  <2> QED BY <2>1 DEF Init, Untouched
<1>2. TypeOK
  <2>1. /\ pos \in Int /\ stopReq \in BOOLEAN /\ p \in Process /\ launch \in 0..MaxLaunches
        /\ faults \in 0..MaxFaults
    <3>1. p \in Process
      BY NoProcessType DEF Init
    <3>2. pos \in Int /\ launch \in 0..MaxLaunches /\ faults \in 0..MaxFaults
      BY DEF Init
    <3>3. stopReq \in BOOLEAN
      BY DEF Init
    <3> QED BY <3>1, <3>2, <3>3
  <2>2. log \in LogType
    BY DEF Init, LogType, Outcomes
  <2>3. disk \in DiskType
    BY DEF Init, DiskType
  <2> QED BY <1>1, <2>1, <2>2, <2>3 DEF TypeOK, LogType, DiskType
<1>3. /\ p = NoProcess /\ launch = 0 /\ pos = 0 /\ ~TakenToday
      /\ log.trades = 0 /\ log.outcome = "none"
  BY DEF Init, TakenToday
<1>4. /\ p.pc = "down" /\ p.position = 0 /\ ~p.taken /\ ~p.adopted /\ p.ret = "none" /\ p.stop = 0
  BY <1>3 DEF NoProcess
<1>5. \A n \in Launches : /\ Entry(n).status = "none" /\ Entry(n).filled = 0
                          /\ \A leg \in Legs : orders[n][leg].status = "none"
  BY <1>1, RoleNames DEF Untouched, NoOrder, Entry
<1>6. BookInv /\ BracketInv /\ FlagInv /\ TrackInv
  BY <1>1, <1>3, <1>4, <1>5 DEF BookInv, BracketInv, FlagInv, TrackInv, EntryPcs, ClosePcs, CancelPcs
<1>7. EngineInv /\ FirstInv /\ LogInv
  BY <1>3, <1>4 DEF EngineInv, FirstInv, LogInv, EntryPcs, BarPcs
<1>8. EntryInv /\ LegInv
  BY <1>3, <1>4, <1>5, RoleNames DEF EntryInv, LegInv, Covered, EntryPcs, BarPcs, Live
<1> QED BY <1>2, <1>6, <1>7, <1>8 DEF IInv, Safe

\* Every step keeps it.
LEMMA NextSafe == ASSUME IInv, [Next]_vars PROVE IInv'
<1>1. TypeOK /\ Safe
  BY DEF IInv
<1>2. TypeOK'
  BY <1>1, NextType DEF Safe
<1>3. Safe'
  <2>1. CASE UNCHANGED vars
    BY <1>1, <2>1, IdleSafe DEF vars
  <2>2. CASE RequestStop
    BY <1>1, <2>2, IdleSafe DEF RequestStop, exchange
  <2>3. CASE Exchange
    BY <1>1, <1>2, <2>3, FillEntrySafe, FillLegSafe, RejectSafe DEF Exchange
  <2>4. CASE Crash \/ \E auto \in BOOLEAN : Launch(auto)
    BY <1>1, <1>2, <2>4, CrashSafe, LaunchSafe
  <2>5. CASE Startup \/ Reconcile \/ Adopt \/ Save
    BY <1>1, <1>2, <2>5, StartupSafe, ReconcileSafe, AdoptSafe, SaveSafe
  <2>6. CASE \/ NextBar \/ MissingBar \/ FeedFails \/ FeedEnds \/ FeedSkipsDay \/ TickStops
             \/ PollOnTick \/ PollOnBar \/ LossCap \/ EngineQuiet \/ EngineCloses \/ BarEnds
    <3>1. Quiet \/ Closes \/ Fails \/ Leaves
      BY <1>1, <2>6, LoopEffect DEF Safe
    <3> QED BY <1>1, <1>2, <3>1, QuietSafe, ClosesSafe, FailsSafe, LeavesSafe
  <2>7. CASE OpeningRange
    BY <1>1, <1>2, <2>7, OpensSafe
  <2>8. CASE SendEntry \/ AwaitFill \/ FillTimesOut \/ PlaceStop \/ PlaceTarget
    BY <1>1, <1>2, <2>8, SendSafe, AwaitSafe, StopSafe, TargetSafe
  <2>9. CASE Cancel \/ CheckStatus
    <3>1. Advances \/ Fails
      BY <1>1, <2>9, CancelEffect DEF Safe
    <3> QED BY <1>1, <1>2, <3>1, AdvancesSafe, FailsSafe
  <2>10. CASE CheckFlat \/ CloseContract \/ Flatten \/ CooperativeStop \/ HandleError
    <3>1. Advances \/ Fails \/ Leaves
      BY <1>1, <2>10, CloseEffect DEF Safe
    <3> QED BY <1>1, <1>2, <3>1, AdvancesSafe, FailsSafe, LeavesSafe
  <2>11. CASE ResolvePrice \/ JournalTrade \/ AlarmNaked
    BY <1>1, <1>2, <2>11, ForgetSafe, JournalSafe, AlarmSafe
  <2> QED BY <2>1, <2>2, <2>3, <2>4, <2>5, <2>6, <2>7, <2>8, <2>9, <2>10, <2>11 DEF Next, Step
<1> QED BY <1>2, <1>3 DEF IInv

\* The inductive invariant is one.
THEOREM Invariant == Spec => []IInv
BY InitSafe, NextSafe, PTL DEF Spec

\* Every variable of a live day keeps its type.
THEOREM TypeCorrect == Spec => []TypeOK
<1>1. IInv => TypeOK
  BY DEF IInv
<1> QED BY <1>1, Invariant, PTL

\* A second entry reaches the exchange only after an earlier one was lost: no stop,
\* skipped day, failed flatten or crash at another point leads a relaunch into a
\* second trade, however many processes the day sees.
THEOREM OneEntry == Spec => []OneEntryUnlessLost
<1>1. ASSUME IInv, ~log.lostEntry PROVE ~(Cardinality(LiveEntries) > 1)
  <2>1. \A m, n \in LiveEntries : m = n
    BY <1>1 DEF LiveEntries, IInv, Safe, EntryInv, Entry
  <2>2. CASE LiveEntries = {}
    BY <2>2, FS_EmptySet
  <2>3. CASE LiveEntries # {}
    <3>1. PICK n : LiveEntries = {n}
      BY <2>1, <2>3
    <3> QED BY <3>1, FS_Singleton
  <2> QED BY <2>2, <2>3
<1>2. IInv => OneEntryUnlessLost
  BY <1>1 DEF OneEntryUnlessLost
<1> QED BY <1>2, Invariant, PTL

\* Between bars, a tracked position with a stop that the exchange did not reject is
\* covered by that stop for every contract that is open.
THEOREM StopCovers == Spec => []StopCoversPosition
<1>1. ASSUME IInv, p.pc = "wait", p.position > 0, p.stop # 0, pos > 0, ~log.lostEntry,
             ~log.partial, Status("stop", p.stop) # "rejected"
      PROVE  Status("stop", p.stop) = "open" /\ orders[p.stop]["stop"].qty >= pos
  <2>1. Covered /\ EntryInv!2
    BY <1>1 DEF IInv, Safe, LegInv, EntryInv
  <2>2. p.stop \in Launches /\ orders \in Book /\ pos \in Int
    <3>1. p.stop \in 0..MaxLaunches /\ orders \in Book /\ pos \in Int
      BY <1>1, Fields DEF IInv, TypeOK, Book
    <3> QED BY <1>1, <3>1 DEF Launches
  <2>3. orders[p.stop]["stop"].status \notin {"none", "cancelled", "filled", "rejected"}
    BY <1>1, <2>1, <2>2 DEF Covered, Status, BarPcs
  <2>4. orders[p.stop]["stop"].status = "open"
    BY <2>2, <2>3, OrderFields, RoleNames DEF Terminal
  <2>5. /\ orders[p.stop]["stop"].qty = Entry(p.stop).filled
        /\ Entry(p.stop).filled > 0 /\ pos <= Entry(p.stop).filled
    BY <2>1, <2>2, <2>4, RoleNames DEF Covered
  <2>6. Entry(p.stop).filled \in Nat
    BY <2>2, OrderFields, RoleNames DEF Entry
  <2> QED BY <1>1, <2>2, <2>4, <2>5, <2>6 DEF Status
<1>2. IInv => StopCoversPosition
  BY <1>1 DEF StopCoversPosition
<1> QED BY <1>2, Invariant, PTL

\* The day's first session, when it ends by itself, leaves the account flat with no
\* working order, or has raised NakedPositionAlarm.
THEOREM FlatAtEnd == Spec => []FlatOrAlarmed
<1>1. ASSUME IInv, p.pc = "down", launch = 1, ~log.lostEntry, ~log.partial
      PROVE  \/ pos = 0 /\ Working = {}
             \/ log.outcome \in {"crashed", "errored_naked"}
  <2>1. p.position = 0
    BY <1>1 DEF IInv, Safe, TrackInv
  <2> QED BY <1>1, <2>1 DEF IInv, Safe, FirstInv, Settled, EntryPcs
<1>2. IInv => FlatOrAlarmed
  BY <1>1 DEF FlatOrAlarmed, IInv, Safe, LogInv
<1> QED BY <1>2, Invariant, PTL

\* A day's only session, when it ends by itself, journalled each entry that filled
\* once, and nothing else.
THEOREM JournalledOnce == Spec => []EveryTradeJournalledOnce
<1>1. ASSUME IInv, p.pc = "down", launch = 1, ~log.lostEntry,
             log.outcome \in {"clean", "coop", "errored_flat"}
      PROVE  log.trades = Cardinality({n \in Entries : orders[n]["entry"].filled > 0})
  <2> DEFINE F == {n \in Entries : orders[n]["entry"].filled > 0}
  <2>1. log.trades = IF Entry(1).filled > 0 THEN 1 ELSE 0
    BY <1>1 DEF IInv, Safe, FirstInv, TrackInv, Settled, EntryPcs
  <2>2. \A n \in Launches : n # 1 => Entry(n).filled = 0
    BY <1>1, RoleNames DEF IInv, Safe, BookInv, Untouched, NoOrder, Entry, Launches
  <2>3. 1 \in Launches
    BY <1>1 DEF IInv, TypeOK, Launches
  <2>4. CASE Entry(1).filled > 0
    <3>1. Entry(1).status # "none"
      BY <1>1, <2>3, <2>4 DEF IInv, Safe, BookInv
    <3>2. F = {1}
      BY <2>2, <2>3, <2>4, <3>1 DEF Entries, Entry
    <3> QED BY <2>1, <2>4, <3>2, FS_Singleton
  <2>5. CASE ~(Entry(1).filled > 0)
    <3>1. F = {}
      BY <2>2, <2>5 DEF Entries, Entry
    <3> QED BY <2>1, <2>5, <3>1, FS_EmptySet
  <2> QED BY <2>4, <2>5
<1>2. IInv => EveryTradeJournalledOnce
  BY <1>1 DEF EveryTradeJournalledOnce
<1> QED BY <1>2, Invariant, PTL

\* The broker forgets a position only in the last step of a close: both of its legs are
\* dead by then, and the account is flat unless an entry was lost or is still filling.
THEOREM ForgetsWhenDone == Spec => ForgetsOnlyWhenDone
<1> DEFINE Forgets == p.position > 0 /\ p'.position = 0 /\ p'.pc # "down"
           Done == /\ Status("stop", p.stop) # "open" /\ Status("target", p.target) # "open"
                   /\ (~log.lostEntry /\ ~log.partial => pos = 0)
<1>1. ASSUME IInv, Next, Forgets PROVE ResolvePrice
  <2>1. TypeOK /\ Safe /\ p \in Process /\ p.position \in Nat
    BY <1>1, Fields DEF IInv, TypeOK
  <2>2. ~(Quiet \/ Closes \/ Fails \/ Advances \/ Leaves)
    BY <1>1, <2>1 DEF Quiet, Closes, Fails, Advances, Leaves, Holds, Thrown, Gone
  <2>3. ~(\/ NextBar \/ MissingBar \/ FeedFails \/ FeedEnds \/ FeedSkipsDay \/ TickStops
          \/ PollOnTick \/ PollOnBar \/ LossCap \/ EngineQuiet \/ EngineCloses \/ BarEnds)
    BY <2>1, <2>2, LoopEffect DEF Safe
  <2>4. ~(\/ Cancel \/ CheckStatus \/ CheckFlat \/ CloseContract \/ Flatten
          \/ CooperativeStop \/ HandleError)
    BY <2>1, <2>2, CancelEffect, CloseEffect DEF Safe
  <2>5. ~(Startup \/ Reconcile \/ Adopt \/ JournalTrade)
    <3>1. p.pc \notin {"startup", "reconcile", "adopt", "c_journal"}
      BY <1>1, <2>1 DEF Safe, TrackInv
    <3> QED BY <3>1 DEF Startup, Reconcile, Adopt, JournalTrade
  <2>6. ~(SendEntry \/ AwaitFill \/ FillTimesOut \/ PlaceStop \/ PlaceTarget)
    BY <1>1, <2>1 DEF Safe, TrackInv, EntryPcs, SendEntry, AwaitFill, FillTimesOut,
       PlaceStop, PlaceTarget
  <2>7. ~OpeningRange
    BY <1>1, <2>1 DEF OpeningRange, Safe, EngineInv, BarPcs
  <2>8. ~Save
    <3>1. p' = AfterSave /\ p.pc \in SavePcs => p'.position = p.position
      BY <2>1 DEF AfterSave, SavePcs, Goto, Process
    <3>2. Ends(EndOf(p.ret)) => p'.pc = "down"
      BY DEF Ends, NoProcess
    <3> QED BY <1>1, <3>1, <3>2 DEF Save
  <2>9. ~(AlarmNaked \/ Crash \/ RequestStop \/ Exchange)
    <3>1. ~(AlarmNaked \/ Crash)
      BY <1>1, GoneEffect DEF AlarmNaked, Crash, Gone
    <3>2. RequestStop \/ Exchange => UNCHANGED p
      BY DEF RequestStop, Exchange, FillEntry, FillLeg, Reject, Own
    <3> QED BY <1>1, <2>1, <3>1, <3>2
  <2>10. ~ \E auto \in BOOLEAN : Launch(auto)
    BY <1>1, <2>1 DEF Launch, Safe, TrackInv
  <2> QED BY <1>1, <2>3, <2>4, <2>5, <2>6, <2>7, <2>8, <2>9, <2>10 DEF Next, Step
<1>2. ASSUME IInv, [Next]_vars, Forgets PROVE Done
  <2>1. Next
    BY <1>2 DEF vars
  <2>2. p.pc = "c_price" /\ p.position > 0
    BY <1>1, <1>2, <2>1 DEF ResolvePrice
  <2> QED BY <1>2, <2>2 DEF IInv, Safe, TrackInv, LegInv, Covered
<1>3. IInv /\ [Next]_vars => [Forgets => Done]_vars
  BY <1>2
<1> QED BY <1>3, Invariant, PTL DEF Spec, ForgetsOnlyWhenDone

\* A process that adopted a position sends no entry order, and none is sent once
\* state.json knows of today's trade.
THEOREM AdoptedNeverEnters == Spec => AdoptedNeverReenters
<1>1. ASSUME IInv, Next, p.adopted \/ (disk.taken /\ disk.today) PROVE Entries' = Entries
  <2>1. TypeOK /\ Safe /\ orders \in Book
    BY <1>1 DEF IInv, TypeOK, Book
  <2>2. ~SendEntry
    BY <1>1, <2>1 DEF SendEntry, Safe, FlagInv, EntryPcs, TakenToday
  <2>3. ASSUME NEW n \in Launches, NEW r \in Roles, Only(n, r),
               r = "entry" => (orders'[n][r].status = "none" <=> orders[n][r].status = "none")
        PROVE  Entries' = Entries
    <3>1. \A m \in Launches : orders'[m]["entry"].status = "none" <=> orders[m]["entry"].status = "none"
      BY <2>3, RoleNames DEF Only
    <3> QED BY <3>1 DEF Entries
  <2>4. ASSUME PlaceStop \/ PlaceTarget PROVE Entries' = Entries
    <3>1. p.pc \in {"e_stop", "e_target"} /\ UNCHANGED launch
      BY <2>4 DEF PlaceStop, PlaceTarget
    <3>2. UNCHANGED orders \/ \E leg \in Legs : Place(leg, p.seen)
      BY <2>4, RoleNames DEF PlaceStop, PlaceTarget, PlaceCall
    <3>3. \A m \in Launches : Entry(m)' = Entry(m)
      BY <2>1, <3>1, <3>2, LegPlaced DEF Entry
    <3> QED BY <3>3 DEF Entries, Entry
  <2>5. ASSUME Cancel PROVE Entries' = Entries
    <3>1. Mild
      BY <2>1, <2>5, CancelMild DEF Cancel
    <3> QED BY <3>1, MildEffect DEF Entries, Entry
  <2>6. ASSUME Exchange PROVE Entries' = Entries
    <3>1. ASSUME NEW n \in Launches, FillEntry(n) PROVE Entries' = Entries
      <4>1. PICK s \in {"open", "filled"} : Fills(n, "entry", Entry(n).filled + 1, s)
        BY <3>1 DEF FillEntry, Entry, Fills
      <4>2. Entry(n).status = "open" /\ Entry(n).filled + 1 \in 0..Size
        <5>1. Entry(n).filled \in Nat /\ Entry(n).qty \in 0..Size
          BY <2>1, OrderFields, RoleNames DEF Entry
        <5> QED BY <3>1, <2>1, <5>1 DEF FillEntry, Entry, Safe, BookInv
      <4>3. Only(n, "entry") /\ orders'[n]["entry"].status = s
        BY <2>1, <4>1, <4>2, FillEffect, RoleNames
      <4> QED BY <2>3, <4>2, <4>3, RoleNames DEF Entry
    <3>2. ASSUME NEW n \in Launches, NEW leg \in Legs, FillLeg(n, leg) PROVE Entries' = Entries
      <4>1. Fills(n, leg, orders[n][leg].qty, "filled")
        BY <3>2 DEF FillLeg, Fills
      <4>2. leg \in Roles /\ leg # "entry" /\ orders[n][leg].qty \in 0..Size
        BY <2>1, OrderFields, RoleNames DEF Legs
      <4>3. Only(n, leg)
        BY <2>1, <4>1, <4>2, FillEffect
      <4> QED BY <2>3, <4>2, <4>3
    <3>3. ASSUME NEW n \in Launches, NEW r \in Roles, Reject(n, r) PROVE Entries' = Entries
      <4>1. Only(n, r) /\ orders'[n][r].status = "rejected" /\ orders[n][r].status = "open"
        BY <2>1, <3>3, StatusEffect DEF Reject
      <4> QED BY <2>3, <4>1
    <3> QED BY <2>6, <3>1, <3>2, <3>3 DEF Exchange
  <2>7. ASSUME Next, ~(SendEntry \/ PlaceStop \/ PlaceTarget \/ Cancel \/ Exchange)
        PROVE  Entries' = Entries
    <3>1. UNCHANGED orders
      BY <2>7 DEF Next, Step, Startup, Save, Reconcile, Adopt, NextBar, MissingBar,
         FeedSkipsDay, FeedFails, FeedEnds, TickStops, PollOnTick, PollOnBar, LossCap,
         EngineQuiet, OpeningRange, EngineCloses, BarEnds, AwaitFill, FillTimesOut,
         CheckStatus, CheckFlat, CloseContract, ResolvePrice, JournalTrade, CooperativeStop,
         HandleError, Flatten, AlarmNaked, Launch, RequestStop, Crash, exchange
    <3> QED BY <3>1 DEF Entries
  <2> QED BY <1>1, <2>2, <2>4, <2>5, <2>6, <2>7
<1>2. IInv /\ [Next]_vars => [p.adopted \/ (disk.taken /\ disk.today) => Entries' = Entries]_vars
  BY <1>1
<1> QED BY <1>2, Invariant, PTL DEF Spec, AdoptedNeverReenters
====
