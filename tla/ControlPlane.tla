---------------------------- MODULE ControlPlane ----------------------------
(***************************************************************************)
(* One day of the control plane (src/ops): commands of TradingService         *)
(* (operator, Telegram controller, watchdog), the supervisors they launch and *)
(* the --auto runners these launch.  They share control.json (ControlStore),  *)
(* runtime.json (RuntimeStore), the process lock and state.json's flag.       *)
(*                                                                         *)
(* RuntimeStore.write reads, merges and writes without a lock: another  *)
(* writer may come between, of supervisors and of start() alike.              *)
(* A supervisor launches one runner a day, so process s is supervisor s with  *)
(* runner s.  A runner's session is what LiveSession says of it: it trades at *)
(* most once, and exits with code 0 only after it left the account flat.      *)
(***************************************************************************)
EXTENDS Integers, FiniteSets

CONSTANTS
    Operators,    \* who start and stop: the CLI, the Telegram controller
    Watchdogs,    \* the scheduled recovery task, at most one instance
    Modes,        \* "paper", "live": the modes that are requested
    MaxStarts,    \* bound: start commands in the day
    MaxKills,     \* bound: supervisors and runners that die
    MaxSplits     \* bound: updates of runtime.json interrupted by another's

ASSUME ControlAssumption ==
    /\ Modes \subseteq {"paper", "live"} /\ IsFiniteSet(Operators \union Watchdogs)
    /\ MaxStarts \in Nat \ {0} /\ MaxKills \in Nat /\ MaxSplits \in Nat

VARIABLES
    requested,  \* control.json: requested_mode
    runtime,    \* runtime.json
    caller,     \* the commands in progress
    sup,        \* supervisors by number
    runner,     \* the runners they launched
    lock,       \* holder of orbbot.lock, 0 when free
    taken,      \* state.json: trade_taken
    open,       \* the account holds a position
    bounds,     \* starts and kills so far
    seen        \* what happened; no code reads it

vars == <<requested, runtime, caller, sup, runner, lock, taken, open, bounds, seen>>

Callers == Operators \union Watchdogs
Pids == 1..MaxStarts
Codes == {"none", "ok", "failed"}      \* no exit code, 0, any other

Runtime == [sup : 0..MaxStarts, runner : 0..MaxStarts, exit : Codes,
            mode : {"stopped", "starting", "stopping", "paper", "live", "completed"},
            flat : BOOLEAN]
\* What load() returns without a file.
NoFile == [sup |-> 0, runner |-> 0, exit |-> "none", mode |-> "stopped", flat |-> FALSE]
\* No load() of the file is pending.
NoSnap == [NoFile EXCEPT !.sup = -1]

NoSupervisor == [pc |-> "none", desired |-> "stopped", child |-> 0,
                 launched |-> FALSE, code |-> "none", snap |-> NoSnap]
NoRunner == [pc |-> "none", mode |-> "paper", code |-> "none"]
Idle == [pc |-> "idle", mode |-> "stopped", pid |-> 0, snap |-> NoSnap]

Init ==
    /\ requested = "stopped"
    /\ runtime = NoFile
    /\ caller = [c \in Callers |-> Idle]
    /\ sup = [s \in Pids |-> NoSupervisor]
    /\ runner = [s \in Pids |-> NoRunner]
    /\ lock = 0
    /\ taken = FALSE
    /\ open = FALSE
    /\ bounds = [starts |-> 0, kills |-> 0, splits |-> 0]
    /\ seen = [raced |-> FALSE, overlap |-> FALSE, orphaned |-> FALSE]

SupAlive(s) == s # 0 /\ sup[s].pc \notin {"none", "dead"}
RunnerAlive(s) == runner[s].pc \notin {"none", "dead"}

\* RuntimeStore.write: merge the updates into what load() returned, replace.
Merge(snap, updates) ==
    /\ runtime' = [f \in DOMAIN snap |-> IF f \in DOMAIN updates THEN updates[f] ELSE snap[f]]
    /\ seen' = [seen EXCEPT !.overlap = @ \/ snap # runtime]

\* A writer that has loaded (snap) writes; one that has not may be interrupted
\* by other writers after its load, or loads and writes at once.
Interrupted(snap) == snap = NoSnap /\ bounds.splits < MaxSplits
                     /\ bounds' = [bounds EXCEPT !.splits = @ + 1]
                     /\ UNCHANGED <<runtime, seen>>
Written(snap, updates) == Merge(IF snap = NoSnap THEN runtime ELSE snap, updates)
                          /\ UNCHANGED bounds

-----------------------------------------------------------------------------
(* TradingService                                                            *)

Starting == {"preflight", "launch", "record"}
Step(c, pc) == caller' = [caller EXCEPT ![c].pc = pc]
Done(c) == caller' = [caller EXCEPT ![c] = Idle]

\* Mutant: start() trusts the recorded pid less than it should.
CheckNothing(c, mode) ==
    /\ caller' = [caller EXCEPT ![c].pc = "preflight", ![c].mode = mode]
    /\ seen' = [seen EXCEPT !.raced = @ \/ \E d \in Callers : caller[d].pc \in Starting]

\* start(): refused, or found running, while the recorded supervisor is alive.
Check(c, mode) ==
    IF SupAlive(runtime.sup) THEN Done(c) /\ UNCHANGED seen
    ELSE /\ caller' = [caller EXCEPT ![c].pc = "preflight", ![c].mode = mode]
         /\ seen' = [seen EXCEPT !.raced = @ \/ \E d \in Callers : caller[d].pc \in Starting]

\* The operator starts a mode.
Ask(c) ==
    /\ c \in Operators
    /\ caller[c].pc = "idle" /\ bounds.starts < MaxStarts
    /\ bounds' = [bounds EXCEPT !.starts = @ + 1]
    /\ \E mode \in Modes : Check(c, mode)
    /\ UNCHANGED <<requested, runtime, sup, runner, lock, taken, open>>

\* The watchdog finds a mode requested and no supervisor, and starts that mode.
Watch(c) ==
    /\ c \in Watchdogs
    /\ caller[c].pc = "idle" /\ bounds.starts < MaxStarts
    /\ requested # "stopped" /\ ~SupAlive(runtime.sup)
    /\ bounds' = [bounds EXCEPT !.starts = @ + 1]
    /\ caller' = [caller EXCEPT ![c].pc = "watch", ![c].mode = requested]
    /\ UNCHANGED <<requested, runtime, sup, runner, lock, taken, open, seen>>

WatchStarts(c) ==
    /\ caller[c].pc = "watch"
    /\ Check(c, caller[c].mode)
    /\ UNCHANGED <<requested, runtime, sup, runner, lock, taken, open, bounds>>

PreflightFails(c) ==
    /\ caller[c].pc = "preflight"
    /\ requested' = "stopped"
    /\ Done(c)
    /\ UNCHANGED <<runtime, sup, runner, lock, taken, open, bounds, seen>>

\* The preflight passed.  ControlStore.request: live needs a valid activation artifact.
Request(c) ==
    /\ caller[c].pc = "preflight"
    /\ \/ requested' = caller[c].mode /\ Step(c, "launch")
       \/ caller[c].mode = "live" /\ requested' = "stopped" /\ Done(c)
    /\ UNCHANGED <<runtime, sup, runner, lock, taken, open, bounds, seen>>

Launch(c) ==
    /\ caller[c].pc = "launch"
    /\ LET s == CHOOSE t \in Pids : sup[t].pc = "none" IN
         /\ sup' = [sup EXCEPT ![s].pc = "boot"]
         /\ caller' = [caller EXCEPT ![c].pc = "record", ![c].pid = s]
    /\ UNCHANGED <<requested, runtime, runner, lock, taken, open, bounds, seen>>

\* start()'s own update, after the launch.
Record(c) ==
    /\ caller[c].pc = "record"
    /\ \/ /\ Interrupted(caller[c].snap)
          /\ caller' = [caller EXCEPT ![c].snap = runtime]
       \/ /\ Written(caller[c].snap, [sup |-> caller[c].pid, mode |-> "starting"])
          /\ Done(c)
    /\ UNCHANGED <<requested, sup, runner, lock, taken, open>>

\* stop(): the intent is recorded, whatever runs.
Stop(c) ==
    /\ c \in Operators /\ caller[c].pc = "idle"
    /\ requested' = "stopped"
    /\ UNCHANGED <<runtime, caller, sup, runner, lock, taken, open, bounds, seen>>

Command(c) == WatchStarts(c) \/ PreflightFails(c) \/ Request(c)
              \/ Launch(c) \/ Record(c)

-----------------------------------------------------------------------------
(* Supervisor                                                                *)

SupGoto(s, pc) == sup' = [sup EXCEPT ![s].pc = pc]
SupOnly == UNCHANGED <<requested, caller, lock, taken, open, bounds>>

LastExit(s) == IF sup[s].snap = NoSnap THEN runtime.exit ELSE sup[s].snap.exit

\* The runtime.json updates, by the location they are made at, and what follows.
\* What a stop confirms is the exit code in the file, the last runner's.  What is recorded
\* of a failed account poll is last_error, which is not modelled: the file is written back.
Updates(s) ==
    CASE sup[s].pc = "boot"     -> [sup |-> s]
      [] sup[s].pc = "monitor"  -> <<>>
      [] sup[s].pc = "exited"   -> [runner |-> 0, exit |-> sup[s].code]
      [] sup[s].pc = "stopping" -> [mode |-> "stopping", flat |-> FALSE]
      [] sup[s].pc = "stopped"  -> [mode |-> "stopped", flat |-> LastExit(s) \in {"none", "ok"}]
      [] sup[s].pc = "launched" -> [mode |-> sup[s].desired, runner |-> sup[s].child,
                                    exit |-> "none", flat |-> FALSE]
      [] sup[s].pc = "beat"     -> [mode |-> IF sup[s].child # 0 THEN sup[s].desired
                                             ELSE "completed"]
      [] sup[s].pc = "last"     -> [sup |-> 0]

After == [boot |-> "tick", monitor |-> "read", exited |-> "decide", stopping |-> "tick", stopped |-> "last",
          launched |-> "beat", beat |-> "tick", last |-> "dead"]

\* The locals of tick() end with it, and all that it knows with the process.
Forget(pc, me) ==
    CASE pc = "dead" -> [NoSupervisor EXCEPT !.pc = pc]
      [] pc = "tick" -> [me EXCEPT !.pc = pc, !.snap = NoSnap, !.code = "none", !.desired = "stopped"]
      [] OTHER       -> [me EXCEPT !.pc = pc, !.snap = NoSnap, !.code = "none"]

SupUpdate(s) ==
    /\ sup[s].pc \in DOMAIN After
    /\ \/ /\ Interrupted(sup[s].snap)
          /\ sup' = [sup EXCEPT ![s].snap = runtime]
       \/ /\ Written(sup[s].snap, Updates(s))
          /\ sup' = [sup EXCEPT ![s] = Forget(After[sup[s].pc], sup[s])]
    /\ UNCHANGED <<requested, caller, runner, lock, taken, open>>

\* tick(): the account monitor is due and its poll raises, which an update records.  Unless
\* another writer comes between its load and its write, that update changes nothing here.
MonitorFails(s) ==
    /\ sup[s].pc = "tick"
    /\ Interrupted(sup[s].snap)
    /\ sup' = [sup EXCEPT ![s].pc = "monitor", ![s].snap = runtime]
    /\ UNCHANGED <<requested, caller, runner, lock, taken, open>>

\* After the account monitor the desired mode is read, and the child polled next.
Tick(s) ==
    /\ sup[s].pc \in {"tick", "read"}
    /\ sup' = [sup EXCEPT ![s].pc = "poll", ![s].desired = requested]
    /\ UNCHANGED <<runtime, runner, seen>> /\ SupOnly

ChildExited(s) == sup[s].child # 0 /\ runner[s].pc = "dead"

\* Mutant: the exit of the child is not recorded.
PollForgets(s) ==
    /\ sup[s].pc = "poll" /\ ChildExited(s)
    /\ sup' = [sup EXCEPT ![s].pc = "decide", ![s].child = 0]
    /\ UNCHANGED <<runtime, runner, seen>> /\ SupOnly

Poll(s) ==
    /\ sup[s].pc = "poll" /\ ChildExited(s)
    /\ sup' = [sup EXCEPT ![s].pc = "exited", ![s].child = 0, ![s].code = runner[s].code]
    /\ UNCHANGED <<runtime, runner, seen>> /\ SupOnly

\* The rest of the tick, at once when the child had not exited.
Decides(s) == sup[s].pc = "decide" \/ (sup[s].pc = "poll" /\ ~ChildExited(s))

\* Mutant: a stopped supervisor leaves its child behind.
DecideStopLeavesChild(s) ==
    /\ Decides(s) /\ sup[s].desired = "stopped"
    /\ SupGoto(s, "stopped")
    /\ UNCHANGED <<runtime, runner, seen>> /\ SupOnly

\* Mutant: a stopped supervisor goes on ticking.
DecideStopBeats(s) ==
    /\ Decides(s) /\ sup[s].desired = "stopped"
    /\ SupGoto(s, IF sup[s].child # 0 THEN "stopping" ELSE "beat")
    /\ UNCHANGED <<runtime, runner, seen>> /\ SupOnly

DecideStop(s) ==
    /\ Decides(s) /\ sup[s].desired = "stopped"
    /\ SupGoto(s, IF sup[s].child # 0 THEN "stopping" ELSE "stopped")
    /\ UNCHANGED <<runtime, runner, seen>> /\ SupOnly

DecideRun(s) ==
    /\ Decides(s) /\ sup[s].desired # "stopped"
    /\ IF sup[s].child = 0 /\ ~sup[s].launched
       THEN /\ runner' = [runner EXCEPT ![s].pc = "start", ![s].mode = sup[s].desired]
            /\ sup' = [sup EXCEPT ![s].pc = "launched", ![s].child = s, ![s].launched = TRUE]
       ELSE SupGoto(s, "beat") /\ UNCHANGED runner
    /\ UNCHANGED <<runtime, seen>> /\ SupOnly

Supervise(s) ==
    SupUpdate(s) \/ MonitorFails(s) \/ Tick(s) \/ Poll(s) \/ DecideStop(s) \/ DecideRun(s)

-----------------------------------------------------------------------------
(* run_auto: lock, gate, wait for 09:25, session, exit code                  *)

RunnerGoto(r, pc) == runner' = [runner EXCEPT ![r].pc = pc]
RunnerOnly == UNCHANGED <<requested, runtime, caller, sup, bounds, seen>>

\* The process ends; what it held of the lock is free.
Exit(r, code) ==
    /\ runner' = [runner EXCEPT ![r].pc = "dead", ![r].code = code]
    /\ lock' = IF lock = r THEN 0 ELSE lock

\* Mutant: contention is noticed and not acted upon.
AcquireAnyway(r) ==
    /\ runner[r].pc = "start"
    /\ IF taken THEN Exit(r, "ok") ELSE lock' = r /\ RunnerGoto(r, "wait")
    /\ UNCHANGED <<taken, open>> /\ RunnerOnly

\* ProcessLock.acquire never waits: a second process exits with 0; so does one
\* that should_run_today turns away, under the lock.
Acquire(r) ==
    /\ runner[r].pc = "start"
    /\ IF lock # 0 \/ taken THEN Exit(r, "ok") ELSE lock' = r /\ RunnerGoto(r, "wait")
    /\ UNCHANGED <<taken, open>> /\ RunnerOnly

Wait(r) ==
    /\ runner[r].pc = "wait"
    /\ IF requested = "stopped" THEN Exit(r, "ok") ELSE RunnerGoto(r, "session") /\ UNCHANGED lock
    /\ UNCHANGED <<taken, open>> /\ RunnerOnly

\* The session enters its trade; paper trades open nothing at the broker.
Enter(r) ==
    /\ runner[r].pc = "session" /\ ~taken
    /\ taken' = TRUE /\ open' = (runner[r].mode = "live")
    /\ UNCHANGED <<runner, lock>> /\ RunnerOnly

\* The session ends by itself, or because it sees the stop: flat, with code 0.
SessionEnds(r) ==
    /\ runner[r].pc = "session"
    /\ open' = FALSE
    /\ Exit(r, "ok")
    /\ UNCHANGED taken /\ RunnerOnly

\* SessionErrored or an aborted session: with code 1, flat or not.
SessionFails(r) ==
    /\ runner[r].pc = "session"
    /\ open' \in {open, FALSE}
    /\ Exit(r, "failed")
    /\ UNCHANGED taken /\ RunnerOnly

Run(r) == Acquire(r) \/ Wait(r) \/ Enter(r) \/ SessionEnds(r) \/ SessionFails(r)

-----------------------------------------------------------------------------
\* A supervisor dies and leaves its runner, or a runner is killed.
KillSupervisor(s) ==
    /\ SupAlive(s) /\ bounds.kills < MaxKills
    /\ bounds' = [bounds EXCEPT !.kills = @ + 1]
    /\ sup' = [sup EXCEPT ![s] = [NoSupervisor EXCEPT !.pc = "dead"]]
    /\ seen' = [seen EXCEPT !.orphaned = @ \/ RunnerAlive(s)]
    /\ UNCHANGED <<requested, runtime, caller, runner, lock, taken, open>>

KillRunner(r) ==
    /\ RunnerAlive(r) /\ bounds.kills < MaxKills
    /\ bounds' = [bounds EXCEPT !.kills = @ + 1]
    /\ Exit(r, "failed")
    /\ UNCHANGED <<requested, runtime, caller, sup, taken, open, seen>>

Next ==
    \/ \E c \in Callers : Ask(c) \/ Watch(c) \/ Stop(c) \/ Command(c)
    \/ \E s \in Pids : Supervise(s) \/ Run(s) \/ KillSupervisor(s) \/ KillRunner(s)

Spec == Init /\ [][Next]_vars

\* Processes keep running; nobody has to command anything.
FairSpec ==
    /\ Spec
    /\ \A c \in Callers : WF_vars(Command(c))
    /\ \A s \in Pids : WF_vars(Supervise(s)) /\ WF_vars(Run(s))

-----------------------------------------------------------------------------
(* Properties                                                                *)

\* Every variable keeps its type.
TypeOK ==
    /\ requested \in Modes \union {"stopped"}
    /\ runtime \in Runtime
    /\ \A s \in Pids :
          /\ sup[s].pc \in {"none", "tick", "read", "poll", "decide", "dead"} \union DOMAIN After
          /\ sup[s].child \in {0, s} /\ sup[s].code \in Codes
          /\ sup[s].desired \in Modes \union {"stopped"}
          /\ sup[s].snap \in Runtime \union {NoSnap}
          /\ runner[s].pc \in {"none", "start", "wait", "session", "dead"}
          /\ runner[s].code \in Codes
    /\ \A c \in Callers : caller[c].pc \in {"idle", "watch"} \union Starting
    /\ lock \in 0..MaxStarts /\ (lock # 0 => RunnerAlive(lock))
    /\ bounds.starts <= MaxStarts /\ bounds.kills <= MaxKills /\ bounds.splits <= MaxSplits

\* However many supervisors race or die, one runner at a time gets past the
\* process lock into its session.
OneTrader == Cardinality({r \in Pids : runner[r].pc \in {"wait", "session"}}) <= 1

\* start() launches no second supervisor beside a live one, unless two start()
\* calls overlap: the pid in runtime.json survives every concurrent update.
OneSupervisor == ~seen.raced => Cardinality({s \in Pids : SupAlive(s)}) <= 1

\* A stop cannot be missed: no mode is requested again before every runner that
\* was told to stop has exited, unless its supervisor died or start() calls overlap.
NoStartOverRunner ==
    [][(requested = "stopped" /\ requested' # "stopped" /\ ~seen.raced /\ ~seen.orphaned) =>
          \A r \in Pids : ~RunnerAlive(r)]_vars

\* Between ticks runtime.json names the runner that the only supervisor has, and
\* confirms no flat broker under it, as long as no update overwrote another's.
StatusMatchesChild ==
    \A s \in Pids :
        (sup[s].pc = "tick" /\ sup[s].launched /\ ~seen.raced /\ ~seen.overlap) =>
            /\ runtime.runner = sup[s].child
            /\ sup[s].child # 0 => ~runtime.flat

\* A stop that stands ends every runner, supervised or orphaned, and every
\* supervisor.
StopEndsAll ==
    <>[](requested = "stopped") =>
        <>[](\A s \in Pids : ~SupAlive(s) /\ ~RunnerAlive(s))

\* The runbook: after a stop, a stopped runner and the broker-flat confirmation
\* are authoritative.
FlatIsConfirmed ==
    (/\ requested = "stopped" /\ ~SupAlive(runtime.sup)
     /\ runtime.mode = "stopped" /\ runtime.runner = 0 /\ runtime.flat) => ~open
=============================================================================
