------------------------ MODULE ControlPlane_proofs ------------------------
(***************************************************************************)
(* Proofs about the control plane, for any number of commands, deaths and     *)
(* interrupted updates: the type invariant, mutual exclusion of the runners   *)
(* and of the supervisors, and what runtime.json says of them.                *)
(***************************************************************************)
EXTENDS ControlPlane, FiniteSetTheorems, TLAPS

USE ControlAssumption

-----------------------------------------------------------------------------
(* The inductive invariant                                                   *)

SupPcs == {"none", "tick", "read", "poll", "decide", "dead",
           "boot", "monitor", "exited", "stopping", "stopped", "launched", "beat", "last"}
CallerPcs == {"idle", "watch", "preflight", "launch", "record"}
Snap == Runtime \union {NoSnap}

Supervisor == [pc : SupPcs, desired : Modes \union {"stopped"}, child : 0..MaxStarts,
               launched : BOOLEAN, code : Codes, snap : Snap]
Runner == [pc : {"none", "start", "wait", "session", "dead"},
           mode : Modes \union {"paper", "stopped"}, code : Codes]
Caller == [pc : CallerPcs, mode : Modes \union {"stopped"}, pid : 0..MaxStarts, snap : Snap]
Bounds == [starts : 0..MaxStarts, kills : 0..MaxKills, splits : 0..MaxSplits]
Seen == [raced : BOOLEAN, overlap : BOOLEAN, orphaned : BOOLEAN]

\* The whole state, typed.
Types ==
    /\ requested \in Modes \union {"stopped"}
    /\ runtime \in Runtime
    /\ caller \in [Callers -> Caller]
    /\ sup \in [Pids -> Supervisor]
    /\ runner \in [Pids -> Runner]
    /\ lock \in 0..MaxStarts
    /\ bounds \in Bounds
    /\ seen \in Seen

\* Every start command launches at most one supervisor: one that has still to launch
\* finds a number.
Used == {s \in Pids : sup[s].pc # "none"}
Pending == {c \in Callers : caller[c].pc \in {"watch", "preflight", "launch"}}
NumberInv == Cardinality(Used) + Cardinality(Pending) <= bounds.starts

\* What a supervisor has for a child, by where it is.
ChildInv ==
    \A s \in Pids :
        /\ sup[s].child \in {0, s}
        /\ sup[s].pc = "none" => sup[s] = NoSupervisor
        /\ sup[s].pc \in {"dead", "boot", "exited", "decide", "stopped", "last"} => sup[s].child = 0
        /\ sup[s].pc = "stopping" => sup[s].child = s

\* The locations of _run_auto_locked after its gate, and of the session.
PastLock == {"wait", "session"}

\* Who is past the process lock holds it, and its holder lives.
LockInv ==
    /\ \A r \in Pids : runner[r].pc \in PastLock => lock = r
    /\ lock # 0 => RunnerAlive(lock)

\* A runner that lives is its supervisor's child, unless that died over it.
OrphanInv == ~seen.orphaned => \A r \in Pids : RunnerAlive(r) => sup[r].child = r

\* While start() calls do not overlap: one call at a time is past its check, it passed
\* because no supervisor lived, what lives since is what it launched, and runtime.json
\* and every pending copy of it name the supervisor that has booted.
OneStart ==
    \A c, d \in Callers : caller[c].pc \in Starting /\ caller[d].pc \in Starting => c = d
StartsAlone ==
    \A c \in Callers : caller[c].pc \in {"preflight", "launch"} => \A s \in Pids : ~SupAlive(s)
RecordsIts ==
    \A c \in Callers : caller[c].pc = "record" => \A s \in Pids : SupAlive(s) => s = caller[c].pid
FileNames ==
    \A s \in Pids : SupAlive(s) =>
        \/ runtime.sup = s
        \/ sup[s].pc = "boot" /\ \E c \in Callers : caller[c].pc = "record" /\ caller[c].pid = s
CopyNames ==
    \A s \in Pids : SupAlive(s) /\ sup[s].snap # NoSnap => sup[s].pc = "boot" \/ sup[s].snap.sup = s

RaceInv == ~seen.raced => OneStart /\ StartsAlone /\ RecordsIts /\ FileNames /\ CopyNames

\* While no update overwrote another's either: what runtime.json says of the runner, and
\* where its supervisor is while it names it.
Naming == {"tick", "monitor", "read", "poll", "beat"}
TellsOf(s) ==
    sup[s].launched =>
        /\ sup[s].pc \notin {"none", "dead", "boot"}
        /\ sup[s].pc \in Naming \union {"decide", "stopping"} => runtime.runner = sup[s].child
        /\ sup[s].pc \in Naming /\ sup[s].child # 0 => ~runtime.flat

StatusInv == ~seen.raced /\ ~seen.overlap => \A s \in Pids : TellsOf(s)

Inv == NumberInv /\ ChildInv /\ LockInv /\ OrphanInv /\ RaceInv /\ StatusInv

-----------------------------------------------------------------------------
(* Types                                                                     *)

\* What the starting values are.
LEMMA StartValues ==
    /\ NoFile \in Runtime /\ NoSnap \in Snap /\ NoSnap \notin Runtime
    /\ NoSupervisor \in Supervisor /\ NoRunner \in Runner /\ Idle \in Caller
<1>1. NoFile \in Runtime /\ NoSnap \in Snap /\ NoSnap \notin Runtime
  BY DEF NoFile, Runtime, Codes, Snap, NoSnap
<1>2. NoSupervisor \in Supervisor
  BY <1>1 DEF NoSupervisor, Supervisor, SupPcs, Codes
<1>3. NoRunner \in Runner
  BY DEF NoRunner, Runner, Codes
<1>4. Idle \in Caller
  BY <1>1 DEF Idle, Caller, CallerPcs
<1> QED BY <1>1, <1>2, <1>3, <1>4

\* Where the updates of runtime.json are made.
LEMMA Places ==
    DOMAIN After = {"boot", "monitor", "exited", "stopping", "stopped", "launched", "beat", "last"}
BY DEF After

\* The initial state.
LEMMA InitTypes == Init => Types
BY StartValues DEF Init, Types, Bounds, Seen

ModesShown == {"stopped", "starting", "stopping", "paper", "live", "completed"}

\* g is what RuntimeStore.write makes of a copy.
Merged(old, updates, g) ==
    g = [f \in DOMAIN old |-> IF f \in DOMAIN updates THEN updates[f] ELSE old[f]]

\* The updates that set broker_flat.
LEMMA FlatUpdate ==
    ASSUME NEW old \in Runtime, NEW flat \in BOOLEAN, NEW mode \in ModesShown, NEW g,
           Merged(old, [mode |-> mode, flat |-> flat], g)
    PROVE  /\ g \in Runtime /\ g.flat = flat
           /\ g.sup = old.sup /\ g.runner = old.runner
BY DEF Merged, Runtime, ModesShown

\* The update after a launch.
LEMMA LaunchUpdate ==
    ASSUME NEW old \in Runtime, NEW flat \in BOOLEAN, NEW mode \in ModesShown,
           NEW child \in 0..MaxStarts, NEW g,
           Merged(old, [mode |-> mode, runner |-> child, exit |-> "none", flat |-> flat], g)
    PROVE  /\ g \in Runtime /\ g.flat = flat
           /\ g.sup = old.sup /\ g.runner = child
BY DEF Merged, Runtime, ModesShown, Codes

\* What a write leaves in runtime.json: the updates, and of the rest the copy that was
\* loaded; it overlaps when that copy is not the file.
LEMMA WriteRecord ==
    ASSUME Types, NEW old \in Runtime, NEW pid \in 0..MaxStarts,
           Merge(old, [sup |-> pid, mode |-> "starting"])
    PROVE  /\ runtime' \in Runtime /\ seen' \in Seen
           /\ runtime'.sup = pid /\ runtime'.runner = old.runner /\ runtime'.flat = old.flat
           /\ seen'.raced = seen.raced /\ seen'.orphaned = seen.orphaned
           /\ ~seen'.overlap => old = runtime /\ ~seen.overlap
<1>1. /\ runtime' \in Runtime
      /\ runtime'.sup = pid /\ runtime'.runner = old.runner /\ runtime'.flat = old.flat
  BY DEF Merge, Runtime
<1>2. /\ seen' \in Seen
      /\ seen'.raced = seen.raced /\ seen'.orphaned = seen.orphaned
      /\ ~seen'.overlap => old = runtime /\ ~seen.overlap
  BY DEF Types, Merge, Seen
<1> QED BY <1>1, <1>2

\* The same for the updates of a supervisor.
LEMMA WriteUpdate ==
    ASSUME Types, NEW s \in Pids, NEW old \in Runtime, sup[s].pc \in DOMAIN After,
           Merge(old, Updates(s))
    PROVE  /\ runtime' \in Runtime /\ seen' \in Seen
           /\ runtime'.sup = CASE sup[s].pc = "boot" -> s
                               [] sup[s].pc = "last" -> 0
                               [] OTHER              -> old.sup
           /\ runtime'.runner = CASE sup[s].pc = "exited"   -> 0
                                  [] sup[s].pc = "launched" -> sup[s].child
                                  [] OTHER                  -> old.runner
           /\ sup[s].pc \in {"launched", "stopping"} => ~runtime'.flat
           /\ sup[s].pc \in {"boot", "monitor", "beat", "exited"} => runtime'.flat = old.flat
           /\ seen'.raced = seen.raced /\ seen'.orphaned = seen.orphaned
           /\ ~seen'.overlap => old = runtime /\ ~seen.overlap
<1>t. sup[s] \in Supervisor /\ s \in 0..MaxStarts /\ runtime \in Runtime /\ seen \in Seen
  BY DEF Types, Pids
<1>d. DOMAIN old = {"sup", "runner", "exit", "mode", "flat"}
  BY DEF Runtime
<1>u. runtime' = [f \in DOMAIN old |-> IF f \in DOMAIN Updates(s) THEN Updates(s)[f] ELSE old[f]]
  BY DEF Merge
<1>1. /\ seen' \in Seen
      /\ seen'.raced = seen.raced /\ seen'.orphaned = seen.orphaned
      /\ ~seen'.overlap => old = runtime /\ ~seen.overlap
  BY <1>t DEF Merge, Seen
<1>2. CASE sup[s].pc = "boot"
  <2>1. Updates(s) = [sup |-> s]
    BY <1>2 DEF Updates
  <2> QED BY <1>t, <1>u, <1>1, <1>2, <2>1 DEF Runtime
<1>3. CASE sup[s].pc = "exited"
  <2>1. Updates(s) = [runner |-> 0, exit |-> sup[s].code]
    BY <1>3 DEF Updates
  <2> QED BY <1>t, <1>u, <1>1, <1>3, <2>1 DEF Runtime, Supervisor
<1>4. CASE sup[s].pc = "stopping"
  <2>1. Updates(s) = [mode |-> "stopping", flat |-> FALSE]
    BY <1>4 DEF Updates
  <2>2. PICK flat \in BOOLEAN : ~flat /\ Merged(old, [mode |-> "stopping", flat |-> flat], runtime')
    BY <1>u, <2>1 DEF Merged
  <2>3. "stopping" \in ModesShown
    BY DEF ModesShown
  <2>4. /\ runtime' \in Runtime /\ runtime'.flat = flat
        /\ runtime'.sup = old.sup /\ runtime'.runner = old.runner
    BY <2>2, <2>3, FlatUpdate
  <2> QED BY <1>1, <1>4, <2>2, <2>4
<1>5. CASE sup[s].pc = "stopped"
  <2>1. Updates(s) = [mode |-> "stopped", flat |-> LastExit(s) \in {"none", "ok"}]
    BY <1>5 DEF Updates
  <2> DEFINE flat == LastExit(s) \in {"none", "ok"}
  <2>2. flat \in BOOLEAN
    OBVIOUS
  <2>3. Merged(old, [mode |-> "stopped", flat |-> flat], runtime')
    BY <1>u, <2>1 DEF Merged
  <2> HIDE DEF flat
  <2>4. "stopped" \in ModesShown
    BY DEF ModesShown
  <2>5. /\ runtime' \in Runtime
        /\ runtime'.sup = old.sup /\ runtime'.runner = old.runner
    BY <2>2, <2>3, <2>4, FlatUpdate
  <2> QED BY <1>1, <1>5, <2>5
<1>6. CASE sup[s].pc = "launched"
  <2>1. Updates(s) = [mode |-> sup[s].desired, runner |-> sup[s].child, exit |-> "none", flat |-> FALSE]
    BY <1>6 DEF Updates
  <2>2. sup[s].desired \in ModesShown /\ sup[s].child \in 0..MaxStarts
    BY <1>t DEF Supervisor, ModesShown
  <2>3. PICK flat \in BOOLEAN :
          /\ ~flat
          /\ Merged(old, [mode |-> sup[s].desired, runner |-> sup[s].child, exit |-> "none",
                          flat |-> flat], runtime')
    BY <1>u, <2>1 DEF Merged
  <2>4. /\ runtime' \in Runtime /\ runtime'.flat = flat
        /\ runtime'.sup = old.sup /\ runtime'.runner = sup[s].child
    BY <2>2, <2>3, LaunchUpdate
  <2> QED BY <1>1, <1>6, <2>3, <2>4
<1>7. CASE sup[s].pc = "beat"
  <2>1. Updates(s) = [mode |-> IF sup[s].child # 0 THEN sup[s].desired ELSE "completed"]
    BY <1>7 DEF Updates
  <2> QED BY <1>t, <1>u, <1>1, <1>7, <2>1 DEF Runtime, Supervisor
<1>8. CASE sup[s].pc = "last"
  <2>1. Updates(s) = [sup |-> 0]
    BY <1>8 DEF Updates
  <2> QED BY <1>t, <1>u, <1>1, <1>8, <2>1 DEF Runtime
<1>9. CASE sup[s].pc = "monitor"
  <2>1. Updates(s) = <<>> /\ DOMAIN <<>> = {}
    BY <1>9 DEF Updates
  <2>2. runtime' = [f \in DOMAIN old |-> old[f]]
    BY <1>u, <2>1
  <2>3. runtime' = old
    BY <2>2 DEF Runtime
  <2> QED BY <1>1, <1>9, <2>3
<1> QED BY <1>2, <1>3, <1>4, <1>5, <1>6, <1>7, <1>8, <1>9, Places

-----------------------------------------------------------------------------
(* What the steps of a command do                                            *)

\* Every other command is as it was.
OnlyCaller(c) == \A d \in Callers \ {c} : caller'[d] = caller[d]

\* A command that goes on.
LEMMA StepEffect ==
    ASSUME Types, NEW c \in Callers, NEW pc \in CallerPcs, Step(c, pc)
    PROVE  /\ caller' \in [Callers -> Caller] /\ OnlyCaller(c)
           /\ caller'[c].pc = pc /\ caller'[c].pid = caller[c].pid
BY DEF Types, Caller, Step, OnlyCaller

\* A command that ends.
LEMMA DoneEffect ==
    ASSUME Types, NEW c \in Callers, Done(c)
    PROVE  /\ caller' \in [Callers -> Caller] /\ OnlyCaller(c)
           /\ caller'[c].pc = "idle"
BY StartValues DEF Types, Done, OnlyCaller, Idle

\* A command that has learned the mode it starts.
LEMMA ModeEffect ==
    ASSUME Types, NEW c \in Callers, NEW pc \in CallerPcs, NEW mode \in Modes \union {"stopped"},
           caller' = [caller EXCEPT ![c].pc = pc, ![c].mode = mode]
    PROVE  /\ caller' \in [Callers -> Caller] /\ OnlyCaller(c)
           /\ caller'[c].pc = pc
<1>1. caller[c] \in Caller
  BY DEF Types
<1>2. [caller[c] EXCEPT !.pc = pc, !.mode = mode] \in Caller
  BY <1>1 DEF Caller
<1>3. caller' = [caller EXCEPT ![c] = [caller[c] EXCEPT !.pc = pc, !.mode = mode]]
  BY DEF Types
<1>4. caller'[c] = [caller[c] EXCEPT !.pc = pc, !.mode = mode]
  BY <1>3 DEF Types
<1> QED BY <1>1, <1>2, <1>3, <1>4 DEF Types, OnlyCaller, Caller

\* start(): it is refused, or passes its check while no supervisor that runtime.json
\* names lives; it races when another is past its check.
Refused(c) == caller'[c].pc = "idle" /\ seen' = seen
Passed(c) ==
    /\ caller'[c].pc = "preflight" /\ ~SupAlive(runtime.sup)
    /\ seen' \in Seen /\ seen'.overlap = seen.overlap /\ seen'.orphaned = seen.orphaned
    /\ ~seen'.raced => ~seen.raced /\ \A d \in Callers : caller[d].pc \notin Starting

\* What start()'s check does.
LEMMA CheckEffect ==
    ASSUME Types, NEW c \in Callers, NEW mode \in Modes \union {"stopped"}, Check(c, mode)
    PROVE  /\ caller' \in [Callers -> Caller] /\ OnlyCaller(c) /\ seen' \in Seen
           /\ Refused(c) \/ Passed(c)
<1>1. CASE SupAlive(runtime.sup)
  BY <1>1, DoneEffect DEF Check, Refused, Types
<1>2. CASE ~SupAlive(runtime.sup)
  <2>1. caller' = [caller EXCEPT ![c].pc = "preflight", ![c].mode = mode]
    BY <1>2 DEF Check
  <2>2. /\ caller' \in [Callers -> Caller] /\ OnlyCaller(c)
        /\ caller'[c].pc = "preflight"
    BY <2>1, ModeEffect DEF CallerPcs
  <2>3. PICK raced \in BOOLEAN :
          /\ raced = (seen.raced \/ \E d \in Callers : caller[d].pc \in Starting)
          /\ seen' = [seen EXCEPT !.raced = raced]
    BY <1>2 DEF Check, Types, Seen
  <2>4. seen' \in Seen /\ seen'.overlap = seen.overlap /\ seen'.orphaned = seen.orphaned /\ seen'.raced = raced
    BY <2>3 DEF Types, Seen
  <2>5. ~raced => ~seen.raced /\ \A d \in Callers : caller[d].pc \notin Starting
    BY <2>3
  <2> QED BY <1>2, <2>2, <2>4, <2>5 DEF Passed
<1> QED BY <1>1, <1>2

\* A number for the supervisor of a command that has still to launch it.
LEMMA NumberLeft ==
    ASSUME Types, NumberInv, NEW c \in Pending
    PROVE  \E s \in Pids : sup[s].pc = "none"
<1>1. IsFiniteSet(Pids) /\ Cardinality(Pids) = MaxStarts
  <2>1. 1 \in Int /\ MaxStarts \in Int /\ MaxStarts >= 1
    BY DEF Types
  <2> QED BY <2>1, FS_Interval DEF Pids
<1>2. IsFiniteSet(Callers)
  BY DEF Callers
<1>3. IsFiniteSet(Pending) /\ Cardinality(Pending) \in Nat
  BY <1>2, FS_Subset, FS_CardinalityType DEF Pending
<1>4. Cardinality(Pending) # 0
  BY <1>3, FS_EmptySet
<1>5. IsFiniteSet(Used) /\ Cardinality(Used) \in Nat
  BY <1>1, FS_Subset, FS_CardinalityType DEF Used
<1>6. Cardinality(Used) < Cardinality(Pids)
  BY <1>1, <1>3, <1>4, <1>5 DEF NumberInv, Types, Bounds
<1>7. Used # Pids
  BY <1>5, <1>6
<1> QED BY <1>7 DEF Used

\* The number that is launched.
LEMMA LaunchEffect ==
    ASSUME Types, NumberInv, NEW c \in Callers, Launch(c)
    PROVE  \E s \in Pids :
              /\ sup[s].pc = "none" /\ sup'[s] = [sup[s] EXCEPT !.pc = "boot"]
              /\ \A t \in Pids \ {s} : sup'[t] = sup[t]
              /\ sup' \in [Pids -> Supervisor]
              /\ caller' \in [Callers -> Caller] /\ OnlyCaller(c)
              /\ caller'[c].pc = "record" /\ caller'[c].pid = s
<1> DEFINE s == CHOOSE t \in Pids : sup[t].pc = "none"
<1>1. c \in Pending
  BY DEF Launch, Pending
<1>2. s \in Pids /\ sup[s].pc = "none"
  BY <1>1, NumberLeft
<1>3. /\ sup' = [sup EXCEPT ![s].pc = "boot"]
      /\ caller' = [caller EXCEPT ![c].pc = "record", ![c].pid = s]
  BY DEF Launch
<1> HIDE DEF s
<1>4. [sup[s] EXCEPT !.pc = "boot"] \in Supervisor
  BY <1>2 DEF Types, Supervisor, SupPcs
<1>5. sup' = [sup EXCEPT ![s] = [sup[s] EXCEPT !.pc = "boot"]]
  BY <1>3 DEF Types
<1>6. /\ sup' \in [Pids -> Supervisor] /\ sup'[s] = [sup[s] EXCEPT !.pc = "boot"]
      /\ \A t \in Pids \ {s} : sup'[t] = sup[t]
  BY <1>2, <1>4, <1>5 DEF Types
<1>7. caller[c] \in Caller /\ s \in 0..MaxStarts
  BY <1>2 DEF Types, Pids
<1>8. [caller[c] EXCEPT !.pc = "record", !.pid = s] \in Caller
  BY <1>7 DEF Caller, CallerPcs
<1>9. caller' = [caller EXCEPT ![c] = [caller[c] EXCEPT !.pc = "record", !.pid = s]]
  BY <1>3 DEF Types
<1>10. caller' \in [Callers -> Caller] /\ OnlyCaller(c)
  BY <1>8, <1>9 DEF Types, OnlyCaller
<1>11. caller'[c] = [caller[c] EXCEPT !.pc = "record", !.pid = s]
  BY <1>9 DEF Types
<1>12. caller'[c].pc = "record" /\ caller'[c].pid = s
  BY <1>7, <1>11 DEF Caller
<1> QED BY <1>2, <1>6, <1>10, <1>12

\* A writer is interrupted after its load, or writes what it loaded, or the file itself.
LEMMA WriterEffect ==
    ASSUME Types, NEW snap \in Snap, NEW updates,
           Interrupted(snap) \/ Written(snap, updates)
    PROVE  /\ bounds' \in Bounds /\ bounds'.starts = bounds.starts
           /\ Interrupted(snap) => UNCHANGED <<runtime, seen>> /\ snap = NoSnap
           /\ Written(snap, updates) =>
                \E old \in Runtime : /\ snap = NoSnap => old = runtime
                                     /\ snap # NoSnap => old = snap
                                     /\ Merge(old, updates)
<1>1. CASE Interrupted(snap)
  <2>1. bounds' \in Bounds /\ bounds'.starts = bounds.starts
    BY <1>1 DEF Interrupted, Types, Bounds
  <2> QED BY <1>1, <2>1 DEF Interrupted, Written, Types, Snap
<1>2. CASE Written(snap, updates)
  BY <1>2 DEF Written, Interrupted, Types, Snap
<1> QED BY <1>1, <1>2

\* start()'s own update.
LEMMA RecordEffect ==
    ASSUME Types, NEW c \in Callers, Record(c)
    PROVE  /\ caller' \in [Callers -> Caller] /\ OnlyCaller(c)
           /\ bounds' \in Bounds /\ bounds'.starts = bounds.starts
           /\ \/ /\ caller'[c].pc = "record" /\ caller'[c].pid = caller[c].pid
                 /\ UNCHANGED <<runtime, seen>>
              \/ /\ caller'[c].pc = "idle"
                 /\ runtime' \in Runtime /\ seen' \in Seen /\ runtime'.sup = caller[c].pid
                 /\ seen'.raced = seen.raced /\ seen'.orphaned = seen.orphaned
                 /\ ~seen'.overlap => /\ ~seen.overlap
                                      /\ runtime'.runner = runtime.runner
                                      /\ runtime'.flat = runtime.flat
<1>t. caller[c] \in Caller /\ caller[c].snap \in Snap /\ caller[c].pid \in 0..MaxStarts
      /\ runtime \in Snap
  BY DEF Types, Caller, Snap
<1>1. CASE /\ Interrupted(caller[c].snap)
           /\ caller' = [caller EXCEPT ![c].snap = runtime]
  <2>1. [caller[c] EXCEPT !.snap = runtime] \in Caller
    BY <1>t DEF Caller
  <2>2. caller' = [caller EXCEPT ![c] = [caller[c] EXCEPT !.snap = runtime]]
    BY <1>1 DEF Types
  <2>3. caller' \in [Callers -> Caller] /\ OnlyCaller(c)
    BY <2>1, <2>2 DEF Types, OnlyCaller
  <2>4. caller'[c] = [caller[c] EXCEPT !.snap = runtime]
    BY <2>2 DEF Types
  <2>5. caller'[c].pc = "record" /\ caller'[c].pid = caller[c].pid
    BY <1>t, <2>4 DEF Record, Caller
  <2> QED BY <1>1, <1>t, <2>3, <2>5, WriterEffect
<1>2. CASE /\ Written(caller[c].snap, [sup |-> caller[c].pid, mode |-> "starting"])
           /\ Done(c)
  <2>1. PICK old \in Runtime : Merge(old, [sup |-> caller[c].pid, mode |-> "starting"])
    BY <1>t, <1>2, WriterEffect
  <2>2. /\ runtime' \in Runtime /\ seen' \in Seen
        /\ runtime'.sup = caller[c].pid /\ runtime'.runner = old.runner /\ runtime'.flat = old.flat
        /\ seen'.raced = seen.raced /\ seen'.orphaned = seen.orphaned
        /\ ~seen'.overlap => old = runtime /\ ~seen.overlap
    BY <1>t, <2>1, WriteRecord
  <2>3. bounds' \in Bounds /\ bounds'.starts = bounds.starts
    BY <1>t, <1>2, WriterEffect
  <2> QED BY <1>2, <2>2, <2>3, DoneEffect
<1> QED BY <1>1, <1>2 DEF Record

-----------------------------------------------------------------------------
(* What the steps of a supervisor do                                         *)

\* Every other supervisor, every other runner is as it was.
OnlySup(s) == \A t \in Pids \ {s} : sup'[t] = sup[t]
OnlyRunner(r) == \A q \in Pids \ {r} : runner'[q] = runner[q]

\* A new value of one supervisor leaves the others alone.
LEMMA SupSet ==
    ASSUME Types, NEW s \in Pids, NEW me \in Supervisor, sup' = [sup EXCEPT ![s] = me]
    PROVE  sup' \in [Pids -> Supervisor] /\ OnlySup(s) /\ sup'[s] = me
BY DEF Types, OnlySup

\* The same for a runner.
LEMMA RunnerSet ==
    ASSUME Types, NEW r \in Pids, NEW me \in Runner, runner' = [runner EXCEPT ![r] = me]
    PROVE  runner' \in [Pids -> Runner] /\ OnlyRunner(r) /\ runner'[r] = me
BY DEF Types, OnlyRunner

\* What a supervisor keeps of itself while it moves on.
Keeps(s) == sup'[s].child = sup[s].child /\ sup'[s].launched = sup[s].launched
            /\ sup'[s].snap = sup[s].snap

\* A supervisor that goes on.
LEMMA SupGotoEffect ==
    ASSUME Types, NEW s \in Pids, NEW pc \in SupPcs, SupGoto(s, pc)
    PROVE  sup' \in [Pids -> Supervisor] /\ OnlySup(s) /\ sup'[s].pc = pc /\ Keeps(s)
<1>1. sup[s] \in Supervisor
  BY DEF Types
<1>2. [sup[s] EXCEPT !.pc = pc] \in Supervisor
  BY <1>1 DEF Supervisor
<1>3. sup' = [sup EXCEPT ![s] = [sup[s] EXCEPT !.pc = pc]]
  BY DEF SupGoto, Types
<1>4. sup' \in [Pids -> Supervisor] /\ OnlySup(s) /\ sup'[s] = [sup[s] EXCEPT !.pc = pc]
  BY <1>2, <1>3, SupSet
<1> QED BY <1>1, <1>4 DEF Supervisor, Keeps

\* The start of a tick.
LEMMA TickEffect ==
    ASSUME Types, NEW s \in Pids, Tick(s)
    PROVE  sup' \in [Pids -> Supervisor] /\ OnlySup(s) /\ sup'[s].pc = "poll" /\ Keeps(s)
<1>1. sup[s] \in Supervisor
  BY DEF Types
<1>2. [sup[s] EXCEPT !.pc = "poll", !.desired = requested] \in Supervisor
  BY <1>1 DEF Supervisor, SupPcs, Types
<1>3. sup' = [sup EXCEPT ![s] = [sup[s] EXCEPT !.pc = "poll", !.desired = requested]]
  BY DEF Tick, Types
<1>4. /\ sup' \in [Pids -> Supervisor] /\ OnlySup(s)
      /\ sup'[s] = [sup[s] EXCEPT !.pc = "poll", !.desired = requested]
  BY <1>2, <1>3, SupSet
<1> QED BY <1>1, <1>4 DEF Supervisor, Keeps

\* The exit of the child is seen.
LEMMA PollEffect ==
    ASSUME Types, NEW s \in Pids, Poll(s)
    PROVE  /\ sup' \in [Pids -> Supervisor] /\ OnlySup(s)
           /\ sup'[s].pc = "exited" /\ sup'[s].child = 0
           /\ sup'[s].launched = sup[s].launched /\ sup'[s].snap = sup[s].snap
<1>1. sup[s] \in Supervisor /\ runner[s].code \in Codes /\ 0 \in 0..MaxStarts
  BY DEF Types, Runner
<1>2. [sup[s] EXCEPT !.pc = "exited", !.child = 0, !.code = runner[s].code] \in Supervisor
  BY <1>1 DEF Supervisor, SupPcs
<1>3. sup' = [sup EXCEPT ![s] = [sup[s] EXCEPT !.pc = "exited", !.child = 0, !.code = runner[s].code]]
  BY DEF Poll, Types
<1>4. /\ sup' \in [Pids -> Supervisor] /\ OnlySup(s)
      /\ sup'[s] = [sup[s] EXCEPT !.pc = "exited", !.child = 0, !.code = runner[s].code]
  BY <1>2, <1>3, SupSet
<1> QED BY <1>1, <1>4 DEF Supervisor

\* The launch of the runner, or nothing to do.
LEMMA DecideRunEffect ==
    ASSUME Types, NEW s \in Pids, DecideRun(s)
    PROVE  /\ sup' \in [Pids -> Supervisor] /\ OnlySup(s) /\ sup'[s].snap = sup[s].snap
           /\ runner' \in [Pids -> Runner]
           /\ \/ /\ sup[s].child = 0 /\ ~sup[s].launched
                 /\ sup'[s].pc = "launched" /\ sup'[s].child = s /\ sup'[s].launched
                 /\ runner'[s].pc = "start" /\ OnlyRunner(s)
              \/ /\ ~(sup[s].child = 0 /\ ~sup[s].launched)
                 /\ sup'[s].pc = "beat" /\ Keeps(s) /\ UNCHANGED runner
<1>t. sup[s] \in Supervisor /\ runner[s] \in Runner /\ s \in 0..MaxStarts
  BY DEF Types, Pids
<1>1. CASE sup[s].child = 0 /\ ~sup[s].launched
  <2>1. [runner[s] EXCEPT !.pc = "start", !.mode = sup[s].desired] \in Runner
    BY <1>t DEF Supervisor, Runner
  <2>2. runner' = [runner EXCEPT ![s] = [runner[s] EXCEPT !.pc = "start", !.mode = sup[s].desired]]
    BY <1>1 DEF DecideRun, Types
  <2>3. /\ runner' \in [Pids -> Runner] /\ OnlyRunner(s)
        /\ runner'[s] = [runner[s] EXCEPT !.pc = "start", !.mode = sup[s].desired]
    BY <2>1, <2>2, RunnerSet
  <2>4. [sup[s] EXCEPT !.pc = "launched", !.child = s, !.launched = TRUE] \in Supervisor
    BY <1>t DEF Supervisor, SupPcs
  <2>5. sup' = [sup EXCEPT ![s] = [sup[s] EXCEPT !.pc = "launched", !.child = s, !.launched = TRUE]]
    BY <1>1 DEF DecideRun, Types
  <2>6. /\ sup' \in [Pids -> Supervisor] /\ OnlySup(s)
        /\ sup'[s] = [sup[s] EXCEPT !.pc = "launched", !.child = s, !.launched = TRUE]
    BY <2>4, <2>5, SupSet
  <2>7. runner'[s].pc = "start"
    BY <1>t, <2>3 DEF Runner
  <2>8. sup'[s].snap = sup[s].snap /\ sup'[s].pc = "launched" /\ sup'[s].child = s /\ sup'[s].launched
    BY <1>t, <2>6 DEF Supervisor
  <2> QED BY <1>1, <2>3, <2>6, <2>7, <2>8
<1>2. CASE ~(sup[s].child = 0 /\ ~sup[s].launched)
  <2>1. SupGoto(s, "beat") /\ UNCHANGED runner
    BY <1>2 DEF DecideRun
  <2>2. sup' \in [Pids -> Supervisor] /\ OnlySup(s) /\ sup'[s].pc = "beat" /\ Keeps(s)
    BY <2>1, SupGotoEffect DEF SupPcs
  <2> QED BY <1>2, <2>1, <2>2 DEF Types, Keeps
<1> QED BY <1>1, <1>2

\* What remains of a supervisor after one of its updates.
LEMMA ForgetEffect ==
    ASSUME NEW me \in Supervisor, me.pc \in DOMAIN After
    PROVE  LET pc == After[me.pc]
               it == Forget(pc, me) IN
             /\ it \in Supervisor /\ it.pc = pc /\ it.snap = NoSnap
             /\ pc # "dead" => it.child = me.child /\ it.launched = me.launched
             /\ pc = "dead" => it.child = 0 /\ ~it.launched
<1> DEFINE pc == After[me.pc]
           it == Forget(pc, me)
<1>1. pc \in {"tick", "read", "decide", "last", "beat", "dead"}
  BY DEF After
<1>2. "none" \in Codes
  BY DEF Codes
<1> HIDE DEF pc
<1>3. CASE pc = "dead"
  <2>1. it = [NoSupervisor EXCEPT !.pc = pc]
    BY <1>3 DEF Forget
  <2> QED BY <1>3, <2>1, StartValues DEF Supervisor, NoSupervisor, SupPcs, pc
<1>4. CASE pc = "tick"
  <2>1. it = [me EXCEPT !.pc = pc, !.snap = NoSnap, !.code = "none", !.desired = "stopped"]
    BY <1>4 DEF Forget
  <2> QED BY <1>2, <1>4, <2>1, StartValues DEF Supervisor, SupPcs, pc
<1>5. CASE pc \notin {"dead", "tick"}
  <2>1. it = [me EXCEPT !.pc = pc, !.snap = NoSnap, !.code = "none"]
    BY <1>5 DEF Forget
  <2> QED BY <1>1, <1>2, <1>5, <2>1, StartValues DEF Supervisor, SupPcs, pc
<1> QED BY <1>3, <1>4, <1>5

\* An update of runtime.json: interrupted after its load, or written.
Loads(s) ==
    /\ sup'[s].pc = sup[s].pc /\ sup'[s].snap = runtime /\ sup[s].snap = NoSnap
    /\ sup'[s].child = sup[s].child /\ sup'[s].launched = sup[s].launched
    /\ UNCHANGED <<runtime, seen>>
Writes(s) ==
    /\ sup'[s].pc = After[sup[s].pc] /\ sup'[s].snap = NoSnap
    /\ sup'[s].pc # "dead" => sup'[s].child = sup[s].child /\ sup'[s].launched = sup[s].launched
    /\ sup'[s].pc = "dead" => sup'[s].child = 0 /\ ~sup'[s].launched
    /\ sup[s].pc = "boot" => runtime'.sup = s
    /\ sup[s].pc \notin {"boot", "last"} =>
          runtime'.sup = IF sup[s].snap = NoSnap THEN runtime.sup ELSE sup[s].snap.sup
    /\ seen'.raced = seen.raced /\ seen'.orphaned = seen.orphaned
    /\ ~seen'.overlap =>
          /\ ~seen.overlap
          /\ runtime'.runner = CASE sup[s].pc = "exited"   -> 0
                                 [] sup[s].pc = "launched" -> sup[s].child
                                 [] OTHER                  -> runtime.runner
          /\ sup[s].pc \in {"launched", "stopping"} => ~runtime'.flat
          /\ sup[s].pc \in {"boot", "monitor", "beat", "exited"} => runtime'.flat = runtime.flat

\* What an update does: it loads, or it writes.
LEMMA UpdateEffect ==
    ASSUME Types, NEW s \in Pids, SupUpdate(s)
    PROVE  /\ sup' \in [Pids -> Supervisor] /\ OnlySup(s)
           /\ bounds' \in Bounds /\ bounds'.starts = bounds.starts
           /\ runtime' \in Runtime /\ seen' \in Seen
           /\ Loads(s) \/ Writes(s)
<1>t. sup[s] \in Supervisor /\ sup[s].snap \in Snap /\ runtime \in Snap
      /\ runtime \in Runtime /\ seen \in Seen /\ sup[s].pc \in DOMAIN After
  BY DEF Types, Supervisor, Snap, SupUpdate
<1>1. CASE /\ Interrupted(sup[s].snap)
           /\ sup' = [sup EXCEPT ![s].snap = runtime]
  <2>1. [sup[s] EXCEPT !.snap = runtime] \in Supervisor
    BY <1>t DEF Supervisor
  <2>2. sup' = [sup EXCEPT ![s] = [sup[s] EXCEPT !.snap = runtime]]
    BY <1>1 DEF Types
  <2>3. sup' \in [Pids -> Supervisor] /\ OnlySup(s) /\ sup'[s] = [sup[s] EXCEPT !.snap = runtime]
    BY <2>1, <2>2, SupSet
  <2>4. UNCHANGED <<runtime, seen>> /\ sup[s].snap = NoSnap /\ bounds' \in Bounds /\ bounds'.starts = bounds.starts
    BY <1>1, <1>t, WriterEffect
  <2>5. Loads(s)
    BY <1>t, <2>3, <2>4 DEF Supervisor, Loads
  <2> QED BY <1>t, <2>3, <2>4, <2>5
<1>2. CASE /\ Written(sup[s].snap, Updates(s))
           /\ sup' = [sup EXCEPT ![s] = Forget(After[sup[s].pc], sup[s])]
  <2>1. PICK old \in Runtime : /\ sup[s].snap = NoSnap => old = runtime
                               /\ sup[s].snap # NoSnap => old = sup[s].snap
                               /\ Merge(old, Updates(s))
    BY <1>t, <1>2, WriterEffect
  <2> DEFINE it == Forget(After[sup[s].pc], sup[s])
  <2>2. /\ it \in Supervisor /\ it.pc = After[sup[s].pc] /\ it.snap = NoSnap
        /\ it.pc # "dead" => it.child = sup[s].child /\ it.launched = sup[s].launched
        /\ it.pc = "dead" => it.child = 0 /\ ~it.launched
    BY <1>t, ForgetEffect
  <2> HIDE DEF it
  <2>3. sup' = [sup EXCEPT ![s] = it]
    BY <1>2 DEF it
  <2>4. sup' \in [Pids -> Supervisor] /\ OnlySup(s) /\ sup'[s] = it
    BY <2>2, <2>3, SupSet
  <2>5. bounds' \in Bounds /\ bounds'.starts = bounds.starts
    BY <1>t, <1>2, WriterEffect
  <2>6. /\ runtime' \in Runtime /\ seen' \in Seen
        /\ runtime'.sup = CASE sup[s].pc = "boot" -> s
                            [] sup[s].pc = "last" -> 0
                            [] OTHER              -> old.sup
        /\ runtime'.runner = CASE sup[s].pc = "exited"   -> 0
                               [] sup[s].pc = "launched" -> sup[s].child
                               [] OTHER                  -> old.runner
        /\ sup[s].pc \in {"launched", "stopping"} => ~runtime'.flat
        /\ sup[s].pc \in {"boot", "monitor", "beat", "exited"} => runtime'.flat = old.flat
        /\ seen'.raced = seen.raced /\ seen'.orphaned = seen.orphaned
        /\ ~seen'.overlap => old = runtime /\ ~seen.overlap
    BY <1>t, <2>1, WriteUpdate
  <2>7. /\ sup[s].pc = "boot" => runtime'.sup = s
        /\ sup[s].pc \notin {"boot", "last"} =>
             runtime'.sup = IF sup[s].snap = NoSnap THEN runtime.sup ELSE sup[s].snap.sup
    BY <2>1, <2>6
  <2>8. Writes(s)
    BY <2>2, <2>4, <2>6, <2>7 DEF Writes
  <2> QED BY <2>4, <2>5, <2>6, <2>8
<1> QED BY <1>1, <1>2 DEF SupUpdate

-----------------------------------------------------------------------------
(* What the steps of a runner do, and what a death leaves                    *)

\* A process ends, and frees the lock if it holds it.
Ends(r) ==
    /\ runner'[r].pc = "dead" /\ OnlyRunner(r)
    /\ lock' = IF lock = r THEN 0 ELSE lock

\* What the end of a runner does, whatever its exit code.
LEMMA ExitEffect ==
    ASSUME Types, NEW r \in Pids, NEW code \in Codes, Exit(r, code)
    PROVE  runner' \in [Pids -> Runner] /\ lock' \in 0..MaxStarts /\ Ends(r)
<1>1. runner[r] \in Runner /\ lock' \in 0..MaxStarts
  BY DEF Types, Exit
<1>2. [runner[r] EXCEPT !.pc = "dead", !.code = code] \in Runner
  BY <1>1 DEF Runner
<1>3. runner' = [runner EXCEPT ![r] = [runner[r] EXCEPT !.pc = "dead", !.code = code]]
  BY DEF Exit, Types
<1>4. /\ runner' \in [Pids -> Runner] /\ OnlyRunner(r)
      /\ runner'[r] = [runner[r] EXCEPT !.pc = "dead", !.code = code]
  BY <1>2, <1>3, RunnerSet
<1>5. runner'[r].pc = "dead"
  BY <1>1, <1>4 DEF Runner
<1> QED BY <1>1, <1>4, <1>5 DEF Ends, Exit

\* A runner that goes on.
LEMMA RunnerGotoEffect ==
    ASSUME Types, NEW r \in Pids, NEW pc \in PastLock, RunnerGoto(r, pc)
    PROVE  runner' \in [Pids -> Runner] /\ OnlyRunner(r) /\ runner'[r].pc = pc
<1>1. runner[r] \in Runner
  BY DEF Types
<1>2. [runner[r] EXCEPT !.pc = pc] \in Runner
  BY <1>1 DEF Runner, PastLock
<1>3. runner' = [runner EXCEPT ![r] = [runner[r] EXCEPT !.pc = pc]]
  BY DEF RunnerGoto, Types
<1>4. runner' \in [Pids -> Runner] /\ OnlyRunner(r) /\ runner'[r] = [runner[r] EXCEPT !.pc = pc]
  BY <1>2, <1>3, RunnerSet
<1> QED BY <1>1, <1>4 DEF Runner

\* A step of run_auto: it takes the free lock, goes on under it, or ends.
Takes(r) == lock = 0 /\ lock' = r /\ runner'[r].pc = "wait" /\ OnlyRunner(r)
GoesOn(r) == UNCHANGED lock /\ lock = r /\ runner'[r].pc \in PastLock /\ OnlyRunner(r)

\* What run_auto does.
LEMMA RunEffect ==
    ASSUME Types, LockInv, NEW r \in Pids, Run(r)
    PROVE  /\ runner' \in [Pids -> Runner] /\ lock' \in 0..MaxStarts /\ RunnerAlive(r)
           /\ UNCHANGED <<requested, runtime, caller, sup, bounds, seen>>
           /\ Takes(r) \/ GoesOn(r) \/ Ends(r)
<1>t. r \in 0..MaxStarts /\ lock \in 0..MaxStarts /\ {"ok", "failed"} \subseteq Codes
      /\ runner \in [Pids -> Runner]
  BY DEF Types, Pids, Codes
<1>1. CASE Acquire(r)
  <2>1. CASE lock # 0 \/ taken
    BY <1>1, <1>t, <2>1, ExitEffect DEF Acquire, RunnerOnly, RunnerAlive
  <2>2. CASE ~(lock # 0 \/ taken)
    <3>1. lock' = r /\ RunnerGoto(r, "wait")
      BY <1>1, <2>2 DEF Acquire
    <3>2. runner' \in [Pids -> Runner] /\ OnlyRunner(r) /\ runner'[r].pc = "wait"
      BY <3>1, RunnerGotoEffect DEF PastLock
    <3> QED BY <1>1, <1>t, <2>2, <3>1, <3>2 DEF Takes, Acquire, RunnerOnly, RunnerAlive
  <2> QED BY <2>1, <2>2
<1>2. CASE Wait(r)
  <2>1. CASE requested = "stopped"
    BY <1>2, <1>t, <2>1, ExitEffect DEF Wait, RunnerOnly, RunnerAlive
  <2>2. CASE requested # "stopped"
    <3>1. RunnerGoto(r, "session") /\ UNCHANGED lock /\ lock = r
      BY <1>2, <2>2 DEF Wait, LockInv, PastLock
    <3>2. runner' \in [Pids -> Runner] /\ OnlyRunner(r) /\ runner'[r].pc = "session"
      BY <3>1, RunnerGotoEffect DEF PastLock
    <3> QED BY <1>2, <1>t, <3>1, <3>2 DEF GoesOn, PastLock, Wait, RunnerOnly, RunnerAlive
  <2> QED BY <2>1, <2>2
<1>3. CASE Enter(r)
  BY <1>3, <1>t DEF Enter, GoesOn, LockInv, PastLock, OnlyRunner, RunnerOnly, RunnerAlive
<1>4. CASE SessionEnds(r)
  BY <1>4, <1>t, ExitEffect DEF SessionEnds, RunnerOnly, RunnerAlive
<1>5. CASE SessionFails(r)
  BY <1>5, <1>t, ExitEffect DEF SessionFails, RunnerOnly, RunnerAlive
<1> QED BY <1>1, <1>2, <1>3, <1>4, <1>5 DEF Run

\* A supervisor that dies: nothing that it knew is left.
LEMMA KillEffect ==
    ASSUME Types, NEW s \in Pids, KillSupervisor(s)
    PROVE  /\ sup' \in [Pids -> Supervisor] /\ OnlySup(s) /\ sup'[s] = [NoSupervisor EXCEPT !.pc = "dead"]
           /\ sup'[s].pc = "dead" /\ sup'[s].child = 0 /\ ~sup'[s].launched
           /\ bounds' \in Bounds /\ bounds'.starts = bounds.starts
           /\ seen' \in Seen /\ seen'.raced = seen.raced /\ seen'.overlap = seen.overlap
           /\ ~seen'.orphaned => ~seen.orphaned /\ ~RunnerAlive(s)
<1>1. [NoSupervisor EXCEPT !.pc = "dead"] \in Supervisor
  BY StartValues DEF Supervisor, SupPcs
<1>2. sup' = [sup EXCEPT ![s] = [NoSupervisor EXCEPT !.pc = "dead"]]
  BY DEF KillSupervisor
<1>3. sup' \in [Pids -> Supervisor] /\ OnlySup(s) /\ sup'[s] = [NoSupervisor EXCEPT !.pc = "dead"]
  BY <1>1, <1>2, SupSet
<1>4. sup'[s].pc = "dead" /\ sup'[s].child = 0 /\ ~sup'[s].launched
  BY <1>3 DEF NoSupervisor
<1>5. bounds' \in Bounds /\ bounds'.starts = bounds.starts
  BY DEF KillSupervisor, Types, Bounds
<1>6. PICK orphaned \in BOOLEAN :
        /\ orphaned = (seen.orphaned \/ RunnerAlive(s))
        /\ seen' = [seen EXCEPT !.orphaned = orphaned]
  BY DEF KillSupervisor, Types, Seen
<1>7. /\ seen' \in Seen /\ seen'.raced = seen.raced /\ seen'.overlap = seen.overlap
      /\ seen'.orphaned = orphaned
  BY <1>6 DEF Types, Seen
<1> QED BY <1>3, <1>4, <1>5, <1>6, <1>7

-----------------------------------------------------------------------------
(* Numbers                                                                   *)

\* The sets that are counted are finite.
LEMMA Finite ==
    /\ IsFiniteSet(Used) /\ Cardinality(Used) \in Nat
    /\ IsFiniteSet(Pending) /\ Cardinality(Pending) \in Nat
<1>1. IsFiniteSet(Pids)
  BY FS_Interval DEF Pids
<1>2. IsFiniteSet(Callers)
  BY DEF Callers
<1> QED BY <1>1, <1>2, FS_Subset, FS_CardinalityType DEF Used, Pending

\* Nothing new is to be launched.
LEMMA NumbersStay ==
    ASSUME Types, NumberInv, Types', Used' \subseteq Used, Pending' \subseteq Pending,
           bounds'.starts = bounds.starts
    PROVE  NumberInv'
<1>1. Cardinality(Used') <= Cardinality(Used) /\ Cardinality(Used') \in Nat
  BY Finite, FS_Subset, FS_CardinalityType
<1>2. Cardinality(Pending') <= Cardinality(Pending) /\ Cardinality(Pending') \in Nat
  BY Finite, FS_Subset, FS_CardinalityType
<1>3. bounds.starts \in Nat
  BY DEF Types, Bounds
<1> QED BY <1>1, <1>2, <1>3, Finite DEF NumberInv

\* A start command is counted.
LEMMA NumbersGrow ==
    ASSUME Types, NumberInv, NEW c, Types', Used' \subseteq Used, Pending' \subseteq Pending \union {c},
           bounds'.starts = bounds.starts + 1
    PROVE  NumberInv'
<1>1. Cardinality(Used') <= Cardinality(Used) /\ Cardinality(Used') \in Nat
  BY Finite, FS_Subset, FS_CardinalityType
<1>2. /\ IsFiniteSet(Pending \union {c})
      /\ Cardinality(Pending \union {c}) <= Cardinality(Pending) + 1
      /\ Cardinality(Pending \union {c}) \in Nat
  <2>1. /\ IsFiniteSet(Pending \union {c})
        /\ Cardinality(Pending \union {c}) =
              IF c \in Pending THEN Cardinality(Pending) ELSE Cardinality(Pending) + 1
    BY Finite, FS_AddElement
  <2> QED BY <2>1, Finite
<1>3. Cardinality(Pending') <= Cardinality(Pending \union {c}) /\ Cardinality(Pending') \in Nat
  BY <1>2, FS_Subset, FS_CardinalityType
<1>4. bounds.starts \in Nat
  BY DEF Types, Bounds
<1> QED BY <1>1, <1>2, <1>3, <1>4, Finite DEF NumberInv

\* A command that launches has launched.
LEMMA NumbersMove ==
    ASSUME Types, NumberInv, Types', NEW c \in Pending, NEW s,
           Used' \subseteq Used \union {s}, Pending' \subseteq Pending \ {c},
           bounds'.starts = bounds.starts
    PROVE  NumberInv'
<1>1. /\ IsFiniteSet(Used \union {s})
      /\ Cardinality(Used \union {s}) <= Cardinality(Used) + 1
      /\ Cardinality(Used \union {s}) \in Nat
  <2>1. /\ IsFiniteSet(Used \union {s})
        /\ Cardinality(Used \union {s}) =
              IF s \in Used THEN Cardinality(Used) ELSE Cardinality(Used) + 1
    BY Finite, FS_AddElement
  <2> QED BY <2>1, Finite
<1>2. Cardinality(Used') <= Cardinality(Used \union {s}) /\ Cardinality(Used') \in Nat
  BY <1>1, FS_Subset, FS_CardinalityType
<1>3. /\ IsFiniteSet(Pending \ {c}) /\ Cardinality(Pending \ {c}) = Cardinality(Pending) - 1
  BY Finite, FS_RemoveElement
<1>4. Cardinality(Pending') <= Cardinality(Pending) - 1 /\ Cardinality(Pending') \in Nat
  BY <1>3, FS_Subset, FS_CardinalityType
<1>5. bounds.starts \in Nat
  BY DEF Types, Bounds
<1> QED BY <1>1, <1>2, <1>4, <1>5, Finite DEF NumberInv

-----------------------------------------------------------------------------
(* Commands keep the invariant                                               *)

\* While start() calls do not overlap, one supervisor lives at a time.
LEMMA OneLives ==
    ASSUME OneStart, RecordsIts, FileNames, NEW s \in Pids, NEW t \in Pids, SupAlive(s), SupAlive(t)
    PROVE  s = t
BY DEF OneStart, RecordsIts, FileNames

\* What no command touches.
LEMMA OthersKept ==
    ASSUME ChildInv, LockInv, OrphanInv, UNCHANGED <<sup, runner, lock>>,
           seen'.orphaned = seen.orphaned
    PROVE  ChildInv' /\ LockInv' /\ OrphanInv'
BY DEF ChildInv, LockInv, OrphanInv, RunnerAlive

\* A command gives up, or is refused.
LEMMA GivesUp ==
    ASSUME Types, Inv, Types', NEW c \in Callers, OnlyCaller(c), caller'[c].pc = "idle",
           bounds'.starts = bounds.starts \/ bounds'.starts = bounds.starts + 1,
           caller[c].pc # "record",
           UNCHANGED <<runtime, sup, runner, lock, seen>>
    PROVE  Inv'
<1>1. Used' \subseteq Used /\ Pending' \subseteq Pending /\ Pending' \subseteq Pending \union {c}
  BY DEF Used, Pending, OnlyCaller
<1>2. NumberInv'
  BY <1>1, NumbersStay, NumbersGrow DEF Inv
<1>3. ChildInv' /\ LockInv' /\ OrphanInv'
  BY OthersKept DEF Inv
<1>4. RaceInv'
  <2> SUFFICES ASSUME ~seen.raced PROVE OneStart' /\ StartsAlone' /\ RecordsIts' /\ FileNames' /\ CopyNames'
    BY DEF RaceInv
  <2>0. OneStart /\ StartsAlone /\ RecordsIts /\ FileNames /\ CopyNames
    BY DEF Inv, RaceInv
  <2>1. OneStart'
    BY <2>0 DEF OneStart, OnlyCaller, Starting
  <2>2. StartsAlone' /\ RecordsIts'
    BY <2>0 DEF StartsAlone, RecordsIts, OnlyCaller, SupAlive
  <2>3. FileNames'
    BY <2>0 DEF FileNames, OnlyCaller, SupAlive
  <2>4. CopyNames'
    BY <2>0 DEF CopyNames, SupAlive
  <2> QED BY <2>1, <2>2, <2>3, <2>4
<1>5. StatusInv'
  BY DEF Inv, StatusInv, TellsOf, Naming
<1> QED BY <1>2, <1>3, <1>4, <1>5 DEF Inv

\* start() passes its check: if it does not race, no supervisor lives.
LEMMA Passes ==
    ASSUME Types, Inv, Types', NEW c \in Callers, OnlyCaller(c), Passed(c),
           \/ caller[c].pc = "idle" /\ bounds'.starts = bounds.starts + 1
           \/ caller[c].pc = "watch" /\ bounds'.starts = bounds.starts,
           UNCHANGED <<runtime, sup, runner, lock>>
    PROVE  Inv'
<1>1. Used' \subseteq Used /\ Pending' \subseteq Pending \union {c}
  BY DEF Used, Pending, OnlyCaller
<1>2. caller[c].pc = "watch" => Pending' \subseteq Pending
  BY DEF Pending, OnlyCaller
<1>3. NumberInv'
  BY <1>1, <1>2, NumbersStay, NumbersGrow DEF Inv
<1>4. ChildInv' /\ LockInv' /\ OrphanInv'
  BY OthersKept DEF Inv, Passed
<1>5. RaceInv'
  <2> SUFFICES ASSUME ~seen'.raced PROVE OneStart' /\ StartsAlone' /\ RecordsIts' /\ FileNames' /\ CopyNames'
    BY DEF RaceInv
  <2>0. /\ OneStart /\ StartsAlone /\ RecordsIts /\ FileNames /\ CopyNames
        /\ \A d \in Callers : caller[d].pc \notin Starting
    BY DEF Inv, RaceInv, Passed
  <2>1. \A s \in Pids : ~SupAlive(s)
    BY <2>0 DEF FileNames, Starting, Passed
  <2>2. \A s \in Pids : ~SupAlive(s)'
    BY <2>1 DEF SupAlive
  <2>3. \A d \in Callers : caller'[d].pc \in Starting => d = c
    BY <2>0 DEF OnlyCaller
  <2> QED BY <2>2, <2>3 DEF OneStart, StartsAlone, RecordsIts, FileNames, CopyNames
<1>6. StatusInv'
  BY DEF Inv, StatusInv, TellsOf, Naming, Passed
<1> QED BY <1>3, <1>4, <1>5, <1>6 DEF Inv

\* Everything a command does not share is as it was.
LEMMA WatchKeeps ==
    ASSUME Types, Inv, NEW c \in Callers, Watch(c)
    PROVE  Types' /\ Inv'
<1>1. caller' \in [Callers -> Caller] /\ OnlyCaller(c) /\ caller'[c].pc = "watch"
  <2>1. requested \in Modes \union {"stopped"}
    BY DEF Types
  <2> QED BY <2>1, ModeEffect DEF Watch, CallerPcs
<1>2. bounds' \in Bounds /\ bounds'.starts = bounds.starts + 1
  BY DEF Watch, Types, Bounds
<1>3. UNCHANGED <<requested, runtime, sup, runner, lock, seen>> /\ caller[c].pc = "idle"
  BY DEF Watch
<1>4. Types'
  BY <1>1, <1>2, <1>3 DEF Types
<1>5. NumberInv'
  <2>1. Used' \subseteq Used /\ Pending' \subseteq Pending \union {c}
    BY <1>1, <1>3 DEF Used, Pending, OnlyCaller
  <2> QED BY <1>2, <1>4, <2>1, NumbersGrow DEF Inv
<1>6. ChildInv' /\ LockInv' /\ OrphanInv'
  BY <1>3, OthersKept DEF Inv
<1>7. RaceInv'
  <2>1. \A d \in Callers : caller'[d].pc \in Starting => d # c /\ caller'[d] = caller[d]
    BY <1>1 DEF OnlyCaller, Starting
  <2>2. \A d \in Callers : caller[d].pc \in Starting => caller'[d] = caller[d]
    BY <1>1, <1>3 DEF OnlyCaller, Starting
  <2> QED BY <1>3, <2>1, <2>2 DEF Inv, RaceInv, OneStart, StartsAlone, RecordsIts, FileNames,
             CopyNames, SupAlive, Starting
<1>8. StatusInv'
  BY <1>3 DEF Inv, StatusInv, TellsOf, Naming
<1> QED BY <1>4, <1>5, <1>6, <1>7, <1>8 DEF Inv

\* The operator asks, or the watchdog goes on to start.
LEMMA CheckKeeps ==
    ASSUME Types, Inv, NEW c \in Callers, Ask(c) \/ WatchStarts(c)
    PROVE  Types' /\ Inv'
<1>1. /\ caller' \in [Callers -> Caller] /\ OnlyCaller(c) /\ seen' \in Seen
      /\ Refused(c) \/ Passed(c)
  <2>1. PICK mode \in Modes \union {"stopped"} : Check(c, mode)
    BY DEF Ask, WatchStarts, Types, Caller
  <2> QED BY <2>1, CheckEffect
<1>2. /\ bounds' \in Bounds
      /\ \/ caller[c].pc = "idle" /\ bounds'.starts = bounds.starts + 1
         \/ caller[c].pc = "watch" /\ bounds'.starts = bounds.starts
  BY DEF Ask, WatchStarts, Types, Bounds
<1>3. UNCHANGED <<requested, runtime, sup, runner, lock>>
  BY DEF Ask, WatchStarts
<1>4. Types'
  BY <1>1, <1>2, <1>3 DEF Types
<1>5. CASE Refused(c)
  BY <1>1, <1>2, <1>3, <1>4, <1>5, GivesUp DEF Refused
<1>6. CASE Passed(c)
  BY <1>1, <1>2, <1>3, <1>4, <1>6, Passes
<1> QED BY <1>1, <1>4, <1>5, <1>6

\* The preflight fails, live is refused, or the request is made.
LEMMA RequestKeeps ==
    ASSUME Types, Inv, NEW c \in Callers, PreflightFails(c) \/ Request(c)
    PROVE  Types' /\ Inv'
<1>1. UNCHANGED <<runtime, sup, runner, lock, bounds, seen>> /\ caller[c].pc = "preflight"
  BY DEF PreflightFails, Request
<1>2. requested' \in Modes \union {"stopped"}
  BY DEF PreflightFails, Request, Types, Caller
<1>3. CASE Done(c)
  <2>1. caller' \in [Callers -> Caller] /\ OnlyCaller(c) /\ caller'[c].pc = "idle"
    BY <1>3, DoneEffect
  <2>2. Types'
    BY <1>1, <1>2, <2>1 DEF Types
  <2> QED BY <1>1, <2>1, <2>2, GivesUp
<1>4. CASE Step(c, "launch")
  <2>1. caller' \in [Callers -> Caller] /\ OnlyCaller(c) /\ caller'[c].pc = "launch"
    BY <1>4, StepEffect DEF CallerPcs
  <2>2. Types'
    BY <1>1, <1>2, <2>1 DEF Types
  <2>3. NumberInv'
    <3>1. Used' \subseteq Used /\ Pending' \subseteq Pending
      BY <1>1, <2>1 DEF Used, Pending, OnlyCaller
    <3> QED BY <1>1, <2>2, <3>1, NumbersStay DEF Inv
  <2>4. ChildInv' /\ LockInv' /\ OrphanInv'
    BY <1>1, OthersKept DEF Inv
  <2>5. RaceInv'
    <3>1. \A d \in Callers : caller'[d].pc \in Starting <=> caller[d].pc \in Starting
      BY <1>1, <2>1 DEF OnlyCaller, Starting
    <3>2. \A d \in Callers : caller'[d].pc \in {"preflight", "launch"} <=> caller[d].pc \in {"preflight", "launch"}
      BY <1>1, <2>1 DEF OnlyCaller
    <3>3. \A d \in Callers : /\ caller'[d].pc = "record" <=> caller[d].pc = "record"
                             /\ caller'[d].pc = "record" => caller'[d] = caller[d]
      BY <1>1, <2>1 DEF OnlyCaller
    <3> QED BY <1>1, <3>1, <3>2, <3>3 DEF Inv, RaceInv, OneStart, StartsAlone, RecordsIts, FileNames,
               CopyNames, SupAlive
  <2>6. StatusInv'
    BY <1>1 DEF Inv, StatusInv, TellsOf, Naming
  <2> QED BY <2>2, <2>3, <2>4, <2>5, <2>6 DEF Inv
<1> QED BY <1>3, <1>4 DEF PreflightFails, Request

\* The launch: what lives from now on is what the command launched.
LEMMA LaunchKeeps ==
    ASSUME Types, Inv, NEW c \in Callers, Launch(c)
    PROVE  Types' /\ Inv'
<1>1. UNCHANGED <<requested, runtime, runner, lock, bounds, seen>> /\ caller[c].pc = "launch"
  BY DEF Launch
<1>2. PICK s \in Pids :
        /\ sup[s].pc = "none" /\ sup'[s] = [sup[s] EXCEPT !.pc = "boot"]
        /\ \A t \in Pids \ {s} : sup'[t] = sup[t]
        /\ sup' \in [Pids -> Supervisor]
        /\ caller' \in [Callers -> Caller] /\ OnlyCaller(c)
        /\ caller'[c].pc = "record" /\ caller'[c].pid = s
  BY LaunchEffect DEF Inv
<1>3. Types'
  BY <1>1, <1>2 DEF Types
<1>4. sup[s] = NoSupervisor
  BY <1>2 DEF Inv, ChildInv
<1>5. sup'[s].pc = "boot" /\ sup'[s].child = 0 /\ ~sup'[s].launched /\ sup'[s].snap = NoSnap
  BY <1>2, <1>4 DEF NoSupervisor
<1>6. NumberInv'
  <2>1. c \in Pending /\ Used' \subseteq Used \union {s} /\ Pending' \subseteq Pending \ {c}
    BY <1>1, <1>2 DEF Used, Pending, OnlyCaller
  <2> QED BY <1>1, <1>3, <2>1, NumbersMove DEF Inv
<1>7. ChildInv'
  <2>1. \A t \in Pids \ {s} : sup'[t] = sup[t]
    BY <1>2
  <2> QED BY <1>5, <2>1 DEF Inv, ChildInv
<1>8. LockInv' /\ OrphanInv'
  <2>1. \A t \in Pids : sup'[t].child = sup[t].child
    BY <1>2, <1>4, <1>5 DEF NoSupervisor
  <2> QED BY <1>1, <2>1 DEF Inv, LockInv, OrphanInv, RunnerAlive
<1>9. RaceInv'
  <2> SUFFICES ASSUME ~seen.raced PROVE OneStart' /\ StartsAlone' /\ RecordsIts' /\ FileNames' /\ CopyNames'
    BY <1>1 DEF RaceInv
  <2>0. OneStart /\ StartsAlone /\ RecordsIts /\ FileNames /\ CopyNames
    BY DEF Inv, RaceInv
  <2>1. \A d \in Callers : caller'[d].pc \in Starting => d = c
    BY <1>1, <1>2, <2>0 DEF OneStart, OnlyCaller, Starting
  <2>2. \A t \in Pids : ~SupAlive(t)
    BY <1>1, <2>0 DEF StartsAlone
  <2>3. \A t \in Pids : SupAlive(t)' => t = s
    BY <1>2, <2>2 DEF SupAlive
  <2>4. OneStart'
    BY <2>1 DEF OneStart
  <2>5. StartsAlone'
    BY <1>2, <2>1 DEF StartsAlone, Starting
  <2>6. RecordsIts'
    BY <1>2, <2>1, <2>3 DEF RecordsIts, Starting
  <2>7. FileNames'
    BY <1>2, <1>5, <2>3 DEF FileNames
  <2>8. CopyNames'
    BY <1>5, <2>3 DEF CopyNames
  <2> QED BY <2>4, <2>5, <2>6, <2>7, <2>8
<1>10. StatusInv'
  <2>1. \A t \in Pids \ {s} : TellsOf(t) => TellsOf(t)'
    BY <1>1, <1>2 DEF TellsOf, Naming
  <2>2. TellsOf(s)'
    BY <1>5 DEF TellsOf, Naming
  <2> QED BY <1>1, <2>1, <2>2 DEF Inv, StatusInv
<1> QED BY <1>3, <1>6, <1>7, <1>8, <1>9, <1>10 DEF Inv

\* start()'s update names what it launched; it is interrupted or written.
LEMMA RecordKeeps ==
    ASSUME Types, Inv, NEW c \in Callers, Record(c)
    PROVE  Types' /\ Inv'
<1>1. UNCHANGED <<requested, sup, runner, lock>> /\ caller[c].pc = "record"
  BY DEF Record
<1>2. /\ caller' \in [Callers -> Caller] /\ OnlyCaller(c)
      /\ bounds' \in Bounds /\ bounds'.starts = bounds.starts
      /\ \/ /\ caller'[c].pc = "record" /\ caller'[c].pid = caller[c].pid
            /\ UNCHANGED <<runtime, seen>>
         \/ /\ caller'[c].pc = "idle"
            /\ runtime' \in Runtime /\ seen' \in Seen /\ runtime'.sup = caller[c].pid
            /\ seen'.raced = seen.raced /\ seen'.orphaned = seen.orphaned
            /\ ~seen'.overlap => /\ ~seen.overlap
                                 /\ runtime'.runner = runtime.runner
                                 /\ runtime'.flat = runtime.flat
  BY RecordEffect
<1>3. Types'
  BY <1>1, <1>2 DEF Types
<1>4. NumberInv'
  <2>1. Used' \subseteq Used /\ Pending' \subseteq Pending
    BY <1>1, <1>2 DEF Used, Pending, OnlyCaller
  <2> QED BY <1>2, <1>3, <2>1, NumbersStay DEF Inv
<1>5. ChildInv' /\ LockInv' /\ OrphanInv'
  BY <1>1, <1>2, OthersKept DEF Inv
<1>6. RaceInv'
  <2> SUFFICES ASSUME ~seen'.raced PROVE OneStart' /\ StartsAlone' /\ RecordsIts' /\ FileNames' /\ CopyNames'
    BY DEF RaceInv
  <2>0. OneStart /\ StartsAlone /\ RecordsIts /\ FileNames /\ CopyNames
    BY <1>2 DEF Inv, RaceInv
  <2>1. \A d \in Callers : caller'[d].pc \in Starting => caller[d].pc \in Starting /\ caller'[d].pc = caller[d].pc
    BY <1>1, <1>2 DEF OnlyCaller, Starting
  <2>2. OneStart'
    BY <2>0, <2>1 DEF OneStart
  <2>3. StartsAlone'
    BY <1>1, <2>0, <2>1 DEF StartsAlone, SupAlive, Starting
  <2>4. RecordsIts'
    BY <1>1, <1>2, <2>0, <2>1 DEF RecordsIts, SupAlive, OnlyCaller, Starting
  <2>5. FileNames'
    <3>1. CASE caller'[c].pc = "record"
      BY <1>1, <1>2, <2>0, <3>1 DEF FileNames, SupAlive, OnlyCaller
    <3>2. CASE caller'[c].pc = "idle"
      <4>1. \A s \in Pids : SupAlive(s) => s = runtime'.sup
        BY <1>1, <1>2, <2>0, <3>2 DEF RecordsIts
      <4> QED BY <1>1, <4>1 DEF FileNames, SupAlive
    <3> QED BY <1>2, <3>1, <3>2
  <2>6. CopyNames'
    BY <1>1, <2>0 DEF CopyNames, SupAlive
  <2> QED BY <2>2, <2>3, <2>4, <2>5, <2>6
<1>7. StatusInv'
  BY <1>1, <1>2 DEF Inv, StatusInv, TellsOf, Naming
<1> QED BY <1>3, <1>4, <1>5, <1>6, <1>7 DEF Inv

\* Every step of a command.
LEMMA CallerKeeps ==
    ASSUME Types, Inv, NEW c \in Callers, Ask(c) \/ Watch(c) \/ Stop(c) \/ Command(c)
    PROVE  Types' /\ Inv'
<1>1. CASE Stop(c)
  <2>1. UNCHANGED <<runtime, caller, sup, runner, lock, bounds, seen>> /\ requested' = "stopped"
    BY <1>1 DEF Stop
  <2>2. Types'
    BY <2>1 DEF Types
  <2>3. NumberInv'
    BY <2>1 DEF Inv, NumberInv, Used, Pending
  <2>4. ChildInv' /\ LockInv' /\ OrphanInv'
    BY <2>1, OthersKept DEF Inv
  <2>5. RaceInv' /\ StatusInv'
    BY <2>1 DEF Inv, RaceInv, OneStart, StartsAlone, RecordsIts, FileNames, CopyNames, SupAlive,
                StatusInv, TellsOf
  <2> QED BY <2>2, <2>3, <2>4, <2>5 DEF Inv
<1> QED BY <1>1, CheckKeeps, WatchKeeps, RequestKeeps, LaunchKeeps, RecordKeeps DEF Command

-----------------------------------------------------------------------------
(* Supervisors and runners keep the invariant                                *)

\* What a supervisor's step leaves of the counts and of the lock.
LEMMA SupCounts ==
    ASSUME Types, Inv, Types', NEW s \in Pids, OnlySup(s), sup[s].pc # "none",
           bounds'.starts = bounds.starts, UNCHANGED caller
    PROVE  NumberInv'
<1>1. Used' \subseteq Used /\ Pending' \subseteq Pending
  BY DEF Used, Pending, OnlySup
<1> QED BY <1>1, NumbersStay DEF Inv

\* A live supervisor goes on and leaves runtime.json alone.
LEMMA RaceGoesOn ==
    ASSUME Types, Inv, NEW s \in Pids, OnlySup(s), SupAlive(s), SupAlive(s)',
           sup'[s].snap = sup[s].snap, sup[s].pc # "boot",
           UNCHANGED <<runtime, caller>>, seen'.raced = seen.raced
    PROVE  RaceInv'
<1> SUFFICES ASSUME ~seen.raced PROVE OneStart' /\ StartsAlone' /\ RecordsIts' /\ FileNames' /\ CopyNames'
  BY DEF RaceInv
<1>0. OneStart /\ StartsAlone /\ RecordsIts /\ FileNames /\ CopyNames
  BY DEF Inv, RaceInv
<1>1. \A t \in Pids : SupAlive(t)' <=> SupAlive(t)
  BY DEF OnlySup, SupAlive
<1>2. OneStart' /\ StartsAlone' /\ RecordsIts'
  BY <1>0, <1>1 DEF OneStart, StartsAlone, RecordsIts
<1>3. FileNames'
  BY <1>0, <1>1 DEF FileNames, OnlySup
<1>4. CopyNames'
  BY <1>0, <1>1 DEF CopyNames, OnlySup
<1> QED BY <1>2, <1>3, <1>4

\* A supervisor between two updates.
LEMMA TickKeeps ==
    ASSUME Types, Inv, NEW s \in Pids, Tick(s) \/ DecideStop(s)
    PROVE  Types' /\ Inv'
<1>1. UNCHANGED <<requested, runtime, caller, runner, lock, bounds, seen>>
  BY DEF Tick, DecideStop, SupOnly
<1>2. /\ sup' \in [Pids -> Supervisor] /\ OnlySup(s) /\ Keeps(s)
      /\ \/ sup[s].pc \in {"tick", "read"} /\ sup'[s].pc = "poll"
         \/ sup[s].pc \in {"poll", "decide"} /\ sup[s].child # 0 /\ sup'[s].pc = "stopping"
         \/ sup[s].pc \in {"poll", "decide"} /\ sup[s].child = 0 /\ sup'[s].pc = "stopped"
  <2>1. CASE Tick(s)
    BY <2>1, TickEffect DEF Tick
  <2>2. CASE DecideStop(s)
    BY <2>2, SupGotoEffect DEF DecideStop, Decides, SupPcs
  <2> QED BY <2>1, <2>2
<1>3. Types'
  BY <1>1, <1>2 DEF Types
<1>4. NumberInv'
  BY <1>1, <1>2, <1>3, SupCounts
<1>5. ChildInv'
  BY <1>2 DEF Inv, ChildInv, OnlySup, Keeps
<1>6. LockInv' /\ OrphanInv'
  <2>1. \A t \in Pids : sup'[t].child = sup[t].child
    BY <1>2 DEF OnlySup, Keeps
  <2> QED BY <1>1, <2>1 DEF Inv, LockInv, OrphanInv, RunnerAlive
<1>7. RaceInv'
  BY <1>1, <1>2, RaceGoesOn DEF SupAlive, Pids, Keeps
<1>8. StatusInv'
  <2>1. \A t \in Pids : TellsOf(t) => TellsOf(t)'
    BY <1>1, <1>2 DEF TellsOf, Naming, OnlySup, Keeps
  <2> QED BY <1>1, <2>1 DEF Inv, StatusInv
<1> QED BY <1>3, <1>4, <1>5, <1>6, <1>7, <1>8 DEF Inv

\* A failed account poll: a copy of runtime.json is taken, which names the supervisor.
LEMMA MonitorFailsKeeps ==
    ASSUME Types, Inv, NEW s \in Pids, MonitorFails(s)
    PROVE  Types' /\ Inv'
<1>1. UNCHANGED <<requested, runtime, caller, runner, lock, seen>> /\ sup[s].pc = "tick"
  BY DEF MonitorFails, Interrupted
<1>2. bounds' \in Bounds /\ bounds'.starts = bounds.starts
  BY DEF MonitorFails, Interrupted, Types, Bounds
<1>3. /\ sup' \in [Pids -> Supervisor] /\ OnlySup(s)
      /\ sup'[s].pc = "monitor" /\ sup'[s].snap = runtime
      /\ sup'[s].child = sup[s].child /\ sup'[s].launched = sup[s].launched
  <2>1. sup[s] \in Supervisor /\ runtime \in Snap
    BY DEF Types, Snap
  <2> DEFINE it == [sup[s] EXCEPT !.pc = "monitor", !.snap = runtime]
  <2>2. /\ it \in Supervisor /\ it.pc = "monitor" /\ it.snap = runtime
        /\ it.child = sup[s].child /\ it.launched = sup[s].launched
    BY <2>1 DEF Supervisor, SupPcs
  <2>3. sup' = [sup EXCEPT ![s] = it]
    BY DEF MonitorFails, Types
  <2> HIDE DEF it
  <2>4. sup' \in [Pids -> Supervisor] /\ OnlySup(s) /\ sup'[s] = it
    BY <2>2, <2>3, SupSet
  <2> QED BY <2>2, <2>4
<1>4. Types'
  BY <1>1, <1>2, <1>3 DEF Types
<1>5. NumberInv'
  BY <1>1, <1>2, <1>3, <1>4, SupCounts
<1>6. ChildInv'
  BY <1>3 DEF Inv, ChildInv, OnlySup
<1>7. LockInv' /\ OrphanInv'
  <2>1. \A t \in Pids : sup'[t].child = sup[t].child
    BY <1>3 DEF OnlySup
  <2> QED BY <1>1, <2>1 DEF Inv, LockInv, OrphanInv, RunnerAlive
<1>8. RaceInv'
  <2> SUFFICES ASSUME ~seen.raced PROVE OneStart' /\ StartsAlone' /\ RecordsIts' /\ FileNames' /\ CopyNames'
    BY <1>1 DEF RaceInv
  <2>0. OneStart /\ StartsAlone /\ RecordsIts /\ FileNames /\ CopyNames
    BY DEF Inv, RaceInv
  <2>1. SupAlive(s) /\ runtime.sup = s
    BY <1>1, <2>0 DEF SupAlive, FileNames, Pids
  <2>2. \A t \in Pids : SupAlive(t)' <=> SupAlive(t)
    BY <1>1, <1>3 DEF OnlySup, SupAlive
  <2>3. OneStart' /\ StartsAlone' /\ RecordsIts'
    BY <1>1, <2>0, <2>2 DEF OneStart, StartsAlone, RecordsIts
  <2>4. FileNames'
    BY <1>1, <1>3, <2>0, <2>1, <2>2 DEF FileNames, OnlySup
  <2>5. CopyNames'
    BY <1>3, <2>0, <2>1, <2>2 DEF CopyNames, OnlySup
  <2> QED BY <2>3, <2>4, <2>5
<1>9. StatusInv'
  <2>1. \A t \in Pids : TellsOf(t) => TellsOf(t)'
    BY <1>1, <1>3 DEF TellsOf, Naming, OnlySup
  <2> QED BY <1>1, <2>1 DEF Inv, StatusInv
<1> QED BY <1>4, <1>5, <1>6, <1>7, <1>8, <1>9 DEF Inv

\* The exit of a child: it is dead.
LEMMA PollKeeps ==
    ASSUME Types, Inv, NEW s \in Pids, Poll(s)
    PROVE  Types' /\ Inv'
<1>1. /\ UNCHANGED <<requested, runtime, caller, runner, lock, bounds, seen>>
      /\ sup[s].pc = "poll" /\ sup[s].child # 0 /\ runner[s].pc = "dead"
  BY DEF Poll, SupOnly, ChildExited
<1>2. /\ sup' \in [Pids -> Supervisor] /\ OnlySup(s)
      /\ sup'[s].pc = "exited" /\ sup'[s].child = 0
      /\ sup'[s].launched = sup[s].launched /\ sup'[s].snap = sup[s].snap
  BY PollEffect
<1>3. Types'
  BY <1>1, <1>2 DEF Types
<1>4. NumberInv'
  BY <1>1, <1>2, <1>3, SupCounts
<1>5. ChildInv'
  BY <1>2 DEF Inv, ChildInv, OnlySup
<1>6. LockInv' /\ OrphanInv'
  BY <1>1, <1>2 DEF Inv, LockInv, OrphanInv, RunnerAlive, OnlySup
<1>7. RaceInv'
  BY <1>1, <1>2, RaceGoesOn DEF SupAlive, Pids
<1>8. StatusInv'
  <2>1. \A t \in Pids : TellsOf(t) => TellsOf(t)'
    BY <1>1, <1>2 DEF TellsOf, Naming, OnlySup
  <2> QED BY <1>1, <2>1 DEF Inv, StatusInv
<1> QED BY <1>3, <1>4, <1>5, <1>6, <1>7, <1>8 DEF Inv

\* The launch of a runner.
LEMMA DecideRunKeeps ==
    ASSUME Types, Inv, NEW s \in Pids, DecideRun(s)
    PROVE  Types' /\ Inv'
<1>1. /\ UNCHANGED <<requested, runtime, caller, lock, bounds, seen>>
      /\ sup[s].pc \in {"poll", "decide"}
  BY DEF DecideRun, SupOnly, Decides
<1>2. /\ sup' \in [Pids -> Supervisor] /\ OnlySup(s) /\ sup'[s].snap = sup[s].snap
      /\ runner' \in [Pids -> Runner]
      /\ \/ /\ sup[s].child = 0 /\ ~sup[s].launched
            /\ sup'[s].pc = "launched" /\ sup'[s].child = s /\ sup'[s].launched
            /\ runner'[s].pc = "start" /\ OnlyRunner(s)
         \/ /\ ~(sup[s].child = 0 /\ ~sup[s].launched)
            /\ sup'[s].pc = "beat" /\ Keeps(s) /\ UNCHANGED runner
  BY DecideRunEffect
<1>3. Types'
  BY <1>1, <1>2 DEF Types
<1>4. NumberInv'
  BY <1>1, <1>2, <1>3, SupCounts
<1>5. ChildInv'
  BY <1>2 DEF Inv, ChildInv, OnlySup, Keeps
<1>6. LockInv'
  <2>1. lock # 0 => lock \in Pids
    BY DEF Types, Pids
  <2> QED BY <1>1, <1>2, <2>1 DEF Inv, LockInv, RunnerAlive, OnlyRunner, PastLock
<1>7. OrphanInv'
  BY <1>1, <1>2 DEF Inv, OrphanInv, RunnerAlive, OnlyRunner, OnlySup, Keeps
<1>8. RaceInv'
  BY <1>1, <1>2, RaceGoesOn DEF SupAlive, Pids
<1>9. StatusInv'
  <2>1. \A t \in Pids \ {s} : TellsOf(t) => TellsOf(t)'
    BY <1>1, <1>2 DEF TellsOf, Naming, OnlySup
  <2>2. TellsOf(s) => TellsOf(s)'
    BY <1>1, <1>2 DEF TellsOf, Naming, Keeps, Inv, ChildInv
  <2> QED BY <1>1, <2>1, <2>2 DEF Inv, StatusInv
<1> QED BY <1>3, <1>4, <1>5, <1>6, <1>7, <1>8, <1>9 DEF Inv

\* runtime.json after a supervisor's update: it names the supervisor, unless that has
\* yet to boot or is about to end, and the command that launched it still names it.
LEMMA UpdateKeepsRace ==
    ASSUME Types, Inv, NEW s \in Pids, OnlySup(s), sup[s].pc \in DOMAIN After,
           Loads(s) \/ Writes(s), UNCHANGED caller
    PROVE  RaceInv'
<1> SUFFICES ASSUME ~seen'.raced PROVE OneStart' /\ StartsAlone' /\ RecordsIts' /\ FileNames' /\ CopyNames'
  BY DEF RaceInv
<1>0. OneStart /\ StartsAlone /\ RecordsIts /\ FileNames /\ CopyNames
  BY DEF Inv, RaceInv, Loads, Writes
<1>1. SupAlive(s)
  BY Places DEF SupAlive, Pids
<1>2. \A t \in Pids : SupAlive(t) => t = s
  BY <1>0, <1>1, OneLives
<1>3. \A t \in Pids : SupAlive(t)' => SupAlive(t) /\ t = s
  BY <1>1, <1>2 DEF SupAlive, OnlySup
<1>4. OneStart' /\ StartsAlone' /\ RecordsIts'
  BY <1>0, <1>3 DEF OneStart, StartsAlone, RecordsIts
<1>5. CASE Loads(s)
  <2>1. FileNames'
    BY <1>0, <1>3, <1>5 DEF FileNames, Loads
  <2>2. CopyNames'
    BY <1>0, <1>1, <1>3, <1>5 DEF CopyNames, FileNames, Loads
  <2> QED BY <1>4, <2>1, <2>2
<1>6. CASE Writes(s)
  <2>1. CASE sup[s].pc = "last"
    <3>1. ~SupAlive(s)'
      BY <1>6, <2>1 DEF Writes, After, SupAlive
    <3> QED BY <1>3, <1>4, <3>1 DEF FileNames, CopyNames
  <2>2. CASE sup[s].pc = "boot"
    <3>1. runtime'.sup = s /\ sup'[s].snap = NoSnap
      BY <1>6, <2>2 DEF Writes
    <3> QED BY <1>3, <1>4, <3>1 DEF FileNames, CopyNames
  <2>3. CASE sup[s].pc \notin {"boot", "last"}
    <3>1. runtime.sup = s /\ (sup[s].snap # NoSnap => sup[s].snap.sup = s)
      BY <1>0, <1>1, <2>3 DEF FileNames, CopyNames
    <3>2. runtime'.sup = s /\ sup'[s].snap = NoSnap
      BY <1>6, <2>3, <3>1 DEF Writes
    <3> QED BY <1>3, <1>4, <3>2 DEF FileNames, CopyNames
  <2> QED BY <2>1, <2>2, <2>3
<1> QED BY <1>5, <1>6

\* runtime.json tells of the only supervisor's runner after each of its updates.
LEMMA UpdateKeepsStatus ==
    ASSUME Types, Inv, NEW s \in Pids, OnlySup(s), sup[s].pc \in DOMAIN After,
           Loads(s) \/ Writes(s)
    PROVE  StatusInv'
<1> SUFFICES ASSUME ~seen'.raced, ~seen'.overlap, NEW t \in Pids PROVE TellsOf(t)'
  BY DEF StatusInv
<1>0. /\ OneStart /\ RecordsIts /\ FileNames
      /\ TellsOf(t) /\ TellsOf(s)
  BY DEF Inv, RaceInv, StatusInv, Loads, Writes
<1>1. SupAlive(s)
  BY Places DEF SupAlive, Pids
<1>2. CASE t # s
  <2>1. ~SupAlive(t) /\ sup'[t] = sup[t] /\ t # 0
    BY <1>0, <1>1, <1>2, OneLives DEF OnlySup, Pids
  <2> QED BY <1>0, <2>1 DEF TellsOf, Naming, SupAlive
<1>3. CASE t = s /\ Loads(s)
  BY <1>0, <1>3 DEF TellsOf, Naming, Loads
<1>4. CASE t = s /\ Writes(s)
  <2> SUFFICES ASSUME sup'[s].launched
               PROVE  /\ sup'[s].pc \notin {"none", "dead", "boot"}
                      /\ sup'[s].pc \in Naming \union {"decide", "stopping"}
                            => runtime'.runner = sup'[s].child
                      /\ sup'[s].pc \in Naming /\ sup'[s].child # 0 => ~runtime'.flat
    BY <1>4 DEF TellsOf, Naming
  <2>1. sup'[s].pc # "dead" /\ sup'[s].child = sup[s].child /\ sup[s].launched
    BY <1>4 DEF Writes
  <2>2. sup[s].pc \notin {"boot", "last"}
    BY <1>0, <1>4, <2>1 DEF TellsOf, Naming, Writes, After
  <2>3. CASE sup[s].pc = "exited"
    <3>1. sup'[s].pc = "decide" /\ sup[s].child = 0 /\ runtime'.runner = 0
      BY <1>4, <2>3 DEF Writes, After, Inv, ChildInv
    <3> QED BY <2>1, <3>1
  <2>4. CASE sup[s].pc = "stopping"
    <3>1. sup'[s].pc = "tick" /\ runtime'.runner = runtime.runner /\ ~runtime'.flat
      BY <1>4, <2>4 DEF Writes, After
    <3> QED BY <1>0, <2>1, <2>4, <3>1 DEF TellsOf, Naming
  <2>5. CASE sup[s].pc = "stopped"
    <3>1. sup'[s].pc = "last"
      BY <1>4, <2>5 DEF Writes, After
    <3> QED BY <3>1 DEF Naming
  <2>6. CASE sup[s].pc = "launched"
    <3>1. sup'[s].pc = "beat" /\ runtime'.runner = sup[s].child /\ ~runtime'.flat
      BY <1>4, <2>6 DEF Writes, After
    <3> QED BY <2>1, <3>1
  <2>7. CASE sup[s].pc = "beat"
    <3>1. sup'[s].pc = "tick" /\ runtime'.runner = runtime.runner /\ runtime'.flat = runtime.flat
      BY <1>4, <2>7 DEF Writes, After
    <3> QED BY <1>0, <2>1, <2>7, <3>1 DEF TellsOf, Naming
  <2>8. CASE sup[s].pc = "monitor"
    <3>1. sup'[s].pc = "read" /\ runtime'.runner = runtime.runner /\ runtime'.flat = runtime.flat
      BY <1>4, <2>8 DEF Writes, After
    <3> QED BY <1>0, <2>1, <2>8, <3>1 DEF TellsOf, Naming
  <2> QED BY <2>2, <2>3, <2>4, <2>5, <2>6, <2>7, <2>8, Places
<1> QED BY <1>2, <1>3, <1>4

\* An update of runtime.json by a supervisor.
LEMMA UpdateKeeps ==
    ASSUME Types, Inv, NEW s \in Pids, SupUpdate(s)
    PROVE  Types' /\ Inv'
<1>1. UNCHANGED <<requested, caller, runner, lock>> /\ sup[s].pc \in DOMAIN After
  BY DEF SupUpdate
<1>2. /\ sup' \in [Pids -> Supervisor] /\ OnlySup(s)
      /\ bounds' \in Bounds /\ bounds'.starts = bounds.starts
      /\ runtime' \in Runtime /\ seen' \in Seen
      /\ Loads(s) \/ Writes(s)
  BY UpdateEffect
<1>3. Types'
  BY <1>1, <1>2 DEF Types
<1>4. NumberInv'
  BY <1>1, <1>2, <1>3, SupCounts, Places
<1>5. \/ sup'[s].pc = sup[s].pc /\ sup'[s].child = sup[s].child
      \/ sup'[s].pc \in {"tick", "read", "beat"} /\ sup'[s].child = sup[s].child
      \/ /\ sup[s].pc \in {"exited", "stopped"} /\ sup'[s].pc \in {"decide", "last"}
         /\ sup'[s].child = sup[s].child
      \/ sup[s].pc = "last" /\ sup'[s].pc = "dead" /\ sup'[s].child = 0
  <2>1. CASE Loads(s)
    BY <2>1 DEF Loads
  <2>2. CASE Writes(s)
    BY <1>1, <2>2, Places DEF Writes, After
  <2> QED BY <1>2, <2>1, <2>2
<1>6. ChildInv'
  <2>1. sup[s].pc # "none"
    BY <1>1, Places
  <2>2. /\ sup'[s].child \in {0, s} /\ sup'[s].pc # "none"
        /\ sup'[s].pc \in {"dead", "boot", "exited", "decide", "stopped", "last"} => sup'[s].child = 0
        /\ sup'[s].pc = "stopping" => sup'[s].child = s
    BY <1>5, <2>1 DEF Inv, ChildInv
  <2> QED BY <1>2, <2>2 DEF Inv, ChildInv, OnlySup
<1>7. LockInv'
  BY <1>1 DEF Inv, LockInv, RunnerAlive
<1>8. OrphanInv'
  <2>1. seen'.orphaned = seen.orphaned
    BY <1>2 DEF Loads, Writes
  <2>2. \A t \in Pids : sup'[t].child = sup[t].child
    BY <1>2, <1>5 DEF OnlySup, Inv, ChildInv
  <2> QED BY <1>1, <2>1, <2>2 DEF Inv, OrphanInv, RunnerAlive
<1>9. RaceInv' /\ StatusInv'
  BY <1>1, <1>2, UpdateKeepsRace, UpdateKeepsStatus
<1> QED BY <1>3, <1>4, <1>6, <1>7, <1>8, <1>9 DEF Inv

\* A runner's step, or its end, while nothing else changes.
LEMMA RunnerKeeps ==
    ASSUME Types, Inv, NEW r \in Pids, RunnerAlive(r), Takes(r) \/ GoesOn(r) \/ Ends(r), Types',
           bounds'.starts = bounds.starts, UNCHANGED <<runtime, caller, sup, seen>>
    PROVE  Inv'
<1>1. NumberInv'
  <2>1. Used' \subseteq Used /\ Pending' \subseteq Pending
    BY DEF Used, Pending
  <2> QED BY <2>1, NumbersStay DEF Inv
<1>2. ChildInv' /\ RaceInv' /\ StatusInv'
  BY DEF Inv, ChildInv, RaceInv, OneStart, StartsAlone, RecordsIts, FileNames, CopyNames, SupAlive,
         StatusInv, TellsOf
<1>3. OnlyRunner(r) /\ (lock # 0 => lock \in Pids) /\ \A q \in Pids : q # 0
  BY DEF Takes, GoesOn, Ends, Types, Pids
<1>4. LockInv'
  <2>1. CASE Takes(r)
    BY <1>3, <2>1 DEF Inv, LockInv, RunnerAlive, OnlyRunner, PastLock, Takes
  <2>2. CASE GoesOn(r)
    BY <1>3, <2>2 DEF Inv, LockInv, RunnerAlive, OnlyRunner, PastLock, GoesOn
  <2>3. CASE Ends(r)
    BY <1>3, <2>3 DEF Inv, LockInv, RunnerAlive, OnlyRunner, PastLock, Ends
  <2> QED BY <2>1, <2>2, <2>3
<1>5. OrphanInv'
  <2>1. \A q \in Pids : RunnerAlive(q)' => RunnerAlive(q)
    BY <1>3 DEF RunnerAlive, OnlyRunner
  <2> QED BY <2>1 DEF Inv, OrphanInv
<1> QED BY <1>1, <1>2, <1>4, <1>5 DEF Inv

\* run_auto.
LEMMA RunKeeps ==
    ASSUME Types, Inv, NEW r \in Pids, Run(r)
    PROVE  Types' /\ Inv'
<1>1. /\ runner' \in [Pids -> Runner] /\ lock' \in 0..MaxStarts /\ RunnerAlive(r)
      /\ UNCHANGED <<requested, runtime, caller, sup, bounds, seen>>
      /\ Takes(r) \/ GoesOn(r) \/ Ends(r)
  BY RunEffect DEF Inv
<1>2. Types'
  BY <1>1 DEF Types
<1> QED BY <1>1, <1>2, RunnerKeeps

\* A runner is killed.
LEMMA KillRunnerKeeps ==
    ASSUME Types, Inv, NEW r \in Pids, KillRunner(r)
    PROVE  Types' /\ Inv'
<1>1. runner' \in [Pids -> Runner] /\ lock' \in 0..MaxStarts /\ Ends(r)
  BY ExitEffect DEF KillRunner, Codes
<1>2. RunnerAlive(r) /\ UNCHANGED <<requested, runtime, caller, sup, seen>>
  BY DEF KillRunner
<1>3. bounds' \in Bounds /\ bounds'.starts = bounds.starts
  BY DEF KillRunner, Types, Bounds
<1>4. Types'
  BY <1>1, <1>2, <1>3 DEF Types
<1> QED BY <1>1, <1>2, <1>3, <1>4, RunnerKeeps

\* A supervisor is killed: its runner lives on only if that is noted.
LEMMA KillSupervisorKeeps ==
    ASSUME Types, Inv, NEW s \in Pids, KillSupervisor(s)
    PROVE  Types' /\ Inv'
<1>1. UNCHANGED <<requested, runtime, caller, runner, lock>> /\ SupAlive(s)
  BY DEF KillSupervisor
<1>2. /\ sup' \in [Pids -> Supervisor] /\ OnlySup(s)
      /\ sup'[s].pc = "dead" /\ sup'[s].child = 0 /\ ~sup'[s].launched
      /\ bounds' \in Bounds /\ bounds'.starts = bounds.starts
      /\ seen' \in Seen /\ seen'.raced = seen.raced /\ seen'.overlap = seen.overlap
      /\ ~seen'.orphaned => ~seen.orphaned /\ ~RunnerAlive(s)
  BY KillEffect
<1>3. Types'
  BY <1>1, <1>2 DEF Types
<1>4. NumberInv'
  BY <1>1, <1>2, <1>3, SupCounts DEF SupAlive
<1>5. ChildInv'
  BY <1>2 DEF Inv, ChildInv, OnlySup
<1>6. LockInv'
  BY <1>1 DEF Inv, LockInv, RunnerAlive
<1>7. OrphanInv'
  BY <1>1, <1>2 DEF Inv, OrphanInv, RunnerAlive, OnlySup
<1>8. RaceInv'
  <2> SUFFICES ASSUME ~seen'.raced PROVE OneStart' /\ StartsAlone' /\ RecordsIts' /\ FileNames' /\ CopyNames'
    BY DEF RaceInv
  <2>0. OneStart /\ StartsAlone /\ RecordsIts /\ FileNames /\ CopyNames
    BY <1>2 DEF Inv, RaceInv
  <2>1. \A t \in Pids : SupAlive(t)' => SupAlive(t) /\ t # s /\ sup'[t] = sup[t]
    BY <1>2 DEF SupAlive, OnlySup
  <2>2. OneStart' /\ StartsAlone' /\ RecordsIts'
    BY <1>1, <2>0, <2>1 DEF OneStart, StartsAlone, RecordsIts
  <2>3. FileNames' /\ CopyNames'
    BY <1>1, <2>0, <2>1 DEF FileNames, CopyNames
  <2> QED BY <2>2, <2>3
<1>9. StatusInv'
  <2>1. \A t \in Pids : TellsOf(t) => TellsOf(t)'
    BY <1>1, <1>2 DEF TellsOf, Naming, OnlySup
  <2> QED BY <1>2, <2>1 DEF Inv, StatusInv
<1> QED BY <1>3, <1>4, <1>5, <1>6, <1>7, <1>8, <1>9 DEF Inv

-----------------------------------------------------------------------------
(* The theorems                                                              *)

IInv == Types /\ Inv

\* Nothing has run.
LEMMA InitIInv == Init => IInv
<1> SUFFICES ASSUME Init PROVE IInv
  OBVIOUS
<1>1. Types
  BY InitTypes
<1>2. NumberInv
  <2>1. Used = {} /\ Pending = {} /\ bounds.starts = 0
    BY DEF Init, Used, Pending, NoSupervisor, Idle
  <2> QED BY <2>1, FS_EmptySet DEF NumberInv
<1>3. ChildInv
  BY DEF Init, ChildInv, NoSupervisor
<1>4. LockInv /\ OrphanInv
  BY DEF Init, LockInv, OrphanInv, NoRunner, PastLock, RunnerAlive
<1>5. RaceInv
  BY DEF Init, RaceInv, OneStart, StartsAlone, RecordsIts, FileNames, CopyNames, Starting, SupAlive,
         NoSupervisor, Idle
<1>6. StatusInv
  BY DEF Init, StatusInv, TellsOf, Naming, NoSupervisor
<1> QED BY <1>1, <1>2, <1>3, <1>4, <1>5, <1>6 DEF IInv, Inv

\* Every step of every process.
LEMMA NextIInv == IInv /\ [Next]_vars => IInv'
<1> SUFFICES ASSUME Types, Inv, [Next]_vars PROVE Types' /\ Inv'
  BY DEF IInv
<1>1. ASSUME NEW c \in Callers, Ask(c) \/ Watch(c) \/ Stop(c) \/ Command(c)
      PROVE  Types' /\ Inv'
  BY <1>1, CallerKeeps
<1>2. ASSUME NEW s \in Pids, Supervise(s)
      PROVE  Types' /\ Inv'
  BY <1>2, UpdateKeeps, MonitorFailsKeeps, TickKeeps, PollKeeps, DecideRunKeeps DEF Supervise
<1>3. ASSUME NEW r \in Pids, Run(r)
      PROVE  Types' /\ Inv'
  BY <1>3, RunKeeps
<1>4. ASSUME NEW s \in Pids, KillSupervisor(s) \/ KillRunner(s)
      PROVE  Types' /\ Inv'
  BY <1>4, KillSupervisorKeeps, KillRunnerKeeps
<1>5. CASE UNCHANGED vars
  BY <1>5 DEF vars, Types, Inv, NumberInv, Used, Pending, ChildInv, LockInv, OrphanInv, RaceInv,
              OneStart, StartsAlone, RecordsIts, FileNames, CopyNames, StatusInv, TellsOf, Naming,
              SupAlive, RunnerAlive
<1> QED BY <1>1, <1>2, <1>3, <1>4, <1>5 DEF Next

\* The inductive invariant holds in every reachable state.
THEOREM Invariant == Spec => []IInv
BY InitIInv, NextIInv, PTL DEF Spec

\* The locations are those that the type invariant lists.
LEMMA TypesImplyTypeOK == IInv => TypeOK
<1> SUFFICES ASSUME Types, Inv PROVE TypeOK
  BY DEF IInv
<1>1. ASSUME NEW s \in Pids
      PROVE  /\ sup[s].pc \in {"none", "tick", "read", "poll", "decide", "dead"} \union DOMAIN After
             /\ sup[s].child \in {0, s} /\ sup[s].code \in Codes
             /\ sup[s].desired \in Modes \union {"stopped"}
             /\ sup[s].snap \in Runtime \union {NoSnap}
             /\ runner[s].pc \in {"none", "start", "wait", "session", "dead"}
             /\ runner[s].code \in Codes
  <2>1. sup[s] \in Supervisor /\ runner[s] \in Runner
    BY DEF Types
  <2> QED BY <2>1, Places DEF Supervisor, SupPcs, Snap, Runner, Inv, ChildInv
<1>2. ASSUME NEW c \in Callers
      PROVE  caller[c].pc \in {"idle", "watch"} \union Starting
  BY DEF Types, Caller, CallerPcs, Starting
<1>3. bounds.starts <= MaxStarts /\ bounds.kills <= MaxKills /\ bounds.splits <= MaxSplits
  BY DEF Types, Bounds
<1> QED BY <1>1, <1>2, <1>3 DEF TypeOK, Types, Inv, LockInv

\* Every variable keeps its type, whatever commands overlap and whoever dies.
THEOREM TypeCorrect == Spec => []TypeOK
BY Invariant, TypesImplyTypeOK, PTL

\* A set with one member at most counts one at most.
LEMMA AtMostOne ==
    ASSUME NEW S, NEW x, S \subseteq {x}
    PROVE  Cardinality(S) <= 1
<1>1. IsFiniteSet({x}) /\ Cardinality({x}) = 1
  BY FS_Singleton
<1>2. Cardinality(S) <= Cardinality({x})
  BY <1>1, FS_Subset
<1> QED BY <1>1, <1>2

\* However many supervisors are launched, race or die, one runner at a time is
\* past the process lock.
THEOREM OneTraderAlways == Spec => []OneTrader
<1>1. IInv => OneTrader
  <2> SUFFICES ASSUME IInv PROVE OneTrader
    OBVIOUS
  <2>1. {r \in Pids : runner[r].pc \in {"wait", "session"}} \subseteq {lock}
    BY DEF IInv, Inv, LockInv, PastLock
  <2> QED BY <2>1, AtMostOne DEF OneTrader
<1> QED BY Invariant, <1>1, PTL

\* start() launches no second supervisor beside a live one, unless two start() calls
\* overlap: the recorded pid survives every interrupted update of runtime.json.
THEOREM OneSupervisorAlways == Spec => []OneSupervisor
<1>1. IInv => OneSupervisor
  <2> SUFFICES ASSUME IInv, ~seen.raced PROVE Cardinality({s \in Pids : SupAlive(s)}) <= 1
    BY DEF OneSupervisor
  <2>1. \A s, t \in Pids : SupAlive(s) /\ SupAlive(t) => s = t
    BY OneLives DEF IInv, Inv, RaceInv
  <2>2. \E x : {s \in Pids : SupAlive(s)} \subseteq {x}
    BY <2>1
  <2> QED BY <2>2, AtMostOne
<1> QED BY Invariant, <1>1, PTL

\* Between ticks runtime.json names the runner that the only supervisor has, and
\* confirms no flat broker under it, as long as no update overwrote another's.
THEOREM StatusAlways == Spec => []StatusMatchesChild
<1>1. IInv => StatusMatchesChild
  BY DEF IInv, Inv, StatusInv, TellsOf, Naming, StatusMatchesChild
<1> QED BY Invariant, <1>1, PTL

\* A stop cannot be missed: while start() calls do not overlap and no supervisor died
\* over its runner, no mode is requested again before every runner has exited.
THEOREM StopNotMissed == Spec => NoStartOverRunner
<1>1. IInv /\ [Next]_vars =>
        [(requested = "stopped" /\ requested' # "stopped" /\ ~seen.raced /\ ~seen.orphaned) =>
            \A r \in Pids : ~RunnerAlive(r)]_vars
  <2> SUFFICES ASSUME IInv, Next, requested = "stopped", requested' # "stopped",
                      ~seen.raced, ~seen.orphaned, NEW r \in Pids, RunnerAlive(r)
               PROVE  FALSE
    OBVIOUS
  <2>1. \E c \in Callers : Request(c)
    BY DEF Next, Ask, Watch, Stop, Command, WatchStarts, PreflightFails, Launch, Record,
           Supervise, SupUpdate, MonitorFails, Tick, Poll, DecideStop, DecideRun, SupOnly, Run, Acquire, Wait,
           Enter, SessionEnds, SessionFails, RunnerOnly, KillSupervisor, KillRunner
  <2>2. PICK c \in Callers : caller[c].pc = "preflight"
    BY <2>1 DEF Request
  <2>3. ~SupAlive(r)
    BY <2>2 DEF IInv, Inv, RaceInv, StartsAlone
  <2>4. sup[r].child = r /\ r # 0
    BY DEF IInv, Inv, OrphanInv, Pids
  <2> QED BY <2>3, <2>4 DEF IInv, Inv, ChildInv, SupAlive, NoSupervisor
<1> QED BY Invariant, <1>1, PTL DEF Spec, NoStartOverRunner
=============================================================================
