---------------------------- MODULE HoldoutGuard ----------------------------
(***************************************************************************)
(* evaluate_holdout of src/optimizer/walk_forward.py, run by several          *)
(* processes over one output directory: the sentinel of the params' hash is   *)
(* looked for, the evaluation takes its time, then the record and at last the *)
(* sentinel are written.  A process may die between any two of these.         *)
(***************************************************************************)
EXTENDS Integers, FiniteSets

CONSTANTS
    Runs,        \* processes
    Params,      \* ORBParams, of which some share a hash
    HashOf,      \* params_hash of each
    HoldFirms    \* firms an evaluation is asked for

ASSUME GuardAssumption == Params # {} /\ HoldFirms # {}

VARIABLES
    run,      \* what each process evaluates, and how far it is
    records,  \* holdout_<hash>.json: how often it was written
    locked,   \* HOLDOUT_UNLOCKED/<hash>.lock
    excused   \* hashes that two runs evaluated at once, or whose run died

guardVars == <<run, records, locked, excused>>

Hashes == {HashOf[p] : p \in Params}

GuardInit ==
    /\ run = [r \in Runs |-> [pc |-> "start", params |-> CHOOSE p \in Params : TRUE, firm |-> CHOOSE f \in HoldFirms : TRUE]]
    /\ records = [h \in Hashes |-> 0]
    /\ locked = {} /\ excused = {}

\* Mutant: a sentinel for each pair of params and firm.
SentinelOfPair(params, firm) == <<HashOf[params], firm>>
Sentinel(params, firm) == <<HashOf[params]>>

Running(h) == {r \in Runs : run[r].pc \in {"evaluate", "record"} /\ HashOf[run[r].params] = h}

\* Refused when the sentinel exists, begun otherwise.
Check(r, params, firm) ==
    /\ run[r].pc = "start"
    /\ run' = [run EXCEPT ![r] =
          [pc |-> IF Sentinel(params, firm) \in locked THEN "refused" ELSE "evaluate",
           params |-> params, firm |-> firm]]
    /\ excused' = IF Running(HashOf[params]) # {} THEN excused \union {HashOf[params]} ELSE excused
    /\ UNCHANGED <<records, locked>>

WriteRecord(r) ==
    /\ run[r].pc = "evaluate"
    /\ run' = [run EXCEPT ![r].pc = "record"]
    /\ records' = [records EXCEPT ![HashOf[run[r].params]] = @ + 1]
    /\ UNCHANGED <<locked, excused>>

WriteSentinel(r) ==
    /\ run[r].pc = "record"
    /\ run' = [run EXCEPT ![r].pc = "done"]
    /\ locked' = locked \union {Sentinel(run[r].params, run[r].firm)}
    /\ UNCHANGED <<records, excused>>

Die(r) ==
    /\ run[r].pc \in {"evaluate", "record"}
    /\ run' = [run EXCEPT ![r].pc = "dead"]
    /\ excused' = excused \union {HashOf[run[r].params]}
    /\ UNCHANGED <<records, locked>>

GuardNext ==
    \E r \in Runs :
        \/ \E p \in Params, f \in HoldFirms : Check(r, p, f)
        \/ WriteRecord(r) \/ WriteSentinel(r) \/ Die(r)

GuardSpec == GuardInit /\ [][GuardNext]_guardVars

\* The record of a hash is written once, whichever params with that hash and whichever
\* firm it is asked for, unless two runs evaluated it at once or one died over it.
HoldoutOnce == \A h \in Hashes \ excused : records[h] <= 1
=============================================================================
