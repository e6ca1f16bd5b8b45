----------------------------- MODULE CodeSessions -----------------------------
(***************************************************************************)
(* What lives longer than a call in the coding kernels: the status machine *)
(* of an RLM kernel, the handles of its turns and the registry that        *)
(* survives the compaction of a prompt (crates/darius-rlm/src/lib.rs), and *)
(* the breakpoints and frames of the debugger                              *)
(* (crates/darius-lsp/src/lib.rs).  Any thread calls any operation; a      *)
(* handle that was cloned shares its status.  Waiting and Done are written *)
(* by no operation, so the branches for them are not taken.                *)
(***************************************************************************)
EXTENDS Integers, FiniteSets

CONSTANTS
  Threads,    \* threads that use the debugger
  Handles,    \* turns that may be spawned
  MaxPoints   \* bound on the breakpoints set and the steps taken

VARIABLES
  kernel,     \* status of the kernel
  handle,     \* status of the turn of each handle, "none" before rlm
  registry,   \* the handles registered
  points,     \* id -> who set the breakpoint, for those in the map
  nextId,     \* the next id of a breakpoint
  idLock,     \* who holds the lock of next_id
  setting,    \* per thread, its call of set_breakpoint and the ids it was given
  debugger    \* paused, and the depth of the call stack

vars == <<kernel, handle, registry, points, nextId, idLock, setting, debugger>>
turns == <<kernel, handle, registry>>
breakpoints == <<points, nextId, idLock, setting>>

Nobody == "nobody"
Live == {"running", "waiting"}

Init ==
  /\ kernel = "idle"
  /\ handle = [h \in Handles |-> "none"] /\ registry = {}
  /\ points = [id \in {} |-> Nobody] /\ nextId = 1 /\ idLock = Nobody
  /\ setting = [t \in Threads |-> [at |-> "idle", id |-> 0, given |-> {}]]
  /\ debugger = [paused |-> FALSE, frames |-> 0]

-------------------------------------------------------------------------------
(* The kernel and its turns.                                                 *)

\* start: from Idle, or again when it runs.
Startable(status) == status \in {"idle", "running"}

\* An operation in the wrong state is an error and changes nothing.
Start ==
  /\ kernel' = IF Startable(kernel) THEN "running" ELSE kernel
  /\ UNCHANGED <<handle, registry, breakpoints, debugger>>

Stop ==
  /\ kernel' = IF kernel \in {"idle", "running", "waiting"} THEN "idle" ELSE kernel
  /\ UNCHANGED <<handle, registry, breakpoints, debugger>>

Kill ==
  /\ kernel' = "killed"
  /\ UNCHANGED <<handle, registry, breakpoints, debugger>>

\* rlm: the turn runs from the start.
Spawn(h) ==
  /\ handle[h] = "none"
  /\ handle' = [handle EXCEPT ![h] = "running"]
  /\ UNCHANGED <<kernel, registry, breakpoints, debugger>>

Register(h) ==
  /\ handle[h] # "none"
  /\ registry' = registry \cup {h}
  /\ UNCHANGED <<kernel, handle, breakpoints, debugger>>

\* kill through a handle, its clones or the registry's copy.
KillTurn(h) ==
  /\ handle[h] # "none"
  /\ handle' = [handle EXCEPT ![h] = "killed"]
  /\ UNCHANGED <<kernel, registry, breakpoints, debugger>>

Compact ==
  /\ registry' = {h \in registry : handle[h] \in Live}
  /\ UNCHANGED <<kernel, handle, breakpoints, debugger>>

-------------------------------------------------------------------------------
(* The debugger.                                                             *)

\* Mutant: the id is read under the lock and counted after it.
MayTakeIdEarly(t) == TRUE

\* set_breakpoint holds the lock of next_id until the breakpoint is in the map.
MayTakeId(t) == idLock = Nobody

TakeId(t) ==
  /\ setting[t].at = "idle" /\ nextId <= MaxPoints /\ MayTakeId(t)
  /\ idLock' = t
  /\ setting' = [setting EXCEPT ![t].at = "inserting", ![t].id = nextId]
  /\ UNCHANGED <<points, nextId, debugger, turns>>

Insert(t) ==
  /\ setting[t].at = "inserting"
  /\ points' = [id \in DOMAIN points \cup {setting[t].id} |->
                  IF id = setting[t].id THEN t ELSE points[id]]
  /\ setting' = [setting EXCEPT ![t].at = "counting"]
  /\ UNCHANGED <<nextId, idLock, debugger, turns>>

Count(t) ==
  /\ setting[t].at = "counting"
  /\ nextId' = nextId + 1
  /\ idLock' = Nobody
  /\ setting' = [setting EXCEPT ![t].at = "idle", ![t].given = @ \cup {setting[t].id}]
  /\ UNCHANGED <<points, debugger, turns>>

\* Whoever was given an id removes it.
RemoveBreakpoint(t, id) ==
  /\ id \in setting[t].given
  /\ points' = [p \in DOMAIN points \ {id} |-> points[p]]
  /\ setting' = [setting EXCEPT ![t].given = @ \ {id}]
  /\ UNCHANGED <<nextId, idLock, debugger, turns>>

\* pause and resume; a step pushes a frame, paused or not.
Pause(on) ==
  /\ debugger' = [debugger EXCEPT !.paused = on]
  /\ UNCHANGED <<breakpoints, turns>>

Step ==
  /\ debugger.frames < MaxPoints
  /\ debugger' = [debugger EXCEPT !.frames = @ + 1]
  /\ UNCHANGED <<breakpoints, turns>>

Next ==
  \/ Start \/ Stop \/ Kill \/ Compact \/ Step
  \/ \E h \in Handles : Spawn(h) \/ Register(h) \/ KillTurn(h)
  \/ \E t \in Threads : TakeId(t) \/ Insert(t) \/ Count(t)
  \/ \E t \in Threads, id \in 1..MaxPoints : RemoveBreakpoint(t, id)
  \/ \E on \in BOOLEAN : Pause(on)

-------------------------------------------------------------------------------
(* Properties.                                                               *)

\* A breakpoint somebody was given and did not remove is listed as theirs: ids
\* of concurrent callers never meet, and none is given twice.
BreakpointsAreKept ==
  \A t \in Threads : \A id \in setting[t].given : id \in DOMAIN points /\ points[id] = t

\* Besides, a kill is final for kernel and turns, whoever starts, stops or kills
\* next, and compaction forgets no turn that is still running ("survives prompt
\* compaction", crates/darius-rlm/src/lib.rs:143).
SessionsAreKept ==
  [][/\ BreakpointsAreKept'
     /\ kernel = "killed" => kernel' = "killed"
     /\ \A h \in Handles : handle[h] = "killed" => handle'[h] = "killed"
     /\ \A h \in registry \ registry' : handle[h] \notin Live
    ]_vars

TypeOK ==
  /\ handle \in [Handles -> {"none", "running", "killed"}] /\ registry \subseteq Handles
  /\ nextId \in Nat
  /\ setting \in [Threads -> [at : {"idle", "inserting", "counting"}, id : Nat, given : SUBSET Nat]]

\* Who sets a breakpoint has the lock and the next id, which nobody was given before.
IdsAreFresh ==
  \A t \in Threads :
    /\ setting[t].at # "idle" => idLock = t /\ setting[t].id = nextId
    /\ setting[t].at = "counting" => nextId \in DOMAIN points /\ points[nextId] = t
    /\ \A id \in setting[t].given : id < nextId

\* The inductive invariant.
IInv == TypeOK /\ IdsAreFresh /\ BreakpointsAreKept
===============================================================================
