------------------------------- MODULE TaskPool -------------------------------
(***************************************************************************)
(* What the scheduler promises, without deque, counters, frames or locks:  *)
(* a pool of tasks that are given to cores one at a time.  sched.rs        *)
(* documents it as "performs a context switch" from "the current process"  *)
(* to "the next process"; Scheduler implements this module.                *)
(***************************************************************************)
CONSTANTS Cores, Tasks, Nobody

VARIABLES
    status,  \* per task: "absent", "ready", "running", "asleep" or "exited"
    on       \* per core: the task it executes, or Nobody

poolVars == <<status, on>>

PoolInit ==
    /\ status = [p \in Tasks |-> "absent"]
    /\ on = [c \in Cores |-> Nobody]

(* A task is added.                                                        *)
Create(p) ==
    /\ status[p] = "absent"
    /\ status' = [status EXCEPT ![p] = "ready"]
    /\ UNCHANGED on

(* A core that has no task takes one that nobody has.                      *)
Dispatch(c, p) ==
    /\ on[c] = Nobody
    /\ status[p] \in {"ready", "asleep"}
    /\ status' = [status EXCEPT ![p] = "running"]
    /\ on' = [on EXCEPT ![c] = p]

(* The task on a core is preempted, goes to sleep or exits; the core that  *)
(* runs a task is the only one that may take it off.                       *)
Leave(c, p) ==
    /\ on[c] = p
    /\ status[p] = "running"
    /\ \E s \in {"ready", "asleep", "exited"} : status' = [status EXCEPT ![p] = s]
    /\ on' = [on EXCEPT ![c] = Nobody]

PoolNext ==
    \/ \E p \in Tasks : Create(p)
    \/ \E c \in Cores, p \in Tasks : Dispatch(c, p) \/ Leave(c, p)

PoolSpec == PoolInit /\ [][PoolNext]_poolVars
=============================================================================
