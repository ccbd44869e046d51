----------------------------- MODULE MCScheduler -----------------------------
(* A bounded instance of Scheduler; the values are in MCSchedulerApi.cfg.   *)
EXTENDS Scheduler

(* All but the registers and the work of threads: no guard of the           *)
(* scheduler's operations and no property of this instance looks at them,   *)
(* so states that differ in them only are explored once.                    *)
Control == <<tstate, tpid, ksp, slice, procVars, ready_queue, current, active,
             stackVars, idVars, cr3, rsp0, hung>>
=============================================================================
