------------------------------- MODULE JobCtl -------------------------------
(***************************************************************************)
(* The job control of a task (CJobCtrl: a list of waiting jobs, a list of  *)
(* done jobs and the spin bit JOBCf_LOCKED) as Lilith2.HC redefines it:    *)
(* TaskExe posts a job, JobsHndlr/JobRunOne run the jobs of a task,        *)
(* JobResScan collects a result, TaskWait waits for a task to be idle.     *)
(* In Lilith every TempleOS task is a POSIX thread, so the critical        *)
(* sections that the kernel protected with CLI interleave; here every      *)
(* action is one step of one thread between two points at which another    *)
(* thread can notice or disturb it.                                        *)
(*                                                                         *)
(* Inserting a job in a list and removing one are single steps here        *)
(* (module JobQueue says when they may be), and FlushMsgs, which           *)
(* SrvTaskCont calls after JobsHndlr to throw messages away, is left to    *)
(* MsgLoop, whose subject is ScanMsg.                                      *)
(*                                                                         *)
(* TASKf_AWAITING_MSG is left out: only the scheduler that Lilith does not *)
(* run reads it.  LilithSignalEnqueuedTask is left out for the same kind   *)
(* of reason: no operation of this module waits on that condition.         *)
(***************************************************************************)
EXTENDS Naturals, Sequences, SequencesExt

CONSTANTS
  Tasks,        \* the tasks, each with a thread of its own
  Jobs,         \* the pool CJob structures are allocated from (bounds the model)
  None,         \* the NULL pointer
  Servers,      \* the tasks that run SrvTaskCont
  Exers,        \* the tasks that call TaskExe
  Posters,      \* the tasks that post through the kernel functions
  AnyScanners,  \* the tasks that call JobResScan(NULL)
  Waiters,      \* the tasks that call TaskWait on another task
  PopUpTask,    \* the popup_task field of every task
  FlagSets,     \* the flags jobs are posted with
  KernelCodes,  \* the job codes Kernel/Job.HC posts
  QueCodes,     \* the job codes JobQue posts
  MayFault      \* whether the code of a job may fault

JobFlags == {"WAKE_MASTER", "FOCUS_MASTER", "EXIT_ON_COMPLETE",
             "FREE_ON_COMPLETE", "DISPATCHED", "DONE"}
RunCodes == {"SPAWN_TASK", "CALL", "EXE_STR"}
JobCodes == RunCodes \cup {"MSG", "TEXT_INPUT"}

ASSUME JobCtlAssumption ==
  /\ Tasks # {}
  /\ None \notin Tasks \cup Jobs
  /\ Servers \subseteq Tasks /\ Exers \subseteq Tasks /\ Posters \subseteq Tasks
  /\ AnyScanners \subseteq Tasks /\ Waiters \subseteq Tasks
  /\ PopUpTask \in [Tasks -> Tasks \cup {None}]
  /\ FlagSets \subseteq SUBSET (JobFlags \ {"DISPATCHED", "DONE"})
  /\ KernelCodes \subseteq JobCodes /\ QueCodes \subseteq RunCodes
  /\ MayFault \in BOOLEAN

VARIABLES
  waiting,    \* CJobCtrl.next_waiting: the jobs posted to a task
  done,       \* CJobCtrl.next_done: the finished jobs a task may collect
  locked,     \* the tasks whose CJobCtrl has JOBCf_LOCKED set
  job,        \* the CJob structures
  alive,      \* those that are allocated
  valid,      \* the tasks TaskValidate accepts
  idle,       \* the tasks with TASKf_IDLE set
  suspended,  \* the tasks with TASKf_SUSPENDED set
  focus,      \* sys_focus_task
  idleWait,   \* the threads blocked on lilith_idle_cond of a task
  pc,         \* what the thread of a task does next
  ctrl,       \* the task whose CJobCtrl, or whose idling, the thread works on
  tmpc,       \* the job the thread has in hand, or looks for
  saved,      \* JobRunOne's locals flags and master
  req         \* the result of TaskExe or JobQue a thread has still to collect

shared == <<waiting, done, locked, job, alive, valid, idle, suspended, focus, idleWait>>
vars == <<shared, pc, ctrl, tmpc, saved, req>>

JobRec == [code : JobCodes, master : Tasks \cup {None}, ctrl : Tasks,
           flags : SUBSET JobFlags, owner : Tasks]   \* owner: who posted it (history)

PCs == {"ready", "dead", "faulted", "exe_lock", "exe_ins", "post_lock", "post_ins",
        "que_lock", "que_ins",
        "jh_lock", "jh_head", "jh_call", "jh_body", "jh_reply", "jh_done", "jh_flag",
        "jh_master", "jh_signal", "jh_idle", "end_lock", "end_del",
        "res_lock", "res_scan", "tw_empty", "tw_idle", "tw_wait", "tw_blocked"}

NoJob == LET t == CHOOSE t \in Tasks : TRUE
         IN  [code |-> "CALL", master |-> None, ctrl |-> t, flags |-> {}, owner |-> t]
NotSaved == [flags |-> {}, master |-> None]

Goto(t, from, to) == pc[t] = from /\ pc' = [pc EXCEPT ![t] = to]

\* The function returns, its locals are gone.
Return(t, from) ==
  /\ Goto(t, from, "ready")
  /\ ctrl' = [ctrl EXCEPT ![t] = t]
  /\ tmpc' = [tmpc EXCEPT ![t] = None]

Init ==
  /\ waiting = [t \in Tasks |-> <<>>]
  /\ done = [t \in Tasks |-> <<>>]
  /\ locked = {}
  /\ job = [j \in Jobs |-> NoJob]
  /\ alive = {}
  /\ valid = Tasks
  /\ idle = {}
  /\ suspended = {}
  /\ focus = None
  /\ idleWait = [t \in Tasks |-> {}]
  /\ pc = [t \in Tasks |-> "ready"]
  /\ ctrl = [t \in Tasks |-> t]
  /\ tmpc = [t \in Tasks |-> None]
  /\ saved = [t \in Tasks |-> NotSaved]
  /\ req = [t \in Tasks |-> None]

-----------------------------------------------------------------------------
(* LBts and LBtr on JOBCf_LOCKED.  A spinning thread is one whose next     *)
(* action, Lock, is not enabled yet.                                       *)

\* Mutant: LBts once instead of in a loop.
LockNoSpin(t, from, to) ==
  /\ Goto(t, from, to)
  /\ locked' = locked \cup {ctrl[t]}

Lock(t, from, to) ==
  /\ Goto(t, from, to)
  /\ ctrl[t] \notin locked
  /\ locked' = locked \cup {ctrl[t]}

Unlock(t) == locked' = locked \ {ctrl[t]}

\* The contents of freed memory are not modelled.
JobDel(j) == alive' = alive \ {j} /\ job' = [job EXCEPT ![j] = NoJob]

QueRem(q, i) == RemoveAt(q, i)

-----------------------------------------------------------------------------
(* Posting.                                                                *)

\* The allocation and the early returns of a function that posts a job: the
\* caller keeps the address it returns when it means to collect the result.
NewJob(t, s, m, code, fl) ==
  /\ s \in valid /\ (m # None => m \in valid)
  /\ PopUpTask[s] = None
  /\ "FREE_ON_COMPLETE" \in fl \/ req[t] = None
  /\ \E j \in Jobs \ alive :
       /\ alive' = alive \cup {j}
       /\ job' = [job EXCEPT ![j] = [code |-> code, master |-> m, ctrl |-> s,
                                     flags |-> fl, owner |-> t]]
       /\ tmpc' = [tmpc EXCEPT ![t] = j]
       /\ ctrl' = [ctrl EXCEPT ![t] = s]
  /\ UNCHANGED <<waiting, done, locked, valid, idle, suspended, focus, idleWait, saved, req>>

Keep(t) ==
  req' = IF "FREE_ON_COMPLETE" \in job[tmpc[t]].flags THEN req
         ELSE [req EXCEPT ![t] = tmpc[t]]

\* Mutant: QueIns after the head of the list instead of before it.
EnqueueFirst(t) ==
  /\ ctrl[t] \in valid
  /\ idle' = idle \ {ctrl[t]}
  /\ waiting' = [waiting EXCEPT ![ctrl[t]] = <<tmpc[t]>> \o @]
  /\ Keep(t)
  /\ UNCHANGED <<alive, done, job, valid, focus, idleWait, saved>>

\* Mutant: no TaskValidate under the lock.
EnqueueUnchecked(t) ==
  /\ idle' = idle \ {ctrl[t]}
  /\ waiting' = [waiting EXCEPT ![ctrl[t]] = Append(@, tmpc[t])]
  /\ Keep(t)
  /\ UNCHANGED <<alive, done, job, valid, focus, idleWait, saved>>

\* TaskRstAwaitingMsg and the clearing of TASKf_IDLE precede QueIns, all of it
\* with the lock held; the task is validated once more.
Enqueue(t) ==
  /\ ctrl[t] \in valid
  /\ idle' = idle \ {ctrl[t]}
  /\ waiting' = [waiting EXCEPT ![ctrl[t]] = Append(@, tmpc[t])]
  /\ Keep(t)
  /\ UNCHANGED <<alive, done, job, valid, focus, idleWait, saved>>

GiveUp(t) ==
  /\ ctrl[t] \notin valid
  /\ JobDel(tmpc[t])
  /\ UNCHANGED <<waiting, done, valid, idle, suspended, focus, idleWait, saved, req>>

TaskExe(t) ==
  /\ t \in Exers
  /\ Goto(t, "ready", "exe_lock")
  /\ \E s \in Servers, m \in {None, t}, fl \in FlagSets : NewJob(t, s, m, "EXE_STR", fl)

TaskExeLock(t) ==
  /\ Lock(t, "exe_lock", "exe_ins")
  /\ UNCHANGED <<waiting, done, job, alive, valid, idle, suspended, focus, idleWait,
                 ctrl, tmpc, saved, req>>

\* The branch that succeeds returns without clearing JOBCf_LOCKED.
\* Suspend(NULL) means the calling task.
TaskExeInsert(t) ==
  /\ Return(t, "exe_ins")
  /\ Enqueue(t)
  /\ LET m == IF job[tmpc[t]].master = None THEN t ELSE job[tmpc[t]].master
     IN  suspended' = IF "WAKE_MASTER" \in job[tmpc[t]].flags /\ m \in valid
                         THEN suspended \cup {m} ELSE suspended
  /\ UNCHANGED locked

TaskExeInvalid(t) ==
  /\ Return(t, "exe_ins")
  /\ GiveUp(t)
  /\ Unlock(t)

\* The functions of Kernel/Job.HC, which ran until Lilith2.HC replaced them, post
\* in the same way and do clear the bit.
KernelPost(t) ==
  /\ t \in Posters
  /\ Goto(t, "ready", "post_lock")
  /\ \E s \in Servers, m \in {None, t}, code \in KernelCodes, fl \in FlagSets :
       NewJob(t, s, m, code, fl)

KernelPostLock(t) ==
  /\ Lock(t, "post_lock", "post_ins")
  /\ UNCHANGED <<waiting, done, job, alive, valid, idle, suspended, focus, idleWait,
                 ctrl, tmpc, saved, req>>

KernelPostInsert(t) ==
  /\ Return(t, "post_ins")
  /\ Unlock(t)
  /\ \/ Enqueue(t) /\ UNCHANGED suspended
     \/ GiveUp(t)

\* JobQue of Kernel/MultiProc.HC, which Lilith keeps: no master, no validation
\* under the lock, TASKf_IDLE left as it is.
JobQue(t) ==
  /\ t \in Posters
  /\ Goto(t, "ready", "que_lock")
  /\ \E s \in Servers, code \in QueCodes, fl \in FlagSets : NewJob(t, s, None, code, fl)

JobQueLock(t) ==
  /\ Lock(t, "que_lock", "que_ins")
  /\ UNCHANGED <<waiting, done, job, alive, valid, idle, suspended, focus, idleWait,
                 ctrl, tmpc, saved, req>>

JobQueInsert(t) ==
  /\ Return(t, "que_ins")
  /\ waiting' = [waiting EXCEPT ![ctrl[t]] = Append(@, tmpc[t])]
  /\ Keep(t)
  /\ Unlock(t)
  /\ UNCHANGED <<done, job, alive, valid, idle, suspended, focus, idleWait, saved>>

-----------------------------------------------------------------------------
(* JobsHndlr and JobRunOne, run by the thread of the task itself.          *)

\* SrvTaskCont of Kernel/KTask.HC calls JobsHndlr in a loop.
JobsHndlr(t) ==
  /\ t \in Servers
  /\ Goto(t, "ready", "jh_lock")
  /\ ctrl' = [ctrl EXCEPT ![t] = t]
  /\ UNCHANGED <<shared, tmpc, saved, req>>

JobsHndlrLock(t) ==
  /\ Lock(t, "jh_lock", "jh_head")
  /\ UNCHANGED <<waiting, done, job, alive, valid, idle, suspended, focus, idleWait,
                 ctrl, tmpc, saved, req>>

\* Mutant: goto jh_done jumps past LBtr.
JobsHndlrDoneLocked(t) ==
  /\ Goto(t, "jh_head", "jh_signal")
  /\ waiting[t] # <<>> => job[Head(waiting[t])].code \notin RunCodes
  /\ UNCHANGED <<shared, ctrl, tmpc, saved, req>>

\* Nothing waits, or the first job is not one JobRunOne runs (JOB_DONE).
JobsHndlrDone(t) ==
  /\ Goto(t, "jh_head", "jh_signal")
  /\ \/ waiting[t] = <<>>
     \/ waiting[t] # <<>> /\ job[Head(waiting[t])].code \notin RunCodes
  /\ Unlock(t)
  /\ UNCHANGED <<waiting, done, job, alive, valid, idle, suspended, focus, idleWait,
                 ctrl, tmpc, saved, req>>

\* QueRem, DISPATCHED, unlock.
JobRunOne(t) ==
  /\ Goto(t, "jh_head", "jh_call")
  /\ waiting[t] # <<>> /\ job[Head(waiting[t])].code \in RunCodes
  /\ LET j == Head(waiting[t]) IN
       /\ tmpc' = [tmpc EXCEPT ![t] = j]
       /\ saved' = [saved EXCEPT ![t] = [flags |-> job[j].flags, master |-> job[j].master]]
       /\ job' = [job EXCEPT ![j].flags = @ \cup {"DISPATCHED"}]
       /\ waiting' = [waiting EXCEPT ![t] = Tail(@)]
  /\ Unlock(t)
  /\ UNCHANGED <<done, alive, valid, idle, suspended, focus, idleWait, ctrl, req>>

\* CALL and EXE_STR clear TASKf_IDLE before they run the code; SPAWN_TASK does not.
JobCall(t) ==
  /\ Goto(t, "jh_call", "jh_body")
  /\ idle' = IF job[tmpc[t]].code = "SPAWN_TASK" THEN idle ELSE idle \ {t}
  /\ UNCHANGED <<waiting, done, locked, job, alive, valid, suspended, focus, idleWait,
                 ctrl, tmpc, saved, req>>

\* Mutant: the result goes to the list of the server although there is a master.
JobBodyOwnList(t) ==
  /\ pc[t] = "jh_body"
  /\ pc' = [pc EXCEPT ![t] =
              IF "FREE_ON_COMPLETE" \in saved[t].flags THEN "jh_master" ELSE "jh_reply"]
  /\ ctrl' = [ctrl EXCEPT ![t] = t]
  /\ UNCHANGED <<shared, tmpc, saved, req>>

\* The code of the job returns, or throws and is caught.  The result goes to the
\* done list of the master, or of the server if there is none, unless the job
\* is to be freed.
JobBody(t) ==
  /\ pc[t] = "jh_body"
  /\ LET free == "FREE_ON_COMPLETE" \in saved[t].flags
     IN  /\ pc' = [pc EXCEPT ![t] = IF free THEN "jh_master" ELSE "jh_reply"]
         /\ ctrl' = [ctrl EXCEPT ![t] =
                       IF saved[t].master = None \/ free THEN t ELSE saved[t].master]
  /\ UNCHANGED <<shared, tmpc, saved, req>>

\* The code of the job faults: signal_handler (utils.c) ends the thread, and
\* nothing is reset.
JobFault(t) ==
  /\ MayFault
  /\ Goto(t, "jh_body", "faulted")
  /\ UNCHANGED <<shared, ctrl, tmpc, saved, req>>

JobReplyLock(t) ==
  /\ Lock(t, "jh_reply", "jh_done")
  /\ UNCHANGED <<waiting, done, job, alive, valid, idle, suspended, focus, idleWait,
                 ctrl, tmpc, saved, req>>

\* Mutant: LBtr between QueIns and the setting of JOBf_DONE.
JobReplyInsertUnlock(t) ==
  /\ Goto(t, "jh_done", "jh_flag")
  /\ done' = [done EXCEPT ![ctrl[t]] = Append(@, tmpc[t])]
  /\ Unlock(t)
  /\ UNCHANGED <<waiting, job, alive, valid, idle, suspended, focus, idleWait,
                 ctrl, tmpc, saved, req>>

JobReplyInsert(t) ==
  /\ Goto(t, "jh_done", "jh_flag")
  /\ done' = [done EXCEPT ![ctrl[t]] = Append(@, tmpc[t])]
  /\ UNCHANGED <<waiting, locked, job, alive, valid, idle, suspended, focus, idleWait,
                 ctrl, tmpc, saved, req>>

\* Mutant: JOBf_DONE is never set.
JobReplyNotDone(t) ==
  /\ Goto(t, "jh_flag", "jh_master")
  /\ Unlock(t)
  /\ UNCHANGED <<waiting, done, job, alive, valid, idle, suspended, focus, idleWait,
                 ctrl, tmpc, saved, req>>

\* JOBf_DONE, then unlock.  From here on the collector may free the job.
JobReplyDone(t) ==
  /\ Goto(t, "jh_flag", "jh_master")
  /\ job' = [job EXCEPT ![tmpc[t]].flags = @ \cup {"DONE"}]
  /\ Unlock(t)
  /\ UNCHANGED <<waiting, done, alive, valid, idle, suspended, focus, idleWait,
                 ctrl, tmpc, saved, req>>

\* Mutant: JobDel whether or not JOBf_FREE_ON_COMPLETE is set.
JobMasterFrees(t) ==
  /\ pc[t] = "jh_master"
  /\ JobDel(tmpc[t])
  /\ pc' = [pc EXCEPT ![t] =
              IF "EXIT_ON_COMPLETE" \in saved[t].flags THEN "end_lock" ELSE "jh_lock"]
  /\ ctrl' = [ctrl EXCEPT ![t] = t]
  /\ tmpc' = [tmpc EXCEPT ![t] = None]
  /\ saved' = [saved EXCEPT ![t] = NotSaved]
  /\ UNCHANGED <<waiting, done, locked, valid, idle, suspended, focus, idleWait, req>>

\* FOCUS_MASTER, unless the master's window inhibits it (WIf_SELF_FOCUS, a choice here),
\* WAKE_MASTER, JobDel; then JOB_EXIT leads to Exit and JOB_CONT to the next job.
JobMaster(t) ==
  /\ pc[t] = "jh_master"
  /\ LET m == saved[t].master
         fl == saved[t].flags
     IN  /\ focus' \in IF m # None /\ "FOCUS_MASTER" \in fl THEN {m, focus} ELSE {focus}
         /\ suspended' = IF m # None /\ "WAKE_MASTER" \in fl /\ m \in valid
                         THEN suspended \ {m} ELSE suspended
         /\ IF "FREE_ON_COMPLETE" \in fl THEN JobDel(tmpc[t]) ELSE UNCHANGED <<alive, job>>
         /\ pc' = [pc EXCEPT ![t] =
                     IF "EXIT_ON_COMPLETE" \in fl THEN "end_lock" ELSE "jh_lock"]
  /\ ctrl' = [ctrl EXCEPT ![t] = t]
  /\ tmpc' = [tmpc EXCEPT ![t] = None]
  /\ saved' = [saved EXCEPT ![t] = NotSaved]
  /\ UNCHANGED <<waiting, done, locked, valid, idle, idleWait, req>>

\* Mutant: no signal.
JobsHndlrNoSignal(t) ==
  /\ Goto(t, "jh_signal", "jh_idle")
  /\ UNCHANGED <<shared, ctrl, tmpc, saved, req>>

\* LilithSignalIdleTask(task) broadcasts the idle condition.
JobsHndlrSignal(t) ==
  /\ Goto(t, "jh_signal", "jh_idle")
  /\ idleWait' = [idleWait EXCEPT ![t] = {}]
  /\ UNCHANGED <<waiting, done, locked, job, alive, valid, idle, suspended, focus,
                 ctrl, tmpc, saved, req>>

\* SrvTaskCont marks its task idle after JobsHndlr has returned.
SrvTaskIdle(t) ==
  /\ Return(t, "jh_idle")
  /\ idle' = idle \cup {t}
  /\ UNCHANGED <<waiting, done, locked, job, alive, valid, suspended, focus, idleWait, saved, req>>

\* Exit: TaskEnd of Kernel/KTask.HC deletes the jobs of the task and makes it
\* invalid under its lock.
TaskEndLock(t) ==
  /\ Lock(t, "end_lock", "end_del")
  /\ UNCHANGED <<waiting, done, job, alive, valid, idle, suspended, focus, idleWait,
                 ctrl, tmpc, saved, req>>

TaskEnd(t) ==
  /\ Goto(t, "end_del", "dead")
  /\ LET gone == {j \in Jobs : Contains(waiting[t], j) \/ Contains(done[t], j)}
     IN  /\ alive' = alive \ gone
         /\ job' = [j \in Jobs |-> IF j \in gone THEN NoJob ELSE job[j]]
  /\ waiting' = [waiting EXCEPT ![t] = <<>>]
  /\ done' = [done EXCEPT ![t] = <<>>]
  /\ valid' = valid \ {t}
  /\ focus' = IF focus = t THEN None ELSE focus
  /\ Unlock(t)
  /\ UNCHANGED <<idle, suspended, idleWait, ctrl, tmpc, saved, req>>

-----------------------------------------------------------------------------
(* JobResScan.                                                             *)

\* Mutant: the list of the master, whether there is a master or not.
JobResScanMaster(t) ==
  /\ req[t] # None
  /\ Goto(t, "ready", "res_lock")
  /\ "DONE" \in job[req[t]].flags
  /\ ctrl' = [ctrl EXCEPT ![t] = job[req[t]].master]
  /\ tmpc' = [tmpc EXCEPT ![t] = req[t]]
  /\ UNCHANGED <<shared, saved, req>>

\* The flag is tested without the lock.
JobResScan(t) ==
  /\ req[t] # None
  /\ Goto(t, "ready", "res_lock")
  /\ LET r == job[req[t]]
     IN  /\ "DONE" \in r.flags
         /\ ctrl' = [ctrl EXCEPT ![t] = IF r.master # None THEN t ELSE r.ctrl]
  /\ tmpc' = [tmpc EXCEPT ![t] = req[t]]
  /\ UNCHANGED <<shared, saved, req>>

JobResScanAny(t) ==
  /\ t \in AnyScanners
  /\ Goto(t, "ready", "res_lock")
  /\ ctrl' = [ctrl EXCEPT ![t] = t]
  /\ tmpc' = [tmpc EXCEPT ![t] = None]
  /\ UNCHANGED <<shared, saved, req>>

JobResScanLock(t) ==
  /\ Lock(t, "res_lock", "res_scan")
  /\ UNCHANGED <<waiting, done, job, alive, valid, idle, suspended, focus, idleWait,
                 ctrl, tmpc, saved, req>>

\* The job JobResScan stops at: the first one, or the one it looks for.
Found(t, i) == IF tmpc[t] = None THEN i = 1 ELSE done[ctrl[t]][i] = tmpc[t]

\* Mutant: the return in the loop leaves JOBCf_LOCKED set.
JobResTakeLocked(t) ==
  /\ Return(t, "res_scan")
  /\ \E i \in 1..Len(done[ctrl[t]]) :
       LET j == done[ctrl[t]][i] IN
       /\ Found(t, i)
       /\ done' = [done EXCEPT ![ctrl[t]] = QueRem(@, i)]
       /\ JobDel(j)
       /\ req' = [req EXCEPT ![t] = IF @ = j THEN None ELSE @]
  /\ UNCHANGED <<waiting, locked, valid, idle, suspended, focus, idleWait, saved>>

\* Mutant: JobDel without QueRem.
JobResTakeKeeps(t) ==
  /\ Return(t, "res_scan")
  /\ \E i \in 1..Len(done[ctrl[t]]) :
       /\ Found(t, i)
       /\ JobDel(done[ctrl[t]][i])
       /\ req' = [req EXCEPT ![t] = IF @ = done[ctrl[t]][i] THEN None ELSE @]
  /\ Unlock(t)
  /\ UNCHANGED <<waiting, done, valid, idle, suspended, focus, idleWait, saved>>

JobResTake(t) ==
  /\ Return(t, "res_scan")
  /\ \E i \in 1..Len(done[ctrl[t]]) :
       LET j == done[ctrl[t]][i] IN
       /\ Found(t, i)
       /\ done' = [done EXCEPT ![ctrl[t]] = QueRem(@, i)]
       /\ JobDel(j)
       /\ req' = [req EXCEPT ![t] = IF @ = j THEN None ELSE @]
  /\ Unlock(t)
  /\ UNCHANGED <<waiting, valid, idle, suspended, focus, idleWait, saved>>

JobResNone(t) ==
  /\ Return(t, "res_scan")
  /\ \A i \in 1..Len(done[ctrl[t]]) : ~Found(t, i)
  /\ Unlock(t)
  /\ UNCHANGED <<waiting, done, job, alive, valid, idle, suspended, focus, idleWait,
                 saved, req>>

-----------------------------------------------------------------------------
(* TaskWait.  No input filter runs here, so last_input_filter_task is the  *)
(* task itself.  Neither the list nor the flag is read under a lock.       *)

TaskWait(t) ==
  /\ t \in Waiters
  /\ Goto(t, "ready", "tw_empty")
  /\ \E s \in Tasks \ {t} : ctrl' = [ctrl EXCEPT ![t] = s]
  /\ UNCHANGED <<shared, tmpc, saved, req>>

\* Mutant: || in place of && between the list and the flag.
TaskWaitEmptyOr(t) ==
  /\ pc[t] = "tw_empty"
  /\ IF ctrl[t] \in valid /\ waiting[ctrl[t]] # <<>>
     THEN Goto(t, "tw_empty", "tw_idle") /\ UNCHANGED <<ctrl, tmpc>>
     ELSE Return(t, "tw_empty")
  /\ UNCHANGED <<shared, saved, req>>

TaskWaitEmpty(t) ==
  /\ pc[t] = "tw_empty"
  /\ IF ctrl[t] \in valid
     THEN /\ pc' = [pc EXCEPT ![t] = IF waiting[ctrl[t]] = <<>> THEN "tw_idle" ELSE "tw_wait"]
          /\ UNCHANGED <<ctrl, tmpc>>
     ELSE Return(t, "tw_empty")
  /\ UNCHANGED <<shared, saved, req>>

TaskWaitIdle(t) ==
  /\ \/ ctrl[t] \in idle /\ Return(t, "tw_idle")
     \/ ctrl[t] \notin idle /\ Goto(t, "tw_idle", "tw_wait") /\ UNCHANGED <<ctrl, tmpc>>
  /\ UNCHANGED <<shared, saved, req>>

\* pthread_cond_wait, once, whatever has happened since the two tests.
TaskWaitBlock(t) ==
  /\ Goto(t, "tw_wait", "tw_blocked")
  /\ idleWait' = [idleWait EXCEPT ![ctrl[t]] = @ \cup {t}]
  /\ UNCHANGED <<waiting, done, locked, job, alive, valid, idle, suspended, focus,
                 ctrl, tmpc, saved, req>>

TaskWaitWake(t) ==
  /\ Goto(t, "tw_blocked", "tw_empty")
  /\ t \notin idleWait[ctrl[t]]
  /\ UNCHANGED <<shared, ctrl, tmpc, saved, req>>

-----------------------------------------------------------------------------
Handle(t) ==
  \/ JobsHndlr(t) \/ JobsHndlrLock(t) \/ JobsHndlrDone(t) \/ JobRunOne(t) \/ JobCall(t)
  \/ JobBody(t) \/ JobReplyLock(t) \/ JobReplyInsert(t) \/ JobReplyDone(t) \/ JobMaster(t)
  \/ JobsHndlrSignal(t) \/ SrvTaskIdle(t) \/ TaskEndLock(t) \/ TaskEnd(t)

Post(t) ==
  \/ TaskExeLock(t) \/ TaskExeInsert(t) \/ TaskExeInvalid(t)
  \/ KernelPostLock(t) \/ KernelPostInsert(t) \/ JobQueLock(t) \/ JobQueInsert(t)

Collect(t) == JobResScan(t) \/ JobResScanLock(t) \/ JobResTake(t) \/ JobResNone(t)

Wait(t) == TaskWaitEmpty(t) \/ TaskWaitIdle(t) \/ TaskWaitBlock(t) \/ TaskWaitWake(t)

Call(t) == TaskExe(t) \/ KernelPost(t) \/ JobQue(t) \/ JobResScanAny(t) \/ TaskWait(t)

Next == \E t \in Tasks :
          Handle(t) \/ Post(t) \/ Collect(t) \/ Wait(t) \/ Call(t) \/ JobFault(t)

Spec == Init /\ [][Next]_vars

\* A thread that is inside one of these functions is scheduled again and again
\* (each task is a kernel thread); nothing obliges a task to call one, or a job
\* to fault.
FairSpec == Spec /\ \A t \in Tasks : /\ WF_vars(Handle(t)) /\ WF_vars(Post(t))
                                     /\ WF_vars(Collect(t)) /\ WF_vars(Wait(t))

-----------------------------------------------------------------------------
(* Properties.                                                             *)

TypeOK ==
  /\ waiting \in [Tasks -> Seq(Jobs)] /\ done \in [Tasks -> Seq(Jobs)]
  /\ locked \in SUBSET Tasks
  /\ job \in [Jobs -> JobRec] /\ alive \in SUBSET Jobs
  /\ valid \in SUBSET Tasks /\ idle \in SUBSET Tasks
  /\ suspended \in SUBSET Tasks /\ focus \in Tasks \cup {None}
  /\ idleWait \in [Tasks -> SUBSET Tasks]
  /\ pc \in [Tasks -> PCs]
  /\ ctrl \in [Tasks -> Tasks]
  /\ tmpc \in [Tasks -> Jobs \cup {None}]
  /\ saved \in [Tasks -> [flags : SUBSET JobFlags, master : Tasks \cup {None}]]
  /\ req \in [Tasks -> Jobs \cup {None}]

Critical == {"exe_ins", "post_ins", "que_ins", "jh_head", "jh_done", "jh_flag",
             "end_del", "res_scan"}

\* Thread t works on the lists of task c.
Inside(t, c) == pc[t] \in Critical /\ ctrl[t] = c

\* JOBCf_LOCKED protects the lists of a task: two threads are never between
\* LBts and LBtr of the same CJobCtrl, and the bit is set while one is.  This is
\* what "Called with ctrl->flags,JOBCf_LOCKED" asks of JobRunOne's callers, and
\* what JobRunOne, which unlocks in the middle, must give back.
LockExclusive ==
  \A t \in Tasks :
    pc[t] \in Critical =>
      /\ ctrl[t] \in locked
      /\ \A u \in Tasks \ {t} : pc[u] \in Critical => ctrl[u] # ctrl[t]

\* Where TaskExe is not used, JOBCf_LOCKED is never set with nobody inside: a
\* spinning thread always waits for a thread that is on its way to LBtr.
NoOrphanLock == \A c \in Tasks : c \in locked => \E t \in Tasks : Inside(t, c)

\* The thread of t has job tmpc[t] in hand: no list holds it (yet, or any more).
InHand(t) ==
  \/ pc[t] \in {"exe_lock", "exe_ins", "post_lock", "post_ins", "que_lock", "que_ins",
                "jh_call", "jh_body", "jh_reply", "jh_done", "faulted"}
  \/ pc[t] = "jh_master" /\ "FREE_ON_COMPLETE" \in saved[t].flags

\* Everything that refers to a job as its own: positions of lists, threads' hands.
ListSpots(t) ==
  ({"waiting"} \X {t} \X DOMAIN waiting[t]) \cup ({"done"} \X {t} \X DOMAIN done[t])

HandSpots == {"hand"} \X {t \in Tasks : InHand(t)} \X {0}

Spots == (UNION {ListSpots(t) : t \in Tasks}) \cup HandSpots

At(s) == CASE s[1] = "waiting" -> waiting[s[2]][s[3]]
           [] s[1] = "done" -> done[s[2]][s[3]]
           [] s[1] = "hand" -> tmpc[s[2]]

\* A CJob is never on two lists, twice on one, or on a list while a thread runs
\* it; no list or thread keeps a job that JobDel has freed; and none is leaked.
\* Posting, JobRunOne, JobResScan and TaskEnd all move and free the same jobs.
JobInOnePlace ==
  /\ \A r, s \in Spots : At(r) = At(s) => r = s
  /\ {At(s) : s \in Spots} = alive

ReplyTo(j) == IF job[j].master # None THEN job[j].master ELSE job[j].ctrl

\* JobResScan tests JOBf_DONE without the lock and then looks at one done list
\* only; a job that carries the flag and is not freed is on that very list, so
\* the scan of a finished request does not come back empty-handed.
DoneIsCollectable ==
  \A j \in alive : "DONE" \in job[j].flags => Contains(done[ReplyTo(j)], j)

\* JobRunOne writes JOBf_DONE after it has put the job on the done list: nobody
\* may have collected and freed the job in between.
ReplyStillOwned ==
  \A t \in Tasks : pc[t] = "jh_flag" =>
    tmpc[t] \in alive /\ Contains(done[ctrl[t]], tmpc[t])

\* A request a task has still to collect is its own job, not freed and not
\* reused, as long as no other task scans for any result and no server ends.
HandleLive ==
  \A t \in Tasks : req[t] # None => req[t] \in alive /\ job[req[t]].owner = t

\* TaskValidate is tested again once the lock is held, and TaskEnd invalidates
\* the task under that lock: no job is ever left on the list of a dead task.
NoJobOnDead == \A t \in Tasks : t \notin valid => waiting[t] = <<>>

\* TaskWait reads the list and then TASKf_IDLE, both without the lock, and JobRunOne gives
\* the list free before it clears the flag: a caller may find a task "idle" that has just
\* taken a job.  But no job the caller posted there is still waiting then.
WaitSeesStarted ==
  \A t \in Waiters :
    pc[t] = "tw_idle" => \A j \in Range(waiting[ctrl[t]]) : job[j].owner # t

\* Thread t is between taking a job off its list and having answered it.
Running(t) == pc[t] \in {"jh_call", "jh_body", "jh_reply", "jh_done"}

\* LBts is not fair, and JobsHndlr does not return while jobs keep coming: what
\* follows is promised to the tasks that, from some moment on, post no more.
Quiet == <>[] \A t \in Tasks : pc[t] \notin {"exe_ins", "post_ins", "que_ins"}

\* "Handle all waiting cmds and return." (lilith_JobsHndlr): a call returns, or its
\* thread ends.
HandlerReturns ==
  Quiet => \A t \in Servers : pc[t] = "jh_lock" ~> pc[t] \in {"ready", "dead", "faulted"}

\* A job on the list of a server is run and answered or freed (unless the server
\* ends or faults first).
JobsFinish ==
  Quiet =>
    \A t \in Servers, j \in Jobs :
      Contains(waiting[t], j) ~> \/ j \notin alive \/ "DONE" \in job[j].flags
                                \/ pc[t] \in {"dead", "faulted"}

\* A task that waits for a server to be idle gets on (unless a server faults):
\* pthread_cond_wait has no predicate, but SrvTaskCont signals again and again.
TaskWaitReturns ==
  Quiet =>
    \A t \in Waiters :
      pc[t] = "tw_empty" /\ ctrl[t] \in Servers ~>
        pc[t] = "ready" \/ \E s \in Servers : pc[s] = "faulted"

\* The job a task runs is the one its thread took off the list, until it is answered or freed.
Busy(t) ==
  \/ Running(t) \/ pc[t] = "faulted"
  \/ pc[t] = "jh_master" /\ "FREE_ON_COMPLETE" \in saved[t].flags

Serves == [t \in Tasks |-> IF Busy(t) THEN tmpc[t] ELSE None]

\* The job control implements the job service.
Service == INSTANCE JobService WITH pending <- waiting, running <- Serves, finished <- done

\* Jobs are started once and in order, finished into one list and collected once.
ImplementsService == Service!SSpec
=============================================================================
