----------------------------- MODULE InputFilter -----------------------------
(***************************************************************************)
(* Text for a task (TaskText) is executed by an input filter: a task of    *)
(* its own, linked in a ring that starts at the task (Srv), and messages   *)
(* for Srv (TaskMsg) go along the ring to the first task without           *)
(* TASKf_FILTER_INPUT.  TaskText spawns the filter if there is none (or if *)
(* the text has the highest priority), links it and posts the text to it;  *)
(* InputFilterTask waits, executes what is in its list, takes itself out   *)
(* of the ring and ends.  Spawn's part that matters here, the start of the *)
(* thread, is included.                                                    *)
(*                                                                         *)
(* Each action is one statement that another thread may notice.  QueIns    *)
(* runs under JOBCf_LOCKED, the QueRem of a filter under nothing and that  *)
(* of ScanMsg under the mutex, so that they may overlap: QueIns takes two  *)
(* steps, between which a QueRem may fall.  Their stores go to different   *)
(* pointers as long as another job lies between the one removed and the    *)
(* one inserted; if none does the list of the filter is torn.  JobQueue    *)
(* has what is in memory then; here the filter reads its list no more.     *)
(*                                                                         *)
(* JobsHndlr finds nothing to run in a filter (its jobs are texts and      *)
(* messages).  The thread of Srv itself takes part in nothing here:        *)
(* whether Srv is idle is a constant.  A filter's task stays valid after   *)
(* its thread ends (templeos_task_start does not undo TaskInit), unless    *)
(* the text it executes calls Exit.                                        *)
(***************************************************************************)
EXTENDS Naturals, Sequences, Picking

CONSTANTS
  Srv,        \* the task the text and the messages are for
  Callers,    \* the threads that call TaskText
  Senders,    \* the threads that call TaskMsg
  Filters,    \* the tasks Spawn can make (bounds the model)
  Jobs,       \* the CJob structures, each posted once (bounds the model)
  None,
  Highest,    \* the jobs with JOBf_HIGHEST_PRIORITY set, if they are texts
  Msgs,       \* the jobs that TaskMsg sends, and TaskText the others (bounds the model)
  Reads,      \* the jobs that read a key, if they are texts
  Exits,      \* the jobs that may call Exit, if they are texts
  Early,      \* the threads whose waits may end without a signal (bounds the model)
  SrvIdle     \* whether Srv has TASKf_IDLE set at the start

Tasks == {Srv} \cup Filters
Threads == Callers \cup Senders \cup Filters
Texts == {"TEXT", "READ"}

ASSUME InputFilterAssumption ==
  /\ Srv \notin Threads /\ Callers \cap Senders = {}
  /\ Filters \cap (Callers \cup Senders) = {}
  /\ None \notin Tasks \cup Threads \cup Jobs
  /\ Highest \subseteq Jobs /\ Msgs \subseteq Jobs /\ Reads \subseteq Jobs /\ Exits \subseteq Jobs
  /\ Early \subseteq Threads /\ SrvIdle \in BOOLEAN

VARIABLES
  next, last,  \* next_input_filter_task, last_input_filter_task
  filt,        \* the tasks with TASKf_FILTER_INPUT set
  idle,        \* the tasks with TASKf_IDLE set
  queue,       \* srv_ctrl.next_waiting; empty before TaskInit has made it
  torn,        \* the filters of whose list the stores of two threads have met
  valid,       \* the tasks for which TaskValidate holds, if they are spawned
  locked,      \* the tasks with JOBCf_LOCKED set
  mutex,       \* the owner of lilith_task_mutex of each task
  enqWait,     \* the filters blocked on their lilith_enqueued_cond
  idleWait,    \* the threads blocked on lilith_idle_cond of each task
  code,        \* what each job is; "NEW" before it is posted
  pc,
  task,        \* the local task (TaskText), task1 (TaskWait), srv (TaskMsg)
  tmpc,        \* the job a thread has in hand
  old,         \* the filters whose local old_filter is TRUE
  posted, ran  \* history: the texts of each task in the order of their QueIns, of their ExePrint

ring == <<next, last, filt>>
sync == <<locked, mutex, enqWait, idleWait>>
hist == <<posted, ran>>
vars == <<ring, idle, queue, torn, valid, sync, code, pc, task, tmpc, old, hist>>

PCs == {"ready", "tt_lock", "tt_last", "tw_list", "tw_idle", "tw_wait", "tw_blocked",
        "tt_spawn", "tt_swait", "tt_sblocked", "link1", "link2", "link3", "link4",
        "tt_unlock", "tm_test", "tm_next", "p_lock", "p_sig", "p_ins",
        "p_link", "faulted",
        "none", "start", "f_old", "f_eq", "f_wait", "f_blocked", "f_jobs", "f_signal",
        "f_head", "f_exec", "k_jobs", "k_scan", "k_idle", "k_wait", "k_stuck",
        "un_lock", "un_next", "un_last", "un_flag", "ended"}

Init ==
  /\ next = [t \in Tasks |-> t] /\ last = next /\ filt = {}
  /\ idle = IF SrvIdle THEN {Srv} ELSE {}
  /\ queue = [t \in Tasks |-> <<>>] /\ torn = {} /\ valid = Tasks
  /\ locked = {} /\ mutex = [t \in Tasks |-> None]
  /\ enqWait = {} /\ idleWait = [t \in Tasks |-> {}]
  /\ code = [j \in Jobs |-> "NEW"]
  /\ pc = [t \in Threads |-> IF t \in Filters THEN "none" ELSE "ready"]
  /\ task = [t \in Threads |-> Srv]
  /\ tmpc = [t \in Threads |-> None]
  /\ old = {}
  /\ posted = [t \in Tasks |-> <<>>] /\ ran = [f \in Filters |-> <<>>]

Goto(t, from, to) == pc[t] = from /\ pc' = [pc EXCEPT ![t] = to]

Alloc(t, j, c) ==
  /\ code[j] = "NEW"
  /\ code' = [code EXCEPT ![j] = c]
  /\ tmpc' = [tmpc EXCEPT ![t] = j]

\* The jobs that are being linked into the list of task s.
Linking(s) == {tmpc[u] : u \in {v \in Threads : pc[v] = "p_link" /\ task[v] = s}}

\* What the head of the list may be: the first store of QueIns links the job to it.
Heads(s) == IF queue[s] # <<>> THEN {Head(queue[s])} ELSE Linking(s)

\* QueRem of the head.  A QueIns in progress has next to it the job that is removed, if
\* that is the only one or itself the one being linked.
QueRem(s) ==
  /\ queue' = [queue EXCEPT ![s] = IF @ = <<>> THEN @ ELSE Tail(@)]
  /\ torn' = IF Linking(s) # {} /\ Len(queue[s]) <= 1 THEN torn \cup {s} ELSE torn

-----------------------------------------------------------------------------
(* TaskText.                                                               *)

TaskText(t) ==
  /\ t \in Callers
  /\ Goto(t, "ready", "tt_lock")
  /\ \E j \in Jobs \ Msgs : Alloc(t, j, IF j \in Reads THEN "READ" ELSE "TEXT")
  /\ task' = [task EXCEPT ![t] = Srv]
  /\ UNCHANGED <<ring, idle, queue, torn, valid, sync, old, hist>>

TaskTextLock(t) ==
  /\ mutex[Srv] = None
  /\ Goto(t, "tt_lock", "tt_last")
  /\ mutex' = [mutex EXCEPT ![Srv] = t]
  /\ UNCHANGED <<ring, idle, queue, torn, valid, locked, enqWait, idleWait, code, task, tmpc, old, hist>>

\* With a filter in the ring, a text of the highest priority waits for it to be idle
\* and any other is posted to the first filter of the ring.
TaskTextLast(t) ==
  /\ pc[t] = "tt_last"
  /\ LET last1 == last[Srv]
         post == tmpc[t] \notin Highest /\ last1 # Srv
     IN  /\ pc' = [pc EXCEPT ![t] = IF post THEN "tt_unlock"
                                    ELSE IF last1 # Srv THEN "tw_list" ELSE "tt_spawn"]
         /\ task' = [task EXCEPT ![t] = IF post THEN next[Srv] ELSE last1]
  /\ UNCHANGED <<ring, idle, queue, torn, valid, sync, code, tmpc, old, hist>>

\* TaskWait(srv), with the mutex of Srv locked.  Whether a list looks empty that is torn, or
\* whose first job is being linked, is left open.
TaskWaitList(t) ==
  /\ LET l == last[Srv]
     IN  \/ (queue[l] = <<>> \/ l \in torn) /\ Goto(t, "tw_list", "tw_idle")
         \/ (Heads(l) # {} \/ l \in torn) /\ Goto(t, "tw_list", "tw_wait")
  /\ task' = [task EXCEPT ![t] = last[Srv]]
  /\ UNCHANGED <<ring, idle, queue, torn, valid, sync, code, tmpc, old, hist>>

TaskWaitIdle(t) ==
  /\ Goto(t, "tw_idle", IF task[t] \in idle THEN "tt_spawn" ELSE "tw_wait")
  /\ UNCHANGED <<ring, idle, queue, torn, valid, sync, code, task, tmpc, old, hist>>

TaskWaitBlock(t) ==
  /\ mutex[task[t]] = None
  /\ Goto(t, "tw_wait", "tw_blocked")
  /\ idleWait' = [idleWait EXCEPT ![task[t]] = @ \cup {t}]
  /\ UNCHANGED <<ring, idle, queue, torn, valid, locked, mutex, enqWait, code, task, tmpc, old, hist>>

TaskWaitWake(t) ==
  /\ mutex[task[t]] = None /\ t \notin idleWait[task[t]]
  /\ Goto(t, "tw_blocked", "tw_list")
  /\ UNCHANGED <<ring, idle, queue, torn, valid, sync, code, task, tmpc, old, hist>>

\* pthread_create; the thread runs.  Which structure it gets makes no difference.
Spawn(t) ==
  /\ pc[t] = "tt_spawn"
  /\ \E f \in Filters :
       /\ pc[f] = "none" /\ f = CHOOSE g \in Filters : pc[g] = "none"
       /\ pc' = [pc EXCEPT ![t] = "tt_swait", ![f] = "start"]
       /\ task' = [task EXCEPT ![t] = f]
  /\ UNCHANGED <<ring, idle, queue, torn, valid, sync, code, tmpc, old, hist>>

\* pthread_cond_wait on lilith_idle_cond of the new task, whether or not it has started.
SpawnBlock(t) ==
  /\ mutex[task[t]] = None
  /\ Goto(t, "tt_swait", "tt_sblocked")
  /\ idleWait' = [idleWait EXCEPT ![task[t]] = @ \cup {t}]
  /\ UNCHANGED <<ring, idle, queue, torn, valid, locked, mutex, enqWait, code, task, tmpc, old, hist>>

SpawnWake(t) ==
  /\ mutex[task[t]] = None /\ t \notin idleWait[task[t]]
  /\ Goto(t, "tt_sblocked", "link1")
  /\ UNCHANGED <<ring, idle, queue, torn, valid, sync, code, task, tmpc, old, hist>>

\* pthread_cond_wait may return without a broadcast.
SpawnSpurious(t) ==
  /\ pc[t] = "tt_sblocked" /\ t \in idleWait[task[t]]
  /\ idleWait' = [idleWait EXCEPT ![task[t]] = @ \ {t}]
  /\ UNCHANGED <<ring, idle, queue, torn, valid, locked, mutex, enqWait, code, pc, task, tmpc, old, hist>>

\* The four assignments that link the filter after Srv.
LinkNext(t) ==
  /\ Goto(t, "link1", "link2")
  /\ next' = [next EXCEPT ![task[t]] = next[Srv]]
  /\ UNCHANGED <<last, filt, idle, queue, torn, valid, sync, code, task, tmpc, old, hist>>

LinkLast(t) ==
  /\ Goto(t, "link2", "link3")
  /\ last' = [last EXCEPT ![task[t]] = Srv]
  /\ UNCHANGED <<next, filt, idle, queue, torn, valid, sync, code, task, tmpc, old, hist>>

LinkSrv(t) ==
  /\ Goto(t, "link3", "link4")
  /\ next' = [next EXCEPT ![Srv] = task[t]]
  /\ UNCHANGED <<last, filt, idle, queue, torn, valid, sync, code, task, tmpc, old, hist>>

LinkBack(t) ==
  /\ Goto(t, "link4", "tt_unlock")
  /\ last' = [last EXCEPT ![next[task[t]]] = task[t]]
  /\ UNCHANGED <<next, filt, idle, queue, torn, valid, sync, code, task, tmpc, old, hist>>

TaskTextUnlock(t) ==
  /\ Goto(t, "tt_unlock", "p_lock")
  /\ mutex' = [mutex EXCEPT ![Srv] = None]
  /\ UNCHANGED <<ring, idle, queue, torn, valid, locked, enqWait, idleWait, code, task, tmpc, old, hist>>

-----------------------------------------------------------------------------
(* TaskMsg.                                                                *)

TaskMsg(t) ==
  /\ t \in Senders
  /\ Goto(t, "ready", "tm_test")
  /\ \E j \in Msgs : Alloc(t, j, "MSG")
  /\ task' = [task EXCEPT ![t] = Srv]
  /\ UNCHANGED <<ring, idle, queue, torn, valid, sync, old, hist>>

TaskMsgTest(t) ==
  /\ mutex[task[t]] = None
  /\ IF task[t] \in filt
     THEN Goto(t, "tm_test", "tm_next") /\ mutex' = [mutex EXCEPT ![task[t]] = t]
     ELSE Goto(t, "tm_test", "p_lock") /\ UNCHANGED mutex
  /\ UNCHANGED <<ring, idle, queue, torn, valid, locked, enqWait, idleWait, code, task, tmpc, old, hist>>

TaskMsgNext(t) ==
  /\ Goto(t, "tm_next", "tm_test")
  /\ mutex' = [mutex EXCEPT ![task[t]] = None]
  /\ task' = [task EXCEPT ![t] = next[task[t]]]
  /\ UNCHANGED <<ring, idle, queue, torn, valid, locked, enqWait, idleWait, code, tmpc, old, hist>>

(* What TaskText and TaskMsg end with.                                     *)

PostLock(t) ==
  /\ task[t] \notin locked /\ task[t] \in valid
  /\ Goto(t, "p_lock", "p_sig")
  /\ locked' = locked \cup {task[t]}
  /\ idle' = idle \ {task[t]}
  /\ UNCHANGED <<ring, queue, torn, valid, mutex, enqWait, idleWait, code, task, tmpc, old, hist>>

\* The task has ended: the job is freed and the bit stays set.
PostInvalid(t) ==
  /\ task[t] \notin locked /\ task[t] \notin valid
  /\ Goto(t, "p_lock", "ready")
  /\ locked' = locked \cup {task[t]}
  /\ UNCHANGED <<ring, idle, queue, torn, valid, mutex, enqWait, idleWait, code, task, tmpc, old, hist>>

PostSignal(t) ==
  /\ mutex[task[t]] = None
  /\ Goto(t, "p_sig", "p_ins")
  /\ enqWait' = enqWait \ {task[t]}
  /\ UNCHANGED <<ring, idle, queue, torn, valid, locked, mutex, idleWait, code, task, tmpc, old, hist>>

\* From here on the stores of QueIns are made, until they all are.  The bit does not exclude
\* another QueIns if TaskInit has cleared it (TaskStart below).
PostQueIns(t) ==
  /\ task[t] \in Filters => pc[task[t]] # "start"
  /\ Goto(t, "p_ins", "p_link")
  /\ torn' = IF Linking(task[t]) # {} THEN torn \cup {task[t]} ELSE torn
  /\ UNCHANGED <<ring, idle, queue, valid, sync, code, task, tmpc, old, hist>>

\* Before TaskInit there is no list: last_waiting is NULL.
PostFault(t) ==
  /\ task[t] \in Filters /\ pc[task[t]] = "start"
  /\ Goto(t, "p_ins", "faulted")
  /\ UNCHANGED <<ring, idle, queue, torn, valid, sync, code, task, tmpc, old, hist>>

PostInserted(t) ==
  /\ Goto(t, "p_link", "ready")
  /\ queue' = [queue EXCEPT ![task[t]] = Append(@, tmpc[t])]
  /\ locked' = locked \ {task[t]}
  /\ posted' = IF code[tmpc[t]] \in Texts
               THEN [posted EXCEPT ![task[t]] = Append(@, tmpc[t])] ELSE posted
  /\ UNCHANGED <<ring, idle, torn, valid, mutex, enqWait, idleWait, code, task, tmpc, old, ran>>

-----------------------------------------------------------------------------
(* The thread of a filter: templeos_task_start, InputFilterTask.           *)

\* TaskInit of Kernel/KTask.HC makes the ring of the new task a ring of one and its list and
\* bit those of a new CJobCtrl, whatever a Spawn that returned before has done to them.  Then
\* comes the broadcast; what others do between the two they may as well do after it.
TaskStart(t) ==
  /\ mutex[t] = None
  /\ Goto(t, "start", "f_old")
  /\ next' = [next EXCEPT ![t] = t]
  /\ last' = [last EXCEPT ![t] = t]
  /\ locked' = locked \ {t}
  /\ idleWait' = [idleWait EXCEPT ![t] = {}]
  /\ UNCHANGED <<filt, idle, queue, torn, valid, mutex, enqWait, code, task, tmpc, old, hist>>

FilterOld(t) ==
  /\ Goto(t, "f_old", "f_eq")
  /\ old' = IF last[t] \in filt THEN old \cup {t} ELSE old
  /\ filt' = filt \cup {last[t]}
  /\ UNCHANGED <<next, last, idle, queue, torn, valid, sync, code, task, tmpc, hist>>

FilterEqu(t) ==
  /\ Goto(t, "f_eq", "f_wait")
  /\ filt' = IF t \in old THEN filt \cup {t} ELSE filt \ {t}
  /\ UNCHANGED <<next, last, idle, queue, torn, valid, sync, code, task, tmpc, old, hist>>

FilterWait(t) ==
  /\ mutex[t] = None
  /\ Goto(t, "f_wait", "f_blocked")
  /\ enqWait' = enqWait \cup {t}
  /\ UNCHANGED <<ring, idle, queue, torn, valid, locked, mutex, idleWait, code, task, tmpc, old, hist>>

FilterWake(t) ==
  /\ mutex[t] = None /\ t \notin enqWait
  /\ Goto(t, "f_blocked", "f_jobs")
  /\ UNCHANGED <<ring, idle, queue, torn, valid, sync, code, task, tmpc, old, hist>>

\* The wait is not in a loop: a wake-up without a signal ends it too.
FilterSpurious(t) ==
  /\ pc[t] = "f_blocked" /\ t \in enqWait
  /\ enqWait' = enqWait \ {t}
  /\ UNCHANGED <<ring, idle, queue, torn, valid, locked, mutex, idleWait, code, pc, task, tmpc, old, hist>>

\* Mutant: JobsHndlr looks at the list without taking JOBCf_LOCKED.
JobsHndlrNoLock(t) ==
  /\ Goto(t, "f_jobs", "f_signal")
  /\ UNCHANGED <<ring, idle, queue, torn, valid, sync, code, task, tmpc, old, hist>>

\* LBts, nothing to run, LBtr.
JobsHndlr(t) ==
  /\ t \notin locked
  /\ Goto(t, "f_jobs", "f_signal")
  /\ UNCHANGED <<ring, idle, queue, torn, valid, sync, code, task, tmpc, old, hist>>

JobsHndlrSignal(t) ==
  /\ mutex[t] = None
  /\ Goto(t, "f_signal", "f_head")
  /\ idleWait' = [idleWait EXCEPT ![t] = {}]
  /\ UNCHANGED <<ring, idle, queue, torn, valid, locked, mutex, enqWait, code, task, tmpc, old, hist>>

\* Mutant: the newest text is taken.
FilterTakeLast(t) ==
  /\ queue[t] # <<>> /\ code[Head(queue[t])] \in Texts
  /\ Goto(t, "f_head", "f_exec")
  /\ tmpc' = [tmpc EXCEPT ![t] = queue[t][Len(queue[t])]]
  /\ queue' = [queue EXCEPT ![t] = SubSeq(@, 1, Len(@) - 1)]
  /\ UNCHANGED <<ring, idle, torn, valid, sync, code, task, old, hist>>

\* The head is read and removed without a lock.
FilterTake(t) ==
  /\ Goto(t, "f_head", "f_exec")
  /\ \E j \in Heads(t) : code[j] \in Texts /\ tmpc' = [tmpc EXCEPT ![t] = j]
  /\ QueRem(t)
  /\ UNCHANGED <<ring, idle, valid, sync, code, task, old, hist>>

FilterDone(t) ==
  /\ queue[t] = <<>> \/ \E j \in Heads(t) : code[j] \notin Texts
  /\ Goto(t, "f_head", "un_lock")
  /\ UNCHANGED <<ring, idle, queue, torn, valid, sync, code, task, tmpc, old, hist>>

\* ExePrint.
FilterExec(t) ==
  /\ Goto(t, "f_exec", IF code[tmpc[t]] = "READ" THEN "k_jobs" ELSE "f_jobs")
  /\ ran' = [ran EXCEPT ![t] = Append(@, tmpc[t])]
  /\ UNCHANGED <<ring, idle, queue, torn, valid, sync, code, task, tmpc, old, posted>>

\* Exit in the text: TaskEnd of Kernel/KTask.HC deletes the jobs of the task and makes it
\* invalid under JOBCf_LOCKED.  The rest of InputFilterTask is not run.
FilterExit(t) ==
  /\ tmpc[t] \in Exits /\ t \notin locked
  /\ Goto(t, "f_exec", "ended")
  /\ valid' = valid \ {t}
  /\ queue' = [queue EXCEPT ![t] = <<>>]
  /\ ran' = [ran EXCEPT ![t] = Append(@, tmpc[t])]
  /\ UNCHANGED <<ring, idle, torn, sync, code, task, tmpc, old, posted>>

\* GetKey in the text (MsgLoop has the details): JobsHndlr,
GetKeyJobs(t) ==
  /\ t \notin locked /\ mutex[t] = None
  /\ Goto(t, "k_jobs", "k_scan")
  /\ idleWait' = [idleWait EXCEPT ![t] = {}]
  /\ UNCHANGED <<ring, idle, queue, torn, valid, locked, mutex, enqWait, code, task, tmpc, old, hist>>

\* ScanMsg takes a message under the mutex,
GetKeyTake(t) ==
  /\ mutex[t] = None
  /\ Goto(t, "k_scan", "f_jobs")
  /\ \E j \in Heads(t) : code[j] = "MSG"
  /\ QueRem(t)
  /\ UNCHANGED <<ring, idle, valid, sync, code, task, tmpc, old, hist>>

\* locks itself out with a text at the head,
GetKeyOther(t) ==
  /\ mutex[t] = None
  /\ Goto(t, "k_scan", "k_stuck")
  /\ \E j \in Heads(t) : code[j] \in Texts
  /\ mutex' = [mutex EXCEPT ![t] = t]
  /\ UNCHANGED <<ring, idle, queue, torn, valid, locked, enqWait, idleWait, code, task, tmpc, old, hist>>

\* or finds nothing; GetKey sets the flag and waits,
GetKeyNone(t) ==
  /\ mutex[t] = None
  /\ Goto(t, "k_scan", "k_idle")
  /\ queue[t] = <<>>
  /\ UNCHANGED <<ring, idle, queue, torn, valid, sync, code, task, tmpc, old, hist>>

GetKeyIdle(t) ==
  /\ Goto(t, "k_idle", "k_wait")
  /\ idle' = idle \cup {t}
  /\ UNCHANGED <<ring, queue, torn, valid, sync, code, task, tmpc, old, hist>>

\* until it is woken, by a signal or without one.
GetKeyWake(t) ==
  /\ Goto(t, "k_wait", "k_jobs")
  /\ idle' = idle \ {t}
  /\ UNCHANGED <<ring, queue, torn, valid, sync, code, task, tmpc, old, hist>>

UnlinkLock(t) ==
  /\ mutex[t] = None
  /\ Goto(t, "un_lock", "un_next")
  /\ mutex' = [mutex EXCEPT ![t] = t]
  /\ UNCHANGED <<ring, idle, queue, torn, valid, locked, enqWait, idleWait, code, task, tmpc, old, hist>>

UnlinkNext(t) ==
  /\ Goto(t, "un_next", "un_last")
  /\ last' = [last EXCEPT ![next[t]] = last[t]]
  /\ UNCHANGED <<next, filt, idle, queue, torn, valid, sync, code, task, tmpc, old, hist>>

UnlinkLast(t) ==
  /\ Goto(t, "un_last", "un_flag")
  /\ next' = [next EXCEPT ![last[t]] = next[t]]
  /\ UNCHANGED <<last, filt, idle, queue, torn, valid, sync, code, task, tmpc, old, hist>>

UnlinkFlag(t) ==
  /\ Goto(t, "un_flag", "ended")
  /\ filt' = IF t \in old THEN filt ELSE filt \ {last[t]}
  /\ mutex' = [mutex EXCEPT ![t] = None]
  /\ UNCHANGED <<next, last, idle, queue, torn, valid, locked, enqWait, idleWait, code, task, tmpc, old, hist>>

-----------------------------------------------------------------------------
\* What nothing forces to happen.
Call(t) ==
  \/ TaskText(t) \/ TaskMsg(t)
  \/ t \in Early /\ SpawnSpurious(t)
  \/ t \in Filters \cap Early /\ FilterSpurious(t)
  \/ t \in Filters /\ GetKeyWake(t)

Post(t) ==
  PostLock(t) \/ PostInvalid(t) \/ PostSignal(t) \/ PostQueIns(t) \/ PostFault(t) \/ PostInserted(t)

Text(t) ==
  \/ TaskTextLock(t) \/ TaskTextLast(t) \/ TaskWaitList(t) \/ TaskWaitIdle(t)
  \/ TaskWaitBlock(t) \/ TaskWaitWake(t) \/ Spawn(t) \/ SpawnBlock(t) \/ SpawnWake(t)
  \/ LinkNext(t) \/ LinkLast(t) \/ LinkSrv(t) \/ LinkBack(t) \/ TaskTextUnlock(t)

Msg(t) == TaskMsgTest(t) \/ TaskMsgNext(t)

\* What a filter does with its list.
List(t) ==
  /\ t \notin torn
  /\ \/ JobsHndlr(t) \/ FilterTake(t) \/ FilterDone(t) \/ GetKeyJobs(t)
     \/ GetKeyTake(t) \/ GetKeyOther(t) \/ GetKeyNone(t)

Filter(t) ==
  /\ t \in Filters
  /\ \/ TaskStart(t) \/ FilterOld(t) \/ FilterEqu(t) \/ FilterWait(t) \/ FilterWake(t)
     \/ JobsHndlrSignal(t) \/ List(t) \/ FilterExec(t) \/ FilterExit(t)
     \/ GetKeyIdle(t) \/ UnlinkLock(t) \/ UnlinkNext(t) \/ UnlinkLast(t) \/ UnlinkFlag(t)

\* What a thread does as long as it runs: at any time one of these at most is enabled.
Step(t) == Text(t) \/ Msg(t) \/ Post(t) \/ Filter(t)

Next == \E t \in Threads : Call(t) \/ Step(t)

Spec == Init /\ [][Next]_vars

FairSpec == Spec /\ \A t \in Threads : WF_vars(Step(t))

-----------------------------------------------------------------------------
(* Properties.                                                             *)

TypeOK ==
  /\ next \in [Tasks -> Tasks] /\ last \in [Tasks -> Tasks]
  /\ filt \subseteq Tasks /\ idle \subseteq Tasks /\ locked \subseteq Tasks
  /\ queue \in [Tasks -> Seq(Jobs)] /\ torn \subseteq Tasks /\ valid \subseteq Tasks
  /\ mutex \in [Tasks -> Threads \cup {None}]
  /\ enqWait \subseteq Filters /\ idleWait \in [Tasks -> SUBSET Threads]
  /\ code \in [Jobs -> Texts \cup {"NEW", "MSG"}]
  /\ pc \in [Threads -> PCs]
  /\ task \in [Threads -> Tasks] /\ tmpc \in [Threads -> Jobs \cup {None}]
  /\ old \subseteq Filters
  /\ posted \in [Tasks -> Seq(Jobs)] /\ ran \in [Filters -> Seq(Jobs)]
  /\ \A f \in Filters : pc[f] = "f_exec" => tmpc[f] \in Jobs

\* The texts of a list, and the one a filter has taken from its list and not executed yet.
TextsOf(s) == Picked(code, Texts, s)
InHand(f) == IF pc[f] = "f_exec" THEN TextsOf(<<tmpc[f]>>) ELSE <<>>

\* A filter whose list is not torn executes every text once, in the order in which TaskText
\* posted them to it, however many tasks post and whatever messages are between the texts:
\* the loop of InputFilterTask stops at a message and GetKey takes only messages, so what a
\* filter leaves in its list when it ends is the texts after those it has executed.  From
\* one filter to another there is no order (README, Findings).
RunsInOrder ==
  \A f \in (Filters \ torn) \cap valid : posted[f] = ran[f] \o InHand(f) \o TextsOf(queue[f])

\* t holds JOBCf_LOCKED of task s, and it alone.  (Not so if it took the bit before TaskInit,
\* which clears it.)
Holds(t, s) ==
  s \in locked /\ {u \in Threads : pc[u] \in {"p_sig", "p_ins", "p_link"} /\ task[u] = s} = {t}

\* A text posted to a filter that waits in LilithWaitForEnqueuedTask with nothing in its
\* list is executed, though the filter is signalled before the text is in the list, or wakes
\* without a signal: it finds JOBCf_LOCKED set.  No sender may go round the ring for ever:
\* it would take the mutex of the filter again and again.
WaitingFilterRuns ==
  (\A t \in Senders : []<>(pc[t] = "ready")) =>
    \A t \in Callers, j \in Jobs \ Msgs :
      (/\ pc[t] = "p_sig" /\ tmpc[t] = j /\ Holds(t, task[t])
       /\ task[t] \in enqWait /\ queue[task[t]] = <<>>)
        ~> \E f \in Filters : \E i \in 1..Len(ran[f]) : ran[f][i] = j

\* "Post message to servant task" (TaskMsg): if every TaskText returns, the message gets
\* past the ring of filters.  Not so: a filter that ends while TaskText links the next one
\* can leave srv flagged and alone in its ring (README, Findings).
MsgLeavesRing ==
  (\A t \in Callers : []<>(pc[t] = "ready"))
    => \A t \in Senders : pc[t] = "tm_test" ~> pc[t] = "p_lock"
=============================================================================
