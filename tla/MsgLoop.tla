------------------------------- MODULE MsgLoop -------------------------------
(***************************************************************************)
(* A task that reads keys (GetKey, ScanKey, ScanMsg, JobsHndlr), the tasks *)
(* that send it messages (TaskMsg) or jobs (JobQue), with the three things  *)
(* they synchronise by: the spin bit JOBCf_LOCKED, the task's mutex and    *)
(* the condition variable of new messages.  (Those that wait for the task  *)
(* to be idle are in JobCtl.)  A critical section of the mutex in which    *)
(* nothing else can be noticed (lock, broadcast, unlock) is one step,      *)
(* enabled while the mutex is free.                                        *)
(*                                                                         *)
(* The task has no pop-up and no input filter of its own; it may be the    *)
(* input filter of another task, whose text (ExePrint) reads keys, and     *)
(* then gets the TaskText of that task.                                    *)
(*                                                                         *)
(* QueIns runs under the bit and the QueRem of ScanMsg under the mutex, so *)
(* that they may overlap: QueIns takes two steps here, between which a     *)
(* QueRem may fall.  Their stores go to different pointers as long as      *)
(* another job lies between the one removed and the one inserted; if none  *)
(* does the list is torn.  JobQueue has what is in memory then; here the   *)
(* behaviour ends.                                                         *)
(***************************************************************************)
EXTENDS Naturals, Sequences, SequencesExt, Picking

CONSTANTS
  Server,      \* the task that reads keys
  Posters,     \* the tasks that send
  Jobs,        \* the CJob structures, each sent once (bounds the model)
  None,
  Sends        \* what is sent: "KEY", "KEYPRESS" (a down and an up), "MOVE", "TEXT", "EXE"

Threads == {Server} \cup Posters

ASSUME MsgLoopAssumption ==
  /\ Server \notin Posters
  /\ None \notin Threads \cup Jobs
  /\ Sends \subseteq {"KEY", "KEYPRESS", "MOVE", "TEXT", "EXE"}

VARIABLES
  queue,     \* srv_ctrl.next_waiting
  locked,    \* JOBCf_LOCKED
  mutex,     \* the owner of lilith_task_mutex
  idle,      \* TASKf_IDLE
  enqWait,   \* the threads blocked on lilith_enqueued_cond
  torn,      \* a QueRem has overlapped a QueIns next to it
  code,      \* job_code and msg_code of the jobs; "NEW" before they are sent
  pc,
  tmpc,      \* the job a thread has in hand
  sent, got  \* history: the jobs in the order of their QueIns; the keys GetKey returned

sync == <<locked, mutex, idle, enqWait>>
vars == <<queue, torn, sync, code, pc, tmpc, sent, got>>

Codes == {"NEW", "KEY", "UP", "MOVE", "TEXT", "EXE"}

\* The jobs whose job_code is JOBT_MSG.
IsMsg(j) == code[j] \in {"KEY", "UP", "MOVE"}

PCs == {"user", "s_sync", "j_lock", "j_head", "j_run", "j_sig", "s_lock", "s_read", "s_rem",
        "s_msg", "g_idle", "g_wait", "g_blocked", "g_woken", "ended",
        "ready", "p_sync", "p_lock", "p_flags", "p_sig", "p_ins", "p_link", "p_unlock",
        "q_lock", "q_ins", "q_link"}

Init ==
  /\ queue = <<>> /\ torn = FALSE /\ sent = <<>> /\ got = <<>>
  /\ locked = FALSE /\ mutex = None /\ idle = FALSE
  /\ enqWait = {}
  /\ code = [j \in Jobs |-> "NEW"]
  /\ pc = [t \in Threads |-> IF t = Server THEN "user" ELSE "ready"]
  /\ tmpc = [t \in Threads |-> None]

Goto(t, from, to) == pc[t] = from /\ pc' = [pc EXCEPT ![t] = to]

LBts(t, from, to) == Goto(t, from, to) /\ ~locked /\ locked' = TRUE

\* A critical section of the mutex that is one step.
Sync(t, from, to) == Goto(t, from, to) /\ mutex = None

-----------------------------------------------------------------------------
(* TaskMsg.                                                                *)

\* TaskValidate(srv).
Valid == pc[Server] # "ended"

\* CAlloc: some structure not sent yet; which one makes no difference.
Alloc(t, j, c) ==
  /\ code[j] = "NEW" /\ j = CHOOSE k \in Jobs : code[k] = "NEW"
  /\ code' = [code EXCEPT ![j] = c]
  /\ tmpc' = [tmpc EXCEPT ![t] = j]

TaskMsg(t) ==
  /\ t \in Posters /\ Valid
  /\ Goto(t, "ready", "p_sync")
  /\ \E j \in Jobs : \/ "KEY" \in Sends /\ Alloc(t, j, "KEY")
                     \/ "MOVE" \in Sends /\ Alloc(t, j, "MOVE")
  /\ UNCHANGED <<queue, torn, sync, sent, got>>

\* To a task whose input filter Server is.  The mutex it takes first is that task's; the
\* rest is what TaskMsg does, line by line.
TaskText(t) ==
  /\ t \in Posters /\ Valid /\ "TEXT" \in Sends
  /\ Goto(t, "ready", "p_lock")
  /\ \E j \in Jobs : Alloc(t, j, "TEXT")
  /\ UNCHANGED <<queue, torn, sync, sent, got>>

\* LilithLockTask, TASKf_FILTER_INPUT is clear, LilithUnlockTask.
TaskMsgSync(t) ==
  /\ Sync(t, "p_sync", "p_lock")
  /\ UNCHANGED <<queue, torn, sync, code, tmpc, sent, got>>

TaskMsgLock(t) ==
  /\ LBts(t, "p_lock", "p_flags")
  /\ UNCHANGED <<queue, torn, mutex, idle, enqWait, code, tmpc, sent, got>>

\* The task has ended: the job is freed and the bit stays set.  ("Down-Up": the second
\* call returns at once.)
TaskMsgInvalid(t) ==
  /\ ~Valid
  /\ Goto(t, "p_flags", "ready")
  /\ UNCHANGED <<queue, torn, sync, code, tmpc, sent, got>>

TaskMsgFlags(t) ==
  /\ Valid
  /\ Goto(t, "p_flags", "p_sig")
  /\ idle' = FALSE
  /\ UNCHANGED <<queue, torn, locked, mutex, enqWait, code, tmpc, sent, got>>

\* Mutant: no TaskRstAwaitingMsg.
TaskMsgNoSignal(t) ==
  /\ Sync(t, "p_sig", "p_ins")
  /\ UNCHANGED <<queue, torn, sync, code, tmpc, sent, got>>

\* TaskRstAwaitingMsg signals before the message is in the list.
TaskMsgSignal(t) ==
  /\ Sync(t, "p_sig", "p_ins")
  /\ enqWait' = {}
  /\ UNCHANGED <<queue, torn, locked, mutex, idle, code, tmpc, sent, got>>

\* From here on the stores of QueIns are made, until they all are.
TaskMsgQueIns(t) ==
  /\ Goto(t, "p_ins", "p_link")
  /\ UNCHANGED <<queue, torn, sync, code, tmpc, sent, got>>

TaskMsgInserted(t) ==
  /\ Goto(t, "p_link", "p_unlock")
  /\ queue' = Append(queue, tmpc[t])
  /\ sent' = Append(sent, tmpc[t])
  /\ UNCHANGED <<torn, sync, code, tmpc, got>>

\* "Down-Up": a negative code sends the code and, by a call of its own, the next.
TaskMsgUnlock(t) ==
  /\ locked' = FALSE
  /\ \/ Goto(t, "p_unlock", "ready") /\ UNCHANGED <<code, tmpc>>
     \/ /\ Goto(t, "p_unlock", "p_sync")
        /\ "KEYPRESS" \in Sends /\ code[tmpc[t]] = "KEY"
        /\ \E j \in Jobs : Alloc(t, j, "UP")
  /\ UNCHANGED <<queue, torn, mutex, idle, enqWait, sent, got>>

\* JobQue of Kernel/MultiProc.HC: no mutex, no flag, no signal.
JobQue(t) ==
  /\ t \in Posters /\ "EXE" \in Sends
  /\ Goto(t, "ready", "q_lock")
  /\ \E j \in Jobs : Alloc(t, j, "EXE")
  /\ UNCHANGED <<queue, torn, sync, sent, got>>

JobQueLock(t) ==
  /\ LBts(t, "q_lock", "q_ins")
  /\ UNCHANGED <<queue, torn, mutex, idle, enqWait, code, tmpc, sent, got>>

JobQueQueIns(t) ==
  /\ Goto(t, "q_ins", "q_link")
  /\ UNCHANGED <<queue, torn, sync, code, tmpc, sent, got>>

JobQueInserted(t) ==
  /\ Goto(t, "q_link", "ready")
  /\ queue' = Append(queue, tmpc[t])
  /\ sent' = Append(sent, tmpc[t])
  /\ locked' = FALSE
  /\ UNCHANGED <<torn, mutex, idle, enqWait, code, tmpc, got>>

-----------------------------------------------------------------------------
(* GetKey: ScanKey is ScanMsg with the mask of MSG_KEY_DOWN.               *)

GetKey(t) ==
  /\ t = Server
  /\ Goto(t, "user", "s_sync")
  /\ UNCHANGED <<queue, torn, sync, code, tmpc, sent, got>>

ScanMsg(t) ==
  /\ Sync(t, "s_sync", "j_lock")
  /\ UNCHANGED <<queue, torn, sync, code, tmpc, sent, got>>

JobsHndlr(t) ==
  /\ LBts(t, "j_lock", "j_head")
  /\ UNCHANGED <<queue, torn, mutex, idle, enqWait, code, tmpc, sent, got>>

\* JobRunOne takes the jobs of its kinds from the head of the list.
JobsHndlrHead(t) ==
  /\ pc[t] = "j_head"
  /\ locked' = FALSE
  /\ IF queue # <<>> /\ code[Head(queue)] = "EXE"
     THEN pc' = [pc EXCEPT ![t] = "j_run"] /\ queue' = Tail(queue)
     ELSE pc' = [pc EXCEPT ![t] = "j_sig"] /\ UNCHANGED queue
  /\ UNCHANGED <<torn, mutex, idle, enqWait, code, tmpc, sent, got>>

JobRun(t) ==
  /\ Goto(t, "j_run", "j_lock")
  /\ idle' = FALSE
  /\ UNCHANGED <<queue, torn, locked, mutex, enqWait, code, tmpc, sent, got>>

\* LilithSignalIdleTask.  lilith_task_mutex is not recursive.
JobsHndlrSignal(t) ==
  /\ Sync(t, "j_sig", "s_lock")
  /\ UNCHANGED <<queue, torn, sync, code, tmpc, sent, got>>

ScanMsgLock(t) ==
  /\ Sync(t, "s_lock", "s_read")
  /\ mutex' = t
  /\ UNCHANGED <<queue, torn, locked, idle, enqWait, code, tmpc, sent, got>>

\* The jobs that are being linked: one at most, under the bit.
Linking == {tmpc[u] : u \in {v \in Threads : pc[v] \in {"p_link", "q_link"}}}

\* What the head of the list may be: the first store of QueIns links the job to it.
Heads == IF queue # <<>> THEN {Head(queue)} ELSE Linking

ScanMsgNone(t) ==
  /\ queue = <<>>
  /\ Goto(t, "s_read", "g_idle")
  /\ mutex' = None
  /\ UNCHANGED <<queue, torn, locked, idle, enqWait, code, tmpc, sent, got>>

ScanMsgHead(t) ==
  /\ Goto(t, "s_read", "s_rem")
  /\ \E j \in Heads : IsMsg(j) /\ tmpc' = [tmpc EXCEPT ![t] = j]
  /\ UNCHANGED <<queue, torn, sync, code, sent, got>>

\* A job that JobsHndlr leaves (TEXT), or that came after JobsHndlr (EXE): the loop
\* starts again without LilithUnlockTask.
ScanMsgOther(t) ==
  /\ \E j \in Heads : ~IsMsg(j)
  /\ Goto(t, "s_read", "j_lock")
  /\ UNCHANGED <<queue, torn, sync, code, tmpc, sent, got>>

\* Mutant: no QueRem.
ScanMsgTakeStays(t) ==
  /\ Goto(t, "s_rem", "s_msg")
  /\ mutex' = None
  /\ UNCHANGED <<queue, torn, locked, idle, enqWait, code, tmpc, sent, got>>

\* Mutant: no LilithUnlockTask after QueRem.
ScanMsgTakeKeeps(t) ==
  /\ Goto(t, "s_rem", "s_msg")
  /\ queue' = IF queue = <<>> THEN queue ELSE Tail(queue)
  /\ torn' = (Linking # {} /\ Len(queue) <= 1)
  /\ UNCHANGED <<sync, code, tmpc, sent, got>>

\* QueRem and LilithUnlockTask.  A QueIns in progress has next to it the job that is
\* removed, if that is the only one or itself the one being linked.
ScanMsgTake(t) ==
  /\ Goto(t, "s_rem", "s_msg")
  /\ queue' = IF queue = <<>> THEN queue ELSE Tail(queue)
  /\ torn' = (Linking # {} /\ Len(queue) <= 1)
  /\ mutex' = None
  /\ UNCHANGED <<locked, idle, enqWait, code, tmpc, sent, got>>

\* A message in the mask is returned, another is thrown out.  (MOVE is any message that
\* is: also a MSG_KEY_DOWN with SCF_KEY_DESC, if win_inhibit has WIf_SELF_KEY_DESC.)
ScanMsgResult(t) ==
  /\ pc[t] = "s_msg"
  /\ LET key == code[tmpc[t]] = "KEY"
     IN  /\ pc' = [pc EXCEPT ![t] = IF key THEN "user" ELSE "j_lock"]
         /\ got' = IF key THEN Append(got, tmpc[t]) ELSE got
  /\ UNCHANGED <<queue, torn, sync, code, tmpc, sent>>

GetKeyIdle(t) ==
  /\ Goto(t, "g_idle", "g_wait")
  /\ idle' = TRUE
  /\ UNCHANGED <<queue, torn, locked, mutex, enqWait, code, tmpc, sent, got>>

\* LilithWaitForEnqueuedTask: pthread_cond_wait, whatever is in the list by now.
GetKeyWait(t) ==
  /\ Sync(t, "g_wait", "g_blocked")
  /\ enqWait' = enqWait \cup {t}
  /\ UNCHANGED <<queue, torn, locked, mutex, idle, code, tmpc, sent, got>>

GetKeyWoken(t) ==
  /\ Sync(t, "g_blocked", "g_woken")
  /\ t \notin enqWait
  /\ UNCHANGED <<queue, torn, sync, code, tmpc, sent, got>>

\* pthread_cond_wait may return without a signal.
SpuriousWake(t) ==
  /\ pc[t] = "g_blocked" /\ t \in enqWait
  /\ enqWait' = enqWait \ {t}
  /\ UNCHANGED <<queue, torn, locked, mutex, idle, code, pc, tmpc, sent, got>>

\* Mutant: TASKf_IDLE is left set.
GetKeyStaysIdle(t) ==
  /\ Goto(t, "g_woken", "s_sync")
  /\ UNCHANGED <<queue, torn, sync, code, tmpc, sent, got>>

GetKeyBusy(t) ==
  /\ Goto(t, "g_woken", "s_sync")
  /\ idle' = FALSE
  /\ UNCHANGED <<queue, torn, locked, mutex, enqWait, code, tmpc, sent, got>>

\* Exit in the program: TaskEnd of Kernel/KTask.HC deletes the jobs of the task and makes
\* it invalid under JOBCf_LOCKED.
TaskEnd(t) ==
  /\ t = Server
  /\ Goto(t, "user", "ended")
  /\ ~locked
  /\ queue' = <<>>
  /\ UNCHANGED <<torn, sync, code, tmpc, sent, got>>

-----------------------------------------------------------------------------
Send(t) ==
  /\ ~torn
  /\ \/ TaskMsgSync(t) \/ TaskMsgLock(t) \/ TaskMsgInvalid(t) \/ TaskMsgFlags(t)
     \/ TaskMsgSignal(t) \/ TaskMsgQueIns(t) \/ TaskMsgInserted(t) \/ TaskMsgUnlock(t)
     \/ JobQueLock(t) \/ JobQueQueIns(t) \/ JobQueInserted(t)

Read(t) ==
  /\ ~torn
  /\ \/ ScanMsg(t) \/ JobsHndlr(t) \/ JobsHndlrHead(t) \/ JobRun(t) \/ JobsHndlrSignal(t)
     \/ ScanMsgLock(t) \/ ScanMsgNone(t) \/ ScanMsgHead(t) \/ ScanMsgOther(t) \/ ScanMsgTake(t)
     \/ ScanMsgResult(t) \/ GetKeyIdle(t) \/ GetKeyWait(t) \/ GetKeyWoken(t) \/ GetKeyBusy(t)

\* What nothing forces to happen.
Call(t) ==
  /\ ~torn
  /\ TaskMsg(t) \/ TaskText(t) \/ JobQue(t) \/ GetKey(t) \/ TaskEnd(t) \/ SpuriousWake(t)

Next == \E t \in Threads : Call(t) \/ Send(t) \/ Read(t)

Spec == Init /\ [][Next]_vars

\* A thread that is inside one of these functions goes on when it can; nobody has to
\* call one.
FairSpec ==
  Spec /\ \A t \in Threads : WF_vars(Send(t)) /\ WF_vars(Read(t))

-----------------------------------------------------------------------------
(* Properties.                                                             *)

\* The types; and ScanMsg has a message in hand where it reads its msg_code.
TypeOK ==
  /\ queue \in Seq(Jobs) /\ sent \in Seq(Jobs) /\ got \in Seq(Jobs)
  /\ torn \in BOOLEAN /\ locked \in BOOLEAN /\ idle \in BOOLEAN
  /\ mutex \in {None, Server}
  /\ enqWait \subseteq {Server}
  /\ code \in [Jobs -> Codes]
  /\ pc \in [Threads -> PCs]
  /\ tmpc \in [Threads -> Jobs \cup {None}]
  /\ pc[Server] \in {"s_rem", "s_msg"} => tmpc[Server] \in Jobs

\* The keys of a sequence of jobs, in their order.
Keys(s) == Picked(code, {"KEY"}, s)

InHand == IF pc[Server] = "s_msg" THEN Keys(<<tmpc[Server]>>) ELSE <<>>

\* GetKey returns every key sent once, in the order of the QueIns of all senders, while
\* its task lives: throwing out other messages, ScanMsg never loses or reorders one, and
\* its QueRem, which does not keep senders out, does so only when it tears the list.
KeysOnce == torn \/ ~Valid \/ Keys(sent) = got \o InHand \o Keys(queue)

\* TASKf_IDLE, which TaskWait and the kernel read from other threads, is only set
\* while the task is in the part of GetKey that waits: never while it runs a job or
\* has a message in hand.
IdleMeansWaiting == idle => pc[Server] \in {"g_wait", "g_blocked", "g_woken"}

\* ScanMsg goes round its loop with the task's mutex locked, and will wait for it in
\* JobsHndlr: there was a job at the head that is not a message (README, Findings).
SelfLocked == mutex = Server /\ pc[Server] \in {"j_lock", "j_head", "j_run", "j_sig"}

\* "If no message fit mask, return NULL immediately." (lilith_ScanMsg): it returns,
\* whatever is sent meanwhile and however the senders hold JOBCf_LOCKED and the mutex,
\* unless it locks itself out or tears the list.
ScanReturns ==
  pc[Server] = "s_sync" ~> pc[Server] \in {"user", "g_idle"} \/ SelfLocked \/ torn

\* A task that already waits when a key is signalled returns a key: the signal comes
\* before QueIns, and the wait may end without it, but the task cannot scan its list
\* until TaskMsg clears JOBCf_LOCKED.  Exceptions as before.
WakeDelivers ==
  \A t \in Posters :
    pc[Server] = "g_blocked" /\ pc[t] = "p_sig" /\ code[tmpc[t]] = "KEY"
      ~> pc[Server] = "user" \/ SelfLocked \/ torn

\* GetKey "waits for MSG_KEY_DOWN message and returns ASCII" (lilith_GetKey): it does
\* not go on waiting with a key in the list.  Not so: a key that is sent between its last
\* look and its wait wakes nobody (README, Findings).
KeyDelivered ==
  pc[Server] \in {"g_idle", "g_wait", "g_blocked"} /\ Keys(queue) # <<>> ~> pc[Server] = "user"
=============================================================================
