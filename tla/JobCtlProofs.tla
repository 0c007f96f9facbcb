---------------------------- MODULE JobCtlProofs ----------------------------
(***************************************************************************)
(* Theorems about JobCtl for any set of tasks, any pool of jobs and any    *)
(* workload.                                                               *)
(***************************************************************************)
EXTENDS JobCtl, TLAPS

\* Every field keeps its type: the constants, of which a job is made, have theirs.
LEMMA NoJobType == NoJob \in JobRec
  BY JobCtlAssumption DEF NoJob, JobRec, JobCodes, RunCodes, JobFlags

\* Where the code dereferences the job in hand there is one: tmpc is not NULL.
Holding == {"exe_lock", "exe_ins", "post_lock", "post_ins", "que_lock", "que_ins",
            "jh_call", "jh_body", "jh_reply", "jh_done", "jh_flag", "jh_master"}

HasJob == \A t \in Tasks : pc[t] \in Holding => tmpc[t] \in Jobs

Typed == TypeOK /\ HasJob

LEMMA InitTyped == Init => Typed
<1> SUFFICES ASSUME Init PROVE Typed
  OBVIOUS
<1> QED
  BY NoJobType DEF Init, Typed, TypeOK, HasJob, Holding, PCs, NotSaved, JobFlags

LEMMA QueRemType ==
  ASSUME NEW S, NEW q \in Seq(S), NEW i \in 1..Len(q)
  PROVE  QueRem(q, i) \in Seq(S)
  BY DEF QueRem, RemoveAt

\* LBts on a flag of a job.
LEMMA FlagType ==
  ASSUME NEW js \in [Jobs -> JobRec], NEW j \in Jobs, NEW f \in JobFlags
  PROVE  [js EXCEPT ![j].flags = @ \cup {f}] \in [Jobs -> JobRec]
  BY DEF JobRec

LEMMA NewJobType ==
  ASSUME TypeOK, NEW t \in Tasks, NEW s \in Tasks, NEW m \in {None, t},
         NEW code \in JobCodes, NEW fl \in FlagSets, NewJob(t, s, m, code, fl)
  PROVE  /\ alive' \in SUBSET Jobs /\ job' \in [Jobs -> JobRec]
         /\ tmpc' \in [Tasks -> Jobs \cup {None}] /\ tmpc'[t] \in Jobs
         /\ \A u \in Tasks \ {t} : tmpc'[u] = tmpc[u]
         /\ ctrl' \in [Tasks -> Tasks]
         /\ UNCHANGED <<waiting, done, locked, valid, idle, suspended, focus, idleWait, saved, req>>
<1>1. PICK j \in Jobs \ alive :
       /\ alive' = alive \cup {j}
       /\ job' = [job EXCEPT ![j] = [code |-> code, master |-> m, ctrl |-> s,
                                     flags |-> fl, owner |-> t]]
       /\ tmpc' = [tmpc EXCEPT ![t] = j]
       /\ ctrl' = [ctrl EXCEPT ![t] = s]
  BY DEF NewJob
<1>2. [code |-> code, master |-> m, ctrl |-> s, flags |-> fl, owner |-> t] \in JobRec
  BY JobCtlAssumption DEF JobRec
<1> QED
  BY <1>1, <1>2 DEF TypeOK, NewJob

LEMMA EnqueueType ==
  ASSUME TypeOK, NEW t \in Tasks, tmpc[t] \in Jobs, Enqueue(t)
  PROVE  /\ waiting' \in [Tasks -> Seq(Jobs)] /\ idle' \in SUBSET Tasks
         /\ req' \in [Tasks -> Jobs \cup {None}]
<1>1. waiting' \in [Tasks -> Seq(Jobs)]
  BY DEF TypeOK, Enqueue
<1>2. idle' \in SUBSET Tasks
  BY DEF TypeOK, Enqueue
<1>3. req' = req \/ req' = [req EXCEPT ![t] = tmpc[t]]
  BY DEF Enqueue, Keep
<1> QED
  BY <1>1, <1>2, <1>3 DEF TypeOK

\* A function returns: it has no job in hand any more.
LEMMA ReturnType ==
  ASSUME Typed, NEW t \in Tasks, NEW from \in PCs, Return(t, from)
  PROVE  /\ pc' \in [Tasks -> PCs] /\ ctrl' \in [Tasks -> Tasks]
         /\ tmpc' \in [Tasks -> Jobs \cup {None}]
         /\ HasJob'
<1>1. pc' \in [Tasks -> PCs] /\ ctrl' \in [Tasks -> Tasks] /\ tmpc' \in [Tasks -> Jobs \cup {None}]
  BY DEF Typed, TypeOK, Return, Goto, PCs
<1>2. pc'[t] = "ready" /\ \A u \in Tasks \ {t} : pc'[u] = pc[u] /\ tmpc'[u] = tmpc[u]
  BY DEF Typed, TypeOK, Return, Goto
<1>3. HasJob'
  BY <1>2 DEF Typed, HasJob, Holding
<1> QED
  BY <1>1, <1>3

LEMMA TypedStep == Typed /\ [Next]_vars => Typed'
<1> SUFFICES ASSUME Typed, [Next]_vars PROVE Typed'
  OBVIOUS
<1> USE JobCtlAssumption DEF Typed, TypeOK, HasJob, Holding, PCs
<1>0. CASE UNCHANGED vars
  BY <1>0 DEF vars, shared
<1>1. ASSUME NEW t \in Tasks, JobsHndlr(t) PROVE Typed'
  BY <1>1, SMT DEF JobsHndlr, Goto, shared
<1>2. ASSUME NEW t \in Tasks, JobsHndlrLock(t) PROVE Typed'
  BY <1>2, SMT DEF JobsHndlrLock, Lock, Goto
<1>3. ASSUME NEW t \in Tasks, JobsHndlrDone(t) PROVE Typed'
  BY <1>3, SMT DEF JobsHndlrDone, Goto, Unlock
<1>4. ASSUME NEW t \in Tasks, JobRunOne(t) PROVE Typed'
  <2> DEFINE j == Head(waiting[t])
  <2>1. j \in Jobs /\ Tail(waiting[t]) \in Seq(Jobs)
    BY <1>4 DEF JobRunOne, Goto, Unlock
  <2>2. job[j].flags \in SUBSET JobFlags /\ job[j].master \in Tasks \cup {None}
    BY <2>1 DEF JobRec
  <2>3. job' \in [Jobs -> JobRec]
    BY <1>4, <2>1, FlagType DEF JobRunOne, JobFlags, Goto, Unlock
  <2>4. saved' \in [Tasks -> [flags : SUBSET JobFlags, master : Tasks \cup {None}]]
    BY <1>4, <2>2 DEF JobRunOne, Goto, Unlock
  <2>5. waiting' \in [Tasks -> Seq(Jobs)]
    BY <1>4, <2>1 DEF JobRunOne, Goto, Unlock
  <2>6. tmpc' \in [Tasks -> Jobs \cup {None}] /\ \A u \in Tasks \ {t} : tmpc'[u] = tmpc[u]
    BY <1>4, <2>1 DEF JobRunOne, Goto, Unlock
  <2>7. tmpc'[t] \in Jobs
    BY <1>4, <2>1 DEF JobRunOne, Goto, Unlock
  <2> QED
    BY <1>4, <2>3, <2>4, <2>5, <2>6, <2>7 DEF JobRunOne, Goto, Unlock
<1>5. ASSUME NEW t \in Tasks, JobCall(t) PROVE Typed'
  BY <1>5, SMT DEF JobCall, Goto
<1>6. ASSUME NEW t \in Tasks, JobBody(t) PROVE Typed'
  BY <1>6, SMT DEF JobBody, shared
<1>7. ASSUME NEW t \in Tasks, JobReplyLock(t) PROVE Typed'
  BY <1>7, SMT DEF JobReplyLock, Lock, Goto
<1>8. ASSUME NEW t \in Tasks, JobReplyInsert(t) PROVE Typed'
  BY <1>8, SMT DEF JobReplyInsert, Goto
<1>9. ASSUME NEW t \in Tasks, JobReplyDone(t) PROVE Typed'
  <2>1. job' \in [Jobs -> JobRec]
    BY <1>9, FlagType DEF JobReplyDone, JobFlags, Goto, Unlock
  <2> QED
    BY <1>9, <2>1 DEF JobReplyDone, Goto, Unlock
<1>10. ASSUME NEW t \in Tasks, JobMaster(t) PROVE Typed'
  <2>1. job' \in [Jobs -> JobRec] /\ alive' \in SUBSET Jobs
    <3>1. CASE "FREE_ON_COMPLETE" \in saved[t].flags
      <4>1. JobDel(tmpc[t])
        BY <1>10, <3>1 DEF JobMaster
      <4> QED
        BY <4>1, NoJobType DEF JobDel
    <3>2. CASE "FREE_ON_COMPLETE" \notin saved[t].flags
      BY <1>10, <3>2 DEF JobMaster
    <3> QED
      BY <3>1, <3>2
  <2>2. focus' \in Tasks \cup {None}
    BY <1>10 DEF JobMaster
  <2>3. suspended' \in SUBSET Tasks
    BY <1>10 DEF JobMaster
  <2>4. saved' \in [Tasks -> [flags : SUBSET JobFlags, master : Tasks \cup {None}]]
    BY <1>10 DEF JobMaster, NotSaved
  <2>5. pc' \in [Tasks -> PCs] /\ HasJob'
    BY <1>10 DEF JobMaster
  <2> QED
    BY <1>10, <2>1, <2>2, <2>3, <2>4, <2>5 DEF JobMaster
<1>11. ASSUME NEW t \in Tasks, JobsHndlrSignal(t) PROVE Typed'
  BY <1>11, SMT DEF JobsHndlrSignal, Goto
<1>12. ASSUME NEW t \in Tasks, SrvTaskIdle(t) PROVE Typed'
  BY <1>12, SMT DEF SrvTaskIdle, Return, Goto
<1>13. ASSUME NEW t \in Tasks, TaskEndLock(t) PROVE Typed'
  BY <1>13, SMT DEF TaskEndLock, Lock, Goto
<1>14. ASSUME NEW t \in Tasks, TaskEnd(t) PROVE Typed'
  BY <1>14, NoJobType, SMT DEF TaskEnd, Goto, Unlock
<1>15. ASSUME NEW t \in Tasks, TaskExeLock(t) PROVE Typed'
  BY <1>15, SMT DEF TaskExeLock, Lock, Goto
<1>16. ASSUME NEW t \in Tasks, TaskExeInsert(t) PROVE Typed'
  <2>1. suspended' \in SUBSET Tasks
    BY <1>16 DEF TaskExeInsert, Enqueue, JobRec
  <2>2. Return(t, "exe_ins") /\ Enqueue(t) /\ UNCHANGED locked
    BY <1>16 DEF TaskExeInsert
  <2>3. tmpc[t] \in Jobs
    BY <2>2 DEF Return, Goto
  <2>4. waiting' \in [Tasks -> Seq(Jobs)] /\ idle' \in SUBSET Tasks
        /\ req' \in [Tasks -> Jobs \cup {None}]
    BY <2>2, <2>3, EnqueueType
  <2> QED
    BY <2>1, <2>2, <2>4, ReturnType DEF Enqueue
<1>17. ASSUME NEW t \in Tasks, TaskExeInvalid(t) PROVE Typed'
  BY <1>17, NoJobType, SMT DEF TaskExeInvalid, GiveUp, JobDel, Return, Unlock, Goto
<1>18. ASSUME NEW t \in Tasks, KernelPostLock(t) PROVE Typed'
  BY <1>18, SMT DEF KernelPostLock, Lock, Goto
<1>19. ASSUME NEW t \in Tasks, KernelPostInsert(t) PROVE Typed'
  <2>1. Return(t, "post_ins") /\ Unlock(t)
    BY <1>19 DEF KernelPostInsert
  <2>2. tmpc[t] \in Jobs
    BY <2>1 DEF Return, Goto
  <2>3. CASE Enqueue(t) /\ UNCHANGED suspended
    <3>1. waiting' \in [Tasks -> Seq(Jobs)] /\ idle' \in SUBSET Tasks
        /\ req' \in [Tasks -> Jobs \cup {None}]
      BY <2>2, <2>3, EnqueueType
    <3> QED
      BY <2>1, <2>3, <3>1, ReturnType DEF Unlock, Enqueue
  <2>4. CASE GiveUp(t)
    BY <2>1, <2>4, NoJobType, ReturnType DEF Unlock, GiveUp, JobDel
  <2> QED
    BY <1>19, <2>3, <2>4 DEF KernelPostInsert
<1>20. ASSUME NEW t \in Tasks, JobQueLock(t) PROVE Typed'
  BY <1>20, SMT DEF JobQueLock, Lock, Goto
<1>21. ASSUME NEW t \in Tasks, JobQueInsert(t) PROVE Typed'
  BY <1>21, SMT DEF JobQueInsert, Keep, Return, Unlock, Goto
<1>22. ASSUME NEW t \in Tasks, JobResScan(t) PROVE Typed'
  <2>1. job[req[t]].master \in Tasks \cup {None} /\ job[req[t]].ctrl \in Tasks
    BY <1>22 DEF JobResScan, JobRec, Goto, shared
  <2> QED
    BY <1>22, <2>1 DEF JobResScan, Goto, shared
<1>23. ASSUME NEW t \in Tasks, JobResScanLock(t) PROVE Typed'
  BY <1>23, SMT DEF JobResScanLock, Lock, Goto
<1>24. ASSUME NEW t \in Tasks, JobResTake(t) PROVE Typed'
  BY <1>24, NoJobType, QueRemType, SMT DEF JobResTake, JobDel, Return, Unlock, Goto
<1>25. ASSUME NEW t \in Tasks, JobResNone(t) PROVE Typed'
  BY <1>25, SMT DEF JobResNone, Return, Unlock, Goto
<1>26. ASSUME NEW t \in Tasks, TaskWaitEmpty(t) PROVE Typed'
  <2>1. CASE ctrl[t] \in valid
    <3>1. /\ pc[t] = "tw_empty"
          /\ pc' = [pc EXCEPT ![t] = IF waiting[ctrl[t]] = <<>> THEN "tw_idle" ELSE "tw_wait"]
          /\ UNCHANGED <<shared, ctrl, tmpc, saved, req>>
      BY <1>26, <2>1, Zenon DEF TaskWaitEmpty
    <3> QED
      BY <3>1 DEF shared
  <2>2. CASE ctrl[t] \notin valid
    <3>1. Return(t, "tw_empty") /\ UNCHANGED <<shared, saved, req>>
      BY <1>26, <2>2, Zenon DEF TaskWaitEmpty
    <3> QED
      BY <3>1 DEF Return, Goto, shared
  <2> QED
    BY <2>1, <2>2
<1>27. ASSUME NEW t \in Tasks, TaskWaitIdle(t) PROVE Typed'
  <2>1. CASE Return(t, "tw_idle")
    BY <1>27, <2>1 DEF TaskWaitIdle, Return, Goto, shared
  <2>2. CASE Goto(t, "tw_idle", "tw_wait") /\ UNCHANGED <<ctrl, tmpc>>
    BY <1>27, <2>2 DEF TaskWaitIdle, Goto, shared
  <2> QED
    BY <1>27, <2>1, <2>2 DEF TaskWaitIdle
<1>28. ASSUME NEW t \in Tasks, TaskWaitBlock(t) PROVE Typed'
  BY <1>28, SMT DEF TaskWaitBlock, Goto
<1>29. ASSUME NEW t \in Tasks, TaskWaitWake(t) PROVE Typed'
  BY <1>29, SMT DEF TaskWaitWake, Goto, shared
<1>30. ASSUME NEW t \in Tasks, TaskExe(t) PROVE Typed'
  <2>0. "EXE_STR" \in JobCodes
    BY DEF JobCodes, RunCodes
  <2>1. PICK s \in Servers, m \in {None, t}, fl \in FlagSets : NewJob(t, s, m, "EXE_STR", fl)
    BY <1>30 DEF TaskExe, Goto
  <2>2. /\ alive' \in SUBSET Jobs /\ job' \in [Jobs -> JobRec]
        /\ tmpc' \in [Tasks -> Jobs \cup {None}] /\ tmpc'[t] \in Jobs
        /\ \A u \in Tasks \ {t} : tmpc'[u] = tmpc[u]
        /\ ctrl' \in [Tasks -> Tasks]
        /\ UNCHANGED <<waiting, done, locked, valid, idle, suspended, focus, idleWait, saved, req>>
    BY <2>1, <2>0, NewJobType
  <2>3. pc' = [pc EXCEPT ![t] = "exe_lock"]
    BY <1>30 DEF TaskExe, Goto
  <2> QED
    BY <2>2, <2>3
<1>31. ASSUME NEW t \in Tasks, KernelPost(t) PROVE Typed'
  <2>0. KernelCodes \subseteq JobCodes
    OBVIOUS
  <2>1. PICK s \in Servers, m \in {None, t}, code \in KernelCodes, fl \in FlagSets : NewJob(t, s,
           m, code, fl)
    BY <1>31 DEF KernelPost, Goto
  <2>2. /\ alive' \in SUBSET Jobs /\ job' \in [Jobs -> JobRec]
        /\ tmpc' \in [Tasks -> Jobs \cup {None}] /\ tmpc'[t] \in Jobs
        /\ \A u \in Tasks \ {t} : tmpc'[u] = tmpc[u]
        /\ ctrl' \in [Tasks -> Tasks]
        /\ UNCHANGED <<waiting, done, locked, valid, idle, suspended, focus, idleWait, saved, req>>
    BY <2>1, <2>0, NewJobType
  <2>3. pc' = [pc EXCEPT ![t] = "post_lock"]
    BY <1>31 DEF KernelPost, Goto
  <2> QED
    BY <2>2, <2>3
<1>32. ASSUME NEW t \in Tasks, JobQue(t) PROVE Typed'
  <2>0. QueCodes \subseteq JobCodes
    BY DEF JobCodes
  <2>1. PICK s \in Servers, code \in QueCodes, fl \in FlagSets : NewJob(t, s, None, code, fl)
    BY <1>32 DEF JobQue, Goto
  <2>2. /\ alive' \in SUBSET Jobs /\ job' \in [Jobs -> JobRec]
        /\ tmpc' \in [Tasks -> Jobs \cup {None}] /\ tmpc'[t] \in Jobs
        /\ \A u \in Tasks \ {t} : tmpc'[u] = tmpc[u]
        /\ ctrl' \in [Tasks -> Tasks]
        /\ UNCHANGED <<waiting, done, locked, valid, idle, suspended, focus, idleWait, saved, req>>
    BY <2>1, <2>0, NewJobType
  <2>3. pc' = [pc EXCEPT ![t] = "que_lock"]
    BY <1>32 DEF JobQue, Goto
  <2> QED
    BY <2>2, <2>3
<1>33. ASSUME NEW t \in Tasks, JobResScanAny(t) PROVE Typed'
  BY <1>33, SMT DEF JobResScanAny, Goto, shared
<1>34. ASSUME NEW t \in Tasks, TaskWait(t) PROVE Typed'
  BY <1>34, SMT DEF TaskWait, Goto, shared
<1>35. ASSUME NEW t \in Tasks, JobFault(t) PROVE Typed'
  BY <1>35, SMT DEF JobFault, Goto, shared
<1> QED
  BY <1>0, <1>1, <1>2, <1>3, <1>4, <1>5, <1>6, <1>7, <1>8, <1>9, <1>10, <1>11, <1>12, <1>13,
     <1>14, <1>15, <1>16, <1>17, <1>18, <1>19, <1>20, <1>21, <1>22, <1>23, <1>24, <1>25, <1>26,
     <1>27, <1>28, <1>29, <1>30, <1>31, <1>32, <1>33, <1>34, <1>35 DEF Next, Handle, Post,
     Collect, Wait, Call

\* Every variable keeps its type.
THEOREM TypeCorrect == Spec => []TypeOK
<1>1. Init => Typed
  BY InitTyped
<1>2. Typed /\ [Next]_vars => Typed'
  BY TypedStep
<1>3. Typed => TypeOK
  BY DEF Typed
<1> QED
  BY <1>1, <1>2, <1>3, PTL DEF Spec

-----------------------------------------------------------------------------
(* Mutual exclusion needs nothing but the types: the spin bit alone decides. *)

LEMMA LockStep == Typed /\ LockExclusive /\ [Next]_vars => LockExclusive'
<1> SUFFICES ASSUME Typed /\ LockExclusive, [Next]_vars PROVE LockExclusive'
  OBVIOUS
<1>a. pc \in [Tasks -> PCs] /\ ctrl \in [Tasks -> Tasks] /\ locked \in SUBSET Tasks
  BY DEF Typed, TypeOK
<1> USE <1>a DEF LockExclusive, Critical
<1>0. CASE UNCHANGED vars
  BY <1>0 DEF vars, shared
<1>1. ASSUME NEW t \in Tasks, JobsHndlr(t) PROVE LockExclusive'
  BY <1>1 DEF JobsHndlr, Goto, shared
<1>2. ASSUME NEW t \in Tasks, JobsHndlrLock(t) PROVE LockExclusive'
  BY <1>2 DEF JobsHndlrLock, Lock, Goto
<1>3. ASSUME NEW t \in Tasks, JobsHndlrDone(t) PROVE LockExclusive'
  BY <1>3 DEF JobsHndlrDone, Goto, Unlock
<1>4. ASSUME NEW t \in Tasks, JobRunOne(t) PROVE LockExclusive'
  BY <1>4 DEF JobRunOne, Goto, Unlock
<1>5. ASSUME NEW t \in Tasks, JobCall(t) PROVE LockExclusive'
  BY <1>5 DEF JobCall, Goto
<1>6. ASSUME NEW t \in Tasks, JobBody(t) PROVE LockExclusive'
  BY <1>6 DEF JobBody, shared
<1>7. ASSUME NEW t \in Tasks, JobReplyLock(t) PROVE LockExclusive'
  BY <1>7 DEF JobReplyLock, Lock, Goto
<1>8. ASSUME NEW t \in Tasks, JobReplyInsert(t) PROVE LockExclusive'
  BY <1>8 DEF JobReplyInsert, Goto
<1>9. ASSUME NEW t \in Tasks, JobReplyDone(t) PROVE LockExclusive'
  BY <1>9 DEF JobReplyDone, Goto, Unlock
<1>10. ASSUME NEW t \in Tasks, JobMaster(t) PROVE LockExclusive'
  BY <1>10 DEF JobMaster
<1>11. ASSUME NEW t \in Tasks, JobsHndlrSignal(t) PROVE LockExclusive'
  BY <1>11 DEF JobsHndlrSignal, Goto
<1>12. ASSUME NEW t \in Tasks, SrvTaskIdle(t) PROVE LockExclusive'
  BY <1>12 DEF SrvTaskIdle, Return, Goto
<1>13. ASSUME NEW t \in Tasks, TaskEndLock(t) PROVE LockExclusive'
  BY <1>13 DEF TaskEndLock, Lock, Goto
<1>14. ASSUME NEW t \in Tasks, TaskEnd(t) PROVE LockExclusive'
  BY <1>14 DEF TaskEnd, Goto, Unlock
<1>15. ASSUME NEW t \in Tasks, TaskExeLock(t) PROVE LockExclusive'
  BY <1>15 DEF TaskExeLock, Lock, Goto
<1>16. ASSUME NEW t \in Tasks, TaskExeInsert(t) PROVE LockExclusive'
  BY <1>16 DEF TaskExeInsert, Enqueue, Return, Goto
<1>17. ASSUME NEW t \in Tasks, TaskExeInvalid(t) PROVE LockExclusive'
  BY <1>17 DEF TaskExeInvalid, GiveUp, Return, Unlock, Goto
<1>18. ASSUME NEW t \in Tasks, KernelPostLock(t) PROVE LockExclusive'
  BY <1>18 DEF KernelPostLock, Lock, Goto
<1>19. ASSUME NEW t \in Tasks, KernelPostInsert(t) PROVE LockExclusive'
  BY <1>19 DEF KernelPostInsert, Enqueue, GiveUp, Return, Unlock, Goto
<1>20. ASSUME NEW t \in Tasks, JobQueLock(t) PROVE LockExclusive'
  BY <1>20 DEF JobQueLock, Lock, Goto
<1>21. ASSUME NEW t \in Tasks, JobQueInsert(t) PROVE LockExclusive'
  BY <1>21 DEF JobQueInsert, Return, Unlock, Goto
<1>22. ASSUME NEW t \in Tasks, JobResScan(t) PROVE LockExclusive'
  BY <1>22 DEF JobResScan, Goto, shared
<1>23. ASSUME NEW t \in Tasks, JobResScanLock(t) PROVE LockExclusive'
  BY <1>23 DEF JobResScanLock, Lock, Goto
<1>24. ASSUME NEW t \in Tasks, JobResTake(t) PROVE LockExclusive'
  BY <1>24 DEF JobResTake, Return, Unlock, Goto
<1>25. ASSUME NEW t \in Tasks, JobResNone(t) PROVE LockExclusive'
  BY <1>25 DEF JobResNone, Return, Unlock, Goto
<1>26. ASSUME NEW t \in Tasks, TaskWaitEmpty(t) PROVE LockExclusive'
  BY <1>26 DEF TaskWaitEmpty, Return, shared, Goto
<1>27. ASSUME NEW t \in Tasks, TaskWaitIdle(t) PROVE LockExclusive'
  BY <1>27 DEF TaskWaitIdle, Goto, Return, shared
<1>28. ASSUME NEW t \in Tasks, TaskWaitBlock(t) PROVE LockExclusive'
  BY <1>28 DEF TaskWaitBlock, Goto
<1>29. ASSUME NEW t \in Tasks, TaskWaitWake(t) PROVE LockExclusive'
  BY <1>29 DEF TaskWaitWake, Goto, shared
<1>30. ASSUME NEW t \in Tasks, TaskExe(t) PROVE LockExclusive'
  BY <1>30 DEF TaskExe, NewJob, Goto
<1>31. ASSUME NEW t \in Tasks, KernelPost(t) PROVE LockExclusive'
  BY <1>31 DEF KernelPost, NewJob, Goto
<1>32. ASSUME NEW t \in Tasks, JobQue(t) PROVE LockExclusive'
  BY <1>32 DEF JobQue, NewJob, Goto
<1>33. ASSUME NEW t \in Tasks, JobResScanAny(t) PROVE LockExclusive'
  BY <1>33 DEF JobResScanAny, Goto, shared
<1>34. ASSUME NEW t \in Tasks, TaskWait(t) PROVE LockExclusive'
  BY <1>34 DEF TaskWait, Goto, shared
<1>35. ASSUME NEW t \in Tasks, JobFault(t) PROVE LockExclusive'
  BY <1>35 DEF JobFault, Goto, shared
<1> QED
  BY <1>0, <1>1, <1>2, <1>3, <1>4, <1>5, <1>6, <1>7, <1>8, <1>9, <1>10, <1>11, <1>12, <1>13,
     <1>14, <1>15, <1>16, <1>17, <1>18, <1>19, <1>20, <1>21, <1>22, <1>23, <1>24, <1>25, <1>26,
     <1>27, <1>28, <1>29, <1>30, <1>31, <1>32, <1>33, <1>34, <1>35
     DEF Next, Handle, Post, Collect, Wait, Call

\* Two threads are never between LBts and LBtr of the same CJobCtrl, although
\* TaskExe leaves bits set behind it.
THEOREM LocksExclude == Spec => []LockExclusive
<1>1. Init => Typed /\ LockExclusive
  BY InitTyped DEF Init, LockExclusive, Critical
<1>2. (Typed /\ LockExclusive) /\ [Next]_vars => (Typed /\ LockExclusive)'
  BY TypedStep, LockStep
<1> QED
  BY <1>1, <1>2, PTL DEF Spec

-----------------------------------------------------------------------------
(* Without TaskExe, whose successful branch forgets it, whoever sets the bit *)
(* clears it.                                                              *)

NoTaskExe == Exers = {} /\ \A t \in Tasks : pc[t] \notin {"exe_lock", "exe_ins"}

OrphanInv == NoTaskExe /\ NoOrphanLock

LEMMA OrphanStep == Typed /\ OrphanInv /\ [Next]_vars => OrphanInv'
<1> SUFFICES ASSUME Typed /\ OrphanInv, [Next]_vars PROVE OrphanInv'
  OBVIOUS
<1>a. pc \in [Tasks -> PCs] /\ ctrl \in [Tasks -> Tasks] /\ locked \in SUBSET Tasks
  BY DEF Typed, TypeOK
<1> USE <1>a DEF OrphanInv, NoTaskExe, NoOrphanLock, Inside, Critical
<1>0. CASE UNCHANGED vars
  BY <1>0 DEF vars, shared
<1>1. ASSUME NEW t \in Tasks, JobsHndlr(t) PROVE OrphanInv'
  BY <1>1 DEF JobsHndlr, Goto, shared
<1>2. ASSUME NEW t \in Tasks, JobsHndlrLock(t) PROVE OrphanInv'
  BY <1>2 DEF JobsHndlrLock, Lock, Goto
<1>3. ASSUME NEW t \in Tasks, JobsHndlrDone(t) PROVE OrphanInv'
  BY <1>3 DEF JobsHndlrDone, Goto, Unlock
<1>4. ASSUME NEW t \in Tasks, JobRunOne(t) PROVE OrphanInv'
  BY <1>4 DEF JobRunOne, Goto, Unlock
<1>5. ASSUME NEW t \in Tasks, JobCall(t) PROVE OrphanInv'
  BY <1>5 DEF JobCall, Goto
<1>6. ASSUME NEW t \in Tasks, JobBody(t) PROVE OrphanInv'
  BY <1>6 DEF JobBody, shared
<1>7. ASSUME NEW t \in Tasks, JobReplyLock(t) PROVE OrphanInv'
  BY <1>7 DEF JobReplyLock, Lock, Goto
<1>8. ASSUME NEW t \in Tasks, JobReplyInsert(t) PROVE OrphanInv'
  BY <1>8 DEF JobReplyInsert, Goto
<1>9. ASSUME NEW t \in Tasks, JobReplyDone(t) PROVE OrphanInv'
  BY <1>9 DEF JobReplyDone, Goto, Unlock
<1>10. ASSUME NEW t \in Tasks, JobMaster(t) PROVE OrphanInv'
  BY <1>10 DEF JobMaster
<1>11. ASSUME NEW t \in Tasks, JobsHndlrSignal(t) PROVE OrphanInv'
  BY <1>11 DEF JobsHndlrSignal, Goto
<1>12. ASSUME NEW t \in Tasks, SrvTaskIdle(t) PROVE OrphanInv'
  BY <1>12 DEF SrvTaskIdle, Return, Goto
<1>13. ASSUME NEW t \in Tasks, TaskEndLock(t) PROVE OrphanInv'
  BY <1>13 DEF TaskEndLock, Lock, Goto
<1>14. ASSUME NEW t \in Tasks, TaskEnd(t) PROVE OrphanInv'
  BY <1>14 DEF TaskEnd, Goto, Unlock
<1>15. ASSUME NEW t \in Tasks, TaskExeLock(t) PROVE OrphanInv'
  BY <1>15 DEF TaskExeLock, Lock, Goto
<1>16. ASSUME NEW t \in Tasks, TaskExeInsert(t) PROVE OrphanInv'
  BY <1>16 DEF TaskExeInsert, Enqueue, Return, Goto
<1>17. ASSUME NEW t \in Tasks, TaskExeInvalid(t) PROVE OrphanInv'
  BY <1>17 DEF TaskExeInvalid, GiveUp, Return, Unlock, Goto
<1>18. ASSUME NEW t \in Tasks, KernelPostLock(t) PROVE OrphanInv'
  BY <1>18 DEF KernelPostLock, Lock, Goto
<1>19. ASSUME NEW t \in Tasks, KernelPostInsert(t) PROVE OrphanInv'
  BY <1>19 DEF KernelPostInsert, Enqueue, GiveUp, Return, Unlock, Goto
<1>20. ASSUME NEW t \in Tasks, JobQueLock(t) PROVE OrphanInv'
  BY <1>20 DEF JobQueLock, Lock, Goto
<1>21. ASSUME NEW t \in Tasks, JobQueInsert(t) PROVE OrphanInv'
  BY <1>21 DEF JobQueInsert, Return, Unlock, Goto
<1>22. ASSUME NEW t \in Tasks, JobResScan(t) PROVE OrphanInv'
  BY <1>22 DEF JobResScan, Goto, shared
<1>23. ASSUME NEW t \in Tasks, JobResScanLock(t) PROVE OrphanInv'
  BY <1>23 DEF JobResScanLock, Lock, Goto
<1>24. ASSUME NEW t \in Tasks, JobResTake(t) PROVE OrphanInv'
  BY <1>24 DEF JobResTake, Return, Unlock, Goto
<1>25. ASSUME NEW t \in Tasks, JobResNone(t) PROVE OrphanInv'
  BY <1>25 DEF JobResNone, Return, Unlock, Goto
<1>26. ASSUME NEW t \in Tasks, TaskWaitEmpty(t) PROVE OrphanInv'
  <2>1. UNCHANGED locked /\ pc[t] = "tw_empty"
    BY <1>26 DEF TaskWaitEmpty, shared
  <2>2. \E to \in {"tw_idle", "tw_wait", "ready"} : pc' = [pc EXCEPT ![t] = to]
    BY <1>26 DEF TaskWaitEmpty, Return, Goto
  <2>3. \A u \in Tasks \ {t} : ctrl'[u] = ctrl[u]
    BY <1>26 DEF TaskWaitEmpty, Return
  <2> QED
    BY <2>1, <2>2, <2>3
<1>27. ASSUME NEW t \in Tasks, TaskWaitIdle(t) PROVE OrphanInv'
  <2>1. CASE Return(t, "tw_idle")
    BY <1>27, <2>1 DEF TaskWaitIdle, Return, Goto, shared
  <2>2. CASE Goto(t, "tw_idle", "tw_wait") /\ UNCHANGED <<ctrl, tmpc>>
    BY <1>27, <2>2 DEF TaskWaitIdle, Goto, shared
  <2> QED
    BY <1>27, <2>1, <2>2 DEF TaskWaitIdle
<1>28. ASSUME NEW t \in Tasks, TaskWaitBlock(t) PROVE OrphanInv'
  BY <1>28 DEF TaskWaitBlock, Goto
<1>29. ASSUME NEW t \in Tasks, TaskWaitWake(t) PROVE OrphanInv'
  BY <1>29 DEF TaskWaitWake, Goto, shared
<1>30. ASSUME NEW t \in Tasks, TaskExe(t) PROVE OrphanInv'
  BY <1>30 DEF TaskExe, NewJob, Goto
<1>31. ASSUME NEW t \in Tasks, KernelPost(t) PROVE OrphanInv'
  BY <1>31 DEF KernelPost, NewJob, Goto
<1>32. ASSUME NEW t \in Tasks, JobQue(t) PROVE OrphanInv'
  BY <1>32 DEF JobQue, NewJob, Goto
<1>33. ASSUME NEW t \in Tasks, JobResScanAny(t) PROVE OrphanInv'
  BY <1>33 DEF JobResScanAny, Goto, shared
<1>34. ASSUME NEW t \in Tasks, TaskWait(t) PROVE OrphanInv'
  BY <1>34 DEF TaskWait, Goto, shared
<1>35. ASSUME NEW t \in Tasks, JobFault(t) PROVE OrphanInv'
  BY <1>35 DEF JobFault, Goto, shared
<1> QED
  BY <1>0, <1>1, <1>2, <1>3, <1>4, <1>5, <1>6, <1>7, <1>8, <1>9, <1>10, <1>11, <1>12, <1>13,
     <1>14, <1>15, <1>16, <1>17, <1>18, <1>19, <1>20, <1>21, <1>22, <1>23, <1>24, <1>25, <1>26,
     <1>27, <1>28, <1>29, <1>30, <1>31, <1>32, <1>33, <1>34, <1>35
     DEF Next, Handle, Post, Collect, Wait, Call

\* If no task calls TaskExe, a set JOBCf_LOCKED always has a thread inside that
\* has still to clear it.
THEOREM NoOrphanLocks ==
  ASSUME Exers = {}
  PROVE  Spec => []NoOrphanLock
<1>1. Init => Typed /\ OrphanInv
  BY InitTyped DEF Init, OrphanInv, NoTaskExe, NoOrphanLock
<1>2. (Typed /\ OrphanInv) /\ [Next]_vars => (Typed /\ OrphanInv)'
  BY TypedStep, OrphanStep
<1>3. OrphanInv => NoOrphanLock
  BY DEF OrphanInv
<1> QED
  BY <1>1, <1>2, <1>3, PTL DEF Spec

-----------------------------------------------------------------------------
(* JobQue does not validate its server under the lock; all others do.      *)

NoJobQue == QueCodes = {} /\ \A t \in Tasks : pc[t] \notin {"que_lock", "que_ins"}

DeadInv == NoJobQue /\ NoJobOnDead

LEMMA DeadStep == Typed /\ DeadInv /\ [Next]_vars => DeadInv'
<1> SUFFICES ASSUME Typed /\ DeadInv, [Next]_vars PROVE DeadInv'
  OBVIOUS
<1>a. /\ pc \in [Tasks -> PCs] /\ ctrl \in [Tasks -> Tasks]
      /\ waiting \in [Tasks -> Seq(Jobs)] /\ valid \in SUBSET Tasks
  BY DEF Typed, TypeOK
<1> USE <1>a DEF DeadInv, NoJobQue, NoJobOnDead
<1>0. CASE UNCHANGED vars
  BY <1>0 DEF vars, shared
<1>1. ASSUME NEW t \in Tasks, JobsHndlr(t) PROVE DeadInv'
  BY <1>1 DEF JobsHndlr, Goto, shared
<1>2. ASSUME NEW t \in Tasks, JobsHndlrLock(t) PROVE DeadInv'
  BY <1>2 DEF JobsHndlrLock, Lock, Goto
<1>3. ASSUME NEW t \in Tasks, JobsHndlrDone(t) PROVE DeadInv'
  BY <1>3 DEF JobsHndlrDone, Goto, Unlock
<1>4. ASSUME NEW t \in Tasks, JobRunOne(t) PROVE DeadInv'
  BY <1>4 DEF JobRunOne, Goto, Unlock
<1>5. ASSUME NEW t \in Tasks, JobCall(t) PROVE DeadInv'
  BY <1>5 DEF JobCall, Goto
<1>6. ASSUME NEW t \in Tasks, JobBody(t) PROVE DeadInv'
  BY <1>6 DEF JobBody, shared
<1>7. ASSUME NEW t \in Tasks, JobReplyLock(t) PROVE DeadInv'
  BY <1>7 DEF JobReplyLock, Lock, Goto
<1>8. ASSUME NEW t \in Tasks, JobReplyInsert(t) PROVE DeadInv'
  BY <1>8 DEF JobReplyInsert, Goto
<1>9. ASSUME NEW t \in Tasks, JobReplyDone(t) PROVE DeadInv'
  BY <1>9 DEF JobReplyDone, Goto, Unlock
<1>10. ASSUME NEW t \in Tasks, JobMaster(t) PROVE DeadInv'
  BY <1>10 DEF JobMaster
<1>11. ASSUME NEW t \in Tasks, JobsHndlrSignal(t) PROVE DeadInv'
  BY <1>11 DEF JobsHndlrSignal, Goto
<1>12. ASSUME NEW t \in Tasks, SrvTaskIdle(t) PROVE DeadInv'
  BY <1>12 DEF SrvTaskIdle, Return, Goto
<1>13. ASSUME NEW t \in Tasks, TaskEndLock(t) PROVE DeadInv'
  BY <1>13 DEF TaskEndLock, Lock, Goto
<1>14. ASSUME NEW t \in Tasks, TaskEnd(t) PROVE DeadInv'
  BY <1>14 DEF TaskEnd, Goto, Unlock
<1>15. ASSUME NEW t \in Tasks, TaskExeLock(t) PROVE DeadInv'
  BY <1>15 DEF TaskExeLock, Lock, Goto
<1>16. ASSUME NEW t \in Tasks, TaskExeInsert(t) PROVE DeadInv'
  BY <1>16 DEF TaskExeInsert, Enqueue, Return, Goto
<1>17. ASSUME NEW t \in Tasks, TaskExeInvalid(t) PROVE DeadInv'
  BY <1>17 DEF TaskExeInvalid, GiveUp, Return, Unlock, Goto
<1>18. ASSUME NEW t \in Tasks, KernelPostLock(t) PROVE DeadInv'
  BY <1>18 DEF KernelPostLock, Lock, Goto
<1>19. ASSUME NEW t \in Tasks, KernelPostInsert(t) PROVE DeadInv'
  BY <1>19 DEF KernelPostInsert, Enqueue, GiveUp, Return, Unlock, Goto
<1>20. ASSUME NEW t \in Tasks, JobQueLock(t) PROVE DeadInv'
  BY <1>20 DEF JobQueLock, Lock, Goto
<1>21. ASSUME NEW t \in Tasks, JobQueInsert(t) PROVE DeadInv'
  BY <1>21 DEF JobQueInsert, Return, Unlock, Goto
<1>22. ASSUME NEW t \in Tasks, JobResScan(t) PROVE DeadInv'
  BY <1>22 DEF JobResScan, Goto, shared
<1>23. ASSUME NEW t \in Tasks, JobResScanLock(t) PROVE DeadInv'
  BY <1>23 DEF JobResScanLock, Lock, Goto
<1>24. ASSUME NEW t \in Tasks, JobResTake(t) PROVE DeadInv'
  BY <1>24 DEF JobResTake, Return, Unlock, Goto
<1>25. ASSUME NEW t \in Tasks, JobResNone(t) PROVE DeadInv'
  BY <1>25 DEF JobResNone, Return, Unlock, Goto
<1>26. ASSUME NEW t \in Tasks, TaskWaitEmpty(t) PROVE DeadInv'
  BY <1>26 DEF TaskWaitEmpty, Return, shared, Goto
<1>27. ASSUME NEW t \in Tasks, TaskWaitIdle(t) PROVE DeadInv'
  BY <1>27 DEF TaskWaitIdle, Goto, Return, shared
<1>28. ASSUME NEW t \in Tasks, TaskWaitBlock(t) PROVE DeadInv'
  BY <1>28 DEF TaskWaitBlock, Goto
<1>29. ASSUME NEW t \in Tasks, TaskWaitWake(t) PROVE DeadInv'
  BY <1>29 DEF TaskWaitWake, Goto, shared
<1>30. ASSUME NEW t \in Tasks, TaskExe(t) PROVE DeadInv'
  BY <1>30 DEF TaskExe, NewJob, Goto
<1>31. ASSUME NEW t \in Tasks, KernelPost(t) PROVE DeadInv'
  BY <1>31 DEF KernelPost, NewJob, Goto
<1>32. ASSUME NEW t \in Tasks, JobQue(t) PROVE DeadInv'
  BY <1>32 DEF JobQue, NewJob, Goto
<1>33. ASSUME NEW t \in Tasks, JobResScanAny(t) PROVE DeadInv'
  BY <1>33 DEF JobResScanAny, Goto, shared
<1>34. ASSUME NEW t \in Tasks, TaskWait(t) PROVE DeadInv'
  BY <1>34 DEF TaskWait, Goto, shared
<1>35. ASSUME NEW t \in Tasks, JobFault(t) PROVE DeadInv'
  BY <1>35 DEF JobFault, Goto, shared
<1> QED
  BY <1>0, <1>1, <1>2, <1>3, <1>4, <1>5, <1>6, <1>7, <1>8, <1>9, <1>10, <1>11, <1>12, <1>13,
     <1>14, <1>15, <1>16, <1>17, <1>18, <1>19, <1>20, <1>21, <1>22, <1>23, <1>24, <1>25, <1>26,
     <1>27, <1>28, <1>29, <1>30, <1>31, <1>32, <1>33, <1>34, <1>35
     DEF Next, Handle, Post, Collect, Wait, Call

\* If nobody uses JobQue, no job is ever left on the list of a task that ended.
THEOREM NoJobsOnDead ==
  ASSUME QueCodes = {}
  PROVE  Spec => []NoJobOnDead
<1>1. Init => Typed /\ DeadInv
  BY InitTyped DEF Init, DeadInv, NoJobQue, NoJobOnDead
<1>2. (Typed /\ DeadInv) /\ [Next]_vars => (Typed /\ DeadInv)'
  BY TypedStep, DeadStep
<1>3. DeadInv => NoJobOnDead
  BY DEF DeadInv
<1> QED
  BY <1>1, <1>2, <1>3, PTL DEF Spec

-----------------------------------------------------------------------------
(* Where the jobs are: none is lost, doubled or freed while it is used, for *)
(* any set of tasks and any workload.                                      *)

Elems(q) == {q[i] : i \in 1..Len(q)}
NoDup(q) == \A i, k \in 1..Len(q) : q[i] = q[k] => i = k

LEMMA EmptyElems == Elems(<<>>) = {} /\ NoDup(<<>>)
  BY DEF Elems, NoDup

LEMMA AppendElems ==
  ASSUME NEW q \in Seq(Jobs), NEW j \in Jobs
  PROVE  /\ Elems(Append(q, j)) = Elems(q) \cup {j}
         /\ NoDup(q) /\ j \notin Elems(q) => NoDup(Append(q, j))
  BY DEF Elems, NoDup

LEMMA TailElems ==
  ASSUME NEW q \in Seq(Jobs), q # <<>>, NoDup(q)
  PROVE  /\ Head(q) \in Elems(q) /\ Elems(Tail(q)) = Elems(q) \ {Head(q)}
         /\ NoDup(Tail(q))
<1>1. /\ Tail(q) \in Seq(Jobs) /\ Len(Tail(q)) = Len(q) - 1
      /\ Len(q) \in Nat \ {0} /\ Head(q) = q[1]
      /\ \A i \in 1..Len(q) - 1 : Tail(q)[i] = q[i + 1]
  OBVIOUS
<1>2. NoDup(Tail(q)) /\ Head(q) \in Elems(q)
  BY <1>1 DEF NoDup, Elems
<1>3. Elems(Tail(q)) \subseteq Elems(q) \ {Head(q)}
  BY <1>1 DEF NoDup, Elems
<1>4. ASSUME NEW k \in 1..Len(q), q[k] # Head(q) PROVE q[k] \in Elems(Tail(q))
  <2>1. k - 1 \in 1..Len(q) - 1 /\ Tail(q)[k - 1] = q[k]
    BY <1>1, <1>4
  <2> QED
    BY <1>1, <2>1 DEF Elems
<1> QED
  BY <1>2, <1>3, <1>4 DEF Elems

LEMMA RemoveElems ==
  ASSUME NEW q \in Seq(Jobs), NEW i \in 1..Len(q), NoDup(q)
  PROVE  Elems(QueRem(q, i)) = Elems(q) \ {q[i]} /\ NoDup(QueRem(q, i))
<1> DEFINE r == QueRem(q, i)
<1>1. /\ r \in Seq(Jobs) /\ Len(r) = Len(q) - 1 /\ Len(q) \in Nat \ {0}
      /\ \A k \in 1..Len(r) : r[k] = q[IF k < i THEN k ELSE k + 1]
  <2> DEFINE a == SubSeq(q, 1, i - 1)
             b == SubSeq(q, i + 1, Len(q))
  <2>1. a \in Seq(Jobs) /\ Len(a) = i - 1 /\ \A k \in 1..Len(a) : a[k] = q[k]
    OBVIOUS
  <2>2. b \in Seq(Jobs) /\ Len(b) = Len(q) - i /\ \A k \in 1..Len(b) : b[k] = q[k + i]
    OBVIOUS
  <2>3. r = a \o b
    BY DEF QueRem, RemoveAt
  <2> HIDE DEF a, b, r
  <2>4. r \in Seq(Jobs) /\ Len(r) = Len(q) - 1
    BY <2>1, <2>2, <2>3
  <2>5. ASSUME NEW k \in 1..Len(r) PROVE r[k] = q[IF k < i THEN k ELSE k + 1]
    <3>1. CASE k < i
      BY <2>1, <2>2, <2>3, <2>4, <3>1
    <3>2. CASE k >= i
      <4>1. k - (i - 1) \in 1..Len(b)
        BY <2>2, <2>4, <3>2
      <4>2. r[k] = b[k - (i - 1)]
        BY <2>1, <2>2, <2>3, <2>4, <3>2, <4>1
      <4> QED
        BY <2>2, <3>2, <4>1, <4>2
    <3> QED
      BY <3>1, <3>2
  <2> QED
    BY <2>4, <2>5
<1> HIDE DEF r
<1>2. NoDup(r)
  <2> SUFFICES ASSUME NEW m \in 1..Len(r), NEW n \in 1..Len(r), r[m] = r[n] PROVE m = n
    BY DEF NoDup
  <2> DEFINE From(k) == IF k < i THEN k ELSE k + 1
  <2>1. From(m) \in 1..Len(q) /\ From(n) \in 1..Len(q)
    BY <1>1
  <2>2. q[From(m)] = q[From(n)]
    BY <1>1
  <2>3. From(m) = From(n)
    <3> HIDE DEF From
    <3> QED
      BY <2>1, <2>2 DEF NoDup
  <2> QED
    BY <2>3
<1>3. Elems(r) \subseteq Elems(q) \ {q[i]}
  BY <1>1 DEF NoDup, Elems
<1>4. ASSUME NEW k \in 1..Len(q), k # i PROVE q[k] \in Elems(r)
  <2>1. CASE k < i
    BY <1>1, <2>1 DEF Elems
  <2>2. CASE k > i
    <3>1. k - 1 \in 1..Len(r) /\ r[k - 1] = q[k]
      BY <1>1, <2>2
    <3> QED
      BY <3>1 DEF Elems
  <2> QED
    BY <1>4, <2>1, <2>2
<1>5. Elems(q) \ {q[i]} \subseteq Elems(r)
  BY <1>4 DEF Elems
<1> QED
  BY <1>2, <1>3, <1>5 DEF r

-----------------------------------------------------------------------------
(* The places of jobs as sets: W and D are the jobs on the two lists of    *)
(* every task, H is the job in the hand of its thread, A what is allocated.*)

Sets == [Tasks -> SUBSET Jobs]
Hands == [Tasks -> Jobs \cup {None}]

Placed(W, D, H, A) ==
  /\ \A t, u \in Tasks, j \in Jobs :
       /\ j \in W[t] /\ j \in W[u] => t = u
       /\ j \in D[t] /\ j \in D[u] => t = u
       /\ H[t] = j /\ H[u] = j => t = u
       /\ ~(j \in W[t] /\ j \in D[u]) /\ ~(j \in W[t] /\ j = H[u]) /\ ~(j \in D[t] /\ j = H[u])
  /\ \A j \in Jobs : j \in A <=> \E t \in Tasks : j \in W[t] \/ j \in D[t] \/ j = H[t]

LEMMA PostedPlaced ==
  ASSUME NEW W \in Sets, NEW D \in Sets, NEW H \in Hands, NEW A, Placed(W, D, H, A),
         NEW t \in Tasks, H[t] = None, NEW j \in Jobs \ A
  PROVE  Placed(W, D, [H EXCEPT ![t] = j], A \cup {j})
  BY JobCtlAssumption DEF Sets, Hands, Placed

LEMMA QueuedPlaced ==
  ASSUME NEW W \in Sets, NEW D \in Sets, NEW H \in Hands, NEW A, Placed(W, D, H, A),
         NEW t \in Tasks, NEW s \in Tasks, H[t] \in Jobs
  PROVE  Placed([W EXCEPT ![s] = @ \cup {H[t]}], D, [H EXCEPT ![t] = None], A)
  BY JobCtlAssumption DEF Sets, Hands, Placed

LEMMA AnsweredPlaced ==
  ASSUME NEW W \in Sets, NEW D \in Sets, NEW H \in Hands, NEW A, Placed(W, D, H, A),
         NEW t \in Tasks, NEW s \in Tasks, H[t] \in Jobs
  PROVE  Placed(W, [D EXCEPT ![s] = @ \cup {H[t]}], [H EXCEPT ![t] = None], A)
  BY JobCtlAssumption DEF Sets, Hands, Placed

LEMMA FreedPlaced ==
  ASSUME NEW W \in Sets, NEW D \in Sets, NEW H \in Hands, NEW A, Placed(W, D, H, A),
         NEW t \in Tasks, H[t] \in Jobs
  PROVE  Placed(W, D, [H EXCEPT ![t] = None], A \ {H[t]})
  BY JobCtlAssumption DEF Sets, Hands, Placed

LEMMA TakenPlaced ==
  ASSUME NEW W \in Sets, NEW D \in Sets, NEW H \in Hands, NEW A, Placed(W, D, H, A),
         NEW t \in Tasks, H[t] = None, NEW j \in W[t]
  PROVE  Placed([W EXCEPT ![t] = @ \ {j}], D, [H EXCEPT ![t] = j], A)
  BY JobCtlAssumption DEF Sets, Hands, Placed

LEMMA CollectedPlaced ==
  ASSUME NEW W \in Sets, NEW D \in Sets, NEW H \in Hands, NEW A, Placed(W, D, H, A),
         NEW s \in Tasks, NEW j \in D[s]
  PROVE  Placed(W, [D EXCEPT ![s] = @ \ {j}], H, A \ {j})
  BY JobCtlAssumption DEF Sets, Hands, Placed

LEMMA EndedPlaced ==
  ASSUME NEW W \in Sets, NEW D \in Sets, NEW H \in Hands, NEW A, Placed(W, D, H, A),
         NEW t \in Tasks
  PROVE  Placed([W EXCEPT ![t] = {}], [D EXCEPT ![t] = {}], H, A \ (W[t] \cup D[t]))
  BY JobCtlAssumption DEF Sets, Hands, Placed
-----------------------------------------------------------------------------
(* The places in a state.                                                  *)

WaitSets == [t \in Tasks |-> Elems(waiting[t])]
DoneSets == [t \in Tasks |-> Elems(done[t])]
InHands == [t \in Tasks |-> IF InHand(t) THEN tmpc[t] ELSE None]

PlaceInv ==
  /\ \A t \in Tasks : NoDup(waiting[t]) /\ NoDup(done[t])
  /\ Placed(WaitSets, DoneSets, InHands, alive)

\* A job is answered only if it is not to be freed; a thread that has faulted keeps its job.
Answering ==
  \A t \in Tasks :
    /\ pc[t] \in {"jh_reply", "jh_done", "jh_flag"} => "FREE_ON_COMPLETE" \notin saved[t].flags
    /\ pc[t] = "faulted" => tmpc[t] \in Jobs

LEMMA SetTypes ==
  ASSUME Typed PROVE WaitSets \in Sets /\ DoneSets \in Sets /\ InHands \in Hands
<1>1. \A t \in Tasks : Elems(waiting[t]) \subseteq Jobs /\ Elems(done[t]) \subseteq Jobs
  BY DEF Typed, TypeOK, Elems
<1>2. tmpc \in [Tasks -> Jobs \cup {None}]
  BY DEF Typed, TypeOK
<1> QED
  BY <1>1, <1>2 DEF WaitSets, DoneSets, InHands, Sets, Hands

Step(t) == Handle(t) \/ Post(t) \/ Collect(t) \/ Wait(t) \/ Call(t) \/ JobFault(t)

Local(t) ==
  \A u \in Tasks \ {t} : /\ pc'[u] = pc[u] /\ tmpc'[u] = tmpc[u] /\ saved'[u] = saved[u]
                         /\ req'[u] = req[u] /\ ctrl'[u] = ctrl[u]

\* A step of a thread changes no local of another.
LEMMA StepIsLocal ==
  ASSUME Typed, NEW t \in Tasks, Step(t) PROVE Local(t)
<1> USE DEF Typed, TypeOK, Local
<1>1. CASE JobsHndlr(t)
  BY <1>1 DEF JobsHndlr, Goto, shared
<1>2. CASE JobsHndlrLock(t)
  BY <1>2 DEF JobsHndlrLock, Lock, Goto
<1>3. CASE JobsHndlrDone(t)
  BY <1>3 DEF JobsHndlrDone, Goto, Unlock
<1>4. CASE JobRunOne(t)
  BY <1>4 DEF JobRunOne, Goto, Unlock
<1>5. CASE JobCall(t)
  BY <1>5 DEF JobCall, Goto
<1>6. CASE JobBody(t)
  BY <1>6 DEF JobBody, shared
<1>7. CASE JobReplyLock(t)
  BY <1>7 DEF JobReplyLock, Lock, Goto
<1>8. CASE JobReplyInsert(t)
  BY <1>8 DEF JobReplyInsert, Goto
<1>9. CASE JobReplyDone(t)
  BY <1>9 DEF JobReplyDone, Goto, Unlock
<1>10. CASE JobMaster(t)
  BY <1>10 DEF JobMaster
<1>11. CASE JobsHndlrSignal(t)
  BY <1>11 DEF JobsHndlrSignal, Goto
<1>12. CASE SrvTaskIdle(t)
  BY <1>12 DEF SrvTaskIdle, Return, Goto
<1>13. CASE TaskEndLock(t)
  BY <1>13 DEF TaskEndLock, Lock, Goto
<1>14. CASE TaskEnd(t)
  BY <1>14 DEF TaskEnd, Goto, Unlock
<1>15. CASE TaskExeLock(t)
  BY <1>15 DEF TaskExeLock, Lock, Goto
<1>16. CASE TaskExeInsert(t)
  BY <1>16 DEF TaskExeInsert, Return, Goto, Enqueue, Keep
<1>17. CASE TaskExeInvalid(t)
  BY <1>17 DEF TaskExeInvalid, Return, Goto, GiveUp
<1>18. CASE KernelPostLock(t)
  BY <1>18 DEF KernelPostLock, Lock, Goto
<1>19. CASE KernelPostInsert(t)
  BY <1>19 DEF KernelPostInsert, Return, Goto, Enqueue, GiveUp, Keep
<1>20. CASE JobQueLock(t)
  BY <1>20 DEF JobQueLock, Lock, Goto
<1>21. CASE JobQueInsert(t)
  BY <1>21 DEF JobQueInsert, Return, Goto, Keep
<1>22. CASE JobResScan(t)
  BY <1>22 DEF JobResScan, Goto, shared
<1>23. CASE JobResScanLock(t)
  BY <1>23 DEF JobResScanLock, Lock, Goto
<1>24. CASE JobResTake(t)
  BY <1>24 DEF JobResTake, Return, Goto
<1>25. CASE JobResNone(t)
  BY <1>25 DEF JobResNone, Return, Goto
<1>26. CASE TaskWaitEmpty(t)
  BY <1>26 DEF TaskWaitEmpty, Return, Goto, shared
<1>27. CASE TaskWaitIdle(t)
  BY <1>27 DEF TaskWaitIdle, Return, Goto, shared
<1>28. CASE TaskWaitBlock(t)
  BY <1>28 DEF TaskWaitBlock, Goto
<1>29. CASE TaskWaitWake(t)
  BY <1>29 DEF TaskWaitWake, Goto, shared
<1>30. CASE TaskExe(t)
  BY <1>30 DEF TaskExe, NewJob, Goto
<1>31. CASE KernelPost(t)
  BY <1>31 DEF KernelPost, NewJob, Goto
<1>32. CASE JobQue(t)
  BY <1>32 DEF JobQue, NewJob, Goto
<1>33. CASE JobResScanAny(t)
  BY <1>33 DEF JobResScanAny, Goto, shared
<1>34. CASE TaskWait(t)
  BY <1>34 DEF TaskWait, Goto, shared
<1>35. CASE JobFault(t)
  BY <1>35 DEF JobFault, Goto, shared
<1> QED
  BY <1>1, <1>2, <1>3, <1>4, <1>5, <1>6, <1>7, <1>8, <1>9, <1>10, <1>11, <1>12, <1>13, <1>14,
     <1>15, <1>16, <1>17, <1>18, <1>19, <1>20, <1>21, <1>22, <1>23, <1>24, <1>25, <1>26, <1>27,
     <1>28, <1>29, <1>30, <1>31, <1>32, <1>33, <1>34, <1>35 DEF Step, Handle, Post, Collect, Wait,
     Call

LEMMA AnsweringStep ==
  ASSUME Typed, Answering, NEW t \in Tasks, Step(t) PROVE Answering'
<1> USE DEF Typed, TypeOK, Answering
<1>1. CASE JobsHndlr(t)
  BY <1>1 DEF JobsHndlr, Goto, shared
<1>2. CASE JobsHndlrLock(t)
  BY <1>2 DEF JobsHndlrLock, Lock, Goto
<1>3. CASE JobsHndlrDone(t)
  BY <1>3 DEF JobsHndlrDone, Goto, Unlock
<1>4. CASE JobRunOne(t)
  BY <1>4 DEF JobRunOne, Goto, Unlock
<1>5. CASE JobCall(t)
  BY <1>5 DEF JobCall, Goto
<1>6. CASE JobBody(t)
  BY <1>6 DEF JobBody, shared
<1>7. CASE JobReplyLock(t)
  BY <1>7 DEF JobReplyLock, Lock, Goto
<1>8. CASE JobReplyInsert(t)
  BY <1>8 DEF JobReplyInsert, Goto
<1>9. CASE JobReplyDone(t)
  BY <1>9 DEF JobReplyDone, Goto, Unlock
<1>10. CASE JobMaster(t)
  BY <1>10 DEF JobMaster
<1>11. CASE JobsHndlrSignal(t)
  BY <1>11 DEF JobsHndlrSignal, Goto
<1>12. CASE SrvTaskIdle(t)
  BY <1>12 DEF SrvTaskIdle, Return, Goto
<1>13. CASE TaskEndLock(t)
  BY <1>13 DEF TaskEndLock, Lock, Goto
<1>14. CASE TaskEnd(t)
  BY <1>14 DEF TaskEnd, Goto, Unlock
<1>15. CASE TaskExeLock(t)
  BY <1>15 DEF TaskExeLock, Lock, Goto
<1>16. CASE TaskExeInsert(t)
  BY <1>16 DEF TaskExeInsert, Return, Goto, Enqueue
<1>17. CASE TaskExeInvalid(t)
  BY <1>17 DEF TaskExeInvalid, Return, Goto, GiveUp
<1>18. CASE KernelPostLock(t)
  BY <1>18 DEF KernelPostLock, Lock, Goto
<1>19. CASE KernelPostInsert(t)
  BY <1>19 DEF KernelPostInsert, Return, Goto, Enqueue, GiveUp
<1>20. CASE JobQueLock(t)
  BY <1>20 DEF JobQueLock, Lock, Goto
<1>21. CASE JobQueInsert(t)
  BY <1>21 DEF JobQueInsert, Return, Goto
<1>22. CASE JobResScan(t)
  BY <1>22 DEF JobResScan, Goto, shared
<1>23. CASE JobResScanLock(t)
  BY <1>23 DEF JobResScanLock, Lock, Goto
<1>24. CASE JobResTake(t)
  BY <1>24 DEF JobResTake, Return, Goto
<1>25. CASE JobResNone(t)
  BY <1>25 DEF JobResNone, Return, Goto
<1>26. CASE TaskWaitEmpty(t)
  BY <1>26 DEF TaskWaitEmpty, Return, Goto, shared
<1>27. CASE TaskWaitIdle(t)
  BY <1>27 DEF TaskWaitIdle, Return, Goto, shared
<1>28. CASE TaskWaitBlock(t)
  BY <1>28 DEF TaskWaitBlock, Goto
<1>29. CASE TaskWaitWake(t)
  BY <1>29 DEF TaskWaitWake, Goto, shared
<1>30. CASE TaskExe(t)
  BY <1>30 DEF TaskExe, NewJob, Goto
<1>31. CASE KernelPost(t)
  BY <1>31 DEF KernelPost, NewJob, Goto
<1>32. CASE JobQue(t)
  BY <1>32 DEF JobQue, NewJob, Goto
<1>33. CASE JobResScanAny(t)
  BY <1>33 DEF JobResScanAny, Goto, shared
<1>34. CASE TaskWait(t)
  BY <1>34 DEF TaskWait, Goto, shared
<1>35. CASE JobFault(t)
  BY <1>35 DEF JobFault, Goto, shared, HasJob, Holding
<1> QED
  BY <1>1, <1>2, <1>3, <1>4, <1>5, <1>6, <1>7, <1>8, <1>9, <1>10, <1>11, <1>12, <1>13, <1>14,
     <1>15, <1>16, <1>17, <1>18, <1>19, <1>20, <1>21, <1>22, <1>23, <1>24, <1>25, <1>26, <1>27,
     <1>28, <1>29, <1>30, <1>31, <1>32, <1>33, <1>34, <1>35 DEF Step, Handle, Post, Collect, Wait,
     Call

LEMMA HandsAfter ==
  ASSUME Typed, NEW t \in Tasks, Local(t)
  PROVE  InHands' = [InHands EXCEPT ![t] = IF InHand(t)' THEN tmpc'[t] ELSE None]
<1>1. \A u \in Tasks \ {t} : (InHand(u)' <=> InHand(u)) /\ tmpc'[u] = tmpc[u]
  BY DEF Local, InHand
<1> QED
  BY <1>1 DEF InHands

\* The thread has the same job in hand, or none, and the lists are as they were.
LEMMA SamePlaces ==
  ASSUME Typed, PlaceInv, NEW t \in Tasks, Local(t), UNCHANGED <<waiting, done, alive>>,
         InHand(t)' <=> InHand(t), InHand(t) => tmpc'[t] = tmpc[t]
  PROVE  PlaceInv'
<1>1. InHands' = InHands
  BY HandsAfter DEF InHands
<1>2. WaitSets' = WaitSets /\ DoneSets' = DoneSets
  BY DEF WaitSets, DoneSets
<1> QED
  BY <1>1, <1>2 DEF PlaceInv

LEMMA AppendWaiting ==
  ASSUME Typed, NEW s \in Tasks, NEW j \in Jobs, NoDup(waiting[s]), j \notin Elems(waiting[s]),
         \A u \in Tasks : NoDup(waiting[u]),
         waiting' = [waiting EXCEPT ![s] = Append(@, j)]
  PROVE  /\ WaitSets' = [WaitSets EXCEPT ![s] = @ \cup {j}]
         /\ \A u \in Tasks : NoDup(waiting'[u])
<1>1. waiting \in [Tasks -> Seq(Jobs)]
  BY DEF Typed, TypeOK
<1>2. waiting'[s] = Append(waiting[s], j) /\ \A u \in Tasks \ {s} : waiting'[u] = waiting[u]
  BY <1>1
<1>3. Elems(waiting'[s]) = Elems(waiting[s]) \cup {j} /\ NoDup(waiting'[s])
  BY <1>1, <1>2, AppendElems
<1>4. \A u \in Tasks :
        Elems(waiting'[u]) = IF u = s THEN Elems(waiting[s]) \cup {j} ELSE Elems(waiting[u])
  <2> TAKE u \in Tasks
  <2>1. CASE u = s
    BY <1>2, <1>3, <2>1
  <2>2. CASE u # s
    BY <1>2, <1>3, <2>2
  <2> QED
    BY <2>1, <2>2
<1>5. WaitSets' = [WaitSets EXCEPT ![s] = @ \cup {j}]
  BY <1>4 DEF WaitSets
<1>6. \A u \in Tasks : NoDup(waiting'[u])
  BY <1>2, <1>3
<1> QED
  BY <1>5, <1>6

LEMMA AppendDone ==
  ASSUME Typed, NEW s \in Tasks, NEW j \in Jobs, NoDup(done[s]), j \notin Elems(done[s]),
         \A u \in Tasks : NoDup(done[u]),
         done' = [done EXCEPT ![s] = Append(@, j)]
  PROVE  /\ DoneSets' = [DoneSets EXCEPT ![s] = @ \cup {j}]
         /\ \A u \in Tasks : NoDup(done'[u])
<1>1. done \in [Tasks -> Seq(Jobs)]
  BY DEF Typed, TypeOK
<1>2. done'[s] = Append(done[s], j) /\ \A u \in Tasks \ {s} : done'[u] = done[u]
  BY <1>1
<1>3. Elems(done'[s]) = Elems(done[s]) \cup {j} /\ NoDup(done'[s])
  BY <1>1, <1>2, AppendElems
<1>4. \A u \in Tasks :
        Elems(done'[u]) = IF u = s THEN Elems(done[s]) \cup {j} ELSE Elems(done[u])
  <2> TAKE u \in Tasks
  <2>1. CASE u = s
    BY <1>2, <1>3, <2>1
  <2>2. CASE u # s
    BY <1>2, <1>3, <2>2
  <2> QED
    BY <2>1, <2>2
<1>5. DoneSets' = [DoneSets EXCEPT ![s] = @ \cup {j}]
  BY <1>4 DEF DoneSets
<1>6. \A u \in Tasks : NoDup(done'[u])
  BY <1>2, <1>3
<1> QED
  BY <1>5, <1>6

\* A new job, in the hand of the thread that has allocated it.
LEMMA PostStep ==
  ASSUME Typed, PlaceInv, NEW t \in Tasks, Local(t), ~InHand(t), InHand(t)',
         UNCHANGED <<waiting, done>>,
         \E j \in Jobs \ alive : alive' = alive \cup {j} /\ tmpc'[t] = j
  PROVE  PlaceInv'
<1>1. PICK j \in Jobs \ alive : alive' = alive \cup {j} /\ tmpc'[t] = j
  OBVIOUS
<1>2. InHands' = [InHands EXCEPT ![t] = j] /\ InHands[t] = None
  BY <1>1, HandsAfter DEF InHands
<1>3. WaitSets' = WaitSets /\ DoneSets' = DoneSets
  BY DEF WaitSets, DoneSets
<1> QED
  BY <1>1, <1>2, <1>3, SetTypes, PostedPlaced DEF PlaceInv

\* The job in hand goes to the end of a list of waiting jobs.
LEMMA QueueStep ==
  ASSUME Typed, PlaceInv, NEW t \in Tasks, Local(t), InHand(t), ~InHand(t)', tmpc[t] \in Jobs,
         UNCHANGED <<done, alive>>, NEW s \in Tasks,
         waiting' = [waiting EXCEPT ![s] = Append(@, tmpc[t])]
  PROVE  PlaceInv'
<1>1. InHands' = [InHands EXCEPT ![t] = None] /\ InHands[t] = tmpc[t]
  BY HandsAfter DEF InHands
<1>2. tmpc[t] \notin Elems(waiting[s])
  BY <1>1 DEF PlaceInv, Placed, WaitSets
<1>3. /\ WaitSets' = [WaitSets EXCEPT ![s] = @ \cup {tmpc[t]}]
      /\ \A u \in Tasks : NoDup(waiting'[u])
  BY <1>2, AppendWaiting DEF PlaceInv
<1>4. DoneSets' = DoneSets
  BY DEF DoneSets
<1> QED
  BY <1>1, <1>3, <1>4, SetTypes, QueuedPlaced DEF PlaceInv

\* The job in hand goes to a list of done jobs.
LEMMA AnswerStep ==
  ASSUME Typed, PlaceInv, NEW t \in Tasks, Local(t), InHand(t), ~InHand(t)', tmpc[t] \in Jobs,
         UNCHANGED <<waiting, alive>>, NEW s \in Tasks,
         done' = [done EXCEPT ![s] = Append(@, tmpc[t])]
  PROVE  PlaceInv'
<1>1. InHands' = [InHands EXCEPT ![t] = None] /\ InHands[t] = tmpc[t]
  BY HandsAfter DEF InHands
<1>2. tmpc[t] \notin Elems(done[s])
  BY <1>1 DEF PlaceInv, Placed, DoneSets
<1>3. /\ DoneSets' = [DoneSets EXCEPT ![s] = @ \cup {tmpc[t]}]
      /\ \A u \in Tasks : NoDup(done'[u])
  BY <1>2, AppendDone DEF PlaceInv
<1>4. WaitSets' = WaitSets
  BY DEF WaitSets
<1> QED
  BY <1>1, <1>3, <1>4, SetTypes, AnsweredPlaced DEF PlaceInv

\* The job in hand is freed.
LEMMA FreeStep ==
  ASSUME Typed, PlaceInv, NEW t \in Tasks, Local(t), InHand(t), ~InHand(t)', tmpc[t] \in Jobs,
         UNCHANGED <<waiting, done>>, alive' = alive \ {tmpc[t]}
  PROVE  PlaceInv'
<1>1. InHands' = [InHands EXCEPT ![t] = None] /\ InHands[t] = tmpc[t]
  BY HandsAfter DEF InHands
<1>2. WaitSets' = WaitSets /\ DoneSets' = DoneSets
  BY DEF WaitSets, DoneSets
<1> QED
  BY <1>1, <1>2, SetTypes, FreedPlaced DEF PlaceInv

\* The first waiting job is taken in hand.
LEMMA TakeStep ==
  ASSUME Typed, PlaceInv, NEW t \in Tasks, Local(t), ~InHand(t), InHand(t)', waiting[t] # <<>>,
         UNCHANGED <<done, alive>>, tmpc'[t] = Head(waiting[t]),
         waiting' = [waiting EXCEPT ![t] = Tail(@)]
  PROVE  PlaceInv'
<1> DEFINE j == Head(waiting[t])
<1>1. waiting \in [Tasks -> Seq(Jobs)]
  BY DEF Typed, TypeOK
<1>2. NoDup(waiting[t])
  BY DEF PlaceInv
<1>3. /\ j \in Elems(waiting[t]) /\ Elems(Tail(waiting[t])) = Elems(waiting[t]) \ {j}
      /\ NoDup(Tail(waiting[t]))
  BY <1>1, <1>2, TailElems
<1>4. waiting'[t] = Tail(waiting[t]) /\ \A u \in Tasks \ {t} : waiting'[u] = waiting[u]
  BY <1>1
<1> HIDE DEF j
<1>5. WaitSets' = [WaitSets EXCEPT ![t] = @ \ {j}] /\ j \in WaitSets[t]
  <2>1. \A u \in Tasks :
          Elems(waiting'[u]) = IF u = t THEN Elems(waiting[t]) \ {j} ELSE Elems(waiting[u])
    <3> TAKE u \in Tasks
    <3>1. CASE u = t
      BY <1>3, <1>4, <3>1
    <3>2. CASE u # t
      BY <1>3, <1>4, <3>2
    <3> QED
      BY <3>1, <3>2
  <2> QED
    BY <1>3, <2>1 DEF WaitSets
<1>6. \A u \in Tasks : NoDup(waiting'[u])
  BY <1>3, <1>4 DEF PlaceInv
<1>7. InHands' = [InHands EXCEPT ![t] = j] /\ InHands[t] = None
  BY HandsAfter DEF InHands, j
<1>8. DoneSets' = DoneSets
  BY DEF DoneSets
<1>9. Placed(WaitSets', DoneSets', InHands', alive')
  BY <1>5, <1>7, <1>8, SetTypes, TakenPlaced DEF PlaceInv
<1> QED
  BY <1>6, <1>9 DEF PlaceInv

\* A done job is collected and freed.
LEMMA CollectStep ==
  ASSUME Typed, PlaceInv, NEW t \in Tasks, Local(t), ~InHand(t), ~InHand(t)',
         UNCHANGED waiting, NEW s \in Tasks, NEW i \in 1..Len(done[s]),
         done' = [done EXCEPT ![s] = QueRem(@, i)], alive' = alive \ {done[s][i]}
  PROVE  PlaceInv'
<1> DEFINE j == done[s][i]
<1>1. done \in [Tasks -> Seq(Jobs)]
  BY DEF Typed, TypeOK
<1>2. NoDup(done[s])
  BY DEF PlaceInv
<1>3. Elems(QueRem(done[s], i)) = Elems(done[s]) \ {j} /\ NoDup(QueRem(done[s], i))
  BY <1>1, <1>2, RemoveElems
<1>4. done'[s] = QueRem(done[s], i) /\ \A u \in Tasks \ {s} : done'[u] = done[u]
  BY <1>1
<1>5. j \in Elems(done[s])
  BY DEF Elems
<1>6. alive' = alive \ {j}
  OBVIOUS
<1> HIDE DEF j
<1>7. DoneSets' = [DoneSets EXCEPT ![s] = @ \ {j}] /\ j \in DoneSets[s]
  <2>1. \A u \in Tasks :
          Elems(done'[u]) = IF u = s THEN Elems(done[s]) \ {j} ELSE Elems(done[u])
    <3> TAKE u \in Tasks
    <3>1. CASE u = s
      BY <1>3, <1>4, <3>1
    <3>2. CASE u # s
      BY <1>3, <1>4, <3>2
    <3> QED
      BY <3>1, <3>2
  <2> QED
    BY <1>5, <2>1 DEF DoneSets
<1>8. \A u \in Tasks : NoDup(done'[u])
  BY <1>3, <1>4 DEF PlaceInv
<1>9. InHands' = InHands
  BY HandsAfter DEF InHands
<1>10. WaitSets' = WaitSets
  BY DEF WaitSets
<1>11. Placed(WaitSets', DoneSets', InHands', alive')
  <2>1. Placed(WaitSets, [DoneSets EXCEPT ![s] = @ \ {j}], InHands, alive \ {j})
    BY <1>7, SetTypes, CollectedPlaced DEF PlaceInv
  <2> QED
    BY <1>6, <1>7, <1>9, <1>10, <2>1
<1> QED
  BY <1>8, <1>11 DEF PlaceInv

\* A task ends, and with it all jobs on its lists.
LEMMA EndStep ==
  ASSUME Typed, PlaceInv, NEW t \in Tasks, Local(t), ~InHand(t), ~InHand(t)',
         waiting' = [waiting EXCEPT ![t] = <<>>], done' = [done EXCEPT ![t] = <<>>],
         alive' = alive \ (Elems(waiting[t]) \cup Elems(done[t]))
  PROVE  PlaceInv'
<1>1. /\ waiting'[t] = <<>> /\ \A u \in Tasks \ {t} : waiting'[u] = waiting[u]
      /\ done'[t] = <<>> /\ \A u \in Tasks \ {t} : done'[u] = done[u]
  BY DEF Typed, TypeOK
<1>2. WaitSets' = [WaitSets EXCEPT ![t] = {}] /\ DoneSets' = [DoneSets EXCEPT ![t] = {}]
  <2>1. \A u \in Tasks :
          /\ Elems(waiting'[u]) = IF u = t THEN {} ELSE Elems(waiting[u])
          /\ Elems(done'[u]) = IF u = t THEN {} ELSE Elems(done[u])
    <3> TAKE u \in Tasks
    <3>1. CASE u = t
      BY <1>1, EmptyElems, <3>1
    <3>2. CASE u # t
      BY <1>1, EmptyElems, <3>2
    <3> QED
      BY <3>1, <3>2
  <2>2. WaitSets' = [WaitSets EXCEPT ![t] = {}]
    BY <2>1 DEF WaitSets
  <2>3. DoneSets' = [DoneSets EXCEPT ![t] = {}]
    BY <2>1 DEF DoneSets
  <2> QED
    BY <2>2, <2>3
<1>3. \A u \in Tasks : NoDup(waiting'[u]) /\ NoDup(done'[u])
  BY <1>1, EmptyElems DEF PlaceInv
<1>4. InHands' = InHands
  BY HandsAfter DEF InHands
<1>5. alive' = alive \ (WaitSets[t] \cup DoneSets[t])
  BY DEF WaitSets, DoneSets
<1>6. Placed(WaitSets', DoneSets', InHands', alive')
  <2>1. Placed([WaitSets EXCEPT ![t] = {}], [DoneSets EXCEPT ![t] = {}], InHands,
               alive \ (WaitSets[t] \cup DoneSets[t]))
    BY SetTypes, EndedPlaced DEF PlaceInv
  <2> QED
    BY <1>2, <1>4, <1>5, <2>1
<1> QED
  BY <1>3, <1>6 DEF PlaceInv

\* Every step moves one job at most, and from one place to one place.
LEMMA PlaceStep ==
  ASSUME Typed, Answering, PlaceInv, NEW t \in Tasks, Step(t) PROVE PlaceInv'
<1>a. Local(t)
  BY StepIsLocal
<1>b. /\ pc \in [Tasks -> PCs] /\ ctrl \in [Tasks -> Tasks]
      /\ tmpc \in [Tasks -> Jobs \cup {None}] /\ HasJob
  BY DEF Typed, TypeOK
<1> USE <1>a, <1>b
<1>1. CASE JobsHndlr(t)
  <2>1. /\ UNCHANGED <<waiting, done, alive>>
        /\ (InHand(t)' <=> InHand(t)) /\ (InHand(t) => tmpc'[t] = tmpc[t])
    BY <1>1 DEF JobsHndlr, Goto, shared, InHand
  <2> QED
    BY <2>1, SamePlaces
<1>2. CASE JobsHndlrLock(t)
  <2>1. /\ UNCHANGED <<waiting, done, alive>>
        /\ (InHand(t)' <=> InHand(t)) /\ (InHand(t) => tmpc'[t] = tmpc[t])
    BY <1>2 DEF JobsHndlrLock, Lock, Goto, InHand
  <2> QED
    BY <2>1, SamePlaces
<1>3. CASE JobsHndlrDone(t)
  <2>1. /\ UNCHANGED <<waiting, done, alive>>
        /\ (InHand(t)' <=> InHand(t)) /\ (InHand(t) => tmpc'[t] = tmpc[t])
    BY <1>3 DEF JobsHndlrDone, Goto, Unlock, InHand
  <2> QED
    BY <2>1, SamePlaces
<1>4. CASE JobRunOne(t)
  <2>1. /\ ~InHand(t) /\ InHand(t)' /\ waiting[t] # <<>> /\ UNCHANGED <<done, alive>>
        /\ tmpc'[t] = Head(waiting[t]) /\ waiting' = [waiting EXCEPT ![t] = Tail(@)]
    BY <1>4 DEF JobRunOne, Goto, InHand
  <2> QED
    BY <2>1, TakeStep
<1>5. CASE JobCall(t)
  <2>1. /\ UNCHANGED <<waiting, done, alive>>
        /\ (InHand(t)' <=> InHand(t)) /\ (InHand(t) => tmpc'[t] = tmpc[t])
    BY <1>5 DEF JobCall, Goto, InHand
  <2> QED
    BY <2>1, SamePlaces
<1>6. CASE JobBody(t)
  <2>1. /\ UNCHANGED <<waiting, done, alive>>
        /\ (InHand(t)' <=> InHand(t)) /\ (InHand(t) => tmpc'[t] = tmpc[t])
    BY <1>6 DEF JobBody, shared, InHand
  <2> QED
    BY <2>1, SamePlaces
<1>7. CASE JobReplyLock(t)
  <2>1. /\ UNCHANGED <<waiting, done, alive>>
        /\ (InHand(t)' <=> InHand(t)) /\ (InHand(t) => tmpc'[t] = tmpc[t])
    BY <1>7 DEF JobReplyLock, Lock, Goto, InHand
  <2> QED
    BY <2>1, SamePlaces
<1>8. CASE JobReplyInsert(t)
  <2>1. /\ InHand(t) /\ ~InHand(t)' /\ tmpc[t] \in Jobs /\ ctrl[t] \in Tasks
        /\ UNCHANGED <<waiting, alive>> /\ done' = [done EXCEPT ![ctrl[t]] = Append(@, tmpc[t])]
    BY <1>8 DEF JobReplyInsert, Goto, InHand, HasJob, Holding
  <2> QED
    BY <2>1, AnswerStep
<1>9. CASE JobReplyDone(t)
  <2>1. ~InHand(t) /\ ~InHand(t)' /\ UNCHANGED <<waiting, done, alive>>
    BY <1>9 DEF JobReplyDone, Goto, InHand, Answering
  <2> QED
    BY <2>1, SamePlaces
<1>10. CASE JobMaster(t)
  <2>1. tmpc[t] \in Jobs /\ ~InHand(t)' /\ UNCHANGED <<waiting, done>>
    BY <1>10 DEF JobMaster, InHand, HasJob, Holding
  <2>2. CASE "FREE_ON_COMPLETE" \in saved[t].flags
    BY <1>10, <2>1, <2>2, FreeStep DEF JobMaster, JobDel, InHand
  <2>3. CASE "FREE_ON_COMPLETE" \notin saved[t].flags
    BY <1>10, <2>1, <2>3, SamePlaces DEF JobMaster, InHand
  <2> QED
    BY <2>2, <2>3
<1>11. CASE JobsHndlrSignal(t)
  <2>1. /\ UNCHANGED <<waiting, done, alive>>
        /\ (InHand(t)' <=> InHand(t)) /\ (InHand(t) => tmpc'[t] = tmpc[t])
    BY <1>11 DEF JobsHndlrSignal, Goto, InHand
  <2> QED
    BY <2>1, SamePlaces
<1>12. CASE SrvTaskIdle(t)
  <2>1. /\ UNCHANGED <<waiting, done, alive>>
        /\ (InHand(t)' <=> InHand(t)) /\ (InHand(t) => tmpc'[t] = tmpc[t])
    BY <1>12 DEF SrvTaskIdle, Return, Goto, InHand
  <2> QED
    BY <2>1, SamePlaces
<1>13. CASE TaskEndLock(t)
  <2>1. /\ UNCHANGED <<waiting, done, alive>>
        /\ (InHand(t)' <=> InHand(t)) /\ (InHand(t) => tmpc'[t] = tmpc[t])
    BY <1>13 DEF TaskEndLock, Lock, Goto, InHand
  <2> QED
    BY <2>1, SamePlaces
<1>14. CASE TaskEnd(t)
  <2>1. /\ ~InHand(t) /\ ~InHand(t)'
        /\ waiting' = [waiting EXCEPT ![t] = <<>>] /\ done' = [done EXCEPT ![t] = <<>>]
    BY <1>14 DEF TaskEnd, Goto, InHand
  <2>2. alive' = alive \ (Elems(waiting[t]) \cup Elems(done[t]))
    <3> DEFINE gone == {j \in Jobs : Contains(waiting[t], j) \/ Contains(done[t], j)}
    <3>1. waiting[t] \in Seq(Jobs) /\ done[t] \in Seq(Jobs)
      BY DEF Typed, TypeOK
    <3>2. gone = Elems(waiting[t]) \cup Elems(done[t])
      BY <3>1 DEF Contains, Elems
    <3> QED
      BY <1>14, <3>2 DEF TaskEnd
  <2> QED
    BY <2>1, <2>2, EndStep
<1>15. CASE TaskExeLock(t)
  <2>1. /\ UNCHANGED <<waiting, done, alive>>
        /\ (InHand(t)' <=> InHand(t)) /\ (InHand(t) => tmpc'[t] = tmpc[t])
    BY <1>15 DEF TaskExeLock, Lock, Goto, InHand
  <2> QED
    BY <2>1, SamePlaces
<1>16. CASE TaskExeInsert(t)
  <2>1. /\ InHand(t) /\ ~InHand(t)' /\ UNCHANGED <<done, alive>> /\ ctrl[t] \in Tasks
        /\ tmpc[t] \in Jobs /\ waiting' = [waiting EXCEPT ![ctrl[t]] = Append(@, tmpc[t])]
    BY <1>16 DEF TaskExeInsert, Return, Goto, Enqueue, InHand, HasJob, Holding
  <2> QED
    BY <2>1, QueueStep
<1>17. CASE TaskExeInvalid(t)
  <2>1. /\ InHand(t) /\ ~InHand(t)' /\ tmpc[t] \in Jobs
        /\ UNCHANGED <<waiting, done>> /\ alive' = alive \ {tmpc[t]}
    BY <1>17 DEF TaskExeInvalid, Return, Goto, GiveUp, JobDel, InHand, HasJob, Holding
  <2> QED
    BY <2>1, FreeStep
<1>18. CASE KernelPostLock(t)
  <2>1. /\ UNCHANGED <<waiting, done, alive>>
        /\ (InHand(t)' <=> InHand(t)) /\ (InHand(t) => tmpc'[t] = tmpc[t])
    BY <1>18 DEF KernelPostLock, Lock, Goto, InHand
  <2> QED
    BY <2>1, SamePlaces
<1>19. CASE KernelPostInsert(t)
  <2>1. InHand(t) /\ ~InHand(t)' /\ tmpc[t] \in Jobs /\ ctrl[t] \in Tasks
    BY <1>19 DEF KernelPostInsert, Return, Goto, InHand, HasJob, Holding
  <2>2. CASE Enqueue(t)
    BY <2>1, <2>2, QueueStep DEF Enqueue
  <2>3. CASE GiveUp(t)
    BY <2>1, <2>3, FreeStep DEF GiveUp, JobDel
  <2> QED
    BY <1>19, <2>2, <2>3 DEF KernelPostInsert
<1>20. CASE JobQueLock(t)
  <2>1. /\ UNCHANGED <<waiting, done, alive>>
        /\ (InHand(t)' <=> InHand(t)) /\ (InHand(t) => tmpc'[t] = tmpc[t])
    BY <1>20 DEF JobQueLock, Lock, Goto, InHand
  <2> QED
    BY <2>1, SamePlaces
<1>21. CASE JobQueInsert(t)
  <2>1. /\ InHand(t) /\ ~InHand(t)' /\ UNCHANGED <<done, alive>> /\ ctrl[t] \in Tasks
        /\ tmpc[t] \in Jobs /\ waiting' = [waiting EXCEPT ![ctrl[t]] = Append(@, tmpc[t])]
    BY <1>21 DEF JobQueInsert, Return, Goto, InHand, HasJob, Holding
  <2> QED
    BY <2>1, QueueStep
<1>22. CASE JobResScan(t)
  <2>1. /\ UNCHANGED <<waiting, done, alive>>
        /\ (InHand(t)' <=> InHand(t)) /\ (InHand(t) => tmpc'[t] = tmpc[t])
    BY <1>22 DEF JobResScan, Goto, shared, InHand
  <2> QED
    BY <2>1, SamePlaces
<1>23. CASE JobResScanLock(t)
  <2>1. /\ UNCHANGED <<waiting, done, alive>>
        /\ (InHand(t)' <=> InHand(t)) /\ (InHand(t) => tmpc'[t] = tmpc[t])
    BY <1>23 DEF JobResScanLock, Lock, Goto, InHand
  <2> QED
    BY <2>1, SamePlaces
<1>24. CASE JobResTake(t)
  <2>1. ~InHand(t) /\ ~InHand(t)' /\ UNCHANGED waiting /\ ctrl[t] \in Tasks
    BY <1>24 DEF JobResTake, Return, Goto, InHand
  <2>2. \E i \in 1..Len(done[ctrl[t]]) : /\ done' = [done EXCEPT ![ctrl[t]] = QueRem(@, i)]
                                       /\ alive' = alive \ {done[ctrl[t]][i]}
    BY <1>24 DEF JobResTake, JobDel
  <2> QED
    BY <2>1, <2>2, CollectStep
<1>25. CASE JobResNone(t)
  <2>1. /\ UNCHANGED <<waiting, done, alive>>
        /\ (InHand(t)' <=> InHand(t)) /\ (InHand(t) => tmpc'[t] = tmpc[t])
    BY <1>25 DEF JobResNone, Return, Goto, InHand
  <2> QED
    BY <2>1, SamePlaces
<1>26. CASE TaskWaitEmpty(t)
  <2>1. /\ UNCHANGED <<waiting, done, alive>>
        /\ (InHand(t)' <=> InHand(t)) /\ (InHand(t) => tmpc'[t] = tmpc[t])
    BY <1>26 DEF TaskWaitEmpty, Return, Goto, shared, InHand
  <2> QED
    BY <2>1, SamePlaces
<1>27. CASE TaskWaitIdle(t)
  <2>1. /\ UNCHANGED <<waiting, done, alive>>
        /\ (InHand(t)' <=> InHand(t)) /\ (InHand(t) => tmpc'[t] = tmpc[t])
    BY <1>27 DEF TaskWaitIdle, Return, Goto, shared, InHand
  <2> QED
    BY <2>1, SamePlaces
<1>28. CASE TaskWaitBlock(t)
  <2>1. /\ UNCHANGED <<waiting, done, alive>>
        /\ (InHand(t)' <=> InHand(t)) /\ (InHand(t) => tmpc'[t] = tmpc[t])
    BY <1>28 DEF TaskWaitBlock, Goto, InHand
  <2> QED
    BY <2>1, SamePlaces
<1>29. CASE TaskWaitWake(t)
  <2>1. /\ UNCHANGED <<waiting, done, alive>>
        /\ (InHand(t)' <=> InHand(t)) /\ (InHand(t) => tmpc'[t] = tmpc[t])
    BY <1>29 DEF TaskWaitWake, Goto, shared, InHand
  <2> QED
    BY <2>1, SamePlaces
<1>30. CASE TaskExe(t)
  <2>1. /\ ~InHand(t) /\ InHand(t)' /\ UNCHANGED <<waiting, done>>
        /\ \E j \in Jobs \ alive : alive' = alive \cup {j} /\ tmpc'[t] = j
    BY <1>30 DEF TaskExe, NewJob, Goto, InHand
  <2> QED
    BY <2>1, PostStep
<1>31. CASE KernelPost(t)
  <2>1. /\ ~InHand(t) /\ InHand(t)' /\ UNCHANGED <<waiting, done>>
        /\ \E j \in Jobs \ alive : alive' = alive \cup {j} /\ tmpc'[t] = j
    BY <1>31 DEF KernelPost, NewJob, Goto, InHand
  <2> QED
    BY <2>1, PostStep
<1>32. CASE JobQue(t)
  <2>1. /\ ~InHand(t) /\ InHand(t)' /\ UNCHANGED <<waiting, done>>
        /\ \E j \in Jobs \ alive : alive' = alive \cup {j} /\ tmpc'[t] = j
    BY <1>32 DEF JobQue, NewJob, Goto, InHand
  <2> QED
    BY <2>1, PostStep
<1>33. CASE JobResScanAny(t)
  <2>1. /\ UNCHANGED <<waiting, done, alive>>
        /\ (InHand(t)' <=> InHand(t)) /\ (InHand(t) => tmpc'[t] = tmpc[t])
    BY <1>33 DEF JobResScanAny, Goto, shared, InHand
  <2> QED
    BY <2>1, SamePlaces
<1>34. CASE TaskWait(t)
  <2>1. /\ UNCHANGED <<waiting, done, alive>>
        /\ (InHand(t)' <=> InHand(t)) /\ (InHand(t) => tmpc'[t] = tmpc[t])
    BY <1>34 DEF TaskWait, Goto, shared, InHand
  <2> QED
    BY <2>1, SamePlaces
<1>35. CASE JobFault(t)
  <2>1. /\ UNCHANGED <<waiting, done, alive>>
        /\ (InHand(t)' <=> InHand(t)) /\ (InHand(t) => tmpc'[t] = tmpc[t])
    BY <1>35 DEF JobFault, Goto, shared, InHand
  <2> QED
    BY <2>1, SamePlaces
<1> QED
  BY <1>1, <1>2, <1>3, <1>4, <1>5, <1>6, <1>7, <1>8, <1>9, <1>10, <1>11, <1>12, <1>13, <1>14,
     <1>15, <1>16, <1>17, <1>18, <1>19, <1>20, <1>21, <1>22, <1>23, <1>24, <1>25, <1>26, <1>27,
     <1>28, <1>29, <1>30, <1>31, <1>32, <1>33, <1>34, <1>35 DEF Step, Handle, Post, Collect, Wait,
     Call

LEMMA InitPlaces == Init => Answering /\ PlaceInv
<1> SUFFICES ASSUME Init PROVE Answering /\ PlaceInv
  OBVIOUS
<1>1. \A t \in Tasks : waiting[t] = <<>> /\ done[t] = <<>> /\ ~InHand(t) /\ pc[t] = "ready"
  BY DEF Init, InHand
<1>2. \A t \in Tasks : NoDup(waiting[t]) /\ NoDup(done[t])
  BY <1>1, EmptyElems
<1>3. \A t \in Tasks : WaitSets[t] = {} /\ DoneSets[t] = {} /\ InHands[t] = None
  BY <1>1, EmptyElems DEF WaitSets, DoneSets, InHands
<1>4. alive = {}
  BY DEF Init
<1>5. Placed(WaitSets, DoneSets, InHands, alive)
  BY <1>3, <1>4, JobCtlAssumption DEF Placed
<1> QED
  BY <1>1, <1>2, <1>5 DEF Answering, PlaceInv

LEMMA NextIsStep == Next <=> \E t \in Tasks : Step(t)
  BY DEF Next, Step

LEMMA PlaceNext ==
  Typed /\ Answering /\ PlaceInv /\ [Next]_vars => Answering' /\ PlaceInv'
<1> SUFFICES ASSUME Typed, Answering, PlaceInv, [Next]_vars PROVE Answering' /\ PlaceInv'
  OBVIOUS
<1>1. CASE Next
  BY <1>1, NextIsStep, AnsweringStep, PlaceStep
<1>2. CASE UNCHANGED vars
  <2>1. Answering' /\ InHands' = InHands /\ WaitSets' = WaitSets /\ DoneSets' = DoneSets
    BY <1>2 DEF vars, shared, Answering, InHands, InHand, WaitSets, DoneSets
  <2> QED
    BY <1>2, <2>1 DEF vars, shared, PlaceInv
<1> QED
  BY <1>1, <1>2

\* The positions that Spots lists are those the sets stand for.
LEMMA SpotsAre ==
  ASSUME Typed
  PROVE  \A s : s \in Spots <=>
           \E t \in Tasks : \/ \E i \in 1..Len(waiting[t]) : s = <<"waiting", t, i>>
                            \/ \E i \in 1..Len(done[t]) : s = <<"done", t, i>>
                            \/ InHand(t) /\ s = <<"hand", t, 0>>
<1>1. \A t \in Tasks : DOMAIN waiting[t] = 1..Len(waiting[t]) /\ DOMAIN done[t] = 1..Len(done[t])
  BY DEF Typed, TypeOK
<1>2. \A t \in Tasks : \A s : s \in ListSpots(t) <=> \/ \E i \in 1..Len(waiting[t]) : s = <<"waiting", t, i>>
                                                 \/ \E i \in 1..Len(done[t]) : s = <<"done", t, i>>
  BY <1>1 DEF ListSpots
<1>3. \A s : s \in HandSpots <=> \E t \in Tasks : InHand(t) /\ s = <<"hand", t, 0>>
  BY DEF HandSpots
<1>4. \A s : s \in Spots <=> (\E t \in Tasks : s \in ListSpots(t)) \/ s \in HandSpots
  BY DEF Spots
<1> QED
  BY <1>2, <1>3, <1>4

LEMMA PlacesAreSpots == Typed /\ Answering /\ PlaceInv => JobInOnePlace
<1> SUFFICES ASSUME Typed, Answering, PlaceInv PROVE JobInOnePlace
  OBVIOUS
<1> DEFINE Waits(s, t) == \E i \in 1..Len(waiting[t]) : s = <<"waiting", t, i>>
           Done(s, t) == \E i \in 1..Len(done[t]) : s = <<"done", t, i>>
           Hand(s, t) == InHand(t) /\ s = <<"hand", t, 0>>
<1>1. \A s : s \in Spots <=> \E t \in Tasks : Waits(s, t) \/ Done(s, t) \/ Hand(s, t)
  BY SpotsAre
<1>2. \A t \in Tasks : waiting[t] \in Seq(Jobs) /\ done[t] \in Seq(Jobs)
  BY DEF Typed, TypeOK
<1>3. \A t \in Tasks : \A s : Waits(s, t) => At(s) \in Elems(waiting[t]) /\ At(s) \in Jobs
  BY <1>2 DEF At, Elems
<1>4. \A t \in Tasks : \A s : Done(s, t) => At(s) \in Elems(done[t]) /\ At(s) \in Jobs
  BY <1>2 DEF At, Elems
<1>5. \A t \in Tasks : \A s : Hand(s, t) => At(s) = InHands[t] /\ At(s) \in Jobs
  <2>1. \A t \in Tasks : InHand(t) => tmpc[t] \in Jobs
    BY DEF InHand, Typed, HasJob, Holding, Answering
  <2> QED
    BY <2>1 DEF At, InHands
<1>6. \A t \in Tasks : \A s, r : Waits(s, t) /\ Waits(r, t) /\ At(s) = At(r) => s = r
  BY <1>2 DEF At, PlaceInv, NoDup
<1>7. \A t \in Tasks : \A s, r : Done(s, t) /\ Done(r, t) /\ At(s) = At(r) => s = r
  BY <1>2 DEF At, PlaceInv, NoDup
<1>8. \A t \in Tasks : \A j \in Elems(waiting[t]) : j \in Jobs /\ \E s : Waits(s, t) /\ At(s) = j
  <2> SUFFICES ASSUME NEW t \in Tasks, NEW i \in 1..Len(waiting[t])
               PROVE  waiting[t][i] \in Jobs /\ \E s : Waits(s, t) /\ At(s) = waiting[t][i]
    BY DEF Elems
  <2>1. Waits(<<"waiting", t, i>>, t) /\ At(<<"waiting", t, i>>) = waiting[t][i]
    BY DEF At
  <2> QED
    BY <2>1, <1>2
<1>9. \A t \in Tasks : \A j \in Elems(done[t]) : j \in Jobs /\ \E s : Done(s, t) /\ At(s) = j
  <2> SUFFICES ASSUME NEW t \in Tasks, NEW i \in 1..Len(done[t])
               PROVE  done[t][i] \in Jobs /\ \E s : Done(s, t) /\ At(s) = done[t][i]
    BY DEF Elems
  <2>1. Done(<<"done", t, i>>, t) /\ At(<<"done", t, i>>) = done[t][i]
    BY DEF At
  <2> QED
    BY <2>1, <1>2
<1>10. \A t \in Tasks : InHands[t] # None => \E s : Hand(s, t) /\ At(s) = InHands[t]
  <2> SUFFICES ASSUME NEW t \in Tasks, InHand(t) PROVE \E s : Hand(s, t) /\ At(s) = InHands[t]
    BY DEF InHands
  <2>1. Hand(<<"hand", t, 0>>, t) /\ At(<<"hand", t, 0>>) = InHands[t]
    BY DEF At, InHands
  <2> QED
    BY <2>1
<1>11. \A t \in Tasks : \A s, r : Hand(s, t) /\ Hand(r, t) => s = r
  OBVIOUS
<1> HIDE DEF Waits, Done, Hand
<1>12. \A t \in Tasks : WaitSets[t] = Elems(waiting[t]) /\ DoneSets[t] = Elems(done[t])
  BY DEF WaitSets, DoneSets
<1>13. Placed(WaitSets, DoneSets, InHands, alive)
  BY DEF PlaceInv
<1>14. ASSUME NEW s \in Spots, NEW r \in Spots, At(s) = At(r) PROVE s = r
  <2>1. PICK t \in Tasks : Waits(s, t) \/ Done(s, t) \/ Hand(s, t)
    BY <1>1
  <2>2. PICK u \in Tasks : Waits(r, u) \/ Done(r, u) \/ Hand(r, u)
    BY <1>1
  <2>3. PICK j \in Jobs : At(s) = j /\ At(r) = j
    BY <2>1, <1>3, <1>4, <1>5, <1>14
  <2>4. /\ Waits(s, t) => j \in WaitSets[t]
        /\ Done(s, t) => j \in DoneSets[t]
        /\ Hand(s, t) => InHands[t] = j
        /\ Waits(r, u) => j \in WaitSets[u]
        /\ Done(r, u) => j \in DoneSets[u]
        /\ Hand(r, u) => InHands[u] = j
    BY <2>3, <1>3, <1>4, <1>5, <1>12
  <2>5. /\ j \in WaitSets[t] /\ j \in WaitSets[u] => t = u
        /\ j \in DoneSets[t] /\ j \in DoneSets[u] => t = u
        /\ InHands[t] = j /\ InHands[u] = j => t = u
        /\ ~(j \in WaitSets[t] /\ j \in DoneSets[u]) /\ ~(j \in WaitSets[u] /\ j \in DoneSets[t])
        /\ ~(j \in WaitSets[t] /\ j = InHands[u]) /\ ~(j \in WaitSets[u] /\ j = InHands[t])
        /\ ~(j \in DoneSets[t] /\ j = InHands[u]) /\ ~(j \in DoneSets[u] /\ j = InHands[t])
    BY <1>13 DEF Placed
  <2>6. t = u /\ ((Waits(s, t) /\ Waits(r, t)) \/ (Done(s, t) /\ Done(r, t)) \/ (Hand(s,
           t) /\ Hand(r, t)))
    <3>1. CASE Waits(s, t)
      BY <3>1, <2>2, <2>4, <2>5
    <3>2. CASE Done(s, t)
      BY <3>2, <2>2, <2>4, <2>5
    <3>3. CASE Hand(s, t)
      BY <3>3, <2>2, <2>4, <2>5
    <3> QED
      BY <2>1, <3>1, <3>2, <3>3
  <2> QED
    BY <2>6, <1>6, <1>7, <1>11, <1>14
<1>15. ASSUME NEW s \in Spots PROVE At(s) \in alive
  <2>1. PICK t \in Tasks : Waits(s, t) \/ Done(s, t) \/ Hand(s, t)
    BY <1>1
  <2> QED
    BY <2>1, <1>3, <1>4, <1>5, <1>12, <1>13 DEF Placed
<1>16. ASSUME NEW j \in alive PROVE \E s \in Spots : At(s) = j
  <2>1. j \in Jobs
    BY DEF Typed, TypeOK
  <2>2. PICK t \in Tasks : j \in WaitSets[t] \/ j \in DoneSets[t] \/ j = InHands[t]
    BY <2>1, <1>13 DEF Placed
  <2>3. \E s : (Waits(s, t) \/ Done(s, t) \/ Hand(s, t)) /\ At(s) = j
    BY <2>1, <2>2, <1>8, <1>9, <1>10, <1>12, JobCtlAssumption
  <2> QED
    BY <2>3, <1>1
<1> HIDE DEF Spots, At
<1> QED
  BY <1>14, <1>15, <1>16 DEF JobInOnePlace

\* A CJob is in one place: on one list, at one position, or in the hand of one
\* thread, and it is allocated exactly while it is.
THEOREM JobsInOnePlace == Spec => []JobInOnePlace
<1>1. Init => Typed /\ Answering /\ PlaceInv
  BY InitTyped, InitPlaces
<1>2. Typed /\ Answering /\ PlaceInv /\ [Next]_vars => (Typed /\ Answering /\ PlaceInv)'
  BY TypedStep, PlaceNext
<1>3. Typed /\ Answering /\ PlaceInv => JobInOnePlace
  BY PlacesAreSpots
<1> QED
  BY <1>1, <1>2, <1>3, PTL DEF Spec

-----------------------------------------------------------------------------
(* Where the answer to a job is: the collector and the thread that answers *)
(* agree on the list, and the answer is not collected before it is         *)
(* complete.                                                               *)

OwnSteps == {"jh_lock", "jh_head", "jh_call", "jh_body", "end_lock", "end_del"}
Posting == {"exe_lock", "exe_ins", "post_lock", "post_ins", "que_lock", "que_ins"}
Serving == {"jh_call", "jh_body", "jh_reply", "jh_done", "jh_flag"}
Replying == {"jh_reply", "jh_done", "jh_flag"}

\* What the locals of a thread say of the job it has in hand.
Own(t) ==
  /\ pc[t] \in OwnSteps => ctrl[t] = t
  /\ pc[t] \in Posting => job[tmpc[t]].ctrl = ctrl[t] /\ job[tmpc[t]].owner = t
  /\ pc[t] \in Serving => job[tmpc[t]].ctrl = t /\ saved[t].master = job[tmpc[t]].master
  /\ pc[t] \in Replying => ctrl[t] = ReplyTo(tmpc[t])
  /\ pc[t] = "jh_flag" => tmpc[t] \in Elems(done[ctrl[t]])

ReplyInv ==
  /\ \A t \in Tasks : Own(t)
  /\ \A t \in Tasks : \A j \in Elems(waiting[t]) : job[j].ctrl = t
  /\ \A j \in alive : "DONE" \in job[j].flags => j \in Elems(done[ReplyTo(j)])

\* What a step of t may do to the jobs and to the lists.
JobKept(t, j) ==
  IF j \in alive
  THEN /\ job'[j].master = job[j].master /\ job'[j].ctrl = job[j].ctrl
       /\ job'[j].owner = job[j].owner
       /\ "DONE" \in job'[j].flags => \/ "DONE" \in job[j].flags
                                      \/ pc[t] = "jh_flag" /\ j = tmpc[t]
  ELSE "DONE" \notin job'[j].flags

DoneUnder(t) ==
  \A c \in Tasks : done'[c] = done[c] \/ (c = ctrl[t] /\ pc[t] \in Critical)

DoneKept == \A c \in Tasks : \A j \in Elems(done[c]) : j \in alive' => j \in Elems(done'[c])

WaitFrom(t) ==
  \A c \in Tasks : \A j \in Elems(waiting'[c]) :
    j \in Elems(waiting[c]) \/ (pc[t] \in Posting /\ c = ctrl[t] /\ j = tmpc[t])

Effects(t) ==
  (\A j \in alive' : JobKept(t, j)) /\ DoneUnder(t) /\ DoneKept /\ WaitFrom(t)

LEMMA QuietEffects ==
  ASSUME NEW t \in Tasks, UNCHANGED <<waiting, done, job, alive>>
  PROVE  Effects(t)
  BY DEF Effects, JobKept, DoneUnder, DoneKept, WaitFrom

LEMMA NewJobEffects ==
  ASSUME Typed, NEW t \in Tasks, NEW s \in Tasks, NEW m \in {None, t}, NEW code \in JobCodes,
         NEW fl \in FlagSets, NewJob(t, s, m, code, fl)
  PROVE  /\ Effects(t) /\ job'[tmpc'[t]].ctrl = s /\ ctrl'[t] = s /\ job'[tmpc'[t]].owner = t
<1>1. PICK j \in Jobs \ alive :
       /\ alive' = alive \cup {j}
       /\ job' = [job EXCEPT ![j] = [code |-> code, master |-> m, ctrl |-> s,
                                     flags |-> fl, owner |-> t]]
       /\ tmpc' = [tmpc EXCEPT ![t] = j]
       /\ ctrl' = [ctrl EXCEPT ![t] = s]
       /\ UNCHANGED <<waiting, done>>
  BY DEF NewJob
<1>2. "DONE" \notin fl
  BY JobCtlAssumption
<1>3. job'[j].ctrl = s /\ job'[j].owner = t /\ job'[j].flags = fl
      /\ \A k \in Jobs \ {j} : job'[k] = job[k]
  BY <1>1 DEF Typed, TypeOK
<1>4. alive \subseteq Jobs
  BY DEF Typed, TypeOK
<1>5. \A k \in alive' : JobKept(t, k)
  BY <1>1, <1>2, <1>3, <1>4 DEF JobKept
<1>6. tmpc'[t] = j /\ ctrl'[t] = s
  BY <1>1 DEF Typed, TypeOK
<1> QED
  BY <1>1, <1>3, <1>5, <1>6 DEF Effects, DoneUnder, DoneKept, WaitFrom

\* A job is freed that no list holds.
LEMMA DelEffects ==
  ASSUME Typed, NEW t \in Tasks, NEW j \in Jobs, JobDel(j), UNCHANGED <<waiting, done>>
  PROVE  Effects(t)
<1>1. alive \subseteq Jobs /\ alive' = alive \ {j} /\ \A k \in Jobs \ {j} : job'[k] = job[k]
  BY DEF Typed, TypeOK, JobDel
<1> QED
  BY <1>1 DEF Effects, JobKept, DoneUnder, DoneKept, WaitFrom

\* The job in hand is queued.
LEMMA QueueEffects ==
  ASSUME Typed, NEW t \in Tasks, pc[t] \in Posting, UNCHANGED <<done, job, alive>>,
         waiting' = [waiting EXCEPT ![ctrl[t]] = Append(@, tmpc[t])]
  PROVE  Effects(t)
<1>1. tmpc[t] \in Jobs /\ ctrl[t] \in Tasks /\ waiting \in [Tasks -> Seq(Jobs)]
  BY DEF Typed, TypeOK, HasJob, Holding, Posting
<1>2. \A c \in Tasks : waiting'[c] = IF c = ctrl[t] THEN Append(waiting[c], tmpc[t]) ELSE waiting[c]
  BY <1>1
<1>3. Elems(waiting'[ctrl[t]]) = Elems(waiting[ctrl[t]]) \cup {tmpc[t]}
  BY <1>1, <1>2, AppendElems
<1>4. WaitFrom(t)
  BY <1>2, <1>3 DEF WaitFrom
<1> QED
  BY <1>4 DEF Effects, JobKept, DoneUnder, DoneKept

LEMMA EffectsStep ==
  ASSUME Typed, ReplyInv, PlaceInv, NEW t \in Tasks, Step(t) PROVE Effects(t)
<1>a. Own(t)
  BY DEF ReplyInv
<1>1. CASE JobsHndlr(t)
  <2>1. UNCHANGED <<waiting, done, job, alive>>
    BY <1>1 DEF JobsHndlr, Goto, shared
  <2> QED
    BY <2>1, QuietEffects
<1>2. CASE JobsHndlrLock(t)
  <2>1. UNCHANGED <<waiting, done, job, alive>>
    BY <1>2 DEF JobsHndlrLock, Lock, Goto
  <2> QED
    BY <2>1, QuietEffects
<1>3. CASE JobsHndlrDone(t)
  <2>1. UNCHANGED <<waiting, done, job, alive>>
    BY <1>3 DEF JobsHndlrDone, Goto, Unlock
  <2> QED
    BY <2>1, QuietEffects
<1>4. CASE JobRunOne(t)
  <2> DEFINE j == Head(waiting[t])
  <2>1. waiting[t] \in Seq(Jobs) /\ waiting[t] # <<>> /\ NoDup(waiting[t])
    BY <1>4 DEF JobRunOne, Typed, TypeOK, PlaceInv
  <2>2. j \in Jobs /\ Elems(Tail(waiting[t])) \subseteq Elems(waiting[t])
    BY <2>1, TailElems
  <2>3. /\ job' = [job EXCEPT ![j].flags = @ \cup {"DISPATCHED"}] /\ UNCHANGED <<done, alive>>
        /\ waiting' = [waiting EXCEPT ![t] = Tail(@)]
    BY <1>4 DEF JobRunOne
  <2> HIDE DEF j
  <2>4. \A c \in Tasks : waiting'[c] = IF c = t THEN Tail(waiting[t]) ELSE waiting[c]
    BY <2>3 DEF Typed, TypeOK
  <2>5. WaitFrom(t)
    BY <2>2, <2>4 DEF WaitFrom
  <2>6. \A k \in Jobs : JobKept(t, k) \/ k \notin alive
    BY <2>2, <2>3 DEF JobKept, Typed, TypeOK, JobRec
  <2> QED
    BY <2>3, <2>5, <2>6 DEF Effects, DoneUnder, DoneKept, Typed, TypeOK
<1>5. CASE JobCall(t)
  <2>1. UNCHANGED <<waiting, done, job, alive>>
    BY <1>5 DEF JobCall, Goto
  <2> QED
    BY <2>1, QuietEffects
<1>6. CASE JobBody(t)
  <2>1. UNCHANGED <<waiting, done, job, alive>>
    BY <1>6 DEF JobBody, shared
  <2> QED
    BY <2>1, QuietEffects
<1>7. CASE JobReplyLock(t)
  <2>1. UNCHANGED <<waiting, done, job, alive>>
    BY <1>7 DEF JobReplyLock, Lock, Goto
  <2> QED
    BY <2>1, QuietEffects
<1>8. CASE JobReplyInsert(t)
  <2>1. /\ pc[t] = "jh_done" /\ done' = [done EXCEPT ![ctrl[t]] = Append(@, tmpc[t])]
        /\ UNCHANGED <<waiting, job, alive>>
    BY <1>8 DEF JobReplyInsert, Goto
  <2>2. tmpc[t] \in Jobs /\ ctrl[t] \in Tasks /\ done \in [Tasks -> Seq(Jobs)]
    BY <2>1 DEF Typed, TypeOK, HasJob, Holding
  <2>3. \A c \in Tasks : done'[c] = IF c = ctrl[t] THEN Append(done[c], tmpc[t]) ELSE done[c]
    BY <2>1, <2>2
  <2>4. Elems(done'[ctrl[t]]) = Elems(done[ctrl[t]]) \cup {tmpc[t]}
    BY <2>2, <2>3, AppendElems
  <2>5. DoneUnder(t)
    BY <2>1, <2>3 DEF DoneUnder, Critical
  <2>6. DoneKept
    BY <2>3, <2>4 DEF DoneKept
  <2> QED
    BY <2>1, <2>5, <2>6 DEF Effects, JobKept, WaitFrom
<1>9. CASE JobReplyDone(t)
  <2>1. /\ pc[t] = "jh_flag" /\ job' = [job EXCEPT ![tmpc[t]].flags = @ \cup {"DONE"}]
        /\ UNCHANGED <<waiting, done, alive>>
    BY <1>9 DEF JobReplyDone, Goto
  <2>2. tmpc[t] \in Jobs
    BY <2>1 DEF Typed, TypeOK, HasJob, Holding
  <2>3. \A k \in Jobs : JobKept(t, k) \/ k \notin alive
    BY <2>1, <2>2 DEF JobKept, Typed, TypeOK, JobRec
  <2> QED
    BY <2>1, <2>3 DEF Effects, DoneUnder, DoneKept, WaitFrom, Typed, TypeOK
<1>10. CASE JobMaster(t)
  <2>1. tmpc[t] \in Jobs /\ UNCHANGED <<waiting, done>>
    BY <1>10 DEF JobMaster, Typed, HasJob, Holding
  <2>2. JobDel(tmpc[t]) \/ UNCHANGED <<alive, job>>
    BY <1>10 DEF JobMaster
  <2> QED
    BY <2>1, <2>2, QuietEffects, DelEffects
<1>11. CASE JobsHndlrSignal(t)
  <2>1. UNCHANGED <<waiting, done, job, alive>>
    BY <1>11 DEF JobsHndlrSignal, Goto
  <2> QED
    BY <2>1, QuietEffects
<1>12. CASE SrvTaskIdle(t)
  <2>1. UNCHANGED <<waiting, done, job, alive>>
    BY <1>12 DEF SrvTaskIdle, Return, Goto
  <2> QED
    BY <2>1, QuietEffects
<1>13. CASE TaskEndLock(t)
  <2>1. UNCHANGED <<waiting, done, job, alive>>
    BY <1>13 DEF TaskEndLock, Lock, Goto
  <2> QED
    BY <2>1, QuietEffects
<1>14. CASE TaskEnd(t)
  <2> DEFINE gone == {j \in Jobs : Contains(waiting[t], j) \/ Contains(done[t], j)}
  <2>1. /\ pc[t] = "end_del"
        /\ waiting' = [waiting EXCEPT ![t] = <<>>] /\ done' = [done EXCEPT ![t] = <<>>]
        /\ alive' = alive \ gone
        /\ job' = [j \in Jobs |-> IF j \in gone THEN NoJob ELSE job[j]]
    BY <1>14 DEF TaskEnd, Goto
  <2>2. waiting[t] \in Seq(Jobs) /\ done[t] \in Seq(Jobs)
    BY DEF Typed, TypeOK
  <2>3. gone = Elems(waiting[t]) \cup Elems(done[t])
    BY <2>2 DEF Contains, Elems
  <2> HIDE DEF gone
  <2>4. /\ \A c \in Tasks : waiting'[c] = IF c = t THEN <<>> ELSE waiting[c]
        /\ \A c \in Tasks : done'[c] = IF c = t THEN <<>> ELSE done[c]
    BY <2>1 DEF Typed, TypeOK
  <2>5. DoneUnder(t)
    BY <1>a, <2>1, <2>4 DEF DoneUnder, Critical, Own, OwnSteps
  <2>6. DoneKept
    BY <2>1, <2>3, <2>4 DEF DoneKept
  <2>7. WaitFrom(t)
    BY <2>4, EmptyElems DEF WaitFrom
  <2>8. \A k \in alive' : JobKept(t, k)
    BY <2>1 DEF JobKept, Typed, TypeOK
  <2> QED
    BY <2>5, <2>6, <2>7, <2>8 DEF Effects
<1>15. CASE TaskExeLock(t)
  <2>1. UNCHANGED <<waiting, done, job, alive>>
    BY <1>15 DEF TaskExeLock, Lock, Goto
  <2> QED
    BY <2>1, QuietEffects
<1>16. CASE TaskExeInsert(t)
  BY <1>16, QueueEffects DEF TaskExeInsert, Return, Goto, Enqueue, Posting
<1>17. CASE TaskExeInvalid(t)
  <2>1. tmpc[t] \in Jobs /\ JobDel(tmpc[t]) /\ UNCHANGED <<waiting, done>>
    BY <1>17 DEF TaskExeInvalid, Return, Goto, GiveUp, Typed, HasJob, Holding
  <2> QED
    BY <2>1, DelEffects
<1>18. CASE KernelPostLock(t)
  <2>1. UNCHANGED <<waiting, done, job, alive>>
    BY <1>18 DEF KernelPostLock, Lock, Goto
  <2> QED
    BY <2>1, QuietEffects
<1>19. CASE KernelPostInsert(t)
  <2>1. pc[t] \in Posting /\ tmpc[t] \in Jobs
    BY <1>19 DEF KernelPostInsert, Return, Goto, Typed, HasJob, Holding, Posting
  <2>2. CASE Enqueue(t)
    BY <2>1, <2>2, QueueEffects DEF Enqueue
  <2>3. CASE GiveUp(t)
    BY <2>1, <2>3, DelEffects DEF GiveUp
  <2> QED
    BY <1>19, <2>2, <2>3 DEF KernelPostInsert
<1>20. CASE JobQueLock(t)
  <2>1. UNCHANGED <<waiting, done, job, alive>>
    BY <1>20 DEF JobQueLock, Lock, Goto
  <2> QED
    BY <2>1, QuietEffects
<1>21. CASE JobQueInsert(t)
  BY <1>21, QueueEffects DEF JobQueInsert, Return, Goto, Posting
<1>22. CASE JobResScan(t)
  <2>1. UNCHANGED <<waiting, done, job, alive>>
    BY <1>22 DEF JobResScan, Goto, shared
  <2> QED
    BY <2>1, QuietEffects
<1>23. CASE JobResScanLock(t)
  <2>1. UNCHANGED <<waiting, done, job, alive>>
    BY <1>23 DEF JobResScanLock, Lock, Goto
  <2> QED
    BY <2>1, QuietEffects
<1>24. CASE JobResTake(t)
  <2>1. pc[t] = "res_scan" /\ ctrl[t] \in Tasks /\ UNCHANGED waiting
    BY <1>24 DEF JobResTake, Return, Goto, Typed, TypeOK
  <2>2. PICK i \in 1..Len(done[ctrl[t]]) : /\ done' = [done EXCEPT ![ctrl[t]] = QueRem(@, i)]
                                       /\ JobDel(done[ctrl[t]][i])
    BY <1>24 DEF JobResTake
  <2> DEFINE j == done[ctrl[t]][i]
  <2>3. done[ctrl[t]] \in Seq(Jobs) /\ j \in Jobs /\ NoDup(done[ctrl[t]])
    BY <2>1 DEF Typed, TypeOK, PlaceInv
  <2>4. Elems(QueRem(done[ctrl[t]], i)) = Elems(done[ctrl[t]]) \ {j}
    BY <2>3, RemoveElems
  <2>5. \A c \in Tasks : done'[c] = IF c = ctrl[t] THEN QueRem(done[c], i) ELSE done[c]
    BY <2>1, <2>2 DEF Typed, TypeOK
  <2>6. alive' = alive \ {j} /\ \A k \in Jobs \ {j} : job'[k] = job[k]
    BY <2>2, <2>3 DEF JobDel, Typed, TypeOK
  <2> HIDE DEF j
  <2>7. DoneUnder(t)
    BY <2>1, <2>5 DEF DoneUnder, Critical
  <2>8. DoneKept
    BY <2>4, <2>5, <2>6 DEF DoneKept
  <2>9. \A k \in alive' : JobKept(t, k)
    BY <2>6 DEF JobKept, Typed, TypeOK
  <2> QED
    BY <2>1, <2>7, <2>8, <2>9 DEF Effects, WaitFrom
<1>25. CASE JobResNone(t)
  <2>1. UNCHANGED <<waiting, done, job, alive>>
    BY <1>25 DEF JobResNone, Return, Goto
  <2> QED
    BY <2>1, QuietEffects
<1>26. CASE TaskWaitEmpty(t)
  <2>1. UNCHANGED <<waiting, done, job, alive>>
    BY <1>26 DEF TaskWaitEmpty, Return, Goto, shared
  <2> QED
    BY <2>1, QuietEffects
<1>27. CASE TaskWaitIdle(t)
  <2>1. UNCHANGED <<waiting, done, job, alive>>
    BY <1>27 DEF TaskWaitIdle, Return, Goto, shared
  <2> QED
    BY <2>1, QuietEffects
<1>28. CASE TaskWaitBlock(t)
  <2>1. UNCHANGED <<waiting, done, job, alive>>
    BY <1>28 DEF TaskWaitBlock, Goto
  <2> QED
    BY <2>1, QuietEffects
<1>29. CASE TaskWaitWake(t)
  <2>1. UNCHANGED <<waiting, done, job, alive>>
    BY <1>29 DEF TaskWaitWake, Goto, shared
  <2> QED
    BY <2>1, QuietEffects
<1>30. CASE TaskExe(t)
  <2>1. PICK s \in Servers, m \in {None, t}, fl \in FlagSets : NewJob(t, s, m, "EXE_STR", fl)
    BY <1>30 DEF TaskExe
  <2>2. s \in Tasks /\ "EXE_STR" \in JobCodes /\ m \in {None, t}
    BY JobCtlAssumption DEF JobCodes, RunCodes
  <2> QED
    BY <2>1, <2>2, NewJobEffects
<1>31. CASE KernelPost(t)
  <2>1. PICK s \in Servers, m \in {None, t}, code \in KernelCodes, fl \in FlagSets : NewJob(t, s,
           m, code, fl)
    BY <1>31 DEF KernelPost
  <2>2. s \in Tasks /\ code \in JobCodes /\ m \in {None, t}
    BY JobCtlAssumption DEF JobCodes, RunCodes
  <2> QED
    BY <2>1, <2>2, NewJobEffects
<1>32. CASE JobQue(t)
  <2>1. PICK s \in Servers, code \in QueCodes, fl \in FlagSets : NewJob(t, s, None, code, fl)
    BY <1>32 DEF JobQue
  <2>2. s \in Tasks /\ code \in JobCodes /\ None \in {None, t}
    BY JobCtlAssumption DEF JobCodes, RunCodes
  <2> QED
    BY <2>1, <2>2, NewJobEffects
<1>33. CASE JobResScanAny(t)
  <2>1. UNCHANGED <<waiting, done, job, alive>>
    BY <1>33 DEF JobResScanAny, Goto, shared
  <2> QED
    BY <2>1, QuietEffects
<1>34. CASE TaskWait(t)
  <2>1. UNCHANGED <<waiting, done, job, alive>>
    BY <1>34 DEF TaskWait, Goto, shared
  <2> QED
    BY <2>1, QuietEffects
<1>35. CASE JobFault(t)
  <2>1. UNCHANGED <<waiting, done, job, alive>>
    BY <1>35 DEF JobFault, Goto, shared
  <2> QED
    BY <2>1, QuietEffects
<1> QED
  BY <1>1, <1>2, <1>3, <1>4, <1>5, <1>6, <1>7, <1>8, <1>9, <1>10, <1>11, <1>12, <1>13, <1>14,
     <1>15, <1>16, <1>17, <1>18, <1>19, <1>20, <1>21, <1>22, <1>23, <1>24, <1>25, <1>26, <1>27,
     <1>28, <1>29, <1>30, <1>31, <1>32, <1>33, <1>34, <1>35 DEF Step, Handle, Post, Collect, Wait,
     Call

\* What the thread that takes the step knows afterwards.
LEMMA OwnStep ==
  ASSUME Typed, ReplyInv, NEW t \in Tasks, Step(t) PROVE Own(t)'
<1>a. Own(t)
  BY DEF ReplyInv
<1>b. pc \in [Tasks -> PCs] /\ ctrl \in [Tasks -> Tasks] /\ tmpc \in [Tasks -> Jobs \cup {None}]
  BY DEF Typed, TypeOK
<1> USE <1>a, <1>b DEF Own, OwnSteps, Posting, Serving, Replying, ReplyTo
<1>1. CASE JobsHndlr(t)
  BY <1>1 DEF JobsHndlr, Goto, shared
<1>2. CASE JobsHndlrLock(t)
  BY <1>2 DEF JobsHndlrLock, Lock, Goto
<1>3. CASE JobsHndlrDone(t)
  BY <1>3 DEF JobsHndlrDone, Goto, Unlock
<1>4. CASE JobRunOne(t)
  <2> DEFINE j == Head(waiting[t])
  <2>1. waiting[t] \in Seq(Jobs) /\ waiting[t] # <<>>
    BY <1>4 DEF JobRunOne, Typed, TypeOK
  <2>2. j \in Jobs /\ j \in Elems(waiting[t])
    BY <2>1 DEF Elems
  <2>3. job[j].ctrl = t
    BY <2>2 DEF ReplyInv
  <2>4. /\ pc[t] = "jh_head" /\ pc'[t] = "jh_call" /\ tmpc'[t] = j /\ ctrl'[t] = ctrl[t]
        /\ saved'[t].master = job[j].master
        /\ job'[j].master = job[j].master /\ job'[j].ctrl = job[j].ctrl
    BY <1>4, <2>2 DEF JobRunOne, Goto, Typed, TypeOK, JobRec
  <2> QED
    BY <2>3, <2>4
<1>5. CASE JobCall(t)
  BY <1>5 DEF JobCall, Goto
<1>6. CASE JobBody(t)
  BY <1>6 DEF JobBody, shared
<1>7. CASE JobReplyLock(t)
  BY <1>7 DEF JobReplyLock, Lock, Goto
<1>8. CASE JobReplyInsert(t)
  <2>1. tmpc[t] \in Jobs /\ done[ctrl[t]] \in Seq(Jobs)
    BY <1>8 DEF JobReplyInsert, Goto, Typed, TypeOK, HasJob, Holding
  <2>2. done'[ctrl[t]] = Append(done[ctrl[t]], tmpc[t])
    BY <1>8 DEF JobReplyInsert, Typed, TypeOK
  <2>3. tmpc[t] \in Elems(done'[ctrl[t]])
    BY <2>1, <2>2, AppendElems
  <2>4. /\ pc[t] = "jh_done" /\ pc'[t] = "jh_flag" /\ UNCHANGED <<ctrl, tmpc, saved, job>>
    BY <1>8 DEF JobReplyInsert, Goto
  <2> QED
    BY <2>3, <2>4
<1>9. CASE JobReplyDone(t)
  <2>1. pc'[t] = "jh_master"
    BY <1>9 DEF JobReplyDone, Goto
  <2> QED
    BY <2>1
<1>10. CASE JobMaster(t)
  <2>1. pc'[t] \in {"end_lock", "jh_lock"} /\ ctrl'[t] = t
    BY <1>10 DEF JobMaster
  <2> QED
    BY <2>1
<1>11. CASE JobsHndlrSignal(t)
  BY <1>11 DEF JobsHndlrSignal, Goto
<1>12. CASE SrvTaskIdle(t)
  <2>1. pc'[t] = "ready"
    BY <1>12 DEF SrvTaskIdle, Return, Goto
  <2> QED
    BY <2>1
<1>13. CASE TaskEndLock(t)
  BY <1>13 DEF TaskEndLock, Lock, Goto
<1>14. CASE TaskEnd(t)
  <2>1. pc'[t] = "dead"
    BY <1>14 DEF TaskEnd, Goto
  <2> QED
    BY <2>1
<1>15. CASE TaskExeLock(t)
  BY <1>15 DEF TaskExeLock, Lock, Goto
<1>16. CASE TaskExeInsert(t)
  <2>1. pc'[t] = "ready"
    BY <1>16 DEF TaskExeInsert, Return, Goto
  <2> QED
    BY <2>1
<1>17. CASE TaskExeInvalid(t)
  <2>1. pc'[t] = "ready"
    BY <1>17 DEF TaskExeInvalid, Return, Goto
  <2> QED
    BY <2>1
<1>18. CASE KernelPostLock(t)
  BY <1>18 DEF KernelPostLock, Lock, Goto
<1>19. CASE KernelPostInsert(t)
  <2>1. pc'[t] = "ready"
    BY <1>19 DEF KernelPostInsert, Return, Goto
  <2> QED
    BY <2>1
<1>20. CASE JobQueLock(t)
  BY <1>20 DEF JobQueLock, Lock, Goto
<1>21. CASE JobQueInsert(t)
  <2>1. pc'[t] = "ready"
    BY <1>21 DEF JobQueInsert, Return, Goto
  <2> QED
    BY <2>1
<1>22. CASE JobResScan(t)
  BY <1>22 DEF JobResScan, Goto, shared
<1>23. CASE JobResScanLock(t)
  BY <1>23 DEF JobResScanLock, Lock, Goto
<1>24. CASE JobResTake(t)
  <2>1. pc'[t] = "ready"
    BY <1>24 DEF JobResTake, Return, Goto
  <2> QED
    BY <2>1
<1>25. CASE JobResNone(t)
  <2>1. pc'[t] = "ready"
    BY <1>25 DEF JobResNone, Return, Goto
  <2> QED
    BY <2>1
<1>26. CASE TaskWaitEmpty(t)
  BY <1>26 DEF TaskWaitEmpty, Return, Goto, shared
<1>27. CASE TaskWaitIdle(t)
  BY <1>27 DEF TaskWaitIdle, Return, Goto, shared
<1>28. CASE TaskWaitBlock(t)
  BY <1>28 DEF TaskWaitBlock, Goto
<1>29. CASE TaskWaitWake(t)
  BY <1>29 DEF TaskWaitWake, Goto, shared
<1>30. CASE TaskExe(t)
  <2>1. PICK s \in Servers, m \in {None, t}, fl \in FlagSets : NewJob(t, s, m, "EXE_STR", fl)
    BY <1>30 DEF TaskExe
  <2>2. s \in Tasks /\ "EXE_STR" \in JobCodes /\ m \in {None, t}
    BY JobCtlAssumption DEF JobCodes, RunCodes
  <2>3. job'[tmpc'[t]].ctrl = ctrl'[t] /\ job'[tmpc'[t]].owner = t
    BY <2>1, <2>2, NewJobEffects
  <2>4. pc'[t] = "exe_lock"
    BY <1>30 DEF TaskExe, Goto
  <2> QED
    BY <2>3, <2>4
<1>31. CASE KernelPost(t)
  <2>1. PICK s \in Servers, m \in {None, t}, code \in KernelCodes, fl \in FlagSets : NewJob(t, s,
           m, code, fl)
    BY <1>31 DEF KernelPost
  <2>2. s \in Tasks /\ code \in JobCodes /\ m \in {None, t}
    BY JobCtlAssumption DEF JobCodes, RunCodes
  <2>3. job'[tmpc'[t]].ctrl = ctrl'[t] /\ job'[tmpc'[t]].owner = t
    BY <2>1, <2>2, NewJobEffects
  <2>4. pc'[t] = "post_lock"
    BY <1>31 DEF KernelPost, Goto
  <2> QED
    BY <2>3, <2>4
<1>32. CASE JobQue(t)
  <2>1. PICK s \in Servers, code \in QueCodes, fl \in FlagSets : NewJob(t, s, None, code, fl)
    BY <1>32 DEF JobQue
  <2>2. s \in Tasks /\ code \in JobCodes /\ None \in {None, t}
    BY JobCtlAssumption DEF JobCodes, RunCodes
  <2>3. job'[tmpc'[t]].ctrl = ctrl'[t] /\ job'[tmpc'[t]].owner = t
    BY <2>1, <2>2, NewJobEffects
  <2>4. pc'[t] = "que_lock"
    BY <1>32 DEF JobQue, Goto
  <2> QED
    BY <2>3, <2>4
<1>33. CASE JobResScanAny(t)
  BY <1>33 DEF JobResScanAny, Goto, shared
<1>34. CASE TaskWait(t)
  BY <1>34 DEF TaskWait, Goto, shared
<1>35. CASE JobFault(t)
  BY <1>35 DEF JobFault, Goto, shared
<1> QED
  BY <1>1, <1>2, <1>3, <1>4, <1>5, <1>6, <1>7, <1>8, <1>9, <1>10, <1>11, <1>12, <1>13, <1>14,
     <1>15, <1>16, <1>17, <1>18, <1>19, <1>20, <1>21, <1>22, <1>23, <1>24, <1>25, <1>26, <1>27,
     <1>28, <1>29, <1>30, <1>31, <1>32, <1>33, <1>34, <1>35 DEF Step, Handle, Post, Collect, Wait,
     Call

\* A thread of which t's step says nothing keeps what it knows: its job is not freed, since
\* the thread has it in hand, or since nobody else is inside the list it is on.
LEMMA OthersStep ==
  ASSUME Typed, Typed', ReplyInv, PlaceInv, PlaceInv', LockExclusive, NEW t \in Tasks,
         Local(t), Effects(t), NEW u \in Tasks \ {t}
  PROVE  Own(u)'
<1>1. Own(u)
  BY DEF ReplyInv
<1>2. pc'[u] = pc[u] /\ tmpc'[u] = tmpc[u] /\ saved'[u] = saved[u] /\ ctrl'[u] = ctrl[u]
  BY DEF Local
<1>3. ASSUME InHand(u), tmpc[u] \in Jobs PROVE tmpc[u] \in alive /\ tmpc[u] \in alive'
  <2>1. InHands[u] = tmpc[u] /\ InHands'[u] = tmpc[u]
    BY <1>2, <1>3 DEF InHands, InHand
  <2>2. tmpc[u] \in alive
    BY <1>3, <2>1 DEF PlaceInv, Placed
  <2>3. tmpc[u] \in alive'
    BY <1>3, <2>1 DEF PlaceInv, Placed
  <2> QED
    BY <2>2, <2>3
<1>4. ASSUME pc[u] = "jh_flag" PROVE /\ tmpc[u] \in Elems(done'[ctrl[u]])
                                     /\ tmpc[u] \in alive /\ tmpc[u] \in alive'
  <2>1. tmpc[u] \in Elems(done[ctrl[u]]) /\ tmpc[u] \in Jobs /\ ctrl[u] \in Tasks
    BY <1>1, <1>4 DEF Own, Typed, TypeOK, HasJob, Holding
  <2>2. ~(ctrl[u] = ctrl[t] /\ pc[t] \in Critical)
    BY <1>4 DEF LockExclusive, Critical
  <2>3. done'[ctrl[u]] = done[ctrl[u]]
    BY <2>1, <2>2 DEF Effects, DoneUnder
  <2>4. tmpc[u] \in DoneSets[ctrl[u]] /\ tmpc[u] \in DoneSets'[ctrl[u]]
    BY <2>1, <2>3 DEF DoneSets
  <2>5. tmpc[u] \in alive
    BY <2>1, <2>4 DEF PlaceInv, Placed
  <2>6. tmpc[u] \in alive'
    BY <2>1, <2>4 DEF PlaceInv, Placed
  <2> QED
    BY <2>1, <2>3, <2>5, <2>6
<1>5. ASSUME pc[u] \in Posting \cup Serving
      PROVE  /\ tmpc[u] \in alive
             /\ job'[tmpc[u]].master = job[tmpc[u]].master /\ job'[tmpc[u]].ctrl = job[tmpc[u]].ctrl
             /\ job'[tmpc[u]].owner = job[tmpc[u]].owner
  <2>1. tmpc[u] \in Jobs
    BY <1>5 DEF Typed, HasJob, Holding, Posting, Serving
  <2>2. InHand(u) \/ pc[u] = "jh_flag"
    BY <1>5 DEF InHand, Posting, Serving
  <2>3. tmpc[u] \in alive /\ tmpc[u] \in alive'
    BY <2>1, <2>2, <1>3, <1>4
  <2> QED
    BY <2>3 DEF Effects, JobKept
<1>6. pc[u] \in Replying => /\ job'[tmpc[u]].master = job[tmpc[u]].master
                           /\ job'[tmpc[u]].ctrl = job[tmpc[u]].ctrl
  BY <1>5 DEF Replying, Serving
<1> QED
  BY <1>1, <1>2, <1>4, <1>5, <1>6 DEF Own, ReplyTo

\* A task that has found the list of another empty: what comes on it then is not its own.
NoneOfMine ==
  \A u \in Waiters : pc[u] = "tw_idle" => \A j \in Elems(waiting[ctrl[u]]) : job[j].owner # u

\* Only TaskWait's first test, of an empty list, leads to the second.
LEMMA IdleTest ==
  ASSUME Typed, NEW t \in Tasks, Step(t), pc'[t] = "tw_idle"
  PROVE  waiting'[ctrl'[t]] = <<>>
<1> USE DEF Typed, TypeOK
<1>1. CASE JobsHndlr(t)
  BY <1>1 DEF JobsHndlr, Goto, shared
<1>2. CASE JobsHndlrLock(t)
  BY <1>2 DEF JobsHndlrLock, Lock, Goto
<1>3. CASE JobsHndlrDone(t)
  BY <1>3 DEF JobsHndlrDone, Goto, Unlock
<1>4. CASE JobRunOne(t)
  BY <1>4 DEF JobRunOne, Goto, Unlock
<1>5. CASE JobCall(t)
  BY <1>5 DEF JobCall, Goto
<1>6. CASE JobBody(t)
  BY <1>6 DEF JobBody, shared
<1>7. CASE JobReplyLock(t)
  BY <1>7 DEF JobReplyLock, Lock, Goto
<1>8. CASE JobReplyInsert(t)
  BY <1>8 DEF JobReplyInsert, Goto
<1>9. CASE JobReplyDone(t)
  BY <1>9 DEF JobReplyDone, Goto, Unlock
<1>10. CASE JobMaster(t)
  BY <1>10 DEF JobMaster
<1>11. CASE JobsHndlrSignal(t)
  BY <1>11 DEF JobsHndlrSignal, Goto
<1>12. CASE SrvTaskIdle(t)
  BY <1>12 DEF SrvTaskIdle, Return, Goto
<1>13. CASE TaskEndLock(t)
  BY <1>13 DEF TaskEndLock, Lock, Goto
<1>14. CASE TaskEnd(t)
  BY <1>14 DEF TaskEnd, Goto, Unlock
<1>15. CASE TaskExeLock(t)
  BY <1>15 DEF TaskExeLock, Lock, Goto
<1>16. CASE TaskExeInsert(t)
  BY <1>16 DEF TaskExeInsert, Return, Goto, Enqueue
<1>17. CASE TaskExeInvalid(t)
  BY <1>17 DEF TaskExeInvalid, Return, Goto, GiveUp
<1>18. CASE KernelPostLock(t)
  BY <1>18 DEF KernelPostLock, Lock, Goto
<1>19. CASE KernelPostInsert(t)
  BY <1>19 DEF KernelPostInsert, Return, Goto, Enqueue, GiveUp
<1>20. CASE JobQueLock(t)
  BY <1>20 DEF JobQueLock, Lock, Goto
<1>21. CASE JobQueInsert(t)
  BY <1>21 DEF JobQueInsert, Return, Goto
<1>22. CASE JobResScan(t)
  BY <1>22 DEF JobResScan, Goto, shared
<1>23. CASE JobResScanLock(t)
  BY <1>23 DEF JobResScanLock, Lock, Goto
<1>24. CASE JobResTake(t)
  BY <1>24 DEF JobResTake, Return, Goto
<1>25. CASE JobResNone(t)
  BY <1>25 DEF JobResNone, Return, Goto
<1>26. CASE TaskWaitEmpty(t)
  <2>1. CASE ctrl[t] \in valid
    BY <1>26, <2>1 DEF TaskWaitEmpty, shared
  <2>2. CASE ctrl[t] \notin valid
    BY <1>26, <2>2 DEF TaskWaitEmpty, Return, Goto
  <2> QED
    BY <2>1, <2>2
<1>27. CASE TaskWaitIdle(t)
  BY <1>27 DEF TaskWaitIdle, Return, Goto, shared
<1>28. CASE TaskWaitBlock(t)
  BY <1>28 DEF TaskWaitBlock, Goto
<1>29. CASE TaskWaitWake(t)
  BY <1>29 DEF TaskWaitWake, Goto, shared
<1>30. CASE TaskExe(t)
  BY <1>30 DEF TaskExe, NewJob, Goto
<1>31. CASE KernelPost(t)
  BY <1>31 DEF KernelPost, NewJob, Goto
<1>32. CASE JobQue(t)
  BY <1>32 DEF JobQue, NewJob, Goto
<1>33. CASE JobResScanAny(t)
  BY <1>33 DEF JobResScanAny, Goto, shared
<1>34. CASE TaskWait(t)
  BY <1>34 DEF TaskWait, Goto, shared
<1>35. CASE JobFault(t)
  BY <1>35 DEF JobFault, Goto, shared
<1> QED
  BY <1>1, <1>2, <1>3, <1>4, <1>5, <1>6, <1>7, <1>8, <1>9, <1>10, <1>11, <1>12, <1>13, <1>14,
     <1>15, <1>16, <1>17, <1>18, <1>19, <1>20, <1>21, <1>22, <1>23, <1>24, <1>25, <1>26, <1>27,
     <1>28, <1>29, <1>30, <1>31, <1>32, <1>33, <1>34, <1>35 DEF Step, Handle, Post, Collect, Wait,
     Call

\* The jobs that wait after the step are those that waited, and the one t has posted.
LEMMA WaitStep ==
  ASSUME Typed, Typed', ReplyInv, PlaceInv, PlaceInv', NoneOfMine, NEW t \in Tasks, Step(t)
  PROVE  NoneOfMine'
<1>1. Local(t) /\ Effects(t)
  BY StepIsLocal, EffectsStep
<1> SUFFICES ASSUME NEW u \in Waiters, pc'[u] = "tw_idle", NEW j \in Elems(waiting'[ctrl'[u]])
             PROVE  job'[j].owner # u
  BY DEF NoneOfMine
<1>2. u \in Tasks
  BY JobCtlAssumption
<1>3. CASE u = t
  <2>1. waiting'[ctrl'[u]] = <<>>
    BY <1>3, IdleTest
  <2> QED
    BY <2>1, EmptyElems
<1>4. CASE u # t
  <2>1. pc[u] = "tw_idle" /\ ctrl'[u] = ctrl[u] /\ ctrl[u] \in Tasks
    BY <1>1, <1>2, <1>4 DEF Local, Typed, TypeOK
  <2>2. j \in Jobs
    BY <2>1 DEF Typed, TypeOK, Elems
  <2>3. j \in WaitSets'[ctrl[u]]
    BY <2>1 DEF WaitSets
  <2>4. j \in alive'
    BY <2>1, <2>2, <2>3 DEF PlaceInv, Placed
  <2>5. CASE j \in Elems(waiting[ctrl[u]])
    <3>1. j \in alive
      BY <2>1, <2>2, <2>5 DEF PlaceInv, Placed, WaitSets
    <3>2. job[j].owner # u
      BY <2>1, <2>5 DEF NoneOfMine
    <3> QED
      BY <1>1, <2>4, <3>1, <3>2 DEF Effects, JobKept
  <2>6. CASE pc[t] \in Posting /\ j = tmpc[t]
    <3>1. InHands[t] = j
      BY <2>6 DEF InHands, InHand, Posting
    <3>2. j \in alive
      BY <2>2, <3>1 DEF PlaceInv, Placed
    <3>3. job[j].owner = t
      BY <2>6 DEF ReplyInv, Own
    <3> QED
      BY <1>1, <1>4, <2>4, <3>2, <3>3 DEF Effects, JobKept
  <2> QED
    BY <1>1, <2>1, <2>5, <2>6 DEF Effects, WaitFrom
<1> QED
  BY <1>3, <1>4

LEMMA ReplyStep ==
  ASSUME Typed, Typed', ReplyInv, PlaceInv, PlaceInv', LockExclusive, NEW t \in Tasks, Step(t)
  PROVE  ReplyInv'
<1>1. Local(t) /\ Effects(t) /\ Own(t)'
  BY StepIsLocal, EffectsStep, OwnStep
<1>2. \A u \in Tasks : Own(u)'
  BY <1>1, OthersStep
<1>3. ASSUME NEW c \in Tasks, NEW j \in Elems(waiting'[c]) PROVE job'[j].ctrl = c
  <2>1. j \in Jobs
    BY DEF Typed, TypeOK, Elems
  <2>2. j \in WaitSets'[c]
    BY DEF WaitSets
  <2>3. j \in alive'
    BY <2>1, <2>2 DEF PlaceInv, Placed
  <2>4. CASE j \in Elems(waiting[c])
    <3>1. j \in alive
      BY <2>1, <2>4 DEF PlaceInv, Placed, WaitSets
    <3> QED
      BY <1>1, <2>3, <2>4, <3>1 DEF Effects, JobKept, ReplyInv
  <2>5. CASE pc[t] \in Posting /\ c = ctrl[t] /\ j = tmpc[t]
    <3>1. InHands[t] = j
      BY <2>5 DEF InHands, InHand, Posting
    <3>2. j \in alive
      BY <2>1, <3>1 DEF PlaceInv, Placed
    <3>3. job[j].ctrl = c
      BY <2>5 DEF ReplyInv, Own
    <3> QED
      BY <1>1, <2>3, <3>2, <3>3 DEF Effects, JobKept
  <2> QED
    BY <1>1, <2>4, <2>5 DEF Effects, WaitFrom
<1>4. ASSUME NEW j \in alive', "DONE" \in job'[j].flags
      PROVE  j \in Elems(done'[IF job'[j].master # None THEN job'[j].master ELSE job'[j].ctrl])
  <2>1. /\ j \in alive /\ job'[j].master = job[j].master /\ job'[j].ctrl = job[j].ctrl
        /\ "DONE" \in job[j].flags \/ (pc[t] = "jh_flag" /\ j = tmpc[t])
    BY <1>1, <1>4 DEF Effects, JobKept
  <2>2. j \in Elems(done[ReplyTo(j)])
    BY <2>1 DEF ReplyInv, Own, Replying
  <2>3. ReplyTo(j) \in Tasks
    BY <2>1 DEF ReplyTo, Typed, TypeOK, JobRec
  <2>4. j \in Elems(done'[ReplyTo(j)])
    BY <1>1, <2>2, <2>3 DEF Effects, DoneKept
  <2> QED
    BY <2>1, <2>4 DEF ReplyTo
<1> QED
  BY <1>2, <1>3, <1>4 DEF ReplyInv, ReplyTo

LEMMA InitReply == Init => ReplyInv
<1> SUFFICES ASSUME Init PROVE ReplyInv
  OBVIOUS
<1>1. \A t \in Tasks : pc[t] = "ready" /\ waiting[t] = <<>>
  BY DEF Init
<1>2. alive = {}
  BY DEF Init
<1> QED
  BY <1>1, <1>2, EmptyElems DEF ReplyInv, Own, OwnSteps, Posting, Serving, Replying

IInv == Typed /\ Answering /\ PlaceInv /\ LockExclusive /\ ReplyInv /\ NoneOfMine

LEMMA InitIInv == Init => IInv
<1>1. Init => LockExclusive
  BY DEF Init, LockExclusive, Critical
<1>2. Init => NoneOfMine
  BY JobCtlAssumption DEF Init, NoneOfMine
<1> QED
  BY <1>1, <1>2, InitTyped, InitPlaces, InitReply DEF IInv

LEMMA NextIInv == IInv /\ [Next]_vars => IInv'
<1> SUFFICES ASSUME IInv, [Next]_vars PROVE IInv'
  OBVIOUS
<1>1. Typed /\ Answering /\ PlaceInv /\ LockExclusive /\ ReplyInv /\ NoneOfMine
  BY DEF IInv
<1>2. Typed' /\ Answering' /\ PlaceInv' /\ LockExclusive'
  BY <1>1, TypedStep, PlaceNext, LockStep
<1>3. ReplyInv'
  <2>1. CASE Next
    BY <1>1, <1>2, <2>1, NextIsStep, ReplyStep
  <2>2. CASE UNCHANGED vars
    BY <1>1, <2>2 DEF vars, shared, ReplyInv, Own, ReplyTo
  <2> QED
    BY <2>1, <2>2
<1>4. NoneOfMine'
  <2>1. CASE Next
    BY <1>1, <1>2, <2>1, NextIsStep, WaitStep
  <2>2. CASE UNCHANGED vars
    BY <1>1, <2>2 DEF vars, shared, NoneOfMine
  <2> QED
    BY <2>1, <2>2
<1> QED
  BY <1>2, <1>3, <1>4 DEF IInv

\* JobResScan looks at one list only, the master's or the server's: a job that
\* carries JOBf_DONE and is not freed is on that very list.
THEOREM DoneJobsAreCollectable == Spec => []DoneIsCollectable
<1>1. IInv => DoneIsCollectable
  <2> SUFFICES ASSUME IInv, NEW j \in alive, "DONE" \in job[j].flags
               PROVE  Contains(done[ReplyTo(j)], j)
    BY DEF DoneIsCollectable
  <2>1. j \in Elems(done[ReplyTo(j)])
    BY DEF IInv, ReplyInv
  <2> QED
    BY <2>1 DEF Elems, Contains
<1> QED
  BY <1>1, InitIInv, NextIInv, PTL DEF Spec

\* Nobody collects a job between QueIns and the setting of its JOBf_DONE.
THEOREM RepliesStayOwned == Spec => []ReplyStillOwned
<1>1. IInv => ReplyStillOwned
  <2> SUFFICES ASSUME IInv, NEW t \in Tasks, pc[t] = "jh_flag"
               PROVE  tmpc[t] \in alive /\ Contains(done[ctrl[t]], tmpc[t])
    BY DEF ReplyStillOwned
  <2>1. tmpc[t] \in Elems(done[ctrl[t]]) /\ tmpc[t] \in Jobs /\ ctrl[t] \in Tasks
    BY DEF IInv, ReplyInv, Own, Typed, TypeOK, HasJob, Holding
  <2>2. tmpc[t] \in alive
    BY <2>1 DEF IInv, PlaceInv, Placed, DoneSets
  <2> QED
    BY <2>1, <2>2 DEF Elems, Contains
<1> QED
  BY <1>1, InitIInv, NextIInv, PTL DEF Spec

\* TaskWait looks at the list and at TASKf_IDLE without the lock; even so it
\* does not take a server for idle that has still to start a job of its caller.
THEOREM WaitersSeeStarted == Spec => []WaitSeesStarted
<1>1. IInv => WaitSeesStarted
  <2> SUFFICES ASSUME IInv, NEW t \in Waiters, pc[t] = "tw_idle",
                      NEW j \in Range(waiting[ctrl[t]])
               PROVE  job[j].owner # t
    BY DEF WaitSeesStarted
  <2>1. waiting[ctrl[t]] \in Seq(Jobs)
    BY JobCtlAssumption DEF IInv, Typed, TypeOK
  <2>2. j \in Elems(waiting[ctrl[t]])
    BY <2>1 DEF Range, Elems
  <2> QED
    BY <2>2 DEF IInv, NoneOfMine
<1> QED
  BY <1>1, InitIInv, NextIInv, PTL DEF Spec

-----------------------------------------------------------------------------
(* JobCtl implements JobService: its initial state maps to that of the     *)
(* service, and each of its steps to a step of the service or to none.     *)

ServiceStep == Service!SNext \/ UNCHANGED Service!svars

LEMMA ServesAfter ==
  ASSUME Typed, NEW t \in Tasks, Local(t)
  PROVE  Serves' = [Serves EXCEPT ![t] = IF Busy(t)' THEN tmpc'[t] ELSE None]
<1>1. \A u \in Tasks \ {t} : (Busy(u)' <=> Busy(u)) /\ tmpc'[u] = tmpc[u]
  BY DEF Local, Busy, Running
<1> QED
  BY <1>1 DEF Serves

\* The lists stay as they are, and so does the job the thread runs.
LEMMA Stutter ==
  ASSUME Typed, NEW t \in Tasks, Local(t), UNCHANGED <<waiting, done>>,
         Busy(t)' <=> Busy(t), Busy(t) => tmpc'[t] = tmpc[t]
  PROVE  ServiceStep
<1>1. Serves' = Serves
  BY ServesAfter DEF Serves
<1> QED
  BY <1>1 DEF ServiceStep, Service!svars

\* The job in the hand of a thread that posts is not yet known to the service.
LEMMA NotKnown ==
  ASSUME Typed, PlaceInv, NEW t \in Tasks, pc[t] \in Posting
  PROVE  ~Service!Known(tmpc[t])
<1> DEFINE j == tmpc[t]
<1>1. j \in Jobs /\ InHand(t) /\ ~Busy(t)
  BY DEF Typed, HasJob, Holding, InHand, Posting, Busy, Running
<1>2. InHands[t] = j
  BY <1>1 DEF InHands
<1> HIDE DEF j
<1> SUFFICES ASSUME Service!Known(j) PROVE FALSE
  BY DEF j
<1> PICK u \in Tasks : Contains(waiting[u], j) \/ Serves[u] = j \/ Contains(done[u], j)
  BY DEF Service!Known, Service!Contains, Contains
<1>3. waiting[u] \in Seq(Jobs) /\ done[u] \in Seq(Jobs)
  BY DEF Typed, TypeOK
<1>4. CASE Contains(waiting[u], j)
  <2>1. j \in WaitSets[u]
    BY <1>3, <1>4 DEF Contains, WaitSets, Elems
  <2> QED
    BY <1>1, <1>2, <2>1 DEF PlaceInv, Placed
<1>5. CASE Contains(done[u], j)
  <2>1. j \in DoneSets[u]
    BY <1>3, <1>5 DEF Contains, DoneSets, Elems
  <2> QED
    BY <1>1, <1>2, <2>1 DEF PlaceInv, Placed
<1>6. CASE Serves[u] = j
  <2>1. Busy(u) /\ tmpc[u] = j
    BY <1>1, <1>6, JobCtlAssumption DEF Serves
  <2>2. InHands[u] = j
    BY <2>1 DEF InHands, InHand, Busy, Running
  <2>3. u = t
    BY <1>1, <1>2, <2>2 DEF PlaceInv, Placed
  <2> QED
    BY <1>1, <2>1, <2>3
<1> QED
  BY <1>4, <1>5, <1>6

LEMMA SubmitStep ==
  ASSUME Typed, PlaceInv, NEW t \in Tasks, Local(t), pc[t] \in Posting, pc'[t] = "ready",
         UNCHANGED done, waiting' = [waiting EXCEPT ![ctrl[t]] = Append(@, tmpc[t])]
  PROVE  ServiceStep
<1>1. tmpc[t] \in Jobs /\ ctrl[t] \in Tasks
  BY DEF Typed, TypeOK, HasJob, Holding, Posting
<1>2. Serves' = Serves
  BY ServesAfter DEF Serves, Busy, Running, Posting
<1>3. Service!Submit(ctrl[t], tmpc[t])
  BY <1>2, NotKnown DEF Service!Submit
<1> QED
  BY <1>1, <1>3 DEF ServiceStep, Service!SNext

\* Every step of a thread is a step of the service, or none.
LEMMA StepServes ==
  ASSUME Typed, PlaceInv, Answering, ReplyInv, NEW t \in Tasks, Step(t)
  PROVE  ServiceStep
<1>a. Local(t)
  BY StepIsLocal
<1> USE <1>a
<1>1. CASE JobsHndlr(t)
  <2>1. /\ UNCHANGED <<waiting, done>>
        /\ (Busy(t)' <=> Busy(t)) /\ (Busy(t) => tmpc'[t] = tmpc[t])
    BY <1>1 DEF JobsHndlr, Goto, shared, Busy, Running, Typed, TypeOK
  <2> QED
    BY <2>1, Stutter
<1>2. CASE JobsHndlrLock(t)
  <2>1. /\ UNCHANGED <<waiting, done>>
        /\ (Busy(t)' <=> Busy(t)) /\ (Busy(t) => tmpc'[t] = tmpc[t])
    BY <1>2 DEF JobsHndlrLock, Lock, Goto, Busy, Running, Typed, TypeOK
  <2> QED
    BY <2>1, Stutter
<1>3. CASE JobsHndlrDone(t)
  <2>1. /\ UNCHANGED <<waiting, done>>
        /\ (Busy(t)' <=> Busy(t)) /\ (Busy(t) => tmpc'[t] = tmpc[t])
    BY <1>3 DEF JobsHndlrDone, Goto, Unlock, Busy, Running, Typed, TypeOK
  <2> QED
    BY <2>1, Stutter
<1>4. CASE JobRunOne(t)
  <2>1. /\ pc[t] = "jh_head" /\ pc'[t] = "jh_call" /\ tmpc'[t] = Head(waiting[t])
        /\ waiting[t] # <<>> /\ waiting' = [waiting EXCEPT ![t] = Tail(@)] /\ UNCHANGED done
    BY <1>4 DEF JobRunOne, Goto, Typed, TypeOK
  <2>2. ~Busy(t) /\ Busy(t)'
    BY <2>1 DEF Busy, Running
  <2>3. Serves[t] = None /\ Serves' = [Serves EXCEPT ![t] = Head(waiting[t])]
    BY <2>1, <2>2, ServesAfter DEF Serves
  <2>4. Service!Start(t)
    BY <2>1, <2>3 DEF Service!Start
  <2> QED
    BY <2>4 DEF ServiceStep, Service!SNext
<1>5. CASE JobCall(t)
  <2>1. /\ UNCHANGED <<waiting, done>>
        /\ (Busy(t)' <=> Busy(t)) /\ (Busy(t) => tmpc'[t] = tmpc[t])
    BY <1>5 DEF JobCall, Goto, Busy, Running, Typed, TypeOK
  <2> QED
    BY <2>1, Stutter
<1>6. CASE JobBody(t)
  <2>1. /\ UNCHANGED <<waiting, done>>
        /\ (Busy(t)' <=> Busy(t)) /\ (Busy(t) => tmpc'[t] = tmpc[t])
    BY <1>6 DEF JobBody, shared, Busy, Running, Typed, TypeOK
  <2> QED
    BY <2>1, Stutter
<1>7. CASE JobReplyLock(t)
  <2>1. /\ UNCHANGED <<waiting, done>>
        /\ (Busy(t)' <=> Busy(t)) /\ (Busy(t) => tmpc'[t] = tmpc[t])
    BY <1>7 DEF JobReplyLock, Lock, Goto, Busy, Running, Typed, TypeOK
  <2> QED
    BY <2>1, Stutter
<1>8. CASE JobReplyInsert(t)
  <2>1. /\ pc[t] = "jh_done" /\ pc'[t] = "jh_flag" /\ UNCHANGED waiting
        /\ done' = [done EXCEPT ![ctrl[t]] = Append(@, tmpc[t])]
    BY <1>8 DEF JobReplyInsert, Goto, Typed, TypeOK
  <2>2. tmpc[t] \in Jobs /\ ctrl[t] \in Tasks
    BY <2>1 DEF Typed, TypeOK, HasJob, Holding
  <2>3. Serves[t] = tmpc[t] /\ Serves' = [Serves EXCEPT ![t] = None]
    BY <2>1, ServesAfter DEF Serves, Busy, Running
  <2>4. Service!Finish(t, ctrl[t])
    BY <2>1, <2>2, <2>3, JobCtlAssumption DEF Service!Finish
  <2> QED
    BY <2>2, <2>4 DEF ServiceStep, Service!SNext
<1>9. CASE JobReplyDone(t)
  <2>1. pc[t] = "jh_flag" /\ pc'[t] = "jh_master" /\ UNCHANGED <<waiting, done, saved>>
    BY <1>9 DEF JobReplyDone, Goto, Typed, TypeOK
  <2>2. ~Busy(t) /\ ~Busy(t)'
    BY <2>1 DEF Busy, Running, Answering
  <2> QED
    BY <2>1, <2>2, Stutter
<1>10. CASE JobMaster(t)
  <2>1. pc[t] = "jh_master" /\ pc'[t] \in {"end_lock", "jh_lock"} /\ UNCHANGED <<waiting, done>>
    BY <1>10 DEF JobMaster, Typed, TypeOK
  <2>2. CASE "FREE_ON_COMPLETE" \in saved[t].flags
    <3>1. tmpc[t] \in Jobs
      BY <2>1 DEF Typed, HasJob, Holding
    <3>2. Busy(t) /\ ~Busy(t)'
      BY <2>1, <2>2 DEF Busy, Running
    <3>3. Serves[t] # None /\ Serves' = [Serves EXCEPT ![t] = None]
      BY <3>1, <3>2, ServesAfter, JobCtlAssumption DEF Serves
    <3>4. Service!Discard(t)
      BY <2>1, <3>3 DEF Service!Discard
    <3> QED
      BY <3>4 DEF ServiceStep, Service!SNext
  <2>3. CASE "FREE_ON_COMPLETE" \notin saved[t].flags
    BY <2>1, <2>3, Stutter DEF Busy, Running
  <2> QED
    BY <2>2, <2>3
<1>11. CASE JobsHndlrSignal(t)
  <2>1. /\ UNCHANGED <<waiting, done>>
        /\ (Busy(t)' <=> Busy(t)) /\ (Busy(t) => tmpc'[t] = tmpc[t])
    BY <1>11 DEF JobsHndlrSignal, Goto, Busy, Running, Typed, TypeOK
  <2> QED
    BY <2>1, Stutter
<1>12. CASE SrvTaskIdle(t)
  <2>1. /\ UNCHANGED <<waiting, done>>
        /\ (Busy(t)' <=> Busy(t)) /\ (Busy(t) => tmpc'[t] = tmpc[t])
    BY <1>12 DEF SrvTaskIdle, Return, Goto, Busy, Running, Typed, TypeOK
  <2> QED
    BY <2>1, Stutter
<1>13. CASE TaskEndLock(t)
  <2>1. /\ UNCHANGED <<waiting, done>>
        /\ (Busy(t)' <=> Busy(t)) /\ (Busy(t) => tmpc'[t] = tmpc[t])
    BY <1>13 DEF TaskEndLock, Lock, Goto, Busy, Running, Typed, TypeOK
  <2> QED
    BY <2>1, Stutter
<1>14. CASE TaskEnd(t)
  <2>1. /\ pc[t] = "end_del" /\ pc'[t] = "dead"
        /\ waiting' = [waiting EXCEPT ![t] = <<>>] /\ done' = [done EXCEPT ![t] = <<>>]
    BY <1>14 DEF TaskEnd, Goto, Typed, TypeOK
  <2>2. Serves[t] = None /\ Serves' = Serves
    BY <2>1, ServesAfter DEF Serves, Busy, Running
  <2>3. Service!Retire(t)
    BY <2>1, <2>2 DEF Service!Retire
  <2> QED
    BY <2>3 DEF ServiceStep, Service!SNext
<1>15. CASE TaskExeLock(t)
  <2>1. /\ UNCHANGED <<waiting, done>>
        /\ (Busy(t)' <=> Busy(t)) /\ (Busy(t) => tmpc'[t] = tmpc[t])
    BY <1>15 DEF TaskExeLock, Lock, Goto, Busy, Running, Typed, TypeOK
  <2> QED
    BY <2>1, Stutter
<1>16. CASE TaskExeInsert(t)
  <2>1. /\ pc[t] \in Posting /\ pc'[t] = "ready" /\ UNCHANGED done
        /\ waiting' = [waiting EXCEPT ![ctrl[t]] = Append(@, tmpc[t])]
    BY <1>16 DEF TaskExeInsert, Return, Goto, Enqueue, Posting, Typed, TypeOK
  <2> QED
    BY <2>1, SubmitStep
<1>17. CASE TaskExeInvalid(t)
  <2>1. /\ UNCHANGED <<waiting, done>>
        /\ (Busy(t)' <=> Busy(t)) /\ (Busy(t) => tmpc'[t] = tmpc[t])
    BY <1>17 DEF TaskExeInvalid, Return, Goto, GiveUp, Busy, Running, Typed, TypeOK
  <2> QED
    BY <2>1, Stutter
<1>18. CASE KernelPostLock(t)
  <2>1. /\ UNCHANGED <<waiting, done>>
        /\ (Busy(t)' <=> Busy(t)) /\ (Busy(t) => tmpc'[t] = tmpc[t])
    BY <1>18 DEF KernelPostLock, Lock, Goto, Busy, Running, Typed, TypeOK
  <2> QED
    BY <2>1, Stutter
<1>19. CASE KernelPostInsert(t)
  <2>1. pc[t] \in Posting /\ pc'[t] = "ready" /\ ~Busy(t) /\ ~Busy(t)' /\ UNCHANGED done
    BY <1>19 DEF KernelPostInsert, Return, Goto, Enqueue, GiveUp, Posting, Typed, TypeOK, Busy,
       Running
  <2>2. CASE Enqueue(t)
    BY <2>1, <2>2, SubmitStep DEF Enqueue
  <2>3. CASE GiveUp(t)
    BY <2>1, <2>3, Stutter DEF GiveUp
  <2> QED
    BY <1>19, <2>2, <2>3 DEF KernelPostInsert
<1>20. CASE JobQueLock(t)
  <2>1. /\ UNCHANGED <<waiting, done>>
        /\ (Busy(t)' <=> Busy(t)) /\ (Busy(t) => tmpc'[t] = tmpc[t])
    BY <1>20 DEF JobQueLock, Lock, Goto, Busy, Running, Typed, TypeOK
  <2> QED
    BY <2>1, Stutter
<1>21. CASE JobQueInsert(t)
  <2>1. /\ pc[t] \in Posting /\ pc'[t] = "ready" /\ UNCHANGED done
        /\ waiting' = [waiting EXCEPT ![ctrl[t]] = Append(@, tmpc[t])]
    BY <1>21 DEF JobQueInsert, Return, Goto, Enqueue, Posting, Typed, TypeOK
  <2> QED
    BY <2>1, SubmitStep
<1>22. CASE JobResScan(t)
  <2>1. /\ UNCHANGED <<waiting, done>>
        /\ (Busy(t)' <=> Busy(t)) /\ (Busy(t) => tmpc'[t] = tmpc[t])
    BY <1>22 DEF JobResScan, Goto, shared, Busy, Running, Typed, TypeOK
  <2> QED
    BY <2>1, Stutter
<1>23. CASE JobResScanLock(t)
  <2>1. /\ UNCHANGED <<waiting, done>>
        /\ (Busy(t)' <=> Busy(t)) /\ (Busy(t) => tmpc'[t] = tmpc[t])
    BY <1>23 DEF JobResScanLock, Lock, Goto, Busy, Running, Typed, TypeOK
  <2> QED
    BY <2>1, Stutter
<1>24. CASE JobResTake(t)
  <2>1. pc[t] = "res_scan" /\ pc'[t] = "ready" /\ UNCHANGED waiting /\ ctrl[t] \in Tasks
    BY <1>24 DEF JobResTake, Return, Goto, Typed, TypeOK
  <2>2. PICK i \in 1..Len(done[ctrl[t]]) : done' = [done EXCEPT ![ctrl[t]] = RemoveAt(@, i)]
    BY <1>24 DEF JobResTake, QueRem
  <2>3. Serves' = Serves
    BY <2>1, ServesAfter DEF Serves, Busy, Running
  <2>4. Service!Collect(ctrl[t], i)
    BY <2>1, <2>2, <2>3 DEF Service!Collect, RemoveAt, Service!RemoveAt
  <2> QED
    BY <2>1, <2>4 DEF ServiceStep, Service!SNext
<1>25. CASE JobResNone(t)
  <2>1. /\ UNCHANGED <<waiting, done>>
        /\ (Busy(t)' <=> Busy(t)) /\ (Busy(t) => tmpc'[t] = tmpc[t])
    BY <1>25 DEF JobResNone, Return, Goto, Busy, Running, Typed, TypeOK
  <2> QED
    BY <2>1, Stutter
<1>26. CASE TaskWaitEmpty(t)
  <2>1. /\ UNCHANGED <<waiting, done>>
        /\ (Busy(t)' <=> Busy(t)) /\ (Busy(t) => tmpc'[t] = tmpc[t])
    BY <1>26 DEF TaskWaitEmpty, Return, Goto, shared, Busy, Running, Typed, TypeOK
  <2> QED
    BY <2>1, Stutter
<1>27. CASE TaskWaitIdle(t)
  <2>1. /\ UNCHANGED <<waiting, done>>
        /\ (Busy(t)' <=> Busy(t)) /\ (Busy(t) => tmpc'[t] = tmpc[t])
    BY <1>27 DEF TaskWaitIdle, Return, Goto, shared, Busy, Running, Typed, TypeOK
  <2> QED
    BY <2>1, Stutter
<1>28. CASE TaskWaitBlock(t)
  <2>1. /\ UNCHANGED <<waiting, done>>
        /\ (Busy(t)' <=> Busy(t)) /\ (Busy(t) => tmpc'[t] = tmpc[t])
    BY <1>28 DEF TaskWaitBlock, Goto, Busy, Running, Typed, TypeOK
  <2> QED
    BY <2>1, Stutter
<1>29. CASE TaskWaitWake(t)
  <2>1. /\ UNCHANGED <<waiting, done>>
        /\ (Busy(t)' <=> Busy(t)) /\ (Busy(t) => tmpc'[t] = tmpc[t])
    BY <1>29 DEF TaskWaitWake, Goto, shared, Busy, Running, Typed, TypeOK
  <2> QED
    BY <2>1, Stutter
<1>30. CASE TaskExe(t)
  <2>1. /\ UNCHANGED <<waiting, done>>
        /\ (Busy(t)' <=> Busy(t)) /\ (Busy(t) => tmpc'[t] = tmpc[t])
    BY <1>30 DEF TaskExe, NewJob, Goto, Busy, Running, Typed, TypeOK
  <2> QED
    BY <2>1, Stutter
<1>31. CASE KernelPost(t)
  <2>1. /\ UNCHANGED <<waiting, done>>
        /\ (Busy(t)' <=> Busy(t)) /\ (Busy(t) => tmpc'[t] = tmpc[t])
    BY <1>31 DEF KernelPost, NewJob, Goto, Busy, Running, Typed, TypeOK
  <2> QED
    BY <2>1, Stutter
<1>32. CASE JobQue(t)
  <2>1. /\ UNCHANGED <<waiting, done>>
        /\ (Busy(t)' <=> Busy(t)) /\ (Busy(t) => tmpc'[t] = tmpc[t])
    BY <1>32 DEF JobQue, NewJob, Goto, Busy, Running, Typed, TypeOK
  <2> QED
    BY <2>1, Stutter
<1>33. CASE JobResScanAny(t)
  <2>1. /\ UNCHANGED <<waiting, done>>
        /\ (Busy(t)' <=> Busy(t)) /\ (Busy(t) => tmpc'[t] = tmpc[t])
    BY <1>33 DEF JobResScanAny, Goto, shared, Busy, Running, Typed, TypeOK
  <2> QED
    BY <2>1, Stutter
<1>34. CASE TaskWait(t)
  <2>1. /\ UNCHANGED <<waiting, done>>
        /\ (Busy(t)' <=> Busy(t)) /\ (Busy(t) => tmpc'[t] = tmpc[t])
    BY <1>34 DEF TaskWait, Goto, shared, Busy, Running, Typed, TypeOK
  <2> QED
    BY <2>1, Stutter
<1>35. CASE JobFault(t)
  <2>1. /\ UNCHANGED <<waiting, done>>
        /\ (Busy(t)' <=> Busy(t)) /\ (Busy(t) => tmpc'[t] = tmpc[t])
    BY <1>35 DEF JobFault, Goto, shared, Busy, Running, Typed, TypeOK
  <2> QED
    BY <2>1, Stutter
<1> QED
  BY <1>1, <1>2, <1>3, <1>4, <1>5, <1>6, <1>7, <1>8, <1>9, <1>10, <1>11, <1>12, <1>13, <1>14,
     <1>15, <1>16, <1>17, <1>18, <1>19, <1>20, <1>21, <1>22, <1>23, <1>24, <1>25, <1>26, <1>27,
     <1>28, <1>29, <1>30, <1>31, <1>32, <1>33, <1>34, <1>35 DEF Step, Handle, Post, Collect, Wait,
     Call

\* A client of the job control sees what JobService promises: jobs are started
\* once and in the order they were posted, answered to one list, and collected
\* once, whatever the interleaving.
THEOREM ServiceImplemented == Spec => ImplementsService
<1>1. Init => Service!SInit
  <2> SUFFICES ASSUME Init PROVE Service!SInit
    OBVIOUS
  <2>1. Serves = [t \in Tasks |-> None]
    BY DEF Init, Serves, Busy, Running
  <2> QED
    BY <2>1 DEF Init, Service!SInit
<1>2. IInv /\ [Next]_vars => [Service!SNext]_(Service!svars)
  <2> SUFFICES ASSUME IInv, [Next]_vars PROVE ServiceStep
    BY DEF ServiceStep
  <2>1. CASE Next
    BY <2>1, NextIsStep, StepServes DEF IInv
  <2>2. CASE UNCHANGED vars
    BY <2>2 DEF vars, shared, ServiceStep, Service!svars, Serves, Busy, Running
  <2> QED
    BY <2>1, <2>2
<1> QED
  BY <1>1, <1>2, InitIInv, NextIInv, PTL DEF Spec, ImplementsService, Service!SSpec

-----------------------------------------------------------------------------
(* The address TaskExe returns is used later, by JobResScan, without any   *)
(* lock on the job: when it still is the caller's own job.                 *)

Has(j, f) == f \in job[j].flags

\* What thread t knows of the request it has to collect and of the job in its hand.
Handle1(t) ==
  /\ pc[t] \notin {"end_lock", "end_del"}
  /\ "EXIT_ON_COMPLETE" \notin saved[t].flags
  /\ req[t] # None =>
       req[t] \in alive /\ job[req[t]].owner = t /\ ~Has(req[t], "FREE_ON_COMPLETE")
  /\ pc[t] \in Posting =>
       job[tmpc[t]].owner = t /\ (Has(tmpc[t], "FREE_ON_COMPLETE") \/ req[t] = None)
  /\ pc[t] \in Serving =>
       ("FREE_ON_COMPLETE" \in saved[t].flags <=> Has(tmpc[t], "FREE_ON_COMPLETE"))
  /\ pc[t] = "jh_master" /\ "FREE_ON_COMPLETE" \in saved[t].flags =>
       Has(tmpc[t], "FREE_ON_COMPLETE")
  /\ pc[t] \in {"res_lock", "res_scan"} => tmpc[t] = req[t] /\ req[t] # None

HandleInv ==
  /\ \A t \in Tasks : Handle1(t)
  /\ \A j \in alive : ~Has(j, "EXIT_ON_COMPLETE")

\* What a step of t may do to jobs that are not its own.
JobSame(j) ==
  IF j \in alive
  THEN /\ job'[j].owner = job[j].owner
       /\ \A f \in {"FREE_ON_COMPLETE", "EXIT_ON_COMPLETE"} :
            f \in job'[j].flags <=> f \in job[j].flags
  ELSE "EXIT_ON_COMPLETE" \notin job'[j].flags

FreesNone(t) == \A j \in alive \ alive' : \A u \in Tasks \ {t} : req[u] # j

\* No task scans for just any result, and no server ends.
Undisturbed == AnyScanners = {} /\ \A fl \in FlagSets : "EXIT_ON_COMPLETE" \notin fl

LEMMA QuietHandles ==
  ASSUME NEW t \in Tasks, UNCHANGED <<job, alive>>
  PROVE  (\A j \in alive' : JobSame(j)) /\ FreesNone(t)
  BY DEF JobSame, FreesNone, Has

\* A flag is set in one job.
LEMMA FlagHandles ==
  ASSUME Typed, NEW t \in Tasks, NEW j \in Jobs, NEW f \in {"DISPATCHED", "DONE"},
         UNCHANGED alive, job' = [job EXCEPT ![j].flags = @ \cup {f}]
  PROVE  (\A k \in alive' : JobSame(k)) /\ FreesNone(t)
<1>1. alive \subseteq Jobs
  BY DEF Typed, TypeOK
<1>2. \A k \in Jobs : job'[k].owner = job[k].owner /\ job'[k].flags \in {job[k].flags,
       job[k].flags \cup {f}}
  BY DEF Typed, TypeOK, JobRec
<1> QED
  BY <1>1, <1>2 DEF JobSame, FreesNone, Has

LEMMA NewJobHandles ==
  ASSUME Typed, Undisturbed, NEW t \in Tasks, NEW s \in Tasks, NEW m \in {None, t},
         NEW code \in JobCodes, NEW fl \in FlagSets, NewJob(t, s, m, code, fl)
  PROVE  /\ \A k \in alive' : JobSame(k)
         /\ FreesNone(t)
         /\ job'[tmpc'[t]].owner = t /\ (Has(tmpc[t], "FREE_ON_COMPLETE")' \/ req[t] = None)
         /\ UNCHANGED <<saved, req>>
         /\ \A k \in alive : k \in alive' /\ job'[k] = job[k]
<1>1. PICK j \in Jobs \ alive :
       /\ alive' = alive \cup {j}
       /\ job' = [job EXCEPT ![j] = [code |-> code, master |-> m, ctrl |-> s,
                                     flags |-> fl, owner |-> t]]
       /\ tmpc' = [tmpc EXCEPT ![t] = j]
       /\ UNCHANGED <<saved, req>>
  BY DEF NewJob
<1>2. "FREE_ON_COMPLETE" \in fl \/ req[t] = None
  BY DEF NewJob
<1>3. job'[j].owner = t /\ job'[j].flags = fl /\ \A k \in Jobs \ {j} : job'[k] = job[k]
  BY <1>1 DEF Typed, TypeOK
<1>4. alive \subseteq Jobs /\ tmpc'[t] = j
  BY <1>1 DEF Typed, TypeOK
<1>5. "EXIT_ON_COMPLETE" \notin fl
  BY DEF Undisturbed
<1>6. \A k \in alive' : JobSame(k)
  BY <1>1, <1>3, <1>4, <1>5 DEF JobSame, Has
<1> QED
  BY <1>1, <1>2, <1>3, <1>4, <1>6 DEF FreesNone, Has

\* One job is freed, and nobody else has still to collect it.
LEMMA DelHandles ==
  ASSUME Typed, NEW t \in Tasks, NEW j \in Jobs, JobDel(j), \A u \in Tasks \ {t} : req[u] # j
  PROVE  /\ \A k \in alive' : JobSame(k)
         /\ FreesNone(t)
<1>1. alive \subseteq Jobs /\ alive' = alive \ {j} /\ \A k \in Jobs \ {j} : job'[k] = job[k]
  BY DEF Typed, TypeOK, JobDel
<1> QED
  BY <1>1 DEF JobSame, FreesNone, Has

\* Facts that several actions need.
LEMMA HandleFacts ==
  ASSUME Typed, HandleInv, NEW t \in Tasks
  PROVE  /\ pc[t] \in Posting =>
              tmpc[t] \in Jobs /\ \A u \in Tasks : req[u] # tmpc[t]
         /\ pc[t] = "jh_master" /\ "FREE_ON_COMPLETE" \in saved[t].flags =>
              tmpc[t] \in Jobs /\ \A u \in Tasks : req[u] # tmpc[t]
         /\ pc[t] = "res_scan" => \A u \in Tasks \ {t} : req[u] # tmpc[t]
<1>1. \A u \in Tasks : Handle1(u)
  BY DEF HandleInv
<1>2. pc[t] \in Posting \/ pc[t] = "jh_master" => tmpc[t] \in Jobs
  BY DEF Typed, HasJob, Holding, Posting
<1>3. tmpc[t] \in Jobs => tmpc[t] # None
  BY JobCtlAssumption
<1>4. pc[t] \in Posting => \A u \in Tasks : req[u] # tmpc[t]
  BY <1>1, <1>2, <1>3 DEF Handle1
<1>5. pc[t] = "jh_master" /\ "FREE_ON_COMPLETE" \in saved[t].flags =>
        \A u \in Tasks : req[u] # tmpc[t]
  BY <1>1, <1>2, <1>3 DEF Handle1
<1>6. pc[t] = "res_scan" => \A u \in Tasks \ {t} : req[u] # tmpc[t]
  BY <1>1 DEF Handle1
<1> QED
  BY <1>2, <1>4, <1>5, <1>6

\* JobResScan frees the job it looks for.
LEMMA TakesOwn ==
  ASSUME Typed, HandleInv, NEW t \in Tasks, JobResTake(t)
  PROVE  /\ pc[t] = "res_scan" /\ tmpc[t] \in Jobs /\ JobDel(tmpc[t])
         /\ req' = [req EXCEPT ![t] = None] /\ UNCHANGED saved
<1>1. pc[t] = "res_scan" /\ tmpc[t] = req[t] /\ req[t] # None
  BY DEF HandleInv, Handle1, JobResTake, Return, Goto
<1>2. PICK i \in 1..Len(done[ctrl[t]]) :
        /\ Found(t, i) /\ JobDel(done[ctrl[t]][i])
        /\ req' = [req EXCEPT ![t] = IF @ = done[ctrl[t]][i] THEN None ELSE @]
        /\ UNCHANGED saved
  BY DEF JobResTake
<1>3. done[ctrl[t]][i] = tmpc[t]
  BY <1>1, <1>2 DEF Found
<1> QED
  BY <1>1, <1>2, <1>3 DEF Typed, TypeOK

LEMMA HandlesStep ==
  ASSUME Typed, Undisturbed, HandleInv, NEW t \in Tasks, Step(t)
  PROVE  (\A j \in alive' : JobSame(j)) /\ FreesNone(t)
<1>1. CASE JobsHndlr(t)
  BY <1>1, QuietHandles DEF JobsHndlr, Goto, shared
<1>2. CASE JobsHndlrLock(t)
  BY <1>2, QuietHandles DEF JobsHndlrLock, Lock, Goto
<1>3. CASE JobsHndlrDone(t)
  BY <1>3, QuietHandles DEF JobsHndlrDone, Goto, Unlock
<1>4. CASE JobRunOne(t)
  <2>1. Head(waiting[t]) \in Jobs
    BY <1>4 DEF JobRunOne, Typed, TypeOK
  <2> QED
    BY <1>4, <2>1, FlagHandles DEF JobRunOne
<1>5. CASE JobCall(t)
  BY <1>5, QuietHandles DEF JobCall, Goto
<1>6. CASE JobBody(t)
  BY <1>6, QuietHandles DEF JobBody, shared
<1>7. CASE JobReplyLock(t)
  BY <1>7, QuietHandles DEF JobReplyLock, Lock, Goto
<1>8. CASE JobReplyInsert(t)
  BY <1>8, QuietHandles DEF JobReplyInsert, Goto
<1>9. CASE JobReplyDone(t)
  <2>1. tmpc[t] \in Jobs
    BY <1>9 DEF JobReplyDone, Goto, Typed, HasJob, Holding
  <2> QED
    BY <1>9, <2>1, FlagHandles DEF JobReplyDone
<1>10. CASE JobMaster(t)
  <2>1. CASE "FREE_ON_COMPLETE" \in saved[t].flags
    BY <1>10, <2>1, HandleFacts, DelHandles DEF JobMaster
  <2>2. CASE "FREE_ON_COMPLETE" \notin saved[t].flags
    BY <1>10, <2>2, QuietHandles DEF JobMaster
  <2> QED
    BY <2>1, <2>2
<1>11. CASE JobsHndlrSignal(t)
  BY <1>11, QuietHandles DEF JobsHndlrSignal, Goto
<1>12. CASE SrvTaskIdle(t)
  BY <1>12, QuietHandles DEF SrvTaskIdle, Return, Goto
<1>13. CASE TaskEndLock(t)
  BY <1>13, QuietHandles DEF TaskEndLock, Lock, Goto
<1>14. CASE TaskEnd(t)
  BY <1>14 DEF TaskEnd, Goto, HandleInv, Handle1
<1>15. CASE TaskExeLock(t)
  BY <1>15, QuietHandles DEF TaskExeLock, Lock, Goto
<1>16. CASE TaskExeInsert(t)
  BY <1>16, QuietHandles DEF TaskExeInsert, Return, Goto, Enqueue
<1>17. CASE TaskExeInvalid(t)
  <2>1. pc[t] \in Posting /\ JobDel(tmpc[t])
    BY <1>17 DEF TaskExeInvalid, Return, Goto, GiveUp, Posting
  <2> QED
    BY <2>1, HandleFacts, DelHandles
<1>18. CASE KernelPostLock(t)
  BY <1>18, QuietHandles DEF KernelPostLock, Lock, Goto
<1>19. CASE KernelPostInsert(t)
  <2>1. pc[t] \in Posting
    BY <1>19 DEF KernelPostInsert, Return, Goto, Posting
  <2>2. CASE Enqueue(t)
    BY <2>2, QuietHandles DEF Enqueue
  <2>3. CASE GiveUp(t)
    BY <2>1, <2>3, HandleFacts, DelHandles DEF GiveUp
  <2> QED
    BY <1>19, <2>2, <2>3 DEF KernelPostInsert
<1>20. CASE JobQueLock(t)
  BY <1>20, QuietHandles DEF JobQueLock, Lock, Goto
<1>21. CASE JobQueInsert(t)
  BY <1>21, QuietHandles DEF JobQueInsert, Return, Goto
<1>22. CASE JobResScan(t)
  BY <1>22, QuietHandles DEF JobResScan, Goto, shared
<1>23. CASE JobResScanLock(t)
  BY <1>23, QuietHandles DEF JobResScanLock, Lock, Goto
<1>24. CASE JobResTake(t)
  BY <1>24, TakesOwn, HandleFacts, DelHandles
<1>25. CASE JobResNone(t)
  BY <1>25, QuietHandles DEF JobResNone, Return, Goto
<1>26. CASE TaskWaitEmpty(t)
  BY <1>26, QuietHandles DEF TaskWaitEmpty, Return, Goto, shared
<1>27. CASE TaskWaitIdle(t)
  BY <1>27, QuietHandles DEF TaskWaitIdle, Return, Goto, shared
<1>28. CASE TaskWaitBlock(t)
  BY <1>28, QuietHandles DEF TaskWaitBlock, Goto
<1>29. CASE TaskWaitWake(t)
  BY <1>29, QuietHandles DEF TaskWaitWake, Goto, shared
<1>30. CASE TaskExe(t)
  <2>1. PICK s \in Servers, m \in {None, t}, fl \in FlagSets : NewJob(t, s, m, "EXE_STR", fl)
    BY <1>30 DEF TaskExe
  <2>2. s \in Tasks /\ "EXE_STR" \in JobCodes /\ m \in {None, t}
    BY JobCtlAssumption DEF JobCodes, RunCodes
  <2> QED
    BY <2>1, <2>2, NewJobHandles
<1>31. CASE KernelPost(t)
  <2>1. PICK s \in Servers, m \in {None, t}, code \in KernelCodes, fl \in FlagSets : NewJob(t, s,
           m, code, fl)
    BY <1>31 DEF KernelPost
  <2>2. s \in Tasks /\ code \in JobCodes /\ m \in {None, t}
    BY JobCtlAssumption DEF JobCodes, RunCodes
  <2> QED
    BY <2>1, <2>2, NewJobHandles
<1>32. CASE JobQue(t)
  <2>1. PICK s \in Servers, code \in QueCodes, fl \in FlagSets : NewJob(t, s, None, code, fl)
    BY <1>32 DEF JobQue
  <2>2. s \in Tasks /\ code \in JobCodes /\ None \in {None, t}
    BY JobCtlAssumption DEF JobCodes, RunCodes
  <2> QED
    BY <2>1, <2>2, NewJobHandles
<1>33. CASE JobResScanAny(t)
  BY <1>33, QuietHandles DEF JobResScanAny, Goto, shared
<1>34. CASE TaskWait(t)
  BY <1>34, QuietHandles DEF TaskWait, Goto, shared
<1>35. CASE JobFault(t)
  BY <1>35, QuietHandles DEF JobFault, Goto, shared
<1> QED
  BY <1>1, <1>2, <1>3, <1>4, <1>5, <1>6, <1>7, <1>8, <1>9, <1>10, <1>11, <1>12, <1>13, <1>14,
     <1>15, <1>16, <1>17, <1>18, <1>19, <1>20, <1>21, <1>22, <1>23, <1>24, <1>25, <1>26, <1>27,
     <1>28, <1>29, <1>30, <1>31, <1>32, <1>33, <1>34, <1>35 DEF Step, Handle, Post, Collect, Wait,
     Call

\* The thread that takes the step.
LEMMA HandleOwnStep ==
  ASSUME Typed, Undisturbed, PlaceInv, HandleInv, NEW t \in Tasks, Step(t) PROVE Handle1(t)'
<1>a. Handle1(t)
  BY DEF HandleInv
<1>b. /\ pc \in [Tasks -> PCs] /\ ctrl \in [Tasks -> Tasks] /\ tmpc \in [Tasks -> Jobs \cup {None}]
      /\ req \in [Tasks -> Jobs \cup {None}]
      /\ saved \in [Tasks -> [flags : SUBSET JobFlags, master : Tasks \cup {None}]]
  BY DEF Typed, TypeOK
<1>c. (\A j \in alive' : JobSame(j)) /\ FreesNone(t)
  BY HandlesStep
<1>d. ASSUME req[t] # None, req[t] \in alive'
      PROVE  job'[req[t]].owner = t /\ "FREE_ON_COMPLETE" \notin job'[req[t]].flags
  <2>1. req[t] \in alive /\ job[req[t]].owner = t /\ "FREE_ON_COMPLETE" \notin job[req[t]].flags
    BY <1>a, <1>d DEF Handle1, Has
  <2>2. JobSame(req[t])
    BY <1>c, <1>d
  <2> QED
    BY <2>1, <2>2 DEF JobSame, Has
<1> USE <1>a, <1>b DEF Handle1, Posting, Serving
<1>1. CASE JobsHndlr(t)
  BY <1>1 DEF JobsHndlr, Goto, shared, Has
<1>2. CASE JobsHndlrLock(t)
  BY <1>2 DEF JobsHndlrLock, Lock, Goto, Has
<1>3. CASE JobsHndlrDone(t)
  BY <1>3 DEF JobsHndlrDone, Goto, Unlock, Has
<1>4. CASE JobRunOne(t)
  <2> DEFINE j == Head(waiting[t])
  <2>1. waiting[t] \in Seq(Jobs) /\ waiting[t] # <<>> /\ UNCHANGED <<req, alive>>
    BY <1>4 DEF JobRunOne, Typed, TypeOK
  <2>2. j \in Jobs /\ j \in Elems(waiting[t])
    BY <2>1 DEF Elems
  <2>3. j \in alive
    BY <2>2 DEF PlaceInv, Placed, WaitSets
  <2>4. ~Has(j, "EXIT_ON_COMPLETE")
    BY <2>3 DEF HandleInv
  <2>5. /\ pc'[t] = "jh_call" /\ tmpc'[t] = j /\ saved'[t].flags = job[j].flags
        /\ job'[j].flags = job[j].flags \cup {"DISPATCHED"}
    BY <1>4, <2>2 DEF JobRunOne, Goto, Typed, TypeOK, JobRec
  <2> HIDE DEF j
  <2> QED
    BY <1>d, <2>1, <2>4, <2>5 DEF Has
<1>5. CASE JobCall(t)
  BY <1>5 DEF JobCall, Goto, Has
<1>6. CASE JobBody(t)
  BY <1>6 DEF JobBody, shared, Has
<1>7. CASE JobReplyLock(t)
  BY <1>7 DEF JobReplyLock, Lock, Goto, Has
<1>8. CASE JobReplyInsert(t)
  BY <1>8 DEF JobReplyInsert, Goto, Has
<1>9. CASE JobReplyDone(t)
  <2>1. /\ pc[t] = "jh_flag" /\ pc'[t] = "jh_master" /\ UNCHANGED <<req, alive, saved, tmpc>>
        /\ job' = [job EXCEPT ![tmpc[t]].flags = @ \cup {"DONE"}]
    BY <1>9 DEF JobReplyDone, Goto
  <2>2. tmpc[t] \in Jobs
    BY <2>1 DEF Typed, HasJob, Holding
  <2>3. "FREE_ON_COMPLETE" \in job[tmpc[t]].flags => "FREE_ON_COMPLETE" \in job'[tmpc[t]].flags
    BY <2>1, <2>2 DEF Typed, TypeOK, JobRec
  <2> QED
    BY <1>d, <2>1, <2>3 DEF Has
<1>10. CASE JobMaster(t)
  <2>1. /\ pc[t] = "jh_master" /\ UNCHANGED req
        /\ pc'[t] = "jh_lock" /\ saved'[t].flags = {}
    BY <1>10 DEF JobMaster, NotSaved
  <2>2. CASE "FREE_ON_COMPLETE" \in saved[t].flags
    <3>1. alive' = alive \ {tmpc[t]} /\ req[t] # tmpc[t]
      BY <1>10, <2>1, <2>2, HandleFacts DEF JobMaster, JobDel
    <3> QED
      BY <1>d, <2>1, <3>1 DEF Has
  <2>3. CASE "FREE_ON_COMPLETE" \notin saved[t].flags
    <3>1. alive' = alive
      BY <1>10, <2>3 DEF JobMaster
    <3> QED
      BY <1>d, <2>1, <3>1 DEF Has
  <2> QED
    BY <2>2, <2>3
<1>11. CASE JobsHndlrSignal(t)
  BY <1>11 DEF JobsHndlrSignal, Goto, Has
<1>12. CASE SrvTaskIdle(t)
  <2>1. pc'[t] = "ready" /\ UNCHANGED <<saved, req, job, alive>>
    BY <1>12 DEF SrvTaskIdle, Return, Goto
  <2> QED
    BY <2>1 DEF Has
<1>13. CASE TaskEndLock(t)
  BY <1>13 DEF TaskEndLock, Lock, Goto
<1>14. CASE TaskEnd(t)
  BY <1>14 DEF TaskEnd, Goto
<1>15. CASE TaskExeLock(t)
  BY <1>15 DEF TaskExeLock, Lock, Goto, Has
<1>16. CASE TaskExeInsert(t)
  <2>1. pc[t] \in Posting /\ pc'[t] = "ready" /\ UNCHANGED <<saved, job, alive>>
    BY <1>16 DEF TaskExeInsert, Return, Goto, Enqueue
  <2>2. req' = req \/ (req' = [req EXCEPT ![t] = tmpc[t]] /\ ~Has(tmpc[t], "FREE_ON_COMPLETE"))
    BY <1>16, <2>1 DEF TaskExeInsert, Enqueue, Keep, Has
  <2>3. tmpc[t] \in alive /\ job[tmpc[t]].owner = t
    <3>1. tmpc[t] \in Jobs /\ InHands[t] = tmpc[t]
      BY <2>1 DEF Typed, HasJob, Holding, InHands, InHand
    <3> QED
      BY <2>1, <3>1 DEF PlaceInv, Placed
  <2>4. CASE req' = req
    BY <2>1, <2>4 DEF Has
  <2>5. CASE req' = [req EXCEPT ![t] = tmpc[t]] /\ ~Has(tmpc[t], "FREE_ON_COMPLETE")
    BY <2>1, <2>3, <2>5 DEF Has
  <2> QED
    BY <2>2, <2>4, <2>5
<1>17. CASE TaskExeInvalid(t)
  <2>1. /\ pc[t] \in Posting /\ pc'[t] = "ready" /\ UNCHANGED <<saved, req>>
        /\ alive' = alive \ {tmpc[t]}
    BY <1>17 DEF TaskExeInvalid, Return, Goto, GiveUp, JobDel
  <2>2. req[t] # tmpc[t]
    BY <2>1, HandleFacts
  <2> QED
    BY <1>d, <2>1, <2>2 DEF Has
<1>18. CASE KernelPostLock(t)
  BY <1>18 DEF KernelPostLock, Lock, Goto, Has
<1>19. CASE KernelPostInsert(t)
  <2>0. pc[t] \in Posting /\ pc'[t] = "ready"
    BY <1>19 DEF KernelPostInsert, Return, Goto
  <2>a. CASE GiveUp(t)
    <3>1. UNCHANGED <<saved, req>> /\ alive' = alive \ {tmpc[t]}
      BY <2>a DEF GiveUp, JobDel
    <3>2. req[t] # tmpc[t]
      BY <2>0, HandleFacts
    <3> QED
      BY <1>d, <2>0, <3>1, <3>2 DEF Has
  <2>b. CASE Enqueue(t)
    <3>1. UNCHANGED <<saved, job, alive>>
      BY <2>b DEF Enqueue
    <3>2. req' = req \/ (req' = [req EXCEPT ![t] = tmpc[t]] /\ ~Has(tmpc[t], "FREE_ON_COMPLETE"))
      BY <2>b DEF Enqueue, Keep, Has
    <3>3. tmpc[t] \in alive /\ job[tmpc[t]].owner = t
      <4>1. tmpc[t] \in Jobs /\ InHands[t] = tmpc[t]
        BY <2>0 DEF Typed, HasJob, Holding, InHands, InHand
      <4> QED
        BY <2>0, <4>1 DEF PlaceInv, Placed
    <3>4. CASE req' = req
      BY <2>0, <3>1, <3>4 DEF Has
    <3>5. CASE req' = [req EXCEPT ![t] = tmpc[t]] /\ ~Has(tmpc[t], "FREE_ON_COMPLETE")
      BY <2>0, <3>1, <3>3, <3>5 DEF Has
    <3> QED
      BY <3>2, <3>4, <3>5
  <2> QED
    BY <1>19, <2>a, <2>b DEF KernelPostInsert
<1>20. CASE JobQueLock(t)
  BY <1>20 DEF JobQueLock, Lock, Goto, Has
<1>21. CASE JobQueInsert(t)
  <2>1. pc[t] \in Posting /\ pc'[t] = "ready" /\ UNCHANGED <<saved, job, alive>>
    BY <1>21 DEF JobQueInsert, Return, Goto, Enqueue
  <2>2. req' = req \/ (req' = [req EXCEPT ![t] = tmpc[t]] /\ ~Has(tmpc[t], "FREE_ON_COMPLETE"))
    BY <1>21, <2>1 DEF JobQueInsert, Enqueue, Keep, Has
  <2>3. tmpc[t] \in alive /\ job[tmpc[t]].owner = t
    <3>1. tmpc[t] \in Jobs /\ InHands[t] = tmpc[t]
      BY <2>1 DEF Typed, HasJob, Holding, InHands, InHand
    <3> QED
      BY <2>1, <3>1 DEF PlaceInv, Placed
  <2>4. CASE req' = req
    BY <2>1, <2>4 DEF Has
  <2>5. CASE req' = [req EXCEPT ![t] = tmpc[t]] /\ ~Has(tmpc[t], "FREE_ON_COMPLETE")
    BY <2>1, <2>3, <2>5 DEF Has
  <2> QED
    BY <2>2, <2>4, <2>5
<1>22. CASE JobResScan(t)
  BY <1>22 DEF JobResScan, Goto, shared, Has
<1>23. CASE JobResScanLock(t)
  BY <1>23 DEF JobResScanLock, Lock, Goto, Has
<1>24. CASE JobResTake(t)
  <2>1. pc'[t] = "ready"
    BY <1>24 DEF JobResTake, Return, Goto
  <2>2. req'[t] = None /\ UNCHANGED saved
    BY <1>24, TakesOwn
  <2> QED
    BY <2>1, <2>2
<1>25. CASE JobResNone(t)
  <2>1. pc'[t] = "ready" /\ UNCHANGED <<saved, req, job, alive>>
    BY <1>25 DEF JobResNone, Return, Goto
  <2> QED
    BY <2>1 DEF Has
<1>26. CASE TaskWaitEmpty(t)
  BY <1>26 DEF TaskWaitEmpty, Return, Goto, shared, Has
<1>27. CASE TaskWaitIdle(t)
  BY <1>27 DEF TaskWaitIdle, Return, Goto, shared, Has
<1>28. CASE TaskWaitBlock(t)
  BY <1>28 DEF TaskWaitBlock, Goto, Has
<1>29. CASE TaskWaitWake(t)
  BY <1>29 DEF TaskWaitWake, Goto, shared, Has
<1>30. CASE TaskExe(t)
  <2>1. PICK s \in Servers, m \in {None, t}, fl \in FlagSets : NewJob(t, s, m, "EXE_STR", fl)
    BY <1>30 DEF TaskExe
  <2>2. s \in Tasks /\ "EXE_STR" \in JobCodes /\ m \in {None, t}
    BY JobCtlAssumption DEF JobCodes, RunCodes
  <2>3. /\ job'[tmpc'[t]].owner = t /\ (Has(tmpc[t], "FREE_ON_COMPLETE")' \/ req[t] = None)
        /\ UNCHANGED <<saved, req>>
        /\ \A k \in alive : k \in alive' /\ job'[k] = job[k]
    BY <2>1, <2>2, NewJobHandles
  <2>4. pc'[t] = "exe_lock"
    BY <1>30 DEF TaskExe, Goto
  <2> QED
    BY <2>3, <2>4 DEF Has
<1>31. CASE KernelPost(t)
  <2>1. PICK s \in Servers, m \in {None, t}, code \in KernelCodes, fl \in FlagSets : NewJob(t, s,
           m, code, fl)
    BY <1>31 DEF KernelPost
  <2>2. s \in Tasks /\ code \in JobCodes /\ m \in {None, t}
    BY JobCtlAssumption DEF JobCodes, RunCodes
  <2>3. /\ job'[tmpc'[t]].owner = t /\ (Has(tmpc[t], "FREE_ON_COMPLETE")' \/ req[t] = None)
        /\ UNCHANGED <<saved, req>>
        /\ \A k \in alive : k \in alive' /\ job'[k] = job[k]
    BY <2>1, <2>2, NewJobHandles
  <2>4. pc'[t] = "post_lock"
    BY <1>31 DEF KernelPost, Goto
  <2> QED
    BY <2>3, <2>4 DEF Has
<1>32. CASE JobQue(t)
  <2>1. PICK s \in Servers, code \in QueCodes, fl \in FlagSets : NewJob(t, s, None, code, fl)
    BY <1>32 DEF JobQue
  <2>2. s \in Tasks /\ code \in JobCodes /\ None \in {None, t}
    BY JobCtlAssumption DEF JobCodes, RunCodes
  <2>3. /\ job'[tmpc'[t]].owner = t /\ (Has(tmpc[t], "FREE_ON_COMPLETE")' \/ req[t] = None)
        /\ UNCHANGED <<saved, req>>
        /\ \A k \in alive : k \in alive' /\ job'[k] = job[k]
    BY <2>1, <2>2, NewJobHandles
  <2>4. pc'[t] = "que_lock"
    BY <1>32 DEF JobQue, Goto
  <2> QED
    BY <2>3, <2>4 DEF Has
<1>33. CASE JobResScanAny(t)
  BY <1>33 DEF JobResScanAny, Undisturbed
<1>34. CASE TaskWait(t)
  BY <1>34 DEF TaskWait, Goto, shared, Has
<1>35. CASE JobFault(t)
  BY <1>35 DEF JobFault, Goto, shared, Has
<1> QED
  BY <1>1, <1>2, <1>3, <1>4, <1>5, <1>6, <1>7, <1>8, <1>9, <1>10, <1>11, <1>12, <1>13, <1>14,
     <1>15, <1>16, <1>17, <1>18, <1>19, <1>20, <1>21, <1>22, <1>23, <1>24, <1>25, <1>26, <1>27,
     <1>28, <1>29, <1>30, <1>31, <1>32, <1>33, <1>34, <1>35 DEF Step, Handle, Post, Collect, Wait,
     Call

\* The other threads.
LEMMA HandleOthers ==
  ASSUME Typed, ReplyInv, PlaceInv, PlaceInv', HandleInv, NEW t \in Tasks, Local(t),
         \A j \in alive' : JobSame(j), FreesNone(t), NEW u \in Tasks \ {t},
         pc[u] = "jh_flag" => tmpc[u] \in alive /\ tmpc[u] \in alive'
  PROVE  Handle1(u)'
<1>1. Handle1(u)
  BY DEF HandleInv
<1>2. /\ pc'[u] = pc[u] /\ tmpc'[u] = tmpc[u] /\ saved'[u] = saved[u] /\ req'[u] = req[u]
  BY DEF Local
<1>3. ASSUME req[u] # None
      PROVE  /\ req[u] \in alive' /\ job'[req[u]].owner = u
             /\ "FREE_ON_COMPLETE" \notin job'[req[u]].flags
  <2>1. req[u] \in alive /\ job[req[u]].owner = u /\ ~Has(req[u], "FREE_ON_COMPLETE")
    BY <1>1, <1>3 DEF Handle1
  <2>2. req[u] \in alive'
    BY <2>1 DEF FreesNone
  <2>3. JobSame(req[u])
    BY <2>2
  <2> QED
    BY <2>1, <2>2, <2>3 DEF JobSame, Has
<1>4. ASSUME InHand(u) \/ pc[u] = "jh_flag", tmpc[u] \in Jobs
      PROVE  /\ job'[tmpc[u]].owner = job[tmpc[u]].owner
             /\ "FREE_ON_COMPLETE" \in job'[tmpc[u]].flags <=>
                  "FREE_ON_COMPLETE" \in job[tmpc[u]].flags
  <2>1. CASE InHand(u)
    <3>1. InHands[u] = tmpc[u] /\ InHands'[u] = tmpc[u]
      BY <1>2, <2>1 DEF InHands, InHand
    <3>2. tmpc[u] \in alive
      BY <1>4, <3>1 DEF PlaceInv, Placed
    <3>3. tmpc[u] \in alive'
      BY <1>4, <3>1 DEF PlaceInv, Placed
    <3>4. JobSame(tmpc[u])
      BY <3>3
    <3> QED
      BY <3>2, <3>4 DEF JobSame, Has
  <2>2. CASE pc[u] = "jh_flag"
    <3>1. tmpc[u] \in alive /\ JobSame(tmpc[u])
      BY <2>2
    <3> QED
      BY <3>1 DEF JobSame, Has
  <2> QED
    BY <1>4, <2>1, <2>2
<1>5. pc[u] \in Posting \cup Serving \cup {"jh_master"} => tmpc[u] \in Jobs
  BY DEF Typed, HasJob, Holding, Posting, Serving
<1>6. /\ pc[u] \in Posting => InHand(u)
      /\ pc[u] \in Serving => InHand(u) \/ pc[u] = "jh_flag"
      /\ pc[u] = "jh_master" /\ "FREE_ON_COMPLETE" \in saved[u].flags => InHand(u)
  BY DEF InHand, Posting, Serving
<1> QED
  BY <1>1, <1>2, <1>3, <1>4, <1>5, <1>6 DEF Handle1, Has

LEMMA HandleStep ==
  ASSUME Typed, Typed', Undisturbed, ReplyInv, ReplyInv', PlaceInv, PlaceInv', HandleInv,
       NEW t \in Tasks, Step(t)
  PROVE  HandleInv'
<1>1. Local(t) /\ (\A j \in alive' : JobSame(j)) /\ FreesNone(t) /\ Handle1(t)'
  BY StepIsLocal, HandlesStep, HandleOwnStep
<1>2. ASSUME NEW u \in Tasks \ {t}, pc[u] = "jh_flag" PROVE tmpc[u] \in alive /\ tmpc[u] \in alive'
  <2>1. pc'[u] = "jh_flag" /\ tmpc'[u] = tmpc[u] /\ ctrl'[u] = ctrl[u]
    BY <1>1, <1>2 DEF Local
  <2>2. tmpc[u] \in Jobs /\ ctrl[u] \in Tasks
    BY <1>2 DEF Typed, TypeOK, HasJob, Holding
  <2>3. tmpc[u] \in DoneSets[ctrl[u]]
    BY <1>2, <2>2 DEF ReplyInv, Own, DoneSets
  <2>4. tmpc[u] \in DoneSets'[ctrl[u]]
    BY <2>1, <2>2 DEF ReplyInv, Own, DoneSets
  <2>5. tmpc[u] \in alive
    BY <2>2, <2>3 DEF PlaceInv, Placed
  <2>6. tmpc[u] \in alive'
    BY <2>2, <2>4 DEF PlaceInv, Placed
  <2> QED
    BY <2>5, <2>6
<1>3. \A u \in Tasks : Handle1(u)'
  BY <1>1, <1>2, HandleOthers
<1>4. ASSUME NEW j \in alive' PROVE ~Has(j, "EXIT_ON_COMPLETE")'
  <2>1. JobSame(j)
    BY <1>1
  <2> QED
    BY <2>1 DEF JobSame, HandleInv, Has
<1> QED
  BY <1>3, <1>4 DEF HandleInv

\* If no task scans for any result and no server ends, the address of a job that
\* a task has still to collect is that of its own job: not freed, and not reused.
THEOREM HandlesStayLive == ASSUME Undisturbed PROVE Spec => []HandleLive
<1>1. Init => HandleInv
  <2> SUFFICES ASSUME Init PROVE HandleInv
    OBVIOUS
  <2>1. \A t \in Tasks : pc[t] = "ready" /\ req[t] = None /\ saved[t].flags = {}
    BY DEF Init, NotSaved
  <2>2. alive = {}
    BY DEF Init
  <2> QED
    BY <2>1, <2>2 DEF HandleInv, Handle1, Posting, Serving
<1>2. IInv /\ IInv' /\ HandleInv /\ [Next]_vars => HandleInv'
  <2> SUFFICES ASSUME IInv, IInv', HandleInv, [Next]_vars PROVE HandleInv'
    OBVIOUS
  <2>0. Typed /\ Typed' /\ ReplyInv /\ ReplyInv' /\ PlaceInv /\ PlaceInv'
    BY DEF IInv
  <2>1. CASE Next
    BY <2>0, <2>1, NextIsStep, HandleStep
  <2>2. CASE UNCHANGED vars
    BY <2>2 DEF vars, shared, HandleInv, Handle1, Has
  <2> QED
    BY <2>1, <2>2
<1>3. HandleInv => HandleLive
  BY DEF HandleInv, Handle1, HandleLive
<1> QED
  BY <1>1, <1>2, <1>3, InitIInv, NextIInv, PTL DEF Spec
=============================================================================
