---------------------------- MODULE DisplayProofs ----------------------------
(***************************************************************************)
(* Theorems about Threads and Display for any set of tasks, whichever of   *)
(* them fault, fail or hide, and for any bounds.                           *)
(***************************************************************************)
EXTENDS Display, TLAPS, FiniteSetTheorems, SequenceTheorems, WellFoundedInduction

ThStep(t) == Calling(t) \/ Spawning(t) \/ Starting(t) \/ Dying(t)

\* A thread waits for a task it has created; only Adam's runs the loop, and only there.
Places ==
  /\ \A t \in Threads : pc[t] \in {"sp_wait", "sp_blocked"} => child[t] \in Tasks
  /\ pc[Adam] \in {"ready", "heap", "sp_wait", "sp_blocked", "sig_lock", "sig_exit", "gone", "x11"}
  /\ \A t \in Tasks : pc[t] # "x11"

\* The CCPU of a thread is its own and keeps its own glibc block from the moment it is saved.
Cpus ==
  \A t \in Threads : cpu[t] = t /\ (pc[t] \notin {"none", "init", "gone"} => saved[t] = t)

ThTyped == ThTypeOK /\ Places

LEMMA InitThTyped == Init => ThTyped
<1> SUFFICES ASSUME Init PROVE ThTyped
  OBVIOUS
<1>1. ThTypeOK
  BY ThreadsAssumption DEF Init, ThInit, ThTypeOK, ThPCs, Threads, Tls, Task
<1>2. Places
  BY ThreadsAssumption DEF Init, ThInit, Places, Threads
<1> QED
  BY <1>1, <1>2 DEF ThTyped

LEMMA ThTypedStep == ASSUME ThTyped, NEW t \in Threads, ThStep(t) PROVE ThTypeOK'
<1> USE ThreadsAssumption DEF ThTyped, ThTypeOK, Places, ThPCs, Threads, Tls, Task, regs
<1>1. CASE Spawn(t)
  BY <1>1 DEF Spawn, Exit
<1>2. CASE SpawnFails(t)
  BY <1>2 DEF SpawnFails
<1>3. CASE SpawnBlock(t)
  BY <1>3 DEF SpawnBlock, Goto
<1>4. CASE SpawnWake(t)
  BY <1>4 DEF SpawnWake, Enter
<1>5. CASE StartFails(t)
  BY <1>5 DEF StartFails, Goto
<1>6. CASE TaskInit(t)
  BY <1>6 DEF TaskInit, Goto
<1>7. CASE InsertLock(t)
  BY <1>7 DEF InsertLock, Goto, TcdLock
<1>8. CASE InsertNext(t)
  BY <1>8 DEF InsertNext, Goto
<1>9. CASE InsertFirst(t)
  BY <1>9 DEF InsertFirst, Goto
<1>10. CASE InsertUnlock(t)
  BY <1>10 DEF InsertUnlock, Goto
<1>11. CASE Broadcast(t)
  BY <1>11 DEF Broadcast, Goto, Enter
<1>12. CASE End(t)
  BY <1>12 DEF End, Goto, Exit
<1>13. CASE Fault(t)
  BY <1>13 DEF Fault, Exit
<1>14. CASE SignalLock(t)
  BY <1>14 DEF SignalLock, Goto, TcdLock
<1>15. CASE SignalExit(t)
  BY <1>15 DEF SignalExit, Goto
<1>16. CASE SpawnSpurious(t)
  BY <1>16 DEF SpawnSpurious, Enter
<1>17. CASE HeapCall(t)
  BY <1>17 DEF HeapCall, Goto
<1>18. CASE HeapReturn(t)
  BY <1>18 DEF HeapReturn, Goto
<1>19. CASE EndLock(t)
  BY <1>19 DEF EndLock, Goto
<1> QED
  BY <1>1, <1>2, <1>3, <1>4, <1>5, <1>6, <1>7, <1>8, <1>9, <1>10, <1>11, <1>12, <1>13, <1>14,
     <1>15, <1>16, <1>17, <1>18, <1>19 DEF ThStep, Calling, Spawning, Starting, Dying

LEMMA PlacesStep == ASSUME ThTyped, NEW t \in Threads, ThStep(t) PROVE Places'
<1> USE ThreadsAssumption DEF ThTyped, ThTypeOK, Places, ThPCs, Threads
<1>1. CASE Spawn(t)
  BY <1>1 DEF Spawn
<1>2. CASE SpawnFails(t)
  BY <1>2 DEF SpawnFails
<1>3. CASE SpawnBlock(t)
  BY <1>3 DEF SpawnBlock, Goto
<1>4. CASE SpawnWake(t)
  BY <1>4 DEF SpawnWake
<1>5. CASE StartFails(t)
  BY <1>5 DEF StartFails, Goto
<1>6. CASE TaskInit(t)
  BY <1>6 DEF TaskInit, Goto
<1>7. CASE InsertLock(t)
  BY <1>7 DEF InsertLock, Goto, TcdLock
<1>8. CASE InsertNext(t)
  BY <1>8 DEF InsertNext, Goto
<1>9. CASE InsertFirst(t)
  BY <1>9 DEF InsertFirst, Goto
<1>10. CASE InsertUnlock(t)
  BY <1>10 DEF InsertUnlock, Goto
<1>11. CASE Broadcast(t)
  BY <1>11 DEF Broadcast, Goto
<1>12. CASE End(t)
  BY <1>12 DEF End, Goto
<1>13. CASE Fault(t)
  BY <1>13 DEF Fault
<1>14. CASE SignalLock(t)
  BY <1>14 DEF SignalLock, Goto, TcdLock
<1>15. CASE SignalExit(t)
  BY <1>15 DEF SignalExit, Goto
<1>16. CASE SpawnSpurious(t)
  BY <1>16 DEF SpawnSpurious
<1>17. CASE HeapCall(t)
  BY <1>17 DEF HeapCall, Goto
<1>18. CASE HeapReturn(t)
  BY <1>18 DEF HeapReturn, Goto
<1>19. CASE EndLock(t)
  BY <1>19 DEF EndLock, Goto
<1> QED
  BY <1>1, <1>2, <1>3, <1>4, <1>5, <1>6, <1>7, <1>8, <1>9, <1>10, <1>11, <1>12, <1>13, <1>14,
     <1>15, <1>16, <1>17, <1>18, <1>19 DEF ThStep, Calling, Spawning, Starting, Dying

LEMMA CpusStep == ASSUME ThTyped, Cpus, NEW t \in Threads, ThStep(t) PROVE Cpus'
<1> USE ThreadsAssumption DEF ThTyped, ThTypeOK, Places, Cpus, ThPCs, Threads, regs
<1>1. CASE Spawn(t)
  BY <1>1 DEF Spawn
<1>2. CASE SpawnFails(t)
  BY <1>2 DEF SpawnFails
<1>3. CASE SpawnBlock(t)
  BY <1>3 DEF SpawnBlock, Goto
<1>4. CASE SpawnWake(t)
  BY <1>4 DEF SpawnWake
<1>5. CASE StartFails(t)
  BY <1>5 DEF StartFails, Goto
<1>6. CASE TaskInit(t)
  BY <1>6 DEF TaskInit, Goto
<1>7. CASE InsertLock(t)
  BY <1>7 DEF InsertLock, Goto, TcdLock
<1>8. CASE InsertNext(t)
  BY <1>8 DEF InsertNext, Goto
<1>9. CASE InsertFirst(t)
  BY <1>9 DEF InsertFirst, Goto
<1>10. CASE InsertUnlock(t)
  BY <1>10 DEF InsertUnlock, Goto
<1>11. CASE Broadcast(t)
  BY <1>11 DEF Broadcast, Goto
<1>12. CASE End(t)
  BY <1>12 DEF End, Goto
<1>13. CASE Fault(t)
  BY <1>13 DEF Fault
<1>14. CASE SignalLock(t)
  BY <1>14 DEF SignalLock, Goto, TcdLock
<1>15. CASE SignalExit(t)
  BY <1>15 DEF SignalExit, Goto
<1>16. CASE SpawnSpurious(t)
  BY <1>16 DEF SpawnSpurious
<1>17. CASE HeapCall(t)
  BY <1>17 DEF HeapCall, Goto
<1>18. CASE HeapReturn(t)
  BY <1>18 DEF HeapReturn, Goto
<1>19. CASE EndLock(t)
  BY <1>19 DEF EndLock, Goto
<1> QED
  BY <1>1, <1>2, <1>3, <1>4, <1>5, <1>6, <1>7, <1>8, <1>9, <1>10, <1>11, <1>12, <1>13, <1>14,
     <1>15, <1>16, <1>17, <1>18, <1>19 DEF ThStep, Calling, Spawning, Starting, Dying

\* A step of a thread leaves the loop alone, and moves Adam's only outside of it.
LEMMA OwnFsThread ==
  ASSUME ThTyped, Cpus, OwnFs, xpc' = xpc, NEW t \in Threads, ThStep(t) PROVE OwnFs'
<1> USE ThreadsAssumption DEF ThTyped, ThTypeOK, Places, Cpus, OwnFs, InTempleOS, ThPCs, Threads,
       Tls, Task, regs
<1>1. CASE Spawn(t)
  BY <1>1 DEF Spawn, Exit
<1>2. CASE SpawnFails(t)
  BY <1>2 DEF SpawnFails
<1>3. CASE SpawnBlock(t)
  BY <1>3 DEF SpawnBlock, Goto
<1>4. CASE SpawnWake(t)
  BY <1>4 DEF SpawnWake, Enter
<1>5. CASE StartFails(t)
  BY <1>5 DEF StartFails, Goto
<1>6. CASE TaskInit(t)
  BY <1>6 DEF TaskInit, Goto
<1>7. CASE InsertLock(t)
  BY <1>7 DEF InsertLock, Goto, TcdLock
<1>8. CASE InsertNext(t)
  BY <1>8 DEF InsertNext, Goto
<1>9. CASE InsertFirst(t)
  BY <1>9 DEF InsertFirst, Goto
<1>10. CASE InsertUnlock(t)
  BY <1>10 DEF InsertUnlock, Goto
<1>11. CASE Broadcast(t)
  BY <1>11 DEF Broadcast, Goto, Enter
<1>12. CASE End(t)
  BY <1>12 DEF End, Goto, Exit
<1>13. CASE Fault(t)
  BY <1>13 DEF Fault, Exit
<1>14. CASE SignalLock(t)
  BY <1>14 DEF SignalLock, Goto, TcdLock
<1>15. CASE SignalExit(t)
  BY <1>15 DEF SignalExit, Goto
<1>16. CASE SpawnSpurious(t)
  BY <1>16 DEF SpawnSpurious, Enter
<1>17. CASE HeapCall(t)
  BY <1>17 DEF HeapCall, Goto
<1>18. CASE HeapReturn(t)
  BY <1>18 DEF HeapReturn, Goto
<1>19. CASE EndLock(t)
  BY <1>19 DEF EndLock, Goto
<1> QED
  BY <1>1, <1>2, <1>3, <1>4, <1>5, <1>6, <1>7, <1>8, <1>9, <1>10, <1>11, <1>12, <1>13, <1>14,
     <1>15, <1>16, <1>17, <1>18, <1>19 DEF ThStep, Calling, Spawning, Starting, Dying

-----------------------------------------------------------------------------
(* The loop.                                                               *)

\* Where Adam is when he has not come to the loop yet.
Before == {"ready", "heap", "sp_wait", "sp_blocked"}

\* What the loop is about to do, and with which device context.
Loop ==
  /\ xpc # "off" <=> pc[Adam] = "x11"
  /\ xpc \in {"create", "swap", "draw"} => cur \in Threads
  /\ xpc \in {"swap", "draw"} => cur \in win
  /\ pc[Adam] \in Before \cup {"x11"} => \A t \in win : tidc[t] \in Threads
  /\ xpc = "draw" => dc = Adam
  /\ pc[Adam] \in Before => dc2 = Adam

DisplayVars == <<xpc, cur, dcs, shown, wins, queue, pipe, event, missed, moves>>

LEMMA ThreadIsStep ==
  ASSUME Thread PROVE UNCHANGED DisplayVars /\ \E t \in Threads : ThStep(t)
  BY DEF Thread, ThNext, ThStep, DisplayVars

DTypeOK ==
  /\ xpc \in XPCs /\ cur \in Threads \cup {None}
  /\ dc2 \in Threads /\ dc \in Threads /\ tidc \in [Threads -> Threads \cup {None}]
  /\ shown \subseteq Threads /\ win \subseteq Threads
  /\ failed \subseteq win /\ used \subseteq win /\ nomap \subseteq win /\ missed \subseteq win
  /\ queue \in Seq([kind : Kinds, win : win]) /\ pipe \in Seq([kind : Kinds, win : win])
  /\ event = NoEvent \/ event \in [kind : Kinds, win : win]
  /\ moves \in 0..MaxWork

LEMMA TypeParts == TypeOK <=> ThTypeOK /\ DTypeOK
  BY DEF TypeOK, DTypeOK

LoopStep == X11Start \/ Redraw \/ CreateFault \/ DrawFault \/ HandleEvent
            \/ KeyPosted \/ ServerAnswers
UserStep == Work < MaxWork /\ \E t \in Threads : Input(t) \/ ShowOrHide(t)

LEMMA NextIs ==
  Next => \/ Thread
          \/ LoopStep
          \/ UserStep
  BY DEF Next, LoopStep, UserStep

LEMMA AppendTyped ==
  ASSUME NEW S, NEW q \in Seq(S), NEW e \in S PROVE Append(q, e) \in Seq(S)
  OBVIOUS

LEMMA HeadTyped ==
  ASSUME NEW S, NEW q \in Seq(S), q # <<>> PROVE Head(q) \in S /\ Tail(q) \in Seq(S)
  OBVIOUS

\* A list of elements of a set is one of elements of a larger set.
LEMMA MoreElements ==
  ASSUME NEW S, NEW T, S \subseteq T, NEW q \in Seq(S) PROVE q \in Seq(T)
<1>1. PICK n \in Nat : q \in [1..n -> S]
  BY SeqDef
<1>2. q \in [1..n -> T]
  BY <1>1
<1> QED
  BY <1>2, SeqDef

LEMMA MoreWindows ==
  ASSUME NEW W, NEW V, W \subseteq V, NEW q \in Seq([kind : Kinds, win : W])
  PROVE  q \in Seq([kind : Kinds, win : V])
<1>1. [kind : Kinds, win : W] \subseteq [kind : Kinds, win : V]
  OBVIOUS
<1> QED
  BY <1>1, MoreElements

\* Work counts in Nat, so a step below its bound leaves moves below it.
LEMMA MovesBound == ASSUME moves \in Nat, Work < MaxWork PROVE moves + 1 \in 0..MaxWork
<1> DEFINE Born == {t \in Tasks : pc[t] # "none"}
<1>1. IsFiniteSet(Born)
  BY FS_Subset, ThreadsAssumption DEF ThreadsAssumption
<1>2. Cardinality(Born) \in Nat
  BY <1>1, FS_CardinalityType
<1>3. moves + Cardinality(Born) < MaxWork
  BY DEF Work
<1> QED
  BY <1>2, <1>3, DisplayAssumption DEF DisplayAssumption

LEMMA LoopThTyped == ASSUME ThTyped, DTypeOK, Loop, LoopStep PROVE ThTyped'
<1> USE ThreadsAssumption DEF ThTyped, ThTypeOK, Places, DTypeOK, Loop, Before, thvars, regs,
       ThPCs, Threads, Tls, Task
<1>1. CASE X11Start
  BY <1>1 DEF X11Start, Goto, XGoto, Exit
<1>2. CASE Poll
  BY <1>2 DEF Poll, XGoto, ThUnchanged
<1>3. CASE RedrawLock
  BY <1>3 DEF RedrawLock, XGoto, TcdLock
<1>4. CASE Visit
  BY <1>4 DEF Visit, ThUnchanged
<1>5. CASE CreateWindow
  BY <1>5 DEF CreateWindow, ThUnchanged
<1>6. CASE CreateFault
  BY <1>6 DEF CreateFault, XGoto, Goto
<1>7. CASE Swap
  BY <1>7 DEF Swap, XGoto, Enter
<1>8. CASE DrawFault
  BY <1>8 DEF DrawFault, XGoto, Goto, Exit
<1>9. CASE Draw
  BY <1>9 DEF Draw, XGoto, TcdLock, Exit
<1>10. CASE RedrawEnd
  BY <1>10 DEF RedrawEnd, XGoto
<1>11. CASE Sync
  BY <1>11 DEF Sync, XGoto, ThUnchanged
<1>12. CASE XNextEvent
  BY <1>12 DEF XNextEvent, XGoto, ThUnchanged
<1>13. CASE Exposed
  BY <1>13 DEF Exposed, Handles, ThUnchanged
<1>14. CASE ExposedFailed
  <2>1. CASE Goto(Adam, "x11", "gone") /\ exited' = TRUE
    BY <1>14, <2>1 DEF ExposedFailed, Goto
  <2>2. CASE UNCHANGED <<pc, exited>>
    BY <1>14, <2>2 DEF ExposedFailed
  <2> QED
    BY <1>14, <2>1, <2>2 DEF ExposedFailed
<1>15. CASE KeyPressed
  BY <1>15 DEF KeyPressed, Handles, Enter
<1>16. CASE Completed
  BY <1>16 DEF Completed, Handles, ThUnchanged
<1>17. CASE ServerAnswers
  BY <1>17 DEF ServerAnswers, ThUnchanged
<1>18. CASE KeyPosted
  BY <1>18 DEF KeyPosted, XGoto, Exit
<1> QED
  BY <1>1, <1>2, <1>3, <1>4, <1>5, <1>6, <1>7, <1>8, <1>9, <1>10, <1>11, <1>12, <1>13, <1>14,
     <1>15, <1>16, <1>17, <1>18 DEF LoopStep, Redraw, HandleEvent

LEMMA LoopFs == ASSUME ThTyped, Cpus, OwnFs, Loop, DTypeOK, LoopStep PROVE Cpus' /\ OwnFs'
<1> USE ThreadsAssumption DEF ThTyped, ThTypeOK, Places, Cpus, OwnFs, InTempleOS, Loop, Before,
       DTypeOK, XPCs, thvars, regs, ThPCs, Threads, Tls, Task
<1>1. CASE X11Start
  BY <1>1 DEF X11Start, Goto, XGoto, Exit
<1>2. CASE Poll
  BY <1>2 DEF Poll, XGoto, ThUnchanged
<1>3. CASE RedrawLock
  BY <1>3 DEF RedrawLock, XGoto, TcdLock
<1>4. CASE Visit
  BY <1>4 DEF Visit, ThUnchanged
<1>5. CASE CreateWindow
  BY <1>5 DEF CreateWindow, ThUnchanged
<1>6. CASE CreateFault
  BY <1>6 DEF CreateFault, XGoto, Goto
<1>7. CASE Swap
  BY <1>7 DEF Swap, XGoto, Enter
<1>8. CASE DrawFault
  BY <1>8 DEF DrawFault, XGoto, Goto, Exit
<1>9. CASE Draw
  BY <1>9 DEF Draw, XGoto, TcdLock, Exit
<1>10. CASE RedrawEnd
  BY <1>10 DEF RedrawEnd, XGoto
<1>11. CASE Sync
  BY <1>11 DEF Sync, XGoto, ThUnchanged
<1>12. CASE XNextEvent
  BY <1>12 DEF XNextEvent, XGoto, ThUnchanged
<1>13. CASE Exposed
  BY <1>13 DEF Exposed, Handles, ThUnchanged
<1>14. CASE ExposedFailed
  BY <1>14 DEF ExposedFailed, Handles, Goto
<1>15. CASE KeyPressed
  BY <1>15 DEF KeyPressed, Handles, Enter
<1>16. CASE Completed
  BY <1>16 DEF Completed, Handles, ThUnchanged
<1>17. CASE ServerAnswers
  BY <1>17 DEF ServerAnswers, ThUnchanged
<1>18. CASE KeyPosted
  BY <1>18 DEF KeyPosted, XGoto, Exit
<1> QED
  BY <1>1, <1>2, <1>3, <1>4, <1>5, <1>6, <1>7, <1>8, <1>9, <1>10, <1>11, <1>12, <1>13, <1>14,
     <1>15, <1>16, <1>17, <1>18 DEF LoopStep, Redraw, HandleEvent

LEMMA LoopLoop == ASSUME ThTyped, Loop, OwnContext, DTypeOK, LoopStep PROVE Loop' /\ OwnContext'
<1> USE ThreadsAssumption DEF ThTyped, ThTypeOK, Places, OwnContext, Loop, Before, DTypeOK, XPCs,
       dcs, wins, thvars, ThPCs, Threads
<1>1. CASE X11Start
  BY <1>1 DEF X11Start, Goto, XGoto
<1>2. CASE Poll
  BY <1>2 DEF Poll, XGoto, ThUnchanged
<1>3. CASE RedrawLock
  BY <1>3 DEF RedrawLock, XGoto, TcdLock
<1>4. CASE Visit
  BY <1>4 DEF Visit, ThUnchanged
<1>5. CASE CreateWindow
  BY <1>5 DEF CreateWindow, ThUnchanged
<1>6. CASE CreateFault
  BY <1>6 DEF CreateFault, XGoto, Goto
<1>7. CASE Swap
  BY <1>7 DEF Swap, XGoto
<1>8. CASE DrawFault
  BY <1>8 DEF DrawFault, XGoto, Goto
<1>9. CASE Draw
  BY <1>9 DEF Draw, XGoto, TcdLock
<1>10. CASE RedrawEnd
  BY <1>10 DEF RedrawEnd, XGoto
<1>11. CASE Sync
  BY <1>11 DEF Sync, XGoto, ThUnchanged
<1>12. CASE XNextEvent
  BY <1>12 DEF XNextEvent, XGoto, ThUnchanged
<1>13. CASE Exposed
  BY <1>13 DEF Exposed, Handles, ThUnchanged
<1>14. CASE ExposedFailed
  BY <1>14 DEF ExposedFailed, Handles, Goto
<1>15. CASE KeyPressed
  BY <1>15 DEF KeyPressed, Handles
<1>16. CASE Completed
  BY <1>16 DEF Completed, Handles, ThUnchanged
<1>17. CASE ServerAnswers
  BY <1>17 DEF ServerAnswers, ThUnchanged
<1>18. CASE KeyPosted
  BY <1>18 DEF KeyPosted, XGoto
<1> QED
  BY <1>1, <1>2, <1>3, <1>4, <1>5, <1>6, <1>7, <1>8, <1>9, <1>10, <1>11, <1>12, <1>13, <1>14,
     <1>15, <1>16, <1>17, <1>18 DEF LoopStep, Redraw, HandleEvent

\* What a thread does outside of the loop keeps Adam in it or out of it.
LEMMA AdamKept ==
  ASSUME ThTyped, NEW t \in Threads, ThStep(t)
  PROVE  (pc'[Adam] = "x11" <=> pc[Adam] = "x11") /\ (pc'[Adam] \in Before => pc[Adam] \in Before)
<1> USE ThreadsAssumption DEF ThTyped, ThTypeOK, Places, Before, ThPCs, Threads
<1>1. CASE Spawn(t)
  BY <1>1 DEF Spawn
<1>2. CASE SpawnFails(t)
  BY <1>2 DEF SpawnFails
<1>3. CASE SpawnBlock(t)
  BY <1>3 DEF SpawnBlock, Goto
<1>4. CASE SpawnWake(t)
  BY <1>4 DEF SpawnWake
<1>5. CASE StartFails(t)
  BY <1>5 DEF StartFails, Goto
<1>6. CASE TaskInit(t)
  BY <1>6 DEF TaskInit, Goto
<1>7. CASE InsertLock(t)
  BY <1>7 DEF InsertLock, Goto, TcdLock
<1>8. CASE InsertNext(t)
  BY <1>8 DEF InsertNext, Goto
<1>9. CASE InsertFirst(t)
  BY <1>9 DEF InsertFirst, Goto
<1>10. CASE InsertUnlock(t)
  BY <1>10 DEF InsertUnlock, Goto
<1>11. CASE Broadcast(t)
  BY <1>11 DEF Broadcast, Goto
<1>12. CASE End(t)
  BY <1>12 DEF End, Goto
<1>13. CASE Fault(t)
  BY <1>13 DEF Fault
<1>14. CASE SignalLock(t)
  BY <1>14 DEF SignalLock, Goto, TcdLock
<1>15. CASE SignalExit(t)
  BY <1>15 DEF SignalExit, Goto
<1>16. CASE SpawnSpurious(t)
  BY <1>16 DEF SpawnSpurious
<1>17. CASE HeapCall(t)
  BY <1>17 DEF HeapCall, Goto
<1>18. CASE HeapReturn(t)
  BY <1>18 DEF HeapReturn, Goto
<1>19. CASE EndLock(t)
  BY <1>19 DEF EndLock, Goto
<1> QED
  BY <1>1, <1>2, <1>3, <1>4, <1>5, <1>6, <1>7, <1>8, <1>9, <1>10, <1>11, <1>12, <1>13, <1>14,
     <1>15, <1>16, <1>17, <1>18, <1>19 DEF ThStep, Calling, Spawning, Starting, Dying

LEMMA LoopDTyped == ASSUME ThTyped, DTypeOK, Loop, LoopStep PROVE DTypeOK'
<1> USE ThreadsAssumption DEF ThTyped, ThTypeOK, DTypeOK, Loop, Before, dcs, wins, thvars, Threads
<1>1. CASE X11Start
  BY <1>1 DEF X11Start, XGoto, XPCs
<1>2. CASE Poll
  BY <1>2 DEF Poll, XGoto, ThUnchanged, XPCs
<1>3. CASE RedrawLock
  BY <1>3 DEF RedrawLock, XGoto, XPCs
<1>4. CASE Visit
  BY <1>4 DEF Visit, ThUnchanged, XPCs
<1>5. CASE CreateWindow
  <2> USE <1>5 DEF CreateWindow, ThUnchanged
  <2>1. win' = win \cup {cur} /\ win \subseteq win' /\ cur \in win' /\ win' \subseteq Threads
    OBVIOUS
  <2>2. queue \in Seq([kind : Kinds, win : win']) /\ pipe \in Seq([kind : Kinds, win : win'])
    BY <2>1, MoreWindows
  <2>3. Event("Expose", cur) \in [kind : Kinds, win : win']
    BY <2>1 DEF Kinds, Event
  <2>4. pipe' \in Seq([kind : Kinds, win : win'])
    BY <2>2, <2>3, AppendTyped
  <2>5. tidc' \in [Threads -> Threads \cup {None}]
    OBVIOUS
  <2>7. event = NoEvent \/ event \in [kind : Kinds, win : win']
    BY <2>1
  <2>6. failed' \subseteq win' /\ nomap' \subseteq win' /\ xpc' \in XPCs
        /\ cur' \in Threads \cup {None}
    BY <2>1 DEF XPCs
  <2> QED
    BY <2>1, <2>2, <2>4, <2>5, <2>6, <2>7
<1>6. CASE CreateFault
  <2> USE <1>6 DEF CreateFault, XGoto
  <2>1. win' = win \cup {cur} /\ win \subseteq win' /\ cur \in win' /\ win' \subseteq Threads
    OBVIOUS
  <2>2. queue \in Seq([kind : Kinds, win : win']) /\ pipe \in Seq([kind : Kinds, win : win'])
    BY <2>1, MoreWindows
  <2>3. Event("Expose", cur) \in [kind : Kinds, win : win']
    BY <2>1 DEF Kinds, Event
  <2>4. pipe' \in Seq([kind : Kinds, win : win'])
    BY <2>2, <2>3, AppendTyped
  <2> QED
    BY <2>1, <2>2, <2>4 DEF XPCs
<1>7. CASE Swap
  BY <1>7 DEF Swap, XGoto, XPCs
<1>8. CASE DrawFault
  BY <1>8 DEF DrawFault, XGoto, XPCs
<1>9. CASE Draw
  <2> USE <1>9 DEF Draw, XGoto
  <2>1. Event("Expose", cur) \in [kind : Kinds, win : win]
    BY DEF Kinds, Event
  <2>2. pipe' \in Seq([kind : Kinds, win : win])
    BY <2>1, AppendTyped
  <2> QED
    BY <2>2 DEF XPCs
<1>10. CASE RedrawEnd
  BY <1>10 DEF RedrawEnd, XGoto, XPCs
<1>11. CASE Sync
  BY <1>11 DEF Sync, XGoto, ThUnchanged, XPCs
<1>12. CASE XNextEvent
  <2>1. event' \in [kind : Kinds, win : win] /\ queue' \in Seq([kind : Kinds, win : win])
    BY <1>12, HeadTyped DEF XNextEvent
  <2> QED
    BY <1>12, <2>1 DEF XNextEvent, XGoto, ThUnchanged, XPCs
<1>13. CASE Exposed
  <2> USE <1>13 DEF Exposed, Handles, ThUnchanged
  <2>1. event.win \in win /\ Event("Completion", event.win) \in [kind : Kinds, win : win]
    BY DEF NoEvent, Kinds, Event
  <2>2. pipe' \in Seq([kind : Kinds, win : win])
    <3>1. CASE Found
      <4>1. pipe' = Append(pipe, Event("Completion", event.win))
        BY <3>1
      <4>2. pipe \in Seq([kind : Kinds, win : win])
        OBVIOUS
      <4> HIDE DEF DTypeOK
      <4> QED
        BY <2>1, <4>1, <4>2, AppendTyped
    <3>2. CASE ~Found
      BY <3>2
    <3> QED
      BY <3>1, <3>2
  <2> QED
    BY <2>1, <2>2 DEF XPCs
<1>14. CASE ExposedFailed
  <2> USE <1>14 DEF ExposedFailed, Handles
  <2>1. event.win \in win
    BY DEF NoEvent, Kinds
  <2>2. used' \subseteq win /\ xpc' \in XPCs
    BY <2>1 DEF XPCs
  <2> QED
    BY <2>2
<1>15. CASE KeyPressed
  BY <1>15 DEF KeyPressed, Handles, XPCs
<1>16. CASE Completed
  <2> USE <1>16 DEF Completed, Handles, ThUnchanged
  <2>1. event.win \in win
    BY DEF NoEvent, Kinds
  <2>2. used' \subseteq win /\ missed' \subseteq win /\ xpc' \in XPCs
    BY <2>1 DEF XPCs
  <2> QED
    BY <2>2
<1>17. CASE ServerAnswers
  <2> USE <1>17 DEF ServerAnswers, ThUnchanged
  <2>1. Head(pipe) \in [kind : Kinds, win : win] /\ pipe' \in Seq([kind : Kinds, win : win])
    BY HeadTyped
  <2>2. queue' \in Seq([kind : Kinds, win : win])
    BY <2>1, AppendTyped
  <2> QED
    BY <2>1, <2>2
<1>18. CASE KeyPosted
  BY <1>18 DEF KeyPosted, XGoto, XPCs
<1> QED
  BY <1>1, <1>2, <1>3, <1>4, <1>5, <1>6, <1>7, <1>8, <1>9, <1>10, <1>11, <1>12, <1>13, <1>14,
     <1>15, <1>16, <1>17, <1>18 DEF LoopStep, Redraw, HandleEvent

-----------------------------------------------------------------------------
(* The user and the other threads.                                         *)

LEMMA UserTyped == ASSUME DTypeOK, UserStep PROVE DTypeOK'
<1> USE DEF DTypeOK
<1>1. ASSUME NEW t \in Threads, Input(t), Work < MaxWork PROVE DTypeOK'
  <2> USE <1>1 DEF Input, wins, dcs
  <2>1. PICK k \in {"Expose", "KeyPress"} : queue' = Append(queue, Event(k, t))
    OBVIOUS
  <2>2. Event(k, t) \in [kind : Kinds, win : win]
    BY DEF Event, Kinds
  <2>3. queue' \in Seq([kind : Kinds, win : win])
    BY <2>1, <2>2, AppendTyped
  <2>4. moves' \in 0..MaxWork
    BY MovesBound
  <2> QED
    BY <2>3, <2>4
<1>2. ASSUME NEW t \in Threads, ShowOrHide(t), Work < MaxWork PROVE DTypeOK'
  <2>1. moves' \in 0..MaxWork
    BY <1>2, MovesBound DEF ShowOrHide
  <2> QED
    BY <1>2, <2>1 DEF ShowOrHide, wins, dcs
<1> QED
  BY <1>1, <1>2 DEF UserStep

LEMMA UserKeeps ==
  ASSUME UserStep PROVE UNCHANGED <<thvars, xpc, cur, dcs, win>>
  BY DEF UserStep, Input, ShowOrHide, wins

-----------------------------------------------------------------------------
(* All together.                                                           *)

IInv == ThTyped /\ DTypeOK /\ Cpus /\ OwnFs /\ Loop /\ OwnContext

LEMMA InitIInv == Init => IInv
<1> SUFFICES ASSUME Init PROVE IInv
  OBVIOUS
<1>1. ThTyped
  BY InitThTyped
<1>2. DTypeOK
  BY ThreadsAssumption, DisplayAssumption
     DEF Init, ThInit, DTypeOK, XPCs, Threads, NoEvent, ThreadsAssumption, DisplayAssumption
<1>3. Cpus /\ OwnFs
  BY ThreadsAssumption DEF Init, ThInit, Cpus, OwnFs, InTempleOS, Threads, ThreadsAssumption
<1>4. Loop /\ OwnContext
  BY ThreadsAssumption DEF Init, ThInit, Loop, Before, OwnContext, Threads, ThreadsAssumption
<1> QED
  BY <1>1, <1>2, <1>3, <1>4 DEF IInv

LEMMA IInvStep == IInv /\ [Next]_vars => IInv'
<1> SUFFICES ASSUME IInv, [Next]_vars PROVE IInv'
  OBVIOUS
<1> USE DEF IInv
<1>1. CASE Thread
  <2>1. UNCHANGED DisplayVars /\ \E t \in Threads : ThStep(t)
    BY <1>1, ThreadIsStep
  <2>2. PICK t \in Threads : ThStep(t)
    BY <2>1
  <2>3. ThTyped'
    BY <2>2, ThTypedStep, PlacesStep DEF ThTyped
  <2>4. Cpus' /\ OwnFs'
    BY <2>1, <2>2, CpusStep, OwnFsThread DEF DisplayVars
  <2>5. DTypeOK'
    BY <2>1 DEF DTypeOK, DisplayVars, dcs, wins
  <2>6. Loop' /\ OwnContext'
    BY <2>1, <2>2, AdamKept DEF Loop, OwnContext, DisplayVars, dcs, wins
  <2> QED
    BY <2>3, <2>4, <2>5, <2>6
<1>2. CASE LoopStep
  BY <1>2, LoopThTyped, LoopDTyped, LoopFs, LoopLoop
<1>3. CASE UserStep
  <2>1. UNCHANGED <<thvars, xpc, cur, dcs, win>>
    BY <1>3, UserKeeps
  <2>2. ThTyped' /\ Cpus' /\ OwnFs'
    BY <2>1 DEF ThTyped, ThTypeOK, Places, Cpus, OwnFs, InTempleOS, thvars, regs
  <2>3. Loop' /\ OwnContext'
    BY <2>1 DEF Loop, OwnContext, thvars, dcs
  <2> QED
    BY <1>3, <2>2, <2>3, UserTyped
<1>4. CASE UNCHANGED vars
  <2>1. ThTyped' /\ Cpus' /\ OwnFs'
    BY <1>4 DEF vars, ThTyped, ThTypeOK, Places, Cpus, OwnFs, InTempleOS, thvars, regs
  <2>2. DTypeOK' /\ Loop' /\ OwnContext'
    BY <1>4 DEF vars, DTypeOK, Loop, OwnContext, thvars, dcs, wins
  <2> QED
    BY <2>1, <2>2
<1> QED
  BY <1>1, <1>2, <1>3, <1>4, NextIs

\* The type invariant of the threads and of the loop.
THEOREM TypeCorrect == Spec => []TypeOK
<1>1. IInv => TypeOK
  BY TypeParts DEF IInv, ThTyped
<1> QED
  BY InitIInv, IInvStep, <1>1, PTL DEF Spec

\* However many threads are created, end and fault while others do, each runs C code with
\* its own glibc block in FS and TempleOS code with its own CTask (OwnFs).
THEOREM RegistersAreOwn == Spec => []OwnFs
<1>1. IInv => OwnFs
  BY DEF IInv
<1> QED
  BY InitIInv, IInvStep, <1>1, PTL DEF Spec

\* No window is drawn to another task's context, and gr->dc2 is the window manager's
\* whenever the loop is not drawing (OwnContext).
THEOREM ContextsAreOwn == Spec => []OwnContext
<1>1. IInv => OwnContext
  BY DEF IInv
<1> QED
  BY InitIInv, IInvStep, <1>1, PTL DEF Spec

-----------------------------------------------------------------------------
(* The list of threads: it is a chain that ends, and only grows.           *)

Chain(L) ==
  /\ L \in Seq(Threads) /\ Len(L) > 0 /\ L[1] = first
  /\ \A i, k \in 1..Len(L) : L[i] = L[k] => i = k
  /\ \A i \in 1..Len(L) : next[L[i]] = IF i = Len(L) THEN None ELSE L[i + 1]

In(L) == {L[i] : i \in 1..Len(L)}

LEMMA ChainFits ==
  ASSUME NEW L, Chain(L)
  PROVE  Cardinality(Threads) \in Nat /\ Len(L) \in 1..Cardinality(Threads)
<1>1. IsFiniteSet(Threads)
  <2>1. IsFiniteSet({Adam})
    BY FS_Singleton
  <2> QED
    BY <2>1, FS_Union, ThreadsAssumption DEF ThreadsAssumption, Threads
<1>2. L \in Injection(1..Len(L), Threads) /\ Len(L) \in Nat \ {0}
  BY DEF Chain, Injection, IsInjective
<1>3. IsFiniteSet(1..Len(L)) /\ Cardinality(1..Len(L)) = Len(L)
  BY <1>2, FS_Interval
<1> QED
  BY <1>1, <1>2, <1>3, FS_Injection, FS_CardinalityType

\* A set of naturals that is not empty has a least member.
LEMMA LeastNat ==
  ASSUME NEW S \in SUBSET Nat, S # {}
  PROVE  \E x \in S : \A y \in S : ~(y < x)
<1>1. \E x \in S : \A y \in S : ~(<<y, x>> \in OpToRel(<, Nat))
  BY NatLessThanWellFounded, WFMin
<1> QED
  BY <1>1 DEF OpToRel

WalkStep(f) ==
  [k \in 1..Cardinality(Threads) + 1 |->
     IF k = 1 THEN first ELSE IF f[k - 1] = None THEN None ELSE next[f[k - 1]]]

LEMMA WalkIs ==
  ASSUME NEW L, Chain(L)
  PROVE  Walk = [k \in 1..Cardinality(Threads) + 1 |-> IF k <= Len(L) THEN L[k] ELSE None]
<1> DEFINE N == Cardinality(Threads)
           w == [k \in 1..N + 1 |-> IF k <= Len(L) THEN L[k] ELSE None]
<1>1. N \in Nat /\ Len(L) \in 1..N
  BY ChainFits
<1>2. Walk = CHOOSE n : n = WalkStep(n)
  BY DEF Walk, WalkStep
<1>3. w = WalkStep(w)
  <2> SUFFICES ASSUME NEW k \in 1..N + 1
               PROVE  w[k] = IF k = 1 THEN first
                             ELSE IF w[k - 1] = None THEN None ELSE next[w[k - 1]]
    BY DEF WalkStep
  <2>1. CASE k = 1
    BY <1>1, <2>1 DEF Chain
  <2>2. CASE k # 1
    <3>1. k - 1 \in 1..N + 1 /\ (k - 1) + 1 = k
      BY <1>1, <2>2
    <3>2. CASE k - 1 <= Len(L)
      <4>1. k - 1 \in 1..Len(L) /\ w[k - 1] = L[k - 1]
        BY <1>1, <3>1, <3>2
      <4>2. L[k - 1] # None
        BY <4>1, ThreadsAssumption DEF Chain, ThreadsAssumption
      <4>3. next[L[k - 1]] = IF k - 1 = Len(L) THEN None ELSE L[k]
        BY <3>1, <4>1 DEF Chain
      <4>4. k - 1 = Len(L) <=> ~(k <= Len(L))
        BY <1>1, <3>1, <3>2
      <4> QED
        BY <2>2, <4>1, <4>2, <4>3, <4>4
    <3>3. CASE ~(k - 1 <= Len(L))
      BY <1>1, <2>2, <3>1, <3>3
    <3> QED
      BY <3>2, <3>3
  <2> QED
    BY <2>1, <2>2
<1>4. \A f : f = WalkStep(f) => f = w
  <2> SUFFICES ASSUME NEW f, f = WalkStep(f) PROVE f = w
    OBVIOUS
  <2> DEFINE D == {k \in 1..N + 1 : f[k] # w[k]}
  <2>1. ASSUME D # {} PROVE FALSE
    <3>1. D \in SUBSET Nat
      BY <1>1
    <3>2. PICK k \in D : \A m \in D : ~(m < k)
      BY <2>1, <3>1, LeastNat
    <3>3. k # 1
      <4>1. 1 \in 1..N + 1
        BY <1>1
      <4> HIDE DEF w
      <4>2. f[1] = first /\ w[1] = first
        BY <1>3, <4>1 DEF WalkStep
      <4> QED
        BY <3>2, <4>2
    <3>4. k - 1 \in 1..N + 1 /\ k - 1 < k
      BY <1>1, <3>2, <3>3
    <3>5. f[k - 1] = w[k - 1]
      BY <3>2, <3>4
    <3> HIDE DEF w
    <3>6. f[k] = IF f[k - 1] = None THEN None ELSE next[f[k - 1]]
      BY <3>2, <3>3 DEF WalkStep
    <3>7. w[k] = IF w[k - 1] = None THEN None ELSE next[w[k - 1]]
      BY <1>3, <3>2, <3>3 DEF WalkStep
    <3> QED
      BY <3>2, <3>5, <3>6, <3>7
  <2>2. \A k \in 1..N + 1 : f[k] = w[k]
    BY <2>1
  <2>3. f = [k \in 1..N + 1 |-> f[k]]
    BY DEF WalkStep
  <2> QED
    BY <2>2, <2>3
<1> HIDE DEF w
<1>5. Walk = w
  BY <1>2, <1>3, <1>4
<1> QED
  BY <1>5 DEF w

LEMMA ListedIs ==
  ASSUME NEW L, Chain(L)
  PROVE  Listed = In(L) /\ Walk[Cardinality(Threads) + 1] = None
<1>1. Cardinality(Threads) \in Nat /\ Len(L) \in 1..Cardinality(Threads)
  BY ChainFits
<1>2. \A i \in 1..Len(L) : L[i] # None
  BY ThreadsAssumption DEF Chain, ThreadsAssumption
<1>3. Walk = [k \in 1..Cardinality(Threads) + 1 |-> IF k <= Len(L) THEN L[k] ELSE None]
  BY WalkIs
<1> QED
  BY <1>1, <1>2, <1>3 DEF Listed, In

\* Who holds thread_create_destruct_mutex: a thread that links itself or dies, or the redraw.
Inserting == {"ins_next", "ins_first", "ins_unlock"}
Walking == {"visit", "create", "swap"}
OwnTcd ==
  /\ \A t \in Threads : pc[t] \in Inserting \cup {"sig_exit"} => tcd = t
  /\ xpc \in Walking => tcd = Adam

LEMMA OwnTcdThread ==
  ASSUME ThTyped, Loop, OwnTcd, xpc' = xpc, NEW t \in Threads, ThStep(t) PROVE OwnTcd'
<1> USE ThreadsAssumption DEF ThTyped, ThTypeOK, Places, Loop, OwnTcd, Inserting, Walking, ThPCs,
       Threads
<1>1. CASE Spawn(t)
  BY <1>1 DEF Spawn
<1>2. CASE SpawnFails(t)
  BY <1>2 DEF SpawnFails
<1>3. CASE SpawnBlock(t)
  BY <1>3 DEF SpawnBlock, Goto
<1>4. CASE SpawnWake(t)
  BY <1>4 DEF SpawnWake
<1>5. CASE StartFails(t)
  BY <1>5 DEF StartFails, Goto
<1>6. CASE TaskInit(t)
  BY <1>6 DEF TaskInit, Goto
<1>7. CASE InsertLock(t)
  BY <1>7 DEF InsertLock, Goto, TcdLock
<1>8. CASE InsertNext(t)
  BY <1>8 DEF InsertNext, Goto
<1>9. CASE InsertFirst(t)
  BY <1>9 DEF InsertFirst, Goto
<1>10. CASE InsertUnlock(t)
  BY <1>10 DEF InsertUnlock, Goto
<1>11. CASE Broadcast(t)
  BY <1>11 DEF Broadcast, Goto
<1>12. CASE End(t)
  BY <1>12 DEF End, Goto
<1>13. CASE Fault(t)
  BY <1>13 DEF Fault
<1>14. CASE SignalLock(t)
  BY <1>14 DEF SignalLock, Goto, TcdLock
<1>15. CASE SignalExit(t)
  BY <1>15 DEF SignalExit, Goto
<1>16. CASE SpawnSpurious(t)
  BY <1>16 DEF SpawnSpurious
<1>17. CASE HeapCall(t)
  BY <1>17 DEF HeapCall, Goto
<1>18. CASE HeapReturn(t)
  BY <1>18 DEF HeapReturn, Goto
<1>19. CASE EndLock(t)
  BY <1>19 DEF EndLock, Goto
<1> QED
  BY <1>1, <1>2, <1>3, <1>4, <1>5, <1>6, <1>7, <1>8, <1>9, <1>10, <1>11, <1>12, <1>13, <1>14,
     <1>15, <1>16, <1>17, <1>18, <1>19 DEF ThStep, Calling, Spawning, Starting, Dying

LEMMA OwnTcdLoop == ASSUME ThTyped, Loop, OwnTcd, LoopStep PROVE OwnTcd'
<1> USE ThreadsAssumption DEF ThTyped, ThTypeOK, Places, Loop, OwnTcd, Inserting, Walking, ThPCs,
       Threads, thvars
<1>1. CASE X11Start
  BY <1>1 DEF X11Start, Goto, XGoto
<1>2. CASE Poll
  BY <1>2 DEF Poll, XGoto, ThUnchanged
<1>3. CASE RedrawLock
  BY <1>3 DEF RedrawLock, XGoto, TcdLock
<1>4. CASE Visit
  BY <1>4 DEF Visit, ThUnchanged
<1>5. CASE CreateWindow
  BY <1>5 DEF CreateWindow, ThUnchanged
<1>6. CASE CreateFault
  BY <1>6 DEF CreateFault, XGoto, Goto
<1>7. CASE Swap
  BY <1>7 DEF Swap, XGoto
<1>8. CASE DrawFault
  BY <1>8 DEF DrawFault, XGoto, Goto
<1>9. CASE Draw
  BY <1>9 DEF Draw, XGoto, TcdLock
<1>10. CASE RedrawEnd
  BY <1>10 DEF RedrawEnd, XGoto
<1>11. CASE Sync
  BY <1>11 DEF Sync, XGoto, ThUnchanged
<1>12. CASE XNextEvent
  BY <1>12 DEF XNextEvent, XGoto, ThUnchanged
<1>13. CASE Exposed
  BY <1>13 DEF Exposed, Handles, ThUnchanged
<1>14. CASE ExposedFailed
  <2>1. CASE Goto(Adam, "x11", "gone") /\ exited' = TRUE /\ xpc' = "off"
    BY <1>14, <2>1 DEF ExposedFailed, Goto
  <2>2. CASE UNCHANGED <<pc, exited>> /\ xpc' = "poll"
    BY <1>14, <2>2 DEF ExposedFailed
  <2> QED
    BY <1>14, <2>1, <2>2 DEF ExposedFailed
<1>15. CASE KeyPressed
  BY <1>15 DEF KeyPressed, Handles
<1>16. CASE Completed
  BY <1>16 DEF Completed, Handles, ThUnchanged
<1>17. CASE ServerAnswers
  BY <1>17 DEF ServerAnswers, ThUnchanged
<1>18. CASE KeyPosted
  BY <1>18 DEF KeyPosted, XGoto
<1> QED
  BY <1>1, <1>2, <1>3, <1>4, <1>5, <1>6, <1>7, <1>8, <1>9, <1>10, <1>11, <1>12, <1>13, <1>14,
     <1>15, <1>16, <1>17, <1>18 DEF LoopStep, Redraw, HandleEvent

\* A thread that has not linked itself is not on the list; one that another thread may be told
\* of, or has been told of, is and is initialised.
Unlinked == {"none", "init", "ins_lock", "ins_next", "ins_first"}
Told(L) == inited \cap In(L)
Linked(L) ==
  /\ \A t \in Threads : pc[t] \in Unlinked => t \notin In(L)
  /\ \A t \in Threads : pc[t] = "ins_first" => next[t] = first
  /\ \A t \in Threads : pc[t] \in {"ins_lock", "ins_next", "ins_first"} => t \in inited
  /\ \A t \in Threads : pc[t] \in {"ins_unlock", "bcast"} => t \in Told(L)
  /\ \A t \in Threads : pc[t] = "sp_blocked" => t \in idleWait[child[t]] \/ child[t] \in Told(L)
  /\ told \subseteq Told(L)

ListInv(L) == Chain(L) /\ Linked(L)

LEMMA SameChain ==
  ASSUME NEW L, Chain(L), UNCHANGED <<first, next>> PROVE Chain(L)'
  BY DEF Chain

LEMMA ConsChain ==
  ASSUME NEW L, Chain(L), NEW t \in Threads, t \notin In(L), next[t] = first,
         first' = t, next' = next
  PROVE  /\ Chain(<<t>> \o L)' /\ In(<<t>> \o L) = In(L) \cup {t}
<1> DEFINE M == <<t>> \o L
<1>1. L \in Seq(Threads) /\ Len(L) \in Nat /\ Len(L) > 0
  BY DEF Chain
<1>2. M \in Seq(Threads) /\ Len(M) = Len(L) + 1 /\ M[1] = t
  BY <1>1
<1>3. \A i \in 1..Len(L) : i + 1 \in 1..Len(M) /\ M[i + 1] = L[i]
  BY <1>1, <1>2
<1>4. \A i \in 1..Len(M) : i = 1 \/ (i - 1 \in 1..Len(L) /\ M[i] = L[i - 1])
  BY <1>1, <1>2
<1> HIDE DEF M
<1>5. In(M) = In(L) \cup {t}
  <2>1. \A i \in 1..Len(M) : M[i] \in In(L) \cup {t}
    BY <1>2, <1>4 DEF In
  <2>2. In(L) \cup {t} \subseteq In(M)
    BY <1>1, <1>2, <1>3 DEF In
  <2> QED
    BY <2>1, <2>2 DEF In
<1>6. \A i, k \in 1..Len(M) : M[i] = M[k] => i = k
  <2> TAKE i, k \in 1..Len(M)
  <2>1. \A m \in 1..Len(L) : L[m] # t
    BY DEF In
  <2>2. CASE i = 1 \/ k = 1
    BY <1>2, <1>4, <2>1, <2>2
  <2>3. CASE i # 1 /\ k # 1
    <3>1. /\ i - 1 \in 1..Len(L) /\ M[i] = L[i - 1]
          /\ k - 1 \in 1..Len(L) /\ M[k] = L[k - 1]
      BY <1>4, <2>3
    <3>2. L[i - 1] = L[k - 1] => i - 1 = k - 1
      BY <3>1 DEF Chain
    <3> QED
      BY <1>1, <1>2, <3>1, <3>2
  <2> QED
    BY <2>2, <2>3
<1>7. \A i \in 1..Len(M) : next[M[i]] = IF i = Len(M) THEN None ELSE M[i + 1]
  <2> TAKE i \in 1..Len(M)
  <2>1. CASE i = 1
    <3>1. M[2] = first /\ 1 # Len(M)
      BY <1>1, <1>2, <1>3 DEF Chain
    <3> QED
      BY <1>2, <2>1, <3>1
  <2>2. CASE i # 1
    <3>1. i - 1 \in 1..Len(L) /\ M[i] = L[i - 1] /\ (i - 1) + 1 = i
      BY <1>1, <1>2, <1>4, <2>2
    <3>2. next[L[i - 1]] = IF i - 1 = Len(L) THEN None ELSE L[i]
      BY <3>1 DEF Chain
    <3>3. i - 1 = Len(L) <=> i = Len(M)
      BY <1>1, <1>2
    <3>4. i # Len(M) => i \in 1..Len(L) /\ M[i + 1] = L[i]
      BY <1>1, <1>2, <1>3
    <3> QED
      BY <3>1, <3>2, <3>3, <3>4
  <2> QED
    BY <2>1, <2>2
<1>8. Chain(M)'
  BY <1>1, <1>2, <1>6, <1>7 DEF Chain
<1> QED
  BY <1>5, <1>8 DEF M

\* All but the two assignments of templeos_task_start leave the list as it is.
LEMMA LinkedThread ==
  ASSUME ThTyped, OwnTcd, NEW L, Linked(L), NEW t \in Threads, ThStep(t),
         ~InsertNext(t), ~InsertFirst(t)
  PROVE  Linked(L)' /\ UNCHANGED <<first, next>>
<1> USE ThreadsAssumption DEF ThTyped, ThTypeOK, Places, Linked, Told, In, Unlinked, ThPCs, Threads
<1>1. CASE Spawn(t)
  BY <1>1 DEF Spawn
<1>2. CASE SpawnFails(t)
  BY <1>2 DEF SpawnFails
<1>3. CASE SpawnBlock(t)
  BY <1>3 DEF SpawnBlock, Goto
<1>4. CASE SpawnWake(t)
  BY <1>4 DEF SpawnWake
<1>5. CASE StartFails(t)
  BY <1>5 DEF StartFails, Goto
<1>6. CASE TaskInit(t)
  BY <1>6 DEF TaskInit, Goto
<1>7. CASE InsertLock(t)
  BY <1>7 DEF InsertLock, Goto, TcdLock
<1>8. CASE InsertNext(t)
  BY <1>8
<1>9. CASE InsertFirst(t)
  BY <1>9
<1>10. CASE InsertUnlock(t)
  BY <1>10 DEF InsertUnlock, Goto
<1>11. CASE Broadcast(t)
  BY <1>11 DEF Broadcast, Goto
<1>12. CASE End(t)
  BY <1>12 DEF End, Goto
<1>13. CASE Fault(t)
  BY <1>13 DEF Fault
<1>14. CASE SignalLock(t)
  BY <1>14 DEF SignalLock, Goto, TcdLock
<1>15. CASE SignalExit(t)
  BY <1>15 DEF SignalExit, Goto
<1>16. CASE SpawnSpurious(t)
  BY <1>16 DEF SpawnSpurious
<1>17. CASE HeapCall(t)
  BY <1>17 DEF HeapCall, Goto
<1>18. CASE HeapReturn(t)
  BY <1>18 DEF HeapReturn, Goto
<1>19. CASE EndLock(t)
  BY <1>19 DEF EndLock, Goto
<1> QED
  BY <1>1, <1>2, <1>3, <1>4, <1>5, <1>6, <1>7, <1>8, <1>9, <1>10, <1>11, <1>12, <1>13, <1>14,
     <1>15, <1>16, <1>17, <1>18, <1>19 DEF ThStep, Calling, Spawning, Starting, Dying

LEMMA ListThread ==
  ASSUME ThTyped, OwnTcd, NEW L, ListInv(L), NEW t \in Threads, ThStep(t)
  PROVE  \E M : ListInv(M)' /\ In(L) \subseteq In(M)
<1>1. CASE InsertNext(t)
  <2>1. pc[t] = "ins_next" /\ t \notin In(L) /\ tcd = t
    BY <1>1 DEF InsertNext, Goto, ListInv, Linked, Unlinked, OwnTcd, Inserting
  <2>2. next' = [next EXCEPT ![t] = first] /\ first' = first /\ pc' = [pc EXCEPT ![t] = "ins_first"]
        /\ UNCHANGED <<inited, idleWait, child, told>>
    BY <1>1 DEF InsertNext, Goto
  <2>3. Chain(L)'
    BY <2>1, <2>2 DEF ListInv, Chain, ThTyped, ThTypeOK, In
  <2>4. Linked(L)'
    BY <2>1, <2>2
       DEF ListInv, Linked, Unlinked, Told, In, ThTyped, ThTypeOK, OwnTcd, Inserting
  <2> QED
    BY <2>3, <2>4 DEF ListInv
<1>2. CASE InsertFirst(t)
  <2>1. pc[t] = "ins_first" /\ t \notin In(L) /\ tcd = t /\ next[t] = first /\ t \in inited
    BY <1>2 DEF InsertFirst, Goto, ListInv, Linked, Unlinked, OwnTcd, Inserting
  <2>2. first' = t /\ next' = next /\ pc' = [pc EXCEPT ![t] = "ins_unlock"]
        /\ UNCHANGED <<inited, idleWait, child, told>>
    BY <1>2 DEF InsertFirst, Goto
  <2>3. Chain(<<t>> \o L)' /\ In(<<t>> \o L) = In(L) \cup {t}
    BY <2>1, <2>2, ConsChain DEF ListInv
  <2> DEFINE M == <<t>> \o L
  <2> HIDE DEF M
  <2>4. Linked(M)'
    <3>1. In(M) = In(L) \cup {t}
      BY <2>3 DEF M
    <3>2. In(M)' = In(M)
      BY DEF In
    <3> QED
      BY <2>1, <2>2, <3>1, <3>2
         DEF ListInv, Linked, Unlinked, Told, ThTyped, ThTypeOK, OwnTcd, Inserting
  <2> QED
    BY <2>3, <2>4 DEF ListInv, M
<1>3. CASE ~InsertNext(t) /\ ~InsertFirst(t)
  BY <1>3, LinkedThread, SameChain DEF ListInv
<1> QED
  BY <1>1, <1>2, <1>3

LEMMA ListLoop ==
  ASSUME ThTyped, Loop, NEW L, Linked(L), LoopStep PROVE Linked(L)' /\ UNCHANGED <<first, next>>
<1> USE ThreadsAssumption DEF ThTyped, ThTypeOK, Places, Loop, Linked, Told, In, Unlinked, ThPCs,
       Threads,
       thvars
<1>1. CASE X11Start
  BY <1>1 DEF X11Start, Goto, XGoto
<1>2. CASE Poll
  BY <1>2 DEF Poll, XGoto, ThUnchanged
<1>3. CASE RedrawLock
  BY <1>3 DEF RedrawLock, XGoto, TcdLock
<1>4. CASE Visit
  BY <1>4 DEF Visit, ThUnchanged
<1>5. CASE CreateWindow
  BY <1>5 DEF CreateWindow, ThUnchanged
<1>6. CASE CreateFault
  BY <1>6 DEF CreateFault, XGoto, Goto
<1>7. CASE Swap
  BY <1>7 DEF Swap, XGoto
<1>8. CASE DrawFault
  BY <1>8 DEF DrawFault, XGoto, Goto
<1>9. CASE Draw
  BY <1>9 DEF Draw, XGoto, TcdLock
<1>10. CASE RedrawEnd
  BY <1>10 DEF RedrawEnd, XGoto
<1>11. CASE Sync
  BY <1>11 DEF Sync, XGoto, ThUnchanged
<1>12. CASE XNextEvent
  BY <1>12 DEF XNextEvent, XGoto, ThUnchanged
<1>13. CASE Exposed
  BY <1>13 DEF Exposed, Handles, ThUnchanged
<1>14. CASE ExposedFailed
  <2>1. CASE Goto(Adam, "x11", "gone") /\ exited' = TRUE /\ xpc' = "off"
    BY <1>14, <2>1 DEF ExposedFailed, Goto
  <2>2. CASE UNCHANGED <<pc, exited>> /\ xpc' = "poll"
    BY <1>14, <2>2 DEF ExposedFailed
  <2> QED
    BY <1>14, <2>1, <2>2 DEF ExposedFailed
<1>15. CASE KeyPressed
  BY <1>15 DEF KeyPressed, Handles
<1>16. CASE Completed
  BY <1>16 DEF Completed, Handles, ThUnchanged
<1>17. CASE ServerAnswers
  BY <1>17 DEF ServerAnswers, ThUnchanged
<1>18. CASE KeyPosted
  BY <1>18 DEF KeyPosted, XGoto
<1> QED
  BY <1>1, <1>2, <1>3, <1>4, <1>5, <1>6, <1>7, <1>8, <1>9, <1>10, <1>11, <1>12, <1>13, <1>14,
     <1>15, <1>16, <1>17, <1>18 DEF LoopStep, Redraw, HandleEvent

LEMMA ListedNext ==
  ASSUME NEW L
  PROVE  Chain(L)' => (Listed = In(L) /\ Walk[Cardinality(Threads) + 1] = None)'
<1>1. Chain(L) => Listed = In(L) /\ Walk[Cardinality(Threads) + 1] = None
  BY ListedIs
<1> QED
  BY <1>1, PTL

ListIInv == IInv /\ OwnTcd /\ \E L : ListInv(L)

LEMMA InitList == Init => ListIInv
<1> SUFFICES ASSUME Init PROVE ListIInv
  OBVIOUS
<1>1. OwnTcd
  BY ThreadsAssumption DEF Init, ThInit, OwnTcd, Inserting, Walking, Threads
<1>2. ListInv(<<Adam>>)
  BY ThreadsAssumption
     DEF Init, ThInit, ListInv, Chain, Linked, Told, In, Unlinked, Threads, ThreadsAssumption
<1> QED
  BY <1>1, <1>2, InitIInv DEF ListIInv

LEMMA ListStep ==
  ASSUME IInv, OwnTcd, NEW L, ListInv(L), [Next]_vars
  PROVE  OwnTcd' /\ \E M : ListInv(M)' /\ In(L) \subseteq In(M)
<1>1. CASE Thread
  <2>1. PICK t \in Threads : ThStep(t) /\ xpc' = xpc
    BY <1>1, ThreadIsStep DEF DisplayVars
  <2> QED
    BY <2>1, OwnTcdThread, ListThread DEF IInv
<1>2. CASE LoopStep
  BY <1>2, OwnTcdLoop, ListLoop, SameChain DEF IInv, ListInv
<1>3. CASE UserStep \/ UNCHANGED vars
  <2>1. UNCHANGED <<thvars, xpc>>
    BY <1>3, UserKeeps DEF vars
  <2>2. OwnTcd' /\ ListInv(L)'
    BY <2>1 DEF OwnTcd, ListInv, Chain, Linked, Told, In, thvars
  <2> QED
    BY <2>2
<1> QED
  BY <1>1, <1>2, <1>3, NextIs

LEMMA ListInvStep == ListIInv /\ [Next]_vars => ListIInv'
  BY IInvStep, ListStep DEF ListIInv

\* The list of threads that x11_start walks always ends, and whoever is on it stays on it,
\* however many threads start, end and fault at once (ListKept).
THEOREM ListIsKept == Spec => ListKept
<1>1. ListIInv /\ [Next]_vars =>
        Walk'[Cardinality(Threads) + 1] = None /\ Listed \subseteq Listed'
  <2> SUFFICES ASSUME ListIInv, [Next]_vars
               PROVE  Walk'[Cardinality(Threads) + 1] = None /\ Listed \subseteq Listed'
    OBVIOUS
  <2>1. PICK L : ListInv(L)
    BY DEF ListIInv
  <2>2. PICK M : ListInv(M)' /\ In(L) \subseteq In(M)
    BY <2>1, ListStep DEF ListIInv
  <2>3. Listed = In(L)
    BY <2>1, ListedIs DEF ListInv
  <2>4. (Listed = In(M) /\ Walk[Cardinality(Threads) + 1] = None)'
    BY <2>2, ListedNext DEF ListInv
  <2> QED
    BY <2>2, <2>3, <2>4
<1> QED
  BY <1>1, InitList, ListInvStep, PTL DEF Spec, ListKept

\* What a Spawn returns that the broadcast has woken is initialised and on the list, whatever
\* waits end without it (ToldIsReady).
THEOREM ToldAreReady == Spec => []ToldIsReady
<1>1. ListIInv => ToldIsReady
  <2> SUFFICES ASSUME ListIInv PROVE ToldIsReady
    OBVIOUS
  <2>1. PICK L : ListInv(L)
    BY DEF ListIInv
  <2>2. Listed = In(L)
    BY <2>1, ListedIs DEF ListInv
  <2> QED
    BY <2>1, <2>2 DEF ListInv, Linked, Told, ToldIsReady
<1> QED
  BY <1>1, InitList, ListInvStep, PTL DEF Spec
=============================================================================
