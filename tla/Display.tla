------------------------------- MODULE Display -------------------------------
(***************************************************************************)
(* x11_start, the loop of the main thread that shows the tasks: every so   *)
(* often it walks the list of threads (Threads), makes a window for each   *)
(* task with DISPLAY_SHOW, has TempleOS draw it with gr->dc2 replaced, and *)
(* sends itself an Expose event if the image is not with the X server.     *)
(* Then it waits for one event and handles it.                             *)
(*                                                                         *)
(* The state of a window is the part of templeos_thread_info that x11.c    *)
(* uses.  Images, text, keyboard tables and GrUpdate* are left out.        *)
(***************************************************************************)
EXTENDS Threads, Sequences

CONSTANTS
  Hiders,      \* the tasks that hide and show themselves
  MayFailWin,  \* the threads for which create_window may fail (bounds the model)
  MaxWork,     \* how many tasks are told, keys pressed, windows uncovered and tasks
               \* shown or hidden, in all (bounds the model)
  MaxEvents    \* a redraw starts only with fewer events under way (bounds the model)

ASSUME DisplayAssumption ==
  /\ Hiders \subseteq Tasks /\ MayFailWin \subseteq Threads
  /\ MaxWork \in Nat /\ MaxEvents \in Nat \ {0}

VARIABLES
  xpc,     \* what the loop does next
  cur,     \* ti of the redraw
  dc2,     \* whose device context gr->dc2 is
  dc,      \* original_dc
  tidc,    \* for every thread, whose device context its field dc is
  shown,   \* the tasks with DISPLAY_SHOW set
  win,     \* the threads with window_initialized set
  failed,  \* and with window_failed set
  used,    \* and with image_used_by_server set
  nomap,   \* the threads whose image shmat has not mapped
  pipe,    \* what the X server answers to the requests it has not handled yet
  queue,   \* the events it has sent
  event,   \* the event in hand
  missed,  \* history: windows whose completion was not noted
  moves    \* how often the user or a task has changed the windows (for the bound)

dcs == <<dc2, dc, tidc>>
wins == <<win, failed, used, nomap>>
vars == <<thvars, xpc, cur, dcs, shown, wins, queue, pipe, event, missed, moves>>

XPCs == {"off", "poll", "lock", "visit", "create", "swap", "draw", "sync", "next", "event", "post"}
Kinds == {"Expose", "KeyPress", "Completion"}
NoEvent == [kind |-> "None", win |-> Adam]
Event(k, t) == [kind |-> k, win |-> t]

\* StartOS.HC sets DISPLAY_SHOW of Adam, whose task is the window manager.
Init ==
  /\ ThInit
  /\ xpc = "off" /\ cur = None
  /\ dc2 = Adam /\ dc = Adam /\ tidc = [t \in Threads |-> None]
  /\ shown = {Adam}
  /\ win = {} /\ failed = {} /\ used = {} /\ nomap = {}
  /\ pipe = <<>> /\ queue = <<>>
  /\ event = NoEvent /\ missed = {}
  /\ moves = 0

XGoto(from, to) == xpc = from /\ xpc' = to

ThUnchanged == UNCHANGED <<thvars, shown, moves>>

-----------------------------------------------------------------------------
(* The redraw.                                                             *)

X11Start ==
  /\ Goto(Adam, "ready", "x11") /\ XGoto("off", "poll")
  /\ Exit(Adam)
  /\ UNCHANGED <<first, next, tcd, inited, idleWait, child, told, exited, cpu, saved, cur, dcs,
                 shown, wins, queue, pipe, event, missed, moves>>

\* With nothing pending the loop sleeps for as long as a redraw is apart.
Poll ==
  /\ \/ Len(queue \o pipe) < MaxEvents /\ XGoto("poll", "lock")
     \/ queue # <<>> /\ XGoto("poll", "next")
  /\ ThUnchanged /\ UNCHANGED <<cur, dcs, wins, queue, pipe, event, missed>>

RedrawLock ==
  /\ XGoto("lock", "visit")
  /\ TcdLock(Adam)
  /\ cur' = first
  /\ UNCHANGED <<first, next, inited, idleWait, pc, child, told, exited, regs, dcs, shown,
                 wins, queue, pipe, event, missed, moves>>

Visit ==
  /\ xpc = "visit" /\ cur # None
  /\ IF cur \in shown \ failed
     THEN xpc' = (IF cur \in win THEN "swap" ELSE "create") /\ UNCHANGED cur
     ELSE cur' = next[cur] /\ UNCHANGED xpc
  /\ ThUnchanged /\ UNCHANGED <<dcs, wins, queue, pipe, event, missed>>

\* create_window and DCNew, which makes a context of the task's own.  The window is mapped
\* before anything can fail, and the server answers with an Expose.  That shmat fails is not
\* noticed.
CreateWindow ==
  /\ xpc = "create"
  /\ win' = win \cup {cur}
  /\ pipe' = Append(pipe, Event("Expose", cur))
  /\ tidc' = [tidc EXCEPT ![cur] = IF cur = Adam THEN dc2 ELSE cur]
  /\ \/ xpc' = "swap" /\ UNCHANGED <<cur, failed, nomap>>
     \/ /\ cur \in MayFailWin /\ nomap' = nomap \cup {cur} /\ xpc' = "swap"
        /\ UNCHANGED <<cur, failed>>
     \/ /\ cur \in MayFailWin /\ failed' = failed \cup {cur} /\ xpc' = "visit" /\ cur' = next[cur]
        /\ UNCHANGED nomap
  /\ ThUnchanged /\ UNCHANGED <<dc2, dc, used, queue, event, missed>>

\* DCNew faults, with the mutex held that signal_handler then asks for.
CreateFault ==
  /\ Adam \in MayFault
  /\ cur # Adam
  /\ XGoto("create", "off") /\ Goto(Adam, "x11", "sig_lock")
  /\ win' = win \cup {cur}
  /\ pipe' = Append(pipe, Event("Expose", cur))
  /\ UNCHANGED <<first, next, tcd, inited, idleWait, child, told, exited, regs, cur, dcs,
                 shown, failed, used, nomap, queue, event, missed, moves>>

Swap ==
  /\ XGoto("swap", "draw")
  /\ dc' = dc2 /\ dc2' = tidc[cur]
  /\ tcd' = None
  /\ Enter(Adam)
  /\ UNCHANGED <<first, next, inited, idleWait, pc, child, told, exited, cpu, saved, cur, tidc,
                 shown, wins, queue, pipe, event, missed, moves>>

\* GrUpdateTextBG, GrUpdateTextFG, GrUpdateTaskWin or lilith_TaskMsg faults, in Adam's thread.
DrawFault ==
  /\ Adam \in MayFault
  /\ XGoto("draw", "off") \/ XGoto("post", "off")
  /\ Goto(Adam, "x11", "sig_lock")
  /\ Exit(Adam)
  /\ UNCHANGED <<first, next, tcd, inited, idleWait, child, told, exited, cpu, saved, cur, dcs,
                 shown, wins, queue, pipe, event, missed, moves>>

\* Mutant: gr->dc2 is not put back.
DrawKeepsDC ==
  /\ XGoto("draw", "visit")
  /\ TcdLock(Adam)
  /\ pipe' = IF cur \in used THEN pipe ELSE Append(pipe, Event("Expose", cur))
  /\ cur' = next[cur]
  /\ Exit(Adam)
  /\ UNCHANGED <<first, next, inited, idleWait, pc, child, told, exited, cpu, saved, dcs,
                 shown, wins, queue, event, missed, moves>>

Draw ==
  /\ XGoto("draw", "visit")
  /\ TcdLock(Adam)
  /\ dc2' = dc
  /\ pipe' = IF cur \in used THEN pipe ELSE Append(pipe, Event("Expose", cur))
  /\ cur' = next[cur]
  /\ Exit(Adam)
  /\ UNCHANGED <<first, next, inited, idleWait, pc, child, told, exited, cpu, saved, dc, tidc,
                 shown, wins, queue, event, missed, moves>>

RedrawEnd ==
  /\ cur = None
  /\ XGoto("visit", "sync")
  /\ tcd' = None
  /\ UNCHANGED <<first, next, inited, idleWait, pc, child, told, exited, regs, cur, dcs, shown,
                 wins, queue, pipe, event, missed, moves>>

\* XSync: the X server has handled every request.
Sync ==
  /\ pipe = <<>>
  /\ XGoto("sync", "next")
  /\ ThUnchanged /\ UNCHANGED <<cur, dcs, wins, queue, pipe, event, missed>>

-----------------------------------------------------------------------------
(* The events.                                                             *)

XNextEvent ==
  /\ queue # <<>>
  /\ XGoto("next", "event")
  /\ event' = Head(queue) /\ queue' = Tail(queue)
  /\ ThUnchanged /\ UNCHANGED <<cur, dcs, wins, pipe, missed>>

\* find_thread_info_for_window, which takes the mutex of the list for the whole walk.
Found == tcd = None /\ event.win \in Listed \cap shown

\* Handle an event of kind k.
Handles(k) == xpc = "event" /\ event.kind = k /\ tcd = None /\ event' = NoEvent

Exposed ==
  /\ Handles("Expose") /\ event.win \notin failed \cup nomap
  /\ xpc' = "poll"
  /\ IF Found
     THEN used' = used \cup {event.win} /\ pipe' = Append(pipe, Event("Completion", event.win))
     ELSE UNCHANGED <<used, pipe>>
  /\ ThUnchanged /\ UNCHANGED <<cur, dcs, win, failed, nomap, queue, missed>>

\* A window that could not be completed has no image, or none that is mapped, and the
\* conversion to it faults in C code: signal_handler starts with exit_templeos, which faults
\* on GS, and the process is killed.  Or only the extension is missing, and nothing is sent.
ExposedFailed ==
  /\ Handles("Expose") /\ event.win \in failed \cup nomap
  /\ \/ /\ Found /\ xpc' = "off" /\ Goto(Adam, "x11", "gone") /\ exited' = TRUE
        /\ UNCHANGED used
     \/ /\ event.win \notin nomap
        /\ Found /\ xpc' = "poll" /\ used' = used \cup {event.win}
        /\ UNCHANGED <<pc, exited>>
     \/ ~Found /\ xpc' = "poll" /\ UNCHANGED <<used, pc, exited>>
  /\ UNCHANGED <<first, next, tcd, inited, idleWait, child, told, regs, cur, dcs, shown,
                 win, failed, nomap, queue, pipe, missed, moves>>

\* lilith_TaskMsg to the task of the window, in this thread: it waits for JOBCf_LOCKED, for
\* the mutex of the task and, in a ring of filters, for ever (modules MsgLoop, InputFilter).
KeyPressed ==
  /\ Handles("KeyPress")
  /\ IF Found THEN xpc' = "post" /\ Enter(Adam) ELSE xpc' = "poll" /\ UNCHANGED fs
  /\ UNCHANGED <<first, next, tcd, inited, idleWait, pc, child, told, exited, cpu, saved, cur, dcs,
                 shown, wins, queue, pipe, missed, moves>>

KeyPosted ==
  /\ XGoto("post", "poll")
  /\ Exit(Adam)
  /\ UNCHANGED <<first, next, tcd, inited, idleWait, pc, child, told, exited, cpu, saved, cur, dcs,
                 shown, wins, queue, pipe, event, missed, moves>>

\* Mutant: the completion is not noted.
CompletedIgnored ==
  /\ Handles("Completion")
  /\ xpc' = "poll"
  /\ ThUnchanged /\ UNCHANGED <<cur, dcs, wins, queue, pipe, missed>>

\* The completion of a window whose task is hidden by now is dropped.
Completed ==
  /\ Handles("Completion")
  /\ xpc' = "poll"
  /\ IF Found THEN used' = used \ {event.win} /\ UNCHANGED missed
              ELSE missed' = missed \cup {event.win} /\ UNCHANGED used
  /\ ThUnchanged /\ UNCHANGED <<cur, dcs, win, failed, nomap, queue, pipe>>

-----------------------------------------------------------------------------
(* The X server, the user and the tasks.                                   *)

ServerAnswers ==
  /\ pipe # <<>>
  /\ pipe' = Tail(pipe) /\ queue' = Append(queue, Head(pipe))
  /\ ThUnchanged /\ UNCHANGED <<xpc, cur, dcs, wins, event, missed>>

Work == moves + Cardinality({t \in Tasks : pc[t] # "none"})

Input(t) ==
  /\ t \in win
  /\ moves' = moves + 1
  /\ \E k \in {"Expose", "KeyPress"} : queue' = Append(queue, Event(k, t))
  /\ UNCHANGED <<thvars, xpc, cur, dcs, shown, wins, pipe, event, missed>>

ShowOrHide(t) ==
  /\ t \in Hiders \cap inited
  /\ moves' = moves + 1
  /\ shown' = IF t \in shown THEN shown \ {t} ELSE shown \cup {t}
  /\ UNCHANGED <<thvars, xpc, cur, dcs, wins, queue, pipe, event, missed>>

-----------------------------------------------------------------------------
Redraw ==
  Poll \/ RedrawLock \/ Visit \/ CreateWindow \/ Swap \/ Draw \/ RedrawEnd \/ Sync
HandleEvent == XNextEvent \/ Exposed \/ ExposedFailed \/ KeyPressed \/ Completed
Thread == ThNext /\ UNCHANGED <<xpc, cur, dcs, shown, wins, queue, pipe, event, missed, moves>>

Next ==
  \/ Thread /\ Work' <= MaxWork
  \/ ~exited /\ (\/ X11Start \/ Redraw \/ CreateFault \/ DrawFault \/ HandleEvent
                 \/ KeyPosted \/ ServerAnswers)
  \/ ~exited /\ Work < MaxWork /\ \E t \in Threads : Input(t) \/ ShowOrHide(t)

Spec == Init /\ [][Next]_vars

Running(t) == (Spawning(t) \/ Starting(t) \/ Dying(t)) /\ Thread

\* The loop and the X server go on, but nothing is assumed of lilith_TaskMsg; so do the
\* threads inside Spawn, their own start or the signal handler, which have few steps left.
FairSpec ==
  Spec /\ WF_vars(~exited /\ Redraw) /\ WF_vars(~exited /\ HandleEvent)
       /\ WF_vars(~exited /\ ServerAnswers) /\ WF_vars(~exited /\ \E t \in Threads : Running(t))

-----------------------------------------------------------------------------
(* Properties.                                                             *)

TypeOK ==
  /\ ThTypeOK
  /\ xpc \in XPCs /\ cur \in Threads \cup {None}
  /\ dc2 \in Threads /\ dc \in Threads /\ tidc \in [Threads -> Threads \cup {None}]
  /\ shown \subseteq Threads /\ win \subseteq Threads
  /\ failed \subseteq win /\ used \subseteq win /\ nomap \subseteq win /\ missed \subseteq win
  /\ queue \in Seq([kind : Kinds, win : win]) /\ pipe \in Seq([kind : Kinds, win : win])
  /\ event = NoEvent \/ event \in [kind : Kinds, win : win]
  /\ moves \in 0..MaxWork

\* Every task is drawn to a device context of its own, and gr->dc2, which all of TempleOS
\* draws to, is the window manager's again whenever the loop is not drawing: its window takes
\* whatever gr->dc2 is when it is made, in the middle of a walk (x11_start).
OwnContext ==
  /\ \A t \in Threads : tidc[t] \in {None, t}
  /\ pc[Adam] = "x11" /\ xpc # "draw" => dc2 = Adam

InTempleOS(t) ==
  pc[t] \in {"ready", "heap"} \/ (t = Adam /\ pc[t] = "x11" /\ xpc \in {"draw", "post"})

\* A thread has its CTask in FS while it runs TempleOS code, and what it calls of the heap,
\* which does not swap it; and the glibc block of its own thread, not another's, while it
\* runs other C code: also when it is created, waits, is told and faults while the others do
\* (enter_templeos, exit_templeos, templeos_task_start).
OwnFs == \A t \in Threads : pc[t] # "gone" => fs[t] = IF InTempleOS(t) THEN Task(t) ELSE Tls(t)

\* As long as the process lives, Adam has a window and every key the loop posts comes back
\* from lilith_TaskMsg, the window of every task that is shown from some moment on is drawn
\* and sent to the server again and again, unless create_window failed for it or its
\* completion was dropped: XNextEvent never waits for an event that nothing causes (x11_start).
FramesGoOn ==
  \A t \in Hiders \cup {Adam} :
    (/\ <>[](/\ t \in (shown \cap Listed) \ (failed \cup missed)
             /\ pc[Adam] = "x11" /\ ~exited /\ Adam \notin failed)
     /\ []<>(xpc # "post"))
      => []<>(xpc = "event" /\ event = Event("Expose", t))
=============================================================================
