------------------------------ MODULE SoftTimer ------------------------------
(***************************************************************************)
(* The timers of rtos_pub.c on the timer task of FreeRTOS, as changed for  *)
(* this SDK (configTIMER_STATE, timers.c): every call but the query is a   *)
(* command in one queue, which the timer task of low priority works off,   *)
(* while the owners of the timers, tasks of at least its priority, run     *)
(* between any two of its steps.                                           *)
(*                                                                         *)
(* Time is left out: a timer in the active list may expire at any moment,  *)
(* a command may be handled so late that the period has gone by, and a     *)
(* wait with a timeout may end at any moment.  Memory that was freed keeps *)
(* what it held: the flag alive of a kernel timer says whether it may      *)
(* still be used.                                                          *)
(***************************************************************************)
EXTENDS Naturals, Sequences, FiniteSets

CONSTANTS
    Periodic,       \* Timers made with rtos_init_timer (beken_timer_t)
    OneShot,        \* Timers made with rtos_init_oneshot_timer (beken2_timer_t)
    Blocking,       \* Timers whose owner deletes them with the _block call
    Reused,         \* Timers whose owner initialises them again once deleted
    Stopping,       \* Timers whose owner stops them before it deletes them
    Handles,        \* Kernel timers, each allocated at most once
    None,           \* NULL, as a handle and as a timer id
    QueueLen        \* configTIMER_QUEUE_LENGTH

Timers == Periodic \cup OneShot

ASSUME TimersAssumption ==
    /\ Periodic \cap OneShot = {}
    /\ Blocking \subseteq Timers /\ Reused \subseteq Timers /\ Stopping \subseteq Timers
    /\ None \notin Handles /\ None \notin Timers
    /\ QueueLen \in Nat \ {0}

VARIABLES
    bk,         \* The owners' structures: handle, state, magic and function set
    kt,         \* The kernel timers
    queue,      \* xTimerQueue
    task,       \* Where the timer task is
    owner,      \* Where the call of each timer's owner is
    final,      \* History: a blocking delete has seen the timer deleted
    gaveUp,     \* History: a blocking delete has stopped waiting
    armed,      \* History: started, or its period changed, and not stopped since
    missed,     \* History: the queue was full when the delete was handled
    lost        \* History: a restart found the queue full

vars == <<bk, kt, queue, task, owner, final, gaveUp, armed, missed, lost>>
history == <<final, gaveUp, armed, missed, lost>>

Command(cmd, h) == [cmd |-> cmd, h |-> h]
HasRoom == Len(queue) < QueueLen
Idle == [pc |-> "expiry", h |-> None, t |-> None, why |-> "none"]

-----------------------------------------------------------------------------
(* The calls of the owners *)

BlankBk == [handle |-> None, state |-> "deleted", valid |-> FALSE]
BlankKt == [alive |-> FALSE, state |-> "unused", listed |-> FALSE, auto |-> FALSE, id |-> None]

Init ==
    /\ bk = [t \in Timers |-> BlankBk]
    /\ kt = [h \in Handles |-> BlankKt]
    /\ queue = <<>>
    /\ task = Idle
    /\ owner = [t \in Timers |-> "idle"]
    /\ final = [t \in Timers |-> FALSE] /\ gaveUp = [t \in Timers |-> FALSE]
    /\ armed = [h \in Handles |-> FALSE] /\ missed = [h \in Handles |-> FALSE]
    /\ lost = [h \in Handles |-> FALSE]

\* No kernel timer was made for the structure yet: a delete leaves the id, unless
\* it gave up.
FirstUse(t) == ~gaveUp[t] /\ \A h \in Handles : kt[h].id # t

\* rtos_init_timer and rtos_init_oneshot_timer; when no kernel timer can be had
\* the structure is filled in all the same, with a NULL handle.
rtos_init_timer(t) ==
    /\ owner[t] = "idle" /\ bk[t].handle = None
    /\ FirstUse(t) \/ t \in Reused
    /\ \/ \E h \in Handles :
             /\ kt[h].state = "unused"
             /\ kt' = [kt EXCEPT ![h] = [alive |-> TRUE, state |-> "init", listed |-> FALSE,
                                         auto |-> t \in Periodic, id |-> t]]
             /\ bk' = [bk EXCEPT ![t] = [handle |-> h, state |-> "init", valid |-> TRUE]]
       \/ /\ bk' = [bk EXCEPT ![t] = [handle |-> None, state |-> "init", valid |-> TRUE]]
          /\ UNCHANGED kt
    /\ final' = [final EXCEPT ![t] = FALSE]
    /\ UNCHANGED <<queue, task, owner, gaveUp, armed, missed, lost>>

\* rtos_start_timer and rtos_reload_timer, rtos_stop_timer: they wait for room
\* in the queue for ever.
Send(t, cmd) ==
    /\ owner[t] = "idle" /\ bk[t].handle # None
    /\ HasRoom
    /\ queue' = Append(queue, Command(cmd, bk[t].handle))
    /\ UNCHANGED <<bk, kt, task, owner, history>>
rtos_start_timer(t) == Send(t, "start")
rtos_stop_timer(t) == Send(t, "stop")

\* rtos_change_period does not wait: with a full queue it returns kGeneralErr,
\* and nothing has changed.
rtos_change_period(t) == Send(t, "change")

\* The owner's last command for h was a stop; the timer task adds restarts.
StopSent(h) ==
    LET sent == {i \in DOMAIN queue : queue[i].h = h /\ queue[i].cmd # "restart"}
    IN  \/ sent = {} /\ kt[h].state = "stopped"
        \/ \E i \in sent : queue[i].cmd = "stop" /\ \A j \in sent : j <= i

MayDelete(t) ==
    /\ owner[t] = "idle" /\ bk[t].handle # None
    /\ t \in Stopping => StopSent(bk[t].handle)
    /\ HasRoom

\* Mutant: the delete marks the timer as deleted itself.
deinit_timer_Deleted(t) ==
    /\ MayDelete(t)
    /\ queue' = Append(queue, Command("delete", bk[t].handle))
    /\ bk' = [bk EXCEPT ![t].state = "deleted", ![t].valid = @ /\ t \in Periodic]
    /\ owner' = [owner EXCEPT ![t] = IF t \in Blocking THEN "wait" ELSE "finish"]
    /\ UNCHANGED <<kt, task, history>>

\* deinit_timer and deinit_oneshot_timer, up to the end of the first critical
\* section.  Only the one-shot variant clears magic and function.
deinit_timer(t) ==
    /\ MayDelete(t)
    /\ queue' = Append(queue, Command("delete", bk[t].handle))
    /\ bk' = [bk EXCEPT ![t].state = "deleting", ![t].valid = @ /\ t \in Periodic]
    /\ owner' = [owner EXCEPT ![t] = IF t \in Blocking THEN "wait" ELSE "finish"]
    /\ UNCHANGED <<kt, task, history>>

\* Mutant: the wait is left out.
WaitEnds_AtOnce(t) ==
    /\ owner[t] = "wait"
    /\ owner' = [owner EXCEPT ![t] = "finish"]
    /\ final' = [final EXCEPT ![t] = TRUE]
    /\ UNCHANGED <<bk, kt, queue, task, gaveUp, armed, missed, lost>>

\* WAIT_BEKEN_TIMER_DELETED ends: the timer task has set the state, ...
WaitEnds(t) ==
    /\ owner[t] = "wait" /\ bk[t].state = "deleted"
    /\ owner' = [owner EXCEPT ![t] = "finish"]
    /\ final' = [final EXCEPT ![t] = TRUE]
    /\ UNCHANGED <<bk, kt, queue, task, gaveUp, armed, missed, lost>>

\* ... or five seconds have gone by and the state is still the same.
WaitGivesUp(t) ==
    /\ owner[t] = "wait" /\ bk[t].state = "deleting"
    /\ owner' = [owner EXCEPT ![t] = "clear_id"]
    /\ gaveUp' = [gaveUp EXCEPT ![t] = TRUE]
    /\ UNCHANGED <<bk, kt, queue, task, final, armed, missed, lost>>

\* vTimerSetTimerID(timer->handle, NULL), wherever the timer task is by now.
ClearTimerID(t) ==
    /\ owner[t] = "clear_id"
    /\ kt' = [kt EXCEPT ![bk[t].handle].id = None]
    /\ owner' = [owner EXCEPT ![t] = "finish"]
    /\ UNCHANGED <<bk, queue, task, history>>

FinishDeinit(t) ==
    /\ owner[t] = "finish"
    /\ bk' = [bk EXCEPT ![t].handle = None, ![t].state = "deleted"]
    /\ owner' = [owner EXCEPT ![t] = "idle"]
    /\ UNCHANGED <<kt, queue, task, history>>

-----------------------------------------------------------------------------
(* The timer task: one expired timer, then all the commands, and again *)

\* Mutant: the call stands inside configASSERT, which is empty.
Restart_Asserted(h) == UNCHANGED <<queue, lost>>

\* Mutant: the command is queued whether or not there is room.
Restart_Unchecked(h) == queue' = Append(queue, Command("restart", h)) /\ UNCHANGED lost

\* xTimerGenericCommand(tmrCOMMAND_START_DONT_TRACE) with tmrNO_DELAY: its
\* result is only asserted, and configASSERT is empty in this build.
Restart(h) ==
    /\ queue' = IF HasRoom THEN Append(queue, Command("restart", h)) ELSE queue
    /\ lost' = [lost EXCEPT ![h] = @ \/ ~HasRoom]

Callback(h, why) == task' = [pc |-> "fetch", h |-> h, t |-> None, why |-> why]
GoOn == task' = [Idle EXCEPT !.pc = "commands"]

CallIfRunning(h) == IF kt[h].state = "running" THEN Callback(h, "expired") ELSE GoOn

\* prvProcessExpiredTimer.  A periodic timer is put back into the list first,
\* or restarted by a command when the next period is over as well.
ProcessExpiredTimer(h) ==
    /\ task.pc = "expiry" /\ kt[h].listed
    /\ \/ kt[h].auto /\ UNCHANGED <<kt, queue, lost>>
       \/ kt[h].auto /\ kt' = [kt EXCEPT ![h].listed = FALSE] /\ Restart(h)
       \/ ~kt[h].auto /\ kt' = [kt EXCEPT ![h].listed = FALSE] /\ UNCHANGED <<queue, lost>>
    /\ CallIfRunning(h)
    /\ UNCHANGED <<bk, owner, final, gaveUp, armed, missed>>

\* Nothing has expired: the task waits for a command.
BlockTask ==
    /\ task.pc = "expiry" /\ queue # <<>>
    /\ GoOn
    /\ UNCHANGED <<bk, kt, queue, owner, history>>

CommandsDone ==
    /\ task.pc = "commands" /\ queue = <<>>
    /\ task' = Idle
    /\ UNCHANGED <<bk, kt, queue, owner, history>>

\* Any command first takes its timer out of the list.
Receive(cmd, h) ==
    /\ task.pc = "commands" /\ queue # <<>>
    /\ Head(queue) = Command(cmd, h)
    /\ queue' = Tail(queue)

Restartable(cmd, h) == cmd = "start" \/ (cmd = "restart" /\ kt[h].state # "stopped")

\* tmrCOMMAND_START, tmrCOMMAND_RESET and tmrCOMMAND_START_DONT_TRACE.  A
\* timer that is over by now is called at once.
ReceiveStart(cmd, h) ==
    /\ cmd \in {"start", "restart"} /\ Receive(cmd, h)
    /\ \/ /\ Restartable(cmd, h)
          /\ \/ kt' = [kt EXCEPT ![h].state = "running", ![h].listed = TRUE] /\ UNCHANGED task
             \/ /\ kt' = [kt EXCEPT ![h].state = "running", ![h].listed = FALSE]
                /\ Callback(h, "late")
       \/ /\ ~Restartable(cmd, h)
          /\ kt' = [kt EXCEPT ![h].listed = FALSE] /\ UNCHANGED task
    /\ armed' = [armed EXCEPT ![h] = @ \/ cmd = "start"]
    /\ UNCHANGED <<bk, owner, final, gaveUp, missed, lost>>

ReceiveStop(h) ==
    /\ Receive("stop", h)
    /\ kt' = [kt EXCEPT ![h].state = "stopped", ![h].listed = FALSE]
    /\ armed' = [armed EXCEPT ![h] = FALSE]
    /\ UNCHANGED <<bk, task, owner, final, gaveUp, missed, lost>>

\* A stopped timer gets its period only; any other one goes into the list, but
\* one that was never started is not marked as running.
ReceiveChangePeriod(h) ==
    /\ Receive("change", h)
    /\ kt' = [kt EXCEPT ![h].listed = kt[h].state # "stopped"]
    /\ armed' = [armed EXCEPT ![h] = @ \/ kt[h].state # "stopped"]
    /\ UNCHANGED <<bk, task, owner, final, gaveUp, missed, lost>>

ReceiveDelete(h) ==
    /\ Receive("delete", h)
    /\ kt' = [kt EXCEPT ![h].listed = FALSE]
    /\ task' = [pc |-> "clear", h |-> h, t |-> None, why |-> "delete"]
    /\ UNCHANGED <<bk, owner, history>>

\* tmrCOMMAND_SKIP
ReceiveSkip(h) ==
    /\ Receive("skip", h)
    /\ kt' = [kt EXCEPT ![h].listed = FALSE]
    /\ UNCHANGED <<bk, task, owner, history>>

\* Mutant: the commands of the timer stay.
SkipCommands_None(h) == UNCHANGED queue

\* prvClearQueuedMsg.  xQueuePickNext finds the end of a full queue at its
\* beginning: no command is marked then.
SkipCommands(h) ==
    queue' = [i \in DOMAIN queue |->
                IF queue[i].h = h /\ HasRoom THEN Command("skip", h) ELSE queue[i]]

\* The rest of tmrCOMMAND_DELETE up to the call of the callback.
ClearQueuedMsg ==
    /\ task.pc = "clear"
    /\ SkipCommands(task.h)
    /\ missed' = [missed EXCEPT ![task.h] = ~HasRoom]
    /\ task' = [task EXCEPT !.pc = IF kt[task.h].id # None THEN "fetch" ELSE "free"]
    /\ UNCHANGED <<bk, kt, owner, final, gaveUp, armed, lost>>

FreeTimer ==
    /\ task.pc = "free"
    /\ kt' = [kt EXCEPT ![task.h].alive = FALSE]
    /\ GoOn
    /\ UNCHANGED <<bk, queue, owner, history>>

-----------------------------------------------------------------------------
(* timer_callback1 and timer_callback2, in the timer task *)

FetchTimer ==
    /\ task.pc = "fetch"
    /\ task' = [task EXCEPT !.pc = "test", !.t = kt[task.h].id]
    /\ UNCHANGED <<bk, kt, queue, owner, history>>

\* Mutant: a timer that is being deleted is left as it is.
MarkDeleted_Not(t) == FALSE
MarkDeleted(t) == bk[t].state = "deleting" /\ (t \in Periodic \/ bk[t].valid)

MayCall(t, h) ==
    /\ bk[t].state = "init" /\ bk[t].handle # None
    /\ t \in Periodic => kt[h].state # "stopped"
    /\ t \in OneShot => bk[t].valid

\* The callback reads through the id whatever it is: a NULL leads nowhere.
TestTimer ==
    /\ task.pc = "test"
    /\ LET t == task.t
       IN  /\ bk' = IF t # None /\ MarkDeleted(t) THEN [bk EXCEPT ![t].state = "deleted"] ELSE bk
           /\ task' = [task EXCEPT !.pc = IF t # None /\ MayCall(t, task.h) THEN "call" ELSE "done"]
    /\ UNCHANGED <<kt, queue, owner, history>>

\* timer->function(timer->arg)
CallFunction ==
    /\ task.pc = "call"
    /\ task' = [task EXCEPT !.pc = "done"]
    /\ UNCHANGED <<bk, kt, queue, owner, history>>

CallbackDone ==
    /\ task.pc = "done"
    /\ IF task.why = "delete" THEN task' = [task EXCEPT !.pc = "free"] ELSE GoOn
    /\ IF task.why = "late" /\ kt[task.h].auto THEN Restart(task.h) ELSE UNCHANGED <<queue, lost>>
    /\ UNCHANGED <<bk, kt, owner, final, gaveUp, armed, missed>>

-----------------------------------------------------------------------------
OwnerCall(t) ==
    \/ rtos_init_timer(t) \/ rtos_start_timer(t) \/ rtos_stop_timer(t)
    \/ rtos_change_period(t) \/ deinit_timer(t)
Deinit(t) == WaitEnds(t) \/ ClearTimerID(t) \/ FinishDeinit(t)
Received ==
    \E h \in Handles :
        \/ \E cmd \in {"start", "restart"} : ReceiveStart(cmd, h)
        \/ ReceiveStop(h) \/ ReceiveChangePeriod(h) \/ ReceiveDelete(h) \/ ReceiveSkip(h)
TimerTask ==
    \/ \E h \in Handles : ProcessExpiredTimer(h)
    \/ BlockTask \/ CommandsDone \/ Received
    \/ ClearQueuedMsg \/ FreeTimer
    \/ FetchTimer \/ TestTimer \/ CallFunction \/ CallbackDone

Next ==
    \/ \E t \in Timers : OwnerCall(t) \/ Deinit(t) \/ WaitGivesUp(t)
    \/ TimerTask

Spec == Init /\ [][Next]_vars

\* The timer task gets the processor when its betters wait, and an owner goes
\* on with a call it has begun.  Nobody has to give up.
FairSpec == Spec /\ WF_vars(TimerTask) /\ \A t \in Timers : WF_vars(Deinit(t))

-----------------------------------------------------------------------------
Commands == {"start", "stop", "change", "delete", "restart", "skip"}

\* The type invariant.
TypeOK ==
    /\ bk \in [Timers -> [handle : Handles \cup {None},
                          state : {"init", "deleting", "deleted"}, valid : BOOLEAN]]
    /\ kt \in [Handles -> [alive : BOOLEAN, state : {"unused", "init", "running", "stopped"},
                           listed : BOOLEAN, auto : BOOLEAN, id : Timers \cup {None}]]
    /\ queue \in Seq([cmd : Commands, h : Handles]) /\ Len(queue) <= QueueLen
    /\ task \in [pc : {"expiry", "commands", "clear", "free", "fetch", "test", "call", "done"},
                 h : Handles \cup {None}, t : Timers \cup {None},
                 why : {"none", "expired", "late", "delete"}]
    /\ owner \in [Timers -> {"idle", "wait", "clear_id", "finish"}]
    /\ final \in [Timers -> BOOLEAN] /\ gaveUp \in [Timers -> BOOLEAN]
    /\ armed \in [Handles -> BOOLEAN] /\ missed \in [Handles -> BOOLEAN]
    /\ lost \in [Handles -> BOOLEAN]

\* Once a blocking delete has returned the function is not called any more,
\* until the structure is initialised again: a call that had begun is over, and
\* no expiry, late start or delete that is still to come begins another.
NoCallAfterDelete == \A t \in Timers : final[t] => ~(task.pc = "call" /\ task.t = t)

\* The call of the callback when a delete is handled only sets the state
\* (timers.c:964): it never calls the function, not even that of a timer which
\* the owner has made of the same structure in the meantime.
DeleteOnlyMarks == task.pc = "call" => task.why # "delete"

\* Nor does the expiry of an old timer call the function of the new one, if the
\* owner waited for the delete of the old one and did not give up.
CalledByOwnTimer ==
    \A t \in Periodic \cap Blocking :
        task.pc = "call" /\ task.t = t /\ task.why = "expired" /\ ~gaveUp[t] =>
            bk[t].handle = task.h

\* Once a stop has been handled the function is not called before the next
\* start has: neither a change of the period, nor an expiry, nor a restart that
\* the timer task sent itself before the stop starts the timer again.
CalledOnlyWhenStarted == task.pc = "call" => armed[task.h]

\* Whatever makes the timer task run the callback, the function is called only
\* for a timer that its owner has started, and it is that timer's.
CallsAreRight == DeleteOnlyMarks /\ CalledByOwnTimer /\ CalledOnlyWhenStarted

\* A freed kernel timer is in no list, and every command left for it is marked
\* to be skipped, unless the queue was full when the delete was handled.
FreedTimersSkipped ==
    \A h \in Handles : ~kt[h].alive /\ ~missed[h] =>
        /\ ~kt[h].listed
        /\ \A i \in DOMAIN queue : queue[i].h = h => queue[i].cmd = "skip"

\* A periodic timer that runs is in the list, or the command or the step that
\* will put it there is on its way, unless that command found the queue full.
RunningIsScheduled ==
    \A h \in Handles : kt[h].alive /\ kt[h].auto /\ kt[h].state = "running" =>
        \/ kt[h].listed \/ lost[h]
        \/ \E i \in DOMAIN queue : queue[i] = Command("restart", h)
        \/ task.h = h /\ task.why \in {"late", "delete"}

\* A blocking delete of a periodic timer returns without giving up.
BlockingDeleteReturns ==
    \A t \in Periodic \cap Blocking : owner[t] = "wait" ~> owner[t] = "idle"
=============================================================================
