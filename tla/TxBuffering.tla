---------------------------- MODULE TxBuffering -----------------------------
(***************************************************************************)
(* Frames for stations of the soft AP that sleep (rw_tx_buffering.c).  The *)
(* MAC tells of a station that goes to sleep or wakes; the thread kmsgbk   *)
(* then starts or stops the buffering (rw_msdu.c); the core thread saves   *)
(* the frames of sleeping stations, and when a message on its bus says so  *)
(* (app.c) sends them, one per message; the timer's task discards what has *)
(* been held too long, and hostapd whatever there is when a station comes  *)
(* or goes (hostapd_intf.c).                                               *)
(*                                                                         *)
(* The core thread runs before all others, so that its handlers are atomic *)
(* for them, and kmsgbk before hostapd, unless it waits; the timer's task  *)
(* may run between any two steps.  Frames are counted, not told apart.  Of *)
(* the timers (see SoftTimer) there is whether they run and the commands   *)
(* on their way.                                                           *)
(***************************************************************************)
EXTENDS Naturals, Sequences, SequencesExt

CONSTANTS
    Clients,        \* Places of the station table
    MaxCount,       \* MAX_TXBUFFER_COUNT
    BusLen,         \* CORE_QITEM_COUNT
    MaxInds,        \* Bound: indications of the MAC that kmsgbk has not seen
    MaxCommands     \* Room for the commands of a timer (configTIMER_QUEUE_LENGTH)

ASSUME BoundsAssumption ==
    /\ Clients # {}
    /\ MaxCount \in Nat \ {0} /\ BusLen \in Nat \ {0}
    /\ MaxInds \in Nat /\ MaxCommands \in Nat \ {0}

VARIABLES
    alive,          \* The stations that the MAC knows
    ps,             \* Those of them that sleep (ps_state)
    src,            \* Clients whose frames are to be saved (cntrl_src # 0)
    count,          \* The length of each bufing_list
    running,        \* Timers that run (rtos_is_timer_running)
    commands,       \* Commands for each timer that its task has not handled
    bus,            \* The queue of the core thread
    inds,           \* Indications on their way to kmsgbk
    kmsg,           \* Where kmsgbk is, and for which client
    flush,          \* Where the timer's task and hostapd are in a flush
    lost,           \* History: the message that restores was not sent
    early           \* History: hostapd ended the buffering of one who slept

vars == <<alive, ps, src, count, running, commands, bus, inds, kmsg, flush, lost, early>>
timers == <<running, commands>>

NoClient == CHOOSE c \in Clients : TRUE
Idle == [pc |-> "idle", c |-> NoClient]
NoFlush == [pc |-> "idle", c |-> NoClient, deleting |-> FALSE]

\* rwm_tx_bufing_init, and stations that are awake.
Init ==
    /\ alive = Clients /\ ps = {} /\ src = {}
    /\ count = [c \in Clients |-> 0]
    /\ running = {} /\ commands = [c \in Clients |-> <<>>]
    /\ bus = <<>> /\ inds = <<>>
    /\ kmsg = Idle
    /\ flush = [task \in {"timer", "hostapd"} |-> NoFlush]
    /\ lost = {} /\ early = {}

\* Who has a command and finds no room waits.
HasRoom(c) == Len(commands[c]) < MaxCommands

\* A command joins the queue of the timer's task.  The same one twice changes
\* nothing more, for time is left out.
Send(c, command) ==
    /\ commands' = [commands EXCEPT ![c] = IF @ # <<>> /\ Last(@) = command THEN @ ELSE Append(@, command)]
    /\ UNCHANGED running

-----------------------------------------------------------------------------
(* The MAC and the core thread *)

\* mm_ps_change_ind
PsChange(c) ==
    /\ c \in alive /\ Len(inds) < MaxInds
    /\ ps' = IF c \in ps THEN ps \ {c} ELSE ps \cup {c}
    /\ inds' = Append(inds, [c |-> c, on |-> c \notin ps])
    /\ early' = early \ {c}
    /\ UNCHANGED <<alive, src, count, timers, bus, kmsg, flush, lost>>

\* The TCP/IP stack sends a frame.
SendFrame(c) ==
    /\ c \in alive /\ Len(bus) < BusLen
    /\ bus' = Append(bus, [type |-> "tx", c |-> c])
    /\ UNCHANGED <<alive, ps, src, count, timers, inds, kmsg, flush, lost, early>>

\* Mutant: the oldest frame is not discarded when the list is full.
save_data_Keep(c) ==
    /\ IF count[c] = 0 /\ c \notin running THEN HasRoom(c) /\ Send(c, "start") ELSE UNCHANGED timers
    /\ count' = [count EXCEPT ![c] = @ + 1]

\* rwm_tx_bufing_save_data; a full list loses its oldest frame.
save_data(c) ==
    /\ IF count[c] = 0 /\ c \notin running THEN HasRoom(c) /\ Send(c, "start") ELSE UNCHANGED timers
    /\ count' = [count EXCEPT ![c] = IF @ < MaxCount THEN @ + 1 ELSE @]

\* rwm_transfer: without buffering the frame goes to the MAC.
rwm_transfer ==
    /\ bus # <<>> /\ Head(bus).type = "tx"
    /\ bus' = Tail(bus)
    /\ LET c == Head(bus).c
       IN  IF c \in src \cap alive THEN save_data(c) ELSE UNCHANGED <<count, timers>>
    /\ UNCHANGED <<alive, ps, src, inds, kmsg, flush, lost, early>>

\* Mutant: one frame is sent, and no message for the next.
restore_data_Once ==
    /\ bus # <<>> /\ Head(bus).type = "restore"
    /\ LET c == Head(bus).c
       IN  /\ bus' = Tail(bus)
           /\ count' = IF c \in ps \cup src \/ count[c] = 0 THEN count ELSE [count EXCEPT ![c] = @ - 1]
    /\ UNCHANGED <<alive, ps, src, timers, inds, kmsg, flush, lost, early>>

\* rwm_tx_bufing_restore_data: a frame is sent, and another message asks for the
\* next.  It finds the place that this one has left, unless the bus was full and
\* an interrupt came first (whose message is not shown).
restore_data ==
    /\ bus # <<>> /\ Head(bus).type = "restore"
    /\ LET c == Head(bus).c
       IN  \/ /\ c \in ps \cup src \/ count[c] = 0
              /\ bus' = Tail(bus) /\ UNCHANGED <<count, lost>>
           \/ /\ c \notin ps \cup src /\ count[c] > 0
              /\ count' = [count EXCEPT ![c] = @ - 1]
              /\ \/ count[c] = 1 /\ bus' = Tail(bus) /\ UNCHANGED lost
                 \/ count[c] > 1 /\ bus' = Append(Tail(bus), Head(bus)) /\ UNCHANGED lost
                 \/ /\ count[c] > 1 /\ Len(bus) = BusLen
                    /\ bus' = Tail(bus) /\ lost' = lost \cup {c}
    /\ UNCHANGED <<alive, ps, src, timers, inds, kmsg, flush, early>>

-----------------------------------------------------------------------------
(* kmsgbk: rwm_msdu_ps_change_ind_handler *)

KmsgGoto(pc) == kmsg' = [kmsg EXCEPT !.pc = pc]

\* Mutant: while the timer runs, the buffering is taken to be on.
bufing_start_Running ==
    /\ kmsg.pc = "idle" /\ inds # <<>> /\ Head(inds).on
    /\ inds' = Tail(inds)
    /\ src' = IF Head(inds).c \in running THEN src ELSE src \cup {Head(inds).c}
    /\ kmsg' = [pc |-> "start", c |-> Head(inds).c]
    /\ UNCHANGED <<alive, ps, count, timers, bus, flush, lost, early>>

\* rwm_trigger_tx_bufing_start
bufing_start ==
    /\ kmsg.pc = "idle" /\ inds # <<>> /\ Head(inds).on
    /\ inds' = Tail(inds)
    /\ src' = src \cup {Head(inds).c}
    /\ kmsg' = [pc |-> "start", c |-> Head(inds).c]
    /\ UNCHANGED <<alive, ps, count, timers, bus, flush, lost, early>>

\* rwm_trigger_tx_bufing_stop does nothing unless the buffering was on.
bufing_stop ==
    /\ kmsg.pc = "idle" /\ inds # <<>> /\ ~Head(inds).on
    /\ inds' = Tail(inds)
    /\ src' = src \ {Head(inds).c}
    /\ kmsg' = IF Head(inds).c \in src THEN [pc |-> "count", c |-> Head(inds).c] ELSE Idle
    /\ UNCHANGED <<alive, ps, count, timers, bus, flush, lost, early>>

CountFrames ==
    /\ kmsg.pc = "count"
    /\ KmsgGoto(IF count[kmsg.c] > 0 THEN "restore" ELSE "running")
    /\ UNCHANGED <<alive, ps, src, count, timers, bus, inds, flush, lost, early>>

\* bmsg_tx_bufing_sender does not wait, and its failure goes unnoticed.
bmsg_tx_bufing_sender ==
    /\ kmsg.pc = "restore"
    /\ IF Len(bus) < BusLen
       THEN bus' = Append(bus, [type |-> "restore", c |-> kmsg.c]) /\ lost' = lost \ {kmsg.c}
       ELSE lost' = lost \cup {kmsg.c} /\ UNCHANGED bus
    /\ KmsgGoto("running")
    /\ UNCHANGED <<alive, ps, src, count, timers, inds, flush, early>>

\* Each of the two asks whether the timer runs ...
AskRunning ==
    /\ \/ kmsg.pc = "start" /\ KmsgGoto(IF kmsg.c \in running THEN "idle" ELSE "send_start")
       \/ kmsg.pc = "running" /\ KmsgGoto(IF kmsg.c \in running THEN "send_stop" ELSE "idle")
    /\ UNCHANGED <<alive, ps, src, count, timers, bus, inds, flush, lost, early>>

\* ... and starts or stops it then.
SetTimer ==
    /\ HasRoom(kmsg.c)
    /\ \/ kmsg.pc = "send_start" /\ Send(kmsg.c, "start")
       \/ kmsg.pc = "send_stop" /\ Send(kmsg.c, "stop")
    /\ kmsg' = Idle
    /\ UNCHANGED <<alive, ps, src, count, bus, inds, flush, lost, early>>

-----------------------------------------------------------------------------
(* rwm_flush_bufing_list, in the timer's task and in hostapd *)

\* kmsgbk waits for the timer's task.
KmsgWaits == kmsg.pc \in {"send_start", "send_stop"} /\ ~HasRoom(kmsg.c)

MayRun(task) == task = "hostapd" => KmsgWaits \/ (kmsg.pc = "idle" /\ inds = <<>>)

At(task, pc) == MayRun(task) /\ flush[task].pc = pc
FlushGoto(task, pc) == flush' = [flush EXCEPT ![task].pc = pc]

\* Every frame is taken off the list, ...
FlushPop(task) ==
    /\ At(task, "pop")
    /\ LET c == flush[task].c
       IN  IF count[c] > 0
           THEN count' = [count EXCEPT ![c] = @ - 1] /\ UNCHANGED flush
           ELSE FlushGoto(task, "running") /\ UNCHANGED count
    /\ UNCHANGED <<alive, ps, src, timers, bus, inds, kmsg, lost, early>>

\* Mutant: the timer goes on.
FlushAskRunning_Not(task) ==
    /\ At(task, "running")
    /\ FlushGoto(task, "end")
    /\ UNCHANGED <<alive, ps, src, count, timers, bus, inds, kmsg, lost, early>>

\* ... and a timer that runs is stopped.
FlushAskRunning(task) ==
    /\ At(task, "running")
    /\ FlushGoto(task, IF flush[task].c \in running THEN "stop" ELSE "end")
    /\ UNCHANGED <<alive, ps, src, count, timers, bus, inds, kmsg, lost, early>>

\* The timer's task, which would wait for itself, is given a place of its own.
FlushStop(task) ==
    /\ At(task, "stop") /\ (task = "hostapd" => HasRoom(flush[task].c))
    /\ Send(flush[task].c, "stop")
    /\ FlushGoto(task, "end")
    /\ UNCHANGED <<alive, ps, src, count, bus, inds, kmsg, lost, early>>

\* The task of the timers: a command, ...
TimerCommand(c) ==
    /\ flush["timer"].pc = "idle" /\ commands[c] # <<>>
    /\ commands' = [commands EXCEPT ![c] = Tail(@)]
    /\ running' = IF Head(commands[c]) = "start" THEN running \cup {c} ELSE running \ {c}
    /\ UNCHANGED <<alive, ps, src, count, bus, inds, kmsg, flush, lost, early>>

\* ... or rwm_tx_bufing_timeout.
TimerExpires(c) ==
    /\ flush["timer"].pc = "idle" /\ c \in running
    /\ flush' = [flush EXCEPT !["timer"] = [pc |-> "pop", c |-> c, deleting |-> FALSE]]
    /\ UNCHANGED <<alive, ps, src, count, timers, bus, inds, kmsg, lost, early>>

TimerFlushed ==
    /\ flush["timer"].pc = "end"
    /\ flush' = [flush EXCEPT !["timer"] = NoFlush]
    /\ UNCHANGED <<alive, ps, src, count, timers, bus, inds, kmsg, lost, early>>

-----------------------------------------------------------------------------
(* hostapd *)

\* The request to add a station ends when kmsgbk has seen its confirmation, and
\* before it whatever the MAC has told until then.
RequestEnds == kmsg.pc = "idle" /\ inds = <<>>

\* hapd_intf_sta_add: the MAC knows the station before rwm_tx_bufing_end.
hapd_intf_sta_add(c) ==
    /\ At("hostapd", "idle") /\ RequestEnds /\ c \notin alive
    /\ alive' = alive \cup {c} /\ ps' = ps \ {c}
    /\ flush' = [flush EXCEPT !["hostapd"] = [pc |-> "bufing_end", c |-> c, deleting |-> FALSE]]
    /\ UNCHANGED <<src, count, timers, bus, inds, kmsg, lost, early>>

hapd_intf_sta_del(c) ==
    /\ At("hostapd", "idle") /\ c \in alive
    /\ flush' = [flush EXCEPT !["hostapd"] = [pc |-> "bufing_end", c |-> c, deleting |-> TRUE]]
    /\ UNCHANGED <<alive, ps, src, count, timers, bus, inds, kmsg, lost, early>>

\* rwm_tx_bufing_end, up to the flush
bufing_end ==
    /\ At("hostapd", "bufing_end")
    /\ LET c == flush["hostapd"].c
       IN  /\ src' = src \ {c}
           /\ early' = early \cup ({c} \cap ps)
    /\ FlushGoto("hostapd", "pop")
    /\ UNCHANGED <<alive, ps, count, timers, bus, inds, kmsg, lost>>

\* rw_msg_send_me_sta_del waits for nothing: the MAC forgets the station, unless
\* the bus has no room for the message.
hapd_intf_done ==
    /\ At("hostapd", "end")
    /\ alive' = IF flush["hostapd"].deleting /\ Len(bus) < BusLen
                THEN alive \ {flush["hostapd"].c} ELSE alive
    /\ flush' = [flush EXCEPT !["hostapd"] = NoFlush]
    /\ UNCHANGED <<ps, src, count, timers, bus, inds, kmsg, lost, early>>

-----------------------------------------------------------------------------
core_thread_main == rwm_transfer \/ restore_data
kmsg_bk_thread_main ==
    bufing_start \/ bufing_stop \/ CountFrames \/ bmsg_tx_bufing_sender \/ AskRunning \/ SetTimer
rwm_flush_bufing_list(task) == FlushPop(task) \/ FlushAskRunning(task) \/ FlushStop(task)
TimerTask == rwm_flush_bufing_list("timer") \/ TimerFlushed \/ \E c \in Clients : TimerCommand(c)
hostapd == rwm_flush_bufing_list("hostapd") \/ bufing_end \/ hapd_intf_done

Next ==
    \/ core_thread_main \/ kmsg_bk_thread_main \/ TimerTask \/ hostapd
    \/ \E c \in Clients :
          \/ PsChange(c) \/ SendFrame(c) \/ TimerExpires(c)
          \/ hapd_intf_sta_add(c) \/ hapd_intf_sta_del(c)

Spec == Init /\ [][Next]_vars

\* Threads that are ready run.  The timer's task prefers an expired timer to a
\* command, but a timer expires once in three seconds, and neither keeps the
\* other waiting for ever.  Nothing forces a station to wake or a frame to come.
FairSpec ==
    /\ Spec
    /\ WF_vars(core_thread_main) /\ WF_vars(kmsg_bk_thread_main)
    /\ WF_vars(TimerTask) /\ WF_vars(hostapd)
    /\ \A c \in Clients : SF_vars(TimerExpires(c)) /\ SF_vars(TimerCommand(c))

-----------------------------------------------------------------------------
\* The type invariant.
TypeOK ==
    /\ alive \subseteq Clients /\ ps \subseteq Clients /\ src \subseteq Clients
    /\ running \subseteq Clients
    /\ lost \subseteq Clients /\ early \subseteq Clients
    /\ count \in [Clients -> 0 .. MaxCount]
    /\ commands \in [Clients -> Seq({"start", "stop"})]
    /\ bus \in Seq([type : {"tx", "restore"}, c : Clients]) /\ Len(bus) <= BusLen
    /\ inds \in Seq([c : Clients, on : BOOLEAN]) /\ Len(inds) <= MaxInds
    /\ kmsg \in [pc : {"idle", "start", "send_start", "count", "restore", "running", "send_stop"}, c : Clients]
    /\ flush \in [{"timer", "hostapd"} ->
                  [pc : {"idle", "bufing_end", "pop", "running", "stop", "end"}, c : Clients, deleting : BOOLEAN]]

\* Nothing that concerns the station is under way.
Settled(c) ==
    /\ c \in alive /\ kmsg.pc = "idle" /\ inds = <<>>
    /\ \A task \in DOMAIN flush : flush[task].pc # "idle" => flush[task].c # c
    /\ [type |-> "restore", c |-> c] \notin Range(bus)

\* The frames of a station that is awake are not held back, whoever changed
\* what in between: neither by a mark that was left on nor in a list that
\* nobody will empty (as long as the message that restores could be sent).
AwakeNotHeld ==
    \A c \in Clients : Settled(c) /\ c \notin ps =>
        /\ c \notin src
        /\ count[c] = 0 \/ c \in lost

\* The frames of a station that sleeps are held back, unless hostapd has ended
\* the buffering when it already slept.
SleeperHeld == \A c \in Clients : Settled(c) /\ c \in ps => c \in src \/ c \in early

\* Whatever the four threads do at the same time, frames are held back exactly
\* while their station sleeps.
HeldWhileAsleep == AwakeNotHeld /\ SleeperHeld

\* A station that stays awake gets all its frames.
AwakeDrains ==
    \A c \in Clients : []<>(count[c] = 0 \/ c \in ps \/ c \notin alive \/ c \in lost)

\* When no more frames come and no station changes its mind, every timer that
\* was started comes to rest, whoever started and stopped it at the same time.
TimersRest == <>[](bus = <<>> /\ inds = <<>>) => <>[](running = {})
=============================================================================
