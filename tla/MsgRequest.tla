----------------------------- MODULE MsgRequest -----------------------------
(***************************************************************************)
(* Requests to the MAC: rw_msg_send (rw_msg_tx.c) registers the caller,    *)
(* pushes the request to the bus of the core thread (app.c) and waits; the *)
(* MAC confirms it some time, and the thread kmsgbk looks for the first    *)
(* registered caller that waits for a confirmation of this kind            *)
(* (rwnx_recv_msg, rw_msg_rx.c).                                           *)
(*                                                                         *)
(* The threads have fixed priorities: the core thread runs whenever it     *)
(* can, the callers (wpa_supplicant, hostapd, lwIP, the application) only  *)
(* when kmsgbk has nothing to do.  Only calls that ask for a confirmation  *)
(* are modelled.  A call is known by its caller and its number; that a     *)
(* confirmation belongs to it is known to the model only, for the code     *)
(* compares kinds.  Freed memory keeps what it held.                       *)
(*                                                                         *)
(* The lists are those of the MAC library (co_list.h).  Its push_back and  *)
(* pop_front disable the interrupts themselves (they call portDISABLE_IRQ  *)
(* and portDISABLE_FIQ in all of lib/librwnx_*.a), extract does not and is *)
(* called with them disabled: each of these is one step here, the pop of   *)
(* rw_msg_rx.c:1304 included.                                              *)
(***************************************************************************)
EXTENDS Naturals, Sequences, FiniteSets, SequencesExt

CONSTANTS
    Callers,        \* Threads that call rw_msg_send
    Kind,           \* reqid: the kind of confirmation each of them asks for
    MaxCalls,       \* Bound: the calls of each caller
    BusLen,         \* CORE_QITEM_COUNT
    None            \* No call

ASSUME CallersAssumption ==
    /\ IsFiniteSet(Callers)
    /\ MaxCalls \in [Callers -> Nat] /\ BusLen \in Nat \ {0}
    /\ DOMAIN Kind = Callers

Calls == UNION {{c} \X (1 .. MaxCalls[c]) : c \in Callers}
KindOf(call) == Kind[call[1]]
ASSUME NoneAssumption == None \notin Calls

VARIABLES
    tx,             \* rw_msg_tx_head
    live,           \* The nodes (MSG_SND_NODE_ST) that are allocated
    sem,            \* Semaphores of nodes that have been set
    written,        \* What each call finds in its cfm
    caller,         \* Where each caller is, and in which call
    bus,            \* The queue of the core thread
    mac,            \* Requests the MAC has not confirmed yet
    rx,             \* rw_msg_rx_head
    app_sema,       \* The semaphore kmsgbk waits for
    kmsg,           \* Where kmsgbk is, with its message and the node it found
    older,          \* History: requests of its kind sent before a call began
    gaveUp,         \* History: kinds of which a call has failed
    overflowed      \* History: the bus was full when a request was pushed

vars == <<tx, live, sem, written, caller, bus, mac, rx, app_sema, kmsg, older, gaveUp, overflowed>>

Asleep == [pc |-> "asleep", msg |-> None, node |-> None]
Current(c) == <<c, caller[c].n>>

Init ==
    /\ tx = <<>> /\ live = {} /\ sem = {}
    /\ written = [call \in Calls |-> None]
    /\ caller = [c \in Callers |-> [pc |-> "idle", n |-> 0]]
    /\ bus = <<>> /\ mac = <<>> /\ rx = <<>>
    /\ app_sema = FALSE
    /\ kmsg = Asleep
    /\ older = [c \in Callers |-> {}]
    /\ gaveUp = {}
    /\ overflowed = FALSE

-----------------------------------------------------------------------------
(* rw_msg_send *)

\* No thread above the caller is ready.
MayRun == kmsg.pc = "asleep" /\ ~app_sema

Goto(c, pc) == caller' = [caller EXCEPT ![c].pc = pc]

\* co_list_extract: nothing happens when the node is not in the list.
Unregister(call) ==
    \/ \E i \in DOMAIN tx : tx[i] = call /\ tx' = RemoveAt(tx, i)
    \/ (\A i \in DOMAIN tx : tx[i] # call) /\ UNCHANGED tx

IsAt(call, pc) == caller[call[1]].n = call[2] /\ caller[call[1]].pc = pc

\* The call has sent its request, or ended without.
Sent(call) == call[2] <= caller[call[1]].n /\ ~IsAt(call, "push")

\* A new call starts by registering its node; without memory for it the call
\* returns at once, and nothing is sent.
Register(c) ==
    /\ MayRun /\ caller[c].pc = "idle" /\ caller[c].n < MaxCalls[c]
    /\ LET call == <<c, caller[c].n + 1>>
       IN  \/ /\ caller' = [caller EXCEPT ![c] = [pc |-> "push", n |-> @.n + 1]]
              /\ tx' = Append(tx, call)
              /\ live' = live \cup {call}
              /\ older' = [older EXCEPT ![c] =
                               {d \in Calls : KindOf(d) = Kind[c] /\ Sent(d)}]
           \/ /\ caller' = [caller EXCEPT ![c].n = @ + 1]
              /\ UNCHANGED <<tx, live, older>>
    /\ UNCHANGED <<sem, written, bus, mac, rx, app_sema, kmsg, gaveUp, overflowed>>

\* Mutant: a full bus is not noticed.
Push_Unchecked(c) ==
    /\ MayRun /\ caller[c].pc = "push"
    /\ bus' = Append(bus, Current(c))
    /\ Goto(c, "wait")
    /\ UNCHANGED <<tx, live, sem, written, mac, rx, app_sema, kmsg, older, gaveUp, overflowed>>

\* bmsg_ioctl_sender does not wait.  When the bus is full the node is freed
\* (FreeNode) and stays in the list.
Push(c) ==
    /\ MayRun /\ caller[c].pc = "push"
    /\ IF Len(bus) < BusLen
       THEN /\ bus' = Append(bus, Current(c))
            /\ Goto(c, "wait")
            /\ UNCHANGED <<gaveUp, overflowed>>
       ELSE /\ Goto(c, "failed")
            /\ gaveUp' = gaveUp \cup {Kind[c]} /\ overflowed' = TRUE
            /\ UNCHANGED bus
    /\ UNCHANGED <<tx, live, sem, written, mac, rx, app_sema, kmsg, older>>

\* rtos_get_semaphore gets the semaphore, ...
Answered(c) ==
    /\ MayRun /\ caller[c].pc = "wait" /\ Current(c) \in sem
    /\ sem' = sem \ {Current(c)}
    /\ Goto(c, "answered")
    /\ UNCHANGED <<tx, live, written, bus, mac, rx, app_sema, kmsg, older, gaveUp, overflowed>>

\* Mutant: the caller waits for ever.
TimedOut_Never(c) == FALSE

\* ... or five seconds have gone by.
TimedOut(c) ==
    /\ MayRun /\ caller[c].pc = "wait" /\ Current(c) \notin sem
    /\ Goto(c, "timed_out")
    /\ UNCHANGED <<tx, live, sem, written, bus, mac, rx, app_sema, kmsg, older, gaveUp, overflowed>>

\* Mutant: the node stays in the list, as it does when the bus is full.
Extract_Never(c) ==
    /\ MayRun /\ caller[c].pc = "timed_out"
    /\ Goto(c, "failed")
    /\ gaveUp' = gaveUp \cup {Kind[c]}
    /\ UNCHANGED <<tx, live, sem, written, bus, mac, rx, app_sema, kmsg, older, overflowed>>

\* co_list_extract: kmsgbk may have taken the node, and given its answer, since the
\* time was over; the call fails all the same.
Extract(c) ==
    /\ MayRun /\ caller[c].pc = "timed_out"
    /\ Unregister(Current(c))
    /\ Goto(c, "failed")
    /\ gaveUp' = gaveUp \cup {Kind[c]}
    /\ UNCHANGED <<live, sem, written, bus, mac, rx, app_sema, kmsg, older, overflowed>>

\* rtos_deinit_semaphore and os_free, and the return; the caller's cfm is gone.
FreeNode(c) ==
    /\ MayRun /\ caller[c].pc \in {"answered", "failed"}
    /\ live' = live \ {Current(c)}
    /\ sem' = sem \ {Current(c)}
    /\ written' = [written EXCEPT ![Current(c)] = None]
    /\ older' = [older EXCEPT ![c] = {}]
    /\ Goto(c, "idle")
    /\ UNCHANGED <<tx, bus, mac, rx, app_sema, kmsg, gaveUp, overflowed>>

-----------------------------------------------------------------------------
(* The core thread and the MAC *)

\* bmsg_ioctl_handler
CoreTakes ==
    /\ bus # <<>>
    /\ bus' = Tail(bus)
    /\ mac' = Append(mac, Head(bus))
    /\ UNCHANGED <<tx, live, sem, written, caller, rx, app_sema, kmsg, older, gaveUp, overflowed>>

\* Requests of one kind are confirmed in their order.
Confirmable(i) == \A j \in 1 .. i - 1 : KindOf(mac[j]) # KindOf(mac[i])

\* The MAC confirms a request: mr_kmsg_fwd puts the message into the list and
\* wakes kmsgbk (app_set_sema); the semaphore counts to one.
mr_kmsg_fwd ==
    /\ \E i \in DOMAIN mac :
          /\ Confirmable(i)
          /\ mac' = RemoveAt(mac, i)
          /\ rx' = Append(rx, mac[i])
    /\ app_sema' = TRUE
    /\ UNCHANGED <<tx, live, sem, written, caller, bus, kmsg, older, gaveUp, overflowed>>

-----------------------------------------------------------------------------
(* kmsgbk *)

Wake ==
    /\ kmsg.pc = "asleep" /\ app_sema
    /\ app_sema' = FALSE
    /\ kmsg' = [kmsg EXCEPT !.pc = "pop"]
    /\ UNCHANGED <<tx, live, sem, written, caller, bus, mac, rx, older, gaveUp, overflowed>>

\* Mutant: one message each time kmsgbk is woken.
AfterMessage_Sleep == Asleep
AfterMessage == [Asleep EXCEPT !.pc = "pop"]

PopMessage ==
    /\ kmsg.pc = "pop"
    /\ IF rx = <<>>
       THEN kmsg' = Asleep /\ UNCHANGED rx
       ELSE kmsg' = [kmsg EXCEPT !.pc = "find", !.msg = Head(rx)] /\ rx' = Tail(rx)
    /\ UNCHANGED <<tx, live, sem, written, caller, bus, mac, app_sema, older, gaveUp, overflowed>>

Matching == {i \in DOMAIN tx : KindOf(tx[i]) = KindOf(kmsg.msg)}

\* Mutant: the caller that came last is answered first.
Foremost_Last(i) == \A j \in Matching : j <= i
Foremost(i) == \A j \in Matching : i <= j

\* The first node that waits for this kind leaves the list; a message that
\* nobody waits for is handled as an indication.
FindNode ==
    /\ kmsg.pc = "find"
    /\ \/ /\ Matching = {}
          /\ kmsg' = [kmsg EXCEPT !.pc = "indication"]
          /\ UNCHANGED tx
       \/ \E i \in Matching :
             /\ Foremost(i)
             /\ kmsg' = [kmsg EXCEPT !.pc = "signal", !.node = tx[i]]
             /\ tx' = RemoveAt(tx, i)
    /\ UNCHANGED <<live, sem, written, caller, bus, mac, rx, app_sema, older, gaveUp, overflowed>>

rwnx_handle_recv_msg ==
    /\ kmsg.pc = "indication"
    /\ kmsg' = AfterMessage
    /\ UNCHANGED <<tx, live, sem, written, caller, bus, mac, rx, app_sema, older, gaveUp, overflowed>>

\* os_memcpy to the caller's cfm, and rtos_set_semaphore.
SignalCaller ==
    /\ kmsg.pc = "signal"
    /\ written' = [written EXCEPT ![kmsg.node] = kmsg.msg]
    /\ sem' = sem \cup {kmsg.node}
    /\ kmsg' = AfterMessage
    /\ UNCHANGED <<tx, live, caller, bus, mac, rx, app_sema, older, gaveUp, overflowed>>

-----------------------------------------------------------------------------
rw_msg_send(c) == Register(c) \/ Push(c) \/ Answered(c) \/ TimedOut(c)
                  \/ Extract(c) \/ FreeNode(c)
core_thread_main == CoreTakes \/ mr_kmsg_fwd
kmsg_bk_thread_main ==
    \/ Wake \/ PopMessage \/ FindNode
    \/ rwnx_handle_recv_msg \/ SignalCaller

Next == core_thread_main \/ kmsg_bk_thread_main \/ \E c \in Callers : rw_msg_send(c)

Spec == Init /\ [][Next]_vars

\* The scheduler lets every thread run that no other one keeps waiting.  The
\* MAC need not confirm anything, and no call is ever made.
FairSpec ==
    /\ Spec
    /\ WF_vars(CoreTakes) /\ WF_vars(kmsg_bk_thread_main)
    /\ \A c \in Callers : WF_vars(Push(c) \/ Answered(c) \/ TimedOut(c) \/ Extract(c) \/ FreeNode(c))

-----------------------------------------------------------------------------
Places == [pc : {"idle", "push", "wait", "answered", "timed_out", "failed"}, n : Nat]

\* The type invariant.
TypeOK ==
    /\ tx \in Seq(Calls) /\ live \subseteq Calls /\ sem \subseteq Calls
    /\ written \in [Calls -> Calls \cup {None}]
    /\ caller \in [Callers -> Places]
    /\ \A c \in Callers : caller[c].n <= MaxCalls[c]
    /\ bus \in Seq(Calls) /\ Len(bus) <= BusLen
    /\ mac \in Seq(Calls) /\ rx \in Seq(Calls)
    /\ app_sema \in BOOLEAN
    /\ kmsg \in [pc : {"asleep", "pop", "find", "indication", "signal"},
                 msg : Calls \cup {None}, node : Calls \cup {None}]
    /\ older \in [Callers -> SUBSET Calls]
    /\ gaveUp \subseteq {Kind[c] : c \in Callers}
    /\ overflowed \in BOOLEAN

\* rtos_set_semaphore always succeeds (the assertion at rw_msg_rx.c:1340): the
\* node that kmsgbk writes through is still its caller's.
SignalSucceeds == kmsg.pc = "signal" => kmsg.node \in live

\* As long as no request found the bus full, nobody looks at freed memory: the nodes
\* that the search of rwnx_recv_msg reads are allocated, and the node that it
\* found stays so until the confirmation is copied and the semaphore set, also when
\* the five seconds of its call end in the meantime.
NodesLive ==
    ~overflowed => (\A i \in DOMAIN tx : tx[i] \in live) /\ SignalSucceeds

\* What a call returns is the confirmation of a request of its kind that was sent
\* after the call began, as long as no call of this kind has failed: several threads
\* that ask for one kind may get each other's answers, but none gets one from before;
\* a thread that is alone with its kind so gets its own.
AnswerIsFresh ==
    \A c \in Callers :
        caller[c].pc = "answered" /\ Kind[c] \notin gaveUp =>
            LET answer == written[Current(c)]
            IN  answer # None /\ KindOf(answer) = Kind[c] /\ answer \notin older[c]

\* No confirmation stays in the list of kmsgbk: the semaphore that counts to one
\* is enough for any number of messages.
EveryConfirmationHandled == rx # <<>> ~> rx = <<>>

\* Every call returns.
EveryCallReturns == \A c \in Callers : caller[c].pc = "push" ~> caller[c].pc = "idle"
=============================================================================
