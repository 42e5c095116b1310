------------------------- MODULE TxBufferingProofs --------------------------
(***************************************************************************)
(* Theorems about TxBuffering, for any number of stations, of frames that  *)
(* are held and of places on the bus.                                      *)
(*                                                                         *)
(* The invariant says of each station the MAC knows what its mark will be  *)
(* when kmsgbk has seen the last indication about it, and, of frames that  *)
(* are held, who is about to send or discard them.                         *)
(***************************************************************************)
EXTENDS TxBuffering, TLAPS

-----------------------------------------------------------------------------
(* The invariant *)

\* kmsgbk is still to be told of c.
Told(c) == \E i \in DOMAIN inds : inds[i].c = c

\* The last indication about c tells whether it sleeps.
LastTold ==
    \A c \in alive : Told(c) =>
        \E i \in DOMAIN inds : /\ inds[i].c = c /\ inds[i].on = (c \in ps)
                               /\ \A j \in DOMAIN inds : j > i => inds[j].c # c

\* hostapd has made the station known and is to end the buffering of the old one.
Adding(c) ==
    flush["hostapd"].pc = "bufing_end" /\ flush["hostapd"].c = c /\ ~flush["hostapd"].deleting

\* Who is not told of any more has the right mark.
Marked ==
    \A c \in alive : ~Told(c) =>
        /\ c \in src => c \in ps \/ Adding(c)
        /\ c \in ps => c \in src \/ c \in early

\* Whose frames kmsgbk is about to restore is awake, or it is still to be told.
AwakeRestored ==
    kmsg.pc \in {"count", "restore"} /\ kmsg.c \in alive /\ ~Told(kmsg.c) => kmsg.c \notin ps

Restoring(c) == \E i \in DOMAIN bus : bus[i] = [type |-> "restore", c |-> c]
ToldOn(c) == \E i \in DOMAIN inds : inds[i].c = c /\ inds[i].on

\* Frames that are held are those of a station that sleeps or is about to,
\* or somebody is about to send or to discard them.
Cared(c) ==
    \/ c \in src \/ c \in lost
    \/ Restoring(c) /\ c \notin ps
    \/ kmsg.c = c /\ kmsg.pc \in {"count", "restore"}
    \/ flush["hostapd"].c = c /\ flush["hostapd"].pc \in {"bufing_end", "pop"}
    \/ ToldOn(c)

HeldCared == \A c \in alive : count[c] > 0 => Cared(c)

TxInv == TypeOK /\ LastTold /\ Marked /\ AwakeRestored /\ HeldCared

-----------------------------------------------------------------------------
(* Types *)

Inds == [c : Clients, on : BOOLEAN]
Messages == [type : {"tx", "restore"}, c : Clients]
KmsgPlaces ==
    [pc : {"idle", "start", "send_start", "count", "restore", "running", "send_stop"}, c : Clients]
FlushPlaces ==
    [pc : {"idle", "bufing_end", "pop", "running", "stop", "end"}, c : Clients, deleting : BOOLEAN]

\* The types of the parts of the state.
LEMMA Typed ==
    ASSUME TypeOK
    PROVE  /\ bus \in Seq(Messages) /\ Len(bus) <= BusLen
           /\ inds \in Seq(Inds) /\ Len(inds) <= MaxInds
           /\ \A i \in DOMAIN inds : inds[i] \in Inds
           /\ kmsg \in KmsgPlaces /\ flush \in [{"timer", "hostapd"} -> FlushPlaces]
           /\ commands \in [Clients -> Seq({"start", "stop"})]
           /\ count \in [Clients -> 0 .. MaxCount]
           /\ NoClient \in Clients /\ BusLen \in Nat /\ MaxInds \in Nat /\ MaxCount \in Nat
  <1>1. NoClient \in Clients
    BY BoundsAssumption DEF NoClient
  <1>2. inds \in Seq(Inds)
    BY DEF TypeOK, Inds
  <1>3. \A i \in DOMAIN inds : inds[i] \in Inds
    BY <1>2
  <1> QED
    BY <1>1, <1>2, <1>3, BoundsAssumption DEF TypeOK, Messages, KmsgPlaces, FlushPlaces, Inds

\* What is left when the first element is taken, and where it was.
LEMMA TailIs ==
    ASSUME NEW S, NEW s \in Seq(S), s # <<>>
    PROVE  /\ Head(s) \in S /\ Tail(s) \in Seq(S) /\ Len(Tail(s)) = Len(s) - 1
           /\ 1 \in DOMAIN s /\ s[1] = Head(s)
           /\ \A i \in DOMAIN s : i \in Nat /\ (i # 1 => i - 1 \in DOMAIN Tail(s) /\ Tail(s)[i - 1] = s[i])
           /\ \A i \in DOMAIN Tail(s) : i \in Nat /\ i + 1 \in DOMAIN s /\ Tail(s)[i] = s[i + 1]
  OBVIOUS

LEMMA AppendIs ==
    ASSUME NEW S, NEW s \in Seq(S), NEW e \in S
    PROVE  /\ Append(s, e) \in Seq(S) /\ Len(Append(s, e)) = Len(s) + 1
           /\ \A i \in DOMAIN s : /\ i \in DOMAIN Append(s, e) /\ Append(s, e)[i] = s[i]
                                  /\ i < Len(s) + 1
           /\ Len(s) + 1 \in DOMAIN Append(s, e) /\ Append(s, e)[Len(s) + 1] = e
           /\ \A i \in DOMAIN Append(s, e) : i \in DOMAIN s \/ i = Len(s) + 1
  OBVIOUS

\* A command keeps the types of the commands.
LEMMA SendTyped ==
    ASSUME TypeOK, NEW c \in Clients, NEW command \in {"start", "stop"}, Send(c, command)
    PROVE  commands' \in [Clients -> Seq({"start", "stop"})] /\ running' \subseteq Clients
  <1>1. commands[c] \in Seq({"start", "stop"})
    BY Typed
  <1>2. Append(commands[c], command) \in Seq({"start", "stop"})
    BY <1>1
  <1>3. commands' = [commands EXCEPT ![c] = commands[c]]
        \/ commands' = [commands EXCEPT ![c] = Append(commands[c], command)]
    BY DEF Send
  <1> QED
    BY <1>1, <1>2, <1>3, Typed DEF Send, TypeOK

\* One frame less.
LEMMA LessTyped ==
    ASSUME TypeOK, NEW c \in Clients, count[c] # 0, count' = [count EXCEPT ![c] = @ - 1]
    PROVE  count' \in [Clients -> 0 .. MaxCount]
  <1>1. count \in [Clients -> 0 .. MaxCount] /\ MaxCount \in Nat
    BY Typed
  <1>2. count[c] \in 0 .. MaxCount
    BY <1>1
  <1>3. count[c] - 1 \in 0 .. MaxCount
    BY <1>1, <1>2
  <1> QED
    BY <1>1, <1>3

\* Every step keeps the types.
LEMMA TypeNext ==
    ASSUME TypeOK, [Next]_vars
    PROVE  TypeOK'
  <1>1. /\ bus \in Seq(Messages) /\ inds \in Seq(Inds) /\ kmsg \in KmsgPlaces
        /\ flush \in [{"timer", "hostapd"} -> FlushPlaces]
        /\ flush["timer"] \in FlushPlaces /\ flush["hostapd"] \in FlushPlaces
        /\ \A c \in Clients : count[c] \in 0 .. MaxCount
        /\ alive \subseteq Clients /\ ps \subseteq Clients /\ src \subseteq Clients
        /\ NoClient \in Clients /\ BusLen \in Nat /\ MaxInds \in Nat /\ MaxCount \in Nat \ {0}
        /\ Idle \in KmsgPlaces /\ NoFlush \in FlushPlaces
    BY Typed, BoundsAssumption DEF Idle, NoFlush, KmsgPlaces, FlushPlaces, TypeOK
  <1>2. ASSUME NEW c \in Clients, PsChange(c)
        PROVE  TypeOK'
    <2>1. [c |-> c, on |-> c \notin ps] \in Inds
      BY DEF Inds
    <2>2. inds' \in Seq(Inds) /\ Len(inds') <= MaxInds
      BY <1>1, <1>2, <2>1, AppendIs DEF PsChange
    <2> QED
      BY <1>1, <1>2, <2>2 DEF PsChange, TypeOK, Inds, Messages, KmsgPlaces, FlushPlaces, timers
  <1>3. ASSUME NEW c \in Clients, SendFrame(c)
        PROVE  TypeOK'
    <2>1. [type |-> "tx", c |-> c] \in Messages
      BY DEF Messages
    <2>2. bus' \in Seq(Messages) /\ Len(bus') <= BusLen
      BY <1>1, <1>3, <2>1, AppendIs DEF SendFrame
    <2> QED
      BY <1>3, <2>2 DEF SendFrame, TypeOK, Inds, Messages, KmsgPlaces, FlushPlaces, timers
  <1>4. CASE rwm_transfer
    <2>1. /\ Head(bus) \in Messages /\ bus' \in Seq(Messages) /\ Len(bus') = Len(bus) - 1
      BY <1>1, <1>4, TailIs DEF rwm_transfer
    <2>2. Head(bus).c \in Clients /\ Len(bus') <= BusLen
      BY <1>1, <2>1, Typed DEF Messages
    <2>3. CASE save_data(Head(bus).c)
      <3>1. commands' \in [Clients -> Seq({"start", "stop"})] /\ running' \subseteq Clients
        BY <2>2, <2>3, SendTyped DEF save_data, timers, TypeOK
      <3>2. count' \in [Clients -> 0 .. MaxCount]
        BY <1>1, <2>2, <2>3, Typed DEF save_data
      <3> QED
        BY <1>4, <2>1, <2>2, <3>1, <3>2
        DEF rwm_transfer, TypeOK, Inds, Messages, KmsgPlaces, FlushPlaces, timers
    <2>4. CASE UNCHANGED <<count, timers>>
      BY <1>4, <2>1, <2>2, <2>4 DEF rwm_transfer, TypeOK, Inds, Messages, KmsgPlaces, FlushPlaces, timers
    <2> QED
      BY <1>4, <2>3, <2>4 DEF rwm_transfer
  <1>5. CASE restore_data
    <2>1. /\ Head(bus) \in Messages /\ Tail(bus) \in Seq(Messages) /\ Len(Tail(bus)) = Len(bus) - 1
          /\ Len(bus) \in Nat
      BY <1>1, <1>5, TailIs DEF restore_data
    <2>2. /\ Append(Tail(bus), Head(bus)) \in Seq(Messages)
          /\ Len(Append(Tail(bus), Head(bus))) = Len(bus)
      BY <2>1, AppendIs
    <2>3. bus' \in Seq(Messages) /\ Len(bus') <= BusLen
      <3>1. bus' = Tail(bus) \/ bus' = Append(Tail(bus), Head(bus))
        BY <1>5 DEF restore_data
      <3>2. Len(bus) <= BusLen /\ BusLen \in Nat
        BY Typed
      <3> QED
        BY <2>1, <2>2, <3>1, <3>2
    <2>4. Head(bus).c \in Clients
      BY <2>1 DEF Messages
    <2>5. count' \in [Clients -> 0 .. MaxCount]
      <3>1. \/ count' = count
            \/ /\ count[Head(bus).c] # 0
               /\ count' = [count EXCEPT ![Head(bus).c] = count[Head(bus).c] - 1]
        BY <1>5 DEF restore_data
      <3> QED
        BY <2>4, <3>1, LessTyped, Typed
    <2>6. lost' \subseteq Clients
      BY <1>5, <2>4 DEF restore_data, TypeOK
    <2> QED
      BY <1>5, <2>3, <2>5, <2>6 DEF restore_data, TypeOK, Inds, Messages, KmsgPlaces, FlushPlaces, timers
  <1>6. CASE bufing_start \/ bufing_stop
    <2>1. inds # <<>> /\ inds' = Tail(inds)
      BY <1>6 DEF bufing_start, bufing_stop
    <2>2. Head(inds) \in Inds /\ inds' \in Seq(Inds) /\ Len(inds') = Len(inds) - 1
      BY <1>1, <2>1, TailIs
    <2>3. Head(inds).c \in Clients /\ Len(inds') <= MaxInds
      BY <1>1, <2>2, Typed DEF Inds
    <2>4. kmsg' \in KmsgPlaces
      BY <1>1, <1>6, <2>3 DEF bufing_start, bufing_stop, KmsgPlaces
    <2> QED
      BY <1>1, <1>6, <2>2, <2>3, <2>4 DEF bufing_start, bufing_stop, TypeOK, Inds, Messages, KmsgPlaces, FlushPlaces, timers
  <1>7. CASE CountFrames \/ AskRunning
    BY <1>1, <1>7 DEF CountFrames, AskRunning, KmsgGoto, TypeOK, Inds, Messages, KmsgPlaces, FlushPlaces, timers
  <1>8. CASE bmsg_tx_bufing_sender
    <2>1. [type |-> "restore", c |-> kmsg.c] \in Messages /\ kmsg.c \in Clients
      BY <1>1 DEF Messages, KmsgPlaces
    <2>2. bus' \in Seq(Messages) /\ Len(bus') <= BusLen
      <3> DEFINE longer == Append(bus, [type |-> "restore", c |-> kmsg.c])
      <3>1. longer \in Seq(Messages) /\ Len(longer) = Len(bus) + 1
        BY <1>1, <2>1, AppendIs
      <3>2. bus' = bus \/ (Len(bus) < BusLen /\ bus' = longer)
        BY <1>8 DEF bmsg_tx_bufing_sender
      <3>3. Len(bus) <= BusLen /\ BusLen \in Nat /\ Len(bus) \in Nat
        BY <1>1, Typed
      <3> HIDE DEF longer
      <3> QED
        BY <1>1, <3>1, <3>2, <3>3
    <2> QED
      BY <1>1, <1>8, <2>1, <2>2 DEF bmsg_tx_bufing_sender, KmsgGoto, TypeOK, Inds, Messages, KmsgPlaces, FlushPlaces, timers
  <1>9. CASE SetTimer
    <2>1. commands' \in [Clients -> Seq({"start", "stop"})] /\ running' \subseteq Clients
      BY <1>1, <1>9, SendTyped DEF SetTimer, KmsgPlaces
    <2> QED
      BY <1>1, <1>9, <2>1 DEF SetTimer, TypeOK, Inds, Messages, KmsgPlaces, FlushPlaces, timers
  <1>10. ASSUME NEW task \in {"timer", "hostapd"}, rwm_flush_bufing_list(task)
         PROVE  TypeOK'
    <2>1. flush[task] \in FlushPlaces
      BY <1>1
    <2>2. CASE FlushPop(task)
      <3>1. count' \in [Clients -> 0 .. MaxCount]
        <4>1. flush[task].c \in Clients
          BY <2>1 DEF FlushPlaces
        <4>2. \/ count' = count
              \/ count[flush[task].c] # 0 /\ count' = [count EXCEPT ![flush[task].c] = @ - 1]
          BY <1>1, <2>2, <4>1 DEF FlushPop
        <4> QED
          BY <4>1, <4>2, LessTyped, Typed
      <3>2. flush' \in [{"timer", "hostapd"} -> FlushPlaces]
        BY <1>1, <2>1, <2>2 DEF FlushPop, FlushGoto, FlushPlaces
      <3>3. UNCHANGED <<alive, ps, src, timers, bus, inds, kmsg, lost, early>>
        BY <2>2 DEF FlushPop
      <3> QED
        BY <3>1, <3>2, <3>3 DEF TypeOK, Inds, Messages, KmsgPlaces, FlushPlaces, timers
    <2>3. CASE FlushAskRunning(task)
      BY <1>1, <2>1, <2>3 DEF FlushAskRunning, FlushGoto, TypeOK, Inds, Messages, KmsgPlaces, FlushPlaces, timers
    <2>4. CASE FlushStop(task)
      <3>1. commands' \in [Clients -> Seq({"start", "stop"})] /\ running' \subseteq Clients
        BY <2>1, <2>4, SendTyped DEF FlushStop, FlushPlaces
      <3> QED
        BY <1>1, <2>1, <2>4, <3>1 DEF FlushStop, FlushGoto, TypeOK, Inds, Messages, KmsgPlaces, FlushPlaces, timers
    <2> QED
      BY <1>10, <2>2, <2>3, <2>4 DEF rwm_flush_bufing_list
  <1>11. ASSUME NEW c \in Clients, TimerCommand(c)
         PROVE  TypeOK'
    <2>1. commands[c] \in Seq({"start", "stop"}) /\ Tail(commands[c]) \in Seq({"start", "stop"})
      BY <1>11, Typed, TailIs DEF TimerCommand
    <2> QED
      BY <1>11, <2>1, Typed DEF TimerCommand, TypeOK, Inds, Messages, KmsgPlaces, FlushPlaces, timers
  <1>12. ASSUME NEW c \in Clients, TimerExpires(c)
         PROVE  TypeOK'
    BY <1>1, <1>12 DEF TimerExpires, TypeOK, Inds, Messages, KmsgPlaces, FlushPlaces, timers
  <1>13. CASE TimerFlushed
    BY <1>1, <1>13 DEF TimerFlushed, TypeOK, Inds, Messages, KmsgPlaces, FlushPlaces, timers
  <1>14. ASSUME NEW c \in Clients, hapd_intf_sta_add(c) \/ hapd_intf_sta_del(c)
         PROVE  TypeOK'
    <2>1. \E deleting \in BOOLEAN :
             flush' = [flush EXCEPT !["hostapd"] =
                          [pc |-> "bufing_end", c |-> c, deleting |-> deleting]]
      BY <1>14 DEF hapd_intf_sta_add, hapd_intf_sta_del
    <2>2. flush' \in [{"timer", "hostapd"} -> FlushPlaces]
      BY <1>1, <2>1 DEF FlushPlaces
    <2>3. alive' \subseteq Clients /\ ps' \subseteq Clients
      BY <1>1, <1>14 DEF hapd_intf_sta_add, hapd_intf_sta_del
    <2> QED
      BY <1>14, <2>2, <2>3 DEF hapd_intf_sta_add, hapd_intf_sta_del, TypeOK, Inds, Messages, KmsgPlaces, FlushPlaces, timers
  <1>15. CASE bufing_end \/ hapd_intf_done
    <2>1. flush' \in [{"timer", "hostapd"} -> FlushPlaces]
      <3>1. CASE bufing_end
        BY <1>1, <3>1 DEF bufing_end, FlushGoto, FlushPlaces
      <3>2. CASE hapd_intf_done
        BY <1>1, <3>2 DEF hapd_intf_done
      <3> QED
        BY <1>15, <3>1, <3>2
    <2>2. flush["hostapd"].c \in Clients
      BY <1>1 DEF FlushPlaces
    <2>3. alive' \subseteq Clients /\ src' \subseteq Clients /\ early' \subseteq Clients
      BY <1>1, <1>15, <2>2 DEF bufing_end, hapd_intf_done, TypeOK
    <2> QED
      BY <1>15, <2>1, <2>3 DEF bufing_end, hapd_intf_done, TypeOK, Inds, Messages, KmsgPlaces, FlushPlaces, timers
  <1>16. CASE UNCHANGED vars
    BY <1>16 DEF vars, TypeOK
  <1> QED
    BY <1>2, <1>3, <1>4, <1>5, <1>6, <1>7, <1>8, <1>9, <1>10, <1>11, <1>12, <1>13, <1>14,
       <1>15, <1>16
    DEF Next, core_thread_main, kmsg_bk_thread_main, TimerTask, hostapd

\* The state of the buffering has the types the code gives it: the lists and the
\* bus never outgrow their places.
THEOREM TypeCorrect == Spec => []TypeOK
  <1>1. Init => TypeOK
    BY BoundsAssumption DEF Init, TypeOK, Idle, NoFlush, NoClient
  <1>2. TypeOK /\ [Next]_vars => TypeOK'
    BY TypeNext
  <1> QED
    BY <1>1, <1>2, PTL DEF Spec

-----------------------------------------------------------------------------
(* What kmsgbk is told, and the marks *)

\* An indication is taken: who is still told of, and what the last one said of
\* a station that is told of no more.
LEMMA IndicationTaken ==
    ASSUME TypeOK, LastTold, inds # <<>>, inds' = Tail(inds), UNCHANGED <<alive, ps>>
    PROVE  /\ LastTold'
           /\ \A c : Told(c)' => Told(c)
           /\ \A c : Told(c) /\ c # Head(inds).c => Told(c)'
           /\ \A c : ToldOn(c) /\ ~(c = Head(inds).c /\ Head(inds).on) => ToldOn(c)'
           /\ \A c \in alive : Told(c) /\ ~Told(c)' => c = Head(inds).c /\ Head(inds).on = (c \in ps)
  <1>1. /\ 1 \in DOMAIN inds /\ inds[1] = Head(inds)
        /\ \A i \in DOMAIN inds : i \in Nat /\ (i # 1 => i - 1 \in DOMAIN inds' /\ inds'[i - 1] = inds[i])
        /\ \A i \in DOMAIN inds' : i \in Nat /\ i + 1 \in DOMAIN inds /\ inds'[i] = inds[i + 1]
    BY Typed, TailIs
  <1>2. ASSUME NEW c, Told(c)'
        PROVE  Told(c)
    BY <1>1, <1>2 DEF Told
  <1>3. ASSUME NEW c, Told(c), c # Head(inds).c
        PROVE  Told(c)'
    BY <1>1, <1>3 DEF Told
  <1>4. ASSUME NEW c, ToldOn(c), ~(c = Head(inds).c /\ Head(inds).on)
        PROVE  ToldOn(c)'
    <2>1. PICK i \in DOMAIN inds : inds[i].c = c /\ inds[i].on
      BY <1>4 DEF ToldOn
    <2>2. i # 1
      BY <1>1, <1>4, <2>1
    <2>3. i - 1 \in DOMAIN inds' /\ inds'[i - 1] = inds[i]
      BY <1>1, <2>2
    <2> QED
      BY <2>1, <2>3 DEF ToldOn
  <1>5. ASSUME NEW c \in alive, Told(c), ~Told(c)'
        PROVE  c = Head(inds).c /\ Head(inds).on = (c \in ps)
    <2>1. PICK i \in DOMAIN inds : inds[i].c = c /\ inds[i].on = (c \in ps)
      BY <1>5 DEF LastTold
    <2>2. i = 1
      BY <1>1, <1>5, <2>1 DEF Told
    <2> QED
      BY <1>1, <2>1, <2>2
  <1>6. LastTold'
    <2> SUFFICES ASSUME NEW c \in alive, Told(c)'
                 PROVE  \E i \in DOMAIN inds' : /\ inds'[i].c = c /\ inds'[i].on = (c \in ps)
                                                /\ \A j \in DOMAIN inds' : j > i => inds'[j].c # c
      BY DEF LastTold
    <2>1. PICK k \in DOMAIN inds' : inds'[k].c = c
      BY DEF Told
    <2>2. PICK i \in DOMAIN inds : /\ inds[i].c = c /\ inds[i].on = (c \in ps)
                                   /\ \A j \in DOMAIN inds : j > i => inds[j].c # c
      BY <1>2 DEF LastTold
    <2>3. i # 1
      <3>1. k \in Nat /\ k # 0 /\ k + 1 \in DOMAIN inds /\ inds[k + 1].c = c
        BY <1>1, <2>1, Typed
      <3> QED
        BY <2>2, <3>1
    <2>4. i \in Nat /\ i - 1 \in DOMAIN inds' /\ inds'[i - 1] = inds[i]
      BY <1>1, <2>3
    <2>5. ASSUME NEW j \in DOMAIN inds', j > i - 1
          PROVE  inds'[j].c # c
      <3>1. j \in Nat /\ j + 1 \in DOMAIN inds /\ inds'[j] = inds[j + 1]
        BY <1>1
      <3>2. j + 1 > i
        BY <2>4, <2>5, <3>1
      <3> QED
        BY <2>2, <3>1, <3>2
    <2> QED
      BY <2>2, <2>4, <2>5
  <1> QED
    BY <1>2, <1>3, <1>4, <1>5, <1>6

\* An indication is sent.
LEMMA IndicationSent ==
    ASSUME TypeOK, LastTold, NEW c0 \in Clients, PsChange(c0)
    PROVE  /\ LastTold'
           /\ Told(c0)' /\ (c0 \notin ps => ToldOn(c0)')
           /\ \A c : c # c0 => Told(c)' = Told(c)
           /\ \A c : ToldOn(c) => ToldOn(c)'
  <1> DEFINE ind == [c |-> c0, on |-> c0 \notin ps]
             last == Len(inds) + 1
  <1>1. ind \in Inds /\ inds' = Append(inds, ind)
    BY DEF PsChange, Inds
  <1>2. /\ \A i \in DOMAIN inds : /\ i \in DOMAIN inds' /\ inds'[i] = inds[i] /\ i < last
        /\ last \in DOMAIN inds' /\ inds'[last] = ind
        /\ \A i \in DOMAIN inds' : i \in DOMAIN inds \/ i = last
    BY <1>1, Typed, AppendIs
  <1>3. last \in Nat
    BY Typed
  <1>4. /\ ind.c = c0 /\ ind.on = (c0 \notin ps)
    OBVIOUS
  <1>5. /\ alive' = alive /\ c0 \in alive
        /\ (c0 \in ps') = (c0 \notin ps) /\ \A c : c # c0 => (c \in ps') = (c \in ps)
    BY DEF PsChange
  <1> HIDE DEF ind, last
  <1>6. Told(c0)' /\ (c0 \notin ps => ToldOn(c0)')
    BY <1>2, <1>4 DEF Told, ToldOn
  <1>7. ASSUME NEW c, c # c0
        PROVE  Told(c)' = Told(c)
    BY <1>2, <1>4, <1>7 DEF Told
  <1>8. ASSUME NEW c, ToldOn(c)
        PROVE  ToldOn(c)'
    BY <1>2, <1>8 DEF ToldOn
  <1>9. LastTold'
    <2> SUFFICES ASSUME NEW c \in alive, Told(c)'
                 PROVE  \E i \in DOMAIN inds' : /\ inds'[i].c = c /\ inds'[i].on = (c \in ps')
                                                /\ \A j \in DOMAIN inds' : j > i => inds'[j].c # c
      BY <1>5 DEF LastTold
    <2>1. CASE c = c0
      <3>1. \A j \in DOMAIN inds' : ~(j > last)
        BY <1>2, <1>3, Typed
      <3> QED
        BY <1>2, <1>4, <1>5, <2>1, <3>1
    <2>2. CASE c # c0
      <3>1. PICK i \in DOMAIN inds : /\ inds[i].c = c /\ inds[i].on = (c \in ps)
                                     /\ \A j \in DOMAIN inds : j > i => inds[j].c # c
        BY <1>7, <2>2 DEF LastTold
      <3>2. \A j \in DOMAIN inds' : j > i => inds'[j].c # c
        BY <1>2, <1>4, <2>2, <3>1
      <3> QED
        BY <1>2, <1>5, <2>2, <3>1, <3>2
    <2> QED
      BY <2>1, <2>2
  <1> QED
    BY <1>6, <1>7, <1>8, <1>9

\* Steps that concern neither the stations nor their marks.
LEMMA MarksKept ==
    ASSUME TxInv, UNCHANGED <<alive, ps, src, inds, early>>,
           flush'["hostapd"] = flush["hostapd"] \/ flush["hostapd"].pc # "bufing_end",
           kmsg' = kmsg \/ kmsg'.pc \notin {"count", "restore"}
              \/ (kmsg.pc \in {"count", "restore"} /\ kmsg'.c = kmsg.c)
    PROVE  LastTold' /\ Marked' /\ AwakeRestored'
  <1>1. \A c : (Told(c)' = Told(c)) /\ (Adding(c) => Adding(c)')
    BY DEF Told, Adding
  <1>2. LastTold'
    BY <1>1 DEF TxInv, LastTold
  <1>3. Marked'
    BY <1>1 DEF TxInv, Marked
  <1>4. AwakeRestored'
    BY <1>1 DEF TxInv, AwakeRestored
  <1> QED
    BY <1>2, <1>3, <1>4

\* Who cared for the frames of a station still does, unless it is his step.
LEMMA StillCared ==
    ASSUME NEW c, Cared(c), UNCHANGED <<ps, src, inds>>,
           Restoring(c) /\ c \notin ps => Restoring(c)',
           c \in lost => c \in lost',
           flush'["hostapd"] = flush["hostapd"],
           kmsg' = kmsg \/ kmsg.c # c \/ kmsg.pc \notin {"count", "restore"}
    PROVE  Cared(c)'
  BY DEF Cared, ToldOn

-----------------------------------------------------------------------------
(* The steps *)

\* The messages on the bus: one more, ...
LEMMA MessageSent ==
    ASSUME TypeOK, NEW m \in Messages, bus' = Append(bus, m)
    PROVE  /\ \A c : Restoring(c) => Restoring(c)'
           /\ m.type = "restore" => Restoring(m.c)'
  <1>1. /\ \A i \in DOMAIN bus : i \in DOMAIN bus' /\ bus'[i] = bus[i]
        /\ Len(bus) + 1 \in DOMAIN bus' /\ bus'[Len(bus) + 1] = m
    BY Typed, AppendIs
  <1>2. m.type = "restore" => m = [type |-> "restore", c |-> m.c]
    BY DEF Messages
  <1> QED
    BY <1>1, <1>2 DEF Restoring

\* ... or the first one taken.
LEMMA MessageTaken ==
    ASSUME TypeOK, bus # <<>>, bus' = Tail(bus)
    PROVE  \A c : Restoring(c) /\ ~(Head(bus).type = "restore" /\ Head(bus).c = c) => Restoring(c)'
  <1>1. /\ 1 \in DOMAIN bus /\ bus[1] = Head(bus)
        /\ \A i \in DOMAIN bus : i \in Nat /\ (i # 1 => i - 1 \in DOMAIN bus' /\ bus'[i - 1] = bus[i])
    BY Typed, TailIs
  <1> SUFFICES ASSUME NEW c, Restoring(c), ~(Head(bus).type = "restore" /\ Head(bus).c = c)
               PROVE  Restoring(c)'
    OBVIOUS
  <1>2. PICK i \in DOMAIN bus : bus[i] = [type |-> "restore", c |-> c]
    BY DEF Restoring
  <1>3. i # 1
    BY <1>1, <1>2
  <1>4. i - 1 \in DOMAIN bus' /\ bus'[i - 1] = bus[i]
    BY <1>1, <1>3
  <1> QED
    BY <1>2, <1>4 DEF Restoring

\* The MAC tells of a station.
LEMMA PsChangeStep ==
    ASSUME TxInv, NEW c0 \in Clients, PsChange(c0)
    PROVE  LastTold' /\ Marked' /\ AwakeRestored' /\ HeldCared'
  <1>1. /\ LastTold'
        /\ Told(c0)' /\ (c0 \notin ps => ToldOn(c0)')
        /\ \A c : c # c0 => Told(c)' = Told(c)
        /\ \A c : ToldOn(c) => ToldOn(c)'
    BY IndicationSent DEF TxInv
  <1>2. /\ \A c : c # c0 => (c \in ps') = (c \in ps)
        /\ early' = early \ {c0}
        /\ UNCHANGED <<alive, src, count, bus, kmsg, flush, lost>>
    BY DEF PsChange
  <1>3. Marked'
    BY <1>1, <1>2 DEF TxInv, Marked, Adding
  <1>4. AwakeRestored'
    BY <1>1, <1>2 DEF TxInv, AwakeRestored
  <1>5. HeldCared'
    <2> SUFFICES ASSUME NEW c \in alive, count[c] > 0
                 PROVE  Cared(c)'
      BY <1>2 DEF HeldCared
    <2>1. Cared(c)
      BY DEF TxInv, HeldCared
    <2>2. Restoring(c)' = Restoring(c)
      BY <1>2 DEF Restoring
    <2>3. CASE c \in ps \/ c # c0
      BY <1>1, <1>2, <2>1, <2>2, <2>3 DEF Cared
    <2>4. CASE c \notin ps /\ c = c0
      BY <1>1, <2>4 DEF Cared
    <2> QED
      BY <2>3, <2>4
  <1> QED
    BY <1>1, <1>3, <1>4, <1>5

\* The core thread: a frame comes, is saved or sent on, or is restored.
LEMMA CoreStep ==
    ASSUME TxInv, core_thread_main \/ \E c \in Clients : SendFrame(c)
    PROVE  LastTold' /\ Marked' /\ AwakeRestored' /\ HeldCared'
  <1>1. UNCHANGED <<alive, ps, src, inds, kmsg, flush, early>> /\ lost \subseteq lost'
    BY DEF core_thread_main, rwm_transfer, restore_data, SendFrame
  <1>2. LastTold' /\ Marked' /\ AwakeRestored'
    BY <1>1, MarksKept
  <1>3. \A c \in alive : c \in Clients /\ (count[c] > 0 => Cared(c)) /\ count[c] \in Nat
    BY Typed DEF TxInv, HeldCared, TypeOK
  <1>4. HeldCared'
    <2> SUFFICES ASSUME NEW c \in alive, count'[c] > 0
                 PROVE  Cared(c)'
      BY <1>1 DEF HeldCared
    <2>1. ASSUME NEW c1 \in Clients, SendFrame(c1)
          PROVE  Cared(c)'
      <3>1. [type |-> "tx", c |-> c1] \in Messages
        BY DEF Messages
      <3>2. Restoring(c) => Restoring(c)'
        BY <2>1, <3>1, MessageSent DEF SendFrame, TxInv
      <3> QED
        BY <1>1, <1>3, <2>1, <3>2, StillCared DEF SendFrame
    <2>2. CASE rwm_transfer
      <3>1. Restoring(c) => Restoring(c)'
        BY <2>2, MessageTaken DEF rwm_transfer, TxInv
      <3>2. CASE c \in src
        BY <1>1, <3>2 DEF Cared
      <3>3. CASE c \notin src
        <4>1. count'[c] = count[c]
          BY <1>3, <2>2, <3>3, Typed DEF rwm_transfer, save_data, TxInv
        <4> QED
          BY <1>1, <1>3, <3>1, <4>1, StillCared
      <3> QED
        BY <3>2, <3>3
    <2>3. CASE restore_data
      <3> DEFINE c0 == Head(bus).c
      <3>1. bus # <<>> /\ Head(bus).type = "restore" /\ Head(bus) \in Messages
        BY <2>3, Typed, TailIs DEF restore_data, TxInv
      <3>2. c0 \in Clients
        BY <3>1 DEF Messages
      <3>3. CASE (c0 \in ps \cup src \/ count[c0] = 0) /\ bus' = Tail(bus) /\ UNCHANGED count
        <4>1. c # c0 /\ Restoring(c) => Restoring(c)'
          BY <3>1, <3>3, MessageTaken DEF TxInv
        <4>2. Cared(c) /\ (c = c0 => c \in ps \cup src)
          BY <1>3, <3>3
        <4> QED
          BY <1>1, <4>1, <4>2, StillCared DEF Cared
      <3>4. CASE /\ c0 \notin ps \cup src /\ count' = [count EXCEPT ![c0] = @ - 1]
                 /\ \/ count[c0] = 1 /\ bus' = Tail(bus)
                    \/ count[c0] > 1 /\ bus' = Append(Tail(bus), Head(bus))
                    \/ bus' = Tail(bus) /\ lost' = lost \cup {c0}
        <4>1. c = c0 => count[c] > 1
          BY <1>3, <3>4, Typed DEF TxInv
        <4>2. Cared(c)
          BY <1>3, <3>2, <3>4, <4>1, Typed DEF TxInv
        <4>3. CASE c = c0 /\ c0 \in lost'
          BY <4>3 DEF Cared
        <4>5. CASE c = c0 /\ c0 \notin lost'
          <5>1. bus' = Append(Tail(bus), Head(bus)) /\ Tail(bus) \in Seq(Messages)
            BY <3>1, <3>4, <4>1, <4>5, Typed, TailIs DEF TxInv
          <5>2. /\ Len(Tail(bus)) + 1 \in DOMAIN bus'
                /\ bus'[Len(Tail(bus)) + 1] = Head(bus)
            BY <3>1, <5>1, AppendIs
          <5>3. Head(bus) = [type |-> "restore", c |-> c]
            BY <3>1, <4>5 DEF Messages
          <5> QED
            BY <1>1, <3>4, <4>5, <5>2, <5>3 DEF Cared, Restoring
        <4>4. CASE c # c0
          <5>1. ASSUME Restoring(c)
                PROVE  Restoring(c)'
            <6>1. PICK i \in DOMAIN bus : bus[i] = [type |-> "restore", c |-> c]
              BY <5>1 DEF Restoring
            <6>2. /\ i # 1 => i - 1 \in DOMAIN Tail(bus) /\ Tail(bus)[i - 1] = bus[i]
                  /\ bus[1] = Head(bus) /\ Tail(bus) \in Seq(Messages)
              BY <3>1, Typed, TailIs DEF TxInv
            <6>3. i - 1 \in DOMAIN Tail(bus) /\ Tail(bus)[i - 1] = bus[i]
              BY <4>4, <6>1, <6>2
            <6>4. i - 1 \in DOMAIN bus' /\ bus'[i - 1] = bus[i]
              BY <3>1, <3>4, <6>2, <6>3, AppendIs
            <6> QED
              BY <6>1, <6>4 DEF Restoring
          <5> QED
            BY <1>1, <4>2, <5>1, StillCared
        <4> QED
          BY <4>3, <4>4, <4>5
      <3> QED
        BY <2>3, <3>3, <3>4 DEF restore_data
    <2> QED
      BY <2>1, <2>2, <2>3 DEF core_thread_main
  <1> QED
    BY <1>2, <1>4

\* kmsgbk begins with an indication: the station sleeps.
LEMMA StartStep ==
    ASSUME TxInv, bufing_start
    PROVE  LastTold' /\ Marked' /\ AwakeRestored' /\ HeldCared'
  <1> DEFINE c0 == Head(inds).c
  <1>1. /\ LastTold'
        /\ \A c : Told(c)' => Told(c)
        /\ \A c : Told(c) /\ c # c0 => Told(c)'
        /\ \A c : ToldOn(c) /\ ~(c = c0 /\ Head(inds).on) => ToldOn(c)'
        /\ \A c \in alive : Told(c) /\ ~Told(c)' => c = c0 /\ Head(inds).on = (c \in ps)
        /\ Told(c0)
    <2>1. 1 \in DOMAIN inds /\ inds[1] = Head(inds)
      BY Typed, TailIs DEF bufing_start, TxInv
    <2>2. Told(c0)
      BY <2>1 DEF Told
    <2> QED
      BY <2>2, IndicationTaken DEF bufing_start, TxInv
  <1>2. /\ kmsg.pc = "idle" /\ kmsg'.pc = "start" /\ kmsg'.c = c0
        /\ Head(inds).on /\ src' = src \cup {c0}
        /\ UNCHANGED <<alive, ps, count, bus, flush, lost, early>>
    BY DEF bufing_start
  <1> HIDE DEF c0
  <1>3. Marked'
    <2> SUFFICES ASSUME NEW c \in alive, ~Told(c)'
                 PROVE  (c \in src' => c \in ps \/ Adding(c)) /\ (c \in ps => c \in src' \/ c \in early)
      BY <1>2 DEF Marked, Adding
    <2>1. CASE Told(c)
      BY <1>1, <1>2, <2>1
    <2>2. CASE ~Told(c)
      BY <1>1, <1>2, <2>2 DEF TxInv, Marked
    <2> QED
      BY <2>1, <2>2
  <1>4. AwakeRestored'
    BY <1>1, <1>2 DEF TxInv, AwakeRestored
  <1>5. HeldCared'
    <2> SUFFICES ASSUME NEW c \in alive, count[c] > 0
                 PROVE  Cared(c)'
      BY <1>2 DEF HeldCared
    <2>1. Cared(c) /\ (Restoring(c)' = Restoring(c))
      BY <1>2 DEF TxInv, HeldCared, Restoring
    <2> QED
      BY <1>1, <1>2, <2>1 DEF Cared
  <1> QED
    BY <1>1, <1>3, <1>4, <1>5

\* kmsgbk begins with an indication: the station is awake.
LEMMA StopStep ==
    ASSUME TxInv, bufing_stop
    PROVE  LastTold' /\ Marked' /\ AwakeRestored' /\ HeldCared'
  <1> DEFINE c0 == Head(inds).c
  <1>1. /\ LastTold'
        /\ \A c : Told(c)' => Told(c)
        /\ \A c : Told(c) /\ c # c0 => Told(c)'
        /\ \A c : ToldOn(c) /\ ~(c = c0 /\ Head(inds).on) => ToldOn(c)'
        /\ \A c \in alive : Told(c) /\ ~Told(c)' => c = c0 /\ Head(inds).on = (c \in ps)
        /\ Told(c0)
    <2>1. 1 \in DOMAIN inds /\ inds[1] = Head(inds)
      BY Typed, TailIs DEF bufing_stop, TxInv
    <2>2. Told(c0)
      BY <2>1 DEF Told
    <2> QED
      BY <2>2, IndicationTaken DEF bufing_stop, TxInv
  <1>2. /\ kmsg.pc = "idle" /\ ~Head(inds).on /\ src' = src \ {c0}
        /\ c0 \in src => kmsg' = [pc |-> "count", c |-> c0]
        /\ c0 \notin src => kmsg' = Idle
        /\ UNCHANGED <<alive, ps, count, bus, flush, lost, early>>
    BY DEF bufing_stop
  <1> HIDE DEF c0
  <1>3. Marked'
    <2> SUFFICES ASSUME NEW c \in alive, ~Told(c)'
                 PROVE  (c \in src' => c \in ps \/ Adding(c)) /\ (c \in ps => c \in src' \/ c \in early)
      BY <1>2 DEF Marked, Adding
    <2>1. CASE Told(c)
      BY <1>1, <1>2, <2>1
    <2>2. CASE ~Told(c)
      BY <1>1, <1>2, <2>2 DEF TxInv, Marked
    <2> QED
      BY <2>1, <2>2
  <1>4. AwakeRestored'
    <2> SUFFICES ASSUME NEW c \in alive, kmsg'.pc \in {"count", "restore"}, kmsg'.c = c, ~Told(c)'
                 PROVE  c \notin ps
      BY <1>2 DEF AwakeRestored, Told
    <2>1. c = c0
      BY <1>2 DEF Idle
    <2> QED
      BY <1>1, <1>2, <2>1
  <1>5. HeldCared'
    <2> SUFFICES ASSUME NEW c \in alive, count[c] > 0
                 PROVE  Cared(c)'
      BY <1>2 DEF HeldCared
    <2>1. Cared(c) /\ (Restoring(c)' = Restoring(c))
      BY <1>2 DEF TxInv, HeldCared, Restoring
    <2>2. CASE c = c0 /\ c0 \in src
      BY <1>2, <2>2 DEF Cared
    <2>3. CASE ~(c = c0 /\ c0 \in src)
      BY <1>1, <1>2, <2>1, <2>3 DEF Cared
    <2> QED
      BY <2>2, <2>3
  <1> QED
    BY <1>1, <1>3, <1>4, <1>5

\* kmsgbk goes on.
LEMMA KmsgStep ==
    ASSUME TxInv, CountFrames \/ bmsg_tx_bufing_sender \/ AskRunning \/ SetTimer
    PROVE  LastTold' /\ Marked' /\ AwakeRestored' /\ HeldCared'
  <1>1. UNCHANGED <<alive, ps, src, count, inds, flush, early>>
    BY DEF CountFrames, bmsg_tx_bufing_sender, AskRunning, SetTimer
  <1>2. kmsg \in KmsgPlaces /\ kmsg.c \in Clients
    BY Typed DEF TxInv, KmsgPlaces
  <1>3. kmsg'.pc \in {"count", "restore"} => kmsg.pc = "count" /\ kmsg'.c = kmsg.c
    BY <1>2 DEF CountFrames, bmsg_tx_bufing_sender, AskRunning, SetTimer, KmsgGoto, Idle, KmsgPlaces
  <1>4. LastTold' /\ Marked' /\ AwakeRestored'
    BY <1>1, <1>3, MarksKept
  <1>5. HeldCared'
    <2> SUFFICES ASSUME NEW c \in alive, count[c] > 0
                 PROVE  Cared(c)'
      BY <1>1 DEF HeldCared
    <2>1. Cared(c) /\ c \in Clients
      BY DEF TxInv, HeldCared, TypeOK
    <2>2. CASE CountFrames
      <3>1. Restoring(c)' = Restoring(c)
        BY <2>2 DEF CountFrames, Restoring
      <3>2. CASE c # kmsg.c
        BY <1>1, <2>1, <2>2, <3>1, <3>2, StillCared DEF CountFrames
      <3>3. CASE c = kmsg.c
        BY <1>2, <2>2, <3>3 DEF CountFrames, KmsgGoto, KmsgPlaces, Cared
      <3> QED
        BY <3>2, <3>3
    <2>3. CASE bmsg_tx_bufing_sender
      <3>1. CASE Len(bus) < BusLen
        <4>1. PICK m \in Messages : m.type = "restore" /\ m.c = kmsg.c /\ bus' = Append(bus, m)
          BY <1>2, <2>3, <3>1 DEF bmsg_tx_bufing_sender, Messages
        <4>2. lost' = lost \ {kmsg.c}
          BY <2>3, <3>1 DEF bmsg_tx_bufing_sender
        <4>3. (Restoring(c) => Restoring(c)') /\ Restoring(m.c)'
          BY <4>1, MessageSent DEF TxInv
        <4>4. CASE c # kmsg.c
          BY <1>1, <2>1, <4>2, <4>3, <4>4, StillCared
        <4>5. CASE c = kmsg.c /\ c \notin ps
          BY <1>1, <4>1, <4>3, <4>5 DEF Cared
        <4>6. CASE c = kmsg.c /\ c \in ps
          <5>1. kmsg.pc = "restore"
            BY <2>3 DEF bmsg_tx_bufing_sender
          <5>2. ToldOn(c)
            BY <4>6, <5>1 DEF TxInv, AwakeRestored, LastTold, ToldOn
          <5> QED
            BY <1>1, <5>2 DEF Cared, ToldOn
        <4> QED
          BY <4>4, <4>5, <4>6
      <3>2. CASE ~(Len(bus) < BusLen)
        <4>1. bus' = bus /\ lost' = lost \cup {kmsg.c}
          BY <2>3, <3>2 DEF bmsg_tx_bufing_sender
        <4>2. Restoring(c)' = Restoring(c)
          BY <4>1 DEF Restoring
        <4>3. CASE c # kmsg.c
          BY <1>1, <2>1, <4>1, <4>2, <4>3, StillCared
        <4>4. CASE c = kmsg.c
          BY <4>1, <4>4 DEF Cared
        <4> QED
          BY <4>3, <4>4
      <3> QED
        BY <3>1, <3>2
    <2>4. CASE AskRunning \/ SetTimer
      <3>1. /\ bus' = bus /\ lost' = lost
            /\ kmsg.pc \notin {"count", "restore"}
        BY <2>4 DEF AskRunning, SetTimer
      <3>2. Restoring(c)' = Restoring(c)
        BY <3>1 DEF Restoring
      <3> QED
        BY <1>1, <2>1, <3>1, <3>2, StillCared
    <2> QED
      BY <2>2, <2>3, <2>4
  <1> QED
    BY <1>4, <1>5

\* The timer's task, and a flush in either task.
LEMMA FlushStep ==
    ASSUME TxInv,
           \/ TimerFlushed
           \/ \E task \in {"timer", "hostapd"} : rwm_flush_bufing_list(task)
           \/ \E c \in Clients : TimerCommand(c) \/ TimerExpires(c)
    PROVE  LastTold' /\ Marked' /\ AwakeRestored' /\ HeldCared'
  <1>1. UNCHANGED <<alive, ps, src, bus, inds, kmsg, lost, early>>
    BY DEF TimerFlushed, TimerCommand, TimerExpires,
           rwm_flush_bufing_list, FlushPop, FlushAskRunning, FlushStop
  <1>2. /\ flush \in [{"timer", "hostapd"} -> FlushPlaces]
        /\ count \in [Clients -> 0 .. MaxCount]
        /\ \A c \in Clients : count[c] \in 0 .. MaxCount
        /\ flush["timer"] \in FlushPlaces /\ flush["hostapd"] \in FlushPlaces
    BY Typed DEF TxInv
  <1>3. /\ \A c \in Clients : count'[c] > 0 => count[c] > 0
        /\ \/ flush'["hostapd"] = flush["hostapd"]
           \/ flush["hostapd"].pc \notin {"bufing_end", "pop"}
           \/ flush["hostapd"].pc = "pop" /\ count'[flush["hostapd"].c] = 0
    <2>1. CASE TimerFlushed
      BY <1>2, <2>1 DEF TimerFlushed
    <2>2. ASSUME NEW c \in Clients, TimerCommand(c) \/ TimerExpires(c)
          PROVE  UNCHANGED count /\ flush'["hostapd"] = flush["hostapd"]
      BY <1>2, <2>2 DEF TimerCommand, TimerExpires
    <2>3. ASSUME NEW task \in {"timer", "hostapd"}, FlushPop(task)
          PROVE  /\ \A c \in Clients : count'[c] > 0 => count[c] > 0
                 /\ \/ flush'["hostapd"] = flush["hostapd"]
                    \/ flush["hostapd"].pc = "pop" /\ count'[flush["hostapd"].c] = 0
      <3>1. flush[task].c \in Clients /\ flush[task].pc = "pop"
        BY <1>2, <2>3 DEF FlushPop, At, FlushPlaces
      <3>2. CASE count[flush[task].c] > 0
        BY <1>2, <2>3, <3>1, <3>2 DEF FlushPop
      <3>3. CASE ~(count[flush[task].c] > 0)
        <4>1. count' = count /\ count[flush[task].c] = 0
          BY <1>2, <2>3, <3>1, <3>3 DEF FlushPop
        <4>2. task # "hostapd" => flush'["hostapd"] = flush["hostapd"]
          BY <1>2, <2>3, <3>3 DEF FlushPop, FlushGoto
        <4> QED
          BY <3>1, <4>1, <4>2
      <3> QED
        BY <3>2, <3>3
    <2>4. ASSUME NEW task \in {"timer", "hostapd"}, FlushAskRunning(task) \/ FlushStop(task)
          PROVE  /\ UNCHANGED count
                 /\ \/ flush'["hostapd"] = flush["hostapd"]
                    \/ flush["hostapd"].pc \notin {"bufing_end", "pop"}
      BY <1>2, <2>4 DEF FlushAskRunning, FlushStop, FlushGoto, At
    <2> QED
      BY <2>1, <2>2, <2>3, <2>4 DEF rwm_flush_bufing_list, TimerFlushed
  <1>4. flush'["hostapd"] = flush["hostapd"] \/ flush["hostapd"].pc # "bufing_end"
    BY <1>3
  <1>5. LastTold' /\ Marked' /\ AwakeRestored'
    BY <1>1, <1>4, MarksKept
  <1>6. HeldCared'
    <2> SUFFICES ASSUME NEW c \in alive, count'[c] > 0
                 PROVE  Cared(c)'
      BY <1>1 DEF HeldCared
    <2>1. Cared(c) /\ (Restoring(c)' = Restoring(c)) /\ c \in Clients
      BY <1>1, <1>3 DEF TxInv, HeldCared, TypeOK, Restoring
    <2>2. CASE flush'["hostapd"] = flush["hostapd"]
      BY <1>1, <2>1, <2>2, StillCared
    <2>3. CASE flush["hostapd"].pc \notin {"bufing_end", "pop"} \/ flush["hostapd"].c # c
      BY <1>1, <2>1, <2>3 DEF Cared, ToldOn
    <2> QED
      BY <1>3, <2>2, <2>3
  <1> QED
    BY <1>5, <1>6

\* hostapd: a station comes, and the buffering of the one before it is to end.
LEMMA AddStep ==
    ASSUME TxInv, NEW c0 \in Clients, hapd_intf_sta_add(c0)
    PROVE  LastTold' /\ Marked' /\ AwakeRestored' /\ HeldCared'
  <1>1. /\ kmsg.pc = "idle" /\ inds = <<>> /\ flush["hostapd"].pc = "idle"
        /\ alive' = alive \cup {c0} /\ ps' = ps \ {c0}
        /\ UNCHANGED <<src, count, bus, inds, kmsg, lost, early>>
    BY DEF hapd_intf_sta_add, At, RequestEnds
  <1>2. /\ flush'["hostapd"].pc = "bufing_end" /\ flush'["hostapd"].c = c0
        /\ ~flush'["hostapd"].deleting
    BY Typed DEF hapd_intf_sta_add, TxInv
  <1>3. \A c : ~Told(c) /\ ~Told(c)' /\ ~ToldOn(c) /\ ~Adding(c)
    BY <1>1 DEF Told, ToldOn, Adding
  <1>4. LastTold'
    BY <1>3 DEF LastTold
  <1>5. Marked'
    <2>1. Adding(c0)'
      BY <1>2 DEF Adding
    <2> QED
      BY <1>1, <1>3, <2>1 DEF TxInv, Marked
  <1>6. AwakeRestored'
    BY <1>1 DEF AwakeRestored
  <1>7. HeldCared'
    <2> SUFFICES ASSUME NEW c \in alive', count[c] > 0
                 PROVE  Cared(c)'
      BY <1>1 DEF HeldCared
    <2>1. CASE c = c0
      BY <1>2, <2>1 DEF Cared
    <2>2. CASE c # c0
      <3>1. c \in alive /\ Cared(c) /\ (Restoring(c)' = Restoring(c))
        BY <1>1, <2>2 DEF TxInv, HeldCared, Restoring
      <3> QED
        BY <1>1, <1>3, <2>2, <3>1 DEF Cared
    <2> QED
      BY <2>1, <2>2
  <1> QED
    BY <1>4, <1>5, <1>6, <1>7

\* A station is to be deleted, or has been: kmsgbk may be waiting in between.
LEMMA DeleteStep ==
    ASSUME TxInv, hapd_intf_done \/ \E c \in Clients : hapd_intf_sta_del(c)
    PROVE  LastTold' /\ Marked' /\ AwakeRestored' /\ HeldCared'
  <1>1. /\ flush["hostapd"].pc \in {"idle", "end"} /\ alive' \subseteq alive
        /\ UNCHANGED <<ps, src, count, bus, inds, kmsg, lost, early>>
    BY DEF hapd_intf_sta_del, hapd_intf_done, At
  <1>2. \A c : (Told(c)' = Told(c)) /\ (ToldOn(c)' = ToldOn(c)) /\ ~Adding(c)
    BY <1>1 DEF Told, ToldOn, Adding
  <1>3. LastTold'
    BY <1>1, <1>2 DEF TxInv, LastTold
  <1>4. Marked'
    BY <1>1, <1>2 DEF TxInv, Marked
  <1>5. AwakeRestored'
    BY <1>1, <1>2 DEF TxInv, AwakeRestored
  <1>6. HeldCared'
    <2> SUFFICES ASSUME NEW c \in alive, count[c] > 0
                 PROVE  Cared(c)'
      BY <1>1 DEF HeldCared
    <2>1. Cared(c) /\ (Restoring(c)' = Restoring(c))
      BY <1>1 DEF TxInv, HeldCared, Restoring
    <2> QED
      BY <1>1, <1>2, <2>1 DEF Cared
  <1> QED
    BY <1>3, <1>4, <1>5, <1>6

\* hostapd ends the buffering.
LEMMA EndStep ==
    ASSUME TxInv, bufing_end
    PROVE  LastTold' /\ Marked' /\ AwakeRestored' /\ HeldCared'
  <1> DEFINE c0 == flush["hostapd"].c
  <1>1. /\ flush \in [{"timer", "hostapd"} -> FlushPlaces] /\ flush["hostapd"] \in FlushPlaces
    BY Typed DEF TxInv
  <1>2. /\ flush["hostapd"].pc = "bufing_end"
        /\ flush'["hostapd"].pc = "pop" /\ flush'["hostapd"].c = c0
        /\ src' = src \ {c0} /\ early' = early \cup ({c0} \cap ps)
        /\ UNCHANGED <<alive, ps, count, bus, inds, kmsg, lost>>
    BY <1>1 DEF bufing_end, FlushGoto, At, FlushPlaces
  <1>3. \A c : (Told(c)' = Told(c)) /\ (ToldOn(c)' = ToldOn(c)) /\ (c # c0 => ~Adding(c))
    BY <1>2 DEF Told, ToldOn, Adding
  <1> HIDE DEF c0
  <1>4. LastTold'
    BY <1>2, <1>3 DEF TxInv, LastTold
  <1>5. Marked'
    BY <1>2, <1>3 DEF TxInv, Marked
  <1>6. AwakeRestored'
    BY <1>2, <1>3 DEF TxInv, AwakeRestored
  <1>7. HeldCared'
    <2> SUFFICES ASSUME NEW c \in alive, count[c] > 0
                 PROVE  Cared(c)'
      BY <1>2 DEF HeldCared
    <2>1. Cared(c) /\ (Restoring(c)' = Restoring(c))
      BY <1>2 DEF TxInv, HeldCared, Restoring
    <2>2. CASE c = c0
      BY <1>2, <2>2 DEF Cared
    <2>3. CASE c # c0
      BY <1>2, <1>3, <2>1, <2>3 DEF Cared, c0
    <2> QED
      BY <2>2, <2>3
  <1> QED
    BY <1>4, <1>5, <1>6, <1>7

-----------------------------------------------------------------------------
(* The theorems *)

\* The invariant is inductive.
LEMMA Inductive == Spec => []TxInv
  <1>1. Init => TxInv
    <2> SUFFICES ASSUME Init
                 PROVE  TxInv
      OBVIOUS
    <2>1. TypeOK
      BY BoundsAssumption DEF Init, TypeOK, Idle, NoFlush, NoClient
    <2>2. \A c \in Clients : count[c] = 0
      BY DEF Init
    <2>3. HeldCared
      BY <2>2 DEF Init, HeldCared
    <2> QED
      BY <2>1, <2>3 DEF Init, TxInv, LastTold, Marked, AwakeRestored, Told, Idle
  <1>2. TxInv /\ [Next]_vars => TxInv'
    <2> SUFFICES ASSUME TxInv, [Next]_vars
                 PROVE  LastTold' /\ Marked' /\ AwakeRestored' /\ HeldCared'
      BY TypeNext DEF TxInv
    <2>1. CASE \E c \in Clients : PsChange(c)
      BY <2>1, PsChangeStep
    <2>2. CASE core_thread_main \/ \E c \in Clients : SendFrame(c)
      BY <2>2, CoreStep
    <2>3. CASE kmsg_bk_thread_main
      BY <2>3, StartStep, StopStep, KmsgStep DEF kmsg_bk_thread_main
    <2>4. CASE \/ TimerFlushed
               \/ \E task \in {"timer", "hostapd"} : rwm_flush_bufing_list(task)
               \/ \E c \in Clients : TimerCommand(c) \/ TimerExpires(c)
      BY <2>4, FlushStep
    <2>5. CASE \E c \in Clients : hapd_intf_sta_add(c)
      BY <2>5, AddStep
    <2>6. CASE bufing_end
      BY <2>6, EndStep
    <2>8. CASE hapd_intf_done \/ \E c \in Clients : hapd_intf_sta_del(c)
      BY <2>8, DeleteStep
    <2>7. CASE UNCHANGED vars
      <3>1. \A c : (Told(c)' = Told(c)) /\ (Adding(c)' = Adding(c)) /\ (Cared(c)' = Cared(c))
        BY <2>7 DEF vars, timers, Told, Adding, Cared, Restoring, ToldOn
      <3> QED
        BY <2>7, <3>1 DEF vars, timers, TxInv, LastTold, Marked, AwakeRestored, HeldCared
    <2> QED
      BY <2>1, <2>2, <2>3, <2>4, <2>5, <2>6, <2>7, <2>8 DEF Next, TimerTask, hostapd
  <1> QED
    BY <1>1, <1>2, PTL DEF Spec

\* Frames are held back exactly while their station sleeps, whatever the MAC, the
\* core thread, kmsgbk, the timer's task and hostapd do at the same time: unless
\* hostapd ended the buffering of a station that slept (rwm_tx_bufing_end), or the
\* message that restores the frames found no room (bmsg_tx_bufing_sender).
THEOREM HeldRight == Spec => []HeldWhileAsleep
  <1>1. TxInv => HeldWhileAsleep
    <2> SUFFICES ASSUME TxInv, NEW c \in Clients, Settled(c)
                 PROVE  /\ c \notin ps => c \notin src /\ (count[c] = 0 \/ c \in lost)
                        /\ c \in ps => c \in src \/ c \in early
      BY DEF HeldWhileAsleep, AwakeNotHeld, SleeperHeld
    <2>1. c \in alive /\ kmsg.pc = "idle" /\ inds = <<>>
      BY DEF Settled
    <2>2. ~Told(c) /\ ~ToldOn(c)
      BY <2>1 DEF Told, ToldOn
    <2>3. ~(flush["hostapd"].pc # "idle" /\ flush["hostapd"].c = c)
      BY Typed DEF Settled, TxInv
    <2>4. ~Adding(c)
      BY <2>3 DEF Adding
    <2>5. ~Restoring(c)
      BY DEF Settled, Restoring, Range
    <2>6. count[c] \in Nat
      BY Typed DEF TxInv
    <2>7. c \notin src => count[c] = 0 \/ c \in lost
      BY <2>1, <2>2, <2>3, <2>5, <2>6 DEF TxInv, HeldCared, Cared
    <2> QED
      BY <2>1, <2>2, <2>4, <2>7 DEF TxInv, Marked
  <1> QED
    BY <1>1, Inductive, PTL

=============================================================================
