-------------------------- MODULE MsgRequestProofs --------------------------
(***************************************************************************)
(* Theorems about MsgRequest, for any number of callers, kinds, calls and  *)
(* places on the bus.  The first invariant: a node is in one place only,   *)
(* in the list, with kmsgbk or with its semaphore set, and there only      *)
(* while its call is under way.  The second one counts: the requests and   *)
(* confirmations of a kind that are on their way are never more than the   *)
(* nodes that wait for them, and those that were sent before a call began  *)
(* never more than the nodes ahead of its own.                             *)
(***************************************************************************)
EXTENDS MsgRequest, FiniteSetTheorems, TLAPS

-----------------------------------------------------------------------------
(* The invariant *)

\* The call is under way, and its caller has not learnt how it ends.
Waits(call) ==
    caller[call[1]].n = call[2] /\ caller[call[1]].pc \in {"push", "wait", "timed_out"}

\* Nobody else has answered the call yet, and its node is allocated.
Pending(call) == Waits(call) /\ call \in live /\ call \notin sem

ActiveCalls == \A c \in Callers : caller[c].pc # "idle" => caller[c].n >= 1
NodeOfSignal == IF kmsg.pc = "signal" THEN kmsg.node \in Calls ELSE kmsg.node = None

\* Nothing has gone wrong that could leave a node of this kind behind.
Good(call) == KindOf(call) \notin gaveUp
Sound(call) == ~overflowed \/ Good(call)

ListPending == \A i \in DOMAIN tx : Sound(tx[i]) => Pending(tx[i]) /\ tx[i] # kmsg.node
ListDistinct == \A i, j \in DOMAIN tx : tx[i] = tx[j] /\ Sound(tx[i]) => i = j
NodePending == kmsg.pc = "signal" /\ Sound(kmsg.node) => Pending(kmsg.node)
SemWaits ==
    \A call \in sem : Sound(call) =>
        Waits(call) \/ IsAt(call, "failed")

OnePlace == ListPending /\ ListDistinct /\ NodePending /\ SemWaits

-----------------------------------------------------------------------------
(* Lemmas on calls and on the removal of an element. *)

\* A call is a caller and a number; KindOf and Calls rest on it.
LEMMA CallsAre ==
    /\ \A call \in Calls : call[1] \in Callers /\ call[2] \in 1 .. MaxCalls[call[1]]
                           /\ call = <<call[1], call[2]>>
    /\ \A c \in Callers : \A k \in 1 .. MaxCalls[c] : <<c, k>> \in Calls
  BY DEF Calls

\* What co_list_extract leaves of a list: the others, in their order.
LEMMA RemoveAtIs ==
    ASSUME NEW S, NEW s \in Seq(S), NEW i \in DOMAIN s
    PROVE  /\ RemoveAt(s, i) \in Seq(S)
           /\ Len(RemoveAt(s, i)) = Len(s) - 1
           /\ \A j \in 1 .. Len(s) - 1 :
                 RemoveAt(s, i)[j] = IF j < i THEN s[j] ELSE s[j + 1]
  <1>1. i \in 1 .. Len(s) /\ Len(s) \in Nat
    OBVIOUS
  <1>2. SubSeq(s, 1, i - 1) \in Seq(S) /\ Len(SubSeq(s, 1, i - 1)) = i - 1
        /\ \A j \in 1 .. i - 1 : SubSeq(s, 1, i - 1)[j] = s[j]
    BY <1>1
  <1>3. SubSeq(s, i + 1, Len(s)) \in Seq(S) /\ Len(SubSeq(s, i + 1, Len(s))) = Len(s) - i
        /\ \A j \in 1 .. Len(s) - i : SubSeq(s, i + 1, Len(s))[j] = s[i + j]
    BY <1>1
  <1> DEFINE before == SubSeq(s, 1, i - 1)
             after == SubSeq(s, i + 1, Len(s))
  <1>4. RemoveAt(s, i) = before \o after
    BY DEF RemoveAt
  <1>5. before \in Seq(S) /\ after \in Seq(S)
        /\ Len(before) = i - 1 /\ Len(after) = Len(s) - i
    BY <1>2, <1>3
  <1> HIDE DEF before, after
  <1>6. before \o after \in Seq(S) /\ Len(before \o after) = Len(s) - 1
    BY <1>1, <1>5
  <1>7. ASSUME NEW j \in 1 .. Len(s) - 1
        PROVE  (before \o after)[j] = IF j < i THEN s[j] ELSE s[j + 1]
    <2>1. CASE j < i
      <3>1. (before \o after)[j] = before[j]
        BY <1>1, <1>5, <2>1
      <3> QED
        BY <1>1, <1>2, <2>1, <3>1 DEF before
    <2>2. CASE ~(j < i)
      <3>1. (before \o after)[j] = after[j - Len(before)]
        BY <1>1, <1>5, <2>2
      <3>2. j - Len(before) = j - i + 1 /\ j - i + 1 \in 1 .. Len(s) - i
        BY <1>1, <1>5, <2>2
      <3>3. after[j - i + 1] = s[i + (j - i + 1)]
        BY <1>3, <3>2 DEF after
      <3>4. i + (j - i + 1) = j + 1
        BY <1>1
      <3> QED
        BY <1>1, <2>2, <3>1, <3>2, <3>3, <3>4
    <2> QED
      BY <2>1, <2>2
  <1> QED
    BY <1>4, <1>6, <1>7

-----------------------------------------------------------------------------
(* Lemmas on the steps of a call and on the list. *)

\* A caller goes on to another place of the same call.
LEMMA GotoIs ==
    ASSUME caller \in [Callers -> Places], NEW c \in Callers,
           NEW pc \in {"idle", "push", "wait", "answered", "timed_out", "failed"}, Goto(c, pc)
    PROVE  /\ caller' \in [Callers -> Places]
           /\ \A d \in Callers : /\ caller'[d].n = caller[d].n
                                 /\ caller'[d].pc = IF d = c THEN pc ELSE caller[d].pc
  BY DEF Goto, Places

LEMMA GotoBasics ==
    ASSUME TypeOK, ActiveCalls, NEW c \in Callers, caller[c].pc # "idle",
           NEW pc \in {"idle", "push", "wait", "answered", "timed_out", "failed"}, Goto(c, pc)
    PROVE  /\ caller' \in [Callers -> Places]
           /\ \A d \in Callers : caller'[d].n <= MaxCalls[d]
           /\ ActiveCalls'
  <1>1. caller \in [Callers -> Places] /\ \A d \in Callers : caller[d].n <= MaxCalls[d]
    BY DEF TypeOK, Places
  <1>2. /\ caller' \in [Callers -> Places]
        /\ \A d \in Callers : /\ caller'[d].n = caller[d].n
                              /\ caller'[d].pc = IF d = c THEN pc ELSE caller[d].pc
    BY <1>1, GotoIs
  <1> QED
    BY <1>1, <1>2 DEF ActiveCalls

\* The call that a caller is in.
LEMMA CurrentIs ==
    ASSUME TypeOK, ActiveCalls, NEW c \in Callers, caller[c].pc # "idle"
    PROVE  /\ Current(c) \in Calls
           /\ Current(c)[1] = c /\ Current(c)[2] = caller[c].n
           /\ \A call \in Calls : call[1] = c /\ call[2] = caller[c].n => call = Current(c)
  <1>1. caller[c].n \in 1 .. MaxCalls[c]
    BY CallersAssumption DEF TypeOK, ActiveCalls, Places
  <1> QED
    BY <1>1, CallsAre DEF Current

\* The node that a caller is about to register is one no call has used.
LEMMA NextIs ==
    ASSUME TypeOK, NEW c \in Callers, caller[c].n < MaxCalls[c]
    PROVE  <<c, caller[c].n + 1>> \in Calls
  <1>1. caller[c].n + 1 \in 1 .. MaxCalls[c]
    BY CallersAssumption DEF TypeOK, Places
  <1> QED
    BY <1>1, CallsAre

\* Where an element that is left came from when the one at i was taken out.
From(k, i) == IF k < i THEN k ELSE k + 1

LEMMA FromIs ==
    ASSUME NEW S, NEW s \in Seq(S), NEW i \in DOMAIN s
    PROVE  /\ RemoveAt(s, i) \in Seq(S)
           /\ \A k \in DOMAIN RemoveAt(s, i) :
                 /\ From(k, i) \in DOMAIN s /\ From(k, i) # i
                 /\ RemoveAt(s, i)[k] = s[From(k, i)]
           /\ \A k, l \in DOMAIN RemoveAt(s, i) : k < l <=> From(k, i) < From(l, i)
           /\ \A j \in DOMAIN s : j # i => \E k \in DOMAIN RemoveAt(s, i) : From(k, i) = j
  <1> DEFINE r == RemoveAt(s, i)
  <1>1. /\ r \in Seq(S) /\ Len(r) = Len(s) - 1 /\ Len(s) \in Nat /\ i \in 1 .. Len(s)
        /\ \A j \in 1 .. Len(s) - 1 : r[j] = IF j < i THEN s[j] ELSE s[j + 1]
    BY RemoveAtIs
  <1> HIDE DEF r
  <1>2. DOMAIN s = 1 .. Len(s) /\ DOMAIN r = 1 .. Len(s) - 1
    BY <1>1
  <1>3. \A k \in DOMAIN r : /\ From(k, i) \in DOMAIN s /\ From(k, i) # i
                            /\ r[k] = s[From(k, i)]
    BY <1>1, <1>2 DEF From
  <1>4. \A k, l \in DOMAIN r : k < l <=> From(k, i) < From(l, i)
    BY <1>1, <1>2 DEF From
  <1>5. ASSUME NEW j \in DOMAIN s, j # i
        PROVE  \E k \in DOMAIN r : From(k, i) = j
    <2>1. CASE j < i
      <3>1. j \in DOMAIN r /\ From(j, i) = j
        BY <1>1, <1>2, <2>1 DEF From
      <3> QED
        BY <3>1
    <2>2. CASE i < j
      <3>1. j - 1 \in DOMAIN r /\ From(j - 1, i) = j
        BY <1>1, <1>2, <2>2 DEF From
      <3> QED
        BY <3>1
    <2> QED
      BY <1>1, <1>2, <1>5, <2>1, <2>2
  <1> QED
    BY <1>1, <1>3, <1>4, <1>5 DEF r

\* What is left of the list has no more in it than the list had; the node that was
\* taken out is gone, unless it was left behind before.
LEMMA RemovedFrom ==
    ASSUME tx \in Seq(Calls), NEW i \in DOMAIN tx, tx' = RemoveAt(tx, i),
           \A x \in Calls : Sound(x)' => Sound(x)
    PROVE  /\ tx' \in Seq(Calls)
           /\ \A k \in DOMAIN tx' : \E j \in DOMAIN tx : tx'[k] = tx[j]
           /\ ListDistinct => /\ ListDistinct'
                              /\ Sound(tx[i]) => \A k \in DOMAIN tx' : tx'[k] # tx[i]
  <1>1. /\ tx' \in Seq(Calls)
        /\ \A k \in DOMAIN tx' : /\ From(k, i) \in DOMAIN tx /\ From(k, i) # i
                                 /\ tx'[k] = tx[From(k, i)]
        /\ \A k, l \in DOMAIN tx' : k < l <=> From(k, i) < From(l, i)
    BY FromIs
  <1>2. DOMAIN tx' \subseteq Nat /\ DOMAIN tx \subseteq Nat
    BY <1>1
  <1>3. ASSUME NEW k \in DOMAIN tx', NEW l \in DOMAIN tx', From(k, i) = From(l, i)
        PROVE  k = l
    <2>1. ~(k < l) /\ ~(l < k) /\ k \in Nat /\ l \in Nat
      BY <1>1, <1>2, <1>3
    <2> QED
      BY <2>1
  <1>4. \A k \in DOMAIN tx' : tx'[k] \in Calls
    BY <1>1
  <1>5. ASSUME ListDistinct
        PROVE  ListDistinct'
    <2> SUFFICES ASSUME NEW k \in DOMAIN tx', NEW l \in DOMAIN tx', tx'[k] = tx'[l],
                        Sound(tx[k])'
                 PROVE  k = l
      BY DEF ListDistinct
    <2>1. Sound(tx[From(k, i)])
      BY <1>1, <1>4 DEF Sound, Good, KindOf
    <2> QED
      BY <1>1, <1>3, <1>5, <2>1 DEF ListDistinct
  <1>6. ASSUME ListDistinct, Sound(tx[i]), NEW k \in DOMAIN tx'
        PROVE  tx'[k] # tx[i]
    BY <1>1, <1>6 DEF ListDistinct
  <1> QED
    BY <1>1, <1>5, <1>6

\* co_list_extract: the list loses nothing but the node of the call.
LEMMA UnregisteredIs ==
    ASSUME tx \in Seq(Calls), NEW call, Unregister(call),
           \A x \in Calls : Sound(x)' => Sound(x)
    PROVE  /\ tx' \in Seq(Calls)
           /\ \A k \in DOMAIN tx' : \E j \in DOMAIN tx : tx'[k] = tx[j]
           /\ ListDistinct => /\ ListDistinct'
                              /\ Sound(call) => \A k \in DOMAIN tx' : tx'[k] # call
  <1>1. CASE \E i \in DOMAIN tx : tx[i] = call /\ tx' = RemoveAt(tx, i)
    <2>1. PICK i \in DOMAIN tx : tx[i] = call /\ tx' = RemoveAt(tx, i)
      BY <1>1
    <2> QED
      BY <2>1, RemovedFrom
  <1>2. CASE (\A i \in DOMAIN tx : tx[i] # call) /\ UNCHANGED tx
    <2>1. \A i \in DOMAIN tx : tx[i] \in Calls
      OBVIOUS
    <2> QED
      BY <1>2, <2>1 DEF ListDistinct, Sound, Good, KindOf
  <1> QED
    BY <1>1, <1>2 DEF Unregister

-----------------------------------------------------------------------------
(* The types, and the states of the callers and of kmsgbk. *)

Basics == TypeOK /\ ActiveCalls /\ NodeOfSignal

LEMMA BasicsInit == Init => Basics
  <1> SUFFICES ASSUME Init PROVE Basics
    OBVIOUS
  <1>0. \A c \in Callers : MaxCalls[c] \in Nat /\ caller[c] = [pc |-> "idle", n |-> 0]
    BY CallersAssumption DEF Init
  <1>1. TypeOK
    <2>1. \A c \in Callers : caller[c].n <= MaxCalls[c]
      BY <1>0
    <2>2. Len(bus) <= BusLen
      BY CallersAssumption DEF Init
    <2>3. tx \in Seq(Calls) /\ bus \in Seq(Calls) /\ mac \in Seq(Calls) /\ rx \in Seq(Calls)
      BY DEF Init
    <2>4. caller \in [Callers -> Places]
      BY DEF Init, Places
    <2>5. written \in [Calls -> Calls \cup {None}] /\ older \in [Callers -> SUBSET Calls]
      BY DEF Init
    <2> QED
      BY <2>1, <2>2, <2>3, <2>4, <2>5 DEF Init, TypeOK, Asleep
  <1>2. ActiveCalls /\ NodeOfSignal
    BY DEF Init, ActiveCalls, NodeOfSignal, Asleep
  <1> QED
    BY <1>1, <1>2 DEF Basics

LEMMA BasicsNext == Basics /\ [Next]_vars => Basics'
  <1> SUFFICES ASSUME Basics, [Next]_vars PROVE Basics'
    OBVIOUS
  <1> USE DEF Basics
  <1>0. caller \in [Callers -> Places] /\ CallersAssumption
    BY CallersAssumption DEF TypeOK, Places
  <1>1. ASSUME NEW c \in Callers, Register(c) PROVE Basics'
    <2>1. <<c, caller[c].n + 1>> \in Calls
      BY <1>1, NextIs DEF Register
    <2>2. /\ caller' \in [Callers -> Places]
          /\ \A d \in Callers : caller'[d].n <= MaxCalls[d]
          /\ ActiveCalls'
      <3>1. \A d \in Callers : MaxCalls[d] \in Nat /\ caller[d].n \in Nat
        BY <1>0 DEF Places, CallersAssumption
      <3>2. CASE caller' = [caller EXCEPT ![c] = [pc |-> "push", n |-> @.n + 1]]
        BY <1>0, <1>1, <3>1, <3>2 DEF Register, TypeOK, ActiveCalls, Places
      <3>3. CASE caller' = [caller EXCEPT ![c].n = @ + 1]
        BY <1>0, <1>1, <3>1, <3>3 DEF Register, TypeOK, ActiveCalls, Places
      <3> QED
        BY <1>1, <3>2, <3>3 DEF Register
    <2>3. tx' \in Seq(Calls) /\ live' \subseteq Calls /\ older' \in [Callers -> SUBSET Calls]
      <3>1. tx' = Append(tx, <<c, caller[c].n + 1>>) \/ tx' = tx
        BY <1>1 DEF Register
      <3>2. live' = live \cup {<<c, caller[c].n + 1>>} \/ live' = live
        BY <1>1 DEF Register
      <3>3. \/ older' = [older EXCEPT ![c] = {d \in Calls : KindOf(d) = Kind[c] /\ Sent(d)}]
            \/ older' = older
        BY <1>1 DEF Register
      <3>4. tx' \in Seq(Calls)
        <4>1. tx \in Seq(Calls)
          BY DEF TypeOK
        <4> QED
          BY <2>1, <3>1, <4>1
      <3>5. live' \subseteq Calls
        BY <2>1, <3>2 DEF TypeOK
      <3>6. older' \in [Callers -> SUBSET Calls]
        BY <3>3 DEF TypeOK
      <3> QED
        BY <3>4, <3>5, <3>6
    <2>4. TypeOK'
      BY <1>1, <2>2, <2>3 DEF Register, TypeOK, Places
    <2> QED
      BY <1>1, <2>2, <2>4 DEF Register, NodeOfSignal
  <1>2. ASSUME NEW c \in Callers, Push(c) PROVE Basics'
    <2>1. Current(c) \in Calls
      BY <1>2, CurrentIs DEF Push
    <2>2. bus' \in Seq(Calls) /\ Len(bus') <= BusLen
      <3>1. bus \in Seq(Calls) /\ Len(bus) <= BusLen /\ BusLen \in Nat
        BY CallersAssumption DEF TypeOK
      <3>2. CASE Len(bus) < BusLen /\ bus' = Append(bus, Current(c))
        BY <2>1, <3>1, <3>2
      <3>3. CASE bus' = bus
        BY <3>1, <3>3
      <3> QED
        BY <1>2, <3>2, <3>3 DEF Push
    <2>3. Goto(c, "wait") \/ Goto(c, "failed")
      BY <1>2 DEF Push
    <2>4. /\ caller' \in [Callers -> Places]
          /\ \A d \in Callers : caller'[d].n <= MaxCalls[d]
          /\ ActiveCalls'
      <3>1. caller[c].pc = "push"
        BY <1>2 DEF Push
      <3>2. CASE Goto(c, "wait")
        BY <3>1, <3>2, GotoBasics
      <3>3. CASE Goto(c, "failed")
        BY <3>1, <3>3, GotoBasics
      <3> QED
        BY <2>3, <3>2, <3>3
    <2>5. gaveUp' \subseteq {Kind[d] : d \in Callers} /\ overflowed' \in BOOLEAN
      BY <1>2 DEF Push, TypeOK
    <2>6. TypeOK'
      BY <1>2, <2>2, <2>4, <2>5 DEF Push, TypeOK, Places
    <2> QED
      BY <1>2, <2>4, <2>6 DEF Push, NodeOfSignal
  <1>3. ASSUME NEW c \in Callers, Answered(c) PROVE Basics'
    <2>1. /\ caller' \in [Callers -> Places]
          /\ \A d \in Callers : caller'[d].n <= MaxCalls[d]
          /\ ActiveCalls'
      BY <1>3, GotoBasics DEF Answered
    <2>2. TypeOK'
      BY <1>3, <2>1 DEF Answered, TypeOK, Places
    <2> QED
      BY <1>3, <2>1, <2>2 DEF Answered, NodeOfSignal
  <1>4. ASSUME NEW c \in Callers, TimedOut(c) PROVE Basics'
    <2>1. /\ caller' \in [Callers -> Places]
          /\ \A d \in Callers : caller'[d].n <= MaxCalls[d]
          /\ ActiveCalls'
      BY <1>4, GotoBasics DEF TimedOut
    <2>2. TypeOK'
      BY <1>4, <2>1 DEF TimedOut, TypeOK, Places
    <2> QED
      BY <1>4, <2>1, <2>2 DEF TimedOut, NodeOfSignal
  <1>14. ASSUME NEW c \in Callers, Extract(c) PROVE Basics'
    <2>1. /\ caller' \in [Callers -> Places]
          /\ \A d \in Callers : caller'[d].n <= MaxCalls[d]
          /\ ActiveCalls'
      <3>1. caller[c].pc = "timed_out" /\ Goto(c, "failed")
        BY <1>14 DEF Extract
      <3> QED
        BY <3>1, GotoBasics
    <2>2. tx' \in Seq(Calls)
      <3>1. \A x \in Calls : Sound(x)' => Sound(x)
        BY <1>14 DEF Extract, Sound, Good, KindOf
      <3> QED
        BY <1>14, <3>1, UnregisteredIs DEF Extract, TypeOK
    <2>3. gaveUp' \subseteq {Kind[d] : d \in Callers}
      BY <1>14 DEF Extract, TypeOK
    <2>4. TypeOK'
      BY <1>14, <2>1, <2>2, <2>3 DEF Extract, TypeOK, Places
    <2> QED
      BY <1>14, <2>1, <2>4 DEF Extract, NodeOfSignal
  <1>5. ASSUME NEW c \in Callers, FreeNode(c) PROVE Basics'
    <2>1. /\ caller' \in [Callers -> Places]
          /\ \A d \in Callers : caller'[d].n <= MaxCalls[d]
          /\ ActiveCalls'
      BY <1>5, GotoBasics DEF FreeNode
    <2>2. /\ live' \subseteq Calls /\ sem' \subseteq Calls
          /\ written' \in [Calls -> Calls \cup {None}] /\ older' \in [Callers -> SUBSET Calls]
      BY <1>5 DEF FreeNode, TypeOK
    <2>3. TypeOK'
      BY <1>5, <2>1, <2>2 DEF FreeNode, TypeOK, Places
    <2> QED
      BY <1>5, <2>1, <2>3 DEF FreeNode, NodeOfSignal
  <1>6. CASE CoreTakes
    <2>1. bus' \in Seq(Calls) /\ Len(bus') <= BusLen /\ mac' \in Seq(Calls)
      <3>1. bus \in Seq(Calls) /\ bus # <<>> /\ Len(bus) <= BusLen /\ mac \in Seq(Calls)
            /\ BusLen \in Nat
        BY <1>0, <1>6 DEF CoreTakes, TypeOK, CallersAssumption
      <3>2. Head(bus) \in Calls /\ Tail(bus) \in Seq(Calls) /\ Len(Tail(bus)) = Len(bus) - 1
        BY <3>1
      <3> QED
        BY <1>6, <3>1, <3>2 DEF CoreTakes
    <2> QED
      BY <1>6, <2>1 DEF CoreTakes, TypeOK, ActiveCalls, NodeOfSignal
  <1>7. CASE mr_kmsg_fwd
    <2>1. PICK i \in DOMAIN mac : mac' = RemoveAt(mac, i) /\ rx' = Append(rx, mac[i])
      BY <1>7 DEF mr_kmsg_fwd
    <2>2. mac' \in Seq(Calls) /\ rx' \in Seq(Calls)
      BY <2>1, RemoveAtIs DEF TypeOK
    <2> QED
      BY <1>7, <2>2 DEF mr_kmsg_fwd, TypeOK, ActiveCalls, NodeOfSignal
  <1>8. CASE Wake
    BY <1>8 DEF Wake, TypeOK, ActiveCalls, NodeOfSignal
  <1>9. CASE PopMessage
    <2>1. CASE rx = <<>>
      BY <1>9, <2>1 DEF PopMessage, TypeOK, Asleep, ActiveCalls, NodeOfSignal
    <2>2. CASE rx # <<>>
      <3>1. rx \in Seq(Calls) /\ Head(rx) \in Calls /\ Tail(rx) \in Seq(Calls)
        BY <2>2 DEF TypeOK
      <3>2. rx' = Tail(rx) /\ kmsg' = [kmsg EXCEPT !.pc = "find", !.msg = Head(rx)]
        BY <1>9, <2>2 DEF PopMessage
      <3>3. kmsg.pc = "pop" /\ kmsg.node = None
        BY <1>9 DEF PopMessage, NodeOfSignal
      <3>4. /\ kmsg'.pc = "find" /\ kmsg'.node = None
            /\ kmsg' \in [pc : {"asleep", "pop", "find", "indication", "signal"},
                          msg : Calls \cup {None}, node : Calls \cup {None}]
        BY <3>1, <3>2, <3>3 DEF TypeOK
      <3> QED
        BY <1>9, <3>1, <3>2, <3>4 DEF PopMessage, TypeOK, ActiveCalls, NodeOfSignal
    <2> QED
      BY <2>1, <2>2
  <1>10. CASE FindNode
    <2>1. CASE kmsg' = [kmsg EXCEPT !.pc = "indication"] /\ UNCHANGED tx
      BY <1>10, <2>1 DEF FindNode, TypeOK, ActiveCalls, NodeOfSignal
    <2>2. CASE \E i \in Matching : /\ kmsg' = [kmsg EXCEPT !.pc = "signal", !.node = tx[i]]
                                   /\ tx' = RemoveAt(tx, i)
      <3>1. PICK i \in Matching : /\ kmsg' = [kmsg EXCEPT !.pc = "signal", !.node = tx[i]]
                                  /\ tx' = RemoveAt(tx, i)
        BY <2>2
      <3>2. i \in DOMAIN tx /\ tx[i] \in Calls
        BY DEF Matching, TypeOK
      <3>3. tx' \in Seq(Calls)
        BY <3>1, <3>2, RemoveAtIs DEF TypeOK
      <3> QED
        BY <1>10, <3>1, <3>2, <3>3 DEF FindNode, TypeOK, ActiveCalls, NodeOfSignal
    <2> QED
      BY <1>10, <2>1, <2>2 DEF FindNode
  <1>11. CASE rwnx_handle_recv_msg
    BY <1>11 DEF rwnx_handle_recv_msg, AfterMessage, Asleep, TypeOK, ActiveCalls, NodeOfSignal
  <1>12. CASE SignalCaller
    <2>1. written' \in [Calls -> Calls \cup {None}] /\ sem' \subseteq Calls
      BY <1>12 DEF SignalCaller, TypeOK, NodeOfSignal
    <2> QED
      BY <1>12, <2>1 DEF SignalCaller, AfterMessage, Asleep, TypeOK, ActiveCalls, NodeOfSignal
  <1>13. CASE UNCHANGED vars
    BY <1>13 DEF vars, TypeOK, ActiveCalls, NodeOfSignal
  <1> QED
    BY <1>1, <1>2, <1>3, <1>4, <1>5, <1>6, <1>7, <1>8, <1>9, <1>10, <1>11, <1>12, <1>13, <1>14
       DEF Next, rw_msg_send, core_thread_main, kmsg_bk_thread_main

\* Every variable keeps its type: the bus holds no more than it has places for,
\* and only requests of calls that were made are on their way.
THEOREM TypeCorrect == Spec => []TypeOK
  <1>1. Basics => TypeOK
    BY DEF Basics
  <1> QED
    BY <1>1, BasicsInit, BasicsNext, PTL DEF Spec

-----------------------------------------------------------------------------
(* A node is in one place only. *)

Failed(call) == IsAt(call, "failed")

\* What goes wrong with a kind stays on record.
LEMMA SoundBefore ==
    ASSUME TypeOK, [Next]_vars
    PROVE  /\ gaveUp \subseteq gaveUp' /\ (overflowed => overflowed')
           /\ \A x \in Calls : (Sound(x)' => Sound(x)) /\ (Good(x)' => Good(x))
  <1>1. gaveUp \subseteq gaveUp' /\ (overflowed => overflowed')
    BY DEF TypeOK, Next, rw_msg_send, core_thread_main, kmsg_bk_thread_main, vars,
           Register, Push, Answered, TimedOut, Extract, FreeNode, CoreTakes, mr_kmsg_fwd,
           Wake, PopMessage, FindNode, rwnx_handle_recv_msg, SignalCaller
  <1>2. \A x \in Calls : (Sound(x)' => Sound(x)) /\ (Good(x)' => Good(x))
    BY <1>1 DEF Sound, Good, KindOf
  <1> QED
    BY <1>1, <1>2

\* A step that leaves the list, the semaphores and kmsgbk alone keeps every node in
\* its place, if it lets the waiting calls wait.
LEMMA PlacesKept ==
    ASSUME Basics, OnePlace, UNCHANGED <<tx, live, sem, kmsg>>,
           \A x \in Calls : Sound(x)' => /\ Sound(x)
                                         /\ Waits(x) => Waits(x)'
                                         /\ Failed(x) => Failed(x)'
    PROVE  OnePlace'
  <1>1. (\A i \in DOMAIN tx : tx[i] \in Calls) /\ sem \subseteq Calls
        /\ (kmsg.pc = "signal" => kmsg.node \in Calls)
    BY DEF Basics, TypeOK, NodeOfSignal
  <1>2. ListPending' /\ ListDistinct'
    BY <1>1 DEF OnePlace, ListPending, ListDistinct, Pending
  <1>3. NodePending' /\ SemWaits'
    BY <1>1 DEF OnePlace, NodePending, SemWaits, Pending, Failed
  <1> QED
    BY <1>2, <1>3 DEF OnePlace

\* What a caller may rely on when it runs: kmsgbk has no node.
LEMMA CallerRuns ==
    ASSUME Basics, MayRun
    PROVE  /\ kmsg.pc = "asleep" /\ kmsg.node = None /\ \A x \in Calls : x # None
           /\ tx \in Seq(Calls) /\ \A i \in DOMAIN tx : tx[i] \in Calls /\ tx[i] # None
           /\ sem \subseteq Calls
  BY NoneAssumption DEF Basics, TypeOK, MayRun, NodeOfSignal

\* What Register(c) changes for the other calls: nothing; those of its caller are over.
LEMMA OthersStay ==
    ASSUME Basics, NEW c \in Callers, Register(c), NEW x \in Calls, x # <<c, caller[c].n + 1>>
    PROVE  /\ Waits(x)' <=> Waits(x)
           /\ Sent(x)' <=> Sent(x)
           /\ IsAt(x, "push")' <=> IsAt(x, "push")
           /\ IsAt(x, "answered")' <=> IsAt(x, "answered")
           /\ IsAt(x, "failed")' <=> IsAt(x, "failed")
           /\ x[1] = c => ~Waits(x) /\ ~IsAt(x, "push") /\ ~IsAt(x, "answered")
  <1>1. /\ caller \in [Callers -> Places] /\ caller[c].pc = "idle" /\ caller[c].n \in Nat
        /\ x[1] \in Callers /\ x[2] \in Nat
        /\ x[1] = c => x[2] # caller[c].n + 1
    <2>1. x[1] \in Callers /\ x[2] \in 1 .. MaxCalls[x[1]] /\ x = <<x[1], x[2]>>
      BY CallsAre
    <2> QED
      BY <2>1, CallersAssumption DEF Register, Basics, TypeOK, Places
  <1>2. /\ \A d \in Callers : d # c => caller'[d] = caller[d]
        /\ caller'[c].n = caller[c].n + 1 /\ caller'[c].pc \in {"push", "idle"}
    BY <1>1 DEF Register, Places
  <1>3. CASE x[1] # c
    <2>1. caller'[x[1]] = caller[x[1]]
      BY <1>1, <1>2, <1>3
    <2> QED
      BY <1>3, <2>1 DEF IsAt, Sent, Waits
  <1>4. CASE x[1] = c
    BY <1>1, <1>2, <1>4 DEF IsAt, Sent, Waits
  <1> QED
    BY <1>3, <1>4

\* The new call begins, or is over at once.
LEMMA Registered ==
    ASSUME Basics, NEW c \in Callers, Register(c), NEW call \in Calls,
           call = <<c, caller[c].n + 1>>
    PROVE  /\ call[1] = c /\ caller[c].pc = "idle"
           /\ ~Waits(call) /\ ~Sent(call)
           /\ \A pc : ~IsAt(call, pc)
           /\ ~IsAt(call, "answered")'
           /\ \/ /\ tx' = Append(tx, call) /\ live' = live \cup {call}
                 /\ older' = [older EXCEPT ![c] = {d \in Calls : KindOf(d) = Kind[c] /\ Sent(d)}]
                 /\ Waits(call)' /\ IsAt(call, "push")' /\ caller'[c].pc = "push"
              \/ /\ UNCHANGED <<tx, live, older>>
                 /\ ~IsAt(call, "push")' /\ caller'[c].pc = "idle"
  <1>1. /\ caller \in [Callers -> Places] /\ caller[c].pc = "idle"
        /\ caller[c].n \in Nat /\ call[1] = c /\ call[2] = caller[c].n + 1
    BY DEF Register, Basics, TypeOK, Places
  <1>2. \/ /\ caller'[c] = [pc |-> "push", n |-> caller[c].n + 1]
           /\ tx' = Append(tx, call) /\ live' = live \cup {call}
           /\ older' = [older EXCEPT ![c] = {d \in Calls : KindOf(d) = Kind[c] /\ Sent(d)}]
        \/ /\ caller'[c] = [pc |-> "idle", n |-> caller[c].n + 1]
           /\ UNCHANGED <<tx, live, older>>
    BY <1>1 DEF Register, Places
  <1>3. ~Waits(call) /\ ~Sent(call) /\ \A pc : ~IsAt(call, pc)
    BY <1>1 DEF Waits, Sent, IsAt
  <1>4. CASE /\ caller'[c] = [pc |-> "push", n |-> caller[c].n + 1]
             /\ tx' = Append(tx, call) /\ live' = live \cup {call}
             /\ older' = [older EXCEPT ![c] = {d \in Calls : KindOf(d) = Kind[c] /\ Sent(d)}]
    <2>1. Waits(call)' /\ IsAt(call, "push")' /\ ~IsAt(call, "answered")' /\ caller'[c].pc = "push"
      BY <1>1, <1>4 DEF Waits, IsAt
    <2> QED
      BY <1>1, <1>3, <1>4, <2>1
  <1>5. CASE /\ caller'[c] = [pc |-> "idle", n |-> caller[c].n + 1]
             /\ UNCHANGED <<tx, live, older>>
    <2>1. ~IsAt(call, "push")' /\ ~IsAt(call, "answered")' /\ caller'[c].pc = "idle"
      BY <1>1, <1>5 DEF IsAt
    <2> QED
      BY <1>1, <1>3, <1>5, <2>1
  <1> QED
    BY <1>2, <1>4, <1>5

LEMMA PlaceRegister ==
    ASSUME Basics, OnePlace, NEW c \in Callers, Register(c)
    PROVE  OnePlace'
  <1>1. PICK call0 \in Calls : call0 = <<c, caller[c].n + 1>>
    BY NextIs DEF Register, Basics
  <1>2. /\ ~Waits(call0) /\ ~Failed(call0)
        /\ \A x \in Calls : x # call0 => (Waits(x)' <=> Waits(x)) /\ (Failed(x)' <=> Failed(x))
        /\ \/ tx' = Append(tx, call0) /\ live' = live \cup {call0} /\ Waits(call0)'
           \/ UNCHANGED <<tx, live>>
    <2>1. \A x \in Calls : x # call0 => (Waits(x)' <=> Waits(x)) /\ (Failed(x)' <=> Failed(x))
      BY <1>1, OthersStay DEF Failed
    <2>2. /\ ~Waits(call0) /\ ~Failed(call0)
          /\ \/ tx' = Append(tx, call0) /\ live' = live \cup {call0} /\ Waits(call0)'
             \/ UNCHANGED <<tx, live>>
      BY <1>1, Registered DEF Failed
    <2> QED
      BY <2>1, <2>2
  <1>3. /\ UNCHANGED <<sem, kmsg>> /\ \A x \in Calls : Sound(x)' <=> Sound(x)
        /\ tx \in Seq(Calls) /\ kmsg.node = None /\ kmsg.pc = "asleep"
        /\ \A x \in Calls : x # None
    BY CallerRuns DEF Register, Sound, Good, KindOf
  <1>4. CASE UNCHANGED <<tx, live>>
    <2>1. \A x \in Calls : (Waits(x) => Waits(x)') /\ (Failed(x) => Failed(x)')
      BY <1>2
    <2> QED
      BY <1>3, <1>4, <2>1, PlacesKept
  <1>5. CASE tx' = Append(tx, call0) /\ live' = live \cup {call0} /\ Waits(call0)'
    <2>1. Sound(call0) => call0 \notin sem /\ \A i \in DOMAIN tx : tx[i] # call0
      BY <1>2 DEF OnePlace, ListPending, SemWaits, Pending, Failed
    <2>2. ASSUME NEW i \in DOMAIN tx'
          PROVE  \/ i \in DOMAIN tx /\ tx'[i] = tx[i] /\ tx[i] \in Calls
                 \/ i = Len(tx) + 1 /\ tx'[i] = call0
      BY <1>3, <1>5
    <2>3. ListPending'
      <3> SUFFICES ASSUME NEW i \in DOMAIN tx', Sound(tx[i])'
                   PROVE  (Pending(tx[i]) /\ tx[i] # kmsg.node)'
        BY DEF ListPending
      <3>1. CASE i \in DOMAIN tx /\ tx'[i] = tx[i] /\ tx[i] \in Calls
        <4>1. Sound(tx[i])
          BY <1>3, <3>1
        <4>2. Pending(tx[i]) /\ tx[i] # kmsg.node
          BY <3>1, <4>1 DEF OnePlace, ListPending
        <4> QED
          BY <1>2, <1>3, <1>5, <3>1, <4>2 DEF Pending
      <3>2. CASE tx'[i] = call0
        BY <1>3, <1>5, <2>1, <3>2 DEF Pending
      <3> QED
        BY <2>2, <3>1, <3>2
    <2>4. ListDistinct'
      <3> SUFFICES ASSUME NEW i \in DOMAIN tx', NEW j \in DOMAIN tx', tx'[i] = tx'[j],
                          Sound(tx[i])'
                   PROVE  i = j
        BY DEF ListDistinct
      <3>1. tx'[i] \in Calls /\ Sound(tx'[i])
        BY <1>3, <2>2
      <3> QED
        BY <2>1, <2>2, <3>1 DEF OnePlace, ListDistinct
    <2>5. NodePending' /\ SemWaits'
      <3>1. sem \subseteq Calls
        BY DEF Basics, TypeOK
      <3>2. SemWaits'
        BY <1>2, <1>3, <3>1 DEF OnePlace, SemWaits, Failed
      <3> QED
        BY <1>3, <3>2 DEF NodePending
    <2> QED
      BY <2>3, <2>4, <2>5 DEF OnePlace
  <1> QED
    BY <1>2, <1>4, <1>5

\* A caller goes on within its call: what this call and the others see.
LEMMA CallGoesOn ==
    ASSUME Basics, NEW c \in Callers, caller[c].pc # "idle", NEW call \in Calls, call = Current(c),
           NEW pc \in {"idle", "wait", "answered", "timed_out", "failed"}, Goto(c, pc)
    PROVE  /\ call[1] = c
           /\ \A x \in Calls : x # call =>
                 /\ \A p : IsAt(x, p)' = IsAt(x, p)
                 /\ Sent(x)' <=> Sent(x)
                 /\ Waits(x)' <=> Waits(x)
                 /\ x[1] = c => \A p : ~IsAt(x, p)
                 /\ x[1] = c => ~Waits(x)
           /\ \A p : IsAt(call, p)' <=> p = pc
           /\ \A p : IsAt(call, p) <=> p = caller[c].pc
           /\ Sent(call)' /\ (Sent(call) <=> caller[c].pc # "push")
           /\ Waits(call) <=> caller[c].pc \in {"push", "wait", "timed_out"}
           /\ Waits(call)' <=> pc \in {"wait", "timed_out"}
  <1>1. /\ caller \in [Callers -> Places]
        /\ \A d \in Callers : caller[d].n \in Nat
    BY DEF Basics, TypeOK, Places
  <1>2. \A d \in Callers : /\ caller'[d].n = caller[d].n
                           /\ caller'[d].pc = IF d = c THEN pc ELSE caller[d].pc
    BY <1>1, GotoIs
  <1>3. /\ call[1] = c /\ call[2] = caller[c].n
        /\ \A x \in Calls : x[1] = c /\ x[2] = caller[c].n => x = call
    BY CurrentIs DEF Basics
  <1>4. \A x \in Calls : x[1] \in Callers
    BY CallsAre
  <1>5. ASSUME NEW x \in Calls, x # call
        PROVE  /\ \A p : IsAt(x, p)' = IsAt(x, p)
               /\ Sent(x)' <=> Sent(x)
               /\ Waits(x)' <=> Waits(x)
               /\ x[1] = c => \A p : ~IsAt(x, p)
               /\ x[1] = c => ~Waits(x)
    <2>1. x[1] # c \/ x[2] # caller[c].n
      BY <1>3, <1>5
    <2>2. \A p : IsAt(x, p)' = IsAt(x, p)
      BY <1>2, <1>4, <2>1 DEF IsAt
    <2>3. Sent(x)' <=> Sent(x)
      BY <1>2, <1>4, <2>2 DEF Sent
    <2>4. Waits(x)' <=> Waits(x)
      BY <1>2, <1>4, <2>1 DEF Waits
    <2> QED
      BY <2>1, <2>2, <2>3, <2>4 DEF IsAt, Waits
  <1>6. /\ \A p : IsAt(call, p)' <=> p = pc
        /\ \A p : IsAt(call, p) <=> p = caller[c].pc
    BY <1>2, <1>3 DEF IsAt
  <1>7. Sent(call)' /\ (Sent(call) <=> caller[c].pc # "push")
    BY <1>1, <1>2, <1>3, <1>6 DEF Sent
  <1>8. /\ Waits(call) <=> caller[c].pc \in {"push", "wait", "timed_out"}
        /\ Waits(call)' <=> pc \in {"wait", "timed_out"}
    BY <1>2, <1>3 DEF Waits
  <1> QED
    BY <1>3, <1>5, <1>6, <1>7, <1>8

\* Push(c) sends the request, or gives it up; Answered(c), TimedOut(c) and FreeNode(c)
\* leave the list alone.
LEMMA PlaceStays ==
    ASSUME Basics, OnePlace, NEW c \in Callers,
           Push(c) \/ Answered(c) \/ TimedOut(c) \/ FreeNode(c),
           \A x \in Calls : Sound(x)' => Sound(x)
    PROVE  OnePlace'
  <1>0. caller[c].pc # "idle" /\ MayRun
    BY DEF Push, Answered, TimedOut, FreeNode
  <1>1. PICK cur \in Calls : cur = Current(c)
    BY <1>0, CurrentIs DEF Basics
  <1>2. /\ kmsg.pc = "asleep" /\ kmsg.node = None
        /\ tx \in Seq(Calls) /\ (\A i \in DOMAIN tx : tx[i] \in Calls /\ tx[i] # None)
        /\ sem \subseteq Calls /\ UNCHANGED <<tx, kmsg>>
    BY <1>0, CallerRuns DEF Push, Answered, TimedOut, FreeNode
  <1>3. CASE Push(c)
    <2>1. PICK pc \in {"wait", "failed"} :
             Goto(c, pc) /\ (pc = "failed" => ~Sound(cur)')
      <3>1. CASE Goto(c, "wait")
        BY <3>1
      <3>2. CASE Goto(c, "failed") /\ overflowed' /\ Kind[c] \in gaveUp'
        <4>1. ~Sound(cur)'
          BY <1>0, <1>1, <3>2, CurrentIs DEF Basics, Sound, Good, KindOf
        <4> QED
          BY <3>2, <4>1
      <3> QED
        BY <1>3, <3>1, <3>2 DEF Push
    <2>2. /\ \A x \in Calls : x # cur => (Waits(x)' <=> Waits(x)) /\ IsAt(x, "failed")' = IsAt(x, "failed")
          /\ Waits(cur)' <=> pc \in {"wait", "timed_out"}
          /\ ~IsAt(cur, "failed")
      BY <1>0, <1>1, <1>3, <2>1, CallGoesOn DEF Push
    <2>3. \A x \in Calls : Sound(x)' => /\ Waits(x) => Waits(x)'
                                        /\ Failed(x) => Failed(x)'
      BY <2>1, <2>2 DEF Failed
    <2> QED
      BY <1>2, <1>3, <2>3, PlacesKept DEF Push
  <1>4. CASE TimedOut(c)
    <2>1. caller[c].pc = "wait" /\ Goto(c, "timed_out")
      BY <1>4 DEF TimedOut
    <2>2. /\ \A x \in Calls : x # cur => (Waits(x)' <=> Waits(x)) /\ IsAt(x, "failed")' = IsAt(x, "failed")
          /\ Waits(cur)' /\ ~IsAt(cur, "failed")
      BY <1>0, <1>1, <2>1, CallGoesOn
    <2>3. \A x \in Calls : /\ Waits(x) => Waits(x)'
                           /\ Failed(x) => Failed(x)'
      BY <2>2 DEF Failed
    <2> QED
      BY <1>4, <2>3, PlacesKept DEF TimedOut
  <1>5. CASE Answered(c) \/ FreeNode(c)
    <2>1. /\ sem' = sem \ {cur} /\ live \ {cur} \subseteq live' /\ UNCHANGED <<overflowed, gaveUp>>
          /\ Goto(c, "answered") \/ Goto(c, "idle")
      BY <1>1, <1>5 DEF Answered, FreeNode
    <2>2. Answered(c) => caller[c].pc = "wait" /\ cur \in sem
      BY <1>1 DEF Answered
    <2>3. FreeNode(c) => caller[c].pc \in {"answered", "failed"}
      BY DEF FreeNode
    <2>4. /\ \A x \in Calls : x # cur => (Waits(x)' <=> Waits(x)) /\ IsAt(x, "failed")' = IsAt(x, "failed")
          /\ Waits(cur) <=> caller[c].pc \in {"push", "wait", "timed_out"}
      BY <1>0, <1>1, <2>1, CallGoesOn
    <2>5. \A i \in DOMAIN tx : Sound(tx[i]) => tx[i] # cur
      BY <1>5, <2>2, <2>3, <2>4 DEF OnePlace, ListPending, Pending
    <2>6. \A x \in Calls : Sound(x)' <=> Sound(x)
      BY <2>1 DEF Sound, Good, KindOf
    <2>7. ListPending'
      BY <1>2, <2>1, <2>4, <2>5, <2>6 DEF OnePlace, ListPending, Pending
    <2>8. ListDistinct'
      BY <1>2, <2>6 DEF OnePlace, ListDistinct
    <2>9. SemWaits'
      BY <1>2, <2>1, <2>4, <2>6 DEF OnePlace, SemWaits
    <2>10. NodePending'
      BY <1>2 DEF NodePending
    <2> QED
      BY <2>7, <2>8, <2>9, <2>10 DEF OnePlace
  <1> QED
    BY <1>3, <1>4, <1>5

LEMMA PlaceExtract ==
    ASSUME Basics, OnePlace, NEW c \in Callers, Extract(c),
           \A x \in Calls : Sound(x)' => Sound(x)
    PROVE  OnePlace'
  <1>1. caller[c].pc = "timed_out" /\ Goto(c, "failed") /\ MayRun
    BY DEF Extract
  <1>2. PICK cur \in Calls : cur = Current(c)
    BY <1>1, CurrentIs DEF Basics
  <1>3. /\ \A x \in Calls : x # cur => (Waits(x)' <=> Waits(x)) /\ IsAt(x, "failed")' = IsAt(x, "failed")
        /\ IsAt(cur, "failed")'
    BY <1>1, <1>2, CallGoesOn
  <1>4. /\ kmsg.pc = "asleep" /\ kmsg.node = None
        /\ tx \in Seq(Calls) /\ (\A i \in DOMAIN tx : tx[i] \in Calls /\ tx[i] # None)
        /\ sem \subseteq Calls /\ UNCHANGED <<live, sem, kmsg>>
    BY <1>1, CallerRuns DEF Extract
  <1>5. /\ \A k \in DOMAIN tx' : \E j \in DOMAIN tx : tx'[k] = tx[j]
        /\ ListDistinct' /\ (Sound(cur) => \A k \in DOMAIN tx' : tx'[k] # cur)
    <2>1. Unregister(cur) /\ ListDistinct
      BY <1>2 DEF Extract, OnePlace
    <2> QED
      BY <1>4, <2>1, UnregisteredIs
  <1>6. ListPending'
    <2> SUFFICES ASSUME NEW k \in DOMAIN tx', Sound(tx[k])'
                 PROVE  (Pending(tx[k]) /\ tx[k] # kmsg.node)'
      BY DEF ListPending
    <2>1. PICK x \in Calls : x = tx'[k]
      BY <1>4, <1>5
    <2>2. Sound(x)' /\ Sound(x)
      BY <2>1 DEF Sound, Good, KindOf
    <2>3. Pending(x) /\ x # kmsg.node /\ x # cur
      BY <1>5, <2>1, <2>2 DEF OnePlace, ListPending
    <2>4. Waits(x)' /\ x \in live' /\ x \notin sem' /\ x # kmsg'.node
      BY <1>3, <1>4, <2>3 DEF Pending
    <2> QED
      BY <2>1, <2>4 DEF Pending, Waits
  <1>7. NodePending' /\ SemWaits'
    BY <1>3, <1>4 DEF OnePlace, NodePending, SemWaits
  <1> QED
    BY <1>5, <1>6, <1>7 DEF OnePlace

\* Whatever only moves kmsgbk on, without a node in its hands.
LEMMA PlaceWithoutNode ==
    ASSUME Basics, OnePlace, UNCHANGED <<tx, live, sem, caller, overflowed, gaveUp>>,
           kmsg'.pc # "signal", kmsg'.node = None
    PROVE  OnePlace'
  <1>1. \A i \in DOMAIN tx : tx[i] \in Calls /\ tx[i] # None
    BY NoneAssumption DEF Basics, TypeOK
  <1>2. ListPending' /\ ListDistinct'
    BY <1>1 DEF OnePlace, ListPending, ListDistinct, Pending, Waits, Sound, Good, KindOf
  <1>3. NodePending' /\ SemWaits'
    BY DEF OnePlace, NodePending, SemWaits, Waits, Sound, Good, KindOf, IsAt
  <1> QED
    BY <1>2, <1>3 DEF OnePlace

LEMMA PlaceFindNode ==
    ASSUME Basics, OnePlace, FindNode
    PROVE  OnePlace'
  <1>1. CASE kmsg' = [kmsg EXCEPT !.pc = "indication"] /\ UNCHANGED tx
    <2>1. kmsg'.pc # "signal" /\ kmsg'.node = None
      BY <1>1 DEF FindNode, Basics, TypeOK, NodeOfSignal
    <2> QED
      BY <1>1, <2>1, PlaceWithoutNode DEF FindNode
  <1>2. CASE \E i \in Matching : /\ kmsg' = [kmsg EXCEPT !.pc = "signal", !.node = tx[i]]
                                 /\ tx' = RemoveAt(tx, i)
    <2>1. PICK i \in DOMAIN tx : /\ kmsg' = [kmsg EXCEPT !.pc = "signal", !.node = tx[i]]
                                 /\ tx' = RemoveAt(tx, i)
      BY <1>2 DEF Matching
    <2>2. PICK node \in Calls : node = tx[i] /\ kmsg'.pc = "signal" /\ kmsg'.node = node
      BY <2>1 DEF Basics, TypeOK
    <2>3. UNCHANGED <<live, sem, written, caller, overflowed, gaveUp>> /\ tx \in Seq(Calls)
      BY DEF FindNode, Basics, TypeOK
    <2>4. \A x \in Calls : (Sound(x)' <=> Sound(x)) /\ (Waits(x)' <=> Waits(x))
                           /\ (Failed(x)' <=> Failed(x))
      BY <2>3 DEF Sound, Good, KindOf, Waits, Failed, IsAt
    <2>5. /\ \A k \in DOMAIN tx' : \E j \in DOMAIN tx : tx'[k] = tx[j]
          /\ ListDistinct' /\ (Sound(node) => \A k \in DOMAIN tx' : tx'[k] # node)
      BY <2>1, <2>2, <2>3, <2>4, RemovedFrom DEF OnePlace
    <2>6. ListPending'
      <3> SUFFICES ASSUME NEW k \in DOMAIN tx', Sound(tx[k])'
                   PROVE  (Pending(tx[k]) /\ tx[k] # kmsg.node)'
        BY DEF ListPending
      <3>1. PICK x \in Calls : x = tx'[k]
        BY <2>3, <2>5
      <3>2. Sound(x)
        BY <2>3, <3>1 DEF Sound, Good, KindOf
      <3>3. Pending(x) /\ x # node
        BY <2>5, <3>1, <3>2 DEF OnePlace, ListPending
      <3> QED
        BY <2>2, <2>3, <3>1, <3>3 DEF Pending, Waits
    <2>7. NodePending'
      <3>1. Sound(node) => Pending(node)
        BY <2>2 DEF OnePlace, ListPending
      <3> QED
        BY <2>2, <2>3, <3>1 DEF NodePending, Pending, Waits, Sound, Good, KindOf
    <2>8. SemWaits'
      BY <2>3 DEF OnePlace, SemWaits, Waits, Sound, Good, KindOf, IsAt
    <2> QED
      BY <2>5, <2>6, <2>7, <2>8 DEF OnePlace
  <1> QED
    BY <1>1, <1>2 DEF FindNode

LEMMA PlaceSignalCaller ==
    ASSUME Basics, OnePlace, SignalCaller
    PROVE  OnePlace'
  <1>1. PICK node \in Calls : node = kmsg.node
    BY DEF SignalCaller, Basics, NodeOfSignal
  <1>2. /\ kmsg'.pc # "signal" /\ kmsg'.node = None /\ sem' = sem \cup {node}
        /\ UNCHANGED <<tx, live, caller, overflowed, gaveUp>>
    BY <1>1 DEF SignalCaller, AfterMessage, Asleep, Basics, TypeOK
  <1>3. Sound(node) => Waits(node)
    BY <1>1 DEF SignalCaller, OnePlace, NodePending, Pending
  <1>4. \A i \in DOMAIN tx : tx[i] \in Calls /\ tx[i] # None
    BY NoneAssumption DEF Basics, TypeOK
  <1>5. ListPending' /\ ListDistinct'
    BY <1>1, <1>2, <1>4 DEF OnePlace, ListPending, ListDistinct, Pending, Waits, Sound, Good, KindOf
  <1>6. NodePending' /\ SemWaits'
    BY <1>2, <1>3 DEF OnePlace, NodePending, SemWaits, Waits, Sound, Good, KindOf, IsAt
  <1> QED
    BY <1>5, <1>6 DEF OnePlace

LEMMA PlacesNext ==
    ASSUME Basics, OnePlace, [Next]_vars
    PROVE  OnePlace'
  <1>0. \A x \in Calls : Sound(x)' => Sound(x)
    BY SoundBefore DEF Basics
  <1>1. ASSUME NEW c \in Callers, rw_msg_send(c) PROVE OnePlace'
    BY <1>0, <1>1, PlaceRegister, PlaceStays, PlaceExtract DEF rw_msg_send
  <1>2. CASE core_thread_main \/ UNCHANGED vars
    <2>1. UNCHANGED <<tx, live, sem, caller, kmsg>>
      BY <1>2 DEF core_thread_main, CoreTakes, mr_kmsg_fwd, vars
    <2>2. \A x \in Calls : (Waits(x) => Waits(x)') /\ (Failed(x) => Failed(x)')
      BY <2>1 DEF Waits, Failed, IsAt
    <2> QED
      BY <1>0, <2>1, <2>2, PlacesKept
  <1>3. CASE Wake
    BY <1>3, PlaceWithoutNode DEF Wake, Basics, TypeOK, NodeOfSignal
  <1>4. CASE PopMessage
    <2>1. kmsg'.pc # "signal" /\ kmsg'.node = None
      <3>1. kmsg.pc = "pop" /\ kmsg.node = None
        BY <1>4 DEF PopMessage, Basics, NodeOfSignal
      <3>2. kmsg' = Asleep \/ kmsg' = [kmsg EXCEPT !.pc = "find", !.msg = Head(rx)]
        BY <1>4 DEF PopMessage
      <3>3. kmsg \in [pc : {"asleep", "pop", "find", "indication", "signal"},
                      msg : Calls \cup {None}, node : Calls \cup {None}]
        BY DEF Basics, TypeOK
      <3>4. CASE kmsg' = Asleep
        BY <3>4 DEF Asleep
      <3>5. CASE kmsg' = [kmsg EXCEPT !.pc = "find", !.msg = Head(rx)]
        BY <3>1, <3>3, <3>5
      <3> QED
        BY <3>2, <3>4, <3>5
    <2> QED
      BY <1>4, <2>1, PlaceWithoutNode DEF PopMessage
  <1>5. CASE FindNode
    BY <1>5, PlaceFindNode
  <1>6. CASE rwnx_handle_recv_msg
    BY <1>6, PlaceWithoutNode DEF rwnx_handle_recv_msg, AfterMessage, Asleep
  <1>7. CASE SignalCaller
    BY <1>7, PlaceSignalCaller
  <1> QED
    BY <1>1, <1>2, <1>3, <1>4, <1>5, <1>6, <1>7 DEF Next, kmsg_bk_thread_main

\* A node is in one place only: in the list, with kmsgbk or with its semaphore set,
\* and there only while its call is under way.
LEMMA PlaceInvariant == Spec => [](Basics /\ OnePlace)
  <1>1. Init => Basics /\ OnePlace
    BY BasicsInit DEF Init, OnePlace, ListPending, ListDistinct, NodePending, SemWaits, Asleep
  <1>2. Basics /\ OnePlace /\ [Next]_vars => (Basics /\ OnePlace)'
    BY BasicsNext, PlacesNext
  <1> QED
    BY <1>1, <1>2, PTL DEF Spec

\* As long as no request found the bus full, the nodes that the search reads are
\* allocated, and the node that kmsgbk writes through is still its caller's, whether
\* the time of its call has ended or not.
THEOREM NodesStayLive == Spec => []NodesLive
  <1>1. Basics /\ OnePlace => NodesLive
    BY DEF NodesLive, SignalSucceeds, OnePlace, ListPending, NodePending, Pending, Sound
  <1> QED
    BY <1>1, PlaceInvariant, PTL

-----------------------------------------------------------------------------
(* Which answer a call gets. *)

\* A message is with kmsgbk, which has not looked for its node yet, or in a queue.
InHand(x) == kmsg.pc = "find" /\ kmsg.msg = x
InFlight(x) == InHand(x) \/ Contains(rx, x) \/ Contains(mac, x) \/ Contains(bus, x)

\* A request is pushed once, and confirmed once.
TokensApart ==
    /\ IsInjective(bus) /\ IsInjective(mac) /\ IsInjective(rx)
    /\ kmsg.pc = "find" => kmsg.msg \in Calls
    /\ \A x \in Calls :
         /\ ~(Contains(bus, x) /\ Contains(mac, x))
         /\ ~(Contains(bus, x) /\ Contains(rx, x))
         /\ ~(Contains(mac, x) /\ Contains(rx, x))
         /\ InHand(x) => ~Contains(bus, x) /\ ~Contains(mac, x) /\ ~Contains(rx, x)
TokensSent == \A x \in Calls : InFlight(x) => Sent(x)
OlderSent == \A c \in Callers : \A x \in older[c] : KindOf(x) = Kind[c] /\ Sent(x)

\* Of the messages of a kind, those of a set come first, ...
Ordered(s, k, S) ==
    \A i, j \in DOMAIN s : i < j /\ s[j] \in S /\ KindOf(s[i]) = k => s[i] \in S
Before(s, t, k, S) ==
    \A x, y \in Calls : Contains(s, x) /\ Contains(t, y) /\ y \in S /\ KindOf(x) = k => x \in S
HandBefore(t, k, S) ==
    \A x, y \in Calls : InHand(x) /\ Contains(t, y) /\ y \in S /\ KindOf(x) = k => x \in S
FirstAre(k, S) ==
    /\ Ordered(rx, k, S) /\ Ordered(mac, k, S) /\ Ordered(bus, k, S)
    /\ Before(rx, mac, k, S) /\ Before(rx, bus, k, S) /\ Before(mac, bus, k, S)
    /\ HandBefore(rx, k, S) /\ HandBefore(mac, k, S) /\ HandBefore(bus, k, S)

\* ... and so do those that were sent before a call began.
InOrder == \A c \in Callers : FirstAre(Kind[c], older[c])

\* Of a thread's own requests the earlier ones were sent before.
OwnOlder ==
    \A x \in Calls : x[2] < caller[x[1]].n /\ caller[x[1]].pc # "idle" => x \in older[x[1]]

QueueInv == TokensApart /\ TokensSent /\ OlderSent /\ InOrder /\ OwnOlder

\* Each message of a kind that comes, or is to be sent, has a node that waits for it, ...
Coming(k) == {x \in Calls : KindOf(x) = k /\ (InFlight(x) \/ IsAt(x, "push"))}
NodesIn(s, k) == {x \in Calls : KindOf(x) = k /\ Contains(s, x)}
Enough ==
    \A c \in Callers : Kind[c] \notin gaveUp =>
        Cardinality(Coming(Kind[c])) <= Cardinality(NodesIn(tx, Kind[c]))

\* ... and those from before a call find one ahead of the call's own.
OldComing(c) == {x \in older[c] : InFlight(x)}
Ahead(s, i) ==
    {x \in Calls : KindOf(x) = KindOf(s[i]) /\ \E j \in DOMAIN s : j < i /\ s[j] = x}
NoneLeft ==
    \A i \in DOMAIN tx : Good(tx[i]) =>
        Cardinality(OldComing(tx[i][1])) <= Cardinality(Ahead(tx, i))

\* What a call gets was sent after it began.
Fresh(answer, call) ==
    /\ answer \in Calls /\ KindOf(answer) = KindOf(call)
    /\ Sent(answer) /\ answer \notin older[call[1]]
SignalFresh == kmsg.pc = "signal" /\ Good(kmsg.node) => Fresh(kmsg.msg, kmsg.node)
WrittenFresh ==
    \A x \in Calls : Good(x) /\ (x \in sem \/ IsAt(x, "answered")) => Fresh(written[x], x)

FreshInv == QueueInv /\ Enough /\ NoneLeft /\ SignalFresh /\ WrittenFresh

-----------------------------------------------------------------------------
(* Lemmas on lists: what is in a list after an element was added, ... *)

LEMMA ContainsAppend ==
    ASSUME NEW S, NEW s \in Seq(S), NEW e \in S
    PROVE  /\ Append(s, e) \in Seq(S)
           /\ \A x : Contains(Append(s, e), x) <=> Contains(s, x) \/ x = e
           /\ IsInjective(s) /\ ~Contains(s, e) => IsInjective(Append(s, e))
  <1>1. /\ Append(s, e) \in Seq(S) /\ Len(Append(s, e)) = Len(s) + 1 /\ Len(s) \in Nat
        /\ \A i \in 1 .. Len(s) : Append(s, e)[i] = s[i]
        /\ Append(s, e)[Len(s) + 1] = e
    OBVIOUS
  <1>2. \A x : Contains(Append(s, e), x) <=> Contains(s, x) \/ x = e
    BY <1>1 DEF Contains
  <1>3. ASSUME IsInjective(s), ~Contains(s, e)
        PROVE  IsInjective(Append(s, e))
    BY <1>1, <1>3 DEF IsInjective, Contains
  <1> QED
    BY <1>1, <1>2, <1>3

\* ... the first one was taken ...
LEMMA ContainsTail ==
    ASSUME NEW S, NEW s \in Seq(S), s # <<>>
    PROVE  /\ Tail(s) \in Seq(S) /\ Head(s) \in S /\ Contains(s, Head(s))
           /\ \A x : Contains(Tail(s), x) => Contains(s, x)
           /\ IsInjective(s) => IsInjective(Tail(s)) /\ ~Contains(Tail(s), Head(s))
  <1>1. /\ Tail(s) \in Seq(S) /\ Head(s) \in S /\ Len(s) \in Nat /\ Len(s) # 0
        /\ Len(Tail(s)) = Len(s) - 1 /\ Head(s) = s[1]
        /\ \A i \in 1 .. Len(s) - 1 : Tail(s)[i] = s[i + 1]
    OBVIOUS
  <1>2. \A x : Contains(Tail(s), x) => Contains(s, x)
    BY <1>1 DEF Contains
  <1>3. ASSUME IsInjective(s)
        PROVE  IsInjective(Tail(s)) /\ ~Contains(Tail(s), Head(s))
    BY <1>1, <1>3 DEF IsInjective, Contains
  <1> QED
    BY <1>1, <1>2, <1>3 DEF Contains

\* ... or any other one.
LEMMA ContainsRemoved ==
    ASSUME NEW S, NEW s \in Seq(S), NEW i \in DOMAIN s
    PROVE  /\ RemoveAt(s, i) \in Seq(S) /\ s[i] \in S /\ Contains(s, s[i])
           /\ \A x : Contains(RemoveAt(s, i), x) => Contains(s, x)
           /\ IsInjective(s) => IsInjective(RemoveAt(s, i)) /\ ~Contains(RemoveAt(s, i), s[i])
  <1> DEFINE r == RemoveAt(s, i)
             old(k) == IF k < i THEN k ELSE k + 1
  <1>1. /\ r \in Seq(S) /\ Len(r) = Len(s) - 1 /\ Len(s) \in Nat /\ i \in 1 .. Len(s)
        /\ \A j \in 1 .. Len(s) - 1 : r[j] = s[old(j)]
    <2>1. r \in Seq(S) /\ Len(r) = Len(s) - 1
          /\ \A j \in 1 .. Len(s) - 1 : r[j] = IF j < i THEN s[j] ELSE s[j + 1]
      BY RemoveAtIs
    <2>2. Len(s) \in Nat /\ i \in 1 .. Len(s)
      OBVIOUS
    <2> HIDE DEF r
    <2>3. ASSUME NEW j \in 1 .. Len(s) - 1
          PROVE  r[j] = s[old(j)]
      <3>1. CASE j < i
        BY <2>1, <3>1
      <3>2. CASE ~(j < i)
        BY <2>1, <3>2
      <3> QED
        BY <3>1, <3>2
    <2> QED
      BY <2>1, <2>2, <2>3
  <1> HIDE DEF r
  <1>2. \A k \in 1 .. Len(s) - 1 : old(k) \in 1 .. Len(s) /\ old(k) # i
    BY <1>1
  <1>3. \A k, l \in 1 .. Len(s) - 1 : old(k) = old(l) => k = l
    BY <1>1
  <1> HIDE DEF old
  <1>4. \A x : Contains(r, x) => Contains(s, x)
    BY <1>1, <1>2 DEF Contains
  <1>5. ASSUME IsInjective(s)
        PROVE  IsInjective(r) /\ ~Contains(r, s[i])
    BY <1>1, <1>2, <1>3, <1>5 DEF IsInjective, Contains
  <1>6. s[i] \in S /\ Contains(s, s[i])
    BY <1>1 DEF Contains
  <1> QED
    BY <1>1, <1>4, <1>5, <1>6 DEF r

\* The order in a list after an element was added, ...
LEMMA OrderedAppend ==
    ASSUME NEW s \in Seq(Calls), NEW e \in Calls, NEW k, NEW S, Ordered(s, k, S),
           e \in S => \A x \in Calls : Contains(s, x) /\ KindOf(x) = k => x \in S
    PROVE  Ordered(Append(s, e), k, S)
  <1> DEFINE r == Append(s, e)
  <1>1. /\ Len(r) = Len(s) + 1 /\ Len(s) \in Nat /\ DOMAIN r = 1 .. Len(r) /\ DOMAIN s = 1 .. Len(s)
        /\ \A i \in 1 .. Len(s) : r[i] = s[i] /\ s[i] \in Calls
        /\ r[Len(s) + 1] = e
    OBVIOUS
  <1> HIDE DEF r
  <1> SUFFICES ASSUME NEW i \in DOMAIN r, NEW j \in DOMAIN r, i < j, r[j] \in S, KindOf(r[i]) = k
               PROVE  r[i] \in S
    BY DEF Ordered, r
  <1>2. i \in DOMAIN s /\ r[i] = s[i] /\ s[i] \in Calls /\ Contains(s, s[i])
    BY <1>1 DEF Contains
  <1>3. CASE j \in DOMAIN s
    BY <1>1, <1>2, <1>3 DEF Ordered
  <1>4. CASE j = Len(s) + 1
    BY <1>1, <1>2, <1>4
  <1> QED
    BY <1>1, <1>3, <1>4

\* ... the first one was taken ...
LEMMA OrderedTail ==
    ASSUME NEW s \in Seq(Calls), s # <<>>, NEW k, NEW S, Ordered(s, k, S)
    PROVE  /\ Ordered(Tail(s), k, S)
           /\ KindOf(Head(s)) = k => \A x \in Calls : Contains(Tail(s), x) /\ x \in S => Head(s) \in S
  <1> DEFINE r == Tail(s)
  <1>1. /\ Len(r) = Len(s) - 1 /\ Len(s) \in Nat /\ Len(s) # 0 /\ Head(s) = s[1]
        /\ DOMAIN r = 1 .. Len(r) /\ DOMAIN s = 1 .. Len(s)
        /\ \A i \in 1 .. Len(r) : r[i] = s[i + 1]
    OBVIOUS
  <1> HIDE DEF r
  <1>2. Ordered(r, k, S)
    <2> SUFFICES ASSUME NEW i \in DOMAIN r, NEW j \in DOMAIN r, i < j, r[j] \in S, KindOf(r[i]) = k
                 PROVE  r[i] \in S
      BY DEF Ordered
    <2>1. i + 1 \in DOMAIN s /\ j + 1 \in DOMAIN s /\ i + 1 < j + 1
      BY <1>1
    <2> QED
      BY <1>1, <2>1 DEF Ordered
  <1>3. ASSUME KindOf(Head(s)) = k, NEW x \in Calls, Contains(r, x), x \in S
        PROVE  Head(s) \in S
    <2>1. PICK i \in 1 .. Len(r) : r[i] = x
      BY <1>3 DEF Contains
    <2>2. 1 \in DOMAIN s /\ i + 1 \in DOMAIN s /\ 1 < i + 1 /\ s[i + 1] = x
      BY <1>1, <2>1
    <2> QED
      BY <1>1, <1>3, <2>2 DEF Ordered
  <1> QED
    BY <1>2, <1>3 DEF r

\* ... or any other one.
LEMMA OrderedRemoved ==
    ASSUME NEW s \in Seq(Calls), NEW e \in DOMAIN s, NEW k, NEW S, Ordered(s, k, S)
    PROVE  Ordered(RemoveAt(s, e), k, S)
  <1> DEFINE r == RemoveAt(s, e)
  <1>1. /\ \A i \in DOMAIN r : From(i, e) \in DOMAIN s /\ r[i] = s[From(i, e)]
        /\ \A i, j \in DOMAIN r : i < j <=> From(i, e) < From(j, e)
    BY FromIs
  <1> HIDE DEF r
  <1>2. Ordered(r, k, S)
    BY <1>1 DEF Ordered
  <1> QED
    BY <1>2 DEF r

-----------------------------------------------------------------------------
(* The queues. *)

\* What Contains says of a list that did not change its length or elements is plain;
\* a message belongs to a caller and has a number.
LEMMA QueueTypes ==
    ASSUME Basics
    PROVE  /\ bus \in Seq(Calls) /\ mac \in Seq(Calls) /\ rx \in Seq(Calls) /\ tx \in Seq(Calls)
           /\ kmsg \in [pc : {"asleep", "pop", "find", "indication", "signal"},
                        msg : Calls \cup {None}, node : Calls \cup {None}]
           /\ older \in [Callers -> SUBSET Calls]
  BY DEF Basics, TypeOK

\* A step of a caller: it sends its request or nothing, and what is sent before a call
\* is written down when the call begins, until it returns.
LEMMA QueueCaller ==
    ASSUME Basics, Basics', QueueInv, UNCHANGED <<mac, rx, kmsg>>,
           \A x \in Calls : Sent(x) => Sent(x)',
           \A d \in Callers : \/ older'[d] \in {older[d], {}}
                              \/ older'[d] = {x \in Calls : KindOf(x) = Kind[d] /\ Sent(x)},
           \/ bus' = bus
           \/ \E x \in Calls : bus' = Append(bus, x) /\ ~Sent(x) /\ Sent(x)',
           OwnOlder'
    PROVE  QueueInv'
  <1>1. /\ bus \in Seq(Calls) /\ older \in [Callers -> SUBSET Calls]
        /\ \A d \in Callers : older'[d] \subseteq Calls
    BY QueueTypes
  <1>2. \A x : InHand(x)' = InHand(x)
    BY DEF InHand
  <1>3. ASSUME NEW d \in Callers, NEW x \in older'[d]
        PROVE  KindOf(x) = Kind[d] /\ Sent(x) /\ x \in Calls
    BY <1>1, <1>3 DEF QueueInv, OlderSent
  <1>4. OlderSent'
    BY <1>3 DEF OlderSent, KindOf
  <1>5. ASSUME NEW d \in Callers
        PROVE  FirstAre(Kind[d], older'[d])
    <2>1. CASE older'[d] = older[d]
      BY <2>1 DEF QueueInv, InOrder
    <2>2. CASE older'[d] = {}
      BY <2>2 DEF FirstAre, Ordered, Before, HandBefore
    <2>3. CASE older'[d] = {x \in Calls : KindOf(x) = Kind[d] /\ Sent(x)}
      <3>1. \A x \in Calls : InFlight(x) /\ KindOf(x) = Kind[d] => x \in older'[d]
        BY <2>3 DEF QueueInv, TokensSent
      <3>2. /\ \A i \in DOMAIN rx : rx[i] \in Calls /\ InFlight(rx[i])
            /\ \A i \in DOMAIN mac : mac[i] \in Calls /\ InFlight(mac[i])
            /\ \A i \in DOMAIN bus : bus[i] \in Calls /\ InFlight(bus[i])
        <4>1. /\ \A i \in DOMAIN rx : rx[i] \in Calls /\ Contains(rx, rx[i])
              /\ \A i \in DOMAIN mac : mac[i] \in Calls /\ Contains(mac, mac[i])
              /\ \A i \in DOMAIN bus : bus[i] \in Calls /\ Contains(bus, bus[i])
          BY QueueTypes DEF Contains
        <4> QED
          BY <4>1 DEF InFlight
      <3>3. \A x \in Calls : InHand(x) \/ Contains(rx, x) \/ Contains(mac, x) => InFlight(x)
        BY DEF InFlight
      <3> QED
        BY <3>1, <3>2, <3>3 DEF FirstAre, Ordered, Before, HandBefore
    <2> QED
      BY <2>1, <2>2, <2>3
  <1>6. CASE bus' = bus
    <2>1. TokensApart'
      BY <1>2, <1>6 DEF QueueInv, TokensApart
    <2>2. TokensSent'
      BY <1>2, <1>6 DEF QueueInv, TokensSent, InFlight
    <2>3. ASSUME NEW d \in Callers
          PROVE  FirstAre(Kind[d], older[d])'
      <3>1. FirstAre(Kind[d], older'[d])
        BY <1>5
      <3> QED
        BY <1>2, <1>6, <3>1 DEF FirstAre, Ordered, Before, HandBefore
    <2> QED
      BY <1>4, <2>1, <2>2, <2>3 DEF QueueInv, InOrder
  <1>7. CASE \E x \in Calls : bus' = Append(bus, x) /\ ~Sent(x) /\ Sent(x)'
    <2>1. PICK new \in Calls : bus' = Append(bus, new) /\ ~Sent(new) /\ Sent(new)'
      BY <1>7
    <2>2. ~InHand(new) /\ ~Contains(rx, new) /\ ~Contains(mac, new) /\ ~Contains(bus, new)
      BY <2>1 DEF QueueInv, TokensSent, InFlight
    <2>3. /\ \A x : Contains(bus', x) <=> Contains(bus, x) \/ x = new
          /\ IsInjective(bus')
      BY <1>1, <2>1, <2>2, ContainsAppend DEF QueueInv, TokensApart
    <2>4. TokensApart'
      BY <1>2, <2>2, <2>3 DEF QueueInv, TokensApart
    <2>5. TokensSent'
      BY <1>2, <2>1, <2>3 DEF QueueInv, TokensSent, InFlight
    <2>6. ASSUME NEW d \in Callers
          PROVE  FirstAre(Kind[d], older[d])'
      <3>1. FirstAre(Kind[d], older'[d]) /\ new \notin older'[d]
        BY <1>3, <1>5, <2>1
      <3>2. Ordered(bus', Kind[d], older'[d])
        BY <1>1, <2>1, <3>1, OrderedAppend DEF FirstAre
      <3> QED
        BY <1>2, <2>3, <3>1, <3>2 DEF FirstAre, Ordered, Before, HandBefore
    <2> QED
      BY <1>4, <2>4, <2>5, <2>6 DEF QueueInv, InOrder
  <1> QED
    BY <1>6, <1>7

\* A message moves on, or is taken by kmsgbk.
LEMMA QueueMoves ==
    ASSUME Basics, QueueInv,
           \/ CoreTakes \/ mr_kmsg_fwd \/ Wake \/ PopMessage \/ FindNode
           \/ rwnx_handle_recv_msg \/ SignalCaller \/ UNCHANGED vars
    PROVE  QueueInv' /\ \A x \in Calls : InFlight(x)' => InFlight(x)
  <1>1. /\ UNCHANGED <<caller, older>>
        /\ bus \in Seq(Calls) /\ mac \in Seq(Calls) /\ rx \in Seq(Calls)
        /\ kmsg \in [pc : {"asleep", "pop", "find", "indication", "signal"},
                     msg : Calls \cup {None}, node : Calls \cup {None}]
    BY QueueTypes DEF CoreTakes, mr_kmsg_fwd, Wake, PopMessage, FindNode, SignalCaller,
                      rwnx_handle_recv_msg, vars
  <1>2. /\ IsInjective(bus) /\ IsInjective(mac) /\ IsInjective(rx)
        /\ kmsg.pc = "find" => kmsg.msg \in Calls
        /\ \A x \in Calls : /\ ~(Contains(bus, x) /\ Contains(mac, x))
                            /\ ~(Contains(bus, x) /\ Contains(rx, x))
                            /\ ~(Contains(mac, x) /\ Contains(rx, x))
                            /\ InHand(x) =>
                                  ~Contains(bus, x) /\ ~Contains(mac, x) /\ ~Contains(rx, x)
    BY DEF QueueInv, TokensApart
  <1>3. OlderSent' /\ OwnOlder' /\ \A x \in Calls : Sent(x)' = Sent(x)
    BY <1>1 DEF QueueInv, OlderSent, OwnOlder, Sent, IsAt
  <1>4. \A x \in Calls : InFlight(x) => Sent(x)
    BY DEF QueueInv, TokensSent
  <1>5. \A d \in Callers : FirstAre(Kind[d], older[d])
    BY DEF QueueInv, InOrder
  <1>6. CASE CoreTakes
    <2>1. bus # <<>> /\ bus' = Tail(bus) /\ UNCHANGED <<rx, kmsg>>
      BY <1>6 DEF CoreTakes
    <2>2. PICK x0 \in Calls : x0 = Head(bus)
      BY <1>1, <2>1
    <2>3. mac' = Append(mac, x0)
      BY <1>6, <2>2 DEF CoreTakes
    <2>4. /\ Contains(bus, x0) /\ ~Contains(bus', x0) /\ IsInjective(bus')
          /\ \A x : Contains(bus', x) => Contains(bus, x)
      BY <1>1, <1>2, <2>1, <2>2, ContainsTail
    <2>5. /\ IsInjective(mac')
          /\ \A x : Contains(mac', x) <=> Contains(mac, x) \/ x = x0
      BY <1>1, <1>2, <2>3, <2>4, ContainsAppend
    <2>6. \A x : InHand(x)' = InHand(x) /\ Contains(rx', x) = Contains(rx, x)
      BY <2>1 DEF InHand
    <2>7. TokensApart'
      BY <1>2, <2>1, <2>4, <2>5, <2>6 DEF TokensApart
    <2>8. \A x \in Calls : InFlight(x)' => InFlight(x)
      BY <2>4, <2>5, <2>6 DEF InFlight
    <2>9. ASSUME NEW d \in Callers
          PROVE  FirstAre(Kind[d], older[d])'
      <3> DEFINE k == Kind[d]
                 S == older[d]
      <3>1. FirstAre(k, S)
        BY <1>5
      <3> HIDE DEF k, S
      <3>2. Ordered(bus', k, S) /\ (KindOf(x0) = k => \A x \in Calls : Contains(bus', x) /\ x \in S => x0 \in S)
        BY <1>1, <2>1, <2>2, <3>1, OrderedTail DEF FirstAre
      <3>3. Ordered(mac', k, S)
        <4>1. x0 \in S => \A x \in Calls : Contains(mac, x) /\ KindOf(x) = k => x \in S
          BY <2>4, <3>1 DEF FirstAre, Before
        <4> QED
          BY <1>1, <2>3, <3>1, <4>1, OrderedAppend DEF FirstAre
      <3>4. Before(rx', mac', k, S) /\ Before(rx', bus', k, S) /\ Before(mac', bus', k, S)
        BY <2>4, <2>5, <2>6, <3>1, <3>2 DEF FirstAre, Before
      <3>5. \A x \in Calls : InHand(x) /\ KindOf(x) = k =>
               \A y \in Calls : (Contains(rx, y) \/ Contains(mac, y) \/ Contains(bus, y)) /\ y \in S
                                => x \in S
        BY <3>1 DEF FirstAre, HandBefore
      <3>6. \A x, y \in Calls : InHand(x)' /\ KindOf(x) = k /\ y \in S
                    /\ (Contains(rx', y) \/ Contains(mac', y) \/ Contains(bus', y)) => x \in S
        BY <2>4, <2>5, <2>6, <3>5
      <3>7. S = older'[d]
        BY <1>1 DEF S
      <3>8. Ordered(rx', k, S)
        BY <2>1, <3>1 DEF FirstAre
      <3>9. FirstAre(k, older[d])'
        BY <3>2, <3>3, <3>4, <3>6, <3>7, <3>8 DEF FirstAre, HandBefore, Ordered, Before
      <3> QED
        BY <3>9 DEF k
    <2> QED
      BY <1>3, <1>4, <2>7, <2>8, <2>9 DEF QueueInv, TokensSent, InOrder
  <1>7. CASE mr_kmsg_fwd
    <2>1. PICK i \in DOMAIN mac : Confirmable(i) /\ mac' = RemoveAt(mac, i) /\ rx' = Append(rx, mac[i])
      BY <1>7 DEF mr_kmsg_fwd
    <2>2. UNCHANGED <<bus, kmsg>>
      BY <1>7 DEF mr_kmsg_fwd
    <2>3. PICK x0 \in Calls : x0 = mac[i]
      BY <1>1, <2>1
    <2>4. /\ Contains(mac, x0) /\ ~Contains(mac', x0) /\ IsInjective(mac')
          /\ \A x : Contains(mac', x) => Contains(mac, x)
      BY <1>1, <1>2, <2>1, <2>3, ContainsRemoved
    <2>5. /\ IsInjective(rx')
          /\ \A x : Contains(rx', x) <=> Contains(rx, x) \/ x = x0
      BY <1>1, <1>2, <2>1, <2>3, <2>4, ContainsAppend
    <2>6. \A x : InHand(x)' = InHand(x) /\ Contains(bus', x) = Contains(bus, x)
      BY <2>2 DEF InHand
    <2>7. TokensApart'
      BY <1>2, <2>2, <2>4, <2>5, <2>6 DEF TokensApart
    <2>8. \A x \in Calls : InFlight(x)' => InFlight(x)
      BY <2>4, <2>5, <2>6 DEF InFlight
    <2>9. ASSUME NEW d \in Callers
          PROVE  FirstAre(Kind[d], older[d])'
      <3> DEFINE k == Kind[d]
                 S == older[d]
      <3>1. FirstAre(k, S) /\ \A x \in S : KindOf(x) = k
        BY <1>5 DEF QueueInv, OlderSent
      <3>2. S = older'[d]
        BY <1>1
      <3> HIDE DEF k, S
      <3>3. Ordered(mac', k, S)
        BY <1>1, <2>1, <3>1, OrderedRemoved DEF FirstAre
      <3>4. Ordered(rx', k, S)
        <4>1. x0 \in S => \A x \in Calls : Contains(rx, x) /\ KindOf(x) = k => x \in S
          BY <2>4, <3>1 DEF FirstAre, Before
        <4> QED
          BY <1>1, <2>1, <2>3, <3>1, <4>1, OrderedAppend DEF FirstAre
      <3>5. ASSUME KindOf(x0) = k, NEW y \in Calls, Contains(mac', y), y \in S
            PROVE  x0 \in S
        <4>1. Contains(mac, y) /\ y # x0 /\ KindOf(y) = k
          BY <2>4, <3>1, <3>5
        <4>2. PICK j \in DOMAIN mac : mac[j] = y
          BY <1>1, <4>1 DEF Contains
        <4>3. i \in Nat /\ j \in Nat /\ j # i /\ j >= 1
          BY <1>1, <2>3, <4>1, <4>2
        <4>4. ~(j < i)
          <5>1. j < i => j \in 1 .. i - 1
            BY <4>3
          <5> QED
            BY <2>1, <2>3, <3>5, <4>1, <4>2, <5>1 DEF Confirmable
        <4>5. i < j
          BY <4>3, <4>4
        <4> QED
          BY <2>3, <3>1, <3>5, <4>2, <4>5 DEF FirstAre, Ordered
      <3>6. Before(rx', mac', k, S) /\ Before(rx', bus', k, S) /\ Before(mac', bus', k, S)
        BY <2>4, <2>5, <2>6, <3>1, <3>5 DEF FirstAre, Before
      <3>7. \A x \in Calls : InHand(x) /\ KindOf(x) = k =>
               \A y \in Calls : (Contains(rx, y) \/ Contains(mac, y) \/ Contains(bus, y)) /\ y \in S
                                => x \in S
        BY <3>1 DEF FirstAre, HandBefore
      <3>8. \A x, y \in Calls : InHand(x)' /\ KindOf(x) = k /\ y \in S
                    /\ (Contains(rx', y) \/ Contains(mac', y) \/ Contains(bus', y)) => x \in S
        BY <2>4, <2>5, <2>6, <3>7
      <3>9. Ordered(bus', k, S)
        BY <2>2, <3>1 DEF FirstAre
      <3>10. FirstAre(k, older[d])'
        BY <3>2, <3>3, <3>4, <3>6, <3>8, <3>9 DEF FirstAre, HandBefore, Ordered, Before
      <3> QED
        BY <3>10 DEF k
    <2> QED
      BY <1>3, <1>4, <2>7, <2>8, <2>9 DEF QueueInv, TokensSent, InOrder
  <1>8. CASE PopMessage /\ rx # <<>>
    <2>1. /\ kmsg.pc = "pop" /\ rx' = Tail(rx) /\ UNCHANGED <<bus, mac>>
          /\ kmsg'.pc = "find" /\ kmsg'.msg = Head(rx)
      BY <1>1, <1>8 DEF PopMessage
    <2>2. /\ Contains(rx, Head(rx)) /\ ~Contains(rx', Head(rx)) /\ IsInjective(rx')
          /\ Head(rx) \in Calls
          /\ \A x : Contains(rx', x) => Contains(rx, x)
      BY <1>1, <1>2, <1>8, <2>1, ContainsTail
    <2>3. \A x : ~InHand(x) /\ (InHand(x)' <=> x = Head(rx))
      BY <2>1 DEF InHand
    <2>4. TokensApart'
      BY <1>2, <2>1, <2>2, <2>3 DEF TokensApart
    <2>5. \A x \in Calls : InFlight(x)' => InFlight(x)
      BY <2>1, <2>2, <2>3 DEF InFlight
    <2>6. ASSUME NEW d \in Callers
          PROVE  FirstAre(Kind[d], older[d])'
      <3> DEFINE k == Kind[d]
                 S == older[d]
      <3>1. FirstAre(k, S)
        BY <1>5
      <3>2. S = older'[d]
        BY <1>1
      <3> HIDE DEF k, S
      <3>3. Ordered(rx', k, S)
            /\ (KindOf(Head(rx)) = k => \A x \in Calls : Contains(rx', x) /\ x \in S => Head(rx) \in S)
        BY <1>1, <1>8, <2>1, <3>1, OrderedTail DEF FirstAre
      <3>4. Before(rx', mac', k, S) /\ Before(rx', bus', k, S) /\ Before(mac', bus', k, S)
        BY <2>1, <2>2, <3>1 DEF FirstAre, Before
      <3>5. \A x, y \in Calls : InHand(x)' /\ KindOf(x) = k /\ y \in S
                    /\ (Contains(rx', y) \/ Contains(mac', y) \/ Contains(bus', y)) => x \in S
        BY <2>1, <2>2, <2>3, <3>1, <3>3 DEF FirstAre, Before
      <3>6. Ordered(mac', k, S) /\ Ordered(bus', k, S)
        BY <2>1, <3>1 DEF FirstAre
      <3>7. FirstAre(k, older[d])'
        BY <3>2, <3>3, <3>4, <3>5, <3>6 DEF FirstAre, HandBefore, Ordered, Before
      <3> QED
        BY <3>7 DEF k
    <2> QED
      BY <1>3, <1>4, <2>4, <2>5, <2>6 DEF QueueInv, TokensSent, InOrder
  <1>9. CASE \/ Wake \/ (PopMessage /\ rx = <<>>) \/ FindNode
             \/ rwnx_handle_recv_msg \/ SignalCaller \/ UNCHANGED vars
    <2>1. UNCHANGED <<bus, mac, rx>> /\ (kmsg'.pc = "find" => kmsg' = kmsg)
      <3>1. CASE Wake \/ (PopMessage /\ rx = <<>>) \/ rwnx_handle_recv_msg \/ SignalCaller
        BY <1>1, <3>1 DEF Wake, PopMessage, SignalCaller, rwnx_handle_recv_msg, AfterMessage, Asleep
      <3>2. CASE FindNode
        <4>1. UNCHANGED <<bus, mac, rx>>
          BY <3>2 DEF FindNode
        <4>2. \/ kmsg' = [kmsg EXCEPT !.pc = "indication"]
              \/ \E i \in Matching : kmsg' = [kmsg EXCEPT !.pc = "signal", !.node = tx[i]]
          BY <3>2 DEF FindNode
        <4>3. kmsg'.pc \in {"indication", "signal"}
          BY <1>1, <4>2
        <4> QED
          BY <4>1, <4>3
      <3>3. CASE UNCHANGED vars
        BY <3>3 DEF vars
      <3> QED
        BY <1>9, <3>1, <3>2, <3>3
    <2>2. \A x : InHand(x)' => InHand(x)
      BY <2>1 DEF InHand
    <2>3. TokensApart'
      BY <1>2, <2>1, <2>2 DEF TokensApart
    <2>4. \A x \in Calls : InFlight(x)' => InFlight(x)
      BY <2>1, <2>2 DEF InFlight
    <2>5. ASSUME NEW d \in Callers
          PROVE  FirstAre(Kind[d], older[d])'
      BY <1>1, <1>5, <2>1, <2>2 DEF FirstAre, Ordered, Before, HandBefore
    <2> QED
      BY <1>3, <1>4, <2>3, <2>4, <2>5 DEF QueueInv, TokensSent, InOrder
  <1> QED
    BY <1>6, <1>7, <1>8, <1>9

-----------------------------------------------------------------------------
(* Counting nodes and messages. *)

LEMMA CallsFinite == IsFiniteSet(Calls)
  <1> DEFINE Of(c) == {c} \X (1 .. MaxCalls[c])
             All == {Of(c) : c \in Callers}
             f == [c \in Callers |-> Of(c)]
  <1>1. \A T \in All : IsFiniteSet(T)
    <2> SUFFICES ASSUME NEW c \in Callers PROVE IsFiniteSet(Of(c))
      OBVIOUS
    <2>1. IsFiniteSet({c}) /\ IsFiniteSet(1 .. MaxCalls[c])
      <3>1. 1 \in Int /\ MaxCalls[c] \in Int
        BY CallersAssumption
      <3> QED
        BY <3>1, FS_Singleton, FS_Interval
    <2> QED
      BY <2>1, FS_Product
  <1>2. f \in Surjection(Callers, All)
    BY DEF Surjection
  <1>3. IsFiniteSet(All)
    BY <1>2, CallersAssumption, FS_Surjection
  <1>4. IsFiniteSet(UNION All)
    BY <1>1, <1>3, FS_UNION
  <1> QED
    BY <1>4 DEF Calls

\* Sets of calls have numbers of elements, which grow with them.
LEMMA CallSets ==
    /\ \A S \in SUBSET Calls : Cardinality(S) \in Nat
    /\ \A T \in SUBSET Calls : \A S \in SUBSET T : Cardinality(S) <= Cardinality(T)
    /\ \A S \in SUBSET Calls : \A x \in S : Cardinality(S \ {x}) = Cardinality(S) - 1
    /\ \A S \in SUBSET Calls : \A x \in Calls \ S : Cardinality(S \cup {x}) = Cardinality(S) + 1
  <1>1. \A S \in SUBSET Calls : IsFiniteSet(S)
    BY CallsFinite, FS_Subset
  <1>2. \A S \in SUBSET Calls : Cardinality(S) \in Nat
    BY <1>1, FS_CardinalityType
  <1>3. \A T \in SUBSET Calls : \A S \in SUBSET T : Cardinality(S) <= Cardinality(T)
    BY <1>1, FS_Subset
  <1>4. \A S \in SUBSET Calls : \A x \in S : Cardinality(S \ {x}) = Cardinality(S) - 1
    BY <1>1, FS_RemoveElement
  <1>5. \A S \in SUBSET Calls : \A x \in Calls \ S : Cardinality(S \cup {x}) = Cardinality(S) + 1
    BY <1>1, FS_AddElement
  <1> QED
    BY <1>2, <1>3, <1>4, <1>5

\* What is counted are sets of calls.
LEMMA CountedAreCalls ==
    ASSUME Basics
    PROVE  /\ \A k : Coming(k) \in SUBSET Calls /\ NodesIn(tx, k) \in SUBSET Calls
           /\ \A c \in Callers : OldComing(c) \in SUBSET Calls
           /\ \A i : Ahead(tx, i) \in SUBSET Calls
           /\ \A i \in DOMAIN tx : tx[i] \in Calls /\ tx[i][1] \in Callers
  <1>1. \A c \in Callers : older[c] \in SUBSET Calls
    BY QueueTypes
  <1>2. \A i \in DOMAIN tx : tx[i] \in Calls
    BY QueueTypes
  <1> QED
    BY <1>1, <1>2, CallsAre DEF Coming, NodesIn, OldComing, Ahead

\* A step that leaves the list alone, and after which no more messages come.
LEMMA CountsKept ==
    ASSUME Basics, Basics', Enough, NoneLeft, tx' = tx, gaveUp \subseteq gaveUp',
           \A x \in Calls : KindOf(x) \notin gaveUp' /\ (InFlight(x)' \/ IsAt(x, "push")') =>
                InFlight(x) \/ IsAt(x, "push"),
           \A c \in Callers : \A x \in older'[c] : x \in older[c] /\ (InFlight(x)' => InFlight(x))
    PROVE  Enough' /\ NoneLeft'
  <1>1. ASSUME NEW c \in Callers, Kind[c] \notin gaveUp'
        PROVE  (Cardinality(Coming(Kind[c])) <= Cardinality(NodesIn(tx, Kind[c])))'
    <2>1. Kind[c] \notin gaveUp
      BY <1>1
    <2>2. Coming(Kind[c])' \subseteq Coming(Kind[c])
      BY <1>1 DEF Coming, KindOf
    <2>3. NodesIn(tx, Kind[c])' = NodesIn(tx, Kind[c])
      BY DEF NodesIn, KindOf
    <2>4. /\ Coming(Kind[c]) \in SUBSET Calls /\ NodesIn(tx, Kind[c]) \in SUBSET Calls
      BY CountedAreCalls
    <2>5. Cardinality(Coming(Kind[c])') <= Cardinality(Coming(Kind[c]))
      BY <2>2, <2>4, CallSets
    <2>6. Cardinality(Coming(Kind[c])) <= Cardinality(NodesIn(tx, Kind[c]))
      BY <2>1 DEF Enough
    <2>7. /\ Cardinality(Coming(Kind[c])') \in Nat /\ Cardinality(Coming(Kind[c])) \in Nat
          /\ Cardinality(NodesIn(tx, Kind[c])) \in Nat
      BY <2>2, <2>4, CallSets
    <2>8. Cardinality(Coming(Kind[c])') <= Cardinality(NodesIn(tx, Kind[c]))
      BY <2>5, <2>6, <2>7
    <2> QED
      BY <2>3, <2>8
  <1>2. ASSUME NEW i \in DOMAIN tx, Good(tx[i])'
        PROVE  (Cardinality(OldComing(tx[i][1])) <= Cardinality(Ahead(tx, i)))'
    <2>1. PICK c \in Callers : c = tx[i][1]
      BY CountedAreCalls
    <2>2. Good(tx[i])
      BY <1>2 DEF Good, KindOf
    <2>3. OldComing(c)' \subseteq OldComing(c)
      BY DEF OldComing
    <2>4. Ahead(tx, i)' = Ahead(tx, i)
      BY DEF Ahead, KindOf
    <2>5. OldComing(c) \in SUBSET Calls /\ Ahead(tx, i) \in SUBSET Calls
      BY CountedAreCalls
    <2>6. Cardinality(OldComing(c)') <= Cardinality(OldComing(c))
      BY <2>3, <2>5, CallSets
    <2>7. Cardinality(OldComing(c)) <= Cardinality(Ahead(tx, i))
      BY <2>1, <2>2 DEF NoneLeft
    <2>8. /\ Cardinality(OldComing(c)') \in Nat /\ Cardinality(OldComing(c)) \in Nat
          /\ Cardinality(Ahead(tx, i)) \in Nat
      BY <2>3, <2>5, CallSets
    <2>9. Cardinality(OldComing(c)') <= Cardinality(Ahead(tx, i))
      BY <2>6, <2>7, <2>8
    <2> QED
      BY <2>1, <2>4, <2>9
  <1> QED
    BY <1>1, <1>2 DEF Enough, NoneLeft

\* What a list of nodes keeps when one is taken out.
LEMMA NodesRemoved ==
    ASSUME NEW s \in Seq(Calls), NEW r \in DOMAIN s
    PROVE  /\ \A k : k # KindOf(s[r]) => NodesIn(RemoveAt(s, r), k) = NodesIn(s, k)
           /\ \A i \in DOMAIN RemoveAt(s, r) : KindOf(s[From(i, r)]) # KindOf(s[r]) =>
                 Ahead(RemoveAt(s, r), i) = Ahead(s, From(i, r))
           /\ (\A j \in DOMAIN s : s[j] = s[r] => j = r) =>
                 /\ NodesIn(RemoveAt(s, r), KindOf(s[r])) = NodesIn(s, KindOf(s[r])) \ {s[r]}
                 /\ \A i \in DOMAIN RemoveAt(s, r) :
                       Ahead(RemoveAt(s, r), i) = Ahead(s, From(i, r)) \ {s[r]}
  <1> DEFINE t == RemoveAt(s, r)
  <1>1. /\ t \in Seq(Calls)
        /\ \A i \in DOMAIN t : From(i, r) \in DOMAIN s /\ From(i, r) # r /\ t[i] = s[From(i, r)]
        /\ \A i, j \in DOMAIN t : i < j <=> From(i, r) < From(j, r)
        /\ \A j \in DOMAIN s : j # r => \E i \in DOMAIN t : From(i, r) = j
    BY FromIs
  <1> HIDE DEF t
  <1>2. \A x : (Contains(s, x) <=> \E j \in DOMAIN s : s[j] = x)
               /\ (Contains(t, x) <=> \E j \in DOMAIN t : t[j] = x)
    BY <1>1 DEF Contains
  <1>3. \A x : x # s[r] => (Contains(t, x) <=> Contains(s, x))
    BY <1>1, <1>2
  <1>4. ASSUME NEW i \in DOMAIN t
        PROVE  \A x : x # s[r] => ((\E j \in DOMAIN t : j < i /\ t[j] = x)
                                   <=> (\E j \in DOMAIN s : j < From(i, r) /\ s[j] = x))
    <2> SUFFICES ASSUME NEW x, x # s[r]
                 PROVE  (\E j \in DOMAIN t : j < i /\ t[j] = x)
                        <=> (\E j \in DOMAIN s : j < From(i, r) /\ s[j] = x)
      OBVIOUS
    <2>1. ASSUME NEW j \in DOMAIN t, j < i, t[j] = x
          PROVE  \E l \in DOMAIN s : l < From(i, r) /\ s[l] = x
      BY <1>1, <2>1
    <2>2. ASSUME NEW l \in DOMAIN s, l < From(i, r), s[l] = x
          PROVE  \E j \in DOMAIN t : j < i /\ t[j] = x
      <3>1. PICK j \in DOMAIN t : From(j, r) = l
        BY <1>1, <2>2
      <3> QED
        BY <1>1, <2>2, <3>1
    <2> QED
      BY <2>1, <2>2
  <1>5. \A k : k # KindOf(s[r]) => NodesIn(t, k) = NodesIn(s, k)
    BY <1>3 DEF NodesIn
  <1>6. ASSUME NEW i \in DOMAIN t, KindOf(s[From(i, r)]) # KindOf(s[r])
        PROVE  Ahead(t, i) = Ahead(s, From(i, r))
    BY <1>1, <1>4, <1>6 DEF Ahead
  <1>7. ASSUME \A j \in DOMAIN s : s[j] = s[r] => j = r
        PROVE  /\ NodesIn(t, KindOf(s[r])) = NodesIn(s, KindOf(s[r])) \ {s[r]}
               /\ \A i \in DOMAIN t : Ahead(t, i) = Ahead(s, From(i, r)) \ {s[r]}
    <2>1. \A i \in DOMAIN t : t[i] # s[r]
      BY <1>1, <1>7
    <2>2. NodesIn(t, KindOf(s[r])) = NodesIn(s, KindOf(s[r])) \ {s[r]}
      BY <1>2, <1>3, <2>1 DEF NodesIn
    <2>3. ASSUME NEW i \in DOMAIN t
          PROVE  Ahead(t, i) = Ahead(s, From(i, r)) \ {s[r]}
      BY <1>1, <1>4, <2>1 DEF Ahead
    <2> QED
      BY <2>2, <2>3
  <1> QED
    BY <1>5, <1>6, <1>7 DEF t

-----------------------------------------------------------------------------
(* The steps of a call. *)

\* What was given to a call stays fresh while the call is under way.
LEMMA WrittenKept ==
    ASSUME WrittenFresh, \A x \in Calls : Sent(x) => Sent(x)',
           \A x \in Calls : Good(x)' /\ (x \in sem' \/ IsAt(x, "answered")') =>
               /\ Good(x) /\ (x \in sem \/ IsAt(x, "answered"))
               /\ written'[x] = written[x] /\ older'[x[1]] \subseteq older[x[1]]
    PROVE  WrittenFresh'
  <1> SUFFICES ASSUME NEW x \in Calls, Good(x)', (x \in sem' \/ IsAt(x, "answered")')
               PROVE  Fresh(written[x], x)'
    BY DEF WrittenFresh
  <1>1. /\ Fresh(written[x], x)
        /\ written'[x] = written[x] /\ older'[x[1]] \subseteq older[x[1]]
    BY DEF WrittenFresh
  <1>2. Sent(written[x])'
    <2>1. PICK y \in Calls : y = written[x] /\ Sent(y)
      BY <1>1 DEF Fresh
    <2>2. Sent(y)'
      BY <2>1
    <2> QED
      BY <1>1, <2>1, <2>2 DEF Sent, IsAt
  <1> QED
    BY <1>1, <1>2 DEF Fresh, KindOf

\* A call that goes on.
LEMMA OwnOlderKept ==
    ASSUME Basics, OwnOlder, NEW c \in Callers, caller[c].pc # "idle",
           NEW pc \in {"idle", "wait", "answered", "timed_out", "failed"}, Goto(c, pc),
           \A d \in Callers : d # c => older'[d] = older[d],
           pc = "idle" \/ older'[c] = older[c]
    PROVE  OwnOlder'
  <1>1. \A d \in Callers : /\ caller'[d].n = caller[d].n
                           /\ caller'[d].pc = IF d = c THEN pc ELSE caller[d].pc
    BY GotoIs DEF Basics, TypeOK
  <1> SUFFICES ASSUME NEW x \in Calls, x[2] < caller'[x[1]].n, caller'[x[1]].pc # "idle"
               PROVE  x \in older'[x[1]]
    BY DEF OwnOlder
  <1>2. x[1] \in Callers
    BY CallsAre
  <1>3. x[2] < caller[x[1]].n /\ caller[x[1]].pc # "idle" /\ older'[x[1]] = older[x[1]]
    BY <1>1, <1>2
  <1> QED
    BY <1>3 DEF OwnOlder

LEMMA FreshRegister ==
    ASSUME Basics, Basics', OnePlace, FreshInv, NEW c \in Callers, Register(c)
    PROVE  FreshInv'
  <1>1. PICK new \in Calls : new = <<c, caller[c].n + 1>>
    BY NextIs DEF Register, Basics
  <1>2. /\ new[1] = c /\ caller[c].pc = "idle" /\ ~Sent(new) /\ ~Waits(new)
        /\ \A pc : ~IsAt(new, pc)
        /\ ~IsAt(new, "answered")'
        /\ \/ /\ tx' = Append(tx, new)
              /\ older' = [older EXCEPT ![c] = {d \in Calls : KindOf(d) = Kind[c] /\ Sent(d)}]
              /\ IsAt(new, "push")' /\ caller'[c].pc = "push"
           \/ /\ UNCHANGED <<tx, older>>
              /\ ~IsAt(new, "push")' /\ caller'[c].pc = "idle"
    BY <1>1, Registered
  <1>3. \A x \in Calls : x # new =>
           /\ Sent(x)' <=> Sent(x)
           /\ IsAt(x, "push")' <=> IsAt(x, "push")
           /\ IsAt(x, "answered")' <=> IsAt(x, "answered")
           /\ x[1] = c => ~Waits(x) /\ ~IsAt(x, "push") /\ ~IsAt(x, "answered")
    BY <1>1, OthersStay
  <1>4. /\ UNCHANGED <<sem, written, bus, mac, rx, kmsg, gaveUp>> /\ kmsg.pc = "asleep"
        /\ tx \in Seq(Calls) /\ older \in [Callers -> SUBSET Calls]
        /\ caller[c].n \in Nat /\ caller \in [Callers -> Places]
    BY CallerRuns, QueueTypes DEF Register, Basics, TypeOK, Places
  <1>5. /\ caller'[c].n = caller[c].n + 1
        /\ \A d \in Callers : d # c => caller'[d] = caller[d] /\ older'[d] = older[d]
    <2>1. /\ caller'[c].n = caller[c].n + 1
          /\ \A d \in Callers : d # c => caller'[d] = caller[d]
      BY <1>4 DEF Register, Places
    <2> QED
      BY <1>2, <1>4, <2>1
  <1>6. \A x \in Calls : (InFlight(x)' <=> InFlight(x)) /\ (Good(x)' <=> Good(x))
    BY <1>4 DEF InFlight, InHand, Good, KindOf
  <1>7. \A x \in Calls : Sent(x) => Sent(x)'
    BY <1>2, <1>3
  <1>8. QueueInv'
    <2>1. \A d \in Callers : \/ older'[d] \in {older[d], {}}
                             \/ older'[d] = {x \in Calls : KindOf(x) = Kind[d] /\ Sent(x)}
      <3>1. CASE older' = older
        BY <3>1
      <3>2. CASE older' = [older EXCEPT ![c] = {d \in Calls : KindOf(d) = Kind[c] /\ Sent(d)}]
        <4>1. /\ older'[c] = {d \in Calls : KindOf(d) = Kind[c] /\ Sent(d)}
              /\ \A d \in Callers : d # c => older'[d] = older[d]
          BY <1>4, <3>2
        <4> QED
          BY <4>1
      <3> QED
        BY <1>2, <3>1, <3>2
    <2>2. OwnOlder'
      <3> SUFFICES ASSUME NEW x \in Calls, x[2] < caller'[x[1]].n, caller'[x[1]].pc # "idle"
                   PROVE  x \in older'[x[1]]
        BY DEF OwnOlder
      <3>1. x[1] \in Callers /\ x[2] \in Nat
        <4>1. x[1] \in Callers /\ x[2] \in 1 .. MaxCalls[x[1]] /\ MaxCalls[x[1]] \in Nat
          BY CallsAre, CallersAssumption
        <4> QED
          BY <4>1
      <3>2. CASE x[1] # c
        BY <1>5, <3>1, <3>2 DEF FreshInv, QueueInv, OwnOlder
      <3>3. CASE x[1] = c
        <4>1. older' = [older EXCEPT ![c] = {d \in Calls : KindOf(d) = Kind[c] /\ Sent(d)}]
          BY <1>2, <3>3
        <4>2. Sent(x)
          BY <1>2, <1>4, <1>5, <3>1, <3>3 DEF Sent, IsAt
        <4>3. KindOf(x) = Kind[c]
          BY <3>3 DEF KindOf
        <4> QED
          BY <1>4, <3>3, <4>1, <4>2, <4>3
      <3> QED
        BY <3>2, <3>3
    <2> QED
      BY <1>4, <1>7, <2>1, <2>2, QueueCaller DEF FreshInv
  <1>9. SignalFresh'
    BY <1>4 DEF SignalFresh
  <1>10. WrittenFresh'
    <2> SUFFICES ASSUME NEW x \in Calls, Good(x)', (x \in sem' \/ IsAt(x, "answered")')
                 PROVE  /\ Good(x) /\ (x \in sem \/ IsAt(x, "answered"))
                        /\ written'[x] = written[x] /\ older'[x[1]] \subseteq older[x[1]]
      BY <1>7, WrittenKept DEF FreshInv
    <2>1. Good(x) /\ (x \in sem \/ IsAt(x, "answered")) /\ Sound(x)
      BY <1>2, <1>3, <1>4, <1>6 DEF Sound
    <2>2. Waits(x) \/ IsAt(x, "failed") \/ IsAt(x, "answered")
      BY <2>1 DEF OnePlace, SemWaits
    <2>3. x[1] # c /\ x[1] \in Callers
      BY <1>2, <2>2, CallsAre DEF Waits, IsAt
    <2> QED
      BY <1>4, <1>5, <2>1, <2>3
  <1>11. CASE tx' = tx /\ older' = older /\ ~IsAt(new, "push")'
    <2>1. Enough' /\ NoneLeft'
      <3>1. \A x \in Calls : IsAt(x, "push")' => IsAt(x, "push")
        BY <1>3, <1>11
      <3>2. \A d \in Callers : \A x \in older'[d] : x \in older[d] /\ (InFlight(x)' => InFlight(x))
        BY <1>4, <1>6, <1>11
      <3> QED
        BY <1>4, <1>6, <1>11, <3>1, <3>2, CountsKept DEF FreshInv
    <2> QED
      BY <1>8, <1>9, <1>10, <2>1 DEF FreshInv
  <1>12. CASE /\ tx' = Append(tx, new) /\ IsAt(new, "push")'
              /\ older' = [older EXCEPT ![c] = {d \in Calls : KindOf(d) = Kind[c] /\ Sent(d)}]
    <2>1. ~InFlight(new) /\ ~IsAt(new, "push")
      BY <1>2 DEF FreshInv, QueueInv, TokensSent
    <2>2. /\ \A x : Contains(tx', x) <=> Contains(tx, x) \/ x = new
          /\ DOMAIN tx' = 1 .. Len(tx) + 1 /\ DOMAIN tx = 1 .. Len(tx) /\ Len(tx) \in Nat
          /\ \A i \in 1 .. Len(tx) : tx'[i] = tx[i] /\ tx[i] \in Calls
          /\ tx'[Len(tx) + 1] = new
      BY <1>4, <1>12, ContainsAppend
    <2>3. Good(new) => ~Contains(tx, new)
      BY <1>2 DEF OnePlace, ListPending, Pending, Sound, Contains
    <2>4. KindOf(new) = Kind[c]
      BY <1>2 DEF KindOf
    <2>5. /\ \A k : Coming(k) \in SUBSET Calls /\ NodesIn(tx, k) \in SUBSET Calls
          /\ \A d \in Callers : OldComing(d) \in SUBSET Calls
          /\ \A i : Ahead(tx, i) \in SUBSET Calls
          /\ \A i \in DOMAIN tx : tx[i] \in Calls /\ tx[i][1] \in Callers
      BY CountedAreCalls
    <2>6. \A k : /\ k = Kind[c] => Coming(k)' = Coming(k) \cup {new}
                                   /\ NodesIn(tx, k)' = NodesIn(tx, k) \cup {new}
                 /\ k # Kind[c] => Coming(k)' = Coming(k) /\ NodesIn(tx, k)' = NodesIn(tx, k)
      BY <1>3, <1>6, <1>12, <2>2, <2>4 DEF Coming, NodesIn, KindOf
    <2>7. ASSUME NEW d \in Callers, Kind[d] \notin gaveUp'
          PROVE  (Cardinality(Coming(Kind[d])) <= Cardinality(NodesIn(tx, Kind[d])))'
      <3>1. Cardinality(Coming(Kind[d])) <= Cardinality(NodesIn(tx, Kind[d]))
        BY <1>4, <2>7 DEF FreshInv, Enough
      <3>2. CASE Kind[d] = Kind[c]
        <4>1. new \notin Coming(Kind[d]) /\ new \notin NodesIn(tx, Kind[d])
          BY <1>4, <2>1, <2>3, <2>4, <2>7, <3>2 DEF Coming, NodesIn, Good
        <4>2. /\ Cardinality(Coming(Kind[d])') = Cardinality(Coming(Kind[d])) + 1
              /\ Cardinality(NodesIn(tx, Kind[d])') = Cardinality(NodesIn(tx, Kind[d])) + 1
          BY <2>5, <2>6, <3>2, <4>1, CallSets
        <4>3. Cardinality(Coming(Kind[d])) \in Nat /\ Cardinality(NodesIn(tx, Kind[d])) \in Nat
          BY <2>5, CallSets
        <4>4. Cardinality(Coming(Kind[d])') <= Cardinality(NodesIn(tx, Kind[d])')
          BY <3>1, <4>2, <4>3
        <4> QED
          BY <4>4
      <3>3. CASE Kind[d] # Kind[c]
        BY <2>6, <3>1, <3>3
      <3> QED
        BY <3>2, <3>3
    <2>8. ASSUME NEW i \in DOMAIN tx', Good(tx[i])'
          PROVE  (Cardinality(OldComing(tx[i][1])) <= Cardinality(Ahead(tx, i)))'
      <3>1. CASE i \in DOMAIN tx
        <4>1. tx'[i] = tx[i] /\ tx[i] \in Calls /\ Good(tx[i])
          BY <1>4, <2>2, <2>8, <3>1 DEF Good, KindOf
        <4>2. Waits(tx[i])
          BY <3>1, <4>1 DEF OnePlace, ListPending, Pending, Sound
        <4>3. tx[i][1] # c /\ tx[i][1] \in Callers
          BY <1>2, <2>5, <3>1, <4>2 DEF Waits
        <4>4. OldComing(tx[i][1])' = OldComing(tx[i][1])
          <5>1. PICK d \in Callers : d = tx[i][1] /\ d # c
            BY <4>3
          <5>2. OldComing(d)' = OldComing(d)
            BY <1>4, <1>5, <1>6, <5>1 DEF OldComing
          <5> QED
            BY <4>1, <5>1, <5>2 DEF OldComing
        <4>5. Ahead(tx, i)' = Ahead(tx, i)
          <5>1. \A j : j \in DOMAIN tx' /\ j < i <=> j \in DOMAIN tx /\ j < i
            BY <2>2, <3>1
          <5> QED
            BY <2>2, <3>1, <4>1, <5>1 DEF Ahead, KindOf
        <4>6. Cardinality(OldComing(tx[i][1])) <= Cardinality(Ahead(tx, i))
          BY <3>1, <4>1 DEF FreshInv, NoneLeft
        <4> QED
          BY <4>4, <4>5, <4>6
      <3>2. CASE i = Len(tx) + 1
        <4>1. tx'[i] = new /\ Good(new)
          BY <1>6, <2>2, <2>8, <3>2 DEF Good, KindOf
        <4>2. OldComing(c)' \subseteq Coming(Kind[c])
          BY <1>4, <1>6, <1>12 DEF OldComing, Coming
        <4>3. Ahead(tx, i)' = NodesIn(tx, Kind[c])
          <5>1. \A x : Contains(tx, x) <=> \E j \in DOMAIN tx' : j < i /\ tx'[j] = x
            BY <2>2, <3>2 DEF Contains
          <5> QED
            BY <2>4, <4>1, <5>1 DEF Ahead, NodesIn, KindOf
        <4>4. Cardinality(Coming(Kind[c])) <= Cardinality(NodesIn(tx, Kind[c]))
          BY <2>4, <4>1 DEF FreshInv, Enough, Good
        <4>5. Cardinality(OldComing(c)') <= Cardinality(Coming(Kind[c]))
          BY <2>5, <4>2, CallSets
        <4>6. /\ Cardinality(OldComing(c)') \in Nat /\ Cardinality(Coming(Kind[c])) \in Nat
              /\ Cardinality(NodesIn(tx, Kind[c])) \in Nat
          BY <2>5, <4>2, CallSets
        <4>7. Cardinality(OldComing(c)') <= Cardinality(Ahead(tx, i)')
          BY <4>3, <4>4, <4>5, <4>6
        <4>8. OldComing(tx[i][1])' = OldComing(c)'
          BY <1>2, <4>1 DEF OldComing
        <4> QED
          BY <4>7, <4>8
      <3> QED
        BY <2>2, <3>1, <3>2
    <2> QED
      BY <1>8, <1>9, <1>10, <2>7, <2>8 DEF FreshInv, Enough, NoneLeft
  <1> QED
    BY <1>2, <1>11, <1>12

\* Push(c), Answered(c), TimedOut(c) and FreeNode(c) leave the list of nodes alone.
LEMMA FreshStays ==
    ASSUME Basics, Basics', OnePlace, FreshInv, NEW c \in Callers,
           Push(c) \/ Answered(c) \/ TimedOut(c) \/ FreeNode(c),
           gaveUp \subseteq gaveUp', \A x \in Calls : Good(x)' => Good(x)
    PROVE  FreshInv'
  <1>1. /\ caller[c].pc # "idle" /\ MayRun /\ UNCHANGED <<tx, mac, rx, kmsg>>
        /\ sem' \subseteq sem
    BY DEF Push, Answered, TimedOut, FreeNode
  <1>2. PICK cur \in Calls : cur = Current(c)
    BY <1>1, CurrentIs DEF Basics
  <1>3. PICK pc \in {"idle", "wait", "answered", "timed_out", "failed"} :
           /\ Goto(c, pc)
           /\ Push(c) => pc \in {"wait", "failed"}
           /\ Answered(c) => pc = "answered"
           /\ TimedOut(c) => pc = "timed_out"
           /\ FreeNode(c) => pc = "idle"
    <2>1. CASE Push(c)
      <3>1. caller[c].pc = "push"
        BY <2>1 DEF Push
      <3>2. ~Answered(c) /\ ~TimedOut(c) /\ ~FreeNode(c)
        BY <3>1 DEF Answered, TimedOut, FreeNode
      <3> QED
        BY <2>1, <3>2 DEF Push
    <2>2. CASE Answered(c)
      <3>1. caller[c].pc = "wait" /\ Current(c) \in sem
        BY <2>2 DEF Answered
      <3>2. ~Push(c) /\ ~TimedOut(c) /\ ~FreeNode(c)
        BY <3>1 DEF Push, TimedOut, FreeNode
      <3> QED
        BY <2>2, <3>2 DEF Answered
    <2>3. CASE TimedOut(c)
      <3>1. caller[c].pc = "wait" /\ Current(c) \notin sem
        BY <2>3 DEF TimedOut
      <3>2. ~Push(c) /\ ~Answered(c) /\ ~FreeNode(c)
        BY <3>1 DEF Push, Answered, FreeNode
      <3> QED
        BY <2>3, <3>2 DEF TimedOut
    <2>4. CASE FreeNode(c)
      <3>1. caller[c].pc \in {"answered", "failed"}
        BY <2>4 DEF FreeNode
      <3>2. ~Push(c) /\ ~Answered(c) /\ ~TimedOut(c)
        BY <3>1 DEF Push, Answered, TimedOut
      <3> QED
        BY <2>4, <3>2 DEF FreeNode
    <2> QED
      BY <2>1, <2>2, <2>3, <2>4
  <1>4. /\ cur[1] = c
        /\ \A x \in Calls : x # cur =>
              /\ \A p : IsAt(x, p)' = IsAt(x, p)
              /\ Sent(x)' <=> Sent(x)
              /\ x[1] = c => (\A p : ~IsAt(x, p)) /\ ~Waits(x)
        /\ \A p : IsAt(cur, p)' <=> p = pc
        /\ \A p : IsAt(cur, p) <=> p = caller[c].pc
        /\ Sent(cur)' /\ (Sent(cur) <=> caller[c].pc # "push")
        /\ Waits(cur) <=> caller[c].pc \in {"push", "wait", "timed_out"}
    BY <1>1, <1>2, <1>3, CallGoesOn
  <1>5. \A x \in Calls : Sent(x) => Sent(x)'
    BY <1>4
  <1>6. /\ older \in [Callers -> SUBSET Calls] /\ written \in [Calls -> Calls \cup {None}]
        /\ bus \in Seq(Calls)
    BY DEF Basics, TypeOK
  <1>7. /\ \A d \in Callers : older'[d] \in {older[d], {}} /\ (d # c => older'[d] = older[d])
        /\ pc = "idle" \/ older'[c] = older[c]
        /\ \A x \in Calls : x # cur \/ pc # "idle" => written'[x] = written[x]
    <2>1. CASE FreeNode(c)
      <3>1. older' = [older EXCEPT ![c] = {}] /\ written' = [written EXCEPT ![cur] = None]
        BY <1>2, <2>1 DEF FreeNode
      <3> QED
        BY <1>3, <1>6, <2>1, <3>1
    <2>2. CASE Push(c) \/ Answered(c) \/ TimedOut(c)
      <3>1. UNCHANGED <<older, written>>
        BY <2>2 DEF Push, Answered, TimedOut
      <3> QED
        BY <3>1
    <2> QED
      BY <2>1, <2>2
  <1>8. OwnOlder'
    BY <1>1, <1>3, <1>7, OwnOlderKept DEF FreshInv, QueueInv
  <1>9. \/ bus' = bus
        \/ bus' = Append(bus, cur) /\ caller[c].pc = "push"
    BY <1>2 DEF Push, Answered, TimedOut, FreeNode
  <1>10. QueueInv'
    <2>1. \/ bus' = bus
          \/ \E x \in Calls : bus' = Append(bus, x) /\ ~Sent(x) /\ Sent(x)'
      BY <1>4, <1>9
    <2> QED
      BY <1>1, <1>5, <1>7, <1>8, <2>1, QueueCaller DEF FreshInv
  <1>11. \A x \in Calls : InFlight(x)' => InFlight(x) \/ (x = cur /\ caller[c].pc = "push")
    <2>1. \A x : (InHand(x)' <=> InHand(x)) /\ (Contains(rx', x) <=> Contains(rx, x))
                 /\ (Contains(mac', x) <=> Contains(mac, x))
      BY <1>1 DEF InHand
    <2>2. CASE bus' = bus
      BY <2>1, <2>2 DEF InFlight
    <2>3. CASE bus' = Append(bus, cur) /\ caller[c].pc = "push"
      <3>1. \A x : Contains(bus', x) <=> Contains(bus, x) \/ x = cur
        BY <1>6, <2>3, ContainsAppend
      <3> QED
        BY <2>1, <2>3, <3>1 DEF InFlight
    <2> QED
      BY <1>9, <2>2, <2>3
  <1>12. Enough' /\ NoneLeft'
    <2>1. \A x \in Calls : InFlight(x)' \/ IsAt(x, "push")' => InFlight(x) \/ IsAt(x, "push")
      <3>1. \A x \in Calls : IsAt(x, "push")' => IsAt(x, "push")
        BY <1>3, <1>4
      <3>2. caller[c].pc = "push" => IsAt(cur, "push")
        BY <1>4
      <3> QED
        BY <1>11, <3>1, <3>2
    <2>2. \A d \in Callers : \A x \in older'[d] : x \in older[d] /\ (InFlight(x)' => InFlight(x))
      <3> SUFFICES ASSUME NEW d \in Callers, NEW x \in older'[d]
                   PROVE  x \in older[d] /\ (InFlight(x)' => InFlight(x))
        OBVIOUS
      <3>1. x \in older[d] /\ x \in Calls
        BY <1>6, <1>7
      <3>2. Sent(x)
        BY <3>1 DEF FreshInv, QueueInv, OlderSent
      <3> QED
        BY <1>4, <1>11, <3>1, <3>2
    <2> QED
      BY <1>1, <2>1, <2>2, CountsKept DEF FreshInv
  <1>13. SignalFresh'
    BY <1>1 DEF SignalFresh, MayRun
  <1>14. WrittenFresh'
    <2> SUFFICES ASSUME NEW x \in Calls, Good(x)', (x \in sem' \/ IsAt(x, "answered")')
                 PROVE  /\ Good(x) /\ (x \in sem \/ IsAt(x, "answered"))
                        /\ written'[x] = written[x] /\ older'[x[1]] \subseteq older[x[1]]
      BY <1>5, WrittenKept DEF FreshInv
    <2>1. x \in sem \/ IsAt(x, "answered")
      <3>1. CASE x \in sem'
        BY <1>1, <3>1
      <3>2. CASE IsAt(x, "answered")' /\ x # cur
        BY <1>4, <3>2
      <3>3. CASE IsAt(x, "answered")' /\ x = cur
        <4>1. Answered(c)
          BY <1>3, <1>4, <3>3
        <4> QED
          BY <1>2, <3>3, <4>1 DEF Answered
      <3> QED
        BY <3>1, <3>2, <3>3
    <2>2. x # cur \/ pc # "idle"
      <3> SUFFICES ASSUME x = cur, pc = "idle" PROVE FALSE
        OBVIOUS
      <3>1. FreeNode(c)
        BY <1>3
      <3>2. sem' = sem \ {cur}
        BY <1>2, <3>1 DEF FreeNode
      <3>3. ~IsAt(cur, "answered")'
        BY <1>4
      <3> QED
        BY <3>2, <3>3
    <2>3. written'[x] = written[x] /\ x[1] \in Callers
      BY <1>7, <2>2, CallsAre
    <2>4. older'[x[1]] \subseteq older[x[1]]
      BY <1>7, <2>3
    <2> QED
      BY <2>1, <2>3, <2>4
  <1> QED
    BY <1>10, <1>12, <1>13, <1>14 DEF FreshInv

LEMMA FreshExtract ==
    ASSUME Basics, Basics', OnePlace, FreshInv, NEW c \in Callers, Extract(c)
    PROVE  FreshInv'
  <1>1. /\ caller[c].pc = "timed_out" /\ Goto(c, "failed") /\ MayRun
        /\ UNCHANGED <<sem, written, bus, mac, rx, kmsg, older>>
        /\ gaveUp' = gaveUp \cup {Kind[c]}
    BY DEF Extract
  <1>2. PICK cur \in Calls : cur = Current(c)
    BY <1>1, CurrentIs DEF Basics
  <1>3. /\ cur[1] = c
        /\ \A x \in Calls : x # cur =>
              /\ \A p : IsAt(x, p)' = IsAt(x, p)
              /\ Sent(x)' <=> Sent(x)
        /\ \A p : IsAt(cur, p)' <=> p = "failed"
        /\ Sent(cur)'
    BY <1>1, <1>2, CallGoesOn
  <1>4. \A x \in Calls : (Sent(x) => Sent(x)') /\ (IsAt(x, "push")' => IsAt(x, "push"))
                         /\ (IsAt(x, "answered")' => IsAt(x, "answered"))
    BY <1>3
  <1>5. \A x \in Calls : InFlight(x)' <=> InFlight(x)
    BY <1>1 DEF InFlight, InHand
  <1>6. QueueInv'
    <2>1. OwnOlder'
      BY <1>1, OwnOlderKept DEF FreshInv, QueueInv
    <2> QED
      BY <1>1, <1>4, <2>1, QueueCaller DEF FreshInv
  <1>7. SignalFresh'
    BY <1>1 DEF SignalFresh, MayRun
  <1>8. WrittenFresh'
    <2>1. \A x \in Calls : Good(x)' => Good(x)
      BY <1>1 DEF Good, KindOf
    <2> QED
      BY <1>1, <1>4, <2>1, WrittenKept DEF FreshInv
  <1>9. /\ \A k : Coming(k) \in SUBSET Calls /\ NodesIn(tx, k) \in SUBSET Calls
        /\ \A d \in Callers : OldComing(d) \in SUBSET Calls
        /\ \A i : Ahead(tx, i) \in SUBSET Calls
        /\ \A i \in DOMAIN tx : tx[i] \in Calls /\ tx[i][1] \in Callers
    BY CountedAreCalls
  <1>10. \A k : Coming(k)' \subseteq Coming(k)
    BY <1>4, <1>5 DEF Coming, KindOf
  <1>11. \A d \in Callers : OldComing(d)' = OldComing(d)
    <2>1. \A d \in Callers : older[d] \subseteq Calls
      BY QueueTypes
    <2> QED
      BY <1>1, <1>5, <2>1 DEF OldComing
  <1>12. ASSUME tx' = tx
         PROVE  Enough' /\ NoneLeft'
    <2>1. \A d \in Callers : older[d] \subseteq Calls
      BY QueueTypes
    <2> QED
      BY <1>1, <1>4, <1>5, <1>12, <2>1, CountsKept DEF FreshInv
  <1>13. ASSUME NEW r \in DOMAIN tx, tx[r] = cur, tx' = RemoveAt(tx, r)
         PROVE  Enough' /\ NoneLeft'
    <2>1. KindOf(tx[r]) = Kind[c] /\ tx \in Seq(Calls)
      BY <1>3, <1>13, QueueTypes DEF KindOf
    <2>2. /\ \A k : k # Kind[c] => NodesIn(tx', k) = NodesIn(tx, k)
          /\ \A i \in DOMAIN tx' : KindOf(tx[From(i, r)]) # Kind[c] =>
                Ahead(tx', i) = Ahead(tx, From(i, r))
      BY <1>13, <2>1, NodesRemoved
    <2>3. \A i \in DOMAIN tx' : From(i, r) \in DOMAIN tx /\ tx'[i] = tx[From(i, r)]
      BY <1>13, <2>1, FromIs
    <2>4. ASSUME NEW d \in Callers, Kind[d] \notin gaveUp'
          PROVE  (Cardinality(Coming(Kind[d])) <= Cardinality(NodesIn(tx, Kind[d])))'
      <3>1. Kind[d] # Kind[c] /\ Kind[d] \notin gaveUp
        BY <1>1, <2>4
      <3>2. Cardinality(Coming(Kind[d])) <= Cardinality(NodesIn(tx, Kind[d]))
        BY <3>1 DEF FreshInv, Enough
      <3>3. Cardinality(Coming(Kind[d])') <= Cardinality(Coming(Kind[d]))
        BY <1>9, <1>10, CallSets
      <3>4. /\ Cardinality(Coming(Kind[d])') \in Nat /\ Cardinality(Coming(Kind[d])) \in Nat
            /\ Cardinality(NodesIn(tx, Kind[d])) \in Nat
        <4>1. Coming(Kind[d])' \in SUBSET Calls
          BY <1>9, <1>10
        <4> QED
          BY <1>9, <4>1, CallSets
      <3>5. NodesIn(tx, Kind[d])' = NodesIn(tx, Kind[d])
        <4>1. NodesIn(tx', Kind[d]) = NodesIn(tx, Kind[d])
          BY <2>2, <3>1
        <4> QED
          BY <4>1 DEF NodesIn, KindOf
      <3>6. Cardinality(Coming(Kind[d])') <= Cardinality(NodesIn(tx, Kind[d]))
        BY <3>2, <3>3, <3>4
      <3> QED
        BY <3>5, <3>6
    <2>5. ASSUME NEW i \in DOMAIN tx', Good(tx[i])'
          PROVE  (Cardinality(OldComing(tx[i][1])) <= Cardinality(Ahead(tx, i)))'
      <3> DEFINE o == From(i, r)
      <3>1. o \in DOMAIN tx /\ tx'[i] = tx[o] /\ tx[o] \in Calls /\ tx[o][1] \in Callers
        BY <1>9, <2>3
      <3> HIDE DEF o
      <3>2. Good(tx[o]) /\ KindOf(tx[o]) # Kind[c]
        BY <1>1, <2>5, <3>1 DEF Good, KindOf
      <3>3. Cardinality(OldComing(tx[o][1])) <= Cardinality(Ahead(tx, o))
        BY <3>1, <3>2 DEF FreshInv, NoneLeft
      <3>4. Ahead(tx', i) = Ahead(tx, o)
        BY <2>2, <3>2 DEF o
      <3>5. OldComing(tx[i][1])' = OldComing(tx[o][1])
        <4>1. PICK d \in Callers : d = tx[o][1]
          BY <3>1
        <4>2. OldComing(d)' = OldComing(d)
          BY <1>11
        <4> QED
          BY <3>1, <4>1, <4>2 DEF OldComing
      <3>6. Ahead(tx, i)' = Ahead(tx', i)
        BY DEF Ahead, KindOf
      <3> QED
        BY <3>3, <3>4, <3>5, <3>6
    <2> QED
      BY <2>4, <2>5 DEF Enough, NoneLeft
  <1>14. Enough' /\ NoneLeft'
    BY <1>2, <1>12, <1>13 DEF Extract, Unregister
  <1> QED
    BY <1>6, <1>7, <1>8, <1>14 DEF FreshInv


-----------------------------------------------------------------------------
(* The steps of the core thread and of kmsgbk. *)

\* A step that leaves the nodes, the semaphores and what was written alone, and
\* after which kmsgbk has no node that it had not before.
LEMMA FreshMessages ==
    ASSUME Basics, Basics', FreshInv,
           \/ CoreTakes \/ mr_kmsg_fwd \/ Wake \/ PopMessage
           \/ rwnx_handle_recv_msg \/ (FindNode /\ Matching = {}) \/ UNCHANGED vars
    PROVE  FreshInv'
  <1>1. /\ UNCHANGED <<tx, sem, written, caller, older, gaveUp>>
        /\ kmsg'.pc = "signal" => kmsg' = kmsg
    <2>1. CASE CoreTakes \/ mr_kmsg_fwd \/ UNCHANGED vars
      BY <2>1 DEF CoreTakes, mr_kmsg_fwd, vars
    <2>2. CASE Wake \/ PopMessage \/ rwnx_handle_recv_msg \/ (FindNode /\ Matching = {})
      <3>1. /\ UNCHANGED <<tx, sem, written, caller, older, gaveUp>>
            /\ \/ kmsg' = AfterMessage \/ kmsg' = Asleep
               \/ kmsg' = [kmsg EXCEPT !.pc = "pop"]
               \/ kmsg' = [kmsg EXCEPT !.pc = "indication"]
               \/ kmsg' = [kmsg EXCEPT !.pc = "find", !.msg = Head(rx)]
        BY <2>2 DEF Wake, PopMessage, rwnx_handle_recv_msg, FindNode
      <3>2. kmsg \in [pc : {"asleep", "pop", "find", "indication", "signal"},
                      msg : Calls \cup {None}, node : Calls \cup {None}]
        BY QueueTypes
      <3>3. kmsg'.pc # "signal"
        <4>1. CASE kmsg' = AfterMessage \/ kmsg' = Asleep
          BY <4>1 DEF AfterMessage, Asleep
        <4>2. CASE kmsg' = [kmsg EXCEPT !.pc = "pop"] \/ kmsg' = [kmsg EXCEPT !.pc = "indication"]
          BY <3>2, <4>2
        <4>3. CASE kmsg' = [kmsg EXCEPT !.pc = "find", !.msg = Head(rx)]
          <5>1. kmsg' = [[kmsg EXCEPT !.pc = "find"] EXCEPT !.msg = Head(rx)]
            BY <3>2, <4>3
          <5> QED
            BY <3>2, <5>1
        <4> QED
          BY <3>1, <4>1, <4>2, <4>3
      <3> QED
        BY <3>1, <3>3
    <2> QED
      BY <2>1, <2>2
  <1>2. QueueInv' /\ \A x \in Calls : InFlight(x)' => InFlight(x)
    BY QueueMoves DEF FreshInv
  <1>3. \A x \in Calls : /\ (Sent(x)' <=> Sent(x)) /\ (Good(x)' <=> Good(x))
                         /\ \A p : IsAt(x, p)' <=> IsAt(x, p)
    BY <1>1 DEF Sent, IsAt, Good, KindOf
  <1>4. Enough' /\ NoneLeft'
    <2>1. \A c \in Callers : older'[c] = older[c] /\ older[c] \subseteq Calls
      BY <1>1, QueueTypes
    <2> QED
      BY <1>1, <1>2, <1>3, <2>1, CountsKept DEF FreshInv
  <1>5. SignalFresh'
    <2> SUFFICES ASSUME kmsg'.pc = "signal", Good(kmsg.node)'
                 PROVE  Fresh(kmsg.msg, kmsg.node)'
      BY DEF SignalFresh
    <2>1. kmsg' = kmsg /\ Good(kmsg.node)
      BY <1>1 DEF Good, KindOf
    <2>2. Fresh(kmsg.msg, kmsg.node)
      BY <2>1 DEF FreshInv, SignalFresh
    <2> QED
      BY <1>1, <2>1, <2>2 DEF Fresh, Sent, IsAt, KindOf
  <1>6. WrittenFresh'
    <2>1. \A x \in Calls : older'[x[1]] \subseteq older[x[1]]
      BY <1>1
    <2> QED
      BY <1>1, <1>3, <2>1, WrittenKept DEF FreshInv
  <1> QED
    BY <1>2, <1>4, <1>5, <1>6 DEF FreshInv

\* The foremost node of the message's kind leaves the list, and the message is the
\* one that was sent first: nothing from before the node's call is left then.
LEMMA FreshFindNode ==
    ASSUME Basics, Basics', OnePlace, FreshInv, FindNode, Matching # {}
    PROVE  FreshInv'
  <1>1. PICK r \in Matching : /\ Foremost(r) /\ tx' = RemoveAt(tx, r)
                              /\ kmsg' = [kmsg EXCEPT !.pc = "signal", !.node = tx[r]]
    BY DEF FindNode
  <1>2. /\ UNCHANGED <<sem, written, caller, bus, mac, rx, older, gaveUp>>
        /\ kmsg.pc = "find"
    BY DEF FindNode
  <1>3. PICK m \in Calls : m = kmsg.msg
    BY <1>2 DEF FreshInv, QueueInv, TokensApart
  <1>4. /\ tx \in Seq(Calls) /\ r \in DOMAIN tx
        /\ older \in [Callers -> SUBSET Calls]
    BY QueueTypes DEF Matching
  <1>5. PICK n \in Calls : n = tx[r]
    BY <1>4
  <1>6. KindOf(n) = KindOf(m) /\ n[1] \in Callers /\ KindOf(n) = Kind[n[1]]
    BY <1>3, <1>5, CallsAre DEF Matching, KindOf
  <1>7. kmsg'.pc = "signal" /\ kmsg'.node = n /\ kmsg'.msg = m
    BY <1>1, <1>3, <1>5, QueueTypes
  <1>8. QueueInv' /\ \A x \in Calls : InFlight(x)' => InFlight(x)
    BY QueueMoves DEF FreshInv
  <1>9. InHand(m) /\ InFlight(m) /\ ~InFlight(m)'
    <2>1. InHand(m) /\ ~InHand(m)'
      BY <1>2, <1>3, <1>7 DEF InHand
    <2>2. ~Contains(bus', m) /\ ~Contains(mac', m) /\ ~Contains(rx', m)
      BY <1>2, <2>1 DEF FreshInv, QueueInv, TokensApart
    <2> QED
      BY <2>1, <2>2 DEF InFlight
  <1>10. \A x \in Calls : /\ (Sent(x)' <=> Sent(x)) /\ (Good(x)' <=> Good(x))
                          /\ \A p : IsAt(x, p)' <=> IsAt(x, p)
    BY <1>2 DEF Sent, IsAt, Good, KindOf
  <1>11. Sent(m)
    BY <1>9 DEF FreshInv, QueueInv, TokensSent
  <1>12. ~IsAt(m, "push")
    BY <1>11 DEF Sent
  <1>13. /\ \A k : Coming(k) \in SUBSET Calls /\ NodesIn(tx, k) \in SUBSET Calls
         /\ \A d \in Callers : OldComing(d) \in SUBSET Calls
         /\ \A i : Ahead(tx, i) \in SUBSET Calls
         /\ \A i \in DOMAIN tx : tx[i] \in Calls /\ tx[i][1] \in Callers
    BY CountedAreCalls
  <1>14. /\ \A k : Coming(k)' \subseteq Coming(k) \ {m}
         /\ \A d \in Callers : OldComing(d)' \subseteq OldComing(d) \ {m}
    <2>1. \A x \in Calls : InFlight(x)' => InFlight(x) /\ x # m
      BY <1>8, <1>9
    <2>2. \A x \in Calls : IsAt(x, "push")' => IsAt(x, "push") /\ x # m
      BY <1>10, <1>12
    <2>3. \A k : Coming(k)' \subseteq Coming(k) \ {m}
      BY <2>1, <2>2 DEF Coming, KindOf
    <2>4. \A d \in Callers : OldComing(d)' \subseteq OldComing(d) \ {m}
      BY <1>2, <1>4, <2>1 DEF OldComing
    <2> QED
      BY <2>3, <2>4
  <1>15. Good(n) => \A j \in DOMAIN tx : tx[j] = n => j = r
    BY <1>4, <1>5 DEF OnePlace, ListDistinct, Sound
  <1>16. /\ \A k : k # KindOf(n) => NodesIn(tx', k) = NodesIn(tx, k)
         /\ \A i \in DOMAIN tx' : KindOf(tx[From(i, r)]) # KindOf(n) =>
               Ahead(tx', i) = Ahead(tx, From(i, r))
         /\ Good(n) =>
               /\ NodesIn(tx', KindOf(n)) = NodesIn(tx, KindOf(n)) \ {n}
               /\ \A i \in DOMAIN tx' : Ahead(tx', i) = Ahead(tx, From(i, r)) \ {n}
    BY <1>1, <1>4, <1>5, <1>15, NodesRemoved
  <1>17. \A i \in DOMAIN tx' : From(i, r) \in DOMAIN tx /\ From(i, r) # r /\ tx'[i] = tx[From(i, r)]
    BY <1>1, <1>4, FromIs
  <1>18. \A j \in DOMAIN tx : KindOf(tx[j]) = KindOf(n) => r <= j
    BY <1>1, <1>3, <1>6 DEF Foremost, Matching
  <1>19. ASSUME NEW d \in Callers, Kind[d] \notin gaveUp'
         PROVE  (Cardinality(Coming(Kind[d])) <= Cardinality(NodesIn(tx, Kind[d])))'
    <2>1. Cardinality(Coming(Kind[d])) <= Cardinality(NodesIn(tx, Kind[d]))
      BY <1>2, <1>19 DEF FreshInv, Enough
    <2>2. NodesIn(tx, Kind[d])' = NodesIn(tx', Kind[d])
      BY DEF NodesIn, KindOf
    <2>3. /\ Coming(Kind[d]) \in SUBSET Calls /\ NodesIn(tx, Kind[d]) \in SUBSET Calls
          /\ Coming(Kind[d])' \subseteq Coming(Kind[d]) \ {m}
      BY <1>13, <1>14
    <2>4. Cardinality(Coming(Kind[d])') <= Cardinality(NodesIn(tx', Kind[d]))
      <3>1. CASE Kind[d] = KindOf(n)
        <4>1. Good(n)
          BY <1>2, <1>19, <3>1 DEF Good
        <4>2. m \in Coming(Kind[d]) /\ n \in NodesIn(tx, Kind[d])
          <5>1. Contains(tx, n)
            BY <1>4, <1>5 DEF Contains
          <5> QED
            BY <1>6, <1>9, <3>1, <5>1 DEF Coming, NodesIn
        <4>3. NodesIn(tx', Kind[d]) = NodesIn(tx, Kind[d]) \ {n}
          BY <1>16, <3>1, <4>1
        <4>4. /\ Cardinality(Coming(Kind[d]) \ {m}) = Cardinality(Coming(Kind[d])) - 1
              /\ Cardinality(NodesIn(tx', Kind[d])) = Cardinality(NodesIn(tx, Kind[d])) - 1
          BY <2>3, <4>2, <4>3, CallSets
        <4>5. Coming(Kind[d]) \ {m} \in SUBSET Calls
          BY <2>3
        <4>6. /\ Cardinality(Coming(Kind[d])') <= Cardinality(Coming(Kind[d]) \ {m})
              /\ Cardinality(Coming(Kind[d])') \in Nat
          <5>1. Coming(Kind[d])' \in SUBSET Calls
            BY <2>3
          <5> QED
            BY <2>3, <4>5, <5>1, CallSets
        <4>7. Cardinality(Coming(Kind[d])) \in Nat /\ Cardinality(NodesIn(tx, Kind[d])) \in Nat
          BY <2>3, CallSets
        <4> QED
          BY <2>1, <4>4, <4>6, <4>7
      <3>2. CASE Kind[d] # KindOf(n)
        <4>1. NodesIn(tx', Kind[d]) = NodesIn(tx, Kind[d])
          BY <1>16, <3>2
        <4>2. Coming(Kind[d])' \in SUBSET Coming(Kind[d]) /\ Coming(Kind[d])' \in SUBSET Calls
          BY <2>3
        <4>3. /\ Cardinality(Coming(Kind[d])') <= Cardinality(Coming(Kind[d]))
              /\ Cardinality(Coming(Kind[d])') \in Nat /\ Cardinality(Coming(Kind[d])) \in Nat
              /\ Cardinality(NodesIn(tx, Kind[d])) \in Nat
          BY <2>3, <4>2, CallSets
        <4> QED
          BY <2>1, <4>1, <4>3
      <3> QED
        BY <3>1, <3>2
    <2> QED
      BY <2>2, <2>4
  <1>20. ASSUME NEW i \in DOMAIN tx', Good(tx[i])'
         PROVE  (Cardinality(OldComing(tx[i][1])) <= Cardinality(Ahead(tx, i)))'
    <2>1. PICK o \in DOMAIN tx : o = From(i, r) /\ o # r /\ tx'[i] = tx[o]
      BY <1>17
    <2>2. PICK y \in Calls : y = tx[o]
      BY <1>13
    <2>3. PICK d \in Callers : d = y[1]
      BY <2>2, CallsAre
    <2>4. Good(y) /\ KindOf(y) = Kind[d]
      BY <1>2, <1>20, <2>1, <2>2, <2>3 DEF Good, KindOf
    <2>5. Cardinality(OldComing(d)) <= Cardinality(Ahead(tx, o))
      BY <2>2, <2>3, <2>4 DEF FreshInv, NoneLeft
    <2>6. OldComing(tx[i][1])' = OldComing(d)' /\ Ahead(tx, i)' = Ahead(tx', i)
      BY <2>1, <2>2, <2>3 DEF OldComing, Ahead, KindOf
    <2>7. /\ OldComing(d) \in SUBSET Calls /\ Ahead(tx, o) \in SUBSET Calls
          /\ OldComing(d)' \subseteq OldComing(d) \ {m}
      BY <1>13, <1>14
    <2>8. /\ Cardinality(OldComing(d)) \in Nat /\ Cardinality(Ahead(tx, o)) \in Nat
          /\ Cardinality(OldComing(d)') \in Nat
      <3>1. OldComing(d)' \in SUBSET Calls
        BY <2>7
      <3> QED
        BY <2>7, <3>1, CallSets
    <2>9. Cardinality(OldComing(d)') <= Cardinality(Ahead(tx', i))
      <3>1. CASE KindOf(y) # KindOf(n)
        <4>1. Ahead(tx', i) = Ahead(tx, o)
          BY <1>16, <2>1, <2>2, <3>1
        <4>2. Cardinality(OldComing(d)') <= Cardinality(OldComing(d))
          <5>1. OldComing(d)' \in SUBSET OldComing(d)
            BY <2>7
          <5> QED
            BY <2>7, <5>1, CallSets
        <4> QED
          BY <2>5, <2>8, <4>1, <4>2
      <3>2. CASE KindOf(y) = KindOf(n)
        <4>1. Good(n)
          BY <2>4, <3>2 DEF Good
        <4>2. Ahead(tx', i) = Ahead(tx, o) \ {n}
          BY <1>16, <2>1, <4>1
        <4>3. n \in Ahead(tx, o)
          <5>1. r <= o /\ r \in Nat /\ o \in Nat
            BY <1>4, <1>18, <2>1, <2>2, <3>2
          <5>2. r < o
            BY <2>1, <5>1
          <5> QED
            BY <1>4, <1>5, <2>2, <3>2, <5>2 DEF Ahead
        <4>4. Cardinality(Ahead(tx', i)) = Cardinality(Ahead(tx, o)) - 1
          BY <2>7, <4>2, <4>3, CallSets
        <4>5. CASE m \in older[d]
          <5>1. m \in OldComing(d)
            BY <1>9, <4>5 DEF OldComing
          <5>2. Cardinality(OldComing(d) \ {m}) = Cardinality(OldComing(d)) - 1
            BY <2>7, <5>1, CallSets
          <5>3. Cardinality(OldComing(d)') <= Cardinality(OldComing(d) \ {m})
            <6>1. OldComing(d) \ {m} \in SUBSET Calls
              BY <2>7
            <6> QED
              BY <2>7, <6>1, CallSets
          <5> QED
            BY <2>5, <2>8, <4>4, <5>2, <5>3
        <4>6. CASE m \notin older[d]
          <5>1. OldComing(d)' = {}
            <6> SUFFICES ASSUME NEW x \in OldComing(d)' PROVE FALSE
              OBVIOUS
            <6>1. x \in older[d] /\ x \in Calls /\ InFlight(x)'
              BY <1>2, <1>4 DEF OldComing
            <6>2. Contains(rx, x) \/ Contains(mac, x) \/ Contains(bus, x)
              BY <1>2, <1>7, <6>1 DEF InFlight, InHand
            <6>3. FirstAre(Kind[d], older[d]) /\ KindOf(m) = Kind[d]
              BY <1>6, <2>4, <3>2 DEF FreshInv, QueueInv, InOrder
            <6>4. m \in older[d]
              BY <1>9, <6>1, <6>2, <6>3 DEF FirstAre, HandBefore
            <6> QED
              BY <4>6, <6>4
          <5>2. Cardinality(OldComing(d)') = 0
            BY <5>1, FS_EmptySet
          <5>3. Cardinality(Ahead(tx', i)) \in Nat
            <6>1. Ahead(tx', i) \in SUBSET Calls
              BY <2>7, <4>2
            <6> QED
              BY <6>1, CallSets
          <5> QED
            BY <5>2, <5>3
        <4> QED
          BY <4>5, <4>6
      <3> QED
        BY <3>1, <3>2
    <2> QED
      BY <2>6, <2>9
  <1>21. SignalFresh'
    <2> SUFFICES ASSUME Good(n) PROVE Fresh(m, n)'
      <3>1. Good(kmsg.node)' => Good(n)
        BY <1>2, <1>7 DEF Good, KindOf
      <3>2. Fresh(kmsg.msg, kmsg.node)' <=> Fresh(m, n)'
        BY <1>7 DEF Fresh, Sent, IsAt, KindOf
      <3> QED
        BY <3>1, <3>2 DEF SignalFresh
    <2>1. Cardinality(OldComing(n[1])) <= Cardinality(Ahead(tx, r))
      BY <1>4, <1>5 DEF FreshInv, NoneLeft
    <2>2. Ahead(tx, r) = {}
      <3> SUFFICES ASSUME NEW j \in DOMAIN tx, j < r, KindOf(tx[j]) = KindOf(n) PROVE FALSE
        BY <1>5 DEF Ahead
      <3>1. r <= j /\ r \in Nat /\ j \in Nat
        BY <1>4, <1>18
      <3> QED
        BY <3>1
    <2>3. m \notin older[n[1]]
      <3> SUFFICES ASSUME m \in older[n[1]] PROVE FALSE
        OBVIOUS
      <3>1. m \in OldComing(n[1]) /\ OldComing(n[1]) \in SUBSET Calls
        BY <1>6, <1>9, <1>13 DEF OldComing
      <3>2. /\ Cardinality(OldComing(n[1]) \ {m}) = Cardinality(OldComing(n[1])) - 1
            /\ Cardinality(OldComing(n[1]) \ {m}) \in Nat /\ Cardinality(OldComing(n[1])) \in Nat
        <4>1. OldComing(n[1]) \ {m} \in SUBSET Calls
          BY <3>1
        <4> QED
          BY <3>1, <4>1, CallSets
      <3>3. Cardinality(OldComing(n[1])) <= 0
        BY <2>1, <2>2, FS_EmptySet
      <3> QED
        BY <3>2, <3>3
    <2>4. Sent(m)' /\ m \notin older'[n[1]]
      BY <1>2, <1>10, <1>11, <2>3
    <2> QED
      BY <1>6, <2>4 DEF Fresh, KindOf
  <1>22. WrittenFresh'
    <2>1. \A x \in Calls : older'[x[1]] \subseteq older[x[1]]
      BY <1>2
    <2> QED
      BY <1>2, <1>10, <2>1, WrittenKept DEF FreshInv
  <1>23. Enough' /\ NoneLeft'
    BY <1>19, <1>20 DEF Enough, NoneLeft
  <1> QED
    BY <1>8, <1>21, <1>22, <1>23 DEF FreshInv

LEMMA FreshSignalCaller ==
    ASSUME Basics, Basics', FreshInv, SignalCaller
    PROVE  FreshInv'
  <1>1. PICK node \in Calls : node = kmsg.node
    BY DEF SignalCaller, Basics, NodeOfSignal
  <1>2. /\ kmsg.pc = "signal" /\ kmsg'.pc = "pop"
        /\ UNCHANGED <<tx, caller, bus, mac, rx, older, gaveUp>>
        /\ sem' = sem \cup {node}
        /\ written' = [written EXCEPT ![node] = kmsg.msg]
    BY <1>1 DEF SignalCaller, AfterMessage, Asleep
  <1>3. QueueInv' /\ \A x \in Calls : InFlight(x)' => InFlight(x)
    BY QueueMoves DEF FreshInv
  <1>4. \A x \in Calls : /\ (Good(x)' <=> Good(x))
                         /\ \A p : IsAt(x, p)' <=> IsAt(x, p)
    BY <1>2 DEF IsAt, Good, KindOf
  <1>5. Enough' /\ NoneLeft'
    <2>1. \A c \in Callers : older'[c] = older[c] /\ older[c] \subseteq Calls
      BY <1>2, QueueTypes
    <2> QED
      BY <1>2, <1>3, <1>4, <2>1, CountsKept DEF FreshInv
  <1>6. SignalFresh'
    BY <1>2 DEF SignalFresh
  <1>7. WrittenFresh'
    <2> SUFFICES ASSUME NEW x \in Calls, Good(x)', (x \in sem' \/ IsAt(x, "answered")')
                 PROVE  Fresh(written[x], x)'
      BY DEF WrittenFresh
    <2>1. written \in [Calls -> Calls \cup {None}]
      BY DEF Basics, TypeOK
    <2>2. CASE x = node
      <3>1. Good(kmsg.node) /\ written'[x] = kmsg.msg
        BY <1>1, <1>2, <1>4, <2>1, <2>2
      <3>2. Fresh(kmsg.msg, x)
        BY <1>1, <1>2, <2>2, <3>1 DEF FreshInv, SignalFresh
      <3> QED
        BY <1>2, <3>1, <3>2 DEF Fresh, Sent, IsAt, KindOf
    <2>3. CASE x # node
      <3>1. x \in sem \/ IsAt(x, "answered")
        BY <1>2, <1>4, <2>3
      <3>2. Fresh(written[x], x) /\ written'[x] = written[x]
        BY <1>2, <1>4, <2>1, <2>3, <3>1 DEF FreshInv, WrittenFresh
      <3> QED
        BY <1>2, <3>2 DEF Fresh, Sent, IsAt, KindOf
    <2> QED
      BY <2>2, <2>3
  <1> QED
    BY <1>3, <1>5, <1>6, <1>7 DEF FreshInv

-----------------------------------------------------------------------------
(* The theorems *)

LEMMA FreshInit == Init => FreshInv
  <1> SUFFICES ASSUME Init PROVE FreshInv
    OBVIOUS
  <1>1. /\ tx = <<>> /\ bus = <<>> /\ mac = <<>> /\ rx = <<>> /\ sem = {}
        /\ kmsg.pc = "asleep" /\ older = [c \in Callers |-> {}]
        /\ \A c \in Callers : caller[c].pc = "idle"
    BY DEF Init, Asleep
  <1>2. /\ \A x : ~InFlight(x)
        /\ \A x : ~Contains(bus, x) /\ ~Contains(mac, x) /\ ~Contains(rx, x) /\ ~InHand(x)
    BY <1>1 DEF InFlight, InHand, Contains
  <1>3. QueueInv
    <2>1. TokensApart
      BY <1>1, <1>2 DEF TokensApart, IsInjective
    <2>2. TokensSent /\ OlderSent
      BY <1>1, <1>2 DEF TokensSent, OlderSent
    <2>3. InOrder
      BY <1>1 DEF InOrder, FirstAre, Ordered, Before, HandBefore
    <2>4. OwnOlder
      BY <1>1, CallsAre DEF OwnOlder
    <2> QED
      BY <2>1, <2>2, <2>3, <2>4 DEF QueueInv
  <1>4. \A x \in Calls : \A p : p # "idle" => ~IsAt(x, p)
    BY <1>1, CallsAre DEF IsAt
  <1>5. Enough
    <2> SUFFICES ASSUME NEW k PROVE Cardinality(Coming(k)) <= Cardinality(NodesIn(tx, k))
      BY DEF Enough
    <2>1. Coming(k) = {} /\ NodesIn(tx, k) = {}
      BY <1>1, <1>2, <1>4 DEF Coming, NodesIn, Contains
    <2> QED
      BY <2>1, FS_EmptySet
  <1>6. NoneLeft /\ SignalFresh /\ WrittenFresh
    BY <1>1, <1>4 DEF NoneLeft, SignalFresh, WrittenFresh
  <1> QED
    BY <1>3, <1>5, <1>6 DEF FreshInv

LEMMA FreshNext ==
    ASSUME Basics, Basics', OnePlace, FreshInv, [Next]_vars
    PROVE  FreshInv'
  <1>1. gaveUp \subseteq gaveUp' /\ \A x \in Calls : Good(x)' => Good(x)
    BY SoundBefore DEF Basics
  <1>2. ASSUME NEW c \in Callers, rw_msg_send(c) PROVE FreshInv'
    BY <1>1, <1>2, FreshRegister, FreshStays, FreshExtract DEF rw_msg_send
  <1>3. CASE \/ core_thread_main \/ UNCHANGED vars \/ Wake \/ PopMessage
             \/ rwnx_handle_recv_msg \/ (FindNode /\ Matching = {})
    BY <1>3, FreshMessages DEF core_thread_main
  <1>4. CASE FindNode /\ Matching # {}
    BY <1>4, FreshFindNode
  <1>5. CASE SignalCaller
    BY <1>5, FreshSignalCaller
  <1> QED
    BY <1>2, <1>3, <1>4, <1>5 DEF Next, kmsg_bk_thread_main

LEMMA FreshInvariant == Spec => [](Basics /\ OnePlace /\ FreshInv)
  <1>1. Init => FreshInv
    BY FreshInit
  <1>2. Basics /\ OnePlace /\ (Basics /\ OnePlace)' /\ FreshInv /\ [Next]_vars => FreshInv'
    BY FreshNext
  <1> QED
    BY <1>1, <1>2, PlaceInvariant, PTL DEF Spec

\* What a call returns is the confirmation of a request of its kind that was sent
\* after the call began, as long as no call of this kind has failed.
THEOREM FreshAnswers == Spec => []AnswerIsFresh
  <1>1. ASSUME Basics, FreshInv PROVE AnswerIsFresh
    <2> SUFFICES ASSUME NEW c \in Callers, caller[c].pc = "answered", Kind[c] \notin gaveUp
                 PROVE  /\ written[Current(c)] # None
                        /\ KindOf(written[Current(c)]) = Kind[c]
                        /\ written[Current(c)] \notin older[c]
      BY DEF AnswerIsFresh
    <2>1. Current(c) \in Calls /\ Current(c)[1] = c /\ Current(c)[2] = caller[c].n
      BY <1>1, CurrentIs DEF Basics
    <2>2. Fresh(written[Current(c)], Current(c))
      BY <1>1, <2>1 DEF FreshInv, WrittenFresh, Good, KindOf, IsAt
    <2> QED
      BY <2>1, <2>2, NoneAssumption DEF Fresh, KindOf
  <1> QED
    BY <1>1, FreshInvariant, PTL

\* A thread that is the only one to ask for its kind gets the answer to the very
\* request it made, as long as none of its calls has failed.
AnswerIsOwn ==
    \A c \in Callers :
        caller[c].pc = "answered" /\ Kind[c] \notin gaveUp
        /\ (\A d \in Callers : Kind[d] = Kind[c] => d = c) =>
            written[Current(c)] = Current(c)

\* rw_msg_send and rwnx_recv_msg compare kinds only; that is enough for such a thread.
THEOREM OwnAnswers == Spec => []AnswerIsOwn
  <1>1. ASSUME Basics, FreshInv PROVE AnswerIsOwn
    <2> SUFFICES ASSUME NEW c \in Callers, caller[c].pc = "answered", Kind[c] \notin gaveUp,
                        \A d \in Callers : Kind[d] = Kind[c] => d = c
                 PROVE  written[Current(c)] = Current(c)
      BY DEF AnswerIsOwn
    <2>1. /\ Current(c) \in Calls /\ Current(c)[1] = c /\ Current(c)[2] = caller[c].n
          /\ \A x \in Calls : x[1] = c /\ x[2] = caller[c].n => x = Current(c)
      BY <1>1, CurrentIs DEF Basics
    <2>2. Fresh(written[Current(c)], Current(c))
      BY <1>1, <2>1 DEF FreshInv, WrittenFresh, Good, KindOf, IsAt
    <2>3. PICK a \in Calls : a = written[Current(c)]
      BY <2>2 DEF Fresh
    <2>4. a[1] = c /\ Sent(a) /\ a \notin older[c]
      BY <2>1, <2>2, <2>3, CallsAre DEF Fresh, KindOf
    <2>5. a[2] <= caller[c].n /\ a[2] \in Nat /\ caller[c].n \in Nat
      <3>1. a[2] \in 1 .. MaxCalls[c] /\ MaxCalls[c] \in Nat
        BY <2>4, CallsAre, CallersAssumption
      <3>2. caller[c].n \in Nat
        BY <1>1 DEF Basics, TypeOK, Places
      <3> QED
        BY <2>4, <3>1, <3>2 DEF Sent
    <2>6. ~(a[2] < caller[c].n)
      BY <1>1, <2>4 DEF FreshInv, QueueInv, OwnOlder
    <2> QED
      BY <2>1, <2>3, <2>4, <2>5, <2>6
  <1> QED
    BY <1>1, FreshInvariant, PTL
=============================================================================
