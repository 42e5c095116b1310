-------------------------- MODULE SoftTimerProofs ---------------------------
(***************************************************************************)
(* Theorems about SoftTimer, for any number of timers, kernel timers and   *)
(* places in the queue of commands.                                        *)
(*                                                                         *)
(* The invariant follows a kernel timer from the call that makes it to the *)
(* step that frees it: as long as an owner may still use it there is no    *)
(* delete for it, there is one delete at most, behind the last command of  *)
(* the owner, and from then on only the timer task's own restarts are left.*)
(***************************************************************************)
EXTENDS SoftTimer, TLAPS

-----------------------------------------------------------------------------
(* The life of a kernel timer *)

\* Commands for h among those in the queue.
Queued(h, cmds) == \E i \in DOMAIN queue : queue[i].h = h /\ queue[i].cmd \in cmds

\* An owner may still use h.
Held(h) == \E t \in Timers : bk[t].handle = h /\ owner[t] = "idle"

\* The timer task handles the delete of h.
Deleting(h) == task.why = "delete" /\ task.h = h

\* The delete of h has been taken from the queue.
Past(h) == Deleting(h) \/ (~kt[h].alive /\ kt[h].state # "unused")

TaskOK ==
    IF task.pc \in {"expiry", "commands"}
    THEN task.why = "none" /\ task.h = None
    ELSE /\ task.h \in Handles /\ task.why # "none"
         /\ task.pc \in {"clear", "free"} => task.why = "delete"
         /\ task.pc = "call" => task.t \in Timers

UnusedBlank ==
    \A h \in Handles : kt[h].state = "unused" =>
        /\ ~kt[h].alive /\ ~kt[h].listed /\ kt[h].id = None
        /\ ~Queued(h, Commands) /\ task.h # h
        /\ \A t \in Timers : bk[t].handle # h

OwnersOK ==
    \A t \in Timers :
        /\ owner[t] # "idle" => bk[t].handle # None /\ bk[t].state # "init"
        /\ owner[t] = "idle" /\ bk[t].handle # None =>
              bk[t].state = "init" /\ kt[bk[t].handle].id = t
        /\ bk[t].handle # None => kt[bk[t].handle].id \in {t, None}
        /\ owner[t] = "clear_id" => gaveUp[t]

HeldOnce ==
    \A t, u \in Timers : bk[t].handle = bk[u].handle /\ bk[t].handle # None => t = u

HeldAlive ==
    \A h \in Handles : Held(h) =>
        kt[h].alive /\ ~Queued(h, {"delete"}) /\ ~Past(h)

DeleteLast ==
    \A i \in DOMAIN queue : queue[i].cmd = "delete" =>
        /\ kt[queue[i].h].alive /\ ~Deleting(queue[i].h)
        /\ \A j \in DOMAIN queue : queue[j].h = queue[i].h /\ j # i =>
              queue[j].cmd # "delete" /\ (j > i => queue[j].cmd = "restart")

PastCommands ==
    \A h \in Handles : Past(h) =>
        \A i \in DOMAIN queue : queue[i].h = h => queue[i].cmd \in {"restart", "skip"}

SkipsPast ==
    \A i \in DOMAIN queue : queue[i].cmd = "skip" => Past(queue[i].h)

DeletingOK ==
    task.why = "delete" =>
        /\ kt[task.h].alive /\ ~kt[task.h].listed
        /\ task.pc # "clear" /\ ~missed[task.h] =>
              \A i \in DOMAIN queue : queue[i].h = task.h => queue[i].cmd = "skip"

CallbackOK ==
    task.why \in {"expired", "late"} =>
        /\ kt[task.h].alive \/ missed[task.h]
        /\ kt[task.h].state = "running"

ArmedOK ==
    \A h \in Handles :
        /\ kt[h].state = "running" => armed[h]
        /\ kt[h].listed => armed[h] /\ kt[h].state # "stopped"
        /\ kt[h].state # "stopped" /\ Queued(h, {"restart"}) => armed[h]

Life ==
    /\ TypeOK /\ TaskOK /\ UnusedBlank /\ OwnersOK /\ HeldOnce /\ HeldAlive
    /\ DeleteLast /\ PastCommands /\ SkipsPast /\ DeletingOK /\ CallbackOK
    /\ FreedTimersSkipped /\ ArmedOK /\ RunningIsScheduled

-----------------------------------------------------------------------------
(* Calls of the function *)

\* What a blocking delete has seen or is about to see.
WaitOK ==
    \A t \in Timers :
        /\ final[t] => /\ bk[t].state = "deleted"
                       /\ owner[t] = "finish" \/ (owner[t] = "idle" /\ bk[t].handle = None)
        /\ final[t] \/ (owner[t] = "wait" /\ bk[t].state = "deleted") =>
              ~(task.pc = "call" /\ task.t = t)

\* The structure that the callback has fetched is that of its timer, or its
\* owner has given up and taken it away.
FetchedOK ==
    task.pc \in {"test", "call"} /\ task.t # None =>
        \/ kt[task.h].id = task.t
        \/ gaveUp[task.t] /\ kt[task.h].id = None

\* A structure that is not used again belongs to its one kernel timer.
NotReused ==
    \A t \in Timers \ Reused :
        /\ gaveUp[t] => bk[t].state # "init"
        /\ \A h \in Handles : kt[h].id = t => bk[t].handle = h \/ bk[t].state = "deleted"

\* h is stopped, or will be when the commands in the queue have been handled.
Halted(h) ==
    \/ kt[h].state = "stopped" /\ ~Queued(h, {"start"})
    \/ \E i \in DOMAIN queue :
          /\ queue[i] = Command("stop", h)
          /\ \A j \in DOMAIN queue : j > i /\ queue[j].h = h => queue[j].cmd # "start"

Halting ==
    /\ \A t \in Stopping : \A h \in Handles : kt[h].id = t /\ ~Held(h) => Halted(h)
    /\ task.pc = "test" /\ task.t \in Stopping /\ ~Held(task.h) => Halted(task.h)

\* What begins when a timer has expired, before any command is handled.
Expiring ==
    \/ task.pc = "expiry"
    \/ task.why = "expired" /\ task.pc \in {"fetch", "test", "call"}

\* A blocking delete that did not give up has ended when the timer task was
\* about to handle all commands, and the timer was stopped by then.
Finished(t, h) == kt[h].id = t /\ (bk[t].handle # h \/ bk[t].state = "deleted")

EndedOK ==
    \A t \in Periodic \cap Blocking : ~gaveUp[t] =>
        /\ owner[t] = "finish" => bk[t].state = "deleted"
        /\ task.pc = "call" /\ task.t = t => bk[t].state # "deleted"
        /\ t \in Stopping => \A h \in Handles :
              Finished(t, h) /\ Expiring => kt[h].state = "stopped"

ReuseAfterStop == Reused \subseteq Periodic \cap Stopping

CallInv ==
    /\ WaitOK /\ FetchedOK /\ NotReused /\ Halting /\ EndedOK
    /\ DeleteOnlyMarks

-----------------------------------------------------------------------------
(* Lemmas on the types and on the queue *)

Cmds == [cmd : Commands, h : Handles]

\* A command that is sent is the last one, and the others keep their places.
LEMMA AppendIs ==
    ASSUME queue \in Seq(Cmds), NEW m \in Cmds, queue' = Append(queue, m)
    PROVE  /\ queue' \in Seq(Cmds) /\ Len(queue') = Len(queue) + 1
           /\ \A i \in DOMAIN queue' :
                 \/ i \in DOMAIN queue /\ queue'[i] = queue[i]
                 \/ i = Len(queue) + 1 /\ queue'[i] = m
           /\ \A i \in DOMAIN queue :
                 i \in DOMAIN queue' /\ queue'[i] = queue[i] /\ i < Len(queue) + 1
           /\ Len(queue) + 1 \in DOMAIN queue' /\ queue'[Len(queue) + 1] = m
  OBVIOUS

\* A command that is received was the first, and the others move up.
LEMMA TailIs ==
    ASSUME queue \in Seq(Cmds), queue # <<>>, queue' = Tail(queue)
    PROVE  /\ queue' \in Seq(Cmds) /\ Len(queue') = Len(queue) - 1
           /\ \A i \in DOMAIN queue' :
                 i \in Nat /\ i + 1 \in DOMAIN queue /\ queue'[i] = queue[i + 1]
           /\ \A i \in DOMAIN queue : i # 1 =>
                 i \in Nat /\ i - 1 \in DOMAIN queue' /\ queue'[i - 1] = queue[i]
           /\ 1 \in DOMAIN queue /\ queue[1] = Head(queue)
  OBVIOUS

\* Marking commands changes no place.
LEMMA SkippedIs ==
    ASSUME queue \in Seq(Cmds), NEW h \in Handles, SkipCommands(h)
    PROVE  /\ queue' \in Seq(Cmds) /\ Len(queue') = Len(queue)
           /\ DOMAIN queue' = DOMAIN queue
           /\ \A i \in DOMAIN queue :
                 queue'[i] = IF queue[i].h = h /\ HasRoom THEN Command("skip", h) ELSE queue[i]
  <1>1. \A i \in 1 .. Len(queue) : queue[i] \in Cmds
    OBVIOUS
  <1>2. Command("skip", h) \in Cmds
    BY DEF Command, Cmds, Commands
  <1>3. DOMAIN queue = 1 .. Len(queue) /\ Len(queue) \in Nat
    OBVIOUS
  <1>4. queue' \in [1 .. Len(queue) -> Cmds]
    BY <1>1, <1>2, <1>3 DEF SkipCommands
  <1>5. queue' \in Seq(Cmds) /\ Len(queue') = Len(queue)
    BY <1>3, <1>4
  <1> QED
    BY <1>3, <1>4, <1>5 DEF SkipCommands
KtType == [alive : BOOLEAN, state : {"unused", "init", "running", "stopped"},
           listed : BOOLEAN, auto : BOOLEAN, id : Timers \cup {None}]
BkType == [handle : Handles \cup {None},
           state : {"init", "deleting", "deleted"}, valid : BOOLEAN]
TaskType == [pc : {"expiry", "commands", "clear", "free", "fetch", "test", "call", "done"},
             h : Handles \cup {None}, t : Timers \cup {None},
             why : {"none", "expired", "late", "delete"}]

\* The types of the parts of the state.
LEMMA Typed ==
    ASSUME TypeOK
    PROVE  /\ bk \in [Timers -> BkType] /\ kt \in [Handles -> KtType]
           /\ queue \in Seq(Cmds) /\ task \in TaskType
           /\ \A t \in Timers : bk[t] \in BkType
           /\ \A h \in Handles : kt[h] \in KtType
           /\ \A i \in DOMAIN queue : queue[i].h \in Handles /\ queue[i].cmd \in Commands
           /\ None \notin Handles /\ None \notin Timers
  <1>1. bk \in [Timers -> BkType] /\ kt \in [Handles -> KtType]
        /\ queue \in Seq(Cmds) /\ task \in TaskType
    BY DEF TypeOK, BkType, KtType, TaskType, Cmds
  <1>2. \A i \in DOMAIN queue : queue[i] \in Cmds
    BY <1>1
  <1>3. \A i \in DOMAIN queue : queue[i].h \in Handles /\ queue[i].cmd \in Commands
    BY <1>2 DEF Cmds
  <1> QED
    BY <1>1, <1>3, TimersAssumption

\* An owner's command.
LEMMA LifeSend ==
    ASSUME Life, NEW t \in Timers, NEW cmd \in {"start", "stop", "change"}, Send(t, cmd)
    PROVE  Life'
  <1>1. PICK h \in Handles : h = bk[t].handle
    BY Typed DEF Life, Send, BkType
  <1>2. /\ queue' = Append(queue, Command(cmd, h)) /\ Command(cmd, h) \in Cmds
        /\ Command(cmd, h).cmd = cmd /\ Command(cmd, h).h = h
    BY <1>1 DEF Send, Command, Cmds, Commands
  <1>3. UNCHANGED <<bk, kt, task, owner, final, gaveUp, armed, missed, lost>>
    BY DEF Send, history
  <1>4. /\ queue' \in Seq(Cmds) /\ Len(queue') = Len(queue) + 1
        /\ \A i \in DOMAIN queue' :
              \/ i \in DOMAIN queue /\ queue'[i] = queue[i]
              \/ i = Len(queue) + 1 /\ queue'[i].cmd = cmd /\ queue'[i].h = h
        /\ \A i \in DOMAIN queue :
              i \in DOMAIN queue' /\ queue'[i] = queue[i] /\ i < Len(queue) + 1
    BY <1>2, AppendIs, Typed DEF Life
  <1>5. Held(h) /\ kt[h].state # "unused" /\ kt[h].alive /\ ~Past(h) /\ ~Queued(h, {"delete"})
    BY <1>1 DEF Life, Send, Held, UnusedBlank, HeldAlive
  <1>6. TypeOK'
    BY <1>3, <1>4, TimersAssumption DEF Life, Send, HasRoom, TypeOK, Cmds
  <1>7. TaskOK'
    BY <1>3, <1>4, <1>5
       DEF Life, TaskOK
  <1>8. UnusedBlank'
    BY <1>3, <1>4, <1>5
       DEF Life, UnusedBlank, Queued
  <1>9. OwnersOK'
    BY <1>3, <1>4, <1>5
       DEF Life, OwnersOK
  <1>10. HeldOnce'
    BY <1>3, <1>4, <1>5
       DEF Life, HeldOnce
  <1>11. HeldAlive'
    BY <1>3, <1>4, <1>5
       DEF Life, HeldAlive, Held, Past, Deleting, Queued
  <1>12. DeleteLast'
    BY <1>3, <1>4, <1>5
       DEF Life, DeleteLast, Deleting, Queued
  <1>13. PastCommands'
    BY <1>3, <1>4, <1>5
       DEF Life, PastCommands, Past, Deleting
  <1>14. SkipsPast'
    BY <1>3, <1>4, <1>5
       DEF Life, SkipsPast, Past, Deleting
  <1>15. DeletingOK'
    BY <1>3, <1>4, <1>5, Typed
       DEF Life, DeletingOK, TaskOK, Past, Deleting
  <1>16. CallbackOK'
    BY <1>3, <1>4, <1>5
       DEF Life, CallbackOK, TaskOK
  <1>17. FreedTimersSkipped'
    BY <1>3, <1>4, <1>5
       DEF Life, FreedTimersSkipped
  <1>18. ArmedOK'
    BY <1>3, <1>4, <1>5
       DEF Life, ArmedOK, Queued
  <1>19. RunningIsScheduled'
    BY <1>3, <1>4, <1>5
       DEF Life, RunningIsScheduled, Command
  <1> QED
    BY <1>6, <1>7, <1>8, <1>9, <1>10, <1>11, <1>12, <1>13, <1>14, <1>15, <1>16, <1>17,
       <1>18, <1>19 DEF Life

\* An owner makes a timer.
LEMMA LifeInit ==
    ASSUME Life, NEW t \in Timers, rtos_init_timer(t)
    PROVE  Life'
  <1>1. owner[t] = "idle" /\ bk[t].handle = None
    BY DEF rtos_init_timer
  <1>2. UNCHANGED <<queue, task, owner, gaveUp, armed, missed, lost>>
    BY DEF rtos_init_timer
  <1>3. /\ \A u \in Timers : u # t => bk'[u] = bk[u]
        /\ bk'[t].state = "init" /\ bk' \in [Timers -> BkType]
    <2>1. PICK x \in Handles \cup {None} :
             bk' = [bk EXCEPT ![t] = [handle |-> x, state |-> "init", valid |-> TRUE]]
      BY DEF rtos_init_timer
    <2> QED
      BY <2>1, Typed DEF Life, BkType
  <1>4. /\ kt' \in [Handles -> KtType]
        /\ \/ bk'[t].handle = None /\ kt' = kt
           \/ /\ bk'[t].handle \in Handles /\ kt[bk'[t].handle].state = "unused"
              /\ \A g \in Handles : g # bk'[t].handle => kt'[g] = kt[g]
              /\ kt'[bk'[t].handle] = [alive |-> TRUE, state |-> "init", listed |-> FALSE,
                                       auto |-> t \in Periodic, id |-> t]
    <2>1. kt \in [Handles -> KtType] /\ bk \in [Timers -> BkType] /\ t \in Timers
      BY Typed DEF Life
    <2>2. ASSUME NEW h \in Handles, kt[h].state = "unused",
                 kt' = [kt EXCEPT ![h] = [alive |-> TRUE, state |-> "init", listed |-> FALSE,
                                          auto |-> t \in Periodic, id |-> t]],
                 bk' = [bk EXCEPT ![t] = [handle |-> h, state |-> "init", valid |-> TRUE]]
          PROVE  /\ kt' \in [Handles -> KtType] /\ bk'[t].handle = h
                 /\ \A g \in Handles : g # h => kt'[g] = kt[g]
                 /\ kt'[h] = [alive |-> TRUE, state |-> "init", listed |-> FALSE,
                              auto |-> t \in Periodic, id |-> t]
      <3>1. [alive |-> TRUE, state |-> "init", listed |-> FALSE,
             auto |-> t \in Periodic, id |-> t] \in KtType
        BY DEF KtType
      <3>2. bk'[t].handle = h
        BY <2>1, <2>2
      <3> QED
        BY <2>1, <2>2, <3>1, <3>2
    <2>3. CASE /\ bk' = [bk EXCEPT ![t] = [handle |-> None, state |-> "init", valid |-> TRUE]]
               /\ UNCHANGED kt
      BY <2>1, <2>3
    <2> QED
      BY <2>2, <2>3 DEF rtos_init_timer
  <1>5. \A g \in Handles : Held(g) => Held(g)'
    BY <1>1, <1>2, <1>3, Typed DEF Life, Held
  <1>6. \A g \in Handles : Past(g)' <=> Past(g)
    BY <1>2, <1>4, Typed DEF Life, Past, Deleting, UnusedBlank, KtType
  <1>7. \A g \in Handles : g # bk'[t].handle => (Held(g)' <=> Held(g))
    BY <1>1, <1>2, <1>3, Typed DEF Life, Held
  <1>8. \A i \in DOMAIN queue : queue[i].h \in Handles /\ kt[queue[i].h].state # "unused"
                                  /\ (queue[i].h # bk'[t].handle \/ bk'[t].handle = None)
    BY <1>4, Typed DEF Life, UnusedBlank, Queued
  <1>9. TypeOK'
    BY <1>2, <1>3, <1>4 DEF Life, rtos_init_timer, TypeOK, BkType, KtType
  <1>10. TaskOK'
    BY <1>1, <1>2, <1>3, <1>4, Typed
       DEF Life, TaskOK, UnusedBlank
  <1>11. UnusedBlank'
    BY <1>1, <1>2, <1>3, <1>4, Typed
       DEF Life, UnusedBlank, Queued
  <1>12. OwnersOK'
    BY <1>1, <1>2, <1>3, <1>4, Typed
       DEF Life, OwnersOK, UnusedBlank, BkType, KtType
  <1>13. HeldOnce'
    BY <1>1, <1>2, <1>3, <1>4, Typed
       DEF Life, HeldOnce, UnusedBlank
  <1>14. HeldAlive'
    BY <1>1, <1>2, <1>3, <1>4, <1>6, <1>7, Typed
       DEF Life, HeldAlive, Held, Past, Deleting, Queued, UnusedBlank
  <1>15. DeleteLast'
    BY <1>1, <1>2, <1>3, <1>4, <1>8, Typed
       DEF Life, DeleteLast, Deleting, UnusedBlank
  <1>16. PastCommands'
    BY <1>1, <1>2, <1>3, <1>4, <1>6, Typed
       DEF Life, PastCommands, Past, Deleting
  <1>17. SkipsPast'
    BY <1>1, <1>2, <1>3, <1>4, <1>6, Typed
       DEF Life, SkipsPast, Past, Deleting
  <1>18. DeletingOK'
    BY <1>1, <1>2, <1>3, <1>4, Typed
       DEF Life, DeletingOK, TaskOK, UnusedBlank
  <1>19. CallbackOK'
    BY <1>1, <1>2, <1>3, <1>4, Typed
       DEF Life, CallbackOK, TaskOK, UnusedBlank
  <1>20. FreedTimersSkipped'
    BY <1>1, <1>2, <1>3, <1>4, Typed
       DEF Life, FreedTimersSkipped, UnusedBlank
  <1>21. ArmedOK'
    BY <1>1, <1>2, <1>3, <1>4, Typed
       DEF Life, ArmedOK, Queued, UnusedBlank
  <1>22. RunningIsScheduled'
    BY <1>1, <1>2, <1>3, <1>4, Typed
       DEF Life, RunningIsScheduled, Command, UnusedBlank
  <1> QED
    BY <1>9, <1>10, <1>11, <1>12, <1>13, <1>14, <1>15, <1>16, <1>17, <1>18, <1>19, <1>20,
       <1>21, <1>22 DEF Life

\* An owner's delete is the last command for its timer.
LEMMA LifeDeinit ==
    ASSUME Life, NEW t \in Timers, deinit_timer(t)
    PROVE  Life'
  <1>1. PICK h \in Handles : h = bk[t].handle
    BY Typed DEF Life, deinit_timer, MayDelete, BkType
  <1>2. /\ queue' = Append(queue, Command("delete", h)) /\ Command("delete", h) \in Cmds
        /\ Command("delete", h).cmd = "delete" /\ Command("delete", h).h = h
    BY <1>1 DEF deinit_timer, Command, Cmds, Commands
  <1>3. UNCHANGED <<kt, task, final, gaveUp, armed, missed, lost>> /\ owner[t] = "idle"
    BY DEF deinit_timer, MayDelete, history
  <1>4. \A u \in Timers : u # t => bk'[u] = bk[u] /\ owner'[u] = owner[u]
    BY Typed DEF Life, TypeOK, deinit_timer
  <1>5. /\ bk'[t].handle = bk[t].handle /\ bk'[t].state = "deleting"
        /\ owner'[t] # "idle" /\ owner'[t] # "clear_id"
    BY Typed DEF Life, TypeOK, deinit_timer, BkType
  <1>6. bk' \in [Timers -> BkType] /\ owner' \in [Timers -> {"idle", "wait", "clear_id", "finish"}]
    <2>1. bk[t].valid \in BOOLEAN
      BY Typed DEF Life, BkType
    <2>2. [bk[t] EXCEPT !.state = "deleting", !.valid = @ /\ t \in Periodic] \in BkType
      BY <2>1, Typed DEF Life, BkType
    <2>3. bk' = [bk EXCEPT ![t] = [bk[t] EXCEPT !.state = "deleting", !.valid = @ /\ t \in Periodic]]
      BY Typed DEF Life, deinit_timer, BkType
    <2> QED
      BY <2>2, <2>3, Typed DEF Life, deinit_timer, TypeOK
  <1>7. /\ queue' \in Seq(Cmds) /\ Len(queue') = Len(queue) + 1
        /\ \A i \in DOMAIN queue' :
              \/ i \in DOMAIN queue /\ queue'[i] = queue[i]
              \/ i = Len(queue) + 1 /\ queue'[i].cmd = "delete" /\ queue'[i].h = h
        /\ \A i \in DOMAIN queue :
              i \in DOMAIN queue' /\ queue'[i] = queue[i] /\ i < Len(queue) + 1
    BY <1>2, AppendIs, Typed DEF Life
  <1>8. /\ Held(h) /\ kt[h].state # "unused" /\ kt[h].alive /\ ~Past(h) /\ ~Queued(h, {"delete"})
        /\ bk[t].handle = h /\ h # None
        /\ \A u \in Timers : u # t => bk[u].handle # h
    BY <1>1, <1>3, Typed DEF Life, Held, UnusedBlank, HeldAlive, HeldOnce
  <1>9. TypeOK'
    BY <1>3, <1>6, <1>7, TimersAssumption DEF Life, deinit_timer, MayDelete, HasRoom,
       TypeOK, Cmds, BkType
  <1>10. TaskOK'
    BY <1>3, <1>4, <1>5, <1>7, <1>8
       DEF Life, TaskOK
  <1>11. UnusedBlank'
    BY <1>3, <1>4, <1>5, <1>7, <1>8
       DEF Life, UnusedBlank, Queued
  <1>12. OwnersOK'
    BY <1>3, <1>4, <1>5, <1>7, <1>8
       DEF Life, OwnersOK
  <1>13. HeldOnce'
    BY <1>3, <1>4, <1>5, <1>7, <1>8
       DEF Life, HeldOnce
  <1>14. HeldAlive'
    BY <1>3, <1>4, <1>5, <1>7, <1>8
       DEF Life, HeldAlive, Held, Past, Deleting, Queued
  <1>15. DeleteLast'
    BY <1>3, <1>4, <1>5, <1>7, <1>8, Typed
       DEF Life, DeleteLast, Deleting, Queued, Past
  <1>16. PastCommands'
    BY <1>3, <1>4, <1>5, <1>7, <1>8
       DEF Life, PastCommands, Past, Deleting
  <1>17. SkipsPast'
    BY <1>3, <1>4, <1>5, <1>7, <1>8
       DEF Life, SkipsPast, Past, Deleting
  <1>18. DeletingOK'
    BY <1>3, <1>4, <1>5, <1>7, <1>8, Typed
       DEF Life, DeletingOK, TaskOK, Past, Deleting
  <1>19. CallbackOK'
    BY <1>3, <1>4, <1>5, <1>7, <1>8
       DEF Life, CallbackOK, TaskOK
  <1>20. FreedTimersSkipped'
    BY <1>3, <1>4, <1>5, <1>7, <1>8
       DEF Life, FreedTimersSkipped
  <1>21. ArmedOK'
    BY <1>3, <1>4, <1>5, <1>7, <1>8
       DEF Life, ArmedOK, Queued
  <1>22. RunningIsScheduled'
    BY <1>3, <1>4, <1>5, <1>7, <1>8
       DEF Life, RunningIsScheduled, Command
  <1> QED
    BY <1>9, <1>10, <1>11, <1>12, <1>13, <1>14, <1>15, <1>16, <1>17, <1>18, <1>19, <1>20,
       <1>21, <1>22 DEF Life

\* The wait ends.
LEMMA LifeWait ==
    ASSUME Life, NEW t \in Timers, WaitEnds(t) \/ WaitGivesUp(t)
    PROVE  Life'
  <1>1. /\ UNCHANGED <<bk, kt, queue, task, armed, missed, lost>>
        /\ \A u \in Timers : u # t => owner'[u] = owner[u] /\ gaveUp'[u] = gaveUp[u]
        /\ owner[t] # "idle" /\ owner'[t] # "idle"
        /\ gaveUp[t] => gaveUp'[t]
        /\ owner'[t] = "clear_id" => gaveUp'[t]
    BY DEF Life, TypeOK, WaitEnds, WaitGivesUp
  <1>2. TypeOK'
    BY DEF Life, WaitEnds, WaitGivesUp, TypeOK
  <1>3. TaskOK'
    BY <1>1
       DEF Life, TaskOK
  <1>4. UnusedBlank'
    BY <1>1
       DEF Life, UnusedBlank, Queued
  <1>5. OwnersOK'
    BY <1>1
       DEF Life, OwnersOK
  <1>6. HeldOnce'
    BY <1>1
       DEF Life, HeldOnce
  <1>7. HeldAlive'
    BY <1>1
       DEF Life, HeldAlive, Held, Past, Deleting, Queued
  <1>8. DeleteLast'
    BY <1>1
       DEF Life, DeleteLast, Deleting
  <1>9. PastCommands'
    BY <1>1
       DEF Life, PastCommands, Past, Deleting
  <1>10. SkipsPast'
    BY <1>1
       DEF Life, SkipsPast, Past, Deleting
  <1>11. DeletingOK'
    BY <1>1
       DEF Life, DeletingOK, TaskOK
  <1>12. CallbackOK'
    BY <1>1
       DEF Life, CallbackOK, TaskOK
  <1>13. FreedTimersSkipped'
    BY <1>1
       DEF Life, FreedTimersSkipped
  <1>14. ArmedOK'
    BY <1>1
       DEF Life, ArmedOK, Queued
  <1>15. RunningIsScheduled'
    BY <1>1
       DEF Life, RunningIsScheduled, Command
  <1> QED
    BY <1>2, <1>3, <1>4, <1>5, <1>6, <1>7, <1>8, <1>9, <1>10, <1>11, <1>12, <1>13, <1>14,
       <1>15 DEF Life

\* The id is cleared.
LEMMA LifeClearID ==
    ASSUME Life, NEW t \in Timers, ClearTimerID(t)
    PROVE  Life'
  <1>1. PICK h \in Handles : h = bk[t].handle
    BY Typed DEF Life, ClearTimerID, OwnersOK, BkType
  <1>2. /\ UNCHANGED <<bk, queue, task, gaveUp, armed, missed, lost>>
        /\ \A u \in Timers : u # t => owner'[u] = owner[u]
        /\ owner[t] = "clear_id" /\ owner'[t] = "finish"
    BY DEF Life, TypeOK, ClearTimerID, history
  <1>3. /\ kt' \in [Handles -> KtType] /\ kt'[h].id = None
        /\ \A g \in Handles :
              /\ kt'[g].alive = kt[g].alive /\ kt'[g].state = kt[g].state
              /\ kt'[g].listed = kt[g].listed /\ kt'[g].auto = kt[g].auto
              /\ g # h => kt'[g].id = kt[g].id
    BY <1>1, Typed DEF Life, ClearTimerID, KtType
  <1>4. TypeOK'
    BY <1>3 DEF Life, ClearTimerID, TypeOK, history, KtType
  <1>5. TaskOK'
    BY <1>2, <1>3, Typed
       DEF Life, TaskOK
  <1>6. UnusedBlank'
    BY <1>2, <1>3, Typed
       DEF Life, UnusedBlank, Queued
  <1>7. OwnersOK'
    BY <1>2, <1>3, <1>1, Typed
       DEF Life, OwnersOK, HeldOnce, BkType
  <1>8. HeldOnce'
    BY <1>2, <1>3, Typed
       DEF Life, HeldOnce
  <1>9. HeldAlive'
    BY <1>2, <1>3, Typed
       DEF Life, HeldAlive, Held, Past, Deleting, Queued
  <1>10. DeleteLast'
    BY <1>2, <1>3, Typed
       DEF Life, DeleteLast, Deleting
  <1>11. PastCommands'
    BY <1>2, <1>3, Typed
       DEF Life, PastCommands, Past, Deleting
  <1>12. SkipsPast'
    BY <1>2, <1>3, Typed
       DEF Life, SkipsPast, Past, Deleting
  <1>13. DeletingOK'
    BY <1>2, <1>3, Typed
       DEF Life, DeletingOK, TaskOK
  <1>14. CallbackOK'
    BY <1>2, <1>3, Typed
       DEF Life, CallbackOK, TaskOK
  <1>15. FreedTimersSkipped'
    BY <1>2, <1>3, Typed
       DEF Life, FreedTimersSkipped
  <1>16. ArmedOK'
    BY <1>2, <1>3, Typed
       DEF Life, ArmedOK, Queued
  <1>17. RunningIsScheduled'
    BY <1>2, <1>3, Typed
       DEF Life, RunningIsScheduled, Command
  <1> QED
    BY <1>4, <1>5, <1>6, <1>7, <1>8, <1>9, <1>10, <1>11, <1>12, <1>13, <1>14, <1>15, <1>16,
       <1>17 DEF Life

\* The owner forgets the timer.
LEMMA LifeFinish ==
    ASSUME Life, NEW t \in Timers, FinishDeinit(t)
    PROVE  Life'
  <1>1. /\ UNCHANGED <<kt, queue, task, gaveUp, armed, missed, lost>>
        /\ \A u \in Timers : u # t => owner'[u] = owner[u] /\ bk'[u] = bk[u]
        /\ owner[t] = "finish" /\ owner'[t] = "idle" /\ bk'[t].handle = None
        /\ bk' \in [Timers -> BkType]
    BY Typed DEF Life, TypeOK, FinishDeinit, history, BkType
  <1>2. TypeOK'
    BY <1>1 DEF Life, FinishDeinit, TypeOK, history, BkType
  <1>3. TaskOK'
    BY <1>1, Typed
       DEF Life, TaskOK
  <1>4. UnusedBlank'
    BY <1>1, Typed
       DEF Life, UnusedBlank, Queued
  <1>5. OwnersOK'
    BY <1>1, Typed
       DEF Life, OwnersOK
  <1>6. HeldOnce'
    BY <1>1, Typed
       DEF Life, HeldOnce
  <1>7. HeldAlive'
    BY <1>1, Typed
       DEF Life, HeldAlive, Held, Past, Deleting, Queued
  <1>8. DeleteLast'
    BY <1>1, Typed
       DEF Life, DeleteLast, Deleting
  <1>9. PastCommands'
    BY <1>1, Typed
       DEF Life, PastCommands, Past, Deleting
  <1>10. SkipsPast'
    BY <1>1, Typed
       DEF Life, SkipsPast, Past, Deleting
  <1>11. DeletingOK'
    BY <1>1, Typed
       DEF Life, DeletingOK, TaskOK
  <1>12. CallbackOK'
    BY <1>1, Typed
       DEF Life, CallbackOK, TaskOK
  <1>13. FreedTimersSkipped'
    BY <1>1, Typed
       DEF Life, FreedTimersSkipped
  <1>14. ArmedOK'
    BY <1>1, Typed
       DEF Life, ArmedOK, Queued
  <1>15. RunningIsScheduled'
    BY <1>1, Typed
       DEF Life, RunningIsScheduled, Command
  <1> QED
    BY <1>2, <1>3, <1>4, <1>5, <1>6, <1>7, <1>8, <1>9, <1>10, <1>11, <1>12, <1>13, <1>14,
       <1>15 DEF Life

\* A restart joins the queue, or is lost and this is on record.
LEMMA RestartIs ==
    ASSUME TypeOK, NEW h \in Handles, Restart(h)
    PROVE  /\ queue' \in Seq(Cmds) /\ Len(queue') <= QueueLen
           /\ lost' \in [Handles -> BOOLEAN]
           /\ \A g \in Handles : lost[g] => lost'[g]
           /\ \A i \in DOMAIN queue' :
                 \/ i \in DOMAIN queue /\ queue'[i] = queue[i]
                 \/ /\ i = Len(queue) + 1 /\ queue'[i] = Command("restart", h)
                    /\ queue'[i].cmd = "restart" /\ queue'[i].h = h
           /\ \A i \in DOMAIN queue :
                 i \in DOMAIN queue' /\ queue'[i] = queue[i] /\ i < Len(queue) + 1
           /\ lost'[h] \/ \E i \in DOMAIN queue' : queue'[i] = Command("restart", h)
  <1>1. /\ Command("restart", h) \in Cmds
        /\ Command("restart", h).cmd = "restart" /\ Command("restart", h).h = h
    BY DEF Command, Cmds, Commands
  <1>2. queue \in Seq(Cmds) /\ QueueLen \in Nat /\ Len(queue) <= QueueLen
    BY Typed, TimersAssumption DEF TypeOK
  <1>3. /\ lost' \in [Handles -> BOOLEAN] /\ \A g \in Handles : lost[g] => lost'[g]
        /\ ~HasRoom => lost'[h]
    BY DEF Restart, TypeOK
  <1>4. CASE HasRoom
    <2>1. queue' = Append(queue, Command("restart", h))
      BY <1>4 DEF Restart
    <2>2. /\ queue' \in Seq(Cmds) /\ Len(queue') = Len(queue) + 1
          /\ \A i \in DOMAIN queue' :
                \/ i \in DOMAIN queue /\ queue'[i] = queue[i]
                \/ i = Len(queue) + 1 /\ queue'[i] = Command("restart", h)
          /\ \A i \in DOMAIN queue :
                i \in DOMAIN queue' /\ queue'[i] = queue[i] /\ i < Len(queue) + 1
          /\ Len(queue) + 1 \in DOMAIN queue' /\ queue'[Len(queue) + 1] = Command("restart", h)
      BY <1>1, <1>2, <2>1, AppendIs
    <2>3. Len(queue') <= QueueLen
      BY <1>2, <1>4, <2>2 DEF HasRoom
    <2> QED
      BY <1>1, <1>3, <2>2, <2>3
  <1>5. CASE ~HasRoom
    <2>1. queue' = queue
      BY <1>5 DEF Restart
    <2>2. \A i \in DOMAIN queue : i < Len(queue) + 1
      BY <1>2
    <2> QED
      BY <1>2, <1>3, <1>5, <2>1, <2>2
  <1> QED
    BY <1>4, <1>5

\* A timer expires; it is one that the owner has started.
LEMMA LifeExpired ==
    ASSUME Life, NEW h \in Handles, ProcessExpiredTimer(h)
    PROVE  Life'
  <1>1. task.pc = "expiry" /\ task.why = "none" /\ task.h = None /\ kt[h].listed
    BY DEF Life, ProcessExpiredTimer, TaskOK
  <1>2. kt[h].state # "unused" /\ (kt[h].alive \/ missed[h]) /\ armed[h] /\ h # None
    BY <1>1, TimersAssumption DEF Life, UnusedBlank, FreedTimersSkipped, ArmedOK
  <1>3. UNCHANGED <<bk, owner, final, gaveUp, armed, missed>>
    BY DEF ProcessExpiredTimer
  <1>4. /\ kt' \in [Handles -> KtType]
        /\ \A g \in Handles :
              /\ kt'[g].alive = kt[g].alive /\ kt'[g].state = kt[g].state
              /\ kt'[g].auto = kt[g].auto /\ kt'[g].id = kt[g].id
              /\ g # h => kt'[g].listed = kt[g].listed
    <2>1. kt' = kt \/ kt' = [kt EXCEPT ![h].listed = FALSE]
      BY DEF ProcessExpiredTimer
    <2>2. kt \in [Handles -> KtType] /\ FALSE \in BOOLEAN
      BY Typed DEF Life
    <2>3. CASE kt' = kt
      BY <2>2, <2>3
    <2>4. CASE kt' = [kt EXCEPT ![h].listed = FALSE]
      BY <2>2, <2>4 DEF KtType
    <2> QED
      BY <2>1, <2>3, <2>4
  <1>5. /\ queue' \in Seq(Cmds) /\ Len(queue') <= QueueLen
        /\ lost' \in [Handles -> BOOLEAN]
        /\ \A g \in Handles : lost[g] => lost'[g]
        /\ \A i \in DOMAIN queue' :
              \/ i \in DOMAIN queue /\ queue'[i] = queue[i]
              \/ /\ i = Len(queue) + 1 /\ queue'[i].cmd = "restart" /\ queue'[i].h = h
                 /\ kt[h].listed
        /\ \A i \in DOMAIN queue :
              i \in DOMAIN queue' /\ queue'[i] = queue[i] /\ i < Len(queue) + 1
        /\ kt[h].auto => kt'[h].listed \/ lost'[h]
                         \/ \E i \in DOMAIN queue' : queue'[i] = Command("restart", h)
    <2>1. TypeOK /\ queue \in Seq(Cmds) /\ lost \in [Handles -> BOOLEAN]
          /\ Len(queue) <= QueueLen /\ \A i \in DOMAIN queue : i < Len(queue) + 1
      BY Typed DEF Life, TypeOK
    <2>2. CASE kt[h].auto /\ UNCHANGED <<kt, queue, lost>>
      BY <1>1, <2>1, <2>2
    <2>3. CASE kt[h].auto /\ kt' = [kt EXCEPT ![h].listed = FALSE] /\ Restart(h)
      BY <1>1, <2>1, <2>3, RestartIs
    <2>4. CASE ~kt[h].auto /\ UNCHANGED <<queue, lost>>
      BY <2>1, <2>4
    <2> QED
      BY <2>2, <2>3, <2>4 DEF ProcessExpiredTimer
  <1>6. \/ /\ task'.pc = "fetch" /\ task'.h = h /\ task'.why = "expired"
           /\ kt[h].state = "running"
        \/ task'.pc = "commands" /\ task'.h = None /\ task'.why = "none"
    BY DEF ProcessExpiredTimer, CallIfRunning, Callback, GoOn, Idle
  <1>7. task' \in TaskType
    BY TimersAssumption DEF ProcessExpiredTimer, CallIfRunning, Callback, GoOn, Idle, TaskType
  <1>8. \A g \in Handles : /\ Queued(g, Commands)' => Queued(g, Commands) \/ g = h
                           /\ Queued(g, {"delete"})' => Queued(g, {"delete"})
    BY <1>5 DEF Queued
  <1>9. TypeOK'
    BY <1>3, <1>4, <1>5, <1>7 DEF Life, TypeOK, Cmds, KtType, TaskType
  <1>10. TaskOK'
    BY <1>1, <1>2, <1>3, <1>4, <1>5, <1>6, Typed
       DEF Life, TaskOK
  <1>11. UnusedBlank'
    BY <1>1, <1>2, <1>3, <1>4, <1>5, <1>6, <1>8, Typed
       DEF Life, UnusedBlank
  <1>12. OwnersOK'
    BY <1>1, <1>2, <1>3, <1>4, <1>5, <1>6, Typed
       DEF Life, OwnersOK, BkType
  <1>13. HeldOnce'
    BY <1>1, <1>2, <1>3, <1>4, <1>5, <1>6, Typed
       DEF Life, HeldOnce
  <1>14. HeldAlive'
    BY <1>1, <1>2, <1>3, <1>4, <1>5, <1>6, <1>8, Typed
       DEF Life, HeldAlive, Held, Past, Deleting
  <1>15. DeleteLast'
    <2>1. \A g \in Handles : kt'[g].alive = kt[g].alive /\ ~Deleting(g) /\ ~Deleting(g)'
      BY <1>1, <1>4, <1>6, Typed DEF Life, Deleting
    <2>2. \A i \in DOMAIN queue' : \/ i \in DOMAIN queue /\ queue'[i] = queue[i]
                                   \/ i = Len(queue) + 1 /\ queue'[i].cmd = "restart"
      BY <1>5
    <2>3. \A i \in DOMAIN queue : i < Len(queue) + 1
      BY <1>5
    <2>4. \A i \in DOMAIN queue' : queue'[i].cmd = "delete" =>
             i \in DOMAIN queue /\ queue'[i] = queue[i]
      BY <2>2
    <2> QED
      BY <2>1, <2>2, <2>3, <2>4, Typed DEF Life, DeleteLast
  <1>16. PastCommands'
    BY <1>1, <1>2, <1>3, <1>4, <1>5, <1>6, Typed
       DEF Life, PastCommands, Past, Deleting
  <1>17. SkipsPast'
    BY <1>1, <1>2, <1>3, <1>4, <1>5, <1>6, Typed
       DEF Life, SkipsPast, Past, Deleting
  <1>18. DeletingOK'
    BY <1>1, <1>2, <1>3, <1>4, <1>5, <1>6, Typed
       DEF Life, DeletingOK, TaskOK
  <1>19. CallbackOK'
    BY <1>1, <1>2, <1>3, <1>4, <1>5, <1>6, Typed
       DEF Life, CallbackOK, TaskOK
  <1>20. FreedTimersSkipped'
    BY <1>1, <1>2, <1>3, <1>4, <1>5, <1>6, Typed
       DEF Life, FreedTimersSkipped
  <1>21. ArmedOK'
    BY <1>1, <1>2, <1>3, <1>4, <1>5, <1>6, Typed
       DEF Life, ArmedOK, Queued
  <1>22. RunningIsScheduled'
    BY <1>1, <1>2, <1>3, <1>4, <1>5, <1>6, Typed
       DEF Life, RunningIsScheduled, Command
  <1> QED
    BY <1>9, <1>10, <1>11, <1>12, <1>13, <1>14, <1>15, <1>16, <1>17, <1>18, <1>19, <1>20,
       <1>21, <1>22 DEF Life

\* The timer task turns from the timers to the commands and back.
LEMMA LifeTurns ==
    ASSUME Life, BlockTask \/ CommandsDone
    PROVE  Life'
  <1>1. /\ UNCHANGED <<bk, kt, queue, owner, gaveUp, armed, missed, lost>>
        /\ task.why = "none" /\ task'.why = "none" /\ task.h = None /\ task'.h = None
        /\ task'.pc \in {"expiry", "commands"}
    BY DEF Life, TaskOK, BlockTask, CommandsDone, GoOn, Idle, history
  <1>2. TypeOK'
    BY DEF Life, BlockTask, CommandsDone, GoOn, Idle, history, TypeOK
  <1>3. TaskOK'
    BY <1>1
       DEF Life, TaskOK
  <1>4. UnusedBlank'
    BY <1>1, Typed
       DEF Life, UnusedBlank, Queued
  <1>5. OwnersOK'
    BY <1>1
       DEF Life, OwnersOK
  <1>6. HeldOnce'
    BY <1>1
       DEF Life, HeldOnce
  <1>7. HeldAlive'
    BY <1>1
       DEF Life, HeldAlive, Held, Past, Deleting, Queued
  <1>8. DeleteLast'
    BY <1>1
       DEF Life, DeleteLast, Deleting
  <1>9. PastCommands'
    BY <1>1
       DEF Life, PastCommands, Past, Deleting
  <1>10. SkipsPast'
    BY <1>1
       DEF Life, SkipsPast, Past, Deleting
  <1>11. DeletingOK'
    BY <1>1
       DEF Life, DeletingOK, TaskOK
  <1>12. CallbackOK'
    BY <1>1
       DEF Life, CallbackOK, TaskOK
  <1>13. FreedTimersSkipped'
    BY <1>1
       DEF Life, FreedTimersSkipped
  <1>14. ArmedOK'
    BY <1>1
       DEF Life, ArmedOK, Queued
  <1>15. RunningIsScheduled'
    BY <1>1
       DEF Life, RunningIsScheduled, Command
  <1> QED
    BY <1>2, <1>3, <1>4, <1>5, <1>6, <1>7, <1>8, <1>9, <1>10, <1>11, <1>12, <1>13, <1>14,
       <1>15 DEF Life

\* What is known of a command that the timer task receives.
LEMMA ReceiveIs ==
    ASSUME Life, NEW cmd \in Commands, NEW h \in Handles, Receive(cmd, h)
    PROVE  /\ queue' \in Seq(Cmds) /\ Len(queue') <= QueueLen
           /\ 1 \in DOMAIN queue /\ queue[1].cmd = cmd /\ queue[1].h = h
           /\ \A i \in DOMAIN queue' :
                 i \in Nat /\ i + 1 \in DOMAIN queue /\ queue'[i] = queue[i + 1]
           /\ \A i \in DOMAIN queue : i # 1 =>
                 i \in Nat /\ i - 1 \in DOMAIN queue' /\ queue'[i - 1] = queue[i]
           /\ queue[1] = Command(cmd, h)
           /\ task.why = "none" /\ task.h = None /\ h # None
           /\ kt[h].state # "unused"
           /\ cmd # "skip" => kt[h].alive \/ missed[h]
  <1>1. /\ queue \in Seq(Cmds) /\ queue # <<>> /\ queue' = Tail(queue)
        /\ Head(queue) = Command(cmd, h) /\ Len(queue) <= QueueLen /\ QueueLen \in Nat
    BY Typed, TimersAssumption DEF Life, Receive, TypeOK
  <1>2. /\ queue' \in Seq(Cmds) /\ Len(queue') = Len(queue) - 1
        /\ \A i \in DOMAIN queue' :
              i \in Nat /\ i + 1 \in DOMAIN queue /\ queue'[i] = queue[i + 1]
        /\ \A i \in DOMAIN queue : i # 1 =>
              i \in Nat /\ i - 1 \in DOMAIN queue' /\ queue'[i - 1] = queue[i]
        /\ 1 \in DOMAIN queue /\ queue[1] = Head(queue)
    BY <1>1, TailIs
  <1>3. Len(queue') <= QueueLen
    BY <1>1, <1>2
  <1>4. queue[1].cmd = cmd /\ queue[1].h = h
    BY <1>1, <1>2 DEF Command
  <1>5. task.why = "none" /\ task.h = None /\ h # None
    BY Typed DEF Life, Receive, TaskOK
  <1>6. kt[h].state # "unused"
    BY <1>2, <1>4 DEF Life, UnusedBlank, Queued
  <1>7. cmd # "skip" => kt[h].alive \/ missed[h]
    BY <1>2, <1>4 DEF Life, FreedTimersSkipped
  <1> QED
    BY <1>1, <1>2, <1>3, <1>4, <1>5, <1>6, <1>7

\* What any command but a delete may do to its timer, and what is then known.
LEMMA LifeReceived ==
    ASSUME Life, NEW cmd \in Commands, NEW h \in Handles, Receive(cmd, h),
           UNCHANGED <<bk, owner, final, gaveUp, missed, lost>>,
           kt' \in [Handles -> KtType], task' \in TaskType, armed' \in [Handles -> BOOLEAN],
           \A g \in Handles :
              /\ kt'[g].alive = kt[g].alive /\ kt'[g].auto = kt[g].auto /\ kt'[g].id = kt[g].id
              /\ g # h => kt'[g] = kt[g] /\ armed'[g] = armed[g],
           kt'[h].state # "unused",
           kt'[h].listed => kt'[h].state # "stopped" /\ (kt[h].alive \/ missed[h]),
           kt'[h].listed \/ kt'[h].state = "running" => armed'[h],
           kt'[h].state # "stopped" => armed'[h] \/ kt[h].state # "stopped",
           armed[h] => armed'[h] \/ kt'[h].state = "stopped",
           \/ task' = task /\ (kt[h].alive /\ kt'[h].state = "running" => kt'[h].listed)
           \/ /\ task'.pc = "fetch" /\ task'.h = h /\ task'.why = "late"
              /\ kt'[h].state = "running" /\ (kt[h].alive \/ missed[h])
    PROVE  Life'
  <1>1. /\ queue' \in Seq(Cmds) /\ Len(queue') <= QueueLen
        /\ 1 \in DOMAIN queue /\ queue[1].cmd = cmd /\ queue[1].h = h
        /\ \A i \in DOMAIN queue' :
              i \in Nat /\ i + 1 \in DOMAIN queue /\ queue'[i] = queue[i + 1]
        /\ \A i \in DOMAIN queue : i # 1 =>
              i \in Nat /\ i - 1 \in DOMAIN queue' /\ queue'[i - 1] = queue[i]
    BY ReceiveIs
  <1>2. /\ task.why = "none" /\ task.h = None /\ h # None /\ kt[h].state # "unused"
    BY ReceiveIs
  <1>3. UNCHANGED <<bk, owner, final, gaveUp, missed, lost>> /\ task.pc = "commands"
    BY DEF Receive
  <1>4. /\ kt' \in [Handles -> KtType]
        /\ \A g \in Handles :
              /\ kt'[g].alive = kt[g].alive /\ kt'[g].auto = kt[g].auto /\ kt'[g].id = kt[g].id
              /\ g # h => kt'[g] = kt[g]
        /\ kt'[h].state # "unused"
        /\ kt'[h].listed => kt'[h].state # "stopped" /\ (kt[h].alive \/ missed[h])
    OBVIOUS
  <1>5. /\ \/ task' = task /\ (kt[h].alive /\ kt'[h].state = "running" => kt'[h].listed)
           \/ /\ task'.pc = "fetch" /\ task'.h = h /\ task'.why = "late"
              /\ kt'[h].state = "running" /\ (kt[h].alive \/ missed[h])
        /\ task' \in TaskType
    OBVIOUS
  <1>6. /\ armed' \in [Handles -> BOOLEAN] /\ \A g \in Handles : g # h => armed'[g] = armed[g]
        /\ kt'[h].listed \/ kt'[h].state = "running" => armed'[h]
        /\ kt'[h].state # "stopped" => armed'[h] \/ kt[h].state # "stopped"
        /\ armed[h] => armed'[h] \/ kt'[h].state = "stopped"
    OBVIOUS
  <1>7. \A g \in Handles : /\ Queued(g, Commands)' => Queued(g, Commands)
                           /\ Queued(g, {"delete"})' => Queued(g, {"delete"})
                           /\ Queued(g, {"restart"})' => Queued(g, {"restart"})
    BY <1>1 DEF Queued
  <1>8. \A g \in Handles : /\ kt'[g].state = "unused" <=> kt[g].state = "unused"
                           /\ Deleting(g)' <=> Deleting(g)
                           /\ Past(g)' <=> Past(g)
    BY <1>2, <1>4, <1>5 DEF Past, Deleting
  <1>9. TypeOK'
    BY <1>1, <1>3, <1>4, <1>5, <1>6 DEF Life, TypeOK, Cmds, KtType, TaskType
  <1>10. TaskOK'
    BY <1>1, <1>2, <1>3, <1>4, <1>5, <1>6, Typed
       DEF Life, TaskOK
  <1>11. UnusedBlank'
    <2> SUFFICES ASSUME NEW g \in Handles, kt'[g].state = "unused"
                 PROVE  /\ ~kt'[g].alive /\ ~kt'[g].listed /\ kt'[g].id = None
                        /\ ~Queued(g, Commands)' /\ task'.h # g
                        /\ \A t \in Timers : bk'[t].handle # g
      BY DEF UnusedBlank
    <2>1. kt[g].state = "unused" /\ g # h
      BY <1>2, <1>4, <1>8
    <2>2. /\ ~kt[g].alive /\ ~kt[g].listed /\ kt[g].id = None
          /\ ~Queued(g, Commands) /\ task.h # g
          /\ \A t \in Timers : bk[t].handle # g
      BY <2>1 DEF Life, UnusedBlank
    <2> QED
      BY <1>3, <1>4, <1>5, <1>7, <2>1, <2>2
  <1>12. OwnersOK'
    BY <1>1, <1>2, <1>3, <1>4, <1>5, <1>6, Typed
       DEF Life, OwnersOK, BkType
  <1>13. HeldOnce'
    BY <1>1, <1>2, <1>3, <1>4, <1>5, <1>6, Typed
       DEF Life, HeldOnce
  <1>14. HeldAlive'
    BY <1>1, <1>2, <1>3, <1>4, <1>5, <1>6, <1>7, Typed, <1>8
       DEF Life, HeldAlive, Held
  <1>15. DeleteLast'
    <2> SUFFICES ASSUME NEW i \in DOMAIN queue', queue'[i].cmd = "delete"
                 PROVE  /\ kt'[queue'[i].h].alive
                        /\ ~(task'.why = "delete" /\ task'.h = queue'[i].h)
                        /\ \A j \in DOMAIN queue' : queue'[j].h = queue'[i].h /\ j # i =>
                              queue'[j].cmd # "delete" /\ (j > i => queue'[j].cmd = "restart")
      BY DEF DeleteLast, Deleting
    <2>1. i \in Nat /\ i + 1 \in DOMAIN queue /\ queue'[i] = queue[i + 1]
          /\ queue[i + 1].h \in Handles
      BY <1>1, Typed DEF Life
    <2>2. kt[queue[i + 1].h].alive /\ ~Deleting(queue[i + 1].h)
          /\ \A j \in DOMAIN queue : queue[j].h = queue[i + 1].h /\ j # i + 1 =>
                queue[j].cmd # "delete" /\ (j > i + 1 => queue[j].cmd = "restart")
      BY <2>1 DEF Life, DeleteLast
    <2>3. ASSUME NEW j \in DOMAIN queue', queue'[j].h = queue'[i].h, j # i
          PROVE  queue'[j].cmd # "delete" /\ (j > i => queue'[j].cmd = "restart")
      <3>1. j \in Nat /\ j + 1 \in DOMAIN queue /\ queue'[j] = queue[j + 1]
        BY <1>1
      <3>2. j + 1 # i + 1 /\ (j > i => j + 1 > i + 1)
        BY <2>1, <2>3, <3>1
      <3> QED
        BY <2>1, <2>2, <2>3, <3>1, <3>2
    <2>4. kt'[queue'[i].h].alive /\ ~(task'.why = "delete" /\ task'.h = queue'[i].h)
      BY <1>4, <1>5, <1>2, <2>1, <2>2 DEF Deleting
    <2> QED
      BY <2>1, <2>2, <2>3, <2>4
  <1>16. PastCommands'
    BY <1>1, <1>2, <1>3, <1>4, <1>5, <1>6, Typed, <1>8
       DEF Life, PastCommands
  <1>17. SkipsPast'
    BY <1>1, <1>2, <1>3, <1>4, <1>5, <1>6, Typed, <1>8
       DEF Life, SkipsPast
  <1>18. DeletingOK'
    BY <1>1, <1>2, <1>3, <1>4, <1>5, <1>6, Typed
       DEF Life, DeletingOK, TaskOK
  <1>19. CallbackOK'
    BY <1>1, <1>2, <1>3, <1>4, <1>5, <1>6, Typed
       DEF Life, CallbackOK, TaskOK
  <1>20. FreedTimersSkipped'
    <2> SUFFICES ASSUME NEW g \in Handles, ~kt'[g].alive, ~missed'[g]
                 PROVE  /\ ~kt'[g].listed
                        /\ \A i \in DOMAIN queue' : queue'[i].h = g => queue'[i].cmd = "skip"
      BY DEF FreedTimersSkipped
    <2>1. /\ ~kt[g].listed
          /\ \A i \in DOMAIN queue : queue[i].h = g => queue[i].cmd = "skip"
      BY <1>3, <1>4 DEF Life, FreedTimersSkipped
    <2>2. ~kt'[g].listed
      BY <1>2, <1>3, <1>4, <2>1
    <2> QED
      BY <1>1, <2>1, <2>2
  <1>21. ArmedOK'
    <2> SUFFICES ASSUME NEW g \in Handles
                 PROVE  /\ kt'[g].state = "running" => armed'[g]
                        /\ kt'[g].listed => armed'[g] /\ kt'[g].state # "stopped"
                        /\ kt'[g].state # "stopped" /\ Queued(g, {"restart"})' => armed'[g]
      BY DEF ArmedOK
    <2>1. /\ kt[g].state = "running" => armed[g]
          /\ kt[g].listed => armed[g] /\ kt[g].state # "stopped"
          /\ kt[g].state # "stopped" /\ Queued(g, {"restart"}) => armed[g]
      BY DEF Life, ArmedOK
    <2>2. CASE g = h
      BY <1>4, <1>6, <1>7, <2>1, <2>2
    <2>3. CASE g # h
      BY <1>4, <1>6, <1>7, <2>1, <2>3
    <2> QED
      BY <2>2, <2>3
  <1>22. RunningIsScheduled'
    <2> SUFFICES ASSUME NEW g \in Handles, kt'[g].alive, kt'[g].auto, kt'[g].state = "running"
                 PROVE  \/ kt'[g].listed \/ lost'[g]
                        \/ \E i \in DOMAIN queue' : queue'[i] = Command("restart", g)
                        \/ task'.h = g /\ task'.why \in {"late", "delete"}
      BY DEF RunningIsScheduled, Command
    <2>1. CASE g = h
      BY <1>4, <1>5, <2>1
    <2>2. CASE g # h
      <3>1. \/ kt[g].listed \/ lost[g]
            \/ \E i \in DOMAIN queue : queue[i] = Command("restart", g)
        BY <1>2, <1>4, <2>2 DEF Life, RunningIsScheduled
      <3>2. ASSUME NEW i \in DOMAIN queue, queue[i] = Command("restart", g)
            PROVE  \E j \in DOMAIN queue' : queue'[j] = Command("restart", g)
        <4>1. i # 1
          BY <1>1, <2>2, <3>2 DEF Command
        <4> QED
          BY <1>1, <3>2, <4>1
      <3> QED
        BY <1>3, <1>4, <2>2, <3>1, <3>2
    <2> QED
      BY <2>1, <2>2
  <1> QED
    BY <1>9, <1>10, <1>11, <1>12, <1>13, <1>14, <1>15, <1>16, <1>17, <1>18, <1>19, <1>20,
       <1>21, <1>22 DEF Life

\* A start, or a restart of a timer that has not been stopped since.
LEMMA LifeStart ==
    ASSUME Life, NEW cmd \in {"start", "restart"}, NEW h \in Handles, ReceiveStart(cmd, h)
    PROVE  Life'
  <1>1. /\ Receive(cmd, h) /\ cmd \in Commands
        /\ UNCHANGED <<bk, owner, final, gaveUp, missed, lost>>
    BY DEF ReceiveStart, Commands
  <1>2. /\ kt[h].alive \/ missed[h]
        /\ queue[1].cmd = cmd /\ queue[1].h = h /\ 1 \in DOMAIN queue
        /\ kt[h].state # "unused"
    BY <1>1, ReceiveIs
  <1>3. kt \in [Handles -> KtType] /\ kt[h] \in KtType /\ task \in TaskType
    BY Typed DEF Life
  <1>4. /\ armed' \in [Handles -> BOOLEAN]
        /\ \A g \in Handles : g # h => armed'[g] = armed[g]
        /\ armed'[h] = (armed[h] \/ cmd = "start")
    BY DEF Life, TypeOK, ReceiveStart
  <1>5. cmd = "restart" /\ kt[h].state # "stopped" => armed[h]
    BY <1>2 DEF Life, ArmedOK, Queued
  <1>6. CASE Restartable(cmd, h)
    <2>1. /\ kt' \in [Handles -> KtType]
          /\ \A g \in Handles :
                /\ kt'[g].alive = kt[g].alive /\ kt'[g].auto = kt[g].auto /\ kt'[g].id = kt[g].id
                /\ g # h => kt'[g] = kt[g]
          /\ kt'[h].state = "running"
          /\ (kt'[h].listed /\ UNCHANGED task) \/ Callback(h, "late")
      BY <1>3, <1>6 DEF ReceiveStart, KtType
    <2>2. \/ task' = task /\ kt'[h].listed
          \/ task'.pc = "fetch" /\ task'.h = h /\ task'.why = "late"
      BY <2>1 DEF Callback
    <2>3. task' \in TaskType
      BY <1>3, <2>1 DEF Callback, TaskType
    <2>4. armed'[h]
      BY <1>4, <1>5, <1>6 DEF Restartable
    <2> QED
      BY <1>1, <1>2, <1>4, <2>1, <2>2, <2>3, <2>4, LifeReceived
  <1>7. CASE ~Restartable(cmd, h)
    <2>1. kt' = [kt EXCEPT ![h].listed = FALSE] /\ task' = task
      BY <1>7 DEF ReceiveStart
    <2>2. /\ kt' \in [Handles -> KtType]
          /\ \A g \in Handles :
                /\ kt'[g].alive = kt[g].alive /\ kt'[g].auto = kt[g].auto /\ kt'[g].id = kt[g].id
                /\ g # h => kt'[g] = kt[g]
          /\ kt'[h].state = kt[h].state /\ ~kt'[h].listed /\ task' = task
      BY <1>3, <2>1 DEF KtType
    <2>3. kt[h].state = "stopped"
      BY <1>7 DEF Restartable
    <2> QED
      BY <1>1, <1>2, <1>3, <1>4, <2>2, <2>3, LifeReceived
  <1> QED
    BY <1>6, <1>7

\* A stop.
LEMMA LifeStop ==
    ASSUME Life, NEW h \in Handles, ReceiveStop(h)
    PROVE  Life'
  <1>1. /\ Receive("stop", h) /\ "stop" \in Commands
        /\ UNCHANGED <<bk, owner, final, gaveUp, missed, lost>> /\ task' = task
    BY DEF ReceiveStop, Commands, history
  <1>2. /\ kt \in [Handles -> KtType] /\ kt[h] \in KtType /\ task \in TaskType
        /\ armed \in [Handles -> BOOLEAN] /\ kt[h].state # "unused"
    BY <1>1, Typed, ReceiveIs DEF Life, TypeOK
  <1>3. kt[h].alive \/ missed[h]
    BY <1>1, ReceiveIs
  <1>4. /\ kt' \in [Handles -> KtType]
        /\ \A g \in Handles :
              /\ kt'[g].alive = kt[g].alive /\ kt'[g].auto = kt[g].auto /\ kt'[g].id = kt[g].id
              /\ g # h => kt'[g] = kt[g]
        /\ kt'[h].state = "stopped" /\ ~kt'[h].listed
    BY <1>2 DEF ReceiveStop, KtType
  <1>5. /\ armed' \in [Handles -> BOOLEAN]
        /\ \A g \in Handles : g # h => armed'[g] = armed[g]
        /\ armed'[h] = FALSE
    BY <1>2 DEF ReceiveStop
  <1> QED
    BY <1>1, <1>2, <1>3, <1>4, <1>5, LifeReceived

\* A change of the period.
LEMMA LifeChange ==
    ASSUME Life, NEW h \in Handles, ReceiveChangePeriod(h)
    PROVE  Life'
  <1>1. /\ Receive("change", h) /\ "change" \in Commands
        /\ UNCHANGED <<bk, owner, final, gaveUp, missed, lost>> /\ task' = task
    BY DEF ReceiveChangePeriod, Commands, history
  <1>2. /\ kt \in [Handles -> KtType] /\ kt[h] \in KtType /\ task \in TaskType
        /\ armed \in [Handles -> BOOLEAN] /\ kt[h].state # "unused"
    BY <1>1, Typed, ReceiveIs DEF Life, TypeOK
  <1>3. kt[h].alive \/ missed[h]
    BY <1>1, ReceiveIs
  <1>4. /\ kt' \in [Handles -> KtType]
        /\ \A g \in Handles :
              /\ kt'[g].alive = kt[g].alive /\ kt'[g].auto = kt[g].auto /\ kt'[g].id = kt[g].id
              /\ g # h => kt'[g] = kt[g]
        /\ kt'[h].state = kt[h].state /\ kt'[h].listed = (kt[h].state # "stopped")
    BY <1>2 DEF ReceiveChangePeriod, KtType
  <1>5. /\ armed' \in [Handles -> BOOLEAN]
        /\ \A g \in Handles : g # h => armed'[g] = armed[g]
        /\ armed'[h] = (armed[h] \/ kt[h].state # "stopped")
    BY <1>2 DEF ReceiveChangePeriod
  <1> QED
    BY <1>1, <1>2, <1>3, <1>4, <1>5, LifeReceived

\* A command that the delete of its timer has marked.
LEMMA LifeSkip ==
    ASSUME Life, NEW h \in Handles, ReceiveSkip(h)
    PROVE  Life'
  <1>1. /\ Receive("skip", h) /\ "skip" \in Commands
        /\ UNCHANGED <<bk, owner, final, gaveUp, missed, lost>> /\ task' = task
    BY DEF ReceiveSkip, Commands, history
  <1>2. /\ kt \in [Handles -> KtType] /\ kt[h] \in KtType /\ task \in TaskType
        /\ armed \in [Handles -> BOOLEAN] /\ kt[h].state # "unused"
    BY <1>1, Typed, ReceiveIs DEF Life, TypeOK
  <1>3. ~kt[h].alive /\ (kt[h].state = "running" => armed[h])
    <2>1. queue[1].cmd = "skip" /\ queue[1].h = h /\ 1 \in DOMAIN queue /\ task.why = "none"
      BY <1>1, ReceiveIs
    <2>2. Past(h)
      BY <2>1 DEF Life, SkipsPast
    <2> QED
      BY <2>1, <2>2 DEF Past, Deleting, Life, ArmedOK
  <1>4. /\ kt' \in [Handles -> KtType]
        /\ \A g \in Handles :
              /\ kt'[g].alive = kt[g].alive /\ kt'[g].auto = kt[g].auto /\ kt'[g].id = kt[g].id
              /\ g # h => kt'[g] = kt[g]
        /\ kt'[h].state = kt[h].state /\ ~kt'[h].listed
    BY <1>2 DEF ReceiveSkip, KtType
  <1>5. /\ armed' \in [Handles -> BOOLEAN]
        /\ \A g \in Handles : g # h => armed'[g] = armed[g]
        /\ armed'[h] = armed[h]
    BY <1>2 DEF ReceiveSkip, history
  <1> QED
    BY <1>1, <1>2, <1>3, <1>4, <1>5, LifeReceived

\* A delete: from now on the timer is past its commands.
LEMMA LifeDelete ==
    ASSUME Life, NEW h \in Handles, ReceiveDelete(h)
    PROVE  Life'
  <1>1. /\ queue' \in Seq(Cmds) /\ Len(queue') <= QueueLen
        /\ 1 \in DOMAIN queue /\ queue[1].cmd = "delete" /\ queue[1].h = h
        /\ \A i \in DOMAIN queue' :
              i \in Nat /\ i + 1 \in DOMAIN queue /\ queue'[i] = queue[i + 1]
        /\ \A i \in DOMAIN queue : i # 1 =>
              i \in Nat /\ i - 1 \in DOMAIN queue' /\ queue'[i - 1] = queue[i]
        /\ queue[1] = Command("delete", h)
    BY ReceiveIs DEF ReceiveDelete, Commands
  <1>2. /\ task.why = "none" /\ task.h = None /\ h # None /\ kt[h].state # "unused"
    BY ReceiveIs DEF ReceiveDelete, Commands
  <1>3. /\ kt[h].alive /\ ~Past(h)
        /\ \A j \in DOMAIN queue : queue[j].h = h /\ j # 1 => queue[j].cmd = "restart"
    BY <1>1, <1>2 DEF Life, DeleteLast, Past, Deleting
  <1>4. UNCHANGED <<bk, owner, final, gaveUp, missed, lost, armed>>
    BY DEF ReceiveDelete, history
  <1>5. /\ kt' \in [Handles -> KtType]
        /\ \A g \in Handles :
              /\ kt'[g].alive = kt[g].alive /\ kt'[g].auto = kt[g].auto /\ kt'[g].id = kt[g].id
              /\ kt'[g].state = kt[g].state
              /\ g # h => kt'[g] = kt[g]
        /\ ~kt'[h].listed
    BY Typed DEF Life, ReceiveDelete, KtType
  <1>6. task' \in TaskType /\ task'.pc = "clear" /\ task'.h = h /\ task'.why = "delete"
    BY DEF ReceiveDelete, TaskType
  <1>7. \A g \in Handles : /\ Queued(g, Commands)' => Queued(g, Commands)
                           /\ Queued(g, {"delete"})' => Queued(g, {"delete"})
                           /\ Queued(g, {"restart"})' => Queued(g, {"restart"})
    BY <1>1 DEF Queued
  <1>8. \A g \in Handles : g # h => (Past(g)' <=> Past(g))
    BY <1>2, <1>5, <1>6 DEF Past, Deleting
  <1>9. \A i \in DOMAIN queue' : queue'[i].h = h => queue'[i].cmd = "restart"
    BY <1>1, <1>3
  <1>10. TypeOK'
    BY <1>1, <1>4, <1>5, <1>6 DEF Life, TypeOK, Cmds, KtType, TaskType
  <1>11. TaskOK'
    BY <1>6 DEF TaskOK
  <1>12. UnusedBlank'
    <2> SUFFICES ASSUME NEW g \in Handles, kt'[g].state = "unused"
                 PROVE  /\ ~kt'[g].alive /\ ~kt'[g].listed /\ kt'[g].id = None
                        /\ ~Queued(g, Commands)' /\ task'.h # g
                        /\ \A t \in Timers : bk'[t].handle # g
      BY DEF UnusedBlank
    <2>1. kt[g].state = "unused" /\ g # h
      BY <1>2, <1>5
    <2>2. /\ ~kt[g].alive /\ ~kt[g].listed /\ kt[g].id = None
          /\ ~Queued(g, Commands) /\ task.h # g
          /\ \A t \in Timers : bk[t].handle # g
      BY <2>1 DEF Life, UnusedBlank
    <2> QED
      BY <1>4, <1>5, <1>6, <1>7, <2>1, <2>2
  <1>13. OwnersOK'
    BY <1>4, <1>5, Typed DEF Life, OwnersOK, BkType
  <1>14. HeldOnce'
    BY <1>4 DEF Life, HeldOnce
  <1>15. HeldAlive'
    <2>1. ~Held(h)
      BY <1>1 DEF Life, HeldAlive, Queued
    <2>2. \A g \in Handles : Held(g)' <=> Held(g)
      BY <1>4 DEF Held
    <2> QED
      BY <1>5, <1>7, <1>8, <2>1, <2>2 DEF Life, HeldAlive
  <1>16. DeleteLast'
    <2> SUFFICES ASSUME NEW i \in DOMAIN queue', queue'[i].cmd = "delete"
                 PROVE  /\ kt'[queue'[i].h].alive
                        /\ ~(task'.why = "delete" /\ task'.h = queue'[i].h)
                        /\ \A j \in DOMAIN queue' : queue'[j].h = queue'[i].h /\ j # i =>
                              queue'[j].cmd # "delete" /\ (j > i => queue'[j].cmd = "restart")
      BY DEF DeleteLast, Deleting
    <2>1. i \in Nat /\ i + 1 \in DOMAIN queue /\ queue'[i] = queue[i + 1]
          /\ queue[i + 1].h \in Handles /\ queue[i + 1].h # h
      BY <1>1, <1>9, Typed DEF Life
    <2>2. kt[queue[i + 1].h].alive
          /\ \A j \in DOMAIN queue : queue[j].h = queue[i + 1].h /\ j # i + 1 =>
                queue[j].cmd # "delete" /\ (j > i + 1 => queue[j].cmd = "restart")
      BY <2>1 DEF Life, DeleteLast
    <2>3. ASSUME NEW j \in DOMAIN queue', queue'[j].h = queue'[i].h, j # i
          PROVE  queue'[j].cmd # "delete" /\ (j > i => queue'[j].cmd = "restart")
      <3>1. j \in Nat /\ j + 1 \in DOMAIN queue /\ queue'[j] = queue[j + 1]
        BY <1>1
      <3>2. j + 1 # i + 1 /\ (j > i => j + 1 > i + 1)
        BY <2>1, <2>3, <3>1
      <3> QED
        BY <2>1, <2>2, <2>3, <3>1, <3>2
    <2> QED
      BY <1>5, <1>6, <2>1, <2>2, <2>3
  <1>17. PastCommands'
    <2> SUFFICES ASSUME NEW g \in Handles, Past(g)', NEW i \in DOMAIN queue', queue'[i].h = g
                 PROVE  queue'[i].cmd \in {"restart", "skip"}
      BY DEF PastCommands
    <2>1. CASE g = h
      BY <1>9, <2>1
    <2>2. CASE g # h
      BY <1>1, <1>8, <2>2 DEF Life, PastCommands
    <2> QED
      BY <2>1, <2>2
  <1>18. SkipsPast'
    <2> SUFFICES ASSUME NEW i \in DOMAIN queue', queue'[i].cmd = "skip"
                 PROVE  \/ task'.why = "delete" /\ task'.h = queue'[i].h
                        \/ ~kt'[queue'[i].h].alive /\ kt'[queue'[i].h].state # "unused"
      BY DEF SkipsPast, Past, Deleting
    <2>1. /\ i + 1 \in DOMAIN queue /\ queue'[i] = queue[i + 1]
          /\ queue[i + 1].h \in Handles /\ queue[i + 1].h # h
      BY <1>1, <1>9, Typed DEF Life
    <2>2. Past(queue[i + 1].h)
      BY <2>1 DEF Life, SkipsPast
    <2>3. ~kt[queue[i + 1].h].alive /\ kt[queue[i + 1].h].state # "unused"
      BY <1>2, <2>1, <2>2 DEF Past, Deleting
    <2> QED
      BY <1>5, <2>1, <2>3
  <1>19. DeletingOK'
    BY <1>3, <1>5, <1>6 DEF DeletingOK
  <1>20. CallbackOK'
    BY <1>6 DEF CallbackOK
  <1>21. FreedTimersSkipped'
    <2> SUFFICES ASSUME NEW g \in Handles, ~kt'[g].alive, ~missed'[g]
                 PROVE  /\ ~kt'[g].listed
                        /\ \A i \in DOMAIN queue' : queue'[i].h = g => queue'[i].cmd = "skip"
      BY DEF FreedTimersSkipped
    <2>1. /\ g # h /\ ~kt[g].listed
          /\ \A i \in DOMAIN queue : queue[i].h = g => queue[i].cmd = "skip"
      BY <1>3, <1>4, <1>5 DEF Life, FreedTimersSkipped
    <2> QED
      BY <1>1, <1>5, <2>1
  <1>22. ArmedOK'
    <2> SUFFICES ASSUME NEW g \in Handles
                 PROVE  /\ kt'[g].state = "running" => armed'[g]
                        /\ kt'[g].listed => armed'[g] /\ kt'[g].state # "stopped"
                        /\ kt'[g].state # "stopped" /\ Queued(g, {"restart"})' => armed'[g]
      BY DEF ArmedOK
    <2>1. /\ kt[g].state = "running" => armed[g]
          /\ kt[g].listed => armed[g] /\ kt[g].state # "stopped"
          /\ kt[g].state # "stopped" /\ Queued(g, {"restart"}) => armed[g]
      BY DEF Life, ArmedOK
    <2> QED
      BY <1>4, <1>5, <1>7, <2>1
  <1>23. RunningIsScheduled'
    <2> SUFFICES ASSUME NEW g \in Handles, kt'[g].alive, kt'[g].auto, kt'[g].state = "running"
                 PROVE  \/ kt'[g].listed \/ lost'[g]
                        \/ \E i \in DOMAIN queue' : queue'[i] = Command("restart", g)
                        \/ task'.h = g /\ task'.why \in {"late", "delete"}
      BY DEF RunningIsScheduled, Command
    <2>1. CASE g = h
      BY <1>6, <2>1
    <2>2. CASE g # h
      <3>1. \/ kt[g].listed \/ lost[g]
            \/ \E i \in DOMAIN queue : queue[i] = Command("restart", g)
        BY <1>2, <1>5, <2>2 DEF Life, RunningIsScheduled
      <3>2. ASSUME NEW i \in DOMAIN queue, queue[i] = Command("restart", g)
            PROVE  \E j \in DOMAIN queue' : queue'[j] = Command("restart", g)
        <4>1. i # 1
          BY <1>1, <2>2, <3>2 DEF Command
        <4> QED
          BY <1>1, <3>2, <4>1
      <3> QED
        BY <1>4, <1>5, <2>2, <3>1, <3>2
    <2> QED
      BY <2>1, <2>2
  <1> QED
    BY <1>10, <1>11, <1>12, <1>13, <1>14, <1>15, <1>16, <1>17, <1>18, <1>19, <1>20,
       <1>21, <1>22, <1>23 DEF Life

\* The callback up to its return, and its return to a delete: all it may
\* do is to mark a structure as deleted.
LEMMA LifeCallback ==
    ASSUME Life, FetchTimer \/ TestTimer \/ CallFunction
                 \/ (CallbackDone /\ task.why = "delete")
    PROVE  Life'
  <1>1. UNCHANGED <<kt, queue, owner, final, gaveUp, armed, missed, lost>>
    BY DEF FetchTimer, TestTimer, CallFunction, CallbackDone, history
  <1>2. /\ task.pc \in {"fetch", "test", "call", "done"} /\ task.h \in Handles /\ task.why # "none"
        /\ task.pc = "call" => task.t \in Timers
    BY DEF Life, TaskOK, FetchTimer, TestTimer, CallFunction, CallbackDone
  <1>3. /\ task' \in TaskType /\ task'.h = task.h /\ task'.why = task.why
        /\ task'.pc \in {"test", "call", "done", "free"}
        /\ task'.pc = "free" => task.why = "delete"
        /\ task'.pc = "call" => task'.t \in Timers
    <2>1. task \in TaskType /\ kt[task.h] \in KtType
      BY <1>2, Typed DEF Life
    <2>2. CASE FetchTimer
      BY <2>1, <2>2 DEF FetchTimer, TaskType, KtType
    <2>3. CASE TestTimer
      BY <2>1, <2>3 DEF TestTimer, TaskType
    <2>4. CASE CallFunction
      BY <2>1, <2>4 DEF CallFunction, TaskType
    <2>5. CASE CallbackDone /\ task.why = "delete"
      BY <2>1, <2>5 DEF CallbackDone, TaskType
    <2> QED
      BY <2>2, <2>3, <2>4, <2>5
  <1>4. /\ bk' \in [Timers -> BkType]
        /\ \A t \in Timers : bk'[t].handle = bk[t].handle /\ bk'[t].valid = bk[t].valid
                             /\ (bk'[t].state = "init" <=> bk[t].state = "init")
    <2>1. bk \in [Timers -> BkType] /\ \A t \in Timers : bk[t] \in BkType
      BY Typed DEF Life
    <2>2. CASE bk' = bk
      BY <2>1, <2>2
    <2>3. ASSUME NEW t \in Timers, MarkDeleted(t), bk' = [bk EXCEPT ![t].state = "deleted"]
          PROVE  /\ bk' \in [Timers -> BkType]
                 /\ \A u \in Timers :
                       bk'[u].handle = bk[u].handle /\ bk'[u].valid = bk[u].valid
                       /\ (bk'[u].state = "init" <=> bk[u].state = "init")
      <3>1. bk[t].state = "deleting"
        BY <2>3 DEF MarkDeleted
      <3> QED
        BY <2>1, <2>3, <3>1 DEF BkType
    <2>4. bk' = bk \/ \E t \in Timers : MarkDeleted(t) /\ bk' = [bk EXCEPT ![t].state = "deleted"]
      <3>1. CASE TestTimer
        BY <3>1, Typed DEF Life, TestTimer, TaskType
      <3>2. CASE FetchTimer \/ CallFunction \/ CallbackDone
        BY <3>2 DEF FetchTimer, CallFunction, CallbackDone
      <3> QED
        BY <3>1, <3>2
    <2> QED
      BY <2>2, <2>3, <2>4
  <1>5. \A g \in Handles : /\ Deleting(g)' <=> Deleting(g)
                           /\ Past(g)' <=> Past(g)
                           /\ Held(g)' <=> Held(g)
                           /\ Queued(g, Commands)' <=> Queued(g, Commands)
                           /\ Queued(g, {"delete"})' <=> Queued(g, {"delete"})
                           /\ Queued(g, {"restart"})' <=> Queued(g, {"restart"})
    BY <1>1, <1>3, <1>4 DEF Past, Deleting, Held, Queued
  <1>6. TypeOK'
    BY <1>1, <1>3, <1>4 DEF Life, TypeOK, TaskType, BkType
  <1>7. TaskOK'
    BY <1>1, <1>2, <1>3, <1>4
       DEF Life, TaskOK
  <1>8. UnusedBlank'
    BY <1>1, <1>2, <1>3, <1>4, <1>5
       DEF Life, UnusedBlank
  <1>9. OwnersOK'
    BY <1>1, <1>2, <1>3, <1>4, Typed
       DEF Life, OwnersOK, BkType
  <1>10. HeldOnce'
    BY <1>1, <1>2, <1>3, <1>4
       DEF Life, HeldOnce
  <1>11. HeldAlive'
    BY <1>1, <1>2, <1>3, <1>4, <1>5
       DEF Life, HeldAlive
  <1>12. DeleteLast'
    BY <1>1, <1>2, <1>3, <1>4, <1>5, Typed
       DEF Life, DeleteLast, Deleting
  <1>13. PastCommands'
    BY <1>1, <1>2, <1>3, <1>4, <1>5
       DEF Life, PastCommands
  <1>14. SkipsPast'
    BY <1>1, <1>2, <1>3, <1>4, <1>5, Typed
       DEF Life, SkipsPast, Past, Deleting
  <1>15. DeletingOK'
    BY <1>1, <1>2, <1>3, <1>4
       DEF Life, DeletingOK, TaskOK
  <1>16. CallbackOK'
    BY <1>1, <1>2, <1>3, <1>4
       DEF Life, CallbackOK, TaskOK
  <1>17. FreedTimersSkipped'
    BY <1>1, <1>2, <1>3, <1>4
       DEF Life, FreedTimersSkipped
  <1>18. ArmedOK'
    BY <1>1, <1>2, <1>3, <1>4, <1>5
       DEF Life, ArmedOK
  <1>19. RunningIsScheduled'
    BY <1>1, <1>2, <1>3, <1>4
       DEF Life, RunningIsScheduled, Command
  <1> QED
    BY <1>6, <1>7, <1>8, <1>9, <1>10, <1>11, <1>12, <1>13, <1>14, <1>15, <1>16, <1>17,
       <1>18, <1>19 DEF Life

\* The callback of an expiry or of a late start returns.
LEMMA LifeReturns ==
    ASSUME Life, CallbackDone, task.why # "delete"
    PROVE  Life'
  <1> DEFINE h == task.h
  <1>1. /\ task.why # "delete" /\ task.why # "none" /\ h \in Handles /\ h # None
    BY Typed DEF Life, CallbackDone, TaskOK
  <1>2. /\ kt[h].alive \/ missed[h]
        /\ kt[h].state = "running" /\ armed[h]
    BY <1>1, Typed DEF Life, CallbackOK, TaskType, ArmedOK
  <1>3. UNCHANGED <<bk, kt, owner, final, gaveUp, armed, missed>>
    BY DEF CallbackDone
  <1>4. task'.pc = "commands" /\ task'.h = None /\ task'.why = "none" /\ task' \in TaskType
    BY <1>1, TimersAssumption DEF CallbackDone, GoOn, Idle, TaskType
  <1>5. /\ queue' \in Seq(Cmds) /\ Len(queue') <= QueueLen
        /\ lost' \in [Handles -> BOOLEAN]
        /\ \A g \in Handles : lost[g] => lost'[g]
        /\ \A i \in DOMAIN queue' :
              \/ i \in DOMAIN queue /\ queue'[i] = queue[i]
              \/ /\ i = Len(queue) + 1 /\ queue'[i].cmd = "restart" /\ queue'[i].h = h
        /\ \A i \in DOMAIN queue :
              i \in DOMAIN queue' /\ queue'[i] = queue[i] /\ i < Len(queue) + 1
        /\ task.why = "late" /\ kt[h].auto =>
              lost'[h] \/ \E i \in DOMAIN queue' : queue'[i] = Command("restart", h)
    <2>1. TypeOK /\ queue \in Seq(Cmds) /\ lost \in [Handles -> BOOLEAN]
          /\ Len(queue) <= QueueLen /\ \A i \in DOMAIN queue : i < Len(queue) + 1
      BY Typed DEF Life, TypeOK
    <2>2. CASE task.why = "late" /\ kt[h].auto /\ Restart(h)
      BY <1>1, <2>1, <2>2, RestartIs
    <2>3. CASE ~(task.why = "late" /\ kt[h].auto) /\ UNCHANGED <<queue, lost>>
      BY <2>1, <2>3
    <2> QED
      BY <2>2, <2>3 DEF CallbackDone
  <1>6. \A g \in Handles : /\ Queued(g, Commands)' => Queued(g, Commands) \/ g = h
                           /\ Queued(g, {"delete"})' => Queued(g, {"delete"})
                           /\ Queued(g, {"restart"})' => Queued(g, {"restart"}) \/ g = h
    BY <1>5 DEF Queued
  <1>7. \A g \in Handles : /\ ~Deleting(g) /\ ~Deleting(g)'
                           /\ Past(g)' <=> Past(g)
                           /\ Held(g)' <=> Held(g)
    BY <1>1, <1>3, <1>4 DEF Past, Deleting, Held
  <1>8. \A i \in DOMAIN queue' : queue'[i].cmd # "restart" => i \in DOMAIN queue /\ queue'[i] = queue[i]
    BY <1>5
  <1>9. TypeOK'
    BY <1>3, <1>4, <1>5 DEF Life, TypeOK, Cmds, KtType, TaskType
  <1>10. h = task.h
    OBVIOUS
  <1> HIDE DEF h
  <1>11. TaskOK'
    BY <1>1, <1>2, <1>3, <1>4, <1>5
       DEF Life, TaskOK
  <1>12. UnusedBlank'
    <2> SUFFICES ASSUME NEW g \in Handles, kt'[g].state = "unused"
                 PROVE  /\ ~kt'[g].alive /\ ~kt'[g].listed /\ kt'[g].id = None
                        /\ ~Queued(g, Commands)' /\ task'.h # g
                        /\ \A t \in Timers : bk'[t].handle # g
      BY DEF UnusedBlank
    <2>1. kt[g].state = "unused" /\ g # h
      BY <1>2, <1>3
    <2>2. /\ ~kt[g].alive /\ ~kt[g].listed /\ kt[g].id = None
          /\ ~Queued(g, Commands)
          /\ \A t \in Timers : bk[t].handle # g
      BY <2>1 DEF Life, UnusedBlank
    <2> QED
      BY <1>3, <1>4, <1>6, <2>1, <2>2, Typed DEF Life
  <1>13. OwnersOK'
    BY <1>1, <1>2, <1>3, <1>4, <1>5, Typed
       DEF Life, OwnersOK, BkType
  <1>14. HeldOnce'
    BY <1>1, <1>2, <1>3, <1>4, <1>5
       DEF Life, HeldOnce
  <1>15. HeldAlive'
    BY <1>1, <1>2, <1>3, <1>4, <1>5, <1>6, <1>7
       DEF Life, HeldAlive
  <1>16. DeleteLast'
    <2>1. \A i \in DOMAIN queue' : queue'[i].cmd = "delete" =>
             i \in DOMAIN queue /\ queue'[i] = queue[i]
      BY <1>8
    <2>2. \A i \in DOMAIN queue : i < Len(queue) + 1
      BY <1>5
    <2>3. \A i \in DOMAIN queue' : \/ i \in DOMAIN queue /\ queue'[i] = queue[i]
                                   \/ i = Len(queue) + 1 /\ queue'[i].cmd = "restart"
      BY <1>5
    <2> QED
      BY <1>3, <1>7, <2>1, <2>2, <2>3, Typed DEF Life, DeleteLast
  <1>17. PastCommands'
    BY <1>1, <1>2, <1>3, <1>4, <1>5, <1>7
       DEF Life, PastCommands
  <1>18. SkipsPast'
    BY <1>1, <1>2, <1>3, <1>4, <1>5, <1>7, <1>8, Typed
       DEF Life, SkipsPast, Past, Deleting
  <1>19. DeletingOK'
    BY <1>1, <1>2, <1>3, <1>4, <1>5
       DEF Life, DeletingOK, TaskOK
  <1>20. CallbackOK'
    BY <1>1, <1>2, <1>3, <1>4, <1>5
       DEF Life, CallbackOK, TaskOK
  <1>21. FreedTimersSkipped'
    BY <1>1, <1>2, <1>3, <1>4, <1>5
       DEF Life, FreedTimersSkipped
  <1>22. ArmedOK'
    BY <1>1, <1>2, <1>3, <1>4, <1>5, <1>6, <1>7
       DEF Life, ArmedOK
  <1>23. RunningIsScheduled'
    <2> SUFFICES ASSUME NEW g \in Handles, kt'[g].alive, kt'[g].auto, kt'[g].state = "running"
                 PROVE  \/ kt'[g].listed \/ lost'[g]
                        \/ \E i \in DOMAIN queue' : queue'[i] = Command("restart", g)
                        \/ task'.h = g /\ task'.why \in {"late", "delete"}
      BY DEF RunningIsScheduled, Command
    <2>1. \/ kt[g].listed \/ lost[g]
          \/ \E i \in DOMAIN queue : queue[i] = Command("restart", g)
          \/ h = g /\ task.why = "late"
      BY <1>1, <1>3, <1>10 DEF Life, RunningIsScheduled
    <2> QED
      BY <1>3, <1>5, <2>1
  <1> QED
    BY <1>9, <1>11, <1>12, <1>13, <1>14, <1>15, <1>16, <1>17, <1>18, <1>19, <1>20, <1>21,
       <1>22, <1>23 DEF Life

\* The delete marks the commands that are left, unless the queue is full.
LEMMA LifeClear ==
    ASSUME Life, ClearQueuedMsg
    PROVE  Life'
  <1> DEFINE h == task.h
  <1>1. h \in Handles /\ task.why = "delete" /\ h = task.h /\ task.pc = "clear"
    BY DEF Life, ClearQueuedMsg, TaskOK
  <1>2. UNCHANGED <<bk, kt, owner, final, gaveUp, armed, lost>>
    BY DEF ClearQueuedMsg
  <1>3. /\ queue' \in Seq(Cmds) /\ Len(queue') = Len(queue)
        /\ DOMAIN queue' = DOMAIN queue
        /\ \A i \in DOMAIN queue :
              queue'[i] = IF queue[i].h = h /\ HasRoom THEN Command("skip", h) ELSE queue[i]
    BY <1>1, SkippedIs, Typed DEF Life, ClearQueuedMsg
  <1>4. \A i \in DOMAIN queue : queue'[i].h = queue[i].h
                                /\ (queue'[i].cmd = queue[i].cmd \/ queue'[i].cmd = "skip")
                                /\ (queue[i].h # h => queue'[i] = queue[i])
    BY <1>3 DEF Command
  <1>5. /\ missed' \in [Handles -> BOOLEAN]
        /\ \A g \in Handles : g # h => missed'[g] = missed[g]
        /\ ~missed'[h] => HasRoom
    BY <1>1, Typed DEF Life, ClearQueuedMsg, TypeOK
  <1>6. task' \in TaskType /\ task'.h = h /\ task'.why = "delete" /\ task'.pc \in {"fetch", "free"}
    BY <1>1, Typed DEF Life, ClearQueuedMsg, TaskType
  <1> HIDE DEF h
  <1>7. \A g \in Handles : /\ Queued(g, Commands)' => Queued(g, Commands)
                           /\ Queued(g, {"delete"})' => Queued(g, {"delete"})
                           /\ Queued(g, {"restart"})' => Queued(g, {"restart"})
    <2>1. \A i \in DOMAIN queue : queue[i].cmd \in Commands
      BY Typed DEF Life
    <2> QED
      BY <1>3, <1>4, <2>1 DEF Queued
  <1>8. \A g \in Handles : /\ Deleting(g)' <=> Deleting(g)
                           /\ Past(g)' <=> Past(g)
                           /\ Held(g)' <=> Held(g)
    BY <1>1, <1>2, <1>6 DEF Past, Deleting, Held
  <1>9. kt[h].alive /\ ~kt[h].listed /\ Past(h)
    BY <1>1 DEF Life, DeletingOK, Past, Deleting
  <1>10. TypeOK'
    BY <1>2, <1>3, <1>5, <1>6 DEF Life, TypeOK, Cmds, TaskType
  <1>11. TaskOK'
    BY <1>1, <1>6 DEF TaskOK
  <1>12. UnusedBlank'
    BY <1>1, <1>2, <1>6, <1>7 DEF Life, UnusedBlank
  <1>13. OwnersOK'
    BY <1>2 DEF Life, OwnersOK
  <1>14. HeldOnce'
    BY <1>2 DEF Life, HeldOnce
  <1>15. HeldAlive'
    BY <1>2, <1>7, <1>8 DEF Life, HeldAlive
  <1>16. DeleteLast'
    <2> SUFFICES ASSUME NEW i \in DOMAIN queue, queue'[i].cmd = "delete"
                 PROVE  /\ kt[queue[i].h].alive
                        /\ ~(task'.why = "delete" /\ task'.h = queue[i].h)
                        /\ \A j \in DOMAIN queue : queue[j].h = queue[i].h /\ j # i =>
                              queue'[j].cmd # "delete" /\ (j > i => queue'[j].cmd = "restart")
      BY <1>2, <1>3, <1>4 DEF DeleteLast, Deleting
    <2>1. queue[i].cmd = "delete"
      BY <1>4
    <2>2. queue[i].h # h /\ kt[queue[i].h].alive
      BY <1>1, <2>1 DEF Life, DeleteLast, Deleting
    <2>3. \A j \in DOMAIN queue : queue[j].h = queue[i].h /\ j # i =>
             queue[j].cmd # "delete" /\ (j > i => queue[j].cmd = "restart")
      BY <2>1 DEF Life, DeleteLast
    <2> QED
      BY <1>4, <1>6, <2>2, <2>3
  <1>17. PastCommands'
    BY <1>3, <1>4, <1>8 DEF Life, PastCommands
  <1>18. SkipsPast'
    <2> SUFFICES ASSUME NEW i \in DOMAIN queue, queue'[i].cmd = "skip"
                 PROVE  Past(queue[i].h)
      BY <1>1, <1>2, <1>3, <1>4, <1>6 DEF SkipsPast, Past, Deleting
    <2>1. CASE queue[i].h = h
      BY <1>9, <2>1
    <2>2. CASE queue[i].h # h
      BY <1>4, <2>2 DEF Life, SkipsPast
    <2> QED
      BY <2>1, <2>2
  <1>19. DeletingOK'
    <2>1. ~missed'[h] => \A i \in DOMAIN queue : queue'[i].h = h => queue'[i].cmd = "skip"
      BY <1>3, <1>4, <1>5 DEF Command
    <2> QED
      BY <1>2, <1>3, <1>6, <1>9, <2>1 DEF DeletingOK
  <1>20. CallbackOK'
    BY <1>6 DEF CallbackOK
  <1>21. FreedTimersSkipped'
    BY <1>2, <1>3, <1>4, <1>5, <1>9 DEF Life, FreedTimersSkipped
  <1>22. ArmedOK'
    BY <1>2, <1>7 DEF Life, ArmedOK
  <1>23. RunningIsScheduled'
    <2>1. \A g \in Handles : g # h => \A i \in DOMAIN queue :
             queue[i] = Command("restart", g) => queue'[i] = Command("restart", g)
      BY <1>4 DEF Command
    <2> QED
      BY <1>1, <1>2, <1>3, <1>6, <2>1 DEF Life, RunningIsScheduled
  <1> QED
    BY <1>10, <1>11, <1>12, <1>13, <1>14, <1>15, <1>16, <1>17, <1>18, <1>19, <1>20,
       <1>21, <1>22, <1>23 DEF Life

\* The timer is freed: what is left of it in the queue is to be skipped.
LEMMA LifeFree ==
    ASSUME Life, FreeTimer
    PROVE  Life'
  <1> DEFINE h == task.h
  <1>1. h \in Handles /\ task.why = "delete" /\ h = task.h /\ task.pc = "free"
    BY DEF Life, FreeTimer, TaskOK
  <1>2. UNCHANGED <<bk, queue, owner, final, gaveUp, armed, missed, lost>>
    BY DEF FreeTimer, history
  <1>3. task'.pc = "commands" /\ task'.h = None /\ task'.why = "none" /\ task' \in TaskType
    BY TimersAssumption DEF FreeTimer, GoOn, Idle, TaskType
  <1>4. /\ kt' \in [Handles -> KtType]
        /\ \A g \in Handles :
              /\ kt'[g].state = kt[g].state /\ kt'[g].listed = kt[g].listed
              /\ kt'[g].auto = kt[g].auto /\ kt'[g].id = kt[g].id
              /\ g # h => kt'[g].alive = kt[g].alive
        /\ ~kt'[h].alive
    BY <1>1, Typed DEF Life, FreeTimer, KtType
  <1> HIDE DEF h
  <1>5. /\ kt[h].alive /\ ~kt[h].listed /\ kt[h].state # "unused" /\ h # None
        /\ ~missed[h] => \A i \in DOMAIN queue : queue[i].h = h => queue[i].cmd = "skip"
    BY <1>1, TimersAssumption DEF Life, DeletingOK, UnusedBlank
  <1>6. \A g \in Handles : /\ Queued(g, Commands)' <=> Queued(g, Commands)
                           /\ Queued(g, {"delete"})' <=> Queued(g, {"delete"})
                           /\ Queued(g, {"restart"})' <=> Queued(g, {"restart"})
                           /\ Past(g)' <=> Past(g)
                           /\ Held(g)' <=> Held(g)
    BY <1>1, <1>2, <1>3, <1>4, <1>5 DEF Queued, Past, Deleting, Held
  <1>7. Past(h)
    BY <1>1 DEF Past, Deleting
  <1>8. TypeOK'
    BY <1>2, <1>3, <1>4 DEF Life, TypeOK, KtType, TaskType
  <1>9. TaskOK'
    BY <1>3 DEF TaskOK
  <1>10. UnusedBlank'
    BY <1>2, <1>3, <1>4, <1>5, <1>6, Typed DEF Life, UnusedBlank
  <1>11. OwnersOK'
    BY <1>2, <1>4, Typed DEF Life, OwnersOK, BkType
  <1>12. HeldOnce'
    BY <1>2 DEF Life, HeldOnce
  <1>13. HeldAlive'
    BY <1>4, <1>6, <1>7 DEF Life, HeldAlive
  <1>14. DeleteLast'
    <2> SUFFICES ASSUME NEW i \in DOMAIN queue, queue[i].cmd = "delete"
                 PROVE  /\ kt'[queue[i].h].alive
                        /\ \A j \in DOMAIN queue : queue[j].h = queue[i].h /\ j # i =>
                              queue[j].cmd # "delete" /\ (j > i => queue[j].cmd = "restart")
      BY <1>2, <1>3 DEF DeleteLast, Deleting
    <2>1. queue[i].h # h /\ queue[i].h \in Handles
      BY <1>1, Typed DEF Life, DeleteLast, Deleting
    <2> QED
      BY <1>4, <2>1 DEF Life, DeleteLast
  <1>15. PastCommands'
    BY <1>2, <1>6 DEF Life, PastCommands
  <1>16. SkipsPast'
    <2> SUFFICES ASSUME NEW i \in DOMAIN queue, queue[i].cmd = "skip"
                 PROVE  ~kt'[queue[i].h].alive /\ kt'[queue[i].h].state # "unused"
      BY <1>2 DEF SkipsPast, Past
    <2>1. Past(queue[i].h) /\ queue[i].h \in Handles
      BY Typed DEF Life, SkipsPast
    <2> QED
      BY <1>1, <1>4, <1>5, <2>1 DEF Past, Deleting
  <1>17. DeletingOK' /\ CallbackOK'
    BY <1>3 DEF DeletingOK, CallbackOK
  <1>18. FreedTimersSkipped'
    BY <1>2, <1>4, <1>5 DEF Life, FreedTimersSkipped
  <1>19. ArmedOK'
    BY <1>2, <1>4, <1>6 DEF Life, ArmedOK
  <1>20. RunningIsScheduled'
    BY <1>1, <1>2, <1>4 DEF Life, RunningIsScheduled
  <1> QED
    BY <1>8, <1>9, <1>10, <1>11, <1>12, <1>13, <1>14, <1>15, <1>16, <1>17, <1>18, <1>19,
       <1>20 DEF Life

\* Before the first timer is made.
LEMMA LifeFirst ==
    ASSUME Init
    PROVE  Life
  <1>1. TypeOK
    BY TimersAssumption DEF Init, TypeOK, BlankBk, BlankKt, Idle
  <1>2. DOMAIN queue = {}
    BY DEF Init
  <1>3. TaskOK
    BY DEF Init, TaskOK, Idle
  <1>4. UnusedBlank /\ OwnersOK /\ HeldOnce /\ HeldAlive
    BY <1>2, TimersAssumption
    DEF Init, BlankBk, BlankKt, Idle, UnusedBlank, OwnersOK, HeldOnce, HeldAlive, Held, Queued
  <1>5. DeleteLast /\ SkipsPast /\ PastCommands
    BY <1>2 DEF DeleteLast, SkipsPast, PastCommands
  <1>6. DeletingOK /\ CallbackOK
    BY DEF Init, Idle, DeletingOK, CallbackOK
  <1>7. ArmedOK /\ FreedTimersSkipped /\ RunningIsScheduled
    BY <1>2 DEF Init, BlankKt, ArmedOK, Queued, FreedTimersSkipped, RunningIsScheduled
  <1> QED
    BY <1>1, <1>3, <1>4, <1>5, <1>6, <1>7 DEF Life

\* Every step keeps what Life says.
LEMMA LifeNext ==
    ASSUME Life, [Next]_vars
    PROVE  Life'
  <1>1. ASSUME NEW t \in Timers, OwnerCall(t)
        PROVE  Life'
    <2>1. CASE rtos_init_timer(t)
      BY <2>1, LifeInit
    <2>2. CASE Send(t, "start") \/ Send(t, "stop") \/ Send(t, "change")
      BY <2>2, LifeSend
    <2>3. CASE deinit_timer(t)
      BY <2>3, LifeDeinit
    <2> QED
      BY <1>1, <2>1, <2>2, <2>3
      DEF OwnerCall, rtos_start_timer, rtos_stop_timer, rtos_change_period
  <1>2. ASSUME NEW t \in Timers, Deinit(t) \/ WaitGivesUp(t)
        PROVE  Life'
    BY <1>2, LifeWait, LifeClearID, LifeFinish DEF Deinit
  <1>3. CASE Received
    BY <1>3, LifeStart, LifeStop, LifeChange, LifeDelete, LifeSkip DEF Received
  <1>4. ASSUME NEW h \in Handles, ProcessExpiredTimer(h)
        PROVE  Life'
    BY <1>4, LifeExpired
  <1>5. CASE BlockTask \/ CommandsDone \/ ClearQueuedMsg \/ FreeTimer
    BY <1>5, LifeTurns, LifeClear, LifeFree
  <1>6. CASE FetchTimer \/ TestTimer \/ CallFunction \/ CallbackDone
    BY <1>6, LifeCallback, LifeReturns
  <1>7. CASE UNCHANGED vars
    <2> USE <1>7 DEF vars
    <2>1. TypeOK' /\ TaskOK' /\ OwnersOK' /\ HeldOnce' /\ DeletingOK' /\ CallbackOK'
      BY DEF Life, TypeOK, TaskOK, OwnersOK, HeldOnce, DeletingOK, CallbackOK
    <2>2. UnusedBlank' /\ HeldAlive' /\ DeleteLast' /\ PastCommands' /\ SkipsPast'
      BY DEF Life, UnusedBlank, HeldAlive, DeleteLast, PastCommands, SkipsPast,
             Queued, Held, Past, Deleting
    <2>3. FreedTimersSkipped' /\ ArmedOK' /\ RunningIsScheduled'
      BY DEF Life, FreedTimersSkipped, ArmedOK, RunningIsScheduled, Queued
    <2> QED
      BY <2>1, <2>2, <2>3 DEF Life
  <1> QED
    BY <1>1, <1>2, <1>3, <1>4, <1>5, <1>6, <1>7 DEF Next, TimerTask

\* The life of every kernel timer is as Life says, whatever its owner calls and
\* however far the timer task is behind.
THEOREM LifeAlways == Spec => []Life
  <1>1. Init => Life
    BY LifeFirst
  <1>2. Life /\ [Next]_vars => Life'
    BY LifeNext
  <1> QED
    BY <1>1, <1>2, PTL DEF Spec

\* The state of the timers has the types the code gives it.
THEOREM TypeCorrect == Spec => []TypeOK
  <1>1. Life => TypeOK
    BY DEF Life
  <1> QED
    BY <1>1, LifeAlways, PTL

\* A freed kernel timer is in no list, and its commands are marked to be skipped,
\* unless the queue was full when the delete was handled (timers.c, tmrCOMMAND_DELETE).
THEOREM FreedSkipped == Spec => []FreedTimersSkipped
  <1>1. Life => FreedTimersSkipped
    BY DEF Life
  <1> QED
    BY <1>1, LifeAlways, PTL

\* A periodic timer that runs is in the list or on its way there, unless the
\* command that brings it there was lost on a full queue.
THEOREM RunningScheduled == Spec => []RunningIsScheduled
  <1>1. Life => RunningIsScheduled
    BY DEF Life
  <1> QED
    BY <1>1, LifeAlways, PTL
-----------------------------------------------------------------------------
(* Calls of the function *)

\* The timer task changes a structure, and calls, in the test of the callback only.
LEMMA TaskStep ==
    ASSUME TypeOK, TimerTask, ~TestTimer
    PROVE  /\ UNCHANGED <<bk, owner, final, gaveUp>>
           /\ task'.pc # "call"
           /\ task'.pc = "test" => FetchTimer
  <1>1. task \in TaskType
    BY Typed
  <1>2. CASE BlockTask \/ CommandsDone \/ FreeTimer \/ CallbackDone
    BY <1>1, <1>2 DEF BlockTask, CommandsDone, FreeTimer, CallbackDone, GoOn, Idle, history,
                      TaskType
  <1>3. CASE ClearQueuedMsg \/ FetchTimer \/ CallFunction
    BY <1>1, <1>3 DEF ClearQueuedMsg, FetchTimer, CallFunction, history, TaskType
  <1>4. ASSUME NEW h \in Handles, ProcessExpiredTimer(h)
        PROVE  UNCHANGED <<bk, owner, final, gaveUp>> /\ task'.pc \notin {"call", "test"}
    BY <1>4 DEF ProcessExpiredTimer, CallIfRunning, Callback, GoOn, Idle
  <1>5. CASE Received
    <2> SUFFICES ASSUME NEW h \in Handles,
                        \/ \E cmd \in {"start", "restart"} : ReceiveStart(cmd, h)
                        \/ ReceiveStop(h) \/ ReceiveChangePeriod(h)
                        \/ ReceiveDelete(h) \/ ReceiveSkip(h)
                 PROVE  UNCHANGED <<bk, owner, final, gaveUp>> /\ task'.pc \notin {"call", "test"}
      BY <1>5 DEF Received
    <2> QED
      BY DEF ReceiveStart, ReceiveStop, ReceiveChangePeriod, ReceiveDelete, ReceiveSkip,
             Receive, Callback, history
  <1> QED
    BY <1>2, <1>3, <1>4, <1>5 DEF TimerTask

\* The test marks a structure or goes on to call its function, never both.
LEMMA TestStep ==
    ASSUME TypeOK, TestTimer
    PROVE  /\ UNCHANGED <<kt, queue, owner, final, gaveUp, armed>>
           /\ task.pc = "test" /\ task'.h = task.h /\ task'.why = task.why /\ task'.t = task.t
           /\ task'.pc \in {"call", "done"}
           /\ task'.pc = "call" => task.t \in Timers /\ MayCall(task.t, task.h) /\ bk' = bk
           /\ \A t \in Timers : \/ bk'[t] = bk[t]
                                \/ /\ t = task.t /\ bk[t].state = "deleting" /\ task'.pc = "done"
                                   /\ bk'[t].state = "deleted" /\ bk'[t].handle = bk[t].handle
  <1>1. task \in TaskType /\ bk \in [Timers -> BkType] /\ \A t \in Timers : bk[t] \in BkType
    BY Typed
  <1>2. /\ UNCHANGED <<kt, queue, owner, final, gaveUp, armed>>
        /\ task.pc = "test" /\ task'.h = task.h /\ task'.why = task.why /\ task'.t = task.t
        /\ task'.pc = IF task.t # None /\ MayCall(task.t, task.h) THEN "call" ELSE "done"
    BY <1>1 DEF TestTimer, TaskType, history
  <1>3. CASE task.t # None /\ MarkDeleted(task.t)
    <2>1. task.t \in Timers /\ bk[task.t].state = "deleting" /\ ~MayCall(task.t, task.h)
      BY <1>1, <1>3 DEF TaskType, MarkDeleted, MayCall
    <2>2. bk' = [bk EXCEPT ![task.t].state = "deleted"]
      BY <1>3 DEF TestTimer
    <2> QED
      BY <1>1, <1>2, <2>1, <2>2 DEF BkType
  <1>4. CASE ~(task.t # None /\ MarkDeleted(task.t))
    <2>1. bk' = bk
      BY <1>4 DEF TestTimer
    <2> QED
      BY <1>1, <1>2, <2>1 DEF TaskType
  <1> QED
    BY <1>3, <1>4

\* What a blocking delete relies on is kept by every step.
LEMMA WaitNext ==
    ASSUME Life, WaitOK, [Next]_vars
    PROVE  WaitOK'
  <1>1. TypeOK /\ bk \in [Timers -> BkType] /\ \A t \in Timers : bk[t] \in BkType
    BY Typed DEF Life
  <1>2. /\ final \in [Timers -> BOOLEAN] /\ gaveUp \in [Timers -> BOOLEAN]
        /\ owner \in [Timers -> {"idle", "wait", "clear_id", "finish"}]
    BY <1>1 DEF TypeOK
  <1>3. ASSUME NEW t \in Timers, OwnerCall(t)
        PROVE  WaitOK'
    <2>1. CASE rtos_init_timer(t)
      BY <1>1, <1>2, <2>1 DEF rtos_init_timer, WaitOK, BkType
    <2>2. CASE Send(t, "start") \/ Send(t, "stop") \/ Send(t, "change")
      BY <2>2 DEF Send, WaitOK, history
    <2>3. CASE deinit_timer(t)
      <3>1. ~final[t] /\ UNCHANGED <<task, final>>
        BY <2>3 DEF deinit_timer, MayDelete, WaitOK, history
      <3>2. /\ bk'[t].state = "deleting"
            /\ \A u \in Timers : u # t => bk'[u] = bk[u] /\ owner'[u] = owner[u]
        BY <1>1, <1>2, <2>3 DEF deinit_timer, BkType
      <3> QED
        BY <3>1, <3>2 DEF WaitOK
    <2> QED
      BY <1>3, <2>1, <2>2, <2>3
      DEF OwnerCall, rtos_start_timer, rtos_stop_timer, rtos_change_period
  <1>4. ASSUME NEW t \in Timers, WaitEnds(t)
        PROVE  WaitOK'
    BY <1>1, <1>2, <1>4 DEF WaitEnds, WaitOK
  <1>5. ASSUME NEW t \in Timers, WaitGivesUp(t)
        PROVE  WaitOK'
    BY <1>1, <1>2, <1>5 DEF WaitGivesUp, WaitOK
  <1>6. ASSUME NEW t \in Timers, ClearTimerID(t)
        PROVE  WaitOK'
    BY <1>1, <1>2, <1>6 DEF ClearTimerID, WaitOK, history
  <1>7. ASSUME NEW t \in Timers, FinishDeinit(t)
        PROVE  WaitOK'
    <2>1. UNCHANGED <<task, final>>
      BY <1>7 DEF FinishDeinit, history
    <2>2. /\ owner'[t] = "idle" /\ bk'[t].handle = None /\ bk'[t].state = "deleted"
          /\ \A u \in Timers : u # t => bk'[u] = bk[u] /\ owner'[u] = owner[u]
      BY <1>1, <1>2, <1>7 DEF FinishDeinit, BkType
    <2> QED
      BY <2>1, <2>2 DEF WaitOK
  <1>8. CASE TimerTask /\ ~TestTimer
    BY <1>1, <1>8, TaskStep DEF WaitOK
  <1>9. CASE TestTimer
    <2>1. ASSUME NEW t \in Timers, final[t] \/ owner[t] = "wait", bk'[t].state = "deleted"
          PROVE  ~(task'.pc = "call" /\ task'.t = t)
      BY <1>1, <1>9, <2>1, TestStep DEF MayCall
    <2>2. ASSUME NEW t \in Timers, final[t]
          PROVE  bk'[t] = bk[t] /\ bk[t].state = "deleted"
      BY <1>1, <1>9, <2>2, TestStep DEF WaitOK
    <2>3. UNCHANGED <<owner, final>>
      BY <1>1, <1>9, TestStep
    <2> QED
      BY <2>1, <2>2, <2>3 DEF WaitOK
  <1>10. CASE UNCHANGED vars
    BY <1>10 DEF vars, WaitOK
  <1> QED
    BY <1>3, <1>4, <1>5, <1>6, <1>7, <1>8, <1>9, <1>10 DEF Next, Deinit, TimerTask

\* Once a blocking delete has returned the function is not called any more, until
\* the structure is initialised again (rtos_deinit_timer_block).
THEOREM NoLateCall == Spec => []NoCallAfterDelete
  <1>1. Init => WaitOK
    BY DEF Init, WaitOK, Idle, BlankBk
  <1>2. Life /\ WaitOK /\ [Next]_vars => WaitOK'
    BY WaitNext
  <1>3. WaitOK => NoCallAfterDelete
    BY DEF WaitOK, NoCallAfterDelete
  <1> QED
    BY <1>1, <1>2, <1>3, LifeAlways, PTL DEF Spec

\* What the owner of t may change is its own.
LEMMA OwnerStep ==
    ASSUME Life, NEW t \in Timers, OwnerCall(t) \/ Deinit(t) \/ WaitGivesUp(t)
    PROVE  /\ task' = task /\ armed' = armed
           /\ \A u \in Timers : u # t =>
                 bk'[u] = bk[u] /\ owner'[u] = owner[u] /\ gaveUp'[u] = gaveUp[u]
           /\ gaveUp[t] => gaveUp'[t]
  <1>1. /\ TypeOK /\ bk \in [Timers -> BkType]
        /\ gaveUp \in [Timers -> BOOLEAN]
        /\ owner \in [Timers -> {"idle", "wait", "clear_id", "finish"}]
    BY Typed DEF Life, TypeOK
  <1>2. CASE rtos_init_timer(t)
    BY <1>1, <1>2 DEF rtos_init_timer
  <1>3. CASE Send(t, "start") \/ Send(t, "stop") \/ Send(t, "change")
    BY <1>3 DEF Send, history
  <1>4. CASE deinit_timer(t)
    BY <1>1, <1>4 DEF deinit_timer, history
  <1>5. CASE WaitEnds(t) \/ WaitGivesUp(t)
    BY <1>1, <1>5 DEF WaitEnds, WaitGivesUp
  <1>6. CASE ClearTimerID(t) \/ FinishDeinit(t)
    BY <1>1, <1>6 DEF ClearTimerID, FinishDeinit, history
  <1> QED
    BY <1>2, <1>3, <1>4, <1>5, <1>6
    DEF OwnerCall, Deinit, rtos_start_timer, rtos_stop_timer, rtos_change_period

\* An id is given when a timer is made, and taken away once its owner has given up.
LEMMA IdStep ==
    ASSUME Life, [Next]_vars, NEW h \in Handles
    PROVE  \/ kt'[h].id = kt[h].id
           \/ \E t \in Timers :
                 /\ rtos_init_timer(t) /\ kt[h].state = "unused" /\ kt'[h].id = t
                 /\ bk'[t].handle = h /\ bk'[t].state = "init"
           \/ /\ kt'[h].id = None
              /\ kt[h].id = None \/ (kt[h].id \in Timers /\ gaveUp[kt[h].id])
  <1>1. TypeOK /\ kt \in [Handles -> KtType] /\ bk \in [Timers -> BkType]
    BY Typed DEF Life
  <1>2. ASSUME NEW t \in Timers, rtos_init_timer(t)
        PROVE  \/ kt'[h].id = kt[h].id
               \/ /\ kt[h].state = "unused" /\ kt'[h].id = t
                  /\ bk'[t].handle = h /\ bk'[t].state = "init"
    BY <1>1, <1>2 DEF rtos_init_timer, KtType, BkType
  <1>3. ASSUME NEW t \in Timers, ClearTimerID(t)
        PROVE  \/ kt'[h].id = kt[h].id
               \/ /\ kt'[h].id = None
                  /\ kt[h].id = None \/ (kt[h].id \in Timers /\ gaveUp[kt[h].id])
    <2>1. bk[t].handle \in Handles /\ kt[bk[t].handle].id \in {t, None} /\ gaveUp[t]
      BY <1>1, <1>3, Typed DEF Life, ClearTimerID, OwnersOK, BkType
    <2> QED
      BY <1>1, <1>3, <2>1 DEF ClearTimerID, KtType
  <1>4. CASE UNCHANGED kt
    BY <1>4
  <1>5. CASE TimerTask
    <2>1. ASSUME NEW g \in Handles, ProcessExpiredTimer(g)
          PROVE  kt'[h].id = kt[h].id
      <3>1. kt' = kt \/ kt' = [kt EXCEPT ![g].listed = FALSE]
        BY <2>1 DEF ProcessExpiredTimer
      <3> QED
        BY <1>1, <3>1 DEF KtType
    <2>2. CASE Received
      <3> SUFFICES ASSUME NEW g \in Handles,
                          \/ \E cmd \in {"start", "restart"} : ReceiveStart(cmd, g)
                          \/ ReceiveStop(g) \/ ReceiveChangePeriod(g)
                          \/ ReceiveDelete(g) \/ ReceiveSkip(g)
                   PROVE  kt'[h].id = kt[h].id
        BY <2>2 DEF Received
      <3>1. \/ kt' = [kt EXCEPT ![g].state = "running", ![g].listed = TRUE]
            \/ kt' = [kt EXCEPT ![g].state = "running", ![g].listed = FALSE]
            \/ kt' = [kt EXCEPT ![g].state = "stopped", ![g].listed = FALSE]
            \/ kt' = [kt EXCEPT ![g].listed = FALSE]
            \/ kt' = [kt EXCEPT ![g].listed = kt[g].state # "stopped"]
        BY DEF ReceiveStart, ReceiveStop, ReceiveChangePeriod, ReceiveDelete, ReceiveSkip
      <3> QED
        BY <1>1, <3>1 DEF KtType
    <2>3. CASE FreeTimer
      BY <1>1, <2>3 DEF FreeTimer, KtType
    <2>4. CASE \/ BlockTask \/ CommandsDone \/ ClearQueuedMsg
               \/ FetchTimer \/ TestTimer \/ CallFunction \/ CallbackDone
      BY <2>4 DEF BlockTask, CommandsDone, ClearQueuedMsg, FetchTimer, TestTimer, CallFunction,
                  CallbackDone
    <2> QED
      BY <1>5, <2>1, <2>2, <2>3, <2>4 DEF TimerTask
  <1>6. ASSUME NEW t \in Timers,
               \/ Send(t, "start") \/ Send(t, "stop") \/ Send(t, "change") \/ deinit_timer(t)
               \/ WaitEnds(t) \/ WaitGivesUp(t) \/ FinishDeinit(t)
        PROVE  UNCHANGED kt
    BY <1>6 DEF Send, deinit_timer, WaitEnds, WaitGivesUp, FinishDeinit
  <1> QED
    BY <1>2, <1>3, <1>4, <1>5, <1>6
    DEF Next, OwnerCall, Deinit, rtos_start_timer, rtos_stop_timer, rtos_change_period, vars

\* A structure that is used once keeps its kernel timer.
LEMMA NotReusedNext ==
    ASSUME Life, NotReused, [Next]_vars
    PROVE  NotReused'
  <1>1. /\ TypeOK /\ bk \in [Timers -> BkType] /\ \A t \in Timers : bk[t] \in BkType
        /\ gaveUp \in [Timers -> BOOLEAN] /\ None \notin Timers
    BY Typed DEF Life, TypeOK
  <1>2. ASSUME NEW t \in Timers \ Reused, NEW h \in Handles, kt'[h].id = t
        PROVE  kt[h].id = t \/ (bk'[t].handle = h /\ rtos_init_timer(t))
    <2>1. CASE rtos_init_timer(t)
      BY <1>1, <1>2, <2>1, IdStep
    <2>2. CASE ~rtos_init_timer(t)
      BY <1>1, <1>2, <2>2, IdStep
    <2> QED
      BY <2>1, <2>2
  <1>3. ASSUME NEW t \in Timers \ Reused
        PROVE  /\ gaveUp'[t] => bk'[t].state # "init"
               /\ \/ /\ bk'[t].handle = bk[t].handle
                     /\ bk[t].state = "deleted" => bk'[t].state = "deleted"
                  \/ bk'[t].state = "deleted"
                  \/ \A h \in Handles : kt[h].id # t
    <2>1. CASE rtos_init_timer(t)
      <3>1. ~gaveUp'[t] /\ \A h \in Handles : kt[h].id # t
        BY <1>3, <2>1 DEF rtos_init_timer, FirstUse
      <3> QED
        BY <3>1
    <2>2. CASE Send(t, "start") \/ Send(t, "stop") \/ Send(t, "change")
      BY <2>2 DEF Send, NotReused, history
    <2>3. CASE deinit_timer(t)
      <3>1. bk[t].state = "init" /\ UNCHANGED gaveUp
        BY <2>3 DEF deinit_timer, MayDelete, Life, OwnersOK, history
      <3>2. bk'[t].state = "deleting" /\ bk'[t].handle = bk[t].handle
        BY <1>1, <2>3 DEF deinit_timer, BkType
      <3> QED
        BY <3>1, <3>2
    <2>4. CASE WaitEnds(t) \/ WaitGivesUp(t)
      BY <1>1, <2>4 DEF WaitEnds, WaitGivesUp, NotReused
    <2>5. CASE ClearTimerID(t)
      BY <2>5 DEF ClearTimerID, NotReused, history
    <2>6. CASE FinishDeinit(t)
      <3>1. bk'[t].state = "deleted"
        BY <1>1, <2>6 DEF FinishDeinit, BkType
      <3> QED
        BY <3>1
    <2>7. ASSUME NEW u \in Timers, u # t, OwnerCall(u) \/ Deinit(u) \/ WaitGivesUp(u)
          PROVE  bk'[t] = bk[t] /\ gaveUp'[t] = gaveUp[t]
      BY <2>7, OwnerStep
    <2>8. CASE TimerTask /\ ~TestTimer
      BY <1>1, <2>8, TaskStep DEF NotReused
    <2>9. CASE TestTimer
      BY <1>1, <2>9, TestStep DEF NotReused
    <2>10. CASE UNCHANGED vars
      BY <2>10 DEF vars, NotReused
    <2>11. ASSUME OwnerCall(t) \/ Deinit(t) \/ WaitGivesUp(t)
           PROVE  /\ gaveUp'[t] => bk'[t].state # "init"
                  /\ \/ /\ bk'[t].handle = bk[t].handle
                        /\ bk[t].state = "deleted" => bk'[t].state = "deleted"
                     \/ bk'[t].state = "deleted"
                     \/ \A h \in Handles : kt[h].id # t
      BY <2>1, <2>2, <2>3, <2>4, <2>5, <2>6, <2>11
      DEF OwnerCall, Deinit, rtos_start_timer, rtos_stop_timer, rtos_change_period
    <2> QED
      BY <2>7, <2>8, <2>9, <2>10, <2>11 DEF Next, NotReused, TimerTask
  <1> QED
    BY <1>2, <1>3 DEF NotReused

\* The id that the callback has read stays that of its timer.
LEMMA FetchedNext ==
    ASSUME Life, FetchedOK, [Next]_vars
    PROVE  FetchedOK'
  <1>1. /\ TypeOK /\ task \in TaskType /\ None \notin Timers
        /\ \A t \in Timers : gaveUp[t] => gaveUp'[t]
    <2>1. ASSUME NEW u \in Timers, OwnerCall(u) \/ Deinit(u) \/ WaitGivesUp(u)
          PROVE  \A t \in Timers : gaveUp[t] => gaveUp'[t]
      BY <2>1, OwnerStep
    <2>2. ASSUME TimerTask \/ UNCHANGED vars
          PROVE  gaveUp' = gaveUp
      BY <2>2, Typed, TaskStep, TestStep DEF Life, vars
    <2> QED
      BY <2>1, <2>2, Typed DEF Life, Next
  <1>2. SUFFICES ASSUME task'.pc \in {"test", "call"}, task'.t # None
                 PROVE  \/ kt'[task'.h].id = task'.t
                        \/ gaveUp'[task'.t] /\ kt'[task'.h].id = None
    BY DEF FetchedOK
  <1>3. CASE FetchTimer
    BY <1>1, <1>3 DEF FetchTimer, TaskType, history
  <1>4. CASE task'.h = task.h /\ task'.t = task.t /\ task.pc \in {"test", "call"}
    <2>1. task.h \in Handles /\ kt[task.h].state # "unused" /\ task.t \in Timers
      BY <1>1, <1>2, <1>4 DEF Life, TaskOK, UnusedBlank, TaskType
    <2>2. kt[task.h].id = task.t \/ (gaveUp[task.t] /\ kt[task.h].id = None)
      BY <1>2, <1>4 DEF FetchedOK
    <2>3. \/ kt'[task.h].id = kt[task.h].id
          \/ /\ kt'[task.h].id = None
             /\ kt[task.h].id = None \/ (kt[task.h].id \in Timers /\ gaveUp[kt[task.h].id])
      BY <2>1, IdStep
    <2> QED
      BY <1>1, <1>4, <2>1, <2>2, <2>3
  <1>5. FetchTimer \/ (task'.h = task.h /\ task'.t = task.t /\ task.pc \in {"test", "call"})
    <2>1. CASE TestTimer
      BY <1>1, <2>1, TestStep
    <2>2. CASE TimerTask /\ ~TestTimer
      BY <1>1, <1>2, <2>2, TaskStep
    <2>3. CASE UNCHANGED task
      BY <1>2, <2>3
    <2>4. ASSUME NEW u \in Timers, OwnerCall(u) \/ Deinit(u) \/ WaitGivesUp(u)
          PROVE  UNCHANGED task
      BY <2>4, OwnerStep
    <2> QED
      BY <2>1, <2>2, <2>3, <2>4 DEF Next, vars
  <1> QED
    BY <1>3, <1>4, <1>5

\* A command that an owner sends for another timer leaves h as it was.
LEMMA HaltedKept ==
    ASSUME TypeOK, NEW h \in Handles, NEW m \in Cmds, queue' = Append(queue, m),
           kt'[h].state = kt[h].state, m.h # h \/ m.cmd = "restart", Halted(h)
    PROVE  Halted(h)'
  <1>1. /\ queue \in Seq(Cmds) /\ Len(queue) \in Nat
        /\ \A i \in DOMAIN queue' :
              \/ i \in DOMAIN queue /\ queue'[i] = queue[i]
              \/ i = Len(queue) + 1 /\ queue'[i] = m
        /\ \A i \in DOMAIN queue : i \in DOMAIN queue' /\ queue'[i] = queue[i]
    BY Typed, AppendIs
  <1>2. CASE kt[h].state = "stopped" /\ ~Queued(h, {"start"})
    BY <1>1, <1>2 DEF Halted, Queued
  <1>3. ASSUME NEW i \in DOMAIN queue, queue[i] = Command("stop", h),
               \A j \in DOMAIN queue : j > i /\ queue[j].h = h => queue[j].cmd # "start"
        PROVE  Halted(h)'
    BY <1>1, <1>3 DEF Halted
  <1> QED
    BY <1>2, <1>3 DEF Halted

\* So does a restart of it that the timer task adds.
LEMMA HaltedRestarted ==
    ASSUME TypeOK, NEW h \in Handles, NEW g \in Handles, Restart(g),
           kt'[h].state = kt[h].state, Halted(h)
    PROVE  Halted(h)'
  <1>1. CASE HasRoom
    <2>1. /\ Command("restart", g) \in Cmds /\ Command("restart", g).cmd = "restart"
          /\ queue' = Append(queue, Command("restart", g))
      BY <1>1 DEF Restart, Command, Cmds, Commands
    <2> QED
      BY <2>1, HaltedKept
  <1>2. CASE ~HasRoom
    <2>1. queue' = queue
      BY <1>2 DEF Restart
    <2> QED
      BY <2>1 DEF Halted, Queued
  <1> QED
    BY <1>1, <1>2

\* And every command that the timer task handles.
LEMMA HaltedReceived ==
    ASSUME Life, NEW h \in Handles, Halted(h), Received
    PROVE  Halted(h)'
  <1>1. PICK cmd \in Commands, g \in Handles :
           /\ Receive(cmd, g)
           /\ \A f \in Handles : f # g => kt'[f] = kt[f]
           /\ cmd # "start" /\ kt[g].state = "stopped" => kt'[g].state = "stopped"
           /\ cmd = "stop" => kt'[g].state = "stopped"
    <2> USE Typed DEF Life, KtType, Commands
    <2>1. ASSUME NEW g \in Handles, NEW cmd \in {"start", "restart"}, ReceiveStart(cmd, g)
          PROVE  /\ Receive(cmd, g)
                 /\ \A f \in Handles : f # g => kt'[f] = kt[f]
                 /\ cmd # "start" /\ kt[g].state = "stopped" => kt'[g].state = "stopped"
      BY <2>1 DEF ReceiveStart, Restartable
    <2>2. ASSUME NEW g \in Handles, ReceiveStop(g)
          PROVE  /\ Receive("stop", g)
                 /\ \A f \in Handles : f # g => kt'[f] = kt[f]
                 /\ kt'[g].state = "stopped"
      BY <2>2 DEF ReceiveStop
    <2>3. ASSUME NEW g \in Handles, ReceiveChangePeriod(g)
          PROVE  /\ Receive("change", g)
                 /\ \A f \in Handles : f # g => kt'[f] = kt[f]
                 /\ kt'[g].state = kt[g].state
      BY <2>3 DEF ReceiveChangePeriod
    <2>4. ASSUME NEW g \in Handles, ReceiveDelete(g)
          PROVE  /\ Receive("delete", g)
                 /\ \A f \in Handles : f # g => kt'[f] = kt[f]
                 /\ kt'[g].state = kt[g].state
      BY <2>4 DEF ReceiveDelete
    <2>5. ASSUME NEW g \in Handles, ReceiveSkip(g)
          PROVE  /\ Receive("skip", g)
                 /\ \A f \in Handles : f # g => kt'[f] = kt[f]
                 /\ kt'[g].state = kt[g].state
      BY <2>5 DEF ReceiveSkip
    <2> QED
      BY <2>1, <2>2, <2>3, <2>4, <2>5 DEF Received
  <1>2. /\ 1 \in DOMAIN queue /\ queue[1].cmd = cmd /\ queue[1].h = g
        /\ \A i \in DOMAIN queue' :
              i \in Nat /\ i + 1 \in DOMAIN queue /\ queue'[i] = queue[i + 1]
        /\ \A i \in DOMAIN queue : i # 1 =>
              i \in Nat /\ i - 1 \in DOMAIN queue' /\ queue'[i - 1] = queue[i]
    BY <1>1, ReceiveIs
  <1>3. CASE kt[h].state = "stopped" /\ ~Queued(h, {"start"})
    <2>1. ~Queued(h, {"start"})'
      BY <1>2, <1>3 DEF Queued
    <2>2. g = h => cmd # "start"
      BY <1>2, <1>3 DEF Queued
    <2> QED
      BY <1>1, <1>3, <2>1, <2>2 DEF Halted
  <1>4. ASSUME NEW i \in DOMAIN queue, queue[i] = Command("stop", h),
               \A j \in DOMAIN queue : j > i /\ queue[j].h = h => queue[j].cmd # "start"
        PROVE  Halted(h)'
    <2>1. CASE i = 1
      <3>1. g = h /\ cmd = "stop" /\ kt'[h].state = "stopped"
        BY <1>1, <1>2, <1>4, <2>1 DEF Command
      <3>2. \A j \in DOMAIN queue' : queue'[j].h = h => queue'[j].cmd # "start"
        <4> SUFFICES ASSUME NEW j \in DOMAIN queue', queue'[j].h = h
                     PROVE  queue'[j].cmd # "start"
          OBVIOUS
        <4>1. j \in Nat /\ j # 0 /\ j + 1 \in DOMAIN queue /\ queue'[j] = queue[j + 1]
          <5>1. queue' \in Seq(Cmds)
            BY <1>1, ReceiveIs
          <5> QED
            BY <1>2, <5>1
        <4> QED
          BY <1>4, <2>1, <4>1
      <3> QED
        BY <3>1, <3>2 DEF Halted, Queued
    <2>2. CASE i # 1
      <3>1. i \in Nat /\ i - 1 \in DOMAIN queue' /\ queue'[i - 1] = Command("stop", h)
        BY <1>2, <1>4, <2>2
      <3>2. ASSUME NEW j \in DOMAIN queue', j > i - 1, queue'[j].h = h
            PROVE  queue'[j].cmd # "start"
        <4>1. j \in Nat /\ j + 1 \in DOMAIN queue /\ queue'[j] = queue[j + 1]
          BY <1>2
        <4>2. j + 1 > i
          BY <3>1, <3>2, <4>1
        <4> QED
          BY <1>4, <3>2, <4>1, <4>2
      <3> QED
        BY <3>1, <3>2 DEF Halted
    <2> QED
      BY <2>1, <2>2
  <1> QED
    BY <1>3, <1>4 DEF Halted

\* A delete marks no stop: the timer that it deletes is past its commands.
LEMMA HaltedCleared ==
    ASSUME Life, NEW h \in Handles, Halted(h), ClearQueuedMsg
    PROVE  Halted(h)'
  <1>1. /\ task.h \in Handles /\ Past(task.h) /\ kt' = kt
    BY DEF Life, ClearQueuedMsg, TaskOK, Past, Deleting
  <1>2. /\ DOMAIN queue' = DOMAIN queue
        /\ \A i \in DOMAIN queue :
              queue'[i] = IF queue[i].h = task.h /\ HasRoom
                          THEN Command("skip", task.h) ELSE queue[i]
    BY <1>1, SkippedIs, Typed DEF Life, ClearQueuedMsg
  <1>3. \A i \in DOMAIN queue : /\ queue'[i].h = queue[i].h
                                /\ queue'[i].cmd = "start" => queue[i].cmd = "start"
    BY <1>2 DEF Command
  <1>4. CASE kt[h].state = "stopped" /\ ~Queued(h, {"start"})
    BY <1>1, <1>2, <1>3, <1>4 DEF Halted, Queued
  <1>5. ASSUME NEW i \in DOMAIN queue, queue[i] = Command("stop", h),
               \A j \in DOMAIN queue : j > i /\ queue[j].h = h => queue[j].cmd # "start"
        PROVE  Halted(h)'
    <2>1. h # task.h
      BY <1>1, <1>5 DEF Life, PastCommands, Command
    <2>2. queue'[i] = Command("stop", h)
      BY <1>2, <1>5, <2>1 DEF Command
    <2> QED
      BY <1>2, <1>3, <1>5, <2>2 DEF Halted
  <1> QED
    BY <1>4, <1>5 DEF Halted

\* The timer task takes nothing from an owner and gives nothing back.
LEMMA HeldByTask ==
    ASSUME Life, TimerTask, NEW h \in Handles
    PROVE  Held(h)' <=> Held(h)
  <1>1. CASE TestTimer
    <2>1. \A t \in Timers : bk'[t].handle = bk[t].handle
      BY <1>1, TestStep DEF Life
    <2> QED
      BY <1>1, <2>1, TestStep DEF Life, Held
  <1>2. CASE ~TestTimer
    BY <1>2, TaskStep DEF Life, Held
  <1> QED
    BY <1>1, <1>2

\* A timer that no owner may use stays halted.
LEMMA HaltedNext ==
    ASSUME Life, [Next]_vars, NEW h \in Handles, Halted(h), ~Held(h), ~Held(h)'
    PROVE  Halted(h)'
  <1>1. /\ TypeOK /\ kt \in [Handles -> KtType] /\ bk \in [Timers -> BkType]
        /\ owner \in [Timers -> {"idle", "wait", "clear_id", "finish"}]
        /\ \A t \in Timers : bk[t].handle \in Handles \cup {None}
    BY Typed DEF Life, TypeOK, BkType
  <1>2. ASSUME kt'[h].state = kt[h].state, queue' = queue
        PROVE  Halted(h)'
    BY <1>2 DEF Halted, Queued
  <1>3. ASSUME NEW t \in Timers, rtos_init_timer(t)
        PROVE  Halted(h)'
    <2>1. owner'[t] = "idle" /\ queue' = queue
      BY <1>3 DEF rtos_init_timer
    <2>2. bk'[t].handle # h
      BY <2>1 DEF Held
    <2>3. kt'[h].state = kt[h].state
      BY <1>1, <1>3, <2>2 DEF rtos_init_timer, KtType
    <2> QED
      BY <1>2, <2>1, <2>3
  <1>4. ASSUME NEW t \in Timers, NEW cmd \in Commands, owner[t] = "idle", bk[t].handle # None,
               queue' = Append(queue, Command(cmd, bk[t].handle)), kt' = kt
        PROVE  Halted(h)'
    <2>1. bk[t].handle # h /\ bk[t].handle \in Handles
      BY <1>1, <1>4 DEF Held
    <2>2. Command(cmd, bk[t].handle) \in Cmds /\ Command(cmd, bk[t].handle).h # h
      BY <1>4, <2>1 DEF Command, Cmds
    <2> QED
      BY <1>1, <1>4, <2>2, HaltedKept
  <1>5. ASSUME NEW t \in Timers, OwnerCall(t)
        PROVE  Halted(h)'
    <2>1. CASE Send(t, "start") \/ Send(t, "stop") \/ Send(t, "change")
      BY <1>4, <2>1 DEF Send, Commands
    <2>2. CASE deinit_timer(t)
      BY <1>4, <2>2 DEF deinit_timer, MayDelete, Commands
    <2> QED
      BY <1>3, <1>5, <2>1, <2>2
      DEF OwnerCall, rtos_start_timer, rtos_stop_timer, rtos_change_period
  <1>6. ASSUME NEW t \in Timers, Deinit(t) \/ WaitGivesUp(t)
        PROVE  Halted(h)'
    <2>1. queue' = queue /\ kt'[h].state = kt[h].state
      BY <1>1, <1>6 DEF Deinit, WaitGivesUp, WaitEnds, ClearTimerID, FinishDeinit, KtType
    <2> QED
      BY <1>2, <2>1
  <1>7. ASSUME NEW g \in Handles, ProcessExpiredTimer(g)
        PROVE  Halted(h)'
    <2>1. kt' = kt \/ kt' = [kt EXCEPT ![g].listed = FALSE]
      BY <1>7 DEF ProcessExpiredTimer
    <2>2. kt'[h].state = kt[h].state
      BY <1>1, <2>1 DEF KtType
    <2> QED
      BY <1>1, <1>2, <1>7, <2>2, HaltedRestarted DEF ProcessExpiredTimer
  <1>8. CASE FreeTimer
    <2>1. queue' = queue /\ kt'[h].state = kt[h].state
      BY <1>1, <1>8 DEF FreeTimer, KtType
    <2> QED
      BY <1>2, <2>1
  <1>9. CASE BlockTask \/ CommandsDone \/ FetchTimer \/ TestTimer \/ CallFunction
    BY <1>2, <1>9 DEF BlockTask, CommandsDone, FetchTimer, TestTimer, CallFunction
  <1>10. CASE CallbackDone
    <2>1. task.h \in Handles /\ kt' = kt
      BY <1>10 DEF Life, CallbackDone, TaskOK
    <2>2. UNCHANGED queue \/ Restart(task.h)
      BY <1>10 DEF CallbackDone
    <2> QED
      BY <1>1, <1>2, <2>1, <2>2, HaltedRestarted
  <1>11. CASE UNCHANGED vars
    BY <1>2, <1>11 DEF vars
  <1> QED
    BY <1>5, <1>6, <1>7, <1>8, <1>9, <1>10, <1>11, HaltedReceived, HaltedCleared
    DEF Next, TimerTask

\* An owner that stops its timers leaves them halted.
LEMMA ReleasedHalted ==
    ASSUME Life, [Next]_vars, NEW h \in Handles, Held(h), ~Held(h)', kt[h].id \in Stopping
    PROVE  Halted(h)'
  <1>1. PICK t \in Timers : bk[t].handle = h /\ owner[t] = "idle" /\ kt[h].id = t
    BY TimersAssumption DEF Held, Life, OwnersOK
  <1>2. ASSUME NEW u \in Timers, u # t, OwnerCall(u) \/ Deinit(u) \/ WaitGivesUp(u)
        PROVE  FALSE
    BY <1>1, <1>2, OwnerStep DEF Held
  <1>3. ~TimerTask /\ ~UNCHANGED vars
    BY HeldByTask DEF vars, Held
  <1>4. ~Deinit(t) /\ ~WaitGivesUp(t) /\ ~rtos_init_timer(t)
    BY <1>1, TimersAssumption
    DEF Deinit, WaitEnds, ClearTimerID, FinishDeinit, WaitGivesUp, rtos_init_timer
  <1>5. ~Send(t, "start") /\ ~Send(t, "stop") /\ ~Send(t, "change")
    BY <1>1 DEF Send, Held
  <1>6. deinit_timer(t)
    BY <1>2, <1>3, <1>4, <1>5
    DEF Next, OwnerCall, rtos_start_timer, rtos_stop_timer, rtos_change_period
  <1>7. StopSent(h) /\ queue' = Append(queue, Command("delete", h)) /\ kt' = kt
    BY <1>1, <1>6 DEF deinit_timer, MayDelete
  <1>8. /\ \A i \in DOMAIN queue' :
              \/ i \in DOMAIN queue /\ queue'[i] = queue[i]
              \/ i = Len(queue) + 1 /\ queue'[i] = Command("delete", h)
        /\ \A i \in DOMAIN queue : i \in Nat /\ i \in DOMAIN queue' /\ queue'[i] = queue[i]
    <2>1. queue \in Seq(Cmds) /\ Command("delete", h) \in Cmds
      BY Typed DEF Life, Command, Cmds, Commands
    <2> QED
      BY <1>7, <2>1, AppendIs
  <1>9. CASE kt[h].state = "stopped" /\ ~Queued(h, {"start"})
    BY <1>7, <1>8, <1>9 DEF Halted, Queued, Command
  <1>10. ASSUME NEW i \in DOMAIN queue, queue[i].h = h, queue[i].cmd = "stop",
                \A j \in DOMAIN queue : queue[j].h = h /\ queue[j].cmd # "restart" => j <= i
         PROVE  Halted(h)'
    <2>1. queue'[i] = Command("stop", h) /\ i \in DOMAIN queue'
      <3>1. queue \in Seq(Cmds)
        BY Typed DEF Life
      <3>2. queue[i] \in Cmds
        BY <3>1
      <3> QED
        BY <1>8, <1>10, <3>2 DEF Command, Cmds
    <2>2. ASSUME NEW j \in DOMAIN queue', j > i, queue'[j].h = h
          PROVE  queue'[j].cmd # "start"
      <3>1. CASE j \in DOMAIN queue /\ queue'[j] = queue[j]
        <4>1. i \in Nat /\ j \in Nat
          BY <1>8, <3>1
        <4>2. ~(j <= i)
          BY <2>2, <4>1
        <4> QED
          BY <1>10, <2>2, <3>1, <4>2
      <3>2. CASE queue'[j] = Command("delete", h)
        BY <3>2 DEF Command
      <3> QED
        BY <1>8, <3>1, <3>2
    <2> QED
      BY <2>1, <2>2 DEF Halted
  <1>11. \/ kt[h].state = "stopped" /\ ~Queued(h, {"start"})
         \/ \E i \in DOMAIN queue : /\ queue[i].h = h /\ queue[i].cmd = "stop"
                                    /\ \A j \in DOMAIN queue :
                                          queue[j].h = h /\ queue[j].cmd # "restart" => j <= i
    <2> DEFINE sent == {i \in DOMAIN queue : queue[i].h = h /\ queue[i].cmd # "restart"}
    <2>1. \/ sent = {} /\ kt[h].state = "stopped"
          \/ \E i \in sent : queue[i].cmd = "stop" /\ \A j \in sent : j <= i
      BY <1>7 DEF StopSent
    <2> QED
      BY <2>1 DEF Queued
  <1> QED
    BY <1>9, <1>10, <1>11

\* A timer whose owner has let it go is halted, until it is freed and after.
LEMMA HaltingNext ==
    ASSUME Life, FetchedOK, Halting, [Next]_vars
    PROVE  Halting'
  <1>1. /\ TypeOK /\ task \in TaskType /\ None \notin Timers /\ Stopping \subseteq Timers
        /\ bk \in [Timers -> BkType]
    BY Typed, TimersAssumption DEF Life
  <1>2. ASSUME NEW h \in Handles, kt[h].id \in Stopping, ~Held(h)'
        PROVE  Halted(h)'
    BY <1>2, HaltedNext, ReleasedHalted DEF Halting
  <1>3. ASSUME NEW t \in Stopping, NEW h \in Handles, kt'[h].id = t, ~Held(h)'
        PROVE  Halted(h)'
    <2>1. ~(\E u \in Timers : rtos_init_timer(u) /\ bk'[u].handle = h)
      BY <1>3 DEF rtos_init_timer, Held
    <2>2. kt[h].id = t
      BY <1>1, <1>3, <2>1, IdStep
    <2> QED
      BY <1>2, <1>3, <2>2
  <1>4. ASSUME task'.pc = "test", task'.t \in Stopping
        PROVE  (~Held(task.h) => Halted(task.h))'
    <2>1. PICK h \in Handles : h = task'.h
      BY <1>4, LifeNext DEF Life, TaskOK
    <2>2. ASSUME ~Held(h)'
          PROVE  Halted(h)'
      <3>1. CASE FetchTimer
        <4>1. kt[h].id = task'.t
          BY <1>1, <2>1, <3>1 DEF FetchTimer, TaskType
        <4> QED
          BY <1>2, <1>4, <2>2, <4>1
      <3>2. CASE ~FetchTimer
        <4>1. task' = task
          <5>1. ASSUME NEW u \in Timers, OwnerCall(u) \/ Deinit(u) \/ WaitGivesUp(u)
                PROVE  task' = task
            BY <5>1, OwnerStep
          <5>2. ~TimerTask
            BY <1>1, <1>4, <3>2, TaskStep, TestStep
          <5> QED
            BY <5>1, <5>2 DEF Next, vars
        <4>2. task.h = h /\ task.pc = "test" /\ task.t \in Stopping /\ task.t # None
          BY <1>1, <1>4, <2>1, <4>1
        <4>3. CASE Held(h)
          <5>1. kt[h].id # None
            BY <4>3, TimersAssumption DEF Held, Life, OwnersOK
          <5>2. kt[h].id = task.t
            BY <4>2, <5>1 DEF FetchedOK
          <5> QED
            BY <1>2, <2>2, <4>2, <5>2
        <4>4. CASE ~Held(h)
          BY <2>2, <4>2, <4>4, HaltedNext DEF Halting
        <4> QED
          BY <4>3, <4>4
      <3> QED
        BY <3>1, <3>2
    <2> QED
      BY <2>1, <2>2 DEF Held, Halted, Queued
  <1> QED
    BY <1>3, <1>4 DEF Halting

\* What has begun with an expiry is over before any command is handled.
LEMMA ExpiringStep ==
    ASSUME Life, [Next]_vars, Expiring', NEW h \in Handles
    PROVE  /\ kt[h].state # "unused" => kt'[h].state = kt[h].state
           /\ Expiring \/ (CommandsDone /\ queue = <<>> /\ bk' = bk /\ kt' = kt)
           /\ TestTimer => bk' = bk
  <1>1. /\ TypeOK /\ kt \in [Handles -> KtType] /\ task \in TaskType
    BY Typed DEF Life
  <1>2. ASSUME NEW t \in Timers, OwnerCall(t) \/ Deinit(t) \/ WaitGivesUp(t)
        PROVE  /\ kt[h].state # "unused" => kt'[h].state = kt[h].state
               /\ Expiring
    <2>1. Expiring
      BY <1>2, OwnerStep DEF Expiring
    <2>2. CASE rtos_init_timer(t)
      BY <1>1, <2>1, <2>2 DEF rtos_init_timer, KtType
    <2>3. CASE ~rtos_init_timer(t)
      BY <1>1, <1>2, <2>1, <2>3
      DEF OwnerCall, Deinit, rtos_start_timer, rtos_stop_timer, rtos_change_period, Send,
          deinit_timer, WaitEnds, ClearTimerID, FinishDeinit, WaitGivesUp, KtType
    <2> QED
      BY <2>2, <2>3
  <1>3. ASSUME NEW g \in Handles, ProcessExpiredTimer(g)
        PROVE  kt'[h].state = kt[h].state /\ Expiring
    <2>1. kt' = kt \/ kt' = [kt EXCEPT ![g].listed = FALSE]
      BY <1>3 DEF ProcessExpiredTimer
    <2> QED
      BY <1>1, <1>3, <2>1 DEF ProcessExpiredTimer, Expiring, KtType
  <1>4. ~Received
    <2> SUFFICES ASSUME NEW g \in Handles,
                        \/ \E cmd \in {"start", "restart"} : ReceiveStart(cmd, g)
                        \/ ReceiveStop(g) \/ ReceiveChangePeriod(g)
                        \/ ReceiveDelete(g) \/ ReceiveSkip(g)
                 PROVE  FALSE
      BY DEF Received
    <2>1. task.pc = "commands"
      BY DEF ReceiveStart, ReceiveStop, ReceiveChangePeriod, ReceiveDelete, ReceiveSkip, Receive
    <2>2. \/ task' = task \/ Callback(g, "late")
          \/ task'.why # "expired" /\ task'.pc # "expiry"
      BY DEF ReceiveStart, ReceiveStop, ReceiveChangePeriod, ReceiveDelete, ReceiveSkip,
         Callback
    <2> QED
      BY <2>1, <2>2 DEF Expiring, Callback
  <1>5. ~BlockTask /\ ~FreeTimer /\ ~CallbackDone /\ ~ClearQueuedMsg
    BY <1>1 DEF BlockTask, FreeTimer, CallbackDone, ClearQueuedMsg, GoOn, Idle, Expiring,
                Life, TaskOK, TaskType
  <1>6. CASE CommandsDone
    BY <1>6 DEF CommandsDone
  <1>7. CASE FetchTimer \/ CallFunction
    BY <1>1, <1>7 DEF FetchTimer, CallFunction, Expiring, TaskType
  <1>8. CASE TestTimer
    <2>1. /\ UNCHANGED kt /\ task.pc = "test" /\ task'.why = task.why
          /\ task'.pc \in {"call", "done"} /\ (task'.pc = "call" => bk' = bk)
      BY <1>1, <1>8, TestStep
    <2> QED
      BY <1>8, <2>1 DEF Expiring
  <1>9. CASE UNCHANGED vars
    BY <1>9 DEF vars, Expiring
  <1>10. ~TestTimer => \/ \E t \in Timers : OwnerCall(t) \/ Deinit(t) \/ WaitGivesUp(t)
                       \/ \E g \in Handles : ProcessExpiredTimer(g)
                       \/ CommandsDone \/ FetchTimer \/ CallFunction \/ UNCHANGED vars
    BY <1>4, <1>5 DEF Next, TimerTask
  <1>11. TestTimer => bk' = bk
    BY <1>1, <1>8, TestStep DEF Expiring
  <1> QED
    BY <1>2, <1>3, <1>6, <1>7, <1>8, <1>9, <1>10, <1>11

\* A blocking delete that has ended has nothing of its timer left to run.
LEMMA EndedNext ==
    ASSUME Life, Halting, EndedOK, [Next]_vars
    PROVE  EndedOK'
  <1>1. /\ TypeOK /\ bk \in [Timers -> BkType] /\ \A t \in Timers : bk[t] \in BkType
        /\ owner \in [Timers -> {"idle", "wait", "clear_id", "finish"}]
        /\ gaveUp \in [Timers -> BOOLEAN] /\ None \notin Timers
        /\ \A h \in Handles : kt[h] \in KtType
    BY Typed DEF Life, TypeOK
  <1> SUFFICES ASSUME NEW t \in Periodic \cap Blocking, ~gaveUp'[t]
               PROVE  /\ owner'[t] = "finish" => bk'[t].state = "deleted"
                      /\ task'.pc = "call" /\ task'.t = t => bk'[t].state # "deleted"
                      /\ t \in Stopping => \A h \in Handles :
                            Finished(t, h)' /\ Expiring' => kt'[h].state = "stopped"
    BY DEF EndedOK
  <1>2. t \in Timers
    BY DEF Timers
  <1>3. /\ ~gaveUp[t]
        /\ \A u \in Timers : u # t /\ (OwnerCall(u) \/ Deinit(u) \/ WaitGivesUp(u)) =>
              bk'[t] = bk[t] /\ owner'[t] = owner[t] /\ task' = task
        /\ TimerTask => UNCHANGED owner
    BY <1>1, <1>2, OwnerStep, TaskStep, TestStep DEF Next, vars
  <1>4. /\ owner[t] = "finish" => bk[t].state = "deleted"
        /\ task.pc = "call" /\ task.t = t => bk[t].state # "deleted"
        /\ t \in Stopping => \A h \in Handles :
              Finished(t, h) /\ Expiring => kt[h].state = "stopped"
    BY <1>3 DEF EndedOK
  <1>5. ~WaitGivesUp(t)
    BY <1>1, <1>2 DEF WaitGivesUp
  <1>6. \/ \E u \in Timers : u # t /\ (OwnerCall(u) \/ Deinit(u) \/ WaitGivesUp(u))
        \/ rtos_init_timer(t) \/ Send(t, "start") \/ Send(t, "stop") \/ Send(t, "change")
        \/ deinit_timer(t) \/ WaitEnds(t) \/ ClearTimerID(t) \/ FinishDeinit(t)
        \/ TimerTask \/ UNCHANGED vars
    BY <1>5
    DEF Next, OwnerCall, Deinit, rtos_start_timer, rtos_stop_timer, rtos_change_period
  <1>7. owner'[t] = "finish" => bk'[t].state = "deleted"
    <2>1. ASSUME rtos_init_timer(t) \/ Send(t, "start") \/ Send(t, "stop") \/ Send(t, "change")
          PROVE  owner'[t] = "idle"
      BY <2>1 DEF rtos_init_timer, Send
    <2>2. CASE deinit_timer(t)
      BY <1>1, <1>2, <2>2 DEF deinit_timer
    <2>3. CASE WaitEnds(t)
      BY <2>3 DEF WaitEnds
    <2>4. ~ClearTimerID(t)
      BY <1>2, <1>3 DEF ClearTimerID, Life, OwnersOK
    <2>5. CASE FinishDeinit(t)
      BY <1>1, <1>2, <2>5 DEF FinishDeinit
    <2>6. CASE TimerTask /\ ~TestTimer
      BY <1>1, <1>4, <2>6, TaskStep
    <2>7. CASE TestTimer
      BY <1>1, <1>2, <1>4, <2>7, TestStep
    <2>8. CASE UNCHANGED vars
      BY <1>4, <2>8 DEF vars
    <2> QED
      BY <1>3, <1>4, <1>6, <2>1, <2>2, <2>3, <2>4, <2>5, <2>6, <2>7, <2>8 DEF TimerTask
  <1>8. task'.pc = "call" /\ task'.t = t => bk'[t].state # "deleted"
    <2> SUFFICES ASSUME task'.pc = "call", task'.t = t
                 PROVE  bk'[t].state # "deleted"
      OBVIOUS
    <2>1. CASE TestTimer
      BY <1>1, <2>1, TestStep DEF MayCall
    <2>2. ~(TimerTask /\ ~TestTimer)
      BY <1>1, TaskStep
    <2>3. CASE OwnerCall(t) \/ Deinit(t) \/ UNCHANGED vars
      <3>1. task' = task
        BY <1>2, <2>3, OwnerStep DEF vars
      <3>2. bk[t].state # "deleted" /\ owner[t] # "finish"
        BY <1>4, <3>1
      <3>3. CASE rtos_init_timer(t)
        BY <1>1, <1>2, <3>3 DEF rtos_init_timer
      <3>4. CASE deinit_timer(t)
        BY <1>1, <1>2, <3>4 DEF deinit_timer, BkType
      <3>5. CASE UNCHANGED bk
        BY <3>2, <3>5
      <3> QED
        BY <2>3, <3>2, <3>3, <3>4, <3>5
        DEF OwnerCall, Deinit, rtos_start_timer, rtos_stop_timer, rtos_change_period, Send,
            WaitEnds, ClearTimerID, FinishDeinit, vars
    <2> QED
      BY <1>3, <1>4, <1>5, <2>1, <2>2, <2>3 DEF Next
  <1>9. ASSUME t \in Stopping, NEW h \in Handles, Finished(t, h)', Expiring'
        PROVE  kt'[h].state = "stopped"
    <2>1. /\ kt[h].state # "unused" => kt'[h].state = kt[h].state
          /\ Expiring \/ (CommandsDone /\ queue = <<>> /\ bk' = bk /\ kt' = kt)
          /\ TestTimer => bk' = bk
      BY <1>9, ExpiringStep
    <2>2. ~(rtos_init_timer(t) /\ bk'[t].handle = h)
      BY <1>1, <1>2, <1>9 DEF Finished, rtos_init_timer
    <2>3. kt[h].id = t
      <3>1. ASSUME NEW u \in Timers, rtos_init_timer(u), kt'[h].id = u, bk'[u].handle = h
            PROVE  FALSE
        BY <1>9, <2>2, <3>1 DEF Finished
      <3> QED
        BY <1>1, <1>2, <1>9, <3>1, IdStep DEF Finished
    <2>4. kt[h].state # "unused"
      BY <1>1, <1>2, <2>3 DEF Life, UnusedBlank
    <2>5. CASE Expiring
      <3>1. Finished(t, h)
        <4>1. CASE UNCHANGED bk
          BY <1>9, <2>3, <4>1 DEF Finished
        <4>2. CASE rtos_init_timer(t)
          BY <2>3, <4>2, TimersAssumption DEF rtos_init_timer, Finished
        <4>3. CASE deinit_timer(t)
          BY <1>1, <1>2, <1>9, <2>3, <4>3 DEF deinit_timer, Finished, BkType
        <4>4. CASE FinishDeinit(t)
          BY <1>4, <2>3, <4>4 DEF FinishDeinit, Finished
        <4>5. CASE bk'[t] = bk[t]
          BY <1>9, <2>3, <4>5 DEF Finished
        <4>6. CASE TimerTask
          BY <1>1, <2>1, <4>1, <4>6, TaskStep
        <4> QED
          BY <1>3, <1>6, <4>1, <4>2, <4>3, <4>4, <4>5, <4>6
          DEF Send, WaitEnds, ClearTimerID, vars
      <3> QED
        BY <1>4, <1>9, <2>1, <2>4, <2>5, <3>1
    <2>6. CASE queue = <<>> /\ bk' = bk /\ kt' = kt
      <3>1. bk[t].handle # h \/ bk[t].state = "deleted"
        BY <1>9, <2>6 DEF Finished
      <3>2. ~Held(h)
        BY <1>2, <2>3, <3>1, TimersAssumption DEF Held, Life, OwnersOK
      <3>3. Halted(h)
        BY <1>9, <2>3, <3>2 DEF Halting
      <3> QED
        BY <2>6, <3>3 DEF Halted
    <2> QED
      BY <2>1, <2>5, <2>6
  <1> QED
    BY <1>7, <1>8, <1>9

\* The test never calls the function for a delete.
LEMMA MarksNext ==
    ASSUME ReuseAfterStop, Life, FetchedOK, NotReused, Halting, DeleteOnlyMarks, [Next]_vars
    PROVE  DeleteOnlyMarks'
  <1>1. TypeOK /\ task \in TaskType /\ None \notin Timers
    BY Typed DEF Life
  <1>2. SUFFICES ASSUME task'.pc = "call", task'.why = "delete"
                 PROVE  FALSE
    BY DEF DeleteOnlyMarks
  <1>3. TestTimer
    <2>1. ASSUME NEW t \in Timers, OwnerCall(t) \/ Deinit(t) \/ WaitGivesUp(t)
          PROVE  task' = task
      BY <2>1, OwnerStep
    <2>2. task' # task
      BY <1>2 DEF DeleteOnlyMarks
    <2> QED
      BY <1>1, <1>2, <2>1, <2>2, TaskStep DEF Next, vars
  <1> DEFINE t == task.t
             h == task.h
  <1>4. /\ task.pc = "test" /\ task.why = "delete" /\ t \in Timers /\ h \in Handles
        /\ MayCall(t, h)
    BY <1>1, <1>2, <1>3, TestStep DEF Life, TaskOK
  <1>5. bk[t].state = "init" /\ bk[t].handle # None /\ (t \in Periodic => kt[h].state # "stopped")
    BY <1>4 DEF MayCall
  <1>6. Past(h) /\ ~Held(h)
    BY <1>4 DEF Past, Deleting, Life, HeldAlive
  <1>7. CASE t \in Periodic \cap Stopping
    <2>1. Halted(h)
      BY <1>4, <1>6, <1>7 DEF Halting
    <2>2. \A i \in DOMAIN queue : queue[i] # Command("stop", h)
      BY <1>4, <1>6 DEF Life, PastCommands, Command
    <2> QED
      BY <1>5, <1>7, <2>1, <2>2 DEF Halted
  <1>8. CASE t \notin Reused
    <2>1. ~gaveUp[t] /\ kt[h].id = t
      BY <1>1, <1>4, <1>5, <1>8 DEF NotReused, FetchedOK
    <2>2. bk[t].handle = h
      BY <1>4, <1>5, <1>8, <2>1 DEF NotReused
    <2>3. owner[t] = "idle"
      BY <1>4, <1>5 DEF Life, OwnersOK
    <2> QED
      BY <1>4, <1>6, <2>2, <2>3 DEF Held
  <1> QED
    BY <1>7, <1>8 DEF ReuseAfterStop

\* From the invariants to the property.
LEMMA CallsImplied ==
    ASSUME ReuseAfterStop, Life, CallInv
    PROVE  CallsAreRight
  <1>1. task.pc = "call" => task.h \in Handles /\ task.why \in {"expired", "late"}
    BY Typed DEF Life, TaskOK, TaskType, CallInv, DeleteOnlyMarks
  <1>2. task.pc = "call" => kt[task.h].state = "running" /\ armed[task.h]
    BY <1>1 DEF Life, CallbackOK, ArmedOK
  <1>3. ASSUME NEW t \in Periodic \cap Blocking, task.pc = "call", task.t = t,
               task.why = "expired", ~gaveUp[t], bk[t].handle # task.h
        PROVE  FALSE
    <2>1. kt[task.h].id = t /\ t \in Timers
      BY <1>3, Typed DEF CallInv, FetchedOK, Timers, Life
    <2>2. CASE t \in Stopping
      BY <1>1, <1>2, <1>3, <2>1, <2>2 DEF CallInv, EndedOK, Finished, Expiring
    <2>3. CASE t \notin Reused
      BY <1>1, <1>3, <2>1, <2>3 DEF CallInv, NotReused, EndedOK
    <2> QED
      BY <2>2, <2>3 DEF ReuseAfterStop
  <1> QED
    BY <1>2, <1>3 DEF CallsAreRight, DeleteOnlyMarks, CalledByOwnTimer, CalledOnlyWhenStarted,
                      CallInv

\* Whatever makes the timer task run the callback, the function is called only for a
\* timer that its owner has started, and it is that timer's: a delete never calls it
\* (timers.c:964), and the expiry of an old timer not the function of a new one.  The
\* structures used again are those of periodic timers whose owners stop them first:
\* with the others the code makes no such promise.
THEOREM CallsRight ==
    ASSUME ReuseAfterStop
    PROVE  Spec => []CallsAreRight
  <1>1. Init => CallInv
    <2>1. ASSUME Init
          PROVE  WaitOK /\ FetchedOK /\ DeleteOnlyMarks
      BY <2>1 DEF Init, WaitOK, FetchedOK, DeleteOnlyMarks, Idle, BlankBk
    <2>2. ASSUME Init
          PROVE  NotReused /\ Halting /\ EndedOK
      BY <2>2, TimersAssumption
      DEF Init, NotReused, Halting, EndedOK, Finished, Idle, BlankBk, BlankKt, Timers
    <2> QED
      BY <2>1, <2>2 DEF CallInv
  <1>2. Life /\ CallInv /\ [Next]_vars => CallInv'
    BY WaitNext, FetchedNext, NotReusedNext, HaltingNext, EndedNext, MarksNext DEF CallInv
  <1>3. Life /\ CallInv => CallsAreRight
    BY CallsImplied
  <1> QED
    BY <1>1, <1>2, <1>3, LifeAlways, PTL DEF Spec

=============================================================================
