-------------------------- MODULE AudioRingProofs --------------------------
(***************************************************************************)
(* The properties of AudioRing, for a buffer, samples and counts of any    *)
(* length.                                                                 *)
(*                                                                         *)
(* The argument: RWP_SAFE_INTERVAL keeps wp, after any write, strictly     *)
(* behind rp once it has wrapped, so that the fill size is never ambiguous *)
(* and grows and shrinks by exactly what is written and read (PublishLemma,*)
(* ConsumeLemma).  What a task has decided on stays possible, because the  *)
(* interrupt only makes the free size (for a writer) or the fill size (for *)
(* a reader) larger: that is CallOK, which makes the invariant inductive.  *)
(***************************************************************************)
EXTENDS AudioRing, TLAPS

Writing == pc \in {"write", "publish", "tail", "settle"}
Reading == pc \in {"read", "rest", "consume"}

\* What holds while the task is in rb_write or rb_read.
CallOK ==
    /\ Writing => dev = "dac" /\ n >= 1
    /\ Reading => dev = "adc" /\ n >= 1
    /\ pc \in {"write", "publish"} => rb_get_fill_size + n + Safe <= capacity
    /\ pc = "publish" =>
         \A j \in 0 .. FirstPart(n) - 1 : mem[wp + j] = written + j + 1
    /\ pc = "tail" => wp <= written
    /\ pc # "settle" => wp < capacity \/ capacity = 0
    /\ pc = "read" => n <= rb_get_fill_size
    /\ pc \in {"rest", "consume"} =>
         /\ snap \in 0 .. capacity
         /\ n <= Fill(snap, rp)
         /\ Fill(snap, rp) <= rb_get_fill_size
    /\ pc = "rest" =>
         /\ InOrder(heard, read)
         /\ Len(heard) = (IF ReadWraps(n, snap) THEN capacity - rp
                                                ELSE Given(n, snap))

\* What the task has been told, and what it is about to be told.
ClaimsOK ==
    claimed = CASE dev = "adc" -> read
                [] dev = "dac" /\ pc \in {"tail", "settle"} -> written - n
                [] OTHER -> written

Inv == TypeOK /\ FillIsWhatIsLeft /\ UnreadIntact /\ CallOK /\ ClaimsOK

\* What a step may play, the body of ReadInOrder.
ReadStep ==
    heard' # heard /\ pc # "tail" =>
        InOrder(heard', IF dev = "dac" THEN read' - Len(heard') ELSE read)

-----------------------------------------------------------------------------
(* Writing *)

\* l bytes for which there is room are l bytes more in the ring once wp has
\* moved, and they leave wp inside the buffer.
LEMMA PublishLemma ==
    ASSUME TypeOK, NEW l \in Nat, l >= 1, rb_get_fill_size + l + Safe <= capacity
    PROVE  /\ Publish(l) \in 0 .. capacity
           /\ Fill(Publish(l), rp) = rb_get_fill_size + l
           /\ FirstPart(l) \in 0 .. l /\ wp + FirstPart(l) <= capacity
           /\ IF WriteWraps(l) THEN /\ Publish(l) = l - FirstPart(l)
                                    /\ Publish(l) < capacity
                               ELSE FirstPart(l) = l
BY DEF TypeOK, Publish, Fill, rb_get_fill_size, FirstPart, WriteWraps, Smaller,
       Safe

\* Moving wp from the end of the buffer to its start changes nothing else.
LEMMA SettleLemma ==
    ASSUME TypeOK, NEW w \in 0 .. capacity, Fill(w, rp) = 0 \/ Fill(w, rp) + Safe <= capacity
    PROVE  /\ Settle(w) \in 0 .. capacity
           /\ Fill(Settle(w), rp) = Fill(w, rp)
           /\ Settle(w) < capacity \/ capacity = 0
BY DEF TypeOK, Settle, Fill, Safe

\* The bytes waiting to be read are not where the l bytes go.
LEMMA KeptCells ==
    ASSUME TypeOK, NEW l \in Nat, l >= 1, rb_get_fill_size + l + Safe <= capacity,
           NEW k \in 0 .. rb_get_fill_size - 1
    PROVE  /\ Cell(k) \in 0 .. BufLen - 1
           /\ ~(Cell(k) >= wp /\ Cell(k) < wp + FirstPart(l))
           /\ WriteWraps(l) => Cell(k) >= Publish(l)
BY RingAssumption
   DEF TypeOK, Cell, Publish, Fill, rb_get_fill_size, FirstPart, WriteWraps,
       Smaller, Safe

\* Where the l bytes go: at wp, and those that do not fit there at the start.
LEMMA NewCells ==
    ASSUME TypeOK, NEW l \in Nat, l >= 1, rb_get_fill_size + l + Safe <= capacity,
           NEW k \in rb_get_fill_size .. rb_get_fill_size + l - 1
    PROVE  /\ Cell(k) \in 0 .. BufLen - 1
           /\ k - rb_get_fill_size < FirstPart(l)
                => Cell(k) = wp + (k - rb_get_fill_size)
           /\ k - rb_get_fill_size >= FirstPart(l)
                => /\ WriteWraps(l)
                   /\ Cell(k) = k - rb_get_fill_size - FirstPart(l)
                   /\ Cell(k) < Publish(l)
BY RingAssumption
   DEF TypeOK, Cell, Publish, Fill, rb_get_fill_size, FirstPart, WriteWraps,
       Smaller, Safe

\* The cells that bytes wait in.
LEMMA UnreadCells ==
    ASSUME TypeOK, NEW k \in 0 .. rb_get_fill_size - 1
    PROVE  Cell(k) \in 0 .. BufLen - 1 /\ Cell(k) < capacity
BY RingAssumption DEF TypeOK, Cell, Fill, rb_get_fill_size

LEMMA StoreLemma ==
    ASSUME NEW m \in [0 .. BufLen - 1 -> Nat], NEW o \in Nat, NEW l \in Nat,
           NEW s \in Nat
    PROVE  /\ Store(m, o, l, s) \in [0 .. BufLen - 1 -> Nat]
           /\ \A c \in 0 .. BufLen - 1 :
                Store(m, o, l, s)[c] = IF c >= o /\ c < o + l
                                       THEN s + (c - o) ELSE m[c]
BY RingAssumption DEF Store

-----------------------------------------------------------------------------
(* Reading *)

\* Reading l bytes, on a wp that may be old, moves rp over as many as it gives.
LEMMA ConsumeLemma ==
    ASSUME TypeOK, NEW l \in Nat, NEW w \in 0 .. capacity,
           Fill(w, rp) <= rb_get_fill_size, w = wp \/ wp < capacity
    PROVE  /\ Given(l, w) \in 0 .. rb_get_fill_size /\ Given(l, w) <= l
           /\ Consume(l, w) \in 0 .. capacity
           /\ Fill(wp, Consume(l, w)) = rb_get_fill_size - Given(l, w)
           /\ \A k \in 0 .. rb_get_fill_size - Given(l, w) - 1 :
                (IF Consume(l, w) + k < capacity THEN Consume(l, w) + k
                 ELSE Consume(l, w) + k - capacity) = Cell(k + Given(l, w))
BY DEF TypeOK, Given, Consume, ReadWraps, Fill, rb_get_fill_size, Smaller, Cell

\* How the two copies share the bytes.
LEMMA ShareLemma ==
    ASSUME TypeOK, NEW l \in Nat, NEW w \in 0 .. capacity
    PROVE  /\ capacity - rp \in Nat /\ Given(l, w) \in Nat
           /\ ReadWraps(l, w) => Given(l, w) - (capacity - rp) \in 0 .. w
           /\ ~ReadWraps(l, w) => rp + Given(l, w) <= capacity
BY DEF TypeOK, Given, ReadWraps, Fill, Smaller

\* A copy inside the buffer is a sequence of so many bytes.
LEMMA LoadLemma ==
    ASSUME TypeOK, NEW o \in Nat, NEW l \in Nat, o + l <= capacity
    PROVE  /\ Load(o, l) \in Seq(Nat) /\ Len(Load(o, l)) = l
           /\ \A i \in 1 .. l : Load(o, l)[i] = mem[o + i - 1]
<1>1. \A i \in 1 .. l : o + i - 1 \in 0 .. BufLen - 1
  BY RingAssumption DEF TypeOK
<1>2. \A i \in 1 .. l : mem[o + i - 1] \in Nat
  BY <1>1 DEF TypeOK
<1>3. Load(o, l) \in [1 .. l -> Nat]
  BY <1>2 DEF Load
<1> QED BY <1>3 DEF Load

\* The first copy gives the next bytes in order.
LEMMA FirstLemma ==
    ASSUME TypeOK, UnreadIntact, NEW l \in Nat, NEW w \in 0 .. capacity,
           Fill(w, rp) <= rb_get_fill_size
    PROVE  /\ LoadFirst(l, w) \in Seq(Nat)
           /\ Len(LoadFirst(l, w)) = (IF ReadWraps(l, w) THEN capacity - rp
                                                         ELSE Given(l, w))
           /\ pc # "tail" => InOrder(LoadFirst(l, w), read)
<1> DEFINE f == IF ReadWraps(l, w) THEN capacity - rp ELSE Given(l, w)
<1>1. f \in Nat /\ rp \in Nat /\ rp + f <= capacity /\ f <= rb_get_fill_size
  BY ShareLemma DEF TypeOK, ReadWraps, Given, Fill, Smaller, rb_get_fill_size
<1>2. LoadFirst(l, w) = Load(rp, f)
  BY DEF LoadFirst
<1>3. /\ Load(rp, f) \in Seq(Nat) /\ Len(Load(rp, f)) = f
      /\ \A i \in 1 .. f : Load(rp, f)[i] = mem[rp + i - 1]
  BY <1>1, LoadLemma
<1>4. ASSUME NEW i \in 1 .. f, pc # "tail"
      PROVE  mem[rp + i - 1] = read + i
  <2>1. i - 1 \in 0 .. rb_get_fill_size - 1
    BY <1>1 DEF TypeOK, Fill, rb_get_fill_size
  <2>2. mem[Cell(i - 1)] = read + (i - 1) + 1
    BY <2>1, <1>4 DEF UnreadIntact
  <2>3. Cell(i - 1) = rp + i - 1
    BY <1>1 DEF Cell, TypeOK
  <2> QED BY <2>2, <2>3 DEF TypeOK
<1>5. pc # "tail" => InOrder(LoadFirst(l, w), read)
  BY <1>2, <1>3, <1>4 DEF InOrder
<1> QED BY <1>2, <1>3, <1>5

\* The second copy gives the bytes that follow.
LEMMA TailLemma ==
    ASSUME TypeOK, UnreadIntact, NEW l \in Nat, NEW w \in 0 .. capacity,
           Fill(w, rp) <= rb_get_fill_size
    PROVE  /\ LoadTail(l, w) \in Seq(Nat)
           /\ Len(LoadTail(l, w)) = (IF ReadWraps(l, w)
                                     THEN Given(l, w) - (capacity - rp) ELSE 0)
           /\ pc # "tail" => InOrder(LoadTail(l, w), read + (capacity - rp))
<1>1. CASE ReadWraps(l, w)
  <2> DEFINE t == Given(l, w) - (capacity - rp)
  <2>1. t \in 0 .. w /\ t \in Nat /\ t <= capacity
    <3>1. t \in 0 .. w
      BY <1>1, ShareLemma
    <3>2. capacity \in Nat
      BY RingAssumption DEF TypeOK
    <3> HIDE DEF t
    <3> QED BY <3>1, <3>2
  <2>2. LoadTail(l, w) = Load(0, t)
    BY <1>1 DEF LoadTail
  <2>3. /\ Load(0, t) \in Seq(Nat) /\ Len(Load(0, t)) = t
        /\ \A i \in 1 .. t : Load(0, t)[i] = mem[0 + i - 1]
    <3> HIDE DEF t
    <3>1. 0 + t <= capacity /\ 0 \in Nat
      BY <2>1, RingAssumption DEF TypeOK
    <3> QED BY <2>1, <3>1, LoadLemma
  <2>4. ASSUME NEW i \in 1 .. t, pc # "tail"
        PROVE  mem[0 + i - 1] = read + (capacity - rp) + i
    <3> DEFINE k == capacity - rp + (i - 1)
    <3>1. k \in 0 .. rb_get_fill_size - 1
      BY <1>1, <2>1 DEF TypeOK, ReadWraps, Given, Fill, Smaller, rb_get_fill_size
    <3>2. mem[Cell(k)] = read + k + 1
      BY <3>1, <2>4 DEF UnreadIntact
    <3>3. Cell(k) = i - 1
      BY <2>1 DEF Cell, TypeOK
    <3> QED BY <3>2, <3>3 DEF TypeOK
  <2>5. pc # "tail" => InOrder(LoadTail(l, w), read + (capacity - rp))
    <3> HIDE DEF t
    <3> QED BY <2>2, <2>3, <2>4 DEF InOrder
  <2> QED BY <1>1, <2>2, <2>3, <2>5
<1>2. CASE ~ReadWraps(l, w)
  BY <1>2 DEF LoadTail, InOrder
<1> QED BY <1>1, <1>2

\* Two runs of bytes, one after the other.
LEMMA JoinLemma ==
    ASSUME NEW a \in Seq(Nat), NEW b \in Seq(Nat), NEW from \in Nat,
           InOrder(a, from), b # << >> => InOrder(b, from + Len(a))
    PROVE  a \o b \in Seq(Nat) /\ Len(a \o b) = Len(a) + Len(b) /\ InOrder(a \o b, from)
<1>1. \A i \in 1 .. Len(a) : a[i] = from + i
  BY DEF InOrder
<1>2. \A i \in 1 .. Len(b) : b[i] = from + Len(a) + i
  BY DEF InOrder
<1>3. ASSUME NEW i \in 1 .. Len(a) + Len(b)
      PROVE  (a \o b)[i] = from + i
  <2>1. CASE i <= Len(a)
    BY <2>1, <1>1
  <2>2. CASE i > Len(a)
    <3>1. i - Len(a) \in 1 .. Len(b)
      BY <2>2
    <3>2. (a \o b)[i] = b[i - Len(a)]
      BY <2>2
    <3> QED BY <3>1, <3>2, <1>2
  <2> QED BY <2>1, <2>2
<1> QED BY <1>3 DEF InOrder

\* The two copies give the next bytes in order, as many as Given says.
LEMMA ReadLemma ==
    ASSUME TypeOK, UnreadIntact, NEW l \in Nat, NEW w \in 0 .. capacity,
           Fill(w, rp) <= rb_get_fill_size
    PROVE  LET all == LoadFirst(l, w) \o LoadTail(l, w)
           IN  /\ all \in Seq(Nat) /\ Len(all) = Given(l, w)
               /\ pc # "tail" => InOrder(all, read)
<1> DEFINE a == LoadFirst(l, w)
           b == LoadTail(l, w)
<1>1. a \in Seq(Nat) /\ b \in Seq(Nat) /\ Len(a) + Len(b) = Given(l, w)
  <2>1. /\ capacity \in Nat /\ rp \in Nat /\ capacity - rp \in Nat
        /\ Given(l, w) \in Nat
    <3>1. capacity \in Nat /\ rp \in Nat
      BY RingAssumption DEF TypeOK
    <3> QED BY <3>1, ShareLemma
  <2>2. a \in Seq(Nat) /\ b \in Seq(Nat)
    BY FirstLemma, TailLemma
  <2>3. Len(a) = (IF ReadWraps(l, w) THEN capacity - rp ELSE Given(l, w))
    BY FirstLemma
  <2>4. Len(b) = (IF ReadWraps(l, w) THEN Given(l, w) - (capacity - rp) ELSE 0)
    BY TailLemma
  <2> HIDE DEF a, b
  <2>5. CASE ReadWraps(l, w)
    BY <2>1, <2>2, <2>3, <2>4, <2>5
  <2>6. CASE ~ReadWraps(l, w)
    BY <2>1, <2>2, <2>3, <2>4, <2>6
  <2> QED BY <2>5, <2>6
<1>2. ASSUME pc # "tail" PROVE InOrder(a, read)
  BY <1>2, FirstLemma
<1>3. ASSUME pc # "tail", b # << >> PROVE InOrder(b, read + Len(a))
  <2>1. ReadWraps(l, w)
    BY <1>3 DEF LoadTail
  <2>2. Len(a) = capacity - rp
    BY <2>1, FirstLemma
  <2> QED BY <1>3, <2>2, TailLemma
<1>4. read \in Nat
  BY DEF TypeOK
<1>5. pc # "tail" => InOrder(a \o b, read)
  <2> HIDE DEF a, b
  <2> QED BY <1>1, <1>2, <1>3, <1>4, JoinLemma
<1> QED BY <1>1, <1>5

-----------------------------------------------------------------------------
(* The invariant holds initially and every step keeps it *)

LEMMA InitInv == Init => Inv
<1> SUFFICES ASSUME Init PROVE Inv
  OBVIOUS
<1>1. TypeOK
  BY RingAssumption DEF Init, TypeOK
<1>2. rb_get_fill_size = 0
  BY DEF Init, rb_get_fill_size, Fill
<1>3. FillIsWhatIsLeft /\ UnreadIntact
  BY <1>2 DEF Init, FillIsWhatIsLeft, UnreadIntact
<1>4. CallOK /\ ClaimsOK
  BY DEF Init, CallOK, ClaimsOK, Writing, Reading
<1> QED BY <1>1, <1>3, <1>4 DEF Inv

\* The device operations empty the ring, or leave it alone.
LEMMA DeviceStep ==
    ASSUME Inv, Open \/ Close \/ Play \/ Pause
    PROVE  Inv' /\ ReadStep
<1>1. CASE Play \/ Pause
  <2>1. /\ UNCHANGED <<dev, capacity, mem, wp, rp, task, heard, written, read,
                       claimed>>
        /\ status' \in {"closed", "opened", "playing", "pause"}
    BY <1>1 DEF Play, Pause, Switch
  <2> QED BY <2>1 DEF Inv, TypeOK, FillIsWhatIsLeft, UnreadIntact, CallOK, ClaimsOK,
             Writing, Reading, rb_get_fill_size, Fill, Cell, FirstPart, Given,
             ReadWraps, InOrder, task, ReadStep
<1>2. ASSUME NEW c \in {0, BufLen}, Reset(c), pc = "idle",
             status' \in {"closed", "opened", "playing", "pause"}
      PROVE  Inv' /\ ReadStep
  <2>1. TypeOK'
    BY <1>2, RingAssumption DEF Inv, TypeOK, Reset, task
  <2>2. rb_get_fill_size' = 0
    BY <1>2 DEF Reset, rb_get_fill_size, Fill
  <2>3. FillIsWhatIsLeft' /\ UnreadIntact'
    BY <1>2, <2>2 DEF Reset, FillIsWhatIsLeft, UnreadIntact, Inv, TypeOK
  <2>4. CallOK' /\ ClaimsOK' /\ ReadStep
    BY <1>2, RingAssumption
       DEF Reset, CallOK, ClaimsOK, Writing, Reading, task, ReadStep, InOrder,
           Inv, TypeOK
  <2> QED BY <2>1, <2>3, <2>4 DEF Inv
<1> QED BY <1>1, <1>2 DEF Open, Close

\* A write is begun with no more bytes than there is room for.
LEMMA WriteStep ==
    ASSUME Inv, NEW count \in Counts, audio_dac_write(count)
    PROVE  Inv' /\ ReadStep
<1> USE RingAssumption DEF audio_dac_write
<1>1. n' \in Nat /\ n' >= 1 /\ rb_get_fill_size + n' + Safe <= capacity
  BY DEF Inv, TypeOK, Smaller, rb_get_free_size, Room, rb_get_fill_size, Fill, Safe
<1>2. rb_get_fill_size' = rb_get_fill_size
  BY DEF rb_get_fill_size, Fill
<1>3. TypeOK'
  BY <1>1 DEF Inv, TypeOK
<1>4. FillIsWhatIsLeft' /\ UnreadIntact'
  BY <1>2 DEF Inv, FillIsWhatIsLeft, UnreadIntact, Cell
<1>5. CallOK'
  BY <1>1, <1>2 DEF Inv, CallOK, Writing, Reading
<1>6. ClaimsOK' /\ ReadStep
  BY DEF Inv, TypeOK, ClaimsOK, ReadStep
<1> QED BY <1>3, <1>4, <1>5, <1>6 DEF Inv

\* There is still room, and the copy leaves the waiting bytes alone.
LEMMA CopyStep ==
    ASSUME Inv, rb_write_copies
    PROVE  Inv' /\ ReadStep
<1> USE DEF rb_write_copies
<1>1. /\ n \in Nat /\ n >= 1 /\ rb_get_fill_size + n + Safe <= capacity
      /\ written + 1 \in Nat /\ wp \in Nat
  BY RingAssumption DEF Inv, TypeOK, CallOK, Writing
<1>2. Fits(n)
  BY <1>1, RingAssumption DEF Inv, TypeOK, Fits, Room, rb_get_fill_size, Fill, Safe
<1>3. FirstPart(n) \in Nat /\ wp + FirstPart(n) <= capacity
  BY <1>1, PublishLemma DEF Inv
<1>4. /\ mem' \in [0 .. BufLen - 1 -> Nat]
      /\ \A c \in 0 .. BufLen - 1 :
           mem'[c] = IF c >= wp /\ c < wp + FirstPart(n)
                     THEN written + 1 + (c - wp) ELSE mem[c]
  <2>1. mem \in [0 .. BufLen - 1 -> Nat]
    BY DEF Inv, TypeOK
  <2>2. mem' = Store(mem, wp, FirstPart(n), written + 1)
    BY <1>2 DEF StoreFirst
  <2> HIDE DEF rb_write_copies
  <2> QED BY <2>1, <2>2, <1>1, <1>3 DEF Store
<1>5. rb_get_fill_size' = rb_get_fill_size /\ FirstPart(n)' = FirstPart(n)
  BY DEF rb_get_fill_size, Fill, FirstPart, Smaller
<1>6. TypeOK'
  BY <1>2, <1>4 DEF Inv, TypeOK
<1>7. ASSUME NEW k \in 0 .. rb_get_fill_size - 1
      PROVE  mem'[Cell(k)] = mem[Cell(k)]
  BY <1>1, <1>4, KeptCells DEF Inv
<1>8. UnreadIntact'
  BY <1>5, <1>7 DEF Inv, UnreadIntact, Cell
<1>9. FillIsWhatIsLeft'
  BY <1>5 DEF Inv, FillIsWhatIsLeft
<1>10. ASSUME NEW j \in 0 .. FirstPart(n) - 1
       PROVE  mem'[wp + j] = written + j + 1
  <2>1. wp + j \in 0 .. BufLen - 1 /\ wp + j >= wp /\ wp + j < wp + FirstPart(n)
    BY <1>1, <1>3, RingAssumption DEF Inv, TypeOK
  <2> QED BY <2>1, <1>1, <1>4 DEF Inv, TypeOK
<1>11. CallOK'
  BY <1>1, <1>2, <1>5, <1>10 DEF Inv, CallOK, Writing, Reading
<1>12. ClaimsOK' /\ ReadStep
  BY <1>2 DEF Inv, TypeOK, ClaimsOK, ReadStep
<1> QED BY <1>6, <1>8, <1>9, <1>11, <1>12 DEF Inv

\* wp moves over bytes that were copied, or that the next step will copy.
LEMMA PublishStep ==
    ASSUME Inv, rb_write_publishes
    PROVE  Inv' /\ ReadStep
<1> USE DEF rb_write_publishes
<1>1. /\ n \in Nat /\ n >= 1 /\ rb_get_fill_size + n + Safe <= capacity
      /\ TypeOK /\ capacity \in Nat /\ rb_get_fill_size \in Nat
  BY RingAssumption DEF Inv, TypeOK, CallOK, Writing, rb_get_fill_size, Fill
<1>2. /\ Publish(n) \in 0 .. capacity
      /\ Fill(Publish(n), rp) = rb_get_fill_size + n
      /\ IF WriteWraps(n) THEN /\ Publish(n) = n - FirstPart(n)
                               /\ Publish(n) < capacity
                          ELSE FirstPart(n) = n
      /\ FirstPart(n) \in 0 .. n
  BY <1>1, PublishLemma
<1>3. rb_get_fill_size' = rb_get_fill_size + n
  BY <1>2 DEF rb_get_fill_size, Fill
<1>4. TypeOK'
  BY <1>1, <1>2 DEF TypeOK
<1>5. FillIsWhatIsLeft'
  BY <1>1, <1>3 DEF Inv, TypeOK, FillIsWhatIsLeft, Safe
<1>6. ASSUME NEW k \in 0 .. rb_get_fill_size + n - 1,
             WriteWraps(n) => Cell(k) >= Publish(n)
      PROVE  mem[Cell(k)] = read + k + 1
  <2>1. CASE k < rb_get_fill_size
    BY <1>1, <2>1 DEF Inv, UnreadIntact
  <2>2. CASE k >= rb_get_fill_size
    <3> DEFINE j == k - rb_get_fill_size
    <3>1. k \in rb_get_fill_size .. rb_get_fill_size + n - 1
      BY <1>1, <2>2
    <3>2. j < FirstPart(n)
      BY <1>1, <1>2, <1>6, <3>1, NewCells
    <3>3. Cell(k) = wp + j
      BY <1>1, <3>1, <3>2, NewCells
    <3>4. j \in 0 .. FirstPart(n) - 1
      BY <1>1, <1>2, <3>1, <3>2
    <3>5. mem[wp + j] = written + j + 1
      BY <3>4 DEF Inv, CallOK
    <3>6. written = read + rb_get_fill_size
      BY DEF Inv, FillIsWhatIsLeft
    <3> QED BY <1>1, <3>1, <3>3, <3>5, <3>6 DEF TypeOK
  <2> QED BY <1>1, <2>1, <2>2
<1>7. UnreadIntact'
  <2> SUFFICES ASSUME NEW k \in 0 .. rb_get_fill_size' - 1,
                      pc' = "tail" => Cell(k)' >= wp'
               PROVE  mem'[Cell(k)'] = read' + k + 1
    BY DEF UnreadIntact
  <2>1. Cell(k)' = Cell(k)
    BY DEF Cell
  <2>2. WriteWraps(n) => Cell(k) >= Publish(n)
    BY <2>1
  <2>3. k \in 0 .. rb_get_fill_size + n - 1
    BY <1>1, <1>3
  <2>4. mem[Cell(k)] = read + k + 1
    BY <1>6, <2>2, <2>3, Zenon
  <2> QED BY <2>1, <2>4
<1>8. CallOK'
  BY <1>1, <1>2 DEF Inv, TypeOK, CallOK, Writing, Reading
<1>9. ClaimsOK' /\ ReadStep
  BY <1>1 DEF Inv, TypeOK, ClaimsOK, ReadStep, CallOK, Writing
<1> QED BY <1>4, <1>5, <1>7, <1>8, <1>9 DEF Inv

\* The second copy puts the missing bytes where wp has gone over.
LEMMA TailStep ==
    ASSUME Inv, rb_write_copies_tail
    PROVE  Inv' /\ ReadStep
<1> USE DEF rb_write_copies_tail
<1>1. /\ TypeOK /\ capacity \in Nat /\ rp \in 0 .. capacity /\ wp \in 0 .. capacity
      /\ written - wp + 1 \in Nat /\ read \in Nat /\ rb_get_fill_size \in Nat
      /\ written = read + rb_get_fill_size
  BY RingAssumption
     DEF Inv, TypeOK, CallOK, FillIsWhatIsLeft, rb_get_fill_size, Fill
<1>2. /\ mem' \in [0 .. BufLen - 1 -> Nat]
      /\ \A c \in 0 .. BufLen - 1 :
           mem'[c] = IF c >= 0 /\ c < 0 + wp
                     THEN written - wp + 1 + (c - 0) ELSE mem[c]
  <2>1. mem \in [0 .. BufLen - 1 -> Nat]
    BY <1>1 DEF TypeOK
  <2>2. 0 \in Nat /\ wp \in Nat
    BY <1>1
  <2>3. mem' = Store(mem, 0, wp, written - wp + 1)
    OBVIOUS
  <2> HIDE DEF rb_write_copies_tail
  <2> QED BY <2>1, <2>2, <2>3, <1>1 DEF Store
<1>3. rb_get_fill_size' = rb_get_fill_size
  BY DEF rb_get_fill_size, Fill
<1>4. TypeOK' /\ FillIsWhatIsLeft'
  BY <1>2, <1>3 DEF Inv, TypeOK, FillIsWhatIsLeft
<1>5. ASSUME NEW k \in 0 .. rb_get_fill_size - 1
      PROVE  mem'[Cell(k)] = read + k + 1
  <2>1. Cell(k) \in 0 .. BufLen - 1
    BY <1>1, UnreadCells
  <2>2. CASE Cell(k) >= wp
    BY <1>1, <1>2, <2>1, <2>2 DEF Inv, UnreadIntact
  <2>3. CASE Cell(k) < wp
    <3>1. written - wp + 1 + Cell(k) = read + k + 1
      BY <1>1, <2>3 DEF Cell, rb_get_fill_size, Fill
    <3> QED BY <1>1, <1>2, <2>1, <2>3, <3>1
  <2> QED BY <1>1, <2>1, <2>2, <2>3
<1>6. UnreadIntact'
  BY <1>3, <1>5 DEF UnreadIntact, Cell
<1>7. CallOK' /\ ClaimsOK' /\ ReadStep
  BY <1>1 DEF Inv, CallOK, ClaimsOK, ReadStep, Writing, Reading, TypeOK
<1> QED BY <1>4, <1>6, <1>7 DEF Inv

LEMMA SettleStep ==
    ASSUME Inv, rb_write_settles
    PROVE  Inv' /\ ReadStep
<1> USE DEF rb_write_settles
<1>1. /\ Settle(wp) \in 0 .. capacity
      /\ Fill(Settle(wp), rp) = rb_get_fill_size
      /\ Settle(wp) < capacity \/ capacity = 0
  BY SettleLemma DEF Inv, TypeOK, FillIsWhatIsLeft, rb_get_fill_size
<1>2. rb_get_fill_size' = rb_get_fill_size
  BY <1>1 DEF rb_get_fill_size, Fill
<1>3. /\ claimed = written - n /\ claimed' = written
      /\ n \in Nat /\ written \in Nat /\ dev = "dac"
  BY DEF Inv, TypeOK, ClaimsOK, CallOK, Writing
<1>4. TypeOK' /\ FillIsWhatIsLeft'
  BY <1>1, <1>2, <1>3 DEF Inv, TypeOK, FillIsWhatIsLeft
<1>5. UnreadIntact'
  BY <1>2 DEF Inv, UnreadIntact, Cell
<1>6. CallOK' /\ ClaimsOK' /\ ReadStep
  BY <1>1, <1>3 DEF CallOK, ClaimsOK, ReadStep, Writing, Reading
<1> QED BY <1>4, <1>5, <1>6 DEF Inv

\* A read is begun of no more bytes than there are.
LEMMA ReadBeginStep ==
    ASSUME Inv, NEW count \in Counts, audio_adc_read(count)
    PROVE  Inv' /\ ReadStep
<1> USE DEF audio_adc_read
<1>1. n' \in Nat /\ n' >= 1 /\ n' <= rb_get_fill_size
  BY RingAssumption DEF Inv, TypeOK, Smaller, rb_get_fill_size, Fill
<1>2. rb_get_fill_size' = rb_get_fill_size
  BY DEF rb_get_fill_size, Fill
<1>3. TypeOK'
  BY <1>1 DEF Inv, TypeOK
<1>4. FillIsWhatIsLeft' /\ UnreadIntact'
  BY <1>2 DEF Inv, FillIsWhatIsLeft, UnreadIntact, Cell
<1>5. CallOK' /\ ClaimsOK' /\ ReadStep
  BY <1>1, <1>2 DEF Inv, TypeOK, CallOK, ClaimsOK, ReadStep, Writing, Reading
<1> QED BY <1>3, <1>4, <1>5 DEF Inv

\* The first copy of a read takes the next bytes.
LEMMA ReadCopyStep ==
    ASSUME Inv, rb_read_copies
    PROVE  Inv' /\ ReadStep
<1> USE DEF rb_read_copies
<1>1. /\ TypeOK /\ UnreadIntact /\ n \in Nat /\ wp \in 0 .. capacity
      /\ Fill(wp, rp) = rb_get_fill_size /\ rb_get_fill_size \in Nat
      /\ capacity \in Nat /\ rp \in Nat
  BY RingAssumption DEF Inv, TypeOK, rb_get_fill_size, Fill
<1>2. /\ heard' \in Seq(Nat) /\ InOrder(heard', read)
      /\ Len(heard') = (IF ReadWraps(n, wp) THEN capacity - rp
                                            ELSE Given(n, wp))
  <2>1. Fill(wp, rp) <= rb_get_fill_size /\ pc # "tail"
    BY <1>1
  <2>2. /\ LoadFirst(n, wp) \in Seq(Nat)
        /\ InOrder(LoadFirst(n, wp), read)
        /\ Len(LoadFirst(n, wp)) = (IF ReadWraps(n, wp) THEN capacity - rp
                                                        ELSE Given(n, wp))
    BY <1>1, <2>1, FirstLemma
  <2> QED BY <2>2
<1>3. rb_get_fill_size' = rb_get_fill_size /\ Fill(snap, rp)' = Fill(wp, rp)
  BY DEF rb_get_fill_size, Fill
<1>4. TypeOK'
  BY <1>1, <1>2 DEF TypeOK
<1>5. FillIsWhatIsLeft' /\ UnreadIntact'
  BY <1>3 DEF Inv, FillIsWhatIsLeft, UnreadIntact, Cell
<1>6. CallOK'
  <2>1. /\ dev = "adc" /\ n >= 1 /\ n <= rb_get_fill_size
        /\ wp < capacity \/ capacity = 0
    BY DEF Inv, CallOK, Reading
  <2>2. /\ Writing' = FALSE /\ Reading' = TRUE
        /\ snap' \in 0 .. capacity' /\ n' <= Fill(snap, rp)'
        /\ Fill(snap, rp)' <= rb_get_fill_size'
    BY <1>1, <1>3, <2>1 DEF Writing, Reading
  <2>3. /\ InOrder(heard', read')
        /\ Len(heard') = (IF ReadWraps(n, snap)' THEN capacity' - rp'
                                                 ELSE Given(n, snap)')
    BY <1>2 DEF ReadWraps, Given, Fill
  <2> QED BY <2>1, <2>2, <2>3 DEF CallOK
<1>7. ClaimsOK' /\ ReadStep
  BY <1>2 DEF Inv, ClaimsOK, ReadStep, CallOK, Reading
<1> QED BY <1>4, <1>5, <1>6, <1>7 DEF Inv

\* The second copy takes the bytes that follow.
LEMMA ReadTailStep ==
    ASSUME Inv, rb_read_copies_tail
    PROVE  Inv' /\ ReadStep
<1> USE DEF rb_read_copies_tail
<1>1. /\ TypeOK /\ UnreadIntact /\ n \in Nat /\ snap \in 0 .. capacity
      /\ Fill(snap, rp) <= rb_get_fill_size /\ n <= Fill(snap, rp)
      /\ dev = "adc" /\ n >= 1 /\ read \in Nat /\ heard \in Seq(Nat)
      /\ InOrder(heard, read)
      /\ wp < capacity \/ capacity = 0
  BY DEF Inv, TypeOK, CallOK, Reading
<1>2. LoadTail(n, snap) \in Seq(Nat)
  BY <1>1, TailLemma
<1>3. ASSUME LoadTail(n, snap) # << >>
      PROVE  InOrder(LoadTail(n, snap), read + Len(heard))
  <2>1. ReadWraps(n, snap)
    BY <1>3 DEF LoadTail
  <2>2. Len(heard) = capacity - rp
    BY <2>1 DEF Inv, CallOK
  <2> QED BY <1>1, <2>2, TailLemma
<1>4. heard' \in Seq(Nat) /\ InOrder(heard', read)
  BY <1>1, <1>2, <1>3, JoinLemma
<1>5. rb_get_fill_size' = rb_get_fill_size /\ Fill(snap, rp)' = Fill(snap, rp)
  BY DEF rb_get_fill_size, Fill
<1>6. TypeOK'
  BY <1>1, <1>4 DEF TypeOK
<1>7. FillIsWhatIsLeft' /\ UnreadIntact'
  BY <1>5 DEF Inv, FillIsWhatIsLeft, UnreadIntact, Cell
<1>8. CallOK'
  BY <1>1, <1>5 DEF CallOK, Writing, Reading
<1>9. ClaimsOK' /\ ReadStep
  BY <1>1, <1>4 DEF Inv, ClaimsOK, ReadStep
<1> QED BY <1>6, <1>7, <1>8, <1>9 DEF Inv

\* rp moves over the bytes that were taken, which are all that were promised.
LEMMA ConsumeStep ==
    ASSUME Inv, rb_read_consumes
    PROVE  Inv' /\ ReadStep
<1> USE DEF rb_read_consumes
<1>1. /\ TypeOK /\ UnreadIntact /\ n \in Nat /\ snap \in 0 .. capacity
      /\ Fill(snap, rp) <= rb_get_fill_size /\ n <= Fill(snap, rp)
      /\ dev = "adc" /\ n >= 1 /\ read \in Nat /\ rb_get_fill_size \in Nat
      /\ wp < capacity \/ capacity = 0
      /\ capacity \in Nat
      /\ claimed = read /\ written \in Nat /\ written = read + rb_get_fill_size
  BY RingAssumption DEF Inv, TypeOK, CallOK, Reading, ClaimsOK,
     FillIsWhatIsLeft, rb_get_fill_size, Fill
<1>2. snap = wp \/ wp < capacity
  BY <1>1 DEF TypeOK
<1>3. /\ Given(n, snap) \in 0 .. rb_get_fill_size
      /\ Consume(n, snap) \in 0 .. capacity
      /\ Fill(wp, Consume(n, snap)) = rb_get_fill_size - Given(n, snap)
      /\ \A k \in 0 .. rb_get_fill_size - Given(n, snap) - 1 :
           (IF Consume(n, snap) + k < capacity THEN Consume(n, snap) + k
            ELSE Consume(n, snap) + k - capacity) = Cell(k + Given(n, snap))
  BY <1>1, <1>2, ConsumeLemma
<1>4. Given(n, snap) = n
  BY <1>1 DEF Given, Smaller
<1>5. rb_get_fill_size' = rb_get_fill_size - n
  BY <1>3, <1>4 DEF rb_get_fill_size, Fill
<1>6. TypeOK'
  BY <1>1, <1>3, <1>4 DEF TypeOK
<1>7. FillIsWhatIsLeft'
  BY <1>1, <1>3, <1>4, <1>5 DEF Inv, FillIsWhatIsLeft, Safe
<1>8. UnreadIntact'
  <2> SUFFICES ASSUME NEW k \in 0 .. rb_get_fill_size' - 1
               PROVE  mem'[Cell(k)'] = read' + k + 1
    BY DEF UnreadIntact
  <2>1. Cell(k)' = Cell(k + n)
    BY <1>3, <1>4, <1>5 DEF Cell
  <2>2. k + n \in 0 .. rb_get_fill_size - 1
    BY <1>1, <1>5
  <2>3. mem[Cell(k + n)] = read + (k + n) + 1
    BY <1>1, <2>2 DEF UnreadIntact
  <2> QED BY <1>1, <1>4, <2>1, <2>3
<1>9. CallOK' /\ ClaimsOK' /\ ReadStep
  BY <1>1, <1>4 DEF CallOK, ClaimsOK, ReadStep, Writing, Reading
<1> QED BY <1>6, <1>7, <1>8, <1>9 DEF Inv

\* The DAC interrupt takes bytes while the task may be in rb_write: there is
\* only more room for what the task is about to write.
LEMMA DacIsrStep ==
    ASSUME Inv, audio_dac_isr
    PROVE  Inv' /\ ReadStep
<1> USE DEF audio_dac_isr
<1> DEFINE g == Given(Frame, wp)
<1>1. /\ TypeOK /\ UnreadIntact /\ Frame \in Nat /\ wp \in 0 .. capacity
      /\ Fill(wp, rp) = rb_get_fill_size /\ Fill(wp, rp) <= rb_get_fill_size
      /\ dev = "dac" /\ read \in Nat /\ rb_get_fill_size \in Nat
      /\ capacity \in Nat /\ n \in Nat
      /\ written \in Nat /\ written = read + rb_get_fill_size
  BY RingAssumption
     DEF Inv, TypeOK, FillIsWhatIsLeft, rb_get_fill_size, Fill
<1>2. /\ g \in 0 .. rb_get_fill_size
      /\ Consume(Frame, wp) \in 0 .. capacity
      /\ Fill(wp, Consume(Frame, wp)) = rb_get_fill_size - g
      /\ \A k \in 0 .. rb_get_fill_size - g - 1 :
           (IF Consume(Frame, wp) + k < capacity THEN Consume(Frame, wp) + k
            ELSE Consume(Frame, wp) + k - capacity) = Cell(k + g)
  BY <1>1, ConsumeLemma
<1>3. /\ heard' \in Seq(Nat) /\ Len(heard') = g
      /\ pc # "tail" => InOrder(heard', read)
  BY <1>1, ReadLemma
<1> HIDE DEF g
<1>4. rb_get_fill_size' = rb_get_fill_size - g /\ read' = read + g
  BY <1>2 DEF rb_get_fill_size, Fill, g
<1>g. g \in Nat /\ g <= rb_get_fill_size
  BY <1>1, <1>2
<1>5. TypeOK'
  BY <1>1, <1>2, <1>3, <1>4 DEF TypeOK, task
<1>6. FillIsWhatIsLeft'
  <2>1. written' = read' + rb_get_fill_size'
    <3>1. written' = written
      OBVIOUS
    <3>2. read + rb_get_fill_size = (read + g) + (rb_get_fill_size - g)
      BY <1>1, <1>g
    <3> HIDE DEF audio_dac_isr
    <3> QED BY <1>1, <1>4, <3>1, <3>2
  <2>2. rb_get_fill_size = 0 \/ rb_get_fill_size + Safe <= capacity
    BY DEF Inv, FillIsWhatIsLeft
  <2>3. rb_get_fill_size' = 0 \/ rb_get_fill_size' + Safe <= capacity'
    BY <1>1, <1>g, <1>4, <2>2 DEF Safe
  <2> QED BY <2>1, <2>3 DEF FillIsWhatIsLeft
<1>7. UnreadIntact'
  <2> SUFFICES ASSUME NEW k \in 0 .. rb_get_fill_size' - 1,
                      pc' = "tail" => Cell(k)' >= wp'
               PROVE  mem'[Cell(k)'] = read' + k + 1
    BY DEF UnreadIntact
  <2>1. Cell(k)' = Cell(k + g)
    BY <1>2, <1>4 DEF Cell
  <2>2. k + g \in 0 .. rb_get_fill_size - 1
    BY <1>1, <1>2, <1>4
  <2>3. pc = "tail" => Cell(k + g) >= wp
    BY <2>1 DEF task
  <2>4. mem[Cell(k + g)] = read + (k + g) + 1
    BY <2>2, <2>3 DEF Inv, UnreadIntact
  <2>5. k \in Nat /\ mem' = mem
    BY <1>1, <1>g, <1>4
  <2> QED BY <1>1, <1>g, <1>4, <2>1, <2>4, <2>5
<1>8. CallOK'
  BY <1>1, <1>2, <1>4
     DEF Inv, CallOK, Writing, Reading, task, FirstPart, Smaller, Safe
<1>9. ClaimsOK'
  BY <1>1 DEF Inv, ClaimsOK, task
<1>10. ReadStep
  <2>1. read' - Len(heard') = read
    BY <1>1, <1>g, <1>3, <1>4
  <2> QED BY <1>1, <1>3, <2>1 DEF ReadStep
<1> QED BY <1>5, <1>6, <1>7, <1>8, <1>9, <1>10 DEF Inv

\* The ADC interrupt adds a frame while the task may be in rb_read: there is
\* only more to read than the task has counted on.
LEMMA AdcIsrStep ==
    ASSUME Inv, audio_adc_isr
    PROVE  Inv' /\ ReadStep
<1> USE DEF audio_adc_isr
<1> DEFINE f == FirstPart(Frame)
           m1 == StoreFirst(Frame)
           p  == Publish(Frame)
<1>1. /\ TypeOK /\ Frame \in Nat /\ Frame >= 1 /\ wp \in 0 .. capacity
      /\ rp \in 0 .. capacity /\ capacity \in Nat
      /\ dev = "adc" /\ read \in Nat /\ rb_get_fill_size \in Nat
      /\ written \in Nat /\ written = read + rb_get_fill_size
      /\ mem \in [0 .. BufLen - 1 -> Nat]
  BY RingAssumption
     DEF Inv, TypeOK, FillIsWhatIsLeft, rb_get_fill_size, Fill
<1>2. rb_get_fill_size + Frame + Safe <= capacity
  BY <1>1 DEF Inv, FillIsWhatIsLeft, Fits, Room, rb_get_fill_size, Fill, Safe
<1>3. /\ p \in 0 .. capacity
      /\ Fill(p, rp) = rb_get_fill_size + Frame
      /\ f \in 0 .. Frame /\ wp + f <= capacity
      /\ IF WriteWraps(Frame) THEN p = Frame - f /\ p < capacity
                              ELSE f = Frame
  BY <1>1, <1>2, PublishLemma
<1>4. /\ Settle(p) \in 0 .. capacity
      /\ Fill(Settle(p), rp) = rb_get_fill_size + Frame
      /\ Settle(p) < capacity \/ capacity = 0
  <2>1. Fill(p, rp) + Safe <= capacity
    BY <1>2, <1>3
  <2> QED BY <1>1, <1>3, <2>1, SettleLemma
<1>5. m1 = Store(mem, wp, f, written + 1)
  BY DEF StoreFirst
<1>6. mem' = Store(m1, 0, Frame - f, written + 1 + f)
  OBVIOUS
<1>7. rb_get_fill_size' = rb_get_fill_size + Frame
  BY <1>4 DEF rb_get_fill_size, Fill
<1> HIDE DEF f, m1, p
<1>8. /\ m1 \in [0 .. BufLen - 1 -> Nat]
      /\ \A c \in 0 .. BufLen - 1 :
           m1[c] = IF c >= wp /\ c < wp + f THEN written + 1 + (c - wp)
                   ELSE mem[c]
  <2> HIDE DEF audio_adc_isr
  <2> QED BY <1>1, <1>3, <1>5 DEF Store
<1>9. /\ mem' \in [0 .. BufLen - 1 -> Nat]
      /\ \A c \in 0 .. BufLen - 1 :
           mem'[c] = IF c >= 0 /\ c < 0 + (Frame - f)
                     THEN written + 1 + f + (c - 0) ELSE m1[c]
  <2> HIDE DEF audio_adc_isr
  <2> QED BY <1>1, <1>3, <1>6, <1>8 DEF Store
<1>10. TypeOK'
  BY <1>1, <1>4, <1>9 DEF TypeOK, task, p
<1>11. FillIsWhatIsLeft'
  BY <1>1, <1>2, <1>7 DEF FillIsWhatIsLeft, Safe
<1>12. ASSUME NEW k \in 0 .. rb_get_fill_size + Frame - 1
       PROVE  mem'[Cell(k)] = read + k + 1
  <2>1. CASE k < rb_get_fill_size
    <3>1. k \in 0 .. rb_get_fill_size - 1
      BY <1>1, <2>1
    <3>2. /\ Cell(k) \in 0 .. BufLen - 1
          /\ ~(Cell(k) >= wp /\ Cell(k) < wp + f)
          /\ WriteWraps(Frame) => Cell(k) >= p
      BY <1>1, <1>2, <3>1, KeptCells DEF f, p
    <3>3. mem'[Cell(k)] = mem[Cell(k)]
      BY <1>1, <1>3, <1>8, <1>9, <3>2
    <3>4. pc # "tail"
      BY <1>1 DEF Inv, CallOK, Writing
    <3> QED BY <3>1, <3>3, <3>4 DEF Inv, UnreadIntact
  <2>2. CASE k >= rb_get_fill_size
    <3> DEFINE j == k - rb_get_fill_size
    <3>1. k \in rb_get_fill_size .. rb_get_fill_size + Frame - 1
      BY <1>1, <2>2
    <3>2. /\ Cell(k) \in 0 .. BufLen - 1
          /\ j < f => Cell(k) = wp + j
          /\ j >= f => /\ WriteWraps(Frame)
                       /\ Cell(k) = j - f
                       /\ Cell(k) < p
      BY <1>1, <1>2, <3>1, NewCells DEF f, p
    <3>3. j \in Nat /\ k = rb_get_fill_size + j /\ j < Frame
      BY <1>1, <3>1
    <3> HIDE DEF j
    <3>4. CASE j < f
      <4>1. ~(Cell(k) < Frame - f)
        BY <1>1, <1>2, <1>3, <3>2, <3>3, <3>4
           DEF Fill, rb_get_fill_size, WriteWraps, f, FirstPart, Smaller, Safe
      <4> QED BY <1>1, <1>3, <1>8, <1>9, <3>2, <3>3, <3>4, <4>1
    <3>5. CASE j >= f
      BY <1>1, <1>3, <1>9, <3>2, <3>3, <3>5
    <3> QED BY <1>3, <3>3, <3>4, <3>5
  <2> QED BY <1>1, <2>1, <2>2
<1>13. UnreadIntact'
  <2> SUFFICES ASSUME NEW k \in 0 .. rb_get_fill_size' - 1
               PROVE  mem'[Cell(k)'] = read' + k + 1
    BY DEF UnreadIntact
  <2>1. Cell(k)' = Cell(k)
    BY DEF Cell
  <2>2. k \in 0 .. rb_get_fill_size + Frame - 1
    BY <1>1, <1>7
  <2> QED BY <1>12, <2>1, <2>2
<1>14. CallOK'
  <2>1. ~Writing /\ UNCHANGED <<Reading, Writing>>
    BY <1>1 DEF Inv, CallOK, Writing, Reading, task
  <2>2. UNCHANGED <<Fill(snap, rp), ReadWraps(n, snap), Given(n, snap)>>
    BY DEF Fill, ReadWraps, Given, task
  <2>3. wp' < capacity' \/ capacity' = 0
    BY <1>4 DEF p
  <2>4. pc = "read" => n' <= rb_get_fill_size'
    BY <1>1, <1>7 DEF Inv, TypeOK, CallOK, task
  <2>5. pc \in {"rest", "consume"} => Fill(snap, rp)' <= rb_get_fill_size'
    BY <1>1, <1>7, <2>2 DEF Inv, TypeOK, CallOK, Fill
  <2> QED BY <1>1, <2>1, <2>2, <2>3, <2>4, <2>5
          DEF Inv, CallOK, Writing, task
<1>15. ClaimsOK' /\ ReadStep
  BY <1>1 DEF Inv, ClaimsOK, task, ReadStep
<1> QED BY <1>10, <1>11, <1>13, <1>14, <1>15 DEF Inv

LEMMA NextInv == Inv /\ [Next]_vars => Inv' /\ (ReadStep \/ UNCHANGED vars)
<1> SUFFICES ASSUME Inv, [Next]_vars PROVE Inv' /\ (ReadStep \/ UNCHANGED vars)
  OBVIOUS
<1>1. CASE UNCHANGED vars
  BY <1>1 DEF vars, task, Inv, TypeOK, FillIsWhatIsLeft, UnreadIntact, CallOK,
     ClaimsOK, Writing, Reading, rb_get_fill_size, Fill, Cell, FirstPart,
     Given, ReadWraps, InOrder
<1>2. CASE Next
  BY <1>2, DeviceStep, WriteStep, CopyStep, PublishStep, TailStep, SettleStep,
     ReadBeginStep, ReadCopyStep, ReadTailStep, ConsumeStep, DacIsrStep,
     AdcIsrStep DEF Next
<1> QED BY <1>1, <1>2

LEMMA SpecInv == Spec => []Inv
<1>1. Inv /\ [Next]_vars => Inv'
  BY NextInv
<1> QED BY InitInv, <1>1, PTL DEF Spec

-----------------------------------------------------------------------------
(* The theorems *)

\* The pointers stay in the buffer and the sizes do not wrap below zero,
\* whatever the calls and the interrupts.
THEOREM TypeCorrect == Spec => []TypeOK
<1>1. Inv => TypeOK
  BY DEF Inv
<1> QED BY SpecInv, <1>1, PTL

\* rb_get_fill_size and RWP_SAFE_INTERVAL: without a lock, the fill size is what
\* was written and not read.
THEOREM FillStaysTrue == Spec => []FillIsWhatIsLeft
<1>1. Inv => FillIsWhatIsLeft
  BY DEF Inv
<1> QED BY SpecInv, <1>1, PTL

\* rb_write and rb_read: no byte is written over before it is read.
THEOREM UnreadStaysIntact == Spec => []UnreadIntact
<1>1. Inv => UnreadIntact
  BY DEF Inv
<1> QED BY SpecInv, <1>1, PTL

\* audio_dac_write and audio_adc_read return what the ring really took or gave.
THEOREM CountsStayTrue == Spec => []CountsAreTrue
<1>1. Inv => CountsAreTrue
  BY DEF Inv, TypeOK, ClaimsOK, CountsAreTrue
<1> QED BY SpecInv, <1>1, PTL

\* rb_read and the DAC interrupt give the bytes in the order of rb_write.
THEOREM ReadsStayInOrder == Spec => ReadInOrder
<1>1. Inv /\ [Next]_vars
        => [heard' # heard /\ pc # "tail" =>
              InOrder(heard', IF dev = "dac" THEN read' - Len(heard')
                                             ELSE read)]_vars
  BY NextInv DEF ReadStep
<1> QED BY SpecInv, <1>1, PTL DEF Spec, ReadInOrder
=============================================================================
