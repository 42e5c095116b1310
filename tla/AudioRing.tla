----------------------------- MODULE AudioRing -----------------------------
(***************************************************************************)
(* The ring buffer between a task and the audio interrupt, in interrupt    *)
(* mode (driver/audio/ring_buffer.c, audio_adc.c, audio_dac.c).            *)
(*                                                                         *)
(* Of the DAC's ring the task is the writer and the interrupt the reader,  *)
(* of the ADC's ring it is the other way round.  The interrupt handler is  *)
(* one step; the task can be interrupted between any two accesses to wp or *)
(* rp and between the two parts of a copy that wraps.                      *)
(*                                                                         *)
(* A byte is the number of its arrival: the first byte ever written is 1.  *)
(***************************************************************************)
EXTENDS Integers, Sequences

CONSTANTS
    BufLen,     \* buf_len of the configuration
    Frame,      \* the bytes the interrupt moves: 2, or 4 with two channels
    Counts,     \* the counts callers pass to audio_dac_write, audio_adc_read
    MaxBytes    \* bound: bytes written in a behaviour

Safe == 4       \* RWP_SAFE_INTERVAL

ASSUME RingAssumption ==
    /\ BufLen \in Nat
    /\ Frame \in Nat \ {0}
    /\ Counts \subseteq Nat
    /\ MaxBytes \in Nat

VARIABLES
    dev,        \* "dac" or "adc": whose ring this is
    status,     \* aud_dac.status, aud_adc.status
    capacity,   \* rb->capacity, 0 when the device is closed
    mem,        \* rb->address
    wp, rp,     \* rb->wp, rb->rp
    pc,         \* where the task is in rb_write or rb_read
    n,          \* the bytes it writes or reads
    snap,       \* the wp that rb_read read
    heard,      \* the bytes of the last read, in their order
    written,    \* bytes that were put behind wp
    read,       \* bytes that rp went past, or that were dropped by a close
    claimed     \* bytes the task was told it wrote or read, or were dropped

task == <<pc, n, snap>>
vars == <<dev, status, capacity, mem, wp, rp, pc, n, snap, heard,
          written, read, claimed>>

-----------------------------------------------------------------------------
(* ring_buffer.c *)

Smaller(a, b) == IF a <= b THEN a ELSE b

Fill(w, r) == IF w >= r THEN w - r ELSE capacity - r + w
Room(w, r) == IF w >= r THEN capacity - w + r ELSE r - w

rb_get_fill_size == Fill(wp, rp)

\* Mutant: the free size is all there is.
rb_get_free_size_All == Room(wp, rp)

rb_get_free_size == IF Room(wp, rp) > Safe THEN Room(wp, rp) - Safe ELSE 0

\* memcpy of the l bytes numbered from s to address[o].
Store(m, o, l, s) ==
    [c \in DOMAIN m |-> IF c >= o /\ c < o + l THEN s + (c - o) ELSE m[c]]

Load(o, l) == [i \in 1 .. l |-> mem[o + i - 1]]

\* Mutant: no safe interval.
Fits_Exactly(l) == Room(wp, rp) >= l

\* rb_write of l bytes: the test for room, the first of the two copies, wp
\* after them, and the last test.
Fits(l) == Room(wp, rp) >= l + Safe

\* Mutant: the copy goes on past the end of the buffer.
FirstPart_Runs(l) == l

WriteWraps(l) == l > capacity - wp
FirstPart(l)  == Smaller(l, capacity - wp)
StoreFirst(l) == Store(mem, wp, FirstPart(l), written + 1)

\* Mutant: wp does not wrap.
Publish_Runs(l) == wp + l

Publish(l) == IF WriteWraps(l) THEN l - (capacity - wp) ELSE wp + l
Settle(w)  == IF w >= capacity /\ rp # 0 THEN 0 ELSE w

\* rb_read of l bytes when wp was w: the bytes it gives, the one or two copies,
\* and rp after them.
Given(l, w)     == Smaller(l, Fill(w, rp))
ReadWraps(l, w) == w < rp /\ l > capacity - rp
LoadFirst(l, w) ==
    Load(rp, IF ReadWraps(l, w) THEN capacity - rp ELSE Given(l, w))

\* Mutant: the second copy is not cut off at wp.
LoadTail_Unclipped(l, w) ==
    IF ReadWraps(l, w) THEN Load(0, l - (capacity - rp)) ELSE << >>

LoadTail(l, w) ==
    IF ReadWraps(l, w) THEN Load(0, Given(l, w) - (capacity - rp)) ELSE << >>
Consume(l, w) ==
    IF ReadWraps(l, w) THEN Given(l, w) - (capacity - rp)
                       ELSE rp + Given(l, w)

-----------------------------------------------------------------------------
(* The device operations, called by the task *)

Init ==
    /\ dev \in {"dac", "adc"}
    /\ status = "closed"
    /\ capacity = 0 /\ wp = 0 /\ rp = 0
    /\ mem = [c \in 0 .. BufLen - 1 |-> 0]
    /\ pc = "idle" /\ n = 0 /\ snap = 0 /\ heard = << >>
    /\ written = 0 /\ read = 0 /\ claimed = 0

\* rb_init, or the memset of close: what was not read yet is gone.
Reset(c) ==
    /\ capacity' = c /\ wp' = 0 /\ rp' = 0
    /\ read' = written /\ claimed' = written
    /\ heard' = << >>
    /\ UNCHANGED <<dev, mem, task, written>>

Open  == pc = "idle" /\ status' = "opened" /\ Reset(BufLen)
Close == pc = "idle" /\ status # "closed" /\ status' = "closed" /\ Reset(0)

Switch(s) ==
    /\ pc = "idle" /\ status # s /\ status' = s
    /\ UNCHANGED <<dev, capacity, mem, wp, rp, task, heard, written, read,
                   claimed>>
Play  == Switch("playing")
Pause == Switch("pause")

\* audio_dac_write asks for the free size and passes the smaller count on.
audio_dac_write(count) ==
    /\ dev = "dac" /\ pc = "idle" /\ status # "closed"
    /\ n' = Smaller(count, rb_get_free_size)
    /\ n' > 0
    /\ written + n' <= MaxBytes
    /\ pc' = "write"
    /\ UNCHANGED <<dev, status, capacity, mem, wp, rp, snap, heard, written,
                   read, claimed>>

\* Were there no room, rb_write would return 0, and audio_dac_write all the
\* same the count.
rb_write_copies ==
    /\ pc = "write"
    /\ IF Fits(n)
       THEN pc' = "publish" /\ mem' = StoreFirst(n) /\ UNCHANGED claimed
       ELSE pc' = "idle" /\ claimed' = claimed + n /\ UNCHANGED mem
    /\ UNCHANGED <<dev, status, capacity, wp, rp, n, snap, heard, written,
                   read>>

\* wp moves before the bytes at the start of the buffer are copied.
rb_write_publishes ==
    /\ pc = "publish"
    /\ wp' = Publish(n)
    /\ written' = written + n
    /\ pc' = IF WriteWraps(n) THEN "tail" ELSE "settle"
    /\ UNCHANGED <<dev, status, capacity, mem, rp, n, snap, heard, read,
                   claimed>>

rb_write_copies_tail ==
    /\ pc = "tail"
    /\ mem' = Store(mem, 0, wp, written - wp + 1)
    /\ pc' = "settle"
    /\ UNCHANGED <<dev, status, capacity, wp, rp, n, snap, heard, written,
                   read, claimed>>

rb_write_settles ==
    /\ pc = "settle"
    /\ wp' = Settle(wp)
    /\ claimed' = claimed + n
    /\ pc' = "idle"
    /\ UNCHANGED <<dev, status, capacity, mem, rp, n, snap, heard, written,
                   read>>

audio_adc_read(count) ==
    /\ dev = "adc" /\ pc = "idle" /\ status = "playing"
    /\ n' = Smaller(count, rb_get_fill_size)
    /\ n' > 0
    /\ pc' = "read"
    /\ UNCHANGED <<dev, status, capacity, mem, wp, rp, snap, heard, written,
                   read, claimed>>

rb_read_copies ==
    /\ pc = "read"
    /\ snap' = wp
    /\ heard' = LoadFirst(n, wp)
    /\ pc' = "rest"
    /\ UNCHANGED <<dev, status, capacity, mem, wp, rp, n, written, read,
                   claimed>>

rb_read_copies_tail ==
    /\ pc = "rest"
    /\ heard' = heard \o LoadTail(n, snap)
    /\ pc' = "consume"
    /\ UNCHANGED <<dev, status, capacity, mem, wp, rp, n, snap, written, read,
                   claimed>>

rb_read_consumes ==
    /\ pc = "consume"
    /\ rp' = Consume(n, snap)
    /\ read' = read + Given(n, snap)
    /\ claimed' = claimed + n
    /\ pc' = "idle"
    /\ UNCHANGED <<dev, status, capacity, mem, wp, n, snap, heard, written>>

-----------------------------------------------------------------------------
(* The interrupt handlers: one turn of their loops.  Without room a sample *)
(* is lost, without data the DAC plays silence.                            *)

audio_dac_isr ==
    /\ dev = "dac" /\ status = "playing" /\ rb_get_fill_size > 0
    /\ heard' = LoadFirst(Frame, wp) \o LoadTail(Frame, wp)
    /\ rp' = Consume(Frame, wp)
    /\ read' = read + Given(Frame, wp)
    /\ UNCHANGED <<dev, status, capacity, mem, wp, task, written, claimed>>

audio_adc_isr ==
    /\ dev = "adc" /\ status = "playing" /\ Fits(Frame)
    /\ written + Frame <= MaxBytes
    /\ mem' = Store(StoreFirst(Frame), 0, Frame - FirstPart(Frame),
                    written + 1 + FirstPart(Frame))
    /\ wp' = Settle(Publish(Frame))
    /\ written' = written + Frame
    /\ UNCHANGED <<dev, status, capacity, rp, task, heard, read, claimed>>

Next ==
    \/ Open \/ Close \/ Play \/ Pause
    \/ \E count \in Counts : audio_dac_write(count) \/ audio_adc_read(count)
    \/ rb_write_copies \/ rb_write_publishes \/ rb_write_copies_tail
    \/ rb_write_settles
    \/ rb_read_copies \/ rb_read_copies_tail \/ rb_read_consumes
    \/ audio_dac_isr \/ audio_adc_isr

Spec == Init /\ [][Next]_vars

-----------------------------------------------------------------------------
(* Properties *)

\* Types of the variables of the ring and of the call under way.
TypeOK ==
    /\ dev \in {"dac", "adc"}
    /\ status \in {"closed", "opened", "playing", "pause"}
    /\ capacity \in {0, BufLen}
    /\ mem \in [0 .. BufLen - 1 -> Nat]
    /\ wp \in 0 .. capacity /\ rp \in 0 .. capacity
    /\ pc \in {"idle", "write", "publish", "tail", "settle",
              "read", "rest", "consume"}
    /\ n \in Nat /\ snap \in Nat /\ heard \in Seq(Nat)
    /\ written \in Nat /\ read \in Nat /\ claimed \in Nat

\* The two ends, which no lock joins, never disagree on what is in the ring:
\* the bytes put in and not yet taken out are the fill size, and RWP_SAFE_INTERVAL
\* cells stay free, without which a full ring would look like an empty one.
FillIsWhatIsLeft ==
    /\ written = read + rb_get_fill_size
    /\ rb_get_fill_size = 0 \/ rb_get_fill_size + Safe <= capacity

\* Where the k-th byte after the next to be read is.
Cell(k) == IF rp + k < capacity THEN rp + k ELSE rp + k - capacity

\* A byte that waits to be read is the byte that was written, whatever the
\* other end does meanwhile; except for the start of the buffer while rb_write
\* has moved wp over it and not copied the bytes (ring_buffer.c:139-142).
UnreadIntact ==
    \A k \in 0 .. rb_get_fill_size - 1 :
        (pc = "tail" => Cell(k) >= wp) => mem[Cell(k)] = read + k + 1

\* What audio_dac_write and audio_adc_read return, the size they asked for
\* beforehand, is what rb_write and rb_read then move, though the interrupt
\* has moved the other pointer in between.
CountsAreTrue ==
    pc = "idle" => claimed = (IF dev = "dac" THEN written ELSE read)

InOrder(bytes, from) == \A i \in DOMAIN bytes : bytes[i] = from + i

\* Every read yields the next bytes in the order they were written, none
\* twice, none left out, none from before the device was opened; only the DAC
\* interrupt that strikes between the two copies of rb_write may play others.
ReadInOrder ==
    [][heard' # heard /\ pc # "tail" =>
         InOrder(heard', IF dev = "dac" THEN read' - Len(heard')
                                        ELSE read)]_vars
=============================================================================
