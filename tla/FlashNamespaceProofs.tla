------------------------ MODULE FlashNamespaceProofs ------------------------
(***************************************************************************)
(* Theorems about FlashNamespace, for every number of blocks and slots,    *)
(* every sector size and every bound on power losses and failed            *)
(* allocations.  The data of a record is never touched while the flash     *)
(* holds the record: records are laid out one behind the other, and what   *)
(* is being programmed lies behind all of them.                            *)
(***************************************************************************)
EXTENDS FlashNamespace, TLAPS

-----------------------------------------------------------------------------
(* The inductive invariant *)

Putting == pc \in {"put_data", "put_record"}

\* The compaction has a copy of the records, one of them not in use.
CopyReady ==
    pc \in {"re_names", "re_data", "re_loop"} \/ (Putting /\ idx # 0) =>
        /\ OrderedRecords(nameTemp)
        /\ \E s \in Slots : nameTemp[s].flag # "using"

\* What the compaction has written: the slots before `slot`, and nothing else.
Written(slot, off) ==
    /\ off < SectorSize
    /\ \A t \in Slots : t < slot =>
          names[blk][t].flag # "blank" /\ names[blk][t].off + names[blk][t].len <= off
    /\ \A t \in Slots : t >= slot => names[blk][t].flag = "blank"

\* The cursor stays at or before the copied record, in slots and in bytes, and
\* strictly before it once a record was dropped.
Behind(slot, off, i) ==
    /\ slot <= i
    /\ (\E s \in Slots : s < i /\ nameTemp[s].flag # "using") => slot < i
    /\ \A s \in Slots : s >= i /\ nameTemp[s].flag # "blank" => off <= nameTemp[s].off

CopyInv ==
    /\ pc = "re_loop" =>
          /\ idx \in 1 .. NumSlots + 1
          /\ Behind(cur.slot, cur.off, idx)
          /\ Written(cur.slot, cur.off)
    /\ Putting /\ idx # 0 =>
          /\ idx \in 2 .. NumSlots + 1
          /\ Behind(cur.slot + 1, cur.off + Len(put.bytes), idx)
          /\ Written(cur.slot, cur.off)

\* Outside its loops a call has idx = 0.
Linear == {"idle", "refused", "namespace", "set_namespace", "set_name",
           "new_addr", "name", "re_names", "re_data",
           "clear_names", "clear_data", "clear_dir"}
IdxInv == pc \in Linear => idx = 0

\* Data sectors are erased only where no record is left.
EraseInv ==
    /\ pc \in {"re_data", "clear_data"} => names[blk] = ErasedNames
    /\ pc = "erase" => \A b \in MatterBlocks : b < idx => names[b] = ErasedNames

Inv ==
    /\ TypeOK
    /\ RecordsOrdered
    /\ PutsAreFree
    /\ CopyReady
    /\ CopyInv
    /\ EraseInv
    /\ IdxInv

-----------------------------------------------------------------------------
(* Lemmas about the flash operators *)

\* Programming keeps the type of a data sector and leaves every cell outside
\* the programmed region alone.
LEMMA ProgramLemma ==
    ASSUME NEW sector \in [Cells -> Bytes], NEW o \in Nat, NEW bytes \in Seq(Bytes)
    PROVE  /\ Program(sector, o, bytes) \in [Cells -> Bytes]
           /\ \A c \in Cells : c < o \/ c >= o + Len(bytes) =>
                 Program(sector, o, bytes)[c] = sector[c]
<1>1. ASSUME NEW c \in Cells, c >= o, c < o + Len(bytes)
      PROVE  sector[c] \cap bytes[c - o + 1] \in Bytes
  <2>1. c - o + 1 \in 1 .. Len(bytes)
    BY <1>1 DEF Cells
  <2>2. sector[c] \in Bytes
    OBVIOUS
  <2> QED BY <2>1, <2>2 DEF Bytes
<1>2. \A c \in Cells : sector[c] \in Bytes
  OBVIOUS
<1>3. Program(sector, o, bytes) \in [Cells -> Bytes]
  BY <1>1, <1>2 DEF Program
<1>4. \A c \in Cells : c < o \/ c >= o + Len(bytes) =>
         Program(sector, o, bytes)[c] = sector[c]
  BY DEF Program, Cells
<1> QED BY <1>3, <1>4

\* Reading a region inside a sector gives that many bytes.
LEMMA ReadLemma ==
    ASSUME NEW sector \in [Cells -> Bytes], NEW o \in Nat, NEW l \in Nat, o + l <= SectorSize
    PROVE  /\ ReadCells(sector, o, l) \in Seq(Bytes)
           /\ Len(ReadCells(sector, o, l)) = l
<1>1. \A j \in 1 .. l : o + j - 1 \in Cells
  BY SizesAssumption DEF Cells
<1>2. ReadCells(sector, o, l) \in [1 .. l -> Bytes]
  BY <1>1 DEF ReadCells
<1> QED BY <1>2

\* Masking a record changes neither its place nor that it is there.
LEMMA MaskedLemma ==
    ASSUME NEW sector \in [Slots -> NameRecords], NEW s \in Slots,
           OrderedRecords(sector), sector[s].flag = "using"
    PROVE  /\ Masked(sector, s) \in [Slots -> NameRecords]
           /\ OrderedRecords(Masked(sector, s))
<1>1. Masked(sector, s) \in [Slots -> NameRecords]
  BY DEF Masked, NameRecords
<1>2. \A t \in Slots : /\ Masked(sector, s)[t].off = sector[t].off
                       /\ Masked(sector, s)[t].len = sector[t].len
                       /\ Masked(sector, s)[t].flag = "blank" <=> sector[t].flag = "blank"
  BY DEF Masked, NameRecords
<1>3. \A t \in Slots : \A u \in 1 .. (t - 1) : u \in Slots
  BY SizesAssumption DEF Slots
<1>4. OrderedRecords(Masked(sector, s))
  BY <1>2, <1>3 DEF OrderedRecords
<1> QED BY <1>1, <1>4

\* An erased sector of records is ordered.
LEMMA ErasedLemma ==
    /\ ErasedNames \in [Slots -> NameRecords]
    /\ OrderedRecords(ErasedNames)
    /\ ErasedData \in [Cells -> Bytes]
    /\ \A s \in Slots : ErasedNames[s].flag = "blank"
BY DEF ErasedNames, ErasedData, BlankRecord, NameRecords, OrderedRecords, Bytes

-----------------------------------------------------------------------------
(* The invariant *)

\* The steps of a call that program or erase relative to what they found.
Critical == {"put_data", "put_record", "re_names", "re_data", "re_loop",
             "clear_data", "erase"}

\* A step that leads out of the critical ones has only the records to mind.
Quiet == pc \notin Critical /\ IdxInv
\* A step that leaves the flash and the call's working state alone keeps Inv.
LEMMA QuietStep ==
    ASSUME TypeOK', RecordsOrdered', Quiet'
    PROVE  Inv'
BY DEF Inv, Quiet, Critical, PutsAreFree, CopyReady, CopyInv, EraseInv, Putting

\* change_namespace_to_beken answers a stored namespace and a stored name.
LEMMA KeyLemma ==
    ASSUME NEW ns \in Namespaces, NEW n \in Names
    PROVE  Key(ns, n).ns \in Namespaces /\ Key(ns, n).name \in StoredNames
BY NamespacesAssumption DEF Key, Reserved, StoredNames

\* An erased flash, with or without the records of the factory, satisfies Inv.
LEMMA InitInv == Init => Inv
<1> SUFFICES ASSUME Init PROVE Inv
  OBVIOUS
<1> USE SizesAssumption, NamespacesAssumption, ValuesAssumption
<1>1. 0 \in Blocks
  BY DEF Blocks
<1>2. /\ call \in Calls
      /\ cur \in [slot : Nat \ {0}, off : Nat]
      /\ put \in [name : StoredNames \cup {Blank, Torn}, bytes : Seq(Bytes)]
  BY DEF Init, Calls, NoCall, NoPut, Start
<1>3. /\ names \in [Blocks -> [Slots -> NameRecords]]
      /\ data \in [Blocks -> [Cells -> Bytes]]
      /\ dir \in [Blocks -> Entries]
      /\ RecordsOrdered
  <2>1. CASE /\ dir = [b \in Blocks |-> Blank]
             /\ names = [b \in Blocks |-> ErasedNames]
             /\ data = [b \in Blocks |-> ErasedData]
    BY <2>1, ErasedLemma DEF Entries, RecordsOrdered
  <2>2. ASSUME NEW a \in Accesses, NEW v \in Values,
               a[1] = Factory, Len(v) < SectorSize,
               dir = [b \in Blocks |-> IF b = 0 THEN Factory ELSE Blank],
               names = [b \in Blocks |-> IF b = 0
                            THEN [ErasedNames EXCEPT ![1] = Record(0, Len(v), a[2])]
                            ELSE ErasedNames],
               data = [b \in Blocks |-> IF b = 0 THEN Program(ErasedData, 0, v)
                                                 ELSE ErasedData]
        PROVE  /\ names \in [Blocks -> [Slots -> NameRecords]]
               /\ data \in [Blocks -> [Cells -> Bytes]]
               /\ dir \in [Blocks -> Entries]
               /\ RecordsOrdered
    <3>1. v \in Seq(Bytes) /\ a[2] \in StoredNames
      BY DEF StoredNames
    <3>2. Record(0, Len(v), a[2]) \in NameRecords
      BY <3>1 DEF Record, NameRecords
    <3>3. data \in [Blocks -> [Cells -> Bytes]]
      BY <3>1, <2>2, ErasedLemma, ProgramLemma
    <3>4. names \in [Blocks -> [Slots -> NameRecords]]
      BY <3>2, <2>2, ErasedLemma
    <3>5. OrderedRecords([ErasedNames EXCEPT ![1] = Record(0, Len(v), a[2])])
      BY <3>1, <2>2, ErasedLemma DEF OrderedRecords, Record, Slots
    <3>6. RecordsOrdered
      BY <3>5, <2>2, ErasedLemma DEF RecordsOrdered
    <3> QED BY <3>3, <3>4, <3>6, <2>2 DEF Entries
  <2> QED BY <2>1, <2>2 DEF Init
<1>4. TypeOK
  BY <1>1, <1>2, <1>3, ErasedLemma DEF Init, TypeOK, Steps, Entries
<1>5. PutsAreFree /\ CopyReady /\ CopyInv /\ EraseInv /\ IdxInv
  BY DEF Init, PutsAreFree, CopyReady, CopyInv, EraseInv, IdxInv, Putting
<1> QED BY <1>3, <1>4, <1>5 DEF Inv

\* A call only records its arguments.
LEMMA EnterStep ==
    ASSUME Inv, NEW c, NEW step, Enter(c, step),
           c \in Calls, step \in {"refused", "namespace"}
    PROVE  Inv'
<1>1. TypeOK'
  BY DEF Inv, TypeOK, Enter, Steps, flash
<1>2. RecordsOrdered' /\ Quiet'
  BY DEF Inv, RecordsOrdered, OrderedRecords, Enter, flash, volatile, Quiet, Critical, IdxInv, Linear
<1> QED BY <1>1, <1>2, QuietStep

\* The arguments a function hands on are those of a call.
LEMMA CallOfLemma ==
    ASSUME NEW a \in Accesses, NEW v \in Seq(Bytes), NEW l \in Nat,
           NEW fn \in {"write", "clean", "read", "exists"}
    PROVE  CallOf(fn, Key(a[1], a[2]), v, l) \in Calls
<1>1. a[1] \in Namespaces /\ a[2] \in Names
  BY NamespacesAssumption
<1> QED BY <1>1, KeyLemma DEF CallOf, Calls

\* Entering any function of the interface keeps Inv.
LEMMA CallStep ==
    ASSUME Inv, Call
    PROVE  Inv'
<1>1. ASSUME NEW a \in Accesses, NEW v \in Values, bk_write_data(a[1], a[2], v)
      PROVE  Inv'
  <2>1. CallOf("write", Key(a[1], a[2]), v, 0) \in Calls
    BY CallOfLemma, ValuesAssumption
  <2> QED BY <1>1, <2>1, EnterStep DEF bk_write_data
<1>2. ASSUME NEW a \in Accesses, bk_clean_data(a[1], a[2])
      PROVE  Inv'
  <2>1. CallOf("clean", Key(a[1], a[2]), <<>>, 0) \in Calls
    BY CallOfLemma, <<>> \in Seq(Bytes)
  <2> QED BY <1>2, <2>1, EnterStep DEF bk_clean_data
<1>3. ASSUME NEW a \in Accesses, NEW l \in ReadLens, bk_read_data(a[1], a[2], l)
      PROVE  Inv'
  <2>1. CallOf("read", Key(a[1], a[2]), <<>>, l) \in Calls
    BY CallOfLemma, ValuesAssumption, <<>> \in Seq(Bytes)
  <2> QED BY <1>3, <2>1, EnterStep DEF bk_read_data
<1>4. ASSUME NEW a \in Accesses, bk_ensure_name_data(a[1], a[2])
      PROVE  Inv'
  <2>1. CallOf("exists", Key(a[1], a[2]), <<>>, 0) \in Calls
    BY CallOfLemma, <<>> \in Seq(Bytes)
  <2> QED BY <1>4, <2>1, EnterStep DEF bk_ensure_name_data
<1>5. ASSUME NEW ns \in Namespaces, bK_clear_namespace(ns)
      PROVE  Inv'
  <2>1. CallOf("clear", [ns |-> ns, name |-> Blank], <<>>, 0) \in Calls
    BY DEF CallOf, Calls
  <2> QED BY <1>5, <2>1, EnterStep DEF bK_clear_namespace
<1>6. ASSUME NEW ns \in Namespaces, bk_ensure_namespace(ns)
      PROVE  Inv'
  <2>1. CallOf("ensure", [ns |-> ns, name |-> Blank], <<>>, 0) \in Calls
    BY DEF CallOf, Calls
  <2> QED BY <1>6, <2>1, EnterStep DEF bk_ensure_namespace
<1>7. ASSUME bk_erase_all
      PROVE  Inv'
  <2>0. [NoCall EXCEPT !.fn = "erase"] \in Calls
    BY NamespacesAssumption, <<>> \in Seq(Bytes) DEF NoCall, Calls
  <2>1. TypeOK'
    BY <1>7, <2>0 DEF Inv, TypeOK, bk_erase_all, Steps, flash
  <2>2. RecordsOrdered'
    BY <1>7 DEF Inv, RecordsOrdered, OrderedRecords, bk_erase_all, flash
  <2>3. PutsAreFree' /\ CopyReady' /\ CopyInv'
    BY <1>7 DEF bk_erase_all, PutsAreFree, CopyReady, CopyInv, Putting
  <2>4. EraseInv' /\ IdxInv'
    BY <1>7 DEF bk_erase_all, EraseInv, IdxInv, Linear, MatterBlocks
  <2> QED BY <2>1, <2>2, <2>3, <2>4 DEF Inv
<1> QED BY <1>1, <1>2, <1>3, <1>4, <1>5, <1>6, <1>7 DEF Call

\* Finding the namespace, or making its directory entry.
LEMMA NamespaceStep ==
    ASSUME Inv,
           \/ GetNamespaceFound \/ GetNamespaceError
           \/ bk_set_namespace \/ bk_set_namespace_fails \/ Refuse
    PROVE  Inv'
<1>1. CASE GetNamespaceFound
  <2>1. TypeOK'
    BY <1>1 DEF Inv, TypeOK, GetNamespaceFound, Finish, Steps, flash
  <2>2. RecordsOrdered' /\ Quiet'
    BY <1>1 DEF Inv, RecordsOrdered, OrderedRecords, GetNamespaceFound, Finish, flash, volatile, Quiet, Critical, IdxInv, Linear
  <2> QED BY <2>1, <2>2, QuietStep
<1>2. CASE GetNamespaceError
  <2>1. TypeOK'
    BY <1>2 DEF Inv, TypeOK, GetNamespaceError, Finish, MallocFails, Steps, flash
  <2>2. RecordsOrdered' /\ Quiet'
    BY <1>2 DEF Inv, RecordsOrdered, OrderedRecords, GetNamespaceError, Finish, flash, volatile, Quiet, Critical, IdxInv, Linear
  <2> QED BY <2>1, <2>2, QuietStep
<1>3. CASE bk_set_namespace
  <2>1. TypeOK'
    BY <1>3 DEF Inv, TypeOK, bk_set_namespace, Finish, Steps, Entries, Calls
  <2>2. RecordsOrdered' /\ Quiet'
    BY <1>3 DEF Inv, RecordsOrdered, OrderedRecords, bk_set_namespace, Finish, Quiet, Critical, IdxInv, Linear
  <2> QED BY <2>1, <2>2, QuietStep
<1>4. CASE bk_set_namespace_fails
  <2>1. TypeOK'
    BY <1>4 DEF Inv, TypeOK, bk_set_namespace_fails, Finish, MallocFails, Steps, flash, volatile
  <2>2. RecordsOrdered' /\ Quiet'
    BY <1>4 DEF Inv, RecordsOrdered, OrderedRecords, bk_set_namespace_fails, Finish, flash, volatile, Quiet, Critical, IdxInv, Linear
  <2> QED BY <2>1, <2>2, QuietStep
<1>5. CASE Refuse
  <2>1. TypeOK'
    BY <1>5 DEF Inv, TypeOK, Refuse, Finish, Steps, flash, volatile
  <2>2. RecordsOrdered' /\ Quiet'
    BY <1>5 DEF Inv, RecordsOrdered, OrderedRecords, Refuse, Finish, flash, volatile, Quiet, Critical, IdxInv, Linear
  <2> QED BY <2>1, <2>2, QuietStep
<1> QED BY <1>1, <1>2, <1>3, <1>4, <1>5

\* A record that is masked stays where it is.
LEMMA MaskStep ==
    ASSUME Inv, NEW s \in Slots, NEW n, IsSlotOf(n, names[blk], s),
           names' = [names EXCEPT ![blk] = Masked(@, s)]
    PROVE  names' \in [Blocks -> [Slots -> NameRecords]] /\ RecordsOrdered'
<1>1. names[blk] \in [Slots -> NameRecords] /\ OrderedRecords(names[blk]) /\ blk \in Blocks
  BY DEF Inv, TypeOK, RecordsOrdered
<1>2. /\ Masked(names[blk], s) \in [Slots -> NameRecords]
      /\ OrderedRecords(Masked(names[blk], s))
  BY <1>1, MaskedLemma DEF IsSlotOf
<1> QED BY <1>1, <1>2 DEF Inv, TypeOK, RecordsOrdered

\* Looking the name up and masking its record.
LEMMA NameStep ==
    ASSUME Inv, SetName \/ NameFound \/ NameError
    PROVE  Inv'
<1>1. CASE SetSameValue
  <2>1. TypeOK'
    BY <1>1 DEF Inv, TypeOK, SetSameValue, Finish, Steps, flash, volatile
  <2>2. RecordsOrdered' /\ Quiet'
    BY <1>1 DEF Inv, RecordsOrdered, OrderedRecords, SetSameValue, Finish, flash, volatile, Quiet, Critical, IdxInv, Linear
  <2> QED BY <2>1, <2>2, QuietStep
<1>2. CASE MaskOldValue
  <2>1. names' \in [Blocks -> [Slots -> NameRecords]] /\ RecordsOrdered'
    BY <1>2, MaskStep DEF MaskOldValue
  <2>2. TypeOK' /\ Quiet'
    BY <1>2, <2>1 DEF Inv, TypeOK, MaskOldValue, Steps, volatile, Quiet, Critical, IdxInv, Linear
  <2> QED BY <2>1, <2>2, QuietStep
<1>3. CASE NoOldValue
  <2>1. TypeOK'
    BY <1>3 DEF Inv, TypeOK, NoOldValue, MallocFails, Steps, flash, volatile
  <2>2. RecordsOrdered' /\ Quiet'
    BY <1>3 DEF Inv, RecordsOrdered, OrderedRecords, NoOldValue, flash, volatile, Quiet, Critical, IdxInv, Linear
  <2> QED BY <2>1, <2>2, QuietStep
<1>4. CASE NameFound
  <2> PICK s \in Slots :
          /\ IsSlotOf(call.name, names[blk], s)
          /\ \/ /\ call.fn = "clean"
                /\ names' = [names EXCEPT ![blk] = Masked(@, s)]
                /\ UNCHANGED out
             \/ /\ call.fn = "read"
                /\ LET r == names[blk][s]
                   IN  out' = ReadCells(data[blk], r.off,
                                        IF call.len > r.len THEN r.len ELSE call.len)
                /\ UNCHANGED names
             \/ call.fn = "exists" /\ UNCHANGED <<names, out>>
    BY <1>4 DEF NameFound, CleanName, ReadName, EnsureName
  <2>1. names' \in [Blocks -> [Slots -> NameRecords]] /\ RecordsOrdered'
    <3>1. CASE UNCHANGED names
      BY <3>1 DEF Inv, TypeOK, RecordsOrdered, OrderedRecords
    <3>2. CASE names' = [names EXCEPT ![blk] = Masked(@, s)]
      BY <3>2, MaskStep
    <3> QED BY <3>1, <3>2
  <2>2. out' \in Seq(Bytes) \cup {Absent}
    <3> DEFINE l == IF call.len > names[blk][s].len THEN names[blk][s].len ELSE call.len
    <3>1. l \in Nat /\ names[blk][s].off \in Nat /\ names[blk][s].len \in Nat
          /\ data[blk] \in [Cells -> Bytes]
      BY DEF Inv, TypeOK, NameRecords, Calls
    <3>2. names[blk][s].off + l <= SectorSize
      <4>1. names[blk][s].off + names[blk][s].len < SectorSize
        BY DEF Inv, TypeOK, RecordsOrdered, OrderedRecords, IsSlotOf
      <4>2. l <= names[blk][s].len
        BY <3>1 DEF Inv, TypeOK
      <4> QED BY <3>1, <4>1, <4>2, SizesAssumption
    <3>3. ReadCells(data[blk], names[blk][s].off, l) \in Seq(Bytes)
      BY <3>1, <3>2, ReadLemma
    <3> QED BY <3>3 DEF Inv, TypeOK
  <2>3. TypeOK' /\ Quiet'
    BY <1>4, <2>1, <2>2 DEF Inv, TypeOK, NameFound, CleanName, ReadName, EnsureName, Finish, Steps, volatile, Quiet, Critical, IdxInv, Linear
  <2> QED BY <2>1, <2>3, QuietStep
<1>5. CASE NameError
  <2>1. TypeOK'
    BY <1>5 DEF Inv, TypeOK, NameError, Finish, MallocFails, Steps, flash, volatile
  <2>2. RecordsOrdered' /\ Quiet'
    BY <1>5 DEF Inv, RecordsOrdered, OrderedRecords, NameError, Finish, flash, volatile, Quiet, Critical, IdxInv, Linear
  <2> QED BY <2>1, <2>2, QuietStep
<1> QED BY <1>1, <1>2, <1>3, <1>4, <1>5 DEF SetName

\* Placing a new value: behind the last record, in a compacted block, nowhere.
LEMMA NewAddrStep ==
    ASSUME Inv, NewAddr
    PROVE  Inv'
<1> DEFINE sector == names[blk]
<1>0. /\ sector \in [Slots -> NameRecords] /\ OrderedRecords(sector)
      /\ call.val \in Seq(Bytes) /\ call.name \in StoredNames \cup {Blank}
  BY DEF Inv, TypeOK, RecordsOrdered, Calls
<1>1. CASE NewAddrDirect
  <2> PICK s \in Slots :
          /\ IsFreeSlot(sector, s)
          /\ EndBefore(sector, s) + Len(call.val) < SectorSize
          /\ cur' = [slot |-> s, off |-> EndBefore(sector, s)]
    BY <1>1 DEF NewAddrDirect
  <2>1. EndBefore(sector, s) \in Nat
    <3>1. CASE s = 1
      BY <3>1 DEF EndBefore
    <3>2. CASE s # 1
      <4>1. s - 1 \in Slots
        BY <3>2, SizesAssumption DEF Slots
      <4> QED BY <4>1, <3>2, <1>0 DEF EndBefore, NameRecords
    <3> QED BY <3>1, <3>2
  <2>2. \A t \in 1 .. (s - 1) : /\ sector[t].flag # "blank"
                                /\ sector[t].off + sector[t].len <= EndBefore(sector, s)
    <3> SUFFICES ASSUME NEW t \in 1 .. (s - 1)
                 PROVE  /\ sector[t].flag # "blank"
                        /\ sector[t].off + sector[t].len <= EndBefore(sector, s)
      OBVIOUS
    <3>1. t \in Slots /\ t < s /\ s - 1 \in Slots /\ s - 1 < s /\ s # 1
      BY SizesAssumption DEF Slots
    <3>2. sector[t].flag # "blank" /\ sector[s - 1].flag # "blank"
      BY <3>1 DEF IsFreeSlot
    <3>3. CASE t = s - 1
      <4>1. sector[t].off \in Nat /\ sector[t].len \in Nat
        BY <3>1, <1>0 DEF NameRecords
      <4> QED BY <4>1, <3>1, <3>2, <3>3 DEF EndBefore
    <3>4. CASE t # s - 1
      <4>1. t \in 1 .. (s - 1 - 1)
        BY <3>4, <3>1 DEF Slots
      <4>2. sector[t].off + sector[t].len <= sector[s - 1].off
        BY <4>1, <3>1, <3>2, <1>0 DEF OrderedRecords
      <4>3. /\ sector[t].off \in Nat /\ sector[t].len \in Nat
            /\ sector[s - 1].off \in Nat /\ sector[s - 1].len \in Nat
        <5>1. sector[t] \in NameRecords /\ sector[s - 1] \in NameRecords
          BY <3>1, <1>0
        <5> QED BY <5>1 DEF NameRecords
      <4>4. EndBefore(sector, s) = sector[s - 1].off + sector[s - 1].len
        BY <3>1 DEF EndBefore
      <4> HIDE DEF sector
      <4>5. sector[t].off + sector[t].len <= EndBefore(sector, s)
        BY <4>2, <4>3, <4>4
      <4> QED BY <4>5, <3>2
    <3> QED BY <3>3, <3>4
  <2>3. put' = [name |-> call.name, bytes |-> call.val] /\ pc' = "put_data" /\ UNCHANGED flash
        /\ UNCHANGED <<call, blk, idx, nameTemp, dataBuff, nsTemp, rtn, out, losses, fails>>
    BY <1>1 DEF NewAddrDirect, NewPut
  <2>4. TypeOK'
    BY <2>1, <2>3, <1>0 DEF Inv, TypeOK, Steps, flash, Slots
  <2>5. RecordsOrdered'
    BY <2>3 DEF Inv, RecordsOrdered, OrderedRecords, flash
  <2>6. PutsAreFree'
    BY <2>1, <2>2, <2>3 DEF PutsAreFree, PutFree, IsFreeSlot, flash
  <2>7. CopyReady' /\ CopyInv' /\ EraseInv' /\ IdxInv'
    BY <1>1, <2>3 DEF Inv, CopyReady, CopyInv, EraseInv, IdxInv, Linear, Putting, NewAddrDirect
  <2> QED BY <2>4, <2>5, <2>6, <2>7 DEF Inv
<1>2. CASE NewAddrReorganize
  <2>1. TypeOK'
    BY <1>2, <1>0 DEF Inv, TypeOK, NewAddrReorganize, Steps, flash
  <2>2. RecordsOrdered'
    BY <1>2 DEF Inv, RecordsOrdered, OrderedRecords, NewAddrReorganize, flash
  <2>3. CopyReady'
    <3>1. nameTemp' = sector
      BY <1>2 DEF NewAddrReorganize
    <3>2. \E s \in Slots : sector[s].flag # "using"
      BY <1>2 DEF NewAddrReorganize, IsFreeSlot
    <3> QED BY <1>0, <3>1, <3>2 DEF CopyReady, OrderedRecords
  <2>4. PutsAreFree' /\ CopyInv' /\ EraseInv' /\ IdxInv'
    BY <1>2 DEF Inv, PutsAreFree, CopyInv, EraseInv, IdxInv, Linear, Putting, NewAddrReorganize
  <2> QED BY <2>1, <2>2, <2>3, <2>4 DEF Inv
<1>3. CASE NewAddrFails
  <2>1. TypeOK'
    BY <1>3 DEF Inv, TypeOK, NewAddrFails, Finish, MallocFails, Steps, flash, volatile
  <2>2. RecordsOrdered' /\ Quiet'
    BY <1>3 DEF Inv, RecordsOrdered, OrderedRecords, NewAddrFails, Finish, flash, volatile, Quiet, Critical, IdxInv, Linear
  <2> QED BY <2>1, <2>2, QuietStep
<1> QED BY <1>1, <1>2, <1>3 DEF NewAddr

\* A record written at the free slot, with its data behind all the others, keeps
\* the records in order.
LEMMA PutLemma ==
    ASSUME Inv, NEW n \in StoredNames \cup {Blank, Torn}, pc = "put_record"
    PROVE  LET r == Record(cur.off, Len(put.bytes), n)
               sector == [names[blk] EXCEPT ![cur.slot] = r]
           IN  /\ [names EXCEPT ![blk][cur.slot] = r] = [names EXCEPT ![blk] = sector]
               /\ sector \in [Slots -> NameRecords]
               /\ OrderedRecords(sector)
<1> DEFINE r == Record(cur.off, Len(put.bytes), n)
           old == names[blk]
           sector == [old EXCEPT ![cur.slot] = r]
<1>1. /\ old \in [Slots -> NameRecords] /\ OrderedRecords(old) /\ blk \in Blocks
      /\ cur.off \in Nat /\ Len(put.bytes) \in Nat
  BY DEF Inv, TypeOK, RecordsOrdered
<1>2. /\ cur.slot \in Slots /\ cur.off + Len(put.bytes) < SectorSize
      /\ old[cur.slot].flag = "blank"
      /\ \A t \in 1 .. (cur.slot - 1) : old[t].flag # "blank" /\ old[t].off + old[t].len <= cur.off
  BY DEF Inv, PutsAreFree, PutFree
<1>3. r \in NameRecords /\ r.flag = "using" /\ r.off = cur.off /\ r.len = Len(put.bytes)
  BY <1>1 DEF Record, NameRecords
<1>4. sector \in [Slots -> NameRecords]
  BY <1>1, <1>3
<1>5. OrderedRecords(sector)
  <2> SUFFICES ASSUME NEW s \in Slots, sector[s].flag # "blank"
               PROVE  /\ sector[s].off + sector[s].len < SectorSize
                      /\ \A t \in 1 .. (s - 1) :
                            /\ sector[t].flag # "blank"
                            /\ sector[t].off + sector[t].len <= sector[s].off
    BY DEF OrderedRecords
  <2>1. CASE s = cur.slot
    <3>1. sector[s] = r /\ \A t \in 1 .. (s - 1) : t \in Slots /\ t # s /\ sector[t] = old[t]
      BY <2>1, <1>1, <1>2, SizesAssumption DEF Slots
    <3> QED BY <3>1, <2>1, <1>2, <1>3
  <2>2. CASE s # cur.slot
    <3>1. sector[s] = old[s] /\ old[s].flag # "blank"
      BY <2>2, <1>1
    <3>2. ~(cur.slot \in 1 .. (s - 1))
      BY <3>1, <1>1, <1>2 DEF OrderedRecords
    <3>3. \A t \in 1 .. (s - 1) : t \in Slots /\ sector[t] = old[t]
      BY <3>2, <1>1, SizesAssumption DEF Slots
    <3> QED BY <3>1, <3>3, <1>1 DEF OrderedRecords
  <2> QED BY <2>1, <2>2
<1>6. [names EXCEPT ![blk][cur.slot] = r] = [names EXCEPT ![blk] = sector]
  BY <1>1, <1>2 DEF Inv, TypeOK
<1> QED BY <1>4, <1>5, <1>6

\* Writing the data of a value and its record keeps Inv, inside a compaction too.
LEMMA PutStep ==
    ASSUME Inv, PutData \/ PutRecord
    PROVE  Inv'
<1>0. blk \in Blocks /\ cur.off \in Nat /\ cur.slot \in Nat /\ put.bytes \in Seq(Bytes)
      /\ Len(put.bytes) \in Nat /\ names \in [Blocks -> [Slots -> NameRecords]]
  BY DEF Inv, TypeOK
<1>1. CASE PutData
  <2>1. Program(data[blk], cur.off, put.bytes) \in [Cells -> Bytes]
    BY <1>0, ProgramLemma DEF Inv, TypeOK
  <2>2. TypeOK'
    BY <1>1, <2>1 DEF Inv, TypeOK, PutData, Steps, volatile
  <2>3. RecordsOrdered' /\ EraseInv' /\ IdxInv'
    BY <1>1 DEF Inv, RecordsOrdered, OrderedRecords, PutData, EraseInv, IdxInv, Linear
  <2>4. PutsAreFree'
    BY <1>1 DEF Inv, PutsAreFree, PutFree, PutData, volatile
  <2>5. CopyReady' /\ CopyInv'
    BY <1>1 DEF Inv, CopyReady, OrderedRecords, CopyInv, Putting, Behind, Written, PutData, volatile
  <2> QED BY <2>2, <2>3, <2>4, <2>5 DEF Inv
<1>2. CASE PutRecord
  <2> DEFINE r == Record(cur.off, Len(put.bytes), put.name)
             sector == [names[blk] EXCEPT ![cur.slot] = r]
  <2>1. /\ names' = [names EXCEPT ![blk] = sector]
        /\ sector \in [Slots -> NameRecords]
        /\ OrderedRecords(sector)
    BY <1>2, PutLemma DEF PutRecord, Inv, TypeOK
  <2>2. TypeOK'
    BY <1>2, <1>0, <2>1 DEF Inv, TypeOK, PutRecord, Finish, Steps
  <2>3. RecordsOrdered'
    BY <2>1, <1>0 DEF Inv, RecordsOrdered
  <2>4. CASE idx = 0
    <3>1. pc' = "return"
      BY <1>2, <2>4 DEF PutRecord, Finish
    <3> QED BY <3>1, <2>2, <2>3, QuietStep DEF Quiet, Critical, IdxInv, Linear
  <2>5. CASE idx # 0
    <3>1. /\ pc = "put_record" /\ pc' = "re_loop"
          /\ cur' = [slot |-> cur.slot + 1, off |-> cur.off + Len(put.bytes)]
          /\ UNCHANGED <<blk, idx, nameTemp>>
      BY <1>2, <2>5 DEF PutRecord
    <3>2. /\ idx \in 2 .. NumSlots + 1
          /\ Behind(cur.slot + 1, cur.off + Len(put.bytes), idx)
          /\ Written(cur.slot, cur.off)
      BY <3>1, <2>5 DEF Inv, CopyInv, Putting
    <3>3. cur.slot \in Slots /\ cur.off + Len(put.bytes) < SectorSize
      BY <3>1 DEF Inv, PutsAreFree, PutFree
    <3>4. /\ names'[blk] = sector
          /\ sector[cur.slot] = r /\ r.flag = "using" /\ r.off = cur.off /\ r.len = Len(put.bytes)
          /\ \A t \in Slots : t # cur.slot => sector[t] = names[blk][t]
      BY <2>1, <1>0, <3>3 DEF Record
    <3>5. \A t \in Slots : names[blk][t].off \in Nat /\ names[blk][t].len \in Nat
      BY <1>0 DEF NameRecords
    <3>6. Written(cur.slot, cur.off)'
      <4> HIDE DEF sector, r
      <4>1. ASSUME NEW t \in Slots, t < cur.slot + 1
            PROVE  /\ sector[t].flag # "blank"
                   /\ sector[t].off + sector[t].len <= cur.off + Len(put.bytes)
        <5>1. CASE t = cur.slot
          BY <5>1, <3>4, <1>0
        <5>2. CASE t # cur.slot
          <6>1. sector[t] = names[blk][t] /\ t < cur.slot
            BY <5>2, <4>1, <3>4, <1>0 DEF Slots
          <6> QED BY <6>1, <3>2, <3>5, <1>0 DEF Written
        <5> QED BY <5>1, <5>2
      <4>2. ASSUME NEW t \in Slots, t >= cur.slot + 1
            PROVE  sector[t].flag = "blank"
        <5>1. t # cur.slot /\ t >= cur.slot
          BY <4>2, <1>0 DEF Slots
        <5> QED BY <5>1, <3>2, <3>4 DEF Written
      <4> QED BY <4>1, <4>2, <3>1, <3>3, <3>4 DEF Written
    <3>7. CopyInv'
      BY <3>1, <3>2, <3>6 DEF CopyInv, Putting, Behind
    <3>8. CopyReady' /\ PutsAreFree' /\ EraseInv' /\ IdxInv'
      BY <3>1, <2>5 DEF Inv, CopyReady, OrderedRecords, Putting, PutsAreFree, EraseInv, IdxInv, Linear
    <3> QED BY <2>2, <2>3, <3>7, <3>8 DEF Inv
  <2> QED BY <2>4, <2>5
<1> QED BY <1>1, <1>2

\* An erased sector of records is a type-correct, ordered one.
LEMMA EraseNamesStep ==
    ASSUME Inv, names' = [names EXCEPT ![blk] = ErasedNames]
    PROVE  names' \in [Blocks -> [Slots -> NameRecords]] /\ RecordsOrdered'
BY ErasedLemma DEF Inv, TypeOK, RecordsOrdered

\* The steps of a compaction keep Inv: the copy never passes its source.
LEMMA ReorganizeStep ==
    ASSUME Inv, Reorganize
    PROVE  Inv'
<1>0. /\ blk \in Blocks /\ cur.off \in Nat /\ cur.slot \in Nat \ {0} /\ idx \in Nat
      /\ names \in [Blocks -> [Slots -> NameRecords]]
      /\ nameTemp \in [Slots -> NameRecords] /\ dataBuff \in [Cells -> Bytes]
      /\ call.val \in Seq(Bytes) /\ call.name \in StoredNames \cup {Blank}
  BY DEF Inv, TypeOK, Calls
<1>1. CASE EraseNames
  <2>1. names' \in [Blocks -> [Slots -> NameRecords]] /\ RecordsOrdered'
    BY <1>1, EraseNamesStep DEF EraseNames
  <2>2. TypeOK'
    BY <1>1, <2>1 DEF Inv, TypeOK, EraseNames, Steps, volatile
  <2>3. EraseInv' /\ IdxInv'
    BY <1>0, <1>1 DEF Inv, EraseInv, IdxInv, Linear, EraseNames, volatile
  <2>4. CopyReady' /\ PutsAreFree' /\ CopyInv'
    BY <1>1 DEF Inv, CopyReady, OrderedRecords, PutsAreFree, CopyInv, Putting, EraseNames, volatile
  <2> QED BY <2>1, <2>2, <2>3, <2>4 DEF Inv
<1>2. CASE EraseData
  <2>1. TypeOK'
    BY <1>2, ErasedLemma DEF Inv, TypeOK, EraseData, Steps, Start
  <2>2. RecordsOrdered' /\ EraseInv' /\ IdxInv'
    BY <1>2 DEF Inv, RecordsOrdered, OrderedRecords, EraseInv, IdxInv, Linear, EraseData
  <2>3. CopyReady' /\ PutsAreFree'
    BY <1>2 DEF Inv, CopyReady, OrderedRecords, PutsAreFree, Putting, EraseData
  <2>4. CopyInv'
    <3>1. /\ pc' = "re_loop" /\ idx' = 1 /\ cur'.slot = 1 /\ cur'.off = 0
          /\ names'[blk'] = ErasedNames /\ nameTemp' = nameTemp
      BY <1>2 DEF EraseData, Start, Inv, EraseInv
    <3>2. Behind(cur.slot, cur.off, idx)'
      <4>1. \A s \in Slots : nameTemp[s].off \in Nat /\ s >= 1
        BY <1>0 DEF NameRecords, Slots
      <4> QED BY <3>1, <4>1 DEF Behind, Slots
    <3>3. Written(cur.slot, cur.off)'
      BY <3>1, ErasedLemma, SizesAssumption DEF Written, Slots
    <3>4. 1 \in 1 .. NumSlots + 1
      BY SizesAssumption
    <3> QED BY <3>1, <3>2, <3>3, <3>4 DEF CopyInv, Putting
  <2> QED BY <2>1, <2>2, <2>3, <2>4 DEF Inv
<1>3. CASE ReorganizeCopy
  <2>0. /\ pc = "re_loop" /\ idx \in Slots /\ idx' = idx + 1
        /\ UNCHANGED <<names, data, dir, call, blk, cur, nameTemp, dataBuff>>
    BY <1>0, <1>3 DEF ReorganizeCopy, flash, Inv, CopyInv, Slots
  <2>1. Behind(cur.slot, cur.off, idx) /\ Written(cur.slot, cur.off)
    BY <2>0 DEF Inv, CopyInv
  <2>2. OrderedRecords(nameTemp) /\ CopyReady
    BY <2>0 DEF Inv, CopyReady
  <2>3. RecordsOrdered' /\ CopyReady'
    BY <2>0, <2>2 DEF Inv, RecordsOrdered, OrderedRecords, CopyReady
  <2>4. \A s \in Slots : nameTemp[s].off \in Nat /\ nameTemp[s].len \in Nat
    BY <1>0 DEF NameRecords
  <2>5. CASE nameTemp[idx].flag = "using"
    <3> DEFINE o == nameTemp[idx].off
               l == nameTemp[idx].len
               bytes == ReadCells(dataBuff, o, l)
    <3>1. /\ pc' = "put_data"
          /\ put' = [name |-> nameTemp[idx].name, bytes |-> bytes]
      BY <1>3, <2>5 DEF ReorganizeCopy
    <3>2. o \in Nat /\ l \in Nat /\ o + l < SectorSize /\ cur.off <= o
      BY <2>0, <2>1, <2>2, <2>4, <2>5, <1>0 DEF OrderedRecords, Behind
    <3>3. bytes \in Seq(Bytes) /\ Len(bytes) = l
      <4>1. o + l <= SectorSize
        BY <3>2, SizesAssumption
      <4> HIDE DEF o, l
      <4> QED BY <4>1, <3>2, <1>0, ReadLemma
    <3>4. nameTemp[idx].name \in StoredNames \cup {Blank, Torn}
      BY <1>0, <2>0 DEF NameRecords
    <3> HIDE DEF o, l, bytes
    <3>5. TypeOK'
      BY <1>3, <2>0, <3>1, <3>3, <3>4 DEF Inv, TypeOK, ReorganizeCopy, Steps
    <3>6. cur.off + Len(bytes) < SectorSize
      BY <3>2, <3>3, <1>0, SizesAssumption
    <3>7. Behind(cur.slot + 1, cur.off + Len(bytes), idx + 1)
      <4>1. cur.slot + 1 <= idx + 1
        BY <2>1, <1>0 DEF Behind
      <4>2. ASSUME NEW s \in Slots, s < idx + 1, nameTemp[s].flag # "using"
            PROVE  cur.slot + 1 < idx + 1
        BY <4>2, <2>5, <2>1, <1>0 DEF Behind, Slots
      <4>3. ASSUME NEW s \in Slots, s >= idx + 1, nameTemp[s].flag # "blank"
            PROVE  cur.off + Len(bytes) <= nameTemp[s].off
        <5>1. idx \in 1 .. (s - 1)
          BY <4>3, <2>0, <1>0 DEF Slots
        <5>2. o + l <= nameTemp[s].off
          BY <5>1, <4>3, <2>2 DEF OrderedRecords, o, l
        <5> QED BY <5>2, <3>2, <3>3, <2>4, <1>0
      <4> QED BY <4>1, <4>2, <4>3 DEF Behind
    <3>8. cur.slot \in Slots
      BY <2>0, <2>1, <1>0, SizesAssumption DEF Behind, Slots
    <3>9. PutsAreFree'
      <4>1. /\ names[blk][cur.slot].flag = "blank"
            /\ \A t \in 1 .. (cur.slot - 1) :
                  names[blk][t].flag # "blank" /\ names[blk][t].off + names[blk][t].len <= cur.off
        BY <2>1, <3>8, <1>0, SizesAssumption DEF Written, Slots
      <4> QED BY <4>1, <2>0, <3>1, <3>6, <3>8 DEF PutsAreFree, PutFree
    <3>10. CopyInv'
      <4>1. idx + 1 \in 2 .. NumSlots + 1
        BY <2>0, SizesAssumption DEF Slots
      <4> QED BY <4>1, <2>0, <2>1, <3>1, <3>7 DEF CopyInv, Putting, Behind, Written
    <3>11. EraseInv' /\ IdxInv'
      BY <3>1 DEF EraseInv, IdxInv, Linear
    <3> QED BY <2>3, <3>5, <3>9, <3>10, <3>11 DEF Inv
  <2>6. CASE nameTemp[idx].flag # "using"
    <3>1. pc' = pc /\ put' = put
      BY <1>3, <2>6 DEF ReorganizeCopy
    <3>2. TypeOK'
      BY <1>3, <2>0, <3>1 DEF Inv, TypeOK, ReorganizeCopy, Steps
    <3>3. Behind(cur.slot, cur.off, idx + 1)
      BY <2>0, <2>1, <1>0 DEF Behind, Slots
    <3>4. CopyInv'
      <4>1. idx + 1 \in 1 .. NumSlots + 1
        BY <2>0, SizesAssumption DEF Slots
      <4> QED BY <4>1, <2>0, <2>1, <3>1, <3>3 DEF CopyInv, Putting, Behind, Written
    <3>5. PutsAreFree' /\ EraseInv' /\ IdxInv'
      BY <2>0, <3>1 DEF PutsAreFree, EraseInv, IdxInv, Linear
    <3> QED BY <2>3, <3>2, <3>4, <3>5 DEF Inv
  <2> QED BY <2>5, <2>6
<1>4. CASE ReorganizePut
  <2>1. TypeOK'
    BY <1>4, <1>0 DEF Inv, TypeOK, ReorganizePut, NewPut, Steps, flash
  <2>2. RecordsOrdered' /\ CopyReady' /\ CopyInv' /\ EraseInv' /\ IdxInv'
    BY <1>4 DEF Inv, RecordsOrdered, OrderedRecords, CopyReady, CopyInv, EraseInv, IdxInv,
                Linear, Putting, ReorganizePut, flash
  <2>3. PutsAreFree'
    <3>1. /\ pc = "re_loop" /\ idx = NumSlots + 1 /\ idx > NumSlots
          /\ Behind(cur.slot, cur.off, idx) /\ Written(cur.slot, cur.off)
          /\ \E s \in Slots : nameTemp[s].flag # "using"
      BY <1>4, <1>0, SizesAssumption DEF ReorganizePut, Inv, CopyInv, CopyReady
    <3>2. cur.slot \in Slots
      BY <3>1, <1>0, SizesAssumption DEF Behind, Slots
    <3>3. /\ names[blk][cur.slot].flag = "blank"
          /\ \A t \in 1 .. (cur.slot - 1) :
                names[blk][t].flag # "blank" /\ names[blk][t].off + names[blk][t].len <= cur.off
      BY <3>1, <3>2, <1>0, SizesAssumption DEF Written, Slots
    <3>4. /\ cur.off + Len(call.val) < SectorSize /\ put'.bytes = call.val
          /\ UNCHANGED <<names, blk, cur>>
      BY <1>4 DEF ReorganizePut, NewPut, flash
    <3> QED BY <3>2, <3>3, <3>4 DEF PutsAreFree, PutFree
  <2> QED BY <2>1, <2>2, <2>3 DEF Inv
<1>5. CASE ReorganizeFull
  <2>1. TypeOK'
    BY <1>5 DEF Inv, TypeOK, ReorganizeFull, Finish, Steps, flash, volatile
  <2>2. RecordsOrdered' /\ Quiet'
    BY <1>5 DEF Inv, RecordsOrdered, OrderedRecords, ReorganizeFull, Finish, flash, volatile, Quiet, Critical, IdxInv, Linear
  <2> QED BY <2>1, <2>2, QuietStep
<1> QED BY <1>1, <1>2, <1>3, <1>4, <1>5 DEF Reorganize

\* bK_clear_namespace keeps Inv at each of its flash commands.
LEMMA ClearStep ==
    ASSUME Inv, Clear \/ EraseSector \/ EraseDone
    PROVE  Inv'
<1>1. CASE ClearNames
  <2>1. names' \in [Blocks -> [Slots -> NameRecords]] /\ RecordsOrdered'
    BY <1>1, EraseNamesStep DEF ClearNames
  <2>2. TypeOK'
    BY <1>1, <2>1 DEF Inv, TypeOK, ClearNames, Steps, volatile
  <2>3. EraseInv' /\ IdxInv'
    BY <1>1 DEF Inv, TypeOK, EraseInv, IdxInv, Linear, ClearNames, volatile
  <2>4. CopyReady' /\ PutsAreFree' /\ CopyInv'
    BY <1>1 DEF CopyReady, PutsAreFree, CopyInv, Putting, ClearNames
  <2> QED BY <2>1, <2>2, <2>3, <2>4 DEF Inv
<1>2. CASE ClearData
  <2>1. TypeOK'
    BY <1>2, ErasedLemma DEF Inv, TypeOK, ClearData, Steps, volatile
  <2>2. RecordsOrdered' /\ Quiet'
    BY <1>2 DEF Inv, RecordsOrdered, OrderedRecords, ClearData, volatile, Quiet, Critical, IdxInv, Linear
  <2> QED BY <2>1, <2>2, QuietStep
<1>3. CASE ClearDir
  <2>1. TypeOK'
    BY <1>3 DEF Inv, TypeOK, ClearDir, Steps, Entries
  <2>2. RecordsOrdered' /\ Quiet'
    BY <1>3 DEF Inv, RecordsOrdered, OrderedRecords, ClearDir, Quiet, Critical, IdxInv, Linear
  <2> QED BY <2>1, <2>2, QuietStep
<1>4. CASE ClearRewrite
  <2>1. TypeOK'
    <3>1. dir' \in [Blocks -> Entries]
      <4>1. CASE idx \in Blocks
        BY <4>1, <1>4 DEF Inv, TypeOK, ClearRewrite
      <4>2. CASE idx \notin Blocks
        BY <4>2, <1>4 DEF Inv, TypeOK, ClearRewrite
      <4> QED BY <4>1, <4>2
    <3> QED BY <3>1, <1>4 DEF Inv, TypeOK, ClearRewrite
  <2>2. RecordsOrdered' /\ Quiet'
    BY <1>4 DEF Inv, RecordsOrdered, OrderedRecords, ClearRewrite, Quiet, Critical, IdxInv, Linear
  <2> QED BY <2>1, <2>2, QuietStep
<1>5. CASE ClearDone
  <2>1. TypeOK'
    BY <1>5 DEF Inv, TypeOK, ClearDone, Finish, Steps, flash, volatile
  <2>2. RecordsOrdered' /\ Quiet'
    BY <1>5 DEF Inv, RecordsOrdered, OrderedRecords, ClearDone, Finish, flash, volatile, Quiet, Critical, IdxInv, Linear
  <2> QED BY <2>1, <2>2, QuietStep
<1>6. CASE EraseSector
  <2>1. TypeOK'
    <3>1. dir' \in [Blocks -> Entries]
      BY <1>6 DEF Inv, TypeOK, EraseSector, Entries
    <3>2. names' \in [Blocks -> [Slots -> NameRecords]] /\ data' \in [Blocks -> [Cells -> Bytes]]
      BY <1>6, ErasedLemma DEF Inv, TypeOK, EraseSector
    <3> QED BY <1>6, <3>1, <3>2 DEF Inv, TypeOK, EraseSector
  <2>2. RecordsOrdered'
    BY <1>6, ErasedLemma DEF Inv, RecordsOrdered, EraseSector
  <2>3. EraseInv'
    <3>1. pc' = "erase" /\ idx' = idx + 1 /\ idx \in Nat
      BY <1>6 DEF EraseSector, Inv, TypeOK
    <3>2. ASSUME NEW b \in MatterBlocks, b < idx + 1
          PROVE  names'[b] = ErasedNames
      <4>1. b \in Blocks /\ b # 0
        BY DEF MatterBlocks, Blocks
      <4>2. CASE b = idx
        BY <4>1, <4>2, <1>6 DEF EraseSector
      <4>3. CASE b # idx
        <5>1. b < idx
          BY <3>1, <3>2, <4>3 DEF MatterBlocks
        <5>2. names[b] = ErasedNames
          BY <5>1, <1>6 DEF Inv, EraseInv, EraseSector
        <5> QED BY <5>2, <4>1, <1>6 DEF EraseSector
      <4> QED BY <4>2, <4>3
    <3> QED BY <3>1, <3>2 DEF EraseInv
  <2>4. CopyReady' /\ PutsAreFree' /\ CopyInv' /\ IdxInv'
    BY <1>6 DEF CopyReady, PutsAreFree, CopyInv, Putting, IdxInv, Linear, EraseSector
  <2> QED BY <2>1, <2>2, <2>3, <2>4 DEF Inv
<1>7. CASE EraseDone
  <2>1. TypeOK'
    BY <1>7 DEF Inv, TypeOK, EraseDone, Finish, Steps, flash, volatile
  <2>2. RecordsOrdered' /\ Quiet'
    BY <1>7 DEF Inv, RecordsOrdered, OrderedRecords, EraseDone, Finish, flash, volatile, Quiet, Critical, IdxInv, Linear
  <2> QED BY <2>1, <2>2, QuietStep
<1> QED BY <1>1, <1>2, <1>3, <1>4, <1>5, <1>6, <1>7 DEF Clear

\* Whatever part of a command the flash holds when the power goes, its types and
\* the order of its records survive.
LEMMA TornWriteLemma ==
    ASSUME Inv, TornWrite
    PROVE  /\ dir' \in [Blocks -> Entries]
           /\ names' \in [Blocks -> [Slots -> NameRecords]]
           /\ data' \in [Blocks -> [Cells -> Bytes]]
           /\ RecordsOrdered'
<1>0. TypeOK /\ RecordsOrdered /\ blk \in Blocks
  BY DEF Inv, TypeOK
<1>1. CASE UNCHANGED flash
  BY <1>0, <1>1 DEF flash, TypeOK, RecordsOrdered, OrderedRecords
<1>2. ASSUME NEW l \in 1 .. Len(put.bytes),
             data' = [data EXCEPT ![blk] = Program(@, cur.off, SubSeq(put.bytes, 1, l))],
             UNCHANGED <<dir, names>>
      PROVE  /\ dir' \in [Blocks -> Entries]
             /\ names' \in [Blocks -> [Slots -> NameRecords]]
             /\ data' \in [Blocks -> [Cells -> Bytes]]
             /\ RecordsOrdered'
  <2>1. SubSeq(put.bytes, 1, l) \in Seq(Bytes)
    BY <1>0 DEF TypeOK
  <2>2. Program(data[blk], cur.off, SubSeq(put.bytes, 1, l)) \in [Cells -> Bytes]
    BY <2>1, <1>0, ProgramLemma DEF TypeOK
  <2> QED BY <1>0, <1>2, <2>2 DEF TypeOK, RecordsOrdered, OrderedRecords
<1>3. CASE /\ pc = "put_record"
           /\ names' = [names EXCEPT ![blk][cur.slot] = Record(cur.off, Len(put.bytes), Torn)]
           /\ UNCHANGED <<dir, data>>
  BY <1>0, <1>3, PutLemma DEF TypeOK, RecordsOrdered
<1>4. ASSUME NEW b \in Blocks, dir' = [dir EXCEPT ![b] = Torn], UNCHANGED <<names, data>>
      PROVE  /\ dir' \in [Blocks -> Entries]
             /\ names' \in [Blocks -> [Slots -> NameRecords]]
             /\ data' \in [Blocks -> [Cells -> Bytes]]
             /\ RecordsOrdered'
  BY <1>0, <1>4 DEF TypeOK, Entries, RecordsOrdered, OrderedRecords
<1>5. CASE /\ dir' = [dir EXCEPT ![idx] = Torn]
           /\ UNCHANGED <<names, data>>
  <2>1. dir' \in [Blocks -> Entries]
    BY <1>0, <1>5 DEF TypeOK, Entries
  <2> QED BY <2>1, <1>0, <1>5 DEF TypeOK, RecordsOrdered, OrderedRecords
<1> QED BY <1>1, <1>2, <1>3, <1>4, <1>5 DEF TornWrite

\* Losing the working state (return, power loss) keeps Inv.
LEMMA ForgetStep ==
    ASSUME Inv, Forget,
           dir' \in [Blocks -> Entries], names' \in [Blocks -> [Slots -> NameRecords]],
           data' \in [Blocks -> [Cells -> Bytes]], RecordsOrdered',
           losses' \in Nat, fails' \in Nat
    PROVE  Inv'
<1>1. NoCall \in Calls /\ 0 \in Blocks /\ 0 \in Nat
  BY NamespacesAssumption, SizesAssumption, <<>> \in Seq(Bytes) DEF NoCall, Calls, Blocks
<1>2. Start \in [slot : Nat \ {0}, off : Nat]
      /\ NoPut \in [name : StoredNames \cup {Blank, Torn}, bytes : Seq(Bytes)]
  BY <<>> \in Seq(Bytes) DEF Start, NoPut
<1>3. TypeOK'
  BY <1>1, <1>2, ErasedLemma DEF Forget, TypeOK, Steps, Entries
<1>4. Quiet'
  BY DEF Forget, Quiet, Critical, IdxInv
<1> QED BY <1>3, <1>4, QuietStep

\* The invariant is kept by every step.
LEMMA NextInv == Inv /\ [Next]_vars => Inv'
<1> SUFFICES ASSUME Inv, [Next]_vars PROVE Inv'
  OBVIOUS
<1>1. CASE Return
  <2>1. RecordsOrdered'
    BY <1>1 DEF Return, Inv, RecordsOrdered, OrderedRecords, flash
  <2> QED BY <1>1, <2>1, ForgetStep DEF Return, Inv, TypeOK, flash
<1>2. CASE PowerLoss
  <2>1. losses' \in Nat /\ fails' \in Nat
    BY <1>2 DEF PowerLoss, Inv, TypeOK
  <2> QED BY <1>2, <2>1, TornWriteLemma, ForgetStep DEF PowerLoss
<1>3. CASE UNCHANGED vars
  BY <1>3 DEF vars, Inv, TypeOK, RecordsOrdered, OrderedRecords, PutsAreFree, PutFree,
              CopyReady, CopyInv, EraseInv, IdxInv, Putting, Behind, Written
<1> QED BY <1>1, <1>2, <1>3, CallStep, NamespaceStep, NameStep, NewAddrStep, PutStep,
           ReorganizeStep, ClearStep DEF Next, Step

-----------------------------------------------------------------------------
(* Theorems *)

\* Type correctness.
THEOREM TypeCorrect == Spec => []TypeOK
<1>1. Inv => TypeOK
  BY DEF Inv
<1> QED BY <1>1, InitInv, NextInv, PTL DEF Spec

\* In every reachable state, whatever was lost on the way there, the records of
\* each block fill its first slots and their data regions follow one another
\* inside the data sector.
THEOREM RecordsStayOrdered == Spec => []RecordsOrdered
<1>1. Inv => RecordsOrdered
  BY DEF Inv
<1> QED BY <1>1, InitInv, NextInv, PTL DEF Spec

\* A call only ever programs an erased slot and the cells behind every record.
THEOREM PutsStayFree == Spec => []PutsAreFree
<1>1. Inv => PutsAreFree
  BY DEF Inv
<1> QED BY <1>1, InitInv, NextInv, PTL DEF Spec

\* No byte of the data sector belongs to two records.
THEOREM RecordsDisjoint ==
    ASSUME TypeOK, RecordsOrdered, NEW b \in Blocks, NEW s \in Slots, NEW t \in Slots,
           NEW c \in Cells,
           names[b][s].flag # "blank", names[b][t].flag # "blank",
           names[b][s].off <= c, c < names[b][s].off + names[b][s].len,
           names[b][t].off <= c, c < names[b][t].off + names[b][t].len
    PROVE  s = t
<1>1. /\ names[b][s] \in NameRecords /\ names[b][t] \in NameRecords
      /\ OrderedRecords(names[b]) /\ c \in Int
  BY DEF TypeOK, RecordsOrdered, Cells
<1>2. ASSUME t < s PROVE FALSE
  <2>1. t \in 1 .. (s - 1)
    BY <1>2, SizesAssumption DEF Slots
  <2>2. names[b][t].off + names[b][t].len <= names[b][s].off
    BY <1>1, <2>1 DEF OrderedRecords
  <2> QED BY <1>1, <2>2 DEF NameRecords
<1>3. ASSUME s < t PROVE FALSE
  <2>1. s \in 1 .. (t - 1)
    BY <1>3, SizesAssumption DEF Slots
  <2>2. names[b][s].off + names[b][s].len <= names[b][t].off
    BY <1>1, <2>1 DEF OrderedRecords
  <2> QED BY <1>1, <2>2 DEF NameRecords
<1> QED BY <1>2, <1>3, SizesAssumption DEF Slots

\* What is programmed at the call's cursor lies behind every record of its block.
LEMMA ProgramKeeps ==
    ASSUME Inv, pc = "put_data", NEW bytes \in Seq(Bytes),
           data' = [data EXCEPT ![blk] = Program(@, cur.off, bytes)], UNCHANGED names,
           NEW b \in Blocks, NEW s \in Slots
    PROVE  KeepsRecord(b, s)
<1>1. /\ data \in [Blocks -> [Cells -> Bytes]] /\ names[b][s] \in NameRecords
      /\ cur.off \in Nat /\ blk \in Blocks /\ names[b] \in [Slots -> NameRecords]
  BY DEF Inv, TypeOK
<1>2. CASE b # blk
  BY <1>1, <1>2 DEF KeepsRecord
<1>3. CASE b = blk
  <2> SUFFICES ASSUME names[b][s].flag # "blank", NEW c \in Cells,
                      c < names[b][s].off + names[b][s].len
               PROVE  data'[b][c] = data[b][c]
    BY DEF KeepsRecord
  <2>1. /\ cur.slot \in Slots /\ names[b][cur.slot].flag = "blank"
        /\ \A t \in 1 .. (cur.slot - 1) : names[b][t].off + names[b][t].len <= cur.off
    BY <1>3 DEF Inv, PutsAreFree, PutFree
  <2>2. OrderedRecords(names[b])
    BY DEF Inv, RecordsOrdered
  <2>3. s < cur.slot
    BY <2>1, <2>2, SizesAssumption DEF OrderedRecords, Slots
  <2>4. names[b][s].off + names[b][s].len <= cur.off
    BY <2>1, <2>3, SizesAssumption DEF Slots
  <2>5. c < cur.off
    BY <2>4, <1>1 DEF NameRecords, Cells
  <2> QED BY <2>5, <1>1, <1>3, ProgramLemma
<1> QED BY <1>2, <1>3

\* A record goes to an erased slot, so the records that were there stay.
LEMMA PutKeeps ==
    ASSUME Inv, pc = "put_record", NEW r,
           names' = [names EXCEPT ![blk][cur.slot] = r], UNCHANGED data,
           NEW b \in Blocks, NEW s \in Slots
    PROVE  KeepsRecord(b, s)
<1>1. cur.slot \in Slots /\ names[blk][cur.slot].flag = "blank"
  BY DEF Inv, PutsAreFree, PutFree
<1>2. names \in [Blocks -> [Slots -> NameRecords]] /\ blk \in Blocks
  BY DEF Inv, TypeOK
<1> QED BY <1>1, <1>2 DEF KeepsRecord

\* Masking a record changes its flag only.
LEMMA MaskKeeps ==
    ASSUME Inv, NEW m \in Slots, names' = [names EXCEPT ![blk] = Masked(@, m)], UNCHANGED data,
           NEW b \in Blocks, NEW s \in Slots
    PROVE  KeepsRecord(b, s)
<1>1. names \in [Blocks -> [Slots -> NameRecords]] /\ blk \in Blocks
  BY DEF Inv, TypeOK
<1> QED BY <1>1 DEF KeepsRecord, Masked

\* Every step, torn ones included, leaves the data of kept records alone.
LEMMA NextKeeps ==
    ASSUME Inv, [Next]_vars, NEW b \in Blocks, NEW s \in Slots
    PROVE  KeepsRecord(b, s)
<1>0. /\ names \in [Blocks -> [Slots -> NameRecords]] /\ blk \in Blocks
      /\ data \in [Blocks -> [Cells -> Bytes]] /\ put.bytes \in Seq(Bytes)
  BY DEF Inv, TypeOK
<1>1. CASE UNCHANGED <<names, data>>
  BY <1>1 DEF KeepsRecord
<1>2. CASE MaskOldValue \/ NameFound
  BY <1>1, <1>2, MaskKeeps DEF MaskOldValue, NameFound, CleanName, ReadName, EnsureName
<1>3. CASE PutData
  BY <1>0, <1>3, ProgramKeeps DEF PutData
<1>4. CASE PutRecord
  BY <1>4, PutKeeps DEF PutRecord
<1>5. CASE EraseNames \/ ClearNames
  BY <1>0, <1>5, ErasedLemma DEF EraseNames, ClearNames, KeepsRecord
<1>6. CASE EraseData \/ ClearData
  <2>1. names[blk] = ErasedNames
    BY <1>6 DEF Inv, EraseInv, EraseData, ClearData
  <2>2. UNCHANGED names /\ data' = [data EXCEPT ![blk] = ErasedData]
    BY <1>6 DEF EraseData, ClearData
  <2> QED BY <1>0, <2>1, <2>2, ErasedLemma DEF KeepsRecord
<1>7. CASE EraseSector
  <2>1. CASE idx = NumBlocks + b /\ b # 0
    <3>1. names[b] = ErasedNames
      BY <1>7, <2>1, SizesAssumption DEF Inv, EraseInv, EraseSector, MatterBlocks, Blocks
    <3> QED BY <3>1, ErasedLemma DEF KeepsRecord
  <2>2. CASE ~(idx = NumBlocks + b /\ b # 0)
    <3>1. data'[b] = data[b] /\ names'[b] \in {names[b], ErasedNames}
      BY <1>7, <2>2 DEF EraseSector
    <3> QED BY <3>1, ErasedLemma DEF KeepsRecord
  <2> QED BY <2>1, <2>2
<1>8. CASE PowerLoss
  <2>1. CASE UNCHANGED flash
    BY <1>1, <2>1 DEF flash
  <2>2. ASSUME pc = "put_data", NEW l \in 1 .. Len(put.bytes),
               data' = [data EXCEPT ![blk] = Program(@, cur.off, SubSeq(put.bytes, 1, l))],
               UNCHANGED names
        PROVE  KeepsRecord(b, s)
    <3>1. SubSeq(put.bytes, 1, l) \in Seq(Bytes)
      BY <1>0
    <3> QED BY <2>2, <3>1, ProgramKeeps
  <2>3. CASE /\ pc = "put_record" /\ UNCHANGED data
             /\ names' = [names EXCEPT ![blk][cur.slot] = Record(cur.off, Len(put.bytes), Torn)]
    BY <2>3, PutKeeps
  <2> QED BY <1>1, <1>8, <2>1, <2>2, <2>3 DEF PowerLoss, TornWrite
<1>9. CASE /\ [Next]_vars
           /\ ~(\/ MaskOldValue \/ NameFound \/ PutData \/ PutRecord \/ EraseNames \/ ClearNames
                \/ EraseData \/ ClearData \/ EraseSector \/ PowerLoss)
  <2>1. CASE Call
    BY <1>1, <2>1 DEF Call, bk_write_data, bk_clean_data, bk_read_data, bk_ensure_name_data,
                      bK_clear_namespace, bk_ensure_namespace, bk_erase_all, Enter, flash
  <2>2. CASE \/ Refuse \/ GetNamespaceFound \/ GetNamespaceError
             \/ bk_set_namespace \/ bk_set_namespace_fails
             \/ SetSameValue \/ NoOldValue \/ NameError
    BY <1>1, <2>2 DEF Refuse, GetNamespaceFound, GetNamespaceError, bk_set_namespace,
                      bk_set_namespace_fails, SetSameValue, NoOldValue, NameError, flash
  <2>3. CASE \/ NewAddr \/ ReorganizeCopy \/ ReorganizePut \/ ReorganizeFull
    BY <1>1, <2>3 DEF NewAddr, NewAddrDirect, NewAddrReorganize, NewAddrFails,
                      ReorganizeCopy, ReorganizePut, ReorganizeFull, flash
  <2>4. CASE \/ ClearDir \/ ClearRewrite \/ ClearDone \/ EraseDone \/ Return
    BY <1>1, <2>4 DEF ClearDir, ClearRewrite, ClearDone, EraseDone, Return, flash
  <2>5. CASE UNCHANGED vars
    BY <1>1, <2>5 DEF vars
  <2> QED BY <1>9, <2>1, <2>2, <2>3, <2>4, <2>5 DEF Next, Step, SetName, Reorganize, Clear
<1> QED BY <1>2, <1>3, <1>4, <1>5, <1>6, <1>7, <1>8, <1>9

\* No step of the store and no power loss changes the data of a record that the
\* flash holds before and after it.
THEOREM RecordDataStays == Spec => RecordDataStable
<1>1. Inv /\ [Next]_vars => \A b \in Blocks, s \in Slots : KeepsRecord(b, s)
  BY NextKeeps
<1> QED BY <1>1, InitInv, NextInv, PTL DEF Spec, RecordDataStable
==================================================================
