--------------------------- MODULE FlashNamespace ---------------------------
(***************************************************************************)
(* The namespace/name/value store that the Matter port keeps in NOR flash  *)
(* (func/key_value_flash/flash_namespace_value.c).                         *)
(*                                                                         *)
(* A partition is one directory sector and, for each of its blocks, one    *)
(* sector of name records and one sector of data.  A directory entry gives *)
(* a block to a namespace; a name record says where in the data sector of  *)
(* its block the value of a name is.  Programming flash only clears bits,  *)
(* erasing a sector sets all of them: a byte is the set of its one bits.   *)
(*                                                                         *)
(* The callers use the store one call at a time.  A step of this module is *)
(* at most one flash command (one ddev_write or one sector erase), so that *)
(* PowerLoss can strike between any two of them.                           *)
(***************************************************************************)
EXTENDS Integers, Sequences, FiniteSets

CONSTANTS
    Namespaces,     \* the namespaces callers pass, and the BEKENn ones
    Factory,        \* "chip-factory", in a partition of its own
    Beken,          \* [reserved namespace -> the BEKENn that stores it]
    Names,          \* the names callers pass
    Accesses,       \* the <<namespace, name>> pairs callers use
    LongTexts,      \* names and namespaces longer than the first program unit
    Values,         \* the values callers store: sequences of bytes
    ReadLens,       \* the buffer lengths callers pass to bk_read_data
    Bits,           \* the bits of a byte
    NumBlocks,      \* FLASH_NAME_SPACE_MAX_ARRAY of the Matter partition
    NumSlots,       \* FLASH_NAME_MAX_ARRAY
    SectorSize,     \* FLASH_SECTOR_SIZE
    MaxPowerLoss,   \* bound: power losses in a behaviour
    MaxMallocFail,  \* bound: failing os_malloc calls in a behaviour
    Blank,          \* an erased directory entry, the name of an erased record
    Torn,           \* a text of which only the first program unit was written
    Absent          \* what a name without a value reads as

Reserved   == DOMAIN Beken
Bytes      == SUBSET Bits
Cells      == 0 .. SectorSize - 1
Slots      == 1 .. NumSlots
Blocks     == 0 .. NumBlocks          \* block 0 is the factory partition's
MatterBlocks == 1 .. NumBlocks
StoredNames  == Names \cup (Reserved \X Names)

ASSUME NamespacesAssumption ==
    /\ Factory \in Namespaces
    /\ Beken \in [Reserved -> Namespaces \ {Factory}]
    /\ Reserved \subseteq Namespaces \ {Factory}
    /\ \A r \in Reserved : Beken[r] \notin Reserved
    /\ Accesses \subseteq Namespaces \X Names
ASSUME ValuesAssumption ==
    /\ Values \subseteq Seq(Bytes)
    /\ ReadLens \subseteq Nat
ASSUME SizesAssumption ==
    /\ NumBlocks \in Nat \ {0}
    /\ NumSlots \in Nat \ {0}
    /\ SectorSize \in Nat \ {0}
    /\ MaxPowerLoss \in Nat
    /\ MaxMallocFail \in Nat
ASSUME MarksAssumption ==
    /\ {Blank, Torn} \cap (Namespaces \cup StoredNames) = {}
    /\ Blank # Torn
    /\ Absent \notin Seq(Bytes)

VARIABLES
    dir,        \* [block -> the namespace of its directory entry]
    names,      \* [block -> [slot -> name record]]
    data,       \* [block -> [cell -> byte]]
    call,       \* the arguments of the call under way
    pc,         \* the flash command the call does next
    blk,        \* dw_off_block, the block of the call's namespace
    cur,        \* where the next record (slot) and its data (off) go
    put,        \* the name and the bytes being written there
    idx,        \* dw_loop of the loops that write flash, 0 outside them
    nameTemp,   \* name_temp, the name records read before a compaction
    dataBuff,   \* data_buff, the data sector read with them
    nsTemp,     \* namespace_temp, the directory read by bK_clear_namespace
    rtn,        \* the return value of the call
    out,        \* out_data of bk_read_data
    losses,     \* power losses so far
    fails       \* failed os_malloc calls so far

flash    == <<dir, names, data>>
volatile == <<call, blk, cur, put, idx, nameTemp, dataBuff, nsTemp>>
vars     == <<dir, names, data, call, pc, blk, cur, put, idx, nameTemp,
              dataBuff, nsTemp, rtn, out, losses, fails>>

-----------------------------------------------------------------------------
(* Flash contents *)

NameRecords == [flag : {"blank", "using", "mask"},
                off : Nat, len : Nat, name : StoredNames \cup {Blank, Torn}]
BlankRecord == [flag |-> "blank", off |-> 0, len |-> 0, name |-> Blank]
Record(o, l, n) == [flag |-> "using", off |-> o, len |-> l, name |-> n]

ErasedNames == [s \in Slots |-> BlankRecord]
ErasedData  == [c \in Cells |-> Bits]

\* The cells of a data sector after `bytes` are programmed at offset o.
Program(sector, o, bytes) ==
    [c \in Cells |-> IF c >= o /\ c < o + Len(bytes)
                     THEN sector[c] \cap bytes[c - o + 1]
                     ELSE sector[c]]

ReadCells(sector, o, l) == [j \in 1 .. l |-> sector[o + j - 1]]

\* FLASH_SPACE_MASK written over FLASH_SPACE_USING: clearing bits is enough.
Masked(sector, s) == [sector EXCEPT ![s].flag = "mask"]

BlocksOf(ns) == IF ns = Factory THEN {0} ELSE MatterBlocks

\* Mutant: the search stops at the first entry that is not in use.
IsBlockOf_StopsAtBlank(ns, b) ==
    /\ b \in BlocksOf(ns) /\ dir[b] = ns
    /\ \A a \in BlocksOf(ns) : a < b => dir[a] \notin {ns, Blank}

\* get_namespace_addr: the first directory entry in use for ns.
IsBlockOf(ns, b) ==
    /\ b \in BlocksOf(ns) /\ dir[b] = ns
    /\ \A a \in BlocksOf(ns) : a < b => dir[a] # ns

\* get_name_addr: the first record in use for n.
IsSlotOf(n, sector, s) ==
    /\ s \in Slots /\ sector[s].flag = "using" /\ sector[s].name = n
    /\ \A t \in Slots : t < s => ~(sector[t].flag = "using" /\ sector[t].name = n)

\* bk_set_namespace's search: the first entry that is not in use.
IsFreeBlock(ns, b) ==
    /\ b \in BlocksOf(ns) /\ dir[b] = Blank
    /\ \A a \in BlocksOf(ns) : a < b => dir[a] # Blank

\* Mutant: a masked slot is taken for a free one.
IsFreeSlot_Masked(sector, s) ==
    /\ s \in Slots /\ sector[s].flag # "using"
    /\ \A t \in Slots : t < s => sector[t].flag = "using"

\* bk_set_name_data_new_addr's search: the first slot neither used nor masked.
IsFreeSlot(sector, s) ==
    /\ s \in Slots /\ sector[s].flag = "blank"
    /\ \A t \in Slots : t < s => sector[t].flag # "blank"

\* Mutant: masked records do not count.
EndBefore_SkipsMasked(sector, s) ==
    IF s = 1 \/ sector[s - 1].flag = "mask" THEN 0 ELSE sector[s - 1].off + sector[s - 1].len

\* data_offset_addr when the scan of the records stands at slot s.
EndBefore(sector, s) == IF s = 1 THEN 0 ELSE sector[s - 1].off + sector[s - 1].len

\* change_namespace_to_beken
Key(ns, n) == IF ns \in Reserved THEN [ns |-> Beken[ns], name |-> <<ns, n>>]
                                 ELSE [ns |-> ns, name |-> n]
Keys == {Key(a[1], a[2]) : a \in Accesses}

\* What bk_read_data finds for key k in the flash as it stands.
Stored(k) ==
    IF \E b \in Blocks, s \in Slots : IsBlockOf(k.ns, b) /\ IsSlotOf(k.name, names[b], s)
    THEN LET b == CHOOSE b \in Blocks : IsBlockOf(k.ns, b)
             s == CHOOSE s \in Slots : IsSlotOf(k.name, names[b], s)
         IN  ReadCells(data[b], names[b][s].off, names[b][s].len)
    ELSE Absent
Contents == [k \in Keys |-> Stored(k)]

-----------------------------------------------------------------------------
(* Calls *)

Calls == [fn : {"none", "write", "clean", "read", "exists", "clear", "ensure", "erase"},
          ns : Namespaces, name : StoredNames \cup {Blank}, val : Seq(Bytes), len : Nat]
NoCall == [fn |-> "none", ns |-> Factory, name |-> Blank, val |-> <<>>, len |-> 0]
NoPut  == [name |-> Blank, bytes |-> <<>>]
Start  == [slot |-> 1, off |-> 0]

\* The factory partition leaves production erased or with records in it.
Init ==
    /\ \/ /\ dir = [b \in Blocks |-> Blank]
          /\ names = [b \in Blocks |-> ErasedNames]
          /\ data = [b \in Blocks |-> ErasedData]
       \/ \E a \in Accesses, v \in Values :
             /\ a[1] = Factory /\ Len(v) < SectorSize
             /\ dir = [b \in Blocks |-> IF b = 0 THEN Factory ELSE Blank]
             /\ names = [b \in Blocks |-> IF b = 0
                             THEN [ErasedNames EXCEPT ![1] = Record(0, Len(v), a[2])]
                             ELSE ErasedNames]
             /\ data = [b \in Blocks |-> IF b = 0 THEN Program(ErasedData, 0, v)
                                                 ELSE ErasedData]
    /\ call = NoCall /\ pc = "idle" /\ blk = 0
    /\ cur = Start /\ put = NoPut /\ idx = 0
    /\ nameTemp = ErasedNames /\ dataBuff = ErasedData
    /\ nsTemp = [b \in Blocks |-> Blank]
    /\ rtn = "none" /\ out = Absent
    /\ losses = 0 /\ fails = 0

Enter(c, step) ==
    /\ pc = "idle"
    /\ call' = c /\ pc' = step
    /\ UNCHANGED <<flash, blk, cur, put, idx, nameTemp, dataBuff, nsTemp,
                   rtn, out, losses, fails>>

CallOf(fn, k, v, l) == [fn |-> fn, ns |-> k.ns, name |-> k.name, val |-> v, len |-> l]

bk_write_data(ns, n, v) ==
    LET c == CallOf("write", Key(ns, n), v, 0)
    IN  Enter(c, IF ns = Factory THEN "refused" ELSE "namespace")

bk_clean_data(ns, n) ==
    LET c == CallOf("clean", Key(ns, n), <<>>, 0)
    IN  Enter(c, IF ns = Factory THEN "refused" ELSE "namespace")

bk_read_data(ns, n, l) == Enter(CallOf("read", Key(ns, n), <<>>, l), "namespace")

bk_ensure_name_data(ns, n) == Enter(CallOf("exists", Key(ns, n), <<>>, 0), "namespace")

bK_clear_namespace(ns) ==
    LET c == CallOf("clear", [ns |-> ns, name |-> Blank], <<>>, 0)
    IN  Enter(c, IF ns = Factory \/ ns \in Reserved THEN "refused" ELSE "namespace")

\* The reserved namespaces are left out: bk_ensure_namespace passes a NULL name
\* to change_namespace_to_beken, which takes its length.
bk_ensure_namespace(ns) ==
    /\ ns \notin Reserved
    /\ Enter(CallOf("ensure", [ns |-> ns, name |-> Blank], <<>>, 0), "namespace")

\* bk_erase_all(BK_PARTITION_MATTER_FLASH)
bk_erase_all ==
    /\ pc = "idle"
    /\ call' = [NoCall EXCEPT !.fn = "erase"] /\ pc' = "erase" /\ idx' = 0
    /\ UNCHANGED <<flash, blk, cur, put, nameTemp, dataBuff, nsTemp, rtn, out,
                   losses, fails>>

Call ==
    \/ \E a \in Accesses :
          \/ \E v \in Values : bk_write_data(a[1], a[2], v)
          \/ bk_clean_data(a[1], a[2])
          \/ \E l \in ReadLens : bk_read_data(a[1], a[2], l)
          \/ bk_ensure_name_data(a[1], a[2])
    \/ \E ns \in Namespaces : bK_clear_namespace(ns) \/ bk_ensure_namespace(ns)
    \/ bk_erase_all

Finish(r) == pc' = "return" /\ rtn' = r

\* BK_RETURN_NS_IS_FACTORY and BK_RETURN_NS_IS_CONFIG_COUNTER: the function
\* returns kGeneralErr before it looks at the flash.
Refuse ==
    /\ pc = "refused"
    /\ Finish("err")
    /\ UNCHANGED <<flash, volatile, out, losses, fails>>

MallocFails == fails < MaxMallocFail /\ fails' = fails + 1

-----------------------------------------------------------------------------
(* Finding the namespace *)

GetNamespaceFound ==
    /\ pc = "namespace"
    /\ \E b \in Blocks :
          /\ IsBlockOf(call.ns, b)
          /\ blk' = b
    /\ \/ call.fn = "ensure" /\ Finish("ok") /\ UNCHANGED nsTemp
       \/ call.fn = "write" /\ pc' = "set_name" /\ UNCHANGED <<rtn, nsTemp>>
       \/ call.fn = "clear" /\ pc' = "clear_names" /\ nsTemp' = dir /\ UNCHANGED rtn
       \/ call.fn \in {"clean", "read", "exists"} /\ pc' = "name" /\ UNCHANGED <<rtn, nsTemp>>
    /\ UNCHANGED <<flash, call, cur, put, idx, nameTemp, dataBuff, out, losses, fails>>

\* get_namespace_addr answers kGeneralErr when there is no entry for the
\* namespace and when its os_malloc fails: the caller cannot tell.
GetNamespaceError ==
    /\ pc = "namespace"
    /\ \/ (\A b \in Blocks : ~IsBlockOf(call.ns, b)) /\ UNCHANGED fails
       \/ MallocFails
    /\ \/ call.fn \in {"write", "ensure"} /\ pc' = "set_namespace" /\ UNCHANGED rtn
       \/ call.fn \in {"clean", "read", "exists", "clear"} /\ Finish("err")
    /\ UNCHANGED <<flash, call, blk, cur, put, idx, nameTemp, dataBuff, nsTemp, out, losses>>

bk_set_namespace ==
    /\ pc = "set_namespace"
    /\ \E b \in Blocks :
          /\ IsFreeBlock(call.ns, b)
          /\ dir' = [dir EXCEPT ![b] = call.ns]
          /\ blk' = b
    /\ \/ call.fn = "ensure" /\ Finish("ok")
       \/ call.fn = "write" /\ pc' = "set_name" /\ UNCHANGED rtn
    /\ UNCHANGED <<names, data, call, cur, put, idx, nameTemp, dataBuff, nsTemp,
                   out, losses, fails>>

bk_set_namespace_fails ==
    /\ pc = "set_namespace"
    /\ \/ (\A b \in Blocks : ~IsFreeBlock(call.ns, b)) /\ UNCHANGED fails
       \/ MallocFails
    /\ Finish("err")
    /\ UNCHANGED <<flash, volatile, out, losses>>

-----------------------------------------------------------------------------
(* bk_set_name_data: storing a value under a name *)

\* The name has this very value: nothing is written.
SetSameValue ==
    /\ pc = "set_name"
    /\ \E s \in Slots :
          /\ IsSlotOf(call.name, names[blk], s)
          /\ ReadCells(data[blk], names[blk][s].off, names[blk][s].len) = call.val
    /\ Finish("ok")
    /\ UNCHANGED <<flash, volatile, out, losses, fails>>

\* Mutant: the old record stays in use.
MaskOldValue_NotMasked ==
    /\ pc = "set_name"
    /\ \E s \in Slots :
          /\ IsSlotOf(call.name, names[blk], s)
          /\ ReadCells(data[blk], names[blk][s].off, names[blk][s].len) # call.val
    /\ pc' = "new_addr"
    /\ UNCHANGED <<flash, volatile, rtn, out, losses, fails>>

\* The name has another value: its record is masked before the new one is made.
MaskOldValue ==
    /\ pc = "set_name"
    /\ \E s \in Slots :
          /\ IsSlotOf(call.name, names[blk], s)
          /\ ReadCells(data[blk], names[blk][s].off, names[blk][s].len) # call.val
          /\ names' = [names EXCEPT ![blk] = Masked(@, s)]
    /\ pc' = "new_addr"
    /\ UNCHANGED <<dir, data, volatile, rtn, out, losses, fails>>

\* get_name_addr found no record, or could not allocate its buffer.
NoOldValue ==
    /\ pc = "set_name"
    /\ \/ (\A s \in Slots : ~IsSlotOf(call.name, names[blk], s)) /\ UNCHANGED fails
       \/ MallocFails
    /\ pc' = "new_addr"
    /\ UNCHANGED <<flash, volatile, rtn, out, losses>>

NewPut == [name |-> call.name, bytes |-> call.val]

\* bk_set_name_data_new_addr: the first free slot, when the value fits after
\* the data of the slot before it.
NewAddrDirect ==
    /\ pc = "new_addr"
    /\ \E s \in Slots :
          /\ IsFreeSlot(names[blk], s)
          /\ EndBefore(names[blk], s) + Len(call.val) < SectorSize
          /\ cur' = [slot |-> s, off |-> EndBefore(names[blk], s)]
    /\ put' = NewPut
    /\ pc' = "put_data"
    /\ UNCHANGED <<flash, call, blk, idx, nameTemp, dataBuff, nsTemp, rtn, out,
                   losses, fails>>

\* The value does not fit, or every slot is taken and some are masked.
NewAddrReorganize ==
    /\ pc = "new_addr"
    /\ \/ \E s \in Slots :
             /\ IsFreeSlot(names[blk], s)
             /\ EndBefore(names[blk], s) + Len(call.val) >= SectorSize
       \/ /\ \A s \in Slots : names[blk][s].flag # "blank"
          /\ \E s \in Slots : names[blk][s].flag = "mask"
    /\ nameTemp' = names[blk] /\ dataBuff' = data[blk]
    /\ pc' = "re_names"
    /\ UNCHANGED <<flash, call, blk, cur, put, idx, nsTemp, rtn, out, losses, fails>>

\* Every slot is in use, or a buffer could not be allocated.
NewAddrFails ==
    /\ pc = "new_addr"
    /\ \/ (\A s \in Slots : names[blk][s].flag = "using") /\ UNCHANGED fails
       \/ MallocFails
    /\ Finish("err")
    /\ UNCHANGED <<flash, volatile, out, losses>>

\* The two writes of a value: its data, then the record that points to it.
PutData ==
    /\ pc = "put_data"
    /\ data' = [data EXCEPT ![blk] = Program(@, cur.off, put.bytes)]
    /\ pc' = "put_record"
    /\ UNCHANGED <<dir, names, volatile, rtn, out, losses, fails>>

\* Mutants: the offset of a compaction does not advance; its loop shares the
\* index with the search for a slot and starts over.
PutRecord_SameOffset ==
    /\ pc = "put_record"
    /\ names' = [names EXCEPT ![blk][cur.slot] =
                    Record(cur.off, Len(put.bytes), put.name)]
    /\ cur' = [slot |-> cur.slot + 1, off |-> cur.off]
    /\ IF idx = 0 THEN Finish("ok") ELSE pc' = "re_loop" /\ UNCHANGED rtn
    /\ UNCHANGED <<dir, data, call, blk, put, idx, nameTemp, dataBuff, nsTemp,
                   out, losses, fails>>
PutRecord_SharedIndex ==
    /\ pc = "put_record"
    /\ names' = [names EXCEPT ![blk][cur.slot] =
                    Record(cur.off, Len(put.bytes), put.name)]
    /\ cur' = [slot |-> cur.slot + 1, off |-> cur.off + Len(put.bytes)]
    /\ IF idx = 0 THEN Finish("ok") /\ UNCHANGED idx ELSE pc' = "re_loop" /\ idx' = 1 /\ UNCHANGED rtn
    /\ UNCHANGED <<dir, data, call, blk, put, nameTemp, dataBuff, nsTemp,
                   out, losses, fails>>

PutRecord ==
    /\ pc = "put_record"
    /\ names' = [names EXCEPT ![blk][cur.slot] =
                    Record(cur.off, Len(put.bytes), put.name)]
    /\ cur' = [slot |-> cur.slot + 1, off |-> cur.off + Len(put.bytes)]
    /\ IF idx = 0 THEN Finish("ok") ELSE pc' = "re_loop" /\ UNCHANGED rtn
    /\ UNCHANGED <<dir, data, call, blk, put, idx, nameTemp, dataBuff, nsTemp,
                   out, losses, fails>>

-----------------------------------------------------------------------------
(* bk_reorganize_name_data: compaction of a block *)

\* Mutant: the data sector goes before the records that point into it.
EraseNames_DataFirst ==
    /\ pc = "re_names"
    /\ data' = [data EXCEPT ![blk] = ErasedData]
    /\ pc' = "re_data"
    /\ UNCHANGED <<dir, names, volatile, rtn, out, losses, fails>>

EraseNames ==
    /\ pc = "re_names"
    /\ names' = [names EXCEPT ![blk] = ErasedNames]
    /\ pc' = "re_data"
    /\ UNCHANGED <<dir, data, volatile, rtn, out, losses, fails>>

\* Mutants: the data sector is not erased; slots are counted from 0.
EraseData_Kept ==
    /\ pc = "re_data"
    /\ cur' = Start /\ idx' = 1
    /\ pc' = "re_loop"
    /\ UNCHANGED <<flash, call, blk, put, nameTemp, dataBuff, nsTemp, rtn, out,
                   losses, fails>>
EraseData_FromZero ==
    /\ pc = "re_data"
    /\ data' = [data EXCEPT ![blk] = ErasedData]
    /\ cur' = [Start EXCEPT !.slot = 0] /\ idx' = 1
    /\ pc' = "re_loop"
    /\ UNCHANGED <<dir, names, call, blk, put, nameTemp, dataBuff, nsTemp, rtn, out,
                   losses, fails>>

EraseData ==
    /\ pc = "re_data"
    /\ data' = [data EXCEPT ![blk] = ErasedData]
    /\ cur' = Start /\ idx' = 1
    /\ pc' = "re_loop"
    /\ UNCHANGED <<dir, names, call, blk, put, nameTemp, dataBuff, nsTemp, rtn, out,
                   losses, fails>>

\* Every record that was in use is written again, one after the other.
ReorganizeCopy ==
    /\ pc = "re_loop" /\ idx <= NumSlots
    /\ idx' = idx + 1
    /\ IF nameTemp[idx].flag = "using"
       THEN /\ put' = [name |-> nameTemp[idx].name,
                       bytes |-> ReadCells(dataBuff, nameTemp[idx].off, nameTemp[idx].len)]
            /\ pc' = "put_data"
       ELSE UNCHANGED <<put, pc>>
    /\ UNCHANGED <<flash, call, blk, cur, nameTemp, dataBuff, nsTemp, rtn, out,
                   losses, fails>>

\* Then the new value, unless it still does not fit.
ReorganizePut ==
    /\ pc = "re_loop" /\ idx > NumSlots
    /\ cur.off + Len(call.val) < SectorSize
    /\ put' = NewPut /\ idx' = 0
    /\ pc' = "put_data"
    /\ UNCHANGED <<flash, call, blk, cur, nameTemp, dataBuff, nsTemp, rtn, out,
                   losses, fails>>

ReorganizeFull ==
    /\ pc = "re_loop" /\ idx > NumSlots
    /\ cur.off + Len(call.val) >= SectorSize
    /\ Finish("err")
    /\ UNCHANGED <<flash, volatile, out, losses, fails>>

-----------------------------------------------------------------------------
(* bk_clean_data, bk_read_data and bk_ensure_name_data, once in a block *)

CleanName(s) ==
    /\ call.fn = "clean"
    /\ names' = [names EXCEPT ![blk] = Masked(@, s)]
    /\ UNCHANGED out

ReadName(s) ==
    /\ call.fn = "read"
    /\ LET r == names[blk][s]
       IN  out' = ReadCells(data[blk], r.off, IF call.len > r.len THEN r.len ELSE call.len)
    /\ UNCHANGED names

EnsureName(s) == call.fn = "exists" /\ UNCHANGED <<names, out>>

NameFound ==
    /\ pc = "name"
    /\ \E s \in Slots :
          /\ IsSlotOf(call.name, names[blk], s)
          /\ CleanName(s) \/ ReadName(s) \/ EnsureName(s)
    /\ Finish("ok")
    /\ UNCHANGED <<dir, data, volatile, losses, fails>>

NameError ==
    /\ pc = "name"
    /\ \/ (\A s \in Slots : ~IsSlotOf(call.name, names[blk], s)) /\ UNCHANGED fails
       \/ MallocFails
    /\ Finish("err")
    /\ UNCHANGED <<flash, volatile, out, losses>>

-----------------------------------------------------------------------------
(* bK_clear_namespace and bk_erase_all *)

\* Mutant: the directory goes first.
ClearNames_DirFirst ==
    /\ pc = "clear_names"
    /\ names' = [names EXCEPT ![blk] = ErasedNames]
    /\ dir' = [b \in Blocks |-> IF b \in MatterBlocks THEN Blank ELSE dir[b]]
    /\ pc' = "clear_data"
    /\ UNCHANGED <<data, volatile, rtn, out, losses, fails>>

ClearNames ==
    /\ pc = "clear_names"
    /\ names' = [names EXCEPT ![blk] = ErasedNames]
    /\ pc' = "clear_data"
    /\ UNCHANGED <<dir, data, volatile, rtn, out, losses, fails>>

ClearData ==
    /\ pc = "clear_data"
    /\ data' = [data EXCEPT ![blk] = ErasedData]
    /\ pc' = "clear_dir"
    /\ UNCHANGED <<dir, names, volatile, rtn, out, losses, fails>>

\* The directory is one sector: erasing it drops every namespace.
ClearDir ==
    /\ pc = "clear_dir"
    /\ dir' = [b \in Blocks |-> IF b \in MatterBlocks THEN Blank ELSE dir[b]]
    /\ nsTemp' = [nsTemp EXCEPT ![blk] = Blank]
    /\ idx' = 1
    /\ pc' = "clear_loop"
    /\ UNCHANGED <<names, data, call, blk, cur, put, nameTemp, dataBuff, rtn, out,
                   losses, fails>>

\* The entries of the other namespaces go back to their places.
ClearRewrite ==
    /\ pc = "clear_loop" /\ idx <= NumBlocks
    /\ dir' = [dir EXCEPT ![idx] = nsTemp[idx]]
    /\ idx' = idx + 1
    /\ UNCHANGED <<names, data, call, pc, blk, cur, put, nameTemp, dataBuff, nsTemp,
                   rtn, out, losses, fails>>

ClearDone ==
    /\ pc = "clear_loop" /\ idx > NumBlocks
    /\ Finish("ok")
    /\ UNCHANGED <<flash, volatile, out, losses, fails>>

\* One sector a step: the directory, the sectors of name records, the data.
EraseSector ==
    /\ pc = "erase" /\ idx <= 2 * NumBlocks
    /\ dir' = IF idx = 0
              THEN [b \in Blocks |-> IF b \in MatterBlocks THEN Blank ELSE dir[b]]
              ELSE dir
    /\ names' = [b \in Blocks |-> IF idx = b /\ b # 0 THEN ErasedNames ELSE names[b]]
    /\ data' = [b \in Blocks |-> IF idx = NumBlocks + b /\ b # 0 THEN ErasedData ELSE data[b]]
    /\ idx' = idx + 1
    /\ UNCHANGED <<call, pc, blk, cur, put, nameTemp, dataBuff, nsTemp, rtn, out,
                   losses, fails>>

EraseDone ==
    /\ pc = "erase" /\ idx > 2 * NumBlocks
    /\ Finish("ok")
    /\ UNCHANGED <<flash, volatile, out, losses, fails>>

-----------------------------------------------------------------------------
(* Return, power loss, specification *)

Forget ==
    /\ call' = NoCall /\ pc' = "idle" /\ blk' = 0
    /\ cur' = Start /\ put' = NoPut /\ idx' = 0
    /\ nameTemp' = ErasedNames /\ dataBuff' = ErasedData
    /\ nsTemp' = [b \in Blocks |-> Blank]
    /\ rtn' = "none" /\ out' = Absent

Return ==
    /\ pc = "return"
    /\ Forget
    /\ UNCHANGED <<flash, losses, fails>>

\* flash_write_data programs 32 bytes at a time: the command under way may
\* have written a part of its bytes.  A record and a directory entry take two
\* units, the first with the flag, the offset, the length and the start of the
\* text; the data of a value takes any number of them.
TornWrite ==
    \/ UNCHANGED flash
    \/ /\ pc = "put_data"
       /\ \E l \in 1 .. Len(put.bytes) :
             data' = [data EXCEPT ![blk] = Program(@, cur.off, SubSeq(put.bytes, 1, l))]
       /\ UNCHANGED <<dir, names>>
    \/ /\ pc = "put_record" /\ put.name \in LongTexts
       /\ names' = [names EXCEPT ![blk][cur.slot] = Record(cur.off, Len(put.bytes), Torn)]
       /\ UNCHANGED <<dir, data>>
    \/ /\ pc = "set_namespace" /\ call.ns \in LongTexts
       /\ \E b \in Blocks : IsFreeBlock(call.ns, b) /\ dir' = [dir EXCEPT ![b] = Torn]
       /\ UNCHANGED <<names, data>>
    \/ /\ pc = "clear_loop" /\ idx <= NumBlocks /\ nsTemp[idx] \in LongTexts
       /\ dir' = [dir EXCEPT ![idx] = Torn]
       /\ UNCHANGED <<names, data>>

PowerLoss ==
    /\ pc # "idle"
    /\ losses < MaxPowerLoss
    /\ losses' = losses + 1
    /\ TornWrite
    /\ Forget
    /\ UNCHANGED fails

SetName == SetSameValue \/ MaskOldValue \/ NoOldValue
NewAddr == NewAddrDirect \/ NewAddrReorganize \/ NewAddrFails
Reorganize == EraseNames \/ EraseData \/ ReorganizeCopy \/ ReorganizePut \/ ReorganizeFull
Clear == ClearNames \/ ClearData \/ ClearDir \/ ClearRewrite \/ ClearDone

Step ==
    \/ Refuse
    \/ GetNamespaceFound \/ GetNamespaceError
    \/ bk_set_namespace \/ bk_set_namespace_fails
    \/ SetName \/ NewAddr \/ PutData \/ PutRecord \/ Reorganize
    \/ NameFound \/ NameError
    \/ Clear \/ EraseSector \/ EraseDone
    \/ Return

Next == Call \/ Step \/ PowerLoss

Spec == Init /\ [][Next]_vars

-----------------------------------------------------------------------------
(* Invariants *)

Steps == {"idle", "refused", "namespace", "set_namespace", "set_name", "new_addr",
          "put_data", "put_record", "re_names", "re_data", "re_loop", "name",
          "clear_names", "clear_data", "clear_dir", "clear_loop", "erase", "return"}
Entries == Namespaces \cup {Blank, Torn}

\* The type invariant.
TypeOK ==
    /\ dir \in [Blocks -> Entries]
    /\ names \in [Blocks -> [Slots -> NameRecords]]
    /\ data \in [Blocks -> [Cells -> Bytes]]
    /\ call \in Calls
    /\ pc \in Steps
    /\ blk \in Blocks
    /\ cur \in [slot : Nat \ {0}, off : Nat]
    /\ put \in [name : StoredNames \cup {Blank, Torn}, bytes : Seq(Bytes)]
    /\ idx \in Nat
    /\ nameTemp \in [Slots -> NameRecords]
    /\ dataBuff \in [Cells -> Bytes]
    /\ nsTemp \in [Blocks -> Entries]
    /\ rtn \in {"none", "ok", "err"}
    /\ out \in Seq(Bytes) \cup {Absent}
    /\ losses \in Nat /\ fails \in Nat

\* The records of a sector fill its slots from the first on, and the data of
\* each lies after the data of those before it and inside the sector.
OrderedRecords(sector) ==
    \A s \in Slots : sector[s].flag # "blank" =>
        /\ sector[s].off + sector[s].len < SectorSize
        /\ \A t \in 1 .. (s - 1) :
              /\ sector[t].flag # "blank"
              /\ sector[t].off + sector[t].len <= sector[s].off

\* Whatever the calls, the power losses and the failing allocations, no two
\* records share a byte of data and no record reaches past its sector: the
\* append offset of bk_set_name_data_new_addr and the compaction's dw_offset
\* never fall behind a record that is in use or masked.
RecordsOrdered == \A b \in Blocks : OrderedRecords(names[b])

\* The slot and the cells the call is about to program lie behind every record
\* of the block, and the slot is erased.
PutFree(slot, off, len) ==
    /\ slot \in Slots
    /\ off + len < SectorSize
    /\ names[blk][slot].flag = "blank"
    /\ \A t \in 1 .. (slot - 1) :
          /\ names[blk][t].flag # "blank"
          /\ names[blk][t].off + names[blk][t].len <= off

\* A value is programmed at an erased slot, behind the data of every record of
\* its block, both when it is appended and when a compaction copies it.
PutsAreFree == pc \in {"put_data", "put_record"} => PutFree(cur.slot, cur.off, Len(put.bytes))

\* The cells a value is programmed into are erased: a NOR cell can only lose
\* bits ("flash can only write zeros", flash_namespace_value.h:157).
PutsIntoErasedCells ==
    pc = "put_data" =>
        \A c \in Cells : c >= cur.off /\ c < cur.off + Len(put.bytes) => data[blk][c] = Bits

\* What a step may do to a record the flash holds before and after it: mask it,
\* and leave its data alone.
KeepsRecord(b, s) ==
    names[b][s].flag # "blank" /\ names'[b][s].flag # "blank" =>
        /\ names'[b][s] \in {names[b][s], [names[b][s] EXCEPT !.flag = "mask"]}
        /\ \A c \in Cells :
              names[b][s].off <= c /\ c < names[b][s].off + names[b][s].len
                 => data'[b][c] = data[b][c]

\* No step, and no power loss, changes a byte that belongs to a record, in use or
\* masked, that the flash holds before and after it.
RecordDataStable == [][\A b \in Blocks, s \in Slots : KeepsRecord(b, s)]_vars

\* The directory gives a namespace at most one block.
OneBlockPerNamespace ==
    \A a, b \in Blocks : dir[a] = dir[b] /\ dir[a] \notin {Blank, Torn} => a = b

\* Between calls a block without a directory entry is erased, so that the
\* namespace that takes it next starts without values.
FreeBlocksErased ==
    pc = "idle" => \A b \in Blocks :
        dir[b] = Blank => names[b] = ErasedNames /\ data[b] = ErasedData

\* What the searches of the directory rest on, which stop at the first hit.
DirectorySound == OneBlockPerNamespace /\ FreeBlocksErased

\* The steps a call has left at most: the loop of a compaction takes three for
\* each slot, the loops over the directory and over the sectors one.
CompactLeft == 3 * (NumSlots + 1 - idx) + 5
StepsLeft ==
    CASE pc = "idle"          -> 0
      [] pc = "return"        -> 1
      [] pc \in {"refused", "name"} -> 2
      [] pc = "erase"         -> 2 * NumBlocks + 3 - idx
      [] pc = "clear_loop"    -> NumBlocks + 3 - idx
      [] pc = "clear_dir"     -> NumBlocks + 3
      [] pc = "clear_data"    -> NumBlocks + 4
      [] pc = "clear_names"   -> NumBlocks + 5
      [] pc = "put_record"    -> IF idx = 0 THEN 3 ELSE CompactLeft + 1
      [] pc = "put_data"      -> IF idx = 0 THEN 4 ELSE CompactLeft + 2
      [] pc = "re_loop"       -> CompactLeft
      [] pc = "re_data"       -> 3 * NumSlots + 6
      [] pc = "re_names"      -> 3 * NumSlots + 7
      [] pc = "new_addr"      -> 3 * NumSlots + 8
      [] pc = "set_name"      -> 3 * NumSlots + 9
      [] pc = "set_namespace" -> 3 * NumSlots + 10
      [] pc = "namespace"     -> 3 * NumSlots + NumBlocks + 11

\* Every step of a call, and a power loss, brings its return nearer: the loops
\* over slots, blocks and sectors end, also while the call writes into the block
\* it loops over.
CallsAdvance == [][pc # "idle" => StepsLeft' \in Nat /\ StepsLeft' < StepsLeft]_vars
==================================================================
