------------------------- MODULE FlashHistoryProofs -------------------------
(***************************************************************************)
(* Until the power is lost or an allocation fails, the flash of            *)
(* FlashNamespace implements the map of KvStore; and the first loss of     *)
(* power leaves each key with its old value, its new one or none.  The     *)
(* invariant says what every key reads as at each step of a call, told     *)
(* from what it read as when the call began.                               *)
(***************************************************************************)
EXTENDS FlashNamespaceHistory, FlashPoweredProofs

-----------------------------------------------------------------------------
(* What a key reads as, without the searches *)

\* Record s of block b is in use for key k.
At(k, b, s) ==
    Owner(b) = k.ns /\ names[b][s].flag = "using" /\ names[b][s].name = k.name

Reads(b, s) == ReadCells(data[b], names[b][s].off, names[b][s].len)

\* Key k has no value, has the value it had when the call began.
Gone(k) == \A b \in Blocks, s \in Slots : ~At(k, b, s)
Same(k) ==
    IF before[k] = Absent THEN Gone(k)
    ELSE \E b \in Blocks, s \in Slots : At(k, b, s) /\ before[k] = Reads(b, s)

\* The same in the copy a compaction works on.
TempReads(s) == ReadCells(dataBuff, nameTemp[s].off, nameTemp[s].len)
AtTemp(k, s) == nameTemp[s].flag = "using" /\ nameTemp[s].name = k.name
GoneTemp(k)  == \A s \in Slots : ~AtTemp(k, s)
SameTemp(k) ==
    IF before[k] = Absent THEN GoneTemp(k)
    ELSE \E s \in Slots : AtTemp(k, s) /\ before[k] = TempReads(s)

\* Record s of the block and record t of its copy have one name and one value.
Copies(s, t) ==
    /\ names[blk][s].flag = "using" /\ nameTemp[t].flag = "using"
    /\ names[blk][s].name = nameTemp[t].name
    /\ Reads(blk, s) = TempReads(t)

\* The block holds the records in use of the copy before record i, and no other.
Copied(i) ==
    /\ \A s \in Slots : names[blk][s].flag = "using" => \E t \in Slots : t < i /\ Copies(s, t)
    /\ \A t \in Slots : t < i /\ nameTemp[t].flag = "using" => \E s \in Slots : Copies(s, t)

UniqueNames(sector) ==
    \A s, t \in Slots :
        sector[s].flag = "using" /\ sector[t].flag = "using" /\ sector[s].name = sector[t].name
            => s = t

-----------------------------------------------------------------------------
(* The invariants *)

Appending == pc \in {"put_data", "put_record"} /\ idx = 0
Copying   == pc \in {"put_data", "put_record"} /\ idx # 0

\* Which calls are at which step, and what they were called with.
FnInv ==
    /\ pc = "idle" => call = NoCall
    /\ pc # "idle" => call.fn # "none"
    /\ pc # "return" => rtn = "none" /\ out = Absent
    /\ pc = "return" => rtn # "none"
    /\ pc = "refused" => \/ call.fn \in {"write", "clean"} /\ call.ns = Factory
                         \/ call.fn = "clear" /\ call.ns \in Reserved \cup {Factory}
    /\ pc = "namespace" => call.fn \in {"write", "clean", "read", "exists", "clear", "ensure"}
    /\ pc = "set_namespace" => call.fn \in {"write", "ensure"}
    /\ pc \in InBlock \ {"name", "clear_names", "clear_data", "clear_dir"} => call.fn = "write"
    /\ pc = "name" => call.fn \in {"clean", "read", "exists"}
    /\ pc \in {"clear_names", "clear_data", "clear_dir", "clear_loop"} =>
          call.fn = "clear" /\ call.ns \notin Reserved \cup {Factory}
    /\ pc = "erase" => call.fn = "erase"
    /\ pc \notin {"refused", "return"} /\ call.fn \in {"write", "clean"} => call.ns # Factory
    /\ pc \notin {"refused", "return"} /\ call.fn = "clear" => call.ns \notin Reserved \cup {Factory}
    /\ call.fn \in {"write", "clean", "read", "exists"} => OwnKey \in Keys

\* No sector has two records in use for one name.
NamesInv ==
    /\ \A b \in Blocks : UniqueNames(names[b])
    /\ pc \in {"re_names", "re_data", "re_loop"} \/ Copying => UniqueNames(nameTemp)

\* Nothing has changed yet; the call's own key has lost its old value.
Untouched == \A k \in Keys : Same(k)
OwnDropped == Gone(OwnKey) /\ \A k \in Keys \ {OwnKey} : Same(k)

\* What the keys read as at each step of a call.
KeysInv ==
    /\ pc \in {"refused", "namespace", "set_namespace", "set_name", "name", "clear_names"} =>
          Untouched
    /\ pc \in {"new_addr", "re_names"} \/ Appending => OwnDropped
    /\ pc \in {"re_data", "re_loop"} \/ Copying => \A k \in Keys : k.ns # call.ns => Same(k)
    /\ pc \in {"clear_data", "clear_dir", "clear_loop"} =>
          \A k \in Keys : IF k.ns = call.ns THEN Gone(k) ELSE Same(k)
    /\ pc = "erase" => \A k \in Keys : k.ns = Factory => Same(k)

\* What a compaction has to write again, and what it has written.
CopiesInv ==
    /\ pc \in {"re_names", "re_data", "re_loop"} \/ Copying =>
          /\ GoneTemp(OwnKey)
          /\ \A k \in Keys \ {OwnKey} : k.ns = call.ns => SameTemp(k)
    /\ pc = "re_loop" => Copied(idx)
    /\ Copying => /\ Copied(idx - 1)
                  /\ nameTemp[idx - 1].flag = "using"
                  /\ put.name = nameTemp[idx - 1].name
                  /\ put.bytes = TempReads(idx - 1)

\* The value under way.
PutInv ==
    /\ Appending => put = NewPut
    /\ pc = "put_record" => ReadCells(data[blk], cur.off, Len(put.bytes)) = put.bytes

BeforeInv == before \in [Keys -> Seq(Bytes) \cup {Absent}]

HistInv == NamesInv /\ KeysInv /\ CopiesInv /\ PutInv

-----------------------------------------------------------------------------
(* Lemmas about keys and records *)

\* A key is a pair of a namespace and a stored name.
LEMMA KeysLemma ==
    ASSUME NEW k \in Keys
    PROVE  /\ k = [ns |-> k.ns, name |-> k.name]
           /\ k.ns \in Namespaces /\ k.name \in StoredNames
           /\ k.ns # Blank
<1>1. PICK a \in Accesses : k = Key(a[1], a[2])
  BY DEF Keys
<1>2. a[1] \in Namespaces /\ a[2] \in Names
  BY NamespacesAssumption
<1>3. k = [ns |-> k.ns, name |-> k.name]
  BY <1>1 DEF Key
<1> QED BY <1>1, <1>2, <1>3, KeyLemma, MarksAssumption

\* The data of a record that is there is a value.
LEMMA ReadsLemma ==
    ASSUME Inv, NEW b \in Blocks, NEW s \in Slots, names[b][s].flag # "blank"
    PROVE  Reads(b, s) \in Seq(Bytes) /\ Len(Reads(b, s)) = names[b][s].len /\ Reads(b, s) # Absent
<1>1. /\ names[b] \in [Slots -> NameRecords] /\ OrderedRecords(names[b])
      /\ data[b] \in [Cells -> Bytes]
  BY DEF Inv, TypeOK, RecordsOrdered
<1>2. names[b][s].off \in Nat /\ names[b][s].len \in Nat
  BY <1>1 DEF NameRecords
<1>3. names[b][s].off + names[b][s].len <= SectorSize
  BY <1>1, <1>2, SizesAssumption DEF OrderedRecords
<1>4. Reads(b, s) \in Seq(Bytes) /\ Len(Reads(b, s)) = names[b][s].len
  BY <1>1, <1>2, <1>3, ReadLemma DEF Reads
<1> QED BY <1>4, MarksAssumption

\* When the search for a name finds no first record, there is none at all.
LEMMA NoFirstSlot ==
    ASSUME NEW n, NEW sector, \A s \in Slots : ~IsSlotOf(n, sector, s),
           NEW t \in Slots, sector[t].flag = "using", sector[t].name = n
    PROVE  FALSE
<1> DEFINE T == {s \in Slots : sector[s].flag = "using" /\ sector[s].name = n}
           R == OpToRel(<, Nat)
<1>1. T \subseteq Nat /\ T # {}
  BY SizesAssumption DEF Slots
<1>2. PICK x \in T : \A y \in T : ~(<<y, x>> \in R)
  <2>1. IsWellFoundedOn(R, Nat)
    BY NatLessThanWellFounded DEF R
  <2> HIDE DEF T, R
  <2> QED BY <1>1, <2>1, WFMin
<1>3. \A y \in T : ~(y < x)
  BY <1>1, <1>2 DEF OpToRel
<1>4. IsSlotOf(n, sector, x)
  BY <1>1, <1>3 DEF IsSlotOf
<1> QED BY <1>4

\* The searches of bk_read_data find the one record in use for a key.
LEMMA StoredLemma ==
    Inv /\ DirInv /\ NamesInv /\ pc # "clear_loop" =>
        \A k \in Keys :
            /\ \A b \in Blocks, s \in Slots : At(k, b, s) => Stored(k) = Reads(b, s)
            /\ Gone(k) => Stored(k) = Absent
<1> SUFFICES ASSUME Inv, DirInv, NamesInv, pc # "clear_loop", NEW k \in Keys
             PROVE  /\ \A b \in Blocks, s \in Slots : At(k, b, s) => Stored(k) = Reads(b, s)
                    /\ Gone(k) => Stored(k) = Absent
  OBVIOUS
<1>0. \A b \in Blocks : Owner(b) = dir[b]
  BY OwnerDir
<1>1. ASSUME NEW b \in Blocks, NEW s \in Slots, At(k, b, s)
      PROVE  Stored(k) = Reads(b, s)
  <2>1. dir[b] = k.ns /\ names[b][s].flag = "using" /\ names[b][s].name = k.name /\ k.ns # Blank
    BY <1>0, <1>1, KeysLemma DEF At
  <2>2. \A a \in Blocks : IsBlockOf(k.ns, a) <=> a = b
    <3>1. b \in BlocksOf(k.ns)
      BY <1>0, <2>1 DEF DirInv, OwnersInv
    <3>2. \A a \in Blocks : dir[a] = k.ns => a = b
      BY <1>0, <2>1 DEF DirInv, OwnersInv
    <3>3. \A a \in BlocksOf(k.ns) : a < b => dir[a] # k.ns
      <4>1. \A a \in BlocksOf(k.ns) : a \in Blocks /\ a \in Int
        BY SizesAssumption DEF BlocksOf, MatterBlocks, Blocks
      <4> QED BY <4>1, <3>2
    <3> QED BY <2>1, <3>1, <3>2, <3>3 DEF IsBlockOf
  <2>3. \A t \in Slots : IsSlotOf(k.name, names[b], t) <=> t = s
    <3>1. \A t \in Slots : names[b][t].flag = "using" /\ names[b][t].name = k.name => t = s
      BY <2>1 DEF NamesInv, UniqueNames
    <3>2. \A t \in Slots : t \in Int
      BY DEF Slots
    <3> QED BY <2>1, <3>1, <3>2 DEF IsSlotOf
  <2>4. (CHOOSE a \in Blocks : IsBlockOf(k.ns, a)) = b
    BY <2>2
  <2>5. (CHOOSE t \in Slots : IsSlotOf(k.name, names[b], t)) = s
    BY <2>3
  <2>6. \E a \in Blocks, t \in Slots : IsBlockOf(k.ns, a) /\ IsSlotOf(k.name, names[a], t)
    BY <2>2, <2>3
  <2> QED BY <2>4, <2>5, <2>6 DEF Stored, Reads
<1>2. ASSUME Gone(k)
      PROVE  Stored(k) = Absent
  <2>1. ~\E b \in Blocks, s \in Slots : IsBlockOf(k.ns, b) /\ IsSlotOf(k.name, names[b], s)
    BY <1>0, <1>2 DEF Gone, At, IsBlockOf, IsSlotOf
  <2> QED BY <2>1 DEF Stored
<1> QED BY <1>1, <1>2

\* A key reads as it did when the call began, or has no value.
LEMMA SameStored ==
    Inv /\ DirInv /\ NamesInv /\ pc # "clear_loop" =>
        \A k \in Keys : /\ Same(k) => Stored(k) = before[k]
                        /\ Gone(k) => Stored(k) = Absent
                        /\ IF Stored(k) = Absent THEN Gone(k)
                           ELSE \E b \in Blocks, s \in Slots : At(k, b, s) /\ Stored(k) = Reads(b, s)
<1> SUFFICES ASSUME Inv, DirInv, NamesInv, pc # "clear_loop", NEW k \in Keys
             PROVE  /\ Same(k) => Stored(k) = before[k]
                    /\ Gone(k) => Stored(k) = Absent
                    /\ IF Stored(k) = Absent THEN Gone(k)
                       ELSE \E b \in Blocks, s \in Slots : At(k, b, s) /\ Stored(k) = Reads(b, s)
  OBVIOUS
<1>1. /\ \A b \in Blocks, s \in Slots : At(k, b, s) => Stored(k) = Reads(b, s)
      /\ Gone(k) => Stored(k) = Absent
  BY StoredLemma
<1>2. \A b \in Blocks, s \in Slots : At(k, b, s) => Reads(b, s) # Absent
  BY ReadsLemma DEF At
<1>3. CASE Gone(k)
  BY <1>1, <1>3 DEF Same, Gone
<1>4. CASE ~Gone(k)
  <2>1. PICK b \in Blocks, s \in Slots : At(k, b, s)
    BY <1>4 DEF Gone
  <2> QED BY <1>1, <1>2, <1>4, <2>1 DEF Same
<1> QED BY <1>3, <1>4

\* The same after a step.
LEMMA SameStoredNext ==
    (Inv /\ DirInv /\ NamesInv /\ pc # "clear_loop" =>
        \A k \in Keys : /\ Same(k) => Stored(k) = before[k]
                        /\ Gone(k) => Stored(k) = Absent)'
<1>1. Inv /\ DirInv /\ NamesInv /\ pc # "clear_loop" =>
        \A k \in Keys : /\ Same(k) => Stored(k) = before[k]
                        /\ Gone(k) => Stored(k) = Absent
  BY SameStored
<1> QED BY <1>1, PTL

\* What a step has to leave alone for a key to read as before.
LEMMA KeyKept ==
    ASSUME UNCHANGED before, NEW k,
           \A b \in Blocks, s \in Slots : /\ At(k, b, s)' <=> At(k, b, s)
                                          /\ At(k, b, s) => Reads(b, s)' = Reads(b, s)
    PROVE  /\ Same(k) => Same(k)'
           /\ Gone(k) => Gone(k)'
<1>1. Gone(k) <=> Gone(k)'
  BY DEF Gone
<1>2. CASE before[k] = Absent
  BY <1>1, <1>2 DEF Same
<1>3. CASE before[k] # Absent
  BY <1>1, <1>3 DEF Same
<1> QED BY <1>1, <1>2, <1>3

\* A step that leaves the flash and the owners of its blocks alone.
LEMMA AllKept ==
    ASSUME UNCHANGED <<before, names, data>>, \A b \in Blocks : Owner(b)' = Owner(b)
    PROVE  \A k : (Same(k) => Same(k)') /\ (Gone(k) => Gone(k)')
<1>1. ASSUME NEW k, NEW b \in Blocks, NEW s \in Slots
      PROVE  (At(k, b, s)' <=> At(k, b, s)) /\ Reads(b, s)' = Reads(b, s)
  BY DEF At, Reads
<1> QED BY <1>1, KeyKept

\* A step that changes only what a block of another namespace holds.
LEMMA OthersKept ==
    ASSUME UNCHANGED before, NEW k, \A b \in Blocks : Owner(b)' = Owner(b),
           \A b \in Blocks : Owner(b) = k.ns => names'[b] = names[b] /\ data'[b] = data[b]
    PROVE  (Same(k) => Same(k)') /\ (Gone(k) => Gone(k)')
<1>1. ASSUME NEW b \in Blocks, NEW s \in Slots
      PROVE  (At(k, b, s)' <=> At(k, b, s)) /\ (At(k, b, s) => Reads(b, s)' = Reads(b, s))
  BY DEF At, Reads
<1> QED BY <1>1, KeyKept

-----------------------------------------------------------------------------
(* Which call is at which step *)

\* A function hands on a key of the callers', and none of the factory's to change.
LEMMA FnEnter ==
    ASSUME Inv, FnInv, Call
    PROVE  FnInv'
<1>1. ASSUME NEW c, NEW step, Enter(c, step), step \in {"refused", "namespace"},
             c.fn \in {"write", "clean", "read", "exists", "clear", "ensure"},
             step = "refused" => \/ c.fn \in {"write", "clean"} /\ c.ns = Factory
                                 \/ c.fn = "clear" /\ c.ns \in Reserved \cup {Factory},
             step = "namespace" =>
                 /\ c.fn \in {"write", "clean"} => c.ns # Factory
                 /\ c.fn = "clear" => c.ns \notin Reserved \cup {Factory},
             c.fn \in {"write", "clean", "read", "exists"} => [ns |-> c.ns, name |-> c.name] \in Keys
      PROVE  FnInv'
  BY <1>1 DEF FnInv, Enter, InBlock, OwnKey
<1>2. ASSUME NEW a \in Accesses, NEW fn, NEW v, NEW l
      PROVE  /\ CallOf(fn, Key(a[1], a[2]), v, l).fn = fn
             /\ [ns |-> CallOf(fn, Key(a[1], a[2]), v, l).ns,
                 name |-> CallOf(fn, Key(a[1], a[2]), v, l).name] \in Keys
             /\ CallOf(fn, Key(a[1], a[2]), v, l).ns = Factory <=> a[1] = Factory
  <2>1. Key(a[1], a[2]) \in Keys
    BY DEF Keys
  <2>2. Key(a[1], a[2]).ns = Factory <=> a[1] = Factory
    BY NamespacesAssumption DEF Key
  <2>3. Key(a[1], a[2]) = [ns |-> Key(a[1], a[2]).ns, name |-> Key(a[1], a[2]).name]
    BY <2>1, KeysLemma
  <2> QED BY <2>1, <2>2, <2>3 DEF CallOf
<1>3. ASSUME NEW a \in Accesses, NEW v \in Values, bk_write_data(a[1], a[2], v)
      PROVE  FnInv'
  <2> DEFINE c == CallOf("write", Key(a[1], a[2]), v, 0)
  <2>1. /\ c.fn = "write" /\ [ns |-> c.ns, name |-> c.name] \in Keys
        /\ c.ns = Factory <=> a[1] = Factory
    BY <1>2
  <2>2. Enter(c, IF a[1] = Factory THEN "refused" ELSE "namespace")
    BY <1>3 DEF bk_write_data
  <2> HIDE DEF c
  <2>3. CASE a[1] = Factory
    <3>1. Enter(c, "refused")
      BY <2>2, <2>3
    <3> QED BY <2>1, <2>3, <3>1, <1>1
  <2>4. CASE a[1] # Factory
    <3>1. Enter(c, "namespace")
      BY <2>2, <2>4
    <3> QED BY <2>1, <2>4, <3>1, <1>1
  <2> QED BY <2>3, <2>4
<1>4. ASSUME NEW a \in Accesses, bk_clean_data(a[1], a[2])
      PROVE  FnInv'
  <2> DEFINE c == CallOf("clean", Key(a[1], a[2]), <<>>, 0)
  <2>1. /\ c.fn = "clean" /\ [ns |-> c.ns, name |-> c.name] \in Keys
        /\ c.ns = Factory <=> a[1] = Factory
    BY <1>2
  <2>2. Enter(c, IF a[1] = Factory THEN "refused" ELSE "namespace")
    BY <1>4 DEF bk_clean_data
  <2> HIDE DEF c
  <2>3. CASE a[1] = Factory
    <3>1. Enter(c, "refused")
      BY <2>2, <2>3
    <3> QED BY <2>1, <2>3, <3>1, <1>1
  <2>4. CASE a[1] # Factory
    <3>1. Enter(c, "namespace")
      BY <2>2, <2>4
    <3> QED BY <2>1, <2>4, <3>1, <1>1
  <2> QED BY <2>3, <2>4
<1>5. ASSUME NEW a \in Accesses, NEW l \in ReadLens, bk_read_data(a[1], a[2], l)
      PROVE  FnInv'
  <2> DEFINE c == CallOf("read", Key(a[1], a[2]), <<>>, l)
  <2>1. /\ c.fn = "read" /\ [ns |-> c.ns, name |-> c.name] \in Keys
        /\ c.ns = Factory <=> a[1] = Factory
    BY <1>2
  <2>2. Enter(c, "namespace")
    BY <1>5 DEF bk_read_data
  <2> HIDE DEF c
  <2> QED BY <2>1, <2>2, <1>1
<1>6. ASSUME NEW a \in Accesses, bk_ensure_name_data(a[1], a[2])
      PROVE  FnInv'
  <2> DEFINE c == CallOf("exists", Key(a[1], a[2]), <<>>, 0)
  <2>1. /\ c.fn = "exists" /\ [ns |-> c.ns, name |-> c.name] \in Keys
        /\ c.ns = Factory <=> a[1] = Factory
    BY <1>2
  <2>2. Enter(c, "namespace")
    BY <1>6 DEF bk_ensure_name_data
  <2> HIDE DEF c
  <2> QED BY <2>1, <2>2, <1>1
<1>7. ASSUME NEW ns \in Namespaces, bK_clear_namespace(ns)
      PROVE  FnInv'
  BY <1>1, <1>7 DEF bK_clear_namespace, CallOf
<1>8. ASSUME NEW ns \in Namespaces, bk_ensure_namespace(ns)
      PROVE  FnInv'
  BY <1>1, <1>8 DEF bk_ensure_namespace, CallOf
<1>9. ASSUME bk_erase_all
      PROVE  FnInv'
  BY <1>9 DEF bk_erase_all, FnInv, NoCall, InBlock, OwnKey
<1> QED BY <1>3, <1>4, <1>5, <1>6, <1>7, <1>8, <1>9 DEF Call

\* A step of a call that does not end it stays with its function.
LEMMA FnStay ==
    ASSUME FnInv, UNCHANGED <<call, rtn, out>>, pc \notin {"idle", "return", "refused", "namespace"},
           \/ pc' = pc
           \/ pc' = "set_name" /\ call.fn = "write"
           \/ pc \in {"set_name", "new_addr", "put_data", "put_record", "re_names", "re_data", "re_loop"}
              /\ pc' \in {"new_addr", "put_data", "put_record", "re_names", "re_data", "re_loop"}
           \/ pc \in {"clear_names", "clear_data", "clear_dir"}
              /\ pc' \in {"clear_data", "clear_dir", "clear_loop"}
    PROVE  FnInv'
BY DEF FnInv, InBlock, OwnKey

\* A step that ends a call.
LEMMA FnFinish ==
    ASSUME FnInv, UNCHANGED call, pc # "idle", pc' = "return", rtn' # "none"
    PROVE  FnInv'
BY DEF FnInv, InBlock, OwnKey

\* Every step keeps the functions at their steps.
LEMMA FnStep ==
    ASSUME Inv, FnInv, [Next]_vars
    PROVE  FnInv'
<1>1. CASE Call
  BY <1>1, FnEnter
<1>2. CASE Refuse \/ bk_set_namespace_fails \/ SetSameValue \/ NewAddrFails \/ ReorganizeFull
           \/ NameFound \/ NameError \/ ClearDone \/ EraseDone
  <2>1. pc # "idle" /\ pc' = "return" /\ rtn' # "none" /\ UNCHANGED call
    BY <1>2 DEF Refuse, bk_set_namespace_fails, SetSameValue, NewAddrFails, ReorganizeFull,
                NameFound, CleanName, ReadName, EnsureName, NameError, ClearDone, EraseDone, Finish, volatile
  <2> QED BY <2>1, FnFinish
<1>3. CASE GetNamespaceFound \/ GetNamespaceError \/ bk_set_namespace
  <2>1. CASE pc' = "return"
    <3>1. pc # "idle" /\ rtn' # "none" /\ UNCHANGED call
      BY <1>3, <2>1 DEF GetNamespaceFound, GetNamespaceError, bk_set_namespace, Finish
    <3> QED BY <2>1, <3>1, FnFinish
  <2>2. CASE pc' # "return"
    <3>1. UNCHANGED <<call, rtn, out>> /\ pc \in {"namespace", "set_namespace"}
      BY <1>3, <2>2 DEF GetNamespaceFound, GetNamespaceError, bk_set_namespace, Finish
    <3>2. \/ pc' = "set_name" /\ call.fn = "write"
          \/ pc' = "clear_names" /\ call.fn = "clear" /\ pc = "namespace"
          \/ pc' = "name" /\ call.fn \in {"clean", "read", "exists"}
          \/ pc' = "set_namespace" /\ call.fn \in {"write", "ensure"}
      BY <1>3, <2>2 DEF GetNamespaceFound, GetNamespaceError, bk_set_namespace, Finish
    <3> QED BY <3>1, <3>2 DEF FnInv, InBlock, OwnKey
  <2> QED BY <2>1, <2>2
<1>4. CASE MaskOldValue \/ NoOldValue \/ NewAddrDirect \/ NewAddrReorganize \/ PutData
  BY <1>4, FnStay DEF MaskOldValue, NoOldValue, NewAddrDirect, NewAddrReorganize, PutData, volatile
<1>5. CASE PutRecord
  BY <1>5, FnStay, FnFinish DEF PutRecord, Finish
<1>6. CASE EraseNames \/ EraseData \/ ReorganizeCopy \/ ReorganizePut
  BY <1>6, FnStay DEF EraseNames, EraseData, ReorganizeCopy, ReorganizePut, volatile
<1>7. CASE ClearNames \/ ClearData \/ ClearDir \/ ClearRewrite \/ EraseSector
  BY <1>7, FnStay DEF ClearNames, ClearData, ClearDir, ClearRewrite, EraseSector, volatile
<1>8. CASE Return \/ PowerLoss
  BY <1>8 DEF Return, PowerLoss, Forget, FnInv, NoCall, InBlock, OwnKey
<1>9. CASE UNCHANGED vars
  BY <1>9 DEF vars, FnInv, InBlock, OwnKey
<1> QED BY <1>1, <1>2, <1>3, <1>4, <1>5, <1>6, <1>7, <1>8, <1>9
        DEF Next, Step, SetName, NewAddr, Reorganize, Clear

-----------------------------------------------------------------------------
(* What the keys read as at each step of a call *)

\* All that is known of a state in which nothing was lost and nothing failed.
Whole == Inv /\ LoopInv /\ ErasedInv /\ DirInv /\ FnInv /\ HistInv

\* Outside a call only the names of the sectors matter.
LEMMA HistOver ==
    ASSUME pc' \in {"return", "idle"}, \A b \in Blocks : UniqueNames(names'[b])
    PROVE  HistInv'
BY DEF HistInv, NamesInv, KeysInv, CopiesInv, PutInv, Appending, Copying, UniqueNames

\* Masking a record takes a name away.
LEMMA MaskUnique ==
    ASSUME NEW sector \in [Slots -> NameRecords], NEW m \in Slots, UniqueNames(sector)
    PROVE  UniqueNames(Masked(sector, m))
<1>1. \A s \in Slots : /\ Masked(sector, m)[s].name = sector[s].name
                       /\ Masked(sector, m)[s].flag = "using" =>
                             sector[s].flag = "using" /\ s # m
  BY DEF Masked, NameRecords
<1> QED BY <1>1 DEF UniqueNames

\* A call finds every key as the flash has it.
LEMMA HistEnter ==
    ASSUME Whole, Call, before' = Contents
    PROVE  HistInv'
<1>1. /\ pc = "idle" /\ UNCHANGED <<dir, names, data>>
      /\ pc' \in {"refused", "namespace", "erase"}
  BY DEF Call, bk_write_data, bk_clean_data, bk_read_data, bk_ensure_name_data,
         bK_clear_namespace, bk_ensure_namespace, bk_erase_all, Enter, flash
<1>2. ASSUME NEW k \in Keys
      PROVE  Same(k)'
  <2>1. before'[k] = Stored(k)
    BY DEF Contents
  <2>2. IF Stored(k) = Absent THEN Gone(k)
        ELSE \E b \in Blocks, s \in Slots : At(k, b, s) /\ Stored(k) = Reads(b, s)
    BY <1>1, SameStored DEF Whole, HistInv
  <2>3. \A b \in Blocks, s \in Slots : (At(k, b, s)' <=> At(k, b, s)) /\ Reads(b, s)' = Reads(b, s)
    BY <1>1 DEF At, Reads, Owner
  <2>4. Gone(k) => Gone(k)'
    BY <2>3 DEF Gone
  <2>5. CASE Stored(k) = Absent
    BY <2>1, <2>2, <2>4, <2>5 DEF Same
  <2>6. CASE Stored(k) # Absent
    BY <2>1, <2>2, <2>3, <2>6 DEF Same
  <2> QED BY <2>5, <2>6
<1>3. KeysInv'
  BY <1>1, <1>2 DEF KeysInv, Untouched, Appending, Copying
<1>4. NamesInv' /\ CopiesInv' /\ PutInv'
  BY <1>1 DEF Whole, HistInv, NamesInv, UniqueNames, CopiesInv, PutInv, Appending, Copying
<1> QED BY <1>3, <1>4 DEF HistInv

\* While the namespace is looked for every key reads as before, also when it
\* gets a block: the block is erased.
LEMMA HistNamespace ==
    ASSUME Whole, UNCHANGED before,
           GetNamespaceFound \/ GetNamespaceError \/ bk_set_namespace
    PROVE  HistInv' /\ Untouched'
<1>0. /\ pc \in {"namespace", "set_namespace"} /\ UNCHANGED <<names, data, call>>
      /\ pc' \in {"set_namespace", "set_name", "clear_names", "name", "return"}
      /\ dir \in [Blocks -> Entries] /\ call.ns \in Namespaces
  BY DEF GetNamespaceFound, GetNamespaceError, bk_set_namespace, Finish, flash,
         Whole, Inv, TypeOK, Calls
<1>1. Untouched
  BY <1>0 DEF Whole, HistInv, KeysInv
<1>2. ASSUME NEW k \in Keys, NEW b \in Blocks, NEW s \in Slots
      PROVE  At(k, b, s)' <=> At(k, b, s)
  <2>1. CASE UNCHANGED dir
    BY <1>0, <2>1 DEF At, Owner
  <2>2. CASE bk_set_namespace
    <3>1. PICK a \in Blocks : dir' = [dir EXCEPT ![a] = call.ns] /\ dir[a] = Blank
      BY <2>2 DEF bk_set_namespace, IsFreeBlock
    <3>2. Owner(b) = dir[b] /\ Owner(b)' = dir'[b]
      BY <1>0 DEF Owner
    <3>3. CASE b = a
      <4>1. names[b] = ErasedNames
        BY <1>0, <3>1, <3>2, <3>3 DEF Whole, DirInv, FreeInv
      <4>2. names[b][s].flag # "using" /\ names'[b][s].flag # "using"
        BY <4>1, <1>0, ErasedLemma
      <4> QED BY <4>2 DEF At
    <3>4. CASE b # a
      BY <1>0, <3>1, <3>2, <3>4 DEF At
    <3> QED BY <3>3, <3>4
  <2> QED BY <2>1, <2>2 DEF GetNamespaceFound, GetNamespaceError, flash
<1>3. Untouched'
  <2> SUFFICES ASSUME NEW k \in Keys PROVE Same(k)'
    BY DEF Untouched
  <2>1. \A b \in Blocks, s \in Slots : Reads(b, s)' = Reads(b, s)
    BY <1>0 DEF Reads
  <2> QED BY <1>1, <1>2, <2>1, KeyKept DEF Untouched
<1>4. KeysInv' /\ CopiesInv' /\ PutInv' /\ NamesInv'
  BY <1>0, <1>3 DEF Whole, HistInv, NamesInv, UniqueNames, KeysInv, CopiesInv, PutInv, Appending, Copying
<1> QED BY <1>3, <1>4 DEF HistInv

\* A step that leaves the directory and the flash alone and ends the call.
LEMMA HistFails ==
    ASSUME Whole, UNCHANGED <<flash, call, before>>, pc' = "return", pc \notin {"clear_loop", "idle"}
    PROVE  /\ HistInv'
           /\ \A k \in Keys : (Same(k) => Same(k)') /\ (Gone(k) => Gone(k)')
<1>1. \A b \in Blocks : Owner(b)' = Owner(b)
  BY DEF Owner, flash
<1>2. \A b \in Blocks : UniqueNames(names'[b])
  BY DEF Whole, HistInv, NamesInv, flash
<1> QED BY <1>1, <1>2, HistOver, AllKept DEF flash

\* The block a call works in is the only one of its namespace.
LEMMA CallBlock ==
    ASSUME Whole, pc \in InBlock
    PROVE  /\ Owner(blk) = call.ns /\ blk \in Blocks
           /\ \A b \in Blocks : Owner(b) = call.ns => b = blk
<1>1. Owner(blk) = call.ns /\ call.ns # Blank /\ blk \in Blocks
  BY BlockOwned, OwnerDir DEF Whole, InBlock
<1> QED BY <1>1 DEF Whole, DirInv, OwnersInv

\* Masking the record of the call's name drops the call's key and no other.
LEMMA HistMask ==
    ASSUME Whole, UNCHANGED <<before, data, dir, call>>, pc \in {"set_name", "name"},
           pc' \in {"new_addr", "return"}, NEW m \in Slots,
           names[blk][m].flag = "using", names[blk][m].name = call.name,
           names' = [names EXCEPT ![blk] = Masked(@, m)]
    PROVE  OwnDropped' /\ \A b \in Blocks : UniqueNames(names'[b])
<1>0. /\ names \in [Blocks -> [Slots -> NameRecords]] /\ blk \in Blocks
      /\ Owner(blk) = call.ns /\ \A b \in Blocks : Owner(b) = call.ns => b = blk
  BY CallBlock DEF InBlock, Whole, Inv, TypeOK
<1>1. \A b \in Blocks : Owner(b)' = Owner(b)
  BY DEF Owner
<1>2. \A b \in Blocks, s \in Slots :
          /\ names'[b][s].name = names[b][s].name
          /\ names'[b][s].off = names[b][s].off /\ names'[b][s].len = names[b][s].len
          /\ names'[b][s].flag = "using" <=> names[b][s].flag = "using" /\ ~(b = blk /\ s = m)
  BY <1>0 DEF Masked, NameRecords
<1>3. \A b \in Blocks, s \in Slots : Reads(b, s)' = Reads(b, s)
  BY <1>2 DEF Reads
<1>4. Untouched /\ UniqueNames(names[blk]) /\ OwnKey' = OwnKey
  BY <1>0 DEF Whole, HistInv, KeysInv, NamesInv, OwnKey
<1>5. Gone(OwnKey)'
  <2> SUFFICES ASSUME NEW b \in Blocks, NEW s \in Slots, At(OwnKey, b, s)' PROVE FALSE
    BY DEF Gone
  <2>1. /\ Owner(b) = call.ns /\ names[b][s].flag = "using" /\ ~(b = blk /\ s = m)
        /\ names[b][s].name = call.name
    BY <1>1, <1>2, <1>4 DEF At, OwnKey
  <2> QED BY <1>0, <1>4, <2>1 DEF UniqueNames
<1>6. ASSUME NEW k \in Keys \ {OwnKey}
      PROVE  Same(k)'
  <2>1. ~(call.ns = k.ns /\ call.name = k.name)
    BY KeysLemma DEF OwnKey
  <2>2. \A b \in Blocks, s \in Slots : At(k, b, s)' <=> At(k, b, s)
    BY <1>0, <1>1, <1>2, <2>1 DEF At
  <2>3. Same(k) => Same(k)'
    BY <1>3, <2>2, KeyKept
  <2> QED BY <1>4, <2>3 DEF Untouched
<1>7. \A b \in Blocks : UniqueNames(names'[b])
  BY <1>2 DEF Whole, HistInv, NamesInv, UniqueNames
<1> QED BY <1>4, <1>5, <1>6, <1>7 DEF OwnDropped

\* Before a new record is made the call's key has none.
LEMMA HistSetName ==
    ASSUME Whole, UNCHANGED before, fails' = 0, MaskOldValue \/ NoOldValue
    PROVE  HistInv'
<1>0. /\ pc = "set_name" /\ pc' = "new_addr" /\ UNCHANGED <<dir, data, call, blk>>
      /\ ~MallocFails
  BY DEF MaskOldValue, NoOldValue, volatile, flash, Whole, Inv, TypeOK, MallocFails
<1>1. OwnDropped' /\ \A b \in Blocks : UniqueNames(names'[b])
  <2>1. CASE MaskOldValue
    BY <1>0, <2>1, HistMask DEF MaskOldValue, IsSlotOf
  <2>2. CASE NoOldValue
    <3>1. UNCHANGED names /\ \A s \in Slots : ~IsSlotOf(call.name, names[blk], s)
      BY <1>0, <2>2 DEF NoOldValue, flash
    <3>2. \A b \in Blocks : Owner(b)' = Owner(b)
      BY <1>0 DEF Owner
    <3>3. Gone(OwnKey)
      <4> SUFFICES ASSUME NEW b \in Blocks, NEW s \in Slots, At(OwnKey, b, s) PROVE FALSE
        BY DEF Gone
      <4>1. b = blk
        BY <1>0, CallBlock DEF At, OwnKey, InBlock
      <4> QED BY <3>1, <4>1, NoFirstSlot DEF At, OwnKey
    <3>4. Untouched
      BY <1>0 DEF Whole, HistInv, KeysInv
    <3>5. OwnKey' = OwnKey
      BY <1>0 DEF OwnKey
    <3> QED BY <1>0, <3>1, <3>2, <3>3, <3>4, <3>5, AllKept
            DEF OwnDropped, Untouched, Whole, HistInv, NamesInv
  <2> QED BY <2>1, <2>2
<1> QED BY <1>0, <1>1 DEF HistInv, NamesInv, KeysInv, CopiesInv, PutInv, Appending, Copying

\* The value goes behind the last record, or the block is to be compacted: the
\* copy then has the values of the namespace without the old one of the call's key.
LEMMA HistNewAddr ==
    ASSUME Whole, UNCHANGED before, NewAddrDirect \/ NewAddrReorganize
    PROVE  HistInv'
<1>0. pc = "new_addr" /\ UNCHANGED <<names, data, dir, call, blk, idx>> /\ idx = 0
  BY DEF NewAddrDirect, NewAddrReorganize, flash, Whole, Inv, IdxInv, Linear
<1>1. OwnDropped
  BY <1>0 DEF Whole, HistInv, KeysInv
<1>2. OwnDropped'
  <2>1. \A b \in Blocks : Owner(b)' = Owner(b)
    BY <1>0 DEF Owner, NewAddrDirect, NewAddrReorganize
  <2>2. OwnKey' = OwnKey
    BY <1>0 DEF OwnKey
  <2> QED BY <1>0, <1>1, <2>1, <2>2, AllKept DEF OwnDropped
<1>3. \A b \in Blocks : UniqueNames(names'[b])
  BY <1>0 DEF Whole, HistInv, NamesInv
<1>4. CASE NewAddrDirect
  <2>1. pc' = "put_data" /\ put' = NewPut /\ NewPut' = NewPut /\ idx' = 0
    BY <1>0, <1>4 DEF NewAddrDirect, NewPut
  <2> QED BY <1>2, <1>3, <2>1 DEF HistInv, NamesInv, KeysInv, CopiesInv, PutInv, Appending, Copying
<1>5. CASE NewAddrReorganize
  <2>1. pc' = "re_names" /\ nameTemp' = names[blk] /\ dataBuff' = data[blk]
    BY <1>5 DEF NewAddrReorganize
  <2>2. /\ Owner(blk) = call.ns /\ blk \in Blocks
        /\ \A b \in Blocks : Owner(b) = call.ns => b = blk
    BY <1>0, CallBlock DEF InBlock
  <2>3. ASSUME NEW k, k.ns = call.ns, NEW s \in Slots
        PROVE  (AtTemp(k, s)' <=> At(k, blk, s)) /\ TempReads(s)' = Reads(blk, s)
    BY <2>1, <2>2, <2>3 DEF AtTemp, At, TempReads, Reads
  <2>4. GoneTemp(OwnKey)'
    BY <1>0, <1>1, <2>2, <2>3 DEF GoneTemp, Gone, OwnDropped, OwnKey
  <2>5. ASSUME NEW k \in Keys \ {OwnKey}, k.ns = call.ns
        PROVE  SameTemp(k)'
    <3>1. Same(k)
      BY <1>1 DEF OwnDropped
    <3>2. CASE before[k] = Absent
      BY <2>2, <2>3, <2>5, <3>1, <3>2 DEF Same, SameTemp, GoneTemp, Gone
    <3>3. CASE before[k] # Absent
      <4>1. PICK b \in Blocks, s \in Slots : At(k, b, s) /\ before[k] = Reads(b, s)
        BY <3>1, <3>3 DEF Same
      <4>2. b = blk
        BY <2>2, <2>5, <4>1 DEF At
      <4> QED BY <2>3, <2>5, <3>3, <4>1, <4>2 DEF SameTemp
    <3> QED BY <3>2, <3>3
  <2>6. UniqueNames(nameTemp')
    BY <2>1, <2>2 DEF Whole, HistInv, NamesInv
  <2>7. CopiesInv'
    BY <1>0, <2>1, <2>4, <2>5 DEF CopiesInv, Copying, OwnKey
  <2> QED BY <1>2, <1>3, <2>1, <2>6, <2>7 DEF HistInv, NamesInv, KeysInv, PutInv, Appending, Copying
<1> QED BY <1>4, <1>5

\* A record whose cells stay reads as before.
LEMMA ReadsKept ==
    ASSUME Inv, NEW b \in Blocks, NEW s \in Slots, names[b][s].flag # "blank",
           names'[b][s].off = names[b][s].off, names'[b][s].len = names[b][s].len,
           \A c \in Cells : names[b][s].off <= c /\ c < names[b][s].off + names[b][s].len
               => data'[b][c] = data[b][c]
    PROVE  Reads(b, s)' = Reads(b, s)
<1> DEFINE o == names[b][s].off
           l == names[b][s].len
<1>1. o \in Nat /\ l \in Nat /\ o + l < SectorSize
  BY DEF Inv, TypeOK, RecordsOrdered, OrderedRecords, NameRecords
<1>2. \A j \in 1 .. l : o + j - 1 \in Cells /\ o <= o + j - 1 /\ o + j - 1 < o + l
  BY <1>1, SizesAssumption DEF Cells
<1>3. \A j \in 1 .. l : data'[b][o + j - 1] = data[b][o + j - 1]
  BY <1>2
<1> QED BY <1>3 DEF Reads, ReadCells

\* Programming erased cells puts there what was to be written.
LEMMA ProgramErased ==
    ASSUME NEW sector, NEW o \in Nat, NEW bytes \in Seq(Bytes), o + Len(bytes) < SectorSize,
           \A c \in Cells : c >= o /\ c < o + Len(bytes) => sector[c] = Bits
    PROVE  ReadCells(Program(sector, o, bytes), o, Len(bytes)) = bytes
<1> DEFINE l == Len(bytes)
<1>0. l \in Nat /\ bytes \in [1 .. l -> Bytes]
  OBVIOUS
<1>1. ASSUME NEW j \in 1 .. l
      PROVE  Program(sector, o, bytes)[o + j - 1] = bytes[j]
  <2>1. /\ o + j - 1 \in Cells /\ o + j - 1 >= o /\ o + j - 1 < o + l
        /\ (o + j - 1) - o + 1 = j
    BY <1>0, SizesAssumption DEF Cells
  <2>2. Program(sector, o, bytes)[o + j - 1] = Bits \cap bytes[j]
    BY <2>1 DEF Program
  <2>3. bytes[j] \subseteq Bits
    BY <1>0 DEF Bytes
  <2> QED BY <2>2, <2>3
<1>2. ReadCells(Program(sector, o, bytes), o, l) = [j \in 1 .. l |-> bytes[j]]
  BY <1>1 DEF ReadCells
<1>3. bytes = [j \in 1 .. l |-> bytes[j]]
  BY <1>0
<1> QED BY <1>2, <1>3

\* The data of a value is there before its record is, and no record has changed.
LEMMA HistPutData ==
    ASSUME Whole, UNCHANGED before, PutData
    PROVE  HistInv'
<1>0. /\ pc = "put_data" /\ pc' = "put_record"
      /\ UNCHANGED <<names, dir, call, blk, cur, put, idx, nameTemp, dataBuff>>
      /\ data' = [data EXCEPT ![blk] = Program(@, cur.off, put.bytes)]
  BY DEF PutData, volatile
<1>1. \A b \in Blocks, s \in Slots : names[b][s].flag # "blank" => Reads(b, s)' = Reads(b, s)
  <2> SUFFICES ASSUME NEW b \in Blocks, NEW s \in Slots, names[b][s].flag # "blank"
               PROVE  Reads(b, s)' = Reads(b, s)
    OBVIOUS
  <2>1. KeepsRecord(b, s)
    BY <1>0, ProgramKeeps DEF Whole, Inv, TypeOK
  <2> QED BY <1>0, <2>1, ReadsKept DEF KeepsRecord, Whole
<1>2. \A b \in Blocks : Owner(b)' = Owner(b)
  BY <1>0 DEF Owner
<1>3. ASSUME NEW k
      PROVE  (Same(k) => Same(k)') /\ (Gone(k) => Gone(k)')
  <2>1. \A b \in Blocks, s \in Slots : /\ At(k, b, s)' <=> At(k, b, s)
                                       /\ At(k, b, s) => Reads(b, s)' = Reads(b, s)
    BY <1>0, <1>1, <1>2 DEF At
  <2> QED BY <2>1, KeyKept
<1>4. KeysInv'
  <2>1. OwnKey' = OwnKey
    BY <1>0 DEF OwnKey
  <2>2. OwnDropped => OwnDropped'
    BY <1>3, <2>1 DEF OwnDropped
  <2> QED BY <1>0, <1>3, <2>2 DEF Whole, HistInv, KeysInv, Appending, Copying
<1>5. PutInv'
  <2>1. /\ cur.off \in Nat /\ put.bytes \in Seq(Bytes) /\ cur.off + Len(put.bytes) < SectorSize
        /\ blk \in Blocks /\ data \in [Blocks -> [Cells -> Bytes]]
    BY <1>0 DEF Whole, Inv, TypeOK, PutsAreFree, PutFree
  <2>2. \A c \in Cells : c >= cur.off /\ c < cur.off + Len(put.bytes) => data[blk][c] = Bits
    BY <1>0, PutsErased DEF Whole, PutsIntoErasedCells
  <2>3. ReadCells(Program(data[blk], cur.off, put.bytes), cur.off, Len(put.bytes)) = put.bytes
    BY <2>1, <2>2, ProgramErased
  <2>4. data'[blk'] = Program(data[blk], cur.off, put.bytes)
    BY <1>0, <2>1
  <2> QED BY <1>0, <2>3, <2>4 DEF Whole, HistInv, PutInv, Appending, NewPut
<1>6. CopiesInv'
  <2>1. blk \in Blocks
    BY DEF Whole, Inv, TypeOK
  <2>2. \A s, t \in Slots : Copies(s, t)' <=> Copies(s, t)
    BY <1>0, <1>1, <2>1 DEF Copies, TempReads
  <2>3. idx' = idx /\ (Copying' <=> Copying)
    BY <1>0 DEF Copying
  <2>4. Copying => Copied(idx - 1)'
    BY <1>0, <2>2 DEF Whole, HistInv, CopiesInv, Copied
  <2> QED BY <1>0, <2>3, <2>4
          DEF Whole, HistInv, CopiesInv, GoneTemp, SameTemp, AtTemp, TempReads, OwnKey
<1>7. NamesInv'
  BY <1>0 DEF Whole, HistInv, NamesInv, UniqueNames, Copying
<1> QED BY <1>4, <1>5, <1>6, <1>7 DEF HistInv

\* A record makes its value readable, and leaves every other one alone.
LEMMA PutRecordFacts ==
    ASSUME Whole, PutRecord
    PROVE  /\ blk \in Blocks /\ cur.slot \in Slots
           /\ names[blk][cur.slot].flag = "blank"
           /\ \A b \in Blocks, s \in Slots :
                 IF b = blk /\ s = cur.slot
                 THEN /\ names'[b][s].flag = "using" /\ names'[b][s].name = put.name
                      /\ Reads(b, s)' = put.bytes
                 ELSE names'[b][s] = names[b][s] /\ Reads(b, s)' = Reads(b, s)
<1>1. /\ names \in [Blocks -> [Slots -> NameRecords]] /\ blk \in Blocks
      /\ cur.slot \in Slots /\ names[blk][cur.slot].flag = "blank"
  BY DEF PutRecord, Whole, Inv, TypeOK, PutsAreFree, PutFree
<1>2. /\ names' = [names EXCEPT ![blk][cur.slot] = Record(cur.off, Len(put.bytes), put.name)]
      /\ UNCHANGED data /\ pc = "put_record"
  BY DEF PutRecord
<1>3. ReadCells(data[blk], cur.off, Len(put.bytes)) = put.bytes
  BY <1>2 DEF Whole, HistInv, PutInv
<1>4. ASSUME NEW b \in Blocks, NEW s \in Slots, b = blk, s = cur.slot
      PROVE  /\ names'[b][s].flag = "using" /\ names'[b][s].name = put.name
             /\ Reads(b, s)' = put.bytes
  <2>1. names'[b][s] = Record(cur.off, Len(put.bytes), put.name)
    BY <1>1, <1>2, <1>4
  <2> QED BY <1>2, <1>3, <1>4, <2>1 DEF Record, Reads
<1>5. ASSUME NEW b \in Blocks, NEW s \in Slots, ~(b = blk /\ s = cur.slot)
      PROVE  names'[b][s] = names[b][s] /\ Reads(b, s)' = Reads(b, s)
  <2>1. names'[b][s] = names[b][s]
    BY <1>1, <1>2, <1>5
  <2> QED BY <1>2, <2>1 DEF Reads
<1> QED BY <1>1, <1>4, <1>5

\* The call's key has the value of the call, the others what they had.
OwnWritten ==
    /\ \E b \in Blocks, s \in Slots : At(OwnKey, b, s) /\ Reads(b, s) = call.val
    /\ \A k \in Keys \ {OwnKey} : Same(k)

\* The record of an appended value ends the call with the value in place.
LEMMA HistAppended ==
    ASSUME Whole, UNCHANGED before, PutRecord, idx = 0
    PROVE  HistInv' /\ OwnWritten'
<1>0. /\ pc = "put_record" /\ pc' = "return" /\ UNCHANGED <<dir, call, blk>>
      /\ put = NewPut /\ OwnDropped
  BY DEF PutRecord, Finish, Whole, HistInv, PutInv, KeysInv, Appending
<1>1. /\ blk \in Blocks /\ cur.slot \in Slots
      /\ names[blk][cur.slot].flag = "blank"
      /\ \A b \in Blocks, s \in Slots :
            IF b = blk /\ s = cur.slot
            THEN /\ names'[b][s].flag = "using" /\ names'[b][s].name = put.name
                 /\ Reads(b, s)' = put.bytes
            ELSE names'[b][s] = names[b][s] /\ Reads(b, s)' = Reads(b, s)
  BY PutRecordFacts
<1>2. /\ Owner(blk) = call.ns /\ \A b \in Blocks : Owner(b) = call.ns => b = blk
  BY <1>0, CallBlock DEF InBlock
<1>3. OwnKey' = OwnKey /\ \A b \in Blocks : Owner(b)' = Owner(b)
  BY <1>0 DEF OwnKey, Owner
<1> PICK own \in Blocks, slot \in Slots : own = blk /\ slot = cur.slot
  BY <1>1
<1>4. At(OwnKey, own, slot)' /\ Reads(own, slot)' = call.val
  <2>1. Owner(own)' = call.ns /\ OwnKey'.ns = call.ns /\ OwnKey'.name = call.name
    BY <1>2, <1>3 DEF OwnKey
  <2>2. /\ names'[own][slot].flag = "using" /\ names'[own][slot].name = call.name
        /\ Reads(own, slot)' = call.val
    BY <1>0, <1>1 DEF NewPut
  <2> QED BY <2>1, <2>2 DEF At
<1>5. ASSUME NEW k \in Keys \ {OwnKey}
      PROVE  Same(k)'
  <2>1. ~(call.ns = k.ns /\ call.name = k.name)
    BY KeysLemma DEF OwnKey
  <2>2. \A b \in Blocks, s \in Slots : /\ At(k, b, s)' <=> At(k, b, s)
                                       /\ At(k, b, s) => Reads(b, s)' = Reads(b, s)
    <3> SUFFICES ASSUME NEW b \in Blocks, NEW s \in Slots
                 PROVE  /\ At(k, b, s)' <=> At(k, b, s)
                        /\ At(k, b, s) => Reads(b, s)' = Reads(b, s)
      OBVIOUS
    <3>1. CASE b = blk /\ s = cur.slot
      <4>1. ~At(k, b, s)
        BY <1>1, <3>1 DEF At
      <4>2. ~At(k, b, s)'
        BY <1>0, <1>1, <1>2, <1>3, <2>1, <3>1 DEF At, NewPut
      <4> QED BY <4>1, <4>2
    <3>2. CASE ~(b = blk /\ s = cur.slot)
      BY <1>1, <1>3, <3>2 DEF At
    <3> QED BY <3>1, <3>2
  <2>3. Same(k) => Same(k)'
    BY <2>2, KeyKept
  <2> QED BY <1>0, <2>3 DEF OwnDropped
<1>6. \A b \in Blocks : UniqueNames(names'[b])
  <2> SUFFICES ASSUME NEW b \in Blocks, NEW s \in Slots, NEW t \in Slots,
                      names'[b][s].flag = "using", names'[b][t].flag = "using",
                      names'[b][s].name = names'[b][t].name
               PROVE  s = t
    BY DEF UniqueNames
  <2>1. \A u \in Slots : ~(names[blk][u].flag = "using" /\ names[blk][u].name = call.name)
    BY <1>0, <1>1, <1>2 DEF OwnDropped, Gone, At, OwnKey
  <2>2. UniqueNames(names[b])
    BY DEF Whole, HistInv, NamesInv
  <2>3. CASE b = blk /\ (s = cur.slot \/ t = cur.slot)
    BY <1>0, <1>1, <2>1, <2>3 DEF NewPut
  <2>4. CASE ~(b = blk /\ (s = cur.slot \/ t = cur.slot))
    BY <1>1, <2>2, <2>4 DEF UniqueNames
  <2> QED BY <2>3, <2>4
<1>7. OwnWritten'
  BY <1>0, <1>3, <1>4, <1>5 DEF OwnWritten
<1> QED BY <1>0, <1>6, <1>7, HistOver

\* The record of a copied value brings the copy one record further.
LEMMA HistCopied ==
    ASSUME Whole, UNCHANGED before, PutRecord, idx # 0
    PROVE  HistInv'
<1>0. /\ pc = "put_record" /\ pc' = "re_loop" /\ Copying
      /\ UNCHANGED <<dir, call, blk, idx, nameTemp, dataBuff, put>>
  BY DEF PutRecord, Copying
<1>1. /\ blk \in Blocks /\ cur.slot \in Slots
      /\ names[blk][cur.slot].flag = "blank"
      /\ \A b \in Blocks, s \in Slots :
            IF b = blk /\ s = cur.slot
            THEN /\ names'[b][s].flag = "using" /\ names'[b][s].name = put.name
                 /\ Reads(b, s)' = put.bytes
            ELSE names'[b][s] = names[b][s] /\ Reads(b, s)' = Reads(b, s)
  BY PutRecordFacts
<1>2. /\ Owner(blk) = call.ns /\ \A b \in Blocks : Owner(b) = call.ns => b = blk
  BY <1>0, CallBlock DEF InBlock
<1>3. \A b \in Blocks : Owner(b)' = Owner(b)
  BY <1>0 DEF Owner
<1>4. /\ Copied(idx - 1) /\ nameTemp[idx - 1].flag = "using" /\ UniqueNames(nameTemp)
      /\ put.name = nameTemp[idx - 1].name /\ put.bytes = TempReads(idx - 1)
      /\ idx - 1 \in Slots /\ idx \in Nat
  BY <1>0, SizesAssumption DEF Whole, HistInv, CopiesInv, NamesInv, Inv, CopyInv, Putting, Slots
<1>5. \A t \in Slots : (t < idx <=> t < idx - 1 \/ t = idx - 1) /\ t \in Int
  BY <1>4 DEF Slots
<1> PICK slot \in Slots, last \in Slots : slot = cur.slot /\ last = idx - 1
  BY <1>1, <1>4
<1>6. /\ \A s, t \in Slots : s # slot => (Copies(s, t)' <=> Copies(s, t))
      /\ \A t \in Slots : ~Copies(slot, t)
      /\ Copies(slot, last)'
  <2>1. \A t \in Slots : TempReads(t)' = TempReads(t) /\ nameTemp'[t] = nameTemp[t]
    BY <1>0 DEF TempReads
  <2>2. ASSUME NEW s \in Slots, NEW t \in Slots, s # slot
        PROVE  Copies(s, t)' <=> Copies(s, t)
    <3>1. names'[blk][s] = names[blk][s] /\ Reads(blk, s)' = Reads(blk, s)
      <4>1. PICK own \in Blocks : own = blk
        BY <1>1
      <4>2. names'[own][s] = names[own][s] /\ Reads(own, s)' = Reads(own, s)
        BY <1>1, <2>2, <4>1
      <4> QED BY <1>0, <4>1, <4>2
    <3> QED BY <1>0, <2>1, <3>1 DEF Copies
  <2>3. Copies(slot, last)'
    <3>1. PICK own \in Blocks : own = blk
      BY <1>1
    <3>2. /\ names'[own][slot].flag = "using" /\ names'[own][slot].name = put.name
          /\ Reads(own, slot)' = put.bytes
      BY <1>1, <3>1
    <3> QED BY <1>0, <1>4, <2>1, <3>1, <3>2 DEF Copies
  <2> QED BY <1>1, <2>2, <2>3 DEF Copies
<1>7. Copied(idx)'
  <2>1. ASSUME NEW s \in Slots, names'[blk][s].flag = "using"
        PROVE  \E t \in Slots : t < idx /\ Copies(s, t)'
    <3>1. CASE s = slot
      BY <1>4, <1>5, <1>6, <3>1
    <3>2. CASE s # slot
      BY <1>1, <1>4, <1>5, <1>6, <2>1, <3>2 DEF Copied
    <3> QED BY <3>1, <3>2
  <2>2. ASSUME NEW t \in Slots, t < idx, nameTemp[t].flag = "using"
        PROVE  \E s \in Slots : Copies(s, t)'
    <3>1. CASE t = idx - 1
      BY <1>1, <1>6, <3>1
    <3>2. CASE t # idx - 1
      <4>1. PICK s \in Slots : Copies(s, t)
        BY <1>4, <1>5, <2>2, <3>2 DEF Copied
      <4> QED BY <1>6, <4>1
    <3> QED BY <3>1, <3>2
  <2> QED BY <1>0, <2>1, <2>2 DEF Copied
<1>8. \A b \in Blocks : UniqueNames(names'[b])
  <2> SUFFICES ASSUME NEW b \in Blocks, NEW s \in Slots, NEW t \in Slots,
                      names'[b][s].flag = "using", names'[b][t].flag = "using",
                      names'[b][s].name = names'[b][t].name
               PROVE  s = t
    BY DEF UniqueNames
  <2>1. ASSUME NEW u \in Slots, names[blk][u].flag = "using", names[blk][u].name = put.name
        PROVE  FALSE
    <3>1. PICK v \in Slots : v < idx - 1 /\ Copies(u, v)
      BY <1>4, <2>1 DEF Copied
    <3>2. v = idx - 1
      BY <1>4, <2>1, <3>1 DEF Copies, UniqueNames
    <3> QED BY <1>4, <3>1, <3>2
  <2>2. UniqueNames(names[b])
    BY DEF Whole, HistInv, NamesInv
  <2>3. CASE b = blk /\ (s = cur.slot \/ t = cur.slot)
    BY <1>1, <2>1, <2>3
  <2>4. CASE ~(b = blk /\ (s = cur.slot \/ t = cur.slot))
    BY <1>1, <2>2, <2>4 DEF UniqueNames
  <2> QED BY <2>3, <2>4
<1>9. ASSUME NEW k \in Keys, k.ns # call.ns
      PROVE  Same(k)'
  <2>1. Same(k)
    BY <1>0, <1>9 DEF Whole, HistInv, KeysInv
  <2>2. \A b \in Blocks, s \in Slots : /\ At(k, b, s)' <=> At(k, b, s)
                                       /\ At(k, b, s) => Reads(b, s)' = Reads(b, s)
    <3> SUFFICES ASSUME NEW b \in Blocks, NEW s \in Slots
                 PROVE  /\ At(k, b, s)' <=> At(k, b, s)
                        /\ At(k, b, s) => Reads(b, s)' = Reads(b, s)
      OBVIOUS
    <3>1. CASE b = blk
      BY <1>2, <1>3, <1>9, <3>1 DEF At
    <3>2. CASE b # blk
      BY <1>1, <1>3, <3>2 DEF At
    <3> QED BY <3>1, <3>2
  <2> QED BY <2>1, <2>2, KeyKept
<1>10. KeysInv'
  BY <1>0, <1>9 DEF KeysInv, Appending, Copying
<1>11. CopiesInv'
  BY <1>0, <1>7 DEF Whole, HistInv, CopiesInv, Copying, GoneTemp, SameTemp, AtTemp, TempReads, OwnKey
<1>12. NamesInv' /\ PutInv'
  BY <1>0, <1>4, <1>8 DEF NamesInv, PutInv, Appending, UniqueNames
<1> QED BY <1>10, <1>11, <1>12 DEF HistInv

\* The two erasures of a compaction leave the other namespaces alone.
LEMMA HistReErase ==
    ASSUME Whole, UNCHANGED before, EraseNames \/ EraseData
    PROVE  HistInv'
<1>0. /\ pc \in {"re_names", "re_data"} /\ UNCHANGED <<dir, call, blk, nameTemp, dataBuff>>
      /\ blk \in Blocks /\ names \in [Blocks -> [Slots -> NameRecords]]
      /\ data \in [Blocks -> [Cells -> Bytes]]
      /\ pc' = IF pc = "re_names" THEN "re_data" ELSE "re_loop"
  BY DEF EraseNames, EraseData, volatile, Whole, Inv, TypeOK
<1>1. /\ Owner(blk) = call.ns /\ \A b \in Blocks : Owner(b)' = Owner(b)
      /\ \A b \in Blocks : b # blk => names'[b] = names[b] /\ data'[b] = data[b]
  <2>1. Owner(blk) = call.ns
    BY <1>0, CallBlock DEF InBlock
  <2>2. \A b \in Blocks : Owner(b)' = Owner(b)
    BY <1>0 DEF Owner
  <2>3. \A b \in Blocks : b # blk => names'[b] = names[b] /\ data'[b] = data[b]
    BY <1>0 DEF EraseNames, EraseData
  <2> QED BY <2>1, <2>2, <2>3
<1>2. ASSUME NEW k \in Keys, k.ns # call.ns
      PROVE  Same(k)'
  <2>1. Same(k)
    BY <1>0, <1>2, KeysLemma DEF Whole, HistInv, KeysInv, OwnDropped, OwnKey
  <2>2. \A b \in Blocks : Owner(b) = k.ns => names'[b] = names[b] /\ data'[b] = data[b]
    BY <1>1, <1>2
  <2> QED BY <1>1, <2>1, <2>2, OthersKept
<1>3. KeysInv'
  BY <1>0, <1>2 DEF KeysInv, Appending, Copying
<1>4. \A s \in Slots : names'[blk][s].flag # "using"
  <2>1. names'[blk] = ErasedNames
    BY <1>0 DEF EraseNames, EraseData, Whole, Inv, EraseInv
  <2> QED BY <2>1, ErasedLemma
<1>5. NamesInv'
  <2>1. \A b \in Blocks : UniqueNames(names'[b])
    BY <1>1, <1>4 DEF Whole, HistInv, NamesInv, UniqueNames
  <2> QED BY <1>0, <2>1 DEF Whole, HistInv, NamesInv, UniqueNames, Copying
<1>6. CopiesInv'
  <2>1. pc' = "re_loop" => Copied(idx)'
    <3>1. pc' = "re_loop" => idx' = 1
      BY <1>0 DEF EraseNames, EraseData
    <3>2. \A t \in Slots : ~(t < 1)
      BY DEF Slots
    <3> QED BY <1>0, <1>4, <3>1, <3>2 DEF Copied
  <2> QED BY <1>0, <2>1
          DEF Whole, HistInv, CopiesInv, Copying, GoneTemp, SameTemp, AtTemp, TempReads, OwnKey
<1>7. PutInv'
  BY <1>0 DEF PutInv, Appending
<1> QED BY <1>3, <1>5, <1>6, <1>7 DEF HistInv

\* The next record of the copy is taken up, or skipped when it is not in use.
LEMMA HistReCopy ==
    ASSUME Whole, UNCHANGED before, ReorganizeCopy
    PROVE  HistInv'
<1>0. /\ pc = "re_loop" /\ idx \in Slots /\ idx' = idx + 1 /\ idx + 1 # 0 /\ idx + 1 - 1 = idx
      /\ UNCHANGED <<dir, names, data, call, blk, nameTemp, dataBuff>>
      /\ pc' = IF nameTemp[idx].flag = "using" THEN "put_data" ELSE "re_loop"
      /\ nameTemp[idx].flag = "using" =>
            put' = [name |-> nameTemp[idx].name, bytes |-> TempReads(idx)]
  BY SizesAssumption
     DEF ReorganizeCopy, TempReads, flash, Slots, Whole, Inv, TypeOK, CopyInv
<1>1. \A k : Same(k) => Same(k)'
  <2>1. \A b \in Blocks : Owner(b)' = Owner(b)
    BY <1>0 DEF Owner
  <2> QED BY <1>0, <2>1, AllKept
<1>2. KeysInv'
  BY <1>0, <1>1 DEF Whole, HistInv, KeysInv, Appending, Copying
<1>3. NamesInv'
  BY <1>0 DEF Whole, HistInv, NamesInv, UniqueNames, Copying
<1>4. PutInv'
  BY <1>0 DEF PutInv, Appending
<1>5. CopiesInv'
  <2>1. Copied(idx) /\ \A s, t \in Slots : Copies(s, t)' <=> Copies(s, t)
    BY <1>0 DEF Whole, HistInv, CopiesInv, Copies, Reads, TempReads
  <2>2. /\ GoneTemp(OwnKey)'
        /\ \A k \in Keys : k # OwnKey' /\ k.ns = call'.ns => SameTemp(k)'
    BY <1>0 DEF Whole, HistInv, CopiesInv, GoneTemp, SameTemp, AtTemp, TempReads, OwnKey
  <2>3. CASE nameTemp[idx].flag = "using"
    <3> PICK i \in Slots : i = idx
      BY <1>0
    <3>1. idx' - 1 = i /\ idx' # 0 /\ pc' = "put_data"
      <4>1. idx' - 1 = i /\ idx' # 0
        BY <1>0 DEF Slots
      <4> QED BY <1>0, <2>3, <4>1
    <3>2. Copied(i)'
      BY <1>0, <2>1 DEF Copied
    <3>3. /\ nameTemp'[i].flag = "using" /\ put'.name = nameTemp'[i].name
          /\ put'.bytes = TempReads(i)'
      BY <1>0, <2>3 DEF TempReads
    <3> QED BY <2>2, <3>1, <3>2, <3>3 DEF CopiesInv, Copied, TempReads
  <2>4. CASE nameTemp[idx].flag # "using"
    <3>1. \A t \in Slots : t < idx + 1 <=> t < idx \/ t = idx
      BY <1>0 DEF Slots
    <3>2. Copied(idx)'
      BY <1>0, <2>1, <2>4, <3>1 DEF Copied, Copies
    <3> QED BY <1>0, <2>2, <2>4, <3>2 DEF CopiesInv, Copying
  <2> QED BY <2>3, <2>4
<1> QED BY <1>2, <1>3, <1>4, <1>5 DEF HistInv

\* After the last record every key of the namespace but the call's is back.
LEMMA CopyDone ==
    ASSUME Whole, pc = "re_loop", idx > NumSlots
    PROVE  OwnDropped
<1>0. /\ idx \in Nat /\ \A s \in Slots : s < idx
      /\ Copied(idx) /\ GoneTemp(OwnKey)
      /\ Owner(blk) = call.ns /\ blk \in Blocks
      /\ \A b \in Blocks : Owner(b) = call.ns => b = blk
  BY SizesAssumption, CallBlock DEF Whole, Inv, TypeOK, HistInv, CopiesInv, InBlock, Slots
<1>1. Gone(OwnKey)
  <2> SUFFICES ASSUME NEW b \in Blocks, NEW s \in Slots, At(OwnKey, b, s) PROVE FALSE
    BY DEF Gone
  <2>1. b = blk /\ names[blk][s].flag = "using" /\ names[blk][s].name = call.name
    BY <1>0 DEF At, OwnKey
  <2>2. PICK t \in Slots : Copies(s, t)
    BY <1>0, <2>1 DEF Copied
  <2> QED BY <1>0, <2>1, <2>2 DEF GoneTemp, AtTemp, Copies, OwnKey
<1>2. ASSUME NEW k \in Keys \ {OwnKey}
      PROVE  Same(k)
  <2>1. CASE k.ns # call.ns
    BY <2>1 DEF Whole, HistInv, KeysInv
  <2>2. CASE k.ns = call.ns
    <3>1. SameTemp(k)
      BY <2>2 DEF Whole, HistInv, CopiesInv
    <3>2. CASE before[k] = Absent
      <4> SUFFICES ASSUME NEW b \in Blocks, NEW s \in Slots, At(k, b, s) PROVE FALSE
        BY <3>2 DEF Same, Gone
      <4>1. b = blk /\ names[blk][s].flag = "using" /\ names[blk][s].name = k.name
        BY <1>0, <2>2 DEF At
      <4>2. PICK t \in Slots : Copies(s, t)
        BY <1>0, <4>1 DEF Copied
      <4> QED BY <3>1, <3>2, <4>1, <4>2 DEF SameTemp, GoneTemp, AtTemp, Copies
    <3>3. CASE before[k] # Absent
      <4>1. PICK t \in Slots : AtTemp(k, t) /\ before[k] = TempReads(t)
        BY <3>1, <3>3 DEF SameTemp
      <4>2. PICK s \in Slots : Copies(s, t)
        BY <1>0, <4>1 DEF Copied, AtTemp
      <4>3. At(k, blk, s) /\ before[k] = Reads(blk, s)
        BY <1>0, <2>2, <4>1, <4>2 DEF At, AtTemp, Copies
      <4> QED BY <1>0, <3>3, <4>3 DEF Same
    <3> QED BY <3>2, <3>3
  <2> QED BY <2>1, <2>2
<1> QED BY <1>1, <1>2 DEF OwnDropped

\* The compaction over, the value is appended like any other.
LEMMA HistRePut ==
    ASSUME Whole, UNCHANGED before, ReorganizePut
    PROVE  HistInv'
<1>0. /\ pc = "re_loop" /\ idx > NumSlots /\ pc' = "put_data" /\ idx' = 0 /\ put' = NewPut
      /\ UNCHANGED <<dir, names, data, call, blk>>
  BY DEF ReorganizePut, flash
<1>1. OwnDropped
  BY <1>0, CopyDone
<1>2. OwnDropped'
  <2>1. \A b \in Blocks : Owner(b)' = Owner(b)
    BY <1>0 DEF Owner
  <2>2. OwnKey' = OwnKey
    BY <1>0 DEF OwnKey
  <2> QED BY <1>0, <1>1, <2>1, <2>2, AllKept DEF OwnDropped
<1>3. KeysInv'
  BY <1>0, <1>2 DEF KeysInv, Appending, Copying
<1>4. NamesInv' /\ CopiesInv' /\ PutInv'
  BY <1>0 DEF Whole, HistInv, NamesInv, UniqueNames, CopiesInv, PutInv, Appending, Copying, NewPut
<1> QED BY <1>3, <1>4 DEF HistInv

\* The call's namespace is cleared, every other key reads as before.
Cleared == \A k \in Keys : IF k.ns = call.ns THEN Gone(k) ELSE Same(k)

\* Clearing a namespace erases its block, and takes only its entry away.
LEMMA HistClear ==
    ASSUME Whole, UNCHANGED before, ClearNames \/ ClearData \/ ClearDir \/ ClearRewrite \/ ClearDone
    PROVE  HistInv' /\ Cleared'
<1>0. /\ pc \in {"clear_names", "clear_data", "clear_dir", "clear_loop"}
      /\ pc' \in {"clear_data", "clear_dir", "clear_loop", "return"}
      /\ UNCHANGED call
      /\ blk \in Blocks /\ names \in [Blocks -> [Slots -> NameRecords]]
      /\ data \in [Blocks -> [Cells -> Bytes]] /\ dir \in [Blocks -> Entries]
      /\ nsTemp \in [Blocks -> Entries] /\ idx \in Nat
  BY DEF ClearNames, ClearData, ClearDir, ClearRewrite, ClearDone, Finish, volatile,
         Whole, Inv, TypeOK
<1>1. Cleared'
  <2>1. CASE ClearNames \/ ClearData
    <3>1. /\ pc \in {"clear_names", "clear_data"} /\ pc' # "clear_loop"
          /\ UNCHANGED <<dir, blk>> /\ names'[blk] = ErasedNames
          /\ \A b \in Blocks : b # blk => names'[b] = names[b] /\ data'[b] = data[b]
      BY <1>0, <2>1 DEF ClearNames, ClearData, volatile, Whole, Inv, EraseInv
    <3>2. /\ Owner(blk) = call.ns /\ \A b \in Blocks : Owner(b) = call.ns => b = blk
          /\ \A b \in Blocks : Owner(b)' = Owner(b)
      <4>1. /\ Owner(blk) = call.ns /\ \A b \in Blocks : Owner(b) = call.ns => b = blk
        BY <3>1, CallBlock DEF InBlock
      <4> QED BY <3>1, <4>1 DEF Owner
    <3>3. ASSUME NEW k \in Keys, k.ns = call.ns
          PROVE  Gone(k)'
      <4> SUFFICES ASSUME NEW b \in Blocks, NEW s \in Slots, At(k, b, s)' PROVE FALSE
        BY DEF Gone
      <4>1. b = blk /\ names'[b][s].flag = "using"
        BY <3>2, <3>3 DEF At
      <4> QED BY <3>1, <4>1, ErasedLemma
    <3>4. ASSUME NEW k \in Keys, k.ns # call.ns
          PROVE  Same(k)'
      <4>1. Same(k)
        BY <3>1, <3>4 DEF Whole, HistInv, KeysInv, Untouched
      <4>2. \A b \in Blocks : Owner(b) = k.ns => names'[b] = names[b] /\ data'[b] = data[b]
        BY <3>1, <3>2, <3>4
      <4> QED BY <3>2, <4>1, <4>2, OthersKept
    <3> QED BY <1>0, <3>3, <3>4 DEF Cleared
  <2>2. CASE ClearDir
    <3>1. /\ pc = "clear_dir" /\ pc' = "clear_loop" /\ UNCHANGED <<names, data>>
          /\ dir' = [b \in Blocks |-> IF b \in MatterBlocks THEN Blank ELSE dir[b]]
          /\ nsTemp' = [nsTemp EXCEPT ![blk] = Blank] /\ nsTemp = dir
          /\ names[blk] = ErasedNames
      BY <2>2 DEF ClearDir, Whole, DirInv, CallInv
    <3>2. \A b \in Blocks : b # blk => Owner(b)' = Owner(b)
      BY <1>0, <3>1 DEF Owner
    <3>3. \A b \in Blocks : \A s \in Slots : b = blk => names[b][s].flag # "using"
      BY <3>1, ErasedLemma
    <3>4. ASSUME NEW k, NEW b \in Blocks, NEW s \in Slots
          PROVE  (At(k, b, s)' <=> At(k, b, s)) /\ Reads(b, s)' = Reads(b, s)
      <4>1. Reads(b, s)' = Reads(b, s) /\ names'[b][s] = names[b][s]
        BY <3>1 DEF Reads
      <4>2. CASE b = blk
        BY <3>3, <4>1, <4>2 DEF At
      <4>3. CASE b # blk
        BY <3>2, <4>1, <4>3 DEF At
      <4> QED BY <4>1, <4>2, <4>3
    <3>5. \A k : (Same(k) => Same(k)') /\ (Gone(k) => Gone(k)')
      BY <3>4, KeyKept
    <3> QED BY <1>0, <3>1, <3>5 DEF Whole, HistInv, KeysInv, Cleared
  <2>3. CASE ClearRewrite \/ ClearDone
    <3>1. /\ pc = "clear_loop" /\ UNCHANGED <<names, data, nsTemp>>
          /\ \A b \in Blocks \ MatterBlocks : dir'[b] = dir[b]
      <4>1. idx \in 1 .. NumBlocks + 1
        BY <2>3 DEF ClearRewrite, ClearDone, Whole, LoopInv
      <4> QED BY <1>0, <2>3, <4>1, SizesAssumption
              DEF ClearRewrite, ClearDone, flash, volatile, Blocks, MatterBlocks
    <3>2. pc' = "return" => \A b \in MatterBlocks : dir'[b] = nsTemp[b]
      <4> SUFFICES ASSUME pc' = "return", NEW b \in MatterBlocks PROVE dir'[b] = nsTemp[b]
        OBVIOUS
      <4>1. idx > NumBlocks /\ UNCHANGED dir
        BY <2>3 DEF ClearRewrite, ClearDone, flash
      <4>2. b < idx
        BY <1>0, <4>1, SizesAssumption DEF MatterBlocks
      <4> QED BY <3>1, <4>1, <4>2 DEF Whole, DirInv, RewriteInv
    <3>3. pc' \in {"clear_loop", "return"}
      BY <2>3 DEF ClearRewrite, ClearDone, Finish
    <3>4. \A b \in Blocks : Owner(b)' = Owner(b)
      BY <3>1, <3>2, <3>3 DEF Owner
    <3>5. \A k : (Same(k) => Same(k)') /\ (Gone(k) => Gone(k)')
      BY <3>1, <3>4, AllKept
    <3> QED BY <1>0, <3>1, <3>5 DEF Whole, HistInv, KeysInv, Cleared
  <2> QED BY <2>1, <2>2, <2>3
<1>2. \A b \in Blocks : UniqueNames(names'[b])
  <2>1. \A b \in Blocks : names'[b] \in {names[b], ErasedNames}
    BY <1>0 DEF ClearNames, ClearData, ClearDir, ClearRewrite, ClearDone, flash
  <2>2. UniqueNames(ErasedNames)
    BY ErasedLemma DEF UniqueNames
  <2> QED BY <2>1, <2>2 DEF Whole, HistInv, NamesInv
<1>3. KeysInv' /\ NamesInv' /\ CopiesInv' /\ PutInv'
  BY <1>0, <1>1, <1>2 DEF Cleared, KeysInv, NamesInv, UniqueNames, CopiesInv, PutInv, Appending, Copying
<1> QED BY <1>1, <1>3 DEF HistInv

\* Erasing the Matter partition leaves the factory's keys alone.
LEMMA HistErase ==
    ASSUME Whole, DirInv', UNCHANGED before, EraseSector \/ EraseDone
    PROVE  HistInv' /\ \A k \in Keys : k.ns = Factory => Same(k)'
<1>0. pc = "erase" /\ pc' \in {"erase", "return"}
  BY DEF EraseSector, EraseDone, Finish
<1>1. ASSUME NEW k \in Keys, k.ns = Factory
      PROVE  Same(k)'
  <2>1. Same(k)
    BY <1>0, <1>1 DEF Whole, HistInv, KeysInv
  <2>2. \A b \in Blocks : (Owner(b) = Factory \/ Owner(b)' = Factory) => b = 0
    <3>1. \A b \in BlocksOf(Factory) : b = 0
      BY DEF BlocksOf
    <3>2. Factory # Blank
      BY NamespacesAssumption, MarksAssumption
    <3> QED BY <3>1, <3>2 DEF Whole, DirInv, OwnersInv, BlocksOf
  <2>3. \A b \in Blocks : b = 0 => names'[b] = names[b] /\ data'[b] = data[b] /\ Owner(b)' = Owner(b)
    <3>1. \A b \in Blocks : b = 0 => b \notin MatterBlocks
      BY SizesAssumption DEF MatterBlocks
    <3> QED BY <1>0, <3>1 DEF EraseSector, EraseDone, flash, Owner
  <2>4. \A b \in Blocks, s \in Slots : /\ At(k, b, s)' <=> At(k, b, s)
                                       /\ At(k, b, s) => Reads(b, s)' = Reads(b, s)
    <3> SUFFICES ASSUME NEW b \in Blocks, NEW s \in Slots
                 PROVE  /\ At(k, b, s)' <=> At(k, b, s)
                        /\ At(k, b, s) => Reads(b, s)' = Reads(b, s)
      OBVIOUS
    <3>1. CASE b = 0
      <4>1. Owner(b)' = Owner(b) /\ names'[b] = names[b] /\ data'[b] = data[b]
        BY <2>3, <3>1
      <4> QED BY <4>1 DEF At, Reads
    <3>2. CASE b # 0
      BY <1>1, <2>2, <3>2 DEF At
    <3> QED BY <3>1, <3>2
  <2> QED BY <2>1, <2>4, KeyKept
<1>2. \A b \in Blocks : UniqueNames(names'[b])
  <2>1. \A b \in Blocks : names'[b] \in {names[b], ErasedNames}
    BY DEF EraseSector, EraseDone, flash
  <2>2. UniqueNames(ErasedNames)
    BY ErasedLemma DEF UniqueNames
  <2> QED BY <2>1, <2>2 DEF Whole, HistInv, NamesInv
<1>3. KeysInv' /\ NamesInv' /\ CopiesInv' /\ PutInv'
  BY <1>0, <1>1, <1>2 DEF KeysInv, NamesInv, UniqueNames, CopiesInv, PutInv, Appending, Copying
<1> QED BY <1>1, <1>3 DEF HistInv

\* Between its first step and its last a call remembers what it found.
LEMMA Remembered ==
    ASSUME Inv, HNext, Step, ~Return
    PROVE  pc \notin {"idle", "return"} /\ pc' # "idle" /\ UNCHANGED <<before, call>>
<1>1. pc \notin {"idle", "return"} /\ pc' # "idle" /\ UNCHANGED call
  <2>1. CASE \/ Refuse \/ GetNamespaceFound \/ GetNamespaceError
             \/ bk_set_namespace \/ bk_set_namespace_fails
    BY <2>1 DEF Refuse, GetNamespaceFound, GetNamespaceError, bk_set_namespace,
                bk_set_namespace_fails, Finish, volatile
  <2>2. CASE SetName \/ NewAddr \/ PutData \/ PutRecord \/ NameFound \/ NameError
    BY <2>2 DEF SetName, SetSameValue, MaskOldValue, NoOldValue, NewAddr, NewAddrDirect,
                NewAddrReorganize, NewAddrFails, PutData, PutRecord, NameFound, CleanName, ReadName, EnsureName, NameError, Finish,
                volatile
  <2>3. CASE Reorganize
    BY <2>3 DEF Reorganize, EraseNames, EraseData, ReorganizeCopy, ReorganizePut,
                ReorganizeFull, Finish, volatile
  <2>4. CASE Clear \/ EraseSector \/ EraseDone
    BY <2>4 DEF Clear, ClearNames, ClearData, ClearDir, ClearRewrite, ClearDone,
                EraseSector, EraseDone, Finish, volatile
  <2> QED BY <2>1, <2>2, <2>3, <2>4 DEF Step
<1> QED BY <1>1 DEF HNext

\* The steps that end a call without a write to the flash.
Idling == \/ Refuse \/ bk_set_namespace_fails \/ SetSameValue \/ NewAddrFails
          \/ ReorganizeFull \/ NameError
          \/ (NameFound /\ call.fn # "clean")

LEMMA IdlingFacts ==
    ASSUME Idling
    PROVE  UNCHANGED <<flash, call>> /\ pc' = "return" /\ pc \notin {"clear_loop", "idle"}
BY DEF Idling, Refuse, bk_set_namespace_fails, SetSameValue, NewAddrFails, ReorganizeFull,
       NameError, NameFound, CleanName, ReadName, EnsureName, Finish, flash, volatile

\* Every step of a call keeps what is known of the keys.
LEMMA HistStep ==
    ASSUME Whole, DirInv', [HNext]_hvars, losses' = 0, fails' = 0
    PROVE  HistInv'
<1>1. CASE UNCHANGED hvars
  BY <1>1 DEF hvars, vars, HistInv, Whole, NamesInv, UniqueNames, KeysInv, CopiesInv, PutInv, NewPut,
              Appending, Copying, Untouched, OwnDropped, OwnKey, Same, Gone, At, Owner, Reads,
              GoneTemp, SameTemp, AtTemp, TempReads, Copied, Copies
<1>2. CASE HNext /\ Call
  <2>1. pc = "idle" /\ pc' # "idle"
    BY <1>2, EnterFacts
  <2> QED BY <1>2, <2>1, HistEnter DEF HNext
<1>3. CASE Return
  BY <1>3, HistOver DEF Return, Forget, flash, Whole, HistInv, NamesInv
<1>4. CASE HNext /\ Step /\ ~Return
  <2>0. UNCHANGED before
    BY <1>4, Remembered DEF Whole
  <2>1. CASE GetNamespaceFound \/ GetNamespaceError \/ bk_set_namespace
    BY <2>0, <2>1, HistNamespace
  <2>2. CASE Idling
    BY <2>0, <2>2, IdlingFacts, HistFails
  <2>3. CASE MaskOldValue \/ NoOldValue
    BY <2>0, <2>3, HistSetName
  <2>4. CASE NewAddrDirect \/ NewAddrReorganize
    BY <2>0, <2>4, HistNewAddr
  <2>5. CASE PutData
    BY <2>0, <2>5, HistPutData
  <2>6. CASE PutRecord
    BY <2>0, <2>6, HistAppended, HistCopied
  <2>7. CASE EraseNames \/ EraseData
    BY <2>0, <2>7, HistReErase
  <2>8. CASE ReorganizeCopy \/ ReorganizePut
    BY <2>0, <2>8, HistReCopy, HistRePut
  <2>9. CASE NameFound /\ call.fn = "clean"
    <3>1. PICK m \in Slots : IsSlotOf(call.name, names[blk], m)
                             /\ names' = [names EXCEPT ![blk] = Masked(@, m)]
      BY <2>9 DEF NameFound, CleanName, ReadName, EnsureName
    <3>2. pc = "name" /\ pc' = "return" /\ UNCHANGED <<data, dir, call>>
      BY <2>9 DEF NameFound, CleanName, ReadName, EnsureName, Finish, volatile
    <3>3. \A b \in Blocks : UniqueNames(names'[b])
      BY <2>0, <3>1, <3>2, HistMask DEF IsSlotOf
    <3> QED BY <3>2, <3>3, HistOver
  <2>10. CASE ClearNames \/ ClearData \/ ClearDir \/ ClearRewrite \/ ClearDone
    BY <2>0, <2>10, HistClear
  <2>11. CASE EraseSector \/ EraseDone
    BY <2>0, <2>11, HistErase
  <2> QED BY <1>4, <2>1, <2>2, <2>3, <2>4, <2>5, <2>6, <2>7, <2>8, <2>9, <2>10, <2>11
          DEF Step, SetName, NewAddr, Reorganize, Clear, Idling
<1>5. ~PowerLoss
  BY DEF PowerLoss, Whole, Inv, TypeOK
<1> QED BY <1>1, <1>2, <1>3, <1>4, <1>5 DEF HNext, Next

-----------------------------------------------------------------------------
(* What is known of every state *)

\* Nothing was lost and nothing failed so far.
Powered == losses = 0 /\ fails = 0

Known == /\ Inv /\ LoopInv /\ FnInv /\ BeforeInv
         /\ Powered => ErasedInv /\ DirInv /\ HistInv

\* What a key reads as is in a record of its name, in a block of its namespace.
LEMMA StoredFrom ==
    ASSUME NEW k
    PROVE  \/ Stored(k) = Absent
           \/ \E b \in Blocks, s \in Slots :
                 /\ dir[b] = k.ns /\ names[b][s].flag = "using" /\ names[b][s].name = k.name
                 /\ Stored(k) = Reads(b, s)
<1>1. CASE \E b \in Blocks, s \in Slots : IsBlockOf(k.ns, b) /\ IsSlotOf(k.name, names[b], s)
  <2> DEFINE b == CHOOSE b \in Blocks : IsBlockOf(k.ns, b)
             s == CHOOSE s \in Slots : IsSlotOf(k.name, names[b], s)
  <2>1. Stored(k) = ReadCells(data[b], names[b][s].off, names[b][s].len)
    BY <1>1 DEF Stored
  <2>2. \A a, c \in Blocks : IsBlockOf(k.ns, a) /\ IsBlockOf(k.ns, c) => a = c
    <3>1. \A a \in BlocksOf(k.ns) : a \in Int
      BY SizesAssumption DEF BlocksOf, MatterBlocks
    <3> QED BY <3>1 DEF IsBlockOf
  <2>3. PICK a \in Blocks, t \in Slots : IsBlockOf(k.ns, a) /\ IsSlotOf(k.name, names[a], t)
    BY <1>1
  <2>4. b = a /\ b \in Blocks
    BY <2>2, <2>3
  <2>5. s \in Slots /\ IsSlotOf(k.name, names[b], s) /\ IsBlockOf(k.ns, b)
    BY <2>3, <2>4
  <2> HIDE DEF b, s
  <2> QED BY <2>1, <2>4, <2>5 DEF Reads, IsSlotOf, IsBlockOf
<1>2. CASE ~\E b \in Blocks, s \in Slots : IsBlockOf(k.ns, b) /\ IsSlotOf(k.name, names[b], s)
  BY <1>2 DEF Stored
<1> QED BY <1>1, <1>2

\* So it is a value or nothing.
LEMMA StoredType ==
    ASSUME Inv, NEW k
    PROVE  Stored(k) \in Seq(Bytes) \cup {Absent}
BY StoredFrom, ReadsLemma

\* The history variable is a map of the keys.
LEMMA BeforeStep ==
    ASSUME Inv, BeforeInv, [HNext]_hvars
    PROVE  BeforeInv'
<1>1. Contents \in [Keys -> Seq(Bytes) \cup {Absent}]
  BY StoredType DEF Contents
<1>2. NoContents \in [Keys -> Seq(Bytes) \cup {Absent}]
  BY DEF NoContents
<1>3. before' \in {before, Contents, NoContents}
  BY DEF HNext, hvars
<1> QED BY <1>1, <1>2, <1>3 DEF BeforeInv

\* An erased flash, and one with a record of the factory's.
LEMMA KnownInit == HInit => Known
<1> SUFFICES ASSUME HInit PROVE Known
  OBVIOUS
<1>1. Init /\ pc = "idle" /\ call = NoCall /\ rtn = "none" /\ out = Absent
  BY DEF HInit, Init
<1>2. Inv /\ LoopInv /\ ErasedInv /\ DirInv
  BY <1>1, InitInv, ErasedInit, DirInit DEF LoopInv
<1>3. FnInv
  BY <1>1 DEF FnInv, NoCall, InBlock, OwnKey
<1>4. BeforeInv
  BY DEF HInit, NoContents, BeforeInv
<1>5. HistInv
  <2>1. \A b \in Blocks, s, t \in Slots :
            names[b][s].flag = "using" /\ names[b][t].flag = "using" => s = t
    <3>1. CASE names = [b \in Blocks |-> ErasedNames]
      BY <3>1, ErasedLemma
    <3>2. ASSUME NEW a, NEW v, names = [b \in Blocks |-> IF b = 0
                             THEN [ErasedNames EXCEPT ![1] = Record(0, Len(v), a[2])]
                             ELSE ErasedNames]
          PROVE  \A b \in Blocks, s \in Slots : names[b][s].flag = "using" => s = 1
      BY <3>2, ErasedLemma DEF ErasedNames
    <3> QED BY <1>1, <3>1, <3>2 DEF Init
  <2>2. NamesInv
    BY <1>1, <2>1 DEF NamesInv, UniqueNames, Copying
  <2> QED BY <1>1, <2>2 DEF HistInv, KeysInv, CopiesInv, PutInv, Appending, Copying
<1> QED BY <1>2, <1>3, <1>4, <1>5 DEF Known

LEMMA KnownStep == Known /\ [HNext]_hvars => Known'
<1> SUFFICES ASSUME Known, [HNext]_hvars PROVE Known'
  OBVIOUS
<1>1. [Next]_vars
  BY DEF HNext, hvars
<1>2. Inv' /\ LoopInv' /\ FnInv' /\ BeforeInv'
  BY <1>1, NextInv, LoopStep, FnStep, BeforeStep DEF Known
<1>3. ASSUME Powered'
      PROVE  ErasedInv' /\ DirInv' /\ HistInv'
  <2>1. losses' = 0 /\ fails' = 0 /\ Powered
    BY <1>1, <1>3, CountersGrow DEF Powered, Known
  <2>2. ErasedInv' /\ DirInv'
    BY <1>1, <2>1, ErasedStep, DirStep DEF Known
  <2> QED BY <2>1, <2>2, HistStep DEF Known, Whole
<1> QED BY <1>2, <1>3 DEF Known

-----------------------------------------------------------------------------
(* Every step is a step of KvStore, or none *)

\* Contents of a state whose keys all read as f says.
LEMMA ContentsNext ==
    ASSUME NEW f, f = [k \in Keys |-> f[k]], \A k \in Keys : Stored(k)' = f[k]
    PROVE  Contents' = f
<1>1. Contents' = [k \in Keys |-> Stored(k)']
  BY DEF Contents
<1> QED BY <1>1

\* What the flash reads as at the end of a call that left each key alone or
\* dropped it.
LEMMA DroppedNext ==
    ASSUME Known', Powered', pc' = "return", UNCHANGED before, BeforeInv, NEW D \in SUBSET Keys,
           \A k \in Keys \ D : Same(k)', \A k \in D : Gone(k)'
    PROVE  Contents' = [k \in Keys |-> IF k \in D THEN Absent ELSE before[k]]
<1> DEFINE f == [k \in Keys |-> IF k \in D THEN Absent ELSE before[k]]
<1>1. Inv' /\ DirInv' /\ NamesInv' /\ pc' # "clear_loop"
  BY DEF Known, HistInv
<1>2. \A k \in Keys : Stored(k)' = f[k]
  BY <1>1, SameStoredNext
<1> QED BY <1>2, ContentsNext

LEMMA SameNext ==
    ASSUME Known', Powered', pc' = "return", UNCHANGED before, BeforeInv,
           \A k \in Keys : Same(k)'
    PROVE  Contents' = before
<1>1. Inv' /\ DirInv' /\ NamesInv' /\ pc' # "clear_loop"
  BY DEF Known, HistInv
<1>2. \A k \in Keys : Stored(k)' = before[k]
  BY <1>1, SameStoredNext
<1>3. before = [k \in Keys |-> before[k]]
  BY DEF BeforeInv
<1> QED BY <1>2, <1>3, ContentsNext

\* What a key read as when the call began, told from the flash as it is.
LEMMA BeforeIs ==
    ASSUME Whole, pc # "clear_loop", NEW k \in Keys, Same(k)
    PROVE  /\ Gone(k) => before[k] = Absent
           /\ \A b \in Blocks, s \in Slots : At(k, b, s) => before[k] = Reads(b, s) /\ before[k] # Absent
<1>1. Stored(k) = before[k] /\ (Gone(k) => Stored(k) = Absent)
  BY SameStored DEF Whole, HistInv
<1>2. \A b \in Blocks, s \in Slots : At(k, b, s) => Stored(k) = Reads(b, s)
  BY StoredLemma DEF Whole, HistInv
<1>3. \A b \in Blocks, s \in Slots : At(k, b, s) => Reads(b, s) # Absent
  BY ReadsLemma DEF At, Whole
<1> QED BY <1>1, <1>2, <1>3

\* The key of the call that has found its block, and that finds no record there.
LEMMA OwnAt ==
    ASSUME Whole, pc \in {"set_name", "name"}
    PROVE  /\ \A s \in Slots : IsSlotOf(call.name, names[blk], s) => blk \in Blocks /\ At(OwnKey, blk, s)
           /\ (\A s \in Slots : ~IsSlotOf(call.name, names[blk], s)) => Gone(OwnKey)
<1>1. /\ Owner(blk) = call.ns /\ blk \in Blocks
      /\ \A b \in Blocks : Owner(b) = call.ns => b = blk
  BY CallBlock DEF InBlock
<1>2. ASSUME NEW s \in Slots, IsSlotOf(call.name, names[blk], s)
      PROVE  At(OwnKey, blk, s)
  BY <1>1, <1>2 DEF At, OwnKey, IsSlotOf
<1>3. ASSUME \A s \in Slots : ~IsSlotOf(call.name, names[blk], s)
      PROVE  Gone(OwnKey)
  <2> SUFFICES ASSUME NEW b \in Blocks, NEW s \in Slots, At(OwnKey, b, s) PROVE FALSE
    BY DEF Gone
  <2>1. b = blk
    BY <1>1 DEF At, OwnKey
  <2> QED BY <1>3, <2>1, NoFirstSlot DEF At, OwnKey
<1> QED BY <1>1, <1>2, <1>3

\* A namespace that the directory does not have has no values.
LEMMA NoBlockGone ==
    ASSUME Whole, pc = "namespace", \A b \in Blocks : ~IsBlockOf(call.ns, b),
           NEW k \in Keys, k.ns = call.ns
    PROVE  before[k] = Absent
<1>1. Gone(k)
  <2> SUFFICES ASSUME NEW b \in Blocks, NEW s \in Slots, At(k, b, s) PROVE FALSE
    BY DEF Gone
  <2>1. dir[b] = call.ns /\ Owner(b) = call.ns /\ Owner(b) # Blank
    BY OwnerDir, KeysLemma DEF At
  <2>2. b \in BlocksOf(call.ns)
    BY <2>1 DEF Whole, DirInv, OwnersInv
  <2> QED BY <2>1, <2>2, NoFirstBlock
<1>2. Same(k)
  BY DEF Whole, HistInv, KeysInv, Untouched
<1> QED BY <1>1, <1>2, BeforeIs

\* What the call under way is about: a call is one of its own functions.
LEMMA OwnIn ==
    ASSUME FnInv, call.fn \in {"write", "clean", "read", "exists"}
    PROVE  OwnKey \in Keys
BY DEF FnInv

\* Before and after a step nothing was lost and nothing has failed.
Calm == Known /\ Powered /\ Known' /\ Powered'

LEMMA CalmWhole == Calm => Whole /\ BeforeInv
BY DEF Calm, Known, Whole

\* The functions that look at the flash no further.
LEMMA RefuseMaps ==
    ASSUME Calm, UNCHANGED before, Refuse
    PROVE  Kv!Next
<1>0. Whole /\ BeforeInv
  BY CalmWhole
<1>1. /\ pc = "refused" /\ pc' = "return" /\ rtn = "none" /\ rtn' = "err"
      /\ UNCHANGED <<flash, call, out>>
  BY <1>0 DEF Refuse, Finish, volatile, Whole, FnInv
<1>2. Contents' = before
  <2>1. \A k \in Keys : Same(k)'
    BY <1>0, <1>1, HistFails DEF Whole, HistInv, KeysInv, Untouched
  <2> QED BY <1>0, <1>1, <2>1, SameNext DEF Calm
<1>3. CASE call.fn = "write"
  BY <1>1, <1>2, <1>3 DEF Kv!Next, Kv!WriteError, Kv!Pending, Kv!Answer
<1>4. CASE call.fn = "clean" /\ call.ns = Factory
  BY <1>1, <1>2, <1>4 DEF Kv!Next, Kv!Clean, Kv!Pending, Kv!Answer
<1>5. CASE call.fn = "clear" /\ call.ns \in Reserved \cup {Factory}
  BY <1>1, <1>2, <1>5 DEF Kv!Next, Kv!ClearNamespace, Kv!Pending, Kv!Answer
<1> QED BY <1>0, <1>1, <1>3, <1>4, <1>5 DEF Whole, FnInv

\* A namespace is found, made, or neither: no key is changed, and a namespace that
\* is not there has none.
LEMMA NamespaceMaps ==
    ASSUME Calm, UNCHANGED before,
           GetNamespaceFound \/ GetNamespaceError \/ bk_set_namespace \/ bk_set_namespace_fails
    PROVE  Kv!Next \/ UNCHANGED Kv!vars
<1>0. Whole /\ BeforeInv /\ ~MallocFails
  BY CalmWhole DEF Calm, Powered, MallocFails
<1>1. /\ pc \in {"namespace", "set_namespace"} /\ rtn = "none" /\ UNCHANGED <<call, out>>
      /\ pc' \notin {"return", "idle"} => UNCHANGED rtn
      /\ pc' # "idle"
  BY <1>0 DEF GetNamespaceFound, GetNamespaceError, bk_set_namespace, bk_set_namespace_fails,
              Finish, volatile, Whole, FnInv
<1>2. CASE pc' # "return"
  BY <1>1, <1>2 DEF Kv!vars
<1>3. CASE pc' = "return"
  <2>1. \A k \in Keys : Same(k)'
    <3>1. CASE GetNamespaceFound \/ GetNamespaceError \/ bk_set_namespace
      BY <1>0, <3>1, HistNamespace DEF Untouched
    <3>2. CASE bk_set_namespace_fails
      <4>1. UNCHANGED <<flash, call>> /\ Untouched
        BY <1>0, <3>2 DEF bk_set_namespace_fails, volatile, Whole, HistInv, KeysInv
      <4> QED BY <1>0, <1>1, <1>3, <4>1, HistFails DEF Untouched
    <3> QED BY <3>1, <3>2
  <2>2. Contents' = before
    BY <1>0, <1>3, <2>1, SameNext DEF Calm
  <2>3. rtn' \in {"ok", "err"}
    BY <1>3 DEF GetNamespaceFound, GetNamespaceError, bk_set_namespace, bk_set_namespace_fails, Finish
  <2>4. CASE call.fn = "ensure"
    BY <1>1, <1>3, <2>2, <2>3, <2>4 DEF Kv!Next, Kv!EnsureNamespace, Kv!Pending, Kv!Answer
  <2>5. CASE call.fn = "write"
    <3>1. rtn' = "err"
      BY <1>3, <2>5 DEF GetNamespaceFound, GetNamespaceError, bk_set_namespace,
                        bk_set_namespace_fails, Finish
    <3> QED BY <1>1, <1>3, <2>2, <2>5, <3>1 DEF Kv!Next, Kv!WriteError, Kv!Pending, Kv!Answer
  <2>6. CASE call.fn \in {"clean", "read", "exists", "clear"}
    <3>1. /\ pc = "namespace" /\ rtn' = "err" /\ \A b \in Blocks : ~IsBlockOf(call.ns, b)
      BY <1>0, <1>3, <2>6 DEF GetNamespaceFound, GetNamespaceError, bk_set_namespace,
                              bk_set_namespace_fails, Finish, Whole, FnInv
    <3>2. \A k \in Keys : k.ns = call.ns => before[k] = Absent
      BY <1>0, <3>1, NoBlockGone
    <3>3. CASE call.fn = "clear"
      BY <1>1, <1>3, <2>2, <3>1, <3>2, <3>3 DEF Kv!Next, Kv!ClearNamespace, Kv!Pending, Kv!Answer
    <3>4. CASE call.fn \in {"clean", "read", "exists"}
      <4>1. before[OwnKey] = Absent
        BY <1>0, <3>2, <3>4, OwnIn DEF Whole, OwnKey
      <4> QED BY <1>1, <1>3, <2>2, <3>1, <3>4, <4>1
              DEF Kv!Next, Kv!Clean, Kv!Read, Kv!Exists, Kv!Pending, Kv!Answer, Kv!KeyOf, OwnKey
    <3> QED BY <2>6, <3>3, <3>4
  <2> QED BY <1>0, <1>1, <2>4, <2>5, <2>6 DEF Whole, FnInv
<1> QED BY <1>2, <1>3

\* The end of a write: the value is there, it was there before, or the name has
\* lost the value it had.
LEMMA WriteMaps ==
    ASSUME Calm, UNCHANGED before,
           \/ SetSameValue \/ NewAddrFails \/ ReorganizeFull
           \/ (PutRecord /\ idx = 0)
    PROVE  Kv!Next
<1>0. /\ Whole /\ BeforeInv /\ ~MallocFails
      /\ pc \in InBlock \ {"name", "clear_names", "clear_data", "clear_dir"}
  BY CalmWhole DEF Calm, Powered, MallocFails, SetSameValue, NewAddrFails, ReorganizeFull,
                   PutRecord, InBlock
<1>1. /\ pc \notin {"return", "idle"} /\ pc' = "return" /\ UNCHANGED <<call, out>> /\ rtn = "none"
      /\ call.fn = "write" /\ call.ns # Factory
  BY <1>0 DEF SetSameValue, NewAddrFails, ReorganizeFull, PutRecord, Finish, volatile, Whole,
              FnInv, InBlock
<1>2. OwnKey \in Keys /\ OwnKey = [ns |-> call.ns, name |-> call.name] /\ OwnKey' = OwnKey
  BY <1>0, <1>1, OwnIn DEF Whole, OwnKey
<1>3. CASE SetSameValue
  <2>1. PICK s \in Slots : /\ IsSlotOf(call.name, names[blk], s)
                           /\ ReadCells(data[blk], names[blk][s].off, names[blk][s].len) = call.val
    BY <1>3 DEF SetSameValue
  <2>2. pc = "set_name" /\ UNCHANGED flash /\ rtn' = "ok"
    BY <1>3 DEF SetSameValue, Finish
  <2>3. Untouched
    BY <1>0, <2>2 DEF Whole, HistInv, KeysInv
  <2>4. before[OwnKey] = call.val
    <3>1. At(OwnKey, blk, s) /\ blk \in Blocks
      BY <1>0, <2>1, <2>2, OwnAt
    <3> QED BY <1>0, <1>2, <2>1, <2>2, <2>3, <3>1, BeforeIs DEF Untouched, Reads
  <2>5. Contents' = before
    <3>1. \A k \in Keys : Same(k)'
      BY <1>0, <1>1, <2>2, <2>3, HistFails DEF Untouched
    <3> QED BY <1>0, <1>1, <3>1, SameNext DEF Calm
  <2>6. before = [before EXCEPT ![OwnKey] = call.val]
    BY <1>0, <2>4 DEF BeforeInv
  <2> QED BY <1>1, <1>2, <2>2, <2>5, <2>6
          DEF Kv!Next, Kv!WriteOk, Kv!Pending, Kv!Answer, Kv!KeyOf
<1>4. CASE PutRecord /\ idx = 0
  <2>1. OwnWritten' /\ rtn' = "ok"
    BY <1>0, <1>4, HistAppended DEF PutRecord, Finish
  <2>2. (OwnWritten => /\ \E b \in Blocks, s \in Slots : At(OwnKey, b, s) /\ Reads(b, s) = call.val
                       /\ \A k \in Keys \ {OwnKey} : Same(k))'
    BY DEF OwnWritten
  <2>3. (Inv /\ DirInv /\ NamesInv /\ pc # "clear_loop" =>
          \A k \in Keys :
            /\ \A b \in Blocks, s \in Slots : At(k, b, s) => Stored(k) = Reads(b, s)
            /\ Gone(k) => Stored(k) = Absent)'
    BY StoredLemma, PTL
  <2>4. Inv' /\ DirInv' /\ NamesInv' /\ pc' # "clear_loop"
    BY <1>1 DEF Calm, Known, HistInv
  <2>5. ASSUME NEW k \in Keys, k = OwnKey
        PROVE  Stored(k)' = call.val
    <3>1. PICK b \in Blocks, s \in Slots : At(k, b, s)' /\ Reads(b, s)' = call'.val
      BY <1>2, <2>1, <2>2, <2>5
    <3> QED BY <1>1, <2>3, <2>4, <3>1
  <2>6. \A k \in Keys \ {OwnKey} : Stored(k)' = before[k]
    BY <1>2, <2>1, <2>2, <2>4, SameStoredNext
  <2>7. Contents' = [before EXCEPT ![OwnKey] = call.val]
    <3> DEFINE f == [before EXCEPT ![OwnKey] = call.val]
    <3>1. f = [k \in Keys |-> f[k]] /\ \A k \in Keys : f[k] = IF k = OwnKey THEN call.val ELSE before[k]
      BY <1>0 DEF BeforeInv
    <3>2. \A k \in Keys : Stored(k)' = f[k]
      BY <2>5, <2>6, <3>1
    <3> HIDE DEF f
    <3>3. Contents' = f
      BY <3>1, <3>2, ContentsNext
    <3> QED BY <3>3 DEF f
  <2> QED BY <1>1, <1>2, <2>1, <2>7
          DEF Kv!Next, Kv!WriteOk, Kv!Pending, Kv!Answer, Kv!KeyOf
<1>5. CASE NewAddrFails \/ ReorganizeFull
  <2>1. OwnDropped
    BY <1>0, <1>5, CopyDone DEF NewAddrFails, ReorganizeFull, Whole, HistInv, KeysInv
  <2>2. UNCHANGED flash /\ rtn' = "err" /\ pc \notin {"clear_loop", "idle"}
    BY <1>5 DEF NewAddrFails, ReorganizeFull, Finish
  <2>3. (\A k \in Keys \ {OwnKey} : Same(k)') /\ \A k \in {OwnKey} : Gone(k)'
    BY <1>0, <1>1, <1>2, <2>1, <2>2, HistFails DEF OwnDropped
  <2>4. Contents' = [k \in Keys |-> IF k \in {OwnKey} THEN Absent ELSE before[k]]
    BY <1>0, <1>1, <1>2, <2>3, DroppedNext DEF Calm
  <2> QED BY <1>1, <1>2, <2>2, <2>4
          DEF Kv!Next, Kv!WriteError, Kv!Pending, Kv!Answer, Kv!KeyOf, Kv!Drop
<1> QED BY <1>3, <1>4, <1>5

\* A shorter buffer gets the first cells of a value.
LEMMA ReadPrefix ==
    ASSUME NEW sector, NEW o, NEW n \in Nat, NEW m \in Nat, m <= n,
           ReadCells(sector, o, n) \in Seq(Bytes)
    PROVE  ReadCells(sector, o, m) = SubSeq(ReadCells(sector, o, n), 1, m)
<1> DEFINE v == ReadCells(sector, o, n)
<1>1. Len(v) = n /\ \A j \in 1 .. n : v[j] = sector[o + j - 1]
  BY DEF ReadCells
<1>2. \A j \in 1 .. m : v[j] = sector[o + j - 1]
  BY <1>1
<1>3. SubSeq(v, 1, m) = [j \in 1 .. m |-> v[j]]
  <2> HIDE DEF v
  <2>1. SubSeq(v, 1, m) \in Seq(Bytes) /\ Len(SubSeq(v, 1, m)) = m
    BY <1>1 DEF v
  <2>2. \A j \in 1 .. m : SubSeq(v, 1, m)[j] = v[j]
    BY <1>1 DEF v
  <2> QED BY <2>1, <2>2
<1>4. ReadCells(sector, o, m) = [j \in 1 .. m |-> v[j]]
  BY <1>2 DEF ReadCells
<1> QED BY <1>3, <1>4

\* Reading, cleaning and asking for a name in its block.
LEMMA NameMaps ==
    ASSUME Calm, UNCHANGED before, NameFound \/ NameError
    PROVE  Kv!Next
<1>0. Whole /\ BeforeInv /\ ~MallocFails /\ pc = "name" /\ Untouched
  BY CalmWhole DEF Calm, Powered, MallocFails, NameFound, CleanName, ReadName, EnsureName, NameError, Whole, HistInv, KeysInv
<1>1. /\ pc' = "return" /\ UNCHANGED call /\ rtn = "none" /\ data' = data /\ dir' = dir
      /\ call.fn \in {"clean", "read", "exists"}
      /\ call.fn = "clean" => call.ns # Factory
  BY <1>0 DEF NameFound, CleanName, ReadName, EnsureName, NameError, Finish, flash, volatile, Whole, FnInv
<1>2. OwnKey \in Keys /\ OwnKey = [ns |-> call.ns, name |-> call.name] /\ OwnKey' = OwnKey
      /\ Same(OwnKey)
  BY <1>0, <1>1, OwnIn DEF Whole, OwnKey, Untouched
<1>3. UNCHANGED names => Contents' = before
  <2> SUFFICES ASSUME UNCHANGED names PROVE Contents' = before
    OBVIOUS
  <2>1. \A k \in Keys : Same(k)'
    BY <1>0, <1>1, HistFails DEF Untouched, flash
  <2> QED BY <1>0, <1>1, <2>1, SameNext DEF Calm
<1>4. CASE NameError
  <2>1. /\ rtn' = "err" /\ UNCHANGED <<names, out>>
        /\ \A s \in Slots : ~IsSlotOf(call.name, names[blk], s)
    BY <1>0, <1>4 DEF NameError, Finish, flash
  <2>2. before[OwnKey] = Absent
    BY <1>0, <1>2, <2>1, OwnAt, BeforeIs
  <2> QED BY <1>0, <1>1, <1>2, <1>3, <2>1, <2>2
          DEF Kv!Next, Kv!Clean, Kv!Read, Kv!Exists, Kv!Pending, Kv!Answer, Kv!KeyOf
<1>5. CASE NameFound
  <2>1. PICK s \in Slots :
          /\ IsSlotOf(call.name, names[blk], s)
          /\ \/ /\ call.fn = "clean"
                /\ names' = [names EXCEPT ![blk] = Masked(@, s)]
                /\ UNCHANGED out
             \/ /\ call.fn = "read"
                /\ LET r == names[blk][s]
                   IN  out' = ReadCells(data[blk], r.off,
                                        IF call.len > r.len THEN r.len ELSE call.len)
                /\ UNCHANGED names
             \/ call.fn = "exists" /\ UNCHANGED <<names, out>>
    BY <1>5 DEF NameFound, CleanName, ReadName, EnsureName
  <2>2. rtn' = "ok"
    BY <1>5 DEF NameFound, CleanName, ReadName, EnsureName, Finish
  <2>3. At(OwnKey, blk, s) /\ blk \in Blocks
    BY <1>0, <2>1, OwnAt
  <2>4. before[OwnKey] = Reads(blk, s) /\ before[OwnKey] # Absent
    BY <1>0, <1>2, <2>3, BeforeIs
  <2>5. CASE call.fn = "clean"
    <3>1. OwnDropped' /\ UNCHANGED out
      BY <1>0, <1>1, <2>1, <2>5, HistMask DEF IsSlotOf
    <3>2. (OwnDropped => Gone(OwnKey) /\ \A k \in Keys \ {OwnKey} : Same(k))'
      BY DEF OwnDropped
    <3>3. (\A k \in Keys \ {OwnKey} : Same(k)') /\ \A k \in {OwnKey} : Gone(k)'
      BY <1>2, <3>1, <3>2
    <3>4. Contents' = [k \in Keys |-> IF k \in {OwnKey} THEN Absent ELSE before[k]]
      BY <1>0, <1>1, <1>2, <3>3, DroppedNext DEF Calm
    <3> QED BY <1>0, <1>1, <1>2, <2>2, <2>4, <2>5, <3>1, <3>4
            DEF Kv!Next, Kv!Clean, Kv!Drop, Kv!Pending, Kv!Answer, Kv!KeyOf
  <2>6. CASE call.fn = "read"
    <3> DEFINE r == names[blk][s]
    <3>1. r.off \in Nat /\ r.len \in Nat /\ call.len \in Nat
      BY <1>0, <2>3 DEF Whole, Inv, TypeOK, NameRecords, Calls
    <3>2. Reads(blk, s) \in Seq(Bytes) /\ Len(Reads(blk, s)) = r.len
      BY <1>0, <2>3, ReadsLemma DEF Whole, At
    <3>3. out' = ReadCells(data[blk], r.off, IF call.len > r.len THEN r.len ELSE call.len)
      BY <2>1, <2>6
    <3>4. out' = SubSeq(Reads(blk, s), 1, IF call.len > r.len THEN r.len ELSE call.len)
      BY <3>1, <3>2, <3>3, ReadPrefix DEF Reads
    <3> HIDE DEF r
    <3> QED BY <1>0, <1>1, <1>2, <1>3, <2>1, <2>2, <2>4, <2>6, <3>2, <3>4
            DEF Kv!Next, Kv!Read, Kv!Prefix, Kv!Pending, Kv!Answer, Kv!KeyOf
  <2>7. CASE call.fn = "exists"
    BY <1>0, <1>1, <1>2, <1>3, <2>1, <2>2, <2>4, <2>7
       DEF Kv!Next, Kv!Exists, Kv!Pending, Kv!Answer, Kv!KeyOf
  <2> QED BY <1>1, <2>5, <2>6, <2>7
<1> QED BY <1>4, <1>5

\* The last steps of clearing a namespace and of erasing the partition.
LEMMA DoneMaps ==
    ASSUME Calm, UNCHANGED before, ClearDone \/ EraseDone
    PROVE  Kv!Next
<1>0. Whole /\ BeforeInv
  BY CalmWhole
<1>1. /\ pc \in {"clear_loop", "erase"} /\ pc' = "return" /\ UNCHANGED <<call, out, flash>>
      /\ rtn = "none" /\ rtn' = "ok"
  BY <1>0 DEF ClearDone, EraseDone, Finish, volatile, Whole, FnInv
<1>2. CASE ClearDone
  <2>1. call.fn = "clear" /\ call.ns \notin Reserved \cup {Factory}
    BY <1>0, <1>2 DEF ClearDone, Whole, FnInv
  <2> DEFINE D == {k \in Keys : k.ns = call.ns}
  <2>2. Cleared'
    BY <1>0, <1>2, HistClear
  <2>3. (Cleared => \A k \in Keys : IF k.ns = call.ns THEN Gone(k) ELSE Same(k))'
    BY DEF Cleared
  <2>4. (\A k \in Keys \ D : Same(k)') /\ \A k \in D : Gone(k)'
    BY <1>1, <2>2, <2>3
  <2>5. Contents' = [k \in Keys |-> IF k \in D THEN Absent ELSE before[k]]
    <3>1. D \in SUBSET Keys
      OBVIOUS
    <3> HIDE DEF D
    <3> QED BY <1>0, <1>1, <2>4, <3>1, DroppedNext DEF Calm
  <2> QED BY <1>1, <2>1, <2>5
          DEF Kv!Next, Kv!ClearNamespace, Kv!Drop, Kv!Pending, Kv!Answer
<1>3. CASE EraseDone
  <2>1. pc = "erase" /\ idx > 2 * NumBlocks /\ call.fn = "erase"
    BY <1>0, <1>3 DEF EraseDone, Whole, FnInv
  <2> DEFINE D == {k \in Keys : k.ns # Factory}
  <2>2. \A k \in Keys \ D : Same(k)'
    BY <1>0, <1>3, HistErase DEF Calm, Known
  <2>3. \A b \in Blocks : Owner(b)' = Owner(b)
    BY <1>1, <2>1 DEF Owner, flash
  <2>4. \A b \in Blocks : Owner(b) \in {Blank, Factory}
    <3>1. idx > 0
      BY <1>0, <2>1, SizesAssumption DEF Whole, Inv, TypeOK
    <3>2. \A b \in MatterBlocks : dir[b] = Blank
      BY <1>0, <2>1, <3>1 DEF Whole, DirInv, RewriteInv
    <3>3. \A b \in Blocks : Owner(b) = dir[b]
      BY <2>1, OwnerDir
    <3> QED BY <1>0, <3>2, <3>3 DEF Whole, DirInv, OwnersInv, BlocksOf
  <2>5. ASSUME NEW k \in D
        PROVE  Gone(k)'
    <3>1. Gone(k)
      BY <2>4, <2>5, KeysLemma DEF Gone, At
    <3> QED BY <1>1, <2>3, <3>1, AllKept DEF flash
  <2>6. Contents' = [k \in Keys |-> IF k \in D THEN Absent ELSE before[k]]
    <3>1. D \in SUBSET Keys
      OBVIOUS
    <3> HIDE DEF D
    <3> QED BY <1>0, <1>1, <2>2, <2>5, <3>1, DroppedNext DEF Calm
  <2> QED BY <1>1, <2>1, <2>6
          DEF Kv!Next, Kv!EraseAll, Kv!Drop, Kv!Pending, Kv!Answer
<1> QED BY <1>2, <1>3

\* The caller gets its answer.
LEMMA ReturnMaps ==
    ASSUME Known, HNext, Return
    PROVE  Kv!Next
<1>1. /\ pc = "return" /\ pc' = "idle" /\ rtn # "none" /\ call # NoCall
      /\ call' = NoCall /\ rtn' = "none" /\ out' = Absent
      /\ UNCHANGED flash
  BY DEF Return, Forget, Known, FnInv, NoCall
<1>2. Contents' = Contents
  BY <1>1 DEF flash, Contents, Stored, IsBlockOf, IsSlotOf
<1> QED BY <1>1, <1>2 DEF Kv!Next, Kv!End

\* A function is called with a request of KvStore's.
LEMMA EnterMaps ==
    ASSUME Known, HNext, Call
    PROVE  Kv!Next
<1>0. pc = "idle" /\ pc' \in {"refused", "namespace", "erase"} /\ call = NoCall
  BY EnterFacts DEF Known, FnInv
<1>1. before' = Contents
  BY <1>0 DEF HNext
<1>2. UNCHANGED <<rtn, out>>
  BY DEF Call, bk_write_data, bk_clean_data, bk_read_data, bk_ensure_name_data,
         bK_clear_namespace, bk_ensure_namespace, bk_erase_all, Enter
<1>3. call' \in Requests
  <2>1. ASSUME NEW a \in Accesses, NEW fn \in {"write", "clean", "read", "exists"},
               NEW v \in Values \cup {<<>>}, NEW l \in ReadLens \cup {0}
        PROVE  CallOf(fn, Key(a[1], a[2]), v, l) \in Requests
    <3>1. PICK k \in Keys : k = Key(a[1], a[2])
      BY DEF Keys
    <3>2. k = [ns |-> k.ns, name |-> k.name] /\ k.ns \in Namespaces
      BY KeysLemma
    <3>3. CallOf(fn, k, v, l) = [fn |-> fn, ns |-> k.ns, name |-> k.name, val |-> v, len |-> l]
      BY DEF CallOf
    <3> QED BY <3>1, <3>2, <3>3 DEF Requests
  <2>2. ASSUME NEW ns \in Namespaces, NEW fn \in {"clear", "ensure", "erase"}
        PROVE  [fn |-> fn, ns |-> ns, name |-> Blank, val |-> <<>>, len |-> 0] \in Requests
    BY DEF Requests
  <2>3. ASSUME NEW a \in Accesses,
               \/ \E v \in Values : bk_write_data(a[1], a[2], v)
               \/ bk_clean_data(a[1], a[2])
               \/ \E l \in ReadLens : bk_read_data(a[1], a[2], l)
               \/ bk_ensure_name_data(a[1], a[2])
        PROVE  call' \in Requests
    <3>1. \/ \E v \in Values : call' = CallOf("write", Key(a[1], a[2]), v, 0)
          \/ call' = CallOf("clean", Key(a[1], a[2]), <<>>, 0)
          \/ \E l \in ReadLens : call' = CallOf("read", Key(a[1], a[2]), <<>>, l)
          \/ call' = CallOf("exists", Key(a[1], a[2]), <<>>, 0)
      BY <2>3 DEF bk_write_data, bk_clean_data, bk_read_data, bk_ensure_name_data, Enter
    <3> QED BY <2>1, <3>1
  <2>4. ASSUME NEW ns \in Namespaces, bK_clear_namespace(ns) \/ bk_ensure_namespace(ns)
        PROVE  call' \in Requests
    <3>1. \E fn \in {"clear", "ensure"} :
             call' = [fn |-> fn, ns |-> ns, name |-> Blank, val |-> <<>>, len |-> 0]
      BY <2>4 DEF bK_clear_namespace, bk_ensure_namespace, Enter, CallOf
    <3> QED BY <2>2, <3>1
  <2>5. CASE bk_erase_all
    <3>1. call' = [fn |-> "erase", ns |-> Factory, name |-> Blank, val |-> <<>>, len |-> 0]
      BY <2>5 DEF bk_erase_all, NoCall
    <3> QED BY <2>2, <3>1, NamespacesAssumption
  <2> QED BY <2>3, <2>4, <2>5 DEF Call
<1> QED BY <1>0, <1>1, <1>2, <1>3 DEF Kv!Next, Kv!Begin

\* Any other step is one KvStore does not see.
LEMMA WorkMaps ==
    ASSUME Calm, UNCHANGED before,
           \/ MaskOldValue \/ NoOldValue \/ NewAddrDirect \/ NewAddrReorganize \/ PutData
           \/ (PutRecord /\ idx # 0)
           \/ EraseNames \/ EraseData \/ ReorganizeCopy \/ ReorganizePut
           \/ ClearNames \/ ClearData \/ ClearDir \/ ClearRewrite \/ EraseSector
    PROVE  UNCHANGED Kv!vars
<1>1. pc \notin {"idle", "return"} /\ pc' \notin {"idle", "return"} /\ UNCHANGED <<call, rtn, out>>
  BY DEF MaskOldValue, NoOldValue, NewAddrDirect, NewAddrReorganize, PutData, PutRecord,
         EraseNames, EraseData, ReorganizeCopy, ReorganizePut, ClearNames, ClearData, ClearDir,
         ClearRewrite, EraseSector, volatile
<1> QED BY <1>1 DEF Kv!vars

LEMMA KvStep == Calm /\ [HNext]_hvars => [Kv!Next]_Kv!vars
<1> SUFFICES ASSUME Calm, [HNext]_hvars PROVE Kv!Next \/ UNCHANGED Kv!vars
  OBVIOUS
<1>0. Known /\ ~PowerLoss
  BY DEF Calm, Powered, Known, PowerLoss
<1>1. CASE UNCHANGED hvars
  BY <1>1 DEF hvars, vars, Kv!vars, Contents, Stored, IsBlockOf, IsSlotOf
<1>2. CASE HNext /\ Call
  BY <1>0, <1>2, EnterMaps
<1>3. CASE HNext /\ Return
  BY <1>0, <1>3, ReturnMaps
<1>4. CASE HNext /\ Step /\ ~Return
  <2>1. UNCHANGED before
    BY <1>0, <1>4, Remembered DEF Known
  <2> QED BY <1>4, <2>1, RefuseMaps, NamespaceMaps, WriteMaps, NameMaps, DoneMaps, WorkMaps
          DEF Step, SetName, NewAddr, Reorganize, Clear
<1> QED BY <1>0, <1>1, <1>2, <1>3, <1>4 DEF HNext, Next

LEMMA KvInit == HInit => Kv!Init
<1> SUFFICES ASSUME HInit PROVE Kv!Init
  OBVIOUS
<1>1. /\ Init /\ pc = "idle" /\ call = NoCall /\ rtn = "none" /\ out = Absent
  BY DEF HInit, Init
<1>2. ASSUME NEW k \in Keys, k.ns # Factory
      PROVE  Contents[k] = Absent
  <2>1. \A b \in Blocks : dir[b] \in {Blank, Factory}
    BY <1>1 DEF Init
  <2>2. ~\E b \in Blocks, s \in Slots : IsBlockOf(k.ns, b) /\ IsSlotOf(k.name, names[b], s)
    BY <1>2, <2>1, KeysLemma DEF IsBlockOf
  <2> QED BY <2>2 DEF Contents, Stored
<1> QED BY <1>1, <1>2 DEF Kv!Init

\* A behaviour in which no power is lost and no allocation fails is one of
\* KvStore: every call takes effect in one step, a read returns the value last
\* written under its name, a write that fails at most drops the value of its own
\* name, and no call changes a key that is not its own.
THEOREM ImplementsMap == HSpec /\ []Powered => ImplementsKvStore
<1>1. Known /\ Powered /\ Known' /\ Powered' /\ [HNext]_hvars => [Kv!Next]_Kv!vars
  BY KvStep DEF Calm
<1> QED BY <1>1, KnownInit, KnownStep, KvInit, PTL DEF HSpec, ImplementsKvStore, Kv!Spec

-----------------------------------------------------------------------------
(* The first loss of power *)

\* At every step of a call a key has at most the value it had when the call
\* began, or the value the call is writing.
OldOrNew ==
    pc # "idle" => \A k \in Keys, b \in Blocks, s \in Slots : At(k, b, s) =>
        \/ Reads(b, s) = before[k]
        \/ k = OwnKey /\ call.fn = "write" /\ Reads(b, s) = call.val

\* A call that has ended has left the keys alone it is not about.
Spared == pc = "return" => \A k \in Keys \ AtRisk : Same(k)

LossInv == OldOrNew /\ Spared
LossUntilFailure == Powered => LossInv

\* A key has one record at most.
LEMMA AtUnique ==
    ASSUME Inv, DirInv, NamesInv, NEW k \in Keys, NEW b \in Blocks, NEW s \in Slots, At(k, b, s),
           NEW c \in Blocks, NEW t \in Slots, At(k, c, t)
    PROVE  b = c /\ s = t
<1>1. b = c
  BY KeysLemma DEF At, DirInv, OwnersInv
<1> QED BY <1>1 DEF At, NamesInv, UniqueNames

\* So a key that reads as it did has that value in it.
LEMMA SameReads ==
    ASSUME Inv, DirInv, NamesInv, NEW k \in Keys, Same(k)
    PROVE  /\ \A b \in Blocks, s \in Slots : At(k, b, s) => Reads(b, s) = before[k]
           /\ before[k] = Absent => Gone(k)
<1>1. ASSUME NEW b \in Blocks, NEW s \in Slots, At(k, b, s), before[k] # Absent
      PROVE  Reads(b, s) = before[k]
  <2>1. PICK c \in Blocks, t \in Slots : At(k, c, t) /\ before[k] = Reads(c, t)
    BY <1>1 DEF Same
  <2>2. b = c /\ s = t
    BY <1>1, <2>1, AtUnique
  <2> QED BY <2>1, <2>2
<1> QED BY <1>1 DEF Same, Gone

\* A step of a call gives a block to a namespace only when it is erased.
LEMMA OwnerBefore ==
    ASSUME Whole, Step, ~Return, NEW b \in Blocks, Owner(b)' # Blank, Owner(b)' # Owner(b)
    PROVE  \A s \in Slots : names'[b][s].flag = "blank"
<1>0. /\ dir \in [Blocks -> Entries] /\ nsTemp \in [Blocks -> Entries] /\ blk \in Blocks
      /\ idx \in Nat /\ NumBlocks \in Nat \ {0}
  BY SizesAssumption DEF Whole, Inv, TypeOK
<1>1. CASE bk_set_namespace
  <2>1. PICK a \in Blocks : dir' = [dir EXCEPT ![a] = call.ns] /\ dir[a] = Blank
    BY <1>1 DEF bk_set_namespace, IsFreeBlock
  <2>2. pc = "set_namespace" /\ pc' # "clear_loop" /\ UNCHANGED names
    BY <1>1 DEF bk_set_namespace, Finish
  <2>3. b = a /\ Owner(b) = Blank
    BY <1>0, <2>1, <2>2 DEF Owner
  <2>4. names[b] = ErasedNames
    BY <2>2, <2>3 DEF Whole, DirInv, FreeInv
  <2> QED BY <2>2, <2>4, ErasedLemma
<1>2. CASE \/ Refuse \/ GetNamespaceFound \/ GetNamespaceError \/ bk_set_namespace_fails
           \/ SetName \/ NewAddr \/ PutData \/ PutRecord \/ Reorganize \/ NameFound \/ NameError
           \/ ClearNames \/ ClearData \/ EraseDone
  <2>1. UNCHANGED dir /\ pc # "clear_loop" /\ pc' # "clear_loop"
    BY <1>2 DEF Refuse, GetNamespaceFound, GetNamespaceError, bk_set_namespace_fails, SetName,
                SetSameValue, MaskOldValue, NoOldValue, NewAddr, NewAddrDirect, NewAddrReorganize,
                NewAddrFails, PutData, PutRecord, Reorganize, EraseNames, EraseData, ReorganizeCopy,
                ReorganizePut, ReorganizeFull, NameFound, CleanName, ReadName, EnsureName, NameError, ClearNames, ClearData,
                EraseDone, Finish, flash
  <2> QED BY <2>1 DEF Owner
<1>3. CASE ClearDir
  <2>1. /\ pc = "clear_dir" /\ pc' = "clear_loop" /\ nsTemp' = [nsTemp EXCEPT ![blk] = Blank]
        /\ \A a \in Blocks : dir'[a] = IF a \in MatterBlocks THEN Blank ELSE dir[a]
    BY <1>3 DEF ClearDir
  <2>2. nsTemp = dir
    BY <2>1 DEF Whole, DirInv, CallInv
  <2> QED BY <1>0, <2>1, <2>2 DEF Owner
<1>4. CASE ClearRewrite
  <2>1. /\ pc = "clear_loop" /\ pc' = "clear_loop" /\ UNCHANGED nsTemp
        /\ \A a \in Blocks : a \notin MatterBlocks => dir'[a] = dir[a]
    BY <1>0, <1>4 DEF ClearRewrite, LoopInv, Whole, MatterBlocks
  <2> QED BY <2>1 DEF Owner
<1>5. CASE ClearDone
  <2>1. pc = "clear_loop" /\ pc' = "return" /\ UNCHANGED dir /\ idx > NumBlocks
    BY <1>5 DEF ClearDone, Finish, flash
  <2>2. \A a \in MatterBlocks : dir[a] = nsTemp[a]
    BY <1>0, <2>1 DEF Whole, DirInv, RewriteInv, MatterBlocks
  <2> QED BY <2>1, <2>2 DEF Owner
<1>6. CASE EraseSector
  <2>1. /\ pc = "erase" /\ pc' = "erase"
        /\ \A a \in Blocks : dir'[a] \in {dir[a], Blank}
    BY <1>6 DEF EraseSector
  <2> QED BY <2>1 DEF Owner
<1> QED BY <1>1, <1>2, <1>3, <1>4, <1>5, <1>6 DEF Step, Clear

\* Only the write of a record puts one where there was none.
LEMMA NewRecord ==
    ASSUME Whole, Step, ~Return, NEW b \in Blocks, NEW s \in Slots,
           names[b][s].flag = "blank", names'[b][s].flag # "blank"
    PROVE  PutRecord /\ b = blk /\ s = cur.slot
<1>0. names \in [Blocks -> [Slots -> NameRecords]] /\ blk \in Blocks
  BY DEF Whole, Inv, TypeOK
<1>1. CASE PutRecord
  <2>1. cur.slot \in Slots /\ names' = [names EXCEPT ![blk][cur.slot] = Record(cur.off, Len(put.bytes), put.name)]
    BY <1>1 DEF PutRecord, Whole, Inv, PutsAreFree, PutFree
  <2> QED BY <1>0, <1>1, <2>1
<1>2. CASE \/ MaskOldValue \/ NameFound
  <2>1. UNCHANGED names \/ \E m \in Slots : IsSlotOf(call.name, names[blk], m)
                                            /\ names' = [names EXCEPT ![blk] = Masked(@, m)]
    BY <1>2 DEF MaskOldValue, NameFound, CleanName, ReadName, EnsureName
  <2>2. UNCHANGED names \/ \E m \in Slots : /\ names[blk][m].flag = "using"
                                            /\ names' = [names EXCEPT ![blk] = Masked(@, m)]
    BY <2>1 DEF IsSlotOf
  <2> QED BY <1>0, <2>2 DEF Masked, NameRecords
<1>3. CASE EraseNames \/ ClearNames \/ EraseSector
  <2>1. names'[b] \in {names[b], ErasedNames}
    BY <1>0, <1>3 DEF EraseNames, ClearNames, EraseSector
  <2> QED BY <2>1, ErasedLemma
<1>4. CASE UNCHANGED names
  BY <1>4
<1> QED BY <1>1, <1>2, <1>3, <1>4
        DEF Step, Refuse, GetNamespaceFound, GetNamespaceError, bk_set_namespace_fails,
            bk_set_namespace, SetName, SetSameValue, NoOldValue, NewAddr, NewAddrDirect,
            NewAddrReorganize, NewAddrFails, PutData, Reorganize, EraseData, ReorganizeCopy,
            ReorganizePut, ReorganizeFull, NameError, Clear, ClearData, ClearDir, ClearRewrite,
            ClearDone, EraseDone, flash

\* A record a step leaves in use was in use before with the same value, or is the
\* one the step has written.
LEMMA AtBefore ==
    ASSUME Whole, Step, ~Return, NEW k \in Keys, NEW b \in Blocks, NEW s \in Slots, At(k, b, s)'
    PROVE  \/ At(k, b, s) /\ Reads(b, s)' = Reads(b, s)
           \/ PutRecord /\ b = blk /\ s = cur.slot
<1>1. /\ Owner(b)' = k.ns /\ names'[b][s].flag = "using" /\ names'[b][s].name = k.name
      /\ k.ns # Blank
  BY KeysLemma DEF At
<1>2. Owner(b) = k.ns
  BY <1>1, OwnerBefore
<1>3. CASE names[b][s].flag = "blank"
  BY <1>1, <1>3, NewRecord
<1>4. CASE names[b][s].flag # "blank"
  <2>1. KeepsRecord(b, s)
    BY NextKeeps DEF Whole, Next
  <2>2. /\ names'[b][s] \in {names[b][s], [names[b][s] EXCEPT !.flag = "mask"]}
        /\ \A c \in Cells :
              names[b][s].off <= c /\ c < names[b][s].off + names[b][s].len
                 => data'[b][c] = data[b][c]
    BY <1>1, <1>4, <2>1 DEF KeepsRecord
  <2>3. names'[b][s] = names[b][s]
    <3>1. names[b][s] \in NameRecords
      BY DEF Whole, Inv, TypeOK
    <3> QED BY <1>1, <2>2, <3>1 DEF NameRecords
  <2>4. Reads(b, s)' = Reads(b, s)
    BY <1>4, <2>2, <2>3, ReadsKept DEF Whole
  <2> QED BY <1>1, <1>2, <2>3, <2>4 DEF At
<1> QED BY <1>3, <1>4

\* A record is written for the call's own key, with the call's value, or it is
\* one of those the block had, with the value it had.
LEMMA WrittenBefore ==
    ASSUME Whole, PutRecord, NEW k \in Keys, NEW b \in Blocks, NEW s \in Slots,
           b = blk, s = cur.slot, At(k, b, s)'
    PROVE  \/ Reads(b, s)' = before[k]
           \/ k = OwnKey /\ call.fn = "write" /\ Reads(b, s)' = call.val
<1>1. /\ pc = "put_record" /\ UNCHANGED dir /\ pc' # "clear_loop" /\ call.fn = "write"
      /\ names'[b][s].name = put.name /\ Reads(b, s)' = put.bytes
  BY PutRecordFacts DEF PutRecord, Finish, Whole, FnInv, InBlock
<1>2. k.name = put.name /\ k.ns = call.ns
  <2>1. Owner(b)' = Owner(b) /\ Owner(b) = call.ns
    BY <1>1, CallBlock DEF Owner, InBlock
  <2> QED BY <1>1, <2>1 DEF At
<1>3. CASE idx = 0
  <2>1. put = NewPut
    BY <1>1, <1>3 DEF Whole, HistInv, PutInv, Appending
  <2>2. k = OwnKey
    BY <1>2, <2>1, KeysLemma DEF NewPut, OwnKey
  <2> QED BY <1>1, <2>1, <2>2 DEF NewPut
<1>4. CASE idx # 0
  <2>1. Copying /\ idx - 1 \in Slots
    BY <1>1, <1>4, SizesAssumption DEF Copying, Whole, Inv, CopyInv, Putting, Slots
  <2>2. PICK i \in Slots : i = idx - 1
    BY <2>1
  <2>3. /\ nameTemp[i].flag = "using" /\ put.name = nameTemp[i].name /\ put.bytes = TempReads(i)
        /\ GoneTemp(OwnKey) /\ \A j \in Keys \ {OwnKey} : j.ns = call.ns => SameTemp(j)
        /\ UniqueNames(nameTemp)
    BY <2>1, <2>2 DEF Whole, HistInv, CopiesInv, NamesInv
  <2>4. AtTemp(k, i) /\ k # OwnKey
    BY <1>2, <2>3 DEF AtTemp, GoneTemp
  <2>5. SameTemp(k)
    BY <1>2, <2>3, <2>4
  <2>6. before[k] # Absent
    BY <2>4, <2>5 DEF SameTemp, GoneTemp
  <2>7. PICK t \in Slots : AtTemp(k, t) /\ before[k] = TempReads(t)
    BY <2>5, <2>6 DEF SameTemp
  <2>8. t = i
    BY <2>3, <2>4, <2>7 DEF AtTemp, UniqueNames
  <2> QED BY <1>1, <2>3, <2>7, <2>8
<1> QED BY <1>3, <1>4

\* What it says of the call that a key is not at risk.
LEMMA NotAtRisk ==
    ASSUME NEW k \in Keys, k \notin AtRisk
    PROVE  /\ call.fn = "erase" \/ Rewriting => k.ns = Factory
           /\ Compacting \/ (call.fn = "clear" /\ ~Rewriting) => k.ns # call.ns
           /\ call.fn \notin {"erase", "clear"} /\ ~Compacting => k # OwnKey
<1>1. CASE call.fn = "erase" \/ Rewriting
  <2>1. ~(Compacting \/ (call.fn = "clear" /\ ~Rewriting))
    BY <1>1 DEF Rewriting, Compacting
  <2>2. AtRisk = {j \in Keys : j.ns # Factory}
    BY <1>1, <2>1 DEF AtRisk
  <2> QED BY <1>1, <2>1, <2>2 DEF Rewriting
<1>2. CASE Compacting \/ (call.fn = "clear" /\ ~Rewriting)
  <2>1. ~(call.fn = "erase" \/ Rewriting)
    BY <1>2 DEF Rewriting, Compacting
  <2>2. AtRisk = {j \in Keys : j.ns = call.ns}
    BY <1>2, <2>1 DEF AtRisk
  <2> QED BY <1>2, <2>1, <2>2
<1>3. CASE ~(call.fn = "erase" \/ Rewriting) /\ ~(Compacting \/ (call.fn = "clear" /\ ~Rewriting))
  <2>1. AtRisk = {OwnKey}
    BY <1>3 DEF AtRisk
  <2> QED BY <1>3, <2>1
<1> QED BY <1>1, <1>2, <1>3

LEMMA NotAtRiskDone ==
    (pc = "return" =>
        \A k \in Keys \ AtRisk : /\ call.fn = "erase" => k.ns = Factory
                                 /\ call.fn = "clear" => k.ns # call.ns
                                 /\ call.fn \notin {"erase", "clear"} => k # OwnKey)'
<1>1. pc = "return" =>
        \A k \in Keys \ AtRisk : /\ call.fn = "erase" => k.ns = Factory
                                 /\ call.fn = "clear" => k.ns # call.ns
                                 /\ call.fn \notin {"erase", "clear"} => k # OwnKey
  BY NotAtRisk DEF Rewriting, Compacting
<1> QED BY <1>1, PTL

\* At every step of a call the keys it does not risk read as they did.
LEMMA SafeSame ==
    ASSUME Whole, pc \notin {"idle", "return"}, NEW k \in Keys \ AtRisk
    PROVE  Same(k)
<1>0. pc \in Steps
  BY DEF Whole, Inv, TypeOK
<1>1. CASE pc \in {"refused", "namespace", "set_namespace", "set_name", "name", "clear_names"}
  BY <1>1 DEF Whole, HistInv, KeysInv, Untouched
<1>2. CASE pc \in {"new_addr", "re_names"} \/ Appending
  BY <1>2, NotAtRisk DEF Whole, HistInv, KeysInv, OwnDropped, FnInv, InBlock, Appending, Compacting
<1>3. CASE pc = "re_data" \/ Copying
  BY <1>3, NotAtRisk DEF Whole, HistInv, KeysInv, FnInv, InBlock, Copying, Compacting
<1>4. CASE pc = "re_loop"
  <2>1. CASE idx <= NumSlots
    BY <1>4, <2>1, NotAtRisk DEF Whole, HistInv, KeysInv, FnInv, InBlock, Compacting
  <2>2. CASE ~(idx <= NumSlots)
    <3>1. idx > NumSlots
      BY <2>2, SizesAssumption DEF Whole, Inv, TypeOK
    <3> QED BY <1>4, <2>2, <3>1, CopyDone, NotAtRisk DEF OwnDropped, Whole, FnInv, InBlock, Compacting
  <2> QED BY <2>1, <2>2
<1>5. CASE pc \in {"clear_data", "clear_dir", "clear_loop"}
  <2>1. call.fn = "clear" /\ call.ns # Factory
    BY <1>5 DEF Whole, FnInv
  <2> QED BY <1>5, <2>1, NotAtRisk DEF Whole, HistInv, KeysInv, Rewriting
<1>6. CASE pc = "erase"
  BY <1>6, NotAtRisk DEF Whole, HistInv, KeysInv, FnInv
<1> QED BY <1>0, <1>1, <1>2, <1>3, <1>4, <1>5, <1>6 DEF Steps, Appending, Copying

\* Every step of a call keeps what power loss rests on.
LEMMA LossStep ==
    ASSUME Whole, LossInv, DirInv', [HNext]_hvars, losses' = 0, fails' = 0
    PROVE  LossInv'
<1>0. ~PowerLoss
  BY DEF PowerLoss, Whole, Inv, TypeOK
<1>1. CASE UNCHANGED hvars
  BY <1>1 DEF hvars, vars, LossInv, OldOrNew, Spared, Same, Gone, At, Owner, Reads, OwnKey, AtRisk,
              Rewriting, Compacting
<1>2. CASE HNext /\ Call
  <2>1. /\ pc = "idle" /\ pc' \notin {"idle", "clear_loop", "return"} /\ before' = Contents
        /\ UNCHANGED <<dir, names, data>>
    BY <1>2 DEF HNext, Call, bk_write_data, bk_clean_data, bk_read_data, bk_ensure_name_data,
                bK_clear_namespace, bk_ensure_namespace, bk_erase_all, Enter, flash
  <2>2. ASSUME NEW k \in Keys, NEW b \in Blocks, NEW s \in Slots, At(k, b, s)'
        PROVE  Reads(b, s)' = before'[k]
    <3>1. At(k, b, s) /\ Reads(b, s)' = Reads(b, s)
      BY <2>1, <2>2 DEF At, Reads, Owner
    <3>2. Stored(k) = Reads(b, s)
      BY <2>1, <3>1, StoredLemma DEF Whole, HistInv
    <3> QED BY <2>1, <3>1, <3>2 DEF Contents
  <2> QED BY <2>1, <2>2 DEF LossInv, OldOrNew, Spared
<1>3. CASE Return
  BY <1>3 DEF Return, Forget, LossInv, OldOrNew, Spared
<1>4. CASE HNext /\ Step /\ ~Return
  <2>0. /\ pc \notin {"idle", "return"} /\ pc' # "idle" /\ UNCHANGED <<before, call>>
        /\ OwnKey' = OwnKey
    BY <1>4, Remembered DEF Whole, OwnKey
  <2>1. OldOrNew'
    <3>1. ASSUME NEW k \in Keys, NEW b \in Blocks, NEW s \in Slots, At(k, b, s)'
          PROVE  \/ Reads(b, s)' = before[k]
                 \/ k = OwnKey /\ call.fn = "write" /\ Reads(b, s)' = call.val
      <4>1. CASE At(k, b, s) /\ Reads(b, s)' = Reads(b, s)
        BY <2>0, <4>1 DEF LossInv, OldOrNew
      <4>2. CASE PutRecord /\ b = blk /\ s = cur.slot
        BY <3>1, <4>2, WrittenBefore
      <4> QED BY <1>4, <3>1, <4>1, <4>2, AtBefore
    <3> QED BY <2>0, <3>1 DEF OldOrNew
  <2>2. Spared'
    <3> SUFFICES ASSUME pc' = "return", NEW k \in Keys, k \notin AtRisk' PROVE Same(k)'
      BY DEF Spared
    <3>0. /\ call.fn = "erase" => k.ns = Factory
          /\ call.fn = "clear" => k.ns # call.ns
          /\ call.fn \notin {"erase", "clear"} => k # OwnKey
      BY <2>0, NotAtRiskDone
    <3>1. CASE GetNamespaceFound \/ GetNamespaceError \/ bk_set_namespace
      BY <2>0, <3>1, HistNamespace DEF Untouched
    <3>2. CASE Idling
      <4>1. Same(k)
        <5>1. CASE Refuse \/ bk_set_namespace_fails \/ SetSameValue \/ NameError \/ NameFound
          BY <5>1 DEF Refuse, bk_set_namespace_fails, SetSameValue, NameError, NameFound, CleanName, ReadName, EnsureName,
                      Whole, HistInv, KeysInv, Untouched
        <5>2. CASE NewAddrFails \/ ReorganizeFull
          <6>1. OwnDropped /\ call.fn = "write"
            BY <5>2, CopyDone DEF NewAddrFails, ReorganizeFull, Whole, HistInv, KeysInv, FnInv, InBlock
          <6> QED BY <3>0, <6>1 DEF OwnDropped
        <5> QED BY <3>2, <5>1, <5>2 DEF Idling
      <4> QED BY <2>0, <3>2, <4>1, IdlingFacts, HistFails
    <3>3. CASE PutRecord
      <4>1. idx = 0 /\ call.fn = "write"
        BY <3>3 DEF PutRecord, Whole, FnInv, InBlock
      <4>2. OwnWritten'
        BY <2>0, <3>3, <4>1, HistAppended
      <4>3. (OwnWritten => \A j \in Keys \ {OwnKey} : Same(j))'
        BY DEF OwnWritten
      <4> QED BY <2>0, <3>0, <4>1, <4>2, <4>3
    <3>4. CASE NameFound /\ call.fn = "clean"
      <4>1. PICK m \in Slots : IsSlotOf(call.name, names[blk], m)
                               /\ names' = [names EXCEPT ![blk] = Masked(@, m)]
        BY <3>4 DEF NameFound, CleanName, ReadName, EnsureName
      <4>2. pc = "name" /\ UNCHANGED <<data, dir>>
        BY <3>4 DEF NameFound, CleanName, ReadName, EnsureName
      <4>3. OwnDropped'
        BY <2>0, <4>1, <4>2, HistMask DEF IsSlotOf
      <4>4. (OwnDropped => \A j \in Keys \ {OwnKey} : Same(j))'
        BY DEF OwnDropped
      <4> QED BY <2>0, <3>0, <3>4, <4>3, <4>4
    <3>5. CASE ClearDone
      <4>1. Cleared' /\ call.fn = "clear"
        BY <2>0, <3>5, HistClear DEF ClearDone, Whole, FnInv
      <4>2. (Cleared => \A j \in Keys : IF j.ns = call.ns THEN Gone(j) ELSE Same(j))'
        BY DEF Cleared
      <4> QED BY <2>0, <3>0, <4>1, <4>2
    <3>6. CASE EraseDone
      BY <2>0, <3>0, <3>6, HistErase DEF EraseDone, Whole, FnInv
    <3>7. CASE pc' # "return"
      BY <3>7
    <3>8. pc' # "return" \/ ~(\/ MaskOldValue \/ NoOldValue \/ NewAddrDirect \/ NewAddrReorganize
                              \/ PutData \/ EraseNames \/ EraseData \/ ReorganizeCopy \/ ReorganizePut
                              \/ ClearNames \/ ClearData \/ ClearDir \/ ClearRewrite \/ EraseSector)
      BY <2>0 DEF MaskOldValue, NoOldValue, NewAddrDirect, NewAddrReorganize, PutData, EraseNames,
                  EraseData, ReorganizeCopy, ReorganizePut, ClearNames, ClearData, ClearDir,
                  ClearRewrite, EraseSector
    <3> QED BY <1>4, <3>1, <3>2, <3>3, <3>4, <3>5, <3>6, <3>7, <3>8
            DEF Step, SetName, NewAddr, Reorganize, Clear, Idling
  <2> QED BY <2>1, <2>2 DEF LossInv
<1> QED BY <1>0, <1>1, <1>2, <1>3, <1>4 DEF HNext, Next

LEMMA LossInit == HInit => LossUntilFailure
BY DEF HInit, Init, LossUntilFailure, LossInv, OldOrNew, Spared

LEMMA LossKeep == Known /\ LossUntilFailure /\ [HNext]_hvars => LossUntilFailure'
<1> SUFFICES ASSUME Known, LossUntilFailure, [HNext]_hvars, Powered' PROVE LossInv'
  BY DEF LossUntilFailure
<1>1. [Next]_vars
  BY DEF HNext, hvars
<1>2. losses' = 0 /\ fails' = 0 /\ Powered
  BY <1>1, CountersGrow DEF Powered, Known
<1>3. DirInv' /\ Whole /\ LossInv
  BY <1>1, <1>2, DirStep DEF Known, Whole, LossUntilFailure
<1> QED BY <1>2, <1>3, LossStep

\* The same after a step.
LEMMA StoredFromNext ==
    (\A k \in Keys :
        \/ Stored(k) = Absent
        \/ \E b \in Blocks, s \in Slots :
              /\ dir[b] = k.ns /\ names[b][s].flag = "using" /\ names[b][s].name = k.name
              /\ Stored(k) = Reads(b, s))'
<1>1. \A k \in Keys :
        \/ Stored(k) = Absent
        \/ \E b \in Blocks, s \in Slots :
              /\ dir[b] = k.ns /\ names[b][s].flag = "using" /\ names[b][s].name = k.name
              /\ Stored(k) = Reads(b, s)
  BY StoredFrom
<1> QED BY <1>1, PTL

\* A record that is the only one of its name, in the only block of its namespace,
\* is found.
LEMMA StoredOnly ==
    ASSUME NEW k, NEW b \in Blocks, NEW s \in Slots,
           b \in BlocksOf(k.ns), dir[b] = k.ns, \A a \in Blocks : dir[a] = k.ns => a = b,
           names[b][s].flag = "using", names[b][s].name = k.name,
           \A t \in Slots : names[b][t].flag = "using" /\ names[b][t].name = k.name => t = s
    PROVE  Stored(k) = Reads(b, s)
<1>1. \A a \in BlocksOf(k.ns) : a \in Blocks /\ a \in Int
  BY SizesAssumption DEF BlocksOf, MatterBlocks, Blocks
<1>2. \A a \in Blocks : IsBlockOf(k.ns, a) <=> a = b
  BY <1>1 DEF IsBlockOf
<1>3. \A t \in Slots : IsSlotOf(k.name, names[b], t) <=> t = s
  BY SizesAssumption DEF IsSlotOf, Slots
<1>4. (CHOOSE a \in Blocks : IsBlockOf(k.ns, a)) = b
  BY <1>2
<1>5. (CHOOSE t \in Slots : IsSlotOf(k.name, names[b], t)) = s
  BY <1>3
<1>6. \E a \in Blocks, t \in Slots : IsBlockOf(k.ns, a) /\ IsSlotOf(k.name, names[a], t)
  BY <1>2, <1>3
<1> QED BY <1>4, <1>5, <1>6 DEF Stored, Reads

LEMMA StoredOnlyNext ==
    (\A k \in Keys, b \in Blocks, s \in Slots :
        /\ b \in BlocksOf(k.ns) /\ dir[b] = k.ns
        /\ names[b][s].flag = "using" /\ names[b][s].name = k.name
        /\ \A a \in Blocks : dir[a] = k.ns => a = b
        /\ \A t \in Slots : names[b][t].flag = "using" /\ names[b][t].name = k.name => t = s
        => Stored(k) = Reads(b, s))'
<1>1. \A k \in Keys, b \in Blocks, s \in Slots :
        /\ b \in BlocksOf(k.ns) /\ dir[b] = k.ns
        /\ names[b][s].flag = "using" /\ names[b][s].name = k.name
        /\ \A a \in Blocks : dir[a] = k.ns => a = b
        /\ \A t \in Slots : names[b][t].flag = "using" /\ names[b][t].name = k.name => t = s
        => Stored(k) = Reads(b, s)
  BY StoredOnly
<1> QED BY <1>1, PTL

\* A torn write makes no entry and no record with a text of the callers'.
LEMMA TornFacts ==
    ASSUME Whole, PowerLoss
    PROVE  /\ \A b \in Blocks : dir'[b] = dir[b] \/ dir'[b] = Torn
           /\ \A b \in Blocks, s \in Slots :
                 names'[b][s] = names[b][s] \/ (names[b][s].flag = "blank" /\ names'[b][s].name = Torn)
           /\ \A b \in Blocks : dir'[b] # dir[b] => dir[b] = Blank \/ (pc = "clear_loop" /\ idx <= NumBlocks /\ b = idx)
<1>0. /\ dir \in [Blocks -> Entries] /\ names \in [Blocks -> [Slots -> NameRecords]] /\ blk \in Blocks
  BY DEF Whole, Inv, TypeOK
<1>1. CASE UNCHANGED flash
  BY <1>1 DEF flash
<1>2. CASE pc = "put_data" /\ UNCHANGED <<dir, names>>
  BY <1>2
<1>3. CASE /\ pc = "put_record" /\ UNCHANGED dir
           /\ names' = [names EXCEPT ![blk][cur.slot] = Record(cur.off, Len(put.bytes), Torn)]
  <2>1. cur.slot \in Slots /\ names[blk][cur.slot].flag = "blank"
    BY <1>3 DEF Whole, Inv, PutsAreFree, PutFree
  <2> QED BY <1>0, <1>3, <2>1 DEF Record
<1>4. ASSUME NEW a \in Blocks, dir' = [dir EXCEPT ![a] = Torn], UNCHANGED names,
             dir[a] = Blank \/ (pc = "clear_loop" /\ idx <= NumBlocks /\ a = idx)
      PROVE  /\ \A b \in Blocks : dir'[b] = dir[b] \/ dir'[b] = Torn
             /\ \A b \in Blocks, s \in Slots :
                   names'[b][s] = names[b][s] \/ (names[b][s].flag = "blank" /\ names'[b][s].name = Torn)
             /\ \A b \in Blocks : dir'[b] # dir[b] => dir[b] = Blank \/ (pc = "clear_loop" /\ idx <= NumBlocks /\ b = idx)
  BY <1>0, <1>4
<1>5. CASE \E b \in Blocks : IsFreeBlock(call.ns, b) /\ dir' = [dir EXCEPT ![b] = Torn] /\ UNCHANGED names
  BY <1>4, <1>5 DEF IsFreeBlock
<1>6. CASE pc = "clear_loop" /\ idx <= NumBlocks /\ dir' = [dir EXCEPT ![idx] = Torn] /\ UNCHANGED names
  <2>1. idx \in Blocks
    BY <1>6, SizesAssumption DEF Whole, LoopInv, Blocks
  <2> QED BY <1>4, <1>6, <2>1
<1> QED BY <1>1, <1>2, <1>3, <1>5, <1>6 DEF PowerLoss, TornWrite

\* So what is found after the loss was there before, in its place.
LEMMA AtLoss ==
    ASSUME Whole, PowerLoss, NEW k \in Keys, NEW b \in Blocks, dir'[b] = k.ns
    PROVE  /\ Owner(b) = k.ns
           /\ \A s \in Slots : names'[b][s].flag = "using" /\ names'[b][s].name = k.name =>
                 At(k, b, s) /\ Reads(b, s)' = Reads(b, s)
<1>0. /\ k.ns \notin {Blank, Torn} /\ k.name \notin {Blank, Torn}
  BY KeysLemma, MarksAssumption
<1>1. dir[b] = k.ns
  BY <1>0, TornFacts
<1>2. Owner(b) = k.ns
  BY <1>0, <1>1 DEF Owner, Whole, DirInv, RewriteInv
<1>3. ASSUME NEW s \in Slots, names'[b][s].flag = "using", names'[b][s].name = k.name
      PROVE  At(k, b, s) /\ Reads(b, s)' = Reads(b, s)
  <2>1. names'[b][s] = names[b][s]
    BY <1>0, <1>3, TornFacts
  <2>2. KeepsRecord(b, s)
    BY NextKeeps DEF Whole, Next
  <2>3. Reads(b, s)' = Reads(b, s)
    BY <1>3, <2>1, <2>2, ReadsKept DEF KeepsRecord, Whole
  <2> QED BY <1>2, <1>3, <2>1, <2>3 DEF At
<1> QED BY <1>2, <1>3

\* The first power loss leaves every key with its old value, with the value that
\* was being written under its own name, or with nothing.
LEMMA LossOldOrNew ==
    ASSUME Whole, LossInv, PowerLoss, NEW k \in Keys
    PROVE  \/ Stored(k)' \in {before[k], Absent}
           \/ k = OwnKey /\ call.fn = "write" /\ Stored(k)' = call.val
<1>1. CASE Stored(k)' = Absent
  BY <1>1
<1>2. CASE Stored(k)' # Absent
  <2>1. PICK b \in Blocks, s \in Slots :
          /\ dir'[b] = k.ns /\ names'[b][s].flag = "using" /\ names'[b][s].name = k.name
          /\ Stored(k)' = Reads(b, s)'
    BY <1>2, StoredFromNext
  <2>2. At(k, b, s) /\ Stored(k)' = Reads(b, s)
    BY <2>1, AtLoss
  <2>3. pc # "idle"
    BY DEF PowerLoss
  <2> QED BY <2>2, <2>3 DEF LossInv, OldOrNew
<1> QED BY <1>1, <1>2

\* And a key that is not at risk it leaves as it was.
LEMMA LossSpares ==
    ASSUME Whole, LossInv, PowerLoss, NEW k \in Keys \ AtRisk
    PROVE  Stored(k)' = before[k]
<1>0. pc # "idle" /\ k.ns \notin {Blank, Torn} /\ k.name \notin {Blank, Torn}
  BY KeysLemma, MarksAssumption DEF PowerLoss
<1>1. Same(k)
  BY <1>0, SafeSame DEF LossInv, Spared
<1>2. CASE before[k] = Absent
  <2>1. Gone(k)
    BY <1>1, <1>2 DEF Same
  <2>2. ~\E b \in Blocks, s \in Slots :
            /\ dir'[b] = k.ns /\ names'[b][s].flag = "using" /\ names'[b][s].name = k.name
            /\ Stored(k)' = Reads(b, s)'
    BY <2>1, AtLoss DEF Gone
  <2> QED BY <1>2, <2>2, StoredFromNext
<1>3. CASE before[k] # Absent
  <2>1. PICK b \in Blocks, s \in Slots : At(k, b, s) /\ before[k] = Reads(b, s)
    BY <1>1, <1>3 DEF Same
  <2>2. Owner(b) = k.ns /\ b \in BlocksOf(k.ns) /\ \A a \in Blocks : Owner(a) = k.ns => a = b
    BY <1>0, <2>1 DEF At, Whole, DirInv, OwnersInv
  <2>3. dir[b] = k.ns /\ dir'[b] = k.ns
    <3>1. CASE pc = "clear_loop" /\ idx <= NumBlocks
      <4>1. k.ns = Factory
        BY <3>1, NotAtRisk DEF Rewriting, Whole, FnInv
      <4>2. b = 0 /\ b \notin MatterBlocks
        BY <2>2, <4>1 DEF BlocksOf, MatterBlocks
      <4>3. dir[b] = k.ns /\ b # idx
        BY <2>2, <3>1, <4>2 DEF Owner, Whole, LoopInv
      <4> QED BY <1>0, <4>3, TornFacts
    <3>2. CASE pc = "clear_loop" /\ ~(idx <= NumBlocks)
      <4>1. idx \in Nat /\ \A a \in MatterBlocks : a < idx
        BY <3>2, SizesAssumption DEF Whole, Inv, TypeOK, MatterBlocks
      <4>2. dir[b] = k.ns
        BY <2>2, <4>1, <3>2 DEF Owner, Whole, DirInv, RewriteInv
      <4> QED BY <1>0, <3>2, <4>2, TornFacts
    <3>3. CASE pc # "clear_loop"
      BY <1>0, <2>2, <3>3, TornFacts DEF Owner
    <3> QED BY <3>1, <3>2, <3>3
  <2>4. names'[b][s] = names[b][s] /\ names[b][s].flag = "using" /\ names[b][s].name = k.name
    BY <2>1, TornFacts DEF At
  <2>5. Reads(b, s)' = Reads(b, s)
    BY <2>3, <2>4, AtLoss
  <2>6. \A a \in Blocks : dir'[a] = k.ns => a = b
    BY <2>2, AtLoss
  <2>7. \A t \in Slots : names'[b][t].flag = "using" /\ names'[b][t].name = k.name => t = s
    BY <2>1, <2>3, AtLoss, AtUnique DEF Whole, HistInv
  <2>8. BlocksOf(k.ns)' = BlocksOf(k.ns)
    BY DEF BlocksOf
  <2>9. Stored(k)' = Reads(b, s)'
    BY <2>2, <2>3, <2>4, <2>6, <2>7, <2>8, StoredOnlyNext
  <2> QED BY <2>1, <2>5, <2>9
<1> QED BY <1>2, <1>3

\* The step at which the counter of losses changes, when it may change once.
LEMMA FirstLoss ==
    ASSUME MaxPowerLoss \in {0, 1}, Known, LossUntilFailure, [HNext]_hvars, losses' # losses,
           fails = 0
    PROVE  Whole /\ LossInv /\ PowerLoss
<1>1. PowerLoss
  <2>1. ~(\/ Call \/ Step \/ UNCHANGED hvars)
    BY DEF Call, bk_write_data, bk_clean_data, bk_read_data, bk_ensure_name_data,
           bK_clear_namespace, bk_ensure_namespace, bk_erase_all, Enter, hvars, vars,
           Step, Refuse, GetNamespaceFound, GetNamespaceError, bk_set_namespace,
           bk_set_namespace_fails, SetName, SetSameValue, MaskOldValue, NoOldValue,
           NewAddr, NewAddrDirect, NewAddrReorganize, NewAddrFails, PutData, PutRecord,
           Reorganize, EraseNames, EraseData, ReorganizeCopy, ReorganizePut, ReorganizeFull,
           NameFound, CleanName, ReadName, EnsureName, NameError, Clear, ClearNames, ClearData, ClearDir, ClearRewrite, ClearDone,
           EraseSector, EraseDone, Return
  <2> QED BY <2>1 DEF HNext, Next
<1>2. Powered
  BY <1>1 DEF PowerLoss, Powered, Known, Inv, TypeOK
<1> QED BY <1>1, <1>2 DEF Known, Whole, LossUntilFailure

\* Power loss, at any step of any call, leaves each key with what it read as
\* before the call, with the value the call was writing under its own name, or
\* with nothing: never with a part of a value or with another key's bytes.
THEOREM LossKeepsOldNewOrNothing ==
    ASSUME MaxPowerLoss \in {0, 1}
    PROVE  HSpec => PowerLossKeepsOldNewOrNothing
<1>1. Known /\ LossUntilFailure /\ [HNext]_hvars =>
        [losses' # losses /\ fails = 0 =>
            \A k \in Keys :
               \/ Stored(k)' \in {before[k], Absent}
               \/ k = OwnKey /\ call.fn = "write" /\ Stored(k)' = call.val]_hvars
  BY FirstLoss, LossOldOrNew
<1> QED BY <1>1, KnownInit, KnownStep, LossInit, LossKeep, PTL
        DEF HSpec, PowerLossKeepsOldNewOrNothing

\* Power loss costs only the keys the call is about, those of its namespace while
\* its block is compacted, and those of the partition while the directory is
\* written back.
THEOREM LossSparesOtherKeys ==
    ASSUME MaxPowerLoss \in {0, 1}
    PROVE  HSpec => PowerLossSparesOtherKeys
<1>1. Known /\ LossUntilFailure /\ [HNext]_hvars =>
        [losses' # losses /\ fails = 0 => \A k \in Keys \ AtRisk : Stored(k)' = before[k]]_hvars
  BY FirstLoss, LossSpares
<1> QED BY <1>1, KnownInit, KnownStep, LossInit, LossKeep, PTL DEF HSpec, PowerLossSparesOtherKeys

==================================================================
