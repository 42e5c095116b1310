------------------------- MODULE FlashPoweredProofs -------------------------
(***************************************************************************)
(* More theorems about FlashNamespace, on top of the invariant of          *)
(* FlashNamespaceProofs: every step of a call brings its return nearer,    *)
(* whatever fails on the way; until the first power loss a value only      *)
(* goes into erased cells; and until an allocation fails too, the          *)
(* directory gives each namespace one block, and a new one an erased one.  *)
(***************************************************************************)
EXTENDS FlashNamespaceProofs, WellFoundedInduction

-----------------------------------------------------------------------------
(* The invariants *)

\* The loops over the directory and over the sectors stay inside them.
LoopInv ==
    /\ pc = "clear_loop" => idx \in 1 .. NumBlocks + 1
    /\ pc = "erase" => idx \in 0 .. 2 * NumBlocks + 1

\* Cell c lies behind the data of every record of block b.
Beyond(b, c) ==
    \A s \in Slots : names[b][s].flag # "blank" => names[b][s].off + names[b][s].len <= c

\* The call has programmed this cell and not yet its record, or has erased the
\* records of the block and not yet its data.
InHand(b, c) ==
    \/ b = blk /\ pc = "put_record" /\ c < cur.off + Len(put.bytes)
    \/ b = blk /\ pc \in {"re_data", "clear_data"}
    \/ pc = "erase" /\ b \in MatterBlocks /\ b < idx /\ idx <= NumBlocks + b

\* Behind its records a block is erased.
ErasedInv ==
    \A b \in Blocks, c \in Cells : Beyond(b, c) => InHand(b, c) \/ data[b][c] = Bits

\* The namespace a block belongs to, also while the directory is rewritten.
Owner(b) == IF pc = "clear_loop" /\ b \in MatterBlocks THEN nsTemp[b] ELSE dir[b]

\* A namespace has its blocks in its own partition, and one of them at most.
OwnersInv ==
    /\ \A b \in Blocks : Owner(b) # Blank =>
          Owner(b) \in Namespaces /\ b \in BlocksOf(Owner(b))
    /\ \A a, b \in Blocks : Owner(a) = Owner(b) /\ Owner(a) # Blank => a = b

\* The steps of a call that has found or made the block of its namespace.
InBlock == {"set_name", "new_addr", "put_data", "put_record", "re_names", "re_data",
            "re_loop", "name", "clear_names", "clear_data", "clear_dir"}

\* What a call knows of the directory at each of its steps.
CallInv ==
    /\ pc \in InBlock => dir[blk] = call.ns
    /\ pc = "set_namespace" => \A b \in Blocks : dir[b] # call.ns
    /\ pc \in InBlock \cup {"namespace"} /\ call.fn = "clear" => call.ns # Factory
    /\ pc \in {"clear_names", "clear_data", "clear_dir"} => call.fn = "clear" /\ nsTemp = dir
    /\ pc = "clear_dir" => names[blk] = ErasedNames /\ data[blk] = ErasedData

\* The directory is being rewritten, or is erased with everything else.
RewriteInv ==
    /\ pc = "clear_loop" =>
          \A b \in MatterBlocks : dir[b] = IF b < idx THEN nsTemp[b] ELSE Blank
    /\ pc = "erase" => \A b \in MatterBlocks :
          /\ idx > 0 => dir[b] = Blank
          /\ NumBlocks + b < idx => data[b] = ErasedData

\* A block that belongs to no namespace is erased.
FreeInv ==
    \A b \in Blocks : Owner(b) = Blank /\ ~(pc = "erase" /\ b \in MatterBlocks) =>
        names[b] = ErasedNames /\ data[b] = ErasedData

DirInv == OwnersInv /\ CallInv /\ RewriteInv /\ FreeInv

\* What holds until the power is lost, and until an allocation fails.
ErasedUntilLoss == losses = 0 => ErasedInv
DirUntilFailure == losses = 0 /\ fails = 0 => DirInv


-----------------------------------------------------------------------------
(* Every step of a call brings its return nearer *)

\* Entering a function does not enter one of its loops.
LEMMA EnterFacts ==
    ASSUME Call
    PROVE  pc = "idle" /\ \/ pc' \in {"refused", "namespace"}
                          \/ pc' = "erase" /\ idx' = 0
BY DEF Call, bk_write_data, bk_clean_data, bk_read_data, bk_ensure_name_data,
       bK_clear_namespace, bk_ensure_namespace, bk_erase_all, Enter

\* The loops keep their bounds.
LEMMA LoopStep ==
    ASSUME Inv, LoopInv, [Next]_vars
    PROVE  LoopInv'
<1>0. idx \in Nat /\ NumBlocks \in Nat \ {0}
  BY SizesAssumption DEF Inv, TypeOK
<1>1. CASE Call
  BY <1>0, <1>1, EnterFacts DEF LoopInv
<1>2. CASE ClearDir
  BY <1>0, <1>2 DEF LoopInv, ClearDir
<1>3. CASE ClearRewrite
  BY <1>0, <1>3 DEF LoopInv, ClearRewrite
<1>4. CASE EraseSector
  BY <1>0, <1>4 DEF LoopInv, EraseSector
<1>5. CASE Return \/ PowerLoss
  BY <1>5 DEF LoopInv, Return, PowerLoss, Forget
<1>6. CASE \/ Refuse \/ GetNamespaceFound \/ GetNamespaceError
           \/ bk_set_namespace \/ bk_set_namespace_fails
  BY <1>6 DEF LoopInv, Refuse, GetNamespaceFound, GetNamespaceError, bk_set_namespace,
              bk_set_namespace_fails, Finish
<1>7. CASE SetName \/ NewAddr \/ NameFound \/ NameError
  BY <1>7 DEF LoopInv, SetName, SetSameValue, MaskOldValue, NoOldValue, NewAddr, NewAddrDirect,
              NewAddrReorganize, NewAddrFails, NameFound, CleanName, ReadName, EnsureName, NameError, Finish
<1>8. CASE PutData \/ PutRecord \/ Reorganize
  BY <1>8 DEF LoopInv, PutData, PutRecord, Reorganize, EraseNames, EraseData, ReorganizeCopy,
              ReorganizePut, ReorganizeFull, Finish
<1>9. CASE ClearNames \/ ClearData \/ ClearDone \/ EraseDone
  BY <1>9 DEF LoopInv, ClearNames, ClearData, ClearDone, EraseDone, Finish
<1>10. CASE UNCHANGED vars
  BY <1>10 DEF LoopInv, vars
<1> QED BY <1>1, <1>2, <1>3, <1>4, <1>5, <1>6, <1>7, <1>8, <1>9, <1>10 DEF Next, Step, Clear

\* What the steps left are at each step, with the bounds of the loops.
LEMMA StepsLeftLemma ==
    ASSUME Inv, LoopInv
    PROVE  /\ StepsLeft \in Nat
           /\ pc # "idle" => StepsLeft > 0
           /\ pc = "idle" => StepsLeft = 0
           /\ pc = "return" => StepsLeft = 1
           /\ pc \notin {"idle", "return"} => StepsLeft > 1
<1>0. idx \in Nat /\ NumBlocks \in Nat \ {0} /\ NumSlots \in Nat \ {0} /\ pc \in Steps
  BY SizesAssumption DEF Inv, TypeOK
<1>1. pc = "re_loop" \/ (Putting /\ idx # 0) => CompactLeft \in Nat /\ CompactLeft >= 5
  BY <1>0 DEF CompactLeft, Inv, CopyInv
<1>2. CASE pc \in {"re_loop", "put_data", "put_record"}
  BY <1>0, <1>1, <1>2 DEF StepsLeft, Putting
<1>3. CASE pc \in {"erase", "clear_loop"}
  BY <1>0, <1>3 DEF StepsLeft, LoopInv
<1>4. CASE pc \in {"idle", "return", "refused", "name", "clear_dir", "clear_data", "clear_names"}
  BY <1>0, <1>4 DEF StepsLeft
<1>5. CASE pc \in {"re_data", "re_names", "new_addr", "set_name", "set_namespace", "namespace"}
  BY <1>0, <1>5 DEF StepsLeft
<1> QED BY <1>0, <1>2, <1>3, <1>4, <1>5 DEF Steps

\* Every step of a call leaves it fewer steps.
LEMMA StepsLeftFall ==
    ASSUME Inv, LoopInv, Inv', LoopInv', Next, pc # "idle"
    PROVE  StepsLeft' < StepsLeft
<1>0. idx \in Nat /\ NumBlocks \in Nat \ {0} /\ NumSlots \in Nat \ {0} /\ pc \in Steps
  BY SizesAssumption DEF Inv, TypeOK
<1>a. StepsLeft \in Nat /\ StepsLeft > 0 /\ (pc # "return" => StepsLeft > 1)
  BY StepsLeftLemma
<1>b. pc' = "idle" => StepsLeft' = 0
  BY DEF StepsLeft
<1>c. pc' = "return" => StepsLeft' = 1
  BY DEF StepsLeft
<1>d. ~Call
  BY EnterFacts
<1>1. CASE pc' = "idle"
  BY <1>1, <1>a, <1>b
<1>2. CASE pc' = "return" /\ pc # "return"
  BY <1>2, <1>a, <1>c
<1>3. CASE GetNamespaceFound \/ GetNamespaceError
  <2>1. pc = "namespace" /\ pc' \in {"return", "set_namespace", "set_name", "clear_names", "name"}
    BY <1>3 DEF GetNamespaceFound, GetNamespaceError, Finish
  <2>2. StepsLeft = 3 * NumSlots + NumBlocks + 11
    BY <2>1 DEF StepsLeft
  <2> QED BY <2>1, <2>2, <1>0, <1>2 DEF StepsLeft
<1>4. CASE bk_set_namespace \/ SetName \/ NewAddr
  <2>1. CASE bk_set_namespace
    BY <2>1, <1>0, <1>2 DEF bk_set_namespace, Finish, StepsLeft
  <2>2. CASE SetName
    BY <2>2, <1>0, <1>2 DEF SetName, SetSameValue, MaskOldValue, NoOldValue, Finish, StepsLeft
  <2>3. CASE NewAddrDirect
    <3>1. idx = 0 /\ idx' = 0 /\ pc = "new_addr" /\ pc' = "put_data"
      BY <2>3 DEF NewAddrDirect, Inv, IdxInv, Linear
    <3> QED BY <3>1, <1>0 DEF StepsLeft
  <2>4. CASE NewAddrReorganize \/ NewAddrFails
    BY <2>4, <1>0, <1>2 DEF NewAddrReorganize, NewAddrFails, Finish, StepsLeft
  <2> QED BY <1>4, <2>1, <2>2, <2>3, <2>4 DEF NewAddr
<1>5. CASE PutData
  <2>1. pc = "put_data" /\ pc' = "put_record" /\ idx' = idx
    BY <1>5 DEF PutData, volatile
  <2>2. idx # 0 => CompactLeft \in Nat /\ CompactLeft' = CompactLeft
    BY <2>1, <1>0 DEF CompactLeft, Inv, CopyInv, Putting
  <2> QED BY <2>1, <2>2 DEF StepsLeft
<1>6. CASE PutRecord
  <2>1. pc = "put_record" /\ idx' = idx /\ IF idx = 0 THEN pc' = "return" ELSE pc' = "re_loop"
    BY <1>6 DEF PutRecord, Finish
  <2>2. idx # 0 => CompactLeft \in Nat /\ CompactLeft' = CompactLeft
    BY <2>1, <1>0 DEF CompactLeft, Inv, CopyInv, Putting
  <2> QED BY <2>1, <2>2 DEF StepsLeft
<1>7. CASE EraseNames \/ EraseData
  BY <1>7, <1>0 DEF EraseNames, EraseData, StepsLeft, CompactLeft
<1>8. CASE ReorganizeCopy
  <2>1. pc = "re_loop" /\ idx' = idx + 1 /\ idx' # 0 /\ pc' \in {"re_loop", "put_data"}
    BY <1>8, <1>0 DEF ReorganizeCopy
  <2>2. CompactLeft \in Nat /\ CompactLeft' = CompactLeft - 3
    BY <2>1, <1>0 DEF CompactLeft, Inv, CopyInv
  <2> QED BY <2>1, <2>2 DEF StepsLeft
<1>9. CASE ReorganizePut
  <2>1. pc = "re_loop" /\ pc' = "put_data" /\ idx' = 0 /\ idx = NumSlots + 1
    BY <1>9, <1>0 DEF ReorganizePut, Inv, CopyInv
  <2> QED BY <2>1, <1>0 DEF StepsLeft, CompactLeft
<1>10. CASE ClearNames \/ ClearData \/ ClearDir \/ ClearRewrite
  <2>1. CASE ClearNames \/ ClearData \/ ClearDir
    BY <2>1, <1>0 DEF ClearNames, ClearData, ClearDir, StepsLeft
  <2>2. CASE ClearRewrite
    BY <2>2, <1>0 DEF ClearRewrite, StepsLeft
  <2> QED BY <1>10, <2>1, <2>2
<1>11. CASE EraseSector
  BY <1>11, <1>0 DEF EraseSector, StepsLeft
<1>12. CASE \/ Refuse \/ bk_set_namespace_fails \/ ReorganizeFull \/ NameFound \/ NameError
            \/ ClearDone \/ EraseDone
  <2>1. pc # "return" /\ pc' = "return"
    BY <1>12 DEF Refuse, bk_set_namespace_fails, ReorganizeFull, NameFound, CleanName, ReadName, EnsureName, NameError,
                 ClearDone, EraseDone, Finish
  <2> QED BY <2>1, <1>2
<1>13. CASE Return \/ PowerLoss
  <2>1. pc' = "idle"
    BY <1>13 DEF Return, PowerLoss, Forget
  <2> QED BY <2>1, <1>1
<1> QED BY <1>d, <1>3, <1>4, <1>5, <1>6, <1>7, <1>8, <1>9, <1>10, <1>11, <1>12, <1>13
        DEF Next, Step, Reorganize, Clear

\* Whatever fails or is lost, no loop of a call runs on: every step of a call,
\* and a power loss, brings its return nearer.
THEOREM CallsAlwaysAdvance == Spec => CallsAdvance
<1>1. Init => LoopInv
  BY DEF Init, LoopInv
<1>2. Inv /\ LoopInv /\ [Next]_vars => LoopInv'
  BY LoopStep
<1>3. Inv /\ LoopInv => StepsLeft \in Nat
  BY StepsLeftLemma
<1>4. Inv' /\ LoopInv' => (StepsLeft \in Nat)'
  BY <1>3, PTL
<1>5. Inv /\ LoopInv /\ Inv' /\ LoopInv' /\ [Next]_vars =>
         [pc # "idle" => StepsLeft' \in Nat /\ StepsLeft' < StepsLeft]_vars
  BY <1>4, StepsLeftFall
<1> QED BY <1>1, <1>2, <1>5, InitInv, NextInv, PTL DEF Spec, CallsAdvance


-----------------------------------------------------------------------------
(* Losses and failures *)

\* Power losses and failed allocations are counted and never forgotten.
LEMMA CountersGrow ==
    ASSUME Inv, [Next]_vars
    PROVE  (losses' = 0 => losses = 0) /\ (fails' = 0 => fails = 0)
<1>0. losses \in Nat /\ fails \in Nat
  BY DEF Inv, TypeOK
<1>1. losses' \in {losses, losses + 1} /\ fails' \in {fails, fails + 1}
  <2>1. CASE Call
    BY <2>1 DEF Call, bk_write_data, bk_clean_data, bk_read_data, bk_ensure_name_data,
                bK_clear_namespace, bk_ensure_namespace, bk_erase_all, Enter
  <2>2. CASE Step
    BY <2>2 DEF Step, Refuse, GetNamespaceFound, GetNamespaceError, bk_set_namespace,
                bk_set_namespace_fails, SetName, SetSameValue, MaskOldValue, NoOldValue,
                NewAddr, NewAddrDirect, NewAddrReorganize, NewAddrFails, PutData, PutRecord,
                Reorganize, EraseNames, EraseData, ReorganizeCopy, ReorganizePut,
                ReorganizeFull, NameFound, CleanName, ReadName, EnsureName, NameError, Clear, ClearNames, ClearData, ClearDir,
                ClearRewrite, ClearDone, EraseSector, EraseDone, Return, MallocFails
  <2>3. CASE PowerLoss
    BY <2>3 DEF PowerLoss
  <2>4. CASE UNCHANGED vars
    BY <2>4 DEF vars
  <2> QED BY <2>1, <2>2, <2>3, <2>4 DEF Next
<1> QED BY <1>0, <1>1

-----------------------------------------------------------------------------
(* Behind its records a block is erased *)

\* The steps that leave the flash alone and have nothing in hand.
LEMMA ErasedQuiet ==
    ASSUME ErasedInv, UNCHANGED <<names, data>>,
           pc \notin {"put_record", "re_data", "clear_data", "erase"}
    PROVE  ErasedInv'
BY DEF ErasedInv, Beyond, InHand

\* Masking a record moves nothing.
LEMMA ErasedMask ==
    ASSUME Inv, ErasedInv, pc \in {"set_name", "name"}, NEW m \in Slots,
           names[blk][m].flag = "using",
           names' = [names EXCEPT ![blk] = Masked(@, m)], UNCHANGED data
    PROVE  ErasedInv'
<1>1. names \in [Blocks -> [Slots -> NameRecords]] /\ blk \in Blocks
  BY DEF Inv, TypeOK
<1>2. \A b \in Blocks, s \in Slots : /\ names'[b][s].off = names[b][s].off
                                     /\ names'[b][s].len = names[b][s].len
                                     /\ names'[b][s].flag = "blank" <=> names[b][s].flag = "blank"
  BY <1>1 DEF Masked, NameRecords
<1>3. \A b \in Blocks, c \in Cells : Beyond(b, c)' => Beyond(b, c)
  BY <1>2 DEF Beyond
<1>4. \A b \in Blocks, c \in Cells : ~InHand(b, c)
  BY DEF InHand
<1> QED BY <1>3, <1>4 DEF ErasedInv

\* A value goes behind the records, and its record takes what it covers.
LEMMA ErasedPut ==
    ASSUME Inv, ErasedInv, PutData \/ PutRecord
    PROVE  ErasedInv'
<1>0. /\ names \in [Blocks -> [Slots -> NameRecords]] /\ data \in [Blocks -> [Cells -> Bytes]]
      /\ blk \in Blocks /\ cur.off \in Nat /\ put.bytes \in Seq(Bytes) /\ Len(put.bytes) \in Nat
  BY DEF Inv, TypeOK
<1>1. CASE PutData
  <2> SUFFICES ASSUME NEW b \in Blocks, NEW c \in Cells, Beyond(b, c)', ~InHand(b, c)'
               PROVE  data'[b][c] = Bits
    BY DEF ErasedInv
  <2>1. /\ pc = "put_data" /\ pc' = "put_record" /\ UNCHANGED <<names, blk, cur, put>>
        /\ data' = [data EXCEPT ![blk] = Program(@, cur.off, put.bytes)]
    BY <1>1 DEF PutData, volatile
  <2>2. data[b][c] = Bits
    BY <2>1 DEF ErasedInv, Beyond, InHand
  <2>3. CASE b = blk
    <3>1. c >= cur.off + Len(put.bytes)
      BY <2>1, <2>3, <1>0 DEF InHand, Cells
    <3>2. data'[b] = Program(data[blk], cur.off, put.bytes)
      BY <2>1, <2>3, <1>0
    <3>3. Program(data[blk], cur.off, put.bytes)[c] = data[blk][c]
      BY <3>1, <1>0, ProgramLemma
    <3> QED BY <2>2, <2>3, <3>2, <3>3
  <2>4. CASE b # blk
    BY <2>1, <2>2, <2>4, <1>0
  <2> QED BY <2>3, <2>4
<1>2. CASE PutRecord
  <2> SUFFICES ASSUME NEW b \in Blocks, NEW c \in Cells, Beyond(b, c)'
               PROVE  data'[b][c] = Bits
    BY DEF ErasedInv
  <2>1. /\ pc = "put_record" /\ UNCHANGED data
        /\ names' = [names EXCEPT ![blk][cur.slot] = Record(cur.off, Len(put.bytes), put.name)]
    BY <1>2 DEF PutRecord
  <2>2. cur.slot \in Slots /\ names[blk][cur.slot].flag = "blank"
    BY <2>1 DEF Inv, PutsAreFree, PutFree
  <2>3. \A t \in Slots : b # blk \/ t # cur.slot => names'[b][t] = names[b][t]
    BY <2>1, <2>2, <1>0
  <2>4. Beyond(b, c)
    BY <2>2, <2>3 DEF Beyond
  <2>5. b = blk => c >= cur.off + Len(put.bytes)
    <3>1. b = blk => names'[b][cur.slot] = Record(cur.off, Len(put.bytes), put.name)
      BY <2>1, <2>2, <1>0
    <3> QED BY <3>1, <2>2 DEF Beyond, Record
  <2>6. ~InHand(b, c)
    BY <2>1, <2>5, <1>0 DEF InHand, Cells
  <2> QED BY <2>1, <2>4, <2>6 DEF ErasedInv
<1> QED BY <1>1, <1>2

\* A sector of records goes first, then the data of the same block.
LEMMA ErasedErase ==
    ASSUME Inv, ErasedInv, EraseNames \/ ClearNames \/ EraseData \/ ClearData
    PROVE  ErasedInv'
<1>0. /\ names \in [Blocks -> [Slots -> NameRecords]] /\ data \in [Blocks -> [Cells -> Bytes]]
      /\ blk \in Blocks
  BY DEF Inv, TypeOK
<1>1. CASE EraseNames \/ ClearNames
  <2>1. /\ pc \in {"re_names", "clear_names"} /\ pc' \in {"re_data", "clear_data"}
        /\ UNCHANGED <<data, blk>> /\ \A b \in Blocks : b # blk => names'[b] = names[b]
    BY <1>0, <1>1 DEF EraseNames, ClearNames, volatile
  <2> QED BY <2>1 DEF ErasedInv, Beyond, InHand
<1>2. CASE EraseData \/ ClearData
  <2>1. /\ pc \in {"re_data", "clear_data"} /\ UNCHANGED names
        /\ \A b \in Blocks : data'[b] = IF b = blk THEN ErasedData ELSE data[b]
    BY <1>0, <1>2 DEF EraseData, ClearData
  <2>2. \A c \in Cells : ErasedData[c] = Bits
    BY DEF ErasedData
  <2> QED BY <2>1, <2>2 DEF ErasedInv, Beyond, InHand
<1> QED BY <1>1, <1>2

\* The same for all blocks of the partition.
LEMMA ErasedEraseAll ==
    ASSUME Inv, ErasedInv, EraseSector \/ EraseDone
    PROVE  ErasedInv'
<1>0. /\ idx \in Nat /\ NumBlocks \in Nat \ {0} /\ pc = "erase"
  BY SizesAssumption DEF Inv, TypeOK, EraseSector, EraseDone
<1>1. CASE EraseSector
  <2> SUFFICES ASSUME NEW b \in Blocks, NEW c \in Cells, Beyond(b, c)', ~InHand(b, c)'
               PROVE  data'[b][c] = Bits
    BY DEF ErasedInv
  <2>0. b \in Nat /\ b <= NumBlocks /\ (b # 0 <=> b \in MatterBlocks)
    BY <1>0 DEF Blocks, MatterBlocks
  <2>1. /\ pc' = "erase" /\ idx' = idx + 1
        /\ names'[b] = IF idx = b /\ b # 0 THEN ErasedNames ELSE names[b]
        /\ data'[b] = IF idx = NumBlocks + b /\ b # 0 THEN ErasedData ELSE data[b]
    BY <1>1 DEF EraseSector
  <2>2. b # 0 => ~(b < idx + 1 /\ idx + 1 <= NumBlocks + b)
    BY <2>0, <2>1 DEF InHand
  <2>3. CASE idx = NumBlocks + b /\ b # 0
    BY <2>1, <2>3 DEF ErasedData
  <2>4. CASE ~(idx = NumBlocks + b /\ b # 0)
    <3>1. ~(idx = b /\ b # 0)
      BY <2>0, <2>2, <1>0
    <3>2. Beyond(b, c)
      BY <2>1, <3>1 DEF Beyond
    <3>3. ~InHand(b, c)
      BY <2>0, <2>2, <2>4, <1>0 DEF InHand
    <3> QED BY <2>1, <2>4, <3>2, <3>3 DEF ErasedInv
  <2> QED BY <2>3, <2>4
<1>2. CASE EraseDone
  <2>1. UNCHANGED <<names, data>> /\ idx > 2 * NumBlocks
    BY <1>2 DEF EraseDone, flash
  <2>2. \A b \in Blocks, c \in Cells : ~InHand(b, c)
    BY <1>0, <2>1 DEF InHand, MatterBlocks
  <2> QED BY <2>1, <2>2 DEF ErasedInv, Beyond
<1> QED BY <1>1, <1>2

\* Every step but a power loss keeps the blocks erased behind their records.
LEMMA ErasedStep ==
    ASSUME Inv, ErasedInv, [Next]_vars, losses' = 0
    PROVE  ErasedInv'
<1>1. ~PowerLoss
  BY DEF PowerLoss, Inv, TypeOK
<1>2. CASE Call
  <2>1. UNCHANGED <<names, data>> /\ pc = "idle"
    BY <1>2 DEF Call, bk_write_data, bk_clean_data, bk_read_data, bk_ensure_name_data,
                bK_clear_namespace, bk_ensure_namespace, bk_erase_all, Enter, flash
  <2> QED BY <2>1, ErasedQuiet
<1>3. CASE Refuse \/ GetNamespaceFound \/ GetNamespaceError \/ bk_set_namespace \/ bk_set_namespace_fails
  BY <1>3, ErasedQuiet DEF Refuse, GetNamespaceFound, GetNamespaceError, bk_set_namespace,
                           bk_set_namespace_fails, flash
<1>4. CASE MaskOldValue
  BY <1>4, ErasedMask DEF MaskOldValue, IsSlotOf
<1>5. CASE NameFound
  <2>1. CASE UNCHANGED names
    BY <1>5, <2>1, ErasedQuiet DEF NameFound, CleanName, ReadName, EnsureName
  <2>2. CASE names' # names
    BY <1>5, <2>2, ErasedMask DEF NameFound, CleanName, ReadName, EnsureName, IsSlotOf
  <2> QED BY <2>1, <2>2
<1>6. CASE SetSameValue \/ NoOldValue \/ NewAddr \/ NameError
  BY <1>6, ErasedQuiet DEF SetSameValue, NoOldValue, NewAddr, NewAddrDirect, NewAddrReorganize,
                           NewAddrFails, NameError, flash
<1>7. CASE PutData \/ PutRecord
  BY <1>7, ErasedPut
<1>8. CASE EraseNames \/ ClearNames \/ EraseData \/ ClearData
  BY <1>8, ErasedErase
<1>9. CASE ReorganizeCopy \/ ReorganizePut \/ ReorganizeFull
  BY <1>9, ErasedQuiet DEF ReorganizeCopy, ReorganizePut, ReorganizeFull, flash
<1>10. CASE ClearDir \/ ClearRewrite \/ ClearDone \/ Return
  BY <1>10, ErasedQuiet DEF ClearDir, ClearRewrite, ClearDone, Return, flash
<1>11. CASE EraseSector \/ EraseDone
  BY <1>11, ErasedEraseAll
<1>12. CASE UNCHANGED vars
  BY <1>12 DEF vars, ErasedInv, Beyond, InHand
<1> QED BY <1>1, <1>2, <1>3, <1>4, <1>5, <1>6, <1>7, <1>8, <1>9, <1>10, <1>11, <1>12
        DEF Next, Step, SetName, Reorganize, Clear

\* An erased flash, and the one record of the factory.
LEMMA ErasedInit == Init => ErasedInv
<1> SUFFICES ASSUME Init PROVE ErasedInv
  OBVIOUS
<1>1. CASE data = [b \in Blocks |-> ErasedData]
  BY <1>1 DEF ErasedInv, ErasedData
<1>2. ASSUME NEW a \in Accesses, NEW v \in Values, Len(v) < SectorSize,
             names = [b \in Blocks |-> IF b = 0
                          THEN [ErasedNames EXCEPT ![1] = Record(0, Len(v), a[2])]
                          ELSE ErasedNames],
             data = [b \in Blocks |-> IF b = 0 THEN Program(ErasedData, 0, v) ELSE ErasedData]
      PROVE  ErasedInv
  <2> SUFFICES ASSUME NEW b \in Blocks, NEW c \in Cells, Beyond(b, c)
               PROVE  data[b][c] = Bits
    BY DEF ErasedInv
  <2>1. v \in Seq(Bytes) /\ Len(v) \in Nat /\ ErasedData \in [Cells -> Bytes]
    BY ValuesAssumption, ErasedLemma
  <2>2. CASE b = 0
    <3>1. 1 \in Slots /\ names[b][1] = Record(0, Len(v), a[2])
      BY <1>2, <2>2, SizesAssumption DEF Slots, ErasedNames
    <3>2. c >= 0 + Len(v)
      BY <3>1, <2>1 DEF Beyond, Record, Cells
    <3>3. Program(ErasedData, 0, v)[c] = ErasedData[c]
      BY <3>2, <2>1, ProgramLemma
    <3> QED BY <1>2, <2>2, <3>3 DEF ErasedData
  <2>3. CASE b # 0
    BY <1>2, <2>3 DEF ErasedData
  <2> QED BY <2>2, <2>3
<1> QED BY <1>1, <1>2 DEF Init

\* What is programmed lies behind the records.
LEMMA PutsErased == Inv /\ ErasedInv => PutsIntoErasedCells
<1> SUFFICES ASSUME Inv, ErasedInv, pc = "put_data", NEW c \in Cells, c >= cur.off
             PROVE  data[blk][c] = Bits
  BY DEF PutsIntoErasedCells
<1>1. /\ names[blk] \in [Slots -> NameRecords] /\ OrderedRecords(names[blk])
      /\ blk \in Blocks /\ cur.off \in Nat /\ c \in Nat
  BY DEF Inv, TypeOK, RecordsOrdered, Cells
<1>2. /\ cur.slot \in Slots /\ names[blk][cur.slot].flag = "blank"
      /\ \A t \in 1 .. (cur.slot - 1) : names[blk][t].off + names[blk][t].len <= cur.off
  BY DEF Inv, PutsAreFree, PutFree
<1>3. ASSUME NEW s \in Slots, names[blk][s].flag # "blank"
      PROVE  names[blk][s].off + names[blk][s].len <= c
  <2>1. cur.slot \notin 1 .. (s - 1) /\ s # cur.slot
    BY <1>1, <1>2, <1>3 DEF OrderedRecords
  <2>2. s \in 1 .. (cur.slot - 1)
    BY <2>1, <1>2, SizesAssumption DEF Slots
  <2>3. names[blk][s].off \in Nat /\ names[blk][s].len \in Nat
    BY <1>1 DEF NameRecords
  <2> QED BY <2>2, <2>3, <1>1, <1>2
<1>4. Beyond(blk, c)
  BY <1>3 DEF Beyond
<1> QED BY <1>1, <1>4 DEF ErasedInv, InHand

\* Until the first power loss a value is programmed into erased cells only, when
\* it is appended and when a compaction copies it.
THEOREM PutsErasedCells == Spec => [](losses = 0 => PutsIntoErasedCells)
<1>1. Inv /\ ErasedUntilLoss /\ [Next]_vars => ErasedUntilLoss'
  BY ErasedStep, CountersGrow DEF ErasedUntilLoss
<1>2. Init => ErasedUntilLoss
  BY ErasedInit DEF ErasedUntilLoss
<1>3. Inv /\ ErasedUntilLoss => (losses = 0 => PutsIntoErasedCells)
  BY PutsErased DEF ErasedUntilLoss
<1> QED BY <1>1, <1>2, <1>3, InitInv, NextInv, PTL DEF Spec


-----------------------------------------------------------------------------
(* The directory *)

\* When the search for a namespace finds no first entry, there is none at all.
LEMMA NoFirstBlock ==
    ASSUME NEW ns, \A b \in Blocks : ~IsBlockOf(ns, b),
           NEW a \in Blocks, a \in BlocksOf(ns), dir[a] = ns
    PROVE  FALSE
<1> DEFINE T == {b \in Blocks : b \in BlocksOf(ns) /\ dir[b] = ns}
           R == OpToRel(<, Nat)
<1>1. T \subseteq Nat /\ T # {} /\ BlocksOf(ns) \subseteq Blocks
  BY SizesAssumption DEF Blocks, BlocksOf, MatterBlocks
<1>2. PICK x \in T : \A y \in T : ~(<<y, x>> \in R)
  <2>1. IsWellFoundedOn(R, Nat)
    BY NatLessThanWellFounded DEF R
  <2> HIDE DEF T, R
  <2> QED BY <1>1, <2>1, WFMin
<1>3. \A y \in T : ~(y < x)
  BY <1>1, <1>2 DEF OpToRel
<1>4. IsBlockOf(ns, x)
  BY <1>1, <1>3 DEF IsBlockOf
<1> QED BY <1>4

\* Outside the loops over the directory an owner is a directory entry.
LEMMA OwnerDir == pc # "clear_loop" => \A b \in Blocks : Owner(b) = dir[b]
BY DEF Owner

\* A step that leaves the directory alone and writes only into a block that
\* belongs to a namespace.
LEMMA DirSame ==
    ASSUME DirInv, pc \notin {"clear_loop", "erase"}, pc' \notin {"clear_loop", "erase"},
           UNCHANGED dir, CallInv',
           \A b \in Blocks : dir[b] = Blank => names'[b] = names[b] /\ data'[b] = data[b]
    PROVE  DirInv'
<1>1. \A b \in Blocks : Owner(b)' = Owner(b) /\ Owner(b) = dir[b]
  BY DEF Owner
<1>2. OwnersInv'
  BY <1>1 DEF DirInv, OwnersInv
<1>3. RewriteInv'
  BY DEF RewriteInv
<1>4. FreeInv'
  BY <1>1 DEF DirInv, FreeInv
<1> QED BY <1>2, <1>3, <1>4 DEF DirInv

\* A block a call works in has an owner.
LEMMA BlockOwned ==
    ASSUME Inv, DirInv, pc \in InBlock
    PROVE  dir[blk] = call.ns /\ call.ns # Blank /\ blk \in Blocks
BY MarksAssumption DEF Inv, TypeOK, Calls, DirInv, CallInv

\* Entering a function.
LEMMA DirEnter ==
    ASSUME Inv, DirInv, Call
    PROVE  DirInv'
<1>1. ASSUME NEW c, NEW step, Enter(c, step), step \in {"refused", "namespace"},
             c.fn = "clear" /\ step = "namespace" => c.ns # Factory
      PROVE  DirInv'
  <2>1. CallInv'
    BY <1>1 DEF CallInv, Enter, InBlock
  <2> QED BY <1>1, <2>1, DirSame DEF Enter, flash
<1>2. ASSUME NEW fn \in {"write", "clean", "read", "exists"}, NEW k, NEW v, NEW l
      PROVE  CallOf(fn, k, v, l).fn # "clear"
  BY DEF CallOf
<1>3. ASSUME NEW a \in Accesses, NEW v \in Values, bk_write_data(a[1], a[2], v)
      PROVE  DirInv'
  BY <1>1, <1>2, <1>3 DEF bk_write_data
<1>4. ASSUME NEW a \in Accesses, bk_clean_data(a[1], a[2])
      PROVE  DirInv'
  BY <1>1, <1>2, <1>4 DEF bk_clean_data
<1>5. ASSUME NEW a \in Accesses, NEW l \in ReadLens, bk_read_data(a[1], a[2], l)
      PROVE  DirInv'
  BY <1>1, <1>2, <1>5 DEF bk_read_data
<1>6. ASSUME NEW a \in Accesses, bk_ensure_name_data(a[1], a[2])
      PROVE  DirInv'
  BY <1>1, <1>2, <1>6 DEF bk_ensure_name_data
<1>7. ASSUME NEW ns \in Namespaces, bK_clear_namespace(ns)
      PROVE  DirInv'
  BY <1>1, <1>7 DEF bK_clear_namespace, CallOf
<1>8. ASSUME NEW ns \in Namespaces, bk_ensure_namespace(ns)
      PROVE  DirInv'
  BY <1>1, <1>8 DEF bk_ensure_namespace, CallOf
<1>9. ASSUME bk_erase_all
      PROVE  DirInv'
  <2>1. pc = "idle" /\ pc' = "erase" /\ idx' = 0 /\ UNCHANGED <<dir, names, data, nsTemp>>
    BY <1>9 DEF bk_erase_all, flash
  <2>2. \A b \in Blocks : Owner(b)' = Owner(b)
    BY <2>1 DEF Owner
  <2>3. OwnersInv' /\ FreeInv'
    BY <2>1, <2>2 DEF DirInv, OwnersInv, FreeInv
  <2>4. CallInv' /\ RewriteInv'
    BY <2>1, SizesAssumption DEF CallInv, RewriteInv, InBlock, MatterBlocks
  <2> QED BY <2>3, <2>4 DEF DirInv
<1> QED BY <1>3, <1>4, <1>5, <1>6, <1>7, <1>8, <1>9 DEF Call

\* Finding the namespace or giving it the first free block.
LEMMA DirNamespace ==
    ASSUME Inv, DirInv, fails' = 0,
           \/ GetNamespaceFound \/ GetNamespaceError
           \/ bk_set_namespace \/ bk_set_namespace_fails \/ Refuse
    PROVE  DirInv'
<1>0. /\ dir \in [Blocks -> Entries] /\ call.ns \in Namespaces
      /\ ~MallocFails
  BY DEF Inv, TypeOK, Calls, MallocFails
<1>1. CASE GetNamespaceFound
  <2>1. CallInv'
    BY <1>1 DEF DirInv, CallInv, GetNamespaceFound, IsBlockOf, InBlock, Finish, flash
  <2> QED BY <1>1, <2>1, DirSame DEF GetNamespaceFound, Finish, flash
<1>2. CASE GetNamespaceError
  <2>1. /\ pc = "namespace" /\ pc' \in {"set_namespace", "return"} /\ UNCHANGED <<dir, names, data, call>>
        /\ \A b \in Blocks : ~IsBlockOf(call.ns, b)
    BY <1>0, <1>2 DEF GetNamespaceError, Finish, flash
  <2>2. \A b \in Blocks : dir[b] # call.ns
    <3> SUFFICES ASSUME NEW b \in Blocks, dir[b] = call.ns PROVE FALSE
      OBVIOUS
    <3>1. b \in BlocksOf(call.ns)
      BY <1>0, <2>1, MarksAssumption DEF DirInv, OwnersInv, Owner
    <3> QED BY <2>1, <3>1, NoFirstBlock
  <2>3. CallInv'
    BY <2>1, <2>2 DEF CallInv, InBlock
  <2> QED BY <2>1, <2>3, DirSame
<1>3. CASE bk_set_namespace
  <2> PICK b \in Blocks :
          IsFreeBlock(call.ns, b) /\ dir' = [dir EXCEPT ![b] = call.ns] /\ blk' = b
    BY <1>3 DEF bk_set_namespace
  <2>1. /\ pc = "set_namespace" /\ pc' \in {"return", "set_name"}
        /\ pc' = "set_name" => call.fn = "write"
        /\ UNCHANGED <<names, data, call>>
        /\ b \in BlocksOf(call.ns) /\ dir[b] = Blank
    BY <1>3 DEF bk_set_namespace, Finish, IsFreeBlock
  <2>2. \A a \in Blocks : dir'[a] = IF a = b THEN call.ns ELSE dir[a]
    BY <1>0
  <2>3. \A a \in Blocks : Owner(a) = dir[a] /\ Owner(a)' = dir'[a]
    BY <2>1 DEF Owner
  <2>4. \A a \in Blocks : dir[a] # call.ns
    BY <2>1 DEF DirInv, CallInv
  <2>5. OwnersInv'
    <3>1. ASSUME NEW a \in Blocks, dir'[a] # Blank
          PROVE  dir'[a] \in Namespaces /\ a \in BlocksOf(dir'[a])
      BY <3>1, <1>0, <2>1, <2>2, <2>3 DEF DirInv, OwnersInv
    <3>2. ASSUME NEW a \in Blocks, NEW c \in Blocks, dir'[a] = dir'[c], dir'[a] # Blank
          PROVE  a = c
      BY <3>2, <2>2, <2>3, <2>4 DEF DirInv, OwnersInv
    <3>3. \A ns : BlocksOf(ns)' = BlocksOf(ns)
      BY DEF BlocksOf
    <3> QED BY <3>1, <3>2, <2>3 DEF OwnersInv
  <2>6. FreeInv'
    BY <2>1, <2>2, <2>3, <1>0, MarksAssumption DEF DirInv, FreeInv
  <2>7. CallInv' /\ RewriteInv'
    BY <2>1, <2>2 DEF CallInv, RewriteInv, InBlock
  <2> QED BY <2>5, <2>6, <2>7 DEF DirInv
<1>4. CASE bk_set_namespace_fails \/ Refuse
  <2>1. CallInv'
    BY <1>4 DEF CallInv, bk_set_namespace_fails, Refuse, Finish, InBlock
  <2> QED BY <1>4, <2>1, DirSame DEF bk_set_namespace_fails, Refuse, Finish, flash
<1> QED BY <1>1, <1>2, <1>3, <1>4

\* The steps inside the block of the call's namespace.
LEMMA DirInBlock ==
    ASSUME Inv, DirInv,
           SetName \/ NewAddr \/ PutData \/ PutRecord \/ Reorganize \/ NameFound \/ NameError
    PROVE  DirInv'
<1>1. pc \in InBlock \ {"clear_names", "clear_data", "clear_dir"} /\ UNCHANGED <<dir, call, blk>>
  BY DEF SetName, SetSameValue, MaskOldValue, NoOldValue, NewAddr, NewAddrDirect,
         NewAddrReorganize, NewAddrFails, PutData, PutRecord, Reorganize, EraseNames, EraseData,
         ReorganizeCopy, ReorganizePut, ReorganizeFull, NameFound, CleanName, ReadName, EnsureName, NameError, InBlock,
         flash, volatile
<1>2. pc' \in (InBlock \ {"clear_names", "clear_data", "clear_dir"}) \cup {"return"}
  BY DEF SetName, SetSameValue, MaskOldValue, NoOldValue, NewAddr, NewAddrDirect,
         NewAddrReorganize, NewAddrFails, PutData, PutRecord, Reorganize, EraseNames, EraseData,
         ReorganizeCopy, ReorganizePut, ReorganizeFull, NameFound, CleanName, ReadName, EnsureName, NameError, InBlock, Finish
<1>3. dir[blk] = call.ns /\ call.ns # Blank
  BY <1>1, BlockOwned
<1>4. CallInv'
  BY <1>1, <1>2, <1>3 DEF DirInv, CallInv, InBlock
<1>5. ASSUME NEW b \in Blocks, b # blk
      PROVE  names'[b] = names[b] /\ data'[b] = data[b]
  BY <1>5 DEF Inv, TypeOK, SetName, SetSameValue, MaskOldValue, NoOldValue, NewAddr, NewAddrDirect,
         NewAddrReorganize, NewAddrFails, PutData, PutRecord, Reorganize, EraseNames, EraseData,
         ReorganizeCopy, ReorganizePut, ReorganizeFull, NameFound, CleanName, ReadName, EnsureName, NameError, flash
<1> QED BY <1>1, <1>2, <1>3, <1>4, <1>5, DirSame DEF InBlock


\* bK_clear_namespace erases its block, then writes the directory without it.
LEMMA DirClear ==
    ASSUME Inv, LoopInv, DirInv, Clear
    PROVE  DirInv'
<1>0. /\ dir \in [Blocks -> Entries] /\ nsTemp \in [Blocks -> Entries] /\ blk \in Blocks
      /\ names \in [Blocks -> [Slots -> NameRecords]] /\ data \in [Blocks -> [Cells -> Bytes]]
      /\ idx \in Nat /\ NumBlocks \in Nat \ {0}
  BY SizesAssumption DEF Inv, TypeOK
<1>1. CASE ClearNames \/ ClearData
  <2>1. /\ pc \in {"clear_names", "clear_data"} /\ UNCHANGED <<dir, call, blk, nsTemp>>
        /\ pc' \in {"clear_data", "clear_dir"}
    BY <1>1 DEF ClearNames, ClearData, volatile
  <2>2. dir[blk] = call.ns /\ call.ns # Blank
    BY <2>1, BlockOwned DEF InBlock
  <2>3. \A b \in Blocks : b # blk => names'[b] = names[b] /\ data'[b] = data[b]
    BY <1>0, <1>1 DEF ClearNames, ClearData
  <2>4. pc' = "clear_dir" => names'[blk] = ErasedNames /\ data'[blk] = ErasedData
    BY <1>0, <1>1 DEF ClearNames, ClearData, Inv, EraseInv
  <2>5. CallInv'
    BY <2>1, <2>2, <2>4 DEF DirInv, CallInv, InBlock
  <2> QED BY <2>1, <2>2, <2>3, <2>5, DirSame
<1>2. CASE ClearDir
  <2>1. /\ pc = "clear_dir" /\ pc' = "clear_loop" /\ idx' = 1
        /\ \A b \in Blocks : dir'[b] = IF b \in MatterBlocks THEN Blank ELSE dir[b]
        /\ \A b \in Blocks : nsTemp'[b] = IF b = blk THEN Blank ELSE nsTemp[b]
        /\ UNCHANGED <<names, data, call, blk>>
    BY <1>0, <1>2 DEF ClearDir
  <2>2. /\ dir[blk] = call.ns /\ call.ns # Blank /\ call.ns # Factory /\ nsTemp = dir
        /\ names[blk] = ErasedNames /\ data[blk] = ErasedData
    BY <2>1, BlockOwned DEF DirInv, CallInv, InBlock
  <2>3. \A b \in Blocks : Owner(b) = dir[b]
    BY <2>1, OwnerDir
  <2>4. blk \in MatterBlocks
    BY <2>2, <2>3, <1>0 DEF DirInv, OwnersInv, BlocksOf
  <2>5. \A b \in Blocks : Owner(b)' = IF b = blk THEN Blank ELSE dir[b]
    BY <2>1, <2>2, <2>4 DEF Owner
  <2>6. OwnersInv'
    <3>1. \A ns : BlocksOf(ns)' = BlocksOf(ns)
      BY DEF BlocksOf
    <3> QED BY <2>3, <2>5, <3>1 DEF DirInv, OwnersInv
  <2>7. FreeInv'
    BY <2>1, <2>2, <2>3, <2>5 DEF DirInv, FreeInv
  <2>8. CallInv' /\ RewriteInv'
    BY <2>1, <1>0 DEF CallInv, RewriteInv, InBlock, MatterBlocks, Blocks
  <2> QED BY <2>6, <2>7, <2>8 DEF DirInv
<1>3. CASE ClearRewrite
  <2>1. /\ pc = "clear_loop" /\ pc' = "clear_loop" /\ idx' = idx + 1
        /\ dir' = [dir EXCEPT ![idx] = nsTemp[idx]]
        /\ UNCHANGED <<names, data, call, blk, nsTemp>>
        /\ idx \in MatterBlocks
    BY <1>0, <1>3 DEF ClearRewrite, LoopInv, MatterBlocks
  <2>2. \A b \in Blocks : dir'[b] = IF b = idx THEN nsTemp[b] ELSE dir[b]
    BY <1>0, <2>1
  <2>3. \A b \in Blocks : Owner(b)' = Owner(b)
    BY <2>1, <2>2 DEF Owner
  <2>4. OwnersInv' /\ FreeInv'
    BY <2>1, <2>3 DEF DirInv, OwnersInv, FreeInv, BlocksOf
  <2>5. RewriteInv'
    <3> SUFFICES ASSUME NEW b \in MatterBlocks
                 PROVE  dir'[b] = IF b < idx + 1 THEN nsTemp[b] ELSE Blank
      BY <2>1 DEF RewriteInv
    <3>1. b \in Blocks /\ b \in Nat /\ (b < idx + 1 <=> b < idx \/ b = idx)
      BY <1>0 DEF MatterBlocks, Blocks
    <3> QED BY <2>1, <2>2, <3>1 DEF DirInv, RewriteInv
  <2>6. CallInv'
    BY <2>1 DEF CallInv, InBlock
  <2> QED BY <2>4, <2>5, <2>6 DEF DirInv
<1>4. CASE ClearDone
  <2>1. /\ pc = "clear_loop" /\ pc' = "return" /\ idx > NumBlocks
        /\ UNCHANGED <<dir, names, data>>
    BY <1>4 DEF ClearDone, Finish, flash
  <2>2. \A b \in Blocks : Owner(b)' = Owner(b)
    BY <2>1, <1>0 DEF Owner, DirInv, RewriteInv, MatterBlocks
  <2>3. OwnersInv' /\ FreeInv'
    BY <2>1, <2>2 DEF DirInv, OwnersInv, FreeInv, BlocksOf
  <2>4. CallInv' /\ RewriteInv'
    BY <2>1 DEF CallInv, RewriteInv, InBlock
  <2> QED BY <2>3, <2>4 DEF DirInv
<1> QED BY <1>1, <1>2, <1>3, <1>4 DEF Clear

\* bk_erase_all drops every namespace first, then what they had.
LEMMA DirErase ==
    ASSUME Inv, DirInv, EraseSector \/ EraseDone
    PROVE  DirInv'
<1>0. /\ dir \in [Blocks -> Entries] /\ idx \in Nat /\ NumBlocks \in Nat \ {0} /\ pc = "erase"
  BY SizesAssumption DEF Inv, TypeOK, EraseSector, EraseDone
<1>1. CASE EraseSector
  <2>1. /\ pc' = "erase" /\ idx' = idx + 1
        /\ \A b \in Blocks :
              /\ dir'[b] = IF idx = 0 /\ b \in MatterBlocks THEN Blank ELSE dir[b]
              /\ names'[b] = IF idx = b /\ b # 0 THEN ErasedNames ELSE names[b]
              /\ data'[b] = IF idx = NumBlocks + b /\ b # 0 THEN ErasedData ELSE data[b]
    BY <1>1 DEF EraseSector
  <2>2. \A b \in Blocks : /\ Owner(b) = dir[b]
                          /\ Owner(b)' = IF b \in MatterBlocks THEN Blank ELSE dir[b]
    <3>1. \A b \in MatterBlocks : b \in Blocks
      BY DEF MatterBlocks, Blocks
    <3> QED BY <1>0, <2>1, <3>1 DEF Owner, DirInv, RewriteInv
  <2>3. OwnersInv'
    <3>1. \A ns : BlocksOf(ns)' = BlocksOf(ns)
      BY DEF BlocksOf
    <3> QED BY <2>2, <3>1 DEF DirInv, OwnersInv
  <2>4. FreeInv'
    BY <1>0, <2>1, <2>2 DEF DirInv, FreeInv, MatterBlocks, Blocks
  <2>5. RewriteInv'
    <3> SUFFICES ASSUME NEW b \in MatterBlocks
                 PROVE  /\ dir'[b] = Blank
                        /\ NumBlocks + b < idx + 1 => data'[b] = ErasedData
      BY <2>1 DEF RewriteInv
    <3>1. b \in Blocks /\ b # 0 /\ b \in Nat
      BY DEF MatterBlocks, Blocks
    <3>2. dir'[b] = Blank
      BY <2>1, <3>1, <1>0 DEF DirInv, RewriteInv
    <3>3. NumBlocks + b < idx => data[b] = ErasedData
      BY <1>0 DEF DirInv, RewriteInv
    <3> QED BY <2>1, <3>1, <3>2, <3>3, <1>0
  <2>6. CallInv'
    BY <2>1 DEF CallInv, InBlock
  <2> QED BY <2>3, <2>4, <2>5, <2>6 DEF DirInv
<1>2. CASE EraseDone
  <2>1. pc' = "return" /\ idx > 2 * NumBlocks /\ UNCHANGED <<dir, names, data>>
    BY <1>2 DEF EraseDone, Finish, flash
  <2>2. \A b \in Blocks : Owner(b)' = Owner(b) /\ Owner(b) = dir[b]
    BY <1>0, <2>1 DEF Owner
  <2>3. OwnersInv'
    BY <2>2 DEF DirInv, OwnersInv, BlocksOf
  <2>4. \A b \in MatterBlocks : names[b] = ErasedNames /\ data[b] = ErasedData
    BY <1>0, <2>1 DEF Inv, EraseInv, DirInv, RewriteInv, MatterBlocks
  <2>5. FreeInv'
    BY <2>1, <2>2, <2>4 DEF DirInv, FreeInv
  <2>6. CallInv' /\ RewriteInv'
    BY <2>1 DEF CallInv, RewriteInv, InBlock
  <2> QED BY <2>3, <2>5, <2>6 DEF DirInv
<1> QED BY <1>1, <1>2

\* Every step keeps the directory, while nothing is lost and nothing fails.
LEMMA DirStep ==
    ASSUME Inv, LoopInv, DirInv, [Next]_vars, losses' = 0, fails' = 0
    PROVE  DirInv'
<1>1. ~PowerLoss
  BY DEF PowerLoss, Inv, TypeOK
<1>2. CASE Return
  <2>1. CallInv'
    BY <1>2 DEF CallInv, Return, Forget, InBlock
  <2> QED BY <1>2, <2>1, DirSame DEF Return, Forget, flash
<1>3. CASE UNCHANGED vars
  BY <1>3 DEF vars, DirInv, OwnersInv, CallInv, RewriteInv, FreeInv, Owner, BlocksOf
<1> QED BY <1>1, <1>2, <1>3, DirEnter, DirNamespace, DirInBlock, DirClear, DirErase DEF Next, Step

\* The directory of an erased flash, and of one with the factory's namespace.
LEMMA DirInit == Init => DirInv
<1> SUFFICES ASSUME Init PROVE DirInv
  OBVIOUS
<1>1. pc = "idle" /\ call = NoCall
  BY DEF Init
<1>2. \A b \in Blocks : Owner(b) = dir[b]
  BY <1>1, OwnerDir
<1>3. \A b \in Blocks : \/ dir[b] = Blank /\ names[b] = ErasedNames /\ data[b] = ErasedData
                        \/ dir[b] = Factory /\ b = 0
  BY DEF Init
<1>4. OwnersInv /\ FreeInv
  BY <1>2, <1>3, NamespacesAssumption, MarksAssumption DEF OwnersInv, FreeInv, BlocksOf
<1>5. CallInv /\ RewriteInv
  BY <1>1 DEF CallInv, RewriteInv, InBlock
<1> QED BY <1>4, <1>5 DEF DirInv

\* What holds of the entries at every step holds of the directory.
LEMMA DirSound == Inv /\ DirInv => DirectorySound
<1> SUFFICES ASSUME Inv, DirInv PROVE DirectorySound
  OBVIOUS
<1>1. OneBlockPerNamespace
  <2> SUFFICES ASSUME NEW a \in Blocks, NEW b \in Blocks, dir[a] = dir[b], dir[a] # Blank
               PROVE  a = b
    BY DEF OneBlockPerNamespace
  <2>1. \A c \in Blocks : dir[c] # Blank => Owner(c) = dir[c]
    BY DEF Owner, DirInv, RewriteInv
  <2> QED BY <2>1 DEF DirInv, OwnersInv
<1>2. FreeBlocksErased
  BY OwnerDir DEF DirInv, FreeInv, FreeBlocksErased
<1> QED BY <1>1, <1>2 DEF DirectorySound

\* Until power is lost or an allocation fails, the directory gives a namespace at
\* most one block, and between calls a block without an entry is erased, so that
\* the namespace that takes it next starts without values.
THEOREM DirectoryStaysSound == Spec => [](losses = 0 /\ fails = 0 => DirectorySound)
<1>1. Init => LoopInv /\ DirUntilFailure
  BY DirInit DEF Init, LoopInv, DirUntilFailure
<1>2. Inv /\ LoopInv /\ [Next]_vars => LoopInv'
  BY LoopStep
<1>3. Inv /\ LoopInv /\ DirUntilFailure /\ [Next]_vars => DirUntilFailure'
  BY DirStep, CountersGrow DEF DirUntilFailure
<1>4. Inv /\ DirUntilFailure => (losses = 0 /\ fails = 0 => DirectorySound)
  BY DirSound DEF DirUntilFailure
<1> QED BY <1>1, <1>2, <1>3, <1>4, InitInv, NextInv, PTL DEF Spec
==================================================================
