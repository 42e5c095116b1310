----------------------- MODULE FlashNamespaceHistory -----------------------
(***************************************************************************)
(* FlashNamespace with one history variable: what every key read as when   *)
(* the call under way began.  The properties that relate a call's outcome  *)
(* to the state it started from, and the refinement of KvStore, are here.  *)
(***************************************************************************)
EXTENDS FlashNamespace

VARIABLE before     \* Contents at the start of the call

NoContents == [k \in Keys |-> Absent]

HInit == Init /\ before = NoContents
HNext ==
    /\ Next
    /\ before' = IF pc' = "idle" THEN NoContents
                 ELSE IF pc = "idle" THEN Contents ELSE before

hvars == <<vars, before>>
HSpec == HInit /\ [][HNext]_hvars

OwnKey == [ns |-> call.ns, name |-> call.name]

-----------------------------------------------------------------------------
Requests == {c \in [fn : {"write", "clean", "read", "exists", "clear", "ensure", "erase"},
                    ns : Namespaces,
                    name : {k.name : k \in Keys} \cup {Blank},
                    val : Values \cup {<<>>},
                    len : ReadLens \cup {0}] :
                c.fn \in {"clear", "ensure", "erase"} \/ [ns |-> c.ns, name |-> c.name] \in Keys}

Kv == INSTANCE KvStore WITH
        kv <- IF pc \in {"idle", "return"} THEN Contents ELSE before,
        req <- call, reply <- rtn,
        NoRequest <- NoCall

\* Without power loss and failing allocations the store is the abstract map:
\* every call takes effect at its return, a read returns the value last
\* written, and no call changes a key that is not its own.
ImplementsKvStore == Kv!Spec

-----------------------------------------------------------------------------
(* Power loss *)

\* Power loss leaves each key with what it read as before the call, with the
\* value the call was writing (its own key only), or with nothing: never with a
\* part of a value or with another key's bytes (data is programmed before the
\* record that points to it, and compaction works on a copy in RAM).  Once an
\* allocation has failed a name may have two records, and masking the one leaves
\* the other.
PowerLossKeepsOldNewOrNothing ==
    [][losses' # losses /\ fails = 0 =>
         \A k \in Keys :
            \/ Stored(k)' \in {before[k], Absent}
            \/ k = OwnKey /\ call.fn = "write" /\ Stored(k)' = call.val]_hvars

\* bK_clear_namespace is writing the directory back; the call's block is being
\* compacted.
Rewriting  == call.fn = "clear" /\ pc = "clear_loop" /\ idx <= NumBlocks
Compacting ==
    /\ call.fn = "write"
    /\ \/ pc = "re_data" \/ (pc = "re_loop" /\ idx <= NumSlots)
       \/ (pc \in {"put_data", "put_record"} /\ idx # 0)

\* The keys a power loss may cost at this point of the call: those the call is
\* about; while a block is compacted the ones of its namespace; and while
\* bK_clear_namespace writes the directory back, every key of the partition.
AtRisk ==
    CASE call.fn = "erase" \/ Rewriting -> {k \in Keys : k.ns # Factory}
      [] Compacting \/ (call.fn = "clear" /\ ~Rewriting) -> {k \in Keys : k.ns = call.ns}
      [] OTHER -> {OwnKey}

\* A power loss costs only the keys at risk: appending and masking records
\* touches no other key, and a compacted block is the call's own.
PowerLossSparesOtherKeys ==
    [][losses' # losses /\ fails = 0 =>
         \A k \in Keys \ AtRisk : Stored(k)' = before[k]]_hvars
==================================================================
