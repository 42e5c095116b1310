------------------------------- MODULE KvStore -------------------------------
(***************************************************************************)
(* What flash_namespace_value.h promises its callers while the device      *)
(* stays powered: a map from keys to values and one call at a time.  A     *)
(* call takes effect in one step, its reply.                               *)
(***************************************************************************)
EXTENDS Integers, Sequences

CONSTANTS
    Keys,           \* records [ns, name]
    Requests,       \* records [fn, ns, name, val, len]
    NoRequest,
    Factory,        \* the read-only namespace
    Reserved,       \* the namespaces that cannot be cleared
    Absent

VARIABLES kv, req, reply, out

vars == <<kv, req, reply, out>>

KeyOf(r)  == [ns |-> r.ns, name |-> r.name]
Prefix(v, l) == SubSeq(v, 1, IF l > Len(v) THEN Len(v) ELSE l)
Drop(S)   == [k \in Keys |-> IF k \in S THEN Absent ELSE kv[k]]

Init ==
    /\ req = NoRequest /\ reply = "none" /\ out = Absent
    /\ kv \in [Keys -> {Absent}] \/ \A k \in Keys : k.ns # Factory => kv[k] = Absent

Begin ==
    /\ req = NoRequest
    /\ req' \in Requests
    /\ UNCHANGED <<kv, reply, out>>

Pending(fn) == req.fn = fn /\ reply = "none"
Answer(r) == reply' = r /\ UNCHANGED req

WriteOk ==
    /\ Pending("write") /\ req.ns # Factory
    /\ kv' = [kv EXCEPT ![KeyOf(req)] = req.val]
    /\ Answer("ok") /\ UNCHANGED out

\* A write that fails may have dropped the value the name had, and no other.
WriteError ==
    /\ Pending("write")
    /\ kv' = kv \/ (req.ns # Factory /\ kv' = Drop({KeyOf(req)}))
    /\ Answer("err") /\ UNCHANGED out

Read ==
    /\ Pending("read")
    /\ IF kv[KeyOf(req)] = Absent
       THEN Answer("err") /\ UNCHANGED out
       ELSE Answer("ok") /\ out' = Prefix(kv[KeyOf(req)], req.len)
    /\ UNCHANGED kv

Exists ==
    /\ Pending("exists")
    /\ Answer(IF kv[KeyOf(req)] = Absent THEN "err" ELSE "ok")
    /\ UNCHANGED <<kv, out>>

Clean ==
    /\ Pending("clean")
    /\ IF req.ns = Factory \/ kv[KeyOf(req)] = Absent
       THEN Answer("err") /\ UNCHANGED kv
       ELSE Answer("ok") /\ kv' = Drop({KeyOf(req)})
    /\ UNCHANGED out

\* A namespace that is not there has no values to drop.
ClearNamespace ==
    /\ Pending("clear")
    /\ \/ /\ req.ns # Factory /\ req.ns \notin Reserved
          /\ kv' = Drop({k \in Keys : k.ns = req.ns}) /\ Answer("ok")
       \/ /\ req.ns \in Reserved \cup {Factory} \/ \A k \in Keys : k.ns = req.ns => kv[k] = Absent
          /\ Answer("err") /\ UNCHANGED kv
    /\ UNCHANGED out

EnsureNamespace ==
    /\ Pending("ensure")
    /\ \E r \in {"ok", "err"} : Answer(r)
    /\ UNCHANGED <<kv, out>>

EraseAll ==
    /\ Pending("erase")
    /\ kv' = Drop({k \in Keys : k.ns # Factory})
    /\ Answer("ok") /\ UNCHANGED out

End ==
    /\ req # NoRequest /\ reply # "none"
    /\ req' = NoRequest /\ reply' = "none" /\ out' = Absent
    /\ UNCHANGED kv

Next ==
    \/ Begin \/ End
    \/ WriteOk \/ WriteError \/ Read \/ Exists \/ Clean
    \/ ClearNamespace \/ EnsureNamespace \/ EraseAll

Spec == Init /\ [][Next]_vars
==================================================================
