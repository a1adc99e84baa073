----------------------------- MODULE AtomicFile ------------------------------
(***************************************************************************)
(* What a CacheTemplate promises the layer above it: a file (or a device)  *)
(* whose read() and write() take effect at one instant between the call    *)
(* and the return, for the whole range asked for.                          *)
(***************************************************************************)
EXTENDS Integers, FiniteSets

CONSTANTS Clients, Paths, Addresses, First, Values, NoRequest

VARIABLES
    mem,        \* by path and address: what the file holds
    req,        \* by client: the request under way, or NoRequest
    effective,  \* the clients whose write has taken effect
    out         \* by client: what its last request returned

vars == <<mem, req, effective, out>>

Range(r) == r.offset .. r.offset + r.size - 1

Requests ==
    {r \in [op : {"read", "write"}, path : Paths, offset : Addresses,
            size : 1 .. Cardinality(Addresses), val : Values \cup {0}] : Range(r) \subseteq Addresses}

Init ==
    /\ mem = [p \in Paths |-> [a \in Addresses |-> First]]
    /\ req = [c \in Clients |-> NoRequest]
    /\ effective = {}
    /\ out = [c \in Clients |-> <<>>]

Call(c) ==
    /\ req[c] = NoRequest
    /\ \E r \in Requests : req' = [req EXCEPT ![c] = r]
    /\ out' = [out EXCEPT ![c] = <<>>]
    /\ UNCHANGED <<mem, effective>>

(* The instant at which a write takes effect. *)
Write(c) ==
    /\ c \notin effective
    /\ req[c] # NoRequest /\ req[c].op = "write"
    /\ mem' = [mem EXCEPT ![req[c].path] =
                  [a \in Addresses |-> IF a \in Range(req[c]) THEN req[c].val ELSE @[a]]]
    /\ effective' = effective \cup {c}
    /\ UNCHANGED <<req, out>>

(* A read returns what the file holds, a write once it has taken effect. *)
Return(c) ==
    /\ req[c] # NoRequest
    /\ req[c].op = "write" <=> c \in effective
    /\ out' = [out EXCEPT ![c] = [a \in Range(req[c]) |-> mem[req[c].path][a]]]
    /\ req' = [req EXCEPT ![c] = NoRequest]
    /\ effective' = effective \ {c}
    /\ UNCHANGED mem

Next == \E c \in Clients : Call(c) \/ Write(c) \/ Return(c)

Spec == Init /\ [][Next]_vars
=============================================================================
