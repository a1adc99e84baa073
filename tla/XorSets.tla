------------------------------- MODULE XorSets -------------------------------
(***************************************************************************)
(* The XOR of block contents.  A block's content is the set of the writes  *)
(* XORed into it: a fresh block is {}, the block of write w is {w}, and    *)
(* XOR is symmetric difference.                                            *)
(***************************************************************************)
EXTENDS Integers, FiniteSets

Xor(a, b) == (a \ b) \cup (b \ a)

(* The XOR of value[i] over the i of S. *)
XorOver(S, value) ==
    {k \in UNION {value[i] : i \in S} :
        Cardinality({i \in S : k \in value[i]}) % 2 = 1}
=============================================================================
