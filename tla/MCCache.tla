------------------------------ MODULE MCCache --------------------------------
EXTENDS Cache

(* The boundary of two buffers with part of a page each; three buffers. *)
MCRanges == {<<1, 2>>, <<0, 5>>}
=============================================================================
