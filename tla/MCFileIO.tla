------------------------------ MODULE MCFileIO -------------------------------
EXTENDS FileIO, TLC

(* Blocks of two bytes: one system block, or two. *)
MCGeometries == {<<2, 2>>, <<2, 1>>}
MCPlain == {<<2, 2>>}
MCDescriptors == 0 .. 2
MCSymmetry == Permutations(Paths)
=============================================================================
