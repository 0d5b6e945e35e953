------------------------------ MODULE MCRamFS ------------------------------
(***************************************************************************)
(* RamFS for TLC: names of one length, among which strcmp returns 0, 1, -1 *)
(* and 2, and names of two lengths.                                        *)
(***************************************************************************)
EXTENDS RamFS, TLC

Short == {<<1, 0>>, <<2, 0>>, <<4, 0>>}
Mixed == {<<1, 0, 0>>, <<1, 2, 0>>, <<3, 0, 0>>}

Interchangeable == Permutations(Node) \cup Permutations(Data) \cup Permutations(Thread)
=============================================================================
