---------------------------- MODULE MCPageTables ----------------------------
(***************************************************************************)
(* PageTables for TLC: a few addresses that share tables at each level,    *)
(* two of which have a second index that is the first one of another.      *)
(***************************************************************************)
EXTENDS PageTables, TLC

FewAddresses ==
  {<<0, 0, 0, 0>>, <<0, 0, 0, 1>>, <<0, 0, 1, 0>>, <<0, 1, 0, 0>>, <<1, 0, 0, 0>>, <<1, 2, 0, 0>>}

Interchangeable == Permutations(Frame) \cup Permutations(PAdr)
=============================================================================
