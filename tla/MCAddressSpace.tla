--------------------------- MODULE MCAddressSpace ---------------------------
(***************************************************************************)
(* AddressSpace for TLC: areas and threads are interchangeable.            *)
(***************************************************************************)
EXTENDS AddressSpace

Interchangeable == Permutations(Area) \cup Permutations(Faulter)
=============================================================================
