----------------------------- MODULE AddressMap -----------------------------
(***************************************************************************)
(* What mmu_transform and mmu_untransform of hal/x86/mmu.c promise: a map  *)
(* from virtual to physical pages, of which each call changes one entry or *)
(* none.                                                                   *)
(***************************************************************************)
CONSTANTS VAdr, PAdr, NULL

VARIABLE map

Init == map = [v \in VAdr |-> NULL]

Transform(v, p) == map' = [map EXCEPT ![v] = p]

Untransform(v) == map' = [map EXCEPT ![v] = NULL]

Next == \E v \in VAdr : Untransform(v) \/ \E p \in PAdr : Transform(v, p)

Spec == Init /\ [][Next]_map
=============================================================================
