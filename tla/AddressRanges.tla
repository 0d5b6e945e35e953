---------------------------- MODULE AddressRanges ----------------------------
(***************************************************************************)
(* What kvm_new and kvm_delete of kernel/kvmprocess.c promise: an address  *)
(* is given out once until it is given back, and nothing is given back     *)
(* that was not given out.                                                 *)
(***************************************************************************)
EXTENDS Integers

CONSTANTS
  Address,  \* the addresses a process may use
  Given     \* the addresses it has from the start

VARIABLE used  \* how often an address is given out

Init == used = [v \in Address |-> IF v \in Given THEN 1 ELSE 0]

Range(from, size) == from .. from + size - 1

Set(r, n) == [v \in Address |-> IF v \in r THEN n ELSE used[v]]

New(from, size) ==
  /\ \A v \in Range(from, size) : v \in Address /\ used[v] = 0
  /\ used' = Set(Range(from, size), 1)

Delete(from, size) ==
  /\ \A v \in Range(from, size) : v \in Address /\ used[v] = 1
  /\ used' = Set(Range(from, size), 0)

Next == \E from, size \in Address : New(from, size) \/ Delete(from, size)

Spec == Init /\ [][Next]_used
=============================================================================
