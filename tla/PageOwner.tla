------------------------------ MODULE PageOwner ------------------------------
(***************************************************************************)
(* What the physical page allocator of hal/x86/memapi.c promises to the    *)
(* rest of the kernel: whoever asks for pages gets consecutive ones that   *)
(* nobody else owns, and owns them until it gives them back.  How free     *)
(* pages are kept, and whether they are found again, is not said.          *)
(***************************************************************************)
EXTENDS Integers

CONSTANT Page   \* the numbers of the pages

VARIABLE owned  \* the sets of pages handed out

Init == owned = {}

Take(a, b) ==
  /\ a <= b /\ a .. b \subseteq Page
  /\ (a .. b) \cap UNION owned = {}
  /\ owned' = owned \cup {a .. b}

Give(s) ==
  /\ s \in owned
  /\ owned' = owned \ {s}

Next == (\E a, b \in Page : Take(a, b)) \/ (\E s \in owned : Give(s))

Spec == Init /\ [][Next]_owned
=============================================================================
