-------------------------------- MODULE MCBoot --------------------------------
(* Pages of 8 units; 24 of them: four of the hardware area, 16 of the kernel's,
   four of the applications'.  The kernel is put on page 4, the image on 14. *)
EXTENDS Boot

Ram(a, b) == [addr |-> a, size |-> b - a, usable |-> TRUE]
Hole(a, b) == [addr |-> a, size |-> b - a, usable |-> FALSE]

\* The orders in which a BIOS may tell a set of ranges.
Told(rs) == {m \in [1 .. Cardinality(rs) -> rs] : ToSet(m) = rs}

\* Low memory ends inside a page; the rest is one range, or has a hole below or
\* above the kernel, or one at the border of two areas; or it ends early, in the
\* middle of a page or with the last page of the image.
MCMaps == UNION
  { Told({Ram(0, 28), Hole(28, 32), Ram(32, 192)}),
    Told({Ram(0, 16), Ram(24, 192)}),
    Told({Ram(0, 32), Ram(32, 136), Hole(136, 144), Ram(144, 190)}),
    Told({Ram(0, 20), Ram(32, 152), Ram(168, 188)}),
    Told({Ram(0, 28), Ram(32, 156)}),
    Told({Ram(0, 28), Ram(32, 128)}) }

MCPartialMaps == Told({Ram(0, 28), Ram(36, 192)})

Sizes(k, f, l) ==
  [x \in File |-> CASE x = "grub" -> 2 [] x = "kernel" -> k [] x = "font" -> f
                    [] x = "logo" -> l]

MCFileSizes == {Sizes(5, 3, 4), Sizes(9, 0, 2), Sizes(8, 1, 0), Sizes(0, 1, 1)}
=============================================================================
