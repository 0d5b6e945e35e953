\* Two readers of a keyboard on which three keys are pressed or released.
CONSTANTS
  Reader = {r1, r2}
  Bytes = 6
  MaxTyped = 3
SPECIFICATION Spec
CHECK_DEADLOCK FALSE
INVARIANTS WrittenBeforeRead BytesInOrder
