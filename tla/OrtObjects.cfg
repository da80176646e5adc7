SPECIFICATION Spec
CONSTANT
  Programs = {"camera", "image", "demo"}
INVARIANTS
  OwnedOnce
  NeedsMet
