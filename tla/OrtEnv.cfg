SPECIFICATION Spec
CONSTANT
  Programs = {"camera", "image", "demo"}
INVARIANT
  EnvOutlivesSession
