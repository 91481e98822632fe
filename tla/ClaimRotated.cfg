SPECIFICATION KeysSpec
SYMMETRY Symmetry
CONSTANTS
  k0 = k0
  k1 = k1
  s0 = s0
  s1 = s1
  s2 = s2
  p1 = p1
  p2 = p2
  KeyId = {k0, k1}
  Secret = {s0, s1, s2}
  Scope = {"photos"}
  Proc = {p1, p2}
  None = None
  Boot = k0
  BootSecret = s0
  KeyOps = {"patch", "rotate"}
INVARIANT RotatedSecretsStayDead
