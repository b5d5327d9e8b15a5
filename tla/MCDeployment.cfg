SPECIFICATION Spec
CONSTANTS
  c1 = c1
  c2 = c2
  c3 = c3
  h1 = h1
  h2 = h2
  Callers <- Trio
  Program = Program
  Nobody = Nobody
  Unset = Unset
  Bad = Bad
  Settings <- Usual
  EnvLevels <- OffThen
  Directives <- NoisyEnv
  EnvConfig <- FromEnv
  PanicHooks = {h1, h2}
SYMMETRY Symmetric
INVARIANTS Inv OneDeployment EnvWarningsHeard OnlyLateHooksLost
CHECK_DEADLOCK FALSE
