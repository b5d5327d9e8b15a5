SPECIFICATION Spec
CONSTANTS
  c1 = c1
  c2 = c2
  c3 = c3
  h1 = h1
  h2 = h2
  Callers = {c1}
  Program = Program
  Nobody = Nobody
  Unset = Unset
  Bad = Bad
  Settings <- Usual
  EnvLevels <- BadThen
  Directives <- NoisyEnv
  EnvConfig <- FromEnv
  PanicHooks = {}
PROPERTIES SigtermEnds
CHECK_DEADLOCK FALSE
