\* What comments say and the code does not do; tlc -continue shows each.
SPECIFICATION Spec
CONSTANTS
  c1 = c1
  c2 = c2
  c3 = c3
  h1 = h1
  h2 = h2
  Callers = {c1}
  Program = Program
  Nobody = Nobody
  Unset = Unset
  Bad = Bad
  Settings <- Awkward
  EnvLevels <- BadThen
  Directives <- NarrowEnv
  EnvConfig <- FromEnv
  PanicHooks = {h1}
INVARIANTS NeverStomped MisreadIsHeard SplitReachesStderr AppenderWarningsHeard
CHECK_DEADLOCK FALSE
