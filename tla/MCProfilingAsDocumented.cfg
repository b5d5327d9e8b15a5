\* What comments say and the code does not do; tlc -continue shows each.
SPECIFICATION ProfilingSpec
CONSTANTS
  Tasks = {t1, t2}
  Names = {outer, inner}
  None = None
  MaxScopes = 3
  MaxTime = 2
  Threads = {a, b}
  instant = instant
  web = web
  puffin = puffin
  fastrace = fastrace
  Backends <- MCBackends
  Available = {instant, puffin}
  Masks = {{}, {web, puffin}}
  MaxScopesOpen = 1
  MaxSpans = 2
  MaxCalls = 3
  bogus = bogus
  Unset = Unset
  Garbled = Garbled
  BackendNames = {"instant", "web", "fastrace"}
  DefaultBackends = {"fastrace"}
  Environments <- MCEnvironments
  Builders <- MCBuilders
  Drafts <- MCDrafts
  Toggles <- MCToggles
  TraceIds = {1, 2}
  Rates = {0, 2, 3}
  MaxTargets = 3
  MaxRecords = 3
INVARIANTS DecidedByTrace EnvErrorsReported PaddedThrottleWins DocumentedColors
PROPERTIES GuardsPopTheirOwn
CHECK_DEADLOCK FALSE
