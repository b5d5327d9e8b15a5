\* What comments say and the code does not do; tlc -continue shows each.
SPECIFICATION MacrosSpec
CONSTANTS
  None = None
  Transient = Transient  Fatal = Fatal  Io = Io  Parse = Parse
  feature = feature  unix = unix
  EnumAttributes <- EnumMenu
  AttributesOf <- OddAttributesOf
  ShapesOf <- MCShapesOf
  MaxVariants = 2
  MaxAttributes = 4
  MaxErrors = 1
  MaxMembers = 2
INVARIANTS AcceptsContract DocumentedExpands TransparentDelegates EveryDiagnosticCarried
CHECK_DEADLOCK FALSE
