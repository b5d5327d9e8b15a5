\* What comments say and the code does not do; tlc -continue shows each.
SPECIFICATION BothSpec
CONSTANTS
  textual = textual
  plain = plain
  caused = caused
  Errors <- MCErrors
  Sources <- MCSources
  BoxedErrors <- MCBoxedErrors
  MaxWork = 5
  RootErrors <- MCRootErrors
  ChildErrors <- MCChildErrors
  AttachmentMenu <- UnkeyedMenu
  Slices <- TwoLineSlice
  Policy <- MCPolicy
  SourceLine <- MCSourceLine
  AppendixMaxLines = 2
  MaxParts = 3
INVARIANTS WalkersSeeTheTree AppendixShown EveryValuePassesLine
CHECK_DEADLOCK FALSE
