\* Five frames and uses of faults; reports of four frames, attachments and slices.
SPECIFICATION BothSpec
CONSTANTS
  textual = textual
  plain = plain
  caused = caused
  Errors <- MCErrors
  Sources <- MCSources
  BoxedErrors <- MCBoxedErrors
  MaxWork = 5
  RootErrors <- MCRootErrors
  ChildErrors <- MCChildErrors
  AttachmentMenu <- MCAttachmentMenu
  Slices <- MCSlices
  Policy <- MCPolicy
  SourceLine <- MCSourceLine
  AppendixMaxLines = 2
  MaxParts = 4
INVARIANTS Inv CausesInOrder LinesAreFacts FormsAgree
PROPERTIES SharedFramesFrozen CauseSurvives
CHECK_DEADLOCK FALSE
