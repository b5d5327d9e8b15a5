\* Enums of up to two variants and five attributes between them; impl blocks of
\* up to two members.
SPECIFICATION MacrosSpec
CONSTANTS None = None Transient = Transient  Fatal = Fatal  Io = Io  Parse = Parse
  feature = feature  unix = unix EnumAttributes <- EnumMenu AttributesOf <- MCAttributesOf ShapesOf <- MCShapesOf MaxVariants = 2 MaxAttributes = 5 MaxErrors = 1 MaxMembers = 2
INVARIANTS AcceptsContract ExpansionTrue NothingLostInExpansion
CHECK_DEADLOCK FALSE
