SPECIFICATION FairSpec
CONSTANTS
  h1 = h1
  h2 = h2
  Handlers = {h1, h2}
  Texts <- SomeTexts
  Levels = {"TRACE", "DEBUG"}
  ReadBack <- SomeReadBack
  Multiline = {"lines"}
  Remains <- SomeRemains
  Default = "TRACE"
  Template = "DEBUG"
  Edits <- SomeEdits
  Bodies <- SomeBodies
  Faults = {"create", "read", "open", "write"}
  MaxPatches = 2
  MaxEdits = 1
  MaxEvents = 2
INVARIANTS TypeOK FileStaysWhole StructFollowsFile
PROPERTIES PatchKeepsTheRest LogFollowsFile
