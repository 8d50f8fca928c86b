CONSTANTS
  Clients = {c1, c2}
  Ids <- MCIds
  Key <- MCKey
  Blank = "blank"
  Commands <- MCCommands
  InitialFiles <- MCInitialFiles
  HandEdits <- MCHandEdits
  Starter <- Technitium
  MaxCommands = 3
  MaxEdits = 1
  MaxFaults = 1
SPECIFICATION Spec
SYMMETRY Symmetry
INVARIANTS
  TypeOK
  ValidUnlessOverlapped
  AddedUnlessOverlapped
  UpdateKeepsMeaning
  UpdateWritesValid
CHECK_DEADLOCK FALSE
