SPECIFICATION Spec
CONSTANTS
  d1 = d1 d2 = d2 good1 = good1 good2 = good2
  refused = refused hopeless = hopeless garbled = garbled
  NL = NL
  Drains <- MCDrains2
  Good <- MCGood2
  Refused <- MCRefused
  Hopeless <- MCHopeless
  Malformed <- MCMalformed
  Writes <- WholeLines
  SpoolWrites <- MCGood1
  StartCursor = 0
  MaxUnits = 4
  MaxSpool = 1
  MaxFaults = 1
INVARIANTS
  TypeOK CursorTrailsPublish OneEventPerLine LinesInOrder SpoolKept
PROPERTIES
  EverythingPublished
