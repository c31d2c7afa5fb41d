SPECIFICATION Spec
CONSTANTS
  d1 = d1 d2 = d2 good1 = good1 good2 = good2
  refused = refused hopeless = hopeless garbled = garbled
  NL = NL
  Drains <- MCDrains1
  Good <- MCGood1
  Refused <- MCRefused
  Hopeless <- MCHopeless
  Malformed <- MCMalformed
  Writes <- WholeLines
  SpoolWrites <- MCGood1
  StartCursor = 3
  MaxUnits = 2
  MaxSpool = 0
  MaxFaults = 0
INVARIANTS
  OneEventPerLine
