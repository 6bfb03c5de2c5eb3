CONSTANTS
  Instructions <- MCInstructions
  Values <- MCValues
  Places <- MCPlaces
  Hints <- MCHints
  Bystanders <- MCBystanders
SPECIFICATION Spec
INVARIANTS ResultMatches TrapsExactly OperandsKept
CHECK_DEADLOCK FALSE
