SPECIFICATION Spec
CONSTANTS
  Texts <- MCTexts
  Cut <- MCCut
  Long = {5}
  Spill <- MCSpill
  Stem <- MCStem
  Refused = {0}
  Names = {0, 1, 2, 6, 7}
  Ids = {1, 5, 6}
  Inputs <- MCInputs
  Filters <- MCFilters
  MaxWrites = 2
INVARIANTS TypeOK PlainSurvive OfOneCall FiltersExact
CHECK_DEADLOCK FALSE
