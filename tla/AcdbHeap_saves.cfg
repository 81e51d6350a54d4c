SPECIFICATION AcdbSpec
CONSTANTS
  Key = {1, 2, 3, 4, 5, 6, 7, 8, 9}
  Null = 0
INVARIANTS
  SavedIsFound
  LookupsAreShort
