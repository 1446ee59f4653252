SPECIFICATION Spec
CONSTANTS
  c1 = c1
  c2 = c2
  c3 = c3
  c4 = c4
  aName = aName
  MaxRefs = 1
  MaxNames = 2
  MaxTexts = 1
  MaxArrays = 2
  MaxObjects = 2
  MaxContainers = 3
  MaxUnnamed = 1
  Cell <- MCCell
  Key = {aName}
  NoKey = NoKey
  Null = Null
  Wild = Wild
  Lower <- MCLower
CONSTRAINT Small
SYMMETRY MCSymmetry
INVARIANTS LinksSound StringsOwned NothingLost MembersNamed
PROPERTY ImplementsForest
CHECK_DEADLOCK FALSE
