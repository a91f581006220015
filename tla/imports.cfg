\* Imports and settings requests statement by statement: overlapping, or one at a time
\* over two portfolios, where they implement the atomic broker book.
SPECIFICATION MCSpec
CONSTANTS
  flex = flex
  csv = csv
  p1 = p1
  p2 = p2
  s1 = s1
  s2 = s2
  NoKey = NoKey
  Importers = {s1, s2}
  Editors = {"settings"}
  Portfolios = {p1, p2}
  Accounts = {flex, csv}
  Stable = {flex}
  Pieces = {flex, csv}
  KeyOf <- PlainKey
  Parts <- PlainParts
  Keys <- MCKeys
  Legacy <- MCLegacy
  Items <- MCItems
  Snapshots <- MCSnapshots
  Seed <- MCSeed
  MaxImports = 5
INVARIANTS
  NoOrphanRows
  StatedIsStored
  SharesCountedOnce
PROPERTIES
  LastGoodKept
  NoLaterResurrection
  ImportsAtomically
CHECK_DEADLOCK FALSE
