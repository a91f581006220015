SPECIFICATION Spec
CONSTANTS
  None = None
  Unpriced = None
  NoRating = NoRating
  NoSector = NoSector
  NoYield = NoYield
  Listings <- MCListings
  HeldUnder <- MCHeldUnder
  Base = "USD"
  Published <- MCPublished
  Opening <- MCOpening
  Writers = {w1}
  MaxDay = 1
  MaxRevisions = 1
  Whole = 10
  Alphabet <- MCAlphabet
  Rating <- MCRating
  Sector <- MCSector
  Limits <- MCLimits
  Yields <- MCYields
  RuleSets <- MCRuleSets
  Watched = {"us", "eu"}
  Amounts = {6}
  MaxTrades = 2
INVARIANTS
  WindowReadAgrees
  PlansAreSound
  WhatIfIsTheBook
PROPERTIES
  ReplacedIsLogged
CHECK_DEADLOCK FALSE
