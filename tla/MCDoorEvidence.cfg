SPECIFICATION MCSpec
CONSTANTS
  Bindings <- MCBindings
  Positions <- MCPositions
  MaxTime = 4
  Drafts <- MCDrafts
  Good <- MCGood
  Patience = 8
  UnusableCovers <- MCUnusable
  TakenCovers <- MCTaken
INVARIANTS
  NeverBothEnds
  ReachedOnlyIfSettled
  EstimateNeedsObservedTravel
  AcceptedIsBelievable
  EveryDraftCanBeSaved
