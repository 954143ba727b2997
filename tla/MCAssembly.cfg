\* The provider messages assemble every turn faithfully.
SPECIFICATION Spec
CONSTANTS
  Providers <- MCProviders
  Looks <- MCLooks
  MaxItems = 4
  MaxPieces = 2
  MaxRounds = 2
INVARIANTS
  TurnIsKept
  ReplayAnswersEveryCall
  ToldAsSent
CHECK_DEADLOCK FALSE
