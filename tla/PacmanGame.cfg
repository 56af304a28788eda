CONSTANTS
  NumGhosts <- MCNumGhosts
  NumBubbles <- MCNumBubbles
  Flashes <- MCFlashes
  MaxLifes <- MCMaxLifes
  MaxLevel <- MCMaxLevel
  MaxTwins <- MCMaxTwins
SPECIFICATION Spec
INVARIANTS
  TypeOK
  OneTimeline
  Frozen
  TimersAgree
  NeverStuck
PROPERTIES
  LockReleased
  PlaysByTheRules
CONSTRAINT Aftermath
