SPECIFICATION RouterSpec
CONSTANTS
  Tag <- MCTag
  Rule <- MCRule
  WalkLists <- MCWalkLists
  LegacyLists <- MCLegacyLists
INVARIANTS ListedOrder RaceHeld OptionsInOrder NoLostWakeup
PROPERTIES QueryTerminates
CHECK_DEADLOCK FALSE
