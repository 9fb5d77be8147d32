SPECIFICATION RouterSpec
CONSTANTS
  Tag <- MCTag
  Rule <- MCRule
  WalkLists <- MCWalkLists
  LegacyLists <- MCLegacyLists
INVARIANTS JudgedByItsResponses
CHECK_DEADLOCK FALSE
