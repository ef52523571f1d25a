SPECIFICATION FairSpec
CONSTANTS
  Schedules <- Schedules4
  TamperLevels = 3
  MaxVars = 3
  MaxTries = 2
INVARIANTS NeverOffPlan Lockstep BoundBeforeDrawn ChangeIsBound AcceptedShape HandoverFits
PROPERTY HonestAccepted
CHECK_DEADLOCK FALSE
