SPECIFICATION Spec
CONSTANTS
  QuestTarget <- Targets
  SampleTarget = 1
  LastPage = 2
  MaxPaid = 2
  MaxLeaves = 1
  MaxDeaths = 1
  MaxCrashes = 1

PROPERTIES OneQuestAtATime
