SPECIFICATION Spec
CONSTANTS
  Login = Login
  Game = Game
  Reset = Reset
  Process = {Login, Game, Reset}
  t1 = t1
  t2 = t2
  Token = {t1, t2}
  Ann = Ann
  Player1 = Player1
  Name = {Ann, Player1}
  NoState = NoState
  NoFile = NoFile
  Torn = Torn
  ResumeName <- MCFallback
  HexName <- MCFallback
  Stored <- MCStored
  Held = {t1}
  MaxOverlaps = 0
  MaxProgress = 1
  MaxBoots <- MCBoots
CHECK_DEADLOCK FALSE
INVARIANTS NamesHeld OnlineHonest ResetComplete
PROPERTIES ProgressKept
