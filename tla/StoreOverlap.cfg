SPECIFICATION Spec
CONSTANTS
  Login = Login
  Game = Game
  Reset = Reset
  Process = {Login, Game}
  t1 = t1
  t2 = t2
  Token = {t1, t2}
  Ann = Ann
  Player1 = Player1
  Name = {Ann, Player1}
  NoState = NoState
  NoFile = NoFile
  Torn = Torn
  ResumeName <- MCFallback
  HexName <- MCFallback
  Stored <- MCOldSave
  Held = {t1}
  MaxOverlaps = 1
  MaxProgress = 1
  MaxBoots <- MCBoots
CHECK_DEADLOCK FALSE
INVARIANT GrantedKept
