SPECIFICATION Spec
CONSTANTS
  p = p
  q = q
  Token = {p, q}
  Nothing = Nothing
  Order <- Order2
  Layout <- Small
  Gates <- Gates2
  Exit <- Exit2
  Grave <- Grave2
  Champions = {p, q}
  MaxHealth = 2
  EnemyHealth = 1
  Range = 2
  Sight = 1
  Cooldown = 1
  Grace = 1
  Hold = 2
  Pause = 1
  Regrowth = 2
  Alert = 1
  Despawn = 2
  Windows <- Windows2
  Scenes <- Fights
INVARIANTS NoStacking PvpByChoice Regrows
PROPERTIES EdgesSettled SafeArrival TerrainTold
