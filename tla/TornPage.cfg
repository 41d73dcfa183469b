SPECIFICATION Spec
CONSTANTS
  Nothing = Nothing
  Scenes <- Words
  Width = 3
  Chunk = 2
  Interval = 2
  Resends = 1
  Losses = 1
  Early = 0
  Capacity = 2
INVARIANTS NeverTorn
