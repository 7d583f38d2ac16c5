\* Two threads and pool threads share a light that people also move by hand.
SPECIFICATION Spec
CONSTANTS
  Thread = {t1, t2}
  Percents = {50, 99}
  FastLevels = {255}
  HandLevels = {4}
  MaxCalls = 3
  MaxPresses = 2
SYMMETRY Symmetry
INVARIANTS TypeOK  LevelWasReal
PROPERTIES ReadsBack
