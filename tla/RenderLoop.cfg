SPECIFICATION Spec
CONSTANTS
  Resources = {r1, r2}
  Composed = {c1, c2}
  MaxRenderIterations = 3
SYMMETRY Symmetry
INVARIANTS
  ExhaustionIsEarned
  StableIsClosed
PROPERTY
  NoIdenticalRetry
