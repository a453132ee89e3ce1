SPECIFICATION Spec
CONSTANTS
  Sub = {s1, s2}
  Worker = {w1, w2}
  Tier = {"growth", "scale"}
  Growth = "growth"
  None = None
  Grant = TRUE
  Kills = TRUE
  MaxChanges = 2
INVARIANTS RowFollowsStripe CheckoutAppliesOnce OneFreeYear
PROPERTIES NobodyDroppedByAnother
SYMMETRY Symmetry
CHECK_DEADLOCK FALSE
