CONSTANTS
    UEs = {u1}
    Cells <- MCCells
    tac <- MCtac
    neigh <- MCneigh
    arm = 3
    roi = 11
    horizon = 2
    confirm = 2
    alert_on_topk = TRUE
    Patterns <- MCPatterns
    MaxPredicted = 4
    MaxMatched = 4
SPECIFICATION Spec
INVARIANTS StateFileIsCurrent
CHECK_DEADLOCK FALSE
