CONSTANTS
    UEs = {u1, u2}
    Cells <- MCCells
    tac <- MCtac
    neigh <- MCneigh
    arm = 3
    roi = 11
    horizon = 1
    confirm = 2
    alert_on_topk = TRUE
    Patterns <- MCPatterns
    MaxPredicted = 4
    MaxMatched = 6
SPECIFICATION Spec
INVARIANTS ListedAfterConfirm PositionExact ListedIffMatched
CHECK_DEADLOCK FALSE
