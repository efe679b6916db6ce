CONSTANTS
    UEs = {u1}
    Cells <- MCCells
    tac <- MCtac
    neigh <- MCneigh
    arm = 3
    roi = 11
    horizon = 2
    confirm = 2
    alert_on_topk = TRUE
    Patterns <- MCNoPattern
    MaxPredicted = 6
    MaxMatched = 0
SPECIFICATION Spec
PROPERTIES ListedAfterConsecutive
CHECK_DEADLOCK FALSE
