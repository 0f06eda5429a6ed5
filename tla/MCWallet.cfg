SPECIFICATION FairSpec
CONSTANTS
    m1 = m1
    m2 = m2
    op = op
    Tasks = {m1, m2, op}
    Asks <- EngineAndOperator
    After <- OneAfterTheOther
    Genesis <- ThreeBoxes
    HasSubmitUrl = FALSE
    NoTx = NoTx
    NoBox = NoBox
    Decimals = 1
    Fee = 1
    BoxMin = 2
    Dust = 1
    Percent = 100
INVARIANTS TruthfulReports OneVmPerToken PaysExactly
PROPERTY CommandsEnd
CHECK_DEADLOCK FALSE
