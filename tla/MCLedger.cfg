\* Two writers, six transactions in any order, one session that dies.
SPECIFICATION LedgerSpec
CONSTANTS
    None = None
    MinSolFlow = 1
    SolPrice = 10
    DustDivisor = 200
    Scale = 60
    Txs <- MCTxs
    Writers = {w1, w2}
    PoolAddresses = {"curve", "amm", "cp"}
    MaxDeliveries <- MCDeliveries
    MaxRollbacks = 1
INVARIANTS
    LedgerTypeOK
    TokensConserved
    IndexNeverRefuses
PROPERTIES
    ImplementsTradeLedger
    EpisodesFinal
    SessionsFinish
CHECK_DEADLOCK FALSE
