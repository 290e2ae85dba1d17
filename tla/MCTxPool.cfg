SPECIFICATION Spec
CONSTANTS
    Account <- MCAccount
    Tx <- MCTxs
    LocalTx <- MCLocalTx
    Batches <- MCBatches
    Block <- MCBlock
    Genesis = "g"
    Parent <- MCParent
    Body <- MCBody
    Balance <- MCBalance
    Outdated <- MCOutdated
    Prices = {2}
    Orders <- MCOrders
    PriceLimit = 1
    PriceBump = 10
    AccountSlots = 1
    GlobalSlots = 2
    AccountQueue = 1
    GlobalQueue = 1
    MaxReorg = 1
    MaxJournal = 4
INVARIANT PoolReady
INVARIANT PendingFair
INVARIANT PendingKnown
PROPERTY LocalKept
