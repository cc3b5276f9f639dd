SPECIFICATION Spec
CONSTANTS
    Tx <- MCTxs
    Submitted <- MCSubmitted
    Sender = {"alice", "bob"}
    PROTOCOL_TREASURY = "treasury"
    Proposer = "proposer"
    Premine <- MCPremine
    BLOCK_REWARD = 4
    MAX_SUPPLY = 25
    HALVING_INTERVAL = 2
    MAX_MEMPOOL_SIZE = 3
    MAX_MEMPOOL_PER_SENDER = 2
    MAX_TX_PER_BLOCK = 3
    CHAIN_WINDOW_SIZE = 5
    EPOCH_LENGTH = 3
    UNBONDING_PERIOD = 1
    Slashes = {0, 1}
    MayExpire <- MCSubmitted
    MaxHeight = 3
INVARIANT PoolIsProducible
