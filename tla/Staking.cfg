CONSTANTS
    Validator = {1, 2, 3}
    Delegator = {d1, d2}
    Genesis = {1, 2}
    Wallet <- MCWallet
    Amount = {2, 3}
    BlockReward = 3
    Commission = 2
    MIN_SELF_STAKE = 2
    MAX_ACTIVE_VALIDATORS = 2
    UNBONDING_PERIOD = 1
    MAX_UNBONDING_ENTRIES = 1
    MAX_UNBONDING_PER_VALIDATOR = 2
    MAX_DELEGATIONS_PER_ACCOUNT = 2
    REDELEGATE_COOLDOWN = 2
    EPOCH_LENGTH = 2
    LIVENESS_WINDOW = 2
    MIN_SIGNED_PER_WINDOW = 1
    DOWNTIME_SLASH_BP = 3
    DOWNTIME_JAIL_BLOCKS = 1
    DOUBLE_SIGN_SLASH_BP = 7
    BP = 10
    MaxHeight = 4
    Treasury = treasury
SPECIFICATION Spec
SYMMETRY Interchangeable
INVARIANTS TotalDelegatedIsSum TreasurySolvent ActiveSetEligible
PROPERTIES TombstoneIsFinal DelegatorKeepsFunds
CHECK_DEADLOCK FALSE
