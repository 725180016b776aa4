SPECIFICATION NodeSpec
CONSTANTS
  Hosts = {"node"}
  Chains = {"polygon", "kaia"}
  Flaky = {"kaia"}
  Period = 1
  CallLimit = 2
INVARIANTS BalanceTypeOK FlagFollowsBalance
