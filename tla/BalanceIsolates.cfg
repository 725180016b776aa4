SPECIFICATION WorkerSpec
CONSTANTS
  Hosts = {"isolate1", "isolate2"}
  Chains = {"polygon"}
  Flaky = {}
  Period = 2
  CallLimit = 0
INVARIANTS TopUpClearsFlag
