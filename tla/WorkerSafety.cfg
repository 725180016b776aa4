SPECIFICATION WorkerSpec
CONSTANTS
  Auths = {a, b}
  Keys = {a, b}
  Payers = {"alice"}
  Payees = {a, b}
  KeyOf <- MCKeyOf
  PayerOf <- MCPayerOf
  PayeeOf <- MCPayeeOf
  ValueOf <- MCValueOf
  Requests = {r1, r2}
  NoOne = NoOne
  Isolates = {i1, i2}
  MaxBalance = 1
  MaxNonce = 2
  Fees = {f1, f2}
  Faults = {"drop", "ambiguous", "reset", "evict"}
SYMMETRY Symmetry
INVARIANTS WorkerTypeOK NonceUnique SuccessIsSeen AnswersNameIssued EmptyFailureSentNothing StatusTruthful
PROPERTY KeepsPromise
