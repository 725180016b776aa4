SPECIFICATION WorkerFairSpec
CONSTANTS
  Auths = {a}
  Keys = {a}
  Payers = {"alice"}
  Payees = {a}
  KeyOf <- MCKeyOf
  PayerOf <- MCPayerOf
  PayeeOf <- MCPayeeOf
  ValueOf <- MCValueOf
  Requests = {r1, r2}
  NoOne = NoOne
  Isolates = {i1}
  MaxBalance = 1
  MaxNonce = 1
  Fees = {f1}
  Faults = {"reorg", "rpc", "ambiguous", "storage", "reset", "shared"}
INVARIANTS StoreInv RefusalSentNothing RebroadcastBounded StatusFindsBroadcast
PROPERTIES RecordStable RequestsAnswered CallsReturn
