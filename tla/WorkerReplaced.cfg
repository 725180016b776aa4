SPECIFICATION WorkerSpec
CONSTANTS
  Auths = {a, b}
  Keys = {a, b}
  Payers = {"alice"}
  Payees = {"shop"}
  KeyOf <- MCKeyOf
  PayerOf <- MCPayerOf
  PayeeOf <- MCOnePayeeOf
  ValueOf <- MCValueOf
  Requests = {r1, r2}
  NoOne = NoOne
  Isolates = {i1}
  MaxBalance = 1
  MaxNonce = 2
  Fees = {f1}
  Faults = {"drop"}
SYMMETRY Symmetry
INVARIANT SuccessIsPaid
