SPECIFICATION NodeSpec
CONSTANTS
  Auths = {a, b}
  Keys = {a, b}
  Payers = {"alice"}
  Payees = {a, b}
  KeyOf <- MCKeyOf
  PayerOf <- MCPayerOf
  PayeeOf <- MCPayeeOf
  ValueOf <- MCValueOf
  Requests = {r1, r2, r3}
  MaxBalance = 1
  MaxNonce = 2
  Fees = {f1, f2}
  Faults = {"ambiguous", "drop"}
SYMMETRY Symmetry
INVARIANTS NodeTypeOK NodeNonceUnique NodeRebroadcastBounded NodeSuccessIsPaid NodeFailureIsOwn ReceiptIsOwn
PROPERTY NodeKeepsPromise
