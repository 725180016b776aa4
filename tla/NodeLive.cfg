SPECIFICATION NodeFairSpec
CONSTANTS
  Auths = {a}
  Keys = {a}
  Payers = {"alice"}
  Payees = {a}
  KeyOf <- MCKeyOf
  PayerOf <- MCPayerOf
  PayeeOf <- MCPayeeOf
  ValueOf <- MCValueOf
  Requests = {r1, r2, r3}
  MaxBalance = 1
  MaxNonce = 2
  Fees = {f1}
  Faults = {"spend", "rpc", "ambiguous"}
PROPERTY NodeRequestsAnswered
