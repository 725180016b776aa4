SPECIFICATION Spec
CONSTANTS
  Auths = {"a", "b"}
  Keys = {"ka", "kb"}
  Payers = {"alice"}
  Payees = {"shop"}
  KeyOf <- MCKeyOf
  PayerOf <- MCPayerOf
  PayeeOf <- MCPayeeOf
  ValueOf <- MCValueOf
  Requests = {r1, r2}
  NoOne = NoOne
  MaxBalance = 1
  MaxNonce = 2
  Fees = {f1}
  Faults = {"spend"}
PROPERTY ReplayMayStillPay
