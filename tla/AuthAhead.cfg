SPECIFICATION AuthSpec
CONSTANTS
  Requests = {"q1", "q2", "q3", "q4"}
  Deliveries = {"d1", "d2", "d3", "d4", "d5", "d6"}
  CopyOf <- MCCopyOf
  Damage <- MCDamage
  KeyIdOf <- MCKeyIdOf
  NonceOf <- MCNonceOf
  Ts <- MCTs
  Configured = {"shop", "ops"}
  Skew = 2
  Span = 0
  Horizon = 8
INVARIANT AcceptedOnce
