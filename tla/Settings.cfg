CONSTANTS
  Forms <- MCForms
  MaxSaves = 2
  MaxFaults = 1
SPECIFICATION Spec
INVARIANTS NoSecretLost PageAfterFailure RetryConverges SetupIsOrdered
CHECK_DEADLOCK FALSE
