SPECIFICATION Spec
CONSTANTS
  Programs <- MCPrograms
  Retries = 1
  DbErrors = FALSE
INVARIANT AllWritesPerformed
