SPECIFICATION Spec
CONSTANTS
  Programs <- MCPrograms
  Retries = 1
  DbErrors = TRUE
INVARIANTS TypeOK DropsOnlyBehindABatch RetriedBatchIsComplete
PROPERTIES WriterDrainsChannel ImplementsHeaderWriter
