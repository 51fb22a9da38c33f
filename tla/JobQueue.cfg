SPECIFICATION FairSpec
CONSTANTS
  preview1 = preview1
  preview2 = preview2
  save = save
  export = export
  previewKey = previewKey
  NoKey = NoKey
  NoJob = NoJob
  Workers = {w1, w2}
  Budget = 2
  Recurring = {}
  Jobs <- MCJobs
  Keys <- MCKeys
  KeyOf <- MCKeyOf
  Estimate <- MCEstimate
INVARIANTS
  QueueInOrder
PROPERTIES
  EveryRequestAnswered
  ShutdownCompletes
