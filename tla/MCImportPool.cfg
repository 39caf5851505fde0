\* Three stickers of every kind and row state on two workers, on every host.
SPECIFICATION Spec
CONSTANTS
  Total = 3
  ImportConcurrency = 2
\* Ends once every worker has run out of stickers or thrown.
CHECK_DEADLOCK FALSE
INVARIANTS
  TypeOK
  DrainedIsComplete
  
PROPERTY
  ImplementsSetSync
