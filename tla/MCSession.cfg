SPECIFICATION Spec
CONSTANTS
  CONTROL_SLOTS = 1
  DATA_BYTES = 0
  OBJECT_BYTES = 0
  BURST = 1
  Tasks = {t1, t2}
  Programs = {p1}
  RequestIds = {i1, i2}
  SLOTS = 1
  WORKERS = 1
  THREADS = 1
  JOBS = 2
CHECK_DEADLOCK FALSE
INVARIANTS AnswersAreConserved WorkersAreConserved
PROPERTY RefusalIsDeserved
PROPERTY EveryLoadGetsAWorker
