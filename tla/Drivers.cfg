CONSTANTS
  PFPU = PFPU
  TMU = TMU
  NoTask = NoTask
  QSize = 2
  MaxTasks = 3
SPECIFICATION Spec
INVARIANTS TypeOK RunningIsHead MaskRestored
PROPERTIES NeverRestarted ImplementsFifo EveryTaskReported
\* The program may have submitted all its tasks and have nothing left to do.
CHECK_DEADLOCK FALSE
