CONSTANTS
  CPU = {1}
  NPROC = 3
  MaxPid = 3
SPECIFICATION FairSpec
PROPERTIES
  RunnableRuns
  
