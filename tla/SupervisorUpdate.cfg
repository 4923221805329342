SPECIFICATION FairSpec
CONSTANTS
  File = {exe, lib}
  Exe = exe
  MaxVersion = 2
  MaxPublished = 3
  MaxFaults = 3
INVARIANTS RecordedIsInstalled 
PROPERTIES NewerInstalled WorkerServed
CHECK_DEADLOCK FALSE
