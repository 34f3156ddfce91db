CONSTANTS
  NPROC = 4
  NPAGES = 17
  Allocatable <- MCAllocatable
  MEMSIZE_VIRTUAL = 8
  PROC_START = 3
  CONSOLE = 2
  Segments <- MCSegments
  Nodes = {1, 2}
  Path <- MCPath
  UserValue = {"x"}
  BootCounts = {1, 2}
  MaxLost = 1
SPECIFICATION Spec
INVARIANTS TypeOK NoFreePageLost Isolation KernelMapped RefcountExact DrawingTrue
PROPERTIES ImplementsProcessMemory RunnableRuns
CHECK_DEADLOCK FALSE
