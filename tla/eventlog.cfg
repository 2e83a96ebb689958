\* A run, a resume and an acceptance by a process with the pid of the run, with
\* crashes, a reboot and failing writes.
SPECIFICATION FairLogSpec
CONSTANTS
  p1 = p1 p2 = p2 p3 = p3 h1 = h1 w1 = w1 w2 = w2 w3 = w3
  Proc <- MCProc
  Host <- MCHost
  hostOf <- MCHostOf
  Pid <- MCPid
  pidOf <- MCPidOf
  NoPid = 0
  Writer <- MCWriter
  procOf <- MCProcOf
  MaxBoots = 1
  kindOf <- MCKindOf
  WritesMayFail = TRUE
  MaxEvents = 1
INVARIANTS BreaksOnlyAfterLostWrite EpochOrdered
PROPERTIES RefinesFence CrashedRunReopens
\* All commands may be over, or dead: the run then rests.
CHECK_DEADLOCK FALSE
