\* A run that died, and two resumes of it; no write fails.
SPECIFICATION LogSpec
CONSTANTS
  p1 = p1 p2 = p2 p3 = p3 h1 = h1 w1 = w1 w2 = w2 w3 = w3
  Proc <- MCProc
  Host <- MCHost
  hostOf <- MCHostOf
  Pid <- MCPid
  pidOf <- MCPidOf
  NoPid = 0
  Writer <- MCWriter
  procOf <- MCProcOf
  MaxBoots = 0
  kindOf <- MCTwoResumes
  WritesMayFail = FALSE
  MaxEvents = 1
INVARIANT FinishedOnce
\* All commands may be over, or dead: the run then rests.
CHECK_DEADLOCK FALSE
