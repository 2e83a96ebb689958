----------------------------- MODULE MCRunLog -----------------------------
(***************************************************************************)
(* One machine and three processes with one command each. p3 only starts   *)
(* while p1 is not there, and has its pid. p1 runs, p2 resumes, p3         *)
(* accepts; or p1 runs and p2 and p3 both resume.                          *)
(***************************************************************************)
EXTENDS RunLog

CONSTANTS p1, p2, p3, h1, w1, w2, w3

MCProc == {p1, p2, p3}
MCHost == {h1}
MCHostOf == [p \in MCProc |-> h1]
MCPid == {1, 2}
MCPidOf == [p \in MCProc |-> IF p = p2 THEN 2 ELSE 1]
MCWriter == {w1, w2, w3}
MCProcOf == [w \in MCWriter |-> CASE w = w1 -> p1 [] w = w2 -> p2 [] w = w3 -> p3]
MCKindOf == [w \in MCWriter |-> CASE w = w1 -> "run" [] w = w2 -> "resume" [] w = w3 -> "accept"]
MCTwoResumes == [w \in MCWriter |-> IF w = w1 THEN "run" ELSE "resume"]
===========================================================================
