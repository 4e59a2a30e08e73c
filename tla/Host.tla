-------------------------------- MODULE Host --------------------------------
(***************************************************************************)
(* What an agent's tools leave on the host: background processes and         *)
(* commits, side by side.                                                     *)
(***************************************************************************)
EXTENDS Processes, Commits

HostSpec == ProcessSpec /\ CommitSpec

\* Types of both parts.
HostTypeOK == ProcessTypeOK /\ CommitTypeOK
=============================================================================
