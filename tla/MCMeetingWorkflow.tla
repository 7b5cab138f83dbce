------------------------- MODULE MCMeetingWorkflow --------------------------
(***************************************************************************)
(* Instances of MeetingWorkflow for TLC.                                   *)
(***************************************************************************)
EXTENDS WorkflowInvariant, TLC

CONSTANTS email, invite, move, task, w1, w2, a1, a2, a3

Symmetry == Permutations(Approvers)
=============================================================================
