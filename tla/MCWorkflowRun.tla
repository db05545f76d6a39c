--------------------------- MODULE MCWorkflowRun ---------------------------
(***************************************************************************)
(* Small instances of WorkflowRun for TLC.                                 *)
(***************************************************************************)
EXTENDS WorkflowRun, TLC

\* Two steps and a third that joins them and uses the result of the first.
JoinDependsOn == 1 :> {} @@ 2 :> {} @@ 3 :> {1, 2}
JoinRefs      == 1 :> {} @@ 2 :> {} @@ 3 :> {1}

\* Workers and values are used for equality only.
Symmetric == Permutations(Workers) \cup Permutations(Values)
=============================================================================
