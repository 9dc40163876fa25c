------------------------------- MODULE MCDryRun -------------------------------
(***************************************************************************)
(* The clouds of MCManager, with dry runs.                                 *)
(***************************************************************************)
EXTENDS MCManager, DryRun

\* Dry runs with each combination of the flags that matter to them.
Dry == {Run(d, m, FALSE) : d, m \in BOOLEAN}

=============================================================================
