------------------------------ MODULE MCSdkRepo ------------------------------
(* Instances of SdkRepo for TLC.                                           *)
EXTENDS SdkRepo, TLC

\* Keys are interchangeable, and so are tasks of one kind.  Used by the runs
\* that check no liveness property.
Symmetry ==
    Permutations(ClientSdkKeys) \cup Permutations(ServerSdkKeys)
      \cup Permutations(KeyTasks) \cup Permutations(ClientTasks)
      \cup Permutations(Handlers)

=============================================================================
