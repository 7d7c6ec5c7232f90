----------------------------- MODULE MCSceneJobs -----------------------------
(***************************************************************************)
(* Small instances of SceneJobs: one job whose steps all ask, or whose     *)
(* first one does not.                                                     *)
(***************************************************************************)
EXTENDS SceneJobs

CONSTANTS p1, p2, r1, r2

GatedKeys == Jobs \X Gated

=============================================================================
