------------------------ MODULE MCDocumentLifecycle ------------------------
(***************************************************************************)
(* Instances of DocumentLifecycle for TLC.                                 *)
(***************************************************************************)
EXTENDS DocumentLifecycle

=============================================================================
