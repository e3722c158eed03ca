--------------------------- MODULE MCAttachments ---------------------------
(* Instances of Attachments for TLC. *)
EXTENDS Attachments, TLC

\* The tasks that handle packets are interchangeable.
HandlerSymmetry == Permutations(Handlers)
=============================================================================
