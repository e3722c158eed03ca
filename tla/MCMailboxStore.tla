--------------------------- MODULE MCMailboxStore ---------------------------
(* Instances of MailboxStore for TLC: the .cfg files give the values. *)
EXTENDS MailboxStore
=============================================================================
