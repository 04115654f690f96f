---------------------------- MODULE MCMailService ---------------------------
(* MailService for TLC: two alerts after the first mail, two descriptors.  *)
EXTENDS MailService
=============================================================================
