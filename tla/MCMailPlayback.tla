-------------------------- MODULE MCMailPlayback ---------------------------
(***************************************************************************)
(* MailPlayback for TLC: mailboxes "a" and "b", all messages start in "a".  *)
(***************************************************************************)
EXTENDS MailPlayback

MCStartNames == [b \in Mailboxes |-> CASE b = "a" -> 1 [] b = "b" -> 2 [] OTHER -> 0]
=============================================================================
