--------------------------- MODULE MCMailRecorder ---------------------------
(* Two connections, two mailboxes, one operation of each kind.             *)
EXTENDS MailRecorder, TLC

CONSTANTS c1, c2, inbox, sent

MCClients     == {c1, c2}
MCMailboxes   == {inbox, sent}
MCMailboxActs == {"Create"}
MCMessageActs == {"Flag"}
MCSymmetry    == Permutations(MCClients) \cup Permutations(MCMailboxes)
=============================================================================
