--------------------------- MODULE MCLocalMailbox ---------------------------
EXTENDS LocalMailbox
CONSTANTS m1, m2, m3
MCStartMsgs == <<m1>>
=============================================================================
