--------------------------- MODULE MCDesktopSession ---------------------------
(* Two client processes at most: one the session started and one of        *)
(* somebody else.                                                          *)
EXTENDS DesktopSession
=============================================================================
