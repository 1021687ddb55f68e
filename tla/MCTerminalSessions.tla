-------------------------- MODULE MCTerminalSessions --------------------------
(* A terminal with three calls, two outputs and one interrupted call.         *)
EXTENDS TerminalSessions, TLC
=============================================================================
