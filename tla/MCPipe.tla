------------------------------- MODULE MCPipe -------------------------------
(***************************************************************************)
(* Instances of Pipe for TLC.  The counters have so few bits that they     *)
(* wrap, and a call may ask for more bytes than the pipe holds.            *)
(***************************************************************************)
EXTENDS Pipe, TLC

CONSTANTS p1, p2, p3

TwoWriters == {p1, p2}

=============================================================================
