------------------------------- MODULE MCProc -------------------------------
(* Instances of Proc for TLC. *)
EXTENDS ProcInv

(* User programs that fork, exit, wait and kill. *)
TreeCalls == {"fork", "exit", "wait", "kill", "badaddr"}

(* User programs that fork, sleep, kill and fault; init too may exit. *)
SleepCalls == {"fork", "sleep", "kill", "exit", "initexit", "fault"}
(* sleep(-1) is a long sleep: its argument is converted to unsigned. *)
MCSleepArgs == {2, -1}

=============================================================================
