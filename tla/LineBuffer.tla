----------------------------- MODULE LineBuffer -----------------------------
(***************************************************************************)
(* What console input promises: typed characters collect in a line that    *)
(* can be edited until it is complete; complete input is read in order and *)
(* can no longer be edited; at most Size characters are kept.              *)
(***************************************************************************)
EXTENDS Naturals, Sequences

CONSTANTS Chars, Ends, Size   \* characters, those that complete a line, capacity

VARIABLES edit, ready

Init == edit = <<>> /\ ready = <<>>

Complete(line) == line[Len(line)] \in Ends \/ Len(ready) + Len(line) = Size

Type(c) ==
  /\ Len(ready) + Len(edit) < Size
  /\ IF Complete(Append(edit, c)) THEN ready' = ready \o Append(edit, c) /\ edit' = <<>>
     ELSE edit' = Append(edit, c) /\ UNCHANGED ready

Erase == edit # <<>> /\ edit' = SubSeq(edit, 1, Len(edit) - 1) /\ UNCHANGED ready

KillLine == edit' = <<>> /\ UNCHANGED ready

Take == ready # <<>> /\ ready' = Tail(ready) /\ UNCHANGED edit

Next == (\E c \in Chars : Type(c)) \/ Erase \/ KillLine \/ Take

vars == <<edit, ready>>
Spec == Init /\ [][Next]_vars
=============================================================================
