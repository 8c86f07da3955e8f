------------------------------- MODULE Console -------------------------------
(***************************************************************************)
(* Console input (kernel/console.c): consoleintr() edits a ring with three *)
(* indices, consoleread() copies complete lines out of it.  Everything is  *)
(* under cons.lock; a reader keeps it over several steps and gives it up   *)
(* when it sleeps.                                                         *)
(***************************************************************************)
EXTENDS Naturals, Sequences

CONSTANTS Readers,     \* threads in consoleread()
          INPUT_BUF,   \* size of the ring
          IdxMod,      \* 2^32: r, w and e wrap
          MaxRead      \* bound: largest n of a read

ConsoleAssumption ==
  /\ INPUT_BUF \in Nat \ {0} /\ MaxRead \in Nat
  /\ IdxMod \in Nat /\ IdxMod > INPUT_BUF /\ IdxMod % INPUT_BUF = 0

VARIABLES
  buf, r, w, e,            \* cons
  lock,                    \* the reader that holds cons.lock
  pc, target, got, killed  \* a reader: label, n asked for, characters delivered, p->killed

consVars == <<buf, r, w, e>>
vars == <<consVars, lock, pc, target, got, killed>>

Chars == {"a", "nl", "eof"}     \* an ordinary character, '\n' (and '\r'), ^D
Free == "free"

Init ==
  /\ buf = [i \in 0..(INPUT_BUF - 1) |-> "a"] /\ r = 0 /\ w = 0 /\ e = 0
  /\ lock = Free
  /\ pc = [p \in Readers |-> "idle"] /\ target = [p \in Readers |-> 0]
  /\ got = [p \in Readers |-> <<>>] /\ killed = [p \in Readers |-> FALSE]

Plus(i, k) == (i + k) % IdxMod
Minus(i, k) == (i + IdxMod - k) % IdxMod

-----------------------------------------------------------------------------
(* cons.e - cons.r < INPUT_BUF. *)
Room == Minus(e, r) < INPUT_BUF

(* Faulty variant of CompletesLine: a full ring does not end the line. *)
CompletesLineChar(c) == c \in {"nl", "eof"}

(* The character makes what has been typed available to readers. *)
CompletesLine(c) == c \in {"nl", "eof"} \/ Plus(e, 1) = Plus(r, INPUT_BUF)

(* Faulty variant of Woken: readers are told only of an end of line. *)
WokenByLine(c) == IF c = "nl" THEN {p \in Readers : pc[p] = "asleep"} ELSE {}

(* wakeup(&cons.r). *)
Woken(c) == {p \in Readers : pc[p] = "asleep"}

(* consoleintr() of an ordinary character. *)
IntrChar(c) ==
  /\ lock = Free /\ Room
  /\ buf' = [buf EXCEPT ![e % INPUT_BUF] = c]
  /\ e' = Plus(e, 1)
  /\ IF CompletesLine(c)
     THEN /\ w' = e'
          /\ pc' = [p \in Readers |-> IF p \in Woken(c) THEN "lock" ELSE pc[p]]
     ELSE UNCHANGED <<w, pc>>
  /\ UNCHANGED <<r, lock, target, got, killed>>

(* Faulty variant of Editable: characters a reader may have are erased too. *)
EditableAll == e # r

(* There is a character that is not complete input. *)
Editable == e # w

(* consoleintr() of ^H or DEL. *)
IntrErase ==
  /\ lock = Free /\ Editable
  /\ e' = Minus(e, 1)
  /\ UNCHANGED <<buf, r, w, lock, pc, target, got, killed>>

(* consoleintr() of ^U: erase back to w or to a '\n'. *)
IntrKill ==
  /\ lock = Free /\ Editable
  /\ LET Stop(k) == Minus(e, k) = w \/ buf[Minus(e, k + 1) % INPUT_BUF] = "nl"
         k == CHOOSE k \in 0..INPUT_BUF : Stop(k) /\ \A j \in 0..(k - 1) : ~Stop(j)
     IN e' = Minus(e, k)
  /\ UNCHANGED <<buf, r, w, lock, pc, target, got, killed>>

-----------------------------------------------------------------------------
(* read() of n bytes. *)
Read(p, k) ==
  /\ pc[p] = "idle"
  /\ target' = [target EXCEPT ![p] = k] /\ got' = [got EXCEPT ![p] = <<>>]
  /\ pc' = [pc EXCEPT ![p] = "lock"]
  /\ UNCHANGED <<consVars, lock, killed>>

(* acquire(), also at the end of sleep(). *)
ReadLock(p) ==
  /\ pc[p] = "lock" /\ lock = Free
  /\ lock' = p /\ pc' = [pc EXCEPT ![p] = "loop"]
  /\ UNCHANGED <<consVars, target, got, killed>>

Return(p) == lock' = Free /\ pc' = [pc EXCEPT ![p] = "idle"]

(* The loop ends with n bytes, or for a killed reader. *)
ReadReturn(p) ==
  /\ pc[p] = "loop"
  /\ Len(got[p]) = target[p] \/ (r = w /\ killed[p])
  /\ Return(p) /\ killed' = [killed EXCEPT ![p] = FALSE]
  /\ UNCHANGED <<consVars, target, got>>

(* No input: sleep(&cons.r, &cons.lock). *)
ReadSleep(p) ==
  /\ pc[p] = "loop" /\ Len(got[p]) < target[p] /\ r = w /\ ~killed[p]
  /\ lock' = Free /\ pc' = [pc EXCEPT ![p] = "asleep"]
  /\ UNCHANGED <<consVars, target, got, killed>>

(* Faulty variant of EofKept: ^D is consumed wherever it is. *)
EofKeptNever(p) == FALSE

(* n < target: the ^D is left for the next read. *)
EofKept(p) == got[p] # <<>>

(* Take ^D: it ends the read. *)
ReadEof(p) ==
  /\ pc[p] = "loop" /\ Len(got[p]) < target[p] /\ r # w /\ buf[r % INPUT_BUF] = "eof"
  /\ r' = IF EofKept(p) THEN r ELSE Plus(r, 1)
  /\ Return(p)
  /\ UNCHANGED <<buf, w, e, target, got, killed>>

(* Take a character and copy it out; '\n' or a failing copy ends the read. *)
ReadChar(p, ok) ==
  LET c == buf[r % INPUT_BUF] IN
  /\ pc[p] = "loop" /\ Len(got[p]) < target[p] /\ r # w /\ c # "eof"
  /\ r' = Plus(r, 1)
  /\ got' = IF ok THEN [got EXCEPT ![p] = Append(@, c)] ELSE got
  /\ IF ok /\ c # "nl" THEN UNCHANGED <<lock, pc>> ELSE Return(p)
  /\ UNCHANGED <<buf, w, e, target, killed>>

(* kill() wakes a sleeping reader. *)
Kill(p) ==
  /\ pc[p] # "idle" /\ killed' = [killed EXCEPT ![p] = TRUE]
  /\ pc' = IF pc[p] = "asleep" THEN [pc EXCEPT ![p] = "lock"] ELSE pc
  /\ UNCHANGED <<consVars, lock, target, got>>

Next ==
  \/ IntrErase \/ IntrKill \/ \E c \in Chars : IntrChar(c)
  \/ \E p \in Readers :
       \/ ReadLock(p) \/ ReadReturn(p) \/ ReadSleep(p) \/ ReadEof(p) \/ Kill(p)
       \/ (\E k \in 1..MaxRead : Read(p, k)) \/ \E ok \in BOOLEAN : ReadChar(p, ok)

Spec == Init /\ [][Next]_vars

-----------------------------------------------------------------------------
Segment(from, to) == [i \in 1..Minus(to, from) |-> buf[Plus(from, i - 1) % INPUT_BUF]]

(* The ring with its three wrapping indices implements the line discipline:    *)
(* unread input is never overwritten, complete input is never edited, and it   *)
(* is read in order.                                                           *)
Discipline == INSTANCE LineBuffer WITH
  Ends <- {"nl", "eof"}, Size <- INPUT_BUF, edit <- Segment(w, e), ready <- Segment(r, w)
LineDiscipline == Discipline!Spec

(* A reader sleeps only while there is nothing to read: consoleintr() wakes    *)
(* the readers for every line, end of file and full ring.                      *)
SleepsOnlyWhenEmpty == \A p \in Readers : pc[p] = "asleep" => r = w

(* What has been typed can be read or still be edited: a ring that is full has *)
(* something for the readers, or typing and reading would wait for each other. *)
FullIsReadable == Minus(e, r) = INPUT_BUF => r # w

(* ^D is an end of file for somebody: it leaves the ring only through a read   *)
(* that returns no bytes, never behind the bytes of a longer read.             *)
EofEndsEmptyRead == \A p \in Readers : (ReadEof(p) /\ r' # r) => got[p] = <<>>

(* The state without what a reader that has returned was given. *)
Live == <<consVars, lock, pc, killed, [p \in Readers |-> IF pc[p] = "idle" THEN <<>> ELSE <<target[p], got[p]>>]>>
=============================================================================
