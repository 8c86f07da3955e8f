-------------------------------- MODULE Uart --------------------------------
(***************************************************************************)
(* Output through the UART (kernel/uart.c, consolewrite() in               *)
(* kernel/console.c): writers that fill the transmit ring and sleep when   *)
(* it is full, uartstart() called by them and by the interrupt handler     *)
(* under uart_tx_lock, and printf() and echo, which write the register     *)
(* with no lock.                                                           *)
(*                                                                         *)
(* The device is a FIFO that reports TX_IDLE when it is empty, raises an   *)
(* interrupt when it becomes empty, and loses what it has no room for.     *)
(***************************************************************************)
EXTENDS Naturals, Sequences, FiniteSets

CONSTANTS Writers,    \* threads in consolewrite()
          Printers,   \* harts in uartputc_sync()
          SIZE,       \* UART_TX_BUF_SIZE
          FifoDepth,  \* characters the device can hold
          MaxChars    \* bound: characters each of them sends

UartAssumption ==
  SIZE \in Nat \ {0} /\ MaxChars \in Nat /\ FifoDepth \in Nat

VARIABLES
  ring, tx_w, tx_r,   \* uart_tx_buf, uart_tx_w, uart_tx_r
  lock,               \* the holder of uart_tx_lock
  fifo, sent, irq,    \* the device: its FIFO, what it has sent, its interrupt
  pc, n               \* a writer or printer, or the handler: label, characters begun

ringVars == <<ring, tx_w, tx_r>>
vars == <<ringVars, lock, fifo, sent, irq, pc, n>>

Handler == "intr"
Free == "free"
Agents == Writers \cup Printers \cup {Handler}
Char(a) == <<a, n[a]>>

Init ==
  /\ ring = [i \in 0..(SIZE - 1) |-> <<>>] /\ tx_w = 0 /\ tx_r = 0
  /\ lock = Free /\ fifo = <<>> /\ sent = <<>> /\ irq = FALSE
  /\ pc = [a \in Agents |-> "idle"] /\ n = [a \in Agents |-> 0]

Goto(a, l) == pc' = [pc EXCEPT ![a] = l]

(* ReadReg(LSR) & LSR_TX_IDLE. *)
TxIdle == fifo = <<>>

(* WriteReg(THR, c); lost when the FIFO is full. *)
WriteTHR(c) == fifo' = IF Len(fifo) < FifoDepth THEN Append(fifo, c) ELSE fifo

-----------------------------------------------------------------------------
(* consolewrite(): the next character, uartputc(). *)
Putc(a) ==
  /\ pc[a] = "idle" /\ n[a] < MaxChars
  /\ n' = [n EXCEPT ![a] = @ + 1] /\ Goto(a, "put")
  /\ UNCHANGED <<ringVars, lock, fifo, sent, irq>>

(* Faulty variant of Full: one character too late. *)
FullLate == tx_w = tx_r + SIZE + 1

Full == tx_w = tx_r + SIZE

(* uartputc(): with the lock, sleep or store the character and uartstart(). *)
PutFull(a) ==
  /\ pc[a] = "put" /\ lock = Free /\ Full
  /\ Goto(a, "asleep")
  /\ UNCHANGED <<ringVars, lock, fifo, sent, irq, n>>

PutStore(a) ==
  /\ pc[a] = "put" /\ lock = Free /\ ~Full
  /\ ring' = [ring EXCEPT ![tx_w % SIZE] = Char(a)] /\ tx_w' = tx_w + 1
  /\ lock' = a /\ Goto(a, "start")
  /\ UNCHANGED <<tx_r, fifo, sent, irq, n>>

(* Faulty variant of Intr: uartintr() serves the input only. *)
IntrInputOnly ==
  /\ irq /\ irq' = FALSE
  /\ UNCHANGED <<ringVars, lock, fifo, sent, pc, n>>

(* uartintr(), after the input: uartstart() under the lock. *)
Intr ==
  /\ irq /\ pc[Handler] = "idle" /\ lock = Free
  /\ irq' = FALSE /\ lock' = Handler /\ Goto(Handler, "start")
  /\ UNCHANGED <<ringVars, fifo, sent, n>>

(* uartstart(): nothing to send, or the register is busy. *)
StartDone(a) ==
  /\ pc[a] = "start" /\ (tx_w = tx_r \/ ~TxIdle)
  /\ lock' = Free /\ Goto(a, "idle")
  /\ UNCHANGED <<ringVars, fifo, sent, irq, n>>

(* uartstart(): idle, take a character; the register is written after that. *)
StartTake(a) ==
  /\ pc[a] = "start" /\ tx_w # tx_r /\ TxIdle
  /\ Goto(a, "thr")
  /\ UNCHANGED <<ringVars, lock, fifo, sent, irq, n>>

(* Faulty variant of Waking: wakeup() is forgotten. *)
WakingNone == {}

(* wakeup(&uart_tx_r). *)
Waking == {q \in Writers : pc[q] = "asleep"}

(* uart_tx_r += 1, wakeup(&uart_tx_r), WriteReg(THR, c); once more around. *)
StartSend(a) ==
  /\ pc[a] = "thr"
  /\ WriteTHR(ring[tx_r % SIZE]) /\ tx_r' = tx_r + 1
  /\ pc' = [q \in Agents |-> IF q = a THEN "start" ELSE IF q \in Waking THEN "put" ELSE pc[q]]
  /\ UNCHANGED <<ring, tx_w, lock, sent, irq, n>>

-----------------------------------------------------------------------------
(* uartputc_sync() spins until TX_IDLE. *)
SyncWait == TxIdle

SyncCheck(a) ==
  /\ pc[a] = "idle" /\ n[a] < MaxChars /\ SyncWait
  /\ n' = [n EXCEPT ![a] = @ + 1] /\ Goto(a, "thr")
  /\ UNCHANGED <<ringVars, lock, fifo, sent, irq>>

SyncSend(a) ==
  /\ pc[a] = "thr" /\ WriteTHR(Char(a)) /\ Goto(a, "idle")
  /\ UNCHANGED <<ringVars, lock, sent, irq, n>>

(* The device sends a character and interrupts when it has no more. *)
DevSend ==
  /\ fifo # <<>>
  /\ sent' = Append(sent, Head(fifo)) /\ fifo' = Tail(fifo)
  /\ irq' = (irq \/ Len(fifo) = 1)
  /\ UNCHANGED <<ringVars, lock, pc, n>>

Start(a) == StartDone(a) \/ StartTake(a) \/ StartSend(a)

Next ==
  \/ \E a \in Writers : Putc(a) \/ PutFull(a) \/ PutStore(a)
  \/ \E a \in Writers \cup {Handler} : Start(a)
  \/ \E a \in Printers : SyncCheck(a) \/ SyncSend(a)
  \/ Intr \/ DevSend

Spec == Init /\ [][Next]_vars

(* Threads run, the lock is not withheld for ever, the device sends, and       *)
(* interrupts are delivered.                                                   *)
Fairness ==
  /\ \A a \in Writers : WF_vars(Putc(a)) /\ SF_vars(PutFull(a)) /\ SF_vars(PutStore(a))
  /\ \A a \in Writers \cup {Handler} : WF_vars(Start(a))
  /\ \A a \in Printers : WF_vars(SyncSend(a))
  /\ SF_vars(Intr) /\ WF_vars(DevSend)

-----------------------------------------------------------------------------
(* The ring from tx_r to tx_w. *)
Queued == [i \in 1..(tx_w - tx_r) |-> ring[(tx_r + i - 1) % SIZE]]

Of(s, a) == SelectSeq(s, LAMBDA c : c[1] = a)

(* How many of its characters agent a has handed over. *)
Given(a) == IF pc[a] \in {"put", "asleep"} \/ (a \in Printers /\ pc[a] = "thr") THEN n[a] - 1 ELSE n[a]

(* What a writer, or printf() on a hart, has sent so far is on the line, in    *)
(* the device or in the ring, in the order it was given and without loss or    *)
(* repetition, although two halves drive uartstart() and uartputc_sync() races *)
(* them for the register.                                                      *)
CharsInOrder ==
  \A a \in Writers \cup Printers :
    Of(sent \o fifo \o Queued, a) = [i \in 1..Given(a) |-> <<a, i>>]

(* A writer sleeps only while the ring is full: uartstart() wakes it when it   *)
(* makes room.                                                                 *)
SleepsOnlyWhenFull == \A a \in Writers : pc[a] = "asleep" => Full

(* Characters in the ring are never forgotten: the device is busy and will     *)
(* interrupt, or has, or somebody is in uartstart() or about to write the      *)
(* register.  uartstart() gives up on a busy register, counting on this.       *)
NeverStalled ==
  tx_w # tx_r => fifo # <<>> \/ irq \/ lock # Free \/ \E a \in Printers : pc[a] = "thr"

HasSent(a) == Of(sent, a) = [i \in 1..MaxChars |-> <<a, i>>]

(* Everything that is written is sent. *)
AllSent == \A a \in Writers : <>HasSent(a)
=============================================================================
