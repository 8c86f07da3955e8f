------------------------------ MODULE CopyUser ------------------------------
(***************************************************************************)
(* Moving data between the kernel and user memory: copyin(), copyout() and *)
(* copyinstr() of kernel/vm.c, page by page through walkaddr(), and        *)
(* argstr() of kernel/syscall.c, which returns what strlen() makes of the  *)
(* string. A byte of user memory is NUL, or names where it lies.           *)
(***************************************************************************)
EXTENDS Integers, FiniteSets, FiniteSetsExt, Sequences, SequencesExt

CONSTANTS PGSIZE, NPages,  \* size of a page, virtual pages below MAXVA
          Frames,          \* physical pages
          MaxLen           \* longest copy

CopyUserAssumption == PGSIZE \in Nat \ {0} /\ {NPages, MaxLen} \subseteq Nat /\ Frames \subseteq Nat \ {0}

VARIABLES pagetable,  \* of a virtual page: 0 (invalid), -1 (not for the user) or its frame
          mem,        \* bytes of the frames
          call,       \* the call: function, user address, length
          va, len,    \* where it is
          buf,        \* the bytes in the kernel's buffer so far
          ret         \* 1 while it runs, then 0 or -1

vars == <<pagetable, mem, call, va, len, buf, ret>>

MAXVA == NPages * PGSIZE
PGROUNDDOWN(a) == a - (a % PGSIZE)
NUL == <<0, 0>>
Source(i) == <<0, i>>  \* byte i of the kernel's buffer, for copyout()
Offsets == 0..(PGSIZE - 1)
Fresh(nuls) == [f \in Frames |-> [o \in Offsets |-> IF <<f, o>> \in nuls THEN NUL ELSE <<f, o>>]]

Init ==
  /\ pagetable \in [0..(NPages - 1) -> Frames \cup {0, -1}]
  /\ call \in [fn : {"copyin", "copyout", "argstr"}, va : 0..(MAXVA + 1), len : 0..MaxLen]
  /\ \E nuls \in IF call.fn = "argstr" THEN SUBSET (Frames \X Offsets) ELSE {{}} : mem = Fresh(nuls)
  /\ va = call.va /\ len = call.len /\ buf = <<>> /\ ret = 1

-----------------------------------------------------------------------------
(* walkaddr(): the frame of a page of user memory, or 0. *)
walkaddr(a) == IF a >= MAXVA THEN 0 ELSE Max({0, pagetable[a \div PGSIZE]})

(* How much of the page at a is copied. *)
Piece(a, left) == Min({PGSIZE - (a - PGROUNDDOWN(a)), left})

(* The n bytes of frame f from a on. *)
Bytes(f, a, n) == [k \in 1..n |-> mem[f][(a % PGSIZE) + k - 1]]

Fail == ret' = -1 /\ UNCHANGED <<va, len, buf, mem>>
Advance(n) == len' = len - n /\ va' = PGROUNDDOWN(va) + PGSIZE

(* Faulty variant of Done: src is not moved on. *)
DoneNot(left) == 0

(* How far src has moved when left bytes are left. *)
Done(left) == call.len - left

Same == UNCHANGED <<pagetable, call>>

(* Faulty variant of CopyIn: the address moves on by a page, not to the next page. *)
CopyInSkips ==
  LET f == walkaddr(PGROUNDDOWN(va))  n == Piece(va, len) IN
  /\ ret = 1 /\ call.fn = "copyin" /\ Same
  /\ \/ len = 0 /\ ret' = 0 /\ UNCHANGED <<va, len, buf, mem>>
     \/ len > 0 /\ f = 0 /\ Fail
     \/ len > 0 /\ f # 0 /\ buf' = buf \o Bytes(f, va, n) /\ len' = len - n /\ va' = va + PGSIZE /\ UNCHANGED <<ret, mem>>

(* An iteration of copyin(), or its end. *)
CopyIn ==
  LET f == walkaddr(PGROUNDDOWN(va))  n == Piece(va, len) IN
  /\ ret = 1 /\ call.fn = "copyin" /\ Same
  /\ \/ len = 0 /\ ret' = 0 /\ UNCHANGED <<va, len, buf, mem>>
     \/ len > 0 /\ f = 0 /\ Fail
     \/ len > 0 /\ f # 0 /\ buf' = buf \o Bytes(f, va, n) /\ Advance(n) /\ UNCHANGED <<ret, mem>>

(* An iteration of copyout(), or its end. *)
CopyOut ==
  LET f == walkaddr(PGROUNDDOWN(va))  n == Piece(va, len) IN
  /\ ret = 1 /\ call.fn = "copyout" /\ Same
  /\ \/ len = 0 /\ ret' = 0 /\ UNCHANGED <<va, len, buf, mem>>
     \/ len > 0 /\ f = 0 /\ Fail
     \/ /\ len > 0 /\ f # 0
        /\ mem' = [mem EXCEPT ![f] = [o \in Offsets |->
             LET k == o - (va % PGSIZE) + 1 IN IF k \in 1..n THEN Source(Done(len) + k) ELSE @[o]]]
        /\ Advance(n) /\ UNCHANGED <<ret, buf>>

(* The bytes up to the first NUL, with it, or all. *)
UpToNul(s) == IF NUL \in ToSet(s) THEN SubSeq(s, 1, SelectInSeq(s, LAMBDA b : b = NUL)) ELSE s

(* Faulty variant of Terminated: a string that fills the buffer is taken. *)
TerminatedFull(s) == Len(s) = call.len \/ NUL \in ToSet(s)

Terminated(s) == NUL \in ToSet(s)

(* A page of copyinstr(), or its end. *)
CopyInStr ==
  LET f == walkaddr(PGROUNDDOWN(va))  s == UpToNul(Bytes(f, va, Piece(va, len))) IN
  /\ ret = 1 /\ call.fn = "argstr" /\ Same
  /\ \/ Terminated(buf) /\ ret' = 0 /\ UNCHANGED <<va, len, buf, mem>>
     \/ ~Terminated(buf) /\ (len = 0 \/ f = 0) /\ Fail
     \/ /\ ~Terminated(buf) /\ len > 0 /\ f # 0
        /\ buf' = buf \o s /\ Advance(Len(s)) /\ UNCHANGED <<ret, mem>>

(* argstr() returns what fetchstr() does: strlen() of the buffer, or the error. *)
strlen(s) == SelectInSeq(s, LAMBDA b : b = NUL) - 1
fetchstr == IF ret = 0 THEN strlen(buf) ELSE -1
argstr == fetchstr

Next == CopyIn \/ CopyOut \/ CopyInStr

Spec == Init /\ [][Next]_vars

-----------------------------------------------------------------------------
(* What a user address means, byte by byte. *)
Valid(a) == a < MAXVA /\ pagetable[a \div PGSIZE] \in Frames
UserByte(a) == mem[pagetable[a \div PGSIZE]][a % PGSIZE]
Span == call.va..(call.va + call.len - 1)

(* copyin() succeeds exactly if the whole range is user memory, and returns its *)
(* bytes in order, whatever pages it crosses and wherever they lie; if it      *)
(* fails it has copied what lies before the first page that is missing.        *)
RangeIn ==
  (call.fn = "copyin" /\ ret # 1) =>
    /\ ret = 0 <=> \A a \in Span : Valid(a)
    /\ \A k \in DOMAIN buf : Valid(call.va + k - 1) /\ buf[k] = UserByte(call.va + k - 1)
    /\ Len(buf) = call.len \/ ~Valid(call.va + Len(buf))

(* copyout() writes the bytes of the range that it reaches and no other byte   *)
(* of any frame, and succeeds exactly if it reaches all (of a frame that is    *)
(* mapped twice, the later bytes stay).                                        *)
RangeOut ==
  (call.fn = "copyout" /\ ret # 1) =>
    LET bad == {a \in Span : ~Valid(a)}
        upto == IF bad = {} THEN call.len ELSE Min(bad) - call.va
        Hits(f, o) == {k \in 1..upto : LET a == call.va + k - 1 IN pagetable[a \div PGSIZE] = f /\ a % PGSIZE = o}
    IN /\ ret = 0 <=> bad = {}
       /\ \A f \in Frames, o \in Offsets :
            mem[f][o] = IF Hits(f, o) = {} THEN <<f, o>> ELSE Source(Max(Hits(f, o)))

(* copyinstr() succeeds exactly if there is a NUL in the first len bytes with  *)
(* user memory up to it, and then the buffer holds the string with its NUL: a  *)
(* page behind the NUL is not asked for, and no string is returned unended.    *)
StringsEnd ==
  (call.fn = "argstr" /\ ret # 1) =>
    LET ends == {k \in 1..call.len : /\ \A j \in 1..k : Valid(call.va + j - 1)
                                     /\ UserByte(call.va + k - 1) = NUL} IN
    /\ ret = 0 <=> ends # {}
    /\ ret = 0 => buf = [k \in 1..Min(ends) |-> UserByte(call.va + k - 1)]

(* "Returns string length if OK (including nul)": argstr()'s result is the     *)
(* number of bytes it has put in the buffer.                                   *)
LengthWithNul == (call.fn = "argstr" /\ ret = 0) => argstr = Len(buf)
=============================================================================
