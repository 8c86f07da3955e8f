----------------------------- MODULE PipeProofs -----------------------------
(***************************************************************************)
(* Proofs about Pipe: its invariant is inductive for every number of       *)
(* processes, every size of the ring and every width of the counters, and  *)
(* the pipe implements a bounded queue (ByteQueue).                        *)
(***************************************************************************)
EXTENDS PipeInv, Integers, SequenceTheorems, TLAPS

USE ZenonT(60) DEF pipeVars, openVars, fdVars, Goto, Acquire, Release, Return,
        GotoAndWake, WakeReaders, WakeWriters

(* The layers of the invariant, one by one. *)
LEMMA Layers ==
  ASSUME IInv
  PROVE  TypeOK /\ LockInv /\ RingInv /\ OpenInv /\ CheckedInv /\ SleepInv
BY DEF IInv

-----------------------------------------------------------------------------
(* Arithmetic modulo m *)

(* The remainder, with its quotient. *)
LEMMA DivMod ==
  ASSUME NEW m \in Nat \ {0}, NEW x \in Int
  PROVE  x % m \in 0..(m - 1) /\ \E q \in Int : x = m * q + (x % m)
<1>1. x = m * (x \div m) + (x % m) /\ x \div m \in Int
  BY SMTT(30)
<1>2. x % m \in 0..(m - 1)
  BY SMTT(30)
<1> QED  BY <1>1, <1>2

(* One turn around the ring at most. *)
LEMMA ModOnce ==
  ASSUME NEW m \in Nat \ {0}, NEW x \in Int
  PROVE  /\ x \in 0..(m - 1) => x % m = x
         /\ x \in m..(2 * m - 1) => x % m = x - m
BY SMTT(30)

(* A multiple of m closer to 0 than m is 0. *)
LEMMA SmallMultiple ==
  ASSUME NEW m \in Nat \ {0}, NEW c \in Int, -m < m * c, m * c < m
  PROVE  c = 0
<1>1. CASE c >= 1
  <2>1. m * c >= m
    BY <1>1, SMTT(30)
  <2> QED  BY <2>1, SMTT(30)
<1>2. CASE c <= -1
  <2>1. m * c <= -m
    BY <1>2, SMTT(30)
  <2> QED  BY <2>1, SMTT(30)
<1> QED  BY <1>1, <1>2, SMTT(30)

(* A multiple of m does not change the remainder. *)
LEMMA ModShift ==
  ASSUME NEW m \in Nat \ {0}, NEW x \in Int, NEW k \in Int
  PROVE  (x + m * k) % m = x % m
<1> DEFINE y == x + m * k
           r == x % m
           s == y % m
<1>1. y \in Int
  BY SMTT(30)
<1>2. r \in 0..(m - 1) /\ s \in 0..(m - 1)
  BY <1>1, DivMod
<1>3. PICK a \in Int : x = m * a + r
  BY DivMod
<1>4. PICK b \in Int : y = m * b + s
  BY <1>1, DivMod
<1>5. b - k - a \in Int /\ m * (b - k - a) = m * b - m * k - m * a
  BY SMTT(30)
<1>6. m * a \in Int /\ m * b \in Int /\ m * k \in Int /\ y = x + m * k
  BY SMTT(30)
<1> HIDE DEF y, r, s
<1>7. m * (b - k - a) = r - s
  BY <1>2, <1>3, <1>4, <1>5, <1>6, SMTT(30)
<1>8. -m < m * (b - k - a) /\ m * (b - k - a) < m
  BY <1>2, <1>7, SMTT(30)
<1>9. b - k - a = 0
  BY <1>5, <1>8, SmallMultiple
<1>10. m * (b - k - a) = 0
  BY <1>9, SMTT(30)
<1>11. r = s
  BY <1>2, <1>7, <1>10, SMTT(30)
<1> QED  BY <1>11 DEF y, r, s

(* Numbers less than m apart, with the same remainder, are equal. *)
LEMMA ModApart ==
  ASSUME NEW m \in Nat \ {0}, NEW x \in Int, NEW y \in Int, x <= y, y < x + m, x % m = y % m
  PROVE  x = y
<1>1. PICK a \in Int : x = m * a + (x % m)
  BY DivMod
<1>2. PICK b \in Int : y = m * b + (y % m)
  BY DivMod
<1>3. x % m \in Int
  BY DivMod, SMTT(30)
<1> DEFINE c == b - a
<1>4. c \in Int /\ m * c = y - x
  BY <1>1, <1>2, <1>3, SMTT(30)
<1>5. c = 0
  <2> HIDE DEF c
  <2> QED  BY <1>4, SmallMultiple, SMTT(30)
<1> QED  BY <1>4, <1>5, SMTT(30)

-----------------------------------------------------------------------------
(* The ring *)

(* What PipeAssumption says of the sizes. *)
LEMMA RingSizes ==
  PIPESIZE \in Nat \ {0} /\ CountMod \in Nat \ {0} /\ CountMod > PIPESIZE
BY PipeAssumption

(* CountMod is a multiple of PIPESIZE (both are powers of 2 in pipe.c). *)
LEMMA RingMultiple ==
  \E c \in Int : CountMod = PIPESIZE * c
<1>1. CountMod % PIPESIZE = 0
  BY PipeAssumption
<1>2. CountMod \in Int /\ PIPESIZE \in Nat \ {0}
  BY RingSizes, SMTT(30)
<1>3. PICK c \in Int : CountMod = PIPESIZE * c + (CountMod % PIPESIZE)
  BY <1>2, DivMod
<1> QED  BY <1>1, <1>2, <1>3, SMTT(30)

(* So the slot does not depend on the wrap of a counter. *)
LEMMA SlotOf ==
  ASSUME NEW y \in 0..(2 * CountMod - 1)
  PROVE  (y % CountMod) % PIPESIZE = y % PIPESIZE
<1>1. CASE y < CountMod
  BY <1>1, RingSizes, ModOnce, SMTT(30)
<1>2. CASE y >= CountMod
  <2>1. PICK c \in Int : CountMod = PIPESIZE * c
    BY RingMultiple
  <2>2. y % CountMod = y - CountMod
    BY <1>2, RingSizes, ModOnce, SMTT(30)
  <2>3. y = (y - CountMod) + PIPESIZE * c
    BY <2>1, RingSizes, SMTT(30)
  <2>4. ((y - CountMod) + PIPESIZE * c) % PIPESIZE = (y - CountMod) % PIPESIZE
    <3>1. y - CountMod \in Int /\ PIPESIZE \in Nat \ {0}
      BY RingSizes, SMTT(30)
    <3> QED  BY <3>1, ModShift
  <2> QED  BY <2>2, <2>3, <2>4
<1> QED  BY <1>1, <1>2, RingSizes, SMTT(30)

(* The difference of two counters, in unsigned arithmetic. *)
LEMMA Difference ==
  ASSUME NEW a \in 0..(CountMod - 1), NEW b \in 0..(CountMod - 1)
  PROVE  (a + CountMod - b) % CountMod = IF a >= b THEN a - b ELSE a + CountMod - b
<1> DEFINE d == a + CountMod - b
<1>1. d \in Int /\ CountMod \in Nat \ {0}
  BY RingSizes, SMTT(30)
<1>2. /\ a >= b => d \in CountMod..(2 * CountMod - 1)
      /\ a < b => d \in 0..(CountMod - 1)
  BY <1>1, SMTT(30)
<1>3. /\ a >= b => d % CountMod = d - CountMod
      /\ a < b => d % CountMod = d
  BY <1>1, <1>2, ModOnce
<1> QED  BY <1>1, <1>3, SMTT(30)

(* nwrite, Empty and Full in terms of the number of bytes in the ring. *)
LEMMA CountFacts ==
  ASSUME TypeOK, RingInv
  PROVE  /\ Count \in 0..PIPESIZE
         /\ nwrite = IF nread + Count < CountMod THEN nread + Count ELSE nread + Count - CountMod
         /\ Empty <=> Count = 0
         /\ Full <=> Count = PIPESIZE
<1>1. nread \in 0..(CountMod - 1) /\ nwrite \in 0..(CountMod - 1)
  BY DEF TypeOK
<1>2. Count = IF nwrite >= nread THEN nwrite - nread ELSE nwrite + CountMod - nread
  BY <1>1, Difference DEF Count
<1>3. (nread + PIPESIZE) % CountMod = IF nread + PIPESIZE < CountMod THEN nread + PIPESIZE
                                      ELSE nread + PIPESIZE - CountMod
  BY <1>1, RingSizes, ModOnce, SMTT(30)
<1> QED  BY <1>1, <1>2, <1>3, RingSizes, SMTT(30) DEF RingInv, Empty, Full

(* One byte more. *)
LEMMA CountPut ==
  ASSUME TypeOK, RingInv, ~Full, nwrite' = (nwrite + 1) % CountMod, nread' = nread
  PROVE  Count' = Count + 1 /\ nwrite' \in 0..(CountMod - 1) /\ Count + 1 <= PIPESIZE
<1>1. /\ nread \in 0..(CountMod - 1) /\ nwrite \in 0..(CountMod - 1)
      /\ Count \in 0..PIPESIZE /\ Count # PIPESIZE
      /\ nwrite = IF nread + Count < CountMod THEN nread + Count ELSE nread + Count - CountMod
  BY CountFacts DEF TypeOK
<1>2. nwrite' = IF nwrite + 1 < CountMod THEN nwrite + 1 ELSE 0
  BY <1>1, RingSizes, ModOnce, SMTT(30)
<1>3. Count' = IF nwrite' >= nread THEN nwrite' - nread ELSE nwrite' + CountMod - nread
  <2>1. nwrite' \in 0..(CountMod - 1) /\ nread \in 0..(CountMod - 1)
    BY <1>1, <1>2, RingSizes, SMTT(30)
  <2>2. Count' = (nwrite' + CountMod - nread) % CountMod
    BY DEF Count
  <2> QED  BY <2>1, <2>2, Difference
<1> QED  BY <1>1, <1>2, <1>3, RingSizes, SMTT(30)

(* One byte less. *)
LEMMA CountGet ==
  ASSUME TypeOK, RingInv, ~Empty, nread' = (nread + 1) % CountMod, nwrite' = nwrite
  PROVE  Count' = Count - 1 /\ nread' \in 0..(CountMod - 1) /\ Count \in 1..PIPESIZE
<1>1. /\ nread \in 0..(CountMod - 1) /\ nwrite \in 0..(CountMod - 1)
      /\ Count \in 0..PIPESIZE /\ Count # 0
      /\ nwrite = IF nread + Count < CountMod THEN nread + Count ELSE nread + Count - CountMod
  BY CountFacts DEF TypeOK
<1>2. nread' = IF nread + 1 < CountMod THEN nread + 1 ELSE 0
  BY <1>1, RingSizes, ModOnce, SMTT(30)
<1>3. Count' = IF nwrite >= nread' THEN nwrite - nread' ELSE nwrite + CountMod - nread'
  <2>1. nwrite \in 0..(CountMod - 1) /\ nread' \in 0..(CountMod - 1)
    BY <1>1, <1>2, RingSizes, SMTT(30)
  <2>2. Count' = (nwrite + CountMod - nread') % CountMod
    BY DEF Count
  <2> QED  BY <2>1, <2>2, Difference
<1> QED  BY <1>1, <1>2, <1>3, RingSizes, SMTT(30)

-----------------------------------------------------------------------------
(* What is in the ring, as a sequence *)

(* The k-th byte from counter r on. *)
LEMMA SlotAt ==
  ASSUME NEW r \in 0..(CountMod - 1), NEW k \in 1..(PIPESIZE + 1)
  PROVE  ((r + k - 1) % CountMod) % PIPESIZE = (r + k - 1) % PIPESIZE
<1>1. r + k - 1 \in 0..(2 * CountMod - 1)
  BY RingSizes, SMTT(30)
<1> QED  BY <1>1, SlotOf

(* A slot is an index of data. *)
LEMMA SlotRange ==
  ASSUME NEW x \in Int
  PROVE  x % PIPESIZE \in 0..(PIPESIZE - 1)
BY RingSizes, DivMod

(* Contents is a sequence of Count bytes. *)
LEMMA ContentsSeq ==
  ASSUME TypeOK, RingInv
  PROVE  /\ Contents \in Seq(Bytes) /\ Len(Contents) = Count /\ Count \in Nat
         /\ \A k \in 1..Count : Contents[k] = data[(nread + k - 1) % PIPESIZE]
<1>1. Count \in Nat /\ Count <= PIPESIZE /\ PIPESIZE \in Nat
  BY CountFacts, RingSizes, SMTT(30)
<1>2. ASSUME NEW k \in 1..Count
      PROVE  Contents[k] = data[(nread + k - 1) % PIPESIZE] /\ Contents[k] \in Bytes
  <2>1. nread \in 0..(CountMod - 1) /\ nread \in Int /\ k \in 1..(PIPESIZE + 1) /\ data \in [0..(PIPESIZE - 1) -> Bytes]
    BY <1>1, RingSizes, SMTT(30) DEF TypeOK
  <2>2. Contents[k] = data[(nread + k - 1) % PIPESIZE]
    BY <2>1, SlotAt DEF Contents
  <2>3. (nread + k - 1) % PIPESIZE \in 0..(PIPESIZE - 1)
    BY <2>1, SlotRange, SMTT(30)
  <2> QED  BY <2>1, <2>2, <2>3
<1>3. Contents = [k \in 1..Count |-> Contents[k]]
  BY DEF Contents
<1> QED  BY <1>1, <1>2, <1>3, IsASeq, SMTT(30)

(* The slot after the last one in use is the one pipewrite() takes. *)
LEMMA WriteSlot ==
  ASSUME TypeOK, RingInv
  PROVE  nwrite % PIPESIZE = (nread + Count) % PIPESIZE
<1> DEFINE top == nread + Count
<1>1. /\ nread \in 0..(CountMod - 1) /\ Count \in 0..PIPESIZE
      /\ PIPESIZE \in Nat \ {0} /\ CountMod \in Nat \ {0} /\ CountMod > PIPESIZE
  BY CountFacts, RingSizes DEF TypeOK
<1>2. nwrite = IF top < CountMod THEN top ELSE top - CountMod
  BY <1>1, CountFacts, SMTT(30)
<1>3. top \in 0..(2 * CountMod - 1)
  BY <1>1, SMTT(30)
<1> HIDE DEF top
<1>4. top % CountMod = IF top < CountMod THEN top ELSE top - CountMod
  <2>1. top \in Int
    BY <1>1, <1>3, SMTT(30)
  <2>2. CASE top < CountMod
    BY <1>1, <1>3, <2>1, <2>2, ModOnce, SMTT(30)
  <2>3. CASE ~(top < CountMod)
    BY <1>1, <1>3, <2>1, <2>3, ModOnce, SMTT(30)
  <2> QED  BY <2>2, <2>3
<1>5. (top % CountMod) % PIPESIZE = top % PIPESIZE
  BY <1>3, SlotOf
<1>6. nwrite % PIPESIZE = top % PIPESIZE
  BY <1>2, <1>4, <1>5
<1> QED  BY <1>6 DEF top

(* nread++ moves every byte up by one place. *)
LEMMA ReadSlot ==
  ASSUME NEW r \in 0..(CountMod - 1), NEW k \in 1..(PIPESIZE + 1)
  PROVE  (((r + 1) % CountMod) + k - 1) % CountMod = (r + (k + 1) - 1) % CountMod
<1>1. r \in Int /\ k \in Int /\ CountMod \in Nat \ {0} /\ k - 1 \in 0..(CountMod - 1)
  BY RingSizes, SMTT(30)
<1>2. CASE r + 1 < CountMod
  <2>1. (r + 1) % CountMod = r + 1
    BY <1>1, <1>2, ModOnce, SMTT(30)
  <2>2. (r + 1) + k - 1 = r + (k + 1) - 1
    BY <1>1, SMTT(30)
  <2> QED  BY <2>1, <2>2
<1>3. CASE ~(r + 1 < CountMod)
  <2>1. r + 1 = CountMod
    BY <1>1, <1>3, SMTT(30)
  <2>2. CountMod % CountMod = 0
    BY <1>1, SMTT(30)
  <2>3. 0 + k - 1 = k - 1 /\ r + (k + 1) - 1 = (k - 1) + CountMod
    BY <1>1, <2>1, SMTT(30)
  <2>4. ((k - 1) + CountMod * 1) % CountMod = (k - 1) % CountMod
    <3>1. k - 1 \in Int /\ 1 \in Int
      BY <1>1, SMTT(30)
    <3> QED  BY <1>1, <3>1, ModShift
  <2>5. CountMod * 1 = CountMod
    BY <1>1, SMTT(30)
  <2> QED  BY <2>1, <2>2, <2>3, <2>4, <2>5
<1> QED  BY <1>2, <1>3

(* pipewrite() appends a byte: the slot it writes is not one of those in use. *)
LEMMA PutSeq ==
  ASSUME TypeOK, RingInv, ~Full, NEW v \in Bytes,
         data' = [data EXCEPT ![nwrite % PIPESIZE] = v],
         nwrite' = (nwrite + 1) % CountMod, nread' = nread
  PROVE  /\ Contents' = Append(Contents, v) /\ Len(Contents) < PIPESIZE
         /\ data' \in [0..(PIPESIZE - 1) -> Bytes]
<1>1. /\ nread \in 0..(CountMod - 1) /\ nread \in Int /\ nwrite \in Int
      /\ data \in [0..(PIPESIZE - 1) -> Bytes]
      /\ Count' = Count + 1 /\ Count \in Nat /\ Count + 1 <= PIPESIZE
      /\ PIPESIZE \in Nat \ {0}
  BY CountPut, CountFacts, RingSizes, SMTT(30) DEF TypeOK
<1>2. nwrite % PIPESIZE = (nread + Count) % PIPESIZE
  BY WriteSlot
<1>3. nwrite % PIPESIZE \in 0..(PIPESIZE - 1) /\ data' \in [0..(PIPESIZE - 1) -> Bytes]
  BY <1>1, SlotRange
<1>4. ASSUME NEW k \in 1..(Count + 1)
      PROVE  Contents'[k] = data'[(nread + k - 1) % PIPESIZE]
  <2>1. k \in 1..(PIPESIZE + 1)
    BY <1>1, SMTT(30)
  <2> QED  BY <1>1, <2>1, SlotAt DEF Contents
<1>5. ASSUME NEW k \in 1..Count
      PROVE  Contents'[k] = Contents[k]
  <2>1. /\ nread + k - 1 \in Int /\ nread + Count \in Int
        /\ nread + k - 1 <= nread + Count /\ nread + Count < nread + k - 1 + PIPESIZE
        /\ nread + k - 1 # nread + Count /\ k \in 1..(Count + 1)
    BY <1>1, SMTT(30)
  <2>2. (nread + k - 1) % PIPESIZE # nwrite % PIPESIZE
    BY <1>1, <1>2, <2>1, ModApart
  <2>3. data'[(nread + k - 1) % PIPESIZE] = data[(nread + k - 1) % PIPESIZE]
    <3>1. (nread + k - 1) % PIPESIZE \in 0..(PIPESIZE - 1)
      BY <2>1, SlotRange
    <3> QED  BY <1>1, <2>2, <3>1
  <2> QED  BY <1>4, <2>1, <2>3, ContentsSeq
<1>6. Contents'[Count + 1] = v
  <2>1. Contents'[Count + 1] = data'[(nread + (Count + 1) - 1) % PIPESIZE]
    BY <1>1, <1>4, SMTT(30)
  <2>2. nread + (Count + 1) - 1 = nread + Count
    BY <1>1, SMTT(30)
  <2> QED  BY <1>1, <1>2, <1>3, <2>1, <2>2
<1>7. Contents' = [k \in 1..(Count + 1) |-> Contents'[k]]
  BY <1>1, SMTT(30) DEF Contents
<1>8. Append(Contents, v) = [k \in 1..(Count + 1) |-> IF k = Count + 1 THEN v ELSE Contents[k]]
  <2>1. Contents \in Seq(Bytes) /\ Len(Contents) = Count
    BY ContentsSeq
  <2>2. /\ Append(Contents, v) \in Seq(Bytes) /\ Len(Append(Contents, v)) = Count + 1
        /\ \A k \in 1..Count : Append(Contents, v)[k] = Contents[k]
        /\ Append(Contents, v)[Count + 1] = v
    BY <2>1, AppendProperties, SMTT(30)
  <2>3. Append(Contents, v) = [k \in 1..(Count + 1) |-> Append(Contents, v)[k]]
    BY <2>2, LenProperties
  <2> QED  BY <1>1, <2>2, <2>3, SMTT(30)
<1>9. Contents' = Append(Contents, v)
  BY <1>1, <1>5, <1>6, <1>7, <1>8, SMTT(30)
<1> QED  BY <1>1, <1>3, <1>9, ContentsSeq, SMTT(30)

(* piperead() takes the oldest byte. *)
LEMMA GetSeq ==
  ASSUME TypeOK, RingInv, ~Empty,
         nread' = (nread + 1) % CountMod, nwrite' = nwrite, data' = data
  PROVE  /\ Contents # <<>> /\ Contents' = Tail(Contents)
         /\ Head(Contents) = data[nread % PIPESIZE] /\ data[nread % PIPESIZE] \in Bytes
<1>1. /\ nread \in 0..(CountMod - 1) /\ nread \in Int /\ nread' \in 0..(CountMod - 1)
      /\ data \in [0..(PIPESIZE - 1) -> Bytes]
      /\ Count' = Count - 1 /\ Count \in 1..PIPESIZE /\ Count \in Nat
      /\ PIPESIZE \in Nat \ {0} /\ CountMod \in Nat \ {0}
  BY CountGet, RingSizes, SMTT(30) DEF TypeOK
<1>2. /\ Contents \in Seq(Bytes) /\ Len(Contents) = Count
      /\ \A k \in 1..Count : Contents[k] = data[(nread + k - 1) % PIPESIZE]
  BY ContentsSeq
<1>3. Contents # <<>>
  BY <1>1, <1>2, EmptySeq, SMTT(30)
<1>4. Head(Contents) = data[nread % PIPESIZE] /\ data[nread % PIPESIZE] \in Bytes
  <2>1. Head(Contents) = Contents[1] /\ Contents[1] \in Bytes
    BY <1>1, <1>2, ElementOfSeq, SMTT(30)
  <2>2. nread + 1 - 1 = nread
    BY <1>1, SMTT(30)
  <2>3. Contents[1] = data[(nread + 1 - 1) % PIPESIZE]
    BY <1>1, <1>2, SMTT(30)
  <2> QED  BY <2>1, <2>2, <2>3
<1>5. ASSUME NEW k \in 1..(Count - 1)
      PROVE  Contents'[k] = Contents[k + 1]
  <2>1. k + 1 \in 1..Count /\ k \in 1..(PIPESIZE + 1) /\ k + 1 \in 1..(PIPESIZE + 1) /\ k \in Int
    BY <1>1, SMTT(30)
  <2>2. Contents'[k] = data[((nread' + k - 1) % CountMod) % PIPESIZE]
    BY <1>1 DEF Contents
  <2>3. Contents[k + 1] = data[((nread + (k + 1) - 1) % CountMod) % PIPESIZE]
    BY <2>1 DEF Contents
  <2>4. (nread' + k - 1) % CountMod = (nread + (k + 1) - 1) % CountMod
    BY <1>1, <2>1, ReadSlot
  <2> QED  BY <2>2, <2>3, <2>4
<1>6. Contents' = [k \in 1..(Count - 1) |-> Contents'[k]]
  BY <1>1 DEF Contents
<1>7. Tail(Contents) = [k \in 1..(Count - 1) |-> Contents[k + 1]]
  <2>1. /\ Tail(Contents) \in Seq(Bytes) /\ Len(Tail(Contents)) = Count - 1
        /\ \A k \in 1..(Count - 1) : Tail(Contents)[k] = Contents[k + 1]
    BY <1>2, <1>3, HeadTailProperties
  <2>2. Tail(Contents) = [k \in 1..(Count - 1) |-> Tail(Contents)[k]]
    BY <2>1, LenProperties
  <2> QED  BY <2>1, <2>2
<1>8. Contents' = Tail(Contents)
  BY <1>5, <1>6, <1>7
<1> QED  BY <1>3, <1>4, <1>8

-----------------------------------------------------------------------------
(* Every step keeps every layer *)

(* A step of process p. *)
Step(p) == \/ CallWrite(p) \/ CallRead(p) \/ Close(p) \/ Kill(p)
           \/ WriteStep(p) \/ ReadStep(p) \/ CloseStep(p)

(* pipe.c keeps the types: no unsigned counter and no index leaves its range. *)
LEMMA TypeStep ==
  ASSUME IInv, [Next]_vars
  PROVE  TypeOK'
<1>1. CASE UNCHANGED vars
  BY <1>1, Layers DEF vars, TypeOK
<1>2. ASSUME NEW p \in Procs, Step(p)
      PROVE  TypeOK'
  <2>1. CASE CallWrite(p)
    BY <2>1, Layers, PipeAssumption DEF CallWrite, TypeOK, Labels
  <2>2. CASE WriteAcquire(p)
    BY <2>2, Layers DEF WriteAcquire, TypeOK, Labels
  <2>3. CASE WriteCheck(p)
    BY <2>3, Layers DEF WriteCheck, TypeOK, Labels
  <2>4. CASE WriteGiveUp(p)
    BY <2>4, Layers DEF WriteGiveUp, TypeOK, Labels
  <2>5. CASE WriteSleep(p)
    BY <2>5, Layers DEF WriteSleep, TypeOK, Labels
  <2>6. ASSUME NEW v \in Bytes, WriteByte(p, v)
         PROVE  TypeOK'
    <3>1. ~Full /\ nwrite' = (nwrite + 1) % CountMod /\ nread' = nread
          /\ data' = [data EXCEPT ![nwrite % PIPESIZE] = v]
      BY <2>6 DEF WriteByte
    <3>2. data' \in [0..(PIPESIZE - 1) -> Bytes] /\ nwrite' \in 0..(CountMod - 1)
      BY <3>1, Layers, PutSeq, CountPut
    <3>3. p \in Procs /\ left[p] \in Nat /\ left[p] > 0
      BY <2>6, Layers DEF TypeOK, CheckedInv, WriteByte
    <3>4. left' \in [Procs -> Nat]
      BY <2>6, <3>3, Layers, SMTT(30) DEF WriteByte, TypeOK
    <3> QED  BY <2>6, <3>2, <3>4, Layers DEF WriteByte, TypeOK, Labels
  <2>7. CASE WriteFault(p)
    BY <2>7, Layers DEF WriteFault, TypeOK, Labels
  <2>8. CASE WriteEnd(p)
    BY <2>8, Layers DEF WriteEnd, TypeOK, Labels
  <2>9. CASE CallRead(p)
    BY <2>9, Layers, PipeAssumption DEF CallRead, TypeOK, Labels
  <2>10. CASE ReadAcquire(p)
    BY <2>10, Layers DEF ReadAcquire, TypeOK, Labels
  <2>11. CASE ReadCheck(p)
    BY <2>11, Layers DEF ReadCheck, TypeOK, Labels
  <2>12. CASE ReadGiveUp(p)
    BY <2>12, Layers DEF ReadGiveUp, TypeOK, Labels
  <2>13. CASE ReadSleep(p)
    BY <2>13, Layers DEF ReadSleep, TypeOK, Labels
  <2>14. CASE ReadByte(p)
    <3>1. ~Empty /\ nread' = (nread + 1) % CountMod /\ nwrite' = nwrite /\ data' = data
      BY <2>14 DEF ReadByte
    <3>2. nread' \in 0..(CountMod - 1) /\ data[nread % PIPESIZE] \in Bytes
      BY <3>1, Layers, GetSeq, CountGet
    <3>3. left' \in [Procs -> Nat]
      BY <2>14, Layers, SMTT(30) DEF ReadByte, TypeOK
    <3> QED  BY <2>14, <3>2, <3>3, Layers DEF ReadByte, TypeOK, Labels
  <2>15. CASE ReadEnd(p)
    BY <2>15, Layers DEF ReadEnd, TypeOK, Labels
  <2>16. CASE ReadFault(p)
    <3>1. ~Empty /\ nread' = (nread + 1) % CountMod /\ nwrite' = nwrite /\ data' = data
      BY <2>16 DEF ReadFault
    <3>2. nread' \in 0..(CountMod - 1) /\ data[nread % PIPESIZE] \in Bytes
      BY <3>1, Layers, GetSeq, CountGet
    <3>3. left' \in [Procs -> Nat]
      BY <2>16, Layers DEF ReadFault, TypeOK
    <3> QED  BY <2>16, <3>2, <3>3, Layers DEF ReadFault, TypeOK, Labels
  <2>17. CASE CloseRead(p)
    BY <2>17, Layers DEF CloseRead, TypeOK, Labels
  <2>18. CASE CloseWrite(p)
    BY <2>18, Layers DEF CloseWrite, TypeOK, Labels
  <2>19. CASE PipeCloseRead(p)
    BY <2>19, Layers DEF PipeCloseRead, TypeOK, Labels
  <2>20. CASE PipeCloseWrite(p)
    BY <2>20, Layers DEF PipeCloseWrite, TypeOK, Labels
  <2>21. CASE Kill(p)
    BY <2>21, Layers DEF Kill, TypeOK, Labels
  <2> QED
    BY <1>2, <2>1, <2>2, <2>3, <2>4, <2>5, <2>6, <2>7, <2>8, <2>9, <2>10, <2>11,
       <2>12, <2>13, <2>14, <2>15, <2>16, <2>17, <2>18, <2>19, <2>20, <2>21
       DEF Step, WriteStep, ReadStep, CloseStep, Close
<1> QED  BY <1>1, <1>2 DEF Next, Step

(* Between acquire(&pi->lock) and release() or sleep() a process holds the lock alone. *)
LEMMA LockStep ==
  ASSUME IInv, [Next]_vars
  PROVE  LockInv'
<1>1. CASE UNCHANGED vars
  BY <1>1, Layers DEF vars, LockInv
<1>2. ASSUME NEW p \in Procs, Step(p)
      PROVE  LockInv'
  <2>1. CASE CallWrite(p)
    BY <2>1, Layers DEF CallWrite, LockInv, TypeOK, Holding
  <2>2. CASE WriteAcquire(p)
    BY <2>2, Layers DEF WriteAcquire, LockInv, TypeOK, Holding
  <2>3. CASE WriteCheck(p)
    BY <2>3, Layers DEF WriteCheck, LockInv, TypeOK, Holding
  <2>4. CASE WriteGiveUp(p)
    BY <2>4, Layers, SMTT(30) DEF WriteGiveUp, LockInv, TypeOK, Holding
  <2>5. CASE WriteSleep(p)
    BY <2>5, Layers, SMTT(30) DEF WriteSleep, LockInv, TypeOK, Holding
  <2>6. ASSUME NEW v \in Bytes, WriteByte(p, v)
         PROVE  LockInv'
    BY <2>6, Layers DEF WriteByte, LockInv, TypeOK, Holding
  <2>7. CASE WriteFault(p)
    BY <2>7, Layers DEF WriteFault, LockInv, TypeOK, Holding
  <2>8. CASE WriteEnd(p)
    BY <2>8, Layers, SMTT(30) DEF WriteEnd, LockInv, TypeOK, Holding
  <2>9. CASE CallRead(p)
    BY <2>9, Layers DEF CallRead, LockInv, TypeOK, Holding
  <2>10. CASE ReadAcquire(p)
    BY <2>10, Layers DEF ReadAcquire, LockInv, TypeOK, Holding
  <2>11. CASE ReadCheck(p)
    BY <2>11, Layers DEF ReadCheck, LockInv, TypeOK, Holding
  <2>12. CASE ReadGiveUp(p)
    BY <2>12, Layers, SMTT(30) DEF ReadGiveUp, LockInv, TypeOK, Holding
  <2>13. CASE ReadSleep(p)
    BY <2>13, Layers, SMTT(30) DEF ReadSleep, LockInv, TypeOK, Holding
  <2>14. CASE ReadByte(p)
    BY <2>14, Layers DEF ReadByte, LockInv, TypeOK, Holding
  <2>15. CASE ReadEnd(p)
    BY <2>15, Layers, SMTT(30) DEF ReadEnd, LockInv, TypeOK, Holding
  <2>16. CASE ReadFault(p)
    BY <2>16, Layers, SMTT(30) DEF ReadFault, LockInv, TypeOK, Holding
  <2>17. CASE CloseRead(p)
    BY <2>17, Layers DEF CloseRead, LockInv, TypeOK, Holding
  <2>18. CASE CloseWrite(p)
    BY <2>18, Layers DEF CloseWrite, LockInv, TypeOK, Holding
  <2>19. CASE PipeCloseRead(p)
    BY <2>19, Layers DEF PipeCloseRead, LockInv, TypeOK, Holding
  <2>20. CASE PipeCloseWrite(p)
    BY <2>20, Layers DEF PipeCloseWrite, LockInv, TypeOK, Holding
  <2>21. CASE Kill(p)
    BY <2>21, Layers DEF Kill, LockInv, TypeOK, Holding
  <2> QED
    BY <1>2, <2>1, <2>2, <2>3, <2>4, <2>5, <2>6, <2>7, <2>8, <2>9, <2>10, <2>11,
       <2>12, <2>13, <2>14, <2>15, <2>16, <2>17, <2>18, <2>19, <2>20, <2>21
       DEF Step, WriteStep, ReadStep, CloseStep, Close
<1> QED  BY <1>1, <1>2 DEF Next, Step

(* Two processes never hold pi->lock together, and none does while it is free. *)
LEMMA Alone ==
  ASSUME TypeOK, LockInv, NEW p \in Procs, pc[p] \in Holding
  PROVE  lock = {p} /\ \A q \in Procs : pc[q] \in Holding => q = p
BY DEF TypeOK, LockInv

(* A writer checks for room, a reader for a byte, under the same hold of pi->lock as the move of the counter. *)
LEMMA RingStep ==
  ASSUME IInv, [Next]_vars
  PROVE  RingInv'
<1>1. CASE UNCHANGED vars
  BY <1>1, Layers DEF vars, RingInv, Count
<1>2. ASSUME NEW p \in Procs, Step(p)
      PROVE  RingInv'
  <2>1. CASE CallWrite(p)
    BY <2>1, Layers DEF CallWrite, RingInv, Count
  <2>2. CASE WriteAcquire(p)
    BY <2>2, Layers DEF WriteAcquire, RingInv, Count
  <2>3. CASE WriteCheck(p)
    BY <2>3, Layers DEF WriteCheck, RingInv, Count
  <2>4. CASE WriteGiveUp(p)
    BY <2>4, Layers DEF WriteGiveUp, RingInv, Count
  <2>5. CASE WriteSleep(p)
    BY <2>5, Layers DEF WriteSleep, RingInv, Count
  <2>6. ASSUME NEW v \in Bytes, WriteByte(p, v)
         PROVE  RingInv'
    <3>1. ~Full /\ nwrite' = (nwrite + 1) % CountMod /\ nread' = nread
      BY <2>6 DEF WriteByte
    <3> QED  BY <3>1, Layers, CountPut DEF RingInv
  <2>7. CASE WriteFault(p)
    BY <2>7, Layers DEF WriteFault, RingInv, Count
  <2>8. CASE WriteEnd(p)
    BY <2>8, Layers DEF WriteEnd, RingInv, Count
  <2>9. CASE CallRead(p)
    BY <2>9, Layers DEF CallRead, RingInv, Count
  <2>10. CASE ReadAcquire(p)
    BY <2>10, Layers DEF ReadAcquire, RingInv, Count
  <2>11. CASE ReadCheck(p)
    BY <2>11, Layers DEF ReadCheck, RingInv, Count
  <2>12. CASE ReadGiveUp(p)
    BY <2>12, Layers DEF ReadGiveUp, RingInv, Count
  <2>13. CASE ReadSleep(p)
    BY <2>13, Layers DEF ReadSleep, RingInv, Count
  <2>14. CASE ReadByte(p)
    <3>1. ~Empty /\ nread' = (nread + 1) % CountMod /\ nwrite' = nwrite
      BY <2>14 DEF ReadByte
    <3>2. Count' = Count - 1 /\ Count \in 1..PIPESIZE /\ PIPESIZE \in Nat
      BY <3>1, Layers, CountGet, RingSizes
    <3> QED  BY <3>2, SMTT(30) DEF RingInv
  <2>15. CASE ReadEnd(p)
    BY <2>15, Layers DEF ReadEnd, RingInv, Count
  <2>16. CASE ReadFault(p)
    <3>1. ~Empty /\ nread' = (nread + 1) % CountMod /\ nwrite' = nwrite
      BY <2>16 DEF ReadFault
    <3>2. Count' = Count - 1 /\ Count \in 1..PIPESIZE /\ PIPESIZE \in Nat
      BY <3>1, Layers, CountGet, RingSizes
    <3> QED  BY <3>2, SMTT(30) DEF RingInv
  <2>17. CASE CloseRead(p)
    BY <2>17, Layers DEF CloseRead, RingInv, Count
  <2>18. CASE CloseWrite(p)
    BY <2>18, Layers DEF CloseWrite, RingInv, Count
  <2>19. CASE PipeCloseRead(p)
    BY <2>19, Layers DEF PipeCloseRead, RingInv, Count
  <2>20. CASE PipeCloseWrite(p)
    BY <2>20, Layers DEF PipeCloseWrite, RingInv, Count
  <2>21. CASE Kill(p)
    BY <2>21, Layers DEF Kill, RingInv, Count
  <2> QED
    BY <1>2, <2>1, <2>2, <2>3, <2>4, <2>5, <2>6, <2>7, <2>8, <2>9, <2>10, <2>11,
       <2>12, <2>13, <2>14, <2>15, <2>16, <2>17, <2>18, <2>19, <2>20, <2>21
       DEF Step, WriteStep, ReadStep, CloseStep, Close
<1> QED  BY <1>1, <1>2 DEF Next, Step

(* The last fileclose() of an end is the one that clears readopen or writeopen, and no call is inside pipe.c then. *)
LEMMA OpenStep ==
  ASSUME IInv, [Next]_vars
  PROVE  OpenInv'
<1>1. CASE UNCHANGED vars
  BY <1>1, Layers DEF vars, OpenInv
<1>2. ASSUME NEW p \in Procs, Step(p)
      PROVE  OpenInv'
  <2>1. CASE CallWrite(p)
    BY <2>1, Layers, SMTT(30) DEF CallWrite, OpenInv, TypeOK, InWrite, InRead
  <2>2. CASE WriteAcquire(p)
    BY <2>2, Layers DEF WriteAcquire, OpenInv, TypeOK, InWrite, InRead
  <2>3. CASE WriteCheck(p)
    BY <2>3, Layers, SMTT(30) DEF WriteCheck, OpenInv, TypeOK, InWrite, InRead
  <2>4. CASE WriteGiveUp(p)
    BY <2>4, Layers DEF WriteGiveUp, OpenInv, TypeOK, InWrite, InRead
  <2>5. CASE WriteSleep(p)
    BY <2>5, Layers DEF WriteSleep, OpenInv, TypeOK, InWrite, InRead
  <2>6. ASSUME NEW v \in Bytes, WriteByte(p, v)
         PROVE  OpenInv'
    BY <2>6, Layers DEF WriteByte, OpenInv, TypeOK, InWrite, InRead
  <2>7. CASE WriteFault(p)
    BY <2>7, Layers DEF WriteFault, OpenInv, TypeOK, InWrite, InRead
  <2>8. CASE WriteEnd(p)
    BY <2>8, Layers DEF WriteEnd, OpenInv, TypeOK, InWrite, InRead
  <2>9. CASE CallRead(p)
    BY <2>9, Layers, SMTT(30) DEF CallRead, OpenInv, TypeOK, InWrite, InRead
  <2>10. CASE ReadAcquire(p)
    BY <2>10, Layers DEF ReadAcquire, OpenInv, TypeOK, InWrite, InRead
  <2>11. CASE ReadCheck(p)
    BY <2>11, Layers, SMTT(30) DEF ReadCheck, OpenInv, TypeOK, InWrite, InRead
  <2>12. CASE ReadGiveUp(p)
    BY <2>12, Layers DEF ReadGiveUp, OpenInv, TypeOK, InWrite, InRead
  <2>13. CASE ReadSleep(p)
    BY <2>13, Layers DEF ReadSleep, OpenInv, TypeOK, InWrite, InRead
  <2>14. CASE ReadByte(p)
    BY <2>14, Layers DEF ReadByte, OpenInv, TypeOK, InWrite, InRead
  <2>15. CASE ReadEnd(p)
    BY <2>15, Layers DEF ReadEnd, OpenInv, TypeOK, InWrite, InRead
  <2>16. CASE ReadFault(p)
    BY <2>16, Layers DEF ReadFault, OpenInv, TypeOK, InWrite, InRead
  <2>17. CASE CloseRead(p)
    BY <2>17, Layers, SMTT(30) DEF CloseRead, OpenInv, TypeOK, InWrite, InRead
  <2>18. CASE CloseWrite(p)
    BY <2>18, Layers, SMTT(30) DEF CloseWrite, OpenInv, TypeOK, InWrite, InRead
  <2>19. CASE PipeCloseRead(p)
    BY <2>19, Layers DEF PipeCloseRead, OpenInv, TypeOK, InWrite, InRead
  <2>20. CASE PipeCloseWrite(p)
    BY <2>20, Layers DEF PipeCloseWrite, OpenInv, TypeOK, InWrite, InRead
  <2>21. CASE Kill(p)
    BY <2>21, Layers, SMTT(30) DEF Kill, OpenInv, TypeOK, InWrite, InRead
  <2> QED
    BY <1>2, <2>1, <2>2, <2>3, <2>4, <2>5, <2>6, <2>7, <2>8, <2>9, <2>10, <2>11,
       <2>12, <2>13, <2>14, <2>15, <2>16, <2>17, <2>18, <2>19, <2>20, <2>21
       DEF Step, WriteStep, ReadStep, CloseStep, Close
<1> QED  BY <1>1, <1>2 DEF Next, Step

(* What a loop of pipewrite() or piperead() has checked holds until it releases pi->lock. *)
LEMMA CheckedStep ==
  ASSUME IInv, [Next]_vars
  PROVE  CheckedInv'
<1>1. CASE UNCHANGED vars
  BY <1>1, Layers DEF vars, CheckedInv, Empty
<1>2. ASSUME NEW p \in Procs, Step(p)
      PROVE  CheckedInv'
  <2>1. CASE CallWrite(p)
    BY <2>1, Layers, Alone DEF CallWrite, CheckedInv, TypeOK, Holding, Empty
  <2>2. CASE WriteAcquire(p)
    BY <2>2, Layers, Alone DEF WriteAcquire, CheckedInv, TypeOK, Holding, Empty
  <2>3. CASE WriteCheck(p)
    BY <2>3, Layers, Alone DEF WriteCheck, CheckedInv, TypeOK, Holding, Empty
  <2>4. CASE WriteGiveUp(p)
    BY <2>4, Layers, Alone DEF WriteGiveUp, CheckedInv, TypeOK, Holding, Empty
  <2>5. CASE WriteSleep(p)
    BY <2>5, Layers, Alone DEF WriteSleep, CheckedInv, TypeOK, Holding, Empty
  <2>6. ASSUME NEW v \in Bytes, WriteByte(p, v)
         PROVE  CheckedInv'
    BY <2>6, Layers, Alone DEF WriteByte, CheckedInv, TypeOK, Holding, Empty
  <2>7. CASE WriteFault(p)
    BY <2>7, Layers, Alone DEF WriteFault, CheckedInv, TypeOK, Holding, Empty
  <2>8. CASE WriteEnd(p)
    BY <2>8, Layers, Alone DEF WriteEnd, CheckedInv, TypeOK, Holding, Empty
  <2>9. CASE CallRead(p)
    BY <2>9, Layers, Alone DEF CallRead, CheckedInv, TypeOK, Holding, Empty
  <2>10. CASE ReadAcquire(p)
    BY <2>10, Layers, Alone DEF ReadAcquire, CheckedInv, TypeOK, Holding, Empty
  <2>11. CASE ReadCheck(p)
    BY <2>11, Layers, Alone DEF ReadCheck, CheckedInv, TypeOK, Holding, Empty
  <2>12. CASE ReadGiveUp(p)
    BY <2>12, Layers, Alone DEF ReadGiveUp, CheckedInv, TypeOK, Holding, Empty
  <2>13. CASE ReadSleep(p)
    BY <2>13, Layers, Alone DEF ReadSleep, CheckedInv, TypeOK, Holding, Empty
  <2>14. CASE ReadByte(p)
    BY <2>14, Layers, Alone DEF ReadByte, CheckedInv, TypeOK, Holding, Empty
  <2>15. CASE ReadEnd(p)
    BY <2>15, Layers, Alone DEF ReadEnd, CheckedInv, TypeOK, Holding, Empty
  <2>16. CASE ReadFault(p)
    BY <2>16, Layers, Alone DEF ReadFault, CheckedInv, TypeOK, Holding, Empty
  <2>17. CASE CloseRead(p)
    BY <2>17, Layers, Alone DEF CloseRead, CheckedInv, TypeOK, Holding, Empty
  <2>18. CASE CloseWrite(p)
    BY <2>18, Layers, Alone DEF CloseWrite, CheckedInv, TypeOK, Holding, Empty
  <2>19. CASE PipeCloseRead(p)
    BY <2>19, Layers, Alone DEF PipeCloseRead, CheckedInv, TypeOK, Holding, Empty
  <2>20. CASE PipeCloseWrite(p)
    BY <2>20, Layers, Alone DEF PipeCloseWrite, CheckedInv, TypeOK, Holding, Empty
  <2>21. CASE Kill(p)
    BY <2>21, Layers, Alone DEF Kill, CheckedInv, TypeOK, Holding, Empty
  <2> QED
    BY <1>2, <2>1, <2>2, <2>3, <2>4, <2>5, <2>6, <2>7, <2>8, <2>9, <2>10, <2>11,
       <2>12, <2>13, <2>14, <2>15, <2>16, <2>17, <2>18, <2>19, <2>20, <2>21
       DEF Step, WriteStep, ReadStep, CloseStep, Close
<1> QED  BY <1>1, <1>2 DEF Next, Step

(* Whoever sets the condition a process sleeps on holds pi->lock until its wakeup(). *)
LEMMA SleepStep ==
  ASSUME IInv, [Next]_vars
  PROVE  SleepInv'
<1>1. CASE UNCHANGED vars
  BY <1>1, Layers DEF vars, SleepInv, Empty, Full
<1>2. ASSUME NEW p \in Procs, Step(p)
      PROVE  SleepInv'
  <2>1. CASE CallWrite(p)
    <3>1. /\ pc[p] = "idle" /\ pc' = [pc EXCEPT ![p] = "w_acquire"]
          /\ UNCHANGED <<nread, nwrite, readopen, writeopen, killed>>
      BY <2>1 DEF CallWrite
    <3> QED  BY <3>1, Layers DEF SleepInv, TypeOK, Empty, Full
  <2>2. CASE WriteAcquire(p)
    BY <2>2, Layers, Alone DEF WriteAcquire, SleepInv, TypeOK, Holding, Empty, Full
  <2>3. CASE WriteCheck(p)
    BY <2>3, Layers, Alone, SMTT(30) DEF WriteCheck, SleepInv, TypeOK, Holding, Empty, Full
  <2>4. CASE WriteGiveUp(p)
    BY <2>4, Layers, Alone, PipeAssumption, SMTT(30)
       DEF WriteGiveUp, SleepInv, TypeOK, Holding, Empty, Full, OpenInv, InWrite, InRead
  <2>5. CASE WriteSleep(p)
    BY <2>5, Layers, Alone DEF WriteSleep, SleepInv, TypeOK, Holding, Empty, Full, CheckedInv
  <2>6. ASSUME NEW v \in Bytes, WriteByte(p, v)
         PROVE  SleepInv'
    BY <2>6, Layers, Alone DEF WriteByte, SleepInv, TypeOK, Holding, Empty, Full
  <2>7. CASE WriteFault(p)
    BY <2>7, Layers, Alone DEF WriteFault, SleepInv, TypeOK, Holding, Empty, Full
  <2>8. CASE WriteEnd(p)
    BY <2>8, Layers, Alone DEF WriteEnd, SleepInv, TypeOK, Holding, Empty, Full
  <2>9. CASE CallRead(p)
    <3>1. /\ pc[p] = "idle" /\ pc' = [pc EXCEPT ![p] = "r_acquire"]
          /\ UNCHANGED <<nread, nwrite, readopen, writeopen, killed>>
      BY <2>9 DEF CallRead
    <3> QED  BY <3>1, Layers DEF SleepInv, TypeOK, Empty, Full
  <2>10. CASE ReadAcquire(p)
    BY <2>10, Layers, Alone DEF ReadAcquire, SleepInv, TypeOK, Holding, Empty, Full
  <2>11. CASE ReadCheck(p)
    <3>1. /\ pc[p] = "r_check" /\ pc' \in {[pc EXCEPT ![p] = "r_sleep"], [pc EXCEPT ![p] = "r_copy"]}
          /\ UNCHANGED <<nread, nwrite, readopen, writeopen, killed>>
      BY <2>11 DEF ReadCheck
    <3>2. \A q \in Procs : q # p => pc'[q] = pc[q]
      BY <3>1, Layers DEF TypeOK
    <3>3. \A q \in Procs : pc[q] # "r_copy" /\ pc[q] \notin {"w_check", "w_body", "w_end"}
      BY <3>1, Layers, Alone DEF Holding
    <3>4. pc'[p] \in {"r_sleep", "r_copy"}
      BY <3>1, Layers DEF TypeOK
    <3> QED  BY <3>1, <3>2, <3>3, <3>4, Layers DEF SleepInv, Empty, Full
  <2>12. CASE ReadGiveUp(p)
    BY <2>12, Layers, Alone DEF ReadGiveUp, SleepInv, TypeOK, Holding, Empty, Full
  <2>13. CASE ReadSleep(p)
    BY <2>13, Layers, Alone DEF ReadSleep, SleepInv, TypeOK, Holding, Empty, Full, CheckedInv
  <2>14. CASE ReadByte(p)
    BY <2>14, Layers, Alone DEF ReadByte, SleepInv, TypeOK, Holding, Empty, Full
  <2>15. CASE ReadEnd(p)
    BY <2>15, Layers, Alone DEF ReadEnd, SleepInv, TypeOK, Holding, Empty, Full
  <2>16. CASE ReadFault(p)
    BY <2>16, Layers, Alone DEF ReadFault, SleepInv, TypeOK, Holding, Empty, Full
  <2>17. CASE CloseRead(p)
    BY <2>17, Layers, Alone DEF CloseRead, SleepInv, TypeOK, Holding, Empty, Full
  <2>18. CASE CloseWrite(p)
    BY <2>18, Layers, Alone DEF CloseWrite, SleepInv, TypeOK, Holding, Empty, Full
  <2>19. CASE PipeCloseRead(p)
    BY <2>19, Layers, Alone DEF PipeCloseRead, SleepInv, TypeOK, Holding, Empty, Full
  <2>20. CASE PipeCloseWrite(p)
    BY <2>20, Layers, Alone DEF PipeCloseWrite, SleepInv, TypeOK, Holding, Empty, Full
  <2>21. CASE Kill(p)
    BY <2>21, Layers, Alone, SMTT(30) DEF Kill, SleepInv, TypeOK, Holding, Empty, Full
  <2> QED
    BY <1>2, <2>1, <2>2, <2>3, <2>4, <2>5, <2>6, <2>7, <2>8, <2>9, <2>10, <2>11,
       <2>12, <2>13, <2>14, <2>15, <2>16, <2>17, <2>18, <2>19, <2>20, <2>21
       DEF Step, WriteStep, ReadStep, CloseStep, Close
<1> QED  BY <1>1, <1>2 DEF Next, Step

-----------------------------------------------------------------------------
(* The invariant *)

(* After pipealloc() the pipe is empty, open at both ends and unlocked. *)
LEMMA InitIInv == Init => IInv
<1> SUFFICES ASSUME Init PROVE IInv
  OBVIOUS
<1>1. TypeOK
  <2>1. (CHOOSE v \in Bytes : TRUE) \in Bytes
    BY PipeAssumption
  <2>2. data \in [0..(PIPESIZE - 1) -> Bytes] /\ last \in Bytes
    BY <2>1 DEF Init
  <2>3. nread \in 0..(CountMod - 1) /\ nwrite \in 0..(CountMod - 1)
    BY RingSizes, SMTT(30) DEF Init
  <2>4. killed \in [Procs -> BOOLEAN] /\ pc \in [Procs -> Labels] /\ left \in [Procs -> Nat]
    BY DEF Init, Labels
  <2> QED  BY <2>2, <2>3, <2>4 DEF Init, TypeOK
<1>2. Count = 0
  <2>1. nwrite \in 0..(CountMod - 1) /\ nread \in 0..(CountMod - 1)
    BY <1>1 DEF TypeOK
  <2> QED  BY <2>1, Difference, SMTT(30) DEF Init, Count
<1>3. RingInv
  BY <1>2, RingSizes, SMTT(30) DEF RingInv
<1>4. LockInv /\ CheckedInv /\ SleepInv
  BY DEF Init, LockInv, CheckedInv, SleepInv, Holding
<1>5. OpenInv
  BY PipeAssumption DEF Init, OpenInv, InWrite, InRead
<1> QED  BY <1>1, <1>3, <1>4, <1>5 DEF IInv

(* The invariant is inductive: whatever reads, writes, closes and kills are   *)
(* interleaved, pi->lock has one holder, at most PIPESIZE bytes are in the    *)
(* ring, the ends are open exactly while they are referenced, and nobody      *)
(* sleeps without a wakeup() to come.                                         *)
THEOREM Invariance == Spec => []IInv
<1>1. Init => IInv
  BY InitIInv
<1>2. IInv /\ [Next]_vars => IInv'
  <2> SUFFICES ASSUME IInv, [Next]_vars PROVE IInv'
    OBVIOUS
  <2>1. TypeOK' /\ LockInv'
    BY TypeStep, LockStep
  <2>2. RingInv' /\ OpenInv'
    BY RingStep, OpenStep
  <2>3. CheckedInv' /\ SleepInv'
    BY CheckedStep, SleepStep
  <2> QED  BY <2>1, <2>2, <2>3 DEF IInv
<1> QED  BY <1>1, <1>2, PTL DEF Spec

(* No piperead() sleeps while bytes wait or the write end is closed, unless a *)
(* killed writer gave up without a wakeup(); no pipewrite() sleeps while there *)
(* is room or the read end is closed.                                         *)
THEOREM NoSleeperForgotten == Spec => []SleepersWoken
<1>1. IInv => SleepersWoken
  <2> SUFFICES ASSUME IInv PROVE SleepersWoken
    OBVIOUS
  <2>1. ASSUME lock = {}
        PROVE  \A q \in Procs : pc[q] \notin Holding
    BY <2>1, Layers DEF LockInv
  <2>2. ReaderWoken
    BY <2>1, Layers DEF ReaderWoken, SleepInv, Holding
  <2>3. WriterWoken
    BY <2>1, Layers DEF WriterWoken, SleepInv, Holding
  <2> QED  BY <2>2, <2>3 DEF SleepersWoken
<1> QED  BY <1>1, Invariance, PTL

(* pipeclose() frees the pipe when, and only when, no file refers to it and   *)
(* no process is inside pipe.c.                                               *)
THEOREM FreedOnce == Spec => []FreedLast
<1>1. IInv => FreedLast
  <2> SUFFICES ASSUME IInv PROVE FreedLast
    OBVIOUS
  <2>1. \A p \in Procs : pc[p] \in {"idle", "close_r", "close_w"} \cup InWrite \cup InRead
    BY Layers DEF TypeOK, Labels, InWrite, InRead
  <2>2. freed => rfd = {} /\ wfd = {} /\ \A p \in Procs : pc[p] = "idle"
    BY <2>1, Layers DEF OpenInv
  <2>3. rfd = {} /\ wfd = {} /\ (\A p \in Procs : pc[p] = "idle") => freed
    BY Layers DEF OpenInv
  <2> QED  BY <2>2, <2>3 DEF FreedLast
<1> QED  BY <1>1, Invariance, PTL

-----------------------------------------------------------------------------
(* The pipe implements a bounded queue of bytes *)

(* A step that leaves the ring and the last byte delivered alone is none of the queue's. *)
LEMMA QueueStutters ==
  ASSUME UNCHANGED <<data, nread, nwrite, last>>
  PROVE  UNCHANGED Queue!vars
BY DEF Queue!vars, Contents, Count

(* One step of pipe.c is one step of the queue, or none: pipewrite() puts a    *)
(* byte, piperead() gets one, and loses it when its copyout() fails.          *)
LEMMA QueueStep ==
  ASSUME IInv, [Next]_vars
  PROVE  [Queue!Next]_(Queue!vars)
<1>1. CASE UNCHANGED vars
  BY <1>1, QueueStutters DEF vars
<1>2. ASSUME NEW p \in Procs, Step(p)
      PROVE  [Queue!Next]_(Queue!vars)
  <2>1. CASE CallWrite(p)
    BY <2>1, QueueStutters DEF CallWrite
  <2>2. CASE WriteAcquire(p)
    BY <2>2, QueueStutters DEF WriteAcquire
  <2>3. CASE WriteCheck(p)
    BY <2>3, QueueStutters DEF WriteCheck
  <2>4. CASE WriteGiveUp(p)
    BY <2>4, QueueStutters DEF WriteGiveUp
  <2>5. CASE WriteSleep(p)
    BY <2>5, QueueStutters DEF WriteSleep
  <2>6. ASSUME NEW v \in Bytes, WriteByte(p, v)
         PROVE  Queue!Next
    <3>1. ~Full /\ nwrite' = (nwrite + 1) % CountMod /\ nread' = nread /\ last' = last
          /\ data' = [data EXCEPT ![nwrite % PIPESIZE] = v]
      BY <2>6 DEF WriteByte
    <3>2. Contents' = Append(Contents, v) /\ Len(Contents) < PIPESIZE
      BY <3>1, Layers, PutSeq
    <3>3. Queue!Put(v)
      BY <3>1, <3>2 DEF Queue!Put
    <3> QED  BY <3>3 DEF Queue!Next
  <2>7. CASE WriteFault(p)
    BY <2>7, QueueStutters DEF WriteFault
  <2>8. CASE WriteEnd(p)
    BY <2>8, QueueStutters DEF WriteEnd
  <2>9. CASE CallRead(p)
    BY <2>9, QueueStutters DEF CallRead
  <2>10. CASE ReadAcquire(p)
    BY <2>10, QueueStutters DEF ReadAcquire
  <2>11. CASE ReadCheck(p)
    BY <2>11, QueueStutters DEF ReadCheck
  <2>12. CASE ReadGiveUp(p)
    BY <2>12, QueueStutters DEF ReadGiveUp
  <2>13. CASE ReadSleep(p)
    BY <2>13, QueueStutters DEF ReadSleep
  <2>14. CASE ReadByte(p)
    <3>1. ~Empty /\ nread' = (nread + 1) % CountMod /\ nwrite' = nwrite /\ data' = data
      BY <2>14 DEF ReadByte
    <3>2. /\ Contents # <<>> /\ Contents' = Tail(Contents)
          /\ Head(Contents) = data[nread % PIPESIZE]
      BY <3>1, Layers, GetSeq
    <3>3. Queue!Get
      BY <2>14, <3>2 DEF ReadByte, Queue!Get
    <3> QED  BY <3>3 DEF Queue!Next
  <2>15. CASE ReadEnd(p)
    BY <2>15, QueueStutters DEF ReadEnd
  <2>16. CASE ReadFault(p)
    <3>1. ~Empty /\ nread' = (nread + 1) % CountMod /\ nwrite' = nwrite /\ data' = data
      BY <2>16 DEF ReadFault
    <3>2. /\ Contents # <<>> /\ Contents' = Tail(Contents)
          /\ Head(Contents) = data[nread % PIPESIZE]
      BY <3>1, Layers, GetSeq
    <3>3. Queue!Lose
      BY <2>16, <3>2 DEF ReadFault, Queue!Lose
    <3> QED  BY <3>3 DEF Queue!Next
  <2>17. CASE CloseRead(p)
    BY <2>17, QueueStutters DEF CloseRead
  <2>18. CASE CloseWrite(p)
    BY <2>18, QueueStutters DEF CloseWrite
  <2>19. CASE PipeCloseRead(p)
    BY <2>19, QueueStutters DEF PipeCloseRead
  <2>20. CASE PipeCloseWrite(p)
    BY <2>20, QueueStutters DEF PipeCloseWrite
  <2>21. CASE Kill(p)
    BY <2>21, QueueStutters DEF Kill
  <2> QED
    BY <1>2, <2>1, <2>2, <2>3, <2>4, <2>5, <2>6, <2>7, <2>8, <2>9, <2>10, <2>11,
       <2>12, <2>13, <2>14, <2>15, <2>16, <2>17, <2>18, <2>19, <2>20, <2>21
       DEF Step, WriteStep, ReadStep, CloseStep, Close
<1> QED  BY <1>1, <1>2 DEF Next, Step

(* Bytes come out of a pipe in the order they went in, each at most once, for *)
(* every size of the ring and every width of the unsigned counters that wrap  *)
(* around: the specification of the pipe implements that of the queue.        *)
THEOREM PipeIsAQueue == Spec => BytesInOrder
<1>1. Init => Queue!Init
  <2> SUFFICES ASSUME Init PROVE Queue!Init
    OBVIOUS
  <2>1. IInv
    BY InitIInv
  <2>2. Count = 0
    BY <2>1, Layers, CountFacts DEF Init, Empty
  <2>3. Contents = <<>>
    BY <2>1, <2>2, Layers, ContentsSeq, EmptySeq
  <2>4. last \in Bytes
    BY <2>1, Layers DEF TypeOK
  <2> QED  BY <2>3, <2>4 DEF Queue!Init
<1>2. IInv /\ [Next]_vars => [Queue!Next]_(Queue!vars)
  BY QueueStep
<1> QED  BY <1>1, <1>2, Invariance, PTL DEF Spec, BytesInOrder, Queue!Spec

=============================================================================
