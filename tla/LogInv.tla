------------------------------- MODULE LogInv -------------------------------
(***************************************************************************)
(* The inductive invariant of Log, in layers: each layer is inductive      *)
(* relative to the ones above it.                                          *)
(***************************************************************************)
EXTENDS Log

(* The labels of commit(), those after the commit point, and its two loops. *)
CommitLabels == {"write_log", "write_head", "install", "erase", "commit_end"}
Committed == {"install", "erase"}
Loops == {"write_log", "install"}

Committers == {t \in Threads : pc[t] \in CommitLabels}
Within(labels) == \E t \in Threads : pc[t] \in labels

NoDup(s) == \A i, j \in 1..Len(s) : s[i] = s[j] => i = j

-----------------------------------------------------------------------------
(* Layer 1, besides the types: operations exclude commits, commits exclude  *)
(* each other, and no thread is in the log before the end of recovery.      *)
AloneInv ==
  /\ outstanding = Cardinality(Active)
  /\ committing <=> Committers # {}
  /\ committing => Active = {}
  /\ \A t, u \in Committers : t = u
  /\ mode # "run" => \A t \in Threads : pc[t] = "idle"

(* Layer 2: what an operation has written is in the transaction, and within *)
(* its budget.                                                              *)
WroteInv ==
  \A t \in Threads :
    /\ wrote[t] # {} => t \in Active
    /\ IsFiniteSet(wrote[t]) /\ Cardinality(wrote[t]) <= MAXOPBLOCKS
    /\ \A b \in wrote[t] : InLog(b)

(* Layer 3: lh names no block twice; where the loops over it are; the header *)
(* on disk is lh from the commit point to the end of the installation.       *)
HeaderInv ==
  /\ NoDup(lh) /\ NoDup(head)
  /\ IF mode = "install" \/ Within(Loops) THEN tail \in 1..Len(lh) ELSE tail = 1
  /\ Within({"write_head"}) => lh # <<>>
  /\ Within({"commit_end"}) => lh = <<>>
  /\ mode = "read_head" => lh = <<>>
  /\ mode \in {"install", "erase"} => head = lh
  /\ mode = "run" => head = IF Within(Committed) THEN lh ELSE <<>>

(* Layer 4: a block of the transaction is pinned until it is installed, and *)
(* no other block is; a buffer that is not pinned equals its home block.    *)
Pinned(b) ==
  \E i \in 1..Len(lh) : /\ lh[i] = b /\ mode = "run" /\ ~Within({"erase"})
                        /\ Within({"install"}) => i >= tail

PinInv ==
  /\ \A b \in Blocks : pins[b] = IF Pinned(b) THEN 1 ELSE 0
  /\ DirtyPinned

(* Layer 5: the log blocks written so far hold the transaction, and the     *)
(* blocks installed so far hold what the log says.                          *)
Logged(n) == \A i \in 1..n : slot[i] = Content(lh[i])
Installed(n) == \A i \in 1..n : home[lh[i]] = slot[i]

CopyInv ==
  /\ Within({"write_log"}) => Logged(tail - 1)
  /\ Within({"write_head", "install", "erase"}) => Logged(Len(lh))
  /\ Within({"install"}) \/ mode = "install" => Installed(tail - 1)
  /\ Within({"erase"}) \/ mode = "erase" => Installed(Len(lh))

IInv == TypeOK /\ AloneInv /\ WroteInv /\ LogFits /\ HeaderInv /\ PinInv /\ CopyInv

=============================================================================
