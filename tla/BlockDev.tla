------------------------------ MODULE BlockDev ------------------------------
(***************************************************************************)
(* What virtio_disk_rw() promises to its callers: a block is read or       *)
(* written exactly once between the call and the return, atomically.       *)
(***************************************************************************)
CONSTANTS Procs, Blocks, Vals

VARIABLES store,  \* the contents of the disk
          req     \* the request of a process, <<>> when it has none

Requests == [blk : Blocks, write : BOOLEAN, val : Vals, done : BOOLEAN]

Init ==
  /\ store \in [Blocks -> Vals]
  /\ req = [p \in Procs |-> <<>>]

Post(p, r) ==
  /\ req[p] = <<>> /\ ~r.done
  /\ req' = [req EXCEPT ![p] = r]
  /\ UNCHANGED store

Perform(p) ==
  /\ req[p] # <<>> /\ ~req[p].done
  /\ store' = IF req[p].write THEN [store EXCEPT ![req[p].blk] = req[p].val] ELSE store
  /\ req' = [req EXCEPT ![p].done = TRUE, ![p].val = store'[req[p].blk]]

Return(p) ==
  /\ req[p] # <<>> /\ req[p].done
  /\ req' = [req EXCEPT ![p] = <<>>]
  /\ UNCHANGED store

Next == \E p \in Procs : (\E r \in Requests : Post(p, r)) \/ Perform(p) \/ Return(p)

vars == <<store, req>>
Spec == Init /\ [][Next]_vars
=============================================================================
