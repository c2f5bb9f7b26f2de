----------------------------- MODULE RetryTable -----------------------------
(***************************************************************************)
(* What the table minio_delete_retries promises to those who write a row   *)
(* into it: the row stays pending until it is settled, once and for good;  *)
(* it is done only when its object is gone from the bucket.                *)
(***************************************************************************)
CONSTANTS
  Rows,        \* rows of the table, one per failed removal
  Objects,     \* names of objects in the bucket
  ObjectOf     \* the column object_name

VARIABLES
  status,      \* of each row; "none" before it is written
  stored       \* the objects that are in the bucket

Init ==
  /\ status = [r \in Rows |-> "none"]
  /\ stored \in SUBSET Objects

Record(r) ==
  /\ status[r] = "none"
  /\ status' = [status EXCEPT ![r] = "pending"]
  /\ UNCHANGED stored

\* The object goes while the row is pending: the answer, or the update, may be lost.
Remove(r) ==
  /\ status[r] = "pending"
  /\ stored' = stored \ {ObjectOf[r]}
  /\ UNCHANGED status

Done(r) ==
  /\ status[r] = "pending" /\ ObjectOf[r] \notin stored
  /\ status' = [status EXCEPT ![r] = "done"]
  /\ UNCHANGED stored

GiveUp(r) ==
  /\ status[r] = "pending"
  /\ status' = [status EXCEPT ![r] = "failed"]
  /\ UNCHANGED stored

Next == \E r \in Rows : Record(r) \/ Remove(r) \/ Done(r) \/ GiveUp(r)

Spec == Init /\ [][Next]_<<status, stored>>
=============================================================================
