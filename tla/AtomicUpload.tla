---------------------------- MODULE AtomicUpload ----------------------------
(***************************************************************************)
(* What an upload of the client promises (Upload, UploadFile and           *)
(* ResumeUploadFile of client/storage.go, seen from the command that calls *)
(* them): the object is the one that was there before or the whole new     *)
(* data, never anything in between, and a nil error is returned only when  *)
(* it is the new data.  An upload that fails may have stored the object.   *)
(***************************************************************************)
VARIABLES
  object,   \* "old" or "new"
  status    \* "running", "succeeded", or "failed" by an error or a panic

vars == <<object, status>>

Init == object = "old" /\ status = "running"

Store ==
  /\ status = "running"
  /\ object' = "new"
  /\ status' \in {"running", "succeeded", "failed"}

Succeed ==
  /\ status = "running"
  /\ object = "new"
  /\ status' = "succeeded"
  /\ UNCHANGED object

Fail ==
  /\ status = "running"
  /\ status' = "failed"
  /\ UNCHANGED object

Next == Store \/ Succeed \/ Fail

Spec == Init /\ [][Next]_vars
=============================================================================
