------------------------------ MODULE OneCall ------------------------------
(***************************************************************************)
(* The commands that are one call of the storage service: policy put, cat  *)
(* and rm (cmd/policy.go), space (cmd/space.go), traffic (cmd/traffic.go)  *)
(* and ls without an argument (cmd/ls.go).  A request, with everything the *)
(* network does to it, is one step.                                        *)
(***************************************************************************)
EXTENDS HttpCall

CONSTANT NetFates    \* the fates of requests that the network and service show

VARIABLES
  command,     \* "policy put", "policy cat", "policy rm", "space",
               \* "traffic", "traffic date" or "list buckets"
  call,        \* the call of DoAndRetry
  policy,      \* what the service has: "none", "old" or "new"
  shown,       \* how much of the answer was printed
  pc, status, hidden

vars == <<command, call, policy, shown, pc, status, hidden>>

Policies == {"policy put", "policy cat", "policy rm"}

Init ==
  /\ command \in Policies \cup {"space", "traffic", "traffic date", "list buckets"}
  /\ call = NewCall
  /\ policy \in {"none", "old"}
  /\ shown = "none"
  /\ pc = "start"
  /\ status = "running"
  /\ hidden = FALSE

(* Mutant: the status of the response is not looked at.                    *)
FailsByErrorOnly(c) == ReturnsErr(c)

Ends(s, printed) ==
  /\ pc' = "done" /\ status' = s /\ shown' = printed

(* The arguments, and the file of policy put.                              *)
Begin ==
  /\ pc = "start"
  /\ \/ Ends("error", "none")
     \/ pc' = "call" /\ UNCHANGED <<shown, status>>
  /\ UNCHANGED <<command, call, policy, hidden>>

(***************************************************************************)
(* What reaches the service: PutBucketPolicy gives every request the same  *)
(* file, and net/http closes it when it has sent the first one, or failed  *)
(* to.  A repetition breaks when its body is read.                         *)
(***************************************************************************)
Sendable == command # "policy put" \/ call.sent = 0

FatesNow ==
  IF ~Sendable THEN {"unsent"}
  ELSE IF command \in Policies THEN NetFates \ {"garbled"}
  ELSE NetFates

(* The service.  To delete what is gone may be an error.                   *)
Serve ==
  CASE command = "policy cat" -> {IF policy = "none" THEN "notfound" ELSE "ok"}
    [] command = "policy rm" /\ policy = "none" -> {"ok", "notfound"}
    [] OTHER -> {"ok"}

Done(fate) ==
  CASE command = "policy put" /\ Handled(fate) -> "new"
    [] command = "policy rm" /\ Handled(fate) -> "none"
    [] OTHER -> policy

(* The functions for the policy take no other status than 204 or 200.      *)
Fails(c) == ReturnsErr(c) \/ (command \in Policies /\ c.resp = "redirect")

(***************************************************************************)
(* What is printed.  A result that was not filled in is nil: space, ls and *)
(* traffic with -b dereference it, traffic of a date takes it for "not     *)
(* found", and a day whose date is cut short is a panic, too.              *)
(***************************************************************************)
ShowAnswer(c) ==
  IF command \in {"policy put", "policy rm"} THEN Ends("ok", "none")
  ELSE IF command = "policy cat" THEN Ends("ok", "all") \/ Ends("error", "some")
  ELSE \E printed \in Filled(c.resp) :
         \/ printed # "none" /\ Ends("ok", printed)
         \/ printed = "none" /\ command # "traffic date" /\ Ends("panic", "none")
         \/ printed # "all" /\ command = "traffic date" /\ Ends("error", "none")
         \/ printed = "some" /\ command \in {"traffic", "traffic date"} /\ Ends("panic", "some")

Request ==
  /\ pc = "call"
  /\ \E fate \in FatesNow, answer \in Serve :
       LET c == Attempted(call, Reply(fate, answer))
       IN /\ call' = c
          /\ policy' = Done(fate)
          /\ \/ ~Finished(c) /\ UNCHANGED <<pc, status, shown>>
             \/ Finished(c) /\ Fails(c) /\ Ends("error", "none")
             \/ Finished(c) /\ ~Fails(c) /\ ShowAnswer(c)
  /\ UNCHANGED <<command, hidden>>

Step == Begin \/ Request

-----------------------------------------------------------------------------
TypeOK ==
  /\ call \in Calls
  /\ policy \in {"none", "old", "new"}
  /\ shown \in {"none", "some", "all"}
  /\ pc \in {"start", "call", "done"}
  /\ (pc = "done") = (status # "running")

(***************************************************************************)
(* A command that succeeds has done what it was told: the policy is the    *)
(* file, or is gone, or the whole answer was printed, whatever requests    *)
(* were lost, repeated without a body or redirected.  Not so where the     *)
(* answer could not be decoded: its beginning is printed.                  *)
(***************************************************************************)
DoesIt ==
  status = "ok" =>
    CASE command = "policy put" -> policy = "new"
      [] command = "policy rm" -> policy = "none"
      [] OTHER -> shown = "all" \/ call.resp = "garbled"
=============================================================================
