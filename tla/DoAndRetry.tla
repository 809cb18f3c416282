----------------------------- MODULE DoAndRetry -----------------------------
(***************************************************************************)
(* One call of DoAndRetry (client/storage.go) against a service reached    *)
(* over a network that loses requests, loses answers and delivers late.    *)
(* A request the client has given up may still be handled by the service:  *)
(* it stays in the network.                                                *)
(***************************************************************************)
EXTENDS HttpCall, Sequences, FiniteSets

VARIABLES
  pc,        \* "sleep" between two requests, "wait" for an answer, "returned"
  call,      \* the call in progress (HttpCall)
  history,   \* what each request of the call brought back, in order
  waiting,   \* state of the request waited for: "no", "travels" or an answer
  stray,     \* requests given up by the client and still in the network
  effects    \* times the service has done what the request asks for

vars == <<pc, call, history, waiting, stray, effects>>

(* Whether a request answered with a has had its effect: a rejection may  *)
(* come from a gateway that gave up on a service which then did the work.  *)
Effect(a) ==
  CASE a \in {"ok", "garbled"} -> {1}
    [] a = "rejected" -> {0, 1}
    [] OTHER -> {0}

Init ==
  /\ pc = "sleep"
  /\ call = NewCall
  /\ history = <<>>
  /\ waiting = "no"
  /\ stray = 0
  /\ effects = 0

(* Mutant: after a broken connection no further request is ever sent.      *)
SendAfterAnswersOnly ==
  /\ pc = "sleep"
  /\ IF call.sent > 0 /\ call.resp = "lost"
     THEN UNCHANGED vars
     ELSE /\ pc' = "wait"
          /\ waiting' = "travels"
          /\ UNCHANGED <<call, history, stray, effects>>

(* fn() builds the request anew and cli.Do sends it; before every request  *)
(* but the first the loop sleeps for RetryInterval.                        *)
Send ==
  /\ pc = "sleep"
  /\ pc' = "wait"
  /\ waiting' = "travels"
  /\ UNCHANGED <<call, history, stray, effects>>

(* The service handles the request and decides its answer.                 *)
Handle(a) ==
  /\ waiting = "travels"
  /\ waiting' = a
  /\ \E e \in Effect(a) : effects' = effects + e
  /\ UNCHANGED <<pc, call, history, stray>>

(* Do returns r: one turn of the loop up to the next sleep or the return.  *)
DoReturns(r) ==
  /\ pc = "wait"
  /\ call' = Attempted(call, r)
  /\ history' = Append(history, r)
  /\ waiting' = "no"
  /\ pc' = IF Finished(call') THEN "returned" ELSE "sleep"

Receive ==
  /\ waiting \in Answers
  /\ DoReturns(waiting)
  /\ UNCHANGED <<stray, effects>>

(* The connection breaks, before or after the service handled the request. *)
Break ==
  /\ DoReturns("lost")
  /\ stray' \in IF waiting = "travels" THEN {stray, stray + 1} ELSE {stray}
  /\ UNCHANGED effects

(* The service handles a request that the client has given up.             *)
HandleStray(a) ==
  /\ stray > 0
  /\ stray' = stray - 1
  /\ \E e \in Effect(a) : effects' = effects + e
  /\ UNCHANGED <<pc, call, history, waiting>>

Returned == pc = "returned" /\ UNCHANGED vars

Next ==
  \/ Send
  \/ \E a \in Answers : Handle(a) \/ HandleStray(a)
  \/ Receive
  \/ Break
  \/ Returned

(* Every request ends, by an answer or by a broken connection: the client  *)
(* sets no timeout of its own, so this is an assumption about the network. *)
Fairness ==
  /\ WF_vars(Send)
  /\ WF_vars(Receive \/ Break)

Spec == Init /\ [][Next]_vars /\ Fairness

-----------------------------------------------------------------------------
(* Every variable has its type; a call sends at most Retry + 1 requests.   *)
TypeOK ==
  /\ pc \in {"sleep", "wait", "returned"}
  /\ call \in Calls
  /\ history \in Seq(Responses)
  /\ waiting \in Answers \cup {"no", "travels"}
  /\ stray \in Nat
  /\ effects \in Nat

Unsure == {i \in DOMAIN history : history[i] \in {"lost", "rejected"}}

(***************************************************************************)
(* DoAndRetry repeats a request only after a broken connection or a        *)
(* rejection (CHANGELOG 1.6.0 lists exactly these conditions).  So the     *)
(* service has done the work more often than once, counting the requests   *)
(* still under way, only as often as the client was left unsure: never     *)
(* again after an acknowledgement that reached it.                         *)
(***************************************************************************)
RepeatsNeedALoss ==
  effects + stray + (IF waiting = "travels" THEN 1 ELSE 0)
    <= Cardinality(Unsure) + 1

(***************************************************************************)
(* A nil error is returned only if the last request was answered below     *)
(* 400, whatever the earlier ones brought.                                 *)
(***************************************************************************)
NilErrorIsAnswered ==
  pc = "returned" /\ ~ReturnsErr(call) => Below400(history[Len(history)])

(***************************************************************************)
(* An error is returned only after a 404 or once the allowed number of     *)
(* requests is used up (or no retry is configured), and the requests are   *)
(* never more than that: DoAndRetry neither gives up early nor goes on.    *)
(***************************************************************************)
GivesUpOnlyAtTheEnd ==
  /\ Len(history) <= (IF Retry > 0 THEN Retry ELSE 0) + 1
  /\ pc = "returned" /\ ReturnsErr(call) =>
       \/ history[Len(history)] = "notfound"
       \/ Len(history) = (IF Retry > 0 THEN Retry ELSE 0) + 1

(***************************************************************************)
(* A response that ends the call is the last thing the call does: no       *)
(* request is sent after a success, a redirect or a 404 has been seen by   *)
(* DoAndRetry, however many retries are left.                              *)
(***************************************************************************)
NothingAfterTheEnd ==
  [][Len(history) > 0 /\ history[Len(history)] \notin {"lost", "rejected"}
       => UNCHANGED <<pc, call, history, waiting>>]_vars

(* Every call of DoAndRetry returns.                                       *)
Returns == <>(pc = "returned")
=============================================================================
