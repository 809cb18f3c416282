------------------------------ MODULE HttpCall ------------------------------
(***************************************************************************)
(* The control of one call of DefaultStorageClient.DoAndRetry              *)
(* (client/storage.go), as operators: every storage operation of the       *)
(* client is one such call, so the modules of the uploads extend this one  *)
(* and make an attempt of a call one step.                                 *)
(*                                                                         *)
(* What one execution of Do brings back is abstracted to what the loop and *)
(* its callers tell apart:                                                 *)
(*   ok        a 2xx response whose body, if one is wanted, was decoded    *)
(*   garbled   a 2xx response whose body could not be decoded              *)
(*   redirect  a 3xx response that net/http did not follow                 *)
(*   notfound  404                                                         *)
(*   rejected  any other 4xx, and 5xx                                      *)
(*   lost      no response at all: Do returns a nil resp                   *)
(***************************************************************************)
EXTENDS Integers

CONSTANT Retry        \* StorageClientConfig.Retry, as read from the ini file

ASSUME RetryAssumption == Retry \in Int

Answers == {"ok", "garbled", "redirect", "notfound", "rejected"}
Responses == Answers \cup {"lost"}

(* The err that Do returns with a response: nil for a decoded 2xx only.    *)
DoErr(r) == r # "ok"

(* resp != nil && resp.StatusCode < 400                                    *)
Below400(r) == r \in {"ok", "garbled", "redirect"}

(***************************************************************************)
(* A call in progress: how many requests were sent, what the last one and  *)
(* what the first one brought back.                                        *)
(***************************************************************************)
NewCall == [sent |-> 0, resp |-> "lost", first |-> "lost"]

Calls == [sent : Nat, resp : Responses, first : Responses]

(***************************************************************************)
(* Mutants: a request that broke leaves the response unset; the loop's     *)
(* bound is off by one; a success does not end the loop; nor does a 404;   *)
(* every response looked at clears the error; a PUT takes any status.      *)
(***************************************************************************)
AttemptedUnset(c, r) ==
  [sent  |-> c.sent + 1,
   resp  |-> IF r = "lost" THEN "unset" ELSE r,
   first |-> IF c.sent = 0 THEN r ELSE c.first]
LooksAtResponseOffByOne(c) == c.sent < Retry
FinishedIgnoringSuccess(c) == c.sent > 0 /\ (c.sent > Retry \/ c.resp = "notfound")
FinishedIgnoring404(c) == c.sent > 0 /\ (c.sent > Retry \/ Below400(c.resp))
ReturnsErrOnlyAtTheEnd(c) == DoErr(c.first) /\ c.sent > Retry
PutReturnsErrAnyStatus(c) == DoErr(c.first) /\ ~(c.sent <= Retry /\ Below400(c.resp))

(***************************************************************************)
(* One more execution of Do.  Inside the loop `req, err := fn()` declares a *)
(* new err, so what the repeated requests return is assigned to that one   *)
(* and the outermost err, which is returned, keeps that of the first one.  *)
(***************************************************************************)
Attempted(c, r) ==
  [sent  |-> c.sent + 1,
   resp  |-> r,
   first |-> IF c.sent = 0 THEN r ELSE c.first]

(* The head of the loop is reached after every request but the last        *)
(* allowed one: the response of that one is not looked at.                 *)
LooksAtResponse(c) == c.sent <= Retry

(* The call is over: no retry left, or the loop left by return or break.   *)
Finished(c) ==
  /\ c.sent > 0
  /\ \/ ~LooksAtResponse(c)
     \/ Below400(c.resp)
     \/ c.resp = "notfound"

(* Whether the caller gets a non-nil error from a finished call.           *)
ReturnsErr(c) == DoErr(c.first) /\ ~(LooksAtResponse(c) /\ Below400(c.resp))

(* PutObjectAt takes no other status than 200.                             *)
PutReturnsErr(c) == ReturnsErr(c) \/ c.resp = "redirect"

(***************************************************************************)
(* How much of the result of a call a response fills in: xml.Decoder stops *)
(* at the first error and leaves what it has decoded so far, if anything.  *)
(***************************************************************************)
Filled(r) ==
  CASE r = "ok"      -> {"all"}
    [] r = "garbled" -> {"none", "some", "all"}
    [] OTHER         -> {"none"}

(***************************************************************************)
(* The network and the service, as seen by one request.                    *)
(*   answered    the service handles it and its answer arrives             *)
(*   garbled     the service handles it, its answer arrives undecodable    *)
(*   unanswered  the service handles it, the connection breaks before the  *)
(*               answer arrives                                            *)
(*   unsent      the connection fails and the service never sees it        *)
(*   refused     the service turns it down with a 4xx or 5xx               *)
(*   redirected  the service does nothing and answers with a 3xx that      *)
(*               net/http does not follow (one without a Location, say)    *)
(***************************************************************************)
Fates == {"answered", "garbled", "unanswered", "unsent", "refused", "redirected"}

Handled(fate) == fate \in {"answered", "garbled", "unanswered"}

(* What Do brings back when the service's own answer would be a.           *)
Reply(fate, a) ==
  CASE fate = "answered"   -> a
    [] fate = "garbled"    -> IF a = "ok" THEN "garbled" ELSE a
    [] fate = "refused"    -> "rejected"
    [] fate = "redirected" -> "redirect"
    [] OTHER               -> "lost"
=============================================================================
