-------------------------- MODULE DoAndRetryProofs --------------------------
(***************************************************************************)
(* Theorems about DoAndRetry, for every number of retries, negative ones   *)
(* included.                                                               *)
(***************************************************************************)
EXTENDS DoAndRetry, FiniteSetTheorems, TLAPS

(* The requests the loop allows.                                           *)
Limit == (IF Retry > 0 THEN Retry ELSE 0) + 1

(* What is behind a call in progress: it is where its history says, all    *)
(* its requests have failed in a way that is repeated, and each request    *)
(* has had an effect, or may still have one, at most once.                 *)
CallInv ==
  /\ TypeOK
  /\ call.sent = Len(history)
  /\ Len(history) <= Limit
  /\ pc # "returned" =>
       /\ Len(history) > 0 => ~Finished(call) /\ DoErr(call.first)
       /\ Cardinality(Unsure) = Len(history)
  /\ pc = "returned" => Finished(call) /\ Cardinality(Unsure) + 1 >= Len(history)
  /\ Len(history) > 0 => history[Len(history)] = call.resp
  /\ pc = "returned" /\ ~ReturnsErr(call) => Below400(call.resp)
  /\ waiting = "no" <=> pc # "wait"
  /\ effects + stray + (IF waiting = "travels" THEN 1 ELSE 0)
       <= Len(history) + (IF pc = "wait" THEN 1 ELSE 0)

LEMMA InitInv == Init => CallInv
<1> SUFFICES ASSUME Init PROVE CallInv
  OBVIOUS
<1>1. Unsure = {}
  BY DEF Init, Unsure
<1>2. Cardinality(Unsure) = 0
  BY <1>1, FS_EmptySet
<1> QED
  BY <1>2, RetryAssumption
     DEF Init, CallInv, TypeOK, NewCall, Calls, Responses, Answers, Limit

LEMMA UnsureFinite ==
  ASSUME TypeOK
  PROVE  IsFiniteSet(Unsure) /\ Cardinality(Unsure) \in Nat
<1>1. IsFiniteSet(1 .. Len(history)) /\ Unsure \subseteq 1 .. Len(history)
  BY FS_Interval DEF TypeOK, Unsure
<1> QED
  BY <1>1, FS_Subset, FS_CardinalityType

(* One turn of the loop.                                                   *)
LEMMA TurnInv ==
  ASSUME CallInv, NEW r \in Responses, DoReturns(r), effects' = effects,
         stray' \in IF waiting = "travels" THEN {stray, stray + 1} ELSE {stray}
  PROVE  CallInv'
<1> DEFINE n == Len(history)
<1>1. /\ pc = "wait" /\ call \in Calls /\ history \in Seq(Responses) /\ n \in Nat
      /\ call.sent = n /\ n <= Limit
      /\ stray \in Nat /\ effects \in Nat
      /\ (n > 0 => ~Finished(call) /\ DoErr(call.first))
      /\ Cardinality(Unsure) = n
      /\ effects + stray + (IF waiting = "travels" THEN 1 ELSE 0) <= n + 1
  BY DEF DoReturns, CallInv, TypeOK
<1>2. /\ call'.sent = n + 1 /\ call'.resp = r
      /\ call'.first = IF n = 0 THEN r ELSE call.first
      /\ call' \in Calls
  BY <1>1 DEF DoReturns, Attempted, Calls
<1>3. /\ history' = Append(history, r) /\ history' \in Seq(Responses)
      /\ Len(history') = n + 1 /\ history'[n + 1] = r
      /\ \A i \in 1 .. n : history'[i] = history[i]
  BY <1>1 DEF DoReturns
<1>4. n + 1 <= Limit
  BY <1>1, RetryAssumption DEF Limit, Finished, LooksAtResponse
<1>5. Unsure' = IF r \in {"lost", "rejected"} THEN Unsure \cup {n + 1} ELSE Unsure
  BY <1>1, <1>3 DEF Unsure
<1>6. n + 1 \notin Unsure
  BY <1>1 DEF Unsure
<1>7. Cardinality(Unsure') = IF r \in {"lost", "rejected"} THEN n + 1 ELSE n
  BY <1>1, <1>5, <1>6, UnsureFinite, FS_AddElement DEF CallInv
<1>8. pc' = IF Finished(call') THEN "returned" ELSE "sleep"
  BY DEF DoReturns
<1>9. ~Finished(call') => r \in {"lost", "rejected"} /\ DoErr(call'.first)
  <2>1. ~Finished(call') => ~Below400(r) /\ r # "notfound"
    BY <1>1, <1>2 DEF Finished
  <2> QED
    BY <1>1, <1>2, <2>1 DEF Below400, DoErr, Responses, Answers
<1>10. ~ReturnsErr(call') /\ Finished(call') => Below400(r)
  <2>1. CASE DoErr(call'.first)
    BY <1>2, <2>1 DEF ReturnsErr
  <2>2. CASE ~DoErr(call'.first)
    BY <1>1, <1>2, <2>2 DEF DoErr, Below400
  <2> QED BY <2>1, <2>2
<1>11. waiting' = "no"
  BY DEF DoReturns
<1>12. effects' + stray' <= n + 1 /\ stray' \in Nat /\ effects' \in Nat
  BY <1>1
<1>13. TypeOK'
  BY <1>2, <1>3, <1>8, <1>11, <1>12 DEF TypeOK
<1> HIDE DEF n
<1>14. /\ call'.sent = Len(history') /\ Len(history') <= Limit
       /\ history'[Len(history')] = call'.resp
       /\ waiting' = "no" /\ pc' # "wait" /\ waiting' # "travels"
       /\ effects' + stray' <= Len(history')
  BY <1>2, <1>3, <1>4, <1>8, <1>11, <1>12
<1>15. CASE Finished(call')
  <2>1. pc' = "returned" /\ Cardinality(Unsure') + 1 >= Len(history')
    BY <1>1, <1>3, <1>7, <1>8, <1>15
  <2>2. ~ReturnsErr(call') => Below400(call'.resp)
    BY <1>2, <1>10, <1>15
  <2> QED
    BY <1>12, <1>13, <1>14, <1>15, <2>1, <2>2 DEF CallInv
<1>16. CASE ~Finished(call')
  <2>1. pc' = "sleep" /\ DoErr(call'.first) /\ Cardinality(Unsure') = Len(history')
    BY <1>3, <1>7, <1>8, <1>9, <1>16
  <2> QED
    BY <1>12, <1>13, <1>14, <1>16, <2>1 DEF CallInv
<1> QED
  BY <1>15, <1>16

LEMMA NextInv == CallInv /\ [Next]_vars => CallInv'
<1> SUFFICES ASSUME CallInv, [Next]_vars PROVE CallInv'
  OBVIOUS
<1>0. TypeOK /\ Len(history) \in Nat
  BY DEF CallInv, TypeOK
<1>a. ASSUME UNCHANGED <<call, history>> PROVE Cardinality(Unsure') = Cardinality(Unsure)
  BY <1>a DEF Unsure
<1>1. CASE Send
  BY <1>0, <1>1, <1>a DEF Send, CallInv, TypeOK
<1>b. ASSUME NEW a \in Answers PROVE Effect(a) \subseteq {0, 1}
  <2>1. CASE a \in {"ok", "garbled"}
    BY <2>1 DEF Effect
  <2>2. CASE a = "rejected"
    BY <2>2, Zenon DEF Effect
  <2>3. CASE a \in {"redirect", "notfound"}
    BY <2>3, Zenon DEF Effect
  <2> QED BY <2>1, <2>2, <2>3 DEF Answers
<1>2. ASSUME NEW a \in Answers, Handle(a) PROVE CallInv'
  <2>1. PICK e \in {0, 1} : effects' = effects + e
    BY <1>2, <1>b DEF Handle
  <2>2. a # "no" /\ a # "travels"
    BY DEF Answers
  <2> QED
    BY <1>0, <1>2, <1>a, <2>1, <2>2 DEF Handle, CallInv, TypeOK
<1>3. ASSUME NEW a \in Answers, HandleStray(a) PROVE CallInv'
  <2>1. PICK e \in {0, 1} : effects' = effects + e
    BY <1>3, <1>b DEF HandleStray
  <2>2. stray' \in Nat /\ effects' \in Nat
    BY <1>0, <1>3, <2>1 DEF HandleStray, TypeOK
  <2>3. UNCHANGED <<pc, call, history, waiting>> /\ Cardinality(Unsure') = Cardinality(Unsure)
    BY <1>3, <1>a DEF HandleStray
  <2>4. TypeOK'
    BY <1>0, <2>2, <2>3 DEF TypeOK
  <2>5. effects' + stray' + (IF waiting' = "travels" THEN 1 ELSE 0)
          <= Len(history') + (IF pc' = "wait" THEN 1 ELSE 0)
    <3>1. /\ effects' = effects + e /\ stray' = stray - 1 /\ e \in {0, 1}
          /\ effects \in Nat /\ stray \in Nat /\ Len(history) \in Nat
      BY <1>0, <1>3, <2>1 DEF HandleStray, TypeOK
    <3>2. waiting' = waiting /\ history' = history /\ pc' = pc
      BY <2>3
    <3>3. effects + stray + (IF waiting = "travels" THEN 1 ELSE 0)
            <= Len(history) + (IF pc = "wait" THEN 1 ELSE 0)
      BY DEF CallInv
    <3>4. effects' + stray' + (IF waiting = "travels" THEN 1 ELSE 0)
            <= Len(history) + (IF pc = "wait" THEN 1 ELSE 0)
      BY <3>1, <3>3
    <3> QED BY <3>2, <3>4
  <2> QED
    BY <1>0, <2>3, <2>4, <2>5 DEF CallInv
<1>4. CASE Receive
  BY <1>4, TurnInv DEF Receive, Responses, Answers
<1>5. CASE Break
  BY <1>5, TurnInv DEF Break, Responses
<1>6. CASE UNCHANGED vars
  BY <1>0, <1>6, <1>a DEF vars, CallInv, TypeOK
<1> QED
  BY <1>1, <1>2, <1>3, <1>4, <1>5, <1>6 DEF Next, Returned

(* Every reachable state of a call satisfies the inductive invariant.      *)
THEOREM CallInvariant == Spec => []CallInv
BY InitInv, NextInv, PTL DEF Spec

(* The type invariant, for every number of retries and every network.      *)
THEOREM TypeCorrect == Spec => []TypeOK
<1>1. CallInv => TypeOK
  BY DEF CallInv
<1> QED BY <1>1, CallInvariant, PTL

(* A nil error comes with a response below 400.                            *)
THEOREM NilErrorAnswered == Spec => []NilErrorIsAnswered
<1>1. CallInv => NilErrorIsAnswered
  BY DEF CallInv, NilErrorIsAnswered, Finished, TypeOK
<1> QED BY <1>1, CallInvariant, PTL

(* The loop gives up after a 404 or when its requests are used up.         *)
THEOREM GivesUpAtTheEnd == Spec => []GivesUpOnlyAtTheEnd
<1>1. CallInv => GivesUpOnlyAtTheEnd
  BY RetryAssumption
     DEF CallInv, GivesUpOnlyAtTheEnd, Finished, ReturnsErr, LooksAtResponse, Limit,
         TypeOK, Calls
<1> QED BY <1>1, CallInvariant, PTL

(* A call is over with the first success, redirect or 404 it looks at.     *)
THEOREM OverAfterTheEnd == Spec => NothingAfterTheEnd
<1> DEFINE Over == Len(history) > 0 /\ history[Len(history)] \notin {"lost", "rejected"}
           Still == UNCHANGED <<pc, call, history, waiting>>
<1>1. CallInv /\ Over => pc = "returned" /\ waiting = "no"
  <2> SUFFICES ASSUME CallInv, Over PROVE pc = "returned" /\ waiting = "no"
    OBVIOUS
  <2>1. /\ call.sent = Len(history) /\ Len(history) > 0
        /\ call.resp \in Responses /\ call.resp \notin {"lost", "rejected"}
    BY DEF CallInv, TypeOK, Calls
  <2>2. Finished(call)
    BY <2>1 DEF Finished, Below400, Responses, Answers
  <2> QED
    BY <2>1, <2>2 DEF CallInv, TypeOK
<1>2. pc = "returned" /\ waiting = "no" /\ [Next]_vars => Still
  BY DEF Next, Send, Handle, HandleStray, Receive, Break, DoReturns, Returned, vars, Answers
<1>3. CallInv /\ [Next]_vars => [Over => Still]_vars
  BY <1>1, <1>2
<1> QED
  BY <1>3, CallInvariant, PTL DEF Spec, NothingAfterTheEnd

(* The work is done again only after a failure that left it unsure.        *)
THEOREM RepeatsBounded == Spec => []RepeatsNeedALoss
<1>1. CallInv => RepeatsNeedALoss
  <2> SUFFICES ASSUME CallInv PROVE RepeatsNeedALoss
    OBVIOUS
  <2>1. Cardinality(Unsure) \in Nat /\ Len(history) \in Nat
        /\ effects \in Nat /\ stray \in Nat
    BY UnsureFinite DEF CallInv, TypeOK
  <2> QED
    BY <2>1 DEF CallInv, RepeatsNeedALoss
<1> QED BY <1>1, CallInvariant, PTL

-----------------------------------------------------------------------------
(* How many steps can follow: the requests that are left take a Send, an   *)
(* answer and a Receive each, and may leave one more to the service.       *)

StepsLeft(p, w, n, s) ==
  s + CASE p = "returned" -> 0
        [] p = "sleep" -> 4 * (Limit - n)
        [] p = "wait" -> IF w = "travels" THEN 4 * (Limit - n) - 1
                                          ELSE 4 * (Limit - n) - 2

Left == StepsLeft(pc, waiting, call.sent, stray)

LEMMA LeftCases ==
  ASSUME CallInv
  PROVE  /\ stray \in Nat /\ Limit \in Nat
         /\ call.sent \in Nat /\ call.sent <= Limit
         /\ pc # "returned" => call.sent < Limit
         /\ pc = "returned" => Left = stray
         /\ pc = "sleep" => Left = stray + 4 * (Limit - call.sent)
         /\ pc = "wait" /\ waiting = "travels" => Left = stray + (4 * (Limit - call.sent) - 1)
         /\ pc = "wait" /\ waiting # "travels" => Left = stray + (4 * (Limit - call.sent) - 2)
<1>1. stray \in Nat /\ Limit \in Nat /\ call.sent \in Nat /\ call.sent <= Limit
  BY RetryAssumption DEF CallInv, TypeOK, Calls, Limit
<1>2. pc # "returned" => call.sent < Limit
  BY <1>1, RetryAssumption DEF CallInv, Finished, LooksAtResponse, Limit
<1>3. /\ pc = "returned" => Left = stray + 0
      /\ pc = "sleep" => Left = stray + 4 * (Limit - call.sent)
      /\ pc = "wait" /\ waiting = "travels" => Left = stray + (4 * (Limit - call.sent) - 1)
      /\ pc = "wait" /\ waiting # "travels" => Left = stray + (4 * (Limit - call.sent) - 2)
  BY Zenon DEF Left, StepsLeft
<1> QED
  BY <1>1, <1>2, <1>3

LEMMA LeftType == CallInv => Left \in Nat
<1> SUFFICES ASSUME CallInv PROVE Left \in Nat
  OBVIOUS
<1>1. pc \in {"sleep", "wait", "returned"}
  BY DEF CallInv, TypeOK
<1> QED
  BY <1>1, LeftCases

LEMMA NextLeft == CallInv /\ CallInv' /\ Next => Left' < Left \/ UNCHANGED vars
<1> SUFFICES ASSUME CallInv, CallInv', Next PROVE Left' < Left \/ UNCHANGED vars
  OBVIOUS
<1> DEFINE n == call.sent
<1>0. /\ stray \in Nat /\ Limit \in Nat /\ n \in Nat /\ n <= Limit
      /\ pc # "returned" => n < Limit
      /\ pc \in {"sleep", "wait", "returned"}
      /\ call'.sent \in Nat /\ stray' \in Nat
  BY LeftCases DEF CallInv, TypeOK, Calls
<1>1. /\ pc = "returned" => Left = stray
      /\ pc = "sleep" => Left = stray + 4 * (Limit - n)
      /\ pc = "wait" /\ waiting = "travels" => Left = stray + (4 * (Limit - n) - 1)
      /\ pc = "wait" /\ waiting # "travels" => Left = stray + (4 * (Limit - n) - 2)
  BY LeftCases
<1>2. /\ pc' = "returned" => Left' = stray' + 0
      /\ pc' = "sleep" => Left' = stray' + 4 * (Limit - call'.sent)
      /\ pc' = "wait" /\ waiting' = "travels" => Left' = stray' + (4 * (Limit - call'.sent) - 1)
      /\ pc' = "wait" /\ waiting' # "travels" => Left' = stray' + (4 * (Limit - call'.sent) - 2)
  BY Zenon DEF Left, StepsLeft
<1> HIDE DEF n
<1>3. CASE Send
  <2>1. pc = "sleep" /\ pc' = "wait" /\ waiting' = "travels" /\ stray' = stray
        /\ call'.sent = n
    BY <1>3 DEF Send, n
  <2> QED
    BY <1>0, <1>1, <1>2, <2>1
<1>4. ASSUME NEW a \in Answers, Handle(a) PROVE Left' < Left
  <2>1. pc = "wait" /\ pc' = "wait" /\ waiting = "travels" /\ waiting' # "travels"
        /\ stray' = stray /\ call'.sent = n
    BY <1>4 DEF Handle, CallInv, Answers, n
  <2> QED
    BY <1>0, <1>1, <1>2, <2>1
<1>5. ASSUME NEW a \in Answers, HandleStray(a) PROVE Left' < Left
  <2>1. stray' = stray - 1 /\ UNCHANGED <<pc, call, waiting>>
    BY <1>5 DEF HandleStray
  <2>2. call'.sent = n
    BY <2>1 DEF n
  <2>3. \/ pc' = "returned" /\ Left' = stray' + 0
        \/ pc' = "sleep" /\ Left' = stray' + 4 * (Limit - n)
        \/ pc' = "wait" /\ waiting' = "travels" /\ Left' = stray' + (4 * (Limit - n) - 1)
        \/ pc' = "wait" /\ waiting' # "travels" /\ Left' = stray' + (4 * (Limit - n) - 2)
    BY <1>0, <1>2, <2>1, <2>2
  <2> QED
    BY <1>0, <1>1, <2>1, <2>3
<1>6. ASSUME NEW r, DoReturns(r),
             stray' = stray \/ (waiting = "travels" /\ stray' = stray + 1)
      PROVE  Left' < Left
  <2>1. pc = "wait" /\ pc' \in {"returned", "sleep"} /\ call'.sent = n + 1 /\ n < Limit
    BY <1>0, <1>6 DEF DoReturns, Attempted, n
  <2>2. Left' <= stray' + 4 * (Limit - (n + 1))
    BY <1>0, <1>2, <2>1
  <2>3. Left >= stray' + (4 * (Limit - n) - 2)
    BY <1>0, <1>1, <1>6, <2>1
  <2>4. Left' \in Int /\ Left \in Int
    BY <1>0, <1>1, <1>2, <2>1
  <2> DEFINE x == 4 * (Limit - (n + 1))
             y == 4 * (Limit - n) - 2
             z == stray'
  <2>5. x \in Int /\ y \in Int /\ z \in Int /\ x < y /\ Left' <= z + x /\ Left >= z + y
    BY <1>0, <2>2, <2>3
  <2> HIDE DEF x, y, z
  <2> QED
    BY <2>4, <2>5
<1>7. CASE Receive
  BY <1>6, <1>7 DEF Receive
<1>8. CASE Break
  BY <1>6, <1>8 DEF Break
<1> QED
  BY <1>3, <1>4, <1>5, <1>7, <1>8 DEF Next, Returned

(***************************************************************************)
(* A call of DoAndRetry and everything it leaves in the network are over   *)
(* after at most four steps per request: each step takes one off.  Since a *)
(* call that sleeps can send and one that waits can break off, this leaves *)
(* of Returns only that those steps are taken.                             *)
(***************************************************************************)
THEOREM StepsBounded == Spec => [](Left \in 0 .. 4 * Limit) /\ [][Left' < Left]_vars
<1> DEFINE Few == Left <= 4 * Limit
<1>1. Init => Few
  <2> SUFFICES ASSUME Init PROVE Few
    OBVIOUS
  <2>1. Left = stray + 4 * (Limit - call.sent) /\ stray = 0 /\ call.sent = 0
        /\ Limit \in Nat
    BY InitInv, LeftCases DEF Init, NewCall
  <2> QED
    BY <2>1
<1>2. CallInv /\ CallInv' /\ [Next]_vars => [Left' < Left]_vars
  BY NextLeft
<1>3. CallInv /\ CallInv' /\ (Left \in Nat)' /\ Few /\ [Next]_vars => Few'
  <2> SUFFICES ASSUME CallInv, CallInv', (Left \in Nat)', Few, [Next]_vars PROVE Few'
    OBVIOUS
  <2>1. Left \in Nat /\ Left' \in Nat /\ Limit \in Nat
    BY LeftType, LeftCases
  <2>2. Left' < Left \/ Left' = Left
    BY NextLeft DEF vars, Left
  <2> QED
    BY <2>1, <2>2
<1>4. CallInv /\ Few => Left \in 0 .. 4 * Limit
  BY LeftType, LeftCases
<1> HIDE DEF Few
<1> QED
  BY <1>1, <1>2, <1>3, <1>4, LeftType, CallInvariant, PTL DEF Spec
=============================================================================
