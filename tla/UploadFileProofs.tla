-------------------------- MODULE UploadFileProofs --------------------------
(***************************************************************************)
(* Theorems about UploadFile, for every file, chunk size, concurrency,     *)
(* number of retries and set of fates.                                     *)
(***************************************************************************)
EXTENDS UploadFile, FiniteSetTheorems, TLAPS

-----------------------------------------------------------------------------
(* One call of DoAndRetry.                                                 *)

(* The types of a call, of what a request brings back and of what follows. *)
LEMMA CallTypes ==
  /\ NewCall \in Calls
  /\ \A fate \in Fates, a \in Answers : Reply(fate, a) \in Responses
  /\ \A c \in Calls, r \in Responses : Attempted(c, r) \in Calls
BY DEF NewCall, Calls, Fates, Answers, Reply, Responses, Attempted

(* A call in progress has failed so far: the first request ends it else.   *)
Failing(c) == c.sent > 0 => DoErr(c.first)

LEMMA CallProgress ==
  ASSUME NEW c \in Calls, NEW r \in Responses, Failing(c)
  PROVE  LET d == Attempted(c, r)
         IN  /\ d.resp = r
             /\ d.sent > 0
             /\ Failing(IF Finished(d) THEN NewCall ELSE d)
             /\ Finished(d) /\ ~ReturnsErr(d) => Below400(r)
<1> DEFINE d == Attempted(c, r)
<1>1. c.sent \in Nat /\ (c.sent > 0 => c.first # "ok")
  BY DEF Calls, Failing, DoErr
<1>2. /\ d.sent = c.sent + 1 /\ d.resp = r
      /\ d.first = IF c.sent = 0 THEN r ELSE c.first
  BY DEF Attempted
<1> HIDE DEF d
<1>3. r = "ok" => Below400(r)
  BY DEF Below400
<1>4. ~Finished(d) => d.first # "ok"
  BY <1>1, <1>2, <1>3 DEF Finished
<1>5. Failing(IF Finished(d) THEN NewCall ELSE d)
  BY <1>4 DEF Failing, NewCall, DoErr
<1> QED
  BY <1>1, <1>2, <1>3, <1>5 DEF ReturnsErr, DoErr, d

(* What answer a of the service comes to: what is below 400 and is not a   *)
(* redirect was handled; only a redirecting service makes a redirect; and  *)
(* without redirects and broken bodies it is the answer itself.            *)
LEMMA ReplyMeans ==
  ASSUME NEW fate \in Fates, NEW a \in {"ok", "notfound", "rejected"}
  PROVE  /\ Below400(Reply(fate, a)) /\ Reply(fate, a) # "redirect"
              => Handled(fate) /\ a = "ok"
         /\ fate # "redirected" => Reply(fate, a) # "redirect"
         /\ fate \notin {"garbled", "redirected"} /\ Below400(Reply(fate, a))
              => Reply(fate, a) = "ok"
<1>1. CASE fate = "answered"
  <2>1. Reply(fate, a) = a
    BY <1>1 DEF Reply
  <2> QED BY <1>1, <2>1 DEF Below400, Handled
<1>2. CASE fate = "garbled"
  <2>1. Reply(fate, a) = IF a = "ok" THEN "garbled" ELSE a
    BY <1>2, Zenon DEF Reply
  <2> QED BY <1>2, <2>1 DEF Below400, Handled
<1>3. CASE fate = "refused"
  <2>1. Reply(fate, a) = "rejected"
    BY <1>3, Zenon DEF Reply
  <2> QED BY <1>3, <2>1 DEF Below400
<1>4. CASE fate \in {"unanswered", "unsent"}
  <2>1. Reply(fate, a) = "lost"
    BY <1>4, Zenon DEF Reply
  <2> QED BY <1>4, <2>1 DEF Below400
<1>5. CASE fate = "redirected"
  <2>1. Reply(fate, a) = "redirect"
    BY <1>5, Zenon DEF Reply
  <2> QED BY <1>5, <2>1 DEF Below400
<1> QED
  BY <1>1, <1>2, <1>3, <1>4, <1>5 DEF Fates

-----------------------------------------------------------------------------
(* The parts cover the file.                                               *)

(* Num, the rounded-up quotient, is the number of chunks of the file.      *)
LEMMA NumIsCeil ==
  /\ Num \in Nat
  /\ ChunkSize * Num >= Size
  /\ Num > 0 => ChunkSize * (Num - 1) < Size
  /\ Size > 0 => Num > 0
<1> DEFINE a == Size + ChunkSize - 1
<1>1. Size \in Nat /\ ChunkSize \in Nat \ {0} /\ a \in Nat
  BY UploadFileAssumption
<1>2. Num = a \div ChunkSize
  BY DEF Num
<1>3. Num \in Int /\ ChunkSize * Num <= a /\ a < ChunkSize * (Num + 1)
  BY <1>1, <1>2, SMT
<1> HIDE DEF Num
<1>4. Num >= 0
  BY <1>1, <1>3, SMT
<1>5. /\ ChunkSize * (Num + 1) = ChunkSize * Num + ChunkSize
      /\ ChunkSize * (Num - 1) = ChunkSize * Num - ChunkSize
  BY <1>1, <1>3, SMT
<1> QED
  BY <1>1, <1>3, <1>4, <1>5, SMT

(* Every part begins inside the file; a part that is not the last ends     *)
(* where the next one begins, and the last one where the file ends.        *)
LEMMA PartRange ==
  ASSUME NEW i \in Parts
  PROVE  /\ Chunk(i).off = ChunkSize * (i - 1)
         /\ Chunk(i).off \in Nat
         /\ Chunk(i).off < Size
         /\ Chunk(i).len \in Int
         /\ i < Num => Chunk(i).off + Chunk(i).len = ChunkSize * i
         /\ i = Num => Chunk(i).off + Chunk(i).len = Size
         /\ Chunk(i) # NoPart
         /\ PrevChunkSize = ChunkSize => Leftover(i) = Chunk(i)
<1> DEFINE off == ChunkSize * (i - 1)
<1>1. Size \in Nat /\ ChunkSize \in Nat \ {0} /\ Num \in Nat /\ i \in Nat
      /\ 1 <= i /\ i <= Num
  BY NumIsCeil, UploadFileAssumption DEF Parts
<1>2. off \in Nat /\ off + ChunkSize = ChunkSize * i
  BY <1>1, SMT
<1>3. ChunkSize * (Num - 1) < Size /\ ChunkSize * Num >= Size
  BY <1>1, NumIsCeil
<1>4. off <= ChunkSize * (Num - 1)
  BY <1>1, SMT
<1>5. i < Num => ChunkSize * i <= ChunkSize * (Num - 1)
  BY <1>1, SMT
<1>6. Chunk(i) = [off |-> off,
                  len |-> IF off + ChunkSize > Size THEN Size - off ELSE ChunkSize]
  BY DEF Chunk
<1>7. off < Size
  BY <1>1, <1>2, <1>3, <1>4
<1>8. i = Num => off + ChunkSize >= Size
  BY <1>1, <1>2, <1>3
<1> HIDE DEF off
<1>9. /\ Chunk(i).off = off
      /\ Chunk(i).len = IF off + ChunkSize > Size THEN Size - off ELSE ChunkSize
  BY <1>6
<1>10. Chunk(i) # NoPart
  BY <1>2, <1>9 DEF NoPart
<1>11. PrevChunkSize = ChunkSize => Leftover(i) = Chunk(i)
  BY <1>1, <1>2, <1>6, <1>7 DEF Leftover, off
<1> QED
  BY <1>1, <1>2, <1>3, <1>5, <1>7, <1>8, <1>9, <1>10, <1>11 DEF off

FileParts == [i \in Parts |-> Chunk(i)]

(* The chunks in order are the file, and so is the file in one piece.      *)
LEMMA FileIsFile ==
  /\ Num > 0 => IsFile(FileParts) /\ FileParts # NoObject
  /\ IsFile(WholeFile) /\ WholeFile # NoObject
<1>1. Size \in Nat /\ ChunkSize \in Nat \ {0} /\ Num \in Nat
  BY NumIsCeil, UploadFileAssumption
<1>2. ASSUME Num > 0 PROVE IsFile(FileParts) /\ FileParts # NoObject
  <2>1. DOMAIN FileParts = 1 .. Num
    BY DEF FileParts, Parts
  <2>2. \A i \in 1 .. Num : FileParts[i] = Chunk(i)
    BY DEF FileParts, Parts
  <2>3. ASSUME NEW i \in 1 .. Num
        PROVE  FileParts[i].off =
                 IF i = 1 THEN 0 ELSE FileParts[i-1].off + FileParts[i-1].len
    <3>1. CASE i = 1
      BY <1>1, <2>2, <3>1, PartRange DEF Parts
    <3>2. CASE i # 1
      <4>1. i - 1 \in Parts /\ i \in Parts /\ i - 1 < Num
        BY <1>1, <3>2 DEF Parts
      <4>2. Chunk(i-1).off + Chunk(i-1).len = ChunkSize * (i - 1)
        BY <4>1, PartRange
      <4>3. Chunk(i).off = ChunkSize * (i - 1)
        BY <4>1, PartRange
      <4> QED
        BY <2>2, <3>2, <4>1, <4>2, <4>3 DEF Parts
    <3> QED BY <3>1, <3>2
  <2>4. Num \in 1 .. Num /\ Num + 1 \notin 1 .. Num
    BY <1>1, <1>2
  <2>5. FileParts[Num].off + FileParts[Num].len = Size
    BY <2>2, <2>4, PartRange DEF Parts
  <2>6. FileParts # NoObject
    BY <2>1, <2>4 DEF NoObject
  <2> QED
    BY <2>1, <2>3, <2>4, <2>5, <2>6 DEF IsFile
<1>3. IsFile(WholeFile)
  <2>1. DOMAIN WholeFile = {1} /\ WholeFile[1] = [off |-> 0, len |-> Size]
    BY DEF WholeFile
  <2>2. WholeFile[1].off = 0 /\ WholeFile[1].len = Size
    BY <2>1
  <2> QED
    BY <1>1, <2>1, <2>2 DEF IsFile
<1>4. WholeFile # NoObject
  <2>1. DOMAIN WholeFile = {1} /\ DOMAIN NoObject = {}
    BY DEF WholeFile, NoObject
  <2> QED BY <2>1
<1> QED BY <1>2, <1>3, <1>4

-----------------------------------------------------------------------------
(* With a PUT, DoAndRetry's caller sorts out the redirects.                *)
LEMMA PutMeansHandled ==
  ASSUME call \in [Actors -> Calls], \A b \in Actors : Failing(call[b]),
         NEW a \in Actors, NEW fate \in Fates,
         Finished(After(a, fate, "ok")), ~PutReturnsErr(After(a, fate, "ok"))
  PROVE  Handled(fate)
<1>1. Reply(fate, "ok") \in Responses /\ call[a] \in Calls
  BY CallTypes DEF Answers
<1>2. After(a, fate, "ok").resp = Reply(fate, "ok")
  BY DEF After, Attempted
<1>3. ~ReturnsErr(After(a, fate, "ok")) /\ Reply(fate, "ok") # "redirect"
  BY <1>2 DEF PutReturnsErr
<1>4. Below400(Reply(fate, "ok"))
  BY <1>1, <1>3, CallProgress DEF After
<1> QED
  BY <1>3, <1>4, ReplyMeans

-----------------------------------------------------------------------------
(* Type correctness.                                                       *)

LEMMA PieceTypes ==
  /\ NoPart \in Pieces
  /\ \A i \in Parts : Chunk(i) \in Pieces /\ Leftover(i) \in Pieces
BY DEF Pieces

(* A listing has the parts of the first page, or some of them, or is as it *)
(* was.                                                                    *)
LEMMA ListingCases ==
  ASSUME NEW got, NEW l \in ListingOf(got)
  PROVE  \/ l = listing
         \/ \E given \in SUBSET Parts :
              l = [i \in Parts |-> IF i \in given THEN FirstPage[i] ELSE NoPart]
<1>1. FirstPage = [i \in Parts |-> IF i \in Parts THEN FirstPage[i] ELSE NoPart]
  BY DEF FirstPage
<1>2. CASE got = "all"
  BY <1>1, <1>2 DEF ListingOf
<1>3. CASE got = "some"
  <2>1. PICK n \in Parts :
          l = [i \in Parts |-> IF i < n THEN FirstPage[i] ELSE NoPart]
    BY <1>3, Zenon DEF ListingOf
  <2>2. l = [i \in Parts |-> IF i \in {j \in Parts : j < n}
                             THEN FirstPage[i] ELSE NoPart]
    BY <2>1
  <2> QED BY <2>2
<1>4. CASE got \notin {"all", "some"}
  BY <1>4, Zenon DEF ListingOf
<1> QED BY <1>2, <1>3, <1>4

(* What a request of actor a leaves of its call has its type.              *)
LEMMA KeepType ==
  ASSUME call \in [Actors -> Calls], NEW a \in Actors, NEW fate \in Fates,
         NEW ans \in Answers, Keep(a, After(a, fate, ans))
  PROVE  /\ call' \in [Actors -> Calls]
         /\ After(a, fate, ans) \in Calls
<1>1. Reply(fate, ans) \in Responses
  BY CallTypes
<1>2. After(a, fate, ans) \in Calls
  BY <1>1, CallTypes DEF After
<1> QED
  BY <1>2, CallTypes DEF Keep

LEMMA ActorTypes == 0 \in Actors /\ Parts \subseteq Actors
BY NumIsCeil DEF Actors, Parts

LEMMA InitTypes == Init => TypeOK
<1> SUFFICES ASSUME Init PROVE TypeOK
  OBVIOUS
<1>1. Empty \in [Parts -> Pieces]
  BY PieceTypes DEF Empty
<1>2. stored \in [Parts -> Pieces]
  BY <1>1, PieceTypes DEF Init
<1>3. call \in [Actors -> Calls]
  BY CallTypes DEF Init
<1> QED
  BY <1>1, <1>2, <1>3 DEF Init, TypeOK

LEMMA NextTypes == TypeOK /\ [Next]_vars => TypeOK'
<1> SUFFICES ASSUME TypeOK, [Next]_vars PROVE TypeOK'
  OBVIOUS
<1> USE DEF TypeOK, outcome, handle, service
<1>0. NetFates \subseteq Fates /\ 0 \in Actors /\ Parts \subseteq Actors
  BY UploadFileAssumption, ActorTypes
<1>1. CASE Begin
  BY <1>1 DEF Begin
<1>2. ASSUME NEW w \in Parts, SendToken(w) PROVE TypeOK'
  BY <1>2 DEF SendToken, Step
<1>3. CASE Wait
  BY <1>3 DEF Wait, LeaveFailed
<1>4. ASSUME NEW fate \in NetFates, PutObject(fate) PROVE TypeOK'
  <2>1. call' \in [Actors -> Calls] /\ After(0, fate, "ok") \in Calls
    BY <1>0, <1>4, KeepType DEF PutObject, Answers
  <2> QED
    BY <1>4, <2>1 DEF PutObject, PutReturnsErr, ReturnsErr
<1>5. ASSUME NEW fate \in NetFates, Initiate(fate) PROVE TypeOK'
  <2>1. call' \in [Actors -> Calls]
    BY <1>0, <1>5, KeepType DEF Initiate, Answers
  <2>2. /\ main' \in {"initiate", "returned", "tokens"}
        /\ worker' \in [Parts -> {"unborn", "wait", "begin", "send", "done",
                                   "pass", "gone"}]
    BY <1>5 DEF Initiate, StartWorkers
  <2>3. err' \in BOOLEAN
    BY <1>5 DEF Initiate, StartWorkers
  <2>4. upload' \in BOOLEAN
    BY <1>5 DEF Initiate
  <2>5. mpu' \in {"none", "open", "aborted", "completed"} /\ orphans' \in Nat
    BY <1>5 DEF Initiate
  <2> QED
    BY <1>5, <2>1, <2>2, <2>3, <2>4, <2>5 DEF Initiate
<1>6. ASSUME NEW fate \in NetFates, ListParts(fate) PROVE TypeOK'
  <2>1. call' \in [Actors -> Calls]
    BY <1>0, <1>6, KeepType DEF ListParts, Answers, IfOpen
  <2>2. FirstPage \in [Parts -> Pieces]
    BY PieceTypes DEF FirstPage
  <2>3. listed' \in BOOLEAN /\ \E got : listing' \in ListingOf(got)
    BY <1>6 DEF ListParts
  <2>4. listing' \in [Parts -> Pieces]
    BY <2>2, <2>3, PieceTypes, ListingCases
  <2> QED
    BY <1>6, <2>1, <2>3, <2>4 DEF ListParts, StartWorkers
<1>7. ASSUME NEW fate \in NetFates, Complete(fate) PROVE TypeOK'
  <2>1. call' \in [Actors -> Calls]
    BY <1>0, <1>7, KeepType DEF Complete, Answers, IfOpen
  <2> QED
    BY <1>7, <2>1 DEF Complete, LeaveFailed
<1>8. ASSUME NEW fate \in NetFates, Abort(fate) PROVE TypeOK'
  <2>1. call' \in [Actors -> Calls]
    BY <1>0, <1>8, KeepType DEF Abort, Answers, IfOpen
  <2> QED
    BY <1>8, <2>1 DEF Abort
<1>9. ASSUME NEW w \in Parts, Reuse(w) PROVE TypeOK'
  BY <1>9 DEF Reuse, Step
<1>10. ASSUME NEW w \in Parts, Open(w) PROVE TypeOK'
  <2>1. /\ worker' = [worker EXCEPT ![w] = "send"] \/ worker' = [worker EXCEPT ![w] = "done"]
        /\ ok' = ok \/ ok' = FALSE
        /\ UNCHANGED <<main, sent, call, err, handle, parts, service>>
    BY <1>10 DEF Open, Step
  <2>2. /\ worker' \in [Parts -> {"unborn", "wait", "begin", "send", "done", "pass", "gone"}]
        /\ ok' \in BOOLEAN
    BY <2>1
  <2> QED
    BY <2>1, <2>2
<1>11. ASSUME NEW w \in Parts, NilResult(w) PROVE TypeOK'
  BY <1>11 DEF NilResult
<1>12. ASSUME NEW w \in Parts, NEW fate \in NetFates, SendPart(w, fate)
       PROVE  TypeOK'
  <2>1. call' \in [Actors -> Calls]
    BY <1>0, <1>12, KeepType DEF SendPart, Answers, IfOpen
  <2> QED
    BY <1>12, <2>1, PieceTypes DEF SendPart
<1>13. ASSUME NEW w \in Parts, WgDone(w) PROVE TypeOK'
  BY <1>13 DEF WgDone, Step, AfterDone
<1>14. ASSUME NEW v \in Parts, NEW w \in Parts, PassToken(v, w) PROVE TypeOK'
  BY <1>14 DEF PassToken
<1>15. CASE UNCHANGED vars
  BY <1>15 DEF vars
<1> QED
  BY <1>1, <1>2, <1>3, <1>4, <1>5, <1>6, <1>7, <1>8, <1>9, <1>10, <1>11, <1>12,
     <1>13, <1>14, <1>15
     DEF Next, Caller, CallerRequest, Worker, Finish

(* The variables of UploadFile keep their types.                           *)
THEOREM TypeCorrect == Spec => []TypeOK
BY InitTypes, NextTypes, PTL DEF Spec

-----------------------------------------------------------------------------
(* Tokens.  The bound on the goroutines at work is not inductive: that the *)
(* tokens held are the tokens sent, and that these are counted, is.        *)

Early == {"start", "putobject", "initiate", "listparts"}

TokenInv ==
  /\ TokensKept
  /\ sent <= (IF Tokens > 0 THEN Tokens ELSE 0)
  /\ main \in Early => \A w \in Parts : worker[w] = "unborn"

HoldingStates == {"begin", "send", "done", "pass"}

LEMMA HoldingFinite ==
  /\ IsFiniteSet(Parts)
  /\ IsFiniteSet(Holding) /\ Cardinality(Holding) \in Nat
<1>1. IsFiniteSet(Parts)
  BY NumIsCeil, FS_Interval DEF Parts
<1>2. Holding \subseteq Parts
  BY DEF Holding
<1> QED
  BY <1>1, <1>2, FS_Subset, FS_CardinalityType

(* A step that does not change who holds a token.                          *)
LEMMA SameHolders ==
  ASSUME TokenInv, sent' = sent,
         \A w \in Parts :
           worker'[w] \in HoldingStates <=> worker[w] \in HoldingStates
  PROVE  TokensKept' /\ (sent <= (IF Tokens > 0 THEN Tokens ELSE 0))'
<1>1. Holding' = Holding
  BY DEF Holding, HoldingStates
<1> QED
  BY <1>1 DEF TokenInv, TokensKept

LEMMA InitTokens == Init => TokenInv
<1> SUFFICES ASSUME Init PROVE TokenInv
  OBVIOUS
<1>1. Holding = {}
  BY DEF Init, Holding
<1>2. Tokens \in Int
  BY UploadFileAssumption, NumIsCeil DEF Tokens
<1> QED
  BY <1>1, <1>2, FS_EmptySet DEF Init, TokenInv, TokensKept

LEMMA NextTokens == TypeOK /\ TokenInv /\ [Next]_vars => TokenInv'
<1> SUFFICES ASSUME TypeOK, TokenInv, [Next]_vars PROVE TokenInv'
  OBVIOUS
<1> USE DEF HoldingStates
<1>0. Tokens \in Int /\ sent \in Nat
  BY UploadFileAssumption, NumIsCeil DEF Tokens, TypeOK
<1>a. ASSUME UNCHANGED <<worker, sent>>, main' \in Early => main \in Early
      PROVE  TokenInv'
  BY <1>a, SameHolders DEF TokenInv
<1>b. ASSUME StartWorkers, sent' = sent, main \in Early PROVE TokenInv'
  <2>1. \A w \in Parts : worker[w] = "unborn" /\ worker'[w] = "wait"
    BY <1>b DEF TokenInv, StartWorkers
  <2> QED
    BY <1>b, <2>1, SameHolders DEF TokenInv, StartWorkers, Early
<1>1. CASE Begin
  BY <1>1, <1>a DEF Begin, Early
<1>2. ASSUME NEW w \in Parts, SendToken(w) PROVE TokenInv'
  <2>1. w \notin Holding /\ Holding' = Holding \cup {w}
    BY <1>2 DEF SendToken, Step, Holding, TypeOK
  <2>2. Cardinality(Holding') = Cardinality(Holding) + 1
    BY <2>1, HoldingFinite, FS_AddElement
  <2>3. main' \notin Early
    BY <1>2 DEF SendToken, Early
  <2> QED
    BY <1>0, <1>2, <2>2, <2>3 DEF SendToken, TokenInv, TokensKept
<1>3. CASE Wait
  BY <1>3, <1>a DEF Wait, LeaveFailed, Early
<1>4. ASSUME NEW fate \in NetFates, PutObject(fate) PROVE TokenInv'
  BY <1>4, <1>a DEF PutObject, Early
<1>5. ASSUME NEW fate \in NetFates, Initiate(fate) PROVE TokenInv'
  BY <1>5, <1>a, <1>b DEF Initiate, Early
<1>6. ASSUME NEW fate \in NetFates, ListParts(fate) PROVE TokenInv'
  BY <1>6, <1>a, <1>b DEF ListParts, Early
<1>7. ASSUME NEW fate \in NetFates, Complete(fate) PROVE TokenInv'
  BY <1>7, <1>a DEF Complete, LeaveFailed, Early
<1>8. ASSUME NEW fate \in NetFates, Abort(fate) PROVE TokenInv'
  BY <1>8, <1>a DEF Abort, Early
<1>c. ASSUME NEW w \in Parts, worker[w] # "unborn" PROVE main \notin Early
  BY <1>c DEF TokenInv
<1>d. ASSUME NEW w \in Parts, NEW from \in HoldingStates, NEW to \in HoldingStates,
             Step(w, from, to), UNCHANGED <<main, sent>>
      PROVE  TokenInv'
  <2>1. \A x \in Parts :
          worker'[x] \in HoldingStates <=> worker[x] \in HoldingStates
    BY <1>d DEF Step, TypeOK
  <2>2. main' \notin Early
    BY <1>c, <1>d DEF Step
  <2> QED
    BY <1>d, <2>1, <2>2, SameHolders DEF TokenInv
<1>9. ASSUME NEW w \in Parts, Reuse(w) PROVE TokenInv'
  BY <1>9, <1>d DEF Reuse
<1>10. ASSUME NEW w \in Parts, Open(w) PROVE TokenInv'
  BY <1>10, <1>d DEF Open
<1>11. ASSUME NEW w \in Parts, NilResult(w) PROVE TokenInv'
  BY <1>11, <1>a DEF NilResult, Early
<1>12. ASSUME NEW w \in Parts, NEW fate \in NetFates, SendPart(w, fate)
       PROVE  TokenInv'
  <2>1. \A x \in Parts :
          worker'[x] \in HoldingStates <=> worker[x] \in HoldingStates
    BY <1>12 DEF SendPart, TypeOK
  <2>2. main' \notin Early
    BY <1>12, <1>c DEF SendPart
  <2> QED
    BY <1>12, <2>1, <2>2, SameHolders DEF SendPart, TokenInv
<1>13. ASSUME NEW w \in Parts, WgDone(w) PROVE TokenInv'
  BY <1>13, <1>d DEF WgDone, AfterDone
<1>14. ASSUME NEW v \in Parts, NEW w \in Parts, PassToken(v, w) PROVE TokenInv'
  <2>1. v # w /\ v \in Holding /\ w \notin Holding
    BY <1>14 DEF PassToken, Holding
  <2>2. Holding' = (Holding \ {v}) \cup {w}
    BY <1>14, <2>1 DEF PassToken, Holding, TypeOK
  <2>3. /\ IsFiniteSet(Holding \ {v})
        /\ Cardinality(Holding \ {v}) = Cardinality(Holding) - 1
    BY <2>1, HoldingFinite, FS_RemoveElement
  <2>4. Cardinality(Holding') = Cardinality(Holding) - 1 + 1
    BY <2>1, <2>2, <2>3, FS_AddElement
  <2>5. Cardinality(Holding') = Cardinality(Holding)
    BY <2>4, HoldingFinite
  <2>6. main' \notin Early
    BY <1>14, <1>c DEF PassToken
  <2> QED
    BY <1>14, <2>5, <2>6 DEF PassToken, TokenInv, TokensKept
<1>15. CASE UNCHANGED vars
  BY <1>15, <1>a DEF vars
<1> QED
  BY <1>1, <1>2, <1>3, <1>4, <1>5, <1>6, <1>7, <1>8, <1>9, <1>10, <1>11, <1>12,
     <1>13, <1>14, <1>15
     DEF Next, Caller, CallerRequest, Worker, Finish

(* No more goroutines upload at a time than there are tokens.              *)
THEOREM ConcurrencyBound == Spec => []AtMostConcurrency
<1>1. TypeOK /\ TokenInv => AtMostConcurrency
  <2> SUFFICES ASSUME TypeOK, TokenInv PROVE AtMostConcurrency
    OBVIOUS
  <2> DEFINE Working == {w \in Parts : worker[w] \in {"begin", "send"}}
  <2>1. Working \subseteq Holding
    BY DEF Holding
  <2>2. Cardinality(Working) <= Cardinality(Holding) /\ Cardinality(Working) \in Nat
    BY <2>1, HoldingFinite, FS_Subset, FS_CardinalityType
  <2>3. Cardinality(Holding) <= (IF Tokens > 0 THEN Tokens ELSE 0)
    BY DEF TokenInv, TokensKept
  <2>4. (IF Tokens > 0 THEN Tokens ELSE 0)
          <= (IF Concurrency > 0 THEN Concurrency ELSE 0)
    BY UploadFileAssumption, NumIsCeil DEF Tokens
  <2>5. Tokens \in Int /\ Concurrency \in Int /\ Cardinality(Holding) \in Nat
    BY UploadFileAssumption, NumIsCeil, HoldingFinite DEF Tokens
  <2> HIDE DEF Working
  <2>6. Cardinality(Working) <= (IF Concurrency > 0 THEN Concurrency ELSE 0)
    BY <2>2, <2>3, <2>4, <2>5
  <2> QED
    BY <2>6 DEF AtMostConcurrency, Working
<1> QED
  BY <1>1, InitTypes, NextTypes, InitTokens, NextTokens, PTL DEF Spec

-----------------------------------------------------------------------------
(* Where UploadFile can get stuck.  While tokens are sent every goroutine  *)
(* has been created, and none is gone before a token was sent.             *)

StartInv ==
  /\ main = "tokens" => \A w \in Parts : worker[w] # "unborn"
  /\ \A w \in Parts : worker[w] = "gone" => sent > 0

LEMMA InitStart == Init => StartInv
BY DEF Init, StartInv

LEMMA NextStart == TypeOK /\ TokenInv /\ StartInv /\ [Next]_vars => StartInv'
<1> SUFFICES ASSUME TypeOK, TokenInv, StartInv, [Next]_vars PROVE StartInv'
  OBVIOUS
<1>a. ASSUME UNCHANGED <<worker, sent>>, main' = "tokens" => main = "tokens"
      PROVE  StartInv'
  BY <1>a DEF StartInv
<1>b. ASSUME StartWorkers, sent' = sent PROVE StartInv'
  BY <1>b DEF StartInv, StartWorkers
<1>c. ASSUME NEW w \in Parts, NEW from, NEW to, Step(w, from, to), sent' = sent,
             main' = main, to \notin {"unborn", "gone"}
      PROVE  StartInv'
  BY <1>c DEF StartInv, Step, TypeOK
<1>1. CASE Begin
  BY <1>1, <1>a DEF Begin
<1>2. ASSUME NEW w \in Parts, SendToken(w) PROVE StartInv'
  BY <1>2 DEF SendToken, Step, StartInv, TypeOK
<1>3. CASE Wait
  BY <1>3, <1>a DEF Wait, LeaveFailed
<1>4. ASSUME NEW fate \in NetFates, CallerRequest(fate) PROVE StartInv'
  BY <1>4, <1>a, <1>b
     DEF CallerRequest, PutObject, Initiate, ListParts, Complete, Abort, LeaveFailed
<1>5. ASSUME NEW w \in Parts, Reuse(w) \/ Open(w) \/ WgDone(w) PROVE StartInv'
  BY <1>5, <1>c DEF Reuse, Open, WgDone, AfterDone
<1>6. ASSUME NEW w \in Parts, NilResult(w) PROVE StartInv'
  BY <1>6, <1>a DEF NilResult
<1>7. ASSUME NEW w \in Parts, NEW fate \in NetFates, SendPart(w, fate)
      PROVE  StartInv'
  BY <1>7 DEF SendPart, StartInv, TypeOK
<1>8. ASSUME NEW v \in Parts, NEW w \in Parts, PassToken(v, w) PROVE StartInv'
  <2>1. Holding # {}
    BY <1>8 DEF PassToken, Holding
  <2>2. sent > 0
    BY <2>1, HoldingFinite, FS_EmptySet DEF TokenInv, TokensKept, TypeOK
  <2> QED
    BY <1>8, <2>2 DEF PassToken, StartInv, TypeOK
<1>9. CASE UNCHANGED vars
  BY <1>9, <1>a DEF vars
<1> QED
  BY <1>1, <1>2, <1>3, <1>4, <1>5, <1>6, <1>7, <1>8, <1>9
     DEF Next, Caller, Worker, Finish

(* When nobody can go on, the caller has tokens left and every goroutine   *)
(* is done: were one still waiting, all tokens would be sent, and one that *)
(* has a token could go on or pass it.                                     *)
LEMMA StuckAtTheTokens ==
  ASSUME TypeOK, TokenInv, StartInv, Concurrency > 0 PROVE StuckOnlyWhenDone
<1> SUFFICES ASSUME ~Over, ~SomeoneCanAct
             PROVE  main = "tokens" /\ sent < Tokens /\ WgIsZero
  BY DEF StuckOnlyWhenDone
<1>1. main = "tokens"
  BY DEF TypeOK, Over, SomeoneCanAct
<1>2. \A w \in Parts : worker[w] \in {"wait", "pass", "gone"}
  BY <1>1 DEF TypeOK, StartInv, SomeoneCanAct
<1>3. ASSUME NEW w \in Parts, worker[w] = "wait" PROVE FALSE
  <2>1. Tokens \in Nat \ {0} /\ sent \in Nat /\ ~(sent < Tokens)
    BY <1>1, <1>3, UploadFileAssumption, NumIsCeil DEF Tokens, Parts, TypeOK, SomeoneCanAct
  <2>2. Holding # {}
    BY <2>1, HoldingFinite, FS_EmptySet DEF TokenInv, TokensKept
  <2>3. PICK v \in Parts : worker[v] \in {"begin", "send", "done", "pass"}
    BY <2>2 DEF Holding
  <2> QED
    BY <1>3, <2>3 DEF SomeoneCanAct
<1>4. WgIsZero
  BY <1>2, <1>3 DEF WgIsZero
<1>5. sent \in Nat /\ Tokens \in Int
  BY UploadFileAssumption, NumIsCeil DEF Tokens, TypeOK
<1> QED
  BY <1>1, <1>4, <1>5 DEF SomeoneCanAct

(* The loop that sends the tokens is the only place where UploadFile can   *)
(* stop for ever, and when it does no part is left to send.                *)
THEOREM StuckOnlyAtTheTokens ==
  ASSUME Concurrency > 0 PROVE Spec => []StuckOnlyWhenDone
BY InitTypes, NextTypes, InitTokens, NextTokens, InitStart, NextStart,
   StuckAtTheTokens, PTL DEF Spec

-----------------------------------------------------------------------------
(* The phases of the upload: what the goroutines have done when the caller *)
(* is past its wait.                                                       *)

Settled == {"done", "pass", "gone"}

PhaseInv ==
  /\ \A a \in Actors : Failing(call[a])
  /\ main \in {"initiate", "listparts", "tokens", "complete"} => Size > ChunkSize
  /\ main \in {"complete", "abort"} =>
       \A w \in Parts : worker[w] \in {"pass", "gone"}
  /\ main = "returned" =>
       \A w \in Parts : worker[w] \in {"unborn", "pass", "gone"}
  /\ main = "complete" => ok
  /\ main = "abort" => err
  /\ main \in {"start", "putobject"} => ~upload
  /\ main \notin {"abort", "returned", "panicked"} => ~err
  /\ ok => \A w \in Parts : worker[w] \in Settled => parts[w] # NoPart

LEMMA InitPhases == Init => PhaseInv
BY DEF Init, PhaseInv, Failing, NewCall, Settled

(* A request keeps every call either fresh or failing so far.              *)
LEMMA KeepFailing ==
  ASSUME call \in [Actors -> Calls], \A a \in Actors : Failing(call[a]),
         NEW a \in Actors, NEW fate \in Fates, NEW ans \in Answers,
         Keep(a, After(a, fate, ans))
  PROVE  /\ \A b \in Actors : Failing(call'[b])
         /\ Finished(After(a, fate, ans)) /\ ~ReturnsErr(After(a, fate, ans))
              => Below400(Reply(fate, ans))
<1>1. Reply(fate, ans) \in Responses /\ call[a] \in Calls
  BY CallTypes
<1> DEFINE d == After(a, fate, ans)
<1>2. /\ Failing(IF Finished(d) THEN NewCall ELSE d)
      /\ Finished(d) /\ ~ReturnsErr(d) => Below400(Reply(fate, ans))
  BY <1>1, CallProgress DEF After
<1> HIDE DEF d
<1>3. call' = [call EXCEPT ![a] = IF Finished(d) THEN NewCall ELSE d]
  BY DEF Keep, d
<1>4. \A b \in Actors : Failing(call'[b])
  BY <1>2, <1>3
<1> QED
  BY <1>2, <1>4 DEF d

LEMMA NextPhases ==
  TypeOK /\ TokenInv /\ PhaseInv /\ [Next]_vars => PhaseInv'
<1> SUFFICES ASSUME TypeOK, TokenInv, PhaseInv, [Next]_vars PROVE PhaseInv'
  OBVIOUS
<1> USE DEF Settled, outcome, handle, service
<1>0. /\ NetFates \subseteq Fates /\ 0 \in Actors /\ Parts \subseteq Actors
      /\ Size \in Nat /\ ChunkSize \in Nat
      /\ call \in [Actors -> Calls] /\ \A a \in Actors : Failing(call[a])
      /\ "ok" \in Answers /\ IfOpen("ok") \in Answers
  BY UploadFileAssumption, ActorTypes DEF TypeOK, PhaseInv, Answers, IfOpen
<1>1. CASE Begin
  <2>1. upload' = (Size > ChunkSize /\ Resuming)
        /\ (main' = "putobject" => ~(Size > ChunkSize))
    BY <1>0, <1>1 DEF Begin
  <2>2. main' \in {"start", "putobject"} => ~upload'
    BY <1>1, <2>1 DEF Begin
  <2> QED
    BY <1>0, <1>1, <2>2 DEF Begin, TokenInv, Early, PhaseInv
<1>2. ASSUME NEW w \in Parts, SendToken(w) PROVE PhaseInv'
  BY <1>2 DEF SendToken, Step, PhaseInv, TypeOK
<1>3. CASE Wait
  BY <1>3 DEF Wait, WgIsZero, LeaveFailed, PhaseInv
<1>4. ASSUME NEW fate \in NetFates, PutObject(fate) PROVE PhaseInv'
  <2>1. \A a \in Actors : Failing(call'[a])
    BY <1>0, <1>4, KeepFailing DEF PutObject
  <2> QED
    BY <1>4, <2>1 DEF PutObject, TokenInv, Early, PhaseInv
<1>5. ASSUME NEW fate \in NetFates, Initiate(fate) PROVE PhaseInv'
  <2>1. \A a \in Actors : Failing(call'[a])
    BY <1>0, <1>5, KeepFailing DEF Initiate
  <2> QED
    BY <1>5, <2>1 DEF Initiate, StartWorkers, TokenInv, Early, PhaseInv
<1>6. ASSUME NEW fate \in NetFates, ListParts(fate) PROVE PhaseInv'
  <2>1. \A a \in Actors : Failing(call'[a])
    BY <1>0, <1>6, KeepFailing DEF ListParts
  <2> QED
    BY <1>6, <2>1 DEF ListParts, StartWorkers, TokenInv, Early, PhaseInv
<1>7. ASSUME NEW fate \in NetFates, Complete(fate) PROVE PhaseInv'
  <2>1. \A a \in Actors : Failing(call'[a])
    BY <1>0, <1>7, KeepFailing DEF Complete, Answers, IfOpen
  <2> QED
    BY <1>7, <2>1 DEF Complete, LeaveFailed, PhaseInv
<1>8. ASSUME NEW fate \in NetFates, Abort(fate) PROVE PhaseInv'
  <2>1. \A a \in Actors : Failing(call'[a])
    BY <1>0, <1>8, KeepFailing DEF Abort
  <2> QED
    BY <1>8, <2>1 DEF Abort, PhaseInv
<1>9. ASSUME NEW w \in Parts, Reuse(w) PROVE PhaseInv'
  BY <1>9 DEF Reuse, Step, PhaseInv, TypeOK
<1>10. ASSUME NEW w \in Parts, Open(w) PROVE PhaseInv'
  BY <1>10 DEF Open, Step, PhaseInv, TypeOK
<1>11. ASSUME NEW w \in Parts, NilResult(w) PROVE PhaseInv'
  BY <1>11 DEF NilResult, PhaseInv
<1>12. ASSUME NEW w \in Parts, NEW fate \in NetFates, SendPart(w, fate)
       PROVE  PhaseInv'
  <2>1. \A a \in Actors : Failing(call'[a])
    BY <1>0, <1>12, KeepFailing DEF SendPart
  <2>2. main \notin {"complete", "abort", "returned"}
    BY <1>12 DEF SendPart, PhaseInv
  <2>3. Chunk(w) # NoPart
    BY PartRange
  <2> QED
    BY <1>12, <2>1, <2>2, <2>3 DEF SendPart, PhaseInv, TypeOK
<1>13. ASSUME NEW w \in Parts, WgDone(w) PROVE PhaseInv'
  BY <1>13 DEF WgDone, Step, AfterDone, PhaseInv, TypeOK
<1>14. ASSUME NEW v \in Parts, NEW w \in Parts, PassToken(v, w) PROVE PhaseInv'
  BY <1>14 DEF PassToken, PhaseInv, TypeOK
<1>15. CASE UNCHANGED vars
  BY <1>15 DEF vars, PhaseInv
<1> QED
  BY <1>1, <1>2, <1>3, <1>4, <1>5, <1>6, <1>7, <1>8, <1>9, <1>10, <1>11, <1>12,
     <1>13, <1>14, <1>15
     DEF Next, Caller, CallerRequest, Worker, Finish

(* Complete and Abort are sent when every goroutine is done, Complete with *)
(* every part.                                                             *)
THEOREM ClosesLast == Spec => []ClosesAfterWorkers
<1>1. PhaseInv => ClosesAfterWorkers
  BY DEF PhaseInv, ClosesAfterWorkers, Settled
<1> QED
  BY <1>1, InitTypes, NextTypes, InitTokens, NextTokens, InitPhases, NextPhases,
     PTL DEF Spec

(* With the default concurrency nobody is ever stuck: the only token is    *)
(* taken before a goroutine can be gone.                                   *)
THEOREM NeverStuckByDefault ==
  ASSUME Concurrency = 1 PROVE Spec => [](~Over => SomeoneCanAct)
<1>1. ASSUME TypeOK, TokenInv, StartInv, PhaseInv, ~Over, ~SomeoneCanAct PROVE FALSE
  <2>1. main = "tokens" /\ sent < Tokens /\ WgIsZero
    BY <1>1, StuckAtTheTokens DEF StuckOnlyWhenDone
  <2>2. Num \in Nat /\ Num > 0 /\ Tokens = 1
    BY <1>1, <2>1, NumIsCeil, UploadFileAssumption DEF PhaseInv, Tokens
  <2>3. sent = 0 /\ 1 \in Parts
    BY <1>1, <2>1, <2>2 DEF TypeOK, Parts
  <2>4. Holding = {}
    BY <1>1, <2>3, HoldingFinite, FS_EmptySet DEF TokenInv, TokensKept
  <2>5. worker[1] = "gone"
    BY <2>1, <2>3, <2>4 DEF WgIsZero, Holding
  <2> QED
    BY <1>1, <2>3, <2>5 DEF StartInv
<1> QED
  BY <1>1, InitTypes, NextTypes, InitTokens, NextTokens, InitStart, NextStart,
     InitPhases, NextPhases, PTL DEF Spec

(* Whatever fails once there are goroutines, Abort is sent before the      *)
(* error is returned.                                                      *)
THEOREM FailingAborts == Spec => FailureTriesAbort
<1> DEFINE Quits == AbortOnFailure /\ main' = "returned" /\ main # "returned" /\ err'
                      /\ upload' /\ mpu' = "open"
           Known == main \in {"abort", "initiate", "listparts"}
<1>1. TypeOK /\ PhaseInv /\ [Next]_vars => [Quits => Known]_vars
  <2> SUFFICES ASSUME PhaseInv, Next, main' = "returned", main # "returned",
                      AbortOnFailure, upload', err'
               PROVE  Known
    OBVIOUS
  <2>1. CASE Begin
    BY <2>1 DEF Begin
  <2>2. CASE Wait
    BY <2>2 DEF Wait, LeaveFailed, handle
  <2>3. ASSUME NEW fate \in NetFates, CallerRequest(fate) PROVE Known
    <3>1. ~PutObject(fate)
      <4> SUFFICES ASSUME PutObject(fate) PROVE FALSE
        OBVIOUS
      <4>1. main = "putobject" /\ upload' = upload
        BY Zenon DEF PutObject, handle
      <4> QED
        BY <4>1, Zenon DEF PhaseInv
    <3>2. ~Complete(fate)
      <4> SUFFICES ASSUME Complete(fate) PROVE FALSE
        OBVIOUS
      <4>1. upload' = upload
        BY Zenon DEF Complete, handle
      <4>2. main = "complete" /\ (LeaveFailed \/ err' = err \/ main' = main)
        BY Zenon DEF Complete
      <4>3. ~err
        BY <4>2, Zenon DEF PhaseInv
      <4> QED
        BY <4>1, <4>2, <4>3, Zenon DEF LeaveFailed
    <3> QED
      BY <2>3, <3>1, <3>2 DEF CallerRequest, Initiate, ListParts, Abort
  <2>4. ASSUME NEW w \in Parts, SendToken(w) \/ Worker(w) PROVE Known
    BY <2>4 DEF SendToken, Worker, Reuse, Open, NilResult, SendPart, WgDone, PassToken
  <2> QED
    BY <2>1, <2>2, <2>3, <2>4 DEF Next, Caller, Finish, vars
<1> QED
  BY <1>1, InitTypes, NextTypes, InitTokens, NextTokens, InitPhases, NextPhases,
     PTL DEF Spec, FailureTriesAbort

-----------------------------------------------------------------------------
(* How far the caller and the goroutines have come.  After a panic there   *)
(* is nothing left for anybody.                                            *)

(* A caller at m that has sent n tokens and k requests of its call.        *)
CallerPlace(m, n, k) ==
  CASE m = "start"    -> 0
    [] m \in {"putobject", "initiate", "listparts"} -> 1 + k
    [] m = "tokens"   -> Tries + 1 + n
    [] m = "complete" -> Tries + Num + 2 + k
    [] m = "abort"    -> 2 * Tries + Num + 2 + k
    [] m = "returned" -> 3 * Tries + Num + 2
    [] m = "panicked" -> 3 * Tries + Num + 3

(* A goroutine at s that has sent k requests.                              *)
WorkerPlace(s, k) ==
  CASE s = "unborn" -> 0
    [] s = "wait"   -> 1
    [] s = "begin"  -> 2
    [] s = "send"   -> 3 + k
    [] s = "done"   -> Tries + 3
    [] s = "pass"   -> Tries + 4
    [] s = "gone"   -> Tries + 5

At ==
  [a \in Actors |->
     IF a = 0 THEN CallerPlace(main, sent, call[0].sent)
     ELSE IF main = "panicked" THEN Tries + 5
     ELSE WorkerPlace(worker[a], call[a].sent)]

Last == 3 * Tries + Num + 5

Forward ==
  /\ \A a \in Actors : At'[a] >= At[a]
  /\ \E a \in Actors : At'[a] > At[a]

(* No call in progress has used up its requests.                           *)
CallsBounded == \A a \in Actors : call[a].sent < Tries

LEMMA TriesType == Tries \in Nat \ {0} /\ Num \in Nat
BY RetryAssumption, NumIsCeil DEF Tries

LEMMA Places ==
  ASSUME NEW m, NEW n, NEW k
  PROVE  /\ m = "start" => CallerPlace(m, n, k) = 0
         /\ m \in {"putobject", "initiate", "listparts"} => CallerPlace(m, n, k) = 1 + k
         /\ m = "tokens" => CallerPlace(m, n, k) = Tries + 1 + n
         /\ m = "complete" => CallerPlace(m, n, k) = Tries + Num + 2 + k
         /\ m = "abort" => CallerPlace(m, n, k) = 2 * Tries + Num + 2 + k
         /\ m = "returned" => CallerPlace(m, n, k) = 3 * Tries + Num + 2
         /\ m = "panicked" => CallerPlace(m, n, k) = 3 * Tries + Num + 3
         /\ m = "unborn" => WorkerPlace(m, k) = 0
         /\ m = "wait" => WorkerPlace(m, k) = 1
         /\ m = "begin" => WorkerPlace(m, k) = 2
         /\ m = "send" => WorkerPlace(m, k) = 3 + k
         /\ m = "done" => WorkerPlace(m, k) = Tries + 3
         /\ m = "pass" => WorkerPlace(m, k) = Tries + 4
         /\ m = "gone" => WorkerPlace(m, k) = Tries + 5
BY DEF CallerPlace, WorkerPlace

(* A request takes its call one further, or ends it.                       *)
LEMMA KeepCounts ==
  ASSUME TypeOK, CallsBounded, NEW a \in Actors, NEW fate, NEW ans,
         Keep(a, After(a, fate, ans))
  PROVE  /\ CallsBounded'
         /\ ~Finished(After(a, fate, ans)) => call'[a].sent = call[a].sent + 1
         /\ \A b \in Actors \ {a} : call'[b] = call[b]
         /\ \A b \in Actors : call'[b].sent \in Nat
<1> DEFINE c == After(a, fate, ans)
<1>0. c.sent = call[a].sent + 1
  BY DEF After, Attempted
<1> HIDE DEF c
<1>1. /\ Retry \in Int /\ call \in [Actors -> Calls]
      /\ \A b \in Actors : call[b].sent \in Nat
  BY RetryAssumption DEF TypeOK, Calls
<1>2. \A b \in Actors :
        call'[b] = IF b = a THEN IF Finished(c) THEN NewCall ELSE c ELSE call[b]
  BY <1>1 DEF Keep, c
<1>3. ~Finished(c) => c.sent < Tries
  BY <1>0, <1>1 DEF Finished, LooksAtResponse, Tries
<1>4. NewCall.sent < Tries /\ NewCall.sent \in Nat
  BY TriesType DEF NewCall
<1> QED
  BY <1>0, <1>1, <1>2, <1>3, <1>4 DEF CallsBounded, c

(* Everybody is somewhere.                                                 *)
LEMMA Somewhere ==
  ASSUME TypeOK, TokenInv, CallsBounded
  PROVE  /\ At \in [Actors -> 0 .. Last]
         /\ \A w \in Parts : At[w] <= Tries + 5
         /\ sent <= Num
<1>0. /\ call[0].sent \in Nat /\ call[0].sent < Tries
      /\ \A w \in Parts : call[w].sent \in Nat /\ call[w].sent < Tries
      /\ Tries \in Nat \ {0} /\ Num \in Nat /\ sent \in Nat
  BY ActorTypes, TriesType DEF TypeOK, Calls, CallsBounded
<1>1. sent <= Num
  BY <1>0, UploadFileAssumption DEF TokenInv, Tokens
<1>2. CallerPlace(main, sent, call[0].sent) \in 0 .. Last
  <2> DEFINE k == call[0].sent
             p == CallerPlace(main, sent, k)
  <2>1. p \in {0, 1 + k, Tries + 1 + sent, Tries + Num + 2 + k, 2 * Tries + Num + 2 + k,
               3 * Tries + Num + 2, 3 * Tries + Num + 3}
    BY Places DEF TypeOK
  <2>2. k \in Nat /\ k < Tries
    BY <1>0
  <2> HIDE DEF k, p
  <2>3. p \in 0 .. Last
    BY <1>0, <1>1, <2>1, <2>2 DEF Last
  <2> QED
    BY <2>3 DEF p, k
<1>3. ASSUME NEW w \in Parts PROVE WorkerPlace(worker[w], call[w].sent) \in 0 .. Tries + 5
  <2> DEFINE k == call[w].sent
             p == WorkerPlace(worker[w], k)
  <2>1. p \in {0, 1, 2, 3 + k, Tries + 3, Tries + 4, Tries + 5}
    BY Places DEF TypeOK
  <2>2. k \in Nat /\ k < Tries
    BY <1>0
  <2> HIDE DEF k, p
  <2>3. p \in 0 .. Tries + 5
    BY <1>0, <2>1, <2>2
  <2> QED
    BY <2>3 DEF p, k
<1>4. /\ Tries + 5 \in 0 .. Last /\ \A k \in 0 .. Tries + 5 : k \in 0 .. Last
      /\ Tries + 5 <= Tries + 5
  BY <1>0 DEF Last
<1>5. \A a \in Actors : a = 0 \/ a \in Parts
  BY <1>0 DEF Actors, Parts
<1>6. \A a \in Actors : At[a] \in 0 .. Last
  BY <1>2, <1>3, <1>4, <1>5 DEF At
<1>7. 0 \notin Parts
  BY DEF Parts
<1>8. \A w \in Parts : At[w] <= Tries + 5
  BY <1>3, <1>4, <1>7, ActorTypes DEF At
<1> QED
  BY <1>1, <1>6, <1>8 DEF At

LEMMA NextForward ==
  TypeOK /\ TokenInv /\ CallsBounded /\ [Next]_vars => CallsBounded' /\ [Forward]_vars
<1> SUFFICES ASSUME TypeOK, TokenInv, CallsBounded, Next
             PROVE  CallsBounded' /\ (Forward \/ UNCHANGED vars)
  BY DEF vars, CallsBounded
<1> USE DEF outcome, handle, service
<1>0. /\ 0 \in Actors /\ Parts \subseteq Actors /\ 0 \notin Parts
      /\ \A a \in Actors : a = 0 \/ a \in Parts
      /\ \A a \in Actors : call[a].sent \in Nat /\ call[a].sent < Tries
      /\ Tries \in Nat \ {0} /\ Num \in Nat /\ sent \in Nat /\ sent <= Num
  BY ActorTypes, TriesType, Somewhere DEF TypeOK, Calls, CallsBounded, Actors, Parts
<1> DEFINE here == CallerPlace(main, sent, call[0].sent)
           there == CallerPlace(main', sent', call'[0].sent)
           worked(w) == WorkerPlace(worker[w], call[w].sent)
           works(w) == WorkerPlace(worker'[w], call'[w].sent)
<1>s. /\ At[0] = here /\ At'[0] = there /\ here \in Nat
      /\ \A w \in Parts : /\ At[w] \in Nat /\ At[w] <= Tries + 5 /\ Tries + 5 \in Nat
                          /\ main # "panicked" => At[w] = worked(w)
                          /\ At'[w] = IF main' = "panicked" THEN Tries + 5 ELSE works(w)
  <2>1. At \in [Actors -> 0 .. Last] /\ \A w \in Parts : At[w] <= Tries + 5
    BY Somewhere
  <2>2. 0 .. Last \subseteq Nat
    BY <1>0 DEF Last
  <2>3. \A a \in Actors : At[a] \in Nat
    BY <2>1, <2>2
  <2>4. /\ At[0] = here /\ At'[0] = there
        /\ \A w \in Parts : /\ main # "panicked" => At[w] = worked(w)
                            /\ At'[w] = IF main' = "panicked" THEN Tries + 5 ELSE works(w)
    BY <1>0 DEF At
  <2> QED
    BY <1>0, <2>1, <2>3, <2>4
<1> HIDE DEF here, there, worked, works
\* The caller moves, and perhaps goroutines.
<1>a. ASSUME main # "panicked", there \in Nat, there > here,
             \A w \in Parts : works(w) >= worked(w)
      PROVE  Forward
  <2>1. At'[0] > At[0] /\ At'[0] >= At[0]
    BY <1>a, <1>s
  <2>2. ASSUME NEW w \in Parts PROVE At'[w] >= At[w]
    BY <1>a, <1>s
  <2> QED
    BY <1>0, <2>1, <2>2 DEF Forward
\* A goroutine moves, and perhaps others.
<1>b. ASSUME NEW w \in Parts, works(w) \in Nat, works(w) > worked(w), main # "panicked",
             UNCHANGED <<main, sent>>, call'[0] = call[0],
             \A v \in Parts : works(v) >= worked(v)
      PROVE  Forward
  <2>1. At'[0] = At[0]
    BY <1>b, <1>s DEF here, there
  <2>2. At'[w] > At[w]
    BY <1>b, <1>s
  <2>3. ASSUME NEW v \in Parts PROVE At'[v] >= At[v]
    BY <1>b, <1>s, <2>3
  <2> QED
    BY <1>0, <1>s, <2>1, <2>2, <2>3 DEF Forward
<1>c. ASSUME NEW w \in Parts, worker'[w] = worker[w], call'[w] = call[w],
             main # "panicked"
      PROVE  works(w) >= worked(w)
  <2>1. works(w) = worked(w) /\ worked(w) \in Nat
    BY <1>c, <1>s DEF works, worked
  <2> QED
    BY <2>1
<1>n. ASSUME UNCHANGED call
      PROVE  CallsBounded' /\ \A a \in Actors : call'[a] = call[a]
  BY <1>n DEF CallsBounded
<1>t. ASSUME StartWorkers, main \in Early
      PROVE  \A w \in Parts : works(w) >= worked(w)
  <2> TAKE w \in Parts
  <2>1. worker[w] = "unborn" /\ worker'[w] = "wait"
    BY <1>t DEF StartWorkers, TokenInv
  <2> QED
    BY <2>1, Places DEF works, worked
\* The goroutines stay where they are, or are created.
<1>d. ASSUME worker' = worker \/ (StartWorkers /\ main \in Early), main # "panicked",
             \A w \in Parts : call'[w] = call[w]
      PROVE  \A w \in Parts : works(w) >= worked(w)
  BY <1>d, <1>c, <1>t
<1>1. CASE Begin
  <2>1. here = 0 /\ there = 1 + call[0].sent
    BY <1>1, Places DEF Begin, here, there
  <2>2. /\ main # "panicked" /\ worker' = worker /\ UNCHANGED call
        /\ there > here /\ there \in Nat
    BY <1>0, <1>1, <2>1 DEF Begin
  <2> QED
    BY <1>0, <2>2, <1>a, <1>d, <1>n
<1>2. ASSUME NEW w \in Parts, SendToken(w) PROVE CallsBounded' /\ Forward
  <2>1. here = Tries + 1 + sent /\ there = Tries + 1 + (sent + 1)
    BY <1>2, Places DEF SendToken, here, there
  <2>2. /\ main # "panicked" /\ UNCHANGED call /\ there > here /\ there \in Nat
        /\ worker[w] = "wait" /\ worker'[w] = "begin"
        /\ \A v \in Parts \ {w} : worker'[v] = worker[v]
    BY <1>0, <1>2, <2>1 DEF SendToken, Step, TypeOK
  <2>3. works(w) >= worked(w)
    BY <2>2, Places DEF works, worked
  <2>4. \A v \in Parts : works(v) >= worked(v)
    BY <1>0, <1>c, <1>n, <2>2, <2>3
  <2> QED
    BY <1>a, <1>n, <2>2, <2>4
<1>3. CASE Wait
  <2>1. /\ here = Tries + 1 + sent
        /\ there \in {Tries + Num + 2 + call[0].sent, 2 * Tries + Num + 2 + call[0].sent,
                     3 * Tries + Num + 2}
    BY <1>3, Places DEF Wait, LeaveFailed, here, there
  <2>2. /\ main # "panicked" /\ worker' = worker /\ UNCHANGED call
        /\ there > here /\ there \in Nat
    BY <1>0, <1>3, <2>1 DEF Wait
  <2> QED
    BY <1>0, <2>2, <1>a, <1>d, <1>n
\* A request of the caller, one of the first three or one of the last two.
<1>e. ASSUME NEW fate, NEW ans, Keep(0, After(0, fate, ans)), main \in Early \ {"start"},
             UNCHANGED sent,
             \/ /\ ~Finished(After(0, fate, ans))
                /\ UNCHANGED <<main, worker>>
             \/ main' \in {"returned", "panicked"} /\ UNCHANGED worker
             \/ StartWorkers
      PROVE  CallsBounded' /\ Forward
  <2> DEFINE c == After(0, fate, ans)
  <2>1. /\ CallsBounded' /\ \A w \in Parts : call'[w] = call[w]
        /\ ~Finished(c) => call'[0].sent = call[0].sent + 1
    BY <1>0, <1>e, KeepCounts
  <2>2. here = 1 + call[0].sent
    BY <1>e, Places DEF Early, here
  <2>3. there \in {1 + (call[0].sent + 1), 3 * Tries + Num + 2, 3 * Tries + Num + 3,
                   Tries + 1 + sent}
    <3>1. CASE ~Finished(c) /\ UNCHANGED <<main, worker>>
      BY <1>e, <2>1, <3>1, Places DEF Early, there
    <3>2. CASE main' \in {"returned", "panicked"}
      BY <3>2, Places DEF there
    <3>3. CASE StartWorkers
      BY <1>e, <3>3, Places DEF StartWorkers, there
    <3> QED
      BY <1>e, <3>1, <3>2, <3>3
  <2>4. there > here /\ there \in Nat /\ main # "panicked"
    BY <1>0, <1>e, <2>2, <2>3 DEF Early
  <2> QED
    BY <1>a, <1>d, <1>e, <2>1, <2>4
<1>4. ASSUME NEW fate \in NetFates, PutObject(fate) PROVE CallsBounded' /\ Forward
  BY <1>4, <1>e DEF PutObject, Early
<1>5. ASSUME NEW fate \in NetFates, Initiate(fate) PROVE CallsBounded' /\ Forward
  BY <1>5, <1>e DEF Initiate, Early
<1>6. ASSUME NEW fate \in NetFates, ListParts(fate) PROVE CallsBounded' /\ Forward
  BY <1>6, <1>e DEF ListParts, Early
<1>7. ASSUME NEW fate \in NetFates, Complete(fate) PROVE CallsBounded' /\ Forward
  <2> DEFINE answer == IfOpen(IF parts = stored THEN "ok" ELSE "rejected")
             c == After(0, fate, answer)
  <2>1. /\ main = "complete" /\ UNCHANGED <<sent, worker>> /\ Keep(0, c)
        /\ IF Finished(c) THEN main' \in {"returned", "abort"} ELSE main' = main
    BY <1>7 DEF Complete, LeaveFailed
  <2>2. /\ CallsBounded' /\ \A w \in Parts : call'[w] = call[w]
        /\ ~Finished(c) => call'[0].sent = call[0].sent + 1
        /\ call'[0].sent \in Nat
    BY <1>0, <2>1, KeepCounts
  <2> HIDE DEF c
  <2>3. /\ here = Tries + Num + 2 + call[0].sent
        /\ there \in {here + 1, 3 * Tries + Num + 2, 2 * Tries + Num + 2 + call'[0].sent}
    BY <1>0, <2>1, <2>2, Places DEF here, there
  <2>4. there > here /\ there \in Nat
    BY <1>0, <2>2, <2>3
  <2> QED
    BY <2>1, <2>2, <2>4, <1>a, <1>d
<1>8. ASSUME NEW fate \in NetFates, Abort(fate) PROVE CallsBounded' /\ Forward
  <2> DEFINE c == After(0, fate, IfOpen("ok"))
  <2>1. /\ main = "abort" /\ UNCHANGED <<sent, worker>> /\ Keep(0, c)
        /\ main' = IF Finished(c) THEN "returned" ELSE main
    BY <1>8 DEF Abort
  <2>2. /\ CallsBounded' /\ \A w \in Parts : call'[w] = call[w]
        /\ ~Finished(c) => call'[0].sent = call[0].sent + 1
    BY <1>0, <2>1, KeepCounts
  <2> HIDE DEF c
  <2>3. /\ here = 2 * Tries + Num + 2 + call[0].sent
        /\ there \in {here + 1, 3 * Tries + Num + 2}
    BY <1>0, <2>1, <2>2, Places DEF here, there
  <2>4. there > here /\ there \in Nat
    BY <1>0, <2>3
  <2> QED
    BY <2>1, <2>2, <2>4, <1>a, <1>d
\* A goroutine goes from one place to the next without a request.
<1>m. ASSUME NEW w \in Parts, NEW from, NEW to, Step(w, from, to),
             UNCHANGED <<main, sent, call>>, WorkerPlace(to, call[w].sent) \in Nat,
             WorkerPlace(to, call[w].sent) > WorkerPlace(from, call[w].sent)
      PROVE  CallsBounded' /\ Forward
  <2>1. /\ main # "panicked" /\ worker[w] = from /\ worker'[w] = to
        /\ \A v \in Parts \ {w} : worker'[v] = worker[v]
    BY <1>m DEF Step, Alive, TypeOK
  <2>2. works(w) \in Nat /\ works(w) > worked(w)
    BY <1>m, <2>1 DEF works, worked
  <2>3. worked(w) \in Nat
    BY <1>s, <2>1
  <2>4. \A v \in Parts : works(v) >= worked(v)
    BY <1>0, <1>c, <1>m, <1>n, <2>1, <2>2, <2>3
  <2> QED
    BY <1>0, <1>m, <1>b, <1>n, <2>1, <2>2, <2>4
<1>9. ASSUME NEW w \in Parts, Reuse(w) \/ Open(w) \/ WgDone(w)
      PROVE  CallsBounded' /\ Forward
  <2>1. /\ WorkerPlace("begin", call[w].sent) = 2
        /\ WorkerPlace("send", call[w].sent) = 3 + call[w].sent
        /\ WorkerPlace("done", call[w].sent) = Tries + 3
        /\ WorkerPlace("pass", call[w].sent) = Tries + 4
    BY Places
  <2>2. /\ Step(w, "begin", "done") \/ Step(w, "begin", "send") \/ Step(w, "done", "pass")
        /\ UNCHANGED <<main, sent, call>>
    BY <1>9 DEF Reuse, Open, WgDone, AfterDone
  <2> QED
    BY <1>0, <1>m, <2>1, <2>2
<1>10. ASSUME NEW w \in Parts, NilResult(w) PROVE CallsBounded' /\ Forward
  <2>1. main' = "panicked" /\ main # "panicked" /\ UNCHANGED call
    BY <1>10 DEF NilResult, Alive
  <2>2. here \in {0, 1 + call[0].sent, Tries + 1 + sent, Tries + Num + 2 + call[0].sent,
                  2 * Tries + Num + 2 + call[0].sent, 3 * Tries + Num + 2}
    BY <2>1, Places DEF here, TypeOK
  <2>3. there = 3 * Tries + Num + 3
    BY <2>1, Places DEF there
  <2>4. there > here
    BY <1>0, <2>2, <2>3
  <2>5. At'[0] > At[0] /\ At'[0] >= At[0]
    BY <1>0, <1>s, <2>3, <2>4
  <2>6. ASSUME NEW v \in Parts PROVE At'[v] >= At[v]
    BY <1>s, <2>1
  <2> QED
    BY <1>0, <1>n, <2>1, <2>5, <2>6 DEF Forward
<1>11. ASSUME NEW w \in Parts, NEW fate \in NetFates, SendPart(w, fate)
       PROVE  CallsBounded' /\ Forward
  <2> DEFINE c == After(w, fate, IfOpen("ok"))
  <2>1. /\ Alive /\ worker[w] = "send" /\ UNCHANGED <<main, sent>> /\ Keep(w, c)
        /\ \/ ~Finished(c) /\ UNCHANGED worker
           \/ worker' = [worker EXCEPT ![w] = "done"]
    BY <1>11 DEF SendPart
  <2>2. /\ CallsBounded' /\ \A b \in Actors \ {w} : call'[b] = call[b]
        /\ ~Finished(c) => call'[w].sent = call[w].sent + 1
    BY <1>0, <2>1, KeepCounts
  <2> HIDE DEF c
  <2>3. /\ worker'[w] \in {"send", "done"}
        /\ worker'[w] = "send" => call'[w].sent = call[w].sent + 1
        /\ \A v \in Parts \ {w} : worker'[v] = worker[v] /\ call'[v] = call[v]
        /\ call'[0] = call[0] /\ main # "panicked"
    BY <1>0, <2>1, <2>2 DEF TypeOK, Alive
  <2>4. works(w) \in {3 + (call[w].sent + 1), Tries + 3} /\ worked(w) = 3 + call[w].sent
    <3>1. worker'[w] = "send" => works(w) = 3 + call'[w].sent
      BY Places DEF works
    <3>2. worker'[w] = "done" => works(w) = Tries + 3
      BY Places DEF works
    <3> QED
      BY <2>1, <2>3, <3>1, <3>2, Places DEF worked
  <2>5. works(w) \in Nat /\ works(w) > worked(w) /\ works(w) >= worked(w)
    BY <1>0, <2>4
  <2>6. \A v \in Parts : works(v) >= worked(v)
    BY <1>c, <2>3, <2>5
  <2> QED
    BY <1>b, <2>1, <2>2, <2>3, <2>5, <2>6
<1>12. ASSUME NEW v \in Parts, NEW w \in Parts, PassToken(v, w)
       PROVE  CallsBounded' /\ Forward
  <2>1. /\ main # "panicked" /\ UNCHANGED <<main, sent, call>> /\ v # w
        /\ worker[v] = "pass" /\ worker[w] = "wait"
        /\ worker'[v] = "gone" /\ worker'[w] = "begin"
        /\ \A x \in Parts \ {v, w} : worker'[x] = worker[x]
    BY <1>12 DEF PassToken, Alive, TypeOK
  <2>2. /\ worked(v) = Tries + 4 /\ works(v) = Tries + 5
        /\ worked(w) = 1 /\ works(w) = 2
    BY <2>1, Places DEF works, worked
  <2>3. /\ works(v) \in Nat /\ works(v) > worked(v) /\ works(v) >= worked(v)
        /\ works(w) >= worked(w)
    BY <1>0, <2>2
  <2>4. \A x \in Parts : works(x) >= worked(x)
    BY <1>0, <1>c, <1>n, <2>1, <2>3
  <2> QED
    BY <1>0, <1>b, <1>n, <2>1, <2>3, <2>4
<1>13. CASE Finish
  BY <1>13, <1>n DEF Finish, vars
<1> QED
  BY <1>1, <1>2, <1>3, <1>4, <1>5, <1>6, <1>7, <1>8, <1>9, <1>10, <1>11, <1>12, <1>13
     DEF Next, Caller, CallerRequest, Worker

LEMMA InitBounded == Init => CallsBounded
BY TriesType DEF Init, NewCall, CallsBounded

(***************************************************************************)
(* UploadFile comes to an end or to the loop of the tokens, as far as this *)
(* can be said of single steps: whatever is lost or fails, each step takes *)
(* somebody further and nobody back, over a way whose length the parts and *)
(* the retries fix.  With StuckOnlyAtTheTokens and NeverStuckByDefault     *)
(* this leaves of EveryPartTried and Returns only that those who can go on *)
(* do.                                                                     *)
(***************************************************************************)
THEOREM StepsBounded == Spec => [](At \in [Actors -> 0 .. Last]) /\ [][Forward]_vars
BY InitBounded, Somewhere, NextForward, InitTypes, NextTypes, InitTokens, NextTokens,
   PTL DEF Spec

-----------------------------------------------------------------------------
(* The uploads that are opened.  Initiate is repeated only as long as no   *)
(* answer has brought an id, so the requests count them.                   *)

OpenedInv ==
  /\ OrphansBounded
  /\ main \in {"start", "initiate"} => Resuming \/ mpu = "none"
  /\ main = "start" => orphans = 0
  /\ main = "initiate" => ~Resuming /\ orphans <= call[0].sent

LEMMA NextOpened ==
  TypeOK /\ CallsBounded /\ OpenedInv /\ [Next]_vars => OpenedInv'
<1> SUFFICES ASSUME TypeOK, CallsBounded, OpenedInv, [Next]_vars PROVE OpenedInv'
  OBVIOUS
<1> USE DEF outcome, handle, service
<1>0. /\ Tries \in Nat \ {0} /\ orphans \in Nat /\ 0 \in Actors
      /\ call[0].sent \in Nat /\ call[0].sent < Tries
  BY TriesType, ActorTypes DEF TypeOK, Calls, CallsBounded
<1>a. ASSUME UNCHANGED <<orphans, mpu>>, main' \notin {"start", "initiate"}
      PROVE  OpenedInv'
  BY <1>a DEF OpenedInv, OrphansBounded
<1>b. ASSUME UNCHANGED <<orphans, mpu, main>>, call'[0] = call[0] PROVE OpenedInv'
  BY <1>b DEF OpenedInv, OrphansBounded
<1>1. CASE Begin
  BY <1>0, <1>1 DEF Begin, OpenedInv, OrphansBounded
<1>2. ASSUME NEW w \in Parts, SendToken(w) PROVE OpenedInv'
  BY <1>2, <1>a DEF SendToken
<1>3. CASE Wait
  BY <1>3, <1>a DEF Wait, LeaveFailed
<1>4. ASSUME NEW fate \in NetFates, PutObject(fate) PROVE OpenedInv'
  BY <1>4, <1>a DEF PutObject
<1>5. ASSUME NEW fate \in NetFates, Initiate(fate) PROVE OpenedInv'
  <2> DEFINE c == After(0, fate, "ok")
  <2>1. PICK got \in Filled(c.resp) :
           /\ mpu' = IF got = "all" THEN "open" ELSE mpu
           /\ orphans' = IF Handled(fate) /\ got # "all" THEN orphans + 1 ELSE orphans
    BY <1>5 DEF Initiate
  <2>2. /\ main = "initiate" /\ ~Resuming /\ mpu = "none" /\ orphans <= call[0].sent
        /\ Keep(0, c)
        /\ IF Finished(c) THEN main' \in {"returned", "tokens"} ELSE main' = main
    BY <1>5 DEF Initiate, StartWorkers, OpenedInv
  <2>3. ~Finished(c) => call'[0].sent = call[0].sent + 1
    BY <1>0, <2>2, KeepCounts
  <2>4. got = "all" => Finished(c)
    <3>1. c.sent = call[0].sent + 1
      BY DEF After, Attempted
    <3>2. got = "all" => c.resp \in {"ok", "garbled"}
      <4> DEFINE r == c.resp
      <4>1. got \in Filled(r)
        BY <2>1
      <4> HIDE DEF r
      <4>2. r \notin {"ok", "garbled"} => Filled(r) = {"none"}
        BY DEF Filled
      <4>3. got = "all" => r \in {"ok", "garbled"}
        BY <4>1, <4>2
      <4> QED
        BY <4>3 DEF r
    <3> QED
      BY <1>0, <3>1, <3>2 DEF Finished, Below400
  <2> HIDE DEF c
  <2>5. orphans' + (IF mpu' = "none" THEN 0 ELSE 1) <= call[0].sent + 1
    BY <1>0, <2>1, <2>2
  <2>6. OrphansBounded'
    BY <1>0, <2>1, <2>2, <2>5 DEF OrphansBounded
  <2> QED
    BY <1>0, <2>1, <2>2, <2>3, <2>4, <2>6 DEF OpenedInv
<1>6. ASSUME NEW fate \in NetFates, ListParts(fate) PROVE OpenedInv'
  BY <1>6, <1>a DEF ListParts, StartWorkers
<1>c. ASSUME orphans' = orphans, mpu # "none", mpu' # "none",
             main' \notin {"start", "initiate"}
      PROVE  OpenedInv'
  BY <1>c DEF OpenedInv, OrphansBounded
<1>7. ASSUME NEW fate \in NetFates, Complete(fate) PROVE OpenedInv'
  <2>1. UNCHANGED mpu \/ (mpu = "open" /\ mpu' = "completed")
    BY <1>7 DEF Complete, IfOpen
  <2>2. orphans' = orphans /\ main' \notin {"start", "initiate"}
    BY <1>7 DEF Complete, LeaveFailed
  <2> QED
    BY <1>a, <1>c, <2>1, <2>2
<1>8. ASSUME NEW fate \in NetFates, Abort(fate) PROVE OpenedInv'
  <2>1. UNCHANGED mpu \/ (mpu = "open" /\ mpu' = "aborted")
    BY <1>8 DEF Abort
  <2>2. orphans' = orphans /\ main' \notin {"start", "initiate"}
    BY <1>8 DEF Abort
  <2> QED
    BY <1>a, <1>c, <2>1, <2>2
<1>9. ASSUME NEW w \in Parts, Worker(w) PROVE OpenedInv'
  <2>1. ASSUME NEW fate \in NetFates, SendPart(w, fate) PROVE OpenedInv'
    <3>1. call'[0] = call[0]
      BY <1>0, <2>1, ActorTypes, KeepCounts DEF SendPart, Parts
    <3> QED
      BY <1>b, <2>1, <3>1 DEF SendPart
  <2>2. ASSUME NilResult(w) PROVE OpenedInv'
    BY <1>a, <2>2 DEF NilResult
  <2> QED
    BY <1>9, <1>b, <2>1, <2>2 DEF Worker, Reuse, Open, WgDone, PassToken
<1>10. CASE UNCHANGED vars
  BY <1>10, <1>b DEF vars
<1> QED
  BY <1>1, <1>2, <1>3, <1>4, <1>5, <1>6, <1>7, <1>8, <1>9, <1>10
     DEF Next, Caller, CallerRequest, Finish

(* However many answers to Initiate are lost, an UploadFile leaves at most *)
(* one upload per request of a call on the service.                        *)
THEOREM UploadsOpened == Spec => []OrphansBounded
<1>1. Init => OpenedInv
  BY TriesType DEF Init, OpenedInv, OrphansBounded
<1>2. OpenedInv => OrphansBounded
  BY DEF OpenedInv
<1> QED
  BY <1>1, <1>2, InitBounded, NextForward, NextOpened, InitTypes, NextTypes,
     InitTokens, NextTokens, PTL DEF Spec

-----------------------------------------------------------------------------
(* The data.  A resumed upload has to use the chunk size of the upload it  *)
(* resumes: the parts found on the service are taken as they are.          *)

SameChunks == Resuming => PrevChunkSize = ChunkSize

(* And no response is a redirect: CompleteMultipartUpload takes one for    *)
(* a success.                                                              *)
NoRedirects == "redirected" \notin NetFates

DataInv ==
  /\ \A w \in Parts : /\ listing[w] \in {NoPart, Chunk(w)}
                      /\ parts[w] \in {NoPart, Chunk(w)}
                      /\ stored[w] \in {NoPart, Chunk(w)}
  /\ \/ object = NoObject
     \/ object = WholeFile
     \/ object = FileParts /\ Num > 0
  /\ main = "returned" /\ ~err => object # NoObject

LEMMA InitData == ASSUME SameChunks PROVE Init => DataInv
<1> SUFFICES ASSUME Init PROVE DataInv
  OBVIOUS
<1>1. \A w \in Parts : stored[w] \in {NoPart, Chunk(w)}
  <2>1. CASE Resuming
    BY <2>1, PartRange DEF Init, SameChunks
  <2>2. CASE ~Resuming
    BY <2>2 DEF Init, Empty
  <2> QED BY <2>1, <2>2
<1> QED
  BY <1>1 DEF Init, DataInv, Empty

LEMMA NextData ==
  ASSUME NoRedirects
  PROVE  TypeOK /\ PhaseInv /\ DataInv /\ [Next]_vars => DataInv'
<1> SUFFICES ASSUME TypeOK, PhaseInv, DataInv, [Next]_vars PROVE DataInv'
  OBVIOUS
<1> USE DEF outcome, handle, service
<1>0. /\ NetFates \subseteq Fates /\ 0 \in Actors /\ Parts \subseteq Actors
      /\ call \in [Actors -> Calls] /\ \A a \in Actors : Failing(call[a])
  BY UploadFileAssumption, ActorTypes DEF TypeOK, PhaseInv
<1>a. ASSUME UNCHANGED <<listing, parts, service>>,
             main' = "returned" /\ ~err' => main = "returned" /\ ~err
      PROVE  DataInv'
  BY <1>a DEF DataInv
<1>1. CASE Begin
  BY <1>1, <1>a DEF Begin
<1>2. ASSUME NEW w \in Parts, SendToken(w) PROVE DataInv'
  BY <1>2, <1>a DEF SendToken
<1>3. CASE Wait
  BY <1>3, <1>a DEF Wait, LeaveFailed
<1>4. ASSUME NEW fate \in NetFates, PutObject(fate) PROVE DataInv'
  <2> DEFINE c == After(0, fate, "ok")
  <2>1. ASSUME Finished(c), ~PutReturnsErr(c) PROVE Handled(fate)
    BY <1>0, <2>1, PutMeansHandled
  <2>2. object' = IF Handled(fate) THEN WholeFile ELSE object
    BY <1>4 DEF PutObject
  <2>3. main' = "returned" /\ ~err' => Finished(c) /\ ~PutReturnsErr(c)
    BY <1>4 DEF PutObject
  <2>4. UNCHANGED <<listing, parts, stored>>
    BY <1>4 DEF PutObject
  <2> QED
    BY <2>1, <2>2, <2>3, <2>4, FileIsFile DEF DataInv
<1>5. ASSUME NEW fate \in NetFates, Initiate(fate) PROVE DataInv'
  BY <1>5 DEF Initiate, StartWorkers, DataInv
<1>6. ASSUME NEW fate \in NetFates, ListParts(fate) PROVE DataInv'
  <2>1. \A w \in Parts : FirstPage[w] \in {NoPart, Chunk(w)}
    BY DEF FirstPage, DataInv
  <2>2. \E got : listing' \in ListingOf(got)
    BY <1>6 DEF ListParts
  <2>3. \A w \in Parts : listing'[w] \in {NoPart, Chunk(w)}
    BY <2>1, <2>2, ListingCases DEF DataInv
  <2> QED
    BY <1>6, <2>3 DEF ListParts, StartWorkers, DataInv
<1>7. ASSUME NEW fate \in NetFates, Complete(fate) PROVE DataInv'
  <2> DEFINE answer == IfOpen(IF parts = stored THEN "ok" ELSE "rejected")
             c == After(0, fate, answer)
  <2>1. answer \in {"ok", "notfound", "rejected"}
    BY DEF IfOpen
  <2>2. ASSUME Finished(c), ~ReturnsErr(c) PROVE Handled(fate) /\ answer = "ok"
    <3>1. Below400(Reply(fate, answer))
      BY <1>0, <1>7, <2>1, <2>2, KeepFailing DEF Complete, Answers
    <3>2. fate \in Fates /\ fate # "redirected"
      BY <1>0 DEF NoRedirects
    <3>3. Reply(fate, answer) # "redirect"
      BY <2>1, <3>2, ReplyMeans
    <3> QED
      BY <2>1, <3>1, <3>2, <3>3, ReplyMeans
  <2>3. Num > 0
    BY <1>7, NumIsCeil, UploadFileAssumption DEF Complete, PhaseInv
  <2>4. \A w \in Parts : parts[w] = Chunk(w)
    BY <1>7 DEF Complete, PhaseInv, DataInv, Settled
  <2>5. parts = FileParts
    BY <2>4 DEF FileParts, TypeOK
  <2>6. object' = IF Handled(fate) /\ answer = "ok" THEN FileParts ELSE object
    BY <1>7, <2>5 DEF Complete
  <2>7. main' = "returned" /\ ~err' => Finished(c) /\ ~ReturnsErr(c)
    BY <1>7 DEF Complete, LeaveFailed
  <2>8. UNCHANGED <<listing, parts, stored>>
    BY <1>7 DEF Complete
  <2> HIDE DEF c, answer
  <2> QED
    BY <2>2, <2>3, <2>6, <2>7, <2>8, FileIsFile DEF DataInv
<1>8. ASSUME NEW fate \in NetFates, Abort(fate) PROVE DataInv'
  <2>1. err
    BY <1>8 DEF Abort, PhaseInv
  <2> QED
    BY <1>8, <2>1 DEF Abort, DataInv
<1>9. ASSUME NEW w \in Parts, Reuse(w) PROVE DataInv'
  BY <1>9 DEF Reuse, DataInv, TypeOK
<1>10. ASSUME NEW w \in Parts, Open(w) PROVE DataInv'
  BY <1>10, <1>a DEF Open
<1>11. ASSUME NEW w \in Parts, NilResult(w) PROVE DataInv'
  BY <1>11, <1>a DEF NilResult
<1>12. ASSUME NEW w \in Parts, NEW fate \in NetFates, SendPart(w, fate)
       PROVE  DataInv'
  BY <1>12 DEF SendPart, DataInv, TypeOK
<1>13. ASSUME NEW w \in Parts, WgDone(w) PROVE DataInv'
  BY <1>13, <1>a DEF WgDone
<1>14. ASSUME NEW v \in Parts, NEW w \in Parts, PassToken(v, w) PROVE DataInv'
  BY <1>14, <1>a DEF PassToken
<1>15. CASE UNCHANGED vars
  BY <1>15, <1>a DEF vars
<1> QED
  BY <1>1, <1>2, <1>3, <1>4, <1>5, <1>6, <1>7, <1>8, <1>9, <1>10, <1>11, <1>12,
     <1>13, <1>14, <1>15
     DEF Next, Caller, CallerRequest, Worker, Finish

LEMMA DataStoresFile == DataInv => StoresTheFile
BY FileIsFile DEF DataInv, StoresTheFile

(* A nil error means that the whole file is the object.                    *)
THEOREM StoresFile == ASSUME SameChunks, NoRedirects PROVE Spec => []StoresTheFile
BY InitTypes, NextTypes, InitTokens, NextTokens, InitPhases, NextPhases,
   InitData, NextData, DataStoresFile, PTL DEF Spec

-----------------------------------------------------------------------------
(* UploadFile implements AtomicUpload.                                     *)

LEMMA InitRefines == Init => Atomic!Init
BY DEF Init, Atomic!Init, AbsObject, AbsStatus

(* A step that leaves the object alone either leaves the status alone or   *)
(* ends the upload, with success only if the object is there.              *)
LEMMA QuietStep ==
  ASSUME UNCHANGED object,
         \/ UNCHANGED <<main, err>>
         \/ /\ AbsStatus = "running"
            /\ \/ AbsStatus' = "running"
               \/ AbsStatus' = "failed"
               \/ AbsStatus' = "succeeded" /\ AbsObject = "new"
  PROVE  [Atomic!Next]_(Atomic!vars)
<1>1. AbsObject' = AbsObject
  BY DEF AbsObject
<1>2. UNCHANGED <<main, err>> => AbsStatus' = AbsStatus
  BY DEF AbsStatus
<1> QED
  BY <1>1, <1>2 DEF Atomic!Next, Atomic!Succeed, Atomic!Fail, Atomic!vars

LEMMA NextRefines ==
  TypeOK /\ PhaseInv /\ DataInv /\ DataInv' /\ [Next]_vars
    => [Atomic!Next]_(Atomic!vars)
<1> SUFFICES ASSUME TypeOK, PhaseInv, DataInv, DataInv', [Next]_vars
             PROVE  [Atomic!Next]_(Atomic!vars)
  OBVIOUS
<1> USE DEF outcome, handle, service
<1>0. /\ object # NoObject => AbsObject = "new"
      /\ object' # NoObject => AbsObject' = "new"
      /\ main' = "returned" /\ ~err' => object' # NoObject
  BY FileIsFile DEF DataInv, AbsObject
<1>1. ASSUME AbsStatus = "running", UNCHANGED object
      PROVE  [Atomic!Next]_(Atomic!vars)
  <2>1. AbsStatus' \in {"running", "failed", "succeeded"}
    BY DEF AbsStatus
  <2>2. AbsStatus' = "succeeded" => AbsObject = "new"
    BY <1>0, <1>1 DEF AbsStatus
  <2> QED
    BY <1>1, <2>1, <2>2, QuietStep
<1>2. ASSUME AbsStatus = "running", object' # NoObject
      PROVE  [Atomic!Next]_(Atomic!vars)
  <2>1. AbsObject' = "new" /\ AbsStatus' \in {"running", "failed", "succeeded"}
    BY <1>0, <1>2 DEF AbsStatus
  <2> QED
    BY <1>2, <2>1 DEF Atomic!Next, Atomic!Store
<1>3. ASSUME main \notin {"returned", "panicked"} PROVE AbsStatus = "running"
  BY <1>3 DEF AbsStatus
<1>4. CASE Begin
  BY <1>1, <1>3, <1>4 DEF Begin
<1>5. ASSUME NEW w \in Parts, SendToken(w) PROVE [Atomic!Next]_(Atomic!vars)
  BY <1>1, <1>3, <1>5 DEF SendToken
<1>6. CASE Wait
  BY <1>1, <1>3, <1>6 DEF Wait
<1>7. ASSUME NEW fate \in NetFates, PutObject(fate)
      PROVE  [Atomic!Next]_(Atomic!vars)
  <2>1. object' = object \/ object' # NoObject
    BY <1>7, FileIsFile DEF PutObject
  <2> QED
    BY <1>1, <1>2, <1>3, <1>7, <2>1 DEF PutObject
<1>8. ASSUME NEW fate \in NetFates, Initiate(fate)
      PROVE  [Atomic!Next]_(Atomic!vars)
  BY <1>1, <1>3, <1>8 DEF Initiate
<1>9. ASSUME NEW fate \in NetFates, ListParts(fate)
      PROVE  [Atomic!Next]_(Atomic!vars)
  BY <1>1, <1>3, <1>9 DEF ListParts
<1>10. ASSUME NEW fate \in NetFates, Complete(fate)
       PROVE  [Atomic!Next]_(Atomic!vars)
  <2>1. object' = object \/ object' = parts
    BY <1>10 DEF Complete
  <2>2. \A w \in Parts : parts[w] = Chunk(w)
    BY <1>10 DEF Complete, PhaseInv, DataInv, Settled
  <2>3. parts = FileParts /\ Num > 0
    BY <1>10, <2>2, NumIsCeil, UploadFileAssumption
       DEF Complete, FileParts, TypeOK, PhaseInv
  <2>4. parts # NoObject
    BY <2>3, FileIsFile
  <2> QED
    BY <1>1, <1>2, <1>3, <1>10, <2>1, <2>4 DEF Complete
<1>11. ASSUME NEW fate \in NetFates, Abort(fate)
       PROVE  [Atomic!Next]_(Atomic!vars)
  BY <1>1, <1>3, <1>11 DEF Abort
<1>12. ASSUME NEW w \in Parts, Reuse(w) PROVE [Atomic!Next]_(Atomic!vars)
  BY <1>12, QuietStep DEF Reuse
<1>13. ASSUME NEW w \in Parts, Open(w) PROVE [Atomic!Next]_(Atomic!vars)
  BY <1>13, QuietStep DEF Open
<1>14. ASSUME NEW w \in Parts, NilResult(w) PROVE [Atomic!Next]_(Atomic!vars)
  <2>1. main # "returned"
    BY <1>14 DEF NilResult, PhaseInv
  <2> QED
    BY <1>1, <1>3, <1>14, <2>1 DEF NilResult, Alive
<1>15. ASSUME NEW w \in Parts, NEW fate \in NetFates, SendPart(w, fate)
       PROVE  [Atomic!Next]_(Atomic!vars)
  BY <1>15, QuietStep DEF SendPart
<1>16. ASSUME NEW w \in Parts, WgDone(w) PROVE [Atomic!Next]_(Atomic!vars)
  BY <1>16, QuietStep DEF WgDone
<1>17. ASSUME NEW v \in Parts, NEW w \in Parts, PassToken(v, w)
       PROVE  [Atomic!Next]_(Atomic!vars)
  BY <1>17, QuietStep DEF PassToken
<1>18. CASE UNCHANGED vars
  BY <1>18, QuietStep DEF vars
<1> QED
  BY <1>4, <1>5, <1>6, <1>7, <1>8, <1>9, <1>10, <1>11, <1>12, <1>13, <1>14,
     <1>15, <1>16, <1>17, <1>18
     DEF Next, Caller, CallerRequest, Worker, Finish

(* Whatever is lost or reordered, the object is never anything but the old *)
(* one or the whole file, and success means the whole file.                *)
THEOREM Refinement == ASSUME SameChunks, NoRedirects PROVE Spec => ImplementsAtomic
BY InitTypes, NextTypes, InitTokens, NextTokens, InitPhases, NextPhases,
   InitData, NextData, InitRefines, NextRefines, PTL
   DEF Spec, ImplementsAtomic, Atomic!Spec
=============================================================================
