------------------------- MODULE UploadStreamProofs -------------------------
(***************************************************************************)
(* Theorems about UploadStream, for every stream, part size, concurrency,  *)
(* number of retries and set of fates.                                     *)
(***************************************************************************)
EXTENDS UploadStream, FiniteSetTheorems, TLAPS

-----------------------------------------------------------------------------
(* One call of DoAndRetry.                                                 *)

(* The types of a call, of what a request brings back and of what follows. *)
LEMMA CallTypes ==
  /\ NewCall \in Calls
  /\ \A fate \in Fates, a \in Answers : Reply(fate, a) \in Responses
  /\ \A c \in Calls, r \in Responses : Attempted(c, r) \in Calls
BY DEF NewCall, Calls, Fates, Answers, Reply, Responses, Attempted

(* A call in progress has failed so far: the first request ends it else.   *)
Failing(c) == c.sent > 0 => DoErr(c.first)

LEMMA CallProgress ==
  ASSUME NEW c \in Calls, NEW r \in Responses, Failing(c)
  PROVE  LET d == Attempted(c, r)
         IN  /\ d.resp = r
             /\ d.sent > 0
             /\ Failing(IF Finished(d) THEN NewCall ELSE d)
             /\ Finished(d) /\ ~ReturnsErr(d) => Below400(r)
<1> DEFINE d == Attempted(c, r)
<1>1. c.sent \in Nat /\ (c.sent > 0 => c.first # "ok")
  BY DEF Calls, Failing, DoErr
<1>2. /\ d.sent = c.sent + 1 /\ d.resp = r
      /\ d.first = IF c.sent = 0 THEN r ELSE c.first
  BY DEF Attempted
<1> HIDE DEF d
<1>3. r = "ok" => Below400(r)
  BY DEF Below400
<1>4. ~Finished(d) => d.first # "ok"
  BY <1>1, <1>2, <1>3 DEF Finished
<1>5. Failing(IF Finished(d) THEN NewCall ELSE d)
  BY <1>4 DEF Failing, NewCall, DoErr
<1> QED
  BY <1>1, <1>2, <1>3, <1>5 DEF ReturnsErr, DoErr, d

(* What answer a of the service comes to: what is below 400 and is not a   *)
(* redirect was handled; only a redirecting service makes a redirect; and  *)
(* without redirects and broken bodies it is the answer itself.            *)
LEMMA ReplyMeans ==
  ASSUME NEW fate \in Fates, NEW a \in {"ok", "notfound", "rejected"}
  PROVE  /\ Below400(Reply(fate, a)) /\ Reply(fate, a) # "redirect"
              => Handled(fate) /\ a = "ok"
         /\ fate # "redirected" => Reply(fate, a) # "redirect"
         /\ fate \notin {"garbled", "redirected"} /\ Below400(Reply(fate, a))
              => Reply(fate, a) = "ok"
<1>1. CASE fate = "answered"
  <2>1. Reply(fate, a) = a
    BY <1>1 DEF Reply
  <2> QED BY <1>1, <2>1 DEF Below400, Handled
<1>2. CASE fate = "garbled"
  <2>1. Reply(fate, a) = IF a = "ok" THEN "garbled" ELSE a
    BY <1>2, Zenon DEF Reply
  <2> QED BY <1>2, <2>1 DEF Below400, Handled
<1>3. CASE fate = "refused"
  <2>1. Reply(fate, a) = "rejected"
    BY <1>3, Zenon DEF Reply
  <2> QED BY <1>3, <2>1 DEF Below400
<1>4. CASE fate \in {"unanswered", "unsent"}
  <2>1. Reply(fate, a) = "lost"
    BY <1>4, Zenon DEF Reply
  <2> QED BY <1>4, <2>1 DEF Below400
<1>5. CASE fate = "redirected"
  <2>1. Reply(fate, a) = "redirect"
    BY <1>5, Zenon DEF Reply
  <2> QED BY <1>5, <2>1 DEF Below400
<1> QED
  BY <1>1, <1>2, <1>3, <1>4, <1>5 DEF Fates

-----------------------------------------------------------------------------
(* Where the parts begin in the stream.                                    *)

Base(n) == PartBlocks * (n - 1)

(* The parts follow each other, and one that begins in the stream is a     *)
(* part of the model.                                                      *)
LEMMA BaseFacts ==
  /\ Base(1) = 0
  /\ \A n \in Nat \ {0} : /\ Base(n) \in Nat
                          /\ Base(n + 1) = Base(n) + PartBlocks
                          /\ Base(n) <= Blocks => n \in Parts
  /\ Parts \subseteq Nat \ {0} /\ 1 \in Parts
<1>1. Blocks \in Nat /\ PartBlocks \in Nat \ {0}
  BY UploadStreamAssumption
<1> DEFINE q == Blocks \div PartBlocks
<1>2. q \in Int /\ PartBlocks * q <= Blocks /\ Blocks < PartBlocks * (q + 1)
  BY <1>1, SMT
<1>3. Parts = 1 .. q + 1
  BY DEF Parts
<1> HIDE DEF q
<1>4. q >= 0
  BY <1>1, <1>2, SMT
<1>5. Base(1) = 0
  BY <1>1 DEF Base
<1>6. ASSUME NEW n \in Nat \ {0}
      PROVE  /\ Base(n) \in Nat
             /\ Base(n + 1) = Base(n) + PartBlocks
             /\ Base(n) <= Blocks => n \in Parts
  <2>1. PartBlocks * (n - 1) \in Nat
        /\ PartBlocks * (n + 1 - 1) = PartBlocks * (n - 1) + PartBlocks
    BY <1>1, SMT
  <2>2. n - 1 >= q + 1 => PartBlocks * (n - 1) >= PartBlocks * (q + 1)
    BY <1>1, <1>2, SMT
  <2>3. PartBlocks * (q + 1) \in Int
    BY <1>1, <1>2, SMT
  <2> QED
    BY <1>1, <1>2, <1>3, <2>1, <2>2, <2>3 DEF Base
<1> QED
  BY <1>2, <1>3, <1>4, <1>5, <1>6

-----------------------------------------------------------------------------
(* The caller's place in the stream, and the types, which rest on it: the  *)
(* number of a part is bounded because the stream is.                      *)

Unwritten == IF main \in {"create", "write"} THEN 1 ELSE 0

Place ==
  /\ Base(num) + size + Unwritten <= read
  /\ ~err /\ main # "panicked" => Base(num) + size + Unwritten = read
  /\ main \in {"read", "create", "write"} => size < PartBlocks
  /\ main = "initiate" => size = PartBlocks
  /\ main \in {"read", "create", "write", "initiate", "putobject", "lastpart",
               "wait", "complete"} => ~err
  /\ main \in {"write", "initiate"} => out
  /\ main = "create" => ~out
  /\ ~out => size = 0
  /\ \A w \in Parts : worker[w] = "unborn" <=> w >= num

LEMMA ActorTypes == 0 \in Actors /\ Parts \subseteq Actors
BY DEF Actors

LEMMA PieceTypes ==
  /\ NoPart \in Pieces
  /\ \A i \in Parts : FullPart(i) \in Pieces
  /\ num \in Parts /\ size \in 0 .. PartBlocks => LastPart \in Pieces
BY DEF Pieces, LastPart

(* What a request of actor a leaves of its call has its type.              *)
LEMMA KeepType ==
  ASSUME call \in [Actors -> Calls], NEW a \in Actors, NEW fate \in Fates,
         NEW ans \in Answers, Keep(a, After(a, fate, ans))
  PROVE  call' \in [Actors -> Calls]
<1>1. Reply(fate, ans) \in Responses
  BY CallTypes
<1>2. After(a, fate, ans) \in Calls
  BY <1>1, CallTypes DEF After
<1> QED
  BY <1>2, CallTypes DEF Keep

LEMMA InitStream == Init => TypeOK /\ Place
<1> SUFFICES ASSUME Init PROVE TypeOK /\ Place
  OBVIOUS
<1>1. call \in [Actors -> Calls]
  BY CallTypes DEF Init
<1>2. parts \in [Parts -> Pieces] /\ stored \in [Parts -> Pieces]
  BY PieceTypes DEF Init
<1>3. /\ 0 \in 0 .. Blocks /\ 0 \in 0 .. PartBlocks /\ 1 \in Parts /\ Parts \subseteq Nat \ {0}
      /\ \A i \in Parts : i >= 1
  BY BaseFacts, UploadStreamAssumption
<1>4. TypeOK
  BY <1>1, <1>2, <1>3 DEF Init, TypeOK
<1> QED
  BY <1>3, <1>4, BaseFacts, UploadStreamAssumption DEF Init, Place, Unwritten

(* The file that has been filled goes to a goroutine.                      *)
LEMMA StartWorkerKeeps ==
  ASSUME TypeOK, Place, StartWorker, err' = err, read' = read, ~err,
         Base(num) + PartBlocks = read
  PROVE  /\ Place'
         /\ num' \in Parts /\ size' \in 0 .. PartBlocks /\ out' \in BOOLEAN
         /\ main' = "read"
         /\ worker' \in [Parts -> {"unborn", "enter", "open", "send", "wgdone",
                                   "remove", "releasetmp", "releaseup", "gone"}]
<1>0. /\ Blocks \in Nat /\ PartBlocks \in Nat \ {0} /\ num \in Nat \ {0}
      /\ read \in 0 .. Blocks /\ num \in Parts
  BY UploadStreamAssumption, BaseFacts DEF TypeOK
<1>1. Base(num + 1) = Base(num) + PartBlocks
  BY <1>0, BaseFacts
<1>2. num + 1 \in Parts
  BY <1>0, <1>1, BaseFacts
<1>3. \A w \in Parts : worker'[w] = "unborn" <=> w >= num + 1
  BY <1>0, BaseFacts DEF StartWorker, Place, TypeOK
<1> QED
  <2>1. /\ num' = num + 1 /\ size' = 0 /\ out' = FALSE /\ main' = "read" /\ ~err'
        /\ read' = read /\ size \in 0 .. PartBlocks
    BY DEF StartWorker, TypeOK
  <2>2. Base(num') + size' = read'
    BY <1>0, <1>1, <2>1, BaseFacts
  <2>3. worker' \in [Parts -> {"unborn", "enter", "open", "send", "wgdone",
                               "remove", "releasetmp", "releaseup", "gone"}]
    BY DEF StartWorker, TypeOK
  <2>4. (Base(num))' = Base(num')
    BY DEF Base
  <2>5. Unwritten' = 0
    BY <2>1 DEF Unwritten
  <2>6. (Base(num) + size + Unwritten)' = read'
    BY <1>0, <2>1, <2>2, <2>4, <2>5, BaseFacts
  <2>7. Place'
    BY <1>0, <1>3, <2>1, <2>6 DEF Place
  <2>8. num' \in Parts /\ size' \in 0 .. PartBlocks
    BY <1>0, <1>2, <2>1
  <2>9. out' \in BOOLEAN /\ main' = "read"
    BY <2>1
  <2> QED
    BY <2>3, <2>7, <2>8, <2>9

LEMMA NextStream == TypeOK /\ Place /\ [Next]_vars => TypeOK' /\ Place'
<1> SUFFICES ASSUME TypeOK, Place, [Next]_vars PROVE TypeOK' /\ Place'
  OBVIOUS
<1> USE DEF stream, disk, result, service
<1>0. /\ NetFates \subseteq Fates /\ 0 \in Actors /\ Parts \subseteq Actors
      /\ Blocks \in Nat /\ PartBlocks \in Nat \ {0} /\ Parts \subseteq Nat \ {0}
      /\ Base(num) \in Nat
      /\ "ok" \in Answers /\ IfOpen("ok") \in Answers
  BY UploadStreamAssumption, ActorTypes, BaseFacts DEF TypeOK, Answers, IfOpen
<1>p. LastPart \in Pieces /\ NoPart \in Pieces /\ \A i \in Parts : FullPart(i) \in Pieces
  BY PieceTypes DEF TypeOK
<1>1. CASE ReadBlock
  BY <1>0, <1>1 DEF ReadBlock, TypeOK, Place, Unwritten
<1>2. CASE Create
  <2>1. tmp' \in Nat /\ main = "create" /\ ~err /\ size = 0
    BY <1>2 DEF Create, TypeOK, Place
  <2>2. CASE out' = TRUE /\ files' = files \cup {num} /\ main' = "write" /\ UNCHANGED err
    BY <1>0, <1>2, <2>1, <2>2 DEF Create, TypeOK, Place, Unwritten
  <2>3. CASE Leave /\ UNCHANGED <<out, files>>
    BY <1>0, <1>2, <2>1, <2>3 DEF Create, Leave, TypeOK, Place, Unwritten
  <2> QED
    BY <1>2, <2>2, <2>3 DEF Create
<1>3. CASE Write
  <2>1. CASE Leave /\ UNCHANGED <<worker, size, out, num>>
    BY <1>0, <1>3, <2>1 DEF Write, Leave, TypeOK, Place, Unwritten
  <2>2. CASE size + 1 < PartBlocks /\ ~err'
    <3>1. /\ main = "write" /\ main' = "read" /\ size' = size + 1
          /\ UNCHANGED <<worker, read, out, num, disk, call, ok, err, upload, parts, service>>
      BY <1>3, <2>2 DEF Write, Leave
    <3> QED
      BY <1>0, <2>2, <3>1 DEF TypeOK, Place, Unwritten
  <2>3. CASE ~(size + 1 < PartBlocks) /\ ~upload /\ ~err'
    <3>1. /\ main = "write" /\ main' = "initiate" /\ size' = size + 1
          /\ UNCHANGED <<worker, read, out, num, disk, call, ok, err, upload, parts, service>>
      BY <1>3, <2>3 DEF Write, Leave
    <3> QED
      BY <1>0, <2>3, <3>1 DEF TypeOK, Place, Unwritten
  <2>4. CASE ~(size + 1 < PartBlocks) /\ upload /\ ~err'
    <3>1. StartWorker /\ UNCHANGED <<read, disk, call, ok, err, upload, parts, service>>
      BY <1>3, <2>4 DEF Write, Leave
    <3>2. Base(num) + PartBlocks = read /\ ~err
      BY <1>0, <1>3, <2>4 DEF Write, Place, TypeOK, Unwritten
    <3> QED
      BY <3>1, <3>2, StartWorkerKeeps DEF TypeOK
  <2>5. (Leave /\ UNCHANGED <<worker, size, out, num>>) \/ ~err'
    BY <1>3 DEF Write, Place
  <2> QED BY <2>1, <2>2, <2>3, <2>4, <2>5
<1>4. ASSUME NEW fate \in NetFates, Initiate(fate) PROVE TypeOK' /\ Place'
  <2> DEFINE c == After(0, fate, "ok")
  <2>1. call' \in [Actors -> Calls]
    BY <1>0, <1>4, KeepType DEF Initiate, TypeOK
  <2>2. upload' \in BOOLEAN /\ mpu' \in {"none", "open", "aborted", "completed"}
    BY <1>4 DEF Initiate, TypeOK
  <2>3. main = "initiate" /\ UNCHANGED <<read, disk, parts, stored, object>>
    BY <1>4 DEF Initiate
  <2>4. Base(num) + PartBlocks = read /\ ~err /\ size = PartBlocks /\ out
    BY <1>0, <2>3 DEF Place, TypeOK, Unwritten
  <2>5. \/ UNCHANGED <<main, worker, size, out, num, ok, err>>
        \/ LeaveFailed /\ UNCHANGED <<worker, size, out, num>>
        \/ StartWorker /\ UNCHANGED <<ok, err>>
    BY <1>4 DEF Initiate
  <2>6. CASE UNCHANGED <<main, worker, size, out, num, ok, err>>
    BY <1>0, <2>1, <2>2, <2>3, <2>6 DEF TypeOK, Place, Unwritten
  <2>7. CASE LeaveFailed /\ UNCHANGED <<worker, size, out, num>>
    BY <1>0, <2>1, <2>2, <2>3, <2>4, <2>7 DEF LeaveFailed, Leave, TypeOK, Place, Unwritten
  <2>8. CASE StartWorker /\ UNCHANGED <<ok, err>>
    BY <2>1, <2>2, <2>3, <2>4, <2>8, StartWorkerKeeps DEF TypeOK
  <2> QED BY <2>5, <2>6, <2>7, <2>8
<1>5. CASE Eof
  BY <1>0, <1>5 DEF Eof, RemoveLast, TypeOK, Place, Unwritten
<1>6. ASSUME NEW fate \in NetFates, PutObject(fate) PROVE TypeOK' /\ Place'
  <2>1. call' \in [Actors -> Calls]
    BY <1>0, <1>6, KeepType DEF PutObject, TypeOK
  <2>2. object' \subseteq Pieces
    BY <1>6, <1>p DEF PutObject, TypeOK
  <2> QED
    BY <1>0, <1>6, <2>1, <2>2
       DEF PutObject, PutReturnsErr, ReturnsErr, RemoveLast, TypeOK, Place, Unwritten
<1>7. ASSUME NEW fate \in NetFates, SendLastPart(fate) PROVE TypeOK' /\ Place'
  <2>1. call' \in [Actors -> Calls]
    BY <1>0, <1>7, KeepType DEF SendLastPart, TypeOK
  <2>2. stored' \in [Parts -> Pieces] /\ parts' \in [Parts -> Pieces]
    BY <1>7, <1>p DEF SendLastPart, TypeOK
  <2> QED
    BY <1>0, <1>7, <2>1, <2>2
       DEF SendLastPart, Leave, RemoveLast, TypeOK, Place, Unwritten
<1>8. CASE Wait
  BY <1>0, <1>8 DEF Wait, RemoveLast, TypeOK, Place, Unwritten
<1>9. ASSUME NEW fate \in NetFates, Complete(fate) PROVE TypeOK' /\ Place'
  <2>1. call' \in [Actors -> Calls]
    BY <1>0, <1>9, KeepType DEF Complete, Answers, IfOpen, TypeOK
  <2>2. /\ mpu' \in {"none", "open", "aborted", "completed"}
        /\ object' \subseteq Pieces
    BY <1>9 DEF Complete, Named, TypeOK
  <2> QED
    BY <1>0, <1>9, <2>1, <2>2
       DEF Complete, LeaveFailed, Leave, RemoveLast, TypeOK, Place, Unwritten
<1>10. ASSUME NEW fate \in NetFates, Abort(fate) PROVE TypeOK' /\ Place'
  <2>1. call' \in [Actors -> Calls]
    BY <1>0, <1>10, KeepType DEF Abort, TypeOK
  <2> QED
    BY <1>0, <1>10, <2>1 DEF Abort, TypeOK, Place, Unwritten
<1>11. CASE Exit
  BY <1>0, <1>11 DEF Exit, TypeOK, Place, Unwritten
<1>12. ASSUME NEW w \in Parts, NEW from \in {"enter", "open", "wgdone", "remove",
                                              "releasetmp", "releaseup"},
              NEW to \in {"open", "send", "wgdone", "remove", "releasetmp",
                          "releaseup", "gone"},
              Step(w, from, to), ok' \in BOOLEAN,
              files' \subseteq files, tmp' \in Nat, up' \in Nat,
              UNCHANGED <<main, stream, call, err, upload, parts, service>>
       PROVE  TypeOK' /\ Place'
  <2>1. \A x \in Parts : worker'[x] = "unborn" <=> worker[x] = "unborn"
    BY <1>12 DEF Step, TypeOK
  <2> QED
    BY <1>12, <2>1 DEF Step, TypeOK, Place, Unwritten
<1>13. ASSUME NEW w \in Parts, NilUpload(w) PROVE TypeOK' /\ Place'
  BY <1>0, <1>13 DEF NilUpload, TypeOK, Place, Unwritten
<1>14. ASSUME NEW w \in Parts, NEW fate \in NetFates, SendPart(w, fate)
       PROVE  TypeOK' /\ Place'
  <2>1. call' \in [Actors -> Calls]
    BY <1>0, <1>14, KeepType DEF SendPart, TypeOK
  <2>2. stored' \in [Parts -> Pieces] /\ parts' \in [Parts -> Pieces]
    BY <1>14, <1>p DEF SendPart, TypeOK
  <2>3. \A x \in Parts : worker'[x] = "unborn" <=> worker[x] = "unborn"
    BY <1>14 DEF SendPart, TypeOK
  <2> QED
    BY <1>0, <1>14, <2>1, <2>2, <2>3 DEF SendPart, TypeOK, Place, Unwritten
<1>15. ASSUME NEW w \in Parts,
              Enter(w) \/ Open(w) \/ WgDone(w) \/ Remove(w) \/ ReleaseTmp(w)
                \/ ReleaseUp(w)
       PROVE  TypeOK' /\ Place'
  <2>1. tmp \in Nat /\ up \in Nat /\ ok \in BOOLEAN
    BY DEF TypeOK
  <2>2. CASE Enter(w)
    BY <1>12, <2>1, <2>2 DEF Enter
  <2>3. CASE Open(w)
    BY <1>12, <2>1, <2>3 DEF Open
  <2>4. CASE WgDone(w) \/ Remove(w)
    BY <1>12, <2>1, <2>4 DEF WgDone, Remove
  <2>5. CASE ReleaseTmp(w)
    BY <1>12, <2>1, <2>5 DEF ReleaseTmp
  <2>6. CASE ReleaseUp(w)
    BY <1>12, <2>1, <2>6 DEF ReleaseUp
  <2> QED
    BY <1>15, <2>2, <2>3, <2>4, <2>5, <2>6
<1>16. CASE UNCHANGED vars
  BY <1>16 DEF vars, TypeOK, Place, Unwritten
<1> QED
  BY <1>1, <1>2, <1>3, <1>4, <1>5, <1>6, <1>7, <1>8, <1>9, <1>10, <1>11, <1>13,
     <1>14, <1>15, <1>16
     DEF Next, Caller, CallerRequest, Worker, Finish

(* The variables of Upload keep their types.                               *)
THEOREM TypeCorrect == Spec => []TypeOK
BY InitStream, NextStream, PTL DEF Spec

-----------------------------------------------------------------------------
(* The tokens of the two channels.  A file is on the disk only under a     *)
(* token of tmpFileWriteChannel, which the caller takes and hands over     *)
(* with the file; a part is sent only under one of uploadChannel.          *)

KeepingStates == {"enter", "open", "send", "wgdone", "remove", "releasetmp"}
SendingStates == {"open", "send", "wgdone", "remove", "releasetmp", "releaseup"}

Keeping == {w \in Parts : worker[w] \in KeepingStates}
Uploading == {w \in Parts : worker[w] \in SendingStates}
Writing == IF out THEN 1 ELSE 0

FileStates == KeepingStates \ {"releasetmp"}
FilesHeld == \A f \in files : worker[f] \in FileStates \/ (out /\ f = num)

ChannelInv ==
  /\ tmp <= Concurrency + 1
  /\ Cardinality(Keeping) + Writing <= tmp
  /\ up = Cardinality(Uploading)
  /\ up <= Concurrency
  /\ FilesHeld

LEMMA HoldersFinite ==
  /\ IsFiniteSet(Parts)
  /\ IsFiniteSet(Keeping) /\ Cardinality(Keeping) \in Nat
  /\ IsFiniteSet(Uploading) /\ Cardinality(Uploading) \in Nat
<1>1. IsFiniteSet(Parts)
  <2>1. (Blocks \div PartBlocks) + 1 \in Int
    BY UploadStreamAssumption, SMT
  <2> QED
    BY <2>1, FS_Interval DEF Parts
<1>2. Keeping \subseteq Parts /\ Uploading \subseteq Parts
  BY DEF Keeping, Uploading
<1> QED
  BY <1>1, <1>2, FS_Subset, FS_CardinalityType

LEMMA InitChannels == Init => ChannelInv
<1> SUFFICES ASSUME Init PROVE ChannelInv
  OBVIOUS
<1>1. Keeping = {} /\ Uploading = {}
  BY DEF Init, Keeping, Uploading, KeepingStates, SendingStates
<1> QED
  BY <1>1, FS_EmptySet, UploadStreamAssumption DEF Init, ChannelInv, FilesHeld, Writing

(* A goroutine that gets or gives back a token, or neither.                *)
LEMMA HoldersChange ==
  ASSUME TypeOK, NEW w \in Parts, NEW to,
         worker' = [worker EXCEPT ![w] = to]
  PROVE  /\ worker[w] \in KeepingStates /\ to \in KeepingStates =>
               Cardinality(Keeping') = Cardinality(Keeping)
         /\ worker[w] \notin KeepingStates /\ to \notin KeepingStates =>
               Cardinality(Keeping') = Cardinality(Keeping)
         /\ worker[w] \notin KeepingStates /\ to \in KeepingStates =>
               Cardinality(Keeping') = Cardinality(Keeping) + 1
         /\ worker[w] \in KeepingStates /\ to \notin KeepingStates =>
               Cardinality(Keeping') = Cardinality(Keeping) - 1
         /\ worker[w] \in SendingStates /\ to \in SendingStates =>
               Cardinality(Uploading') = Cardinality(Uploading)
         /\ worker[w] \notin SendingStates /\ to \notin SendingStates =>
               Cardinality(Uploading') = Cardinality(Uploading)
         /\ worker[w] \notin SendingStates /\ to \in SendingStates =>
               Cardinality(Uploading') = Cardinality(Uploading) + 1
         /\ worker[w] \in SendingStates /\ to \notin SendingStates =>
               Cardinality(Uploading') = Cardinality(Uploading) - 1
<1>1. \A x \in Parts : worker'[x] = IF x = w THEN to ELSE worker[x]
  BY DEF TypeOK
<1>2. /\ (w \in Keeping) = (worker[w] \in KeepingStates)
      /\ (w \in Uploading) = (worker[w] \in SendingStates)
  BY DEF Keeping, Uploading
<1>3. /\ to \in KeepingStates => Keeping' = Keeping \cup {w}
      /\ to \notin KeepingStates => Keeping' = Keeping \ {w}
  BY <1>1 DEF Keeping
<1>4. /\ to \in SendingStates => Uploading' = Uploading \cup {w}
      /\ to \notin SendingStates => Uploading' = Uploading \ {w}
  BY <1>1 DEF Uploading
<1>5. /\ w \in Keeping => Keeping \cup {w} = Keeping
      /\ w \notin Keeping => Keeping \ {w} = Keeping
      /\ w \in Uploading => Uploading \cup {w} = Uploading
      /\ w \notin Uploading => Uploading \ {w} = Uploading
  OBVIOUS
<1>6. /\ w \notin Keeping => Cardinality(Keeping \cup {w}) = Cardinality(Keeping) + 1
      /\ w \notin Uploading => Cardinality(Uploading \cup {w}) = Cardinality(Uploading) + 1
  BY HoldersFinite, FS_AddElement
<1>7. /\ w \in Keeping => Cardinality(Keeping \ {w}) = Cardinality(Keeping) - 1
      /\ w \in Uploading => Cardinality(Uploading \ {w}) = Cardinality(Uploading) - 1
  BY HoldersFinite, FS_RemoveElement
<1> QED
  BY <1>2, <1>3, <1>4, <1>5, <1>6, <1>7

(* Steps that move no token.                                               *)
LEMMA SameTokens ==
  ASSUME ChannelInv, UNCHANGED <<worker, out, num, tmp, up>>, files' \subseteq files
  PROVE  ChannelInv'
<1>1. Keeping' = Keeping /\ Uploading' = Uploading /\ Writing' = Writing
  BY DEF Keeping, Uploading, Writing
<1> QED
  BY <1>1 DEF ChannelInv, FilesHeld

LEMMA NextChannels ==
  TypeOK /\ Place /\ ChannelInv /\ [Next]_vars => ChannelInv'
<1> SUFFICES ASSUME TypeOK, Place, ChannelInv, [Next]_vars PROVE ChannelInv'
  OBVIOUS
<1> USE DEF stream, disk, result, service
<1>0. /\ tmp \in Nat /\ up \in Nat /\ Concurrency \in Nat /\ num \in Parts
      /\ Cardinality(Keeping) \in Nat /\ Cardinality(Uploading) \in Nat
      /\ Parts \subseteq Nat /\ files \subseteq Parts /\ Writing \in {0, 1}
  BY UploadStreamAssumption, HoldersFinite, BaseFacts DEF TypeOK, Writing
<1>a. ASSUME StartWorker, out, UNCHANGED disk PROVE ChannelInv'
  <2>1. worker[num] = "unborn"
    BY <1>0 DEF Place
  <2>2. worker' = [worker EXCEPT ![num] = "enter"] /\ out' = FALSE
    BY <1>a DEF StartWorker
  <2>3. /\ Cardinality(Keeping') = Cardinality(Keeping) + 1
        /\ Cardinality(Uploading') = Cardinality(Uploading)
    BY <1>0, <2>1, <2>2, HoldersChange DEF KeepingStates, SendingStates
  <2>4. Writing = 1 /\ Writing' = 0
    BY <1>a, <2>2 DEF Writing
  <2>5. (Cardinality(Keeping) + Writing)' = Cardinality(Keeping) + Writing
    BY <1>0, <2>3, <2>4
  <2>6. \A f \in files : worker'[f] \in FileStates
    BY <1>0, <2>2 DEF ChannelInv, FilesHeld, TypeOK, KeepingStates, FileStates
  <2> QED
    BY <1>a, <2>3, <2>5, <2>6 DEF ChannelInv, FilesHeld
<1>1. CASE ReadBlock
  BY <1>1, SameTokens DEF ReadBlock
<1>2. CASE Create
  <2>1. /\ Keeping' = Keeping /\ Uploading' = Uploading
    BY <1>2 DEF Create, Keeping, Uploading
  <2>2. Writing = 0 /\ Writing' \in {0, 1}
    BY <1>2 DEF Create, Place, Writing
  <2>3. tmp' = tmp + 1 /\ tmp' <= Concurrency + 1
    BY <1>0, <1>2 DEF Create
  <2>4. (Cardinality(Keeping) + Writing <= tmp)'
    BY <1>0, <2>1, <2>2, <2>3 DEF ChannelInv
  <2>5. FilesHeld'
    BY <1>2 DEF Create, Place, ChannelInv, FilesHeld
  <2> QED
    BY <1>2, <2>1, <2>3, <2>4, <2>5 DEF Create, ChannelInv
<1>3. CASE Write
  <2>1. CASE UNCHANGED <<worker, out, num>>
    BY <1>3, <2>1, SameTokens DEF Write
  <2>2. CASE StartWorker
    BY <1>3, <2>2, <1>a DEF Write, Place
  <2> QED
    BY <1>3, <2>1, <2>2 DEF Write
<1>4. ASSUME NEW fate \in NetFates, Initiate(fate) PROVE ChannelInv'
  <2>1. CASE UNCHANGED <<worker, out, num>>
    BY <1>4, <2>1, SameTokens DEF Initiate
  <2>2. CASE StartWorker
    BY <1>4, <2>2, <1>a DEF Initiate, Place
  <2> QED
    BY <1>4, <2>1, <2>2 DEF Initiate
<1>5. CASE Eof
  BY <1>5, SameTokens DEF Eof, RemoveLast
<1>6. ASSUME NEW fate \in NetFates, PutObject(fate) PROVE ChannelInv'
  BY <1>6, SameTokens DEF PutObject, RemoveLast
<1>7. ASSUME NEW fate \in NetFates, SendLastPart(fate) PROVE ChannelInv'
  BY <1>7, SameTokens DEF SendLastPart, RemoveLast
<1>8. CASE Wait
  BY <1>8, SameTokens DEF Wait, RemoveLast
<1>9. ASSUME NEW fate \in NetFates, Complete(fate) PROVE ChannelInv'
  BY <1>9, SameTokens DEF Complete, RemoveLast
<1>10. ASSUME NEW fate \in NetFates, Abort(fate) PROVE ChannelInv'
  BY <1>10, SameTokens DEF Abort
<1>11. CASE Exit
  BY <1>11, SameTokens DEF Exit
<1>b. ASSUME NEW w \in Parts, NEW to,
             worker' = [worker EXCEPT ![w] = to], UNCHANGED <<out, num>>,
             files' \subseteq files,
             w \in files' => to \in FileStates \/ (out /\ w = num)
      PROVE  FilesHeld'
  <2>1. ASSUME NEW f \in files'
        PROVE  worker'[f] \in FileStates \/ (out' /\ f = num')
    <3>1. f \in Parts /\ f \in files
      BY <1>0, <1>b
    <3>2. worker'[f] = IF f = w THEN to ELSE worker[f]
      BY <1>b, <3>1 DEF TypeOK
    <3>3. worker[f] \in FileStates \/ (out /\ f = num)
      BY <3>1 DEF ChannelInv, FilesHeld
    <3> QED
      BY <1>b, <3>2, <3>3
  <2> QED
    BY <2>1 DEF FilesHeld
<1>s. /\ "releasetmp" \in KeepingStates /\ "releasetmp" \in SendingStates
      /\ "releaseup" \notin KeepingStates /\ "releaseup" \in SendingStates
      /\ "gone" \notin KeepingStates /\ "gone" \notin SendingStates
      /\ "open" \in FileStates /\ FileStates \subseteq KeepingStates
      /\ \A to \in KeepingStates : to # "releasetmp" => to \in FileStates
      /\ "releasetmp" \notin FileStates /\ "releaseup" \notin FileStates
  BY DEF KeepingStates, SendingStates, FileStates
<1>c. ASSUME NEW w \in Parts, NEW from \in KeepingStates \cap SendingStates,
             NEW to \in KeepingStates \cap SendingStates,
             worker[w] = from, worker' = [worker EXCEPT ![w] = to],
             UNCHANGED <<out, num, tmp, up>>,
             files' = IF to = "releasetmp" THEN files \ {w} ELSE files
      PROVE  ChannelInv'
  <2>1. /\ Cardinality(Keeping') = Cardinality(Keeping)
        /\ Cardinality(Uploading') = Cardinality(Uploading)
    BY <1>c, HoldersChange
  <2>2. Writing' = Writing
    BY <1>c DEF Writing
  <2>3. FilesHeld'
    BY <1>b, <1>c, <1>s
  <2> QED
    BY <1>c, <2>1, <2>2, <2>3 DEF ChannelInv
<1>12. ASSUME NEW w \in Parts, Enter(w) PROVE ChannelInv'
  <2>1. worker[w] = "enter" /\ worker' = [worker EXCEPT ![w] = "open"]
    BY <1>12 DEF Enter, Step
  <2>2. /\ Cardinality(Keeping') = Cardinality(Keeping)
        /\ Cardinality(Uploading') = Cardinality(Uploading) + 1
    BY <2>1, HoldersChange DEF KeepingStates, SendingStates
  <2>3. Writing' = Writing /\ up' = up + 1 /\ up' <= Concurrency
    BY <1>0, <1>12 DEF Enter, Writing
  <2>4. FilesHeld'
    BY <1>12, <1>b, <1>s, <2>1 DEF Enter
  <2> QED
    BY <1>12, <2>2, <2>3, <2>4 DEF Enter, ChannelInv
<1>13. ASSUME NEW w \in Parts, Open(w) PROVE ChannelInv'
  BY <1>13, <1>c DEF Open, Step, KeepingStates, SendingStates
<1>14. ASSUME NEW w \in Parts, NilUpload(w) PROVE ChannelInv'
  BY <1>14, SameTokens DEF NilUpload
<1>15. ASSUME NEW w \in Parts, NEW fate \in NetFates, SendPart(w, fate)
       PROVE  ChannelInv'
  <2>1. CASE UNCHANGED worker
    BY <1>15, <2>1, SameTokens DEF SendPart
  <2>2. CASE worker' = [worker EXCEPT ![w] = "wgdone"]
    BY <1>15, <2>2, <1>c DEF SendPart, KeepingStates, SendingStates
  <2> QED
    BY <1>15, <2>1, <2>2 DEF SendPart
<1>16. ASSUME NEW w \in Parts, WgDone(w) PROVE ChannelInv'
  BY <1>16, <1>c DEF WgDone, Step, KeepingStates, SendingStates
<1>17. ASSUME NEW w \in Parts, Remove(w) PROVE ChannelInv'
  BY <1>17, <1>c DEF Remove, Step, KeepingStates, SendingStates
<1>18. ASSUME NEW w \in Parts, ReleaseTmp(w) PROVE ChannelInv'
  <2>1. worker[w] = "releasetmp" /\ worker' = [worker EXCEPT ![w] = "releaseup"]
    BY <1>18 DEF ReleaseTmp, Step
  <2>2. /\ Cardinality(Keeping') = Cardinality(Keeping) - 1
        /\ Cardinality(Uploading') = Cardinality(Uploading)
    BY <1>s, <2>1, HoldersChange
  <2>3. Writing' = Writing /\ tmp' = tmp - 1
    BY <1>0, <1>18 DEF ReleaseTmp, Writing
  <2>4. w \in files => out /\ w = num
    BY <1>s, <2>1 DEF ChannelInv, FilesHeld
  <2>5. FilesHeld'
    BY <1>18, <1>b, <2>1, <2>4 DEF ReleaseTmp
  <2>6. (Cardinality(Keeping) + Writing <= tmp)' /\ tmp' <= Concurrency + 1
    BY <1>0, <2>2, <2>3 DEF ChannelInv
  <2> QED
    BY <1>18, <2>2, <2>5, <2>6 DEF ReleaseTmp, ChannelInv
<1>19. ASSUME NEW w \in Parts, ReleaseUp(w) PROVE ChannelInv'
  <2>1. worker[w] = "releaseup" /\ worker' = [worker EXCEPT ![w] = "gone"]
    BY <1>19 DEF ReleaseUp, Step
  <2>2. /\ Cardinality(Keeping') = Cardinality(Keeping)
        /\ Cardinality(Uploading') = Cardinality(Uploading) - 1
    BY <1>s, <2>1, HoldersChange
  <2>3. Writing' = Writing /\ up' = up - 1
    BY <1>0, <1>19 DEF ReleaseUp, Writing
  <2>4. w \in files => out /\ w = num
    BY <1>s, <2>1 DEF ChannelInv, FilesHeld
  <2>5. FilesHeld'
    BY <1>19, <1>b, <2>1, <2>4 DEF ReleaseUp
  <2>6. up' = Cardinality(Uploading') /\ up' <= Concurrency
    BY <1>0, <2>2, <2>3 DEF ChannelInv
  <2> QED
    BY <1>19, <2>2, <2>3, <2>5, <2>6 DEF ReleaseUp, ChannelInv
<1>20. CASE UNCHANGED vars
  BY <1>20, SameTokens DEF vars
<1> QED
  BY <1>1, <1>2, <1>3, <1>4, <1>5, <1>6, <1>7, <1>8, <1>9, <1>10, <1>11, <1>12,
     <1>13, <1>14, <1>15, <1>16, <1>17, <1>18, <1>19, <1>20
     DEF Next, Caller, CallerRequest, Worker, Finish

(* One temporary file is being written and at most Concurrency more are on *)
(* the disk.                                                               *)
THEOREM DiskBound == Spec => []FilesBounded
<1>1. TypeOK /\ Place /\ ChannelInv => FilesBounded
  <2> SUFFICES ASSUME TypeOK, Place, ChannelInv PROVE FilesBounded
    OBVIOUS
  <2>0. /\ Cardinality(Keeping) \in Nat /\ tmp \in Nat /\ Concurrency \in Nat
        /\ num \in Parts /\ files \subseteq Parts /\ IsFiniteSet(Keeping)
    BY HoldersFinite, UploadStreamAssumption DEF TypeOK
  <2>1. CASE out
    <3>1. files \subseteq Keeping \cup {num}
      BY <2>0 DEF ChannelInv, FilesHeld, FileStates, Keeping
    <3>2. num \notin Keeping
      BY <2>0, BaseFacts DEF Keeping, KeepingStates, Place
    <3>3. /\ IsFiniteSet(Keeping \cup {num})
          /\ Cardinality(Keeping \cup {num}) = Cardinality(Keeping) + 1
      BY <2>0, <3>2, FS_AddElement
    <3>4. Cardinality(files) <= Cardinality(Keeping \cup {num}) /\ Cardinality(files) \in Nat
      BY <3>1, <3>3, FS_Subset, FS_CardinalityType
    <3>5. Cardinality(Keeping) + 1 <= tmp /\ tmp <= Concurrency + 1
      BY <2>1 DEF ChannelInv, Writing
    <3> QED
      BY <2>0, <3>3, <3>4, <3>5 DEF FilesBounded
  <2>2. CASE ~out
    <3>1. files \subseteq Keeping
      BY <2>0, <2>2 DEF ChannelInv, FilesHeld, FileStates, Keeping
    <3>2. Cardinality(files) <= Cardinality(Keeping) /\ Cardinality(files) \in Nat
      BY <2>0, <3>1, FS_Subset, FS_CardinalityType
    <3>3. Cardinality(Keeping) + 0 <= tmp /\ tmp <= Concurrency + 1
      BY <2>2 DEF ChannelInv, Writing
    <3> QED
      BY <2>0, <3>2, <3>3 DEF FilesBounded
  <2> QED BY <2>1, <2>2
<1> QED
  BY <1>1, InitStream, NextStream, InitChannels, NextChannels, PTL DEF Spec

(* No more than Concurrency goroutines send a part at a time.              *)
THEOREM UploadBound == Spec => []UploadsBounded
<1>1. ChannelInv => UploadsBounded
  <2> SUFFICES ASSUME ChannelInv PROVE UploadsBounded
    OBVIOUS
  <2> DEFINE Busy == {w \in Parts : worker[w] \in {"open", "send"}}
  <2>1. Busy \subseteq Uploading
    BY DEF Uploading, SendingStates
  <2>2. Cardinality(Busy) <= Cardinality(Uploading) /\ Cardinality(Busy) \in Nat
    BY <2>1, HoldersFinite, FS_Subset, FS_CardinalityType
  <2>3. Cardinality(Uploading) \in Nat /\ Cardinality(Uploading) <= Concurrency
        /\ Concurrency \in Nat
    BY HoldersFinite, UploadStreamAssumption DEF ChannelInv
  <2> HIDE DEF Busy
  <2>4. Cardinality(Busy) <= Concurrency
    BY <2>2, <2>3
  <2> QED
    BY <2>4 DEF UploadsBounded, Busy
<1> QED
  BY <1>1, InitStream, NextStream, InitChannels, NextChannels, PTL DEF Spec

-----------------------------------------------------------------------------
(* Nobody waits for ever for a token.  While the caller is in its loop the *)
(* tokens of tmpFileWriteChannel are those of the goroutines and of the    *)
(* file being written, no fewer and no more: only a return leaves one.     *)

Looping == {"read", "create", "write", "initiate"}

ExactTokens == main \in Looping => tmp = Cardinality(Keeping) + Writing

LEMMA InitExact == Init => ExactTokens
<1> SUFFICES ASSUME Init PROVE ExactTokens
  OBVIOUS
<1>1. Keeping = {}
  BY DEF Init, Keeping, KeepingStates
<1> QED
  BY <1>1, FS_EmptySet DEF Init, ExactTokens, Writing

(* Steps that move no token and do not enter the loop.                     *)
LEMMA SameCount ==
  ASSUME ExactTokens, UNCHANGED <<worker, out, tmp>>,
         main' \in Looping => main \in Looping
  PROVE  ExactTokens'
<1>1. Keeping' = Keeping /\ Writing' = Writing
  BY DEF Keeping, Writing
<1> QED
  BY <1>1 DEF ExactTokens

LEMMA NextExact ==
  TypeOK /\ Place /\ ExactTokens /\ [Next]_vars => ExactTokens'
<1> SUFFICES ASSUME TypeOK, Place, ExactTokens, [Next]_vars PROVE ExactTokens'
  OBVIOUS
<1> USE DEF stream, disk, result, service
<1>0. /\ tmp \in Nat /\ num \in Parts
      /\ Cardinality(Keeping) \in Nat /\ Parts \subseteq Nat /\ Writing \in {0, 1}
  BY HoldersFinite, BaseFacts DEF TypeOK, Writing
<1>s. "releasetmp" \in KeepingStates /\ "releaseup" \notin KeepingStates
      /\ "gone" \notin KeepingStates
  BY DEF KeepingStates
<1>a. ASSUME StartWorker, main \in Looping, out, tmp' = tmp PROVE ExactTokens'
  <2>1. worker[num] = "unborn" /\ worker' = [worker EXCEPT ![num] = "enter"] /\ out' = FALSE
    BY <1>0, <1>a DEF StartWorker, Place
  <2>2. Cardinality(Keeping') = Cardinality(Keeping) + 1
    BY <1>0, <2>1, HoldersChange DEF KeepingStates
  <2>3. Writing = 1 /\ Writing' = 0
    BY <1>a, <2>1 DEF Writing
  <2> QED
    BY <1>0, <1>a, <2>2, <2>3 DEF ExactTokens
<1>1. CASE ReadBlock
  BY <1>1, SameCount DEF ReadBlock, Looping
<1>2. CASE Create
  <2>1. CASE Leave
    BY <2>1 DEF ExactTokens, Leave, Looping
  <2>2. CASE out' = TRUE
    <3>1. Keeping' = Keeping /\ main \in Looping /\ ~out /\ tmp' = tmp + 1
      BY <1>2 DEF Create, Keeping, Place, Looping
    <3>2. Writing = 0 /\ Writing' = 1
      BY <2>2, <3>1 DEF Writing
    <3> QED
      BY <1>0, <3>1, <3>2 DEF ExactTokens
  <2> QED
    BY <1>2, <2>1, <2>2 DEF Create
<1>3. CASE Write
  <2>1. CASE UNCHANGED <<worker, out>>
    BY <1>3, <2>1, SameCount DEF Write, Looping
  <2>2. CASE StartWorker
    BY <1>3, <2>2, <1>a DEF Write, Place, Looping
  <2> QED
    BY <1>3, <2>1, <2>2 DEF Write
<1>4. ASSUME NEW fate \in NetFates, Initiate(fate) PROVE ExactTokens'
  <2>1. CASE UNCHANGED <<worker, out>>
    BY <1>4, <2>1, SameCount DEF Initiate, Looping
  <2>2. CASE StartWorker
    BY <1>4, <2>2, <1>a DEF Initiate, Place, Looping
  <2> QED
    BY <1>4, <2>1, <2>2 DEF Initiate
<1>5. CASE \/ Eof \/ Wait \/ Exit
           \/ \E fate \in NetFates : \/ PutObject(fate) \/ SendLastPart(fate)
                                     \/ Complete(fate) \/ Abort(fate)
  <2>1. main' \notin Looping
    <3>1. CASE Eof \/ Wait \/ Exit
      BY <3>1 DEF Eof, Wait, Exit, Looping
    <3>2. CASE \E fate \in NetFates : PutObject(fate) \/ SendLastPart(fate)
      BY <3>2 DEF PutObject, SendLastPart, Leave, Looping
    <3>3. CASE \E fate \in NetFates : Complete(fate) \/ Abort(fate)
      BY <3>3 DEF Complete, Abort, LeaveFailed, Leave, Looping
    <3> QED
      BY <1>5, <3>1, <3>2, <3>3
  <2> QED
    BY <2>1 DEF ExactTokens
<1>b. ASSUME NEW w \in Parts, NEW to, worker' = [worker EXCEPT ![w] = to],
             UNCHANGED <<out, tmp, main>>,
             worker[w] \in KeepingStates, to \in KeepingStates
      PROVE  ExactTokens'
  <2>1. Cardinality(Keeping') = Cardinality(Keeping) /\ Writing' = Writing
    BY <1>b, HoldersChange DEF Writing
  <2> QED
    BY <1>b, <2>1 DEF ExactTokens
<1>6. ASSUME NEW w \in Parts, Enter(w) \/ Open(w) \/ WgDone(w) \/ Remove(w)
      PROVE  ExactTokens'
  BY <1>6, <1>b DEF Enter, Open, WgDone, Remove, Step, KeepingStates
<1>7. ASSUME NEW w \in Parts, NilUpload(w) PROVE ExactTokens'
  BY <1>7 DEF NilUpload, ExactTokens, Looping
<1>8. ASSUME NEW w \in Parts, NEW fate \in NetFates, SendPart(w, fate)
      PROVE  ExactTokens'
  <2>1. CASE UNCHANGED worker
    BY <1>8, <2>1, SameCount DEF SendPart, Looping
  <2>2. CASE worker' = [worker EXCEPT ![w] = "wgdone"] /\ main' = main
    BY <1>8, <2>2, <1>b DEF SendPart, KeepingStates
  <2> QED
    BY <1>8, <2>1, <2>2 DEF SendPart
<1>9. ASSUME NEW w \in Parts, ReleaseTmp(w) PROVE ExactTokens'
  <2>1. worker[w] = "releasetmp" /\ worker' = [worker EXCEPT ![w] = "releaseup"]
    BY <1>9 DEF ReleaseTmp, Step
  <2>2. Cardinality(Keeping') = Cardinality(Keeping) - 1
    BY <1>s, <2>1, HoldersChange
  <2>3. Writing' = Writing /\ tmp' = tmp - 1 /\ main' = main
    BY <1>9 DEF ReleaseTmp, Writing
  <2> QED
    BY <1>0, <2>2, <2>3 DEF ExactTokens
<1>10. ASSUME NEW w \in Parts, ReleaseUp(w) PROVE ExactTokens'
  <2>1. worker[w] = "releaseup" /\ worker' = [worker EXCEPT ![w] = "gone"]
    BY <1>10 DEF ReleaseUp, Step
  <2>2. Cardinality(Keeping') = Cardinality(Keeping)
    BY <1>s, <2>1, HoldersChange
  <2>3. Writing' = Writing /\ tmp' = tmp /\ main' = main
    BY <1>10 DEF ReleaseUp, Writing
  <2> QED
    BY <2>2, <2>3 DEF ExactTokens
<1>11. CASE UNCHANGED vars
  BY <1>11, SameCount DEF vars
<1> QED
  BY <1>1, <1>2, <1>3, <1>4, <1>5, <1>6, <1>7, <1>8, <1>9, <1>10, <1>11
     DEF Next, Caller, CallerRequest, Worker, Finish

(* The guards of the caller's and of a goroutine's steps, except for what  *)
(* the network shows: a request always ends.                               *)
CallerCanAct ==
  \/ main \in {"read", "write", "initiate", "putobject", "lastpart", "complete",
               "abort", "returned"}
  \/ main = "create" /\ tmp < Concurrency + 1
  \/ main = "wait" /\ Sending = {}

WorkerCanAct(w) ==
  \/ worker[w] \in {"open", "send", "wgdone", "remove"}
  \/ worker[w] = "enter" /\ up < Concurrency
  \/ worker[w] = "releasetmp" /\ tmp > 0
  \/ worker[w] = "releaseup" /\ up > 0

(* A goroutine that gives back a token never waits: it is in the channel.  *)
LEMMA ReceivesDoNotBlock ==
  ASSUME TypeOK, ChannelInv, NEW w \in Parts,
         worker[w] \in {"open", "send", "wgdone", "remove", "releasetmp", "releaseup"}
  PROVE  WorkerCanAct(w)
<1>0. tmp \in Nat /\ up \in Nat /\ Cardinality(Keeping) \in Nat
  BY HoldersFinite DEF TypeOK
<1>1. CASE worker[w] = "releasetmp"
  <2>1. w \in Keeping
    BY <1>1 DEF Keeping, KeepingStates
  <2>2. Cardinality(Keeping) # 0
    BY <2>1, HoldersFinite, FS_EmptySet
  <2>3. tmp > 0
    BY <1>0, <2>2 DEF ChannelInv, Writing
  <2> QED
    BY <1>1, <2>3 DEF WorkerCanAct
<1>2. CASE worker[w] = "releaseup"
  <2>1. w \in Uploading
    BY <1>2 DEF Uploading, SendingStates
  <2>2. Cardinality(Uploading) # 0
    BY <2>1, HoldersFinite, FS_EmptySet
  <2>3. up > 0
    BY <1>0, <2>2 DEF ChannelInv
  <2> QED
    BY <1>2, <2>3 DEF WorkerCanAct
<1> QED
  BY <1>1, <1>2 DEF WorkerCanAct

(***************************************************************************)
(* The two channels and the wait group never hold everybody up, however    *)
(* the requests and the files fare: until Upload has panicked or the       *)
(* process has ended, the caller or a goroutine can go on.  A caller that  *)
(* waits for room for a file has goroutines that keep the tokens, one that *)
(* waits for room to upload has goroutines that upload, and the tokens     *)
(* they give back are there.                                               *)
(***************************************************************************)
THEOREM NeverStuck ==
  ASSUME Concurrency > 0
  PROVE  Spec => [](Alive => CallerCanAct \/ \E w \in Parts : WorkerCanAct(w))
<1>1. TypeOK /\ Place /\ ChannelInv /\ ExactTokens =>
        (Alive => CallerCanAct \/ \E w \in Parts : WorkerCanAct(w))
  <2> SUFFICES ASSUME TypeOK, Place, ChannelInv, ExactTokens, Alive, ~CallerCanAct
               PROVE  \E w \in Parts : WorkerCanAct(w)
    OBVIOUS
  <2>0. /\ tmp \in Nat /\ up \in Nat /\ Concurrency \in Nat \ {0}
        /\ Cardinality(Keeping) \in Nat
    BY UploadStreamAssumption, HoldersFinite DEF TypeOK
  <2>1. PICK w \in Parts : worker[w] \in KeepingStates
    <3>1. CASE main = "create"
      <4>1. ~(tmp < Concurrency + 1)
        BY <3>1 DEF CallerCanAct
      <4>2. Writing = 0
        BY <3>1 DEF Place, Writing
      <4>3. Cardinality(Keeping) # 0
        BY <2>0, <3>1, <4>1, <4>2 DEF ExactTokens, Looping
      <4>4. Keeping # {}
        BY <4>3, FS_EmptySet
      <4> QED
        BY <4>4 DEF Keeping
    <3>2. CASE main = "wait"
      <4>1. Sending # {}
        BY <3>2 DEF CallerCanAct
      <4> QED
        BY <4>1 DEF Sending, KeepingStates
    <3> QED
      BY <3>1, <3>2 DEF CallerCanAct, Alive, TypeOK
  <2>2. CASE worker[w] # "enter"
    BY <2>1, <2>2, ReceivesDoNotBlock DEF KeepingStates
  <2>3. CASE worker[w] = "enter" /\ up < Concurrency
    BY <2>3 DEF WorkerCanAct
  <2>4. CASE worker[w] = "enter" /\ ~(up < Concurrency)
    <3>1. Cardinality(Uploading) # 0
      BY <2>0, <2>4 DEF ChannelInv
    <3>2. Uploading # {}
      BY <3>1, FS_EmptySet
    <3>3. PICK v \in Parts : worker[v] \in SendingStates
      BY <3>2 DEF Uploading
    <3> QED
      BY <3>3, ReceivesDoNotBlock DEF SendingStates
  <2> QED
    BY <2>2, <2>3, <2>4
<1> QED
  BY <1>1, InitStream, NextStream, InitChannels, NextChannels, InitExact, NextExact,
     PTL DEF Spec

-----------------------------------------------------------------------------
(* How far the caller and the goroutines have come.  Between two reads the *)
(* caller takes at most one turn: a file, a write, and the requests of a   *)
(* call.  After a panic there is nothing left for anybody.                 *)

Tries == (IF Retry > 0 THEN Retry ELSE 0) + 1

Turn == Tries + 3
Turns(n) == Turn * n
LoopEnd == Turns(Blocks)

(* A caller at m that has read n blocks and sent k requests of its call.   *)
CallerPlace(m, n, k) ==
  CASE m = "read"     -> Turns(n)
    [] m = "create"   -> Turns(n - 1) + 1
    [] m = "write"    -> Turns(n - 1) + 2
    [] m = "initiate" -> Turns(n - 1) + 3 + k
    [] m \in {"putobject", "lastpart"} -> LoopEnd + 1 + k
    [] m = "wait"     -> LoopEnd + Tries + 1
    [] m = "complete" -> LoopEnd + Tries + 2 + k
    [] m = "abort"    -> LoopEnd + 2 * Tries + 2 + k
    [] m = "returned" -> LoopEnd + 3 * Tries + 2
    [] m \in {"exited", "panicked"} -> LoopEnd + 3 * Tries + 3

(* A goroutine at s that has sent k requests.                              *)
WorkerPlace(s, k) ==
  CASE s = "unborn"     -> 0
    [] s = "enter"      -> 1
    [] s = "open"       -> 2
    [] s = "send"       -> 3 + k
    [] s = "wgdone"     -> Tries + 3
    [] s = "remove"     -> Tries + 4
    [] s = "releasetmp" -> Tries + 5
    [] s = "releaseup"  -> Tries + 6
    [] s = "gone"       -> Tries + 7

At ==
  [a \in Actors |->
     IF a = 0 THEN CallerPlace(main, read, call[0].sent)
     ELSE IF main = "panicked" THEN Tries + 7
     ELSE WorkerPlace(worker[a], call[a].sent)]

Last == LoopEnd + 3 * Tries + 7

Forward ==
  /\ \A a \in Actors : At'[a] >= At[a]
  /\ \E a \in Actors : At'[a] > At[a]

(* No call in progress has used up its requests.                           *)
CallsBounded == \A a \in Actors : call[a].sent < Tries

LEMMA TurnFacts ==
  /\ Tries \in Nat \ {0} /\ Turn = Tries + 3 /\ LoopEnd \in Nat
  /\ \A n \in Nat : /\ Turns(n) \in Nat
                    /\ Turns(n + 1) = Turns(n) + Turn
                    /\ Turns((n + 1) - 1) = Turns(n)
                    /\ n <= Blocks => Turns(n) <= LoopEnd
<1>1. Tries \in Nat \ {0} /\ Blocks \in Nat
  BY RetryAssumption, UploadStreamAssumption DEF Tries
<1>2. Turn \in Nat \ {0}
  BY <1>1 DEF Turn
<1>3. ASSUME NEW n \in Nat
      PROVE  /\ Turn * n \in Nat
             /\ Turn * (n + 1) = Turn * n + Turn
             /\ Turn * ((n + 1) - 1) = Turn * n
             /\ n <= Blocks => Turn * n <= Turn * Blocks
  BY <1>1, <1>2, SMT
<1> QED
  BY <1>1, <1>3 DEF Turn, Turns, LoopEnd

LEMMA Places ==
  ASSUME NEW m, NEW n, NEW k
  PROVE  /\ m = "read" => CallerPlace(m, n, k) = Turns(n)
         /\ m = "create" => CallerPlace(m, n, k) = Turns(n - 1) + 1
         /\ m = "write" => CallerPlace(m, n, k) = Turns(n - 1) + 2
         /\ m = "initiate" => CallerPlace(m, n, k) = Turns(n - 1) + 3 + k
         /\ m = "putobject" => CallerPlace(m, n, k) = LoopEnd + 1 + k
         /\ m = "lastpart" => CallerPlace(m, n, k) = LoopEnd + 1 + k
         /\ m = "wait" => CallerPlace(m, n, k) = LoopEnd + Tries + 1
         /\ m = "complete" => CallerPlace(m, n, k) = LoopEnd + Tries + 2 + k
         /\ m = "abort" => CallerPlace(m, n, k) = LoopEnd + 2 * Tries + 2 + k
         /\ m = "returned" => CallerPlace(m, n, k) = LoopEnd + 3 * Tries + 2
         /\ m = "exited" => CallerPlace(m, n, k) = LoopEnd + 3 * Tries + 3
         /\ m = "panicked" => CallerPlace(m, n, k) = LoopEnd + 3 * Tries + 3
         /\ m = "unborn" => WorkerPlace(m, k) = 0
         /\ m = "enter" => WorkerPlace(m, k) = 1
         /\ m = "open" => WorkerPlace(m, k) = 2
         /\ m = "send" => WorkerPlace(m, k) = 3 + k
         /\ m = "wgdone" => WorkerPlace(m, k) = Tries + 3
         /\ m = "remove" => WorkerPlace(m, k) = Tries + 4
         /\ m = "releasetmp" => WorkerPlace(m, k) = Tries + 5
         /\ m = "releaseup" => WorkerPlace(m, k) = Tries + 6
         /\ m = "gone" => WorkerPlace(m, k) = Tries + 7
BY DEF CallerPlace, WorkerPlace

(* A request takes its call one further, or ends it.                       *)
LEMMA KeepCounts ==
  ASSUME TypeOK, CallsBounded, NEW a \in Actors, NEW fate, NEW ans,
         Keep(a, After(a, fate, ans))
  PROVE  /\ CallsBounded'
         /\ ~Finished(After(a, fate, ans)) => call'[a].sent = call[a].sent + 1
         /\ \A b \in Actors \ {a} : call'[b] = call[b]
        /\ \A b \in Actors : call'[b].sent \in Nat
<1> DEFINE c == After(a, fate, ans)
<1>0. c.sent = call[a].sent + 1
  BY DEF After, Attempted
<1> HIDE DEF c
<1>1. /\ Retry \in Int /\ call \in [Actors -> Calls]
      /\ \A b \in Actors : call[b].sent \in Nat
  BY RetryAssumption DEF TypeOK, Calls
<1>2. \A b \in Actors :
        call'[b] = IF b = a THEN IF Finished(c) THEN NewCall ELSE c ELSE call[b]
  BY <1>1 DEF Keep, c
<1>3. ~Finished(c) => c.sent < Tries
  BY <1>0, <1>1 DEF Finished, LooksAtResponse, Tries
<1>4. NewCall.sent < Tries /\ NewCall.sent \in Nat
  BY TurnFacts DEF NewCall
<1> QED
  BY <1>0, <1>1, <1>2, <1>3, <1>4 DEF CallsBounded, c

(* Everybody is somewhere.                                                 *)
LEMMA Somewhere ==
  ASSUME TypeOK, Place, CallsBounded
  PROVE  /\ At \in [Actors -> 0 .. Last]
         /\ \A w \in Parts : At[w] <= Tries + 7
<1>0. /\ read \in Nat /\ read <= Blocks
      /\ call[0].sent \in Nat /\ call[0].sent < Tries
      /\ \A w \in Parts : call[w].sent \in Nat /\ call[w].sent < Tries
  BY UploadStreamAssumption, ActorTypes DEF TypeOK, Calls, CallsBounded
<1>1. ASSUME main \in {"create", "write", "initiate"}
      PROVE  /\ read - 1 \in Nat
             /\ Turns(read - 1) \in Nat /\ Turns(read - 1) + Turn <= LoopEnd
  <2>1. Base(num) \in Nat /\ size \in Nat
    BY BaseFacts, UploadStreamAssumption DEF TypeOK
  <2>2. read >= 1
    BY <1>0, <1>1, <2>1, UploadStreamAssumption DEF Place, Unwritten
  <2>3. read - 1 \in Nat /\ read = (read - 1) + 1
    BY <1>0, <2>2
  <2> QED
    BY <1>0, <2>3, TurnFacts
<1>2. Turns(read) \in Nat /\ Turns(read) <= LoopEnd
  BY <1>0, TurnFacts
<1>3. CallerPlace(main, read, call[0].sent) \in 0 .. Last
  <2> DEFINE k == call[0].sent
             p == CallerPlace(main, read, k)
  <2>1. k \in Nat /\ k < Tries /\ Tries \in Nat \ {0} /\ Turn = Tries + 3 /\ LoopEnd \in Nat
    BY <1>0, TurnFacts
  <2>2. main \in {"create", "write", "initiate"} =>
          p \in {Turns(read - 1) + 1, Turns(read - 1) + 2, Turns(read - 1) + 3 + k}
    BY Places
  <2>3. main \notin {"create", "write", "initiate"} =>
          p \in {Turns(read), LoopEnd + 1 + k, LoopEnd + Tries + 1, LoopEnd + Tries + 2 + k,
                 LoopEnd + 2 * Tries + 2 + k, LoopEnd + 3 * Tries + 2, LoopEnd + 3 * Tries + 3}
    BY Places DEF TypeOK
  <2> HIDE DEF k, p
  <2>4. p \in 0 .. Last
    BY <1>1, <1>2, <2>1, <2>2, <2>3 DEF Last
  <2> QED
    BY <2>4 DEF p, k
<1>4. ASSUME NEW w \in Parts PROVE WorkerPlace(worker[w], call[w].sent) \in 0 .. Tries + 7
  <2> DEFINE k == call[w].sent
             p == WorkerPlace(worker[w], k)
  <2>1. k \in Nat /\ k < Tries /\ Tries \in Nat \ {0}
    BY <1>0, TurnFacts
  <2>2. p \in {0, 1, 2, 3 + k, Tries + 3, Tries + 4, Tries + 5, Tries + 6, Tries + 7}
    BY Places DEF TypeOK
  <2> HIDE DEF k, p
  <2>3. p \in 0 .. Tries + 7
    BY <2>1, <2>2
  <2> QED
    BY <2>3 DEF p, k
<1>5. /\ Tries + 7 \in 0 .. Last /\ \A k \in 0 .. Tries + 7 : k \in 0 .. Last
      /\ Tries + 7 <= Tries + 7
  BY TurnFacts DEF Last
<1>6. \A a \in Actors : At[a] \in 0 .. Last
  BY <1>3, <1>4, <1>5 DEF At, Actors
<1>7. \A w \in Parts : At[w] <= Tries + 7
  BY <1>4, <1>5, ActorTypes, BaseFacts DEF At
<1> QED
  BY <1>6, <1>7 DEF At

LEMMA NextForward ==
  TypeOK /\ Place /\ CallsBounded /\ [Next]_vars => CallsBounded' /\ [Forward]_vars
<1> SUFFICES ASSUME TypeOK, Place, CallsBounded, Next
             PROVE  CallsBounded' /\ (Forward \/ UNCHANGED vars)
  BY DEF vars, CallsBounded
<1> USE DEF stream, disk, result, service
<1>0. /\ 0 \in Actors /\ Parts \subseteq Actors /\ 0 \notin Parts
      /\ \A a \in Actors : a = 0 \/ a \in Parts
      /\ read \in Nat /\ read <= Blocks /\ Blocks \in Nat /\ num \in Parts
      /\ \A a \in Actors : call[a].sent \in Nat /\ call[a].sent < Tries
      /\ Turns(read) \in Nat /\ Turns(read) <= LoopEnd /\ LoopEnd \in Nat
      /\ Tries \in Nat \ {0} /\ Turn = Tries + 3 /\ NetFates \subseteq Fates
  BY UploadStreamAssumption, ActorTypes, BaseFacts, TurnFacts
     DEF TypeOK, Calls, CallsBounded, Actors
<1>r. ASSUME main \in {"create", "write", "initiate"}
      PROVE  Turns(read - 1) \in Nat /\ Turns(read) = Turns(read - 1) + Turn
  <2>1. Base(num) \in Nat /\ size \in Nat
    BY BaseFacts, UploadStreamAssumption DEF TypeOK
  <2>2. read >= 1
    BY <1>0, <1>r, <2>1, UploadStreamAssumption DEF Place, Unwritten
  <2>3. read - 1 \in Nat /\ read = (read - 1) + 1
    BY <1>0, <2>2
  <2> QED
    BY <1>0, <2>3, TurnFacts
<1> DEFINE here == CallerPlace(main, read, call[0].sent)
           there == CallerPlace(main', read', call'[0].sent)
           worked(w) == WorkerPlace(worker[w], call[w].sent)
           works(w) == WorkerPlace(worker'[w], call'[w].sent)
<1>s. /\ At[0] = here /\ At'[0] = there /\ here \in Nat
      /\ \A w \in Parts : /\ At[w] \in Nat /\ At[w] <= Tries + 7 /\ Tries + 7 \in Nat
                          /\ main # "panicked" => At[w] = worked(w)
                          /\ At'[w] = IF main' = "panicked" THEN Tries + 7 ELSE works(w)
  <2>1. At \in [Actors -> 0 .. Last] /\ \A w \in Parts : At[w] <= Tries + 7
    BY Somewhere
  <2>2. 0 .. Last \subseteq Nat
    BY <1>0 DEF Last
  <2>3. \A a \in Actors : At[a] \in Nat
    BY <2>1, <2>2
  <2>4. /\ At[0] = here /\ At'[0] = there
        /\ \A w \in Parts : /\ main # "panicked" => At[w] = worked(w)
                            /\ At'[w] = IF main' = "panicked" THEN Tries + 7 ELSE works(w)
    BY <1>0 DEF At
  <2> QED
    BY <1>0, <2>1, <2>3, <2>4
<1> HIDE DEF here, there, worked, works
\* The caller moves; it may start a goroutine and may panic.
<1>a. ASSUME main # "panicked", there \in Nat, there > here,
             \A w \in Parts : works(w) >= worked(w)
      PROVE  Forward
  <2>1. At'[0] > At[0] /\ At'[0] >= At[0]
    BY <1>a, <1>s
  <2>2. ASSUME NEW w \in Parts PROVE At'[w] >= At[w]
    BY <1>a, <1>s
  <2> QED
    BY <1>0, <2>1, <2>2 DEF Forward
\* A goroutine moves.
<1>b. ASSUME NEW w \in Parts, works(w) \in Nat, works(w) > worked(w), main # "panicked",
             UNCHANGED <<main, read>>, call'[0] = call[0],
             \A v \in Parts \ {w} : works(v) = worked(v)
      PROVE  Forward
  <2>1. At'[0] = At[0]
    BY <1>b, <1>s DEF here, there
  <2>2. At'[w] > At[w] /\ At'[w] >= At[w]
    BY <1>b, <1>s
  <2>3. ASSUME NEW v \in Parts \ {w} PROVE At'[v] >= At[v]
    BY <1>b, <1>s, <2>3
  <2> QED
    BY <1>0, <1>s, <2>1, <2>2, <2>3 DEF Forward
<1>c. ASSUME worker' = worker, \A w \in Parts : call'[w] = call[w], main # "panicked"
      PROVE  \A w \in Parts : works(w) >= worked(w)
  <2>1. \A w \in Parts : works(w) = worked(w)
    BY <1>c DEF works, worked
  <2> QED
    BY <1>c, <1>s, <2>1
<1>n. ASSUME UNCHANGED call
      PROVE  CallsBounded' /\ \A w \in Parts : call'[w] = call[w]
  BY <1>n DEF CallsBounded
<1>t. ASSUME StartWorker, \A w \in Parts : call'[w] = call[w], main # "panicked"
      PROVE  \A w \in Parts : works(w) >= worked(w)
  <2> TAKE w \in Parts
  <2>1. worker' = [worker EXCEPT ![num] = "enter"]
    BY <1>t DEF StartWorker
  <2>2. CASE w = num
    <3>1. worker[w] = "unborn" /\ worker'[w] = "enter"
      BY <1>0, <2>1, <2>2, BaseFacts DEF Place, TypeOK
    <3> QED
      BY <3>1, Places DEF works, worked
  <2>3. CASE w # num
    <3>1. worker'[w] = worker[w] /\ call'[w] = call[w]
      BY <1>t, <2>1, <2>3 DEF TypeOK
    <3>2. works(w) = worked(w)
      BY <3>1 DEF works, worked
    <3> QED
      BY <1>t, <1>s, <3>2
  <2> QED
    BY <2>2, <2>3
<1>1. CASE ReadBlock
  <2>1. Turns(read + 1) = Turns(read) + Turn /\ Turns((read + 1) - 1) = Turns(read)
    BY <1>0, TurnFacts
  <2>2. here = Turns(read) /\ there \in {Turns(read) + 1, Turns(read) + 2}
    BY <1>1, <2>1, Places DEF ReadBlock, here, there
  <2>3. /\ main # "panicked" /\ worker' = worker /\ UNCHANGED call
        /\ there > here /\ there \in Nat
    BY <1>0, <1>1, <2>2 DEF ReadBlock
  <2> QED
    BY <2>3, <1>a, <1>c, <1>n
<1>2. CASE Create
  <2>1. /\ here = Turns(read - 1) + 1
        /\ there \in {Turns(read - 1) + 2, LoopEnd + 2 * Tries + 2 + call[0].sent,
                     LoopEnd + 3 * Tries + 2}
    BY <1>2, Places DEF Create, Leave, here, there
  <2>2. /\ main # "panicked" /\ worker' = worker /\ UNCHANGED call
        /\ there > here /\ there \in Nat
    BY <1>0, <1>2, <1>r, <2>1 DEF Create
  <2> QED
    BY <2>2, <1>a, <1>c, <1>n
<1>3. CASE Write
  <2>1. /\ here = Turns(read - 1) + 2
        /\ there \in {Turns(read), Turns(read - 1) + 3 + call[0].sent,
                     LoopEnd + 2 * Tries + 2 + call[0].sent, LoopEnd + 3 * Tries + 2}
    BY <1>3, Places DEF Write, StartWorker, Leave, here, there
  <2>2. /\ main # "panicked" /\ UNCHANGED call
        /\ there > here /\ there \in Nat
    BY <1>0, <1>3, <1>r, <2>1 DEF Write
  <2>3. worker' = worker \/ StartWorker
    BY <1>3 DEF Write
  <2> QED
    BY <2>2, <2>3, <1>a, <1>c, <1>n, <1>t
<1>4. ASSUME NEW fate \in NetFates, Initiate(fate) PROVE CallsBounded' /\ Forward
  <2>1. /\ main = "initiate" /\ UNCHANGED read /\ Keep(0, After(0, fate, "ok"))
        /\ \/ ~Finished(After(0, fate, "ok")) /\ UNCHANGED <<main, worker>>
           \/ LeaveFailed /\ UNCHANGED worker
           \/ StartWorker
    BY <1>4 DEF Initiate
  <2>2. /\ CallsBounded' /\ \A w \in Parts : call'[w] = call[w]
        /\ ~Finished(After(0, fate, "ok")) => call'[0].sent = call[0].sent + 1
    BY <1>0, <2>1, KeepCounts
  <2>3. call'[0].sent \in Nat
    BY <1>0, <2>1, KeepCounts
  <2>4. \/ main' = "initiate" /\ call'[0].sent = call[0].sent + 1
        \/ main' \in {"abort", "returned", "read"}
    BY <2>1, <2>2 DEF LeaveFailed, Leave, StartWorker
  <2>5. /\ here = Turns(read - 1) + 3 + call[0].sent
        /\ there \in {here + 1, LoopEnd + 2 * Tries + 2 + call'[0].sent,
                     LoopEnd + 3 * Tries + 2, Turns(read)}
    BY <1>0, <1>r, <2>1, <2>4, Places DEF here, there
  <2>6. there > here /\ there \in Nat
    BY <1>0, <1>r, <2>1, <2>3, <2>5
  <2>7. worker' = worker \/ StartWorker
    BY <2>1
  <2> QED
    BY <2>1, <2>2, <2>6, <2>7, <1>a, <1>c, <1>t
<1>5. CASE Eof
  <2>1. /\ here = Turns(read)
        /\ there \in {LoopEnd + Tries + 1, LoopEnd + 1 + call[0].sent, LoopEnd + 3 * Tries + 2}
    BY <1>5, Places DEF Eof, here, there
  <2>2. /\ main # "panicked" /\ worker' = worker /\ UNCHANGED call
        /\ there > here /\ there \in Nat
    BY <1>0, <1>5, <2>1 DEF Eof
  <2> QED
    BY <2>2, <1>a, <1>c, <1>n
<1>6. ASSUME NEW fate \in NetFates, PutObject(fate) PROVE CallsBounded' /\ Forward
  <2> DEFINE c == After(0, fate, "ok")
  <2>1. /\ main = "putobject" /\ UNCHANGED <<read, worker>> /\ Keep(0, c)
        /\ IF Finished(c) THEN main' = "returned" ELSE main' = main
    BY <1>6 DEF PutObject
  <2>2. /\ CallsBounded' /\ \A w \in Parts : call'[w] = call[w]
        /\ ~Finished(c) => call'[0].sent = call[0].sent + 1
    BY <1>0, <2>1, KeepCounts
  <2> HIDE DEF c
  <2>3. /\ here = LoopEnd + 1 + call[0].sent
        /\ there \in {here + 1, LoopEnd + 3 * Tries + 2}
    BY <1>0, <2>1, <2>2, Places DEF here, there
  <2>4. there > here /\ there \in Nat
    BY <1>0, <2>3
  <2> QED
    BY <2>1, <2>2, <2>4, <1>a, <1>c
<1>7. ASSUME NEW fate \in NetFates, SendLastPart(fate) PROVE CallsBounded' /\ Forward
  <2> DEFINE c == After(0, fate, IfOpen("ok"))
  <2>1. /\ main = "lastpart" /\ UNCHANGED <<read, worker>> /\ Keep(0, c)
        /\ IF Finished(c) THEN main' \in {"abort", "returned", "panicked", "wait"}
                          ELSE main' = main
    BY <1>7 DEF SendLastPart, Leave
  <2>2. /\ CallsBounded' /\ \A w \in Parts : call'[w] = call[w]
        /\ ~Finished(c) => call'[0].sent = call[0].sent + 1
        /\ call'[0].sent \in Nat
    BY <1>0, <2>1, KeepCounts
  <2> HIDE DEF c
  <2>3. /\ here = LoopEnd + 1 + call[0].sent
        /\ there \in {here + 1, LoopEnd + 3 * Tries + 2, LoopEnd + 3 * Tries + 3,
                     LoopEnd + Tries + 1, LoopEnd + 2 * Tries + 2 + call'[0].sent}
    BY <1>0, <2>1, <2>2, Places DEF here, there
  <2>4. there > here /\ there \in Nat
    BY <1>0, <2>2, <2>3
  <2> QED
    BY <2>1, <2>2, <2>4, <1>a, <1>c
<1>8. CASE Wait
  <2>1. /\ here = LoopEnd + Tries + 1
        /\ there \in {LoopEnd + 3 * Tries + 3, LoopEnd + Tries + 2 + call[0].sent,
                     LoopEnd + 3 * Tries + 2}
    BY <1>8, Places DEF Wait, here, there
  <2>2. /\ main # "panicked" /\ worker' = worker /\ UNCHANGED call
        /\ there > here /\ there \in Nat
    BY <1>0, <1>8, <2>1 DEF Wait
  <2> QED
    BY <2>2, <1>a, <1>c, <1>n
<1>9. ASSUME NEW fate \in NetFates, Complete(fate) PROVE CallsBounded' /\ Forward
  <2> DEFINE answer == IfOpen(IF Named # {} /\ \A i \in Named : stored[i] = parts[i]
                              THEN "ok" ELSE "rejected")
             c == After(0, fate, answer)
  <2>1. /\ main = "complete" /\ UNCHANGED <<read, worker>> /\ Keep(0, c)
        /\ IF Finished(c) THEN main' \in {"returned", "abort"} ELSE main' = main
    BY <1>9 DEF Complete, LeaveFailed, Leave
  <2>2. /\ CallsBounded' /\ \A w \in Parts : call'[w] = call[w]
        /\ ~Finished(c) => call'[0].sent = call[0].sent + 1
        /\ call'[0].sent \in Nat
    BY <1>0, <2>1, KeepCounts
  <2> HIDE DEF c
  <2>3. /\ here = LoopEnd + Tries + 2 + call[0].sent
        /\ there \in {here + 1, LoopEnd + 3 * Tries + 2,
                     LoopEnd + 2 * Tries + 2 + call'[0].sent}
    BY <1>0, <2>1, <2>2, Places DEF here, there
  <2>4. there > here /\ there \in Nat
    BY <1>0, <2>2, <2>3
  <2> QED
    BY <2>1, <2>2, <2>4, <1>a, <1>c
<1>10. ASSUME NEW fate \in NetFates, Abort(fate) PROVE CallsBounded' /\ Forward
  <2> DEFINE c == After(0, fate, IfOpen("ok"))
  <2>1. /\ main = "abort" /\ UNCHANGED <<read, worker>> /\ Keep(0, c)
        /\ main' = IF Finished(c) THEN "returned" ELSE main
    BY <1>10 DEF Abort
  <2>2. /\ CallsBounded' /\ \A w \in Parts : call'[w] = call[w]
        /\ ~Finished(c) => call'[0].sent = call[0].sent + 1
    BY <1>0, <2>1, KeepCounts
  <2> HIDE DEF c
  <2>3. /\ here = LoopEnd + 2 * Tries + 2 + call[0].sent
        /\ there \in {here + 1, LoopEnd + 3 * Tries + 2}
    BY <1>0, <2>1, <2>2, Places DEF here, there
  <2>4. there > here /\ there \in Nat
    BY <1>0, <2>3
  <2> QED
    BY <2>1, <2>2, <2>4, <1>a, <1>c
<1>11. CASE Exit
  <2>1. here = LoopEnd + 3 * Tries + 2 /\ there = LoopEnd + 3 * Tries + 3
    BY <1>11, Places DEF Exit, here, there
  <2>2. /\ main # "panicked" /\ worker' = worker /\ UNCHANGED call
        /\ there > here /\ there \in Nat
    BY <1>0, <1>11, <2>1 DEF Exit
  <2> QED
    BY <2>2, <1>a, <1>c, <1>n
\* A goroutine goes from one place to the next without a request.
<1>m. ASSUME NEW w \in Parts, NEW from, NEW to, Step(w, from, to),
             UNCHANGED <<main, read, call>>, WorkerPlace(to, call[w].sent) \in Nat,
             WorkerPlace(to, call[w].sent) > WorkerPlace(from, call[w].sent)
      PROVE  CallsBounded' /\ Forward
  <2>1. /\ main # "panicked" /\ worker[w] = from /\ worker'[w] = to
        /\ \A v \in Parts \ {w} : worker'[v] = worker[v]
    BY <1>m DEF Step, Alive, TypeOK
  <2>2. works(w) \in Nat /\ works(w) > worked(w)
    BY <1>m, <2>1 DEF works, worked
  <2>3. \A v \in Parts \ {w} : works(v) = worked(v)
    BY <1>m, <2>1 DEF works, worked
  <2> QED
    BY <1>m, <1>b, <1>n, <2>1, <2>2, <2>3
<1>12. ASSUME NEW w \in Parts, Enter(w) PROVE CallsBounded' /\ Forward
  BY <1>m, <1>12, Places DEF Enter
<1>13. ASSUME NEW w \in Parts, Open(w) PROVE CallsBounded' /\ Forward
  <2>1. /\ WorkerPlace("open", call[w].sent) = 2
        /\ WorkerPlace("send", call[w].sent) = 3 + call[w].sent
        /\ WorkerPlace("wgdone", call[w].sent) = Tries + 3
    BY Places
  <2>2. /\ Step(w, "open", "send") \/ Step(w, "open", "wgdone")
        /\ UNCHANGED <<main, read, call>>
    BY <1>13 DEF Open
  <2> QED
    BY <1>0, <1>m, <2>1, <2>2
<1>14. ASSUME NEW w \in Parts, WgDone(w) \/ Remove(w) \/ ReleaseTmp(w) \/ ReleaseUp(w)
       PROVE  CallsBounded' /\ Forward
  <2>1. /\ WorkerPlace("wgdone", call[w].sent) = Tries + 3
        /\ WorkerPlace("remove", call[w].sent) = Tries + 4
        /\ WorkerPlace("releasetmp", call[w].sent) = Tries + 5
        /\ WorkerPlace("releaseup", call[w].sent) = Tries + 6
        /\ WorkerPlace("gone", call[w].sent) = Tries + 7
    BY Places
  <2>2. /\ \/ Step(w, "wgdone", "remove") \/ Step(w, "remove", "releasetmp")
           \/ Step(w, "releasetmp", "releaseup") \/ Step(w, "releaseup", "gone")
        /\ UNCHANGED <<main, read, call>>
    BY <1>14 DEF WgDone, Remove, ReleaseTmp, ReleaseUp
  <2> QED
    BY <1>0, <1>m, <2>1, <2>2
\* A panic ends everything.
<1>p. ASSUME Alive, main' = "panicked" PROVE Forward
  <2>1. here \in Nat /\ here < LoopEnd + 3 * Tries + 3
    <3>1. main \in {"create", "write", "initiate"} =>
            here \in {Turns(read - 1) + 1, Turns(read - 1) + 2,
                      Turns(read - 1) + 3 + call[0].sent}
      BY Places DEF here
    <3>2. main \notin {"create", "write", "initiate"} =>
            here \in {Turns(read), LoopEnd + 1 + call[0].sent, LoopEnd + Tries + 1,
                      LoopEnd + Tries + 2 + call[0].sent,
                      LoopEnd + 2 * Tries + 2 + call[0].sent, LoopEnd + 3 * Tries + 2}
      BY <1>p, Places DEF here, TypeOK, Alive
    <3> QED
      BY <1>0, <1>r, <3>1, <3>2
  <2>2. there = LoopEnd + 3 * Tries + 3
    BY <1>p, Places DEF there
  <2>3. At'[0] > At[0] /\ At'[0] >= At[0]
    BY <1>0, <1>s, <2>1, <2>2
  <2>4. ASSUME NEW w \in Parts PROVE At'[w] >= At[w]
    BY <1>p, <1>s
  <2> QED
    BY <1>0, <2>3, <2>4 DEF Forward
<1>15. ASSUME NEW w \in Parts, NilUpload(w) PROVE CallsBounded' /\ Forward
  BY <1>15, <1>n, <1>p DEF NilUpload
<1>16. ASSUME NEW w \in Parts, NEW fate \in NetFates, SendPart(w, fate)
       PROVE  CallsBounded' /\ Forward
  <2> DEFINE c == After(w, fate, IfOpen("ok"))
  <2>1. /\ Alive /\ worker[w] = "send" /\ UNCHANGED read /\ Keep(w, c)
        /\ \/ main' = "panicked"
           \/ ~Finished(c) /\ UNCHANGED <<main, worker>>
           \/ UNCHANGED main /\ worker' = [worker EXCEPT ![w] = "wgdone"]
    BY <1>16 DEF SendPart
  <2>2. /\ CallsBounded' /\ \A b \in Actors \ {w} : call'[b] = call[b]
        /\ ~Finished(c) => call'[w].sent = call[w].sent + 1
    BY <1>0, <2>1, KeepCounts
  <2> HIDE DEF c
  <2>3. CASE main' = "panicked"
    BY <1>p, <2>1, <2>2, <2>3
  <2>4. CASE UNCHANGED main
    <3>1. /\ worker'[w] \in {"send", "wgdone"}
          /\ worker'[w] = "send" => call'[w].sent = call[w].sent + 1
          /\ \A v \in Parts \ {w} : worker'[v] = worker[v] /\ call'[v] = call[v]
      BY <1>0, <2>1, <2>2, <2>4 DEF TypeOK, Alive
    <3>2. /\ works(w) \in {3 + (call[w].sent + 1), Tries + 3}
          /\ worked(w) = 3 + call[w].sent
      <4>1. works(w) = 3 + call'[w].sent \/ works(w) = Tries + 3
        BY <3>1, Places DEF works
      <4>2. worker'[w] = "wgdone" => works(w) = Tries + 3
        BY Places DEF works
      <4> QED
        BY <2>1, <3>1, <4>1, <4>2, Places DEF worked
    <3>3. works(w) \in Nat /\ works(w) > worked(w)
      BY <1>0, <3>2
    <3>4. \A v \in Parts \ {w} : works(v) = worked(v)
      BY <3>1 DEF works, worked
    <3>5. call'[0] = call[0] /\ main # "panicked"
      BY <1>0, <2>1, <2>2 DEF Alive
    <3> QED
      BY <1>b, <2>1, <2>2, <2>4, <3>3, <3>4, <3>5
  <2> QED
    BY <2>1, <2>3, <2>4
<1>17. CASE Finish
  BY <1>17, <1>n DEF Finish, vars
<1> QED
  BY <1>1, <1>2, <1>3, <1>4, <1>5, <1>6, <1>7, <1>8, <1>9, <1>10, <1>11, <1>12,
     <1>13, <1>14, <1>15, <1>16, <1>17
     DEF Next, Caller, CallerRequest, Worker

(***************************************************************************)
(* Every Upload comes to an end, as far as this can be said of single      *)
(* steps: whatever is lost, fails or overtakes, each step takes somebody   *)
(* further and nobody back, over a way whose length the stream and the     *)
(* retries fix.  With NeverStuck (somebody can go on as long as Upload     *)
(* has not ended) this leaves of Returns only that those who can go on do. *)
(***************************************************************************)
THEOREM StepsBounded == Spec => [](At \in [Actors -> 0 .. Last]) /\ [][Forward]_vars
<1>1. Init => CallsBounded
  BY TurnFacts DEF Init, NewCall, CallsBounded
<1> QED
  BY <1>1, Somewhere, NextForward, InitStream, NextStream, PTL DEF Spec

-----------------------------------------------------------------------------
(* The phases of the upload.  They need responses that can be decoded and  *)
(* are no redirects: after an Initiate that leaves upload nil without an   *)
(* error there are goroutines and no upload, the next Initiate may fail    *)
(* with one, and Abort is sent while they are at work.                     *)

DecodedAnswers == NetFates \cap {"garbled", "redirected"} = {}

PhaseInv ==
  /\ \A a \in Actors : Failing(call[a])
  /\ ~upload => num = 1
  /\ main \in {"initiate", "putobject"} => ~upload
  /\ main \in {"lastpart", "complete"} => upload
  /\ main = "abort" => err
  /\ main = "complete" => ok
  /\ main = "complete" => Sending = {}
  /\ main \in {"returned", "exited"} /\ ~err => Sending = {}

(* A request keeps every call either fresh or failing so far.              *)
LEMMA KeepFailing ==
  ASSUME call \in [Actors -> Calls], \A a \in Actors : Failing(call[a]),
         NEW a \in Actors, NEW fate \in Fates, NEW ans \in Answers,
         Keep(a, After(a, fate, ans))
  PROVE  /\ \A b \in Actors : Failing(call'[b])
         /\ After(a, fate, ans).resp = Reply(fate, ans)
         /\ Finished(After(a, fate, ans)) /\ ~ReturnsErr(After(a, fate, ans))
              => Below400(Reply(fate, ans))
<1>1. Reply(fate, ans) \in Responses /\ call[a] \in Calls
  BY CallTypes
<1> DEFINE d == After(a, fate, ans)
<1>2. /\ Failing(IF Finished(d) THEN NewCall ELSE d)
      /\ d.resp = Reply(fate, ans)
      /\ Finished(d) /\ ~ReturnsErr(d) => Below400(Reply(fate, ans))
  BY <1>1, CallProgress DEF After
<1> HIDE DEF d
<1>3. call' = [call EXCEPT ![a] = IF Finished(d) THEN NewCall ELSE d]
  BY DEF Keep, d
<1>4. \A b \in Actors : Failing(call'[b])
  BY <1>2, <1>3
<1> QED
  BY <1>2, <1>4 DEF d

LEMMA InitPhases == Init => PhaseInv
BY DEF Init, PhaseInv, Failing, NewCall

(* Before the first part is handed over there is no goroutine.             *)
LEMMA NobodySends ==
  ASSUME TypeOK, Place, num = 1
  PROVE  Sending = {}
<1>1. \A w \in Parts : worker[w] = "unborn"
  BY BaseFacts DEF Place
<1> QED
  BY <1>1 DEF Sending

LEMMA NextPhases ==
  ASSUME DecodedAnswers
  PROVE  TypeOK /\ Place /\ PhaseInv /\ [Next]_vars => PhaseInv'
<1> SUFFICES ASSUME TypeOK, Place, PhaseInv, [Next]_vars PROVE PhaseInv'
  OBVIOUS
<1> USE DEF stream, disk, result, service
<1>0. /\ NetFates \subseteq Fates \ {"garbled", "redirected"}
      /\ 0 \in Actors /\ Parts \subseteq Actors
      /\ call \in [Actors -> Calls] /\ \A a \in Actors : Failing(call[a])
      /\ "ok" \in Answers /\ IfOpen("ok") \in Answers
  BY UploadStreamAssumption, ActorTypes DEF TypeOK, PhaseInv, Answers, IfOpen, DecodedAnswers
<1>1. CASE ReadBlock
  BY <1>1 DEF ReadBlock, PhaseInv
<1>2. CASE Create
  <2>1. CASE main' = "write"
    BY <1>2, <2>1 DEF Create, PhaseInv
  <2>2. CASE Leave
    BY <1>2, <2>2 DEF Create, Leave, PhaseInv
  <2> QED
    BY <1>2, <2>1, <2>2 DEF Create
<1>3. CASE Write
  <2>1. CASE Leave /\ UNCHANGED num
    BY <1>3, <2>1 DEF Write, Leave, PhaseInv
  <2>2. CASE main' = "initiate"
    BY <1>3, <2>2 DEF Write, Leave, StartWorker, PhaseInv
  <2>3. CASE main' = "read"
    BY <1>3, <2>3 DEF Write, Leave, StartWorker, PhaseInv
  <2> QED
    BY <1>3, <2>1, <2>2, <2>3 DEF Write, StartWorker
<1>4. ASSUME NEW fate \in NetFates, Initiate(fate) PROVE PhaseInv'
  <2> DEFINE c == After(0, fate, "ok")
  <2>1. /\ \A a \in Actors : Failing(call'[a])
        /\ c.resp = Reply(fate, "ok")
        /\ Finished(c) /\ ~ReturnsErr(c) => Below400(Reply(fate, "ok"))
    BY <1>0, <1>4, KeepFailing DEF Initiate
  <2>2. /\ main = "initiate" /\ ~upload /\ num = 1
        /\ \E got \in Filled(c.resp) : upload' = (upload \/ got # "none")
    BY <1>4 DEF Initiate, PhaseInv
  <2>3. Below400(Reply(fate, "ok")) => c.resp = "ok" /\ upload'
    <3> SUFFICES ASSUME Below400(Reply(fate, "ok")) PROVE c.resp = "ok" /\ upload'
      OBVIOUS
    <3>1. c.resp = "ok"
      BY <1>0, <2>1, ReplyMeans
    <3>2. Filled(c.resp) = {"all"}
      BY <3>1 DEF Filled
    <3> HIDE DEF c
    <3> QED
      BY <2>2, <3>1, <3>2
  <2>4. ~Finished(c) => ~upload'
    <3> SUFFICES ASSUME ~Finished(c) PROVE ~upload'
      OBVIOUS
    <3>1. c.resp # "ok"
      <4>1. c.sent > 0
        BY <1>0, CallProgress, CallTypes DEF After
      <4> QED
        BY <4>1 DEF Finished, Below400
    <3>2. c.resp # "garbled"
      <4>1. Reply(fate, "ok") # "garbled"
        BY <1>0 DEF Reply, Fates
      <4> QED BY <2>1, <4>1
    <3>3. Filled(c.resp) = {"none"}
      BY <3>1, <3>2, Zenon DEF Filled
    <3> HIDE DEF c
    <3> QED
      BY <2>2, <3>3
  <2>5. Sending = {}
    BY <2>2, NobodySends
  <2>6. CASE ~Finished(c)
    BY <1>4, <2>1, <2>2, <2>4, <2>5, <2>6 DEF Initiate, PhaseInv, Sending
  <2>7. CASE Finished(c) /\ ReturnsErr(c)
    <3>1. LeaveFailed /\ UNCHANGED <<worker, num>>
      BY <1>4, <2>7 DEF Initiate
    <3>2. Sending' = {}
      BY <2>5, <3>1 DEF Sending
    <3> QED
      BY <2>1, <2>2, <3>1, <3>2 DEF LeaveFailed, Leave, PhaseInv
  <2>8. CASE Finished(c) /\ ~ReturnsErr(c)
    <3>1. StartWorker /\ upload'
      BY <1>4, <2>1, <2>3, <2>8 DEF Initiate
    <3> QED
      BY <2>1, <3>1 DEF StartWorker, PhaseInv
  <2> HIDE DEF c
  <2> QED BY <2>6, <2>7, <2>8
<1>5. CASE Eof
  BY <1>5 DEF Eof, PhaseInv
<1>6. ASSUME NEW fate \in NetFates, PutObject(fate) PROVE PhaseInv'
  <2>1. \A a \in Actors : Failing(call'[a])
    BY <1>0, <1>6, KeepFailing DEF PutObject
  <2>2. Sending' = {}
    <3>1. num = 1
      BY <1>6 DEF PutObject, PhaseInv
    <3>2. Sending = {} /\ worker' = worker
      BY <1>6, <3>1, NobodySends DEF PutObject
    <3> QED
      BY <3>2 DEF Sending
  <2> QED
    BY <1>6, <2>1, <2>2 DEF PutObject, PhaseInv
<1>7. ASSUME NEW fate \in NetFates, SendLastPart(fate) PROVE PhaseInv'
  <2>1. \A a \in Actors : Failing(call'[a])
    BY <1>0, <1>7, KeepFailing DEF SendLastPart
  <2> QED
    BY <1>7, <2>1 DEF SendLastPart, Leave, PhaseInv
<1>8. CASE Wait
  BY <1>8 DEF Wait, PhaseInv, Sending
<1>9. ASSUME NEW fate \in NetFates, Complete(fate) PROVE PhaseInv'
  <2>1. \A a \in Actors : Failing(call'[a])
    BY <1>0, <1>9, KeepFailing DEF Complete, Answers, IfOpen
  <2>2. Sending' = {}
    BY <1>9 DEF Complete, PhaseInv, Sending
  <2> QED
    BY <1>9, <2>1, <2>2 DEF Complete, LeaveFailed, Leave, PhaseInv
<1>10. ASSUME NEW fate \in NetFates, Abort(fate) PROVE PhaseInv'
  <2>1. \A a \in Actors : Failing(call'[a])
    BY <1>0, <1>10, KeepFailing DEF Abort
  <2> QED
    BY <1>10, <2>1 DEF Abort, PhaseInv
<1>11. CASE Exit
  BY <1>11 DEF Exit, PhaseInv, Sending
<1>a. ASSUME NEW w \in Parts, NEW from, NEW to, worker[w] = from,
             worker' = [worker EXCEPT ![w] = to],
             from \in {"enter", "open", "send", "wgdone"},
             \A a \in Actors : Failing(call'[a]),
             UNCHANGED <<main, num, upload, err>>
      PROVE  PhaseInv'
  <2>1. Sending' \subseteq Sending
    BY <1>a DEF Sending, TypeOK
  <2>2. Sending # {}
    BY <1>a DEF Sending
  <2> QED
    BY <1>a, <2>1, <2>2 DEF PhaseInv
<1>b. ASSUME Sending' \subseteq Sending, UNCHANGED <<main, num, upload, err, ok, call>>
      PROVE  PhaseInv'
  BY <1>b DEF PhaseInv
<1>12. ASSUME NEW w \in Parts, Enter(w) PROVE PhaseInv'
  BY <1>0, <1>12, <1>a DEF Enter, Step
<1>13. ASSUME NEW w \in Parts, Open(w) PROVE PhaseInv'
  BY <1>0, <1>13, <1>a DEF Open, Step
<1>14. ASSUME NEW w \in Parts, NilUpload(w) PROVE PhaseInv'
  BY <1>14 DEF NilUpload, PhaseInv
<1>15. ASSUME NEW w \in Parts, NEW fate \in NetFates, SendPart(w, fate)
       PROVE  PhaseInv'
  <2>1. \A a \in Actors : Failing(call'[a])
    BY <1>0, <1>15, KeepFailing DEF SendPart
  <2>2. CASE UNCHANGED <<main, worker>>
    BY <1>15, <2>1, <2>2 DEF SendPart, PhaseInv, Sending
  <2>3. CASE main' = "panicked"
    BY <1>15, <2>1, <2>3 DEF SendPart, PhaseInv
  <2>4. CASE UNCHANGED main /\ worker' = [worker EXCEPT ![w] = "wgdone"]
    BY <1>15, <2>1, <2>4, <1>a DEF SendPart
  <2> QED
    BY <1>15, <2>2, <2>3, <2>4 DEF SendPart
<1>16. ASSUME NEW w \in Parts, WgDone(w) PROVE PhaseInv'
  BY <1>0, <1>16, <1>a DEF WgDone, Step
<1>17. ASSUME NEW w \in Parts, Remove(w) PROVE PhaseInv'
  <2>1. Sending' \subseteq Sending
    BY <1>17 DEF Remove, Step, Sending, TypeOK
  <2> QED
    BY <1>17, <1>b, <2>1 DEF Remove
<1>18. ASSUME NEW w \in Parts, ReleaseTmp(w) PROVE PhaseInv'
  <2>1. Sending' \subseteq Sending
    BY <1>18 DEF ReleaseTmp, Step, Sending, TypeOK
  <2> QED
    BY <1>18, <1>b, <2>1 DEF ReleaseTmp
<1>19. ASSUME NEW w \in Parts, ReleaseUp(w) PROVE PhaseInv'
  <2>1. Sending' \subseteq Sending
    BY <1>19 DEF ReleaseUp, Step, Sending, TypeOK
  <2> QED
    BY <1>19, <1>b, <2>1 DEF ReleaseUp
<1>20. CASE UNCHANGED vars
  BY <1>20 DEF vars, PhaseInv, Sending
<1> QED
  BY <1>1, <1>2, <1>3, <1>4, <1>5, <1>6, <1>7, <1>8, <1>9, <1>10, <1>11, <1>12,
     <1>13, <1>14, <1>15, <1>16, <1>17, <1>18, <1>19, <1>20
     DEF Next, Caller, CallerRequest, Worker, Finish

-----------------------------------------------------------------------------
(* The data.                                                               *)

Waiting == {"enter", "open", "send"}
Past == {"wgdone", "remove", "releasetmp", "releaseup", "gone"}

(* No request that makes an object has been sent.                          *)
Fresh == Looping \cup {"lastpart", "wait"}

DataInv ==
  /\ \A w \in Parts : w < num => parts[w] \in {NoPart, FullPart(w)}
  /\ main \in Looping => \A w \in Parts : w >= num => parts[w] = NoPart
  /\ \A w \in Parts : worker[w] \in Waiting => parts[w] = NoPart
  /\ main \in {"wait", "complete"} /\ out => parts[num] = LastPart
  /\ main = "wait" => upload \/ ~out
  /\ main \in Fresh => object = {}
  /\ ok \/ err \/ FailedParts # {}
  /\ main = "abort" => Sending = {} \/ FailedParts # {}
  /\ LosesOnlyFailedParts

LEMMA InitData == Init => DataInv
<1> SUFFICES ASSUME Init PROVE DataInv
  OBVIOUS
<1>1. \A w \in Parts : parts[w] = NoPart
  BY DEF Init
<1> QED
  BY <1>1 DEF Init, DataInv, LosesOnlyFailedParts, Ended

(* Every block that was read is in a full part or in the last one.         *)
LEMMA PartsCover ==
  ASSUME NEW n \in Parts, NEW s \in Nat, Base(n) + s \in 0 .. Blocks,
         NEW b \in 0 .. Base(n) + s - 1
  PROVE  \/ \E i \in Parts : i < n /\ Base(i) <= b /\ b < Base(i) + PartBlocks
         \/ Base(n) <= b /\ b < Base(n) + s
<1>0. /\ Blocks \in Nat /\ PartBlocks \in Nat \ {0} /\ n \in Nat \ {0}
      /\ Base(n) \in Nat
  BY BaseFacts, UploadStreamAssumption
<1>1. CASE Base(n) <= b
  BY <1>0, <1>1
<1>2. CASE b < Base(n)
  <2> DEFINE q == b \div PartBlocks
  <2>1. q \in Int /\ PartBlocks * q <= b /\ b < PartBlocks * (q + 1)
    BY <1>0, SMT
  <2> HIDE DEF q
  <2>2. q >= 0
    BY <1>0, <2>1, SMT
  <2>3. PartBlocks * (q + 1 - 1) <= b /\ PartBlocks * (q + 1 - 1) + PartBlocks > b
    BY <1>0, <2>1, SMT
  <2>4. q + 1 < n
    <3>1. q >= n - 1 => PartBlocks * q >= PartBlocks * (n - 1)
      BY <1>0, <2>1, SMT
    <3>2. PartBlocks * (n - 1) \in Int /\ PartBlocks * q \in Int
      BY <1>0, <2>1, SMT
    <3> QED
      BY <1>0, <1>2, <2>1, <3>1, <3>2 DEF Base
  <2>5. /\ q + 1 \in Nat \ {0}
        /\ Base(q + 1) <= b /\ b < Base(q + 1) + PartBlocks
    BY <1>0, <2>1, <2>2, <2>3 DEF Base
  <2>6. b \in Nat /\ b <= Blocks
    BY <1>0
  <2>7. Base(q + 1) \in Nat /\ Base(q + 1) <= Blocks
    BY <1>0, <2>5, <2>6, BaseFacts
  <2>8. q + 1 \in Parts
    BY <2>5, <2>7, BaseFacts
  <2> QED
    BY <2>4, <2>5, <2>8
<1> QED
  BY <1>0, <1>1, <1>2

(* The goroutines that are past their upload without a part stay so.       *)
LEMMA FailedStay ==
  ASSUME TypeOK, NEW w \in Parts, NEW to,
         worker' = [worker EXCEPT ![w] = to], parts' = parts,
         worker[w] \in Past => to \in Past
  PROVE  FailedParts \subseteq FailedParts'
<1>1. \A x \in Parts : worker'[x] = IF x = w THEN to ELSE worker[x]
  BY DEF TypeOK
<1> QED
  BY <1>1 DEF FailedParts, Past

(* Steps after which nothing is promised that was not before.              *)
LEMMA DataStays ==
  ASSUME DataInv, FailedParts \subseteq FailedParts',
         \A w \in Parts : worker'[w] \in Waiting => worker[w] \in Waiting,
         UNCHANGED <<num, parts, object>>,
         Ended' /\ ~err' => Ended /\ ~err /\ read' = read,
         err => err',
         ok' = ok \/ err' \/ FailedParts' # {},
         main' \in Looping => main \in Looping,
         main' \in Fresh => main \in Fresh,
         main' \in {"wait", "complete"} => UNCHANGED <<main, upload, size, out>>,
         main' = "abort" => \/ Sending' = {}
                            \/ FailedParts' # {}
                            \/ main = "abort" /\ Sending' \subseteq Sending
  PROVE  DataInv'
<1>1. \A b : Holds(b)' = Holds(b)
  BY DEF Holds
<1>2. LosesOnlyFailedParts'
  BY <1>1 DEF LosesOnlyFailedParts, DataInv
<1>3. (ok \/ err \/ FailedParts # {})'
  BY DEF DataInv
<1>4. (main \in {"wait", "complete"} /\ out => parts[num] = LastPart)'
  BY DEF DataInv, LastPart
<1>5. (main = "wait" => upload \/ ~out)'
  BY DEF DataInv
<1>6. (\A w \in Parts : w < num => parts[w] \in {NoPart, FullPart(w)})'
  BY DEF DataInv
<1>7. (main \in Looping => \A w \in Parts : w >= num => parts[w] = NoPart)'
  BY DEF DataInv
<1>8. (\A w \in Parts : worker[w] \in Waiting => parts[w] = NoPart)'
  BY DEF DataInv
<1>9. (main \in Fresh => object = {})'
  BY DEF DataInv
<1>10. (main = "abort" => Sending = {} \/ FailedParts # {})'
  BY DEF DataInv
<1> QED
  BY <1>2, <1>3, <1>4, <1>5, <1>6, <1>7, <1>8, <1>9, <1>10 DEF DataInv

(* A goroutine gets its part from a loop that has not named it.            *)
LEMMA StartWorkerData ==
  ASSUME TypeOK, Place, DataInv, StartWorker, main \in Looping,
         UNCHANGED <<parts, object, err, ok>>
  PROVE  DataInv'
<1>0. num \in Parts /\ Parts \subseteq Nat
  BY BaseFacts DEF TypeOK
<1>1. worker[num] = "unborn"
  BY <1>0 DEF Place
<1>2. FailedParts \subseteq FailedParts'
  BY <1>0, <1>1, FailedStay DEF StartWorker, Past
<1>3. num' = num + 1 /\ main' = "read"
  BY DEF StartWorker
<1>4. (\A w \in Parts : w < num => parts[w] \in {NoPart, FullPart(w)})'
  BY <1>0, <1>3 DEF DataInv
<1>5. (\A w \in Parts : w >= num => parts[w] = NoPart)'
  BY <1>0, <1>3 DEF DataInv
<1>6. (ok \/ err \/ FailedParts # {})'
  BY <1>2 DEF DataInv
<1>7. LosesOnlyFailedParts'
  BY <1>3 DEF LosesOnlyFailedParts, Ended
<1>8. (\A w \in Parts : worker[w] \in Waiting => parts[w] = NoPart)'
  BY <1>0 DEF StartWorker, DataInv, TypeOK
<1>9. object' = {}
  BY DEF DataInv, Fresh
<1> QED
  BY <1>3, <1>4, <1>5, <1>6, <1>7, <1>8, <1>9 DEF DataInv

LEMMA NextData ==
  ASSUME DecodedAnswers
  PROVE  TypeOK /\ Place /\ PhaseInv /\ DataInv /\ [Next]_vars => DataInv'
<1> SUFFICES ASSUME TypeOK, Place, PhaseInv, DataInv, [Next]_vars PROVE DataInv'
  OBVIOUS
<1> USE DEF stream, disk, result, service
<1>0. /\ NetFates \subseteq Fates \ {"garbled", "redirected"}
      /\ 0 \in Actors /\ Parts \subseteq Actors
      /\ call \in [Actors -> Calls] /\ \A a \in Actors : Failing(call[a])
      /\ Blocks \in Nat /\ PartBlocks \in Nat \ {0}
      /\ num \in Parts /\ Parts \subseteq Nat \ {0} /\ Base(num) \in Nat
      /\ size \in Nat
  BY UploadStreamAssumption, ActorTypes, BaseFacts
     DEF TypeOK, PhaseInv, DecodedAnswers
<1>f. ASSUME UNCHANGED <<worker, parts>>
      PROVE  FailedParts' = FailedParts /\ Sending' = Sending
  BY <1>f DEF FailedParts, Sending
\* An early return sends Abort only after a goroutine has failed.
<1>e. ASSUME Leave, UNCHANGED ok, main \in {"create", "write", "lastpart"}
      PROVE  /\ err' /\ main' \in {"abort", "returned"}
             /\ main' = "abort" => FailedParts # {}
  <2>1. ~err
    BY <1>e DEF Place
  <2> QED
    BY <1>e, <2>1 DEF Leave, DataInv
<1>1. CASE ReadBlock
  BY <1>1, <1>f, DataStays DEF Fresh, ReadBlock, Looping, Ended
<1>2. CASE Create
  <2>1. /\ main = "create" /\ main' \in {"write", "abort", "returned"}
        /\ main' = "returned" => err'
        /\ main' = "abort" => FailedParts # {}
        /\ UNCHANGED <<worker, parts, num, object, ok>>
        /\ err => err'
    BY <1>2, <1>e DEF Create
  <2>2. FailedParts' = FailedParts /\ Sending' = Sending
    BY <1>f, <2>1
  <2>3. CASE main' = "write"
    BY <2>1, <2>2, <2>3, DataStays DEF Fresh, Looping, Ended
  <2>4. CASE main' \in {"abort", "returned"}
    BY <2>1, <2>2, <2>4, DataStays DEF Fresh, Looping, Ended
  <2> QED
    BY <2>1, <2>3, <2>4
<1>3. CASE Write
  <2>1. CASE StartWorker
    BY <1>3, <2>1, StartWorkerData DEF Write, Leave, StartWorker, Looping
  <2>2. CASE UNCHANGED <<worker, num>>
    <3>1. /\ main = "write" /\ main' \in {"read", "initiate", "abort", "returned"}
          /\ main' = "returned" => err'
          /\ main' = "abort" => FailedParts # {}
          /\ UNCHANGED <<worker, parts, num, object, ok>>
          /\ err => err'
      BY <1>3, <1>e, <2>2 DEF Write, StartWorker
    <3> QED
      BY <3>1, <1>f, DataStays DEF Fresh, Looping, Ended
  <2> QED
    BY <1>3, <2>1, <2>2 DEF Write
<1>4. ASSUME NEW fate \in NetFates, Initiate(fate) PROVE DataInv'
  <2>1. main = "initiate" /\ UNCHANGED <<parts, object>>
    BY <1>4 DEF Initiate
  <2>2. CASE StartWorker /\ UNCHANGED <<ok, err>>
    BY <2>1, <2>2, StartWorkerData DEF Looping
  <2>3. CASE UNCHANGED <<main, worker, size, out, num, ok, err>>
    BY <2>1, <2>3, <1>f, DataStays DEF Fresh, Looping, Ended
  <2>4. CASE LeaveFailed /\ UNCHANGED <<worker, size, out, num>>
    <3>1. err' /\ main' \in {"abort", "returned"}
      BY <2>4 DEF LeaveFailed, Leave
    <3>2. Sending = {}
      BY <2>1, NobodySends DEF PhaseInv
    <3> QED
      BY <2>1, <2>4, <3>1, <3>2, <1>f, DataStays DEF Fresh, Looping, Ended
  <2> QED
    BY <1>4, <2>2, <2>3, <2>4 DEF Initiate
<1>5. CASE Eof
  <2>1. CASE main' = "wait"
    BY <1>5, <1>f, <2>1
       DEF Eof, DataInv, Fresh, LosesOnlyFailedParts, Ended, Looping
  <2>2. CASE main' # "wait"
    <3>1. /\ main = "read" /\ main' \in {"lastpart", "putobject", "returned"}
          /\ main' = "returned" => err'
          /\ UNCHANGED <<worker, parts, num, object, ok>>
          /\ err => err'
      BY <1>5, <2>2 DEF Eof
    <3> QED
      BY <3>1, <1>f, DataStays DEF Fresh, Looping, Ended
  <2> QED BY <2>1, <2>2
<1>p. ASSUME main # "panicked", ~err, Unwritten = 0
      PROVE  Base(num) + size = read /\ read \in 0 .. Blocks
  BY <1>0, <1>p DEF Place, TypeOK
<1>6. ASSUME NEW fate \in NetFates, PutObject(fate) PROVE DataInv'
  <2> DEFINE c == After(0, fate, "ok")
  <2>1. main = "putobject" /\ num = 1 /\ ~err
        /\ UNCHANGED <<worker, read, size, num, parts, ok>>
    BY <1>6 DEF PutObject, PhaseInv, Place
  <2>2. CASE ~Finished(c) \/ PutReturnsErr(c)
    <3>1. /\ main' \in {"putobject", "returned"}
          /\ main' = "returned" => err'
      BY <1>6, <2>1, <2>2 DEF PutObject
    <3>2. FailedParts' = FailedParts /\ (ok \/ FailedParts # {})
      BY <1>f, <2>1 DEF DataInv
    <3> QED
      BY <2>1, <3>1, <3>2 DEF DataInv, Fresh, Looping, LosesOnlyFailedParts, Ended
  <2>3. CASE Finished(c) /\ ~PutReturnsErr(c)
    <3>1. Finished(c) /\ ~ReturnsErr(c)
      BY <2>3 DEF PutReturnsErr
    <3>2. Below400(Reply(fate, "ok")) /\ fate # "redirected"
      BY <1>0, <1>6, <3>1, KeepFailing DEF PutObject, Answers
    <3>3. Reply(fate, "ok") # "redirect"
      BY <1>0, <3>2, ReplyMeans
    <3>4. Handled(fate)
      BY <1>0, <3>2, <3>3, ReplyMeans
    <3>5. object' = {LastPart} /\ main' = "returned"
      BY <1>6, <2>3, <3>4 DEF PutObject
    <3>6. \A b \in 0 .. read' - 1 : Holds(b)'
      <4>1. size = read /\ LastPart.off = 0 /\ LastPart.len = size
        BY <1>0, <1>p, <2>1, BaseFacts DEF Unwritten, LastPart, Base
      <4>2. \A b \in 0 .. read - 1 : Has(LastPart, b)
        BY <1>0, <4>1 DEF Has
      <4> QED
        BY <2>1, <3>5, <4>2 DEF Holds
    <3>7. FailedParts' = FailedParts /\ (ok \/ FailedParts # {})
      BY <1>f, <2>1 DEF DataInv
    <3> QED
      BY <2>1, <3>5, <3>6, <3>7 DEF DataInv, Fresh, Looping, LosesOnlyFailedParts
  <2> QED BY <2>2, <2>3
<1>7. ASSUME NEW fate \in NetFates, SendLastPart(fate) PROVE DataInv'
  <2>1. /\ main = "lastpart" /\ upload /\ worker[num] = "unborn"
        /\ UNCHANGED <<worker, size, num, out, object, ok, upload>>
    BY <1>0, <1>7 DEF SendLastPart, PhaseInv, Place
  <2>2. CASE main' # "wait"
    <3>1. /\ \/ UNCHANGED <<main, err>>
             \/ main' \in {"abort", "returned"} /\ err'
             \/ main' = "panicked" /\ UNCHANGED err
          /\ main' = "abort" => FailedParts # {}
          /\ UNCHANGED parts
      BY <1>7, <1>e, <2>1, <2>2 DEF SendLastPart, Place
    <3> QED
      BY <2>1, <2>2, <3>1, <1>f, DataStays DEF Fresh, Looping, Ended
  <2>3. CASE main' = "wait" /\ parts' = [parts EXCEPT ![num] = LastPart] /\ UNCHANGED err
    <3>1. \A w \in Parts : parts'[w] = IF w = num THEN LastPart ELSE parts[w]
      BY <2>3 DEF TypeOK
    <3>2. FailedParts' = FailedParts
      BY <2>1, <3>1 DEF FailedParts
    <3>3. LastPart' = LastPart
      BY <2>1 DEF LastPart
    <3>4. (\A w \in Parts : w < num => parts[w] \in {NoPart, FullPart(w)})'
      BY <1>0, <2>1, <3>1 DEF DataInv
    <3>5. (ok \/ err \/ FailedParts # {})'
      BY <2>1, <2>3, <3>2 DEF DataInv
    <3>6. (\A w \in Parts : worker[w] \in Waiting => parts[w] = NoPart)'
      BY <2>1, <3>1 DEF DataInv, Waiting
    <3>7. (main = "abort" => Sending = {} \/ FailedParts # {})'
      BY <2>3
    <3> QED
      BY <1>0, <2>1, <2>3, <3>1, <3>3, <3>4, <3>5, <3>6, <3>7
         DEF DataInv, Fresh, Looping, LosesOnlyFailedParts, Ended
  <2> QED
    BY <1>7, <2>2, <2>3 DEF SendLastPart, Leave
<1>8. CASE Wait
  <2>1. /\ main = "wait" /\ ~err
        /\ UNCHANGED <<worker, read, size, num, out, parts, object, ok, err, upload>>
    BY <1>8 DEF Wait, Place
  <2>2. FailedParts' = FailedParts /\ LastPart' = LastPart
    BY <1>f, <2>1 DEF LastPart
  <2>3. CASE main' \in {"complete", "panicked"}
    BY <2>1, <2>2, <2>3 DEF DataInv, Fresh, Looping, LosesOnlyFailedParts, Ended
  <2>4. CASE main' = "returned" /\ ~(ok /\ upload)
    <3>1. FailedParts # {} \/ read = 0
      <4> SUFFICES ASSUME FailedParts = {} PROVE read = 0
        OBVIOUS
      <4>1. ok
        BY <2>1 DEF DataInv
      <4>2. ~upload /\ ~out /\ num = 1
        BY <2>1, <2>4, <4>1 DEF DataInv, PhaseInv
      <4>3. size = 0
        BY <4>2 DEF Place
      <4>4. Base(num) + size = read
        BY <1>p, <2>1 DEF Unwritten
      <4> QED
        BY <4>2, <4>3, <4>4, BaseFacts
    <3>2. object' = {}
      BY <2>1 DEF DataInv, Fresh
    <3> QED
      BY <2>1, <2>2, <2>4, <3>1, <3>2 DEF DataInv, Fresh, Looping, LosesOnlyFailedParts
  <2> QED
    BY <1>8, <2>3, <2>4 DEF Wait
<1>9. ASSUME NEW fate \in NetFates, Complete(fate) PROVE DataInv'
  <2> DEFINE answer == IfOpen(IF Named # {} /\ \A i \in Named : stored[i] = parts[i]
                              THEN "ok" ELSE "rejected")
             c == After(0, fate, answer)
  <2>1. /\ main = "complete" /\ ok /\ ~err /\ Sending = {}
        /\ UNCHANGED <<worker, read, size, num, out, parts>>
    BY <1>9 DEF Complete, PhaseInv, Place
  <2>2. FailedParts' = FailedParts /\ LastPart' = LastPart
    BY <1>f, <2>1 DEF LastPart
  <2>3. answer \in {"ok", "notfound", "rejected"}
    BY DEF IfOpen
  <2>4. CASE ~Finished(c)
    <3>1. UNCHANGED <<main, ok, err>>
      BY <1>9, <2>4 DEF Complete
    <3> QED
      BY <2>1, <2>2, <3>1 DEF DataInv, Fresh, Looping, LosesOnlyFailedParts, Ended
  <2>5. CASE Finished(c) /\ ReturnsErr(c)
    <3>1. LeaveFailed
      BY <1>9, <2>5 DEF Complete
    <3>2. err' /\ main' \in {"abort", "returned"} /\ Sending' = {}
      BY <1>f, <2>1, <3>1 DEF LeaveFailed, Leave
    <3> QED
      BY <2>1, <3>2 DEF DataInv, Fresh, Looping, LosesOnlyFailedParts
  <2>6. CASE Finished(c) /\ ~ReturnsErr(c)
    <3>1. Below400(Reply(fate, answer))
      BY <1>0, <1>9, <2>3, <2>6, KeepFailing DEF Complete, Answers
    <3>2. Reply(fate, answer) # "redirect"
      BY <1>0, <2>3, ReplyMeans
    <3>3. Handled(fate) /\ answer = "ok"
      BY <1>0, <2>3, <3>1, <3>2, ReplyMeans
    <3>4. object' = {parts[i] : i \in Named}
      BY <1>9, <3>3 DEF Complete
    <3>5. main' = "returned" /\ UNCHANGED <<ok, err>>
      BY <1>9, <2>6 DEF Complete
    <3>6. ASSUME NEW b \in 0 .. read - 1
          PROVE  Holds(b)' \/ \E w \in FailedParts : Has(FullPart(w), b)
      <4>1. Base(num) + size = read /\ read \in 0 .. Blocks
        BY <1>p, <2>1 DEF Unwritten
      <4>2. CASE \E i \in Parts : i < num /\ Base(i) <= b /\ b < Base(i) + PartBlocks
        <5>1. PICK i \in Parts : i < num /\ Base(i) <= b /\ b < Base(i) + PartBlocks
          BY <4>2
        <5>2. FullPart(i).off = Base(i) /\ FullPart(i).len = PartBlocks
          BY DEF FullPart, Base
        <5>3. Has(FullPart(i), b)
          BY <5>1, <5>2 DEF Has
        <5>4. worker[i] \in Past
          BY <1>0, <2>1, <5>1 DEF Sending, Past, Place, TypeOK
        <5>5. CASE parts[i] = NoPart
          BY <5>3, <5>4, <5>5 DEF FailedParts, Past
        <5>6. CASE parts[i] # NoPart
          <6>1. parts[i] = FullPart(i) /\ i \in Named
            BY <1>0, <5>1, <5>6 DEF DataInv, Named
          <6> QED
            BY <3>4, <5>3, <6>1 DEF Holds
        <5> QED BY <5>5, <5>6
      <4>3. CASE Base(num) <= b /\ b < Base(num) + size
        <5>1. out
          BY <1>0, <4>3 DEF Place
        <5>2. parts[num] = LastPart
          BY <2>1, <5>1 DEF DataInv
        <5>3. LastPart.off = Base(num) /\ LastPart.len = size /\ NoPart.off = -1
          BY DEF LastPart, NoPart, Base
        <5>4. LastPart # NoPart
          BY <1>0, <5>3
        <5>5. num \in Named
          BY <1>0, <5>2, <5>4 DEF Named
        <5>6. Has(LastPart, b)
          BY <4>3, <5>3 DEF Has
        <5> QED
          BY <3>4, <5>2, <5>5, <5>6 DEF Holds
      <4> QED
        BY <1>0, <4>1, <4>2, <4>3, PartsCover
    <3>7. object' # {}
      <4>1. Named # {}
        BY <3>3 DEF IfOpen
      <4> QED
        BY <3>4, <4>1
    <3> QED
      BY <2>1, <2>2, <3>5, <3>6, <3>7 DEF DataInv, Fresh, Looping, LosesOnlyFailedParts
  <2> HIDE DEF c, answer
  <2> QED BY <2>4, <2>5, <2>6
<1>10. ASSUME NEW fate \in NetFates, Abort(fate) PROVE DataInv'
  <2>1. /\ err /\ main = "abort" /\ main' \in {"abort", "returned"}
        /\ UNCHANGED <<worker, num, parts, object, ok, err>>
    BY <1>10 DEF Abort, PhaseInv
  <2> QED
    BY <2>1, <1>f, DataStays DEF Fresh, Looping
<1>11. CASE Exit
  BY <1>11, <1>f, DataStays DEF Fresh, Exit, Looping, Ended
<1>a. ASSUME NEW w \in Parts, NEW to, worker' = [worker EXCEPT ![w] = to],
             worker[w] \in Past => to \in Past,
             to \in Waiting => worker[w] \in Waiting,
             to \in Waiting \cup {"wgdone"} => worker[w] \in Waiting,
             UNCHANGED <<main, stream, parts, object, ok, err, upload>>
      PROVE  DataInv'
  <2>1. FailedParts \subseteq FailedParts'
    BY <1>a, FailedStay
  <2>2. \A x \in Parts : worker'[x] \in Waiting => worker[x] \in Waiting
    BY <1>a DEF TypeOK
  <2>3. Sending' \subseteq Sending
    BY <1>a DEF TypeOK, Sending, Waiting
  <2> QED
    BY <1>a, <2>1, <2>2, <2>3, DataStays DEF Fresh, Ended
<1>12. ASSUME NEW w \in Parts, Enter(w) PROVE DataInv'
  BY <1>12, <1>a DEF Enter, Step, Past, Waiting
<1>13. ASSUME NEW w \in Parts, Open(w) PROVE DataInv'
  <2>1. CASE Step(w, "open", "send") /\ UNCHANGED ok
    BY <1>13, <1>a, <2>1 DEF Open, Step, Past, Waiting
  <2>2. CASE Step(w, "open", "wgdone")
    <3>1. FailedParts \subseteq FailedParts'
      BY <1>13, <2>2, FailedStay DEF Open, Step, Past
    <3>2. w \in FailedParts'
      BY <1>13, <2>2 DEF Open, Step, FailedParts, DataInv, Waiting, TypeOK
    <3>3. \A x \in Parts : worker'[x] \in Waiting => worker[x] \in Waiting
      BY <2>2 DEF Step, Waiting, TypeOK
    <3>4. UNCHANGED <<main, stream, parts, object, err, upload>>
      BY <1>13 DEF Open
    <3> QED
      BY <3>1, <3>2, <3>3, <3>4, DataStays DEF Fresh, Ended
  <2> QED
    BY <1>13, <2>1, <2>2 DEF Open
<1>14. ASSUME NEW w \in Parts, NilUpload(w) PROVE DataInv'
  BY <1>14, <1>f, DataStays DEF Fresh, NilUpload, Looping, Ended
<1>15. ASSUME NEW w \in Parts, NEW fate \in NetFates, SendPart(w, fate)
       PROVE  DataInv'
  <2>1. /\ worker[w] = "send" /\ w < num /\ Sending # {}
        /\ UNCHANGED <<stream, object, ok, err, upload>>
    BY <1>0, <1>15 DEF SendPart, Place, Sending
  <2>2. CASE UNCHANGED <<worker, parts>>
    <3>1. UNCHANGED main \/ main' = "panicked"
      BY <1>15, <2>2 DEF SendPart
    <3> QED
      BY <2>1, <2>2, <3>1, <1>f, DataStays DEF Fresh, Looping, Ended
  <2>3. CASE /\ UNCHANGED main
             /\ worker' = [worker EXCEPT ![w] = "wgdone"]
             /\ \E p \in {NoPart, FullPart(w)} : parts' = [parts EXCEPT ![w] = p]
    <3>1. \A x \in Parts : x # w => parts'[x] = parts[x] /\ worker'[x] = worker[x]
      BY <2>3 DEF TypeOK
    <3>2. parts'[w] \in {NoPart, FullPart(w)} /\ worker'[w] = "wgdone"
      BY <2>3 DEF TypeOK
    <3>3. FailedParts \subseteq FailedParts'
      BY <2>1, <3>1 DEF FailedParts
    <3>4. ~(main \in {"complete"} \/ (Ended /\ ~err))
      BY <2>1 DEF PhaseInv, Ended
    <3>5. LastPart' = LastPart
      BY <2>1 DEF LastPart
    <3>6. (ok \/ err \/ FailedParts # {})'
      BY <2>1, <3>3 DEF DataInv
    <3>7. (\A x \in Parts : x < num => parts[x] \in {NoPart, FullPart(x)})'
      BY <2>1, <3>1, <3>2 DEF DataInv
    <3>8. (\A x \in Parts : worker[x] \in Waiting => parts[x] = NoPart)'
      BY <3>1, <3>2 DEF DataInv, Waiting
    <3>9. (main \in Looping => \A x \in Parts : x >= num => parts[x] = NoPart)'
      BY <1>0, <2>1, <2>3, <3>1 DEF DataInv
    <3>10. (main \in {"wait", "complete"} /\ out => parts[num] = LastPart)'
      BY <1>0, <2>1, <2>3, <3>1, <3>5 DEF DataInv
    <3>11. (main = "wait" => upload \/ ~out)' /\ LosesOnlyFailedParts'
      BY <2>1, <2>3, <3>4 DEF DataInv, LosesOnlyFailedParts, Ended
    <3>12. (main \in Fresh => object = {})'
      BY <2>1, <2>3 DEF DataInv
    <3>13. (main = "abort" => Sending = {} \/ FailedParts # {})'
      BY <2>1, <2>3, <3>3 DEF DataInv
    <3> QED
      BY <3>6, <3>7, <3>8, <3>9, <3>10, <3>11, <3>12, <3>13 DEF DataInv
  <2> QED
    BY <1>15, <2>2, <2>3 DEF SendPart
<1>16. ASSUME NEW w \in Parts, WgDone(w) PROVE DataInv'
  BY <1>16, <1>a DEF WgDone, Step, Past, Waiting
<1>17. ASSUME NEW w \in Parts, Remove(w) PROVE DataInv'
  BY <1>17, <1>a DEF Remove, Step, Past, Waiting
<1>18. ASSUME NEW w \in Parts, ReleaseTmp(w) PROVE DataInv'
  BY <1>18, <1>a DEF ReleaseTmp, Step, Past, Waiting
<1>19. ASSUME NEW w \in Parts, ReleaseUp(w) PROVE DataInv'
  BY <1>19, <1>a DEF ReleaseUp, Step, Past, Waiting
<1>20. CASE UNCHANGED vars
  BY <1>20, <1>f, DataStays DEF Fresh, vars, Ended
<1> QED
  BY <1>1, <1>2, <1>3, <1>4, <1>5, <1>6, <1>7, <1>8, <1>9, <1>10, <1>11, <1>12,
     <1>13, <1>14, <1>15, <1>16, <1>17, <1>18, <1>19, <1>20
     DEF Next, Caller, CallerRequest, Worker, Finish

(* Complete is sent, and success is reported, when no goroutine sends a    *)
(* part any more, and Abort overtakes one only after another has failed.   *)
(* Both invariants are needed: ok is FALSE without an error only when a    *)
(* part has failed, and a failed part stays failed.                        *)
THEOREM ClosesLast == ASSUME DecodedAnswers PROVE Spec => []ClosesAfterWorkers
<1>1. PhaseInv /\ DataInv => ClosesAfterWorkers
  BY DEF PhaseInv, DataInv, ClosesAfterWorkers
<1> QED
  BY <1>1, InitStream, NextStream, InitPhases, NextPhases, InitData, NextData, PTL DEF Spec

(* A success lacks nothing of what was read but the parts that failed, and *)
(* without an object there is one or nothing was read: however the chunks  *)
(* divide the stream, in whatever order the parts are done.                *)
THEOREM LosesOnlyFailures ==
  ASSUME DecodedAnswers
  PROVE  Spec => []LosesOnlyFailedParts
<1>1. DataInv => LosesOnlyFailedParts
  BY DEF DataInv
<1> QED
  BY <1>1, InitStream, NextStream, InitPhases, NextPhases, InitData, NextData, PTL DEF Spec

(* So, as long as no part fails and the stream is read to its end, success *)
(* means that the object is there and has the whole of it.                 *)
COROLLARY StoresStream ==
  ASSUME DecodedAnswers, Blocks > 0
  PROVE  Spec => [](Ended /\ ~err /\ FailedParts = {} /\ read = Blocks => HoldsTheStream)
<1>1. LosesOnlyFailedParts =>
        (Ended /\ ~err /\ FailedParts = {} /\ read = Blocks => HoldsTheStream)
  BY UploadStreamAssumption DEF LosesOnlyFailedParts, HoldsTheStream
<1> QED
  BY <1>1, LosesOnlyFailures, PTL
=============================================================================
