---------------------------- MODULE UploadStream ----------------------------
(***************************************************************************)
(* Upload (client/storage.go): the upload of a stream of unknown length,   *)
(* which the put command uses for the standard input.  The caller copies   *)
(* the stream to temporary files; each file that has grown beyond a chunk  *)
(* is handed to a goroutine that uploads it as a part and removes it.  Two *)
(* buffered channels bound the files and the uploads.  What is left in the *)
(* last file is uploaded by the caller.                                    *)
(*                                                                         *)
(* A step is what happens between two points where another goroutine, the  *)
(* service or the operating system can observe or act.  The service        *)
(* (external) is modelled from the requests the client makes.              *)
(***************************************************************************)
EXTENDS HttpCall, FiniteSets

CONSTANTS
  Blocks,          \* reads of the stream that bring data
  PartBlocks,      \* reads after which a file is larger than a chunk
  Concurrency,     \* Environment.Concurrency
  AbortOnFailure,  \* StorageClientConfig.AbortOnFailure
  PartsCap,        \* length of the slice parts (1000 in the code)
  DiskFaults,      \* operations on temporary files may fail
  ReadFaults,      \* a read of the stream may fail
  NetFates         \* the fates of requests that the network and service show

(* make(chan bool, n) panics for a negative n: Concurrency is not below 0. *)
ASSUME UploadStreamAssumption ==
  /\ Blocks \in Nat
  /\ PartBlocks \in Nat \ {0}
  /\ Concurrency \in Nat
  /\ AbortOnFailure \in BOOLEAN
  /\ PartsCap \in Nat
  /\ DiskFaults \in BOOLEAN /\ ReadFaults \in BOOLEAN
  /\ NetFates \subseteq Fates

VARIABLES
  main,      \* where the caller's goroutine is
  worker,    \* where the goroutine of each part is
  read,      \* blocks read from the stream
  size,      \* blocks in the file being written, the variable of the code
  out,       \* out # nil
  num,       \* number of the part being written
  files,     \* temporary files on the disk, named by the part
  tmp,       \* tokens in tmpFileWriteChannel
  up,        \* tokens in uploadChannel
  call,      \* the DoAndRetry in progress of the caller (0) and the workers
  ok, err,   \* the variables of the code; err: err # nil
  upload,    \* upload # nil
  parts,     \* parts[i]: NoPart for nil, else the data its ETag stands for
  mpu,       \* the service: state of the upload whose id the client has
  stored,    \* the service: the parts of that upload
  object     \* the service: the pieces of the object, {} if there is none

stream == <<read, size, out, num>>
disk == <<files, tmp, up>>
result == <<ok, err, upload, parts>>
service == <<mpu, stored, object>>
vars == <<main, worker, stream, disk, call, result, service>>

(* Every part but the last one takes PartBlocks reads.                     *)
Parts == 1 .. (Blocks \div PartBlocks) + 1
Actors == {0} \cup Parts

NoPart == [off |-> -1, len |-> 0]
FullPart(i) == [off |-> PartBlocks * (i - 1), len |-> PartBlocks]
LastPart == [off |-> PartBlocks * (num - 1), len |-> size]

Init ==
  /\ main = "read"
  /\ worker = [i \in Parts |-> "unborn"]
  /\ read = 0 /\ size = 0 /\ out = FALSE /\ num = 1
  /\ files = {} /\ tmp = 0 /\ up = 0
  /\ call = [a \in Actors |-> NewCall]
  /\ ok = TRUE /\ err = FALSE /\ upload = FALSE
  /\ parts = [i \in Parts |-> NoPart]
  /\ mpu = "none"
  /\ stored = [i \in Parts |-> NoPart]
  /\ object = {}

-----------------------------------------------------------------------------
IfOpen(a) == IF mpu = "open" THEN a ELSE "notfound"

After(a, fate, answer) == Attempted(call[a], Reply(fate, answer))

(* Mutant: the retries are counted anew after every request.               *)
KeepNoCount(a, c) ==
  call' = [call EXCEPT ![a] = IF Finished(c) THEN NewCall ELSE [c EXCEPT !.sent = 0]]

Keep(a, c) ==
  call' = [call EXCEPT ![a] = IF Finished(c) THEN NewCall ELSE c]

(* Return of an error, with the deferred function of Upload: it closes the *)
(* upload only if ok is FALSE, which a goroutine may have made it (Open),  *)
(* and waits for nobody.                                                   *)
Leave ==
  /\ err' = TRUE
  /\ main' = IF ~ok' /\ upload' /\ AbortOnFailure THEN "abort" ELSE "returned"

(* Return of an error of Initiate or Complete.                             *)
LeaveFailed == ok' = FALSE /\ Leave

(* The last file is removed by a deferred call, which runs first.          *)
RemoveLast == files' = IF out THEN files \ {num} ELSE files

(* Mutant: the counters of the file are not reset.                         *)
StartWorkerSameFile ==
  /\ worker' = [worker EXCEPT ![num] = "enter"]
  /\ out' = FALSE
  /\ size' = size + 1
  /\ num' = num + 1
  /\ main' = "read"

(* The file is complete: a goroutine takes it over.                        *)
StartWorker ==
  /\ worker' = [worker EXCEPT ![num] = "enter"]
  /\ out' = FALSE
  /\ size' = 0
  /\ num' = num + 1
  /\ main' = "read"

-----------------------------------------------------------------------------
(* The caller's loop over the stream.                                      *)

ReadBlock ==
  /\ main = "read"
  /\ read < Blocks
  /\ read' = read + 1
  /\ main' = IF out THEN "write" ELSE "create"
  /\ UNCHANGED <<worker, size, out, num, disk, call, result, service>>

(* Mutant: the files may be one more than the channel allows.              *)
CreateWithoutToken ==
  /\ main = "create"
  /\ tmp' = tmp + 1
  /\ out' = TRUE /\ files' = files \cup {num} /\ main' = "write" /\ UNCHANGED err
  /\ UNCHANGED <<worker, read, size, num, up, call, ok, upload, parts, service>>

(* The send on tmpFileWriteChannel, then ioutil.TempFile.                  *)
Create ==
  /\ main = "create"
  /\ tmp < Concurrency + 1
  /\ tmp' = tmp + 1
  /\ UNCHANGED <<worker, read, size, num, up, call, ok, upload, parts, service>>
  /\ \/ out' = TRUE /\ files' = files \cup {num} /\ main' = "write" /\ UNCHANGED err
     \/ DiskFaults /\ Leave /\ UNCHANGED <<out, files>>

(* out.Write; a file that is larger than a chunk becomes a part.  One that *)
(* cannot be written stays on the disk.                                    *)
Write ==
  /\ main = "write"
  /\ UNCHANGED <<read, disk, call, ok, upload, parts, service>>
  /\ \/ DiskFaults /\ Leave /\ UNCHANGED <<worker, size, out, num>>
     \/ /\ UNCHANGED err
        /\ IF size + 1 < PartBlocks
           THEN size' = size + 1 /\ main' = "read" /\ UNCHANGED <<worker, out, num>>
           ELSE IF upload
           THEN StartWorker
           ELSE size' = size + 1 /\ main' = "initiate" /\ UNCHANGED <<worker, out, num>>

(* One request of InitiateMultipartUpload.                                 *)
Initiate(fate) ==
  /\ main = "initiate"
  /\ LET c == After(0, fate, "ok")
     IN  /\ Keep(0, c)
         /\ \E got \in Filled(c.resp) :
              /\ upload' = (upload \/ got # "none")
              /\ mpu' = IF got = "all" THEN "open" ELSE mpu
         /\ IF ~Finished(c)
            THEN UNCHANGED <<main, worker, size, out, num, ok, err>>
            ELSE IF ReturnsErr(c)
            THEN LeaveFailed /\ UNCHANGED <<worker, size, out, num>>
            ELSE StartWorker /\ UNCHANGED <<ok, err>>
  /\ UNCHANGED <<read, disk, parts, stored, object>>

(* A read that brings nothing, or fails, ends the loop.  What is in the    *)
(* last file is sent as the object or as the last part; os.Open of the     *)
(* former may fail, and then there is no upload to close.                  *)
Eof ==
  /\ main = "read"
  /\ read = Blocks \/ ReadFaults
  /\ IF ~out
     THEN main' = "wait" /\ UNCHANGED <<err, files>>
     ELSE IF upload
     THEN main' = "lastpart" /\ UNCHANGED <<err, files>>
     ELSE \/ main' = "putobject" /\ UNCHANGED <<err, files>>
          \/ DiskFaults /\ main' = "returned" /\ err' = TRUE /\ RemoveLast
  /\ UNCHANGED <<worker, stream, tmp, up, call, ok, upload, parts, service>>

(* One request of PutObject.  The body of its response is not decoded, nor *)
(* is that of a part or of Abort.                                          *)
PutObject(fate) ==
  /\ main = "putobject" /\ fate # "garbled"
  /\ LET c == After(0, fate, "ok")
     IN  /\ Keep(0, c)
         /\ object' = IF Handled(fate) THEN {LastPart} ELSE object
         /\ IF Finished(c)
            THEN main' = "returned" /\ err' = PutReturnsErr(c) /\ RemoveLast
            ELSE UNCHANGED <<main, err, files>>
  /\ UNCHANGED <<worker, stream, tmp, up, ok, upload, parts, mpu, stored>>

(* One request of UploadPart for the last part.  An error is returned      *)
(* without waiting; a part beyond the slice is a panic.                    *)
SendLastPart(fate) ==
  /\ main = "lastpart" /\ fate # "garbled"
  /\ UNCHANGED <<worker, stream, tmp, up, ok, upload, mpu, object>>
  /\ LET c == After(0, fate, IfOpen("ok"))
     IN  /\ Keep(0, c)
         /\ stored' = IF Handled(fate) /\ mpu = "open"
                      THEN [stored EXCEPT ![num] = LastPart] ELSE stored
         /\ IF ~Finished(c)
            THEN UNCHANGED <<main, err, files, parts>>
            ELSE IF ReturnsErr(c)
            THEN Leave /\ RemoveLast /\ UNCHANGED parts
            ELSE IF num > PartsCap
            THEN main' = "panicked" /\ UNCHANGED <<err, files, parts>>
            ELSE /\ main' = "wait"
                 /\ parts' = [parts EXCEPT ![num] = LastPart]
                 /\ UNCHANGED <<err, files>>

Sending == {w \in Parts : worker[w] \in {"enter", "open", "send", "wgdone"}}

(* Mutant: the caller does not wait for the goroutines.                    *)
WaitForNobody ==
  /\ main = "wait"
  /\ IF ok /\ upload
     THEN main' = (IF num > PartsCap THEN "panicked" ELSE "complete") /\ UNCHANGED files
     ELSE main' = "returned" /\ RemoveLast
  /\ UNCHANGED <<worker, stream, tmp, up, call, result, service>>

(* wg.Wait() returns.  With ok = FALSE and no error the deferred function  *)
(* does nothing: Upload returns nil.                                       *)
Wait ==
  /\ main = "wait"
  /\ Sending = {}
  /\ IF ok /\ upload
     THEN main' = (IF num > PartsCap THEN "panicked" ELSE "complete") /\ UNCHANGED files
     ELSE main' = "returned" /\ RemoveLast
  /\ UNCHANGED <<worker, stream, tmp, up, call, result, service>>

(* Mutant: the last part is left out.                                      *)
NamedButLast == {i \in 1 .. num - 1 : i \in Parts /\ parts[i] # NoPart}

(* The parts named by the request: xml.Marshal leaves nil pointers out.    *)
Named == {i \in 1 .. num : i \in Parts /\ parts[i] # NoPart}

(* One request of CompleteMultipartUpload: the service makes the object of *)
(* the parts named by the request, if there are some and it has them all.  *)
Complete(fate) ==
  /\ main = "complete"
  /\ LET answer == IfOpen(IF Named # {} /\ \A i \in Named : stored[i] = parts[i]
                          THEN "ok" ELSE "rejected")
         c == After(0, fate, answer)
     IN  /\ Keep(0, c)
         /\ IF Handled(fate) /\ answer = "ok"
            THEN mpu' = "completed" /\ object' = {parts[i] : i \in Named}
            ELSE UNCHANGED <<mpu, object>>
         /\ UNCHANGED upload
         /\ IF ~Finished(c)
            THEN UNCHANGED <<main, ok, err, files>>
            ELSE /\ RemoveLast
                 /\ IF ReturnsErr(c)
                    THEN LeaveFailed
                    ELSE main' = "returned" /\ UNCHANGED <<ok, err>>
  /\ UNCHANGED <<worker, stream, tmp, up, parts, stored>>

(* One request of AbortMultipartUpload, whose outcome is not looked at.    *)
Abort(fate) ==
  /\ main = "abort" /\ fate # "garbled"
  /\ LET c == After(0, fate, IfOpen("ok"))
     IN  /\ Keep(0, c)
         /\ mpu' = IF Handled(fate) /\ mpu = "open" THEN "aborted" ELSE mpu
         /\ main' = IF Finished(c) THEN "returned" ELSE main
  /\ UNCHANGED <<worker, stream, disk, result, stored, object>>

(* The put command is over and with it the process.                        *)
Exit ==
  /\ main = "returned"
  /\ main' = "exited"
  /\ UNCHANGED <<worker, stream, disk, call, result, service>>

-----------------------------------------------------------------------------
(* The goroutine of part w.                                                *)

Alive == main \notin {"panicked", "exited"}

Step(w, from, to) ==
  /\ Alive
  /\ worker[w] = from
  /\ worker' = [worker EXCEPT ![w] = to]

(* Mutant: the goroutines do not wait for each other.                      *)
EnterAtOnce(w) ==
  /\ Step(w, "enter", "open")
  /\ up' = up + 1
  /\ UNCHANGED <<main, stream, files, tmp, call, result, service>>

(* The send on uploadChannel.                                              *)
Enter(w) ==
  /\ Step(w, "enter", "open")
  /\ up < Concurrency
  /\ up' = up + 1
  /\ UNCHANGED <<main, stream, files, tmp, call, result, service>>

Open(w) ==
  /\ \/ Step(w, "open", "send") /\ UNCHANGED ok
     \/ DiskFaults /\ Step(w, "open", "wgdone") /\ ok' = FALSE
  /\ UNCHANGED <<main, stream, disk, call, err, upload, parts, service>>

(* A nil upload is dereferenced.                                           *)
NilUpload(w) ==
  /\ Alive
  /\ worker[w] = "send"
  /\ ~upload
  /\ main' = "panicked"
  /\ UNCHANGED <<worker, stream, disk, call, result, service>>

(* One request of UploadPart; an error is logged and leaves the part nil.  *)
SendPart(w, fate) ==
  /\ Alive /\ upload
  /\ worker[w] = "send" /\ fate # "garbled"
  /\ LET c == After(w, fate, IfOpen("ok"))
     IN  /\ Keep(w, c)
         /\ stored' = IF Handled(fate) /\ mpu = "open"
                      THEN [stored EXCEPT ![w] = FullPart(w)] ELSE stored
         /\ IF ~Finished(c)
            THEN UNCHANGED <<main, worker, parts>>
            ELSE IF w > PartsCap
            THEN main' = "panicked" /\ UNCHANGED <<worker, parts>>
            ELSE /\ worker' = [worker EXCEPT ![w] = "wgdone"]
                 /\ parts' = [parts EXCEPT ![w] = IF ReturnsErr(c) THEN NoPart
                                                  ELSE FullPart(w)]
                 /\ UNCHANGED main
  /\ UNCHANGED <<stream, disk, ok, err, upload, mpu, object>>

(* The deferred function: wg.Done(), os.Remove and the two receives.       *)
WgDone(w) ==
  /\ Step(w, "wgdone", "remove")
  /\ UNCHANGED <<main, stream, disk, call, result, service>>

Remove(w) ==
  /\ Step(w, "remove", "releasetmp")
  /\ files' = files \ {w}
  /\ UNCHANGED <<main, stream, tmp, up, call, result, service>>

ReleaseTmp(w) ==
  /\ Step(w, "releasetmp", "releaseup")
  /\ tmp > 0
  /\ tmp' = tmp - 1
  /\ UNCHANGED <<main, stream, files, up, call, result, service>>

ReleaseUp(w) ==
  /\ Step(w, "releaseup", "gone")
  /\ up > 0
  /\ up' = up - 1
  /\ UNCHANGED <<main, stream, files, tmp, call, result, service>>

-----------------------------------------------------------------------------
Finish == main \in {"exited", "panicked"} /\ UNCHANGED vars

CallerRequest(fate) ==
  \/ Initiate(fate)
  \/ PutObject(fate)
  \/ SendLastPart(fate)
  \/ Complete(fate)
  \/ Abort(fate)

Caller ==
  \/ ReadBlock \/ Create \/ Write \/ Eof \/ Wait \/ Exit
  \/ \E fate \in NetFates : CallerRequest(fate)

Worker(w) ==
  \/ Enter(w) \/ Open(w) \/ NilUpload(w)
  \/ \E fate \in NetFates : SendPart(w, fate)
  \/ WgDone(w) \/ Remove(w) \/ ReleaseTmp(w) \/ ReleaseUp(w)

Next ==
  \/ Caller
  \/ \E w \in Parts : Worker(w)
  \/ Finish

(* The Go scheduler runs every goroutine that can go on, the stream ends,  *)
(* and every HTTP request ends.                                            *)
Fairness ==
  /\ WF_vars(Caller)
  /\ \A w \in Parts : WF_vars(Worker(w))

Spec == Init /\ [][Next]_vars /\ Fairness

-----------------------------------------------------------------------------
Pieces ==
  {FullPart(i) : i \in Parts} \cup {NoPart}
    \cup {[off |-> PartBlocks * (i - 1), len |-> n] : i \in Parts, n \in 0 .. PartBlocks}

(* Every variable has its type.                                            *)
TypeOK ==
  /\ main \in {"read", "create", "write", "initiate", "putobject", "lastpart",
               "wait", "complete", "abort", "returned", "panicked", "exited"}
  /\ worker \in [Parts -> {"unborn", "enter", "open", "send", "wgdone", "remove",
                           "releasetmp", "releaseup", "gone"}]
  /\ read \in 0 .. Blocks /\ size \in 0 .. PartBlocks
  /\ out \in BOOLEAN /\ num \in Parts
  /\ files \subseteq Parts /\ tmp \in Nat /\ up \in Nat
  /\ call \in [Actors -> Calls]
  /\ ok \in BOOLEAN /\ err \in BOOLEAN /\ upload \in BOOLEAN
  /\ parts \in [Parts -> Pieces]
  /\ mpu \in {"none", "open", "aborted", "completed"}
  /\ stored \in [Parts -> Pieces]
  /\ object \subseteq Pieces

(***************************************************************************)
(* CHANGELOG 1.4.3: the creation of temporary files is controlled to keep  *)
(* the use of the disk down.  A token is taken before a file is created    *)
(* and given back after it is removed: one file is being written and at    *)
(* most Concurrency wait or are being sent.                                *)
(***************************************************************************)
FilesBounded == Cardinality(files) <= Concurrency + 1

(* README, concurrency: no more parts than that are sent in parallel by    *)
(* the goroutines.                                                         *)
UploadsBounded ==
  Cardinality({w \in Parts : worker[w] \in {"open", "send"}}) <= Concurrency

(* Block b of the stream is in the object; and in the whole of it each is. *)
Has(piece, b) == piece.off <= b /\ b < piece.off + piece.len
Holds(b) == \E p \in object : Has(p, b)
HoldsTheStream == object # {} /\ \A b \in 0 .. Blocks - 1 : Holds(b)

Ended == main \in {"returned", "exited"}

(* Parts whose goroutine is past its upload and has recorded nothing.      *)
FailedParts ==
  {w \in Parts : /\ worker[w] \in {"wgdone", "remove", "releasetmp", "releaseup",
                                   "gone"}
                 /\ parts[w] = NoPart}

(***************************************************************************)
(* Complete is sent, and success is reported, only when no goroutine can   *)
(* send a part any more.  An early return waits for nobody, so Abort may   *)
(* overtake parts that are being sent: but only when another part has      *)
(* failed already and the upload is lost, never while all goes well.       *)
(***************************************************************************)
ClosesAfterWorkers ==
  /\ main = "complete" \/ (main = "returned" /\ ~err) => Sending = {}
  /\ main = "abort" => Sending = {} \/ FailedParts # {}

(***************************************************************************)
(* What a success may lack is exactly what the log has an error for: every *)
(* block that was read from the stream is in the object or belongs to a    *)
(* part that failed, and without an object some part failed or nothing was *)
(* read.  The last file, which no goroutine sends, is never missing, in    *)
(* whatever order the parts are done.                                      *)
(***************************************************************************)
LosesOnlyFailedParts ==
  Ended /\ ~err =>
    IF object = {} THEN FailedParts # {} \/ read = 0
    ELSE \A b \in 0 .. read - 1 :
           Holds(b) \/ \E w \in FailedParts : Has(FullPart(w), b)

(* Every Upload ends, with a concurrency of at least 1.                    *)
Returns == <>(main \in {"returned", "exited", "panicked"})

(* README, exit status: 1 if a response was a 4xx or 5xx; CHANGELOG 1.1.0: *)
(* 1 on an error.  So a nil error means that the whole stream is stored.   *)
StoresTheStream == Ended /\ ~err => HoldsTheStream
=============================================================================
