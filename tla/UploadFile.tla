----------------------------- MODULE UploadFile -----------------------------
(***************************************************************************)
(* UploadFile and ResumeUploadFile (client/storage.go): the upload of one  *)
(* local file, in one PUT when it fits in a chunk and otherwise as a       *)
(* multipart upload whose parts are sent by one goroutine each.  The       *)
(* goroutines wait for a token on an unbuffered channel; the caller sends  *)
(* min(Concurrency, parts) tokens and a goroutine that is done passes its  *)
(* token on.                                                               *)
(*                                                                         *)
(* A step is what happens between two points where another goroutine or    *)
(* the service can observe or act: a send on the channel together with its *)
(* receive, one HTTP request together with its fate, one deferred call.    *)
(* The service (external) is modelled from the requests the client makes.  *)
(***************************************************************************)
EXTENDS HttpCall, FiniteSets

CONSTANTS
  Size,            \* bytes of the file
  ChunkSize,       \* StorageClientConfig.MultipartChunkSize
  Concurrency,     \* Environment.Concurrency
  AbortOnFailure,  \* StorageClientConfig.AbortOnFailure
  Resuming,        \* ResumeUploadFile instead of UploadFile
  PrevChunkSize,   \* chunk size of the run that is being resumed
  PageSize,        \* parts in one page of ListParts (1000 in the code)
  NetFates         \* the fates of requests that the network and service show

ASSUME UploadFileAssumption ==
  /\ Size \in Nat
  /\ ChunkSize \in Nat \ {0}
  /\ Concurrency \in Int
  /\ AbortOnFailure \in BOOLEAN
  /\ Resuming \in BOOLEAN
  /\ PrevChunkSize \in Nat \ {0}
  /\ PageSize \in Nat
  /\ NetFates \subseteq Fates

-----------------------------------------------------------------------------
(* The file and its parts.  A piece of data is the range of the file it    *)
(* was read from; an object is the sequence of the pieces it is made of.   *)

(* Mutants: the last part is dropped; its length is not cut at the end.    *)
NumFloor == Size \div ChunkSize
ChunkUncut(i) == [off |-> ChunkSize * (i - 1), len |-> ChunkSize]

Num == (Size + ChunkSize - 1) \div ChunkSize

Parts == 1 .. Num

Chunk(i) ==
  LET off == ChunkSize * (i - 1)
  IN  [off |-> off,
       len |-> IF off + ChunkSize > Size THEN Size - off ELSE ChunkSize]

WholeFile == [i \in {1} |-> [off |-> 0, len |-> Size]]

NoObject == [i \in {} |-> 0]

(* obj is the file: its pieces follow each other from 0 to the end.        *)
IsFile(obj) ==
  /\ \A i \in DOMAIN obj :
       obj[i].off = IF i = 1 THEN 0 ELSE obj[i-1].off + obj[i-1].len
  /\ \E n \in DOMAIN obj :
       /\ n + 1 \notin DOMAIN obj
       /\ obj[n].off + obj[n].len = Size

NoPart == [off |-> -1, len |-> 0]    \* a nil *Part, a part the service lacks

(* What part i was in the interrupted upload, if it had one.               *)
Leftover(i) ==
  LET off == PrevChunkSize * (i - 1)
  IN  IF off >= Size THEN NoPart
      ELSE [off |-> off,
            len |-> IF off + PrevChunkSize > Size
                    THEN Size - off ELSE PrevChunkSize]

(* Mutant: one token per part, whatever the concurrency.                   *)
TokenPerPart == Num

(* The tokens the caller sends.                                            *)
Tokens == IF Concurrency > Num THEN Num ELSE Concurrency

-----------------------------------------------------------------------------
VARIABLES
  main,      \* where the caller's goroutine is
  worker,    \* where the goroutine of each part is
  sent,      \* tokens the caller has sent (the i of its loop)
  call,      \* the DoAndRetry in progress of the caller (0) and the workers
  ok, err,   \* the variables of the code; err: err # nil
  upload,    \* upload # nil
  listing,   \* the parts of the listing, when it has been decoded
  listed,    \* listing # nil
  parts,     \* parts[i]: NoPart for nil, else the data its ETag stands for
  mpu,       \* the service: state of the upload whose id the client has
  stored,    \* the service: the parts of that upload
  orphans,   \* the service: open uploads whose id never reached the client
  object     \* the service: the object under the key

outcome == <<ok, err>>
handle == <<upload, listing, listed>>
service == <<mpu, stored, orphans, object>>
vars == <<main, worker, sent, call, outcome, handle, parts, service>>

Actors == 0 .. Num

Empty == [i \in Parts |-> NoPart]

Init ==
  /\ main = "start"
  /\ worker = [i \in Parts |-> "unborn"]
  /\ sent = 0
  /\ call = [a \in Actors |-> NewCall]
  /\ ok = TRUE
  /\ err = FALSE
  /\ upload = FALSE
  /\ listing = Empty
  /\ listed = FALSE
  /\ parts = Empty
  /\ orphans = 0
  /\ object = NoObject
  /\ IF Resuming
     THEN /\ mpu \in {"open", "aborted"}
          /\ \E got \in SUBSET Parts :
               stored = [i \in Parts |->
                           IF i \in got THEN Leftover(i) ELSE NoPart]
     ELSE mpu = "none" /\ stored = Empty

-----------------------------------------------------------------------------
(* The answer of the service to a request about the upload.                *)
IfOpen(a) == IF mpu = "open" THEN a ELSE "notfound"

(* The call of actor a after a request with the given fate and answer.     *)
After(a, fate, answer) == Attempted(call[a], Reply(fate, answer))

(* Mutant: the retries are counted anew after every request.               *)
KeepNoCount(a, c) ==
  call' = [call EXCEPT ![a] = IF Finished(c) THEN NewCall ELSE [c EXCEPT !.sent = 0]]

(* The call of a is now c; a finished one makes room for the next.         *)
Keep(a, c) ==
  call' = [call EXCEPT ![a] = IF Finished(c) THEN NewCall ELSE c]

(* Mutant: the deferred function returns the error without Abort.          *)
LeaveWithoutAbort == err' = TRUE /\ main' = "returned"

(* The caller's way out with ok = FALSE: the deferred function.            *)
LeaveFailed ==
  /\ err' = TRUE
  /\ main' = IF upload /\ AbortOnFailure THEN "abort" ELSE "returned"

(* Mutant: the loop starts at 0.                                           *)
StartWorkersFromZero ==
  /\ main' = "tokens"
  /\ worker' = [i \in Actors |-> "wait"]

(* The loop that creates the goroutines; none runs before a token is sent. *)
StartWorkers ==
  /\ main' = "tokens"
  /\ worker' = [i \in Parts |-> "wait"]

-----------------------------------------------------------------------------
(* The caller, up to the creation of the goroutines.                       *)

(* ResumeUploadFile makes the upload of the id it was given.               *)
Begin ==
  /\ main = "start"
  /\ main' = IF Size <= ChunkSize THEN "putobject"
             ELSE IF Resuming THEN "listparts" ELSE "initiate"
  /\ upload' = (Size > ChunkSize /\ Resuming)
  /\ UNCHANGED <<worker, sent, call, outcome, listing, listed, parts, service>>

(* One PUT of the whole file (PutObject, PutObjectAt).  The body of its    *)
(* response is not decoded, nor is that of a part or of Abort.             *)
PutObject(fate) ==
  /\ main = "putobject" /\ fate # "garbled"
  /\ LET c == After(0, fate, "ok")
     IN  /\ Keep(0, c)
         /\ object' = IF Handled(fate) THEN WholeFile ELSE object
         /\ IF Finished(c)
            THEN main' = "returned" /\ err' = PutReturnsErr(c)
            ELSE UNCHANGED <<main, err>>
  /\ UNCHANGED <<worker, sent, ok, handle, parts, mpu, stored, orphans>>

(* One request of InitiateMultipartUpload.  The result is filled in by any *)
(* 2xx response, also by one whose success is not reported; without an id  *)
(* the client has no way to the upload.                                    *)
Initiate(fate) ==
  /\ main = "initiate"
  /\ LET c == After(0, fate, "ok")
     IN  /\ Keep(0, c)
         /\ \E got \in Filled(c.resp) :
              /\ upload' = (upload \/ got # "none")
              /\ mpu' = IF got = "all" THEN "open" ELSE mpu
              /\ orphans' = IF Handled(fate) /\ got # "all"
                            THEN orphans + 1 ELSE orphans
         /\ IF ~Finished(c)
            THEN UNCHANGED <<main, worker, err>>
            ELSE IF ReturnsErr(c)
            THEN main' = "returned" /\ err' = TRUE /\ UNCHANGED worker
            ELSE StartWorkers /\ UNCHANGED err
  /\ UNCHANGED <<sent, ok, listing, listed, parts, stored, object>>

(* The first page of the parts the service has.                            *)
FirstPage ==
  [i \in Parts |->
     IF Cardinality({j \in 1 .. i - 1 : stored[j] # NoPart}) < PageSize
     THEN stored[i] ELSE NoPart]

(* What a result filled in that far lists: parts are decoded in order.     *)
ListingOf(got) ==
  CASE got = "all"  -> {FirstPage}
    [] got = "some" -> {[i \in Parts |-> IF i < n THEN FirstPage[i] ELSE NoPart] : n \in Parts}
    [] OTHER        -> {listing}

(* One request of ListParts.  When the last one broke, resp is nil and     *)
(* `defer resp.Body.Close()` panics.                                       *)
ListParts(fate) ==
  /\ main = "listparts"
  /\ LET c == After(0, fate, IfOpen("ok"))
     IN  /\ Keep(0, c)
         /\ \E got \in Filled(c.resp) :
              /\ listed' = (listed \/ got # "none")
              /\ listing' \in ListingOf(got)
         /\ IF ~Finished(c)
            THEN UNCHANGED <<main, worker, err>>
            ELSE IF c.resp = "lost"
            THEN main' = "panicked" /\ UNCHANGED <<worker, err>>
            ELSE IF ReturnsErr(c)
            THEN main' = "returned" /\ err' = TRUE /\ UNCHANGED worker
            ELSE StartWorkers /\ UNCHANGED err
  /\ UNCHANGED <<sent, ok, upload, parts, service>>

-----------------------------------------------------------------------------
(* The goroutine of part w.                                                *)

Alive == main # "panicked"    \* a panic in any goroutine ends the process

Step(w, from, to) ==
  /\ Alive
  /\ worker[w] = from
  /\ worker' = [worker EXCEPT ![w] = to]

(* `ch <- true` of the caller meets `<-ch` of w.                           *)
SendToken(w) ==
  /\ main = "tokens"
  /\ sent < Tokens
  /\ Step(w, "wait", "begin")
  /\ sent' = sent + 1
  /\ UNCHANGED <<main, call, outcome, handle, parts, service>>

(* The deferred `ch <- true` of v meets `<-ch` of w.                       *)
PassToken(v, w) ==
  /\ Alive
  /\ worker[v] = "pass"
  /\ worker[w] = "wait"
  /\ worker' = [worker EXCEPT ![v] = "gone", ![w] = "begin"]
  /\ UNCHANGED <<main, sent, call, outcome, handle, parts, service>>

(* ResumeUploadFile takes a part that is listed as it is.                  *)
Reuse(w) ==
  /\ Resuming /\ listed
  /\ listing[w] # NoPart
  /\ Step(w, "begin", "done")
  /\ parts' = [parts EXCEPT ![w] = listing[w]]
  /\ UNCHANGED <<main, sent, call, outcome, handle, service>>

(* os.Open of the file, for a part that has to be sent.                    *)
Open(w) ==
  /\ Resuming => listed
  /\ listing[w] = NoPart
  /\ \/ Step(w, "begin", "send") /\ UNCHANGED ok
     \/ Step(w, "begin", "done") /\ ok' = FALSE
  /\ UNCHANGED <<main, sent, call, err, handle, parts, service>>

(* A nil listing or a nil upload is dereferenced.                          *)
NilResult(w) ==
  /\ Alive
  /\ \/ worker[w] = "begin" /\ Resuming /\ ~listed
     \/ worker[w] = "send" /\ ~upload
  /\ main' = "panicked"
  /\ UNCHANGED <<worker, sent, call, outcome, handle, parts, service>>

(* One request of UploadPartAt; on success the part gets the ETag of what  *)
(* was read.                                                               *)
SendPart(w, fate) ==
  /\ Alive /\ upload
  /\ worker[w] = "send" /\ fate # "garbled"
  /\ LET c == After(w, fate, IfOpen("ok"))
     IN  /\ Keep(w, c)
         /\ stored' = IF Handled(fate) /\ mpu = "open"
                      THEN [stored EXCEPT ![w] = Chunk(w)] ELSE stored
         /\ IF ~Finished(c)
            THEN UNCHANGED <<worker, ok, parts>>
            ELSE /\ worker' = [worker EXCEPT ![w] = "done"]
                 /\ IF ReturnsErr(c)
                    THEN ok' = FALSE /\ UNCHANGED parts
                    ELSE /\ parts' = [parts EXCEPT ![w] = Chunk(w)]
                         /\ UNCHANGED ok
  /\ UNCHANGED <<main, sent, err, handle, mpu, orphans, object>>

(* Mutant: after a failure a goroutine ends without passing its token on.  *)
AfterDoneKeepingToken == IF ok THEN "pass" ELSE "gone"

(* The deferred wg.Done(); the goroutine goes on to pass its token.        *)
AfterDone == "pass"

WgDone(w) ==
  /\ Step(w, "done", AfterDone)
  /\ UNCHANGED <<main, sent, call, outcome, handle, parts, service>>

-----------------------------------------------------------------------------
(* The caller, once all tokens are sent.                                   *)

(* Mutant: the caller waits for nobody.                                    *)
WgIgnored == TRUE

WgIsZero == \A w \in Parts : worker[w] \in {"pass", "gone"}

(* wg.Wait() returns.                                                      *)
Wait ==
  /\ main = "tokens"
  /\ sent >= Tokens
  /\ WgIsZero
  /\ IF ok THEN main' = "complete" /\ UNCHANGED err ELSE LeaveFailed
  /\ UNCHANGED <<worker, sent, call, ok, handle, parts, service>>

(* One request of CompleteMultipartUpload: the service makes the object of *)
(* the parts named by the request if it has all of them.                   *)
Complete(fate) ==
  /\ main = "complete"
  /\ LET answer == IfOpen(IF parts = stored THEN "ok" ELSE "rejected")
         c == After(0, fate, answer)
     IN  /\ Keep(0, c)
         /\ IF Handled(fate) /\ answer = "ok"
            THEN mpu' = "completed" /\ object' = parts
            ELSE UNCHANGED <<mpu, object>>
         /\ IF ~Finished(c)
            THEN UNCHANGED <<main, ok, err>>
            ELSE IF ReturnsErr(c)
            THEN ok' = FALSE /\ LeaveFailed
            ELSE main' = "returned" /\ UNCHANGED <<ok, err>>
  /\ UNCHANGED <<worker, sent, handle, parts, stored, orphans>>

(* One request of AbortMultipartUpload, whose outcome is not looked at.    *)
Abort(fate) ==
  /\ main = "abort" /\ fate # "garbled"
  /\ LET c == After(0, fate, IfOpen("ok"))
     IN  /\ Keep(0, c)
         /\ mpu' = IF Handled(fate) /\ mpu = "open" THEN "aborted" ELSE mpu
         /\ main' = IF Finished(c) THEN "returned" ELSE main
  /\ UNCHANGED <<worker, sent, outcome, handle, parts, stored, orphans, object>>

-----------------------------------------------------------------------------
Finish == main \in {"returned", "panicked"} /\ UNCHANGED vars

CallerRequest(fate) ==
  \/ PutObject(fate)
  \/ Initiate(fate)
  \/ ListParts(fate)
  \/ Complete(fate)
  \/ Abort(fate)

Caller ==
  \/ Begin
  \/ \E w \in Parts : SendToken(w)
  \/ Wait
  \/ \E fate \in NetFates : CallerRequest(fate)

Worker(w) ==
  \/ Reuse(w)
  \/ Open(w)
  \/ NilResult(w)
  \/ \E fate \in NetFates : SendPart(w, fate)
  \/ WgDone(w)
  \/ \E v \in Parts : PassToken(w, v)

Next ==
  \/ Caller
  \/ \E w \in Parts : Worker(w)
  \/ Finish

(* The Go scheduler runs every goroutine that can go on, and every HTTP    *)
(* request ends.                                                           *)
Fairness ==
  /\ WF_vars(Caller)
  /\ \A w \in Parts : WF_vars(Worker(w))

Spec == Init /\ [][Next]_vars /\ Fairness

-----------------------------------------------------------------------------
Pieces == {Chunk(i) : i \in Parts} \cup {Leftover(i) : i \in Parts} \cup {NoPart}

(* Every variable has its type.                                            *)
TypeOK ==
  /\ main \in {"start", "putobject", "initiate", "listparts", "tokens",
               "complete", "abort", "returned", "panicked"}
  /\ worker \in [Parts -> {"unborn", "wait", "begin", "send", "done", "pass",
                           "gone"}]
  /\ sent \in Nat
  /\ call \in [Actors -> Calls]
  /\ ok \in BOOLEAN /\ err \in BOOLEAN
  /\ upload \in BOOLEAN /\ listed \in BOOLEAN
  /\ listing \in [Parts -> Pieces]
  /\ parts \in [Parts -> Pieces]
  /\ mpu \in {"none", "open", "aborted", "completed"}
  /\ stored \in [Parts -> Pieces]
  /\ orphans \in Nat
  /\ object \in {NoObject, WholeFile} \cup [Parts -> Pieces]

Holding == {w \in Parts : worker[w] \in {"begin", "send", "done", "pass"}}

(***************************************************************************)
(* README, [dagtools] concurrency: the number of parts uploaded in         *)
(* parallel.  No interleaving of the token passing lets more goroutines    *)
(* run, because tokens are neither made nor lost on the way: the tokens    *)
(* held are the ones sent.                                                 *)
(***************************************************************************)
TokensKept == Cardinality(Holding) = sent

AtMostConcurrency ==
  Cardinality({w \in Parts : worker[w] \in {"begin", "send"}})
    <= (IF Concurrency > 0 THEN Concurrency ELSE 0)

(***************************************************************************)
(* What UploadFile and ResumeUploadFile promise the commands (README, exit *)
(* status): an object under the key is the whole file, and a nil error     *)
(* means that it is there, however requests and answers were lost and the  *)
(* goroutines interleaved.                                                 *)
(***************************************************************************)
StoresTheFile ==
  /\ object # NoObject => IsFile(object)
  /\ main = "returned" /\ ~err => object # NoObject

(***************************************************************************)
(* Complete and Abort are only ever sent when no goroutine can send a part *)
(* any more, and Complete only with every part uploaded or reused: the     *)
(* unsynchronised writes of ok and parts are all seen by the caller.       *)
(***************************************************************************)
ClosesAfterWorkers ==
  main \in {"complete", "abort"} =>
    \A w \in Parts :
      /\ worker[w] \notin {"wait", "begin", "send"}
      /\ main = "complete" => parts[w] # NoPart

(***************************************************************************)
(* README, abortOnFailure: a multipart upload that fails is deleted.       *)
(* Whichever part or request fails, the deferred function sends Abort      *)
(* before the error is returned.  The exception is an error reported by    *)
(* InitiateMultipartUpload or ListParts: ok is still true, even if the     *)
(* upload was opened by the last repetition of the request.                *)
(***************************************************************************)
FailureTriesAbort ==
  [][AbortOnFailure /\ main' = "returned" /\ main # "returned" /\ err'
       /\ upload' /\ mpu' = "open"
     => main \in {"abort", "initiate", "listparts"}]_vars

Over == main \in {"returned", "panicked"}

(***************************************************************************)
(* Every part is tried: whatever the order of the goroutines, each one     *)
(* gets a token and runs to its wg.Done(), unless the upload ended before  *)
(* there were goroutines.                                                  *)
(***************************************************************************)
EveryPartTried ==
  <>(Over \/ \A w \in Parts : worker[w] \notin {"unborn", "wait", "begin", "send"})

(* Who can go on: the caller, with a request or by itself, once its token  *)
(* finds a goroutine that waits or the last goroutine is done; a goroutine *)
(* that has a part; two that pass a token.                                 *)
SomeoneCanAct ==
  \/ main \in {"start", "putobject", "initiate", "listparts", "complete", "abort"}
  \/ main = "tokens" /\ sent < Tokens /\ \E w \in Parts : worker[w] = "wait"
  \/ main = "tokens" /\ sent >= Tokens /\ WgIsZero
  \/ \E w \in Parts : worker[w] \in {"begin", "send", "done"}
  \/ \E v, w \in Parts : worker[v] = "pass" /\ worker[w] = "wait"

(***************************************************************************)
(* The caller can be stuck in the loop that sends the tokens, but nowhere  *)
(* else and only when nothing is left to upload: a stuck UploadFile has    *)
(* sent every part.                                                        *)
(***************************************************************************)
StuckOnlyWhenDone ==
  ~Over /\ ~SomeoneCanAct => main = "tokens" /\ sent < Tokens /\ WgIsZero

(* The requests of one call.                                               *)
Tries == IF Retry > 0 THEN Retry + 1 ELSE 1

(***************************************************************************)
(* Every request of InitiateMultipartUpload that the service handles opens *)
(* an upload, and only the one whose answer arrives can be completed or    *)
(* aborted.  One UploadFile leaves at most one upload per request of a     *)
(* call behind, the one it knows included.                                 *)
(***************************************************************************)
OrphansBounded ==
  orphans + (IF Resuming \/ mpu = "none" THEN 0 ELSE 1) <= Tries

(* CHANGELOG 1.2.0: a program that never ended when concurrency was set    *)
(* to a high value was fixed.  So every call of UploadFile returns.        *)
Returns == <>Over

AbsObject ==
  IF object = NoObject THEN "old" ELSE IF IsFile(object) THEN "new" ELSE "broken"

AbsStatus ==
  IF main = "returned" THEN IF err THEN "failed" ELSE "succeeded"
  ELSE IF main = "panicked" THEN "failed" ELSE "running"

Atomic == INSTANCE AtomicUpload WITH object <- AbsObject, status <- AbsStatus

(* UploadFile and ResumeUploadFile implement the atomic upload.            *)
ImplementsAtomic == Atomic!Spec
=============================================================================
