# A TLA+ model of dagtools

dagtools is a command line client of an S3-like storage service. A process runs one
command (`put`, `get`, `sync`, `rm`, ...), which calls a storage client, which sends
HTTP requests. This directory holds TLA+ modules that model the parts of it where
order, failure and concurrency decide whether it is correct, the TLC configurations
that check them, and theorems checked by TLAPS.

    tlc -config UploadFileParallel.cfg UploadFile      # a run
    tlapm UploadFileProofs.tla                         # the proofs of a module

## The system

| Component | State | Operations | What makes it correct |
|---|---|---|---|
| `DoAndRetry`, `Do` (client/storage.go) | resp, two variables named err, retryCount | send, look at the response, sleep, repeat | repeats only what failed, stops in time, its error tells how the call ended |
| `UploadFile`, `ResumeUploadFile` (client/storage.go) | ok, err, parts, upload, listing, a token channel, a WaitGroup; on the service: uploads, parts, the object | PUT; Initiate or ListParts, one goroutine per part, Complete, Abort | the object is the whole file or as before, a nil error means the former, the parallelism is bounded, Abort after a failure, it ends |
| `Upload` (client/storage.go) | the same, plus the open temporary file, size, num and two buffered channels | read, write, hand over a file, send the last part, wait, complete | the object is the whole stream, disk and parallelism are bounded, it ends |
| `put` (cmd/put.go) | the arguments that are left, the key | makes a bucket, chooses between the three uploads, walks directories | status 0 means that every given file is in the bucket |
| `sync` (cmd/sync.go) | local files and objects with their sizes and times | two passes of compare and copy | what is not copied is equal, what is copied becomes equal, a second run changes nothing |
| `rm`, `uploads rm` (cmd/rm.go, cmd/uploads_rm.go) | page of a listing, counter, the key of `exec` | paged listing and deletion, filters, bucket, fallback for keys with a leading slash | deletes what was named, all of it, and nothing else; it ends |
| `get`, `cat` (cmd/get.go, cmd/cat.go) | page, err of the last directory; the local files | paged listing, directories and files, fallback | every named object is in its file or an error is printed, nothing else is written, it ends |
| `ls`, `uploads ls`, `exist` (cmd/ls.go, cmd/uploads_ls.go, cmd/exist.go) | calls inside one another, bucket and key over the arguments | paged listing, recursion over directories, fallback | a line for everything that is named, and only one |
| `policy`, `space`, `traffic` (cmd/*.go) | — | one call each | status 0 means that the call did it |
| registry and status (main.go, cmd/main.go) | command table, status | search for the configuration, Init, Run, recover | status 0 only for success |
| signing, URLs (client/storage.go, client/utils.go) | — | pure functions on strings | the service computes the same |
| ini, env | sections and values, the unfinished line | line parser, defaults | what a file says line by line is what the process runs with |

How they interact: a command calls the client (a Go interface, mocked in the tests);
every operation of the client is one or more calls of `DoAndRetry`; `DoAndRetry` calls
back `fn` to build each request and `Do` to sign, send and decode it. `rm`, `get`, `ls` and
`uploads` are the same walk: ask for a page of a listing, do something with what is on
it, ask for the next one with the marker of the page, while other clients change the
bucket. Inside the process the uploads are the only concurrent part: a caller and its goroutines share `ok`, `parts`, `upload`
and the channels. All other state is on the service and on the local disk.

The behaviours that are hard: lost requests and lost answers, where a repetition may
do the work twice; the passing of tokens between goroutines; one part of several
failing; who may still be running when the caller closes the upload, returns, or ends
the process; pages listed by marker while their objects come and go; errors that are
printed or dropped on the way to the status; undecodable and unexpected responses; the boundaries of sizes, pages,
slices and counters. `PROJECT.json` lists them under `hazards`, each at its line.

## Modules

| Module | What it is |
|---|---|
| `HttpCall` | the control of one call of `DoAndRetry` as operators on a record, and the fates of a request on the network |
| `DoAndRetry` | one call as a state machine against a network that delivers late |
| `DoAndRetryProofs` | its theorems |
| `AtomicUpload` | what an upload promises a command |
| `UploadFile` | `UploadFile` and `ResumeUploadFile`, with the service |
| `UploadFileProofs` | its theorems |
| `UploadStream` | `Upload`, with the service and the temporary files |
| `UploadStreamProofs` | its theorems |
| `Sync` | the sync command: files, objects, times, and many runs |
| `SyncProofs` | its theorems |
| `Listing` | keys, and the pages in which the service lists them, as operators |
| `ListingProofs` | lemmas about them |
| `Command` | what the commands that walk over pages have in common |
| `Remove` | `rm` and `uploads rm` |
| `RemoveProofs` | its theorems |
| `Get` | `get` and `cat` |
| `GetProofs` | its theorems |
| `List` | `ls`, `uploads ls` and `exist` |
| `Put` | `put` |
| `OneCall` | `policy put`, `cat`, `rm`, `space`, `traffic` and `ls` without an argument |
| `IniFile` | the parser of the configuration and what a file means, as operators |
| `Program` | a whole process: configuration, one of the commands above, exit status |
| `ProgramProofs` | its theorems, and those of `List`, `Put`, `OneCall` and `IniFile` |
| `MCRemove`, `MCGet`, `MCProgram` | instances: names, arguments and files |

`UploadFile`, `UploadStream` and `OneCall` extend `HttpCall`: one attempt of a call is one
step. `Remove`, `Get` and `List` extend `Command`, which extends `Listing`. `Program` takes
`Get`, `List`, `Put` and `OneCall` by INSTANCE, each with its own names, over common
variables, and puts the configuration before them and the status behind them. In it a
command can only take the steps of its module, so the properties of the four modules are
checked there, once, together with what becomes of them in the exit status.

Where all constants are numbers, Booleans and sets of strings, a configuration
instantiates the module itself; names and arguments are sequences, which a .cfg cannot
write, so `Remove`, `Get` and `Program` have an MC module. Symmetry is not used: parts and
names are ordered, and their order matters.

### HttpCall and DoAndRetry

What one execution of `Do` brings back is one of six values: `ok`, `garbled` (2xx, body
not decoded), `redirect` (3xx), `notfound`, `rejected` (other 4xx, 5xx) and `lost` (nil
response). A call is the record of the number of requests sent, what the last one and
what the first one brought. The first one matters because `req, err := fn()` inside the
loop declares a new `err`: the outer one keeps the error of the first request, and
because the head of the loop is not reached after the last one. `Finished` and
`ReturnsErr` say this in one line each.

In `DoAndRetry` a request travels, is handled (with an effect that the service counts),
is answered or broken off; one that was broken off on its way stays in the network and
is handled later. A rejection may come from a gateway behind which the work was done.

For the uploads a request with everything the network does to it is one step, and its
*fate* is one of `answered`, `garbled`, `unanswered` (handled, answer lost), `unsent`,
`refused` and `redirected`. This is sound for the uploads because their requests are
sent one after the other by each goroutine and repeat the same content: a part that
arrives late is the same part.

### UploadFile

A file of `Size` bytes is cut into parts; data is represented by the range of the file it
was read from, so that an object is a sequence of ranges and "is the file" is a
statement about ranges that follow each other from 0 to `Size`. Steps:

| Action | Code |
|---|---|
| `Begin` | the size test, and `ResumeUploadFile`'s own `upload` |
| `PutObject`, `Initiate`, `ListParts`, `Complete`, `Abort` | one request of the caller's calls, with what follows it up to the next call |
| `StartWorkers` | the loop of `go func` (no goroutine runs before it has a token) |
| `SendToken`, `PassToken` | a send on the unbuffered channel and its receive |
| `Reuse`, `Open`, `NilResult`, `SendPart` | the body of a goroutine |
| `WgDone` | the deferred `wg.Done()`, after which the token is passed on |
| `Wait` | `wg.Wait()` and the test of `ok` |
| `LeaveFailed` | the deferred function of the caller |

The state of the code is `main` and `worker` (program counters), `sent`, `ok`, `err`,
`upload`, `listing`/`listed`, `parts`, and `call` for the calls in progress. The state of the
service is `mpu`, `stored`, `orphans` and `object`. A panic in any goroutine ends the
process (`panicked`). A resumed upload finds any subset of the parts on the service,
cut with `PrevChunkSize`, or finds the upload gone.

What the service does is external: it keeps the parts of an open upload, makes the
object when Complete names exactly the parts it has, answers 404 for an upload that is
closed, and List Parts returns the first `PageSize` of them. An undecodable body leaves
nothing, something or everything in the result, as `xml.Decoder` does.

Not modelled: a file that changes or cannot be read while it is sent (only `os.Open`
may fail), the content of ETags (a part's ETag stands for what was read), a nil file.

### UploadStream

The stream comes in `Blocks` reads; `PartBlocks` of them make a file larger than a chunk.
The caller takes a token of `tmpFileWriteChannel` before it creates a file, hands the
full file to a goroutine, which takes a token of `uploadChannel`, sends the part, and then
runs its deferred function in four steps (`WgDone`, `Remove`, `ReleaseTmp`, `ReleaseUp`),
between which the others may act. Each return of an error is `Leave`, the deferred function of
the caller: it asks whether a goroutine has set `ok` to false meanwhile, and waits for none. `PartsCap` is the length of the slice `parts`. With
`DiskFaults` `TempFile`, `Write` and `os.Open` may fail, with `ReadFaults` the stream may.
`Exit` is the end of the put command and of the process.

A negative concurrency makes `make(chan bool, n)` panic and is excluded by an
assumption; with 0 nothing can be sent and nothing ends.

### Sync

One directory and the objects of the same names. A file is its content and its
modification time, an object also has the `last_modified` of its metadata; content is a
sequence of blocks named by the time of the change that made them, so that a file can be
partly new and partly old (`Overwrite`: there is no `O_TRUNC`).

| Action | Code |
|---|---|
| `Start` | `Run`: direction and dry run |
| `CompareWithObject`, `Upload`, `EndWalk` | the function of `filepath.Walk` in `SyncLocalToDag` |
| `List`, `EndPage` | the loop of `SyncDagToLocal` over pages |
| `CompareWithFile`, `Get`, `SetTime` | `WriteFile`: the comparison, the copy, the deferred `Chtimes` |
| `Edit`, `Put`, `Kill` | the user, other clients, the end of the process, at any moment |

A storage call is one step with every result it can have; that of `UploadFile` is stored or
not, as `AtomicUpload` says, since its error is only printed. A file is stat'ed and its
object asked for in one step: an edit between the two comes to the same as an edit after
them. `Return` resets what the Go functions keep in local variables.

The history variables `dirty` (names that changed or failed since the run began) and
`broken` (files that a broken download left with the time of the object) say what the
properties make no promise for.

Assumed: no two changes fall in one second (sync compares whole seconds), client and
service have one clock, nobody edits the file that is being written. Not modelled: names
and prefixes as strings, keys that end with a slash, subdirectories, removals.

### Listing and Command

A key is a sequence of tokens, of which `/` and `*` are two, so that a prefix, a
directory and a leading slash mean what they mean in the code. What is listed is known by
its place in `Names`, which is the order of listings; uploads may have the same key in
several places, objects may not (`Distinct`). `ListPage` is the service: of what is behind
the marker and has the prefix, the first `PageSize`, with the common prefixes if there is
a delimiter. This is external, as is the order: keys of one prefix stand together
(`OrderAssumption`), which is true of every order by bytes. `NextMarker` comes with a page
also without a delimiter, as the code relies on.

`Undecoded` is what an undecodable or redirected response may leave of a page, neither of
which is an error for `DoAndRetry`: nothing at all (a nil result, which some commands
dereference), or its beginning, without the flag, without the marker.

In `Command` a storage call is one step with every result it can have. `Put` and `TakeAway`
are other clients, at any moment between two steps. `MaxEvents` bounds their changes and the
undecodable responses together. Histories: `old` has the objects that nobody has put since
the start, for which alone a listing can promise something; `hidden` says that the code
dropped an error on the way to the status; `troubles` counts undecodable responses.

### Remove

| Action | Code |
|---|---|
| `List`, `Delete` | the loops over pages of `removeObject` and `removeBucket`, with and without -r |
| `DeleteOne` | `DeleteObject` of a single key |
| `DropBucket` | `DeleteBucket`, when all is deleted or, without -r, at once |
| `Leave`, `EndWalk` (operators) | the returns of both functions and the fallback of `exec` without the slashes |
| `ListUploads`, `Abort`, `EndUploadsPage` | `exec` of uploads rm and `removeUploads` |

In a multiple deletion any set of the page may be refused; such errors are only logged,
and `refused` remembers them. `num` decides the fallback: it is what the result listed, which
may be less than what was deleted if the response was undecodable.

### Get, List, Put

`Get`: `Exec` and `GetObject` are `exec` and `getObject` (and `cat`), `List`, `Copy` and `EndPage` the
loop of `getObjectRecursively` with `MkdirAll` and `writeFile`. A file holds nothing, something
old and longer than the object, a part, the whole, or a mixture (there is no `O_TRUNC`).
A file that stands where a directory is needed, and the other way round, are in the model.

`List`: the calls of the listing functions inside one another are a list of listings that are
still to be asked for (`todo`), the innermost first, each with its depth, which says through
how many calls an error has to go. TSV and JSON are one kind, "table": their control
is the same. `NextArgument` is the loop over arguments, in which the key of one argument
outlives it: `lastKey` is that of `Run`, `key` that of `exec`, from which a second attempt trims
the slashes. The next argument begins with the former.

`Put`: `Begin` is `Run` up to the loop, `NextRoot` and `EndRoot` the loop over the paths, `PutFile`
the callback of `filepath.Walk`, with the key it computes. Local files are in the order of
the walk; a file may be gone or its directory unreadable when the walk comes to it. An
upload is one step, stored or not, as `AtomicUpload` says. The error of an empty standard input
is what `Run` returns if there is no path to overwrite it.

Assumed: keys and paths have no two slashes in a row and no `..`; a path given to `put`
does not start with `./` and is not the working directory; a target of `get` does not end
with a slash.

### OneCall

A call of `DoAndRetry` as in `HttpCall`, with what the commands make of its result:
which status codes they accept, what they print of a result that was filled in partly,
where they dereference one that is nil. The file of `policy put` is closed by net/http
after the first request, so a repetition can only break (`Sendable`).

### IniFile and Program

A configuration file is a list of lines of five kinds, each short or longer than the
buffer of `bufio.Reader`. `Read` is one round of the loop of `parseFile` on one piece of a line,
`Meaning` and `IsValid` say line by line, without the parser's state, what the file means.

`Program`: `OpenFile`, `ReadLine` and `EndOfFile` are the search over the default files, a read error
included; `InitEnvironment` the check of the log type and of the command's name; `RunCommand`
a step of the command; `Exit` is `main` with its `recover`: a panic ends with 0, with -d with 2.

### AtomicUpload

An object that is old or new and a status. A command may rely on this: the object
never is anything else, success implies new, failure implies nothing. `UploadFile`
implements it (run `UploadFileParallel`, theorem `Refinement`), and `Sync` builds on it; `Upload` does not, as
`StreamHole` shows: its object can be a stream with a hole.

## Runs

| Run | Bounds | What it shows |
|---|---|---|
| `DoAndRetry` | 3 retries | the call repeats only after a loss or a rejection, the service does the work at most once more than the client was left unsure, nothing follows a final response, errors only at the end, it returns |
| `UploadFileParallel` | 4 parts, the last one shorter, 3 tokens, 1 retry, all losses | parallelism, order of the closing requests, Abort, every part tried, stuck only when everything is sent, at most one upload left behind per request, the atomic upload |
| `UploadFileResume` | 4 parts, any subset left over, pages of 2, 1 token, undecodable responses | the object is the whole file, it returns |
| `UploadFileSmall` | one chunk exactly | one PUT; success means stored, redirects included |
| `UploadFileHang` (violation) | 2 parts, 2 tokens, no failure | the caller can wait for ever to send its second token |
| `StreamParts` | 3 full parts and a shorter one, 2 uploads at a time, disk faults, broken reads, all losses | Complete and success after all goroutines, Abort ahead of one only when a part has failed, a success lacks nothing that was read but the parts that failed, it returns |
| `StreamBounds` | 4 full parts, channels of 2 and 3, every fault, a slice of 3 | temporary files and parallel uploads bounded |
| `StreamHole` (violation) | 2 parts, one refused | success is reported for an object without the part |
| `Sync` | 2 names, pages of 1, contents of at most 2 blocks, 2 runs, 3 edits, puts or undecodable pages | what is taken for unchanged is equal, after a run upwards nothing is left to do, after a run downwards every object is in its file |
| `Remove` | 6 names, pages of 2, 7 arguments, rm and uploads rm, with and without -r, 1 change or undecodable response | all that is named is gone after an honest success, nothing else is deleted, it ends |
| `Program` | 15 commands; files of up to 3 lines; 5 keys for `get`, 6 for `ls`, 4 local files for `put`; pages of 2, 1 change or undecodable response, 2 retries, all fates | the process runs as configured; status 0 of each command means that it did what it was told; listings are complete and without repetition; nothing but what is named is written; it ends |
| `GetForever` (violation) | 3 names, one argument, no events | get of a key with a leading slash that fails never ends |

Why the bounds are enough. Three retries make a first, a middle and a last request of
the loop distinct; one retry suffices in the uploads, where the calls are only known by
their outcome. Four parts with fewer tokens let a token be handed on more than once
while another goroutine is anywhere in its body, with a shorter last part. Four full
parts fill both channels of `Upload` and leave one to wait. Two blocks give a longer, an
equal and a shorter file and a broken copy, two names a page that is not the first, two
runs one that finds what another left. The names of `Remove` have a directory, a key that
starts like it ("a-" next to "a/b"), one with a leading slash, and two uploads of one key;
with pages of two, a walk over all has three pages, the marker of the first is behind an
entry that has been deleted, and every argument kind meets keys on both sides of its
filter. One change of others is enough to put something before or behind the marker or
to empty a page. The names of `Program` add a directory in a directory, a key that ends
with a slash and a file where a directory is needed; three lines of a file have a long
comment between a section and an option, and the section without a name. The theorems make the
bounds of all modules irrelevant for what they state.

`CHECK_DEADLOCK FALSE` is said in `UploadFileParallel` and `UploadFileHang`, where
UploadFile may really stop (see below), and in `Sync`, where nothing is left to do after
the last run and change. With a concurrency of 1, deadlock is checked. The commands
stutter when they are done (`Done`), so that any other stop is a deadlock.

Fairness: weak fairness of the caller and of every goroutine, because the Go scheduler
runs every goroutine that can go on and channel operations between ready parties
happen. For `Remove`, `Get` and `Program`, whose processes are sequential, it is weak fairness
of `Step`: the process goes on while it can, other clients may stop at any time. Inside it lies an assumption about the environment: every HTTP request ends, by
an answer or by a broken connection, and the stream ends. The client sets no timeout
of its own, so a server that keeps a connection open in silence stops everything.

## What the violations say

* The token loop (`UploadFileHang`): tokens are handed on by goroutines *and* sent by the
  caller. When the goroutines that have a token serve all the others before the caller
  has sent its last one, its send has no receiver. `StuckOnlyWhenDone` shows that then
  everything is sent, so that nothing but the Complete is missing; for a resumed upload
  whose parts are reused without a request the race is easily lost. Goroutines that wait
  to hand on the last tokens are never released either, which matters to nobody.
* The hole (`StreamHole`): a goroutine of `Upload` logs the error of its part and goes on. A
  failed `os.Open` sets `ok` but no `err`, and `Upload` returns nil without an object. A
  failed read of the stream has the same effect as its end. `LosesOnlyFailedParts` says how
  large the hole can be: what is missing belongs to a part that failed, or was never read.
* For ever (`GetForever`): where `rm` and `cat` fall back to the key without its slash, `exec` of get calls
  itself with the same key; every failure, a 404 for example, repeats itself. The theorem
  `OnlyTheFallbackRepeats` says that nothing else in get or cat can.

Seen in the model without a run of their own, most of them as a named exception of a property:

* Calls: the loop ends before the response of the last request is looked at, and `req, err := fn()`
  declares an `err` of its own, so when the last repetition succeeds, its response is returned
  together with the error of the first request. `NilErrorIsAnswered` and `GivesUpOnlyAtTheEnd`
  hold all the same, since they say what a nil error means and when a call may give up; below 400
  is success for `DoAndRetry`, and while `PutObjectAt` tests for 200,
  the multipart requests test nothing, so that a redirected Complete counts as done;
  Complete whose answer was lost is repeated, gets a 404 and is reported as failed although
  the object is stored; each lost answer to Initiate leaves an upload that nobody can abort
  (`OrphansBounded`: no more than the requests of the call); a nil response is dereferenced in `ListParts` after a lost last
  request; an undecodable answer of Initiate makes the goroutines dereference nil.
* `UploadFile`: the returns after Initiate and ListParts leave `ok` true and send no Abort (the
  exception in its `FailureTriesAbort`).
* `Upload`: when the last part, `TempFile` or `Write` fails, it returns with `ok` true and sends no
  Abort. If a goroutine has set `ok` to false before (its `os.Open` failed), it sends Abort at once,
  while other goroutines may be sending parts: the second half of `ClosesAfterWorkers`, which
  `StreamParts` reaches. After an Initiate without
  error and without a result, a later one that fails with a result sends Abort while
  goroutines are still sending (why `ClosesLast` assumes `DecodedAnswers`); an empty stream
  returns nil without an object (`read = 0` in `LosesOnlyFailedParts`); the 1001st
  part, and a stream of exactly 1000 full parts, panic; the process may end before a goroutine
  removes its temporary file.
* `sync`: a download that breaks off gets the object's time and, at the same size, is taken
  for it from then on; a longer file keeps its end and is downloaded by every run; so is an
  object with a `last_modified`; an undecodable page ends it early without an error.
* `rm`: errors of single objects do not reach the status (`refused`); `rm b:/a` deletes "a" when
  the deletion of "/a" fails; uploads rm drops the errors of `removeUploads` (`hidden`).
* `get`: `get -r b:` passes only keys that start with a slash, so it downloads next to nothing
  with status 0; errors of files and directories are printed and do not reach the status.
* `ls`: `ls b:k b` lists b:k twice, since the key outlives its argument, and so do exist and
  uploads ls (`lastKey # arg` in `ListsAll`); TSV and JSON drop errors of later pages and list a key
  with a leading slash twice, also for an argument that has it from the one before: `ls -r -tsv b:/ b`
  (the exception in `ListsOnce`, which therefore asks for `lastKey`).
* `put`: an empty standard input is an error if no path is given; with data on it the files that are given are ignored; a file that
  is gone when the walk comes to it is a panic; an unreadable directory is left out.
* The process: a panic ends with status 0; a repetition of `policy put` breaks always.

## Proofs

All theorems hold for every value of the constants that satisfies the named assumptions
(`RetryAssumption`: an integer; `UploadFileAssumption`: sizes are numbers, chunks are not
empty, concurrency is any integer; `UploadStreamAssumption` likewise,
with a concurrency that is not negative; `CommandAssumption`: pages
are not empty, keys are sequences of strings; `OrderAssumption`, see Listing; those of `Program`
say the same of its instances, and that a local file has a name and a configuration file is
missing or a list of lines).

`DoAndRetryProofs`. The inductive invariant `CallInv` says that the history is what the
record remembers, that an unfinished call has seen only failures that are repeated (so
that every entry of the history is one that left the client unsure), and that each
request accounts for at most one effect, done, travelling or stray. From it:
`TypeCorrect`, `NilErrorAnswered`, `GivesUpAtTheEnd`, `RepeatsBounded`, and the action property
`OverAfterTheEnd`. Cardinalities are handled by the facts on finite sets. `StepsBounded`: each
step takes something from a number that is at most four per allowed request (`Left`), so no
schedule of losses and of requests that arrive late makes a call go on for ever.

`UploadFileProofs`. The invariant is a conjunction, each part relying on those before:

* `TypeOK` (`TypeCorrect`).
* `TokenInv`: the goroutines that hold a token are as many as the tokens the caller has
  sent, which are at most `Tokens`. `AtMostConcurrency` alone is not inductive, since a
  goroutine that passes its token starts another one (`ConcurrencyBound`).
* `StartInv`: every goroutine exists when the caller is at the tokens, and none is gone before
  a token was sent. With
  `TokenInv` it shows where everybody can be held up: while a part is unsent or the caller
  is elsewhere somebody can act, so the only place to get stuck is the loop of the tokens, with
  every part sent (`StuckOnlyAtTheTokens`). With a concurrency of 1, the default, there is no
  second token and not even this (`NeverStuckByDefault`). Both are about the guards of the
  actions, `SomeoneCanAct`. They assume a concurrency of at least 1: with 0 no
  token is sent at all.
* `OpenedInv`: while Initiate is asked for, the uploads that nobody can abort are at most the
  requests it has sent, and a request that brings the id is the last (`UploadsOpened`). It rests on
  `CallsBounded`: an unfinished call has requests left.
* `PhaseInv`: every call in progress has failed so far; when `ok` holds, every goroutine
  past its work has its part; past the wait all goroutines are; no error is set before
  the way out (`ClosesLast`, `FailingAborts`).
* `DataInv`: part i, wherever it is, is chunk i of the file; the object is none, the
  file in one piece, or the chunks in order; a nil return has an object (`StoresFile`).

The lemmas `NumIsCeil`, `PartRange` and `FileIsFile` carry the arithmetic: the quotient rounded
up, and that the chunks cover the file. `Refinement` maps every step to a step of
`AtomicUpload` or to a stutter: a step that stores the object maps to `Store`, one that
returns or panics to `Succeed` or `Fail`.

`StepsBounded` says of `UploadFile`, and of `UploadStream` in its module, that they come to an end
as far as single steps go. `At` gives each goroutine a number, where it is in its program and how many
requests of the call it has sent; every step takes the caller or a goroutine forward and
nobody back (`Forward`), and the numbers end at `Last`, which only the retries and the length of the
file or the stream fix. So there is no loop among the goroutines, whatever is lost: what
is missing to `Returns` is only that those who can go on do, and where nobody can is the
subject of `StuckOnlyAtTheTokens` and `NeverStuck`.

`StoresFile` and `Refinement` have two assumptions that the code does not ensure, and each
is needed: `SameChunks`, a resumed upload uses the chunk size (and the file) of the
interrupted one, because listed parts are reused without a look at their size;
`NoRedirects`, since a redirected Complete counts as done. What the proof needs to know of a
call is that it fails until it ends, and that an answer was handled.

`UploadStreamProofs`. Five invariants, one on another:

* `Place`: at every place of the caller, what was read is what the full parts before `num` and
  the file being written have; exactly the goroutines before `num` have begun (`TypeCorrect`).
* `ChannelInv`: `tmpFileWriteChannel` has a token for the file being written and for each
  goroutine that has not released its own, only they have temporary files, and `uploadChannel`
  has one for each goroutine between its send and its release (`DiskBound`, `UploadBound`). The
  bounds alone are not inductive: a file is removed in one step, its token given back in another.
* `ExactTokens`: in the caller's loop `tmpFileWriteChannel` has no other tokens; only a return leaves
  one there. With a concurrency of at least 1 the channels and the wait group never hold everybody
  up (`NeverStuck`, again with the guards of the actions): the deadlock that TLC looks for in the
  runs, for every stream and concurrency.
* `PhaseInv`: what `upload`, `ok`, `err` and `num` are at each place, and that past the wait no goroutine
  sends.
* `DataInv`: part i, if it is recorded, is the full part i of the stream, the last one is what
  was in the file at the end, until the closing request there is no object, and Abort is sent with a
  goroutine at work only when a part has failed (`ClosesLast`, with `PhaseInv`). Every block
  that was read is in one of them (`PartsCover`), and a part that is not recorded when all
  goroutines are past their work is one of `FailedParts` (`LosesOnlyFailures`, and
  `StoresStream` for a stream that is read to its end without a failure).

The last two assume `DecodedAnswers` (no undecodable or redirected responses); the cases
above show why.

`SyncProofs`. `SyncInv` adds to `NoChangeIsEqual` that a `last_modified` is earlier than its
object and than any listing taken since (`TimesInv`), and that a file that was just
written in full is equal to its object if the object still has the listed time and the
file its size (`WrittenInv`): without them `SetTime` could make a file look like an object
it is not a copy of. `UpInv` and `DownInv` say of a run in progress which names are settled,
which are still in the walk or the page, and which come with the next page; the lemma
`NextPages` shows that nothing lies between a page and its marker. They give
`NoChangeMeansEqual`, `UpwardsSettles` and `DownwardsSettles`; `TypeInv` gives `TypeCorrect`. `RunsEnd`
measures a run as `ComesNearer` does below: the pages, the names that are left, and what has been
done for the next one.

`ListingProofs` and `RemoveProofs`. `PageIsComplete` says of `ListPage` what a walk relies on: whatever
is wanted and behind the marker is on the page or behind the next marker, and a page
without a delimiter is not empty while something is wanted. It needs `OrderAssumption`: the
marker behind a common prefix skips everything between its keys. `AskedMeans` says that the
prefix of the listing and the filters on the page let through what the argument names, no
more and no less; its heart is that "dir" without a slash names what starts with "dir/". The
invariant `IInv` is `Types`, `PlaceInv` (where the command is tells what its key is, and the page has only
what the walk is for) and `GoneInv`: of what the key names and nobody has put since,
nothing is left before the marker (while listing), or outside of the page and what is
behind its marker (while deleting), and nothing of the argument once rm has fallen back.
`NamedGone` is its last case and `OnlyNamed` follows from `PlaceInv` and `AskedMeans`
(`TypeCorrect`, `NamedIsGone`, `DeletesOnlyNamed`).

`ComesNearer` says of every step of rm and uploads rm that it is one of the finitely many
changes and responses that disturb it, or shortens the key (the fallback), or walks
further over the pages (`Walked`), or takes an upload off the page. Its heart is `PageAdvances`:
a page that is not the last one ends behind the marker it began at, because it is not empty.

`GetProofs` goes the same way: of the objects that are named and of whose files nothing is known
(`Missing`) none is before the marker while a page is asked for, and all are among what is left
of the page or behind it while it is copied (`GotInv`). `FilterMeans` says that the filter of the
loop is right about the prefix, but for the empty one (`TypeCorrect`, `NamedIsGot`, `OnlyNamedIsWritten`).
That objects have different keys is needed here, and is part of the invariant.
`OnlyTheFallbackRepeats` is the counterpart of `ComesNearer`: every step of get and cat brings the
command nearer to its end but one, the fallback of get with its unchanged key (`Repeats`).

`ProgramProofs` has the theorems of the process; in each of them the command may be any, and the
invariant speaks of one kind of them. `ExitInv` ties the status of a command to that of the process.

* `ConfigInv` (`FirstGoodFileCounts`): some n files have been tried in vain, missing or with a
  syntax error, the others are still to be tried, and of the one that is being read `ReadSoFar`
  holds: the parser's configuration and section are what the lines above mean, and `line` is
  empty or, inside a long line, its first piece. The second half is the point: behind a long comment
  `wasPrefix` is still set, and the next line is appended to a `line` that has to be empty for
  the result to be that line. What the lines above mean is defined without recursion
  (`MeaningTo`), so that one more line is one step of the invariant, and no induction over
  the file is needed (`OptionMeans`, `SectionMeans`, `OtherLineMeans`).
* `GetsAsGet` says that a process with get or cat implements the specification `Get`, stuttering where `main`
  acts. So `ZeroIsGot` and `OnlyNamedIsGot` are what `GetProofs` proves, taken by INSTANCE, with
  `ExitInv`.
* `CallInv` (`ZeroIsDone`): a call in progress has only seen failures, and each of the
  commands ends with what its last response brought; the repetition of `policy put` without its
  file is among those that fail.
* `PutInv` (`ZeroIsPut`): while the loop is at path n, every file of the paths before is in the
  bucket or shares its name, every stored object has a key that its file can have from one of the paths
  (`IsStored`), and with several paths the key ends with a slash or is empty. The last is why a
  later file overwrites an earlier one only if the two have the same name (`KeysApart`,
  `StoreKeeps`): `ZeroMeansPut` alone is not inductive, since it does not know which key a stored file has.
* `ListInv` (`AllIsListed`, `ListedOnlyOnce`): `Region` of a listing that is to be asked for is what it
  can have on its pages. The regions in `todo` are apart from each other, and from what is printed
  (`Apart`, in `OnceInv`), and what the argument names and has no line yet (`Missed`) is in one of them
  (`SoughtIn`, in `AllInv`). That is so while the key is the argument; a second attempt, with the key
  trimmed, begins when nothing is missed any more. `PageApart` and `PageFinds` are the step: a page divides the region
  it was asked for into its lines, the directories on it and what is behind its marker, which
  are apart (`Divides`, from `ListingProofs`; it needs `OrderAssumption`). After an error
  `todo` loses its innermost calls, which `Apart` survives, and `AllInv` has no case
  any more since ls has dropped the error (`hidden`); after an undecodable page `troubles` is not 0.
* `TypeCorrect` takes the types from these four, and adds the flags of ls (`ListFlags`).

Only model-checked is everything that must happen (`EveryPartTried`, `Returns`, `Ends`): liveness,
which the prover does not do. What is proved in its place is the two halves of it that are
safety: for calls, uploads, sync, rm, cat, and get but for its fallback, every step uses up
some of a finite measure; for the uploads, somebody can take one. For the other commands of
`Program` there is no such theorem. Every other property that a passing run checks is stated
by a theorem. `SomeoneCanAct` stands for ENABLED, which is beyond the prover; in the runs TLC's
search for deadlocks asks the same of the actions themselves. The redirects and undecodable
responses that some theorems about uploads exclude are in the runs that do without these
properties, and the cases under "What the violations say" tell what goes wrong with them.

## Not modelled

* Signing and URLs: pure functions of characters, without state or order; a reference to
  compare them with would be the service's code.
* The data model (records for XML and JSON) and the mock client (generated). What decides something
  there is in the modules that use it: `GetPart` in `UploadFile!Reuse`, `IsEmpty` in `List!Show`.
* Layout of listings, number formats (`HumanReadableBytes` and its like), help texts, logging.
* The flags -h and -version, the check of the name of a subcommand, the locks of the command
  registry (it is filled before `main` starts and read by one goroutine).
* The abort of one upload by its id; the options of the configuration as numbers (they are the
  constants of the other modules).
* HTTP timeouts: there are none, see the fairness above. A concurrency of 0 or less, with which
  the uploads can only stop, is excluded from the runs.
* Of `storage.go` the panics after a broken ListParts (line 834), an undecodable Initiate (933) and
  the end of the slice (960) are in the model (`panicked`), without a property: nothing says that
  they may not happen. So is the end of the process before temporary files are removed.
* Characters of keys beyond what the modules assume (two slashes in a row, `..`).

## Where to go on

`AtomicUpload` could take the place of the one-step uploads of `Put` and `Sync` by
INSTANCE. A change of `get.go:86` that passes the trimmed key turns `GetForever` into a passing run.
