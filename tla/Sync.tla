-------------------------------- MODULE Sync --------------------------------
(***************************************************************************)
(* The sync command (cmd/sync.go): files of one directory and the objects  *)
(* of the same names, copied by SyncLocalToDag ("up") or SyncDagToLocal    *)
(* ("down").  A run copies what its comparison of sizes and times does not *)
(* find unchanged; while it goes on, a user may edit the files and other   *)
(* clients may put objects, and it may be killed.  What matters is what    *)
(* the next runs then make of it.                                          *)
(*                                                                         *)
(* A time is the second at which something changed; no two changes fall in *)
(* one second, and nobody edits the file that sync is writing.  Content is *)
(* a sequence of blocks, each named by the time of the change it is from.  *)
(* A storage call of the client is one step with every result it can have. *)
(***************************************************************************)
EXTENDS Integers, Sequences, SequencesExt, FiniteSetsExt

CONSTANTS
  N,           \* files and objects are named 1 .. N, in the order of listings
  PageSize,    \* objects in one page (1000 in the code)
  MaxLen,      \* bound: blocks of a file
  MaxChanges,  \* bound: edits, puts and undecodable pages
  MaxRuns      \* bound: runs of the command

ASSUME SyncAssumption ==
  /\ N \in Nat
  /\ PageSize \in Nat \ {0}
  /\ MaxLen \in Nat
  /\ MaxChanges \in Nat
  /\ MaxRuns \in Nat

Names == 1 .. N

VARIABLES
  local,      \* the files: content and modification time (0: there is none)
  remote,     \* the objects: content, time, and last_modified (0: not set)
  clock,      \* the time of the last change
  pc,         \* where the command is
  toLocal, dryRun, err,  \* variables of the command; err: a non-nil error
  todo,       \* what is left of the directory or of the page
  listing,    \* the summaries of the page: size and time
  truncated,  \* listing.IsTruncated
  marker,     \* listing.NextMarker
  seen,       \* fstat.ModTime() of the file to be uploaded
  short,      \* the download that was just written has broken off
  dirty,      \* history: names that changed or failed since the run began
  broken,     \* history: files that a broken download left with their time
  changes, runs   \* how many there were

disk == <<local, remote, clock>>
command == <<toLocal, dryRun>>
page == <<listing, truncated, marker>>
locals == <<todo, page, seen, short>>   \* of a run
bounds == <<changes, runs>>
vars == <<disk, pc, command, err, locals, dirty, broken, bounds>>

NoFile == [data |-> <<>>, time |-> 0]
NoObject == [data |-> <<>>, time |-> 0, meta |-> 0]

NoListing == [n \in {} |-> 0]

Exists(f) == f.time # 0

Written(len, t) == [i \in 1 .. len |-> t]

(* The file is opened without O_TRUNC: what it has beyond the written part *)
(* stays.                                                                  *)
Overwrite(new, old) == new \o SubSeq(old, Len(new) + 1, Len(old))

(* The time of an object: last_modified of its metadata, if there is one.  *)
LastModified(time, meta) == IF meta # 0 THEN meta ELSE time

NoChange(f, size, lastModified) ==
  /\ Exists(f)
  /\ Len(f.data) = size
  /\ f.time = lastModified

Init ==
  /\ local = [n \in Names |-> NoFile]
  /\ remote = [n \in Names |-> NoObject]
  /\ clock = 0
  /\ pc = "idle"
  /\ toLocal = FALSE
  /\ dryRun = FALSE
  /\ err = FALSE
  /\ todo = {}
  /\ listing = NoListing
  /\ truncated = FALSE
  /\ marker = 0
  /\ seen = 0
  /\ short = FALSE
  /\ dirty = {}
  /\ broken = {}
  /\ changes = 0
  /\ runs = 0

IsNext(n) == n \in todo /\ \A m \in todo : n <= m

-----------------------------------------------------------------------------
(* The world around the command.                                           *)

Edit(n, len) ==
  /\ changes < MaxChanges
  /\ ~(pc = "written" /\ IsNext(n))
  /\ local' = [local EXCEPT ![n] = [data |-> Written(len, clock + 1), time |-> clock + 1]]
  /\ clock' = clock + 1
  /\ changes' = changes + 1
  /\ dirty' = dirty \cup {n}
  /\ broken' = broken \ {n}
  /\ UNCHANGED <<remote, pc, command, err, locals, runs>>

(* Another client, one that sets no last_modified.                         *)
Put(n, len) ==
  /\ changes < MaxChanges
  /\ remote' = [remote EXCEPT ![n] =
                  [data |-> Written(len, clock + 1), time |-> clock + 1, meta |-> 0]]
  /\ clock' = clock + 1
  /\ changes' = changes + 1
  /\ dirty' = dirty \cup {n}
  /\ UNCHANGED <<local, pc, command, err, locals, broken, runs>>

(* The command ends, with its error.                                       *)
Return(e) ==
  /\ pc' = "idle"
  /\ err' = e
  /\ todo' = {}
  /\ listing' = NoListing
  /\ truncated' = FALSE
  /\ marker' = 0
  /\ seen' = 0
  /\ short' = FALSE

(* The command is killed, with whatever it was doing undone or half done.  *)
Kill ==
  /\ pc # "idle"
  /\ Return(TRUE)
  /\ UNCHANGED <<disk, command, dirty, broken, bounds>>

-----------------------------------------------------------------------------
Start(down, dry) ==
  /\ pc = "idle"
  /\ runs < MaxRuns
  /\ runs' = runs + 1
  /\ toLocal' = down
  /\ dryRun' = dry
  /\ err' = FALSE
  /\ dirty' = {}
  /\ IF down
     THEN pc' = "list" /\ todo' = {}
     ELSE pc' = "walk" /\ todo' = {n \in Names : Exists(local[n])}
  /\ UNCHANGED <<disk, page, seen, short, broken, changes>>

(* What GetObjectMetadata may return for name n: the object, found or not, *)
(* an error, both when only the last allowed request succeeded, and        *)
(* neither for a redirect, as if there were no object.                     *)
GetObjectMetadata(n) ==
  {[found |-> f, err |-> e] : f \in {FALSE, Exists(remote[n])}, e \in BOOLEAN}

(***************************************************************************)
(* SyncLocalToDag: a file is looked at, and its object asked for.          *)
(***************************************************************************)
SameAsObject(n) ==
  NoChange(local[n], Len(remote[n].data), LastModified(remote[n].time, remote[n].meta))

CompareWithObject(n) ==
  /\ pc = "walk"
  /\ IsNext(n)
  /\ \E o \in GetObjectMetadata(n) :
       \/ /\ o.err
          /\ Return(TRUE)
       \/ /\ ~o.err
          /\ (o.found /\ SameAsObject(n)) \/ dryRun
          /\ todo' = todo \ {n}
          /\ UNCHANGED <<pc, err, page, seen, short>>
       \/ /\ ~o.err
          /\ ~(o.found /\ SameAsObject(n))
          /\ ~dryRun
          /\ seen' = local[n].time
          /\ pc' = "upload"
          /\ UNCHANGED <<err, todo, page, short>>
  /\ UNCHANGED <<disk, command, dirty, broken, bounds>>

(* Mutant: last_modified is not set.                                       *)
UploadedWithout(n) ==
  [data |-> local[n].data, time |-> clock + 1, meta |-> 0]

(* The object that the upload of file n makes.                             *)
Uploaded(n) ==
  [data |-> local[n].data, time |-> clock + 1, meta |-> seen]

(* UploadFile is atomic (AtomicUpload); its error is only printed.         *)
Upload(n) ==
  /\ pc = "upload"
  /\ IsNext(n)
  /\ \/ /\ remote' = [remote EXCEPT ![n] = Uploaded(n)]
        /\ clock' = clock + 1
        /\ UNCHANGED dirty
     \/ /\ dirty' = dirty \cup {n}
        /\ UNCHANGED <<remote, clock>>
  /\ todo' = todo \ {n}
  /\ seen' = 0
  /\ pc' = "walk"
  /\ UNCHANGED <<local, command, err, page, short, broken, bounds>>

EndWalk ==
  /\ pc = "walk"
  /\ todo = {}
  /\ Return(FALSE)
  /\ UNCHANGED <<disk, command, dirty, broken, bounds>>

-----------------------------------------------------------------------------
(***************************************************************************)
(* SyncDagToLocal: one page after the other.                               *)
(***************************************************************************)
Objects == {n \in Names : Exists(remote[n])}

(* Mutant: the page after the next object.                                 *)
BehindSkippingOne == {n \in Objects : n > marker + 1}

(* The objects behind the marker, and the first of them that fit a page.   *)
Behind == {n \in Objects : n > marker}
FirstOf(S, k) == {n \in S : Cardinality({m \in S : m < n}) < k}

PageNames == FirstOf(Behind, PageSize)
NextMarker == IF PageNames = {} THEN 0 ELSE Max(PageNames)

(* Mutant: the new listing is assigned to another variable.                *)
ShowOldListing(names, more, next) ==
  IF names = {}
  THEN Return(FALSE)
  ELSE /\ truncated' = more
       /\ marker' = next
       /\ todo' = names
       /\ pc' = "page"
       /\ UNCHANGED <<err, listing, seen, short>>

(* What the loop does with a listing: it ends at an empty one.             *)
Show(names, more, next) ==
  IF names = {}
  THEN Return(FALSE)
  ELSE /\ listing' = [n \in names |-> [size |-> Len(remote[n].data), time |-> remote[n].time]]
       /\ truncated' = more
       /\ marker' = next
       /\ todo' = names
       /\ pc' = "page"
       /\ UNCHANGED <<err, seen, short>>

(* ListObjects and NextListObjects: a page; an error; or a response that   *)
(* could not be decoded and holds the beginning of the page, which is no   *)
(* error for DoAndRetry and may have lost its flag and its marker.         *)
List ==
  /\ pc = "list"
  /\ \/ /\ Show(PageNames, PageNames # Behind, NextMarker)
        /\ UNCHANGED <<dirty, changes>>
     \/ /\ Return(TRUE)
        /\ UNCHANGED <<dirty, changes>>
     \/ /\ changes < MaxChanges
        /\ changes' = changes + 1
        /\ \E k \in 0 .. PageSize, more \in BOOLEAN, next \in {0, NextMarker} :
             Show(FirstOf(Behind, k), more, next)
        /\ dirty' = Names
  /\ UNCHANGED <<disk, command, broken, runs>>

SameAsSummary(n, found) ==
  /\ found
  /\ NoChange(local[n], listing[n].size, LastModified(listing[n].time, remote[n].meta))

(***************************************************************************)
(* WriteFile, up to its GET: nothing in a dry run; a directory that cannot *)
(* be made is only printed; an error of GetObjectMetadata does not count.  *)
(***************************************************************************)
CompareWithFile(n) ==
  /\ pc = "page"
  /\ IsNext(n)
  /\ \/ /\ dryRun
        /\ todo' = todo \ {n}
        /\ UNCHANGED <<pc, dirty>>
     \/ /\ ~dryRun
        /\ todo' = todo \ {n}
        /\ dirty' = dirty \cup {n}
        /\ UNCHANGED pc
     \/ /\ ~dryRun
        /\ \E o \in GetObjectMetadata(n) :
             IF SameAsSummary(n, o.found)
             THEN todo' = todo \ {n} /\ UNCHANGED pc
             ELSE pc' = "get" /\ UNCHANGED todo
        /\ UNCHANGED dirty
  /\ UNCHANGED <<disk, command, err, page, seen, short, broken, bounds>>

(* Mutant: the time is set before the content is written.                  *)
ReceivedWithTime(n, k) ==
  [data |-> Overwrite(SubSeq(remote[n].data, 1, k), local[n].data),
   time |-> listing[n].time]

(* File n when k blocks of its object have been written to it.             *)
Received(n, k) ==
  [data |-> Overwrite(SubSeq(remote[n].data, 1, k), local[n].data),
   time |-> IF k = 0 /\ Exists(local[n]) THEN local[n].time ELSE clock + 1]

(***************************************************************************)
(* GetObject and the copy of its body, which a broken connection or a full *)
(* disk may end early: that is printed, and the deferred function follows. *)
(***************************************************************************)
Get(n) ==
  /\ pc = "get"
  /\ IsNext(n)
  /\ \/ /\ pc' = "page"
        /\ todo' = todo \ {n}
        /\ dirty' = dirty \cup {n}
        /\ UNCHANGED <<local, clock, short, broken>>
     \/ \E k \in 0 .. Len(remote[n].data) :
          /\ local' = [local EXCEPT ![n] = Received(n, k)]
          /\ clock' = clock + 1
          /\ short' = (k < Len(remote[n].data))
          /\ dirty' = IF short' THEN dirty \cup {n} ELSE dirty
          /\ broken' = IF k > 0 THEN broken \ {n} ELSE broken
          /\ pc' = "written"
          /\ UNCHANGED todo
  /\ UNCHANGED <<remote, command, err, page, seen, bounds>>

(* The deferred os.Chtimes.                                                *)
SetTime(n) ==
  /\ pc = "written"
  /\ IsNext(n)
  /\ local' = [local EXCEPT ![n].time = listing[n].time]
  /\ broken' = IF short THEN broken \cup {n} ELSE broken
  /\ todo' = todo \ {n}
  /\ short' = FALSE
  /\ pc' = "page"
  /\ UNCHANGED <<remote, clock, command, err, page, seen, dirty, bounds>>

EndPage ==
  /\ pc = "page"
  /\ todo = {}
  /\ IF truncated
     THEN pc' = "list" /\ UNCHANGED <<err, locals>>
     ELSE Return(FALSE)
  /\ UNCHANGED <<disk, command, dirty, broken, bounds>>

-----------------------------------------------------------------------------
Next ==
  \/ \E n \in Names, len \in 0 .. MaxLen : Edit(n, len) \/ Put(n, len)
  \/ \E down, dry \in BOOLEAN : Start(down, dry)
  \/ \E n \in Names :
       \/ CompareWithObject(n)
       \/ Upload(n)
       \/ CompareWithFile(n)
       \/ Get(n)
       \/ SetTime(n)
  \/ EndWalk
  \/ List
  \/ EndPage
  \/ Kill

Spec == Init /\ [][Next]_vars

-----------------------------------------------------------------------------
(* The types of the variables; times are never ahead of the clock.         *)
Times == 0 .. clock
Contents == Seq(Nat)

TypeOK ==
  /\ clock \in Nat
  /\ local \in [Names -> [data : Contents, time : Times]]
  /\ remote \in [Names -> [data : Contents, time : Times, meta : Times]]
  /\ pc \in {"idle", "walk", "upload", "list", "page", "get", "written"}
  /\ toLocal \in BOOLEAN /\ dryRun \in BOOLEAN /\ err \in BOOLEAN
  /\ todo \subseteq Names
  /\ DOMAIN listing \subseteq Names
  /\ \A n \in DOMAIN listing : listing[n] \in [size : Nat, time : Times]
  /\ pc \in {"page", "get", "written"} => todo \subseteq DOMAIN listing
  /\ pc \in {"upload", "get", "written"} => todo # {}
  /\ truncated \in BOOLEAN
  /\ marker \in 0 .. N
  /\ seen \in Times
  /\ short \in BOOLEAN
  /\ dirty \subseteq Names /\ broken \subseteq Names
  /\ changes \in 0 .. MaxChanges
  /\ runs \in 0 .. MaxRuns

(***************************************************************************)
(* What both directions call "no change" is equal: whatever was edited,    *)
(* put, uploaded, downloaded, killed and repeated before, a file with the  *)
(* size and the time of its object has the content of the object.  The     *)
(* exception are files whose download broke off: they get the object's     *)
(* time all the same, and with its size they are taken for it from then on *)
(* (cmd/sync.go, the deferred function of WriteFile).                      *)
(***************************************************************************)
NoChangeIsEqual ==
  \A n \in Names \ broken : SameAsObject(n) => local[n].data = remote[n].data

Ended(down) == pc = "idle" /\ runs > 0 /\ toLocal = down /\ ~dryRun /\ ~err

(***************************************************************************)
(* A run of SyncLocalToDag that returns nil leaves every file that was not *)
(* changed, and whose upload did not fail, with an object that the next    *)
(* run finds unchanged, so that the second of two runs transfers nothing.  *)
(***************************************************************************)
UpSettles ==
  Ended(FALSE) =>
    \A n \in Names \ dirty : Exists(local[n]) => SameAsObject(n)

(* An object that is in its file, as the next run will find, but for two   *)
(* cases: it has a last_modified, which the comparison looks at and which  *)
(* the file does not get, or the file was longer and keeps its end.        *)
Settled(n) ==
  \/ SameAsObject(n)
  \/ /\ IsPrefix(remote[n].data, local[n].data)
     /\ \/ remote[n].meta # 0
        \/ Len(local[n].data) > Len(remote[n].data)

(***************************************************************************)
(* A run of SyncDagToLocal that returns nil leaves every object that was   *)
(* not changed, and whose download did not fail, in a file, whatever the   *)
(* pages, the edits and the puts in between.                               *)
(***************************************************************************)
DownSettles == Ended(TRUE) => \A n \in Objects \ dirty : Settled(n)
=============================================================================
