------------------------------- MODULE Remove -------------------------------
(***************************************************************************)
(* The commands that delete what they list, for one argument.              *)
(*   rm (cmd/rm.go)                  a bucket, an object, a directory with *)
(*                                   -r, or a prefix that ends in "*"      *)
(*   uploads rm (cmd/uploads_rm.go)  the uploads in progress of a key, or, *)
(*                                   with -r, of every key that starts so  *)
(* They list a page and delete what is on it before they ask for the next  *)
(* one, while other clients put objects or start uploads.                  *)
(***************************************************************************)
EXTENDS Command

VARIABLES
  uploads,     \* the command is uploads rm, otherwise it is rm
  bucket,      \* the bucket exists
  num,         \* the objects that removeObject counts as deleted
  refused      \* history: keys whose deletion the service refused

world == <<bucket, uploads, command, others>>
vars == <<objects, world, exec, num, refused, troubles>>

(* exec(bucket, k), up to its first call.                                  *)
FirstCall(k, r) ==
  IF k = <<>> THEN IF r THEN "list" ELSE "dropBucket"
  ELSE IF r \/ IsWildcard(k) THEN "list" ELSE "deleteOne"

(* Objects have different keys, uploads need not.                          *)
Possible(S) == uploads \/ Distinct(S)

Init ==
  /\ uploads \in BOOLEAN
  /\ objects \in {S \in SUBSET Ids : Possible(S)}
  /\ bucket = TRUE
  /\ InitCommand
  /\ pc = IF uploads THEN "listUploads" ELSE FirstCall(arg, recursive)
  /\ num = 0
  /\ refused = {}

(* Mutants: the fallback is taken without a slash; a page without keys     *)
(* ends the loop that has a delimiter, too; "test2" is taken to be in the  *)
(* directory "test".                                                       *)
FallsBackWithoutSlash(n) == n = 0
EndsAtNoKeys(l) == l.nil \/ l.keys = {}
DirectoryWithoutSlash == TrimRight(key, "*")

(***************************************************************************)
(* removeObject or removeBucket returns: with nothing deleted, a key that  *)
(* starts with a slash is tried again without, whatever the error was.     *)
(***************************************************************************)
FallsBack(n) == n = 0 /\ StartsWith(key, "/")

Leave(n, err) ==
  IF FallsBack(n)
  THEN /\ key' = TrimLeft(key, "/")
       /\ pc' = FirstCall(key', recursive)
       /\ num' = 0
       /\ hidden' = (hidden \/ err)
       /\ listing' = NoListing
       /\ UNCHANGED status
  ELSE End(err) /\ num' = n

(* There is no next page.                                                  *)
EndWalk(n) ==
  IF key = <<>>
  THEN /\ pc' = "dropBucket"
       /\ listing' = NoListing
       /\ UNCHANGED <<key, num, status, hidden>>
  ELSE Leave(n, FALSE)

-----------------------------------------------------------------------------
(* rm *)

Page ==
  IF uploads
  THEN ListPage(objects, key, FALSE, listing.next, PageSize)
  ELSE ListPage(objects, TrimRight(key, "*"), ~recursive, listing.next, PageSize)

(* The loops with -r end at an empty page, the other one does not.         *)
EndsAt(l) == l.nil \/ (recursive /\ l.keys = {})

Show(l) ==
  IF EndsAt(l)
  THEN EndWalk(num)
  ELSE /\ listing' = l
       /\ pc' = "delete"
       /\ UNCHANGED <<key, num, status, hidden>>

(* ListObjects and NextListObjects.                                        *)
List ==
  /\ pc = "list"
  /\ \/ Leave(num, TRUE) /\ UNCHANGED troubles
     \/ Show(Page) /\ UNCHANGED troubles
     \/ Trouble /\ \E l \in Undecoded(Page) : Show(l)
  /\ UNCHANGED <<objects, world, refused>>

(* The keys of a page that are to be deleted: removeBucket and the loop    *)
(* without -r take them all.                                               *)
Directory == IF IsWildcard(key) \/ EndsWith(key, "/") THEN TrimRight(key, "*")
             ELSE Append(key, "/")
ToDelete ==
  IF recursive /\ key # <<>>
  THEN {i \in listing.keys : Names[i] = key \/ HasPrefix(Names[i], Directory)}
  ELSE listing.keys

(***************************************************************************)
(* DeleteMultipleObjects: the result lists what was deleted and the errors *)
(* of single objects, which are only logged.  An undecodable one may list  *)
(* less, or be nil, as for a redirect.                                     *)
(***************************************************************************)
Delete ==
  /\ pc = "delete"
  /\ \E done \in SUBSET ToDelete :
       /\ objects' = objects \ done
       /\ \/ Leave(num, TRUE) /\ UNCHANGED <<refused, troubles>>
          \/ Panic /\ Trouble /\ UNCHANGED <<num, refused>>
          \/ /\ refused' = refused \cup (ToDelete \ done)
             /\ \E listed \in 0 .. Cardinality(done) :
                  /\ IF listed = Cardinality(done) THEN UNCHANGED troubles ELSE Trouble
                  /\ IF listing.truncated
                     THEN /\ num' = num + listed
                          /\ pc' = "list"
                          /\ UNCHANGED <<key, listing, status, hidden>>
                     ELSE EndWalk(num + listed)
  /\ UNCHANGED world

(* DeleteObject: to delete what does not exist is no error, and neither is *)
(* a redirect.                                                             *)
DeleteOne ==
  /\ pc = "deleteOne"
  /\ LET rest == {i \in objects : Names[i] # key}
     IN \/ Leave(1, FALSE) /\ objects' = rest /\ UNCHANGED troubles
        \/ Leave(0, TRUE) /\ objects' \in {objects, rest} /\ UNCHANGED troubles
        \/ Leave(1, FALSE) /\ Trouble /\ UNCHANGED objects
  /\ UNCHANGED <<world, refused>>

(* DeleteBucket: the service refuses to delete a bucket that is not empty. *)
DropBucket ==
  /\ pc = "dropBucket"
  /\ \/ End(TRUE) /\ bucket' \in {bucket, objects # {}} /\ UNCHANGED troubles
     \/ End(FALSE) /\ objects = {} /\ bucket' = FALSE /\ UNCHANGED troubles
     \/ End(FALSE) /\ Trouble /\ UNCHANGED bucket
  /\ UNCHANGED <<objects, num, refused, uploads, command, others>>

-----------------------------------------------------------------------------
(* uploads rm: only errors of its first listing reach the status, those of *)
(* removeUploads are dropped.                                              *)

FirstListing == ~listing.truncated

(* ListMultipartUploads, which dereferences its result, and                *)
(* NextListMultipartUploads.                                               *)
ShowUploads(l) ==
  IF l.nil THEN Panic
  ELSE IF FirstListing /\ l.keys = {} THEN End(TRUE)
  ELSE listing' = l /\ pc' = "abort" /\ UNCHANGED <<key, status, hidden>>

ListUploads ==
  /\ pc = "listUploads"
  /\ \/ (IF FirstListing THEN End(TRUE) ELSE EndHiding) /\ UNCHANGED troubles
     \/ ShowUploads(Page) /\ UNCHANGED troubles
     \/ Trouble /\ \E l \in Undecoded(Page) : ShowUploads(l)
  /\ UNCHANGED <<objects, world, num, refused>>

(* removeUploads: the uploads of the page one by one, those of other keys  *)
(* than the prefix only with -r.  An upload that is gone is an error.      *)
ToAbort(i) == recursive \/ Names[i] = key

Abort(i) ==
  /\ pc = "abort"
  /\ i \in FirstOf(listing.keys, 1)
  /\ LET Continue == /\ listing' = [listing EXCEPT !.keys = @ \ {i}]
                     /\ UNCHANGED <<key, pc, status, hidden>>
     IN \/ ~ToAbort(i) /\ Continue /\ UNCHANGED <<objects, troubles>>
        \/ /\ ToAbort(i)
           /\ \/ EndHiding /\ objects' \in {objects, objects \ {i}} /\ UNCHANGED troubles
              \/ Continue /\ i \in objects /\ objects' = objects \ {i} /\ UNCHANGED troubles
              \/ Continue /\ Trouble /\ UNCHANGED objects
  /\ UNCHANGED <<world, num, refused>>

EndUploadsPage ==
  /\ pc = "abort"
  /\ listing.keys = {}
  /\ IF listing.truncated
     THEN pc' = "listUploads" /\ UNCHANGED <<key, listing, status, hidden>>
     ELSE End(FALSE)
  /\ UNCHANGED <<objects, world, num, refused, troubles>>

-----------------------------------------------------------------------------
Step ==
  \/ List \/ Delete \/ DeleteOne \/ DropBucket
  \/ ListUploads \/ EndUploadsPage \/ \E i \in Ids : Abort(i)

Other ==
  /\ bucket
  /\ \E i \in Ids : Put(i) \/ TakeAway(i)
  /\ Possible(objects')
  /\ UNCHANGED <<bucket, uploads, command, exec, num, refused, troubles>>

Done == status # "running" /\ UNCHANGED vars

Next == Step \/ Other \/ Done

Spec == Init /\ [][Next]_vars
FairSpec == Spec /\ WF_vars(Step)

-----------------------------------------------------------------------------
TypeOK ==
  /\ CommandTypeOK
  /\ uploads \in BOOLEAN /\ bucket \in BOOLEAN
  /\ pc \in {"list", "delete", "deleteOne", "dropBucket", "listUploads", "abort", "done"}
  /\ num \in Nat
  /\ refused \subseteq Ids

(* What the argument names: an object, a wildcard or, with -r, what is      *)
(* below; uploads rm takes a key, or with -r what starts with it.          *)
Asked(i, k) ==
  LET n == Names[i]
  IN \/ n = k /\ (uploads \/ ~IsWildcard(k))
     \/ uploads /\ recursive /\ HasPrefix(n, k)
     \/ ~uploads /\ IsWildcard(k) /\ Matches(n, k)
     \/ ~uploads /\ ~IsWildcard(k) /\ recursive /\ Below(n, k)

(***************************************************************************)
(* Nothing is deleted but what the argument names, or, once rm has fallen  *)
(* back, the argument without the leading slashes: whatever pages, filters *)
(* and failures there are, "test2/bbb" survives "rm -r b:test", uploads of *)
(* other keys survive without -r, and the bucket survives unless it is     *)
(* what is left of the argument.                                           *)
(***************************************************************************)
OnlyNamed ==
  [][Step => /\ \A i \in objects \ objects' : Asked(i, arg) \/ (key # arg /\ Asked(i, key))
             /\ bucket' # bucket => key = <<>>]_vars

(***************************************************************************)
(* When the command succeeds, everything is gone that its argument named   *)
(* all along, though pages are listed by marker while what is on them is   *)
(* deleted and others appear; and so is a bucket.  The exceptions are in   *)
(* the code: errors of single objects are only logged, the slash fallback  *)
(* and removeUploads drop errors (hidden), and an undecodable or           *)
(* redirected response counts as a success.                                *)
(***************************************************************************)
NamedGone ==
  status = "ok" /\ ~hidden /\ troubles = 0 =>
    /\ \A i \in objects \cap old : Asked(i, arg) \/ Asked(i, key) => i \in refused
    /\ bucket /\ ~uploads => key # <<>>

(* The command comes to an end: its walk over pages, also over those where *)
(* everything was refused or nothing is asked for, and the fallbacks.      *)
Ends == <>(status # "running")
=============================================================================
