-------------------------------- MODULE Get --------------------------------
(***************************************************************************)
(* get (cmd/get.go) writes an object to a file or, with -r, everything     *)
(* under a prefix into a directory; cat (cmd/cat.go) writes an object to   *)
(* the standard output.  Objects come and go meanwhile, what is written    *)
(* may break off, and the directory may hold files from before.            *)
(*                                                                         *)
(* A file has the place of its object below the target directory; keys     *)
(* have no two slashes in a row.                                           *)
(***************************************************************************)
EXTENDS Command

VARIABLES
  cat,         \* the command is cat, otherwise it is get
  left,        \* the objects of the page that the loop has not reached
  failed,      \* err # nil in getObjectRecursively
  files,       \* what the file of each object holds
  made,        \* objects whose file has its directory
  said         \* history: objects of which an error was printed

disk == <<files, made, said>>
vars == <<objects, command, exec, others, troubles, cat, left, failed, disk>>

(* Contents: "old" is longer than the object, and is never truncated.      *)
Contents == {"none", "old", "part", "whole", "mixed"}
Over(content, new) == IF content \in {"old", "mixed"} THEN "mixed" ELSE new

(* The file of an object in the target directory, which is <<>>.           *)
Name(i) == SubSeq(Names[i], Len(key) + 1, Len(Names[i]))
Path(i) == TrimLeft(TrimRight(Name(i), "/"), "/")
Inside(p, q) == p # q /\ HasPrefix(p, q) /\ (q = <<>> \/ p[Len(q) + 1] = "/")

Kept == {i \in Ids : HasPrefix(Names[i], key)}
IsDir(p) == \E i \in made : Inside(Path(i), p)
FileAbove(p) == \E i \in Kept : files[i] # "none" /\ Inside(p, Path(i))

Init ==
  /\ objects \in {S \in SUBSET Ids : Distinct(S)}
  /\ InitCommand
  /\ cat \in BOOLEAN
  /\ cat => ~recursive /\ arg # <<>>
  /\ pc = "exec"
  /\ left = {}
  /\ failed = FALSE
  /\ made \in {{}} \cup {{i} : i \in {j \in Kept : recursive}}
  /\ \E before \in SUBSET made :
       files = [i \in Ids |-> IF i \in before THEN "old" ELSE "none"]
  /\ said = {}

(* Mutants: a page is taken for the last one; the filter lets "a-" pass   *)
(* for the directory "a".                                                  *)
NextPageWithoutMore(l) == FALSE
FilterWithoutSlash(i) == HasPrefix(Names[i], key)

(* The err of the command: a key that starts with a slash is tried again,  *)
(* by get as it is and by cat without.                                     *)
Again == IF cat THEN TrimLeft(key, "/") ELSE key

Fail ==
  IF StartsWith(key, "/")
  THEN /\ key' = Again
       /\ pc' = "exec"
       /\ listing' = NoListing
       /\ UNCHANGED <<status, hidden>>
  ELSE End(TRUE)

Exec ==
  /\ pc = "exec"
  /\ IF recursive THEN pc' = "list" /\ UNCHANGED <<key, listing, status, hidden>>
     ELSE IF key = <<>> /\ ~cat THEN End(TRUE)
     ELSE pc' = "get" /\ UNCHANGED <<key, listing, status, hidden>>
  /\ UNCHANGED <<objects, command, others, troubles, cat, left, failed, disk>>

(***************************************************************************)
(* getObject, and exec of cat, which drops the errors of the copy and      *)
(* gets a listing where the key is empty.                                  *)
(***************************************************************************)
GetObject ==
  /\ pc = "get"
  /\ \/ Fail /\ UNCHANGED files
     \/ key = <<>> /\ End(FALSE) /\ UNCHANGED files
     \/ \E i \in objects :
          /\ Names[i] = key
          /\ \/ (IF cat THEN EndHiding ELSE Fail)
                /\ files' = [files EXCEPT ![i] = Over(@, "part")]
             \/ End(FALSE) /\ files' = [files EXCEPT ![i] = Over(@, "whole")]
  /\ UNCHANGED <<objects, command, others, troubles, cat, left, failed, made, said>>

-----------------------------------------------------------------------------
(* getObjectRecursively *)

Return(err) == IF err THEN Fail ELSE End(FALSE)

Show(l) ==
  IF l.nil \/ l.keys = {}
  THEN End(FALSE) /\ UNCHANGED <<left, failed>>
  ELSE /\ listing' = l
       /\ left' = l.keys
       /\ failed' = FALSE
       /\ pc' = "copy"
       /\ UNCHANGED <<key, status, hidden>>

(* Stat of the parent directory, ListObjects and NextListObjects.          *)
List ==
  /\ pc = "list"
  /\ LET page == ListPage(objects, key, FALSE, listing.next, PageSize)
     IN \/ Fail /\ UNCHANGED <<left, failed, troubles>>
        \/ Show(page) /\ UNCHANGED troubles
        \/ Trouble /\ \E l \in Undecoded(page) : Show(l)
  /\ UNCHANGED <<objects, command, others, cat, disk>>

(* With the empty prefix of a bucket nothing passes that has no slash.     *)
Passes(i) ==
  Names[i] = key \/ EndsWith(key, "/") \/ HasPrefix(Names[i], Append(key, "/"))

(* MkdirAll, which fails where a file is above; the error of the last one  *)
(* is what the function returns.                                           *)
MkdirFails(i) == failed' = TRUE /\ said' = said \cup {i} /\ UNCHANGED <<files, made, hidden>>

(* writeFile: errors are printed, but for that of the last Flush.          *)
WriteFile(i) ==
  \/ said' = said \cup {i} /\ UNCHANGED <<files, hidden>>
  \/ /\ i \in objects /\ ~IsDir(Path(i))
     /\ \/ /\ files' = [files EXCEPT ![i] = Over(@, "part")]
           /\ \/ said' = said \cup {i} /\ UNCHANGED hidden
              \/ hidden' = TRUE /\ UNCHANGED said
        \/ files' = [files EXCEPT ![i] = Over(@, "whole")] /\ UNCHANGED <<said, hidden>>

Copy(i) ==
  /\ pc = "copy"
  /\ i \in FirstOf(left, 1)
  /\ left' = left \ {i}
  /\ \/ ~Passes(i) /\ UNCHANGED <<failed, disk, hidden>>
     \/ Passes(i) /\ MkdirFails(i)
     \/ /\ Passes(i) /\ ~FileAbove(Path(i))
        /\ made' = made \cup {i}
        /\ failed' = FALSE
        /\ IF EndsWith(Name(i), "/") THEN UNCHANGED <<files, said, hidden>> ELSE WriteFile(i)
  /\ UNCHANGED <<objects, command, others, troubles, cat, key, pc, listing, status>>

NextPage(l) == l.truncated

EndPage ==
  /\ pc = "copy"
  /\ left = {}
  /\ IF NextPage(listing)
     THEN pc' = "list" /\ UNCHANGED <<key, listing, status, hidden>>
     ELSE Return(failed)
  /\ UNCHANGED <<objects, command, others, troubles, cat, left, failed, disk>>

-----------------------------------------------------------------------------
Step == Exec \/ GetObject \/ List \/ EndPage \/ \E i \in Ids : Copy(i)

Other ==
  /\ \E i \in Ids : Put(i) \/ TakeAway(i)
  /\ Distinct(objects')
  /\ UNCHANGED <<command, exec, troubles, cat, left, failed, disk>>

Done == status # "running" /\ UNCHANGED vars

Next == Step \/ Other \/ Done

Spec == Init /\ [][Next]_vars
FairSpec == Spec /\ WF_vars(Step)

-----------------------------------------------------------------------------
TypeOK ==
  /\ CommandTypeOK
  /\ cat \in BOOLEAN
  /\ pc \in {"exec", "get", "list", "copy", "done"}
  /\ left \subseteq Ids /\ made \subseteq Ids /\ said \subseteq Ids
  /\ failed \in BOOLEAN
  /\ files \in [Ids -> Contents]

(* The objects that the argument names.                                    *)
Asked(i) == Names[i] = key \/ (recursive /\ Below(Names[i], arg))

(***************************************************************************)
(* When get succeeds, every object that its argument named all along is    *)
(* whole in its file or an error was printed for it: over pages, filters,  *)
(* files in the way of directories and changes of other clients.  Not so   *)
(* with the empty key: get -r of a bucket passes only keys that start with *)
(* a slash.  A file longer than its object keeps its end ("mixed").        *)
(***************************************************************************)
GetsAll ==
  status = "ok" /\ ~hidden /\ troubles = 0 /\ key # <<>> =>
    \A i \in objects \cap old :
      Asked(i) /\ ~EndsWith(Name(i), "/") => i \in said \/ files[i] \in {"whole", "mixed"}

(* Nothing is written but what the argument names: "test2/x" is not got by *)
(* "get -r b:test", though the listing of the prefix "test" has it.        *)
WritesOnlyNamed == \A i \in Ids : files'[i] # files[i] => Asked(i)

(***************************************************************************)
(* README.rst, exit status: 1 for a response of 4xx or 5xx.  What the code *)
(* does: get of "/a" that fails calls itself with the same key, and again. *)
(***************************************************************************)
FailureEnds == <>(status # "running")
=============================================================================
