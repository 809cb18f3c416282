-------------------------------- MODULE Put --------------------------------
(***************************************************************************)
(* put (cmd/put.go) makes a bucket, or uploads the standard input, files   *)
(* or, with -r, the files of directories.  Uploads are one step here, see  *)
(* UploadFile and UploadStream for what is inside; the local files change  *)
(* meanwhile.  Names are the paths of the local files, in the order of     *)
(* filepath.Walk; a path has no "." and "..", and no two slashes in a row  *)
(* but at its end.                                                         *)
(***************************************************************************)
EXTENDS Listing

CONSTANTS
  Roots,       \* the arguments before the last one: lists of local paths
  Keys         \* the key of the last argument, <<>> without one

VARIABLES
  recursive,   \* -r
  stdin,       \* the standard input is a terminal, or "empty" or "data"
  given,       \* the arguments: their local paths
  roots,       \* those that the loop has not done
  key,         \* the variable of Run
  walk,        \* files of the path at hand that are still to be uploaded
  stored,      \* what is in the bucket: the file (0: the input) at each key
  pc, status, hidden

running == <<roots, key, walk, pc>>
vars == <<recursive, stdin, given, running, stored, status, hidden>>

IsIn(i, dir) == HasPrefix(Names[i], Append(TrimRight(dir, "/"), "/"))
FilesOf(root) == {i \in Ids : Names[i] = root \/ IsIn(i, root)}

Init ==
  /\ recursive \in BOOLEAN
  /\ stdin \in {"terminal", "empty", "data"}
  /\ given \in Roots /\ roots = given
  /\ key \in Keys
  /\ walk = {}
  /\ stored = {}
  /\ pc = "start"
  /\ status = "running"
  /\ hidden = FALSE

(* Mutant: several files go to the key as it is.                           *)
KeyAsItIs == key

Ends(s) ==
  /\ pc' = "done" /\ status' = s
  /\ UNCHANGED <<roots, key, walk, hidden>>

Store(k, i) == stored' = {e \in stored : e.key # k} \cup {[key |-> k, id |-> i]}

(***************************************************************************)
(* Run up to the loop: a key must not start with a slash; data on the      *)
(* standard input is what is uploaded, whatever files are given; a bucket  *)
(* alone is made; several files need a directory.                          *)
(***************************************************************************)
Directory ==
  IF Len(roots) > 1 /\ key # <<>> /\ ~EndsWith(key, "/") THEN Append(key, "/") ELSE key

Begin ==
  /\ pc = "start"
  /\ \/ StartsWith(key, "/") /\ Ends("error") /\ UNCHANGED stored
     \/ /\ ~StartsWith(key, "/") /\ stdin = "data"
        /\ \/ Ends("error") /\ UNCHANGED stored
           \/ key # <<>> /\ Ends("ok") /\ Store(key, 0)
     \/ /\ ~StartsWith(key, "/") /\ stdin # "data" /\ roots = <<>> /\ key = <<>>
        /\ Ends("error") \/ Ends("ok")
        /\ UNCHANGED stored
     \/ /\ ~StartsWith(key, "/") /\ stdin # "data" /\ ~(roots = <<>> /\ key = <<>>)
        /\ key' = Directory
        /\ pc' = "next"
        /\ UNCHANGED <<roots, walk, stored, status, hidden>>
  /\ UNCHANGED <<recursive, stdin, given>>

(* putFileOrDirectory for the next path.  Without one, err is still that   *)
(* of Peek: io.EOF if the standard input is empty.                         *)
NextRoot ==
  /\ pc = "next"
  /\ \/ roots = <<>> /\ Ends(IF given = <<>> /\ stdin = "empty" THEN "error" ELSE "ok")
     \/ roots # <<>> /\ Ends("error")
     \/ /\ roots # <<>>
        /\ roots[1] # <<>>
        /\ walk' = FilesOf(roots[1])
        /\ walk' # {}
        /\ roots[1] \in {Names[i] : i \in walk'} \/ recursive
        /\ pc' = "walk"
        /\ UNCHANGED <<roots, key, status, hidden>>
  /\ UNCHANGED <<recursive, stdin, given, stored>>

(* The key of a file: with a key that ends with a slash, or none, it has   *)
(* the name of the file or of the directory in it.                         *)
KeyOf(root, i) ==
  LET clean == TrimRight(root, "/")
      rest == TrimLeft(SubSeq(Names[i], Len(clean) + 1, Len(Names[i])), "/")
      named == key = <<>> \/ EndsWith(key, "/")
  IN CASE Names[i] = root -> key \o (IF named THEN Base(root) ELSE <<>>)
       [] Names[i] # root -> key \o (IF named THEN Base(root) ELSE <<>>) \o <<"/">> \o rest

Target(i) == KeyOf(roots[1], i)

(***************************************************************************)
(* UploadFile or ResumeUploadFile of the next file.  The callback of Walk  *)
(* panics where Lstat failed, for a file that is gone, and it returns nil  *)
(* for a directory that cannot be read, whose files are left out.          *)
(***************************************************************************)
PutFile(i) ==
  /\ pc = "walk"
  /\ i \in FirstOf(walk, 1)
  /\ \/ Ends("error") /\ UNCHANGED stored
     \/ Ends("error") /\ Store(Target(i), i)
     \/ Names[i] # roots[1] /\ Ends("panic") /\ UNCHANGED stored
     \/ /\ walk' = walk \ {i}
        /\ Store(Target(i), i)
        /\ UNCHANGED <<roots, key, pc, status, hidden>>
     \/ \E n \in DOMAIN Names[i] :
          LET dir == SubSeq(Names[i], 1, n - 1)
          IN /\ Names[i][n] = "/" /\ HasPrefix(dir, TrimRight(roots[1], "/"))
             /\ \A j \in Ids : IsIn(j, dir) => i <= j
             /\ walk' = {j \in walk : ~IsIn(j, dir)}
             /\ hidden' = TRUE
             /\ UNCHANGED <<roots, key, pc, status, stored>>
  /\ UNCHANGED <<recursive, stdin, given>>

EndRoot ==
  /\ pc = "walk" /\ walk = {}
  /\ roots' = Tail(roots)
  /\ pc' = "next"
  /\ UNCHANGED <<recursive, stdin, given, key, walk, stored, status, hidden>>

Step == Begin \/ NextRoot \/ EndRoot \/ \E i \in Ids : PutFile(i)

Done == status # "running" /\ UNCHANGED vars

Next == Step \/ Done

Spec == Init /\ [][Next]_vars
FairSpec == Spec /\ WF_vars(Step)

-----------------------------------------------------------------------------
TypeOK ==
  /\ walk \subseteq Ids
  /\ pc \in {"start", "next", "walk", "done"}
  /\ status \in {"running", "ok", "error", "panic"}
  /\ (pc = "done") = (status # "running")
  /\ \A e, f \in stored : e.key = f.key => e = f

(***************************************************************************)
(* When put succeeds, every file that is given, or that is in a directory  *)
(* that is given, is in the bucket, unless another one has the same name   *)
(* and may have its key.  Not so with data on the standard input, and      *)
(* where a directory cannot be read (hidden).                              *)
(***************************************************************************)
Given == UNION {FilesOf(given[n]) : n \in DOMAIN given}

PutsAll ==
  status = "ok" /\ ~hidden /\ stdin # "data" =>
    \A i \in Given : \/ \E e \in stored : e.id = i
                     \/ \E j \in Given \ {i} : Base(Names[j]) = Base(Names[i])
=============================================================================
