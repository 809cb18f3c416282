-------------------------------- MODULE List --------------------------------
(***************************************************************************)
(* The commands that say what is there.                                    *)
(*   ls (cmd/ls.go)                  as text, or as TSV or JSON ("table")  *)
(*   uploads ls (cmd/uploads_ls.go)  uploads in progress                   *)
(*   exist (cmd/exist.go)                                                  *)
(* A listing prints its page, then calls itself for the next page and,     *)
(* with -r, for every directory of the page: todo is what the calls that   *)
(* have not returned are still to ask for, the innermost first.            *)
(***************************************************************************)
EXTENDS Command

VARIABLES
  kind,        \* "text" or "table" of ls, "uploads" or "exist"
  more,        \* an argument is left; it names the bucket and no key
  lastKey,     \* the key that Run holds (prefix in ls.go)
  todo,        \* listings to ask for
  printed,     \* history: the lines on the standard output
  twice        \* history: a line was printed again

output == <<printed, twice>>
vars == <<objects, command, exec, others, troubles, kind, more, lastKey, todo, output>>

IsLs == kind \in {"text", "table"}

(* The line of an object or upload, and that of a directory.               *)
ObjectLine(i) == [key |-> Names[i], id |-> i]
DirLine(d) == [key |-> d, id |-> 0]

(* ls as text has no line for a directory that is named ".".               *)
IsDot(d) ==
  LET n == Len(d) - 1
  IN n > 0 /\ d[n] = "." /\ (n = 1 \/ d[n - 1] = "/")
HasLine(d) == kind # "text" \/ ~IsDot(d)

(* A listing is asked for from how many others inside one another.         *)
Task(prefix, delimiter, marker, size, depth) ==
  [prefix |-> prefix, delimiter |-> delimiter, marker |-> marker,
   size |-> size, depth |-> depth]

Init ==
  /\ kind \in {"text", "table", "uploads", "exist"}
  /\ objects \in {S \in SUBSET Ids : kind = "uploads" \/ Distinct(S)}
  /\ InitCommand
  /\ kind = "exist" => ~recursive
  /\ more \in BOOLEAN
  /\ lastKey = arg
  /\ pc = "exec"
  /\ todo = <<>>
  /\ printed = {}
  /\ twice = FALSE

(* Mutants: the next page begins where this one did; the fallback does not *)
(* trim.                                                                   *)
MarkerOfThisPage(t, l) == t.marker
KeepsKey == key

-----------------------------------------------------------------------------
(* The loop over the arguments: bucket and key are declared outside of it, *)
(* and a key outlives its argument, as it was given: exec trims a copy.    *)
NextArgument ==
  /\ pc = "next"
  /\ IF more
     THEN /\ more' = FALSE
          /\ arg' = <<>>
          /\ key' = lastKey
          /\ pc' = "exec"
          /\ printed' = {} /\ twice' = FALSE
          /\ UNCHANGED <<listing, status, hidden>>
     ELSE End(FALSE) /\ UNCHANGED <<more, arg, output>>
  /\ UNCHANGED <<objects, recursive, others, troubles, kind, lastKey, todo>>

(* The directory, or what the wildcard is without its asterisk.            *)
Start ==
  IF IsWildcard(key) THEN SubSeq(key, 1, Len(key) - 1)
  ELSE IF key = <<>> \/ EndsWith(key, "/") THEN key
  ELSE Append(key, "/")

AskFor(ts) == pc' = "list" /\ todo' = ts
AskForDirectory == AskFor(<<Task(Start, TRUE, 0, PageSize, 0)>>)

Going == UNCHANGED <<key, listing, status, hidden>>

(* exec, up to its first call.                                             *)
Exec ==
  /\ pc = "exec"
  /\ \/ kind = "uploads" /\ AskFor(<<Task(key, TRUE, 0, PageSize, 0)>>)
     \/ IsLs /\ (key = <<>> \/ EndsWith(key, "/")) /\ AskForDirectory
     \/ IsLs /\ key # <<>> /\ ~EndsWith(key, "/") /\ pc' = "exists" /\ UNCHANGED todo
     \/ kind = "exist" /\ pc' = "exists" /\ UNCHANGED todo
  /\ Going
  /\ UNCHANGED <<objects, command, others, troubles, kind, more, lastKey, output>>

(* exec calls itself without the slashes.                                  *)
Trimmed == TrimLeft(key, "/")
Again ==
  /\ key' = Trimmed
  /\ pc' = "exec"
  /\ todo' = <<>>
  /\ UNCHANGED <<listing, status>>

(***************************************************************************)
(* DoesObjectExist or, without a key, DoesBucketExist; a redirect says no. *)
(* ls then lists every key that starts like the object, one on a page.     *)
(***************************************************************************)
Yes ==
  IF IsLs THEN AskFor(<<Task(key, FALSE, 0, 1, 0)>>) /\ Going
  ELSE pc' = "next" /\ Going /\ UNCHANGED todo

No ==
  \/ IsLs /\ AskForDirectory /\ Going
  \/ ~IsLs /\ StartsWith(key, "/") /\ Again /\ UNCHANGED hidden
  \/ ~IsLs /\ ~StartsWith(key, "/") /\ End(TRUE) /\ UNCHANGED todo

Exists ==
  /\ pc = "exists"
  /\ LET yes == key = <<>> \/ \E i \in objects : Names[i] = key
     IN \/ End(TRUE) /\ UNCHANGED <<todo, troubles>>
        \/ yes /\ Yes /\ UNCHANGED troubles
        \/ ~yes /\ No /\ UNCHANGED troubles
        \/ Trouble /\ No
  /\ UNCHANGED <<objects, command, others, kind, more, lastKey, output>>

-----------------------------------------------------------------------------
(* Nothing is left to ask for.  num is the number of the lines; but for    *)
(* TSV and JSON neither that nor an error is returned, it is 0, and ls     *)
(* tries again.                                                            *)
Returned(lines, dropped) ==
  IF IsLs /\ (kind = "table" \/ lines = {}) /\ StartsWith(key, "/")
  THEN Again /\ hidden' = (hidden \/ dropped)
  ELSE /\ pc' = "next"
       /\ todo' = <<>>
       /\ hidden' = (hidden \/ dropped)
       /\ UNCHANGED <<key, listing, status>>

Continue(ts, lines) ==
  IF ts = <<>> THEN Returned(lines, FALSE) ELSE AskFor(ts) /\ Going

(* What a page leads to: the next page, then its directories.              *)
NextMarker(t, l) == l.next

NextPages(t, l) ==
  IF l.truncated
  THEN <<Task(t.prefix, t.delimiter, NextMarker(t, l), t.size, t.depth + 1)>> ELSE <<>>

Directories(t, l) ==
  LET dirs == SetToSeq(l.dirs)
  IN IF recursive
     THEN [n \in DOMAIN dirs |-> Task(dirs[n], TRUE, 0, t.size, t.depth + 1)] ELSE <<>>

(* Mutant: the directories of a page are forgotten if it has a next one.   *)
NestedInLastPages(t, l) == IF l.truncated THEN NextPages(t, l) ELSE Directories(t, l)

Nested(t, l) == NextPages(t, l) \o Directories(t, l)

Show(t, l) ==
  LET lines == {ObjectLine(i) : i \in l.keys}
                 \cup {DirLine(d) : d \in {e \in l.dirs : HasLine(e)}}
      notFound == IsLs /\ t.depth = 0 /\ l.keys = {} /\ l.dirs = {}
  IN \/ /\ l.nil /\ notFound /\ ~t.delimiter
        /\ AskForDirectory /\ Going /\ UNCHANGED output
     \/ l.nil /\ ~notFound /\ Panic /\ UNCHANGED <<todo, output>>
     \/ notFound /\ (t.delimiter \/ ~l.nil) /\ End(TRUE) /\ UNCHANGED <<todo, output>>
     \/ /\ ~l.nil /\ ~notFound
        /\ twice' = (twice \/ lines \cap printed # {})
        /\ printed' = printed \cup lines
        /\ Continue(Nested(t, l) \o Tail(todo), printed \cup lines)

(* An error goes up through all calls of ls as text; listObjects drops it  *)
(* for a table; uploads ls drops it but in the first call, and goes on     *)
(* with the calls that are around the one that failed.                     *)
Rest(t) ==
  LET around == {n \in DOMAIN todo : todo[n].depth < t.depth}
  IN IF kind = "uploads" /\ around # {} THEN SubSeq(todo, Min(around), Len(todo)) ELSE <<>>

Fails(t) ==
  IF kind = "text" \/ t.depth = 0 \/ (kind = "uploads" /\ t.depth = 1)
  THEN End(TRUE) /\ UNCHANGED todo
  ELSE IF Rest(t) = <<>> THEN Returned(printed, TRUE)
  ELSE AskFor(Rest(t)) /\ hidden' = TRUE /\ UNCHANGED <<key, listing, status>>

(* ListObjects, ListMultipartUploads and their next pages.                 *)
List ==
  /\ pc = "list"
  /\ LET t == todo[1]
         page == ListPage(objects, t.prefix, t.delimiter, t.marker, t.size)
     IN \/ Fails(t) /\ UNCHANGED <<troubles, output>>
        \/ Show(t, page) /\ UNCHANGED troubles
        \/ Trouble /\ \E l \in Undecoded(page) : Show(t, l)
  /\ UNCHANGED <<objects, command, others, kind, more, lastKey>>

-----------------------------------------------------------------------------
Step == NextArgument \/ Exec \/ Exists \/ List

Other ==
  /\ \E i \in Ids : Put(i) \/ TakeAway(i)
  /\ kind = "uploads" \/ Distinct(objects')
  /\ UNCHANGED <<command, exec, troubles, kind, more, lastKey, todo, output>>

Done == status # "running" /\ UNCHANGED vars

Next == Step \/ Other \/ Done

Spec == Init /\ [][Next]_vars
FairSpec == Spec /\ WF_vars(Step)

-----------------------------------------------------------------------------
TypeOK ==
  /\ CommandTypeOK
  /\ kind \in {"text", "table", "uploads", "exist"}
  /\ pc \in {"exec", "exists", "list", "next", "done"}
  /\ more \in BOOLEAN /\ twice \in BOOLEAN
  /\ lastKey \in Seq(STRING)
  /\ pc = "list" => todo # <<>>
  /\ \A n \in DOMAIN todo :
       /\ todo[n].marker \in Ids \cup {0}
       /\ todo[n].depth \in Nat
       /\ n > 1 => todo[n].depth <= todo[n - 1].depth
  /\ \A line \in printed : line.id \in Ids \cup {0}

(* What the argument names.  uploads ls takes it for the start of keys; an *)
(* asterisk at the end stands for what follows it, unless there may be an  *)
(* object of that very name.                                               *)
Asked(i) ==
  LET n == Names[i]
  IN IF kind = "uploads" THEN HasPrefix(n, arg)
     ELSE \/ n = arg
          \/ IsWildcard(arg) /\ HasPrefix(n, SubSeq(arg, 1, Len(arg) - 1))
               /\ \A j \in Ids : Names[j] # arg
          \/ ~IsWildcard(arg) /\ Below(n, arg)

(***************************************************************************)
(* When the listing of an argument returns, every object or upload that it *)
(* named all along has its line or, without -r, a directory around it has  *)
(* one, if it can have one: over pages, directories in directories, the    *)
(* search for an object of that name, the second attempt without slashes,  *)
(* and changes of other clients.  Not so for an argument that is listed    *)
(* under the key of the one before (lastKey # arg), and where ls drops an  *)
(* error (hidden).                                                         *)
(***************************************************************************)
ListsAll ==
  pc = "next" /\ kind # "exist" /\ ~hidden /\ troubles = 0 /\ lastKey = arg =>
    \A i \in objects \cap old : Asked(i) =>
      \/ ObjectLine(i) \in printed
      \/ ~recursive /\ \E line \in printed : line.id = 0 /\ HasPrefix(Names[i], line.key)
      \/ ~recursive /\ \E n \in DOMAIN Names[i] :
                         Names[i][n] = "/" /\ ~HasLine(SubSeq(Names[i], 1, n))

(***************************************************************************)
(* And it has one line: no page and no directory is printed again.  Only   *)
(* the second attempt of ls does so, for a table of a key with a slash,    *)
(* which the argument may have from the one before.                        *)
(***************************************************************************)
ListsOnce == troubles = 0 /\ ~(kind = "table" /\ StartsWith(lastKey, "/")) => ~twice
=============================================================================
