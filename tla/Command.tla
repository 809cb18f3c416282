------------------------------ MODULE Command ------------------------------
(***************************************************************************)
(* What the commands rm, get, cat, ls and uploads have in common: one      *)
(* argument, a walk over pages of a bucket that other clients change       *)
(* meanwhile, and a status.  A storage call of the client is one step with *)
(* every result it can have.                                               *)
(***************************************************************************)
EXTENDS Listing

CONSTANTS
  Args,        \* the keys of the arguments, <<>> for a bucket
  PageSize,    \* entries of one page (1000 in the code)
  MaxEvents    \* bound: changes of other clients, and responses that are
               \* undecodable or redirected

ASSUME CommandAssumption ==
  /\ Args \subseteq Seq(STRING)
  /\ PageSize \in Nat \ {0}
  /\ MaxEvents \in Nat

VARIABLES
  objects,     \* the objects in the bucket, or the uploads in progress
  recursive,   \* -r
  arg,         \* the key that was given
  key,         \* the parameter of exec
  pc,          \* where the command is
  listing,     \* the page
  status,      \* of the command: "running", "ok", "error" or "panic"
  old,         \* history: objects that nobody has put since the start
  hidden,      \* history: an error was dropped
  troubles,    \* how many responses were undecodable or redirected
  changes      \* how many changes others made

command == <<recursive, arg>>
exec == <<key, pc, listing, status, hidden>>
others == <<old, changes>>

InitCommand ==
  /\ recursive \in BOOLEAN
  /\ arg \in Args
  /\ key = arg
  /\ listing = NoListing
  /\ status = "running"
  /\ old = objects
  /\ hidden = FALSE
  /\ troubles = 0
  /\ changes = 0

Bounded == changes + troubles < MaxEvents

Trouble == Bounded /\ troubles' = troubles + 1

IsWildcard(k) == EndsWith(k, "*")

(* The command returns, with an error or without.                          *)
End(err) ==
  /\ pc' = "done"
  /\ status' = IF err THEN "error" ELSE "ok"
  /\ listing' = NoListing
  /\ UNCHANGED <<key, hidden>>

(* The command returns nil although a call failed.                         *)
EndHiding ==
  /\ pc' = "done"
  /\ status' = "ok"
  /\ listing' = NoListing
  /\ hidden' = TRUE
  /\ UNCHANGED key

(* Mutant: a panic leaves no status.                                       *)
PanicWithoutStatus == pc' = "done" /\ UNCHANGED <<key, listing, status, hidden>>

(* A result that is nil is dereferenced.                                   *)
Panic ==
  /\ pc' = "done"
  /\ status' = "panic"
  /\ UNCHANGED <<key, listing, hidden>>

(* Another client.                                                         *)
Put(i) ==
  /\ Bounded
  /\ objects' = objects \cup {i}
  /\ old' = old \ {i}
  /\ changes' = changes + 1

TakeAway(i) ==
  /\ Bounded
  /\ objects' = objects \ {i}
  /\ changes' = changes + 1
  /\ UNCHANGED old

(***************************************************************************)
(* What key k of an argument names, as README.rst says: a bucket with -r   *)
(* all its objects, a directory with -r the object of that name and what   *)
(* is below it, a wildcard what starts like it, with -r below directories  *)
(* too.                                                                    *)
(***************************************************************************)
Below(n, dir) ==
  /\ HasPrefix(n, dir)
  /\ dir = <<>> \/ EndsWith(dir, "/") \/ StartsWith(SubSeq(n, Len(dir) + 1, Len(n)), "/")

Matches(n, k) ==
  LET start == TrimRight(k, "*")
  IN HasPrefix(n, start) /\ (recursive \/ SlashesBehind(n, start) = {})

CommandTypeOK ==
  /\ objects \subseteq Ids /\ old \subseteq Ids
  /\ recursive \in BOOLEAN /\ hidden \in BOOLEAN
  /\ arg \in Seq(STRING) /\ key \in Seq(STRING)
  /\ listing.keys \subseteq Ids
  /\ listing.truncated \in BOOLEAN /\ listing.nil \in BOOLEAN
  /\ listing.next \in Ids \cup {0}
  /\ status \in {"running", "ok", "error", "panic"}
  /\ (pc = "done") = (status # "running")
  /\ troubles \in Nat /\ changes \in Nat
  /\ troubles + changes <= MaxEvents
=============================================================================
