---------------------------- MODULE RemoveProofs ----------------------------
(***************************************************************************)
(* Theorems about Remove, for every list of names, every argument, every   *)
(* page size and any number of changes by others.                          *)
(***************************************************************************)
EXTENDS Remove, ListingProofs

(* What the listing of the command is asked for.                           *)
Start == IF uploads THEN key ELSE TrimRight(key, "*")
InWalk(i) ==
  /\ HasPrefix(Names[i], Start)
  /\ uploads \/ recursive \/ SlashesBehind(Names[i], Start) = {}

(* The types of the variables, and that a listing is a record.             *)
WorldTypes ==
  /\ objects \subseteq Ids /\ old \subseteq Ids /\ refused \subseteq Ids
  /\ recursive \in BOOLEAN /\ uploads \in BOOLEAN /\ bucket \in BOOLEAN
  /\ arg \in Keys
CountTypes ==
  troubles \in Nat /\ changes \in Nat /\ troubles + changes <= MaxEvents
ExecTypes ==
  /\ key \in Keys
  /\ pc \in {"list", "delete", "deleteOne", "dropBucket", "listUploads", "abort", "done"}
  /\ status \in {"running", "ok", "error", "panic"}
  /\ pc = "done" <=> status # "running"
  /\ hidden \in BOOLEAN
  /\ num \in Nat
  /\ IsListing(listing)
Types == WorldTypes /\ CountTypes /\ ExecTypes

(* Where the command is tells what its key is, and what it lists.          *)
PlaceInv ==
  /\ pc \in {"listUploads", "abort"} => uploads
  /\ pc \in {"list", "delete", "deleteOne", "dropBucket"} => ~uploads
  /\ pc = "dropBucket" => key = <<>>
  /\ pc = "deleteOne" => key # <<>> /\ ~recursive /\ ~IsWildcard(key)
  /\ pc \in {"list", "delete"} => recursive \/ IsWildcard(key)
  /\ \A i \in listing.keys : InWalk(i)

(* What of a key's objects is not gone, and how much of it is still to     *)
(* come: nothing, what is behind the page, or that and the page.           *)
Left(k) == {i \in objects \cap old : Asked(i, k)} \ refused
BehindPage == {i \in Ids : listing.truncated /\ i > listing.next}

GoneInv ==
  ~hidden /\ troubles = 0 =>
    /\ key # arg => Left(arg) = {}
    /\ status = "ok" => Left(key) = {}
    /\ status = "ok" /\ ~uploads /\ key = <<>> => ~bucket
    /\ pc \in {"list", "listUploads"} => \A i \in Left(key) : i > listing.next
    /\ pc \in {"delete", "abort"} => Left(key) \subseteq listing.keys \cup BehindPage

IInv == Types /\ PlaceInv /\ GoneInv

-----------------------------------------------------------------------------
(***************************************************************************)
(* The filters agree with what the argument names: of what is listed, rm   *)
(* deletes what is asked for and nothing else, and all that is asked for   *)
(* is listed.                                                              *)
(***************************************************************************)

LEMMA EmptyKey == ~IsWildcard(<<>>) /\ <<>> \in Keys /\ ~StartsWith(<<>>, "/")
BY EmptySeq DEF IsWildcard, EndsWith, StartsWith, Keys

(* With and without the slash: "test2" is not in the directory "test".     *)
LEMMA BelowMeans ==
  ASSUME NEW k \in Keys, NEW n \in Keys, k # <<>>, ~EndsWith(k, "/")
  PROVE  Below(n, k) <=> HasPrefix(n, Append(k, "/"))
BY DirectoryMeans DEF Below

(* What the filters let through of what is listed.                         *)
IsRemoved(i) ==
  /\ InWalk(i)
  /\ IF uploads THEN recursive \/ Names[i] = key
     ELSE recursive /\ key # <<>> => Names[i] = key \/ HasPrefix(Names[i], Directory)

LEMMA AskedMeans ==
  ASSUME NEW i \in Ids, key \in Keys, uploads \in BOOLEAN, recursive \in BOOLEAN,
         ~uploads => recursive \/ IsWildcard(key)
  PROVE  Asked(i, key) <=> IsRemoved(i)
<1> SUFFICES Asked(i, key) <=>
               /\ InWalk(i)
               /\ IF uploads THEN recursive \/ Names[i] = key
                  ELSE recursive /\ key # <<>> =>
                         Names[i] = key \/ HasPrefix(Names[i], Directory)
  BY DEF IsRemoved
<1> DEFINE n == Names[i]
<1>1. n \in Keys /\ HasPrefix(key, key) /\ HasPrefix(n, <<>>)
  BY NamesAreKeys, PrefixOfItself
<1>2. CASE uploads
  BY <1>1, <1>2 DEF Asked, InWalk, Start
<1>3. CASE ~uploads /\ IsWildcard(key)
  <2>1. key # <<>> /\ Start = TrimRight(key, "*") /\ Directory = TrimRight(key, "*")
    BY <1>3, EmptyKey DEF Start, Directory
  <2>2. Asked(i, key) <=> InWalk(i)
    BY <1>3, <2>1 DEF Asked, Matches, InWalk
  <2>3. InWalk(i) /\ recursive => HasPrefix(n, Directory)
    BY <2>1 DEF InWalk
  <2> QED
    BY <1>3, <2>1, <2>2, <2>3
<1>4. CASE ~uploads /\ ~IsWildcard(key)
  <2>1. recursive /\ TrimRight(key, "*") = key /\ Start = key
    BY <1>4, TrimRightIsKey DEF IsWildcard, Start
  <2>2. InWalk(i) <=> HasPrefix(n, key)
    BY <2>1 DEF InWalk
  <2>3. Asked(i, key) <=> n = key \/ Below(n, key)
    BY <1>4, <2>1 DEF Asked
  <2>4. CASE key = <<>>
    BY <1>1, <1>4, <2>2, <2>3, <2>4 DEF Below
  <2>5. CASE key # <<>> /\ EndsWith(key, "/")
    <3>1. Directory = key
      BY <2>1, <2>5 DEF Directory
    <3> QED
      BY <1>1, <1>4, <2>1, <2>2, <2>3, <2>5, <3>1 DEF Below
  <2>6. CASE key # <<>> /\ ~EndsWith(key, "/")
    <3>1. Directory = Append(key, "/")
      BY <1>4, <2>6 DEF Directory
    <3>2. Below(n, key) <=> HasPrefix(n, Directory)
      BY <1>1, <2>6, <3>1, BelowMeans
    <3>3. Below(n, key) => HasPrefix(n, key)
      BY DEF Below
    <3> QED
      BY <1>1, <1>4, <2>1, <2>2, <2>3, <2>6, <3>2, <3>3
  <2> QED
    BY <2>4, <2>5, <2>6
<1> QED
  BY <1>2, <1>3, <1>4

-----------------------------------------------------------------------------
(* The ends of the command and of a walk.                                  *)

(* What is left after a step, of a key of before it.                       *)
Still(k) == {i \in objects' \cap old' : Asked(i, k)} \ refused'

(* Steps of the command put no objects.                                    *)
Shrinks ==
  /\ objects' \subseteq objects /\ refused \subseteq refused'
  /\ UNCHANGED <<uploads, recursive, arg, old>>
  /\ troubles' = 0 => troubles = 0

LEMMA StillMeans ==
  ASSUME UNCHANGED <<uploads, recursive, arg>>
  PROVE  Left(key)' = Still(key') /\ Left(arg)' = Still(arg)
BY DEF Left, Still, Asked, Matches

LEMMA StillLeft ==
  ASSUME Shrinks
  PROVE  \A k : Still(k) \subseteq Left(k)
BY DEF Left, Still, Shrinks

LEMMA EndStep ==
  ASSUME IInv, Shrinks, NEW err \in BOOLEAN, End(err), num' \in Nat,
         ~err /\ troubles' = 0 => uploads \/ key # <<>> \/ ~bucket',
         ~err /\ ~hidden /\ troubles' = 0 => Still(key) = {}
  PROVE  ExecTypes' /\ PlaceInv' /\ GoneInv'
<1>1. /\ pc' = "done" /\ status' \in {"ok", "error"} /\ listing' = NoListing
      /\ key' = key /\ hidden' = hidden
      /\ status' = "ok" => ~err
  BY DEF End
<1>2. ExecTypes'
  <2>1. IsListing(listing')
    BY <1>1, NoListingMeans
  <2>2. IsListing(listing)'
    BY <2>1 DEF IsListing
  <2> QED
    BY <1>1, <2>2 DEF IInv, Types, ExecTypes
<1>3. PlaceInv'
  BY <1>1, NoListingMeans DEF PlaceInv
<1>4. GoneInv'
  <2> SUFFICES ASSUME ~hidden', troubles' = 0
               PROVE  /\ key' # arg' => Left(arg)' = {}
                      /\ status' = "ok" => Left(key)' = {}
                      /\ status' = "ok" /\ ~uploads' /\ key' = <<>> => ~bucket'
    BY <1>1 DEF GoneInv
  <2>1. ~hidden /\ troubles = 0
    BY <1>1 DEF Shrinks
  <2>2. key # arg => Still(arg) = {}
    BY <2>1, StillLeft DEF IInv, GoneInv
  <2> QED
    BY <1>1, <2>1, <2>2, StillMeans DEF Shrinks
<1> QED
  BY <1>2, <1>3, <1>4

LEMMA LeaveStep ==
  ASSUME IInv, Shrinks, ~uploads, pc # "done", NEW n \in Nat, NEW err \in BOOLEAN,
         Leave(n, err), ~err => key # <<>>,
         ~err /\ ~hidden /\ troubles' = 0 => Still(key) = {}
  PROVE  ExecTypes' /\ PlaceInv' /\ GoneInv'
<1>1. CASE ~FallsBack(n)
  BY <1>1, EndStep DEF Leave
<1>2. CASE FallsBack(n)
  <2>1. /\ key' = TrimLeft(key, "/") /\ pc' = FirstCall(key', recursive) /\ num' = 0
        /\ hidden' = (hidden \/ err) /\ listing' = NoListing /\ status' = status
    BY <1>2 DEF Leave
  <2>2. key' \in Keys
    BY <2>1, TrimLeftIsKey DEF IInv, Types, ExecTypes
  <2>3. /\ pc' \in {"list", "deleteOne", "dropBucket"}
        /\ pc' = "dropBucket" => key' = <<>>
        /\ pc' = "deleteOne" => key' # <<>> /\ ~recursive /\ ~IsWildcard(key')
        /\ pc' = "list" => recursive \/ IsWildcard(key')
    BY <2>1 DEF FirstCall
  <2>4. ExecTypes'
    <3>1. IsListing(listing')
      BY <2>1, NoListingMeans
    <3>2. IsListing(listing)'
      BY <3>1 DEF IsListing
    <3>3. status' = "running"
      BY <2>1 DEF IInv, Types, ExecTypes
    <3>4. hidden' \in BOOLEAN
      BY <2>1 DEF IInv, Types, ExecTypes
    <3> QED
      BY <2>1, <2>2, <2>3, <3>2, <3>3, <3>4 DEF ExecTypes
  <2>5. PlaceInv'
    <3>1. IsWildcard(key)' = IsWildcard(key')
      BY DEF IsWildcard, EndsWith
    <3> QED
      BY <2>1, <2>3, <3>1, NoListingMeans DEF PlaceInv, Shrinks
  <2>6. GoneInv'
    <3> SUFFICES ASSUME ~hidden', troubles' = 0
                 PROVE  /\ key' # arg' => Left(arg)' = {}
                        /\ pc' = "list" => \A i \in Left(key)' : i > listing'.next
      BY <2>1, <2>3, <2>4 DEF GoneInv, ExecTypes
    <3>1. ~hidden /\ ~err /\ troubles = 0
      BY <2>1 DEF Shrinks
    <3>2. Still(arg) = {}
      BY <3>1, StillLeft DEF IInv, GoneInv
    <3>3. \A i \in Still(key') : i \in Ids
      BY DEF Still, Shrinks, IInv, Types, WorldTypes
    <3>4. \A i \in Still(key') : i > 0
      BY <3>3, IdsAreNumbers
    <3> QED
      BY <2>1, <3>2, <3>4, StillMeans, NoListingMeans DEF Shrinks
  <2> QED
    BY <2>4, <2>5, <2>6
<1> QED
  BY <1>1, <1>2

LEMMA EndWalkStep ==
  ASSUME IInv, Shrinks, ~uploads, pc # "done", NEW n \in Nat, EndWalk(n),
         ~hidden /\ troubles' = 0 => Still(key) = {}
  PROVE  ExecTypes' /\ PlaceInv' /\ GoneInv'
<1>1. CASE key # <<>>
  BY <1>1, LeaveStep DEF EndWalk
<1>2. CASE key = <<>>
  <2>1. pc' = "dropBucket" /\ listing' = NoListing /\ UNCHANGED <<key, num, status, hidden>>
    BY <1>2 DEF EndWalk
  <2>2. status' = "running"
    BY <2>1 DEF IInv, Types, ExecTypes
  <2>3. ExecTypes'
    <3>1. IsListing(listing')
      BY <2>1, NoListingMeans
    <3>2. IsListing(listing)'
      BY <3>1 DEF IsListing
    <3> QED
      BY <2>1, <2>2, <3>2 DEF IInv, Types, ExecTypes
  <2>4. PlaceInv'
    BY <1>2, <2>1, NoListingMeans DEF PlaceInv, Shrinks
  <2>5. GoneInv'
    <3> SUFFICES ASSUME ~hidden', troubles' = 0 PROVE key' # arg' => Left(arg)' = {}
      BY <2>1, <2>2 DEF GoneInv
    <3> QED
      BY <2>1, StillMeans, StillLeft DEF IInv, GoneInv, Shrinks
  <2> QED
    BY <2>3, <2>4, <2>5
<1> QED
  BY <1>1, <1>2

-----------------------------------------------------------------------------
(* The page that is listed next.                                           *)

(* What makes a page a complete one: nothing is left that is not on it or  *)
(* behind its marker, and it is not empty while something is left.         *)
Complete(l) ==
  /\ ~l.nil
  /\ \A i \in Left(key) : i \in l.keys \/ (l.truncated /\ i > l.next)
  /\ (uploads \/ recursive) /\ Left(key) # {} => l.keys # {}

LEMMA PageMeans ==
  ASSUME IInv, pc \in {"list", "listUploads"}
  PROVE  /\ IsListing(Page)
         /\ \A i \in Page.keys : InWalk(i)
         /\ ~hidden /\ troubles = 0 => Complete(Page)
<1> DEFINE delimiter == ~uploads /\ ~recursive
           wanted == Wanted(objects, Start, delimiter, listing.next)
<1>1. /\ objects \in SUBSET Ids /\ key \in Keys /\ listing.next \in Nat
      /\ uploads \in BOOLEAN /\ recursive \in BOOLEAN
      /\ ~uploads => recursive \/ IsWildcard(key)
  BY IdsAreNumbers DEF IInv, Types, WorldTypes, ExecTypes, IsListing, PlaceInv
<1>2. Start \in Keys
  BY <1>1, TrimRightIsKey DEF Start
<1>3. Page = ListPage(objects, Start, delimiter, listing.next, PageSize)
  <2>1. CASE uploads
    <3>1. delimiter = FALSE /\ Start = key
      BY <2>1 DEF Start
    <3> QED
      BY <2>1, <3>1 DEF Page
  <2>2. CASE ~uploads
    <3>1. delimiter = ~recursive /\ Start = TrimRight(key, "*")
      BY <1>1, <2>2 DEF Start
    <3> QED
      BY <2>2, <3>1 DEF Page
  <2> QED BY <2>1, <2>2
<1>4. delimiter \in BOOLEAN /\ PageSize \in Nat \ {0}
  BY CommandAssumption
<1> HIDE DEF delimiter
<1>5. IsPageOf(Page, wanted, delimiter)
  BY <1>1, <1>2, <1>3, <1>4, PageIsComplete
<1>6. wanted = {i \in objects : i > listing.next /\ InWalk(i)}
  BY <1>1 DEF Wanted, InWalk, delimiter
<1> HIDE DEF wanted
<1>7. IsListing(Page)
  <2>1. Page.nil = FALSE
    BY <1>5 DEF IsPageOf
  <2> QED
    BY <1>1, <1>5, <1>6, <2>1 DEF IsListing, IsPageOf
<1>8. \A i \in Page.keys : InWalk(i)
  BY <1>5, <1>6 DEF IsPageOf
<1>9. ASSUME ~hidden, troubles = 0 PROVE Complete(Page)
  <2>1. Left(key) \subseteq wanted
    <3> SUFFICES ASSUME NEW i \in Left(key) PROVE i \in wanted
      OBVIOUS
    <3>1. i \in objects /\ i \in Ids /\ Asked(i, key)
      BY <1>1 DEF Left
    <3>2. i > listing.next
      BY <1>9 DEF IInv, GoneInv
    <3>3. InWalk(i)
      BY <1>1, <3>1, AskedMeans DEF IsRemoved
    <3> QED
      BY <1>6, <3>1, <3>2, <3>3
  <2>2. uploads \/ recursive => ~delimiter
    BY DEF delimiter
  <2>3. Page.nil = FALSE
    BY <1>5 DEF IsPageOf
  <2> QED
    BY <1>5, <2>1, <2>2, <2>3 DEF Complete, IsPageOf
<1> QED
  BY <1>7, <1>8, <1>9

LEMMA KeepPage ==
  ASSUME IInv, Shrinks, NEW l, IsListing(l), \A i \in l.keys : InWalk(i),
         listing' = l, UNCHANGED <<key, num, status, hidden>>, status = "running",
         pc' \in {"delete", "abort"}, uploads <=> pc' = "abort",
         ~uploads => recursive \/ IsWildcard(key),
         ~hidden /\ troubles' = 0 =>
           \A i \in Still(key) : i \in l.keys \/ (l.truncated /\ i > l.next)
  PROVE  ExecTypes' /\ PlaceInv' /\ GoneInv'
<1>1. ExecTypes'
  <2>1. IsListing(listing)'
    BY DEF IsListing
  <2> QED
    BY <2>1 DEF IInv, Types, ExecTypes
<1>2. PlaceInv'
  <2>1. \A i : InWalk(i)' = InWalk(i)
    BY DEF InWalk, Start, Shrinks
  <2>2. IsWildcard(key)' = IsWildcard(key)
    BY DEF IsWildcard, EndsWith
  <2> QED
    BY <2>1, <2>2 DEF PlaceInv, Shrinks
<1>3. GoneInv'
  <2> SUFFICES ASSUME ~hidden', troubles' = 0
               PROVE  /\ key' # arg' => Left(arg)' = {}
                      /\ Left(key)' \subseteq (listing.keys \cup BehindPage)'
    BY DEF GoneInv
  <2>1. ~hidden /\ troubles = 0
    BY DEF Shrinks
  <2>2. key # arg => Still(arg) = {}
    BY <2>1, StillLeft DEF IInv, GoneInv
  <2>3. Still(key) \subseteq Ids
    BY DEF Still, Shrinks, IInv, Types, WorldTypes
  <2>4. BehindPage' = {i \in Ids : l.truncated /\ i > l.next}
    BY DEF BehindPage
  <2> QED
    BY <2>1, <2>2, <2>3, <2>4, StillMeans DEF Shrinks
<1> QED
  BY <1>1, <1>2, <1>3

LEMMA GoOnStep ==
  ASSUME IInv, Shrinks, UNCHANGED <<key, listing, status, hidden>>, status = "running",
         num' \in Nat, pc' \in {"list", "listUploads"}, uploads <=> pc' = "listUploads",
         ~uploads => recursive \/ IsWildcard(key),
         ~hidden /\ troubles' = 0 => \A i \in Still(key) : i > listing.next
  PROVE  ExecTypes' /\ PlaceInv' /\ GoneInv'
<1>1. ExecTypes'
  BY DEF IInv, Types, ExecTypes, IsListing
<1>2. PlaceInv'
  <2>1. \A i : InWalk(i)' = InWalk(i)
    BY DEF InWalk, Start, Shrinks
  <2>2. IsWildcard(key)' = IsWildcard(key)
    BY DEF IsWildcard, EndsWith
  <2> QED
    BY <2>1, <2>2 DEF IInv, PlaceInv, Shrinks
<1>3. GoneInv'
  <2> SUFFICES ASSUME ~hidden', troubles' = 0
               PROVE  /\ key' # arg' => Left(arg)' = {}
                      /\ \A i \in Left(key)' : i > listing'.next
    BY DEF GoneInv
  <2>1. ~hidden /\ troubles = 0
    BY DEF Shrinks
  <2>2. key # arg => Still(arg) = {}
    BY <2>1, StillLeft DEF IInv, GoneInv
  <2> QED
    BY <2>1, <2>2, StillMeans DEF Shrinks
<1> QED
  BY <1>1, <1>2, <1>3

(* The ends without a promise: a panic, and a status 0 in spite of errors. *)
LEMMA LostEndStep ==
  ASSUME IInv, Shrinks, Panic \/ EndHiding, num' \in Nat
  PROVE  ExecTypes' /\ PlaceInv' /\ GoneInv'
<1>1. CASE Panic
  <2>1. pc' = "done" /\ status' = "panic" /\ UNCHANGED <<key, listing, hidden>>
    BY <1>1 DEF Panic
  <2>2. ExecTypes'
    BY <2>1 DEF IInv, Types, ExecTypes, IsListing
  <2>3. PlaceInv'
    <3>1. \A i : InWalk(i)' = InWalk(i)
      BY <2>1 DEF InWalk, Start, Shrinks
    <3> QED
      BY <2>1, <3>1 DEF IInv, PlaceInv
  <2>4. GoneInv'
    <3> SUFFICES ASSUME ~hidden', troubles' = 0 PROVE key' # arg' => Left(arg)' = {}
      BY <2>1 DEF GoneInv
    <3> QED
      BY <2>1, StillMeans, StillLeft DEF IInv, GoneInv, Shrinks
  <2> QED
    BY <2>2, <2>3, <2>4
<1>2. CASE EndHiding
  <2>1. pc' = "done" /\ status' = "ok" /\ listing' = NoListing /\ hidden' = TRUE /\ key' = key
    BY <1>2 DEF EndHiding
  <2>2. IsListing(listing')
    BY <2>1, NoListingMeans
  <2>3. ExecTypes'
    <3>1. IsListing(listing)'
      BY <2>2 DEF IsListing
    <3> QED
      BY <2>1, <3>1 DEF IInv, Types, ExecTypes
  <2>4. PlaceInv' /\ GoneInv'
    BY <2>1, NoListingMeans DEF PlaceInv, GoneInv
  <2> QED
    BY <2>3, <2>4
<1> QED
  BY <1>1, <1>2

-----------------------------------------------------------------------------
(* The actions.                                                            *)

LEMMA TroubleCounts ==
  ASSUME CountTypes, UNCHANGED changes, Trouble
  PROVE  CountTypes' /\ troubles' # 0
BY CommandAssumption DEF CountTypes, Trouble, Bounded

LEMMA QuietCounts ==
  ASSUME CountTypes, UNCHANGED <<troubles, changes>>
  PROVE  CountTypes'
BY DEF CountTypes

LEMMA ListStep ==
  ASSUME IInv, List
  PROVE  IInv'
<1>1. /\ pc = "list" /\ ~uploads /\ status = "running" /\ num \in Nat
      /\ recursive \/ IsWildcard(key)
      /\ UNCHANGED <<objects, refused, old, arg, recursive, uploads, bucket, changes>>
  BY DEF List, world, command, others, IInv, Types, ExecTypes, PlaceInv
<1>2. WorldTypes'
  BY <1>1 DEF IInv, Types, WorldTypes
<1>3. /\ IsListing(Page) /\ \A i \in Page.keys : InWalk(i)
      /\ ~hidden /\ troubles = 0 => Complete(Page)
  BY <1>1, PageMeans
<1>4. UNCHANGED troubles \/ Trouble
  BY DEF List
<1>5. CountTypes' /\ Shrinks /\ (Trouble => troubles' # 0)
  BY <1>1, <1>4, TroubleCounts, QuietCounts DEF Shrinks, IInv, Types
<1>6. Still(key) = Left(key)
  BY <1>1 DEF Still, Left
<1>7. ASSUME NEW l, IsListing(l), l.keys \subseteq Page.keys, Show(l),
             ~hidden /\ troubles' = 0 => Complete(l)
      PROVE  ExecTypes' /\ PlaceInv' /\ GoneInv'
  <2>1. CASE EndsAt(l)
    <3>1. EndWalk(num)
      BY <1>7, <2>1 DEF Show
    <3>2. ~hidden /\ troubles' = 0 => Still(key) = {}
      BY <1>6, <1>7, <2>1 DEF EndsAt, Complete
    <3> QED
      BY <1>1, <1>5, <3>1, <3>2, EndWalkStep
  <2>2. CASE ~EndsAt(l)
    <3>1. listing' = l /\ pc' = "delete" /\ UNCHANGED <<key, num, status, hidden>>
      BY <1>7, <2>2 DEF Show
    <3>2. \A i \in l.keys : InWalk(i)
      BY <1>3, <1>7
    <3>3. ~hidden /\ troubles' = 0 =>
            \A i \in Still(key) : i \in l.keys \/ (l.truncated /\ i > l.next)
      BY <1>6, <1>7 DEF Complete
    <3> QED
      BY <1>1, <1>5, <1>7, <3>1, <3>2, <3>3, KeepPage
  <2> QED BY <2>1, <2>2
<1>8. ASSUME Leave(num, TRUE) PROVE ExecTypes' /\ PlaceInv' /\ GoneInv'
  BY <1>1, <1>5, <1>8, LeaveStep
<1>9. ASSUME Show(Page), UNCHANGED troubles PROVE ExecTypes' /\ PlaceInv' /\ GoneInv'
  BY <1>3, <1>7, <1>9
<1>10. ASSUME Trouble, NEW l \in Undecoded(Page), Show(l)
       PROVE  ExecTypes' /\ PlaceInv' /\ GoneInv'
  BY <1>3, <1>5, <1>7, <1>10, UndecodedIsPart
<1>11. ExecTypes' /\ PlaceInv' /\ GoneInv'
  BY <1>8, <1>9, <1>10 DEF List
<1> QED
  BY <1>2, <1>5, <1>11 DEF IInv, Types

LEMMA ToDeleteMeans ==
  ASSUME IInv, pc = "delete"
  PROVE  ToDelete = {i \in listing.keys : Asked(i, key)} /\ ToDelete \subseteq Ids
<1>1. /\ listing.keys \subseteq Ids /\ key \in Keys /\ recursive \in BOOLEAN
      /\ uploads \in BOOLEAN /\ ~uploads
      /\ recursive \/ IsWildcard(key)
      /\ \A i \in listing.keys : InWalk(i)
  BY DEF IInv, Types, WorldTypes, ExecTypes, IsListing, PlaceInv
<1>2. \A i \in listing.keys :
        Asked(i, key) <=> (recursive /\ key # <<>> =>
                             Names[i] = key \/ HasPrefix(Names[i], Directory))
  <2> SUFFICES ASSUME NEW i \in listing.keys
               PROVE  Asked(i, key) <=> (recursive /\ key # <<>> =>
                             Names[i] = key \/ HasPrefix(Names[i], Directory))
    OBVIOUS
  <2>1. i \in Ids /\ InWalk(i)
    BY <1>1
  <2>2. Asked(i, key) <=> IsRemoved(i)
    BY <1>1, <2>1, AskedMeans
  <2> QED
    BY <1>1, <2>1, <2>2 DEF IsRemoved
<1> QED
  BY <1>1, <1>2 DEF ToDelete

LEMMA DeleteStep ==
  ASSUME IInv, Delete
  PROVE  IInv'
<1>1. /\ pc = "delete" /\ ~uploads /\ status = "running" /\ num \in Nat
      /\ recursive \/ IsWildcard(key)
      /\ UNCHANGED <<old, arg, recursive, uploads, bucket, changes>>
  BY DEF Delete, world, command, others, IInv, Types, ExecTypes, PlaceInv
<1>2. PICK done \in SUBSET ToDelete :
        /\ objects' = objects \ done
        /\ \/ Leave(num, TRUE) /\ UNCHANGED <<refused, troubles>>
           \/ Panic /\ Trouble /\ UNCHANGED <<num, refused>>
           \/ /\ refused' = refused \cup (ToDelete \ done)
              /\ \E listed \in 0 .. Cardinality(done) :
                   /\ IF listed = Cardinality(done) THEN UNCHANGED troubles ELSE Trouble
                   /\ IF listing.truncated
                      THEN /\ num' = num + listed
                           /\ pc' = "list"
                           /\ UNCHANGED <<key, listing, status, hidden>>
                      ELSE EndWalk(num + listed)
  BY DEF Delete
<1>3. ToDelete \subseteq Ids /\ ToDelete = {i \in listing.keys : Asked(i, key)}
  BY <1>1, ToDeleteMeans
<1>4. refused' \in {refused, refused \cup (ToDelete \ done)} /\ (UNCHANGED troubles \/ Trouble)
  BY <1>2
<1>5. WorldTypes'
  BY <1>1, <1>2, <1>3, <1>4 DEF IInv, Types, WorldTypes
<1>6. CountTypes' /\ Shrinks
  <2>1. CountTypes' /\ (Trouble => troubles' # 0)
    BY <1>1, <1>4, TroubleCounts, QuietCounts DEF IInv, Types
  <2> QED
    BY <1>1, <1>2, <1>4, <2>1 DEF Shrinks
<1>7. ASSUME Leave(num, TRUE) PROVE ExecTypes' /\ PlaceInv' /\ GoneInv'
  BY <1>1, <1>6, <1>7, LeaveStep
<1>8. ASSUME Panic, num' = num PROVE ExecTypes' /\ PlaceInv' /\ GoneInv'
  BY <1>1, <1>6, <1>8, LostEndStep
<1>9. ASSUME refused' = refused \cup (ToDelete \ done),
             NEW listed \in 0 .. Cardinality(done),
             IF listing.truncated
             THEN /\ num' = num + listed
                  /\ pc' = "list"
                  /\ UNCHANGED <<key, listing, status, hidden>>
             ELSE EndWalk(num + listed)
      PROVE  ExecTypes' /\ PlaceInv' /\ GoneInv'
  <2>1. listed \in Nat /\ num + listed \in Nat
    BY <1>1
  <2>2. ASSUME ~hidden, troubles' = 0 PROVE Still(key) \subseteq BehindPage
    <3> SUFFICES ASSUME NEW i \in Still(key) PROVE i \in BehindPage
      OBVIOUS
    <3>1. i \in Left(key)
      BY <1>6, StillLeft
    <3>2. i \in listing.keys \cup BehindPage
      BY <1>1, <1>6, <2>2, <3>1 DEF IInv, GoneInv, Shrinks
    <3>3. i \notin ToDelete
      BY <1>2, <1>9 DEF Still
    <3>4. Asked(i, key)
      BY DEF Still
    <3> QED
      BY <1>3, <3>2, <3>3, <3>4
  <2>3. CASE listing.truncated
    <3>1. \A i \in BehindPage : i > listing.next
      BY DEF BehindPage
    <3> QED
      BY <1>1, <1>6, <1>9, <2>1, <2>2, <2>3, <3>1, GoOnStep
  <2>4. CASE ~listing.truncated
    <3>1. BehindPage = {}
      BY <2>4 DEF BehindPage
    <3> QED
      BY <1>1, <1>6, <1>9, <2>1, <2>2, <2>4, <3>1, EndWalkStep
  <2> QED BY <2>3, <2>4
<1>10. ExecTypes' /\ PlaceInv' /\ GoneInv'
  BY <1>2, <1>7, <1>8, <1>9
<1> QED
  BY <1>5, <1>6, <1>10 DEF IInv, Types

LEMMA DeleteOneStep ==
  ASSUME IInv, DeleteOne
  PROVE  IInv'
<1> DEFINE rest == {i \in objects : Names[i] # key}
<1>1. /\ pc = "deleteOne" /\ ~uploads /\ status = "running"
      /\ key # <<>> /\ ~recursive /\ ~IsWildcard(key)
      /\ UNCHANGED <<refused, old, arg, recursive, uploads, bucket, changes>>
      /\ objects' \in {objects, rest}
  BY DEF DeleteOne, world, command, others, IInv, Types, ExecTypes, PlaceInv
<1>2. UNCHANGED troubles \/ Trouble
  BY DEF DeleteOne
<1>3. WorldTypes'
  BY <1>1 DEF IInv, Types, WorldTypes
<1>4. CountTypes' /\ Shrinks /\ (Trouble => troubles' # 0)
  BY <1>1, <1>2, TroubleCounts, QuietCounts DEF Shrinks, IInv, Types
<1>5. objects' = rest => Still(key) = {}
  BY <1>1 DEF Still, Asked
<1>6. \/ Leave(1, FALSE) /\ objects' = rest
      \/ Leave(0, TRUE)
      \/ Leave(1, FALSE) /\ troubles' # 0
  BY <1>4 DEF DeleteOne
<1>7. ExecTypes' /\ PlaceInv' /\ GoneInv'
  BY <1>1, <1>4, <1>5, <1>6, LeaveStep
<1> QED
  BY <1>3, <1>4, <1>7 DEF IInv, Types

LEMMA DropBucketStep ==
  ASSUME IInv, DropBucket
  PROVE  IInv'
<1>1. /\ pc = "dropBucket" /\ status = "running" /\ num' \in Nat
      /\ UNCHANGED <<objects, refused, old, arg, recursive, uploads, changes>>
      /\ bucket' \in BOOLEAN
  BY DEF DropBucket, command, others, IInv, Types, WorldTypes, ExecTypes
<1>2. UNCHANGED troubles \/ Trouble
  BY DEF DropBucket
<1>3. WorldTypes'
  BY <1>1 DEF IInv, Types, WorldTypes
<1>4. CountTypes' /\ Shrinks /\ (Trouble => troubles' # 0)
  BY <1>1, <1>2, TroubleCounts, QuietCounts DEF Shrinks, IInv, Types
<1>5. objects = {} => Still(key) = {}
  BY <1>1 DEF Still
<1>6. \/ End(TRUE)
      \/ End(FALSE) /\ Still(key) = {} /\ ~bucket'
      \/ End(FALSE) /\ troubles' # 0
  BY <1>4, <1>5 DEF DropBucket
<1>7. ExecTypes' /\ PlaceInv' /\ GoneInv'
  BY <1>1, <1>4, <1>6, EndStep
<1> QED
  BY <1>3, <1>4, <1>7 DEF IInv, Types

LEMMA ListUploadsStep ==
  ASSUME IInv, ListUploads
  PROVE  IInv'
<1>1. /\ pc = "listUploads" /\ uploads /\ status = "running" /\ num' \in Nat
      /\ UNCHANGED <<objects, num, refused, old, arg, recursive, uploads, bucket, changes>>
  BY DEF ListUploads, world, command, others, IInv, Types, ExecTypes, PlaceInv
<1>2. WorldTypes'
  BY <1>1 DEF IInv, Types, WorldTypes
<1>3. /\ IsListing(Page) /\ \A i \in Page.keys : InWalk(i)
      /\ ~hidden /\ troubles = 0 => Complete(Page)
  BY <1>1, PageMeans
<1>4. UNCHANGED troubles \/ Trouble
  BY DEF ListUploads
<1>5. CountTypes' /\ Shrinks /\ (Trouble => troubles' # 0)
  BY <1>1, <1>4, TroubleCounts, QuietCounts DEF Shrinks, IInv, Types
<1>6. Still(key) = Left(key)
  BY <1>1 DEF Still, Left
<1>7. ASSUME End(TRUE) PROVE ExecTypes' /\ PlaceInv' /\ GoneInv'
  BY <1>1, <1>5, <1>7, EndStep
<1>8. ASSUME NEW l, IsListing(l), l.keys \subseteq Page.keys, ShowUploads(l),
             ~hidden /\ troubles' = 0 => Complete(l)
      PROVE  ExecTypes' /\ PlaceInv' /\ GoneInv'
  <2>1. CASE Panic
    BY <1>1, <1>5, <2>1, LostEndStep
  <2>2. CASE listing' = l /\ pc' = "abort" /\ UNCHANGED <<key, status, hidden>>
    <3>1. \A i \in l.keys : InWalk(i)
      BY <1>3, <1>8
    <3>2. ~hidden /\ troubles' = 0 =>
            \A i \in Still(key) : i \in l.keys \/ (l.truncated /\ i > l.next)
      BY <1>6, <1>8 DEF Complete
    <3> QED
      BY <1>1, <1>5, <1>8, <2>2, <3>1, <3>2, KeepPage
  <2> QED
    BY <1>7, <1>8, <2>1, <2>2 DEF ShowUploads
<1>9. ASSUME EndHiding PROVE ExecTypes' /\ PlaceInv' /\ GoneInv'
  BY <1>1, <1>5, <1>9, LostEndStep
<1>10. ASSUME ShowUploads(Page), UNCHANGED troubles PROVE ExecTypes' /\ PlaceInv' /\ GoneInv'
  BY <1>3, <1>8, <1>10
<1>11. ASSUME Trouble, NEW l \in Undecoded(Page), ShowUploads(l)
       PROVE  ExecTypes' /\ PlaceInv' /\ GoneInv'
  BY <1>3, <1>5, <1>8, <1>11, UndecodedIsPart
<1>12. ExecTypes' /\ PlaceInv' /\ GoneInv'
  BY <1>7, <1>9, <1>10, <1>11 DEF ListUploads
<1> QED
  BY <1>2, <1>5, <1>12 DEF IInv, Types

LEMMA AbortStep ==
  ASSUME IInv, NEW i \in Ids, Abort(i)
  PROVE  IInv'
<1> DEFINE rest == [listing EXCEPT !.keys = @ \ {i}]
           Continue == /\ listing' = rest
                       /\ UNCHANGED <<key, pc, status, hidden>>
<1>1. /\ pc = "abort" /\ uploads /\ status = "running" /\ num' \in Nat
      /\ i \in listing.keys /\ InWalk(i)
      /\ objects' \in {objects, objects \ {i}}
      /\ UNCHANGED <<num, refused, old, arg, recursive, uploads, bucket, changes>>
  BY DEF Abort, FirstOf, world, command, others, IInv, Types, ExecTypes, PlaceInv
<1>2. UNCHANGED troubles \/ Trouble
  BY DEF Abort
<1>3. WorldTypes'
  BY <1>1 DEF IInv, Types, WorldTypes
<1>4. CountTypes' /\ Shrinks /\ (Trouble => troubles' # 0)
  BY <1>1, <1>2, TroubleCounts, QuietCounts DEF Shrinks, IInv, Types
<1>5. /\ IsListing(rest) /\ rest.keys = listing.keys \ {i}
      /\ rest.truncated = listing.truncated /\ rest.next = listing.next
  <2>1. IsListing(listing)
    BY DEF IInv, Types, ExecTypes
  <2>2. rest = [nil |-> listing.nil, keys |-> listing.keys \ {i}, dirs |-> listing.dirs,
                truncated |-> listing.truncated, next |-> listing.next]
    BY <2>1 DEF IsListing
  <2> HIDE DEF rest
  <2> QED
    BY <2>1, <2>2 DEF IsListing
<1>6. Asked(i, key) <=> ToAbort(i)
  BY <1>1, AskedMeans DEF IsRemoved, ToAbort, IInv, Types, WorldTypes, ExecTypes
<1> HIDE DEF rest
<1>7. ASSUME Continue, troubles' = 0 => ~ToAbort(i) \/ objects' = objects \ {i}
      PROVE  ExecTypes' /\ PlaceInv' /\ GoneInv'
  <2>1. \A j \in rest.keys : InWalk(j)
    BY <1>5 DEF IInv, PlaceInv
  <2>2. ASSUME ~hidden, troubles' = 0, NEW j \in Still(key)
        PROVE  j \in rest.keys \/ (rest.truncated /\ j > rest.next)
    <3>1. j \in Left(key) /\ Asked(j, key) /\ j \in objects'
      BY <1>4, StillLeft DEF Still
    <3>2. j \in listing.keys \/ j \in BehindPage
      BY <1>1, <1>4, <2>2, <3>1 DEF IInv, GoneInv, Shrinks
    <3>3. j # i
      BY <1>6, <1>7, <2>2, <3>1
    <3> QED
      BY <1>5, <3>2, <3>3 DEF BehindPage
  <2> QED
    BY <1>1, <1>4, <1>5, <1>7, <2>1, <2>2, KeepPage
<1>8. ASSUME EndHiding PROVE ExecTypes' /\ PlaceInv' /\ GoneInv'
  BY <1>1, <1>4, <1>8, LostEndStep
<1>9. \/ ~ToAbort(i) /\ Continue
      \/ EndHiding
      \/ Continue /\ objects' = objects \ {i}
      \/ Continue /\ troubles' # 0
  BY <1>4 DEF Abort, rest
<1>10. ExecTypes' /\ PlaceInv' /\ GoneInv'
  BY <1>7, <1>8, <1>9
<1> QED
  BY <1>3, <1>4, <1>10 DEF IInv, Types

LEMMA EndUploadsPageStep ==
  ASSUME IInv, EndUploadsPage
  PROVE  IInv'
<1>1. /\ pc = "abort" /\ uploads /\ status = "running" /\ num' \in Nat
      /\ listing.keys = {}
      /\ UNCHANGED <<objects, num, refused, troubles, old, arg, recursive, uploads, bucket, changes>>
  BY DEF EndUploadsPage, world, command, others, IInv, Types, ExecTypes, PlaceInv
<1>2. WorldTypes'
  BY <1>1 DEF IInv, Types, WorldTypes
<1>3. CountTypes' /\ Shrinks
  BY <1>1, QuietCounts DEF Shrinks, IInv, Types
<1>4. ~hidden /\ troubles' = 0 => Still(key) \subseteq BehindPage
  BY <1>1, <1>3, StillLeft DEF IInv, GoneInv
<1>5. CASE listing.truncated
  <2>1. pc' = "listUploads" /\ UNCHANGED <<key, listing, status, hidden>>
    BY <1>5 DEF EndUploadsPage
  <2>2. ExecTypes' /\ PlaceInv' /\ GoneInv'
    BY <1>1, <1>3, <1>4, <2>1, GoOnStep DEF BehindPage
  <2> QED
    BY <1>2, <1>3, <2>2 DEF IInv, Types
<1>6. CASE ~listing.truncated
  <2>1. End(FALSE)
    BY <1>6 DEF EndUploadsPage
  <2>2. ~hidden /\ troubles' = 0 => Still(key) = {}
    BY <1>4, <1>6 DEF BehindPage
  <2>3. ExecTypes' /\ PlaceInv' /\ GoneInv'
    BY <1>1, <1>3, <2>1, <2>2, EndStep
  <2> QED
    BY <1>2, <1>3, <2>3 DEF IInv, Types
<1> QED
  BY <1>5, <1>6

(* What others put is not old, and what they take away is gone.            *)
LEMMA OtherStep ==
  ASSUME IInv, Other
  PROVE  IInv'
<1>1. PICK i \in Ids : Put(i) \/ TakeAway(i)
  BY DEF Other
<1>2. /\ UNCHANGED <<bucket, uploads, recursive, arg, key, pc, listing, status, hidden>>
      /\ UNCHANGED <<num, refused, troubles>>
      /\ objects' \subseteq Ids /\ old' \subseteq Ids
      /\ objects' \cap old' \subseteq objects \cap old
      /\ changes' = changes + 1 /\ Bounded
  BY <1>1 DEF Other, Put, TakeAway, command, exec, IInv, Types, WorldTypes
<1>3. WorldTypes'
  BY <1>2 DEF IInv, Types, WorldTypes
<1>4. CountTypes'
  BY <1>2, CommandAssumption DEF Bounded, IInv, Types, CountTypes
<1>5. ExecTypes'
  BY <1>2 DEF IInv, Types, ExecTypes, IsListing
<1>6. PlaceInv'
  <2>1. \A j : InWalk(j)' = InWalk(j)
    BY <1>2 DEF InWalk, Start
  <2>2. IsWildcard(key)' = IsWildcard(key)
    BY <1>2 DEF IsWildcard, EndsWith
  <2> QED
    BY <1>2, <2>1, <2>2 DEF IInv, PlaceInv
<1>7. GoneInv'
  <2>1. \A k : Still(k) \subseteq Left(k)
    BY <1>2 DEF Still, Left
  <2>2. Left(key)' = Still(key) /\ Left(arg)' = Still(arg)
    BY <1>2, StillMeans
  <2>3. BehindPage' = BehindPage
    BY <1>2 DEF BehindPage
  <2> QED
    BY <1>2, <2>1, <2>2, <2>3 DEF IInv, GoneInv
<1> QED
  BY <1>3, <1>4, <1>5, <1>6, <1>7 DEF IInv, Types

LEMMA IdleStep ==
  ASSUME IInv, UNCHANGED vars
  PROVE  IInv'
<1>1. /\ UNCHANGED <<objects, bucket, uploads, recursive, arg, old, changes, key, pc>>
      /\ UNCHANGED <<listing, status, hidden, num, refused, troubles>>
  BY DEF vars, world, exec, command, others
<1>2. Types'
  BY <1>1 DEF IInv, Types, WorldTypes, CountTypes, ExecTypes, IsListing
<1>3. PlaceInv'
  <2>1. \A j : InWalk(j)' = InWalk(j)
    BY <1>1 DEF InWalk, Start
  <2>2. IsWildcard(key)' = IsWildcard(key)
    BY <1>1 DEF IsWildcard, EndsWith
  <2> QED
    BY <1>1, <2>1, <2>2 DEF IInv, PlaceInv
<1>4. GoneInv'
  <2>1. Left(key)' = Left(key) /\ Left(arg)' = Left(arg)
    BY <1>1, StillMeans DEF Still, Left
  <2>2. BehindPage' = BehindPage
    BY <1>1 DEF BehindPage
  <2> QED
    BY <1>1, <2>1, <2>2 DEF IInv, GoneInv
<1> QED
  BY <1>2, <1>3, <1>4 DEF IInv

LEMMA InitInv ==
  ASSUME Init
  PROVE  IInv
<1>1. /\ objects \subseteq Ids /\ old = objects /\ refused = {} /\ bucket = TRUE
      /\ uploads \in BOOLEAN /\ recursive \in BOOLEAN
      /\ arg \in Args /\ key = arg /\ listing = NoListing /\ status = "running"
      /\ hidden = FALSE /\ troubles = 0 /\ changes = 0 /\ num = 0
      /\ pc = IF uploads THEN "listUploads" ELSE FirstCall(arg, recursive)
  BY DEF Init, InitCommand
<1>2. arg \in Keys
  BY <1>1, CommandAssumption DEF Keys
<1>3. Types
  <2>1. WorldTypes
    BY <1>1, <1>2 DEF WorldTypes
  <2>2. CountTypes
    BY <1>1, CommandAssumption DEF CountTypes
  <2>3. pc \in {"list", "deleteOne", "dropBucket", "listUploads"}
    BY <1>1 DEF FirstCall
  <2>4. IsListing(listing)
    BY <1>1, NoListingMeans
  <2>5. ExecTypes
    BY <1>1, <1>2, <2>3, <2>4 DEF ExecTypes
  <2> QED
    BY <2>1, <2>2, <2>5 DEF Types
<1>4. PlaceInv
  BY <1>1, NoListingMeans DEF PlaceInv, FirstCall
<1>5. GoneInv
  <2>1. \A i \in Left(key) : i > listing.next
    BY <1>1, IdsAreNumbers, NoListingMeans DEF Left
  <2> QED
    BY <1>1, <2>1 DEF GoneInv, FirstCall
<1> QED
  BY <1>3, <1>4, <1>5 DEF IInv

LEMMA RemoveNext ==
  ASSUME IInv, [Next]_vars
  PROVE  IInv'
BY ListStep, DeleteStep, DeleteOneStep, DropBucketStep, ListUploadsStep, AbortStep,
   EndUploadsPageStep, OtherStep, IdleStep
   DEF Next, Step, Done

-----------------------------------------------------------------------------
(***************************************************************************)
(* Every variable has its type, and a page its fields.                     *)
(***************************************************************************)
THEOREM TypeCorrect == Spec => []TypeOK
<1>1. IInv => TypeOK
  BY DEF IInv, Types, WorldTypes, CountTypes, ExecTypes, IsListing, Keys, TypeOK, CommandTypeOK
<1> QED
  BY <1>1, InitInv, RemoveNext, PTL DEF Spec

(***************************************************************************)
(* After an honest success nothing is left of what the argument named all  *)
(* along.                                                                  *)
(***************************************************************************)
THEOREM NamedIsGone == Spec => []NamedGone
<1>1. IInv => NamedGone
  <2> SUFFICES ASSUME IInv, status = "ok", ~hidden, troubles = 0
               PROVE  /\ \A i \in objects \cap old :
                           Asked(i, arg) \/ Asked(i, key) => i \in refused
                      /\ bucket /\ ~uploads => key # <<>>
    BY DEF NamedGone
  <2>1. Left(key) = {} /\ (key # arg => Left(arg) = {})
    BY DEF IInv, GoneInv
  <2>2. ~uploads /\ key = <<>> => ~bucket
    BY DEF IInv, GoneInv
  <2>3. Left(arg) = {}
    BY <2>1
  <2> QED
    BY <2>1, <2>2, <2>3 DEF Left
<1> QED
  BY <1>1, InitInv, RemoveNext, PTL DEF Spec

LEMMA StepsDeleteNamed ==
  ASSUME IInv, Step
  PROVE  /\ \A i \in objects \ objects' : Asked(i, key)
         /\ bucket' # bucket => key = <<>>
<1>1. CASE List \/ ListUploads \/ EndUploadsPage
  BY <1>1 DEF List, ListUploads, EndUploadsPage, world
<1>2. CASE Delete
  <2>1. pc = "delete" /\ bucket' = bucket
    BY <1>2 DEF Delete, world
  <2>2. objects \ objects' \subseteq ToDelete
    BY <1>2 DEF Delete
  <2> QED
    BY <2>1, <2>2, ToDeleteMeans
<1>3. CASE DeleteOne
  <2>1. /\ bucket' = bucket /\ ~IsWildcard(key)
        /\ objects' \in {objects, {i \in objects : Names[i] # key}}
    BY <1>3 DEF DeleteOne, world, IInv, PlaceInv
  <2> QED
    BY <2>1 DEF Asked
<1>4. CASE DropBucket
  BY <1>4 DEF DropBucket, IInv, PlaceInv
<1>5. CASE \E i \in Ids : Abort(i)
  <2>1. PICK i \in Ids : Abort(i)
    BY <1>5
  <2>2. /\ bucket' = bucket /\ pc = "abort" /\ uploads /\ InWalk(i)
        /\ objects' \in {objects, objects \ {i}}
        /\ objects' # objects => ToAbort(i)
    BY <2>1 DEF Abort, FirstOf, world, IInv, PlaceInv
  <2>3. Asked(i, key) <=> ToAbort(i)
    BY <2>2, AskedMeans DEF IsRemoved, ToAbort, IInv, Types, WorldTypes, ExecTypes
  <2> QED
    BY <2>2, <2>3
<1> QED
  BY <1>1, <1>2, <1>3, <1>4, <1>5 DEF Step

(***************************************************************************)
(* No step of the command deletes anything but what its argument, or what  *)
(* is left of it, names.                                                   *)
(***************************************************************************)
THEOREM DeletesOnlyNamed == Spec => OnlyNamed
<1>1. IInv /\ [Next]_vars =>
        [Step => /\ \A i \in objects \ objects' :
                      Asked(i, arg) \/ (key # arg /\ Asked(i, key))
                 /\ bucket' # bucket => key = <<>>]_vars
  BY StepsDeleteNamed
<1> QED
  BY <1>1, InitInv, RemoveNext, PTL DEF Spec, OnlyNamed
-----------------------------------------------------------------------------
(***************************************************************************)
(* How near the command is to its end: first by the changes and responses  *)
(* that can still disturb it, then by the key, which the fallback shortens,*)
(* then by how far it has walked, then by what is left of the page.        *)
(***************************************************************************)
EventsLeft == MaxEvents - changes - troubles

WalkEnd == 2 * Len(Names) + 4

WalkPlace(p, truncated, next) ==
  CASE p = "deleteOne" -> 0
    [] p \in {"list", "listUploads"} -> 2 * next + 1
    [] p \in {"delete", "abort"} -> IF truncated THEN 2 * next ELSE WalkEnd - 2
    [] p = "dropBucket" -> WalkEnd - 1
    [] p = "done" -> WalkEnd

Walked == WalkPlace(pc, listing.truncated, listing.next)

Further ==
  \/ Len(key') < Len(key)
  \/ Len(key') = Len(key) /\ Walked' > Walked
  \/ /\ Len(key') = Len(key) /\ Walked' = Walked
     /\ listing'.keys \subseteq listing.keys /\ listing'.keys # listing.keys

Nearer == EventsLeft' < EventsLeft \/ (EventsLeft' = EventsLeft /\ Further)

LEMMA WalkPlaces ==
  ASSUME NEW m, NEW t, NEW n
  PROVE  /\ m = "deleteOne" => WalkPlace(m, t, n) = 0
         /\ m \in {"list", "listUploads"} => WalkPlace(m, t, n) = 2 * n + 1
         /\ m \in {"delete", "abort"} =>
              WalkPlace(m, t, n) = IF t THEN 2 * n ELSE WalkEnd - 2
         /\ m = "dropBucket" => WalkPlace(m, t, n) = WalkEnd - 1
         /\ m = "done" => WalkPlace(m, t, n) = WalkEnd
BY DEF WalkPlace

(* The numbers a command is measured by.                                   *)
LEMMA Measures ==
  ASSUME IInv
  PROVE  /\ Len(key) \in Nat /\ EventsLeft \in Nat /\ MaxEvents \in Nat
         /\ changes \in Nat /\ troubles \in Nat
         /\ listing.next \in Nat /\ listing.next <= Len(Names) /\ Len(Names) \in Nat
         /\ Walked \in 0 .. WalkEnd
         /\ pc # "done" => Walked < WalkEnd
         /\ pc \notin {"done", "dropBucket"} => Walked < WalkEnd - 1
<1>1. /\ listing.next \in Nat /\ listing.next <= Len(Names) /\ Len(Names) \in Nat
      /\ listing.truncated \in BOOLEAN
  BY IdsAreNumbers DEF IInv, Types, ExecTypes, IsListing
<1>2. /\ Len(key) \in Nat /\ EventsLeft \in Nat /\ MaxEvents \in Nat
      /\ changes \in Nat /\ troubles \in Nat
  BY CommandAssumption, LenProperties
     DEF IInv, Types, CountTypes, ExecTypes, EventsLeft, Keys
<1>3. Walked \in {0, 2 * listing.next + 1, 2 * listing.next, WalkEnd - 2}
        \/ (pc = "dropBucket" /\ Walked = WalkEnd - 1)
        \/ (pc = "done" /\ Walked = WalkEnd)
  BY WalkPlaces DEF Walked, IInv, Types, ExecTypes
<1> QED
  BY <1>1, <1>2, <1>3 DEF WalkEnd

(* A page that is not the last one ends behind the marker it began at.     *)
LEMMA PageAdvances ==
  ASSUME IInv, pc \in {"list", "listUploads"}, Page.truncated
  PROVE  Page.next > listing.next
<1> DEFINE delimiter == ~uploads /\ ~recursive
           behind == Behind(objects, Start, listing.next)
<1>1. /\ objects \in SUBSET Ids /\ key \in Keys /\ listing.next \in Nat
      /\ uploads \in BOOLEAN /\ recursive \in BOOLEAN
  BY Measures DEF IInv, Types, WorldTypes, ExecTypes
<1>2. Start \in Seq(Tokens)
  BY <1>1, TrimRightIsKey, KeysAreTokens DEF Start
<1>3. Page = ListPage(objects, Start, delimiter, listing.next, PageSize)
  <2>1. CASE uploads
    <3>1. delimiter = FALSE /\ Start = key
      BY <2>1 DEF Start
    <3> QED
      BY <2>1, <3>1 DEF Page
  <2>2. CASE ~uploads
    <3>1. delimiter = ~recursive /\ Start = TrimRight(key, "*")
      BY <1>1, <2>2 DEF Start
    <3> QED
      BY <2>2, <3>1 DEF Page
  <2> QED BY <2>1, <2>2
<1>4. delimiter \in BOOLEAN /\ PageSize \in Nat \ {0}
  BY CommandAssumption
<1>5. \A j \in behind : j \in Ids /\ j > listing.next
  BY <1>1 DEF Behind
<1> HIDE DEF delimiter, behind
<1>6. IsPageFor(Page, behind, Start, delimiter)
  BY <1>1, <1>2, <1>3, <1>4, PageCovers DEF behind
<1>7. PICK j \in behind : Covers(Page, j)
  <2>1. CASE Page.next \in Page.keys
    BY <1>6, <2>1 DEF IsPageFor, Covers
  <2>2. CASE Page.next \notin Page.keys
    <3>1. PICK d \in Page.dirs : HasPrefix(Names[Page.next], d)
      BY <1>6, <2>2 DEF IsPageFor, Covers
    <3>2. PICK j \in behind : SlashesBehind(Names[j], Start) # {} /\ d = DirOf(j, Start)
      BY <1>6 DEF IsPageFor
    <3>3. HasPrefix(Names[j], d)
      BY <1>2, <1>5, <3>2, DirMeans
    <3> QED
      BY <3>3 DEF Covers
  <2> QED BY <2>1, <2>2
<1>8. j \in Ids /\ j > listing.next /\ j <= Page.next /\ Page.next \in Ids
  BY <1>5, <1>6, <1>7 DEF IsPageFor
<1> QED
  BY <1>1, <1>8, IdsAreNumbers

(* The ways a walk ends.                                                   *)
LEMMA LeaveFurther ==
  ASSUME IInv, pc \notin {"done", "dropBucket"}, NEW n, NEW err, Leave(n, err)
  PROVE  Further
<1>1. CASE FallsBack(n)
  <2>1. key' = TrimLeft(key, "/") /\ StartsWith(key, "/") /\ key \in Keys
    BY <1>1 DEF Leave, FallsBack, IInv, Types, ExecTypes
  <2>2. PICK m \in 1 .. Len(key) + 1 :
          /\ key' = SubSeq(key, m, Len(key))
          /\ m <= Len(key) => key[m] # "/"
    BY <2>1, TrimLeftMeans DEF Keys
  <2>3. key # <<>> /\ key[1] = "/" /\ Len(key) \in Nat /\ key \in Seq(STRING)
    BY <2>1, Measures DEF StartsWith, Keys
  <2>4. Len(key) > 0
    BY <2>3, EmptySeq
  <2>5. m > 1
    BY <2>2, <2>3, <2>4
  <2>6. Len(key') = IF m <= Len(key) THEN Len(key) - m + 1 ELSE 0
    BY <2>2, <2>3, <2>5, SubSeqProperties
  <2> QED
    BY <2>2, <2>3, <2>4, <2>5, <2>6 DEF Further
<1>2. CASE ~FallsBack(n)
  <2>1. pc' = "done" /\ key' = key
    BY <1>2 DEF Leave, End
  <2>2. Walked' = WalkEnd /\ Walked < WalkEnd /\ Len(key') = Len(key)
    BY <2>1, WalkPlaces, Measures DEF Walked
  <2>3. Walked' > Walked
    BY <2>2, Measures DEF WalkEnd
  <2> QED
    BY <2>2, <2>3 DEF Further
<1> QED
  BY <1>1, <1>2

LEMMA EndFurther ==
  ASSUME IInv, pc # "done", pc' = "done", key' = key
  PROVE  Further
<1>1. Walked' = WalkEnd /\ Walked < WalkEnd
  BY WalkPlaces, Measures DEF Walked
<1>2. Walked' > Walked
  BY <1>1, Measures DEF WalkEnd
<1> QED
  BY <1>2 DEF Further

LEMMA EndWalkFurther ==
  ASSUME IInv, pc \notin {"done", "dropBucket"}, NEW n, EndWalk(n)
  PROVE  Further
<1>1. CASE key = <<>>
  <2>1. pc' = "dropBucket" /\ key' = key
    BY <1>1 DEF EndWalk
  <2>2. Walked' = WalkEnd - 1 /\ Walked < WalkEnd - 1
    BY <2>1, WalkPlaces, Measures DEF Walked
  <2>3. Walked' > Walked
    BY <2>2, Measures DEF WalkEnd
  <2> QED
    BY <2>1, <2>3 DEF Further
<1>2. CASE key # <<>>
  BY <1>2, LeaveFurther DEF EndWalk
<1> QED
  BY <1>1, <1>2

(* What others do, and responses that cannot be decoded, use up events.    *)
LEMMA EventsCount ==
  ASSUME IInv
  PROVE  /\ UNCHANGED changes /\ Trouble => EventsLeft' < EventsLeft
         /\ UNCHANGED troubles /\ changes' = changes + 1 => EventsLeft' < EventsLeft
         /\ UNCHANGED <<changes, troubles>> => EventsLeft' = EventsLeft
BY Measures DEF EventsLeft, Trouble

(* From one page to the next.                                              *)
LEMMA PageFurther ==
  ASSUME IInv, pc \in {"list", "listUploads"}, pc' \in {"delete", "abort"},
         listing' = Page, key' = key
  PROVE  Further
<1>1. Walked = 2 * listing.next + 1
  BY WalkPlaces DEF Walked
<1>2. Walked' = IF Page.truncated THEN 2 * Page.next ELSE WalkEnd - 2
  BY WalkPlaces DEF Walked
<1>3. Page.next \in Nat /\ (Page.truncated => Page.next > listing.next)
  BY PageAdvances, PageMeans, IdsAreNumbers DEF IsListing
<1>4. listing.next \in Nat /\ listing.next <= Len(Names) /\ Len(Names) \in Nat
  BY Measures
<1>5. Page.truncated => Walked' > Walked
  BY <1>1, <1>2, <1>3, <1>4
<1>6. ~Page.truncated => Walked' > Walked
  BY <1>1, <1>2, <1>4 DEF WalkEnd
<1> QED
  BY <1>5, <1>6 DEF Further

LEMMA NextPageFurther ==
  ASSUME IInv, pc \in {"delete", "abort"}, pc' \in {"list", "listUploads"},
         listing.truncated, UNCHANGED <<listing, key>>
  PROVE  Further
<1>1. Walked = 2 * listing.next /\ Walked' = 2 * listing.next + 1
  BY WalkPlaces DEF Walked
<1> QED
  BY <1>1, Measures DEF Further

LEMMA StepNearer ==
  ASSUME IInv, Step
  PROVE  Nearer
<1>t. ASSUME UNCHANGED changes, Trouble PROVE Nearer
  BY <1>t, EventsCount DEF Nearer
<1>f. ASSUME UNCHANGED <<changes, troubles>>, Further PROVE Nearer
  BY <1>f, EventsCount DEF Nearer
<1>1. CASE List
  <2>1. pc = "list" /\ UNCHANGED changes
    BY <1>1 DEF List, world, others
  <2>2. ASSUME Show(Page) PROVE Further
    <3>1. CASE EndsAt(Page)
      BY <2>1, <2>2, <3>1, EndWalkFurther DEF Show
    <3>2. CASE ~EndsAt(Page)
      BY <2>1, <2>2, <3>2, PageFurther DEF Show
    <3> QED BY <3>1, <3>2
  <2>3. \/ Leave(num, TRUE) /\ UNCHANGED troubles
        \/ Show(Page) /\ UNCHANGED troubles
        \/ Trouble
    BY <1>1 DEF List
  <2> QED
    BY <1>t, <1>f, <2>1, <2>2, <2>3, LeaveFurther
<1>2. CASE Delete
  <2>1. pc = "delete" /\ UNCHANGED changes
    BY <1>2 DEF Delete, world, others
  <2>2. \/ Trouble
        \/ Leave(num, TRUE) /\ UNCHANGED troubles
        \/ /\ UNCHANGED <<troubles, listing, key>> /\ listing.truncated
           /\ pc' = "list"
        \/ UNCHANGED troubles /\ \E n : EndWalk(n)
    BY <1>2 DEF Delete
  <2> QED
    BY <1>t, <1>f, <2>1, <2>2, LeaveFurther, NextPageFurther, EndWalkFurther
<1>3. CASE DeleteOne
  <2>1. pc = "deleteOne" /\ UNCHANGED changes
    BY <1>3 DEF DeleteOne, world, others
  <2>2. Trouble \/ (UNCHANGED troubles /\ \E n, err : Leave(n, err))
    BY <1>3 DEF DeleteOne
  <2> QED
    BY <1>t, <1>f, <2>1, <2>2, LeaveFurther
<1>4. CASE DropBucket
  <2>1. pc = "dropBucket" /\ UNCHANGED changes
    BY <1>4 DEF DropBucket, others
  <2>2. Trouble \/ (UNCHANGED <<troubles, key>> /\ pc' = "done")
    BY <1>4 DEF DropBucket, End
  <2> QED
    BY <1>t, <1>f, <2>1, <2>2, EndFurther
<1>5. CASE ListUploads
  <2>1. pc = "listUploads" /\ UNCHANGED changes
    BY <1>5 DEF ListUploads, world, others
  <2>2. \/ Trouble
        \/ UNCHANGED <<troubles, key>> /\ pc' = "done"
        \/ /\ UNCHANGED <<troubles, key>> /\ listing' = Page
           /\ pc' = "abort"
    BY <1>5 DEF ListUploads, ShowUploads, End, EndHiding, Panic
  <2> QED
    BY <1>t, <1>f, <2>1, <2>2, EndFurther, PageFurther
<1>6. CASE EndUploadsPage
  <2>1. pc = "abort" /\ UNCHANGED <<changes, troubles, key>>
    BY <1>6 DEF EndUploadsPage, End, world, others
  <2>2. \/ pc' = "done"
        \/ /\ UNCHANGED listing /\ listing.truncated
           /\ pc' = "listUploads"
    BY <1>6 DEF EndUploadsPage, End
  <2> QED
    BY <1>f, <2>1, <2>2, EndFurther, NextPageFurther
<1>7. ASSUME NEW i \in Ids, Abort(i) PROVE Nearer
  <2>1. pc = "abort" /\ UNCHANGED changes /\ i \in listing.keys
    BY <1>7 DEF Abort, FirstOf, world, others
  <2>2. \/ Trouble
        \/ UNCHANGED <<troubles, key>> /\ pc' = "done"
        \/ /\ UNCHANGED <<troubles, key, pc>>
           /\ listing' = [listing EXCEPT !.keys = @ \ {i}]
    BY <1>7 DEF Abort, EndHiding
  <2>3. ASSUME UNCHANGED <<key, pc>>, listing' = [listing EXCEPT !.keys = @ \ {i}]
        PROVE  Further
    <3>1. /\ listing'.keys = listing.keys \ {i}
          /\ listing'.truncated = listing.truncated /\ listing'.next = listing.next
      BY <2>3 DEF IInv, Types, ExecTypes, IsListing
    <3>2. Walked' = Walked
      BY <2>3, <3>1 DEF Walked
    <3> QED
      BY <2>1, <2>3, <3>1, <3>2 DEF Further
  <2> QED
    BY <1>t, <1>f, <2>1, <2>2, <2>3, EndFurther
<1> QED
  BY <1>1, <1>2, <1>3, <1>4, <1>5, <1>6, <1>7 DEF Step

LEMMA NextNearer == IInv /\ [Next]_vars => [Nearer]_vars
<1> SUFFICES ASSUME IInv, Next PROVE Nearer \/ UNCHANGED vars
  OBVIOUS
<1>1. CASE Other
  <2>1. UNCHANGED troubles /\ changes' = changes + 1
    BY <1>1 DEF Other, Put, TakeAway
  <2> QED
    BY <2>1, EventsCount DEF Nearer
<1> QED
  BY <1>1, StepNearer DEF Next, Done

(***************************************************************************)
(* Every step brings the command nearer to its end, over pages, fallbacks  *)
(* and whatever others do meanwhile: no page is listed twice, except after *)
(* a response that could not be decoded, and no key is tried twice.  Until *)
(* the end there is a step to take; where the uploads of a page are        *)
(* aborted it is that of the first one left.  Of Ends this leaves that the *)
(* steps are taken.                                                        *)
(***************************************************************************)
THEOREM ComesNearer ==
  Spec => /\ [](/\ EventsLeft \in 0 .. MaxEvents /\ Walked \in 0 .. WalkEnd
                /\ pc = "abort" /\ listing.keys # {} => FirstOf(listing.keys, 1) # {})
          /\ [][Nearer]_vars
<1>1. IInv => /\ EventsLeft \in 0 .. MaxEvents /\ Walked \in 0 .. WalkEnd
              /\ pc = "abort" /\ listing.keys # {} => FirstOf(listing.keys, 1) # {}
  <2> SUFFICES ASSUME IInv
               PROVE  /\ EventsLeft \in 0 .. MaxEvents /\ Walked \in 0 .. WalkEnd
                      /\ listing.keys # {} => FirstOf(listing.keys, 1) # {}
    OBVIOUS
  <2>1. EventsLeft <= MaxEvents
    BY Measures DEF EventsLeft
  <2>2. listing.keys \in SUBSET Ids
    BY DEF IInv, Types, ExecTypes, IsListing
  <2> QED
    BY <2>1, <2>2, Measures, FirstOfSome
<1> QED
  BY <1>1, InitInv, RemoveNext, NextNearer, PTL DEF Spec
=============================================================================
