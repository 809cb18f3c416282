----------------------------- MODULE GetProofs -----------------------------
(***************************************************************************)
(* Theorems about Get, for every list of names, every argument, every page *)
(* size and any number of changes by others.                               *)
(***************************************************************************)
EXTENDS Get, ListingProofs

WorldTypes ==
  /\ objects \subseteq Ids /\ old \subseteq Ids /\ Distinct(objects)
  /\ recursive \in BOOLEAN /\ cat \in BOOLEAN
  /\ arg \in Keys
CountTypes ==
  troubles \in Nat /\ changes \in Nat /\ troubles + changes <= MaxEvents
ExecTypes ==
  /\ key \in Keys
  /\ pc \in {"exec", "get", "list", "copy", "done"}
  /\ status \in {"running", "ok", "error", "panic"}
  /\ pc = "done" <=> status # "running"
  /\ hidden \in BOOLEAN
  /\ IsListing(listing)
LoopTypes == left \subseteq Ids /\ failed \in BOOLEAN
DiskTypes ==
  /\ files \in [Ids -> Contents]
  /\ made \subseteq Ids /\ said \subseteq Ids
Types == WorldTypes /\ CountTypes /\ ExecTypes /\ LoopTypes /\ DiskTypes

(* Where the command is tells what its key is, and what is on its page.    *)
PlaceInv ==
  /\ recursive => ~cat /\ key = arg
  /\ pc = "exec" => listing = NoListing
  /\ pc = "get" => ~recursive
  /\ pc \in {"list", "copy"} => recursive
  /\ ~recursive => left = {}
  /\ \A i \in left : HasPrefix(Names[i], key)

(* The objects that the argument names all along and of whose files        *)
(* nothing is known; and those that come with the next pages.              *)
Told(i) == i \in said \/ files[i] \in {"whole", "mixed"}
Missing == {i \in objects \cap old : Asked(i) /\ ~EndsWith(Name(i), "/") /\ ~Told(i)}
BehindPage == {i \in Ids : listing.truncated /\ i > listing.next}

GotInv ==
  ~hidden /\ troubles = 0 /\ key # <<>> =>
    /\ status = "ok" => Missing = {}
    /\ pc = "list" => \A i \in Missing : i > listing.next
    /\ pc = "copy" => Missing \subseteq left \cup BehindPage

IInv == Types /\ PlaceInv /\ GotInv

(***************************************************************************)
(* What get -r is asked for passes its filter, and what passes was asked   *)
(* for.                                                                    *)
(***************************************************************************)
LEMMA FilterMeans ==
  ASSUME NEW i \in Ids, key \in Keys, recursive, key = arg, HasPrefix(Names[i], key)
  PROVE  /\ Passes(i) => Asked(i)
         /\ Asked(i) /\ key # <<>> => Passes(i)
<1> DEFINE n == Names[i]
<1>1. n \in Keys
  BY NamesAreKeys
<1>2. CASE key = <<>> \/ EndsWith(key, "/")
  BY <1>2 DEF Passes, Asked, Below
<1>3. CASE key # <<>> /\ ~EndsWith(key, "/")
  <2>1. HasPrefix(n, Append(key, "/")) <=>
          HasPrefix(n, key) /\ StartsWith(SubSeq(n, Len(key) + 1, Len(n)), "/")
    BY <1>1, DirectoryMeans
  <2> QED
    BY <1>3, <2>1 DEF Passes, Asked, Below
<1> QED
  BY <1>2, <1>3

LEMMA AskedHasPrefix ==
  ASSUME NEW i \in Ids, key \in Keys, recursive, key = arg, Asked(i)
  PROVE  HasPrefix(Names[i], key)
BY NamesAreKeys, PrefixOfItself DEF Asked, Below

(* A file that is written on is not less.                                  *)
LEMMA OverMeans ==
  ASSUME NEW c \in Contents, NEW new \in {"part", "whole"}
  PROVE  /\ Over(c, new) \in Contents
         /\ Over(c, "whole") \in {"whole", "mixed"}
BY DEF Over, Contents

-----------------------------------------------------------------------------
(* What most steps leave alone.                                            *)
Frame == UNCHANGED <<objects, old, changes, recursive, arg, cat>>

LEMMA FrameKeeps ==
  ASSUME WorldTypes, Frame
  PROVE  WorldTypes'
BY DEF WorldTypes, Frame, Distinct

LEMMA Counts ==
  ASSUME CountTypes, UNCHANGED changes, UNCHANGED troubles \/ Trouble
  PROVE  CountTypes' /\ (Trouble => troubles' # 0) /\ (troubles' = 0 => troubles = 0)
BY CommandAssumption DEF CountTypes, Trouble, Bounded

LEMMA MissingShrinks ==
  ASSUME objects' \cap old' \subseteq objects \cap old, UNCHANGED <<key, arg, recursive>>,
         \A i \in objects \cap old : Told(i) => Told(i)'
  PROVE  Missing' \subseteq Missing
<1>1. \A i : Asked(i)' = Asked(i) /\ Name(i)' = Name(i)
  BY DEF Asked, Name, Below
<1>2. \A i : EndsWith(Name(i), "/")' = EndsWith(Name(i), "/")
  BY <1>1 DEF EndsWith
<1> QED
  BY <1>1, <1>2 DEF Missing

LEMMA EndStep ==
  ASSUME IInv, Frame, NEW err \in BOOLEAN, End(err), CountTypes', DiskTypes',
         UNCHANGED <<left, failed>>,
         ~err /\ ~hidden /\ troubles' = 0 /\ key # <<>> => Missing' = {}
  PROVE  IInv'
<1>1. /\ pc' = "done" /\ status' \in {"ok", "error"}
      /\ status' = "ok" => ~err
      /\ listing' = NoListing /\ key' = key /\ hidden' = hidden
  BY DEF End
<1>2. ExecTypes'
  <2>1. IsListing(listing')
    BY <1>1, NoListingMeans
  <2>2. IsListing(listing)'
    BY <2>1 DEF IsListing
  <2> QED
    BY <1>1, <2>2 DEF IInv, Types, ExecTypes
<1>3. LoopTypes' /\ PlaceInv'
  BY <1>1 DEF IInv, Types, LoopTypes, PlaceInv, Frame
<1>4. GotInv'
  BY <1>1 DEF GotInv
<1> QED
  BY <1>2, <1>3, <1>4, FrameKeeps DEF IInv, Types

LEMMA FailStep ==
  ASSUME IInv, Frame, Fail, status = "running", CountTypes', DiskTypes',
         UNCHANGED <<left, failed>>
  PROVE  IInv'
<1>1. CASE ~StartsWith(key, "/")
  BY <1>1, EndStep DEF Fail
<1>2. CASE StartsWith(key, "/")
  <2>1. /\ key' = Again /\ pc' = "exec" /\ listing' = NoListing
        /\ UNCHANGED <<status, hidden>>
    BY <1>2 DEF Fail
  <2>2. key' \in Keys /\ (~cat => key' = key)
    BY <2>1, TrimLeftIsKey DEF Again, IInv, Types, ExecTypes
  <2>3. ExecTypes'
    <3>1. IsListing(listing')
      BY <2>1, NoListingMeans
    <3>2. IsListing(listing)'
      BY <3>1 DEF IsListing
    <3> QED
      BY <2>1, <2>2, <3>2 DEF IInv, Types, ExecTypes
  <2>4. LoopTypes' /\ PlaceInv'
    BY <2>1, <2>2 DEF IInv, Types, LoopTypes, PlaceInv, Frame
  <2>5. GotInv'
    BY <2>1 DEF GotInv
  <2> QED
    BY <2>3, <2>4, <2>5, FrameKeeps DEF IInv, Types
<1> QED
  BY <1>1, <1>2

-----------------------------------------------------------------------------
(* The actions.                                                            *)

LEMMA ExecStep ==
  ASSUME IInv, Exec
  PROVE  IInv'
<1>1. /\ pc = "exec" /\ status = "running" /\ Frame
      /\ UNCHANGED <<troubles, left, failed, files, made, said>>
  BY DEF Exec, command, others, disk, Frame, IInv, Types, ExecTypes
<1>2. CountTypes' /\ DiskTypes'
  BY <1>1 DEF IInv, Types, CountTypes, DiskTypes, Frame
<1>3. CASE End(TRUE)
  BY <1>1, <1>2, <1>3, EndStep
<1>4. CASE /\ pc' = (IF recursive THEN "list" ELSE "get")
           /\ UNCHANGED <<key, listing, status, hidden>>
  <2>1. pc' \in {"list", "get"} /\ (pc' = "list" <=> recursive)
    BY <1>4
  <2>2. ExecTypes' /\ LoopTypes'
    BY <1>1, <1>4, <2>1 DEF IInv, Types, ExecTypes, LoopTypes, IsListing
  <2>3. PlaceInv'
    BY <1>1, <1>4, <2>1 DEF IInv, PlaceInv, Frame
  <2>4. GotInv'
    <3>1. \A i \in Missing' : i \in Ids
      BY <1>1 DEF Missing, Frame, IInv, Types, WorldTypes
    <3>2. listing'.next = 0
      BY <1>1, <1>4, NoListingMeans DEF IInv, PlaceInv
    <3>3. \A i \in Missing' : i > listing'.next
      BY <3>1, <3>2, IdsAreNumbers
    <3>4. status' = "running"
      BY <1>1, <1>4
    <3> QED
      BY <2>1, <3>3, <3>4 DEF GotInv
  <2> QED
    BY <1>1, <1>2, <2>2, <2>3, <2>4, FrameKeeps DEF IInv, Types
<1> QED
  BY <1>3, <1>4 DEF Exec

LEMMA GetObjectStep ==
  ASSUME IInv, GetObject
  PROVE  IInv'
<1>1. /\ pc = "get" /\ status = "running" /\ Frame /\ ~recursive
      /\ UNCHANGED <<troubles, left, failed, made, said>>
  BY DEF GetObject, command, others, Frame, IInv, Types, ExecTypes, PlaceInv
<1>2. CountTypes'
  BY <1>1 DEF IInv, Types, CountTypes, Frame
<1>3. UNCHANGED files => DiskTypes'
  BY <1>1 DEF IInv, Types, DiskTypes
<1>4. ASSUME NEW i \in Ids, NEW new \in {"part", "whole"},
             files' = [files EXCEPT ![i] = Over(@, new)]
      PROVE  DiskTypes' /\ (new = "whole" => files'[i] \in {"whole", "mixed"})
  <2>1. files[i] \in Contents
    BY DEF IInv, Types, DiskTypes
  <2>2. Over(files[i], new) \in Contents /\ Over(files[i], "whole") \in {"whole", "mixed"}
    BY <2>1, OverMeans
  <2> QED
    BY <1>1, <1>4, <2>2 DEF IInv, Types, DiskTypes
<1>5. CASE Fail /\ UNCHANGED files
  BY <1>1, <1>2, <1>3, <1>5, FailStep
<1>6. CASE key = <<>> /\ End(FALSE) /\ UNCHANGED files
  BY <1>1, <1>2, <1>3, <1>6, EndStep
<1>7. ASSUME NEW i \in objects, Names[i] = key, IF cat THEN EndHiding ELSE Fail,
             files' = [files EXCEPT ![i] = Over(@, "part")]
      PROVE  IInv'
  <2>1. DiskTypes'
    BY <1>4, <1>7 DEF IInv, Types, WorldTypes
  <2>2. CASE ~cat
    BY <1>1, <1>2, <1>7, <2>1, <2>2, FailStep
  <2>3. CASE EndHiding
    <3>1. /\ pc' = "done" /\ status' = "ok" /\ listing' = NoListing /\ hidden' = TRUE
          /\ key' = key
      BY <2>3 DEF EndHiding
    <3>2. IsListing(listing')
      BY <3>1, NoListingMeans
    <3>3. ExecTypes'
      <4>1. IsListing(listing)'
        BY <3>2 DEF IsListing
      <4> QED
        BY <3>1, <4>1 DEF IInv, Types, ExecTypes
    <3>4. LoopTypes' /\ PlaceInv' /\ GotInv'
      BY <1>1, <3>1 DEF IInv, Types, LoopTypes, PlaceInv, GotInv, Frame
    <3> QED
      BY <1>1, <1>2, <2>1, <3>3, <3>4, FrameKeeps DEF IInv, Types
  <2> QED
    BY <1>7, <2>2, <2>3
<1>8. ASSUME NEW i \in objects, Names[i] = key, End(FALSE),
             files' = [files EXCEPT ![i] = Over(@, "whole")]
      PROVE  IInv'
  <2>1. i \in Ids /\ DiskTypes' /\ files'[i] \in {"whole", "mixed"}
    BY <1>4, <1>8 DEF IInv, Types, WorldTypes
  <2>2. \A j \in objects : Names[j] = key => j = i
    BY <1>8 DEF IInv, Types, WorldTypes, Distinct
  <2>3. Missing' = {}
    <3>1. key' = key
      BY <1>8 DEF End
    <3> QED
      BY <1>1, <2>1, <2>2, <3>1 DEF Missing, Asked, Told, Frame
  <2> QED
    BY <1>1, <1>2, <1>8, <2>1, <2>3, EndStep
<1> QED
  BY <1>5, <1>6, <1>7, <1>8 DEF GetObject

(* The page that List asks for.                                            *)
Page == ListPage(objects, key, FALSE, listing.next, PageSize)

LEMMA PageMeans ==
  ASSUME IInv, pc = "list"
  PROVE  /\ IsListing(Page) /\ ~Page.nil
         /\ \A i \in Page.keys : HasPrefix(Names[i], key)
         /\ ~hidden /\ troubles = 0 /\ key # <<>> =>
              /\ \A i \in Missing : i \in Page.keys \/ (Page.truncated /\ i > Page.next)
              /\ Missing # {} => Page.keys # {}
<1> DEFINE wanted == Wanted(objects, key, FALSE, listing.next)
<1>1. /\ objects \in SUBSET Ids /\ key \in Keys /\ listing.next \in Nat
      /\ recursive /\ key = arg /\ PageSize \in Nat \ {0} /\ FALSE \in BOOLEAN
  BY IdsAreNumbers, CommandAssumption
     DEF IInv, Types, WorldTypes, ExecTypes, IsListing, PlaceInv
<1>2. IsPageOf(Page, wanted, FALSE)
  BY <1>1, PageIsComplete DEF Page
<1>3. wanted = {i \in objects : i > listing.next /\ HasPrefix(Names[i], key)}
  BY DEF Wanted
<1> HIDE DEF wanted
<1>4. Page.nil = FALSE
  BY <1>2 DEF IsPageOf
<1>5. IsListing(Page)
  BY <1>1, <1>2, <1>3, <1>4 DEF IsListing, IsPageOf
<1>6. \A i \in Page.keys : HasPrefix(Names[i], key)
  BY <1>2, <1>3 DEF IsPageOf
<1>7. ASSUME ~hidden, troubles = 0, key # <<>>
      PROVE  Missing \subseteq wanted
  <2> SUFFICES ASSUME NEW i \in Missing PROVE i \in wanted
    OBVIOUS
  <2>1. i \in objects /\ i \in Ids /\ Asked(i)
    BY <1>1 DEF Missing
  <2>2. i > listing.next
    BY <1>7 DEF IInv, GotInv
  <2>3. HasPrefix(Names[i], key)
    BY <1>1, <2>1, AskedHasPrefix
  <2> QED
    BY <1>3, <2>1, <2>2, <2>3
<1> QED
  BY <1>2, <1>4, <1>5, <1>6, <1>7 DEF IsPageOf

LEMMA ListStep ==
  ASSUME IInv, List
  PROVE  IInv'
<1>1. /\ pc = "list" /\ status = "running" /\ Frame /\ recursive
      /\ UNCHANGED <<files, made, said>>
      /\ UNCHANGED troubles \/ Trouble
  BY DEF List, command, others, disk, Frame, IInv, Types, ExecTypes, PlaceInv
<1>2. /\ CountTypes' /\ (Trouble => troubles' # 0) /\ (troubles' = 0 => troubles = 0)
      /\ DiskTypes'
  BY <1>1, Counts DEF IInv, Types, DiskTypes, Frame
<1>3. /\ IsListing(Page) /\ ~Page.nil
      /\ \A i \in Page.keys : HasPrefix(Names[i], key)
      /\ ~hidden /\ troubles = 0 /\ key # <<>> =>
           /\ \A i \in Missing : i \in Page.keys \/ (Page.truncated /\ i > Page.next)
           /\ Missing # {} => Page.keys # {}
  BY <1>1, PageMeans
<1>4. key' = key => Missing' \subseteq Missing
  BY <1>1, MissingShrinks DEF Told, Frame
<1>5. CASE Fail /\ UNCHANGED <<left, failed>>
  BY <1>1, <1>2, <1>5, FailStep
<1>6. ASSUME NEW l, IsListing(l), l.keys \subseteq Page.keys, Show(l),
             l = Page \/ troubles' # 0
      PROVE  IInv'
  <2>1. CASE l.nil \/ l.keys = {}
    <3>1. End(FALSE) /\ UNCHANGED <<left, failed>>
      BY <1>6, <2>1 DEF Show
    <3>2. key' = key
      BY <3>1 DEF End
    <3>3. ~hidden /\ troubles' = 0 /\ key # <<>> => Missing' = {}
      BY <1>2, <1>3, <1>4, <1>6, <2>1, <3>2
    <3> QED
      BY <1>1, <1>2, <3>1, <3>3, EndStep
  <2>2. CASE ~(l.nil \/ l.keys = {})
    <3>1. /\ listing' = l /\ left' = l.keys /\ failed' = FALSE /\ pc' = "copy"
          /\ UNCHANGED <<key, status, hidden>>
      BY <1>6, <2>2 DEF Show
    <3>2. ExecTypes' /\ LoopTypes'
      <4>1. IsListing(listing)'
        BY <1>6, <3>1 DEF IsListing
      <4>2. left' \subseteq Ids
        BY <1>6, <3>1 DEF IsListing
      <4> QED
        BY <1>1, <3>1, <4>1, <4>2 DEF IInv, Types, ExecTypes, LoopTypes
    <3>3. PlaceInv'
      BY <1>1, <1>3, <1>6, <3>1 DEF IInv, PlaceInv, Frame
    <3>4. GotInv'
      <4> SUFFICES ASSUME ~hidden', troubles' = 0, key' # <<>>, NEW i \in Missing'
                   PROVE  i \in left' \/ i \in BehindPage'
        BY <1>1, <3>1 DEF GotInv
      <4>1. i \in Missing /\ l = Page
        BY <1>4, <1>6, <3>1
      <4>2. i \in Ids
        BY <4>1 DEF Missing, IInv, Types, WorldTypes
      <4>3. i \in Page.keys \/ (Page.truncated /\ i > Page.next)
        BY <1>2, <1>3, <3>1, <4>1
      <4> QED
        BY <3>1, <4>1, <4>2, <4>3 DEF BehindPage
    <3> QED
      BY <1>1, <1>2, <3>2, <3>3, <3>4, FrameKeeps DEF IInv, Types
  <2> QED
    BY <2>1, <2>2
<1>7. ASSUME Show(Page) PROVE IInv'
  BY <1>3, <1>6, <1>7
<1>8. ASSUME Trouble, NEW l \in Undecoded(Page), Show(l) PROVE IInv'
  BY <1>2, <1>3, <1>6, <1>8, UndecodedIsPart
<1> QED
  BY <1>5, <1>7, <1>8 DEF List, Page

LEMMA CopyStep ==
  ASSUME IInv, NEW i \in Ids, Copy(i)
  PROVE  IInv'
<1>1. /\ pc = "copy" /\ status = "running" /\ Frame /\ recursive /\ key = arg
      /\ i \in left /\ left' = left \ {i}
      /\ UNCHANGED <<troubles, key, pc, listing, status>>
  BY DEF Copy, FirstOf, command, others, Frame, IInv, Types, ExecTypes, PlaceInv
<1>2. CountTypes'
  BY <1>1 DEF IInv, Types, CountTypes, Frame
<1>3. /\ failed' \in BOOLEAN /\ made' \subseteq Ids
      /\ hidden' = hidden \/ hidden' = TRUE
      /\ said' \in {said, said \cup {i}}
      /\ files' \in {files, [files EXCEPT ![i] = Over(@, "part")],
                     [files EXCEPT ![i] = Over(@, "whole")]}
  BY DEF Copy, MkdirFails, WriteFile, disk, IInv, Types, LoopTypes, DiskTypes
<1>4. files[i] \in Contents /\ files \in [Ids -> Contents]
  BY DEF IInv, Types, DiskTypes
<1>5. /\ Over(files[i], "part") \in Contents /\ Over(files[i], "whole") \in Contents
      /\ Over(files[i], "whole") \in {"whole", "mixed"}
  BY <1>4, OverMeans
<1>6. DiskTypes'
  <2>1. files' \in [Ids -> Contents]
    BY <1>3, <1>4, <1>5
  <2> QED
    BY <1>3, <2>1 DEF IInv, Types, DiskTypes
<1>7. \/ i \in said' \/ hidden' \/ ~Passes(i) \/ EndsWith(Name(i), "/")
      \/ files' = [files EXCEPT ![i] = Over(@, "whole")]
  BY DEF Copy, MkdirFails, WriteFile
<1>8. Told(i)' \/ hidden' \/ ~Passes(i) \/ EndsWith(Name(i), "/")
  BY <1>4, <1>5, <1>7 DEF Told
<1>9. ExecTypes' /\ LoopTypes' /\ PlaceInv'
  BY <1>1, <1>3 DEF IInv, Types, ExecTypes, LoopTypes, PlaceInv, Frame, IsListing
<1>10. GotInv'
  <2> SUFFICES ASSUME ~hidden', troubles' = 0, key' # <<>>, NEW j \in Missing'
               PROVE  j \in left' \/ j \in BehindPage'
    BY <1>1 DEF GotInv
  <2>1. ~hidden /\ troubles = 0 /\ key # <<>>
    <3>1. ~hidden
      BY <1>3, Zenon
    <3> QED
      BY <1>1, <3>1
  <2>2. j \in objects \cap old /\ j \in Ids /\ Asked(j) /\ ~EndsWith(Name(j), "/")
    <3>1. Asked(j)' = Asked(j) /\ Name(j)' = Name(j)
      BY <1>1 DEF Asked, Name, Below, Frame
    <3>2. EndsWith(Name(j), "/")' = EndsWith(Name(j), "/")
      BY <3>1 DEF EndsWith
    <3> QED
      BY <1>1, <3>1, <3>2 DEF Missing, Frame, IInv, Types, WorldTypes
  <2>3. ~Told(j)'
    BY DEF Missing
  <2>4. j # i
    <3> SUFFICES ASSUME j = i PROVE FALSE
      OBVIOUS
    <3>1. HasPrefix(Names[i], key)
      BY <1>1 DEF IInv, PlaceInv
    <3>2. Passes(i)
      BY <1>1, <2>1, <2>2, <3>1, FilterMeans DEF IInv, Types, ExecTypes
    <3> QED
      BY <1>8, <2>2, <2>3, <3>2
  <2>5. ~Told(j)
    BY <1>3, <1>4, <2>2, <2>3, <2>4 DEF Told
  <2>6. j \in left \/ j \in BehindPage
    BY <1>1, <2>1, <2>2, <2>5 DEF Missing, IInv, GotInv
  <2> QED
    BY <1>1, <2>4, <2>6 DEF BehindPage
<1> QED
  BY <1>1, <1>2, <1>6, <1>9, <1>10, FrameKeeps DEF IInv, Types

LEMMA EndPageStep ==
  ASSUME IInv, EndPage
  PROVE  IInv'
<1>1. /\ pc = "copy" /\ status = "running" /\ Frame /\ recursive /\ left = {}
      /\ UNCHANGED <<troubles, left, failed, files, made, said>>
  BY DEF EndPage, command, others, disk, Frame, IInv, Types, ExecTypes, PlaceInv
<1>2. CountTypes' /\ DiskTypes'
  BY <1>1 DEF IInv, Types, CountTypes, DiskTypes, Frame
<1>3. key' = key => Missing' \subseteq Missing
  BY <1>1, MissingShrinks DEF Told, Frame
<1>4. ~hidden /\ troubles = 0 /\ key # <<>> => Missing \subseteq BehindPage
  BY <1>1 DEF IInv, GotInv
<1>5. CASE listing.truncated
  <2>1. pc' = "list" /\ UNCHANGED <<key, listing, status, hidden>>
    BY <1>5 DEF EndPage, NextPage
  <2>2. ExecTypes' /\ LoopTypes' /\ PlaceInv'
    BY <1>1, <2>1 DEF IInv, Types, ExecTypes, LoopTypes, PlaceInv, Frame, IsListing
  <2>3. GotInv'
    BY <1>1, <1>3, <1>4, <2>1 DEF GotInv, BehindPage
  <2> QED
    BY <1>1, <1>2, <2>2, <2>3, FrameKeeps DEF IInv, Types
<1>6. CASE ~listing.truncated
  <2>1. Return(failed)
    BY <1>6 DEF EndPage, NextPage
  <2>2. CASE failed
    BY <1>1, <1>2, <2>1, <2>2, FailStep DEF Return
  <2>3. CASE ~failed
    <3>1. End(FALSE)
      BY <2>1, <2>3 DEF Return
    <3>2. key' = key
      BY <3>1 DEF End
    <3>3. ~hidden /\ troubles' = 0 /\ key # <<>> => Missing' = {}
      BY <1>1, <1>3, <1>4, <1>6, <3>2 DEF BehindPage
    <3> QED
      BY <1>1, <1>2, <3>1, <3>3, EndStep
  <2> QED
    BY <2>2, <2>3
<1> QED
  BY <1>5, <1>6

LEMMA OtherStep ==
  ASSUME IInv, Other
  PROVE  IInv'
<1>1. PICK i \in Ids : Put(i) \/ TakeAway(i)
  BY DEF Other
<1>2. /\ UNCHANGED <<recursive, arg, cat, key, pc, listing, status, hidden, troubles>>
      /\ UNCHANGED <<left, failed, files, made, said>>
      /\ objects' \subseteq Ids /\ old' \subseteq Ids /\ Distinct(objects')
      /\ objects' \cap old' \subseteq objects \cap old
      /\ changes' = changes + 1 /\ Bounded
  BY <1>1 DEF Other, Put, TakeAway, command, exec, disk, IInv, Types, WorldTypes
<1>3. WorldTypes'
  BY <1>2 DEF IInv, Types, WorldTypes, Distinct
<1>4. CountTypes'
  BY <1>2, CommandAssumption DEF Bounded, IInv, Types, CountTypes
<1>5. ExecTypes' /\ LoopTypes' /\ DiskTypes' /\ PlaceInv'
  BY <1>2 DEF IInv, Types, ExecTypes, LoopTypes, DiskTypes, PlaceInv, IsListing
<1>6. GotInv'
  <2>1. Missing' \subseteq Missing
    BY <1>2, MissingShrinks DEF Told
  <2>2. BehindPage' = BehindPage
    BY <1>2 DEF BehindPage
  <2> QED
    BY <1>2, <2>1, <2>2 DEF IInv, GotInv
<1> QED
  BY <1>3, <1>4, <1>5, <1>6 DEF IInv, Types

LEMMA IdleStep ==
  ASSUME IInv, UNCHANGED vars
  PROVE  IInv'
<1>1. /\ Frame /\ UNCHANGED <<key, pc, listing, status, hidden, troubles>>
      /\ UNCHANGED <<left, failed, files, made, said>>
  BY DEF vars, command, exec, others, disk, Frame
<1>2. Types'
  BY <1>1, FrameKeeps
     DEF IInv, Types, CountTypes, ExecTypes, LoopTypes, DiskTypes, IsListing, Frame
<1>3. PlaceInv'
  BY <1>1 DEF IInv, PlaceInv, Frame
<1>4. GotInv'
  <2>1. Missing' \subseteq Missing
    BY <1>1, MissingShrinks DEF Told, Frame
  <2>2. BehindPage' = BehindPage
    BY <1>1 DEF BehindPage
  <2> QED
    BY <1>1, <2>1, <2>2 DEF IInv, GotInv
<1> QED
  BY <1>2, <1>3, <1>4 DEF IInv

LEMMA InitInv ==
  ASSUME Init
  PROVE  IInv
<1>1. /\ objects \subseteq Ids /\ Distinct(objects) /\ old = objects
      /\ recursive \in BOOLEAN /\ cat \in BOOLEAN /\ (cat => ~recursive)
      /\ arg \in Args /\ key = arg /\ listing = NoListing /\ status = "running"
      /\ hidden = FALSE /\ troubles = 0 /\ changes = 0
      /\ pc = "exec" /\ left = {} /\ failed = FALSE /\ said = {}
  BY DEF Init, InitCommand
<1>2. arg \in Keys
  BY <1>1, CommandAssumption DEF Keys
<1>3. made \subseteq Ids /\ files \in [Ids -> Contents]
  <2>1. made \in {{}} \cup {{i} : i \in {j \in Kept : recursive}}
    BY DEF Init
  <2>2. PICK before \in SUBSET made :
          files = [i \in Ids |-> IF i \in before THEN "old" ELSE "none"]
    BY DEF Init
  <2> QED
    BY <2>1, <2>2 DEF Kept, Contents
<1>4. WorldTypes /\ LoopTypes /\ DiskTypes
  BY <1>1, <1>2, <1>3 DEF WorldTypes, LoopTypes, DiskTypes
<1>5. CountTypes
  BY <1>1, CommandAssumption DEF CountTypes
<1>6. ExecTypes
  BY <1>1, <1>2, NoListingMeans DEF ExecTypes
<1>7. PlaceInv /\ GotInv
  BY <1>1 DEF PlaceInv, GotInv
<1> QED
  BY <1>4, <1>5, <1>6, <1>7 DEF IInv, Types

LEMMA GetNext ==
  ASSUME IInv, [Next]_vars
  PROVE  IInv'
BY ExecStep, GetObjectStep, ListStep, CopyStep, EndPageStep, OtherStep, IdleStep
   DEF Next, Step, Done

-----------------------------------------------------------------------------
(* Every variable has its type, and a page its fields.                     *)
THEOREM TypeCorrect == Spec => []TypeOK
<1>1. IInv => TypeOK
  BY DEF IInv, Types, WorldTypes, CountTypes, ExecTypes, LoopTypes, DiskTypes, IsListing,
         Keys, TypeOK, CommandTypeOK
<1> QED
  BY <1>1, InitInv, GetNext, PTL DEF Spec

(***************************************************************************)
(* After an honest success every object that the argument named all along  *)
(* is in its file, or an error was printed for it.                         *)
(***************************************************************************)
THEOREM NamedIsGot == Spec => []GetsAll
<1>1. IInv => GetsAll
  BY DEF IInv, GotInv, Missing, Told, GetsAll
<1> QED
  BY <1>1, InitInv, GetNext, PTL DEF Spec

(***************************************************************************)
(* No step writes a file of an object that the argument does not name.     *)
(***************************************************************************)
THEOREM OnlyNamedIsWritten == Spec => [][WritesOnlyNamed]_vars
<1>1. IInv /\ [Next]_vars => [WritesOnlyNamed]_vars
  <2> SUFFICES ASSUME IInv, [Next]_vars PROVE WritesOnlyNamed \/ UNCHANGED vars
    OBVIOUS
  <2>1. UNCHANGED files => WritesOnlyNamed
    BY DEF WritesOnlyNamed
  <2>2. CASE Exec \/ List \/ EndPage \/ Other
    BY <2>1, <2>2 DEF Exec, List, EndPage, Other, disk
  <2>3. CASE GetObject
    BY <2>1, <2>3 DEF GetObject, WritesOnlyNamed, Asked, IInv, Types, DiskTypes
  <2>4. ASSUME NEW i \in Ids, Copy(i) PROVE WritesOnlyNamed
    <3>1. /\ recursive /\ key = arg /\ HasPrefix(Names[i], key)
      BY <2>4 DEF Copy, FirstOf, IInv, PlaceInv
    <3>2. /\ UNCHANGED files \/ Passes(i)
          /\ \A j \in Ids \ {i} : files'[j] = files[j]
      BY <2>4 DEF Copy, MkdirFails, WriteFile, disk, IInv, Types, DiskTypes
    <3>3. Passes(i) => Asked(i)
      BY <3>1, FilterMeans DEF IInv, Types, ExecTypes
    <3> QED
      BY <2>1, <3>2, <3>3 DEF WritesOnlyNamed
  <2> QED
    BY <2>2, <2>3, <2>4 DEF Next, Step, Done
<1> QED
  BY <1>1, InitInv, GetNext, PTL DEF Spec
-----------------------------------------------------------------------------
(***************************************************************************)
(* How near the command is to its end: first by the changes and responses  *)
(* that can still disturb it, then by the key, then by how far it has      *)
(* walked, then by what is left of the page.                               *)
(***************************************************************************)
EventsLeft == MaxEvents - changes - troubles

WalkEnd == 2 * Len(Names) + 4

WalkPlace(p, truncated, next) ==
  CASE p = "exec" -> 0
    [] p = "get" -> 1
    [] p = "list" -> 2 * next + 2
    [] p = "copy" -> IF truncated THEN 2 * next + 1 ELSE WalkEnd - 1
    [] p = "done" -> WalkEnd

Walked == WalkPlace(pc, listing.truncated, listing.next)

Further ==
  \/ Len(key') < Len(key)
  \/ Len(key') = Len(key) /\ Walked' > Walked
  \/ /\ Len(key') = Len(key) /\ Walked' = Walked
     /\ left' \subseteq left /\ left' # left

Nearer == EventsLeft' < EventsLeft \/ (EventsLeft' = EventsLeft /\ Further)

(* get calls itself with the key that has just failed.                     *)
Repeats == ~cat /\ StartsWith(key, "/") /\ key' = key /\ pc # "exec" /\ pc' = "exec"

LEMMA WalkPlaces ==
  ASSUME NEW m, NEW t, NEW n
  PROVE  /\ m = "exec" => WalkPlace(m, t, n) = 0
         /\ m = "get" => WalkPlace(m, t, n) = 1
         /\ m = "list" => WalkPlace(m, t, n) = 2 * n + 2
         /\ m = "copy" => WalkPlace(m, t, n) = IF t THEN 2 * n + 1 ELSE WalkEnd - 1
         /\ m = "done" => WalkPlace(m, t, n) = WalkEnd
BY DEF WalkPlace

(* The numbers a command is measured by.                                   *)
LEMMA Measures ==
  ASSUME IInv
  PROVE  /\ Len(key) \in Nat /\ EventsLeft \in Nat /\ MaxEvents \in Nat
         /\ changes \in Nat /\ troubles \in Nat
         /\ listing.next \in Nat /\ listing.next <= Len(Names) /\ Len(Names) \in Nat
         /\ Walked \in 0 .. WalkEnd
         /\ pc # "done" => Walked < WalkEnd
<1>1. /\ listing.next \in Nat /\ listing.next <= Len(Names) /\ Len(Names) \in Nat
      /\ listing.truncated \in BOOLEAN
  BY IdsAreNumbers DEF IInv, Types, ExecTypes, IsListing
<1>2. /\ Len(key) \in Nat /\ EventsLeft \in Nat /\ MaxEvents \in Nat
      /\ changes \in Nat /\ troubles \in Nat
  BY CommandAssumption, LenProperties
     DEF IInv, Types, CountTypes, ExecTypes, EventsLeft, Keys
<1>3. Walked \in {0, 1, 2 * listing.next + 2, 2 * listing.next + 1, WalkEnd - 1}
        \/ (pc = "done" /\ Walked = WalkEnd)
  BY WalkPlaces DEF Walked, IInv, Types, ExecTypes
<1> QED
  BY <1>1, <1>2, <1>3 DEF WalkEnd

(* A page that is not the last one ends behind the marker it began at.     *)
LEMMA PageAdvances ==
  ASSUME IInv, pc = "list", Page.truncated
  PROVE  Page.next > listing.next
<1> DEFINE behind == Behind(objects, key, listing.next)
<1>1. /\ objects \in SUBSET Ids /\ key \in Keys /\ listing.next \in Nat
      /\ PageSize \in Nat \ {0} /\ FALSE \in BOOLEAN
  BY Measures, CommandAssumption DEF IInv, Types, WorldTypes, ExecTypes
<1>2. key \in Seq(Tokens)
  BY <1>1, KeysAreTokens
<1>3. \A j \in behind : j \in Ids /\ j > listing.next
  BY <1>1 DEF Behind
<1> HIDE DEF behind
<1>4. IsPageFor(Page, behind, key, FALSE)
  BY <1>1, <1>2, PageCovers DEF behind, Page
<1>5. PICK j \in behind : Covers(Page, j)
  <2>1. CASE Page.next \in Page.keys
    BY <1>4, <2>1 DEF IsPageFor, Covers
  <2>2. CASE Page.next \notin Page.keys
    BY <1>4, <2>2 DEF IsPageFor, Covers
  <2> QED BY <2>1, <2>2
<1>6. j \in Ids /\ j > listing.next /\ j <= Page.next /\ Page.next \in Ids
  BY <1>3, <1>4, <1>5 DEF IsPageFor
<1> QED
  BY <1>1, <1>6, IdsAreNumbers

LEMMA EndFurther ==
  ASSUME IInv, pc # "done", NEW err, End(err)
  PROVE  Further
<1>1. Walked' = WalkEnd /\ Walked < WalkEnd /\ key' = key
  BY WalkPlaces, Measures DEF Walked, End
<1>2. Walked' > Walked
  BY <1>1, Measures DEF WalkEnd
<1> QED
  BY <1>1, <1>2, Measures DEF Further

(* An error ends the command or, for a key that starts with a slash, has   *)
(* cat try a shorter one and get the same once more.                       *)
LEMMA FailFurther ==
  ASSUME IInv, pc \notin {"exec", "done"}, Fail
  PROVE  Further \/ Repeats
<1>1. CASE ~StartsWith(key, "/")
  BY <1>1, EndFurther DEF Fail
<1>2. CASE StartsWith(key, "/") /\ ~cat
  BY <1>2 DEF Fail, Again, Repeats
<1>3. CASE StartsWith(key, "/") /\ cat
  <2>1. key' = TrimLeft(key, "/") /\ key \in Keys
    BY <1>3 DEF Fail, Again, IInv, Types, ExecTypes
  <2>2. PICK m \in 1 .. Len(key) + 1 :
          /\ key' = SubSeq(key, m, Len(key))
          /\ m <= Len(key) => key[m] # "/"
    BY <2>1, TrimLeftMeans DEF Keys
  <2>3. key # <<>> /\ key[1] = "/" /\ Len(key) \in Nat /\ key \in Seq(STRING)
    BY <1>3, <2>1, Measures DEF StartsWith, Keys
  <2>4. Len(key) > 0
    BY <2>3, EmptySeq
  <2>5. m > 1
    BY <2>2, <2>3, <2>4
  <2>6. Len(key') = IF m <= Len(key) THEN Len(key) - m + 1 ELSE 0
    BY <2>2, <2>3, <2>5, SubSeqProperties
  <2> QED
    BY <2>2, <2>3, <2>4, <2>5, <2>6 DEF Further
<1> QED
  BY <1>1, <1>2, <1>3

(* What others do, and responses that cannot be decoded, use up events.    *)
LEMMA EventsCount ==
  ASSUME IInv
  PROVE  /\ UNCHANGED changes /\ Trouble => EventsLeft' < EventsLeft
         /\ UNCHANGED troubles /\ changes' = changes + 1 => EventsLeft' < EventsLeft
         /\ UNCHANGED <<changes, troubles>> => EventsLeft' = EventsLeft
BY Measures DEF EventsLeft, Trouble

(* From the marker to the page, and from the page to its marker.           *)
LEMMA PageFurther ==
  ASSUME IInv, pc = "list", Show(Page)
  PROVE  Further
<1>1. CASE Page.nil \/ Page.keys = {}
  BY <1>1, EndFurther DEF Show
<1>2. CASE ~(Page.nil \/ Page.keys = {})
  <2>1. pc' = "copy" /\ listing' = Page /\ key' = key
    BY <1>2 DEF Show
  <2>2. Walked = 2 * listing.next + 2
    BY WalkPlaces DEF Walked
  <2>3. Walked' = IF Page.truncated THEN 2 * Page.next + 1 ELSE WalkEnd - 1
    BY <2>1, WalkPlaces DEF Walked
  <2>4. Page.next \in Nat /\ (Page.truncated => Page.next > listing.next)
    BY PageAdvances, PageMeans, IdsAreNumbers DEF IsListing
  <2>5. listing.next \in Nat /\ listing.next <= Len(Names) /\ Len(Names) \in Nat
    BY Measures
  <2>6. Page.truncated => Walked' > Walked
    BY <2>2, <2>3, <2>4, <2>5
  <2>7. ~Page.truncated => Walked' > Walked
    BY <2>2, <2>3, <2>5 DEF WalkEnd
  <2> QED
    BY <2>1, <2>6, <2>7, Measures DEF Further
<1> QED
  BY <1>1, <1>2

LEMMA StepNearer ==
  ASSUME IInv, Step
  PROVE  Nearer \/ Repeats
<1>f. ASSUME UNCHANGED <<changes, troubles>>, Further PROVE Nearer
  BY <1>f, EventsCount DEF Nearer
<1>1. CASE Exec
  <2>1. pc = "exec" /\ UNCHANGED <<changes, troubles>>
    BY <1>1 DEF Exec, others
  <2>2. \/ End(TRUE)
        \/ pc' \in {"list", "get"} /\ UNCHANGED <<key, listing>>
    BY <1>1 DEF Exec
  <2>3. ASSUME pc' \in {"list", "get"}, UNCHANGED <<key, listing>>
        PROVE  Further
    <3>1. Walked = 0 /\ Walked' \in {1, 2 * listing.next + 2}
      BY <2>1, <2>3, WalkPlaces DEF Walked
    <3> QED
      BY <2>3, <3>1, Measures DEF Further
  <2> QED
    BY <1>f, <2>1, <2>2, <2>3, EndFurther
<1>2. CASE GetObject
  <2>1. pc = "get" /\ UNCHANGED <<changes, troubles>>
    BY <1>2 DEF GetObject, others
  <2>2. Fail \/ End(FALSE) \/ (pc' = "done" /\ key' = key)
    BY <1>2 DEF GetObject, EndHiding
  <2>3. ASSUME pc' = "done", key' = key PROVE Further
    <3>1. Walked = 1 /\ Walked' = WalkEnd
      BY <2>1, <2>3, WalkPlaces DEF Walked
    <3> QED
      BY <2>3, <3>1, Measures DEF Further, WalkEnd
  <2> QED
    BY <1>f, <2>1, <2>2, <2>3, EndFurther, FailFurther
<1>3. CASE List
  <2>1. pc = "list" /\ UNCHANGED changes
    BY <1>3 DEF List, others
  <2>2. \/ Trouble
        \/ UNCHANGED troubles /\ (Fail \/ Show(Page))
    BY <1>3 DEF List, Page
  <2> QED
    BY <1>f, <2>1, <2>2, EventsCount, FailFurther, PageFurther DEF Nearer
<1>4. CASE EndPage
  <2>1. pc = "copy" /\ UNCHANGED <<changes, troubles>>
    BY <1>4 DEF EndPage, others
  <2>2. \/ listing.truncated /\ pc' = "list" /\ UNCHANGED <<key, listing>>
        \/ Fail
        \/ End(FALSE)
    BY <1>4 DEF EndPage, NextPage, Return
  <2>3. ASSUME listing.truncated, pc' = "list", UNCHANGED <<key, listing>>
        PROVE  Further
    <3>1. Walked = 2 * listing.next + 1 /\ Walked' = 2 * listing.next + 2
      BY <2>1, <2>3, WalkPlaces DEF Walked
    <3> QED
      BY <2>3, <3>1, Measures DEF Further
  <2> QED
    BY <1>f, <2>1, <2>2, <2>3, EndFurther, FailFurther
<1>5. ASSUME NEW i \in Ids, Copy(i) PROVE Nearer
  <2>1. /\ UNCHANGED <<changes, troubles, key, pc, listing>>
        /\ i \in left /\ left' = left \ {i}
    BY <1>5 DEF Copy, others, FirstOf
  <2>2. Walked' = Walked
    BY <2>1 DEF Walked
  <2> QED
    BY <1>f, <2>1, <2>2 DEF Further
<1> QED
  BY <1>1, <1>2, <1>3, <1>4, <1>5 DEF Step

LEMMA NextNearer == IInv /\ [Next]_vars => [Nearer \/ Repeats]_vars
<1> SUFFICES ASSUME IInv, Next PROVE Nearer \/ Repeats \/ UNCHANGED vars
  OBVIOUS
<1>1. CASE Other
  <2>1. UNCHANGED troubles /\ changes' = changes + 1
    BY <1>1 DEF Other, Put, TakeAway
  <2> QED
    BY <2>1, EventsCount DEF Nearer
<1> QED
  BY <1>1, StepNearer DEF Next, Done

(***************************************************************************)
(* Every step of get and cat brings the command nearer to its end but one: *)
(* get, where a key with a leading slash fails, starts again with the same *)
(* key.  That fallback is the only way in which the walk over pages, the   *)
(* loop over their objects and cat's own fallback could go on for ever.    *)
(* Until the end of a page there is an object to copy.                     *)
(***************************************************************************)
THEOREM OnlyTheFallbackRepeats ==
  Spec => /\ [](/\ EventsLeft \in 0 .. MaxEvents /\ Walked \in 0 .. WalkEnd
                /\ left # {} => FirstOf(left, 1) # {})
          /\ [][Nearer \/ Repeats]_vars
<1>1. IInv => /\ EventsLeft \in 0 .. MaxEvents /\ Walked \in 0 .. WalkEnd
              /\ left # {} => FirstOf(left, 1) # {}
  <2> SUFFICES ASSUME IInv
               PROVE  /\ EventsLeft \in 0 .. MaxEvents /\ Walked \in 0 .. WalkEnd
                      /\ left # {} => FirstOf(left, 1) # {}
    OBVIOUS
  <2>1. EventsLeft <= MaxEvents
    BY Measures DEF EventsLeft
  <2>2. left \in SUBSET Ids
    BY DEF IInv, Types, LoopTypes
  <2> QED
    BY <2>1, <2>2, Measures, FirstOfSome
<1> QED
  BY <1>1, InitInv, GetNext, NextNearer, PTL DEF Spec
=============================================================================
