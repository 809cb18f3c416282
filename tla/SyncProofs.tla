----------------------------- MODULE SyncProofs -----------------------------
(***************************************************************************)
(* Theorems about Sync, for every number of files, pages, runs and changes *)
(* and for files of every length.                                          *)
(***************************************************************************)
EXTENDS Sync, SequenceTheorems, FiniteSetTheorems, TLAPS

(* The part of TypeOK that the arguments need, and that the listing is a   *)
(* local variable of SyncDagToLocal.                                       *)
Values ==
  /\ clock \in Nat
  /\ local \in [Names -> [data : Seq(Nat), time : Times]]
  /\ remote \in [Names -> [data : Seq(Nat), time : Times, meta : Times]]
  /\ pc \in {"idle", "walk", "upload", "list", "page", "get", "written"}
  /\ todo \subseteq Names
  /\ DOMAIN listing \subseteq Names
  /\ \A n \in DOMAIN listing : listing[n].time \in Times
  /\ pc \in {"page", "get", "written"} => todo \subseteq DOMAIN listing
  /\ pc \in {"idle", "walk", "upload"} => DOMAIN listing = {}
  /\ seen \in Times

(* A last_modified is from before its object, and from before the object   *)
(* that a listing has shown since.                                         *)
TimesInv ==
  /\ \A n \in Names : remote[n].meta # 0 => remote[n].meta < remote[n].time
  /\ \A n \in DOMAIN listing :
       /\ remote[n].meta < listing[n].time
       /\ listing[n].time <= remote[n].time

(* A file that was just written, in full, with what is still the object.   *)
WrittenInv ==
  pc = "written" =>
    \A n \in todo :
      /\ IsNext(n)
      /\ ~short
      /\ remote[n].time = listing[n].time
      /\ Len(local[n].data) = Len(remote[n].data)
      => local[n].data = remote[n].data

SyncInv ==
  /\ Values
  /\ TimesInv
  /\ WrittenInv
  /\ NoChangeIsEqual

(* What a run of SyncDagToLocal has come to: what is not yet settled is in *)
(* the page, as listed, or in the next pages.                              *)
DownInv ==
  /\ pc \in {"list", "page", "get", "written"} =>
       \A n \in todo \ dirty :
         /\ listing[n].size = Len(remote[n].data)
         /\ listing[n].time = remote[n].time
  /\ pc \in {"list", "page", "get", "written"} /\ ~dryRun =>
       \A n \in Objects \ dirty :
         \/ n \in todo
         \/ n > marker /\ (pc = "list" \/ truncated)
         \/ Settled(n)
  /\ pc = "list" => todo = {}
  /\ pc = "idle" => marker = 0
  /\ pc = "written" =>
       \A n \in todo \ dirty : IsNext(n) => IsPrefix(remote[n].data, local[n].data)
  /\ DownSettles

(* What a run of SyncLocalToDag has come to.                               *)
UpInv ==
  /\ pc \in {"walk", "upload"} =>
       /\ ~toLocal
       /\ \A n \in todo : Exists(local[n])
       /\ ~dryRun => \A n \in Names \ dirty :
                       Exists(local[n]) => n \in todo \/ SameAsObject(n)
  /\ pc = "upload" =>
       /\ ~dryRun
       /\ seen # 0
       /\ \A n \in todo \ dirty : IsNext(n) => seen = local[n].time
  /\ pc \in {"list", "page", "get", "written"} => toLocal
  /\ UpSettles

-----------------------------------------------------------------------------
(* What writing to a file without truncating it makes of it.               *)

LEMMA OverwriteSeq ==
  ASSUME NEW new \in Seq(Nat), NEW old \in Seq(Nat)
  PROVE  Overwrite(new, old) \in Seq(Nat)
<1>1. \A i \in Len(new) + 1 .. Len(old) : old[i] \in Nat
  BY ElementOfSeq
<1>2. SubSeq(old, Len(new) + 1, Len(old)) \in Seq(Nat)
  BY <1>1, SubSeqProperties
<1> QED
  BY <1>2, ConcatProperties DEF Overwrite

(* If nothing sticks out the file is what was written.                     *)
LEMMA OverwriteSame ==
  ASSUME NEW new \in Seq(Nat), NEW old \in Seq(Nat),
         Len(Overwrite(new, old)) = Len(new)
  PROVE  Overwrite(new, old) = new
<1> DEFINE rest == SubSeq(old, Len(new) + 1, Len(old))
<1>1. \A i \in Len(new) + 1 .. Len(old) : old[i] \in Nat
  BY ElementOfSeq
<1>2. rest \in Seq(Nat)
  BY <1>1, SubSeqProperties
<1>3. Len(Overwrite(new, old)) = Len(new) + Len(rest)
  BY <1>2, ConcatProperties DEF Overwrite
<1> HIDE DEF rest
<1>4. rest = <<>>
  BY <1>2, <1>3, EmptySeq
<1> QED
  BY <1>4, ConcatEmptySeq DEF Overwrite, rest

LEMMA OverwriteNothing ==
  ASSUME NEW s \in Seq(Nat), NEW old \in Seq(Nat)
  PROVE  Overwrite(SubSeq(s, 1, 0), old) = old
<1>1. SubSeq(s, 1, 0) = <<>>
  BY SubSeqEmpty
<1>2. SubSeq(old, 1, Len(old)) = old
  BY SubSeqFull
<1> QED
  BY <1>1, <1>2, ConcatEmptySeq, EmptySeq DEF Overwrite

LEMMA OverwriteStarts ==
  ASSUME NEW s \in Seq(Nat), NEW old \in Seq(Nat)
  PROVE  IsPrefix(s, Overwrite(s, old))
<1> DEFINE rest == SubSeq(old, Len(s) + 1, Len(old))
           t == s \o rest
<1>1. \A i \in Len(s) + 1 .. Len(old) : old[i] \in Nat
  BY ElementOfSeq
<1>2. rest \in Seq(Nat)
  BY <1>1, SubSeqProperties
<1> HIDE DEF rest
<1>3. Len(s) \in Nat /\ Len(rest) \in Nat
  BY <1>2
<1>4. t \in Seq(Nat) /\ Len(t) = Len(s) + Len(rest)
  BY <1>2, ConcatProperties
<1>5. SubSeq(t, 1, Len(s)) = SubSeq(s, 1, Len(s))
  <2>1. CASE Len(s) = 0
    BY <2>1, SubSeqEmpty
  <2>2. CASE Len(s) # 0
    BY <1>2, <1>3, <2>2, SubSeqOfConcat1
  <2> QED BY <2>1, <2>2
<1> HIDE DEF t
<1>6. IsPrefix(s, t)
  BY <1>3, <1>4, <1>5 DEF IsPrefix
<1> QED
  BY <1>6 DEF t, rest, Overwrite

-----------------------------------------------------------------------------
(* Equality of what is taken for unchanged.                                *)

LEMMA SyncInit == Init => SyncInv /\ UpInv
<1> SUFFICES ASSUME Init PROVE SyncInv /\ UpInv
  OBVIOUS
<1>1. <<>> \in Seq(Nat)
  BY EmptySeq
<1>2. local \in [Names -> [data : Seq(Nat), time : {0}]]
  BY <1>1 DEF Init, NoFile
<1>3. remote \in [Names -> [data : Seq(Nat), time : {0}, meta : {0}]]
  BY <1>1 DEF Init, NoObject
<1>4. Values
  BY <1>2, <1>3 DEF Init, Values, Times, NoListing
<1>5. TimesInv /\ WrittenInv
  BY <1>3 DEF Init, TimesInv, WrittenInv, NoListing
<1>6. NoChangeIsEqual
  BY <1>2 DEF NoChangeIsEqual, SameAsObject, NoChange, Exists
<1>7. UpInv
  BY DEF Init, UpInv, UpSettles, Ended
<1> QED
  BY <1>4, <1>5, <1>6, <1>7 DEF SyncInv

(* Steps that leave the files, the objects and what broke as they were.    *)
LEMMA QuietStep ==
  ASSUME SyncInv, UNCHANGED disk, UNCHANGED broken,
         Values', TimesInv', pc' # "written"
  PROVE  SyncInv'
<1>1. WrittenInv'
  BY DEF WrittenInv
<1>2. NoChangeIsEqual'
  BY DEF SyncInv, NoChangeIsEqual, SameAsObject, NoChange, LastModified, Exists, disk
<1> QED
  BY <1>1, <1>2 DEF SyncInv

LEMMA ReturnStep ==
  ASSUME NEW e \in BOOLEAN, SyncInv, Return(e), UNCHANGED disk, UNCHANGED broken
  PROVE  SyncInv'
<1>1. DOMAIN listing' = {} /\ todo' = {} /\ seen' = 0 /\ pc' = "idle"
  BY DEF Return, NoListing
<1>2. Values'
  BY <1>1 DEF SyncInv, Values, Times, disk
<1>3. TimesInv'
  BY <1>1 DEF SyncInv, TimesInv, disk
<1> QED
  BY <1>1, <1>2, <1>3, QuietStep

(* Steps that leave the listing alone too.                                 *)
LEMMA QuietStepSameListing ==
  ASSUME SyncInv, UNCHANGED disk, UNCHANGED broken, UNCHANGED listing,
         Values', pc' # "written"
  PROVE  SyncInv'
<1>1. TimesInv'
  BY DEF SyncInv, TimesInv, disk
<1> QED
  BY <1>1, QuietStep

LEMMA ShowStep ==
  ASSUME SyncInv, UNCHANGED disk, UNCHANGED broken, pc = "list",
         NEW names \in SUBSET Objects, NEW more, NEW next, Show(names, more, next)
  PROVE  SyncInv'
<1>1. CASE names = {}
  BY <1>1, ReturnStep DEF Show
<1>2. CASE names # {}
  <2>1. /\ listing' = [n \in names |->
                        [size |-> Len(remote[n].data), time |-> remote[n].time]]
        /\ todo' = names
        /\ pc' = "page"
        /\ seen' = seen
    BY <1>2 DEF Show
  <2>2. names \subseteq Names /\ \A n \in names : remote[n].time # 0
    BY DEF Objects, Exists
  <2>3. DOMAIN listing' = names /\ \A n \in names : listing'[n].time = remote[n].time
    BY <2>1
  <2>4. \A n \in names : remote[n].time \in Times /\ remote[n].meta \in Times
    BY <2>2 DEF SyncInv, Values
  <2>5. Values'
    BY <2>1, <2>2, <2>3, <2>4 DEF SyncInv, Values, Times, disk
  <2>6. \A n \in names : remote[n].meta < remote[n].time
    BY <2>2, <2>4 DEF SyncInv, Values, TimesInv, Times
  <2>7. TimesInv'
    BY <2>3, <2>4, <2>6 DEF SyncInv, Values, TimesInv, Times, disk
  <2> QED
    BY <2>1, <2>5, <2>7, QuietStep
<1> QED
  BY <1>1, <1>2

LEMMA WrittenSeq ==
  ASSUME NEW len \in Nat, NEW t \in Nat
  PROVE  Written(len, t) \in Seq(Nat)
<1>1. Written(len, t) \in [1 .. len -> Nat]
  BY DEF Written
<1> QED
  BY <1>1, SeqDef

LEMMA EditStep ==
  ASSUME SyncInv, NEW n \in Names, NEW len \in 0 .. MaxLen, Edit(n, len)
  PROVE  SyncInv'
<1> DEFINE f == [data |-> Written(len, clock + 1), time |-> clock + 1]
<1>1. Values
  BY DEF SyncInv
<1>2. Written(len, clock + 1) \in Seq(Nat)
  BY <1>1, SyncAssumption, WrittenSeq DEF Values
<1>3. /\ local' = [local EXCEPT ![n] = f] /\ clock' = clock + 1
      /\ UNCHANGED <<remote, pc, todo, listing, seen, short>>
      /\ broken' = broken \ {n}
      /\ ~(pc = "written" /\ IsNext(n))
  BY DEF Edit, locals, page
<1>4. f \in [data : Seq(Nat), time : 0 .. clock + 1] /\ f.time = clock + 1
  BY <1>1, <1>2 DEF Values
<1> HIDE DEF f
<1>5. local' \in [Names -> [data : Seq(Nat), time : 0 .. clock + 1]]
  BY <1>1, <1>3, <1>4 DEF Values, Times
<1>6. Values'
  <2>1. /\ remote \in [Names -> [data : Seq(Nat), time : 0 .. clock + 1, meta : 0 .. clock + 1]]
        /\ seen \in 0 .. clock + 1
        /\ \A m \in DOMAIN listing : listing[m].time \in 0 .. clock + 1
    BY <1>1 DEF Values, Times
  <2>2. Times' = 0 .. clock + 1
    BY <1>3 DEF Times
  <2>3. clock' \in Nat
    BY <1>1, <1>3 DEF Values
  <2> QED
    BY <1>1, <1>3, <1>5, <2>1, <2>2, <2>3 DEF Values
<1>7. TimesInv'
  BY <1>3 DEF SyncInv, TimesInv
<1>8. WrittenInv'
  BY <1>1, <1>3 DEF SyncInv, Values, WrittenInv, IsNext
<1>9. ASSUME NEW m \in Names \ broken', SameAsObject(m)'
      PROVE  local'[m].data = remote'[m].data
  <2>1. CASE m = n
    <3>1. local'[m] = f
      BY <1>1, <1>3, <2>1 DEF Values
    <3>2. remote[m].time \in 0 .. clock /\ remote[m].meta \in 0 .. clock /\ clock \in Nat
      BY <1>1 DEF Values, Times
    <3>3. local'[m].time = remote[m].time \/ local'[m].time = remote[m].meta
      BY <1>3, <1>9 DEF SameAsObject, NoChange, LastModified
    <3> QED
      BY <1>4, <3>1, <3>2, <3>3
  <2>2. CASE m # n
    <3>1. local'[m] = local[m] /\ m \notin broken
      BY <1>1, <1>3, <2>2 DEF Values
    <3> QED
      BY <1>3, <1>9, <3>1 DEF SyncInv, NoChangeIsEqual, SameAsObject, NoChange,
         LastModified, Exists
  <2> QED BY <2>1, <2>2
<1> QED
  BY <1>6, <1>7, <1>8, <1>9 DEF SyncInv, NoChangeIsEqual

LEMMA PutStep ==
  ASSUME SyncInv, NEW n \in Names, NEW len \in 0 .. MaxLen, Put(n, len)
  PROVE  SyncInv'
<1> DEFINE o == [data |-> Written(len, clock + 1), time |-> clock + 1, meta |-> 0]
<1>1. Values
  BY DEF SyncInv
<1>2. Written(len, clock + 1) \in Seq(Nat)
  BY <1>1, SyncAssumption, WrittenSeq DEF Values
<1>3. /\ remote' = [remote EXCEPT ![n] = o] /\ clock' = clock + 1
      /\ UNCHANGED <<local, pc, todo, listing, seen, short, broken>>
  BY DEF Put, locals, page
<1>4. /\ o \in [data : Seq(Nat), time : 0 .. clock + 1, meta : 0 .. clock + 1]
      /\ o.time = clock + 1 /\ o.meta = 0
  BY <1>1, <1>2 DEF Values
<1> HIDE DEF o
<1>5. remote' \in [Names -> [data : Seq(Nat), time : 0 .. clock + 1, meta : 0 .. clock + 1]]
  BY <1>1, <1>3, <1>4 DEF Values, Times
<1>6. Values'
  <2>1. /\ local \in [Names -> [data : Seq(Nat), time : 0 .. clock + 1]]
        /\ seen \in 0 .. clock + 1
        /\ \A m \in DOMAIN listing : listing[m].time \in 0 .. clock + 1
    BY <1>1 DEF Values, Times
  <2>2. Times' = 0 .. clock + 1
    BY <1>3 DEF Times
  <2>3. clock' \in Nat
    BY <1>1, <1>3 DEF Values
  <2> QED
    BY <1>1, <1>3, <1>5, <2>1, <2>2, <2>3 DEF Values
<1>7. remote'[n] = o /\ \A m \in Names \ {n} : remote'[m] = remote[m]
  BY <1>1, <1>3 DEF Values
<1>8. TimesInv'
  <2>1. \A m \in DOMAIN listing : m \in Names /\ listing[m].time \in 0 .. clock
                                  /\ remote[m].meta \in 0 .. clock
    BY <1>1 DEF Values, Times
  <2> QED
    BY <1>1, <1>3, <1>4, <1>7, <2>1 DEF SyncInv, Values, TimesInv
<1>9. WrittenInv'
  <2> SUFFICES ASSUME pc' = "written", NEW m \in todo', IsNext(m)', ~short',
                      remote'[m].time = listing'[m].time,
                      Len(local'[m].data) = Len(remote'[m].data)
               PROVE  local'[m].data = remote'[m].data
    BY DEF WrittenInv
  <2>1. m \in Names /\ listing[m].time \in 0 .. clock
    BY <1>1, <1>3 DEF Values, Times
  <2>2. m # n
    BY <1>1, <1>3, <1>4, <1>7, <2>1 DEF Values
  <2> QED
    BY <1>3, <1>7, <2>1, <2>2 DEF SyncInv, WrittenInv, IsNext
<1>10. ASSUME NEW m \in Names \ broken', SameAsObject(m)'
       PROVE  local'[m].data = remote'[m].data
  <2>1. CASE m = n
    BY <1>1, <1>3, <1>4, <1>7, <1>10, <2>1 DEF SameAsObject, Values,
       NoChange, LastModified, Times
  <2>2. CASE m # n
    BY <1>3, <1>7, <1>10, <2>2 DEF SyncInv, NoChangeIsEqual, SameAsObject, NoChange,
       LastModified, Exists
  <2> QED BY <2>1, <2>2
<1> QED
  BY <1>6, <1>8, <1>9, <1>10 DEF SyncInv, NoChangeIsEqual

LEMMA UploadStep ==
  ASSUME SyncInv, NEW n \in Names, Upload(n)
  PROVE  SyncInv'
<1>1. Values
  BY DEF SyncInv
<1>2. /\ pc = "upload" /\ pc' = "walk" /\ todo' = todo \ {n} /\ seen' = 0
      /\ UNCHANGED <<local, listing, broken>>
  BY DEF Upload, page
<1>3. CASE UNCHANGED <<remote, clock>>
  <2>1. Values'
    BY <1>1, <1>2, <1>3 DEF Values, Times
  <2> QED
    BY <1>2, <1>3, <2>1, QuietStepSameListing DEF disk
<1>4. CASE remote' = [remote EXCEPT ![n] = Uploaded(n)] /\ clock' = clock + 1
  <2>1. /\ Uploaded(n) \in [data : Seq(Nat), time : 0 .. clock + 1, meta : 0 .. clock + 1]
        /\ Uploaded(n).data = local[n].data
        /\ Uploaded(n).time = clock + 1 /\ Uploaded(n).meta < clock + 1
    BY <1>1 DEF Values, Uploaded, Times
  <2>2. remote'[n] = Uploaded(n) /\ \A m \in Names \ {n} : remote'[m] = remote[m]
    BY <1>1, <1>4 DEF Values
  <2>3. remote' \in [Names -> [data : Seq(Nat), time : 0 .. clock + 1, meta : 0 .. clock + 1]]
    BY <1>1, <1>4, <2>1 DEF Values, Times
  <2>4. DOMAIN listing = {}
    BY <1>1, <1>2 DEF Values
  <2>5. Values'
    BY <1>1, <1>2, <1>4, <2>3, <2>4 DEF Values, Times
  <2>6. TimesInv'
    BY <1>2, <2>1, <2>2, <2>4 DEF SyncInv, TimesInv
  <2>7. WrittenInv'
    BY <1>2 DEF WrittenInv
  <2>8. ASSUME NEW m \in Names \ broken', SameAsObject(m)'
        PROVE  local'[m].data = remote'[m].data
    <3>1. CASE m = n
      BY <1>2, <2>1, <2>2, <3>1
    <3>2. CASE m # n
      BY <1>2, <2>2, <2>8, <3>2 DEF SyncInv, NoChangeIsEqual, SameAsObject, NoChange,
         LastModified, Exists
    <3> QED BY <3>1, <3>2
  <2> QED
    BY <2>5, <2>6, <2>7, <2>8 DEF SyncInv, NoChangeIsEqual
<1> QED
  BY <1>3, <1>4 DEF Upload

LEMMA GetStep ==
  ASSUME SyncInv, NEW n \in Names, Get(n)
  PROVE  SyncInv'
<1>1. Values
  BY DEF SyncInv
<1>2. /\ pc = "get" /\ IsNext(n)
      /\ UNCHANGED <<remote, listing, seen>>
  BY DEF Get, page
<1>3. CASE pc' = "page" /\ todo' = todo \ {n} /\ UNCHANGED <<local, clock, broken>>
  <2>1. Values'
    BY <1>1, <1>2, <1>3 DEF Values, Times
  <2> QED
    BY <1>2, <1>3, <2>1, QuietStepSameListing DEF disk
<1>4. ASSUME NEW k \in 0 .. Len(remote[n].data),
             local' = [local EXCEPT ![n] = Received(n, k)],
             clock' = clock + 1,
             short' = (k < Len(remote[n].data)),
             broken' = (IF k > 0 THEN broken \ {n} ELSE broken),
             pc' = "written", UNCHANGED todo
      PROVE  SyncInv'
  <2> DEFINE s == remote[n].data
             old == local[n].data
             new == SubSeq(s, 1, k)
  <2>1. s \in Seq(Nat) /\ old \in Seq(Nat) /\ Len(s) \in Nat /\ k \in Int
    BY <1>1 DEF Values
  <2>2. new \in Seq(Nat)
    <3>1. \A i \in 1 .. k : s[i] \in Nat
      BY <2>1, ElementOfSeq
    <3> QED
      BY <2>1, <3>1, SubSeqProperties
  <2>3. Received(n, k).data = Overwrite(new, old)
    BY DEF Received
  <2>4. Overwrite(new, old) \in Seq(Nat)
    BY <2>1, <2>2, OverwriteSeq
  <2>5. k = 0 => Overwrite(new, old) = old
    BY <2>1, OverwriteNothing
  <2>6. k = Len(s) /\ Len(Overwrite(new, old)) = Len(s) => Overwrite(new, old) = s
    <3>1. k = Len(s) => new = s
      BY <2>1, SubSeqFull
    <3> QED
      BY <2>1, <3>1, OverwriteSame
  <2> HIDE DEF s, old, new
  <2>7. Received(n, k).time = IF k = 0 /\ Exists(local[n]) THEN local[n].time ELSE clock + 1
    BY DEF Received
  <2>8. Received(n, k) \in [data : Seq(Nat), time : 0 .. clock + 1]
    BY <1>1, <2>3, <2>4, <2>7 DEF Values, Times, Received
  <2>9. local'[n] = Received(n, k) /\ \A m \in Names \ {n} : local'[m] = local[m]
    BY <1>1, <1>4 DEF Values
  <2>10. Values'
    <3>1. local' \in [Names -> [data : Seq(Nat), time : 0 .. clock + 1]]
      BY <1>1, <1>4, <2>8 DEF Values, Times
    <3>2. /\ remote \in [Names -> [data : Seq(Nat), time : 0 .. clock + 1, meta : 0 .. clock + 1]]
          /\ seen \in 0 .. clock + 1
          /\ \A m \in DOMAIN listing : listing[m].time \in 0 .. clock + 1
      BY <1>1 DEF Values, Times
    <3>3. Times' = 0 .. clock + 1
      BY <1>4 DEF Times
    <3>4. clock' \in Nat
      BY <1>1, <1>4 DEF Values
    <3> QED
      BY <1>1, <1>2, <1>4, <3>1, <3>2, <3>3, <3>4 DEF Values
  <2>11. TimesInv'
    BY <1>2 DEF SyncInv, TimesInv
  <2>12. WrittenInv'
    <3> SUFFICES ASSUME NEW m \in todo', IsNext(m)', ~short',
                        Len(local'[m].data) = Len(remote'[m].data)
                 PROVE  local'[m].data = remote'[m].data
      BY DEF WrittenInv
    <3>1. m = n
      <4>1. m \in Int /\ n \in Int /\ n \in todo /\ m \in todo
        BY <1>1, <1>2, <1>4 DEF Values, Names, IsNext
      <4>2. m <= n /\ n <= m
        BY <1>2, <1>4, <4>1 DEF IsNext
      <4> QED
        BY <4>1, <4>2
    <3>2. k = Len(s)
      <4>1. ~(k < Len(s))
        BY <1>4, Zenon DEF s
      <4> QED
        BY <2>1, <4>1 DEF s
    <3> QED
      BY <1>2, <2>3, <2>6, <2>9, <3>1, <3>2 DEF s
  <2>13. ASSUME NEW m \in Names \ broken', SameAsObject(m)'
         PROVE  local'[m].data = remote'[m].data
    <3>1. CASE m # n
      <4>1. m \notin broken
        BY <1>4, <3>1
      <4> QED
        BY <1>2, <2>9, <2>13, <3>1, <4>1 DEF SyncInv, NoChangeIsEqual, SameAsObject,
           NoChange, LastModified, Exists
    <3>2. CASE m = n /\ k = 0 /\ Exists(local[n])
      <4>1. local'[n].data = local[n].data /\ local'[n].time = local[n].time
        BY <2>3, <2>5, <2>7, <2>9, <3>2 DEF old
      <4>2. n \notin broken /\ SameAsObject(n)
        BY <1>2, <1>4, <2>13, <3>2, <4>1 DEF SameAsObject, NoChange, Exists
      <4> QED
        BY <1>2, <3>2, <4>1, <4>2 DEF SyncInv, NoChangeIsEqual
    <3>3. CASE m = n /\ ~(k = 0 /\ Exists(local[n]))
      <4>1. remote[n].time \in 0 .. clock /\ remote[n].meta \in 0 .. clock /\ clock \in Nat
        BY <1>1 DEF Values, Times
      <4>2. local'[n].time = remote[n].time \/ local'[n].time = remote[n].meta
        BY <1>2, <2>13, <3>3 DEF SameAsObject, NoChange, LastModified
      <4>3. local'[n].time = clock + 1
        BY <2>7, <2>9, <3>3
      <4> QED
        BY <4>1, <4>2, <4>3
    <3> QED BY <3>1, <3>2, <3>3
  <2> QED
    BY <2>10, <2>11, <2>12, <2>13 DEF SyncInv, NoChangeIsEqual
<1> QED
  BY <1>3, <1>4 DEF Get

(* The time of the listing is that of no last_modified, and of the object  *)
(* only if the object is the one that was written.                         *)
LEMMA SetTimeStep ==
  ASSUME SyncInv, NEW n \in Names, SetTime(n)
  PROVE  SyncInv'
<1>1. Values
  BY DEF SyncInv
<1>2. /\ pc = "written" /\ IsNext(n) /\ n \in todo
      /\ UNCHANGED <<remote, clock, listing, seen>>
      /\ pc' = "page" /\ todo' = todo \ {n}
      /\ broken' = IF short THEN broken \cup {n} ELSE broken
  BY DEF SetTime, page, IsNext
<1>3. local' = [local EXCEPT ![n].time = listing[n].time]
  BY DEF SetTime
<1>4. n \in DOMAIN listing /\ listing[n].time \in 0 .. clock
  BY <1>1, <1>2 DEF Values, Times
<1>5. /\ local'[n].data = local[n].data /\ local'[n].time = listing[n].time
      /\ \A m \in Names \ {n} : local'[m] = local[m]
  BY <1>1, <1>3 DEF Values
<1>6. Values'
  <2>1. local' \in [Names -> [data : Seq(Nat), time : Times]]
    <3>1. [local[n] EXCEPT !.time = listing[n].time] \in [data : Seq(Nat), time : Times]
      BY <1>1, <1>4 DEF Values, Times
    <3> QED
      BY <1>1, <1>3, <3>1 DEF Values
  <2> QED
    BY <1>1, <1>2, <2>1 DEF Values, Times
<1>7. TimesInv'
  BY <1>2 DEF SyncInv, TimesInv
<1>8. WrittenInv'
  BY <1>2 DEF WrittenInv
<1>9. ASSUME NEW m \in Names \ broken', SameAsObject(m)'
      PROVE  local'[m].data = remote'[m].data
  <2>1. m \notin broken
    BY <1>2, <1>9
  <2>2. CASE m # n
    BY <1>2, <1>5, <1>9, <2>1, <2>2 DEF SyncInv, NoChangeIsEqual, SameAsObject,
       NoChange, LastModified, Exists
  <2>3. CASE m = n
    <3>1. ~short
      BY <1>2, <1>9, <2>3
    <3>2. Len(local[n].data) = Len(remote[n].data)
      BY <1>2, <1>5, <1>9, <2>3 DEF SameAsObject, NoChange
    <3>3. listing[n].time = LastModified(remote[n].time, remote[n].meta)
      BY <1>2, <1>5, <1>9, <2>3 DEF SameAsObject, NoChange
    <3>4. remote[n].meta < listing[n].time
      BY <1>4 DEF SyncInv, TimesInv
    <3>5. remote[n].meta \in Int /\ listing[n].time \in Int
      BY <1>1, <1>4 DEF Values, Times
    <3>6. listing[n].time = remote[n].time
      BY <3>3, <3>4, <3>5 DEF LastModified
    <3> QED
      BY <1>2, <1>5, <2>3, <3>1, <3>2, <3>6 DEF SyncInv, WrittenInv
  <2> QED BY <2>2, <2>3
<1> QED
  BY <1>6, <1>7, <1>8, <1>9 DEF SyncInv, NoChangeIsEqual

LEMMA SyncNext == SyncInv /\ [Next]_vars => SyncInv'
<1> SUFFICES ASSUME SyncInv, [Next]_vars PROVE SyncInv'
  OBVIOUS
<1>0. Values
  BY DEF SyncInv
<1>1. ASSUME NEW n \in Names, NEW len \in 0 .. MaxLen, Edit(n, len) \/ Put(n, len)
      PROVE  SyncInv'
  BY <1>1, EditStep, PutStep
<1>2. ASSUME NEW down \in BOOLEAN, NEW dry \in BOOLEAN, Start(down, dry)
      PROVE  SyncInv'
  <2>1. /\ pc = "idle" /\ pc' \in {"list", "walk"} /\ todo' \subseteq Names
        /\ UNCHANGED <<disk, listing, seen, broken>>
    BY <1>2 DEF Start, page
  <2>2. Values'
    BY <1>0, <2>1 DEF Values, Times, disk
  <2> QED
    BY <2>1, <2>2, QuietStepSameListing
<1>3. ASSUME NEW n \in Names, CompareWithObject(n) PROVE SyncInv'
  <2>1. pc = "walk" /\ UNCHANGED <<disk, broken>>
    BY <1>3 DEF CompareWithObject
  <2>2. CASE Return(TRUE)
    BY <2>1, <2>2, ReturnStep
  <2>3. CASE /\ pc' \in {"walk", "upload"} /\ todo' \subseteq todo
             /\ UNCHANGED listing /\ seen' \in {seen, local[n].time}
    <3>1. seen' \in Times
      BY <1>0, <2>3 DEF Values
    <3>2. Values'
      BY <1>0, <2>1, <2>3, <3>1 DEF Values, Times, disk
    <3> QED
      BY <2>1, <2>3, <3>2, QuietStepSameListing
  <2> QED
    BY <1>3, <2>1, <2>2, <2>3 DEF CompareWithObject, page
<1>4. ASSUME NEW n \in Names, CompareWithFile(n) PROVE SyncInv'
  <2>1. /\ pc = "page" /\ pc' \in {"page", "get"} /\ todo' \subseteq todo
        /\ UNCHANGED <<disk, listing, seen, broken>>
    BY <1>4 DEF CompareWithFile, page
  <2>2. Values'
    BY <1>0, <2>1 DEF Values, Times, disk
  <2> QED
    BY <2>1, <2>2, QuietStepSameListing
<1>5. ASSUME NEW n \in Names, Upload(n) \/ Get(n) \/ SetTime(n) PROVE SyncInv'
  BY <1>5, UploadStep, GetStep, SetTimeStep
<1>6. CASE EndWalk
  BY <1>6, ReturnStep DEF EndWalk
<1>7. CASE List
  <2>1. pc = "list" /\ UNCHANGED disk /\ UNCHANGED broken
    BY <1>7 DEF List
  <2>2. PageNames \in SUBSET Objects /\ \A k : FirstOf(Behind, k) \in SUBSET Objects
    BY DEF PageNames, FirstOf, Behind
  <2>3. CASE Return(TRUE)
    BY <2>1, <2>3, ReturnStep
  <2>4. ASSUME NEW names \in SUBSET Objects, NEW more, NEW next, Show(names, more, next)
        PROVE  SyncInv'
    BY <2>1, <2>4, ShowStep
  <2> QED
    BY <1>7, <2>2, <2>3, <2>4 DEF List
<1>8. CASE EndPage
  <2>1. UNCHANGED disk /\ UNCHANGED broken /\ pc = "page"
    BY <1>8 DEF EndPage
  <2>2. CASE Return(FALSE)
    BY <2>1, <2>2, ReturnStep
  <2>3. CASE pc' = "list" /\ UNCHANGED locals
    <3>1. Values'
      BY <1>0, <2>1, <2>3 DEF Values, Times, disk, locals, page
    <3> QED
      BY <2>1, <2>3, <3>1, QuietStepSameListing DEF locals, page
  <2> QED
    BY <1>8, <2>2, <2>3 DEF EndPage
<1>9. CASE Kill
  BY <1>9, ReturnStep DEF Kill
<1>10. CASE UNCHANGED vars
  BY <1>10 DEF vars, disk, locals, page, SyncInv, Values, TimesInv, WrittenInv, IsNext,
     NoChangeIsEqual, SameAsObject, NoChange, LastModified, Exists, Times
<1> QED
  BY <1>1, <1>2, <1>3, <1>4, <1>5, <1>6, <1>7, <1>8, <1>9, <1>10 DEF Next

(* Whatever sync calls unchanged is equal to its object, but for what was  *)
(* left by a download that broke off.                                      *)
THEOREM NoChangeMeansEqual == Spec => []NoChangeIsEqual
<1>1. SyncInv => NoChangeIsEqual
  BY DEF SyncInv
<1> QED
  BY <1>1, SyncInit, SyncNext, PTL DEF Spec

-----------------------------------------------------------------------------
(* A run of SyncLocalToDag leaves nothing for the next one.                *)

(* A change of one name, which makes it dirty.                             *)
LEMMA UpChange ==
  ASSUME UpInv, NEW n \in Names, dirty' = dirty \cup {n},
         UNCHANGED <<pc, command, err, locals, runs>>,
         \A m \in Names \ {n} : local'[m] = local[m] /\ remote'[m] = remote[m],
         Exists(local[n]) => Exists(local'[n]),
         todo \subseteq Names
  PROVE  UpInv'
<1>1. UNCHANGED <<pc, toLocal, dryRun, err, todo, seen, runs>>
  BY DEF command, locals
<1>2. \A m \in Names \ dirty' :
        /\ m \notin dirty /\ local'[m] = local[m]
        /\ SameAsObject(m)' = SameAsObject(m)
  BY DEF SameAsObject, NoChange, LastModified, Exists
<1>3. \A m \in Names : Exists(local[m]) => Exists(local'[m])
  BY DEF Exists
<1>4. ASSUME pc' \in {"walk", "upload"}
      PROVE  /\ ~toLocal'
             /\ \A m \in todo' : Exists(local'[m])
             /\ ~dryRun' => \A m \in Names \ dirty' :
                              Exists(local'[m]) => m \in todo' \/ SameAsObject(m)'
  <2>1. ~toLocal /\ \A m \in todo : Exists(local[m])
    BY <1>1, <1>4 DEF UpInv
  <2>2. ~dryRun => \A m \in Names \ dirty : Exists(local[m]) => m \in todo \/ SameAsObject(m)
    BY <1>1, <1>4 DEF UpInv
  <2> QED
    BY <1>1, <1>2, <1>3, <2>1, <2>2
<1>5. ASSUME pc' = "upload"
      PROVE  /\ ~dryRun' /\ seen' # 0
             /\ \A m \in todo' \ dirty' : IsNext(m)' => seen' = local'[m].time
  BY <1>1, <1>2, <1>5 DEF UpInv, IsNext
<1>6. pc' \in {"list", "page", "get", "written"} => toLocal'
  BY <1>1 DEF UpInv
<1>7. UpSettles'
  BY <1>1, <1>2 DEF UpInv, UpSettles, Ended
<1> QED
  BY <1>4, <1>5, <1>6, <1>7 DEF UpInv

(* Steps of SyncDagToLocal.                                                *)
LEMMA DownStep ==
  ASSUME toLocal, UNCHANGED toLocal,
         pc' \in {"idle", "list", "page", "get", "written"}
  PROVE  UpInv'
BY DEF UpInv, UpSettles, Ended

(* Runs that end with an error.                                            *)
LEMMA FailStep ==
  ASSUME Return(TRUE) PROVE UpInv'
BY DEF Return, UpInv, UpSettles, Ended

LEMMA UpUpload ==
  ASSUME SyncInv, UpInv, NEW n \in Names, Upload(n)
  PROVE  UpInv'
<1>1. /\ pc = "upload" /\ pc' = "walk" /\ todo' = todo \ {n} /\ IsNext(n) /\ n \in todo
      /\ UNCHANGED <<local, toLocal, dryRun>>
  BY DEF Upload, command, IsNext
<1>2. /\ ~toLocal /\ ~dryRun /\ seen # 0 /\ \A m \in todo : Exists(local[m])
      /\ \A m \in Names \ dirty : Exists(local[m]) => m \in todo \/ SameAsObject(m)
      /\ n \notin dirty => seen = local[n].time
  BY <1>1 DEF UpInv
<1>3. \/ remote' = [remote EXCEPT ![n] = Uploaded(n)] /\ dirty' = dirty
      \/ remote' = remote /\ dirty' = dirty \cup {n}
  BY DEF Upload
<1>4. \A m \in Names \ {n} : remote'[m] = remote[m]
  BY <1>3 DEF SyncInv, Values
<1>5. ASSUME NEW m \in Names \ dirty', Exists(local'[m])
      PROVE  m \in todo' \/ SameAsObject(m)'
  <2>1. CASE m # n
    <3>1. SameAsObject(m)' = SameAsObject(m)
      BY <1>1, <1>4, <2>1 DEF SameAsObject, NoChange, LastModified, Exists
    <3> QED
      BY <1>1, <1>2, <1>3, <1>5, <2>1, <3>1
  <2>2. CASE m = n
    <3>1. dirty' = dirty /\ remote'[n] = Uploaded(n)
      BY <1>3, <1>5, <2>2 DEF SyncInv, Values
    <3>2. /\ remote'[n].data = local[n].data /\ remote'[n].meta = local[n].time
          /\ remote'[n].meta # 0
      BY <1>2, <1>5, <2>2, <3>1 DEF Uploaded
    <3> QED
      BY <1>1, <1>5, <2>2, <3>2 DEF SameAsObject, NoChange, LastModified
  <2> QED BY <2>1, <2>2
<1> QED
  BY <1>1, <1>2, <1>5 DEF UpInv, UpSettles, Ended

LEMMA UpCompare ==
  ASSUME SyncInv, UpInv, NEW n \in Names, CompareWithObject(n)
  PROVE  UpInv'
<1>1. /\ pc = "walk" /\ IsNext(n) /\ n \in todo
      /\ UNCHANGED <<local, remote, toLocal, dryRun, dirty>>
  BY DEF CompareWithObject, disk, command, IsNext
<1>2. /\ ~toLocal /\ \A m \in todo : Exists(local[m])
      /\ ~dryRun => \A m \in Names \ dirty : Exists(local[m]) => m \in todo \/ SameAsObject(m)
  BY <1>1 DEF UpInv
<1>3. \A m \in Names : SameAsObject(m)' = SameAsObject(m)
  BY <1>1 DEF SameAsObject, NoChange, LastModified, Exists
<1>4. CASE Return(TRUE)
  BY <1>4, FailStep
<1>5. CASE (SameAsObject(n) \/ dryRun) /\ pc' = "walk" /\ todo' = todo \ {n}
  BY <1>1, <1>2, <1>3, <1>5 DEF UpInv, UpSettles, Ended, Exists
<1>6. CASE /\ ~dryRun /\ pc' = "upload" /\ todo' = todo /\ seen' = local[n].time
  <2>1. \A m \in todo : IsNext(m)' => m = n
    <3>1. todo \subseteq Int
      BY DEF SyncInv, Values, Names
    <3> QED
      BY <1>1, <1>6, <3>1 DEF IsNext
  <2>2. seen' # 0
    BY <1>1, <1>2, <1>6 DEF Exists
  <2> QED
    BY <1>1, <1>2, <1>3, <1>6, <2>1, <2>2 DEF UpInv, UpSettles, Ended, Exists
<1> QED
  BY <1>1, <1>4, <1>5, <1>6 DEF CompareWithObject

LEMMA UpNext == SyncInv /\ UpInv /\ [Next]_vars => UpInv'
<1> SUFFICES ASSUME SyncInv, UpInv, [Next]_vars PROVE UpInv'
  OBVIOUS
<1>0. Values
  BY DEF SyncInv
<1>1. ASSUME NEW n \in Names, NEW len \in 0 .. MaxLen, Edit(n, len) PROVE UpInv'
  <2>1. /\ \A m \in Names \ {n} : local'[m] = local[m] /\ remote'[m] = remote[m]
        /\ local'[n].time = clock + 1 /\ clock + 1 # 0
    BY <1>0, <1>1 DEF Values, Edit
  <2> QED
    BY <1>0, <1>1, <2>1, UpChange DEF Edit, Values, Exists
<1>2. ASSUME NEW n \in Names, NEW len \in 0 .. MaxLen, Put(n, len) PROVE UpInv'
  <2>1. /\ \A m \in Names \ {n} : local'[m] = local[m] /\ remote'[m] = remote[m]
        /\ local'[n] = local[n]
    BY <1>0, <1>2 DEF Values, Put
  <2> QED
    BY <1>0, <1>2, <2>1, UpChange DEF Put, Values
<1>3. ASSUME NEW down \in BOOLEAN, NEW dry \in BOOLEAN, Start(down, dry) PROVE UpInv'
  <2>1. CASE down
    BY <1>3, <2>1, DownStep DEF Start, UpInv, UpSettles, Ended
  <2>2. CASE ~down
    <3>1. /\ pc' = "walk" /\ todo' = {n \in Names : Exists(local[n])} /\ ~toLocal'
          /\ local' = local
      BY <1>3, <2>2 DEF Start, disk
    <3> QED
      BY <3>1 DEF UpInv, UpSettles, Ended, Exists
  <2> QED BY <2>1, <2>2
<1>4. ASSUME NEW n \in Names, CompareWithObject(n) \/ Upload(n) PROVE UpInv'
  BY <1>4, UpCompare, UpUpload
<1>5. ASSUME NEW n \in Names, CompareWithFile(n) \/ Get(n) \/ SetTime(n) PROVE UpInv'
  <2>1. toLocal /\ UNCHANGED toLocal /\ pc' \in {"page", "get", "written"}
    BY <1>5 DEF UpInv, CompareWithFile, Get, SetTime, command
  <2> QED
    BY <2>1, DownStep
<1>6. CASE EndWalk
  <2>1. /\ pc = "walk" /\ todo = {} /\ pc' = "idle"
        /\ UNCHANGED <<local, remote, toLocal, dryRun, dirty>>
    BY <1>6 DEF EndWalk, Return, disk, command
  <2>2. \A m \in Names : SameAsObject(m)' = SameAsObject(m)
    BY <2>1 DEF SameAsObject, NoChange, LastModified, Exists
  <2> QED
    BY <2>1, <2>2 DEF UpInv, UpSettles, Ended, Exists
<1>7. CASE List \/ EndPage
  <2>1. toLocal /\ UNCHANGED toLocal
    BY <1>7 DEF UpInv, List, EndPage, command
  <2>2. pc' \in {"idle", "list", "page"}
    BY <1>7 DEF List, EndPage, Show, Return
  <2> QED
    BY <2>1, <2>2, DownStep
<1>8. CASE Kill
  BY <1>8, FailStep DEF Kill
<1>9. CASE UNCHANGED vars
  <2>1. UNCHANGED <<local, remote, pc, toLocal, dryRun, err, todo, seen, dirty, runs>>
    BY <1>9 DEF vars, disk, command, locals, bounds
  <2>2. \A m \in Names : SameAsObject(m)' = SameAsObject(m)
    BY <2>1 DEF SameAsObject, NoChange, LastModified, Exists
  <2> QED
    BY <2>1, <2>2 DEF UpInv, UpSettles, Ended, Exists, IsNext
<1> QED
  BY <1>1, <1>2, <1>3, <1>4, <1>5, <1>6, <1>7, <1>8, <1>9 DEF Next

(* After a run of SyncLocalToDag that returns nil, the next one finds      *)
(* nothing to do, but for what was changed or refused meanwhile.           *)
THEOREM UpwardsSettles == Spec => []UpSettles
<1>1. UpInv => UpSettles
  BY DEF UpInv
<1> QED
  BY <1>1, SyncInit, SyncNext, UpNext, PTL DEF Spec

-----------------------------------------------------------------------------
(* The pages of a listing leave nothing out.                               *)

LEMMA LeastOf ==
  ASSUME NEW S \in SUBSET Nat, S # {}
  PROVE  \E x \in S : \A y \in S : x <= y
<1>1. PICK x \in S : \A y \in S : ~(<<y, x>> \in OpToRel(<, Nat))
  BY NatLessThanWellFounded, WFMin
<1>2. \A y \in S : ~(y < x)
  <2> SUFFICES ASSUME NEW y \in S PROVE ~(y < x)
    OBVIOUS
  <2>1. y \in Nat /\ x \in Nat
    OBVIOUS
  <2>2. ~(<<y, x>> \in OpToRel(<, Nat))
    BY <1>1
  <2>3. <<y, x>> \in Nat \X Nat
    BY <2>1
  <2> QED
    BY <2>2, <2>3 DEF OpToRel
<1> QED
  BY <1>2

LEMMA MaxOf ==
  ASSUME NEW S \in SUBSET Names, S # {}
  PROVE  Max(S) \in S /\ \A y \in S : y <= Max(S)
<1> DEFINE T == {N - x : x \in S}
<1>1. T \in SUBSET Nat /\ T # {}
  BY SyncAssumption DEF Names
<1>2. PICK t \in T : \A u \in T : t <= u
  BY <1>1, LeastOf
<1>3. PICK x \in S : t = N - x
  BY <1>2
<1>4. \A y \in S : x >= y
  <2> SUFFICES ASSUME NEW y \in S PROVE x >= y
    OBVIOUS
  <2>1. N - y \in T
    OBVIOUS
  <2> QED
    BY <1>2, <1>3, <2>1, SyncAssumption DEF Names
<1>5. Max(S) \in S /\ \A y \in S : Max(S) >= y
  BY <1>3, <1>4 DEF Max
<1> QED
  BY <1>5 DEF Names

LEMMA NextPages ==
  ASSUME NEW n \in Behind \ PageNames
  PROVE  PageNames # {} /\ n > NextMarker
<1> DEFINE Before(m) == {x \in Behind : x < m}
<1>1. Behind \in SUBSET Names /\ PageNames \in SUBSET Behind
  BY DEF Behind, Objects, PageNames, FirstOf
<1>2. \A m : IsFiniteSet(Before(m)) /\ Cardinality(Before(m)) \in Nat
  <2> SUFFICES ASSUME NEW m
               PROVE  IsFiniteSet(Before(m)) /\ Cardinality(Before(m)) \in Nat
    OBVIOUS
  <2>1. Before(m) \in SUBSET (1 .. N)
    BY <1>1 DEF Names
  <2>2. IsFiniteSet(1 .. N)
    BY SyncAssumption, FS_Interval
  <2> HIDE DEF Before
  <2>3. IsFiniteSet(Before(m))
    BY <2>1, <2>2, FS_Subset
  <2> QED
    BY <2>3, FS_CardinalityType
<1>3. \A m \in Behind : m \in PageNames <=> Cardinality(Before(m)) < PageSize
  BY DEF PageNames, FirstOf
<1>4. \A m \in PageNames : m < n
  <2> SUFFICES ASSUME NEW m \in PageNames, n <= m PROVE FALSE
    BY <1>1 DEF Names
  <2>1. Before(n) \in SUBSET Before(m)
    <3> SUFFICES ASSUME NEW x \in Before(n) PROVE x \in Before(m)
      OBVIOUS
    <3>1. x \in Int /\ n \in Int /\ m \in Int /\ x < n /\ x \in Behind
      BY <1>1 DEF Names
    <3>2. x < m
      BY <3>1
    <3> QED
      BY <3>1, <3>2
  <2>2. Cardinality(Before(n)) <= Cardinality(Before(m))
    BY <1>2, <2>1, FS_Subset
  <2> HIDE DEF Before
  <2> QED
    BY <1>1, <1>2, <1>3, <2>2, SyncAssumption
<1>5. PageNames # {}
  <2>1. PICK x \in Behind : \A y \in Behind : x <= y
    <3>1. Behind \in SUBSET Nat /\ Behind # {}
      BY <1>1 DEF Names
    <3> QED
      BY <3>1, LeastOf
  <2>2. Before(x) = {}
    <3> SUFFICES ASSUME NEW y \in Before(x) PROVE FALSE
      OBVIOUS
    <3>1. y \in Behind /\ y < x /\ x \in Behind
      OBVIOUS
    <3>2. x <= y /\ y \in Int /\ x \in Int
      BY <1>1, <2>1, <3>1 DEF Names
    <3> QED
      BY <3>1, <3>2
  <2>3. Cardinality(Before(x)) = 0
    BY <2>2, FS_EmptySet
  <2> HIDE DEF Before
  <2> QED
    BY <1>3, <2>3, SyncAssumption
<1>6. NextMarker \in PageNames
  BY <1>1, <1>5, MaxOf DEF NextMarker
<1> QED
  BY <1>4, <1>5, <1>6

-----------------------------------------------------------------------------
(* A run of SyncDagToLocal leaves every object in its file.                *)

Downwards == {"list", "page", "get", "written"}

LEMMA DownInit == Init => DownInv
BY DEF Init, DownInv, DownSettles, Ended

(* A name whose file and object stay as they were.                         *)
LEMMA SettledStays ==
  ASSUME NEW m, local'[m] = local[m], remote'[m] = remote[m]
  PROVE  /\ SameAsObject(m)' <=> SameAsObject(m)
         /\ Settled(m)' <=> Settled(m)
<1>1. SameAsObject(m)' <=> SameAsObject(m)
  BY DEF SameAsObject, NoChange, LastModified, Exists
<1>2. IsPrefix(remote[m].data, local[m].data)' <=> IsPrefix(remote[m].data, local[m].data)
  BY DEF IsPrefix
<1> QED
  BY <1>1, <1>2 DEF Settled

(* Steps outside a run downwards.                                          *)
LEMMA OtherStep ==
  ASSUME pc' \notin Downwards, pc' = "idle" => marker' = 0, ~toLocal' \/ err'
  PROVE  DownInv'
BY DEF DownInv, DownSettles, Ended, Downwards

LEMMA DownChange ==
  ASSUME DownInv, NEW n \in Names, dirty' = dirty \cup {n},
         UNCHANGED <<pc, command, err, locals, runs>>,
         \A m \in Names \ {n} : local'[m] = local[m] /\ remote'[m] = remote[m],
         todo \subseteq Names
  PROVE  DownInv'
<1>1. UNCHANGED <<pc, toLocal, dryRun, err, todo, listing, truncated, marker, runs>>
  BY DEF command, locals, page
<1>2. \A m \in Names \ dirty' :
        /\ m \notin dirty /\ local'[m] = local[m] /\ remote'[m] = remote[m]
        /\ Settled(m)' = Settled(m)
        /\ (m \in Objects)' = (m \in Objects)
  <2> SUFFICES ASSUME NEW m \in Names \ dirty'
               PROVE  /\ m \notin dirty /\ local'[m] = local[m] /\ remote'[m] = remote[m]
                      /\ Settled(m)' = Settled(m)
                      /\ (m \in Objects)' = (m \in Objects)
    OBVIOUS
  <2>1. m # n /\ m \notin dirty /\ local'[m] = local[m] /\ remote'[m] = remote[m]
    OBVIOUS
  <2>2. (Settled(m)' = Settled(m)) /\ (m \in Objects)' = (m \in Objects)
    BY <2>1, SettledStays DEF Objects, Exists, Settled, SameAsObject, NoChange
  <2> QED BY <2>1, <2>2
<1>3. Objects' \subseteq Names
  BY DEF Objects
<1>4. ASSUME pc' \in Downwards, NEW m \in todo' \ dirty'
      PROVE  listing'[m].size = Len(remote'[m].data) /\ listing'[m].time = remote'[m].time
  BY <1>1, <1>2, <1>4 DEF DownInv, Downwards
<1>5. ASSUME pc' \in Downwards, ~dryRun', NEW m \in Objects' \ dirty'
      PROVE  m \in todo' \/ (m > marker' /\ (pc' = "list" \/ truncated')) \/ Settled(m)'
  <2>1. m \in Objects \ dirty /\ (Settled(m)' = Settled(m))
    BY <1>2, <1>3, <1>5
  <2> QED
    BY <1>1, <1>5, <2>1 DEF DownInv, Downwards
<1>6. ASSUME pc' = "written", NEW m \in todo' \ dirty', IsNext(m)'
      PROVE  IsPrefix(remote[m].data, local[m].data)'
  <2>1. m \in todo \ dirty /\ IsNext(m) /\ local'[m] = local[m] /\ remote'[m] = remote[m]
    BY <1>1, <1>2, <1>6 DEF IsNext
  <2> QED
    BY <1>1, <1>6, <2>1 DEF DownInv, IsPrefix
<1>7. DownSettles'
  <2> SUFFICES ASSUME Ended(TRUE)', NEW m \in Objects' \ dirty' PROVE Settled(m)'
    BY DEF DownSettles
  <2>1. Ended(TRUE) /\ m \in Objects \ dirty
    BY <1>1, <1>2, <1>3 DEF Ended
  <2> QED
    BY <1>2, <1>3, <2>1 DEF DownInv, DownSettles
<1> QED
  BY <1>1, <1>4, <1>5, <1>6, <1>7 DEF DownInv, Downwards

(* Steps that do no more than go on in the page.                           *)
LEMMA DownQuiet ==
  ASSUME DownInv, pc \in Downwards, pc' \in Downwards, pc' # "written", pc' # "list",
         UNCHANGED <<disk, dryRun, page, dirty>>, pc # "list",
         todo' \subseteq todo,
         ~dryRun => \A m \in (todo \ todo') \ dirty : m \in Objects => Settled(m)
  PROVE  DownInv'
<1>1. UNCHANGED <<local, remote, listing, truncated, marker>>
  BY DEF disk, page
<1>2. \A m : Settled(m)' <=> Settled(m)
  BY <1>1, SettledStays
<1>3. Objects' = Objects
  BY <1>1 DEF Objects
<1>4. ASSUME ~dryRun', NEW m \in Objects' \ dirty'
      PROVE  m \in todo' \/ (m > marker' /\ (pc' = "list" \/ truncated')) \/ Settled(m)'
  BY <1>1, <1>2, <1>3, <1>4 DEF DownInv, Downwards
<1>5. \A m \in todo' \ dirty' : /\ listing'[m].size = Len(remote'[m].data)
                               /\ listing'[m].time = remote'[m].time
  BY <1>1 DEF DownInv, Downwards
<1> QED
  BY <1>4, <1>5 DEF DownInv, Downwards, DownSettles, Ended

LEMMA DownCompare ==
  ASSUME SyncInv, DownInv, NEW n \in Names, CompareWithFile(n)
  PROVE  DownInv'
<1>1. /\ pc = "page" /\ IsNext(n) /\ n \in todo /\ pc' \in {"page", "get"}
      /\ UNCHANGED <<disk, dryRun, page, command, err, seen, short, bounds>>
  BY DEF CompareWithFile, IsNext, command
<1>2. CASE dryRun /\ todo' = todo \ {n} /\ UNCHANGED dirty
  BY <1>1, <1>2, DownQuiet DEF Downwards
<1>3. CASE todo' = todo \ {n} /\ dirty' = dirty \cup {n} /\ pc' = "page" /\ ~dryRun
  <2>1. UNCHANGED <<local, remote, listing, truncated, marker, dryRun>>
    BY <1>1 DEF disk, page
  <2>2. \A m : Settled(m)' <=> Settled(m)
    BY <2>1, SettledStays
  <2>3. Objects' = Objects
    BY <2>1 DEF Objects
  <2>4. \A m \in Objects' \ dirty' :
          m \in todo' \/ (m > marker' /\ (pc' = "list" \/ truncated')) \/ Settled(m)'
    BY <1>1, <1>3, <2>1, <2>2, <2>3 DEF DownInv
  <2>5. \A m \in todo' \ dirty' : /\ listing'[m].size = Len(remote'[m].data)
                                 /\ listing'[m].time = remote'[m].time
    BY <1>1, <1>3, <2>1 DEF DownInv
  <2> QED
    BY <1>3, <2>4, <2>5 DEF DownInv, DownSettles, Ended
<1>4. ASSUME NEW found, SameAsSummary(n, found), todo' = todo \ {n}, UNCHANGED dirty
      PROVE  DownInv'
  <2>1. n \notin dirty => SameAsObject(n)
    BY <1>1, <1>4 DEF DownInv, SameAsSummary, SameAsObject
  <2> QED
    BY <1>1, <1>4, <2>1, DownQuiet DEF Downwards, Settled
<1>5. CASE pc' = "get" /\ UNCHANGED todo /\ UNCHANGED dirty
  BY <1>1, <1>5, DownQuiet DEF Downwards
<1> QED
  BY <1>1, <1>2, <1>3, <1>4, <1>5 DEF CompareWithFile

LEMMA DownGet ==
  ASSUME SyncInv, DownInv, NEW n \in Names, Get(n)
  PROVE  DownInv'
<1>0. Values
  BY DEF SyncInv
<1>1. /\ pc = "get" /\ IsNext(n) /\ n \in todo
      /\ UNCHANGED <<remote, dryRun, listing, truncated, marker>>
  BY DEF Get, IsNext, command, page
<1>2. Objects' = Objects
  BY <1>1 DEF Objects
<1>3. CASE /\ pc' = "page" /\ todo' = todo \ {n} /\ dirty' = dirty \cup {n}
           /\ UNCHANGED local
  <2>1. \A m : Settled(m)' <=> Settled(m)
    BY <1>1, <1>3, SettledStays
  <2>2. ASSUME ~dryRun', NEW m \in Objects' \ dirty'
        PROVE  m \in todo' \/ (m > marker' /\ truncated') \/ Settled(m)'
    BY <1>1, <1>2, <1>3, <2>1, <2>2 DEF DownInv
  <2>3. \A m \in todo' \ dirty' : /\ listing'[m].size = Len(remote'[m].data)
                                 /\ listing'[m].time = remote'[m].time
    BY <1>1, <1>3 DEF DownInv
  <2> QED
    BY <1>3, <2>2, <2>3 DEF DownInv, DownSettles, Ended
<1>4. ASSUME NEW k \in 0 .. Len(remote[n].data),
             local' = [local EXCEPT ![n] = Received(n, k)],
             short' = (k < Len(remote[n].data)),
             dirty' = (IF short' THEN dirty \cup {n} ELSE dirty),
             pc' = "written", UNCHANGED todo
      PROVE  DownInv'
  <2>1. local'[n] = Received(n, k) /\ \A m \in Names \ {n} : local'[m] = local[m]
    BY <1>0, <1>4 DEF Values
  <2>2. \A m \in Names \ {n} : Settled(m)' <=> Settled(m)
    BY <1>1, <2>1, SettledStays
  <2>3. dirty \subseteq dirty'
    BY <1>4
  <2>4. ASSUME ~dryRun', NEW m \in Objects' \ dirty'
        PROVE  m \in todo' \/ (m > marker' /\ truncated') \/ Settled(m)'
    <3>1. CASE m = n
      BY <1>1, <1>4, <3>1
    <3>2. CASE m # n
      <4>1. m \in Names \ {n} /\ m \in Objects \ dirty
        BY <1>2, <2>3, <2>4, <3>2 DEF Objects
      <4> QED
        BY <1>1, <1>4, <2>2, <2>4, <4>1 DEF DownInv
    <3> QED BY <3>1, <3>2
  <2>5. \A m \in todo' \ dirty' : /\ listing'[m].size = Len(remote'[m].data)
                                 /\ listing'[m].time = remote'[m].time
    BY <1>1, <1>4, <2>3 DEF DownInv
  <2>6. ASSUME NEW m \in todo' \ dirty', IsNext(m)'
        PROVE  IsPrefix(remote[m].data, local[m].data)'
    <3>1. m = n
      <4>1. m \in Int /\ n \in Int /\ m \in todo
        BY <1>0, <1>1, <1>4, <2>6 DEF Values, Names
      <4>2. m <= n /\ n <= m
        BY <1>1, <1>4, <2>6, <4>1 DEF IsNext
      <4> QED
        BY <4>1, <4>2
    <3> DEFINE s == remote[n].data
               old == local[n].data
    <3>2. s \in Seq(Nat) /\ old \in Seq(Nat) /\ Len(s) \in Nat
      BY <1>0 DEF Values
    <3>3. k = Len(s)
      <4>1. ~(k < Len(remote[n].data))
        BY <1>4, <2>6, <3>1
      <4> QED
        BY <3>2, <4>1
    <3>4. local'[n].data = Overwrite(s, old)
      <4>1. local'[n].data = Overwrite(SubSeq(s, 1, k), old)
        BY <2>1 DEF Received
      <4>2. SubSeq(s, 1, k) = s
        BY <3>2, <3>3, SubSeqFull
      <4> QED
        BY <4>1, <4>2
    <3> HIDE DEF s, old
    <3>5. IsPrefix(s, Overwrite(s, old))
      BY <3>2, OverwriteStarts
    <3> QED
      BY <1>1, <3>1, <3>4, <3>5 DEF s, IsPrefix
  <2> QED
    BY <1>4, <2>4, <2>5, <2>6 DEF DownInv, DownSettles, Ended
<1> QED
  BY <1>3, <1>4 DEF Get

LEMMA DownSetTime ==
  ASSUME SyncInv, DownInv, NEW n \in Names, SetTime(n)
  PROVE  DownInv'
<1>0. Values
  BY DEF SyncInv
<1>1. /\ pc = "written" /\ IsNext(n) /\ n \in todo /\ pc' = "page" /\ todo' = todo \ {n}
      /\ UNCHANGED <<remote, dryRun, listing, truncated, marker, dirty>>
  BY DEF SetTime, IsNext, command, page
<1>2. Objects' = Objects
  BY <1>1 DEF Objects
<1>3. /\ local'[n].data = local[n].data /\ local'[n].time = listing[n].time
      /\ \A m \in Names \ {n} : local'[m] = local[m]
  BY <1>0 DEF Values, SetTime
<1>4. \A m \in Names \ {n} : Settled(m)' <=> Settled(m)
  BY <1>1, <1>3, SettledStays
<1>5. ASSUME ~dryRun', NEW m \in Objects' \ dirty'
      PROVE  m \in todo' \/ (m > marker' /\ truncated') \/ Settled(m)'
  <2>1. CASE m # n
    <3>1. m \in Names \ {n} /\ m \in Objects \ dirty
      BY <1>1, <1>2, <1>5, <2>1 DEF Objects
    <3> QED
      BY <1>1, <1>4, <1>5, <2>1, <3>1 DEF DownInv
  <2>2. CASE m = n
    <3>1. n \in Objects \ dirty
      BY <1>1, <1>2, <1>5, <2>2
    <3>2. listing[n].time = remote[n].time /\ remote[n].time # 0
      BY <1>1, <3>1 DEF DownInv, Objects, Exists
    <3>3. IsPrefix(remote[n].data, local[n].data)
      BY <1>1, <3>1 DEF DownInv
    <3>4. IsPrefix(remote'[n].data, local'[n].data)
      BY <1>1, <1>3, <3>3
    <3>5. Len(remote[n].data) <= Len(local[n].data)
      BY <3>3 DEF IsPrefix
    <3>6. CASE remote[n].meta # 0 \/ Len(local[n].data) > Len(remote[n].data)
      BY <1>1, <1>3, <2>2, <3>4, <3>6 DEF Settled, IsPrefix
    <3>7. CASE remote[n].meta = 0 /\ Len(local[n].data) = Len(remote[n].data)
      <4>1. SameAsObject(n)'
        BY <1>1, <1>3, <3>2, <3>7 DEF SameAsObject, NoChange, LastModified, Exists
      <4> QED
        BY <2>2, <4>1 DEF Settled
    <3>8. Len(remote[n].data) \in Nat /\ Len(local[n].data) \in Nat
      BY <1>0 DEF Values
    <3> QED
      BY <3>5, <3>6, <3>7, <3>8
  <2> QED BY <2>1, <2>2
<1>6. \A m \in todo' \ dirty' : /\ listing'[m].size = Len(remote'[m].data)
                               /\ listing'[m].time = remote'[m].time
  BY <1>1 DEF DownInv
<1> QED
  BY <1>1, <1>5, <1>6 DEF DownInv, DownSettles, Ended

LEMMA DownEndPage ==
  ASSUME DownInv, EndPage
  PROVE  DownInv'
<1>1. pc = "page" /\ todo = {} /\ UNCHANGED <<local, remote, dryRun, dirty, toLocal>>
  BY DEF EndPage, disk, command
<1>2. \A m : Settled(m)' <=> Settled(m)
  BY <1>1, SettledStays
<1>3. Objects' = Objects
  BY <1>1 DEF Objects
<1>4. CASE truncated /\ pc' = "list" /\ UNCHANGED <<marker, todo>>
  <2>1. ASSUME ~dryRun', NEW m \in Objects' \ dirty'
        PROVE  m \in todo' \/ m > marker' \/ Settled(m)'
    BY <1>1, <1>2, <1>3, <1>4, <2>1 DEF DownInv
  <2> QED
    BY <1>1, <1>4, <2>1 DEF DownInv, DownSettles, Ended
<1>5. CASE ~truncated /\ Return(FALSE)
  <2>1. ASSUME ~dryRun', NEW m \in Objects' \ dirty' PROVE Settled(m)'
    BY <1>1, <1>2, <1>3, <1>5, <2>1 DEF DownInv
  <2> QED
    BY <1>5, <2>1 DEF Return, DownInv, DownSettles, Ended
<1> QED
  BY <1>4, <1>5 DEF EndPage, locals, page

LEMMA DownList ==
  ASSUME DownInv, List, dirty' \in {dirty, Names}
  PROVE  DownInv'
<1>1. pc = "list" /\ todo = {} /\ UNCHANGED <<local, remote, dryRun, toLocal>>
  BY DEF List, DownInv, disk, command
<1>2. \A m : Settled(m)' <=> Settled(m)
  BY <1>1, SettledStays
<1>3. Objects' = Objects /\ Objects \subseteq Names
  BY <1>1 DEF Objects
<1>4. ASSUME ~dryRun, NEW m \in Objects \ dirty
      PROVE  m \in Behind \/ Settled(m)
  BY <1>1, <1>4 DEF DownInv, Behind
<1>5. CASE Show(PageNames, PageNames # Behind, NextMarker) /\ UNCHANGED dirty
  <2>1. CASE PageNames = {}
    <3>1. Behind = {}
      BY <2>1, NextPages
    <3>2. ASSUME ~dryRun', NEW m \in Objects' \ dirty' PROVE Settled(m)'
      BY <1>1, <1>2, <1>3, <1>4, <1>5, <3>1, <3>2
    <3> QED
      BY <1>5, <2>1, <3>2 DEF Show, Return, DownInv, DownSettles, Ended
  <2>2. CASE PageNames # {}
    <3>1. /\ listing' = [n \in PageNames |->
                          [size |-> Len(remote[n].data), time |-> remote[n].time]]
          /\ truncated' = (PageNames # Behind) /\ marker' = NextMarker
          /\ todo' = PageNames /\ pc' = "page"
      BY <1>5, <2>2 DEF Show
    <3>2. ASSUME ~dryRun', NEW m \in Objects' \ dirty'
          PROVE  m \in todo' \/ (m > marker' /\ truncated') \/ Settled(m)'
      <4>1. m \in Behind \/ Settled(m)
        BY <1>1, <1>3, <1>4, <1>5, <3>2
      <4>2. m \in Behind \ PageNames => m > NextMarker /\ PageNames # Behind
        BY NextPages
      <4> QED
        BY <1>2, <3>1, <4>1, <4>2
    <3>3. \A m \in todo' : /\ listing'[m].size = Len(remote'[m].data)
                         /\ listing'[m].time = remote'[m].time
      BY <1>1, <3>1
    <3> QED
      BY <3>1, <3>2, <3>3 DEF DownInv, DownSettles, Ended
  <2> QED BY <2>1, <2>2
<1>6. CASE Return(TRUE)
  BY <1>6, OtherStep DEF Return, Downwards
<1>7. ASSUME NEW names \in SUBSET Names, NEW more, NEW next,
             Show(names, more, next), dirty' = Names
      PROVE  DownInv'
  <2>1. pc' \in {"idle", "page"} /\ todo' \subseteq Names /\ (pc' = "idle" => marker' = 0)
    BY <1>7 DEF Show, Return
  <2> QED
    BY <1>3, <1>7, <2>1 DEF DownInv, DownSettles, Ended
<1>8. \A k : FirstOf(Behind, k) \in SUBSET Names
  BY <1>3 DEF FirstOf, Behind
<1> QED
  BY <1>5, <1>6, <1>7, <1>8 DEF List

LEMMA DownNext == SyncInv /\ UpInv /\ DownInv /\ [Next]_vars => DownInv'
<1> SUFFICES ASSUME SyncInv, UpInv, DownInv, [Next]_vars PROVE DownInv'
  OBVIOUS
<1>0. Values
  BY DEF SyncInv
<1>1. ASSUME NEW n \in Names, NEW len \in 0 .. MaxLen, Edit(n, len) \/ Put(n, len)
      PROVE  DownInv'
  <2>1. \A m \in Names \ {n} : local'[m] = local[m] /\ remote'[m] = remote[m]
    BY <1>0, <1>1 DEF Values, Edit, Put
  <2> QED
    BY <1>0, <1>1, <2>1, DownChange DEF Edit, Put, Values
<1>2. ASSUME NEW down \in BOOLEAN, NEW dry \in BOOLEAN, Start(down, dry)
      PROVE  DownInv'
  <2>1. CASE down
    <3>1. pc' = "list" /\ todo' = {} /\ marker' = 0
      BY <1>2, <2>1 DEF Start, page, DownInv
    <3>2. Objects' \subseteq Names /\ \A m \in Names : m > 0
      BY DEF Objects, Names
    <3> QED
      BY <3>1, <3>2 DEF DownInv, DownSettles, Ended
  <2>2. CASE ~down
    BY <1>2, <2>2, OtherStep DEF Start, Downwards
  <2> QED BY <2>1, <2>2
<1>3. ASSUME NEW n \in Names, CompareWithObject(n) \/ Upload(n) PROVE DownInv'
  <2>1. ~toLocal' /\ pc' \in {"walk", "upload", "idle"} /\ (pc' = "idle" => marker' = 0)
    BY <1>3 DEF CompareWithObject, Upload, Return, UpInv, command
  <2> QED
    BY <2>1, OtherStep DEF Downwards
<1>4. ASSUME NEW n \in Names, CompareWithFile(n) \/ Get(n) \/ SetTime(n) PROVE DownInv'
  BY <1>4, DownCompare, DownGet, DownSetTime
<1>5. CASE EndWalk
  BY <1>5, OtherStep DEF EndWalk, Return, UpInv, command, Downwards
<1>6. CASE List
  <2>1. dirty' \in {dirty, Names}
    BY <1>6 DEF List
  <2> QED
    BY <1>6, <2>1, DownList
<1>7. CASE EndPage
  BY <1>7, DownEndPage
<1>8. CASE Kill
  BY <1>8, OtherStep DEF Kill, Return, Downwards
<1>9. CASE UNCHANGED vars
  <2>1. UNCHANGED <<local, remote, pc, toLocal, dryRun, err, todo, listing, truncated,
                    marker, dirty, runs>>
    BY <1>9 DEF vars, disk, command, locals, page, bounds
  <2>2. \A m : Settled(m)' <=> Settled(m)
    BY <2>1, SettledStays
  <2>3. Objects' = Objects
    BY <2>1 DEF Objects
  <2>4. /\ pc' \in Downwards /\ ~dryRun' =>
             \A m \in Objects' \ dirty' :
               m \in todo' \/ (m > marker' /\ (pc' = "list" \/ truncated')) \/ Settled(m)'
        /\ DownSettles'
    BY <2>1, <2>2, <2>3 DEF DownInv, DownSettles, Ended, Downwards
  <2>5. pc' = "written" => \A m \in todo' \ dirty' :
          IsNext(m)' => IsPrefix(remote[m].data, local[m].data)'
    BY <2>1 DEF DownInv, IsNext, IsPrefix
  <2> QED
    BY <2>1, <2>4, <2>5 DEF DownInv, Downwards
<1> QED
  BY <1>1, <1>2, <1>3, <1>4, <1>5, <1>6, <1>7, <1>8, <1>9 DEF Next

(* After a run of SyncDagToLocal that returns nil, every object is in its  *)
(* file, but for what was changed or failed meanwhile, however many pages  *)
(* there were.                                                             *)
THEOREM DownwardsSettles == Spec => []DownSettles
<1>1. DownInv => DownSettles
  BY DEF DownInv
<1> QED
  BY <1>1, SyncInit, SyncNext, UpNext, DownInit, DownNext, PTL DEF Spec

-----------------------------------------------------------------------------
(* The types of what is not in Values.                                     *)

Sizes == \A n \in DOMAIN listing : listing[n] \in [size : Nat, time : Nat]

Flags ==
  /\ toLocal \in BOOLEAN /\ dryRun \in BOOLEAN /\ err \in BOOLEAN
  /\ truncated \in BOOLEAN /\ short \in BOOLEAN
  /\ marker \in 0 .. N
  /\ pc \in {"upload", "get", "written"} => todo # {}

Histories ==
  /\ dirty \subseteq Names /\ broken \subseteq Names
  /\ changes \in 0 .. MaxChanges
  /\ runs \in 0 .. MaxRuns

TypeInv == Sizes /\ Flags /\ Histories

LEMMA NothingListed == DOMAIN NoListing = {}
BY DEF NoListing

LEMMA ZeroIsMarker == 0 \in 0 .. N
BY SyncAssumption

LEMMA ReturnFlags ==
  ASSUME TypeInv, NEW e \in BOOLEAN, Return(e), UNCHANGED command
  PROVE  Sizes' /\ Flags'
<1>1. /\ pc' = "idle" /\ err' = e /\ truncated' = FALSE /\ marker' = 0 /\ short' = FALSE
      /\ UNCHANGED <<toLocal, dryRun>>
  BY DEF Return, command
<1>2. Sizes'
  <2>1. listing' = NoListing
    BY DEF Return
  <2> QED
    BY <2>1, NothingListed DEF Sizes
<1>3. Flags'
  BY <1>1, ZeroIsMarker DEF TypeInv, Flags
<1> QED
  BY <1>2, <1>3

LEMMA ShowFlags ==
  ASSUME Values, TypeInv, NEW names \in SUBSET Objects, NEW more \in BOOLEAN,
         NEW next \in 0 .. N, Show(names, more, next), UNCHANGED command
  PROVE  Sizes' /\ Flags'
<1>1. CASE names = {}
  BY <1>1, ReturnFlags DEF Show
<1>2. CASE names # {}
  <2>1. /\ listing' = [n \in names |-> [size |-> Len(remote[n].data), time |-> remote[n].time]]
        /\ truncated' = more /\ marker' = next /\ pc' = "page"
        /\ UNCHANGED <<err, short, toLocal, dryRun>>
    BY <1>2 DEF Show, command
  <2>2. \A n \in names : Len(remote[n].data) \in Nat /\ remote[n].time \in Nat
    <3> SUFFICES ASSUME NEW n \in names
                 PROVE  Len(remote[n].data) \in Nat /\ remote[n].time \in Nat
      OBVIOUS
    <3>1. remote[n].data \in Seq(Nat) /\ remote[n].time \in Times
      BY DEF Values, Objects
    <3> QED
      BY <3>1, LenProperties DEF Values, Times
  <2>3. Sizes'
    BY <2>1, <2>2 DEF Sizes
  <2>4. Flags'
    BY <2>1 DEF TypeInv, Flags
  <2> QED
    BY <2>3, <2>4
<1> QED
  BY <1>1, <1>2

LEMMA TypeNext == SyncInv /\ TypeInv /\ [Next]_vars => TypeInv'
<1> SUFFICES ASSUME SyncInv, TypeInv, [Next]_vars PROVE TypeInv'
  OBVIOUS
<1>0. Values
  BY DEF SyncInv
<1>1. ASSUME NEW n \in Names, NEW len \in 0 .. MaxLen, Edit(n, len) \/ Put(n, len)
      PROVE  TypeInv'
  BY <1>1, SyncAssumption
     DEF Edit, Put, locals, page, command, TypeInv, Sizes, Flags, Histories
<1>2. ASSUME NEW down \in BOOLEAN, NEW dry \in BOOLEAN, Start(down, dry)
      PROVE  TypeInv'
  <2>1. /\ toLocal' = down /\ dryRun' = dry /\ err' = FALSE /\ dirty' = {}
        /\ pc' \in {"list", "walk"}
        /\ UNCHANGED <<listing, truncated, marker, short, broken, changes>>
    BY <1>2 DEF Start, page
  <2>2. runs' = runs + 1 /\ runs < MaxRuns
    BY <1>2 DEF Start
  <2>3. runs' \in 0 .. MaxRuns
    BY <2>2, SyncAssumption DEF TypeInv, Histories
  <2>4. Sizes' /\ Flags'
    BY <2>1 DEF TypeInv, Sizes, Flags
  <2>5. Histories'
    BY <2>1, <2>3 DEF TypeInv, Histories
  <2> QED
    BY <2>4, <2>5 DEF TypeInv
<1>3. ASSUME NEW n \in Names, CompareWithObject(n) PROVE TypeInv'
  <2>1. UNCHANGED <<command, dirty, broken, changes, runs>>
    BY <1>3 DEF CompareWithObject, bounds
  <2>2. CASE Return(TRUE)
    BY <2>1, <2>2, ReturnFlags DEF TypeInv, Histories
  <2>3. CASE /\ pc' \in {"walk", "upload"} /\ (pc' = "upload" => n \in todo')
             /\ UNCHANGED <<err, listing, truncated, marker, short>>
    BY <2>1, <2>3 DEF TypeInv, Sizes, Flags, Histories, command
  <2> QED
    BY <1>3, <2>2, <2>3 DEF CompareWithObject, page, IsNext
<1>4. ASSUME NEW n \in Names, CompareWithFile(n) PROVE TypeInv'
  <2>1. /\ UNCHANGED <<toLocal, dryRun, err, listing, truncated, marker, short, broken,
                       changes, runs>>
        /\ dirty' \in {dirty, dirty \cup {n}}
        /\ pc' = "page" \/ (pc' = "get" /\ n \in todo')
    BY <1>4 DEF CompareWithFile, page, IsNext, command, bounds
  <2> QED
    BY <2>1 DEF TypeInv, Sizes, Flags, Histories
<1>5. ASSUME NEW n \in Names, Upload(n) PROVE TypeInv'
  BY <1>5 DEF Upload, page, command, bounds, TypeInv, Sizes, Flags, Histories
<1>6. ASSUME NEW n \in Names, Get(n) PROVE TypeInv'
  <2>1. /\ UNCHANGED <<toLocal, dryRun, err, listing, truncated, marker, changes, runs>>
        /\ dirty' \in {dirty, dirty \cup {n}} /\ broken' \in {broken, broken \ {n}}
        /\ pc' = "page" \/ (pc' = "written" /\ n \in todo')
    BY <1>6 DEF Get, page, IsNext, command, bounds
  <2>2. short' \in BOOLEAN
    <3>1. CASE UNCHANGED short
      BY <3>1 DEF TypeInv, Flags
    <3>2. CASE \E k \in 0 .. Len(remote[n].data) : short' = (k < Len(remote[n].data))
      <4>1. PICK k \in 0 .. Len(remote[n].data) : short' = (k < Len(remote[n].data))
        BY <3>2
      <4>2. CASE k < Len(remote[n].data)
        BY <4>1, <4>2
      <4>3. CASE ~(k < Len(remote[n].data))
        BY <4>1, <4>3
      <4> QED
        BY <4>2, <4>3
    <3> QED
      BY <1>6, <3>1, <3>2 DEF Get
  <2> QED
    BY <2>1, <2>2 DEF TypeInv, Sizes, Flags, Histories
<1>7. ASSUME NEW n \in Names, SetTime(n) PROVE TypeInv'
  BY <1>7 DEF SetTime, page, command, bounds, TypeInv, Sizes, Flags, Histories
<1>8. CASE EndWalk \/ Kill
  BY <1>8, ReturnFlags DEF EndWalk, Kill, bounds, TypeInv, Histories
<1>9. CASE List
  <2>1. /\ dirty' \in {dirty, Names} /\ changes' \in 0 .. MaxChanges
        /\ UNCHANGED <<command, broken, runs>>
    <3>1. /\ \/ dirty' = dirty /\ changes' = changes
             \/ dirty' = Names /\ changes' = changes + 1 /\ changes < MaxChanges
          /\ UNCHANGED <<command, broken, runs>>
      BY <1>9 DEF List
    <3>2. changes \in 0 .. MaxChanges
      BY DEF TypeInv, Histories
    <3>3. changes' \in 0 .. MaxChanges
      BY <3>1, <3>2, SyncAssumption
    <3> QED
      BY <3>1, <3>3
  <2>2. PageNames \in SUBSET Objects /\ \A k : FirstOf(Behind, k) \in SUBSET Objects
    BY DEF PageNames, FirstOf, Behind
  <2>3. NextMarker \in 0 .. N /\ 0 \in 0 .. N
    <3>1. PageNames \in SUBSET Names
      BY <2>2 DEF Objects
    <3>2. PageNames # {} => Max(PageNames) \in Names
      BY <3>1, MaxOf
    <3> QED
      BY <3>2, SyncAssumption DEF NextMarker, Names
  <2>4. CASE Return(TRUE)
    BY <2>1, <2>4, ReturnFlags DEF TypeInv, Histories
  <2>5. ASSUME NEW names \in SUBSET Objects, NEW more \in BOOLEAN, NEW next \in 0 .. N,
               Show(names, more, next)
        PROVE  TypeInv'
    BY <1>0, <2>1, <2>5, ShowFlags DEF TypeInv, Histories
  <2> QED
    BY <1>9, <2>2, <2>3, <2>4, <2>5 DEF List
<1>10. CASE EndPage
  <2>1. UNCHANGED <<command, dirty, broken, changes, runs>>
    BY <1>10 DEF EndPage, bounds
  <2>2. CASE Return(FALSE)
    BY <2>1, <2>2, ReturnFlags DEF TypeInv, Histories
  <2>3. CASE pc' = "list" /\ UNCHANGED <<err, locals>>
    BY <2>1, <2>3 DEF TypeInv, Sizes, Flags, Histories, locals, page, command
  <2> QED
    BY <1>10, <2>2, <2>3 DEF EndPage
<1>11. CASE UNCHANGED vars
  BY <1>11 DEF vars, locals, page, command, bounds, TypeInv, Sizes, Flags, Histories
<1> QED
  BY <1>1, <1>2, <1>3, <1>4, <1>5, <1>6, <1>7, <1>8, <1>9, <1>10, <1>11 DEF Next

LEMMA TypeInit == Init => TypeInv
<1> SUFFICES ASSUME Init PROVE TypeInv
  OBVIOUS
<1>1. Sizes
  <2>1. listing = NoListing
    BY DEF Init
  <2> QED
    BY <2>1, NothingListed DEF Sizes
<1>2. Flags
  BY ZeroIsMarker DEF Init, Flags
<1>3. Histories
  BY SyncAssumption DEF Init, Histories
<1> QED
  BY <1>1, <1>2, <1>3 DEF TypeInv

(* The type invariant: times are never ahead of the clock, and what is     *)
(* left of a page has its line in the listing.                             *)
THEOREM TypeCorrect == Spec => []TypeOK
<1>1. SyncInv /\ TypeInv => TypeOK
  <2> SUFFICES ASSUME SyncInv, TypeInv PROVE TypeOK
    OBVIOUS
  <2>1. Values
    BY DEF SyncInv
  <2>2. \A n \in DOMAIN listing : listing[n] \in [size : Nat, time : Times]
    BY <2>1 DEF Values, TypeInv, Sizes
  <2> QED
    BY <2>1, <2>2 DEF Values, TypeInv, Flags, Histories, TypeOK, Contents
<1> QED
  BY <1>1, SyncInit, SyncNext, TypeInit, TypeNext, PTL DEF Spec

-----------------------------------------------------------------------------
(***************************************************************************)
(* How near sync is to its end: first by the runs and changes that may     *)
(* come, then by how far the run has walked over the pages, then by the    *)
(* names that are left, then by what has been done for the next of them.   *)
(***************************************************************************)
EventsLeft == MaxChanges + MaxRuns - changes - runs

WalkEnd == 2 * N + 4

WalkPlace(p, more, next) ==
  CASE p \in {"walk", "upload"} -> 0
    [] p = "list" -> 2 * next + 2
    [] p \in {"page", "get", "written"} -> IF more THEN 2 * next + 1 ELSE WalkEnd - 1
    [] p = "idle" -> WalkEnd

Walked == WalkPlace(pc, truncated, marker)

StepOf(p) == CASE p \in {"upload", "get"} -> 1 [] p = "written" -> 2 [] OTHER -> 0

Further ==
  \/ Walked' > Walked
  \/ Walked' = Walked /\ todo' \subseteq todo /\ todo' # todo
  \/ Walked' = Walked /\ todo' = todo /\ StepOf(pc') > StepOf(pc)

Nearer == EventsLeft' < EventsLeft \/ (EventsLeft' = EventsLeft /\ Further)

LEMMA WalkPlaces ==
  ASSUME NEW m, NEW t, NEW n
  PROVE  /\ m \in {"walk", "upload"} => WalkPlace(m, t, n) = 0
         /\ m = "list" => WalkPlace(m, t, n) = 2 * n + 2
         /\ m \in {"page", "get", "written"} =>
              WalkPlace(m, t, n) = IF t THEN 2 * n + 1 ELSE WalkEnd - 1
         /\ m = "idle" => WalkPlace(m, t, n) = WalkEnd
BY DEF WalkPlace

LEMMA Measures ==
  ASSUME Values, TypeInv
  PROVE  /\ EventsLeft \in 0 .. MaxChanges + MaxRuns
         /\ changes \in Nat /\ runs \in Nat /\ MaxChanges \in Nat /\ MaxRuns \in Nat
         /\ marker \in Nat /\ marker <= N /\ N \in Nat
         /\ Walked \in 0 .. WalkEnd
         /\ pc # "idle" => Walked < WalkEnd
<1>1. /\ changes \in 0 .. MaxChanges /\ runs \in 0 .. MaxRuns
      /\ MaxChanges \in Nat /\ MaxRuns \in Nat
      /\ marker \in 0 .. N /\ N \in Nat /\ truncated \in BOOLEAN
  BY SyncAssumption DEF TypeInv, Histories, Flags
<1>2. Walked \in {0, 2 * marker + 2, 2 * marker + 1, WalkEnd - 1}
        \/ (pc = "idle" /\ Walked = WalkEnd)
  BY WalkPlaces DEF Walked, Values
<1> QED
  BY <1>1, <1>2 DEF EventsLeft, WalkEnd

(* A run that returns or is killed is at its end.                          *)
LEMMA ReturnFurther ==
  ASSUME Values, TypeInv, pc # "idle", NEW e, Return(e)
  PROVE  Further
<1>1. Walked' = WalkEnd /\ Walked < WalkEnd
  BY WalkPlaces, Measures DEF Walked, Return
<1>2. Walked' > Walked
  BY <1>1, Measures DEF WalkEnd
<1> QED
  BY <1>2 DEF Further

(* A page that is not the last one ends behind the marker it began at.     *)
LEMMA PageFurther ==
  ASSUME Values, TypeInv, pc = "list", Show(PageNames, PageNames # Behind, NextMarker)
  PROVE  Further
<1>1. CASE PageNames = {}
  BY <1>1, ReturnFurther DEF Show
<1>2. CASE PageNames # {}
  <2>1. pc' = "page" /\ truncated' = (PageNames # Behind) /\ marker' = NextMarker
    BY <1>2 DEF Show
  <2>2. PageNames \in SUBSET Names /\ \A n \in PageNames : n > marker
    BY DEF PageNames, FirstOf, Behind, Objects
  <2>3. NextMarker \in Names /\ NextMarker > marker
    BY <1>2, <2>2, MaxOf DEF NextMarker
  <2>4. Walked = 2 * marker + 2
    BY WalkPlaces DEF Walked
  <2>5. Walked' \in {2 * NextMarker + 1, WalkEnd - 1}
    BY <2>1, WalkPlaces DEF Walked
  <2>6. Walked' > Walked
    BY <2>3, <2>4, <2>5, Measures DEF WalkEnd, Names
  <2> QED
    BY <2>6 DEF Further
<1> QED
  BY <1>1, <1>2

(* Runs and changes are used up.                                           *)
LEMMA EventsCount ==
  ASSUME Values, TypeInv
  PROVE  /\ UNCHANGED runs /\ changes' = changes + 1 => EventsLeft' < EventsLeft
         /\ UNCHANGED changes /\ runs' = runs + 1 => EventsLeft' < EventsLeft
         /\ UNCHANGED bounds => EventsLeft' = EventsLeft
BY Measures DEF EventsLeft, bounds

LEMMA NextNearer == Values /\ TypeInv /\ [Next]_vars => [Nearer]_vars
<1> SUFFICES ASSUME Values, TypeInv, Next PROVE Nearer
  OBVIOUS
<1>f. ASSUME UNCHANGED bounds, Further PROVE Nearer
  BY <1>f, EventsCount DEF Nearer
<1>d. ASSUME NEW n \in todo, todo' = todo \ {n}, UNCHANGED page,
             \/ pc \in {"walk", "upload"} /\ pc' = "walk"
             \/ pc \in {"page", "get", "written"} /\ pc' = "page"
      PROVE  Further
  <2>1. Walked' = Walked
    BY <1>d, WalkPlaces DEF Walked, page
  <2> QED
    BY <1>d, <2>1 DEF Further
<1>s. ASSUME UNCHANGED <<todo, page>>,
             \/ pc = "walk" /\ pc' = "upload"
             \/ pc = "page" /\ pc' = "get"
             \/ pc = "get" /\ pc' = "written"
      PROVE  Further
  <2>1. Walked' = Walked
    BY <1>s, WalkPlaces DEF Walked, page
  <2>2. StepOf(pc') > StepOf(pc)
    BY <1>s DEF StepOf
  <2> QED
    BY <1>s, <2>1, <2>2 DEF Further
<1>1. ASSUME NEW n \in Names, NEW len \in 0 .. MaxLen, Edit(n, len) \/ Put(n, len)
      PROVE  Nearer
  BY <1>1, EventsCount DEF Edit, Put, Nearer
<1>2. ASSUME NEW down \in BOOLEAN, NEW dry \in BOOLEAN, Start(down, dry)
      PROVE  Nearer
  BY <1>2, EventsCount DEF Start, Nearer
<1>3. ASSUME NEW n \in Names, CompareWithObject(n) PROVE Nearer
  <2>1. pc = "walk" /\ n \in todo /\ UNCHANGED bounds
    BY <1>3 DEF CompareWithObject, IsNext
  <2>2. \/ Return(TRUE)
        \/ todo' = todo \ {n} /\ UNCHANGED <<pc, page>>
        \/ pc' = "upload" /\ UNCHANGED <<todo, page>>
    BY <1>3 DEF CompareWithObject
  <2> QED
    BY <1>f, <1>d, <1>s, <2>1, <2>2, ReturnFurther
<1>4. ASSUME NEW n \in Names, Upload(n) PROVE Nearer
  BY <1>4, <1>f, <1>d DEF Upload, IsNext
<1>5. ASSUME NEW n \in Names, CompareWithFile(n) PROVE Nearer
  <2>1. /\ pc = "page" /\ n \in todo /\ UNCHANGED <<bounds, page>>
        /\ \/ todo' = todo \ {n} /\ UNCHANGED pc
           \/ pc' = "get" /\ UNCHANGED todo
    BY <1>5 DEF CompareWithFile, IsNext
  <2> QED
    BY <1>f, <1>d, <1>s, <2>1
<1>6. ASSUME NEW n \in Names, Get(n) PROVE Nearer
  <2>1. /\ pc = "get" /\ n \in todo /\ UNCHANGED <<bounds, page>>
        /\ \/ todo' = todo \ {n} /\ pc' = "page"
           \/ pc' = "written" /\ UNCHANGED todo
    BY <1>6 DEF Get, IsNext
  <2> QED
    BY <1>f, <1>d, <1>s, <2>1
<1>7. ASSUME NEW n \in Names, SetTime(n) PROVE Nearer
  BY <1>7, <1>f, <1>d DEF SetTime, IsNext
<1>8. CASE EndWalk \/ Kill
  BY <1>8, <1>f, ReturnFurther DEF EndWalk, Kill
<1>9. CASE List
  <2>1. pc = "list" /\ UNCHANGED runs
    BY <1>9 DEF List
  <2>2. \/ UNCHANGED changes /\ Show(PageNames, PageNames # Behind, NextMarker)
        \/ UNCHANGED changes /\ Return(TRUE)
        \/ changes' = changes + 1
    BY <1>9 DEF List
  <2> QED
    BY <1>f, <2>1, <2>2, EventsCount, PageFurther, ReturnFurther DEF Nearer, bounds
<1>10. CASE EndPage
  <2>1. pc = "page" /\ UNCHANGED bounds
    BY <1>10 DEF EndPage
  <2>2. \/ Return(FALSE)
        \/ truncated /\ pc' = "list" /\ UNCHANGED page
    BY <1>10 DEF EndPage, locals
  <2>3. ASSUME truncated, pc' = "list", UNCHANGED page PROVE Further
    <3>1. Walked = 2 * marker + 1 /\ Walked' = 2 * marker + 2
      BY <2>1, <2>3, WalkPlaces DEF Walked, page
    <3> QED
      BY <3>1, Measures DEF Further
  <2> QED
    BY <1>f, <2>1, <2>2, <2>3, ReturnFurther
<1> QED
  BY <1>1, <1>2, <1>3, <1>4, <1>5, <1>6, <1>7, <1>8, <1>9, <1>10 DEF Next

(***************************************************************************)
(* Every step of a run of sync brings it nearer to its end, in both        *)
(* directions: nobody can make it go round, whatever is edited and put     *)
(* meanwhile, and a page is asked for again only when a response that was  *)
(* not decoded has lost the marker.  Until its end there is a step to      *)
(* take: of the names that are left one is the next.                       *)
(***************************************************************************)
THEOREM RunsEnd ==
  Spec => /\ [](/\ EventsLeft \in 0 .. MaxChanges + MaxRuns /\ Walked \in 0 .. WalkEnd
                /\ todo # {} => \E n \in todo : IsNext(n)
                /\ pc \in {"upload", "get", "written"} => todo # {})
          /\ [][Nearer]_vars
<1>1. SyncInv /\ TypeInv =>
        /\ EventsLeft \in 0 .. MaxChanges + MaxRuns /\ Walked \in 0 .. WalkEnd
        /\ todo # {} => \E n \in todo : IsNext(n)
        /\ pc \in {"upload", "get", "written"} => todo # {}
  <2> SUFFICES ASSUME Values, TypeInv
               PROVE  /\ EventsLeft \in 0 .. MaxChanges + MaxRuns /\ Walked \in 0 .. WalkEnd
                      /\ todo # {} => \E n \in todo : IsNext(n)
                      /\ pc \in {"upload", "get", "written"} => todo # {}
    BY DEF SyncInv
  <2>1. todo \in SUBSET Nat
    BY SyncAssumption DEF Values, Names
  <2> QED
    BY <2>1, LeastOf, Measures DEF IsNext, TypeInv, Flags
<1>2. SyncInv => Values
  BY DEF SyncInv
<1> QED
  BY <1>1, <1>2, SyncInit, SyncNext, TypeInit, TypeNext, NextNearer, PTL DEF Spec
=============================================================================
