------------------------------ MODULE Listing ------------------------------
(***************************************************************************)
(* Keys, and the pages in which the service lists them, as operators: the  *)
(* commands rm, get, ls and uploads all walk such pages.                   *)
(*                                                                         *)
(* A key is a sequence of tokens, each a string that no argument and no    *)
(* listing cuts in two; "/" and "*" are tokens.  What is listed is known   *)
(* by its place in Names, which is the order of listings; several places   *)
(* may have the same key (uploads of one key, told apart by their id).     *)
(***************************************************************************)
EXTENDS Integers, Sequences, SequencesExt, FiniteSetsExt

CONSTANT Names        \* the keys there can be, in the order of listings

ASSUME ListingAssumption == Names \in Seq(Seq(STRING))

Ids == DOMAIN Names

Distinct(S) == \A i, j \in S : Names[i] = Names[j] => i = j

(* strings.HasPrefix, HasSuffix, TrimLeft and TrimRight, of one token.     *)
HasPrefix(k, p) == IsPrefix(p, k)
StartsWith(k, t) == k # <<>> /\ k[1] = t
EndsWith(k, t) == k # <<>> /\ k[Len(k)] = t
TrimLeft(k, t) == SubSeq(k, Min({i \in 1 .. Len(k) : k[i] # t} \cup {Len(k) + 1}), Len(k))
TrimRight(k, t) == SubSeq(k, 1, Max({i \in 1 .. Len(k) : k[i] # t} \cup {0}))

(* filepath.Base, of a path that is not empty.                             *)
Base(path) ==
  LET p == TrimRight(path, "/")
  IN IF p = <<>> THEN <<"/">>
     ELSE SubSeq(p, Max({n \in DOMAIN p : p[n] = "/"} \cup {0}) + 1, Len(p))

(* Keys of one prefix stand together, as they do in the order of listings. *)
ASSUME OrderAssumption ==
  \A i, j, k \in Ids : i < j /\ j < k =>
    \A n \in 0 .. Len(Names[i]) :
      LET p == SubSeq(Names[i], 1, n) IN HasPrefix(Names[k], p) => HasPrefix(Names[j], p)

(* Where key k has a slash behind the prefix.                              *)
SlashesBehind(k, prefix) == {i \in Len(prefix) + 1 .. Len(k) : k[i] = "/"}

(* The members of S that come first.                                       *)
FirstOf(S, n) == {i \in S : Cardinality({j \in S : j < i}) < n}

NoListing ==
  [nil |-> TRUE, keys |-> {}, dirs |-> {}, truncated |-> FALSE, next |-> 0]

(***************************************************************************)
(* GET Bucket: of the members of S behind the marker that have the prefix, *)
(* the first `size`.  With a delimiter, keys that have a slash behind the  *)
(* prefix are represented by what they have up to it, a common prefix, and *)
(* the marker of the next page is behind all of them.                      *)
(***************************************************************************)
ListPage(S, prefix, delimiter, marker, size) ==
  LET behind == {i \in S : i > marker /\ HasPrefix(Names[i], prefix)}
      inDir == {i \in behind : delimiter /\ SlashesBehind(Names[i], prefix) # {}}
      dir == [i \in inDir |-> SubSeq(Names[i], 1, Min(SlashesBehind(Names[i], prefix)))]
      repeated == {i \in inDir : \E j \in inDir : j < i /\ dir[i] = dir[j]}
      page == FirstOf(behind \ repeated, size)
      dirs == {dir[i] : i \in page \cap inDir}
      covered == page \cup {i \in Ids : \E d \in dirs : HasPrefix(Names[i], d)}
  IN [nil |-> FALSE,
      keys |-> page \ inDir,
      dirs |-> dirs,
      truncated |-> ~(behind \subseteq covered),
      next |-> IF behind \subseteq covered THEN 0 ELSE Max(covered)]

(***************************************************************************)
(* What a response that cannot be decoded may leave of a listing, which is *)
(* no error for DoAndRetry: nothing, or its beginning without the flag or  *)
(* the marker.  A redirect leaves nothing.                                 *)
(***************************************************************************)
Undecoded(l) ==
  {NoListing} \cup
  {[nil |-> FALSE, keys |-> FirstOf(l.keys, n), dirs |-> ds, truncated |-> more, next |-> m] :
     n \in 0 .. Cardinality(l.keys), ds \in {{}, l.dirs},
     more \in {FALSE, l.truncated}, m \in {0, l.next}}
=============================================================================
