--------------------------- MODULE ListingProofs ---------------------------
(***************************************************************************)
(* What the operators of Listing promise, for every list of names: the     *)
(* helpers on keys, and that a page and its marker leave nothing out.      *)
(***************************************************************************)
EXTENDS Listing, SequenceTheorems, FiniteSetTheorems, WellFoundedInduction, TLAPS

Keys == Seq(STRING)
Tokens == STRING \cup {"/"}

LEMMA NamesAreKeys == \A i \in Ids : Names[i] \in Keys
BY ListingAssumption, ElementOfSeq DEF Ids, Keys

LEMMA IdsAreNumbers ==
  /\ Len(Names) \in Nat
  /\ Ids = 1 .. Len(Names)
  /\ \A i \in Ids : i \in Int /\ i \in Nat /\ 0 < i
<1>1. Len(Names) \in Nat /\ Ids = 1 .. Len(Names)
  BY ListingAssumption, LenProperties DEF Ids
<1> QED
  BY <1>1

-----------------------------------------------------------------------------
(* The least and the greatest of some numbers.                             *)

LEMMA LeastOf ==
  ASSUME NEW S \in SUBSET Nat, S # {}
  PROVE  Min(S) \in S /\ Min(S) \in Nat /\ \A y \in S : Min(S) <= y
<1>1. PICK x \in S : \A y \in S : ~(<<y, x>> \in OpToRel(<, Nat))
  BY NatLessThanWellFounded, WFMin
<1>2. \A y \in S : x <= y
  <2> SUFFICES ASSUME NEW y \in S PROVE x <= y
    OBVIOUS
  <2>1. y \in Nat /\ x \in Nat /\ <<y, x>> \in Nat \X Nat
    OBVIOUS
  <2>2. ~(y < x)
    BY <1>1, <2>1 DEF OpToRel
  <2> QED
    BY <2>1, <2>2
<1> QED
  BY <1>2 DEF Min

LEMMA GreatestOf ==
  ASSUME NEW n \in Nat, NEW S \in SUBSET (0 .. n), S # {}
  PROVE  Max(S) \in S /\ Max(S) \in 0 .. n /\ \A y \in S : y <= Max(S)
<1> DEFINE T == {n - x : x \in S}
<1>0. \A x \in S : x \in Int /\ 0 <= x /\ x <= n
  OBVIOUS
<1>1. T \in SUBSET Nat /\ T # {}
  <2>1. T \in SUBSET Nat
    BY <1>0
  <2>2. T # {}
    OBVIOUS
  <2> QED
    BY <2>1, <2>2
<1>2. PICK t \in T : \A u \in T : t <= u
  BY <1>1, LeastOf
<1>3. PICK x \in S : t = n - x
  BY <1>2
<1>4. \A y \in S : x >= y
  <2> SUFFICES ASSUME NEW y \in S PROVE x >= y
    OBVIOUS
  <2>1. n - y \in T
    OBVIOUS
  <2>2. n - x <= n - y
    BY <1>2, <1>3, <2>1
  <2> QED
    BY <1>0, <2>2
<1>5. PICK m \in S : m = Max(S) /\ \A y \in S : m >= y
  BY <1>3, <1>4 DEF Max
<1>6. \A y \in S : y <= m
  BY <1>0, <1>5
<1> QED
  BY <1>5, <1>6

-----------------------------------------------------------------------------
(* Keys.                                                                   *)

LEMMA PrefixMeans ==
  ASSUME NEW T, NEW k \in Seq(T), NEW p \in Seq(T)
  PROVE  HasPrefix(k, p) <=>
           Len(p) <= Len(k) /\ \A n \in 1 .. Len(p) : k[n] = p[n]
<1>1. Len(k) \in Nat /\ Len(p) \in Nat
  BY LenProperties
<1>2. SubSeq(p, 1, Len(p)) = p
  BY SubSeqFull
<1>3. ASSUME Len(p) <= Len(k)
      PROVE  SubSeq(k, 1, Len(p)) = p <=> \A n \in 1 .. Len(p) : k[n] = p[n]
  <2> DEFINE s == SubSeq(k, 1, Len(p))
  <2>1. \A n \in 1 .. Len(p) : k[n] \in T
    BY <1>1, <1>3, ElementOfSeq
  <2>2. /\ s \in Seq(T) /\ Len(s) = Len(p)
        /\ \A n \in 1 .. Len(p) : s[n] = k[n]
    <3>1. /\ s \in Seq(T)
          /\ Len(s) = IF 1 <= Len(p) THEN Len(p) - 1 + 1 ELSE 0
          /\ \A i \in 1 .. Len(p) - 1 + 1 : s[i] = k[1 + i - 1]
      BY <1>1, <2>1, SubSeqProperties
    <3> QED
      BY <1>1, <3>1
  <2> HIDE DEF s
  <2>3. s = p <=> \A n \in 1 .. Len(p) : s[n] = p[n]
    BY <2>2, SeqEqual
  <2> QED
    BY <2>2, <2>3 DEF s
<1> QED
  BY <1>2, <1>3 DEF HasPrefix, IsPrefix

LEMMA PrefixOfItself ==
  ASSUME NEW k \in Keys
  PROVE  HasPrefix(k, k) /\ HasPrefix(k, <<>>)
<1>1. <<>> \in Keys /\ Len(<<>>) = 0 /\ Len(k) \in Nat
  BY EmptySeq, LenProperties DEF Keys
<1>2. HasPrefix(k, k)
  BY <1>1, PrefixMeans DEF Keys
<1>3. ASSUME NEW e \in Keys, Len(e) = 0 PROVE HasPrefix(k, e)
  <2>1. k \in Seq(STRING) /\ e \in Seq(STRING)
    BY <1>3 DEF Keys
  <2>2. HasPrefix(k, e) <=> Len(e) <= Len(k) /\ \A n \in 1 .. Len(e) : k[n] = e[n]
    BY <2>1, PrefixMeans
  <2> QED
    BY <1>1, <1>3, <2>2
<1> QED
  BY <1>1, <1>2, <1>3

(* A prefix with a slash behind it.                                        *)
LEMMA DirectoryMeans ==
  ASSUME NEW k \in Keys, NEW n \in Keys
  PROVE  HasPrefix(n, Append(k, "/")) <=>
           HasPrefix(n, k) /\ StartsWith(SubSeq(n, Len(k) + 1, Len(n)), "/")
<1> DEFINE dir == Append(k, "/")
           rest == SubSeq(n, Len(k) + 1, Len(n))
<1>1. Len(k) \in Nat /\ Len(n) \in Nat
  BY LenProperties DEF Keys
<1>2. /\ dir \in Seq(Tokens) /\ k \in Seq(Tokens) /\ n \in Seq(Tokens)
      /\ Len(dir) = Len(k) + 1
      /\ \A i \in 1 .. Len(k) : dir[i] = k[i]
      /\ dir[Len(k) + 1] = "/"
  <2>1. STRING \subseteq Tokens /\ "/" \in Tokens
    BY DEF Tokens
  <2>2. k \in Seq(Tokens) /\ n \in Seq(Tokens)
    BY <2>1, SeqMonotonic DEF Keys
  <2> QED
    BY <2>1, <2>2, AppendProperties
<1>3. \A i \in Len(k) + 1 .. Len(n) : n[i] \in STRING
  BY <1>1, ElementOfSeq DEF Keys
<1>4. /\ rest \in Seq(STRING)
      /\ Len(rest) = IF Len(k) + 1 <= Len(n) THEN Len(n) - (Len(k) + 1) + 1 ELSE 0
      /\ \A i \in 1 .. Len(n) - (Len(k) + 1) + 1 : rest[i] = n[Len(k) + 1 + i - 1]
  BY <1>1, <1>3, SubSeqProperties
<1> HIDE DEF dir, rest
<1>5. HasPrefix(n, k) => (StartsWith(rest, "/") <=> Len(k) < Len(n) /\ n[Len(k) + 1] = "/")
  <2>1. rest # <<>> <=> Len(rest) # 0
    BY <1>4, EmptySeq
  <2>2. Len(rest) # 0 <=> Len(k) < Len(n)
    BY <1>1, <1>4
  <2>3. Len(k) < Len(n) => rest[1] = n[Len(k) + 1]
    BY <1>1, <1>4
  <2> QED
    BY <2>1, <2>2, <2>3 DEF StartsWith
<1>6. HasPrefix(n, dir) <=> HasPrefix(n, k) /\ Len(k) < Len(n) /\ n[Len(k) + 1] = "/"
  <2>1. HasPrefix(n, k) <=> Len(k) <= Len(n) /\ \A i \in 1 .. Len(k) : n[i] = k[i]
    BY <1>2, PrefixMeans
  <2>2. HasPrefix(n, dir) <=> Len(dir) <= Len(n) /\ \A i \in 1 .. Len(dir) : n[i] = dir[i]
    BY <1>2, PrefixMeans
  <2> QED
    BY <1>1, <1>2, <2>1, <2>2
<1> QED
  BY <1>5, <1>6 DEF dir, rest

LEMMA TrimRightMeans ==
  ASSUME NEW T, NEW k \in Seq(T), NEW t
  PROVE  /\ \E m \in 0 .. Len(k) : TrimRight(k, t) = SubSeq(k, 1, m)
         /\ ~EndsWith(k, t) => TrimRight(k, t) = k
<1> DEFINE kept == {i \in 1 .. Len(k) : k[i] # t} \cup {0}
<1>1. Len(k) \in Nat
  BY LenProperties
<1>2. kept \in SUBSET (0 .. Len(k)) /\ kept # {}
  BY <1>1
<1> HIDE DEF kept
<1>3. /\ Max(kept) \in kept /\ Max(kept) \in 0 .. Len(k)
      /\ \A y \in kept : y <= Max(kept)
  BY <1>1, <1>2, GreatestOf
<1>4. PICK m \in 0 .. Len(k) : m = Max(kept)
  BY <1>3
<1>5. TrimRight(k, t) = SubSeq(k, 1, m)
  BY <1>4 DEF TrimRight, kept
<1>6. ASSUME ~EndsWith(k, t) PROVE TrimRight(k, t) = k
  <2>1. Len(k) \in kept
    <3>1. k = <<>> => Len(k) = 0
      BY EmptySeq
    <3>2. k # <<>> => Len(k) \in 1 .. Len(k) /\ k[Len(k)] # t
      BY <1>1, <1>6, EmptySeq DEF EndsWith
    <3> QED
      BY <3>1, <3>2 DEF kept
  <2>2. m = Len(k)
    <3>1. Len(k) <= m
      BY <1>3, <1>4, <2>1
    <3> QED
      BY <1>1, <3>1
  <2> QED
    BY <1>5, <2>2, SubSeqFull
<1> QED
  BY <1>5, <1>6

LEMMA TrimLeftMeans ==
  ASSUME NEW T, NEW k \in Seq(T), NEW t
  PROVE  \E m \in 1 .. Len(k) + 1 :
           /\ TrimLeft(k, t) = SubSeq(k, m, Len(k))
           /\ m <= Len(k) => k[m] # t
           /\ \A i \in 1 .. m - 1 : k[i] = t
<1> DEFINE kept == {i \in 1 .. Len(k) : k[i] # t} \cup {Len(k) + 1}
<1>1. Len(k) \in Nat
  BY LenProperties
<1>2. kept \in SUBSET Nat /\ kept # {} /\ kept \in SUBSET (1 .. Len(k) + 1)
  BY <1>1
<1>3. TrimLeft(k, t) = SubSeq(k, Min(kept), Len(k))
  BY DEF TrimLeft
<1>4. \A m \in kept : m <= Len(k) => k[m] # t
  BY <1>1
<1>5. \A i \in 1 .. Len(k) : i \in kept \/ k[i] = t
  OBVIOUS
<1> HIDE DEF kept
<1>6. PICK m \in kept : m = Min(kept) /\ \A y \in kept : m <= y
  BY <1>2, LeastOf
<1>7. \A i \in 1 .. m - 1 : k[i] = t
  BY <1>1, <1>2, <1>5, <1>6
<1> QED
  BY <1>2, <1>3, <1>4, <1>6, <1>7

LEMMA TrimRightIsKey ==
  ASSUME NEW k \in Keys, NEW t
  PROVE  /\ TrimRight(k, t) \in Keys
         /\ ~EndsWith(k, t) => TrimRight(k, t) = k
<1>1. k \in Seq(STRING) /\ Len(k) \in Nat
  BY LenProperties DEF Keys
<1>2. PICK m \in 0 .. Len(k) : TrimRight(k, t) = SubSeq(k, 1, m)
  BY <1>1, TrimRightMeans
<1>3. m \in Int /\ \A i \in 1 .. m : k[i] \in STRING
  BY <1>1, <1>2, ElementOfSeq
<1> QED
  BY <1>1, <1>2, <1>3, TrimRightMeans, SubSeqProperties DEF Keys

LEMMA TrimLeftIsKey ==
  ASSUME NEW k \in Keys, NEW t
  PROVE  TrimLeft(k, t) \in Keys
<1> DEFINE kept == {i \in 1 .. Len(k) : k[i] # t} \cup {Len(k) + 1}
<1>1. Len(k) \in Nat
  BY LenProperties DEF Keys
<1>2. kept \in SUBSET Nat /\ kept # {} /\ kept \in SUBSET (1 .. Len(k) + 1)
  BY <1>1
<1> HIDE DEF kept
<1>3. PICK m \in kept : m = Min(kept)
  BY <1>2, LeastOf
<1>a. m \in Int /\ 1 <= m
  BY <1>1, <1>2
<1>4. \A i \in m .. Len(k) : k[i] \in STRING
  BY <1>1, <1>a, ElementOfSeq DEF Keys
<1>5. TrimLeft(k, t) = SubSeq(k, m, Len(k))
  BY <1>3 DEF TrimLeft, kept
<1> QED
  BY <1>1, <1>a, <1>4, <1>5, SubSeqProperties DEF Keys

-----------------------------------------------------------------------------
(* What comes first.                                                       *)

LEMMA FirstOfIsStart ==
  ASSUME NEW S \in SUBSET Ids, NEW n \in Nat,
         NEW i \in FirstOf(S, n), NEW j \in S \ FirstOf(S, n)
  PROVE  i < j
<1> DEFINE Before(m) == {x \in S : x < m}
<1>1. i \in Int /\ j \in Int /\ i \in S
  BY IdsAreNumbers DEF FirstOf
<1>2. \A m : IsFiniteSet(Before(m)) /\ Cardinality(Before(m)) \in Nat
  <2> SUFFICES ASSUME NEW m
               PROVE  IsFiniteSet(Before(m)) /\ Cardinality(Before(m)) \in Nat
    OBVIOUS
  <2>1. Before(m) \in SUBSET Ids
    OBVIOUS
  <2>2. IsFiniteSet(1 .. Len(Names)) /\ Ids = 1 .. Len(Names)
    BY IdsAreNumbers, FS_Interval
  <2> HIDE DEF Before
  <2> QED
    BY <2>1, <2>2, FS_Subset, FS_CardinalityType
<1>3. Cardinality(Before(i)) < n /\ ~(Cardinality(Before(j)) < n)
  BY DEF FirstOf
<1>4. ASSUME j <= i PROVE FALSE
  <2>1. Before(j) \in SUBSET Before(i)
    <3> SUFFICES ASSUME NEW x \in S, x < j PROVE x < i
      OBVIOUS
    <3>1. x \in Int
      BY IdsAreNumbers
    <3> QED
      BY <1>1, <1>4, <3>1
  <2>2. Cardinality(Before(j)) <= Cardinality(Before(i))
    BY <1>2, <2>1, FS_Subset
  <2> HIDE DEF Before
  <2> QED
    BY <1>2, <1>3, <2>2
<1> QED
  BY <1>1, <1>4

LEMMA FirstOfSome ==
  ASSUME NEW S \in SUBSET Ids, S # {}, NEW n \in Nat \ {0}
  PROVE  FirstOf(S, n) # {}
<1>1. S \in SUBSET Nat
  BY IdsAreNumbers
<1>2. PICK x \in S : \A y \in S : x <= y
  BY <1>1, LeastOf
<1>3. {y \in S : y < x} = {}
  <2>1. \A y \in S : y \in Int /\ x \in Int
    BY <1>1
  <2> QED
    BY <1>2, <2>1
<1>4. Cardinality({y \in S : y < x}) = 0
  BY <1>3, FS_EmptySet
<1> QED
  BY <1>4 DEF FirstOf

-----------------------------------------------------------------------------
(* A key with a slash behind the prefix, and its common prefix.            *)

DirOf(i, prefix) == SubSeq(Names[i], 1, Min(SlashesBehind(Names[i], prefix)))

LEMMA KeysAreTokens == Keys \subseteq Seq(Tokens)
<1>1. STRING \subseteq Tokens
  BY DEF Tokens
<1> QED
  BY <1>1, SeqMonotonic DEF Keys

LEMMA DirMeans ==
  ASSUME NEW prefix \in Seq(Tokens), NEW j \in Ids, SlashesBehind(Names[j], prefix) # {}
  PROVE  \E n \in 1 .. Len(Names[j]) :
           /\ n > Len(prefix) /\ Names[j][n] = "/"
           /\ DirOf(j, prefix) = SubSeq(Names[j], 1, n)
           /\ DirOf(j, prefix) \in Keys /\ Len(DirOf(j, prefix)) = n
           /\ HasPrefix(Names[j], DirOf(j, prefix))
           /\ \A i \in Ids : HasPrefix(Names[i], DirOf(j, prefix)) =>
                /\ SlashesBehind(Names[i], prefix) # {}
                /\ DirOf(i, prefix) = DirOf(j, prefix)
                /\ HasPrefix(Names[j], prefix) => HasPrefix(Names[i], prefix)
<1> DEFINE k == Names[j]
           d == DirOf(j, prefix)
<1>1. k \in Keys /\ Len(k) \in Nat /\ Len(prefix) \in Nat
  BY NamesAreKeys, LenProperties DEF Keys
<1>2. SlashesBehind(k, prefix) \in SUBSET Nat
  BY <1>1 DEF SlashesBehind
<1>3. PICK n \in SlashesBehind(k, prefix) :
        n = Min(SlashesBehind(k, prefix)) /\ \A m \in SlashesBehind(k, prefix) : n <= m
  BY <1>2, LeastOf
<1>4. n \in 1 .. Len(k) /\ n > Len(prefix) /\ k[n] = "/"
  BY <1>1, <1>3 DEF SlashesBehind
<1>5. \A m \in 1 .. n : k[m] \in STRING
  BY <1>1, <1>4, ElementOfSeq DEF Keys
<1>6. d \in Keys /\ Len(d) = n /\ d = SubSeq(k, 1, n) /\ \A m \in 1 .. n : d[m] = k[m]
  <2>1. /\ SubSeq(k, 1, n) \in Seq(STRING)
        /\ Len(SubSeq(k, 1, n)) = IF 1 <= n THEN n - 1 + 1 ELSE 0
        /\ \A m \in 1 .. n - 1 + 1 : SubSeq(k, 1, n)[m] = k[1 + m - 1]
    BY <1>4, <1>5, SubSeqProperties
  <2>2. d = SubSeq(k, 1, n)
    BY <1>3 DEF DirOf
  <2> HIDE DEF d
  <2> QED
    BY <1>1, <1>4, <2>1, <2>2 DEF Keys
<1> HIDE DEF d
<1>7. HasPrefix(k, d)
  <2>1. k \in Seq(STRING) /\ d \in Seq(STRING)
    BY <1>1, <1>6 DEF Keys
  <2>2. Len(d) <= Len(k) /\ \A m \in 1 .. Len(d) : k[m] = d[m]
    BY <1>1, <1>4, <1>6
  <2> QED
    BY <2>1, <2>2, PrefixMeans
<1>8. ASSUME NEW i \in Ids, HasPrefix(Names[i], d)
      PROVE  /\ SlashesBehind(Names[i], prefix) # {}
             /\ DirOf(i, prefix) = d
             /\ HasPrefix(k, prefix) => HasPrefix(Names[i], prefix)
  <2>1. Names[i] \in Keys /\ Len(Names[i]) \in Nat
    BY NamesAreKeys, LenProperties DEF Keys
  <2>2. n <= Len(Names[i]) /\ \A m \in 1 .. n : Names[i][m] = k[m]
    <3>1. Names[i] \in Seq(STRING) /\ d \in Seq(STRING)
      BY <1>6, <2>1 DEF Keys
    <3>2. Len(d) <= Len(Names[i]) /\ \A m \in 1 .. Len(d) : Names[i][m] = d[m]
      BY <1>8, <3>1, PrefixMeans
    <3> QED
      BY <1>6, <3>2
  <2>3. n \in SlashesBehind(Names[i], prefix)
    BY <1>1, <1>4, <2>1, <2>2 DEF SlashesBehind
  <2>4. \A m \in SlashesBehind(Names[i], prefix) : n <= m
    <3> SUFFICES ASSUME NEW m \in SlashesBehind(Names[i], prefix), m < n PROVE FALSE
      BY <1>1, <1>4, <2>1 DEF SlashesBehind
    <3>1. m \in Len(prefix) + 1 .. Len(Names[i]) /\ Names[i][m] = "/"
      BY DEF SlashesBehind
    <3>2. m \in 1 .. n /\ m \in Len(prefix) + 1 .. Len(k)
      BY <1>1, <1>4, <2>1, <3>1
    <3>3. m \in SlashesBehind(k, prefix)
      BY <2>2, <3>1, <3>2 DEF SlashesBehind
    <3> QED
      BY <1>1, <1>3, <1>4, <3>2, <3>3
  <2>5. n = Min(SlashesBehind(Names[i], prefix))
    <3>1. SlashesBehind(Names[i], prefix) \in SUBSET Nat
      BY <1>1, <2>1 DEF SlashesBehind
    <3>2. PICK m \in SlashesBehind(Names[i], prefix) :
            m = Min(SlashesBehind(Names[i], prefix))
            /\ \A y \in SlashesBehind(Names[i], prefix) : m <= y
      BY <2>3, <3>1, LeastOf
    <3>3. m <= n /\ n <= m /\ m \in Nat
      BY <2>3, <2>4, <3>1, <3>2
    <3> QED
      BY <1>4, <3>2, <3>3
  <2>6. SubSeq(Names[i], 1, n) = d
    <3> DEFINE s == SubSeq(Names[i], 1, n)
    <3>1. \A m \in 1 .. n : Names[i][m] \in STRING
      BY <1>5, <2>2
    <3>2. /\ s \in Seq(STRING)
          /\ Len(s) = IF 1 <= n THEN n - 1 + 1 ELSE 0
          /\ \A m \in 1 .. n - 1 + 1 : s[m] = Names[i][1 + m - 1]
      BY <1>4, <3>1, SubSeqProperties
    <3> HIDE DEF s
    <3>3. Len(s) = Len(d) /\ \A m \in 1 .. Len(s) : s[m] = d[m]
      BY <1>1, <1>4, <1>6, <2>2, <3>2
    <3>4. s = d
      BY <1>6, <3>2, <3>3, SeqEqual DEF Keys
    <3> QED
      BY <3>4 DEF s
  <2>7. DirOf(i, prefix) = d
    BY <2>5, <2>6 DEF DirOf
  <2>8. HasPrefix(k, prefix) => HasPrefix(Names[i], prefix)
    <3>1. k \in Seq(Tokens) /\ Names[i] \in Seq(Tokens)
      BY <1>1, <2>1, KeysAreTokens
    <3>2. ASSUME HasPrefix(k, prefix)
          PROVE  Len(prefix) <= Len(Names[i]) /\ \A m \in 1 .. Len(prefix) : Names[i][m] = prefix[m]
      <4>1. Len(prefix) <= Len(k) /\ \A m \in 1 .. Len(prefix) : k[m] = prefix[m]
        BY <3>1, <3>2, PrefixMeans
      <4>2. Len(prefix) < n
        BY <1>1, <1>4
      <4>3. \A m \in 1 .. Len(prefix) : m \in 1 .. n
        BY <1>1, <1>4
      <4> QED
        BY <1>1, <1>4, <2>1, <2>2, <4>1, <4>2, <4>3
    <3> QED
      BY <3>1, <3>2, PrefixMeans
  <2> QED
    BY <2>3, <2>7, <2>8
<1> QED
  BY <1>3, <1>4, <1>6, <1>7, <1>8 DEF d

-----------------------------------------------------------------------------
(***************************************************************************)
(* A page: what it has of what is asked for, and that the rest of it comes *)
(* behind its marker.                                                      *)
(***************************************************************************)
IsListing(l) ==
  /\ l.keys \subseteq Ids /\ l.next \in Ids \cup {0}
  /\ l.truncated \in BOOLEAN /\ l.nil \in BOOLEAN
  /\ l = [nil |-> l.nil, keys |-> l.keys, dirs |-> l.dirs,
          truncated |-> l.truncated, next |-> l.next]

Behind(S, prefix, marker) == {i \in S : i > marker /\ HasPrefix(Names[i], prefix)}

Covers(p, i) == i \in p.keys \/ \E d \in p.dirs : HasPrefix(Names[i], d)

IsPageFor(p, behind, prefix, delimiter) ==
  /\ IsListing(p) /\ p.nil = FALSE
  /\ p.keys \subseteq behind
  /\ IsFiniteSet(p.dirs)
  /\ \A i \in p.keys : delimiter => SlashesBehind(Names[i], prefix) = {}
  /\ \A d \in p.dirs : delimiter /\ \E j \in behind : /\ SlashesBehind(Names[j], prefix) # {}
                                                      /\ d = DirOf(j, prefix)
  /\ \A i \in behind : Covers(p, i) \/ (p.truncated /\ i > p.next)
  /\ p.truncated => /\ p.next \in Ids /\ Covers(p, p.next)
                    /\ \A i \in Ids : Covers(p, i) => i <= p.next

LEMMA PageCovers ==
  ASSUME NEW S \in SUBSET Ids, NEW prefix \in Seq(Tokens), NEW delimiter \in BOOLEAN,
         NEW marker \in Nat, NEW size \in Nat \ {0}
  PROVE  IsPageFor(ListPage(S, prefix, delimiter, marker, size),
                   Behind(S, prefix, marker), prefix, delimiter)
<1> DEFINE behind == Behind(S, prefix, marker)
           inDir == {i \in behind : delimiter /\ SlashesBehind(Names[i], prefix) # {}}
           repeated == {i \in inDir : \E j \in inDir :
                          j < i /\ DirOf(i, prefix) = DirOf(j, prefix)}
           page == FirstOf(behind \ repeated, size)
           dirs == {DirOf(i, prefix) : i \in page \cap inDir}
           covered == page \cup {i \in Ids : \E d \in dirs : HasPrefix(Names[i], d)}
           p == ListPage(S, prefix, delimiter, marker, size)
<1>1. p = [nil |-> FALSE, keys |-> page \ inDir, dirs |-> dirs,
           truncated |-> ~(behind \subseteq covered),
           next |-> IF behind \subseteq covered THEN 0 ELSE Max(covered)]
  <2> DEFINE dir == [i \in inDir |-> SubSeq(Names[i], 1, Min(SlashesBehind(Names[i], prefix)))]
             again == {i \in inDir : \E j \in inDir : j < i /\ dir[i] = dir[j]}
             first == FirstOf(behind \ again, size)
             ds == {dir[i] : i \in first \cap inDir}
             cover == first \cup {i \in Ids : \E d \in ds : HasPrefix(Names[i], d)}
  <2>1. p = [nil |-> FALSE, keys |-> first \ inDir, dirs |-> ds,
             truncated |-> ~(behind \subseteq cover),
             next |-> IF behind \subseteq cover THEN 0 ELSE Max(cover)]
    BY Zenon DEF ListPage, Behind
  <2>2. \A i \in inDir : dir[i] = DirOf(i, prefix)
    BY DEF DirOf
  <2> HIDE DEF dir, inDir, behind
  <2>3. again = repeated
    BY <2>2
  <2>4. first = page
    BY <2>3
  <2> HIDE DEF first, page, again, repeated
  <2>5. ds = dirs
    BY <2>2, <2>4
  <2>6. cover = covered
    BY <2>4, <2>5
  <2> QED
    BY <2>1, <2>4, <2>5, <2>6
<1> HIDE DEF p
<1>2. /\ behind \in SUBSET Ids /\ inDir \in SUBSET behind
      /\ repeated \in SUBSET inDir /\ page \in SUBSET (behind \ repeated)
  BY DEF FirstOf, Behind
<1>3. covered \in SUBSET Ids
  BY <1>2
<1>4. \A i \in Ids : i \in Int /\ i \in Nat
  BY IdsAreNumbers
<1>5. \A i \in inDir : delimiter /\ SlashesBehind(Names[i], prefix) # {}
  OBVIOUS
<1>6. \A i \in behind : i \in inDir \/ (delimiter => SlashesBehind(Names[i], prefix) = {})
  OBVIOUS
<1>7. \A i \in behind \ repeated : i \in page \/ \A j \in page : j < i
  <2> SUFFICES ASSUME NEW i \in behind \ repeated, i \notin page, NEW j \in page
               PROVE  j < i
    OBVIOUS
  <2>1. behind \ repeated \in SUBSET Ids
    BY <1>2
  <2> HIDE DEF behind, repeated
  <2> QED
    BY <2>1, FirstOfIsStart
(* Each has a first one with its directory.                                *)
<1>8. ASSUME NEW i \in behind
      PROVE  \E j \in behind \ repeated :
               j <= i /\ (j = i \/ (j \in inDir /\ i \in inDir /\ DirOf(j, prefix) = DirOf(i, prefix)))
  <2>1. CASE i \notin repeated
    BY <1>2, <1>4, <2>1
  <2>2. CASE i \in repeated
    <3> DEFINE same == {j \in inDir : DirOf(i, prefix) = DirOf(j, prefix)}
    <3>1. same \in SUBSET Nat /\ i \in same /\ i \in inDir
      BY <1>2, <1>4, <2>2
    <3>2. \A j : j \in same <=> j \in inDir /\ DirOf(i, prefix) = DirOf(j, prefix)
      OBVIOUS
    <3> HIDE DEF same
    <3>3. PICK j \in same : \A y \in same : j <= y
      BY <3>1, LeastOf
    <3>4. j \notin repeated
      <4> SUFFICES ASSUME NEW y \in inDir, y < j, DirOf(j, prefix) = DirOf(y, prefix)
                   PROVE  FALSE
        OBVIOUS
      <4>1. y \in same
        BY <3>2, <3>3
      <4> QED
        BY <3>1, <3>3, <4>1
    <3>5. j <= i /\ j \in inDir /\ DirOf(j, prefix) = DirOf(i, prefix)
      BY <3>1, <3>2, <3>3
    <3> QED
      BY <1>2, <3>1, <3>4, <3>5
  <2> QED
    BY <2>1, <2>2
<1>9. behind # {} => page # {}
  <2> SUFFICES ASSUME NEW i \in behind PROVE page # {}
    OBVIOUS
  <2>1. behind \ repeated \in SUBSET Ids /\ behind \ repeated # {}
    BY <1>2, <1>8
  <2> HIDE DEF behind, repeated
  <2> QED
    BY <2>1, FirstOfSome
<1>10. \A d \in dirs : \E j \in page : j \in inDir /\ d = DirOf(j, prefix)
  OBVIOUS
<1>11. \A j \in page \cap inDir : DirOf(j, prefix) \in dirs /\ HasPrefix(Names[j], DirOf(j, prefix))
  <2> SUFFICES ASSUME NEW j \in page \cap inDir
               PROVE  DirOf(j, prefix) \in dirs /\ HasPrefix(Names[j], DirOf(j, prefix))
    OBVIOUS
  <2>1. j \in Ids /\ SlashesBehind(Names[j], prefix) # {}
    BY <1>2, <1>5
  <2> QED
    BY <2>1, DirMeans
<1>12. \A i \in Ids : i \in covered <=> i \in page \/ \E d \in dirs : HasPrefix(Names[i], d)
  BY <1>2
<1> HIDE DEF behind, inDir, repeated, page, dirs, covered
(* What is not covered stands behind everything that is.                   *)
<1>13. ASSUME NEW i \in behind, i \notin covered, NEW c \in covered
       PROVE  c < i
  <2>1. i \in Ids /\ c \in Ids /\ i \in Int /\ c \in Int
    BY <1>2, <1>3, <1>4, <1>13
  <2>2. PICK j \in behind \ repeated :
          j <= i /\ (j = i \/ (j \in inDir /\ i \in inDir /\ DirOf(j, prefix) = DirOf(i, prefix)))
    BY <1>8
  <2>3. j \in Ids /\ j \in Int
    BY <1>2, <1>4, <2>2
  <2>4. ASSUME NEW y \in page \cap inDir, HasPrefix(Names[j], DirOf(y, prefix)) PROVE FALSE
    <3>1. y \in Ids /\ SlashesBehind(Names[y], prefix) # {}
      BY <1>2, <1>5
    <3>2. DirOf(j, prefix) = DirOf(y, prefix)
      BY <2>3, <2>4, <3>1, DirMeans
    <3>3. HasPrefix(Names[i], DirOf(y, prefix))
      <4>1. CASE j = i
        BY <2>4, <4>1
      <4>2. CASE i \in inDir /\ DirOf(j, prefix) = DirOf(i, prefix)
        <5>1. HasPrefix(Names[i], DirOf(i, prefix))
          BY <1>5, <2>1, <4>2, DirMeans
        <5> QED
          BY <3>2, <4>2, <5>1
      <4> QED
        BY <2>2, <4>1, <4>2
    <3> QED
      BY <1>11, <1>12, <1>13, <2>1, <3>3
  <2>5. j \notin page
    <3>1. CASE j = i
      BY <1>12, <1>13, <2>1, <3>1
    <3>2. CASE j \in inDir
      BY <1>11, <2>4, <3>2
    <3> QED
      BY <2>2, <3>1, <3>2
  <2>6. \A y \in page : y < j
    BY <1>7, <2>2, <2>5
  <2>7. CASE c \in page
    BY <2>1, <2>2, <2>3, <2>6, <2>7
  <2>8. ASSUME NEW y \in page, y \in inDir, HasPrefix(Names[c], DirOf(y, prefix)), c >= i
        PROVE  FALSE
    <3>1. y \in Ids /\ SlashesBehind(Names[y], prefix) # {} /\ y < j /\ y \in Int
      BY <1>2, <1>4, <1>5, <2>6, <2>8
    <3>2. HasPrefix(Names[j], DirOf(y, prefix))
      <4>1. CASE c = j
        BY <2>8, <4>1
      <4>2. CASE c > j
        <5>1. PICK n \in 1 .. Len(Names[y]) : DirOf(y, prefix) = SubSeq(Names[y], 1, n)
          BY <3>1, DirMeans
        <5>2. n \in 0 .. Len(Names[y])
          BY <5>1
        <5> QED
          BY <2>1, <2>3, <2>8, <3>1, <4>2, <5>1, <5>2, OrderAssumption
      <4> QED
        BY <2>1, <2>2, <2>3, <2>8, <4>1, <4>2
    <3> QED
      BY <2>4, <2>8, <3>2
  <2> QED
    BY <1>10, <1>12, <1>13, <2>1, <2>7, <2>8
<1>14. ASSUME ~(behind \subseteq covered)
       PROVE  /\ Max(covered) \in covered /\ Max(covered) \in Ids
              /\ \A c \in covered : c <= Max(covered)
  <2>1. covered # {}
    BY <1>2, <1>9, <1>12, <1>14
  <2>2. covered \in SUBSET (0 .. Len(Names)) /\ Len(Names) \in Nat
    <3>1. Ids \in SUBSET (0 .. Len(Names)) /\ Len(Names) \in Nat
      BY IdsAreNumbers
    <3> QED
      BY <1>3, <3>1
  <2> QED
    BY <1>3, <2>1, <2>2, GreatestOf
<1>15. /\ p.nil = FALSE /\ p.keys = page \ inDir /\ p.dirs = dirs
       /\ p.truncated = ~(behind \subseteq covered)
       /\ p.truncated => p.next = Max(covered) /\ ~(behind \subseteq covered)
       /\ ~p.truncated => p.next = 0
       /\ behind \subseteq covered => ~p.truncated
  BY <1>1
<1>16. \A i \in Ids : Covers(p, i) <=> i \in covered
  BY <1>11, <1>12, <1>15 DEF Covers
<1>17. IsListing(p)
  BY <1>1, <1>2, <1>14, <1>15 DEF IsListing
<1>18. IsFiniteSet(p.dirs)
  <2> DEFINE f == [i \in page \cap inDir |-> DirOf(i, prefix)]
  <2>1. IsFiniteSet(page \cap inDir)
    <3>1. Ids = 1 .. Len(Names) /\ Len(Names) \in Nat
      BY IdsAreNumbers
    <3>2. IsFiniteSet(Ids)
      BY <3>1, FS_Interval
    <3>3. page \cap inDir \in SUBSET Ids
      BY <1>2
    <3> QED
      BY <3>2, <3>3, FS_Subset
  <2>2. f \in Surjection(page \cap inDir, dirs)
    BY <1>10, <1>11 DEF Surjection
  <2> QED
    BY <1>15, <2>1, <2>2, FS_Surjection
<1>19. ASSUME NEW i \in behind PROVE Covers(p, i) \/ (p.truncated /\ i > p.next)
  <2>1. CASE i \in covered
    BY <1>2, <1>16, <2>1
  <2>2. CASE i \notin covered
    <3>1. p.truncated /\ p.next = Max(covered)
      BY <1>15, <2>2
    <3>2. Max(covered) \in covered /\ Max(covered) \in Ids
      BY <1>14, <2>2
    <3>3. PICK m \in covered : m = Max(covered)
      BY <3>2
    <3>4. m < i /\ m \in Int /\ i \in Int
      BY <1>2, <1>3, <1>4, <1>13, <2>2, <3>3
    <3> QED
      BY <3>1, <3>3, <3>4
  <2> QED
    BY <2>1, <2>2
<1>20. p.truncated => /\ p.next \in Ids /\ Covers(p, p.next)
                      /\ \A i \in Ids : Covers(p, i) => i <= p.next
  BY <1>14, <1>15, <1>16
<1>21. ASSUME NEW d \in p.dirs
       PROVE  delimiter /\ \E j \in behind : /\ SlashesBehind(Names[j], prefix) # {}
                                             /\ d = DirOf(j, prefix)
  BY <1>2, <1>5, <1>10, <1>15
<1>22. p.keys \subseteq behind /\ \A i \in p.keys : delimiter => SlashesBehind(Names[i], prefix) = {}
  BY <1>2, <1>6, <1>15
<1> QED
  BY <1>15, <1>17, <1>18, <1>19, <1>20, <1>21, <1>22 DEF behind, p, IsPageFor

(* Of a page that has no directories, or where they do not count.          *)
Wanted(S, prefix, delimiter, marker) ==
  {i \in S : /\ i > marker /\ HasPrefix(Names[i], prefix)
             /\ delimiter => SlashesBehind(Names[i], prefix) = {}}

IsPageOf(p, wanted, delimiter) ==
  /\ p = [nil |-> FALSE, keys |-> p.keys, dirs |-> p.dirs,
          truncated |-> p.truncated, next |-> p.next]
  /\ p.keys \in SUBSET wanted
  /\ p.truncated \in BOOLEAN
  /\ p.next \in Ids \cup {0}
  /\ \A i \in wanted : i \in p.keys \/ (p.truncated /\ i > p.next)
  /\ ~delimiter /\ wanted # {} => p.keys # {}

LEMMA PageIsComplete ==
  ASSUME NEW S \in SUBSET Ids, NEW prefix \in Keys, NEW delimiter \in BOOLEAN,
         NEW marker \in Nat, NEW size \in Nat \ {0}
  PROVE  IsPageOf(ListPage(S, prefix, delimiter, marker, size),
                  Wanted(S, prefix, delimiter, marker), delimiter)
<1> DEFINE p == ListPage(S, prefix, delimiter, marker, size)
           behind == Behind(S, prefix, marker)
           wanted == Wanted(S, prefix, delimiter, marker)
<1>1. IsPageFor(p, behind, prefix, delimiter) /\ prefix \in Seq(Tokens)
  BY PageCovers, KeysAreTokens
<1>2. \A i : i \in wanted <=> i \in behind /\ (delimiter => SlashesBehind(Names[i], prefix) = {})
  BY DEF Wanted, Behind
<1>3. behind \subseteq Ids
  BY DEF Behind
<1> HIDE DEF p, behind, wanted
<1>4. p = [nil |-> FALSE, keys |-> p.keys, dirs |-> p.dirs,
           truncated |-> p.truncated, next |-> p.next]
      /\ p.truncated \in BOOLEAN /\ p.next \in Ids \cup {0}
  BY <1>1 DEF IsPageFor, IsListing
<1>5. p.keys \in SUBSET wanted
  BY <1>1, <1>2 DEF IsPageFor
<1>6. ASSUME NEW i \in wanted PROVE i \in p.keys \/ (p.truncated /\ i > p.next)
  <2>1. ASSUME NEW d \in p.dirs, HasPrefix(Names[i], d) PROVE FALSE
    <3>1. PICK j \in behind : SlashesBehind(Names[j], prefix) # {} /\ d = DirOf(j, prefix)
      BY <1>1 DEF IsPageFor
    <3>2. SlashesBehind(Names[i], prefix) # {} /\ delimiter
      BY <1>1, <1>2, <1>3, <2>1, <3>1, DirMeans DEF IsPageFor
    <3> QED
      BY <1>2, <3>2
  <2> QED
    BY <1>1, <1>2, <2>1 DEF IsPageFor, Covers
<1>7. ASSUME ~delimiter, wanted # {} PROVE p.keys # {}
  BY <1>1, <1>2, <1>7 DEF IsPageFor, Covers
<1> QED
  BY <1>4, <1>5, <1>6, <1>7 DEF p, wanted, IsPageOf

-----------------------------------------------------------------------------
(***************************************************************************)
(* What a listing with its directories may still find, and how a page and  *)
(* what follows from it, its next one and its directories, divide that.    *)
(***************************************************************************)
Region(prefix, marker) == Behind(Ids, prefix, marker)

(* The marker stands inside no directory.                                  *)
Clear(prefix, marker) ==
  \A j \in Region(prefix, marker) : SlashesBehind(Names[j], prefix) # {} =>
    \A i \in Ids : HasPrefix(Names[i], DirOf(j, prefix)) => i > marker

LEMMA ClearAtStart ==
  ASSUME NEW prefix
  PROVE  Clear(prefix, 0)
BY IdsAreNumbers DEF Clear

Divides(p, S, prefix, marker) ==
  /\ p.keys \subseteq Region(prefix, marker)
  /\ \A d \in p.dirs :
       /\ d \in Keys /\ Len(d) > Len(prefix)
       /\ Region(d, 0) # {} /\ Region(d, 0) \subseteq Region(prefix, marker)
       /\ \A i \in Region(d, 0) :
            /\ i \notin p.keys
            /\ p.truncated => i <= p.next
            /\ \A e \in p.dirs : HasPrefix(Names[i], e) => e = d
       /\ \A i \in Ids : HasPrefix(Names[i], d) => i \in Region(d, 0)
       /\ \E n \in 1 .. Len(d) : d[n] = "/" /\ n = Len(d)
  /\ p.truncated =>
       /\ p.next > marker
       /\ \A i \in p.keys : i <= p.next
  /\ \A i \in Behind(S, prefix, marker) :
       \/ i \in p.keys
       \/ \E d \in p.dirs : i \in Region(d, 0)
       \/ p.truncated /\ i \in Region(prefix, p.next)

GoodPage(p, S, prefix, delimiter, marker) ==
  /\ IsListing(p) /\ p.nil = FALSE /\ IsFiniteSet(p.dirs)
  /\ Divides(p, S, prefix, marker)
  /\ delimiter /\ p.truncated => Clear(prefix, p.next)
  /\ ~delimiter => p.dirs = {}

LEMMA PageDivides ==
  ASSUME NEW S \in SUBSET Ids, NEW prefix \in Seq(Tokens), NEW delimiter \in BOOLEAN,
         NEW marker \in Nat, NEW size \in Nat \ {0}, delimiter => Clear(prefix, marker)
  PROVE  GoodPage(ListPage(S, prefix, delimiter, marker, size), S, prefix, delimiter, marker)
<1> DEFINE p == ListPage(S, prefix, delimiter, marker, size)
           behind == Behind(S, prefix, marker)
<1>1. IsPageFor(p, behind, prefix, delimiter)
  BY PageCovers
<1>2. \A i : i \in behind => i \in S /\ i \in Ids /\ i \in Region(prefix, marker)
  BY DEF Behind, Region
<1>3. \A k, m : \A i : i \in Region(k, m) <=> i \in Ids /\ i > m /\ HasPrefix(Names[i], k)
  BY DEF Behind, Region
<1>4. \A i \in behind : i > marker /\ HasPrefix(Names[i], prefix)
  BY DEF Behind
<1> HIDE DEF p, behind
<1>5. \A i \in Ids : i \in Nat /\ i > 0
  BY IdsAreNumbers
<1>6. Len(prefix) \in Nat
  BY LenProperties
<1>7. ASSUME NEW d \in p.dirs
      PROVE  /\ d \in Keys /\ Len(d) > Len(prefix)
             /\ \E n \in 1 .. Len(d) : d[n] = "/" /\ n = Len(d)
             /\ Region(d, 0) # {} /\ Region(d, 0) \subseteq Region(prefix, marker)
             /\ \A i \in Ids : HasPrefix(Names[i], d) =>
                  /\ i \in Region(d, 0) /\ SlashesBehind(Names[i], prefix) # {}
                  /\ DirOf(i, prefix) = d
  <2>1. PICK j \in behind : SlashesBehind(Names[j], prefix) # {} /\ d = DirOf(j, prefix)
    BY <1>1 DEF IsPageFor
  <2>2. delimiter /\ j \in Ids /\ HasPrefix(Names[j], prefix) /\ j \in Region(prefix, marker)
    BY <1>1, <1>2, <1>4 DEF IsPageFor
  <2>3. PICK n \in 1 .. Len(Names[j]) :
           /\ n > Len(prefix) /\ Names[j][n] = "/"
           /\ DirOf(j, prefix) \in Keys /\ Len(DirOf(j, prefix)) = n
           /\ HasPrefix(Names[j], DirOf(j, prefix))
           /\ \A i \in Ids : HasPrefix(Names[i], DirOf(j, prefix)) =>
                /\ SlashesBehind(Names[i], prefix) # {}
                /\ DirOf(i, prefix) = DirOf(j, prefix)
                /\ HasPrefix(Names[j], prefix) => HasPrefix(Names[i], prefix)
    BY <2>1, <2>2, DirMeans
  <2>4. \A i \in Ids : HasPrefix(Names[i], d) => i \in Region(d, 0) /\ i \in Region(prefix, marker)
    <3>1. \A i \in Ids : HasPrefix(Names[i], d) => i > marker
      BY <2>1, <2>2 DEF Clear
    <3>2. \A i \in Ids : HasPrefix(Names[i], d) => HasPrefix(Names[i], prefix)
      BY <2>1, <2>2, <2>3
    <3> QED
      BY <1>3, <1>5, <3>1, <3>2
  <2>5. j \in Region(d, 0)
    BY <2>1, <2>2, <2>3, <2>4
  <2>6. d[n] = "/" /\ n \in 1 .. Len(d)
    <3>1. Names[j] \in Seq(STRING) /\ d \in Seq(STRING) /\ Len(d) = n
      BY <2>1, <2>2, <2>3, NamesAreKeys DEF Keys
    <3>2. \A m \in 1 .. Len(d) : Names[j][m] = d[m]
      BY <2>1, <2>3, <3>1, PrefixMeans
    <3> QED
      BY <1>6, <2>3, <3>1, <3>2
  <2>7. Region(d, 0) \subseteq Region(prefix, marker)
    BY <1>3, <2>4
  <2> QED
    BY <2>1, <2>3, <2>4, <2>5, <2>6, <2>7
<1>8. p.keys \subseteq Region(prefix, marker)
  BY <1>1, <1>2 DEF IsPageFor
<1>9. ASSUME NEW d \in p.dirs, NEW i \in Region(d, 0)
      PROVE  /\ i \notin p.keys
             /\ p.truncated => i <= p.next
             /\ \A e \in p.dirs : HasPrefix(Names[i], e) => e = d
  <2>1. i \in Ids /\ HasPrefix(Names[i], d)
    BY <1>3
  <2>2. SlashesBehind(Names[i], prefix) # {} /\ DirOf(i, prefix) = d
    BY <1>7, <2>1
  <2>3. delimiter
    BY <1>1 DEF IsPageFor
  <2>4. i \notin p.keys
    BY <1>1, <2>2, <2>3 DEF IsPageFor
  <2>5. p.truncated => i <= p.next
    BY <1>1, <2>1 DEF IsPageFor, Covers
  <2>6. \A e \in p.dirs : HasPrefix(Names[i], e) => e = d
    BY <1>7, <2>1, <2>2
  <2> QED
    BY <2>4, <2>5, <2>6
<1>10. ASSUME p.truncated
       PROVE  /\ p.next \in Ids /\ p.next \in Region(prefix, marker)
              /\ \A i \in p.keys : i <= p.next
  <2>1. p.next \in Ids /\ Covers(p, p.next) /\ \A i \in Ids : Covers(p, i) => i <= p.next
    BY <1>1, <1>10 DEF IsPageFor
  <2>2. p.next \in Region(prefix, marker)
    BY <1>7, <1>8, <2>1 DEF Covers
  <2>3. \A i \in p.keys : i <= p.next
    BY <1>3, <1>8, <2>1 DEF Covers
  <2> QED
    BY <2>1, <2>2, <2>3
<1>11. ASSUME delimiter, p.truncated PROVE Clear(prefix, p.next)
  <2> SUFFICES ASSUME NEW j \in Region(prefix, p.next), SlashesBehind(Names[j], prefix) # {},
                      NEW i \in Ids, HasPrefix(Names[i], DirOf(j, prefix)), ~(i > p.next)
               PROVE  FALSE
    BY DEF Clear
  <2>1. /\ p.next \in Ids /\ j \in Ids /\ j > p.next /\ i <= p.next
        /\ HasPrefix(Names[j], prefix)
    BY <1>3, <1>5, <1>10, <1>11
  <2>2. PICK n \in 1 .. Len(Names[j]) :
           /\ DirOf(j, prefix) = SubSeq(Names[j], 1, n)
           /\ HasPrefix(Names[j], DirOf(j, prefix))
           /\ \A y \in Ids : HasPrefix(Names[y], DirOf(j, prefix)) =>
                /\ SlashesBehind(Names[y], prefix) # {}
                /\ DirOf(y, prefix) = DirOf(j, prefix)
    BY <2>1, DirMeans
  <2>3. HasPrefix(Names[p.next], DirOf(j, prefix))
    <3>1. CASE i = p.next
      BY <3>1
    <3>2. CASE i < p.next
      <4>0. PICK m \in Ids : m = p.next
        BY <2>1
      <4>1. PICK k \in 1 .. Len(Names[i]) : DirOf(i, prefix) = SubSeq(Names[i], 1, k)
        BY <2>2, DirMeans
      <4>2. k \in 0 .. Len(Names[i]) /\ DirOf(j, prefix) = SubSeq(Names[i], 1, k)
        BY <2>2, <4>1
      <4>3. i < m /\ m < j /\ HasPrefix(Names[j], SubSeq(Names[i], 1, k))
        BY <2>1, <2>2, <3>2, <4>0, <4>2
      <4>4. HasPrefix(Names[m], SubSeq(Names[i], 1, k))
        BY <2>1, <4>2, <4>3, OrderAssumption
      <4> QED
        BY <4>0, <4>2, <4>4
    <3> QED
      BY <1>5, <2>1, <3>1, <3>2
  <2>4. SlashesBehind(Names[p.next], prefix) # {} /\ DirOf(p.next, prefix) = DirOf(j, prefix)
    BY <2>1, <2>2, <2>3
  <2>5. PICK d \in p.dirs : HasPrefix(Names[p.next], d)
    BY <1>1, <1>11, <2>4 DEF IsPageFor, Covers
  <2>6. d = DirOf(j, prefix)
    BY <1>7, <2>1, <2>4, <2>5
  <2>7. j <= p.next
    BY <1>1, <1>11, <2>1, <2>2, <2>6 DEF IsPageFor, Covers
  <2> QED
    BY <1>5, <2>1, <2>7
<1>12. ASSUME NEW i \in behind
       PROVE  \/ i \in p.keys
              \/ \E d \in p.dirs : i \in Region(d, 0)
              \/ p.truncated /\ i \in Region(prefix, p.next)
  <2>1. i \in Ids /\ HasPrefix(Names[i], prefix)
    BY <1>2, <1>4
  <2>2. \A d \in p.dirs : HasPrefix(Names[i], d) => i \in Region(d, 0)
    BY <1>7, <2>1
  <2>3. i > p.next => i \in Region(prefix, p.next)
    BY <1>3, <2>1
  <2> QED
    BY <1>1, <2>2, <2>3 DEF IsPageFor, Covers
<1>13. p.truncated => p.next > marker
  BY <1>3, <1>10
<1>14. Divides(p, S, prefix, marker)
  BY <1>7, <1>8, <1>9, <1>10, <1>12, <1>13 DEF Divides, behind
<1>15. ~delimiter => p.dirs = {}
  BY <1>1 DEF IsPageFor
<1> QED
  BY <1>1, <1>11, <1>14, <1>15 DEF IsPageFor, GoodPage, p

-----------------------------------------------------------------------------
(* A set as a sequence: each element has one place.                        *)
LEMMA SetToSeqMeans ==
  ASSUME NEW S, IsFiniteSet(S)
  PROVE  /\ SetToSeq(S) \in Seq(S)
         /\ \A a, b \in DOMAIN SetToSeq(S) : SetToSeq(S)[a] = SetToSeq(S)[b] => a = b
         /\ \A x \in S : \E a \in DOMAIN SetToSeq(S) : SetToSeq(S)[a] = x
<1> DEFINE n == Cardinality(S)
           s == SetToSeq(S)
<1>1. n \in Nat /\ ExistsBijection(1 .. n, S)
  BY FS_CardinalityType
<1>2. \E f \in [1 .. n -> S] : IsInjective(f)
  BY <1>1 DEF ExistsBijection, Bijection, Injection, IsInjective
<1>3. s \in [1 .. n -> S] /\ IsInjective(s)
  BY <1>2 DEF SetToSeq
<1> HIDE DEF s
<1>4. \A a, b \in 1 .. n : s[a] = s[b] => a = b
  BY <1>3 DEF IsInjective
<1>5. ASSUME NEW x \in S, \A a \in 1 .. n : s[a] # x PROVE FALSE
  <2>1. IsFiniteSet(S \ {x}) /\ Cardinality(S \ {x}) = n - 1
    BY FS_RemoveElement
  <2>2. IsFiniteSet(1 .. n) /\ Cardinality(1 .. n) = n
    BY <1>1, FS_Interval
  <2>3. s \in [1 .. n -> S \ {x}]
    BY <1>3, <1>5
  <2>4. Cardinality(S \ {x}) < Cardinality(1 .. n)
    BY <1>1, <2>1, <2>2
  <2> HIDE DEF n
  <2>5. \E a, b \in 1 .. n : a # b /\ s[a] = s[b]
    BY <2>1, <2>2, <2>3, <2>4, FS_PigeonHole
  <2> QED
    BY <1>4, <2>5
<1>6. s \in Seq(S) /\ DOMAIN s = 1 .. n
  BY <1>1, <1>3, SeqDef
<1> QED
  BY <1>4, <1>5, <1>6 DEF s

-----------------------------------------------------------------------------
(* A listing as the commands hold it, and what is left of one that was not *)
(* decoded to its end.                                                     *)
LEMMA NoListingMeans ==
  /\ IsListing(NoListing)
  /\ NoListing.keys = {} /\ NoListing.next = 0 /\ NoListing.truncated = FALSE
BY DEF IsListing, NoListing

LEMMA UndecodedIsPart ==
  ASSUME NEW p, IsListing(p), NEW l \in Undecoded(p)
  PROVE  IsListing(l) /\ l.keys \subseteq p.keys /\ l.dirs \in {{}, p.dirs}
<1>1. CASE l = NoListing
  BY <1>1, NoListingMeans DEF NoListing
<1>2. ASSUME NEW n, NEW ds \in {{}, p.dirs},
             NEW more \in {FALSE, p.truncated}, NEW m \in {0, p.next},
             l = [nil |-> FALSE, keys |-> FirstOf(p.keys, n), dirs |-> ds,
                  truncated |-> more, next |-> m]
      PROVE  IsListing(l) /\ l.keys \subseteq p.keys /\ l.dirs \in {{}, p.dirs}
  <2>1. FirstOf(p.keys, n) \subseteq p.keys
    BY DEF FirstOf
  <2> QED
    BY <1>2, <2>1 DEF IsListing
<1> QED
  BY <1>1, <1>2 DEF Undecoded
-----------------------------------------------------------------------------
(* The last part of a path.                                                *)
LastSlash(p) == Max({n \in DOMAIN p : p[n] = "/"} \cup {0})

LEMMA LastSlashMeans ==
  ASSUME NEW p \in Seq(Tokens)
  PROVE  /\ LastSlash(p) \in 0 .. Len(p)
         /\ LastSlash(p) > 0 => p[LastSlash(p)] = "/"
         /\ \A n \in 1 .. Len(p) : p[n] = "/" => n <= LastSlash(p)
<1> DEFINE S == {n \in DOMAIN p : p[n] = "/"} \cup {0}
<1>1. Len(p) \in Nat /\ DOMAIN p = 1 .. Len(p)
  BY LenProperties
<1>2. S \in SUBSET (0 .. Len(p)) /\ S # {}
  BY <1>1
<1>3. \A n \in 1 .. Len(p) : p[n] = "/" => n \in S
  BY <1>1
<1>4. \A n \in S : n > 0 => p[n] = "/"
  BY <1>1
<1> HIDE DEF S
<1>5. Max(S) \in S /\ Max(S) \in 0 .. Len(p) /\ \A y \in S : y <= Max(S)
  BY <1>1, <1>2, GreatestOf
<1>6. LastSlash(p) = Max(S)
  BY DEF LastSlash, S
<1> QED
  BY <1>3, <1>4, <1>5, <1>6

(* Only one number is like this.                                           *)
LEMMA IsLastSlash ==
  ASSUME NEW p \in Seq(Tokens), NEW m \in 0 .. Len(p), m > 0 => p[m] = "/",
         \A n \in 1 .. Len(p) : p[n] = "/" => n <= m
  PROVE  LastSlash(p) = m
<1>1. Len(p) \in Nat
  BY LenProperties
<1>2. PICK l \in 0 .. Len(p) : l = LastSlash(p)
  BY LastSlashMeans
<1>3. l > 0 => p[l] = "/" /\ l <= m
  BY <1>1, <1>2, LastSlashMeans
<1>4. m > 0 => m <= l
  BY <1>1, <1>2, LastSlashMeans
<1> QED
  BY <1>1, <1>2, <1>3, <1>4

LEMMA BaseMeans ==
  ASSUME NEW p \in Seq(Tokens), p # <<>>, ~EndsWith(p, "/")
  PROVE  /\ Base(p) = SubSeq(p, LastSlash(p) + 1, Len(p))
         /\ LastSlash(p) \in 0 .. Len(p) - 1
<1>1. TrimRight(p, "/") = p
  BY TrimRightMeans
<1>2. Base(p) = SubSeq(p, LastSlash(p) + 1, Len(p))
  BY <1>1 DEF Base, LastSlash
<1>3. Len(p) \in Nat \ {0} /\ p[Len(p)] # "/"
  BY LenProperties, EmptySeq DEF EndsWith
<1>4. LastSlash(p) # Len(p)
  BY <1>3, LastSlashMeans
<1>5. LastSlash(p) \in 0 .. Len(p)
  BY LastSlashMeans
<1>6. LastSlash(p) \in 0 .. Len(p) - 1
  BY <1>3, <1>4, <1>5
<1> QED
  BY <1>2, <1>6

(* What stands behind a slash, or at the beginning, has the same base.     *)
LEMMA BaseOfEnd ==
  ASSUME NEW u \in Seq(Tokens), NEW w \in Seq(Tokens), w # <<>>, ~EndsWith(w, "/"),
         u = <<>> \/ EndsWith(u, "/")
  PROVE  Base(u \o w) = Base(w)
<1> DEFINE p == u \o w
           m == LastSlash(w)
<1>1. Len(u) \in Nat /\ Len(w) \in Nat \ {0}
  BY LenProperties, EmptySeq
<1>2. /\ p \in Seq(Tokens) /\ Len(p) = Len(u) + Len(w)
      /\ \A i \in 1 .. Len(u) + Len(w) : p[i] = IF i <= Len(u) THEN u[i] ELSE w[i - Len(u)]
  BY ConcatProperties
<1> HIDE DEF p
<1>3. p # <<>> /\ ~EndsWith(p, "/")
  <2>1. Len(p) # 0 /\ p[Len(p)] = w[Len(w)]
    BY <1>1, <1>2
  <2> QED
    BY <2>1, EmptySeq DEF EndsWith
<1>4. /\ Base(w) = SubSeq(w, m + 1, Len(w)) /\ m \in 0 .. Len(w) - 1
      /\ m > 0 => w[m] = "/"
      /\ \A n \in 1 .. Len(w) : w[n] = "/" => n <= m
  BY BaseMeans, LastSlashMeans
<1> HIDE DEF m
<1>5. u # <<>> => Len(u) > 0 /\ u[Len(u)] = "/"
  BY <1>1, EmptySeq DEF EndsWith
<1>6. u = <<>> => Len(u) = 0
  BY EmptySeq
<1>7. LastSlash(p) = Len(u) + m
  <2>1. Len(u) + m \in 0 .. Len(p)
    BY <1>1, <1>2, <1>4
  <2>2. Len(u) + m > 0 => p[Len(u) + m] = "/"
    <3>1. CASE m > 0
      BY <1>1, <1>2, <1>4, <3>1
    <3>2. CASE m = 0
      BY <1>1, <1>2, <1>5, <1>6, <3>2
    <3> QED
      BY <1>4, <3>1, <3>2
  <2>3. ASSUME NEW n \in 1 .. Len(p), p[n] = "/" PROVE n <= Len(u) + m
    <3>1. CASE n <= Len(u)
      BY <1>1, <1>4, <3>1
    <3>2. CASE n > Len(u)
      <4>1. n - Len(u) \in 1 .. Len(w) /\ p[n] = w[n - Len(u)]
        BY <1>1, <1>2, <3>2
      <4>2. n - Len(u) <= m
        BY <1>4, <2>3, <4>1
      <4> QED
        BY <1>1, <1>4, <4>2
    <3> QED
      BY <1>1, <1>2, <3>1, <3>2
  <2> QED
    BY <1>2, <2>1, <2>2, <2>3, IsLastSlash
<1>8. SubSeq(p, Len(u) + m + 1, Len(p)) = SubSeq(w, m + 1, Len(w))
  <2> DEFINE a == Len(u) + m + 1
             b == Len(p)
  <2>1. /\ a \in Len(u) + 1 .. Len(u) + Len(w) /\ b \in Len(u) + 1 .. Len(u) + Len(w)
        /\ a - Len(u) = m + 1 /\ b - Len(u) = Len(w)
    BY <1>1, <1>2, <1>4
  <2> HIDE DEF a, b
  <2>2. SubSeq(u \o w, a, b) = SubSeq(w, a - Len(u), b - Len(u))
    BY <2>1, SubSeqOfConcat2
  <2> QED
    BY <2>1, <2>2 DEF a, b, p
<1> QED
  BY <1>2, <1>3, <1>4, <1>7, <1>8, BaseMeans DEF p

(* The base of a path is its end, and has no slash.                        *)
LEMMA BaseIsEnd ==
  ASSUME NEW p \in Seq(Tokens), p # <<>>, ~EndsWith(p, "/")
  PROVE  /\ Base(p) \in Seq(Tokens) /\ Base(p) # <<>> /\ ~EndsWith(Base(p), "/")
         /\ Base(Base(p)) = Base(p)
<1> DEFINE m == LastSlash(p)
           b == SubSeq(p, m + 1, Len(p))
           u == SubSeq(p, 1, m)
<1>1. Len(p) \in Nat \ {0} /\ p[Len(p)] # "/"
  BY LenProperties, EmptySeq DEF EndsWith
<1>2. /\ Base(p) = b /\ m \in 0 .. Len(p) - 1
      /\ m > 0 => p[m] = "/"
  BY BaseMeans, LastSlashMeans
<1> HIDE DEF m
<1>3. \A i \in 1 .. Len(p) : p[i] \in Tokens
  BY ElementOfSeq
<1>4. /\ b \in Seq(Tokens) /\ Len(b) = Len(p) - m
      /\ \A i \in 1 .. Len(p) - m : b[i] = p[m + i]
  <2>1. m + 1 \in Int /\ Len(p) \in Int /\ \A i \in m + 1 .. Len(p) : p[i] \in Tokens
    BY <1>1, <1>2, <1>3
  <2>2. /\ b \in Seq(Tokens)
        /\ Len(b) = IF m + 1 <= Len(p) THEN Len(p) - (m + 1) + 1 ELSE 0
        /\ \A i \in 1 .. Len(p) - (m + 1) + 1 : b[i] = p[m + 1 + i - 1]
    BY <2>1, SubSeqProperties
  <2> HIDE DEF b
  <2> QED
    BY <1>1, <1>2, <2>2
<1>5. /\ u \in Seq(Tokens) /\ Len(u) = m
      /\ \A i \in 1 .. m : u[i] = p[i]
  <2>1. 1 \in Int /\ m \in Int /\ \A i \in 1 .. m : p[i] \in Tokens
    BY <1>1, <1>2, <1>3
  <2>2. /\ u \in Seq(Tokens)
        /\ Len(u) = IF 1 <= m THEN m - 1 + 1 ELSE 0
        /\ \A i \in 1 .. m - 1 + 1 : u[i] = p[1 + i - 1]
    BY <2>1, SubSeqProperties
  <2> HIDE DEF u
  <2> QED
    BY <1>1, <1>2, <2>2
<1>6. u \o b = p
  <2>1. /\ 1 \in 1 .. Len(p) + 1 /\ m \in 1 - 1 .. Len(p) /\ Len(p) \in m .. Len(p)
    BY <1>1, <1>2
  <2>2. SubSeq(p, 1, m) \o SubSeq(p, m + 1, Len(p)) = SubSeq(p, 1, Len(p))
    BY <2>1, ConcatAdjacentSubSeq
  <2> QED
    BY <2>2, SubSeqFull
<1> HIDE DEF u, b
<1>7. b # <<>> /\ ~EndsWith(b, "/")
  <2>1. Len(b) # 0 /\ b[Len(b)] = p[Len(p)]
    BY <1>1, <1>2, <1>4
  <2> QED
    BY <1>1, <2>1, EmptySeq DEF EndsWith
<1>8. u = <<>> \/ EndsWith(u, "/")
  <2>1. m = 0 => u = <<>>
    BY <1>5, EmptySeq
  <2>2. m > 0 => u # <<>> /\ u[Len(u)] = "/"
    BY <1>2, <1>5, EmptySeq
  <2> QED
    BY <1>2, <2>1, <2>2 DEF EndsWith
<1>9. Base(p) = Base(b)
  BY <1>4, <1>5, <1>6, <1>7, <1>8, BaseOfEnd
<1> QED
  BY <1>2, <1>4, <1>7, <1>9

(* What is behind the slashes that begin at one place in a path.           *)
LEMMA RestMeans ==
  ASSUME NEW k \in Seq(Tokens), ~EndsWith(k, "/"),
         NEW c \in Nat, c + 1 <= Len(k), k[c + 1] = "/"
  PROVE  LET rest == TrimLeft(SubSeq(k, c + 1, Len(k)), "/")
         IN  /\ rest \in Seq(Tokens) /\ rest # <<>> /\ ~EndsWith(rest, "/")
             /\ Base(rest) = Base(k)
<1> DEFINE tail == SubSeq(k, c + 1, Len(k))
           rest == TrimLeft(tail, "/")
<1>1. Len(k) \in Nat /\ Len(k) # 0 /\ k[Len(k)] # "/"
  BY LenProperties, EmptySeq DEF EndsWith
<1>2. \A i \in 1 .. Len(k) : k[i] \in Tokens
  BY ElementOfSeq
<1>3. /\ tail \in Seq(Tokens) /\ Len(tail) = Len(k) - c
      /\ \A i \in 1 .. Len(k) - c : tail[i] = k[c + i]
  <2>1. c + 1 \in Int /\ Len(k) \in Int /\ \A i \in c + 1 .. Len(k) : k[i] \in Tokens
    BY <1>1, <1>2
  <2>2. /\ tail \in Seq(Tokens)
        /\ Len(tail) = IF c + 1 <= Len(k) THEN Len(k) - (c + 1) + 1 ELSE 0
        /\ \A i \in 1 .. Len(k) - (c + 1) + 1 : tail[i] = k[c + 1 + i - 1]
    BY <2>1, SubSeqProperties
  <2> HIDE DEF tail
  <2> QED
    BY <1>1, <2>2
<1> HIDE DEF tail
<1>0. tail \in Seq(Tokens)
  BY <1>3
<1>4. PICK m \in 1 .. Len(tail) + 1 :
        /\ TrimLeft(tail, "/") = SubSeq(tail, m, Len(tail))
        /\ m <= Len(tail) => tail[m] # "/"
        /\ \A i \in 1 .. m - 1 : tail[i] = "/"
  BY <1>0, TrimLeftMeans, Zenon
<1>5. m >= 2 /\ m <= Len(tail)
  <2>1. tail[1] = "/" /\ 1 <= Len(tail)
    BY <1>1, <1>3
  <2>2. tail[Len(tail)] # "/"
    BY <1>1, <1>3
  <2> QED
    BY <1>3, <1>4, <2>1, <2>2
<1>6. /\ rest \in Seq(Tokens) /\ Len(rest) = Len(tail) - m + 1
      /\ \A i \in 1 .. Len(tail) - m + 1 : rest[i] = tail[m + i - 1]
  <2>1. m \in Int /\ Len(tail) \in Int /\ \A i \in m .. Len(tail) : tail[i] \in Tokens
    BY <1>3, <1>5, ElementOfSeq
  <2>2. /\ SubSeq(tail, m, Len(tail)) \in Seq(Tokens)
        /\ Len(SubSeq(tail, m, Len(tail))) =
             IF m <= Len(tail) THEN Len(tail) - m + 1 ELSE 0
        /\ \A i \in 1 .. Len(tail) - m + 1 :
             SubSeq(tail, m, Len(tail))[i] = tail[m + i - 1]
    BY <2>1, SubSeqProperties
  <2> QED
    BY <1>4, <1>5, <2>2
<1> HIDE DEF rest
<1>7. rest # <<>> /\ ~EndsWith(rest, "/")
  <2>1. Len(tail) \in Nat /\ Len(rest) \in 1 .. Len(tail) - m + 1
    BY <1>1, <1>3, <1>5, <1>6
  <2>2. m + Len(rest) - 1 = Len(tail)
    BY <1>5, <1>6, <2>1
  <2>3. rest[Len(rest)] = tail[Len(tail)]
    BY <1>6, <2>1, <2>2
  <2>4. Len(tail) \in 1 .. Len(k) - c /\ c + Len(tail) = Len(k)
    BY <1>1, <1>3
  <2>5. tail[Len(tail)] = k[Len(k)]
    BY <1>3, <2>4
  <2> QED
    BY <1>1, <2>1, <2>3, <2>5, EmptySeq DEF EndsWith
<1> DEFINE v == SubSeq(k, 1, c + m - 1)
<1>8. /\ v \in Seq(Tokens) /\ Len(v) = c + m - 1 /\ v[Len(v)] = k[c + m - 1]
  <2>1. 1 \in Int /\ c + m - 1 \in Int /\ \A i \in 1 .. c + m - 1 : k[i] \in Tokens
    BY <1>1, <1>2, <1>3, <1>5
  <2>2. /\ v \in Seq(Tokens)
        /\ Len(v) = IF 1 <= c + m - 1 THEN c + m - 1 - 1 + 1 ELSE 0
        /\ \A i \in 1 .. c + m - 1 - 1 + 1 : v[i] = k[1 + i - 1]
    BY <2>1, SubSeqProperties
  <2> HIDE DEF v
  <2>3. Len(v) = c + m - 1 /\ c + m - 1 \in 1 .. c + m - 1 - 1 + 1
    BY <1>5, <2>2
  <2> QED
    BY <1>5, <2>2, <2>3
<1>9. EndsWith(v, "/")
  <2>1. m - 1 \in 1 .. m - 1 /\ m - 1 \in 1 .. Len(k) - c /\ c + (m - 1) = c + m - 1
    BY <1>1, <1>3, <1>5
  <2>2. k[c + m - 1] = "/"
    BY <1>3, <1>4, <2>1
  <2>3. Len(v) # 0
    BY <1>5, <1>8
  <2> HIDE DEF v
  <2> QED
    BY <1>8, <2>2, <2>3, EmptySeq DEF EndsWith
<1>10. k = v \o rest
  <2> DEFINE e == c + m
  <2>1. /\ 1 \in 1 .. Len(k) + 1 /\ e - 1 \in 1 - 1 .. Len(k) /\ Len(k) \in e - 1 .. Len(k)
        /\ e - 1 + 1 = e /\ e \in Int /\ e - 1 \in Int
    BY <1>1, <1>3, <1>5
  <2>2. SubSeq(k, 1, e - 1) \o SubSeq(k, e - 1 + 1, Len(k)) = SubSeq(k, 1, Len(k))
    BY <2>1, ConcatAdjacentSubSeq
  <2>3. SubSeq(k, e, Len(k)) = rest
    <3> DEFINE s == SubSeq(k, e, Len(k))
    <3>1. \A i \in e .. Len(k) : k[i] \in Tokens
      BY <1>1, <1>2, <1>5
    <3>2. /\ s \in Seq(Tokens)
          /\ Len(s) = IF e <= Len(k) THEN Len(k) - e + 1 ELSE 0
          /\ \A i \in 1 .. Len(k) - e + 1 : s[i] = k[e + i - 1]
      BY <1>1, <2>1, <3>1, SubSeqProperties
    <3> HIDE DEF s
    <3>3. Len(s) = Len(rest) /\ Len(rest) = Len(k) - e + 1
      BY <1>1, <1>3, <1>5, <1>6, <3>2
    <3>4. \A i \in 1 .. Len(s) : s[i] = rest[i]
      <4> SUFFICES ASSUME NEW i \in 1 .. Len(s) PROVE s[i] = rest[i]
        OBVIOUS
      <4>1. s[i] = k[e + i - 1] /\ rest[i] = tail[m + i - 1]
        BY <1>1, <1>3, <1>5, <1>6, <3>2, <3>3
      <4>2. m + i - 1 \in 1 .. Len(k) - c /\ c + (m + i - 1) = e + i - 1
        BY <1>1, <1>3, <1>5, <3>3
      <4> QED
        BY <1>3, <4>1, <4>2
    <3>5. s = rest
      BY <1>6, <3>2, <3>3, <3>4, SeqEqual
    <3> QED
      BY <3>5 DEF s
  <2>4. SubSeq(k, 1, e - 1) = v
    OBVIOUS
  <2>5. SubSeq(k, 1, Len(k)) = k
    BY SubSeqFull
  <2> HIDE DEF e, v
  <2> QED
    BY <2>1, <2>2, <2>3, <2>4, <2>5
<1>11. Base(rest) = Base(k)
  BY <1>6, <1>7, <1>8, <1>9, <1>10, BaseOfEnd
<1> QED
  BY <1>6, <1>7, <1>11 DEF rest, tail
LEMMA BaseIsPart ==
  ASSUME NEW p \in Seq(Tokens)
  PROVE  Base(p) \in Seq(Tokens)
<1> DEFINE q == TrimRight(p, "/")
           l == LastSlash(q)
<1>1. Len(p) \in Nat /\ "/" \in Tokens
  BY LenProperties DEF Tokens
<1>2. PICK m \in 0 .. Len(p) : q = SubSeq(p, 1, m)
  BY TrimRightMeans
<1>3. \A i \in 1 .. m : p[i] \in Tokens
  BY <1>1, <1>2, ElementOfSeq
<1>4. q \in Seq(Tokens)
  BY <1>1, <1>2, <1>3, SubSeqProperties
<1> HIDE DEF q
<1>5. Len(q) \in Nat /\ l \in 0 .. Len(q)
  BY <1>4, LenProperties, LastSlashMeans
<1> HIDE DEF l
<1>6. \A i \in l + 1 .. Len(q) : q[i] \in Tokens
  BY <1>4, <1>5, ElementOfSeq
<1>7. SubSeq(q, l + 1, Len(q)) \in Seq(Tokens)
  BY <1>5, <1>6, SubSeqProperties
<1>8. Base(p) = IF q = <<>> THEN <<"/">> ELSE SubSeq(q, l + 1, Len(q))
  BY DEF Base, LastSlash, q, l
<1> QED
  BY <1>1, <1>7, <1>8
=============================================================================
