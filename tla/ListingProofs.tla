--------------------------- MODULE ListingProofs ---------------------------
(***************************************************************************)
(* Proofs about listings: for all keys, drivers, options and page sizes,   *)
(* and any number of writes and deletes between two pages, a listing is    *)
(* ordered, without repetition, complete and in full pages, provided that  *)
(* the driver keeps the contract of ListPaged (PagesAssumption).           *)
(***************************************************************************)
EXTENDS Listing, TLAPS, SequenceTheorems, NaturalsInduction, WellFoundedInduction

(***************************************************************************)
(* The inductive invariant                                                 *)
(***************************************************************************)
AtMost(s, t) == s = t \/ Less(s, t)

InOrder(objs) == \A i, j \in DOMAIN objs : i < j => Less(objs[i].key, objs[j].key)

\* What holds whatever the driver returns.
Setting ==
    /\ driver \in Drivers /\ opts \in ListOptions /\ api \in {"iterator", "page"}
    /\ ever \in SUBSET Keys /\ store \in SUBSET ever /\ kept \in SUBSET store
    /\ driver = "file" => FitsFileSystem(store)

\* The listing starts without a token, and ends without one.
Cursor ==
    /\ idx \in Nat \ {0} /\ token \in Tokens(opts)
    /\ page \in Seq(Entries(ever)) /\ out \in Seq(Entries(ever))
    /\ api = "page" => idx = 1 /\ Len(page) < opts.size
    /\ finished => token = NoToken /\ idx > Len(page)
    /\ idx = 1 /\ token = NoToken /\ ~finished => page = << >> /\ out = << >>

\* What is left of the page.
Left == {page[j] : j \in {n \in DOMAIN page : idx <= n}}

AllBefore(A, B) == \A a \in A, b \in B : Less(a.key, b.key)
AllUpTo(A, tok) == tok # NoToken => \A a \in A : AtMost(a.key, tok)

\* What was returned comes before what is left of the page, and both before
\* what the token asks for.
Ascending ==
    /\ InOrder(out) /\ InOrder(page)
    /\ AllBefore(ToSet(out), Left)
    /\ AllUpTo(ToSet(out) \union ToSet(page), token)

\* The pages to come will have the entry.
Ahead(e) == IF token = NoToken THEN idx = 1 /\ ~finished ELSE Less(token, e.key)

\* Nothing that stays in the bucket is passed over.
Complete == \A e \in Entries(kept) : e \in ToSet(out) \union Left \/ Ahead(e)

Regular == Tame(driver, ever)

IInv == Setting /\ (Regular => full /\ Cursor /\ Ascending /\ Complete)

(***************************************************************************)
(* The order of strings                                                    *)
(***************************************************************************)

\* A nonempty set of naturals has a least element.
LEMMA LeastNat ==
    ASSUME NEW U \in SUBSET Nat, U # {}
    PROVE  \E x \in U : \A y \in U : x <= y
<1>1. PICK x \in U : \A y \in U : ~(<<y, x>> \in OpToRel(<, Nat))
  BY NatLessThanWellFounded, WFMin
<1>2. \A y \in U : ~(y < x)
  BY <1>1 DEF OpToRel
<1> QED
  BY <1>2

\* Two strings have the same beginning if they have the same characters there.
LEMMA SameStart ==
    ASSUME NEW s \in Seq(Nat), NEW t \in Seq(Nat), NEW n \in 0..Len(s), n <= Len(t)
    PROVE  SubSeq(s, 1, n) = SubSeq(t, 1, n) <=> \A i \in 1..n : s[i] = t[i]
<1>1. /\ \A i \in 1..n : s[i] \in Nat /\ t[i] \in Nat
      /\ n \in Int
  BY LenProperties
<1>2. /\ SubSeq(s, 1, n) \in Seq(Nat) /\ Len(SubSeq(s, 1, n)) = n
      /\ \A i \in 1..n : SubSeq(s, 1, n)[i] = s[i]
  <2>1. /\ SubSeq(s, 1, n) \in Seq(Nat)
        /\ Len(SubSeq(s, 1, n)) = IF 1 <= n THEN n - 1 + 1 ELSE 0
        /\ \A i \in 1..n - 1 + 1 : SubSeq(s, 1, n)[i] = s[1 + i - 1]
    BY <1>1, SubSeqProperties
  <2> QED
    BY <1>1, <2>1
<1>3. /\ SubSeq(t, 1, n) \in Seq(Nat) /\ Len(SubSeq(t, 1, n)) = n
      /\ \A i \in 1..n : SubSeq(t, 1, n)[i] = t[i]
  <2>1. /\ SubSeq(t, 1, n) \in Seq(Nat)
        /\ Len(SubSeq(t, 1, n)) = IF 1 <= n THEN n - 1 + 1 ELSE 0
        /\ \A i \in 1..n - 1 + 1 : SubSeq(t, 1, n)[i] = t[1 + i - 1]
    BY <1>1, SubSeqProperties
  <2> QED
    BY <1>1, <2>1
<1>4. ASSUME SubSeq(s, 1, n) = SubSeq(t, 1, n) PROVE \A i \in 1..n : s[i] = t[i]
  BY <1>2, <1>3, <1>4
<1>5. ASSUME \A i \in 1..n : s[i] = t[i] PROVE SubSeq(s, 1, n) = SubSeq(t, 1, n)
  BY <1>2, <1>3, <1>5, SeqEqual
<1> QED
  BY <1>4, <1>5

\* One string is less than another if it is smaller at, or ends at, the first
\* place where they differ.
DiffersAfter(s, t, n) ==
    /\ n < Len(t) /\ \A i \in 1..n : s[i] = t[i]
    /\ n = Len(s) \/ s[n + 1] < t[n + 1]

\* Less compares character by character.
LEMMA LessAt ==
    ASSUME NEW s \in Seq(Nat), NEW t \in Seq(Nat)
    PROVE  Less(s, t) <=> \E n \in 0..Len(s) : DiffersAfter(s, t, n)
<1>1. \A n \in 0..Len(s) : n < Len(t) =>
          (SubSeq(s, 1, n) = SubSeq(t, 1, n) <=> \A i \in 1..n : s[i] = t[i])
  BY SameStart, LenProperties
<1> QED
  BY <1>1 DEF Less, DiffersAfter

\* The order of strings is transitive.
LEMMA LessTransitive ==
    ASSUME NEW s \in Seq(Nat), NEW t \in Seq(Nat), NEW u \in Seq(Nat), Less(s, t), Less(t, u)
    PROVE  Less(s, u)
<1>1. PICK n \in 0..Len(s) : /\ n < Len(t)
                             /\ \A i \in 1..n : s[i] = t[i]
                             /\ n = Len(s) \/ s[n + 1] < t[n + 1]
  BY LessAt DEF DiffersAfter
<1>2. PICK m \in 0..Len(t) : /\ m < Len(u)
                             /\ \A i \in 1..m : t[i] = u[i]
                             /\ m = Len(t) \/ t[m + 1] < u[m + 1]
  BY LessAt DEF DiffersAfter
<1>3. Len(s) \in Nat /\ Len(t) \in Nat /\ Len(u) \in Nat
  BY LenProperties
<1>4. /\ \A i \in 1..Len(s) : s[i] \in Nat
      /\ \A i \in 1..Len(t) : t[i] \in Nat
      /\ \A i \in 1..Len(u) : u[i] \in Nat
  BY ElementOfSeq
<1>5. CASE n < m
  <2>1. n < Len(u) /\ \A i \in 1..n : s[i] = u[i]
    BY <1>1, <1>2, <1>3, <1>5
  <2>2. n + 1 \in 1..m
    BY <1>1, <1>2, <1>3, <1>5
  <2>3. t[n + 1] = u[n + 1]
    BY <1>2, <2>2
  <2> QED
    BY <1>1, <2>1, <2>3, LessAt DEF DiffersAfter
<1>6. CASE m <= n
  <2>1. m \in 0..Len(s) /\ m < Len(u) /\ m < Len(t)
    BY <1>1, <1>2, <1>3, <1>6
  <2>2. \A i \in 1..m : s[i] = u[i]
    BY <1>1, <1>2, <1>3, <1>6
  <2>3. t[m + 1] < u[m + 1]
    BY <1>2, <1>3, <2>1
  <2>4. m = Len(s) \/ s[m + 1] < u[m + 1]
    <3>1. CASE m = n
      <4>1. CASE n = Len(s)
        BY <3>1, <4>1
      <4>2. CASE n # Len(s)
        <5>1. s[m + 1] < t[m + 1] /\ m + 1 \in 1..Len(s) /\ m + 1 \in 1..Len(t) /\ m + 1 \in 1..Len(u)
          BY <1>1, <1>3, <2>1, <3>1, <4>2
        <5>2. s[m + 1] \in Nat /\ t[m + 1] \in Nat /\ u[m + 1] \in Nat
          BY <1>4, <5>1
        <5> QED
          BY <2>3, <5>1, <5>2
      <4> QED
        BY <4>1, <4>2
    <3>2. CASE m < n
      <4>1. m + 1 \in 1..n
        BY <1>1, <1>2, <1>3, <3>2
      <4> QED
        BY <1>1, <2>3, <4>1
    <3> QED
      BY <1>1, <1>2, <1>3, <1>6, <3>1, <3>2
  <2> QED
    BY <2>1, <2>2, <2>4, LessAt DEF DiffersAfter
<1> QED
  BY <1>1, <1>2, <1>3, <1>5, <1>6

\* Of two strings that differ one is less than the other.
LEMMA LessTotal ==
    ASSUME NEW s \in Seq(Nat), NEW t \in Seq(Nat), ~Less(s, t)
    PROVE  AtMost(t, s)
<1> DEFINE Differ == {i \in Nat \ {0} : i > Len(s) \/ i > Len(t) \/ s[i] # t[i]}
<1>1. Len(s) \in Nat /\ Len(t) \in Nat
  BY LenProperties
<1>2. /\ \A i \in 1..Len(s) : s[i] \in Nat
      /\ \A i \in 1..Len(t) : t[i] \in Nat
  BY ElementOfSeq
<1>3. Len(s) + 1 \in Differ
  BY <1>1
<1>4. PICK d \in Differ : \A y \in Differ : d <= y
  <2>1. Differ \in SUBSET Nat /\ Differ # {}
    BY <1>3
  <2> HIDE DEF Differ
  <2> QED
    BY <2>1, LeastNat
<1>5. \A i \in 1..d - 1 : i <= Len(s) /\ i <= Len(t) /\ s[i] = t[i]
  <2> TAKE i \in 1..d - 1
  <2>1. i \in Nat \ {0} /\ ~(d <= i)
    BY <1>4
  <2>2. i \notin Differ
    BY <1>4, <2>1
  <2> QED
    BY <1>1, <2>1, <2>2
<1>6. d - 1 \in 0..Len(s) /\ d - 1 \in 0..Len(t)
  BY <1>1, <1>4, <1>5
<1>7. CASE d - 1 = Len(s) /\ d - 1 = Len(t)
  <2>1. s = t
    BY <1>1, <1>5, <1>7, SeqEqual
  <2> QED
    BY <2>1 DEF AtMost
<1>8. CASE d - 1 = Len(s) /\ d - 1 < Len(t)
  BY <1>5, <1>6, <1>8, LessAt DEF DiffersAfter
<1>9. CASE d - 1 < Len(s) /\ d - 1 = Len(t)
  BY <1>5, <1>6, <1>9, LessAt DEF AtMost, DiffersAfter
<1>10. CASE d - 1 < Len(s) /\ d - 1 < Len(t)
  <2>1. d \in 1..Len(s) /\ d \in 1..Len(t) /\ (d - 1) + 1 = d
    BY <1>1, <1>4, <1>10
  <2>2. s[d] # t[d] /\ s[d] \in Nat /\ t[d] \in Nat
    BY <1>1, <1>2, <1>4, <2>1
  <2>3. CASE s[d] < t[d]
    BY <1>5, <1>6, <1>10, <2>1, <2>3, LessAt DEF DiffersAfter
  <2>4. CASE t[d] < s[d]
    BY <1>5, <1>6, <1>10, <2>1, <2>4, LessAt DEF AtMost, DiffersAfter
  <2> QED
    BY <2>2, <2>3, <2>4
<1> QED
  BY <1>1, <1>6, <1>7, <1>8, <1>9, <1>10

\* Up to one string, which is before another: before that one.
LEMMA AtMostLess ==
    ASSUME NEW s \in Seq(Nat), NEW t \in Seq(Nat), NEW u \in Seq(Nat), AtMost(s, t), Less(t, u)
    PROVE  Less(s, u)
BY LessTransitive DEF AtMost

(***************************************************************************)
(* Entries and sequences of them                                           *)
(***************************************************************************)

\* The key of an entry is a string: a key of the bucket or a beginning of one.
LEMMA EntryKey ==
    ASSUME NEW o, o.prefix \in ListPrefixes, NEW e \in EntriesOf(Keys, o)
    PROVE  e.key \in Seq(Nat)
<1>1. PICK k \in Keys : IsPrefix(o.prefix, k) /\ e = Entry(k, o.prefix, o.delim)
  BY DEF EntriesOf, Matching
<1> DEFINE first == Len(o.prefix) + 1
           rest == SubSeq(k, first, Len(k))
           ends == {i \in DOMAIN rest : IsSuffix(o.delim, SubSeq(rest, 1, i))}
<1>2. k \in Seq(Nat) /\ o.prefix \in Seq(Nat)
  BY KeysAssumption
<1>3. Len(o.prefix) <= Len(k) /\ Len(o.prefix) \in Nat /\ Len(k) \in Nat /\ first \in Nat \ {0}
  BY <1>1, <1>2, LenProperties DEF IsPrefix
<1>4. rest \in Seq(Nat)
  <2>1. \A i \in first..Len(k) : k[i] \in Nat
    BY <1>2, <1>3, ElementOfSeq
  <2> HIDE DEF first
  <2> QED
    BY <1>3, <2>1, SubSeqProperties
<1>5. e = IF o.delim = << >> \/ ends = {} THEN [key |-> k, dir |-> FALSE]
          ELSE [key |-> o.prefix \o SubSeq(rest, 1, Min(ends)), dir |-> TRUE]
  BY <1>1 DEF Entry
<1> HIDE DEF rest
<1>6. CASE ends = {}
  BY <1>2, <1>5, <1>6
<1>7. CASE ends # {}
  <2>1. DOMAIN rest = 1..Len(rest) /\ Len(rest) \in Nat
    BY <1>4, LenProperties
  <2>2. ends \in SUBSET Nat
    BY <2>1
  <2>3. \E x \in ends : \A y \in ends : x =< y
    <3> HIDE DEF ends
    <3> QED
      BY <1>7, <2>2, LeastNat
  <2>4. Min(ends) \in ends
    <3> HIDE DEF ends
    <3> QED
      BY <2>3 DEF Min
  <2>5. Min(ends) \in 1..Len(rest)
    BY <2>1, <2>4
  <2>6. SubSeq(rest, 1, Min(ends)) \in Seq(Nat)
    <3>1. \A i \in 1..Min(ends) : rest[i] \in Nat
      <4> HIDE DEF ends
      <4> QED
        BY <1>4, <2>1, <2>5, ElementOfSeq
    <3> HIDE DEF ends
    <3> QED
      BY <2>1, <2>5, <3>1, SubSeqProperties
  <2>7. o.prefix \o SubSeq(rest, 1, Min(ends)) \in Seq(Nat)
    <3> HIDE DEF ends
    <3> QED
      BY <1>2, <2>6, ConcatProperties
  <2> HIDE DEF ends
  <2> QED
    BY <1>2, <1>5, <2>7
<1> QED
  BY <1>6, <1>7

\* More keys have more entries.
LEMMA EntriesMonotone ==
    ASSUME NEW o, NEW R, NEW S \in SUBSET R
    PROVE  EntriesOf(S, o) \subseteq EntriesOf(R, o)
BY DEF EntriesOf, Matching

\* Tokens are strings.
LEMMA TokenType ==
    ASSUME NEW o, o.prefix \in ListPrefixes, NEW tok \in Tokens(o)
    PROVE  tok \in Seq(Nat)
<1>1. << >> \in Seq(Nat)
  OBVIOUS
<1> QED
  BY <1>1, EntryKey DEF Tokens, NoToken

\* Two pieces in order, one before the other, are in order when put together.
LEMMA InOrderConcat ==
    ASSUME NEW E, NEW s \in Seq(E), NEW t \in Seq(E), InOrder(s), InOrder(t),
           AllBefore(ToSet(s), ToSet(t))
    PROVE  InOrder(s \o t)
<1>1. /\ DOMAIN s = 1..Len(s) /\ DOMAIN t = 1..Len(t) /\ DOMAIN (s \o t) = 1..Len(s) + Len(t)
      /\ Len(s) \in Nat /\ Len(t) \in Nat
  BY ConcatProperties, LenProperties
<1>2. \A i \in DOMAIN (s \o t) : (s \o t)[i] = IF i <= Len(s) THEN s[i] ELSE t[i - Len(s)]
  BY <1>1, ConcatProperties
<1>3. SUFFICES ASSUME NEW i \in DOMAIN (s \o t), NEW j \in DOMAIN (s \o t), i < j
               PROVE  Less((s \o t)[i].key, (s \o t)[j].key)
  BY DEF InOrder
<1>4. i \in Nat /\ j \in Nat
  BY <1>1
<1>5. CASE j <= Len(s)
  <2>1. i \in DOMAIN s /\ j \in DOMAIN s /\ (s \o t)[i] = s[i] /\ (s \o t)[j] = s[j]
    BY <1>1, <1>2, <1>3, <1>4, <1>5
  <2> QED
    BY <1>3, <2>1 DEF InOrder
<1>6. CASE i <= Len(s) /\ j > Len(s)
  <2>1. i \in DOMAIN s /\ j - Len(s) \in DOMAIN t /\ (s \o t)[i] = s[i] /\ (s \o t)[j] = t[j - Len(s)]
    BY <1>1, <1>2, <1>4, <1>6
  <2> QED
    BY <2>1 DEF AllBefore, ToSet
<1>7. CASE i > Len(s)
  <2>1. /\ i - Len(s) \in DOMAIN t /\ j - Len(s) \in DOMAIN t /\ i - Len(s) < j - Len(s)
        /\ (s \o t)[i] = t[i - Len(s)] /\ (s \o t)[j] = t[j - Len(s)]
    BY <1>1, <1>2, <1>3, <1>4, <1>7
  <2> QED
    BY <2>1 DEF InOrder
<1> QED
  BY <1>1, <1>3, <1>4, <1>5, <1>6, <1>7

\* What is put together has the elements of both pieces.
LEMMA ConcatElements ==
    ASSUME NEW E, NEW s \in Seq(E), NEW t \in Seq(E)
    PROVE  ToSet(s \o t) = ToSet(s) \union ToSet(t)
<1>1. /\ DOMAIN s = 1..Len(s) /\ DOMAIN t = 1..Len(t) /\ DOMAIN (s \o t) = 1..Len(s) + Len(t)
      /\ Len(s) \in Nat /\ Len(t) \in Nat
  BY ConcatProperties, LenProperties
<1>2. \A i \in DOMAIN (s \o t) : (s \o t)[i] = IF i <= Len(s) THEN s[i] ELSE t[i - Len(s)]
  BY <1>1, ConcatProperties
<1>3. ASSUME NEW i \in DOMAIN (s \o t) PROVE (s \o t)[i] \in ToSet(s) \union ToSet(t)
  <2>1. i \in DOMAIN s \/ i - Len(s) \in DOMAIN t
    BY <1>1
  <2>2. i <= Len(s) <=> i \in DOMAIN s
    BY <1>1
  <2> QED
    BY <1>2, <2>1, <2>2 DEF ToSet
<1>4. ASSUME NEW i \in DOMAIN s PROVE s[i] \in ToSet(s \o t)
  <2>1. i \in DOMAIN (s \o t) /\ i <= Len(s)
    BY <1>1
  <2> QED
    BY <1>2, <2>1 DEF ToSet
<1>5. ASSUME NEW i \in DOMAIN t PROVE t[i] \in ToSet(s \o t)
  <2>1. i + Len(s) \in DOMAIN (s \o t) /\ ~(i + Len(s) <= Len(s)) /\ (i + Len(s)) - Len(s) = i
    BY <1>1
  <2>2. (s \o t)[i + Len(s)] = t[i]
    BY <1>2, <2>1
  <2> QED
    BY <2>1, <2>2 DEF ToSet
<1> QED
  BY <1>3, <1>4, <1>5 DEF ToSet

\* The same of one more element.
LEMMA AppendOne ==
    ASSUME NEW E, NEW s \in Seq(E), NEW e \in E
    PROVE  /\ Append(s, e) \in Seq(E)
           /\ ToSet(Append(s, e)) = ToSet(s) \union {e}
           /\ InOrder(s) /\ AllBefore(ToSet(s), {e}) => InOrder(Append(s, e))
<1>1. Append(s, e) = s \o <<e>> /\ Append(s, e) \in Seq(E)
  BY AppendIsConcat, AppendProperties
<1>2. <<e>> \in Seq(E) /\ ToSet(<<e>>) = {e} /\ InOrder(<<e>>)
  BY DEF ToSet, InOrder
<1>3. ToSet(s \o <<e>>) = ToSet(s) \union ToSet(<<e>>)
  BY <1>2, ConcatElements
<1>4. ASSUME InOrder(s), AllBefore(ToSet(s), {e}) PROVE InOrder(s \o <<e>>)
  BY <1>2, <1>4, InOrderConcat
<1> QED
  BY <1>1, <1>2, <1>3, <1>4

(***************************************************************************)
(* What a page adds                                                        *)
(***************************************************************************)

\* The entries after the token.
Rest == {e \in Entries(store) : token = NoToken \/ Less(token, e.key)}

\* Pages are not of size 0.
LEMMA SizeType ==
    ASSUME Setting
    PROVE  opts.size \in Nat \ {0}
<1>1. opts.size \in PageSizes
  BY DEF Setting, ListOptions
<1> QED
  BY <1>1, KeysAssumption

\* A page that is loaded keeps the contract.
LEMMA PageLoaded ==
    ASSUME Setting, Regular, token \in Tokens(opts),
           NEW size \in 1..opts.size, NEW p \in Pages(size)
    PROVE  /\ p.objs \in Seq(Rest) /\ Len(p.objs) <= size /\ InOrder(p.objs)
           /\ p.next \in Tokens(opts)
           /\ p.next = NoToken \/ p.next = token \/ token = NoToken \/ Less(token, p.next)
           /\ \A e \in Rest : e \in ToSet(p.objs) <=> p.next = NoToken \/ ~Less(p.next, e.key)
<1> DEFINE q == [prefix |-> opts.prefix, delim |-> opts.delim, token |-> token]
<1>1. PICK n \in Limits(driver, size, token) : p = PageFrom(driver, store, q, n)
  BY DEF Pages
<1>2. store \in SUBSET Keys /\ (driver = "file" => FitsFileSystem(store)) /\ Tame(driver, store)
  BY DEF Setting, Regular, Tame
<1>3. opts \in ListOptions /\ driver \in Drivers
  BY DEF Setting
<1>4. IsPage(p, store, q, n)
  <2> DEFINE o == [prefix |-> opts.prefix, delim |-> opts.delim]
  <2>1. o \in [prefix : ListPrefixes, delim : Delimiters] /\ token \in Tokens(o)
    BY <1>3 DEF ListOptions, Tokens, EntriesOf
  <2>2. n \in AllLimits(driver, token)
    BY <1>1, <1>3 DEF AllLimits, ListOptions
  <2> QED
    BY <1>1, <1>2, <1>3, <2>1, <2>2, PagesAssumption
<1>5. n \in Nat /\ n <= size
  <2>1. opts.size \in Nat
    BY SizeType
  <2>2. size \in Nat
    BY <2>1
  <2> QED
    BY <2>2 DEF Limits
<1>6. EntriesOf(store, q) = Entries(store) /\ Tokens(q) = Tokens(opts) /\ q.token = token
  BY DEF EntriesOf, Entries, Tokens
<1> HIDE DEF q
<1>7. Rest = {e \in EntriesOf(store, q) : q.token = NoToken \/ Less(q.token, e.key)}
  BY <1>6 DEF Rest
<1>8. /\ p.objs \in Seq(Rest) /\ Len(p.objs) <= n
      /\ \A i, j \in DOMAIN p.objs : i < j => Less(p.objs[i].key, p.objs[j].key)
      /\ p.next \in Tokens(opts)
      /\ p.next = NoToken \/ p.next = token \/ token = NoToken \/ Less(token, p.next)
      /\ \A e \in Rest : e \in ToSet(p.objs) <=> p.next = NoToken \/ ~Less(p.next, e.key)
  BY <1>4, <1>6, <1>7 DEF IsPage
<1>9. Len(p.objs) <= size
  <2>1. Len(p.objs) \in Nat
    BY <1>8, LenProperties
  <2>2. opts.size \in Nat
    BY SizeType
  <2>3. size \in Nat
    BY <2>2
  <2> QED
    BY <1>5, <1>8, <2>1, <2>3
<1> QED
  BY <1>8, <1>9 DEF InOrder

\* How a page that is loaded relates to what the caller has already.
Continues(p, size) ==
    /\ p.objs \in Seq(Entries(ever)) /\ Len(p.objs) <= size /\ InOrder(p.objs)
    /\ p.next \in Tokens(opts)
    /\ AllBefore(ToSet(out) \union ToSet(page), ToSet(p.objs))
    /\ AllUpTo(ToSet(out) \union ToSet(page) \union ToSet(p.objs), p.next)
    /\ \A e \in Entries(kept) : \/ e \in ToSet(out) \union Left \union ToSet(p.objs)
                                \/ p.next # NoToken /\ Less(p.next, e.key)

\* Loading a page continues the listing, if there is more to load.
LEMMA PageContinues ==
    ASSUME Setting, Regular, Cursor, Ascending, Complete, ~finished, token = NoToken => idx = 1,
           NEW size \in 1..opts.size, NEW p \in Pages(size)
    PROVE  Continues(p, size)
<1>1. /\ p.objs \in Seq(Rest) /\ Len(p.objs) <= size /\ InOrder(p.objs)
      /\ p.next \in Tokens(opts)
      /\ p.next = NoToken \/ p.next = token \/ token = NoToken \/ Less(token, p.next)
      /\ \A e \in Rest : e \in ToSet(p.objs) <=> p.next = NoToken \/ ~Less(p.next, e.key)
  BY PageLoaded DEF Cursor
<1>2. opts.prefix \in ListPrefixes
  BY DEF Setting, ListOptions
<1>3. Entries(kept) \subseteq Entries(store) /\ Entries(store) \subseteq Entries(ever)
      /\ Entries(ever) \subseteq EntriesOf(Keys, opts)
  BY EntriesMonotone DEF Setting, Entries
<1>4. \A e \in Entries(ever) : e.key \in Seq(Nat)
  BY <1>2, <1>3, EntryKey
<1>5. token \in Seq(Nat) /\ p.next \in Seq(Nat)
  BY <1>1, <1>2, TokenType DEF Cursor
<1>6. Rest \subseteq Entries(ever)
  BY <1>3 DEF Rest
<1>7. p.objs \in Seq(Entries(ever))
  BY <1>1, <1>6, SeqMonotonic
<1>8. ToSet(p.objs) \subseteq Rest
  BY <1>1, ElementOfSeq, LenProperties DEF ToSet
<1>9. ToSet(out) \union ToSet(page) \subseteq Entries(ever)
  BY ElementOfSeq, LenProperties DEF ToSet, Cursor
<1>10. token = NoToken => ToSet(out) = {} /\ ToSet(page) = {}
  BY DEF Cursor, ToSet
<1>11. AllBefore(ToSet(out) \union ToSet(page), ToSet(p.objs))
  <2>1. SUFFICES ASSUME NEW a \in ToSet(out) \union ToSet(page), NEW b \in ToSet(p.objs)
                 PROVE  Less(a.key, b.key)
    BY DEF AllBefore
  <2>2. token # NoToken
    BY <1>10
  <2>3. AtMost(a.key, token)
    BY <2>2 DEF Ascending, AllUpTo
  <2>4. Less(token, b.key)
    BY <1>8, <2>2 DEF Rest
  <2>5. a.key \in Seq(Nat) /\ b.key \in Seq(Nat)
    BY <1>4, <1>6, <1>8, <1>9
  <2> QED
    BY <1>5, <2>3, <2>4, <2>5, AtMostLess
<1>12. AllUpTo(ToSet(out) \union ToSet(page) \union ToSet(p.objs), p.next)
  <2>1. SUFFICES ASSUME NEW a \in ToSet(out) \union ToSet(page) \union ToSet(p.objs),
                        p.next # NoToken
                 PROVE  AtMost(a.key, p.next)
    BY DEF AllUpTo
  <2>2. a.key \in Seq(Nat)
    BY <1>4, <1>6, <1>8, <1>9
  <2>3. CASE a \in ToSet(p.objs)
    <3>1. ~Less(p.next, a.key)
      BY <1>1, <1>8, <2>1, <2>3
    <3> QED
      BY <1>5, <2>2, <3>1, LessTotal
  <2>4. CASE a \in ToSet(out) \union ToSet(page)
    <3>1. token # NoToken
      BY <1>10, <2>4
    <3>2. AtMost(a.key, token)
      BY <2>4, <3>1 DEF Ascending, AllUpTo
    <3>3. CASE p.next = token
      BY <3>2, <3>3
    <3>4. CASE Less(token, p.next)
      BY <1>5, <2>2, <3>2, <3>4, AtMostLess DEF AtMost
    <3> QED
      BY <1>1, <2>1, <3>1, <3>3, <3>4
  <2> QED
    BY <2>3, <2>4
<1>13. ASSUME NEW e \in Entries(kept), e \notin ToSet(out) \union Left
       PROVE  e \in ToSet(p.objs) \/ (p.next # NoToken /\ Less(p.next, e.key))
  <2>1. Ahead(e)
    BY <1>13 DEF Complete
  <2>2. e \in Rest
    BY <1>3, <2>1 DEF Rest, Ahead
  <2> QED
    BY <1>1, <2>2
<1> QED
  BY <1>1, <1>7, <1>11, <1>12, <1>13 DEF Continues

(***************************************************************************)
(* The steps                                                               *)
(***************************************************************************)

\* A listing starts as the invariant asks.
LEMMA InitIInv == Init => IInv
<1> SUFFICES ASSUME Init PROVE IInv
  OBVIOUS
<1>1. Setting
  BY DEF Init, Setting
<1>2. << >> \in Seq(Entries(ever)) /\ Len(<< >>) = 0 /\ ToSet(<< >>) = {} /\ DOMAIN << >> = {}
  BY DEF ToSet
<1>3. Cursor
  <2>1. token \in Tokens(opts)
    BY DEF Init, Tokens
  <2>2. opts.size \in Nat \ {0}
    BY <1>1, SizeType
  <2> QED
    BY <1>2, <2>1, <2>2 DEF Init, Cursor
<1>4. Ascending
  BY <1>2 DEF Init, Ascending, InOrder, AllBefore, AllUpTo, Left
<1>5. Complete
  BY DEF Init, Complete, Ahead
<1> QED
  BY <1>1, <1>3, <1>4, <1>5 DEF IInv, Init

\* The setting is left alone by the steps of the listing itself.
LEMMA SettingKept ==
    ASSUME Setting, UNCHANGED <<driver, opts, store, api, kept, ever>>
    PROVE  Setting'
BY DEF Setting, FitsFileSystem

\* ListIterator.Next with an object left in the page.
LEMMA NextInPageIInv == IInv /\ NextInPage => IInv'
<1> SUFFICES ASSUME IInv, NextInPage PROVE IInv'
  OBVIOUS
<1> USE DEF NextInPage
<1>1. Setting /\ Setting'
  BY SettingKept DEF IInv
<1>2. SUFFICES ASSUME Regular' PROVE full' /\ Cursor' /\ Ascending' /\ Complete'
  BY <1>1 DEF IInv
<1>3. Regular /\ full /\ Cursor /\ Ascending /\ Complete
  BY <1>2 DEF IInv, Regular
<1>4. Entries(ever)' = Entries(ever) /\ Entries(kept)' = Entries(kept)
  BY DEF Entries
<1>5. /\ idx \in DOMAIN page /\ page[idx] \in Entries(ever) /\ page[idx] \in ToSet(page)
      /\ page[idx] \in Left
  BY <1>3, LenProperties, ElementOfSeq DEF Cursor, ToSet, Left
<1>6. /\ out' \in Seq(Entries(ever)) /\ ToSet(out') = ToSet(out) \union {page[idx]}
      /\ InOrder(out) /\ AllBefore(ToSet(out), {page[idx]}) => InOrder(out')
  <2>1. out \in Seq(Entries(ever)) /\ out' = Append(out, page[idx])
    BY <1>3 DEF Cursor
  <2>2. \A s \in Seq(Entries(ever)), e \in Entries(ever) :
            /\ Append(s, e) \in Seq(Entries(ever))
            /\ ToSet(Append(s, e)) = ToSet(s) \union {e}
            /\ InOrder(s) /\ AllBefore(ToSet(s), {e}) => InOrder(Append(s, e))
    BY AppendOne
  <2> QED
    BY <1>5, <2>1, <2>2
<1>9. Left \subseteq Left' \union {page[idx]} /\ Left' \subseteq Left
  BY <1>3 DEF Left, Cursor
<1>10. Cursor'
  BY <1>3, <1>4, <1>5, <1>6, LenProperties DEF Cursor
<1>11. Ascending'
  <2>1. InOrder(out')
    BY <1>3, <1>5, <1>6 DEF Ascending, AllBefore
  <2>2. AllBefore(ToSet(out'), Left')
    <3>1. SUFFICES ASSUME NEW a \in ToSet(out'), NEW b \in Left'
                   PROVE  Less(a.key, b.key)
      BY DEF AllBefore
    <3>2. CASE a \in ToSet(out)
      BY <1>3, <1>9, <3>2 DEF Ascending, AllBefore
    <3>3. CASE a = page[idx]
      <4>1. PICK j \in DOMAIN page : idx + 1 <= j /\ b = page[j]
        BY DEF Left
      <4>2. j \in Nat /\ idx \in Nat /\ idx < j
        BY <1>3, <4>1, LenProperties DEF Cursor
      <4> QED
        BY <1>3, <1>5, <3>3, <4>1, <4>2 DEF Ascending, InOrder
    <3> QED
      BY <1>6, <3>2, <3>3
  <2>3. AllUpTo(ToSet(out') \union ToSet(page'), token')
    BY <1>3, <1>5, <1>6 DEF Ascending, AllUpTo
  <2>4. InOrder(page')
    BY <1>3 DEF Ascending
  <2> QED
    BY <2>1, <2>2, <2>3, <2>4 DEF Ascending
<1>12. Complete'
  <2>1. SUFFICES ASSUME NEW e \in Entries(kept), e \notin ToSet(out') \union Left' PROVE Ahead(e)'
    BY <1>4 DEF Complete
  <2>2. Ahead(e)
    BY <1>3, <1>6, <1>9, <2>1 DEF Complete
  <2>3. token # NoToken
    BY <1>3, <1>5, <2>2 DEF Ahead, Cursor
  <2> QED
    BY <2>2, <2>3 DEF Ahead
<1> QED
  BY <1>3, <1>10, <1>11, <1>12

\* ListIterator.Next that loads a page.
LEMMA NextPageIInv == IInv /\ NextPage => IInv'
<1> SUFFICES ASSUME IInv, NextPage PROVE IInv'
  OBVIOUS
<1>1. Setting /\ Setting'
  BY SettingKept DEF IInv, NextPage
<1>2. SUFFICES ASSUME Regular' PROVE full' /\ Cursor' /\ Ascending' /\ Complete'
  BY <1>1 DEF IInv
<1>3. Regular /\ full /\ Cursor /\ Ascending /\ Complete
  BY <1>2 DEF IInv, Regular, NextPage
<1>4. Entries(ever)' = Entries(ever) /\ Entries(kept)' = Entries(kept) /\ Tokens(opts)' = Tokens(opts)
  BY DEF Entries, Tokens, NextPage
<1>5. PICK p \in Pages(opts.size) :
          /\ page' = p.objs /\ token' = p.next
          /\ IF p.objs = << >>
             THEN finished' = (p.next = NoToken) /\ idx' = 1 /\ UNCHANGED out
             ELSE out' = Append(out, p.objs[1]) /\ idx' = 2 /\ UNCHANGED finished
  BY DEF NextPage
<1>6. Continues(p, opts.size)
  <2>1. opts.size \in 1..opts.size
    BY <1>1, SizeType
  <2>2. ~finished /\ (token = NoToken => idx = 1)
    BY <1>3 DEF NextPage, Begun, Cursor
  <2> QED
    BY <1>1, <1>3, <1>5, <2>1, <2>2, PageContinues
<1>7. Left = {}
  BY <1>3, LenProperties DEF NextPage, Cursor, Left
<1>8. ~finished /\ api = "iterator" /\ api' = api /\ opts' = opts /\ full' = full
  BY DEF NextPage
<1>9. CASE p.objs = << >>
  <2>1. /\ page' = << >> /\ idx' = 1 /\ out' = out /\ token' = p.next
        /\ finished' = (p.next = NoToken)
    BY <1>5, <1>9
  <2>2. ToSet(p.objs) = {} /\ ToSet(page') = {} /\ Left' = {} /\ Len(page') = 0
    BY <1>9, <2>1 DEF ToSet, Left
  <2>3. Cursor'
    <3>1. page' \in Seq(Entries(ever)) /\ out' \in Seq(Entries(ever)) /\ token' \in Tokens(opts)
      BY <1>3, <1>6, <2>1 DEF Cursor, Continues
    <3>2. (finished' => token' = NoToken) /\ idx' > Len(page')
      <4>1. idx' = 1 /\ Len(page') = 0
        BY <2>1, <2>2
      <4>2. finished' => token' = NoToken
        BY <2>1, Zenon
      <4> QED
        BY <4>1, <4>2
    <3>3. ~(token' = NoToken /\ ~finished')
      BY <2>1
    <3> QED
      BY <1>4, <1>8, <2>1, <3>1, <3>2, <3>3 DEF Cursor
  <2>4. Ascending'
    BY <1>3, <1>6, <1>9, <2>1, <2>2 DEF Ascending, Continues, AllBefore, AllUpTo
  <2>5. Complete'
    BY <1>4, <1>6, <1>7, <2>1, <2>2 DEF Complete, Continues, Ahead
  <2> QED
    BY <1>3, <1>8, <2>3, <2>4, <2>5
<1>10. CASE p.objs # << >>
  <2> DEFINE o == p.objs[1]
  <2>1. /\ page' = p.objs /\ idx' = 2 /\ out' = Append(out, o) /\ token' = p.next
        /\ finished' = FALSE
    BY <1>5, <1>8, <1>10
  <2>2. p.objs \in Seq(Entries(ever)) /\ Len(p.objs) \in Nat \ {0} /\ DOMAIN p.objs = 1..Len(p.objs)
    BY <1>6, <1>10, LenProperties, EmptySeq DEF Continues
  <2>3. o \in ToSet(p.objs) /\ o \in Entries(ever)
    BY <2>2, ElementOfSeq DEF ToSet
  <2> HIDE DEF o
  <2>4. /\ out' \in Seq(Entries(ever)) /\ ToSet(out') = ToSet(out) \union {o}
        /\ InOrder(out) /\ AllBefore(ToSet(out), {o}) => InOrder(out')
    <3>1. out \in Seq(Entries(ever))
      BY <1>3 DEF Cursor
    <3>2. \A s \in Seq(Entries(ever)), e \in Entries(ever) :
              /\ Append(s, e) \in Seq(Entries(ever))
              /\ ToSet(Append(s, e)) = ToSet(s) \union {e}
              /\ InOrder(s) /\ AllBefore(ToSet(s), {e}) => InOrder(Append(s, e))
      BY AppendOne
    <3> QED
      BY <2>1, <2>3, <3>1, <3>2
  <2>7. Left' \subseteq ToSet(p.objs) /\ ToSet(p.objs) \subseteq Left' \union {o}
    BY <2>1, <2>2 DEF Left, ToSet, o
  <2>8. Cursor'
    BY <1>4, <1>6, <1>8, <2>1, <2>4 DEF Cursor, Continues
  <2>9. Ascending'
    <3>1. InOrder(out')
      BY <1>3, <1>6, <2>3, <2>4 DEF Continues, AllBefore, Ascending
    <3>2. AllBefore(ToSet(out'), Left')
      <4>1. SUFFICES ASSUME NEW a \in ToSet(out'), NEW b \in Left' PROVE Less(a.key, b.key)
        BY DEF AllBefore
      <4>2. CASE a \in ToSet(out)
        BY <1>6, <2>7, <4>2 DEF Continues, AllBefore
      <4>3. CASE a = o
        <5>1. PICK j \in DOMAIN p.objs : 2 <= j /\ b = p.objs[j]
          BY <2>1 DEF Left
        <5>2. 1 \in DOMAIN p.objs /\ 1 < j
          BY <2>2, <5>1
        <5> QED
          BY <1>6, <4>3, <5>1, <5>2 DEF Continues, InOrder, o
      <4> QED
        BY <2>4, <4>2, <4>3
    <3>3. AllUpTo(ToSet(out') \union ToSet(page'), token')
      BY <1>6, <2>1, <2>3, <2>4 DEF Continues, AllUpTo
    <3> QED
      BY <1>6, <2>1, <3>1, <3>2, <3>3 DEF Ascending, Continues
  <2>10. Complete'
    BY <1>4, <1>6, <1>7, <2>1, <2>4, <2>7 DEF Complete, Continues, Ahead
  <2> QED
    BY <1>3, <1>8, <2>8, <2>9, <2>10
<1> QED
  BY <1>9, <1>10

\* ListIterator.Next that returns io.EOF.
LEMMA NextEOFIInv == IInv /\ NextEOF => IInv'
<1> SUFFICES ASSUME IInv, NextEOF PROVE IInv'
  OBVIOUS
<1>1. Setting /\ Setting'
  BY SettingKept DEF IInv, NextEOF
<1>2. SUFFICES ASSUME Regular' PROVE full' /\ Cursor' /\ Ascending' /\ Complete'
  BY <1>1 DEF IInv
<1>3. Regular /\ full /\ Cursor /\ Ascending /\ Complete
  BY <1>2 DEF IInv, Regular, NextEOF
<1>4. /\ idx > 1 /\ token = NoToken /\ idx > Len(page) /\ finished'
      /\ UNCHANGED <<opts, api, token, page, idx, out, full, kept, ever>>
  BY DEF NextEOF, Begun
<1>5. Cursor'
  BY <1>3, <1>4 DEF Cursor, Entries, Tokens
<1>6. Ascending'
  BY <1>3, <1>4 DEF Ascending, Left
<1>7. Complete'
  <2>1. ASSUME NEW e \in Entries(kept) PROVE e \in ToSet(out) \union Left
    <3>1. ~Ahead(e)
      BY <1>3, <1>4 DEF Ahead, Cursor
    <3> QED
      BY <1>3, <3>1 DEF Complete
  <2>2. ToSet(out)' = ToSet(out) /\ Left' = Left /\ Entries(kept)' = Entries(kept)
    BY <1>4 DEF Left, Entries
  <2> QED
    BY <2>1, <2>2 DEF Complete
<1> QED
  BY <1>3, <1>4, <1>5, <1>6, <1>7

\* Bucket.ListPage.
LEMMA ListPageTurnIInv == IInv /\ ListPageTurn => IInv'
<1> SUFFICES ASSUME IInv, ListPageTurn PROVE IInv'
  OBVIOUS
<1>1. Setting /\ Setting'
  BY SettingKept DEF IInv, ListPageTurn
<1>2. SUFFICES ASSUME Regular' PROVE full' /\ Cursor' /\ Ascending' /\ Complete'
  BY <1>1 DEF IInv
<1>3. Regular /\ full /\ Cursor /\ Ascending /\ Complete
  BY <1>2 DEF IInv, Regular, ListPageTurn
<1>4. Entries(ever)' = Entries(ever) /\ Entries(kept)' = Entries(kept) /\ Tokens(opts)' = Tokens(opts)
  BY DEF Entries, Tokens, ListPageTurn
<1> DEFINE left == opts.size - Len(page)
<1>5. PICK p \in Pages(left) :
          LET retval == page \o p.objs
              done == Len(retval) >= opts.size \/ p.next = NoToken
          IN /\ token' = p.next
             /\ IF done
                THEN /\ out' = out \o retval /\ page' = << >>
                     /\ finished' = (p.next = NoToken)
                     /\ full' = (full /\ (p.next = NoToken \/ Len(retval) = opts.size))
                ELSE page' = retval /\ UNCHANGED <<out, finished, full>>
  BY DEF ListPageTurn
<1>6. /\ ~finished /\ api = "page" /\ api' = api /\ opts' = opts /\ idx' = idx /\ idx = 1
      /\ page \in Seq(Entries(ever)) /\ out \in Seq(Entries(ever))
  BY <1>3 DEF ListPageTurn, Cursor
<1>7. /\ Len(page) \in Nat /\ opts.size \in Nat \ {0} /\ Len(page) < opts.size
      /\ left \in 1..opts.size
  BY <1>1, <1>3, <1>6, SizeType, LenProperties DEF Cursor
<1>8. Continues(p, left)
  BY <1>1, <1>3, <1>5, <1>6, <1>7, PageContinues
<1> DEFINE retval == page \o p.objs
<1>9. /\ p.objs \in Seq(Entries(ever)) /\ Len(p.objs) <= left /\ Len(p.objs) \in Nat
  BY <1>8, LenProperties DEF Continues
<1>10. /\ retval \in Seq(Entries(ever)) /\ Len(retval) = Len(page) + Len(p.objs)
       /\ ToSet(retval) = ToSet(page) \union ToSet(p.objs)
  BY <1>6, <1>9, ConcatProperties, ConcatElements
<1>11. Len(retval) \in Nat /\ Len(retval) <= opts.size
  BY <1>7, <1>9, <1>10
<1>12. Left = ToSet(page)
  BY <1>6, LenProperties DEF Left, ToSet
<1>13. InOrder(retval)
  <2>1. InOrder(page) /\ InOrder(p.objs) /\ AllBefore(ToSet(page), ToSet(p.objs))
    BY <1>3, <1>8 DEF Ascending, Continues, AllBefore
  <2> QED
    BY <1>6, <1>9, <2>1, InOrderConcat
<1>14. AllBefore(ToSet(out), ToSet(retval))
  BY <1>3, <1>8, <1>10, <1>12 DEF Ascending, Continues, AllBefore
<1>15. AllUpTo(ToSet(out) \union ToSet(retval), p.next)
  BY <1>8, <1>10 DEF Continues, AllUpTo
<1>16. p.next \in Tokens(opts)
  BY <1>8 DEF Continues
<1>17. \A e \in Entries(kept) : \/ e \in ToSet(out) \union ToSet(retval)
                                \/ p.next # NoToken /\ Less(p.next, e.key)
  BY <1>8, <1>10, <1>12 DEF Continues
<1>18. CASE Len(retval) >= opts.size \/ p.next = NoToken
  <2>1. /\ token' = p.next /\ out' = out \o retval /\ page' = << >>
        /\ finished' = (p.next = NoToken)
        /\ full' = (full /\ (p.next = NoToken \/ Len(retval) = opts.size))
    BY <1>5, <1>18
  <2>2. full'
    <3>1. p.next = NoToken \/ Len(retval) = opts.size
      BY <1>7, <1>11, <1>18
    <3> QED
      BY <1>3, <2>1, <3>1
  <2> HIDE DEF retval
  <2>3. out' \in Seq(Entries(ever)) /\ ToSet(out') = ToSet(out) \union ToSet(retval)
    BY <1>6, <1>10, <2>1, ConcatProperties, ConcatElements
  <2>4. ToSet(page') = {} /\ Left' = {} /\ Len(page') = 0 /\ page' \in Seq(Entries(ever))
    BY <2>1 DEF ToSet, Left
  <2>5. Cursor'
    <3>1. finished' => token' = NoToken
      BY <2>1, Zenon
    <3>2. ~(token' = NoToken /\ ~finished')
      BY <2>1, Zenon
    <3>3. idx' > Len(page') /\ Len(page') < opts.size
      BY <1>6, <1>7, <2>4
    <3>4. token' \in Tokens(opts)
      BY <1>16, <2>1
    <3> QED
      BY <1>4, <1>6, <2>3, <2>4, <3>1, <3>2, <3>3, <3>4 DEF Cursor
  <2>6. InOrder(out')
    <3>1. InOrder(out)
      BY <1>3 DEF Ascending
    <3> QED
      BY <1>6, <1>10, <1>13, <1>14, <2>1, <3>1, InOrderConcat
  <2>7. Ascending'
    <3>1. InOrder(page')
      BY <2>1 DEF InOrder
    <3>2. AllBefore(ToSet(out'), Left')
      BY <2>4 DEF AllBefore
    <3>3. AllUpTo(ToSet(out') \union ToSet(page'), token')
      BY <1>15, <2>1, <2>3, <2>4 DEF AllUpTo
    <3> QED
      BY <2>6, <3>1, <3>2, <3>3 DEF Ascending
  <2>8. Complete'
    BY <1>4, <1>17, <2>1, <2>3, <2>4 DEF Complete, Ahead
  <2> QED
    BY <2>2, <2>5, <2>7, <2>8
<1>19. CASE ~(Len(retval) >= opts.size \/ p.next = NoToken)
  <2>1. /\ token' = p.next /\ page' = retval /\ p.next # NoToken
        /\ out' = out /\ finished' = finished /\ full' = full
    BY <1>5, <1>19
  <2>2. Len(retval) < opts.size
    BY <1>7, <1>11, <1>19
  <2> HIDE DEF retval
  <2>3. Left' = ToSet(retval)
    BY <1>6, <1>10, <2>1, LenProperties DEF Left, ToSet
  <2>4. Cursor'
    BY <1>4, <1>6, <1>10, <1>16, <2>1, <2>2 DEF Cursor
  <2>5. Ascending'
    BY <1>3, <1>13, <1>14, <1>15, <2>1, <2>3 DEF Ascending
  <2>6. Complete'
    BY <1>4, <1>17, <2>1, <2>3 DEF Complete, Ahead
  <2> QED
    BY <1>3, <2>1, <2>4, <2>5, <2>6
<1> QED
  BY <1>18, <1>19

\* A blob is written between two pages.
LEMMA PutIInv == ASSUME NEW k \in Keys, IInv, Put(k) PROVE IInv'
<1>1. /\ UNCHANGED <<driver, opts, api, token, page, idx, out, finished, full, kept>>
      /\ store' = store \union {k} /\ ever' = ever \union {k}
      /\ driver = "file" => FitsFileSystem(store \union {k})
  BY DEF Put
<1>2. Setting'
  BY <1>1 DEF IInv, Setting, FitsFileSystem
<1>3. SUFFICES ASSUME Regular' PROVE full' /\ Cursor' /\ Ascending' /\ Complete'
  BY <1>2 DEF IInv
<1>4. Regular /\ full /\ Cursor /\ Ascending /\ Complete
  BY <1>1, <1>3 DEF IInv, Regular, Tame
<1>5. Entries(ever) \subseteq EntriesOf(ever', opts) /\ Entries(ever)' = EntriesOf(ever', opts)
  BY <1>1, EntriesMonotone DEF Entries
<1>6. page \in Seq(EntriesOf(ever', opts)) /\ out \in Seq(EntriesOf(ever', opts))
  BY <1>4, <1>5, SeqMonotonic DEF Cursor
<1>7. Cursor'
  BY <1>1, <1>4, <1>5, <1>6 DEF Cursor, Tokens
<1>8. Ascending'
  BY <1>1, <1>4 DEF Ascending, Left
<1>9. Complete'
  BY <1>1, <1>4 DEF Complete, Left, Ahead, Entries
<1> QED
  BY <1>1, <1>4, <1>7, <1>8, <1>9

\* A blob is deleted between two pages.
LEMMA DeleteIInv == ASSUME NEW k \in Keys, IInv, Delete(k) PROVE IInv'
<1>1. /\ UNCHANGED <<driver, opts, api, token, page, idx, out, finished, full, ever>>
      /\ store' = store \ {k} /\ kept' = kept \ {k}
  BY DEF Delete
<1>2. Setting'
  BY <1>1 DEF IInv, Setting, FitsFileSystem
<1>3. SUFFICES ASSUME Regular' PROVE full' /\ Cursor' /\ Ascending' /\ Complete'
  BY <1>2 DEF IInv
<1>4. Regular /\ full /\ Cursor /\ Ascending /\ Complete
  BY <1>1, <1>3 DEF IInv, Regular
<1>5. Cursor'
  BY <1>1, <1>4 DEF Cursor, Tokens, Entries
<1>6. Ascending'
  BY <1>1, <1>4 DEF Ascending, Left
<1>7. Complete'
  <2>1. EntriesOf(kept', opts) \subseteq Entries(kept)
    BY <1>1, EntriesMonotone DEF Entries
  <2>2. Entries(kept)' = EntriesOf(kept', opts) /\ Left' = Left
    BY <1>1 DEF Entries, Left
  <2>3. \A e : Ahead(e)' <=> Ahead(e)
    BY <1>1 DEF Ahead
  <2> QED
    BY <1>1, <1>4, <2>1, <2>2, <2>3 DEF Complete
<1> QED
  BY <1>1, <1>4, <1>5, <1>6, <1>7

\* The invariant is kept by every step.
LEMMA NextIInv == IInv /\ [Next]_vars => IInv'
<1> SUFFICES ASSUME IInv, [Next]_vars PROVE IInv'
  OBVIOUS
<1>1. CASE List
  BY <1>1, NextInPageIInv, NextPageIInv, NextEOFIInv, ListPageTurnIInv DEF List
<1>2. ASSUME NEW k \in Keys, Put(k) PROVE IInv'
  BY <1>2, PutIInv
<1>3. ASSUME NEW k \in Keys, Delete(k) PROVE IInv'
  BY <1>3, DeleteIInv
<1>4. CASE UNCHANGED vars
  <2>1. UNCHANGED <<driver, opts, store, api, token, page, idx, out, finished, full, kept, ever>>
    BY <1>4 DEF vars
  <2>2. Setting'
    BY <2>1, SettingKept DEF IInv
  <2>3. /\ Regular' <=> Regular
        /\ full' = full
        /\ Cursor => Cursor'
        /\ Ascending => Ascending'
        /\ Complete => Complete'
    BY <2>1 DEF Regular, Cursor, Ascending, Complete, Entries, Tokens, Left, Ahead
  <2> QED
    BY <2>2, <2>3 DEF IInv
<1> QED
  BY <1>1, <1>2, <1>3, <1>4 DEF Next

\* The invariant says what the property promises of a listing.
LEMMA IInvImpliesListed == IInv => Listed
<1> SUFFICES ASSUME IInv, Regular PROVE EveryKeyListed
  BY DEF Listed, Regular
<1>1. full /\ Cursor /\ Ascending /\ Complete
  BY DEF IInv
<1>2. out \in Seq(Entries(ever)) /\ DOMAIN out = 1..Len(out) /\ Len(out) \in Nat
  BY <1>1, LenProperties DEF Cursor
<1>3. \A i \in 1..Len(out) - 1 : Less(out[i].key, out[i + 1].key)
  <2> TAKE i \in 1..Len(out) - 1
  <2>1. i \in DOMAIN out /\ i + 1 \in DOMAIN out /\ i < i + 1
    BY <1>2
  <2> QED
    BY <1>1, <2>1 DEF Ascending, InOrder
<1>4. ToSet(out) \subseteq Entries(ever)
  BY <1>2, ElementOfSeq DEF ToSet
<1>5. ASSUME finished, NEW e \in Entries(kept) PROVE e \in ToSet(out)
  <2>1. token = NoToken /\ idx > Len(page) /\ idx \in Nat /\ Len(page) \in Nat
        /\ DOMAIN page = 1..Len(page)
    BY <1>1, <1>5, LenProperties DEF Cursor
  <2>2. Left = {} /\ ~Ahead(e)
    BY <1>5, <2>1 DEF Left, Ahead
  <2> QED
    BY <1>1, <2>2 DEF Complete
<1> QED
  BY <1>1, <1>3, <1>4, <1>5 DEF EveryKeyListed

\* Listings are ordered, without repetition and complete, and the pages of
\* Bucket.ListPage full, for all keys and options, over every driver that
\* keeps the contract of ListPaged, whatever is written and deleted between
\* two pages.
THEOREM ListingCorrect == Spec => []Listed
<1>1. Spec => []IInv
  BY InitIInv, NextIInv, PTL DEF Spec
<1> QED
  BY <1>1, IInvImpliesListed, PTL

=============================================================================
