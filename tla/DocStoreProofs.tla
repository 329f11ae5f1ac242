--------------------------- MODULE DocStoreProofs ---------------------------
(***************************************************************************)
(* Proofs about DocStore, for any number of callers, keys and lists of      *)
(* actions, and any limit of outstanding actions: optimistic locking, and   *)
(* the order of the gets and writes of a list.                              *)
(***************************************************************************)
EXTENDS DocStore, FiniteSetTheorems, WellFoundedInduction, TLAPS

-----------------------------------------------------------------------------
(* The inductive invariant: revisions *)

Docs == [ver : Nat, rev : Nat, stamp : Nat]

TypeOK ==
    /\ docs \in [AllKeys -> Docs]
    /\ curRevision \in Nat
    /\ unique \in Nat
    /\ clock \in Nat
    /\ known \in [Clients -> [Keys -> Docs]]
    /\ list = [c \in Clients |-> list[c]]
    /\ DOMAIN group = Clients
    /\ DOMAIN gpc = Clients
    /\ DOMAIN errs = Clients
    /\ DOMAIN num = Clients
    /\ DOMAIN pc = Clients
    /\ \A c \in Clients :
         /\ \E n \in Nat : DOMAIN list[c] = 1..n
         /\ DOMAIN list[c] \subseteq DOMAIN group[c]
         /\ DOMAIN list[c] \subseteq DOMAIN gpc[c]
         /\ DOMAIN list[c] \subseteq DOMAIN errs[c]
         /\ DOMAIN list[c] \subseteq DOMAIN num[c]

\* Revision r is in some document, stored, held or passed by a caller, and was
\* given to it by the s-th write.
Given(r, s) ==
    \/ \E k \in AllKeys : docs[k].rev = r /\ docs[k].stamp = s
    \/ \E c \in Clients, k \in Keys : known[c][k].rev = r /\ known[c][k].stamp = s
    \/ \E c \in Clients : \E i \in DOMAIN list[c] : list[c][i].rev = r /\ list[c][i].base = s

\* No revision is given by two writes, and the next one has not been given.
OneStamp ==
    /\ \A r, s, t : r # NoRev /\ Given(r, s) /\ Given(r, t) => s = t
    /\ \A r, s : Given(r, s) => r \in Nat /\ r <= curRevision

-----------------------------------------------------------------------------
(* The inductive invariant: the actions of a list *)

\* A key is the caller's, made up for the action, or still missing.
KeyOK(a) ==
    \/ a.key \in Keys \cup {NilKey}
    \/ \E n \in DOMAIN UniqueKeys : n \in 1..unique /\ a.key = UniqueKeys[n]

Fields == {"kind", "key", "hasRev", "rev", "base", "seen", "nested", "bad"}

ActionsOK(c) ==
    \A i \in DOMAIN list[c] :
        /\ DOMAIN list[c][i] = Fields
        /\ KeyOK(list[c][i])
        /\ IsGet(list[c][i]) => list[c][i].key \in Keys
        /\ list[c][i].kind = "Create" => list[c][i].rev = NoRev

\* No two writes of a list have a key in common.
WritesDiffer(c) ==
    \A i, j \in DOMAIN list[c] :
        /\ ~IsGet(list[c][i]) /\ ~IsGet(list[c][j]) /\ i # j
        /\ list[c][i].key = list[c][j].key
        => list[c][i].key = NilKey

\* GroupActions: a get and a write of one key are in groups in their order.
GroupsOK(c) ==
    /\ \A i \in DOMAIN list[c] :
         group[c][i] \in (IF IsGet(list[c][i]) THEN {BeforeGets, Gets, AfterGets} ELSE {Writes, WritesTx})
    /\ \A i, j \in DOMAIN list[c] :
         IsGet(list[c][i]) /\ ~IsGet(list[c][j]) /\ list[c][i].key = list[c][j].key
         => group[c][i] = IF i < j THEN BeforeGets ELSE AfterGets

\* run waits for a group before the next starts, and only an action that has run
\* can have succeeded.
InTurn(c) ==
    /\ \A i, j \in DOMAIN list[c] :
         gpc[c][i] # "none" /\ group[c][j] < group[c][i] => gpc[c][j] = "done"
    /\ \A i \in DOMAIN list[c] : errs[c][i] = "ok" => gpc[c][i] \in {"release", "done"}
    /\ \A i \in DOMAIN list[c] : group[c][i] = WritesTx => gpc[c][i] \in {"none", "done"}
    /\ pc[c] = "atomic" => \E i \in UnderWay(c) : group[c][i] = WritesTx

\* No write has a number that is still to come.
Numbered(c) == \A i \in DOMAIN list[c] : num[c][i] \in Nat /\ num[c][i] <= clock

\* A document is as new as the last write to it.
Newest(c) ==
    \A i \in DOMAIN list[c] :
        ~IsGet(list[c][i]) /\ errs[c][i] = "ok" /\ list[c][i].key \in AllKeys
        => \/ docs[list[c][i].key] = Absent
           \/ docs[list[c][i].key].ver >= num[c][i]

\* ListOrder, of one caller.
InOrder(c) ==
    \A i, j \in DOMAIN list[c] :
        /\ IsGet(list[c][i]) /\ errs[c][i] = "ok"
        /\ ~IsGet(list[c][j]) /\ errs[c][j] = "ok"
        /\ list[c][i].key = list[c][j].key
        => IF i < j THEN num[c][i] < num[c][j] ELSE num[c][i] >= num[c][j]

ListOK(c) ==
    /\ ActionsOK(c)
    /\ WritesDiffer(c)
    /\ GroupsOK(c)
    /\ InTurn(c)
    /\ Numbered(c)
    /\ Newest(c)
    /\ InOrder(c)

DocsNumbered == \A k \in AllKeys : docs[k].ver <= clock

IInv ==
    /\ TypeOK
    /\ OneStamp
    /\ DocsNumbered
    /\ \A c \in Clients : ListOK(c)

-----------------------------------------------------------------------------
(* Counting the writes of a critical section *)

\* The rank of an index in a set of them.
Rank(S, i) == Cardinality({j \in S : j <= i})

\* Ranks are positive, not above the number of indices, and different.
LEMMA Ranks ==
    ASSUME NEW n \in Nat, NEW S \in SUBSET (1..n)
    PROVE  /\ Cardinality(S) \in Nat
           /\ \A i \in S : Rank(S, i) \in 1..Cardinality(S)
           /\ \A i, k \in S : Rank(S, i) = Rank(S, k) => i = k
<1> DEFINE Upto(i) == {j \in S : j <= i}
<1>1. IsFiniteSet(S) /\ Cardinality(S) \in Nat
  <2>1. IsFiniteSet(1..n)
    BY FS_Interval
  <2> QED
    BY <2>1, FS_Subset, FS_CardinalityType
<1>2. \A i : Upto(i) \in SUBSET S
  OBVIOUS
<1>3. \A i \in S : i \in Upto(i)
  OBVIOUS
<1>4. \A i, k \in S : i < k => Upto(i) \in SUBSET Upto(k) /\ k \notin Upto(i)
  <2> SUFFICES ASSUME NEW i \in S, NEW k \in S, i < k
               PROVE  Upto(i) \in SUBSET Upto(k) /\ k \notin Upto(i)
    OBVIOUS
  <2>1. \A j \in S : j <= i => j <= k
    OBVIOUS
  <2>2. ~(k <= i)
    OBVIOUS
  <2> QED
    BY <2>1, <2>2
<1>5. \A i : Rank(S, i) = Cardinality(Upto(i))
  BY DEF Rank
<1> HIDE DEF Upto
<1>6. \A i : IsFiniteSet(Upto(i)) /\ Cardinality(Upto(i)) \in Nat /\ Cardinality(Upto(i)) <= Cardinality(S)
  BY <1>1, <1>2, FS_Subset, FS_CardinalityType
<1>7. \A i \in S : Cardinality(Upto(i)) # 0
  BY <1>3, <1>6, FS_EmptySet
<1>8. \A i, k \in S : i < k => Cardinality(Upto(i)) # Cardinality(Upto(k))
  <2> TAKE i, k \in S
  <2> HAVE i < k
  <2>1. Upto(i) \in SUBSET Upto(k) /\ Upto(k) # Upto(i)
    BY <1>3, <1>4
  <2> QED
    BY <1>6, <2>1, FS_Subset
<1>9. \A i, k \in S : i # k => i < k \/ k < i
  OBVIOUS
<1> QED
  BY <1>1, <1>5, <1>6, <1>7, <1>8, <1>9

\* A nonempty set of indices has a first one.
LEMMA FirstIs ==
    ASSUME NEW T \in SUBSET Nat, T # {} PROVE First(T) \in T
<1>1. PICK x \in T : \A y \in T : ~(<<y, x>> \in OpToRel(<, Nat))
  BY NatLessThanWellFounded, WFMin
<1>2. \A y \in T : ~(y < x)
  BY <1>1 DEF OpToRel
<1>3. \E i \in T : \A j \in T : i <= j
  BY <1>2
<1> QED
  BY <1>3, Zenon DEF First

-----------------------------------------------------------------------------
(* Execute *)

Tick(S, i) == clock + Rank(S, i)
Bumps(l, S) == {j \in S : ChangesRevision(l[j])}
Rev(l, S, i) == curRevision + Rank(Bumps(l, S), i)
Copy(l, S, i) == [ver |-> Tick(S, i), rev |-> Rev(l, S, i), stamp |-> Tick(S, i)]

\* The document that the t-th write stores.
LEMMA WrittenIs ==
    ASSUME TypeOK, NEW a, a.key \in AllKeys, NEW t \in Nat, NEW r \in Nat
    PROVE  /\ Written(a, t, r) \in Docs
           /\ \/ Written(a, t, r) = Absent \/ Written(a, t, r).ver = t
              \/ Unset(a) /\ Written(a, t, r) = docs[a.key]
           /\ \/ Written(a, t, r).rev = NoRev
              \/ Written(a, t, r).rev = docs[a.key].rev /\ Written(a, t, r).stamp = docs[a.key].stamp
              \/ ChangesRevision(a) /\ Written(a, t, r).rev = r /\ Written(a, t, r).stamp = t
<1>1. Current(a) = docs[a.key] /\ docs[a.key] \in Docs
  BY DocStoreAssumption DEF TypeOK, AllKeys, Current
<1>2. docs[a.key].rev \in Nat /\ docs[a.key].stamp \in Nat
  BY <1>1 DEF Docs
<1>3. CASE a.kind = "Delete"
  BY <1>3 DEF Written, Absent, NoRev, Docs
<1>5. CASE a.kind # "Delete" /\ Unset(a) /\ a.kind # "Update"
  BY <1>1, <1>2, <1>5 DEF Written
<1>4. CASE a.kind # "Delete" /\ ~(Unset(a) /\ a.kind # "Update")
  <2> DEFINE keep == a.kind = "Update" /\ ~ChangesRevision(a)
  <2>1. Written(a, t, r) =
          [ver   |-> t,
           rev   |-> IF keep THEN docs[a.key].rev ELSE IF ChangesRevision(a) THEN r ELSE NoRev,
           stamp |-> IF keep THEN docs[a.key].stamp ELSE IF ChangesRevision(a) THEN t ELSE 0]
    BY <1>1, <1>4 DEF Written
  <2> HIDE DEF keep
  <2> QED
    BY <1>2, <2>1 DEF Docs, NoRev
<1> QED
  BY <1>3, <1>4, <1>5

\* The critical section of the writes S of the list l: the numbers it gives are
\* new, the revisions it gives were never given, and a document it writes is as
\* new as the write, unless the write cannot set its revision.
LEMMA ExecuteKeeps ==
    ASSUME TypeOK, OneStamp, DocsNumbered,
           NEW c \in Clients, NEW l, NEW n \in Nat, DOMAIN l = 1..n,
           NEW S \in SUBSET (1..n), Execute(c, l, S),
           DOMAIN list' = Clients,
           \A d \in Clients : DOMAIN list'[d] = DOMAIN list[d],
           \A d \in Clients : \A i \in DOMAIN list[d] :
              list'[d][i].rev = list[d][i].rev /\ list'[d][i].base = list[d][i].base
    PROVE  /\ docs' \in [AllKeys -> Docs]
           /\ curRevision' \in Nat
           /\ clock' \in Nat /\ clock <= clock'
           /\ known' \in [Clients -> [Keys -> Docs]]
           /\ OneStamp'
           /\ DocsNumbered'
           /\ DOMAIN num' = Clients
           /\ \A d \in Clients \ {c} : num'[d] = num[d]
           /\ DOMAIN num'[c] = DOMAIN l
           /\ \A i \in (1..n) \ S : num'[c][i] = num[c][i]
           /\ \A i \in S : num'[c][i] \in Nat /\ clock < num'[c][i] /\ num'[c][i] <= clock'
           /\ \A k \in AllKeys :
                \/ \E i \in S : l[i].key = k /\ (docs'[k] = Absent \/ docs'[k].ver = num'[c][i])
                \/ \E i \in S : l[i].key = k /\ Unset(l[i]) /\ docs'[k] = docs[k]
                \/ (\A i \in S : l[i].key # k) /\ docs'[k] = docs[k]
\* What Execute assigns, in terms of the numbers and revisions it gives out.
<1>0. /\ clock' = clock + Cardinality(S)
      /\ curRevision' = curRevision + Cardinality(Bumps(l, S))
      /\ docs' = [k \in AllKeys |-> docs'[k]]
      /\ \A k \in AllKeys :
           \/ \E i \in S : l[i].key = k /\ docs'[k] = Written(l[i], Tick(S, i), Rev(l, S, i))
           \/ (\A i \in S : l[i].key # k) /\ docs'[k] = docs[k]
      /\ known' = [known EXCEPT ![c] = known'[c]]
      /\ known'[c] = [k \in Keys |-> known'[c][k]]
      /\ \A k \in Keys :
           \/ \E i \in Bumps(l, S) : known'[c][k] = Copy(l, S, i)
           \/ known'[c][k] = known[c][k]
      /\ DOMAIN num' = Clients
      /\ \A d \in Clients \ {c} : num'[d] = num[d]
      /\ DOMAIN num'[c] = DOMAIN l
      /\ \A i \in DOMAIN l : num'[c][i] = IF i \in S THEN Tick(S, i) ELSE num[c][i]
  <2> USE DEF Tick, Bumps, Rev, Rank, Copy
  <2>1. /\ clock' = clock + Cardinality(S)
        /\ curRevision' = curRevision + Cardinality(Bumps(l, S))
    BY DEF Execute
  <2>2. docs' = [k \in AllKeys |->
                   IF \E i \in S : l[i].key = k
                   THEN LET i == CHOOSE j \in S : l[j].key = k
                        IN Written(l[i], Tick(S, i), Rev(l, S, i))
                   ELSE docs[k]]
    BY DEF Execute
  <2>3. known' = [known EXCEPT ![c] =
                    [k \in Keys |->
                       IF \E i \in Bumps(l, S) : l[i].key = k /\ ~Unset(l[i])
                       THEN LET i == CHOOSE j \in Bumps(l, S) : l[j].key = k /\ ~Unset(l[j])
                            IN Copy(l, S, i)
                       ELSE known[c][k]]]
    BY DEF Execute
  <2>4. num' = [num EXCEPT ![c] = [i \in DOMAIN l |-> IF i \in S THEN Tick(S, i) ELSE num[c][i]]]
    BY DEF Execute
  <2> USE DEF TypeOK
  <2>5. DOMAIN known = Clients /\ DOMAIN num = Clients
    OBVIOUS
  <2> HIDE DEF Tick, Bumps, Rev, Rank, Copy, TypeOK
  <2>6. docs' = [k \in AllKeys |-> docs'[k]]
    BY <2>2
  <2>7. ASSUME NEW k \in AllKeys
        PROVE  \/ \E i \in S : l[i].key = k /\ docs'[k] = Written(l[i], Tick(S, i), Rev(l, S, i))
               \/ (\A i \in S : l[i].key # k) /\ docs'[k] = docs[k]
    <3>1. CASE \E i \in S : l[i].key = k
      <4> DEFINE i == CHOOSE j \in S : l[j].key = k
      <4>1. i \in S /\ l[i].key = k
        BY <3>1
      <4>2. docs'[k] = Written(l[i], Tick(S, i), Rev(l, S, i))
        BY <2>2, <3>1
      <4> QED
        BY <4>1, <4>2
    <3>2. CASE ~\E i \in S : l[i].key = k
      BY <2>2, <3>2
    <3> QED
      BY <3>1, <3>2
  <2>8. known'[c] = [k \in Keys |->
                       IF \E i \in Bumps(l, S) : l[i].key = k /\ ~Unset(l[i])
                       THEN LET i == CHOOSE j \in Bumps(l, S) : l[j].key = k /\ ~Unset(l[j])
                            IN Copy(l, S, i)
                       ELSE known[c][k]]
    BY <2>3, <2>5
  <2>9. known' = [known EXCEPT ![c] = known'[c]]
    BY <2>3, <2>8
  <2>10. known'[c] = [k \in Keys |-> known'[c][k]]
    BY <2>8
  <2>11. ASSUME NEW k \in Keys
         PROVE  \/ \E i \in Bumps(l, S) : known'[c][k] = Copy(l, S, i)
                \/ known'[c][k] = known[c][k]
    <3>1. CASE \E i \in Bumps(l, S) : l[i].key = k /\ ~Unset(l[i])
      <4> DEFINE i == CHOOSE j \in Bumps(l, S) : l[j].key = k /\ ~Unset(l[j])
      <4>1. i \in Bumps(l, S)
        BY <3>1
      <4>2. known'[c][k] = Copy(l, S, i)
        BY <2>8, <3>1
      <4> QED
        BY <4>1, <4>2
    <3>2. CASE ~\E i \in Bumps(l, S) : l[i].key = k /\ ~Unset(l[i])
      BY <2>8, <3>2
    <3> QED
      BY <3>1, <3>2
  <2>12. /\ DOMAIN num' = Clients
         /\ \A d \in Clients \ {c} : num'[d] = num[d]
         /\ DOMAIN num'[c] = DOMAIN l
         /\ \A i \in DOMAIN l : num'[c][i] = IF i \in S THEN Tick(S, i) ELSE num[c][i]
    BY <2>4, <2>5
  <2> QED
    BY <2>1, <2>6, <2>7, <2>9, <2>10, <2>11, <2>12
<1>1. PICK T : T = Bumps(l, S)
  OBVIOUS
<1>2. T \in SUBSET (1..n) /\ T \subseteq S
  BY <1>1 DEF Bumps
<1>3. Cardinality(S) \in Nat /\ Cardinality(T) \in Nat
  BY <1>2, Ranks
<1>4. \A i \in S : Rank(S, i) \in 1..Cardinality(S)
  BY Ranks
<1>5. \A i \in T : Rank(T, i) \in 1..Cardinality(T)
  BY <1>2, Ranks
<1>6. \A i, k \in T : Rank(T, i) = Rank(T, k) => i = k
  BY <1>2, Ranks
<1>7. clock \in Nat /\ curRevision \in Nat
  BY DEF TypeOK
<1>8. clock' = clock + Cardinality(S) /\ curRevision' = curRevision + Cardinality(T)
  <2>1. clock' = clock + Cardinality(S) /\ curRevision' = curRevision + Cardinality(Bumps(l, S))
    BY <1>0
  <2> QED
    BY <1>1, <2>1
<1>9. clock' \in Nat /\ clock <= clock' /\ curRevision' \in Nat /\ curRevision <= curRevision'
  BY <1>3, <1>7, <1>8
<1>10. \A i \in S : Tick(S, i) \in Nat /\ clock < Tick(S, i) /\ Tick(S, i) <= clock'
  BY <1>3, <1>4, <1>7, <1>8 DEF Tick
<1>11. \A i \in T : /\ Rev(l, S, i) \in Nat /\ curRevision < Rev(l, S, i)
                    /\ Rev(l, S, i) <= curRevision'
  BY <1>1, <1>3, <1>5, <1>7, <1>8 DEF Rev
<1>12. \A i, k \in T : Rev(l, S, i) = Rev(l, S, k) => i = k
  BY <1>1, <1>3, <1>5, <1>6, <1>7 DEF Rev
<1>13. \A i \in S : Rev(l, S, i) \in Nat
  <2>1. ASSUME NEW i \in S PROVE Rank(T, i) \in Nat
    <3>1. PICK U : U = {j \in T : j <= i}
      OBVIOUS
    <3>2. U \in SUBSET (1..n)
      BY <1>2, <3>1
    <3> QED
      BY <3>1, <3>2, Ranks DEF Rank
  <2> QED
    BY <1>1, <1>7, <2>1 DEF Rev
\* The documents.
<1>14. ASSUME NEW k \in AllKeys
       PROVE  /\ docs'[k] \in Docs
              /\ docs'[k].ver <= clock'
              /\ \/ \E i \in S : l[i].key = k /\ (docs'[k] = Absent \/ docs'[k].ver = Tick(S, i))
                 \/ \E i \in S : l[i].key = k /\ Unset(l[i]) /\ docs'[k] = docs[k]
                 \/ (\A i \in S : l[i].key # k) /\ docs'[k] = docs[k]
              /\ \/ docs'[k].rev = NoRev
                 \/ docs'[k].rev = docs[k].rev /\ docs'[k].stamp = docs[k].stamp
                 \/ \E i \in T : docs'[k].rev = Rev(l, S, i) /\ docs'[k].stamp = Tick(S, i)
  <2>1. CASE \E i \in S : l[i].key = k /\ docs'[k] = Written(l[i], Tick(S, i), Rev(l, S, i))
    <3>1. PICK i \in S : l[i].key = k /\ docs'[k] = Written(l[i], Tick(S, i), Rev(l, S, i))
      BY <2>1
    <3>2. PICK a, t, r : a = l[i] /\ t = Tick(S, i) /\ r = Rev(l, S, i)
      OBVIOUS
    <3>3. t \in Nat /\ r \in Nat /\ a.key = k /\ docs'[k] = Written(a, t, r) /\ t <= clock'
      BY <1>10, <1>13, <3>1, <3>2
    <3>4. /\ Written(a, t, r) \in Docs
          /\ \/ Written(a, t, r) = Absent \/ Written(a, t, r).ver = t
             \/ Unset(a) /\ Written(a, t, r) = docs[a.key]
          /\ \/ Written(a, t, r).rev = NoRev
             \/ Written(a, t, r).rev = docs[a.key].rev /\ Written(a, t, r).stamp = docs[a.key].stamp
             \/ ChangesRevision(a) /\ Written(a, t, r).rev = r /\ Written(a, t, r).stamp = t
      BY <3>3, WrittenIs
    <3>5. ChangesRevision(a) => i \in T
      BY <1>1, <3>1, <3>2 DEF Bumps
    <3>7. docs[k] \in Docs /\ docs[k].ver \in Nat /\ docs[k].ver <= clock /\ Absent.ver = 0
      BY DEF TypeOK, DocsNumbered, Docs, Absent
    <3>6. docs'[k].ver <= clock'
      BY <1>7, <1>9, <3>3, <3>4, <3>7
    <3> QED
      BY <3>1, <3>2, <3>3, <3>4, <3>5, <3>6
  <2>2. CASE (\A i \in S : l[i].key # k) /\ docs'[k] = docs[k]
    <3>1. docs[k] \in Docs
      BY DEF TypeOK
    <3>2. docs[k].ver \in Nat /\ docs[k].ver <= clock
      BY <3>1 DEF Docs, DocsNumbered
    <3> QED
      BY <1>7, <1>9, <2>2, <3>1, <3>2
  <2>3. \/ \E i \in S : l[i].key = k /\ docs'[k] = Written(l[i], Tick(S, i), Rev(l, S, i))
        \/ (\A i \in S : l[i].key # k) /\ docs'[k] = docs[k]
    BY <1>0
  <2> QED
    BY <2>1, <2>2, <2>3, Zenon
<1>15. docs' \in [AllKeys -> Docs] /\ DocsNumbered'
  <2>1. docs' = [k \in AllKeys |-> docs'[k]]
    BY <1>0
  <2> QED
    BY <1>14, <2>1 DEF DocsNumbered
\* The revisions that the callers know.
<1>16. ASSUME NEW d \in Clients, NEW k \in Keys
       PROVE  /\ known'[d][k] \in Docs
              /\ \/ known'[d][k] = known[d][k]
                 \/ \E i \in T : known'[d][k].rev = Rev(l, S, i) /\ known'[d][k].stamp = Tick(S, i)
  <2>1. known[d][k] \in Docs
    BY DEF TypeOK
  <2>2. CASE d # c
    <3>1. known' = [known EXCEPT ![c] = known'[c]] /\ DOMAIN known = Clients
      BY <1>0 DEF TypeOK
    <3>2. known'[d] = known[d]
      BY <2>2, <3>1
    <3> QED
      BY <2>1, <3>2
  <2>3. CASE d = c
    <3>1. \/ \E i \in T : known'[d][k] = Copy(l, S, i)
          \/ known'[d][k] = known[d][k]
      <4>1. \/ \E i \in Bumps(l, S) : known'[c][k] = Copy(l, S, i)
            \/ known'[c][k] = known[c][k]
        BY <1>0
      <4> QED
        BY <1>1, <2>3, <4>1
    <3>2. CASE known'[d][k] = known[d][k]
      BY <2>1, <3>2
    <3>3. CASE \E i \in T : known'[d][k] = Copy(l, S, i)
      <4>1. PICK i \in T : known'[d][k] = Copy(l, S, i)
        BY <3>3
      <4>2. Rev(l, S, i) \in Nat /\ Tick(S, i) \in Nat
        BY <1>2, <1>10, <1>11
      <4> QED
        BY <4>1, <4>2 DEF Copy, Docs
    <3> QED
      BY <3>1, <3>2, <3>3
  <2> QED
    BY <2>2, <2>3
<1>17. known' \in [Clients -> [Keys -> Docs]]
  <2>1. known' = [known EXCEPT ![c] = known'[c]] /\ known'[c] = [k \in Keys |-> known'[c][k]]
    BY <1>0
  <2>2. known \in [Clients -> [Keys -> Docs]]
    BY DEF TypeOK
  <2>3. known'[c] \in [Keys -> Docs]
    BY <1>16, <2>1
  <2> QED
    BY <2>1, <2>2, <2>3
\* Every revision is an old one, or one that this critical section has given.
<1>18. ASSUME NEW r, NEW s, Given(r, s)'
       PROVE  r = NoRev \/ Given(r, s) \/ \E i \in T : r = Rev(l, S, i) /\ s = Tick(S, i)
  <2>1. CASE \E k \in AllKeys : docs'[k].rev = r /\ docs'[k].stamp = s
    BY <1>14, <2>1 DEF Given
  <2>2. CASE \E d \in Clients, k \in Keys : known'[d][k].rev = r /\ known'[d][k].stamp = s
    BY <1>16, <2>2 DEF Given
  <2>3. CASE \E d \in Clients : \E i \in DOMAIN list'[d] : list'[d][i].rev = r /\ list'[d][i].base = s
    BY <2>3 DEF Given
  <2> QED
    BY <1>18, <2>1, <2>2, <2>3 DEF Given
<1>19. OneStamp'
  <2>1. ASSUME NEW r, NEW s, Given(r, s)' PROVE r \in Nat /\ r <= curRevision'
    <3>1. CASE r = NoRev
      BY <1>9, <3>1 DEF NoRev
    <3>2. CASE Given(r, s)
      BY <1>7, <1>9, <3>2 DEF OneStamp
    <3>3. CASE \E i \in T : r = Rev(l, S, i) /\ s = Tick(S, i)
      BY <1>11, <3>3
    <3> QED
      BY <2>1, <1>18, <3>1, <3>2, <3>3
  <2>2. ASSUME NEW r, NEW s, NEW t, r # NoRev, Given(r, s)', Given(r, t)' PROVE s = t
    <3>1. CASE Given(r, s) /\ Given(r, t)
      BY <2>2, <3>1 DEF OneStamp
    <3>2. ASSUME NEW u, Given(r, u) PROVE \A i \in T : r # Rev(l, S, i)
      <4>1. r \in Nat /\ r <= curRevision
        BY <3>2 DEF OneStamp
      <4> QED
        BY <1>7, <1>11, <4>1
    <3>3. CASE ~Given(r, s) /\ ~Given(r, t)
      <4>1. PICK i \in T : r = Rev(l, S, i) /\ s = Tick(S, i)
        BY <1>18, <2>2, <3>3
      <4>2. PICK j \in T : r = Rev(l, S, j) /\ t = Tick(S, j)
        BY <1>18, <2>2, <3>3
      <4> QED
        BY <1>12, <4>1, <4>2
    <3> QED
      BY <1>18, <2>2, <3>1, <3>2, <3>3
  <2> QED
    BY <2>1, <2>2 DEF OneStamp
<1>20. /\ \A i \in (1..n) \ S : num'[c][i] = num[c][i]
       /\ \A i \in S : num'[c][i] = Tick(S, i)
  BY <1>0
<1>21. ASSUME NEW k \in AllKeys
       PROVE  \/ \E i \in S : l[i].key = k /\ (docs'[k] = Absent \/ docs'[k].ver = num'[c][i])
              \/ \E i \in S : l[i].key = k /\ Unset(l[i]) /\ docs'[k] = docs[k]
              \/ (\A i \in S : l[i].key # k) /\ docs'[k] = docs[k]
  BY <1>14, <1>20
<1> QED
  BY <1>9, <1>10, <1>15, <1>17, <1>19, <1>20, <1>21, <1>0

-----------------------------------------------------------------------------
(* The steps that write no document *)

\* A caller whose list is not touched, whoever writes documents meanwhile.
LEMMA Bystander ==
    ASSUME IInv, NEW d \in Clients,
           list'[d] = list[d], group'[d] = group[d], gpc'[d] = gpc[d], errs'[d] = errs[d],
           num'[d] = num[d], pc'[d] = pc[d],
           unique' \in Nat, unique <= unique', clock' \in Nat, clock <= clock',
           docs' \in [AllKeys -> Docs],
           \A k \in AllKeys : docs'[k] = docs[k] \/ docs'[k] = Absent \/ docs'[k].ver > clock
    PROVE  ListOK(d)'
<1>1. ListOK(d) /\ unique \in Nat /\ clock \in Nat
  BY DEF IInv, TypeOK
<1>2. ActionsOK(d)' /\ WritesDiffer(d)' /\ GroupsOK(d)'
  <2>1. \A i \in DOMAIN list[d] : KeyOK(list[d][i]) => KeyOK(list[d][i])'
    BY <1>1 DEF KeyOK
  <2> QED
    BY <1>1, <2>1 DEF ListOK, ActionsOK, WritesDiffer, GroupsOK
<1>3. InTurn(d)' /\ InOrder(d)'
  BY <1>1 DEF ListOK, InTurn, InOrder, UnderWay, NotDone
<1>4. Numbered(d)'
  BY <1>1 DEF ListOK, Numbered
<1>5. Newest(d)'
  <2> SUFFICES ASSUME NEW i \in DOMAIN list[d],
                      ~IsGet(list[d][i]), errs[d][i] = "ok", list[d][i].key \in AllKeys
               PROVE  docs'[list[d][i].key] = Absent \/ docs'[list[d][i].key].ver >= num[d][i]
    BY DEF Newest
  <2>1. PICK k \in AllKeys : k = list[d][i].key
    OBVIOUS
  <2>2. docs[k] = Absent \/ docs[k].ver >= num[d][i]
    BY <1>1, <2>1 DEF ListOK, Newest
  <2>3. num[d][i] \in Nat /\ num[d][i] <= clock
    BY <1>1 DEF ListOK, Numbered
  <2>4. docs'[k].ver \in Nat
    BY DEF Docs
  <2> QED
    BY <1>1, <2>1, <2>2, <2>3, <2>4
<1> QED
  BY <1>2, <1>3, <1>4, <1>5 DEF ListOK

\* A step of the goroutines of c that writes no document and with which no action
\* succeeds.
LEMMA StepQuiet ==
    ASSUME IInv, NEW c \in Clients, UNCHANGED <<storeVars, list, group, num>>,
           DOMAIN gpc' = Clients, DOMAIN errs' = Clients, DOMAIN pc' = Clients,
           \A d \in Clients \ {c} : gpc'[d] = gpc[d] /\ errs'[d] = errs[d] /\ pc'[d] = pc[d],
           DOMAIN gpc'[c] = DOMAIN gpc[c], DOMAIN errs'[c] = DOMAIN errs[c],
           \A i \in DOMAIN list[c] : errs'[c][i] = "ok" => errs[c][i] = "ok",
           InTurn(c)'
    PROVE  IInv'
<1>1. TypeOK' /\ DocsNumbered'
  BY DEF IInv, TypeOK, DocsNumbered, storeVars
<1>2. OneStamp'
  BY DEF IInv, OneStamp, Given, storeVars
<1>3. ListOK(c)'
  BY DEF IInv, ListOK, ActionsOK, KeyOK, WritesDiffer, GroupsOK, Numbered, Newest, InOrder, storeVars
<1>4. ASSUME NEW d \in Clients \ {c} PROVE ListOK(d)'
  <2>1. unique \in Nat /\ clock \in Nat /\ docs \in [AllKeys -> Docs] /\ UNCHANGED <<unique, clock, docs>>
    BY DEF IInv, TypeOK, storeVars
  <2> QED
    BY <2>1, Bystander
<1> QED
  BY <1>1, <1>2, <1>3, <1>4 DEF IInv

\* While the atomic writes run, no goroutine of the list does.
LEMMA AtomicIdle ==
    ASSUME NEW c \in Clients, TypeOK, ListOK(c), pc[c] = "atomic", NEW i \in DOMAIN list[c]
    PROVE  gpc[c][i] \in {"none", "done"}
<1> SUFFICES ASSUME gpc[c][i] # "none", gpc[c][i] # "done" PROVE FALSE
  OBVIOUS
<1>1. PICK j \in UnderWay(c) : group[c][j] = WritesTx
  BY DEF ListOK, InTurn
<1>2. j \in DOMAIN list[c] /\ gpc[c][j] # "done" /\ group[c][j] <= group[c][i]
  BY <1>1 DEF UnderWay, NotDone
<1>3. group[c][i] \in 1..5 /\ group[c][j] \in 1..5
  BY <1>2 DEF ListOK, GroupsOK, BeforeGets, Gets, AfterGets, Writes, WritesTx
<1>4. ~(group[c][j] < group[c][i])
  BY <1>2 DEF ListOK, InTurn
<1> QED
  BY <1>1, <1>2, <1>3, <1>4 DEF ListOK, InTurn

\* The goroutine of an action goes on to state g: what is in turn stays so.
LEMMA TurnGoes ==
    ASSUME NEW c \in Clients, TypeOK, ListOK(c), NEW i \in DOMAIN list[c],
           UNCHANGED <<group, pc>>,
           DOMAIN list'[c] = DOMAIN list[c],
           gpc[c][i] \notin {"none", "done"}, NEW g \in {"lock", "release", "done"},
           gpc' = [gpc EXCEPT ![c][i] = g],
           \A j \in DOMAIN list[c] : j # i => errs'[c][j] = errs[c][j],
           errs'[c][i] = "ok" => g \in {"release", "done"}
    PROVE  InTurn(c)'
<1>1. DOMAIN gpc = Clients /\ i \in DOMAIN gpc[c] /\ InTurn(c)
  BY DEF TypeOK, ListOK
<1>2. \A j \in DOMAIN list[c] : gpc'[c][j] = IF j = i THEN g ELSE gpc[c][j]
  BY <1>1
<1>3. pc[c] # "atomic"
  BY AtomicIdle
<1>4. ASSUME NEW j \in DOMAIN list[c], NEW k \in DOMAIN list[c],
             gpc'[c][j] # "none", group[c][k] < group[c][j]
      PROVE  gpc'[c][k] = "done"
  <2>1. gpc[c][j] # "none"
    BY <1>2, <1>4
  <2>2. gpc[c][k] = "done"
    BY <1>1, <1>4, <2>1 DEF InTurn
  <2> QED
    BY <1>2, <2>2
<1>5. ASSUME NEW j \in DOMAIN list[c], errs'[c][j] = "ok" PROVE gpc'[c][j] \in {"release", "done"}
  BY <1>1, <1>2, <1>5 DEF InTurn
<1>6. ASSUME NEW j \in DOMAIN list[c], group[c][j] = WritesTx PROVE gpc'[c][j] \in {"none", "done"}
  BY <1>1, <1>2, <1>6 DEF InTurn
<1> QED
  BY <1>3, <1>4, <1>5, <1>6 DEF InTurn

\* t.Acquire() and go.
LEMMA StepSpawn ==
    ASSUME IInv, NEW c \in Clients, NEW i \in DOMAIN list[c], Spawn(c, i) PROVE IInv'
<1>1. /\ UNCHANGED <<storeVars, list, group, num, errs, pc>> /\ gpc' = [gpc EXCEPT ![c][i] = "check"]
      /\ pc[c] = "running" /\ i \in UnderWay(c) /\ group[c][i] # WritesTx /\ gpc[c][i] = "none"
  BY DEF Spawn
<1>2. DOMAIN gpc = Clients /\ i \in DOMAIN gpc[c] /\ DOMAIN errs = Clients /\ DOMAIN pc = Clients /\ ListOK(c)
  BY DEF IInv, TypeOK
<1>3. DOMAIN gpc' = Clients /\ DOMAIN gpc'[c] = DOMAIN gpc[c] /\ \A d \in Clients \ {c} : gpc'[d] = gpc[d]
  BY <1>1, <1>2
<1>4. \A j \in DOMAIN list[c] : gpc'[c][j] = IF j = i THEN "check" ELSE gpc[c][j]
  BY <1>1, <1>2
<1>5. \A j \in DOMAIN list[c] : group[c][j] \in 1..5
  BY <1>2 DEF ListOK, GroupsOK, BeforeGets, Gets, AfterGets, Writes, WritesTx
<1>6. \A j \in DOMAIN list[c] : group[c][j] < group[c][i] => gpc[c][j] = "done"
  BY <1>1, <1>5 DEF UnderWay, NotDone
<1>7. InTurn(c)'
  <2>1. ASSUME NEW j \in DOMAIN list[c], NEW k \in DOMAIN list[c],
               gpc'[c][j] # "none", group[c][k] < group[c][j]
        PROVE  gpc'[c][k] = "done"
    <3>1. gpc[c][k] = "done"
      BY <1>2, <1>4, <1>6, <2>1 DEF ListOK, InTurn
    <3> QED
      BY <1>1, <1>4, <3>1
  <2>2. \A j \in DOMAIN list[c] : errs[c][j] = "ok" => gpc'[c][j] \in {"release", "done"}
    BY <1>1, <1>2, <1>4 DEF ListOK, InTurn
  <2>3. \A j \in DOMAIN list[c] : group[c][j] = WritesTx => gpc'[c][j] \in {"none", "done"}
    BY <1>1, <1>2, <1>4 DEF ListOK, InTurn
  <2> QED
    BY <1>1, <2>1, <2>2, <2>3 DEF InTurn
<1> QED
  BY <1>1, <1>2, <1>3, <1>7, StepQuiet

\* runAction finds the context done or not, or an action fails, or a token is
\* released.
LEMMA StepGoes ==
    ASSUME IInv, NEW c \in Clients, NEW i \in DOMAIN list[c], NEW e, e # "ok",
           UNCHANGED <<storeVars, list, group, num, pc>>,
           gpc[c][i] \notin {"none", "done"}, NEW g \in {"lock", "release", "done"},
           gpc' = [gpc EXCEPT ![c][i] = g],
           \/ UNCHANGED errs /\ (g = "lock" => gpc[c][i] = "check")
           \/ errs' = [errs EXCEPT ![c][i] = e]
    PROVE  IInv'
<1>1. /\ DOMAIN gpc = Clients /\ DOMAIN errs = Clients /\ DOMAIN pc = Clients /\ TypeOK /\ ListOK(c)
      /\ i \in DOMAIN gpc[c] /\ DOMAIN list[c] \subseteq DOMAIN errs[c]
  BY DEF IInv, TypeOK
<1>2. DOMAIN gpc' = Clients /\ DOMAIN gpc'[c] = DOMAIN gpc[c] /\ \A d \in Clients \ {c} : gpc'[d] = gpc[d]
  BY <1>1
<1>3. DOMAIN errs' = Clients /\ DOMAIN errs'[c] = DOMAIN errs[c] /\ \A d \in Clients \ {c} : errs'[d] = errs[d]
  BY <1>1
<1>4. \A j \in DOMAIN list[c] : j # i => errs'[c][j] = errs[c][j]
  BY <1>1
<1>5. errs'[c][i] = "ok" => errs[c][i] = "ok" /\ (g = "lock" => gpc[c][i] = "check")
  BY <1>1
<1>6. errs[c][i] = "ok" => gpc[c][i] # "check"
  BY <1>1 DEF ListOK, InTurn
<1>7. errs'[c][i] = "ok" => g \in {"release", "done"}
  BY <1>5, <1>6
<1>8. InTurn(c)'
  BY <1>1, <1>4, <1>7, TurnGoes
<1> QED
  BY <1>1, <1>2, <1>3, <1>4, <1>5, <1>8, StepQuiet

\* All actions of the group end with an error.
LEMMA StepAllFail ==
    ASSUME IInv, NEW c \in Clients, NEW e, e # "ok", AllEnd(c, UnderWay(c), e),
           UNCHANGED <<storeVars, list, group, num>>,
           DOMAIN pc' = Clients, pc'[c] # "atomic", \A d \in Clients \ {c} : pc'[d] = pc[d]
    PROVE  IInv'
<1>1. PICK T : T = UnderWay(c)
  OBVIOUS
<1>2. /\ errs' = [errs EXCEPT ![c] = [i \in DOMAIN errs[c] |-> IF i \in T THEN e ELSE errs[c][i]]]
      /\ gpc' = [gpc EXCEPT ![c] = [i \in DOMAIN gpc[c] |-> IF i \in T THEN "done" ELSE gpc[c][i]]]
  BY <1>1 DEF AllEnd
<1>3. /\ DOMAIN gpc = Clients /\ DOMAIN errs = Clients /\ DOMAIN list[c] \subseteq DOMAIN gpc[c]
      /\ DOMAIN list[c] \subseteq DOMAIN errs[c] /\ ListOK(c)
  BY DEF IInv, TypeOK
<1>4. DOMAIN gpc' = Clients /\ DOMAIN gpc'[c] = DOMAIN gpc[c] /\ \A d \in Clients \ {c} : gpc'[d] = gpc[d]
  BY <1>2, <1>3
<1>5. DOMAIN errs' = Clients /\ DOMAIN errs'[c] = DOMAIN errs[c] /\ \A d \in Clients \ {c} : errs'[d] = errs[d]
  BY <1>2, <1>3
<1>6. \A i \in DOMAIN list[c] : /\ errs'[c][i] = IF i \in T THEN e ELSE errs[c][i]
                                /\ gpc'[c][i] = IF i \in T THEN "done" ELSE gpc[c][i]
  BY <1>2, <1>3
<1>7. \A j \in DOMAIN list[c] : group[c][j] \in 1..5
  BY <1>3 DEF ListOK, GroupsOK, BeforeGets, Gets, AfterGets, Writes, WritesTx
<1>8. \A i \in T, j \in DOMAIN list[c] :
         i \in DOMAIN list[c] /\ (group[c][j] < group[c][i] => gpc[c][j] = "done")
  BY <1>1, <1>7 DEF UnderWay, NotDone
<1>9. InTurn(c)'
  <2>1. ASSUME NEW j \in DOMAIN list[c], NEW k \in DOMAIN list[c],
               gpc'[c][j] # "none", group[c][k] < group[c][j]
        PROVE  gpc'[c][k] = "done"
    <3>1. gpc[c][k] = "done"
      BY <1>3, <1>6, <1>8, <2>1 DEF ListOK, InTurn
    <3> QED
      BY <1>6, <3>1
  <2>2. \A j \in DOMAIN list[c] : errs'[c][j] = "ok" => gpc'[c][j] \in {"release", "done"}
    BY <1>3, <1>6 DEF ListOK, InTurn
  <2>3. \A j \in DOMAIN list[c] : group[c][j] = WritesTx => gpc'[c][j] \in {"none", "done"}
    BY <1>3, <1>6 DEF ListOK, InTurn
  <2> QED
    BY <2>1, <2>2, <2>3 DEF InTurn
<1> QED
  BY <1>4, <1>5, <1>6, <1>9, StepQuiet

-----------------------------------------------------------------------------
(* Do, up to the first group *)

\* The driver action of a's document, and the revision it carries.
LEMMA ToDriver ==
    ASSUME TypeOK, NEW c \in Clients, NEW a \in Actions
    PROVE  LET b == ToDriverAction(c, a) IN
           /\ DOMAIN b = Fields
           /\ b.key = a.key
           /\ IsGet(b) <=> IsGet(a)
           /\ b.kind = "Create" <=> a.kind = "Create"
           /\ b.rev = RevOf(c, a)
           /\ b.rev = NoRev \/ Given(b.rev, b.base)
<1> DEFINE b == ToDriverAction(c, a)
<1>1. /\ b.key = a.key /\ b.rev = RevOf(c, a)
      /\ b.kind = IF a.kind = "Put" /\ RevOf(c, a) # NoRev THEN "Replace" ELSE a.kind
      /\ b.base = IF RevOf(c, a) = NoRev THEN 0 ELSE known[c][a.key].stamp
  BY DEF ToDriverAction
<1>2. ASSUME RevOf(c, a) # NoRev PROVE Given(b.rev, b.base)
  <2>1. a.key \in Keys /\ b.rev = known[c][a.key].rev /\ b.base = known[c][a.key].stamp
    BY <1>1, <1>2 DEF RevOf
  <2> HIDE DEF b
  <2> QED
    BY <2>1 DEF Given
<1>5. DOMAIN b = Fields
  BY DEF ToDriverAction, Fields
<1> HIDE DEF b
<1>3. IsGet(b) <=> IsGet(a)
  BY <1>1 DEF IsGet
<1>4. b.kind = "Create" <=> a.kind = "Create"
  BY <1>1
<1> QED
  BY <1>1, <1>2, <1>3, <1>4, <1>5 DEF b

\* A list that is not refused is grouped as its gets and writes are ordered.
LEMMA StepDoCall ==
    ASSUME IInv, NEW c \in Clients, DoCall(c) PROVE IInv'
<1>1. UNCHANGED storeVars /\ TypeOK /\ ListOK(c) /\ pc[c] = "idle"
  BY DEF DoCall, IInv
<1>2. UNCHANGED <<docs, curRevision, unique, known, clock>>
  BY <1>1 DEF storeVars
<1>3. PICK l \in Lists[c] :
         LET all(v) == [i \in DOMAIN l |-> v] IN
         IF Refused(c, l)
         THEN /\ list' = [list EXCEPT ![c] = <<>>]
              /\ gpc' = [gpc EXCEPT ![c] = <<>>]
              /\ UNCHANGED <<pc, group, errs, num>>
         ELSE /\ list' = [list EXCEPT ![c] = [i \in DOMAIN l |-> ToDriverAction(c, l[i])]]
              /\ group' = [group EXCEPT ![c] = [i \in DOMAIN l |-> GroupOf(l, i)]]
              /\ num' = [num EXCEPT ![c] = all(0)]
              /\ \/ /\ pc' = [pc EXCEPT ![c] = "running"]
                    /\ gpc' = [gpc EXCEPT ![c] = all("none")]
                    /\ errs' = [errs EXCEPT ![c] = all("none")]
                 \/ /\ gpc' = [gpc EXCEPT ![c] = all("done")]
                    /\ errs' = [errs EXCEPT ![c] = all("BeforeDoError")]
                    /\ UNCHANGED pc
  BY DEF DoCall
<1>4. PICK n \in Nat : DOMAIN l = 1..n /\ Len(l) = n /\ \A i \in 1..n : l[i] \in Actions
  <2>1. l \in Seq(Actions)
    BY DocStoreAssumption
  <2> QED
    BY <2>1
<1>5. /\ DOMAIN list = Clients /\ DOMAIN group = Clients /\ DOMAIN gpc = Clients
      /\ DOMAIN errs = Clients /\ DOMAIN num = Clients /\ DOMAIN pc = Clients
  BY <1>1 DEF TypeOK
\* The lists of the others.
<1>6. /\ list' = [d \in Clients |-> list'[d]] /\ DOMAIN group' = Clients /\ DOMAIN gpc' = Clients
      /\ DOMAIN errs' = Clients /\ DOMAIN num' = Clients /\ DOMAIN pc' = Clients
      /\ \A d \in Clients \ {c} :
           /\ list'[d] = list[d] /\ group'[d] = group[d] /\ gpc'[d] = gpc[d]
           /\ errs'[d] = errs[d] /\ num'[d] = num[d] /\ pc'[d] = pc[d]
  BY <1>3, <1>5
<1>7. ASSUME NEW d \in Clients \ {c} PROVE ListOK(d)'
  <2>1. unique \in Nat /\ clock \in Nat /\ docs \in [AllKeys -> Docs]
    BY <1>1 DEF TypeOK
  <2> QED
    BY <1>2, <1>6, <2>1, Bystander
<1>8. SUFFICES /\ \E m \in Nat : DOMAIN list'[c] = 1..m
               /\ DOMAIN list'[c] \subseteq DOMAIN group'[c]
               /\ DOMAIN list'[c] \subseteq DOMAIN gpc'[c]
               /\ DOMAIN list'[c] \subseteq DOMAIN errs'[c]
               /\ DOMAIN list'[c] \subseteq DOMAIN num'[c]
               /\ \A i \in DOMAIN list'[c] :
                    list'[c][i].rev = NoRev \/ Given(list'[c][i].rev, list'[c][i].base)
               /\ ListOK(c)'
  <2>1. TypeOK'
    <3>1. ASSUME NEW d \in Clients
          PROVE  /\ \E m \in Nat : DOMAIN list'[d] = 1..m
                 /\ DOMAIN list'[d] \subseteq DOMAIN group'[d]
                 /\ DOMAIN list'[d] \subseteq DOMAIN gpc'[d]
                 /\ DOMAIN list'[d] \subseteq DOMAIN errs'[d]
                 /\ DOMAIN list'[d] \subseteq DOMAIN num'[d]
      <4>1. CASE d = c
        BY <1>8, <4>1
      <4>2. CASE d # c
        BY <1>1, <1>6, <4>2 DEF TypeOK
      <4> QED
        BY <4>1, <4>2
    <3>2. /\ docs' \in [AllKeys -> Docs] /\ curRevision' \in Nat /\ unique' \in Nat /\ clock' \in Nat
          /\ known' \in [Clients -> [Keys -> Docs]]
      BY <1>1, <1>2 DEF TypeOK
    <3> QED
      BY <1>6, <3>1, <3>2 DEF TypeOK
  <2>2. DocsNumbered'
    BY <1>2 DEF IInv, DocsNumbered
  <2>3. ASSUME NEW r, NEW s, Given(r, s)' PROVE r = NoRev \/ Given(r, s)
    <3>1. CASE \E k \in AllKeys : docs[k].rev = r /\ docs[k].stamp = s
      BY <3>1 DEF Given
    <3>2. CASE \E d \in Clients, k \in Keys : known[d][k].rev = r /\ known[d][k].stamp = s
      BY <3>2 DEF Given
    <3>3. CASE \E i \in DOMAIN list'[c] : list'[c][i].rev = r /\ list'[c][i].base = s
      BY <1>8, <3>3
    <3>4. CASE \E d \in Clients \ {c} : \E i \in DOMAIN list'[d] : list'[d][i].rev = r /\ list'[d][i].base = s
      BY <1>6, <3>4 DEF Given
    <3> QED
      BY <1>2, <2>3, <3>1, <3>2, <3>3, <3>4 DEF Given
  <2>4. OneStamp'
    <3>1. OneStamp /\ curRevision' = curRevision /\ curRevision \in Nat
      BY <1>1, <1>2 DEF IInv, TypeOK
    <3>2. ASSUME NEW r, NEW s, Given(r, s)' PROVE r \in Nat /\ r <= curRevision'
      BY <2>3, <3>1, <3>2 DEF OneStamp, NoRev
    <3>3. ASSUME NEW r, NEW s, NEW t, r # NoRev, Given(r, s)', Given(r, t)' PROVE s = t
      BY <2>3, <3>1, <3>3 DEF OneStamp
    <3> QED
      BY <3>2, <3>3 DEF OneStamp
  <2> QED
    BY <1>7, <1>8, <2>1, <2>2, <2>4 DEF IInv
<1>9. CASE Refused(c, l)
  <2>1. list'[c] = <<>> /\ DOMAIN list'[c] = {} /\ pc'[c] = "idle"
    BY <1>1, <1>3, <1>5, <1>9
  <2>2. {} = 1..0
    OBVIOUS
  <2>3. ListOK(c)'
    BY <2>1 DEF ListOK, ActionsOK, WritesDiffer, GroupsOK, InTurn, Numbered, Newest, InOrder
  <2> QED
    BY <2>1, <2>2, <2>3
<1>10. CASE ~Refused(c, l)
  <2>1. /\ list'[c] = [i \in 1..n |-> ToDriverAction(c, l[i])]
        /\ group'[c] = [i \in 1..n |-> GroupOf(l, i)]
        /\ num'[c] = [i \in 1..n |-> 0]
        /\ DOMAIN gpc'[c] = 1..n /\ DOMAIN errs'[c] = 1..n
        /\ pc'[c] # "atomic"
        /\ \A i \in 1..n : errs'[c][i] # "ok"
        /\ (\A i \in 1..n : gpc'[c][i] = "none") \/ (\A i \in 1..n : gpc'[c][i] = "done")
    <3>1. /\ list'[c] = [i \in 1..n |-> ToDriverAction(c, l[i])]
          /\ group'[c] = [i \in 1..n |-> GroupOf(l, i)]
          /\ num'[c] = [i \in 1..n |-> 0]
      BY <1>3, <1>4, <1>5, <1>10
    <3>2. \/ pc'[c] = "running" /\ gpc'[c] = [i \in 1..n |-> "none"] /\ errs'[c] = [i \in 1..n |-> "none"]
          \/ pc'[c] = pc[c] /\ gpc'[c] = [i \in 1..n |-> "done"] /\ errs'[c] = [i \in 1..n |-> "BeforeDoError"]
      <4>1. \/ /\ pc' = [pc EXCEPT ![c] = "running"]
               /\ gpc' = [gpc EXCEPT ![c] = [i \in DOMAIN l |-> "none"]]
               /\ errs' = [errs EXCEPT ![c] = [i \in DOMAIN l |-> "none"]]
            \/ /\ gpc' = [gpc EXCEPT ![c] = [i \in DOMAIN l |-> "done"]]
               /\ errs' = [errs EXCEPT ![c] = [i \in DOMAIN l |-> "BeforeDoError"]]
               /\ UNCHANGED pc
        BY <1>3, <1>10
      <4>2. CASE /\ pc' = [pc EXCEPT ![c] = "running"]
                 /\ gpc' = [gpc EXCEPT ![c] = [i \in DOMAIN l |-> "none"]]
                 /\ errs' = [errs EXCEPT ![c] = [i \in DOMAIN l |-> "none"]]
        BY <1>4, <1>5, <4>2
      <4>3. CASE /\ gpc' = [gpc EXCEPT ![c] = [i \in DOMAIN l |-> "done"]]
                 /\ errs' = [errs EXCEPT ![c] = [i \in DOMAIN l |-> "BeforeDoError"]]
                 /\ UNCHANGED pc
        BY <1>4, <1>5, <4>3
      <4> QED
        BY <4>1, <4>2, <4>3
    <3> QED
      BY <1>1, <3>1, <3>2
  <2>2. ASSUME NEW i \in 1..n
        PROVE  /\ DOMAIN list'[c][i] = Fields
               /\ list'[c][i].key = l[i].key
               /\ IsGet(list'[c][i]) <=> IsGet(l[i])
               /\ list'[c][i].kind = "Create" <=> l[i].kind = "Create"
               /\ list'[c][i].rev = RevOf(c, l[i])
               /\ list'[c][i].rev = NoRev \/ Given(list'[c][i].rev, list'[c][i].base)
    <3>1. l[i] \in Actions /\ list'[c][i] = ToDriverAction(c, l[i])
      BY <1>4, <2>1
    <3> QED
      BY <1>1, <3>1, ToDriver
  <2>3. /\ \A i \in 1..n : l[i].key = NilKey => l[i].kind = "Create"
        /\ \A i \in 1..n : l[i].kind = "Create" => RevOf(c, l[i]) = NoRev
        /\ \A i \in 1..n : \A j \in 1..(i - 1) :
             l[j].key = l[i].key /\ ~IsGet(l[j]) /\ ~IsGet(l[i]) => l[i].key = NilKey
    BY <1>4, <1>10 DEF Refused, IsGet
  <2>4. \A i \in 1..n : l[i].key \in Keys \cup {NilKey}
    BY <1>4 DEF Actions
  <2>5. ActionsOK(c)'
    <3>1. ASSUME NEW i \in 1..n
          PROVE  /\ DOMAIN list'[c][i] = Fields
                 /\ list'[c][i].key \in Keys \cup {NilKey}
                 /\ IsGet(list'[c][i]) => list'[c][i].key \in Keys
                 /\ list'[c][i].kind = "Create" => list'[c][i].rev = NoRev
      <4>1. list'[c][i].key \in Keys \cup {NilKey}
        BY <2>2, <2>4
      <4>2. IsGet(l[i]) => l[i].key \in Keys
        BY <2>3, <2>4 DEF IsGet
      <4> QED
        BY <2>2, <2>3, <4>1, <4>2
    <3> QED
      BY <2>1, <3>1 DEF ActionsOK, KeyOK
  <2>6. WritesDiffer(c)'
    <3>1. ASSUME NEW i \in 1..n, NEW j \in 1..n, ~IsGet(l[i]), ~IsGet(l[j]), i # j, l[i].key = l[j].key
          PROVE  l[i].key = NilKey
      <4>1. i \in 1..(j - 1) \/ j \in 1..(i - 1)
        BY <3>1
      <4> QED
        BY <2>3, <3>1, <4>1
    <3> QED
      BY <2>1, <2>2, <3>1 DEF WritesDiffer
  <2>7. GroupsOK(c)'
    <3>1. ASSUME NEW i \in 1..n
          PROVE  GroupOf(l, i) \in (IF IsGet(l[i]) THEN {BeforeGets, Gets, AfterGets} ELSE {Writes, WritesTx})
      BY DEF GroupOf
    <3>2. ASSUME NEW i \in 1..n, NEW j \in 1..n, IsGet(l[i]), ~IsGet(l[j]), l[i].key = l[j].key
          PROVE  GroupOf(l, i) = IF i < j THEN BeforeGets ELSE AfterGets
      <4>1. i # j
        BY <3>2
      <4>2. CASE j < i
        <5>1. j \in 1..(i - 1)
          BY <4>2
        <5> QED
          BY <3>2, <4>2, <5>1 DEF GroupOf
      <4>3. CASE i < j
        <5>1. j \in (i + 1)..Len(l)
          BY <1>4, <4>3
        <5>2. ASSUME NEW k \in 1..(i - 1), ~IsGet(l[k]), l[k].key = l[i].key PROVE FALSE
          <6>1. k \in 1..(j - 1) /\ k \in 1..n
            BY <4>3, <5>2
          <6>2. l[j].key = NilKey
            BY <2>3, <3>2, <5>2, <6>1
          <6>3. l[i].kind = "Create"
            BY <2>3, <3>2, <6>2
          <6> QED
            BY <3>2, <6>3 DEF IsGet
        <5> QED
          BY <3>2, <4>3, <5>1, <5>2 DEF GroupOf
      <4> QED
        BY <4>1, <4>2, <4>3
    <3> QED
      BY <2>1, <2>2, <3>1, <3>2 DEF GroupsOK
  <2>8. InTurn(c)'
    BY <2>1 DEF InTurn
  <2>9. Numbered(c)' /\ Newest(c)' /\ InOrder(c)'
    <3>1. clock' \in Nat
      BY <1>1, <1>2 DEF TypeOK
    <3> QED
      BY <2>1, <3>1 DEF Numbered, Newest, InOrder
  <2> QED
    BY <2>1, <2>2, <2>5, <2>6, <2>7, <2>8, <2>9 DEF ListOK
<1> QED
  BY <1>9, <1>10

-----------------------------------------------------------------------------
(* A get *)

\* runAction's critical section, for a get: it sees what the last write has left.
LEMMA StepGet ==
    ASSUME IInv, NEW c \in Clients, NEW i \in DOMAIN list[c], gpc[c][i] = "lock",
           IsGet(list[c][i]), ~NotFound(list[c][i]), GetDoc(c, i),
           NEW e, errs' = [errs EXCEPT ![c][i] = e], gpc' = [gpc EXCEPT ![c][i] = "release"],
           UNCHANGED <<group, pc>>
    PROVE  IInv'
<1>1. PICK k : k = list[c][i].key
  OBVIOUS
<1>2. TypeOK /\ ListOK(c) /\ OneStamp /\ DocsNumbered
  BY DEF IInv
<1>3. k \in Keys /\ k \in AllKeys
  BY <1>1, <1>2 DEF ListOK, ActionsOK, AllKeys
<1>4. /\ num' = [num EXCEPT ![c][i] = docs[k].ver]
      /\ known' = [known EXCEPT ![c][k] = docs[k]] \/ UNCHANGED known
      /\ UNCHANGED <<docs, curRevision, clock, unique, list>>
  BY <1>1 DEF GetDoc
<1>5. docs[k] # Absent /\ docs[k] \in Docs
  <2>1. Current(list[c][i]) = docs[k]
    BY <1>1, <1>3, DocStoreAssumption DEF Current
  <2> QED
    BY <1>2, <1>3, <2>1 DEF NotFound, IsGet, TypeOK
<1>6. docs[k].rev \in Nat /\ docs[k].stamp \in Nat /\ docs[k].ver \in Nat /\ docs[k].ver <= clock
  BY <1>2, <1>3, <1>5 DEF Docs, DocsNumbered
<1>7. /\ DOMAIN list = Clients /\ DOMAIN group = Clients /\ DOMAIN gpc = Clients
      /\ DOMAIN errs = Clients /\ DOMAIN num = Clients /\ DOMAIN pc = Clients
      /\ DOMAIN list[c] \subseteq DOMAIN gpc[c]
      /\ DOMAIN list[c] \subseteq DOMAIN errs[c]
      /\ DOMAIN list[c] \subseteq DOMAIN num[c]
  BY <1>2 DEF TypeOK
<1>8. /\ DOMAIN gpc' = Clients /\ DOMAIN errs' = Clients /\ DOMAIN num' = Clients
      /\ DOMAIN gpc'[c] = DOMAIN gpc[c] /\ DOMAIN errs'[c] = DOMAIN errs[c] /\ DOMAIN num'[c] = DOMAIN num[c]
      /\ \A d \in Clients \ {c} : gpc'[d] = gpc[d] /\ errs'[d] = errs[d] /\ num'[d] = num[d]
  BY <1>4, <1>7
<1>9. \A j \in DOMAIN list[c] : /\ errs'[c][j] = IF j = i THEN e ELSE errs[c][j]
                                /\ num'[c][j] = IF j = i THEN docs[k].ver ELSE num[c][j]
  BY <1>4, <1>7
<1>10. known' \in [Clients -> [Keys -> Docs]]
  <2>1. known \in [Clients -> [Keys -> Docs]]
    BY <1>2 DEF TypeOK
  <2>2. [known EXCEPT ![c][k] = docs[k]] \in [Clients -> [Keys -> Docs]]
    BY <1>3, <1>5, <2>1
  <2> QED
    BY <1>4, <2>1, <2>2
<1>11. TypeOK'
  BY <1>2, <1>4, <1>7, <1>8, <1>10 DEF TypeOK
<1>12. OneStamp'
  <2>1. \A d \in Clients, x \in Keys :
           \/ known'[d][x] = known[d][x]
           \/ known'[d][x] = docs[k]
    BY <1>2, <1>3, <1>4 DEF TypeOK
  <2>2. ASSUME NEW r, NEW s, Given(r, s)' PROVE Given(r, s)
    <3>1. CASE \E d \in Clients, x \in Keys : known'[d][x].rev = r /\ known'[d][x].stamp = s
      BY <1>3, <2>1, <3>1 DEF Given
    <3> QED
      BY <1>4, <2>2, <3>1 DEF Given
  <2> QED
    BY <1>2, <1>4, <2>2 DEF OneStamp
<1>13. ASSUME NEW d \in Clients \ {c} PROVE ListOK(d)'
  <2>1. unique \in Nat /\ clock \in Nat /\ docs \in [AllKeys -> Docs]
    BY <1>2 DEF TypeOK
  <2> QED
    BY <1>4, <1>8, <2>1, Bystander
<1>14. ActionsOK(c)' /\ WritesDiffer(c)' /\ GroupsOK(c)'
  BY <1>2, <1>4 DEF ListOK, ActionsOK, KeyOK, WritesDiffer, GroupsOK
<1>15. InTurn(c)'
  BY <1>2, <1>4, <1>9, TurnGoes
<1>16. Numbered(c)'
  BY <1>2, <1>4, <1>6, <1>9 DEF ListOK, Numbered
<1>17. Newest(c)'
  BY <1>2, <1>4, <1>9 DEF ListOK, Newest
<1>18. InOrder(c)'
  <2>1. ASSUME NEW j \in DOMAIN list[c], ~IsGet(list[c][j]), errs[c][j] = "ok", list[c][j].key = k
        PROVE  i > j /\ docs[k].ver >= num[c][j]
    <3>1. group[c][i] = IF i < j THEN BeforeGets ELSE AfterGets
      BY <1>1, <1>2, <2>1 DEF ListOK, GroupsOK
    <3>2. group[c][j] \in {Writes, WritesTx}
      BY <1>2, <2>1 DEF ListOK, GroupsOK
    <3>3. gpc[c][j] \in {"release", "done"}
      BY <1>2, <2>1 DEF ListOK, InTurn
    <3>4. ~(group[c][i] < group[c][j])
      BY <1>2, <3>3 DEF ListOK, InTurn
    <3>5. ~(i < j)
      BY <3>1, <3>2, <3>4 DEF BeforeGets, AfterGets, Writes, WritesTx
    <3>6. i # j /\ i \in Nat /\ j \in Nat
      BY <1>2, <2>1 DEF TypeOK
    <3>7. docs[k].ver >= num[c][j]
      BY <1>2, <1>3, <1>5, <2>1 DEF ListOK, Newest
    <3> QED
      BY <3>5, <3>6, <3>7
  <2>2. ASSUME NEW h \in DOMAIN list[c], NEW j \in DOMAIN list[c],
               IsGet(list[c][h]), errs'[c][h] = "ok", ~IsGet(list[c][j]), errs'[c][j] = "ok",
               list[c][h].key = list[c][j].key
        PROVE  IF h < j THEN num'[c][h] < num'[c][j] ELSE num'[c][h] >= num'[c][j]
    <3>1. j # i /\ errs[c][j] = "ok" /\ num'[c][j] = num[c][j]
      BY <1>9, <2>2
    <3>2. CASE h = i
      <4>1. i > j /\ docs[k].ver >= num[c][j]
        BY <1>1, <2>1, <2>2, <3>1, <3>2
      <4>2. num'[c][h] = docs[k].ver
        BY <1>9, <3>2
      <4>3. ~(h < j)
        <5>1. i \in Nat /\ j \in Nat
          BY <1>2 DEF TypeOK
        <5> QED
          BY <3>2, <4>1, <5>1
      <4> QED
        BY <3>1, <4>1, <4>2, <4>3
    <3>3. CASE h # i
      BY <1>2, <1>9, <2>2, <3>1, <3>3 DEF ListOK, InOrder
    <3> QED
      BY <3>2, <3>3
  <2> QED
    BY <1>4, <2>2 DEF InOrder
<1>19. ListOK(c)'
  BY <1>14, <1>15, <1>16, <1>17, <1>18 DEF ListOK
<1>20. DocsNumbered'
  BY <1>2, <1>4 DEF DocsNumbered
<1> QED
  BY <1>11, <1>12, <1>13, <1>19, <1>20 DEF IInv

-----------------------------------------------------------------------------
(* Writes *)

\* A critical section that executes the writes S of c's list, and gives them
\* keys where they have none: l is the list after it.
Writing(c, l, S) ==
    /\ S \in SUBSET DOMAIN list[c] /\ Execute(c, l, S)
    /\ list' = [list EXCEPT ![c] = l] /\ DOMAIN l = DOMAIN list[c]
    /\ \A i \in DOMAIN l : /\ l[i].rev = list[c][i].rev /\ l[i].base = list[c][i].base
                           /\ l[i].kind = list[c][i].kind
                           /\ l[i].hasRev = list[c][i].hasRev /\ l[i].nested = list[c][i].nested
                           /\ i \notin S => l[i] = list[c][i]
    /\ \A i \in S : ~IsGet(list[c][i]) /\ gpc[c][i] # "done"
    /\ UNCHANGED group /\ unique' \in Nat /\ unique <= unique'
    /\ DOMAIN gpc' = Clients /\ DOMAIN errs' = Clients /\ DOMAIN pc' = Clients
    /\ \A d \in Clients \ {c} : gpc'[d] = gpc[d] /\ errs'[d] = errs[d] /\ pc'[d] = pc[d]
    /\ DOMAIN gpc'[c] = DOMAIN gpc[c] /\ DOMAIN errs'[c] = DOMAIN errs[c]
    /\ \A i \in S : errs'[c][i] = "ok" => ~Unset(list[c][i])
    /\ \A i \in DOMAIN list[c] \ S : errs'[c][i] = "ok" => errs[c][i] = "ok"

\* Such a section keeps the invariant.
LEMMA StepExecute ==
    ASSUME IInv, NEW c \in Clients, NEW l, NEW S, Writing(c, l, S),
           ActionsOK(c)', WritesDiffer(c)', GroupsOK(c)', InTurn(c)'
    PROVE  IInv'
<1> USE DEF Writing
<1>1. TypeOK /\ ListOK(c) /\ OneStamp /\ DocsNumbered /\ clock \in Nat
  BY DEF IInv, TypeOK
<1>2. PICK n \in Nat : DOMAIN list[c] = 1..n
  BY <1>1 DEF TypeOK
<1>a. DOMAIN l = 1..n /\ S \in SUBSET (1..n)
  BY <1>2
<1>3. /\ DOMAIN list = Clients /\ DOMAIN list' = Clients
      /\ list'[c] = l /\ \A d \in Clients \ {c} : list'[d] = list[d]
  BY <1>1 DEF TypeOK
<1>4. /\ \A d \in Clients : DOMAIN list'[d] = DOMAIN list[d]
      /\ \A d \in Clients : \A i \in DOMAIN list[d] :
           list'[d][i].rev = list[d][i].rev /\ list'[d][i].base = list[d][i].base
  BY <1>3
<1>5. /\ docs' \in [AllKeys -> Docs]
      /\ curRevision' \in Nat
      /\ clock' \in Nat /\ clock <= clock'
      /\ known' \in [Clients -> [Keys -> Docs]]
      /\ OneStamp'
      /\ DocsNumbered'
      /\ DOMAIN num' = Clients
      /\ \A d \in Clients \ {c} : num'[d] = num[d]
      /\ DOMAIN num'[c] = DOMAIN l
      /\ \A i \in (1..n) \ S : num'[c][i] = num[c][i]
      /\ \A i \in S : num'[c][i] \in Nat /\ clock < num'[c][i] /\ num'[c][i] <= clock'
      /\ \A k \in AllKeys :
           \/ \E i \in S : l[i].key = k /\ (docs'[k] = Absent \/ docs'[k].ver = num'[c][i])
           \/ \E i \in S : l[i].key = k /\ Unset(l[i]) /\ docs'[k] = docs[k]
           \/ (\A i \in S : l[i].key # k) /\ docs'[k] = docs[k]
  <2>1. Execute(c, l, S)
    OBVIOUS
  <2> HIDE DEF Writing
  <2> QED
    BY <1>1, <1>3, <1>4, <1>a, <2>1, ExecuteKeeps
<1>6. TypeOK'
  BY <1>1, <1>3, <1>4, <1>5 DEF TypeOK
<1>7. ASSUME NEW d \in Clients \ {c} PROVE ListOK(d)'
  <2>1. \A k \in AllKeys : docs'[k] = docs[k] \/ docs'[k] = Absent \/ docs'[k].ver > clock
    BY <1>1, <1>5
  <2> QED
    BY <1>3, <1>5, <2>1, Bystander
<1>8. \A i \in 1..n : /\ num[c][i] \in Nat /\ num[c][i] <= clock
                      /\ i \in S => num'[c][i] \in Nat /\ clock < num'[c][i] /\ num'[c][i] <= clock'
                      /\ i \notin S => num'[c][i] = num[c][i]
  BY <1>1, <1>2, <1>5 DEF ListOK, Numbered
<1>9. Numbered(c)'
  <2>1. clock' \in Nat /\ clock <= clock'
    BY <1>5
  <2>2. \A i \in 1..n : num'[c][i] \in Nat /\ num'[c][i] <= clock'
    BY <1>1, <1>8, <2>1
  <2>3. DOMAIN list'[c] = 1..n
    BY <1>3, <1>a
  <2> HIDE DEF Writing
  <2> QED
    BY <2>2, <2>3 DEF Numbered
<1>10. Newest(c)'
  <2> SUFFICES ASSUME NEW i \in 1..n, ~IsGet(l[i]), errs'[c][i] = "ok", NEW k \in AllKeys, k = l[i].key
               PROVE  docs'[k] = Absent \/ docs'[k].ver >= num'[c][i]
    BY <1>2, <1>3 DEF Newest
  <2>1. docs'[k].ver \in Nat
    BY <1>5 DEF Docs
  <2>2. CASE i \in S
    <3>1. PICK j \in S : /\ l[j].key = k
                         /\ docs'[k] = Absent \/ docs'[k].ver = num'[c][j] \/ Unset(l[j])
      BY <1>5, <2>2
    <3>2. k # NilKey
      BY DocStoreAssumption DEF AllKeys
    <3>3. ~IsGet(l[j])
      BY <3>1 DEF IsGet
    <3>4. j = i
      BY <1>2, <1>3, <3>1, <3>2, <3>3 DEF WritesDiffer
    <3>5. ~Unset(l[i])
      BY <1>2, <2>2 DEF Unset, ChangesRevision
    <3> QED
      BY <1>8, <2>1, <2>2, <3>1, <3>4, <3>5
  <2>3. CASE i \notin S
    <3>1. l[i] = list[c][i] /\ errs[c][i] = "ok" /\ num'[c][i] = num[c][i]
      BY <1>2, <1>8, <2>3
    <3>2. docs[k] = Absent \/ docs[k].ver >= num[c][i]
      BY <1>1, <1>2, <3>1 DEF ListOK, Newest
    <3>3. docs'[k] = docs[k] \/ docs'[k] = Absent \/ docs'[k].ver > clock
      BY <1>1, <1>5
    <3> QED
      BY <1>1, <1>8, <2>1, <3>1, <3>2, <3>3
  <2> QED
    BY <2>2, <2>3
<1>11. InOrder(c)'
  <2> SUFFICES ASSUME NEW i \in 1..n, NEW j \in 1..n,
                      IsGet(l[i]), errs'[c][i] = "ok", ~IsGet(l[j]), errs'[c][j] = "ok",
                      l[i].key = l[j].key
               PROVE  IF i < j THEN num'[c][i] < num'[c][j] ELSE num'[c][i] >= num'[c][j]
    BY <1>2, <1>3 DEF InOrder
  <2>1. i \notin S /\ l[i] = list[c][i] /\ errs[c][i] = "ok" /\ num'[c][i] = num[c][i]
    <3>1. i \notin S
      BY <1>2 DEF IsGet
    <3> QED
      BY <1>2, <1>8, <3>1
  <2>2. CASE j \in S
    <3>1. group[c][i] = IF i < j THEN BeforeGets ELSE AfterGets
      BY <1>2, <1>3 DEF GroupsOK
    <3>2. group[c][j] \in {Writes, WritesTx}
      BY <1>2, <1>3 DEF GroupsOK
    <3>3. gpc[c][i] # "none" /\ gpc[c][j] # "done"
      BY <1>1, <1>2, <2>1, <2>2 DEF ListOK, InTurn
    <3>4. ~(group[c][j] < group[c][i])
      BY <1>1, <1>2, <3>3 DEF ListOK, InTurn
    <3>5. i < j
      BY <3>1, <3>2, <3>4 DEF BeforeGets, AfterGets, Writes, WritesTx
    <3> QED
      BY <1>1, <1>8, <2>1, <2>2, <3>5
  <2>3. CASE j \notin S
    <3>1. l[j] = list[c][j] /\ errs[c][j] = "ok" /\ num'[c][j] = num[c][j]
      BY <1>2, <1>8, <2>3
    <3> QED
      BY <1>1, <1>2, <2>1, <3>1 DEF ListOK, InOrder
  <2> QED
    BY <2>2, <2>3
<1>12. ListOK(c)'
  BY <1>9, <1>10, <1>11 DEF ListOK
<1> QED
  BY <1>5, <1>6, <1>7, <1>12 DEF IInv

\* runAction's critical section, for a write that succeeds, or fails late.
LEMMA StepWrite ==
    ASSUME IInv, NEW c \in Clients, NEW i \in DOMAIN list[c], gpc[c][i] = "lock",
           ~IsGet(list[c][i]), WriteDoc(c, i),
           NEW e, e = "ok" => ~Unset(list[c][i]),
           errs' = [errs EXCEPT ![c][i] = e], gpc' = [gpc EXCEPT ![c][i] = "release"],
           UNCHANGED <<group, pc>>
    PROVE  IInv'
<1>1. TypeOK /\ ListOK(c) /\ unique \in Nat
  BY DEF IInv, TypeOK
<1>2. /\ DOMAIN list = Clients /\ DOMAIN gpc = Clients /\ DOMAIN errs = Clients /\ DOMAIN pc = Clients
      /\ DOMAIN list[c] \subseteq DOMAIN gpc[c] /\ DOMAIN list[c] \subseteq DOMAIN errs[c]
      /\ list = [d \in Clients |-> list[d]]
  BY <1>1 DEF TypeOK
<1>3. /\ DOMAIN gpc' = Clients /\ DOMAIN errs' = Clients /\ DOMAIN pc' = Clients
      /\ \A d \in Clients \ {c} : gpc'[d] = gpc[d] /\ errs'[d] = errs[d] /\ pc'[d] = pc[d]
      /\ DOMAIN gpc'[c] = DOMAIN gpc[c] /\ DOMAIN errs'[c] = DOMAIN errs[c]
  BY <1>2
<1>4. \A j \in DOMAIN list[c] : errs'[c][j] = IF j = i THEN e ELSE errs[c][j]
  BY <1>2
<1> DEFINE Good(l) ==
             /\ list' = [list EXCEPT ![c] = l] /\ Execute(c, l, {i}) /\ DOMAIN l = DOMAIN list[c]
             /\ \A j \in DOMAIN l :
                  /\ l[j].rev = list[c][j].rev /\ l[j].base = list[c][j].base
                  /\ l[j].kind = list[c][j].kind
                  /\ l[j].hasRev = list[c][j].hasRev /\ l[j].nested = list[c][j].nested
                  /\ DOMAIN l[j] = DOMAIN list[c][j]
                  /\ j # i => l[j] = list[c][j]
             /\ unique' \in Nat /\ unique <= unique'
             /\ \/ l[i] = list[c][i] /\ unique' = unique
                \/ /\ unique' \in DOMAIN UniqueKeys /\ unique' = unique + 1
                   /\ l[i].key = UniqueKeys[unique']
<1>5. PICK l : Good(l)
  <2>1. CASE list[c][i].key # NilKey
    <3>1. Execute(c, list[c], {i}) /\ UNCHANGED <<unique, list>>
      BY <2>1 DEF WriteDoc
    <3>2. PICK l : l = list[c]
      OBVIOUS
    <3>3. list' = [list EXCEPT ![c] = l]
      BY <1>2, <3>1, <3>2
    <3>4. Execute(c, l, {i})
      BY <3>1, <3>2
    <3>6. unique' \in Nat /\ unique <= unique' /\ unique' = unique
      BY <1>1, <3>1
    <3>7. \A j \in DOMAIN l : l[j] = list[c][j]
      BY <3>2
    <3>5. Good(l)
      BY <3>2, <3>3, <3>4, <3>6, <3>7
    <3> HIDE DEF Good
    <3> QED
      BY <3>5
  <2>2. CASE list[c][i].key = NilKey
    <3>1. /\ unique + 1 \in DOMAIN UniqueKeys /\ unique' = unique + 1
          /\ list' = [list EXCEPT ![c][i].key = UniqueKeys[unique']] /\ Execute(c, list'[c], {i})
      BY <2>2 DEF WriteDoc
    <3>2. PICK l : l = [list[c] EXCEPT ![i] = [list[c][i] EXCEPT !.key = UniqueKeys[unique']]]
      OBVIOUS
    <3>3. list' = [list EXCEPT ![c] = l] /\ list'[c] = l /\ DOMAIN l = DOMAIN list[c]
      BY <1>2, <3>1, <3>2
    <3>4. \A j \in DOMAIN l : j # i => l[j] = list[c][j]
      BY <3>2
    <3>5. /\ l[i].rev = list[c][i].rev /\ l[i].base = list[c][i].base /\ l[i].kind = list[c][i].kind
          /\ l[i].hasRev = list[c][i].hasRev /\ l[i].nested = list[c][i].nested
          /\ l[i].key = UniqueKeys[unique'] /\ DOMAIN l[i] = DOMAIN list[c][i]
      <4>1. l[i] = [list[c][i] EXCEPT !.key = UniqueKeys[unique']]
        BY <3>2
      <4>2. "key" \in DOMAIN list[c][i] /\ "rev" \in DOMAIN list[c][i]
            /\ "base" \in DOMAIN list[c][i] /\ "kind" \in DOMAIN list[c][i]
            /\ "hasRev" \in DOMAIN list[c][i] /\ "nested" \in DOMAIN list[c][i]
        BY <1>1 DEF ListOK, ActionsOK, Fields
      <4> QED
        BY <4>1, <4>2
    <3>6. \A j \in DOMAIN l :
             /\ l[j].rev = list[c][j].rev /\ l[j].base = list[c][j].base
             /\ l[j].kind = list[c][j].kind
             /\ l[j].hasRev = list[c][j].hasRev /\ l[j].nested = list[c][j].nested
             /\ DOMAIN l[j] = DOMAIN list[c][j]
      BY <3>4, <3>5
    <3>7. Execute(c, l, {i})
      BY <3>1, <3>3
    <3>8. unique' \in Nat /\ unique <= unique' /\ unique' \in DOMAIN UniqueKeys
      BY <1>1, <3>1
    <3>9. Good(l)
      BY <3>1, <3>3, <3>4, <3>5, <3>6, <3>7, <3>8
    <3> HIDE DEF Good
    <3> QED
      BY <3>9
  <2> QED
    BY <2>1, <2>2
<1>6. list'[c] = l
  BY <1>2, <1>5
<1>7. ASSUME unique' \in DOMAIN UniqueKeys, unique' = unique + 1, l[i].key = UniqueKeys[unique'],
             NEW j \in DOMAIN l, j # i
      PROVE  l[j].key # l[i].key
  <2>1. KeyOK(list[c][j]) /\ l[j] = list[c][j]
    BY <1>1, <1>5, <1>7 DEF ListOK, ActionsOK
  <2> QED
    BY <1>1, <1>7, <2>1, DocStoreAssumption DEF KeyOK
<1>8. ActionsOK(c)'
  <2>1. ASSUME NEW j \in DOMAIN l
        PROVE  /\ DOMAIN l[j] = Fields
               /\ \/ l[j].key \in Keys \cup {NilKey}
                  \/ \E n \in DOMAIN UniqueKeys : n \in 1..unique' /\ l[j].key = UniqueKeys[n]
               /\ IsGet(l[j]) => l[j].key \in Keys
               /\ l[j].kind = "Create" => l[j].rev = NoRev
    <3>1. /\ KeyOK(list[c][j]) /\ (IsGet(list[c][j]) => list[c][j].key \in Keys)
          /\ (list[c][j].kind = "Create" => list[c][j].rev = NoRev)
          /\ DOMAIN list[c][j] = Fields
      BY <1>1, <1>5, <2>1 DEF ListOK, ActionsOK
    <3>2. CASE l[j] = list[c][j]
      BY <1>1, <1>5, <3>1, <3>2 DEF KeyOK
    <3>3. CASE j = i /\ unique' \in DOMAIN UniqueKeys /\ unique' = unique + 1 /\ l[i].key = UniqueKeys[unique']
      <4>1. unique' \in 1..unique'
        BY <1>1, <3>3
      <4>2. ~IsGet(l[j])
        BY <1>5, <3>3 DEF IsGet
      <4> QED
        BY <1>5, <3>1, <3>3, <4>1, <4>2
    <3> QED
      BY <1>5, <3>2, <3>3
  <2> QED
    BY <1>6, <2>1 DEF ActionsOK, KeyOK
<1>9. WritesDiffer(c)'
  <2>1. ASSUME NEW j \in DOMAIN l, NEW k \in DOMAIN l, ~IsGet(l[j]), ~IsGet(l[k]), j # k, l[j].key = l[k].key
        PROVE  l[j].key = NilKey
    <3>1. \A m \in DOMAIN l : IsGet(l[m]) <=> IsGet(list[c][m])
      BY <1>5 DEF IsGet
    <3>2. CASE l[i] = list[c][i]
      BY <1>1, <1>5, <2>1, <3>1, <3>2 DEF ListOK, WritesDiffer
    <3>3. CASE unique' \in DOMAIN UniqueKeys /\ unique' = unique + 1 /\ l[i].key = UniqueKeys[unique']
      <4>1. j # i /\ k # i
        BY <1>7, <2>1, <3>3
      <4> QED
        BY <1>1, <1>5, <2>1, <3>1, <4>1 DEF ListOK, WritesDiffer
    <3> QED
      BY <1>5, <3>2, <3>3
  <2> QED
    BY <1>6, <2>1 DEF WritesDiffer
<1>10. GroupsOK(c)'
  <2>1. \A m \in DOMAIN l : IsGet(l[m]) <=> IsGet(list[c][m])
    BY <1>5 DEF IsGet
  <2>2. ASSUME NEW j \in DOMAIN l, NEW k \in DOMAIN l, IsGet(l[j]), ~IsGet(l[k]), l[j].key = l[k].key
        PROVE  group[c][j] = IF j < k THEN BeforeGets ELSE AfterGets
    <3>1. j # i
      BY <2>1, <2>2, <1>5
    <3>2. CASE l[i] = list[c][i] \/ k # i
      BY <1>1, <1>5, <2>1, <2>2, <3>1, <3>2 DEF ListOK, GroupsOK
    <3>3. CASE k = i /\ unique' \in DOMAIN UniqueKeys /\ unique' = unique + 1 /\ l[i].key = UniqueKeys[unique']
      BY <1>7, <2>2, <3>1, <3>3
    <3> QED
      BY <1>5, <3>2, <3>3
  <2>3. \A j \in DOMAIN l :
          group[c][j] \in (IF IsGet(l[j]) THEN {BeforeGets, Gets, AfterGets} ELSE {Writes, WritesTx})
    BY <1>1, <1>5, <2>1 DEF ListOK, GroupsOK
  <2> QED
    BY <1>6, <2>2, <2>3 DEF GroupsOK
<1>11. InTurn(c)'
  <2>1. /\ DOMAIN list'[c] = DOMAIN list[c]
        /\ \A j \in DOMAIN list[c] : j # i => errs'[c][j] = errs[c][j]
        /\ gpc[c][i] \notin {"none", "done"}
    BY <1>4, <1>5, <1>6
  <2> QED
    BY <1>1, <2>1, TurnGoes
<1>12. PICK S : S = {i}
  OBVIOUS
<1>13. Writing(c, l, S)
  <2>1. /\ \A j \in S : errs'[c][j] = "ok" => ~Unset(list[c][j])
        /\ \A j \in DOMAIN list[c] \ S : errs'[c][j] = "ok" => errs[c][j] = "ok"
    BY <1>4, <1>12
  <2>2. S \in SUBSET DOMAIN list[c] /\ \A j \in S : ~IsGet(list[c][j]) /\ gpc[c][j] # "done"
    BY <1>12
  <2>3. /\ list' = [list EXCEPT ![c] = l] /\ Execute(c, l, S) /\ DOMAIN l = DOMAIN list[c]
        /\ unique' \in Nat /\ unique <= unique'
    BY <1>5, <1>12
  <2>4. \A j \in DOMAIN l : /\ l[j].rev = list[c][j].rev /\ l[j].base = list[c][j].base
                            /\ l[j].kind = list[c][j].kind
                            /\ l[j].hasRev = list[c][j].hasRev /\ l[j].nested = list[c][j].nested
                            /\ j \notin S => l[j] = list[c][j]
    BY <1>5, <1>12
  <2>5. group' = group
    OBVIOUS
  <2> HIDE DEF Good
  <2> QED
    BY <1>3, <2>1, <2>2, <2>3, <2>4, <2>5 DEF Writing
<1> HIDE DEF Good
<1> QED
  BY <1>8, <1>9, <1>10, <1>11, <1>13, StepExecute

\* The critical section of runAtomicWrites: if no action is invalid, the ones
\* before the first that fails are executed, and they all succeed or all fail.
LEMMA StepAtomicRun ==
    ASSUME IInv, NEW c \in Clients, AtomicRun(c) PROVE IInv'
<1>1. TypeOK /\ ListOK(c) /\ unique \in Nat
  BY DEF IInv, TypeOK
<1>2. PICK T : T = UnderWay(c)
  OBVIOUS
<1>3. PICK l : l = list[c]
  OBVIOUS
<1>4. PICK invalid : invalid = {i \in T : ValidateError(l[i]) # "ok"}
  OBVIOUS
<1>5. PICK failing : failing = {i \in T : ExecuteError(l[i]) # "ok"}
  OBVIOUS
<1>6. PICK n \in Nat : DOMAIN l = 1..n
  BY <1>1, <1>3 DEF TypeOK
<1>7. T \in SUBSET (1..n) /\ T \in SUBSET Nat /\ \A i \in T : gpc[c][i] # "done"
  BY <1>2, <1>3, <1>6 DEF UnderWay, NotDone
<1>8. /\ pc[c] = "atomic" /\ pc' = [pc EXCEPT ![c] = "running"] /\ UNCHANGED <<list, group, ctxDone, left>>
      /\ invalid # {} => AllEnd(c, T, ValidateError(l[First(invalid)])) /\ UNCHANGED <<storeVars, num>>
      /\ invalid = {} => /\ AllEnd(c, T, IF failing = {} THEN "ok" ELSE ExecuteError(l[First(failing)]))
                         /\ Execute(c, l, {i \in T : \A j \in failing :
                                                    i < j \/ (i = j /\ FailsLate(l[i]))})
                         /\ UNCHANGED unique
  BY <1>2, <1>3, <1>4, <1>5 DEF AtomicRun
<1>9. DOMAIN pc = Clients /\ DOMAIN pc' = Clients /\ pc'[c] = "running" /\ \A d \in Clients \ {c} : pc'[d] = pc[d]
  BY <1>1, <1>8 DEF TypeOK
<1>10. CASE invalid # {}
  <2>1. First(invalid) \in invalid
    BY <1>4, <1>7, <1>10, FirstIs
  <2>2. PICK e : e = ValidateError(l[First(invalid)])
    OBVIOUS
  <2>3. e # "ok"
    BY <1>4, <2>1, <2>2
  <2>4. AllEnd(c, UnderWay(c), e) /\ UNCHANGED <<storeVars, list, group, num>>
    BY <1>2, <1>8, <1>10, <2>2
  <2> QED
    BY <1>9, <2>3, <2>4, StepAllFail
<1>11. CASE invalid = {}
  <2>1. PICK e : e = IF failing = {} THEN "ok" ELSE ExecuteError(l[First(failing)])
    OBVIOUS
  <2>2. PICK S : S = {i \in T : \A j \in failing : i < j \/ (i = j /\ FailsLate(l[i]))}
    OBVIOUS
  <2>3. AllEnd(c, T, e) /\ Execute(c, l, S) /\ UNCHANGED unique
    BY <1>8, <1>11, <2>1, <2>2
  <2>4. e = "ok" => S = T /\ \A i \in T : ~Unset(l[i])
    <3>1. failing # {} => First(failing) \in failing
      BY <1>5, <1>7, FirstIs
    <3>2. e = "ok" => failing = {}
      BY <1>5, <2>1, <3>1
    <3>3. failing = {} => \A i \in T : ~Unset(l[i])
      BY <1>5 DEF ExecuteError
    <3> QED
      BY <2>2, <3>2, <3>3
  <2>5. S \subseteq T
    BY <2>2
  <2>6. /\ errs' = [errs EXCEPT ![c] = [i \in DOMAIN errs[c] |-> IF i \in T THEN e ELSE errs[c][i]]]
        /\ gpc' = [gpc EXCEPT ![c] = [i \in DOMAIN gpc[c] |-> IF i \in T THEN "done" ELSE gpc[c][i]]]
    BY <2>3 DEF AllEnd
  <2>7. /\ DOMAIN gpc = Clients /\ DOMAIN errs = Clients /\ 1..n \subseteq DOMAIN gpc[c]
        /\ 1..n \subseteq DOMAIN errs[c] /\ list = [d \in Clients |-> list[d]]
    BY <1>1, <1>3, <1>6 DEF TypeOK
  <2>8. /\ DOMAIN gpc' = Clients /\ DOMAIN gpc'[c] = DOMAIN gpc[c]
        /\ DOMAIN errs' = Clients /\ DOMAIN errs'[c] = DOMAIN errs[c]
        /\ \A d \in Clients \ {c} : gpc'[d] = gpc[d] /\ errs'[d] = errs[d]
    BY <2>6, <2>7
  <2>9. \A i \in 1..n : /\ errs'[c][i] = IF i \in T THEN e ELSE errs[c][i]
                        /\ gpc'[c][i] = IF i \in T THEN "done" ELSE gpc[c][i]
    BY <2>6, <2>7
  <2>10. \A i \in 1..n : group[c][i] \in 1..5
    BY <1>1, <1>3, <1>6 DEF ListOK, GroupsOK, BeforeGets, Gets, AfterGets, Writes, WritesTx
  <2>11. \A i \in T, j \in 1..n : group[c][j] < group[c][i] => gpc[c][j] = "done"
    BY <1>2, <1>3, <1>6, <2>10 DEF UnderWay, NotDone
  <2>12. InTurn(c)'
    <3>1. ASSUME NEW j \in 1..n, NEW k \in 1..n, gpc'[c][j] # "none", group[c][k] < group[c][j]
          PROVE  gpc'[c][k] = "done"
      <4>1. gpc[c][k] = "done"
        BY <1>1, <1>3, <1>6, <2>9, <2>11, <3>1 DEF ListOK, InTurn
      <4> QED
        BY <2>9, <4>1
    <3>2. \A j \in 1..n : errs'[c][j] = "ok" => gpc'[c][j] \in {"release", "done"}
      BY <1>1, <1>3, <1>6, <2>9 DEF ListOK, InTurn
    <3>3. \A j \in 1..n : group[c][j] = WritesTx => gpc'[c][j] \in {"none", "done"}
      BY <1>1, <1>3, <1>6, <2>9 DEF ListOK, InTurn
    <3>4. DOMAIN list'[c] = 1..n /\ group' = group /\ pc'[c] # "atomic"
      BY <1>3, <1>6, <1>8, <1>9
    <3> QED
      BY <3>1, <3>2, <3>3, <3>4 DEF InTurn
  <2>13. \A i \in T : ~IsGet(list[c][i])
    <3>1. PICK j \in UnderWay(c) : group[c][j] = WritesTx
      BY <1>1, <1>8 DEF ListOK, InTurn
    <3>2. \A i \in T : group[c][i] = WritesTx
      <4> TAKE i \in T
      <4>1. group[c][i] <= group[c][j] /\ group[c][j] <= group[c][i] /\ i \in 1..n /\ j \in 1..n
        BY <1>2, <1>3, <1>6, <3>1 DEF UnderWay, NotDone
      <4> QED
        BY <2>10, <3>1, <4>1
    <3>3. \A i \in T : i \in DOMAIN list[c] /\ (IsGet(list[c][i]) => group[c][i] \in {BeforeGets, Gets, AfterGets})
      BY <1>1, <1>3, <1>6, <1>7 DEF ListOK, GroupsOK
    <3>4. WritesTx \notin {BeforeGets, Gets, AfterGets}
      BY DEF BeforeGets, Gets, AfterGets, WritesTx
    <3> QED
      BY <3>2, <3>3, <3>4
  <2>14. ActionsOK(c)' /\ WritesDiffer(c)' /\ GroupsOK(c)'
    BY <1>1, <1>8, <2>3 DEF ListOK, ActionsOK, KeyOK, WritesDiffer, GroupsOK
  <2>15. list' = [list EXCEPT ![c] = l]
    BY <1>3, <1>8, <2>7
  <2>16. /\ \A i \in S : errs'[c][i] = "ok" => ~Unset(l[i])
         /\ \A i \in (1..n) \ S : errs'[c][i] = "ok" => errs[c][i] = "ok"
    <3>1. \A i \in T : errs'[c][i] = e
      BY <1>7, <2>9
    <3> QED
      BY <1>7, <2>4, <2>5, <2>9, <3>1
  <2>17. S \in SUBSET DOMAIN list[c] /\ \A i \in S : ~IsGet(list[c][i]) /\ gpc[c][i] # "done"
    BY <1>3, <1>6, <1>7, <2>5, <2>13
  <2>18. Writing(c, l, S)
    <3>1. l = list[c] /\ DOMAIN l = DOMAIN list[c]
      BY <1>3
    <3>2. \A i \in DOMAIN l : /\ l[i].rev = list[c][i].rev /\ l[i].base = list[c][i].base
                             /\ l[i].kind = list[c][i].kind
                             /\ l[i].hasRev = list[c][i].hasRev /\ l[i].nested = list[c][i].nested
                             /\ i \notin S => l[i] = list[c][i]
      BY <3>1
    <3>3. unique' \in Nat /\ unique <= unique'
      BY <1>1, <2>3 DEF TypeOK
    <3>4. /\ UNCHANGED group /\ DOMAIN pc' = Clients
          /\ \A d \in Clients \ {c} : gpc'[d] = gpc[d] /\ errs'[d] = errs[d] /\ pc'[d] = pc[d]
      BY <1>1, <1>8, <1>9, <2>8 DEF TypeOK
    <3>5. /\ \A i \in S : errs'[c][i] = "ok" => ~Unset(list[c][i])
          /\ \A i \in DOMAIN list[c] \ S : errs'[c][i] = "ok" => errs[c][i] = "ok"
      BY <1>3, <1>6, <2>16
    <3> QED
      BY <2>3, <2>8, <2>15, <2>17, <3>1, <3>2, <3>3, <3>4, <3>5 DEF Writing
  <2> QED
    BY <2>12, <2>14, <2>18, StepExecute
<1> QED
  BY <1>10, <1>11

-----------------------------------------------------------------------------
(* The specification *)

\* The invariant holds at the start.
LEMMA InitIInv == Init => IInv
<1> SUFFICES ASSUME Init PROVE IInv
  OBVIOUS
<1>1. TypeOK
  <2>1. Absent \in Docs
    BY DEF Absent, Docs
  <2>2. \A c \in Clients : DOMAIN list[c] = 1..0
    BY DEF Init
  <2> QED
    BY <2>1, <2>2 DEF Init, TypeOK, NoRev
<1>2. \A c \in Clients : DOMAIN list[c] = {} /\ pc[c] = "idle"
  BY DEF Init
<1>3. \A c \in Clients : ListOK(c)
  BY <1>2 DEF ListOK, ActionsOK, WritesDiffer, GroupsOK, InTurn, Numbered, Newest, InOrder
<1>4. DocsNumbered
  BY DEF Init, DocsNumbered, Absent
<1>5. \A r, s : Given(r, s) => r = NoRev
  BY <1>2 DEF Given, Init, Absent, NoRev
<1>6. OneStamp
  BY <1>5 DEF OneStamp, Init, NoRev
<1> QED
  BY <1>1, <1>3, <1>4, <1>6 DEF IInv

\* A step of a goroutine of an action.
LEMMA StepRunAction ==
    ASSUME IInv, NEW c \in Clients, NEW i \in DOMAIN list[c], RunActionStep(c, i) PROVE IInv'
<1>1. CASE RunActionCheck(c, i)
  <2>1. gpc[c][i] = "check" /\ UNCHANGED <<storeVars, list, group, num, pc>>
    BY <1>1 DEF RunActionCheck
  <2>2. CASE ctxDone[c]
    <3>1. gpc' = [gpc EXCEPT ![c][i] = "release"] /\ errs' = [errs EXCEPT ![c][i] = "Canceled"]
      BY <1>1, <2>2 DEF RunActionCheck
    <3> QED
      BY <2>1, <3>1, StepGoes
  <2>3. CASE ~ctxDone[c]
    <3>1. gpc' = [gpc EXCEPT ![c][i] = "lock"] /\ UNCHANGED errs
      BY <1>1, <2>3 DEF RunActionCheck
    <3>2. PICK e : e = "Canceled"
      OBVIOUS
    <3> QED
      BY <2>1, <3>1, <3>2, StepGoes
  <2> QED
    BY <2>2, <2>3
<1>2. CASE RunAction(c, i)
  <2>1. PICK e : e = RunActionError(list[c][i])
    OBVIOUS
  <2>2. /\ gpc[c][i] = "lock" /\ errs' = [errs EXCEPT ![c][i] = e]
        /\ gpc' = [gpc EXCEPT ![c][i] = "release"] /\ UNCHANGED <<group, pc>>
        /\ IF IsGet(list[c][i]) /\ e # "NotFound" THEN GetDoc(c, i)
           ELSE IF e \in {"ok", "RevisionUnset"} THEN WriteDoc(c, i)
           ELSE UNCHANGED <<storeVars, list, num>>
    BY <1>2, <2>1 DEF RunAction
  <2>3. CASE /\ UNCHANGED <<storeVars, list, num>>
             /\ e \notin {"ok", "RevisionUnset"}
    BY <2>2, <2>3, StepGoes
  <2>4. CASE IsGet(list[c][i]) /\ e # "NotFound"
    <3>1. ~NotFound(list[c][i])
      BY <2>1, <2>4 DEF RunActionError
    <3> QED
      BY <2>2, <2>4, <3>1, StepGet
  <2>5. CASE ~IsGet(list[c][i]) /\ e \in {"ok", "RevisionUnset"}
    <3>1. e = "ok" => ~Unset(list[c][i])
      BY <2>1, <2>5 DEF RunActionError, ExecuteError
    <3>2. WriteDoc(c, i)
      BY <2>2, <2>5
    <3> QED
      BY <2>2, <2>5, <3>1, <3>2, StepWrite
  <2> QED
    BY <2>2, <2>3, <2>4, <2>5
<1>3. CASE Release(c, i)
  <2>1. /\ gpc[c][i] = "release" /\ gpc' = [gpc EXCEPT ![c][i] = "done"]
        /\ UNCHANGED <<storeVars, list, group, errs, num, pc>>
    BY <1>3 DEF Release
  <2>2. PICK e : e = "Canceled"
    OBVIOUS
  <2> QED
    BY <2>1, <2>2, StepGoes
<1> QED
  BY <1>1, <1>2, <1>3 DEF RunActionStep

\* Every step keeps the invariant.
LEMMA NextIInv == IInv /\ [Next]_vars => IInv'
<1> SUFFICES ASSUME IInv, [Next]_vars PROVE IInv'
  OBVIOUS
<1>1. \A c \in Clients : InTurn(c) /\ ListOK(c)
  BY DEF IInv, ListOK
<1>2. DOMAIN pc = Clients /\ DOMAIN gpc = Clients /\ DOMAIN errs = Clients
  BY DEF IInv, TypeOK
<1>3. ASSUME NEW c \in Clients, AtomicCheck(c) PROVE IInv'
  <2>1. pc[c] = "running" /\ UNCHANGED <<storeVars, list, group, num>>
    BY <1>3 DEF AtomicCheck
  <2>2. CASE ctxDone[c]
    <3>1. PICK e : e = "Canceled"
      OBVIOUS
    <3>2. AllEnd(c, UnderWay(c), e) /\ UNCHANGED pc
      BY <1>3, <2>2, <3>1 DEF AtomicCheck
    <3> QED
      BY <1>2, <2>1, <3>1, <3>2, StepAllFail
  <2>3. CASE ~ctxDone[c]
    <3>1. /\ pc' = [pc EXCEPT ![c] = "atomic"] /\ UNCHANGED <<errs, gpc>>
          /\ \E i \in UnderWay(c) : group[c][i] = WritesTx
      BY <1>3, <2>3 DEF AtomicCheck
    <3>2. DOMAIN pc' = Clients /\ \A d \in Clients \ {c} : pc'[d] = pc[d]
      BY <1>2, <3>1
    <3>3. InTurn(c)'
      BY <1>1, <2>1, <3>1 DEF InTurn, UnderWay, NotDone
    <3> QED
      BY <1>2, <2>1, <3>1, <3>2, <3>3, StepQuiet
  <2> QED
    BY <2>2, <2>3
<1>4. ASSUME NEW c \in Clients, DoReturns(c) PROVE IInv'
  <2>1. pc' = [pc EXCEPT ![c] = "idle"] /\ UNCHANGED <<storeVars, list, group, num, errs, gpc>>
    BY <1>4 DEF DoReturns, runVars
  <2>2. DOMAIN pc' = Clients /\ pc'[c] = "idle" /\ \A d \in Clients \ {c} : pc'[d] = pc[d]
    BY <1>2, <2>1
  <2>3. InTurn(c)'
    BY <1>1, <2>1, <2>2 DEF InTurn
  <2> QED
    BY <1>2, <2>1, <2>2, <2>3, StepQuiet
<1>5. ASSUME UNCHANGED <<storeVars, runVars, pc>> PROVE IInv'
  <2>1. TypeOK' /\ OneStamp' /\ DocsNumbered'
    BY <1>5 DEF IInv, TypeOK, OneStamp, Given, DocsNumbered, storeVars, runVars
  <2>2. ASSUME NEW d \in Clients PROVE ListOK(d)'
    <3>1. unique \in Nat /\ clock \in Nat /\ docs \in [AllKeys -> Docs]
          /\ UNCHANGED <<unique, clock, docs, list, group, gpc, errs, num, pc>>
      BY <1>5 DEF IInv, TypeOK, storeVars, runVars
    <3> QED
      BY <3>1, Bystander
  <2> QED
    BY <2>1, <2>2 DEF IInv
<1>6. CASE UNCHANGED vars
  BY <1>5, <1>6 DEF vars
<1>7. ASSUME NEW c \in Clients, CtxDone(c) PROVE IInv'
  BY <1>5, <1>7 DEF CtxDone
<1>8. CASE Next
  BY <1>3, <1>4, <1>7, <1>8, StepDoCall, StepSpawn, StepAtomicRun, StepRunAction DEF Next, RunStep
<1> QED
  BY <1>6, <1>8

-----------------------------------------------------------------------------
(* The theorems *)

\* The invariant holds in every reachable state.
THEOREM Invariance == Spec => []IInv
  BY InitIInv, NextIInv, PTL DEF Spec

\* A get before a write of its document in a list sees the old document, and a
\* get after it the new one or a newer (ActionList.Do, GroupActions, runAction).
THEOREM ListsAreInOrder == Spec => []ListOrder
<1>1. IInv => ListOrder
  BY DEF IInv, ListOK, InOrder, ListOrder
<1> QED
  BY <1>1, Invariance, PTL

\* Optimistic locking: a write with a revision succeeds on a stored document that
\* has a revision only if it is the one of the caller's document, given by the
\* same write (checkRevision, changeRevision).  A stored document may have none,
\* after a Put or Replace by a document without the field, and an Update by such
\* a document changes it under its old revision: of these nothing is said.
THEOREM UpdatesAreNotLost == Spec => NoLostUpdate
<1> DEFINE A == \A c \in Clients : \A i \in DOMAIN list[c] :
                  LET a == list[c][i] IN
                  /\ pc[c] # "idle" /\ errs[c][i] = "none" /\ errs'[c][i] = "ok"
                  /\ ~IsGet(a) /\ a.rev # NoRev
                  /\ Current(a) # Absent /\ Current(a).rev # NoRev
                  => Current(a).stamp = a.base
<1>1. IInv /\ [Next]_vars => [A]_vars
  <2> SUFFICES ASSUME IInv, Next, NEW c \in Clients, NEW i \in DOMAIN list[c], NEW a, a = list[c][i],
                      pc[c] # "idle", errs[c][i] = "none", errs'[c][i] = "ok", ~IsGet(a), a.rev # NoRev,
                      Current(a) # Absent, Current(a).rev # NoRev
               PROVE  Current(a).stamp = a.base
    OBVIOUS
  <2>1. TypeOK /\ OneStamp /\ ListOK(c)
    BY DEF IInv
  <2>2. SUFFICES ~Mismatched(a)
    <3>1. Current(a).rev = a.rev
      BY <2>2 DEF Mismatched
    <3>2. a.key \in AllKeys /\ Current(a) = docs[a.key]
      BY <2>1 DEF ListOK, ActionsOK, KeyOK, AllKeys, Current
    <3>3. Given(a.rev, Current(a).stamp)
      BY <3>1, <3>2 DEF Given
    <3>4. Given(a.rev, a.base)
      BY DEF Given
    <3> QED
      BY <2>1, <3>3, <3>4 DEF OneStamp
  <2>3. DOMAIN errs = Clients /\ \A d \in Clients : DOMAIN list[d] \subseteq DOMAIN errs[d]
    BY <2>1 DEF TypeOK
  <2>4. ASSUME UNCHANGED errs PROVE FALSE
    BY <2>4
  <2>5. ASSUME NEW d \in Clients, DoCall(d) PROVE FALSE
    <3>1. d # c
      BY <2>5 DEF DoCall
    <3>2. errs'[c] = errs[c]
      BY <2>3, <2>5, <3>1 DEF DoCall
    <3> QED
      BY <3>2
  <2>6. ASSUME NEW d \in Clients, NEW j \in DOMAIN list[d], RunActionCheck(d, j) PROVE FALSE
    BY <2>3, <2>6 DEF RunActionCheck
  <2>7. ASSUME NEW d \in Clients, NEW j \in DOMAIN list[d], RunAction(d, j) PROVE ~Mismatched(a)
    <3>1. errs' = [errs EXCEPT ![d][j] = RunActionError(list[d][j])]
      BY <2>7 DEF RunAction
    <3>2. d = c /\ j = i /\ RunActionError(a) = "ok"
      BY <2>3, <3>1
    <3>3. a.kind # "Create" /\ a.kind # "Get"
      BY <2>1 DEF ListOK, ActionsOK, IsGet
    <3> QED
      BY <3>2, <3>3 DEF RunActionError
  <2>8. ASSUME NEW d \in Clients, NEW S, NEW e, AllEnd(d, S, e) PROVE d = c /\ i \in S /\ e = "ok"
    BY <2>3, <2>8 DEF AllEnd
  <2>9. ASSUME NEW d \in Clients, AtomicCheck(d) PROVE FALSE
    <3>1. CASE UNCHANGED errs
      BY <2>4, <3>1
    <3>2. CASE AllEnd(d, UnderWay(d), "Canceled")
      BY <2>8, <3>2
    <3> QED
      BY <2>9, <3>1, <3>2 DEF AtomicCheck
  <2>10. ASSUME NEW d \in Clients, AtomicRun(d) PROVE ~Mismatched(a)
    <3>1. PICK T : T = UnderWay(d)
      OBVIOUS
    <3>2. PICK invalid : invalid = {k \in T : ValidateError(list[d][k]) # "ok"}
      OBVIOUS
    <3>3. PICK e : AllEnd(d, T, e) /\ (invalid # {} => e = ValidateError(list[d][First(invalid)]))
      BY <2>10, <3>1, <3>2 DEF AtomicRun
    <3>4. d = c /\ i \in T /\ e = "ok"
      BY <2>8, <3>3
    <3>5. T \in SUBSET Nat
      BY <2>1, <3>1, <3>4 DEF UnderWay, NotDone, TypeOK
    <3>6. invalid # {} => First(invalid) \in invalid
      BY <3>2, <3>5, FirstIs
    <3>7. invalid = {}
      BY <3>2, <3>3, <3>4, <3>6
    <3>8. ValidateError(a) = "ok"
      BY <3>2, <3>4, <3>7
    <3> QED
      BY <3>8 DEF ValidateError
  <2> QED
    BY <2>4, <2>5, <2>6, <2>7, <2>9, <2>10
       DEF Next, RunStep, RunActionStep, Spawn, Release, DoReturns, CtxDone, runVars
<1> QED
  BY <1>1, Invariance, PTL DEF Spec, NoLostUpdate

=============================================================================
