------------------------------- MODULE DocDrivers -------------------------------
(***************************************************************************)
(* What one call of RunActions does in each of the docstore drivers:       *)
(* memdocstore, awsdynamodb, gcpfirestore and mongodocstore.  The actions  *)
(* of one list touch different documents, or are ordered by GroupActions,  *)
(* so the concurrent calls of a driver are taken in one order here; their  *)
(* interleavings are the subject of module DocStore.                       *)
(*                                                                         *)
(* A value is a pair of a kind and a payload.  A string is a number that   *)
(* stands for its place in the order of strings (0 is the empty string), a *)
(* number is counted in tenths.  A document of the client is a record: f   *)
(* holds its fields, and zero is the empty function for a map and the zero *)
(* values of the fields for a struct.  A collection is a record            *)
(*   driver, keyf (the key fields), func (the key comes from a function),  *)
(*   rev (the revision field), docs (the stored documents by key), next    *)
(*   (the source of revisions and unique strings) and opts.                *)
(***************************************************************************)
EXTENDS Integers, SequencesExt

Nil == <<"nil">>
Str(n) == <<"s", n>>
Num(n) == <<"n", n>>
Bool(b) == <<"b", b>>
Time(n) == <<"t", n>>
Map(f) == <<"m", f>>
List(s) == <<"l", s>>
Rev(n) == <<"r", n>>
Inc(v) == <<"inc", v>>

IsEmptyValue(v) ==
  v \in {Nil, Str(0), Num(0), Bool(FALSE)} \/ (v[1] \in {"m", "l"} /\ DOMAIN v[2] = {})

Without(f, x) == [y \in DOMAIN f \ {x} |-> f[y]]

\* The part of a sequence at some of its indexes.
Those(s, at) ==
  LET rank(i) == Cardinality({j \in at : j <= i})
  IN  [n \in 1 .. Cardinality(at) |-> s[CHOOSE i \in at : rank(i) = n]]

---------------------------------------------------------------------------
(* Documents of the client *)

Empty == [x \in {} |-> Nil]
MapDoc(f) == [zero |-> Empty, f |-> f]
StructDoc(zero, f) == [zero |-> zero, f |-> f @@ zero]
IsStruct(d) == DOMAIN d.zero # {}

HasField(d, x) == x \in DOMAIN d.f
GetField(d, x) == IF HasField(d, x) THEN d.f[x] ELSE Nil
SetField(d, x, v) == IF IsStruct(d) /\ ~HasField(d, x) THEN d ELSE [d EXCEPT !.f = (x :> v) @@ @]

\* A field of the stored document that a struct does not have is an error, and
\* so is null for a field that cannot be nil; DynamoDB has null for the empty
\* string.
Takes(c, d, x, v) ==
  /\ x \in DOMAIN d.f
  /\ v = Nil => d.zero[x] = Nil \/ (d.zero[x] = Str(0) /\ c.driver = "dynamo")

Decode(c, d, f) ==
  IF ~IsStruct(d) THEN [err |-> "OK", doc |-> [d EXCEPT !.f = f @@ @]]
  ELSE IF \E x \in DOMAIN f : ~Takes(c, d, x, f[x]) THEN [err |-> "InvalidArgument", doc |-> d]
  ELSE [err |-> "OK", doc |-> [d EXCEPT !.f = [x \in DOMAIN f |-> IF f[x] = Nil THEN d.zero[x] ELSE f[x]] @@ @]]

---------------------------------------------------------------------------
(* Field paths *)

\* The value at a field path, Nil when there is none.
RECURSIVE getAtFieldPath(_, _)
getAtFieldPath(f, fp) ==
  IF fp[1] \notin DOMAIN f THEN Nil
  ELSE IF Len(fp) = 1 THEN f[fp[1]]
  ELSE IF f[fp[1]][1] = "m" THEN getAtFieldPath(f[fp[1]][2], Tail(fp)) ELSE Nil

RECURSIVE HasPath(_, _)
HasPath(f, fp) ==
  /\ fp[1] \in DOMAIN f
  /\ Len(fp) > 1 => f[fp[1]][1] = "m" /\ HasPath(f[fp[1]][2], Tail(fp))

\* The part of a stored document that a set of field paths selects.
RECURSIVE Project(_, _)
Project(f, fps) ==
  LET found == {p \in fps : HasPath(f, p)}
  IN  [x \in {p[1] : p \in found} |->
         IF <<x>> \in found THEN f[x]
         ELSE Map(Project(f[x][2], {Tail(p) : p \in {q \in found : q[1] = x}}))]

\* The fields with the value at fp set to v (removed when v is Nil); maps are
\* made on the way.
RECURSIVE setAtFieldPath(_, _, _)
setAtFieldPath(f, fp, v) ==
  LET x == fp[1]
      inner == IF x \in DOMAIN f /\ f[x][1] = "m" THEN f[x][2] ELSE Empty
  IN  IF Len(fp) = 1 THEN (IF v = Nil THEN Without(f, x) ELSE (x :> v) @@ f)
      ELSE IF v = Nil /\ (x \notin DOMAIN f \/ f[x][1] # "m") THEN f
      ELSE (x :> Map(setAtFieldPath(inner, Tail(fp), v))) @@ f

\* What becomes of a field under a modification: removed, incremented or set.
add(old, v) == IF v[1] # "inc" THEN v ELSE IF old = Nil THEN v[2] ELSE Num(old[2] + v[2][2])

RECURSIVE ApplyMods(_, _)
ApplyMods(f, mods) ==
  IF mods = << >> THEN f
  ELSE LET m == Head(mods)
       IN  ApplyMods(setAtFieldPath(f, m.fp, add(getAtFieldPath(f, m.fp), m.v)), Tail(mods))

\* getParentMap of memdocstore: "nil" when there is nothing on the way.
ParentMap(f, fp) ==
  LET at == {i \in 1 .. Len(fp) - 1 : getAtFieldPath(f, SubSeq(fp, 1, i))[1] # "m"}
  IN  IF at = {} THEN "map"
      ELSE IF \E i \in at : /\ getAtFieldPath(f, SubSeq(fp, 1, i)) # Nil
                            /\ \A j \in at : i <= j
      THEN "bad" ELSE "nil"

---------------------------------------------------------------------------
(* Keys and stored documents *)

NoKey == << >>
Unique == 1000

KeyValues(c, d) == [i \in DOMAIN c.keyf |-> GetField(d, c.keyf[i])]
Keyed(key) == [err |-> "OK", key |-> key]
MissingKey == [err |-> "InvalidArgument", key |-> NoKey]

\* The key field, where empty is the same as missing, or what the key function
\* makes of the document, which must not be empty.
MemKey(c, d) ==
  LET vs == KeyValues(c, d)
      empty == {i \in DOMAIN vs : IsEmptyValue(vs[i])}
  IN  IF empty = {} THEN Keyed(vs) ELSE IF c.func THEN MissingKey ELSE Keyed(NoKey)

\* The partition key and the sort key, which may be missing.
DynamoKey(c, d) == Keyed(IF IsEmptyValue(GetField(d, c.keyf[1])) THEN NoKey ELSE KeyValues(c, d))

\* A name is a string.
FirestoreKey(c, d) ==
  LET k == MemKey(c, d)
  IN  IF ~c.func /\ k.key # NoKey /\ k.key[1][1] # "s" THEN MissingKey ELSE k

MongoKey(c, d) == MemKey(c, d)

Key(c, d) ==
  CASE c.driver = "mem" -> MemKey(c, d)
    [] c.driver = "dynamo" -> DynamoKey(c, d)
    [] c.driver = "firestore" -> FirestoreKey(c, d)
    [] c.driver = "mongo" -> MongoKey(c, d)

\* The key field is kept outside the document by firestore and mongo.
KeyApart(c) == c.driver \in {"firestore", "mongo"} /\ ~c.func

\* DynamoDB has no empty strings: they are stored as null.
EncodeString(v) == IF v = Str(0) THEN Nil ELSE v
DynamoEncode(d) == [x \in DOMAIN d.f |-> EncodeString(d.f[x])]

\* The name field is not in the document itself.
FirestoreEncode(c, d) == IF c.func THEN d.f ELSE Without(d.f, c.keyf[1])

\* Neither is the ID field.
MongoEncode(c, d) == IF c.func THEN d.f ELSE Without(d.f, c.keyf[1])

encodeDoc(c, d) ==
  CASE c.driver = "mem" -> d.f
    [] c.driver = "dynamo" -> DynamoEncode(d)
    [] c.driver = "firestore" -> FirestoreEncode(c, d)
    [] c.driver = "mongo" -> MongoEncode(c, d)

\* The fields of the document at key that a driver is given for field paths.
Fetched(c, key, fps) == IF fps = {} THEN c.docs[key].f ELSE Project(c.docs[key].f, fps)

\* The key fields are always asked for.
DynamoFetched(c, key, fps) ==
  Fetched(c, key, IF fps = {} THEN {} ELSE fps \union {<<c.keyf[i]>> : i \in DOMAIN c.keyf})

\* The revision field is always asked for.
projectionDoc(c, fps) == IF fps = {} THEN {} ELSE fps \union {<<c.rev>>}

FirestoreDecode(c, key, f, d) ==
  LET r == Decode(c, d, IF c.func THEN f ELSE (c.keyf[1] :> key[1]) @@ f)
  IN  IF r.err = "OK" /\ HasField(r.doc, c.rev)
      THEN [r EXCEPT !.doc = SetField(@, c.rev, c.docs[key].ver)] ELSE r

MongoDecode(c, key, f, d) == Decode(c, d, IF c.func THEN f ELSE (c.keyf[1] :> key[1]) @@ f)

decodeDoc(c, key, fps, d) ==
  CASE c.driver = "mem" -> Decode(c, d, Fetched(c, key, fps))
    [] c.driver = "dynamo" -> Decode(c, d, DynamoFetched(c, key, fps))
    [] c.driver = "firestore" -> FirestoreDecode(c, key, Fetched(c, key, fps), d)
    [] c.driver = "mongo" -> MongoDecode(c, key, Fetched(c, key, projectionDoc(c, fps)), d)

\* The collection with f stored at key.  Every driver but firestore keeps the
\* revision in the document, and only if the writer's document has the field.
Store(c, key, f, tracked) ==
  LET r == Rev(c.next)
      g == IF tracked /\ c.driver # "firestore" THEN (c.rev :> r) @@ f ELSE f
  IN  [c EXCEPT !.docs = (key :> [f |-> g, ver |-> r]) @@ @, !.next = @ + 1]

---------------------------------------------------------------------------
(* A run of a list.  c, docs and errs change on the way; more holds the    *)
(* errors that belong to no single action; before tells that the BeforeDo  *)
(* callback of the list returns an error; base is c.next at the start.     *)

Fail(s, a, e) == [s EXCEPT !.errs = (a.idx :> e) @@ @]
FailAll(s, as, e) ==
  [s EXCEPT !.errs = [i \in DOMAIN @ |-> IF \E j \in DOMAIN as : as[j].idx = i THEN e ELSE @[i]]]

\* The action's document learns the revision of the write (and a new key).
Told(s, a, key) ==
  LET d == s.docs[a.idx]
      r == IF key \in DOMAIN s.c.docs THEN s.c.docs[key].ver ELSE Rev(0)
      keyed == IF a.key = NoKey THEN SetField(d, s.c.keyf[1], key[1]) ELSE d
  IN  [s EXCEPT !.docs = (a.idx :> IF HasField(d, s.c.rev) THEN SetField(keyed, s.c.rev, r) ELSE keyed) @@ @]

\* A key made for a Create without one (driver.UniqueString).
NewKey(s, a) == IF a.key = NoKey THEN <<Str(Unique * s.base + a.idx)>> ELSE a.key

\* The document as it is stored: with its new key where the key is a field.
NewFields(s, a, key) ==
  LET f == encodeDoc(s.c, s.docs[a.idx])
  IN  IF a.key = NoKey /\ ~KeyApart(s.c) THEN (s.c.keyf[1] :> key[1]) @@ f ELSE f

\* What an Update makes of the fields of a document.  The paths are apart, so
\* their order does not matter: memdocstore goes through them, Firestore gets
\* the increments as transforms that follow the write, MongoDB gets sets,
\* unsets and increments in one document, DynamoDB in one expression.
Mods(mods, P(_)) == Those(mods, {i \in DOMAIN mods : P(mods[i].v)})
isInc(v) == v[1] = "inc"

processMods(f, mods) ==
  ApplyMods(ApplyMods(f, Mods(mods, LAMBDA v : ~isInc(v))), Mods(mods, isInc))

newUpdateDoc(f, mods) ==
  LET sets == Mods(mods, LAMBDA v : ~isInc(v) /\ v # Nil)
      unsets == Mods(mods, LAMBDA v : v = Nil)
  IN  ApplyMods(ApplyMods(ApplyMods(f, sets), unsets), Mods(mods, isInc))

Updated(c, f, mods) ==
  CASE c.driver = "firestore" -> processMods(f, mods)
    [] c.driver = "mongo" -> newUpdateDoc(f, mods)
    [] OTHER -> ApplyMods(f, mods)

\* The write itself, once nothing stands against it.
Apply(s, a) ==
  LET c == s.c
      key == NewKey(s, a)
      tracked == HasField(s.docs[a.idx], c.rev)
  IN  CASE a.kind = "Delete" -> [s EXCEPT !.c.docs = Without(@, key)]
        [] a.kind = "Update" -> [s EXCEPT !.c = Store(c, key, Updated(c, c.docs[key].f, a.mods), tracked)]
        [] OTHER -> [s EXCEPT !.c = Store(c, key, NewFields(s, a, key), tracked)]

ApplyTold(s, a) == Told(Apply(s, a), a, NewKey(s, a))

GetOne(s, a) ==
  IF a.key \notin DOMAIN s.c.docs THEN Fail(s, a, "NotFound")
  ELSE LET r == decodeDoc(s.c, a.key, a.fps, s.docs[a.idx])
       IN  [s EXCEPT !.errs = (a.idx :> r.err) @@ @, !.docs = (a.idx :> r.doc) @@ @]

---------------------------------------------------------------------------
(* memdocstore *)

MemCheckRevision(s, a) ==
  LET d == s.docs[a.idx]
      want == GetField(d, s.c.rev)
  IN  IF a.key \notin DOMAIN s.c.docs \/ want = Nil THEN "OK"
      ELSE IF s.c.rev \notin DOMAIN s.c.docs[a.key].f THEN "OK"
      ELSE IF want[1] # "r" THEN "InvalidArgument"
      ELSE IF want # s.c.docs[a.key].f[s.c.rev] THEN "FailedPrecondition" ELSE "OK"

\* A modification below a field that is not there writes to a nil map.
MemUpdate(f, mods) ==
  IF \E i \in DOMAIN mods : ParentMap(f, mods[i].fp) = "bad" THEN "InvalidArgument"
  ELSE IF \E i \in DOMAIN mods : ParentMap(f, mods[i].fp) = "nil" /\ mods[i].v # Nil THEN "panic"
  ELSE "OK"

MemExecuteAction(s, a) ==
  IF a.kind = "Create" /\ a.key \in DOMAIN s.c.docs THEN Fail(s, a, "AlreadyExists")
  ELSE IF a.kind = "Delete" THEN Apply(s, a)
  ELSE IF a.kind = "Update" /\ MemUpdate(s.c.docs[a.key].f, a.mods) # "OK"
  THEN Fail(s, a, MemUpdate(s.c.docs[a.key].f, a.mods))
  ELSE ApplyTold(s, a)

MemMissing(s, a) == a.kind \in {"Replace", "Update"} /\ a.key \notin DOMAIN s.c.docs

MemRunAction(s, a) ==
  IF MemMissing(s, a) THEN Fail(s, a, "NotFound")
  ELSE IF a.kind # "Create" /\ MemCheckRevision(s, a) # "OK" THEN Fail(s, a, MemCheckRevision(s, a))
  ELSE MemExecuteAction(s, a)

\* The actions are checked first, then executed until one fails; what was
\* executed before stays.
RECURSIVE MemExecuteAll(_, _, _)
MemExecuteAll(s, as, rest) ==
  IF rest = << >> THEN s
  ELSE LET t == MemExecuteAction(s, Head(rest))
           e == t.errs[Head(rest).idx]
       IN  IF e # "OK" THEN FailAll(t, as, e) ELSE MemExecuteAll(t, as, Tail(rest))

MemRunAtomicWrites(s, as) ==
  LET bad == {i \in DOMAIN as : MemMissing(s, as[i]) \/ MemCheckRevision(s, as[i]) # "OK"}
      i == CHOOSE j \in bad : \A k \in bad : j <= k
  IN  IF bad = {} THEN MemExecuteAll(s, as, as)
      ELSE FailAll(s, as, IF MemMissing(s, as[i]) THEN "NotFound" ELSE MemCheckRevision(s, as[i]))

---------------------------------------------------------------------------
(* Preconditions, as the cloud services check them *)

\* What must hold of the stored document; "bad" for a revision of another type.
\* Without a revision, only what the kind of action asks for.
Precondition(a, revision) ==
  IF a.kind = "Create" THEN <<"absent">>
  ELSE IF revision = <<"none">> /\ a.kind \in {"Replace", "Update"} THEN <<"exists">>
  ELSE revision

\* The revision field may be missing or nil.
revisionPrecondition(s, a) ==
  LET r == GetField(s.docs[a.idx], s.c.rev)
  IN  IF r = Nil THEN <<"none">> ELSE IF r[1] # "r" THEN <<"bad">> ELSE <<"rev", r>>

\* A zero timestamp is no revision either.
revisionTimestamp(s, a) ==
  IF GetField(s.docs[a.idx], s.c.rev) = Rev(0) THEN <<"none">> ELSE revisionPrecondition(s, a)

\* External: the revision of a stored document, as the service compares it.
Current(c, key) ==
  IF c.driver = "firestore" THEN c.docs[key].ver
  ELSE IF c.rev \in DOMAIN c.docs[key].f THEN c.docs[key].f[c.rev] ELSE Nil

Holds(c, key, cond) ==
  CASE cond[1] = "none" -> TRUE
    [] cond[1] = "absent" -> key \notin DOMAIN c.docs
    [] cond[1] = "exists" -> key \in DOMAIN c.docs
    [] cond[1] = "rev" -> key \in DOMAIN c.docs /\ Current(c, key) = cond[2]

---------------------------------------------------------------------------
(* awsdynamodb *)

DynamoPrecondition(s, a) == Precondition(a, revisionPrecondition(s, a))

\* The number of the key field that the encoded document lacks, 0 for none.
missingKeyField(s, a) ==
  LET f == DynamoEncode(s.docs[a.idx])
      missing == {i \in DOMAIN s.c.keyf : s.c.keyf[i] \notin DOMAIN f \/ f[s.c.keyf[i]] = Nil}
  IN  IF missing = {} THEN 0 ELSE CHOOSE i \in missing : \A j \in missing : i <= j

\* The errors of building a write, before any call.  A Create makes up the
\* partition key but not the sort key.
newPut(s, a) ==
  LET mf == missingKeyField(s, a)
  IN  IF mf # 0 /\ ~(mf = 1 /\ a.kind = "Create") THEN "Unknown"
      ELSE IF DynamoPrecondition(s, a) = <<"bad">> THEN "InvalidArgument" ELSE "OK"

encodeDocKeyFields(s, a) ==
  IF \A i \in DOMAIN s.c.keyf : HasField(s.docs[a.idx], s.c.keyf[i]) THEN "OK" ELSE "NotFound"

newDelete(s, a) ==
  IF encodeDocKeyFields(s, a) # "OK" THEN "NotFound"
  ELSE IF DynamoPrecondition(s, a) = <<"bad">> THEN "InvalidArgument" ELSE "OK"

newUpdate(s, a) ==
  IF encodeDocKeyFields(s, a) # "OK" THEN "NotFound"
  ELSE IF DynamoPrecondition(s, a) = <<"bad">> THEN "InvalidArgument" ELSE "OK"

newWriteOp(s, a) ==
  CASE a.kind = "Delete" -> newDelete(s, a)
    [] a.kind = "Update" -> newUpdate(s, a)
    [] OTHER -> newPut(s, a)

\* External: UpdateItem refuses to set a field of a map that is not there, and
\* every call a key attribute that is null.
DynamoRefuses(s, a) ==
  \/ /\ a.kind = "Update"
     /\ \E i \in DOMAIN a.mods : ParentMap(s.c.docs[a.key].f, a.mods[i].fp) # "map"
  \/ Len(s.c.keyf) = 2 /\ IsEmptyValue(GetField(s.docs[a.idx], s.c.keyf[2]))

\* A Delete makes no revision.
onSuccess(s, a) == IF a.kind = "Delete" THEN Apply(s, a) ELSE ApplyTold(s, a)

\* The codes of the exceptions that the calls meet here.
DynamoErrorCode ==
  [ConditionalCheckFailed |-> "FailedPrecondition", TransactionCanceled |-> "FailedPrecondition",
   Validation |-> "InvalidArgument"]

\* Of a put, the error tells a document that exists from one that does not.
runPut(s, a) ==
  IF a.kind = "Create" THEN "AlreadyExists"
  ELSE IF a.kind = "Replace" /\ GetField(s.docs[a.idx], s.c.rev) = Nil THEN "NotFound"
  ELSE DynamoErrorCode.ConditionalCheckFailed

DynamoWrite(s, a) ==
  IF newWriteOp(s, a) # "OK" THEN Fail(s, a, newWriteOp(s, a))
  ELSE IF s.before THEN Fail(s, a, "Unknown")
  ELSE IF ~Holds(s.c, NewKey(s, a), DynamoPrecondition(s, a)) THEN Fail(s, a, runPut(s, a))
  ELSE IF DynamoRefuses(s, a) THEN Fail(s, a, DynamoErrorCode.Validation)
  ELSE onSuccess(s, a)

transactWrite(s, as) ==
  LET bad == {i \in DOMAIN as : newWriteOp(s, as[i]) # "OK"}
  IN  IF bad # {} THEN FailAll(s, as, newWriteOp(s, as[CHOOSE i \in bad : \A j \in bad : i <= j]))
      ELSE IF s.before THEN FailAll(s, as, "Unknown")
      ELSE IF \E i \in DOMAIN as : ~Holds(s.c, as[i].key, DynamoPrecondition(s, as[i]))
      THEN FailAll(s, as, DynamoErrorCode.TransactionCanceled)
      ELSE IF \E i \in DOMAIN as : DynamoRefuses(s, as[i]) THEN FailAll(s, as, DynamoErrorCode.Validation)
      ELSE FoldLeft(onSuccess, s, as)

---------------------------------------------------------------------------
(* gcpfirestore *)

FirestorePrecondition(s, a) == Precondition(a, revisionTimestamp(s, a))

FirestoreFailure(s, a) ==
  IF a.kind = "Create" THEN "AlreadyExists"
  ELSE IF a.key \notin DOMAIN s.c.docs THEN "NotFound" ELSE "FailedPrecondition"

\* One Commit: all its writes happen, or none does and every action of the
\* call gets the error.
doCommitCall(s, as) ==
  LET bad == {i \in DOMAIN as : ~Holds(s.c, NewKey(s, as[i]), FirestorePrecondition(s, as[i]))}
  IN  IF as = << >> THEN s
      ELSE IF s.before THEN FailAll(s, as, "Unknown")
      ELSE IF bad = {} THEN FoldLeft(ApplyTold, s, as)
      ELSE FailAll(s, as, FirestoreFailure(s, as[CHOOSE i \in bad : \A j \in bad : i <= j]))

CommitOne(s, a) == doCommitCall(s, <<a>>)

\* Slip: the writes with a precondition share a call too.
buildOneCommitCall(s, as) == doCommitCall(s, as)

\* Writes without a precondition share a call; the others have one each.
buildCommitCalls(s, as) ==
  LET having(kinds) == Those(as, {i \in DOMAIN as : FirestorePrecondition(s, as[i])[1] \in kinds})
      bad == having({"bad"})
      free == having({"none"})
      held == having({"absent", "exists", "rev"})
  IN  doCommitCall(FoldLeft(CommitOne, FailAll(s, bad, "InvalidArgument"), held), free)

\* An action that cannot be encoded gets its error; the others get none,
\* and nothing is sent.
buildAtomicWritesCommitCall(s, as) ==
  LET bad == {i \in DOMAIN as : FirestorePrecondition(s, as[i]) = <<"bad">>}
  IN  IF bad # {} THEN Fail(s, as[CHOOSE i \in bad : \A j \in bad : i <= j], "InvalidArgument")
      ELSE doCommitCall(s, as)

---------------------------------------------------------------------------
(* mongodocstore *)

\* makeFilter: the document with the key, and with the revision if there is one.
MongoMatches(s, a) ==
  LET r == GetField(s.docs[a.idx], s.c.rev)
  IN  /\ a.key \in DOMAIN s.c.docs
      /\ r # Nil => Current(s.c, a.key) = r

\* The models of a bulk write, by what each does to the collection: an insert,
\* or a write of the document that the filter matches.
newCreateModel(s, a) == IF a.key \in DOMAIN s.c.docs THEN s ELSE Apply(s, a)
newDeleteModel(s, a) == IF MongoMatches(s, a) THEN Apply(s, a) ELSE s
newReplaceModel(s, a, upsert) == IF MongoMatches(s, a) \/ upsert THEN Apply(s, a) ELSE s
newUpdateModel(s, a) == IF MongoMatches(s, a) THEN Apply(s, a) ELSE s

MongoModel(s, a) ==
  CASE a.kind = "Create" -> newCreateModel(s, a)
    [] a.kind = "Delete" -> newDeleteModel(s, a)
    [] a.kind = "Update" -> newUpdateModel(s, a)
    [] OTHER -> newReplaceModel(s, a, a.kind = "Put")

MongoDuplicate(s, a) == a.kind = "Create" /\ a.key \in DOMAIN s.c.docs
MongoUnmatched(s, a) == a.kind \in {"Replace", "Update"} /\ ~MongoMatches(s, a)

\* A Delete with a revision whose document is still there had the wrong one.
determineDeleteErrors(s, as) ==
  Those(as, {i \in DOMAIN as : /\ as[i].kind = "Delete" /\ as[i].key \in DOMAIN s.c.docs
                               /\ GetField(s.docs[as[i].idx], s.c.rev) # Nil})

\* The documents learn their new keys and revisions, where nothing matched too:
\* Rev(0) is a revision no stored document has.
MongoTold(s, t, a) ==
  IF a.kind = "Delete" THEN t
  ELSE IF ~MongoUnmatched(s, a) THEN Told(t, a, NewKey(t, a))
  ELSE IF HasField(t.docs[a.idx], t.c.rev)
  THEN [t EXCEPT !.docs = (a.idx :> SetField(t.docs[a.idx], t.c.rev, Rev(0))) @@ @] ELSE t

\* A write error ends the bookkeeping: no document learns its revision.
bulkWrite(s, as) ==
  LET t == FoldLeft(MongoModel, s, as)
      dups == Those(as, {i \in DOMAIN as : MongoDuplicate(s, as[i])})
      told == FoldLeft(LAMBDA u, a : MongoTold(s, u, a), t, as)
      failed == FailAll(told, determineDeleteErrors(told, as), "FailedPrecondition")
  IN  IF as = << >> THEN s
      ELSE IF s.before THEN [s EXCEPT !.more = Append(@, "Unknown")]
      ELSE IF dups # << >> THEN [t EXCEPT !.more = [i \in DOMAIN dups |-> "AlreadyExists"]]
      ELSE IF \E i \in DOMAIN as : MongoUnmatched(s, as[i])
      THEN [failed EXCEPT !.more = Append(@, "NotFound")] ELSE failed

\* One transaction, ended by its first write error.  The check of the deletes
\* reads outside the transaction, and what it finds does not abort it.  The
\* error of BeforeDo is returned to a caller that drops it; no document learns
\* its revision.
txWrite(s, as) ==
  LET dups == {i \in DOMAIN as : MongoDuplicate(s, as[i])}
      reached(i) == \A j \in dups : i <= j
      unmatched == \E i \in DOMAIN as : /\ as[i].kind \notin {"Create", "Delete"}
                                        /\ MongoUnmatched(s, as[i]) \/ ~reached(i)
      undeleted == \E i \in DOMAIN as : /\ as[i].kind = "Delete"
                                        /\ ~MongoMatches(s, as[i]) \/ ~reached(i)
      wrong == undeleted /\ determineDeleteErrors(s, as) # << >>
      t == IF wrong THEN FailAll(s, as, "FailedPrecondition") ELSE s
  IN  IF as = << >> \/ s.before THEN s
      ELSE IF unmatched THEN FailAll(s, as, "NotFound")
      ELSE IF dups # {} THEN FailAll(s, as, "Unknown")
      ELSE FoldLeft(MongoModel, t, as)

---------------------------------------------------------------------------
(* RunActions *)

\* A get before a write of the same document happens before all writes, one
\* after it after them.  A Create without a key is never in the transaction.
GroupActions(as) ==
  LET writes(a, b) == b.kind # "Get" /\ b.key = a.key
      isGet(a) == a.kind = "Get"
      wrote(a) == \E i \in DOMAIN as : writes(a, as[i]) /\ as[i].idx < a.idx
      writesLater(a) == \E i \in DOMAIN as : writes(a, as[i]) /\ as[i].idx > a.idx
      keyed(a) == ~isGet(a) /\ a.key # NoKey
      those(P(_)) == Those(as, {i \in DOMAIN as : P(as[i])})
  IN  [before |-> those(LAMBDA a : isGet(a) /\ ~wrote(a) /\ writesLater(a)),
       gets |-> those(LAMBDA a : isGet(a) /\ ~wrote(a) /\ ~writesLater(a)),
       writes |-> those(LAMBDA a : keyed(a) /\ ~a.tx) \o those(LAMBDA a : a.key = NoKey),
       tx |-> those(LAMBDA a : keyed(a) /\ a.tx),
       after |-> those(LAMBDA a : isGet(a) /\ wrote(a))]

runGets(s, as) == IF s.before THEN FailAll(s, as, "Unknown") ELSE FoldLeft(GetOne, s, as)

runWrites(s, as) ==
  CASE s.c.driver = "mem" -> FoldLeft(MemRunAction, s, as)
    [] s.c.driver = "dynamo" -> FoldLeft(DynamoWrite, s, as)
    [] s.c.driver = "firestore" -> buildCommitCalls(s, as)
    [] s.c.driver = "mongo" -> bulkWrite(s, as)

runWritesTx(s, as) ==
  IF as = << >> THEN s
  ELSE CASE s.c.driver = "mem" -> MemRunAtomicWrites(s, as)
         [] s.c.driver = "dynamo" -> transactWrite(s, as)
         [] s.c.driver = "firestore" -> buildAtomicWritesCommitCall(s, as)
         [] s.c.driver = "mongo" -> txWrite(s, as)

RunActions(c, as, docs, before) ==
  LET g == GroupActions(as)
      s == [c |-> c, docs |-> docs, errs |-> [i \in DOMAIN docs |-> "OK"], more |-> << >>,
            before |-> before, base |-> c.next]
  IN  IF c.driver = "mem" /\ before THEN FailAll(s, as, "Unknown")
      ELSE runGets(runWritesTx(runWrites(runGets(runGets(s, g.before), g.gets), g.writes), g.tx),
                   g.after)
================================================================================
