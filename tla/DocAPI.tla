--------------------------------- MODULE DocAPI ---------------------------------
(***************************************************************************)
(* The portable docstore API on top of the drivers of DocDrivers: the      *)
(* checks of an action list before it reaches the driver, the codes of its *)
(* errors, revisions as strings, and queries: how one is built, and what   *)
(* the driver of the collection does with it.                              *)
(*                                                                         *)
(* opts of a collection: scans (AllowScans of awsdynamodb), fallback (an   *)
(* InMemorySortFallback is set), localFilters (AllowLocalFilters of        *)
(* gcpfirestore), local and global (the secondary indexes of the table, as *)
(* sort keys and as pairs of partition and sort key; all of them project   *)
(* all fields).                                                            *)
(***************************************************************************)
EXTENDS DocDrivers

\* A collection of the test harness; two key fields mean a key function.
NewColl(driver, keyf, rev) ==
  [driver |-> driver, keyf |-> keyf, func |-> Len(keyf) = 2, rev |-> rev,
   docs |-> [k \in {} |-> Nil], next |-> 1,
   opts |-> [scans |-> TRUE, fallback |-> Len(keyf) = 2, localFilters |-> Len(keyf) = 2,
             local |-> IF Len(keyf) = 2 THEN {"Score"} ELSE {},
             global |-> IF Len(keyf) = 2 THEN {<<"Player", "Time">>} ELSE {}]]

---------------------------------------------------------------------------
(* Action lists *)

Action(kind, d) == [kind |-> kind, doc |-> d, fps |-> {}, mods |-> << >>, tx |-> FALSE]
GetAction(d, fps) == [Action("Get", d) EXCEPT !.fps = fps]
UpdateAction(d, mods) == [Action("Update", d) EXCEPT !.mods = mods]
Mod(fp, v) == [fp |-> fp, v |-> v]

\* A field path is refused if it, or one of its components, is empty.
parseFieldPath(fp) == IF fp = << >> \/ (\E i \in DOMAIN fp : fp[i] = "") THEN "InvalidArgument" ELSE "OK"

\* The modifications come in the order of their paths.
toDriverMods(mods) ==
  IF \/ mods = << >>
     \/ \E i \in DOMAIN mods : parseFieldPath(mods[i].fp) # "OK"
     \/ \E i, j \in DOMAIN mods : i < j /\ IsPrefix(mods[i].fp, mods[j].fp)
     \/ \E i \in DOMAIN mods : mods[i].v[1] = "inc" /\ mods[i].v[2][1] # "n"
  THEN "InvalidArgument" ELSE "OK"

\* Slip: a Put whose document has a revision stays a Put.
DriverKindPut(c, a) == a.kind

\* The kind of action the driver sees: a Put with a revision is a Replace.
DriverKind(c, a) ==
  IF a.kind = "Put" /\ GetField(a.doc, c.rev) # Nil THEN "Replace" ELSE a.kind

\* The error that keeps an action from the driver, if there is one.
toDriverAction(c, a) ==
  LET k == Key(c, a.doc)
  IN  IF \/ k.err # "OK"
         \/ k.key = NoKey /\ a.kind # "Create"
         \/ a.kind = "Create" /\ GetField(a.doc, c.rev) # Nil
         \/ \E fp \in a.fps : parseFieldPath(fp) # "OK"
         \/ a.kind = "Update" /\ toDriverMods(a.mods) # "OK"
      THEN "InvalidArgument" ELSE "OK"

\* An action list has at most one get and one write for a key.
toDriverActions(c, acts) ==
  LET key(i) == Key(c, acts[i].doc).key
      good(i) == toDriverAction(c, acts[i]) = "OK"
      seen(i) == \E j \in 1 .. i - 1 : /\ good(j) /\ key(j) = key(i) /\ key(i) # NoKey
                                       /\ (acts[j].kind = "Get") = (acts[i].kind = "Get")
  IN  [i \in DOMAIN acts |-> IF good(i) /\ ~seen(i) THEN "OK" ELSE "InvalidArgument"]

\* The collection, the documents and the errors after Do.  Nothing is run when
\* one of the actions is refused.
DoBefore(c, acts, before) ==
  LET errs == toDriverActions(c, acts)
      docs == [i \in DOMAIN acts |-> acts[i].doc]
  IN  IF \E i \in DOMAIN errs : errs[i] # "OK"
      THEN [c |-> c, docs |-> docs, errs |-> errs, more |-> << >>]
      ELSE RunActions(c, [i \in DOMAIN acts |->
                            [kind |-> DriverKind(c, acts[i]), idx |-> i,
                             key |-> Key(c, acts[i].doc).key, fps |-> acts[i].fps,
                             mods |-> acts[i].mods, tx |-> acts[i].tx]], docs, before)

Do(c, acts) == DoBefore(c, acts, FALSE)

\* AtomicWrites: the actions added after it.
Atomically(acts) == [i \in DOMAIN acts |-> [acts[i] EXCEPT !.tx = TRUE]]

\* gcerrors.Code of what Do returns: an ActionListError unwraps to its error
\* only if it has just one.
Code(r) ==
  LET all == r.errs \o r.more
      es == Those(all, {i \in DOMAIN all : all[i] # "OK"})
  IN  IF es = << >> THEN "OK" ELSE IF Len(es) = 1 THEN es[1] ELSE "Unknown"

\* The calls of one action (Collection.Create, Get, ...).
Do1(c, a) == Do(c, <<a>>)
Create(c, d) == Do1(c, Action("Create", d))
Put(c, d) == Do1(c, Action("Put", d))
Replace(c, d) == Do1(c, Action("Replace", d))
Delete(c, d) == Do1(c, Action("Delete", d))
Get(c, d, fps) == Do1(c, GetAction(d, fps))
Update(c, d, mods) == Do1(c, UpdateAction(d, mods))

\* A driver refuses what is not one of its revisions; the bytes of a revision
\* give the same revision back.
RevisionToBytes(c, rev) ==
  IF rev[1] = "r" THEN [err |-> "OK", bytes |-> <<"bytes", rev[2]>>]
  ELSE [err |-> "InvalidArgument", bytes |-> << >>]

BytesToRevision(c, bytes) == [err |-> "OK", rev |-> Rev(bytes[2])]

\* The string is the base64 of the bytes.
RevisionToString(c, rev) ==
  LET b == RevisionToBytes(c, rev)
  IN  IF rev = Nil \/ b.err # "OK" THEN [err |-> "InvalidArgument", str |-> << >>]
      ELSE [err |-> "OK", str |-> <<"base64", b.bytes>>]

StringToRevision(c, str) ==
  IF str = << >> THEN [err |-> "InvalidArgument", rev |-> Nil] ELSE BytesToRevision(c, str[2])

---------------------------------------------------------------------------
(* Building a query.  The first error stays, and Get reports it. *)

NewQuery ==
  [filters |-> << >>, fps |-> {}, offset |-> 0, limit |-> 0, order |-> "", asc |-> TRUE,
   err |-> "OK", before |-> FALSE]

invalidf(q) == [q EXCEPT !.err = "InvalidArgument"]

validFilterValue(v) == v[1] \in {"s", "n", "t"}
validEqualValue(v) == v[1] = "b" \/ validFilterValue(v)
validFilterSlice(v) == v[1] = "l" /\ \A i \in DOMAIN v[2] : validEqualValue(v[2][i])

validOp(op, v) ==
  \/ op = "=" /\ validEqualValue(v)
  \/ op \in {"<", "<=", ">", ">="} /\ validFilterValue(v)
  \/ op \in {"in", "not-in"} /\ validFilterSlice(v)

Where(q, fp, op, v) ==
  IF q.err # "OK" THEN q
  ELSE IF parseFieldPath(fp) # "OK" \/ ~validOp(op, v) THEN invalidf(q)
  ELSE [q EXCEPT !.filters = Append(@, [fp |-> fp, op |-> op, v |-> v])]

Offset(q, n) ==
  IF q.err # "OK" THEN q
  ELSE IF n < 0 \/ q.offset > 0 THEN invalidf(q) ELSE [q EXCEPT !.offset = n]

Limit(q, n) ==
  IF q.err # "OK" THEN q
  ELSE IF n <= 0 \/ q.limit > 0 THEN invalidf(q) ELSE [q EXCEPT !.limit = n]

OrderBy(q, field, direction) ==
  IF q.err # "OK" THEN q
  ELSE IF field = "" \/ direction \notin {"asc", "desc"} \/ q.order # "" THEN invalidf(q)
  ELSE [q EXCEPT !.order = field, !.asc = (direction = "asc")]

\* A query with a callback that fails, or does not.
BeforeQuery(q, fails) == [q EXCEPT !.before = fails]

initGet(q, fps) ==
  IF q.err # "OK" THEN q.err
  ELSE IF \/ \E fp \in fps : parseFieldPath(fp) # "OK"
          \/ /\ q.order # "" /\ q.filters # << >>
             /\ \A i \in DOMAIN q.filters : q.filters[i].fp # <<q.order>>
  THEN "InvalidArgument" ELSE "OK"

---------------------------------------------------------------------------
(* Comparing values *)

Comparable(x, y) == x[1] = y[1] /\ x[1] \in {"s", "n", "t", "b"}

Sign(n) == IF n < 0 THEN -1 ELSE IF n > 0 THEN 1 ELSE 0

CompareOne(x, y) ==
  IF x[1] = "b" THEN (IF x = y THEN 0 ELSE -1) ELSE Sign(x[2] - y[2])

\* Of a list, whether the value is in it.
compare(x, v) ==
  IF v[1] = "l"
  THEN IF \E i \in DOMAIN v[2] : Comparable(x, v[2][i]) /\ CompareOne(x, v[2][i]) = 0 THEN 0 ELSE -1
  ELSE CompareOne(x, v)

applyComparison(op, n) ==
  CASE op \in {"=", "in"} -> n = 0
    [] op = "not-in" -> n # 0
    [] op = "<" -> n < 0
    [] op = "<=" -> n <= 0
    [] op = ">" -> n > 0
    [] op = ">=" -> n >= 0

\* A filter on a field that is missing or of another kind does not match.
filterMatches(f, fields) ==
  LET x == getAtFieldPath(fields, f.fp)
  IN  /\ x # Nil
      /\ f.v[1] = "l" \/ Comparable(x, f.v)
      /\ applyComparison(f.op, compare(x, f.v))

filtersMatch(fs, fields) == \A i \in DOMAIN fs : filterMatches(fs[i], fields)

\* External: the cloud services compare as memdocstore does, but not-in holds
\* of a missing field in DynamoDB and MongoDB.
ServiceMatches(c, fs, fields) ==
  \A i \in DOMAIN fs :
    \/ filterMatches(fs[i], fields)
    \/ /\ fs[i].op = "not-in" /\ c.driver \in {"dynamo", "mongo"}
       /\ getAtFieldPath(fields, fs[i].fp) = Nil

---------------------------------------------------------------------------
(* Running a query: an error, or the keys of its documents in order.       *)
(* Where the order is left open, the order of the keys is taken.           *)

Failed(e) == [err |-> e, keys |-> << >>]
Found(keys) == [err |-> "OK", keys |-> keys]

\* The fields a filter is evaluated on.
Fields(c, key) ==
  IF KeyApart(c) THEN (c.keyf[1] :> key[1]) @@ c.docs[key].f ELSE c.docs[key].f

KeyBefore(k, l) ==
  \E i \in DOMAIN k : k[i][2] < l[i][2] /\ \A j \in 1 .. i - 1 : k[j] = l[j]

\* Whether the document at k comes before the one at l.
Before(c, order, asc, k, l) ==
  LET x == IF order = "" THEN Nil ELSE getAtFieldPath(c.docs[k].f, <<order>>)
      y == IF order = "" THEN Nil ELSE getAtFieldPath(c.docs[l].f, <<order>>)
      n == IF Comparable(x, y) THEN CompareOne(x, y) ELSE 0
  IN  IF n = 0 THEN KeyBefore(k, l) ELSE (n < 0) = asc

sortDocs(c, keys, order, asc) ==
  LET place(k) == Cardinality({l \in keys : Before(c, order, asc, l, k)})
  IN  [i \in 1 .. Cardinality(keys) |-> CHOOSE k \in keys : place(k) = i - 1]

\* Offset, then limit.
Window(q, keys) ==
  LET rest == SubSeq(keys, q.offset + 1, Len(keys))
  IN  IF q.limit > 0 /\ Len(rest) > q.limit THEN SubSeq(rest, 1, q.limit) ELSE rest

MemRunGetQuery(c, q) ==
  IF q.before THEN Failed("Unknown")
  ELSE LET matching == {k \in DOMAIN c.docs : filtersMatch(q.filters, c.docs[k].f)}
       IN  Found(Window(q, sortDocs(c, matching, q.order, q.asc)))

---------------------------------------------------------------------------
(* awsdynamodb *)

hasFilter(q, field) == \E i \in DOMAIN q.filters : q.filters[i].fp = <<field>>
hasEqualityFilter(q, field) ==
  \E i \in DOMAIN q.filters : q.filters[i].fp = <<field>> /\ q.filters[i].op = "="
orderingConsistent(q, field) == q.order \in {"", field}

\* The partition and the sort key of the table or index to query, "" for a scan.
bestQueryable(c, q) ==
  LET pkey == c.keyf[1]
      skey == IF Len(c.keyf) = 2 THEN c.keyf[2] ELSE ""
      locals == {s \in c.opts.local : hasFilter(q, s) /\ orderingConsistent(q, s)}
      globals == {g \in c.opts.global : hasEqualityFilter(q, g[1]) /\ orderingConsistent(q, g[2])}
      both == {g \in globals : hasFilter(q, g[2])}
  IN  IF hasEqualityFilter(q, pkey) /\ hasFilter(q, skey) /\ orderingConsistent(q, skey)
      THEN <<pkey, skey>>
      ELSE IF hasEqualityFilter(q, pkey) /\ locals # {} THEN <<pkey, CHOOSE s \in locals : TRUE>>
      ELSE IF both # {} THEN CHOOSE g \in both : TRUE
      ELSE IF hasEqualityFilter(q, pkey) /\ orderingConsistent(q, skey) THEN <<pkey, skey>>
      ELSE IF globals # {} THEN CHOOSE g \in globals : TRUE
      ELSE <<"", "">>

\* The filters on the keys of the index become its key conditions, except the
\* ones with a list.
toKeyCondition(f, index) ==
  f.fp \in {<<index[1]>>, <<index[2]>>} /\ f.op \notin {"in", "not-in"}

\* External: the service takes one condition on the partition key and at most
\* one on the sort key.
KeyConditionsFit(fs, index) ==
  LET on(field) == {i \in DOMAIN fs : fs[i].fp = <<field>>}
  IN  Cardinality(on(index[1])) = 1 /\ Cardinality(on(index[2])) <= 1

\* Key conditions, which the documents of an index are found by, and filters.
processFilters(fs, index) ==
  LET onKeys == {i \in DOMAIN fs : toKeyCondition(fs[i], index)}
  IN  [key |-> Those(fs, onKeys), filter |-> Those(fs, DOMAIN fs \ onKeys)]

\* A scan with a filter must be allowed.
checkPlan(c, q, index) ==
  IF index[1] = "" /\ q.filters # << >> /\ ~c.opts.scans THEN "InvalidArgument" ELSE "OK"

\* The iterator skips offset documents and counts to the limit over the pages
\* of the answer.
documentIterator(q, keys) == Window(q, keys)

\* The scan or query that was planned.  A document without the sort key of an
\* index is not in it.
DynamoRun(c, q) ==
  LET index == bestQueryable(c, q)
      split == processFilters(q.filters, index)
      matching(fs) == {k \in DOMAIN c.docs : ServiceMatches(c, fs, c.docs[k].f)}
      indexed == {k \in matching(split.key) : index[2] # "" => getAtFieldPath(c.docs[k].f, <<index[2]>>) # Nil}
  IN  IF checkPlan(c, q, index) # "OK" THEN Failed(checkPlan(c, q, index))
      ELSE IF q.before THEN Failed("Unknown")
      ELSE IF index[1] = "" THEN Found(documentIterator(q, sortDocs(c, matching(q.filters), "", TRUE)))
      ELSE IF ~KeyConditionsFit(split.key, index) THEN Failed("InvalidArgument")
      ELSE Found(documentIterator(q, sortDocs(c, indexed \cap matching(split.filter), index[2],
                                              q.asc \/ q.order = "")))

\* The documents of the query without its order, sorted in memory.
InMemorySortFallback(c, q) ==
  LET r == DynamoRun(c, [q EXCEPT !.order = ""])
  IN  IF r.err # "OK" THEN r
      ELSE IF \E k \in ToSet(r.keys) : q.order \notin DOMAIN c.docs[k].f THEN Failed("Unknown")
      ELSE Found(sortDocs(c, ToSet(r.keys), q.order, q.asc))

DynamoRunGetQuery(c, q) ==
  IF bestQueryable(c, q)[1] # "" \/ q.order = "" THEN DynamoRun(c, q)
  ELSE IF c.opts.fallback THEN InMemorySortFallback(c, q) ELSE Failed("Unimplemented")

---------------------------------------------------------------------------
(* gcpfirestore *)

\* Only one field may have an inequality at the service: the others are local.
splitFilters(fs) ==
  LET ranges == {i \in DOMAIN fs : fs[i].op # "="}
      first == CHOOSE i \in ranges : \A j \in ranges : i <= j
      sent == {i \in DOMAIN fs : i \in ranges => fs[i].fp = fs[first].fp}
  IN  [send |-> Those(fs, sent), local |-> Those(fs, DOMAIN fs \ sent)]

\* A filter on the name field compares names.
filterToProto(c, f) ==
  IF KeyApart(c) /\ f.fp = c.keyf /\ f.v[1] # "s" THEN "InvalidArgument" ELSE "OK"

\* The error of converting the query, "OK" if there is none.
queryToProto(c, q) ==
  LET split == splitFilters(q.filters)
  IN  IF \/ split.local # << >> /\ ~c.opts.localFilters
         \/ \E i \in DOMAIN split.send : filterToProto(c, split.send[i]) # "OK"
      THEN "InvalidArgument" ELSE "OK"

\* A local filter on a missing field, or one of another kind, is false; in and
\* not-in are not among the comparisons it knows.
evaluateFilter(f, fields) ==
  LET x == getAtFieldPath(fields, f.fp)
  IN  x # Nil /\ Comparable(x, f.v) /\ applyComparison(f.op, CompareOne(x, f.v))

\* The local filters see the part of the document that was asked for.
evaluateLocalFilters(c, q, local, key) ==
  LET fields == FirestoreDecode(c, key, Fetched(c, key, q.fps), MapDoc(Empty)).doc.f
  IN  \A i \in DOMAIN local : evaluateFilter(local[i], fields)

\* They see what the service has skipped and limited.
FirestoreRunGetQuery(c, q) ==
  LET split == splitFilters(q.filters)
      sent == {k \in DOMAIN c.docs : /\ ServiceMatches(c, split.send, Fields(c, k))
                                     /\ q.order = "" \/ q.order \in DOMAIN Fields(c, k)}
      page == Window(q, sortDocs(c, sent, q.order, q.asc))
  IN  IF queryToProto(c, q) # "OK" THEN Failed(queryToProto(c, q))
      ELSE IF q.before THEN Failed("Unknown")
      ELSE IF page # << >> /\ \E i \in DOMAIN split.local : split.local[i].op \in {"in", "not-in"}
      THEN Failed("panic")
      ELSE Found(Those(page, {i \in DOMAIN page : evaluateLocalFilters(c, q, split.local, page[i])}))

---------------------------------------------------------------------------
(* mongodocstore *)

\* A filter on the ID field is one on the key of the stored document.
filterToBSON(c, f) == IF ~c.func /\ f.fp = c.keyf THEN [f EXCEPT !.fp = <<"_id">>] ELSE f

MongoMatchesAll(c, fs, key) ==
  ServiceMatches(c, [i \in DOMAIN fs |-> filterToBSON(c, fs[i])], ("_id" :> key[1]) @@ c.docs[key].f)

\* OrderBy names a field of the stored document, which the ID field is not.
MongoRunGetQuery(c, q) ==
  IF q.before THEN Failed("Unknown")
  ELSE Found(Window(q, sortDocs(c, {k \in DOMAIN c.docs : MongoMatchesAll(c, q.filters, k)},
                                q.order, q.asc)))

---------------------------------------------------------------------------
(* Query.Get and the iterator *)

RunGetQuery(c, q) ==
  CASE c.driver = "mem" -> MemRunGetQuery(c, q)
    [] c.driver = "dynamo" -> DynamoRunGetQuery(c, q)
    [] c.driver = "firestore" -> FirestoreRunGetQuery(c, q)
    [] c.driver = "mongo" -> MongoRunGetQuery(c, q)

\* The field paths a query asks for: memdocstore adds the key field.
QueryPaths(c, fps) ==
  IF fps # {} /\ c.driver = "mem" /\ ~c.func THEN fps \union {c.keyf} ELSE fps

\* A DocumentIterator, for a caller with documents like d: what the iterator of
\* the driver still gives, what it then reports, and the error of the last Next.
QueryGet(c, q, fps, d) ==
  LET init == initGet(q, fps)
      r == RunGetQuery(c, [q EXCEPT !.fps = fps])
      all == [i \in DOMAIN r.keys |-> decodeDoc(c, r.keys[i], QueryPaths(c, fps), d)]
      bad == {i \in DOMAIN all : all[i].err # "OK"}
      n == IF bad = {} THEN Len(all) ELSE (CHOOSE i \in bad : \A j \in bad : i <= j) - 1
  IN  IF init # "OK" \/ r.err # "OK"
      THEN [err |-> IF init # "OK" THEN init ELSE r.err, rest |-> << >>, end |-> "EOF"]
      ELSE [err |-> "OK", rest |-> [i \in 1 .. n |-> all[i].doc],
            end |-> IF bad = {} THEN "EOF" ELSE all[n + 1].err]

\* DocumentIterator.Next: an error stays.
NextDoc(it) ==
  IF it.err # "OK" THEN it
  ELSE IF it.rest = << >> THEN [it EXCEPT !.err = it.end]
  ELSE [it EXCEPT !.rest = Tail(@)]

\* The documents a caller gets until Next reports an error; "OK" is the end.
Documents(c, q, fps, d) ==
  LET it == QueryGet(c, q, fps, d)
      end == IF it.err # "OK" THEN it.err ELSE it.end
  IN  [err |-> IF end = "EOF" THEN "OK" ELSE end, docs |-> it.rest]
================================================================================
