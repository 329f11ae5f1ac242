-------------------------------- MODULE DocCalls --------------------------------
(***************************************************************************)
(* Clients of one collection that call Do with short lists of actions, in  *)
(* any order, next to what the package documentation of docstore promises  *)
(* them.  Every client holds one document, with its revision, and several  *)
(* may hold the same one: a client whose revision is stale is to be        *)
(* refused, on every driver, in every list, and nothing else is.           *)
(***************************************************************************)
EXTENDS DocAPI

CONSTANTS
    DoActions(_, _, _), \* Collection.Do: a collection, actions, whether BeforeDo fails
    FindAll(_),      \* a query for all documents of a collection
    DocDriverNames,  \* the drivers to check
    AtomicDrivers,   \* those that do atomic writes together or not at all
    Clients,         \* a function from clients to the names of their documents
    MaxWrites        \* bound: writes to the collection

VARIABLES
    coll,   \* the collection
    held,   \* the document in the hands of each client
    ref,    \* what is to be stored: the value of x by name
    agrees  \* the last list failed or not, and read, as the documentation promises

DocKey(name) == <<Str(name)>>
Fresh(name) == MapDoc([name |-> Str(name)] @@ ("DocstoreRevision" :> Nil))

DocCallsInit ==
    /\ \E d \in DocDriverNames : coll = NewColl(d, <<"name">>, "DocstoreRevision")
    /\ held = [c \in DOMAIN Clients |-> Fresh(Clients[c])]
    /\ ref = Empty /\ agrees = TRUE

---------------------------------------------------------------------------
(* What a list is to do.  A client writes its own number.                  *)

revisionOf(c) == GetField(held[c], "DocstoreRevision")

\* The revision the client has is nil or that of the stored document.
UpToDate(c) ==
    revisionOf(c) \in {Nil} \union
        IF Clients[c] \in DOMAIN ref THEN {coll.docs[DocKey(Clients[c])].ver} ELSE {}

\* Whether a step of a list, <<client, kind>>, is to succeed: one or both.
Succeeds(step) ==
    LET c == step[1]
        exists == Clients[c] \in DOMAIN ref
    IN  CASE step[2] = "Create" -> {~exists}
          [] step[2] = "Get" -> {exists}
          [] step[2] = "Delete" -> IF ~exists /\ revisionOf(c) # Nil THEN BOOLEAN ELSE {UpToDate(c)}
          [] step[2] = "Put" -> {UpToDate(c)}
          [] OTHER -> {exists /\ UpToDate(c)}

After(r, step) ==
    IF step[2] = "Get" \/ Succeeds(step) # {TRUE} THEN r
    ELSE IF step[2] = "Delete" THEN Without(r, Clients[step[1]]) ELSE (Clients[step[1]] :> Str(step[1])) @@ r

\* What a get of the list reads: the value before or after the write of the
\* same document, as the list has them.
Reads(list) ==
    LET before(i) == IF i = 2 THEN After(ref, list[1]) ELSE ref
    IN  {<<i, before(i)[Clients[list[i][1]]]>> :
            i \in {j \in DOMAIN list : /\ list[j][2] = "Get"
                                       /\ Clients[list[j][1]] \in DOMAIN before(j)}}

\* A get that follows a write of its document depends on it.
Failures(list) ==
    LET ok == [i \in DOMAIN list |->
                 IF i = 2 /\ list[2][2] = "Get" THEN {Clients[list[2][1]] \in DOMAIN After(ref, list[1])}
                 ELSE Succeeds(list[i])]
    IN  {~\A i \in DOMAIN list : o[i] : o \in {f \in [DOMAIN list -> BOOLEAN] : \A i \in DOMAIN list : f[i] \in ok[i]}}

---------------------------------------------------------------------------
(* The calls.                                                              *)

ToAction(step) ==
    LET d == held[step[1]]
        v == Str(step[1])
    IN  CASE step[2] = "Get" -> GetAction(MapDoc([name |-> d.f.name]), {})
          [] step[2] = "Update" -> UpdateAction(d, <<Mod(<<"x">>, v)>>)
          [] OTHER -> Action(step[2], SetField(d, "x", v))

\* A list that toDriverActions takes: the clients are different, so are the
\* documents of two writes and of two gets, and a Create has no revision.
Fits(list) ==
    /\ \A i \in DOMAIN list : list[i][2] = "Create" => revisionOf(list[i][1]) = Nil
    /\ \A i, j \in DOMAIN list :
         i < j => /\ list[i][1] # list[j][1]
                  /\ Clients[list[i][1]] = Clients[list[j][1]] =>
                        (list[i][2] = "Get") # (list[j][2] = "Get")

\* Each client has its document as Do left it; one that deleted, or did not
\* find, its document goes on with a fresh one.
Left(list, r) ==
    [c \in DOMAIN Clients |->
       IF \E i \in DOMAIN list : list[i][1] = c
       THEN LET i == CHOOSE j \in DOMAIN list : list[j][1] = c
            IN  IF list[i][2] = "Delete" \/ (list[i][2] = "Get" /\ r.errs[i] # "OK")
                THEN Fresh(Clients[c]) ELSE r.docs[i]
       ELSE held[c]]

WasRead(list, r) ==
    {<<i, GetField(r.docs[i], "x")>> : i \in {j \in DOMAIN list : list[j][2] = "Get" /\ r.errs[j] = "OK"}}

Step(list, r, next, failures, read) ==
    /\ Fits(list) /\ coll.next <= MaxWrites
    /\ coll' = r.c /\ held' = Left(list, r) /\ ref' = next
    /\ agrees' = ((Code(r) # "OK") \in failures /\ WasRead(list, r) = read)

DoList(list) ==
    Step(list, DoActions(coll, [i \in DOMAIN list |-> ToAction(list[i])], FALSE),
         IF Len(list) = 1 THEN After(ref, list[1])
         ELSE IF list[2][2] = "Get" THEN After(ref, list[1]) ELSE After(After(ref, list[1]), list[2]),
         Failures(list), Reads(list))

\* Both writes, or none.  That is not so of memdocstore, which undoes nothing
\* when a write fails (AllOrNothing of DocStore), nor of mongodocstore, which
\* commits the other writes when a Delete has a stale revision (txWrite): no
\* client sends them such a list.
DoAtomically(list) ==
    /\ coll.driver \in AtomicDrivers
    /\ \A i \in DOMAIN list : list[i][2] # "Get" /\ Cardinality(Succeeds(list[i])) = 1
    /\ Step(list, DoActions(coll, Atomically([i \in DOMAIN list |-> ToAction(list[i])]), FALSE),
            IF \A i \in DOMAIN list : Succeeds(list[i]) = {TRUE}
            THEN After(After(ref, list[1]), list[2]) ELSE ref,
            Failures(list), {})

\* The BeforeDo callback of the list returns an error.
DoRefused(step) ==
    Step(<<step>>, DoActions(coll, <<ToAction(step)>>, TRUE), ref, {TRUE}, {})

Steps == (DOMAIN Clients) \X {"Create", "Put", "Replace", "Update", "Delete", "Get"}

\* Two writes come in the order of their clients.
DocCallsNext ==
    \/ \E s \in Steps : DoList(<<s>>)
    \/ \E s, t \in Steps : (s[1] < t[1] \/ "Get" \in {s[2], t[2]}) /\ DoList(<<s, t>>)
    \/ \E s, t \in Steps : s[1] < t[1] /\ DoAtomically(<<s, t>>)
    \/ \E s \in Steps : DoRefused(s)

---------------------------------------------------------------------------
Stored == [n \in {k[1][2] : k \in DOMAIN coll.docs} |-> coll.docs[DocKey(n)].f.x]

\* Whatever lists clients with fresh and stale revisions send, each driver
\* stores what the documentation promises: a write happens if and only if its
\* document exists (or does not, as its kind asks) and the client's revision
\* is that of the stored document, whatever else is in the list; atomic writes
\* happen together on the AtomicDrivers, DynamoDB and Firestore (no client sends
\* them to memdocstore or mongodocstore, which may do some of them); Do fails if
\* and only if one of the steps did; a get sees the write before it in the list
\* and not the one after it; an error of the BeforeDo callback fails the list
\* and stops it; and a query finds exactly the stored documents.
DocPortable ==
    /\ Stored = ref
    /\ agrees
    /\ LET found == FindAll(coll)
       IN  /\ found.err = "OK" /\ Len(found.docs) = Cardinality(DOMAIN ref)
           /\ \A i \in DOMAIN found.docs :
                ref[found.docs[i].f.name[2]] = found.docs[i].f.x
================================================================================
