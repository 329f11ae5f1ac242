------------------------------- MODULE MCDocs -------------------------------
(***************************************************************************)
(* docstore, checked in one run.  In each behaviour one of three is at     *)
(* work and the others rest: concurrent callers of memdocstore (DocStore), *)
(* the lists of clients on each of the drivers (DocCalls), or one of the   *)
(* conformance tests (DocTests, DocCodec).                                 *)
(***************************************************************************)
EXTENDS DocStore, TLC

CONSTANTS
    AllDrivers, AtomicDrivers,
    \* What is checked, as parameters: TLC, which keeps statistics of all that
    \* it unfolds, then does not unfold the drivers at every call.
    DoActions(_, _, _), FindAll(_),  \* Do and a query: MCDo, MCFindAll
    Passes(_)                        \* a conformance test: MCPasses

(* The callers of memdocstore *)

CONSTANTS c1, c2, k1, k2, u1, u2

Do(kind, key, doc) ==
    [kind |-> kind, key |-> key, doc |-> doc, bad |-> FALSE, atomic |-> FALSE]
Bad(a) == [a EXCEPT !.bad = TRUE]
Atomic(a) == [a EXCEPT !.atomic = TRUE]

\* c1 creates a document and then writes what it knows of it; c2 interferes,
\* with and without revisions, with concurrent writes and with atomic ones.
MCLists ==
    (c1 :> {<<Do("Create", k1, "blind")>>,
            <<Do("Get", k1, "blind"), Do("Put", k1, "known")>>,
            <<Do("Update", k1, "known"), Do("Get", k1, "blind")>>})
    @@
    (c2 :> {<<Do("Delete", k1, "blind"), Bad(Do("Create", NilKey, "blind")),
              Bad(Do("Put", k2, "blind"))>>,
            <<Do("Update", k1, "blind"), Do("Put", k1, "blind")>>,
            <<Do("Put", k1, "plain")>>, <<Do("Create", NilKey, "blind")>>,
            <<Do("Update", k1, "nested")>>, <<Bad(Do("Get", k1, "known"))>>,
            <<Atomic(Do("Replace", k1, "known")), Atomic(Do("Create", k2, "plain"))>>})

MCUnique == <<u1, u2>>
MCBudget == (c1 :> 2) @@ (c2 :> 2)

---------------------------------------------------------------------------
(* The clients of the drivers, the tests, and what is at work *)

\* Two clients hold the same document, a third one another.
ClientDocs == <<1, 1, 2>>

VARIABLES coll, held, ref, agrees,
          test    \* the part at work, or the test that is run and its collection

D == INSTANCE DocCalls WITH DocDriverNames <- AllDrivers, Clients <- ClientDocs, MaxWrites <- 3
T == INSTANCE DocTests
K == INSTANCE DocCodec WITH Bits <- 4

MCDo(c, actions, refused) == T!DoBefore(c, actions, refused)
MCFindAll(c) == T!Documents(c, T!NewQuery, {}, T!MapDoc(T!Empty))

\* A test is its name and a collection; for codecs their driver, and the value.
MCPasses(t) ==
    CASE Len(t) = 2 -> T!RunDocTest(t[1], t[2])
      [] Len(t) = 3 -> K!CodecTest(t[2], t[3])
      [] Len(t) = 4 -> K!Faithful(t[2], t[3], t[4])

callVars == <<coll, held, ref, agrees>>

\* What is at work; for the tests, until one of them is chosen.
Parts == {<<"DocStore">>, <<"DocCalls">>, <<"DocTests">>}

CallsRest ==
    /\ coll = T!NewColl("mem", <<"name">>, "DocstoreRevision") /\ held = << >> /\ ref = T!Empty
    /\ agrees = TRUE

MCInit ==
    /\ Init /\ test \in Parts
    /\ IF test = <<"DocCalls">> THEN D!DocCallsInit ELSE CallsRest

RunTest ==
    /\ test = <<"DocTests">>
    /\ \E d \in AllDrivers :
         \/ test' \in T!SingleKeyTests \X T!withRevCollections(d)
         \/ test' \in T!TwoKeyTests \X T!withCollection(d)
         \/ test' \in {"codec"} \X {"TypeDrivenDecode", "BlindDecode", "Data", "Proto"} \X {d}
         \/ \E type \in K!Types : test' \in {"value"} \X {d} \X {type} \X K!Values(type)
    /\ UNCHANGED <<vars, callVars>>

MCNext ==
    \/ test = <<"DocStore">> /\ Next /\ UNCHANGED <<callVars, test>>
    \/ test = <<"DocCalls">> /\ D!DocCallsNext /\ UNCHANGED <<vars, test>>
    \/ RunTest

MCSpec == MCInit /\ [][MCNext]_<<vars, callVars, test>> /\ Fairness

---------------------------------------------------------------------------
\* Every driver passes every conformance test of package drivertest but those
\* of As; and a value of any of the types the codecs take comes back as it was
\* written, at the limits of the integer types too, or is refused.  The losses
\* are those of Survives and Unreadable in DocCodec: nil for what is empty, the
\* nanoseconds of a time in mongodocstore, which reads no pointer to a time.
DocConforms == T!Conforms(test)

\* On every driver the lists of clients do what the documentation promises,
\* but for the atomic ones of memdocstore and mongodocstore: DocCalls.
DocPortable == test = <<"DocCalls">> => D!DocPortable
=============================================================================
