--------------------------- MODULE MCConformance ---------------------------
(***************************************************************************)
(* The portable blob API over all drivers, checked in one run.  In each    *)
(* behaviour one of four is at work and the others rest: a listing         *)
(* (Listing), any sequence of calls (BlobCalls), one of the conformance    *)
(* tests (BlobTests), or strings that are escaped (Escape).                *)
(***************************************************************************)
EXTENDS Listing

CONSTANTS
    MaxLength,
    \* What is checked, as parameters: TLC, which keeps statistics of all that
    \* it unfolds, then does not unfold the drivers at every call.
    PageTable,             \* what ListPaged returns: MCPages
    Call(_, _),            \* a call on a bucket: MCCall
    Passes(_)              \* a conformance test, with its bucket: MCPasses

VARIABLES
    bucket, ref, writer, agrees,   \* of BlobCalls
    test,   \* the part at work, or the test that is run and its bucket
    str     \* a string to be escaped

\* Keys over "-", "/", "a" and "b", with "a//b" that fileblob escapes, and
\* prefixes, for listings.
MCKeys == {<<97>>, <<97, 47, 97>>, <<97, 47, 47, 98>>, <<97, 98>>, <<97, 45, 98>>, <<98>>}
MCListPrefixes == {<< >>, <<97>>, <<97, 47>>}

\* The keys "b//" and "../", contents of one and two bytes.
C == INSTANCE BlobCalls WITH
    Keys <- {<<98, 47, 47>>, <<46, 46, 47>>}, Bodies <- {<<3>>, <<3, 3>>}, Prefix <- <<112, 47>>,
    One <- <<120>>

T == INSTANCE BlobTests

\* Every page of every driver, for TLC to compute once.
MCPages ==
    LET queries == UNION {[prefix : {p}, delim : {l}, token : Tokens([prefix |-> p, delim |-> l])] :
                              p \in ListPrefixes, l \in Delimiters}
    IN [d \in Drivers |-> [keys \in SUBSET Keys |-> [q \in queries |->
           [n \in AllLimits(d, q.token) |-> DriverListPaged(d, Names(d, keys), q, n)]]]]

MCPageFrom(d, keys, o, size) == PageTable[d][keys][o][size]

MCCall(b, c) ==
    CASE c.op = "WriteAll" -> T!WriteAll(b, c.key, c.body, T!NoOptions)
      [] c.op = "NewWriter" -> T!NewWriter(b, c.key, c.o)
      [] c.op = "Write" -> T!Write(b, c.w, c.body)
      [] c.op = "CloseWriter" -> T!CloseWriter(b, c.w)
      [] c.op = "Copy" -> T!Copy(b, c.key, c.src, "none")
      [] c.op = "Delete" -> T!DeleteWithOptions(b, c.key, "none")
      [] c.op = "Close" -> T!CloseBucket(b)
      [] c.op = "ReadAll" -> T!ReadAll(b, c.key)
      [] c.op = "NewRangeReader" -> T!NewRangeReader(b, c.key, 1, 1, "none")
      [] c.op = "Download" -> T!Download(b, c.key, c.parallel, "none")
      [] c.op = "Attributes" -> T!Attributes(b, c.key)
      [] c.op = "Exists" -> T!Exists(b, c.key)
      [] c.op = "List" -> T!List(b, << >>, << >>)
      [] c.op = "ListPage" -> T!ListPage(b, << >>, << >>, T!NoToken, 1)

\* A test is its name, the driver, the number of signers and the prefix.
MCPasses(t) == T!RunBlobTest(t[1], T!ApplyPrefixParam(T!NewBucket(t[2], t[3]), t[4], << >>))

callVars == <<bucket, ref, writer, agrees>>
allVars == <<vars, callVars, test, str>>

ListingRests ==
    /\ driver = "mem" /\ opts = [prefix |-> << >>, delim |-> << >>, size |-> 1] /\ store = {}
    /\ api = "iterator" /\ token = NoToken /\ page = << >> /\ idx = 1 /\ out = << >>
    /\ finished = TRUE /\ full = TRUE /\ kept = {} /\ ever = {} /\ changes = 0

CallsRest == bucket = << >> /\ ref = << >> /\ writer = {} /\ agrees = TRUE

ConformanceInit ==
    /\ test \in {<<"Listing">>, <<"BlobCalls">>, <<"BlobTests">>, <<"Escape">>}
    /\ IF test = <<"Listing">> THEN Init ELSE ListingRests
    /\ IF test = <<"BlobCalls">> THEN C!Init ELSE CallsRest
    /\ str = << >>

\* Every driver runs the tests, on a bucket as it is and on a prefixed one,
\* with and without a signer of URLs.
RunTest ==
    /\ test = <<"BlobTests">>
    /\ test' \in T!BlobTestNames \X Drivers \X {0, 1} \X {<< >>, <<112, 47>>}
    /\ UNCHANGED <<vars, callVars, str>>

\* One more of the characters that matter: "_", "0", "x" and "/".
Grow ==
    /\ test = <<"Escape">> /\ Len(str) < MaxLength
    /\ \E c \in {95, 48, 120, 47} : str' = Append(str, c)
    /\ UNCHANGED <<vars, callVars, test>>

ConformanceNext ==
    \/ test = <<"Listing">> /\ Next /\ UNCHANGED <<callVars, test, str>>
    \/ test = <<"BlobCalls">> /\ C!Next /\ UNCHANGED <<vars, test, str>>
    \/ RunTest
    \/ Grow

ConformanceSpec == ConformanceInit /\ [][ConformanceNext]_allVars

---------------------------------------------------------------------------
\* Listings are complete, ordered and in full pages: Listed of Listing.

\* Every driver answers any sequence of calls as a map would: BlobCalls.
Portable == test = <<"BlobCalls">> => C!Portable

\* Every driver passes the conformance tests of package drivertest, the one
\* with a writer and readers at the same time included.  Only whether a driver
\* shares the map of an Attributes with its caller is left out, for values
\* cannot be shared: BlobTests.
Conforms == T!Conforms(test)

\* Unescaping what was escaped gives the string back, of whatever underscores,
\* digits and half escape sequences it consists, where every "/" is to be
\* escaped: Escape.
EscapeReversible == T!HexUnescape(T!HexEscape(str, {i \in DOMAIN str : str[i] = 47})) = str
=============================================================================
