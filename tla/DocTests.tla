-------------------------------- MODULE DocTests --------------------------------
(***************************************************************************)
(* The conformance tests of package docstore/drivertest.  Every driver is  *)
(* to pass each of them: a test is an operator from an empty collection of *)
(* the driver to the collection the test leaves and whether everything it  *)
(* checks holds.  The documents of a test change as the calls change them. *)
(*                                                                         *)
(* The tests of the codecs are in module DocCodec; those of As are left    *)
(* out.                                                                    *)
(***************************************************************************)
EXTENDS DocAPI

CONSTANT Passes(_)   \* whether a test, a tuple of its name and parameters, passes

Rev0(c) == c.rev :> Nil
Named(n) == "name" :> Str(n)
docmap(c, n, f) == MapDoc(f @@ Rev0(c) @@ Named(n))

docstruct0 ==
  [name |-> Nil, DocstoreRevision |-> Nil, Etag |-> Nil, I |-> Num(0), U |-> Num(0), F |-> Num(0),
   St |-> Str(0), B |-> Bool(FALSE), M |-> Nil]
docstruct(f) == StructDoc(docstruct0, f)

newDoc(d) ==
  IF IsStruct(d) THEN StructDoc(d.zero, [name |-> d.f.name]) ELSE MapDoc("name" :> GetField(d, "name"))

revision(c, d) == GetField(d, c.rev)
setRevision(c, d, r) == SetField(d, c.rev, r)
nonexistentDoc == MapDoc(Named(99))

checkHasRevisionField(c, d) == revision(c, d) # Nil
checkNoRevisionField(c, d) == revision(c, d) = Nil

Ok(r) == Code(r) = "OK"
Doc(r) == r.docs[1]
Gets(c, d) == Ok(Get(c, newDoc(d), {})) /\ Doc(Get(c, newDoc(d), {})) = d

\* A case of a test, from what the cases before it left.
Then(s, c, ok) == [c |-> c, ok |-> s.ok /\ ok]
Start(c) == [c |-> c, ok |-> TRUE]

---------------------------------------------------------------------------
(* Single actions *)

CreateCase(s, tc) ==
  LET r == Create(s.c, tc.doc)
  IN  Then(s, r.c, /\ Code(r) = tc.want
                   /\ tc.want = "OK" => /\ checkHasRevisionField(s.c, Doc(r))
                                        /\ Gets(r.c, Doc(r)))

testCreate(c) ==
  FoldLeft(CreateCase, Start(c),
    <<[doc |-> docmap(c, 1, [b |-> Bool(TRUE)]), want |-> "OK"],
      [doc |-> docmap(c, 1, Empty), want |-> "AlreadyExists"],
      [doc |-> MapDoc([b |-> Bool(TRUE)] @@ Rev0(c)), want |-> "OK"],
      [doc |-> docstruct([name |-> Str(2), B |-> Bool(TRUE)]), want |-> "OK"],
      [doc |-> docstruct([B |-> Bool(TRUE)]), want |-> "OK"],
      [doc |-> docstruct([name |-> Str(0), B |-> Bool(TRUE)]), want |-> "OK"],
      [doc |-> MapDoc(Named(3) @@ (c.rev :> Num(0))), want |-> "InvalidArgument"]>>)

UpdateS(c, d) == Update(c, d, <<Mod(<<"s">>, Str(9))>>)

\* A write with the revision that was read succeeds, a second one fails.
RevisionCase(s, d, kind) ==
  LET write(c, e) == CASE kind = "Put" -> Put(c, e) [] kind = "Replace" -> Replace(c, e)
                       [] kind = "Update" -> UpdateS(c, e)
      put == Put(s.c, d)
      got == Get(put.c, newDoc(d), {})
      first == write(put.c, Doc(put))
      second == write(first.c, Doc(got))
  IN  Then(s, second.c, /\ Ok(put) /\ Ok(got) /\ checkHasRevisionField(s.c, Doc(got))
                        /\ Ok(first)
                        /\ Code(second) \in {"FailedPrecondition", "NotFound"})

testRevisionField(s, kind) ==
  RevisionCase(RevisionCase(s, docmap(s.c, 20, [s |-> Str(1)]), kind),
               docstruct([name |-> Str(21), St |-> Str(1)]), kind)

PutCase(s, d) ==
  LET r == Put(s.c, d)
  IN  [Then(s, r.c, Ok(r) /\ checkHasRevisionField(s.c, Doc(r)) /\ Gets(r.c, Doc(r)))
         EXCEPT !.ok = @ /\ checkNoRevisionField(s.c, d)]

testPut(c) ==
  LET s == FoldLeft(PutCase, Start(c),
             <<docmap(c, 1, [b |-> Bool(TRUE)]), docstruct([name |-> Str(2), B |-> Bool(TRUE)]),
               docmap(c, 1, [b |-> Bool(FALSE)]), docstruct([name |-> Str(2), B |-> Bool(FALSE)])>>)
      rev(n) == revision(c, Doc(Get(s.c, IF n = 1 THEN docmap(c, 1, Empty) ELSE docstruct(Named(2)), {})))
      wrongMap == Put(s.c, MapDoc(Named(3) @@ (c.rev :> rev(1))))
      wrongStruct == Put(wrongMap.c, docstruct([name |-> Str(4), DocstoreRevision |-> rev(2), Etag |-> rev(2)]))
      t == Then(s, wrongStruct.c, /\ Code(wrongMap) \in {"NotFound", "FailedPrecondition"}
                                  /\ Code(wrongStruct) \in {"NotFound", "FailedPrecondition"})
      u == testRevisionField(t, "Put")
  IN  Then(u, u.c, Code(Put(u.c, docstruct(Named(0)))) = "InvalidArgument")

ReplaceCase(s, tc) ==
  LET put == Put(s.c, tc[1])
      r == Replace(put.c, tc[2])
  IN  Then(s, r.c, Ok(put) /\ Ok(r) /\ checkHasRevisionField(s.c, Doc(r)) /\ Gets(r.c, Doc(r)))

testReplace(c) ==
  LET s == FoldLeft(ReplaceCase, Start(c),
             <<<<docmap(c, 1, [s |-> Str(1)]), docmap(c, 1, [s |-> Str(2)])>>,
               <<docstruct([name |-> Str(2), St |-> Str(1)]), docstruct([name |-> Str(2), St |-> Str(2)])>>>>)
  IN  testRevisionField(Then(s, s.c, Code(Replace(s.c, nonexistentDoc)) = "NotFound"), "Replace")

\* want is what the document holds besides its name and revision.
GetCase(s, tc) ==
  LET put == Put(s.c, tc.doc)
      got == Get(put.c, newDoc(tc.doc), tc.fps)
      full == IF IsStruct(tc.doc) THEN docstruct(tc.want @@ [name |-> tc.doc.f.name])
              ELSE MapDoc(tc.want @@ [name |-> tc.doc.f.name])
  IN  Then(s, put.c, /\ Ok(put) /\ Ok(got)
                     /\ Doc(got) = setRevision(s.c, full, revision(s.c, Doc(got))))

testGet(c) ==
  LET m == [a |-> Str(1), b |-> Str(2)]
      inMap == [s |-> Str(3), i |-> Num(950), f |-> Num(323), m |-> Map(m)]
      inStruct == [St |-> Str(3), I |-> Num(950), F |-> Num(323), M |-> Map(m)]
      struct(n) == docstruct(inStruct @@ Named(n))
      s == FoldLeft(GetCase, Start(c),
             <<[doc |-> docmap(c, 1, inMap), fps |-> {}, want |-> inMap],
               [doc |-> struct(2), fps |-> {}, want |-> inStruct],
               [doc |-> docmap(c, 3, inMap), fps |-> {<<"f">>, <<"m", "b">>, <<c.rev>>},
                want |-> [f |-> Num(323), m |-> Map([b |-> Str(2)])]],
               [doc |-> struct(4), fps |-> {<<"St">>, <<"M", "a">>, <<c.rev>>},
                want |-> [St |-> Str(3), M |-> Map([a |-> Str(1)])]],
               [doc |-> struct(5), fps |-> {<<"st">>, <<"m", "a">>}, want |-> Empty]>>)
  IN  Then(s, s.c, /\ Code(Get(s.c, nonexistentDoc, {})) = "NotFound"
                   /\ Code(Get(s.c, docstruct(Named(0)), {})) = "InvalidArgument")

\* A document is put and deleted, put again, and not deleted with the revision
\* of the first put.
DeleteCase(s, d) ==
  LET put == Put(s.c, d)
      del == Delete(put.c, Doc(put))
      again == Put(del.c, d)
      wrong == Delete(again.c, setRevision(s.c, Doc(again), revision(s.c, Doc(put))))
  IN  Then(s, wrong.c, /\ Ok(put) /\ Ok(del) /\ ~Ok(Get(del.c, Doc(put), {}))
                       /\ Ok(again) /\ Code(wrong) = "FailedPrecondition")

testDelete(c) ==
  LET s == FoldLeft(DeleteCase, Start(c), <<docmap(c, 1, Empty), docstruct(Named(2))>>)
  IN  Then(s, s.c, /\ Ok(Delete(s.c, nonexistentDoc))
                   /\ Code(Delete(s.c, docstruct(Named(0)))) = "InvalidArgument")

UpdateCase(s, tc) ==
  LET put == Put(s.c, tc.doc)
      d == setRevision(s.c, Doc(put), Nil)
      r == Do(put.c, <<UpdateAction(d, tc.mods), GetAction(newDoc(d), {})>>)
      got == r.docs[2]
      want == IF IsStruct(d) THEN docstruct(tc.want @@ [name |-> d.f.name])
              ELSE MapDoc(tc.want @@ [name |-> d.f.name])
  IN  Then(s, r.c, /\ Ok(put) /\ Ok(r) /\ checkHasRevisionField(s.c, r.docs[1])
                   /\ got = setRevision(s.c, want, revision(s.c, got)))

testUpdate(c) ==
  LET set(x, v) == Mod(<<x>>, v)
      s == FoldLeft(UpdateCase, Start(c),
        <<[doc |-> docmap(c, 1, [a |-> Str(1), b |-> Str(2), n |-> Num(35), i |-> Num(10)]),
           mods |-> <<set("a", Str(8)), set("b", Nil), set("c", Str(3)), set("i", Nil),
                      set("m", Num(30)), set("n", Inc(Num(-10)))>>,
           want |-> [a |-> Str(8), c |-> Str(3), n |-> Num(25), m |-> Num(30)]],
          [doc |-> docmap(c, 2, [a |-> Str(1)]),
           mods |-> <<set("a", Str(8)), set("b", Nil), set("m", Num(30))>>,
           want |-> [a |-> Str(8), m |-> Num(30)]],
          [doc |-> docmap(c, 3, [a |-> Str(1), n |-> Num(35), i |-> Num(10)]),
           mods |-> <<set("i", Inc(Num(25))), set("m", Inc(Num(30))), set("n", Inc(Num(-10)))>>,
           want |-> [a |-> Str(1), n |-> Num(25), i |-> Num(35), m |-> Num(30)]],
          [doc |-> docstruct([name |-> Str(4), St |-> Str(1), I |-> Num(10), F |-> Num(35)]),
           mods |-> <<set("F", Inc(Num(-30))), set("I", Nil), set("St", Str(2)), set("U", Num(40))>>,
           want |-> [St |-> Str(2), U |-> Num(40), F |-> Num(5)]],
          [doc |-> docstruct([name |-> Str(5), St |-> Str(1), I |-> Num(10)]),
           mods |-> <<set("I", Nil), set("St", Str(2)), set("U", Num(40))>>,
           want |-> [St |-> Str(2), U |-> Num(40)]],
          [doc |-> docstruct([name |-> Str(6), St |-> Str(1), I |-> Num(10), F |-> Num(35)]),
           mods |-> <<set("F", Inc(Num(-30))), set("U", Inc(Num(40)))>>,
           want |-> [St |-> Str(1), U |-> Num(40), I |-> Num(10), F |-> Num(5)]]>>)
      bad == Update(s.c, MapDoc(Named(7)), <<Mod(<<"x">>, Inc(Str(3)))>>)
  IN  testRevisionField(Then(s, s.c, /\ ~Ok(Update(s.c, nonexistentDoc, <<Mod(<<"x">>, Str(1))>>))
                                     /\ Code(bad) = "InvalidArgument"), "Update")

testSerializeRevision(c) ==
  LET r == Create(c, docmap(c, 1, [x |-> Num(10)]))
      str == RevisionToString(c, revision(c, Doc(r)))
      back == StringToRevision(c, str.str)
  IN  Then(Start(c), r.c, /\ Ok(r) /\ checkHasRevisionField(c, Doc(r))
                          /\ str.err = "OK" /\ back.err = "OK" /\ back.rev = revision(c, Doc(r)))

---------------------------------------------------------------------------
(* Lists of actions *)

Creates(docs) == [i \in DOMAIN docs |-> Action("Create", docs[i])]
Slice(s, m, n) == SubSeq(s, m + 1, n + 1)

\* Documents with the key fields of the collection, numbered from 0.
KeyFields(c, i) ==
  IF c.func THEN [Game |-> Str(1), Player |-> Str(10 + i)] ELSE Named(10 + i)
Numbered(c, n) == [i \in 1 .. n |-> MapDoc([s |-> Str(30 + i)] @@ Rev0(c) @@ KeyFields(c, i - 1))]
KeyOnly(c, i) == MapDoc(KeyFields(c, i))

\* The documents of a query, as maps.
mustCollect(c, q, fps) == Documents(c, q, fps, MapDoc(Empty))

\* What was read is what was written, up to revisions.
SameDocs(c, gots, wants) ==
  \A i \in DOMAIN gots : gots[i] = setRevision(c, wants[i], revision(c, gots[i]))

SetS(n) == <<Mod(<<"s">>, Str(n))>>

testMultipleActions(c) ==
  LET docs == Numbered(c, 9)
      one == Do(c, Creates(Slice(docs, 0, 5)))
      replaced == [i \in 1 .. 3 |-> SetField(one.docs[i], "s", Str(60 + i))]
      two == Do(one.c, [i \in 1 .. 9 |->
                          IF i <= 3 THEN Action("Replace", replaced[i])
                          ELSE Action("Put", IF i <= 6 THEN one.docs[i] ELSE docs[i])])
      d == two.docs
      three == Do(two.c, <<UpdateAction(d[7], <<Mod(<<"n">>, Inc(Num(10))), Mod(<<"s">>, Str(70))>>),
                           GetAction(KeyOnly(c, 3), {}), Action("Delete", d[1]), Action("Delete", d[2]),
                           UpdateAction(d[8], SetS(71)), GetAction(KeyOnly(c, 4), {}),
                           Action("Delete", d[3]), GetAction(KeyOnly(c, 5), {}),
                           UpdateAction(d[9], <<Mod(<<"n">>, Inc(Num(-10)))>>)>>)
      four == Do(three.c, <<GetAction(KeyOnly(c, 0), {}), GetAction(KeyOnly(c, 1), {}),
                            GetAction(KeyOnly(c, 2), {}), GetAction(KeyOnly(c, 3), {}),
                            Action("Create", setRevision(c, d[5], Nil)), Action("Put", d[6]),
                            Action("Delete", setRevision(c, d[1], Nil))>>)
      exists == {"AlreadyExists", "FailedPrecondition"}
  IN  Then(Start(c), four.c,
        /\ Ok(one) /\ Ok(two) /\ Ok(three)
        /\ SameDocs(c, <<three.docs[2], three.docs[6], three.docs[8]>>, Slice(d, 3, 5))
        /\ ~Ok(four)
        /\ \A i \in 1 .. 3 : four.errs[i] = "NotFound"
        /\ \A i \in {4, 6, 7} : four.errs[i] = "OK"
        /\ four.errs[5] \in exists \union {"OK"} /\ ToSet(four.more) \subseteq exists)

\* Three documents are deleted, three read, and three updated atomically, the
\* last of which may be missing.
AtomicCase(c, n) ==
  LET docs == Numbered(c, 9)
      one == Do(c, Creates(SubSeq(docs, 1, n)))
      d == [i \in 1 .. 9 |-> IF i <= n THEN one.docs[i] ELSE docs[i]]
      plain == <<GetAction(KeyOnly(c, 3), {}), Action("Delete", d[1]), Action("Delete", d[2]),
                 GetAction(KeyOnly(c, 4), {}), Action("Delete", d[3]), GetAction(KeyOnly(c, 5), {})>>
      atomic == Atomically([i \in 1 .. 3 |-> UpdateAction(d[6 + i], SetS(66 + i))])
      two == Do(one.c, plain \o atomic)
      s(i) == GetField(Doc(Get(two.c, KeyOnly(c, i), {})), "s")
  IN  [c |-> two.c, done |-> Ok(two), s6 |-> s(6), s7 |-> s(7), s8 |-> s(8),
       ok |-> Ok(one) /\ SameDocs(c, <<two.docs[1], two.docs[4], two.docs[6]>>, Slice(d, 3, 5))]

testAtomicWrites(c) ==
  LET r == AtomicCase(c, 9)
  IN  Then(Start(c), r.c, r.ok /\ r.done /\ <<r.s6, r.s7, r.s8>> = <<Str(67), Str(68), Str(69)>>)

testAtomicWritesFail(c) ==
  LET r == AtomicCase(c, 8)
  IN  Then(Start(c), r.c, r.ok /\ ~r.done /\ <<r.s6, r.s7>> = <<Str(37), Str(38)>>)

\* The same of documents with two key fields, one of which they share.
testAtomicWritesSinglePartition(c) == testAtomicWrites(c)
testAtomicWritesFailSinglePartition(c) == testAtomicWritesFail(c)

testActionsOnStructNoRev(c) ==
  LET item(n) == StructDoc([name |-> Str(0), I |-> Num(0)], Named(n))
      one == Do(c, <<Action("Create", item(1)), Action("Put", item(2)),
                     GetAction(item(1), {}), GetAction(MapDoc(Named(2)), {})>>)
      two == Do(one.c, <<Action("Replace", item(1)), UpdateAction(item(2), <<Mod(<<"I">>, Num(10))>>),
                         GetAction(MapDoc(Named(1)), {<<"I">>}), GetAction(item(2), {<<"I">>})>>)
  IN  Then(Start(c), two.c, /\ Ok(one) /\ checkNoRevisionField(c, one.docs[4])
                            /\ Ok(two) /\ checkNoRevisionField(c, two.docs[3]))

testExampleInDoc(c) ==
  LET author == Map([First |-> Str(4), Last |-> Str(5)])
      Book0 == [name |-> Str(0), author |-> Map([First |-> Str(0), Last |-> Str(0)]), pub_years |-> Nil]
      years(a, b) == List(<<Num(a), Num(b)>>)
      doc1 == StructDoc(Book0, [name |-> Str(1), author |-> author, pub_years |-> years(19670, 19730)])
      doc2 == MapDoc([name |-> Str(2), author |-> author, pub_years |-> years(19680, 19870)])
      one == Do(c, <<Action("Create", doc1), Action("Put", doc2)>>)
      two == Do(one.c, [i \in 1 .. 2 |-> GetAction(StructDoc(Book0, Named(i)), {})])
      found == mustCollect(one.c, Where(NewQuery, <<"author", "Last">>, "=", Str(5)), {})
      three == Do(one.c, <<Action("Delete", doc1), Action("Delete", doc2)>>)
  IN  Then(Start(c), three.c, /\ Ok(one) /\ Ok(two)
                              /\ two.docs[1].f.author = author
                              /\ two.docs[2].f.pub_years = doc2.f.pub_years
                              /\ found.err = "OK" /\ Len(found.docs) = 2
                              /\ Ok(three))

\* An error of BeforeDo is an error of Do, and the action is done without it.
BeforeDoCase(s, kind) ==
  LET d == MapDoc(Named(1))
      a == IF kind = "Update" THEN UpdateAction(d, <<Mod(<<"a">>, Num(10))>>) ELSE Action(kind, d)
      r == Do1(s.c, a)
  IN  Then(s, r.c, ~Ok(DoBefore(s.c, <<a>>, TRUE)) /\ Ok(r))

testBeforeDo(c) ==
  FoldLeft(BeforeDoCase, Start(c), <<"Create", "Replace", "Put", "Update", "Get", "Delete">>)

---------------------------------------------------------------------------
(* Queries *)

\* Game, player, score, time and glitch.  The games are 1 to 3, the players
\* andy 1, billie 2, fran 3, mel 4 and pat 5; a date is month * 100 + day.
highScores ==
  <<<<1, 5, 49, 313, FALSE>>, <<1, 4, 60, 410, FALSE>>, <<1, 1, 81, 201, FALSE>>,
    <<1, 3, 33, 319, FALSE>>, <<2, 5, 120, 401, TRUE>>, <<2, 2, 111, 410, FALSE>>,
    <<2, 4, 190, 418, TRUE>>, <<2, 3, 33, 320, FALSE>>>>

HighScore0 ==
  [Game |-> Str(0), Player |-> Str(0), Score |-> Num(0), Time |-> Time(0),
   WithGlitch |-> Bool(FALSE), DocstoreRevision |-> Nil]

HighScore(h) ==
  StructDoc(HighScore0, [Game |-> Str(h[1]), Player |-> Str(h[2]), Score |-> Num(10 * h[3]),
                         Time |-> Time(h[4]), WithGlitch |-> Bool(h[5])])

addHighScores(c) == Do(c, [i \in DOMAIN highScores |-> Action("Put", HighScore(highScores[i]))])

testActionsWithCompositeID(c) ==
  LET none == StructDoc(HighScore0, Empty)
      one == addHighScores(c)
      two == Do(one.c, [i \in DOMAIN highScores |->
                          GetAction(StructDoc(HighScore0, [Game |-> Str(highScores[i][1]),
                                                           Player |-> Str(highScores[i][2])]), {})])
  IN  Then(Start(c), two.c,
        /\ Code(Create(c, none)) = "InvalidArgument" /\ Code(Get(c, none, {})) = "InvalidArgument"
        /\ Ok(one) /\ Ok(two)
        /\ \A i \in DOMAIN highScores :
             /\ checkHasRevisionField(c, two.docs[i])
             /\ setRevision(c, two.docs[i], Nil) = HighScore(highScores[i]))

\* The documents of a query, as high scores.
collectHighScores(c, q, fps) == Documents(c, q, fps, StructDoc(HighScore0, Empty))

filterHighScores(Want(_)) == {HighScore(h) : h \in {g \in ToSet(highScores) : Want(g)}}

\* The iterator ends with the documents wanted, each once, in an order that
\* dir ("asc", "desc" or "any") of the players does not contradict.
QueryGets(c, q, fps, want, dir) ==
  LET ordered(x, y) == (dir = "asc" => x <= y) /\ (dir = "desc" => x >= y)
      r == collectHighScores(c, q, fps)
      got == [i \in DOMAIN r.docs |-> setRevision(c, r.docs[i], Nil)]
  IN  /\ r.err = "OK"
      /\ \A i \in DOMAIN r.docs : checkHasRevisionField(c, r.docs[i])
      /\ ToSet(got) = want /\ Len(got) = Cardinality(want)
      /\ \A i \in 1 .. Len(got) - 1 : ordered(got[i].f.Player[2], got[i + 1].f.Player[2])

testGetQuery(c0) ==
  LET added == addHighScores(c0)
      c == added.c
      where(fp, op, v) == Where(NewQuery, <<fp>>, op, v)
      gets(q, Want(_)) == QueryGets(c, q, {}, filterHighScores(Want), "any")
      some == List(<<Str(5), Str(2)>>)
      glitch == List(<<Bool(TRUE)>>)
      byPlayer(dir) == OrderBy(Where(where("Game", "=", Str(1)), <<"Player">>, ">", Str(0)), "Player", dir)
      keys == {<<"Game">>, <<"Player">>, <<"DocstoreRevision">>}
      keyed(h) == [HighScore(h) EXCEPT !.f.Score = Num(0), !.f.Time = Time(0), !.f.WithGlitch = Bool(FALSE)]
      scored(h) == [HighScore(h) EXCEPT !.f.Time = Time(0)]
      any(h) == TRUE
  IN  Then(Start(c0), c,
        /\ Ok(added)
        /\ gets(NewQuery, any)
        /\ gets(where("Game", "=", Str(2)), LAMBDA h : h[1] = 2)
        /\ gets(where("Score", ">", Num(1000)), LAMBDA h : h[3] > 100)
        /\ gets(where("Player", "=", Str(2)), LAMBDA h : h[2] = 2)
        /\ gets(Where(where("Player", "=", Str(1)), <<"Game">>, "=", Str(1)), LAMBDA h : h[2] = 1 /\ h[1] = 1)
        /\ gets(Where(where("Player", "=", Str(5)), <<"Score">>, "<", Num(1000)), LAMBDA h : h[2] = 5 /\ h[3] < 100)
        /\ gets(Where(where("Game", "=", Str(1)), <<"Score">>, ">=", Num(500)), LAMBDA h : h[1] = 1 /\ h[3] >= 50)
        /\ gets(Where(where("Player", "=", Str(4)), <<"Time">>, ">", Time(401)), LAMBDA h : h[2] = 4 /\ h[4] > 401)
        /\ gets(Where(where("Score", ">=", Num(500)), <<"Time">>, ">", Time(401)), LAMBDA h : h[3] >= 50 /\ h[4] > 401)
        /\ gets(where("Player", "in", some), LAMBDA h : h[2] \in {2, 5})
        /\ gets(where("Player", "not-in", some), LAMBDA h : h[2] \notin {2, 5})
        /\ gets(where("WithGlitch", "=", Bool(TRUE)), LAMBDA h : h[5])
        /\ gets(where("WithGlitch", "in", glitch), LAMBDA h : h[5])
        /\ gets(where("WithGlitch", "not-in", glitch), LAMBDA h : ~h[5])
        /\ QueryGets(c, OrderBy(NewQuery, "Player", "asc"), {}, filterHighScores(any), "asc")
        /\ QueryGets(c, OrderBy(NewQuery, "Player", "desc"), {}, filterHighScores(any), "desc")
        /\ QueryGets(c, byPlayer("asc"), {}, filterHighScores(LAMBDA h : h[1] = 1), "asc")
        /\ QueryGets(c, byPlayer("desc"), {}, filterHighScores(LAMBDA h : h[1] = 1), "desc")
        /\ QueryGets(c, NewQuery, keys, {keyed(h) : h \in ToSet(highScores)}, "any")
        /\ QueryGets(c, NewQuery, keys \union {<<"Score">>, <<"WithGlitch">>},
                     {scored(h) : h \in ToSet(highScores)}, "any"))

\* Subtest OffsetAndLimitCounts of testGetQuery.
testOffsetAndLimitCounts(c0) ==
  LET c == addHighScores(c0).c
      n == Len(highScores)
      count(offset, limit) ==
        Len(collectHighScores(c, Limit(Offset(NewQuery, offset), limit), {}).docs)
  IN  Then(Start(c0), c,
        /\ count(0, 2) = 2 /\ count(2, n) = n - 2 /\ count(2, 2) = 2
        /\ count(n, 2) = 0 /\ count(n - 1, 2) = 1 /\ count(n + 1, 2) = 0
        /\ count(n + 1, n + 1) = 0 /\ count(n - 1, n + 1) = 1)

\* Subtest EOF of testGetQuery: Next reports the end again.
testEOF(c0) ==
  LET c == addHighScores(c0).c
      n == Len(highScores)
      it[i \in 0 .. n + 2] ==
        IF i = 0 THEN QueryGet(c, NewQuery, {}, StructDoc(HighScore0, Empty)) ELSE NextDoc(it[i - 1])
  IN  Then(Start(c0), c, it[n].err = "OK" /\ it[n + 1].err = "EOF" /\ it[n + 2].err = "EOF")

testGetQueryKeyField(c) ==
  LET docs == [i \in 1 .. 3 |-> docmap(c, i, [a |-> Str(10 + i)])]
      put == Do(c, [i \in 1 .. 3 |-> Action("Put", docs[i])])
      below == mustCollect(put.c, Where(NewQuery, <<"name">>, "<", Str(3)), {})
      all == mustCollect(put.c, NewQuery, {<<"a">>, <<c.rev>>})
  IN  Then(Start(c), put.c,
        /\ Ok(put)
        /\ below.err = "OK" /\ Len(below.docs) = 2 /\ ToSet(below.docs) = {put.docs[1], put.docs[2]}
        /\ \A i \in 1 .. 3 : checkHasRevisionField(c, put.docs[i])
        /\ all.err = "OK" /\ Len(all.docs) = 3 /\ ToSet(all.docs) = ToSet(put.docs))

\* The callback is called: if it fails the query does, and if it does not there
\* is no document.  What it does with As is left out.
testBeforeQuery(c) ==
  LET get(fails) == NextDoc(QueryGet(c, BeforeQuery(NewQuery, fails), {}, MapDoc(Empty)))
  IN  Then(Start(c), c, get(FALSE).err = "EOF" /\ get(TRUE).err \notin {"OK", "EOF"})

---------------------------------------------------------------------------

\* Every document the collection holds is found and deleted.
ClearCollection(c) ==
  LET found == mustCollect(c, NewQuery, {})
      r == Do(c, [i \in DOMAIN found.docs |-> Action("Delete", found.docs[i])])
  IN  Then(Start(c), r.c, found.err = "OK" /\ Ok(r))

\* The tests of collections with one key field, and with two.
SingleKeyTests ==
  {"Create", "Put", "Replace", "Get", "Delete", "Update", "SerializeRevision", "MultipleActions",
   "AtomicWrites", "AtomicWritesFail", "ActionsOnStructNoRev", "ExampleInDoc", "BeforeDo",
   "GetQueryKeyField", "BeforeQuery"}
TwoKeyTests ==
  {"AtomicWritesSinglePartition", "AtomicWritesFailSinglePartition", "ActionsWithCompositeID", "GetQuery",
   "OffsetAndLimitCounts", "EOF"}

TestOn(test, c) ==
  CASE test = "Create" -> testCreate(c)
    [] test = "Put" -> testPut(c)
    [] test = "Replace" -> testReplace(c)
    [] test = "Get" -> testGet(c)
    [] test = "Delete" -> testDelete(c)
    [] test = "Update" -> testUpdate(c)
    [] test = "SerializeRevision" -> testSerializeRevision(c)
    [] test = "MultipleActions" -> testMultipleActions(c)
    [] test = "AtomicWrites" -> testAtomicWrites(c)
    [] test = "AtomicWritesFail" -> testAtomicWritesFail(c)
    [] test = "AtomicWritesSinglePartition" -> testAtomicWritesSinglePartition(c)
    [] test = "AtomicWritesFailSinglePartition" -> testAtomicWritesFailSinglePartition(c)
    [] test = "ActionsOnStructNoRev" -> testActionsOnStructNoRev(c)
    [] test = "ExampleInDoc" -> testExampleInDoc(c)
    [] test = "BeforeDo" -> testBeforeDo(c)
    [] test = "GetQueryKeyField" -> testGetQueryKeyField(c)
    [] test = "BeforeQuery" -> testBeforeQuery(c)
    [] test = "ActionsWithCompositeID" -> testActionsWithCompositeID(c)
    [] test = "GetQuery" -> testGetQuery(c)
    [] test = "OffsetAndLimitCounts" -> testOffsetAndLimitCounts(c)
    [] test = "EOF" -> testEOF(c)

\* The collections of a driver the tests run on: with the default revision
\* field and with another one, and with a key of two fields.
withRevCollections(driver) ==
  {NewColl(driver, <<"name">>, r) : r \in {"DocstoreRevision", "Etag"}}
withCollection(driver) == {NewColl(driver, <<"Game", "Player">>, "DocstoreRevision")}

\* A test passes, and its collection can be cleared for the next one.
RunDocTest(test, c) ==
  LET r == TestOn(test, c)
      cleared == ClearCollection(r.c)
  IN  r.ok /\ cleared.ok /\ DOMAIN cleared.c.docs = {}

\* Any test of the suite is run, on its own; a tuple of one element is no test.
Conforms(test) == Len(test) > 1 => Passes(test)
================================================================================
