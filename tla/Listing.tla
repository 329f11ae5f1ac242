------------------------------ MODULE Listing ------------------------------
(***************************************************************************)
(* Listing the blobs of a bucket page by page: blob.ListIterator and       *)
(* Bucket.ListPage over ListPaged of memblob, fileblob, s3blob, azureblob  *)
(* and gcsblob, while other callers write and delete blobs.                *)
(*                                                                         *)
(* A key is a sequence of code points.  One call of ListPaged (module      *)
(* ListPaged) is one step.                                                 *)
(***************************************************************************)
EXTENDS ListPaged

CONSTANTS
    PageFrom(_, _, _, _),  \* ListPaged of a driver, over keys, with options and a page size
    Keys,        \* the keys blobs may have
    Drivers,     \* the drivers to check
    ListPrefixes,  \* values of ListOptions.Prefix
    PageSizes,   \* page sizes the caller, or the driver, uses
    MaxChanges   \* bound on writes and deletes during a listing

\* What a listing with options o has to say of the keys S, and the tokens it
\* may be given: the keys of its entries, of blobs that may be gone since.
EntriesOf(S, o) == {Entry(k, o.prefix, o.delim) : k \in Matching(S, o.prefix)}
Tokens(o) == {NoToken} \union {e.key : e \in EntriesOf(Keys, o)}

Delimiters == {<< >>, <<Slash>>}
ListOptions == [prefix : ListPrefixes, delim : Delimiters, size : PageSizes]

\* The contract of driver.Bucket.ListPaged: a page p has, in the order of the
\* keys, the entries from its token up to the next, or up to the end.
IsPage(p, S, o, n) ==
    LET rest == {e \in EntriesOf(S, o) : o.token = NoToken \/ Less(o.token, e.key)}
    IN /\ p.objs \in Seq(rest) /\ Len(p.objs) <= n
       /\ \A i, j \in DOMAIN p.objs : i < j => Less(p.objs[i].key, p.objs[j].key)
       /\ p.next \in Tokens(o)
       /\ p.next = NoToken \/ p.next = o.token \/ o.token = NoToken \/ Less(o.token, p.next)
       /\ \A e \in rest : e \in ToSet(p.objs) <=> p.next = NoToken \/ ~Less(p.next, e.key)

\* A service may send fewer entries than asked for, if it has sent some.
Limits(d, size, tok) ==
    IF d = "azure" THEN {n \in 0..size : n > 0 \/ tok # NoToken} ELSE {size}

\* The limits of all calls: ListPage asks for what its page has left to fill.
AllLimits(d, tok) ==
    UNION {Limits(d, size, tok) : size \in UNION {1..n : n \in PageSizes}}

\* A file and a directory of the same name do not go together.
FitsFileSystem(S) == \A k, l \in S : ~IsPrefix(Append(k, Slash), l)

\* The driver's own order of the names of keys is the order of the keys:
\* fileblob walks the files of S in that order, and a service is given the
\* keys as they are, unescaped.
Tame(d, S) ==
    /\ d = "file" => \A k, l \in S : Less(k, l) => WalksBefore(NameOf(d, k), NameOf(d, l))
    /\ d \in {"s3", "azure", "gcs"} => \A k \in S : NameOf(d, k) = k

ASSUME KeysAssumption ==
    /\ Keys \subseteq Seq(Nat) /\ ListPrefixes \subseteq Seq(Nat)
    /\ PageSizes \subseteq Nat \ {0}

ASSUME PagesAssumption ==
    \A d \in Drivers, S \in SUBSET Keys, o \in [prefix : ListPrefixes, delim : Delimiters] :
        (d = "file" => FitsFileSystem(S)) /\ Tame(d, S) =>
        \A tok \in Tokens(o) : \A n \in AllLimits(d, tok) :
            LET q == [prefix |-> o.prefix, delim |-> o.delim, token |-> tok]
            IN IsPage(PageFrom(d, S, q, n), S, q, n)

VARIABLES
    driver, opts,     \* the driver and the options of the listing
    store,            \* the keys of the blobs in the bucket
    api,              \* "iterator" or "page": List, or ListPage in a loop
    token,            \* token for the next page, NoToken, or "" at the end
    page, idx,        \* ListIterator.page and nextIdx; ListPage's retval
    out,              \* everything returned to the caller so far
    finished,         \* the caller has seen io.EOF
    full,             \* history: every page of ListPage but the last was full
    kept, ever,       \* history: keys present all the time, or at any time
    changes

vars == <<driver, opts, store, api, token, page, idx, out, finished, full, kept, ever, changes>>

\* The pages a call of ListPaged may return.
Pages(size) ==
    LET o == [prefix |-> opts.prefix, delim |-> opts.delim, token |-> token]
    IN {PageFrom(driver, store, o, n) : n \in Limits(driver, size, token)}

-----------------------------------------------------------------------------
Init ==
    /\ driver \in Drivers
    /\ opts \in ListOptions
    /\ store \in SUBSET Keys /\ (driver = "file" => FitsFileSystem(store))
    /\ api \in {"iterator", "page"}
    /\ token = NoToken /\ page = << >> /\ idx = 1 /\ out = << >>
    /\ finished = FALSE /\ full = TRUE
    /\ kept = store /\ ever = store /\ changes = 0

\* ListIterator.Next with an object left in the page.
NextInPage ==
    /\ api = "iterator" /\ ~finished /\ idx <= Len(page)
    /\ out' = Append(out, page[idx])
    /\ idx' = idx + 1
    /\ UNCHANGED <<driver, opts, store, api, token, page, finished, full, kept, ever, changes>>

Begun == idx > 1 \/ token # NoToken

\* Slip: a page without objects is taken for the end.
NextPageEnds ==
    /\ api = "iterator" /\ ~finished /\ idx > Len(page)
    /\ ~(Begun /\ token = NoToken)
    /\ \E p \in Pages(opts.size) :
          /\ page' = p.objs /\ token' = p.next
          /\ IF p.objs = << >>
             THEN finished' = TRUE /\ idx' = 1 /\ UNCHANGED out
             ELSE out' = Append(out, p.objs[1]) /\ idx' = 2 /\ UNCHANGED finished
    /\ UNCHANGED <<driver, opts, store, api, full, kept, ever, changes>>

\* ListIterator.Next that loads a page; it starts over with the new page.
NextPage ==
    /\ api = "iterator" /\ ~finished /\ idx > Len(page)
    /\ ~(Begun /\ token = NoToken)
    /\ \E p \in Pages(opts.size) :
          /\ page' = p.objs /\ token' = p.next
          /\ IF p.objs = << >>
             THEN finished' = (p.next = NoToken) /\ idx' = 1 /\ UNCHANGED out
             ELSE out' = Append(out, p.objs[1]) /\ idx' = 2 /\ UNCHANGED finished
    /\ UNCHANGED <<driver, opts, store, api, full, kept, ever, changes>>

\* ListIterator.Next after the last object of the last page: io.EOF.
NextEOF ==
    /\ api = "iterator" /\ ~finished /\ idx > Len(page)
    /\ Begun /\ token = NoToken
    /\ finished' = TRUE
    /\ UNCHANGED <<driver, opts, store, api, token, page, idx, out, full, kept, ever, changes>>

\* One turn of the loop in Bucket.ListPage: ask for the rest of the page, until
\* it is full or there is no more.  The caller then goes on with the token.
ListPageTurn ==
    /\ api = "page" /\ ~finished
    /\ \E p \in Pages(opts.size - Len(page)) :
          LET retval == page \o p.objs
              done == Len(retval) >= opts.size \/ p.next = NoToken
          IN /\ token' = p.next
             /\ IF done
                THEN /\ out' = out \o retval /\ page' = << >>
                     /\ finished' = (p.next = NoToken)
                     /\ full' = (full /\ (p.next = NoToken \/ Len(retval) = opts.size))
                ELSE page' = retval /\ UNCHANGED <<out, finished, full>>
    /\ UNCHANGED <<driver, opts, store, api, idx, kept, ever, changes>>

\* Another caller writes or deletes a blob.
Put(k) ==
    /\ ~finished /\ changes < MaxChanges /\ k \notin store
    /\ driver = "file" => FitsFileSystem(store \union {k})
    /\ store' = store \union {k} /\ ever' = ever \union {k}
    /\ changes' = changes + 1
    /\ UNCHANGED <<driver, opts, api, token, page, idx, out, finished, full, kept>>

Delete(k) ==
    /\ ~finished /\ changes < MaxChanges /\ k \in store
    /\ store' = store \ {k} /\ kept' = kept \ {k}
    /\ changes' = changes + 1
    /\ UNCHANGED <<driver, opts, api, token, page, idx, out, finished, full, ever>>

List == NextInPage \/ NextPage \/ NextEOF \/ ListPageTurn

Next == List \/ \E k \in Keys : Put(k) \/ Delete(k)

Spec == Init /\ [][Next]_vars

-----------------------------------------------------------------------------
(***************************************************************************)
(* Properties                                                              *)
(***************************************************************************)
Entries(S) == EntriesOf(S, opts)

\* What is returned is in the order of the keys without repetition, and was in
\* the bucket; once the caller has seen the end, it has seen every blob, or
\* its directory, that was there all the time, whatever was written or deleted
\* between two pages; and Bucket.ListPage "will return pageSize results, unless
\* there are not enough blobs to fill the page", though drivers send shorter
\* ones.
EveryKeyListed ==
    /\ full
    /\ \A i \in 1..Len(out) - 1 : Less(out[i].key, out[i + 1].key)
    /\ ToSet(out) \subseteq Entries(ever)
    /\ finished => Entries(kept) \subseteq ToSet(out)

\* The same, for every driver and the keys that sort alike in the bucket and in
\* the driver.  Excepted are keys that do not: fileblob lists in the order of its
\* directory walk ("a/x" before "a-b", an escaped "//" among the letters) and
\* then passes over keys at the end of a page, and s3blob, azureblob and gcsblob
\* list escaped keys in the order of their escaped names.  Without the exception
\* EveryKeyListed is violated.
Listed == Tame(driver, ever) => EveryKeyListed
=============================================================================
