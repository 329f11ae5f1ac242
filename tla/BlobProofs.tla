----------------------------- MODULE BlobProofs -----------------------------
(***************************************************************************)
(* Proofs about Blob, for any calls on any keys, any chunks and any number  *)
(* of faults.                                                               *)
(***************************************************************************)
EXTENDS Blob, TLAPS

-----------------------------------------------------------------------------
(* The inductive invariant *)

Writers == Ops \union {Seed}
Pieces == Writers \X Nat
Contents == [by : Writers, bytes : Seq(Pieces)]
Attrs == Seq(Pieces) \union {NoAttrs, Torn}
Call == [pc : {"idle", "open-writer", "closing", "lock", "create", "encode", "rename", "rmattrs",
               "getattrs", "open", "commit", "wait", "remove", "done", "dead"},
         next : Nat, buf : Seq(Pieces), bufLen : Nat, opened : BOOLEAN,
         data : Seq(Pieces), hashed : Seq(Pieces), refused : BOOLEAN,
         ctxDone : BOOLEAN, up : {"none", "running", "ended", "failed"}, eof : BOOLEAN,
         failing : BOOLEAN, size : Contents \union {NoBlob}, xa : Attrs, read : Contents \union {NoBlob},
         applied : BOOLEAN, res : {"none", "ok", "err"}]

TypeOK ==
    /\ driver \in Drivers
    /\ \A o \in Ops : req[o] \in RequestsOf[o]
    /\ blob \in [Keys -> Contents \union {NoBlob}]
    /\ attrs \in [Keys -> Attrs]
    /\ op \in [Ops -> Call]
    /\ faults \in Nat

\* The chunks of o up to the n-th.
Prefix(o, n) == [i \in 1..n |-> Chunk(o, i)]

\* Where a call can be: only with its driver and its kind of request; what it
\* has done to the bucket, and what it has returned.
CallOK(o, c) ==
    /\ c.res # "none" => c.pc = "done"
    /\ c.applied => c.pc \in {"rmattrs", "wait", "done", "dead"}
    /\ c.pc = "idle" => c = NewCall
    /\ c.pc \in {"open-writer", "commit", "wait"} => req[o].kind = "write"
    /\ c.pc \in {"closing", "lock", "create", "encode", "rename"} => req[o].kind \in {"write", "copy"}
    /\ c.pc \in {"rmattrs", "remove"} => req[o].kind = "delete"
    /\ c.pc = "rmattrs" => c.applied
    /\ c.pc \in {"getattrs", "open"} => req[o].kind \in {"read", "copy"}
    /\ c.pc \in {"lock", "rename", "rmattrs", "getattrs", "open"} => OnFiles
    /\ c.pc \in {"create", "encode"} => driver = "file"
    /\ c.pc = "commit" => driver = "mem"
    /\ c.pc \in {"wait", "remove"} => driver = "pipe"
    /\ c.pc \in {"lock"} => req[o].cond
    /\ req[o].kind = "copy" /\ c.pc \in {"closing", "lock", "create", "encode", "rename"}
         => OnFiles /\ c.read # NoBlob /\ c.data = c.read.bytes
    /\ c.failing => c.ctxDone /\ ~c.applied /\ c.pc \in {"closing", "wait", "done", "dead"}
    /\ c.up # "none" => driver = "pipe" /\ req[o].kind = "write" /\ c.opened
    /\ c.pc = "closing" /\ req[o].kind = "write" => c.opened
    /\ c.up = "running" => c.pc \in {"open-writer", "closing", "wait"} /\ ~c.applied
    /\ c.up = "ended" => c.applied
    /\ c.pc = "wait" => c.up # "none" /\ (c.applied => c.up # "running")
    /\ c.eof => c.pc \in {"wait", "done", "dead"}

\* What a Writer has been given is in its buffer, or with the driver.
WrittenOK(o, c) == req[o].kind = "write" =>
    /\ c.next \in 1..Len(req[o].sizes) + 1
    /\ req[o].md5 # "none" => c.hashed = Prefix(o, c.next - 1)
    /\ c.bufLen = 0 /\ ~c.opened => c.buf = << >>
    /\ c.pc = "open-writer" /\ ~c.refused =>
          IF c.opened THEN c.data = Prefix(o, c.next - 1)
                      ELSE c.data = << >> /\ c.buf = Prefix(o, c.next - 1)
    /\ c.pc \in {"closing", "lock", "create", "encode", "rename", "commit", "wait"} \/ c.applied =>
          /\ ~c.refused => c.data = Prefix(o, Len(req[o].sizes))
          /\ req[o].md5 = "wrong" => c.failing

\* A conditional writer of fileblob holds the lock from its check to its rename;
\* meanwhile its key, if it could see it, can only be taken by a call without the
\* condition.
LockOK == \A o \in Ops : req[o].cond /\ op[o].pc \in {"create", "encode", "rename"} =>
    /\ lock = o
    /\ o \in blind \/ blob[req[o].key] = NoBlob \/ ~Ask(blob[req[o].key].by).cond

\* The attributes of k are those of its content.
Fits(k) ==
    \/ attrs[k] = NoAttrs /\ (blob[k] = NoBlob \/ driver = "bare" \/ faults > 0)
    \/ blob[k] # NoBlob /\ attrs[k] = blob[k].bytes

\* No call that changes k has marred another, and no Delete has failed halfway.
Undisturbed(k) ==
    /\ ~crashed
    /\ \A o \in Ops : req[o].key = k => o \notin marred
    /\ \A o \in Ops : ~(req[o].kind = "delete" /\ op[o].applied /\ op[o].res = "err")

\* fileblob without attributes has none; memblob and the service store them with
\* the content.
StoredTogether ==
    /\ driver = "bare" => \A k \in Keys : attrs[k] = NoAttrs
    /\ driver \in {"mem", "pipe"} => \A k \in Keys : Fits(k)

\* Calls of fileblob that change one key at the same time know of each other.
MetOthers == driver = "file" =>
    \A o, p \in Ops : o # p /\ Changing(o) /\ Changing(p) /\ req[o].key = req[p].key => o \in marred

\* fileblob writes the attributes first, and removes them last.
WhileChanging(k) ==
    /\ (\A o \in Ops : req[o].key = k => ~Changing(o)) => Fits(k)
    /\ \A o \in Ops : req[o].key = k => /\ op[o].pc = "rename" => attrs[k] = op[o].data
                                        /\ op[o].pc = "rmattrs" => blob[k] = NoBlob
FileAttrs == driver = "file" => \A k \in Keys : Undisturbed(k) => WhileChanging(k)

AttrsOK == StoredTogether /\ MetOthers /\ FileAttrs

IInv ==
    /\ TypeOK
    /\ \A o \in Ops : CallOK(o, op[o]) /\ WrittenOK(o, op[o])
    /\ LockOK
    /\ AttrsOK

\* A step of BlobService, or none.
ServiceStep == [Service!Next]_(Service!vars)

-----------------------------------------------------------------------------
(* Requests and chunks *)

\* What is known of the request of a call.
LEMMA Requests ==
    ASSUME TypeOK, NEW o \in Ops
    PROVE  /\ req[o].kind \in {"write", "copy", "delete", "read"} /\ req[o].key \in Keys /\ req[o].src \in Keys
           /\ req[o].sizes \in Seq(Nat \ {0}) /\ req[o].typed \in BOOLEAN
           /\ req[o].md5 \in {"none", "right", "wrong"}
           /\ req[o].cond \in BOOLEAN /\ (req[o].cond => req[o].kind = "write")
           /\ driver \in {"file", "bare", "mem", "pipe"}
  BY BlobAssumption DEF TypeOK

\* The chunks of a call, one after another.
LEMMA Prefixes ==
    ASSUME NEW o \in Ops, NEW n \in Nat
    PROVE  /\ Prefix(o, n) \in Seq(Pieces) /\ Len(Prefix(o, n)) = n
           /\ Prefix(o, 0) = << >>
           /\ <<Chunk(o, n)>> \in Seq(Pieces) /\ <<Chunk(o, n)>> # << >>
           /\ Prefix(o, n) \o <<Chunk(o, n + 1)>> = Prefix(o, n + 1)
           /\ Prefix(o, n) # <<Chunk(o, 0)>>
<1>1. \A i \in Nat : Chunk(o, i) \in Pieces
  BY DEF Chunk, Pieces, Writers
<1>2. Prefix(o, n) \in Seq(Pieces) /\ Len(Prefix(o, n)) = n
  BY <1>1 DEF Prefix
<1>3. Prefix(o, 0) = << >>
  BY DEF Prefix
<1>4. <<Chunk(o, n)>> \in Seq(Pieces) /\ <<Chunk(o, n)>> # << >>
  BY <1>1
<1>5. Prefix(o, n) \o <<Chunk(o, n + 1)>> = Prefix(o, n + 1)
  <2>1. PICK x \in Pieces : x = Chunk(o, n + 1)
    BY <1>1
  <2>2. PICK u \in Seq(Pieces) : u = Prefix(o, n) /\ Len(u) = n
    BY <1>2
  <2>3. PICK v \in Seq(Pieces) : v = Prefix(o, n + 1)
    <3>1. [i \in 1..(n + 1) |-> Chunk(o, i)] \in Seq(Pieces)
      BY <1>1
    <3> QED
      BY <3>1 DEF Prefix
  <2>4. Len(v) = n + 1 /\ v[n + 1] = x /\ \A i \in 1..n : v[i] = u[i]
    BY <2>1, <2>2, <2>3 DEF Prefix
  <2>5. u \o <<x>> = v
    BY <2>2, <2>4
  <2> QED
    BY <2>1, <2>2, <2>3, <2>5
<1>6. Prefix(o, n) # <<Chunk(o, 0)>>
  <2>1. n = 1 => Prefix(o, n)[1] = <<o, 1>>
    BY DEF Prefix, Chunk
  <2>2. <<Chunk(o, 0)>>[1] = <<o, 0>> /\ Len(<<Chunk(o, 0)>>) = 1 /\ <<o, 0>> # <<o, 1>>
    BY DEF Chunk
  <2> QED
    BY <1>2, <2>1, <2>2
<1> QED
  BY <1>2, <1>3, <1>4, <1>5, <1>6

-----------------------------------------------------------------------------
(* A step of one call *)

\* When o moves and keeps its part of the invariant, so do all.
LEMMA Moves ==
    ASSUME IInv, NEW o \in Ops, NEW c \in Call, Step(o, c), UNCHANGED <<driver, req>>,
           CallOK(o, c), WrittenOK(o, c)
    PROVE  /\ op' \in [Ops -> Call] /\ op'[o] = c /\ \A p \in Ops \ {o} : op'[p] = op[p]
           /\ \A p \in Ops : (CallOK(p, op[p]) /\ WrittenOK(p, op[p]))'
<1>1. op' \in [Ops -> Call] /\ op'[o] = c /\ \A p \in Ops \ {o} : op'[p] = op[p]
  BY DEF IInv, TypeOK, Step
<1>2. ASSUME NEW p \in Ops PROVE (CallOK(p, op[p]) /\ WrittenOK(p, op[p]))'
  <2>1. CallOK(p, op'[p]) /\ WrittenOK(p, op'[p])
    BY <1>1 DEF IInv
  <2>2. PICK d : d = op'[p]
    OBVIOUS
  <2>3. CallOK(p, d) /\ WrittenOK(p, d)
    BY <2>1, <2>2
  <2>4. CallOK(p, d)'
    BY <2>3 DEF CallOK, OnFiles
  <2>5. WrittenOK(p, d)'
    BY <2>3 DEF WrittenOK, Prefix, Chunk
  <2> QED
    BY <2>2, <2>4, <2>5 DEF CallOK, WrittenOK, OnFiles
<1> QED
  BY <1>1, <1>2

\* A step that leaves the bucket alone, and is no part of a change to it.
LEMMA Quiet ==
    ASSUME IInv, NEW o \in Ops, NEW c \in Call, Step(o, c), UNCHANGED <<driver, req, blob, attrs, crashed>>, blind \subseteq blind',
           marred \subseteq marred', faults' \in Nat, faults <= faults', op[o].pc # "done",
           \A p \in Ops \ {o} : lock = p => lock' = p,
           req[o].cond /\ c.pc \in {"create", "encode", "rename"}
             => lock' = o /\ (o \in blind' \/ blob[req[o].key] = NoBlob \/ ~Ask(blob[req[o].key].by).cond),
           driver = "file" => \/ op[o].pc \notin {"encode", "rename", "rmattrs"} /\ c.pc \notin {"encode", "rename", "rmattrs"}
                              \/ c.pc = op[o].pc /\ c.data = op[o].data
    PROVE  LockOK' /\ AttrsOK'
<1>1. TypeOK /\ LockOK /\ AttrsOK /\ op[o].res = "none"
  BY DEF IInv, CallOK, TypeOK, Call
<1>2. op'[o] = c /\ \A p \in Ops \ {o} : op'[p] = op[p]
  BY <1>1 DEF TypeOK, Step
<1>3. LockOK'
  BY <1>1, <1>2 DEF LockOK, Ask, Unsure
<1>4. \A k \in Keys : Fits(k) => Fits(k)'
  BY <1>1 DEF Fits, TypeOK
<1>5. StoredTogether'
  BY <1>1, <1>4 DEF AttrsOK, StoredTogether
<1>6. CASE driver # "file"
  <2>1. driver' # "file"
    BY <1>6
  <2>2. MetOthers' /\ FileAttrs'
    BY <2>1 DEF MetOthers, FileAttrs
  <2> QED
    BY <1>3, <1>5, <2>2 DEF AttrsOK
<1>7. CASE driver = "file"
  <2>1. \A p \in Ops : Changing(p)' <=> Changing(p)
    BY <1>2, <1>7 DEF Changing
  <2>2. MetOthers'
    BY <1>1, <1>7, <2>1 DEF AttrsOK, MetOthers
  <2>3. ASSUME NEW k \in Keys, Undisturbed(k)' PROVE WhileChanging(k)'
    <3>1. Undisturbed(k)
      BY <1>1, <1>2, <2>3 DEF Undisturbed
    <3>2. WhileChanging(k)
      BY <1>1, <1>7, <3>1 DEF AttrsOK, FileAttrs
    <3> QED
      BY <1>2, <1>4, <1>7, <2>1, <3>2 DEF WhileChanging
  <2>4. FileAttrs'
    <3>1. \A k \in Keys : Undisturbed(k)' => WhileChanging(k)'
      BY <2>3
    <3> QED
      BY <3>1 DEF FileAttrs
  <2> QED
    BY <1>3, <1>5, <2>2, <2>4 DEF AttrsOK
<1> QED
  BY <1>6, <1>7

-----------------------------------------------------------------------------
(* Steps of BlobService *)

\* The states of BlobService that those of Blob stand for.
Statuses == [o \in Ops |-> Status(o)]
Gots == [o \in Ops |-> IF req[o].kind = "copy" THEN op[o].read ELSE NoBlob]
Asks == [o \in Writers |-> Ask(o)]

\* The requests stay as they are.
LEMMA AsksStay == ASSUME UNCHANGED <<driver, req>> PROVE Asks' = Asks /\ UNCHANGED OnFiles
  BY DEF Asks, Ask, Unsure, OnFiles

\* A step of o that neither changes the bucket nor returns is none of BlobService.
LEMMA Stutters ==
    ASSUME TypeOK, NEW o \in Ops, NEW c \in Call, Step(o, c), UNCHANGED <<driver, req, blind, blob>>,
           c.res = op[o].res, c.applied = op[o].applied,
           req[o].kind = "copy" => c.read = op[o].read
    PROVE  ServiceStep
<1>1. op'[o] = c /\ \A p \in Ops \ {o} : op'[p] = op[p]
  BY DEF TypeOK, Step
<1>2. \A p \in Ops : Status(p)' = Status(p)
  BY <1>1 DEF Status
<1>3. Statuses' = Statuses /\ Gots' = Gots
  BY <1>1, <1>2 DEF Statuses, Gots
<1>4. Asks' = Asks /\ UNCHANGED OnFiles
  BY AsksStay
<1> QED
  BY <1>3, <1>4 DEF ServiceStep, Service!vars, Statuses, Gots, Asks, Writers

\* A conditional writer of fileblob whose Stat fails.
LEMMA FailsToLook ==
    ASSUME TypeOK, NEW o \in Ops, NEW c \in Call, Step(o, c), UNCHANGED <<driver, req, blob>>,
           op[o].res = "none", ~op[o].applied, c.res = op[o].res, c.applied = op[o].applied,
           req[o].kind = "write", req[o].cond, OnFiles, blind' = blind \union {o}
    PROVE  ServiceStep
<1>1. op'[o] = c /\ \A p \in Ops \ {o} : op'[p] = op[p]
  BY DEF TypeOK, Step
<1>2. \A p \in Ops : Status(p)' = Status(p)
  BY <1>1 DEF Status
<1>3. Statuses' = Statuses /\ Gots' = Gots /\ Statuses[o] = "pending"
  BY <1>1, <1>2 DEF Statuses, Gots, Status
<1>4. Asks' = Asks /\ UNCHANGED OnFiles
  BY AsksStay
<1>5. Asks[o].kind = "write" /\ Asks[o].cond
  BY BlobAssumption DEF Asks, Ask, Writers
<1>6. Service!LookFails(o)
  BY <1>3, <1>4, <1>5 DEF Service!LookFails, Statuses, Gots, Asks, Writers
<1> QED
  BY <1>6 DEF ServiceStep, Service!Next

\* A call that returns.
LEMMA Returns ==
    ASSUME TypeOK, NEW o \in Ops, NEW c \in Call, Step(o, c), UNCHANGED <<driver, req, blind, blob>>,
           op[o].res = "none", c.res \in {"ok", "err"},
           c.res = "ok" => op[o].applied \/ req[o].kind = "read",
           c.res = "err" /\ op[o].applied => Unsure(o),
           req[o].kind = "copy" => c.read = op[o].read
    PROVE  ServiceStep
<1>1. op'[o] = c /\ \A p \in Ops \ {o} : op'[p] = op[p]
  BY DEF TypeOK, Step
<1>2. Status(o)' = c.res /\ \A p \in Ops \ {o} : Status(p)' = Status(p)
  BY <1>1 DEF Status
<1>3. Statuses' = [Statuses EXCEPT ![o] = c.res] /\ Gots' = Gots
  BY <1>1, <1>2 DEF Statuses, Gots
<1>4. Asks' = Asks /\ UNCHANGED OnFiles
  BY AsksStay
<1>5. /\ Statuses[o] = (IF op[o].applied THEN "applied" ELSE "pending")
      /\ Asks[o].kind = req[o].kind /\ Asks[o].unsure = Unsure(o)
  BY BlobAssumption DEF Statuses, Status, Asks, Ask, Writers
<1>6. Service!Return(o)
  BY <1>3, <1>4, <1>5 DEF Service!Return, Statuses, Gots, Asks, Writers
<1> QED
  BY <1>6 DEF ServiceStep, Service!Next

\* A copy that has opened its source.
LEMMA Fetches ==
    ASSUME TypeOK, NEW o \in Ops, NEW c \in Call, Step(o, c), UNCHANGED <<driver, req, blind, blob>>,
           op[o].res = "none", ~op[o].applied, c.res = "none", ~c.applied,
           req[o].kind = "copy", c.read = blob[req[o].src]
    PROVE  ServiceStep
<1>1. op'[o] = c /\ \A p \in Ops \ {o} : op'[p] = op[p]
  BY DEF TypeOK, Step
<1>2. \A p \in Ops : Status(p)' = Status(p)
  BY <1>1 DEF Status
<1>3. Statuses' = Statuses /\ Statuses[o] = "pending"
  BY <1>2 DEF Statuses, Status
<1>4. Gots' = [Gots EXCEPT ![o] = blob[req[o].src]]
  BY <1>1 DEF Gots
<1>5. Asks' = Asks /\ UNCHANGED OnFiles
  BY AsksStay
<1>6. Asks[o].kind = "copy" /\ Asks[o].src = req[o].src
  BY BlobAssumption DEF Asks, Ask, Writers
<1>7. Service!Fetch(o)
  BY <1>3, <1>4, <1>5, <1>6 DEF Service!Fetch, Statuses, Gots, Asks, Writers
<1> QED
  BY <1>7 DEF ServiceStep, Service!Next

\* A write that takes effect: a conditional one that could see its key replaces
\* nothing, or, with fileblob, the blob of a call without the condition.
LEMMA AppliesWrite ==
    ASSUME TypeOK, NEW o \in Ops, NEW c \in Call, Step(o, c), UNCHANGED <<driver, req, blind>>,
           op[o].res = "none", ~op[o].applied, c.res \in {"none", "ok"}, c.applied,
           req[o].kind = "write", NEW b \in Contents, b.by = o,
           blob' = [blob EXCEPT ![req[o].key] = b],
           req[o].cond => \/ o \in blind \/ blob[req[o].key] = NoBlob
                          \/ OnFiles /\ ~Ask(blob[req[o].key].by).cond
    PROVE  ServiceStep
<1>1. op'[o] = c /\ \A p \in Ops \ {o} : op'[p] = op[p]
  BY DEF TypeOK, Step
<1>2. PICK outcome \in {"applied", "ok"} : outcome = IF c.res = "ok" THEN "ok" ELSE "applied"
  OBVIOUS
<1>3. Status(o)' = outcome /\ \A p \in Ops \ {o} : Status(p)' = Status(p)
  BY <1>1, <1>2 DEF Status
<1>4. Statuses' = [Statuses EXCEPT ![o] = outcome] /\ Statuses[o] = "pending"
  BY <1>3 DEF Statuses, Status
<1>5. Asks' = Asks /\ UNCHANGED OnFiles
  BY AsksStay
<1>6. Gots' = Gots
  BY <1>1 DEF Gots
<1>7. /\ Asks[o].kind = "write" /\ Asks[o].key = req[o].key /\ Asks[o].cond = req[o].cond
      /\ req[o].key \in Keys /\ b # NoBlob
  BY BlobAssumption, Requests DEF Asks, Ask, Writers, Contents, Pieces
<1>8. blob[req[o].key] # NoBlob => Asks[blob[req[o].key].by] = Ask(blob[req[o].key].by)
  BY <1>7 DEF TypeOK, Contents, Asks
<1>9. blob'[req[o].key] = b
  BY <1>7 DEF TypeOK
<1>10. Service!MayReplace(o)
  BY <1>7, <1>8 DEF Service!MayReplace, Asks, Writers
<1>11. Service!Effect(o)
  BY <1>7, <1>9, <1>10 DEF Service!Effect, Asks, Writers
<1>12. Service!Apply(o, outcome)
  BY <1>4, <1>5, <1>6, <1>7, <1>11 DEF Service!Apply, Statuses, Gots, Asks, Writers
<1> QED
  BY <1>2, <1>12 DEF ServiceStep, Service!Next

\* A copy that takes effect, with what it has read, now or before.
LEMMA AppliesCopy ==
    ASSUME TypeOK, NEW o \in Ops, NEW c \in Call, Step(o, c), UNCHANGED <<driver, req, blind>>,
           op[o].res = "none", ~op[o].applied, c.res \in {"none", "ok"}, c.applied,
           req[o].kind = "copy", c.read # NoBlob, c.read = op[o].read \/ c.read = blob[req[o].src],
           blob' = [blob EXCEPT ![req[o].key] = [by |-> o, bytes |-> c.read.bytes]]
    PROVE  ServiceStep
<1>1. op'[o] = c /\ \A p \in Ops \ {o} : op'[p] = op[p]
  BY DEF TypeOK, Step
<1>2. PICK outcome \in {"applied", "ok"} : outcome = IF c.res = "ok" THEN "ok" ELSE "applied"
  OBVIOUS
<1>3. Status(o)' = outcome /\ \A p \in Ops \ {o} : Status(p)' = Status(p)
  BY <1>1, <1>2 DEF Status
<1>4. Statuses' = [Statuses EXCEPT ![o] = outcome] /\ Statuses[o] = "pending"
  BY <1>3 DEF Statuses, Status
<1>5. Asks' = Asks /\ UNCHANGED OnFiles
  BY AsksStay
<1>6. Gots' = [Gots EXCEPT ![o] = c.read] /\ Gots'[o] = c.read /\ Gots[o] = op[o].read
  BY <1>1 DEF Gots
<1>7. Asks[o].kind = "copy" /\ Asks[o].key = req[o].key /\ Asks[o].src = req[o].src
  BY BlobAssumption DEF Asks, Ask, Writers
<1>8. Gots' = Gots \/ Gots' = [Gots EXCEPT ![o] = blob[req[o].src]]
  BY <1>6 DEF Gots
<1>9. Service!Effect(o)
  BY <1>6, <1>7 DEF Service!Effect, Asks, Writers, Gots
<1>10. Service!Apply(o, outcome)
  BY <1>4, <1>5, <1>7, <1>8, <1>9 DEF Service!Apply, Statuses, Gots, Asks, Writers
<1> QED
  BY <1>2, <1>10 DEF ServiceStep, Service!Next

\* A delete that takes effect.
LEMMA AppliesDelete ==
    ASSUME TypeOK, NEW o \in Ops, NEW c \in Call, Step(o, c), UNCHANGED <<driver, req, blind>>,
           op[o].res = "none", ~op[o].applied, c.res \in {"none", "ok"}, c.applied,
           req[o].kind = "delete", blob' = [blob EXCEPT ![req[o].key] = NoBlob]
    PROVE  ServiceStep
<1>1. op'[o] = c /\ \A p \in Ops \ {o} : op'[p] = op[p]
  BY DEF TypeOK, Step
<1>2. PICK outcome \in {"applied", "ok"} : outcome = IF c.res = "ok" THEN "ok" ELSE "applied"
  OBVIOUS
<1>3. Status(o)' = outcome /\ \A p \in Ops \ {o} : Status(p)' = Status(p)
  BY <1>1, <1>2 DEF Status
<1>4. Statuses' = [Statuses EXCEPT ![o] = outcome] /\ Statuses[o] = "pending"
  BY <1>3 DEF Statuses, Status
<1>5. Asks' = Asks /\ UNCHANGED OnFiles
  BY AsksStay
<1>6. Gots' = Gots
  BY <1>1 DEF Gots
<1>7. Asks[o].kind = "delete" /\ Asks[o].key = req[o].key
  BY BlobAssumption DEF Asks, Ask, Writers
<1>8. Service!Effect(o)
  BY <1>7 DEF Service!Effect, Asks, Writers
<1>9. Service!Apply(o, outcome)
  BY <1>4, <1>5, <1>6, <1>7, <1>8 DEF Service!Apply, Statuses, Gots, Asks, Writers
<1> QED
  BY <1>2, <1>9 DEF ServiceStep, Service!Next

-----------------------------------------------------------------------------
(* Steps that leave the bucket alone *)

\* o moves to c, and what it leaves alone.
QuietStep(o, c) ==
    /\ Step(o, c) /\ UNCHANGED <<driver, req, blind, blob, attrs, crashed>>
    /\ marred \subseteq marred' /\ faults' \in Nat /\ faults <= faults' /\ op[o].pc # "done"
    /\ \A p \in Ops \ {o} : lock = p => lock' = p
    /\ req[o].cond /\ c.pc \in {"create", "encode", "rename"}
         => lock' = o /\ (o \in blind \/ blob[req[o].key] = NoBlob \/ ~Ask(blob[req[o].key].by).cond)
    /\ driver = "file" => \/ op[o].pc \notin {"encode", "rename", "rmattrs"} /\ c.pc \notin {"encode", "rename", "rmattrs"}
                          \/ c.pc = op[o].pc /\ c.data = op[o].data

\* Faults are counted.
LEMMA FaultsGrow == ASSUME TypeOK, Fault \/ UNCHANGED faults PROVE faults' \in Nat /\ faults <= faults'
  BY DEF TypeOK, Fault

\* Such a step keeps the invariant when it keeps what is said of o.
LEMMA QuietKeeps ==
    ASSUME IInv, NEW o \in Ops, NEW c \in Call, QuietStep(o, c), CallOK(o, c), WrittenOK(o, c)
    PROVE  IInv'
<1>1. LockOK' /\ AttrsOK'
  BY Quiet DEF QuietStep
<1>2. op' \in [Ops -> Call] /\ \A p \in Ops : (CallOK(p, op[p]) /\ WrittenOK(p, op[p]))'
  BY Moves DEF QuietStep
<1>3. TypeOK'
  BY <1>2 DEF IInv, TypeOK, QuietStep
<1> QED
  BY <1>1, <1>2, <1>3 DEF IInv

\* A call that returns an error before it has changed anything.
LEMMA Fails ==
    ASSUME IInv, NEW o \in Ops, NEW d \in Call, Done(o, d, "err"), d = op[o] \/ d = [op[o] EXCEPT !.ctxDone = TRUE],
           UNCHANGED <<driver, req, blind, blob, attrs, marred, crashed>>, Fault \/ UNCHANGED faults,
           op[o].pc # "done", ~op[o].applied, op[o].up # "running",
           driver = "file" => op[o].pc \notin {"encode", "rename", "rmattrs"}
    PROVE  IInv' /\ ServiceStep
<1>1. TypeOK /\ op[o] \in Call /\ CallOK(o, op[o]) /\ WrittenOK(o, op[o])
  BY DEF IInv, TypeOK
<1>2. PICK c : c = [d EXCEPT !.pc = "done", !.res = "err"]
  OBVIOUS
<1>3. /\ c \in Call /\ c.pc = "done" /\ c.res = "err" /\ c.read = op[o].read
      /\ Step(o, c) /\ lock' = IF lock = o THEN None ELSE lock
  BY <1>1, <1>2 DEF Done, Call
<1>4. CallOK(o, c)
  BY <1>1, <1>2 DEF CallOK, Call
<1>5. WrittenOK(o, c)
  BY <1>1, <1>2 DEF WrittenOK, Call
<1>6. QuietStep(o, c)
  BY <1>1, <1>3, FaultsGrow DEF QuietStep
<1>7. op[o].res = "none"
  BY <1>1 DEF CallOK, Call
<1>8. ServiceStep
  BY <1>1, <1>3, <1>7, Returns
<1> QED
  BY <1>3, <1>4, <1>5, <1>6, <1>8, QuietKeeps

\* A step that BlobService does not see.
LEMMA Silent ==
    ASSUME IInv, NEW o \in Ops, NEW c \in Call, QuietStep(o, c), CallOK(o, c), WrittenOK(o, c),
           c.res = op[o].res, c.applied = op[o].applied, req[o].kind = "copy" => c.read = op[o].read
    PROVE  IInv' /\ ServiceStep
<1>1. TypeOK /\ Step(o, c) /\ UNCHANGED <<driver, req, blind, blob>>
  BY DEF IInv, QuietStep
<1>2. ServiceStep
  BY <1>1, Stutters
<1> QED
  BY <1>2, QuietKeeps

-----------------------------------------------------------------------------
(* blob.Writer *)

\* NewWriter has nothing written.
LEMMA StepNewWriter == ASSUME IInv, NEW o \in Ops, NewWriter(o) PROVE IInv' /\ ServiceStep
<1>1. /\ TypeOK /\ op[o] \in Call /\ CallOK(o, op[o]) /\ WrittenOK(o, op[o])
      /\ req[o].kind = "write" /\ req[o].typed \in BOOLEAN /\ op[o] = NewCall
  BY Requests DEF IInv, TypeOK, NewWriter, CallOK
<1>2. CASE UNCHANGED <<lock, faults>> /\ Step(o, [op[o] EXCEPT !.pc = "open-writer", !.opened = req[o].typed])
  <2>1. PICK c : c = [op[o] EXCEPT !.pc = "open-writer", !.opened = req[o].typed]
    OBVIOUS
  <2>2. c \in Call /\ c.pc = "open-writer"
    BY <1>1, <2>1 DEF Call
  <2>3. CallOK(o, c)
    BY <1>1, <2>1 DEF CallOK, Call, NewCall
  <2>4. /\ c.next = 1 /\ c.next - 1 = 0 /\ c.data = << >> /\ c.buf = << >> /\ c.hashed = << >> /\ ~c.applied
        /\ 1 \in 1..Len(req[o].sizes) + 1
    BY <1>1, <2>1, Requests DEF NewCall
  <2>5. Prefix(o, 0) = << >>
    BY Prefixes
  <2>6. WrittenOK(o, c)
    BY <2>2, <2>4, <2>5 DEF WrittenOK
  <2>7. QuietStep(o, c)
    BY <1>1, <1>2, <2>1, <2>2, FaultsGrow DEF QuietStep, NewWriter
  <2>8. c.res = op[o].res /\ c.applied = op[o].applied /\ c.read = op[o].read
    BY <1>1, <2>1 DEF Call
  <2> QED
    BY <2>2, <2>3, <2>6, <2>7, <2>8, Silent
<1>3. CASE Fault /\ Done(o, op[o], "err")
  BY <1>1, <1>3, Fails DEF NewWriter, NewCall
<1> QED
  BY <1>2, <1>3 DEF NewWriter

\* c is o after it was given a chunk, with the bytes to hand to the driver.
Given(o, c, bytes) ==
    /\ req[o].kind = "write" /\ op[o].pc = "open-writer" /\ c.pc = "open-writer" /\ c.opened
    /\ c.res = op[o].res /\ c.applied = op[o].applied /\ c.failing = op[o].failing /\ c.eof = op[o].eof
    /\ c.up = op[o].up
    /\ c.next \in 1..Len(req[o].sizes) + 1
    /\ req[o].md5 # "none" => c.hashed = Prefix(o, c.next - 1)
    /\ ~c.refused => c.data \o bytes = Prefix(o, c.next - 1)

\* The driver takes the bytes, or the Write is refused.
LEMMA StepDriverWrite ==
    ASSUME IInv, NEW o \in Ops, NEW c \in Call, NEW bytes \in Seq(Pieces), Given(o, c, bytes),
           DriverWrite(o, c, bytes), UNCHANGED <<driver, req, blind, blob, attrs, lock, marred, crashed>>
    PROVE  IInv' /\ ServiceStep
<1>1. /\ TypeOK /\ op[o] \in Call /\ CallOK(o, op[o])
  BY DEF IInv, TypeOK
<1>2. PICK d : \/ /\ d = [c EXCEPT !.data = @ \o bytes,
                                  !.up = IF driver = "pipe" /\ bytes # <<>> /\ @ = "none" THEN "running" ELSE @]
                  /\ Step(o, d) /\ UNCHANGED faults
               \/ d = [c EXCEPT !.refused = TRUE] /\ Step(o, d) /\ (Fault \/ UNCHANGED faults)
  BY DEF DriverWrite
<1>3. /\ d \in Call /\ d.pc = "open-writer" /\ d.opened /\ d.res = c.res /\ d.applied = c.applied
      /\ d.failing = c.failing /\ d.eof = c.eof /\ d.next = c.next /\ d.hashed = c.hashed
      /\ d.up = c.up \/ (driver = "pipe" /\ d.up = "running")
      /\ ~d.refused => ~c.refused /\ d.data = c.data \o bytes
  <2>1. c.data \o bytes \in Seq(Pieces)
    BY DEF Call
  <2> QED
    BY <1>2, <2>1 DEF Given, Call
<1>4. CallOK(o, d)
  BY <1>1, <1>3 DEF CallOK, Given
<1>5. WrittenOK(o, d)
  BY <1>1, <1>3 DEF WrittenOK, Given, CallOK
<1>6. QuietStep(o, d)
  BY <1>1, <1>2, <1>3, FaultsGrow DEF QuietStep, Given
<1> QED
  BY <1>3, <1>4, <1>5, <1>6, Silent DEF Given

\* A Write that waits in the buffer, or that is refused before the driver has it.
LEMMA StepBuffer ==
    ASSUME IInv, NEW o \in Ops, NEW d \in Call, Step(o, d), Fault \/ UNCHANGED faults,
           UNCHANGED <<driver, req, blind, blob, attrs, lock, marred, crashed>>,
           req[o].kind = "write", op[o].pc = "open-writer", d.pc = "open-writer",
           d.opened = op[o].opened, ~d.opened,
           d.res = op[o].res, d.applied = op[o].applied, d.failing = op[o].failing, d.eof = op[o].eof,
           d.up = op[o].up, d.next \in 1..Len(req[o].sizes) + 1,
           req[o].md5 # "none" => d.hashed = Prefix(o, d.next - 1),
           d.bufLen = 0 => d.buf = << >>,
           ~d.refused => d.data = << >> /\ d.buf = Prefix(o, d.next - 1)
    PROVE  IInv' /\ ServiceStep
<1>1. TypeOK /\ op[o] \in Call /\ CallOK(o, op[o])
  BY DEF IInv, TypeOK
<1>2. CallOK(o, d)
  BY <1>1 DEF CallOK
<1>3. WrittenOK(o, d)
  BY <1>1 DEF WrittenOK, CallOK
<1>4. QuietStep(o, d)
  BY <1>1, FaultsGrow DEF QuietStep
<1> QED
  BY <1>2, <1>3, <1>4, Silent

\* Writer.Write: the chunk goes to the driver, with what was buffered before, or
\* to the buffer.
LEMMA StepWrite == ASSUME IInv, NEW o \in Ops, Write(o) PROVE IInv' /\ ServiceStep
<1>1. /\ TypeOK /\ op[o] \in Call /\ CallOK(o, op[o]) /\ WrittenOK(o, op[o])
      /\ op[o].pc = "open-writer" /\ req[o].kind = "write"
      /\ UNCHANGED <<driver, req, blind, blob, attrs, lock, marred, crashed>>
  BY DEF IInv, TypeOK, Write, CallOK
<1>2. PICK j \in Nat : j = op[o].next
  BY <1>1 DEF Call
<1>3. /\ j \in 1..Len(req[o].sizes) /\ j - 1 \in Nat /\ (j - 1) + 1 = j /\ (j + 1) - 1 = j
      /\ j + 1 \in 1..Len(req[o].sizes) + 1
  <2>1. j \in 1..Len(req[o].sizes) + 1 /\ j <= Len(req[o].sizes) /\ Len(req[o].sizes) \in Nat
    BY <1>1, <1>2, Requests DEF WrittenOK, Write
  <2> QED
    BY <2>1
<1>4. PICK q : q = <<Chunk(o, j)>>
  OBVIOUS
<1>5. q \in Seq(Pieces) /\ q # << >> /\ Prefix(o, j - 1) \o q = Prefix(o, j)
  BY <1>3, <1>4, Prefixes
<1>6. PICK n \in Nat \ {0} : n = req[o].sizes[j]
  BY <1>1, <1>3, Requests
<1>7. PICK c : c = [op[o] EXCEPT !.next = @ + 1, !.hashed = IF req[o].md5 = "none" THEN @ ELSE @ \o q]
  OBVIOUS
<1>8. /\ c \in Call /\ c.pc = "open-writer" /\ c.opened = op[o].opened /\ c.res = op[o].res
      /\ c.applied = op[o].applied /\ c.failing = op[o].failing /\ c.eof = op[o].eof /\ c.up = op[o].up
      /\ c.next = j + 1 /\ c.buf = op[o].buf /\ c.bufLen = op[o].bufLen /\ c.data = op[o].data
      /\ c.refused = op[o].refused
      /\ req[o].md5 # "none" => c.hashed = op[o].hashed \o q
  <2>1. op[o].hashed \in Seq(Pieces) /\ op[o].next \in Nat
    BY <1>1 DEF Call
  <2>2. PICK h \in Seq(Pieces) : h = IF req[o].md5 = "none" THEN op[o].hashed ELSE op[o].hashed \o q
    <3>1. op[o].hashed \o q \in Seq(Pieces)
      BY <1>5, <2>1
    <3> QED
      BY <2>1, <3>1
  <2>3. c = [op[o] EXCEPT !.next = j + 1, !.hashed = h] /\ j + 1 \in Nat
    BY <1>1, <1>2, <1>7, <2>2 DEF Call
  <2> QED
    BY <1>1, <2>2, <2>3 DEF Call
<1>9. req[o].md5 # "none" => c.hashed = Prefix(o, j)
  BY <1>1, <1>2, <1>5, <1>8 DEF WrittenOK
<1>10. PICK b : b = [c EXCEPT !.buf = @ \o q, !.bufLen = @ + n]
  OBVIOUS
<1>11. /\ b \in Call /\ b.pc = "open-writer" /\ b.opened = op[o].opened /\ b.res = op[o].res
       /\ b.applied = op[o].applied /\ b.failing = op[o].failing /\ b.eof = op[o].eof /\ b.up = op[o].up
       /\ b.next = j + 1 /\ b.buf = op[o].buf \o q /\ b.bufLen = op[o].bufLen + n /\ b.data = op[o].data
       /\ b.refused = op[o].refused /\ b.hashed = c.hashed
  <2>1. c.buf \in Seq(Pieces) /\ c.bufLen \in Nat
    BY <1>8 DEF Call
  <2>2. c.buf \o q \in Seq(Pieces) /\ c.bufLen + n \in Nat
    BY <1>5, <2>1
  <2>3. b = [c EXCEPT !.buf = c.buf \o q, !.bufLen = c.bufLen + n]
    BY <1>8, <1>10 DEF Call
  <2> QED
    BY <1>8, <2>2, <2>3 DEF Call
<1>12. \/ c.opened /\ DriverWrite(o, c, q)
       \/ ~c.opened /\ c.bufLen = 0 /\ WriterOpen(o, c, q)
       \/ ~c.opened /\ WriterOpen(o, b, b.buf)
       \/ ~c.opened /\ Step(o, b) /\ UNCHANGED faults
  <2>1. CASE c.opened
    BY <1>2, <1>4, <1>6, <1>7, <1>10, <2>1 DEF Write
  <2>2. CASE ~c.opened /\ c.bufLen = 0 /\ n >= SniffLen
    BY <1>2, <1>4, <1>6, <1>7, <1>10, <2>2 DEF Write
  <2>3. CASE ~c.opened /\ ~(c.bufLen = 0 /\ n >= SniffLen) /\ b.bufLen >= SniffLen
    BY <1>2, <1>4, <1>6, <1>7, <1>10, <2>3 DEF Write
  <2>4. CASE ~c.opened /\ ~(c.bufLen = 0 /\ n >= SniffLen) /\ ~(b.bufLen >= SniffLen)
    BY <1>2, <1>4, <1>6, <1>7, <1>10, <2>4 DEF Write
  <2> QED
    BY <2>1, <2>2, <2>3, <2>4
<1>13. CASE c.opened /\ DriverWrite(o, c, q)
  <2>1. ~c.refused => c.data \o q = Prefix(o, j)
    BY <1>1, <1>2, <1>5, <1>8, <1>13 DEF WrittenOK
  <2>2. Given(o, c, q)
    BY <1>1, <1>3, <1>8, <1>9, <1>13, <2>1 DEF Given
  <2> QED
    BY <1>1, <1>5, <1>8, <1>13, <2>2, StepDriverWrite
<1>14. CASE ~c.opened /\ c.bufLen = 0 /\ WriterOpen(o, c, q)
  <2>1. ~c.refused => op[o].data = << >> /\ op[o].buf = Prefix(o, j - 1) /\ op[o].buf = << >>
    BY <1>1, <1>2, <1>8, <1>14 DEF WrittenOK
  <2>2. PICK d : d = [c EXCEPT !.opened = TRUE, !.buf = <<>>, !.bufLen = 0]
    OBVIOUS
  <2>3. /\ d \in Call /\ d.pc = c.pc /\ d.opened /\ d.res = c.res /\ d.applied = c.applied
        /\ d.failing = c.failing /\ d.eof = c.eof /\ d.up = c.up /\ d.next = c.next
        /\ d.hashed = c.hashed /\ d.data = c.data /\ d.refused = c.refused
    <3>1. << >> \in Seq(Pieces)
      OBVIOUS
    <3> QED
      BY <1>8, <2>2, <3>1 DEF Call
  <2>4. CASE DriverWrite(o, d, q)
    <3>1. ~d.refused => d.data \o q = Prefix(o, j)
      <4>1. ~d.refused => d.data = Prefix(o, j - 1)
        BY <1>8, <2>1, <2>3
      <4> QED
        BY <1>5, <4>1
    <3>2. Given(o, d, q)
      BY <1>1, <1>3, <1>8, <1>9, <2>3, <3>1 DEF Given
    <3> QED
      BY <1>1, <1>5, <2>3, <2>4, <3>2, StepDriverWrite
  <2>5. CASE Fault /\ Step(o, [c EXCEPT !.refused = TRUE])
    <3>1. PICK e : e = [c EXCEPT !.refused = TRUE]
      OBVIOUS
    <3>2. /\ e \in Call /\ e.pc = c.pc /\ e.opened = c.opened /\ e.res = c.res /\ e.applied = c.applied
          /\ e.failing = c.failing /\ e.eof = c.eof /\ e.up = c.up /\ e.next = c.next
          /\ e.hashed = c.hashed /\ e.bufLen = c.bufLen /\ e.buf = c.buf /\ e.refused
      BY <1>8, <3>1 DEF Call
    <3>3. c.bufLen = 0 => c.buf = << >>
      BY <1>1, <1>8, <1>14 DEF WrittenOK
    <3>4. Step(o, e)
      BY <2>5, <3>1
    <3> QED
      BY <1>1, <1>3, <1>8, <1>9, <1>14, <2>5, <3>2, <3>3, <3>4, StepBuffer
  <2> QED
    BY <1>14, <2>2, <2>4, <2>5 DEF WriterOpen
<1>15. ~c.opened => b.bufLen # 0 /\ (~b.refused => b.data = << >> /\ b.buf = Prefix(o, j))
  <2>1. op[o].bufLen \in Nat
    BY <1>1 DEF Call
  <2>2. b.bufLen # 0
    BY <1>11, <2>1
  <2> QED
    BY <1>1, <1>2, <1>5, <1>8, <1>11, <2>2 DEF WrittenOK
<1>16. CASE ~c.opened /\ WriterOpen(o, b, b.buf)
  <2>2. PICK d : d = [b EXCEPT !.opened = TRUE, !.buf = <<>>, !.bufLen = 0]
    OBVIOUS
  <2>3. /\ d \in Call /\ d.pc = b.pc /\ d.opened /\ d.res = b.res /\ d.applied = b.applied
        /\ d.failing = b.failing /\ d.eof = b.eof /\ d.up = b.up /\ d.next = b.next
        /\ d.hashed = b.hashed /\ d.data = b.data /\ d.refused = b.refused
    <3>1. << >> \in Seq(Pieces)
      OBVIOUS
    <3> QED
      BY <1>11, <2>2, <3>1 DEF Call
  <2>4. CASE DriverWrite(o, d, b.buf)
    <3>1. b.buf \in Seq(Pieces) /\ << >> \o b.buf = b.buf
      <4>1. b.buf \in Seq(Pieces)
        BY <1>11 DEF Call
      <4>2. \A u \in Seq(Pieces) : << >> \o u = u
        OBVIOUS
      <4> QED
        BY <4>1, <4>2
    <3>2. ~d.refused => d.data \o b.buf = Prefix(o, j)
      BY <1>15, <1>16, <2>3, <3>1
    <3>3. Given(o, d, b.buf)
      BY <1>1, <1>3, <1>9, <1>11, <2>3, <3>2 DEF Given
    <3> QED
      BY <1>1, <2>3, <2>4, <3>1, <3>3, StepDriverWrite
  <2>5. CASE Fault /\ Step(o, [b EXCEPT !.refused = TRUE])
    <3>1. PICK e : e = [b EXCEPT !.refused = TRUE]
      OBVIOUS
    <3>2. /\ e \in Call /\ e.pc = b.pc /\ e.opened = b.opened /\ e.res = b.res /\ e.applied = b.applied
          /\ e.failing = b.failing /\ e.eof = b.eof /\ e.up = b.up /\ e.next = b.next
          /\ e.hashed = b.hashed /\ e.bufLen = b.bufLen /\ e.buf = b.buf /\ e.refused
      BY <1>11, <3>1 DEF Call
    <3>4. Step(o, e)
      BY <2>5, <3>1
    <3> QED
      BY <1>1, <1>3, <1>8, <1>9, <1>11, <1>15, <1>16, <2>5, <3>2, <3>4, StepBuffer
  <2> QED
    BY <1>16, <2>2, <2>4, <2>5 DEF WriterOpen
<1>17. CASE ~c.opened /\ Step(o, b) /\ UNCHANGED faults
  BY <1>1, <1>3, <1>8, <1>9, <1>11, <1>15, <1>17, StepBuffer
<1> QED
  BY <1>12, <1>13, <1>14, <1>16, <1>17

\* Writer.Close, up to the driver's Close: what was buffered is with the driver,
\* and if the checksum is wrong the context is done.
LEMMA StepClose == ASSUME IInv, NEW o \in Ops, Close(o) PROVE IInv' /\ ServiceStep
<1>1. /\ TypeOK /\ op[o] \in Call /\ CallOK(o, op[o]) /\ WrittenOK(o, op[o])
      /\ op[o].pc = "open-writer" /\ req[o].kind = "write" /\ ~op[o].applied
      /\ UNCHANGED <<driver, req, blind, blob, attrs, marred, crashed>>
  BY DEF IInv, TypeOK, Close, CallOK, Call
<1>2. ~op[o].opened => op[o].up = "none"
  BY <1>1 DEF CallOK
<1>3. ~op[o].refused => Prefix(o, op[o].next - 1) = Prefix(o, Len(req[o].sizes))
  <2>1. op[o].next \in 1..Len(req[o].sizes) + 1 /\ Len(req[o].sizes) \in Nat
    BY <1>1, Requests DEF WrittenOK
  <2>2. ~op[o].refused => op[o].next > Len(req[o].sizes)
    BY DEF Close
  <2>3. ~op[o].refused => op[o].next - 1 = Len(req[o].sizes)
    BY <2>1, <2>2
  <2> QED
    BY <2>3
<1>4. ASSUME NEW c \in Call, Step(o, c), UNCHANGED <<lock, faults>>, c.pc = "closing", c.res = op[o].res,
             c.applied = op[o].applied, c.next = op[o].next, c.hashed = op[o].hashed, c.refused = op[o].refused,
             c.opened, c.eof = op[o].eof,
             c.failing => c.ctxDone, req[o].md5 = "wrong" => c.failing,
             c.up = op[o].up \/ (driver = "pipe" /\ c.up = "running"),
             c.data = IF op[o].opened THEN op[o].data ELSE op[o].buf
      PROVE  IInv' /\ ServiceStep
  <2>1. CallOK(o, c)
    BY <1>1, <1>4 DEF CallOK
  <2>2. WrittenOK(o, c)
    BY <1>1, <1>3, <1>4 DEF WrittenOK
  <2>3. QuietStep(o, c)
    BY <1>1, <1>4, FaultsGrow DEF QuietStep
  <2> QED
    BY <1>1, <1>4, <2>1, <2>2, <2>3, Silent
<1>5. CASE req[o].md5 # "none" /\ op[o].hashed # ContentMD5(o)
  <2>1. CASE op[o].opened
    <3>1. PICK c : c = [op[o] EXCEPT !.pc = "closing", !.ctxDone = TRUE, !.failing = TRUE]
      OBVIOUS
    <3>2. Step(o, c) /\ UNCHANGED <<lock, faults>>
      BY <1>5, <2>1, <3>1 DEF Close
    <3>3. /\ c \in Call /\ c.pc = "closing" /\ c.res = op[o].res /\ c.applied = op[o].applied
          /\ c.next = op[o].next /\ c.hashed = op[o].hashed /\ c.refused = op[o].refused
          /\ c.opened = op[o].opened /\ c.eof = op[o].eof /\ c.ctxDone /\ c.failing
          /\ c.up = op[o].up /\ c.data = op[o].data
      BY <1>1, <3>1 DEF Call
    <3> QED
      BY <1>4, <2>1, <3>2, <3>3
  <2>2. CASE ~op[o].opened
    <3>1. PICK d : d = [op[o] EXCEPT !.ctxDone = TRUE]
      OBVIOUS
    <3>2. Done(o, d, "err") /\ UNCHANGED faults /\ d \in Call
      BY <1>1, <1>5, <2>2, <3>1 DEF Close, Call
    <3> QED
      BY <1>1, <1>2, <2>2, <3>1, <3>2, Fails
  <2> QED
    BY <2>1, <2>2
<1>6. CASE ~(req[o].md5 # "none" /\ op[o].hashed # ContentMD5(o))
  <2>1. req[o].md5 # "wrong"
    <3>1. op[o].next - 1 \in Nat
      BY <1>1, Requests DEF WrittenOK
    <3>2. Prefix(o, op[o].next - 1) # <<Chunk(o, 0)>>
      BY <3>1, Prefixes
    <3> QED
      BY <1>1, <1>6, <3>2 DEF WrittenOK, ContentMD5
  <2>2. ~op[o].failing
    BY <1>1 DEF CallOK
  <2>3. CASE op[o].opened /\ Step(o, [op[o] EXCEPT !.pc = "closing"]) /\ UNCHANGED <<lock, faults>>
    <3>1. PICK c : c = [op[o] EXCEPT !.pc = "closing"]
      OBVIOUS
    <3>2. Step(o, c) /\ UNCHANGED <<lock, faults>>
      BY <2>3, <3>1
    <3>3. /\ c \in Call /\ c.pc = "closing" /\ c.res = op[o].res /\ c.applied = op[o].applied
          /\ c.next = op[o].next /\ c.hashed = op[o].hashed /\ c.refused = op[o].refused
          /\ c.opened = op[o].opened /\ c.eof = op[o].eof /\ ~c.failing
          /\ c.up = op[o].up /\ c.data = op[o].data
      BY <1>1, <2>2, <3>1 DEF Call
    <3> QED
      BY <1>4, <2>1, <2>3, <3>2, <3>3
  <2>4. CASE /\ ~op[o].opened
             /\ Step(o, [op[o] EXCEPT !.pc = "closing", !.opened = TRUE, !.data = op[o].buf,
                                      !.up = IF driver = "pipe" /\ op[o].buf # <<>> THEN "running" ELSE @])
             /\ UNCHANGED <<lock, faults>>
    <3>1. PICK c : c = [op[o] EXCEPT !.pc = "closing", !.opened = TRUE, !.data = op[o].buf,
                                     !.up = IF driver = "pipe" /\ op[o].buf # <<>> THEN "running" ELSE @]
      OBVIOUS
    <3>2. Step(o, c) /\ UNCHANGED <<lock, faults>>
      BY <2>4, <3>1
    <3>3. /\ c \in Call /\ c.pc = "closing" /\ c.res = op[o].res /\ c.applied = op[o].applied
          /\ c.next = op[o].next /\ c.hashed = op[o].hashed /\ c.refused = op[o].refused
          /\ c.opened /\ c.eof = op[o].eof /\ ~c.failing
          /\ c.up = op[o].up \/ (driver = "pipe" /\ c.up = "running") 
          /\ c.data = op[o].buf
      BY <1>1, <2>2, <3>1 DEF Call
    <3> QED
      BY <1>4, <2>1, <2>4, <3>2, <3>3
  <2>5. CASE ~op[o].opened /\ Fault /\ Done(o, op[o], "err")
    BY <1>1, <1>2, <2>5, Fails
  <2> QED
    BY <1>6, <2>3, <2>4, <2>5 DEF Close
<1> QED
  BY <1>5, <1>6

\* A context that is done changes nothing by itself.
LEMMA StepCancel == ASSUME IInv, NEW o \in Ops, Cancel(o) PROVE IInv' /\ ServiceStep
<1>1. /\ TypeOK /\ op[o] \in Call /\ CallOK(o, op[o]) /\ WrittenOK(o, op[o]) /\ LockOK
      /\ op[o].pc \notin {"idle", "done"}
  BY DEF IInv, TypeOK, Cancel
<1>2. PICK c : c = [op[o] EXCEPT !.ctxDone = TRUE]
  OBVIOUS
<1>3. /\ c \in Call /\ c.pc = op[o].pc /\ c.data = op[o].data /\ c.res = op[o].res
      /\ c.applied = op[o].applied /\ c.read = op[o].read
  BY <1>1, <1>2 DEF Call
<1>4. CallOK(o, c)
  BY <1>1, <1>2 DEF CallOK, Call
<1>5. WrittenOK(o, c)
  BY <1>1, <1>2 DEF WrittenOK, Call
<1>6. QuietStep(o, c)
  BY <1>1, <1>2, <1>3, FaultsGrow DEF QuietStep, Cancel, LockOK
<1> QED
  BY <1>3, <1>4, <1>5, <1>6, Silent

-----------------------------------------------------------------------------
(* Drivers: steps that leave the bucket alone *)

\* o moves on to pc and keeps the rest.
MovesTo(o, c, pc) == c = [op[o] EXCEPT !.pc = pc] /\ Step(o, c)

\* What it keeps.
LEMMA Kept ==
    ASSUME IInv, NEW o \in Ops, NEW c,
           NEW pc \in {"lock", "create", "rename", "commit", "remove"}, MovesTo(o, c, pc)
    PROVE  /\ c \in Call /\ c.pc = pc /\ c.res = op[o].res /\ c.applied = op[o].applied /\ c.read = op[o].read
           /\ c.data = op[o].data /\ c.next = op[o].next /\ c.hashed = op[o].hashed /\ c.bufLen = op[o].bufLen
           /\ c.opened = op[o].opened /\ c.buf = op[o].buf /\ c.refused = op[o].refused
           /\ c.failing = op[o].failing /\ c.ctxDone = op[o].ctxDone /\ c.up = op[o].up /\ c.eof = op[o].eof
           /\ Step(o, c) /\ op[o] \in Call
<1>1. op[o] \in Call
  BY DEF IInv, TypeOK
<1> QED
  BY <1>1 DEF MovesTo, Call

\* fileblob's Close, up to the check or to the attributes.
LEMMA StepFileClose == ASSUME IInv, NEW o \in Ops, FileClose(o) PROVE IInv' /\ ServiceStep
<1>1. /\ TypeOK /\ op[o] \in Call /\ CallOK(o, op[o]) /\ WrittenOK(o, op[o])
      /\ op[o].pc = "closing" /\ OnFiles /\ ~op[o].applied /\ op[o].up = "none"
      /\ UNCHANGED <<driver, req, blind, blob, attrs, marred, crashed>>
  BY DEF IInv, TypeOK, FileClose, CallOK, OnFiles, Call
<1>2. CASE (Fault \/ UNCHANGED faults) /\ Done(o, op[o], "err")
  BY <1>1, <1>2, Fails
<1>3. CASE /\ ~op[o].ctxDone /\ UNCHANGED <<lock, faults>>
           /\ Step(o, [op[o] EXCEPT !.pc = IF req[o].cond THEN "lock"
                                           ELSE IF driver = "bare" THEN "rename" ELSE "create"])
  <2>1. PICK pc \in {"lock", "create", "rename"} :
              pc = IF req[o].cond THEN "lock" ELSE IF driver = "bare" THEN "rename" ELSE "create"
    OBVIOUS
  <2>2. PICK c : c = [op[o] EXCEPT !.pc = pc] /\ Step(o, c)
    BY <1>3, <2>1
  <2>3. MovesTo(o, c, pc)
    BY <2>2 DEF MovesTo
  <2>4. /\ c \in Call /\ c.pc = pc /\ c.res = op[o].res /\ c.applied = op[o].applied /\ c.read = op[o].read
        /\ c.data = op[o].data /\ c.next = op[o].next /\ c.hashed = op[o].hashed /\ c.bufLen = op[o].bufLen
        /\ c.opened = op[o].opened /\ c.buf = op[o].buf /\ c.refused = op[o].refused
        /\ c.failing = op[o].failing /\ c.ctxDone = op[o].ctxDone /\ c.up = op[o].up /\ c.eof = op[o].eof
    BY <2>3, Kept
  <2>5. CallOK(o, c)
    BY <1>1, <1>3, <2>1, <2>4 DEF CallOK, OnFiles
  <2>6. WrittenOK(o, c)
    BY <1>1, <2>1, <2>4 DEF WrittenOK
  <2>7. QuietStep(o, c)
    BY <1>1, <1>3, <2>1, <2>2, <2>4, FaultsGrow, Requests DEF QuietStep
  <2> QED
    BY <2>4, <2>5, <2>6, <2>7, Silent
<1> QED
  BY <1>2, <1>3 DEF FileClose

\* The check of IfNotExist, under the lock.
LEMMA StepCheckNotExist == ASSUME IInv, NEW o \in Ops, CheckNotExist(o) PROVE IInv' /\ ServiceStep
<1>1. /\ TypeOK /\ op[o] \in Call /\ CallOK(o, op[o]) /\ WrittenOK(o, op[o])
      /\ op[o].pc = "lock" /\ OnFiles /\ ~op[o].applied /\ op[o].up = "none" /\ ~op[o].failing
      /\ UNCHANGED <<driver, req, blob, attrs, marred, crashed>>
      /\ req[o].kind = "write" /\ req[o].cond /\ op[o].res = "none"
  BY Requests DEF IInv, TypeOK, CheckNotExist, CallOK, OnFiles, Call
<1>2. CASE Done(o, op[o], "err") /\ UNCHANGED <<blind, faults>>
  BY <1>1, <1>2, Fails
<1>3. CASE /\ \/ blob[req[o].key] = NoBlob /\ UNCHANGED <<blind, faults>>
              \/ Fault /\ blind' = blind \union {o}
           /\ lock' = o
           /\ Step(o, [op[o] EXCEPT !.pc = IF driver = "bare" THEN "rename" ELSE "create"])
  <2>1. PICK pc \in {"create", "rename"} : pc = IF driver = "bare" THEN "rename" ELSE "create"
    OBVIOUS
  <2>2. PICK c : c = [op[o] EXCEPT !.pc = pc] /\ Step(o, c)
    BY <1>3, <2>1
  <2>3. MovesTo(o, c, pc)
    BY <2>2 DEF MovesTo
  <2>4. /\ c \in Call /\ c.pc = pc /\ c.res = op[o].res /\ c.applied = op[o].applied /\ c.read = op[o].read
        /\ c.data = op[o].data /\ c.next = op[o].next /\ c.hashed = op[o].hashed /\ c.bufLen = op[o].bufLen
        /\ c.opened = op[o].opened /\ c.buf = op[o].buf /\ c.refused = op[o].refused
        /\ c.failing = op[o].failing /\ c.ctxDone = op[o].ctxDone /\ c.up = op[o].up /\ c.eof = op[o].eof
    BY <2>3, Kept
  <2>5. CallOK(o, c)
    BY <1>1, <1>3, <2>1, <2>4 DEF CallOK, OnFiles
  <2>6. WrittenOK(o, c)
    BY <1>1, <2>1, <2>4 DEF WrittenOK
  <2>7. \A p \in Ops \ {o} : lock # p
    BY BlobAssumption DEF CheckNotExist
  <2>8. blind \subseteq blind' /\ (o \in blind' \/ blob[req[o].key] = NoBlob) /\ (Fault \/ UNCHANGED faults)
    BY <1>3
  <2>9. faults' \in Nat /\ faults <= faults'
    BY <1>1, <2>8, FaultsGrow
  <2>10. LockOK' /\ AttrsOK'
    <3>1. driver = "file" => op[o].pc \notin {"encode", "rename", "rmattrs"} /\ c.pc \notin {"encode", "rename", "rmattrs"}
      BY <1>1, <2>1, <2>4
    <3>2. marred \subseteq marred' /\ op[o].pc # "done" /\ \A p \in Ops \ {o} : lock = p => lock' = p
      BY <1>1, <2>7
    <3> QED
      BY <1>1, <1>3, <2>2, <2>4, <2>8, <2>9, <3>1, <3>2, Quiet
  <2>11. op' \in [Ops -> Call] /\ \A p \in Ops : (CallOK(p, op[p]) /\ WrittenOK(p, op[p]))'
    BY <1>1, <2>2, <2>4, <2>5, <2>6, Moves
  <2>12. TypeOK'
    BY <1>1, <2>9, <2>11 DEF TypeOK
  <2>13. IInv'
    BY <2>10, <2>11, <2>12 DEF IInv
  <2>14. CASE UNCHANGED blind
    BY <1>1, <2>2, <2>4, <2>13, <2>14, Stutters
  <2>15. CASE blind' = blind \union {o}
    BY <1>1, <2>2, <2>4, <2>13, <2>15, FailsToLook
  <2> QED
    BY <1>3, <2>14, <2>15
<1> QED
  BY <1>2, <1>3 DEF CheckNotExist

\* Stat of what is to be read.
LEMMA StepFileStat == ASSUME IInv, NEW o \in Ops, FileStat(o) PROVE IInv' /\ ServiceStep
<1>1. /\ TypeOK /\ op[o] \in Call /\ CallOK(o, op[o]) /\ op[o].pc = "idle" /\ op[o] = NewCall
      /\ req[o].kind \in {"read", "copy"} /\ req[o].src \in Keys /\ ~req[o].cond /\ OnFiles
      /\ UNCHANGED <<driver, req, blind, blob, attrs, faults, crashed>>
  BY Requests DEF IInv, TypeOK, FileStat, CallOK
<1>2. CASE Done(o, op[o], "err") /\ UNCHANGED marred
  BY <1>1, <1>2, Fails DEF NewCall
<1>3. CASE /\ Step(o, [op[o] EXCEPT !.pc = "getattrs", !.size = blob[req[o].src]])
           /\ Meet(o, req[o].src, FALSE) /\ UNCHANGED lock
  <2>1. PICK c : c = [op[o] EXCEPT !.pc = "getattrs", !.size = blob[req[o].src]] /\ Step(o, c)
    BY <1>3
  <2>2. blob[req[o].src] \in Contents \union {NoBlob}
    BY <1>1 DEF TypeOK
  <2>3. c \in Call /\ c.pc = "getattrs" /\ c.res = op[o].res /\ c.applied = op[o].applied /\ c.read = op[o].read
    BY <1>1, <2>1, <2>2 DEF Call
  <2>4. CallOK(o, c)
    BY <1>1, <2>1, <2>3 DEF CallOK, NewCall
  <2>5. WrittenOK(o, c)
    BY <1>1 DEF WrittenOK
  <2>6. marred \subseteq marred'
    BY <1>3 DEF Meet
  <2>7. QuietStep(o, c)
    BY <1>1, <1>3, <2>1, <2>3, <2>6, FaultsGrow DEF QuietStep
  <2> QED
    BY <2>3, <2>4, <2>5, <2>7, Silent
<1> QED
  BY <1>2, <1>3 DEF FileStat

\* The attributes of what is to be read.
LEMMA StepGetAttrs == ASSUME IInv, NEW o \in Ops, GetAttrs(o) PROVE IInv' /\ ServiceStep
<1>1. /\ TypeOK /\ op[o] \in Call /\ CallOK(o, op[o]) /\ op[o].pc = "getattrs"
      /\ req[o].kind \in {"read", "copy"} /\ req[o].src \in Keys /\ ~req[o].cond /\ OnFiles
      /\ ~op[o].applied /\ op[o].up = "none"
      /\ UNCHANGED <<driver, req, blind, blob, attrs, faults, marred, crashed>>
  BY Requests DEF IInv, TypeOK, GetAttrs, CallOK, OnFiles, Call
<1>2. CASE Done(o, op[o], "err")
  BY <1>1, <1>2, Fails
<1>3. CASE Step(o, [op[o] EXCEPT !.pc = "open", !.xa = attrs[req[o].src]]) /\ UNCHANGED lock
  <2>1. PICK c : c = [op[o] EXCEPT !.pc = "open", !.xa = attrs[req[o].src]] /\ Step(o, c)
    BY <1>3
  <2>2. attrs[req[o].src] \in Attrs
    BY <1>1 DEF TypeOK
  <2>3. c \in Call /\ c.pc = "open" /\ c.res = op[o].res /\ c.applied = op[o].applied /\ c.read = op[o].read
    BY <1>1, <2>1, <2>2 DEF Call
  <2>4. CallOK(o, c)
    BY <1>1, <2>1, <2>2, <2>3 DEF CallOK, Call
  <2>5. WrittenOK(o, c)
    BY <1>1 DEF WrittenOK
  <2>6. QuietStep(o, c)
    BY <1>1, <1>3, <2>1, <2>3, FaultsGrow DEF QuietStep
  <2> QED
    BY <2>3, <2>4, <2>5, <2>6, Silent
<1> QED
  BY <1>2, <1>3 DEF GetAttrs

\* The content is opened: a read returns, a copy goes on to its own writer.
LEMMA StepOpenContent == ASSUME IInv, NEW o \in Ops, OpenContent(o) PROVE IInv' /\ ServiceStep
<1>1. /\ TypeOK /\ op[o] \in Call /\ CallOK(o, op[o]) /\ op[o].pc = "open"
      /\ req[o].kind \in {"read", "copy"} /\ req[o].src \in Keys /\ ~req[o].cond /\ OnFiles
      /\ ~op[o].applied /\ op[o].up = "none" /\ ~op[o].failing /\ op[o].res = "none" /\ ~op[o].eof
      /\ UNCHANGED <<driver, req, blind, blob, attrs, marred, crashed>>
  BY Requests DEF IInv, TypeOK, OpenContent, CallOK, OnFiles, Call
<1>2. PICK found : found = blob[req[o].src]
  OBVIOUS
<1>3. found \in Contents \union {NoBlob}
  BY <1>1, <1>2 DEF TypeOK
<1>4. CASE Done(o, op[o], "err") /\ (Fault \/ UNCHANGED faults)
  BY <1>1, <1>4, Fails
<1>5. CASE req[o].kind = "read" /\ Done(o, [op[o] EXCEPT !.read = found], "ok") /\ UNCHANGED faults
  <2>1. PICK c : c = [op[o] EXCEPT !.read = found, !.pc = "done", !.res = "ok"]
    OBVIOUS
  <2>2. /\ c \in Call /\ c.pc = "done" /\ c.res = "ok" /\ c.applied = op[o].applied
        /\ Step(o, c) /\ lock' = IF lock = o THEN None ELSE lock
    BY <1>1, <1>3, <1>5, <2>1 DEF Call, Done
  <2>3. CallOK(o, c)
    BY <1>1, <1>3, <1>5, <2>1, <2>2 DEF CallOK, Call
  <2>4. WrittenOK(o, c)
    BY <1>1 DEF WrittenOK
  <2>5. QuietStep(o, c)
    BY <1>1, <1>5, <2>2, FaultsGrow DEF QuietStep
  <2>6. ServiceStep
    BY <1>1, <1>5, <2>2, Returns
  <2> QED
    BY <2>2, <2>3, <2>4, <2>5, <2>6, QuietKeeps
<1>6. CASE /\ req[o].kind = "copy" /\ found # NoBlob /\ UNCHANGED <<lock, faults>>
           /\ Step(o, [op[o] EXCEPT !.read = found, !.pc = "closing", !.data = found.bytes])
  <2>1. PICK c : c = [op[o] EXCEPT !.read = found, !.pc = "closing", !.data = found.bytes]
    OBVIOUS
  <2>2. PICK u \in Seq(Pieces) : u = found.bytes
    BY <1>3, <1>6 DEF Contents
  <2>3. c = [op[o] EXCEPT !.read = found, !.pc = "closing", !.data = u]
    BY <2>1, <2>2
  <2>4. /\ c \in Call /\ c.pc = "closing" /\ c.res = op[o].res /\ c.applied = op[o].applied
        /\ c.read = found /\ c.data = u /\ Step(o, c)
        /\ c.failing = op[o].failing /\ c.up = op[o].up /\ c.eof = op[o].eof
    BY <1>1, <1>3, <1>6, <2>1, <2>3 DEF Call
  <2>5. CallOK(o, c)
    BY <1>1, <1>6, <2>2, <2>4 DEF CallOK
  <2>6. WrittenOK(o, c)
    BY <1>1, <1>6 DEF WrittenOK
  <2>7. QuietStep(o, c)
    BY <1>1, <1>6, <2>4, FaultsGrow DEF QuietStep
  <2>8. ServiceStep
    BY <1>1, <1>2, <1>6, <2>4, Fetches
  <2> QED
    BY <2>4, <2>5, <2>6, <2>7, <2>8, QuietKeeps
<1>7. CASE found = NoBlob
  BY <1>2, <1>4, <1>7 DEF OpenContent
<1>8. CASE found # NoBlob /\ req[o].kind = "read"
  BY <1>2, <1>5, <1>8 DEF OpenContent
<1>9. CASE found # NoBlob /\ req[o].kind = "copy"
  BY <1>2, <1>4, <1>6, <1>9 DEF OpenContent
<1> QED
  BY <1>1, <1>7, <1>8, <1>9

\* memblob's Close, up to the mutex.
LEMMA StepMemClose == ASSUME IInv, NEW o \in Ops, MemClose(o) PROVE IInv' /\ ServiceStep
<1>1. /\ TypeOK /\ op[o] \in Call /\ CallOK(o, op[o]) /\ WrittenOK(o, op[o]) /\ driver = "mem"
      /\ op[o].pc = "closing" /\ ~op[o].applied /\ op[o].up = "none" /\ req[o].kind = "write"
      /\ UNCHANGED <<driver, req, blind, blob, attrs, faults, marred, crashed>>
  BY DEF IInv, TypeOK, MemClose, CallOK, OnFiles, Call
<1>2. CASE Done(o, op[o], "err")
  BY <1>1, <1>2, Fails
<1>3. CASE ~op[o].ctxDone /\ Step(o, [op[o] EXCEPT !.pc = "commit"]) /\ UNCHANGED lock
  <2>1. PICK c : c = [op[o] EXCEPT !.pc = "commit"] /\ Step(o, c)
    BY <1>3
  <2>2. MovesTo(o, c, "commit")
    BY <2>1 DEF MovesTo
  <2>3. /\ c \in Call /\ c.pc = "commit" /\ c.res = op[o].res /\ c.applied = op[o].applied /\ c.read = op[o].read
        /\ c.data = op[o].data /\ c.next = op[o].next /\ c.hashed = op[o].hashed /\ c.bufLen = op[o].bufLen
        /\ c.opened = op[o].opened /\ c.buf = op[o].buf /\ c.refused = op[o].refused
        /\ c.failing = op[o].failing /\ c.ctxDone = op[o].ctxDone /\ c.up = op[o].up /\ c.eof = op[o].eof
    BY <2>2, Kept
  <2>4. CallOK(o, c)
    BY <1>1, <1>3, <2>3 DEF CallOK, OnFiles
  <2>5. WrittenOK(o, c)
    BY <1>1, <2>3 DEF WrittenOK
  <2>6. QuietStep(o, c)
    BY <1>1, <1>3, <2>1, <2>3, FaultsGrow DEF QuietStep
  <2> QED
    BY <2>3, <2>4, <2>5, <2>6, Silent
<1> QED
  BY <1>2, <1>3 DEF MemClose

\* A read under the mutex, or by one request.
LEMMA StepAtomicRead == ASSUME IInv, NEW o \in Ops, AtomicRead(o) PROVE IInv' /\ ServiceStep
<1>1. /\ TypeOK /\ op[o] \in Call /\ CallOK(o, op[o]) /\ op[o].pc = "idle" /\ op[o] = NewCall
      /\ req[o].kind = "read" /\ req[o].src \in Keys /\ ~req[o].cond
      /\ ~op[o].failing /\ op[o].res = "none" /\ ~op[o].applied /\ op[o].up = "none"
      /\ UNCHANGED <<driver, req, blind, blob, attrs, faults, marred, crashed>>
  BY Requests DEF IInv, TypeOK, AtomicRead, CallOK, NewCall
<1>2. CASE Done(o, op[o], "err")
  BY <1>1, <1>2, Fails
<1>3. PICK found \in Contents \union {NoBlob} : found = blob[req[o].src]
  BY <1>1 DEF TypeOK
<1>4. PICK x \in Attrs : x = attrs[req[o].src]
  BY <1>1 DEF TypeOK
<1>5. CASE Done(o, [op[o] EXCEPT !.read = found, !.size = found, !.xa = x], "ok")
  <2>1. PICK c : c = [op[o] EXCEPT !.read = found, !.size = found, !.xa = x, !.pc = "done", !.res = "ok"]
    OBVIOUS
  <2>2. /\ c \in Call /\ c.pc = "done" /\ c.res = "ok" /\ c.applied = op[o].applied
        /\ Step(o, c) /\ lock' = IF lock = o THEN None ELSE lock
        /\ c.failing = op[o].failing /\ c.up = op[o].up
    BY <1>1, <1>5, <2>1 DEF Call, Done
  <2>3. CallOK(o, c)
    BY <1>1, <2>2 DEF CallOK
  <2>4. WrittenOK(o, c)
    BY <1>1 DEF WrittenOK
  <2>5. QuietStep(o, c)
    BY <1>1, <2>2, FaultsGrow DEF QuietStep
  <2>6. ServiceStep
    BY <1>1, <2>2, Returns
  <2> QED
    BY <2>2, <2>3, <2>4, <2>5, <2>6, QuietKeeps
<1> QED
  BY <1>2, <1>3, <1>4, <1>5 DEF AtomicRead

\* The end of the pipe.
LEMMA StepPipeClose == ASSUME IInv, NEW o \in Ops, PipeClose(o) PROVE IInv' /\ ServiceStep
<1>1. /\ TypeOK /\ op[o] \in Call /\ CallOK(o, op[o]) /\ WrittenOK(o, op[o]) /\ driver = "pipe"
      /\ op[o].pc = "closing" /\ ~op[o].applied /\ req[o].kind = "write" /\ op[o].opened
      /\ UNCHANGED <<driver, req, blind, blob, attrs, lock, faults, marred, crashed>>
  BY DEF IInv, TypeOK, PipeClose, CallOK, OnFiles, Call
<1>2. PICK c : c = [op[o] EXCEPT !.pc = "wait", !.eof = TRUE, !.up = IF @ = "none" THEN "running" ELSE @]
  OBVIOUS
<1>3. /\ c \in Call /\ c.pc = "wait" /\ c.res = op[o].res /\ c.applied = op[o].applied /\ c.read = op[o].read
      /\ c.data = op[o].data /\ c.next = op[o].next /\ c.hashed = op[o].hashed /\ c.bufLen = op[o].bufLen
      /\ c.opened = op[o].opened /\ c.buf = op[o].buf /\ c.refused = op[o].refused
      /\ c.failing = op[o].failing /\ c.ctxDone = op[o].ctxDone /\ c.eof
      /\ c.up = (IF op[o].up = "none" THEN "running" ELSE op[o].up) /\ Step(o, c)
  BY <1>1, <1>2 DEF Call, PipeClose
<1>4. CallOK(o, c)
  BY <1>1, <1>3 DEF CallOK
<1>5. WrittenOK(o, c)
  BY <1>1, <1>3 DEF WrittenOK
<1>6. QuietStep(o, c)
  BY <1>1, <1>3, FaultsGrow DEF QuietStep
<1> QED
  BY <1>3, <1>4, <1>5, <1>6, Silent

\* An upload that fails.
LEMMA StepUploadFails == ASSUME IInv, NEW o \in Ops, UploadFails(o) PROVE IInv' /\ ServiceStep
<1>1. /\ TypeOK /\ op[o] \in Call /\ CallOK(o, op[o]) /\ WrittenOK(o, op[o]) /\ driver = "pipe"
      /\ op[o].up = "running" /\ op[o].pc \in {"open-writer", "closing", "wait"} /\ ~op[o].applied
      /\ UNCHANGED <<driver, req, blind, blob, attrs, lock, marred, crashed>> /\ (Fault \/ UNCHANGED faults)
  BY DEF IInv, TypeOK, UploadFails, CallOK
<1>2. PICK c : c = [op[o] EXCEPT !.up = "failed"]
  OBVIOUS
<1>3. /\ c \in Call /\ c.pc = op[o].pc /\ c.res = op[o].res /\ c.applied = op[o].applied /\ c.read = op[o].read
      /\ c.data = op[o].data /\ c.next = op[o].next /\ c.hashed = op[o].hashed /\ c.bufLen = op[o].bufLen
      /\ c.opened = op[o].opened /\ c.buf = op[o].buf /\ c.refused = op[o].refused
      /\ c.failing = op[o].failing /\ c.ctxDone = op[o].ctxDone /\ c.eof = op[o].eof
      /\ c.up = "failed" /\ Step(o, c)
  BY <1>1, <1>2 DEF Call, UploadFails
<1>4. CallOK(o, c)
  BY <1>1, <1>3 DEF CallOK
<1>5. WrittenOK(o, c)
  BY <1>1, <1>3 DEF WrittenOK
<1>6. QuietStep(o, c)
  BY <1>1, <1>3, FaultsGrow DEF QuietStep
<1> QED
  BY <1>3, <1>4, <1>5, <1>6, Silent

\* Close returns what became of the upload.
LEMMA StepPipeReturn == ASSUME IInv, NEW o \in Ops, PipeReturn(o) PROVE IInv' /\ ServiceStep
<1>1. /\ TypeOK /\ op[o] \in Call /\ CallOK(o, op[o]) /\ WrittenOK(o, op[o]) /\ driver = "pipe"
      /\ op[o].pc = "wait" /\ op[o].up \in {"ended", "failed"} /\ op[o].res = "none" /\ req[o].kind = "write"
      /\ UNCHANGED <<driver, req, blind, blob, attrs, faults, marred, crashed>>
  BY DEF IInv, TypeOK, PipeReturn, CallOK, Call
<1>2. PICK r \in {"ok", "err"} : r = IF op[o].failing \/ op[o].up # "ended" THEN "err" ELSE "ok"
  OBVIOUS
<1>3. PICK c : c = [op[o] EXCEPT !.pc = "done", !.res = r]
  OBVIOUS
<1>4. Step(o, c) /\ lock' = IF lock = o THEN None ELSE lock
  BY <1>1, <1>2, <1>3 DEF PipeReturn, Done
<1>5. /\ c \in Call /\ c.pc = "done" /\ c.res = r /\ c.applied = op[o].applied /\ c.read = op[o].read
      /\ c.data = op[o].data /\ c.next = op[o].next /\ c.hashed = op[o].hashed /\ c.bufLen = op[o].bufLen
      /\ c.opened = op[o].opened /\ c.buf = op[o].buf /\ c.refused = op[o].refused
      /\ c.failing = op[o].failing /\ c.ctxDone = op[o].ctxDone /\ c.eof = op[o].eof /\ c.up = op[o].up
  BY <1>1, <1>3 DEF Call
<1>6. CallOK(o, c)
  BY <1>1, <1>5 DEF CallOK
<1>7. WrittenOK(o, c)
  BY <1>1, <1>5 DEF WrittenOK
<1>8. QuietStep(o, c)
  BY <1>1, <1>4, <1>5, FaultsGrow DEF QuietStep
<1>9. r = "ok" => op[o].applied
  BY <1>1, <1>2 DEF CallOK
<1>10. ServiceStep
  BY <1>1, <1>4, <1>5, <1>9, Returns DEF Unsure
<1> QED
  BY <1>5, <1>6, <1>7, <1>8, <1>10, QuietKeeps

\* HeadObject, before the object is deleted.
LEMMA StepS3Head == ASSUME IInv, NEW o \in Ops, S3Head(o) PROVE IInv' /\ ServiceStep
<1>1. /\ TypeOK /\ op[o] \in Call /\ CallOK(o, op[o]) /\ op[o].pc = "idle" /\ op[o] = NewCall
      /\ req[o].kind = "delete" /\ ~req[o].cond /\ driver = "pipe"
      /\ ~op[o].failing /\ op[o].res = "none" /\ ~op[o].applied /\ op[o].up = "none" /\ ~op[o].eof
      /\ UNCHANGED <<driver, req, blind, blob, attrs, faults, marred, crashed>>
  BY Requests DEF IInv, TypeOK, S3Head, CallOK, NewCall
<1>2. CASE Done(o, op[o], "err")
  BY <1>1, <1>2, Fails
<1>3. CASE Step(o, [op[o] EXCEPT !.pc = "remove"]) /\ UNCHANGED lock
  <2>1. PICK c : c = [op[o] EXCEPT !.pc = "remove"] /\ Step(o, c)
    BY <1>3
  <2>2. MovesTo(o, c, "remove")
    BY <2>1 DEF MovesTo
  <2>3. /\ c \in Call /\ c.pc = "remove" /\ c.res = op[o].res /\ c.applied = op[o].applied /\ c.read = op[o].read
        /\ c.failing = op[o].failing /\ c.up = op[o].up /\ c.eof = op[o].eof
    BY <2>2, Kept
  <2>4. CallOK(o, c)
    BY <1>1, <2>3 DEF CallOK
  <2>5. WrittenOK(o, c)
    BY <1>1 DEF WrittenOK
  <2>6. QuietStep(o, c)
    BY <1>1, <1>3, <2>1, <2>3, FaultsGrow DEF QuietStep
  <2> QED
    BY <2>3, <2>4, <2>5, <2>6, Silent
<1> QED
  BY <1>2, <1>3 DEF S3Head

-----------------------------------------------------------------------------
(* Steps that change the bucket *)

\* The invariant after such a step, part by part.
LEMMA Whole ==
    ASSUME IInv, NEW o \in Ops, NEW c \in Call, Step(o, c), UNCHANGED <<driver, req, blind>>,
           CallOK(o, c), WrittenOK(o, c), faults' \in Nat,
           blob' \in [Keys -> Contents \union {NoBlob}], attrs' \in [Keys -> Attrs],
           LockOK', AttrsOK'
    PROVE  IInv'
<1>1. op' \in [Ops -> Call] /\ \A p \in Ops : (CallOK(p, op[p]) /\ WrittenOK(p, op[p]))'
  BY Moves
<1>2. TypeOK'
  BY <1>1 DEF IInv, TypeOK
<1> QED
  BY <1>1, <1>2 DEF IInv

\* What a call has written is a content.
LEMMA Stored ==
    ASSUME NEW o \in Ops, NEW c \in Call
    PROVE  \E b \in Contents : b = [by |-> o, bytes |-> c.data] /\ b.by = o /\ b.bytes = c.data
<1>1. PICK d \in Seq(Pieces) : d = c.data
  BY DEF Call
<1>2. o \in Writers
  BY DEF Writers
<1>3. [by |-> o, bytes |-> d] \in Contents
  BY <1>2 DEF Contents
<1> QED
  BY <1>1, <1>3

\* o, a call of memblob or of s3blob, puts b and its attributes in place.
Stores(o, c, b, x) ==
    /\ Step(o, c) /\ UNCHANGED <<driver, req, blind>> /\ driver \in {"mem", "pipe"}
    /\ faults' \in Nat /\ faults <= faults'
    /\ blob' = [blob EXCEPT ![req[o].key] = b]
    /\ attrs' = [attrs EXCEPT ![req[o].key] = x]
    /\ \/ b = NoBlob /\ x = NoAttrs
       \/ b # NoBlob /\ x = b.bytes

\* Content and attributes fit, as they are stored together.
LEMMA StoresKeep ==
    ASSUME IInv, NEW o \in Ops, NEW c \in Call, NEW b \in Contents \union {NoBlob}, NEW x \in Attrs,
           Stores(o, c, b, x), CallOK(o, c), WrittenOK(o, c)
    PROVE  IInv'
<1>1. /\ TypeOK /\ StoredTogether /\ req[o].key \in Keys
      /\ Step(o, c) /\ UNCHANGED <<driver, req, blind>> /\ driver \in {"mem", "pipe"}
  BY Requests DEF IInv, AttrsOK, Stores
<1>2. blob' \in [Keys -> Contents \union {NoBlob}] /\ attrs' \in [Keys -> Attrs] /\ faults' \in Nat
  BY <1>1 DEF TypeOK, Stores
<1>3. \A p \in Ops : op'[p].pc \notin {"create", "encode", "rename"}
  BY <1>1 DEF IInv, TypeOK, CallOK, OnFiles, Step
<1>4. LockOK'
  BY <1>3 DEF LockOK
<1>5. ASSUME NEW k \in Keys PROVE Fits(k)'
  <2>1. Fits(k)
    BY <1>1 DEF StoredTogether
  <2>2. CASE k = req[o].key
    <3>1. blob'[k] = b /\ attrs'[k] = x
      BY <1>1, <2>2 DEF TypeOK, Stores
    <3> QED
      BY <3>1 DEF Fits, Stores
  <2>3. CASE k # req[o].key
    <3>1. blob'[k] = blob[k] /\ attrs'[k] = attrs[k]
      BY <1>1, <2>3 DEF TypeOK, Stores
    <3>2. faults > 0 => faults' > 0
      BY <1>1 DEF TypeOK, Stores
    <3> QED
      BY <1>1, <2>1, <3>1, <3>2 DEF Fits
  <2> QED
    BY <2>2, <2>3
<1>6. StoredTogether' /\ MetOthers' /\ FileAttrs'
  <2>1. driver' \notin {"file", "bare"}
    BY <1>1
  <2> QED
    BY <1>5, <2>1 DEF StoredTogether, MetOthers, FileAttrs
<1>7. AttrsOK'
  BY <1>6 DEF AttrsOK
<1> QED
  BY <1>1, <1>2, <1>4, <1>7, Whole

\* o, a call of fileblob, changes the files of its key k.
FileStep(o, c, k) ==
    /\ Step(o, c) /\ UNCHANGED <<driver, req, blind, crashed>> /\ OnFiles /\ k = req[o].key
    /\ marred \subseteq marred' /\ faults' \in Nat /\ faults <= faults' /\ op[o].pc # "done"
    /\ blob' \in [Keys -> Contents \union {NoBlob}] /\ attrs' \in [Keys -> Attrs]
    /\ \A j \in Keys \ {k} : blob'[j] = blob[j] /\ attrs'[j] = attrs[j]
    /\ driver = "bare" => attrs'[k] = NoAttrs
    /\ \/ Changing(o)
       \/ \A p \in Ops \ {o} : Changing(p) /\ req[p].key = k => o \in marred' /\ p \in marred'

\* What becomes of the lock: only its holder gives it up, and without it a
\* conditional writer puts no blob in place.
LockStep(o, c, k) ==
    /\ \A p \in Ops \ {o} : lock = p => lock' = p
    /\ \/ blob'[k] = blob[k] \/ blob'[k] = NoBlob
       \/ blob'[k].by = o /\ (req[o].cond => lock = o)
    /\ req[o].cond /\ c.pc \in {"create", "encode", "rename"}
         => lock' = o /\ blob'[k] = blob[k] /\ op[o].pc \in {"create", "encode", "rename"}

\* The attributes that are left, when nothing else has changed k.
Leaves(o, c, k) ==
    driver = "file" /\ Undisturbed(k)' /\ WhileChanging(k) =>
        /\ c.pc \notin {"encode", "rename", "rmattrs"} => Fits(k)'
        /\ c.pc = "rename" => attrs'[k] = c.data
        /\ c.pc = "rmattrs" => blob'[k] = NoBlob

\* The lock, after a change to the files.
LEMMA LockStays ==
    ASSUME IInv, NEW o \in Ops, NEW c \in Call, NEW k, FileStep(o, c, k), LockStep(o, c, k)
    PROVE  LockOK'
<1>1. TypeOK /\ LockOK /\ op'[o] = c /\ \A p \in Ops \ {o} : op'[p] = op[p]
  BY DEF IInv, TypeOK, Step, FileStep
<1>2. UNCHANGED <<driver, req, blind>> /\ k = req[o].key /\ \A j \in Keys \ {k} : blob'[j] = blob[j]
  BY DEF FileStep
<1>3. \A w : Ask(w)' = Ask(w)
  BY <1>2 DEF Ask, Unsure
<1>4. ASSUME NEW p \in Ops, req[p].cond, op'[p].pc \in {"create", "encode", "rename"}
      PROVE  lock' = p /\ (p \in blind \/ blob'[req[p].key] = NoBlob \/ ~Ask(blob'[req[p].key].by).cond)
  <2>1. req[p].key \in Keys
    BY <1>1, Requests
  <2>2. lock = p /\ (p \in blind \/ blob[req[p].key] = NoBlob \/ ~Ask(blob[req[p].key].by).cond)
    BY <1>1, <1>4 DEF LockOK, LockStep
  <2>3. lock' = p
    BY <1>1, <1>4, <2>2 DEF LockStep
  <2>4. CASE req[p].key # k
    BY <1>2, <2>1, <2>2, <2>3, <2>4
  <2>5. CASE req[p].key = k /\ (blob'[k] = blob[k] \/ blob'[k] = NoBlob)
    BY <2>2, <2>3, <2>5
  <2>6. CASE req[p].key = k /\ blob'[k].by = o /\ (req[o].cond => lock = o) /\ blob'[k] # blob[k]
    <3>1. p # o
      BY <1>1, <1>4, <2>6 DEF LockStep
    <3>2. ~req[o].cond /\ o # Seed
      BY <2>2, <2>6, <3>1, BlobAssumption
    <3> QED
      BY <2>3, <2>6, <3>2 DEF Ask
  <2> QED
    BY <2>4, <2>5, <2>6 DEF LockStep
<1>5. ASSUME NEW p \in Ops, req'[p].cond, op'[p].pc \in {"create", "encode", "rename"}
      PROVE  lock' = p /\ (p \in blind' \/ blob'[req'[p].key] = NoBlob \/ ~Ask(blob[req[p].key].by)'.cond)
  <2>1. PICK w : w = blob'[req[p].key].by
    OBVIOUS
  <2>2. lock' = p /\ (p \in blind \/ blob'[req[p].key] = NoBlob \/ ~Ask(w).cond)
    BY <1>2, <1>4, <1>5, <2>1
  <2>3. Ask(blob[req[p].key].by)' = Ask(w)
    BY <1>2, <2>1 DEF Ask, Unsure
  <2> QED
    BY <1>2, <2>2, <2>3
<1> QED
  BY <1>5 DEF LockOK

\* The attributes, after a change to the files.
LEMMA AttrsStay ==
    ASSUME IInv, NEW o \in Ops, NEW c \in Call, NEW k, FileStep(o, c, k), Leaves(o, c, k)
    PROVE  AttrsOK'
<1>1. TypeOK /\ AttrsOK /\ op'[o] = c /\ op[o].res = "none" /\ \A p \in Ops \ {o} : op'[p] = op[p]
  BY DEF IInv, TypeOK, Step, FileStep, CallOK, Call
<1>2. UNCHANGED <<driver, req, blind, crashed>> /\ k = req[o].key /\ driver \in {"file", "bare"} /\ k \in Keys
  BY <1>1, Requests DEF FileStep, OnFiles
<1>3. CASE driver = "bare"
  <2>1. driver' = "bare"
    BY <1>2, <1>3
  <2>2. \A j \in Keys : attrs'[j] = NoAttrs
    BY <1>1, <1>3 DEF FileStep, AttrsOK, StoredTogether
  <2>3. StoredTogether' /\ MetOthers' /\ FileAttrs'
    BY <2>1, <2>2 DEF StoredTogether, MetOthers, FileAttrs
  <2> QED
    BY <2>3 DEF AttrsOK
<1>4. CASE driver = "file"
  <2>1. driver' = "file"
    BY <1>2, <1>4
  <2>2. StoredTogether'
    BY <2>1 DEF StoredTogether
  <2>3. \A p \in Ops \ {o} : Changing(p)' <=> Changing(p)
    BY <1>1 DEF Changing
  <2>4. \A p \in Ops \ {o} : Changing(p) /\ req[p].key = k => o \in marred' /\ p \in marred'
    BY <1>1, <1>2, <1>4 DEF FileStep, AttrsOK, MetOthers
  <2>5. MetOthers'
    <3>1. ASSUME NEW p \in Ops, NEW q \in Ops, p # q, Changing(p)', Changing(q)', req[p].key = req[q].key
          PROVE  p \in marred'
      <4>1. CASE p = o \/ q = o
        BY <1>2, <2>3, <2>4, <3>1, <4>1
      <4>2. CASE p # o /\ q # o
        BY <1>1, <1>4, <2>3, <3>1, <4>2 DEF AttrsOK, MetOthers, FileStep
      <4> QED
        BY <4>1, <4>2
    <3> QED
      BY <1>2, <3>1 DEF MetOthers
  <2>6. ASSUME NEW j \in Keys, Undisturbed(j)' PROVE WhileChanging(j)'
    <3>1. Undisturbed(j)
      BY <1>1, <1>2, <2>6 DEF Undisturbed, FileStep
    <3>2. WhileChanging(j)
      BY <1>1, <1>4, <3>1 DEF AttrsOK, FileAttrs
    <3>3. CASE j # k
      <4>1. blob'[j] = blob[j] /\ attrs'[j] = attrs[j] /\ (faults > 0 => faults' > 0)
        BY <1>1, <3>3 DEF FileStep, TypeOK
      <4>2. Fits(j) => Fits(j)'
        BY <1>2, <4>1 DEF Fits
      <4> QED
        BY <1>1, <1>2, <2>3, <3>2, <3>3, <4>1, <4>2 DEF WhileChanging
    <3>4. CASE j = k
      <4>1. \A p \in Ops \ {o} : req[p].key = k => ~Changing(p)
        BY <1>2, <2>4, <2>6, <3>4 DEF Undisturbed
      <4>2. \A p \in Ops \ {o} : req[p].key = k => op'[p].pc \notin {"encode", "rename", "rmattrs"}
        BY <1>1, <4>1 DEF Changing
      <4>3. /\ c.pc \notin {"encode", "rename", "rmattrs"} => Fits(k)'
            /\ c.pc = "rename" => attrs'[k] = c.data
            /\ c.pc = "rmattrs" => blob'[k] = NoBlob
        BY <1>4, <2>6, <3>2, <3>4 DEF Leaves
      <4>4. Changing(o)' <=> c.pc \in {"encode", "rename", "rmattrs"}
        BY <1>1 DEF Changing
      <4> QED
        BY <1>1, <1>2, <3>4, <4>2, <4>3, <4>4 DEF WhileChanging
    <3> QED
      BY <3>3, <3>4
  <2>7. FileAttrs'
    <3>1. \A j \in Keys : Undisturbed(j)' => WhileChanging(j)'
      BY <2>6
    <3> QED
      BY <3>1 DEF FileAttrs
  <2> QED
    BY <2>2, <2>5, <2>7 DEF AttrsOK
<1> QED
  BY <1>2, <1>3, <1>4

\* So the invariant is kept.
LEMMA FileKeeps ==
    ASSUME IInv, NEW o \in Ops, NEW c \in Call, NEW k, FileStep(o, c, k), LockStep(o, c, k), Leaves(o, c, k),
           CallOK(o, c), WrittenOK(o, c)
    PROVE  IInv'
<1>1. LockOK' /\ AttrsOK'
  BY LockStays, AttrsStay
<1> QED
  BY <1>1, Whole DEF FileStep

-----------------------------------------------------------------------------
(* fileblob: steps that change files *)

\* A call that meets the others that change its key.
LEMMA Meets ==
    ASSUME NEW o \in Ops, NEW k, Meet(o, k, TRUE), \A p \in Ops \ {o} : Changing(p) /\ req[p].key = k => Touched(p) = k
    PROVE  /\ marred \subseteq marred'
           /\ \A p \in Ops \ {o} : Changing(p) /\ req[p].key = k => o \in marred' /\ p \in marred'
  BY DEF Meet, Using

\* A call that changes a key touches it.
LEMMA Touches == \A p \in Ops : Changing(p) => Touched(p) = req[p].key
  BY DEF Changing, Touched

\* The attributes file is truncated.
LEMMA StepCreateAttrs == ASSUME IInv, NEW o \in Ops, CreateAttrs(o) PROVE IInv' /\ ServiceStep
<1>1. /\ TypeOK /\ op[o] \in Call /\ CallOK(o, op[o]) /\ WrittenOK(o, op[o]) /\ LockOK
      /\ op[o].pc = "create" /\ driver = "file" /\ ~op[o].applied /\ op[o].up = "none"
      /\ UNCHANGED <<driver, req, blind, blob, crashed>> /\ req[o].key \in Keys
  BY Requests DEF IInv, TypeOK, CreateAttrs, CallOK, Call
<1>2. CASE Fault /\ Done(o, op[o], "err") /\ UNCHANGED <<attrs, marred>>
  BY <1>1, <1>2, Fails
<1>3. CASE /\ Step(o, [op[o] EXCEPT !.pc = "encode"])
           /\ attrs' = [attrs EXCEPT ![req[o].key] = Torn]
           /\ Meet(o, req[o].key, TRUE)
           /\ UNCHANGED <<lock, faults>>
  <2>1. PICK c : c = [op[o] EXCEPT !.pc = "encode"] /\ Step(o, c)
    BY <1>3
  <2>2. /\ c \in Call /\ c.pc = "encode" /\ c.res = op[o].res /\ c.applied = op[o].applied /\ c.read = op[o].read
        /\ c.data = op[o].data /\ c.next = op[o].next /\ c.hashed = op[o].hashed /\ c.bufLen = op[o].bufLen
        /\ c.opened = op[o].opened /\ c.buf = op[o].buf /\ c.refused = op[o].refused
        /\ c.failing = op[o].failing /\ c.ctxDone = op[o].ctxDone /\ c.up = op[o].up /\ c.eof = op[o].eof
    BY <1>1, <2>1 DEF Call
  <2>3. PICK k \in Keys : k = req[o].key
    BY <1>1
  <2>4. CallOK(o, c)
    BY <1>1, <2>2 DEF CallOK
  <2>5. WrittenOK(o, c)
    BY <1>1, <2>2 DEF WrittenOK
  <2>6. /\ marred \subseteq marred'
        /\ \A p \in Ops \ {o} : Changing(p) /\ req[p].key = k => o \in marred' /\ p \in marred'
    BY <1>3, <2>3, Meets, Touches
  <2>7. attrs' \in [Keys -> Attrs] /\ blob' \in [Keys -> Contents \union {NoBlob}]
    BY <1>1, <1>3 DEF TypeOK, Attrs
  <2>8. FileStep(o, c, k)
    BY <1>1, <1>3, <2>1, <2>3, <2>6, <2>7, FaultsGrow DEF FileStep, OnFiles, TypeOK
  <2>9. LockStep(o, c, k)
    BY <1>1, <1>3, <2>3 DEF LockStep, LockOK
  <2>10. Leaves(o, c, k)
    BY <2>2 DEF Leaves
  <2>11. ServiceStep
    BY <1>1, <2>1, <2>2, Stutters
  <2> QED
    BY <2>2, <2>4, <2>5, <2>8, <2>9, <2>10, <2>11, FileKeeps
<1> QED
  BY <1>2, <1>3 DEF CreateAttrs

\* A call of fileblob that fails after its first change removes the attributes.
LEMMA CleansUp ==
    ASSUME IInv, NEW o \in Ops, op[o].pc \in {"encode", "rename"}, Fault, Done(o, op[o], "err"),
           attrs' = [attrs EXCEPT ![req[o].key] = NoAttrs], UNCHANGED <<driver, req, blind, blob, marred, crashed>>
    PROVE  IInv' /\ ServiceStep
<1>1. /\ TypeOK /\ op[o] \in Call /\ CallOK(o, op[o]) /\ WrittenOK(o, op[o])
      /\ OnFiles /\ ~op[o].applied /\ op[o].up = "none" /\ op[o].res = "none" /\ req[o].key \in Keys
  BY Requests DEF IInv, TypeOK, CallOK, Call, OnFiles
<1>2. PICK c : c = [op[o] EXCEPT !.pc = "done", !.res = "err"]
  OBVIOUS
<1>3. Step(o, c) /\ lock' = IF lock = o THEN None ELSE lock
  BY <1>2 DEF Done
<1>4. /\ c \in Call /\ c.pc = "done" /\ c.res = "err" /\ c.applied = op[o].applied /\ c.read = op[o].read
      /\ c.data = op[o].data /\ c.next = op[o].next /\ c.hashed = op[o].hashed /\ c.bufLen = op[o].bufLen
      /\ c.opened = op[o].opened /\ c.buf = op[o].buf /\ c.refused = op[o].refused
      /\ c.failing = op[o].failing /\ c.ctxDone = op[o].ctxDone /\ c.up = op[o].up /\ c.eof = op[o].eof
  BY <1>1, <1>2 DEF Call
<1>5. PICK k \in Keys : k = req[o].key
  BY <1>1
<1>6. CallOK(o, c)
  BY <1>1, <1>4 DEF CallOK
<1>7. WrittenOK(o, c)
  BY <1>1, <1>4 DEF WrittenOK
<1>8. attrs' \in [Keys -> Attrs] /\ blob' \in [Keys -> Contents \union {NoBlob}] /\ attrs'[k] = NoAttrs
  BY <1>1, <1>5 DEF TypeOK, Attrs
<1>9. FileStep(o, c, k)
  BY <1>1, <1>3, <1>5, <1>8, FaultsGrow DEF FileStep, TypeOK, Changing
<1>10. LockStep(o, c, k)
  BY <1>3, <1>4 DEF LockStep
<1>11. faults' > 0
  BY <1>1 DEF TypeOK, Fault
<1>12. Leaves(o, c, k)
  BY <1>4, <1>8, <1>11 DEF Leaves, Fits
<1>13. ServiceStep
  BY <1>1, <1>3, <1>4, Returns
<1> QED
  BY <1>4, <1>6, <1>7, <1>9, <1>10, <1>12, <1>13, FileKeeps

\* The attributes are written.
LEMMA StepEncodeAttrs == ASSUME IInv, NEW o \in Ops, EncodeAttrs(o) PROVE IInv' /\ ServiceStep
<1>1. /\ TypeOK /\ op[o] \in Call /\ CallOK(o, op[o]) /\ WrittenOK(o, op[o]) /\ LockOK
      /\ op[o].pc = "encode" /\ driver = "file" /\ ~op[o].applied
      /\ UNCHANGED <<driver, req, blind, blob, crashed>> /\ req[o].key \in Keys
  BY Requests DEF IInv, TypeOK, EncodeAttrs, CallOK, Call
<1>2. CASE Fault /\ attrs' = [attrs EXCEPT ![req[o].key] = NoAttrs] /\ Done(o, op[o], "err") /\ UNCHANGED marred
  BY <1>1, <1>2, CleansUp
<1>3. CASE /\ Step(o, [op[o] EXCEPT !.pc = "rename"])
           /\ attrs' = [attrs EXCEPT ![req[o].key] = op[o].data]
           /\ UNCHANGED <<lock, faults, marred>>
  <2>1. PICK c : c = [op[o] EXCEPT !.pc = "rename"] /\ Step(o, c)
    BY <1>3
  <2>2. MovesTo(o, c, "rename")
    BY <2>1 DEF MovesTo
  <2>3. /\ c \in Call /\ c.pc = "rename" /\ c.res = op[o].res /\ c.applied = op[o].applied /\ c.read = op[o].read
        /\ c.data = op[o].data /\ c.next = op[o].next /\ c.hashed = op[o].hashed /\ c.bufLen = op[o].bufLen
        /\ c.opened = op[o].opened /\ c.buf = op[o].buf /\ c.refused = op[o].refused
        /\ c.failing = op[o].failing /\ c.ctxDone = op[o].ctxDone /\ c.up = op[o].up /\ c.eof = op[o].eof
    BY <2>2, Kept
  <2>4. PICK k \in Keys : k = req[o].key
    BY <1>1
  <2>5. CallOK(o, c)
    BY <1>1, <2>3 DEF CallOK, OnFiles
  <2>6. WrittenOK(o, c)
    BY <1>1, <2>3 DEF WrittenOK
  <2>7. PICK x \in Attrs : x = op[o].data
    BY <1>1 DEF Call, Attrs
  <2>8. attrs' \in [Keys -> Attrs] /\ blob' \in [Keys -> Contents \union {NoBlob}] /\ attrs'[k] = x
    BY <1>1, <1>3, <2>4, <2>7 DEF TypeOK
  <2>9. FileStep(o, c, k)
    BY <1>1, <1>3, <2>1, <2>4, <2>8, FaultsGrow DEF FileStep, OnFiles, TypeOK, Changing
  <2>10. LockStep(o, c, k)
    BY <1>1, <1>3, <2>4 DEF LockStep, LockOK
  <2>11. Leaves(o, c, k)
    BY <2>3, <2>7, <2>8 DEF Leaves
  <2>12. ServiceStep
    BY <1>1, <2>1, <2>3, Stutters
  <2> QED
    BY <2>3, <2>5, <2>6, <2>9, <2>10, <2>11, <2>12, FileKeeps
<1>4. CASE /\ Fault /\ Done(o, op[o], "err")
           /\ attrs' = [attrs EXCEPT ![req[o].key] = op[o].data]
           /\ marred' = marred \union {o}
  <2>1. PICK c : c = [op[o] EXCEPT !.pc = "done", !.res = "err"]
    OBVIOUS
  <2>2. Step(o, c) /\ lock' = IF lock = o THEN None ELSE lock
    BY <1>1, <1>4, <2>1 DEF Done, Call
  <2>3. /\ c \in Call /\ c.pc = "done" /\ c.res = "err" /\ c.applied = op[o].applied /\ c.read = op[o].read
        /\ c.data = op[o].data /\ c.next = op[o].next /\ c.hashed = op[o].hashed /\ c.bufLen = op[o].bufLen
        /\ c.opened = op[o].opened /\ c.buf = op[o].buf /\ c.refused = op[o].refused
        /\ c.failing = op[o].failing /\ c.ctxDone = op[o].ctxDone /\ c.up = op[o].up /\ c.eof = op[o].eof
    BY <1>1, <2>1 DEF Call
  <2>4. PICK k \in Keys : k = req[o].key
    BY <1>1
  <2>5. CallOK(o, c)
    BY <1>1, <2>3 DEF CallOK
  <2>6. WrittenOK(o, c)
    BY <1>1, <2>3 DEF WrittenOK
  <2>7. PICK x \in Attrs : x = op[o].data
    BY <1>1 DEF Call, Attrs
  <2>8. attrs' \in [Keys -> Attrs] /\ blob' \in [Keys -> Contents \union {NoBlob}]
    BY <1>1, <1>4, <2>4, <2>7 DEF TypeOK
  <2>9. FileStep(o, c, k)
    BY <1>1, <1>4, <2>2, <2>4, <2>8, FaultsGrow DEF FileStep, OnFiles, TypeOK, Changing
  <2>10. LockStep(o, c, k)
    BY <1>1, <2>2, <2>3, <2>4 DEF LockStep
  <2>11. ~Undisturbed(k)'
    BY <1>1, <1>4, <2>4 DEF Undisturbed
  <2>12. Leaves(o, c, k)
    BY <2>11 DEF Leaves
  <2>13. ServiceStep
    BY <1>1, <2>2, <2>3, Returns DEF CallOK, Call
  <2> QED
    BY <2>3, <2>5, <2>6, <2>9, <2>10, <2>12, <2>13, FileKeeps
<1> QED
  BY <1>2, <1>3, <1>4 DEF EncodeAttrs

\* The new content is renamed into place: the moment a write or a copy takes effect.
LEMMA StepRename == ASSUME IInv, NEW o \in Ops, Rename(o) PROVE IInv' /\ ServiceStep
<1>1. /\ TypeOK /\ op[o] \in Call /\ CallOK(o, op[o]) /\ WrittenOK(o, op[o]) /\ LockOK /\ AttrsOK
      /\ op[o].pc = "rename" /\ OnFiles /\ ~op[o].applied /\ op[o].up = "none" /\ ~op[o].failing
      /\ op[o].res = "none" /\ req[o].kind \in {"write", "copy"} /\ ~op[o].eof
      /\ UNCHANGED <<driver, req, blind, crashed>> /\ req[o].key \in Keys
  BY Requests DEF IInv, TypeOK, Rename, CallOK, Call, OnFiles
<1>2. CASE RenameFails(o) /\ UNCHANGED marred
  BY <1>1, <1>2, CleansUp DEF RenameFails
<1>3. CASE /\ blob' = [blob EXCEPT ![req[o].key] = NewContent(o)]
           /\ Done(o, [op[o] EXCEPT !.applied = TRUE], "ok")
           /\ Meet(o, req[o].key, TRUE)
           /\ UNCHANGED <<attrs, faults>>
  <2>1. PICK c : c = [op[o] EXCEPT !.applied = TRUE, !.pc = "done", !.res = "ok"]
    OBVIOUS
  <2>2. Step(o, c) /\ lock' = IF lock = o THEN None ELSE lock
    BY <1>1, <1>3, <2>1 DEF Done, Call
  <2>3. /\ c \in Call /\ c.pc = "done" /\ c.res = "ok" /\ c.applied /\ c.read = op[o].read
        /\ c.data = op[o].data /\ c.next = op[o].next /\ c.hashed = op[o].hashed /\ c.bufLen = op[o].bufLen
        /\ c.opened = op[o].opened /\ c.buf = op[o].buf /\ c.refused = op[o].refused
        /\ c.failing = op[o].failing /\ c.ctxDone = op[o].ctxDone /\ c.up = op[o].up /\ c.eof = op[o].eof
    BY <1>1, <2>1 DEF Call
  <2>4. PICK k \in Keys : k = req[o].key
    BY <1>1
  <2>5. CallOK(o, c)
    BY <1>1, <2>3 DEF CallOK
  <2>6. WrittenOK(o, c)
    BY <1>1, <2>3 DEF WrittenOK
  <2>7. marred \subseteq marred'
    BY <1>3, Meets, Touches
  <2>8. PICK b \in Contents : b = NewContent(o) /\ b.by = o /\ b.bytes = op[o].data
    BY <1>1, Stored DEF NewContent
  <2>9. b # NoBlob
    BY BlobAssumption DEF Contents, Pieces, Writers
  <2>10. attrs' \in [Keys -> Attrs] /\ blob' \in [Keys -> Contents \union {NoBlob}] /\ blob'[k] = b
    BY <1>1, <1>3, <2>4, <2>8 DEF TypeOK
  <2>11. driver = "bare" => attrs[k] = NoAttrs
    BY <1>1 DEF AttrsOK, StoredTogether
  <2>12. FileStep(o, c, k)
    BY <1>1, <1>3, <2>2, <2>4, <2>7, <2>10, <2>11, FaultsGrow DEF FileStep, TypeOK, Changing
  <2>13. req[o].cond => lock = o
    BY <1>1 DEF LockOK
  <2>14. LockStep(o, c, k)
    BY <2>2, <2>3, <2>8, <2>10, <2>13 DEF LockStep
  <2>15. WhileChanging(k) => attrs[k] = op[o].data
    BY <1>1, <2>4 DEF WhileChanging
  <2>16. Leaves(o, c, k)
    BY <1>3, <2>3, <2>8, <2>9, <2>10, <2>15 DEF Leaves, Fits
  <2>17. ServiceStep
    <3>1. CASE req[o].kind = "write"
      <4>1. req[o].cond => o \in blind \/ blob[req[o].key] = NoBlob \/ (OnFiles /\ ~Ask(blob[req[o].key].by).cond)
        BY <1>1 DEF LockOK
      <4> QED
        BY <1>1, <1>3, <2>2, <2>3, <2>8, <3>1, <4>1, AppliesWrite
    <3>2. CASE req[o].kind = "copy"
      <4>1. op[o].read # NoBlob /\ op[o].data = op[o].read.bytes
        BY <1>1, <3>2 DEF CallOK
      <4>2. blob' = [blob EXCEPT ![req[o].key] = [by |-> o, bytes |-> c.read.bytes]]
        BY <1>3, <2>3, <4>1 DEF NewContent
      <4> QED
        BY <1>1, <2>2, <2>3, <3>2, <4>1, <4>2, AppliesCopy
    <3> QED
      BY <1>1, <3>1, <3>2
  <2> QED
    BY <2>3, <2>5, <2>6, <2>12, <2>14, <2>16, <2>17, FileKeeps
<1> QED
  BY <1>2, <1>3 DEF Rename

\* The content is removed: the moment a delete takes effect.
LEMMA StepFileDelete == ASSUME IInv, NEW o \in Ops, FileDelete(o) PROVE IInv' /\ ServiceStep
<1>1. /\ TypeOK /\ op[o] \in Call /\ CallOK(o, op[o]) /\ AttrsOK /\ op[o].pc = "idle" /\ op[o] = NewCall
      /\ OnFiles /\ req[o].kind = "delete" /\ ~req[o].cond /\ req[o].key \in Keys
      /\ ~op[o].failing /\ op[o].res = "none" /\ ~op[o].applied /\ op[o].up = "none" /\ ~op[o].eof
      /\ UNCHANGED <<driver, req, blind, attrs, faults, crashed>>
  BY Requests DEF IInv, TypeOK, FileDelete, CallOK, NewCall
<1>2. CASE Done(o, op[o], "err") /\ UNCHANGED <<blob, marred>>
  BY <1>1, <1>2, Fails
<1>3. CASE /\ blob' = [blob EXCEPT ![req[o].key] = NoBlob]
           /\ Step(o, [op[o] EXCEPT !.pc = "rmattrs", !.applied = TRUE])
           /\ Meet(o, req[o].key, TRUE)
           /\ UNCHANGED lock
  <2>1. PICK c : c = [op[o] EXCEPT !.pc = "rmattrs", !.applied = TRUE] /\ Step(o, c)
    BY <1>3
  <2>2. /\ c \in Call /\ c.pc = "rmattrs" /\ c.res = op[o].res /\ c.applied
        /\ c.failing = op[o].failing /\ c.up = op[o].up /\ c.eof = op[o].eof
    BY <1>1, <2>1 DEF Call
  <2>3. PICK k \in Keys : k = req[o].key
    BY <1>1
  <2>4. CallOK(o, c)
    BY <1>1, <2>2 DEF CallOK
  <2>5. WrittenOK(o, c)
    BY <1>1 DEF WrittenOK
  <2>6. /\ marred \subseteq marred'
        /\ \A p \in Ops \ {o} : Changing(p) /\ req[p].key = k => o \in marred' /\ p \in marred'
    BY <1>3, <2>3, Meets, Touches
  <2>7. attrs' \in [Keys -> Attrs] /\ blob' \in [Keys -> Contents \union {NoBlob}] /\ blob'[k] = NoBlob
    BY <1>1, <1>3, <2>3 DEF TypeOK
  <2>8. driver = "bare" => attrs[k] = NoAttrs
    BY <1>1 DEF AttrsOK, StoredTogether
  <2>9. FileStep(o, c, k)
    BY <1>1, <1>3, <2>1, <2>3, <2>6, <2>7, <2>8, FaultsGrow DEF FileStep, TypeOK
  <2>10. LockStep(o, c, k)
    BY <1>1, <1>3, <2>7 DEF LockStep
  <2>11. Leaves(o, c, k)
    BY <2>2, <2>7 DEF Leaves
  <2>12. ServiceStep
    BY <1>1, <1>3, <2>1, <2>2, AppliesDelete
  <2> QED
    BY <2>2, <2>4, <2>5, <2>9, <2>10, <2>11, <2>12, FileKeeps
<1> QED
  BY <1>2, <1>3 DEF FileDelete

\* The attributes are removed after the content, or stay behind.
LEMMA StepDeleteAttrs == ASSUME IInv, NEW o \in Ops, DeleteAttrs(o) PROVE IInv' /\ ServiceStep
<1>1. /\ TypeOK /\ op[o] \in Call /\ CallOK(o, op[o]) /\ AttrsOK /\ op[o].pc = "rmattrs"
      /\ OnFiles /\ req[o].kind = "delete" /\ ~req[o].cond /\ req[o].key \in Keys
      /\ ~op[o].failing /\ op[o].res = "none" /\ op[o].applied /\ op[o].up = "none" /\ ~op[o].eof
      /\ UNCHANGED <<driver, req, blind, blob, marred, crashed>>
  BY Requests DEF IInv, TypeOK, DeleteAttrs, CallOK, OnFiles, Call
<1>2. PICK k \in Keys : k = req[o].key
  BY <1>1
<1>3. PICK r \in {"ok", "err"} :
        /\ Done(o, op[o], r) /\ (Fault \/ UNCHANGED faults)
        /\ \/ r = "ok" /\ attrs' = [attrs EXCEPT ![k] = NoAttrs]
           \/ r = "err" /\ UNCHANGED attrs
  BY <1>2 DEF DeleteAttrs
<1>4. PICK c : c = [op[o] EXCEPT !.pc = "done", !.res = r]
  OBVIOUS
<1>5. Step(o, c) /\ lock' = IF lock = o THEN None ELSE lock
  BY <1>1, <1>3, <1>4 DEF Done
<1>6. /\ c \in Call /\ c.pc = "done" /\ c.res = r /\ c.applied = op[o].applied
      /\ c.failing = op[o].failing /\ c.up = op[o].up /\ c.eof = op[o].eof
  BY <1>1, <1>4 DEF Call
<1>7. CallOK(o, c)
  BY <1>1, <1>6 DEF CallOK
<1>8. WrittenOK(o, c)
  BY <1>1 DEF WrittenOK
<1>9. attrs' \in [Keys -> Attrs] /\ blob' \in [Keys -> Contents \union {NoBlob}] /\ (r = "ok" => attrs'[k] = NoAttrs)
  BY <1>1, <1>2, <1>3 DEF TypeOK, Attrs
<1>10. driver = "bare" => attrs'[k] = NoAttrs
  BY <1>1, <1>3, <1>9 DEF AttrsOK, StoredTogether
<1>11. FileStep(o, c, k)
  BY <1>1, <1>2, <1>3, <1>5, <1>9, <1>10, FaultsGrow DEF FileStep, TypeOK, Changing
<1>12. LockStep(o, c, k)
  BY <1>1, <1>5, <1>6 DEF LockStep
<1>13. Leaves(o, c, k)
  <2>1. CASE r = "ok"
    <3>1. WhileChanging(k) => blob[k] = NoBlob
      BY <1>1, <1>2 DEF WhileChanging
    <3> QED
      BY <1>1, <1>6, <1>9, <2>1, <3>1 DEF Leaves, Fits
  <2>2. CASE r = "err"
    <3>1. op'[o] = c
      BY <1>1, <1>5 DEF TypeOK, Step
    <3>2. ~Undisturbed(k)'
      BY <1>1, <1>6, <2>2, <3>1 DEF Undisturbed
    <3> QED
      BY <3>2 DEF Leaves
  <2> QED
    BY <2>1, <2>2
<1>14. ServiceStep
  BY <1>1, <1>5, <1>6, Returns DEF Unsure
<1> QED
  BY <1>6, <1>7, <1>8, <1>11, <1>12, <1>13, <1>14, FileKeeps

-----------------------------------------------------------------------------
(* memblob and s3blob: steps that change the bucket *)

\* The content and the attributes of a write are stored under the mutex.
LEMMA StepMemCommit == ASSUME IInv, NEW o \in Ops, MemCommit(o) PROVE IInv' /\ ServiceStep
<1>1. /\ TypeOK /\ op[o] \in Call /\ CallOK(o, op[o]) /\ WrittenOK(o, op[o]) /\ driver = "mem"
      /\ op[o].pc = "commit" /\ ~op[o].applied /\ op[o].up = "none" /\ req[o].kind = "write"
      /\ ~op[o].failing /\ op[o].res = "none" /\ ~op[o].eof
      /\ UNCHANGED <<driver, req, blind, faults, marred, crashed>>
  BY DEF IInv, TypeOK, MemCommit, CallOK, Call
<1>2. CASE Done(o, op[o], "err") /\ UNCHANGED <<blob, attrs>>
  BY <1>1, <1>2, Fails
<1>3. CASE /\ ~(blob[req[o].key] # NoBlob /\ req[o].cond)
           /\ Store(o, NewContent(o)) /\ Done(o, [op[o] EXCEPT !.applied = TRUE], "ok")
  <2>1. PICK c : c = [op[o] EXCEPT !.applied = TRUE, !.pc = "done", !.res = "ok"]
    OBVIOUS
  <2>2. Step(o, c)
    BY <1>1, <1>3, <2>1 DEF Done, Call
  <2>3. /\ c \in Call /\ c.pc = "done" /\ c.res = "ok" /\ c.applied /\ c.read = op[o].read
        /\ c.data = op[o].data /\ c.next = op[o].next /\ c.hashed = op[o].hashed /\ c.bufLen = op[o].bufLen
        /\ c.opened = op[o].opened /\ c.buf = op[o].buf /\ c.refused = op[o].refused
        /\ c.failing = op[o].failing /\ c.ctxDone = op[o].ctxDone /\ c.up = op[o].up /\ c.eof = op[o].eof
    BY <1>1, <2>1 DEF Call
  <2>4. CallOK(o, c)
    BY <1>1, <2>3 DEF CallOK
  <2>5. WrittenOK(o, c)
    BY <1>1, <2>3 DEF WrittenOK
  <2>6. PICK b \in Contents : b = NewContent(o) /\ b.by = o
    BY <1>1, Stored DEF NewContent
  <2>7. b # NoBlob /\ b.bytes \in Attrs
    BY BlobAssumption DEF Contents, Pieces, Writers, Attrs
  <2>8. Stores(o, c, b, b.bytes)
    BY <1>1, <1>3, <2>2, <2>6, <2>7, FaultsGrow DEF Stores, Store
  <2>9. ServiceStep
    BY <1>1, <1>3, <2>2, <2>3, <2>6, AppliesWrite DEF Store
  <2> QED
    BY <2>3, <2>4, <2>5, <2>7, <2>8, <2>9, StoresKeep
<1> QED
  BY <1>2, <1>3 DEF MemCommit

\* A copy under the mutex, or by one request.
LEMMA StepAtomicCopy == ASSUME IInv, NEW o \in Ops, AtomicCopy(o) PROVE IInv' /\ ServiceStep
<1>1. /\ TypeOK /\ op[o] \in Call /\ CallOK(o, op[o]) /\ op[o].pc = "idle" /\ op[o] = NewCall
      /\ req[o].kind = "copy" /\ req[o].src \in Keys /\ ~req[o].cond /\ driver \in {"mem", "pipe"}
      /\ ~op[o].failing /\ op[o].res = "none" /\ ~op[o].applied /\ op[o].up = "none" /\ ~op[o].eof
      /\ UNCHANGED <<driver, req, blind, faults, marred, crashed>>
  BY Requests DEF IInv, TypeOK, AtomicCopy, CallOK, NewCall, OnFiles
<1>2. CASE Done(o, op[o], "err") /\ UNCHANGED <<blob, attrs>>
  BY <1>1, <1>2, Fails
<1>3. PICK found \in Contents \union {NoBlob} : found = blob[req[o].src]
  BY <1>1 DEF TypeOK
<1>4. CASE /\ found # NoBlob /\ Store(o, [by |-> o, bytes |-> found.bytes])
           /\ Done(o, [op[o] EXCEPT !.applied = TRUE, !.read = found], "ok")
  <2>1. PICK c : c = [op[o] EXCEPT !.applied = TRUE, !.read = found, !.pc = "done", !.res = "ok"]
    OBVIOUS
  <2>2. Step(o, c)
    BY <1>1, <1>4, <2>1 DEF Done, Call
  <2>3. /\ c \in Call /\ c.pc = "done" /\ c.res = "ok" /\ c.applied /\ c.read = found
        /\ c.failing = op[o].failing /\ c.up = op[o].up /\ c.eof = op[o].eof
    BY <1>1, <1>3, <2>1 DEF Call
  <2>4. CallOK(o, c)
    BY <1>1, <2>3 DEF CallOK
  <2>5. WrittenOK(o, c)
    BY <1>1 DEF WrittenOK
  <2>6. PICK d \in Seq(Pieces) : d = found.bytes
    BY <1>3, <1>4 DEF Contents
  <2>7. PICK b \in Contents : b = [by |-> o, bytes |-> d]
    <3>1. o \in Writers
      BY DEF Writers
    <3> QED
      BY <3>1 DEF Contents
  <2>8. b # NoBlob /\ b.bytes = d /\ d \in Attrs /\ b = [by |-> o, bytes |-> found.bytes]
    BY <2>6, <2>7, BlobAssumption DEF Contents, Pieces, Writers, Attrs
  <2>9. Stores(o, c, b, d)
    BY <1>1, <1>4, <2>2, <2>8, FaultsGrow DEF Stores, Store
  <2>10. blob' = [blob EXCEPT ![req[o].key] = [by |-> o, bytes |-> c.read.bytes]]
    BY <1>4, <2>3 DEF Store
  <2>11. ServiceStep
    BY <1>1, <1>3, <1>4, <2>2, <2>3, <2>10, AppliesCopy
  <2> QED
    BY <2>3, <2>4, <2>5, <2>8, <2>9, <2>11, StoresKeep
<1> QED
  BY <1>2, <1>3, <1>4 DEF AtomicCopy

\* A delete by memblob, or by s3blob after its HeadObject.
LEMMA Deletes ==
    ASSUME IInv, NEW o \in Ops, req[o].kind = "delete", driver \in {"mem", "pipe"},
           op[o].pc \in {"idle", "remove"},
           blob' = [blob EXCEPT ![req[o].key] = NoBlob],
           attrs' = [attrs EXCEPT ![req[o].key] = NoAttrs],
           Done(o, [op[o] EXCEPT !.applied = TRUE], "ok"),
           UNCHANGED <<driver, req, blind, faults, marred, crashed>>
    PROVE  IInv' /\ ServiceStep
<1>1. /\ TypeOK /\ op[o] \in Call /\ CallOK(o, op[o]) /\ ~req[o].cond
      /\ ~op[o].failing /\ op[o].res = "none" /\ ~op[o].applied /\ op[o].up = "none" /\ ~op[o].eof
  BY Requests DEF IInv, TypeOK, CallOK, NewCall, Call
<1>2. PICK c : c = [op[o] EXCEPT !.applied = TRUE, !.pc = "done", !.res = "ok"]
  OBVIOUS
<1>3. Step(o, c)
  BY <1>1, <1>2 DEF Done, Call
<1>4. /\ c \in Call /\ c.pc = "done" /\ c.res = "ok" /\ c.applied
      /\ c.failing = op[o].failing /\ c.up = op[o].up /\ c.eof = op[o].eof
  BY <1>1, <1>2 DEF Call
<1>5. CallOK(o, c)
  BY <1>1, <1>4 DEF CallOK
<1>6. WrittenOK(o, c)
  BY <1>1 DEF WrittenOK
<1>7. Stores(o, c, NoBlob, NoAttrs) /\ NoAttrs \in Attrs
  BY <1>1, <1>3, FaultsGrow DEF Stores, Attrs
<1>8. ServiceStep
  BY <1>1, <1>3, <1>4, AppliesDelete
<1> QED
  BY <1>4, <1>5, <1>6, <1>7, <1>8, StoresKeep

\* memblob's Delete.
LEMMA StepMemDelete == ASSUME IInv, NEW o \in Ops, MemDelete(o) PROVE IInv' /\ ServiceStep
<1>1. /\ TypeOK /\ op[o] \in Call /\ op[o] = NewCall
      /\ req[o].kind = "delete" /\ driver = "mem" /\ op[o].pc = "idle" /\ ~op[o].applied /\ op[o].up = "none"
      /\ UNCHANGED <<driver, req, blind, faults, marred, crashed>>
  BY DEF IInv, TypeOK, MemDelete, CallOK, NewCall
<1>2. CASE Done(o, op[o], "err") /\ UNCHANGED <<blob, attrs>>
  BY <1>1, <1>2, Fails
<1>3. CASE blob[req[o].key] # NoBlob
  BY <1>1, <1>3, Deletes DEF MemDelete
<1> QED
  BY <1>2, <1>3 DEF MemDelete

\* s3blob's DeleteObject.
LEMMA StepS3Delete == ASSUME IInv, NEW o \in Ops, S3Delete(o) PROVE IInv' /\ ServiceStep
<1>1. req[o].kind = "delete" /\ driver = "pipe" /\ op[o].pc = "remove"
  BY DEF IInv, S3Delete, CallOK
<1> QED
  BY <1>1, Deletes DEF S3Delete

\* The service has all of an upload: the moment the write takes effect.
LEMMA StepUploadEnds == ASSUME IInv, NEW o \in Ops, UploadEnds(o) PROVE IInv' /\ ServiceStep
<1>1. /\ TypeOK /\ op[o] \in Call /\ CallOK(o, op[o]) /\ WrittenOK(o, op[o]) /\ driver = "pipe"
      /\ op[o].up = "running" /\ op[o].pc = "wait" /\ ~op[o].applied /\ ~op[o].failing
      /\ op[o].res = "none" /\ req[o].kind = "write" /\ op[o].opened
      /\ UNCHANGED <<driver, req, blind, lock, marred, crashed>> /\ (Fault \/ UNCHANGED faults)
  BY DEF IInv, TypeOK, UploadEnds, CallOK, Call
<1>2. PICK u \in {"ended", "failed"} : Step(o, [op[o] EXCEPT !.up = u, !.applied = TRUE])
  BY DEF UploadEnds
<1>3. PICK c : c = [op[o] EXCEPT !.up = u, !.applied = TRUE] /\ Step(o, c)
  BY <1>2
<1>4. /\ c \in Call /\ c.pc = "wait" /\ c.res = op[o].res /\ c.applied /\ c.read = op[o].read
      /\ c.data = op[o].data /\ c.next = op[o].next /\ c.hashed = op[o].hashed /\ c.bufLen = op[o].bufLen
      /\ c.opened = op[o].opened /\ c.buf = op[o].buf /\ c.refused = op[o].refused
      /\ c.failing = op[o].failing /\ c.ctxDone = op[o].ctxDone /\ c.up = u /\ c.eof = op[o].eof
  BY <1>1, <1>3 DEF Call
<1>5. CallOK(o, c)
  BY <1>1, <1>4 DEF CallOK
<1>6. WrittenOK(o, c)
  BY <1>1, <1>4 DEF WrittenOK
<1>7. PICK b \in Contents : b = NewContent(o) /\ b.by = o
  BY <1>1, Stored DEF NewContent
<1>8. b # NoBlob /\ b.bytes \in Attrs
  BY BlobAssumption DEF Contents, Pieces, Writers, Attrs
<1>9. Stores(o, c, b, b.bytes)
  BY <1>1, <1>3, <1>7, <1>8, FaultsGrow DEF Stores, Store, UploadEnds
<1>10. blob' = [blob EXCEPT ![req[o].key] = b] /\ (req[o].cond => blob[req[o].key] = NoBlob)
  BY <1>7 DEF UploadEnds, Store
<1>11. ServiceStep
  BY <1>1, <1>3, <1>4, <1>7, <1>10, AppliesWrite
<1> QED
  BY <1>4, <1>5, <1>6, <1>8, <1>9, <1>11, StoresKeep

-----------------------------------------------------------------------------
(* The system *)

\* A crash of the process: the files stay, and what was said of them while it ran
\* no longer has to hold.
LEMMA StepCrash == ASSUME IInv, Crash PROVE IInv' /\ ServiceStep
<1>1. /\ TypeOK /\ AttrsOK /\ UNCHANGED <<driver, req, blind, blob, attrs, marred>> /\ driver \in {"file", "bare"} /\ crashed'
  BY DEF IInv, Crash, OnFiles
<1>2. faults' \in Nat
  BY <1>1, FaultsGrow DEF Crash
<1>3. ASSUME NEW p \in Ops
      PROVE  /\ op'[p] \in Call /\ CallOK(p, op'[p]) /\ WrittenOK(p, op'[p])
             /\ op'[p].pc \in {"idle", "done", "dead"}
             /\ op'[p].res = op[p].res /\ op'[p].applied = op[p].applied /\ op'[p].read = op[p].read
  <2>1. op[p] \in Call /\ CallOK(p, op[p]) /\ WrittenOK(p, op[p]) /\ op[p].up = "none"
    BY <1>1 DEF IInv, TypeOK, CallOK
  <2>2. CASE op[p].pc \in {"idle", "done"}
    BY <2>1, <2>2 DEF Crash
  <2>3. CASE op[p].pc \notin {"idle", "done"}
    <3>1. PICK c : c = [op[p] EXCEPT !.pc = "dead"] /\ op'[p] = c
      BY <2>3 DEF Crash
    <3>2. /\ c \in Call /\ c.pc = "dead" /\ c.res = op[p].res /\ c.applied = op[p].applied /\ c.read = op[p].read
          /\ c.data = op[p].data /\ c.next = op[p].next /\ c.hashed = op[p].hashed /\ c.bufLen = op[p].bufLen
          /\ c.opened = op[p].opened /\ c.buf = op[p].buf /\ c.refused = op[p].refused
          /\ c.failing = op[p].failing /\ c.ctxDone = op[p].ctxDone /\ c.up = op[p].up /\ c.eof = op[p].eof
      BY <2>1, <3>1 DEF Call
    <3>3. CallOK(p, c)
      BY <2>1, <2>3, <3>2 DEF CallOK
    <3>4. WrittenOK(p, c)
      BY <2>1, <3>2 DEF WrittenOK
    <3> QED
      BY <3>1, <3>2, <3>3, <3>4
  <2> QED
    BY <2>2, <2>3
<1>4. TypeOK'
  <2>1. op' \in [Ops -> Call]
    BY <1>3 DEF Crash
  <2> QED
    BY <1>1, <1>2, <2>1 DEF TypeOK
<1>5. ASSUME NEW p \in Ops PROVE (CallOK(p, op[p]) /\ WrittenOK(p, op[p]))'
  <2>1. PICK d : d = op'[p]
    OBVIOUS
  <2>2. CallOK(p, d) /\ WrittenOK(p, d)
    BY <1>3, <2>1
  <2>3. CallOK(p, d)'
    BY <1>1, <2>2 DEF CallOK, OnFiles
  <2>4. WrittenOK(p, d)'
    BY <1>1, <2>2 DEF WrittenOK, Prefix, Chunk
  <2> QED
    BY <2>1, <2>3, <2>4 DEF CallOK, WrittenOK, OnFiles
<1>6. LockOK'
  BY <1>3 DEF LockOK
<1>7. StoredTogether'
  BY <1>1 DEF AttrsOK, StoredTogether
<1>8. MetOthers'
  BY <1>3 DEF MetOthers, Changing
<1>9. FileAttrs'
  BY <1>1 DEF FileAttrs, Undisturbed
<1>10. IInv'
  BY <1>4, <1>5, <1>6, <1>7, <1>8, <1>9 DEF IInv, AttrsOK
<1>11. \A p \in Ops : Status(p)' = Status(p)
  BY <1>3 DEF Status
<1>12. Statuses' = Statuses /\ Gots' = Gots
  BY <1>1, <1>3, <1>11 DEF Statuses, Gots
<1>13. Asks' = Asks /\ UNCHANGED OnFiles
  BY <1>1, AsksStay
<1>14. ServiceStep
  BY <1>1, <1>12, <1>13 DEF ServiceStep, Service!vars, Statuses, Gots, Asks, Writers
<1> QED
  BY <1>10, <1>14

\* A step in which nothing changes.
LEMMA StepNone == ASSUME IInv, UNCHANGED vars PROVE IInv' /\ ServiceStep
<1>1. IInv'
  BY DEF IInv, TypeOK, CallOK, WrittenOK, LockOK, AttrsOK, StoredTogether, MetOthers, FileAttrs, Fits,
         Undisturbed, WhileChanging, Changing, OnFiles, Prefix, Chunk, Ask, Unsure, vars
<1>2. Statuses' = Statuses /\ Gots' = Gots
  BY DEF Statuses, Gots, Status, vars
<1>3. Asks' = Asks /\ UNCHANGED OnFiles
  BY AsksStay DEF vars
<1>4. ServiceStep
  BY <1>2, <1>3 DEF ServiceStep, Service!vars, Statuses, Gots, Asks, Writers, vars
<1> QED
  BY <1>1, <1>4

\* Every step keeps the invariant, and is a step of BlobService or none.
LEMMA StepNext == ASSUME IInv, [Next]_vars PROVE IInv' /\ ServiceStep
<1>1. ASSUME NEW o \in Ops, Portable(o) PROVE IInv' /\ ServiceStep
  BY <1>1, StepNewWriter, StepWrite, StepClose DEF Portable
<1>2. ASSUME NEW o \in Ops, File(o) PROVE IInv' /\ ServiceStep
  BY <1>2, StepFileClose, StepCheckNotExist, StepCreateAttrs, StepEncodeAttrs, StepRename, StepFileDelete,
     StepDeleteAttrs, StepFileStat, StepGetAttrs, StepOpenContent DEF File
<1>3. ASSUME NEW o \in Ops, Mem(o) PROVE IInv' /\ ServiceStep
  BY <1>3, StepMemClose, StepMemCommit, StepMemDelete, StepAtomicCopy, StepAtomicRead DEF Mem
<1>4. ASSUME NEW o \in Ops, Pipe(o) PROVE IInv' /\ ServiceStep
  BY <1>4, StepPipeClose, StepUploadFails, StepUploadEnds, StepPipeReturn, StepS3Head, StepS3Delete DEF Pipe
<1> QED
  BY <1>1, <1>2, <1>3, <1>4, StepCancel, StepCrash, StepNone DEF Next, Work

\* The bucket at the start.
LEMMA InitIInv == ASSUME Init PROVE IInv
<1>1. NewCall \in Call
  <2>1. << >> \in Seq(Pieces)
    OBVIOUS
  <2> QED
    BY <2>1 DEF NewCall, Call, Attrs
<1>2. SeedBlob \in Contents /\ SeedBlob.bytes \in Attrs
  <2>1. Chunk(Seed, 1) \in Pieces
    BY DEF Chunk, Pieces, Writers
  <2>2. <<Chunk(Seed, 1)>> \in Seq(Pieces) /\ Seed \in Writers
    BY <2>1 DEF Writers
  <2> QED
    BY <2>2 DEF SeedBlob, Contents, Attrs
<1>3. SeedBlob # NoBlob
  BY <1>2, BlobAssumption DEF Contents, Pieces, Writers
<1>4. blob \in [Keys -> Contents \union {NoBlob}]
  BY <1>2 DEF Init
<1>5. attrs \in [Keys -> Attrs]
  BY <1>2 DEF Init, Attrs
<1>6. op \in [Ops -> Call] /\ \A o \in Ops : op[o] = NewCall
  BY <1>1 DEF Init
<1>7. TypeOK
  BY <1>4, <1>5, <1>6 DEF Init, TypeOK
<1>8. ASSUME NEW o \in Ops PROVE CallOK(o, op[o]) /\ WrittenOK(o, op[o])
  <2>1. CallOK(o, NewCall)
    BY DEF CallOK, NewCall
  <2>2. Prefix(o, 0) = << >> /\ 1 \in 1..Len(req[o].sizes) + 1
    <3>1. Prefix(o, 0) = << >>
      BY Prefixes
    <3>2. Len(req[o].sizes) \in Nat
      BY <1>7, Requests
    <3> QED
      BY <3>1, <3>2
  <2>3. WrittenOK(o, NewCall)
    BY <2>2 DEF WrittenOK, NewCall
  <2> QED
    BY <1>6, <2>1, <2>3
<1>9. LockOK
  BY <1>6 DEF LockOK, NewCall
<1>10. \A k \in Keys : Fits(k) /\ (driver = "bare" => attrs[k] = NoAttrs)
  BY <1>3 DEF Init, Fits
<1>11. \A o \in Ops : ~Changing(o) /\ op[o].pc = "idle"
  BY <1>6 DEF Changing, NewCall
<1>12. AttrsOK
  BY <1>10, <1>11 DEF AttrsOK, StoredTogether, MetOthers, FileAttrs, WhileChanging
<1> QED
  BY <1>7, <1>8, <1>9, <1>12 DEF IInv

\* The invariant holds always: of what every call has been given, has done and has
\* returned, of the lock of the conditional writers and of the attributes.
THEOREM Invariance == Spec => []IInv
<1>1. Init => IInv
  BY InitIInv
<1>2. IInv /\ [Next]_vars => IInv'
  BY StepNext
<1> QED
  BY <1>1, <1>2, PTL DEF Spec

\* A write that takes effect, and whose calls to Write all succeeded, has stored
\* every chunk in order, and no wrong ContentMD5 was given: whatever the sizes of the
\* chunks are to the sniffing buffer of blob.Writer, and for each of the drivers.
THEOREM WrittenStored == Spec => []WrittenIsStored
<1>1. IInv => WrittenIsStored
  BY DEF IInv, WrittenIsStored, WrittenOK, Prefix, CallOK
<1> QED
  BY <1>1, Invariance, PTL

\* When nothing runs on a key that one call at a time has changed, its attributes
\* are those of its content, or none after a fault: fileblob's order of system calls
\* and its clean-up are right for any number of callers and of failing Create, Encode,
\* Rename and Write calls.  What a crash, a failing Close of setAttrs, a Delete that
\* failed halfway or overlapping calls leave behind is excepted.
THEOREM AttributesBelong == Spec => []AttributesFit
<1>1. ASSUME IInv, NEW k \in Keys, Undisturbed(k), \A o \in Ops : ~(Changing(o) /\ req[o].key = k)
      PROVE  Fits(k)
  <2>1. TypeOK /\ AttrsOK /\ driver \in {"file", "bare", "mem", "pipe"}
    BY <1>1, BlobAssumption DEF IInv, TypeOK
  <2>2. CASE driver = "file"
    BY <1>1, <2>1, <2>2 DEF AttrsOK, FileAttrs, WhileChanging
  <2>3. CASE driver = "bare"
    BY <2>1, <2>3 DEF AttrsOK, StoredTogether, Fits
  <2>4. CASE driver \in {"mem", "pipe"}
    BY <2>1, <2>4 DEF AttrsOK, StoredTogether
  <2> QED
    BY <2>1, <2>2, <2>3, <2>4
<1>2. IInv => AttributesFit
  BY <1>1 DEF AttributesFit, Undisturbed, Fits
<1> QED
  BY <1>2, Invariance, PTL

\* All four drivers implement BlobService: the content of a key is changed at one
\* moment or not at all, never after an error was returned, and writers with
\* IfNotExist do not replace each other's blobs, unless the Stat of fileblob by which
\* they look for one fails.
THEOREM Refinement == Spec => Atomicity
<1>1. Init => Service!Init
  <2>1. SUFFICES ASSUME Init PROVE Service!Init
    OBVIOUS
  <2>2. IInv /\ blind = {} /\ \A o \in Ops : op[o] = NewCall
    BY <2>1, InitIInv DEF Init
  <2>3. blob \in [Keys -> Contents \union {NoBlob}]
    BY <2>2 DEF IInv, TypeOK
  <2>4. Statuses = [o \in Ops |-> "pending"] /\ Gots = [o \in Ops |-> NoBlob]
    BY <2>2 DEF Statuses, Gots, Status, NewCall
  <2> QED
    BY <2>2, <2>3, <2>4 DEF Service!Init, Statuses, Gots, Contents, Pieces, Writers
<1>2. IInv /\ [Next]_vars => [Service!Next]_(Service!vars)
  BY StepNext DEF ServiceStep
<1> QED
  BY <1>1, <1>2, Invariance, PTL DEF Spec, Atomicity, Service!Spec

=============================================================================
