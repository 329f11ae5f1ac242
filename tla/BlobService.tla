---------------------------- MODULE BlobService ----------------------------
(***************************************************************************)
(* What blob.Bucket promises of its store: every write, copy and delete    *)
(* takes effect at one moment or not at all, an operation that reports     *)
(* success has taken effect, one that reports an error has not (unless it  *)
(* is one whose outcome may be unknown), and a conditional write           *)
(* (IfNotExist) does not replace a blob, but for the exceptions named in   *)
(* MayReplace.  Blob.tla implements it.                                    *)
(***************************************************************************)
CONSTANTS Ops,      \* the calls of the program
          Keys, Contents,
          NoBlob    \* the content of a key that holds nothing

VARIABLES blobs,    \* the content of every key
          ask,      \* what each call asks for, fixed from the start
          status,   \* "pending", "applied", "ok" or "err", for every call
          got,      \* the content a copy has read
          strict,   \* conditional writes compete with plain ones too
          unseen    \* conditional writes that could not see what is at their key

vars == <<blobs, ask, status, got, strict, unseen>>

Init ==
    /\ blobs \in [Keys -> Contents \union {NoBlob}]
    /\ status = [o \in Ops |-> "pending"]
    /\ got = [o \in Ops |-> NoBlob]
    /\ unseen = {}

\* A conditional write may replace nothing, or, where strict does not hold,
\* at most the blob of a call that did not ask for the condition; one that
\* could not see what is there may replace anything.
MayReplace(o) ==
    \/ ~ask[o].cond
    \/ o \in unseen
    \/ blobs[ask[o].key] = NoBlob
    \/ ~strict /\ ~ask[blobs[ask[o].key].by].cond

Effect(o) ==
    CASE ask[o].kind = "write"  -> /\ MayReplace(o)
                                   /\ blobs'[ask[o].key] # NoBlob
                                   /\ blobs'[ask[o].key].by = o
                                   /\ blobs' = [blobs EXCEPT ![ask[o].key] = blobs'[ask[o].key]]
      [] ask[o].kind = "copy"   -> /\ got'[o] # NoBlob
                                   /\ blobs' = [blobs EXCEPT ![ask[o].key] = [by |-> o, bytes |-> got'[o].bytes]]
      [] ask[o].kind = "delete" -> blobs' = [blobs EXCEPT ![ask[o].key] = NoBlob]

\* A copy reads its source before it is applied, or as it is applied.
Fetch(o) ==
    /\ status[o] = "pending" /\ ask[o].kind = "copy"
    /\ got' = [got EXCEPT ![o] = blobs[ask[o].src]]
    /\ UNCHANGED <<blobs, ask, status, strict, unseen>>

Apply(o, outcome) ==
    /\ status[o] = "pending" /\ ask[o].kind # "read"
    /\ \/ UNCHANGED got
       \/ ask[o].kind = "copy" /\ got' = [got EXCEPT ![o] = blobs[ask[o].src]]
    /\ Effect(o)
    /\ status' = [status EXCEPT ![o] = outcome]
    /\ UNCHANGED <<ask, strict, unseen>>

Return(o) ==
    /\ \/ status[o] = "pending" /\ ask[o].kind = "read" /\ status' = [status EXCEPT ![o] = "ok"]
       \/ status[o] = "pending" /\ status' = [status EXCEPT ![o] = "err"]
       \/ status[o] = "applied" /\ status' = [status EXCEPT ![o] = "ok"]
       \/ status[o] = "applied" /\ ask[o].unsure /\ status' = [status EXCEPT ![o] = "err"]
    /\ UNCHANGED <<blobs, ask, got, strict, unseen>>

\* A conditional write fails to look at its key, where strict does not hold.
LookFails(o) ==
    /\ status[o] = "pending" /\ ask[o].kind = "write" /\ ask[o].cond /\ ~strict
    /\ unseen' = unseen \union {o}
    /\ UNCHANGED <<blobs, ask, status, got, strict>>

Next == \E o \in Ops : \/ Fetch(o)
                       \/ \E outcome \in {"applied", "ok"} : Apply(o, outcome)
                       \/ Return(o)
                       \/ LookFails(o)

Spec == Init /\ [][Next]_vars
=============================================================================
