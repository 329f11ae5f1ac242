------------------------------- MODULE MCBlob -------------------------------
(* Three calls on two keys.  Two of them write to the same key, the third   *)
(* writes, copies, deletes or reads.                                        *)
EXTENDS Blob, TLC

CONSTANTS w1, w2, x, k1, k2

WriteTo(k, sizes, typed, cond, md5) ==
    [kind |-> "write", key |-> k, src |-> k, sizes |-> sizes, typed |-> typed, cond |-> cond, md5 |-> md5]
Other(kind, k, src) ==
    [kind |-> kind, key |-> k, src |-> src, sizes |-> <<>>, typed |-> TRUE, cond |-> FALSE, md5 |-> "none"]

MCRequestsOf ==
    w1 :> {WriteTo(k1, <<1, 1>>, FALSE, TRUE, "right"), WriteTo(k1, <<2>>, FALSE, FALSE, "wrong")} @@
    w2 :> {WriteTo(k1, <<>>, FALSE, TRUE, "none"), WriteTo(k1, <<1>>, TRUE, FALSE, "none")} @@
    x :> {Other("copy", k1, k2), Other("copy", k2, k1), Other("delete", k1, k1), Other("read", k1, k1)}
=============================================================================
