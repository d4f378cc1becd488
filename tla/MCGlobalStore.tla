--------------------------- MODULE MCGlobalStore ---------------------------
(* The global store for TLC: two workers, one of them with two calls of one *)
(* context, and a key beside the whole dictionary.                          *)
EXTENDS GlobalStore, TLC

CONSTANTS w1, w2, x1, x2, c1, c2, c3, k1, k2

MCWorkerOf == (x1 :> w1) @@ (x2 :> w2)
MCContextOf == (c1 :> x1) @@ (c2 :> x1) @@ (c3 :> x2)

\* Every kind of call on one key, and the turn on the whole dictionary.
MCRequests ==
    [op : {"get", "set", "del", "turn"}, key : {k1}] \cup [op : {"turn"}, key : {Whole}]

\* The calls that contend: a write and the two turns.
MCWrites == [op : {"set", "turn"}, key : {k1}] \cup [op : {"turn"}, key : {Whole}]
=============================================================================
