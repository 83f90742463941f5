----------------------------- MODULE MC_Prefetch -----------------------------
(* Stores and gets for checking Prefetch.  Servers are ranks 0 and 1 over *)
(* cells 0 .. 3 (server 0 holds cells 0-1, server 1 cells 2-3), each on a *)
(* node of its own; compute peers 2 and 4 have default server 0, peers 3  *)
(* and 5 server 1.                                                         *)
EXTENDS Prefetch, TLC

Q(v, lb, ub) == [v |-> v, lb |-> lb, ub |-> ub]
Obj(owner, v, lb, ub) == [owner |-> owner, v |-> v, lb |-> lb, ub |-> ub]

NodePerServer == [s \in 0 .. 1 |-> s]

\* Version 2 is stored as cells 0-1, owned by server 0, and cell 2, owned
\* by server 1, each in the DHT entry of its owner.
StoredHalves == {Obj(0, 2, 0, 1), Obj(1, 2, 2, 2)}

\* The predictor says nothing on a peer's first request and names a box
\* at the next version on its second.  Peers 2 and 4 share server 0, so
\* one prefetch can run inside the wait of the other.  Peer 2's prefetch
\* of cells 2-3 asks server 1 alone and fetches one piece from it.  Peer
\* 4's prefetch of cell 0 finds it in server 0's own entry, the only one
\* of that box.  Peer 3's prefetch of cells 1-2 at version 3 asks server
\* 0, which has no such version and answers with the misrouted
\* ss_obj_get_desc, then finds server 1's own entry empty and returns.
GetsHalves ==
    (2 :> << Q(1, 2, 3), Q(1, 0, 1) >>)
 @@ (3 :> << Q(2, 1, 2), Q(2, 1, 2) >>)
 @@ (4 :> << Q(1, 0, 1), Q(1, 0, 0) >>)

\* Version 2 is stored as cells 1-2, owned by server 1 and so in both DHT
\* entries; peer 2 gets the whole domain twice, and the prefetch of the
\* second get asks both entries and needs one piece from server 1.
StoredSpan == {Obj(1, 2, 1, 2)}
GetsSpan == (2 :> << Q(1, 0, 3), Q(1, 0, 3) >>)

\* Version 2 of cells 0-1 is stored by server 0 on node 0; peer 3, whose
\* default server 1 is on node 1, gets version 1 of cells 0-1 twice, so
\* the second request may prefetch version 2 of the same box from server 0.
StoredRemoteBox == {Obj(0, 2, 0, 1)}
GetsSameBox == (3 :> << Q(1, 0, 1), Q(1, 0, 1) >>)
=============================================================================
