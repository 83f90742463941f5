---------------------------- MODULE MC_DataSpace ----------------------------
(* Programs of compute peers for checking DataSpace.  Servers are ranks 0  *)
(* and 1 over cells 0 .. 3 (server 0 holds cells 0-1, server 1 cells 2-3); *)
(* compute peers are ranks 2, 3 and 4, whose default servers are 0, 1, 0. *)
EXTENDS DataSpace, TLC

Call(op, v, lb, ub, after) == [op |-> op, v |-> v, lb |-> lb, ub |-> ub, after |-> after]
Sync(after) == Call("sync", 0, 0, 0, after)

\* Every peer on one node (NodeOf of the default build is not read).
OneNode == [p \in Servers \cup Clients |-> 0]

\* Location-aware layout: servers 0 and 1 on nodes 0 and 1, writer 2 and
\* the reader on node 0, writer 3 on node 1; each writer's one local
\* server is its default server.
NodeLocal == (0 :> 0) @@ (1 :> 1) @@ (2 :> 0) @@ (3 :> 1) @@ (4 :> 0)

\* Writer 2 on node 1 instead: its puts go to server 1, not to server 0,
\* where its query registration went and its object's first DHT entry is.
NodeLocalRace == (0 :> 0) @@ (1 :> 1) @@ (2 :> 1) @@ (3 :> 1) @@ (4 :> 0)

\* Writer 3 on node 0 instead: its put of cell 3 goes to server 0 and
\* reaches the entry of cell 3 (server 1) only through ss_obj_update.
NodeLocalStale == (0 :> 0) @@ (1 :> 1) @@ (2 :> 0) @@ (3 :> 0) @@ (4 :> 0)

\* Two writers put the halves of version 1, one half straddling the server
\* boundary; after both put_syncs the reader gets the whole domain, then
\* a version nobody put, then runs a filter on cell 3, whose only DHT
\* entry is the server the second writer put to; the first writer removes
\* version 1 once the filter is done.  A continuous query on the whole
\* domain is registered by the first writer before its put (kept at its
\* default server 0 and forwarded to server 1): both puts are notified to
\* it, the one straddling the boundary through its first DHT entry only.
ProgTwoWritersCQ ==
    (2 :> << Call("cq", 1, 0, 3, {}), Call("put", 1, 0, 2, {}), Sync({}),
             Call("remove", 1, 0, 0, {<<4, 3>>}) >>)
 @@ (3 :> << Call("put", 1, 3, 3, {}), Sync({}) >>)
 @@ (4 :> << Call("get", 1, 0, 3, {<<2, 3>>, <<3, 2>>}), Call("get", 2, 0, 3, {}),
             Call("filter", 1, 3, 3, {}) >>)

\* A get of a version after its remove has returned.
ProgGetAfterRemove ==
    (2 :> << Call("put", 1, 0, 3, {}), Sync({}), Call("remove", 1, 0, 0, {}) >>)
 @@ (4 :> << Call("get", 1, 0, 3, {<<2, 3>>}) >>)

\* A put of cells 1-2 and, after its put_sync, a get of cells 1-3.
ProgPartial ==
    (2 :> << Call("put", 1, 1, 2, {}), Sync({}) >>)
 @@ (4 :> << Call("get", 1, 1, 3, {<<2, 2>>}) >>)

\* A put of the whole domain and, after its put_sync, a get of cells 1-2.
ProgInnerGet ==
    (2 :> << Call("put", 1, 0, 3, {}), Sync({}) >>)
 @@ (4 :> << Call("get", 1, 1, 2, {<<2, 2>>}) >>)

\* A put of the whole domain and, after its put_sync, a get of it.
ProgRoundTrip ==
    (2 :> << Call("put", 1, 0, 3, {}), Sync({}) >>)
 @@ (4 :> << Call("get", 1, 0, 3, {<<2, 2>>}) >>)
\* A query on cells 2-3 only, registered at server 1; after it is in
\* place, peer 3 puts cells 1-2, whose first DHT entry is server 0.
ProgCQMissed ==
    (2 :> << Call("cq", 1, 2, 3, {}), Call("put", 1, 3, 3, {}), Sync({}) >>)
 @@ (3 :> << Call("put", 1, 1, 2, {<<2, 3>>}), Sync({}) >>)

\* SHMEM build: server 0 and peer 2 on node 0, server 1 and peer 3 on
\* node 1.
NodeSplit == (0 :> 0) @@ (1 :> 1) @@ (2 :> 0) @@ (3 :> 1)

\* With shmem_max_size 2, peer 2's put of cells 0-3 goes out as pieces
\* 0-1 and 2-3, both owned by server 0; peer 3's put of cells 1-3 is one
\* piece (total_blocks = 3/2 = 1) owned by server 1 and listed in both DHT
\* entries.  Peer 2 reads piece 2-3 straight from the segment named after
\* it; peer 3 reads cells 1-2 of version 1 from server 0 as two pieces,
\* then cells 1-2 of its own object through the duplicate descriptor of
\* both entries, copied from the segment of the stored twin.
ProgShmem ==
    (2 :> << Call("put", 1, 0, 3, {}), Sync({}), Call("get", 1, 2, 3, {}) >>)
 @@ (3 :> << Call("put", 2, 1, 3, {}), Sync({}), Call("get", 1, 1, 2, {<<2, 2>>}),
             Call("get", 2, 1, 2, {}) >>)

\* Peer 2 on node 0 reads cells 1-2 of the object of both DHT entries,
\* owned by server 1 on node 1.
ProgShmemSpan ==
    (3 :> << Call("put", 2, 1, 3, {}), Sync({}) >>)
 @@ (2 :> << Call("get", 2, 1, 2, {<<3, 2>>}) >>)

\* Peer 2 puts cell 0 and cells 1-3 (one piece, in both DHT entries) and
\* reads the whole domain: the two entries answer with tables of four
\* and of two descriptors.
ProgShmemUneven ==
    (2 :> << Call("put", 1, 0, 0, {}), Call("put", 1, 1, 3, {}), Sync({}),
             Call("get", 1, 0, 3, {}) >>)
=============================================================================
