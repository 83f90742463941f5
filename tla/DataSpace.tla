------------------------------ MODULE DataSpace ------------------------------
(***************************************************************************)
(* The distributed object store: put, put_sync, remove and the four-phase  *)
(* get transaction of a compute peer (src/src/dc_gspace.c) against the    *)
(* server handlers of src/src/ds_gspace.c, in the default build or, when  *)
(* Shmem holds, in the SHMEM_OBJECTS build, whose clients split large     *)
(* puts and read the pieces of a get from shared-memory segments of their *)
(* own node where they can.                                               *)
(*                                                                         *)
(* The global domain is one-dimensional, cells 0 .. NumCells-1, split into *)
(* NumServers equal sub-domains, one DHT entry per server rank.  Every     *)
(* object has the same name; an object descriptor is its owner rank,       *)
(* version and bounding box.  Bytes are not modelled: a piece fetched from *)
(* an owner carries the data of the version asked for, so what a get       *)
(* returns is the list of pieces it received.                              *)
(*                                                                         *)
(* Each pair of peers talks over one reliable FIFO channel (an RC queue    *)
(* pair); a server pulls the bytes of a put with rpc_receive_direct, and   *)
(* those pulls complete in order per client.  Compute peer c runs the      *)
(* calls Prog[c] in order; a call waits until the calls named in its       *)
(* "after" field are done, which stands for the application's own          *)
(* coordination (a lock, a barrier or a message between the programs).    *)
(***************************************************************************)
EXTENDS Integers, Sequences, SequencesExt, FiniteSets, SharedSpace

CONSTANTS
    Prog,         \* Prog[c]: the store calls compute peer c makes, in order
    Shmem,        \* the client is built with SHMEM_OBJECTS
    NodeOf,       \* NodeOf[p]: the node peer p runs on (on_same_node)
    ElemBytes,    \* bytes per cell of an object (size times the volume of
                  \* the dimensions other than the last)
    ShmemMax,     \* shmem_max_size of common_dspaces_put
    OOBMatch,     \* a slot of dupli_odsc read past its end may hold its index
    NumSyncSlots, \* num_op of struct sync_op: the slots of the sync_op_id ring
    LocationAware \* the client is built with DS_HAVE_DSPACES_LOCATION_AWARE_WRITE

Clients == DOMAIN Prog
SyncSlots == 0 .. NumSyncSlots - 1
Peers   == Servers \cup Clients
Versions == UNION {{Prog[c][i].v : i \in DOMAIN Prog[c]} : c \in Clients}

\* A call: op is "put", "sync", "remove", "get", "filter" (dcg_obj_filter)
\* or "cq" (register a continuous query); v, lb and ub are the version and box it names
\* (unused by sync); after is a set of
\* <<client, call index>> that must be done before it starts.
Op == [op : {"put", "sync", "remove", "get", "filter", "cq"}, v : Nat, lb : Cells, ub : Cells,
       after : SUBSET (Clients \X Nat)]

ASSUME Servers \cap Clients = {}
ASSUME Shmem \in BOOLEAN /\ OOBMatch \in BOOLEAN /\ LocationAware \in BOOLEAN
ASSUME \A p \in Servers \cup Clients : p \in DOMAIN NodeOf /\ NodeOf[p] \in Nat
ASSUME ElemBytes \in Nat \ {0} /\ ShmemMax \in Nat \ {0}
ASSUME \A c \in Clients : Prog[c] \in Seq(Op)


-----------------------------------------------------------------------------
VARIABLES
    chan,     \* chan[<<p, q>>]: messages in flight from peer p to peer q
    dht,      \* dht[s]: descriptors in the DHT entry of server s
    ls,       \* ls[s]: objects in the local store of server s
    pulls,    \* pulls[<<s, c>>]: put transfers server s has posted from c
    ip,       \* ip[c]: index in Prog[c] of the call compute peer c runs
    qte,      \* qte[c]: the open get transaction of c, if any
    lastPut,  \* lastPut[c]: sync_op_id (a slot) of c's last put
    sync_op,  \* sync_op[c]: c's ring of sync slots, [next, opid]
    res,      \* res[c]: the results of c's finished gets
    synced,   \* objects whose put a put_sync has confirmed (history)
    removed,  \* versions a remove has been sent for (history)
    cqs,      \* cqs[s]: dsg->cq_list of server s, head first
    notes     \* ss_obj_cq_notify messages the servers have sent (history)

vars == <<chan, dht, ls, pulls, ip, qte, lastPut, sync_op, res, synced, removed,
          cqs, notes>>

Desc == [owner : Servers \cup {-1}, v : Versions, lb : Cells, ub : Cells]
Query == [v : Versions, lb : Cells, ub : Cells]

NoTran == [phase |-> "none", i |-> 0, q |-> [v |-> 0, lb |-> 0, ub |-> 0],
           peers |-> <<>>, num_rep |-> 0, size_od |-> 0, od_list |-> <<>>,
           parts_rec |-> 0, recv |-> <<>>, err |-> FALSE, expect |-> FALSE,
           stale |-> FALSE, filter |-> FALSE]

Init ==
    /\ chan = [k \in Peers \X Peers |-> <<>>]
    /\ dht = [s \in Servers |-> {}]
    /\ ls = [s \in Servers |-> {}]
    /\ pulls = [k \in Servers \X Clients |-> <<>>]
    /\ ip = [c \in Clients |-> 1]
    /\ qte = [c \in Clients |-> NoTran]
    /\ lastPut = [c \in Clients |-> 0]
    /\ sync_op = [c \in Clients |-> [next |-> 0, opid |-> [n \in SyncSlots |-> 1]]]
    /\ res = [c \in Clients |-> {}]
    /\ synced = {}
    /\ removed = {}
    /\ cqs = [s \in Servers |-> <<>>]
    /\ notes = <<>>

-----------------------------------------------------------------------------
(* Channel helpers.                                                        *)

\* Take the head of the channel from p to q, and append the messages out(t)
\* to the channel from q to each peer t.
Reply(p, q, out(_)) ==
    [k \in DOMAIN chan |->
        LET base == IF k = <<p, q>> THEN Tail(chan[k]) ELSE chan[k]
        IN  IF k[1] = q THEN base \o out(k[2]) ELSE base]

\* Append the messages out(t) to the channel from p to each peer t.
Send(p, out(_)) ==
    [k \in DOMAIN chan |-> IF k[1] = p THEN chan[k] \o out(k[2]) ELSE chan[k]]

\* One message m to each peer of the set T.
To(T, t, m) == IF t \in T THEN <<m>> ELSE <<>>

Pending(p, q, cmd) == chan[<<p, q>>] /= <<>> /\ Head(chan[<<p, q>>]).cmd = cmd

-----------------------------------------------------------------------------
(* The continuous-query registry of a server (cq_* in ds_gspace.c).        *)

\* cq_alloc: the query id, the registrant's rank and the template.
cq_alloc(m) == [id |-> m.qid, rank |-> m.rank, v |-> m.q.v, lb |-> m.q.lb, ub |-> m.q.ub]

\* cq_add_to_list: list_add at the head; an equal entry is not looked for.
cq_add_to_list(l, cq) == <<cq>> \o l

\* obj_desc_by_name_intersect (ss_data.c): same name and intersecting
\* boxes; the version is not compared.
obj_desc_by_name_intersect(a, b) == Intersects(a, b)

\* The ss_obj_cq_notify message of cq_notify_on_match: the object's
\* descriptor with its box cut to the template, and the query id.
CQNote(cq, od) == [qid |-> cq.id, rank |-> cq.rank, od |-> bbox_intersect(cq, od)]

\* A mutant that reads the template's version as the last one notified
\* and skips a query whose version equals the object's.
CQCheckSkipSameVersion(s, od) ==
    LET l     == cqs[s]
        match == SelectSeq(l, LAMBDA cq : obj_desc_by_name_intersect(cq, od) /\ cq.v /= od.v)
    IN  /\ notes' = notes \o [i \in 1 .. Len(match) |-> CQNote(match[i], od)]
        /\ cqs' = [cqs EXCEPT ![s] =
                     [i \in DOMAIN l |-> IF obj_desc_by_name_intersect(l[i], od)
                                         THEN [l[i] EXCEPT !.v = od.v] ELSE l[i]]]

\* cq_check_match on server s for the new descriptor od: every query of the
\* list whose template intersects od is notified, in list order, and its
\* template takes od's version.
cq_check_match(s, od) ==
    LET l     == cqs[s]
        match == SelectSeq(l, LAMBDA cq : obj_desc_by_name_intersect(cq, od))
    IN  /\ notes' = notes \o [i \in 1 .. Len(match) |-> CQNote(match[i], od)]
        /\ cqs' = [cqs EXCEPT ![s] =
                     [i \in DOMAIN l |-> IF obj_desc_by_name_intersect(l[i], od)
                                         THEN [l[i] EXCEPT !.v = od.v] ELSE l[i]]]

\* A mutant that runs the check on every DHT entry, not only the first one.
CQCheckAnyEntry(s, od, rank) == cq_check_match(s, od)

\* Only the server whose rank is dht_tab[0]->rank of the object's hash
\* (min_rank, carried as oh->rank in ss_obj_update) runs cq_check_match.
CQCheckAt(s, od, rank) ==
    IF s = rank THEN cq_check_match(s, od) ELSE UNCHANGED <<cqs, notes>>

\* A mutant of obj_cq_forward_register that skips its own entry.
LocalRegisterNever(s, q) == FALSE

\* obj_cq_forward_register registers the query here when this server's
\* entry is among those ssd_hash gives for the template.
LocalRegister(s, q) == s \in ToSet(ssd_hash(q))

-----------------------------------------------------------------------------
(* Server handlers (ds_gspace.c).  Each takes the request at the head of  *)
(* the channel from peer p.                                                *)

\* dsgrpc_obj_send_dht_peers: reply with the ranks ssd_hash gives for the
\* query box.  The prefetch branch runs only when the request predictor
\* (a C++ library outside the sources) returns a name other than "0000";
\* this is the handler for that answer.
dsgrpc_obj_send_dht_peers(s, p) ==
    /\ Pending(p, s, "ss_obj_get_dht_peers")
    /\ LET q == Head(chan[<<p, s>>]).q
       IN  chan' = Reply(p, s, LAMBDA t : To({p}, t, [cmd |-> "dht_peers",
                                                       peers |-> ssd_hash(q)]))
    /\ UNCHANGED <<dht, ls, pulls, ip, qte, lastPut, sync_op, res, synced, removed,
                   cqs, notes>>

\* The reply of dsgrpc_obj_get_desc: the k matching descriptors cut to the
\* query box, then the same k as stored.
DescTable(tab, q) == [i \in 1 .. Len(tab) |-> bbox_intersect(q, tab[i])] \o tab

\* dsgrpc_obj_get_desc: send the matching descriptors, or a not-found
\* error (obj_desc_not_found) when there are none.
dsgrpc_obj_get_desc(s, p) ==
    /\ Pending(p, s, "ss_obj_get_desc")
    /\ LET q     == Head(chan[<<p, s>>]).q
           found == dht_find_entry_all(dht[s], q)
           msg   == IF found = {}
                    THEN [cmd |-> "ss_obj_get_desc", rc |-> -1, descs |-> <<>>]
                    ELSE [cmd |-> "ss_obj_get_desc", rc |-> 0,
                          descs |-> DescTable(SetToSeq(found), q)]
       IN  chan' = Reply(p, s, LAMBDA t : To({p}, t, msg))
    /\ UNCHANGED <<dht, ls, pulls, ip, qte, lastPut, sync_op, res, synced, removed,
                   cqs, notes>>

\* dsgrpc_obj_get: send the piece when ls_find finds it; otherwise log and
\* return, sending nothing.
dsgrpc_obj_get(s, p) ==
    /\ Pending(p, s, "ss_obj_get")
    /\ LET od == Head(chan[<<p, s>>]).od
       IN  chan' = Reply(p, s, LAMBDA t : To(IF ls_find(ls[s], od) THEN {p} ELSE {},
                                              t, [cmd |-> "obj_data", od |-> od]))
    /\ UNCHANGED <<dht, ls, pulls, ip, qte, lastPut, sync_op, res, synced, removed,
                   cqs, notes>>

\* dsgrpc_obj_filter: ls_find the piece; if found, apply ssd_filter and
\* send the result to the reply the client posted; otherwise log and
\* return, sending nothing.
dsgrpc_obj_filter(s, p) ==
    /\ Pending(p, s, "ss_obj_filter")
    /\ LET od == Head(chan[<<p, s>>]).od
       IN  chan' = Reply(p, s, LAMBDA t : To(IF ls_find(ls[s], od) THEN {p} ELSE {},
                                              t, [cmd |-> "obj_data", od |-> od]))
    /\ UNCHANGED <<dht, ls, pulls, ip, qte, lastPut, sync_op, res, synced, removed,
                   cqs, notes>>

\* obj_put_update_dht: record od in this server's entry if ssd_hash names
\* it, and send ss_obj_update to every other entry ssd_hash names.
UpdateTargets(s, od) == ToSet(ssd_hash(od)) \ {s}

OwnEntry(s, od) ==
    IF s \in ToSet(ssd_hash(od)) THEN dht_add_entry(dht[s], od) ELSE dht[s]

\* A mutant that leaves the owner the client sent (-1).
KeepOwner(od, s) == od

\* odsc->owner = DSG_ID: the receiving server owns the object.
SetOwner(od, s) == [od EXCEPT !.owner = s]

\* dsgrpc_obj_put: set the owner, post the pull of the bytes, then update
\* the DHT at once, before the bytes have arrived (obj_put_update_dht,
\* with cq_check_match when this server is the first entry of the hash).
dsgrpc_obj_put(s, p) ==
    /\ Pending(p, s, "ss_obj_put")
    /\ LET m  == Head(chan[<<p, s>>])
           od == SetOwner(m.od, s)
       IN  /\ pulls' = [pulls EXCEPT ![<<s, p>>] = Append(@, [od |-> od, id |-> m.id])]
           /\ dht' = [dht EXCEPT ![s] = OwnEntry(s, od)]
           /\ chan' = Reply(p, s, LAMBDA t : To(UpdateTargets(s, od), t,
                                             [cmd |-> "ss_obj_update", od |-> od,
                                              rank |-> Head(ssd_hash(od))]))
           /\ CQCheckAt(s, od, Head(ssd_hash(od)))
    /\ UNCHANGED <<ls, ip, qte, lastPut, sync_op, res, synced, removed>>

\* obj_put_completion: the pull has finished; the object enters the local
\* store, and the transport completes the client's send.  The code sets
\* the client's slot in its own send completion; completing it here, with
\* the store, assumes the transport orders it after this handler.
obj_put_completion(s, c) ==
    /\ pulls[<<s, c>>] /= <<>>
    /\ LET x == Head(pulls[<<s, c>>])
       IN  /\ ls' = [ls EXCEPT ![s] = ls_add_obj(@, x.od)]
           /\ chan' = Send(s, LAMBDA t : To({c}, t, [cmd |-> "put_done", id |-> x.id]))
    /\ pulls' = [pulls EXCEPT ![<<s, c>>] = Tail(@)]
    /\ UNCHANGED <<dht, ip, qte, lastPut, sync_op, res, synced, removed,
                   cqs, notes>>

\* dsgrpc_obj_update: record the descriptor with the sender as owner, and
\* run cq_check_match if this server is the rank the sender named.
dsgrpc_obj_update(s, p) ==
    /\ Pending(p, s, "ss_obj_update")
    /\ LET m  == Head(chan[<<p, s>>])
           od == [m.od EXCEPT !.owner = p]
       IN  /\ dht' = [dht EXCEPT ![s] = dht_add_entry(@, od)]
           /\ CQCheckAt(s, od, m.rank)
    /\ chan' = Reply(p, s, LAMBDA t : <<>>)
    /\ UNCHANGED <<ls, pulls, ip, qte, lastPut, sync_op, res, synced, removed>>

\* dsgrpc_remove_service: drop the objects of that version from the local
\* store; the DHT entries are left as they are.
dsgrpc_remove_service(s, p) ==
    /\ Pending(p, s, "cp_remove")
    /\ LET v == Head(chan[<<p, s>>]).v
       IN  ls' = [ls EXCEPT ![s] = {o \in @ : o.v /= v}]
    /\ chan' = Reply(p, s, LAMBDA t : <<>>)
    /\ UNCHANGED <<dht, pulls, ip, qte, lastPut, sync_op, res, synced, removed,
                   cqs, notes>>

\* dsgrpc_obj_cq_register: a request from a compute peer (rc = 0) goes to
\* obj_cq_forward_register, which sets rc = 1, registers the query here if
\* this entry is in the template's hash, and forwards it to the other
\* entries; a forwarded request (rc = 1) is registered locally.
dsgrpc_obj_cq_register(s, p) ==
    /\ Pending(p, s, "ss_obj_cq_register")
    /\ LET m == Head(chan[<<p, s>>])
       IN  \/ /\ m.rc = 0
              /\ cqs' = IF LocalRegister(s, m.q)
                        THEN [cqs EXCEPT ![s] = cq_add_to_list(@, cq_alloc(m))]
                        ELSE cqs
              /\ chan' = Reply(p, s, LAMBDA t : To(ToSet(ssd_hash(m.q)) \ {s}, t,
                                                 [m EXCEPT !.rc = 1]))
           \/ /\ m.rc = 1
              /\ cqs' = [cqs EXCEPT ![s] = cq_add_to_list(@, cq_alloc(m))]
              /\ chan' = Reply(p, s, LAMBDA t : <<>>)
    /\ UNCHANGED <<dht, ls, pulls, ip, qte, lastPut, sync_op, res, synced, removed,
                   notes>>

-----------------------------------------------------------------------------
(* Compute peer calls (dc_gspace.c, common_dataspaces.c) and the reply     *)
(* callbacks that run inside their wait loops.                             *)

Cur(c) == Prog[c][ip[c]]

\* The next call of c may start: its program is not over and the calls it
\* is ordered after are done.
Ready(c) ==
    /\ ip[c] <= Len(Prog[c])
    /\ \A a \in Cur(c).after : ip[a[1]] > a[2]


\* common_dspaces_put in the SHMEM build: an object of more than
\* shmem_max_size bytes is put as total_blocks pieces cut along the last
\* dimension.  total_blocks is the ceil of an integer division, so it
\* rounds down; block_size = ceil(extent / total_blocks), and the upper
\* bound of a piece is clipped to the object's.  The default build puts
\* the object whole.
PutPieces(od) ==
    LET n    == od.ub - od.lb + 1
        size == ElemBytes * n
        tb   == size \div ShmemMax
        bs   == (n + tb - 1) \div tb
    IN  IF ~Shmem \/ size <= ShmemMax THEN <<od>>
        ELSE [i \in 1 .. tb |->
                 [od EXCEPT !.lb = od.lb + (i - 1) * bs,
                            !.ub = Smaller(od.lb + (i - 1) * bs + bs - 1, od.ub)]]

\* The shared-memory segments of node n (SHMEM build): dsgrpc_obj_put
\* creates one, named after the descriptor, with shmem_obj_data_alloc as
\* soon as it posts the pull, and the pull fills it; a segment lives as
\* long as its object (obj_data_free, outside the sources, is taken to
\* unlink it).
ServersOn(n) == {s \in Servers : NodeOf[s] = n}
Pulling(s) == UNION {{x.od : x \in ToSet(pulls[<<s, c>>])} : c \in Clients}
Segments(n) == {ShmName(o) : o \in UNION {ls[s] \cup Pulling(s) : s \in ServersOn(n)}}
Filled(n) == {ShmName(o) : o \in UNION {ls[s] : s \in ServersOn(n)}}

\* The slot the k-th of a run of syncop_next calls returns: next, then
\* next + 1, modulo num_op.
SlotOf(so, k) == (so.next + k - 1) % NumSyncSlots

\* A mutant of syncop_next that advances next but leaves the slot set.
syncop_next_no_reset(so, k) == [so EXCEPT !.next = (@ + k) % NumSyncSlots]

\* k calls of syncop_next: each clears the slot at next and moves next on,
\* modulo num_op.  A slot still clear (awaited) is only logged as an
\* overflow and cleared again.
syncop_next(so, k) ==
    [next |-> (so.next + k) % NumSyncSlots,
     opid |-> [n \in SyncSlots |->
                 IF \E j \in 1 .. k : SlotOf(so, j) = n THEN 0 ELSE so.opid[n]]]

\* A mutant that keeps the sync_op_id of the first piece.
SyncOpIdFirst(c, ps) == SlotOf(sync_op[c], 1)

\* sync_op_id = err after each dcg_obj_put: the slot of the last piece.
SyncOpId(c, ps) == SlotOf(sync_op[c], Len(ps))

\* rpc_server_find_local_peers (declared in dart_rpc_ib.h, defined outside
\* the sources) lists the peers on the node of c; those with an id below
\* num_space_srv are servers, taken here in ascending id order.
LocalServerIds(c) == SetToSortSeq(ServersOn(NodeOf[c]), <)

\* The server the pieces of a put of c go to.  In the default build with
\* DS_HAVE_DSPACES_LOCATION_AWARE_WRITE, common_dspaces_put_location_aware
\* takes local_server_ids[id % num_local_server] (dcg_obj_put_to_server),
\* or the default server when no server is local (dcg_obj_put); otherwise
\* dcg_obj_put sends to the default server.
PutTarget(c) ==
    LET ids == LocalServerIds(c)
    IN  IF LocationAware /\ ~Shmem /\ ids /= <<>> THEN ids[(c % Len(ids)) + 1]
        ELSE dcg_which_peer(c)

\* The headers dcg_obj_put (or dcg_obj_put_to_server) sends, one per piece:
\* each piece takes the next sync slot (syncop_next,
\* msg->sync_op_id = syncop_ref(n)).
PutMsgs(c, ps) ==
    [k \in DOMAIN ps |-> [cmd |-> "ss_obj_put", od |-> ps[k], id |-> SlotOf(sync_op[c], k)]]

\* common_dspaces_put: send every piece to PutTarget(c); sync_op_id is the
\* slot of the last.
dcg_obj_put(c) ==
    /\ Ready(c) /\ Cur(c).op = "put"
    /\ LET ps == PutPieces([owner |-> -1, v |-> Cur(c).v, lb |-> Cur(c).lb,
                                         ub |-> Cur(c).ub])
       IN  /\ chan' = Send(c, LAMBDA t : IF t = PutTarget(c) THEN PutMsgs(c, ps) ELSE <<>>)
           /\ lastPut' = [lastPut EXCEPT ![c] = SyncOpId(c, ps)]
           /\ sync_op' = [sync_op EXCEPT ![c] = syncop_next(@, Len(ps))]
    /\ ip' = [ip EXCEPT ![c] = @ + 1]
    /\ UNCHANGED <<dht, ls, pulls, qte, res, synced, removed,
                   cqs, notes>>

\* obj_put_completion (client): the send of put `id' is complete; its sync
\* slot is set (*msg->sync_op_id = 1).
obj_put_completion_client(c, s) ==
    /\ Pending(s, c, "put_done")
    /\ sync_op' = [sync_op EXCEPT ![c].opid[Head(chan[<<s, c>>]).id] = 1]
    /\ chan' = Reply(s, c, LAMBDA t : <<>>)
    /\ UNCHANGED <<dht, ls, pulls, ip, qte, lastPut, res, synced, removed,
                   cqs, notes>>

\* The objects c has put before its current call.
PutsBefore(c) ==
    {[v |-> Prog[c][j].v, lb |-> Prog[c][j].lb, ub |-> Prog[c][j].ub] :
        j \in {k \in 1 .. ip[c] - 1 : Prog[c][k].op = "put"}}

\* A mutant of the wait of dcg_obj_sync that does not wait.
sync_no_wait(c) == TRUE

\* The loop condition of dcg_obj_sync: the slot of sync_op_id is set.
sync_done(c) == sync_op[c].opid[lastPut[c]] = 1

\* common_dspaces_put_sync / dcg_obj_sync: wait for the slot of the last
\* put only.
dcg_obj_sync(c) ==
    /\ Ready(c) /\ Cur(c).op = "sync"
    /\ sync_done(c)
    /\ synced' = synced \cup PutsBefore(c)
    /\ ip' = [ip EXCEPT ![c] = @ + 1]
    /\ UNCHANGED <<chan, dht, ls, pulls, qte, lastPut, sync_op, res, removed,
                   cqs, notes>>

\* dcg_remove: send cp_remove for the version to every server.
dcg_remove(c) ==
    /\ Ready(c) /\ Cur(c).op = "remove"
    /\ chan' = Send(c, LAMBDA t : To(Servers, t, [cmd |-> "cp_remove", v |-> Cur(c).v]))
    /\ removed' = removed \cup {Cur(c).v}
    /\ ip' = [ip EXCEPT ![c] = @ + 1]
    /\ UNCHANGED <<dht, ls, pulls, qte, lastPut, sync_op, res, synced,
                   cqs, notes>>

\* The compute-side registration call is not among the sources: a compute
\* peer sends ss_obj_cq_register with rc = 0 to its default server; the
\* query id is the index of the call.  The ss_obj_cq_notify messages it
\* receives are the history notes: no compute-side handler exists for them.
dcg_obj_cq_register(c) ==
    /\ Ready(c) /\ Cur(c).op = "cq"
    /\ chan' = Send(c, LAMBDA t : To({dcg_which_peer(c)}, t,
                        [cmd |-> "ss_obj_cq_register", rc |-> 0, qid |-> ip[c],
                         rank |-> c, q |-> [v |-> Cur(c).v, lb |-> Cur(c).lb,
                                            ub |-> Cur(c).ub]]))
    /\ ip' = [ip EXCEPT ![c] = @ + 1]
    /\ UNCHANGED <<dht, ls, pulls, qte, lastPut, sync_op, res, synced, removed,
                   cqs, notes>>

\* The put history says the query can be answered: every cell of it was
\* put at that version, confirmed by a put_sync, and not removed since.
ExpectData(q) ==
    /\ q.v \notin removed
    /\ \A x \in BoxCells(q) : \E o \in synced : o.v = q.v /\ x \in BoxCells(o)

\* The end of dcg_obj_get: free the transaction and return; the result is
\* the list of pieces received.
Finish(c, t, status) ==
    /\ qte' = [qte EXCEPT ![c] = NoTran]
    /\ res' = [res EXCEPT ![c] = @ \cup {[i |-> t.i, q |-> t.q, status |-> status,
                                          recv |-> t.recv, expect |-> t.expect,
                                          stale |-> t.stale]}]
    /\ ip' = [ip EXCEPT ![c] = @ + 1]

\* dcg_obj_get.  In the SHMEM build it first shm_opens the segment named
\* after the query itself on its own node and, if there is one, copies it
\* whole and returns 0, with no RPC.  Otherwise the first phase:
\* qte_alloc, qt_add, and get_dht_peers to the default server.
dcg_obj_get(c) ==
    /\ Ready(c) /\ Cur(c).op = "get" /\ qte[c].phase = "none"
    /\ LET q  == [v |-> Cur(c).v, lb |-> Cur(c).lb, ub |-> Cur(c).ub]
           t0 == [NoTran EXCEPT !.i = ip[c], !.q = q, !.expect = ExpectData(q)]
       IN  \/ /\ Shmem /\ ShmName(q) \in Segments(NodeOf[c])
              /\ Finish(c, [t0 EXCEPT !.recv = <<q>>,
                                      !.stale = ShmName(q) \notin Filled(NodeOf[c])], "ok")
              /\ UNCHANGED chan
           \/ /\ ~(Shmem /\ ShmName(q) \in Segments(NodeOf[c]))
              /\ qte' = [qte EXCEPT ![c] = [t0 EXCEPT !.phase = "peers"]]
              /\ chan' = Send(c, LAMBDA t : To({dcg_which_peer(c)}, t,
                                                [cmd |-> "ss_obj_get_dht_peers", q |-> q]))
              /\ UNCHANGED <<ip, res>>
    /\ UNCHANGED <<dht, ls, pulls, lastPut, sync_op, synced, removed, cqs, notes>>

\* dcg_obj_filter: qte_alloc and qt_add, then qc_find, which finds nothing
\* (qc_add_entry has no caller, so the query cache stays empty), so
\* get_dht_peers to the default server.  No shm_open shortcut.
dcg_obj_filter(c) ==
    /\ Ready(c) /\ Cur(c).op = "filter" /\ qte[c].phase = "none"
    /\ LET q == [v |-> Cur(c).v, lb |-> Cur(c).lb, ub |-> Cur(c).ub]
       IN  /\ qte' = [qte EXCEPT ![c] = [NoTran EXCEPT !.i = ip[c], !.q = q,
                                          !.expect = ExpectData(q), !.phase = "peers",
                                          !.filter = TRUE]]
           /\ chan' = Send(c, LAMBDA t : To({dcg_which_peer(c)}, t,
                                             [cmd |-> "ss_obj_get_dht_peers", q |-> q]))
    /\ UNCHANGED <<dht, ls, pulls, ip, lastPut, sync_op, res, synced, removed,
                   cqs, notes>>

\* get_dht_peers_completion, then get_obj_descriptors: ask every peer of
\* the table for its descriptors.
get_dht_peers_completion(c, s) ==
    /\ Pending(s, c, "dht_peers")
    /\ qte[c].phase = "peers"
    /\ LET peers == Head(chan[<<s, c>>]).peers
       IN  /\ qte' = [qte EXCEPT ![c].phase = "descs", ![c].peers = peers]
           /\ chan' = Reply(s, c, LAMBDA t : To(ToSet(peers), t,
                                      [cmd |-> "ss_obj_get_desc", q |-> qte[c].q]))
    /\ UNCHANGED <<dht, ls, pulls, ip, lastPut, sync_op, res, synced, removed,
                   cqs, notes>>


\* qt_find_obj: the transaction already lists a descriptor equal to d.
qt_find_obj(t, d) == \E i \in DOMAIN t.od_list : obj_desc_equals(t.od_list[i], d)

\* A mutant of the loop below that adds a duplicate but forgets size_od--.
RECURSIVE AddDescsNoDecrement(_, _)
AddDescsNoDecrement(t, ds) ==
    IF ds = <<>> THEN t
    ELSE AddDescsNoDecrement(
            IF qt_find_obj(t, Head(ds)) THEN t
            ELSE [t EXCEPT !.od_list = <<Head(ds)>> \o @], Tail(ds))

\* A mutant of the loop below with no duplicate check at all.
RECURSIVE AddDescsNoDedup(_, _)
AddDescsNoDedup(t, ds) ==
    IF ds = <<>> THEN t
    ELSE AddDescsNoDedup([t EXCEPT !.od_list = <<Head(ds)>> \o @], Tail(ds))

\* The loop of obj_get_desc_completion: a descriptor already listed is a
\* duplicate and takes one off size_od; a new one is put at the head of
\* od_list (qt_add_obj, list_add).
RECURSIVE AddDescs(_, _)
AddDescs(t, ds) ==
    IF ds = <<>> THEN t
    ELSE AddDescs(IF qt_find_obj(t, Head(ds))
                  THEN [t EXCEPT !.size_od = @ - 1]
                  ELSE [t EXCEPT !.od_list = <<Head(ds)>> \o @], Tail(ds))

\* obj_get_desc_completion (non-SHMEM): count the reply, add its
\* descriptors to size_od, then remove the duplicates again.
obj_get_desc_completion(t, ds) ==
    AddDescs([t EXCEPT !.num_rep = @ + 1, !.size_od = @ + Len(ds)], ds)

\* A mutant of the cut loop below with no qt_find_obj test.
RECURSIVE AddCutsNoFind(_, _, _, _)
AddCutsNoFind(t, cuts, i, dup) ==
    IF i > Len(cuts) THEN [t |-> t, dup |-> dup]
    ELSE AddCutsNoFind([t EXCEPT !.od_list = <<cuts[i]>> \o @], cuts, i + 1, dup)

\* The loop of the SHMEM obj_get_desc_completion over the cut half: a cut
\* not yet on od_list is added at its head (qt_add_obj); the index of one
\* already there is recorded in dupli_odsc.
RECURSIVE AddCuts(_, _, _, _)
AddCuts(t, cuts, i, dup) ==
    IF i > Len(cuts) THEN [t |-> t, dup |-> dup]
    ELSE IF qt_find_obj(t, cuts[i]) THEN AddCuts(t, cuts, i + 1, dup \cup {i})
    ELSE AddCuts([t EXCEPT !.od_list = <<cuts[i]>> \o @], cuts, i + 1, dup)

\* The slots of dupli_odsc a stored descriptor is tested against lie past
\* the half_sz ints allocated.  Slot h+j holds h+j after cut j was found a
\* duplicate; with OOBMatch the heap may also hold h+j in the others.
Skips(ds) == IF OOBMatch THEN SUBSET (1 .. Len(ds) \div 2) ELSE {{}}

\* obj_get_desc_completion (SHMEM): count the reply and add all 2h
\* descriptors to size_od, never taking a duplicate off; add the new
\* cuts, then every stored descriptor whose dupli_odsc slot does not hold
\* its index, without comparing it with od_list.
obj_get_desc_completion_shmem(t, ds, skip) ==
    LET h    == Len(ds) \div 2
        r    == AddCuts([t EXCEPT !.num_rep = @ + 1, !.size_od = @ + Len(ds)],
                        SubSeq(ds, 1, h), 1, {})
        keep == SelectSeq([j \in 1 .. h |-> j], LAMBDA j : j \notin r.dup \cup skip)
    IN  [r.t EXCEPT !.od_list = Reverse([k \in DOMAIN keep |-> ds[h + keep[k]]]) \o @]

\* dcg_obj_data_get (SHMEM) reads od_list as blocks of block_size entries
\* and fetches the odd blocks only: those are the cut descriptors when
\* every reply had the same length.
ShmemBlock(t) == LET b == Len(t.od_list) \div (Len(t.peers) * 2)
                 IN  IF b < 1 THEN 1 ELSE b
ShmemFetched(t) == {i \in DOMAIN t.od_list : (i - 1) % (2 * ShmemBlock(t)) >= ShmemBlock(t)}

\* A piece whose owner is on c's node is copied from the segment of its
\* own name, or failing that from the segment of the entry block_size
\* before it (ssd_copy of the intersection); the others are fetched.
LocalPieces(c, t) == {i \in ShmemFetched(t) : NodeOf[t.od_list[i].owner] = NodeOf[c]}
RemotePieces(c, t) == ShmemFetched(t) \ LocalPieces(c, t)
CopySource(c, t, i) ==
    IF ShmName(t.od_list[i]) \in Segments(NodeOf[c]) THEN t.od_list[i]
    ELSE t.od_list[i - ShmemBlock(t)]
Copied(c, t, i) == bbox_intersect(CopySource(c, t, i), t.od_list[i])

\* shm_open of the source fails and mmap(-1) fails: exit(-1).
ShmemMapFails(c, t) ==
    \E i \in LocalPieces(c, t) : ShmName(CopySource(c, t, i)) \notin Segments(NodeOf[c])

\* A mutant that forgets qte->size_od = qte->size_od/2.
HalveSizeOdNot(t) == t

\* The first statement of dcg_obj_data_get (SHMEM).
HalveSizeOd(t) == [t EXCEPT !.size_od = @ \div 2]

\* The local copies of the loop: ++num_parts_rec for each, with no test
\* against size_od; a copy from a segment not yet filled reads stale bytes.
CopyLocal(c, t) ==
    LET lc == SetToSortSeq(LocalPieces(c, t), <)
    IN  [t EXCEPT !.parts_rec = @ + Len(lc),
                  !.recv = @ \o [k \in DOMAIN lc |-> Copied(c, t, lc[k])],
                  !.stale = @ \/ \E k \in DOMAIN lc :
                                 ShmName(CopySource(c, t, lc[k])) \notin Filled(NodeOf[c])]

\* The ss_obj_get requests of the loop to owner o, version set to the query's.
ShmemDataRequests(c, t, o) ==
    LET mine == SetToSortSeq({i \in RemotePieces(c, t) : t.od_list[i].owner = o}, <)
    IN  [j \in DOMAIN mine |->
            [cmd |-> "ss_obj_get", od |-> [t.od_list[mine[j]] EXCEPT !.v = t.q.v]]]

\* obj_filter_init: one ss_obj_filter to the owner of every piece of
\* od_list, the version set to the query's; the replies are counted by
\* obj_data_get_completion.
FilterRequests(t, o) ==
    LET mine == SelectSeq(t.od_list, LAMBDA d : d.owner = o)
    IN  [j \in 1 .. Len(mine) |->
            [cmd |-> "ss_obj_filter", od |-> [mine[j] EXCEPT !.v = t.q.v]]]

\* The requests dcg_obj_data_get sends to owner o: one ss_obj_get per
\* listed piece o owns, with the version set to the query's.
DataRequests(t, o) ==
    LET mine == SelectSeq(t.od_list, LAMBDA d : d.owner = o)
    IN  [j \in 1 .. Len(mine) |->
            [cmd |-> "ss_obj_get", od |-> [mine[j] EXCEPT !.v = t.q.v]]]

\* dcgrpc_obj_get_desc with its receive completion, and the step of
\* dcg_obj_get that follows once f_odsc_recv is set: return "no data"
\* (-EAGAIN) if a peer answered not-found, else dcg_obj_data_get.  The
\* SHMEM dcg_obj_data_get halves size_od, copies the local pieces, posts
\* ss_obj_get for the others, and sets f_complete if it posted none.
dcgrpc_obj_get_desc(c, s) ==
    /\ Pending(s, c, "ss_obj_get_desc")
    /\ qte[c].phase = "descs"
    /\ \E skip \in Skips(Head(chan[<<s, c>>]).descs) :
       LET m  == Head(chan[<<s, c>>])
           t  == IF m.rc < 0
                 THEN [qte[c] EXCEPT !.num_rep = @ + 1, !.err = TRUE]
                 ELSE IF Shmem THEN obj_get_desc_completion_shmem(qte[c], m.descs, skip)
                 ELSE obj_get_desc_completion(qte[c], m.descs)
           h  == HalveSizeOd(t)
           u  == CopyLocal(c, h)
       IN  \/ /\ t.num_rep < Len(t.peers)
              /\ qte' = [qte EXCEPT ![c] = t]
              /\ chan' = Reply(s, c, LAMBDA o : <<>>)
              /\ UNCHANGED <<ip, res>>
           \/ /\ t.num_rep = Len(t.peers) /\ t.filter
              /\ qte' = [qte EXCEPT ![c] = [t EXCEPT !.phase = "data"]]
              /\ chan' = Reply(s, c, LAMBDA o : FilterRequests(t, o))
              /\ UNCHANGED <<ip, res>>
           \/ /\ t.num_rep = Len(t.peers) /\ ~t.filter /\ t.err
              /\ Finish(c, t, "no_data")
              /\ chan' = Reply(s, c, LAMBDA o : <<>>)
           \/ /\ t.num_rep = Len(t.peers) /\ ~t.filter /\ ~t.err /\ ~Shmem
              /\ qte' = [qte EXCEPT ![c] = [t EXCEPT !.phase = "data"]]
              /\ chan' = Reply(s, c, LAMBDA o : DataRequests(t, o))
              /\ UNCHANGED <<ip, res>>
           \/ /\ t.num_rep = Len(t.peers) /\ ~t.filter /\ ~t.err /\ Shmem
              /\ IF ShmemMapFails(c, h)
                 THEN /\ qte' = [qte EXCEPT ![c].phase = "exit"]
                      /\ chan' = Reply(s, c, LAMBDA o : <<>>)
                      /\ UNCHANGED <<ip, res>>
                 ELSE \/ /\ RemotePieces(c, h) = {}
                         /\ Finish(c, u, "ok")
                         /\ chan' = Reply(s, c, LAMBDA o : <<>>)
                      \/ /\ RemotePieces(c, h) /= {}
                         /\ qte' = [qte EXCEPT ![c] = [u EXCEPT !.phase = "data"]]
                         /\ chan' = Reply(s, c, LAMBDA o : ShmemDataRequests(c, h, o))
                         /\ UNCHANGED <<ip, res>>
    /\ UNCHANGED <<dht, ls, pulls, lastPut, sync_op, synced, removed, cqs, notes>>

\* A mutant of the completion test that fires one piece early.
f_complete_early(t) == t.parts_rec >= t.size_od - 1

\* The test of obj_data_get_completion that sets f_complete.
f_complete(t) == t.parts_rec = t.size_od

\* obj_data_get_completion: one more piece; when the count reaches size_od
\* dcg_obj_get assembles the pieces and returns, and dcg_obj_filter takes
\* the minimum of the piece results (obj_filter_reduce) and returns 0.
obj_data_get_completion(c, s) ==
    /\ Pending(s, c, "obj_data")
    /\ qte[c].phase = "data"
    /\ LET t == [qte[c] EXCEPT !.parts_rec = @ + 1,
                               !.recv = Append(@, Head(chan[<<s, c>>]).od)]
       IN  IF f_complete(t)
           THEN Finish(c, t, "ok")
           ELSE /\ qte' = [qte EXCEPT ![c] = t]
                /\ UNCHANGED <<ip, res>>
    /\ chan' = Reply(s, c, LAMBDA o : <<>>)
    /\ UNCHANGED <<dht, ls, pulls, lastPut, sync_op, synced, removed, cqs, notes>>

\* Every program has run to its end and nothing is in flight.
Finished ==
    /\ \A c \in Clients : ip[c] > Len(Prog[c])
    /\ \A k \in DOMAIN chan : chan[k] = <<>>
    /\ \A k \in DOMAIN pulls : pulls[k] = <<>>
    /\ UNCHANGED vars

-----------------------------------------------------------------------------
ServerStep(s, p) ==
    \/ dsgrpc_obj_send_dht_peers(s, p)
    \/ dsgrpc_obj_get_desc(s, p)
    \/ dsgrpc_obj_get(s, p)
    \/ dsgrpc_obj_filter(s, p)
    \/ dsgrpc_obj_put(s, p)
    \/ dsgrpc_obj_update(s, p)
    \/ dsgrpc_remove_service(s, p)
    \/ dsgrpc_obj_cq_register(s, p)

ClientCall(c) ==
    \/ dcg_obj_put(c)
    \/ dcg_obj_sync(c)
    \/ dcg_remove(c)
    \/ dcg_obj_get(c)
    \/ dcg_obj_filter(c)
    \/ dcg_obj_cq_register(c)

ClientCallback(c, s) ==
    \/ obj_put_completion_client(c, s)
    \/ get_dht_peers_completion(c, s)
    \/ dcgrpc_obj_get_desc(c, s)
    \/ obj_data_get_completion(c, s)

Next ==
    \/ \E s \in Servers, p \in Peers : ServerStep(s, p)
    \/ \E s \in Servers, c \in Clients : obj_put_completion(s, c)
    \/ \E c \in Clients : ClientCall(c)
    \/ \E c \in Clients, s \in Servers : ClientCallback(c, s)
    \/ Finished

\* The event loops of servers and clients keep polling, and the transport
\* is reliable: a pending handler or completion eventually runs, and a
\* program whose next call is ready eventually makes it.
Fairness ==
    /\ \A s \in Servers, p \in Peers : WF_vars(ServerStep(s, p))
    /\ \A s \in Servers, c \in Clients : WF_vars(obj_put_completion(s, c))
    /\ \A c \in Clients : WF_vars(ClientCall(c))
    /\ \A c \in Clients, s \in Servers : WF_vars(ClientCallback(c, s))

Spec == Init /\ [][Next]_vars /\ Fairness

-----------------------------------------------------------------------------
(* Properties.                                                             *)

Phases == {"none", "peers", "descs", "data", "exit"}
StoredDesc == [owner : Servers, v : Versions, lb : Cells, ub : Cells]

TypeOK ==
    /\ \A s \in Servers : dht[s] \subseteq StoredDesc /\ ls[s] \subseteq StoredDesc
    /\ \A c \in Clients :
          /\ ip[c] \in 1 .. Len(Prog[c]) + 1
          /\ qte[c].phase \in Phases
          /\ qte[c].size_od \in Nat /\ qte[c].parts_rec \in Nat
          /\ qte[c].od_list \in Seq(StoredDesc)
          /\ lastPut[c] \in SyncSlots
          /\ sync_op[c] \in [next : SyncSlots, opid : [SyncSlots -> {0, 1}]]
    /\ synced \subseteq Query
    /\ removed \subseteq Versions
    /\ \A s \in Servers : cqs[s] \in Seq([id : Nat, rank : Clients, v : Versions,
                                          lb : Cells, ub : Cells])
    /\ notes \in Seq([qid : Nat, rank : Clients, od : StoredDesc])

\* Piece requests of c and piece replies to c still in the network.
InFlight(c) ==
    MapThenSumSet(LAMBDA s :
        Len(SelectSeq(chan[<<c, s>>], LAMBDA m : m.cmd \in {"ss_obj_get", "ss_obj_filter"}))
      + Len(SelectSeq(chan[<<s, c>>], LAMBDA m : m.cmd = "obj_data")), Servers)

\* Piece accounting of the data phase of dcg_obj_get: in the default build
\* the duplicate suppression of obj_get_desc_completion leaves size_od the
\* number of distinct descriptors in od_list; in both builds every piece
\* counted in size_od (halved in the SHMEM build) is received or copied
\* (num_parts_rec) or still in the network, so the f_complete test of
\* obj_data_get_completion is reached exactly.
PartsAccounting ==
    \A c \in Clients : qte[c].phase = "data" =>
        /\ ~Shmem => qte[c].size_od = Len(qte[c].od_list)
        /\ qte[c].parts_rec + InFlight(c) = qte[c].size_od

\* The cells of the query box covered by the pieces a get received.
Covered(r) == BoxCells(r.q) \cap UNION {BoxCells(r.recv[j]) : j \in DOMAIN r.recv}

\* A get that dcg_obj_get reports as successful has received data for every
\* cell of its query box (the volume accounting of the design); one that
\* falls short must be reported as no data, not as a partly filled buffer.
GetOkCoversQuery ==
    \A c \in Clients : \A r \in res[c] :
        r.status = "ok" => Covered(r) = BoxCells(r.q)

\* Duplicate suppression: when the same stored piece is reachable through
\* several DHT entries, and as both halves of a reply of
\* dsgrpc_obj_get_desc, a successful get counts every cell of its query
\* box once: no two pieces it received overlap inside the query box.
PiecesCountedOnce ==
    \A c \in Clients : \A r \in res[c] : r.status = "ok" =>
        \A j, k \in DOMAIN r.recv : j /= k =>
            BoxCells(r.recv[j]) \cap BoxCells(r.recv[k]) \cap BoxCells(r.q) = {}

\* Shared-memory reads see written data: a get that returns 0 in the
\* SHMEM build copied every piece it read from a segment (the shortcut of
\* dcg_obj_get, or a local piece of dcg_obj_data_get) only after the pull
\* that fills that segment had completed; dsgrpc_obj_put creates the
\* segment and publishes the descriptor before the bytes arrive, so only
\* the put_sync the program waits on orders the two.
SegmentsReadFilled ==
    \A c \in Clients : \A r \in res[c] : r.status = "ok" => ~r.stale

\* Round trip: a get of a region whose every cell was put at that version,
\* with put_sync returned before the get started and no remove since,
\* returns the data rather than no data.
RoundTrip ==
    \A c \in Clients : \A r \in res[c] : r.expect => r.status = "ok"

\* put_sync waits for the data: when dcg_obj_sync returns, every cell of
\* every object the peer put before it is in the local store of a server
\* (unless its version has been removed since), although the wait polls
\* only the ring slot of the last piece: slots are reused modulo num_op,
\* a put clears its slot in syncop_next and its completion sets it.
SyncedStored ==
    \A o \in synced : o.v \notin removed =>
        \A x \in BoxCells(o) : \E s \in Servers : \E d \in ls[s] :
            d.v = o.v /\ x \in BoxCells(d)

\* Query i of compute peer c is on the list of every DHT entry its
\* template hashes to.
FullyRegistered(c, i) ==
    \A s \in ToSet(ssd_hash(Prog[c][i])) :
        \E k \in DOMAIN cqs[s] : cqs[s][k].id = i /\ cqs[s][k].rank = c

\* A notification to c for query i about object o.
NotifiedOf(c, i, o) ==
    \E k \in DOMAIN notes :
        /\ notes[k].qid = i /\ notes[k].rank = c /\ notes[k].od.v = o.v
        /\ notes[k].od.lb = Larger(Prog[c][i].lb, o.lb)
        /\ notes[k].od.ub = Smaller(Prog[c][i].ub, o.ub)

\* Continuous queries (the registry of the design): once a query is on the
\* lists of all the DHT entries of its template, every later put of an
\* object whose box intersects the template is notified to the
\* registrant, with the box cut to the template.  cq_check_match runs only
\* on the first DHT entry of the object (min_rank in obj_put_update_dht
\* and dsgrpc_obj_update), which must therefore hold the query.
CQEventuallyNotified ==
    \A c, c2 \in Clients : \A i \in 1 .. Len(Prog[c]) : \A j \in 1 .. Len(Prog[c2]) :
        (Prog[c][i].op = "cq" /\ Prog[c2][j].op = "put"
            /\ Intersects(Prog[c][i], Prog[c2][j]))
        => ((FullyRegistered(c, i) /\ ip[c2] <= j) ~> NotifiedOf(c, i, Prog[c2][j]))

\* Register, then put: a peer that registers a continuous query and later
\* puts an object intersecting its template is notified of that put.  The
\* registration is fire-and-forget (no reply), and obj_cq_forward_register
\* sends it on to the other DHT entries asynchronously, so this rests on
\* the put reaching the object's first DHT entry after the query does:
\* FIFO from the peer to its default server, and from that server on.
CQOwnPutNotified ==
    \A c \in Clients : \A i, j \in 1 .. Len(Prog[c]) :
        (i < j /\ Prog[c][i].op = "cq" /\ Prog[c][j].op = "put"
            /\ Intersects(Prog[c][i], Prog[c][j]))
        => (ip[c] > j ~> NotifiedOf(c, i, Prog[c][j]))

\* One insert, one notification: an object reaches several DHT entries
\* (the server of the put and each ss_obj_update), and only one of them
\* may notify a query, so no query is sent the same notification twice.
NoDuplicateNotification ==
    \A j, k \in DOMAIN notes : j < k => notes[j] /= notes[k]

\* Every dcg_obj_get that starts returns: its transaction is freed, with
\* data or with no data, and does not wait in its loop forever.
GetTerminates ==
    \A c \in Clients : qte[c].phase /= "none" ~> qte[c].phase = "none"

=============================================================================
