------------------------------ MODULE Prefetch ------------------------------
(***************************************************************************)
(* The prefetch branch of dsgrpc_obj_send_dht_peers (src/src/ds_gspace.c).*)
(* When the request predictor of the server names a box, the handler,     *)
(* before it answers the compute peer, fetches that box at the next       *)
(* version into a shared-memory segment of its node with a get of its     *)
(* own: server_prefetch_dht_peers asks every DHT entry of the box for     *)
(* descriptors (ss_obj_get_desc_internal), waits for them inside the      *)
(* handler (DS_WAIT_COMPLETION), then dsg_internal_obj_data_get copies    *)
(* the pieces found in shared memory and asks their owners for the rest   *)
(* (ss_obj_get), and waits again.  Both waits run ds_process, so the     *)
(* server goes on serving requests, a nested prefetch among them; the    *)
(* handler below can only go on once the nested one has returned.        *)
(*                                                                         *)
(* The store is the one the puts of DataSpace leave: Stored objects, each *)
(* in the DHT entries of its hash and the local store of its owner, and a *)
(* shared-memory segment of it on its owner's node (dsgrpc_obj_put        *)
(* allocates the object with shmem_obj_data_alloc).  Compute peer c makes *)
(* the gets Gets[c] in order; only their first phase, the DHT-peers       *)
(* request this handler answers, is modelled here.                        *)
(***************************************************************************)
EXTENDS Integers, Sequences, SequencesExt, FiniteSets, SharedSpace

CONSTANTS
    Gets,     \* Gets[c]: the queries [v, lb, ub] compute peer c gets, in order
    Stored,   \* the objects [owner, v, lb, ub] in the store
    NodeOf    \* NodeOf[s]: the compute node server s runs on

Clients == DOMAIN Gets
Peers   == Servers \cup Clients
Nodes   == {NodeOf[s] : s \in Servers}

ASSUME Servers \cap Clients = {}

Box   == [lb : Cells, ub : Cells]
None  == [lb |-> -1, ub |-> -1]          \* the predictor's "0000"
Desc  == [owner : Servers \cup {-1}, v : Nat, lb : Cells, ub : Cells]

-----------------------------------------------------------------------------
(* The store.                                                              *)

\* The DHT entry of server s holds the descriptor of every object whose
\* hash names s (obj_put_update_dht); the local store of s its own objects.
DhtOf(s) == {o \in Stored : s \in ToSet(ssd_hash(o))}
LsOf(s)  == {o \in Stored : o.owner = s}

\* The matching descriptors of entry s, cut to the query, then as stored
\* (dht_find_entry_all and the loop that fills odsc_tab).
DescTab(s, q) ==
    LET found == SetToSortSeq(dht_find_entry_all(DhtOf(s), q),
                              LAMBDA a, b : a.lb < b.lb)
    IN  [i \in DOMAIN found |-> bbox_intersect(q, found[i])] \o found

-----------------------------------------------------------------------------
VARIABLES
    chan,   \* chan[<<p, q>>]: messages in flight from peer p to peer q
    shm,    \* shm[n]: names of the shared-memory segments on node n
    filled, \* filled[n]: those of them whose bytes have been written
    stale,  \* the prefetches that copied a segment not yet filled (history)
    hist,   \* hist[<<s, c>>]: the boxes c has asked server s about (req_chain)
    pf,     \* pf[s]: the prefetches open on server s, outermost first
    down,   \* the servers that have exited
    ip,     \* ip[c]: index in Gets[c] of the get compute peer c runs
    cpc     \* cpc[c]: "idle", or "wait" for the DHT-peers reply

vars == <<chan, shm, filled, stale, hist, pf, down, ip, cpc>>

Init ==
    /\ chan = [k \in Peers \X Peers |-> <<>>]
    /\ shm  = [n \in Nodes |-> {ShmName(o) : o \in {x \in Stored : NodeOf[x.owner] = n}}]
    /\ filled = shm
    /\ stale = {}
    /\ hist = [k \in Servers \X Clients |-> <<>>]
    /\ pf   = [s \in Servers |-> <<>>]
    /\ down = {}
    /\ ip   = [c \in Clients |-> 1]
    /\ cpc  = [c \in Clients |-> "idle"]

-----------------------------------------------------------------------------
(* The request predictor.                                                  *)

\* request_lbub_predict: the first request of a peer predicts nothing; a
\* later one returns a value of the n-gram map, every value of which is a
\* request of that peer (the current one included, inserted just before),
\* or "0000" when the chain is not in the map.
request_lbub_predict(h, q) ==
    IF h = <<>> THEN {None}
    ELSE {None} \cup {[lb |-> b.lb, ub |-> b.ub] : b \in ToSet(h) \cup {q}}

\* The descriptor the handler prefetches: the predicted box at the next
\* version, owner -1.
PrefOf(q, b) == [owner |-> -1, v |-> q.v + 1, lb |-> b.lb, ub |-> b.ub]

-----------------------------------------------------------------------------
(* The server's query transaction (struct query_tran_entry).               *)

qt_find_obj(l, d) == \E i \in DOMAIN l : l[i] = d

\* The loop over the cut half of a descriptor table: a cut not on od_list
\* is added at its head (qt_add_obj, list_add); the index of one already
\* there is recorded as a duplicate.
RECURSIVE AddCuts(_, _, _, _)
AddCuts(l, cuts, i, dup) ==
    IF i > Len(cuts) THEN [l |-> l, dup |-> dup]
    ELSE IF qt_find_obj(l, cuts[i]) THEN AddCuts(l, cuts, i + 1, dup \cup {i})
    ELSE AddCuts(<<cuts[i]>> \o l, cuts, i + 1, dup)

\* A reply of 2h descriptors (obj_internal_get_desc_completion, and the
\* self-entry loop of server_prefetch_dht_peers): size_od grows by 2h,
\* the cuts are added, and stored descriptor j is added unless
\* dupli_odsc[h+j] holds h+j.  That slot lies past the h ints allocated:
\* it holds h+j when cut j was a duplicate (the write past the end), and
\* otherwise whatever the heap holds there, so the indices of skip are
\* the others that read back equal.  Stored descriptors are not compared
\* with od_list.
AddDescs(t, tab, skip) ==
    LET h    == Len(tab) \div 2
        r    == AddCuts(t.od_list, SubSeq(tab, 1, h), 1, {})
        keep == SelectSeq([j \in 1 .. h |-> j], LAMBDA j : j \notin r.dup \cup skip)
    IN  [t EXCEPT !.od_list = Reverse([k \in DOMAIN keep |-> tab[h + keep[k]]]) \o r.l,
                  !.size_od = @ + Len(tab),
                  !.num_rep = @ + 1,
                  !.f_recv  = @ \/ t.num_rep + 1 = Len(t.peers)]

\* dsg_internal_obj_data_get: od_list is read as blocks of block_size
\* entries, the odd blocks being the ones to fetch.
BlockSize(t) == LET b == Len(t.od_list) \div (Len(t.peers) * 2)
                IN  IF b < 1 THEN 1 ELSE b
Fetched(t) == {i \in DOMAIN t.od_list : (i - 1) % (2 * BlockSize(t)) >= BlockSize(t)}

\* A piece to fetch is copied from a segment of this node with its name;
\* failing that, from the segment of the entry block_size before it when
\* its owner is on this node (mmap of a missing one fails: exit(-1)); and
\* otherwise asked of its owner with ss_obj_get.
InShm(s, d) == ShmName(d) \in shm[NodeOf[s]]
Twin(t, i) == t.od_list[i - BlockSize(t)]
Remote(t, s) == {i \in Fetched(t) : ~InShm(s, t.od_list[i])
                                      /\ NodeOf[t.od_list[i].owner] /= NodeOf[s]}
MapFails(t, s) == \E i \in Fetched(t) : /\ ~InShm(s, t.od_list[i])
                                       /\ NodeOf[t.od_list[i].owner] = NodeOf[s]
                                       /\ ~InShm(s, Twin(t, i))

\* The segments the loop copies from: a piece's own name when shm_open
\* finds it, else the twin's when the owner is on this node.
CopySources(t, s) ==
    {ShmName(t.od_list[i]) : i \in {j \in Fetched(t) : InShm(s, t.od_list[j])}}
    \cup {ShmName(Twin(t, i)) : i \in {j \in Fetched(t) : ~InShm(s, t.od_list[j])
                                                     /\ NodeOf[t.od_list[j].owner] = NodeOf[s]}}

\* The prefetch is recorded as stale when it copied from a segment whose
\* bytes are not written yet.
CopyStale(s, t) ==
    IF CopySources(t, s) \subseteq filled[NodeOf[s]] THEN stale ELSE stale \cup {t.pref}

\* internal_obj_assemble writes the pieces into the pref segment.
Assembled(s, t) == [filled EXCEPT ![NodeOf[s]] = @ \cup {ShmName(t.pref)}]

\* A mutant that forgets the shmem_flag test after the loop.
DataGetCompleteNever(t, s) == FALSE

\* f_complete is set when the loop posted no ss_obj_get.
DataGetComplete(t, s) == Remote(t, s) = {}

\* A mutant that halves size_od twice per piece.
CompletionHalveTwice(t) ==
    LET size == t.size_od \div 4
    IN  [t EXCEPT !.size_od = size, !.parts = @ + 1,
                  !.f_complete = @ \/ t.parts + 1 = size]

\* obj_data_get_completion_internal: size_od is halved on every piece,
\* then compared with the incremented piece count.
obj_data_get_completion_internal(t) ==
    LET size == t.size_od \div 2
    IN  [t EXCEPT !.size_od = size, !.parts = @ + 1,
                  !.f_complete = @ \/ t.parts + 1 = size]

-----------------------------------------------------------------------------
(* Channels.                                                               *)

Pending(p, q, cmd) == chan[<<p, q>>] /= <<>> /\ Head(chan[<<p, q>>]).cmd = cmd
Msg(p, q) == Head(chan[<<p, q>>])

\* The messages m to each peer of T, and none to the others.
To(T, m) == [t \in Peers |-> IF t \in T THEN <<m>> ELSE <<>>]
Also(a, b) == [t \in Peers |-> a[t] \o b[t]]
Nothing == To({}, 0)

\* Take the head of the channel from p to q (if take) and append out[t] to
\* the channel from q to each peer t.
Deliver(p, q, take, out) ==
    [k \in DOMAIN chan |->
        (IF take /\ k = <<p, q>> THEN Tail(chan[k]) ELSE chan[k])
        \o (IF k[1] = q THEN out[k[2]] ELSE <<>>)]

\* The ss_obj_get requests the data phase posts, in od_list order.
DataRequests(t, s) ==
    [p \in Peers |-> LET is == SetToSortSeq({i \in Remote(t, s) : t.od_list[i].owner = p}, <)
                     IN  [k \in DOMAIN is |-> [cmd |-> "ss_obj_get", qid |-> t.qid,
                                               od |-> t.od_list[is[k]]]]]

PeersReply(c) == To({c}, [cmd |-> "dht_peers"])

-----------------------------------------------------------------------------
(* Server handlers.  A server whose innermost prefetch has its data may  *)
(* only return from it: its wait loop has ended.                          *)

Top(s) == pf[s][Len(pf[s])]
Serving(s) ==
    /\ s \notin down
    /\ ~(pf[s] /= <<>> /\ Top(s).phase = "data" /\ Top(s).f_complete)

\* A mutant that drops the peer == dsg->ds->self test: the own entry is
\* read and also asked over the network.
AskedPeersWithSelf(peers, s) == ToSet(peers)

\* The entries asked with ss_obj_get_desc_internal: all but this server.
AskedPeers(peers, s) == ToSet(peers) \ {s}

\* server_prefetch_dht_peers, up to its first wait.  The loop over the DHT
\* entries of the box sends ss_obj_get_desc_internal to the others and
\* reads this server's own entry; when that is empty the function returns
\* 0 at once (the requests already sent and the transaction stay behind),
\* and the handler replies.
server_prefetch_dht_peers(s, c, pref, qid) ==
    LET peers == ssd_hash(pref)
        k     == IF s \in ToSet(peers) THEN CHOOSE i \in DOMAIN peers : peers[i] = s ELSE 0
        req   == [cmd |-> "ss_obj_get_desc_internal", qid |-> qid, q |-> pref]
        t0    == [qid |-> qid, c |-> c, pref |-> pref, peers |-> peers, num_rep |-> 0,
                  size_od |-> 0, od_list |-> <<>>, parts |-> 0, f_recv |-> FALSE,
                  f_complete |-> FALSE, phase |-> "desc"]
    IN  \/ /\ k > 0
           /\ DescTab(s, pref) = <<>>
           /\ chan' = Deliver(c, s, TRUE,
                         Also(To(ToSet(SubSeq(peers, 1, k - 1)), req), PeersReply(c)))
           /\ UNCHANGED pf
        \/ /\ k > 0
           /\ DescTab(s, pref) /= <<>>
           /\ \E skip \in SUBSET (1 .. Len(DescTab(s, pref)) \div 2) :
                 pf' = [pf EXCEPT ![s] = Append(@, AddDescs(t0, DescTab(s, pref), skip))]
           /\ chan' = Deliver(c, s, TRUE, To(AskedPeers(peers, s), req))
        \/ /\ k = 0
           /\ pf' = [pf EXCEPT ![s] = Append(@, t0)]
           /\ chan' = Deliver(c, s, TRUE, To(AskedPeers(peers, s), req))

\* dsgrpc_obj_send_dht_peers: ask the predictor; prefetch its box at the
\* next version unless it named nothing, a segment of that name is on this
\* node already, or the version is 6 or more; then reply with the peers.
dsgrpc_obj_send_dht_peers(s, c) ==
    /\ Serving(s)
    /\ Pending(c, s, "ss_obj_get_dht_peers")
    /\ LET q == Msg(c, s).q
           h == hist[<<s, c>>]
       IN  /\ hist' = [hist EXCEPT ![<<s, c>>] = Append(@, [lb |-> q.lb, ub |-> q.ub])]
           /\ \E b \in request_lbub_predict(h, q) :
                 LET pref == PrefOf(q, b)
                 IN  IF b = None \/ InShm(s, pref) \/ pref.v >= 6
                     THEN /\ chan' = Deliver(c, s, TRUE, PeersReply(c))
                          /\ UNCHANGED <<pf, shm>>
                     ELSE /\ shm' = [shm EXCEPT ![NodeOf[s]] = @ \cup {ShmName(pref)}]
                          /\ server_prefetch_dht_peers(s, c, pref, <<c, Len(h) + 1>>)
    /\ UNCHANGED <<filled, stale, down, ip, cpc>>

\* dsgrpc_server_obj_get_desc: the descriptors of this entry, or, when
\* there are none, obj_desc_not_found, which answers with the command
\* ss_obj_get_desc (rc < 0) and not ss_obj_send_desc.
dsgrpc_server_obj_get_desc(p, s) ==
    /\ Serving(p)
    /\ Pending(s, p, "ss_obj_get_desc_internal")
    /\ LET m   == Msg(s, p)
           tab == DescTab(p, m.q)
       IN  chan' = Deliver(s, p, TRUE,
                     To({s}, IF tab = <<>> THEN [cmd |-> "ss_obj_get_desc", qid |-> m.qid]
                             ELSE [cmd |-> "ss_obj_send_desc", qid |-> m.qid, tab |-> tab]))
    /\ UNCHANGED <<shm, filled, stale, hist, pf, down, ip, cpc>>

\* The open transactions of s with a given query id.
Slot(s, qid) == {i \in DOMAIN pf[s] : pf[s][i].qid = qid}

\* dsg_internal_rpc_obj_get_desc and the completion of its transfer
\* (obj_internal_get_desc_completion): the reply is added to the
\* transaction with that id; one left behind by an early return is
\* updated without effect.
dsg_internal_rpc_obj_get_desc(s, p) ==
    /\ Serving(s)
    /\ Pending(p, s, "ss_obj_send_desc")
    /\ LET m == Msg(p, s)
       IN  /\ \E skip \in SUBSET (1 .. Len(m.tab) \div 2) :
                 pf' = [pf EXCEPT ![s] = [i \in DOMAIN @ |->
                          IF i \in Slot(s, m.qid) THEN AddDescs(@[i], m.tab, skip) ELSE @[i]]]
           /\ chan' = Deliver(p, s, TRUE, Nothing)
    /\ UNCHANGED <<shm, filled, stale, hist, down, ip, cpc>>

\* dsgrpc_obj_get_desc, given a reply sent as ss_obj_get_desc by another
\* server: it takes the header for a query and answers the sender with
\* ss_obj_get_desc again, found or not; no transaction is touched.
dsgrpc_obj_get_desc(s, p) ==
    /\ Serving(s)
    /\ p \in Servers
    /\ Pending(p, s, "ss_obj_get_desc")
    /\ chan' = Deliver(p, s, TRUE, To({p}, [cmd |-> "ss_obj_get_desc", qid |-> Msg(p, s).qid]))
    /\ UNCHANGED <<shm, filled, stale, hist, pf, down, ip, cpc>>

\* The rest of server_prefetch_dht_peers once all descriptors are in
\* (DS_WAIT_COMPLETION returns): dsg_internal_obj_data_get, which exits
\* the server when a mmap fails; then, if no ss_obj_get was posted,
\* internal_obj_assemble, the release of the transaction and the reply of
\* dsgrpc_obj_send_dht_peers; otherwise the wait for the pieces.
ResumeData(s) ==
    /\ s \notin down
    /\ pf[s] /= <<>>
    /\ Top(s).phase = "desc"
    /\ Top(s).f_recv
    /\ LET t == Top(s)
       IN  IF MapFails(t, s)
           THEN /\ down' = down \cup {s}
                /\ UNCHANGED <<chan, pf, filled, stale>>
           ELSE IF DataGetComplete(t, s)
           THEN /\ pf' = [pf EXCEPT ![s] = SubSeq(@, 1, Len(@) - 1)]
                /\ chan' = Deliver(s, s, FALSE, Also(DataRequests(t, s), PeersReply(t.c)))
                /\ filled' = Assembled(s, t)
                /\ stale' = CopyStale(s, t)
                /\ UNCHANGED down
           ELSE /\ pf' = [pf EXCEPT ![s][Len(pf[s])] = [t EXCEPT !.phase = "data"]]
                /\ chan' = Deliver(s, s, FALSE, DataRequests(t, s))
                /\ stale' = CopyStale(s, t)
                /\ UNCHANGED <<filled, down>>
    /\ UNCHANGED <<shm, hist, ip, cpc>>

\* The wait for the pieces has ended: internal_obj_assemble,
\* qt_free_obj_data_shmem and qt_remove, then the reply.
internal_obj_assemble(s) ==
    /\ s \notin down
    /\ pf[s] /= <<>>
    /\ Top(s).phase = "data"
    /\ Top(s).f_complete
    /\ pf' = [pf EXCEPT ![s] = SubSeq(@, 1, Len(@) - 1)]
    /\ chan' = Deliver(s, s, FALSE, PeersReply(Top(s).c))
    /\ filled' = Assembled(s, Top(s))
    /\ UNCHANGED <<shm, stale, hist, down, ip, cpc>>

\* dsgrpc_obj_get on the owner: send the piece when ls_find finds it,
\* nothing otherwise.
dsgrpc_obj_get(p, s) ==
    /\ Serving(p)
    /\ Pending(s, p, "ss_obj_get")
    /\ LET m == Msg(s, p)
       IN  chan' = Deliver(s, p, TRUE,
                     To(IF ls_find(LsOf(p), m.od) THEN {s} ELSE {},
                        [cmd |-> "obj_data", qid |-> m.qid]))
    /\ UNCHANGED <<shm, filled, stale, hist, pf, down, ip, cpc>>

\* The transfer of a piece completes on the server that asked for it.
obj_data_get_completion(s, p) ==
    /\ Serving(s)
    /\ Pending(p, s, "obj_data")
    /\ LET m == Msg(p, s)
       IN  pf' = [pf EXCEPT ![s] = [i \in DOMAIN @ |->
                    IF i \in Slot(s, m.qid) THEN obj_data_get_completion_internal(@[i])
                    ELSE @[i]]]
    /\ chan' = Deliver(p, s, TRUE, Nothing)
    /\ UNCHANGED <<shm, filled, stale, hist, down, ip, cpc>>

-----------------------------------------------------------------------------
(* Compute peers: the first phase of dcg_obj_get.                         *)

\* dcg_obj_get sends ss_obj_get_dht_peers to the default server and waits.
dcg_obj_get(c) ==
    /\ cpc[c] = "idle"
    /\ ip[c] <= Len(Gets[c])
    /\ chan' = Deliver(c, c, FALSE, To({dcg_which_peer(c)},
                 [cmd |-> "ss_obj_get_dht_peers", q |-> Gets[c][ip[c]]]))
    /\ cpc' = [cpc EXCEPT ![c] = "wait"]
    /\ UNCHANGED <<shm, filled, stale, hist, pf, down, ip>>

\* get_dht_peers_completion; the rest of the get is modelled in DataSpace.
get_dht_peers_completion(c, s) ==
    /\ Pending(s, c, "dht_peers")
    /\ chan' = Deliver(s, c, TRUE, Nothing)
    /\ cpc' = [cpc EXCEPT ![c] = "idle"]
    /\ ip' = [ip EXCEPT ![c] = @ + 1]
    /\ UNCHANGED <<shm, filled, stale, hist, pf, down>>

\* Every get has been answered.
Finished ==
    /\ \A c \in Clients : ip[c] > Len(Gets[c])
    /\ UNCHANGED vars

ServerStep(s, p) ==
    \/ dsgrpc_server_obj_get_desc(s, p)
    \/ dsg_internal_rpc_obj_get_desc(s, p)
    \/ dsgrpc_obj_get_desc(s, p)
    \/ dsgrpc_obj_get(s, p)
    \/ obj_data_get_completion(s, p)

Next ==
    \/ \E s \in Servers, c \in Clients : dsgrpc_obj_send_dht_peers(s, c)
    \/ \E s, p \in Servers : ServerStep(s, p)
    \/ \E s \in Servers : ResumeData(s) \/ internal_obj_assemble(s)
    \/ \E c \in Clients : dcg_obj_get(c) \/ \E s \in Servers : get_dht_peers_completion(c, s)
    \/ Finished

\* Event loops keep polling and compute peers keep running their gets.
Fairness ==
    /\ \A s \in Servers :
          /\ WF_vars(ResumeData(s)) /\ WF_vars(internal_obj_assemble(s))
          /\ \A c \in Clients : WF_vars(dsgrpc_obj_send_dht_peers(s, c))
          /\ \A p \in Servers : WF_vars(ServerStep(s, p))
    /\ \A c \in Clients :
          WF_vars(dcg_obj_get(c)) /\ \A s \in Servers : WF_vars(get_dht_peers_completion(c, s))

Spec == Init /\ [][Next]_vars /\ Fairness

-----------------------------------------------------------------------------
(* Properties.                                                             *)

Tran == [qid : Clients \X Nat, c : Clients, pref : Desc, peers : Seq(Servers),
         num_rep : Nat, size_od : Nat, od_list : Seq(Desc), parts : Nat,
         f_recv : BOOLEAN, f_complete : BOOLEAN, phase : {"desc", "data"}]

TypeOK ==
    /\ \A k \in DOMAIN chan : chan[k] \in Seq([cmd : STRING] \cup [cmd : STRING, qid : Clients \X Nat]
                                             \cup [cmd : STRING, q : [v : Nat, lb : Cells, ub : Cells]]
                                             \cup [cmd : STRING, qid : Clients \X Nat, q : Desc]
                                             \cup [cmd : STRING, qid : Clients \X Nat, tab : Seq(Desc)]
                                             \cup [cmd : STRING, qid : Clients \X Nat, od : Desc])
    /\ \A n \in Nodes : filled[n] \subseteq shm[n]
    /\ stale \subseteq Desc
    /\ \A s \in Servers : pf[s] \in Seq(Tran)
    /\ \A s \in Servers : \A i \in DOMAIN pf[s] : pf[s][i].num_rep <= Len(pf[s][i].peers)
    /\ down \subseteq Servers
    /\ \A c \in Clients : ip[c] \in 1 .. Len(Gets[c]) + 1 /\ cpc[c] \in {"idle", "wait"}

\* Every DHT-peers request of a compute peer is answered: the prefetch run
\* inside dsgrpc_obj_send_dht_peers always returns.
GetPeersAnswered == \A c \in Clients : cpc[c] = "wait" ~> cpc[c] = "idle"

\* A prefetch reads only written data: every segment dsg_internal_obj_data_get
\* copies a piece from ("the data has been already prefetched on the local
\* node") holds the bytes of a put or of a prefetch that has assembled.
PrefetchCopiesFilled == stale = {}
=============================================================================
