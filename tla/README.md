# TLA+ models of DataSpaces

This directory holds TLA+ models of the DataSpaces staging service. The C
sources are under `src/src/`. There is also a hybrid-staging executor in
`src/hybrid_staging/`. Each module is checked with TLC.
`PROJECT.json` lists:

- the components and how far each is modelled;
- the runs and the mutants that show each property can fail;
- the line map from every definition to the code it translates;
- the findings and the hazards.

## The system

DataSpaces has two kinds of peers. **Servers** run `ds_gspace.c` and
**compute peers**, the clients, run `dc_gspace.c`. Clients reach the server
code through the wrappers of `common_dataspaces.c`.

Every peer is single-threaded and completion-driven. An RPC handler, or the
completion of an RDMA transfer, runs inside the peer's event loop
(`ds_process` or `dc_process`). Blocking client calls spin on that loop until
a flag is set. Between one pair of peers, messages are delivered in order.

The parts and how they interact:

- **Lock service.** Server rank 0 keeps one `struct dsg_lock` per lock name.
  It runs one of two strategies, chosen by `ds_conf.lock_type`:
  - the generic reader/writer lock (`lock_process_request`), which is the
    default, `lock_type = 1`;
  - the epoch semaphore (`sem_process_request`).

  Clients send `cp_lock` requests carrying their `lock_num`, then wait for an
  `lk_grant` (`dcg_lock_on_read` and the others).
- **Put.** `dcg_obj_put` sends a header to the client's default server
  (`dcg_which_peer`). The server handler `dsgrpc_obj_put` takes ownership,
  posts an RDMA pull of the data and updates the DHT at once
  (`obj_put_update_dht`). Updating the DHT means adding the descriptor to the
  server's own entry and sending `ss_obj_update` to the other servers that
  `ssd_hash` names. When the pull ends, `obj_put_completion` adds the object
  to the local store. The client's send completion sets a sync slot, and
  `dcg_obj_sync` waits on it.
- **Get.** `dcg_obj_get` runs three phases:
  1. it asks a server which DHT entries cover the box
     (`dsgrpc_obj_send_dht_peers`);
  2. it asks each of those servers for descriptors (`dsgrpc_obj_get_desc`);
  3. it sends `ss_obj_get` to each owner and counts the pieces that arrive
     (`dsgrpc_obj_get`, `obj_data_get_completion`).
- **Filter.** `dcg_obj_filter` runs the same first two phases. It then
  sends `ss_obj_filter` for each piece (`obj_filter_init`); the owner
  applies `ssd_filter` and answers with one value (`dsgrpc_obj_filter`),
  and the client keeps the minimum (`obj_filter_reduce`). Unlike
  `dcg_obj_get`, it does not test `f_err` after the descriptor phase.
- **Continuous queries.** A compute peer registers a query with its
  default server (`ss_obj_cq_register`, `rc = 0`). The server keeps it on
  its list if its DHT entry is in the template's hash, and forwards it with
  `rc = 1` to the other entries (`obj_cq_forward_register`). On every put,
  only the object's first DHT entry (`min_rank`) runs `cq_check_match`,
  either in `obj_put_update_dht` or in `dsgrpc_obj_update`. That check sends
  `ss_obj_cq_notify` to each registrant whose template intersects the object.
- **Prefetch.** `dsgrpc_obj_send_dht_peers` asks a request predictor
  (`request_lbub_predict`) for the box the peer will ask for next. When it
  names one, the server fetches that box at the next version into a
  shared-memory segment (`server_prefetch_dht_peers`) before it replies.
  The fetch is a get from server to server:
  - it reads the server's own DHT entry;
  - it asks the other entries with `ss_obj_get_desc_internal`;
  - it copies or fetches (`ss_obj_get`) every other block of the
    descriptors (`dsg_internal_obj_data_get`).

  The handler waits in nested `ds_process` loops, and the compute peer is
  answered only after they end.
- **Remove.** `dcg_remove` sends `cp_remove` to every server, and
  `dsgrpc_remove_service` drops the version from that server's local store.
- **The SHMEM build.** When `SHMEM_OBJECTS` is defined, the client differs
  in four places:
  - `common_dspaces_put` splits an object larger than `shmem_max_size` into
    pieces along the last dimension and puts each one. `sync_op_id` is the
    slot of the last piece.
  - `dcg_obj_get` first `shm_open`s a segment named after the query on its
    own node. If one exists, it copies it and returns without an RPC.
  - `obj_get_desc_completion` adds the cut half of each reply with
    deduplication. It adds the stored half unless a `dupli_odsc` slot says
    otherwise, and it never lowers `size_od`.
  - `dcg_obj_data_get` halves `size_od` and reads `od_list` in blocks. It
    handles only the odd blocks, as follows:
    - a piece whose owner is on the same node is copied from a segment,
      either its own or that of its stored "twin" one block earlier;
    - any other piece is fetched with `ss_obj_get`.

  The server side is the same in both builds: `dsgrpc_obj_put` always
  creates the object's segment (`shmem_obj_data_alloc`) before it pulls the
  bytes into it.
- **Hybrid-staging executor.** `dummy_workflow_task.c` is an MPI program.
  Every rank registers the task functions of one workflow
  (`register_task_function`), then loops:
  1. `hstaging_request_task`;
  2. `hstaging_put_sync_all`;
  3. `exec_task_function`.

  The ranks given one task build a communicator over its rank table
  (`create_parallel_comm`), run the function and meet at the barrier of
  `task_done`. Rank 0 of the task then calls `hstaging_set_task_finished`.
  The `hstaging` runtime that hands out the tasks is not in the repository.

## Modules

| Module | Models |
|---|---|
| `LockService` | One lock on the server: the record, the wait list, the two strategies, the grant messages. The client lock API of each application group. |
| `RWLock` | The abstract reader/writer lock that the groups see: requests, grants and releases, with a cap on concurrent readers. |
| `MC_LockService` | Model values for two readers and one or two writers. |
| `DataSpace` | Servers with a DHT, a local store and a continuous-query list, and clients that run a fixed program of put / sync / remove / get / filter / query-registration calls over FIFO channels. It covers the default build (with or without location-aware writes) and the SHMEM build of the client, with the shared-memory segments of each node. |
| `MC_DataSpace` | The client programs the runs use. |
| `SharedSpace` | What `DataSpace` and `Prefetch` share: boxes over cells, `ssd_hash`, the DHT and local-store operations, `dcg_which_peer`. |
| `Prefetch` | The prefetch branch of `dsgrpc_obj_send_dht_peers` with the predictor, and the server-to-server get of `server_prefetch_dht_peers` with the handlers it talks to. |
| `MC_Prefetch` | The stored objects and the get sequences of the compute peers. |
| `Executor` | The ranks of an executor program: the loop, `exec_task_function`, the communicator, the barriers and rank-0 calls of each task function, and `task_done`. The runtime appears as a set of pending tasks. |
| `MC_Executor` | The s3d analysis workflow: its registry, its first task and the four `.conf` files `s3d_task` submits. |

### LockService

The state is as follows:

- `dl` is `struct dsg_lock`, without its wait list.
- `wait` is `dl->wait_list`, as a sequence of requests.
- `reqs[c]` and `grants[c]` are the two channels of client `c`.
- `pc[c]` and `lockNum[c]` are the client's position in the API and its
  `struct dcg_lock.lock_num`.
- `nRdGrant` and `nWrGrant` are history counters that the round property
  reads.

A client stands for the master rank of one application group. The other ranks
of the group meet it only at a barrier.

The actions are the server handler and the client calls:

- `dsgrpc_lock_service` is the server handler. It runs `lock_service` or
  `sem_service`, including their wait-list scans.
- `dcg_lock_on_read`, `dcg_lock_on_write`, `dcgrpc_lock_service`,
  `dcg_unlock_on_read` and `dcg_unlock_on_write` are the client calls.

`Abstract` instantiates `RWLock` with a refinement mapping from `pc`:

- a group in `rd_wait` or `wr_wait` is asking;
- a group in `rd_held` or `wr_held` holds the lock.

The reader cap is `MaxReaders` for the semaphore and unbounded for the
generic lock. `LockRefinesRWLock` is `Abstract!ASpec`. It says that every
step of the server and the clients is a step of the abstract lock, or leaves
the abstract state unchanged. The server decides on its own counters, and
releases still in flight have not reached them. Only safety is refined.
That every request is granted is checked on its own, as
`LockEventuallyGranted`, for both strategies.

A get that the generic lock cannot grant answers `la_wait` (the `else`
branches at DS:940 and DS:957). `lock_service` then puts a copy of the request
at the tail of the wait list. The notify of the last release scans that list
and stops at the first request that must still wait.

Each request type of each strategy is its own operator (`LockReadGet`,
`SemWriteRelease` and so on). Each operator returns the `lock_action` and the
new record.

### DataSpace

The state is as follows:

- `chan[<<p, q>>]` is the ordered channel from peer `p` to peer `q`.
- `dht[s]` and `ls[s]` are server `s`'s DHT entry and its local store.
- `pulls[<<s, c>>]` holds the data pulls that have been posted but have not
  completed.
- `qte[c]` is the client's `struct query_tran_entry`.
- `ip[c]` is the client's position in its program.
- `sync_op[c]` is the client's ring of sync slots (`struct sync_op`:
  `next` and `opid`, `NumSyncSlots` of them). `syncop_next` clears the slot
  at `next` and moves `next` on modulo the ring size; an overflow is only
  logged, as in the code. The completion of a put sets its slot.
- `lastPut[c]` is the static `sync_op_id` of `common_dataspaces.c`: the
  slot of the last piece put, which `dcg_obj_sync` polls.
- `cqs[s]` is the continuous-query list of server `s` (`dsg->cq_list`).
- `res`, `synced`, `removed` and `notes` are history that the properties
  read. `notes` holds the notifications sent; no compute-side handler for
  them exists in the sources.

Boxes are one-dimensional intervals over `NumCells` cells. `ssd_hash` maps a
cell to server `(x * NumServers) \div NumCells`.

The functions of `ss_data.c` and `bbox.c` are not in the source tree. These
are `ssd_hash`, `dht_add_entry`, `dht_find_entry_all`, `ls_find`,
`ls_add_obj`, `obj_desc_equals` and `bbox_intersect`. They are modelled from
the spec and marked `spec_modelled` in the map.

A descriptor reply holds the `k` descriptors cut to the query, followed by
the same `k` as stored. The constant `Shmem` selects the client build:

- **Location-aware writes** (`LocationAware = TRUE`, the default build with
  `DS_HAVE_DSPACES_LOCATION_AWARE_WRITE`). `PutTarget` sends a put to
  `local_server_ids[id % num_local_server]` through
  `dcg_obj_put_to_server`, or to the default server when no server shares
  the client's node. `rpc_server_find_local_peers` is only declared in the
  sources; `LocalServerIds` takes the local servers in ascending id order.
  Any fixed order sends every put of one client to the same server, which
  is what the single-slot wait of `put_sync` relies on. The server may not
  be a DHT entry of the object, nor the server that holds the client's
  query registration. Both cases lead to hazards; see the runs.
- **Filter.** `dcg_obj_filter` starts a transaction with `filter` set;
  the query cache it consults first is never filled (`qc_add_entry` has no
  caller). At the last descriptor reply, `dcgrpc_obj_get_desc` sends
  `FilterRequests` whatever `err` says, in both builds, and
  `obj_data_get_completion` ends it as it ends a get. `GetTerminates`,
  `GetOkCoversQuery` and `PiecesCountedOnce` read filters as they read
  gets.
- **Default build** (`Shmem = FALSE`). The client adds all `2k` descriptors
  to `od_list`, with deduplication by `qt_find_obj`, and fetches every one.
- **SHMEM build** (`Shmem = TRUE`). `dcg_obj_put` sends the pieces of
  `PutPieces`, each taking the next slot of the ring.
  `dcg_obj_get` has the shortcut as a disjunct of its own. In
  `dcgrpc_obj_get_desc`, `obj_get_desc_completion_shmem` replaces the
  default completion, and the data phase follows the code's loop:
  - `HalveSizeOd`, `ShmemBlock` and `ShmemFetched` give the count and the
    layout;
  - `CopyLocal` makes the local copies, counts them and records any stale
    read;
  - `ShmemDataRequests` sends the remote requests;
  - the get is finished at once when no request was posted (`shmem_flag`);
  - the get goes to phase `"exit"` when a copy's `mmap` would fail.

  `NodeOf` places peers on nodes. `ElemBytes` and `ShmemMax` set the
  split. `OOBMatch` lets the out-of-bounds `dupli_odsc` slots hold any
  index (see the hazard at `dc_gspace.c:1348`). When it is false, a slot
  reads back only what was written into it.

Segments are not a variable of their own. `Segments(n)` is the set of names
(`ShmName`) of the objects that the servers of node `n` hold or are pulling.
`Filled(n)` counts only the objects whose pull has completed. A copy from a
segment outside `Filled` marks the get's result as stale. What
`obj_data_free` does to a segment on remove is outside the sources, so the
SHMEM programs never remove.

### Prefetch

The store is fixed: `Stored` is a set of objects, and `DhtOf(s)` and `LsOf(s)`
are server `s`'s DHT entry and local store as puts would have left them.
`shm[n]` is the set of segment names on node `n`. A name is the version and
the box (`ShmName`), not the owner.

The state is as follows:

- `chan` holds the ordered channels, as in `DataSpace`.
- `hist[<<s, c>>]` is the predictor's history of peer `c` on server `s`.
- `pf[s]` is the stack of the prefetch transactions (`query_tran_entry`)
  of server `s`, outermost first. A prefetch runs inside the wait of the one
  below it.
- `down` holds the servers that called `exit(-1)`.
- `filled[n]` holds the segments of node `n` whose bytes are written. A
  put's segment is filled from the start. A pref segment is filled when its
  prefetch assembles.
- `stale` holds the prefetches that copied a piece from a segment that was
  not filled (`CopyStale`). `CopySources` is the set of segments that the
  loop of `dsg_internal_obj_data_get` copies from: the piece's own name, or
  its twin's on the owner's node.
- `ip` and `cpc` are each compute peer's position in its gets and whether
  it waits for the DHT peers.

The predictor's frequency map is a library outside the sources. It is
modelled as follows:

- on a peer's first request it answers "0000";
- later it names any box the peer has asked for, including the current one.

The actions are these:

- `dsgrpc_obj_send_dht_peers` runs `server_prefetch_dht_peers` up to its
  first wait. Three cases are separate disjuncts:
  - the own entry is empty, so it returns 0 at once and replies;
  - the own entry is found;
  - the server is not an entry of the box.
- `dsgrpc_server_obj_get_desc` is the answer of another entry.
- `dsg_internal_rpc_obj_get_desc` counts a reply.
- `dsgrpc_obj_get_desc` handles the not-found answer. That answer arrives
  under the client command `ss_obj_get_desc`, and this handler bounces it
  back.
- `ResumeData` is the return of `DS_WAIT_COMPLETION` and the loop of
  `dsg_internal_obj_data_get`, including the `exit(-1)` on a failed `mmap`.
- `dsgrpc_obj_get` and `obj_data_get_completion` are the pieces.
- `internal_obj_assemble` is the end of the wait and the reply.

`AddDescs` models the `dupli_odsc` array. The array is indexed past its
allocation, so the model chooses which stored descriptors read back as
duplicates.

A server whose innermost prefetch has set `f_complete` handles nothing until
that prefetch ends (`Serving`). Only its own loop runs then.

### Executor

The state is as follows:

- `pending` is the runtime's set of tasks not yet handed out.
- `pc[r]` says where rank `r` is: blocked in `hstaging_request_task`,
  running, waiting in `MPI_Barrier`, or out of the loop.
- `cur[r]` is the rank's `task_descriptor`, with its `t->rank`.
- `ip[r]` is its position in `Steps(t)`. That sequence is
  `create_parallel_comm`, the task function, then `task_done`.
- `arrive[<<tid, i>>]` counts the barriers that rank `i` of task `tid` has
  entered.

Each task function is written as the sequence of its `MPI_Barrier` calls
and its calls under `if (t->rank == 0)`, such as `dag_task` or `s3d_task`.
Sleeps and logging are left out. A barrier is passed once every rank of
the communicator has entered as many barriers, whatever call sites they
were, which is how MPI matches them. The last rank to enter leaves in the
same step.

The actions are these:

- `hstaging_request_task` hands a task to blocked ranks.
- `exec_task_function` looks up the appid. An unknown appid returns an
  undefined `err`, modelled as a choice of -1 or 0.
- `MPI_Barrier` and `BarrierLeave` are a barrier.
- `RootCall` and `NotRoot` are the two branches of the rank-0 calls.
- `ExecutorExit` is the loop's end.

## Runs

| Run | Expect | Shows |
|---|---|---|
| `lock_generic` | pass | With two readers and two writers, the generic lock refines `RWLock`. No grant a group sees ever lets a writer in beside another holder. Every get, queued with `la_wait` when contended, is eventually granted. |
| `lock_custom` | pass | The semaphore with one writer and two readers has these properties: it is exclusive, its rounds alternate, no grantable request stays on the wait list, and every request is granted. |
| `data_two_writers` | pass | In the default build with location-aware writes, two writers put disjoint halves and sync, each to the one server on its node (`NodeLocal`). The reader then filters cell 3. A reader gets the whole box, then gets a version never put. Meanwhile a query on the whole domain is registered at both entries. Throughout, the piece count stays consistent, a successful get covers the query with no overlap, and every get ends. The query is notified exactly once of each later put. In this layout every put reaches its first DHT entry directly; the path through `ss_obj_update` is shown by `data_cq_missed`. The registrant's own put is notified too, although the registration has no reply (`CQOwnPutNotified`). |
| `data_cq_missed` | violation | A query registered only at server 1 misses a put over cells 1-2, whose first entry is server 0. Only that entry runs `cq_check_match`. |
| `data_get_after_remove` | violation | A get after a remove hangs. The DHT still names the object, and `dsgrpc_obj_get` does not reply when the object is missing. |
| `shmem` | pass | In the SHMEM build, a four-cell put is split in two pieces, and a three-cell object lies in both DHT entries. Three kinds of get are made: through the shared-memory shortcut, from a remote owner in two pieces, and through the duplicate descriptor, copied from the stored twin's segment. Each of them counts its pieces exactly, returns every cell once, reads only filled segments, and ends. The ring has two sync slots, so the split put wraps it, and every `put_sync` returns only after all the data put before it is stored (`SyncedStored`). |
| `shmem_uneven` | violation | In the SHMEM build, two DHT entries answer a get with tables of four and two descriptors. The block layout then picks the stored and the cut copy of cell 0, and the get returns success without cells 1-3. |
| `prefetch` | pass | Every request for DHT peers is answered, whatever box the predictor names. This covers nested prefetches on one server, an own entry that is empty or holds the box, the misrouted not-found answer that is never counted, and a fetch of one remote piece. |
| `prefetch_stale` | violation | A prefetch of a box stored whole on another node first creates its own empty pref segment. It then finds the fetched piece under that same name, copies the empty segment, fetches nothing, and assembles an object with no data. |
| `prefetch_hang` | violation | A prefetch of an object listed by both DHT entries fetches one piece and never completes. Its own entry adds 2 to `size_od` (ds 2242) and server 1's reply adds 2 more, and nothing takes the duplicate off (ds 1926, 1944). The one completion halves 4 to 2 against a count of 1 (ds 2042-2043), so the compute peer waits forever. |
| `executor` | pass | In the s3d analysis workflow on two ranks, `s3d_task` runs on both, and its rank 0 submits the four analysis tasks. The ranks then take those tasks in any assignment. Every task is marked finished, and only after all its ranks have returned from the task function. Every rank's loop ends. |
| `data_round_trip` | violation | A get made after `put_sync` can still report no data while `ss_obj_update` is in flight. |

The violation runs are the findings in `PROJECT.json`. Seven more
disagreements are hazards. Their definitions are kept in the MC modules
(`MC_DataSpace` unless marked otherwise). Each can be reproduced by
changing one passing configuration:

| Program | Configuration | Result |
|---|---|---|
| `ProgPartial` | `DataTwoWriters.cfg` with `INVARIANT GetOkCoversQuery` only | A get of a partly stored box returns success. |
| `ProgInnerGet` | `DataTwoWriters.cfg` with `INVARIANT PiecesCountedOnce` only | A get inside a stored object fetches the same cells through the cut and the stored descriptor. |
| `S3DRegistryNoIndexing` (MC_Executor) | `Executor.cfg` with `Registry <- S3DRegistryNoIndexing`, `PROPERTY TasksEventuallyFinished` only and `CHECK_DEADLOCK FALSE` | An appid the executor did not register is handed out. `exec_task_function` falls off its end and task 5 is never finished. |
| `NodeLocalStale` | `DataTwoWriters.cfg` with `NodeOf <- NodeLocalStale` and `PROPERTY GetTerminates` only | Writer 3's location-aware put of cell 3 goes to server 0 and reaches entry 1 only through `ss_obj_update`. After both `put_sync`s, entry 1 can still answer not-found. `dcg_obj_filter` ignores `f_err`, posts no request for its empty list, and waits forever. |
| `NodeLocalStale` | `DataTwoWriters.cfg` with `NodeOf <- NodeLocalStale` and `INVARIANT GetOkCoversQuery` only | In the same layout, the get after both `put_sync`s combines entry 0, which lists writer 2's piece, with entry 1, which does not yet list cell 3. It returns success without cell 3. |
| `NodeLocalRace` | `DataTwoWriters.cfg` with `NodeOf <- NodeLocalRace` and `PROPERTY CQOwnPutNotified` only | The registrant's put goes to server 1, whose `ss_obj_update` can reach server 0 before the registration does. Server 0 checks the put against an empty query list, and the registrant is never notified. |
| `ProgShmemSpan` | `Shmem.cfg` with `PROPERTY GetTerminates` only and `CHECK_DEADLOCK FALSE` | A get from node 0 of an object that lies in both entries and is owned on node 1 waits forever for a second piece. `size_od` is 2 and one piece was asked for. |
 Each property of a
passing run has a mutant of the mapped code that TLC shows breaks it. The
mutants are the following:

- a read grant that is not counted;
- a contended read get that is neither granted nor queued;
- a writer admitted beside readers;
- a semaphore without quotas;
- a wait-list scan that stops at the first grant;
- an epoch bumped one too far;
- an owner that is not set;
- a duplicate descriptor not subtracted from `size_od`, or not detected at
  all;
- completion one piece early;
- a sync that does not wait;
- a CQ check on every DHT entry instead of the first;
- an `obj_cq_forward_register` that skips its own entry;
- a CQ check that skips a query whose template version equals the
  object's;
- a prefetch that also asks its own entry over the network, so a reply is
  counted twice;
- a prefetch that never marks a fully local fetch complete;
- a SHMEM data phase that does not halve `size_od`;
- a SHMEM cut loop without `qt_find_obj`;
- a split put whose `sync_op_id` is that of the first piece;
- a `syncop_next` that moves `next` on without clearing the slot;
- an executor loop that keeps the step counter of the last task;
- a `task_done` without its barrier;
- a `ptasks` lookup that stops one entry short;
- a barrier of `s3d_task` moved under `if (comm_rank == 0)`.

## Bounds

- **Lock runs.** There are at most two readers and two writers. `MaxRounds`
  is 2 for the generic lock and 3 for the semaphore. With these bounds every
  pair of request types meets in every order, including a release arriving
  while requests wait. For the semaphore, three rounds are needed to see an
  epoch wrap past the first writer round.
- **Data runs.** There are 2 servers and 4 cells. An object of 2 cells can
  therefore lie in one DHT entry or span both, and a query can cover one or
  two owners. Programs have at most four calls per client, which is enough
  to order a get after a sync or a remove.
  `data_two_writers` builds with location-aware writes and places each
  writer on the node of its default server (`NodeLocal`). Each put then
  takes the branch of `dcg_obj_put_to_server` and lands at its first DHT
  entry. The two layouts where a put lands elsewhere, `NodeLocalRace` and
  `NodeLocalStale`, break three properties. They are the reproductions in
  the table above.

- **SHMEM runs.** There are 2 servers on 2 nodes and 4 cells, with
  `shmem_max_size` 2 and one byte per cell. A four-cell put is then split
  in two pieces, and a three-cell put stays whole (`total_blocks` = 3/2 = 1)
  and spans both entries. The pass run has two peers: peer 2 on node 0 and
  peer 3 on node 1. This bound is set by liveness: checking `GetTerminates`
  costs about 10 ms per state, and three peers run past five minutes. The
  two peers still reach the shortcut, remote pieces, a duplicate and a
  twin copy. The ring of sync slots has `NumSyncSlots` = 2 in every data
  run, against 4095 in the code. No program has more than two pieces
  outstanding before a sync, so the ring never overflows, but the split
  put of the SHMEM run wraps it. With `NumSyncSlots` = 1 in `Shmem.cfg`,
  the two pieces share slot 0, and TLC finds `SyncedStored` violated: the
  first completion releases the sync while the second piece is in flight.

- **Prefetch runs.** There are 2 servers on 2 nodes, 4 cells, and three
  compute peers with two gets each. The pass run has two objects of version
  2: cells 0-1 and cell 2. Each of these cases is then reached by one peer:
  - nesting on server 0;
  - a remote piece;
  - an own entry that holds the box;
  - an own entry that is empty, after a not-found answer from the other
    server.

  The `mmap` failure needs a block layout that these stores do not produce.
  It is kept in the model but not reached.

- **Executor run.** There are two ranks and one step of `s3d_task`
  (`NumTs` = 1 instead of 10). That step makes four submissions, as in the
  code. `s3d_task` has two processes and each analysis task has one. Both
  ranks thus meet in the barriers of `s3d_task`, and the analysis tasks run
  two at a time in every assignment. Three ranks or two steps are too large
  for the liveness check, which would run past five minutes.

## Fairness

- Server event loops and client wait loops keep polling, so each handler and
  completion has weak fairness. The RPC layer is modelled as reliable.
- A group that holds a lock eventually releases it. This is weak fairness on
  the unlock calls, because the lock API is used in lock/compute/unlock
  sections.
- For the semaphore, progress needs every group to keep running its loop.
  `CohortSpec` adds weak fairness to taking the lock. The protocol is
  lock-step by design: a reader's round *k* waits for the writer's round *k*.
- Clients of the data model run their program calls under weak fairness.
- In `Prefetch`, every handler, `ResumeData` and `internal_obj_assemble`
  have weak fairness. This assumes that `ds_process` returns after each
  event and reports no error. With that assumption, the loops of
  `DS_WAIT_COMPLETION` and `while (!f_complete)` keep polling.

- In `Executor`, every rank action has weak fairness, because each rank
  is its own process. Handing out a pending task also has weak fairness,
  which assumes that the runtime answers a blocked `hstaging_request_task`
  while work is pending.

## Not modelled

- **The hstaging runtime.** It is not in the repository. Its dependency
  handling and placement are replaced by a set of pending tasks that may go
  to any blocked ranks. `hstaging_submit_task` is modelled as not blocking
  on the task it submits.
- **Executor tasks of the commented-out workflows.** These are `task1`-`task6`,
  `task_viz_render`, `task_fb_indexing`, and their data helpers
  (`read_input_data`, `write_output_data`, `set_data_decomposition`).

- **The compute-side registration call for continuous queries.** It is not
  in the sources, so it is modelled from the spec.
- **Prefetch.** The predictor's frequency map is abstracted as above. A
  segment's content is only whether it is filled. A piece that completes
  after its transaction is freed is a use-after-free, and the model drops
  that piece.
- **SHMEM segment contents and lifetime.** A segment is a name plus a
  filled or unfilled flag, not bytes. Pieces that start past `ub` in the
  split are listed as a hazard. `ssd_copy_list_shmem` assembles the pieces
  outside the sources. The SHMEM `qt_alloc_obj_data_shmem` and
  `qt_free_obj_data_shmem` only manage buffers and are not modelled.
- **Send failures and partial failures** inside the wait-list loops.
- **Configuration parsing and start-up.**
- **The dart transport.** Channels are reliable FIFO queues, one per pair
  of peers. The client's send of a put is completed in the same step as
  the server's `obj_put_completion`, which adds the object to `ls`. In the
  code the client's slot is set by its own send completion (dc 1541), and
  nothing in the sources orders that before the server's handler. This is
  an optimistic assumption. `SyncedStored`, `SegmentsReadFilled` and the
  premise of `RoundTrip` rest on it, and the hazard at dc 1541 records it.
- **nvars and metadata** (`dcg_obj_get_nvars`, `dcg_obj_get_varBuffer`,
  `dcg_obj_get_meta`): no caller in the sources. The filter's value
  (`ssd_filter`, outside the sources) is not modelled; only which pieces
  answer.

## Plan

Later work:

1. send failures in the grant loops;
2. a shared segment model between `DataSpace` and `Prefetch`, so that a
   prefetch and a client get can meet on one node;
3. an abstract store specification that the default-build get refines;
4. the `ss_info` start-up handshake (`dcg_ss_info`), which would only add a
   wait before each client's first call: the server count it returns is the
   constant `NumServers` in every module;
5. the filter's value reduction (`ssd_filter`), which needs element values
   rather than the cell ownership the model tracks.
