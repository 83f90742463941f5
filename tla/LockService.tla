---------------------------- MODULE LockService ----------------------------
(***************************************************************************)
(* The DataSpaces locking service: one named lock kept by server rank 0    *)
(* (src/src/ds_gspace.c, dsgrpc_lock_service and the lock_* / sem_*        *)
(* strategies) and the compute-side API that drives it                     *)
(* (src/src/dc_gspace.c, dcg_lock_on_read ... dcg_unlock_on_write).        *)
(*                                                                         *)
(* A client is the master rank of one application group: the other ranks   *)
(* of the group only meet it at a barrier, so the group acts as one peer.  *)
(* Requests travel client -> server and grants server -> client over the  *)
(* RPC layer; each direction between one pair of peers is FIFO.            *)
(*                                                                         *)
(* LockType selects the strategy fixed at server start-up by ds_conf:      *)
(* "generic" (lock_type = 1) or "custom" (the epoch semaphore).            *)
(***************************************************************************)
EXTENDS Integers, Sequences, FiniteSets

CONSTANTS
  Readers,      \* application groups that only take the lock for reading
  Writers,      \* application groups that only take the lock for writing
  LockType,     \* "generic" | "custom"
  MaxReaders,   \* ds_conf.max_readers, the rd_max of the custom lock
  MaxRounds     \* bound: lock/unlock cycles each group performs

ASSUME Readers \cap Writers = {}
ASSUME LockType \in {"generic", "custom"}
ASSUME MaxReaders \in Nat \ {0} /\ MaxRounds \in Nat \ {0}

Clients == Readers \cup Writers

VARIABLES
  dl,       \* struct dsg_lock on the server, without its wait list
  wait,     \* dl->wait_list: copies of the requests that could not be served
  reqs,     \* reqs[c]: lock/unlock requests from c in flight to the server
  grants,   \* grants[c]: lk_grant replies in flight to c
  pc,       \* where client c is in the lock API
  lockNum,  \* struct dcg_lock.lock_num of client c
  rounds,   \* lock requests c has issued (bounded by MaxRounds)
  nRdGrant, \* history: read grants the server has sent
  nWrGrant  \* history: write grants the server has sent

vars == <<dl, wait, reqs, grants, pc, lockNum, rounds, nRdGrant, nWrGrant>>

RequestType == {"read_get", "read_release", "write_get", "write_release"}
Request == [type : RequestType, id : Clients, lock_num : 0..MaxRounds]
LockAction == {"none", "wait", "grant", "notify"}
ClientState == {"idle", "rd_wait", "wr_wait", "rd_held", "wr_held"}

----------------------------------------------------------------------------
(* Lock state: dsg_lock_alloc zeroes the record, then calls init.          *)

ZeroLock == [rd_lock_state |-> "unlocked", wr_lock_state |-> "unlocked",
             rd_cnt |-> 0, wr_cnt |-> 0, rd_max |-> 0, wr_max |-> 0,
             rd_epoch |-> 0, wr_epoch |-> 0,
             rd_notify_cnt |-> 0, wr_notify_cnt |-> 0]

lock_init(d) ==
  [d EXCEPT !.rd_lock_state = "unlocked", !.wr_lock_state = "unlocked",
            !.rd_cnt = 0, !.wr_cnt = 0]

sem_init(d, max_readers) ==
  [d EXCEPT !.wr_max = 1, !.rd_max = max_readers, !.wr_cnt = 1, !.rd_cnt = 0,
            !.wr_notify_cnt = 0, !.rd_notify_cnt = 0,
            !.rd_epoch = 0, !.wr_epoch = 0]

dsg_lock_alloc ==
  IF LockType = "generic" THEN lock_init(ZeroLock)
                          ELSE sem_init(ZeroLock, MaxReaders)

Outcome(act, d) == [act |-> act, dl |-> d]

----------------------------------------------------------------------------
(* lock_process_request: the generic multi-reader / single-writer lock,   *)
(* one operator per request type.  A get that cannot be granted answers    *)
(* la_wait; a release that is not the last answers la_none.               *)

\* mutant: a read grant that does not count the reader in
LockReadGetNoCount(d, may_grant) ==
  IF d.wr_lock_state = "unlocked" /\ may_grant
  THEN Outcome("grant", [d EXCEPT !.rd_lock_state = "locked"])
  ELSE Outcome("wait", d)

\* Mutant of lock_process_request's read_get: the "else f_lock = la_wait" branch
\* is dropped, so a contended read get is neither granted nor queued.
LockReadGetDrop(d, may_grant) ==
  IF d.wr_lock_state = "unlocked" /\ may_grant
  THEN Outcome("grant", [d EXCEPT !.rd_lock_state = "locked", !.rd_cnt = @ + 1])
  ELSE Outcome("none", d)

LockReadGet(d, may_grant) ==
  IF d.wr_lock_state = "unlocked" /\ may_grant
  THEN Outcome("grant", [d EXCEPT !.rd_lock_state = "locked", !.rd_cnt = @ + 1])
  ELSE Outcome("wait", d)

LockReadRelease(d) ==
  LET d1 == [d EXCEPT !.rd_cnt = @ - 1] IN
  IF d1.rd_cnt = 0 THEN Outcome("notify", [d1 EXCEPT !.rd_lock_state = "unlocked"])
                   ELSE Outcome("none", d1)

\* mutant: a writer admitted while readers still hold the lock
LockWriteGetNoReaderCheck(d) ==
  IF d.wr_cnt = 0
  THEN Outcome("grant", [d EXCEPT !.wr_lock_state = "locked", !.wr_cnt = @ + 1])
  ELSE Outcome("wait", d)

LockWriteGet(d) ==
  IF d.rd_lock_state = "unlocked" /\ d.wr_cnt = 0
  THEN Outcome("grant", [d EXCEPT !.wr_lock_state = "locked", !.wr_cnt = @ + 1])
  ELSE Outcome("wait", d)

LockWriteRelease(d) ==
  LET d1 == [d EXCEPT !.wr_cnt = @ - 1] IN
  IF d1.wr_cnt = 0 THEN Outcome("notify", [d1 EXCEPT !.wr_lock_state = "unlocked"])
                   ELSE Outcome("none", d1)

lock_process_request(d, lh, may_grant) ==
  CASE lh.type = "read_get"      -> LockReadGet(d, may_grant)
    [] lh.type = "read_release"  -> LockReadRelease(d)
    [] lh.type = "write_get"     -> LockWriteGet(d)
    [] lh.type = "write_release" -> LockWriteRelease(d)

(* lock_process_wait_list: serve the wait list from its head, granting     *)
(* until the first request that has to wait.  Returns the new lock state,  *)
(* the requests left waiting and the set of requests granted.             *)
RECURSIVE lock_process_wait_list(_, _)
lock_process_wait_list(d, w) ==
  IF w = <<>> THEN [dl |-> d, wait |-> w, granted |-> {}]
  ELSE LET r == lock_process_request(d, Head(w), TRUE) IN
       IF r.act \in {"none", "wait"}
       THEN [dl |-> r.dl, wait |-> w, granted |-> {}]
       ELSE LET rest == lock_process_wait_list(r.dl, Tail(w)) IN
            IF r.act = "grant" THEN [rest EXCEPT !.granted = @ \cup {Head(w)}]
                               ELSE rest

(* lock_service: may_grant is "the wait list is empty"; la_wait puts a   *)
(* copy of the request at the tail of the wait list, la_none does nothing. *)
lock_service(d, w, lh) ==
  LET r == lock_process_request(d, lh, w = <<>>) IN
  CASE r.act = "none"   -> [dl |-> r.dl, wait |-> w, granted |-> {}]
    [] r.act = "wait"   -> [dl |-> r.dl, wait |-> Append(w, lh), granted |-> {}]
    [] r.act = "notify" -> lock_process_wait_list(r.dl, w)
    [] r.act = "grant"  -> [dl |-> r.dl, wait |-> w, granted |-> {lh}]

----------------------------------------------------------------------------
(* sem_process_request: the epoch semaphore ("custom" lock).  A get is     *)
(* granted only while its mode has quota left and the request carries the *)
(* current epoch of that mode; the last release of a round refills the    *)
(* other mode's quota and advances this mode's epoch.                     *)

\* mutant: a read get that checks the epoch but not the quota
SemReadGetNoQuota(d, lh) ==
  IF lh.lock_num = d.rd_epoch
  THEN Outcome("grant", [d EXCEPT !.rd_cnt = @ - 1]) ELSE Outcome("wait", d)

SemReadGet(d, lh) ==
  IF d.rd_cnt > 0 /\ lh.lock_num = d.rd_epoch
  THEN Outcome("grant", [d EXCEPT !.rd_cnt = @ - 1]) ELSE Outcome("wait", d)

SemReadRelease(d) ==
  IF d.rd_notify_cnt + 1 = d.rd_max
  THEN Outcome("notify", [d EXCEPT !.rd_notify_cnt = 0, !.wr_cnt = d.wr_max,
                                   !.rd_epoch = @ + 1])
  ELSE Outcome("none", [d EXCEPT !.rd_notify_cnt = @ + 1])

\* mutant: a write get that checks the epoch but not the quota
SemWriteGetNoQuota(d, lh) ==
  IF lh.lock_num = d.wr_epoch
  THEN Outcome("grant", [d EXCEPT !.wr_cnt = @ - 1]) ELSE Outcome("wait", d)

SemWriteGet(d, lh) ==
  IF d.wr_cnt > 0 /\ lh.lock_num = d.wr_epoch
  THEN Outcome("grant", [d EXCEPT !.wr_cnt = @ - 1]) ELSE Outcome("wait", d)

\* mutant: the end of a write round refills one read too many
SemWriteReleaseOffByOne(d) ==
  IF d.wr_notify_cnt + 1 = d.wr_max
  THEN Outcome("notify", [d EXCEPT !.wr_notify_cnt = 0, !.rd_cnt = d.rd_max + 1,
                                   !.wr_epoch = @ + 1])
  ELSE Outcome("none", [d EXCEPT !.wr_notify_cnt = @ + 1])

SemWriteRelease(d) ==
  IF d.wr_notify_cnt + 1 = d.wr_max
  THEN Outcome("notify", [d EXCEPT !.wr_notify_cnt = 0, !.rd_cnt = d.rd_max,
                                   !.wr_epoch = @ + 1])
  ELSE Outcome("none", [d EXCEPT !.wr_notify_cnt = @ + 1])

sem_process_request(d, lh, may_grant) ==
  CASE lh.type = "read_get"      -> SemReadGet(d, lh)
    [] lh.type = "read_release"  -> SemReadRelease(d)
    [] lh.type = "write_get"     -> SemWriteGet(d, lh)
    [] lh.type = "write_release" -> SemWriteRelease(d)

\* mutant: the wait-list scan returns after its first grant (the
\* commented-out `return 0` in sem_process_wait_list)
RECURSIVE SemWaitListFirstGrantOnly(_, _)
SemWaitListFirstGrantOnly(d, w) ==
  IF w = <<>> THEN [dl |-> d, wait |-> w, granted |-> {}]
  ELSE LET r == sem_process_request(d, Head(w), TRUE) IN
       IF r.act = "grant"
       THEN [dl |-> r.dl, wait |-> Tail(w), granted |-> {Head(w)}]
       ELSE LET rest == SemWaitListFirstGrantOnly(r.dl, Tail(w)) IN
            [rest EXCEPT !.wait = <<Head(w)>> \o @]

(* sem_process_wait_list: walk the whole wait list in order, granting and *)
(* unlinking every request the current state admits (the loop does not    *)
(* stop after the first grant: its `break` only leaves the switch).       *)
RECURSIVE sem_process_wait_list(_, _)
sem_process_wait_list(d, w) ==
  IF w = <<>> THEN [dl |-> d, wait |-> w, granted |-> {}]
  ELSE LET r    == sem_process_request(d, Head(w), TRUE)
           rest == sem_process_wait_list(r.dl, Tail(w))
       IN IF r.act = "grant"
          THEN [rest EXCEPT !.granted = @ \cup {Head(w)}]
          ELSE [rest EXCEPT !.wait = <<Head(w)>> \o @]

(* sem_service: calls sem_process_request with may_grant = 0, which the   *)
(* semaphore ignores.                                                     *)
sem_service(d, w, lh) ==
  LET r == sem_process_request(d, lh, FALSE) IN
  CASE r.act = "none"   -> [dl |-> r.dl, wait |-> w, granted |-> {}]
    [] r.act = "wait"   -> [dl |-> r.dl, wait |-> Append(w, lh), granted |-> {}]
    [] r.act = "notify" -> sem_process_wait_list(r.dl, w)
    [] r.act = "grant"  -> [dl |-> r.dl, wait |-> w, granted |-> {lh}]

(* dl->service, chosen by dsg_lock_alloc from ds_conf.lock_type.          *)
Service(d, w, lh) ==
  IF LockType = "generic" THEN lock_service(d, w, lh) ELSE sem_service(d, w, lh)

(* dsg_lock_grant: the reply carries the request's lock_num + 1.          *)
GrantFor(lh) == [lock_num |-> lh.lock_num + 1]

Deliver(g, granted) ==
  [c \in Clients |->
     IF \E lh \in granted : lh.id = c
     THEN Append(g[c], GrantFor(CHOOSE lh \in granted : lh.id = c))
     ELSE g[c]]

CountGranted(granted, t) == Cardinality({lh \in granted : lh.type = t})

----------------------------------------------------------------------------
(* Server: dsgrpc_lock_service handles the next request from client c.    *)
(* The lock record exists from Init on: it is allocated, zeroed and       *)
(* initialised on the first request, which no other step can observe.     *)
dsgrpc_lock_service(c) ==
  /\ reqs[c] # <<>>
  /\ LET lh == Head(reqs[c])
         s  == Service(dl, wait, lh)
     IN /\ dl' = s.dl
        /\ wait' = s.wait
        /\ grants' = Deliver(grants, s.granted)
        /\ nRdGrant' = nRdGrant + CountGranted(s.granted, "read_get")
        /\ nWrGrant' = nWrGrant + CountGranted(s.granted, "write_get")
  /\ reqs' = [reqs EXCEPT ![c] = Tail(@)]
  /\ UNCHANGED <<pc, lockNum, rounds>>

(* Client: dcg_lock_request sends a request carrying lock->lock_num.      *)
SendRequest(c, t) == reqs' = [reqs EXCEPT ![c] = Append(@, [type |-> t, id |-> c,
                                                          lock_num |-> lockNum[c]])]

(* dcg_lock_on_read / dcg_lock_on_write, up to the wait for the ack.       *)
dcg_lock_on_read(c) ==
  /\ c \in Readers /\ pc[c] = "idle" /\ rounds[c] < MaxRounds
  /\ SendRequest(c, "read_get")
  /\ pc' = [pc EXCEPT ![c] = "rd_wait"]
  /\ rounds' = [rounds EXCEPT ![c] = @ + 1]
  /\ UNCHANGED <<dl, wait, grants, lockNum, nRdGrant, nWrGrant>>

dcg_lock_on_write(c) ==
  /\ c \in Writers /\ pc[c] = "idle" /\ rounds[c] < MaxRounds
  /\ SendRequest(c, "write_get")
  /\ pc' = [pc EXCEPT ![c] = "wr_wait"]
  /\ rounds' = [rounds EXCEPT ![c] = @ + 1]
  /\ UNCHANGED <<dl, wait, grants, lockNum, nRdGrant, nWrGrant>>

(* dcgrpc_lock_service on the client: the grant sets lock_num and ack,    *)
(* which ends the wait loop of dcg_lock_on_*; the group then passes the   *)
(* barrier holding the lock.                                              *)
dcgrpc_lock_service(c) ==
  /\ grants[c] # <<>>
  /\ lockNum' = [lockNum EXCEPT ![c] = Head(grants[c]).lock_num]
  /\ grants' = [grants EXCEPT ![c] = Tail(@)]
  /\ pc' = [pc EXCEPT ![c] = IF @ = "rd_wait" THEN "rd_held" ELSE "wr_held"]
  /\ UNCHANGED <<dl, wait, reqs, rounds, nRdGrant, nWrGrant>>

(* dcg_unlock_on_read / dcg_unlock_on_write: barrier, then the release is  *)
(* sent and the call returns without waiting for any reply.               *)
dcg_unlock_on_read(c) ==
  /\ pc[c] = "rd_held"
  /\ SendRequest(c, "read_release")
  /\ pc' = [pc EXCEPT ![c] = "idle"]
  /\ UNCHANGED <<dl, wait, grants, lockNum, rounds, nRdGrant, nWrGrant>>

dcg_unlock_on_write(c) ==
  /\ pc[c] = "wr_held"
  /\ SendRequest(c, "write_release")
  /\ pc' = [pc EXCEPT ![c] = "idle"]
  /\ UNCHANGED <<dl, wait, grants, lockNum, rounds, nRdGrant, nWrGrant>>

(* Every group has done its MaxRounds cycles and all messages are served. *)
Finished ==
  /\ \A c \in Clients : pc[c] = "idle" /\ rounds[c] = MaxRounds
                        /\ reqs[c] = <<>> /\ grants[c] = <<>>
  /\ UNCHANGED vars

Init ==
  /\ dl = dsg_lock_alloc
  /\ wait = <<>>
  /\ reqs = [c \in Clients |-> <<>>]
  /\ grants = [c \in Clients |-> <<>>]
  /\ pc = [c \in Clients |-> "idle"]
  /\ lockNum = [c \in Clients |-> 0]
  /\ rounds = [c \in Clients |-> 0]
  /\ nRdGrant = 0
  /\ nWrGrant = 0

Next ==
  \/ \E c \in Clients :
       \/ dsgrpc_lock_service(c)
       \/ dcg_lock_on_read(c) \/ dcg_lock_on_write(c)
       \/ dcgrpc_lock_service(c)
       \/ dcg_unlock_on_read(c) \/ dcg_unlock_on_write(c)
  \/ Finished

(* The server's event loop and the client's ack wait loop keep polling    *)
(* (WF); an application that holds the lock releases it eventually (WF on  *)
(* the unlock calls).  Taking the lock is the application's choice.       *)
Fairness ==
  \A c \in Clients :
     /\ WF_vars(dsgrpc_lock_service(c))
     /\ WF_vars(dcgrpc_lock_service(c))
     /\ WF_vars(dcg_unlock_on_read(c))
     /\ WF_vars(dcg_unlock_on_write(c))

Spec == Init /\ [][Next]_vars /\ Fairness

(* The epoch semaphore is a lock-step coupling protocol: a reader's k-th   *)
(* request can only be granted after the writer's k-th write round.  Its  *)
(* progress therefore rests on every group of the cohort running its      *)
(* iteration loop to the end, i.e. taking the lock again (WF).            *)
CohortSpec ==
  /\ Spec
  /\ \A c \in Clients : WF_vars(dcg_lock_on_read(c)) /\ WF_vars(dcg_lock_on_write(c))

----------------------------------------------------------------------------
(* Properties                                                              *)

TypeOK ==
  /\ dl.rd_lock_state \in {"locked", "unlocked"}
  /\ dl.wr_lock_state \in {"locked", "unlocked"}
  /\ {dl.rd_cnt, dl.wr_cnt, dl.rd_epoch, dl.wr_epoch} \subseteq Nat
  /\ wait \in Seq(Request)
  /\ \A c \in Clients : reqs[c] \in Seq(Request) /\ grants[c] \in Seq([lock_num : Nat])
  /\ pc \in [Clients -> ClientState]
  /\ lockNum \in [Clients -> Nat]

(* Reader/writer exclusion as the applications see it: while one group    *)
(* holds the lock for writing (it got its grant and has not called        *)
(* dcg_unlock_on_write) no other group holds it at all.  Grants and       *)
(* releases are asynchronous messages, so this relates the server's       *)
(* counters to replies still in flight.                                   *)
RWExclusion ==
  \A c \in Clients : pc[c] = "wr_held" =>
     \A o \in Clients \ {c} : pc[o] \notin {"rd_held", "wr_held"}

(* No lost wake-up in the epoch semaphore: no request sits in the wait    *)
(* list while the lock's current state would grant it.  sem_service only  *)
(* rescans the list on the release that ends a round, so a request queued *)
(* in the wrong order, or a scan that stops early, leaves one stranded.    *)
NoStrandedWaiter ==
  \A i \in 1..Len(wait) : sem_process_request(dl, wait[i], TRUE).act = "wait"

(* Epoch semaphore rounds: the server hands out write and read grants in  *)
(* strict rounds W R^rd_max W R^rd_max ...: after k write grants there are *)
(* between rd_max*(k-1) and rd_max*k read grants.                          *)
AlternatingRounds ==
  /\ nRdGrant <= MaxReaders * nWrGrant
  /\ MaxReaders * (nWrGrant - 1) <= nRdGrant

(* The lock service implements the reader/writer lock of RWLock: mapping  *)
(* each group's position in the lock API (dcg_lock_on_read/_write waiting *)
(* on lock->ack, holding after dcgrpc_lock_service, idle after the       *)
(* unlock calls) to the abstract sets, every step of server and         *)
(* clients is a step of RWLock or leaves those sets alone: a group sees a *)
(* grant only when no other group holds the lock for writing, and for a   *)
(* write only when none holds it for reading, although the server decided *)
(* on counters that releases still in flight have not yet reached.         *)
Abstract == INSTANCE RWLock WITH
  Groups    <- Clients,
  ReaderCap <- IF LockType = "custom" THEN MaxReaders ELSE Cardinality(Clients),
  rdAsk     <- {c \in Clients : pc[c] = "rd_wait"},
  wrAsk     <- {c \in Clients : pc[c] = "wr_wait"},
  readers   <- {c \in Clients : pc[c] = "rd_held"},
  writers   <- {c \in Clients : pc[c] = "wr_held"}

LockRefinesRWLock == Abstract!ASpec

(* Every group that asked for the lock eventually holds it.               *)
LockEventuallyGranted ==
  \A c \in Clients :
     (pc[c] \in {"rd_wait", "wr_wait"}) ~> (pc[c] \in {"rd_held", "wr_held"})

=============================================================================
