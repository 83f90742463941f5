---------------------------- MODULE SharedSpace ----------------------------
(***************************************************************************)
(* The shared space both the store model (DataSpace) and the prefetch     *)
(* model (Prefetch) read: the one-dimensional global domain, split into   *)
(* one DHT entry per server rank, the box geometry of bbox.h (struct bbox *)
(* with inclusive bounds, the max and min macros) and bbox.c, and the     *)
(* hash, DHT and local-store functions of ss_data.c.  bbox.c and          *)
(* ss_data.c are not among the sources, so their operators are modelled   *)
(* from their contract.                                                    *)
(***************************************************************************)
EXTENDS Integers, Sequences, SequencesExt, FiniteSets

CONSTANTS
    NumServers,   \* dsg->ds->size_sp: server ranks are 0 .. NumServers-1
    NumCells      \* extent of the global domain

ASSUME NumServers \in Nat \ {0} /\ NumCells \in Nat \ {0}

Servers == 0 .. NumServers - 1
Cells   == 0 .. NumCells - 1

-----------------------------------------------------------------------------
(* Geometry: inclusive one-dimensional boxes.                              *)

\* struct bbox: lb and ub are both inside the box.
BoxCells(b) == b.lb .. b.ub
Intersects(a, b) == a.lb <= b.ub /\ b.lb <= a.ub
\* the max and min macros of bbox.h
Larger(a, b) == IF a >= b THEN a ELSE b
Smaller(a, b) == IF a <= b THEN a ELSE b

\* bbox_intersect(&query, &odsc.bb, &odsc.bb): the descriptor cut to the query.
bbox_intersect(q, d) ==
    [d EXCEPT !.lb = Larger(q.lb, d.lb), !.ub = Smaller(q.ub, d.ub)]

(* The shared space of ss_data.c, which is not among the sources: the     *)
(* hash, the DHT entry and the local store, modelled from their contract. *)

\* The DHT entry (server rank) whose sub-domain holds cell x.
EntryOf(x) == (x * NumServers) \div NumCells

\* ssd_hash: the ranks whose sub-domain intersects the box, in rank order.
ssd_hash(b) == SetToSortSeq({EntryOf(x) : x \in BoxCells(b)}, <)

\* obj_desc_equals: full equality of descriptors, owner included.
obj_desc_equals(a, b) == a = b

\* dht_add_entry: a descriptor equal to od up to the owner is replaced.
dht_add_entry(de, od) ==
    {d \in de : ~(d.v = od.v /\ d.lb = od.lb /\ d.ub = od.ub)} \cup {od}

\* dht_find_entry_all: the stored descriptors of the query's version whose
\* box intersects the query box.
dht_find_entry_all(de, q) == {d \in de : d.v = q.v /\ Intersects(d, q)}

\* ls_find: whether the local store holds an object of the version asked
\* for that intersects the box asked for.
ls_find(ls, od) == \E o \in ls : o.v = od.v /\ Intersects(o, od)

ls_add_obj(ls, od) == ls \cup {od}

\* convert_to_string: a shared-memory segment is named by the variable,
\* the version and the box of a descriptor, not by its owner.
ShmName(d) == [v |-> d.v, lb |-> d.lb, ub |-> d.ub]

\* dcg_which_peer: the default server of a compute peer.
dcg_which_peer(c) == c % NumServers
=============================================================================
