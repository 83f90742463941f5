----------------------------- MODULE MC_Executor -----------------------------
(* dummy_s3d_analysis_workflow on two MPI ranks: s3d_task on both        *)
(* submits, in each of its steps, one task of each analysis .conf, which  *)
(* the ranks then run, each on its own, once s3d_task is done.            *)
EXTENDS Executor

CONSTANTS r0, r1
MCRanks == {r0, r1}

S3DRegistry ==
    (1 :> "s3d_task") @@ (2 :> "s3d_viz_task") @@ (3 :> "s3d_stat_task")
    @@ (4 :> "s3d_topo_task") @@ (5 :> "s3d_indexing_task")

\* A registry that lacks s3d_indexing_task: an appid the runtime may hand
\* out but exec_task_function does not know.
S3DRegistryNoIndexing == [a \in 1..4 |-> S3DRegistry[a]]

S3DInitial == {Task(1, 1, 2)}

S3DSubmits == << 2, 3, 4, 5 >>
=============================================================================
