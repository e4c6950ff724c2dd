----------------------------- MODULE MkFsPromises -----------------------------
(***************************************************************************)
(* What comments in the source say of the tree that mk_fs() builds and     *)
(* what the code does not do.  Each is a formula that some behaviour of    *)
(* MkFs violates; the runs keep the shortest such behaviour at hand.       *)
(***************************************************************************)
EXTENDS MkFs

\* lib/rnode/rn_mkjob.c:207: "slurm info job array entry was squirreled away
\* by the RND_JOBS setup".  rn_mkjobid() takes it from the directory of all
\* jobs and not from its node, so every job shows the first record.
JobShowsOwnRecord ==
    \A d \in Slots : rn[d].rtype = "JOBS" /\ status = "mounted" =>
        \A s \in Listed(d) : rn[s].dyn = s - rn[d].children + 1

\* lib/rnode/rn_mkjob.c:225: a job's directory has "jobsteps", "attributes"
\* and "control".  In no mounted tree has a job the last two.
JobDirsBuilt ==
    status = "mounted" =>
        \A s \in Slots : rn[s].rtype = "JOBID" /\ Named(s) =>
            {rn[k].nm : k \in Kids(s)} = {"jobsteps", "attributes", "control"}

\* lib/collect/calcul.c:93: the size of the pool is a "heurestic, assuming nodes
\* used exclusively so 1 job / node plus overhead".  With the pool it gives, a
\* cluster that nothing else keeps from being mounted is mounted.  The tree has
\* a directory, an attribute directory and its attributes for every node of
\* every partition, and from some thirty nodes on the pool ends before the tree,
\* even with the short tables of this model.
EstimateSuffices ==
    in.maxalloc = rn_poolinit(calcul_rnodepool(in)) /\ Buildable => status # "exited"
=============================================================================
