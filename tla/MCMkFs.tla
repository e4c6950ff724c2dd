-------------------------------- MODULE MCMkFs --------------------------------
(***************************************************************************)
(* Small clusters: up to two partitions, nodes and jobs, every way a reply *)
(* can be unusable, every pool size around what a tree needs, and the      *)
(* oddities one at a time.                                                 *)
(***************************************************************************)
EXTENDS MkFsPromises, TLC

MCBaseAlloc == 2

Reply(recs) == [state |-> "array", recs |-> recs]
NoReply(state) == [state |-> state, recs |-> <<>>]
Unusable == {NoReply(state) : state \in {"missing", "stale", "noarray"}}
Some(a, b) == {Reply(<<>>), Reply(<<a>>), Reply(<<a, b>>), Reply(<<a, a>>)}

Ample == 110
Plain == [debug |-> FALSE, maxalloc |-> Ample, cname |-> "c1", alloc |-> FALSE,
          badattr |-> {}, part |-> Reply(<<"p1", "p2">>), node |-> Reply(<<"n1", "n2">>),
          job |-> Reply(<<"j1", "j2">>), step |-> Reply(<<>>)]

\* Every combination of replies of the partitions and nodes, then of the jobs
\* and steps.
PartsAndNodes ==
    {[Plain EXCEPT !.debug = d, !.part = p, !.node = n] :
        d \in BOOLEAN, p \in Unusable \cup Some("p1", "p2"),
        n \in Unusable \cup Some("n1", "n2")}
JobsAndSteps ==
    {[Plain EXCEPT !.debug = d, !.part = Reply(<<"p1">>), !.node = Reply(<<>>),
                   !.job = j, !.step = st] :
        d \in BOOLEAN,
        j \in Unusable \cup Some("j1", "j2")
              \cup {Reply(<<"j1", "j1", "j2", "j2">>), Reply(<<"j1", "j1", "j2", "j1">>)},
        st \in Unusable \cup Some("s1", "s2")}
PoolSizes == {[Plain EXCEPT !.maxalloc = m] : m \in 4 .. Ample}
Oddities ==
    {[Plain EXCEPT !.debug = d, !.cname = c, !.alloc = a, !.badattr = b, !.node = n] :
        d \in BOOLEAN, c \in {"c1", "control"}, a \in BOOLEAN,
        b \in {{}, {"PARTNAME"}, {"NODENAME"}}, n \in Some("n1", "n2")}
    \cup {[Plain EXCEPT !.debug = d, !.badattr = {"JOBID", "JOBSTEPID"}, !.step = st] :
            d \in BOOLEAN, st \in Some("s1", "s2")}

\* One partition, more and more nodes, no job, and the pool of the estimate.
Grown ==
    LET Cluster(n) == [Plain EXCEPT !.debug = TRUE, !.part = Reply(<<"p1">>),
                                    !.node = Reply([j \in 1 .. n |-> "n" \o ToString(j)]),
                                    !.job = Reply(<<>>)]
    IN {[Cluster(10 * n) EXCEPT !.maxalloc = rn_poolinit(calcul_rnodepool(Cluster(10 * n)))] :
            n \in 2 .. 3}

MCInputs == PartsAndNodes \cup JobsAndSteps \cup PoolSizes \cup Oddities
=============================================================================
