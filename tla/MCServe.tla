------------------------------- MODULE MCServe -------------------------------
(***************************************************************************)
(* Small mounted trees and the requests made of them: every operation on   *)
(* every path of a tree and on paths that are not there, one at a time;    *)
(* and a few requests two at a time on the smallest tree.                  *)
(***************************************************************************)
EXTENDS ServePromises

MCBaseAlloc == 2
MCClients == {1, 2}
MCMaxDrift == 1
MCMaxDamage == 1
MCWord == 2 ^ 16

Recs(recs) == [state |-> "array", recs |-> recs]
Ordinary == [debug |-> TRUE, maxalloc |-> 110, cname |-> "c1", alloc |-> FALSE, badattr |-> {},
             part |-> Recs(<<"p1">>), node |-> Recs(<<"n1", "n2">>),
             job |-> Recs(<<"j1", "j2">>), step |-> Recs(<<>>)]

\* Entries with the names of their directories.
Shadowed == [Ordinary EXCEPT !.cname = "jobs", !.part = Recs(<<"partitions", "p1">>),
                             !.node = Recs(<<"nodes">>), !.job = Recs(<<"j1">>)]
\* A job twice, and strangers are kept out.
Repeated == [Ordinary EXCEPT !.debug = FALSE, !.node = Recs(<<>>),
                             !.job = Recs(<<"j1", "j1", "j2">>)]
\* The pool ends with the tree, or one slot after it.
Bare == [Ordinary EXCEPT !.part = Recs(<<>>), !.node = Recs(<<>>), !.job = Recs(<<>>)]
Tight == {[Bare EXCEPT !.maxalloc = Needs(Bare) + more] : more \in {0, 1, 2}}
TooSmall == [Bare EXCEPT !.maxalloc = Needs(Bare) - 1]
\* Two handlers at a time.
Shared == [Bare EXCEPT !.part = Recs(<<"p1">>)]

MCInputs == {Ordinary, Shadowed, Repeated, Shared, TooSmall} \cup Tight
MCThreads(x) == IF x = Shared THEN 2 ELSE 1

-----------------------------------------------------------------------------
Request(op, path) ==
    [op |-> op, path |-> path, acc |-> IF op = "write" THEN "w" ELSE "r", size |-> 64,
     name |-> "context", uid |-> "root"]

AttrNames(rtype) == {AttrTab[rtype][j].nm : j \in DOMAIN AttrTab[rtype]}
Under(paths, names) == {path \o <<nm>> : path \in paths, nm \in names \cup {"nosuch"}}
NamesOf(msg) == {msg.recs[j] : j \in DOMAIN msg.recs}

\* Every path of the tree, and one wrong name in every directory.
PathsOf(x) ==
    LET parts == Under({<<"partitions">>}, NamesOf(x.part) \cup {"partitions"})
        nodes == Under({p \o <<"nodes">> : p \in parts}, NamesOf(x.node) \cup {"nodes"})
        jobs == Under({<<"jobs">>}, NamesOf(x.job) \cup {"jobs"})
    IN {<<>>} \cup Under({<<>>}, {"attributes", "partitions", "jobs", x.cname})
       \cup Under({<<"attributes">>}, AttrNames("CLUSTER") \cup {"attributes"})
       \cup parts \cup Under(parts, {"nodes", "attributes"})
       \cup Under({p \o <<"attributes">> : p \in parts}, AttrNames("PARTNAME"))
       \cup nodes \cup Under(nodes, {"attributes"})
       \cup Under({n \o <<"attributes">> : n \in nodes}, AttrNames("NODENAME"))
       \cup Under({n \o <<"attributes", "allocjob">> : n \in nodes}, {})
       \cup jobs \cup Under(jobs, {"jobsteps"})
       \cup Under({j \o <<"jobsteps">> : j \in jobs}, {"jobsteps"})

\* Every operation on a path, with every access mode, size and name.
Everything(x, path) ==
    {r \in {[Request(op, path) EXCEPT !.acc = acc, !.size = size, !.name = name, !.uid = uid] :
              op \in Ops, acc \in {"r", "w"}, size \in {2, 64},
              name \in {"context", "prefix", "other"},
              uid \in IF x.debug THEN {"user"} ELSE {"slurm", "slurmd", "user"}} :
        /\ r.op # "open" => (r.acc = "w" <=> r.op = "write")
        /\ r.op \notin {"read", "getxattr", "listxattr", "setxattr"} => r.size = 64
        /\ r.op \notin {"getxattr", "setxattr"} => r.name = "other"
        \* contexts are stored in the shared tree only
        /\ ~StoresContext(r)}

\* Two at a time: the handlers with lock sections, and a file that is read
\* while a security context is stored.
Together ==
    LET file == <<"attributes", "SlurmctldTimeout">>
    IN {Request("readdir", <<"partitions">>), Request("statfs", <<>>),
        Request("read", file), [Request("setxattr", file) EXCEPT !.size = 9]}

AsksOf == [x \in MCInputs |->
             IF x = Shared THEN Together
             ELSE IF x = TooSmall THEN {}
             ELSE UNION {Everything(x, path) : path \in PathsOf(x)}]
MCAsks(x) == AsksOf[x]
=============================================================================
