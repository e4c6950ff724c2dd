----------------------------- MODULE ClusterView -----------------------------
(***************************************************************************)
(* What rmfs promises a user of the mounted file system: the answer to     *)
(* every request is a function of what the resource manager replied when   *)
(* the program started, however many requests are served at a time.  There *)
(* are no rnodes, slots, handlers or locks here.                           *)
(*                                                                         *)
(* Three things are less than a user may hope for, and are part of what is *)
(* promised.  A directory of jobs shows them only up to the first that     *)
(* repeats an identifier.  An entry with the name of its own directory     *)
(* cannot be reached: the path shows the directory.  And storing a         *)
(* security context may change any content, or end the program.            *)
(***************************************************************************)
EXTENDS Naturals, Sequences

CONSTANTS
    Clients,
    Inputs,
    Asks(_),   \* the requests that are made of a file system with these inputs
    Attrs      \* the attributes of a cluster, a partition and a node, in order

VARIABLES
    cluster,   \* the inputs of this run
    state,     \* "waiting", "open" or "closed"
    asked,     \* the request each client waits for
    shown,     \* the answer each client has
    spoilt     \* a security context has been stored

viewVars == <<cluster, state, asked, shown, spoilt>>

Ans(err, shows) == [err |-> err, shows |-> shows]
Plain == [nothing |-> TRUE]      \* an answer that shows nothing more
NoRequest == [op |-> "none"]
NoAnswer == Ans("none", Plain)

-----------------------------------------------------------------------------
(* Places: the directories and files that a user can tell apart.  of is the *)
(* kind of record whose attributes a place shows, and rec the record.       *)

Place(kind, of, rec) == [kind |-> kind, of |-> of, rec |-> rec]
Bare(kind) == Place(kind, "none", 0)   \* a place that shows no record
Entry(nm, place) == [nm |-> nm, place |-> place]
Nowhere == Bare("nowhere")
Root == Place("cluster", "CLUSTER", 1)
OneEach(recs, kind, of) == [j \in DOMAIN recs |-> Entry(recs[j], Place(kind, of, j))]

\* The jobs before the first that repeats an identifier.
FirstJobs(recs) ==
    LET first == {j \in DOMAIN recs : \A h, k \in 1 .. j : recs[h] = recs[k] => h = k}
    IN [j \in first |-> recs[j]]

Entries(pl) ==
    CASE pl.kind = "cluster" ->
            <<Entry("attributes", Place("attributes", "CLUSTER", 1)),
              Entry("partitions", Bare("partitions")),
              Entry("jobs", Bare("jobs"))>>
      [] pl.kind = "partitions" -> OneEach(cluster.part.recs, "partition", "PARTNAME")
      [] pl.kind = "partition" ->
            <<Entry("nodes", Bare("nodes")),
              Entry("attributes", Place("attributes", pl.of, pl.rec))>>
      [] pl.kind = "nodes" -> OneEach(cluster.node.recs, "node", "NODENAME")
      [] pl.kind = "node" -> <<Entry("attributes", Place("attributes", pl.of, pl.rec))>>
      [] pl.kind = "jobs" ->
            LET jobs == FirstJobs(cluster.job.recs)
            IN [j \in DOMAIN jobs |-> Entry(jobs[j], Bare("job"))]
      [] pl.kind = "job" -> <<Entry("jobsteps", Bare("empty"))>>
      [] pl.kind = "attributes" ->
            [j \in DOMAIN Attrs[pl.of] |->
                LET attr == Attrs[pl.of][j]
                IN Entry(attr.nm,
                         IF attr.typ = "ALLOCJOB" THEN Bare("empty")
                         ELSE Place("file", attr, pl.rec))]
      [] OTHER -> <<>>

IsDirectory(pl) == pl.kind \notin {"file", "nowhere"}

\* The links count entries that are not shown, too.
Links(pl) ==
    CASE pl.kind = "file" -> 1
      [] pl.kind = "jobs" -> 2 + Len(cluster.job.recs)
      [] pl.kind = "job" -> 2 + 3
      [] OTHER -> 2 + Len(Entries(pl))

Below(pl, nm) ==
    LET hits == {j \in DOMAIN Entries(pl) : Entries(pl)[j].nm = nm}
    IN IF hits = {} THEN Nowhere ELSE Entries(pl)[CHOOSE j \in hits : TRUE].place

\* The place a path shows; a last name equal to the one before shows the
\* directory itself, and the name of the root is the cluster's.
Walk(path) ==
    LET at[k \in 0 .. Len(path)] ==
            IF k = 0 THEN Root ELSE Below(at[k - 1], path[k])
        last == Len(path)
    IN IF last > 0 /\ path[last] = (<<cluster.cname>> \o path)[last]
       THEN at[last - 1] ELSE at[last]

-----------------------------------------------------------------------------
(* Requests and answers *)

FileRequests == {"open", "read", "write", "truncate", "poll"}

\* The kernel passes a request on when it has found the directories on the
\* path, and, unless the request is to find it, the object of the right kind.
Allowed(r) ==
    LET pl == Walk(r.path)
    IN /\ \A k \in 0 .. (Len(r.path) - 1) : IsDirectory(Walk(SubSeq(r.path, 1, k)))
       /\ r.op # "getattr" => pl.kind # "nowhere"
       /\ r.op = "readdir" => IsDirectory(pl)
       /\ r.op \in FileRequests => pl.kind = "file"

Admitted(r) == cluster.debug \/ r.uid \in {"slurm", "slurmd", "root"}

\* Every place but one that no builder has finished has a security context.
Contexts(pl) == [names |-> IF pl.kind = "empty" THEN {} ELSE {"context"}]

TextOf(pl) == [text |-> IF pl.of.typ = "NODESTATE" THEN <<"opaque">> ELSE <<pl.of.nm, pl.rec>>]

Listing(pl) ==
    [listing |-> [j \in DOMAIN Entries(pl) |->
        [nm |-> Entries(pl)[j].nm, isdir |-> IsDirectory(Entries(pl)[j].place)]]]

ReadAnswer(r, pl) ==
    IF pl.of.size > r.size THEN Ans("SHORT", Plain) ELSE Ans("OK", TextOf(pl))

\* Whether a is an answer to request r, past the permission check.
IsAdmittedAnswer(r, pl, a) ==
    CASE r.op = "open" -> a = Ans(IF r.acc = "w" THEN "EPERM" ELSE "OK", Plain)
      [] r.op = "read" ->
            IF spoilt THEN a.err \in {"OK", "SHORT", "ERANGE"} ELSE a = ReadAnswer(r, pl)
      [] r.op = "write" -> a = Ans("EPERM", Plain)
      [] r.op = "truncate" -> a \in {Ans("OK", Plain), Ans("EPERM", Plain)}
      [] r.op = "listxattr" -> a.err \in {"OK", "SHORT"} /\ a.shows = Contexts(pl)
      [] r.op = "getxattr" ->
            /\ a.err \in {"OK", "SHORT"}
            /\ a.shows = IF r.name = "other" THEN [names |-> {}] ELSE Contexts(pl)
      [] r.op = "setxattr" -> a.err \in {"OK", "SHORT"} /\ a.shows = Plain
      [] OTHER -> a = Ans("OK", Plain)

\* Whether a is an answer to request r.
IsAnswer(r, a) ==
    LET pl == Walk(r.path)
    IN IF pl.kind = "nowhere" THEN a = Ans("ENOENT", Plain)
       ELSE CASE r.op = "getattr" ->
                   a = Ans("OK", [isdir |-> IsDirectory(pl), nlink |-> Links(pl),
                                  sticky |-> pl.kind = "job"])
              [] r.op = "readdir" -> a = Ans("OK", Listing(pl))
              [] r.op \in {"statfs", "poll"} -> a = Ans("OK", Plain)
              [] OTHER -> IF Admitted(r) THEN IsAdmittedAnswer(r, pl, a)
                          ELSE a = Ans("EPERM", Plain)

-----------------------------------------------------------------------------
ViewInit ==
    /\ cluster \in Inputs
    /\ state = "waiting"
    /\ asked = [c \in Clients |-> NoRequest]
    /\ shown = [c \in Clients |-> NoAnswer] /\ spoilt = FALSE

Open == state = "waiting" /\ state' = "open" /\ UNCHANGED <<cluster, asked, shown, spoilt>>

Ask(c) ==
    /\ state = "open" /\ asked[c].op = "none"
    /\ asked'[c] \in Asks(cluster) /\ Allowed(asked'[c])
    /\ asked' = [asked EXCEPT ![c] = asked'[c]]
    /\ UNCHANGED <<cluster, state, shown, spoilt>>

Answer(c) ==
    /\ state = "open" /\ asked[c].op # "none" /\ shown[c].err = "none"
    /\ shown'[c].err # "none" /\ shown' = [shown EXCEPT ![c] = shown'[c]]
    /\ IsAnswer(asked[c], shown'[c])
    /\ UNCHANGED <<cluster, state, asked, spoilt>>

Forget(c) ==
    /\ shown[c].err # "none"
    /\ asked' = [asked EXCEPT ![c] = NoRequest]
    /\ shown' = [shown EXCEPT ![c] = NoAnswer]
    /\ UNCHANGED <<cluster, state, spoilt>>

\* Somebody waits for a security context to be stored.
Storing ==
    \E c \in Clients :
        /\ asked[c].op = "setxattr" /\ asked[c].name = "context" /\ Admitted(asked[c])

Spoil ==
    /\ state = "open" /\ Storing
    /\ spoilt' = TRUE /\ UNCHANGED <<cluster, state, asked, shown>>

Close ==
    /\ state = "open" /\ ((\A c \in Clients : asked[c].op = "none") \/ Storing)
    /\ state' = "closed" /\ UNCHANGED <<cluster, asked, shown, spoilt>>

ViewNext ==
    \/ Open \/ Close \/ Spoil
    \/ \E c \in Clients : Ask(c) \/ Answer(c) \/ Forget(c)

ViewSpec == ViewInit /\ [][ViewNext]_viewVars
=============================================================================
