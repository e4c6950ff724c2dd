-------------------------------- MODULE Serve --------------------------------
(***************************************************************************)
(* The rest of main(): the state of an earlier instance, fuse_main() and   *)
(* the handlers it calls on the tree that mk_fs() has built.               *)
(*                                                                         *)
(* libfuse calls handlers from several threads unless it is told not to.   *)
(* A handler looks its path up with namer(), takes and releases the        *)
(* superblock's lock a number of times, and answers.  The lock is a        *)
(* counter that excludes nobody, and += and -= on it are a load and a      *)
(* store.  After fuse_main() the handlers should change nothing; the       *)
(* exception that can happen is the storing of a security context, which   *)
(* goes to whatever parameter an uninitialised pointer names.              *)
(***************************************************************************)
EXTENDS MkFs

CONSTANTS
    Clients,     \* the kernel's requests that can be in progress at a time
    Asks(_),     \* the requests that are made of a file system with these inputs
    Threads(_),  \* how many of them libfuse serves at a time
    MaxDrift,    \* bound: requests arrive while the lock is at most this far off
    MaxDamage,   \* bound: contexts are stored until so many parameters differ
    Word         \* one more than the largest unsigned long

Ops == {"access", "getattr", "truncate", "open", "read", "readdir", "statfs",
        "write", "getxattr", "setxattr", "listxattr", "poll"}

\* size is the room the caller offers; acc is the access mode of an open ("w" for
\* O_RDWR too: no file of a tree can be opened so, and none is read behind it), and
\* name the class of an extended attribute's name: the security context, a
\* proper prefix of it, or another.
IsRequest(r) ==
    /\ r.op \in Ops /\ r.path \in Seq(STRING) /\ r.uid \in STRING
    /\ r.acc \in {"r", "w"} /\ (r.op = "read" => r.acc = "r") /\ (r.op = "write" => r.acc = "w")
    /\ r.size \in Nat /\ r.name \in {"context", "prefix", "other"}

ASSUME ServeAssumption ==
    /\ Clients \subseteq Nat \ {0}
    /\ \A x \in Inputs : Threads(x) \in Nat /\ \A r \in Asks(x) : IsRequest(r)
    /\ MaxDrift \in Nat /\ MaxDamage \in Nat /\ Word \in Nat
    \* rn_poolinit() takes rn_maxalloc off the size of the pool, an unsigned long
    /\ \A x \in Inputs : BaseAlloc + x.maxalloc < Word

VARIABLES
    phase,       \* of main(): "mk_fs", "fuse_main", "serving" or "ended"
    fsid, version, p_dirty,  \* of rn_paramtab
    lock,        \* the_rn_paramtab_lock, relative to its value at fuse_main()
    stored,      \* what handlers have stored in parameters: slot -> value
    call,        \* the handler that serves each client
    overlapped   \* two handlers have run at a time

super == <<fsid, version, p_dirty>>
serveVars == <<vars, phase, super, lock, stored, call, overlapped>>

-----------------------------------------------------------------------------
(* Nodes *)

\* maybe.readable, maybe.writable and maybe.controllable of a row.
Readable(s) == TRUE
Writable(s) == Row(rn[s].rtype) = "CONTEXT"
Controllable(s) == Row(rn[s].rtype) \in {"ROOT", "JOBID", "CONTROL", "KNOB"}

\* A slip: the access mode is not looked at.
MayAccessAnyMode(s, acc, uid) == in.debug \/ uid \in {"slurm", "slurmd", "root"}

\* rmfs_mayaccess(): owner, dispatcher or root, unless Debug; then the mode.
MayAccess(s, acc, uid) ==
    /\ in.debug \/ uid \in {"slurm", "slurmd", "root"}
    /\ acc = "r" => Readable(s)
    /\ acc = "w" => Writable(s) \/ Controllable(s)

\* A slip: the walk does not stop at the first unnamed child.
LookPastHoles(s, nm, last) ==
    LET hits == {t \in Kids(s) : rn[t].nm = nm}
    IN IF s = NULL \/ ~rn[s].isdir \/ (last /\ rn[s].nm = nm) THEN s
       ELSE IF hits = {} THEN NULL
       ELSE CHOOSE t \in hits : \A u \in hits : t <= u

\* A component of a path is looked for in s, which NULL or a file does not
\* leave.  A directory that has the name of the last component is found before
\* its children are; otherwise the first child with the name is.
Look(s, nm, last) ==
    LET hits == {t \in Listed(s) : rn[t].nm = nm}
    IN IF s = NULL \/ ~rn[s].isdir \/ (last /\ rn[s].nm = nm) THEN s
       ELSE IF hits = {} THEN NULL
       ELSE CHOOSE t \in hits : \A u \in hits : t <= u

\* namer(): the node that path names, or NULL.  A file is found even when
\* components are left.
namer(path) ==
    LET walk[k \in 0 .. Len(path)] ==
            IF k = 0 THEN p_fsroot ELSE Look(walk[k - 1], path[k], k = Len(path))
    IN walk[Len(path)]

\* The files of the tree below p_fsroot.  Each has a parameter.
Params == {s \in Slots : LET dir == rn[s].parent
                         IN Named(s) /\ ~rn[s].isdir /\ rn[rn[dir].parent].rtype \in
                                {"CLUSTER", "PARTNAME", "NODENAME"}}

\* val.size as the builders leave it: collectslurm_attr() measures the text of
\* a number (two digits here), a time-out has a word, and a string and a state
\* have none.
SizeOf(typ) == CASE typ = "NUMERIC" -> 3 [] typ = "SLURMTMOUT" -> 8 [] OTHER -> 0

Val(s) == IF s \in DOMAIN stored THEN stored[s]
          ELSE [str |-> <<rn[s].nm, rn[s].dyn>>, size |-> SizeOf(rn[s].typ)]

Store(s, v) == stored' = [t \in DOMAIN stored \cup {s} |-> IF t = s THEN v ELSE stored[t]]

\* typ_copyout() of a parameter that fits: a state is printed as a constant.
CopiedOut(s) == [text |-> IF rn[s].typ \in {"NODESTATE", "ALLOCJOB"} THEN <<"opaque">>
                          ELSE Val(s).str]

\* rn_cast() makes a context for a node's second cast; its name and value have
\* these sizes.
HasContext(s) == rn[s].gen = 2
ContextName == 17
ContextSize == 30
-----------------------------------------------------------------------------
(* Calls and answers.  shows is what a user can tell apart, more the numbers *)
(* of slots and of the pool that come with it.                               *)

Plainly == [nothing |-> TRUE]
Reply(err, shows, more) == [err |-> err, shows |-> shows, more |-> more]
Err(err) == Reply(err, Plainly, Plainly)
OK == Err("OK")
NoReply == Err("none")

Idle == [pc |-> "idle", req |-> [op |-> "none"], at |-> NULL, todo |-> 0, reg |-> 0,
         reply |-> NoReply]

In(c, pc) == phase = "serving" /\ call[c].pc = pc
Goto(c, pc) == call' = [call EXCEPT ![c].pc = pc]
Finish(c, reply) == call' = [call EXCEPT ![c].pc = "done", ![c].reply = reply]

Permits(r, s) ==
    MayAccess(s, IF r.op \in {"open", "read", "write"} THEN r.acc ELSE "none", r.uid)

\* How often a handler takes the lock: for the identifier and the modes of a
\* node, for the modes of both dots and every entry, for the counters, and for
\* the dirty list.
Sections(r, s) ==
    IF s = NULL THEN 0
    ELSE CASE r.op = "getattr" -> 2
           [] r.op = "readdir" -> 2 + Cardinality(Listed(s))
           [] r.op = "statfs" -> 1
           [] r.op = "write" /\ Permits(r, s) -> 1
           [] OTHER -> 0

Stat(s) ==
    Reply("OK", [isdir |-> rn[s].isdir, nlink |-> IF rn[s].isdir THEN 2 + rn[s].n ELSE 1,
                 sticky |-> rn[s].isdir /\ Controllable(s)],
          [ino |-> s, dev |-> fsid])

\* A slip: the listing runs to the end of the block.
ListAll(s) ==
    LET first == rn[s].children
    IN Reply("OK", [listing |-> [j \in 1 .. rn[s].n |->
                                   [nm |-> rn[first + j - 1].nm, isdir |-> rn[first + j - 1].isdir]]],
             [inos |-> [j \in 1 .. rn[s].n |-> first + j - 1], dot |-> 2 + rn[s].n])

List(s) ==
    LET first == rn[s].children
        n == Cardinality(Listed(s))
    IN Reply("OK", [listing |-> [j \in 1 .. n |->
                                   [nm |-> rn[first + j - 1].nm, isdir |-> rn[first + j - 1].isdir]]],
             [inos |-> [j \in 1 .. n |-> first + j - 1], dot |-> 2 + rn[s].n])

\* A slip: the reserved slots are taken off the wrong number.
StatvfsSwapped ==
    LET curalloc == nxt_avail - BaseAlloc
    IN Reply("OK", Plainly,
             [blocks |-> in.maxalloc, bfree |-> (in.maxalloc - curalloc - BaseAlloc) % Word,
              bavail |-> (in.maxalloc - curalloc) % Word,
              files |-> curalloc, fsid |-> fsid])

Statvfs ==
    LET curalloc == nxt_avail - BaseAlloc
    IN Reply("OK", Plainly,
             [blocks |-> in.maxalloc, bfree |-> (in.maxalloc - curalloc) % Word,
              bavail |-> (in.maxalloc - curalloc - BaseAlloc) % Word,
              files |-> curalloc, fsid |-> fsid])

Names(s, names) == [names |-> IF HasContext(s) THEN names ELSE {}]

\* An extended attribute is found by a prefix of its name; a caller without
\* room for the value is told its size.
GetXattr(r, s) ==
    LET names == Names(s, IF r.name = "other" THEN {} ELSE {"context"})
    IN Reply(IF names.names # {} /\ r.size < ContextSize THEN "SHORT" ELSE "OK", names, Plainly)

ListXattr(r, s) ==
    LET names == Names(s, {"context"})
    IN Reply(IF names.names # {} /\ r.size < ContextName THEN "SHORT" ELSE "OK", names, Plainly)

\* rmfs_trunc() changes nothing.  Its fuse_file_info is uninitialised, and so
\* is the access mode.
Trunc(r, s) ==
    {IF MayAccess(s, acc, r.uid) THEN OK ELSE Err("EPERM") : acc \in {"r", "w"}}

\* The replies of a handler that is done after its lock sections.
Replies(r, s) ==
    IF s = NULL THEN {Err("ENOENT")}
    ELSE CASE r.op = "getattr" -> {Stat(s)}
           [] r.op = "readdir" -> {List(s)}
           [] r.op = "statfs" -> {Statvfs}
           [] r.op = "poll" -> {OK}
           [] OTHER ->
                IF ~Permits(r, s) THEN {Err("EPERM")}
                ELSE CASE r.op = "truncate" -> Trunc(r, s)
                       [] r.op = "getxattr" -> {GetXattr(r, s)}
                       [] r.op = "listxattr" -> {ListXattr(r, s)}
                       [] OTHER -> {OK}

-----------------------------------------------------------------------------
(* main() *)

ServeInit ==
    /\ Init
    /\ phase = "mk_fs" /\ fsid = 0 /\ version = 0 /\ p_dirty = NULL
    /\ lock = 0 /\ stored = <<>> /\ overlapped = FALSE
    /\ call = [c \in Clients |-> Idle]

BuildTree == phase = "mk_fs" /\ Build /\ UNCHANGED <<phase, super, lock, stored, call, overlapped>>

\* The backing store's routines are stubs.  Controller or not, the first thing
\* collect_predstate() does is to open it.
open_BackingStore == FALSE
collect_predstate == open_BackingStore

Prevstate ==
    /\ phase = "mk_fs" /\ status = "mounted"
    /\ collect_predstate \/ Returns("WARN")
    /\ phase' = "fuse_main"
    /\ UNCHANGED <<vars, super, lock, stored, call, overlapped>>

\* rmfs_init(): the file system's identifier is the hash of a parameter's
\* value, its version a parameter; both have defaults.
RmfsInit ==
    /\ phase = "fuse_main" /\ fsid = 0
    /\ fsid' = 1 /\ version' = IF version = 0 THEN 1 ELSE version
    /\ phase' = "serving"
    /\ UNCHANGED <<vars, p_dirty, lock, stored, call, overlapped>>

\* fuse_main() returns when the file system is unmounted and its threads are
\* idle; CleanExit().
Unmount ==
    /\ phase = "serving" /\ \A c \in Clients : call[c].pc = "idle"
    /\ phase' = "ended"
    /\ UNCHANGED <<vars, super, lock, stored, call, overlapped>>

-----------------------------------------------------------------------------
(* A request arrives.  The kernel has found the directories on its path, and *)
(* unless it is to find it, the object; it has the type of the object from   *)
(* getattr.  A request to read or to write stands for the open before it.    *)

IsDirAt(path) == namer(path) # NULL /\ rn[namer(path)].isdir

Deliverable(r) ==
    LET s == namer(r.path)
    IN /\ \A k \in 0 .. (Len(r.path) - 1) : IsDirAt(SubSeq(r.path, 1, k))
       /\ r.op # "getattr" => s # NULL
       /\ r.op = "readdir" => rn[s].isdir
       /\ r.op \in {"open", "read", "write", "truncate", "poll"} => ~rn[s].isdir

StoresContext(r) == r.op = "setxattr" /\ r.name = "context"

Receive(c) ==
    /\ In(c, "idle") /\ c <= Threads(in)
    /\ lock \in -MaxDrift .. MaxDrift
    /\ \E r \in Asks(in) :
          /\ Deliverable(r)
          /\ StoresContext(r) => Cardinality(DOMAIN stored) < MaxDamage
          /\ call' = [call EXCEPT ![c] = [Idle EXCEPT !.pc = "entered", !.req = r,
                                          !.at = namer(r.path),
                                          !.todo = Sections(r, namer(r.path))]]
    /\ overlapped' = (overlapped \/ \E d \in Clients \ {c} : call[d].pc # "idle")
    /\ UNCHANGED <<vars, phase, super, lock, stored>>

\* The answer reaches the kernel.
Deliver(c) ==
    /\ In(c, "done")
    /\ call' = [call EXCEPT ![c] = Idle]
    /\ UNCHANGED <<vars, phase, super, lock, stored, overlapped>>

-----------------------------------------------------------------------------
(* rn_paramtab_lock() and rn_paramtab_release() *)

\* A slip: one section too many.
AtLockOnceMore(c) == In(c, "entered") /\ call[c].todo >= 0

AtLock(c) == In(c, "entered") /\ call[c].todo > 0

\* A slip: what was loaded is stored as it is.
DropStoreSame(c) ==
    /\ In(c, "dropping")
    /\ lock' = call[c].reg
    /\ call' = [call EXCEPT ![c].pc = "entered", ![c].todo = @ - 1]
    /\ UNCHANGED <<vars, phase, super, stored, overlapped>>

\* A slip: the section is not counted.
DropStoreUncounted(c) ==
    /\ In(c, "dropping")
    /\ lock' = call[c].reg - 1
    /\ call' = [call EXCEPT ![c].pc = "entered", ![c].reg = 0]
    /\ UNCHANGED <<vars, phase, super, stored, overlapped>>

TakeLoad(c) ==
    /\ AtLock(c)
    /\ call' = [call EXCEPT ![c].pc = "taking", ![c].reg = lock]
    /\ UNCHANGED <<vars, phase, super, lock, stored, overlapped>>

TakeStore(c) ==
    /\ In(c, "taking")
    /\ lock' = call[c].reg + 1
    /\ Goto(c, "held")
    /\ UNCHANGED <<vars, phase, super, stored, overlapped>>

DropLoad(c) ==
    /\ In(c, "held")
    /\ call' = [call EXCEPT ![c].pc = "dropping", ![c].reg = lock]
    /\ UNCHANGED <<vars, phase, super, lock, stored, overlapped>>

DropStore(c) ==
    /\ In(c, "dropping")
    /\ lock' = call[c].reg - 1
    /\ call' = [call EXCEPT ![c].pc = "entered", ![c].todo = @ - 1, ![c].reg = 0]
    /\ UNCHANGED <<vars, phase, super, stored, overlapped>>

-----------------------------------------------------------------------------
(* The handlers *)

Ready(c) == In(c, "entered") /\ call[c].todo = 0
R(c) == call[c].req
S(c) == call[c].at

\* Ready, and past the permission check.
Admits(c, op) == Ready(c) /\ S(c) # NULL /\ R(c).op = op /\ Permits(R(c), S(c))
Stepwise(c) ==
    \/ Admits(c, "read")
    \/ Admits(c, "setxattr") /\ StoresContext(R(c))

\* A handler that answers at once.  rmfs_write() with permission replaces the
\* value by the text, and the node becomes the head of the dirty list.
Handle(c) ==
    /\ Ready(c) /\ ~Stepwise(c)
    /\ \E reply \in Replies(R(c), S(c)) : Finish(c, reply)
    /\ IF Admits(c, "write") THEN
         /\ Store(S(c), [Val(S(c)) EXCEPT !.str = <<"given">>])
         /\ p_dirty' = S(c)
       ELSE UNCHANGED <<stored, p_dirty>>
    /\ UNCHANGED <<vars, phase, fsid, version, lock, overlapped>>

\* rmfs_read() compares the sizes, and typ_copyout() does it again.
ReadCheck(c) ==
    /\ Admits(c, "read")
    /\ IF Val(S(c)).size > R(c).size THEN Finish(c, Err("SHORT")) ELSE Goto(c, "copying")
    /\ UNCHANGED <<vars, phase, super, lock, stored, overlapped>>

ReadCopy(c) ==
    /\ In(c, "copying")
    /\ Finish(c, IF Val(S(c)).size > R(c).size THEN Err("ERANGE")
                 ELSE Reply("OK", CopiedOut(S(c)), Plainly))
    /\ UNCHANGED <<vars, phase, super, lock, stored, overlapped>>

\* rmfs_setxattr() of the security context.  p_cp is uninitialised: no node
\* here has the type that sets it.  It is the node's own if the compiler has
\* dropped the test, what an earlier call left on the stack, a parameter that
\* no file shows (NULL), or it cannot be dereferenced.
FindContext(c) ==
    /\ Admits(c, "setxattr") /\ StoresContext(R(c))
    /\ \/ phase' = "ended" /\ UNCHANGED call
       \/ \E t \in Params :
             /\ IF R(c).size < Val(t).size THEN Finish(c, Err("SHORT"))
                ELSE call' = [call EXCEPT ![c].pc = "storing", ![c].reg = t]
             /\ UNCHANGED phase
       \/ \E err \in {"SHORT", "OK"} : Finish(c, Err(err)) /\ UNCHANGED phase
    /\ UNCHANGED <<vars, super, lock, stored, overlapped>>

\* The pointer and the size are stored one after the other, under no lock.
StoreStr(c) ==
    /\ In(c, "storing")
    /\ Store(call[c].reg, [Val(call[c].reg) EXCEPT !.str = <<"given">>])
    /\ Goto(c, "sizing")
    /\ UNCHANGED <<vars, phase, super, lock, overlapped>>

StoreSize(c) ==
    /\ In(c, "sizing")
    /\ Store(call[c].reg, [Val(call[c].reg) EXCEPT !.size = R(c).size])
    /\ Finish(c, OK)
    /\ UNCHANGED <<vars, phase, super, lock, overlapped>>

Step(c) ==
    \/ TakeLoad(c) \/ TakeStore(c) \/ DropLoad(c) \/ DropStore(c)
    \/ Handle(c) \/ ReadCheck(c) \/ ReadCopy(c)
    \/ FindContext(c) \/ StoreStr(c) \/ StoreSize(c) \/ Deliver(c)

Start == BuildTree \/ Prevstate \/ RmfsInit

Over == (phase = "ended" \/ (phase = "mk_fs" /\ status \in {"exited", "crashed"}))
        /\ UNCHANGED serveVars

ServeNext ==
    \/ Start \/ Unmount \/ Over
    \/ \E c \in Clients : Receive(c) \/ Step(c)

ServeSpec == ServeInit /\ [][ServeNext]_serveVars

\* The process keeps running, and every thread that serves a request is
\* scheduled; nobody has to make one.
FairServe ==
    /\ ServeSpec
    /\ WF_serveVars(Start)
    /\ \A c \in Clients : WF_serveVars(Step(c))

-----------------------------------------------------------------------------
(* Properties *)

ServeTypeOK ==
    /\ phase \in {"mk_fs", "fuse_main", "serving", "ended"}
    /\ fsid \in {0, 1} /\ version \in {0, 1} /\ p_dirty \in Slots \cup {NULL}
    /\ lock \in Int /\ overlapped \in BOOLEAN
    /\ DOMAIN stored \subseteq Slots
    /\ \A c \in Clients :
          /\ call[c].pc \in {"idle", "entered", "taking", "held", "dropping", "copying",
                             "storing", "sizing", "done"}
          /\ call[c].at \in Slots \cup {NULL}
          /\ call[c].todo \in Nat /\ call[c].reg \in Int

\* The answer to every request is what the resource manager's replies at the
\* start imply, although the tree was built with holes, the walk of namer()
\* stops at them, links count what no listing shows, and several handlers run
\* behind a lock that excludes nobody.
View == INSTANCE ClusterView WITH
    Attrs <- [rtype \in {"CLUSTER", "PARTNAME", "NODENAME"} |->
                [j \in DOMAIN AttrTab[rtype] |->
                    [nm |-> AttrTab[rtype][j].nm, typ |-> AttrTab[rtype][j].typ,
                     size |-> SizeOf(AttrTab[rtype][j].typ)]]],
    cluster <- in,
    state <- CASE phase = "serving" -> "open" [] phase = "ended" -> "closed"
               [] OTHER -> "waiting",
    asked <- [c \in Clients |-> call[c].req],
    shown <- [c \in Clients |-> [err |-> call[c].reply.err, shows |-> call[c].reply.shows]],
    spoilt <- stored # <<>>
ShowsInputs == View!ViewSpec

\* After fuse_main() no sequence of requests, however their handlers overlap,
\* changes a node, a bookmark, the pool or the dirty list, and none changes the
\* value of a parameter but one that stores a security context.
TreeImmutable ==
    [][phase = "serving" =>
         /\ UNCHANGED <<vars, super>>
         /\ stored' # stored => \E c \in Clients : StoresContext(R(c))]_serveVars

\* The last name of the path is not that of the directory it is looked up in.
IsEntry(path) ==
    LET n == Len(path) IN n > 0 => path[n] # (<<in.cname>> \o path)[n]

\* What a listing says of an entry is what a look-up of the entry's path says,
\* number and type, unless the entry, or the directory on the path, has the
\* name of the directory above it; and the listing's first entry has the links
\* of the directory.
ListingAgrees ==
    \A c \in Clients :
        In(c, "done") /\ R(c).op = "readdir" /\ IsEntry(R(c).path) =>
            LET reply == call[c].reply
                dir == S(c)
            IN /\ reply.more.dot = Stat(dir).shows.nlink
               /\ \A j \in DOMAIN reply.shows.listing :
                     LET entry == reply.shows.listing[j]
                         path == R(c).path \o <<entry.nm>>
                         s == namer(path)
                     IN IsEntry(path) =>
                           s = reply.more.inos[j] /\ rn[s].isdir = entry.isdir

\* The numbers of statfs are those of the finished tree: files are the slots
\* that its inputs imply, free and used add up, and what is available to a
\* user is less than what is free, unless fewer slots are free than the
\* reserved ones, when the subtraction wraps.
StatfsCounts ==
    \A c \in Clients :
        In(c, "done") /\ R(c).op = "statfs" =>
            LET n == call[c].reply.more
            IN /\ n.files = Needs(in) /\ n.files + n.bfree = n.blocks
               /\ IF n.bfree >= BaseAlloc THEN n.bavail + BaseAlloc = n.bfree
                  ELSE n.bavail > n.blocks
               /\ n.fsid # 0

\* While handlers have not overlapped, the lock is where it was at the start
\* whenever none runs: every section of every handler ends.
LockBalanced ==
    ~overlapped /\ (\A c \in Clients : call[c].pc = "idle") => lock = 0

\* Every request is answered, or the process has ended under it: no handler
\* waits for the lock, whatever its value has become.
Answered ==
    \A c \in Clients :
        (phase = "serving" /\ call[c].pc # "idle") ~> (phase = "ended" \/ call[c].pc = "idle")
=============================================================================
