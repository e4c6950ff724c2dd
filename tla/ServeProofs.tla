----------------------------- MODULE ServeProofs -----------------------------
(***************************************************************************)
(* The handlers, for every tree that can be mounted, every set of clients, *)
(* every sequence of requests and every overlap of their handlers.         *)
(*                                                                         *)
(* The lock.  LockBalanced is not inductive: it says nothing while a       *)
(* handler runs.  LockInv says where the lock is at each step of the one   *)
(* that does, and what it has loaded.  The steps of the builders change    *)
(* neither lock nor handlers, so that nothing needs to be known of the     *)
(* tree.                                                                   *)
(*                                                                         *)
(* The tree.  TreeImmutable needs that no handler may write, and that is   *)
(* so because of what the tree is: every node that namer() gets to lies    *)
(* below the cluster (Seen), and no file there has a type whose row says   *)
(* writable or controllable.  ServeInv says of every handler what it knows *)
(* of its request, so that what it found when the request arrived is still *)
(* what it acts on.  ListingAgrees compares two walks of namer(), whose    *)
(* paths differ by a name.                                                 *)
(*                                                                         *)
(* The view.  PlaceOf maps a node that a path can reach to the place of    *)
(* ClusterView that it shows.  A finished directory lists the entries of   *)
(* its place (EntriesShown), so that namer() and the view's walk agree on  *)
(* every path that the kernel lets through (WalksAgree); what a handler    *)
(* answers is then what the view answers, and every step of the program is *)
(* a step of the view or a stutter (NextShows).                            *)
(***************************************************************************)
EXTENDS Serve, MkFsCountProofs

\* Where a handler has added one to the lock and has not subtracted it.
Owning == {"held", "dropping"}

Fields == {"pc", "req", "at", "todo", "reg", "reply"}
CallShape == DOMAIN call = Clients /\ \A c \in Clients : Fields \subseteq DOMAIN call[c]

\* One handler at most is not idle.
Alone == \A c, d \in Clients : call[c].pc # "idle" /\ call[d].pc # "idle" => c = d

\* The lock and what has been loaded of it.
Level ==
    /\ \A c \in Clients : call[c].pc \in Owning => lock = 1
    /\ (\A c \in Clients : call[c].pc \notin Owning) => lock = 0
Loaded ==
    \A c \in Clients : /\ call[c].pc = "taking" => call[c].reg = 0
                       /\ call[c].pc = "dropping" => call[c].reg = 1

LockInv == CallShape /\ (~overlapped => Alone /\ Level /\ Loaded)

-----------------------------------------------------------------------------

\* Before fuse_main() no handler runs, and the lock is where it starts.
LEMMA InitLockInv == ServeInit => LockInv
  BY DEF ServeInit, LockInv, CallShape, Fields, Alone, Level, Loaded, Owning, Idle

\* A step that leaves the handlers and the lock alone.
LEMMA ElsewhereKeeps ==
  ASSUME LockInv, UNCHANGED <<call, lock, overlapped>>
  PROVE  LockInv'
  BY DEF LockInv, CallShape, Alone, Level, Loaded

\* A step of one handler that is not idle: it is enough to know where it is
\* then, what it has loaded and where the lock is, while it has run alone.
LEMMA OneMoves ==
  ASSUME LockInv, NEW c \in Clients, call[c].pc # "idle",
         NEW new, call' = [call EXCEPT ![c] = new], Fields \subseteq DOMAIN new,
         UNCHANGED overlapped,
         Level /\ Loaded /\ (call[c].pc \notin Owning => lock = 0)
           => /\ new.pc \in Owning => lock' = 1
              /\ new.pc \notin Owning => lock' = 0
              /\ new.pc = "taking" => new.reg = 0
              /\ new.pc = "dropping" => new.reg = 1
  PROVE  LockInv'
<1>1. CallShape'
  BY DEF LockInv, CallShape
<1>2. call'[c] = new /\ \A d \in Clients \ {c} : call'[d] = call[d]
  BY DEF LockInv, CallShape
<1>3. ASSUME ~overlapped
      PROVE  Alone' /\ Level' /\ Loaded'
  <2>1. Alone /\ Level /\ Loaded
    BY <1>3 DEF LockInv
  <2>2. \A d \in Clients \ {c} : call[d].pc = "idle"
    BY <2>1 DEF Alone
  <2>3. call[c].pc \notin Owning => lock = 0
    BY <2>1, <2>2 DEF Level, Owning
  <2>4. Alone'
    BY <1>2, <2>2 DEF Alone
  <2>5. Level'
    BY <1>2, <2>1, <2>2, <2>3 DEF Level, Owning
  <2>6. Loaded'
    BY <1>2, <2>1, <2>2, <2>3 DEF Loaded
  <2> QED BY <2>4, <2>5, <2>6
<1> QED BY <1>1, <1>3 DEF LockInv

\* The steps of a section are the only ones that move the lock.
LEMMA SectionKeeps ==
  ASSUME LockInv, NEW c \in Clients,
         TakeLoad(c) \/ TakeStore(c) \/ DropLoad(c) \/ DropStore(c)
  PROVE  LockInv'
<1> DEFINE new == call'[c]
<1>0. c \in DOMAIN call /\ Fields \subseteq DOMAIN call[c]
  BY DEF LockInv, CallShape
<1>1. CASE TakeLoad(c)
  <2>1. call' = [call EXCEPT ![c] = [call[c] EXCEPT !.pc = "taking", !.reg = lock]]
    BY <1>1 DEF TakeLoad
  <2> QED BY <1>0, <1>1, <2>1, OneMoves DEF TakeLoad, AtLock, In, Fields, Owning
<1>2. CASE TakeStore(c)
  <2>1. call' = [call EXCEPT ![c] = [call[c] EXCEPT !.pc = "held"]]
    BY <1>2 DEF TakeStore, Goto
  <2>2. call[c].pc = "taking" /\ UNCHANGED overlapped
    BY <1>2 DEF TakeStore, In
  <2>3. Loaded => lock' = 1
    BY <1>2, <2>2 DEF TakeStore, Loaded
  <2> QED BY <1>0, <2>1, <2>2, <2>3, OneMoves DEF Fields, Owning
<1>3. CASE DropLoad(c)
  <2>1. call' = [call EXCEPT ![c] = [call[c] EXCEPT !.pc = "dropping", !.reg = lock]]
    BY <1>3 DEF DropLoad
  <2> QED BY <1>0, <1>3, <2>1, OneMoves DEF DropLoad, In, Fields, Owning, Level
<1>4. CASE DropStore(c)
  <2>1. call' = [call EXCEPT ![c] = [call[c] EXCEPT !.pc = "entered", !.todo = @ - 1,
                                                   !.reg = 0]]
    BY <1>4 DEF DropStore
  <2>2. call[c].pc = "dropping" /\ UNCHANGED overlapped
    BY <1>4 DEF DropStore, In
  <2>3. Loaded => lock' = 0
    BY <1>4, <2>2 DEF DropStore, Loaded
  <2> QED BY <1>0, <2>1, <2>2, <2>3, OneMoves DEF Fields, Owning
<1> QED BY <1>1, <1>2, <1>3, <1>4

\* A handler moves on outside of its sections, and the lock stays.
LEMMA OutsideKeeps ==
  ASSUME LockInv, NEW c \in Clients, call[c].pc \notin Owning \cup {"idle"},
         NEW new, call' = [call EXCEPT ![c] = new], Fields \subseteq DOMAIN new,
         new.pc \notin Owning \cup {"taking"}, UNCHANGED <<lock, overlapped>>
  PROVE  LockInv'
  BY OneMoves DEF Owning

\* A handler outside of its sections answers.
LEMMA FinishKeeps ==
  ASSUME LockInv, NEW c \in Clients, NEW reply, Finish(c, reply),
         call[c].pc \notin Owning \cup {"idle"}, UNCHANGED <<lock, overlapped>>
  PROVE  LockInv'
<1> DEFINE new == [call[c] EXCEPT !.pc = "done", !.reply = reply]
<1>1. call' = [call EXCEPT ![c] = new]
  BY DEF Finish
<1>2. Fields \subseteq DOMAIN new /\ new.pc = "done"
  BY DEF LockInv, CallShape, Fields
<1> HIDE DEF new
<1> QED BY <1>1, <1>2, OutsideKeeps DEF Owning

\* A handler outside of its sections goes on to another step outside of them.
LEMMA GotoKeeps ==
  ASSUME LockInv, NEW c \in Clients, NEW pc, Goto(c, pc),
         pc \notin Owning \cup {"taking"},
         call[c].pc \notin Owning \cup {"idle"}, UNCHANGED <<lock, overlapped>>
  PROVE  LockInv'
<1> DEFINE new == [call[c] EXCEPT !.pc = pc]
<1>1. call' = [call EXCEPT ![c] = new]
  BY DEF Goto
<1>2. Fields \subseteq DOMAIN new /\ new.pc = pc
  BY DEF LockInv, CallShape, Fields
<1> HIDE DEF new
<1> QED BY <1>1, <1>2, OutsideKeeps

\* The steps of the handlers proper.
LEMMA HandlerKeeps ==
  ASSUME LockInv, NEW c \in Clients,
         \/ Handle(c) \/ ReadCheck(c) \/ ReadCopy(c)
         \/ FindContext(c) \/ StoreStr(c) \/ StoreSize(c)
  PROVE  LockInv'
<1>1. CASE Handle(c)
  <2>1. PICK reply \in Replies(R(c), S(c)) : Finish(c, reply)
    BY <1>1 DEF Handle
  <2>2. call[c].pc = "entered" /\ UNCHANGED <<lock, overlapped>>
    BY <1>1 DEF Handle, Ready, In
  <2> QED BY <2>1, <2>2, FinishKeeps DEF Owning
<1>2. CASE ReadCheck(c)
  <2>1. call[c].pc = "entered" /\ UNCHANGED <<lock, overlapped>>
    BY <1>2 DEF ReadCheck, Admits, Ready, In
  <2>2. Finish(c, Err("SHORT")) \/ Goto(c, "copying")
    BY <1>2 DEF ReadCheck
  <2> QED BY <2>1, <2>2, FinishKeeps, GotoKeeps DEF Owning
<1>3. CASE ReadCopy(c)
  <2>1. call[c].pc = "copying" /\ UNCHANGED <<lock, overlapped>>
    BY <1>3 DEF ReadCopy, In
  <2>2. \E reply : Finish(c, reply)
    BY <1>3 DEF ReadCopy
  <2> QED BY <2>1, <2>2, FinishKeeps DEF Owning
<1>4. CASE FindContext(c)
  <2>1. call[c].pc = "entered" /\ UNCHANGED <<lock, overlapped>>
    BY <1>4 DEF FindContext, Admits, Ready, In
  <2>2. CASE UNCHANGED call
    BY <2>1, <2>2, ElsewhereKeeps
  <2>3. CASE \E reply : Finish(c, reply)
    BY <2>1, <2>3, FinishKeeps DEF Owning
  <2>4. ASSUME NEW t \in Params,
               call' = [call EXCEPT ![c].pc = "storing", ![c].reg = t]
        PROVE  LockInv'
    <3> DEFINE new == [call[c] EXCEPT !.pc = "storing", !.reg = t]
    <3>1. call' = [call EXCEPT ![c] = new]
      BY <2>4
    <3>2. Fields \subseteq DOMAIN new /\ new.pc = "storing"
      BY DEF LockInv, CallShape, Fields
    <3> HIDE DEF new
    <3> QED BY <2>1, <3>1, <3>2, OutsideKeeps DEF Owning
  <2> QED BY <1>4, <2>2, <2>3, <2>4 DEF FindContext
<1>5. CASE StoreStr(c)
  <2>1. call[c].pc = "storing" /\ UNCHANGED <<lock, overlapped>>
    BY <1>5 DEF StoreStr, In
  <2> QED BY <1>5, <2>1, GotoKeeps DEF StoreStr, Owning
<1>6. CASE StoreSize(c)
  <2>1. call[c].pc = "sizing" /\ UNCHANGED <<lock, overlapped>>
    BY <1>6 DEF StoreSize, In
  <2> QED BY <1>6, <2>1, FinishKeeps DEF StoreSize, Owning
<1> QED BY <1>1, <1>2, <1>3, <1>4, <1>5, <1>6

\* A request is answered and the handler idle again.
LEMMA DeliverKeeps ==
  ASSUME LockInv, NEW c \in Clients, Deliver(c)
  PROVE  LockInv'
<1>1. /\ call[c].pc = "done" /\ call' = [call EXCEPT ![c] = Idle]
      /\ UNCHANGED <<lock, overlapped>>
  BY DEF Deliver, In
<1>2. Fields \subseteq DOMAIN Idle /\ Idle.pc = "idle"
  BY DEF Idle, Fields
<1> QED BY <1>1, <1>2, OutsideKeeps DEF Owning

\* A request arrives: handlers overlap from then on, or this one runs alone.
LEMMA ReceiveKeeps ==
  ASSUME LockInv, NEW c \in Clients, Receive(c)
  PROVE  LockInv'
<1>1. PICK r \in Asks(in) :
        call' = [call EXCEPT ![c] = [Idle EXCEPT !.pc = "entered", !.req = r,
                                          !.at = namer(r.path),
                                          !.todo = Sections(r, namer(r.path))]]
  BY DEF Receive
<1> DEFINE new == [Idle EXCEPT !.pc = "entered", !.req = r, !.at = namer(r.path),
                               !.todo = Sections(r, namer(r.path))]
<1>2. Fields \subseteq DOMAIN new /\ new.pc = "entered"
  BY DEF Idle, Fields
<1>3. call' = [call EXCEPT ![c] = new]
  BY <1>1
<1> HIDE DEF new
<1>4. CallShape' /\ call'[c] = new /\ \A d \in Clients \ {c} : call'[d] = call[d]
  BY <1>2, <1>3 DEF LockInv, CallShape
<1>5. lock' = lock /\ call[c].pc = "idle"
  BY DEF Receive, In
<1>6. ASSUME ~overlapped'
      PROVE  Alone' /\ Level' /\ Loaded'
  <2>1. ~overlapped /\ \A d \in Clients \ {c} : call[d].pc = "idle"
    BY <1>6 DEF Receive
  <2>2. Alone'
    BY <1>4, <2>1 DEF Alone
  <2>3. lock = 0
    BY <1>5, <2>1 DEF LockInv, Level, Owning
  <2>4. Level' /\ Loaded'
    BY <1>2, <1>4, <1>5, <2>1, <2>3 DEF Level, Loaded, Owning
  <2> QED BY <2>2, <2>4
<1> QED BY <1>4, <1>6 DEF LockInv

-----------------------------------------------------------------------------

\* Every step keeps the invariant.
LEMMA NextLockInv == LockInv /\ [ServeNext]_serveVars => LockInv'
<1> SUFFICES ASSUME LockInv, [ServeNext]_serveVars PROVE LockInv'
  OBVIOUS
<1>1. CASE Start \/ Unmount \/ Over \/ UNCHANGED serveVars
  BY <1>1, ElsewhereKeeps
     DEF Start, BuildTree, Prevstate, RmfsInit, Unmount, Over, serveVars
<1>2. CASE \E c \in Clients : Receive(c)
  BY <1>2, ReceiveKeeps
<1>3. CASE \E c \in Clients : Step(c)
  BY <1>3, SectionKeeps, HandlerKeeps, DeliverKeeps DEF Step
<1> QED BY <1>1, <1>2, <1>3 DEF ServeNext

\* Where the lock is at every step of a handler that runs alone, for every
\* tree and every sequence of requests.
THEOREM ServeLockInvariant == ServeSpec => []LockInv
  BY InitLockInv, NextLockInv, PTL DEF ServeSpec

\* rmfs_param.c:11: as long as handlers have not overlapped, the lock is where
\* it was at the start whenever no handler runs.
THEOREM ServeLockBalanced == ServeSpec => []LockBalanced
<1>1. LockInv => LockBalanced
  BY DEF LockInv, Level, Owning, LockBalanced
<1> QED BY <1>1, ServeLockInvariant, PTL

\* The handlers are served over trees that mk_fs() builds and leave them as
\* they are: whatever MkFs says of its states holds while requests are served.
THEOREM ServeRunsMkFs == ServeSpec => Spec
<1>1. ServeInit => Init
  BY DEF ServeInit
<1>2. [ServeNext]_serveVars => [Next]_vars
  BY DEF ServeNext, Start, BuildTree, Prevstate, RmfsInit, Unmount, Over, Receive,
         Step, TakeLoad, TakeStore, DropLoad, DropStore, Handle, ReadCheck, ReadCopy,
         FindContext, StoreStr, StoreSize, Deliver, Next, serveVars
<1> QED BY <1>1, <1>2, PTL DEF ServeSpec, Spec

-----------------------------------------------------------------------------
(* What handlers know *)

\* What namer() can reach: the cluster's node, and the named nodes below it.
\* The root's own attributes and its control directory are beside it.
Seen(s) ==
    \/ s = p_fsroot
    \/ LET d == rn[s].parent
       IN /\ s \in Slots /\ Named(s) /\ rn[s].rtype # "ROOT"
          /\ d \in Dirs /\ s \in Kids(d) /\ rn[d].rtype # "ROOT"
          /\ d = p_fsroot \/ rn[rn[d].parent].rtype # "ROOT"

\* What a handler h knows of its request after the kernel has found the path.
Pcs == {"idle", "entered", "taking", "held", "dropping", "copying", "storing", "sizing", "done"}
ServedAs(h) ==
    LET r == h.req s == h.at
    IN /\ IsRequest(r) /\ s = namer(r.path) /\ s \in Slots \cup {NULL}
       /\ r.op # "getattr" => s # NULL
       /\ r.op = "readdir" => rn[s].isdir
       /\ r.op = "write" => ~rn[s].isdir

\* Where a handler is.
HandlerOK(h) ==
    /\ DOMAIN h = Fields /\ h.pc \in Pcs /\ h.todo \in Nat /\ h.reg \in Int
    /\ h.pc = "idle" => h.at = NULL
    /\ h.pc # "idle" => phase # "mk_fs" /\ ServedAs(h)
    /\ h.pc \in {"taking", "held", "dropping"} => h.todo > 0
    /\ h.pc = "copying" => h.req.op = "read"
    /\ h.pc \in {"storing", "sizing"} => StoresContext(h.req) /\ h.reg \in Params
    /\ h.pc = "done" /\ h.req.op = "readdir" => h.reply = List(h.at)

\* The handlers of a mounted tree know where they are, and have not made
\* anything of the super block.
ServeInv ==
    /\ phase \in {"mk_fs", "fuse_main", "serving", "ended"}
    /\ phase # "mk_fs" => status = "mounted"
    /\ phase = "mk_fs" => stored = <<>>
    /\ fsid \in {0, 1} /\ version \in {0, 1} /\ p_dirty = NULL
    /\ lock \in Int /\ overlapped \in BOOLEAN
    /\ DOMAIN stored \subseteq Slots
    /\ DOMAIN call = Clients /\ \A c \in Clients : HandlerOK(call[c])

-----------------------------------------------------------------------------
(* Where namer() gets in a mounted tree *)

\* What a tree that has been mounted is known to be.
Mounted == IInv /\ TreeInv /\ MountInv /\ status = "mounted"

\* The nodes that can be seen are below the root, and say rightly what they are.
LEMMA SeenFacts ==
  ASSUME Mounted, NEW s, Seen(s)
  PROVE  /\ s \in Slots /\ s \in Nat /\ rn[s].rtype \in BuiltTypes \ {"ROOT"} /\ Flagged(s)
         /\ rn[s].isdir \in BOOLEAN
         /\ s = p_fsroot => rn[s].rtype = "CLUSTER"
         /\ s # p_fsroot => LET d == rn[s].parent
                            IN /\ Named(s) /\ d \in Dirs /\ NamedOK(s)
                               /\ d = p_fsroot \/ rn[rn[d].parent].rtype # "ROOT"
<1>1. s \in Slots
  BY DEF Mounted, MountInv, FsRootIs, Dirs, Seen
<1>2. s \in Nat /\ rn[s].isdir \in BOOLEAN
  <2>1. BaseAlloc \in Nat /\ nxt_avail \in Nat /\ NodeOK(rn[s])
    BY <1>1, BaseAllocAssumption DEF Mounted, IInv, PoolInv
  <2> QED BY <1>1, <2>1 DEF Slots, NodeOK
<1>3. NamedOK(s) /\ NodeSays(s)
  BY <1>1 DEF Mounted, TreeInv, MountInv, NodesInv
<1>4. CASE s = p_fsroot
  <2>1. rn[s].rtype = "CLUSTER" /\ rn[s].children # NULL
    BY <1>4 DEF Mounted, MountInv, FsRootIs, Dirs
  <2> QED BY <1>1, <1>2, <1>3, <1>4, <2>1 DEF NodeSays, BuiltTypes
<1>5. CASE s # p_fsroot
  <2>1. LET d == rn[s].parent
        IN /\ Named(s) /\ rn[s].rtype # "ROOT" /\ d \in Dirs
           /\ d = p_fsroot \/ rn[rn[d].parent].rtype # "ROOT"
    BY <1>5 DEF Seen
  <2>2. Flagged(s)
    BY <1>3, <2>1 DEF NodeSays
  <2>3. rn[s].rtype \in BuiltTypes
    BY <1>3, <2>1 DEF NamedOK, MayHold, BuiltTypes, AttrTypes, AttrSubtypes
  <2> QED BY <1>1, <1>2, <1>3, <1>5, <2>1, <2>2, <2>3
<1> QED BY <1>4, <1>5

\* What a directory lists can be seen when the directory can.
LEMMA SeenBelow ==
  ASSUME Mounted, NEW s, Seen(s), NEW t \in Listed(s)
  PROVE  Seen(t) /\ t \in Nat /\ rn[t].parent = s
<1>1. /\ s \in Slots /\ s \in Nat /\ rn[s].rtype # "ROOT"
      /\ s = p_fsroot \/ rn[rn[s].parent].rtype # "ROOT"
  <2>1. s # p_fsroot => rn[rn[s].parent].rtype # "ROOT"
    BY DEF Seen
  <2> QED BY <2>1, SeenFacts
<1>2. t \in Kids(s) /\ rn[s].children # NULL
  BY DEF Listed, Kids
<1>3. s \in Dirs
  BY <1>1, <1>2 DEF Dirs
<1>4. /\ rn[s].children \in Nat /\ rn[s].children > s /\ rn[s].n \in Nat
      /\ rn[s].children + rn[s].n < nxt_avail /\ nxt_avail \in Nat
  <2>1. rn[s].children > s /\ rn[s].children + rn[s].n < nxt_avail
    BY <1>3 DEF Mounted, IInv, DirsInv, GuardOf
  <2>2. NodeOK(rn[s]) /\ nxt_avail \in Nat /\ BaseAlloc \in Nat
    BY <1>1, BaseAllocAssumption DEF Mounted, IInv, PoolInv
  <2>3. rn[s].children \in Nat /\ rn[s].n \in Nat
    BY <1>2, <2>2 DEF NodeOK, Slots
  <2> QED BY <2>1, <2>2, <2>3
<1>5. t \in rn[s].children .. (rn[s].children + rn[s].n - 1)
  BY <1>2 DEF Kids
<1>6. t \in Slots /\ t > s /\ t \in Nat /\ s >= BaseAlloc /\ BaseAlloc \in Nat
  BY <1>1, <1>4, <1>5, BaseAllocAssumption DEF Slots
<1>7. Named(t)
  BY <1>4, <1>5 DEF Listed
<1>8. rn[t].parent = s
  BY <1>2, <1>3, <1>7 DEF Mounted, TreeInv, DirOK
<1>9. rn[t].rtype # "ROOT"
  <2>1. NodeSays(t)
    BY <1>6 DEF Mounted, MountInv, NodesInv
  <2> QED BY <1>1, <1>6, <2>1 DEF NodeSays
<1> QED BY <1>1, <1>2, <1>3, <1>6, <1>7, <1>8, <1>9 DEF Seen

\* Of the files that can be seen none may be written, and none is a knob.
LEMMA FileIsRead ==
  ASSUME Mounted, NEW s, Seen(s), ~rn[s].isdir
  PROVE  ~Writable(s) /\ ~Controllable(s)
<1>1. rn[s].rtype \in BuiltTypes \ {"ROOT"} /\ ~IsDir(rn[s].rtype)
  BY SeenFacts DEF Flagged
<1>2. Row(rn[s].rtype) = IF rn[s].rtype = "ALLOCJOB" THEN "NODESTATE" ELSE rn[s].rtype
  BY <1>1, BuiltRows
<1>3. rn[s].rtype \in AttrTypes
  BY <1>1, <1>2 DEF IsDir, FileTypes, AttrTypes, AttrSubtypes
<1>4. rn[s].rtype # "CLUSTER"
  BY <1>3 DEF AttrTypes, AttrSubtypes
<1>5. PICK d : d = rn[s].parent
  OBVIOUS
<1>6. /\ d \in Dirs /\ Named(s) /\ NamedOK(s)
      /\ d = p_fsroot \/ rn[rn[d].parent].rtype # "ROOT"
  BY <1>4, <1>5, SeenFacts
<1>7. \/ MayHold(rn[d].rtype, rn[s].rtype)
      \/ rn[d].rtype = "CONTROL" /\ rn[s].rtype = "ATTRIBUTE"
  BY <1>1, <1>5, <1>6 DEF NamedOK
<1>8. d = p_fsroot => rn[d].rtype = "CLUSTER"
  BY DEF Mounted, MountInv, FsRootIs
<1>9. rn[s].rtype # "CONTEXT"
  <2> SUFFICES ASSUME rn[s].rtype = "CONTEXT" PROVE FALSE
    OBVIOUS
  <2>1. rn[d].rtype = "ATTRIBUTES"
    BY <1>7 DEF MayHold
  <2>2. NodeSays(s)
    BY SeenFacts DEF Mounted, MountInv, NodesInv
  <2>3. rn[rn[d].parent].rtype \in {"ROOT", "JOBID"}
    BY <1>5, <1>6, <2>2 DEF NodeSays
  <2>4. OfJob(d)
    BY <1>6, <1>8, <2>1, <2>3 DEF OfJob
  <2>5. \E k \in 1 .. Depth : stack[k].at = d
    BY <1>6, <2>4 DEF Mounted, MountInv, JobsInv
  <2>6. Depth = 0
    BY DEF Mounted, MountInv, Depth
  <2> QED BY <2>5, <2>6
<1>10. rn[s].rtype # "KNOB"
  <2> SUFFICES ASSUME rn[s].rtype = "KNOB" PROVE FALSE
    OBVIOUS
  <2>1. rn[d].rtype = "CONTROL"
    BY <1>7 DEF MayHold
  <2>2. CtlOfRoot(d)
    BY <1>6 DEF Mounted, MountInv, NodesInv
  <2> QED BY <1>6, <1>8, <2>1, <2>2 DEF CtlOfRoot
<1> QED BY <1>2, <1>3, <1>9, <1>10 DEF Writable, Controllable, AttrTypes, AttrSubtypes

\* A turn of the walk stays, fails, or goes to the first entry with the name.
LEMMA LookIs ==
  ASSUME Mounted, NEW s, s # NULL => Seen(s), NEW nm, NEW last \in BOOLEAN
  PROVE  LET t == Look(s, nm, last)
         IN \/ t = s /\ (s = NULL \/ ~rn[s].isdir \/ (last /\ rn[s].nm = nm))
            \/ t = NULL /\ \A u \in Listed(s) : rn[u].nm # nm
            \/ t \in Listed(s) /\ s # NULL /\ rn[t].nm = nm
<1> DEFINE hits == {t \in Listed(s) : rn[t].nm = nm}
           first == CHOOSE t \in hits : \A u \in hits : t <= u
<1>1. CASE s = NULL \/ ~rn[s].isdir \/ (last /\ rn[s].nm = nm)
  BY <1>1 DEF Look
<1>2. CASE ~(s = NULL \/ ~rn[s].isdir \/ (last /\ rn[s].nm = nm))
  <2>1. CASE hits = {}
    BY <1>2, <2>1 DEF Look
  <2>2. CASE hits # {}
    <3>1. hits \in SUBSET Nat
      BY <1>2, SeenBelow
    <3>2. \E t \in hits : \A u \in hits : t <= u
      BY <2>2, <3>1, Least
    <3>3. first \in hits
      BY <3>2, Zenon
    <3>4. Look(s, nm, last) = first
      BY <1>2, <2>2 DEF Look
    <3> HIDE DEF first
    <3> QED BY <1>2, <3>3, <3>4
  <2> QED BY <2>1, <2>2
<1> QED BY <1>1, <1>2


\* The first m turns of the walk along a path.
Walk(path, m, f) ==
    f = [k \in 0 .. m |-> IF k = 0 THEN p_fsroot
                         ELSE Look(f[k - 1], path[k], k = Len(path))]

\* There is a walk along every path.
LEMMA WalkExists ==
  ASSUME NEW path, NEW m \in Nat
  PROVE  \E f : Walk(path, m, f)
<1> DEFINE Bad == {k \in Nat : ~\E f : Walk(path, k, f)}
<1> SUFFICES ASSUME Bad # {} PROVE FALSE
  OBVIOUS
<1>1. PICK b \in Bad : \A j \in Bad : b <= j
  <2>1. Bad \in SUBSET Nat
    OBVIOUS
  <2> HIDE DEF Bad
  <2> QED BY <2>1, Least
<1>2. b \in Nat /\ ~\E f : Walk(path, b, f)
  OBVIOUS
<1>3. CASE b = 0
  <2> DEFINE f == [k \in 0 .. 0 |-> p_fsroot]
  <2>1. Walk(path, 0, f)
    BY DEF Walk
  <2> QED BY <1>2, <1>3, <2>1
<1>4. CASE b # 0
  <2>1. b - 1 \in Nat /\ b - 1 \notin Bad
    BY <1>1, <1>2, <1>4
  <2>2. PICK f : Walk(path, b - 1, f)
    BY <2>1
  <2> DEFINE g == [k \in 0 .. b |-> IF k = b THEN Look(f[b - 1], path[b], b = Len(path))
                                   ELSE f[k]]
  <2>3. \A k \in 0 .. (b - 1) : /\ k \in 0 .. b /\ k # b
                               /\ f[k] = IF k = 0 THEN p_fsroot
                                         ELSE Look(f[k - 1], path[k], k = Len(path))
    BY <1>2, <2>1, <2>2 DEF Walk
  <2>4. ASSUME NEW k \in 0 .. b
        PROVE  g[k] = IF k = 0 THEN p_fsroot ELSE Look(g[k - 1], path[k], k = Len(path))
    <3>1. CASE k = b
      <4>1. b - 1 \in 0 .. b /\ b - 1 # b
        BY <1>2, <2>1
      <4>2. g[b - 1] = f[b - 1]
        BY <4>1
      <4>3. g[k] = Look(f[b - 1], path[b], b = Len(path))
        BY <3>1
      <4> HIDE DEF g
      <4> QED BY <1>4, <3>1, <4>2, <4>3
    <3>2. CASE k # b
      <4>1. k \in 0 .. (b - 1)
        BY <1>2, <3>2
      <4>2. k # 0 => k - 1 \in 0 .. (b - 1)
        BY <1>2, <4>1
      <4>3. g[k] = f[k]
        BY <3>2
      <4>4. k # 0 => g[k - 1] = f[k - 1]
        BY <2>3, <4>2
      <4> HIDE DEF g
      <4> QED BY <2>3, <4>1, <4>3, <4>4
    <3> QED BY <3>1, <3>2
  <2>5. g = [k \in 0 .. b |-> g[k]]
    OBVIOUS
  <2>6. Walk(path, b, g)
    <3> HIDE DEF g
    <3>1. [k \in 0 .. b |-> g[k]]
          = [k \in 0 .. b |-> IF k = 0 THEN p_fsroot
                             ELSE Look(g[k - 1], path[k], k = Len(path))]
      BY <2>4
    <3> QED BY <2>5, <3>1, Zenon DEF Walk
  <2> QED BY <1>2, <2>6
<1> QED BY <1>3, <1>4

\* What namer() finds is where the walk ends.
LEMMA NamerWalks ==
  ASSUME NEW path, Len(path) \in Nat
  PROVE  \E f : /\ f[0] = p_fsroot /\ namer(path) = f[Len(path)]
                /\ \A k \in 1 .. Len(path) : f[k] = Look(f[k - 1], path[k], k = Len(path))
<1> DEFINE w == CHOOSE f : f = [k \in 0 .. Len(path) |-> IF k = 0 THEN p_fsroot
                                 ELSE Look(f[k - 1], path[k], k = Len(path))]
<1>1. \E f : f = [k \in 0 .. Len(path) |-> IF k = 0 THEN p_fsroot
                                 ELSE Look(f[k - 1], path[k], k = Len(path))]
  BY WalkExists DEF Walk
<1>2. w = [k \in 0 .. Len(path) |-> IF k = 0 THEN p_fsroot
                                 ELSE Look(w[k - 1], path[k], k = Len(path))]
  BY <1>1, Zenon
<1>3. namer(path) = w[Len(path)]
  BY Zenon DEF namer
<1> HIDE DEF w
<1>4. w[0] = p_fsroot
  BY <1>2
<1>5. \A k \in 1 .. Len(path) : w[k] = Look(w[k - 1], path[k], k = Len(path))
  BY <1>2
<1> QED BY <1>3, <1>4, <1>5

IsWalk(path, f) ==
    /\ f[0] = p_fsroot /\ namer(path) = f[Len(path)]
    /\ \A k \in 1 .. Len(path) : f[k] = Look(f[k - 1], path[k], k = Len(path))

\* namer() is a walk.
LEMMA WalkOf ==
  ASSUME NEW path, Len(path) \in Nat
  PROVE  \E f : IsWalk(path, f)
  BY NamerWalks DEF IsWalk

\* A walk gets to nothing but what can be seen.
LEMMA WalkSees ==
  ASSUME Mounted, NEW path, Len(path) \in Nat, NEW f, IsWalk(path, f),
         NEW m \in 0 .. Len(path), f[m] # NULL
  PROVE  Seen(f[m])
<1> DEFINE Bad == {k \in 0 .. Len(path) : f[k] # NULL /\ ~Seen(f[k])}
<1> SUFFICES ASSUME Bad # {} PROVE FALSE
  OBVIOUS
<1>1. f[0] = p_fsroot
      /\ \A k \in 1 .. Len(path) : f[k] = Look(f[k - 1], path[k], k = Len(path))
  BY DEF IsWalk
<1>2. PICK b \in Bad : \A j \in Bad : b <= j
  <2>1. Bad \in SUBSET Nat
    OBVIOUS
  <2> HIDE DEF Bad
  <2> QED BY <2>1, Least
<1>3. b \in 0 .. Len(path) /\ f[b] # NULL /\ ~Seen(f[b])
  BY Zenon
<1>4. b # 0
  BY <1>1, <1>3 DEF Seen
<1>5. b \in 1 .. Len(path) /\ b - 1 \in 0 .. Len(path) /\ ~(b <= b - 1)
  BY <1>3, <1>4
<1>6. f[b - 1] # NULL => Seen(f[b - 1])
  BY <1>2, <1>5
<1>7. PICK s : s = f[b - 1]
  OBVIOUS
<1>8. f[b] = Look(s, path[b], b = Len(path))
  BY <1>1, <1>5, <1>7
<1>9. \/ f[b] = s \/ f[b] = NULL
      \/ f[b] \in Listed(s) /\ s # NULL
  <2>1. PICK last \in BOOLEAN : last = (b = Len(path))
    OBVIOUS
  <2>2. s # NULL => Seen(s)
    BY <1>6, <1>7
  <2>3. PICK nm : nm = path[b]
    OBVIOUS
  <2>4. f[b] = Look(s, nm, last)
    BY <1>8, <2>1, <2>3
  <2>5. \/ Look(s, nm, last) = s \/ Look(s, nm, last) = NULL
        \/ Look(s, nm, last) \in Listed(s) /\ s # NULL
    BY <2>2, LookIs
  <2> QED BY <2>4, <2>5
<1> QED BY <1>3, <1>6, <1>7, <1>9, SeenBelow

\* Nothing but what can be seen is found.
LEMMA NamerSees ==
  ASSUME Mounted, NEW path, Len(path) \in Nat, namer(path) # NULL
  PROVE  Seen(namer(path))
<1>1. PICK f : IsWalk(path, f)
  BY NamerWalks DEF IsWalk
<1> QED BY <1>1, WalkSees DEF IsWalk

-----------------------------------------------------------------------------
(* Every step keeps the invariant of the handlers *)

\* As long as the tree stays, so does what a handler knows.
LEMMA HandlerStays ==
  ASSUME UNCHANGED vars, phase # "mk_fs" => phase' # "mk_fs", NEW h, HandlerOK(h)
  PROVE  HandlerOK(h)'
<1>1. namer(h.req.path)' = namer(h.req.path)
  BY SMT DEF vars, pool, roots, Look, Listed, Kids, Named, namer
<1>2. List(h.at)' = List(h.at)
  BY SMT DEF vars, pool, roots, Listed, Kids, Named, List, Reply
<1>3. rn' = rn /\ Slots' = Slots /\ Params' = Params
  BY DEF vars, pool, Slots, Params, Named
<1>4. ServedAs(h) => ServedAs(h)'
  BY <1>1, <1>3 DEF ServedAs, IsRequest
<1> QED BY <1>2, <1>3, <1>4 DEF HandlerOK, StoresContext

\* One handler moves on, and the others stay where they are.
LEMMA OneHandler ==
  ASSUME ServeInv, UNCHANGED vars, phase # "mk_fs" => phase' # "mk_fs",
         NEW c \in Clients, NEW g, call' = [call EXCEPT ![c] = g], HandlerOK(g)
  PROVE  DOMAIN call' = Clients /\ \A d \in Clients : HandlerOK(call[d])'
<1>1. DOMAIN call' = Clients /\ call'[c] = g /\ \A d \in Clients \ {c} : call'[d] = call[d]
  BY DEF ServeInv
<1>2. HandlerOK(g)'
  BY HandlerStays
<1>3. \A d \in Clients \ {c} : HandlerOK(call[d])'
  <2> SUFFICES ASSUME NEW d \in Clients \ {c} PROVE HandlerOK(call[d])'
    OBVIOUS
  <2>1. PICK h : h = call[d]
    OBVIOUS
  <2>2. HandlerOK(h)'
    BY <2>1, HandlerStays DEF ServeInv
  <2> QED BY <1>1, <2>1, <2>2
<1> QED BY <1>1, <1>2, <1>3

\* A handler that keeps its request and its node.
LEMMA HandlerMoves ==
  ASSUME NEW h, HandlerOK(h), h.pc # "idle",
         NEW g, DOMAIN g = Fields, g.req = h.req, g.at = h.at,
         g.pc \in Pcs \ {"idle"}, g.todo \in Nat, g.reg \in Int,
         g.pc \in {"taking", "held", "dropping"} => g.todo > 0,
         g.pc = "copying" => h.req.op = "read",
         g.pc \in {"storing", "sizing"} => StoresContext(h.req) /\ g.reg \in Params,
         g.pc = "done" /\ h.req.op = "readdir" => g.reply = List(h.at)
  PROVE  HandlerOK(g)
  BY DEF HandlerOK, ServedAs

\* A handler answers, and is done.
LEMMA FinishOK ==
  ASSUME ServeInv, NEW c \in Clients, NEW reply, call[c].pc # "idle",
         R(c).op = "readdir" => reply = List(S(c))
  PROVE  HandlerOK([call[c] EXCEPT !.pc = "done", !.reply = reply])
<1>1. PICK h : h = call[c]
  OBVIOUS
<1>2. PICK g : g = [h EXCEPT !.pc = "done", !.reply = reply]
  OBVIOUS
<1>3. HandlerOK(h)
  BY <1>1 DEF ServeInv
<1>4. DOMAIN h = Fields /\ h.todo \in Nat /\ h.reg \in Int
  BY <1>3 DEF HandlerOK
<1>5. DOMAIN g = Fields /\ g.req = h.req /\ g.at = h.at /\ g.pc = "done" /\ g.todo = h.todo
      /\ g.reg = h.reg /\ g.reply = reply
  BY <1>2, <1>4 DEF Fields
<1>6. HandlerOK(g)
  BY <1>1, <1>3, <1>4, <1>5, HandlerMoves DEF Pcs, R, S
<1> QED BY <1>1, <1>2, <1>6

\* A handler gets from one step to the next.
LEMMA GotoOK ==
  ASSUME ServeInv, NEW c \in Clients, NEW pc \in {"held", "copying", "sizing"},
         call[c].pc # "idle",
         pc = "held" => call[c].todo > 0, pc = "copying" => R(c).op = "read",
         pc = "sizing" => StoresContext(R(c)) /\ call[c].reg \in Params
  PROVE  HandlerOK([call[c] EXCEPT !.pc = pc])
<1>1. PICK h : h = call[c]
  OBVIOUS
<1>2. PICK g : g = [h EXCEPT !.pc = pc]
  OBVIOUS
<1>3. HandlerOK(h)
  BY <1>1 DEF ServeInv
<1>4. DOMAIN h = Fields /\ h.todo \in Nat /\ h.reg \in Int
  BY <1>3 DEF HandlerOK
<1>5. DOMAIN g = Fields /\ g.req = h.req /\ g.at = h.at /\ g.pc = pc /\ g.todo = h.todo
      /\ g.reg = h.reg
  BY <1>2, <1>4 DEF Fields
<1>6. HandlerOK(g)
  BY <1>1, <1>3, <1>4, <1>5, HandlerMoves DEF Pcs, R
<1> QED BY <1>1, <1>2, <1>6

\* The steps of a lock section.
LEMMA SectionOK ==
  ASSUME ServeInv, NEW c \in Clients,
         TakeLoad(c) \/ TakeStore(c) \/ DropLoad(c) \/ DropStore(c)
  PROVE  ServeInv'
<1>1. /\ UNCHANGED <<vars, phase, super, stored, overlapped>>
      /\ \/ TakeLoad(c) \/ DropLoad(c) \/ TakeStore(c) \/ DropStore(c)
  BY DEF TakeLoad, TakeStore, DropLoad, DropStore
<1>2. PICK h : h = call[c]
  OBVIOUS
<1>3. HandlerOK(h) /\ lock \in Int
  BY <1>2 DEF ServeInv
<1>4. DOMAIN h = Fields /\ h.todo \in Nat /\ h.reg \in Int
  BY <1>3 DEF HandlerOK
<1>5. lock' \in Int /\ \E g : call' = [call EXCEPT ![c] = g] /\ HandlerOK(g)
  <2>1. CASE TakeLoad(c)
    <3>1. h.pc = "entered" /\ h.todo > 0 /\ lock' = lock
      BY <1>2, <2>1 DEF TakeLoad, AtLock, In
    <3>2. PICK g : g = [h EXCEPT !.pc = "taking", !.reg = lock]
      OBVIOUS
    <3>3. call' = [call EXCEPT ![c] = g]
      BY <1>2, <2>1, <3>2 DEF TakeLoad
    <3>4. DOMAIN g = Fields /\ g.req = h.req /\ g.at = h.at /\ g.pc = "taking" /\ g.todo = h.todo
          /\ g.reg = lock
      BY <1>4, <3>2 DEF Fields
    <3>5. HandlerOK(g)
      BY <1>3, <1>4, <3>1, <3>4, HandlerMoves DEF Pcs
    <3>6. lock' \in Int
      BY <1>3, <3>1
    <3> QED BY <3>3, <3>5, <3>6, Zenon
  <2>2. CASE TakeStore(c)
    <3>1. h.pc = "taking" /\ lock' = h.reg + 1
      BY <1>2, <2>2 DEF TakeStore, In
    <3>2. HandlerOK([call[c] EXCEPT !.pc = "held"])
      BY <1>2, <1>3, <3>1, GotoOK DEF HandlerOK
    <3>3. call' = [call EXCEPT ![c] = [call[c] EXCEPT !.pc = "held"]]
      BY <2>2 DEF TakeStore, Goto
    <3>4. lock' \in Int
      BY <1>4, <3>1
    <3> QED BY <3>2, <3>3, <3>4, Zenon
  <2>3. CASE DropLoad(c)
    <3>1. h.pc = "held" /\ h.todo > 0 /\ lock' = lock
      BY <1>2, <1>3, <2>3 DEF DropLoad, In, HandlerOK
    <3>2. PICK g : g = [h EXCEPT !.pc = "dropping", !.reg = lock]
      OBVIOUS
    <3>3. call' = [call EXCEPT ![c] = g]
      BY <1>2, <2>3, <3>2 DEF DropLoad
    <3>4. DOMAIN g = Fields /\ g.req = h.req /\ g.at = h.at /\ g.pc = "dropping"
          /\ g.todo = h.todo /\ g.reg = lock
      BY <1>4, <3>2 DEF Fields
    <3>5. HandlerOK(g)
      BY <1>3, <1>4, <3>1, <3>4, HandlerMoves DEF Pcs
    <3>6. lock' \in Int
      BY <1>3, <3>1
    <3> QED BY <3>3, <3>5, <3>6, Zenon
  <2>4. CASE DropStore(c)
    <3>1. h.pc = "dropping" /\ h.todo > 0 /\ lock' = h.reg - 1
      BY <1>2, <1>3, <2>4 DEF DropStore, In, HandlerOK
    <3>2. PICK g : g = [h EXCEPT !.pc = "entered", !.todo = @ - 1, !.reg = 0]
      OBVIOUS
    <3>3. call' = [call EXCEPT ![c] = g]
      BY <1>2, <2>4, <3>2 DEF DropStore
    <3>4. DOMAIN g = Fields /\ g.req = h.req /\ g.at = h.at /\ g.pc = "entered"
          /\ g.todo = h.todo - 1 /\ g.reg = 0
      BY <1>4, <3>2 DEF Fields
    <3>5. HandlerOK(g)
      BY <1>3, <1>4, <3>1, <3>4, HandlerMoves DEF Pcs
    <3>6. lock' \in Int
      BY <1>4, <3>1
    <3> QED BY <3>3, <3>5, <3>6, Zenon
  <2> QED BY <1>1, <2>1, <2>2, <2>3, <2>4
<1>6. DOMAIN call' = Clients /\ \A d \in Clients : HandlerOK(call[d])'
  BY <1>1, <1>5, OneHandler
<1>7. status' = status /\ Slots' = Slots
  BY <1>1 DEF vars, pool, Slots
<1> QED BY <1>1, <1>5, <1>6, <1>7 DEF ServeInv, super

\* No handler of a write is let past the permission check: the kernel lets
\* nobody write to a directory, and no file that can be seen is for writing.
LEMMA NobodyWrites ==
  ASSUME ServeInv, Mounted, NEW c \in Clients
  PROVE  ~Admits(c, "write")
<1> SUFFICES ASSUME Admits(c, "write") PROVE FALSE
  OBVIOUS
<1>1. PICK h : h = call[c]
  OBVIOUS
<1>2. h.pc = "entered" /\ h.req.op = "write" /\ Permits(h.req, h.at) /\ h.at # NULL
  BY <1>1 DEF Admits, Ready, In, R, S
<1>3. ServedAs(h)
  BY <1>1, <1>2 DEF ServeInv, HandlerOK
<1>4. IsRequest(h.req) /\ h.at = namer(h.req.path) /\ ~rn[h.at].isdir
  BY <1>2, <1>3 DEF ServedAs
<1>5. Seen(h.at)
  BY <1>2, <1>4, NamerSees, LenProperties DEF IsRequest
<1>6. h.req.acc = "w"
  BY <1>2, <1>4 DEF IsRequest
<1>7. Writable(h.at) \/ Controllable(h.at)
  BY <1>2, <1>6 DEF Permits, MayAccess
<1> QED BY <1>4, <1>5, <1>7, FileIsRead

\* The steps of a handler but the two that store a context.
LEMMA AnswersOK ==
  ASSUME ServeInv, Mounted, NEW c \in Clients,
         Handle(c) \/ ReadCheck(c) \/ ReadCopy(c) \/ FindContext(c)
  PROVE  ServeInv' /\ UNCHANGED <<stored, p_dirty>>
<1>1. UNCHANGED <<vars, fsid, version, lock, overlapped>> /\ UNCHANGED <<stored, p_dirty>>
  BY NobodyWrites DEF Handle, ReadCheck, ReadCopy, FindContext, super
<1>2. /\ call[c].pc \in {"entered", "copying"} /\ phase = "serving"
      /\ phase' \in {"serving", "ended"}
  BY DEF Handle, ReadCheck, ReadCopy, FindContext, Ready, Admits, In
<1>3. \/ call' = call
      \/ \E g : call' = [call EXCEPT ![c] = g] /\ HandlerOK(g)
  <2>1. ASSUME NEW reply, Finish(c, reply), R(c).op = "readdir" => reply = List(S(c))
        PROVE  \E g : call' = [call EXCEPT ![c] = g] /\ HandlerOK(g)
    <3>1. HandlerOK([call[c] EXCEPT !.pc = "done", !.reply = reply])
      BY <1>2, <2>1, FinishOK
    <3>2. call' = [call EXCEPT ![c] = [call[c] EXCEPT !.pc = "done", !.reply = reply]]
      BY <2>1 DEF Finish
    <3> QED BY <3>1, <3>2, Zenon
  <2>2. CASE Handle(c)
    <3>1. PICK reply \in Replies(R(c), S(c)) : Finish(c, reply)
      BY <2>2 DEF Handle
    <3>2. R(c).op = "readdir" => S(c) # NULL
      <4>1. PICK h : h = call[c]
        OBVIOUS
      <4>2. ServedAs(h)
        BY <1>2, <4>1 DEF ServeInv, HandlerOK
      <4> QED BY <4>1, <4>2 DEF ServedAs, R, S
    <3>3. R(c).op = "readdir" => reply = List(S(c))
      <4> SUFFICES ASSUME R(c).op = "readdir" PROVE reply = List(S(c))
        OBVIOUS
      <4>1. \A r, s : r.op = "readdir" /\ s # NULL => Replies(r, s) = {List(s)}
        BY DEF Replies
      <4> QED BY <3>1, <3>2, <4>1
    <3> QED BY <2>1, <3>1, <3>3
  <2>3. CASE ReadCheck(c)
    <3>1. R(c).op = "read"
      BY <2>3 DEF ReadCheck, Admits
    <3>2. Finish(c, Err("SHORT")) \/ Goto(c, "copying")
      BY <2>3 DEF ReadCheck
    <3>3. CASE Goto(c, "copying")
      <4>1. HandlerOK([call[c] EXCEPT !.pc = "copying"])
        BY <1>2, <3>1, GotoOK
      <4>2. call' = [call EXCEPT ![c] = [call[c] EXCEPT !.pc = "copying"]]
        BY <3>3 DEF Goto
      <4> QED BY <4>1, <4>2, Zenon
    <3> QED BY <2>1, <3>1, <3>2, <3>3
  <2>4. CASE ReadCopy(c)
    <3>1. call[c].pc = "copying" /\ \E reply : Finish(c, reply)
      BY <2>4 DEF ReadCopy, In
    <3>2. R(c).op = "read"
      BY <3>1 DEF ServeInv, HandlerOK, R
    <3> QED BY <2>1, <3>1, <3>2
  <2>5. CASE FindContext(c)
    <3>1. StoresContext(R(c)) /\ R(c).op = "setxattr"
      BY <2>5 DEF FindContext, StoresContext
    <3>2. \/ UNCHANGED call \/ \E reply : Finish(c, reply)
          \/ \E t \in Params : call' = [call EXCEPT ![c].pc = "storing", ![c].reg = t]
      BY <2>5 DEF FindContext
    <3>3. ASSUME NEW t \in Params, call' = [call EXCEPT ![c].pc = "storing", ![c].reg = t]
          PROVE  \E g : call' = [call EXCEPT ![c] = g] /\ HandlerOK(g)
      <4>1. PICK h : h = call[c]
        OBVIOUS
      <4>2. PICK g : g = [h EXCEPT !.pc = "storing", !.reg = t]
        OBVIOUS
      <4>3. call' = [call EXCEPT ![c] = g]
        BY <3>3, <4>1, <4>2
      <4>4. HandlerOK(h)
        BY <4>1 DEF ServeInv
      <4>5. DOMAIN h = Fields /\ h.todo \in Nat
        BY <4>4 DEF HandlerOK
      <4>6. DOMAIN g = Fields /\ g.req = h.req /\ g.at = h.at /\ g.pc = "storing"
            /\ g.todo = h.todo /\ g.reg = t
        BY <4>2, <4>5 DEF Fields
      <4>7. t \in Int
        BY BaseAllocAssumption DEF Params, Slots, Mounted, IInv, PoolInv
      <4>8. HandlerOK(g)
        BY <1>2, <3>1, <4>1, <4>4, <4>5, <4>6, <4>7, HandlerMoves DEF Pcs, R
      <4> QED BY <4>3, <4>8, Zenon
    <3> QED BY <2>1, <3>1, <3>2, <3>3
  <2> QED BY <2>2, <2>3, <2>4, <2>5
<1>4. DOMAIN call' = Clients /\ \A d \in Clients : HandlerOK(call[d])'
  <2>1. CASE call' = call
    <3> SUFFICES ASSUME NEW d \in Clients PROVE HandlerOK(call[d])'
      BY <2>1 DEF ServeInv
    <3>1. PICK h : h = call[d]
      OBVIOUS
    <3>2. HandlerOK(h)'
      BY <1>1, <1>2, <3>1, HandlerStays DEF ServeInv
    <3> QED BY <2>1, <3>1, <3>2
  <2> QED BY <1>1, <1>2, <1>3, <2>1, OneHandler
<1>5. status' = status /\ Slots' = Slots
  BY <1>1 DEF vars, pool, Slots
<1> QED BY <1>1, <1>2, <1>4, <1>5 DEF ServeInv

\* The two steps that store a context.
LEMMA StoresOK ==
  ASSUME ServeInv, NEW c \in Clients, StoreStr(c) \/ StoreSize(c)
  PROVE  ServeInv' /\ StoresContext(R(c)) /\ UNCHANGED super
<1>1. UNCHANGED <<vars, phase, super, lock, overlapped>>
  BY DEF StoreStr, StoreSize
<1>2. call[c].pc \in {"storing", "sizing"} /\ phase = "serving"
  BY DEF StoreStr, StoreSize, In
<1>3. StoresContext(R(c)) /\ call[c].reg \in Params /\ R(c).op = "setxattr"
  BY <1>2 DEF ServeInv, HandlerOK, R, StoresContext
<1>4. \E v : Store(call[c].reg, v)
  BY Zenon DEF StoreStr, StoreSize
<1>5. DOMAIN stored' \subseteq Slots
  <2>1. DOMAIN stored' = DOMAIN stored \cup {call[c].reg}
    BY <1>4 DEF Store
  <2> QED BY <1>3, <2>1 DEF ServeInv, Params
<1>6. \E g : call' = [call EXCEPT ![c] = g] /\ HandlerOK(g)
  <2>1. CASE StoreStr(c)
    <3>1. HandlerOK([call[c] EXCEPT !.pc = "sizing"])
      BY <1>2, <1>3, GotoOK
    <3>2. call' = [call EXCEPT ![c] = [call[c] EXCEPT !.pc = "sizing"]]
      BY <2>1 DEF StoreStr, Goto
    <3> QED BY <3>1, <3>2, Zenon
  <2>2. CASE StoreSize(c)
    <3>1. HandlerOK([call[c] EXCEPT !.pc = "done", !.reply = OK])
      BY <1>2, <1>3, FinishOK
    <3>2. call' = [call EXCEPT ![c] = [call[c] EXCEPT !.pc = "done", !.reply = OK]]
      BY <2>2 DEF StoreSize, Finish
    <3> QED BY <3>1, <3>2, Zenon
  <2> QED BY <2>1, <2>2
<1>7. DOMAIN call' = Clients /\ \A d \in Clients : HandlerOK(call[d])'
  BY <1>1, <1>6, OneHandler
<1>8. status' = status /\ Slots' = Slots
  BY <1>1 DEF vars, pool, Slots
<1> QED BY <1>1, <1>2, <1>3, <1>5, <1>7, <1>8 DEF ServeInv, super

\* The entries of a listing can be counted.
LEMMA ListedCount ==
  ASSUME IInv, NEW s \in Slots
  PROVE  Cardinality(Listed(s)) \in Nat
<1>1. Listed(s) \subseteq Kids(s)
  BY DEF Listed
<1>2. IsFiniteSet(Kids(s))
  <2>1. CASE rn[s].children = NULL
    BY <2>1, FS_EmptySet DEF Kids
  <2>2. CASE rn[s].children # NULL
    <3>1. NodeOK(rn[s])
      BY DEF IInv, PoolInv
    <3>2. rn[s].children \in Int /\ rn[s].children + rn[s].n - 1 \in Int
      BY <2>2, <3>1, BaseAllocAssumption DEF NodeOK, Slots, IInv, PoolInv
    <3> QED BY <2>2, <3>2, FS_Interval DEF Kids
  <2> QED BY <2>1, <2>2
<1> QED BY <1>1, <1>2, FS_Subset, FS_CardinalityType

\* A request arrives.
LEMMA ReceiveOK ==
  ASSUME ServeInv, Mounted, NEW c \in Clients, Receive(c)
  PROVE  ServeInv' /\ UNCHANGED <<vars, super, stored>>
<1>1. UNCHANGED <<vars, phase, super, lock, stored>> /\ phase = "serving"
      /\ overlapped' \in BOOLEAN
  BY DEF Receive, In, ServeInv
<1>2. PICK r \in Asks(in) :
        /\ Deliverable(r)
        /\ call' = [call EXCEPT ![c] = [Idle EXCEPT !.pc = "entered", !.req = r,
                                          !.at = namer(r.path),
                                          !.todo = Sections(r, namer(r.path))]]
  BY DEF Receive
<1>3. PICK s : s = namer(r.path)
  OBVIOUS
<1>4. PICK g : g = [Idle EXCEPT !.pc = "entered", !.req = r, !.at = s, !.todo = Sections(r, s)]
  OBVIOUS
<1>5. call' = [call EXCEPT ![c] = g]
  BY <1>2, <1>3, <1>4
<1>6. DOMAIN g = Fields /\ g.req = r /\ g.at = s /\ g.pc = "entered"
      /\ g.todo = Sections(r, s) /\ g.reg = 0
  BY <1>4 DEF Idle, Fields
<1>7. IsRequest(r)
  BY ServeAssumption DEF Mounted, IInv, PoolInv
<1>8. s \in Slots \cup {NULL}
  <2>1. Len(r.path) \in Nat
    BY <1>7, LenProperties DEF IsRequest
  <2> QED BY <1>3, <2>1, NamerSees, SeenFacts
<1>9. /\ r.op # "getattr" => s # NULL
      /\ r.op = "readdir" => rn[s].isdir
      /\ r.op = "write" => ~rn[s].isdir
  BY <1>2, <1>3 DEF Deliverable
<1>10. Sections(r, s) \in Nat
  <2>1. CASE s = NULL
    BY <2>1 DEF Sections
  <2>2. CASE s # NULL
    <3>1. Cardinality(Listed(s)) \in Nat
      BY <1>8, <2>2, ListedCount DEF Mounted
    <3>2. Sections(r, s) \in {0, 1, 2, 2 + Cardinality(Listed(s))}
      BY <2>2 DEF Sections
    <3> QED BY <3>1, <3>2
  <2> QED BY <2>1, <2>2
<1>11. ServedAs(g)
  BY <1>3, <1>6, <1>7, <1>8, <1>9 DEF ServedAs
<1>12. HandlerOK(g)
  BY <1>1, <1>6, <1>10, <1>11 DEF HandlerOK, Pcs
<1>13. DOMAIN call' = Clients /\ \A d \in Clients : HandlerOK(call[d])'
  BY <1>1, <1>5, <1>12, OneHandler
<1>14. status' = status /\ Slots' = Slots
  BY <1>1 DEF vars, pool, Slots
<1> QED BY <1>1, <1>13, <1>14 DEF ServeInv, super

\* An answer is delivered.
LEMMA DeliverOK ==
  ASSUME ServeInv, NEW c \in Clients, Deliver(c)
  PROVE  ServeInv' /\ UNCHANGED <<vars, super, stored>>
<1>1. /\ UNCHANGED <<vars, phase, super, lock, stored, overlapped>>
      /\ call' = [call EXCEPT ![c] = Idle]
  BY DEF Deliver
<1>2. HandlerOK(Idle)
  BY DEF HandlerOK, Idle, Fields, Pcs
<1>3. DOMAIN call' = Clients /\ \A d \in Clients : HandlerOK(call[d])'
  BY <1>1, <1>2, OneHandler
<1>4. status' = status /\ Slots' = Slots
  BY <1>1 DEF vars, pool, Slots
<1> QED BY <1>1, <1>3, <1>4 DEF ServeInv, super

\* The steps of main().
LEMMA MainOK ==
  ASSUME ServeInv, Start \/ Unmount \/ Over \/ UNCHANGED serveVars
  PROVE  ServeInv' /\ UNCHANGED <<stored, p_dirty>>
         /\ (phase = "serving" => UNCHANGED <<vars, super>>)
<1>1. UNCHANGED <<lock, stored, call, overlapped, p_dirty>>
  BY DEF Start, BuildTree, Prevstate, RmfsInit, Unmount, Over, super, serveVars
<1>2. CASE BuildTree
  <2>1. phase = "mk_fs" /\ phase' = phase /\ UNCHANGED super
    BY <1>2 DEF BuildTree
  <2>2. \A h : HandlerOK(h) => HandlerOK(h)'
    BY <2>1 DEF HandlerOK
  <2>3. \A d \in Clients : HandlerOK(call[d])'
    BY <1>1, <2>2 DEF ServeInv
  <2>4. DOMAIN stored' \subseteq Slots'
    BY <1>1, <2>1 DEF ServeInv
  <2> QED BY <1>1, <2>1, <2>3, <2>4 DEF ServeInv, super
<1>3. CASE UNCHANGED vars
  <2>1. /\ phase' \in {"mk_fs", "fuse_main", "serving", "ended"}
        /\ phase # "mk_fs" => phase' # "mk_fs"
        /\ phase' # "mk_fs" => status = "mounted"
        /\ fsid' \in {0, 1} /\ version' \in {0, 1}
        /\ phase' = "mk_fs" => phase = "mk_fs"
        /\ phase = "serving" => UNCHANGED super
    <3>1. CASE BuildTree
      BY <3>1 DEF BuildTree, ServeInv, super
    <3>2. CASE Prevstate
      BY <3>2 DEF Prevstate, ServeInv, super
    <3>3. CASE RmfsInit
      BY <3>3 DEF RmfsInit, ServeInv, super
    <3>4. CASE Unmount \/ Over \/ UNCHANGED serveVars
      BY <3>4 DEF Unmount, Over, ServeInv, super, serveVars
    <3> QED BY <3>1, <3>2, <3>3, <3>4 DEF Start
  <2>2. \A d \in Clients : HandlerOK(call[d])'
    <3> SUFFICES ASSUME NEW d \in Clients PROVE HandlerOK(call[d])'
      OBVIOUS
    <3>1. PICK h : h = call[d]
      OBVIOUS
    <3>2. HandlerOK(h)'
      BY <1>3, <2>1, <3>1, HandlerStays DEF ServeInv
    <3> QED BY <1>1, <3>1, <3>2
  <2>3. status' = status /\ Slots' = Slots
    BY <1>3 DEF vars, pool, Slots
  <2> QED BY <1>1, <1>3, <2>1, <2>2, <2>3 DEF ServeInv
<1>4. BuildTree \/ UNCHANGED vars
  BY DEF Start, Prevstate, RmfsInit, Unmount, Over, serveVars
<1>5. phase = "serving" => ~BuildTree
  BY DEF BuildTree
<1> QED BY <1>1, <1>2, <1>3, <1>4, <1>5 DEF ServeInv

\* At the start no handler runs, and nothing is stored.
LEMMA InitServeInv == ServeInit => ServeInv
<1> SUFFICES ASSUME ServeInit PROVE ServeInv
  OBVIOUS
<1>1. HandlerOK(Idle)
  BY DEF HandlerOK, Idle, Fields, Pcs
<1>2. DOMAIN call = Clients /\ \A c \in Clients : HandlerOK(call[c])
  BY <1>1, Zenon DEF ServeInit
<1>3. DOMAIN stored = {}
  BY DEF ServeInit
<1>4. /\ phase = "mk_fs" /\ fsid = 0 /\ version = 0 /\ p_dirty = NULL /\ lock = 0
      /\ stored = <<>> /\ overlapped = FALSE
  BY DEF ServeInit
<1>5. /\ phase \in {"mk_fs", "fuse_main", "serving", "ended"}
      /\ phase # "mk_fs" => status = "mounted"
      /\ fsid \in {0, 1} /\ version \in {0, 1} /\ p_dirty = NULL
      /\ lock \in Int
  BY <1>4
<1>6. DOMAIN stored \subseteq Slots
  BY <1>3
<1>7. overlapped \in BOOLEAN
  BY <1>4, Zenon
<1> QED BY <1>2, <1>4, <1>5, <1>6, <1>7, Zenon DEF ServeInv

\* While requests are served, no step touches what mk_fs() and rmfs_init() have
\* made, or a parameter but to store a context in it.
FrozenStep ==
    /\ UNCHANGED <<vars, super>>
    /\ stored' # stored => \E c \in Clients : StoresContext(R(c))

\* Every step keeps the invariant of the handlers, over a tree that has those of
\* the builders.
LEMMA NextServeInv ==
  ASSUME IInv, TreeInv, MountInv, ServeInv, [ServeNext]_serveVars
  PROVE  ServeInv' /\ (phase = "serving" => FrozenStep)
<1>1. CASE Start \/ Unmount \/ Over \/ UNCHANGED serveVars
  BY <1>1, MainOK DEF FrozenStep
<1>2. ASSUME NEW c \in Clients, Receive(c) \/ Step(c)
      PROVE  ServeInv' /\ (phase = "serving" => FrozenStep)
  <2>1. phase = "serving"
    BY <1>2 DEF Receive, Step, TakeLoad, AtLock, TakeStore, DropLoad, DropStore, Handle, ReadCheck,
                ReadCopy, FindContext, StoreStr, StoreSize, Deliver, Ready, Admits, In
  <2>2. Mounted
    BY <2>1 DEF Mounted, ServeInv
  <2>3. CASE Receive(c) \/ Deliver(c)
    BY <2>2, <2>3, ReceiveOK, DeliverOK DEF FrozenStep
  <2>4. CASE TakeLoad(c) \/ TakeStore(c) \/ DropLoad(c) \/ DropStore(c)
    <3>1. UNCHANGED <<vars, super, stored>>
      BY <2>4 DEF TakeLoad, TakeStore, DropLoad, DropStore
    <3> QED BY <2>4, <3>1, SectionOK DEF FrozenStep
  <2>5. CASE Handle(c) \/ ReadCheck(c) \/ ReadCopy(c) \/ FindContext(c)
    <3>1. ServeInv' /\ UNCHANGED <<stored, p_dirty>>
      BY <2>2, <2>5, AnswersOK
    <3>2. UNCHANGED <<vars, super>>
      BY <2>5, <3>1 DEF Handle, ReadCheck, ReadCopy, FindContext, super
    <3> QED BY <3>1, <3>2 DEF FrozenStep
  <2>6. CASE StoreStr(c) \/ StoreSize(c)
    <3>1. UNCHANGED vars
      BY <2>6 DEF StoreStr, StoreSize
    <3> QED BY <2>6, <3>1, StoresOK DEF FrozenStep
  <2> QED BY <1>2, <2>3, <2>4, <2>5, <2>6 DEF Step
<1> QED BY <1>1, <1>2 DEF ServeNext

\* What is known of the tree while it is built holds while it is served.
LEMMA ServedTree == ServeSpec => [](IInv /\ TreeInv /\ MountInv)
  BY ServeRunsMkFs, Invariant, TreeInvariant, MountInvariant, PTL

\* Where every handler is, what it knows of its request, and that namer() finds
\* nothing but named nodes below the file system's root.
THEOREM ServeInvariant == ServeSpec => []ServeInv
  BY InitServeInv, NextServeInv, ServedTree, PTL DEF ServeSpec

\* The types of main()'s and the handlers' variables.
THEOREM ServeTypes == ServeSpec => []ServeTypeOK
<1>1. ServeInv => ServeTypeOK
  <2> SUFFICES ASSUME ServeInv PROVE ServeTypeOK
    OBVIOUS
  <2>1. ASSUME NEW c \in Clients
        PROVE  /\ call[c].pc \in Pcs /\ call[c].at \in Slots \cup {NULL}
               /\ call[c].todo \in Nat /\ call[c].reg \in Int
    BY DEF ServeInv, HandlerOK, ServedAs
  <2> QED BY <2>1 DEF ServeInv, ServeTypeOK, Pcs
<1> QED BY <1>1, ServeInvariant, PTL

\* After fuse_main() no request, and no overlap of handlers, changes a node, a
\* bookmark, the pool or the dirty list, and a parameter changes only by the
\* storing of a security context: every tree that can be mounted has nothing in
\* it, below the file system's root, that anybody may write.
THEOREM Immutable == ServeSpec => TreeImmutable
<1>1. IInv /\ TreeInv /\ MountInv /\ ServeInv /\ [ServeNext]_serveVars
      => [phase = "serving" => FrozenStep]_serveVars
  BY NextServeInv
<1> QED BY <1>1, ServedTree, ServeInvariant, PTL DEF ServeSpec, TreeImmutable, FrozenStep

-----------------------------------------------------------------------------
(* Listings and look-ups *)

\* The directories on a walk have the names that the path gives them.
LEMMA WalkNames ==
  ASSUME Mounted, ClusterNamed, NEW path, Len(path) \in Nat, NEW f, IsWalk(path, f),
         NEW m \in 0 .. Len(path), f[m] # NULL, rn[f[m]].isdir
  PROVE  rn[f[m]].nm = IF m = 0 THEN in.cname ELSE path[m]
<1>1. CASE m = 0
  <2>1. p_fsroot \in Dirs /\ rn[p_fsroot].rtype = "CLUSTER"
    BY DEF Mounted, MountInv, FsRootIs
  <2> QED BY <1>1, <2>1 DEF ClusterNamed, IsWalk
<1>2. CASE m # 0
  <2>1. m \in 1 .. Len(path) /\ m - 1 \in 0 .. Len(path)
    BY <1>2
  <2>2. PICK s, nm : s = f[m - 1] /\ nm = path[m]
    OBVIOUS
  <2>3. PICK last \in BOOLEAN : last = (m = Len(path))
    OBVIOUS
  <2>4. f[m] = Look(s, nm, last)
    BY <2>1, <2>2, <2>3 DEF IsWalk
  <2>5. s # NULL => Seen(s)
    BY <2>1, <2>2, WalkSees
  <2>6. PICK t : t = Look(s, nm, last)
    OBVIOUS
  <2>7. \/ t = s /\ (s = NULL \/ ~rn[s].isdir \/ (last /\ rn[s].nm = nm))
        \/ t = NULL
        \/ rn[t].nm = nm
    BY <2>5, <2>6, LookIs
  <2>8. t # NULL /\ rn[t].isdir /\ t = f[m]
    BY <2>4, <2>6
  <2>9. rn[t].nm = nm
    BY <2>7, <2>8
  <2> QED BY <1>2, <2>2, <2>8, <2>9
<1> QED BY <1>1, <1>2

\* What a listing shows is the front of a directory's block.
LEMMA ListedIs ==
  ASSUME IInv, NEW s \in Slots
  PROVE  \E m \in Nat : /\ Cardinality(Listed(s)) = m
                        /\ rn[s].children = NULL => m = 0 /\ Listed(s) = {}
                        /\ rn[s].children # NULL =>
                              /\ rn[s].children \in Nat
                              /\ Listed(s) = rn[s].children .. (rn[s].children + m - 1)
<1>1. CASE rn[s].children = NULL
  <2>1. Listed(s) = {}
    BY <1>1 DEF Listed, Kids
  <2>2. Cardinality(Listed(s)) = 0
    BY <2>1, FS_EmptySet
  <2> QED BY <1>1, <2>1, <2>2
<1>2. CASE rn[s].children # NULL
  <2>1. NodeOK(rn[s])
    BY DEF IInv, PoolInv
  <2>2. PICK a, n \in Nat : a = rn[s].children /\ n = rn[s].n
    BY <1>2, <2>1, BaseAllocAssumption DEF NodeOK, Slots, IInv, PoolInv
  <2> DEFINE Ends == {u \in a .. (a + n) : u = a + n \/ ~Named(u)}
  <2>3. PICK x \in Ends : \A u \in Ends : x <= u
    <3>1. Ends \in SUBSET Nat /\ a + n \in Ends
      OBVIOUS
    <3> HIDE DEF Ends
    <3> QED BY <3>1, Least
  <2>4. x \in a .. (a + n) /\ (x = a + n \/ ~Named(x))
    BY <2>3
  <2>5. \A u \in a .. (x - 1) : Named(u)
    <3> SUFFICES ASSUME NEW u \in a .. (x - 1) PROVE Named(u)
      OBVIOUS
    <3>1. u \in a .. (a + n) /\ ~(x <= u)
      BY <2>2, <2>4
    <3> QED BY <2>3, <3>1
  <2>6. Kids(s) = a .. (a + n - 1)
    BY <1>2, <2>2 DEF Kids
  <2> HIDE DEF Ends
  <2>7. Listed(s) = a .. (x - 1)
    <3>1. ASSUME NEW t \in Listed(s) PROVE t \in a .. (x - 1)
      <4>1. t \in a .. (a + n - 1) /\ \A u \in a .. t : Named(u)
        BY <2>2, <2>6 DEF Listed
      <4>2. ~(x <= t)
        BY <2>2, <2>4, <4>1
      <4> QED BY <2>2, <2>4, <4>1, <4>2
    <3>2. ASSUME NEW t \in a .. (x - 1) PROVE t \in Listed(s)
      <4>1. t \in a .. (a + n - 1)
        BY <2>2, <2>4
      <4>2. \A u \in a .. t : u \in a .. (x - 1)
        BY <2>2, <2>4
      <4> QED BY <2>2, <2>5, <2>6, <4>1, <4>2 DEF Listed
    <3> QED BY <3>1, <3>2
  <2>8. Cardinality(Listed(s)) = x - a
    <3>1. a \in Int /\ x - 1 \in Int /\ x - 1 - a + 1 = x - a /\ (a > x - 1 => x - a = 0)
      BY <2>2, <2>4
    <3>2. Cardinality(a .. (x - 1)) = IF a > x - 1 THEN 0 ELSE x - 1 - a + 1
      BY <3>1, FS_Interval
    <3> QED BY <2>7, <3>1, <3>2
  <2>9. PICK m \in Nat : m = x - a
    BY <2>2, <2>4
  <2>10. x - 1 = a + m - 1
    BY <2>2, <2>4, <2>9
  <2> QED BY <1>2, <2>2, <2>7, <2>8, <2>9, <2>10
<1> QED BY <1>1, <1>2

\* The entries of a listing are in it.
LEMMA ListedFront ==
  ASSUME IInv, NEW s \in Slots, NEW j \in 1 .. Cardinality(Listed(s))
  PROVE  rn[s].children + j - 1 \in Listed(s)
<1>1. PICK m \in Nat : /\ Cardinality(Listed(s)) = m
                       /\ rn[s].children = NULL => m = 0
                       /\ rn[s].children # NULL =>
                             /\ rn[s].children \in Nat
                             /\ Listed(s) = rn[s].children .. (rn[s].children + m - 1)
  BY ListedIs
<1>2. j \in 1 .. m
  BY <1>1
<1>3. rn[s].children # NULL
  BY <1>1, <1>2
<1> QED BY <1>1, <1>2, <1>3

\* A directory whose name is not asked for is the same to look in whether the
\* name is the last of the path or not.
LEMMA LookAnyway ==
  ASSUME NEW s, NEW nm, s # NULL /\ rn[s].isdir => rn[s].nm # nm,
         NEW last \in BOOLEAN
  PROVE  Look(s, nm, last) = Look(s, nm, FALSE)
  BY DEF Look

\* The names of a path, with a name in front.
LEMMA InFront ==
  ASSUME NEW T, NEW s \in Seq(T), NEW a \in T, NEW k \in 1 .. Len(s) + 1
  PROVE  (<<a>> \o s)[k] = IF k = 1 THEN a ELSE s[k - 1]
<1>1. PICK n \in Nat : n = Len(s)
  BY LenProperties
<1>2. PICK one : one = <<a>>
  OBVIOUS
<1>3. one \in Seq(T) /\ Len(one) = 1 /\ one[1] = a
  BY <1>2
<1>4. (one \o s)[k] = IF k <= Len(one) THEN one[k] ELSE s[k - Len(one)]
  <2>1. k \in 1 .. Len(one) + Len(s)
    BY <1>1, <1>3
  <2> QED BY <1>3, <2>1, ConcatProperties, Zenon
<1>5. k \in 1 .. n + 1
  BY <1>1
<1> QED BY <1>2, <1>3, <1>4, <1>5

\* What an added name makes of a path.
LEMMA AddedName ==
  ASSUME NEW path \in Seq(STRING), NEW nm
  PROVE  LET longer == path \o <<nm>> n == Len(path)
         IN /\ n \in Nat /\ Len(longer) = n + 1 /\ longer[n + 1] = nm
            /\ \A k \in 1 .. n : longer[k] = path[k]
            /\ \A a : /\ n > 0 => (<<a>> \o path)[n] = IF n = 1 THEN a ELSE path[n - 1]
                      /\ (<<a>> \o longer)[n + 1] = IF n = 0 THEN a ELSE path[n]
<1>1. PICK n \in Nat : n = Len(path)
  BY LenProperties
<1>2. PICK longer : longer = path \o <<nm>>
  OBVIOUS
<1>3. /\ Len(longer) = n + 1 /\ longer[n + 1] = nm
      /\ \A k \in 1 .. n : longer[k] = path[k]
  BY <1>1, <1>2
<1>4. ASSUME NEW a
      PROVE  /\ n > 0 => (<<a>> \o path)[n] = IF n = 1 THEN a ELSE path[n - 1]
             /\ (<<a>> \o longer)[n + 1] = IF n = 0 THEN a ELSE path[n]
  <2>1. PICK T : T = STRING \cup {nm, a}
    OBVIOUS
  <2>2. a \in T /\ path \in Seq(T) /\ longer \in Seq(T)
    <3>1. path \in Seq(T) /\ <<nm>> \in Seq(T)
      BY <2>1
    <3> QED BY <1>2, <2>1, <3>1, ConcatProperties
  <2>3. ASSUME n > 0 PROVE (<<a>> \o path)[n] = IF n = 1 THEN a ELSE path[n - 1]
    <3>1. n \in 1 .. Len(path) + 1
      BY <1>1, <2>3
    <3> QED BY <2>2, <3>1, InFront
  <2>4. (<<a>> \o longer)[n + 1] = IF n = 0 THEN a ELSE path[n]
    <3>1. n + 1 \in 1 .. Len(longer) + 1
      BY <1>3
    <3>2. (<<a>> \o longer)[n + 1] = IF n + 1 = 1 THEN a ELSE longer[n + 1 - 1]
      BY <2>2, <3>1, InFront
    <3>3. n + 1 - 1 = n /\ (n + 1 = 1 <=> n = 0) /\ (n # 0 => n \in 1 .. n)
      OBVIOUS
    <3> QED BY <1>3, <3>2, <3>3
  <2> QED BY <2>3, <2>4
<1> QED BY <1>1, <1>2, <1>3, <1>4

\* The walk along a path that is longer by a name is the same until then.
LEMMA SameWalk ==
  ASSUME Mounted, ClusterNamed, NEW path \in Seq(STRING), IsEntry(path), NEW nm,
         NEW longer, longer = path \o <<nm>>,
         NEW f, IsWalk(path, f), NEW g, IsWalk(longer, g)
  PROVE  g[Len(path)] = f[Len(path)]
<1>1. PICK n \in Nat : n = Len(path)
  BY LenProperties
<1>2. Len(longer) = n + 1 /\ \A k \in 1 .. n : longer[k] = path[k]
  BY <1>1, AddedName
<1> DEFINE Bad == {k \in 0 .. n : g[k] # f[k]}
<1> SUFFICES ASSUME Bad # {} PROVE FALSE
  BY <1>1
<1>3. PICK b \in Bad : \A j \in Bad : b <= j
  <2>1. Bad \in SUBSET Nat
    OBVIOUS
  <2> HIDE DEF Bad
  <2> QED BY <2>1, Least
<1>4. b \in 0 .. n /\ g[b] # f[b]
  OBVIOUS
<1>5. f[0] = p_fsroot /\ g[0] = p_fsroot
  BY DEF IsWalk
<1>6. b \in 1 .. n /\ b - 1 \in 0 .. n /\ ~(b <= b - 1)
  BY <1>4, <1>5
<1>7. g[b - 1] = f[b - 1]
  BY <1>3, <1>6
<1> HIDE DEF Bad
<1>8. PICK s, a : s = f[b - 1] /\ a = path[b]
  OBVIOUS
<1>9. f[b] = Look(s, a, b = n)
  BY <1>1, <1>6, <1>8 DEF IsWalk
<1>10. g[b] = Look(s, a, FALSE)
  <2>1. b \in 1 .. Len(longer) /\ (b = Len(longer)) = FALSE
    BY <1>2, <1>6
  <2>2. longer[b] = a
    BY <1>2, <1>6, <1>8
  <2> QED BY <1>7, <1>8, <2>1, <2>2 DEF IsWalk
<1>11. PICK last \in BOOLEAN : last = (b = n)
  OBVIOUS
<1>12. CASE last = FALSE
  BY <1>4, <1>9, <1>10, <1>11, <1>12
<1>13. CASE last = TRUE
  <2>1. b = n /\ n > 0
    <3>1. b = n
      BY <1>11, <1>13, Zenon
    <3> QED BY <1>6, <3>1
  <2>2. a # IF n = 1 THEN in.cname ELSE path[n - 1]
    BY <1>1, <1>8, <2>1, AddedName DEF IsEntry
  <2>3. s # NULL /\ rn[s].isdir => rn[s].nm # a
    <3> SUFFICES ASSUME s # NULL, rn[s].isdir PROVE rn[s].nm # a
      OBVIOUS
    <3>1. PICK m : m = n - 1
      OBVIOUS
    <3>2. m \in 0 .. Len(path) /\ f[m] # NULL /\ rn[f[m]].isdir /\ s = f[m]
      BY <1>1, <1>6, <1>8, <2>1, <3>1
    <3>3. rn[s].nm = IF m = 0 THEN in.cname ELSE path[m]
      BY <1>1, <3>2, WalkNames
    <3> QED BY <2>1, <2>2, <3>1, <3>3
  <2>4. Look(s, a, last) = Look(s, a, FALSE)
    BY <2>3, LookAnyway
  <2> QED BY <1>4, <1>9, <1>10, <1>11, <2>4
<1> QED BY <1>12, <1>13

\* An entry that a listing of a directory shows is found under its name.
LEMMA EntryFound ==
  ASSUME Mounted, ClusterNamed, NEW path \in Seq(STRING), IsEntry(path), NEW nm,
         NEW longer, longer = path \o <<nm>>, IsEntry(longer),
         NEW dir, dir = namer(path), dir # NULL, rn[dir].isdir,
         NEW t \in Listed(dir), rn[t].nm = nm
  PROVE  namer(longer) = t
<1>1. PICK n \in Nat : n = Len(path)
  BY LenProperties
<1>2. Len(longer) = n + 1 /\ longer[n + 1] = nm
  BY <1>1, AddedName
<1>3. PICK f : IsWalk(path, f)
  BY <1>1, WalkOf
<1>4. PICK g : IsWalk(longer, g)
  <2>1. PICK m \in Nat : m = Len(longer)
    BY <1>2
  <2>2. Len(longer) \in Nat
    BY <2>1, Zenon
  <2> QED BY <2>2, WalkOf, Zenon
<1>5. g[n] = f[n]
  BY <1>1, <1>3, <1>4, SameWalk
<1>6. f[n] = dir
  BY <1>1, <1>3 DEF IsWalk
<1>7. namer(longer) = Look(dir, nm, TRUE)
  <2>1. PICK m : m = n + 1
    OBVIOUS
  <2>2. m \in 1 .. Len(longer) /\ m = Len(longer) /\ m - 1 = n /\ longer[m] = nm
    BY <1>2, <2>1
  <2>3. namer(longer) = g[m] /\ g[m] = Look(g[m - 1], longer[m], m = Len(longer))
    BY <1>4, <2>2, Zenon DEF IsWalk
  <2>4. (m = Len(longer)) = TRUE
    BY <2>2
  <2> QED BY <1>5, <1>6, <2>2, <2>3, <2>4, Zenon
<1>8. rn[dir].nm # nm
  <2>1. rn[dir].nm = IF n = 0 THEN in.cname ELSE path[n]
    <3>1. n \in 0 .. Len(path) /\ f[n] # NULL /\ rn[f[n]].isdir
      BY <1>1, <1>6
    <3> QED BY <1>1, <1>3, <1>6, <3>1, WalkNames
  <2>2. nm # IF n = 0 THEN in.cname ELSE path[n]
    BY <1>1, <1>2, AddedName DEF IsEntry
  <2> QED BY <2>1, <2>2
<1>9. Seen(dir)
  BY <1>1, NamerSees
<1>10. PICK u : u = namer(longer)
  OBVIOUS
<1>11. u \in Listed(dir) /\ rn[u].nm = nm
  <2>1. \/ u = dir /\ (dir = NULL \/ ~rn[dir].isdir \/ (TRUE /\ rn[dir].nm = nm))
        \/ u = NULL /\ \A v \in Listed(dir) : rn[v].nm # nm
        \/ u \in Listed(dir) /\ dir # NULL /\ rn[u].nm = nm
    <3>1. PICK last \in BOOLEAN : last = TRUE
      OBVIOUS
    <3>2. u = Look(dir, nm, last)
      BY <1>7, <1>10, <3>1
    <3>3. \/ u = dir /\ (dir = NULL \/ ~rn[dir].isdir \/ (last /\ rn[dir].nm = nm))
          \/ u = NULL /\ \A v \in Listed(dir) : rn[v].nm # nm
          \/ u \in Listed(dir) /\ dir # NULL /\ rn[u].nm = nm
      BY <1>9, <3>2, LookIs
    <3> QED BY <3>3
  <2> QED BY <1>8, <2>1
<1>12. dir \in Dirs /\ rn[dir].rtype # "ROOT"
  <2>1. dir \in Slots /\ rn[dir].rtype # "ROOT"
    BY <1>9, SeenFacts
  <2>2. rn[dir].children # NULL
    BY DEF Listed, Kids
  <2> QED BY <2>1, <2>2 DEF Dirs
<1>13. ListedDistinct
  BY DEF Mounted, TreeInv
<1> QED BY <1>10, <1>11, <1>12, <1>13 DEF ListedDistinct

\* The entries of a listing say what look-ups of their paths find.
EntriesAgree(p, dir) ==
    \A j \in DOMAIN List(dir).shows.listing :
        LET entry == List(dir).shows.listing[j]
            path == p \o <<entry.nm>>
            s == namer(path)
        IN IsEntry(path) => s = List(dir).more.inos[j] /\ rn[s].isdir = entry.isdir

\* They do of every directory that namer() finds.
LEMMA ListingFound ==
  ASSUME Mounted, ClusterNamed, NEW p \in Seq(STRING), IsEntry(p),
         NEW dir \in Slots, dir = namer(p), dir # NULL, rn[dir].isdir
  PROVE  EntriesAgree(p, dir)
<1> SUFFICES ASSUME NEW j \in DOMAIN List(dir).shows.listing
             PROVE  LET entry == List(dir).shows.listing[j]
                        path == p \o <<entry.nm>>
                        s == namer(path)
                    IN IsEntry(path) => s = List(dir).more.inos[j] /\ rn[s].isdir = entry.isdir
  BY DEF EntriesAgree
<1> SUFFICES ASSUME NEW entry, entry = List(dir).shows.listing[j],
                    NEW path, path = p \o <<entry.nm>>, IsEntry(path)
             PROVE  namer(path) = List(dir).more.inos[j] /\ rn[namer(path)].isdir = entry.isdir
  BY Zenon
<1> DEFINE t == rn[dir].children + j - 1
<1>1. Cardinality(Listed(dir)) \in Nat
  BY ListedCount DEF Mounted
<1>2. /\ j \in 1 .. Cardinality(Listed(dir)) /\ List(dir).more.inos[j] = t
      /\ entry = [nm |-> rn[t].nm, isdir |-> rn[t].isdir]
  BY <1>1, Zenon DEF List, Reply
<1>3. t \in Listed(dir)
  BY <1>2, ListedFront, Zenon DEF Mounted
<1> HIDE DEF t
<1>4. entry.nm = rn[t].nm /\ entry.isdir = rn[t].isdir
  BY <1>2
<1>5. namer(path) = t
  <2> DEFINE nm == entry.nm
  <2>1. path = p \o <<nm>> /\ rn[t].nm = nm
    BY <1>4, Zenon
  <2> HIDE DEF nm
  <2> QED BY <1>3, <2>1, EntryFound, Zenon
<1> QED BY <1>2, <1>4, <1>5, Zenon

\* Every finished listing agrees with namer().
LEMMA ListingsAgree ==
  ASSUME IInv, TreeInv, MountInv, ClusterNamed, ServeInv
  PROVE  ListingAgrees
<1> SUFFICES ASSUME NEW c \in Clients, In(c, "done"), R(c).op = "readdir",
                    IsEntry(R(c).path)
             PROVE  /\ call[c].reply.more.dot = Stat(S(c)).shows.nlink
                    /\ \A j \in DOMAIN call[c].reply.shows.listing :
                         LET entry == call[c].reply.shows.listing[j]
                             path == R(c).path \o <<entry.nm>>
                             s == namer(path)
                         IN IsEntry(path) =>
                              s = call[c].reply.more.inos[j] /\ rn[s].isdir = entry.isdir
  BY DEF ListingAgrees
<1>1. PICK p, dir : p = R(c).path /\ dir = S(c)
  OBVIOUS
<1>2. /\ call[c].reply = List(dir) /\ p \in Seq(STRING) /\ dir = namer(p)
      /\ dir \in Slots /\ dir # NULL /\ rn[dir].isdir /\ phase # "mk_fs"
  BY <1>1 DEF ServeInv, HandlerOK, ServedAs, In, R, S, IsRequest
<1>3. Mounted /\ IsEntry(p)
  BY <1>1, <1>2 DEF ServeInv, Mounted
<1>4. List(dir).more.dot = Stat(dir).shows.nlink
  BY <1>2 DEF List, Stat, Reply
<1>5. EntriesAgree(p, dir)
  BY <1>2, <1>3, ListingFound, Zenon
<1> QED BY <1>1, <1>2, <1>4, <1>5, Zenon DEF EntriesAgree

\* Whatever was mounted and however the handlers overlapped: an entry of a
\* listing is found by a look-up of its path, with the number and the type that
\* the listing gave, and the listing counts the links that getattr counts.
THEOREM Listings == ServeSpec => []ListingAgrees
<1>1. ServeSpec => []ClusterNamed
  BY ServeRunsMkFs, ClusterInvariant, PTL
<1>2. IInv /\ TreeInv /\ MountInv /\ ClusterNamed /\ ServeInv => ListingAgrees
  BY ListingsAgree
<1> QED BY <1>1, <1>2, ServedTree, ServeInvariant, PTL

-----------------------------------------------------------------------------
(* statfs *)

\* What a finished statfs has answered are the numbers of the pool as it is.
StatfsOK(h) == h.pc = "done" /\ h.req.op = "statfs" => h.reply = Statvfs
StatfsInv ==
    /\ phase \in {"mk_fs", "fuse_main"} => \A c \in Clients : call[c].pc = "idle"
    /\ phase = "serving" => fsid = 1 /\ \A c \in Clients : StatfsOK(call[c])

\* The numbers of the pool are made of what no request changes.
LEMMA StatvfsStays ==
  ASSUME UNCHANGED <<vars, super>>
  PROVE  Statvfs' = Statvfs /\ fsid' = fsid
  BY DEF vars, pool, super, Statvfs, Reply, Plainly

\* What main() does before it serves and after.
LEMMA MainStatfs ==
  ASSUME ServeInv, StatfsInv, Start \/ Unmount \/ Over \/ UNCHANGED serveVars
  PROVE  StatfsInv'
<1>1. CASE BuildTree
  BY <1>1 DEF BuildTree, StatfsInv, super
<1>2. CASE Prevstate
  BY <1>2 DEF Prevstate, StatfsInv
<1>3. CASE RmfsInit
  <2>1. phase' = "serving" /\ fsid' = 1 /\ call' = call /\ \A c \in Clients : call[c].pc = "idle"
    BY <1>3 DEF RmfsInit, StatfsInv
  <2>2. \A c \in Clients : (StatfsOK(call[c]))'
    BY <2>1 DEF StatfsOK
  <2> QED BY <2>1, <2>2 DEF StatfsInv
<1>4. CASE Unmount
  BY <1>4 DEF Unmount, StatfsInv
<1>5. CASE Over \/ UNCHANGED serveVars
  <2>1. UNCHANGED <<vars, super, phase, call>>
    BY <1>5 DEF Over, serveVars
  <2>2. Statvfs' = Statvfs /\ fsid' = fsid
    BY <2>1, StatvfsStays
  <2>3. \A c \in Clients : StatfsOK(call[c]) => (StatfsOK(call[c]))'
    BY <2>1, <2>2 DEF StatfsOK
  <2> QED BY <2>1, <2>2, <2>3 DEF StatfsInv
<1> QED BY <1>1, <1>2, <1>3, <1>4, <1>5 DEF Start

\* A step of one handler.
LEMMA StepStatfs ==
  ASSUME StatfsInv, phase = "serving", phase' \in {"serving", "ended"},
         UNCHANGED <<vars, super>>, DOMAIN call = Clients,
         NEW c \in Clients, NEW g, call' = [call EXCEPT ![c] = g], StatfsOK(g)
  PROVE  StatfsInv'
<1>1. Statvfs' = Statvfs /\ fsid' = fsid /\ fsid = 1
  BY StatvfsStays DEF StatfsInv
<1>2. \A d \in Clients : call'[d] = g \/ call'[d] = call[d]
  OBVIOUS
<1>3. \A d \in Clients : StatfsOK(call'[d])
  BY <1>2, Zenon DEF StatfsInv
<1>4. \A d \in Clients : (StatfsOK(call[d]))'
  BY <1>1, <1>3 DEF StatfsOK
<1> QED BY <1>1, <1>4 DEF StatfsInv

\* Only one handler answers a statfs, and in one step.
LEMMA HandlerStatfs ==
  ASSUME ServeInv, StatfsInv, UNCHANGED <<vars, super>>, phase = "serving",
         NEW c \in Clients, Receive(c) \/ Step(c)
  PROVE  StatfsInv'
<1>1. /\ DOMAIN call = Clients /\ DOMAIN call[c] = Fields
      /\ call[c].pc # "idle" /\ R(c).op # "getattr" => S(c) # NULL
      /\ call[c].pc = "copying" => R(c).op = "read"
      /\ call[c].pc \in {"storing", "sizing"} => R(c).op = "setxattr"
  BY DEF ServeInv, HandlerOK, ServedAs, StoresContext, R, S
<1>2. phase' \in {"serving", "ended"}
  BY DEF Receive, Step, TakeLoad, TakeStore, DropLoad, DropStore, Handle, ReadCheck,
         ReadCopy, FindContext, StoreStr, StoreSize, Deliver
<1>3. ASSUME NEW reply, Finish(c, reply), R(c).op = "statfs" => reply = Statvfs
      PROVE  StatfsInv'
  <2> DEFINE g == [call[c] EXCEPT !.pc = "done", !.reply = reply]
  <2>1. call' = [call EXCEPT ![c] = g]
    BY <1>3 DEF Finish
  <2>2. StatfsOK(g)
    BY <1>1, <1>3 DEF StatfsOK, R, Fields
  <2> HIDE DEF g
  <2> QED BY <1>1, <1>2, <2>1, <2>2, StepStatfs
<1>4. ASSUME NEW g, call' = [call EXCEPT ![c] = g], g.pc # "done"
      PROVE  StatfsInv'
  BY <1>1, <1>2, <1>4, StepStatfs DEF StatfsOK
<1>5. ASSUME NEW pc \in {"held", "copying", "sizing"}, Goto(c, pc)
      PROVE  StatfsInv'
  <2> DEFINE g == [call[c] EXCEPT !.pc = pc]
  <2>1. call' = [call EXCEPT ![c] = g] /\ g.pc # "done"
    BY <1>1, <1>5 DEF Goto, Fields
  <2> HIDE DEF g
  <2> QED BY <1>4, <2>1
<1>6. CASE Receive(c)
  <2>1. PICK r : call' = [call EXCEPT ![c] = [Idle EXCEPT !.pc = "entered", !.req = r,
                                          !.at = namer(r.path),
                                          !.todo = Sections(r, namer(r.path))]]
    BY <1>6 DEF Receive
  <2> DEFINE g == [Idle EXCEPT !.pc = "entered", !.req = r, !.at = namer(r.path),
                               !.todo = Sections(r, namer(r.path))]
  <2>2. g.pc # "done"
    BY DEF Idle
  <2>3. call' = [call EXCEPT ![c] = g]
    BY <2>1
  <2> HIDE DEF g
  <2> QED BY <1>4, <2>2, <2>3
<1>7. CASE Deliver(c)
  <2>1. call' = [call EXCEPT ![c] = Idle] /\ Idle.pc # "done"
    BY <1>7 DEF Deliver, Idle
  <2> QED BY <1>4, <2>1
<1>8. CASE TakeLoad(c) \/ TakeStore(c) \/ DropLoad(c) \/ DropStore(c)
  <2>1. CASE TakeLoad(c)
    <3> DEFINE g == [call[c] EXCEPT !.pc = "taking", !.reg = lock]
    <3>1. call' = [call EXCEPT ![c] = g] /\ g.pc # "done"
      BY <1>1, <2>1 DEF TakeLoad, Fields
    <3> HIDE DEF g
    <3> QED BY <1>4, <3>1
  <2>2. CASE TakeStore(c)
    BY <1>5, <2>2 DEF TakeStore
  <2>3. CASE DropLoad(c)
    <3> DEFINE g == [call[c] EXCEPT !.pc = "dropping", !.reg = lock]
    <3>1. call' = [call EXCEPT ![c] = g] /\ g.pc # "done"
      BY <1>1, <2>3 DEF DropLoad, Fields
    <3> HIDE DEF g
    <3> QED BY <1>4, <3>1
  <2>4. CASE DropStore(c)
    <3> DEFINE g == [call[c] EXCEPT !.pc = "entered", !.todo = @ - 1, !.reg = 0]
    <3>1. call' = [call EXCEPT ![c] = g] /\ g.pc # "done"
      BY <1>1, <2>4 DEF DropStore, Fields
    <3> HIDE DEF g
    <3> QED BY <1>4, <3>1
  <2> QED BY <1>8, <2>1, <2>2, <2>3, <2>4
<1>9. CASE Handle(c)
  <2>1. PICK reply \in Replies(R(c), S(c)) : Finish(c, reply)
    BY <1>9 DEF Handle
  <2>2. R(c).op = "statfs" => S(c) # NULL
    BY <1>1, <1>9 DEF Handle, Ready, In
  <2>3. R(c).op = "statfs" => Replies(R(c), S(c)) = {Statvfs}
    BY <2>2 DEF Replies
  <2> QED BY <1>3, <2>1, <2>3
<1>10. CASE ReadCheck(c) \/ FindContext(c)
  <2>1. R(c).op # "statfs"
    BY <1>10 DEF ReadCheck, FindContext, Admits
  <2>2. CASE \E reply : Finish(c, reply)
    BY <1>3, <2>1, <2>2
  <2>3. CASE Goto(c, "copying")
    BY <1>5, <2>3
  <2>4. ASSUME NEW t, call' = [call EXCEPT ![c].pc = "storing", ![c].reg = t]
        PROVE  StatfsInv'
    <3> DEFINE g == [call[c] EXCEPT !.pc = "storing", !.reg = t]
    <3>1. call' = [call EXCEPT ![c] = g] /\ g.pc # "done"
      BY <1>1, <2>4 DEF Fields
    <3> HIDE DEF g
    <3> QED BY <1>4, <3>1
  <2>5. CASE UNCHANGED call
    <3>1. Statvfs' = Statvfs /\ fsid' = fsid
      BY StatvfsStays
    <3>2. \A d \in Clients : StatfsOK(call[d]) => (StatfsOK(call[d]))'
      BY <2>5, <3>1 DEF StatfsOK
    <3> QED BY <1>2, <3>1, <3>2 DEF StatfsInv
  <2> QED BY <1>10, <2>2, <2>3, <2>4, <2>5 DEF ReadCheck, FindContext
<1>11. CASE ReadCopy(c) \/ StoreSize(c)
  <2>1. R(c).op # "statfs"
    BY <1>1, <1>11 DEF ReadCopy, StoreSize, In
  <2>2. \E reply : Finish(c, reply)
    BY <1>11 DEF ReadCopy, StoreSize
  <2> QED BY <1>3, <2>1, <2>2
<1>12. CASE StoreStr(c)
  BY <1>5, <1>12 DEF StoreStr
<1> QED BY <1>6, <1>7, <1>8, <1>9, <1>10, <1>11, <1>12 DEF Step

\* Every step keeps what the answers of statfs are.
LEMMA NextStatfs ==
  ASSUME IInv, TreeInv, MountInv, ServeInv, StatfsInv, [ServeNext]_serveVars
  PROVE  StatfsInv'
<1>1. CASE Start \/ Unmount \/ Over \/ UNCHANGED serveVars
  BY <1>1, MainStatfs
<1>2. ASSUME NEW c \in Clients, Receive(c) \/ Step(c)
      PROVE  StatfsInv'
  <2>1. phase = "serving"
    BY <1>2 DEF Receive, Step, TakeLoad, AtLock, TakeStore, DropLoad, DropStore, Handle, ReadCheck,
                ReadCopy, FindContext, StoreStr, StoreSize, Deliver, Ready, Admits, In
  <2>2. UNCHANGED <<vars, super>>
    BY <2>1, NextServeInv DEF FrozenStep
  <2> QED BY <1>2, <2>1, <2>2, HandlerStatfs
<1> QED BY <1>1, <1>2 DEF ServeNext

\* A difference of unsigned longs, when it fits and when it wraps once.
LEMMA Wraps ==
  ASSUME NEW w \in Nat \ {0}, NEW a \in Int
  PROVE  /\ 0 <= a /\ a < w => a % w = a
         /\ a < 0 /\ -w <= a => a % w = a + w
  OBVIOUS

\* The numbers of a mounted tree whose slots are accounted for.
LEMMA Numbers ==
  ASSUME IInv, MountAccounted, status = "mounted", fsid = 1
  PROVE  LET n == Statvfs.more
         IN /\ n.files = Needs(in) /\ n.files + n.bfree = n.blocks
            /\ IF n.bfree >= BaseAlloc THEN n.bavail + BaseAlloc = n.bfree
               ELSE n.bavail > n.blocks
            /\ n.fsid # 0
<1>1. PICK cur, max, w, need : /\ cur = nxt_avail - BaseAlloc /\ max = in.maxalloc /\ w = Word
                               /\ need = Needs(in)
  OBVIOUS
<1>2. /\ cur \in Nat /\ max \in Nat /\ cur <= max /\ nxt_avail \in Nat /\ in \in Inputs
      /\ w \in Nat /\ BaseAlloc + max < w
  BY <1>1, BaseAllocAssumption, InputsAssumption, ServeAssumption DEF IInv, PoolInv
<1>3. need \in Nat
  BY <1>1, <1>2, NeedsNat
<1>4. cur = need
  <2>1. nxt_avail = BaseAlloc + need
    BY <1>1 DEF MountAccounted
  <2> QED BY <1>1, <1>2, <1>3, <2>1, BaseAllocAssumption
<1>5. (max - cur) % w = max - cur
  <2>1. max - cur \in Int /\ 0 <= max - cur /\ max - cur < w
    BY <1>2, BaseAllocAssumption
  <2> QED BY <1>2, <2>1, Wraps, BaseAllocAssumption
<1>6. /\ max - cur >= BaseAlloc => (max - cur - BaseAlloc) % w = max - cur - BaseAlloc
      /\ max - cur < BaseAlloc => (max - cur - BaseAlloc) % w = max - cur - BaseAlloc + w
  <2>1. PICK a \in Int : a = max - cur - BaseAlloc
    BY <1>2, BaseAllocAssumption
  <2>2. /\ max - cur >= BaseAlloc => 0 <= a /\ a < w
        /\ max - cur < BaseAlloc => a < 0 /\ -w <= a
    BY <1>2, <2>1, BaseAllocAssumption
  <2>3. /\ 0 <= a /\ a < w => a % w = a
        /\ a < 0 /\ -w <= a => a % w = a + w
    <3>1. w \in Nat \ {0}
      BY <1>2, BaseAllocAssumption
    <3> QED BY <3>1, Wraps
  <2>4. /\ max - cur >= BaseAlloc => a % w = a
        /\ max - cur < BaseAlloc => a % w = a + w
    BY <2>2, <2>3, Zenon
  <2> QED BY <2>1, <2>4
<1>7. PICK f, v : f = (max - cur) % w /\ v = (max - cur - BaseAlloc) % w
  OBVIOUS
<1>8. Statvfs.more = [blocks |-> max, bfree |-> f, bavail |-> v, files |-> cur, fsid |-> 1]
  BY <1>1, <1>7 DEF Statvfs, Reply
<1>9. /\ cur + f = max
      /\ IF f >= BaseAlloc THEN v + BaseAlloc = f ELSE v > max
  BY <1>2, <1>5, <1>6, <1>7, BaseAllocAssumption
<1> QED BY <1>1, <1>4, <1>8, <1>9

\* The numbers of statfs are those of the finished tree, whatever was mounted and
\* however many requests ran before or at a time.
THEOREM Statfs == ServeSpec => []StatfsCounts
<1>1. ServeSpec => []MountAccounted
  BY ServeRunsMkFs, Accounted, PTL
<1>2. ServeInit => StatfsInv
  BY DEF ServeInit, StatfsInv, Idle
<1>3. ServeSpec => []StatfsInv
  BY <1>2, NextStatfs, ServedTree, ServeInvariant, PTL DEF ServeSpec
<1>4. ASSUME IInv, ServeInv, StatfsInv, MountAccounted PROVE StatfsCounts
  <2> SUFFICES ASSUME NEW c \in Clients, In(c, "done"), R(c).op = "statfs"
               PROVE  LET n == call[c].reply.more
                      IN /\ n.files = Needs(in) /\ n.files + n.bfree = n.blocks
                         /\ IF n.bfree >= BaseAlloc THEN n.bavail + BaseAlloc = n.bfree
                            ELSE n.bavail > n.blocks
                         /\ n.fsid # 0
    BY DEF StatfsCounts
  <2>1. status = "mounted" /\ fsid = 1 /\ call[c].reply = Statvfs
    BY <1>4 DEF In, R, ServeInv, StatfsInv, StatfsOK
  <2> QED BY <1>4, <2>1, Numbers
<1> QED BY <1>1, <1>3, <1>4, ServedTree, ServeInvariant, PTL

-----------------------------------------------------------------------------
(* What is known of a mounted tree *)

USE BaseAllocAssumption DEF NULL

\* A mounted tree, and all that is known of it.
Built ==
    /\ Mounted /\ ClusterNamed /\ FillInv /\ ShapeInv /\ MountAccounted

\* The types of what can be seen.
SeenDirs == {"CLUSTER", "PARTS", "PARTNAME", "NODES", "NODENAME", "JOBS", "JOBID", "ATTRIBUTES"}
SeenBare == {"JOBSTEPS", "ALLOCJOB"}

\* A directory of a mounted tree is what its builder was to make of it.
LEMMA DirIs ==
  ASSUME Built, NEW d \in Dirs, rn[d].rtype # "ROOT"
  PROVE  /\ d \in Slots /\ d \in Nat /\ rn[d].rtype \in DirTypes /\ Named(d) /\ Listable(d)
         /\ rn[d].gen = 2 /\ rn[d].n = NKids(d) /\ NKids(d) \in Nat /\ rn[d].children \in Nat
         /\ rn[d].children # NULL /\ Check(d) = "OK"
         /\ Kids(d) = rn[d].children .. (rn[d].children + NKids(d) - 1)
         /\ \A s \in Kids(d) : KidOK(d, s) /\ s \in Slots /\ s > BaseAlloc
         /\ rn[d].rtype # "JOBID" => \A s \in Kids(d) : rn[s].gen # 0
         /\ rn[d].rtype \notin {"JOBS", "JOBID"} => \A s \in Kids(d) : Named(s)
<1>1. d \in Slots /\ rn[d].children # NULL /\ NodeOK(rn[d]) /\ nxt_avail \in Nat
  BY DEF Dirs, Built, Mounted, IInv, PoolInv
<1>2. d \in Nat /\ rn[d].children \in Nat /\ rn[d].n \in Nat
  BY <1>1 DEF NodeOK, Slots
<1>3. DirOK(d) /\ rn[d].rtype \in DirTypes
  BY DEF Built, Mounted, TreeInv, DirOK
<1>4. Named(d)
  BY DEF Built, FillInv, NamedInv
<1>5. Listable(d)
  BY <1>3 DEF Listable, DirOK, DirTypes, Built, Mounted, IInv, PoolInv
<1>6. KidsOK(d)
  BY DEF Built, ShapeInv
<1>7. /\ rn[d].gen = 2 /\ rn[d].n = NKids(d) /\ Check(d) = "OK"
      /\ \A s \in Kids(d) : KidOK(d, s)
  BY <1>6 DEF KidsOK
<1>8. Kids(d) = rn[d].children .. (rn[d].children + NKids(d) - 1)
  BY <1>1, <1>7 DEF Kids
<1>9. \A s \in Kids(d) : s \in Slots /\ s > BaseAlloc
  <2>1. rn[d].children > d /\ d >= BaseAlloc
    BY <1>1 DEF Built, Mounted, IInv, DirsInv, Slots
  <2> QED BY <1>2, <1>8, <1>7, <2>1, KidsIn DEF Built, Mounted
<1>10. FullOK(d) /\ HoleOK(d) /\ Depth = 0
  <2>1. status = "mounted" /\ Depth = 0
    BY DEF Built, Mounted, MountInv, Depth
  <2>2. Live /\ ~Doomed
    BY <2>1 DEF Live, Doomed, Building
  <2> QED BY <2>1, <2>2 DEF Built, FillInv, FullInv
<1>11. rn[d].rtype # "JOBID" => \A s \in Kids(d) : rn[s].gen # 0
  BY <1>10 DEF FullOK
<1>12. rn[d].rtype \notin {"JOBS", "JOBID"} => \A s \in Kids(d) : Named(s)
  BY <1>10, <1>11 DEF HoleOK, Hole
<1> QED BY <1>1, <1>2, <1>3, <1>4, <1>5, <1>7, <1>8, <1>9, <1>11, <1>12

\* A directory is in the block of its parent, which is not empty then.
LEMMA UpIs ==
  ASSUME Built, NEW d \in Dirs, rn[d].rtype # "ROOT"
  PROVE  LET up == rn[d].parent
         IN /\ up \in Dirs /\ d \in Kids(up) /\ MayHold(rn[up].rtype, rn[d].rtype)
            /\ rn[up].rtype # "ROOT" => NKids(up) > 0
<1>1. PICK up : up = rn[d].parent
  OBVIOUS
<1>2. up \in Dirs /\ MayHold(rn[up].rtype, rn[d].rtype)
  BY <1>1 DEF Built, Mounted, TreeInv, DirOK
<1>3. d \in Kids(up)
  <2>1. NamedOK(d) /\ Named(d)
    BY DirIs DEF Built, Mounted, TreeInv
  <2>2. rn[up].rtype # "ALLOCJOB"
    BY <1>2 DEF Built, Mounted, TreeInv, DirOK, DirTypes
  <2> QED BY <1>1, <2>1, <2>2 DEF NamedOK
<1>4. ASSUME rn[up].rtype # "ROOT" PROVE NKids(up) > 0
  <2>1. NKids(up) \in Nat /\ rn[up].children \in Nat
        /\ Kids(up) = rn[up].children .. (rn[up].children + NKids(up) - 1)
    BY <1>2, <1>4, DirIs
  <2> QED BY <1>3, <2>1
<1> QED BY <1>1, <1>2, <1>3, <1>4

\* The lists are of records of the replies.
LEMMA ListsAre ==
  ASSUME Built, NEW d \in Dirs
  PROVE  /\ rn[d].rtype = "PARTS" => /\ NKids(d) = Len(in.part.recs) /\ DOMAIN in.part.recs = 1 .. NKids(d)
                                     /\ Children(d) = OfRecords(in.part, "PARTNAME", "ASSERT")
         /\ rn[d].rtype = "NODES" => /\ NKids(d) = Len(in.node.recs) /\ DOMAIN in.node.recs = 1 .. NKids(d)
                                     /\ Children(d) = OfRecords(in.node, "NODENAME", "ASSERT")
         /\ rn[d].rtype = "JOBS" => /\ NKids(d) = Len(in.job.recs) /\ DOMAIN in.job.recs = 1 .. NKids(d)
                                    /\ Children(d) = OfRecords(in.job, "JOBID", "CONTINUE")
<1>1. in \in Inputs
  BY DEF Built, Mounted, IInv, PoolInv
<1>2. IsReply(in.part) /\ IsReply(in.node) /\ IsReply(in.job)
  BY <1>1, InputsAssumption
<1>3. rn[d].rtype \in BuiltTypes
  BY DEF Built, Mounted, TreeInv, DirOK, DirTypes
<1>4. DOMAIN in.part.recs = 1 .. Len(in.part.recs) /\ DOMAIN in.node.recs = 1 .. Len(in.node.recs)
      /\ DOMAIN in.job.recs = 1 .. Len(in.job.recs)
  BY <1>2 DEF IsReply
<1>5. /\ rn[d].rtype = "PARTS" => Children(d) = OfRecords(in.part, "PARTNAME", "ASSERT")
      /\ rn[d].rtype = "NODES" => Children(d) = OfRecords(in.node, "NODENAME", "ASSERT")
      /\ rn[d].rtype = "JOBS" => Children(d) = OfRecords(in.job, "JOBID", "CONTINUE")
  BY <1>3, ChildrenIs DEF PartsChildren, NodesChildren, JobsChildren
<1>6. \A rtype, onNull : /\ Len(OfRecords(in.part, rtype, onNull)) = Len(in.part.recs)
                         /\ Len(OfRecords(in.node, rtype, onNull)) = Len(in.node.recs)
                         /\ Len(OfRecords(in.job, rtype, onNull)) = Len(in.job.recs)
  BY <1>2, RecordsListed
<1> QED BY <1>4, <1>5, <1>6 DEF NKids

\* The replies are there where a directory of a mounted tree needs them.
LEMMA RepliesAre ==
  ASSUME Built
  PROVE  /\ in.part.state = "array" /\ Distinct(in.part.recs) /\ in.job.state = "array"
         /\ \A d \in Dirs : rn[d].rtype \in {"PARTNAME", "NODES"} =>
               in.node.state = "array" /\ Distinct(in.node.recs)
         /\ \A d \in Dirs : rn[d].rtype \in {"JOBID", "JOBSTEPS"} => in.step.recs = <<>>
<1>1. Buildable
  BY DEF Built, Mounted, MountAccounted, Mountable
<1>2. \A d \in Dirs : rn[d].rtype = "PARTNAME" => in.part.recs # <<>>
  <2> SUFFICES ASSUME NEW d \in Dirs, rn[d].rtype = "PARTNAME" PROVE in.part.recs # <<>>
    OBVIOUS
  <2>1. PICK up \in Dirs : rn[up].rtype = "PARTS" /\ NKids(up) > 0
    BY UpIs DEF MayHold
  <2>2. NKids(up) = Len(in.part.recs)
    BY <2>1, ListsAre
  <2> QED BY <2>1, <2>2
<1>3. \A d \in Dirs : rn[d].rtype = "JOBID" => in.job.recs # <<>>
  <2> SUFFICES ASSUME NEW d \in Dirs, rn[d].rtype = "JOBID" PROVE in.job.recs # <<>>
    OBVIOUS
  <2>1. PICK up \in Dirs : rn[up].rtype = "JOBS" /\ NKids(up) > 0
    BY UpIs DEF MayHold
  <2>2. NKids(up) = Len(in.job.recs)
    BY <2>1, ListsAre
  <2> QED BY <2>1, <2>2
<1>4. \A d \in Dirs : rn[d].rtype = "NODES" => \E up \in Dirs : rn[up].rtype = "PARTNAME"
  BY UpIs DEF MayHold
<1>5. \A d \in Dirs : rn[d].rtype = "JOBSTEPS" => \E up \in Dirs : rn[up].rtype = "JOBID"
  BY UpIs DEF MayHold
<1> QED BY <1>1, <1>2, <1>3, <1>4, <1>5 DEF Buildable

\* There is no directory of steps.
LEMMA NoSteps ==
  ASSUME Built, NEW d \in Dirs
  PROVE  rn[d].rtype \notin {"JOBSTEPS", "JOBSTEPID"}
<1>1. \A e \in Dirs : rn[e].rtype # "JOBSTEPS"
  <2> SUFFICES ASSUME NEW e \in Dirs, rn[e].rtype = "JOBSTEPS" PROVE FALSE
    OBVIOUS
  <2>1. Check(e) = "OK" /\ in \in Inputs
    BY DirIs DEF Built, Mounted, IInv, PoolInv
  <2>2. in.step.recs = <<>>
    BY RepliesAre
  <2>3. in.step.recs # <<>>
    BY <2>1, StepsTaken
  <2> QED BY <2>2, <2>3
<1>2. ASSUME rn[d].rtype = "JOBSTEPID" PROVE \E up \in Dirs : rn[up].rtype = "JOBSTEPS"
  <2>1. PICK up : up \in Dirs /\ MayHold(rn[up].rtype, rn[d].rtype)
    BY <1>2, UpIs
  <2> QED BY <1>2, <2>1 DEF MayHold
<1> QED BY <1>1, <1>2

\* A reply with an array passes the checks, and where nothing is checked nothing fails.
LEMMA ChecksPass ==
  ASSUME in \in Inputs, NEW s, rn[s].rtype \in BuiltTypes
  PROVE  /\ rn[s].rtype \notin ListTypes => Check(s) = "OK"
         /\ rn[s].rtype = "PARTS" /\ in.part.state = "array" => Check(s) = "OK"
         /\ rn[s].rtype = "NODES" /\ in.node.state = "array" => Check(s) = "OK"
         /\ rn[s].rtype = "JOBS" /\ in.job.state = "array" => Check(s) = "OK"
<1>1. Row(rn[s].rtype) = IF rn[s].rtype = "ALLOCJOB" THEN "NODESTATE" ELSE rn[s].rtype
  BY BuiltRows
<1>2. PICK row : row = Row(rn[s].rtype)
  OBVIOUS
<1>3. rn[s].rtype \notin ListTypes => Check(s) = "OK"
  BY <1>1 DEF Check, ListTypes
<1>4. \A msg : msg.state = "array" => Kind(msg) \in {"empty", "array"}
  BY DEF Kind
<1>5. \A kind \in {"empty", "array"} : /\ PartsCheck[kind] = "OK" /\ NodesCheck[kind] = "OK"
                                       /\ JobsCheck[kind] = "OK"
  BY DEF PartsCheck, NodesCheck, JobsCheck
<1>6. /\ rn[s].rtype = "PARTS" => Check(s) = PartsCheck[Kind(in.part)]
      /\ rn[s].rtype = "NODES" => Check(s) = NodesCheck[Kind(in.node)]
      /\ rn[s].rtype = "JOBS" => Check(s) = JobsCheck[Kind(in.job)]
  BY <1>1 DEF Check
<1> QED BY <1>3, <1>4, <1>5, <1>6

\* What can be seen, but the root, is a child of a directory that can be.
LEMMA SeenUp ==
  ASSUME Built, NEW s, Seen(s), s # p_fsroot
  PROVE  LET d == rn[s].parent
         IN /\ d \in Dirs /\ rn[d].rtype \in SeenDirs /\ Named(s) /\ s \in Kids(d) /\ KidOK(d, s)
            /\ MayHold(rn[d].rtype, rn[s].rtype)
<1>1. PICK d : d = rn[s].parent
  OBVIOUS
<1>2. /\ Named(s) /\ rn[s].rtype # "ROOT" /\ d \in Dirs /\ s \in Kids(d) /\ rn[d].rtype # "ROOT"
      /\ d = p_fsroot \/ rn[rn[d].parent].rtype # "ROOT"
  BY <1>1 DEF Seen
<1>3. rn[d].rtype \in SeenDirs
  <2>1. rn[d].rtype \in DirTypes /\ CtlOfRoot(d)
    BY <1>2, DirIs DEF Built, Mounted, MountInv, NodesInv
  <2>2. d = p_fsroot => rn[d].rtype = "CLUSTER"
    BY DEF Built, Mounted, MountInv, FsRootIs
  <2>3. rn[d].rtype # "CONTROL"
    BY <1>2, <2>1, <2>2 DEF CtlOfRoot
  <2>4. rn[d].rtype \notin {"JOBSTEPS", "JOBSTEPID"}
    BY <1>2, NoSteps
  <2> QED BY <1>2, <2>1, <2>3, <2>4 DEF DirTypes, BuiltTypes, SeenDirs, AttrTypes, AttrSubtypes
<1>4. KidOK(d, s)
  BY <1>2, DirIs
<1>5. NamedOK(s)
  BY SeenFacts DEF Built
<1>6. MayHold(rn[d].rtype, rn[s].rtype)
  BY <1>1, <1>2, <1>3, <1>5 DEF NamedOK, SeenDirs
<1> QED BY <1>1, <1>2, <1>3, <1>4, <1>6

\* What can be seen is a directory that is finished, one that its builder has given
\* up or that is no directory, or a file.
LEMMA SeenIs ==
  ASSUME Built, NEW s, Seen(s)
  PROVE  /\ s \in Slots /\ s \in Nat /\ s # NULL /\ Named(s) /\ rn[s].n \in Nat
         /\ \/ rn[s].rtype \in SeenDirs /\ s \in Dirs /\ rn[s].isdir = TRUE /\ rn[s].gen = 2
            \/ /\ rn[s].rtype \in SeenBare /\ s \notin Dirs /\ rn[s].isdir = TRUE /\ rn[s].gen = 1
               /\ rn[s].n = 0
            \/ /\ rn[s].rtype \in AttrTypes /\ s \notin Dirs /\ rn[s].isdir = FALSE /\ rn[s].gen = 2
               /\ rn[rn[s].parent].rtype = "ATTRIBUTES"
<1>1. /\ s \in Slots /\ s \in Nat /\ s # NULL /\ rn[s].rtype \in BuiltTypes \ {"ROOT"}
      /\ Flagged(s) /\ rn[s].n \in Nat
  <2>1. s \in Slots /\ s \in Nat /\ rn[s].rtype \in BuiltTypes \ {"ROOT"} /\ Flagged(s)
    BY SeenFacts DEF Built
  <2> QED BY <2>1 DEF Slots, Built, Mounted, IInv, PoolInv, NodeOK
<1>2. p_fsroot \in Dirs /\ rn[p_fsroot].rtype = "CLUSTER"
  BY DEF Built, Mounted, MountInv, FsRootIs
<1>3. Named(s)
  BY <1>2, SeenUp, DirIs
<1>4. rn[s].isdir = IsDir(rn[s].rtype)
  BY <1>1 DEF Flagged
<1>5. Row(rn[s].rtype) = IF rn[s].rtype = "ALLOCJOB" THEN "NODESTATE" ELSE rn[s].rtype
  BY <1>1, BuiltRows
<1>6. CASE s \in Dirs
  <2>1. rn[s].rtype \in DirTypes /\ rn[s].gen = 2 /\ rn[s].rtype \notin {"JOBSTEPS", "JOBSTEPID"}
    BY <1>1, <1>6, DirIs, NoSteps
  <2>2. rn[s].rtype # "CONTROL"
    <3>1. CASE s = p_fsroot
      BY <1>2, <3>1
    <3>2. CASE s # p_fsroot
      BY <1>6, <3>2, SeenUp DEF Built, Mounted, MountInv, NodesInv, CtlOfRoot, SeenDirs
    <3> QED BY <3>1, <3>2
  <2>3. rn[s].rtype \in SeenDirs
    BY <1>1, <2>1, <2>2 DEF DirTypes, BuiltTypes, SeenDirs, AttrTypes, AttrSubtypes
  <2>4. rn[s].isdir = TRUE
    BY <1>4, <1>5, <2>3 DEF IsDir, FileTypes, SeenDirs, AttrTypes, AttrSubtypes
  <2> QED BY <1>1, <1>3, <1>6, <2>1, <2>3, <2>4
<1>7. CASE s \notin Dirs
  <2>1. s # p_fsroot
    BY <1>2, <1>7
  <2>2. PICK d : d = rn[s].parent /\ rn[d].rtype \in SeenDirs /\ d \in Dirs
                 /\ MayHold(rn[d].rtype, rn[s].rtype)
    BY <2>1, SeenUp
  <2>3. NodeOnce(s) /\ ~OnStack(s)
    <3>1. Depth = 0
      BY DEF Built, Mounted, MountInv, Depth
    <3> QED BY <1>1, <3>1 DEF Built, ShapeInv, OnStack
  <2>4. CASE rn[s].rtype \in AttrTypes
    <3>1. rn[d].rtype = "ATTRIBUTES"
      BY <2>2, <2>4 DEF MayHold, SeenDirs, AttrTypes, AttrSubtypes
    <3>2. rn[s].gen = 2
      BY <1>3, <1>7, <2>3, <2>4 DEF NodeOnce
    <3>3. rn[s].isdir = FALSE
      BY <1>4, <1>5, <2>4 DEF IsDir, FileTypes, AttrTypes, AttrSubtypes
    <3> QED BY <1>1, <1>3, <1>7, <2>2, <2>4, <3>1, <3>2, <3>3
  <2>5. CASE rn[s].rtype \notin AttrTypes
    <3>1. rn[s].gen = 1 /\ rn[s].n = 0 /\ (rn[s].rtype = "ALLOCJOB" \/ Check(s) # "OK")
      BY <1>3, <1>7, <2>3, <2>5 DEF NodeOnce
    <3>2. rn[s].rtype \in SeenBare
      <4>1. in \in Inputs
        BY DEF Built, Mounted, IInv, PoolInv
      <4>2. rn[s].rtype = "NODES" => rn[d].rtype = "PARTNAME"
        BY <2>2 DEF MayHold
      <4>3. rn[s].rtype \notin {"PARTS", "NODES", "JOBS"} \/ Check(s) = "OK"
        BY <1>1, <2>2, <4>1, <4>2, ChecksPass, RepliesAre
      <4>4. rn[s].rtype \in ListTypes \/ Check(s) = "OK"
        BY <1>1, <4>1, ChecksPass
      <4> QED BY <3>1, <4>3, <4>4 DEF SeenBare, ListTypes
    <3>3. rn[s].isdir = TRUE
      BY <1>4, <1>5, <3>2 DEF IsDir, FileTypes, SeenBare, AttrTypes, AttrSubtypes
    <3> QED BY <1>1, <1>3, <1>7, <3>1, <3>2, <3>3
  <2> QED BY <2>4, <2>5
<1> QED BY <1>6, <1>7

-----------------------------------------------------------------------------
(* What a directory lists *)

\* The entries of a directory are the named ones at the front of its block.
LEMMA ListIs ==
  ASSUME Built, NEW d \in Dirs, rn[d].rtype # "ROOT", NEW m \in 0 .. NKids(d),
         \A j \in 1 .. m : Named(rn[d].children + j - 1),
         m = NKids(d) \/ ~Named(rn[d].children + m)
  PROVE  Listed(d) = rn[d].children .. (rn[d].children + m - 1) /\ Cardinality(Listed(d)) = m
<1>1. PICK b \in Nat, n \in Nat : b = rn[d].children /\ n = NKids(d) /\ Kids(d) = b .. (b + n - 1)
  BY DirIs
<1>2. m \in Nat /\ m <= n
  BY <1>1
<1>3. Listed(d) = b .. (b + m - 1)
  <2>1. ASSUME NEW t \in Listed(d) PROVE t \in b .. (b + m - 1)
    <3>1. t \in b .. (b + n - 1) /\ \A u \in b .. t : Named(u)
      BY <1>1, <2>1 DEF Listed
    <3>2. CASE m = n
      BY <3>1, <3>2
    <3>3. CASE m # n
      <4>1. ~Named(b + m)
        BY <1>1, <3>3
      <4>2. ~(b + m \in b .. t)
        BY <3>1, <4>1
      <4> QED BY <1>2, <3>1, <4>2
    <3> QED BY <3>2, <3>3
  <2>2. ASSUME NEW t \in b .. (b + m - 1) PROVE t \in Listed(d)
    <3>1. t \in b .. (b + n - 1)
      BY <1>2, <2>2
    <3>2. ASSUME NEW u \in b .. t PROVE Named(u)
      <4>1. u - b + 1 \in 1 .. m /\ b + (u - b + 1) - 1 = u
        BY <1>2, <2>2, <3>2
      <4> QED BY <1>1, <4>1
    <3> QED BY <1>1, <3>1, <3>2 DEF Listed
  <2> QED BY <2>1, <2>2
<1>4. Cardinality(b .. (b + m - 1)) = m
  BY <1>2, FS_Interval
<1> QED BY <1>1, <1>3, <1>4

\* The place that a node of the tree is.
PlaceOf(s) ==
    LET node == rn[s]
    IN IF s = NULL THEN View!Nowhere
       ELSE CASE node.rtype = "CLUSTER" -> View!Root
              [] node.rtype = "PARTS" -> View!Bare("partitions")
              [] node.rtype = "PARTNAME" -> View!Place("partition", "PARTNAME", node.dyn)
              [] node.rtype = "NODES" -> View!Bare("nodes")
              [] node.rtype = "NODENAME" -> View!Place("node", "NODENAME", node.dyn)
              [] node.rtype = "JOBS" -> View!Bare("jobs")
              [] node.rtype = "JOBID" -> View!Bare("job")
              [] node.rtype = "ATTRIBUTES" ->
                    View!Place("attributes", rn[node.parent].rtype, node.dyn)
              [] node.rtype \in SeenBare -> View!Bare("empty")
              [] OTHER ->
                    View!Place("file", [nm |-> node.nm, typ |-> node.typ, size |-> SizeOf(node.typ)],
                               node.dyn)

\* A child of a directory that can be seen is what the directory's builder cast.
LEMMA KidIs ==
  ASSUME Built, NEW d \in Dirs, rn[d].rtype \in SeenDirs, NEW j \in 1 .. NKids(d),
         NEW t, t = rn[d].children + j - 1, Named(t), NEW c, c = Children(d)[j]
  PROVE  /\ rn[t].nm = c.nm /\ rn[t].typ = c.typ /\ rn[t].rtype = c.rtype /\ rn[t].parent = d
         /\ rn[t].dyn = c.dyn \/ c.rtype \in ListTypes \cup {"JOBID"}
         /\ t \in Slots /\ t # NULL
<1>1. rn[d].rtype # "ROOT"
  BY DEF SeenDirs
<1>2. PICK b \in Nat, n \in Nat : b = rn[d].children /\ n = NKids(d) /\ Kids(d) = b .. (b + n - 1)
  BY <1>1, DirIs
<1>3. t \in Kids(d) /\ t - b + 1 = j
  BY <1>2
<1>4. KidOK(d, t) /\ t \in Slots /\ Listable(d)
  BY <1>1, <1>3, DirIs
<1>5. c.rtype # "KNOB"
  <2>1. MayHold(rn[d].rtype, c.rtype)
    BY <1>4, ChildrenFor DEF ListFor, NKids
  <2> QED BY <2>1 DEF MayHold, SeenDirs
<1>6. /\ rn[t].nm = c.nm /\ rn[t].typ = c.typ /\ rn[t].rtype = c.rtype
      /\ rn[t].dyn = c.dyn \/ rn[t].rtype \in ListTypes \cup {"JOBID"}
  BY <1>2, <1>3, <1>4, <1>5 DEF KidOK
<1>7. rn[t].parent = d
  BY <1>3 DEF Built, Mounted, TreeInv, DirOK
<1>8. t # NULL
  BY <1>4 DEF Slots
<1> QED BY <1>4, <1>6, <1>7, <1>8

\* The j-th slot of the block of directory d.
Nth(d, j) == rn[d].children + j - 1

\* The entries es are those that a listing of directory d shows.
ShownBy(d, es) ==
    /\ Len(es) = Cardinality(Listed(d)) /\ DOMAIN es = 1 .. Cardinality(Listed(d))
    /\ \A j \in 1 .. Cardinality(Listed(d)) :
          es[j] = View!Entry(rn[Nth(d, j)].nm, PlaceOf(Nth(d, j)))

\* A directory that is not one of jobs lists all its children.
LEMMA FullShown ==
  ASSUME Built, NEW d \in Dirs, rn[d].rtype \in SeenDirs \ {"JOBS", "JOBID"}
  PROVE  /\ Cardinality(Listed(d)) = NKids(d) /\ NKids(d) \in Nat
         /\ \A j \in 1 .. NKids(d) :
               LET t == Nth(d, j)
                   c == Children(d)[j]
               IN /\ rn[t].nm = c.nm /\ rn[t].typ = c.typ /\ rn[t].rtype = c.rtype
                  /\ rn[t].parent = d /\ t # NULL
                  /\ rn[t].dyn = c.dyn \/ c.rtype \in ListTypes
<1>1. rn[d].rtype # "ROOT"
  BY DEF SeenDirs
<1>2. PICK b \in Nat, n \in Nat : b = rn[d].children /\ n = NKids(d) /\ Kids(d) = b .. (b + n - 1)
  BY <1>1, DirIs
<1>3. \A j \in 1 .. n : Named(b + j - 1)
  <2> SUFFICES ASSUME NEW j \in 1 .. n PROVE Named(b + j - 1)
    OBVIOUS
  <2>1. b + j - 1 \in Kids(d)
    BY <1>2
  <2> QED BY <1>1, <2>1, DirIs
<1>4. Cardinality(Listed(d)) = n
  <2>1. n \in 0 .. NKids(d) /\ n = NKids(d)
    BY <1>2
  <2>2. \A j \in 1 .. n : Named(rn[d].children + j - 1)
    BY <1>2, <1>3
  <2> HIDE <1>2
  <2> QED BY <1>1, <2>1, <2>2, ListIs
<1>5. ASSUME NEW j \in 1 .. n, NEW t, t = b + j - 1, NEW c, c = Children(d)[j]
      PROVE  /\ rn[t].nm = c.nm /\ rn[t].typ = c.typ /\ rn[t].rtype = c.rtype
             /\ rn[t].parent = d /\ t # NULL
             /\ rn[t].dyn = c.dyn \/ c.rtype \in ListTypes
  <2>1. Named(t)
    BY <1>3, <1>5
  <2>2. c.rtype # "JOBID"
    <3>1. Listable(d)
      BY <1>1, DirIs
    <3>2. MayHold(rn[d].rtype, c.rtype)
      BY <1>2, <1>5, <3>1, ChildrenFor DEF ListFor, NKids
    <3> QED BY <3>2 DEF MayHold
  <2>3. rn[d].rtype \in SeenDirs /\ j \in 1 .. NKids(d) /\ t = rn[d].children + j - 1
    BY <1>2, <1>5
  <2>4. /\ rn[t].nm = c.nm /\ rn[t].typ = c.typ /\ rn[t].rtype = c.rtype /\ rn[t].parent = d
        /\ rn[t].dyn = c.dyn \/ c.rtype \in ListTypes \cup {"JOBID"}
        /\ t # NULL
    BY <1>5, <2>1, <2>3, KidIs
  <2> QED BY <2>2, <2>4
<1> QED BY <1>2, <1>4, <1>5 DEF Nth

\* The attributes that a place of a kind of record shows.
ShownAttrs(of) ==
    [j \in DOMAIN AttrTab[of] |->
        [nm |-> AttrTab[of][j].nm, typ |-> AttrTab[of][j].typ, size |-> SizeOf(AttrTab[of][j].typ)]]

\* What the places of the tree show, one by one.
LEMMA EntriesAre ==
  /\ View!Entries(View!Root) = <<View!Entry("attributes", View!Place("attributes", "CLUSTER", 1)),
                                 View!Entry("partitions", View!Bare("partitions")),
                                 View!Entry("jobs", View!Bare("jobs"))>>
  /\ View!Entries(View!Bare("partitions")) =
        [j \in DOMAIN in.part.recs |->
            View!Entry(in.part.recs[j], View!Place("partition", "PARTNAME", j))]
  /\ \A of, rec : View!Entries(View!Place("partition", of, rec)) =
        <<View!Entry("nodes", View!Bare("nodes")),
          View!Entry("attributes", View!Place("attributes", of, rec))>>
  /\ View!Entries(View!Bare("nodes")) =
        [j \in DOMAIN in.node.recs |->
            View!Entry(in.node.recs[j], View!Place("node", "NODENAME", j))]
  /\ \A of, rec : View!Entries(View!Place("node", of, rec)) =
        <<View!Entry("attributes", View!Place("attributes", of, rec))>>
  /\ View!Entries(View!Bare("jobs")) =
        [j \in DOMAIN View!FirstJobs(in.job.recs) |->
            View!Entry(View!FirstJobs(in.job.recs)[j], View!Bare("job"))]
  /\ View!Entries(View!Bare("job")) = <<View!Entry("jobsteps", View!Bare("empty"))>>
  /\ View!Entries(View!Bare("empty")) = <<>> /\ View!Entries(View!Nowhere) = <<>>
  /\ \A of, rec : View!Entries(View!Place("file", of, rec)) = <<>>
<1>2. View!Root.kind = "cluster" /\ View!Nowhere.kind = "nowhere"
      /\ \A kind : View!Bare(kind).kind = kind
  BY DEF View!Root, View!Nowhere, View!Bare, View!Place
<1>4. View!Entries(View!Root) = <<View!Entry("attributes", View!Place("attributes", "CLUSTER", 1)),
                                 View!Entry("partitions", View!Bare("partitions")),
                                 View!Entry("jobs", View!Bare("jobs"))>>
  BY <1>2 DEF View!Entries
<1>5. View!Entries(View!Bare("partitions")) =
        [j \in DOMAIN in.part.recs |->
            View!Entry(in.part.recs[j], View!Place("partition", "PARTNAME", j))]
  BY <1>2 DEF View!Entries, View!OneEach
<1>6. \A of, rec : View!Entries(View!Place("partition", of, rec)) =
        <<View!Entry("nodes", View!Bare("nodes")),
          View!Entry("attributes", View!Place("attributes", of, rec))>>
  <2> TAKE of, rec
  <2>1. PICK pl : pl = View!Place("partition", of, rec)
    OBVIOUS
  <2>2. pl.kind = "partition" /\ pl.of = of /\ pl.rec = rec
    BY <2>1 DEF View!Place
  <2>3. View!Entries(pl) = <<View!Entry("nodes", View!Bare("nodes")),
                             View!Entry("attributes", View!Place("attributes", of, rec))>>
    BY <2>2 DEF View!Entries
  <2> QED BY <2>1, <2>3
<1>7. View!Entries(View!Bare("nodes")) =
        [j \in DOMAIN in.node.recs |->
            View!Entry(in.node.recs[j], View!Place("node", "NODENAME", j))]
  BY <1>2 DEF View!Entries, View!OneEach
<1>8. \A of, rec : View!Entries(View!Place("node", of, rec)) =
        <<View!Entry("attributes", View!Place("attributes", of, rec))>>
  <2> TAKE of, rec
  <2>1. PICK pl : pl = View!Place("node", of, rec)
    OBVIOUS
  <2>2. pl.kind = "node" /\ pl.of = of /\ pl.rec = rec
    BY <2>1 DEF View!Place
  <2>3. View!Entries(pl) = <<View!Entry("attributes", View!Place("attributes", of, rec))>>
    BY <2>2 DEF View!Entries
  <2> QED BY <2>1, <2>3
<1>9. View!Entries(View!Bare("jobs")) =
        [j \in DOMAIN View!FirstJobs(in.job.recs) |->
            View!Entry(View!FirstJobs(in.job.recs)[j], View!Bare("job"))]
  BY <1>2 DEF View!Entries
<1>10. View!Entries(View!Bare("job")) = <<View!Entry("jobsteps", View!Bare("empty"))>>
  BY <1>2 DEF View!Entries
<1>11. View!Entries(View!Bare("empty")) = <<>> /\ View!Entries(View!Nowhere) = <<>>
  BY <1>2 DEF View!Entries
<1>12. \A of, rec : View!Entries(View!Place("file", of, rec)) = <<>>
  <2> TAKE of, rec
  <2>1. PICK pl : pl = View!Place("file", of, rec)
    OBVIOUS
  <2>2. pl.kind = "file" /\ pl.of = of /\ pl.rec = rec
    BY <2>1 DEF View!Place
  <2>3. View!Entries(pl) = <<>>
    BY <2>2 DEF View!Entries
  <2> QED BY <2>1, <2>3
<1> QED BY <1>4, <1>5, <1>6, <1>7, <1>8, <1>9, <1>10, <1>11, <1>12

\* An attribute directory shows the files of its kind of record, and a node's job.
LEMMA AttrEntriesAre ==
  ASSUME NEW of \in {"CLUSTER", "PARTNAME", "NODENAME"}, NEW rec
  PROVE  View!Entries(View!Place("attributes", of, rec)) =
            [j \in DOMAIN AttrTab[of] |->
                View!Entry(AttrTab[of][j].nm,
                           IF AttrTab[of][j].typ = "ALLOCJOB" THEN View!Bare("empty")
                           ELSE View!Place("file", ShownAttrs(of)[j], rec))]
<1>1. PICK pl : pl = View!Place("attributes", of, rec)
  OBVIOUS
<1>2. pl.kind = "attributes" /\ pl.of = of /\ pl.rec = rec
  BY <1>1 DEF View!Place
<1>3. DOMAIN ShownAttrs(of) = DOMAIN AttrTab[of]
      /\ \A j \in DOMAIN AttrTab[of] : /\ ShownAttrs(of)[j].nm = AttrTab[of][j].nm
                                       /\ ShownAttrs(of)[j].typ = AttrTab[of][j].typ
  BY DEF ShownAttrs
<1>4. View!Entries(pl) =
        [j \in DOMAIN ShownAttrs(of) |->
            LET attr == ShownAttrs(of)[j]
            IN View!Entry(attr.nm, IF attr.typ = "ALLOCJOB" THEN View!Bare("empty")
                                   ELSE View!Place("file", attr, rec))]
  BY <1>2 DEF View!Entries, ShownAttrs
<1> QED BY <1>1, <1>3, <1>4

\* The place of a node that is cast as a child c of directory d.
LEMMA PlaceIs ==
  ASSUME NEW t, t # NULL
  PROVE  /\ rn[t].rtype = "CLUSTER" => PlaceOf(t) = View!Root
         /\ rn[t].rtype = "PARTS" => PlaceOf(t) = View!Bare("partitions")
         /\ rn[t].rtype = "PARTNAME" => PlaceOf(t) = View!Place("partition", "PARTNAME", rn[t].dyn)
         /\ rn[t].rtype = "NODES" => PlaceOf(t) = View!Bare("nodes")
         /\ rn[t].rtype = "NODENAME" => PlaceOf(t) = View!Place("node", "NODENAME", rn[t].dyn)
         /\ rn[t].rtype = "JOBS" => PlaceOf(t) = View!Bare("jobs")
         /\ rn[t].rtype = "JOBID" => PlaceOf(t) = View!Bare("job")
         /\ rn[t].rtype = "ATTRIBUTES" =>
               PlaceOf(t) = View!Place("attributes", rn[rn[t].parent].rtype, rn[t].dyn)
         /\ rn[t].rtype \in SeenBare => PlaceOf(t) = View!Bare("empty")
         /\ rn[t].rtype \notin SeenDirs \cup SeenBare =>
               PlaceOf(t) = View!Place("file", [nm |-> rn[t].nm, typ |-> rn[t].typ,
                                                size |-> SizeOf(rn[t].typ)], rn[t].dyn)
  BY DEF PlaceOf, SeenBare, SeenDirs

\* The cluster, a partition and a node list what their builders cast.
LEMMA FixedShown ==
  ASSUME Built, NEW d \in Dirs, rn[d].rtype \in {"CLUSTER", "PARTNAME", "NODENAME"}
  PROVE  ShownBy(d, View!Entries(PlaceOf(d)))
<1>1. d # NULL /\ rn[d].rtype \in SeenDirs \ {"JOBS", "JOBID"} /\ rn[d].rtype \in BuiltTypes
  <2>1. rn[d].rtype \in DirTypes /\ d \in Slots
    BY DirIs
  <2> QED BY <2>1 DEF SeenDirs, DirTypes, Slots
<1>2. PICK n, list : n \in Nat /\ n = NKids(d) /\ list = Children(d)
  BY <1>1, FullShown
<1>3. Cardinality(Listed(d)) = n /\ n = Len(list)
  BY <1>1, <1>2, FullShown DEF NKids
<1>4. ASSUME NEW j \in 1 .. n
      PROVE  LET t == Nth(d, j)
                 c == list[j]
             IN /\ rn[t].nm = c.nm /\ rn[t].rtype = c.rtype /\ rn[t].parent = d /\ t # NULL
                /\ rn[t].dyn = c.dyn \/ c.rtype \in ListTypes
  BY <1>1, <1>2, <1>4, FullShown
<1>5. CASE rn[d].rtype = "CLUSTER"
  <2>1. Children(d) = ClusterChildren
    BY <1>1, <1>5, ChildrenIs
  <2>2. /\ n = 3 /\ list[1].nm = "attributes" /\ list[1].rtype = "ATTRIBUTES" /\ list[1].dyn = 1
        /\ list[2].nm = "partitions" /\ list[2].rtype = "PARTS"
        /\ list[3].nm = "jobs" /\ list[3].rtype = "JOBS"
    BY <1>2, <1>3, <2>1 DEF ClusterChildren, Dir, Child
  <2>3. 1 \in 1 .. n /\ 2 \in 1 .. n /\ 3 \in 1 .. n
    BY <2>2
  <2>4. /\ rn[Nth(d, 1)].nm = "attributes" /\ PlaceOf(Nth(d, 1)) = View!Place("attributes", "CLUSTER", 1)
    <3>1. PICK t : t = Nth(d, 1)
      OBVIOUS
    <3>2. rn[t].nm = "attributes" /\ rn[t].rtype = "ATTRIBUTES" /\ rn[t].dyn = 1 /\ rn[t].parent = d /\ t # NULL
      BY <1>4, <2>2, <2>3, <3>1 DEF ListTypes
    <3> QED BY <1>5, <3>1, <3>2, PlaceIs
  <2>5. rn[Nth(d, 2)].nm = "partitions" /\ PlaceOf(Nth(d, 2)) = View!Bare("partitions")
    <3>1. PICK t : t = Nth(d, 2)
      OBVIOUS
    <3>2. rn[t].nm = "partitions" /\ rn[t].rtype = "PARTS" /\ t # NULL
      BY <1>4, <2>2, <2>3, <3>1
    <3> QED BY <3>1, <3>2, PlaceIs
  <2>6. rn[Nth(d, 3)].nm = "jobs" /\ PlaceOf(Nth(d, 3)) = View!Bare("jobs")
    <3>1. PICK t : t = Nth(d, 3)
      OBVIOUS
    <3>2. rn[t].nm = "jobs" /\ rn[t].rtype = "JOBS" /\ t # NULL
      BY <1>4, <2>2, <2>3, <3>1
    <3> QED BY <3>1, <3>2, PlaceIs
  <2>7. PICK es : es = View!Entries(PlaceOf(d))
                  /\ es = <<View!Entry("attributes", View!Place("attributes", "CLUSTER", 1)),
                            View!Entry("partitions", View!Bare("partitions")),
                            View!Entry("jobs", View!Bare("jobs"))>>
    BY <1>1, <1>5, EntriesAre, PlaceIs
  <2>8. Len(es) = 3 /\ DOMAIN es = 1 .. 3
        /\ es[1] = View!Entry("attributes", View!Place("attributes", "CLUSTER", 1))
        /\ es[2] = View!Entry("partitions", View!Bare("partitions"))
        /\ es[3] = View!Entry("jobs", View!Bare("jobs"))
    BY <2>7
  <2>9. \A j \in 1 .. 3 : j = 1 \/ j = 2 \/ j = 3
    OBVIOUS
  <2>10. ShownBy(d, es)
    BY <1>3, <2>2, <2>4, <2>5, <2>6, <2>8, <2>9 DEF ShownBy
  <2> QED BY <2>7, <2>10
<1>6. CASE rn[d].rtype = "PARTNAME"
  <2> DEFINE below == View!Place("attributes", "PARTNAME", rn[d].dyn)
  <2> HIDE DEF below
  <2>1. Children(d) = PartChildren(d)
    BY <1>1, <1>6, ChildrenIs
  <2>2. /\ n = 2 /\ list[1].nm = "nodes" /\ list[1].rtype = "NODES"
        /\ list[2].nm = "attributes" /\ list[2].rtype = "ATTRIBUTES" /\ list[2].dyn = rn[d].dyn
    BY <1>2, <1>3, <2>1 DEF PartChildren, Dir, Child
  <2>3. 1 \in 1 .. n /\ 2 \in 1 .. n
    BY <2>2
  <2>4. rn[Nth(d, 1)].nm = "nodes" /\ PlaceOf(Nth(d, 1)) = View!Bare("nodes")
    <3>1. PICK t : t = Nth(d, 1)
      OBVIOUS
    <3>2. rn[t].nm = "nodes" /\ rn[t].rtype = "NODES" /\ t # NULL
      BY <1>4, <2>2, <2>3, <3>1
    <3> QED BY <3>1, <3>2, PlaceIs
  <2>5. rn[Nth(d, 2)].nm = "attributes" /\ PlaceOf(Nth(d, 2)) = below
    <3>1. PICK t : t = Nth(d, 2)
      OBVIOUS
    <3>2. /\ rn[t].nm = "attributes" /\ rn[t].rtype = "ATTRIBUTES" /\ rn[t].dyn = rn[d].dyn
          /\ rn[t].parent = d /\ t # NULL
      BY <1>4, <2>2, <2>3, <3>1 DEF ListTypes
    <3> QED BY <1>6, <3>1, <3>2, PlaceIs DEF below
  <2>6. PICK es : es = View!Entries(PlaceOf(d))
                  /\ es = <<View!Entry("nodes", View!Bare("nodes")), View!Entry("attributes", below)>>
    <3>1. PlaceOf(d) = View!Place("partition", "PARTNAME", rn[d].dyn)
      BY <1>1, <1>6, PlaceIs
    <3> QED BY <3>1, EntriesAre DEF below
  <2>7. /\ Len(es) = 2 /\ DOMAIN es = 1 .. 2
        /\ es[1] = View!Entry("nodes", View!Bare("nodes")) /\ es[2] = View!Entry("attributes", below)
    BY <2>6
  <2>8. \A j \in 1 .. 2 : j = 1 \/ j = 2
    OBVIOUS
  <2>9. ShownBy(d, es)
    BY <1>3, <2>2, <2>4, <2>5, <2>7, <2>8 DEF ShownBy
  <2> QED BY <2>6, <2>9
<1>7. CASE rn[d].rtype = "NODENAME"
  <2> DEFINE below == View!Place("attributes", "NODENAME", rn[d].dyn)
  <2> HIDE DEF below
  <2>1. Children(d) = NodeChildren(d)
    BY <1>1, <1>7, ChildrenIs
  <2>2. n = 1 /\ list[1].nm = "attributes" /\ list[1].rtype = "ATTRIBUTES" /\ list[1].dyn = rn[d].dyn
    BY <1>2, <1>3, <2>1 DEF NodeChildren, Dir, Child
  <2>3. rn[Nth(d, 1)].nm = "attributes" /\ PlaceOf(Nth(d, 1)) = below
    <3>1. PICK t : t = Nth(d, 1)
      OBVIOUS
    <3>2. /\ rn[t].nm = "attributes" /\ rn[t].rtype = "ATTRIBUTES" /\ rn[t].dyn = rn[d].dyn
          /\ rn[t].parent = d /\ t # NULL
      BY <1>4, <2>2, <3>1 DEF ListTypes
    <3> QED BY <1>7, <3>1, <3>2, PlaceIs DEF below
  <2>4. PICK es : es = View!Entries(PlaceOf(d)) /\ es = <<View!Entry("attributes", below)>>
    <3>1. PlaceOf(d) = View!Place("node", "NODENAME", rn[d].dyn)
      BY <1>1, <1>7, PlaceIs
    <3> QED BY <3>1, EntriesAre DEF below
  <2>5. Len(es) = 1 /\ DOMAIN es = 1 .. 1 /\ es[1] = View!Entry("attributes", below)
    BY <2>4
  <2>6. ShownBy(d, es)
    BY <1>3, <2>2, <2>3, <2>5 DEF ShownBy
  <2> QED BY <2>4, <2>6
<1> QED BY <1>5, <1>6, <1>7

\* The nodes in the block of directory d are those in the list.
CastFrom(d, list, n) ==
    \A j \in 1 .. n :
        LET t == Nth(d, j)
            c == list[j]
        IN /\ rn[t].nm = c.nm /\ rn[t].rtype = c.rtype /\ t # NULL
           /\ rn[t].dyn = c.dyn \/ c.rtype \in ListTypes

\* The nodes of a type are places of a kind.
OfKind(of, kind) == \A t : t # NULL /\ rn[t].rtype = of => PlaceOf(t) = View!Place(kind, of, rn[t].dyn)

\* The entries es are the records of a reply, with places of a kind.
OfReply(es, msg, n, of, kind) ==
    /\ Len(es) = n /\ DOMAIN es = 1 .. n /\ DOMAIN msg.recs = 1 .. n
    /\ \A j \in 1 .. n : es[j] = View!Entry(msg.recs[j], View!Place(kind, of, j))

\* A directory whose children are cast for the records of a reply shows one place each.
LEMMA RecordsShown ==
  ASSUME NEW d, NEW n \in Nat, Cardinality(Listed(d)) = n, NEW msg, IsReply(msg), NEW kind,
         NEW of, of \in {"PARTNAME", "NODENAME"}, NEW list, list = OfRecords(msg, of, "ASSERT"),
         CastFrom(d, list, n), OfKind(of, kind), NEW es, OfReply(es, msg, n, of, kind)
  PROVE  ShownBy(d, es)
<1>1. ASSUME NEW j \in 1 .. n PROVE es[j] = View!Entry(rn[Nth(d, j)].nm, PlaceOf(Nth(d, j)))
  <2>1. PICK t : t = Nth(d, j)
    OBVIOUS
  <2>2. list[j] = Dir(of, msg.recs[j], j, "ASSERT")
    BY RecordsListed DEF OfRecords, OfReply
  <2>3. list[j].nm = msg.recs[j] /\ list[j].rtype = of /\ list[j].dyn = j
    BY <2>2 DEF Dir, Child
  <2>4. rn[t].nm = msg.recs[j] /\ rn[t].rtype = of /\ t # NULL /\ rn[t].dyn = j
    BY <2>1, <2>3 DEF ListTypes, CastFrom
  <2>5. PlaceOf(t) = View!Place(kind, of, j)
    BY <2>4 DEF OfKind
  <2>6. es[j] = View!Entry(msg.recs[j], View!Place(kind, of, j))
    BY DEF OfReply
  <2> QED BY <2>1, <2>4, <2>5, <2>6
<1> QED BY <1>1 DEF ShownBy, OfReply

\* The directories of partitions and of nodes list the records.
LEMMA ListsShown ==
  ASSUME Built, NEW d \in Dirs, rn[d].rtype \in {"PARTS", "NODES"}
  PROVE  ShownBy(d, View!Entries(PlaceOf(d)))
<1>1. d # NULL /\ rn[d].rtype \in SeenDirs \ {"JOBS", "JOBID"}
  <2>1. rn[d].rtype \in DirTypes /\ d \in Slots
    BY DirIs
  <2> QED BY <2>1 DEF SeenDirs, Slots
<1>2. PICK n, list : n \in Nat /\ n = NKids(d) /\ list = Children(d) /\ Cardinality(Listed(d)) = n
  BY <1>1, FullShown
<1>3. CastFrom(d, list, n)
  BY <1>1, <1>2, FullShown DEF CastFrom
<1>4. n \in Nat
  BY <1>2
<1>5. in \in Inputs
  BY DEF Built, Mounted, IInv, PoolInv
<1>6. IsReply(in.part) /\ IsReply(in.node)
  BY <1>5, InputsAssumption
<1>7. CASE rn[d].rtype = "PARTS"
  <2>1. PlaceOf(d) = View!Bare("partitions")
    BY <1>1, <1>7, PlaceIs
  <2>2. list = OfRecords(in.part, "PARTNAME", "ASSERT") /\ DOMAIN in.part.recs = 1 .. n
    BY <1>2, <1>7, ListsAre
  <2>3. OfKind("PARTNAME", "partition")
    BY PlaceIs DEF OfKind
  <2>4. PICK es : /\ es = View!Entries(PlaceOf(d))
                  /\ es = [j \in DOMAIN in.part.recs |->
                              View!Entry(in.part.recs[j], View!Place("partition", "PARTNAME", j))]
    BY <2>1, EntriesAre
  <2>5. OfReply(es, in.part, n, "PARTNAME", "partition")
    BY <1>4, <2>2, <2>4 DEF OfReply
  <2>6. ShownBy(d, es)
    BY <1>2, <1>3, <1>6, <2>2, <2>3, <2>5, RecordsShown
  <2> QED BY <2>4, <2>6
<1>8. CASE rn[d].rtype = "NODES"
  <2>1. PlaceOf(d) = View!Bare("nodes")
    BY <1>1, <1>8, PlaceIs
  <2>2. list = OfRecords(in.node, "NODENAME", "ASSERT") /\ DOMAIN in.node.recs = 1 .. n
    BY <1>2, <1>8, ListsAre
  <2>3. OfKind("NODENAME", "node")
    BY PlaceIs DEF OfKind
  <2>4. PICK es : /\ es = View!Entries(PlaceOf(d))
                  /\ es = [j \in DOMAIN in.node.recs |->
                              View!Entry(in.node.recs[j], View!Place("node", "NODENAME", j))]
    BY <2>1, EntriesAre
  <2>5. OfReply(es, in.node, n, "NODENAME", "node")
    BY <1>4, <2>2, <2>4 DEF OfReply
  <2>6. ShownBy(d, es)
    BY <1>2, <1>3, <1>6, <2>2, <2>3, <2>5, RecordsShown
  <2> QED BY <2>4, <2>6
<1> QED BY <1>7, <1>8

\* Attributes that can be seen are of the cluster, a partition or a node.
LEMMA AttrsOf ==
  ASSUME Built, NEW d \in Dirs, Seen(d), rn[d].rtype = "ATTRIBUTES"
  PROVE  rn[rn[d].parent].rtype \in {"CLUSTER", "PARTNAME", "NODENAME"}
<1>1. d # p_fsroot
  BY DEF Built, Mounted, MountInv, FsRootIs
<1>2. PICK up : up = rn[d].parent
  OBVIOUS
<1>3. rn[up].rtype \in SeenDirs /\ MayHold(rn[up].rtype, "ATTRIBUTES")
  BY <1>1, <1>2, SeenUp
<1>4. rn[up].rtype # "JOBID"
  <2>1. Depth = 0 /\ (OfJob(d) => \E k \in 1 .. Depth : stack[k].at = d)
    BY DEF Built, Mounted, MountInv, JobsInv, Depth
  <2> QED BY <1>2, <2>1 DEF OfJob
<1> QED BY <1>2, <1>3, <1>4 DEF MayHold, SeenDirs

\* The attributes of the cluster, a partition and a node: files, and a node's job.
LEMMA AttrsConverted ==
  ASSUME NEW of \in {"CLUSTER", "PARTNAME", "NODENAME"}, NEW j \in DOMAIN AttrTab[of],
         NEW typ, typ = AttrTab[of][j].typ
  PROVE  /\ p2r_typ_convtab(typ) = IF typ = "ALLOCJOB" THEN "ALLOCJOB" ELSE "ATTRIBUTE"
         /\ typ \in {"SLURMTMOUT", "ALPHANUM", "NODESTATE", "NUMERIC", "ALLOCJOB"}
<1>1. typ \in {"SLURMTMOUT", "ALPHANUM", "NODESTATE", "NUMERIC", "ALLOCJOB"}
  BY DEF AttrTab
<1> QED BY <1>1 DEF p2r_typ_convtab

\* An attribute directory lists its parent's attributes.
LEMMA AttrsShown ==
  ASSUME Built, NEW d \in Dirs, Seen(d), rn[d].rtype = "ATTRIBUTES"
  PROVE  ShownBy(d, View!Entries(PlaceOf(d)))
<1>1. d # NULL /\ rn[d].rtype \in SeenDirs \ {"JOBS", "JOBID"} /\ rn[d].rtype \in BuiltTypes
  <2>1. rn[d].rtype \in DirTypes /\ d \in Slots
    BY DirIs
  <2> QED BY <2>1 DEF SeenDirs, DirTypes, Slots
<1>2. PICK of \in {"CLUSTER", "PARTNAME", "NODENAME"} : of = rn[rn[d].parent].rtype
  BY AttrsOf
<1>3. PICK n, list : n \in Nat /\ n = NKids(d) /\ list = Children(d) /\ Cardinality(Listed(d)) = n
  BY <1>1, FullShown
<1>4. PICK rec : rec = rn[d].dyn
  OBVIOUS
<1>5. list = [j \in DOMAIN AttrTab[of] |-> Child(p2r_typ_convtab(AttrTab[of][j].typ), AttrTab[of][j].nm,
                                              AttrTab[of][j].typ, rec, "ASSERT")]
  <2>1. list = AttrChildren(d)
    BY <1>1, <1>3, ChildrenIs
  <2> QED BY <1>2, <1>4, <2>1 DEF AttrChildren
<1>6. DOMAIN AttrTab[of] = 1 .. n
  <2>1. Listable(d)
    BY <1>1, DirIs DEF SeenDirs
  <2>2. DOMAIN list = 1 .. n
    BY <1>3, <2>1, ChildrenFor DEF ListFor, NKids
  <2> QED BY <1>5, <2>2
<1>7. PlaceOf(d) = View!Place("attributes", of, rec)
  BY <1>1, <1>2, <1>4, PlaceIs
<1>8. PICK es : es = View!Entries(PlaceOf(d))
  OBVIOUS
<1>9. es = [j \in DOMAIN AttrTab[of] |->
              View!Entry(AttrTab[of][j].nm,
                         IF AttrTab[of][j].typ = "ALLOCJOB" THEN View!Bare("empty")
                         ELSE View!Place("file", ShownAttrs(of)[j], rec))]
  <2>1. es = View!Entries(View!Place("attributes", of, rec))
    BY <1>7, <1>8
  <2> QED BY <1>2, <2>1, AttrEntriesAre
<1>10. DOMAIN es = 1 .. n /\ Len(es) = n
  <2>1. n \in Nat
    BY <1>3
  <2> QED BY <1>6, <1>9, <2>1
<1>11. ASSUME NEW j \in 1 .. n PROVE es[j] = View!Entry(rn[Nth(d, j)].nm, PlaceOf(Nth(d, j)))
  <2>1. PICK t, nm, typ : t = Nth(d, j) /\ nm = AttrTab[of][j].nm /\ typ = AttrTab[of][j].typ
    OBVIOUS
  <2>2. j \in DOMAIN AttrTab[of]
    BY <1>6
  <2>3. /\ p2r_typ_convtab(typ) = IF typ = "ALLOCJOB" THEN "ALLOCJOB" ELSE "ATTRIBUTE"
    BY <1>2, <2>1, <2>2, AttrsConverted
  <2>4. list[j] = Child(p2r_typ_convtab(typ), nm, typ, rec, "ASSERT")
    BY <1>5, <2>1, <2>2
  <2>5. PICK c : c = list[j]
    OBVIOUS
  <2>6. c.rtype = p2r_typ_convtab(typ) /\ c.nm = nm /\ c.typ = typ /\ c.dyn = rec
    BY <2>4, <2>5 DEF Child
  <2>7. /\ rn[t].nm = c.nm /\ rn[t].typ = c.typ /\ rn[t].rtype = c.rtype /\ t # NULL
        /\ rn[t].dyn = c.dyn \/ c.rtype \in ListTypes
    BY <1>1, <1>3, <2>1, <2>5, FullShown
  <2>8. rn[t].nm = nm /\ rn[t].typ = typ /\ rn[t].dyn = rec /\ t # NULL
        /\ rn[t].rtype = IF typ = "ALLOCJOB" THEN "ALLOCJOB" ELSE "ATTRIBUTE"
    BY <2>3, <2>6, <2>7 DEF ListTypes
  <2>9. PlaceOf(t) = IF typ = "ALLOCJOB" THEN View!Bare("empty")
                     ELSE View!Place("file", [nm |-> nm, typ |-> typ, size |-> SizeOf(typ)], rec)
    <3>1. CASE typ = "ALLOCJOB"
      BY <2>8, <3>1, PlaceIs DEF SeenBare
    <3>2. CASE typ # "ALLOCJOB"
      <4>1. rn[t].rtype \notin SeenDirs \cup SeenBare
        BY <2>8, <3>2 DEF SeenDirs, SeenBare
      <4>2. PlaceOf(t) = View!Place("file", [nm |-> rn[t].nm, typ |-> rn[t].typ,
                                             size |-> SizeOf(rn[t].typ)], rn[t].dyn)
        BY <2>8, <4>1, PlaceIs
      <4> QED BY <2>8, <3>2, <4>2
    <3> QED BY <3>1, <3>2
  <2>10. ShownAttrs(of)[j] = [nm |-> nm, typ |-> typ, size |-> SizeOf(typ)]
    BY <2>1, <2>2 DEF ShownAttrs
  <2>11. es[j] = View!Entry(nm, IF typ = "ALLOCJOB" THEN View!Bare("empty")
                                ELSE View!Place("file", ShownAttrs(of)[j], rec))
    BY <1>9, <2>1, <2>2
  <2> QED BY <2>1, <2>8, <2>9, <2>10, <2>11
<1> QED BY <1>3, <1>8, <1>10, <1>11 DEF ShownBy

\* The first jobs of a reply, before one that repeats an identifier.
LEMMA FirstAre ==
  ASSUME NEW T, NEW recs \in Seq(T)
  PROVE  \E m \in Nat : /\ m <= Len(recs) /\ Len(View!FirstJobs(recs)) = m /\ DOMAIN View!FirstJobs(recs) = 1 .. m
                        /\ \A j \in 1 .. m : View!FirstJobs(recs)[j] = recs[j]
                        /\ \A h, k \in 1 .. m : recs[h] = recs[k] => h = k
                        /\ m = Len(recs) \/ \E h \in 1 .. m : recs[h] = recs[m + 1]
<1> DEFINE fresh(j) == \A h, k \in 1 .. j : recs[h] = recs[k] => h = k
           first == {j \in DOMAIN recs : fresh(j)}
<1>1. PICK n \in Nat : n = Len(recs) /\ DOMAIN recs = 1 .. n
  BY LenProperties
<1>2. \E m \in Nat : m <= n /\ first = 1 .. m /\ (m > 0 => fresh(m)) /\ (m = n \/ ~fresh(m + 1))
  <2>1. CASE \A j \in 1 .. n : fresh(j)
    <3>1. first = 1 .. n
      BY <1>1, <2>1
    <3>2. n > 0 => fresh(n)
      <4>1. n > 0 => n \in 1 .. n
        OBVIOUS
      <4> QED BY <2>1, <4>1
    <3> QED BY <3>1, <3>2
  <2>2. CASE \E j \in 1 .. n : ~fresh(j)
    <3> DEFINE stale == {j \in 1 .. n : ~fresh(j)}
    <3> HIDE DEF fresh
    <3>1. stale \in SUBSET Nat /\ stale # {}
      BY <2>2
    <3> HIDE DEF stale
    <3>10. PICK i \in stale : \A j \in stale : i <= j
      BY <3>1, Least
    <3>2. i \in 1 .. n /\ ~fresh(i)
      BY DEF stale
    <3>3. \A j \in 1 .. n : ~fresh(j) => i <= j
      BY <3>10 DEF stale
    <3>4. \A j \in 1 .. n : fresh(j) => j < i
      <4> SUFFICES ASSUME NEW j \in 1 .. n, fresh(j), j >= i PROVE FALSE
        BY <3>2
      <4>1. 1 .. i \subseteq 1 .. j
        BY <3>2
      <4>2. fresh(i)
        BY <4>1 DEF fresh
      <4> QED BY <3>2, <4>2
    <3>5. PICK m \in Nat : m = i - 1 /\ m <= n /\ m + 1 = i
      BY <3>2
    <3>6. \A j \in 1 .. m : j \in 1 .. n /\ fresh(j)
      <4> SUFFICES ASSUME NEW j \in 1 .. m PROVE j \in 1 .. n /\ fresh(j)
        OBVIOUS
      <4>1. j \in 1 .. n /\ ~(i <= j)
        BY <3>2, <3>5
      <4> QED BY <3>3, <4>1
    <3>7. \A j \in 1 .. n : fresh(j) => j \in 1 .. m
      BY <3>2, <3>4, <3>5
    <3>8. first = 1 .. m
      BY <1>1, <3>6, <3>7
    <3>9. m > 0 => fresh(m)
      <4>1. m > 0 => m \in 1 .. m
        OBVIOUS
      <4> QED BY <3>6, <4>1
    <3> QED BY <3>2, <3>5, <3>8, <3>9
  <2> QED BY <2>1, <2>2
<1>3. PICK m \in Nat : m <= n /\ first = 1 .. m /\ (m > 0 => fresh(m)) /\ (m = n \/ ~fresh(m + 1))
  BY <1>2
<1>4. View!FirstJobs(recs) = [j \in first |-> recs[j]]
  BY Zenon DEF View!FirstJobs
<1>5. PICK jobs : jobs = View!FirstJobs(recs) /\ jobs = [j \in 1 .. m |-> recs[j]]
  <2> HIDE DEF first
  <2> QED BY <1>3, <1>4
<1>6. Len(jobs) = m /\ DOMAIN jobs = 1 .. m /\ \A j \in 1 .. m : jobs[j] = recs[j]
  BY <1>1, <1>3, <1>5
<1>7. \A h, k \in 1 .. m : recs[h] = recs[k] => h = k
  <2>1. CASE m = 0
    BY <2>1
  <2>2. CASE m > 0
    BY <1>3, <2>2
  <2> QED BY <2>1, <2>2
<1>8. ASSUME m # n PROVE \E h \in 1 .. m : recs[h] = recs[m + 1]
  <2>1. PICK h \in 1 .. m + 1, k \in 1 .. m + 1 : recs[h] = recs[k] /\ h # k
    BY <1>3, <1>8
  <2>2. h \in 1 .. m \/ h = m + 1
    OBVIOUS
  <2>3. k \in 1 .. m \/ k = m + 1
    OBVIOUS
  <2> QED BY <1>7, <2>1, <2>2, <2>3
<1> QED BY <1>1, <1>3, <1>5, <1>6, <1>7, <1>8

\* The directory of jobs lists the first jobs: at the first repetition is a hole.
LEMMA JobsShown ==
  ASSUME Built, NEW d \in Dirs, rn[d].rtype = "JOBS"
  PROVE  ShownBy(d, View!Entries(PlaceOf(d)))
<1>1. d # NULL /\ rn[d].rtype \in SeenDirs /\ rn[d].rtype # "ROOT"
  <2>1. d \in Slots
    BY DirIs
  <2> QED BY <2>1 DEF SeenDirs, Slots
<1>2. PICK b \in Nat, n \in Nat : b = rn[d].children /\ n = NKids(d) /\ Kids(d) = b .. (b + n - 1)
  BY <1>1, DirIs
<1>3. PICK msg : msg = in.job /\ IsReply(msg)
  <2>1. in \in Inputs
    BY DEF Built, Mounted, IInv, PoolInv
  <2> QED BY <2>1, InputsAssumption
<1>4. PICK recs \in Seq(NodeNames) : recs = msg.recs
  BY <1>3 DEF IsReply
<1>5. n = Len(recs) /\ DOMAIN recs = 1 .. n /\ Children(d) = OfRecords(msg, "JOBID", "CONTINUE")
  BY <1>2, <1>3, <1>4, ListsAre
<1>6. PICK jobs : jobs = View!FirstJobs(recs)
  OBVIOUS
<1>7. PICK m \in Nat : /\ m <= n /\ Len(jobs) = m /\ DOMAIN jobs = 1 .. m
                       /\ \A j \in 1 .. m : jobs[j] = recs[j]
                       /\ \A h, k \in 1 .. m : recs[h] = recs[k] => h = k
                       /\ m = n \/ \E h \in 1 .. m : recs[h] = recs[m + 1]
  BY <1>5, <1>6, FirstAre
<1>8. ASSUME NEW j \in 1 .. n
      PROVE  Children(d)[j].nm = recs[j] /\ Children(d)[j].rtype = "JOBID"
  BY <1>4, <1>5, <1>8 DEF OfRecords, Dir, Child
<1>9. ASSUME NEW j \in 1 .. n, NEW t, t = b + j - 1
      PROVE  /\ Named(t) => rn[t].nm = recs[j] /\ rn[t].rtype = "JOBID" /\ t # NULL
             /\ ~Named(t) => \E h \in 1 .. (j - 1) : recs[h] = recs[j]
  <2>1. t \in b .. (b + n - 1) /\ t - b + 1 = j
    BY <1>9
  <2>5. t \in Kids(d) /\ t - rn[d].children + 1 = j
    BY <1>2, <2>1
  <2>2. KidOK(d, t) /\ rn[t].gen # 0 /\ t \in Slots
    BY <1>1, <2>5, DirIs
  <2>3. ASSUME Named(t) PROVE rn[t].nm = recs[j] /\ rn[t].rtype = "JOBID" /\ t # NULL
    <3>1. PICK c : c = Children(d)[j]
      OBVIOUS
    <3>2. rn[t].nm = c.nm /\ (rn[t].rtype = c.rtype \/ c.rtype = "KNOB")
      BY <2>2, <2>3, <2>5, <3>1 DEF KidOK
    <3>3. t # NULL
      BY <2>2 DEF Slots
    <3> QED BY <1>8, <3>1, <3>2, <3>3
  <2>4. ASSUME ~Named(t) PROVE \E h \in 1 .. (j - 1) : recs[h] = recs[j]
    <3>1. Hole(t)
      BY <2>2, <2>4 DEF Hole
    <3>2. PICK h \in 1 .. (j - 1) : Children(d)[h].nm = Children(d)[j].nm
      BY <2>2, <2>5, <3>1 DEF KidOK
    <3>3. h \in 1 .. n
      BY <3>2
    <3> QED BY <1>8, <3>2, <3>3
  <2> QED BY <2>3, <2>4
<1>10. ASSUME NEW j \in 1 .. m PROVE Named(b + j - 1)
  <2>1. j \in 1 .. n
    BY <1>7
  <2>2. ASSUME ~Named(b + j - 1) PROVE FALSE
    <3>1. PICK h \in 1 .. (j - 1) : recs[h] = recs[j]
      BY <1>9, <2>1, <2>2
    <3>2. h \in 1 .. m /\ h # j
      BY <3>1
    <3> QED BY <1>7, <1>10, <3>1, <3>2
  <2> QED BY <2>2
<1>11. ASSUME m # n PROVE ~Named(b + m)
  <2> SUFFICES ASSUME Named(b + m) PROVE FALSE
    OBVIOUS
  <2>1. PICK h \in 1 .. m : recs[h] = recs[m + 1]
    BY <1>7, <1>11
  <2>2. h \in 1 .. n /\ m + 1 \in 1 .. n /\ b + m = b + (m + 1) - 1
    BY <1>7, <1>11
  <2>3. rn[b + h - 1].nm = recs[h] /\ rn[b + m].nm = recs[m + 1]
    BY <1>9, <1>10, <2>2
  <2>4. ASSUME NEW u \in b .. (b + m) PROVE Named(u)
    <3>1. u = b + m \/ (u - b + 1 \in 1 .. m /\ b + (u - b + 1) - 1 = u)
      OBVIOUS
    <3> QED BY <1>10, <3>1
  <2>5. ASSUME NEW t \in b .. (b + m) PROVE t \in Listed(d)
    <3>1. t \in Kids(d)
      <4>1. m <= n - 1 /\ b + m <= b + n - 1
        BY <1>7, <1>11
      <4>2. t \in b .. (b + n - 1)
        BY <4>1
      <4> QED BY <1>2, <4>2
    <3>2. \A u \in b .. t : u \in b .. (b + m)
      OBVIOUS
    <3> QED BY <1>2, <2>4, <3>1, <3>2 DEF Listed
  <2>6. b + h - 1 \in b .. (b + m) /\ b + m \in b .. (b + m) /\ b + h - 1 # b + m
    OBVIOUS
  <2>7. b + h - 1 \in Listed(d) /\ b + m \in Listed(d)
    BY <2>5, <2>6
  <2>8. \A s, t \in Listed(d) : rn[s].nm = rn[t].nm => s = t
    BY <1>1 DEF Built, Mounted, TreeInv, ListedDistinct
  <2> QED BY <2>1, <2>3, <2>6, <2>7, <2>8
<1>12. Cardinality(Listed(d)) = m
  <2>1. m \in 0 .. NKids(d)
    BY <1>2, <1>7
  <2>2. \A j \in 1 .. m : Named(rn[d].children + j - 1)
    BY <1>2, <1>10
  <2>3. m = NKids(d) \/ ~Named(rn[d].children + m)
    BY <1>2, <1>11
  <2> QED BY <1>1, <2>1, <2>2, <2>3, ListIs
<1>13. PICK es : es = View!Entries(PlaceOf(d))
                 /\ es = [j \in DOMAIN jobs |-> View!Entry(jobs[j], View!Bare("job"))]
  <2>1. PlaceOf(d) = View!Bare("jobs")
    BY <1>1, PlaceIs
  <2> QED BY <1>3, <1>4, <1>6, <2>1, EntriesAre
<1>14. Len(es) = m /\ DOMAIN es = 1 .. m /\ \A j \in 1 .. m : es[j] = View!Entry(recs[j], View!Bare("job"))
  BY <1>7, <1>13
<1>15. ASSUME NEW j \in 1 .. m PROVE es[j] = View!Entry(rn[Nth(d, j)].nm, PlaceOf(Nth(d, j)))
  <2>1. PICK t : t = Nth(d, j)
    OBVIOUS
  <2>2. t = b + j - 1 /\ j \in 1 .. n
    BY <1>2, <1>7, <2>1 DEF Nth
  <2>3. rn[t].nm = recs[j] /\ rn[t].rtype = "JOBID" /\ t # NULL
    BY <1>9, <1>10, <2>2
  <2>4. PlaceOf(t) = View!Bare("job")
    BY <2>3, PlaceIs
  <2> QED BY <1>14, <2>1, <2>3, <2>4
<1> QED BY <1>12, <1>13, <1>14, <1>15 DEF ShownBy

\* A job shows its steps, which no builder has finished, and nothing after them.
LEMMA JobDirShown ==
  ASSUME Built, NEW d \in Dirs, rn[d].rtype = "JOBID"
  PROVE  ShownBy(d, View!Entries(PlaceOf(d))) /\ NKids(d) = 3
<1>1. d # NULL /\ rn[d].rtype \in SeenDirs /\ rn[d].rtype # "ROOT" /\ rn[d].rtype \in BuiltTypes
  <2>1. d \in Slots /\ rn[d].rtype \in DirTypes
    BY DirIs
  <2> QED BY <2>1 DEF SeenDirs, DirTypes, Slots
<1>2. PICK b \in Nat, n \in Nat : b = rn[d].children /\ n = NKids(d) /\ Kids(d) = b .. (b + n - 1)
  BY <1>1, DirIs
<1>3. PICK list : list = Children(d) /\ list = JobChildren(d)
  BY <1>1, ChildrenIs
<1>4. /\ n = 3 /\ list[1].nm = "jobsteps" /\ list[1].rtype = "JOBSTEPS"
      /\ list[2].rtype = "ATTRIBUTES"
  BY <1>2, <1>3 DEF JobChildren, Dir, Child, NKids
<1>5. Depth = 0
  BY DEF Built, Mounted, MountInv, Depth
<1>6. rn[b].gen # 0 /\ rn[b + 1].gen = 0
  <2>1. JobShown(d)
    BY DEF Built, ShapeInv
  <2>2. in.step.recs = <<>>
    BY RepliesAre
  <2>3. ~OnStack(d)
    BY <1>5 DEF OnStack
  <2>4. rn[rn[d].children].gen # 0 /\ rn[rn[d].children + 1].gen = 0
    BY <2>1, <2>2, <2>3 DEF JobShown
  <2> QED BY <1>2, <2>4
<1>7. b \in Kids(d) /\ b + 1 \in Kids(d) /\ b - b + 1 = 1 /\ (b + 1) - b + 1 = 2
  <2>1. Kids(d) = b .. (b + 2)
    <3>1. b + n - 1 = b + 2
      BY <1>4
    <3> QED BY <1>2, <3>1
  <2>2. b \in b .. (b + 2) /\ b + 1 \in b .. (b + 2) /\ b - b + 1 = 1 /\ (b + 1) - b + 1 = 2
    OBVIOUS
  <2> QED BY <2>1, <2>2
<1>8. KidOK(d, b) /\ KidOK(d, b + 1) /\ b \in Slots /\ b + 1 \in Slots
  BY <1>1, <1>7, DirIs
<1>9. Named(b)
  <2> SUFFICES ASSUME ~Named(b) PROVE FALSE
    OBVIOUS
  <2>1. Hole(b)
    BY <1>6 DEF Hole
  <2>2. \E h \in 1 .. (b - b + 1 - 1) : TRUE
    BY <1>2, <1>8, <2>1 DEF KidOK
  <2> QED BY <1>7, <2>2
<1>10. ~Named(b + 1)
  <2> SUFFICES ASSUME Named(b + 1) PROVE FALSE
    OBVIOUS
  <2>1. PICK t : t = b + 1
    OBVIOUS
  <2>2. rn[t].rtype = "ATTRIBUTES" /\ rn[t].gen = 0 /\ Named(t) /\ t \in Slots
    <3>1. t - rn[d].children + 1 = 2
      BY <1>2, <1>7, <2>1
    <3> QED BY <1>3, <1>4, <1>6, <1>8, <2>1, <3>1 DEF KidOK
  <2>3. CASE t \in Dirs
    BY <2>2, <2>3, DirIs
  <2>4. CASE t \notin Dirs
    BY <2>2, <2>4 DEF Built, ShapeInv, NodeOnce, AttrTypes, AttrSubtypes
  <2> QED BY <2>3, <2>4
<1>11. Cardinality(Listed(d)) = 1
  <2>1. 1 \in 0 .. NKids(d) /\ \A j \in 1 .. 1 : j = 1 /\ b + j - 1 = b
    BY <1>2, <1>4
  <2>2. \A j \in 1 .. 1 : Named(rn[d].children + j - 1)
    BY <1>2, <1>9, <2>1
  <2>3. ~Named(rn[d].children + 1)
    BY <1>2, <1>10
  <2> QED BY <1>1, <2>1, <2>2, <2>3, ListIs
<1>12. rn[b].nm = "jobsteps" /\ rn[b].rtype = "JOBSTEPS" /\ b # NULL
  <2>1. b - rn[d].children + 1 = 1
    BY <1>2, <1>7
  <2> QED BY <1>3, <1>4, <1>8, <1>9, <2>1 DEF KidOK, Slots
<1>13. PlaceOf(b) = View!Bare("empty")
  BY <1>12, PlaceIs DEF SeenBare
<1>14. PICK es : es = View!Entries(PlaceOf(d)) /\ es = <<View!Entry("jobsteps", View!Bare("empty"))>>
  BY <1>1, EntriesAre, PlaceIs
<1>15. Len(es) = 1 /\ DOMAIN es = 1 .. 1 /\ es[1] = View!Entry("jobsteps", View!Bare("empty"))
  BY <1>14
<1>16. Nth(d, 1) = b
  BY <1>2 DEF Nth
<1>17. \A j \in 1 .. 1 : j = 1
  OBVIOUS
<1> QED BY <1>2, <1>4, <1>11, <1>12, <1>13, <1>14, <1>15, <1>16, <1>17 DEF ShownBy

\* A directory without a block shows nothing.
LEMMA BareShown ==
  ASSUME NEW s \in Slots, s \notin Dirs, s # NULL, rn[s].rtype \in SeenBare
  PROVE  ShownBy(s, View!Entries(PlaceOf(s)))
<1>1. Listed(s) = {}
  BY DEF Dirs, Listed, Kids
<1>2. Cardinality(Listed(s)) = 0
  BY <1>1, FS_EmptySet
<1>3. PICK es : es = View!Entries(PlaceOf(s)) /\ es = <<>>
  BY EntriesAre, PlaceIs
<1> QED BY <1>2, <1>3 DEF ShownBy

\* What a directory that can be seen lists is what its place shows.
LEMMA EntriesShown ==
  ASSUME Built, NEW s, Seen(s), rn[s].isdir = TRUE
  PROVE  ShownBy(s, View!Entries(PlaceOf(s)))
<1>1. CASE rn[s].rtype \in SeenDirs /\ s \in Dirs
  <2>1. CASE rn[s].rtype \in {"CLUSTER", "PARTNAME", "NODENAME"}
    BY <1>1, <2>1, FixedShown
  <2>2. CASE rn[s].rtype \in {"PARTS", "NODES"}
    BY <1>1, <2>2, ListsShown
  <2>3. CASE rn[s].rtype = "JOBS"
    BY <1>1, <2>3, JobsShown
  <2>4. CASE rn[s].rtype = "JOBID"
    BY <1>1, <2>4, JobDirShown
  <2>5. CASE rn[s].rtype = "ATTRIBUTES"
    BY <1>1, <2>5, AttrsShown
  <2> QED BY <1>1, <2>1, <2>2, <2>3, <2>4, <2>5 DEF SeenDirs
<1>2. CASE ~(rn[s].rtype \in SeenDirs /\ s \in Dirs)
  <2>1. rn[s].rtype \in SeenBare /\ s \in Slots /\ s \notin Dirs /\ s # NULL
    BY <1>2, SeenIs
  <2> QED BY <2>1, BareShown
<1> QED BY <1>1, <1>2

\* The kind of a place, and what of it a node says.
LEMMA KindIs ==
  ASSUME Built, NEW s, Seen(s)
  PROVE  /\ PlaceOf(s).kind # "nowhere"
         /\ rn[s].isdir = TRUE <=> View!IsDirectory(PlaceOf(s))
         /\ rn[s].isdir = FALSE <=> PlaceOf(s).kind = "file"
         /\ rn[s].rtype = "JOBID" <=> PlaceOf(s).kind = "job"
         /\ rn[s].gen = 2 <=> PlaceOf(s).kind # "empty"
<1>1. s # NULL /\ rn[s].isdir \in BOOLEAN
  BY SeenIs
<1>2. \A kind, of, rec : View!Place(kind, of, rec).kind = kind
  BY DEF View!Place
<1>3. View!Root.kind = "cluster" /\ \A kind : View!Bare(kind).kind = kind
  BY DEF View!Root, View!Bare, View!Place
<1>4. PICK pl : pl = PlaceOf(s)
  OBVIOUS
<1>5. CASE rn[s].rtype \in SeenDirs /\ s \in Dirs /\ rn[s].isdir = TRUE /\ rn[s].gen = 2
  <2>1. /\ pl.kind \in {"cluster", "partitions", "partition", "nodes", "node", "jobs", "job", "attributes"}
        /\ pl.kind = "job" <=> rn[s].rtype = "JOBID"
    <3>1. /\ rn[s].rtype = "CLUSTER" => pl.kind = "cluster"
          /\ rn[s].rtype = "PARTS" => pl.kind = "partitions"
          /\ rn[s].rtype = "NODES" => pl.kind = "nodes"
          /\ rn[s].rtype = "JOBS" => pl.kind = "jobs"
          /\ rn[s].rtype = "JOBID" => pl.kind = "job"
      BY <1>1, <1>3, <1>4, PlaceIs
    <3>2. rn[s].rtype = "PARTNAME" => pl.kind = "partition"
      <4>1. rn[s].rtype = "PARTNAME" => pl = View!Place("partition", "PARTNAME", rn[s].dyn)
        BY <1>1, <1>4, PlaceIs
      <4> QED BY <4>1, View!Place("partition", "PARTNAME", rn[s].dyn).kind = "partition" DEF View!Place
    <3>3. rn[s].rtype = "NODENAME" => pl.kind = "node"
      <4>1. rn[s].rtype = "NODENAME" => pl = View!Place("node", "NODENAME", rn[s].dyn)
        BY <1>1, <1>4, PlaceIs
      <4> QED BY <4>1, View!Place("node", "NODENAME", rn[s].dyn).kind = "node" DEF View!Place
    <3>4. rn[s].rtype = "ATTRIBUTES" => pl.kind = "attributes"
      <4>1. rn[s].rtype = "ATTRIBUTES" => pl = View!Place("attributes", rn[rn[s].parent].rtype, rn[s].dyn)
        BY <1>1, <1>4, PlaceIs
      <4> QED BY <4>1, View!Place("attributes", rn[rn[s].parent].rtype, rn[s].dyn).kind = "attributes" DEF View!Place
    <3> QED BY <1>5, <3>1, <3>2, <3>3, <3>4 DEF SeenDirs
  <2>2. View!IsDirectory(pl)
    BY <2>1 DEF View!IsDirectory
  <2> QED BY <1>4, <1>5, <2>1, <2>2
<1>6. CASE rn[s].rtype \in SeenBare /\ rn[s].isdir = TRUE /\ rn[s].gen = 1
  <2>1. pl.kind = "empty" /\ rn[s].rtype # "JOBID"
    BY <1>1, <1>3, <1>4, <1>6, PlaceIs DEF SeenBare
  <2>2. View!IsDirectory(pl)
    BY <2>1 DEF View!IsDirectory
  <2> QED BY <1>4, <1>6, <2>1, <2>2
<1>7. CASE rn[s].rtype \in AttrTypes /\ rn[s].isdir = FALSE /\ rn[s].gen = 2
  <2>1. rn[s].rtype \notin SeenDirs \cup SeenBare /\ rn[s].rtype # "JOBID"
    BY <1>7 DEF AttrTypes, AttrSubtypes, SeenDirs, SeenBare
  <2>2. pl.kind = "file"
    <3>1. PlaceOf(s) = View!Place("file", [nm |-> rn[s].nm, typ |-> rn[s].typ,
                                                size |-> SizeOf(rn[s].typ)], rn[s].dyn)
      BY <1>1, <2>1, PlaceIs
    <3> QED BY <1>2, <1>4, <3>1
  <2>3. ~View!IsDirectory(pl)
    BY <2>2 DEF View!IsDirectory
  <2> QED BY <1>4, <1>7, <2>1, <2>2, <2>3
<1> QED BY <1>5, <1>6, <1>7, SeenIs

\* The links that a node says are those of its place.
LEMMA LinksAre ==
  ASSUME Built, NEW s, Seen(s)
  PROVE  View!Links(PlaceOf(s)) = IF rn[s].isdir THEN 2 + rn[s].n ELSE 1
<1>1. PICK pl : pl = PlaceOf(s)
  OBVIOUS
<1>2. CASE rn[s].isdir = FALSE
  <2>1. pl.kind = "file"
    BY <1>1, <1>2, KindIs
  <2> QED BY <1>1, <1>2, <2>1 DEF View!Links
<1>3. CASE rn[s].isdir = TRUE
  <2>1. ShownBy(s, View!Entries(pl)) /\ pl.kind # "file"
    BY <1>1, <1>3, EntriesShown, KindIs
  <2>2. PICK es : es = View!Entries(pl) /\ Len(es) = Cardinality(Listed(s))
    BY <2>1 DEF ShownBy
  <2>3. s # NULL /\ rn[s].n \in Nat
    BY SeenIs
  <2>4. CASE rn[s].rtype = "JOBS"
    <3>1. s \in Dirs
      BY <1>3, <2>4, SeenIs DEF SeenBare, AttrTypes, AttrSubtypes
    <3>2. rn[s].n = Len(in.job.recs)
      BY <2>4, <3>1, DirIs, ListsAre
    <3>3. pl.kind = "jobs"
      BY <1>1, <2>3, <2>4, PlaceIs DEF View!Bare, View!Place
    <3> QED BY <1>1, <1>3, <3>2, <3>3 DEF View!Links
  <2>5. CASE rn[s].rtype = "JOBID"
    <3>1. s \in Dirs
      BY <1>3, <2>5, SeenIs DEF SeenBare, AttrTypes, AttrSubtypes
    <3>2. rn[s].n = 3
      BY <2>5, <3>1, DirIs, JobDirShown
    <3>3. pl.kind = "job"
      BY <1>1, <2>5, KindIs
    <3> QED BY <1>1, <1>3, <3>2, <3>3 DEF View!Links
  <2>6. CASE rn[s].rtype \notin {"JOBS", "JOBID"}
    <3>1. Cardinality(Listed(s)) = rn[s].n
      <4>1. CASE s \in Dirs
        <5>1. rn[s].rtype \in SeenDirs
          BY <4>1, SeenIs
        <5> QED BY <2>6, <4>1, <5>1, FullShown, DirIs DEF SeenDirs
      <4>2. CASE s \notin Dirs
        <5>1. rn[s].n = 0 /\ s \in Slots
          BY <1>3, <4>2, SeenIs
        <5>2. Listed(s) = {}
          BY <4>2, <5>1 DEF Dirs, Listed, Kids
        <5> QED BY <5>1, <5>2, FS_EmptySet
      <4> QED BY <4>1, <4>2
    <3>2. pl.kind \notin {"jobs", "job", "file"}
      <4>1. pl.kind # "job"
        BY <1>1, <2>6, KindIs
      <4>2. pl.kind # "jobs"
        BY <1>1, <2>3, <2>6 DEF PlaceOf, View!Bare, View!Place, View!Root
      <4> QED BY <2>1, <4>1, <4>2
    <3>3. View!Links(pl) = 2 + Len(es)
      BY <2>2, <3>2 DEF View!Links
    <3> QED BY <1>1, <1>3, <2>2, <3>1, <3>3
  <2> QED BY <2>4, <2>5, <2>6
<1>4. rn[s].isdir \in BOOLEAN
  BY SeenIs
<1> QED BY <1>2, <1>3, <1>4

-----------------------------------------------------------------------------
(* Paths *)

\* What a directory has below a name is where a look-up goes on.
LEMMA BelowIs ==
  ASSUME Built, NEW s, s # NULL => Seen(s) /\ rn[s].isdir = TRUE, NEW nm
  PROVE  View!Below(PlaceOf(s), nm) = PlaceOf(Look(s, nm, FALSE))
<1>1. PlaceOf(NULL) = View!Nowhere
  BY DEF PlaceOf
<1>2. CASE s = NULL
  <2>1. Look(s, nm, FALSE) = NULL
    BY <1>2 DEF Look
  <2>2. View!Entries(View!Nowhere) = <<>>
    BY EntriesAre
  <2>3. View!Below(View!Nowhere, nm) = View!Nowhere
    BY <2>2 DEF View!Below
  <2> QED BY <1>1, <1>2, <2>1, <2>3
<1>3. CASE s # NULL
  <2>1. PICK pl, es : pl = PlaceOf(s) /\ es = View!Entries(pl)
    OBVIOUS
  <2>2. ShownBy(s, es)
    BY <1>3, <2>1, EntriesShown
  <2>3. s \in Slots /\ IInv /\ Mounted
    BY <1>3, SeenIs DEF Built, Mounted
  <2>4. PICK m \in Nat : /\ Cardinality(Listed(s)) = m
                         /\ rn[s].children = NULL => m = 0 /\ Listed(s) = {}
                         /\ rn[s].children # NULL =>
                               /\ rn[s].children \in Nat
                               /\ Listed(s) = rn[s].children .. (rn[s].children + m - 1)
    BY <2>3, ListedIs
  <2>5. DOMAIN es = 1 .. m
        /\ \A j \in 1 .. m : es[j] = View!Entry(rn[Nth(s, j)].nm, PlaceOf(Nth(s, j)))
    BY <2>2, <2>4 DEF ShownBy
  <2>6. \A j \in 1 .. m : Nth(s, j) \in Listed(s)
    BY <2>4 DEF Nth
  <2>7. \A t \in Listed(s) : \E j \in 1 .. m : t = Nth(s, j)
    <3> SUFFICES ASSUME NEW t \in Listed(s) PROVE \E j \in 1 .. m : t = Nth(s, j)
      OBVIOUS
    <3>1. PICK b \in Nat : b = rn[s].children /\ t \in b .. (b + m - 1)
      BY <2>4
    <3>2. t - b + 1 \in 1 .. m /\ t = b + (t - b + 1) - 1
      BY <3>1
    <3> QED BY <3>1, <3>2 DEF Nth
  <2>8. \A j \in 1 .. m : es[j].nm = rn[Nth(s, j)].nm /\ es[j].place = PlaceOf(Nth(s, j))
    BY <2>5 DEF View!Entry
  <2> DEFINE hits == {j \in DOMAIN es : es[j].nm = nm}
  <2>9. View!Below(pl, nm) = IF hits = {} THEN View!Nowhere ELSE es[CHOOSE j \in hits : TRUE].place
    BY <2>1 DEF View!Below
  <2>10. PICK t : t = Look(s, nm, FALSE)
    OBVIOUS
  <2>11. \/ t = NULL /\ \A u \in Listed(s) : rn[u].nm # nm
         \/ t \in Listed(s) /\ rn[t].nm = nm
    <3>1. PICK last \in BOOLEAN : last = FALSE
      OBVIOUS
    <3>2. \/ t = s /\ (s = NULL \/ ~rn[s].isdir \/ (last /\ rn[s].nm = nm))
          \/ t = NULL /\ \A u \in Listed(s) : rn[u].nm # nm
          \/ t \in Listed(s) /\ s # NULL /\ rn[t].nm = nm
      BY <1>3, <2>3, <2>10, <3>1, LookIs
    <3> QED BY <1>3, <3>1, <3>2
  <2>12. \A j \in DOMAIN es : j \in hits <=> rn[Nth(s, j)].nm = nm
    BY <2>5, <2>8
  <2> HIDE DEF hits
  <2>13. CASE t = NULL /\ \A u \in Listed(s) : rn[u].nm # nm
    <3>1. hits = {}
      BY <2>5, <2>6, <2>12, <2>13 DEF hits
    <3> QED BY <1>1, <2>1, <2>9, <2>10, <2>13, <3>1
  <2>14. CASE t \in Listed(s) /\ rn[t].nm = nm
    <3>1. PICK i \in 1 .. m : t = Nth(s, i)
      BY <2>7, <2>14
    <3>2. i \in hits
      BY <2>5, <2>12, <2>14, <3>1
    <3>3. PICK k : k = CHOOSE j \in hits : TRUE
      OBVIOUS
    <3>4. k \in hits
      BY <3>2, <3>3
    <3>5. k \in 1 .. m /\ rn[Nth(s, k)].nm = nm
      BY <2>5, <2>12, <3>4 DEF hits
    <3>6. Nth(s, k) = t
      <4>1. s \in Dirs /\ rn[s].rtype # "ROOT"
        <5>1. s \in Dirs
          BY <2>3, <2>4, <2>14 DEF Dirs
        <5>2. rn[s].rtype # "ROOT"
          BY <1>3, SeenFacts DEF Built
        <5> QED BY <5>1, <5>2
      <4>2. \A u, v \in Listed(s) : rn[u].nm = rn[v].nm => u = v
        BY <4>1 DEF Built, Mounted, TreeInv, ListedDistinct
      <4> QED BY <2>6, <2>14, <3>5, <4>2
    <3>7. es[k].place = PlaceOf(t)
      BY <2>8, <3>5, <3>6
    <3> QED BY <2>1, <2>9, <2>10, <3>2, <3>3, <3>7
  <2> QED BY <2>11, <2>13, <2>14
<1> QED BY <1>2, <1>3

\* An attribute directory that can be seen has its name, which no attribute has.
LEMMA AttrsName ==
  ASSUME Built, NEW d \in Dirs, Seen(d), rn[d].rtype = "ATTRIBUTES"
  PROVE  /\ rn[d].nm = "attributes"
         /\ \A t \in Listed(d) : rn[t].nm # "attributes"
<1>1. PICK up : up = rn[d].parent
  OBVIOUS
<1>2. d # p_fsroot
  BY DEF Built, Mounted, MountInv, FsRootIs
<1>3. rn[up].rtype \in {"CLUSTER", "PARTNAME", "NODENAME"} /\ up \in Dirs /\ d \in Kids(up) /\ Named(d)
  BY <1>1, <1>2, AttrsOf, SeenUp
<1>4. /\ rn[up].rtype \in SeenDirs /\ rn[up].rtype # "ROOT" /\ rn[up].rtype \in BuiltTypes
  BY <1>3 DEF SeenDirs, BuiltTypes
<1>5. PICK b \in Nat, n \in Nat : b = rn[up].children /\ n = NKids(up) /\ Kids(up) = b .. (b + n - 1)
  BY <1>3, <1>4, DirIs
<1>6. PICK j \in 1 .. n : d = b + j - 1
  <2>1. d \in Nat /\ d - b + 1 \in 1 .. n /\ d = b + (d - b + 1) - 1
    BY <1>3, <1>5
  <2> QED BY <2>1
<1>7. PICK list : list = Children(up) /\ n = Len(list)
  BY <1>5 DEF NKids
<1>8. rn[d].nm = list[j].nm /\ rn[d].rtype = list[j].rtype
  <2>1. j \in 1 .. NKids(up) /\ d = rn[up].children + j - 1
    BY <1>5, <1>6
  <2> QED BY <1>3, <1>4, <1>7, <2>1, KidIs
<1>9. list[j].rtype = "ATTRIBUTES" => list[j].nm = "attributes"
  <2>1. CASE rn[up].rtype = "CLUSTER"
    <3>1. list = ClusterChildren
      BY <1>4, <1>7, <2>1, ChildrenIs
    <3>2. /\ n = 3 /\ list[1].nm = "attributes" /\ list[2].rtype = "PARTS" /\ list[3].rtype = "JOBS"
      BY <1>7, <3>1 DEF ClusterChildren, Dir, Child
    <3>3. j = 1 \/ j = 2 \/ j = 3
      BY <3>2
    <3> QED BY <3>2, <3>3
  <2>2. CASE rn[up].rtype = "PARTNAME"
    <3>1. list = PartChildren(up)
      BY <1>4, <1>7, <2>2, ChildrenIs
    <3>2. /\ n = 2 /\ list[1].rtype = "NODES" /\ list[2].nm = "attributes"
      BY <1>7, <3>1 DEF PartChildren, Dir, Child
    <3>3. j = 1 \/ j = 2
      BY <3>2
    <3> QED BY <3>2, <3>3
  <2>3. CASE rn[up].rtype = "NODENAME"
    <3>1. list = NodeChildren(up)
      BY <1>4, <1>7, <2>3, ChildrenIs
    <3>2. /\ n = 1 /\ list[1].nm = "attributes"
      BY <1>7, <3>1 DEF NodeChildren, Dir, Child
    <3>3. j = 1
      BY <3>2
    <3> QED BY <3>2, <3>3
  <2> QED BY <1>3, <2>1, <2>2, <2>3
<1>10. ASSUME NEW t \in Listed(d) PROVE rn[t].nm # "attributes"
  <2>1. rn[d].rtype \in SeenDirs \ {"JOBS", "JOBID"} /\ rn[d].rtype # "ROOT" /\ rn[d].rtype \in BuiltTypes
    BY DEF SeenDirs, BuiltTypes, AttrTypes
  <2>2. PICK a \in Nat, m \in Nat : a = rn[d].children /\ m = NKids(d) /\ Kids(d) = a .. (a + m - 1)
    BY <2>1, DirIs
  <2>3. PICK i \in 1 .. m : t = a + i - 1
    <3>1. t \in a .. (a + m - 1)
      BY <1>10, <2>2 DEF Listed
    <3>2. t - a + 1 \in 1 .. m /\ t = a + (t - a + 1) - 1
      BY <3>1
    <3> QED BY <3>2
  <2>4. PICK of \in {"CLUSTER", "PARTNAME", "NODENAME"} : of = rn[up].rtype
    BY <1>3
  <2>5. PICK kids : kids = Children(d) /\ kids = AttrChildren(d)
    BY <2>1, ChildrenIs
  <2>6. kids = [k \in DOMAIN AttrTab[of] |-> Child(p2r_typ_convtab(AttrTab[of][k].typ), AttrTab[of][k].nm,
                                              AttrTab[of][k].typ, rn[d].dyn, "ASSERT")]
    BY <1>1, <2>4, <2>5 DEF AttrChildren
  <2>7. i \in DOMAIN AttrTab[of]
    <3>1. Listable(d)
      BY <2>1, DirIs
    <3>2. DOMAIN kids = 1 .. m
      BY <2>2, <2>5, <3>1, ChildrenFor DEF ListFor, NKids
    <3> QED BY <2>6, <3>2
  <2>8. kids[i].nm = AttrTab[of][i].nm
    BY <2>6, <2>7 DEF Child
  <2>9. rn[t].nm = kids[i].nm
    <3>1. t = Nth(d, i) /\ i \in 1 .. NKids(d)
      BY <2>2, <2>3 DEF Nth
    <3>2. rn[Nth(d, i)].nm = Children(d)[i].nm
      BY <2>1, <3>1, FullShown
    <3> QED BY <2>5, <3>1, <3>2
  <2>10. AttrTab[of][i].nm # "attributes"
    BY <2>4, <2>7 DEF AttrTab
  <2> QED BY <2>8, <2>9, <2>10
<1> QED BY <1>8, <1>9, <1>10

\* Where a look-up for a last name finds a directory, the look-up for a name on
\* the way gets to a directory or nowhere.
LEMMA LookTwice ==
  ASSUME Built, NEW s, s # NULL => Seen(s), NEW nm,
         NEW t, t = Look(s, nm, TRUE), t # NULL, rn[t].isdir = TRUE,
         NEW u, u = Look(s, nm, FALSE), u # NULL
  PROVE  Seen(u) /\ rn[u].isdir = TRUE
<1>1. s # NULL /\ rn[s].isdir = TRUE
  <2>1. s # NULL
    BY DEF Look
  <2>2. rn[s].isdir \in BOOLEAN
    BY <2>1, SeenIs
  <2> QED BY <2>1, <2>2 DEF Look
<1>2. u \in Listed(s) /\ rn[u].nm = nm
  <2>1. PICK last \in BOOLEAN : last = FALSE
    OBVIOUS
  <2>2. \/ u = s /\ (s = NULL \/ ~rn[s].isdir \/ (last /\ rn[s].nm = nm))
        \/ u = NULL /\ \A v \in Listed(s) : rn[v].nm # nm
        \/ u \in Listed(s) /\ s # NULL /\ rn[u].nm = nm
    BY <1>1, <2>1, LookIs DEF Built
  <2> QED BY <1>1, <2>1, <2>2
<1>3. Seen(u) /\ rn[u].parent = s
  BY <1>1, <1>2, SeenBelow DEF Built
<1>4. CASE rn[s].nm # nm
  <2>1. Look(s, nm, TRUE) = Look(s, nm, FALSE)
    BY <1>4, LookAnyway
  <2> QED BY <1>3, <2>1
<1>5. CASE rn[s].nm = nm
  <2> SUFFICES ASSUME rn[u].isdir # TRUE PROVE FALSE
    BY <1>3
  <2>1. rn[s].rtype = "ATTRIBUTES"
    BY <1>3, SeenIs
  <2>2. s \in Dirs
    BY <1>1, <2>1, SeenIs DEF SeenBare, AttrTypes, AttrSubtypes
  <2> QED BY <1>1, <1>2, <1>5, <2>1, <2>2, AttrsName
<1> QED BY <1>4, <1>5

\* The first m places on a path.
PlaceWalk(path, m, f) ==
    f = [k \in 0 .. m |-> IF k = 0 THEN View!Root ELSE View!Below(f[k - 1], path[k])]

\* There are places on every path.
LEMMA PlaceWalkExists ==
  ASSUME NEW path, NEW m \in Nat
  PROVE  \E f : PlaceWalk(path, m, f)
<1> DEFINE Bad == {k \in Nat : ~\E f : PlaceWalk(path, k, f)}
<1> SUFFICES ASSUME Bad # {} PROVE FALSE
  OBVIOUS
<1>1. PICK b \in Bad : \A j \in Bad : b <= j
  <2>1. Bad \in SUBSET Nat
    OBVIOUS
  <2> HIDE DEF Bad
  <2> QED BY <2>1, Least
<1>2. b \in Nat /\ ~\E f : PlaceWalk(path, b, f)
  OBVIOUS
<1>3. CASE b = 0
  <2> DEFINE f == [k \in 0 .. 0 |-> View!Root]
  <2>1. PlaceWalk(path, 0, f)
    BY DEF PlaceWalk
  <2> QED BY <1>2, <1>3, <2>1
<1>4. CASE b # 0
  <2>1. b - 1 \in Nat /\ b - 1 \notin Bad
    BY <1>1, <1>2, <1>4
  <2>2. PICK f : PlaceWalk(path, b - 1, f)
    BY <2>1
  <2> DEFINE g == [k \in 0 .. b |-> IF k = b THEN View!Below(f[b - 1], path[b]) ELSE f[k]]
  <2>3. \A k \in 0 .. (b - 1) : /\ k \in 0 .. b /\ k # b
                                /\ f[k] = IF k = 0 THEN View!Root ELSE View!Below(f[k - 1], path[k])
    BY <1>2, <2>1, <2>2 DEF PlaceWalk
  <2>4. ASSUME NEW k \in 0 .. b
        PROVE  g[k] = IF k = 0 THEN View!Root ELSE View!Below(g[k - 1], path[k])
    <3>1. CASE k = b
      <4>1. b - 1 \in 0 .. b /\ b - 1 # b
        BY <1>2, <2>1
      <4>2. g[b - 1] = f[b - 1]
        BY <4>1
      <4>3. g[k] = View!Below(f[b - 1], path[b])
        BY <3>1
      <4> HIDE DEF g
      <4> QED BY <1>4, <3>1, <4>2, <4>3
    <3>2. CASE k # b
      <4>1. k \in 0 .. (b - 1)
        BY <1>2, <3>2
      <4>2. k # 0 => k - 1 \in 0 .. (b - 1)
        BY <1>2, <4>1
      <4>3. g[k] = f[k]
        BY <3>2
      <4>4. k # 0 => g[k - 1] = f[k - 1]
        BY <2>3, <4>2
      <4> HIDE DEF g
      <4> QED BY <2>3, <4>1, <4>3, <4>4
    <3> QED BY <3>1, <3>2
  <2>5. g = [k \in 0 .. b |-> g[k]]
    OBVIOUS
  <2>6. PlaceWalk(path, b, g)
    <3> HIDE DEF g
    <3>1. [k \in 0 .. b |-> g[k]]
          = [k \in 0 .. b |-> IF k = 0 THEN View!Root ELSE View!Below(g[k - 1], path[k])]
      BY <2>4
    <3> QED BY <2>5, <3>1, Zenon DEF PlaceWalk
  <2> QED BY <1>2, <2>6
<1> QED BY <1>3, <1>4

\* The places that f gives are those on the path.
IsPlaceWalk(path, f) ==
    LET n == Len(path)
    IN /\ f[0] = View!Root
       /\ \A k \in 1 .. n : f[k] = View!Below(f[k - 1], path[k])
       /\ View!Walk(path) = IF n > 0 /\ path[n] = (<<in.cname>> \o path)[n] THEN f[n - 1] ELSE f[n]

\* The place that a path shows is on it.
LEMMA PlaceWalkOf ==
  ASSUME NEW path, Len(path) \in Nat
  PROVE  \E f : IsPlaceWalk(path, f)
<1> DEFINE w == CHOOSE f : f = [k \in 0 .. Len(path) |-> IF k = 0 THEN View!Root
                                 ELSE View!Below(f[k - 1], path[k])]
<1>1. \E f : f = [k \in 0 .. Len(path) |-> IF k = 0 THEN View!Root
                                 ELSE View!Below(f[k - 1], path[k])]
  BY PlaceWalkExists DEF PlaceWalk
<1>2. w = [k \in 0 .. Len(path) |-> IF k = 0 THEN View!Root
                                 ELSE View!Below(w[k - 1], path[k])]
  BY <1>1, Zenon
<1>3. View!Walk(path) = IF Len(path) > 0 /\ path[Len(path)] = (<<in.cname>> \o path)[Len(path)]
                        THEN w[Len(path) - 1] ELSE w[Len(path)]
  BY Zenon DEF View!Walk
<1> HIDE DEF w
<1>4. w[0] = View!Root
  BY <1>2
<1>5. \A k \in 1 .. Len(path) : w[k] = View!Below(w[k - 1], path[k])
  BY <1>2
<1> QED BY <1>3, <1>4, <1>5 DEF IsPlaceWalk

\* The first m names of a path are q.
Front(path, m, q) == Len(q) = m /\ \A k \in 1 .. m : q[k] = path[k]

\* The walks along a path and along the front of it are the same until the last name.
LEMMA FrontWalk ==
  ASSUME NEW path, NEW n \in Nat, n = Len(path), NEW m \in 1 .. n, NEW q, Front(path, m, q),
         NEW g, IsWalk(path, g), NEW h, IsWalk(q, h)
  PROVE  h[m - 1] = g[m - 1]
<1> SUFFICES \A k \in 0 .. (m - 1) : h[k] = g[k]
  <2>1. m - 1 \in 0 .. (m - 1)
    OBVIOUS
  <2> QED BY <2>1
<1>10. Len(q) = m /\ \A k \in 1 .. m : q[k] = path[k]
  BY DEF Front
<1> DEFINE Bad == {k \in 0 .. (m - 1) : h[k] # g[k]}
<1> SUFFICES ASSUME Bad # {} PROVE FALSE
  OBVIOUS
<1>1. PICK b \in Bad : \A j \in Bad : b <= j
  <2>1. Bad \in SUBSET Nat
    OBVIOUS
  <2> HIDE DEF Bad
  <2> QED BY <2>1, Least
<1>2. b \in 0 .. (m - 1) /\ h[b] # g[b]
  OBVIOUS
<1>3. h[0] = p_fsroot /\ g[0] = p_fsroot
  BY DEF IsWalk
<1>4. b \in 1 .. m /\ b \in 1 .. n /\ b # m /\ b # n /\ b - 1 \in 0 .. (m - 1) /\ ~(b <= b - 1)
  BY <1>2, <1>3
<1>5. h[b - 1] = g[b - 1]
  BY <1>1, <1>4
<1> HIDE DEF Bad
<1>6. (b = Len(q)) = FALSE /\ (b = Len(path)) = FALSE
  BY <1>4, <1>10
<1>7. h[b] = Look(h[b - 1], q[b], FALSE)
  BY <1>4, <1>6, <1>10, Zenon DEF IsWalk
<1>8. g[b] = Look(g[b - 1], path[b], FALSE)
  BY <1>4, <1>6, Zenon DEF IsWalk
<1> QED BY <1>2, <1>4, <1>5, <1>7, <1>8, <1>10

\* The directories on a path are there.
OnPath(path) == \A k \in 0 .. (Len(path) - 1) : IsDirAt(SubSeq(path, 1, k))

\* A walk that the kernel has prepared is in directories, or nowhere, until its end.
LEMMA DirsOnWay ==
  ASSUME Built, NEW path \in Seq(STRING), OnPath(path), NEW g, IsWalk(path, g),
         NEW m \in 0 .. (Len(path) - 1), g[m] # NULL
  PROVE  Seen(g[m]) /\ rn[g[m]].isdir = TRUE
<1>1. PICK n \in Nat : n = Len(path)
  BY LenProperties
<1>2. m \in 0 .. n /\ m < n
  BY <1>1
<1>3. Seen(g[m])
  BY <1>1, <1>2, WalkSees DEF Built
<1>4. CASE m = 0
  <2>1. g[m] = p_fsroot /\ rn[p_fsroot].rtype = "CLUSTER"
    BY <1>4 DEF IsWalk, Built, Mounted, MountInv, FsRootIs
  <2> QED BY <1>3, <2>1, SeenIs DEF AttrTypes, AttrSubtypes
<1>5. CASE m # 0
  <2>1. PICK q : q = SubSeq(path, 1, m) /\ q \in Seq(STRING) /\ Len(q) = m
                 /\ \A k \in 1 .. m : q[k] = path[k]
    <3>1. m \in Nat /\ 1 <= m /\ 1 \in 1 .. Len(path) + 1 /\ m \in (1 - 1) .. Len(path)
      BY <1>1, <1>2, <1>5
    <3>2. PICK q : q = SubSeq(path, 1, m)
      OBVIOUS
    <3>3. q \in Seq(STRING) /\ Len(q) = m - 1 + 1 /\ \A i \in 1 .. m - 1 + 1 : q[i] = path[1 + i - 1]
      BY <3>1, <3>2, SubSeqProperties
    <3>4. m - 1 + 1 = m /\ \A k \in 1 .. m : 1 + k - 1 = k
      BY <3>1
    <3> QED BY <3>2, <3>3, <3>4
  <2>2. PICK h : IsWalk(q, h)
    <3>1. Len(q) \in Nat
      BY <1>2, <2>1
    <3> QED BY <3>1, WalkOf
  <2>3. m \in 1 .. n /\ m - 1 \in 0 .. (m - 1) /\ m - 1 \in 0 .. n
    BY <1>2, <1>5
  <2>4. h[m - 1] = g[m - 1]
    <3>1. Front(path, m, q)
      BY <2>1 DEF Front
    <3>2. IsWalk(path, g)
      OBVIOUS
    <3> QED BY <1>1, <2>2, <2>3, <3>1, <3>2, FrontWalk
  <2>5. PICK s, nm : s = g[m - 1] /\ nm = path[m]
    OBVIOUS
  <2>6. g[m] = Look(s, nm, FALSE)
    <3>1. (m = Len(path)) = FALSE
      BY <1>1, <1>2
    <3> QED BY <1>1, <2>3, <2>5, <3>1, Zenon DEF IsWalk
  <2>7. namer(q) = Look(s, nm, TRUE)
    <3>1. (m = Len(q)) = TRUE /\ m \in 1 .. Len(q)
      BY <2>1, <2>3
    <3>2. namer(q) = h[m] /\ h[m] = Look(h[m - 1], q[m], m = Len(q))
      BY <2>1, <2>2, <3>1, Zenon DEF IsWalk
    <3>3. q[m] = nm
      BY <2>1, <2>3, <2>5
    <3> QED BY <2>4, <2>5, <3>1, <3>2, <3>3, Zenon
  <2>8. PICK t : t = namer(q) /\ t # NULL /\ rn[t].isdir
    BY <1>1, <1>2, <2>1 DEF OnPath, IsDirAt
  <2>9. rn[t].isdir = TRUE
    <3>1. Seen(t)
      <4>1. Len(q) \in Nat
        BY <1>2, <2>1
      <4> QED BY <2>8, <4>1, NamerSees DEF Built
    <3> QED BY <2>8, <3>1, SeenIs
  <2>10. s # NULL => Seen(s)
    BY <1>1, <2>3, <2>5, WalkSees DEF Built
  <2> QED BY <2>6, <2>7, <2>8, <2>9, <2>10, LookTwice
<1> QED BY <1>4, <1>5

\* What namer() finds on such a path is what the path shows.
LEMMA WalksAgree ==
  ASSUME Built, NEW path \in Seq(STRING), OnPath(path)
  PROVE  View!Walk(path) = PlaceOf(namer(path))
<1>1. PICK n \in Nat : n = Len(path)
  BY LenProperties
<1>2. PICK g : IsWalk(path, g)
  BY <1>1, WalkOf
<1>3. PICK f : IsPlaceWalk(path, f)
  BY <1>1, PlaceWalkOf
<1>4. f[0] = PlaceOf(g[0])
  <2>1. p_fsroot # NULL /\ rn[p_fsroot].rtype = "CLUSTER"
    BY DEF Built, Mounted, MountInv, FsRootIs, Dirs, Slots
  <2>2. g[0] = p_fsroot /\ f[0] = View!Root
    BY <1>2, <1>3 DEF IsWalk, IsPlaceWalk
  <2> QED BY <2>1, <2>2, PlaceIs
<1>5. ASSUME NEW m \in 0 .. (n - 1) PROVE g[m] # NULL => Seen(g[m]) /\ rn[g[m]].isdir = TRUE
  BY <1>1, <1>2, DirsOnWay
<1>6. ASSUME NEW k \in 1 .. n, f[k - 1] = PlaceOf(g[k - 1])
      PROVE  f[k] = PlaceOf(Look(g[k - 1], path[k], FALSE))
  <2>1. PICK s, nm : s = g[k - 1] /\ nm = path[k]
    OBVIOUS
  <2>2. s # NULL => Seen(s) /\ rn[s].isdir = TRUE
    <3>1. k - 1 \in 0 .. (n - 1)
      OBVIOUS
    <3> QED BY <1>5, <2>1, <3>1
  <2>3. f[k] = View!Below(PlaceOf(s), nm)
    BY <1>1, <1>3, <1>6, <2>1 DEF IsPlaceWalk
  <2> QED BY <2>1, <2>2, <2>3, BelowIs
<1>7. \A k \in 0 .. (n - 1) : f[k] = PlaceOf(g[k])
  <2> DEFINE Bad == {k \in 0 .. (n - 1) : f[k] # PlaceOf(g[k])}
  <2> SUFFICES ASSUME Bad # {} PROVE FALSE
    OBVIOUS
  <2>1. PICK b \in Bad : \A j \in Bad : b <= j
    <3>1. Bad \in SUBSET Nat
      OBVIOUS
    <3> HIDE DEF Bad
    <3> QED BY <3>1, Least
  <2>2. b \in 0 .. (n - 1) /\ f[b] # PlaceOf(g[b])
    OBVIOUS
  <2>3. b \in 1 .. n /\ b # n /\ b - 1 \in 0 .. (n - 1) /\ ~(b <= b - 1)
    BY <1>4, <2>2
  <2>4. f[b - 1] = PlaceOf(g[b - 1])
    BY <2>1, <2>3
  <2> HIDE DEF Bad
  <2>5. (b = Len(path)) = FALSE
    BY <1>1, <2>3
  <2>6. g[b] = Look(g[b - 1], path[b], FALSE)
    BY <1>1, <1>2, <2>3, <2>5, Zenon DEF IsWalk
  <2> QED BY <1>6, <2>2, <2>3, <2>4, <2>6
<1>8. CASE n = 0
  <2>1. namer(path) = g[0] /\ View!Walk(path) = f[0]
    BY <1>1, <1>2, <1>3, <1>8 DEF IsWalk, IsPlaceWalk
  <2> QED BY <1>4, <2>1
<1>9. CASE n # 0
  <2>1. n \in 1 .. n /\ n > 0 /\ n - 1 \in 0 .. (n - 1)
    BY <1>9
  <2>2. PICK s, nm, up : s = g[n - 1] /\ nm = path[n] /\ up = IF n = 1 THEN in.cname ELSE path[n - 1]
    OBVIOUS
  <2>3. f[n - 1] = PlaceOf(s) /\ f[n] = PlaceOf(Look(s, nm, FALSE))
    BY <1>6, <1>7, <2>1, <2>2
  <2>4. namer(path) = Look(s, nm, TRUE)
    <3>1. (n = Len(path)) = TRUE
      BY <1>1
    <3> QED BY <1>1, <1>2, <2>1, <2>2, <3>1, Zenon DEF IsWalk
  <2>5. View!Walk(path) = IF nm = up THEN f[n - 1] ELSE f[n]
    <3>1. (<<in.cname>> \o path)[n] = up
      BY <1>1, <2>1, <2>2, AddedName
    <3>2. View!Walk(path) = IF n > 0 /\ path[n] = (<<in.cname>> \o path)[n] THEN f[n - 1] ELSE f[n]
      BY <1>1, <1>3 DEF IsPlaceWalk
    <3> QED BY <2>1, <2>2, <3>1, <3>2
  <2>6. CASE s = NULL
    <3>1. Look(s, nm, TRUE) = NULL /\ Look(s, nm, FALSE) = NULL
      BY <2>6 DEF Look
    <3> QED BY <2>3, <2>4, <2>5, <2>6, <3>1
  <2>7. CASE s # NULL
    <3>1. rn[s].isdir = TRUE /\ rn[s].nm = up
      <4>1. rn[s].isdir = TRUE
        BY <1>5, <2>1, <2>2, <2>7
      <4>2. PICK m : m = n - 1
        OBVIOUS
      <4>3. m \in 0 .. Len(path) /\ g[m] # NULL /\ rn[g[m]].isdir /\ s = g[m]
        BY <1>1, <2>1, <2>2, <2>7, <4>1, <4>2
      <4>4. rn[s].nm = IF m = 0 THEN in.cname ELSE path[m]
        BY <1>1, <1>2, <4>3, WalkNames DEF Built
      <4> QED BY <2>1, <2>2, <4>1, <4>2, <4>4
    <3>2. CASE nm = up
      <4>1. Look(s, nm, TRUE) = s
        BY <3>1, <3>2 DEF Look
      <4> QED BY <2>3, <2>4, <2>5, <3>2, <4>1
    <3>3. CASE nm # up
      <4>1. Look(s, nm, TRUE) = Look(s, nm, FALSE)
        BY <3>1, <3>3, LookAnyway
      <4> QED BY <2>3, <2>4, <2>5, <3>3, <4>1
    <3> QED BY <3>2, <3>3
  <2> QED BY <2>6, <2>7
<1> QED BY <1>8, <1>9

-----------------------------------------------------------------------------
(* Requests and answers *)

\* The front of a path, and of that front.
LEMMA Fronts ==
  ASSUME NEW path \in Seq(STRING), NEW k \in 0 .. Len(path)
  PROVE  LET q == SubSeq(path, 1, k)
         IN /\ q \in Seq(STRING) /\ Len(q) = k
            /\ \A j \in 0 .. k : SubSeq(q, 1, j) = SubSeq(path, 1, j)
<1>1. PICK n \in Nat : n = Len(path)
  BY LenProperties
<1>2. ASSUME NEW s \in Seq(STRING), NEW j \in Nat, j <= Len(s)
      PROVE  /\ SubSeq(s, 1, j) \in Seq(STRING) /\ Len(SubSeq(s, 1, j)) = j
             /\ \A i \in 1 .. j : SubSeq(s, 1, j)[i] = s[i]
  <2>1. PICK t : t = SubSeq(s, 1, j)
    OBVIOUS
  <2>2. \A i \in 1 .. j : s[i] \in STRING
    <3>1. PICK l \in Nat : l = Len(s)
      BY LenProperties
    <3> QED BY <1>2, <3>1, ElementOfSeq
  <2>3. /\ t \in Seq(STRING) /\ Len(t) = IF 1 <= j THEN j - 1 + 1 ELSE 0
        /\ \A i \in 1 .. j - 1 + 1 : t[i] = s[1 + i - 1]
    BY <2>1, <2>2, SubSeqProperties
  <2>4. j - 1 + 1 = j /\ \A i \in 1 .. j : 1 + i - 1 = i
    OBVIOUS
  <2>5. Len(t) = j
    BY <2>3
  <2> QED BY <2>1, <2>3, <2>4, <2>5
<1>3. PICK q : q = SubSeq(path, 1, k)
  OBVIOUS
<1>4. q \in Seq(STRING) /\ Len(q) = k /\ \A i \in 1 .. k : q[i] = path[i]
  BY <1>1, <1>2, <1>3
<1>5. ASSUME NEW j \in 0 .. k PROVE SubSeq(q, 1, j) = SubSeq(path, 1, j)
  <2>1. PICK a, b : a = SubSeq(q, 1, j) /\ b = SubSeq(path, 1, j)
    OBVIOUS
  <2>2. j \in Nat /\ j <= Len(q) /\ j <= Len(path)
    BY <1>1, <1>4
  <2>3. /\ a \in Seq(STRING) /\ Len(a) = j /\ \A i \in 1 .. j : a[i] = q[i]
        /\ b \in Seq(STRING) /\ Len(b) = j /\ \A i \in 1 .. j : b[i] = path[i]
    BY <1>2, <1>4, <2>1, <2>2
  <2>4. \A i \in 1 .. j : a[i] = b[i]
    BY <1>4, <2>3
  <2>5. a = b
    BY <2>3, <2>4, SeqEqual
  <2> QED BY <2>1, <2>5
<1> QED BY <1>3, <1>4, <1>5

\* What the kernel has found is what the view lets it ask for.
LEMMA AllowedIs ==
  ASSUME Built, NEW r, IsRequest(r), Deliverable(r)
  PROVE  View!Allowed(r) /\ View!Walk(r.path) = PlaceOf(namer(r.path))
<1>1. PICK path \in Seq(STRING) : path = r.path
  BY DEF IsRequest
<1>2. PICK n \in Nat : n = Len(path)
  BY LenProperties
<1>3. OnPath(path)
  BY <1>1 DEF Deliverable, OnPath
<1>4. PICK s : s = namer(path)
  OBVIOUS
<1>5. View!Walk(path) = PlaceOf(s)
  BY <1>3, <1>4, WalksAgree
<1>6. ASSUME NEW k \in 0 .. (n - 1) PROVE View!IsDirectory(View!Walk(SubSeq(path, 1, k)))
  <2>1. k \in 0 .. Len(path)
    BY <1>2
  <2>2. PICK q : q = SubSeq(path, 1, k) /\ q \in Seq(STRING) /\ Len(q) = k
                 /\ \A j \in 0 .. k : SubSeq(q, 1, j) = SubSeq(path, 1, j)
    <3>1. PICK q : q = SubSeq(path, 1, k)
      OBVIOUS
    <3>2. q \in Seq(STRING) /\ Len(q) = k /\ \A j \in 0 .. k : SubSeq(q, 1, j) = SubSeq(path, 1, j)
      BY <2>1, <3>1, Fronts
    <3> QED BY <3>1, <3>2
  <2>3. OnPath(q)
    <3> SUFFICES ASSUME NEW j \in 0 .. (k - 1) PROVE IsDirAt(SubSeq(q, 1, j))
      BY <2>2 DEF OnPath
    <3>1. j \in 0 .. k /\ j \in 0 .. (Len(path) - 1)
      BY <1>2
    <3> QED BY <1>3, <2>2, <3>1 DEF OnPath
  <2>4. IsDirAt(q)
    BY <1>2, <1>3, <2>2 DEF OnPath
  <2>5. PICK t : t = namer(q) /\ t # NULL /\ rn[t].isdir
    BY <2>4 DEF IsDirAt
  <2>6. Seen(t)
    <3>1. Len(q) \in Nat
      BY <2>2
    <3> QED BY <2>5, <3>1, NamerSees DEF Built
  <2>7. View!Walk(q) = PlaceOf(t)
    BY <2>2, <2>3, <2>5, WalksAgree
  <2>8. View!IsDirectory(PlaceOf(t))
    <3>1. rn[t].isdir = TRUE
      BY <2>5, <2>6, SeenIs
    <3> QED BY <2>6, <3>1, KindIs
  <2> QED BY <2>2, <2>7, <2>8
<1>7. s # NULL => Seen(s) /\ rn[s].isdir \in BOOLEAN
  <2>1. s # NULL => Seen(s)
    BY <1>2, <1>4, NamerSees DEF Built
  <2> QED BY <2>1, SeenIs
<1>8. PICK pl : pl = PlaceOf(s)
  OBVIOUS
<1>9. r.op # "getattr" => pl.kind # "nowhere"
  BY <1>1, <1>4, <1>7, <1>8, KindIs DEF Deliverable
<1>10. r.op = "readdir" => View!IsDirectory(pl)
  BY <1>1, <1>4, <1>7, <1>8, KindIs DEF Deliverable
<1>11. r.op \in View!FileRequests => pl.kind = "file"
  <2>1. r.op \in View!FileRequests => s # NULL /\ ~rn[s].isdir
    BY <1>1, <1>4 DEF Deliverable, View!FileRequests
  <2> QED BY <1>7, <1>8, <2>1, KindIs
<1> QED BY <1>1, <1>2, <1>4, <1>5, <1>6, <1>8, <1>9, <1>10, <1>11 DEF View!Allowed

\* A request that is made of the tree: the node that it is made of, and its place.
LEMMA AskedOf ==
  ASSUME Built, NEW r, IsRequest(r), Deliverable(r), NEW s, s = namer(r.path)
  PROVE  /\ s # NULL => Seen(s) /\ rn[s].isdir \in BOOLEAN
         /\ r.op # "getattr" => s # NULL
         /\ r.op = "readdir" => rn[s].isdir
         /\ r.op \in {"open", "read", "write", "truncate", "poll"} => ~rn[s].isdir
<1>1. Len(r.path) \in Nat
  BY LenProperties DEF IsRequest
<1>2. s # NULL => Seen(s)
  BY <1>1, NamerSees DEF Built
<1>3. s # NULL => rn[s].isdir \in BOOLEAN
  BY <1>2, SeenIs
<1> QED BY <1>2, <1>3 DEF Deliverable

\* An answer as a user sees it.
Seeing(reply) == [err |-> reply.err, shows |-> reply.shows]

\* What getattr tells of a node is what its place shows.
LEMMA StatShown ==
  ASSUME Built, NEW s, Seen(s), NEW pl, pl = PlaceOf(s)
  PROVE  Seeing(Stat(s)) = View!Ans("OK", [isdir |-> View!IsDirectory(pl), nlink |-> View!Links(pl),
                                           sticky |-> pl.kind = "job"])
<1>1. rn[s].isdir = View!IsDirectory(pl)
  <2>1. rn[s].isdir \in BOOLEAN /\ (rn[s].isdir = TRUE <=> View!IsDirectory(pl))
    BY SeenIs, KindIs
  <2>2. View!IsDirectory(pl) \in BOOLEAN
    BY DEF View!IsDirectory
  <2> QED BY <2>1, <2>2
<1>2. (IF rn[s].isdir THEN 2 + rn[s].n ELSE 1) = View!Links(pl)
  BY LinksAre
<1>3. (rn[s].isdir /\ Controllable(s)) = (pl.kind = "job")
  <2>1. rn[s].isdir \in BOOLEAN /\ (rn[s].rtype = "JOBID" <=> pl.kind = "job")
    BY SeenIs, KindIs
  <2>2. rn[s].isdir = TRUE => rn[s].rtype \in BuiltTypes \ {"ROOT", "CONTROL", "KNOB"}
    BY SeenIs DEF SeenDirs, SeenBare, AttrTypes, BuiltTypes
  <2>3. rn[s].rtype = "JOBID" => rn[s].isdir = TRUE
    BY SeenIs DEF AttrTypes, AttrSubtypes
  <2>4. rn[s].isdir = TRUE => (Controllable(s) <=> rn[s].rtype = "JOBID")
    <3> SUFFICES ASSUME rn[s].isdir = TRUE PROVE Controllable(s) <=> rn[s].rtype = "JOBID"
      OBVIOUS
    <3>1. Row(rn[s].rtype) = IF rn[s].rtype = "ALLOCJOB" THEN "NODESTATE" ELSE rn[s].rtype
      BY <2>2, BuiltRows
    <3> QED BY <2>2, <3>1 DEF Controllable
  <2>5. (rn[s].isdir /\ Controllable(s)) <=> pl.kind = "job"
    BY <2>1, <2>3, <2>4
  <2> QED BY <2>5
<1>4. PICK shows : shows = [isdir |-> rn[s].isdir, nlink |-> IF rn[s].isdir THEN 2 + rn[s].n ELSE 1,
                            sticky |-> rn[s].isdir /\ Controllable(s)]
  OBVIOUS
<1>5. shows = [isdir |-> View!IsDirectory(pl), nlink |-> View!Links(pl), sticky |-> pl.kind = "job"]
  BY <1>1, <1>2, <1>3, <1>4, Zenon
<1>6. Stat(s).err = "OK" /\ Stat(s).shows = shows
  BY <1>4, Zenon DEF Stat, Reply
<1> QED BY <1>5, <1>6, Zenon DEF Seeing, View!Ans

\* What readdir lists is what the place shows.
LEMMA ListShown ==
  ASSUME Built, NEW s, Seen(s), rn[s].isdir = TRUE, NEW pl, pl = PlaceOf(s)
  PROVE  Seeing(List(s)) = View!Ans("OK", View!Listing(pl))
<1>1. PICK es : es = View!Entries(pl)
  OBVIOUS
<1>2. ShownBy(s, es)
  BY <1>1, EntriesShown
<1>3. s \in Slots /\ IInv
  BY SeenIs DEF Built, Mounted
<1>4. PICK n \in Nat : n = Cardinality(Listed(s))
  BY <1>3, ListedCount
<1>5. DOMAIN es = 1 .. n /\ \A j \in 1 .. n : es[j] = View!Entry(rn[Nth(s, j)].nm, PlaceOf(Nth(s, j)))
  BY <1>2, <1>4 DEF ShownBy
<1>6. ASSUME NEW j \in 1 .. n
      PROVE  /\ rn[Nth(s, j)].nm = es[j].nm
             /\ rn[Nth(s, j)].isdir = View!IsDirectory(es[j].place)
  <2>1. PICK t : t = Nth(s, j)
    OBVIOUS
  <2>2. t \in Listed(s)
    BY <1>3, <1>4, <2>1, ListedFront DEF Nth
  <2>3. Seen(t)
    BY <2>2, SeenBelow DEF Built
  <2>4. rn[t].isdir \in BOOLEAN /\ (rn[t].isdir = TRUE <=> View!IsDirectory(PlaceOf(t)))
    BY <2>3, SeenIs, KindIs
  <2>5. View!IsDirectory(PlaceOf(t)) \in BOOLEAN
    BY DEF View!IsDirectory
  <2>6. es[j].nm = rn[t].nm /\ es[j].place = PlaceOf(t)
    BY <1>5, <2>1 DEF View!Entry
  <2> QED BY <2>1, <2>4, <2>5, <2>6
<1>7. PICK listing : listing = [j \in 1 .. n |-> [nm |-> rn[Nth(s, j)].nm, isdir |-> rn[Nth(s, j)].isdir]]
  OBVIOUS
<1>8. List(s).err = "OK" /\ List(s).shows = [listing |-> listing]
  BY <1>4, <1>7 DEF List, Reply, Nth
<1>9. listing = [j \in DOMAIN es |-> [nm |-> es[j].nm, isdir |-> View!IsDirectory(es[j].place)]]
  BY <1>5, <1>6, <1>7
<1>10. View!Listing(pl) = [listing |-> listing]
  BY <1>1, <1>9, Zenon DEF View!Listing
<1> QED BY <1>8, <1>10, Zenon DEF Seeing, View!Ans

\* A file that a path reaches has a value of its own: jobs are no files.
LEMMA FileIs ==
  ASSUME Built, NEW s, Seen(s), rn[s].isdir = FALSE
  PROVE  /\ rn[s].typ # "ALLOCJOB" /\ rn[s].gen = 2
         /\ PlaceOf(s) = View!Place("file", [nm |-> rn[s].nm, typ |-> rn[s].typ,
                                             size |-> SizeOf(rn[s].typ)], rn[s].dyn)
<1>1. /\ rn[s].rtype \in AttrTypes /\ rn[s].gen = 2 /\ rn[rn[s].parent].rtype = "ATTRIBUTES"
      /\ s # NULL /\ s \in Nat
  BY SeenIs
<1>2. rn[s].rtype \notin SeenDirs \cup SeenBare
  BY <1>1 DEF AttrTypes, AttrSubtypes, SeenDirs, SeenBare
<1>3. s # p_fsroot
  BY <1>2 DEF Built, Mounted, MountInv, FsRootIs, SeenDirs
<1>4. PICK d : d = rn[s].parent
  OBVIOUS
<1>5. /\ d \in Dirs /\ rn[d].rtype = "ATTRIBUTES" /\ Named(s) /\ s \in Kids(d)
  BY <1>1, <1>3, <1>4, SeenUp
<1>6. d # p_fsroot /\ rn[rn[d].parent].rtype # "ROOT"
  <2>1. d # p_fsroot
    BY <1>5 DEF Built, Mounted, MountInv, FsRootIs
  <2> QED BY <1>3, <1>4, <2>1 DEF Seen
<1>7. PICK of \in {"CLUSTER", "PARTNAME", "NODENAME"} : of = rn[rn[d].parent].rtype
  <2>1. PICK up : up = rn[d].parent /\ up \in Dirs /\ MayHold(rn[up].rtype, "ATTRIBUTES")
    BY <1>5, UpIs
  <2>2. rn[up].rtype \notin {"ROOT", "JOBSTEPID"}
    BY <1>6, <2>1, NoSteps
  <2>3. rn[up].rtype # "JOBID"
    <3>1. Depth = 0 /\ (OfJob(d) => \E k \in 1 .. Depth : stack[k].at = d)
      BY <1>5 DEF Built, Mounted, MountInv, JobsInv, Depth
    <3> QED BY <1>5, <2>1, <3>1 DEF OfJob
  <2> QED BY <2>1, <2>2, <2>3 DEF MayHold
<1>8. d # NULL /\ rn[d].rtype \in SeenDirs \ {"JOBS", "JOBID"} /\ rn[d].rtype \in BuiltTypes
  <2>1. rn[d].rtype \in DirTypes /\ d \in Slots
    BY <1>5, DirIs
  <2> QED BY <1>5, <2>1 DEF SeenDirs, DirTypes, Slots
<1>9. PICK n \in Nat, first \in Nat : /\ n = NKids(d) /\ first = rn[d].children
                                      /\ Kids(d) = first .. (first + n - 1)
  BY <1>5, <1>8, DirIs
<1>10. PICK j \in 1 .. n : s = Nth(d, j)
  <2>1. s - first + 1 \in 1 .. n /\ s = first + (s - first + 1) - 1
    BY <1>1, <1>5, <1>9
  <2> QED BY <1>9, <2>1 DEF Nth
<1>11. PICK list : list = Children(d)
  OBVIOUS
<1>12. PICK c : c = list[j] /\ rn[s].typ = c.typ /\ rn[s].rtype = c.rtype
  <2>1. PICK c : c = list[j]
    OBVIOUS
  <2>2. rn[s].typ = c.typ /\ rn[s].rtype = c.rtype
    BY <1>5, <1>8, <1>9, <1>10, <1>11, <2>1, FullShown
  <2> QED BY <2>1, <2>2
<1>13. list = [i \in DOMAIN AttrTab[of] |-> Child(p2r_typ_convtab(AttrTab[of][i].typ), AttrTab[of][i].nm,
                                              AttrTab[of][i].typ, rn[d].dyn, "ASSERT")]
  <2>1. list = AttrChildren(d)
    BY <1>5, <1>8, <1>11, ChildrenIs
  <2> QED BY <1>7, <2>1 DEF AttrChildren
<1>14. j \in DOMAIN AttrTab[of]
  <2>1. Listable(d)
    BY <1>5, DirIs
  <2>2. DOMAIN list = 1 .. n
    BY <1>8, <1>9, <1>11, <2>1, ChildrenFor DEF ListFor, NKids
  <2> QED BY <1>10, <1>13, <2>2
<1>15. PICK typ : typ = AttrTab[of][j].typ
  OBVIOUS
<1>16. c.typ = typ /\ c.rtype = p2r_typ_convtab(typ)
  <2>1. PICK nm, dyn : c = Child(p2r_typ_convtab(typ), nm, typ, dyn, "ASSERT")
    BY <1>12, <1>13, <1>14, <1>15
  <2> QED BY <2>1 DEF Child
<1>17. typ # "ALLOCJOB"
  <2>1. p2r_typ_convtab(typ) = IF typ = "ALLOCJOB" THEN "ALLOCJOB" ELSE "ATTRIBUTE"
    BY <1>7, <1>14, <1>15, AttrsConverted
  <2> QED BY <1>1, <1>12, <1>16, <2>1 DEF AttrTypes, AttrSubtypes
<1>18. PlaceOf(s) = View!Place("file", [nm |-> rn[s].nm, typ |-> rn[s].typ,
                                             size |-> SizeOf(rn[s].typ)], rn[s].dyn)
  BY <1>1, <1>2, PlaceIs
<1> QED BY <1>1, <1>12, <1>16, <1>17, <1>18

\* The answers that show nothing more.
LEMMA ErrShown == \A err : Seeing(Err(err)) = View!Ans(err, View!Plain) /\ Err(err).err = err
BY DEF Seeing, Err, Reply, Plainly, View!Ans, View!Plain

\* What the permission check lets through: what the view admits, but no open of a
\* file for writing and no write, as no file can be written.
LEMMA PermitsIs ==
  ASSUME Built, NEW r, IsRequest(r), Deliverable(r), NEW s, s = namer(r.path), s # NULL
  PROVE  Permits(r, s) <=> View!Admitted(r) /\ r.op # "write" /\ ~(r.op = "open" /\ r.acc = "w")
<1>1. Seen(s) /\ (r.op \in {"open", "read", "write", "truncate", "poll"} => ~rn[s].isdir)
  BY AskedOf
<1>2. r.op \in {"open", "write"} => ~Writable(s) /\ ~Controllable(s)
  BY <1>1, FileIsRead DEF Built
<1>3. PICK acc : acc = IF r.op \in {"open", "read", "write"} THEN r.acc ELSE "none"
  OBVIOUS
<1>4. /\ r.op = "write" => acc = "w"
      /\ r.op = "open" => acc = r.acc /\ acc \in {"r", "w"}
      /\ r.op \notin {"open", "write"} => acc \in {"r", "none"}
  BY <1>3 DEF IsRequest
<1>5. MayAccess(s, acc, r.uid) <=> View!Admitted(r) /\ (acc = "w" => Writable(s) \/ Controllable(s))
  BY DEF MayAccess, Readable, View!Admitted
<1>6. Permits(r, s) <=> MayAccess(s, acc, r.uid)
  BY <1>3, Zenon DEF Permits
<1> QED BY <1>2, <1>4, <1>5, <1>6

\* An extended attribute is what the view says, whatever room there is for it.
LEMMA NamesShown ==
  ASSUME Built, NEW s, Seen(s), NEW pl, pl = PlaceOf(s)
  PROVE  Names(s, {"context"}) = View!Contexts(pl) /\ Names(s, {}) = [names |-> {}]
<1>1. HasContext(s) <=> pl.kind # "empty"
  BY KindIs DEF HasContext
<1> QED BY <1>1 DEF Names, View!Contexts

\* The answer of a handler that is done after its lock sections.
LEMMA RepliesAnswer ==
  ASSUME Built, NEW r, IsRequest(r), Deliverable(r), NEW s, s = namer(r.path),
         s # NULL /\ Permits(r, s) => r.op # "read" /\ ~StoresContext(r),
         NEW reply \in Replies(r, s)
  PROVE  View!IsAnswer(r, Seeing(reply)) /\ reply.err # "none"
<1>1. PICK pl : pl = View!Walk(r.path) /\ pl = PlaceOf(s)
  BY AllowedIs
<1>2. CASE s = NULL
  <2>1. pl.kind = "nowhere"
    BY <1>1, <1>2 DEF PlaceOf, View!Nowhere, View!Bare, View!Place
  <2>2. reply = Err("ENOENT")
    BY <1>2 DEF Replies
  <2> QED BY <1>1, <2>1, <2>2, ErrShown DEF View!IsAnswer
<1>3. CASE s # NULL
  <2>1. Seen(s) /\ rn[s].isdir \in BOOLEAN
    BY <1>3, AskedOf
  <2>2. pl.kind # "nowhere"
    BY <1>1, <2>1, KindIs
  <2>3. CASE r.op = "getattr"
    <3>1. reply = Stat(s)
      BY <1>3, <2>3 DEF Replies
    <3>2. Seeing(reply) = View!Ans("OK", [isdir |-> View!IsDirectory(pl), nlink |-> View!Links(pl),
                                           sticky |-> pl.kind = "job"])
      BY <1>1, <2>1, <3>1, StatShown
    <3>3. reply.err = "OK"
      BY <3>1 DEF Stat, Reply
    <3> QED BY <1>1, <2>2, <2>3, <3>2, <3>3, Zenon DEF View!IsAnswer
  <2>4. CASE r.op = "readdir"
    <3>1. reply = List(s) /\ rn[s].isdir = TRUE
      BY <1>3, <2>1, <2>4, AskedOf DEF Replies
    <3>2. Seeing(reply) = View!Ans("OK", View!Listing(pl))
      BY <1>1, <2>1, <3>1, ListShown
    <3>3. reply.err = "OK"
      BY <3>1 DEF List, Reply
    <3> QED BY <1>1, <2>2, <2>4, <3>2, <3>3 DEF View!IsAnswer
  <2>5. CASE r.op \in {"statfs", "poll"}
    <3>1. reply = Statvfs \/ reply = OK
      BY <1>3, <2>5 DEF Replies
    <3>2. Seeing(reply) = View!Ans("OK", View!Plain) /\ reply.err = "OK"
      <4>1. Statvfs.err = "OK" /\ Statvfs.shows = Plainly
        <5>1. \A more : Reply("OK", Plainly, more).err = "OK" /\ Reply("OK", Plainly, more).shows = Plainly
          BY DEF Reply
        <5>2. \E more : Statvfs = Reply("OK", Plainly, more)
          BY Zenon DEF Statvfs
        <5> QED BY <5>1, <5>2
      <4>2. reply.err = "OK" /\ reply.shows = Plainly
        BY <3>1, <4>1 DEF OK, Err, Reply
      <4> QED BY <4>2 DEF Seeing, Plainly, View!Ans, View!Plain
    <3> QED BY <1>1, <2>2, <2>5, <3>2 DEF View!IsAnswer
  <2>6. CASE r.op \notin {"getattr", "readdir", "statfs", "poll"}
    <3>1. View!IsAnswer(r, Seeing(reply)) <=>
             IF View!Admitted(r) THEN View!IsAdmittedAnswer(r, pl, Seeing(reply))
             ELSE Seeing(reply) = View!Ans("EPERM", View!Plain)
      BY <1>1, <2>2, <2>6 DEF View!IsAnswer
    <3>2. Permits(r, s) <=> View!Admitted(r) /\ r.op # "write" /\ ~(r.op = "open" /\ r.acc = "w")
      BY <1>3, PermitsIs
    <3>3. CASE ~Permits(r, s)
      <4>1. reply = Err("EPERM")
        BY <1>3, <2>6, <3>3 DEF Replies
      <4>2. Seeing(reply) = View!Ans("EPERM", View!Plain) /\ reply.err = "EPERM"
        BY <4>1, ErrShown
      <4>3. View!Admitted(r) => View!IsAdmittedAnswer(r, pl, Seeing(reply))
        BY <3>2, <3>3, <4>2 DEF View!IsAdmittedAnswer
      <4> QED BY <3>1, <4>2, <4>3
    <3>4. CASE Permits(r, s)
      <4> SUFFICES View!IsAdmittedAnswer(r, pl, Seeing(reply)) /\ reply.err # "none"
        BY <3>1, <3>2, <3>4
      <4>1. CASE r.op = "truncate"
        <5>1. reply \in Trunc(r, s)
          BY <1>3, <3>4, <4>1 DEF Replies
        <5>2. reply = Err("OK") \/ reply = Err("EPERM")
          BY <5>1 DEF Trunc, OK
        <5> QED BY <4>1, <5>2, ErrShown DEF View!IsAdmittedAnswer
      <4>2. CASE r.op = "getxattr"
        <5>1. reply = GetXattr(r, s)
          BY <1>3, <3>4, <4>2 DEF Replies
        <5>2. PICK names : names = IF r.name = "other" THEN [names |-> {}] ELSE View!Contexts(pl)
          OBVIOUS
        <5>3. names = Names(s, IF r.name = "other" THEN {} ELSE {"context"})
          BY <1>1, <2>1, <5>2, NamesShown
        <5>4. reply.err \in {"OK", "SHORT"} /\ reply.shows = names
          BY <5>1, <5>3, Zenon DEF GetXattr, Reply
        <5>5. Seeing(reply).err = reply.err /\ Seeing(reply).shows = reply.shows
          BY DEF Seeing
        <5> QED BY <4>2, <5>2, <5>4, <5>5 DEF View!IsAdmittedAnswer
      <4>3. CASE r.op = "listxattr"
        <5>1. reply = ListXattr(r, s)
          BY <1>3, <3>4, <4>3 DEF Replies
        <5>2. PICK names : names = View!Contexts(pl) /\ names = Names(s, {"context"})
          BY <1>1, <2>1, NamesShown
        <5>3. reply.err \in {"OK", "SHORT"} /\ reply.shows = names
          BY <5>1, <5>2, Zenon DEF ListXattr, Reply
        <5>4. Seeing(reply).err = reply.err /\ Seeing(reply).shows = reply.shows
          BY DEF Seeing
        <5> QED BY <4>3, <5>2, <5>3, <5>4 DEF View!IsAdmittedAnswer
      <4>4. CASE r.op \in {"access", "open", "setxattr"}
        <5>1. reply = Err("OK")
          BY <1>3, <3>4, <4>4 DEF Replies, OK
        <5>2. Seeing(reply) = View!Ans("OK", View!Plain) /\ reply.err = "OK"
          BY <5>1, ErrShown
        <5>3. r.op = "open" => r.acc # "w"
          BY <3>2, <3>4
        <5> QED BY <4>4, <5>2, <5>3 DEF View!IsAdmittedAnswer, View!Ans
      <4>5. r.op \in {"truncate", "getxattr", "listxattr", "access", "open", "setxattr"}
        BY <1>3, <2>6, <3>2, <3>4 DEF IsRequest, Ops
      <4> QED BY <4>1, <4>2, <4>3, <4>4, <4>5
    <3> QED BY <3>3, <3>4
  <2> QED BY <2>3, <2>4, <2>5, <2>6
<1> QED BY <1>2, <1>3

\* An answer past the permission check is the one that the view admits.
LEMMA AdmittedAnswers ==
  ASSUME Built, NEW r, IsRequest(r), Deliverable(r), NEW s, s = namer(r.path), s # NULL,
         Permits(r, s), r.op \in {"read", "setxattr"}, NEW pl, pl = PlaceOf(s), NEW a,
         View!IsAdmittedAnswer(r, pl, a)
  PROVE  View!IsAnswer(r, a)
<1>1. Seen(s)
  BY AskedOf
<1>2. pl = View!Walk(r.path) /\ pl.kind # "nowhere"
  BY <1>1, AllowedIs, KindIs
<1>3. View!Admitted(r)
  BY PermitsIs
<1> QED BY <1>2, <1>3 DEF View!IsAnswer

\* A read shows the value that the file was built with, or says how its size and the
\* room for it compare, while no security context has been stored.
LEMMA ReadAnswers ==
  ASSUME Built, NEW r, IsRequest(r), Deliverable(r), NEW s, s = namer(r.path), s # NULL,
         Permits(r, s), r.op = "read", NEW reply,
         \/ reply = Err("SHORT") /\ Val(s).size > r.size
         \/ reply = Err("ERANGE") /\ stored # <<>>
         \/ reply = Reply("OK", CopiedOut(s), Plainly) /\ (stored = <<>> => ~(Val(s).size > r.size))
  PROVE  View!IsAnswer(r, Seeing(reply)) /\ reply.err # "none"
<1>1. Seen(s) /\ rn[s].isdir = FALSE
  BY AskedOf
<1>2. PICK pl : pl = PlaceOf(s)
  OBVIOUS
<1>3. PICK nm, typ, dyn, size : nm = rn[s].nm /\ typ = rn[s].typ /\ dyn = rn[s].dyn /\ size = SizeOf(typ)
  OBVIOUS
<1>4. pl = View!Place("file", [nm |-> nm, typ |-> typ, size |-> size], dyn) /\ typ # "ALLOCJOB"
  BY <1>1, <1>2, <1>3, FileIs
<1>5. pl.of.size = size /\ pl.of.typ = typ /\ pl.of.nm = nm /\ pl.rec = dyn
  BY <1>4 DEF View!Place
<1>6. \A shows : Reply("OK", shows, Plainly).err = "OK" /\ Reply("OK", shows, Plainly).shows = shows
  BY DEF Reply
<1>7. PICK copied : copied = CopiedOut(s)
  OBVIOUS
<1>8. reply.err \in {"OK", "SHORT", "ERANGE"} /\ Seeing(reply).err = reply.err
  BY <1>6, <1>7, ErrShown DEF Seeing
<1>9. stored # <<>> => View!IsAdmittedAnswer(r, pl, Seeing(reply))
  BY <1>8 DEF View!IsAdmittedAnswer
<1>10. ASSUME stored = <<>> PROVE View!IsAdmittedAnswer(r, pl, Seeing(reply))
  <2>1. s \notin DOMAIN stored
    BY <1>10
  <2>2. Val(s) = [str |-> <<nm, dyn>>, size |-> size]
    BY <1>3, <2>1 DEF Val
  <2>3. Val(s).size = size /\ Val(s).str = <<nm, dyn>>
    BY <2>2
  <2>4. copied = View!TextOf(pl)
    BY <1>3, <1>4, <1>5, <1>7, <2>3 DEF CopiedOut, View!TextOf
  <2>5. CASE size > r.size
    <3>1. reply = Err("SHORT")
      BY <1>10, <2>3, <2>5
    <3> QED BY <1>5, <1>10, <2>5, <3>1, ErrShown DEF View!IsAdmittedAnswer, View!ReadAnswer
  <2>6. CASE ~(size > r.size)
    <3>1. reply = Reply("OK", copied, Plainly)
      BY <1>7, <1>10, <2>3, <2>6
    <3>2. Seeing(reply) = View!Ans("OK", View!TextOf(pl))
      BY <1>6, <2>4, <3>1 DEF Seeing, View!Ans
    <3> QED BY <1>5, <1>10, <2>6, <3>2 DEF View!IsAdmittedAnswer, View!ReadAnswer
  <2> QED BY <2>5, <2>6
<1> QED BY <1>2, <1>8, <1>9, <1>10, AdmittedAnswers

\* The answers of the handler that stores a security context.
LEMMA StoreAnswers ==
  ASSUME Built, NEW r, IsRequest(r), Deliverable(r), NEW s, s = namer(r.path), s # NULL,
         Permits(r, s), r.op = "setxattr", NEW err \in {"OK", "SHORT"}
  PROVE  View!IsAnswer(r, Seeing(Err(err))) /\ Err(err).err # "none"
<1>1. PICK a : a = Seeing(Err(err))
  OBVIOUS
<1>2. a = View!Ans(err, View!Plain) /\ Err(err).err = err
  BY <1>1, ErrShown
<1>3. a.err \in {"OK", "SHORT"} /\ a.shows = View!Plain
  BY <1>2 DEF View!Ans
<1>4. PICK pl : pl = PlaceOf(s)
  OBVIOUS
<1>5. View!IsAdmittedAnswer(r, pl, a)
  BY <1>3 DEF View!IsAdmittedAnswer
<1> QED BY <1>1, <1>2, <1>4, <1>5, AdmittedAnswers

-----------------------------------------------------------------------------
(* What handlers know of requests and answers *)

\* What a handler knows of its request and has answered: the kernel let the request
\* pass, the first steps of a read or of a storing have passed the permission check,
\* and a read that copies fits unless a security context has been stored since.
AskOK(h) ==
    /\ h.pc = "idle" => h.req = Idle.req
    /\ h.pc # "idle" => h.req \in Asks(in) /\ Deliverable(h.req)
    /\ h.pc # "done" => h.reply = NoReply
    /\ h.pc = "done" => h.reply.err # "none"
    /\ h.pc \in {"copying", "storing", "sizing"} => h.at # NULL /\ Permits(h.req, h.at)
    /\ h.pc = "copying" /\ stored = <<>> => ~(Val(h.at).size > h.req.size)

\* Every handler, and the first half of a storing leaves something stored.
AskInv ==
    \A c \in Clients : /\ AskOK(call[c])
                       /\ call[c].pc = "sizing" => stored # <<>>

\* A handler that stays where it is still knows it.
LEMMA AsksStay ==
  ASSUME UNCHANGED vars, stored' = stored \/ stored' # <<>>, NEW h, AskOK(h)
  PROVE  AskOK(h)'
<1>1. Deliverable(h.req)' = Deliverable(h.req)
  <2>1. \A path : namer(path)' = namer(path)
    BY SMT DEF vars, pool, roots, Look, Listed, Kids, Named, namer
  <2>2. rn' = rn
    BY DEF vars, pool
  <2>3. \A path : IsDirAt(path)' = IsDirAt(path)
    BY <2>1, <2>2 DEF IsDirAt
  <2> QED BY <2>1, <2>2, <2>3 DEF Deliverable
<1>2. Permits(h.req, h.at)' = Permits(h.req, h.at)
  BY DEF vars, pool, Permits, MayAccess, Readable, Writable, Controllable
<1>3. stored' = stored => Val(h.at)' = Val(h.at)
  BY DEF vars, pool, Val
<1>4. in' = in
  BY DEF vars
<1> QED BY <1>1, <1>2, <1>3, <1>4 DEF AskOK

\* One handler moves on.
LEMMA OneAsks ==
  ASSUME AskInv, DOMAIN call = Clients, UNCHANGED vars, stored' = stored \/ stored' # <<>>,
         NEW c \in Clients, NEW g, call' = [call EXCEPT ![c] = g], AskOK(g),
         g.pc = "sizing" => stored' # <<>>
  PROVE  AskInv'
<1>1. call'[c] = g /\ \A d \in Clients \ {c} : call'[d] = call[d]
  OBVIOUS
<1>2. AskOK(g)'
  BY AsksStay
<1>3. \A d \in Clients \ {c} : AskOK(call[d])' /\ (call[d].pc = "sizing" => stored' # <<>>)
  <2> SUFFICES ASSUME NEW d \in Clients \ {c}
               PROVE  AskOK(call[d])' /\ (call[d].pc = "sizing" => stored' # <<>>)
    OBVIOUS
  <2>1. PICK h : h = call[d]
    OBVIOUS
  <2>2. AskOK(h)' /\ (h.pc = "sizing" => stored' # <<>>)
    BY <2>1, AsksStay DEF AskInv
  <2> QED BY <1>1, <2>1, <2>2
<1> QED BY <1>1, <1>2, <1>3 DEF AskInv

-----------------------------------------------------------------------------
(* What the view's variables are, and its steps *)

Asked == [c \in Clients |-> call[c].req]
Shown == [c \in Clients |-> Seeing(call[c].reply)]
State == CASE phase = "serving" -> "open" [] phase = "ended" -> "closed" [] OTHER -> "waiting"
Stored == stored # <<>>

\* The requests and the answers when one handler moves.
LEMMA MoveShown ==
  ASSUME DOMAIN call = Clients, NEW c \in Clients, NEW g, call' = [call EXCEPT ![c] = g]
  PROVE  /\ Asked' = [Asked EXCEPT ![c] = g.req] /\ Asked'[c] = g.req /\ Asked[c] = call[c].req
         /\ Shown' = [Shown EXCEPT ![c] = Seeing(g.reply)] /\ Shown'[c] = Seeing(g.reply)
         /\ Shown[c] = Seeing(call[c].reply)
<1>1. call'[c] = g /\ \A d \in Clients \ {c} : call'[d] = call[d]
  OBVIOUS
<1>2. Asked' = [Asked EXCEPT ![c] = g.req]
  BY <1>1 DEF Asked
<1>3. Shown' = [Shown EXCEPT ![c] = Seeing(g.reply)]
  BY <1>1 DEF Shown
<1> QED BY <1>1, <1>2, <1>3 DEF Asked, Shown

\* The view's steps in terms of the handlers: a request arrives.
LEMMA ViewAsks ==
  ASSUME NEW c \in Clients, State = "open", Asked[c].op = "none",
         NEW r, Asked' = [Asked EXCEPT ![c] = r], Asked'[c] = r, r \in Asks(in), View!Allowed(r),
         in' = in, State' = State, Shown' = Shown, Stored' = Stored
  PROVE  View!Ask(c)
  BY Zenon DEF View!Ask, Asked, Shown, State, Stored, Seeing

\* A request is answered.
LEMMA ViewAnswers ==
  ASSUME NEW c \in Clients, State = "open", Asked[c].op # "none", Shown[c].err = "none",
         NEW a, Shown' = [Shown EXCEPT ![c] = a], Shown'[c] = a, a.err # "none",
         View!IsAnswer(Asked[c], a),
         in' = in, State' = State, Asked' = Asked, Stored' = Stored
  PROVE  View!Answer(c)
  BY Zenon DEF View!Answer, Asked, Shown, State, Stored, Seeing

\* An answer is delivered.
LEMMA ViewForgets ==
  ASSUME NEW c \in Clients, Shown[c].err # "none",
         Asked' = [Asked EXCEPT ![c] = View!NoRequest], Shown' = [Shown EXCEPT ![c] = View!NoAnswer],
         in' = in, State' = State, Stored' = Stored
  PROVE  View!Forget(c)
  BY Zenon DEF View!Forget, Asked, Shown, State, Stored, Seeing

\* Somebody is storing a security context.
LEMMA ViewStores ==
  ASSUME NEW c \in Clients, Asked[c].op = "setxattr", Asked[c].name = "context",
         View!Admitted(Asked[c])
  PROVE  View!Storing
  BY Zenon DEF View!Storing, Asked

\* What is stored spoils what is shown.
LEMMA ViewSpoils ==
  ASSUME State = "open", View!Storing, Stored' = TRUE, in' = in, State' = State,
         Asked' = Asked, Shown' = Shown
  PROVE  View!Spoil
  BY Zenon DEF View!Spoil, Asked, Shown, State, Stored, Seeing

\* The file system is closed: nobody waits, or a storing has ended the program.
LEMMA ViewCloses ==
  ASSUME State = "open", View!Storing \/ \A c \in Clients : Asked[c].op = "none",
         State' = "closed", in' = in, Asked' = Asked, Shown' = Shown, Stored' = Stored
  PROVE  View!Close
  BY Zenon DEF View!Close, Asked, Shown, State, Stored, Seeing

\* The file system is opened.
LEMMA ViewOpens ==
  ASSUME State = "waiting", State' = "open", in' = in, Asked' = Asked, Shown' = Shown,
         Stored' = Stored
  PROVE  View!Open
  BY Zenon DEF View!Open, Asked, Shown, State, Stored, Seeing

\* Nothing of it can be seen.
LEMMA ViewStays ==
  ASSUME in' = in, State' = State, Asked' = Asked, Shown' = Shown, Stored' = Stored
  PROVE  UNCHANGED View!viewVars
  BY Zenon DEF View!viewVars, Asked, Shown, State, Stored, Seeing

-----------------------------------------------------------------------------
(* Every step of the program is one of the view *)

\* What is known of a handler that has a request.
LEMMA HandlerKnows ==
  ASSUME ServeInv, AskInv, Built, NEW c \in Clients, NEW h, h = call[c], h.pc # "idle"
  PROVE  /\ DOMAIN h = Fields /\ h.pc \in Pcs /\ HandlerOK(h) /\ AskOK(h)
         /\ h.req \in Asks(in) /\ IsRequest(h.req) /\ Deliverable(h.req) /\ h.at = namer(h.req.path)
         /\ h.req.op # "none" /\ DOMAIN call = Clients
<1>1. HandlerOK(h) /\ AskOK(h) /\ DOMAIN call = Clients
  BY DEF ServeInv, AskInv
<1>2. DOMAIN h = Fields /\ h.pc \in Pcs /\ ServedAs(h) /\ h.req \in Asks(in) /\ Deliverable(h.req)
  BY <1>1 DEF HandlerOK, AskOK
<1>3. IsRequest(h.req) /\ h.at = namer(h.req.path)
  BY <1>2 DEF ServedAs
<1>4. h.req.op # "none"
  BY <1>3 DEF IsRequest, Ops
<1> QED BY <1>1, <1>2, <1>3, <1>4

\* A handler that goes on with its request shows nothing.
LEMMA GoesOn ==
  ASSUME ServeInv, AskInv, Built, UNCHANGED <<vars, phase, stored>>,
         NEW c \in Clients, NEW h, h = call[c], h.pc \notin {"idle", "done"},
         NEW g, call' = [call EXCEPT ![c] = g], g.req = h.req, g.at = h.at, g.reply = h.reply,
         g.pc \notin {"idle", "done", "sizing"},
         g.pc \in {"copying", "storing"} => h.at # NULL /\ Permits(h.req, h.at),
         g.pc = "copying" => ~(Val(h.at).size > h.req.size)
  PROVE  AskInv' /\ UNCHANGED View!viewVars
<1>1. AskOK(h) /\ DOMAIN call = Clients /\ h.req \in Asks(in) /\ Deliverable(h.req)
  BY HandlerKnows
<1>2. AskOK(g)
  BY <1>1 DEF AskOK
<1>3. AskInv'
  <2>1. UNCHANGED vars /\ (stored' = stored \/ stored' # <<>>) /\ (g.pc = "sizing" => stored' # <<>>)
    OBVIOUS
  <2> QED BY <1>1, <1>2, <2>1, OneAsks
<1>4. Asked' = Asked /\ Shown' = Shown
  <2>1. \A d \in Clients : call'[d].req = call[d].req /\ call'[d].reply = call[d].reply
    BY <1>1
  <2>2. \A d \in Clients : Seeing(call[d].reply)' = Seeing(call[d].reply)
    BY <2>1 DEF Seeing
  <2> QED BY <2>1, <2>2 DEF Asked, Shown
<1>5. in' = in /\ State' = State /\ Stored' = Stored
  BY DEF vars, State, Stored
<1> QED BY <1>3, <1>4, <1>5, ViewStays

\* A handler that finishes gives an answer.
LEMMA GivesAnswer ==
  ASSUME ServeInv, AskInv, Built, phase = "serving", UNCHANGED <<vars, phase>>,
         stored' = stored \/ (stored # <<>> /\ stored' # <<>>),
         NEW c \in Clients, NEW h, h = call[c], h.pc \notin {"idle", "done"},
         NEW reply, Finish(c, reply), View!IsAnswer(h.req, Seeing(reply)), reply.err # "none"
  PROVE  AskInv' /\ View!Answer(c)
<1>1. /\ AskOK(h) /\ DOMAIN call = Clients /\ h.req \in Asks(in) /\ Deliverable(h.req)
      /\ DOMAIN h = Fields /\ h.req.op # "none"
  BY HandlerKnows
<1>2. PICK g : g = [h EXCEPT !.pc = "done", !.reply = reply]
  OBVIOUS
<1>3. call' = [call EXCEPT ![c] = g]
  BY <1>2 DEF Finish
<1>4. g.pc = "done" /\ g.reply = reply /\ g.req = h.req /\ g.at = h.at
  BY <1>1, <1>2 DEF Fields
<1>5. AskOK(g)
  BY <1>1, <1>4 DEF AskOK
<1>6. AskInv'
  <2>1. UNCHANGED vars /\ (stored' = stored \/ stored' # <<>>) /\ g.pc # "sizing"
    BY <1>4
  <2> QED BY <1>1, <1>3, <1>5, <2>1, OneAsks
<1>7. PICK a : a = Seeing(reply)
  OBVIOUS
<1>8. /\ Shown' = [Shown EXCEPT ![c] = a] /\ Shown'[c] = a /\ Asked[c] = h.req
      /\ Shown[c] = Seeing(h.reply)
  BY <1>1, <1>3, <1>4, <1>7, MoveShown
<1>9. Asked' = Asked
  <2>1. \A d \in Clients : call'[d].req = call[d].req
    BY <1>1, <1>3, <1>4
  <2> QED BY <2>1 DEF Asked
<1>10. Shown[c].err = "none" /\ a.err # "none"
  <2>1. h.reply = NoReply
    BY <1>1 DEF AskOK
  <2>2. Seeing(h.reply) = View!Ans("none", View!Plain)
    BY <2>1, ErrShown DEF NoReply
  <2> QED BY <1>7, <1>8, <2>2 DEF Seeing, View!Ans
<1>11. in' = in /\ State = "open" /\ State' = State /\ Stored' = Stored
  BY DEF vars, State, Stored
<1>12. View!Answer(c)
  <2>1. Asked[c].op # "none" /\ View!IsAnswer(Asked[c], a)
    BY <1>1, <1>7, <1>8
  <2> QED BY <1>8, <1>9, <1>10, <1>11, <2>1, ViewAnswers
<1> QED BY <1>6, <1>12

\* The steps of a lock section show nothing.
LEMMA SectionShows ==
  ASSUME ServeInv, AskInv, Built, NEW c \in Clients,
         TakeLoad(c) \/ TakeStore(c) \/ DropLoad(c) \/ DropStore(c)
  PROVE  AskInv' /\ UNCHANGED View!viewVars
<1>1. UNCHANGED <<vars, phase, stored>>
  BY DEF TakeLoad, TakeStore, DropLoad, DropStore
<1>2. PICK h : h = call[c]
  OBVIOUS
<1>3. h.pc \in {"entered", "taking", "held", "dropping"}
  BY <1>2 DEF TakeLoad, TakeStore, DropLoad, DropStore, AtLock, In
<1>4. DOMAIN h = Fields
  BY <1>2, <1>3, HandlerKnows
<1>5. ASSUME NEW pc \in {"entered", "taking", "held", "dropping"}, NEW reg, NEW todo,
             call' = [call EXCEPT ![c] = [h EXCEPT !.pc = pc, !.todo = todo, !.reg = reg]]
      PROVE  AskInv' /\ UNCHANGED View!viewVars
  <2>1. PICK g : g = [h EXCEPT !.pc = pc, !.todo = todo, !.reg = reg]
    OBVIOUS
  <2>2. g.pc = pc /\ g.req = h.req /\ g.at = h.at /\ g.reply = h.reply
    BY <1>4, <2>1 DEF Fields
  <2> QED BY <1>1, <1>2, <1>3, <1>5, <2>1, <2>2, GoesOn
<1>6. CASE TakeLoad(c)
  <2>1. call' = [call EXCEPT ![c] = [h EXCEPT !.pc = "taking", !.todo = h.todo, !.reg = lock]]
    <3>1. [h EXCEPT !.pc = "taking", !.todo = h.todo, !.reg = lock] = [h EXCEPT !.pc = "taking", !.reg = lock]
      BY <1>4 DEF Fields
    <3> QED BY <1>2, <1>6, <3>1 DEF TakeLoad
  <2> QED BY <1>5, <2>1
<1>7. CASE TakeStore(c)
  <2>1. call' = [call EXCEPT ![c] = [h EXCEPT !.pc = "held", !.todo = h.todo, !.reg = h.reg]]
    <3>1. [h EXCEPT !.pc = "held", !.todo = h.todo, !.reg = h.reg] = [h EXCEPT !.pc = "held"]
      BY <1>4 DEF Fields
    <3> QED BY <1>2, <1>7, <3>1 DEF TakeStore, Goto
  <2> QED BY <1>5, <2>1
<1>8. CASE DropLoad(c)
  <2>1. call' = [call EXCEPT ![c] = [h EXCEPT !.pc = "dropping", !.todo = h.todo, !.reg = lock]]
    <3>1. [h EXCEPT !.pc = "dropping", !.todo = h.todo, !.reg = lock] = [h EXCEPT !.pc = "dropping", !.reg = lock]
      BY <1>4 DEF Fields
    <3> QED BY <1>2, <1>8, <3>1 DEF DropLoad
  <2> QED BY <1>5, <2>1
<1>9. CASE DropStore(c)
  <2>1. call' = [call EXCEPT ![c] = [h EXCEPT !.pc = "entered", !.todo = h.todo - 1, !.reg = 0]]
    BY <1>2, <1>9 DEF DropStore
  <2> QED BY <1>5, <2>1
<1> QED BY <1>6, <1>7, <1>8, <1>9

\* A handler that answers at once.
LEMMA HandleShows ==
  ASSUME ServeInv, AskInv, Built, NEW c \in Clients, Handle(c)
  PROVE  AskInv' /\ View!Answer(c)
<1>1. ~Admits(c, "write")
  BY NobodyWrites DEF Built
<1>2. UNCHANGED <<vars, phase, stored>> /\ phase = "serving"
  BY <1>1 DEF Handle, Ready, In
<1>3. PICK h : h = call[c] /\ h.pc = "entered" /\ h.todo = 0
  BY DEF Handle, Ready, In
<1>4. IsRequest(h.req) /\ Deliverable(h.req) /\ h.at = namer(h.req.path)
  BY <1>3, HandlerKnows
<1>5. PICK reply : reply \in Replies(h.req, h.at) /\ Finish(c, reply)
  BY <1>3 DEF Handle, R, S
<1>6. h.at # NULL /\ Permits(h.req, h.at) => h.req.op # "read" /\ ~StoresContext(h.req)
  BY <1>3 DEF Handle, Stepwise, Admits, Ready, R, S, StoresContext
<1>7. View!IsAnswer(h.req, Seeing(reply)) /\ reply.err # "none"
  BY <1>4, <1>5, <1>6, RepliesAnswer
<1> QED BY <1>2, <1>3, <1>5, <1>7, GivesAnswer

\* The two steps of a read.
LEMMA ReadShows ==
  ASSUME ServeInv, AskInv, Built, NEW c \in Clients, ReadCheck(c) \/ ReadCopy(c)
  PROVE  AskInv' /\ (View!Answer(c) \/ UNCHANGED View!viewVars)
<1>1. UNCHANGED <<vars, phase, stored>> /\ phase = "serving"
  BY DEF ReadCheck, ReadCopy, Admits, Ready, In
<1>2. PICK h : h = call[c]
  OBVIOUS
<1>3. h.pc \in {"entered", "copying"}
  BY <1>2 DEF ReadCheck, ReadCopy, Admits, Ready, In
<1>4. /\ IsRequest(h.req) /\ Deliverable(h.req) /\ h.at = namer(h.req.path) /\ DOMAIN h = Fields
      /\ HandlerOK(h) /\ AskOK(h)
  BY <1>2, <1>3, HandlerKnows
<1>5. h.req.op = "read" /\ h.at # NULL /\ Permits(h.req, h.at)
  <2>1. CASE ReadCheck(c)
    BY <1>2, <2>1 DEF ReadCheck, Admits, R, S
  <2>2. CASE ReadCopy(c)
    <3>1. h.pc = "copying"
      BY <1>2, <2>2 DEF ReadCopy, In
    <3> QED BY <1>4, <3>1 DEF HandlerOK, AskOK
  <2> QED BY <2>1, <2>2
<1>6. ASSUME NEW reply, Finish(c, reply),
             \/ reply = Err("SHORT") /\ Val(h.at).size > h.req.size
             \/ reply = Err("ERANGE") /\ stored # <<>>
             \/ reply = Reply("OK", CopiedOut(h.at), Plainly)
                /\ (stored = <<>> => ~(Val(h.at).size > h.req.size))
      PROVE  AskInv' /\ View!Answer(c)
  <2>1. View!IsAnswer(h.req, Seeing(reply)) /\ reply.err # "none"
    BY <1>4, <1>5, <1>6, ReadAnswers
  <2> QED BY <1>1, <1>2, <1>3, <1>6, <2>1, GivesAnswer
<1>7. CASE ReadCheck(c)
  <2>1. CASE Val(h.at).size > h.req.size
    <3>1. Finish(c, Err("SHORT"))
      BY <1>2, <1>7, <2>1 DEF ReadCheck, R, S
    <3> QED BY <1>6, <2>1, <3>1
  <2>2. CASE ~(Val(h.at).size > h.req.size)
    <3>1. PICK g : g = [h EXCEPT !.pc = "copying"]
      OBVIOUS
    <3>2. call' = [call EXCEPT ![c] = g]
      BY <1>2, <1>7, <2>2, <3>1 DEF ReadCheck, Goto, R, S
    <3>3. g.pc = "copying" /\ g.req = h.req /\ g.at = h.at /\ g.reply = h.reply
      BY <1>4, <3>1 DEF Fields
    <3> QED BY <1>1, <1>2, <1>3, <1>5, <2>2, <3>2, <3>3, GoesOn
  <2> QED BY <2>1, <2>2
<1>8. CASE ReadCopy(c)
  <2>1. stored = <<>> => ~(Val(h.at).size > h.req.size)
    <3>1. h.pc = "copying"
      BY <1>2, <1>8 DEF ReadCopy, In
    <3> QED BY <1>4, <3>1 DEF AskOK
  <2>2. Finish(c, IF Val(h.at).size > h.req.size THEN Err("ERANGE")
                 ELSE Reply("OK", CopiedOut(h.at), Plainly))
    BY <1>2, <1>8 DEF ReadCopy, R, S
  <2>3. CASE Val(h.at).size > h.req.size
    <3>1. Finish(c, Err("ERANGE")) /\ stored # <<>>
      BY <2>1, <2>2, <2>3
    <3> QED BY <1>6, <3>1
  <2>4. CASE ~(Val(h.at).size > h.req.size)
    <3>1. Finish(c, Reply("OK", CopiedOut(h.at), Plainly))
      BY <2>2, <2>4
    <3> QED BY <1>6, <2>1, <3>1
  <2> QED BY <2>3, <2>4
<1> QED BY <1>7, <1>8

\* Somebody who stores a security context is seen to wait for it.
LEMMA StoringSeen ==
  ASSUME ServeInv, AskInv, Built, NEW c \in Clients, NEW h, h = call[c], h.pc # "idle",
         StoresContext(h.req), h.at # NULL, Permits(h.req, h.at)
  PROVE  View!Storing
<1>1. IsRequest(h.req) /\ Deliverable(h.req) /\ h.at = namer(h.req.path) /\ DOMAIN call = Clients
  BY HandlerKnows
<1>2. View!Admitted(h.req)
  BY <1>1, PermitsIs
<1>3. Asked[c] = h.req
  BY DEF Asked
<1> QED BY <1>2, <1>3, ViewStores DEF StoresContext

\* The state of things when nothing is asked or answered.
LEMMA NothingMoves ==
  ASSUME AskInv, UNCHANGED <<vars, call, stored>>
  PROVE  AskInv' /\ in' = in /\ Asked' = Asked /\ Shown' = Shown /\ Stored' = Stored
<1>1. AskInv'
  <2> SUFFICES ASSUME NEW d \in Clients
               PROVE  AskOK(call[d])' /\ (call'[d].pc = "sizing" => stored' # <<>>)
    BY DEF AskInv
  <2>1. PICK h : h = call[d]
    OBVIOUS
  <2>2. AskOK(h)' /\ (h.pc = "sizing" => stored # <<>>)
    BY <2>1, AsksStay DEF AskInv
  <2> QED BY <2>1, <2>2
<1>2. in' = in
  BY DEF vars
<1>3. Asked' = Asked /\ Shown' = Shown /\ Stored' = Stored
  BY DEF Asked, Shown, Stored, Seeing
<1> QED BY <1>1, <1>2, <1>3

\* The search for the context: it ends the program, finds a place to store to, or answers.
LEMMA FindShows ==
  ASSUME ServeInv, AskInv, Built, NEW c \in Clients, FindContext(c)
  PROVE  AskInv' /\ (View!Answer(c) \/ View!Close \/ UNCHANGED View!viewVars)
<1>1. UNCHANGED <<vars, stored>> /\ phase = "serving"
  BY DEF FindContext, Admits, Ready, In
<1>2. PICK h : h = call[c] /\ h.pc = "entered"
  BY DEF FindContext, Admits, Ready, In
<1>3. /\ IsRequest(h.req) /\ Deliverable(h.req) /\ h.at = namer(h.req.path) /\ DOMAIN h = Fields
  BY <1>2, HandlerKnows
<1>4. h.req.op = "setxattr" /\ StoresContext(h.req) /\ h.at # NULL /\ Permits(h.req, h.at)
  BY <1>2 DEF FindContext, Admits, R, S
<1>5. CASE phase' = "ended" /\ UNCHANGED call
  <2>1. AskInv' /\ in' = in /\ Asked' = Asked /\ Shown' = Shown /\ Stored' = Stored
    BY <1>1, <1>5, NothingMoves
  <2>2. State = "open" /\ State' = "closed"
    BY <1>1, <1>5 DEF State
  <2>3. View!Storing
    BY <1>2, <1>4, StoringSeen
  <2> QED BY <2>1, <2>2, <2>3, ViewCloses
<1>6. ASSUME phase' = phase, NEW err \in {"SHORT", "OK"}, Finish(c, Err(err))
      PROVE  AskInv' /\ View!Answer(c)
  <2>1. PICK reply : reply = Err(err)
    OBVIOUS
  <2>2. View!IsAnswer(h.req, Seeing(reply)) /\ reply.err # "none"
    BY <1>3, <1>4, <2>1, StoreAnswers
  <2>3. Finish(c, reply)
    BY <1>6, <2>1
  <2> QED BY <1>1, <1>2, <1>6, <2>2, <2>3, GivesAnswer
<1>7. ASSUME phase' = phase, NEW t, call' = [call EXCEPT ![c].pc = "storing", ![c].reg = t]
      PROVE  AskInv' /\ UNCHANGED View!viewVars
  <2>1. PICK g : g = [h EXCEPT !.pc = "storing", !.reg = t]
    OBVIOUS
  <2>2. call' = [call EXCEPT ![c] = g]
    BY <1>2, <1>7, <2>1
  <2>3. g.pc = "storing" /\ g.req = h.req /\ g.at = h.at /\ g.reply = h.reply
    BY <1>3, <2>1 DEF Fields
  <2> QED BY <1>1, <1>2, <1>4, <1>7, <2>2, <2>3, GoesOn
<1> QED BY <1>5, <1>6, <1>7 DEF FindContext

\* A parameter that is stored to is something stored.
LEMMA StoreLeaves ==
  ASSUME NEW s, NEW v, Store(s, v)
  PROVE  stored' # <<>>
<1>1. s \in DOMAIN stored'
  BY DEF Store
<1>2. DOMAIN <<>> = {}
  OBVIOUS
<1> QED BY <1>1, <1>2

\* The two halves of a storing: the view is spoilt by the first.
LEMMA StoreShows ==
  ASSUME ServeInv, AskInv, Built, NEW c \in Clients, StoreStr(c) \/ StoreSize(c)
  PROVE  AskInv' /\ (View!Answer(c) \/ View!Spoil)
<1>1. UNCHANGED <<vars, phase>> /\ phase = "serving"
  BY DEF StoreStr, StoreSize, In
<1>2. PICK h : h = call[c] /\ h.pc \in {"storing", "sizing"}
  BY DEF StoreStr, StoreSize, In
<1>3. /\ IsRequest(h.req) /\ Deliverable(h.req) /\ h.at = namer(h.req.path) /\ DOMAIN h = Fields
      /\ HandlerOK(h) /\ AskOK(h) /\ DOMAIN call = Clients
  BY <1>2, HandlerKnows
<1>4. h.req.op = "setxattr" /\ StoresContext(h.req) /\ h.at # NULL /\ Permits(h.req, h.at)
  BY <1>2, <1>3 DEF HandlerOK, AskOK, StoresContext
<1>5. stored' # <<>>
  <2>1. \E s, v : Store(s, v)
    BY Zenon DEF StoreStr, StoreSize
  <2> QED BY <2>1, StoreLeaves
<1>6. CASE StoreStr(c)
  <2>1. PICK g : g = [h EXCEPT !.pc = "sizing"]
    OBVIOUS
  <2>2. call' = [call EXCEPT ![c] = g]
    BY <1>2, <1>6, <2>1 DEF StoreStr, Goto
  <2>3. g.pc = "sizing" /\ g.req = h.req /\ g.at = h.at /\ g.reply = h.reply
    BY <1>3, <2>1 DEF Fields
  <2>4. AskOK(g)
    BY <1>2, <1>3, <2>3 DEF AskOK
  <2>5. AskInv'
    BY <1>1, <1>3, <1>5, <2>2, <2>3, <2>4, OneAsks
  <2>6. Asked' = Asked /\ Shown' = Shown
    <3>1. \A d \in Clients : call'[d].req = call[d].req /\ call'[d].reply = call[d].reply
      BY <1>2, <1>3, <2>2, <2>3
    <3>2. \A d \in Clients : Seeing(call[d].reply)' = Seeing(call[d].reply)
      BY <3>1 DEF Seeing
    <3> QED BY <3>1, <3>2 DEF Asked, Shown
  <2>7. State = "open" /\ State' = State /\ in' = in /\ Stored' = TRUE
    BY <1>1, <1>5 DEF State, Stored, vars
  <2>8. View!Storing
    BY <1>2, <1>4, StoringSeen
  <2> QED BY <2>5, <2>6, <2>7, <2>8, ViewSpoils
<1>7. CASE StoreSize(c)
  <2>1. h.pc = "sizing" /\ stored # <<>>
    BY <1>2, <1>7 DEF StoreSize, In, AskInv
  <2>2. PICK reply : reply = Err("OK")
    OBVIOUS
  <2>3. View!IsAnswer(h.req, Seeing(reply)) /\ reply.err # "none"
    BY <1>3, <1>4, <2>2, StoreAnswers
  <2>4. Finish(c, reply)
    BY <1>7, <2>2 DEF StoreSize, OK
  <2> QED BY <1>1, <1>2, <1>5, <2>1, <2>3, <2>4, GivesAnswer
<1> QED BY <1>6, <1>7

\* A request arrives.
LEMMA ReceiveShows ==
  ASSUME ServeInv, AskInv, Built, NEW c \in Clients, Receive(c)
  PROVE  AskInv' /\ View!Ask(c)
<1>1. UNCHANGED <<vars, phase, stored>> /\ phase = "serving" /\ call[c].pc = "idle"
  BY DEF Receive, In
<1>2. PICK r, at, todo : /\ r \in Asks(in) /\ Deliverable(r)
                         /\ call' = [call EXCEPT ![c] = [Idle EXCEPT !.pc = "entered", !.req = r, !.at = at,
                                                                 !.todo = todo]]
  BY DEF Receive
<1>3. PICK g : g = [Idle EXCEPT !.pc = "entered", !.req = r, !.at = at, !.todo = todo]
  OBVIOUS
<1>4. g.pc = "entered" /\ g.req = r /\ g.reply = NoReply
  BY <1>3 DEF Idle
<1>5. call' = [call EXCEPT ![c] = g]
  BY <1>2, <1>3
<1>6. DOMAIN call = Clients /\ AskOK(call[c])
  BY DEF ServeInv, AskInv
<1>7. AskOK(g)
  BY <1>2, <1>4 DEF AskOK
<1>8. AskInv'
  <2>1. UNCHANGED vars /\ (stored' = stored \/ stored' # <<>>) /\ g.pc # "sizing"
    BY <1>1, <1>4
  <2> QED BY <1>5, <1>6, <1>7, <2>1, OneAsks
<1>9. call[c].req = Idle.req /\ call[c].reply = NoReply
  BY <1>1, <1>6 DEF AskOK
<1>10. Asked' = [Asked EXCEPT ![c] = r] /\ Asked'[c] = r /\ Asked[c] = Idle.req
  BY <1>4, <1>5, <1>6, <1>9, MoveShown
<1>11. Shown' = Shown
  <2>1. \A d \in Clients : call'[d].reply = call[d].reply
    BY <1>4, <1>5, <1>6, <1>9
  <2>2. \A d \in Clients : Seeing(call[d].reply)' = Seeing(call[d].reply)
    BY <2>1 DEF Seeing
  <2> QED BY <2>2 DEF Shown
<1>12. State = "open" /\ State' = State /\ in' = in /\ Stored' = Stored
  BY <1>1 DEF State, Stored, vars
<1>13. View!Allowed(r)
  <2>1. IsRequest(r)
    BY <1>2, ServeAssumption DEF Built, Mounted, IInv, PoolInv
  <2> QED BY <1>2, <2>1, AllowedIs
<1>14. Asked[c].op = "none"
  BY <1>10 DEF Idle
<1> QED BY <1>2, <1>8, <1>10, <1>11, <1>12, <1>13, <1>14, ViewAsks

\* An answer is delivered.
LEMMA DeliverShows ==
  ASSUME ServeInv, AskInv, Built, NEW c \in Clients, Deliver(c)
  PROVE  AskInv' /\ View!Forget(c)
<1>1. UNCHANGED <<vars, phase, stored>> /\ call[c].pc = "done" /\ call' = [call EXCEPT ![c] = Idle]
  BY DEF Deliver, In
<1>2. DOMAIN call = Clients /\ AskOK(call[c])
  BY DEF ServeInv, AskInv
<1>3. AskOK(Idle) /\ Idle.pc # "sizing"
  BY DEF AskOK, Idle
<1>4. AskInv'
  <2>1. UNCHANGED vars /\ (stored' = stored \/ stored' # <<>>)
    BY <1>1
  <2> QED BY <1>1, <1>2, <1>3, <2>1, OneAsks
<1>5. /\ Asked' = [Asked EXCEPT ![c] = Idle.req] /\ Shown' = [Shown EXCEPT ![c] = Seeing(Idle.reply)]
      /\ Shown[c] = Seeing(call[c].reply)
  BY <1>1, <1>2, MoveShown
<1>6. Shown[c].err # "none"
  BY <1>1, <1>2, <1>5 DEF AskOK, Seeing
<1>7. Idle.req = View!NoRequest
  BY DEF Idle, View!NoRequest
<1>8. Seeing(Idle.reply) = View!NoAnswer
  BY ErrShown DEF Idle, NoReply, View!NoAnswer
<1>9. State' = State /\ in' = in /\ Stored' = Stored
  BY <1>1 DEF State, Stored, vars
<1> QED BY <1>4, <1>5, <1>6, <1>7, <1>8, <1>9, ViewForgets

\* No builder changes what the resource manager has replied.
LEMMA InputsStay ==
  ASSUME Build
  PROVE  in' = in
<1>1. Exit => in' = in
  BY DEF Exit
<1>2. \A sev : Fail(sev) => in' = in
  BY <1>1 DEF Fail
<1>3. MkFsRoot \/ Refuse \/ Provision \/ RefuseAttr => in' = in
  BY <1>1, <1>2, Zenon DEF MkFsRoot, Refuse, Provision, RefuseAttr
<1>4. MkAttr \/ CastChild \/ ChildBuilt \/ Return => in' = in
  BY Zenon DEF MkAttr, CastChild, ChildBuilt, Return
<1>5. CastTwin \/ ChildFails => in' = in
  BY <1>1, <1>2, Zenon DEF CastTwin, ChildFails
<1> QED BY <1>3, <1>4, <1>5 DEF Build

\* What main() does before it serves and after.
LEMMA MainShows ==
  ASSUME ServeInv, StatfsInv, AskInv, Start \/ Unmount \/ Over \/ UNCHANGED serveVars
  PROVE  AskInv' /\ (View!Open \/ View!Close \/ UNCHANGED View!viewVars)
<1>1. UNCHANGED <<stored, call>>
  BY DEF Start, BuildTree, Prevstate, RmfsInit, Unmount, Over, super, serveVars
<1>2. CASE BuildTree
  <2>1. phase' = phase /\ phase = "mk_fs" /\ in' = in
    BY <1>2, InputsStay DEF BuildTree
  <2>2. \A c \in Clients : call[c].pc = "idle"
    BY <2>1 DEF StatfsInv
  <2>3. \A h : h.pc = "idle" /\ AskOK(h) => AskOK(h)'
    BY DEF AskOK
  <2>4. AskInv'
    BY <1>1, <2>2, <2>3 DEF AskInv
  <2>5. Asked' = Asked /\ Shown' = Shown /\ Stored' = Stored
    BY <1>1 DEF Asked, Shown, Stored, Seeing
  <2>6. State' = State
    BY <2>1 DEF State
  <2> QED BY <2>1, <2>4, <2>5, <2>6, ViewStays
<1>3. CASE UNCHANGED vars
  <2>1. AskInv' /\ in' = in /\ Asked' = Asked /\ Shown' = Shown /\ Stored' = Stored
    BY <1>1, <1>3, NothingMoves
  <2>2. CASE Prevstate \/ Over \/ UNCHANGED serveVars
    <3>1. State' = State
      BY <2>2 DEF Prevstate, Over, serveVars, State
    <3> QED BY <2>1, <3>1, ViewStays
  <2>3. CASE RmfsInit
    <3>1. State = "waiting" /\ State' = "open"
      BY <2>3 DEF RmfsInit, State
    <3> QED BY <2>1, <3>1, ViewOpens
  <2>4. CASE Unmount
    <3>1. State = "open" /\ State' = "closed" /\ \A c \in Clients : call[c].pc = "idle"
      BY <2>4 DEF Unmount, State
    <3>2. \A c \in Clients : Asked[c].op = "none"
      <4>1. \A c \in Clients : call[c].req = Idle.req
        BY <3>1 DEF AskInv, AskOK
      <4>2. Idle.req.op = "none"
        BY DEF Idle
      <4> QED BY <4>1, <4>2 DEF Asked
    <3> QED BY <2>1, <3>1, <3>2, ViewCloses
  <2>5. CASE BuildTree
    BY <1>2, <2>5
  <2> QED BY <2>2, <2>3, <2>4, <2>5 DEF Start
<1> QED BY <1>2, <1>3 DEF Start, Prevstate, RmfsInit, Unmount, Over, serveVars

\* Every step of the program is a step of the view, or changes nothing of it.
LEMMA NextShows ==
  ASSUME IInv, TreeInv, MountInv, ClusterNamed, FillInv, ShapeInv, MountAccounted,
         ServeInv, StatfsInv, AskInv, [ServeNext]_serveVars
  PROVE  AskInv' /\ [View!ViewNext]_(View!viewVars)
<1>1. CASE Start \/ Unmount \/ Over \/ UNCHANGED serveVars
  BY <1>1, MainShows DEF View!ViewNext
<1>2. ASSUME NEW c \in Clients, Receive(c) \/ Step(c)
      PROVE  AskInv' /\ [View!ViewNext]_(View!viewVars)
  <2>1. phase = "serving"
    BY <1>2 DEF Receive, Step, TakeLoad, AtLock, TakeStore, DropLoad, DropStore, Handle, ReadCheck,
                ReadCopy, FindContext, StoreStr, StoreSize, Deliver, Ready, Admits, In
  <2>2. Built
    BY <2>1 DEF Built, Mounted, ServeInv
  <2>3. AskInv' /\ (\/ View!Ask(c) \/ View!Answer(c) \/ View!Forget(c)
                    \/ View!Close \/ View!Spoil \/ UNCHANGED View!viewVars)
    <3>1. CASE Receive(c) \/ Deliver(c)
      BY <2>2, <3>1, ReceiveShows, DeliverShows
    <3>2. CASE TakeLoad(c) \/ TakeStore(c) \/ DropLoad(c) \/ DropStore(c)
      BY <2>2, <3>2, SectionShows
    <3>3. CASE Handle(c)
      BY <2>2, <3>3, HandleShows
    <3>4. CASE ReadCheck(c) \/ ReadCopy(c)
      BY <2>2, <3>4, ReadShows
    <3>5. CASE FindContext(c)
      BY <2>2, <3>5, FindShows
    <3>6. CASE StoreStr(c) \/ StoreSize(c)
      BY <2>2, <3>6, StoreShows
    <3> QED BY <1>2, <3>1, <3>2, <3>3, <3>4, <3>5, <3>6 DEF Step
  <2> QED BY <2>3 DEF View!ViewNext
<1> QED BY <1>1, <1>2 DEF ServeNext

\* At the start nobody has asked for anything.
LEMMA InitShows == ServeInit => AskInv /\ View!ViewInit
<1> SUFFICES ASSUME ServeInit PROVE AskInv /\ View!ViewInit
  OBVIOUS
<1>1. in \in Inputs /\ phase = "mk_fs" /\ stored = <<>> /\ call = [c \in Clients |-> Idle]
  BY DEF ServeInit, Init
<1>2. Idle.pc = "idle" /\ Idle.reply = NoReply /\ Idle.req = View!NoRequest
  BY DEF Idle, View!NoRequest
<1>3. AskInv
  BY <1>1, <1>2 DEF AskInv, AskOK
<1>4. State = "waiting" /\ Stored = FALSE
  BY <1>1 DEF State, Stored
<1>5. Asked = [c \in Clients |-> View!NoRequest]
  BY <1>1, <1>2 DEF Asked
<1>6. Shown = [c \in Clients |-> View!NoAnswer]
  <2>1. Seeing(NoReply) = View!NoAnswer
    BY ErrShown DEF NoReply, View!NoAnswer
  <2>2. \A c \in Clients : call[c].reply = NoReply
    BY <1>1, <1>2
  <2> QED BY <2>1, <2>2 DEF Shown
<1>7. View!ViewInit
  BY <1>1, <1>4, <1>5, <1>6, Zenon DEF View!ViewInit, Asked, Shown, State, Stored, Seeing
<1> QED BY <1>3, <1>7

\* The file system that is mounted shows the resource manager's replies of the start:
\* whatever trees can be mounted, whatever is asked of them and however the handlers
\* overlap, every step of the program is a step of ClusterView, or shows nothing.
THEOREM Shows == ServeSpec => ShowsInputs
<1>1. ServeSpec => [](ClusterNamed /\ FillInv /\ ShapeInv /\ MountAccounted)
  BY ServeRunsMkFs, ClusterInvariant, FillInvariant, ShapeInvariant, Accounted, PTL
<1>2. ServeInit => StatfsInv
  BY DEF ServeInit, StatfsInv, Idle
<1>3. ServeSpec => []StatfsInv
  BY <1>2, NextStatfs, ServedTree, ServeInvariant, PTL DEF ServeSpec
<1>4. ServeInit => AskInv /\ View!ViewInit
  BY InitShows
<1>5. /\ IInv /\ TreeInv /\ MountInv /\ ClusterNamed /\ FillInv /\ ShapeInv /\ MountAccounted
      /\ ServeInv /\ StatfsInv /\ AskInv /\ [ServeNext]_serveVars
      => AskInv' /\ [View!ViewNext]_(View!viewVars)
  BY NextShows
<1>6. ServeSpec => View!ViewInit /\ [][View!ViewNext]_(View!viewVars)
  BY <1>1, <1>3, <1>4, <1>5, ServedTree, ServeInvariant, PTL DEF ServeSpec
<1> QED BY <1>6 DEF ShowsInputs, View!ViewSpec
=============================================================================
