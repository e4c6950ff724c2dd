-------------------------------- MODULE MkFs --------------------------------
(***************************************************************************)
(* mk_fs(): the recursive construction of the rnode tree.                  *)
(*                                                                         *)
(* A builder (rn_mkfsroot, rn_mkcname, rn_mkpartd ...) checks what the     *)
(* resource manager gave it, provisions a block for its children and a     *)
(* guard, recasts its own node to point to the block, and casts the        *)
(* children one by one; rn_cast() of a fresh child calls the child's own   *)
(* builder.  The call stack is a variable, so that every intermediate      *)
(* state of the tree is a state, and so is every return of NULL and what   *)
(* the caller does with it.                                                *)
(*                                                                         *)
(* ErrExit() does not always end the process: a warning returns, and so    *)
(* does the first failed assertion of a run without Debug.  A builder may  *)
(* then give up, or go on, above a half-built subtree.                     *)
(*                                                                         *)
(* rn_provision() is the grant that RnodePool implements: the next slots   *)
(* of the pool, or the end of the process.                                 *)
(***************************************************************************)
EXTENDS Integers, Sequences, FiniteSets

CONSTANTS
    BaseAlloc,   \* RN_BASEALLOC
    Inputs       \* configurations, and replies of the resource manager

NoName == "(null)"   \* the nm of a slot that nothing was cast into
\* What rn_cast() names a node: given no name, it takes that of the type's row.
NodeNames == STRING \ {NoName}

\* A reply: no message, one with last_update = 0, one without an array, or the
\* names of its records.
IsReply(msg) == /\ msg.state \in {"missing", "stale", "noarray", "array"}
                /\ msg.recs \in Seq(NodeNames)
                /\ msg.state # "array" => msg.recs = <<>>

ASSUME BaseAllocAssumption == BaseAlloc \in Nat \ {0}
ASSUME InputsAssumption ==
    \A x \in Inputs :
        /\ x.debug \in BOOLEAN      \* the Debug parameter
        /\ x.maxalloc \in Nat       \* rn_maxalloc
        /\ x.cname \in NodeNames    \* the value of ClusterName
        /\ x.alloc \in BOOLEAN      \* what rn_mknstate() takes for a node state
        /\ x.badattr \subseteq STRING  \* types with an attribute typ_check() refuses
        /\ IsReply(x.part) /\ IsReply(x.node) /\ IsReply(x.job) /\ IsReply(x.step)

VARIABLES
    in,          \* the inputs of this run
    rn,          \* the provisioned slots of the pool: slot -> node
    nxt_avail,
    stack,       \* the running builders, the innermost last
    ret,         \* what the last rn_cast() returned to the innermost builder
    caught_in_a_loop,
    p_fsroot, p_jobd,  \* of rn_paramtab
    status

vars == <<in, rn, nxt_avail, stack, ret, caught_in_a_loop, p_fsroot, p_jobd, status>>
pool == <<rn, nxt_avail>>
roots == <<p_fsroot, p_jobd>>

NULL == 0
Pending == -1        \* no rn_cast() has returned since the builder looked

-----------------------------------------------------------------------------
(* The tables of rn_tab.c *)

\* rn_type_t: the number of a type is its place here, less one.
RNodeType ==
    <<"PROVISION", "GUARD", "ROOT", "CLUSTER", "PARTS", "PARTNAME", "NODES",
      "NODENAME", "JOBS", "JOBID", "JOBSTEPS", "JOBSTEPID", "ALLOCJOB",
      "NODESTATE", "ATTRIBUTES", "ATTRIBUTE", "CONTROL", "CONTEXT", "KNOB",
      "SIGNATURE">>

\* rnode_buildtab[]: the types of its rows, in order.
rnode_buildtab ==
    <<"PROVISION", "GUARD", "ROOT", "CLUSTER", "PARTS", "PARTNAME", "NODES",
      "NODENAME", "JOBS", "JOBID", "JOBSTEPS", "JOBSTEPID", "NODESTATE",
      "ALLOCJOB", "ATTRIBUTES", "ATTRIBUTE", "CONTROL", "CONTEXT", "KNOB",
      "SIGNATURE">>

RTypes == {RNodeType[j] : j \in DOMAIN RNodeType}
TypeNumber(rtype) == (CHOOSE j \in DOMAIN RNodeType : RNodeType[j] = rtype) - 1

\* The row rn_cast() takes the builder, the name and the flags from.
Row(rtype) == rnode_buildtab[TypeNumber(rtype) + 1]

AttrSubtypes == {"CONTEXT", "KNOB", "SIGNATURE"}
AttrTypes == AttrSubtypes \cup {"ATTRIBUTE"}
FileTypes == AttrTypes \cup {"ALLOCJOB"}
IsDir(rtype) == Row(rtype) \notin FileTypes

\* The control commands of a type.
CtlTab ==
    [ROOT  |-> <<[nm |-> "check",      fn |-> "rn_ctlroot_umount"],
                 [nm |-> "effluviate", fn |-> "rn_ctlroot_effluviate"],
                 [nm |-> "umount",     fn |-> "rn_ctlroot_check"],
                 [nm |-> "write",      fn |-> "rn_ctlroot_write"]>>,
     JOBID |-> <<[nm |-> "sign",       fn |-> "rn_ctljobid_sign"],
                 [nm |-> "read",       fn |-> "rn_ctljobid_read"],
                 [nm |-> "write",      fn |-> "rn_ctljobid_write"]>>]

\* attr_desc.table of a type, cut down to one parameter of each kind that the
\* builders tell apart and in the table's order.
AttrTab ==
    [ROOT      |-> <<[nm |-> "BackingStore", typ |-> "PATH"],
                     [nm |-> "context", typ |-> "CONTEXT"]>>,
     CLUSTER   |-> <<[nm |-> "SlurmctldTimeout", typ |-> "SLURMTMOUT"]>>,
     PARTNAME  |-> <<[nm |-> "name", typ |-> "ALPHANUM"],
                     [nm |-> "state_up", typ |-> "NODESTATE"],
                     [nm |-> "total_cpus", typ |-> "NUMERIC"]>>,
     NODENAME  |-> <<[nm |-> "node_state", typ |-> "NODESTATE"],
                     [nm |-> "allocjob", typ |-> "ALLOCJOB"]>>,
     JOBID     |-> <<[nm |-> "job_id", typ |-> "NUMERIC"],
                     [nm |-> "context", typ |-> "CONTEXT"],
                     [nm |-> "signature", typ |-> "SIGNATURE"]>>,
     JOBSTEPID |-> <<[nm |-> "step_id", typ |-> "NUMERIC"]>>]

\* The types whose attributes collectslurm_attr() reads from a record, and the
\* parameters it does not read because they are local.
RecordTypes == {"PARTNAME", "NODENAME", "JOBID", "JOBSTEPID"}
LocalTypes == {"ALLOCJOB", "CONTEXT", "SIGNATURE"}

\* p2r_typ_convtab[] and p2r_typ_rm_convtab[]; RN_NONE becomes RNF_ATTRIBUTE.
p2r_typ_convtab(typ) ==
    IF typ \in {"CONTEXT", "SIGNATURE", "ALLOCJOB"} THEN typ ELSE "ATTRIBUTE"

-----------------------------------------------------------------------------
(* Nodes and the pool *)

\* typ is p_cp->typ.  dyn is p_dyntyp: NULL, the index of a record, or the
\* function of a knob; an array and its first record have one address, 1.
\* n counts the children at slots children, children + 1, ...
Guard(parent) ==
    [rtype |-> "GUARD", gen |-> 0, nm |-> NoName, typ |-> "NONE", dyn |-> NULL,
     parent |-> parent, children |-> NULL, n |-> 0, isdir |-> FALSE]

\* calcul_rnodepool(): the slots estimated for the partitions, of all nodes
\* each.  n & (n - 1) is n without its lowest bit.
PowersOfTwo == {2 ^ k : k \in 0 .. 20}
LowestBit(n) == CHOOSE b \in PowersOfTwo : n % b = 0 /\ n % (2 * b) # 0
calcul_rnodepool(x) ==
    LET n[j \in 0 .. Len(x.part.recs)] ==
            IF j = 0 THEN 0
            ELSE LET sum == n[j - 1] + Len(x.node.recs)
                 IN sum + IF sum <= 2 THEN 4 ELSE 2 * (sum - LowestBit(sum))
    IN n[Len(x.part.recs)]

\* rn_poolinit(): rn_maxalloc, given the estimate.
RNODEPOOL_DEFAULT_MINSIZE == 256
rn_poolinit(estimate) ==
    (IF estimate <= RNODEPOOL_DEFAULT_MINSIZE THEN RNODEPOOL_DEFAULT_MINSIZE ELSE estimate)
    - BaseAlloc

\* A slip: one slot past the end of the pool is accepted.
RoomPastEnd(n) == nxt_avail - BaseAlloc + n <= in.maxalloc + 1

\* A slip: the last slot of the pool is refused.
RoomShort(n) == nxt_avail - BaseAlloc + n < in.maxalloc

Room(n) == nxt_avail - BaseAlloc + n <= in.maxalloc

\* A slip: the loop over a block runs once too often.
ProvisionedOneMore(n, parent) ==
    [s \in BaseAlloc .. (nxt_avail + n) |->
        IF s < nxt_avail THEN rn[s] ELSE Guard(parent)]

\* The pool with n more slots; parent is what the provisioner was told.
Provisioned(n, parent) ==
    [s \in BaseAlloc .. (nxt_avail + n - 1) |->
        IF s < nxt_avail THEN rn[s] ELSE Guard(parent)]

-----------------------------------------------------------------------------
(* ErrExit() *)

\* A slip: every assertion returns, not the first only.
ReturnsAgain(sev) == sev = "WARN" \/ (sev = "ASSERT" /\ ~in.debug)

\* Whether it returns.  The value of Debug is compared with 0.
Returns(sev) ==
    sev = "WARN" \/ (sev = "ASSERT" /\ ~in.debug /\ ~caught_in_a_loop)

Catch(sev) == caught_in_a_loop' = (caught_in_a_loop \/ sev = "ASSERT")

Exit == status' = "exited"
          /\ UNCHANGED <<in, pool, stack, ret, caught_in_a_loop, roots>>

-----------------------------------------------------------------------------
(* The stack.  kid = 0 before the builder has provisioned its block; next is *)
(* where it casts its next child.                                            *)

Frame(at) == [at |-> at, blk |-> NULL, next |-> NULL, kid |-> 0]
Top == stack[Len(stack)]
Below == SubSeq(stack, 1, Len(stack) - 1)
SetTop(frame) == stack' = Append(Below, frame)

Running == status = "building" /\ stack # <<>>
Entered == Running /\ Top.kid = 0
Casting == Running /\ Top.kid > 0 /\ ret = Pending

\* A builder reports an error and returns NULL.  mk_fs() takes NULL from the
\* root's builder for an internal error.
Fail(sev) ==
    IF Returns(sev) /\ Below # <<>> THEN
        /\ Catch(sev)
        /\ stack' = Below
        /\ ret' = NULL
        /\ UNCHANGED <<in, pool, roots, status>>
    ELSE Exit

-----------------------------------------------------------------------------
(* What the builders check, and the children they cast.  onNull is what a  *)
(* builder does when rn_cast() returns NULL: it asserts or warns, and then *)
(* returns NULL, or goes on.                                               *)

Child(rtype, nm, typ, dyn, onNull) ==
    [rtype |-> rtype, nm |-> nm, typ |-> typ, dyn |-> dyn, onNull |-> onNull]
Dir(rtype, nm, dyn, onNull) == Child(rtype, nm, "NONE", dyn, onNull)

\* One child of type rtype for every record of a reply.
OfRecords(msg, rtype, onNull) ==
    [j \in DOMAIN msg.recs |-> Dir(rtype, msg.recs[j], j, onNull)]

Kind(msg) ==
    IF msg.state = "array" /\ msg.recs = <<>> THEN "empty" ELSE msg.state

\* rn_mkfsroot() casts slots 1, 3 and 2 of its block, in this order.
RootChildren ==
    <<Dir("ATTRIBUTES", "attributes", NULL, "ASSERT"),
      Dir("CLUSTER", "ClusterName", 1, "WARN"),
      Dir("CONTROL", "control", NULL, "ASSERT")>>
RootSlots(blk) == <<blk, blk + 2, blk + 1>>

ClusterChildren ==
    <<Dir("ATTRIBUTES", "attributes", 1, "ASSERT"),
      Dir("PARTS", "partitions", NULL, "ASSERT"),
      Dir("JOBS", "jobs", NULL, "WARN")>>

PartsCheck == [missing |-> "ASSERT", stale |-> "ASSERT", noarray |-> "ASSERT",
               empty |-> "OK", array |-> "OK"]
\* A slip: a partition that fails is skipped, as a job is.
PartsChildrenSkip == OfRecords(in.part, "PARTNAME", "CONTINUE")

PartsChildren == OfRecords(in.part, "PARTNAME", "ASSERT")
\* A slip: the record is taken from the directory of all partitions, as a
\* job's is.
PartChildrenFirst(s) ==
    <<Dir("NODES", "nodes", NULL, "ASSERT"),
      Dir("ATTRIBUTES", "attributes", rn[rn[s].parent].dyn, "ASSERT")>>

PartChildren(s) ==
    <<Dir("NODES", "nodes", NULL, "ASSERT"),
      Dir("ATTRIBUTES", "attributes", rn[s].dyn, "ASSERT")>>

NodesCheck == [missing |-> "ASSERT", stale |-> "ASSERT", noarray |-> "ASSERT",
               empty |-> "OK", array |-> "OK"]
\* Every node of the system, whatever the partition.
NodesChildren == OfRecords(in.node, "NODENAME", "ASSERT")
NodeChildren(s) == <<Dir("ATTRIBUTES", "attributes", rn[s].dyn, "ASSERT")>>

\* The state of a node, and the job it is allocated to.  p_dyntyp points to
\* the node record, whose first bytes are read as the state; "idle" stands for
\* every state but the allocated.
StateChildren(s) ==
    <<Child("ATTRIBUTE", IF in.alloc THEN "alloc" ELSE "idle", "NODESTATE",
            rn[s].dyn, "ASSERT")>>
    \o IF in.alloc
       THEN <<Child("ALLOCJOB", "state", "ALLOCJOB", rn[s].dyn, "ASSERT")>>
       ELSE <<>>

JobsCheck == [missing |-> "ASSERT", stale |-> "ASSERT", noarray |-> "WARN",
              empty |-> "OK", array |-> "OK"]
JobsChildren == OfRecords(in.job, "JOBID", "CONTINUE")
\* The record of a job is taken from the jobs directory.
JobRecord(s) == rn[rn[s].parent].dyn
JobChildren(s) ==
    <<Dir("JOBSTEPS", "jobsteps", NULL, "WARN"),
      Dir("ATTRIBUTES", "attributes", JobRecord(s), "ASSERT"),
      Dir("CONTROL", "control", NULL, "ASSERT")>>

StepsCheck == [missing |-> "ASSERT", stale |-> "ASSERT", noarray |-> "ASSERT",
               empty |-> "WARN", array |-> "OK"]
\* Every step of the system, whatever the job.
StepsChildren == OfRecords(in.step, "JOBSTEPID", "ASSERT")
StepChildren(s) == <<Dir("ATTRIBUTES", "attributes", rn[s].dyn, "ASSERT")>>

\* The attributes and the commands of the parent.
AttrChildren(s) ==
    LET tab == AttrTab[rn[rn[s].parent].rtype]
    IN [j \in DOMAIN tab |-> Child(p2r_typ_convtab(tab[j].typ), tab[j].nm,
                                   tab[j].typ, rn[s].dyn, "ASSERT")]
CtlChildren(s) ==
    LET tab == CtlTab[rn[rn[s].parent].rtype]
    IN [j \in DOMAIN tab |-> Dir("KNOB", tab[j].nm, tab[j].fn, "ASSERT")]

Check(s) ==
    LET row == Row(rn[s].rtype)
    IN CASE row = "PARTS"    -> PartsCheck[Kind(in.part)]
         [] row = "NODES"    -> NodesCheck[Kind(in.node)]
         [] row = "JOBS"     -> JobsCheck[Kind(in.job)]
         [] row = "JOBSTEPS" -> StepsCheck[Kind(in.step)]
         [] OTHER -> "OK"

Children(s) ==
    LET row == Row(rn[s].rtype)
    IN CASE row = "ROOT"       -> RootChildren
         [] row = "CLUSTER"    -> ClusterChildren
         [] row = "PARTS"      -> PartsChildren
         [] row = "PARTNAME"   -> PartChildren(s)
         [] row = "NODES"      -> NodesChildren
         [] row = "NODENAME"   -> NodeChildren(s)
         [] row = "NODESTATE"  -> StateChildren(s)
         [] row = "JOBS"       -> JobsChildren
         [] row = "JOBID"      -> JobChildren(s)
         [] row = "JOBSTEPS"   -> StepsChildren
         [] row = "JOBSTEPID"  -> StepChildren(s)
         [] row = "ATTRIBUTES" -> AttrChildren(s)
         [] row = "CONTROL"    -> CtlChildren(s)
         [] OTHER -> <<>>

-----------------------------------------------------------------------------
(* rn_cast() *)

\* The first cast of a fresh slot.
FirstCast(c, parent) ==
    [rtype |-> c.rtype, gen |-> 1, nm |-> c.nm, typ |-> c.typ, dyn |-> c.dyn,
     parent |-> parent, children |-> NULL, n |-> 0, isdir |-> IsDir(c.rtype)]

\* A slip: the twin check is left out.
NoTwinCheck(parent, nm) == FALSE

\* The twin check walks the parent's block up to the first unnamed slot.
Twin(parent, nm) ==
    LET first == rn[parent].children
    IN first # NULL /\ \E t \in DOMAIN rn :
          /\ t >= first /\ rn[t].nm = nm
          /\ \A u \in first .. t : rn[u].nm # NoName

\* A slip: the guard is counted as a child.
RecastWithGuard(s) ==
    [rn[s] EXCEPT
        !.gen = @ + 1,
        !.nm = IF rn[s].rtype = "CLUSTER" THEN in.cname ELSE @,
        !.dyn = CASE rn[s].rtype \in {"PARTS", "NODES", "JOBS", "JOBSTEPS"} -> 1
                  [] rn[s].rtype = "JOBID" -> JobRecord(s)
                  [] OTHER -> @,
        !.children = nxt_avail,
        !.n = Len(Children(s)) + 1]

\* A slip: the name is not passed again, and a partition gets its row's.
RecastNoName(s) ==
    [rn[s] EXCEPT
        !.gen = @ + 1,
        !.nm = CASE rn[s].rtype = "CLUSTER" -> in.cname
                 [] rn[s].rtype = "PARTNAME" -> "<partition>"
                 [] OTHER -> @,
        !.dyn = CASE rn[s].rtype \in {"PARTS", "NODES", "JOBS", "JOBSTEPS"} -> 1
                  [] rn[s].rtype = "JOBID" -> JobRecord(s)
                  [] OTHER -> @,
        !.children = nxt_avail,
        !.n = Len(Children(s))]

\* A builder's second cast of its own node: the fields it passes anew.
Recast(s) ==
    [rn[s] EXCEPT
        !.gen = @ + 1,
        !.nm = IF rn[s].rtype = "CLUSTER" THEN in.cname ELSE @,
        !.dyn = CASE rn[s].rtype \in {"PARTS", "NODES", "JOBS", "JOBSTEPS"} -> 1
                  [] rn[s].rtype = "JOBID" -> JobRecord(s)
                  [] OTHER -> @,
        !.children = nxt_avail,
        !.n = Len(Children(s))]

-----------------------------------------------------------------------------
(* The steps of a builder *)

Init ==
    /\ in \in Inputs
    /\ rn = [s \in {} |-> Guard(NULL)] /\ nxt_avail = BaseAlloc
    /\ stack = <<>> /\ ret = Pending
    /\ caught_in_a_loop = FALSE
    /\ p_fsroot = NULL /\ p_jobd = NULL
    /\ status = "building"

\* mk_fs() calls rn_mkfsroot(), which provisions its own node with its block
\* and is its own parent.
MkFsRoot ==
    /\ status = "building" /\ stack = <<>>
    /\ IF Room(5) THEN
         LET root == nxt_avail
         IN /\ rn' = [Provisioned(5, NULL) EXCEPT ![root] =
                        [rtype |-> "ROOT", gen |-> 1, nm |-> "MountPoint",
                         typ |-> "NONE", dyn |-> NULL, parent |-> root,
                         children |-> root + 1, n |-> 3, isdir |-> TRUE]]
            /\ nxt_avail' = nxt_avail + 5
            /\ stack' = <<[at |-> root, blk |-> root + 1, next |-> root + 1, kid |-> 1]>>
            /\ UNCHANGED <<in, ret, caught_in_a_loop, roots, status>>
       ELSE Exit

\* The reply is not one to build from.
Refuse ==
    /\ Entered /\ Check(Top.at) # "OK"
    /\ Fail(Check(Top.at))

IsLeaf(s) == Row(rn[s].rtype) \in AttrTypes

\* Provision a block with a guard and recast.  rn_mknstate() does not recast,
\* so its block hangs under no node.  The guards of a cluster, of an attribute
\* directory and of a state keep the parent's parent.
Provision ==
    /\ Entered /\ ~IsLeaf(Top.at) /\ Check(Top.at) = "OK"
    /\ LET s == Top.at
           n == Len(Children(s)) + 1
           up == rn[s].rtype \in {"CLUSTER", "ATTRIBUTES", "ALLOCJOB"}
           block == Provisioned(n, IF up THEN rn[s].parent ELSE s)
       IN IF Room(n) THEN
            /\ rn' = IF Row(rn[s].rtype) = "NODESTATE" THEN block
                     ELSE [block EXCEPT ![s] = Recast(s)]
            /\ nxt_avail' = nxt_avail + n
            /\ SetTop([at |-> s, blk |-> nxt_avail, next |-> nxt_avail, kid |-> 1])
            /\ UNCHANGED <<in, ret, caught_in_a_loop, roots, status>>
          ELSE Exit

\* rn_mkattr() converts the type once more.  A knob has no parameter type and
\* becomes an attribute.  A signature is never computed: rn_getsig() asserts,
\* and when that returns rn_ctljobid_sign() dereferences its NULL.
MkAttr ==
    /\ Entered /\ IsLeaf(Top.at)
    /\ LET s == Top.at
           rtype == p2r_typ_convtab(rn[s].typ)
       IN /\ rn' = [rn EXCEPT ![s] = [rn[s] EXCEPT !.gen = @ + 1, !.rtype = rtype,
                                                   !.isdir = IsDir(rtype)]]
          /\ IF rtype = "SIGNATURE" THEN
               /\ status' = IF Returns("ASSERT") THEN "crashed" ELSE "exited"
               /\ UNCHANGED <<stack, ret>>
             ELSE stack' = Below /\ ret' = s /\ UNCHANGED status
          /\ UNCHANGED <<in, nxt_avail, caught_in_a_loop, roots>>

More == Top.kid <= Len(Children(Top.at))
NextChild == Children(Top.at)[Top.kid]

\* collectslurm_attr() and rn_mkattrd() both assert, and the second assertion
\* is the end.
CollectFails ==
    LET s == Top.at
    IN /\ rn[s].rtype = "ATTRIBUTES"
       /\ rn[rn[s].parent].rtype \in in.badattr \cap RecordTypes
       /\ NextChild.typ \notin LocalTypes

RefuseAttr ==
    /\ Casting /\ More /\ CollectFails
    /\ Exit

CastChild ==
    /\ Casting /\ More /\ ~CollectFails /\ ~Twin(Top.at, NextChild.nm)
    /\ rn' = [rn EXCEPT ![Top.next] = FirstCast(NextChild, Top.at)]
    /\ stack' = Append(stack, Frame(Top.next))
    /\ UNCHANGED <<in, nxt_avail, ret, caught_in_a_loop, roots, status>>

\* A child of that name is there: rn_cast() asserts and returns NULL; the slot
\* has its type but no name.
CastTwin ==
    /\ Casting /\ More /\ ~CollectFails /\ Twin(Top.at, NextChild.nm)
    /\ IF Returns("ASSERT") THEN
         /\ Catch("ASSERT")
         /\ rn' = [rn EXCEPT ![Top.next] =
                     [@ EXCEPT !.gen = 1, !.rtype = NextChild.rtype, !.typ = NextChild.typ]]
         /\ ret' = NULL
         /\ UNCHANGED <<in, nxt_avail, stack, roots, status>>
       ELSE Exit

ChildFails ==
    /\ Running /\ ret = NULL
    /\ IF NextChild.onNull = "CONTINUE" THEN
         /\ SetTop([Top EXCEPT !.kid = @ + 1, !.next = @ + 1])
         /\ ret' = Pending
         /\ UNCHANGED <<in, pool, caught_in_a_loop, roots, status>>
       ELSE Fail(NextChild.onNull)

\* A slip: rn_mkattrd() does not step past the attribute it has cast.
NextSlotStays ==
    LET row == Row(rn[Top.at].rtype)
    IN CASE row = "ROOT" -> RootSlots(Top.blk)[(Top.kid % 3) + 1]
         [] row = "ATTRIBUTES" -> ret
         [] row \in {"CLUSTER", "PARTNAME", "JOBID"} -> ret + 1
         [] OTHER -> Top.next + 1

\* Where the next child goes: the node after the one rn_cast() returned, or
\* after the one it was given.
NextSlot ==
    LET row == Row(rn[Top.at].rtype)
    IN CASE row = "ROOT" -> RootSlots(Top.blk)[(Top.kid % 3) + 1]
         [] row \in {"CLUSTER", "PARTNAME", "JOBID", "ATTRIBUTES"} -> ret + 1
         [] OTHER -> Top.next + 1

ChildBuilt ==
    /\ Running /\ ret > NULL
    /\ SetTop([Top EXCEPT !.kid = @ + 1, !.next = NextSlot])
    /\ ret' = Pending
    /\ p_fsroot' = IF rn[Top.at].rtype \in {"ROOT", "CLUSTER"} /\ Top.kid = 1
                   THEN Top.at ELSE p_fsroot
    /\ UNCHANGED <<in, pool, caught_in_a_loop, p_jobd, status>>

\* All children are cast.  A builder returns its node; rn_mknstate() returns
\* the state it made.
Return ==
    /\ Casting /\ ~More
    /\ stack' = Below
    /\ ret' = IF Row(rn[Top.at].rtype) = "NODESTATE" THEN Top.blk ELSE Top.at
    /\ p_jobd' = IF rn[Top.at].rtype = "JOBS" THEN Top.at ELSE p_jobd
    /\ status' = IF Below = <<>> THEN "mounted" ELSE status
    /\ UNCHANGED <<in, pool, caught_in_a_loop, p_fsroot>>

Ended == status # "building" /\ UNCHANGED vars

Build ==
    \/ MkFsRoot \/ Refuse \/ Provision \/ MkAttr
    \/ RefuseAttr \/ CastChild \/ CastTwin
    \/ ChildFails \/ ChildBuilt \/ Return

Next == Build \/ Ended

Spec == Init /\ [][Next]_vars

\* The process keeps running until it has mounted or ended.
FairSpec == Spec /\ WF_vars(Build)
-----------------------------------------------------------------------------
(* Properties *)

Slots == BaseAlloc .. (nxt_avail - 1)
Named(s) == rn[s].nm # NoName
Dirs == {s \in Slots : rn[s].children # NULL}
Kids(s) == IF rn[s].children = NULL THEN {}
           ELSE rn[s].children .. (rn[s].children + rn[s].n - 1)
\* rmfs_readdir() and namer() walk the children up to the first unnamed one.
Listed(s) == {t \in Kids(s) : \A u \in rn[s].children .. t : Named(u)}

TypeOK ==
    /\ in \in Inputs
    /\ nxt_avail \in Nat /\ nxt_avail - BaseAlloc <= in.maxalloc
    /\ DOMAIN rn = Slots
    /\ \A s \in Slots :
          /\ rn[s].rtype \in RTypes /\ rn[s].gen \in 0 .. 2
          /\ rn[s].parent \in Slots \cup {NULL}
          /\ rn[s].children \in Slots \cup {NULL} /\ rn[s].n \in Nat
          /\ rn[s].isdir \in BOOLEAN
    /\ \A k \in DOMAIN stack : stack[k].at \in Slots
    /\ ret \in Slots \cup {NULL, Pending}
    /\ caught_in_a_loop \in BOOLEAN
    /\ p_fsroot \in Slots \cup {NULL} /\ p_jobd \in Slots \cup {NULL}
    /\ status \in {"building", "mounted", "exited", "crashed"}

\* The two directions of the tree agree at every moment of its construction,
\* although they are written by different builders: a child's parent pointer
\* names the directory whose block it is in, blocks do not overlap, and the
\* slot after every block stays the unnamed guard, the only thing that ends the
\* walk of the twin check.  Only a node's state hangs under no directory.
TreeWellFormed ==
    /\ \A s \in Slots : Named(s) /\ rn[s].rtype # "ROOT" =>
          \/ s \in Kids(rn[s].parent)
          \/ rn[rn[s].parent].rtype = "ALLOCJOB"
    /\ \A d \in Dirs :
          LET guard == rn[d].children + rn[d].n
          IN /\ \A s \in Kids(d) : s > d /\ (Named(s) => rn[s].parent = d)
             /\ \A e \in Dirs \ {d} :
                   rn[e].children > guard \/ rn[e].children + rn[e].n < rn[d].children
             /\ guard \in Slots /\ rn[guard].rtype = "GUARD" /\ ~Named(guard)

\* Every cast that a builder makes goes to a fresh slot of the builder's own
\* block, although most builders find the slot by adding one to whatever the
\* previous rn_cast() returned.
CastIntoOwnBlock ==
    Casting /\ More =>
        /\ Top.next \in Top.blk .. (Top.blk + Len(Children(Top.at)) - 1)
        /\ rn[Top.next] = Guard(rn[Top.next].parent)

\* A directory made for a record has the record's name, place and pointer,
\* and the attributes below it are read from that same record.
RecordsMatch ==
    LET Of(type, msg) ==
            \A s \in Slots : rn[s].rtype = type /\ Named(s) =>
                LET j == s - rn[rn[s].parent].children + 1
                IN rn[s].dyn = j /\ rn[s].nm = msg.recs[j]
    IN /\ Of("PARTNAME", in.part) /\ Of("NODENAME", in.node) /\ Of("JOBSTEPID", in.step)
       /\ \A s \in Slots :
             LET up == rn[s].parent
             IN Named(s) /\ rn[s].rtype \in AttrTypes /\ rn[up].rtype = "ATTRIBUTES"
                /\ rn[rn[up].parent].rtype \in RecordTypes
                => rn[s].dyn = rn[rn[up].parent].dyn

\* A mounted tree is complete outside the directories of jobs: p_jobd is its
\* jobs directory, and at most one entry is missing, a job, and then an
\* assertion has failed on the way.
MountComplete ==
    status = "mounted" =>
        LET missing == {s \in Slots :
                \E d \in Dirs : s \in Kids(d) /\ ~Named(s) /\ rn[d].rtype # "JOBID"}
        IN /\ p_jobd \in Kids(p_fsroot) /\ rn[p_jobd].rtype = "JOBS"
           /\ missing \subseteq Kids(p_jobd)
           /\ \A s, t \in missing : s = t /\ caught_in_a_loop

\* No two entries that a listing of a directory shows have the same name.
\* The root is left out: its cluster is renamed behind rn_cast()'s twin check.
ListedDistinct ==
    \A d \in Dirs : rn[d].rtype # "ROOT" =>
        \A s, t \in Listed(d) : rn[s].nm = rn[t].nm => s = t

\* What is cast stays: a named node keeps its name, parent, parameter type and
\* block for ever, whatever fails later.  Only the cluster is renamed, once,
\* and only a knob changes its type.
CastOnce ==
    [][\A s \in Slots : Named(s) =>
         LET old == rn[s] new == rn'[s]
         IN /\ old.nm # new.nm => old.rtype = "CLUSTER" /\ old.children = NULL
            /\ old.rtype # new.rtype => old.rtype = "KNOB" /\ new.rtype = "ATTRIBUTE"
            /\ new.parent = old.parent /\ new.typ = old.typ
            /\ old.children # NULL => new.children = old.children /\ new.n = old.n]_vars

(* When mk_fs() mounts, and how many slots it takes, said of the inputs.     *)

Block(n) == n + 1
NodeNeeds == Block(1) + Block(Len(AttrTab["NODENAME"])) + Block(1)
PartNeeds(x) == Block(2) + Block(Len(AttrTab["PARTNAME"]))
             + Block(Len(x.node.recs)) + Len(x.node.recs) * NodeNeeds

\* The jobs that the twin check rejects: the first repetition leaves a hole,
\* and the walks of later checks stop there.
Twins(recs) ==
    LET again == {j \in DOMAIN recs : \E k \in 1 .. (j - 1) : recs[k] = recs[j]}
    IN {j \in again : \A h \in again : h < j => \E k \in 1 .. (h - 1) : recs[k] = recs[j]}

Needs(x) ==
    Block(4) + Block(Len(AttrTab["ROOT"])) + Block(Len(CtlTab["ROOT"]))
    + Block(3) + Block(Len(AttrTab["CLUSTER"]))
    + Block(Len(x.part.recs)) + Len(x.part.recs) * PartNeeds(x)
    + Block(Len(x.job.recs))
    + (Len(x.job.recs) - Cardinality(Twins(x.job.recs))) * Block(3)

Distinct(recs) == \A j, k \in DOMAIN recs : recs[j] = recs[k] => j = k

\* The assertions that fail and that only a job is lost to.
Survivable(x) ==
    Cardinality(Twins(x.job.recs))
    + IF x.step.state = "array" THEN 0
      ELSE Len(x.job.recs) - Cardinality(Twins(x.job.recs))

Buildable ==
    LET parts == in.part.recs # <<>>
        nodes == parts /\ in.node.recs # <<>>
        jobs == in.job.recs # <<>>
    IN /\ in.part.state = "array" /\ Distinct(in.part.recs)
       /\ parts => /\ in.node.state = "array" /\ Distinct(in.node.recs)
                   /\ "PARTNAME" \notin in.badattr
       /\ nodes => "NODENAME" \notin in.badattr /\ ~in.alloc
       /\ in.job.state = "array"
       \* no job with a step is ever finished: its signature fails
       /\ jobs => in.step.recs = <<>>
       /\ Survivable(in) = 0 \/ (Survivable(in) = 1 /\ ~in.debug)

Mountable == Buildable /\ Needs(in) <= in.maxalloc

\* A mount is accounted for (mk_fs()): the tree stands only where the replies and
\* the pool let it, whatever was half-built and given up on the way, and has then
\* taken from the pool what the closed form says, no slot leaked or shared.
MountAccounted == status = "mounted" => Mountable /\ nxt_avail = BaseAlloc + Needs(in)

\* mk_fs() ends: it mounts whenever the replies and the pool let it, and
\* otherwise ends the process.
MountOutcome ==
    /\ Mountable ~> (status = "mounted")
    /\ ~Mountable ~> (status \in {"exited", "crashed"})

\* The tree takes its slots from the inode space as RnodePool grants them: in
\* runs of fresh numbers, none past the end, and none once the process ended.
Space == INSTANCE RnodeSpace WITH
    FirstIno <- BaseAlloc,
    size <- BaseAlloc + in.maxalloc,
    granted <- Slots,
    stopped <- status \in {"exited", "crashed"}
SlotsGranted ==
    [][IF nxt_avail' # nxt_avail THEN Space!Grant ELSE Space!Stop]_(Space!spaceVars)
=============================================================================
