----------------------------- MODULE MkFsInv -----------------------------
(***************************************************************************)
(* The inductive invariant of mk_fs().                                     *)
(*                                                                         *)
(* That every rn_cast() goes to a fresh slot of the builder's own block is *)
(* not inductive. A builder finds the slot by adding one to what the last  *)
(* rn_cast() returned, so the invariant says where every running builder   *)
(* stands in its block, that the rest of the block is fresh, that blocks   *)
(* lie in the order of the calls and apart from every directory's, and     *)
(* that a returned node is the child the builder waits for.                *)
(***************************************************************************)
EXTENDS MkFs

\* What a directory of type up is given to hold.
MayHold(up, rtype) ==
    \/ up = "ROOT" /\ rtype \in {"ATTRIBUTES", "CLUSTER", "CONTROL"}
    \/ up = "CLUSTER" /\ rtype \in {"ATTRIBUTES", "PARTS", "JOBS"}
    \/ up = "PARTS" /\ rtype = "PARTNAME"
    \/ up = "PARTNAME" /\ rtype \in {"NODES", "ATTRIBUTES"}
    \/ up = "NODES" /\ rtype = "NODENAME"
    \/ up = "NODENAME" /\ rtype = "ATTRIBUTES"
    \/ up = "ALLOCJOB" /\ rtype \in {"ATTRIBUTE", "ALLOCJOB"}
    \/ up = "JOBS" /\ rtype = "JOBID"
    \/ up = "JOBID" /\ rtype \in {"JOBSTEPS", "ATTRIBUTES", "CONTROL"}
    \/ up = "JOBSTEPS" /\ rtype = "JOBSTEPID"
    \/ up = "JOBSTEPID" /\ rtype = "ATTRIBUTES"
    \/ up = "ATTRIBUTES" /\ rtype \in {"ATTRIBUTE", "CONTEXT", "SIGNATURE", "ALLOCJOB"}
    \/ up = "CONTROL" /\ rtype = "KNOB"

\* The directories whose entries are records, and their recasts take the first.
ListTypes == {"PARTS", "NODES", "JOBS", "JOBSTEPS"}
\* The types whose nodes a builder is called for.
BuiltTypes == {"ROOT", "CLUSTER", "PARTS", "PARTNAME", "NODES", "NODENAME", "JOBS", "JOBID",
               "JOBSTEPS", "JOBSTEPID", "ALLOCJOB", "ATTRIBUTES", "CONTROL"} \cup AttrTypes

\* A child whose parameter type rn_mkattr() converts to the type it is cast as,
\* or a knob, which has none.
Cast(c) ==
    /\ c.rtype \in AttrTypes =>
          c.rtype = p2r_typ_convtab(c.typ) \/ (c.rtype = "KNOB" /\ c.typ = "NONE")
    /\ c.rtype \in AttrTypes \ {"KNOB"} => c.typ # "NONE"

\* A node whose list of children is defined.
Listable(s) ==
    /\ in \in Inputs
    /\ rn[s].rtype \in BuiltTypes
    /\ rn[s].rtype # "ROOT" => MayHold(rn[rn[s].parent].rtype, rn[s].rtype)

-----------------------------------------------------------------------------
(* The running builders *)

\* A running builder, as the stack holds it.
Frames == [at : Nat, blk : Nat, next : Nat, kid : Nat]
\* The number of running builders.
Depth == Len(stack)
\* How many children the builder of s casts.
NKids(s) == Len(Children(s))
\* mk_fs() runs.
Building == status = "building"
\* A slot that the provisioner has set and no rn_cast() has touched.
Fresh(s) == rn[s] = Guard(rn[s].parent)

\* The place of the p-th child of a frame: rn_mkfsroot() casts its third slot
\* before its second.
Pos(f, p) ==
    f.blk + IF rn[f.at].rtype = "ROOT" THEN (IF p = 1 THEN 0 ELSE 4 - p) ELSE p - 1

\* The child that a frame casts next, or the one it waits for or looks at.
Done(k) == IF k < Depth \/ ret # Pending THEN stack[k].kid ELSE stack[k].kid - 1

\* A node of the pool.
NodeFields == {"rtype", "gen", "nm", "typ", "dyn", "parent", "children", "n", "isdir"}
NodeOK(v) ==
    /\ DOMAIN v = NodeFields
    /\ v.rtype \in RTypes /\ v.gen \in 0 .. 2 /\ v.isdir \in BOOLEAN
    /\ v.parent \in Slots \cup {NULL} /\ v.children \in Slots \cup {NULL} /\ v.n \in Nat

\* The pool holds a node in every slot that the provisioner has granted.
PoolInv ==
    /\ in \in Inputs
    /\ nxt_avail \in Nat /\ nxt_avail >= BaseAlloc /\ nxt_avail - BaseAlloc <= in.maxalloc
    /\ DOMAIN rn = Slots
    /\ \A s \in Slots : NodeOK(rn[s])

\* The variables outside the pool.
VarsInv ==
    /\ stack \in Seq(Frames)
    /\ ret \in Slots \cup {NULL, Pending}
    /\ caught_in_a_loop \in BOOLEAN
    /\ p_fsroot \in Slots \cup {NULL} /\ p_jobd \in Slots \cup {NULL}
    /\ status \in {"building", "mounted", "exited", "crashed"}

\* Each builder but the first was called by the one below it, for the child
\* that this one casts.
FrameOK(k) ==
    LET f == stack[k] node == rn[f.at]
    IN /\ f.at \in Slots
       /\ k = 1 => node.rtype = "ROOT" /\ f.kid > 0
       /\ k > 1 =>
            LET g == stack[k - 1]
            IN /\ g.kid \in 1 .. NKids(g.at) /\ f.at = g.next
               /\ node.parent = g.at
               /\ MayHold(rn[g.at].rtype, node.rtype)
               /\ node.rtype = Children(g.at)[g.kid].rtype
FrameInv == \A k \in 1 .. Depth : FrameOK(k)

\* A builder that has no block yet runs, and its node has been cast once.
EnteredOK(k) ==
    LET node == rn[stack[k].at]
    IN stack[k].kid = 0 =>
          /\ k = Depth /\ node.children = NULL /\ Cast(node)
          /\ Building => ret = Pending /\ node.gen = 1
EnteredInv == \A k \in 1 .. Depth : EnteredOK(k)

\* The block of a builder: where it is, where the next child goes, and that
\* the places of the children still to come, and the guard, are fresh.
BlockOK(k) ==
    LET f == stack[k] node == rn[f.at] n == NKids(f.at)
    IN f.kid > 0 =>
          /\ f.kid <= n + 1
          /\ f.at < f.blk /\ f.blk + n < nxt_avail
          /\ node.rtype = "ALLOCJOB" => node.children = NULL
          /\ node.rtype # "ALLOCJOB" => node.children = f.blk /\ node.n = n
          /\ Fresh(f.blk + n)
          /\ f.kid <= n => f.next = Pos(f, f.kid)
          /\ \A p \in (Done(k) + 1) .. n : Fresh(Pos(f, p))
BlockInv == \A k \in 1 .. Depth : BlockOK(k)

\* Blocks lie in the order of the calls.
OrderOK(j, k) ==
    /\ stack[j].at < stack[k].at
    /\ stack[k].kid > 0 => stack[j].blk + NKids(stack[j].at) < stack[k].blk
OrderInv == \A j, k \in 1 .. Depth : j < k => OrderOK(j, k)

\* Blocks of m slots at a and n at b, and their guards, do not overlap.
Apart(a, m, b, n) == a + m < b \/ b + n < a

GuardOf(d) == rn[d].children + rn[d].n
\* The block of a directory is behind it, and ends in an unnamed guard.
DirsInv ==
    \A d \in Dirs : /\ rn[d].children > d /\ GuardOf(d) < nxt_avail
                    /\ rn[GuardOf(d)].rtype = "GUARD" /\ rn[GuardOf(d)].nm = NoName
\* No two directories, and no directory and no running builder but its own,
\* share a slot: a node state hangs under no directory, and has a block.
BlocksApart ==
    \A d, e \in Dirs : d = e \/ Apart(rn[d].children, rn[d].n, rn[e].children, rn[e].n)
ApartOK(k) ==
    \A d \in Dirs : stack[k].kid > 0 =>
       d = stack[k].at \/ Apart(rn[d].children, rn[d].n, stack[k].blk, NKids(stack[k].at))
ApartInv == BlocksApart /\ \A k \in 1 .. Depth : ApartOK(k)

\* What the last rn_cast() returned.
RetInv ==
    Building =>
        /\ stack = <<>> => ret = Pending /\ nxt_avail = BaseAlloc
        /\ ret # Pending => Top.kid > 0 /\ Top.kid <= NKids(Top.at)
        /\ ret > NULL => \/ ret = Top.next \/ Top.kid = NKids(Top.at)
                         \/ rn[Top.at].rtype \notin {"CLUSTER", "PARTNAME", "JOBID", "ATTRIBUTES"}

\* The inductive invariant of mk_fs().
IInv == /\ PoolInv /\ VarsInv /\ FrameInv /\ EnteredInv /\ BlockInv /\ OrderInv
        /\ DirsInv /\ ApartInv /\ RetInv

-----------------------------------------------------------------------------
(* What makes a mount usable, and how far the builders of jobs get.  This is *)
(* inductive with IInv and with what MkFsTreeProofs says of the tree.        *)

\* rmfs_getattr() tells directories and files apart by the row of the type.
Flagged(s) == rn[s].isdir = IsDir(rn[s].rtype)

\* An attribute directory of a job.
OfJob(s) == rn[s].rtype = "ATTRIBUTES" /\ rn[rn[s].parent].rtype = "JOBID"

\* The root is the first node, and only it and jobs have a security context.
NodeSays(s) ==
    /\ rn[s].rtype = "ROOT" => s = BaseAlloc
    /\ Named(s) /\ rn[s].rtype = "CONTEXT" =>
          rn[rn[rn[s].parent].parent].rtype \in {"ROOT", "JOBID"}
    /\ Named(s) \/ rn[s].children # NULL => Flagged(s)

\* No job gets as far as its control directory.
CtlOfRoot(d) == rn[d].rtype = "CONTROL" => rn[rn[d].parent].rtype = "ROOT"
NodesInv == (\A s \in Slots : NodeSays(s)) /\ (\A d \in Dirs : CtlOfRoot(d))

\* The builder of a job's attributes never returns: its last is a signature.
JobsInv == \A d \in Dirs : OfJob(d) => \E k \in 1 .. Depth : stack[k].at = d
JobOK(k) ==
    LET f == stack[k]
    IN /\ rn[f.at].rtype = "JOBID" => f.kid <= 2 /\ (f.kid = 2 /\ k = Depth => ret <= NULL)
       /\ OfJob(f.at) => /\ f.kid <= 3 /\ (f.kid = 3 /\ k = Depth => ret <= NULL)
                         /\ k = Depth /\ ret = NULL => caught_in_a_loop

\* Who has set p_fsroot last: the cluster, whose builder comes after the root's.
FsRootIs == p_fsroot \in Dirs /\ rn[p_fsroot].rtype = "CLUSTER"
FsRootOK(k) ==
    LET f == stack[k]
    IN /\ rn[f.at].rtype = "CLUSTER" /\ f.kid > 1 => p_fsroot = f.at
       /\ rn[f.at].rtype = "ROOT" /\ (f.kid > 2 \/ (f.kid = 2 /\ k = Depth /\ ret > NULL))
             => FsRootIs
FrameSays(k) == Flagged(stack[k].at) /\ JobOK(k) /\ FsRootOK(k)

\* What can be relied on of a mounted tree: the nodes say rightly whether they
\* are directories, the nodes that a row lets somebody write are the root's own or
\* in a job that was given up, and p_fsroot is the cluster.
MountInv ==
    /\ NodesInv /\ JobsInv /\ \A k \in 1 .. Depth : FrameSays(k)
    /\ status = "mounted" => stack = <<>> /\ FsRootIs
=============================================================================
