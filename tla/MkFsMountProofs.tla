--------------------------- MODULE MkFsMountProofs ---------------------------
(***************************************************************************)
(* What a mounted tree holds, and what it took from the pool.              *)
(*                                                                         *)
(* A builder that gives up leaves a half-built directory, and rn_cast() a  *)
(* slot without a name, below whatever its callers make of the NULL. The   *)
(* first invariants say how far every directory is filled, and why only a  *)
(* job can be missing from a tree that is mounted in the end; the last     *)
(* one, ShapeInv, what each slot that has been cast is.                    *)
(***************************************************************************)
EXTENDS MkFsTreeProofs, FiniteSetTheorems

-----------------------------------------------------------------------------
(* The invariants *)

\* The process has not ended.
Live == status \in {"building", "mounted"}
\* A child has failed, and its directory goes on without it only if it is a
\* job's or that of all jobs: any other builder gives up, and so do its callers
\* up to the root, which nobody catches.
Doomed == Building /\ stack # <<>> /\ ret = NULL /\ rn[Top.at].rtype \notin {"JOBS", "JOBID"}

\* A slot that rn_cast() has left without a name, for it has found its twin.
Hole(s) == ~Named(s) /\ rn[s].gen # 0

\* A NULL that the caller asserts is the second assertion that fails.
NullOK == Building /\ stack # <<>> /\ ret = NULL /\ NextChild.onNull = "ASSERT"
             => caught_in_a_loop
\* What has a builder or a block has a name.
NamedInv == (\A d \in Dirs : Named(d)) /\ \A k \in 1 .. Depth : Named(stack[k].at)
\* The third slot of the root is the cluster's, the third of the cluster the jobs'.
PlaceOK(s) ==
    Named(s) /\ rn[s].rtype \in {"CLUSTER", "JOBS"} => s = rn[rn[s].parent].children + 2
PlacesInv == \A s \in Slots : PlaceOK(s)
\* There is one hole at most, and the assertion that made it.
OneHole == \A s, t \in Slots : Hole(s) /\ Hole(t) => s = t /\ caught_in_a_loop
\* The slots of the children that a builder has dealt with have been cast.
FilledOK(k) ==
    stack[k].kid > 0 => \A p \in 1 .. Done(k) : rn[Pos(stack[k], p)].gen # 0
FilledInv == \A k \in 1 .. Depth : FilledOK(k)

\* A directory whose builder has returned has no slot left.
FullOK(d) ==
    \/ rn[d].rtype = "JOBID"
    \/ \E k \in 1 .. Depth : stack[k].at = d
    \/ \A s \in Kids(d) : rn[s].gen # 0
\* A hole is in a directory that goes on without the child.
HoleOK(d) == rn[d].rtype \in {"JOBS", "JOBID"} \/ \A s \in Kids(d) : ~Hole(s)
FullInv == Live /\ ~Doomed => \A d \in Dirs : FullOK(d) /\ HoleOK(d)

\* Who has set p_jobd: the builder of the jobs, without which no cluster is built.
JobdIs == p_jobd \in Dirs /\ rn[p_jobd].rtype = "JOBS"
JobdOK(k) ==
    LET f == stack[k] built(kid) == f.kid > kid \/ (f.kid = kid /\ k = Depth /\ ret > NULL)
    IN /\ rn[f.at].rtype = "CLUSTER" /\ built(3) => JobdIs
       /\ rn[f.at].rtype = "ROOT" /\ built(2) => JobdIs
JobdInv == (\A k \in 1 .. Depth : JobdOK(k)) /\ (status = "mounted" => JobdIs)

\* How complete the tree is. This is inductive with IInv, TreeInv and MountInv.
FillInv == NullOK /\ NamedInv /\ PlacesInv /\ OneHole /\ FilledInv /\ FullInv /\ JobdInv

-----------------------------------------------------------------------------
(* What the lists of children have in common *)

\* A child has a name, and its type decides what its NULL is to the caller.
Sound(c) ==
    /\ c.nm # NoName
    /\ c.onNull = IF c.rtype \in {"CLUSTER", "JOBS", "JOBSTEPS"} THEN "WARN"
                  ELSE IF c.rtype = "JOBID" THEN "CONTINUE" ELSE "ASSERT"

\* The children that the builders name themselves.
LEMMA SoundNames ==
  /\ \A rtype, nm, dyn :
        /\ nm # NoName /\ rtype \notin {"CLUSTER", "JOBS", "JOBSTEPS", "JOBID"}
              => Sound(Dir(rtype, nm, dyn, "ASSERT"))
        /\ nm # NoName /\ rtype \in {"CLUSTER", "JOBS", "JOBSTEPS"}
              => Sound(Dir(rtype, nm, dyn, "WARN"))
        /\ nm # NoName => Sound(Dir("JOBID", nm, dyn, "CONTINUE"))
  /\ \A rtype, nm, typ, dyn :
        nm # NoName /\ rtype \notin {"CLUSTER", "JOBS", "JOBSTEPS", "JOBID"}
           => Sound(Child(rtype, nm, typ, dyn, "ASSERT"))
  BY DEF Sound, Dir, Child

\* The lists that replies do not change.
LEMMA TablesSound ==
  ASSUME NEW s
  PROVE  /\ \A j \in 1 .. Len(RootChildren) : Sound(RootChildren[j])
         /\ \A j \in 1 .. Len(ClusterChildren) : Sound(ClusterChildren[j])
         /\ \A j \in 1 .. Len(PartChildren(s)) : Sound(PartChildren(s)[j])
         /\ \A j \in 1 .. Len(NodeChildren(s)) : Sound(NodeChildren(s)[j])
         /\ \A j \in 1 .. Len(JobChildren(s)) : Sound(JobChildren(s)[j])
         /\ \A j \in 1 .. Len(StepChildren(s)) : Sound(StepChildren(s)[j])
<1>1. \A nm \in {"attributes", "ClusterName", "control", "partitions", "jobs", "nodes",
                 "jobsteps"} : nm # NoName
  BY DEF NoName
<1>2. \A dyn : /\ Sound(Dir("ATTRIBUTES", "attributes", dyn, "ASSERT"))
               /\ Sound(Dir("CLUSTER", "ClusterName", dyn, "WARN"))
               /\ Sound(Dir("CONTROL", "control", dyn, "ASSERT"))
               /\ Sound(Dir("PARTS", "partitions", dyn, "ASSERT"))
               /\ Sound(Dir("JOBS", "jobs", dyn, "WARN"))
               /\ Sound(Dir("NODES", "nodes", dyn, "ASSERT"))
               /\ Sound(Dir("JOBSTEPS", "jobsteps", dyn, "WARN"))
  BY <1>1, SoundNames
<1>3. \A a, b, c : Sound(a) /\ Sound(b) /\ Sound(c) =>
         /\ \A j \in 1 .. Len(<<a>>) : Sound(<<a>>[j])
         /\ \A j \in 1 .. Len(<<a, b>>) : Sound(<<a, b>>[j])
         /\ \A j \in 1 .. Len(<<a, b, c>>) : Sound(<<a, b, c>>[j])
  OBVIOUS
<1>4. PICK rec, up : rec = rn[s].dyn /\ up = JobRecord(s)
  OBVIOUS
<1>5. /\ \A j \in 1 .. Len(RootChildren) : Sound(RootChildren[j])
      /\ \A j \in 1 .. Len(ClusterChildren) : Sound(ClusterChildren[j])
  BY <1>2, <1>3 DEF RootChildren, ClusterChildren
<1>6. /\ \A j \in 1 .. Len(PartChildren(s)) : Sound(PartChildren(s)[j])
      /\ \A j \in 1 .. Len(NodeChildren(s)) : Sound(NodeChildren(s)[j])
      /\ \A j \in 1 .. Len(StepChildren(s)) : Sound(StepChildren(s)[j])
  BY <1>2, <1>3, <1>4 DEF PartChildren, NodeChildren, StepChildren
<1>7. \A j \in 1 .. Len(JobChildren(s)) : Sound(JobChildren(s)[j])
  BY <1>2, <1>3, <1>4 DEF JobChildren
<1> QED BY <1>5, <1>6, <1>7

\* A record has a name.
LEMMA RecordsSound ==
  ASSUME NEW msg, IsReply(msg), NEW rtype, NEW onNull,
         \/ rtype \notin {"CLUSTER", "JOBS", "JOBSTEPS", "JOBID"} /\ onNull = "ASSERT"
         \/ rtype = "JOBID" /\ onNull = "CONTINUE"
  PROVE  \A j \in 1 .. Len(OfRecords(msg, rtype, onNull)) :
            Sound(OfRecords(msg, rtype, onNull)[j])
<1>1. \A j \in 1 .. Len(msg.recs) : msg.recs[j] # NoName
  BY DEF IsReply, NodeNames
<1>2. \A j \in 1 .. Len(msg.recs) : Sound(Dir(rtype, msg.recs[j], j, onNull))
  BY <1>1, SoundNames
<1> QED BY <1>2, RecordsListed

\* The parameters and the commands have names.
LEMMA TabsNamed ==
  /\ \A up : MayHold(up, "ATTRIBUTES") =>
        \A j \in 1 .. Len(AttrTab[up]) : AttrTab[up][j].nm # NoName
  /\ \A up : MayHold(up, "CONTROL") =>
        \A j \in 1 .. Len(CtlTab[up]) : CtlTab[up][j].nm # NoName
<1> DEFINE Ok(tab) == \A j \in 1 .. Len(tab) : tab[j].nm # NoName
<1>1. \A a, b, c, d :
         /\ a.nm # NoName => Ok(<<a>>)
         /\ a.nm # NoName /\ b.nm # NoName => Ok(<<a, b>>)
         /\ a.nm # NoName /\ b.nm # NoName /\ c.nm # NoName => Ok(<<a, b, c>>)
         /\ a.nm # NoName /\ b.nm # NoName /\ c.nm # NoName /\ d.nm # NoName
               => Ok(<<a, b, c, d>>)
  OBVIOUS
<1> HIDE DEF Ok
<1>2. Ok(AttrTab["ROOT"]) /\ Ok(AttrTab["NODENAME"])
  BY <1>1 DEF AttrTab, NoName
<1>3. Ok(AttrTab["CLUSTER"]) /\ Ok(AttrTab["JOBSTEPID"])
  BY <1>1 DEF AttrTab, NoName
<1>4. Ok(AttrTab["PARTNAME"]) /\ Ok(AttrTab["JOBID"])
  BY <1>1 DEF AttrTab, NoName
<1>5. Ok(CtlTab["ROOT"]) /\ Ok(CtlTab["JOBID"])
  BY <1>1 DEF CtlTab, NoName
<1>6. \A up : MayHold(up, "ATTRIBUTES") =>
         up \in {"ROOT", "CLUSTER", "PARTNAME", "NODENAME", "JOBID", "JOBSTEPID"}
  BY Zenon DEF MayHold
<1>7. \A up : MayHold(up, "CONTROL") => up \in {"ROOT", "JOBID"}
  BY Zenon DEF MayHold
<1>8. \A up : MayHold(up, "ATTRIBUTES") => Ok(AttrTab[up])
  BY <1>2, <1>3, <1>4, <1>6
<1>9. \A up : MayHold(up, "CONTROL") => Ok(CtlTab[up])
  BY <1>5, <1>7
<1> QED BY <1>8, <1>9 DEF Ok

\* Attributes, commands and states.
LEMMA LeavesSound ==
  ASSUME NEW s, Listable(s)
  PROVE  /\ rn[s].rtype = "ATTRIBUTES" =>
               \A j \in 1 .. Len(AttrChildren(s)) : Sound(AttrChildren(s)[j])
         /\ rn[s].rtype = "CONTROL" =>
               \A j \in 1 .. Len(CtlChildren(s)) : Sound(CtlChildren(s)[j])
         /\ \A j \in 1 .. Len(StateChildren(s)) : Sound(StateChildren(s)[j])
<1>1. ASSUME rn[s].rtype = "ATTRIBUTES"
      PROVE  \A j \in 1 .. Len(AttrChildren(s)) : Sound(AttrChildren(s)[j])
  <2>1. MayHold(rn[rn[s].parent].rtype, "ATTRIBUTES")
    BY <1>1 DEF Listable
  <2>2. PICK up : up = rn[rn[s].parent].rtype
    OBVIOUS
  <2>3. PICK tab : tab = AttrTab[up]
    OBVIOUS
  <2>4. Len(tab) \in Nat /\ DOMAIN tab = 1 .. Len(tab) /\ \A j \in 1 .. Len(tab) : tab[j].nm # NoName
    BY <2>1, <2>2, <2>3, AttrTabIs, TabsNamed
  <2> DEFINE Attr(j) == Child(p2r_typ_convtab(tab[j].typ), tab[j].nm, tab[j].typ, rn[s].dyn,
                              "ASSERT")
  <2>5. AttrChildren(s) = [j \in 1 .. Len(tab) |-> Attr(j)]
    BY <2>2, <2>3, <2>4 DEF AttrChildren
  <2>6. \A typ : p2r_typ_convtab(typ) \notin {"CLUSTER", "JOBS", "JOBSTEPS", "JOBID"}
    BY DEF p2r_typ_convtab
  <2>7. \A j \in 1 .. Len(tab) : Sound(Attr(j))
    BY <2>4, <2>6, SoundNames, Zenon
  <2> HIDE DEF Attr
  <2>8. Len(AttrChildren(s)) = Len(tab)
    BY <2>4, <2>5, LenOfFun
  <2>9. \A j \in 1 .. Len(tab) : AttrChildren(s)[j] = Attr(j)
    BY <2>5, Zenon
  <2> QED BY <2>7, <2>8, <2>9
<1>2. ASSUME rn[s].rtype = "CONTROL"
      PROVE  \A j \in 1 .. Len(CtlChildren(s)) : Sound(CtlChildren(s)[j])
  <2>1. MayHold(rn[rn[s].parent].rtype, "CONTROL")
    BY <1>2 DEF Listable
  <2>2. PICK up : up = rn[rn[s].parent].rtype
    OBVIOUS
  <2>3. PICK tab : tab = CtlTab[up]
    OBVIOUS
  <2>4. Len(tab) \in Nat /\ DOMAIN tab = 1 .. Len(tab) /\ \A j \in 1 .. Len(tab) : tab[j].nm # NoName
    BY <2>1, <2>2, <2>3, CtlTabIs, TabsNamed
  <2> DEFINE Ctl(j) == Dir("KNOB", tab[j].nm, tab[j].fn, "ASSERT")
  <2>5. CtlChildren(s) = [j \in 1 .. Len(tab) |-> Ctl(j)]
    BY <2>2, <2>3, <2>4 DEF CtlChildren
  <2>6. \A j \in 1 .. Len(tab) : Sound(Ctl(j))
    BY <2>4, SoundNames
  <2> HIDE DEF Ctl
  <2>7. Len(CtlChildren(s)) = Len(tab)
    BY <2>4, <2>5, LenOfFun
  <2>8. \A j \in 1 .. Len(tab) : CtlChildren(s)[j] = Ctl(j)
    BY <2>5, Zenon
  <2> QED BY <2>6, <2>7, <2>8
<1>3. \A j \in 1 .. Len(StateChildren(s)) : Sound(StateChildren(s)[j])
  <2> DEFINE nm == IF in.alloc THEN "alloc" ELSE "idle"
             a == Child("ATTRIBUTE", nm, "NODESTATE", rn[s].dyn, "ASSERT")
             b == Child("ALLOCJOB", "state", "ALLOCJOB", rn[s].dyn, "ASSERT")
  <2>1. StateChildren(s) = <<a>> \o IF in.alloc THEN <<b>> ELSE <<>>
    BY DEF StateChildren
  <2>2. nm # NoName /\ "state" # NoName
    BY DEF NoName
  <2> HIDE DEF nm
  <2>3. Sound(a) /\ Sound(b)
    BY <2>2, SoundNames
  <2> HIDE DEF a, b
  <2>4. <<a>> \in Seq({a, b}) /\ <<b>> \in Seq({a, b}) /\ <<>> \in Seq({a, b})
    OBVIOUS
  <2>5. PICK t \in Seq({a, b}) : StateChildren(s) = <<a>> \o t
    BY <2>1, <2>4, Zenon
  <2>6. \A j \in 1 .. Len(StateChildren(s)) : StateChildren(s)[j] \in {a, b}
    <3>1. StateChildren(s) \in Seq({a, b})
      BY <2>4, <2>5
    <3> QED BY <3>1
  <2> QED BY <2>3, <2>6
<1> QED BY <1>1, <1>2, <1>3

\* Every child has a name, and is missed as its type says.
LEMMA ChildrenSound ==
  ASSUME NEW s, Listable(s)
  PROVE  \A j \in 1 .. NKids(s) : Sound(Children(s)[j])
<1>1. IsReply(in.part) /\ IsReply(in.node) /\ IsReply(in.job) /\ IsReply(in.step)
  BY InputsAssumption DEF Listable
<1>2. PICK rtype : rtype = rn[s].rtype /\ rtype \in BuiltTypes
  BY DEF Listable
<1>3. CASE rtype \in ListTypes
  <2>1. /\ rtype = "PARTS" => Children(s) = OfRecords(in.part, "PARTNAME", "ASSERT")
        /\ rtype = "NODES" => Children(s) = OfRecords(in.node, "NODENAME", "ASSERT")
        /\ rtype = "JOBS" => Children(s) = OfRecords(in.job, "JOBID", "CONTINUE")
        /\ rtype = "JOBSTEPS" => Children(s) = OfRecords(in.step, "JOBSTEPID", "ASSERT")
    BY <1>2, ChildrenIs DEF PartsChildren, NodesChildren, JobsChildren, StepsChildren
  <2> QED BY <1>1, <1>3, <2>1, RecordsSound DEF ListTypes, NKids
<1>4. CASE rtype \in {"ROOT", "CLUSTER", "PARTNAME", "NODENAME", "JOBID", "JOBSTEPID"}
  <2>1. /\ rtype = "ROOT" => Children(s) = RootChildren
        /\ rtype = "CLUSTER" => Children(s) = ClusterChildren
        /\ rtype = "PARTNAME" => Children(s) = PartChildren(s)
        /\ rtype = "NODENAME" => Children(s) = NodeChildren(s)
        /\ rtype = "JOBID" => Children(s) = JobChildren(s)
        /\ rtype = "JOBSTEPID" => Children(s) = StepChildren(s)
    BY <1>2, ChildrenIs
  <2> QED BY <1>4, <2>1, TablesSound DEF NKids
<1>5. CASE rtype \in {"ATTRIBUTES", "CONTROL", "ALLOCJOB"}
  <2>1. /\ rtype = "ATTRIBUTES" => Children(s) = AttrChildren(s)
        /\ rtype = "CONTROL" => Children(s) = CtlChildren(s)
        /\ rtype = "ALLOCJOB" => Children(s) = StateChildren(s)
    BY <1>2, ChildrenIs
  <2> QED BY <1>2, <1>5, <2>1, LeavesSound DEF NKids
<1>6. CASE rtype \in AttrTypes
  <2>1. Children(s) = <<>>
    BY <1>2, <1>6, ChildrenIs
  <2> QED BY <2>1 DEF NKids
<1> QED BY <1>2, <1>3, <1>4, <1>5, <1>6 DEF BuiltTypes, ListTypes

-----------------------------------------------------------------------------
(* The steps of mk_fs(), by what they do to the nodes and to the stack *)

USE BaseAllocAssumption DEF NULL, Pending

\* A step that casts the node x, or none, and may grant fresh slots.
Grows(x) ==
    /\ in' = in
    /\ \A s \in Slots : s \in Slots' /\ (s # x => rn'[s] = rn[s])
    /\ \A s \in Slots' : s \in Slots \/ (rn'[s].nm = NoName /\ rn'[s].children = NULL /\ rn'[s].gen = 0)
    /\ x \in Slots => /\ rn[x].children = NULL /\ rn'[x].gen # 0
                      /\ rn[x].nm # NoName => rn'[x].nm # NoName

\* The builder of s, the k-th, calls rn_cast() of the child c into the slot x.
CastsInto(k, s, x, c) ==
    /\ k \in Nat /\ k = Depth /\ k \in 1 .. Depth /\ stack # <<>> /\ Building /\ ret = Pending
    /\ stack[k] \in Frames /\ s = stack[k].at /\ s \in Slots /\ rn[s].rtype \in BuiltTypes
    /\ stack[k].kid \in 1 .. NKids(s) /\ c = Children(s)[stack[k].kid]
    /\ Sound(c) /\ MayHold(rn[s].rtype, c.rtype)
    /\ x \in Slots /\ x # s /\ x = Pos(stack[k], stack[k].kid) /\ x = stack[k].next
    /\ rn[x].nm = NoName /\ rn[x].gen = 0
    /\ \A d \in Dirs : x \in Kids(d) => d = s
    /\ rn[s].rtype # "ALLOCJOB" => s \in Dirs /\ x \in Kids(s)
    /\ \A i \in 1 .. Depth : stack[i].at # x
    /\ Grows(x) /\ Slots' = Slots /\ rn'[x].rtype = c.rtype /\ rn'[x].children = NULL
    /\ \A i \in 1 .. k : stack'[i] = stack[i]
    /\ UNCHANGED <<in, nxt_avail, p_fsroot, p_jobd, status>>
\* The child's builder is called, or its twin is found.
Calls(k, s, x, c) ==
    /\ CastsInto(k, s, x, c) /\ ~Twin(s, c.nm)
    /\ rn'[x].nm = c.nm /\ rn'[x].parent = s
    /\ Depth' = k + 1 /\ stack'[k + 1] = Frame(x)
    /\ UNCHANGED <<ret, caught_in_a_loop>>
Misses(k, s, x, c) ==
    /\ CastsInto(k, s, x, c) /\ Twin(s, c.nm)
    /\ rn'[x].nm = NoName /\ Depth' = k /\ ret' = NULL
    /\ ~caught_in_a_loop /\ ~in.debug /\ caught_in_a_loop'

\* What the two have in common.
LEMMA CastIs ==
  ASSUME IInv, Casting, More, NEW v, rn' = [rn EXCEPT ![Top.next] = v],
         v.gen # 0, v.rtype = NextChild.rtype, v.children = NULL,
         \A i \in 1 .. Depth : stack'[i] = stack[i],
         UNCHANGED <<in, nxt_avail, p_fsroot, p_jobd, status>>
  PROVE  \E k \in Nat : CastsInto(k, Top.at, Top.next, NextChild)
<1>1. PICK x, s, c : x = Top.next /\ s = Top.at /\ c = NextChild
  OBVIOUS
<1>2. PICK k \in Nat : k = Depth /\ k \in 1 .. Depth /\ Top = stack[k] /\ Top \in Frames
  BY TopIs DEF IInv, VarsInv, Casting, Running
<1>3. stack # <<>> /\ Building /\ ret = Pending
  BY DEF Casting, Running, Building
<1>4. s \in Slots /\ rn[s].rtype \in BuiltTypes
  BY <1>1, <1>2, FrameFacts DEF IInv
<1>5. /\ x \in Slots /\ rn[x].nm = NoName /\ rn[x].children = NULL
      /\ \A i \in 1 .. Depth : stack[i].at # x
      /\ \A d \in Dirs : x \in Kids(d) => d = s
      /\ rn[s].rtype # "ALLOCJOB" => s \in Dirs /\ x \in Kids(s)
  BY <1>1, NextIn
<1>6. Top.kid \in 1 .. NKids(s) /\ rn[x].gen = 0 /\ Top.kid > 0
  <2>1. Top.kid \in 1 .. NKids(Top.at) /\ Fresh(Top.next)
    BY NextFree
  <2> QED BY <1>1, <2>1, FreshIs
<1>7. c = Children(s)[Top.kid] /\ MayHold(rn[s].rtype, c.rtype)
  BY <1>1, <1>3, <1>6, NextIs DEF NextChild
<1>8. Sound(c)
  <2>1. rn[s].rtype # "ROOT" => MayHold(rn[rn[s].parent].rtype, rn[s].rtype)
    BY <1>1, <1>2 DEF IInv, FrameInv, FrameOK
  <2>2. Listable(s)
    BY <1>4, <2>1 DEF Listable, IInv, PoolInv
  <2> QED BY <1>6, <1>7, <2>2, ChildrenSound
<1>9. x = Pos(Top, Top.kid)
  <2>1. BlockOK(k)
    BY <1>2 DEF IInv, BlockInv
  <2>2. Top.kid <= NKids(s)
    BY <1>2, <1>6 DEF Frames
  <2> QED BY <1>1, <1>2, <1>6, <2>1, <2>2 DEF BlockOK
<1>10. Slots' = Slots /\ DOMAIN rn = Slots
  BY DEF Slots, IInv, PoolInv
<1>11. rn'[x] = v /\ \A t \in Slots : t # x => rn'[t] = rn[t]
  BY <1>1, <1>5, <1>10
<1>12. Grows(x)
  BY <1>5, <1>10, <1>11 DEF Grows
<1>13. x # s
  BY <1>1, <1>2, <1>5
<1>14. \A i \in 1 .. k : stack'[i] = stack[i]
  BY <1>2
<1>15. rn'[x].rtype = c.rtype /\ rn'[x].children = NULL
  BY <1>1, <1>11
<1>16. CastsInto(k, s, x, c)
  BY <1>1, <1>2, <1>3, <1>4, <1>5, <1>6, <1>7, <1>8, <1>9, <1>10, <1>12, <1>13, <1>14, <1>15
     DEF CastsInto
<1> QED BY <1>1, <1>16

\* rn_cast() calls the builder of a child.
LEMMA CallIs ==
  ASSUME IInv, CastChild
  PROVE  \E k \in Nat : \E s, x, c : Calls(k, s, x, c)
<1>1. Casting /\ More /\ stack # <<>>
  BY DEF CastChild, Casting, Running
<1>2. PICK x, s, c : x = Top.next /\ s = Top.at /\ c = NextChild
  OBVIOUS
<1>3. PICK v : v = FirstCast(c, s)
  OBVIOUS
<1>4. /\ rn' = [rn EXCEPT ![x] = v] /\ stack' = Append(stack, Frame(x)) /\ ~Twin(s, c.nm)
      /\ UNCHANGED <<in, nxt_avail, ret, caught_in_a_loop, p_fsroot, p_jobd, status>>
  BY <1>2, <1>3, Zenon DEF CastChild, roots
<1>5. v.gen = 1 /\ v.rtype = c.rtype /\ v.children = NULL /\ v.nm = c.nm /\ v.parent = s
  BY <1>3 DEF FirstCast
<1>6. PICK k \in Nat : k = Depth /\ k \in 1 .. Depth /\ Top \in Frames
  BY <1>1, TopIs DEF IInv, VarsInv
<1>7. PICK f \in Frames : f = Frame(x)
  <2>1. x \in Nat
    BY <1>2, <1>6 DEF Frames
  <2> QED BY <2>1 DEF Frame, Frames
<1>8. /\ Depth' = k + 1 /\ stack'[k + 1] = f
      /\ \A i \in 1 .. Depth : stack'[i] = stack[i]
  BY <1>4, <1>6, <1>7, PushIs DEF IInv, VarsInv
<1>9. PICK l \in Nat : CastsInto(l, s, x, c)
  <2>1. v.gen # 0
    BY <1>5
  <2> QED BY <1>1, <1>2, <1>4, <1>5, <1>8, <2>1, CastIs
<1>10. l = k /\ x \in Slots
  BY <1>6, <1>9 DEF CastsInto
<1>11. rn'[x] = v
  BY <1>4, <1>10 DEF IInv, PoolInv
<1>12. Calls(k, s, x, c)
  BY <1>4, <1>5, <1>7, <1>8, <1>9, <1>10, <1>11 DEF Calls
<1> QED BY <1>12

\* The twin check finds another child of the name.
LEMMA MissIs ==
  ASSUME IInv, CastTwin, ~Exit
  PROVE  \E k \in Nat : \E s, x, c : Misses(k, s, x, c)
<1>1. Casting /\ More /\ stack # <<>> /\ Returns("ASSERT")
  BY DEF CastTwin, Casting, Running
<1>2. PICK x, s, c : x = Top.next /\ s = Top.at /\ c = NextChild
  OBVIOUS
<1>3. PICK v : v = [rn[x] EXCEPT !.gen = 1, !.rtype = NextChild.rtype, !.typ = NextChild.typ]
  OBVIOUS
<1>4. /\ rn' = [rn EXCEPT ![x] = v] /\ Twin(s, c.nm) /\ ret' = NULL /\ caught_in_a_loop'
      /\ UNCHANGED <<in, nxt_avail, stack, p_fsroot, p_jobd, status>>
  BY <1>1, <1>2, <1>3, Zenon DEF CastTwin, Catch, roots
<1>5. v.gen # 0 /\ v.rtype = NextChild.rtype /\ v.children = NULL /\ v.nm = NoName
  <2>1. x \in Slots /\ rn[x].nm = NoName /\ rn[x].children = NULL
    BY <1>1, <1>2, NextIn
  <2>2. NodeOK(rn[x])
    BY <2>1 DEF IInv, PoolInv
  <2>3. PICK w, rtype, typ : w = rn[x] /\ rtype = NextChild.rtype /\ typ = NextChild.typ
    OBVIOUS
  <2>4. v = [w EXCEPT !.gen = 1, !.rtype = rtype, !.typ = typ]
    BY <1>3, <2>3
  <2> QED BY <2>1, <2>2, <2>3, <2>4 DEF NodeOK, NodeFields
<1>6. PICK k \in Nat : CastsInto(k, s, x, c)
  BY <1>1, <1>2, <1>4, <1>5, CastIs
<1>7. rn'[x] = v /\ Depth' = k
  BY <1>4, <1>6 DEF CastsInto, Depth, IInv, PoolInv
<1>8. ~caught_in_a_loop /\ ~in.debug
  BY <1>1, Zenon DEF Returns
<1>9. Misses(k, s, x, c)
  BY <1>4, <1>5, <1>6, <1>7, <1>8 DEF Misses
<1> QED BY <1>9

-----------------------------------------------------------------------------
(* How the parts of FillInv are kept *)

\* The directories after a step that casts x.
LEMMA DirsGrow ==
  ASSUME IInv, TreeInv, NEW x, Grows(x)
  PROVE  /\ \A d \in Dirs : d \in Dirs' /\ d # x /\ rn'[d] = rn[d] /\ Kids(d)' = Kids(d)
         /\ \A d \in Dirs' : d \in Dirs \/ (d = x /\ x \in Slots)
         /\ JobdIs /\ p_jobd' = p_jobd => JobdIs'
<1>1. \A d \in Dirs : d \in Slots /\ rn[d].children # NULL
  BY DEF Dirs
<1>2. \A d \in Dirs : d # x /\ d \in Slots' /\ rn'[d] = rn[d]
  BY <1>1 DEF Grows
<1>3. \A d \in Dirs : d \in Dirs' /\ Kids(d)' = Kids(d)
  BY <1>1, <1>2 DEF Dirs, Kids
<1>4. \A d \in Dirs' : d \in Dirs \/ (d = x /\ x \in Slots)
  BY DEF Dirs, Grows
<1> QED BY <1>2, <1>3, <1>4 DEF JobdIs

\* The places and the hole, when a node is cast.
LEMMA NodesFill ==
  ASSUME IInv, TreeInv, PlacesInv, OneHole, NEW x, Grows(x),
         x \in Slots => PlaceOK(x)', caught_in_a_loop => caught_in_a_loop',
         x \in Slots => rn'[x].nm # NoName \/ (rn[x].nm = NoName /\ rn[x].gen # 0)
                        \/ (~caught_in_a_loop /\ caught_in_a_loop')
  PROVE  PlacesInv' /\ OneHole'
<1>1. ASSUME NEW s \in Slots' PROVE PlaceOK(s)'
  <2>1. CASE s = x /\ x \in Slots
    BY <2>1
  <2>2. CASE s \notin Slots
    BY <2>2 DEF Grows, PlaceOK, Named
  <2>3. CASE s \in Slots /\ s # x
    <3>1. rn'[s] = rn[s]
      BY <2>3 DEF Grows
    <3> SUFFICES ASSUME rn[s].nm # NoName, rn[s].rtype \in {"CLUSTER", "JOBS"}
                 PROVE  s = rn'[rn[s].parent].children + 2
      BY <3>1 DEF PlaceOK, Named
    <3>2. s = rn[rn[s].parent].children + 2
      BY <2>3 DEF PlacesInv, PlaceOK, Named
    <3>3. rn[s].parent \in Slots /\ s \in Kids(rn[s].parent)
      <4>1. rn[rn[s].parent].rtype # "ALLOCJOB"
        BY <2>3 DEF TreeInv, NamedOK, MayHold, Named
      <4> QED BY <2>3, <4>1 DEF TreeInv, NamedOK, Named
    <3>4. rn[s].parent \in Dirs
      BY <3>3 DEF Kids, Dirs
    <3> QED BY <3>2, <3>4, DirsGrow
  <2> QED BY <2>1, <2>2, <2>3
<1>2. ASSUME NEW s \in Slots', Hole(s)' PROVE s \in Slots /\ (Hole(s) \/ (s = x /\ ~caught_in_a_loop /\ caught_in_a_loop'))
  <2>1. s \in Slots
    BY <1>2 DEF Hole, Named, Grows
  <2>2. s # x => Hole(s)
    BY <1>2, <2>1 DEF Hole, Named, Grows
  <2>3. s = x => Hole(s) \/ (~caught_in_a_loop /\ caught_in_a_loop')
    BY <1>2, <2>1 DEF Hole, Named
  <2> QED BY <2>1, <2>2, <2>3
<1>3. ASSUME NEW s \in Slots', NEW t \in Slots', Hole(s)', Hole(t)'
      PROVE  s = t /\ caught_in_a_loop'
  BY <1>2, <1>3 DEF OneHole
<1> QED BY <1>1, <1>3 DEF PlacesInv, OneHole

\* What has a builder or a block, when a node is cast.
LEMMA NamedFill ==
  ASSUME IInv, TreeInv, NamedInv, NEW x, Grows(x), x \in Dirs' => rn'[x].nm # NoName,
         \A k \in 1 .. Depth' : \/ \E j \in 1 .. Depth : stack'[k].at = stack[j].at
                                \/ rn'[stack'[k].at].nm # NoName
  PROVE  NamedInv'
<1>1. \A s \in Slots : rn[s].nm # NoName => rn'[s].nm # NoName
  BY DEF Grows
<1>2. \A d \in Dirs' : rn'[d].nm # NoName
  <2>1. \A d \in Dirs : d \in Slots /\ rn[d].nm # NoName
    BY DEF NamedInv, Named, Dirs
  <2> QED BY <1>1, <2>1, DirsGrow
<1>3. ASSUME NEW j \in 1 .. Depth PROVE rn'[stack[j].at].nm # NoName
  <2>1. stack[j].at \in Slots /\ rn[stack[j].at].nm # NoName
    BY FrameFacts DEF NamedInv, Named, IInv
  <2> QED BY <1>1, <2>1
<1>4. \A k \in 1 .. Depth' : rn'[stack'[k].at].nm # NoName
  BY <1>3
<1> QED BY <1>2, <1>4 DEF NamedInv, Named

\* The places of a frame, while its node keeps its type.
LEMMA PlacesFilled ==
  ASSUME IInv, NEW x, Grows(x), NEW k \in 1 .. Depth, stack[k].kid > 0,
         rn'[stack[k].at].rtype = rn[stack[k].at].rtype,
         NEW f, f.at = stack[k].at, f.blk = stack[k].blk
  PROVE  /\ \A p : Pos(f, p)' = Pos(stack[k], p)
         /\ \A p \in 1 .. NKids(stack[k].at) :
               /\ Pos(stack[k], p) \in Slots
               /\ rn[Pos(stack[k], p)].gen # 0 => rn'[Pos(stack[k], p)].gen # 0
<1>1. \A p : Pos(f, p)' = Pos(stack[k], p)
  BY DEF Pos
<1>2. PICK g \in Frames : g = stack[k]
  BY LenProperties DEF IInv, VarsInv, Depth
<1>3. PICK n \in Nat : n = NKids(g.at) /\ (rn[g.at].rtype = "ROOT" => n = 3)
  BY <1>2, FrameFacts DEF IInv
<1>4. g.at < g.blk /\ g.blk + n < nxt_avail /\ g.at \in Slots /\ g.blk \in Nat
  <2>1. BlockOK(k) /\ stack[k].at \in Slots
    BY FrameFacts DEF IInv, BlockInv
  <2> QED BY <1>2, <1>3, <2>1 DEF BlockOK, Frames
<1>5. \A p \in 1 .. n : Pos(g, p) \in g.blk .. (g.blk + n - 1)
  BY <1>2, <1>3, PosIs
<1>6. \A p \in 1 .. n : Pos(g, p) \in Slots
  BY <1>3, <1>4, <1>5 DEF Slots, IInv, PoolInv
<1>7. \A s \in Slots : rn[s].gen # 0 => rn'[s].gen # 0
  BY DEF Grows
<1> QED BY <1>1, <1>2, <1>3, <1>6, <1>7

\* A builder below the innermost is as far as it was.
LEMMA LowerFilled ==
  ASSUME IInv, FilledInv, NEW x, Grows(x), NEW k \in 1 .. Depth, k < Depth,
         stack'[k] = stack[k], rn'[stack[k].at].rtype = rn[stack[k].at].rtype, ret' # Pending \/ k < Depth'
  PROVE  FilledOK(k)'
<1> SUFFICES ASSUME stack[k].kid > 0, NEW p, p \in 1 .. Done(k)' PROVE rn'[Pos(stack[k], p)'].gen # 0
  BY DEF FilledOK
<1>1. stack[k] \in Frames
  BY LenProperties DEF IInv, VarsInv, Depth
<1>2. Done(k) = stack[k].kid /\ Done(k)' = stack[k].kid
  BY DEF Done
<1>3. stack[k].kid \in 1 .. NKids(stack[k].at)
  <2>1. k + 1 \in 1 .. Depth /\ k + 1 > 1 /\ k + 1 - 1 = k
    BY LenProperties DEF IInv, VarsInv, Depth
  <2> QED BY <2>1 DEF IInv, FrameInv, FrameOK
<1>4. p \in 1 .. NKids(stack[k].at) /\ p \in 1 .. Done(k)
  <2>1. NKids(stack[k].at) \in Nat /\ stack[k].kid \in Nat
    BY <1>1, FrameFacts DEF Frames, IInv
  <2>2. p \in 1 .. stack[k].kid
    BY <1>2, Zenon
  <2> QED BY <1>2, <1>3, <2>1, <2>2
<1>5. rn[Pos(stack[k], p)].gen # 0
  BY <1>4 DEF FilledInv, FilledOK
<1> QED BY <1>4, <1>5, PlacesFilled

\* The slots of a directory.
LEMMA KidsIn ==
  ASSUME IInv, NEW d \in Dirs
  PROVE  \A s \in Kids(d) : s \in Slots
<1>1. d \in Slots /\ rn[d].children # NULL /\ NodeOK(rn[d])
  BY DEF Dirs, IInv, PoolInv
<1>2. rn[d].children \in Slots /\ rn[d].n \in Nat
  BY <1>1 DEF NodeOK
<1>3. rn[d].children + rn[d].n < nxt_avail
  BY DEF IInv, DirsInv, GuardOf
<1> QED BY <1>1, <1>2, <1>3 DEF Kids, Slots, IInv, PoolInv

\* Directories are full once their builders have returned, unless all is lost.
LEMMA FullThen ==
  ASSUME IInv, TreeInv, FullInv, NEW x, Grows(x),
         Live' /\ ~Doomed' =>
            /\ Live /\ ~Doomed
            /\ \A k \in 1 .. Depth : stack[k].at \in Dirs =>
                  \/ rn[stack[k].at].rtype = "JOBID"
                  \/ \E j \in 1 .. Depth' : stack'[j].at = stack[k].at
                  \/ \A s \in Kids(stack[k].at) : rn[s].gen # 0
            /\ x \in Dirs' => /\ \E j \in 1 .. Depth' : stack'[j].at = x
                              /\ \A s \in Kids(x)' : rn'[s].gen = 0
            /\ x \in Slots => \/ rn'[x].nm # NoName
                              \/ rn[x].nm = NoName /\ rn[x].gen # 0
                              \/ \A d \in Dirs : x \in Kids(d) => rn[d].rtype \in {"JOBS", "JOBID"}
  PROVE  FullInv'
<1> SUFFICES ASSUME Live', ~Doomed', NEW d \in Dirs' PROVE FullOK(d)' /\ HoleOK(d)'
  BY DEF FullInv
<1>1. CASE d \in Dirs
  <2>1. d # x /\ rn'[d] = rn[d] /\ Kids(d)' = Kids(d) /\ \A s \in Kids(d) : s \in Slots
    BY <1>1, DirsGrow, KidsIn
  <2>2. FullOK(d) /\ HoleOK(d)
    BY <1>1 DEF FullInv
  <2>3. \A s \in Kids(d) : rn[s].gen # 0 => rn'[s].gen # 0
    BY <2>1 DEF Grows
  <2>4. FullOK(d)'
    <3>1. CASE rn[d].rtype = "JOBID"
      BY <2>1, <3>1 DEF FullOK
    <3>2. CASE \A s \in Kids(d) : rn[s].gen # 0
      BY <2>1, <2>3, <3>2 DEF FullOK
    <3>3. CASE \E k \in 1 .. Depth : stack[k].at = d
      <4>1. \/ rn[d].rtype = "JOBID"
            \/ \E j \in 1 .. Depth' : stack'[j].at = d
            \/ \A s \in Kids(d) : rn[s].gen # 0
        BY <1>1, <3>3
      <4> QED BY <3>1, <3>2, <4>1 DEF FullOK
    <3> QED BY <2>2, <3>1, <3>2, <3>3 DEF FullOK
  <2>5. HoleOK(d)'
    <3> SUFFICES ASSUME rn[d].rtype \notin {"JOBS", "JOBID"}, NEW s \in Kids(d),
                        rn'[s].nm = NoName, rn'[s].gen # 0
                 PROVE  FALSE
      BY <2>1 DEF HoleOK, Hole, Named
    <3>1. ~(rn[s].nm = NoName /\ rn[s].gen # 0) /\ s \in Slots
      BY <2>1, <2>2 DEF HoleOK, Hole, Named
    <3>2. s = x
      BY <3>1 DEF Grows
    <3> QED BY <1>1, <3>1, <3>2
  <2> QED BY <2>4, <2>5
<1>2. CASE d \notin Dirs
  <2>1. d = x
    BY <1>2, DirsGrow
  <2> QED BY <2>1 DEF FullOK, HoleOK, Hole
<1> QED BY <1>1, <1>2

\* What is said of p_jobd by a builder that does not move.
LEMMA JobdKept ==
  ASSUME JobdInv, JobdIs => JobdIs', NEW k \in 1 .. Depth, stack'[k] = stack[k],
         rn'[stack[k].at].rtype = rn[stack[k].at].rtype,
         \/ k # Depth'
         \/ ~(ret' > NULL)
  PROVE  JobdOK(k)'
<1>1. JobdOK(k)
  BY DEF JobdInv
<1>2. PICK f : f = stack[k] /\ f = stack'[k]
  OBVIOUS
<1>3. /\ rn[f.at].rtype = "CLUSTER" /\ f.kid > 3 => JobdIs
      /\ rn[f.at].rtype = "ROOT" /\ f.kid > 2 => JobdIs
  BY <1>1, <1>2 DEF JobdOK
<1> QED BY <1>2, <1>3 DEF JobdOK

-----------------------------------------------------------------------------
(* rn_cast() *)

\* The cluster and the directory of jobs are the third of their blocks.
LEMMA ThirdPlace ==
  ASSUME IInv, NEW k, NEW s, NEW x, NEW c, CastsInto(k, s, x, c), c.rtype \in {"CLUSTER", "JOBS"}
  PROVE  x = rn[s].children + 2
<1>1. PICK f \in Frames : f = stack[k] /\ f.at = s
  BY DEF CastsInto
<1>2. rn[s].rtype \in {"ROOT", "CLUSTER"} /\ (rn[s].rtype = "ROOT" <=> c.rtype = "CLUSTER")
  BY DEF CastsInto, MayHold
<1>3. NKids(s) = 3 /\ f.kid \in 1 .. 3 /\ f.kid > 0
  BY <1>1, <1>2, FixedLists DEF CastsInto, NKids
<1>4. rn[s].rtype = "ROOT" => f.kid = 2
  <2>1. rn[s].rtype = "ROOT" => c.rtype = Children(s)[f.kid].rtype
    BY <1>1 DEF CastsInto
  <2>2. rn[s].rtype = "ROOT" => /\ Children(s)[1].rtype = "ATTRIBUTES"
                                /\ Children(s)[3].rtype = "CONTROL"
    BY FixedLists DEF CastsInto
  <2> QED BY <1>2, <1>3, <2>1, <2>2
<1>5. rn[s].rtype = "CLUSTER" => f.kid = 3
  <2> SUFFICES ASSUME rn[s].rtype = "CLUSTER" PROVE f.kid = 3
    OBVIOUS
  <2>1. Children(s) = ClusterChildren
    BY ChildrenIs DEF CastsInto
  <2>2. ClusterChildren[1].rtype = "ATTRIBUTES" /\ ClusterChildren[2].rtype = "PARTS"
    <3>1. \A a, b, d : <<a, b, d>>[1] = a /\ <<a, b, d>>[2] = b
      OBVIOUS
    <3>2. \A rtype, nm, dyn, onNull : Dir(rtype, nm, dyn, onNull).rtype = rtype
      BY DEF Dir, Child
    <3> QED BY <3>1, <3>2 DEF ClusterChildren
  <2>3. c = Children(s)[f.kid]
    BY <1>1 DEF CastsInto
  <2> QED BY <1>2, <1>3, <2>1, <2>2, <2>3
<1>6. rn[s].children = f.blk /\ f.blk \in Nat
  <2>1. BlockOK(k)
    BY DEF IInv, BlockInv, CastsInto
  <2> QED BY <1>1, <1>2, <1>3, <2>1 DEF BlockOK, Frames
<1>7. x = Pos(f, f.kid)
  BY <1>1 DEF CastsInto
<1> QED BY <1>1, <1>2, <1>4, <1>5, <1>6, <1>7 DEF Pos

\* The slots of the running builders' children, when one more is cast.
LEMMA CastFilled ==
  ASSUME IInv, FilledInv, NEW k, NEW s, NEW x, NEW c, CastsInto(k, s, x, c),
         Depth' = k + 1 \/ (Depth' = k /\ ret' = NULL)
  PROVE  /\ \A i \in 1 .. k : FilledOK(i)'
         /\ \A i \in 1 .. k : rn'[stack[i].at] = rn[stack[i].at]
<1>1. /\ k \in Nat /\ k = Depth /\ k \in 1 .. Depth /\ Grows(x) /\ s = stack[k].at
      /\ \A i \in 1 .. k : stack'[i] = stack[i] /\ stack[i].at # x
  BY DEF CastsInto
<1>2. \A i \in 1 .. k : rn'[stack[i].at] = rn[stack[i].at]
  BY <1>1, FrameFacts DEF Grows, IInv
<1>3. \A i \in 1 .. k : i < k => FilledOK(i)'
  <2>1. \A i \in 1 .. k : i < k => i < Depth' /\ i < Depth /\ i \in 1 .. Depth
    BY <1>1
  <2> QED BY <1>1, <1>2, <2>1, LowerFilled
<1>4. FilledOK(k)'
  <2>1. PICK f \in Frames : f = stack[k] /\ f = stack'[k] /\ f.kid \in 1 .. NKids(s)
    BY <1>1 DEF CastsInto
  <2> SUFFICES ASSUME NEW p, p \in 1 .. Done(k)' PROVE rn'[Pos(f, p)'].gen # 0
    BY <2>1 DEF FilledOK
  <2>2. Done(k) = f.kid - 1 /\ Done(k)' = f.kid
    BY <1>1, <2>1 DEF Done, CastsInto
  <2>3. PICK n \in Nat : n = NKids(s) /\ f.kid \in 1 .. n /\ f.kid \in Nat /\ f.kid > 0
    <3>1. NKids(s) \in Nat
      BY <1>1, FrameFacts DEF IInv
    <3> QED BY <2>1, <3>1 DEF Frames
  <2>4. p \in 1 .. f.kid
    BY <2>2, Zenon
  <2>5. p \in 1 .. n /\ (p = f.kid \/ p \in 1 .. Done(k))
    BY <2>2, <2>3, <2>4
  <2>6. Pos(f, p)' = Pos(f, p) /\ (rn[Pos(f, p)].gen # 0 => rn'[Pos(f, p)].gen # 0)
    BY <1>1, <1>2, <2>1, <2>3, <2>5, PlacesFilled
  <2>7. Pos(f, f.kid) = x /\ rn'[x].gen # 0
    BY <1>1, <2>1 DEF CastsInto, Grows
  <2>8. p \in 1 .. Done(k) => rn[Pos(f, p)].gen # 0
    BY <1>1, <2>1, <2>3 DEF FilledInv, FilledOK
  <2> QED BY <2>5, <2>6, <2>7, <2>8
<1>5. \A i \in 1 .. k : i = k \/ i < k
  BY <1>1
<1> QED BY <1>2, <1>3, <1>4, <1>5

\* A child's builder is called.
LEMMA CallFill ==
  ASSUME IInv, TreeInv, FillInv, NEW k, NEW s, NEW x, NEW c, Calls(k, s, x, c)
  PROVE  FillInv'
<1>1. /\ k \in Nat /\ k = Depth /\ k \in 1 .. Depth /\ CastsInto(k, s, x, c) /\ Grows(x)
      /\ Depth' = k + 1 /\ stack'[k + 1] = Frame(x) /\ ret = Pending /\ ret' = Pending
      /\ rn'[x].nm = c.nm /\ c.nm # NoName /\ rn'[x].parent = s /\ rn'[x].rtype = c.rtype
      /\ \A i \in 1 .. k : stack'[i] = stack[i]
      /\ Building /\ UNCHANGED <<caught_in_a_loop, p_jobd, status>>
      /\ x \notin Dirs' /\ s \in Slots /\ s # x
  BY DEF Calls, CastsInto, Sound, Dirs
<1>2. Frame(x).at = x /\ Frame(x).kid = 0
  BY DEF Frame
<1>3. \A i \in 1 .. Depth' : i = k + 1 \/ i \in 1 .. k
  BY <1>1
<1>4. /\ \A i \in 1 .. k : FilledOK(i)'
      /\ \A i \in 1 .. k : rn'[stack[i].at] = rn[stack[i].at]
  BY <1>1, CastFilled DEF FillInv
<1>5. NullOK'
  BY <1>1 DEF NullOK
<1>6. NamedInv'
  <2>1. \A i \in 1 .. Depth' : \/ \E j \in 1 .. Depth : stack'[i].at = stack[j].at
                               \/ rn'[stack'[i].at].nm # NoName
    BY <1>1, <1>2, <1>3
  <2> QED BY <1>1, <2>1, NamedFill DEF FillInv
<1>7. PlacesInv' /\ OneHole'
  <2>1. PlaceOK(x)'
    <3> SUFFICES ASSUME c.rtype \in {"CLUSTER", "JOBS"} PROVE x = rn'[s].children + 2
      BY <1>1 DEF PlaceOK
    <3>1. rn'[s] = rn[s]
      BY <1>1 DEF Grows
    <3> QED BY <1>1, <3>1, ThirdPlace
  <2> QED BY <1>1, <2>1, NodesFill DEF FillInv
<1>8. FilledInv'
  <2>1. FilledOK(k + 1)'
    BY <1>1, <1>2 DEF FilledOK
  <2> QED BY <1>3, <1>4, <2>1 DEF FilledInv
<1>9. FullInv'
  <2>1. Live /\ ~Doomed
    BY <1>1 DEF Live, Doomed, Building
  <2>2. \A j \in 1 .. Depth : j \in 1 .. Depth' /\ stack'[j].at = stack[j].at
    BY <1>1
  <2> QED BY <1>1, <2>1, <2>2, FullThen DEF FillInv
<1>10. JobdInv'
  <2>1. JobdIs => JobdIs'
    BY <1>1, DirsGrow
  <2>2. \A i \in 1 .. k : JobdOK(i)'
    <3>1. \A i \in 1 .. k : i \in 1 .. Depth /\ i # Depth'
      BY <1>1
    <3> QED BY <1>1, <1>4, <2>1, <3>1, JobdKept DEF FillInv
  <2>3. JobdOK(k + 1)'
    BY <1>1, <1>2 DEF JobdOK
  <2>4. status' # "mounted"
    BY <1>1 DEF Building
  <2> QED BY <1>3, <2>2, <2>3, <2>4 DEF JobdInv
<1> QED BY <1>5, <1>6, <1>7, <1>8, <1>9, <1>10 DEF FillInv

\* A twin is found: from then on the assertion has failed.
LEMMA MissFill ==
  ASSUME IInv, TreeInv, FillInv, NEW k, NEW s, NEW x, NEW c, Misses(k, s, x, c)
  PROVE  FillInv'
<1>1. /\ k \in Nat /\ k = Depth /\ k \in 1 .. Depth /\ CastsInto(k, s, x, c) /\ Grows(x)
      /\ Depth' = k /\ ret = Pending /\ ret' = NULL
      /\ rn'[x].nm = NoName /\ ~caught_in_a_loop /\ caught_in_a_loop'
      /\ \A i \in 1 .. k : stack'[i] = stack[i]
      /\ Building /\ UNCHANGED <<p_jobd, status>> /\ s = stack[k].at
      /\ x \notin Dirs' /\ \A d \in Dirs : x \in Kids(d) => d = s
  BY DEF Misses, CastsInto, Dirs
<1>2. /\ \A i \in 1 .. k : FilledOK(i)'
      /\ \A i \in 1 .. k : rn'[stack[i].at] = rn[stack[i].at]
  BY <1>1, CastFilled DEF FillInv
<1>3. NullOK'
  BY <1>1 DEF NullOK
<1>4. NamedInv'
  <2>1. \A i \in 1 .. Depth' : \E j \in 1 .. Depth : stack'[i].at = stack[j].at
    BY <1>1
  <2> QED BY <1>1, <2>1, NamedFill DEF FillInv
<1>5. PlacesInv' /\ OneHole'
  <2>1. PlaceOK(x)'
    BY <1>1 DEF PlaceOK, Named
  <2> QED BY <1>1, <2>1, NodesFill DEF FillInv
<1>6. FilledInv'
  BY <1>1, <1>2 DEF FilledInv
<1>7. FullInv'
  <2>1. Live /\ ~Doomed
    BY <1>1 DEF Live, Doomed, Building
  <2>2. \A j \in 1 .. Depth : j \in 1 .. Depth' /\ stack'[j].at = stack[j].at
    BY <1>1
  <2>3. ~Doomed' => rn[s].rtype \in {"JOBS", "JOBID"}
    <3>1. Building' /\ stack' # <<>> /\ Top'.at = s
      <4>1. Len(stack') = k
        BY <1>1 DEF Depth
      <4>2. stack' # <<>>
        BY <1>1, <4>1
      <4> QED BY <1>1, <4>1, <4>2 DEF Building, Top
    <3>2. rn'[s] = rn[s]
      BY <1>1, <1>2
    <3> QED BY <1>1, <3>1, <3>2 DEF Doomed
  <2> QED BY <1>1, <2>1, <2>2, <2>3, FullThen DEF FillInv
<1>8. JobdInv'
  <2>1. JobdIs => JobdIs'
    BY <1>1, DirsGrow
  <2>2. \A i \in 1 .. k : JobdOK(i)'
    BY <1>1, <1>2, <2>1, JobdKept DEF FillInv
  <2>3. status' # "mounted"
    BY <1>1 DEF Building
  <2> QED BY <1>1, <2>2, <2>3 DEF JobdInv
<1> QED BY <1>3, <1>4, <1>5, <1>6, <1>7, <1>8 DEF FillInv

-----------------------------------------------------------------------------
(* A builder that returns, or gives up *)

\* The builder of s, the k-th, returns to its caller; x is the leaf it has cast.
GivesBack(k, s, x) ==
    /\ k \in Nat /\ k = Depth /\ k > 1 /\ k \in 1 .. Depth /\ stack # <<>> /\ Building
    /\ s = stack[k].at /\ Top = stack[k] /\ stack[k] \in Frames
    /\ Grows(x) /\ (x \in Slots => rn'[x].nm # NoName /\ rn'[x].rtype \in AttrTypes /\ rn'[x].children = NULL)
    /\ Depth' = k - 1 /\ stack' = Below
    /\ \A i \in 1 .. (k - 1) : stack'[i] = stack[i] /\ rn'[stack[i].at] = rn[stack[i].at]
    /\ ret' # Pending /\ UNCHANGED <<in, nxt_avail, status, p_fsroot>>

\* A stack that is cut by one, with the nodes as they are but for a leaf.
LEMMA GiveIs ==
  ASSUME IInv, Building, stack # <<>>, stack' = Below, Below # <<>>,
         NEW x, Grows(x), x \in Slots => /\ rn'[x].nm # NoName /\ rn'[x].rtype \in AttrTypes
                                         /\ rn'[x].children = NULL /\ x = Top.at,
         ret' # Pending, UNCHANGED <<in, nxt_avail, status, p_fsroot>>
  PROVE  \E k \in Nat : GivesBack(k, Top.at, x)
<1>1. PICK k \in Nat : /\ k = Depth /\ k >= 1 /\ Top \in Frames /\ Top = stack[k] /\ k # 1
                       /\ Len(Below) = k - 1 /\ \A i \in 1 .. (k - 1) : Below[i] = stack[i]
  BY TopIs DEF IInv, VarsInv
<1>2. Depth' = k - 1 /\ \A i \in 1 .. (k - 1) : stack'[i] = stack[i]
  BY <1>1 DEF Depth
<1>3. \A i \in 1 .. (k - 1) : rn'[stack[i].at] = rn[stack[i].at]
  <2> SUFFICES ASSUME NEW i \in 1 .. (k - 1) PROVE rn'[stack[i].at] = rn[stack[i].at]
    OBVIOUS
  <2>1. i \in 1 .. Depth /\ k \in 1 .. Depth /\ i < k
    BY <1>1
  <2>2. stack[i].at \in Slots /\ stack[k].at \in Slots
    BY <2>1, FrameFacts DEF IInv
  <2>3. stack[i].at < stack[k].at
    BY <2>1 DEF IInv, OrderInv, OrderOK
  <2>4. stack[i].at # Top.at
    BY <1>1, <2>2, <2>3 DEF Slots, IInv, PoolInv
  <2> QED BY <2>2, <2>4 DEF Grows
<1>4. k > 1 /\ k \in 1 .. Depth
  BY <1>1
<1>5. GivesBack(k, Top.at, x)
  BY <1>1, <1>2, <1>3, <1>4 DEF GivesBack
<1> QED BY <1>5

\* What a return keeps.
LEMMA PopFill ==
  ASSUME IInv, TreeInv, FillInv, NEW k, NEW s, NEW x, GivesBack(k, s, x), NullOK',
         caught_in_a_loop => caught_in_a_loop',
         Live' /\ ~Doomed' =>
            /\ ~Doomed
            /\ s \in Dirs => rn[s].rtype = "JOBID" \/ \A t \in Kids(s) : rn[t].gen # 0,
         JobdIs => JobdIs', NEW g, g = stack[k - 1],
         ret' > NULL => /\ rn[g.at].rtype = "CLUSTER" /\ g.kid = 3 => JobdIs'
                        /\ rn[g.at].rtype = "ROOT" /\ g.kid = 2 => JobdIs'
  PROVE  FillInv'
<1>1. /\ k \in Nat /\ k = Depth /\ k > 1 /\ k \in 1 .. Depth /\ Building /\ s = stack[k].at
      /\ Grows(x) /\ (x \in Slots => rn'[x].nm # NoName /\ rn'[x].rtype \in AttrTypes)
      /\ x \notin Dirs' /\ Depth' = k - 1 /\ ret' # Pending /\ UNCHANGED <<nxt_avail, status>>
      /\ \A i \in 1 .. (k - 1) : stack'[i] = stack[i] /\ rn'[stack[i].at] = rn[stack[i].at]
  BY DEF GivesBack, Dirs, Slots
<1>2. \A i \in 1 .. (k - 1) : i \in 1 .. Depth /\ i < Depth
  BY <1>1
<1>3. NamedInv'
  <2>1. \A i \in 1 .. Depth' : \E j \in 1 .. Depth : stack'[i].at = stack[j].at
    BY <1>1, <1>2
  <2> QED BY <1>1, <2>1, NamedFill DEF FillInv
<1>4. PlacesInv' /\ OneHole'
  <2>1. x \in Slots => PlaceOK(x)'
    <3>1. AttrTypes \cap {"CLUSTER", "JOBS"} = {}
      BY DEF AttrTypes, AttrSubtypes
    <3> QED BY <1>1, <3>1 DEF PlaceOK
  <2> QED BY <1>1, <2>1, NodesFill DEF FillInv
<1>5. FilledInv'
  <2>1. \A i \in 1 .. (k - 1) : FilledOK(i)'
    BY <1>1, <1>2, LowerFilled DEF FillInv
  <2> QED BY <1>1, <2>1 DEF FilledInv
<1>6. FullInv'
  <2>1. Live
    BY <1>1 DEF Live, Building
  <2>2. \A j \in 1 .. Depth : j = k \/ (j \in 1 .. Depth' /\ stack'[j].at = stack[j].at)
    BY <1>1
  <2> QED BY <1>1, <2>1, <2>2, FullThen DEF FillInv
<1>7. JobdInv'
  <2>1. \A i \in 1 .. (k - 1) : i # k - 1 => JobdOK(i)'
    BY <1>1, <1>2, JobdKept DEF FillInv
  <2>2. ~(ret' > NULL) => JobdOK(k - 1)'
    BY <1>1, <1>2, JobdKept DEF FillInv
  <2>3. JobdOK(k - 1)'
    <3> SUFFICES ASSUME ret' > NULL PROVE JobdOK(k - 1)'
      BY <2>2
    <3>1. PICK f : f = g /\ f = stack'[k - 1] /\ k - 1 \in 1 .. Depth
      BY <1>1, <1>2
    <3>2. JobdOK(k - 1) /\ f = stack[k - 1]
      BY <3>1 DEF FillInv, JobdInv
    <3>3. rn'[f.at] = rn[f.at]
      BY <1>1, <3>2
    <3>4. /\ rn[f.at].rtype = "CLUSTER" /\ f.kid > 3 => JobdIs
          /\ rn[f.at].rtype = "ROOT" /\ f.kid > 2 => JobdIs
      BY <3>2 DEF JobdOK
    <3> QED BY <3>1, <3>3, <3>4 DEF JobdOK
  <2>4. \A i \in 1 .. Depth' : i = k - 1 \/ (i \in 1 .. (k - 1) /\ i # k - 1)
    BY <1>1
  <2>5. status' # "mounted"
    BY <1>1 DEF Building
  <2> QED BY <2>1, <2>3, <2>4, <2>5 DEF JobdInv
<1> QED BY <1>3, <1>4, <1>5, <1>6, <1>7 DEF FillInv

\* A builder that gives up: its caller misses the child as the type says.
LEMMA FailFill ==
  ASSUME IInv, TreeInv, FillInv, NEW sev \in {"WARN", "ASSERT"}, Fail(sev), ~Exit, Building, stack # <<>>,
         NEW k, k = Depth, k \in 1 .. Depth, NEW s, s = stack[k].at,
         sev = "WARN" => rn[s].rtype \in {"CLUSTER", "JOBS", "JOBSTEPS", "JOBID"},
         k > 1 /\ rn[stack[k - 1].at].rtype \in {"JOBS", "JOBID"} =>
            ~Doomed /\ (s \in Dirs => rn[s].rtype = "JOBID" \/ \A t \in Kids(s) : rn[t].gen # 0)
  PROVE  FillInv'
<1>1. /\ Below # <<>> /\ Catch(sev) /\ stack' = Below /\ ret' = NULL
      /\ UNCHANGED <<in, rn, nxt_avail, p_fsroot, p_jobd, status>>
  BY DEF Fail, pool, roots
<1>2. Top.at = s /\ NULL \notin Slots
  BY TopIs DEF IInv, VarsInv, Slots
<1>3. Grows(NULL)
  <2>1. Slots' = Slots
    BY <1>1 DEF Slots
  <2> QED BY <1>1, <1>2, <2>1 DEF Grows
<1>4. PICK l \in Nat : GivesBack(l, s, NULL)
  BY <1>1, <1>2, <1>3, GiveIs
<1>5. l = k /\ k > 1 /\ stack' = Below /\ Depth' = k - 1 /\ stack'[k - 1] = stack[k - 1]
  BY <1>4 DEF GivesBack
<1>6. PICK g : g = stack[k - 1] /\ k - 1 \in 1 .. Depth /\ k \in Nat
  BY <1>5
<1>7. Top' = g
  BY <1>5, <1>6 DEF Top, Depth
<1>8. Doomed' <=> rn[g.at].rtype \notin {"JOBS", "JOBID"}
  <2>1. stack' # <<>>
    BY <1>5, <1>6 DEF Depth
  <2> QED BY <1>1, <1>7, <2>1 DEF Doomed, Building
<1>9. NullOK'
  <2>1. sev = "ASSERT" => caught_in_a_loop'
    BY <1>1 DEF Catch
  <2>2. sev = "WARN" => NextChild'.onNull # "ASSERT"
    <3>1. PICK c : c = Children(g.at)[g.kid]
      OBVIOUS
    <3>2. c.rtype = rn[s].rtype /\ g.kid \in 1 .. NKids(g.at)
      BY <1>5, <1>6, <3>1 DEF IInv, FrameInv, FrameOK
    <3>3. Listable(g.at)
      <4>1. rn[g.at].rtype \in BuiltTypes
        BY <1>6, FrameFacts DEF IInv
      <4>2. rn[g.at].rtype # "ROOT" => MayHold(rn[rn[g.at].parent].rtype, rn[g.at].rtype)
        BY <1>6 DEF IInv, FrameInv, FrameOK
      <4> QED BY <4>1, <4>2 DEF Listable, IInv, PoolInv
    <3>4. Sound(c)
      BY <3>1, <3>2, <3>3, ChildrenSound
    <3>5. sev = "WARN" => c.onNull # "ASSERT"
      BY <3>2, <3>4 DEF Sound
    <3>6. Children(g.at)' = Children(g.at)
      <4>1. Depth \in Nat
        BY <1>6
      <4>2. \A j \in 1 .. Depth :
              LET t == stack[j].at
              IN /\ rn'[t].rtype = rn[t].rtype /\ rn'[t].parent = rn[t].parent
                 /\ \/ rn'[t].dyn = rn[t].dyn
                    \/ j = Depth /\ rn[t].rtype \in ListTypes \cup {"JOBID"}
        BY <1>1
      <4>3. Depth \in 1 .. Depth
        BY <1>5, <1>6
      <4> QED BY <1>1, <1>6, <4>1, <4>2, <4>3, ListsKept DEF IInv
    <3>7. NextChild' = c
      BY <1>7, <3>1, <3>6, Zenon DEF NextChild
    <3> QED BY <3>5, <3>7
  <2> QED BY <2>1, <2>2 DEF NullOK
<1>10. Live' /\ ~Doomed' => ~Doomed /\ (s \in Dirs => rn[s].rtype = "JOBID" \/ \A t \in Kids(s) : rn[t].gen # 0)
  BY <1>5, <1>6, <1>8
<1>11. JobdIs => JobdIs'
  BY <1>1, <1>3, DirsGrow
<1>12. caught_in_a_loop => caught_in_a_loop'
  BY <1>1 DEF Catch
<1>13. ~(ret' > NULL)
  BY <1>1
<1> QED BY <1>4, <1>5, <1>6, <1>9, <1>10, <1>11, <1>12, <1>13, PopFill

\* The checks that warn are those of jobs and of job steps.
LEMMA RefuseFill ==
  ASSUME IInv, TreeInv, FillInv, Refuse, ~Exit
  PROVE  FillInv'
<1>1. stack # <<>> /\ Building /\ Check(Top.at) # "OK" /\ Fail(Check(Top.at)) /\ Top.kid = 0
  BY DEF Refuse, Entered, Running, Building
<1>2. PICK k \in Nat : k = Depth /\ k \in 1 .. Depth /\ Top = stack[k]
  BY <1>1, TopIs DEF IInv, VarsInv
<1>3. PICK s : s = Top.at /\ s = stack[k].at
  BY <1>2
<1>4. rn[s].rtype \in BuiltTypes /\ rn[s].children = NULL /\ ret = Pending
  <2>1. EnteredOK(k) /\ rn[s].rtype \in BuiltTypes
    BY <1>2, <1>3, FrameFacts DEF IInv, EnteredInv
  <2> QED BY <1>1, <1>2, <1>3, <2>1 DEF EnteredOK
<1>5. ~Doomed /\ s \notin Dirs
  BY <1>4 DEF Doomed, Dirs
<1>6. /\ Check(s) \in {"WARN", "ASSERT"}
      /\ Check(s) = "WARN" => Row(rn[s].rtype) \in {"JOBS", "JOBSTEPS"}
  <2>1. \A msg : IsReply(msg) => Kind(msg) \in {"missing", "stale", "noarray", "empty", "array"}
    BY DEF IsReply, Kind
  <2>2. IsReply(in.part) /\ IsReply(in.node) /\ IsReply(in.job) /\ IsReply(in.step)
    BY InputsAssumption DEF IInv, PoolInv
  <2>3. PICK part, node, job, step : /\ part = Kind(in.part) /\ node = Kind(in.node)
                                     /\ job = Kind(in.job) /\ step = Kind(in.step)
    OBVIOUS
  <2>4. {part, node, job, step} \subseteq {"missing", "stale", "noarray", "empty", "array"}
    BY <2>1, <2>2, <2>3
  <2>5. PICK row : row = Row(rn[s].rtype)
    OBVIOUS
  <2>6. Check(s) = CASE row = "PARTS"    -> PartsCheck[part]
                     [] row = "NODES"    -> NodesCheck[node]
                     [] row = "JOBS"     -> JobsCheck[job]
                     [] row = "JOBSTEPS" -> StepsCheck[step]
                     [] OTHER -> "OK"
    BY <2>3, <2>5, Zenon DEF Check
  <2>7. Check(s) # "OK"
    BY <1>1, <1>3
  <2>8. row = "PARTS" => Check(s) \in {"OK", "ASSERT"}
    BY <2>4, <2>6 DEF PartsCheck
  <2>9. row = "NODES" => Check(s) \in {"OK", "ASSERT"}
    BY <2>4, <2>6 DEF NodesCheck
  <2>10. row = "JOBS" => Check(s) \in {"OK", "WARN", "ASSERT"}
    BY <2>4, <2>6 DEF JobsCheck
  <2>11. row = "JOBSTEPS" => Check(s) \in {"OK", "WARN", "ASSERT"}
    BY <2>4, <2>6 DEF StepsCheck
  <2>12. row \in {"PARTS", "NODES", "JOBS", "JOBSTEPS"}
    BY <2>6, <2>7
  <2> QED BY <2>5, <2>7, <2>8, <2>9, <2>10, <2>11, <2>12
<1>7. Check(s) = "WARN" => rn[s].rtype \in {"CLUSTER", "JOBS", "JOBSTEPS", "JOBID"}
  BY <1>4, <1>6, BuiltRows
<1> QED BY <1>1, <1>2, <1>3, <1>5, <1>6, <1>7, FailFill

\* A builder goes on to its next child.
LEMMA AdvanceFill ==
  ASSUME IInv, TreeInv, FillInv, stack # <<>>, Building, ret # Pending, NEW nx \in Nat,
         SetTop(Advanced(Top, nx)), ret' = Pending,
         UNCHANGED <<in, rn, nxt_avail, caught_in_a_loop, p_jobd, status>>,
         ret > NULL \/ (ret = NULL /\ rn[Top.at].rtype = "JOBS")
  PROVE  FillInv'
<1>1. PICK k \in Nat : k = Depth /\ k \in 1 .. Depth /\ Top = stack[k] /\ k >= 1 /\ Top \in Frames
  BY TopIs DEF IInv, VarsInv
<1>2. PICK f \in Frames : f = Advanced(Top, nx) /\ f.at = Top.at /\ f.blk = Top.blk /\ f.kid = Top.kid + 1
  BY <1>1, FrameStep
<1>3. SetTop(f)
  BY <1>2, Zenon
<1>4. Depth' = k /\ stack'[k] = f /\ \A j \in 1 .. (k - 1) : stack'[j] = stack[j]
  BY <1>1, <1>3, SetTopIs DEF IInv, VarsInv
<1>5. Grows(NULL)
  <2>1. Slots' = Slots /\ NULL \notin Slots
    BY DEF Slots
  <2> QED BY <2>1 DEF Grows
<1>6. \A j \in 1 .. Depth : j = k \/ (j \in 1 .. (k - 1) /\ j < Depth /\ j # Depth')
  BY <1>1, <1>4
<1>7. \A j \in 1 .. Depth : j \in 1 .. Depth' /\ stack'[j].at = stack[j].at
  BY <1>1, <1>2, <1>4, <1>6
<1>8. Top.kid \in Nat /\ Top.kid > 0
  BY <1>1 DEF IInv, RetInv, Building, Frames
<1>9. ~Doomed /\ Live
  BY DEF Doomed, Live, Building
<1>10. NullOK'
  BY DEF NullOK
<1>11. NamedInv'
  <2>1. \A j \in 1 .. Depth' : \E i \in 1 .. Depth : stack'[j].at = stack[i].at
    BY <1>1, <1>4, <1>7
  <2>2. NULL \notin Dirs'
    BY DEF Dirs, Slots
  <2> QED BY <1>5, <2>1, <2>2, NamedFill DEF FillInv
<1>12. PlacesInv' /\ OneHole'
  <2>1. NULL \notin Slots
    BY DEF Slots
  <2> QED BY <1>5, <2>1, NodesFill DEF FillInv
<1>13. FilledInv'
  <2>1. \A j \in 1 .. (k - 1) : FilledOK(j)'
    <3>1. \A j \in 1 .. (k - 1) : j \in 1 .. Depth /\ j < Depth /\ j < Depth'
      BY <1>1, <1>4
    <3> QED BY <1>4, <1>5, <3>1, LowerFilled DEF FillInv
  <2>2. FilledOK(k)'
    <3>1. Done(k) = Top.kid /\ Done(k)' = Top.kid
      BY <1>1, <1>2, <1>4, <1>8 DEF Done
    <3>2. \A p : Pos(f, p)' = Pos(Top, p)
      BY <1>2 DEF Pos
    <3>3. \A p \in 1 .. Top.kid : rn[Pos(Top, p)].gen # 0
      BY <1>1, <1>8, <3>1 DEF FillInv, FilledInv, FilledOK
    <3> QED BY <1>4, <3>1, <3>2, <3>3 DEF FilledOK
  <2>3. \A j \in 1 .. Depth' : j = k \/ j \in 1 .. (k - 1)
    BY <1>4
  <2> QED BY <2>1, <2>2, <2>3 DEF FilledInv
<1>14. FullInv'
  <2>1. NULL \notin Dirs' /\ NULL \notin Slots
    BY DEF Dirs, Slots
  <2> QED BY <1>5, <1>7, <1>9, <2>1, FullThen DEF FillInv
<1>15. JobdInv'
  <2>1. JobdIs => JobdIs'
    BY <1>5, DirsGrow
  <2>2. \A j \in 1 .. (k - 1) : JobdOK(j)'
    <3>1. \A j \in 1 .. (k - 1) : j \in 1 .. Depth /\ j # Depth'
      BY <1>1, <1>4
    <3> QED BY <1>4, <2>1, <3>1, JobdKept DEF FillInv
  <2>3. JobdOK(k)'
    <3>1. JobdOK(k)
      BY <1>1 DEF FillInv, JobdInv
    <3>2. /\ rn[f.at].rtype = "CLUSTER" /\ Top.kid >= 3 => JobdIs
          /\ rn[f.at].rtype = "ROOT" /\ Top.kid >= 2 => JobdIs
      BY <1>1, <1>2, <1>8, <3>1 DEF JobdOK
    <3>3. f.kid > 3 => Top.kid >= 3
      BY <1>2, <1>8
    <3>4. f.kid > 2 => Top.kid >= 2
      BY <1>2, <1>8
    <3>5. ~(ret' > NULL)
      OBVIOUS
    <3> QED BY <1>4, <2>1, <3>2, <3>3, <3>4, <3>5 DEF JobdOK
  <2>4. \A j \in 1 .. Depth' : j = k \/ j \in 1 .. (k - 1)
    BY <1>4
  <2>5. status' # "mounted"
    BY DEF Building
  <2> QED BY <2>2, <2>3, <2>4, <2>5 DEF JobdInv
<1> QED BY <1>10, <1>11, <1>12, <1>13, <1>14, <1>15 DEF FillInv

\* A child was not built. Only the directory of jobs goes on; a second failed
\* assertion is the end, and the root is not missed by anybody.
LEMMA ChildFailsFill ==
  ASSUME IInv, TreeInv, FillInv, ChildFails, ~Exit
  PROVE  FillInv'
<1>1. stack # <<>> /\ Building /\ ret = NULL /\ ret # Pending
  BY DEF ChildFails, Running, Building
<1>2. PICK k \in Nat : k = Depth /\ k \in 1 .. Depth /\ Top = stack[k] /\ Top \in Frames
  BY <1>1, TopIs DEF IInv, VarsInv
<1>3. PICK s : s = Top.at /\ s = stack[k].at
  BY <1>2
<1>4. Top.kid > 0 /\ Top.kid \in 1 .. NKids(s)
  <2>1. Top.kid > 0 /\ Top.kid <= NKids(s) /\ Top.kid \in Nat
    BY <1>1, <1>2, <1>3 DEF IInv, RetInv, Building, Frames
  <2>2. NKids(s) \in Nat
    BY <1>2, <1>3, FrameFacts DEF IInv
  <2> QED BY <2>1, <2>2
<1>5. PICK c : c = NextChild /\ c = Children(s)[Top.kid]
  BY <1>3 DEF NextChild
<1>6. Sound(c) /\ MayHold(rn[s].rtype, c.rtype)
  <2>1. Listable(s)
    <3>1. rn[s].rtype \in BuiltTypes
      BY <1>2, <1>3, FrameFacts DEF IInv
    <3>2. rn[s].rtype # "ROOT" => MayHold(rn[rn[s].parent].rtype, rn[s].rtype)
      BY <1>2, <1>3 DEF IInv, FrameInv, FrameOK
    <3> QED BY <3>1, <3>2 DEF Listable, IInv, PoolInv
  <2> QED BY <1>1, <1>3, <1>4, <1>5, <2>1, ChildrenSound, NextIs
<1>7. CASE c.onNull = "CONTINUE"
  <2>1. /\ SetTop([Top EXCEPT !.kid = @ + 1, !.next = @ + 1]) /\ ret' = Pending
        /\ UNCHANGED <<in, rn, nxt_avail, caught_in_a_loop, p_jobd, status>>
    BY <1>5, <1>7, Zenon DEF ChildFails, pool, roots
  <2>2. PICK nx \in Nat : nx = Top.next + 1
    BY <1>2 DEF Frames
  <2>3. SetTop(Advanced(Top, nx))
    BY <2>1, <2>2, Zenon DEF Advanced
  <2>4. rn[Top.at].rtype = "JOBS"
    BY <1>1, <1>3, <1>4, <1>5, <1>7, NextIs
  <2> QED BY <1>1, <2>1, <2>3, <2>4, AdvanceFill
<1>8. CASE c.onNull # "CONTINUE"
  <2>1. Fail(c.onNull)
    BY <1>5, <1>8, Zenon DEF ChildFails
  <2>2. c.onNull # "ASSERT"
    <3> SUFFICES ASSUME c.onNull = "ASSERT" PROVE FALSE
      OBVIOUS
    <3>1. caught_in_a_loop
      BY <1>1, <1>5 DEF FillInv, NullOK
    <3>2. ~Returns("ASSERT")
      BY <3>1 DEF Returns
    <3> QED BY <2>1, <3>2, Zenon DEF Fail
  <2>3. c.onNull = "WARN" /\ c.rtype \in {"CLUSTER", "JOBS", "JOBSTEPS"}
    BY <1>6, <1>8, <2>2 DEF Sound
  <2>4. Below # <<>> /\ k > 1
    <3>1. Below # <<>>
      BY <2>1, Zenon DEF Fail
    <3> QED BY <1>1, <1>2, <3>1, TopIs DEF IInv, VarsInv
  <2>5. rn[s].rtype \in {"CLUSTER", "JOBID"}
    <3>1. rn[s].rtype # "ROOT"
      BY <1>2, <1>3, <2>4, CalledAs
    <3> QED BY <1>6, <2>3, <3>1 DEF MayHold
  <2>6. rn[stack[k - 1].at].rtype \in {"JOBS", "JOBID"} => rn[s].rtype = "JOBID"
    <3>1. MayHold(rn[stack[k - 1].at].rtype, rn[s].rtype)
      BY <1>2, <1>3, <2>4, CalledFrom
    <3> QED BY <2>5, <3>1 DEF MayHold
  <2>7. rn[s].rtype = "JOBID" => ~Doomed
    BY <1>3 DEF Doomed
  <2>8. Fail("WARN")
    BY <2>1, <2>3
  <2> QED BY <1>1, <1>2, <1>3, <2>5, <2>6, <2>7, <2>8, FailFill
<1> QED BY <1>7, <1>8

\* A child was built.
LEMMA ChildBuiltFill ==
  ASSUME IInv, TreeInv, FillInv, ChildBuilt
  PROVE  FillInv'
<1>1. /\ stack # <<>> /\ Building /\ ret > NULL /\ ret # Pending /\ ret' = Pending
      /\ UNCHANGED <<in, rn, nxt_avail, caught_in_a_loop, p_jobd, status>>
  BY DEF ChildBuilt, Running, pool, Building
<1>2. SetTop(Advanced(Top, NextSlot))
  BY Zenon DEF ChildBuilt, Advanced
<1>3. PICK nx \in Nat : nx = NextSlot
  BY <1>1, NextSlotIs
<1> QED BY <1>1, <1>2, <1>3, AdvanceFill

\* A leaf is cast the second time: it has its name, and its builder returns.
LEMMA AttrFill ==
  ASSUME IInv, TreeInv, FillInv, MkAttr
  PROVE  FillInv'
<1>1. PICK at, v : CastsAttr(at, v)
  BY AttrIs
<1>2. /\ at = Top.at /\ at \in Slots /\ Building /\ stack # <<>> /\ ret = Pending
      /\ rn[at].rtype \in AttrTypes /\ rn[at].children = NULL
      /\ rn'[at] = v /\ v.rtype \in AttrTypes /\ v.gen = 2 /\ v.nm = rn[at].nm /\ v.children = NULL
      /\ \A s \in Slots : s # at => rn'[s] = rn[s]
      /\ UNCHANGED <<in, nxt_avail, caught_in_a_loop, p_fsroot, p_jobd>> /\ Slots' = Slots
  BY <1>1 DEF CastsAttr, AttrTypes, AttrSubtypes
<1>3. PICK k \in Nat : k = Depth /\ k \in 1 .. Depth /\ Top = stack[k] /\ k > 1 /\ at = stack[k].at
  BY <1>1, <1>2, TopIs DEF IInv, VarsInv, CastsAttr
<1>4. v.nm # NoName
  BY <1>2, <1>3 DEF FillInv, NamedInv, Named
<1>5. Grows(at)
  BY <1>2, <1>4 DEF Grows
<1>6. JobdIs => JobdIs'
  BY <1>2, <1>5, DirsGrow
<1>7. ~Doomed /\ at \notin Dirs /\ at \notin Dirs'
  BY <1>2 DEF Doomed, Dirs
<1>8. AttrTypes \cap {"CLUSTER", "JOBS", "ROOT"} = {}
  BY DEF AttrTypes, AttrSubtypes
<1>9. CASE v.rtype # "SIGNATURE"
  <2>1. stack' = Below /\ ret' = at /\ status' = status
    BY <1>1, <1>9 DEF CastsAttr
  <2>2. ret' # NULL /\ ret' # Pending
    BY <1>2, <2>1 DEF Slots
  <2>3. Below # <<>>
    BY <1>2, <1>3, TopIs DEF IInv, VarsInv
  <2>4. PICK l \in Nat : GivesBack(l, at, at)
    BY <1>2, <1>4, <1>5, <2>1, <2>2, <2>3, GiveIs
  <2>5. l = k
    BY <1>3, <2>4 DEF GivesBack
  <2>6. NullOK'
    BY <2>2 DEF NullOK
  <2>7. PICK g : g = stack[k - 1]
    OBVIOUS
  <2>8. rn[g.at].rtype # "CLUSTER" /\ rn[g.at].rtype # "ROOT"
    <3>1. MayHold(rn[g.at].rtype, rn[at].rtype)
      BY <1>3, <2>7, CalledFrom
    <3> QED BY <1>2, <3>1 DEF MayHold, AttrTypes, AttrSubtypes
  <2> QED BY <1>2, <1>6, <1>7, <2>4, <2>5, <2>6, <2>7, <2>8, PopFill
<1>10. CASE v.rtype = "SIGNATURE"
  <2>1. status' \in {"exited", "crashed"} /\ UNCHANGED <<stack, ret>>
    BY <1>1, <1>10 DEF CastsAttr
  <2>2. Depth' = k /\ \A j \in 1 .. k : j \in 1 .. Depth /\ stack'[j] = stack[j]
    BY <1>3, <2>1 DEF Depth
  <2>3. \A j \in 1 .. (k - 1) : j \in 1 .. Depth /\ j < Depth /\ j < Depth' /\ rn'[stack[j].at] = rn[stack[j].at]
    <3>1. \A j \in 1 .. (k - 1) : j \in 1 .. Depth /\ j < Depth /\ j < Depth' /\ j < k
      BY <1>3, <2>2
    <3>2. \A j \in 1 .. (k - 1) : stack[j].at \in Slots /\ stack[j].at < at
      BY <1>3, <3>1, FrameFacts DEF IInv, OrderInv, OrderOK
    <3>3. at \in Int /\ Slots \subseteq Int
      BY <1>2 DEF Slots, IInv, PoolInv
    <3> QED BY <1>2, <3>1, <3>2, <3>3
  <2>4. \A j \in 1 .. Depth' : j = k \/ j \in 1 .. (k - 1)
    BY <1>3, <2>2
  <2>5. NullOK'
    BY <2>1 DEF NullOK, Building
  <2>6. NamedInv'
    <3>1. \A j \in 1 .. Depth' : \E i \in 1 .. Depth : stack'[j].at = stack[i].at
      BY <2>2
    <3> QED BY <1>4, <1>5, <1>2, <3>1, NamedFill DEF FillInv
  <2>7. PlacesInv' /\ OneHole'
    <3>1. PlaceOK(at)'
      BY <1>2, <1>8 DEF PlaceOK
    <3> QED BY <1>2, <1>4, <1>5, <3>1, NodesFill DEF FillInv
  <2>8. FilledInv'
    <3>1. \A j \in 1 .. (k - 1) : FilledOK(j)'
      BY <1>5, <2>2, <2>3, LowerFilled DEF FillInv
    <3>2. FilledOK(k)'
      <4>1. stack'[k].kid = 0
        BY <1>1, <1>3, <2>1 DEF CastsAttr
      <4> QED BY <4>1 DEF FilledOK
    <3> QED BY <2>4, <3>1, <3>2 DEF FilledInv
  <2>9. FullInv'
    BY <2>1 DEF FullInv, Live
  <2>10. JobdInv'
    <3>1. \A j \in 1 .. (k - 1) : JobdOK(j)'
      <4>1. ~(ret' > NULL)
        BY <1>2, <2>1
      <4> QED BY <1>6, <2>2, <2>3, <4>1, JobdKept DEF FillInv
    <3>2. JobdOK(k)'
      <4>1. stack'[k].at = at
        BY <1>3, <2>1
      <4> QED BY <1>2, <1>8, <4>1 DEF JobdOK
    <3> QED BY <2>1, <2>4, <3>1, <3>2 DEF JobdInv
  <2> QED BY <2>5, <2>6, <2>7, <2>8, <2>9, <2>10 DEF FillInv
<1> QED BY <1>9, <1>10

\* A builder that has cast all its children has filled its block.
LEMMA AllCast ==
  ASSUME IInv, FilledInv, NEW k, k = Depth, k \in 1 .. Depth, ret = Pending,
         NEW s, s = stack[k].at, stack[k].kid > 0, NEW n \in Nat, n = NKids(s), stack[k].kid > n
  PROVE  stack[k].kid = n + 1 /\ (s \in Dirs => \A t \in Kids(s) : rn[t].gen # 0)
<1>1. PICK f \in Frames : f = stack[k] /\ f.at = s
  BY LenProperties DEF IInv, VarsInv, Depth
<1>2. f.kid \in Nat /\ f.blk \in Nat
  BY DEF Frames
<1>3. /\ f.kid <= n + 1 /\ f.kid > n
      /\ rn[s].rtype = "ALLOCJOB" => rn[s].children = NULL
      /\ rn[s].rtype # "ALLOCJOB" => rn[s].children = f.blk /\ rn[s].n = n
  <2>1. BlockOK(k)
    BY DEF IInv, BlockInv
  <2> QED BY <1>1, <2>1 DEF BlockOK
<1>4. f.kid = n + 1 /\ Done(k) = n
  BY <1>1, <1>2, <1>3 DEF Done
<1>5. \A p \in 1 .. n : rn[Pos(f, p)].gen # 0
  BY <1>1, <1>4 DEF FilledInv, FilledOK
<1>6. rn[s].rtype = "ROOT" => n = 3
  BY FrameFacts DEF IInv
<1>7. \A t \in f.blk .. (f.blk + n - 1) : \E p \in 1 .. n : Pos(f, p) = t
  <2> SUFFICES ASSUME NEW t \in f.blk .. (f.blk + n - 1) PROVE \E p \in 1 .. n : Pos(f, p) = t
    OBVIOUS
  <2>1. CASE rn[s].rtype = "ROOT"
    <3>1. n = 3
      BY <1>6, <2>1
    <3>2. Pos(f, 1) = f.blk /\ Pos(f, 2) = f.blk + 2 /\ Pos(f, 3) = f.blk + 1
      BY <1>1, <1>2, <2>1 DEF Pos
    <3>3. t = f.blk \/ t = f.blk + 1 \/ t = f.blk + 2
      BY <1>2, <3>1
    <3> QED BY <3>1, <3>2, <3>3
  <2>2. CASE rn[s].rtype # "ROOT"
    <3>1. t - f.blk + 1 \in 1 .. n /\ Pos(f, t - f.blk + 1) = t
      BY <1>1, <1>2, <2>2 DEF Pos
    <3> QED BY <3>1
  <2> QED BY <2>1, <2>2
<1>8. ASSUME s \in Dirs, NEW t \in Kids(s) PROVE rn[t].gen # 0
  <2>1. rn[s].children # NULL
    BY <1>8 DEF Dirs
  <2>2. t \in f.blk .. (f.blk + n - 1)
    BY <1>3, <1>8, <2>1 DEF Kids
  <2> QED BY <1>5, <1>7, <2>2
<1> QED BY <1>1, <1>4, <1>8

\* A builder returns, all its children dealt with: that of the jobs has set
\* p_jobd before the cluster's returns, and the cluster's before the root's.
LEMMA ReturnFill ==
  ASSUME IInv, TreeInv, FillInv, Return
  PROVE  FillInv'
<1>1. /\ stack # <<>> /\ Building /\ Top.kid > 0 /\ stack' = Below /\ ret = Pending
      /\ ~(Top.kid <= Len(Children(Top.at)))
      /\ ret' = IF Row(rn[Top.at].rtype) = "NODESTATE" THEN Top.blk ELSE Top.at
      /\ p_jobd' = IF rn[Top.at].rtype = "JOBS" THEN Top.at ELSE p_jobd
      /\ status' = IF Below = <<>> THEN "mounted" ELSE status
      /\ UNCHANGED <<in, rn, nxt_avail, caught_in_a_loop, p_fsroot>>
  BY DEF Return, Casting, Running, More, pool, Building
<1>2. PICK k \in Nat : k = Depth /\ k \in 1 .. Depth /\ Top = stack[k] /\ Top \in Frames
  BY <1>1, TopIs DEF IInv, VarsInv
<1>3. PICK s : s = Top.at /\ s = stack[k].at
  BY <1>2
<1>4. PICK n \in Nat : n = NKids(s) /\ Top.kid \in Nat /\ Top.kid > n
  <2>1. NKids(s) \in Nat /\ Top.kid \in Nat
    BY <1>2, <1>3, FrameFacts DEF IInv, Frames
  <2> QED BY <1>1, <1>3, <2>1 DEF NKids
<1>5. s \in Dirs => \A t \in Kids(s) : rn[t].gen # 0
  BY <1>1, <1>2, <1>3, <1>4, AllCast DEF FillInv
<1>6. ~Doomed /\ Live /\ NULL \notin Slots /\ NULL \notin Dirs' /\ NULL \notin Slots'
  BY <1>1 DEF Doomed, Live, Building, Slots, Dirs
<1>7. Grows(NULL)
  <2>1. Slots' = Slots
    BY <1>1 DEF Slots
  <2> QED BY <1>1, <1>6, <2>1 DEF Grows
<1>8. rn[s].rtype # "ALLOCJOB" => s \in Dirs /\ s \in Dirs'
  <2>1. rn[s].rtype # "ALLOCJOB" => s \in Dirs
    BY <1>1, <1>2, <1>3, ListLengths
  <2> QED BY <1>7, <2>1, DirsGrow
<1>9. JobdIs => JobdIs'
  <2>1. CASE rn[s].rtype = "JOBS"
    BY <1>1, <1>3, <1>8, <2>1 DEF JobdIs
  <2>2. CASE rn[s].rtype # "JOBS"
    BY <1>1, <1>3, <1>7, <2>2, DirsGrow
  <2> QED BY <2>1, <2>2
<1>10. rn[s].rtype \in {"ROOT", "CLUSTER"} => JobdIs
  <2> SUFFICES ASSUME rn[s].rtype \in {"ROOT", "CLUSTER"} PROVE JobdIs
    OBVIOUS
  <2>1. n = 3
    BY <1>2, <1>3, <1>4, ListLengths
  <2>2. JobdOK(k)
    BY <1>2 DEF FillInv, JobdInv
  <2> QED BY <1>2, <1>3, <1>4, <2>1, <2>2 DEF JobdOK
<1>11. ASSUME k > 1 PROVE FillInv'
  <2>1. Below # <<>> /\ status' = status
    BY <1>1, <1>2, <1>11, TopIs DEF IInv, VarsInv
  <2>2. ret' # NULL /\ ret' # Pending
    <3>1. s \in Slots /\ s < Top.blk /\ Top.blk \in Nat
      BY <1>1, <1>2, <1>3 DEF IInv, FrameInv, FrameOK, BlockInv, BlockOK, Frames
    <3>2. s > 0 /\ Top.blk > 0
      BY <3>1 DEF Slots
    <3> QED BY <1>1, <1>3, <3>2
  <2>3. PICK l \in Nat : GivesBack(l, s, NULL)
    BY <1>1, <1>3, <1>6, <1>7, <2>1, <2>2, GiveIs
  <2>4. l = k
    BY <1>2, <2>3 DEF GivesBack
  <2>5. NullOK'
    BY <2>2 DEF NullOK
  <2>6. PICK g : g = stack[k - 1]
    OBVIOUS
  <2>7. MayHold(rn[g.at].rtype, rn[s].rtype) /\ k - 1 \in 1 .. Depth
    BY <1>2, <1>3, <1>11, <2>6, CalledFrom
  <2>8. rn[g.at].rtype = "CLUSTER" /\ g.kid = 3 => JobdIs'
    <3> SUFFICES ASSUME rn[g.at].rtype = "CLUSTER", g.kid = 3 PROVE JobdIs'
      OBVIOUS
    <3>1. rn[s].rtype = Children(g.at)[3].rtype
      BY <1>2, <1>3, <1>11, <2>6 DEF IInv, FrameInv, FrameOK
    <3>2. Children(g.at) = ClusterChildren
      <4>1. rn[g.at].rtype \in BuiltTypes
        BY <2>6, <2>7, FrameFacts DEF IInv
      <4> QED BY <4>1, ChildrenIs
    <3>3. ClusterChildren[3].rtype = "JOBS"
      BY DEF ClusterChildren, Dir, Child
    <3>4. rn[s].rtype = "JOBS"
      BY <3>1, <3>2, <3>3
    <3> QED BY <1>1, <1>3, <1>8, <3>4 DEF JobdIs
  <2>9. rn[g.at].rtype = "ROOT" /\ g.kid = 2 => JobdIs'
    <3>1. rn[g.at].rtype = "ROOT" /\ g.kid = 2 => rn[s].rtype = "CLUSTER"
      BY <1>2, <1>3, <1>11, <2>6, CalledAs
    <3> QED BY <1>9, <1>10, <3>1
  <2> QED BY <1>1, <1>5, <1>6, <1>9, <2>3, <2>4, <2>5, <2>6, <2>8, <2>9, PopFill
<1>12. ASSUME k = 1 PROVE FillInv'
  <2>1. stack' = <<>> /\ Depth' = 0 /\ status' = "mounted"
    <3>1. Below = <<>>
      BY <1>1, <1>2, <1>12, TopIs DEF IInv, VarsInv
    <3> QED BY <1>1, <3>1 DEF Depth
  <2>2. JobdIs'
    <3>1. rn[s].rtype = "ROOT"
      BY <1>2, <1>3, <1>12 DEF IInv, FrameInv, FrameOK
    <3> QED BY <1>9, <1>10, <3>1
  <2>3. NullOK' /\ FilledInv' /\ JobdInv'
    BY <2>1, <2>2 DEF NullOK, Building, FilledInv, JobdInv
  <2>4. NamedInv'
    BY <1>6, <1>7, <2>1, NamedFill DEF FillInv
  <2>5. PlacesInv' /\ OneHole'
    BY <1>1, <1>6, <1>7, NodesFill DEF FillInv
  <2>6. FullInv'
    <3>1. \A j \in 1 .. Depth : stack[j].at = s
      BY <1>2, <1>3, <1>12
    <3> QED BY <1>5, <1>6, <1>7, <3>1, FullThen DEF FillInv
  <2> QED BY <2>3, <2>4, <2>5, <2>6 DEF FillInv
<1>13. k = 1 \/ k > 1
  BY <1>2
<1> QED BY <1>11, <1>12, <1>13

\* A builder points its node, which keeps its name, to a block of fresh slots.
LEMMA ProvisionFill ==
  ASSUME IInv, TreeInv, FillInv, Provision, ~Exit
  PROVE  FillInv'
<1> PICK at, up : \E n, k, b, m \in Nat : Provisions(at, n, up, k, b, m)
  BY ProvisionIs
<1>1. PICK n, k, b, m \in Nat : Provisions(at, n, up, k, b, m)
  OBVIOUS
<1>2. /\ at = Top.at /\ at \in Slots /\ stack # <<>> /\ in' = in /\ ret = Pending
      /\ k \in 1 .. Depth /\ k = Depth /\ k > 1 /\ Top = stack[k] /\ Top \in Frames
      /\ rn[at].rtype \in BuiltTypes \ ({"ROOT"} \cup AttrTypes)
      /\ rn[at].children = NULL /\ rn[at].gen = 1 /\ NodeOK(rn[at]) /\ NKids(at) = n /\ Building
      /\ SetTop([at |-> at, blk |-> b, next |-> b, kid |-> 1]) /\ b = nxt_avail /\ b >= BaseAlloc
      /\ UNCHANGED <<ret, caught_in_a_loop, p_fsroot, p_jobd, status>>
  BY <1>1 DEF Provisions
<1>3. /\ \A s \in Slots : s \in Slots' /\ (s # at => rn'[s] = rn[s])
      /\ \A s \in b .. (b + n) : rn'[s] = Guard(up)
      /\ \A s \in Slots' : s \in Slots \/ s \in b .. (b + n)
      /\ rn[at].rtype = "ALLOCJOB" => rn'[at] = rn[at]
      /\ rn[at].rtype # "ALLOCJOB" => rn'[at] = Recast(at)
  BY <1>1 DEF Provisions
<1>4. \A s \in b .. (b + n) : rn'[s].nm = NoName /\ rn'[s].children = NULL /\ rn'[s].gen = 0
  BY <1>3 DEF Guard
<1>5. rn[at].nm # NoName
  BY <1>2 DEF FillInv, NamedInv, Named
<1>6. /\ rn'[at].rtype = rn[at].rtype /\ rn'[at].parent = rn[at].parent
      /\ rn'[at].nm # NoName /\ rn'[at].gen # 0
      /\ rn'[at].children # NULL => rn'[at].children = b /\ rn'[at].n = n
  <2>1. CASE rn[at].rtype = "ALLOCJOB"
    BY <1>2, <1>3, <1>5, <2>1
  <2>2. CASE rn[at].rtype # "ALLOCJOB"
    <3>1. PICK w : w = Recast(at) /\ w = rn'[at]
      BY <1>3, <2>2
    <3>2. DOMAIN rn[at] = {"rtype", "gen", "nm", "typ", "dyn", "parent", "children", "n", "isdir"}
      BY <1>2 DEF NodeOK, NodeFields
    <3>3. /\ w.rtype = rn[at].rtype /\ w.parent = rn[at].parent /\ w.gen = rn[at].gen + 1
          /\ w.nm = (IF rn[at].rtype = "CLUSTER" THEN in.cname ELSE rn[at].nm)
          /\ w.children = b /\ w.n = n
      BY <1>2, <3>1, <3>2, RecastIs DEF NKids
    <3>4. in.cname # NoName
      BY InputsAssumption DEF IInv, PoolInv, NodeNames
    <3>5. w.nm # NoName /\ w.gen # 0
      BY <1>2, <1>5, <3>3, <3>4
    <3> QED BY <3>1, <3>3, <3>5
  <2> QED BY <2>1, <2>2
<1>7. Grows(at)
  BY <1>2, <1>3, <1>4, <1>6 DEF Grows
<1>8. PICK f \in Frames : f = [at |-> at, blk |-> b, next |-> b, kid |-> 1] /\ f.at = at /\ f.kid = 1
  <2>1. at \in Nat
    BY <1>2 DEF Frames
  <2>2. LET h == [at |-> at, blk |-> b, next |-> b, kid |-> 1] IN h \in Frames /\ h.at = at /\ h.kid = 1
    BY <2>1 DEF Frames
  <2> QED BY <2>2
<1>9. Depth' = k /\ stack'[k] = f /\ \A j \in 1 .. (k - 1) : stack'[j] = stack[j]
  <2>1. SetTop(f)
    BY <1>2, <1>8, Zenon
  <2> QED BY <1>2, <2>1, SetTopIs DEF IInv, VarsInv
<1>10. \A j \in 1 .. (k - 1) : /\ j \in 1 .. Depth /\ j < Depth /\ j < Depth' /\ j # Depth'
                              /\ rn'[stack[j].at].rtype = rn[stack[j].at].rtype
  <2>1. \A j \in 1 .. (k - 1) : j \in 1 .. Depth /\ j < Depth /\ j < Depth' /\ j # Depth'
    BY <1>2, <1>9
  <2>2. \A j \in 1 .. (k - 1) : stack[j].at \in Slots
    BY <2>1, FrameFacts DEF IInv
  <2> QED BY <1>3, <1>6, <2>1, <2>2
<1>11. \A j \in 1 .. Depth : j \in 1 .. Depth' /\ stack'[j].at = stack[j].at
  <2>1. \A j \in 1 .. Depth : j = k \/ j \in 1 .. (k - 1)
    BY <1>2
  <2> QED BY <1>2, <1>8, <1>9, <2>1
<1>12. \A j \in 1 .. Depth' : j = k \/ j \in 1 .. (k - 1)
  BY <1>9
<1>13. NullOK'
  BY <1>2 DEF NullOK
<1>14. NamedInv'
  <2>1. \A j \in 1 .. Depth' : \E i \in 1 .. Depth : stack'[j].at = stack[i].at
    BY <1>2, <1>9, <1>11
  <2> QED BY <1>6, <1>7, <2>1, NamedFill DEF FillInv
<1>15. PlacesInv' /\ OneHole'
  <2>1. PlaceOK(at)'
    <3>1. PlaceOK(at)
      BY <1>2 DEF FillInv, PlacesInv
    <3>2. rn[at].parent # at /\ rn[at].parent \in Slots
      BY <1>2, CalledFrom
    <3>3. rn'[rn[at].parent] = rn[rn[at].parent]
      BY <1>3, <3>2
    <3> QED BY <1>5, <1>6, <3>1, <3>3 DEF PlaceOK, Named
  <2> QED BY <1>2, <1>6, <1>7, <2>1, NodesFill DEF FillInv
<1>16. FilledInv'
  <2>1. \A j \in 1 .. (k - 1) : FilledOK(j)'
    BY <1>7, <1>9, <1>10, LowerFilled DEF FillInv
  <2>2. FilledOK(k)'
    <3>1. Done(k)' = 0
      BY <1>2, <1>8, <1>9 DEF Done
    <3> QED BY <3>1 DEF FilledOK
  <2> QED BY <1>12, <2>1, <2>2 DEF FilledInv
<1>17. FullInv'
  <2>1. Live /\ ~Doomed
    BY <1>2 DEF Live, Doomed, Building
  <2>2. at \in Dirs' => (\E j \in 1 .. Depth' : stack'[j].at = at) /\ \A s \in Kids(at)' : rn'[s].gen = 0
    <3>1. \E j \in 1 .. Depth' : stack'[j].at = at
      BY <1>2, <1>11
    <3>2. ASSUME at \in Dirs', NEW s \in Kids(at)' PROVE rn'[s].gen = 0
      <4>1. rn'[at].children = b /\ rn'[at].n = n
        BY <1>6, <3>2 DEF Dirs
      <4>2. s \in b .. (b + n)
        BY <1>2, <3>2, <4>1 DEF Kids
      <4> QED BY <1>4, <4>2
    <3> QED BY <3>1, <3>2
  <2> QED BY <1>6, <1>7, <1>11, <2>1, <2>2, FullThen DEF FillInv
<1>18. JobdInv'
  <2>1. JobdIs => JobdIs'
    BY <1>2, <1>7, DirsGrow
  <2>2. \A j \in 1 .. (k - 1) : JobdOK(j)'
    BY <1>9, <1>10, <2>1, JobdKept DEF FillInv
  <2>3. JobdOK(k)'
    BY <1>2, <1>8, <1>9 DEF JobdOK
  <2>4. status' # "mounted"
    BY <1>2 DEF Building
  <2> QED BY <1>12, <2>2, <2>3, <2>4 DEF JobdInv
<1> QED BY <1>13, <1>14, <1>15, <1>16, <1>17, <1>18 DEF FillInv

\* rn_mkfsroot() makes the first node, and has a fresh block.
LEMMA RootFill ==
  ASSUME IInv, MkFsRoot, ~Exit
  PROVE  FillInv'
<1>1. PICK b \in Nat : \E node : RootMade(b, node)
  BY RootIs
<1>2. PICK node : RootMade(b, node)
  BY <1>1
<1>3. /\ b = BaseAlloc /\ b > 0 /\ Slots' = b .. (b + 4) /\ rn'[b] = node
      /\ node.rtype = "ROOT" /\ node.children = b + 1 /\ node.n = 3 /\ node.nm = "MountPoint"
      /\ stack' = <<[at |-> b, blk |-> b + 1, next |-> b + 1, kid |-> 1]>>
      /\ status' = "building" /\ ret' = Pending
  BY <1>2 DEF RootMade, Building
<1>4. \A s \in (b + 1) .. (b + 4) : rn'[s].nm = NoName /\ rn'[s].children = NULL /\ rn'[s].gen = 0
  BY <1>2 DEF RootMade, Guard
<1>5. \A s \in Slots' : s = b \/ s \in (b + 1) .. (b + 4)
  BY <1>3
<1>6. node.nm # NoName
  BY <1>3 DEF NoName
<1>7. \A d \in Dirs' : d = b
  BY <1>4, <1>5 DEF Dirs
<1>8. Depth' = 1 /\ stack'[1].at = b /\ stack'[1].kid = 1
  BY <1>3 DEF Depth
<1>9. \A k \in 1 .. Depth' : k = 1
  BY <1>8
<1>10. NullOK'
  BY <1>3 DEF NullOK
<1>11. NamedInv'
  BY <1>3, <1>6, <1>7, <1>8, <1>9 DEF NamedInv, Named
<1>12. PlacesInv'
  BY <1>3, <1>4, <1>5 DEF PlacesInv, PlaceOK, Named
<1>13. \A s \in Slots' : ~Hole(s)'
  BY <1>3, <1>4, <1>5, <1>6 DEF Hole, Named
<1>14. FilledInv'
  <2>1. Done(1)' = 0
    BY <1>3, <1>8 DEF Done
  <2> QED BY <1>9, <2>1 DEF FilledInv, FilledOK
<1>15. FullInv'
  <2>1. \A d \in Dirs' : Kids(d)' = (b + 1) .. (b + 3)
    BY <1>3, <1>7 DEF Kids
  <2>2. \A s \in (b + 1) .. (b + 3) : s \in Slots'
    BY <1>3
  <2>3. \A d \in Dirs' : HoleOK(d)'
    BY <1>13, <2>1, <2>2 DEF HoleOK
  <2>4. \A d \in Dirs' : FullOK(d)'
    BY <1>7, <1>8 DEF FullOK
  <2> QED BY <2>3, <2>4 DEF FullInv
<1>16. JobdInv'
  BY <1>3, <1>8, <1>9 DEF JobdInv, JobdOK
<1> QED BY <1>10, <1>11, <1>12, <1>13, <1>14, <1>15, <1>16 DEF FillInv, OneHole

\* The process ends, or rests.
LEMMA EndFill ==
  ASSUME FillInv, UNCHANGED <<in, rn, nxt_avail, stack, ret, caught_in_a_loop, p_jobd>>,
         status' = status \/ status' = "exited"
  PROVE  FillInv'
<1>1. NullOK'
  <2>1. NextChild' = NextChild
    BY SMT DEF NextChild, Top, Children, Row, RootChildren, ClusterChildren, PartsChildren, PartChildren,
           NodesChildren, NodeChildren, StateChildren, JobsChildren, JobChildren, JobRecord,
           StepsChildren, StepChildren, AttrChildren, CtlChildren, OfRecords
  <2> QED BY <2>1 DEF FillInv, NullOK, Building, Top
<1>2. NamedInv' /\ PlacesInv' /\ OneHole'
  BY DEF FillInv, NamedInv, PlacesInv, PlaceOK, OneHole, Hole, Named, Dirs, Slots, Depth
<1>3. FilledInv'
  BY DEF FillInv, FilledInv, FilledOK, Depth, Done, Pos
<1>4. FullInv'
  <2>1. Live' /\ ~Doomed' => Live /\ ~Doomed
    BY DEF Live, Doomed, Building, Top
  <2> QED BY <2>1 DEF FillInv, FullInv, FullOK, HoleOK, Hole, Named, Dirs, Kids, Slots, Depth
<1>5. JobdInv'
  BY DEF FillInv, JobdInv, JobdOK, JobdIs, Depth, Dirs, Slots
<1> QED BY <1>1, <1>2, <1>3, <1>4, <1>5 DEF FillInv

\* Every step of mk_fs() keeps what is said of how complete the tree is.
LEMMA NextFill == IInv /\ TreeInv /\ FillInv /\ [Next]_vars => FillInv'
<1> SUFFICES ASSUME IInv, TreeInv, FillInv, [Next]_vars PROVE FillInv'
  OBVIOUS
<1>1. CASE Exit
  BY <1>1, EndFill DEF Exit, pool, roots
<1>2. CASE UNCHANGED vars
  BY <1>2, EndFill DEF vars
<1>3. CASE ~Exit /\ Next
  <2>1. ~RefuseAttr
    BY <1>3 DEF RefuseAttr
  <2>2. Ended => FillInv'
    BY <1>2 DEF Ended
  <2>3. CastChild => FillInv'
    BY CallIs, CallFill
  <2>4. CastTwin => FillInv'
    BY <1>3, MissIs, MissFill
  <2> QED BY <1>3, <2>1, <2>2, <2>3, <2>4, RootFill, RefuseFill, ProvisionFill, AttrFill,
             ChildFailsFill, ChildBuiltFill, ReturnFill DEF Next, Build
<1> QED BY <1>1, <1>2, <1>3

\* Before mk_fs() runs there is nothing.
LEMMA InitFill == Init => FillInv
<1> SUFFICES ASSUME Init PROVE FillInv
  OBVIOUS
<1>1. Slots = {} /\ stack = <<>> /\ ret = Pending /\ status = "building" /\ Depth = 0
  BY DEF Init, Slots, Depth
<1>2. Dirs = {}
  BY <1>1 DEF Dirs
<1>3. NullOK /\ NamedInv /\ PlacesInv /\ OneHole
  BY <1>1, <1>2 DEF NullOK, NamedInv, PlacesInv, OneHole
<1>4. FilledInv /\ FullInv /\ JobdInv
  BY <1>1, <1>2 DEF FilledInv, FullInv, JobdInv
<1> QED BY <1>3, <1>4 DEF FillInv

\* How complete the tree is at every moment (rn_mkfsroot() and the builders
\* below it): who is missing, and what it takes for a directory to be full.
THEOREM FillInvariant == Spec => []FillInv
<1>1. Init => FillInv
  BY InitFill
<1>2. IInv /\ TreeInv /\ FillInv /\ [Next]_vars => FillInv'
  BY NextFill
<1> QED BY <1>1, <1>2, Invariant, TreeInvariant, PTL DEF Spec

\* There is one cluster, and one directory of jobs: the third of their blocks.
LEMMA OnlyOne ==
  ASSUME IInv, TreeInv, MountInv, FillInv, NEW d \in Dirs
  PROVE  /\ rn[d].rtype = "CLUSTER" => d = rn[BaseAlloc].children + 2
         /\ rn[d].rtype = "JOBS" => \E e \in Dirs : /\ rn[e].rtype = "CLUSTER" /\ d \in Kids(e)
                                                    /\ d = rn[e].children + 2
<1>1. d \in Slots /\ rn[d].nm # NoName
  BY DEF FillInv, NamedInv, Named, Dirs
<1>2. PICK up : up = rn[d].parent
  OBVIOUS
<1>3. rn[d].rtype \in {"CLUSTER", "JOBS"} =>
         /\ up \in Dirs /\ MayHold(rn[up].rtype, rn[d].rtype) /\ d = rn[up].children + 2
  <2>1. DirOK(d) /\ PlaceOK(d)
    BY <1>1 DEF TreeInv, FillInv, PlacesInv
  <2> QED BY <1>1, <1>2, <2>1 DEF DirOK, PlaceOK, Named
<1>4. rn[d].rtype = "CLUSTER" => up = BaseAlloc
  <2>1. rn[d].rtype = "CLUSTER" => up \in Slots /\ rn[up].rtype = "ROOT"
    BY <1>3 DEF MayHold, Dirs
  <2> QED BY <2>1 DEF MountInv, NodesInv, NodeSays
<1>5. rn[d].rtype = "JOBS" => rn[up].rtype = "CLUSTER" /\ d \in Kids(up)
  <2>1. rn[d].rtype = "JOBS" => rn[up].rtype = "CLUSTER"
    BY <1>3 DEF MayHold
  <2>2. rn[d].rtype = "JOBS" => d \in Kids(up)
    BY <1>1, <1>2, <2>1 DEF TreeInv, NamedOK, Named
  <2> QED BY <2>1, <2>2
<1> QED BY <1>3, <1>4, <1>5

\* A mounted tree is complete outside the directories of jobs: p_jobd, which the
\* builder of the jobs sets, is the jobs directory of the cluster, and at most one
\* entry is missing from it, and then an assertion has failed on the way
\* (rn_cast()'s twin check, and what the builders make of its NULL).
THEOREM Complete == Spec => []MountComplete
<1>1. ASSUME IInv, TreeInv, MountInv, FillInv PROVE MountComplete
  <2> SUFFICES ASSUME status = "mounted"
               PROVE  LET missing == {s \in Slots :
                              \E d \in Dirs : s \in Kids(d) /\ ~Named(s) /\ rn[d].rtype # "JOBID"}
                      IN /\ p_jobd \in Kids(p_fsroot) /\ rn[p_jobd].rtype = "JOBS"
                         /\ missing \subseteq Kids(p_jobd)
                         /\ \A s, t \in missing : s = t /\ caught_in_a_loop
    BY DEF MountComplete
  <2>1. Live /\ ~Doomed /\ Depth = 0
    BY <1>1 DEF Live, Doomed, Building, MountInv, Depth
  <2>2. FsRootIs /\ JobdIs
    BY <1>1 DEF MountInv, FillInv, JobdInv
  <2>3. \A d \in Dirs : rn[d].rtype = "CLUSTER" => d = p_fsroot
    BY <1>1, <2>2, OnlyOne DEF FsRootIs
  <2>4. \A d \in Dirs : rn[d].rtype = "JOBS" => d \in Kids(p_fsroot) /\ d = rn[p_fsroot].children + 2
    BY <1>1, <2>3, OnlyOne
  <2>5. p_jobd \in Kids(p_fsroot) /\ rn[p_jobd].rtype = "JOBS" /\ p_jobd \in Dirs
    BY <2>2, <2>4 DEF JobdIs
  <2>6. \A d \in Dirs : rn[d].rtype = "JOBS" => d = p_jobd
    BY <2>4, <2>5
  <2>7. ASSUME NEW s \in Slots, NEW d \in Dirs, s \in Kids(d), ~Named(s), rn[d].rtype # "JOBID"
        PROVE  s \in Kids(p_jobd) /\ Hole(s)
    <3>1. FullOK(d) /\ HoleOK(d)
      BY <1>1, <2>1 DEF FillInv, FullInv
    <3>2. \A k \in 1 .. Depth : FALSE
      BY <2>1
    <3>3. Hole(s)
      BY <2>7, <3>1, <3>2 DEF FullOK, Hole
    <3>4. rn[d].rtype = "JOBS"
      BY <2>7, <3>1, <3>3 DEF HoleOK
    <3> QED BY <2>6, <2>7, <3>3, <3>4
  <2>8. \A s, t \in Slots : Hole(s) /\ Hole(t) => s = t /\ caught_in_a_loop
    BY <1>1 DEF FillInv, OneHole
  <2> QED BY <2>5, <2>7, <2>8
<1> QED BY <1>1, Invariant, TreeInvariant, MountInvariant, FillInvariant, PTL

-----------------------------------------------------------------------------
(* The shape of the tree *)

\* A slot of directory d that is named is the child that the builder of d has for the
\* slot, with the builder's own type unless a knob has become an attribute, and, but for
\* lists and jobs, with the record that the builder points it to; one that rn_cast()
\* refused repeats the name of an earlier child.
KidOK(d, s) ==
    LET j == s - rn[d].children + 1
        c == Children(d)[j]
    IN /\ Named(s) => /\ rn[s].nm = c.nm
                      /\ rn[s].typ = c.typ
                      /\ rn[s].rtype = c.rtype \/ c.rtype = "KNOB"
                      /\ rn[s].dyn = c.dyn \/ rn[s].rtype \in ListTypes \cup {"JOBID"}
       /\ Hole(s) => \E h \in 1 .. (j - 1) : Children(d)[h].nm = c.nm
\* A directory other than the root has what its builder casts, and two casts.
KidsOK(d) ==
    rn[d].rtype # "ROOT" =>
       /\ rn[d].gen = 2 /\ rn[d].n = NKids(d) /\ Check(d) = "OK"
       /\ \A s \in Kids(d) : KidOK(d, s)
OnStack(s) == \E k \in 1 .. Depth : stack[k].at = s
\* A node that no builder has given children has been cast once, and its builder has
\* failed, unless it runs; an attribute has been cast twice.
NodeOnce(s) ==
    Named(s) /\ s \notin Dirs =>
       /\ rn[s].n = 0
       /\ rn[s].rtype \in AttrTypes => OnStack(s) \/ rn[s].gen = 2
       /\ rn[s].rtype \notin AttrTypes =>
             /\ rn[s].gen = 1
             /\ rn[s].rtype = "ALLOCJOB" \/ OnStack(s) \/ Check(s) # "OK"
\* A job has a directory of steps, and goes on to its attributes only behind a step.
JobShown(d) ==
    rn[d].rtype = "JOBID" =>
       /\ OnStack(d) \/ rn[rn[d].children].gen # 0
       /\ rn[rn[d].children + 1].gen # 0 => in.step.recs # <<>>
JobGoes(k) ==
    /\ rn[stack[k].at].rtype = "JOBID"
    /\ stack[k].kid > 1 \/ (stack[k].kid = 1 /\ k = Depth /\ ret > NULL)
    => in.step.recs # <<>>
ShapeInv ==
    /\ \A d \in Dirs : KidsOK(d) /\ JobShown(d)
    /\ \A s \in Slots : NodeOnce(s)
    /\ \A k \in 1 .. Depth : JobGoes(k)
-----------------------------------------------------------------------------
(* How the parts of ShapeInv are kept *)

\* A check is of the type.
LEMMA ChecksStay ==
  ASSUME NEW s, in' = in, rn'[s].rtype = rn[s].rtype
  PROVE  Check(s)' = Check(s)
  BY Zenon DEF Check, Kind

\* A directory of steps stands behind a step.
LEMMA StepsTaken ==
  ASSUME in \in Inputs, NEW s, rn[s].rtype = "JOBSTEPS", Check(s) = "OK"
  PROVE  in.step.recs # <<>>
<1>1. Check(s) = StepsCheck[Kind(in.step)]
  <2>1. Row(rn[s].rtype) = "JOBSTEPS"
    <3>1. "JOBSTEPS" \in BuiltTypes
      BY DEF BuiltTypes
    <3> QED BY <3>1, BuiltRows
  <2> QED BY <2>1 DEF Check
<1>2. PICK kind : kind = Kind(in.step)
  OBVIOUS
<1>3. kind \in {"missing", "stale", "noarray", "empty", "array"}
  BY <1>2, InputsAssumption DEF IsReply, Kind
<1>4. StepsCheck[kind] = "OK"
  BY <1>1, <1>2
<1>5. kind = "array"
  BY <1>3, <1>4 DEF StepsCheck
<1>6. in.step.recs = <<>> /\ kind = "array" => in.step.state # "array" /\ in.step.state = "array"
  BY <1>2 DEF Kind
<1> QED BY <1>5, <1>6

\* What a directory is to hold does not change when a node is cast.
LEMMA ListsStay ==
  ASSUME IInv, TreeInv, NEW x, Grows(x), NEW d \in Dirs
  PROVE  /\ d \in Dirs' /\ d # x /\ rn'[d] = rn[d] /\ Kids(d)' = Kids(d)
         /\ Children(d)' = Children(d) /\ NKids(d)' = NKids(d) /\ Check(d)' = Check(d)
<1>1. \A e \in Dirs : e \in Dirs' /\ e # x /\ rn'[e] = rn[e] /\ Kids(e)' = Kids(e)
  BY DirsGrow
<1>2. PICK up : up = rn[d].parent
  OBVIOUS
<1>3. rn[d].rtype \in BuiltTypes /\ (rn[d].rtype # "ROOT" => up \in Dirs)
  BY <1>2 DEF TreeInv, DirOK, DirTypes
<1>4. rn[d].rtype # "ROOT" => rn'[up] = rn[up]
  BY <1>1, <1>3
<1>5. in' = in
  BY DEF Grows
<1>6. Children(d)' = Children(d)
  BY <1>1, <1>2, <1>3, <1>4, <1>5, ChildrenKept
<1> QED BY <1>1, <1>5, <1>6, ChecksStay DEF NKids

\* The directories, when a node is cast and the builder of one returns.
LEMMA DirsShape ==
  ASSUME IInv, TreeInv, ShapeInv, NEW x, Grows(x),
         \A d \in Dirs : x \in Kids(d) /\ rn[d].rtype # "ROOT" => KidOK(d, x)',
         x \in Dirs' => KidsOK(x)' /\ JobShown(x)',
         \A d \in Dirs : rn[d].rtype = "JOBID" /\ x = rn[d].children + 1 =>
            rn[x].gen # 0 \/ in.step.recs # <<>>,
         \A d \in Dirs : OnStack(d) /\ rn[d].rtype = "JOBID" =>
            OnStack(d)' \/ rn[rn[d].children].gen # 0
  PROVE  \A d \in Dirs' : KidsOK(d)' /\ JobShown(d)'
<1> SUFFICES ASSUME NEW d \in Dirs', d \in Dirs PROVE KidsOK(d)' /\ JobShown(d)'
  BY DirsGrow
<1>1. /\ rn'[d] = rn[d] /\ Kids(d)' = Kids(d) /\ in' = in
      /\ Children(d)' = Children(d) /\ NKids(d)' = NKids(d) /\ Check(d)' = Check(d)
  BY ListsStay DEF Grows
<1>2. \A s \in Kids(d) : s \in Slots
  BY KidsIn
<1>3. \A s \in Slots : s # x => rn'[s] = rn[s]
  BY DEF Grows
<1>4. KidsOK(d) /\ JobShown(d)
  BY DEF ShapeInv
<1>5. KidsOK(d)'
  <2> SUFFICES ASSUME rn[d].rtype # "ROOT" PROVE KidsOK(d)'
    BY <1>1 DEF KidsOK
  <2>1. ASSUME NEW s \in Kids(d) PROVE KidOK(d, s)'
    <3>1. CASE s = x
      BY <2>1, <3>1
    <3>2. CASE s # x
      <4>1. KidOK(d, s)
        BY <1>4, <2>1 DEF KidsOK
      <4>2. rn'[s] = rn[s]
        BY <1>2, <1>3, <3>2
      <4> QED BY <1>1, <4>1, <4>2 DEF KidOK, Named, Hole
    <3> QED BY <3>1, <3>2
  <2> QED BY <1>1, <1>4, <2>1 DEF KidsOK
<1>6. JobShown(d)'
  <2> SUFFICES ASSUME rn[d].rtype = "JOBID" PROVE JobShown(d)'
    BY <1>1 DEF JobShown
  <2>1. PICK b : b = rn[d].children
    OBVIOUS
  <2>2. b \in Slots /\ b + 1 \in Slots
    <3>1. rn[d].n = 3
      BY <1>4, FixedLists DEF KidsOK, NKids, BuiltTypes
    <3>2. d \in Slots /\ rn[d].children # NULL
      BY DEF Dirs
    <3>3. b \in Slots
      BY <2>1, <3>2 DEF IInv, PoolInv, NodeOK
    <3>4. b \in Int
      BY <3>3 DEF Slots, IInv, PoolInv
    <3>5. b + 1 \in Kids(d)
      BY <2>1, <3>1, <3>2, <3>4 DEF Kids
    <3> QED BY <1>2, <3>3, <3>5
  <2>3. rn[b].gen # 0 => rn'[b].gen # 0
    BY <2>2 DEF Grows
  <2>4. OnStack(d)' \/ rn'[b].gen # 0
    <3>1. OnStack(d) => OnStack(d)' \/ rn[b].gen # 0
      BY <2>1
    <3> QED BY <1>4, <2>1, <2>3, <3>1 DEF JobShown
  <2>5. rn'[b + 1].gen # 0 => in.step.recs # <<>>
    <3>1. rn[b + 1].gen # 0 => in.step.recs # <<>>
      BY <1>4, <2>1 DEF JobShown
    <3>2. CASE b + 1 = x
      BY <2>1, <3>1, <3>2
    <3>3. CASE b + 1 # x
      BY <1>3, <2>2, <3>1, <3>3
    <3> QED BY <3>2, <3>3
  <2> QED BY <1>1, <2>1, <2>4, <2>5 DEF JobShown
<1> QED BY <1>5, <1>6

\* The nodes that have no children, when one is cast and a builder returns.
LEMMA NodesShape ==
  ASSUME IInv, TreeInv, ShapeInv, NEW x, Grows(x), x \in Slots => NodeOnce(x)',
         \A s \in Slots : OnStack(s) /\ s # x /\ s \notin Dirs =>
            \/ OnStack(s)'
            \/ rn[s].rtype \notin AttrTypes /\ (rn[s].rtype = "ALLOCJOB" \/ Check(s) # "OK")
  PROVE  \A s \in Slots' : NodeOnce(s)'
<1> SUFFICES ASSUME NEW s \in Slots' PROVE NodeOnce(s)'
  OBVIOUS
<1>1. CASE s = x /\ x \in Slots
  BY <1>1
<1>2. CASE s \notin Slots
  BY <1>2 DEF Grows, NodeOnce, Named
<1>3. CASE s \in Slots /\ s # x
  <2>1. rn'[s] = rn[s] /\ in' = in
    BY <1>3 DEF Grows
  <2> SUFFICES ASSUME Named(s), s \notin Dirs' PROVE NodeOnce(s)'
    BY <2>1 DEF NodeOnce, Named
  <2>2. s \notin Dirs
    BY DirsGrow
  <2>3. NodeOnce(s)
    BY <1>3 DEF ShapeInv
  <2>4. Check(s)' = Check(s)
    BY <2>1, ChecksStay
  <2>5. OnStack(s) => \/ OnStack(s)'
                      \/ /\ rn[s].rtype \notin AttrTypes
                         /\ rn[s].rtype = "ALLOCJOB" \/ Check(s) # "OK"
    BY <1>3, <2>2
  <2>6. /\ rn[s].n = 0
        /\ rn[s].rtype \in AttrTypes => OnStack(s) \/ rn[s].gen = 2
        /\ rn[s].rtype \notin AttrTypes =>
              /\ rn[s].gen = 1
              /\ rn[s].rtype = "ALLOCJOB" \/ OnStack(s) \/ Check(s) # "OK"
    BY <2>2, <2>3 DEF NodeOnce
  <2>7. rn[s].rtype \in AttrTypes => OnStack(s)' \/ rn[s].gen = 2
    BY <2>5, <2>6
  <2>8. rn[s].rtype \notin AttrTypes => rn[s].rtype = "ALLOCJOB" \/ OnStack(s)' \/ Check(s) # "OK"
    BY <2>5, <2>6
  <2> QED BY <2>1, <2>4, <2>6, <2>7, <2>8 DEF NodeOnce
<1> QED BY <1>1, <1>2, <1>3

\* A job that has gone on, has gone on.
LEMMA GoesKept ==
  ASSUME ShapeInv, in' = in, NEW k \in 1 .. Depth, stack'[k] = stack[k],
         rn'[stack[k].at].rtype = rn[stack[k].at].rtype, k # Depth' \/ ~(ret' > NULL)
  PROVE  JobGoes(k)'
<1>1. JobGoes(k)
  BY DEF ShapeInv
<1>2. PICK f : f = stack[k] /\ f = stack'[k]
  OBVIOUS
<1>3. rn[f.at].rtype = "JOBID" /\ f.kid > 1 => in.step.recs # <<>>
  BY <1>1, <1>2 DEF JobGoes
<1> QED BY <1>2, <1>3 DEF JobGoes

\* The place of a child among its parent's.
LEMMA CastPlace ==
  ASSUME IInv, TreeInv, NEW k, NEW s, NEW x, NEW c, CastsInto(k, s, x, c), s \in Dirs,
         rn[s].rtype # "ROOT"
  PROVE  /\ rn[s].children \in Nat /\ stack[k].kid \in Nat
         /\ x = rn[s].children + stack[k].kid - 1
         /\ Children(s)[x - rn[s].children + 1] = c
<1>1. PICK f \in Frames : f = stack[k] /\ f.at = s /\ k \in 1 .. Depth
  BY DEF CastsInto
<1>2. f.kid \in Nat /\ f.blk \in Nat /\ f.kid > 0
  <2>1. f.kid \in 1 .. NKids(s)
    BY <1>1 DEF CastsInto
  <2>2. NKids(s) \in Nat
    BY <1>1, FrameFacts DEF IInv
  <2> QED BY <2>1, <2>2 DEF Frames
<1>3. rn[s].rtype # "ALLOCJOB"
  BY DEF TreeInv, DirOK, DirTypes
<1>4. rn[s].children = f.blk
  BY <1>1, <1>2, <1>3 DEF IInv, BlockInv, BlockOK
<1>5. x = f.blk + (f.kid - 1)
  BY <1>1 DEF CastsInto, Pos
<1>6. x - f.blk + 1 = f.kid
  BY <1>2, <1>5
<1>7. c = Children(s)[f.kid]
  BY <1>1 DEF CastsInto
<1> QED BY <1>1, <1>2, <1>4, <1>5, <1>6, <1>7

\* What a builder casts first.
LEMMA CallCasts ==
  ASSUME IInv, CastChild
  PROVE  \E k \in Nat : \E s, x, c : Calls(k, s, x, c) /\ rn'[x] = FirstCast(c, s)
<1>1. PICK k \in Nat : \E s, x, c : Calls(k, s, x, c)
  BY CallIs
<1>2. PICK s, x, c : Calls(k, s, x, c)
  BY <1>1
<1>3. /\ k = Depth /\ s = stack[k].at /\ x \in Slots /\ x = stack[k].next
      /\ c = Children(s)[stack[k].kid]
  BY <1>2 DEF Calls, CastsInto
<1>4. Top = stack[k]
  BY <1>3 DEF Top, Depth
<1>5. rn' = [rn EXCEPT ![x] = FirstCast(c, s)]
  BY <1>3, <1>4, Zenon DEF CastChild, NextChild
<1>6. rn'[x] = FirstCast(c, s)
  BY <1>3, <1>5, Zenon DEF IInv, PoolInv
<1> QED BY <1>2, <1>6

\* What a cast says of jobs: behind their steps there is a step.
LEMMA CastShape ==
  ASSUME IInv, TreeInv, ShapeInv, NEW k, NEW s, NEW x, NEW c, CastsInto(k, s, x, c),
         s \in Dirs /\ rn[s].rtype # "ROOT" => KidOK(s, x)', NodeOnce(x)',
         Depth' = k + 1 \/ (Depth' = k /\ ret' = NULL)
  PROVE  /\ \A d \in Dirs' : KidsOK(d)' /\ JobShown(d)'
         /\ \A t \in Slots' : NodeOnce(t)'
         /\ \A i \in 1 .. k : JobGoes(i)'
<1>1. /\ k \in Nat /\ k = Depth /\ k \in 1 .. Depth /\ Grows(x) /\ s = stack[k].at /\ in' = in
      /\ x \notin Dirs' /\ \A d \in Dirs : x \in Kids(d) => d = s
      /\ \A i \in 1 .. k : stack'[i] = stack[i] /\ stack[i].at # x
  BY DEF CastsInto, Dirs
<1>2. \A i \in 1 .. k : rn'[stack[i].at] = rn[stack[i].at]
  BY <1>1, FrameFacts DEF Grows, IInv
<1>3. \A t : OnStack(t) => OnStack(t)'
  BY <1>1 DEF OnStack
<1>4. \A t \in Slots' : NodeOnce(t)'
  BY <1>1, <1>3, NodesShape
<1>5. ASSUME NEW d \in Dirs, rn[d].rtype = "JOBID", x = rn[d].children + 1
      PROVE  in.step.recs # <<>>
  <2>1. d = s
    <3>1. rn[d].n = 3 /\ rn[d].children # NULL
      <4>1. rn[d].n = NKids(d)
        BY <1>5 DEF ShapeInv, KidsOK
      <4> QED BY <1>5, <4>1, FixedLists DEF NKids, BuiltTypes, Dirs
    <3>2. rn[d].children \in Int
      BY <1>5, <3>1 DEF Dirs, IInv, PoolInv, NodeOK, Slots
    <3>3. x \in Kids(d)
      BY <1>5, <3>1, <3>2 DEF Kids
    <3> QED BY <1>1, <3>3
  <2>2. stack[k].kid = 2
    <3>1. rn[s].children \in Nat /\ stack[k].kid \in Nat /\ x = rn[s].children + stack[k].kid - 1
      BY <1>5, <2>1, CastPlace
    <3> QED BY <1>5, <2>1, <3>1
  <2>3. JobGoes(k)
    BY <1>1 DEF ShapeInv
  <2> QED BY <1>1, <1>5, <2>1, <2>2, <2>3 DEF JobGoes
<1>6. \A d \in Dirs' : KidsOK(d)' /\ JobShown(d)'
  BY <1>1, <1>3, <1>5, DirsShape
<1>7. \A i \in 1 .. k : JobGoes(i)'
  <2>1. Depth' = k + 1 \/ ~(ret' > NULL)
    OBVIOUS
  <2>2. \A i \in 1 .. k : i \in 1 .. Depth /\ (i # Depth' \/ ~(ret' > NULL))
    BY <1>1, <2>1
  <2> QED BY <1>1, <1>2, <2>2, GoesKept
<1> QED BY <1>4, <1>6, <1>7

\* A child's builder is called.
LEMMA CalledShape ==
  ASSUME IInv, TreeInv, ShapeInv, CastChild
  PROVE  ShapeInv'
<1>1. PICK k \in Nat : \E s, x, c : Calls(k, s, x, c) /\ rn'[x] = FirstCast(c, s)
  BY CallCasts
<1>2. PICK s, x, c : Calls(k, s, x, c) /\ rn'[x] = FirstCast(c, s)
  BY <1>1
<1>3. /\ CastsInto(k, s, x, c) /\ Grows(x) /\ Depth' = k + 1 /\ stack'[k + 1] = Frame(x)
      /\ c.nm # NoName
  BY <1>2 DEF Calls, CastsInto, Sound
<1>4. PICK v : /\ v = rn'[x] /\ v.rtype = c.rtype /\ v.gen = 1 /\ v.nm = c.nm /\ v.typ = c.typ
               /\ v.dyn = c.dyn /\ v.n = 0
  BY <1>2 DEF FirstCast
<1>5. Frame(x).at = x /\ Frame(x).kid = 0
  BY DEF Frame
<1>6. OnStack(x)'
  BY <1>3, <1>5 DEF OnStack
<1>7. NodeOnce(x)'
  BY <1>4, <1>6 DEF NodeOnce, AttrTypes
<1>8. s \in Dirs /\ rn[s].rtype # "ROOT" => KidOK(s, x)'
  <2> SUFFICES ASSUME s \in Dirs, rn[s].rtype # "ROOT" PROVE KidOK(s, x)'
    OBVIOUS
  <2>1. Children(s)[x - rn[s].children + 1] = c
    BY <1>3, CastPlace
  <2>2. Children(s)' = Children(s) /\ rn'[s] = rn[s]
    BY <1>3, ListsStay
  <2> QED BY <1>3, <1>4, <2>1, <2>2 DEF KidOK, Named, Hole
<1>9. /\ \A d \in Dirs' : KidsOK(d)' /\ JobShown(d)'
      /\ \A t \in Slots' : NodeOnce(t)'
      /\ \A i \in 1 .. k : JobGoes(i)'
  BY <1>3, <1>7, <1>8, CastShape
<1>10. JobGoes(k + 1)'
  BY <1>3, <1>5 DEF JobGoes
<1>11. \A i \in 1 .. Depth' : i = k + 1 \/ i \in 1 .. k
  BY <1>3
<1> QED BY <1>9, <1>10, <1>11 DEF ShapeInv

\* A twin is found: an earlier child of the directory has the name.
LEMMA MissShape ==
  ASSUME IInv, TreeInv, ShapeInv, NEW k, NEW s, NEW x, NEW c, Misses(k, s, x, c)
  PROVE  ShapeInv'
<1>1. /\ CastsInto(k, s, x, c) /\ Grows(x) /\ Depth' = k /\ ret' = NULL /\ k \in Nat
      /\ rn'[x].nm = NoName /\ Twin(s, c.nm) /\ x \in Slots /\ rn[x].nm = NoName
      /\ \A d \in Dirs : x \in Kids(d) => d = s
      /\ rn[s].rtype # "ALLOCJOB" => s \in Dirs /\ x \in Kids(s)
  BY DEF Misses, CastsInto
<1>2. NodeOnce(x)'
  BY <1>1 DEF NodeOnce, Named
<1>3. s \in Dirs /\ rn[s].rtype # "ROOT" => KidOK(s, x)'
  <2> SUFFICES ASSUME s \in Dirs, rn[s].rtype # "ROOT" PROVE KidOK(s, x)'
    OBVIOUS
  <2>1. PICK b \in Nat : b = rn[s].children /\ Children(s)[x - b + 1] = c
    BY <1>1, CastPlace
  <2>2. Children(s)' = Children(s) /\ rn'[s] = rn[s]
    BY <1>1, ListsStay
  <2>3. PICK t \in DOMAIN rn : t >= b /\ rn[t].nm = c.nm /\ \A u \in b .. t : rn[u].nm # NoName
    BY <1>1, <2>1 DEF Twin
  <2>4. t \in Int /\ x \in Int /\ x \in Kids(s) /\ s \in Slots /\ rn[s].children # NULL
    <3>1. rn[s].rtype # "ALLOCJOB"
      BY DEF TreeInv, DirOK, DirTypes
    <3> QED BY <1>1, <3>1 DEF Dirs, IInv, PoolInv, Slots
  <2>5. rn[s].n \in Nat
    BY <2>4 DEF IInv, PoolInv, NodeOK
  <2>6. x \in b .. (b + rn[s].n - 1)
    BY <2>1, <2>4 DEF Kids
  <2>7. t < x
    BY <1>1, <2>3, <2>4, <2>5, <2>6
  <2>8. t \in Kids(s)
    BY <2>1, <2>3, <2>4, <2>5, <2>6, <2>7 DEF Kids
  <2>9. Children(s)[t - b + 1].nm = c.nm
    <3>1. KidOK(s, t)
      BY <2>8 DEF ShapeInv, KidsOK
    <3>2. Named(t)
      BY <2>3, <2>4 DEF Named
    <3> QED BY <2>1, <2>3, <3>1, <3>2 DEF KidOK
  <2>10. PICK j : j = x - b + 1 /\ t - b + 1 \in 1 .. (j - 1)
    BY <2>3, <2>4, <2>7
  <2>11. PICK list : list = Children(s)
    OBVIOUS
  <2>12. \E h \in 1 .. (j - 1) : list[h].nm = list[j].nm
    BY <2>1, <2>9, <2>10, <2>11
  <2> QED BY <1>1, <2>1, <2>2, <2>10, <2>11, <2>12 DEF KidOK, Named, Hole
<1>4. /\ \A d \in Dirs' : KidsOK(d)' /\ JobShown(d)'
      /\ \A t \in Slots' : NodeOnce(t)'
      /\ \A i \in 1 .. k : JobGoes(i)'
  BY <1>1, <1>2, <1>3, CastShape
<1> QED BY <1>1, <1>4 DEF ShapeInv

\* A builder returns, or gives up; x is the leaf it has cast. A job has its
\* directory of steps by then, and a directory without children failed its check.
LEMMA PopShape ==
  ASSUME IInv, TreeInv, ShapeInv, NEW k, NEW s, NEW x, GivesBack(k, s, x),
         x \in Slots => /\ x = s /\ rn[x].gen # 0 /\ NodeOnce(x)'
                        /\ \A d \in Dirs : x \in Kids(d) /\ rn[d].rtype # "ROOT" => KidOK(d, x)',
         s \in Dirs /\ rn[s].rtype = "JOBID" => rn[rn[s].children].gen # 0,
         s \notin Dirs /\ s # x =>
            rn[s].rtype \notin AttrTypes /\ (rn[s].rtype = "ALLOCJOB" \/ Check(s) # "OK"),
         NEW g, g = stack[k - 1],
         ret' > NULL /\ rn[g.at].rtype = "JOBID" /\ g.kid = 1 => in.step.recs # <<>>
  PROVE  ShapeInv'
<1>1. /\ k \in Nat /\ k = Depth /\ k > 1 /\ k \in 1 .. Depth /\ s = stack[k].at /\ Grows(x)
      /\ x \notin Dirs' /\ Depth' = k - 1 /\ in' = in
      /\ \A i \in 1 .. (k - 1) : stack'[i] = stack[i] /\ rn'[stack[i].at] = rn[stack[i].at]
  BY DEF GivesBack, Dirs, Slots
<1>2. \A t : OnStack(t) => OnStack(t)' \/ t = s
  <2> SUFFICES ASSUME NEW t, NEW i \in 1 .. Depth, stack[i].at = t PROVE OnStack(t)' \/ t = s
    BY DEF OnStack
  <2>1. i = k \/ i \in 1 .. (k - 1)
    BY <1>1
  <2>2. CASE i = k
    BY <1>1, <2>2
  <2>3. CASE i \in 1 .. (k - 1)
    <3>1. i \in 1 .. Depth' /\ stack'[i].at = t
      BY <1>1, <2>3
    <3> QED BY <3>1 DEF OnStack
  <2> QED BY <2>1, <2>2, <2>3
<1>3. \A d \in Dirs' : KidsOK(d)' /\ JobShown(d)'
  <2>1. \A d \in Dirs : x \in Kids(d) => x \in Slots
    BY KidsIn
  <2>2. ASSUME NEW d \in Dirs, rn[d].rtype = "JOBID", x = rn[d].children + 1
        PROVE  rn[x].gen # 0 \/ in.step.recs # <<>>
    <3>1. rn[d].n = 3 /\ rn[d].children # NULL
      <4>1. rn[d].n = NKids(d)
        BY <2>2 DEF ShapeInv, KidsOK
      <4> QED BY <2>2, <4>1, FixedLists DEF NKids, BuiltTypes, Dirs
    <3>2. rn[d].children \in Int
      BY <2>2, <3>1 DEF Dirs, IInv, PoolInv, NodeOK, Slots
    <3>3. x \in Kids(d)
      BY <2>2, <3>1, <3>2 DEF Kids
    <3> QED BY <2>1, <3>3
  <2>3. \A d \in Dirs : OnStack(d) /\ rn[d].rtype = "JOBID" =>
           OnStack(d)' \/ rn[rn[d].children].gen # 0
    BY <1>2
  <2> QED BY <1>1, <2>1, <2>2, <2>3, DirsShape
<1>4. \A t \in Slots' : NodeOnce(t)'
  BY <1>1, <1>2, NodesShape
<1>5. \A i \in 1 .. Depth' : JobGoes(i)'
  <2>1. \A i \in 1 .. (k - 1) : i # k - 1 => JobGoes(i)'
    <3>1. \A i \in 1 .. (k - 1) : i \in 1 .. Depth
      BY <1>1
    <3> QED BY <1>1, <3>1, GoesKept
  <2>2. JobGoes(k - 1)'
    <3>1. PICK f : f = g /\ f = stack'[k - 1] /\ k - 1 \in 1 .. Depth
      BY <1>1
    <3>2. JobGoes(k - 1) /\ f = stack[k - 1] /\ rn'[f.at] = rn[f.at]
      BY <1>1, <3>1 DEF ShapeInv
    <3>3. rn[f.at].rtype = "JOBID" /\ f.kid > 1 => in.step.recs # <<>>
      BY <3>2 DEF JobGoes
    <3> QED BY <1>1, <3>1, <3>2, <3>3 DEF JobGoes
  <2>3. \A i \in 1 .. Depth' : i = k - 1 \/ (i \in 1 .. (k - 1) /\ i # k - 1)
    BY <1>1
  <2> QED BY <2>1, <2>2, <2>3
<1> QED BY <1>3, <1>4, <1>5 DEF ShapeInv

\* A builder that gives up.
LEMMA FailShape ==
  ASSUME IInv, TreeInv, ShapeInv, NEW sev, Fail(sev), ~Exit, Building, stack # <<>>,
         NEW k, k = Depth, k \in 1 .. Depth, NEW s, s = stack[k].at,
         s \in Dirs /\ rn[s].rtype = "JOBID" => rn[rn[s].children].gen # 0,
         s \notin Dirs => rn[s].rtype \notin AttrTypes /\ (rn[s].rtype = "ALLOCJOB" \/ Check(s) # "OK")
  PROVE  ShapeInv'
<1>1. /\ Below # <<>> /\ stack' = Below /\ ret' = NULL
      /\ UNCHANGED <<in, rn, nxt_avail, p_fsroot, p_jobd, status>>
  BY DEF Fail, pool, roots
<1>2. Top.at = s /\ NULL \notin Slots
  BY TopIs DEF IInv, VarsInv, Slots
<1>3. Grows(NULL)
  <2>1. Slots' = Slots
    BY <1>1 DEF Slots
  <2> QED BY <1>1, <1>2, <2>1 DEF Grows
<1>4. PICK l \in Nat : GivesBack(l, s, NULL)
  BY <1>1, <1>2, <1>3, GiveIs
<1>5. PICK g : g = stack[l - 1]
  OBVIOUS
<1>6. ~(ret' > NULL)
  BY <1>1
<1> QED BY <1>2, <1>4, <1>5, <1>6, PopShape

\* The checks that fail are those of the lists.
LEMMA RefuseShape ==
  ASSUME IInv, TreeInv, ShapeInv, Refuse, ~Exit
  PROVE  ShapeInv'
<1>1. stack # <<>> /\ Building /\ Check(Top.at) # "OK" /\ Fail(Check(Top.at)) /\ Top.kid = 0
  BY DEF Refuse, Entered, Running, Building
<1>2. PICK k \in Nat : k = Depth /\ k \in 1 .. Depth /\ Top = stack[k]
  BY <1>1, TopIs DEF IInv, VarsInv
<1>3. PICK s : s = Top.at /\ s = stack[k].at
  BY <1>2
<1>4. rn[s].rtype \in BuiltTypes /\ s \notin Dirs
  <2>1. EnteredOK(k) /\ rn[s].rtype \in BuiltTypes
    BY <1>2, <1>3, FrameFacts DEF IInv, EnteredInv
  <2> QED BY <1>1, <1>2, <1>3, <2>1 DEF EnteredOK, Dirs
<1>5. Row(rn[s].rtype) \in {"PARTS", "NODES", "JOBS", "JOBSTEPS"}
  <2>1. PICK row : row = Row(rn[s].rtype)
    OBVIOUS
  <2> SUFFICES ASSUME row \notin {"PARTS", "NODES", "JOBS", "JOBSTEPS"} PROVE FALSE
    BY <2>1
  <2>2. Check(s) = "OK"
    BY <2>1 DEF Check
  <2> QED BY <1>1, <1>3, <2>2
<1>6. rn[s].rtype \notin AttrTypes
  BY <1>4, <1>5, BuiltRows DEF AttrTypes, AttrSubtypes
<1> QED BY <1>1, <1>2, <1>3, <1>4, <1>6, FailShape

\* No slot has the number 0.
LEMMA NoKid ==
  ASSUME IInv
  PROVE  \A d \in Dirs : NULL \notin Kids(d) /\ NULL # rn[d].children + 1
<1>1. NULL \notin Slots
  BY DEF Slots
<1>2. \A d \in Dirs : NULL \notin Kids(d)
  BY <1>1, KidsIn
<1>3. \A d \in Dirs : rn[d].children \in Slots
  BY DEF Dirs, IInv, PoolInv, NodeOK
<1>4. \A t \in Slots : t \in Int /\ t > NULL
  BY DEF IInv, PoolInv, Slots
<1> QED BY <1>2, <1>3, <1>4

\* A builder goes on to its next child: that of a job, behind a step.
LEMMA AdvanceShape ==
  ASSUME IInv, TreeInv, ShapeInv, stack # <<>>, Building, ret # Pending, NEW nx \in Nat,
         SetTop(Advanced(Top, nx)), ret' = Pending, UNCHANGED <<in, rn, nxt_avail>>,
         ret > NULL \/ (ret = NULL /\ rn[Top.at].rtype = "JOBS")
  PROVE  ShapeInv'
<1>1. PICK k \in Nat : k = Depth /\ k \in 1 .. Depth /\ Top = stack[k] /\ k >= 1 /\ Top \in Frames
  BY TopIs DEF IInv, VarsInv
<1>2. PICK f \in Frames : f = Advanced(Top, nx) /\ f.at = Top.at /\ f.blk = Top.blk /\ f.kid = Top.kid + 1
  BY <1>1, FrameStep
<1>3. SetTop(f)
  BY <1>2, Zenon
<1>4. Depth' = k /\ stack'[k] = f /\ \A j \in 1 .. (k - 1) : stack'[j] = stack[j]
  BY <1>1, <1>3, SetTopIs DEF IInv, VarsInv
<1>5. NULL \notin Slots /\ NULL \notin Dirs' /\ NULL \notin Slots'
  BY DEF Slots, Dirs
<1>6. Grows(NULL)
  <2>1. Slots' = Slots
    BY DEF Slots
  <2> QED BY <1>5, <2>1 DEF Grows
<1>7. \A j \in 1 .. Depth : j = k \/ (j \in 1 .. (k - 1) /\ j # Depth')
  BY <1>1, <1>4
<1>8. \A t : OnStack(t) => OnStack(t)'
  <2>1. \A j \in 1 .. Depth : j \in 1 .. Depth' /\ stack'[j].at = stack[j].at
    BY <1>1, <1>2, <1>4, <1>7
  <2> QED BY <2>1 DEF OnStack
<1>9. \A d \in Dirs' : KidsOK(d)' /\ JobShown(d)'
  <2>1. \A d \in Dirs : NULL \notin Kids(d) /\ NULL # rn[d].children + 1
    BY NoKid
  <2> QED BY <1>5, <1>6, <1>8, <2>1, DirsShape
<1>10. \A t \in Slots' : NodeOnce(t)'
  BY <1>5, <1>6, <1>8, NodesShape
<1>11. \A j \in 1 .. Depth' : JobGoes(j)'
  <2>1. \A j \in 1 .. (k - 1) : j \in 1 .. Depth /\ j # Depth'
    BY <1>1, <1>4
  <2>2. \A j \in 1 .. (k - 1) : JobGoes(j)'
    BY <1>4, <2>1, GoesKept
  <2>3. JobGoes(k)'
    <3>1. JobGoes(k) /\ Top.kid \in Nat /\ Top.kid > 0
      BY <1>1 DEF ShapeInv, IInv, RetInv, Frames
    <3>2. rn[f.at].rtype = "JOBID" => in.step.recs # <<>>
      BY <1>1, <1>2, <3>1 DEF JobGoes
    <3> QED BY <1>4, <3>2 DEF JobGoes
  <2>4. \A j \in 1 .. Depth' : j = k \/ j \in 1 .. (k - 1)
    BY <1>4
  <2> QED BY <2>2, <2>3, <2>4
<1> QED BY <1>9, <1>10, <1>11 DEF ShapeInv

\* A child was not built, and its parent goes on without it, or gives up.
LEMMA ChildFailsShape ==
  ASSUME IInv, TreeInv, FillInv, ShapeInv, ChildFails, ~Exit
  PROVE  ShapeInv'
<1>1. stack # <<>> /\ Building /\ ret = NULL /\ ret # Pending
  BY DEF ChildFails, Running, Building
<1>2. PICK k \in Nat : k = Depth /\ k \in 1 .. Depth /\ Top = stack[k] /\ Top \in Frames
  BY <1>1, TopIs DEF IInv, VarsInv
<1>3. PICK s : s = Top.at /\ s = stack[k].at
  BY <1>2
<1>4. Top.kid > 0 /\ Top.kid \in 1 .. NKids(s) /\ Top.kid \in Nat
  <2>1. Top.kid > 0 /\ Top.kid <= NKids(s) /\ Top.kid \in Nat
    BY <1>1, <1>2, <1>3 DEF IInv, RetInv, Building, Frames
  <2>2. NKids(s) \in Nat
    BY <1>2, <1>3, FrameFacts DEF IInv
  <2> QED BY <2>1, <2>2
<1>5. CASE NextChild.onNull = "CONTINUE"
  <2>1. /\ SetTop([Top EXCEPT !.kid = @ + 1, !.next = @ + 1]) /\ ret' = Pending
        /\ UNCHANGED <<in, rn, nxt_avail>>
    BY <1>5, Zenon DEF ChildFails, pool
  <2>2. PICK nx \in Nat : nx = Top.next + 1
    BY <1>2 DEF Frames
  <2>3. SetTop(Advanced(Top, nx))
    BY <2>1, <2>2, Zenon DEF Advanced
  <2>4. rn[Top.at].rtype = "JOBS"
    BY <1>1, <1>3, <1>4, <1>5, NextIs
  <2> QED BY <1>1, <2>1, <2>3, <2>4, AdvanceShape
<1>6. CASE NextChild.onNull # "CONTINUE"
  <2>1. PICK sev : sev = NextChild.onNull
    OBVIOUS
  <2>2. Fail(sev)
    BY <1>6, <2>1, Zenon DEF ChildFails
  <2>3. rn[s].rtype \notin AttrTypes /\ (s \notin Dirs => rn[s].rtype = "ALLOCJOB")
    BY <1>2, <1>3, <1>4, ListLengths
  <2>4. s \in Dirs /\ rn[s].rtype = "JOBID" => rn[rn[s].children].gen # 0
    <3> SUFFICES ASSUME rn[s].rtype = "JOBID" PROVE rn[rn[s].children].gen # 0
      OBVIOUS
    <3>1. rn[s].children = Top.blk /\ Top.blk \in Nat
      BY <1>2, <1>3, <1>4 DEF IInv, BlockInv, BlockOK, Frames
    <3>2. Pos(Top, 1) = Top.blk
      BY <1>3, <3>1 DEF Pos
    <3>3. 1 \in 1 .. Done(k)
      BY <1>1, <1>2, <1>4 DEF Done
    <3>4. rn[Pos(Top, 1)].gen # 0
      BY <1>2, <1>4, <3>3 DEF FillInv, FilledInv, FilledOK
    <3> QED BY <3>1, <3>2, <3>4
  <2> QED BY <1>1, <1>2, <1>3, <2>2, <2>3, <2>4, FailShape
<1> QED BY <1>5, <1>6

\* A child was built.
LEMMA ChildBuiltShape ==
  ASSUME IInv, TreeInv, ShapeInv, ChildBuilt
  PROVE  ShapeInv'
<1>1. /\ stack # <<>> /\ Building /\ ret > NULL /\ ret # Pending /\ ret' = Pending
      /\ UNCHANGED <<in, rn, nxt_avail>>
  BY DEF ChildBuilt, Running, pool, Building
<1>2. SetTop(Advanced(Top, NextSlot))
  BY Zenon DEF ChildBuilt, Advanced
<1>3. PICK nx \in Nat : nx = NextSlot
  BY <1>1, NextSlotIs
<1> QED BY <1>1, <1>2, <1>3, AdvanceShape

\* A leaf is cast the second time: only a knob changes its type.
LEMMA AttrShape ==
  ASSUME IInv, TreeInv, FillInv, ShapeInv, MkAttr
  PROVE  ShapeInv'
<1>1. PICK at, v : CastsAttr(at, v)
  BY AttrIs
<1>2. /\ at = Top.at /\ at \in Slots /\ Building /\ stack # <<>> /\ ret = Pending
      /\ rn[at].rtype \in AttrTypes /\ rn[at].children = NULL /\ rn[at].gen # 0
      /\ v.rtype = rn[at].rtype \/ (rn[at].rtype = "KNOB" /\ v.rtype = "ATTRIBUTE")
      /\ rn'[at] = v /\ v.rtype \in AttrTypes /\ v.gen = 2 /\ v.nm = rn[at].nm /\ v.typ = rn[at].typ
      /\ v.children = NULL /\ v.n = rn[at].n /\ v.dyn = rn[at].dyn
      /\ \A s \in Slots : s # at => rn'[s] = rn[s]
      /\ UNCHANGED <<in, nxt_avail, p_fsroot, p_jobd>> /\ Slots' = Slots
  BY <1>1 DEF CastsAttr, AttrTypes, AttrSubtypes
<1>3. PICK k \in Nat : k = Depth /\ k \in 1 .. Depth /\ Top = stack[k] /\ k > 1 /\ at = stack[k].at
  BY <1>1, <1>2, TopIs DEF IInv, VarsInv, CastsAttr
<1>4. Grows(at)
  BY <1>2 DEF Grows
<1>5. at \notin Dirs /\ at \notin Dirs'
  BY <1>2 DEF Dirs
<1>6. NodeOnce(at)'
  <2>1. NodeOnce(at)
    BY <1>2 DEF ShapeInv
  <2>2. v.nm # NoName => v.n = 0
    BY <1>2, <1>5, <2>1 DEF NodeOnce, Named
  <2> QED BY <1>2, <2>2 DEF NodeOnce, Named
<1>7. ASSUME NEW d \in Dirs, at \in Kids(d), rn[d].rtype # "ROOT" PROVE KidOK(d, at)'
  <2>1. KidOK(d, at)
    BY <1>7 DEF ShapeInv, KidsOK
  <2>2. Children(d)' = Children(d) /\ rn'[d] = rn[d]
    BY <1>4, ListsStay
  <2>3. PICK j, list : j = at - rn[d].children + 1 /\ list = Children(d)
    OBVIOUS
  <2>4. /\ rn[at].nm # NoName => /\ rn[at].nm = list[j].nm /\ rn[at].typ = list[j].typ
                                 /\ rn[at].rtype = list[j].rtype \/ list[j].rtype = "KNOB"
                                 /\ rn[at].dyn = list[j].dyn
        /\ rn[at].nm = NoName => \E h \in 1 .. (j - 1) : list[h].nm = list[j].nm
    <3>1. rn[at].rtype \notin ListTypes \cup {"JOBID"}
      BY <1>2 DEF ListTypes, AttrTypes, AttrSubtypes
    <3> QED BY <1>2, <2>1, <2>3, <3>1 DEF KidOK, Named, Hole
  <2> QED BY <1>2, <2>2, <2>3, <2>4 DEF KidOK, Named, Hole
<1>8. CASE v.rtype # "SIGNATURE"
  <2>1. stack' = Below /\ ret' = at /\ status' = status
    BY <1>1, <1>8 DEF CastsAttr
  <2>2. ret' # Pending
    BY <1>2, <2>1 DEF Slots
  <2>3. Below # <<>>
    BY <1>2, <1>3, TopIs DEF IInv, VarsInv
  <2>4. rn'[at].nm # NoName
    <3>1. rn[at].nm # NoName
      BY <1>3 DEF FillInv, NamedInv, Named
    <3> QED BY <1>2, <3>1
  <2>5. PICK l \in Nat : GivesBack(l, at, at)
    BY <1>2, <1>4, <2>1, <2>2, <2>3, <2>4, GiveIs
  <2>6. PICK g : g = stack[l - 1]
    OBVIOUS
  <2>7. rn[g.at].rtype # "JOBID"
    <3>1. MayHold(rn[g.at].rtype, rn[at].rtype)
      BY <2>5, <2>6, CalledFrom DEF GivesBack
    <3> QED BY <1>2, <3>1 DEF MayHold, AttrTypes, AttrSubtypes
  <2> QED BY <1>2, <1>5, <1>6, <1>7, <2>5, <2>6, <2>7, PopShape
<1>9. CASE v.rtype = "SIGNATURE"
  <2>1. UNCHANGED <<stack, ret>>
    BY <1>1, <1>9 DEF CastsAttr
  <2>2. Depth' = Depth /\ \A t : OnStack(t) => OnStack(t)'
    BY <2>1 DEF OnStack, Depth
  <2>3. \A t \in Slots' : NodeOnce(t)'
    BY <1>4, <1>6, <2>2, NodesShape
  <2>4. \A d \in Dirs' : KidsOK(d)' /\ JobShown(d)'
    BY <1>2, <1>4, <1>5, <1>7, <2>2, DirsShape
  <2>5. \A j \in 1 .. Depth' : JobGoes(j)'
    <3>1. \A j \in 1 .. Depth : stack[j].at \in Slots /\ stack'[j] = stack[j]
      BY <2>1, FrameFacts DEF IInv
    <3>2. \A j \in 1 .. Depth : rn'[stack[j].at].rtype = rn[stack[j].at].rtype
                                \/ stack[j].at = at
      BY <1>2, <3>1
    <3>3. \A j \in 1 .. Depth : stack[j].at = at => JobGoes(j)'
      <4>1. v.rtype # "JOBID"
        BY <1>9
      <4> QED BY <1>2, <2>1, <4>1 DEF JobGoes
    <3>4. ~(ret' > NULL)
      BY <1>2, <2>1
    <3> QED BY <1>2, <2>2, <3>1, <3>2, <3>3, <3>4, GoesKept
  <2> QED BY <2>3, <2>4, <2>5 DEF ShapeInv
<1> QED BY <1>8, <1>9

\* A builder returns, all its children dealt with.
LEMMA ReturnShape ==
  ASSUME IInv, TreeInv, FillInv, ShapeInv, Return
  PROVE  ShapeInv'
<1>1. /\ stack # <<>> /\ Building /\ Top.kid > 0 /\ stack' = Below /\ ret = Pending
      /\ ~(Top.kid <= Len(Children(Top.at)))
      /\ ret' = IF Row(rn[Top.at].rtype) = "NODESTATE" THEN Top.blk ELSE Top.at
      /\ status' = IF Below = <<>> THEN "mounted" ELSE status
      /\ UNCHANGED <<in, rn, nxt_avail, p_fsroot>>
  BY DEF Return, Casting, Running, More, pool, Building
<1>2. PICK k \in Nat : k = Depth /\ k \in 1 .. Depth /\ Top = stack[k] /\ Top \in Frames
  BY <1>1, TopIs DEF IInv, VarsInv
<1>3. PICK s : s = Top.at /\ s = stack[k].at
  BY <1>2
<1>4. PICK n \in Nat : n = NKids(s) /\ Top.kid \in Nat /\ Top.kid > n
  <2>1. NKids(s) \in Nat /\ Top.kid \in Nat
    BY <1>2, <1>3, FrameFacts DEF IInv, Frames
  <2> QED BY <1>1, <1>3, <2>1 DEF NKids
<1>5. s \in Dirs => \A t \in Kids(s) : rn[t].gen # 0
  BY <1>1, <1>2, <1>3, <1>4, AllCast DEF FillInv
<1>6. NULL \notin Slots /\ NULL \notin Dirs' /\ NULL \notin Slots'
  BY DEF Slots, Dirs
<1>7. Grows(NULL)
  <2>1. Slots' = Slots
    BY <1>1 DEF Slots
  <2> QED BY <1>1, <1>6, <2>1 DEF Grows
<1>8. rn[s].rtype \notin AttrTypes /\ (s \notin Dirs => rn[s].rtype = "ALLOCJOB")
  BY <1>1, <1>2, <1>3, ListLengths
<1>9. s \in Dirs /\ rn[s].rtype = "JOBID" => rn[rn[s].children].gen # 0
  <2> SUFFICES ASSUME s \in Dirs, rn[s].rtype = "JOBID" PROVE rn[rn[s].children].gen # 0
    OBVIOUS
  <2>1. n = 3
    BY <1>2, <1>3, <1>4, ListLengths
  <2>2. rn[s].n = n /\ rn[s].children \in Nat /\ rn[s].children # NULL
    <3>1. rn[s].n = n /\ rn[s].children = Top.blk /\ Top.blk \in Nat
      BY <1>1, <1>2, <1>3, <1>4 DEF IInv, BlockInv, BlockOK, Frames
    <3> QED BY <3>1 DEF Dirs
  <2>3. rn[s].children \in Kids(s)
    BY <2>1, <2>2 DEF Kids
  <2> QED BY <1>5, <2>3
<1>10. ASSUME k > 1 PROVE ShapeInv'
  <2>1. Below # <<>> /\ status' = status
    BY <1>1, <1>2, <1>10, TopIs DEF IInv, VarsInv
  <2>2. ret' # Pending
    <3>1. s \in Slots /\ Top.blk \in Nat
      BY <1>1, <1>2, <1>3 DEF IInv, FrameInv, FrameOK, Frames
    <3> QED BY <1>1, <1>3, <3>1 DEF Slots
  <2>3. PICK l \in Nat : GivesBack(l, s, NULL)
    BY <1>1, <1>3, <1>6, <1>7, <2>1, <2>2, GiveIs
  <2>4. l = k
    BY <1>2, <2>3 DEF GivesBack
  <2>5. PICK g : g = stack[k - 1]
    OBVIOUS
  <2>6. rn[g.at].rtype = "JOBID" /\ g.kid = 1 => in.step.recs # <<>>
    <3> SUFFICES ASSUME rn[g.at].rtype = "JOBID", g.kid = 1 PROVE in.step.recs # <<>>
      OBVIOUS
    <3>1. rn[s].rtype = Children(g.at)[1].rtype
      BY <1>2, <1>3, <1>10, <2>5 DEF IInv, FrameInv, FrameOK
    <3>2. rn[s].rtype = "JOBSTEPS"
      BY <3>1, FixedLists DEF BuiltTypes
    <3>3. s \in Dirs
      BY <1>8, <3>2
    <3>4. Check(s) = "OK"
      BY <3>2, <3>3 DEF ShapeInv, KidsOK
    <3> QED BY <3>2, <3>4, StepsTaken DEF IInv, PoolInv
  <2> QED BY <1>6, <1>8, <1>9, <2>3, <2>4, <2>5, <2>6, PopShape
<1>11. ASSUME k = 1 PROVE ShapeInv'
  <2>1. stack' = <<>> /\ Depth' = 0
    <3>1. Below = <<>>
      BY <1>1, <1>2, <1>11, TopIs DEF IInv, VarsInv
    <3> QED BY <1>1, <3>1 DEF Depth
  <2>2. rn[s].rtype = "ROOT"
    BY <1>2, <1>3, <1>11 DEF IInv, FrameInv, FrameOK
  <2>3. \A t : OnStack(t) => t = s
    BY <1>2, <1>3, <1>11 DEF OnStack
  <2>4. s \in Dirs
    BY <1>8, <2>2
  <2>5. \A t \in Slots' : NodeOnce(t)'
    BY <1>6, <1>7, <2>3, <2>4, NodesShape
  <2>6. \A d \in Dirs' : KidsOK(d)' /\ JobShown(d)'
    <3>1. \A d \in Dirs : NULL \notin Kids(d) /\ NULL # rn[d].children + 1
      BY NoKid
    <3>2. \A d \in Dirs : ~(OnStack(d) /\ rn[d].rtype = "JOBID")
      BY <2>2, <2>3
    <3> QED BY <1>6, <1>7, <3>1, <3>2, DirsShape
  <2> QED BY <2>1, <2>5, <2>6 DEF ShapeInv
<1> QED BY <1>2, <1>10, <1>11

\* A builder that has its block has cast its node twice, and passed its check.
LEMMA ProvisionShape ==
  ASSUME IInv, TreeInv, FillInv, ShapeInv, Provision, ~Exit
  PROVE  ShapeInv'
<1> PICK at, up : \E n, k, b, m \in Nat : Provisions(at, n, up, k, b, m)
  BY ProvisionIs
<1>1. PICK n, k, b, m \in Nat : Provisions(at, n, up, k, b, m)
  OBVIOUS
<1>2. /\ at = Top.at /\ at \in Slots /\ stack # <<>> /\ in' = in /\ ret = Pending
      /\ k \in 1 .. Depth /\ k = Depth /\ k > 1 /\ Top = stack[k] /\ Top \in Frames
      /\ rn[at].rtype \in BuiltTypes \ ({"ROOT"} \cup AttrTypes)
      /\ rn[at].children = NULL /\ rn[at].gen = 1 /\ NodeOK(rn[at]) /\ NKids(at) = n
      /\ SetTop([at |-> at, blk |-> b, next |-> b, kid |-> 1]) /\ b = nxt_avail /\ b >= BaseAlloc
      /\ ret' = Pending /\ at \notin Dirs /\ \A s \in b .. (b + n) : s \in Slots'
  BY <1>1 DEF Provisions, Dirs
<1>3. /\ \A s \in Slots : s \in Slots' /\ (s # at => rn'[s] = rn[s])
      /\ \A s \in b .. (b + n) : rn'[s] = Guard(up)
      /\ \A s \in Slots' : s \in Slots \/ s \in b .. (b + n)
      /\ rn[at].rtype = "ALLOCJOB" => rn'[at] = rn[at]
      /\ rn[at].rtype # "ALLOCJOB" => rn'[at] = Recast(at)
  BY <1>1 DEF Provisions
<1>4. \A s \in b .. (b + n) : rn'[s].nm = NoName /\ rn'[s].children = NULL /\ rn'[s].gen = 0
  BY <1>3 DEF Guard
<1>5. rn[at].nm # NoName
  BY <1>2 DEF FillInv, NamedInv, Named
<1>6. rn[at].rtype # "ALLOCJOB" =>
         /\ rn'[at].rtype = rn[at].rtype /\ rn'[at].parent = rn[at].parent
         /\ rn'[at].typ = rn[at].typ /\ rn'[at].gen = 2
         /\ rn'[at].nm = (IF rn[at].rtype = "CLUSTER" THEN in.cname ELSE rn[at].nm)
         /\ rn'[at].children = b /\ rn'[at].n = n
         /\ rn'[at].dyn = rn[at].dyn \/ rn[at].rtype \in ListTypes \cup {"JOBID"}
  <2> SUFFICES ASSUME rn[at].rtype # "ALLOCJOB"
               PROVE  /\ rn'[at].rtype = rn[at].rtype /\ rn'[at].parent = rn[at].parent
                      /\ rn'[at].typ = rn[at].typ /\ rn'[at].gen = 2
                      /\ rn'[at].nm = (IF rn[at].rtype = "CLUSTER" THEN in.cname ELSE rn[at].nm)
                      /\ rn'[at].children = b /\ rn'[at].n = n
                      /\ rn'[at].dyn = rn[at].dyn \/ rn[at].rtype \in ListTypes \cup {"JOBID"}
    OBVIOUS
  <2>1. PICK w : w = Recast(at) /\ w = rn'[at]
    BY <1>3
  <2>2. DOMAIN rn[at] = {"rtype", "gen", "nm", "typ", "dyn", "parent", "children", "n", "isdir"}
    BY <1>2 DEF NodeOK, NodeFields
  <2>3. /\ w.rtype = rn[at].rtype /\ w.parent = rn[at].parent /\ w.gen = rn[at].gen + 1
        /\ w.typ = rn[at].typ
        /\ w.nm = (IF rn[at].rtype = "CLUSTER" THEN in.cname ELSE rn[at].nm)
        /\ w.children = b /\ w.n = n
        /\ w.dyn = rn[at].dyn \/ rn[at].rtype \in ListTypes \cup {"JOBID"}
    BY <1>2, <2>1, <2>2, RecastIs DEF NKids, ListTypes
  <2> QED BY <1>2, <2>1, <2>3
<1>7. Grows(at)
  <2>1. rn'[at].gen # 0 /\ rn'[at].nm # NoName
    <3>1. in.cname # NoName
      BY InputsAssumption DEF IInv, PoolInv, NodeNames
    <3>2. CASE rn[at].rtype = "ALLOCJOB"
      BY <1>2, <1>3, <1>5, <3>2
    <3>3. CASE rn[at].rtype # "ALLOCJOB"
      BY <1>5, <1>6, <3>1, <3>3
    <3> QED BY <3>2, <3>3
  <2> QED BY <1>2, <1>3, <1>4, <2>1 DEF Grows
<1>8. PICK f \in Frames : f = [at |-> at, blk |-> b, next |-> b, kid |-> 1] /\ f.at = at /\ f.kid = 1
  <2>1. at \in Nat
    BY <1>2 DEF Frames
  <2>2. LET h == [at |-> at, blk |-> b, next |-> b, kid |-> 1] IN h \in Frames /\ h.at = at /\ h.kid = 1
    BY <2>1 DEF Frames
  <2> QED BY <2>2
<1>9. Depth' = k /\ stack'[k] = f /\ \A j \in 1 .. (k - 1) : stack'[j] = stack[j]
  <2>1. SetTop(f)
    BY <1>2, <1>8, Zenon
  <2> QED BY <1>2, <2>1, SetTopIs DEF IInv, VarsInv
<1>10. \A t : OnStack(t) => OnStack(t)'
  <2>1. \A j \in 1 .. Depth : j = k \/ j \in 1 .. (k - 1)
    BY <1>2
  <2>2. \A j \in 1 .. Depth : j \in 1 .. Depth' /\ stack'[j].at = stack[j].at
    BY <1>2, <1>8, <1>9, <2>1
  <2> QED BY <2>2 DEF OnStack
<1>11. OnStack(at)'
  <2>1. OnStack(at)
    BY <1>2 DEF OnStack
  <2> QED BY <1>10, <2>1
<1>12. NodeOnce(at)
  BY <1>2 DEF ShapeInv
<1>13. NodeOnce(at)'
  <2>1. CASE rn[at].rtype = "ALLOCJOB"
    BY <1>2, <1>3, <1>5, <1>12, <2>1 DEF NodeOnce, Named
  <2>2. CASE rn[at].rtype # "ALLOCJOB"
    <3>1. at \in Dirs'
      BY <1>2, <1>3, <1>6, <2>2 DEF Dirs
    <3> QED BY <3>1 DEF NodeOnce
  <2> QED BY <2>1, <2>2
<1>14. ASSUME NEW d \in Dirs, at \in Kids(d), rn[d].rtype # "ROOT" PROVE KidOK(d, at)'
  <2>1. KidOK(d, at)
    BY <1>14 DEF ShapeInv, KidsOK
  <2>2. Children(d)' = Children(d) /\ rn'[d] = rn[d]
    BY <1>7, ListsStay
  <2>3. rn[at].rtype # "CLUSTER"
    <3>1. rn[at].parent = d
      BY <1>5, <1>14 DEF TreeInv, DirOK, Named
    <3>2. d = stack[k - 1].at /\ MayHold(rn[d].rtype, rn[at].rtype)
      BY <1>2, <3>1, CalledFrom
    <3> QED BY <1>14, <3>2 DEF MayHold
  <2>4. PICK j, list : j = at - rn[d].children + 1 /\ list = Children(d)
    OBVIOUS
  <2>5. /\ rn[at].nm = list[j].nm /\ rn[at].typ = list[j].typ
        /\ rn[at].rtype = list[j].rtype \/ list[j].rtype = "KNOB"
        /\ rn[at].dyn = list[j].dyn \/ rn[at].rtype \in ListTypes \cup {"JOBID"}
    BY <1>5, <2>1, <2>4 DEF KidOK, Named
  <2>6. /\ rn'[at].nm = rn[at].nm /\ rn'[at].typ = rn[at].typ /\ rn'[at].rtype = rn[at].rtype
        /\ rn'[at].dyn = rn[at].dyn \/ rn[at].rtype \in ListTypes \cup {"JOBID"}
    <3>1. CASE rn[at].rtype = "ALLOCJOB"
      BY <1>3, <3>1
    <3>2. CASE rn[at].rtype # "ALLOCJOB"
      BY <1>6, <2>3, <3>2
    <3> QED BY <3>1, <3>2
  <2> QED BY <1>5, <2>2, <2>4, <2>5, <2>6 DEF KidOK, Named, Hole
<1>15. ASSUME at \in Dirs' PROVE KidsOK(at)' /\ JobShown(at)'
  <2>1. rn[at].rtype # "ALLOCJOB"
    BY <1>2, <1>3, <1>15 DEF Dirs
  <2>2. Children(at)' = Children(at) /\ Check(at)' = "OK"
    <3>1. rn[at].parent \in Slots /\ rn[at].parent # at
      BY <1>2, CalledFrom
    <3>2. PICK u : u = rn[at].parent
      OBVIOUS
    <3>3. rn'[u] = rn[u]
      BY <1>3, <3>1, <3>2
    <3>4. Children(at)' = Children(at)
      BY <1>2, <1>6, <2>1, <3>2, <3>3, ChildrenKept
    <3>5. Check(at) = "OK"
      BY <1>2 DEF Provision
    <3> QED BY <1>2, <1>6, <2>1, <3>4, <3>5, ChecksStay
  <2>3. NKids(at)' = n
    BY <1>2, <2>2 DEF NKids
  <2>4. \A s \in Kids(at)' : ~Named(s)' /\ ~Hole(s)'
    <3>1. \A s \in Kids(at)' : s \in b .. (b + n)
      BY <1>2, <1>6, <2>1 DEF Kids
    <3> QED BY <1>4, <3>1 DEF Named, Hole
  <2>5. KidsOK(at)'
    <3>1. \A s \in Kids(at)' : KidOK(at, s)'
      BY <2>4 DEF KidOK
    <3> QED BY <1>6, <2>1, <2>2, <2>3, <3>1 DEF KidsOK
  <2>6. JobShown(at)'
    <3> SUFFICES ASSUME rn[at].rtype = "JOBID" PROVE rn'[b + 1].gen = 0
      BY <1>6, <1>11, <2>1 DEF JobShown
    <3>1. n = 3
      BY <1>2, FixedLists DEF NKids
    <3> QED BY <1>2, <1>4, <3>1
  <2> QED BY <2>5, <2>6
<1>16. \A d \in Dirs' : KidsOK(d)' /\ JobShown(d)'
  BY <1>2, <1>7, <1>10, <1>14, <1>15, DirsShape
<1>17. \A t \in Slots' : NodeOnce(t)'
  BY <1>7, <1>10, <1>13, NodesShape
<1>18. \A j \in 1 .. Depth' : JobGoes(j)'
  <2>1. ~(ret' > NULL)
    BY <1>2
  <2>2. ASSUME NEW j \in 1 .. (k - 1) PROVE JobGoes(j)'
    <3>1. j \in 1 .. Depth /\ stack'[j] = stack[j] /\ stack[j].at \in Slots
      <4>1. j \in 1 .. Depth
        BY <1>2
      <4> QED BY <1>9, <4>1, FrameFacts DEF IInv
    <3>2. rn'[stack[j].at].rtype = rn[stack[j].at].rtype
      BY <1>3, <1>6, <3>1
    <3> QED BY <1>2, <2>1, <3>1, <3>2, GoesKept
  <2>3. JobGoes(k)'
    BY <1>8, <1>9, <2>1 DEF JobGoes
  <2>4. \A j \in 1 .. Depth' : j = k \/ j \in 1 .. (k - 1)
    BY <1>9
  <2> QED BY <2>2, <2>3, <2>4
<1> QED BY <1>16, <1>17, <1>18 DEF ShapeInv

\* rn_mkfsroot() makes the first node.
LEMMA RootShape ==
  ASSUME IInv, MkFsRoot, ~Exit
  PROVE  ShapeInv'
<1>1. PICK b \in Nat : \E node : RootMade(b, node)
  BY RootIs
<1>2. PICK node : RootMade(b, node)
  BY <1>1
<1>3. /\ b = BaseAlloc /\ b > 0 /\ Slots' = b .. (b + 4) /\ rn'[b] = node
      /\ node.rtype = "ROOT" /\ node.children = b + 1 /\ node.n = 3 /\ node.nm = "MountPoint"
      /\ stack' = <<[at |-> b, blk |-> b + 1, next |-> b + 1, kid |-> 1]>>
  BY <1>2 DEF RootMade
<1>4. \A s \in (b + 1) .. (b + 4) : rn'[s].nm = NoName /\ rn'[s].children = NULL
  BY <1>2 DEF RootMade, Guard
<1>5. \A s \in Slots' : s = b \/ s \in (b + 1) .. (b + 4)
  BY <1>3
<1>6. b \in Dirs' /\ \A d \in Dirs' : d = b
  BY <1>3, <1>4, <1>5 DEF Dirs
<1>7. \A k \in 1 .. Depth' : k = 1
  BY <1>3 DEF Depth
<1>8. \A d \in Dirs' : KidsOK(d)' /\ JobShown(d)'
  BY <1>3, <1>6 DEF KidsOK, JobShown
<1>9. \A s \in Slots' : NodeOnce(s)'
  BY <1>4, <1>5, <1>6 DEF NodeOnce, Named
<1>10. \A k \in 1 .. Depth' : JobGoes(k)'
  BY <1>3, <1>7 DEF JobGoes
<1> QED BY <1>8, <1>9, <1>10 DEF ShapeInv

\* The process ends, or rests.
LEMMA EndShape ==
  ASSUME ShapeInv, UNCHANGED <<in, rn, nxt_avail, stack, ret>>
  PROVE  ShapeInv'
<1>1. \A s : Check(s)' = Check(s)
  BY ChecksStay
<1>2. \A s : Children(s)' = Children(s)
  BY SMT DEF Children, Row, RootChildren, ClusterChildren, PartsChildren, PartChildren,
         NodesChildren, NodeChildren, StateChildren, JobsChildren, JobChildren, JobRecord,
         StepsChildren, StepChildren, AttrChildren, CtlChildren, OfRecords
<1>3. /\ Dirs' = Dirs /\ Slots' = Slots /\ Depth' = Depth
      /\ \A s : OnStack(s)' = OnStack(s) /\ Kids(s)' = Kids(s) /\ NKids(s)' = NKids(s)
  BY <1>2 DEF Dirs, Slots, Depth, OnStack, Kids, NKids
<1>4. \A d : \A s : KidOK(d, s)' = KidOK(d, s)
  BY <1>2 DEF KidOK, Named, Hole
<1>5. \A d \in Dirs' : KidsOK(d)' /\ JobShown(d)'
  BY <1>1, <1>3, <1>4 DEF ShapeInv, KidsOK, JobShown
<1>6. \A s \in Slots' : NodeOnce(s)'
  BY <1>1, <1>3 DEF ShapeInv, NodeOnce, Named
<1>7. \A k \in 1 .. Depth' : JobGoes(k)'
  BY <1>3 DEF ShapeInv, JobGoes
<1> QED BY <1>5, <1>6, <1>7 DEF ShapeInv

\* Every step of mk_fs() keeps what is said of the nodes.
LEMMA NextShape == IInv /\ TreeInv /\ FillInv /\ ShapeInv /\ [Next]_vars => ShapeInv'
<1> SUFFICES ASSUME IInv, TreeInv, FillInv, ShapeInv, [Next]_vars PROVE ShapeInv'
  OBVIOUS
<1>1. CASE Exit
  BY <1>1, EndShape DEF Exit, pool, roots
<1>2. CASE UNCHANGED vars
  BY <1>2, EndShape DEF vars
<1>3. CASE ~Exit /\ Next
  <2>1. ~RefuseAttr
    BY <1>3 DEF RefuseAttr
  <2>2. Ended => ShapeInv'
    BY <1>2 DEF Ended
  <2>3. CastTwin => ShapeInv'
    BY <1>3, MissIs, MissShape
  <2> QED BY <1>3, <2>1, <2>2, <2>3, RootShape, RefuseShape, ProvisionShape, AttrShape, CalledShape,
             ChildFailsShape, ChildBuiltShape, ReturnShape DEF Next, Build
<1> QED BY <1>1, <1>2, <1>3

\* Before mk_fs() runs there is nothing.
LEMMA InitShape == Init => ShapeInv
<1> SUFFICES ASSUME Init PROVE ShapeInv
  OBVIOUS
<1>1. Slots = {} /\ Depth = 0
  BY DEF Init, Slots, Depth
<1> QED BY <1>1 DEF ShapeInv, Dirs

\* What the nodes of the tree are, at every moment: what the builders, the twin
\* check and rn_cast() make of the list of children of each directory.
THEOREM ShapeInvariant == Spec => []ShapeInv
<1>1. Init => ShapeInv
  BY InitShape
<1>2. IInv /\ TreeInv /\ FillInv /\ ShapeInv /\ [Next]_vars => ShapeInv'
  BY NextShape
<1> QED BY <1>1, <1>2, Invariant, TreeInvariant, FillInvariant, PTL DEF Spec
=============================================================================
