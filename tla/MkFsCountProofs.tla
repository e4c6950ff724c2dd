--------------------------- MODULE MkFsCountProofs ---------------------------
(***************************************************************************)
(* When mk_fs() mounts, and what the mounted tree took from the pool.      *)
(*                                                                         *)
(* Every builder that has returned its node has found the replies that its *)
(* subtree needs, and has left behind it exactly the blocks of the closed  *)
(* form. The invariants say both of the running builders: what the         *)
(* children that each has dealt with say of the replies, and how far the   *)
(* pool has moved since it took its own block.                             *)
(***************************************************************************)
EXTENDS MkFsMountProofs, WellFoundedInduction

-----------------------------------------------------------------------------
(* What a node that has been built says of the replies *)

NodeGiven == "NODENAME" \notin in.badattr /\ ~in.alloc
NodesGiven == /\ in.node.state = "array" /\ Distinct(in.node.recs)
              /\ in.node.recs # <<>> => NodeGiven
PartGiven == NodesGiven /\ "PARTNAME" \notin in.badattr
PartsGiven == /\ in.part.state = "array" /\ Distinct(in.part.recs)
              /\ in.part.recs # <<>> => PartGiven
JobsGiven == /\ in.job.state = "array"
             /\ in.job.recs # <<>> => in.step.recs = <<>>
             /\ Survivable(in) = 0 \/ (Survivable(in) = 1 /\ ~in.debug)

\* What a node of type rtype in one of type up says, once its builder is done.
Given(rtype, up) ==
    CASE rtype = "CLUSTER"    -> PartsGiven /\ JobsGiven
      [] rtype = "PARTS"      -> PartsGiven
      [] rtype = "PARTNAME"   -> PartGiven
      [] rtype = "NODES"      -> NodesGiven
      [] rtype = "NODENAME"   -> NodeGiven
      [] rtype = "JOBS"       -> JobsGiven
      [] rtype = "ALLOCJOB"   -> ~in.alloc
      [] rtype = "ATTRIBUTES" -> /\ up \in {"PARTNAME", "NODENAME"} => up \notin in.badattr
                                 /\ up = "NODENAME" => ~in.alloc
      [] OTHER -> TRUE

-----------------------------------------------------------------------------
(* What a node and all below it take from the pool *)

AttrsNeed(up) == Block(Len(AttrTab[up]))
CtlsNeed == Block(Len(CtlTab["ROOT"]))
NodesNeed == Block(Len(in.node.recs)) + Len(in.node.recs) * NodeNeeds
PartsNeed == Block(Len(in.part.recs)) + Len(in.part.recs) * PartNeeds(in)
\* The jobs that the twin check rejects, among the first j.
TwinsTo(j) == {p \in Twins(in.job.recs) : p <= j}
JobsNeed == Block(Len(in.job.recs))
          + (Len(in.job.recs) - Cardinality(Twins(in.job.recs))) * Block(3)
ClusterNeed == Block(3) + AttrsNeed("CLUSTER") + PartsNeed + JobsNeed

\* A job that was given up has a block without any subtree, and is not here.
Cost(rtype, up) ==
    CASE rtype = "CLUSTER"    -> ClusterNeed
      [] rtype = "PARTS"      -> PartsNeed
      [] rtype = "PARTNAME"   -> PartNeeds(in)
      [] rtype = "NODES"      -> NodesNeed
      [] rtype = "NODENAME"   -> NodeNeeds
      [] rtype = "JOBS"       -> JobsNeed
      [] rtype = "CONTROL"    -> CtlsNeed
      [] rtype = "ALLOCJOB"   -> Block(1)
      [] rtype = "ATTRIBUTES" -> AttrsNeed(up) + IF up = "NODENAME" THEN Block(1) ELSE 0
      [] OTHER -> 0

\* What the first j children of a node of type rtype in one of type up take.
Spent(rtype, up, j) ==
    CASE rtype = "ROOT" ->
              IF j = 0 THEN 0
              ELSE AttrsNeed("ROOT") + IF j = 1 THEN 0
              ELSE ClusterNeed + IF j = 2 THEN 0 ELSE CtlsNeed
      [] rtype = "CLUSTER" ->
              IF j = 0 THEN 0
              ELSE AttrsNeed("CLUSTER") + IF j = 1 THEN 0
              ELSE PartsNeed + IF j = 2 THEN 0 ELSE JobsNeed
      [] rtype = "PARTS" -> j * PartNeeds(in)
      [] rtype = "PARTNAME" ->
              IF j = 0 THEN 0
              ELSE NodesNeed + IF j = 1 THEN 0 ELSE AttrsNeed("PARTNAME")
      [] rtype = "NODES" -> j * NodeNeeds
      [] rtype = "NODENAME" -> IF j = 0 THEN 0 ELSE AttrsNeed("NODENAME") + Block(1)
      [] rtype = "JOBS" -> (j - Cardinality(TwinsTo(j))) * Block(3)
      [] rtype = "ATTRIBUTES" -> IF up = "NODENAME" /\ j = 2 THEN Block(1) ELSE 0
      [] OTHER -> 0

-----------------------------------------------------------------------------
(* The invariants *)

\* The type of the node whose builder has called this one's.
Up(k) == IF k = 1 THEN "ROOT" ELSE rn[stack[k - 1].at].rtype
\* How many children a builder has finished, or has gone on without.
Fin(k) == IF k = Depth /\ ret # Pending THEN stack[k].kid ELSE stack[k].kid - 1

\* The nodes whose subtrees have a fixed size: a node's state does if the node
\* is not allocated, and a job as long as its steps are refused.
Sized(rtype, up) ==
    \/ rtype \in {"ROOT", "CLUSTER", "PARTS", "PARTNAME", "NODES", "NODENAME", "JOBS"}
    \/ rtype = "ATTRIBUTES" /\ up \in {"ROOT", "CLUSTER", "PARTNAME", "NODENAME"}
    \/ rtype = "CONTROL" /\ up = "ROOT"
    \/ rtype = "ALLOCJOB" /\ ~in.alloc
Counted(k) ==
    \/ Sized(rn[stack[k].at].rtype, Up(k))
    \/ rn[stack[k].at].rtype = "JOBID" /\ stack[k].kid = 1 /\ ~(k = Depth /\ ret > NULL)
\* Where the pool was when the builder called the one that runs now.
Reached(k) == IF k < Depth /\ stack[k + 1].kid > 0 THEN stack[k + 1].blk ELSE nxt_avail
\* What a builder and its finished children have taken.
AccountOK(k) ==
    Counted(k) => Reached(k) = stack[k].blk + NKids(stack[k].at) + 1
                                + Spent(rn[stack[k].at].rtype, Up(k), Fin(k))

\* What the finished children say, and what the builder itself has checked.
GivenOK(k) ==
    LET s == stack[k].at
    IN /\ \A j \in 1 .. Fin(k) : Given(Children(s)[j].rtype, rn[s].rtype)
       /\ rn[s].rtype = "PARTS" => in.part.state = "array"
       /\ rn[s].rtype = "NODES" => in.node.state = "array"
       /\ rn[s].rtype = "JOBS" => in.job.state = "array"
       /\ rn[s].rtype = "ATTRIBUTES" /\ Up(k) \in {"PARTNAME", "NODENAME"} /\ Done(k) > 0 =>
             Up(k) \notin in.badattr

\* The assertions that have failed for the first j jobs.
Lost(j) == Cardinality(TwinsTo(j))
         + IF in.step.state = "array" THEN 0 ELSE j - Cardinality(TwinsTo(j))
\* The slots of the jobs show which of them were twins.
JobsOK(k) ==
    rn[stack[k].at].rtype = "JOBS" =>
       /\ \A p \in 1 .. Done(k) :
             IF p \in Twins(in.job.recs) THEN ~Named(Pos(stack[k], p))
             ELSE rn[Pos(stack[k], p)].nm = in.job.recs[p]
       /\ Lost(Fin(k)) <= 1 /\ (Lost(Fin(k)) = 1 => caught_in_a_loop)
       /\ Fin(k) > 0 => in.step.recs = <<>>
\* The steps of a job have been refused.
JobLostOK(k) ==
    rn[stack[k].at].rtype = "JOBID" /\ stack[k].kid = 1 /\ k = Depth /\ ret = NULL =>
       /\ in.step.recs = <<>>
       /\ in.step.state # "array" => caught_in_a_loop /\ Lost(Fin(k - 1)) = 0

CountOK(k) == stack[k].kid > 0 => AccountOK(k) /\ GivenOK(k) /\ JobsOK(k) /\ JobLostOK(k)
CaughtInv == caught_in_a_loop => ~in.debug
FirstBlock == stack # <<>> => stack[1].blk = BaseAlloc + 1
\* This is inductive with IInv, TreeInv, MountInv and FillInv.
CountInv ==
    /\ CaughtInv /\ FirstBlock
    /\ Building /\ ~Doomed => \A k \in 1 .. Depth : CountOK(k)
    /\ status = "mounted" => Buildable /\ nxt_avail = BaseAlloc + Needs(in)

-----------------------------------------------------------------------------
(* Twins *)

\* Numbers have a least one.
LEMMA Least ==
  ASSUME NEW T \in SUBSET Nat, T # {}
  PROVE  \E i \in T : \A j \in T : i <= j
<1>1. IsWellFoundedOn(OpToRel(<, Nat), Nat)
  BY NatLessThanWellFounded
<1>2. PICK i \in T : \A j \in T : <<j, i>> \notin OpToRel(<, Nat)
  BY <1>1, WFMin
<1>3. \A j \in T : ~(j < i)
  BY <1>2 DEF OpToRel
<1>4. \A j \in T : i \in Nat /\ j \in Nat
  OBVIOUS
<1>5. \A j \in T : i <= j
  BY <1>3, <1>4
<1> QED BY <1>5

\* The twin check, which walks up to the first hole, rejects just the twins.
LEMMA TwinsAre ==
  ASSUME NEW recs, NEW n \in Nat, DOMAIN recs = 1 .. n, NEW p \in 1 .. n
  PROVE  p \in Twins(recs) <=>
            \E q \in 1 .. (p - 1) : recs[q] = recs[p] /\ \A h \in 1 .. q : h \notin Twins(recs)
<1> DEFINE Again(j) == \E k \in 1 .. (j - 1) : recs[k] = recs[j]
           again == {j \in 1 .. n : Again(j)}
<1>1. \A j : j \in Twins(recs) <=>
         j \in again /\ \A h \in again : h < j => \E k \in 1 .. (h - 1) : recs[k] = recs[j]
  BY Zenon DEF Twins
<1>2. again \in SUBSET Nat /\ \A j \in again : j \in 1 .. n /\ Again(j)
  OBVIOUS
<1>3. \A j \in 1 .. n : Again(j) => j \in again
  OBVIOUS
<1> HIDE DEF Again
<1>4. ASSUME again # {}
      PROVE  \E m \in again : m \in Twins(recs) /\ \A j \in again : m <= j
  <2> HIDE DEF again
  <2>1. PICK m \in again : \A j \in again : m <= j
    BY <1>2, <1>4, Least
  <2>2. \A h \in again : ~(h < m)
    BY <1>2, <2>1
  <2> QED BY <1>1, <2>1, <2>2
<1>5. ASSUME p \in Twins(recs)
      PROVE  \E q \in 1 .. (p - 1) : recs[q] = recs[p] /\ \A h \in 1 .. q : h \notin Twins(recs)
  <2> HIDE DEF again
  <2>1. p \in again /\ \A h \in again : h < p => \E k \in 1 .. (h - 1) : recs[k] = recs[p]
    BY <1>1, <1>5
  <2>2. PICK m \in again : \A j \in again : m <= j
    BY <1>4, <2>1
  <2>3. \E q \in 1 .. (m - 1) : recs[q] = recs[p]
    <3>1. CASE m = p
      BY <1>2, <2>1, <3>1 DEF Again
    <3>2. CASE m # p
      <4>1. m \in Nat /\ p \in Nat /\ m < p
        BY <1>2, <2>1, <2>2, <3>2
      <4> QED BY <2>1, <4>1
    <3> QED BY <3>1, <3>2
  <2>4. PICK q \in 1 .. (m - 1) : recs[q] = recs[p]
    BY <2>3
  <2>5. m \in 1 .. n /\ m <= p
    BY <1>2, <2>1, <2>2
  <2>6. \A h \in 1 .. q : h \notin again
    BY <1>2, <2>2, <2>5
  <2>7. q \in 1 .. (p - 1)
    BY <2>5
  <2> QED BY <1>1, <2>4, <2>6, <2>7
<1>6. ASSUME NEW q \in 1 .. (p - 1), recs[q] = recs[p], \A h \in 1 .. q : h \notin Twins(recs)
      PROVE  p \in Twins(recs)
  <2>1. p \in again
    BY <1>3, <1>6 DEF Again
  <2> HIDE DEF again
  <2>2. PICK m \in again : m \in Twins(recs) /\ \A j \in again : m <= j
    BY <1>4, <2>1
  <2>3. \A h \in again : h \in 1 .. n /\ h > q
    BY <1>2, <1>6, <2>2
  <2>4. \A h \in again : \E k \in 1 .. (h - 1) : recs[k] = recs[p]
    BY <1>6, <2>3
  <2> QED BY <1>1, <2>1, <2>4
<1> QED BY <1>5, <1>6

\* How many twins there are among the first records.
LEMMA TwinsCounted ==
  ASSUME IsReply(in.job), NEW n, n = Len(in.job.recs)
  PROVE  /\ n \in Nat /\ DOMAIN in.job.recs = 1 .. n
         /\ \A j \in 0 .. n : Cardinality(TwinsTo(j)) \in 0 .. j
         /\ Cardinality(TwinsTo(0)) = 0 /\ TwinsTo(n) = Twins(in.job.recs)
         /\ \A j \in 1 .. n :
               Cardinality(TwinsTo(j)) =
                  Cardinality(TwinsTo(j - 1)) + IF j \in Twins(in.job.recs) THEN 1 ELSE 0
<1>1. n \in Nat /\ DOMAIN in.job.recs = 1 .. n
  BY DEF IsReply
<1>2. PICK W : W = Twins(in.job.recs)
  OBVIOUS
<1>3. \A p \in W : p \in Int /\ 1 <= p /\ p <= n
  BY <1>1, <1>2 DEF Twins
<1>4. \A j, p : p \in TwinsTo(j) <=> p \in W /\ p <= j
  BY <1>2 DEF TwinsTo
<1>5. \A j \in 0 .. n : TwinsTo(j) \in SUBSET (1 .. j) /\ j \in Int /\ 0 <= j
  BY <1>1, <1>3, <1>4
<1>6. \A j \in 0 .. n : IsFiniteSet(1 .. j) /\ Cardinality(1 .. j) = j
  BY <1>5, FS_Interval
<1>7. \A j \in 0 .. n : IsFiniteSet(TwinsTo(j)) /\ Cardinality(TwinsTo(j)) <= j
  BY <1>5, <1>6, FS_Subset
<1>8. \A j \in 0 .. n : Cardinality(TwinsTo(j)) \in Nat
  BY <1>7, FS_CardinalityType
<1>9. \A j \in 0 .. n : Cardinality(TwinsTo(j)) \in 0 .. j
  BY <1>5, <1>7, <1>8
<1>10. 0 \in 0 .. n
  BY <1>1
<1>11. Cardinality(TwinsTo(0)) = 0
  BY <1>9, <1>10
<1>12. TwinsTo(n) = W
  <2>1. \A p : p \in TwinsTo(n) <=> p \in W
    BY <1>3, <1>4
  <2> QED BY <2>1, Zenon
<1>13. ASSUME NEW j \in 1 .. n
       PROVE  Cardinality(TwinsTo(j)) = Cardinality(TwinsTo(j - 1)) + IF j \in W THEN 1 ELSE 0
  <2>1. j - 1 \in 0 .. n /\ j \in Int
    BY <1>1
  <2>2. j \notin TwinsTo(j - 1)
    BY <1>4, <2>1
  <2>3. CASE j \in W
    <3>1. \A p : p \in TwinsTo(j) <=> p \in TwinsTo(j - 1) \/ p = j
      <4>1. \A p \in W : p <= j <=> p <= j - 1 \/ p = j
        BY <1>3, <2>1
      <4>2. \A p : p \in TwinsTo(j - 1) <=> p \in W /\ p <= j - 1
        BY <1>4
      <4> QED BY <1>4, <2>3, <4>1, <4>2
    <3>2. TwinsTo(j) = TwinsTo(j - 1) \cup {j}
      BY <3>1, Zenon
    <3> QED BY <1>7, <2>1, <2>2, <2>3, <3>2, FS_AddElement
  <2>4. CASE j \notin W
    <3>1. \A p : p \in TwinsTo(j) <=> p \in TwinsTo(j - 1)
      BY <1>3, <1>4, <2>1, <2>4
    <3>2. TwinsTo(j) = TwinsTo(j - 1)
      BY <3>1, Zenon
    <3> QED BY <1>8, <2>1, <2>4, <3>2
  <2> QED BY <2>3, <2>4
<1> QED BY <1>1, <1>2, <1>9, <1>11, <1>12, <1>13

-----------------------------------------------------------------------------
(* What the builders cast *)

\* The attributes of a node of a given type: a state is only the second of a
\* node's, and the first of a partition and of a node is read from the record.
LEMMA AttrsAre ==
  /\ \A up : MayHold(up, "ATTRIBUTES") =>
        \A j \in 1 .. Len(AttrTab[up]) :
           p2r_typ_convtab(AttrTab[up][j].typ) = "ALLOCJOB" => up = "NODENAME" /\ j = 2
  /\ Len(AttrTab["NODENAME"]) = 2 /\ p2r_typ_convtab(AttrTab["NODENAME"][2].typ) = "ALLOCJOB"
  /\ AttrTab["NODENAME"][1].typ \notin LocalTypes
  /\ Len(AttrTab["PARTNAME"]) = 3 /\ AttrTab["PARTNAME"][1].typ \notin LocalTypes
  /\ \A up : MayHold(up, "ATTRIBUTES") => Len(AttrTab[up]) \in Nat
  /\ Len(CtlTab["ROOT"]) \in Nat
<1> DEFINE Ok(tab) == \A j \in 1 .. Len(tab) : p2r_typ_convtab(tab[j].typ) # "ALLOCJOB"
<1>1. \A a, b, c :
         /\ Len(<<a>>) = 1 /\ <<a>>[1] = a
         /\ Len(<<a, b>>) = 2 /\ <<a, b>>[1] = a /\ <<a, b>>[2] = b
         /\ Len(<<a, b, c>>) = 3 /\ <<a, b, c>>[1] = a /\ <<a, b, c>>[2] = b /\ <<a, b, c>>[3] = c
  OBVIOUS
<1>2. \A typ : p2r_typ_convtab(typ) = "ALLOCJOB" <=> typ = "ALLOCJOB"
  BY DEF p2r_typ_convtab
<1>3. Ok(AttrTab["ROOT"]) /\ Ok(AttrTab["CLUSTER"]) /\ Ok(AttrTab["JOBSTEPID"])
  BY <1>1, <1>2 DEF AttrTab
<1>4. Ok(AttrTab["PARTNAME"]) /\ Ok(AttrTab["JOBID"])
  BY <1>1, <1>2 DEF AttrTab
<1>5. /\ Len(AttrTab["NODENAME"]) = 2
      /\ AttrTab["NODENAME"][1].typ = "NODESTATE" /\ AttrTab["NODENAME"][2].typ = "ALLOCJOB"
  BY <1>1 DEF AttrTab
<1>6. Len(AttrTab["PARTNAME"]) = 3 /\ AttrTab["PARTNAME"][1].typ = "ALPHANUM"
  BY <1>1 DEF AttrTab
<1>7. MayHold("ROOT", "CONTROL") /\ \A up : MayHold(up, "ATTRIBUTES") =>
         up \in {"ROOT", "CLUSTER", "PARTNAME", "NODENAME", "JOBID", "JOBSTEPID"}
  BY Zenon DEF MayHold
<1> HIDE DEF Ok
<1>8. ASSUME NEW up, MayHold(up, "ATTRIBUTES"), NEW j \in 1 .. Len(AttrTab[up]),
             p2r_typ_convtab(AttrTab[up][j].typ) = "ALLOCJOB"
      PROVE  up = "NODENAME" /\ j = 2
  <2>1. ~Ok(AttrTab[up])
    BY <1>8 DEF Ok
  <2>2. up = "NODENAME"
    BY <1>3, <1>4, <1>7, <1>8, <2>1
  <2>3. j # 1
    BY <1>2, <1>5, <1>8, <2>2
  <2>4. j \in 1 .. 2
    BY <1>5, <1>8, <2>2
  <2> QED BY <2>2, <2>3, <2>4
<1>9. \A up : MayHold(up, "ATTRIBUTES") => Len(AttrTab[up]) \in Nat
  BY AttrTabIs
<1>10. Len(CtlTab["ROOT"]) \in Nat
  BY <1>7, CtlTabIs
<1>11. "NODESTATE" \notin LocalTypes /\ "ALPHANUM" \notin LocalTypes
  BY DEF LocalTypes
<1> QED BY <1>2, <1>5, <1>6, <1>8, <1>9, <1>10, <1>11

\* The children of a node, by its type and by the type of its parent.
Casts(rtype, up, n, kids) ==
    /\ rtype = "ROOT" => /\ n = 3 /\ kids[1].rtype = "ATTRIBUTES"
                         /\ kids[2].rtype = "CLUSTER" /\ kids[3].rtype = "CONTROL"
    /\ rtype = "CLUSTER" => /\ n = 3 /\ kids[1].rtype = "ATTRIBUTES"
                            /\ kids[2].rtype = "PARTS" /\ kids[3].rtype = "JOBS"
    /\ rtype = "PARTS" => /\ n = Len(in.part.recs)
                          /\ \A j \in 1 .. n : kids[j].rtype = "PARTNAME"
    /\ rtype = "PARTNAME" => n = 2 /\ kids[1].rtype = "NODES" /\ kids[2].rtype = "ATTRIBUTES"
    /\ rtype = "NODES" => /\ n = Len(in.node.recs)
                          /\ \A j \in 1 .. n : kids[j].rtype = "NODENAME"
    /\ rtype = "NODENAME" => n = 1 /\ kids[1].rtype = "ATTRIBUTES"
    /\ rtype = "JOBS" => /\ n = Len(in.job.recs)
                         /\ \A j \in 1 .. n : kids[j].rtype = "JOBID" /\ kids[j].nm = in.job.recs[j]
    /\ rtype = "JOBID" => n = 3
    /\ rtype = "CONTROL" => /\ n = Len(CtlTab[up])
                            /\ \A j \in 1 .. n : kids[j].rtype = "KNOB"
    /\ rtype = "ALLOCJOB" => /\ n = IF in.alloc THEN 2 ELSE 1
                             /\ kids[1].rtype = "ATTRIBUTE"
                             /\ n = 2 => kids[2].rtype = "ALLOCJOB"
    /\ rtype = "ATTRIBUTES" =>
          /\ n = Len(AttrTab[up])
          /\ \A j \in 1 .. n :
                /\ kids[j].rtype \in AttrTypes \cup {"ALLOCJOB"}
                /\ kids[j].rtype = "ALLOCJOB" <=> up = "NODENAME" /\ j = 2
          /\ up \in {"PARTNAME", "NODENAME"} => n >= 1 /\ kids[1].typ \notin LocalTypes

\* The lists that replies do not change.
LEMMA FixedCasts ==
  ASSUME NEW s, NEW up
  PROVE  /\ Casts("ROOT", up, 3, RootChildren)
         /\ Casts("CLUSTER", up, 3, ClusterChildren)
         /\ Casts("PARTNAME", up, 2, PartChildren(s))
         /\ Casts("NODENAME", up, 1, NodeChildren(s))
         /\ Len(RootChildren) = 3 /\ Len(ClusterChildren) = 3
         /\ Len(PartChildren(s)) = 2 /\ Len(NodeChildren(s)) = 1 /\ Len(JobChildren(s)) = 3
<1>1. \A a, b, c :
         /\ Len(<<a>>) = 1 /\ <<a>>[1] = a
         /\ Len(<<a, b>>) = 2 /\ <<a, b>>[1] = a /\ <<a, b>>[2] = b
         /\ Len(<<a, b, c>>) = 3 /\ <<a, b, c>>[1] = a /\ <<a, b, c>>[2] = b /\ <<a, b, c>>[3] = c
  OBVIOUS
<1>2. \A rtype, nm, dyn, onNull : Dir(rtype, nm, dyn, onNull).rtype = rtype
  BY DEF Dir, Child
<1>3. PICK rec, up2 : rec = rn[s].dyn /\ up2 = JobRecord(s)
  OBVIOUS
<1>4. /\ Len(RootChildren) = 3 /\ RootChildren[1].rtype = "ATTRIBUTES"
      /\ RootChildren[2].rtype = "CLUSTER" /\ RootChildren[3].rtype = "CONTROL"
  BY <1>1, <1>2 DEF RootChildren
<1>5. /\ Len(ClusterChildren) = 3 /\ ClusterChildren[1].rtype = "ATTRIBUTES"
      /\ ClusterChildren[2].rtype = "PARTS" /\ ClusterChildren[3].rtype = "JOBS"
  BY <1>1, <1>2 DEF ClusterChildren
<1>6. /\ Len(PartChildren(s)) = 2
      /\ PartChildren(s)[1].rtype = "NODES" /\ PartChildren(s)[2].rtype = "ATTRIBUTES"
  BY <1>1, <1>2, <1>3 DEF PartChildren
<1>7. Len(NodeChildren(s)) = 1 /\ NodeChildren(s)[1].rtype = "ATTRIBUTES"
  BY <1>1, <1>2, <1>3 DEF NodeChildren
<1>8. Len(JobChildren(s)) = 3
  BY <1>1, <1>3 DEF JobChildren
<1> QED BY <1>4, <1>5, <1>6, <1>7, <1>8 DEF Casts

\* The lists that are made from tables.
LEMMA TableCasts ==
  ASSUME NEW s, Listable(s), NEW up, up = rn[rn[s].parent].rtype
  PROVE  /\ rn[s].rtype = "ATTRIBUTES" => Casts("ATTRIBUTES", up, Len(AttrChildren(s)), AttrChildren(s))
         /\ rn[s].rtype = "CONTROL" => Casts("CONTROL", up, Len(CtlChildren(s)), CtlChildren(s))
         /\ Casts("ALLOCJOB", up, Len(StateChildren(s)), StateChildren(s))
<1>1. ASSUME rn[s].rtype = "ATTRIBUTES"
      PROVE  Casts("ATTRIBUTES", up, Len(AttrChildren(s)), AttrChildren(s))
  <2>1. MayHold(up, "ATTRIBUTES")
    BY <1>1 DEF Listable
  <2>2. PICK tab : tab = AttrTab[up]
    OBVIOUS
  <2>3. Len(tab) \in Nat /\ DOMAIN tab = 1 .. Len(tab)
    BY <2>1, <2>2, AttrTabIs
  <2> DEFINE Attr(j) == Child(p2r_typ_convtab(tab[j].typ), tab[j].nm, tab[j].typ, rn[s].dyn,
                              "ASSERT")
  <2>4. AttrChildren(s) = [j \in 1 .. Len(tab) |-> Attr(j)]
    BY <2>2, <2>3 DEF AttrChildren
  <2>5. \A j : Attr(j).rtype = p2r_typ_convtab(tab[j].typ) /\ Attr(j).typ = tab[j].typ
    BY DEF Child
  <2> HIDE DEF Attr
  <2>6. Len(AttrChildren(s)) = Len(tab)
    BY <2>3, <2>4, LenOfFun
  <2>7. \A j \in 1 .. Len(tab) : AttrChildren(s)[j] = Attr(j)
    BY <2>4, Zenon
  <2>8. \A typ : p2r_typ_convtab(typ) \in AttrTypes \cup {"ALLOCJOB"}
    BY DEF p2r_typ_convtab, AttrTypes, AttrSubtypes
  <2>9. \A j \in 1 .. Len(tab) :
           /\ AttrChildren(s)[j].rtype \in AttrTypes \cup {"ALLOCJOB"}
           /\ AttrChildren(s)[j].rtype = "ALLOCJOB" <=> up = "NODENAME" /\ j = 2
    <3>1. \A j \in 1 .. Len(tab) : AttrChildren(s)[j].rtype = p2r_typ_convtab(tab[j].typ)
      BY <2>5, <2>7
    <3>2. \A j \in 1 .. Len(tab) : p2r_typ_convtab(tab[j].typ) = "ALLOCJOB" <=> up = "NODENAME" /\ j = 2
      BY <2>1, <2>2, AttrsAre
    <3> QED BY <2>8, <3>1, <3>2
  <2>10. up \in {"PARTNAME", "NODENAME"} =>
            Len(tab) >= 1 /\ AttrChildren(s)[1].typ \notin LocalTypes
    <3>1. up \in {"PARTNAME", "NODENAME"} => Len(tab) >= 1 /\ tab[1].typ \notin LocalTypes
      BY <2>2, AttrsAre
    <3> QED BY <2>3, <2>5, <2>7, <3>1
  <2> QED BY <2>2, <2>6, <2>9, <2>10 DEF Casts
<1>2. ASSUME rn[s].rtype = "CONTROL"
      PROVE  Casts("CONTROL", up, Len(CtlChildren(s)), CtlChildren(s))
  <2>1. MayHold(up, "CONTROL")
    BY <1>2 DEF Listable
  <2>2. PICK tab : tab = CtlTab[up]
    OBVIOUS
  <2>3. Len(tab) \in Nat /\ DOMAIN tab = 1 .. Len(tab)
    BY <2>1, <2>2, CtlTabIs
  <2> DEFINE Ctl(j) == Dir("KNOB", tab[j].nm, tab[j].fn, "ASSERT")
  <2>4. CtlChildren(s) = [j \in 1 .. Len(tab) |-> Ctl(j)]
    BY <2>2, <2>3 DEF CtlChildren
  <2>5. \A j : Ctl(j).rtype = "KNOB"
    BY DEF Dir, Child
  <2> HIDE DEF Ctl
  <2>6. Len(CtlChildren(s)) = Len(tab)
    BY <2>3, <2>4, LenOfFun
  <2>7. \A j \in 1 .. Len(tab) : CtlChildren(s)[j] = Ctl(j)
    BY <2>4, Zenon
  <2> QED BY <2>2, <2>5, <2>6, <2>7 DEF Casts
<1>3. Casts("ALLOCJOB", up, Len(StateChildren(s)), StateChildren(s))
  <2> DEFINE nm == IF in.alloc THEN "alloc" ELSE "idle"
             a == Child("ATTRIBUTE", nm, "NODESTATE", rn[s].dyn, "ASSERT")
             b == Child("ALLOCJOB", "state", "ALLOCJOB", rn[s].dyn, "ASSERT")
  <2>1. StateChildren(s) = <<a>> \o IF in.alloc THEN <<b>> ELSE <<>>
    BY DEF StateChildren
  <2>2. a.rtype = "ATTRIBUTE" /\ b.rtype = "ALLOCJOB"
    BY DEF Child
  <2> HIDE DEF a, b
  <2>3. <<a>> \in Seq({a, b}) /\ <<b>> \in Seq({a, b}) /\ <<>> \in Seq({a, b})
    OBVIOUS
  <2>4. /\ Len(<<a>> \o <<b>>) = 2 /\ (<<a>> \o <<b>>)[1] = a /\ (<<a>> \o <<b>>)[2] = b
        /\ Len(<<a>> \o <<>>) = 1 /\ (<<a>> \o <<>>)[1] = a
    BY <2>3
  <2>5. in.alloc => /\ Len(StateChildren(s)) = 2 /\ StateChildren(s)[1] = a
                    /\ StateChildren(s)[2] = b
    BY <2>1, <2>4
  <2>6. ~in.alloc => Len(StateChildren(s)) = 1 /\ StateChildren(s)[1] = a
    BY <2>1, <2>4
  <2> QED BY <2>2, <2>5, <2>6 DEF Casts
<1> QED BY <1>1, <1>2, <1>3

\* The children of a node that has a builder.
LEMMA CastsAre ==
  ASSUME NEW s, Listable(s)
  PROVE  Casts(rn[s].rtype, rn[rn[s].parent].rtype, NKids(s), Children(s))
<1>1. PICK rtype, up : rtype = rn[s].rtype /\ up = rn[rn[s].parent].rtype /\ rtype \in BuiltTypes
  BY DEF Listable
<1>2. CASE rtype \in ListTypes
  <2>1. IsReply(in.part) /\ IsReply(in.node) /\ IsReply(in.job)
    BY InputsAssumption DEF Listable
  <2>2. \A nm, dyn, type, onNull : /\ Dir(type, nm, dyn, onNull).rtype = type
                                   /\ Dir(type, nm, dyn, onNull).nm = nm
    BY DEF Dir, Child
  <2>3. /\ rtype = "PARTS" => Children(s) = OfRecords(in.part, "PARTNAME", "ASSERT")
        /\ rtype = "NODES" => Children(s) = OfRecords(in.node, "NODENAME", "ASSERT")
        /\ rtype = "JOBS" => Children(s) = OfRecords(in.job, "JOBID", "CONTINUE")
    BY <1>1, ChildrenIs DEF PartsChildren, NodesChildren, JobsChildren
  <2>4. CASE rtype = "PARTS"
    BY <1>1, <2>1, <2>2, <2>3, <2>4, RecordsListed DEF Casts, NKids
  <2>5. CASE rtype = "NODES"
    BY <1>1, <2>1, <2>2, <2>3, <2>5, RecordsListed DEF Casts, NKids
  <2>6. CASE rtype = "JOBS"
    BY <1>1, <2>1, <2>2, <2>3, <2>6, RecordsListed DEF Casts, NKids
  <2>7. CASE rtype = "JOBSTEPS"
    BY <1>1, <2>7 DEF Casts
  <2> QED BY <1>1, <1>2, <2>4, <2>5, <2>6, <2>7 DEF ListTypes
<1>3. CASE rtype \in {"ROOT", "CLUSTER", "PARTNAME", "NODENAME", "JOBID", "JOBSTEPID"}
  <2>1. /\ rtype = "ROOT" => Children(s) = RootChildren
        /\ rtype = "CLUSTER" => Children(s) = ClusterChildren
        /\ rtype = "PARTNAME" => Children(s) = PartChildren(s)
        /\ rtype = "NODENAME" => Children(s) = NodeChildren(s)
        /\ rtype = "JOBID" => Children(s) = JobChildren(s)
    BY <1>1, ChildrenIs
  <2>2. rtype = "JOBID" => Len(Children(s)) = 3
    BY <2>1, FixedCasts
  <2>3. rtype \in {"JOBID", "JOBSTEPID"} => Casts(rtype, up, NKids(s), Children(s))
    BY <2>2 DEF Casts, NKids
  <2>4. rtype \in {"ROOT", "CLUSTER", "PARTNAME", "NODENAME"} => Casts(rtype, up, NKids(s), Children(s))
    BY <2>1, FixedCasts DEF NKids
  <2> QED BY <1>1, <1>3, <2>3, <2>4
<1>4. CASE rtype \in {"ATTRIBUTES", "CONTROL", "ALLOCJOB"}
  <2>1. /\ rtype = "ATTRIBUTES" => Children(s) = AttrChildren(s)
        /\ rtype = "CONTROL" => Children(s) = CtlChildren(s)
        /\ rtype = "ALLOCJOB" => Children(s) = StateChildren(s)
    BY <1>1, ChildrenIs
  <2> QED BY <1>1, <1>4, <2>1, TableCasts DEF NKids
<1>5. CASE rtype \in AttrTypes
  BY <1>1, <1>5 DEF Casts, AttrTypes, AttrSubtypes
<1> QED BY <1>1, <1>2, <1>3, <1>4, <1>5 DEF BuiltTypes, ListTypes

-----------------------------------------------------------------------------
(* The sums *)

\* The sizes are numbers, and made of one another.
LEMMA NeedsAre ==
  ASSUME in \in Inputs
  PROVE  /\ \A up \in {"ROOT", "CLUSTER", "PARTNAME", "NODENAME"} : AttrsNeed(up) \in Nat
         /\ CtlsNeed \in Nat /\ NodeNeeds \in Nat /\ NodesNeed \in Nat
         /\ PartNeeds(in) \in Nat /\ PartsNeed \in Nat /\ JobsNeed \in Nat /\ ClusterNeed \in Nat
         /\ Len(in.part.recs) \in Nat /\ Len(in.node.recs) \in Nat
         /\ NodeNeeds = Block(1) + AttrsNeed("NODENAME") + Block(1)
         /\ PartNeeds(in) = Block(2) + AttrsNeed("PARTNAME") + NodesNeed
         /\ NodesNeed = Block(Len(in.node.recs)) + Len(in.node.recs) * NodeNeeds
         /\ PartsNeed = Block(Len(in.part.recs)) + Len(in.part.recs) * PartNeeds(in)
         /\ ClusterNeed = Block(3) + AttrsNeed("CLUSTER") + PartsNeed + JobsNeed
         /\ Needs(in) = Block(4) + AttrsNeed("ROOT") + ClusterNeed + CtlsNeed
<1>1. IsReply(in.part) /\ IsReply(in.node) /\ IsReply(in.job)
  BY InputsAssumption
<1>2. Len(in.part.recs) \in Nat /\ Len(in.node.recs) \in Nat
  BY <1>1 DEF IsReply
<1>3. \A up \in {"ROOT", "CLUSTER", "PARTNAME", "NODENAME"} : AttrsNeed(up) \in Nat
  <2>1. \A up \in {"ROOT", "CLUSTER", "PARTNAME", "NODENAME"} : MayHold(up, "ATTRIBUTES")
    BY DEF MayHold
  <2> QED BY <2>1, AttrsAre DEF AttrsNeed, Block
<1>4. CtlsNeed \in Nat
  BY AttrsAre DEF CtlsNeed, Block
<1>5. NodeNeeds = Block(1) + AttrsNeed("NODENAME") + Block(1)
  BY DEF NodeNeeds, AttrsNeed
<1>6. NodeNeeds \in Nat
  <2>1. AttrsNeed("NODENAME") \in Nat
    BY <1>3
  <2> QED BY <1>5, <2>1 DEF Block
<1>7. \A a, b \in Nat : a * b \in Nat
  OBVIOUS
<1>8. NodesNeed \in Nat
  <2>1. Len(in.node.recs) * NodeNeeds \in Nat
    BY <1>2, <1>6, <1>7
  <2> QED BY <1>2, <2>1 DEF NodesNeed, Block
<1>9. PartNeeds(in) = Block(2) + AttrsNeed("PARTNAME") + NodesNeed
  <2>1. PICK m, p, a, c : /\ m = Len(in.node.recs) * NodeNeeds /\ p = Block(Len(in.node.recs))
                          /\ a = AttrsNeed("PARTNAME") /\ c = Block(2)
    OBVIOUS
  <2>2. m \in Nat /\ p \in Nat /\ a \in Nat /\ c \in Nat
    BY <1>2, <1>3, <1>6, <1>7, <2>1 DEF Block
  <2>3. PartNeeds(in) = c + a + p + m /\ NodesNeed = p + m
    BY <2>1 DEF PartNeeds, NodesNeed, AttrsNeed
  <2>4. PartNeeds(in) = c + a + NodesNeed
    BY <2>2, <2>3
  <2> QED BY <2>1, <2>4
<1>10. PartNeeds(in) \in Nat
  BY <1>3, <1>8, <1>9 DEF Block
<1>11. PartsNeed \in Nat
  <2>1. Len(in.part.recs) * PartNeeds(in) \in Nat
    BY <1>2, <1>7, <1>10
  <2> QED BY <1>2, <2>1 DEF PartsNeed, Block
<1>12. JobsNeed \in Nat
  <2>1. PICK n : n = Len(in.job.recs)
    OBVIOUS
  <2>2. n \in Nat /\ Cardinality(Twins(in.job.recs)) \in 0 .. n
    <3>1. n \in Nat /\ n \in 0 .. n
      BY <1>1, <2>1 DEF IsReply
    <3> QED BY <1>1, <2>1, <3>1, TwinsCounted
  <2> QED BY <2>1, <2>2 DEF JobsNeed, Block
<1>13. ClusterNeed \in Nat
  BY <1>3, <1>11, <1>12 DEF ClusterNeed, Block
<1>14. Needs(in) = Block(4) + AttrsNeed("ROOT") + ClusterNeed + CtlsNeed
  <2>1. PICK r, c, k, p, q, j, w :
           /\ r = AttrsNeed("ROOT") /\ c = AttrsNeed("CLUSTER") /\ k = CtlsNeed
           /\ p = Block(Len(in.part.recs)) /\ q = Len(in.part.recs) * PartNeeds(in)
           /\ j = Block(Len(in.job.recs))
           /\ w = (Len(in.job.recs) - Cardinality(Twins(in.job.recs))) * Block(3)
    OBVIOUS
  <2>2. r \in Nat /\ c \in Nat /\ k \in Nat /\ p \in Nat /\ q \in Nat /\ j \in Nat /\ w \in Int
    <3>1. r \in Nat /\ c \in Nat /\ k \in Nat
      BY <1>3, <1>4, <2>1
    <3>2. p \in Nat /\ q \in Nat
      BY <1>2, <1>7, <1>10, <2>1 DEF Block
    <3>3. PICK n : n = Len(in.job.recs)
      OBVIOUS
    <3>4. n \in Nat /\ Cardinality(Twins(in.job.recs)) \in 0 .. n
      <4>1. n \in Nat /\ n \in 0 .. n
        BY <1>1, <3>3 DEF IsReply
      <4> QED BY <1>1, <3>3, <4>1, TwinsCounted
    <3>5. PICK d : d = Cardinality(Twins(in.job.recs))
      OBVIOUS
    <3>6. d \in Nat /\ j = n + 1 /\ w = (n - d) * 4
      BY <2>1, <3>3, <3>4, <3>5 DEF Block
    <3>7. j \in Nat /\ w \in Int
      BY <3>4, <3>6
    <3> QED BY <3>1, <3>2, <3>7
  <2>3. Needs(in) = 5 + r + k + 4 + c + p + q + j + w
    BY <2>1 DEF Needs, AttrsNeed, CtlsNeed, Block
  <2>4. ClusterNeed = 4 + c + (p + q) + (j + w)
    BY <2>1 DEF ClusterNeed, PartsNeed, JobsNeed, Block
  <2>5. Block(4) = 5
    BY DEF Block
  <2>6. Needs(in) = 5 + r + ClusterNeed + k
    BY <2>2, <2>3, <2>4
  <2> QED BY <2>1, <2>5, <2>6
<1> QED BY <1>2, <1>3, <1>4, <1>5, <1>6, <1>8, <1>9, <1>10, <1>11, <1>12, <1>13, <1>14
        DEF NodesNeed, PartsNeed, ClusterNeed

\* The j-th child takes what it costs; of the jobs, only their blocks remain.
LEMMA StepCost ==
  ASSUME in \in Inputs, NEW rtype, NEW up, Sized(rtype, up), NEW n \in Nat, NEW kids,
         Casts(rtype, up, n, kids), NEW j \in 1 .. n
  PROVE  /\ rtype # "JOBS" =>
               Spent(rtype, up, j) = Spent(rtype, up, j - 1) + Cost(kids[j].rtype, rtype)
         /\ rtype = "JOBS" =>
               Spent(rtype, up, j) = Spent(rtype, up, j - 1)
                                     + IF j \in Twins(in.job.recs) THEN 0 ELSE Block(3)
<1>1. /\ \A t \in {"ROOT", "CLUSTER", "PARTNAME", "NODENAME"} : AttrsNeed(t) \in Nat
      /\ CtlsNeed \in Nat /\ NodeNeeds \in Nat /\ NodesNeed \in Nat
      /\ PartNeeds(in) \in Nat /\ PartsNeed \in Nat /\ JobsNeed \in Nat /\ ClusterNeed \in Nat
  BY NeedsAre
<1>2. PICK r, c, p, m : /\ r = AttrsNeed("ROOT") /\ c = AttrsNeed("CLUSTER")
                        /\ p = AttrsNeed("PARTNAME") /\ m = AttrsNeed("NODENAME")
                        /\ r \in Nat /\ c \in Nat /\ p \in Nat /\ m \in Nat
  BY <1>1
<1>3. \A a \in Nat : j * a = (j - 1) * a + a
  OBVIOUS
<1>4. CASE rtype = "ROOT"
  <2>1. n = 3 /\ kids[1].rtype = "ATTRIBUTES" /\ kids[2].rtype = "CLUSTER" /\ kids[3].rtype = "CONTROL"
    BY <1>4 DEF Casts
  <2>2. /\ Spent("ROOT", up, 0) = 0 /\ Spent("ROOT", up, 1) = r + 0
        /\ Spent("ROOT", up, 2) = r + (ClusterNeed + 0)
        /\ Spent("ROOT", up, 3) = r + (ClusterNeed + CtlsNeed)
    BY <1>2 DEF Spent
  <2>3. /\ Cost("ATTRIBUTES", "ROOT") = r + 0 /\ Cost("CLUSTER", "ROOT") = ClusterNeed
        /\ Cost("CONTROL", "ROOT") = CtlsNeed
    BY <1>2 DEF Cost
  <2>4. j = 1 \/ j = 2 \/ j = 3
    BY <2>1
  <2> QED BY <1>1, <1>2, <1>4, <2>1, <2>2, <2>3, <2>4
<1>5. CASE rtype = "CLUSTER"
  <2>1. n = 3 /\ kids[1].rtype = "ATTRIBUTES" /\ kids[2].rtype = "PARTS" /\ kids[3].rtype = "JOBS"
    BY <1>5 DEF Casts
  <2>2. /\ Spent("CLUSTER", up, 0) = 0 /\ Spent("CLUSTER", up, 1) = c + 0
        /\ Spent("CLUSTER", up, 2) = c + (PartsNeed + 0)
        /\ Spent("CLUSTER", up, 3) = c + (PartsNeed + JobsNeed)
    BY <1>2 DEF Spent
  <2>3. /\ Cost("ATTRIBUTES", "CLUSTER") = c + 0 /\ Cost("PARTS", "CLUSTER") = PartsNeed
        /\ Cost("JOBS", "CLUSTER") = JobsNeed
    BY <1>2 DEF Cost
  <2>4. j = 1 \/ j = 2 \/ j = 3
    BY <2>1
  <2> QED BY <1>1, <1>2, <1>5, <2>1, <2>2, <2>3, <2>4
<1>6. CASE rtype = "PARTS"
  <2>1. kids[j].rtype = "PARTNAME"
    BY <1>6 DEF Casts
  <2>2. /\ Spent("PARTS", up, j) = j * PartNeeds(in)
        /\ Spent("PARTS", up, j - 1) = (j - 1) * PartNeeds(in)
        /\ Cost("PARTNAME", "PARTS") = PartNeeds(in)
    BY DEF Spent, Cost
  <2> QED BY <1>1, <1>3, <1>6, <2>1, <2>2
<1>7. CASE rtype = "PARTNAME"
  <2>1. n = 2 /\ kids[1].rtype = "NODES" /\ kids[2].rtype = "ATTRIBUTES"
    BY <1>7 DEF Casts
  <2>2. /\ Spent("PARTNAME", up, 0) = 0 /\ Spent("PARTNAME", up, 1) = NodesNeed + 0
        /\ Spent("PARTNAME", up, 2) = NodesNeed + p
    BY <1>2 DEF Spent
  <2>3. Cost("NODES", "PARTNAME") = NodesNeed /\ Cost("ATTRIBUTES", "PARTNAME") = p + 0
    BY <1>2 DEF Cost
  <2>4. j = 1 \/ j = 2
    BY <2>1
  <2> QED BY <1>1, <1>2, <1>7, <2>1, <2>2, <2>3, <2>4
<1>8. CASE rtype = "NODES"
  <2>1. kids[j].rtype = "NODENAME"
    BY <1>8 DEF Casts
  <2>2. /\ Spent("NODES", up, j) = j * NodeNeeds /\ Spent("NODES", up, j - 1) = (j - 1) * NodeNeeds
        /\ Cost("NODENAME", "NODES") = NodeNeeds
    BY DEF Spent, Cost
  <2> QED BY <1>1, <1>3, <1>8, <2>1, <2>2
<1>9. CASE rtype = "NODENAME"
  <2>1. n = 1 /\ kids[1].rtype = "ATTRIBUTES"
    BY <1>9 DEF Casts
  <2>2. Spent("NODENAME", up, 0) = 0 /\ Spent("NODENAME", up, 1) = m + Block(1)
    BY <1>2 DEF Spent
  <2>3. Cost("ATTRIBUTES", "NODENAME") = m + Block(1)
    BY <1>2 DEF Cost
  <2>4. j = 1 /\ m + Block(1) \in Nat
    BY <1>2, <2>1 DEF Block
  <2> QED BY <1>9, <2>1, <2>2, <2>3, <2>4
<1>10. CASE rtype = "JOBS"
  <2>1. IsReply(in.job)
    BY InputsAssumption
  <2>2. n = Len(in.job.recs)
    BY <1>10 DEF Casts
  <2>3. PICK a, b, t : /\ a = Cardinality(TwinsTo(j)) /\ b = Cardinality(TwinsTo(j - 1))
                       /\ t = IF j \in Twins(in.job.recs) THEN 1 ELSE 0
    OBVIOUS
  <2>4. a = b + t /\ b \in Nat /\ t \in {0, 1}
    <3>1. j - 1 \in 0 .. n
      OBVIOUS
    <3>2. /\ \A i \in 0 .. n : Cardinality(TwinsTo(i)) \in 0 .. i
          /\ \A i \in 1 .. n :
                Cardinality(TwinsTo(i)) =
                   Cardinality(TwinsTo(i - 1)) + IF i \in Twins(in.job.recs) THEN 1 ELSE 0
      BY <2>1, <2>2, TwinsCounted
    <3>3. b \in 0 .. (j - 1)
      BY <2>3, <3>1, <3>2
    <3>4. a = b + t
      BY <2>3, <3>2
    <3> QED BY <2>3, <3>3, <3>4
  <2>5. Spent("JOBS", up, j) = (j - a) * 4 /\ Spent("JOBS", up, j - 1) = (j - 1 - b) * 4
    BY <2>3 DEF Spent, Block
  <2>6. (IF j \in Twins(in.job.recs) THEN 0 ELSE Block(3)) = 4 - 4 * t
    BY <2>3 DEF Block
  <2> QED BY <1>10, <2>4, <2>5, <2>6
<1>11. CASE rtype = "ATTRIBUTES"
  <2>1. /\ kids[j].rtype \in AttrTypes \cup {"ALLOCJOB"}
        /\ kids[j].rtype = "ALLOCJOB" <=> up = "NODENAME" /\ j = 2
    BY <1>11 DEF Casts
  <2>2. /\ Cost("ALLOCJOB", "ATTRIBUTES") = Block(1)
        /\ \A t \in AttrTypes : Cost(t, "ATTRIBUTES") = 0
    BY DEF Cost, AttrTypes, AttrSubtypes
  <2>3. /\ Spent("ATTRIBUTES", up, j) = IF up = "NODENAME" /\ j = 2 THEN Block(1) ELSE 0
        /\ Spent("ATTRIBUTES", up, j - 1) = IF up = "NODENAME" /\ j - 1 = 2 THEN Block(1) ELSE 0
    BY DEF Spent
  <2>4. up = "NODENAME" => n = 2
    BY <1>11, AttrsAre DEF Casts
  <2>5. ~(up = "NODENAME" /\ j - 1 = 2)
    BY <2>4
  <2> QED BY <1>11, <2>1, <2>2, <2>3, <2>5 DEF Block
<1>12. CASE rtype = "CONTROL"
  <2>1. kids[j].rtype = "KNOB"
    BY <1>12 DEF Casts
  <2>2. Spent("CONTROL", up, j) = 0 /\ Spent("CONTROL", up, j - 1) = 0 /\ Cost("KNOB", "CONTROL") = 0
    BY DEF Spent, Cost
  <2> QED BY <1>12, <2>1, <2>2
<1>13. CASE rtype = "ALLOCJOB"
  <2>1. n = 1 /\ kids[1].rtype = "ATTRIBUTE"
    BY <1>13 DEF Casts, Sized
  <2>2. Spent("ALLOCJOB", up, j) = 0 /\ Spent("ALLOCJOB", up, j - 1) = 0 /\ Cost("ATTRIBUTE", "ALLOCJOB") = 0
    BY DEF Spent, Cost
  <2>3. j = 1
    BY <2>1
  <2> QED BY <1>13, <2>1, <2>2, <2>3
<1> QED BY <1>4, <1>5, <1>6, <1>7, <1>8, <1>9, <1>10, <1>11, <1>12, <1>13 DEF Sized

\* What all the children take, with the block, is what the node costs; and
\* before the first child nothing is taken.
LEMMA AllCost ==
  ASSUME in \in Inputs, NEW rtype, NEW up, Sized(rtype, up), NEW n \in Nat, NEW kids,
         Casts(rtype, up, n, kids)
  PROVE  /\ Spent(rtype, up, 0) = 0
         /\ rtype # "ROOT" => n + 1 + Spent(rtype, up, n) = Cost(rtype, up)
         /\ rtype = "ROOT" => Block(4) + Spent(rtype, up, n) = Needs(in)
<1>1. /\ \A t \in {"ROOT", "CLUSTER", "PARTNAME", "NODENAME"} : AttrsNeed(t) \in Nat
      /\ CtlsNeed \in Nat /\ NodeNeeds \in Nat /\ NodesNeed \in Nat
      /\ PartNeeds(in) \in Nat /\ PartsNeed \in Nat /\ JobsNeed \in Nat /\ ClusterNeed \in Nat
  BY NeedsAre
<1>2. PICK r, c, p, m : /\ r = AttrsNeed("ROOT") /\ c = AttrsNeed("CLUSTER")
                        /\ p = AttrsNeed("PARTNAME") /\ m = AttrsNeed("NODENAME")
                        /\ r \in Nat /\ c \in Nat /\ p \in Nat /\ m \in Nat
  BY <1>1
<1>3. Block(1) = 2 /\ Block(2) = 3 /\ Block(3) = 4 /\ Block(4) = 5
  BY DEF Block
<1>4. CASE rtype = "ROOT"
  <2>1. /\ Spent("ROOT", up, 0) = 0 /\ Spent("ROOT", up, 3) = r + (ClusterNeed + CtlsNeed)
    BY <1>2 DEF Spent
  <2>2. n = 3 /\ Needs(in) = 5 + r + ClusterNeed + CtlsNeed
    BY <1>2, <1>3, <1>4, NeedsAre DEF Casts
  <2> QED BY <1>1, <1>2, <1>3, <1>4, <2>1, <2>2
<1>5. CASE rtype = "CLUSTER"
  <2>1. /\ Spent("CLUSTER", up, 0) = 0 /\ Spent("CLUSTER", up, 3) = c + (PartsNeed + JobsNeed)
        /\ Cost("CLUSTER", up) = ClusterNeed
    BY <1>2 DEF Spent, Cost
  <2>2. n = 3 /\ ClusterNeed = 4 + c + PartsNeed + JobsNeed
    BY <1>2, <1>3, <1>5, NeedsAre DEF Casts
  <2> QED BY <1>1, <1>2, <1>5, <2>1, <2>2
<1>6. CASE rtype = "PARTS"
  <2>1. /\ Spent("PARTS", up, 0) = 0 * PartNeeds(in) /\ Spent("PARTS", up, n) = n * PartNeeds(in)
        /\ Cost("PARTS", up) = PartsNeed
    BY DEF Spent, Cost
  <2>2. PartsNeed = n + 1 + n * PartNeeds(in)
    BY <1>6, NeedsAre DEF Casts, Block
  <2> QED BY <1>1, <1>6, <2>1, <2>2
<1>7. CASE rtype = "PARTNAME"
  <2>1. /\ Spent("PARTNAME", up, 0) = 0 /\ Spent("PARTNAME", up, 2) = NodesNeed + p
        /\ Cost("PARTNAME", up) = PartNeeds(in)
    BY <1>2 DEF Spent, Cost
  <2>2. n = 2 /\ PartNeeds(in) = 3 + p + NodesNeed
    BY <1>2, <1>3, <1>7, NeedsAre DEF Casts
  <2> QED BY <1>1, <1>2, <1>7, <2>1, <2>2
<1>8. CASE rtype = "NODES"
  <2>1. /\ Spent("NODES", up, 0) = 0 * NodeNeeds /\ Spent("NODES", up, n) = n * NodeNeeds
        /\ Cost("NODES", up) = NodesNeed
    BY DEF Spent, Cost
  <2>2. NodesNeed = n + 1 + n * NodeNeeds
    BY <1>8, NeedsAre DEF Casts, Block
  <2> QED BY <1>1, <1>8, <2>1, <2>2
<1>9. CASE rtype = "NODENAME"
  <2>1. /\ Spent("NODENAME", up, 0) = 0 /\ Spent("NODENAME", up, 1) = m + Block(1)
        /\ Cost("NODENAME", up) = NodeNeeds
    BY <1>2 DEF Spent, Cost
  <2>2. n = 1 /\ NodeNeeds = Block(1) + m + Block(1)
    BY <1>2, <1>9, NeedsAre DEF Casts
  <2> QED BY <1>2, <1>3, <1>9, <2>1, <2>2
<1>10. CASE rtype = "JOBS"
  <2>1. n = Len(in.job.recs) /\ IsReply(in.job)
    BY <1>10, InputsAssumption DEF Casts
  <2>2. Cardinality(TwinsTo(0)) = 0 /\ TwinsTo(n) = Twins(in.job.recs)
    BY <2>1, TwinsCounted
  <2>3. PICK t : t = Cardinality(Twins(in.job.recs))
    OBVIOUS
  <2>4. t \in Nat
    <3>1. n \in 0 .. n
      OBVIOUS
    <3>2. \A i \in 0 .. n : Cardinality(TwinsTo(i)) \in 0 .. i
      BY <2>1, TwinsCounted
    <3> QED BY <2>2, <2>3, <3>1, <3>2
  <2>5. Spent("JOBS", up, 0) = (0 - 0) * 4 /\ Spent("JOBS", up, n) = (n - t) * 4
    BY <1>3, <2>2, <2>3 DEF Spent
  <2>6. Cost("JOBS", up) = n + 1 + (n - t) * 4
    BY <1>3, <2>1, <2>3 DEF Cost, JobsNeed, Block
  <2> QED BY <1>10, <2>4, <2>5, <2>6
<1>11. CASE rtype = "ATTRIBUTES"
  <2>1. n = Len(AttrTab[up]) /\ (up = "NODENAME" => n = 2)
    BY <1>11, AttrsAre DEF Casts
  <2>2. /\ Spent("ATTRIBUTES", up, 0) = 0
        /\ Spent("ATTRIBUTES", up, n) = IF up = "NODENAME" /\ n = 2 THEN 2 ELSE 0
        /\ Cost("ATTRIBUTES", up) = n + 1 + IF up = "NODENAME" THEN 2 ELSE 0
    BY <1>3, <2>1 DEF Spent, Cost, AttrsNeed, Block
  <2> QED BY <1>11, <2>1, <2>2
<1>12. CASE rtype = "CONTROL"
  <2>1. n = Len(CtlTab["ROOT"])
    BY <1>12 DEF Casts, Sized
  <2>2. /\ Spent("CONTROL", up, 0) = 0 /\ Spent("CONTROL", up, n) = 0
        /\ Cost("CONTROL", up) = n + 1
    BY <2>1 DEF Spent, Cost, CtlsNeed, Block
  <2> QED BY <1>12, <2>2
<1>13. CASE rtype = "ALLOCJOB"
  <2>1. n = 1
    BY <1>13 DEF Casts, Sized
  <2>2. /\ Spent("ALLOCJOB", up, 0) = 0 /\ Spent("ALLOCJOB", up, n) = 0
        /\ Cost("ALLOCJOB", up) = 2
    BY <1>3 DEF Spent, Cost
  <2> QED BY <1>13, <2>1, <2>2
<1> QED BY <1>4, <1>5, <1>6, <1>7, <1>8, <1>9, <1>10, <1>11, <1>12, <1>13 DEF Sized

\* What has a fixed size has children of fixed sizes, but for the jobs.
LEMMA SizedChild ==
  ASSUME NEW rtype, NEW up, Sized(rtype, up), NEW c, MayHold(rtype, c),
         c = "ALLOCJOB" => ~in.alloc
  PROVE  Sized(c, rtype) \/ c \in AttrTypes \/ (c = "JOBID" /\ rtype = "JOBS")
  BY DEF MayHold, Sized, AttrTypes, AttrSubtypes

\* Attributes and knobs take nothing, and say nothing.
LEMMA LeavesFree ==
  ASSUME NEW rtype \in AttrTypes, NEW up
  PROVE  Cost(rtype, up) = 0 /\ Given(rtype, up)
  BY DEF Cost, Given, AttrTypes, AttrSubtypes

\* What all the children say, and the builder has checked, is what it says.
LEMMA AllGiven ==
  ASSUME in \in Inputs, NEW rtype, NEW up, NEW n \in Nat, NEW kids, Casts(rtype, up, n, kids),
         \A j \in 1 .. n : Given(kids[j].rtype, rtype),
         rtype = "PARTS" => in.part.state = "array" /\ Distinct(in.part.recs),
         rtype = "NODES" => in.node.state = "array" /\ Distinct(in.node.recs),
         rtype = "JOBS" => JobsGiven,
         rtype = "ATTRIBUTES" /\ up \in {"PARTNAME", "NODENAME"} => up \notin in.badattr
  PROVE  Given(rtype, up)
<1>1. /\ in.part.recs # <<>> => Len(in.part.recs) \in Nat /\ Len(in.part.recs) >= 1
      /\ in.node.recs # <<>> => Len(in.node.recs) \in Nat /\ Len(in.node.recs) >= 1
  <2>1. in.part.recs \in Seq(NodeNames) /\ in.node.recs \in Seq(NodeNames)
    BY InputsAssumption DEF IsReply
  <2>2. \A q \in Seq(NodeNames) : q # <<>> => Len(q) \in Nat /\ Len(q) >= 1
    OBVIOUS
  <2> QED BY <2>1, <2>2
<1>2. CASE rtype = "CLUSTER"
  <2>1. n = 3 /\ kids[2].rtype = "PARTS" /\ kids[3].rtype = "JOBS"
    BY <1>2 DEF Casts
  <2>2. 2 \in 1 .. n /\ 3 \in 1 .. n
    BY <2>1
  <2>3. Given("PARTS", rtype) /\ Given("JOBS", rtype)
    BY <2>1, <2>2
  <2> QED BY <1>2, <2>3 DEF Given
<1>3. CASE rtype = "PARTS"
  <2>1. in.part.recs # <<>> => Given("PARTNAME", rtype)
    <3>1. n = Len(in.part.recs) /\ \A j \in 1 .. n : kids[j].rtype = "PARTNAME"
      BY <1>3 DEF Casts
    <3>2. in.part.recs # <<>> => 1 \in 1 .. n
      BY <1>1, <3>1
    <3> QED BY <3>1, <3>2
  <2> QED BY <1>3, <2>1 DEF Given, PartsGiven
<1>4. CASE rtype = "PARTNAME"
  <2>1. n = 2 /\ kids[1].rtype = "NODES" /\ kids[2].rtype = "ATTRIBUTES"
    BY <1>4 DEF Casts
  <2>2. 1 \in 1 .. n /\ 2 \in 1 .. n
    BY <2>1
  <2>3. Given("NODES", rtype) /\ Given("ATTRIBUTES", rtype)
    BY <2>1, <2>2
  <2> QED BY <1>4, <2>3 DEF Given, PartGiven
<1>5. CASE rtype = "NODES"
  <2>1. in.node.recs # <<>> => Given("NODENAME", rtype)
    <3>1. n = Len(in.node.recs) /\ \A j \in 1 .. n : kids[j].rtype = "NODENAME"
      BY <1>5 DEF Casts
    <3>2. in.node.recs # <<>> => 1 \in 1 .. n
      BY <1>1, <3>1
    <3> QED BY <3>1, <3>2
  <2> QED BY <1>5, <2>1 DEF Given, NodesGiven
<1>6. CASE rtype = "NODENAME"
  <2>1. n = 1 /\ kids[1].rtype = "ATTRIBUTES"
    BY <1>6 DEF Casts
  <2>2. Given("ATTRIBUTES", rtype)
    BY <2>1
  <2> QED BY <1>6, <2>2 DEF Given, NodeGiven
<1>7. CASE rtype = "ATTRIBUTES"
  <2>1. up = "NODENAME" => ~in.alloc
    <3>1. up = "NODENAME" => n = 2
      BY <1>7, AttrsAre DEF Casts
    <3>2. up = "NODENAME" => kids[2].rtype = "ALLOCJOB" /\ 2 \in 1 .. n
      BY <1>7, <3>1 DEF Casts
    <3>3. up = "NODENAME" => Given("ALLOCJOB", rtype)
      BY <3>2
    <3> QED BY <3>3 DEF Given
  <2> QED BY <1>7, <2>1 DEF Given
<1>8. CASE rtype = "ALLOCJOB"
  <2>1. in.alloc => kids[2].rtype = "ALLOCJOB" /\ 2 \in 1 .. n
    BY <1>8 DEF Casts
  <2>2. in.alloc => Given("ALLOCJOB", rtype)
    BY <2>1
  <2> QED BY <1>8, <2>2 DEF Given
<1>9. CASE rtype \notin {"CLUSTER", "PARTS", "PARTNAME", "NODES", "NODENAME", "ATTRIBUTES", "ALLOCJOB"}
  BY <1>9 DEF Given
<1> QED BY <1>2, <1>3, <1>4, <1>5, <1>6, <1>7, <1>8, <1>9

\* The sums are numbers.
LEMMA SpentInt ==
  ASSUME in \in Inputs, NEW t, NEW u, Sized(t, u), t # "JOBS", NEW j \in Nat
  PROVE  Spent(t, u, j) \in Int
<1>1. /\ \A up \in {"ROOT", "CLUSTER", "PARTNAME", "NODENAME"} : AttrsNeed(up) \in Nat
      /\ CtlsNeed \in Nat /\ NodeNeeds \in Nat /\ NodesNeed \in Nat
      /\ PartNeeds(in) \in Nat /\ PartsNeed \in Nat /\ JobsNeed \in Nat /\ ClusterNeed \in Nat
  BY NeedsAre
<1>2. PICK r, c, p, m : /\ r = AttrsNeed("ROOT") /\ c = AttrsNeed("CLUSTER")
                        /\ p = AttrsNeed("PARTNAME") /\ m = AttrsNeed("NODENAME")
                        /\ r \in Nat /\ c \in Nat /\ p \in Nat /\ m \in Nat
  BY <1>1
<1>3. \A a \in Nat : j * a \in Int
  OBVIOUS
<1>4. t \in {"PARTS", "NODES"} => Spent(t, u, j) \in Int
  BY <1>1, <1>3 DEF Spent
<1>5. t \in {"ROOT", "CLUSTER"} => Spent(t, u, j) \in Int
  BY <1>1, <1>2 DEF Spent
<1>6. t \in {"PARTNAME", "NODENAME"} => Spent(t, u, j) \in Int
  BY <1>1, <1>2 DEF Spent, Block
<1>7. t \in {"ATTRIBUTES", "CONTROL", "ALLOCJOB"} => Spent(t, u, j) \in Int
  BY DEF Spent, Block
<1> QED BY <1>4, <1>5, <1>6, <1>7 DEF Sized

\* So is what a child takes.
LEMMA CostInt ==
  ASSUME in \in Inputs, NEW t, NEW u, Sized(t, u), NEW c, MayHold(t, c)
  PROVE  Cost(c, t) \in Int
<1>1. /\ \A up \in {"ROOT", "CLUSTER", "PARTNAME", "NODENAME"} : AttrsNeed(up) \in Nat
      /\ CtlsNeed \in Nat /\ NodeNeeds \in Nat /\ NodesNeed \in Nat
      /\ PartNeeds(in) \in Nat /\ PartsNeed \in Nat /\ JobsNeed \in Nat /\ ClusterNeed \in Nat
  BY NeedsAre
<1>2. c = "ATTRIBUTES" => t \in {"ROOT", "CLUSTER", "PARTNAME", "NODENAME"}
  BY DEF MayHold, Sized
<1>3. c = "ATTRIBUTES" => Cost(c, t) \in Int
  <2>1. PICK a : a = AttrsNeed(t)
    OBVIOUS
  <2>2. c = "ATTRIBUTES" => a \in Nat
    BY <1>1, <1>2, <2>1
  <2> QED BY <2>1, <2>2 DEF Cost, Block
<1>4. c # "ATTRIBUTES" => Cost(c, t) \in Int
  BY <1>1 DEF Cost, Block
<1> QED BY <1>3, <1>4

-----------------------------------------------------------------------------
(* The running builders *)

USE DEF NULL, Pending

\* A running builder casts what its type says, and stands within its list.
LEMMA RunsIn ==
  ASSUME IInv, NEW k \in 1 .. Depth, NEW s, s = stack[k].at
  PROVE  /\ in \in Inputs /\ NKids(s) \in Nat
         /\ Casts(rn[s].rtype, Up(k), NKids(s), Children(s))
         /\ Depth \in Nat /\ stack[k].kid \in Nat /\ stack[k].blk \in Nat
         /\ Building /\ stack[k].kid > 0 =>
               /\ stack[k].kid <= NKids(s) + 1
               /\ Done(k) \in 0 .. NKids(s) /\ Fin(k) \in 0 .. NKids(s) /\ Fin(k) <= Done(k)
               /\ Fin(k) # Done(k) => k < Depth /\ Done(k) = stack[k].kid
                                      /\ Fin(k) = stack[k].kid - 1
<1>1. in \in Inputs /\ stack \in Seq(Frames) /\ Depth \in Nat /\ stack[k] \in Frames
  BY DEF IInv, PoolInv, VarsInv, Depth
<1>2. stack[k].kid \in Nat /\ stack[k].blk \in Nat
  BY <1>1 DEF Frames
<1>3. NKids(s) \in Nat /\ rn[s].rtype \in BuiltTypes
  BY FrameFacts DEF IInv
<1>4. k > 1 => /\ rn[s].rtype # "ROOT" /\ rn[s].parent = stack[k - 1].at
               /\ MayHold(rn[rn[s].parent].rtype, rn[s].rtype)
  <2>1. ASSUME k > 1
        PROVE  /\ rn[s].rtype # "ROOT" /\ rn[s].parent = stack[k - 1].at
               /\ MayHold(rn[rn[s].parent].rtype, rn[s].rtype)
    <3>1. rn[s].parent = stack[k - 1].at /\ MayHold(rn[stack[k - 1].at].rtype, rn[s].rtype)
      BY <2>1, CalledFrom
    <3> QED BY <3>1, HeldIsBuilt
  <2> QED BY <2>1
<1>5. k = 1 => rn[s].rtype = "ROOT"
  BY DEF IInv, FrameInv, FrameOK
<1>6. Listable(s)
  BY <1>1, <1>3, <1>4, <1>5 DEF Listable
<1>7. Casts(rn[s].rtype, Up(k), NKids(s), Children(s))
  <2>1. Casts(rn[s].rtype, rn[rn[s].parent].rtype, NKids(s), Children(s))
    BY <1>6, CastsAre
  <2>2. CASE k = 1
    BY <1>5, <2>1, <2>2 DEF Casts
  <2>3. CASE k # 1
    BY <1>4, <2>1, <2>3 DEF Up
  <2> QED BY <2>2, <2>3
<1>8. ASSUME Building, stack[k].kid > 0
      PROVE  /\ stack[k].kid <= NKids(s) + 1
             /\ Done(k) \in 0 .. NKids(s) /\ Fin(k) \in 0 .. NKids(s) /\ Fin(k) <= Done(k)
             /\ Fin(k) # Done(k) => k < Depth /\ Done(k) = stack[k].kid
                                    /\ Fin(k) = stack[k].kid - 1
  <2>1. stack[k].kid <= NKids(s) + 1
    BY <1>8 DEF IInv, BlockInv, BlockOK
  <2>2. k < Depth => stack[k].kid \in 1 .. NKids(s)
    <3>1. ASSUME k < Depth
          PROVE  stack[k].kid \in 1 .. NKids(s)
      <4>1. FrameOK(k + 1) /\ k + 1 > 1 /\ (k + 1) - 1 = k
        BY <1>1, <3>1 DEF IInv, FrameInv
      <4> QED BY <4>1 DEF FrameOK
    <3> QED BY <3>1
  <2>3. k = Depth /\ ret # Pending => stack[k].kid <= NKids(s)
    <3>1. stack # <<>>
      BY <1>1 DEF Depth
    <3>2. k = Depth => Top = stack[k] /\ stack # <<>>
      BY <1>1, <3>1, TopIs
    <3> QED BY <1>8, <3>2 DEF IInv, RetInv
  <2> QED BY <1>1, <1>2, <1>3, <1>8, <2>1, <2>2, <2>3 DEF Done, Fin
<1> QED BY <1>1, <1>2, <1>3, <1>7, <1>8

\* A step that leaves the blocks and the lists of the first m builders, and the
\* names of the jobs they have cast.
Stands(m) ==
    /\ in' = in /\ (caught_in_a_loop => caught_in_a_loop')
    /\ m \in Nat /\ m <= Depth
    /\ \A j \in 1 .. m :
          /\ stack'[j].at = stack[j].at /\ stack'[j].blk = stack[j].blk
          /\ rn'[stack[j].at].rtype = rn[stack[j].at].rtype
          /\ \A s : s = stack[j].at => Children(s)' = Children(s) /\ NKids(s)' = NKids(s)
          /\ rn[stack[j].at].rtype = "JOBS" =>
                \A p \in 1 .. Done(j) : rn'[Pos(stack[j], p)].nm = rn[Pos(stack[j], p)].nm

\* What stands looks the same.
LEMMA StandsSame ==
  ASSUME NEW m, Stands(m), NEW i \in 1 .. m
  PROVE  /\ Up(i)' = Up(i) /\ rn'[stack'[i].at].rtype = rn[stack[i].at].rtype
         /\ NKids(stack[i].at)' = NKids(stack[i].at) /\ Children(stack[i].at)' = Children(stack[i].at)
         /\ \A p : Pos(stack[i], p)' = Pos(stack[i], p)
         /\ \A t, u : Sized(t, u)' = Sized(t, u) /\ Given(t, u)' = Given(t, u)
         /\ \A t, u, j : Spent(t, u, j)' = Spent(t, u, j)
         /\ \A j : Lost(j)' = Lost(j)
<1>1. stack'[i].at = stack[i].at /\ stack'[i].blk = stack[i].blk /\ in' = in /\ rn'[stack[i].at].rtype = rn[stack[i].at].rtype
  BY DEF Stands
<1>2. Up(i)' = Up(i)
  <2>1. CASE i = 1
    BY <2>1 DEF Up
  <2>2. CASE i # 1
    <3>1. i - 1 \in 1 .. m
      BY <2>2 DEF Stands
    <3>2. stack'[i - 1].at = stack[i - 1].at /\ rn'[stack[i - 1].at].rtype = rn[stack[i - 1].at].rtype
      BY <3>1 DEF Stands
    <3> QED BY <2>2, <3>2 DEF Up
  <2> QED BY <2>1, <2>2
<1>3. \A s : s = stack[i].at => Children(s)' = Children(s) /\ NKids(s)' = NKids(s)
  BY DEF Stands
<1>4. /\ NKids(stack[i].at)' = NKids(stack[i].at)
      /\ Children(stack[i].at)' = Children(stack[i].at)
  <2>1. PICK s : s = stack[i].at
    OBVIOUS
  <2>2. stack[i].at' = s
    BY <1>1, <2>1
  <2> QED BY <1>3, <2>1, <2>2
<1>5. \A p : Pos(stack[i], p)' = Pos(stack[i], p)
  BY <1>1 DEF Pos
<1>6. /\ \A t, u : Sized(t, u)' = Sized(t, u) /\ Given(t, u)' = Given(t, u)
      /\ \A t, u, j : Spent(t, u, j)' = Spent(t, u, j)
      /\ \A j : Lost(j)' = Lost(j)
  <2>1. \A t, u : Sized(t, u)' = Sized(t, u)
    BY <1>1 DEF Sized
  <2>2. \A t, u : Given(t, u)' = Given(t, u)
    BY <1>1 DEF Given, PartsGiven, PartGiven, NodesGiven, NodeGiven, JobsGiven, Survivable
  <2>3. \A t, u, j : Spent(t, u, j)' = Spent(t, u, j)
    BY <1>1 DEF Spent, AttrsNeed, CtlsNeed, ClusterNeed, PartsNeed, JobsNeed, NodesNeed, TwinsTo
  <2>4. \A j : Lost(j)' = Lost(j)
    BY <1>1 DEF Lost, TwinsTo
  <2> QED BY <2>1, <2>2, <2>3, <2>4
<1> QED BY <1>1, <1>2, <1>4, <1>5, <1>6

\* The jobs of a builder, when it has cast or finished one more.
LEMMA JobsCount ==
  ASSUME NEW m, Stands(m), NEW i \in 1 .. m, JobsOK(i), NEW n \in Nat, n = Done(i),
         NEW done, done = Done(i)', NEW fin, fin = Fin(i)', NEW x, x = Pos(stack[i], n + 1),
         rn[stack[i].at].rtype = "JOBS" =>
            /\ \/ done = n
               \/ /\ done = n + 1
                  /\ rn'[x].nm = IF n + 1 \in Twins(in.job.recs) THEN NoName ELSE in.job.recs[n + 1]
            /\ \/ fin = Fin(i)
               \/ in.step.recs = <<>> /\ Lost(fin) <= 1 /\ (Lost(fin) = 1 => caught_in_a_loop')
  PROVE  JobsOK(i)'
<1>1. CASE rn[stack[i].at].rtype # "JOBS"
  <2>1. rn'[stack'[i].at].rtype # "JOBS"
    BY <1>1, StandsSame
  <2> QED BY <2>1 DEF JobsOK
<1>2. CASE rn[stack[i].at].rtype = "JOBS"
  <2>1. /\ \A p : Pos(stack[i], p)' = Pos(stack[i], p)
        /\ \A j : Lost(j)' = Lost(j)
    BY StandsSame
  <2>2. in' = in /\ (caught_in_a_loop => caught_in_a_loop')
    BY DEF Stands
  <2>3. \A p \in 1 .. n : rn'[Pos(stack[i], p)].nm = rn[Pos(stack[i], p)].nm
    BY <1>2 DEF Stands
  <2>4. \A p \in 1 .. n :
           rn[Pos(stack[i], p)].nm = IF p \in Twins(in.job.recs) THEN NoName ELSE in.job.recs[p]
    BY <1>2 DEF JobsOK, Named
  <2>5. \A p \in 1 .. done : p \in 1 .. n \/ (done = n + 1 /\ p = n + 1)
    BY <1>2
  <2>6. \A p \in 1 .. done :
           rn'[Pos(stack[i], p)].nm = IF p \in Twins(in.job.recs) THEN NoName ELSE in.job.recs[p]
    <3>1. \A p \in 1 .. n :
             rn'[Pos(stack[i], p)].nm = IF p \in Twins(in.job.recs) THEN NoName ELSE in.job.recs[p]
      BY <2>3, <2>4, Zenon
    <3>2. done = n + 1 =>
             rn'[x].nm = IF n + 1 \in Twins(in.job.recs) THEN NoName ELSE in.job.recs[n + 1]
      <4>1. n + 1 # n
        OBVIOUS
      <4> QED BY <1>2, <4>1
    <3> QED BY <2>5, <3>1, <3>2
  <2>7. \A p \in 1 .. done :
           IF p \in Twins(in'.job.recs) THEN ~Named(Pos(stack[i], p))'
           ELSE (rn[Pos(stack[i], p)].nm)' = in'.job.recs[p]
    BY <2>1, <2>2, <2>6, Zenon DEF Named
  <2>8. Lost(fin) <= 1 /\ (Lost(fin) = 1 => caught_in_a_loop') /\ (fin > 0 => in.step.recs = <<>>)
    BY <1>2, <2>2 DEF JobsOK
  <2>9. \A j : j = fin => Lost(j)' = Lost(fin)
    BY <2>1
  <2>10. Lost(Fin(i))' = Lost(fin)
    BY <2>9
  <2> QED BY <2>2, <2>7, <2>8, <2>10 DEF JobsOK
<1> QED BY <1>1, <1>2

\* What the children say, when one more is finished or cast.
LEMMA GivenCount ==
  ASSUME NEW m, Stands(m), NEW i \in 1 .. m, GivenOK(i), NEW n \in Nat, n = Fin(i),
         NEW s, s = stack[i].at, NEW fin, fin = Fin(i)',
         fin = n \/ (fin = n + 1 /\ Given(Children(s)[fin].rtype, rn[s].rtype)),
         rn[s].rtype = "ATTRIBUTES" /\ Up(i) \in {"PARTNAME", "NODENAME"} /\ Done(i)' > 0 =>
            Done(i) > 0 \/ Up(i) \notin in.badattr
  PROVE  GivenOK(i)'
<1>1. /\ Up(i)' = Up(i) /\ stack'[i].at = s /\ rn'[s].rtype = rn[s].rtype
      /\ Children(stack[i].at)' = Children(s) /\ in' = in
      /\ \A t, u : Given(t, u)' = Given(t, u)
  BY StandsSame DEF Stands
<1>2. \A j \in 1 .. fin : Given(Children(s)[j].rtype, rn[s].rtype)
  <2>1. \A j \in 1 .. n : Given(Children(s)[j].rtype, rn[s].rtype)
    BY DEF GivenOK
  <2>2. \A j \in 1 .. fin : j \in 1 .. n \/ (fin = n + 1 /\ j = fin)
    OBVIOUS
  <2> QED BY <2>1, <2>2
<1>3. \A j \in 1 .. fin : (Given(Children(stack[i].at)[j].rtype, rn[stack[i].at].rtype))'
  <2>1. PICK kids, t : kids = Children(s) /\ t = rn[s].rtype
    OBVIOUS
  <2>2. (Children(stack[i].at))' = kids /\ (rn[stack[i].at].rtype)' = t
    BY <1>1, <2>1
  <2>3. \A j \in 1 .. fin : Given(kids[j].rtype, t)'
    BY <1>1, <1>2, <2>1
  <2> QED BY <2>2, <2>3
<1>4. \A j \in (1 .. Fin(i))' : (Given(Children(stack[i].at)[j].rtype, rn[stack[i].at].rtype))'
  BY <1>3
<1>5. /\ rn'[s].rtype = "PARTS" => in'.part.state = "array"
      /\ rn'[s].rtype = "NODES" => in'.node.state = "array"
      /\ rn'[s].rtype = "JOBS" => in'.job.state = "array"
      /\ rn'[s].rtype = "ATTRIBUTES" /\ Up(i)' \in {"PARTNAME", "NODENAME"} /\ Done(i)' > 0 =>
            Up(i)' \notin in'.badattr
  BY <1>1 DEF GivenOK
<1> QED BY <1>1, <1>4, <1>5 DEF GivenOK

\* The account of a builder, when the pool or its children have got further.
LEMMA AccountCount ==
  ASSUME NEW m, Stands(m), NEW i \in 1 .. m, NEW s, s = stack[i].at, NEW fin, fin = Fin(i)',
         Counted(i)' => Reached(i)' = stack[i].blk + NKids(s) + 1
                                      + Spent(rn[s].rtype, Up(i), fin)
  PROVE  AccountOK(i)'
<1>1. PICK t, u, n : t = rn[s].rtype /\ u = Up(i) /\ n = NKids(s)
  OBVIOUS
<1>2. (rn[stack[i].at].rtype)' = t /\ Up(i)' = u /\ NKids(stack[i].at)' = n
  BY <1>1, StandsSame
<1>3. \A a, b, j : Spent(a, b, j)' = Spent(a, b, j)
  BY StandsSame
<1>4. (Spent(rn[stack[i].at].rtype, Up(i), Fin(i)))' = Spent(t, u, fin)
  BY <1>2, <1>3
<1>5. stack'[i].blk = stack[i].blk
  BY DEF Stands
<1>6. Counted(i)' => Reached(i)' = stack'[i].blk + NKids(stack[i].at)' + 1
                                   + (Spent(rn[stack[i].at].rtype, Up(i), Fin(i)))'
  BY <1>1, <1>2, <1>4, <1>5
<1> QED BY <1>6 DEF AccountOK

\* A builder that waits goes on waiting.
LEMMA LowerCount ==
  ASSUME IInv, Building, NEW m, Stands(m), NEW i \in 1 .. m, i < Depth, i < Depth', CountOK(i),
         stack'[i].kid = stack[i].kid, Reached(i)' = Reached(i)
  PROVE  CountOK(i)'
<1>1. CASE stack[i].kid = 0
  <2>1. ~(stack'[i].kid > 0)
    BY <1>1
  <2> QED BY <2>1 DEF CountOK
<1>2. CASE stack[i].kid # 0
  <2>1. i \in 1 .. Depth /\ Depth \in Nat
    <3>1. Depth \in Nat
      BY DEF IInv, VarsInv, Depth
    <3> QED BY <3>1 DEF Stands
  <2>2. stack[i].kid \in Nat /\ stack[i].kid > 0
    BY <1>2, <2>1, RunsIn
  <2>3. Done(i) \in Nat /\ Fin(i) \in Nat
    BY <2>1, <2>2, RunsIn
  <2>4. AccountOK(i) /\ GivenOK(i) /\ JobsOK(i)
    BY <2>2 DEF CountOK
  <2>5. Fin(i)' = Fin(i) /\ Done(i)' = Done(i)
    BY <2>1 DEF Fin, Done
  <2>6. PICK s : s = stack[i].at
    OBVIOUS
  <2>7. GivenOK(i)'
    BY <2>3, <2>4, <2>5, <2>6, GivenCount
  <2>8. JobsOK(i)'
    BY <2>3, <2>4, <2>5, JobsCount
  <2>9. AccountOK(i)'
    <3>1. Counted(i)' => Counted(i)
      <4>1. (rn[stack[i].at].rtype)' = rn[s].rtype /\ Up(i)' = Up(i)
            /\ \A a, b : Sized(a, b)' = Sized(a, b)
        BY <2>6, StandsSame
      <4>2. (Sized(rn[stack[i].at].rtype, Up(i)))' = Sized(rn[s].rtype, Up(i))
        BY <4>1
      <4> QED BY <2>1, <2>6, <4>1, <4>2 DEF Counted
    <3>2. Counted(i) => Reached(i) = stack[i].blk + NKids(s) + 1
                                     + Spent(rn[s].rtype, Up(i), Fin(i))
      BY <2>4, <2>6 DEF AccountOK
    <3>3. PICK fin : fin = Fin(i)
      OBVIOUS
    <3> QED BY <2>5, <2>6, <3>1, <3>2, <3>3, AccountCount
  <2>10. JobLostOK(i)'
    BY DEF JobLostOK
  <2> QED BY <2>7, <2>8, <2>9, <2>10 DEF CountOK
<1> QED BY <1>1, <1>2

\* A builder to which rn_cast() has returned a node.
LEMMA BuiltCount ==
  ASSUME IInv, Building, NEW i \in 1 .. Depth, Stands(i), i < Depth, Depth' = i, ret' > NULL, CountOK(i),
         stack'[i].kid = stack[i].kid, NEW s, s = stack[i].at, rn[s].rtype # "JOBS",
         NEW c, c = Children(s)[stack[i].kid].rtype, Given(c, rn[s].rtype),
         Sized(rn[s].rtype, Up(i)) => Reached(i)' = Reached(i) + Cost(c, rn[s].rtype)
  PROVE  CountOK(i)'
<1>1. PICK n : n = stack[i].kid
  OBVIOUS
<1>2. n \in Nat /\ n > 0 /\ i \in Nat
  <2>1. Depth \in Nat
    BY RunsIn
  <2>2. FrameOK(i + 1) /\ i + 1 > 1 /\ (i + 1) - 1 = i
    BY <2>1 DEF IInv, FrameInv
  <2>3. n \in 1 .. NKids(s)
    BY <1>1, <2>2 DEF FrameOK
  <2> QED BY <2>1, <2>3
<1>3. AccountOK(i) /\ GivenOK(i)
  BY <1>1, <1>2 DEF CountOK
<1>4. Fin(i) = n - 1 /\ Done(i) = n /\ Fin(i)' = n /\ Done(i)' = n
  BY <1>1, <1>2 DEF Fin, Done
<1>5. i \in 1 .. i /\ n - 1 \in Nat /\ n \in 1 .. NKids(s)
  <2>1. Fin(i) \in 0 .. NKids(s) /\ Done(i) \in 0 .. NKids(s)
    BY <1>1, <1>2, RunsIn
  <2> QED BY <1>2, <1>4, <2>1
<1>6. GivenOK(i)'
  <2>1. n = (n - 1) + 1 /\ n > 0
    BY <1>2
  <2>2. Given(Children(s)[n].rtype, rn[s].rtype)
    BY <1>1
  <2>3. Done(i) > 0
    BY <1>2, <1>4
  <2> QED BY <1>3, <1>4, <1>5, <2>1, <2>2, <2>3, GivenCount
<1>7. JobsOK(i)' /\ JobLostOK(i)'
  <2>1. (rn[stack[i].at].rtype)' # "JOBS"
    BY <1>5, StandsSame
  <2>2. ret' # NULL
    OBVIOUS
  <2> QED BY <2>1, <2>2 DEF JobsOK, JobLostOK
<1>8. AccountOK(i)'
  <2>1. Counted(i)' => Sized(rn[s].rtype, Up(i))
    <3>1. (rn[stack[i].at].rtype)' = rn[s].rtype /\ Up(i)' = Up(i)
          /\ \A a, b : Sized(a, b)' = Sized(a, b)
      BY <1>5, StandsSame
    <3>2. (Sized(rn[stack[i].at].rtype, Up(i)))' = Sized(rn[s].rtype, Up(i))
      BY <3>1
    <3> QED BY <3>2 DEF Counted
  <2>2. ASSUME Sized(rn[s].rtype, Up(i))
        PROVE  Reached(i)' = stack[i].blk + NKids(s) + 1 + Spent(rn[s].rtype, Up(i), n)
    <3>1. PICK t, u, a, b, q, p, w :
             /\ t = rn[s].rtype /\ u = Up(i) /\ a = Reached(i) /\ b = stack[i].blk /\ q = NKids(s)
             /\ p = Spent(t, u, n - 1) /\ w = Cost(c, t)
      OBVIOUS
    <3>2. a = b + q + 1 + p
      BY <1>3, <1>4, <2>2, <3>1 DEF AccountOK, Counted
    <3>3. Spent(t, u, n) = p + w
      <4>1. in \in Inputs /\ q \in Nat /\ Casts(t, u, q, Children(s))
        BY <3>1, RunsIn
      <4>2. c = Children(s)[n].rtype /\ n \in 1 .. q /\ Sized(t, u) /\ t # "JOBS"
        BY <1>1, <1>5, <2>2, <3>1
      <4> QED BY <3>1, <4>1, <4>2, StepCost
    <3>4. p \in Int /\ w \in Int /\ b \in Int /\ q \in Int
      <4>1. b \in Nat /\ q \in Nat
        BY <3>1, RunsIn
      <4>2. p \in Int /\ w \in Int
        <5>1. in \in Inputs
          BY RunsIn
        <5>2. n - 1 \in Int /\ n - 1 >= 0
          BY <1>5
        <5>3. t # "JOBS" => p \in Int
          BY <1>5, <2>2, <3>1, <5>1, SpentInt
        <5>4. MayHold(t, c)
          <6>1. FrameOK(i + 1) /\ i + 1 > 1 /\ (i + 1) - 1 = i
            BY <1>2, RunsIn DEF IInv, FrameInv
          <6> QED BY <1>1, <3>1, <6>1 DEF FrameOK
        <5>5. w \in Int
          BY <2>2, <3>1, <5>1, <5>4, CostInt
        <5> QED BY <3>1, <5>3, <5>5
      <4> QED BY <4>1, <4>2
    <3>5. Reached(i)' = a + w
      BY <2>2, <3>1
    <3>6. Reached(i)' = b + q + 1 + Spent(t, u, n)
      BY <3>2, <3>3, <3>4, <3>5
    <3> QED BY <3>1, <3>6
  <2> QED BY <1>4, <1>5, <2>1, <2>2, AccountCount
<1> QED BY <1>6, <1>7, <1>8 DEF CountOK

\* A step that leaves the nodes of the first m builders, and no more than casts
\* a slot that they have not come to.
LEMMA StandsThen ==
  ASSUME IInv, Building, FilledInv, NEW x, Grows(x), NEW m \in 0 .. Depth,
         caught_in_a_loop => caught_in_a_loop',
         \A j \in 1 .. m : /\ stack'[j].at = stack[j].at /\ stack'[j].blk = stack[j].blk
                           /\ rn'[stack[j].at] = rn[stack[j].at],
         x \in Slots => \/ rn[x].gen = 0
                        \/ rn'[x].nm = rn[x].nm
                        \/ \A d \in Dirs : x \in Kids(d) => rn[d].rtype # "JOBS"
  PROVE  Stands(m)
<1>1. Depth \in Nat /\ stack \in Seq(Frames)
  BY DEF IInv, VarsInv, Depth
<1>2. m \in Nat /\ m <= Depth /\ \A j \in 1 .. m : j \in 1 .. Depth
  BY <1>1
<1>3. ASSUME NEW j \in 1 .. m, NEW s, s = stack[j].at
      PROVE  Children(s)' = Children(s) /\ NKids(s)' = NKids(s)
  <2>1. m \in 1 .. Depth
    BY <1>1
  <2>2. in' = in
    BY DEF Grows
  <2>3. \A i \in 1 .. m :
           LET t == stack[i].at
           IN /\ rn'[t].rtype = rn[t].rtype /\ rn'[t].parent = rn[t].parent
              /\ \/ rn'[t].dyn = rn[t].dyn
                 \/ i = Depth /\ rn[t].rtype \in ListTypes \cup {"JOBID"}
    OBVIOUS
  <2> QED BY <1>1, <1>3, <2>1, <2>2, <2>3, ListsKept DEF IInv
<1>4. ASSUME NEW j \in 1 .. m, rn[stack[j].at].rtype = "JOBS", NEW p \in 1 .. Done(j)
      PROVE  rn'[Pos(stack[j], p)].nm = rn[Pos(stack[j], p)].nm
  <2>1. PICK y : y = Pos(stack[j], p)
    OBVIOUS
  <2>2. j \in 1 .. Depth
    BY <1>2
  <2>3. stack[j].kid > 0
    <3>1. stack[j].kid \in Nat
      BY <2>2, RunsIn
    <3>2. EnteredOK(j)
      BY <2>2 DEF IInv, EnteredInv
    <3>3. stack[j].kid = 0 => j = Depth /\ ret = Pending
      BY <3>2 DEF EnteredOK
    <3>4. stack[j].kid = 0 => Done(j) = 0 - 1
      BY <3>3 DEF Done
    <3> QED BY <3>1, <3>4
  <2>4. NKids(stack[j].at) \in Nat /\ Done(j) \in 0 .. NKids(stack[j].at)
    BY <2>2, <2>3, RunsIn
  <2>5. p \in 1 .. NKids(stack[j].at)
    BY <2>4
  <2>6. y \in Slots
    BY <2>1, <2>2, <2>3, <2>5, PlacesFilled
  <2>7. rn[y].gen # 0
    BY <2>1, <2>2, <2>3 DEF FilledInv, FilledOK
  <2>8. stack[j].at \in Dirs /\ y \in Kids(stack[j].at)
    <3>1. PICK f \in Frames : f = stack[j]
      BY <1>1, <2>2 DEF Depth
    <3>2. rn[f.at].rtype # "ROOT"
      BY <1>4, <3>1
    <3>3. y \in f.blk .. (f.blk + NKids(f.at) - 1)
      BY <2>1, <2>4, <2>5, <3>1, <3>2, PosIs
    <3> QED BY <1>4, <2>2, <2>3, <3>1, <3>3, BlockOf
  <2>9. CASE y = x
    BY <1>4, <2>1, <2>6, <2>7, <2>8, <2>9
  <2>10. CASE y # x
    BY <2>1, <2>6, <2>10 DEF Grows
  <2> QED BY <2>9, <2>10
<1> QED BY <1>2, <1>3, <1>4 DEF Stands, Grows

\* The twin check of rn_cast() finds the twins.
LEMMA TwinIs ==
  ASSUME IInv, NEW k, NEW s, NEW x, NEW c, CastsInto(k, s, x, c), CountOK(k),
         rn[s].rtype = "JOBS", NEW p, p = stack[k].kid
  PROVE  Twin(s, c.nm) <=> p \in Twins(in.job.recs)
<1>1. /\ k \in 1 .. Depth /\ k = Depth /\ Building /\ ret = Pending /\ s = stack[k].at
      /\ p \in 1 .. NKids(s) /\ c = Children(s)[p] /\ x = Pos(stack[k], p) /\ rn[x].nm = NoName
      /\ x \in Slots
  BY DEF CastsInto
<1>2. PICK n, b : n = NKids(s) /\ b = stack[k].blk
  OBVIOUS
<1>3. n \in Nat /\ b \in Nat /\ in \in Inputs /\ Casts("JOBS", Up(k), n, Children(s))
  BY <1>1, <1>2, RunsIn
<1>4. /\ n = Len(in.job.recs) /\ c.nm = in.job.recs[p] /\ p \in 1 .. n
  BY <1>1, <1>2, <1>3 DEF Casts
<1>5. IsReply(in.job) /\ DOMAIN in.job.recs = 1 .. n
  <2>1. IsReply(in.job)
    BY <1>3, InputsAssumption
  <2> QED BY <1>4, <2>1 DEF IsReply
<1>6. \A q : Pos(stack[k], q) = b + (q - 1)
  BY <1>1, <1>2 DEF Pos
<1>7. p \in Nat /\ p > 0 /\ Done(k) = p - 1
  BY <1>1, <1>3, <1>4 DEF Done
<1>8. \A q \in 1 .. (p - 1) : rn[b + (q - 1)].nm = IF q \in Twins(in.job.recs) THEN NoName
                                                   ELSE in.job.recs[q]
  <2>1. JobsOK(k)
    BY <1>7 DEF CountOK
  <2>2. \A q \in 1 .. (p - 1) :
           rn[Pos(stack[k], q)].nm = IF q \in Twins(in.job.recs) THEN NoName ELSE in.job.recs[q]
    BY <1>1, <1>7, <2>1 DEF JobsOK, Named
  <2> QED BY <1>6, <2>2
<1>9. \A q \in 1 .. n : in.job.recs[q] # NoName
  BY <1>5, <1>4 DEF IsReply, NodeNames
<1>10. rn[s].children = b /\ b # NULL
  <2>1. BlockOK(k) /\ stack[k].kid > 0
    BY <1>1, <1>7 DEF IInv, BlockInv
  <2>2. rn[s].children = b /\ s < b /\ s \in Slots
    BY <1>1, <1>2, <2>1, FrameFacts DEF BlockOK, IInv
  <2> QED BY <1>3, <2>2, BaseAllocAssumption DEF Slots
<1>11. x = b + (p - 1)
  BY <1>1, <1>6
<1>12. DOMAIN rn = Slots /\ nxt_avail \in Nat
  BY DEF IInv, PoolInv
<1>13. p \in Twins(in.job.recs) <=>
          \E q \in 1 .. (p - 1) : /\ in.job.recs[q] = in.job.recs[p]
                                  /\ \A h \in 1 .. q : h \notin Twins(in.job.recs)
  <2>1. PICK recs : recs = in.job.recs
    OBVIOUS
  <2>2. n \in Nat /\ DOMAIN recs = 1 .. n /\ p \in 1 .. n
    BY <1>3, <1>4, <1>5, <2>1
  <2>3. p \in Twins(recs) <=>
           \E q \in 1 .. (p - 1) : recs[q] = recs[p] /\ \A h \in 1 .. q : h \notin Twins(recs)
    BY <2>2, TwinsAre
  <2> QED BY <2>1, <2>3, Zenon
<1>14. ASSUME Twin(s, c.nm)
       PROVE  p \in Twins(in.job.recs)
  <2>1. PICK t \in Slots : t >= b /\ rn[t].nm = c.nm /\ \A u \in b .. t : rn[u].nm # NoName
    BY <1>10, <1>12, <1>14 DEF Twin
  <2>2. t \in Nat
    BY <1>12, <2>1, BaseAllocAssumption DEF Slots
  <2>3. t < x
    <3>1. x \notin b .. t
      BY <1>1, <2>1
    <3> QED BY <1>3, <1>7, <1>11, <2>2, <3>1
  <2>4. PICK q : q = t - b + 1
    OBVIOUS
  <2>5. q \in 1 .. (p - 1) /\ t = b + (q - 1)
    BY <1>3, <1>7, <1>11, <2>1, <2>2, <2>3, <2>4
  <2>6. \A h \in 1 .. q : h \notin Twins(in.job.recs)
    <3>1. \A h \in 1 .. q : h \in 1 .. (p - 1) /\ b + (h - 1) \in b .. t
      BY <1>3, <1>7, <2>2, <2>5
    <3> QED BY <1>8, <2>1, <3>1
  <2>7. in.job.recs[q] = in.job.recs[p]
    <3>1. q \in 1 .. q
      BY <2>5
    <3> QED BY <1>4, <1>8, <2>1, <2>5, <2>6, <3>1
  <2>8. \E i \in 1 .. (p - 1) : /\ in.job.recs[i] = in.job.recs[p]
                                /\ \A h \in 1 .. i : h \notin Twins(in.job.recs)
    BY <2>5, <2>6, <2>7, Zenon
  <2> QED BY <1>13, <2>8, Zenon
<1>15. ASSUME p \in Twins(in.job.recs)
       PROVE  Twin(s, c.nm)
  <2>1. PICK q \in 1 .. (p - 1) : /\ in.job.recs[q] = in.job.recs[p]
                                  /\ \A h \in 1 .. q : h \notin Twins(in.job.recs)
    BY <1>15, <1>13, Zenon
  <2>2. PICK t : t = b + (q - 1)
    OBVIOUS
  <2>3. t \in Nat /\ t >= b /\ t < x /\ t \in Slots
    <3>1. b >= BaseAlloc
      <4>1. BlockOK(k) /\ stack[k].kid > 0
        BY <1>1, <1>7 DEF IInv, BlockInv
      <4>2. s < b /\ s \in Slots
        BY <1>1, <1>2, <4>1, FrameFacts DEF BlockOK, IInv
      <4> QED BY <1>3, <1>12, <4>2, BaseAllocAssumption DEF Slots
    <3>2. q \in Nat /\ q >= 1 /\ q < p
      BY <1>7, <2>1
    <3>3. t \in Nat /\ t >= b /\ t < x
      BY <1>3, <1>7, <1>11, <2>2, <3>2
    <3>4. x \in Nat /\ x < nxt_avail /\ nxt_avail \in Nat
      BY <1>1, <1>12, BaseAllocAssumption DEF Slots
    <3>5. t \in Slots
      BY <1>3, <3>1, <3>3, <3>4, BaseAllocAssumption DEF Slots
    <3> QED BY <3>3, <3>5
  <2>4. ASSUME NEW u \in b .. t
        PROVE  rn[u].nm # NoName
    <3>1. PICK h : h = u - b + 1
      OBVIOUS
    <3>2. h \in 1 .. q /\ u = b + (h - 1)
      BY <1>3, <2>2, <3>1
    <3>3. h \in 1 .. (p - 1) /\ h \in 1 .. n
      BY <1>3, <1>4, <1>7, <3>2
    <3> QED BY <1>8, <1>9, <2>1, <3>2, <3>3
  <2>5. rn[t].nm = c.nm
    <3>1. q \in 1 .. q
      OBVIOUS
    <3> QED BY <1>4, <1>8, <2>1, <2>2, <3>1
  <2> QED BY <1>10, <1>12, <2>3, <2>4, <2>5 DEF Twin
<1> QED BY <1>14, <1>15

-----------------------------------------------------------------------------
(* The steps *)

\* The builders that wait below the one that runs, when their children's blocks
\* and they themselves are where they were.
LEMMA LowersCount ==
  ASSUME IInv, Building, NEW m, Stands(m), m < Depth, NEW d \in Nat, Depth' = d, m < d,
         \A i \in 1 .. m : CountOK(i) /\ stack'[i].kid = stack[i].kid,
         \A i \in 1 .. m : Reached(i)' = Reached(i)
  PROVE  \A i \in 1 .. m : CountOK(i)'
<1>1. m \in Nat /\ Depth \in Nat
  BY DEF IInv, VarsInv, Depth, Stands
<1>2. TAKE i \in 1 .. m
<1>3. i < Depth /\ i < d
  BY <1>1
<1>4. i < Depth'
  BY <1>3
<1> QED BY <1>3, <1>4, LowerCount

\* What the step of a running builder has to say.
LEMMA CountThen ==
  ASSUME CountInv, in' = in, caught_in_a_loop' => caught_in_a_loop \/ ~in.debug,
         stack' # <<>> => stack'[1].blk = BaseAlloc + 1, status' # "mounted",
         NEW m, m = Depth', Building' /\ ~Doomed' => \A k \in 1 .. m : CountOK(k)'
  PROVE  CountInv'
<1>1. CaughtInv'
  BY DEF CountInv, CaughtInv
<1>2. FirstBlock'
  BY DEF FirstBlock
<1>3. (Building /\ ~Doomed => \A k \in 1 .. Depth : CountOK(k))'
  BY Zenon
<1>4. (status = "mounted" => Buildable /\ nxt_avail = BaseAlloc + Needs(in))'
  OBVIOUS
<1> QED BY <1>1, <1>2, <1>3, <1>4 DEF CountInv

\* collectslurm_attr() reads the first parameter of a partition and of a node
\* from the record.
LEMMA FirstRead ==
  ASSUME IInv, Casting, More, ~CollectFails, NEW k, k = Depth, k \in 1 .. Depth,
         NEW s, s = stack[k].at, s = Top.at, rn[s].rtype = "ATTRIBUTES",
         Up(k) \in {"PARTNAME", "NODENAME"}, Top.kid = 1
  PROVE  Up(k) \notin in.badattr
<1>1. Casts(rn[s].rtype, Up(k), NKids(s), Children(s))
  BY RunsIn
<1>2. Children(s)[1].typ \notin LocalTypes
  BY <1>1 DEF Casts
<1>3. NextChild = Children(s)[1]
  BY DEF NextChild
<1>4. rn[rn[s].parent].rtype = Up(k)
  <2>1. k # 1
    BY DEF Up
  <2>2. k > 1
    <3>1. Depth \in Nat
      BY RunsIn
    <3> QED BY <2>1, <3>1
  <2>3. rn[s].parent = stack[k - 1].at
    BY <2>2, CalledFrom
  <2> QED BY <2>1, <2>3 DEF Up
<1>5. Up(k) \in RecordTypes
  BY DEF RecordTypes
<1> QED BY <1>2, <1>3, <1>4, <1>5 DEF CollectFails

\* rn_cast() calls the builder of a child.
LEMMA CallCount ==
  ASSUME IInv, TreeInv, FillInv, CountInv, CastChild
  PROVE  CountInv'
<1>0. PICK k \in Nat : \E s, x, c : Calls(k, s, x, c)
  BY CallIs
<1>1. PICK s, x, c : Calls(k, s, x, c)
  BY <1>0
<1>2. CastsInto(k, s, x, c)
  BY <1>1 DEF Calls
<1>3. /\ k = Depth /\ k \in 1 .. Depth /\ Building /\ ret = Pending /\ s = stack[k].at
      /\ stack[k].kid \in 1 .. NKids(s) /\ c = Children(s)[stack[k].kid]
      /\ x \in Slots /\ x = Pos(stack[k], stack[k].kid) /\ rn[x].gen = 0 /\ Grows(x)
      /\ in' = in /\ nxt_avail' = nxt_avail /\ stack # <<>>
  BY <1>2 DEF CastsInto
<1>4. /\ ~Twin(s, c.nm) /\ rn'[x].nm = c.nm /\ Depth' = k + 1 /\ stack'[k + 1] = Frame(x)
      /\ ret' = ret /\ caught_in_a_loop' = caught_in_a_loop /\ status' = status
  BY <1>1, <1>2 DEF Calls, CastsInto
<1>5. \A i \in 1 .. k : stack'[i] = stack[i]
  BY <1>2 DEF CastsInto
<1>6. Top = stack[k]
  BY <1>3, TopIs DEF IInv, VarsInv
<1>7. PICK p : p = stack[k].kid
  OBVIOUS
<1>8. p \in Nat /\ p > 0 /\ NKids(s) \in Nat /\ p <= NKids(s)
  <2>1. p \in Nat /\ NKids(s) \in Nat
    BY <1>3, <1>7, RunsIn
  <2> QED BY <1>3, <1>7, <2>1
<1>9. \A i \in 1 .. k : CountOK(i)
  <2>1. ~Doomed
    BY <1>3 DEF Doomed
  <2> QED BY <1>3, <2>1 DEF CountInv
<1>10. \A i \in 1 .. k : rn'[stack[i].at] = rn[stack[i].at]
  BY <1>2, <1>4, CastFilled DEF FillInv
<1>11. Stands(k)
  <2>1. k \in 0 .. Depth
    BY <1>3
  <2>2. \A j \in 1 .. k : /\ stack'[j].at = stack[j].at /\ stack'[j].blk = stack[j].blk
                          /\ rn'[stack[j].at] = rn[stack[j].at]
    BY <1>5, <1>10
  <2>3. FilledInv
    BY DEF FillInv
  <2> QED BY <1>3, <1>4, <2>1, <2>2, <2>3, StandsThen
<1>12. \A i \in 1 .. (k - 1) : CountOK(i)'
  <2>1. Stands(k - 1)
    BY <1>3, <1>11 DEF Stands
  <2>2. \A i \in 1 .. (k - 1) : CountOK(i) /\ stack'[i].kid = stack[i].kid
    BY <1>3, <1>5, <1>9
  <2>3. \A i \in 1 .. (k - 1) : Reached(i)' = Reached(i)
    <3>1. TAKE i \in 1 .. (k - 1)
    <3>2. i < Depth /\ i < k + 1 /\ i + 1 \in 1 .. k
      BY <1>3
    <3>3. stack'[i + 1] = stack[i + 1]
      BY <1>5, <3>2
    <3> QED BY <1>3, <1>4, <3>2, <3>3 DEF Reached
  <2>4. k - 1 < Depth /\ k - 1 < k + 1 /\ k + 1 \in Nat
    BY <1>3
  <2> QED BY <1>3, <1>4, <2>1, <2>2, <2>3, <2>4, LowersCount
<1>13. CountOK(k)'
  <2>1. /\ Fin(k) = p - 1 /\ Done(k) = p - 1 /\ Fin(k)' = p - 1 /\ Done(k)' = p
    <3>1. stack'[k].kid = p /\ k < k + 1
      BY <1>3, <1>5, <1>7
    <3> QED BY <1>3, <1>4, <1>7, <3>1 DEF Fin, Done
  <2>2. AccountOK(k) /\ GivenOK(k) /\ JobsOK(k)
    BY <1>3, <1>7, <1>8, <1>9 DEF CountOK
  <2>3. k \in 1 .. k /\ p - 1 \in Nat /\ p = (p - 1) + 1
    BY <1>3, <1>8
  <2>4. GivenOK(k)'
    <3>1. rn[s].rtype = "ATTRIBUTES" /\ Up(k) \in {"PARTNAME", "NODENAME"} =>
             p - 1 > 0 \/ Up(k) \notin in.badattr
      <4>1. p = 1 \/ p - 1 > 0
        BY <1>8
      <4>2. Casting /\ More /\ ~CollectFails
        BY DEF CastChild
      <4>3. s = Top.at /\ p = Top.kid
        BY <1>3, <1>6, <1>7
      <4> QED BY <1>3, <4>1, <4>2, <4>3, FirstRead
    <3> QED BY <1>3, <1>11, <2>1, <2>2, <2>3, <3>1, GivenCount
  <2>5. JobsOK(k)'
    <3>1. rn[s].rtype = "JOBS" =>
             rn'[x].nm = IF p \in Twins(in.job.recs) THEN NoName ELSE in.job.recs[p]
      <4>1. ASSUME rn[s].rtype = "JOBS"
            PROVE  p \notin Twins(in.job.recs) /\ c.nm = in.job.recs[p]
        <5>1. p \notin Twins(in.job.recs)
          BY <1>2, <1>3, <1>4, <1>7, <1>9, <4>1, TwinIs
        <5>2. Casts("JOBS", Up(k), NKids(s), Children(s))
          BY <1>3, <4>1, RunsIn
        <5> QED BY <1>3, <1>7, <5>1, <5>2 DEF Casts
      <4> QED BY <1>4, <4>1
    <3>2. x = Pos(stack[k], (p - 1) + 1)
      BY <1>3, <1>7, <2>3
    <3> QED BY <1>3, <1>11, <2>1, <2>2, <2>3, <3>1, <3>2, JobsCount
  <2>6. AccountOK(k)'
    <3>1. Reached(k)' = Reached(k)
      <4>1. stack'[k + 1].kid = 0 /\ ~(k < Depth)
        BY <1>3, <1>4 DEF Frame
      <4> QED BY <1>3, <4>1 DEF Reached
    <3>2. Counted(k)' => Counted(k)
      <4>1. /\ (rn[stack[k].at].rtype)' = rn[s].rtype /\ Up(k)' = Up(k)
            /\ \A a, b : Sized(a, b)' = Sized(a, b)
        BY <1>3, <1>11, <2>3, StandsSame
      <4>2. (Sized(rn[stack[k].at].rtype, Up(k)))' = Sized(rn[s].rtype, Up(k))
        BY <4>1
      <4>3. (stack[k].kid)' = stack[k].kid
        BY <1>5, <2>3
      <4> QED BY <1>3, <4>1, <4>2, <4>3 DEF Counted
    <3>3. Counted(k) => Reached(k) = stack[k].blk + NKids(s) + 1 + Spent(rn[s].rtype, Up(k), p - 1)
      BY <1>3, <2>1, <2>2 DEF AccountOK
    <3> QED BY <1>3, <1>11, <2>1, <2>3, <3>1, <3>2, <3>3, AccountCount
  <2>7. JobLostOK(k)'
    <3>1. k # k + 1
      BY <1>3
    <3> QED BY <1>4, <3>1 DEF JobLostOK
  <2> QED BY <2>4, <2>5, <2>6, <2>7 DEF CountOK
<1>14. CountOK(k + 1)'
  <2>1. \A i : i = k + 1 => ~(stack'[i].kid > 0)
    BY <1>4 DEF Frame
  <2>2. \A i : i = k + 1 => CountOK(i)'
    BY <2>1 DEF CountOK
  <2> QED BY <2>2
<1>15. \A i \in 1 .. (k + 1) : CountOK(i)'
  <2>1. \A i \in 1 .. (k + 1) : i \in 1 .. (k - 1) \/ i = k \/ i = k + 1
    BY <1>3
  <2> QED BY <1>12, <1>13, <1>14, <2>1
<1>16. stack'[1].blk = BaseAlloc + 1
  <2>1. 1 \in 1 .. k
    BY <1>3
  <2> QED BY <1>3, <1>5, <2>1 DEF CountInv, FirstBlock
<1> QED BY <1>3, <1>4, <1>15, <1>16, CountThen DEF Building

\* What the jobs dealt with have lost, and taken.
LEMMA JobsSums ==
  ASSUME in \in Inputs, NEW n, n = Len(in.job.recs)
  PROVE  /\ n \in Nat /\ Lost(0) = 0 /\ Lost(n) = Survivable(in)
         /\ \A j \in 0 .. n : Lost(j) \in Nat /\ \A up : Spent("JOBS", up, j) \in Int
         /\ \A j \in 1 .. n :
               Lost(j) = Lost(j - 1) + IF j \in Twins(in.job.recs) \/ in.step.state # "array"
                                       THEN 1 ELSE 0
<1>1. IsReply(in.job)
  BY InputsAssumption
<1>2. /\ n \in Nat
      /\ \A j \in 0 .. n : Cardinality(TwinsTo(j)) \in 0 .. j
      /\ Cardinality(TwinsTo(0)) = 0 /\ TwinsTo(n) = Twins(in.job.recs)
      /\ \A j \in 1 .. n :
            Cardinality(TwinsTo(j)) =
               Cardinality(TwinsTo(j - 1)) + IF j \in Twins(in.job.recs) THEN 1 ELSE 0
  BY <1>1, TwinsCounted
<1>3. Lost(0) = 0
  BY <1>2 DEF Lost
<1>4. Lost(n) = Survivable(in)
  BY <1>2 DEF Lost, Survivable
<1>5. ASSUME NEW j \in 0 .. n
      PROVE  Lost(j) \in Nat /\ \A up : Spent("JOBS", up, j) \in Int
  <2>1. PICK a : a = Cardinality(TwinsTo(j))
    OBVIOUS
  <2>2. a \in 0 .. j
    BY <1>2, <2>1
  <2>3. Lost(j) \in Nat
    BY <1>2, <2>1, <2>2 DEF Lost
  <2>4. \A up : Spent("JOBS", up, j) = (j - a) * 4
    BY <2>1 DEF Spent, Block
  <2> QED BY <1>2, <2>2, <2>3, <2>4
<1>6. ASSUME NEW j \in 1 .. n
      PROVE  Lost(j) = Lost(j - 1) + IF j \in Twins(in.job.recs) \/ in.step.state # "array"
                                     THEN 1 ELSE 0
  <2>1. PICK a, b : a = Cardinality(TwinsTo(j)) /\ b = Cardinality(TwinsTo(j - 1))
    OBVIOUS
  <2>2. j - 1 \in 0 .. n
    BY <1>2
  <2>3. b \in 0 .. (j - 1)
    BY <1>2, <2>1, <2>2
  <2>4. a = b + IF j \in Twins(in.job.recs) THEN 1 ELSE 0
    BY <1>2, <2>1
  <2>5. /\ Lost(j) = a + IF in.step.state = "array" THEN 0 ELSE j - a
        /\ Lost(j - 1) = b + IF in.step.state = "array" THEN 0 ELSE j - 1 - b
    BY <2>1 DEF Lost
  <2> QED BY <1>2, <2>3, <2>4, <2>5
<1> QED BY <1>2, <1>3, <1>4, <1>5, <1>6

\* rn_cast() finds a twin.
LEMMA MissCount ==
  ASSUME IInv, TreeInv, FillInv, CountInv, CastTwin, ~Exit
  PROVE  CountInv'
<1>0. PICK k \in Nat : \E s, x, c : Misses(k, s, x, c)
  BY MissIs
<1>1. PICK s, x, c : Misses(k, s, x, c)
  BY <1>0
<1>2. CastsInto(k, s, x, c)
  BY <1>1 DEF Misses
<1>3. /\ k = Depth /\ k \in 1 .. Depth /\ Building /\ ret = Pending /\ s = stack[k].at
      /\ stack[k].kid \in 1 .. NKids(s) /\ c = Children(s)[stack[k].kid]
      /\ x \in Slots /\ x = Pos(stack[k], stack[k].kid) /\ rn[x].gen = 0 /\ Grows(x)
      /\ rn[x].nm = NoName /\ MayHold(rn[s].rtype, c.rtype)
      /\ rn[s].rtype # "ALLOCJOB" => s \in Dirs /\ x \in Kids(s)
      /\ in' = in /\ nxt_avail' = nxt_avail /\ stack # <<>>
  BY <1>2 DEF CastsInto
<1>4. /\ Twin(s, c.nm) /\ rn'[x].nm = NoName /\ Depth' = k /\ ret' = NULL
      /\ ~caught_in_a_loop /\ ~in.debug /\ caught_in_a_loop' /\ status' = status
  BY <1>1, <1>2 DEF Misses, CastsInto
<1>5. \A i \in 1 .. k : stack'[i] = stack[i]
  BY <1>2 DEF CastsInto
<1>6. PICK p : p = stack[k].kid
  OBVIOUS
<1>7. p \in Nat /\ p > 0 /\ NKids(s) \in Nat /\ p <= NKids(s)
  <2>1. p \in Nat /\ NKids(s) \in Nat
    BY <1>3, <1>6, RunsIn
  <2> QED BY <1>3, <1>6, <2>1
<1>8. \A i \in 1 .. k : CountOK(i)
  <2>1. ~Doomed
    BY <1>3 DEF Doomed
  <2> QED BY <1>3, <2>1 DEF CountInv
<1>9. \A i \in 1 .. k : rn'[stack[i].at] = rn[stack[i].at]
  BY <1>2, <1>4, CastFilled DEF FillInv
<1>10. Stands(k)
  <2>1. k \in 0 .. Depth
    BY <1>3
  <2>2. \A j \in 1 .. k : /\ stack'[j].at = stack[j].at /\ stack'[j].blk = stack[j].blk
                          /\ rn'[stack[j].at] = rn[stack[j].at]
    BY <1>5, <1>9
  <2>3. FilledInv
    BY DEF FillInv
  <2> QED BY <1>3, <1>4, <2>1, <2>2, <2>3, StandsThen
<1>11. \A i \in 1 .. (k - 1) : CountOK(i)'
  <2>1. Stands(k - 1)
    BY <1>3, <1>10 DEF Stands
  <2>2. \A i \in 1 .. (k - 1) : CountOK(i) /\ stack'[i].kid = stack[i].kid
    BY <1>3, <1>5, <1>8
  <2>3. \A i \in 1 .. (k - 1) : Reached(i)' = Reached(i)
    <3>1. TAKE i \in 1 .. (k - 1)
    <3>2. i < Depth /\ i + 1 \in 1 .. k
      BY <1>3
    <3>3. stack'[i + 1] = stack[i + 1]
      BY <1>5, <3>2
    <3> QED BY <1>3, <1>4, <3>2, <3>3 DEF Reached
  <2>4. k - 1 < Depth /\ k - 1 < k /\ k \in Nat
    BY <1>3
  <2> QED BY <1>3, <1>4, <2>1, <2>2, <2>3, <2>4, LowersCount
<1>12. /\ Fin(k) = p - 1 /\ Done(k) = p - 1 /\ Fin(k)' = p /\ Done(k)' = p
       /\ Reached(k) = nxt_avail /\ Reached(k)' = nxt_avail
  <2>1. stack'[k].kid = p /\ ~(k < Depth)
    BY <1>3, <1>5, <1>6
  <2>2. Fin(k) = p - 1 /\ Done(k) = p - 1 /\ Fin(k)' = p /\ Done(k)' = p
    BY <1>3, <1>4, <1>6, <2>1 DEF Fin, Done
  <2> QED BY <1>3, <1>4, <2>1, <2>2 DEF Reached
<1>13. AccountOK(k) /\ GivenOK(k) /\ JobsOK(k)
  BY <1>3, <1>6, <1>7, <1>8 DEF CountOK
<1>14. k \in 1 .. k /\ p - 1 \in Nat /\ p = (p - 1) + 1
  BY <1>3, <1>7
<1>15. /\ (rn[stack[k].at].rtype)' = rn[s].rtype /\ (stack[k].kid)' = p
       /\ (Sized(rn[stack[k].at].rtype, Up(k)))' = Sized(rn[s].rtype, Up(k))
  <2>1. /\ (rn[stack[k].at].rtype)' = rn[s].rtype /\ Up(k)' = Up(k)
        /\ \A a, b : Sized(a, b)' = Sized(a, b)
    BY <1>3, <1>10, <1>14, StandsSame
  <2>2. (Sized(rn[stack[k].at].rtype, Up(k)))' = Sized(rn[s].rtype, Up(k))
    BY <2>1
  <2>3. (stack[k].kid)' = p
    BY <1>5, <1>6, <1>14
  <2> QED BY <2>1, <2>2, <2>3
<1>16. GivenOK(k)' \/ rn[s].rtype \notin {"JOBS", "JOBID"}
  <2>1. rn[s].rtype \in {"JOBS", "JOBID"} => Given(c.rtype, rn[s].rtype)
    BY <1>3 DEF MayHold, Given
  <2> QED BY <1>3, <1>6, <1>10, <1>12, <1>13, <1>14, <2>1, GivenCount
<1>17. ASSUME rn[s].rtype = "JOBID"
       PROVE  CountOK(k)'
  <2>1. p # 1
    <3>1. ASSUME p = 1
          PROVE  FALSE
      <4>1. x = stack[k].blk /\ stack[k].kid > 0
        <5>1. stack[k].blk \in Nat
          BY <1>3, RunsIn
        <5>2. x = stack[k].blk + (1 - 1)
          BY <1>3, <1>6, <1>17, <3>1 DEF Pos
        <5> QED BY <1>6, <1>7, <5>1, <5>2
      <4>2. rn[s].children = x
        BY <1>3, <1>17, <4>1 DEF IInv, BlockInv, BlockOK
      <4>3. \E t \in DOMAIN rn : t >= x /\ \A u \in x .. t : rn[u].nm # NoName
        BY <1>4, <4>2 DEF Twin
      <4>4. PICK t \in DOMAIN rn : t >= x /\ \A u \in x .. t : rn[u].nm # NoName
        BY <4>3
      <4>5. t \in Int /\ x \in Int
        BY <1>3, BaseAllocAssumption DEF IInv, PoolInv, Slots
      <4>6. x \in x .. t
        BY <4>4, <4>5
      <4> QED BY <1>3, <4>4, <4>6
    <3> QED BY <3>1
  <2>2. ~Counted(k)'
    <3>1. ~Sized("JOBID", Up(k))
      BY DEF Sized
    <3> QED BY <1>15, <1>17, <2>1, <3>1 DEF Counted
  <2>3. AccountOK(k)' /\ JobsOK(k)' /\ JobLostOK(k)'
    BY <1>15, <1>17, <2>1, <2>2 DEF AccountOK, JobsOK, JobLostOK
  <2> QED BY <1>16, <1>17, <2>3 DEF CountOK
<1>18. ASSUME rn[s].rtype = "JOBS"
       PROVE  CountOK(k)'
  <2>1. p \in Twins(in.job.recs)
    BY <1>2, <1>3, <1>4, <1>6, <1>8, <1>18, TwinIs
  <2>2. /\ in \in Inputs /\ NKids(s) = Len(in.job.recs) /\ p \in 1 .. Len(in.job.recs)
        /\ Casts("JOBS", Up(k), NKids(s), Children(s))
    <3>1. Casts("JOBS", Up(k), NKids(s), Children(s)) /\ in \in Inputs
      BY <1>3, <1>18, RunsIn
    <3> QED BY <1>3, <1>6, <3>1 DEF Casts
  <2>3. p - 1 > 0
    <3>1. IsReply(in.job) /\ Len(in.job.recs) \in Nat /\ DOMAIN in.job.recs = 1 .. Len(in.job.recs)
      BY <2>2, InputsAssumption DEF IsReply
    <3>2. \E q \in 1 .. (p - 1) : in.job.recs[q] = in.job.recs[p]
      BY <2>1, <2>2, <3>1, TwinsAre
    <3> QED BY <1>7, <3>2
  <2>4. in.step.recs = <<>> /\ Lost(p - 1) = 0
    <3>1. Lost(p - 1) <= 1 /\ Lost(p - 1) # 1 /\ in.step.recs = <<>>
      BY <1>3, <1>4, <1>12, <1>13, <1>18, <2>3 DEF JobsOK
    <3>2. p - 1 \in 0 .. Len(in.job.recs)
      BY <1>7, <2>2
    <3>3. Lost(p - 1) \in Nat
      BY <2>2, <3>2, JobsSums
    <3> QED BY <3>1, <3>3
  <2>5. Lost(p) = 1
    <3>1. Lost(p) = Lost(p - 1) + 1
      BY <2>1, <2>2, JobsSums
    <3> QED BY <2>4, <3>1
  <2>6. JobsOK(k)'
    <3>1. x = Pos(stack[k], (p - 1) + 1)
      BY <1>3, <1>6, <1>14
    <3>2. Lost(p) <= 1
      BY <2>5
    <3> QED BY <1>3, <1>4, <1>10, <1>12, <1>13, <1>14, <1>18, <2>1, <2>4, <2>5, <3>1, <3>2, JobsCount
  <2>7. AccountOK(k)'
    <3>1. PICK a, b, n, u : a = Spent("JOBS", Up(k), p - 1) /\ b = stack[k].blk /\ n = NKids(s) /\ u = Up(k)
      OBVIOUS
    <3>2. nxt_avail = b + n + 1 + a
      BY <1>3, <1>12, <1>13, <1>18, <3>1 DEF AccountOK, Counted, Sized
    <3>3. Spent("JOBS", u, p) = a
      <4>1. p - 1 \in 0 .. Len(in.job.recs)
        BY <1>7, <2>2
      <4>2. a \in Int
        BY <2>2, <3>1, <4>1, JobsSums
      <4>3. Spent("JOBS", u, p) = a + 0
        <5>1. Sized("JOBS", u) /\ n \in Nat /\ p \in 1 .. n /\ Casts("JOBS", u, n, Children(s))
          BY <1>7, <2>2, <3>1 DEF Sized
        <5> QED BY <2>1, <2>2, <3>1, <5>1, StepCost
      <4> QED BY <4>2, <4>3
    <3>4. Reached(k)' = stack[k].blk + NKids(s) + 1 + Spent(rn[s].rtype, Up(k), p)
      BY <1>12, <1>18, <3>1, <3>2, <3>3
    <3> QED BY <1>3, <1>10, <1>12, <1>14, <3>4, AccountCount
  <2>8. JobLostOK(k)'
    BY <1>15, <1>18 DEF JobLostOK
  <2> QED BY <1>16, <1>18, <2>6, <2>7, <2>8 DEF CountOK
<1>19. (Building /\ ~Doomed)' => \A i \in 1 .. k : CountOK(i)'
  <2>1. ASSUME (Building /\ ~Doomed)'
        PROVE  rn[s].rtype \in {"JOBS", "JOBID"}
    <3>1. Top' = stack[k] /\ stack' # <<>>
      <4>1. Len(stack') = k
        BY <1>4 DEF Depth
      <4>2. Top' = stack'[k]
        BY <4>1 DEF Top
      <4>3. k # 0
        BY <1>3
      <4>4. Len(<<>>) = 0
        OBVIOUS
      <4> QED BY <1>5, <1>14, <4>1, <4>2, <4>3, <4>4
    <3>2. (rn[Top.at].rtype)' = rn[s].rtype
      BY <1>3, <1>9, <1>14, <3>1
    <3> QED BY <1>4, <2>1, <3>1, <3>2 DEF Doomed
  <2>2. \A i \in 1 .. k : i \in 1 .. (k - 1) \/ i = k
    BY <1>3
  <2> QED BY <1>11, <1>17, <1>18, <2>1, <2>2
<1>20. stack'[1].blk = BaseAlloc + 1
  <2>1. 1 \in 1 .. k
    BY <1>3
  <2> QED BY <1>3, <1>5, <2>1 DEF CountInv, FirstBlock
<1> QED BY <1>3, <1>4, <1>19, <1>20, CountThen DEF Building

\* A builder has returned: those below it stand, and the pool is where it was.
LEMMA PopStands ==
  ASSUME IInv, FillInv, NEW k, NEW s, NEW x, GivesBack(k, s, x),
         caught_in_a_loop => caught_in_a_loop', x \in Slots => rn'[x].nm = rn[x].nm
  PROVE  /\ k \in Nat /\ k > 1 /\ k = Depth /\ k - 1 \in 1 .. Depth /\ k - 1 < Depth /\ Depth' = k - 1
         /\ Building' /\ Stands(k - 1)
         /\ \A i \in 1 .. (k - 1) : stack'[i] = stack[i] /\ rn'[stack[i].at] = rn[stack[i].at]
         /\ \A i \in 1 .. (k - 2) : Reached(i)' = Reached(i)
         /\ Reached(k - 1)' = nxt_avail /\ in' = in
         /\ \A j : j = k - 1 => Top' = stack[j] /\ stack' # <<>>
<1>1. /\ k \in Nat /\ k = Depth /\ k > 1 /\ Building /\ Grows(x) /\ Depth' = k - 1
      /\ \A i \in 1 .. (k - 1) : stack'[i] = stack[i] /\ rn'[stack[i].at] = rn[stack[i].at]
      /\ UNCHANGED <<in, nxt_avail, status>>
  BY DEF GivesBack
<1>2. k - 1 \in 1 .. Depth /\ k - 1 \in 0 .. Depth /\ k - 1 < Depth
  BY <1>1
<1>3. Stands(k - 1)
  <2>1. \A j \in 1 .. (k - 1) : /\ stack'[j].at = stack[j].at /\ stack'[j].blk = stack[j].blk
                                /\ rn'[stack[j].at] = rn[stack[j].at]
    BY <1>1
  <2>2. FilledInv
    BY DEF FillInv
  <2> QED BY <1>1, <1>2, <2>1, <2>2, StandsThen
<1>4. ASSUME NEW i \in 1 .. (k - 2)
      PROVE  Reached(i)' = Reached(i)
  <2>1. i < Depth /\ i < k - 1 /\ i + 1 \in 1 .. (k - 1)
    BY <1>1
  <2>2. stack'[i + 1] = stack[i + 1]
    BY <1>1, <2>1
  <2> QED BY <1>1, <2>1, <2>2 DEF Reached
<1>5. Reached(k - 1)' = nxt_avail
  <2>1. ~(k - 1 < k - 1)
    BY <1>1
  <2> QED BY <1>1, <2>1 DEF Reached
<1>6. ASSUME NEW j, j = k - 1
      PROVE  Top' = stack[j] /\ stack' # <<>>
  <2>1. Len(stack') = j /\ j \in 1 .. (k - 1) /\ j # 0
    BY <1>1, <1>6 DEF Depth
  <2>2. Top' = stack'[j]
    BY <2>1 DEF Top
  <2>3. Len(<<>>) = 0
    OBVIOUS
  <2> QED BY <1>1, <2>1, <2>2, <2>3
<1> QED BY <1>1, <1>2, <1>3, <1>4, <1>5, <1>6 DEF Building

\* So the builder that waited for it is all that there is to say.
LEMMA PopCount ==
  ASSUME IInv, FillInv, CountInv, NEW k, NEW s, NEW x, GivesBack(k, s, x),
         caught_in_a_loop => caught_in_a_loop', x \in Slots => rn'[x].nm = rn[x].nm,
         caught_in_a_loop' => caught_in_a_loop \/ ~in.debug, NEW g, g = k - 1,
         ~Doomed' => ~Doomed /\ CountOK(g)'
  PROVE  CountInv'
<1>1. /\ k \in Nat /\ k > 1 /\ k = Depth /\ k - 1 \in 1 .. Depth /\ k - 1 < Depth /\ Depth' = k - 1
      /\ Building' /\ Stands(k - 1)
      /\ \A i \in 1 .. (k - 1) : stack'[i] = stack[i] /\ rn'[stack[i].at] = rn[stack[i].at]
      /\ \A i \in 1 .. (k - 2) : Reached(i)' = Reached(i)
      /\ in' = in
  BY PopStands
<1>2. Building
  BY DEF GivesBack
<1>3. ASSUME ~Doomed'
      PROVE  \A i \in 1 .. (k - 1) : CountOK(i)'
  <2>1. \A i \in 1 .. Depth : CountOK(i)
    BY <1>2, <1>3 DEF CountInv
  <2>2. \A i \in 1 .. (k - 2) : CountOK(i)'
    <3>1. Stands(k - 2)
      BY <1>1 DEF Stands
    <3>2. \A i \in 1 .. (k - 2) : CountOK(i) /\ stack'[i].kid = stack[i].kid
      BY <1>1, <2>1
    <3>3. k - 2 < Depth /\ k - 2 < k - 1 /\ k - 1 \in Nat
      BY <1>1
    <3> QED BY <1>1, <1>2, <3>1, <3>2, <3>3, LowersCount
  <2>3. \A i \in 1 .. (k - 1) : i \in 1 .. (k - 2) \/ i = g
    BY <1>1
  <2> QED BY <1>3, <2>2, <2>3
<1>4. stack'[1].blk = BaseAlloc + 1
  <2>1. 1 \in 1 .. (k - 1)
    BY <1>1
  <2>2. stack # <<>>
    BY DEF GivesBack
  <2> QED BY <1>1, <2>1, <2>2 DEF CountInv, FirstBlock
<1>5. status' # "mounted"
  BY <1>1 DEF Building
<1> QED BY <1>1, <1>3, <1>4, <1>5, CountThen

\* A step that ends the process, or none.
LEMMA EndCount ==
  ASSUME CountInv, UNCHANGED <<in, rn, nxt_avail, stack, ret, caught_in_a_loop>>,
         status' = status \/ status' = "exited"
  PROVE  CountInv'
<1>1. CaughtInv' /\ FirstBlock'
  BY DEF CountInv, CaughtInv, FirstBlock
<1>2. CASE status' = "exited"
  BY <1>1, <1>2 DEF CountInv, Building
<1>3. CASE status' = status
  <2>1. ASSUME Building' /\ ~Doomed', NEW k \in 1 .. Depth
        PROVE  CountOK(k)'
    <3>1. Building /\ ~Doomed
      BY <1>3, <2>1 DEF Building, Doomed, Top
    <3>2. CountOK(k)
      BY <3>1 DEF CountInv
    <3>3. Fin(k)' = Fin(k) /\ Done(k)' = Done(k) /\ Fin(k - 1)' = Fin(k - 1) /\ Up(k)' = Up(k)
          /\ Reached(k)' = Reached(k) /\ Depth' = Depth
      BY DEF Fin, Done, Up, Reached, Depth
    <3>4. \A s : Children(s)' = Children(s) /\ NKids(s)' = NKids(s)
      BY SMT DEF NKids, Children, Row, RootChildren, ClusterChildren, PartsChildren, PartChildren,
           NodesChildren, NodeChildren, StateChildren, JobsChildren, JobChildren, JobRecord,
           StepsChildren, StepChildren, AttrChildren, CtlChildren, OfRecords
    <3>5. /\ \A t, u : Sized(t, u)' = Sized(t, u) /\ Given(t, u)' = Given(t, u)
          /\ \A t, u, j : Spent(t, u, j)' = Spent(t, u, j)
          /\ \A j : Lost(j)' = Lost(j)
      <4>1. \A t, u : Sized(t, u)' = Sized(t, u)
        BY DEF Sized
      <4>2. \A t, u : Given(t, u)' = Given(t, u)
        BY DEF Given, PartsGiven, PartGiven, NodesGiven, NodeGiven, JobsGiven, Survivable
      <4>3. \A t, u, j : Spent(t, u, j)' = Spent(t, u, j)
        BY DEF Spent, AttrsNeed, CtlsNeed, ClusterNeed, PartsNeed, JobsNeed, NodesNeed, TwinsTo
      <4>4. \A j : Lost(j)' = Lost(j)
        BY DEF Lost, TwinsTo
      <4> QED BY <4>1, <4>2, <4>3, <4>4
    <3> QED BY <3>2, <3>3, <3>4, <3>5
            DEF CountOK, AccountOK, Counted, GivenOK, JobsOK, JobLostOK, Named, Pos
  <2>2. Depth' = Depth
    BY DEF Depth
  <2>3. (status = "mounted" => Buildable /\ nxt_avail = BaseAlloc + Needs(in))'
    BY <1>3 DEF CountInv, Buildable, Survivable
  <2>4. (Building /\ ~Doomed => \A k \in 1 .. Depth : CountOK(k))'
    BY <2>1, <2>2
  <2> QED BY <1>1, <2>3, <2>4 DEF CountInv
<1> QED BY <1>2, <1>3

\* A leaf's builder returns.
LEMMA AttrCount ==
  ASSUME IInv, TreeInv, FillInv, CountInv, MkAttr
  PROVE  CountInv'
<1>1. PICK at, v : CastsAttr(at, v)
  BY AttrIs
<1>2. /\ at = Top.at /\ at \in Slots /\ Building /\ stack # <<>> /\ ret = Pending /\ Top.kid = 0
      /\ rn[at].rtype \in AttrTypes /\ rn[at].children = NULL
      /\ rn'[at] = v /\ v.rtype \in AttrTypes /\ v.gen = 2 /\ v.nm = rn[at].nm /\ v.children = NULL
      /\ \A s \in Slots : s # at => rn'[s] = rn[s]
      /\ UNCHANGED <<in, nxt_avail, caught_in_a_loop, p_fsroot, p_jobd>> /\ Slots' = Slots
  BY <1>1 DEF CastsAttr, AttrTypes, AttrSubtypes
<1>3. PICK k \in Nat : k = Depth /\ k \in 1 .. Depth /\ Top = stack[k] /\ k > 1 /\ at = stack[k].at
  BY <1>1, <1>2, TopIs DEF IInv, VarsInv, CastsAttr
<1>4. v.nm # NoName
  BY <1>2, <1>3 DEF FillInv, NamedInv, Named
<1>5. Grows(at)
  BY <1>2, <1>4 DEF Grows
<1>6. ~Doomed
  BY <1>2 DEF Doomed
<1>7. CASE v.rtype # "SIGNATURE"
  <2>1. stack' = Below /\ ret' = at /\ status' = status
    BY <1>1, <1>7 DEF CastsAttr
  <2>2. ret' # NULL /\ ret' # Pending /\ ret' > NULL
    BY <1>2, <2>1, BaseAllocAssumption DEF Slots
  <2>3. Below # <<>>
    BY <1>2, <1>3, TopIs DEF IInv, VarsInv
  <2>4. PICK l \in Nat : GivesBack(l, at, at)
    BY <1>2, <1>4, <1>5, <2>1, <2>2, <2>3, GiveIs
  <2>5. l = k
    BY <1>3, <2>4 DEF GivesBack
  <2>6. PICK g : g = k - 1
    OBVIOUS
  <2>7. /\ g \in 1 .. Depth /\ g < Depth /\ Depth' = g /\ Stands(g)
        /\ stack'[g].kid = stack[g].kid /\ Reached(g)' = nxt_avail
    <3>1. g \in 1 .. (k - 1)
      BY <1>3, <2>6
    <3> QED BY <1>2, <2>4, <2>5, <2>6, <3>1, PopStands
  <2>8. PICK c, t : c = rn[at].rtype /\ t = stack[g].at
    OBVIOUS
  <2>9. MayHold(rn[t].rtype, c) /\ c = Children(t)[stack[g].kid].rtype
    <3>1. FrameOK(k) /\ k > 1
      BY <1>3 DEF IInv, FrameInv
    <3> QED BY <1>3, <2>6, <2>8, <3>1 DEF FrameOK
  <2>10. rn[t].rtype # "JOBS"
    BY <1>2, <2>8, <2>9 DEF MayHold, AttrTypes, AttrSubtypes
  <2>11. Given(c, rn[t].rtype) /\ Cost(c, rn[t].rtype) = 0
    BY <1>2, <2>8, LeavesFree
  <2>12. Reached(g)' = Reached(g) + Cost(c, rn[t].rtype)
    <3>1. g + 1 = k
      BY <2>6, <1>3
    <3>2. Reached(g) = nxt_avail
      BY <1>2, <1>3, <2>7, <3>1 DEF Reached
    <3>3. nxt_avail \in Nat
      BY DEF IInv, PoolInv
    <3> QED BY <2>7, <2>11, <3>2, <3>3
  <2>13. CountOK(g)
    BY <1>2, <1>6, <2>7 DEF CountInv
  <2>14. CountOK(g)'
    BY <1>2, <2>2, <2>7, <2>8, <2>9, <2>10, <2>11, <2>12, <2>13, BuiltCount
  <2> QED BY <1>2, <1>6, <2>4, <2>5, <2>6, <2>14, PopCount
<1>8. CASE v.rtype = "SIGNATURE"
  <2>1. stack' = stack /\ status' \in {"exited", "crashed"}
    BY <1>1, <1>8 DEF CastsAttr
  <2> QED BY <1>2, <2>1, CountThen DEF Building, CountInv, FirstBlock
<1> QED BY <1>7, <1>8

\* A builder goes on to its next child.
LEMMA AdvanceCount ==
  ASSUME IInv, TreeInv, FillInv, CountInv, stack # <<>>, Building, ret # Pending, NEW nx \in Nat,
         SetTop(Advanced(Top, nx)), ret' = Pending,
         UNCHANGED <<in, rn, nxt_avail, caught_in_a_loop, p_jobd, status>>,
         ret > NULL \/ (ret = NULL /\ rn[Top.at].rtype = "JOBS")
  PROVE  CountInv'
<1>1. PICK k \in Nat : k = Depth /\ k \in 1 .. Depth /\ Top = stack[k] /\ k >= 1 /\ Top \in Frames
  BY TopIs DEF IInv, VarsInv
<1>2. PICK f \in Frames : f = Advanced(Top, nx) /\ f.at = Top.at /\ f.blk = Top.blk /\ f.kid = Top.kid + 1
  BY <1>1, FrameStep
<1>3. SetTop(f)
  BY <1>2, Zenon
<1>4. Depth' = k /\ stack'[k] = f /\ \A j \in 1 .. (k - 1) : stack'[j] = stack[j]
  BY <1>1, <1>3, SetTopIs DEF IInv, VarsInv
<1>5. Grows(NULL)
  <2>1. Slots' = Slots /\ NULL \notin Slots
    BY BaseAllocAssumption DEF Slots
  <2> QED BY <2>1 DEF Grows
<1>6. Top.kid \in Nat /\ Top.kid > 0
  BY <1>1 DEF IInv, RetInv, Building, Frames
<1>7. \A i \in 1 .. k : CountOK(i)
  <2>1. ~Doomed
    BY DEF Doomed
  <2> QED BY <1>1, <2>1 DEF CountInv
<1>8. Stands(k)
  <2>1. k \in 0 .. Depth
    BY <1>1
  <2>2. \A j \in 1 .. k : stack'[j].at = stack[j].at /\ stack'[j].blk = stack[j].blk
                          /\ rn'[stack[j].at] = rn[stack[j].at]
    <3>1. \A j \in 1 .. k : j \in 1 .. (k - 1) \/ j = k
      OBVIOUS
    <3> QED BY <1>1, <1>2, <1>4, <3>1
  <2>3. FilledInv /\ NULL \notin Slots
    BY BaseAllocAssumption DEF FillInv, Slots
  <2> QED BY <1>5, <2>1, <2>2, <2>3, StandsThen
<1>9. \A i \in 1 .. (k - 1) : CountOK(i)'
  <2>1. Stands(k - 1)
    BY <1>1, <1>8 DEF Stands
  <2>2. \A i \in 1 .. (k - 1) : CountOK(i) /\ stack'[i].kid = stack[i].kid
    BY <1>1, <1>4, <1>7
  <2>3. \A i \in 1 .. (k - 1) : Reached(i)' = Reached(i)
    <3>1. TAKE i \in 1 .. (k - 1)
    <3>2. i < Depth /\ (i + 1 \in 1 .. (k - 1) \/ i + 1 = k)
      BY <1>1
    <3>3. stack'[i + 1].blk = stack[i + 1].blk /\ (stack'[i + 1].kid > 0 <=> stack[i + 1].kid > 0)
      <4>1. CASE i + 1 \in 1 .. (k - 1)
        BY <1>4, <4>1
      <4>2. CASE i + 1 = k
        BY <1>1, <1>2, <1>4, <1>6, <4>2
      <4> QED BY <3>2, <4>1, <4>2
    <3> QED BY <1>1, <1>4, <3>2, <3>3 DEF Reached
  <2>4. k - 1 < Depth /\ k - 1 < k
    BY <1>1
  <2> QED BY <1>1, <1>4, <2>1, <2>2, <2>3, <2>4, LowersCount
<1>10. PICK p, s : p = Top.kid /\ s = Top.at
  OBVIOUS
<1>11. /\ Fin(k) = p /\ Done(k) = p /\ Fin(k)' = p /\ Done(k)' = p
       /\ Reached(k) = nxt_avail /\ Reached(k)' = nxt_avail
  <2>1. stack'[k].kid = p + 1 /\ (p + 1) - 1 = p /\ ~(k < Depth)
    BY <1>1, <1>2, <1>4, <1>6, <1>10
  <2>2. Fin(k) = p /\ Done(k) = p /\ Fin(k)' = p /\ Done(k)' = p
    BY <1>1, <1>4, <1>10, <2>1 DEF Fin, Done
  <2> QED BY <1>1, <1>4, <2>1, <2>2 DEF Reached
<1>12. s = stack[k].at /\ p = stack[k].kid /\ p \in Nat /\ p > 0 /\ k \in 1 .. k
  BY <1>1, <1>6, <1>10
<1>13. AccountOK(k) /\ GivenOK(k) /\ JobsOK(k)
  BY <1>7, <1>12 DEF CountOK
<1>14. GivenOK(k)'
  BY <1>8, <1>11, <1>12, <1>13, GivenCount
<1>15. JobsOK(k)'
  BY <1>8, <1>11, <1>12, <1>13, JobsCount
<1>16. AccountOK(k)'
  <2>1. Counted(k)' => Sized(rn[s].rtype, Up(k))
    <3>1. /\ (rn[stack[k].at].rtype)' = rn[s].rtype /\ Up(k)' = Up(k)
          /\ \A a, b : Sized(a, b)' = Sized(a, b)
      BY <1>8, <1>12, StandsSame
    <3>2. (Sized(rn[stack[k].at].rtype, Up(k)))' = Sized(rn[s].rtype, Up(k))
      BY <3>1
    <3>3. stack'[k].kid # 1
      BY <1>2, <1>4, <1>6
    <3> QED BY <3>2, <3>3 DEF Counted
  <2>2. Sized(rn[s].rtype, Up(k)) =>
           Reached(k) = stack[k].blk + NKids(s) + 1 + Spent(rn[s].rtype, Up(k), p)
    BY <1>11, <1>12, <1>13 DEF AccountOK, Counted
  <2> QED BY <1>8, <1>11, <1>12, <2>1, <2>2, AccountCount
<1>17. JobLostOK(k)'
  BY DEF JobLostOK
<1>18. \A i \in 1 .. k : CountOK(i)'
  <2>1. CountOK(k)'
    BY <1>14, <1>15, <1>16, <1>17 DEF CountOK
  <2>2. \A i \in 1 .. k : i \in 1 .. (k - 1) \/ i = k
    OBVIOUS
  <2> QED BY <1>9, <2>1, <2>2
<1>19. stack'[1].blk = BaseAlloc + 1
  <2>1. 1 \in 1 .. k
    BY <1>1
  <2> QED BY <1>8, <2>1 DEF CountInv, FirstBlock, Stands
<1> QED BY <1>4, <1>18, <1>19, CountThen DEF Building

\* A builder returns NULL, and its caller is to see it.
LEMMA FailIs ==
  ASSUME IInv, NEW sev \in {"WARN", "ASSERT"}, Fail(sev), ~Exit, Building, stack # <<>>,
         NEW k, k = Depth, k \in 1 .. Depth, NEW s, s = stack[k].at
  PROVE  /\ GivesBack(k, s, NULL) /\ k > 1 /\ k \in Nat /\ ret' = NULL
         /\ caught_in_a_loop' = (caught_in_a_loop \/ sev = "ASSERT")
         /\ sev = "ASSERT" => ~caught_in_a_loop /\ ~in.debug
         /\ NULL \notin Slots /\ UNCHANGED <<in, rn, nxt_avail>>
         /\ \A g : g = k - 1 => (Doomed' <=> rn[stack[g].at].rtype \notin {"JOBS", "JOBID"})
<1>1. /\ Below # <<>> /\ Catch(sev) /\ stack' = Below /\ ret' = NULL /\ Returns(sev)
      /\ UNCHANGED <<in, rn, nxt_avail, p_fsroot, p_jobd, status>>
  BY DEF Fail, pool, roots
<1>2. Top.at = s /\ NULL \notin Slots
  BY TopIs, BaseAllocAssumption DEF IInv, VarsInv, Slots
<1>3. Grows(NULL)
  <2>1. Slots' = Slots
    BY <1>1 DEF Slots
  <2> QED BY <1>1, <1>2, <2>1 DEF Grows
<1>4. PICK l \in Nat : GivesBack(l, s, NULL)
  BY <1>1, <1>2, <1>3, GiveIs
<1>5. l = k /\ k > 1 /\ stack' = Below /\ Depth' = k - 1 /\ stack'[k - 1] = stack[k - 1]
  BY <1>4 DEF GivesBack
<1>6. ASSUME NEW g, g = k - 1
      PROVE  Doomed' <=> rn[stack[g].at].rtype \notin {"JOBS", "JOBID"}
  <2>1. Len(stack') = g /\ g # 0 /\ Len(<<>>) = 0
    BY <1>5, <1>6 DEF Depth
  <2>2. Top' = stack[g] /\ stack' # <<>>
    BY <1>5, <1>6, <2>1 DEF Top
  <2> QED BY <1>1, <2>2 DEF Doomed, Building
<1>7. /\ caught_in_a_loop' = (caught_in_a_loop \/ sev = "ASSERT")
      /\ sev = "ASSERT" => ~caught_in_a_loop /\ ~in.debug
  BY <1>1 DEF Catch, Returns
<1> QED BY <1>1, <1>2, <1>4, <1>5, <1>6, <1>7

\* Only the builders of jobs are not lost to it.
LEMMA FailCount ==
  ASSUME IInv, FillInv, CountInv, NEW sev \in {"WARN", "ASSERT"}, Fail(sev), ~Exit, Building, stack # <<>>,
         NEW k, k = Depth, k \in 1 .. Depth, NEW s, s = stack[k].at, NEW g, g = k - 1,
         rn[stack[g].at].rtype \in {"JOBS", "JOBID"} => ~Doomed /\ CountOK(g)'
  PROVE  CountInv'
<1>1. /\ GivesBack(k, s, NULL) /\ NULL \notin Slots
      /\ caught_in_a_loop' = (caught_in_a_loop \/ sev = "ASSERT")
      /\ sev = "ASSERT" => ~caught_in_a_loop /\ ~in.debug
      /\ Doomed' <=> rn[stack[g].at].rtype \notin {"JOBS", "JOBID"}
  BY FailIs
<1>2. caught_in_a_loop => caught_in_a_loop'
  BY <1>1
<1>3. caught_in_a_loop' => caught_in_a_loop \/ ~in.debug
  BY <1>1
<1> QED BY <1>1, <1>2, <1>3, PopCount

\* What the reply for the steps of a job says when it is refused.
LEMMA StepsRefused ==
  ASSUME in \in Inputs, NEW s, rn[s].rtype = "JOBSTEPS", Check(s) # "OK"
  PROVE  in.step.recs = <<>> /\ (in.step.state # "array" => Check(s) = "ASSERT")
<1>1. Check(s) = StepsCheck[Kind(in.step)]
  <2>1. Row(rn[s].rtype) = "JOBSTEPS"
    <3>1. "JOBSTEPS" \in BuiltTypes
      BY DEF BuiltTypes
    <3> QED BY <3>1, BuiltRows
  <2> QED BY <2>1 DEF Check
<1>2. IsReply(in.step)
  BY InputsAssumption
<1>3. PICK kind : kind = Kind(in.step)
  OBVIOUS
<1>4. /\ in.step.state # "array" => kind \in {"missing", "stale", "noarray"} /\ in.step.recs = <<>>
      /\ in.step.state = "array" /\ in.step.recs # <<>> => kind = "array"
  BY <1>2, <1>3 DEF IsReply, Kind
<1>5. Check(s) = StepsCheck[kind]
  BY <1>1, <1>3
<1>6. kind = "array" => Check(s) = "OK"
  BY <1>5 DEF StepsCheck
<1>7. kind \in {"missing", "stale", "noarray"} => Check(s) = "ASSERT"
  BY <1>5 DEF StepsCheck
<1> QED BY <1>4, <1>6, <1>7

\* Who can have called a builder that fails, and is not lost to it.
LEMMA JobCalls ==
  ASSUME IInv, NEW k \in 1 .. Depth, k > 1, NEW g, g = k - 1, NEW t, t = stack[g].at,
         NEW s, s = stack[k].at
  PROVE  /\ g \in 1 .. Depth /\ g < Depth /\ stack[g].kid \in 1 .. NKids(t)
         /\ s = Pos(stack[g], stack[g].kid) /\ stack[g].kid \in Nat /\ stack[g].kid > 0
         /\ rn[s].rtype = Children(t)[stack[g].kid].rtype /\ MayHold(rn[t].rtype, rn[s].rtype)
         /\ rn[s].rtype = "JOBID" <=> rn[t].rtype = "JOBS"
         /\ rn[s].rtype = "JOBSTEPS" => rn[t].rtype = "JOBID" /\ stack[g].kid = 1
         /\ rn[t].rtype = "JOBID" /\ stack[g].kid = 1 => rn[s].rtype = "JOBSTEPS"
<1>1. Depth \in Nat /\ g \in 1 .. Depth /\ g < Depth
  <2>1. Depth \in Nat
    BY RunsIn
  <2> QED BY <2>1
<1>2. /\ stack[g].kid \in 1 .. NKids(t) /\ s = stack[g].next
      /\ rn[s].rtype = Children(t)[stack[g].kid].rtype /\ MayHold(rn[t].rtype, rn[s].rtype)
  BY DEF IInv, FrameInv, FrameOK
<1>3. stack[g].kid \in Nat /\ NKids(t) \in Nat /\ stack[g].kid > 0 /\ stack[g].kid <= NKids(t)
  <2>1. stack[g].kid \in Nat /\ NKids(t) \in Nat
    BY <1>1, RunsIn
  <2> QED BY <1>2, <2>1
<1>4. s = Pos(stack[g], stack[g].kid)
  <2>1. BlockOK(g)
    BY <1>1 DEF IInv, BlockInv
  <2> QED BY <1>2, <1>3, <2>1 DEF BlockOK
<1>5. /\ rn[s].rtype = "JOBID" <=> rn[t].rtype = "JOBS"
      /\ rn[s].rtype = "JOBSTEPS" => rn[t].rtype = "JOBID"
  BY <1>2 DEF MayHold
<1>6. rn[t].rtype = "JOBID" => (rn[s].rtype = "JOBSTEPS" <=> stack[g].kid = 1)
  <2>1. rn[t].rtype \in BuiltTypes
    BY <1>1, FrameFacts DEF IInv
  <2>2. rn[t].rtype = "JOBID" => /\ Len(Children(t)) = 3 /\ Children(t)[1].rtype = "JOBSTEPS"
                                 /\ Children(t)[2].rtype = "ATTRIBUTES"
                                 /\ Children(t)[3].rtype = "CONTROL"
    BY <2>1, FixedLists
  <2>3. rn[t].rtype = "JOBID" => stack[g].kid \in 1 .. 3
    BY <1>2, <2>2 DEF NKids
  <2>4. rn[t].rtype = "JOBID" => stack[g].kid = 1 \/ stack[g].kid = 2 \/ stack[g].kid = 3
    BY <2>3
  <2> QED BY <1>2, <2>2, <2>4
<1> QED BY <1>1, <1>2, <1>3, <1>4, <1>5, <1>6

\* A reply is refused. That for the steps of a job loses no more than the job.
LEMMA RefuseCount ==
  ASSUME IInv, TreeInv, FillInv, CountInv, Refuse, ~Exit
  PROVE  CountInv'
<1>1. stack # <<>> /\ Building /\ Check(Top.at) # "OK" /\ Fail(Check(Top.at)) /\ Top.kid = 0
  BY DEF Refuse, Entered, Running, Building
<1>2. PICK k \in Nat : k = Depth /\ k \in 1 .. Depth /\ Top = stack[k]
  BY <1>1, TopIs DEF IInv, VarsInv
<1>3. PICK s : s = Top.at /\ s = stack[k].at
  BY <1>2
<1>4. rn[s].rtype \in BuiltTypes /\ ret = Pending
  <2>1. EnteredOK(k) /\ rn[s].rtype \in BuiltTypes
    BY <1>2, <1>3, FrameFacts DEF IInv, EnteredInv
  <2> QED BY <1>1, <1>2, <1>3, <2>1 DEF EnteredOK
<1>5. ~Doomed
  BY <1>4 DEF Doomed
<1>6. rn[s].rtype \in {"PARTS", "NODES", "JOBS", "JOBSTEPS"} /\ Check(s) \in {"WARN", "ASSERT"}
  <2>1. PICK row : row = Row(rn[s].rtype)
    OBVIOUS
  <2>2. PICK part, node, job, step : /\ part = Kind(in.part) /\ node = Kind(in.node)
                                     /\ job = Kind(in.job) /\ step = Kind(in.step)
    OBVIOUS
  <2>3. Check(s) = CASE row = "PARTS"    -> PartsCheck[part]
                     [] row = "NODES"    -> NodesCheck[node]
                     [] row = "JOBS"     -> JobsCheck[job]
                     [] row = "JOBSTEPS" -> StepsCheck[step]
                     [] OTHER -> "OK"
    BY <2>1, <2>2, Zenon DEF Check
  <2>4. Check(s) # "OK"
    BY <1>1, <1>3
  <2>5. row \in {"PARTS", "NODES", "JOBS", "JOBSTEPS"}
    BY <2>3, <2>4
  <2>6. {part, node, job, step} \subseteq {"missing", "stale", "noarray", "empty", "array"}
    <3>1. \A msg : IsReply(msg) => Kind(msg) \in {"missing", "stale", "noarray", "empty", "array"}
      BY DEF IsReply, Kind
    <3>2. IsReply(in.part) /\ IsReply(in.node) /\ IsReply(in.job) /\ IsReply(in.step)
      BY InputsAssumption DEF IInv, PoolInv
    <3> QED BY <2>2, <3>1, <3>2
  <2>7. row = "PARTS" => Check(s) \in {"OK", "ASSERT"}
    BY <2>3, <2>6 DEF PartsCheck
  <2>8. row = "NODES" => Check(s) \in {"OK", "ASSERT"}
    BY <2>3, <2>6 DEF NodesCheck
  <2>9. row = "JOBS" => Check(s) \in {"OK", "WARN", "ASSERT"}
    BY <2>3, <2>6 DEF JobsCheck
  <2>10. row = "JOBSTEPS" => Check(s) \in {"OK", "WARN", "ASSERT"}
    BY <2>3, <2>6 DEF StepsCheck
  <2>11. rn[s].rtype \in {"PARTS", "NODES", "JOBS", "JOBSTEPS"}
    BY <1>4, <2>1, <2>5, BuiltRows
  <2> QED BY <2>4, <2>5, <2>7, <2>8, <2>9, <2>10, <2>11
<1>7. PICK sev \in {"WARN", "ASSERT"} : sev = Check(s) /\ Fail(sev)
  BY <1>1, <1>3, <1>6, Zenon
<1>8. /\ GivesBack(k, s, NULL) /\ k > 1 /\ ret' = NULL /\ NULL \notin Slots /\ nxt_avail' = nxt_avail
      /\ caught_in_a_loop' = (caught_in_a_loop \/ sev = "ASSERT")
      /\ sev = "ASSERT" => ~caught_in_a_loop /\ ~in.debug
  BY <1>1, <1>2, <1>3, <1>7, FailIs
<1>9. PICK g : g = k - 1
  OBVIOUS
<1>10. PICK t : t = stack[g].at
  OBVIOUS
<1>11. /\ g \in 1 .. Depth /\ g < Depth /\ MayHold(rn[t].rtype, rn[s].rtype)
       /\ rn[s].rtype = "JOBSTEPS" => rn[t].rtype = "JOBID" /\ stack[g].kid = 1
  BY <1>2, <1>3, <1>8, <1>9, <1>10, JobCalls
<1>12. /\ Depth' = g /\ Stands(g) /\ stack'[g] = stack[g] /\ Reached(g)' = nxt_avail
       /\ \A i \in 1 .. (k - 2) : stack'[i] = stack[i]
  <2>1. g \in 1 .. (k - 1) /\ \A i \in 1 .. (k - 2) : i \in 1 .. (k - 1)
    BY <1>8, <1>9
  <2> QED BY <1>8, <1>9, <2>1, PopStands
<1>13. ASSUME rn[t].rtype \in {"JOBS", "JOBID"}
       PROVE  CountOK(g)'
  <2>1. rn[s].rtype = "JOBSTEPS" /\ rn[t].rtype = "JOBID" /\ stack[g].kid = 1
    <3>1. rn[s].rtype = "JOBSTEPS"
      BY <1>6, <1>11, <1>13 DEF MayHold
    <3> QED BY <1>11, <3>1
  <2>2. \A i \in 1 .. Depth : CountOK(i)
    BY <1>1, <1>5 DEF CountInv
  <2>3. AccountOK(g) /\ GivenOK(g) /\ JobsOK(g)
    BY <1>11, <2>1, <2>2 DEF CountOK
  <2>4. /\ Fin(g) = 0 /\ Done(g) = 1 /\ Fin(g)' = 1 /\ Done(g)' = 1 /\ g \in 1 .. g
        /\ Reached(g) = nxt_avail
    <3>1. stack'[g].kid = 1 /\ g + 1 = k /\ stack[k].kid = 0
      BY <1>1, <1>2, <1>9, <1>12, <2>1
    <3>2. Fin(g) = 0 /\ Done(g) = 1
      BY <1>11, <2>1 DEF Fin, Done
    <3>3. Fin(g)' = 1 /\ Done(g)' = 1
      BY <1>8, <1>12, <3>1 DEF Fin, Done
    <3>4. Reached(g) = nxt_avail
      BY <1>11, <3>1 DEF Reached
    <3>5. g \in 1 .. g
      BY <1>11
    <3> QED BY <3>2, <3>3, <3>4, <3>5
  <2>5. GivenOK(g)'
    <3>1. Children(t)[1].rtype = "JOBSTEPS"
      BY <1>10, <1>11, <2>1, FixedLists, FrameFacts DEF IInv
    <3>2. Given("JOBSTEPS", "JOBID")
      BY DEF Given
    <3> QED BY <1>10, <1>12, <2>1, <2>3, <2>4, <3>1, <3>2, GivenCount
  <2>6. (rn[stack[g].at].rtype)' = "JOBID"
    BY <1>10, <1>12, <2>1, <2>4, StandsSame
  <2>7. JobsOK(g)'
    BY <2>6 DEF JobsOK
  <2>8. AccountOK(g)'
    <3>1. Spent("JOBID", Up(g), 0) = 0 /\ Spent("JOBID", Up(g), 1) = 0
      BY DEF Spent
    <3>2. Counted(g)
      BY <1>10, <1>11, <2>1 DEF Counted
    <3>3. nxt_avail = stack[g].blk + NKids(t) + 1 + Spent("JOBID", Up(g), 1)
      BY <1>10, <2>1, <2>3, <2>4, <3>1, <3>2 DEF AccountOK
    <3> QED BY <1>10, <1>12, <2>1, <2>4, <3>3, AccountCount
  <2>9. JobLostOK(g)'
    <3>1. in.step.recs = <<>> /\ (in.step.state # "array" => sev = "ASSERT") /\ in' = in
      <4>1. in \in Inputs /\ Check(s) # "OK"
        BY <1>1, <1>3 DEF IInv, PoolInv
      <4>2. in' = in
        BY <1>12 DEF Stands
      <4> QED BY <1>7, <2>1, <4>1, <4>2, StepsRefused
    <3>2. g > 1
      <4>1. g = 1 => rn[t].rtype = "ROOT"
        BY <1>10, <1>11 DEF IInv, FrameInv, FrameOK
      <4> QED BY <1>11, <2>1, <4>1
    <3>3. PICK h, r : h = g - 1 /\ r = stack[h].at
      OBVIOUS
    <3>4. /\ h \in 1 .. Depth /\ h < Depth /\ rn[r].rtype = "JOBS" /\ stack[h].kid \in Nat
          /\ stack[h].kid > 0 /\ stack[h].kid \in 1 .. NKids(r)
      BY <1>10, <1>11, <2>1, <3>2, <3>3, JobCalls
    <3>5. JobsOK(h)
      BY <2>2, <3>4 DEF CountOK
    <3>6. Fin(h) = stack[h].kid - 1 /\ Fin(h)' = stack[h].kid - 1
      <4>1. Fin(h) = stack[h].kid - 1
        BY <3>4 DEF Fin
      <4>2. stack'[h] = stack[h] /\ h # g
        BY <1>9, <1>11, <1>12, <3>2, <3>3
      <4> QED BY <1>12, <4>1, <4>2 DEF Fin
    <3>7. Lost(Fin(h)) \in Nat
      <4>1. in \in Inputs /\ Casts("JOBS", Up(h), NKids(r), Children(r)) /\ NKids(r) \in Nat
        BY <3>3, <3>4, RunsIn
      <4>2. Fin(h) \in 0 .. NKids(r)
        BY <3>4, <3>6, <4>1
      <4> QED BY <4>1, <4>2, JobsSums DEF Casts
    <3>8. sev = "ASSERT" => Lost(Fin(h)) = 0 /\ caught_in_a_loop'
      <4>1. Lost(Fin(h)) <= 1 /\ (Lost(Fin(h)) = 1 => caught_in_a_loop)
        BY <3>3, <3>4, <3>5 DEF JobsOK
      <4>2. PICK l : l = Lost(Fin(h))
        OBVIOUS
      <4>3. l \in Nat /\ l <= 1
        BY <3>7, <4>1, <4>2
      <4>4. l = 0 \/ l = 1
        BY <4>3
      <4>5. ASSUME sev = "ASSERT"
            PROVE  ~caught_in_a_loop /\ caught_in_a_loop'
        BY <1>8, <4>5
      <4> QED BY <4>1, <4>2, <4>4, <4>5, Zenon
    <3>9. Lost(Fin(h))' = Lost(Fin(h))
      <4>1. \A j : Lost(j)' = Lost(j)
        BY <1>12, <2>4, StandsSame
      <4>2. Fin(h)' = Fin(h)
        BY <3>6
      <4> QED BY <4>1, <4>2
    <3>10. Lost(Fin(g - 1))' = Lost(Fin(h))
      BY <3>3, <3>9
    <3> QED BY <3>1, <3>8, <3>10 DEF JobLostOK
  <2> QED BY <2>5, <2>7, <2>8, <2>9 DEF CountOK
<1> QED BY <1>1, <1>2, <1>3, <1>5, <1>7, <1>9, <1>10, <1>13, FailCount

\* A job is given up, for its steps were refused: it has a block and no more.
LEMMA JobGivenUp ==
  ASSUME IInv, TreeInv, FillInv, CountInv, Fail("WARN"), ~Exit, Building, stack # <<>>, ret = NULL,
         NEW k, k = Depth, k \in 1 .. Depth, NEW s, s = stack[k].at, rn[s].rtype = "JOBID",
         stack[k].kid = 1, NEW g, g = k - 1, NEW t, t = stack[g].at, rn[t].rtype = "JOBS"
  PROVE  ~Doomed /\ CountOK(g)'
<1>1. ~Doomed /\ \A i \in 1 .. Depth : CountOK(i)
  <2>1. ~Doomed
    <3>1. Top = stack[k]
      BY DEF Top, Depth
    <3> QED BY <3>1 DEF Doomed
  <2> QED BY <2>1 DEF CountInv
<1>2. /\ GivesBack(k, s, NULL) /\ k > 1 /\ ret' = NULL /\ NULL \notin Slots /\ nxt_avail' = nxt_avail
      /\ caught_in_a_loop' = caught_in_a_loop
  <2>1. "WARN" \in {"WARN", "ASSERT"}
    OBVIOUS
  <2>2. /\ GivesBack(k, s, NULL) /\ k > 1 /\ ret' = NULL /\ NULL \notin Slots /\ nxt_avail' = nxt_avail
        /\ caught_in_a_loop' = (caught_in_a_loop \/ "WARN" = "ASSERT")
    BY <2>1, FailIs
  <2>3. caught_in_a_loop' <=> caught_in_a_loop
    BY <2>2
  <2>4. caught_in_a_loop' \in BOOLEAN /\ caught_in_a_loop \in BOOLEAN
    BY <2>2 DEF IInv, VarsInv
  <2> QED BY <2>2, <2>3, <2>4
<1>3. PICK p : p = stack[g].kid
  OBVIOUS
<1>4. /\ g \in 1 .. Depth /\ g < Depth /\ p \in 1 .. NKids(t) /\ p \in Nat /\ p > 0
      /\ s = Pos(stack[g], p)
  BY <1>2, <1>3, JobCalls
<1>5. /\ Depth' = g /\ Stands(g) /\ stack'[g] = stack[g] /\ Reached(g)' = nxt_avail /\ Building'
      /\ in' = in
  <2>1. g \in 1 .. (k - 1)
    BY <1>2, <1>4
  <2>2. caught_in_a_loop => caught_in_a_loop'
    BY <1>2
  <2>3. NULL \in Slots => rn'[NULL].nm = rn[NULL].nm
    BY <1>2
  <2> QED BY <1>2, <2>1, <2>2, <2>3, PopStands
<1>6. /\ Fin(g) = p - 1 /\ Done(g) = p /\ Fin(g)' = p /\ Done(g)' = p
      /\ Reached(g) = stack[k].blk /\ g \in 1 .. g /\ p - 1 \in Nat /\ p = (p - 1) + 1
  <2>1. stack'[g].kid = p /\ g + 1 = k /\ g # Depth
    BY <1>2, <1>3, <1>4, <1>5
  <2>2. ret' # Pending
    BY <1>2
  <2>3. Fin(g) = p - 1 /\ Done(g) = p /\ Reached(g) = stack[k].blk
    BY <1>3, <1>4, <2>1 DEF Fin, Done, Reached
  <2>4. Fin(g)' = p /\ Done(g)' = p
    BY <1>5, <2>1, <2>2 DEF Fin, Done
  <2> QED BY <1>4, <2>3, <2>4
<1>7. AccountOK(g) /\ GivenOK(g) /\ JobsOK(g)
  BY <1>1, <1>3, <1>4 DEF CountOK
<1>8. AccountOK(k) /\ JobLostOK(k)
  <2>1. stack[k].kid > 0
    OBVIOUS
  <2> QED BY <1>1, <2>1 DEF CountOK
<1>9. /\ in \in Inputs /\ NKids(t) = Len(in.job.recs) /\ NKids(t) \in Nat
      /\ Casts("JOBS", Up(g), NKids(t), Children(t))
  <2>1. in \in Inputs /\ NKids(t) \in Nat /\ Casts("JOBS", Up(g), NKids(t), Children(t))
    BY <1>4, RunsIn
  <2> QED BY <2>1 DEF Casts
<1>10. p \notin Twins(in.job.recs)
  <2>1. Named(s)
    BY DEF FillInv, NamedInv
  <2>2. p \in 1 .. Done(g)
    BY <1>4, <1>6
  <2> QED BY <1>4, <1>7, <2>1, <2>2 DEF JobsOK
<1>11. /\ in.step.recs = <<>>
       /\ in.step.state # "array" => caught_in_a_loop /\ Lost(p - 1) = 0
  <2>1. k - 1 = g
    OBVIOUS
  <2>2. Fin(k - 1) = p - 1
    BY <1>6, <2>1
  <2> QED BY <1>8, <2>2 DEF JobLostOK
<1>12. Lost(p) <= 1 /\ (Lost(p) = 1 => caught_in_a_loop)
  <2>1. Lost(p - 1) <= 1 /\ (Lost(p - 1) = 1 => caught_in_a_loop)
    BY <1>6, <1>7 DEF JobsOK
  <2>2. Lost(p) = Lost(p - 1) + IF in.step.state # "array" THEN 1 ELSE 0
    <3>1. p \in 1 .. Len(in.job.recs)
      BY <1>4, <1>9
    <3>2. Lost(p) = Lost(p - 1) + IF p \in Twins(in.job.recs) \/ in.step.state # "array" THEN 1 ELSE 0
      BY <1>9, <3>1, JobsSums
    <3> QED BY <1>10, <3>2
  <2>3. PICK l : l = Lost(p - 1)
    OBVIOUS
  <2>4. l \in Nat
    <3>1. p - 1 \in 0 .. Len(in.job.recs)
      BY <1>4, <1>6, <1>9
    <3> QED BY <1>9, <2>3, <3>1, JobsSums
  <2>5. CASE in.step.state # "array"
    <3>1. Lost(p) = 1
      <4>1. Lost(p) = l + 1 /\ l = 0
        BY <1>11, <2>2, <2>3, <2>5
      <4> QED BY <4>1
    <3>2. caught_in_a_loop
      BY <1>11, <2>5
    <3> QED BY <3>1, <3>2
  <2>6. CASE in.step.state = "array"
    <3>1. Lost(p) = l
      BY <2>2, <2>3, <2>4, <2>6
    <3> QED BY <2>1, <2>3, <3>1
  <2> QED BY <2>5, <2>6
<1>13. (rn[stack[g].at].rtype)' = "JOBS"
  BY <1>5, <1>6, StandsSame
<1>14. GivenOK(g)'
  <2>1. Given(Children(t)[p].rtype, "JOBS")
    <3>1. Children(t)[p].rtype = "JOBID"
      BY <1>4, <1>9 DEF Casts
    <3> QED BY <3>1 DEF Given
  <2> QED BY <1>4, <1>5, <1>6, <1>7, <2>1, GivenCount
<1>15. JobsOK(g)'
  <2>1. caught_in_a_loop <=> caught_in_a_loop'
    BY <1>2
  <2>2. PICK x : x = Pos(stack[g], p + 1)
    OBVIOUS
  <2> QED BY <1>4, <1>5, <1>6, <1>7, <1>11, <1>12, <2>1, <2>2, JobsCount
<1>16. AccountOK(g)'
  <2>1. PICK a, b, n, u : a = Spent("JOBS", Up(g), p - 1) /\ b = stack[g].blk /\ n = NKids(t) /\ u = Up(g)
    OBVIOUS
  <2>2. PICK e : e = stack[k].blk
    OBVIOUS
  <2>3. e = b + n + 1 + a
    <3>1. Counted(g)
      BY DEF Counted, Sized
    <3> QED BY <1>6, <1>7, <2>1, <2>2, <3>1 DEF AccountOK
  <2>4. nxt_avail = e + 4
    <3>1. Counted(k)
      BY DEF Counted
    <3>2. NKids(s) = 3 /\ Spent("JOBID", Up(k), Fin(k)) = 0 /\ Reached(k) = nxt_avail
      <4>1. NKids(s) = 3
        BY ListLengths
      <4>2. Spent("JOBID", Up(k), Fin(k)) = 0
        BY DEF Spent
      <4>3. k \in Int /\ ~(k < Depth)
        BY <1>2, <1>4
      <4> QED BY <4>1, <4>2, <4>3 DEF Reached
    <3>3. nxt_avail = e + 3 + 1 + 0
      BY <1>8, <2>2, <3>1, <3>2 DEF AccountOK
    <3>4. e \in Nat
      BY <2>2, RunsIn
    <3> QED BY <3>3, <3>4
  <2>5. Spent("JOBS", u, p) = a + 4
    <3>1. Sized("JOBS", u) /\ n \in Nat /\ p \in 1 .. n /\ Casts("JOBS", u, n, Children(t))
      BY <1>4, <1>9, <2>1 DEF Sized
    <3>2. Spent("JOBS", u, p) = a + IF p \in Twins(in.job.recs) THEN 0 ELSE Block(3)
      BY <1>9, <2>1, <3>1, StepCost
    <3> QED BY <1>10, <3>2 DEF Block
  <2>6. a \in Int /\ b \in Nat /\ n \in Nat
    <3>1. p - 1 \in 0 .. Len(in.job.recs)
      BY <1>4, <1>6, <1>9
    <3>2. a \in Int
      BY <1>9, <2>1, <3>1, JobsSums
    <3>3. b \in Nat
      BY <1>4, <2>1, RunsIn
    <3> QED BY <1>9, <2>1, <3>2, <3>3
  <2>7. nxt_avail = b + n + 1 + (a + 4)
    BY <2>3, <2>4, <2>6
  <2>8. Reached(g)' = stack[g].blk + NKids(t) + 1 + Spent(rn[t].rtype, Up(g), p)
    BY <1>5, <2>1, <2>5, <2>7
  <2> QED BY <1>4, <1>5, <1>6, <2>8, AccountCount
<1>17. JobLostOK(g)'
  BY <1>13 DEF JobLostOK
<1> QED BY <1>1, <1>14, <1>15, <1>16, <1>17 DEF CountOK

\* A child was not built: the builder goes on, or returns NULL with a warning.
LEMMA ChildFailsCount ==
  ASSUME IInv, TreeInv, FillInv, CountInv, ChildFails, ~Exit
  PROVE  CountInv'
<1>1. stack # <<>> /\ Building /\ ret = NULL /\ ret # Pending
  BY DEF ChildFails, Running, Building
<1>2. PICK k \in Nat : k = Depth /\ k \in 1 .. Depth /\ Top = stack[k] /\ Top \in Frames
  BY <1>1, TopIs DEF IInv, VarsInv
<1>3. PICK s : s = Top.at /\ s = stack[k].at
  BY <1>2
<1>4. Top.kid > 0 /\ Top.kid \in 1 .. NKids(s)
  <2>1. Top.kid > 0 /\ Top.kid <= NKids(s) /\ Top.kid \in Nat
    BY <1>1, <1>2, <1>3 DEF IInv, RetInv, Building, Frames
  <2>2. NKids(s) \in Nat
    BY <1>2, <1>3, FrameFacts DEF IInv
  <2> QED BY <2>1, <2>2
<1>5. PICK c : c = NextChild /\ c = Children(s)[Top.kid]
  BY <1>3 DEF NextChild
<1>6. Sound(c) /\ MayHold(rn[s].rtype, c.rtype)
  <2>1. Listable(s)
    <3>1. rn[s].rtype \in BuiltTypes
      BY <1>2, <1>3, FrameFacts DEF IInv
    <3>2. rn[s].rtype # "ROOT" => MayHold(rn[rn[s].parent].rtype, rn[s].rtype)
      BY <1>2, <1>3 DEF IInv, FrameInv, FrameOK
    <3> QED BY <3>1, <3>2 DEF Listable, IInv, PoolInv
  <2> QED BY <1>1, <1>3, <1>4, <1>5, <2>1, ChildrenSound, NextIs
<1>7. CASE c.onNull = "CONTINUE"
  <2>1. /\ SetTop([Top EXCEPT !.kid = @ + 1, !.next = @ + 1]) /\ ret' = Pending
        /\ UNCHANGED <<in, rn, nxt_avail, caught_in_a_loop, p_jobd, status>>
    BY <1>5, <1>7, Zenon DEF ChildFails, pool, roots
  <2>2. PICK nx \in Nat : nx = Top.next + 1
    BY <1>2 DEF Frames
  <2>3. SetTop(Advanced(Top, nx))
    BY <2>1, <2>2, Zenon DEF Advanced
  <2>4. rn[Top.at].rtype = "JOBS"
    BY <1>1, <1>3, <1>4, <1>5, <1>7, NextIs
  <2> QED BY <1>1, <2>1, <2>3, <2>4, AdvanceCount
<1>8. CASE c.onNull # "CONTINUE"
  <2>1. Fail(c.onNull)
    BY <1>5, <1>8, Zenon DEF ChildFails
  <2>2. c.onNull # "ASSERT"
    <3> SUFFICES ASSUME c.onNull = "ASSERT" PROVE FALSE
      OBVIOUS
    <3>1. caught_in_a_loop
      BY <1>1, <1>5 DEF FillInv, NullOK
    <3>2. ~Returns("ASSERT")
      BY <3>1 DEF Returns
    <3> QED BY <2>1, <3>2, Zenon DEF Fail
  <2>3. c.onNull = "WARN" /\ c.rtype \in {"CLUSTER", "JOBS", "JOBSTEPS"}
    BY <1>6, <1>8, <2>2 DEF Sound
  <2>4. Fail("WARN") /\ "WARN" \in {"WARN", "ASSERT"}
    BY <2>1, <2>3
  <2>5. k > 1
    <3>1. Below # <<>>
      BY <2>1, Zenon DEF Fail
    <3> QED BY <1>1, <1>2, <3>1, TopIs DEF IInv, VarsInv
  <2>6. PICK g, t : g = k - 1 /\ t = stack[g].at
    OBVIOUS
  <2>7. ASSUME rn[t].rtype \in {"JOBS", "JOBID"}
        PROVE  ~Doomed /\ CountOK(g)'
    <3>1. MayHold(rn[t].rtype, rn[s].rtype) /\ (rn[s].rtype = "JOBID" <=> rn[t].rtype = "JOBS")
      BY <1>2, <1>3, <2>5, <2>6, JobCalls
    <3>2. rn[s].rtype = "JOBID" /\ rn[t].rtype = "JOBS" /\ c.rtype = "JOBSTEPS"
      BY <1>6, <2>3, <2>7, <3>1 DEF MayHold
    <3>3. stack[k].kid = 1
      <4>1. Casts("JOBID", Up(k), NKids(s), Children(s)) /\ stack[k].kid \in Nat
        BY <1>2, <1>3, <3>2, RunsIn
      <4>2. rn[s].rtype \in BuiltTypes
        BY <1>2, <1>3, FrameFacts DEF IInv
      <4>3. Children(s)[2].rtype = "ATTRIBUTES" /\ Children(s)[3].rtype = "CONTROL"
        BY <3>2, <4>2, FixedLists
      <4>4. stack[k].kid \in 1 .. 3 /\ stack[k].kid # 2 /\ stack[k].kid # 3
        BY <1>2, <1>4, <1>5, <3>2, <4>1, <4>3 DEF Casts
      <4> QED BY <4>4
    <3> QED BY <1>1, <1>2, <1>3, <2>4, <2>6, <3>2, <3>3, JobGivenUp
  <2>8. rn[stack[g].at].rtype \in {"JOBS", "JOBID"} => ~Doomed /\ CountOK(g)'
    BY <2>6, <2>7
  <2> QED BY <1>1, <1>2, <1>3, <2>4, <2>6, <2>8, FailCount
<1> QED BY <1>7, <1>8

\* A child was built.
LEMMA ChildBuiltCount ==
  ASSUME IInv, TreeInv, FillInv, CountInv, ChildBuilt
  PROVE  CountInv'
<1>1. /\ stack # <<>> /\ Building /\ ret > NULL /\ ret # Pending /\ ret' = Pending
      /\ UNCHANGED <<in, rn, nxt_avail, caught_in_a_loop, p_jobd, status>>
  BY DEF ChildBuilt, Running, pool, Building
<1>2. SetTop(Advanced(Top, NextSlot))
  BY Zenon DEF ChildBuilt, Advanced
<1>3. PICK nx \in Nat : nx = NextSlot
  BY <1>1, NextSlotIs
<1> QED BY <1>1, <1>2, <1>3, AdvanceCount

\* Where a directory shows one child for every record, the records are distinct.
LEMMA DistinctList ==
  ASSUME IInv, ListedDistinct, NEW d \in Dirs, rn[d].rtype # "ROOT",
         \A t \in Kids(d) : Named(t),
         NEW n \in Nat, n = rn[d].n, NEW recs, DOMAIN recs = 1 .. n,
         \A t \in Kids(d) : rn[t].nm = recs[t - rn[d].children + 1]
  PROVE  Distinct(recs)
<1>1. PICK b : b = rn[d].children
  OBVIOUS
<1>2. b \in Int /\ b # NULL
  <2>1. rn[d].children \in Slots \cup {NULL}
    BY DEF IInv, PoolInv, NodeOK, Dirs
  <2> QED BY <1>1, <2>1, BaseAllocAssumption DEF Dirs, Slots, IInv, PoolInv
<1>3. Kids(d) = b .. (b + n - 1)
  BY <1>1, <1>2 DEF Kids
<1>4. \A t \in Kids(d) : t \in Listed(d)
  <2>1. TAKE t \in Kids(d)
  <2>2. \A u \in b .. t : u \in Kids(d)
    BY <1>2, <1>3
  <2> QED BY <1>1, <2>1, <2>2 DEF Listed
<1>5. ASSUME NEW i \in 1 .. n, NEW j \in 1 .. n, recs[i] = recs[j]
      PROVE  i = j
  <2>1. PICK t, u : t = b + i - 1 /\ u = b + j - 1
    OBVIOUS
  <2>2. t \in Kids(d) /\ u \in Kids(d) /\ t - b + 1 = i /\ u - b + 1 = j
    BY <1>2, <1>3, <2>1
  <2>3. rn[t].nm = recs[i] /\ rn[u].nm = recs[j]
    BY <1>1, <2>2
  <2>4. t = u
    BY <1>4, <1>5, <2>2, <2>3 DEF ListedDistinct
  <2> QED BY <1>2, <2>1, <2>4
<1> QED BY <1>5 DEF Distinct

\* The partitions and the nodes whose directory is built have distinct names.
LEMMA DistinctDone ==
  ASSUME IInv, TreeInv, MountInv, FillInv, Building, stack # <<>>, ret = Pending,
         NEW k, k = Depth, k \in 1 .. Depth, NEW s, s = stack[k].at, stack[k].kid > 0,
         NEW n \in Nat, n = NKids(s), stack[k].kid > n, rn[s].rtype \in {"PARTS", "NODES"}
  PROVE  /\ rn[s].rtype = "PARTS" => Distinct(in.part.recs)
         /\ rn[s].rtype = "NODES" => Distinct(in.node.recs)
<1>1. /\ s \in Dirs /\ s \in Slots /\ rn[s].children \in Slots /\ rn[s].children # NULL
      /\ rn[s].n = n /\ rn[s].children > s
  <2>1. s \in Dirs
    BY ListLengths
  <2>2. s \in Slots /\ rn[s].children # NULL /\ rn[s].children > s
    BY <2>1 DEF Dirs, IInv, DirsInv
  <2>3. rn[s].children \in Slots
    BY <2>2 DEF IInv, PoolInv, NodeOK
  <2>4. rn[s].n = n
    BY DEF IInv, BlockInv, BlockOK
  <2> QED BY <2>1, <2>2, <2>3, <2>4
<1>2. \A t \in Kids(s) : t \in Slots /\ t > s /\ t # BaseAlloc
  <2>1. \A t \in Kids(s) : t \in Slots
    BY <1>1, KidsIn
  <2>2. \A t \in Kids(s) : t > s
    <3>1. s \in Int /\ rn[s].children \in Int
      BY <1>1, BaseAllocAssumption DEF Slots, IInv, PoolInv
    <3> QED BY <1>1, <3>1 DEF Kids
  <2>3. s >= BaseAlloc /\ BaseAlloc \in Int /\ s \in Int
    BY <1>1, BaseAllocAssumption DEF Slots, IInv, PoolInv
  <2> QED BY <2>1, <2>2, <2>3
<1>3. \A t \in Kids(s) : Named(t)
  <2>1. \A t \in Kids(s) : rn[t].gen # 0
    BY <1>1, AllCast DEF FillInv
  <2>2. HoleOK(s)
    <3>1. Live /\ ~Doomed
      BY DEF Live, Doomed, Building, Pending
    <3> QED BY <1>1, <3>1 DEF FillInv, FullInv
  <2> QED BY <2>1, <2>2 DEF HoleOK, Hole
<1>4. \A t \in Kids(s) : /\ rn[t].parent = s
                         /\ rn[s].rtype = "PARTS" => rn[t].rtype = "PARTNAME"
                         /\ rn[s].rtype = "NODES" => rn[t].rtype = "NODENAME"
  <2>1. TAKE t \in Kids(s)
  <2>2. rn[t].parent = s
    BY <1>1, <1>3 DEF TreeInv, DirOK
  <2>3. rn[t].rtype # "ROOT"
    BY <1>2 DEF MountInv, NodesInv, NodeSays
  <2>4. MayHold(rn[s].rtype, rn[t].rtype)
    <3>1. NamedOK(t)
      BY <1>2 DEF TreeInv
    <3>2. rn[s].rtype # "CONTROL"
      OBVIOUS
    <3> QED BY <1>3, <2>2, <2>3, <3>1, <3>2 DEF NamedOK
  <2> QED BY <2>2, <2>4 DEF MayHold
<1>5. \A t \in Kids(s) :
         /\ rn[s].rtype = "PARTS" => rn[t].nm = in.part.recs[t - rn[s].children + 1]
         /\ rn[s].rtype = "NODES" => rn[t].nm = in.node.recs[t - rn[s].children + 1]
  <2>1. TAKE t \in Kids(s)
  <2>2. RecOK(t)
    BY <1>2 DEF TreeInv
  <2> QED BY <1>3, <1>4, <2>2 DEF RecOK
<1>6. /\ rn[s].rtype = "PARTS" => DOMAIN in.part.recs = 1 .. n
      /\ rn[s].rtype = "NODES" => DOMAIN in.node.recs = 1 .. n
  <2>1. in \in Inputs /\ Casts(rn[s].rtype, Up(k), n, Children(s))
    BY RunsIn
  <2>2. \A q \in Seq(NodeNames) : DOMAIN q = 1 .. Len(q)
    OBVIOUS
  <2>3. in.part.recs \in Seq(NodeNames) /\ in.node.recs \in Seq(NodeNames)
    BY <2>1, InputsAssumption DEF IsReply
  <2> QED BY <2>1, <2>2, <2>3 DEF Casts
<1>7. ListedDistinct
  BY DEF TreeInv
<1>8. CASE rn[s].rtype = "PARTS"
  BY <1>1, <1>3, <1>5, <1>6, <1>7, <1>8, DistinctList
<1>9. CASE rn[s].rtype = "NODES"
  BY <1>1, <1>3, <1>5, <1>6, <1>7, <1>9, DistinctList
<1> QED BY <1>8, <1>9

\* A builder that returns its node has found all it needs, and taken its cost.
LEMMA ReturnSays ==
  ASSUME IInv, TreeInv, MountInv, FillInv, CountInv, Building, stack # <<>>, ret = Pending,
         NEW k, k = Depth, k \in 1 .. Depth, NEW s, s = stack[k].at, stack[k].kid > 0,
         NEW n \in Nat, n = NKids(s), stack[k].kid > n, NEW b, b = stack[k].blk
  PROVE  /\ ~Doomed /\ (\A i \in 1 .. Depth : CountOK(i))
         /\ stack[k].kid = n + 1 /\ Given(rn[s].rtype, Up(k))
         /\ rn[s].rtype # "ROOT" /\ Sized(rn[s].rtype, Up(k)) =>
               nxt_avail = b + Cost(rn[s].rtype, Up(k))
         /\ rn[s].rtype = "ROOT" => n = 3 /\ GivenOK(k) /\ Fin(k) = 3
                                    /\ nxt_avail = b - 1 + Needs(in)
<1>1. ~Doomed /\ \A i \in 1 .. Depth : CountOK(i)
  <2>1. ~Doomed
    BY DEF Doomed, Pending
  <2> QED BY <2>1 DEF CountInv
<1>2. stack[k].kid = n + 1
  BY AllCast DEF FillInv
<1>3. Fin(k) = n /\ Done(k) = n /\ Reached(k) = nxt_avail
  <2>1. k \in Int /\ ~(k < Depth)
    BY DEF IInv, VarsInv, Depth
  <2> QED BY <1>2, <2>1 DEF Fin, Done, Reached
<1>4. AccountOK(k) /\ GivenOK(k) /\ JobsOK(k)
  BY <1>1 DEF CountOK
<1>5. PICK t, u, kids : t = rn[s].rtype /\ u = Up(k) /\ kids = Children(s)
  OBVIOUS
<1>6. in \in Inputs /\ Casts(t, u, n, kids) /\ b \in Nat
  BY <1>5, RunsIn
<1>7. \A j \in 1 .. n : Given(kids[j].rtype, t)
  BY <1>3, <1>4, <1>5 DEF GivenOK
<1>8. t = "JOBS" => JobsGiven
  <2> SUFFICES ASSUME t = "JOBS" PROVE JobsGiven
    OBVIOUS
  <2>1. n = Len(in.job.recs) /\ in.job.state = "array"
    BY <1>4, <1>5, <1>6 DEF Casts, GivenOK
  <2>2. in.job.recs # <<>> => n > 0
    <3>1. in.job.recs \in Seq(NodeNames)
      BY <1>6, InputsAssumption DEF IsReply
    <3>2. \A q \in Seq(NodeNames) : q # <<>> => Len(q) > 0
      OBVIOUS
    <3> QED BY <2>1, <3>1, <3>2
  <2>3. /\ Lost(n) <= 1 /\ (Lost(n) = 1 => caught_in_a_loop)
        /\ n > 0 => in.step.recs = <<>>
    BY <1>3, <1>4, <1>5 DEF JobsOK
  <2>4. Lost(n) = Survivable(in) /\ Lost(n) \in Nat
    <3>1. n \in 0 .. n
      OBVIOUS
    <3> QED BY <1>6, <2>1, <3>1, JobsSums
  <2>5. caught_in_a_loop => ~in.debug
    BY DEF CountInv, CaughtInv
  <2>6. PICK l : l = Survivable(in)
    OBVIOUS
  <2>7. l = 0 \/ l = 1
    <3>1. l \in Nat /\ l <= 1
      BY <2>3, <2>4, <2>6
    <3> QED BY <3>1
  <2> QED BY <2>1, <2>2, <2>3, <2>4, <2>5, <2>6, <2>7, Zenon DEF JobsGiven
<1>9. /\ t = "PARTS" => in.part.state = "array" /\ Distinct(in.part.recs)
      /\ t = "NODES" => in.node.state = "array" /\ Distinct(in.node.recs)
  <2>1. t \in {"PARTS", "NODES"} => /\ t = "PARTS" => Distinct(in.part.recs)
                                    /\ t = "NODES" => Distinct(in.node.recs)
    BY <1>5, DistinctDone
  <2> QED BY <1>4, <1>5, <2>1 DEF GivenOK
<1>10. t = "ATTRIBUTES" /\ u \in {"PARTNAME", "NODENAME"} => u \notin in.badattr
  <2>1. t = "ATTRIBUTES" /\ u \in {"PARTNAME", "NODENAME"} => n > 0
    BY <1>6 DEF Casts
  <2> QED BY <1>3, <1>4, <1>5, <2>1 DEF GivenOK
<1>11. Given(t, u)
  BY <1>6, <1>7, <1>8, <1>9, <1>10, AllGiven
<1>12. PICK sp : sp = Spent(t, u, n)
  OBVIOUS
<1>13. Sized(t, u) => nxt_avail = b + n + 1 + sp /\ sp \in Int
  <2> SUFFICES ASSUME Sized(t, u) PROVE nxt_avail = b + n + 1 + sp /\ sp \in Int
    OBVIOUS
  <2>1. nxt_avail = b + n + 1 + sp
    BY <1>3, <1>4, <1>5, <1>12 DEF AccountOK, Counted
  <2>2. CASE t = "JOBS"
    <3>1. n = Len(in.job.recs)
      BY <1>6, <2>2 DEF Casts
    <3>2. n \in 0 .. n
      OBVIOUS
    <3> QED BY <1>6, <1>12, <2>1, <2>2, <3>1, <3>2, JobsSums
  <2>3. CASE t # "JOBS"
    BY <1>6, <1>12, <2>1, <2>3, SpentInt
  <2> QED BY <2>2, <2>3
<1>14. t # "ROOT" /\ Sized(t, u) => nxt_avail = b + Cost(t, u)
  <2> SUFFICES ASSUME t # "ROOT", Sized(t, u) PROVE nxt_avail = b + Cost(t, u)
    OBVIOUS
  <2>1. n + 1 + sp = Cost(t, u)
    BY <1>6, <1>12, AllCost
  <2>2. b + n + 1 + sp = b + (n + 1 + sp)
    BY <1>6, <1>13
  <2> QED BY <1>13, <2>1, <2>2
<1>15. t = "ROOT" => n = 3 /\ GivenOK(k) /\ Fin(k) = 3 /\ nxt_avail = b - 1 + Needs(in)
  <2> SUFFICES ASSUME t = "ROOT" PROVE n = 3 /\ GivenOK(k) /\ Fin(k) = 3 /\ nxt_avail = b - 1 + Needs(in)
    OBVIOUS
  <2>1. n = 3
    BY <1>6 DEF Casts
  <2>2. Sized(t, u)
    BY DEF Sized
  <2>3. 4 + 1 + sp = Needs(in)
    BY <1>6, <1>12, <2>2, AllCost DEF Block
  <2>4. b + n + 1 + sp = b - 1 + (4 + 1 + sp)
    <3>1. sp \in Int /\ b \in Int
      BY <1>6, <1>13, <2>2
    <3>2. \A x, y \in Int : x + 3 + 1 + y = x - 1 + (4 + 1 + y)
      OBVIOUS
    <3> QED BY <2>1, <3>1, <3>2, Zenon
  <2> QED BY <1>3, <1>4, <1>13, <2>1, <2>2, <2>3, <2>4
<1> QED BY <1>1, <1>2, <1>5, <1>11, <1>14, <1>15

\* A builder returns, all its children dealt with; the root's has mounted.
LEMMA ReturnCount ==
  ASSUME IInv, TreeInv, MountInv, FillInv, CountInv, Return
  PROVE  CountInv'
<1>1. /\ stack # <<>> /\ Building /\ Top.kid > 0 /\ stack' = Below /\ ret = Pending
      /\ ~(Top.kid <= Len(Children(Top.at)))
      /\ ret' = IF Row(rn[Top.at].rtype) = "NODESTATE" THEN Top.blk ELSE Top.at
      /\ status' = IF Below = <<>> THEN "mounted" ELSE status
      /\ UNCHANGED <<in, rn, nxt_avail, caught_in_a_loop, p_fsroot>>
  BY DEF Return, Casting, Running, More, pool, Building
<1>2. PICK k \in Nat : k = Depth /\ k \in 1 .. Depth /\ Top = stack[k] /\ Top \in Frames
  BY <1>1, TopIs DEF IInv, VarsInv
<1>3. PICK s : s = Top.at /\ s = stack[k].at
  BY <1>2
<1>4. PICK n \in Nat : n = NKids(s) /\ Top.kid \in Nat /\ Top.kid > n
  <2>1. NKids(s) \in Nat /\ Top.kid \in Nat
    BY <1>2, <1>3, FrameFacts DEF IInv, Frames
  <2> QED BY <1>1, <1>3, <2>1 DEF NKids
<1>5. PICK b : b = stack[k].blk
  OBVIOUS
<1>6. /\ ~Doomed /\ (\A i \in 1 .. Depth : CountOK(i))
      /\ stack[k].kid = n + 1 /\ Given(rn[s].rtype, Up(k))
      /\ rn[s].rtype # "ROOT" /\ Sized(rn[s].rtype, Up(k)) =>
            nxt_avail = b + Cost(rn[s].rtype, Up(k))
      /\ rn[s].rtype = "ROOT" => n = 3 /\ GivenOK(k) /\ Fin(k) = 3
                                 /\ nxt_avail = b - 1 + Needs(in)
  BY <1>1, <1>2, <1>3, <1>4, <1>5, ReturnSays
<1>7. ASSUME k > 1 PROVE CountInv'
  <2>1. Below # <<>> /\ status' = status
    BY <1>1, <1>2, <1>7, TopIs DEF IInv, VarsInv
  <2>2. ret' > NULL /\ ret' # Pending
    <3>1. s \in Slots /\ s < Top.blk /\ Top.blk \in Nat
      BY <1>1, <1>2, <1>3 DEF IInv, FrameInv, FrameOK, BlockInv, BlockOK, Frames
    <3>2. s > 0 /\ Top.blk > 0 /\ s \in Nat
      BY <3>1, BaseAllocAssumption DEF Slots
    <3>3. ret' = s \/ ret' = Top.blk
      BY <1>1, <1>3
    <3> QED BY <3>1, <3>2, <3>3
  <2>3. Grows(NULL) /\ NULL \notin Slots
    <3>1. Slots' = Slots /\ NULL \notin Slots
      BY <1>1, BaseAllocAssumption DEF Slots
    <3> QED BY <1>1, <3>1 DEF Grows
  <2>4. PICK l \in Nat : GivesBack(l, s, NULL)
    BY <1>1, <1>3, <2>1, <2>2, <2>3, GiveIs
  <2>5. GivesBack(k, s, NULL)
    BY <1>2, <2>4 DEF GivesBack
  <2>6. PICK g : g = k - 1
    OBVIOUS
  <2>7. PICK t, kid : t = stack[g].at /\ kid = stack[g].kid
    OBVIOUS
  <2>8. /\ g \in 1 .. Depth /\ g < Depth /\ kid \in 1 .. NKids(t) /\ kid \in Nat /\ kid > 0
        /\ rn[s].rtype = Children(t)[kid].rtype /\ MayHold(rn[t].rtype, rn[s].rtype)
        /\ rn[s].rtype = "JOBID" <=> rn[t].rtype = "JOBS"
    BY <1>2, <1>3, <1>7, <2>6, <2>7, JobCalls
  <2>9. rn[s].rtype # "JOBID" /\ rn[t].rtype # "JOBS"
    <3>1. rn[s].rtype = "JOBID" => stack[k].kid <= 2 /\ n = 3
      <4>1. JobOK(k)
        BY <1>2 DEF MountInv, FrameSays
      <4>2. rn[s].rtype = "JOBID" => NKids(s) = 3
        BY <1>2, <1>3, ListLengths
      <4> QED BY <1>3, <1>4, <4>1, <4>2 DEF JobOK
    <3>2. rn[s].rtype # "JOBID"
      BY <1>6, <3>1
    <3> QED BY <2>8, <3>2
  <2>10. /\ Depth' = g /\ Stands(g) /\ stack'[g] = stack[g] /\ Reached(g)' = nxt_avail
    <3>1. g \in 1 .. (k - 1)
      BY <1>2, <1>7, <2>6
    <3>2. caught_in_a_loop => caught_in_a_loop'
      BY <1>1
    <3>3. NULL \in Slots => rn'[NULL].nm = rn[NULL].nm
      BY <2>3
    <3> QED BY <2>5, <2>6, <3>1, <3>2, <3>3, PopStands
  <2>11. Reached(g) = b
    <3>1. g + 1 = k
      BY <1>2, <2>6
    <3>2. stack[k].kid > 0
      BY <1>1, <1>2
    <3> QED BY <1>5, <2>8, <3>1, <3>2 DEF Reached
  <2>12. Up(k) = rn[t].rtype
    BY <1>7, <2>6, <2>7 DEF Up
  <2>13. Sized(rn[t].rtype, Up(g)) => Reached(g)' = Reached(g) + Cost(rn[s].rtype, rn[t].rtype)
    <3> SUFFICES ASSUME Sized(rn[t].rtype, Up(g))
                 PROVE  Reached(g)' = Reached(g) + Cost(rn[s].rtype, rn[t].rtype)
      OBVIOUS
    <3>1. rn[s].rtype = "ALLOCJOB" => ~in.alloc
      BY <1>6 DEF Given
    <3>2. rn[s].rtype \notin AttrTypes
      <4>1. rn[s].rtype \in AttrTypes => stack[k].kid = 0
        BY <1>2, <1>3, ListLengths
      <4> QED BY <1>4, <1>6, <4>1
    <3>3. Sized(rn[s].rtype, rn[t].rtype)
      BY <2>8, <2>9, <3>1, <3>2, SizedChild
    <3>4. rn[s].rtype # "ROOT"
      BY <1>2, <1>3, <1>7, CalledAs
    <3> QED BY <1>6, <2>10, <2>11, <2>12, <3>3, <3>4
  <2>14. CountOK(g)'
    <3>1. PICK c : c = Children(t)[stack[g].kid].rtype /\ c = rn[s].rtype
      BY <2>7, <2>8
    <3>2. Given(c, rn[t].rtype) /\ CountOK(g)
      BY <1>6, <2>8, <2>12, <3>1
    <3>3. stack'[g].kid = stack[g].kid
      BY <2>10
    <3> QED BY <1>1, <2>2, <2>7, <2>8, <2>9, <2>10, <2>13, <3>1, <3>2, <3>3, BuiltCount
  <2>15. /\ caught_in_a_loop => caught_in_a_loop'
         /\ caught_in_a_loop' => caught_in_a_loop \/ ~in.debug
         /\ NULL \in Slots => rn'[NULL].nm = rn[NULL].nm
    BY <1>1, <2>3
  <2> QED BY <1>6, <2>5, <2>6, <2>14, <2>15, PopCount
<1>8. ASSUME k = 1 PROVE CountInv'
  <2>1. stack' = <<>> /\ status' = "mounted"
    <3>1. Below = <<>>
      BY <1>1, <1>2, <1>8, TopIs DEF IInv, VarsInv
    <3> QED BY <1>1, <3>1
  <2>2. rn[s].rtype = "ROOT"
    BY <1>2, <1>3, <1>8 DEF IInv, FrameInv, FrameOK
  <2>3. nxt_avail = BaseAlloc + Needs(in)
    <3>1. b = BaseAlloc + 1
      BY <1>1, <1>5, <1>8 DEF CountInv, FirstBlock
    <3>2. b - 1 = BaseAlloc
      BY <3>1, BaseAllocAssumption
    <3> QED BY <1>6, <2>2, <3>2
  <2>4. Buildable
    <3>1. Given(Children(s)[2].rtype, "ROOT")
      <4>1. 2 \in 1 .. Fin(k)
        BY <1>6, <2>2
      <4> QED BY <1>3, <1>6, <2>2, <4>1 DEF GivenOK
    <3>2. Children(s)[2].rtype = "CLUSTER"
      <4>1. Casts("ROOT", Up(k), n, Children(s))
        BY <1>2, <1>3, <1>4, <2>2, RunsIn
      <4> QED BY <4>1 DEF Casts
    <3>3. PartsGiven /\ JobsGiven
      BY <3>1, <3>2 DEF Given
    <3> QED BY <3>3 DEF Buildable, PartsGiven, PartGiven, NodesGiven, NodeGiven, JobsGiven
  <2>5. Buildable' /\ (nxt_avail = BaseAlloc + Needs(in))'
    <3>1. Buildable' = Buildable
      BY <1>1 DEF Buildable, Survivable, Twins, Distinct
    <3>2. Needs(in)' = Needs(in)
      BY <1>1 DEF Needs, Twins, Block, PartNeeds, NodeNeeds, AttrTab, CtlTab
    <3> QED BY <1>1, <2>3, <2>4, <3>1, <3>2
  <2>6. CaughtInv' /\ FirstBlock' /\ ~Building'
    BY <1>1, <2>1 DEF CountInv, CaughtInv, FirstBlock, Building
  <2> QED BY <2>5, <2>6 DEF CountInv
<1>9. k = 1 \/ k > 1
  BY <1>2
<1> QED BY <1>7, <1>8, <1>9

\* A builder that provisions has not been refused.
LEMMA CheckSays ==
  ASSUME in \in Inputs, NEW s, rn[s].rtype \in BuiltTypes, Check(s) = "OK"
  PROVE  /\ rn[s].rtype = "PARTS" => in.part.state = "array"
         /\ rn[s].rtype = "NODES" => in.node.state = "array"
         /\ rn[s].rtype = "JOBS" => in.job.state = "array"
<1>1. PICK row : row = Row(rn[s].rtype)
  OBVIOUS
<1>2. PICK part, node, job, step : /\ part = Kind(in.part) /\ node = Kind(in.node)
                                   /\ job = Kind(in.job) /\ step = Kind(in.step)
  OBVIOUS
<1>3. Check(s) = CASE row = "PARTS"    -> PartsCheck[part]
                   [] row = "NODES"    -> NodesCheck[node]
                   [] row = "JOBS"     -> JobsCheck[job]
                   [] row = "JOBSTEPS" -> StepsCheck[step]
                   [] OTHER -> "OK"
  BY <1>1, <1>2, Zenon DEF Check
<1>4. \A msg : IsReply(msg) => /\ Kind(msg) \in {"missing", "stale", "noarray", "empty", "array"}
                               /\ Kind(msg) \in {"empty", "array"} => msg.state = "array"
  BY DEF IsReply, Kind
<1>5. IsReply(in.part) /\ IsReply(in.node) /\ IsReply(in.job)
  BY InputsAssumption
<1>6. rn[s].rtype # "ALLOCJOB" => row = rn[s].rtype
  BY <1>1, BuiltRows
<1>7. row = "PARTS" => part \in {"empty", "array"}
  BY <1>2, <1>3, <1>4, <1>5 DEF PartsCheck
<1>8. row = "NODES" => node \in {"empty", "array"}
  BY <1>2, <1>3, <1>4, <1>5 DEF NodesCheck
<1>9. row = "JOBS" => job \in {"empty", "array"}
  BY <1>2, <1>3, <1>4, <1>5 DEF JobsCheck
<1> QED BY <1>2, <1>4, <1>5, <1>6, <1>7, <1>8, <1>9

\* Nothing is spent before the first child.
LEMMA SpentNothing ==
  ASSUME IInv, NEW k \in 1 .. Depth, NEW s, s = stack[k].at,
         Sized(rn[s].rtype, Up(k)) \/ rn[s].rtype = "JOBID"
  PROVE  Spent(rn[s].rtype, Up(k), 0) = 0
<1>1. CASE rn[s].rtype = "JOBID"
  BY <1>1 DEF Spent
<1>2. CASE Sized(rn[s].rtype, Up(k))
  <2>1. in \in Inputs /\ NKids(s) \in Nat /\ Casts(rn[s].rtype, Up(k), NKids(s), Children(s))
    BY RunsIn
  <2> QED BY <1>2, <2>1, AllCost
<1> QED BY <1>1, <1>2

\* A builder provisions its block: it has spent that, and dealt with no child.
LEMMA ProvisionCount ==
  ASSUME IInv, TreeInv, FillInv, CountInv, Provision, ~Exit
  PROVE  CountInv'
<1> PICK at, up : \E n, k, b, m \in Nat : Provisions(at, n, up, k, b, m)
  BY ProvisionIs
<1>1. PICK n, k, b, m \in Nat : Provisions(at, n, up, k, b, m)
  OBVIOUS
<1>2. /\ at = Top.at /\ at \in Slots /\ stack # <<>> /\ in' = in /\ ret = Pending
      /\ k \in 1 .. Depth /\ k = Depth /\ k > 1 /\ Top = stack[k] /\ Top \in Frames /\ Top.kid = 0
      /\ rn[at].rtype \in BuiltTypes \ ({"ROOT"} \cup AttrTypes)
      /\ rn[at].children = NULL /\ rn[at].gen = 1 /\ NodeOK(rn[at]) /\ NKids(at) = n /\ Building
      /\ SetTop([at |-> at, blk |-> b, next |-> b, kid |-> 1]) /\ b = nxt_avail /\ b >= BaseAlloc
      /\ m = b + n + 1 /\ nxt_avail' = m /\ b \in Nat /\ n \in Nat
      /\ UNCHANGED <<ret, caught_in_a_loop, p_fsroot, p_jobd, status>>
  BY <1>1 DEF Provisions
<1>3. /\ \A s \in Slots : s \in Slots' /\ (s # at => rn'[s] = rn[s])
      /\ \A s \in b .. (b + n) : rn'[s] = Guard(up)
      /\ \A s \in Slots' : s \in Slots \/ s \in b .. (b + n)
      /\ rn[at].rtype = "ALLOCJOB" => rn'[at] = rn[at]
      /\ rn[at].rtype # "ALLOCJOB" => rn'[at] = Recast(at)
  BY <1>1 DEF Provisions
<1>4. \A s \in b .. (b + n) : rn'[s].nm = NoName /\ rn'[s].children = NULL /\ rn'[s].gen = 0
  BY <1>3 DEF Guard
<1>5. rn[at].nm # NoName
  BY <1>2 DEF FillInv, NamedInv, Named
<1>6. /\ rn'[at].rtype = rn[at].rtype /\ rn'[at].parent = rn[at].parent
      /\ rn'[at].nm # NoName /\ rn'[at].gen # 0
      /\ rn[at].rtype # "CLUSTER" => rn'[at].nm = rn[at].nm
      /\ rn'[at].dyn = rn[at].dyn \/ rn[at].rtype \in ListTypes \cup {"JOBID"}
      /\ rn'[at].children # NULL => rn'[at].children = b /\ rn'[at].n = n
  <2>1. CASE rn[at].rtype = "ALLOCJOB"
    BY <1>2, <1>3, <1>5, <2>1
  <2>2. CASE rn[at].rtype # "ALLOCJOB"
    <3>1. PICK w : w = Recast(at) /\ w = rn'[at]
      BY <1>3, <2>2
    <3>2. DOMAIN rn[at] = {"rtype", "gen", "nm", "typ", "dyn", "parent", "children", "n", "isdir"}
      BY <1>2 DEF NodeOK, NodeFields
    <3>3. /\ w.rtype = rn[at].rtype /\ w.parent = rn[at].parent /\ w.gen = rn[at].gen + 1
          /\ w.nm = (IF rn[at].rtype = "CLUSTER" THEN in.cname ELSE rn[at].nm)
          /\ rn[at].rtype \notin ListTypes \cup {"JOBID"} => w.dyn = rn[at].dyn
          /\ w.children = b /\ w.n = n
      <4>1. rn[at].rtype \in BuiltTypes
        BY <1>2
      <4>2. /\ Recast(at).rtype = rn[at].rtype /\ Recast(at).parent = rn[at].parent
            /\ Recast(at).gen = rn[at].gen + 1
            /\ Recast(at).nm = (IF rn[at].rtype = "CLUSTER" THEN in.cname ELSE rn[at].nm)
            /\ rn[at].rtype \notin ListTypes \cup {"JOBID"} => Recast(at).dyn = rn[at].dyn
            /\ Recast(at).children = nxt_avail /\ Recast(at).n = NKids(at)
        BY <3>2, <4>1, RecastIs DEF NKids
      <4> QED BY <1>2, <3>1, <4>2
    <3>4. in.cname # NoName
      BY InputsAssumption DEF IInv, PoolInv, NodeNames
    <3>5. w.nm # NoName /\ w.gen # 0
      BY <1>2, <1>5, <3>3, <3>4
    <3> QED BY <3>1, <3>3, <3>5
  <2> QED BY <2>1, <2>2
<1>7. Grows(at)
  BY <1>2, <1>3, <1>4, <1>6 DEF Grows
<1>8. PICK f \in Frames : /\ f = [at |-> at, blk |-> b, next |-> b, kid |-> 1]
                          /\ f.at = at /\ f.kid = 1 /\ f.blk = b
  <2>1. at \in Nat
    BY <1>2 DEF Frames
  <2>2. LET h == [at |-> at, blk |-> b, next |-> b, kid |-> 1]
        IN h \in Frames /\ h.at = at /\ h.kid = 1 /\ h.blk = b
    BY <1>2, <2>1 DEF Frames
  <2> QED BY <2>2
<1>9. Depth' = k /\ stack'[k] = f /\ \A j \in 1 .. (k - 1) : stack'[j] = stack[j]
  <2>1. SetTop(f)
    BY <1>2, <1>8, Zenon
  <2> QED BY <1>2, <2>1, SetTopIs DEF IInv, VarsInv
<1>10. \A j \in 1 .. (k - 1) : j \in 1 .. Depth /\ j < Depth /\ rn'[stack[j].at] = rn[stack[j].at]
  <2>1. \A j \in 1 .. (k - 1) : j \in 1 .. Depth /\ j < Depth /\ j < k
    BY <1>2
  <2>2. \A j \in 1 .. (k - 1) : stack[j].at \in Slots /\ stack[j].at < at
    BY <1>2, <2>1, FrameFacts DEF IInv, OrderInv, OrderOK
  <2>3. at \in Int /\ Slots \subseteq Int
    BY <1>2, BaseAllocAssumption DEF Slots, IInv, PoolInv
  <2>4. \A j \in 1 .. (k - 1) : stack[j].at \in Slots /\ stack[j].at # at
    BY <2>2, <2>3
  <2>5. \A s \in Slots : s # at => rn'[s] = rn[s]
    BY <1>3
  <2> QED BY <2>1, <2>4, <2>5, Zenon
<1>11. Stands(k - 1)
  <2>1. k - 1 \in 0 .. Depth
    BY <1>2
  <2>2. \A j \in 1 .. (k - 1) : /\ stack'[j].at = stack[j].at /\ stack'[j].blk = stack[j].blk
                                /\ rn'[stack[j].at] = rn[stack[j].at]
    BY <1>9, <1>10
  <2>3. rn'[at].nm = rn[at].nm \/ \A d \in Dirs : at \in Kids(d) => rn[d].rtype # "JOBS"
    <3>1. ASSUME rn[at].rtype = "CLUSTER"
          PROVE  \A d \in Dirs : at \in Kids(d) => rn[d].rtype # "JOBS"
      <4>1. at = stack[k].at
        BY <1>2
      <4>2. /\ MayHold(rn[stack[k - 1].at].rtype, rn[at].rtype)
            /\ \A d \in Dirs : at \in Kids(d) => d = stack[k - 1].at
        BY <1>2, <4>1, CalledFrom
      <4> QED BY <3>1, <4>2 DEF MayHold
    <3> QED BY <1>6, <3>1
  <2>4. FilledInv /\ (caught_in_a_loop => caught_in_a_loop')
    BY <1>2 DEF FillInv
  <2> QED BY <1>2, <1>7, <2>1, <2>2, <2>3, <2>4, StandsThen
<1>12. \A i \in 1 .. Depth : CountOK(i)
  <2>1. ~Doomed
    BY <1>2 DEF Doomed
  <2> QED BY <1>2, <2>1 DEF CountInv
<1>13. \A i \in 1 .. (k - 1) : CountOK(i)'
  <2>1. \A i \in 1 .. (k - 1) : CountOK(i) /\ stack'[i].kid = stack[i].kid
    BY <1>9, <1>10, <1>12
  <2>2. \A i \in 1 .. (k - 1) : Reached(i)' = Reached(i)
    <3>1. TAKE i \in 1 .. (k - 1)
    <3>2. i < Depth /\ i < k /\ i + 1 \in 1 .. Depth
      BY <1>2
    <3>3. CASE i + 1 = k
      <4>1. Reached(i) = nxt_avail
        BY <1>2, <3>3 DEF Reached
      <4>2. Reached(i)' = b
        BY <1>8, <1>9, <3>2, <3>3 DEF Reached
      <4> QED BY <1>2, <4>1, <4>2
    <3>4. CASE i + 1 # k
      <4>1. i + 1 \in 1 .. (k - 1)
        BY <1>2, <3>2, <3>4
      <4>2. stack'[i + 1] = stack[i + 1]
        BY <1>9, <4>1
      <4>3. stack[i + 1].kid > 0
        <5>1. stack[i + 1].kid # 0
          BY <1>2, <3>2, <3>4 DEF IInv, EnteredInv, EnteredOK
        <5>2. stack[i + 1].kid \in Nat
          <6>1. PICK j : j = i + 1
            OBVIOUS
          <6>2. stack[j].kid \in Nat
            BY <3>2, <6>1, RunsIn
          <6> QED BY <6>1, <6>2
        <5> QED BY <5>1, <5>2
      <4> QED BY <1>9, <3>2, <4>2, <4>3 DEF Reached
    <3> QED BY <3>3, <3>4
  <2>3. k - 1 < Depth /\ k - 1 < k
    BY <1>2
  <2> QED BY <1>2, <1>9, <1>11, <2>1, <2>2, <2>3, LowersCount
<1>14. PICK t, u : t = rn[at].rtype /\ u = Up(k)
  OBVIOUS
<1>15. 1 \in 1 .. (k - 1) /\ k - 1 \in 1 .. (k - 1)
  BY <1>2
<1>16. /\ \A a, c : Sized(a, c)' = Sized(a, c)
       /\ \A a, c, j : Spent(a, c, j)' = Spent(a, c, j)
       /\ \A j : Lost(j)' = Lost(j)
  BY <1>11, <1>15, StandsSame
<1>17. (rn[stack[k].at].rtype)' = t /\ Up(k)' = u
  <2>1. (rn[stack[k].at].rtype)' = t
    BY <1>6, <1>8, <1>9, <1>14
  <2>2. (rn[stack[k - 1].at].rtype)' = rn[stack[k - 1].at].rtype
    BY <1>9, <1>10, <1>15
  <2>3. k # 1
    BY <1>2
  <2> QED BY <1>14, <2>1, <2>2, <2>3 DEF Up
<1>18. Fin(k)' = 0 /\ Done(k)' = 0 /\ Reached(k)' = m /\ (stack[k].blk)' = b
  <2>1. stack'[k].kid = 1 /\ ret' = Pending /\ ~(k < k) /\ stack'[k].blk = b
    BY <1>2, <1>8, <1>9
  <2>2. Fin(k)' = 0 /\ Done(k)' = 0
    BY <1>9, <2>1 DEF Fin, Done
  <2> QED BY <1>2, <1>9, <2>1, <2>2 DEF Reached
<1>19. NKids(stack[k].at)' = n
  <2>1. \A j \in 1 .. k : \A s : s = stack[j].at =>
           /\ rn'[s].rtype = rn[s].rtype /\ rn'[s].parent = rn[s].parent
           /\ \/ rn'[s].dyn = rn[s].dyn
              \/ j = Depth /\ rn[s].rtype \in ListTypes \cup {"JOBID"}
    <3>1. \A j \in 1 .. k : j \in 1 .. (k - 1) \/ (j = k /\ stack[j].at = at)
      BY <1>2
    <3> QED BY <1>2, <1>6, <1>10, <3>1
  <2>2. k \in 1 .. k /\ Depth \in Nat /\ at = stack[k].at
    BY <1>2
  <2>3. NKids(at)' = NKids(at)
    BY <1>2, <2>1, <2>2, ListsKept DEF IInv
  <2>4. stack'[k].at = at
    BY <1>8, <1>9
  <2> QED BY <1>2, <2>3, <2>4
<1>20. AccountOK(k)'
  <2>1. Counted(k)' => Sized(t, u) \/ t = "JOBID"
    <3>1. (Sized(rn[stack[k].at].rtype, Up(k)))' = Sized(t, u)
      BY <1>16, <1>17
    <3> QED BY <1>17, <3>1 DEF Counted
  <2>2. Sized(t, u) \/ t = "JOBID" => Spent(t, u, 0) = 0
    BY <1>2, <1>14, SpentNothing
  <2>3. (Spent(rn[stack[k].at].rtype, Up(k), Fin(k)))' = Spent(t, u, 0)
    BY <1>16, <1>17, <1>18
  <2>4. b + n + 1 + 0 = m
    BY <1>2
  <2>5. Counted(k)' => Reached(k)' = (stack[k].blk)' + NKids(stack[k].at)' + 1
                                     + (Spent(rn[stack[k].at].rtype, Up(k), Fin(k)))'
    BY <1>18, <1>19, <2>1, <2>2, <2>3, <2>4
  <2> QED BY <2>5 DEF AccountOK
<1>21. GivenOK(k)'
  <2>1. /\ t = "PARTS" => in'.part.state = "array"
        /\ t = "NODES" => in'.node.state = "array"
        /\ t = "JOBS" => in'.job.state = "array"
    <3>1. Check(at) = "OK" /\ in \in Inputs
      BY <1>2 DEF Provision, IInv, PoolInv
    <3> QED BY <1>2, <1>14, <3>1, CheckSays
  <2>2. \A j \in 1 .. 0 : FALSE
    OBVIOUS
  <2> QED BY <1>17, <1>18, <2>1, <2>2 DEF GivenOK
<1>22. JobsOK(k)'
  <2>1. (Lost(Fin(k)))' = 0
    <3>1. Lost(0) = 0
      BY JobsSums DEF IInv, PoolInv
    <3> QED BY <1>16, <1>18, <3>1
  <2>2. \A j \in 1 .. 0 : FALSE
    OBVIOUS
  <2> QED BY <1>18, <2>1, <2>2 DEF JobsOK
<1>23. JobLostOK(k)'
  BY <1>2 DEF JobLostOK, Pending, NULL
<1>24. \A i \in 1 .. k : CountOK(i)'
  <2>1. \A i \in 1 .. k : i \in 1 .. (k - 1) \/ i = k
    BY <1>2
  <2> QED BY <1>13, <1>20, <1>21, <1>22, <1>23, <2>1 DEF CountOK
<1>25. stack'[1].blk = BaseAlloc + 1
  BY <1>2, <1>9, <1>15 DEF CountInv, FirstBlock
<1> QED BY <1>2, <1>9, <1>24, <1>25, CountThen DEF Building

\* rn_mkfsroot() provisions its own node with its block.
LEMMA RootCount ==
  ASSUME IInv, CountInv, MkFsRoot, ~Exit
  PROVE  CountInv'
<1>1. PICK b \in Nat : \E node : RootMade(b, node)
  BY RootIs
<1>2. PICK node : RootMade(b, node)
  BY <1>1
<1>3. /\ b = BaseAlloc /\ b > 0 /\ rn'[b] = node /\ nxt_avail' = b + 5 /\ in' = in
      /\ node.rtype = "ROOT"
      /\ stack' = <<[at |-> b, blk |-> b + 1, next |-> b + 1, kid |-> 1]>>
      /\ status' = "building" /\ ret' = Pending /\ caught_in_a_loop' = caught_in_a_loop
  BY <1>2 DEF RootMade, Building
<1>4. Depth' = 1 /\ stack'[1].at = b /\ stack'[1].kid = 1 /\ stack'[1].blk = b + 1
  BY <1>3 DEF Depth
<1>5. (rn[stack[1].at].rtype)' = "ROOT"
  BY <1>3, <1>4
<1>6. Fin(1)' = 0 /\ Done(1)' = 0 /\ Reached(1)' = b + 5
  <2>1. ~(1 < 1)
    OBVIOUS
  <2>2. Fin(1)' = 0 /\ Done(1)' = 0
    BY <1>3, <1>4, <2>1 DEF Fin, Done
  <2> QED BY <1>3, <1>4, <2>1, <2>2 DEF Reached
<1>7. NKids(stack[1].at)' = 3
  <2>1. \A s : s = b => Row(rn'[s].rtype) = "ROOT"
    BY <1>3, BuiltRows DEF BuiltTypes
  <2>2. \A s : s = b => Children(s)' = RootChildren'
    BY <2>1, Zenon DEF Children
  <2>3. RootChildren' = RootChildren /\ Len(RootChildren) = 3
    BY DEF RootChildren, Dir, Child
  <2>4. \A s : s = b => NKids(s)' = Len(RootChildren)
    BY <2>2, <2>3, Zenon DEF NKids
  <2> QED BY <1>4, <2>3, <2>4
<1>8. AccountOK(1)'
  <2>1. (Spent(rn[stack[1].at].rtype, Up(1), Fin(1)))' = 0
    <3>1. \A u : Spent("ROOT", u, 0)' = 0
      BY DEF Spent
    <3> QED BY <1>5, <1>6, <3>1
  <2>2. b + 5 = (b + 1) + 3 + 1 + 0
    OBVIOUS
  <2>3. Reached(1)' = (stack[1].blk)' + NKids(stack[1].at)' + 1
                      + (Spent(rn[stack[1].at].rtype, Up(1), Fin(1)))'
    BY <1>4, <1>6, <1>7, <2>1, <2>2
  <2> QED BY <2>3 DEF AccountOK
<1>9. GivenOK(1)' /\ JobsOK(1)' /\ JobLostOK(1)'
  <2>1. \A j \in 1 .. 0 : FALSE
    OBVIOUS
  <2> QED BY <1>5, <1>6, <2>1 DEF GivenOK, JobsOK, JobLostOK
<1>10. \A k \in 1 .. 1 : CountOK(k)'
  <2>1. \A k \in 1 .. 1 : k = 1
    OBVIOUS
  <2> QED BY <1>8, <1>9, <2>1 DEF CountOK
<1> QED BY <1>3, <1>4, <1>10, CountThen

\* Before mk_fs() runs no assertion has failed.
LEMMA InitCount == Init => CountInv
<1> SUFFICES ASSUME Init PROVE CountInv
  OBVIOUS
<1>1. stack = <<>> /\ status = "building" /\ ~caught_in_a_loop /\ Depth = 0
  BY DEF Init, Depth
<1>2. \A k \in 1 .. Depth : FALSE
  BY <1>1
<1> QED BY <1>1, <1>2 DEF CountInv, CaughtInv, FirstBlock

\* Every step of mk_fs() keeps the accounts.
LEMMA NextCount == IInv /\ TreeInv /\ MountInv /\ FillInv /\ CountInv /\ [Next]_vars => CountInv'
<1> SUFFICES ASSUME IInv, TreeInv, MountInv, FillInv, CountInv, [Next]_vars PROVE CountInv'
  OBVIOUS
<1>1. CASE Exit
  BY <1>1, EndCount DEF Exit, pool, roots
<1>2. CASE UNCHANGED vars
  BY <1>2, EndCount DEF vars
<1>3. CASE ~Exit /\ Next
  <2>1. ~RefuseAttr
    BY <1>3 DEF RefuseAttr
  <2>2. Ended => CountInv'
    BY <1>2 DEF Ended
  <2> QED BY <1>3, <2>1, <2>2, CallCount, MissCount, RootCount, RefuseCount, ProvisionCount,
             AttrCount, ChildFailsCount, ChildBuiltCount, ReturnCount DEF Next, Build
<1> QED BY <1>1, <1>2, <1>3

\* What the replies say and what the pool has given, at every return of a builder
\* (rn_cast() and the builders it calls): the accounts behind a mount.
THEOREM CountInvariant == Spec => []CountInv
<1>1. Init => CountInv
  BY InitCount
<1>2. IInv /\ TreeInv /\ MountInv /\ FillInv /\ CountInv /\ [Next]_vars => CountInv'
  BY NextCount
<1> QED BY <1>1, <1>2, Invariant, TreeInvariant, MountInvariant, FillInvariant, PTL DEF Spec

\* What a whole tree takes is a number.
LEMMA NeedsNat ==
  ASSUME in \in Inputs
  PROVE  Needs(in) \in Nat
<1>1. PICK r, c, k : r = AttrsNeed("ROOT") /\ c = ClusterNeed /\ k = CtlsNeed
  OBVIOUS
<1>2. r \in Nat /\ c \in Nat /\ k \in Nat
  BY <1>1, NeedsAre
<1>3. Needs(in) = Block(4) + r + c + k
  BY <1>1, NeedsAre
<1> QED BY <1>2, <1>3 DEF Block

\* mk_fs() mounts only where the replies and the pool let it, and a mounted tree
\* has taken from the pool exactly what the closed form of the replies says.
THEOREM Accounted == Spec => []MountAccounted
<1>1. ASSUME IInv, CountInv PROVE MountAccounted
  <2> SUFFICES ASSUME status = "mounted" PROVE Mountable /\ nxt_avail = BaseAlloc + Needs(in)
    BY DEF MountAccounted
  <2>1. Buildable /\ nxt_avail = BaseAlloc + Needs(in)
    BY <1>1 DEF CountInv
  <2>2. in \in Inputs /\ nxt_avail - BaseAlloc <= in.maxalloc
    BY <1>1 DEF IInv, PoolInv
  <2>3. Needs(in) \in Nat
    BY <2>2, NeedsNat
  <2>4. Needs(in) <= in.maxalloc
    <3>1. PICK w, m : w = Needs(in) /\ m = in.maxalloc
      OBVIOUS
    <3>2. w \in Nat /\ m \in Nat
      BY <2>2, <2>3, <3>1, InputsAssumption
    <3>3. nxt_avail = BaseAlloc + w /\ nxt_avail - BaseAlloc <= m
      BY <2>1, <2>2, <3>1
    <3> QED BY <3>1, <3>2, <3>3, BaseAllocAssumption
  <2> QED BY <2>1, <2>4 DEF Mountable
<1> QED BY <1>1, Invariant, CountInvariant, PTL
=============================================================================
