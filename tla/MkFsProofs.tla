----------------------------- MODULE MkFsProofs -----------------------------
(***************************************************************************)
(* The invariant of MkFsInv is kept by every step of mk_fs(): first what a *)
(* step of one builder leaves alone, the lists, blocks and places of the   *)
(* builders below it and the blocks and guards of the directories, then a  *)
(* lemma per step.  What follows for every reply of the resource manager   *)
(* and every size of the pool: the types, that children are cast into      *)
(* their own block, and that the tree takes its slots from the inode space *)
(* as RnodeSpace promises.                                                 *)
(***************************************************************************)
EXTENDS MkFsInv, SequenceTheorems, TLAPS

-----------------------------------------------------------------------------
(* The tables of rn_tab.c and the lists of children *)

\* rn_type_t, written out.
LEMMA RTypesSet ==
  RTypes = {"PROVISION", "GUARD", "ROOT", "CLUSTER", "PARTS", "PARTNAME", "NODES", "NODENAME",
            "JOBS", "JOBID", "JOBSTEPS", "JOBSTEPID", "ALLOCJOB", "NODESTATE", "ATTRIBUTES",
            "ATTRIBUTE", "CONTROL", "CONTEXT", "KNOB", "SIGNATURE"}
  BY DEF RTypes, RNodeType

\* rn_tab.c: the rows are in the order of the types, but for two.
LEMMA RowIs ==
  ASSUME NEW rtype \in RTypes
  PROVE  Row(rtype) = IF rtype = "ALLOCJOB" THEN "NODESTATE"
                      ELSE IF rtype = "NODESTATE" THEN "ALLOCJOB" ELSE rtype
<1>1. /\ TypeNumber("PROVISION") = 0 /\ TypeNumber("GUARD") = 1 /\ TypeNumber("ROOT") = 2
      /\ TypeNumber("CLUSTER") = 3 /\ TypeNumber("PARTS") = 4 /\ TypeNumber("PARTNAME") = 5
      /\ TypeNumber("NODES") = 6 /\ TypeNumber("NODENAME") = 7 /\ TypeNumber("JOBS") = 8
      /\ TypeNumber("JOBID") = 9 /\ TypeNumber("JOBSTEPS") = 10
      /\ TypeNumber("JOBSTEPID") = 11 /\ TypeNumber("ALLOCJOB") = 12
      /\ TypeNumber("NODESTATE") = 13 /\ TypeNumber("ATTRIBUTES") = 14
      /\ TypeNumber("ATTRIBUTE") = 15 /\ TypeNumber("CONTROL") = 16
      /\ TypeNumber("CONTEXT") = 17 /\ TypeNumber("KNOB") = 18
      /\ TypeNumber("SIGNATURE") = 19
  BY DEF TypeNumber, RNodeType
<1> QED BY <1>1, RTypesSet DEF Row, rnode_buildtab

\* The types that are built have their own row, but for the job of a node,
\* which is built by the row of the node states.
LEMMA BuiltRows ==
  ASSUME NEW rtype \in BuiltTypes
  PROVE  rtype \in RTypes /\ Row(rtype) = IF rtype = "ALLOCJOB" THEN "NODESTATE" ELSE rtype
<1>1. rtype \in RTypes /\ rtype # "NODESTATE"
  BY RTypesSet DEF BuiltTypes, AttrTypes, AttrSubtypes
<1> QED BY <1>1, RowIs

\* The list of children by the type of the directory.
LEMMA ChildrenIs ==
  ASSUME NEW s, rn[s].rtype \in BuiltTypes
  PROVE  /\ rn[s].rtype = "ROOT" => Children(s) = RootChildren
         /\ rn[s].rtype = "CLUSTER" => Children(s) = ClusterChildren
         /\ rn[s].rtype = "PARTS" => Children(s) = PartsChildren
         /\ rn[s].rtype = "PARTNAME" => Children(s) = PartChildren(s)
         /\ rn[s].rtype = "NODES" => Children(s) = NodesChildren
         /\ rn[s].rtype = "NODENAME" => Children(s) = NodeChildren(s)
         /\ rn[s].rtype = "ALLOCJOB" => Children(s) = StateChildren(s)
         /\ rn[s].rtype = "JOBS" => Children(s) = JobsChildren
         /\ rn[s].rtype = "JOBID" => Children(s) = JobChildren(s)
         /\ rn[s].rtype = "JOBSTEPS" => Children(s) = StepsChildren
         /\ rn[s].rtype = "JOBSTEPID" => Children(s) = StepChildren(s)
         /\ rn[s].rtype = "ATTRIBUTES" => Children(s) = AttrChildren(s)
         /\ rn[s].rtype = "CONTROL" => Children(s) = CtlChildren(s)
         /\ rn[s].rtype \in AttrTypes => Children(s) = <<>>
<1> DEFINE row == Row(rn[s].rtype)
<1>1. row = IF rn[s].rtype = "ALLOCJOB" THEN "NODESTATE" ELSE rn[s].rtype
  BY BuiltRows
<1>2. rn[s].rtype \in AttrTypes =>
         row \in {"ATTRIBUTE", "CONTEXT", "KNOB", "SIGNATURE"}
  BY <1>1 DEF AttrTypes, AttrSubtypes
<1>3. /\ row = "ROOT" => Children(s) = RootChildren
      /\ row = "CLUSTER" => Children(s) = ClusterChildren
      /\ row = "PARTS" => Children(s) = PartsChildren
      /\ row = "PARTNAME" => Children(s) = PartChildren(s)
      /\ row = "NODES" => Children(s) = NodesChildren
      /\ row = "NODENAME" => Children(s) = NodeChildren(s)
      /\ row = "NODESTATE" => Children(s) = StateChildren(s)
  BY Zenon DEF Children
<1>4. /\ row = "JOBS" => Children(s) = JobsChildren
      /\ row = "JOBID" => Children(s) = JobChildren(s)
      /\ row = "JOBSTEPS" => Children(s) = StepsChildren
      /\ row = "JOBSTEPID" => Children(s) = StepChildren(s)
      /\ row = "ATTRIBUTES" => Children(s) = AttrChildren(s)
      /\ row = "CONTROL" => Children(s) = CtlChildren(s)
  BY Zenon DEF Children
<1>5. row \in {"ATTRIBUTE", "CONTEXT", "KNOB", "SIGNATURE"} => Children(s) = <<>>
  BY Zenon DEF Children
<1> HIDE DEF row
<1> QED BY <1>1, <1>2, <1>3, <1>4, <1>5

-----------------------------------------------------------------------------
(* What is in the lists *)

\* A list as the builders use it: what it is made of, and for which directory.
ListFor(s, list) ==
    /\ Len(list) \in Nat /\ DOMAIN list = 1 .. Len(list)
    /\ \A j \in 1 .. Len(list) :
          /\ MayHold(rn[s].rtype, list[j].rtype) /\ Cast(list[j])
          /\ list[j].onNull = "CONTINUE" => rn[s].rtype = "JOBS"
          /\ list[j].rtype = "ALLOCJOB" => rn[s].rtype = "ALLOCJOB" \/ j = Len(list)

\* A function on 1 .. n is a sequence of length n.
LEMMA LenOfFun ==
  ASSUME NEW n \in Nat, NEW f, f = [j \in 1 .. n |-> f[j]]
  PROVE  Len(f) = n /\ DOMAIN f = 1 .. n
<1> DEFINE S == {f[j] : j \in 1 .. n}
<1>1. f \in [1 .. n -> S]
  OBVIOUS
<1> HIDE DEF S
<1> QED BY <1>1

\* Every record of a reply gives one child, in the order of the reply.
LEMMA RecordsListed ==
  ASSUME NEW msg, IsReply(msg), NEW rtype, NEW onNull
  PROVE  /\ Len(OfRecords(msg, rtype, onNull)) = Len(msg.recs) /\ Len(msg.recs) \in Nat
         /\ DOMAIN OfRecords(msg, rtype, onNull) = 1 .. Len(msg.recs)
         /\ \A j \in 1 .. Len(msg.recs) :
               OfRecords(msg, rtype, onNull)[j] = Dir(rtype, msg.recs[j], j, onNull)
<1>1. DOMAIN msg.recs = 1 .. Len(msg.recs) /\ Len(msg.recs) \in Nat
  BY LenProperties DEF IsReply
<1>2. OfRecords(msg, rtype, onNull)
        = [j \in 1 .. Len(msg.recs) |-> Dir(rtype, msg.recs[j], j, onNull)]
  BY <1>1 DEF OfRecords
<1> QED BY <1>1, <1>2, LenOfFun

\* A directory of records may hold what its reply gives.
LEMMA RecordsFor ==
  ASSUME NEW s, NEW msg, IsReply(msg), NEW rtype, NEW onNull,
         rtype \notin AttrTypes \cup {"ALLOCJOB"}, MayHold(rn[s].rtype, rtype),
         onNull = "CONTINUE" => rn[s].rtype = "JOBS"
  PROVE  ListFor(s, OfRecords(msg, rtype, onNull))
<1>1. \A j \in 1 .. Len(msg.recs) : LET c == Dir(rtype, msg.recs[j], j, onNull)
                                    IN c.rtype = rtype /\ c.onNull = onNull
  BY DEF Dir, Child
<1> QED BY <1>1, RecordsListed DEF ListFor, Cast

\* Lists written out, of one to three children.
LEMMA OneFor ==
  ASSUME NEW s, NEW a, a.onNull # "CONTINUE", MayHold(rn[s].rtype, a.rtype), Cast(a)
  PROVE  ListFor(s, <<a>>)
  BY DEF ListFor

\* Two children, the second of which may be the job of a node.
LEMMA TwoFor ==
  ASSUME NEW s, NEW a, NEW b, a.onNull # "CONTINUE", b.onNull # "CONTINUE",
         MayHold(rn[s].rtype, a.rtype), MayHold(rn[s].rtype, b.rtype), Cast(a), Cast(b),
         a.rtype # "ALLOCJOB"
  PROVE  ListFor(s, <<a, b>>)
  BY DEF ListFor

\* Three children.
LEMMA ThreeFor ==
  ASSUME NEW s, NEW a, NEW b, NEW c,
         a.onNull # "CONTINUE", b.onNull # "CONTINUE", c.onNull # "CONTINUE",
         MayHold(rn[s].rtype, a.rtype), MayHold(rn[s].rtype, b.rtype),
         MayHold(rn[s].rtype, c.rtype), Cast(a), Cast(b), Cast(c),
         a.rtype # "ALLOCJOB", b.rtype # "ALLOCJOB"
  PROVE  ListFor(s, <<a, b, c>>)
  BY DEF ListFor

\* The attributes of a type: the last one only may be the job of a node.
LEMMA AttrTabIs ==
  ASSUME NEW up, MayHold(up, "ATTRIBUTES")
  PROVE  LET tab == AttrTab[up]
         IN /\ Len(tab) \in Nat /\ DOMAIN tab = 1 .. Len(tab)
            /\ \A j \in 1 .. Len(tab) : /\ tab[j].typ # "NONE"
                                        /\ tab[j].typ = "ALLOCJOB" => j = Len(tab)
<1> DEFINE Ok(tab) == /\ Len(tab) \in Nat /\ DOMAIN tab = 1 .. Len(tab)
                      /\ \A j \in 1 .. Len(tab) : /\ tab[j].typ # "NONE"
                                                  /\ tab[j].typ = "ALLOCJOB" => j = Len(tab)
<1>1. \A a : a.typ # "NONE" => Ok(<<a>>)
  OBVIOUS
<1>2. \A a, b : a.typ \notin {"NONE", "ALLOCJOB"} /\ b.typ # "NONE" => Ok(<<a, b>>)
  OBVIOUS
<1>3. \A a, b, c : /\ a.typ \notin {"NONE", "ALLOCJOB"} /\ b.typ \notin {"NONE", "ALLOCJOB"}
                   /\ c.typ # "NONE"
                   => Ok(<<a, b, c>>)
  OBVIOUS
<1> HIDE DEF Ok
<1>4. Ok(AttrTab["ROOT"]) /\ Ok(AttrTab["NODENAME"])
  BY <1>2 DEF AttrTab
<1>5. Ok(AttrTab["CLUSTER"]) /\ Ok(AttrTab["JOBSTEPID"])
  BY <1>1 DEF AttrTab
<1>6. Ok(AttrTab["PARTNAME"]) /\ Ok(AttrTab["JOBID"])
  BY <1>3 DEF AttrTab
<1>7. up \in {"ROOT", "CLUSTER", "PARTNAME", "NODENAME", "JOBID", "JOBSTEPID"}
  BY DEF MayHold
<1>8. Ok(AttrTab[up])
  BY <1>4, <1>5, <1>6, <1>7
<1> QED BY <1>8 DEF Ok

\* The commands of a type.
LEMMA CtlTabIs ==
  ASSUME NEW up, MayHold(up, "CONTROL")
  PROVE  Len(CtlTab[up]) \in Nat /\ DOMAIN CtlTab[up] = 1 .. Len(CtlTab[up])
<1> DEFINE Ok(tab) == Len(tab) \in Nat /\ DOMAIN tab = 1 .. Len(tab)
<1>1. \A a, b, c, d : Ok(<<a, b, c>>) /\ Ok(<<a, b, c, d>>)
  OBVIOUS
<1> HIDE DEF Ok
<1>2. Ok(CtlTab["ROOT"]) /\ Ok(CtlTab["JOBID"])
  BY <1>1, Zenon DEF CtlTab
<1>3. up \in {"ROOT", "JOBID"}
  BY Zenon DEF MayHold
<1>4. Ok(CtlTab[up])
  BY <1>2, <1>3
<1> QED BY <1>4 DEF Ok

\* An attribute directory is given attributes only.
LEMMA AttrFor ==
  ASSUME NEW s, Listable(s), rn[s].rtype = "ATTRIBUTES"
  PROVE  ListFor(s, AttrChildren(s))
<1> DEFINE tab == AttrTab[rn[rn[s].parent].rtype]
           Attr(j) == Child(p2r_typ_convtab(tab[j].typ), tab[j].nm, tab[j].typ, rn[s].dyn,
                            "ASSERT")
<1>1. /\ Len(tab) \in Nat /\ DOMAIN tab = 1 .. Len(tab)
      /\ \A j \in 1 .. Len(tab) : tab[j].typ # "NONE" /\ (tab[j].typ = "ALLOCJOB" => j = Len(tab))
  BY AttrTabIs DEF Listable
<1>2. AttrChildren(s) = [j \in 1 .. Len(tab) |-> Attr(j)]
  BY <1>1 DEF AttrChildren
<1> HIDE DEF tab
<1>3. \A typ : /\ p2r_typ_convtab(typ) \in {"CONTEXT", "SIGNATURE", "ALLOCJOB", "ATTRIBUTE"}
               /\ p2r_typ_convtab(typ) = "ALLOCJOB" => typ = "ALLOCJOB"
  BY DEF p2r_typ_convtab
<1>4. \A j \in 1 .. Len(tab) :
         /\ Attr(j).rtype = p2r_typ_convtab(tab[j].typ) /\ Attr(j).onNull = "ASSERT"
         /\ Cast(Attr(j))
  <2> DEFINE AsCast(c, typ) == /\ c.rtype = p2r_typ_convtab(typ) /\ c.onNull = "ASSERT"
                               /\ c.typ = typ
  <2>1. \A rtype, nm, typ, dyn :
           rtype = p2r_typ_convtab(typ) => AsCast(Child(rtype, nm, typ, dyn, "ASSERT"), typ)
    BY DEF Child
  <2> HIDE DEF AsCast
  <2>2. \A j \in 1 .. Len(tab) : AsCast(Attr(j), tab[j].typ)
    BY <2>1, Zenon
  <2> HIDE DEF Attr
  <2>3. \A j \in 1 .. Len(tab) : AsCast(Attr(j), tab[j].typ) /\ tab[j].typ # "NONE"
    BY <1>1, <2>2, Zenon
  <2> USE DEF AsCast
  <2> QED BY <2>3 DEF Cast
<1>5. Len(AttrChildren(s)) = Len(tab) /\ DOMAIN AttrChildren(s) = 1 .. Len(tab)
  <2> HIDE DEF Attr
  <2>1. PICK n \in Nat : n = Len(tab)
    BY <1>1, Zenon
  <2> QED BY <1>2, <2>1, LenOfFun
<1> HIDE DEF Attr
<1>6. \A j \in 1 .. Len(tab) : /\ MayHold("ATTRIBUTES", Attr(j).rtype)
                               /\ Attr(j).rtype = "ALLOCJOB" => j = Len(tab)
  <2> SUFFICES ASSUME NEW j \in 1 .. Len(tab)
               PROVE  /\ MayHold("ATTRIBUTES", Attr(j).rtype)
                      /\ Attr(j).rtype = "ALLOCJOB" => j = Len(tab)
    OBVIOUS
  <2>1. PICK typ : typ = tab[j].typ /\ Attr(j).rtype = p2r_typ_convtab(typ)
    BY <1>4
  <2>2. typ = "ALLOCJOB" => j = Len(tab)
    BY <1>1, <2>1, Zenon
  <2>3. MayHold("ATTRIBUTES", p2r_typ_convtab(typ))
    BY <1>3 DEF MayHold
  <2>4. MayHold("ATTRIBUTES", Attr(j).rtype)
    BY <2>1, <2>3, Zenon
  <2>5. Attr(j).rtype = "ALLOCJOB" => typ = "ALLOCJOB"
    BY <1>3, <2>1
  <2> QED BY <2>2, <2>4, <2>5
<1>7. \A j \in 1 .. Len(tab) : AttrChildren(s)[j] = Attr(j)
  <2> HIDE DEF Attr
  <2> QED BY <1>2, Zenon
<1>8. \A j \in 1 .. Len(tab) :
         /\ MayHold("ATTRIBUTES", Attr(j).rtype) /\ Cast(Attr(j))
         /\ Attr(j).onNull # "CONTINUE" /\ (Attr(j).rtype = "ALLOCJOB" => j = Len(tab))
  <2> HIDE DEF Attr
  <2> QED BY <1>4, <1>6, Zenon
<1> HIDE DEF Attr
<1> QED BY <1>1, <1>5, <1>7, <1>8, Zenon DEF ListFor

\* A control directory is given knobs only.
LEMMA CtlFor ==
  ASSUME NEW s, Listable(s), rn[s].rtype = "CONTROL"
  PROVE  ListFor(s, CtlChildren(s))
<1> DEFINE tab == CtlTab[rn[rn[s].parent].rtype]
           Ctl(j) == Dir("KNOB", tab[j].nm, tab[j].fn, "ASSERT")
<1>1. Len(tab) \in Nat /\ DOMAIN tab = 1 .. Len(tab)
  BY CtlTabIs DEF Listable
<1>2. CtlChildren(s) = [j \in 1 .. Len(tab) |-> Ctl(j)]
  BY <1>1 DEF CtlChildren
<1> HIDE DEF tab
<1>3. \A j \in 1 .. Len(tab) : /\ Cast(Ctl(j)) /\ Ctl(j).rtype = "KNOB"
                               /\ Ctl(j).onNull = "ASSERT"
  BY DEF Dir, Child, Cast
<1>4. Len(CtlChildren(s)) = Len(tab) /\ DOMAIN CtlChildren(s) = 1 .. Len(tab)
  BY <1>1, <1>2, LenOfFun
<1>5. MayHold("CONTROL", "KNOB")
  BY Zenon DEF MayHold
<1> HIDE DEF Ctl
<1>6. \A j \in 1 .. Len(tab) : CtlChildren(s)[j] = Ctl(j)
  BY <1>2, Zenon
<1>7. \A j \in 1 .. Len(tab) : /\ MayHold("CONTROL", Ctl(j).rtype) /\ Cast(Ctl(j))
                               /\ Ctl(j).onNull # "CONTINUE" /\ Ctl(j).rtype # "ALLOCJOB"
  BY <1>3, <1>5
<1> QED BY <1>1, <1>4, <1>6, <1>7, Zenon DEF ListFor

\* rn_mknstate() makes an attribute, and the job of an allocated node.
LEMMA StateFor ==
  ASSUME NEW s, rn[s].rtype = "ALLOCJOB"
  PROVE  ListFor(s, StateChildren(s))
<1> DEFINE nm == IF in.alloc THEN "alloc" ELSE "idle"
           a == Child("ATTRIBUTE", nm, "NODESTATE", rn[s].dyn, "ASSERT")
           b == Child("ALLOCJOB", "state", "ALLOCJOB", rn[s].dyn, "ASSERT")
<1>1. StateChildren(s) = <<a>> \o IF in.alloc THEN <<b>> ELSE <<>>
  BY DEF StateChildren
<1> HIDE DEF nm
<1>2. p2r_typ_convtab("NODESTATE") = "ATTRIBUTE" /\ "ALLOCJOB" \notin AttrTypes
  BY DEF p2r_typ_convtab, AttrTypes, AttrSubtypes
<1>3. /\ a.rtype = "ATTRIBUTE" /\ a.onNull = "ASSERT" /\ Cast(a)
      /\ b.rtype = "ALLOCJOB" /\ b.onNull = "ASSERT" /\ Cast(b)
  BY <1>2 DEF Child, Cast
<1>4. MayHold("ALLOCJOB", "ATTRIBUTE") /\ MayHold("ALLOCJOB", "ALLOCJOB")
  BY DEF MayHold
<1> HIDE DEF a, b
<1>5. <<a>> \in Seq({a, b}) /\ <<b>> \in Seq({a, b}) /\ <<>> \in Seq({a, b})
  OBVIOUS
<1>6. <<a>> \o <<>> = <<a>>
  BY <1>5, ConcatEmptySeq
<1>7. <<a>> \o <<b>> = <<a, b>>
  <2>1. LET ab == <<a>> \o <<b>>
        IN ab \in Seq({a, b}) /\ Len(ab) = 2 /\ ab[1] = a /\ ab[2] = b
    BY <1>5
  <2>2. <<a, b>> \in Seq({a, b}) /\ Len(<<a, b>>) = 2
    OBVIOUS
  <2>3. \A j \in 1 .. 2 : (<<a>> \o <<b>>)[j] = <<a, b>>[j]
    BY <2>1
  <2> QED BY <2>1, <2>2, <2>3, SeqEqual
<1> QED BY <1>1, <1>3, <1>4, <1>6, <1>7, OneFor, TwoFor

\* Whatever the replies are, a directory is given children it may hold.
LEMMA ChildrenFor ==
  ASSUME NEW s, Listable(s)
  PROVE  ListFor(s, Children(s))
<1> DEFINE rtype == rn[s].rtype
<1>1. rtype \in BuiltTypes /\ in \in Inputs
  BY DEF Listable
<1>2. /\ rtype = "ROOT" => Children(s) = RootChildren
      /\ rtype = "CLUSTER" => Children(s) = ClusterChildren
      /\ rtype = "PARTS" => Children(s) = PartsChildren
      /\ rtype = "PARTNAME" => Children(s) = PartChildren(s)
      /\ rtype = "NODES" => Children(s) = NodesChildren
      /\ rtype = "NODENAME" => Children(s) = NodeChildren(s)
      /\ rtype = "ALLOCJOB" => Children(s) = StateChildren(s)
      /\ rtype = "JOBS" => Children(s) = JobsChildren
      /\ rtype = "JOBID" => Children(s) = JobChildren(s)
      /\ rtype = "JOBSTEPS" => Children(s) = StepsChildren
      /\ rtype = "JOBSTEPID" => Children(s) = StepChildren(s)
      /\ rtype = "ATTRIBUTES" => Children(s) = AttrChildren(s)
      /\ rtype = "CONTROL" => Children(s) = CtlChildren(s)
      /\ rtype \in AttrTypes => Children(s) = <<>>
  BY <1>1, ChildrenIs
<1>3. \A t, nm, dyn, onNull :
         LET c == Dir(t, nm, dyn, onNull)
         IN c.rtype = t /\ c.onNull = onNull /\ (t \notin AttrTypes => Cast(c))
  BY DEF Dir, Child, Cast
<1>4. {"ATTRIBUTES", "CLUSTER", "CONTROL", "PARTS", "JOBS", "NODES", "JOBSTEPS", "PARTNAME",
       "NODENAME", "JOBID", "JOBSTEPID"} \cap (AttrTypes \cup {"ALLOCJOB"}) = {}
  BY DEF AttrTypes, AttrSubtypes
<1>5. IsReply(in.part) /\ IsReply(in.node) /\ IsReply(in.job) /\ IsReply(in.step)
  BY <1>1, InputsAssumption
<1>6. CASE rtype \in {"PARTS", "NODES", "JOBS", "JOBSTEPS"}
  <2>1. rtype = "PARTS" => ListFor(s, PartsChildren)
    BY <1>4, <1>5, RecordsFor DEF PartsChildren, MayHold
  <2>2. rtype = "NODES" => ListFor(s, NodesChildren)
    BY <1>4, <1>5, RecordsFor DEF NodesChildren, MayHold
  <2>3. rtype = "JOBS" => ListFor(s, JobsChildren)
    BY <1>4, <1>5, RecordsFor DEF JobsChildren, MayHold
  <2>4. rtype = "JOBSTEPS" => ListFor(s, StepsChildren)
    BY <1>4, <1>5, RecordsFor DEF StepsChildren, MayHold
  <2> QED BY <1>2, <1>6, <2>1, <2>2, <2>3, <2>4
<1>7. CASE rtype = "ROOT"
  <2>1. MayHold("ROOT", "ATTRIBUTES") /\ MayHold("ROOT", "CLUSTER") /\ MayHold("ROOT", "CONTROL")
    BY DEF MayHold
  <2> QED BY <1>2, <1>3, <1>4, <1>7, <2>1, ThreeFor DEF RootChildren
<1>8. CASE rtype = "CLUSTER"
  <2>1. MayHold("CLUSTER", "ATTRIBUTES") /\ MayHold("CLUSTER", "PARTS") /\ MayHold("CLUSTER", "JOBS")
    BY DEF MayHold
  <2> QED BY <1>2, <1>3, <1>4, <1>8, <2>1, ThreeFor DEF ClusterChildren
<1>9. CASE rtype = "PARTNAME"
  <2>1. MayHold("PARTNAME", "NODES") /\ MayHold("PARTNAME", "ATTRIBUTES")
    BY DEF MayHold
  <2> QED BY <1>2, <1>3, <1>4, <1>9, <2>1, TwoFor DEF PartChildren
<1>10. CASE rtype \in {"NODENAME", "JOBSTEPID"}
  <2>1. MayHold("NODENAME", "ATTRIBUTES") /\ MayHold("JOBSTEPID", "ATTRIBUTES")
    BY DEF MayHold
  <2> QED BY <1>2, <1>3, <1>4, <1>10, <2>1, OneFor DEF NodeChildren, StepChildren
<1>11. CASE rtype = "JOBID"
  <2>1. MayHold("JOBID", "JOBSTEPS") /\ MayHold("JOBID", "ATTRIBUTES") /\ MayHold("JOBID", "CONTROL")
    BY DEF MayHold
  <2> QED BY <1>2, <1>3, <1>4, <1>11, <2>1, ThreeFor DEF JobChildren
<1>12. CASE rtype \in {"ALLOCJOB", "ATTRIBUTES", "CONTROL"}
  BY <1>2, <1>12, StateFor, AttrFor, CtlFor
<1>13. CASE rtype \in AttrTypes
  BY <1>2, <1>13 DEF ListFor
<1> QED BY <1>1, <1>6, <1>7, <1>8, <1>9, <1>10, <1>11, <1>12, <1>13 DEF BuiltTypes

-----------------------------------------------------------------------------

\* The list of a directory hangs on the type and the pointer of it and of its
\* parent only.  It is the same before and after the builder's own recast.
LEMMA ChildrenKept ==
  ASSUME NEW s, in' = in, rn[s].rtype \in BuiltTypes,
         rn'[s].rtype = rn[s].rtype, rn'[s].parent = rn[s].parent,
         rn'[s].dyn = rn[s].dyn \/ rn[s].rtype \in ListTypes \cup {"JOBID"},
         rn[s].rtype # "ROOT" => /\ rn'[rn[s].parent].rtype = rn[rn[s].parent].rtype
                                 /\ rn'[rn[s].parent].dyn = rn[rn[s].parent].dyn
  PROVE  Children(s)' = Children(s)
<1>1. CASE rn[s].rtype = "ROOT"
  <2>1. Row(rn[s].rtype) = "ROOT"
    BY <1>1, BuiltRows
  <2>2. Children(s) = RootChildren
    BY <2>1, Zenon DEF Children
  <2>3. Children(s)' = RootChildren
    BY <2>1, Zenon DEF Children, RootChildren, Dir, Child
  <2> QED BY <2>2, <2>3
<1>2. CASE rn[s].rtype # "ROOT" /\ rn'[s].dyn = rn[s].dyn
  BY <1>2, Zenon DEF Children, PartsChildren, PartChildren, NodesChildren, NodeChildren,
     StateChildren, JobsChildren, JobChildren, StepsChildren, StepChildren, AttrChildren,
     CtlChildren, OfRecords, JobRecord
<1>3. CASE rn[s].rtype = "JOBID"
  <2>1. Row(rn[s].rtype) = "JOBID"
    BY <1>3, BuiltRows
  <2>2. Children(s) = JobChildren(s)
    BY <2>1, Zenon DEF Children
  <2>3. Children(s)' = JobChildren(s)'
    BY <2>1, Zenon DEF Children
  <2>4. JobRecord(s)' = JobRecord(s)
    BY <1>3, Zenon DEF JobRecord
  <2> QED BY <2>2, <2>3, <2>4, Zenon DEF JobChildren
<1>4. CASE rn[s].rtype \in ListTypes
  <2>1. /\ Row(rn[s].rtype) = rn[s].rtype
        /\ rn[s].rtype \in {"PARTS", "NODES", "JOBS", "JOBSTEPS"}
    BY <1>4, BuiltRows DEF ListTypes
  <2>2. Row(rn[s].rtype) = "PARTS" => Children(s) = PartsChildren /\ Children(s)' = PartsChildren'
    BY Zenon DEF Children
  <2>3. Row(rn[s].rtype) = "NODES" => Children(s) = NodesChildren /\ Children(s)' = NodesChildren'
    BY Zenon DEF Children
  <2>4. Row(rn[s].rtype) = "JOBS" => Children(s) = JobsChildren /\ Children(s)' = JobsChildren'
    BY Zenon DEF Children
  <2>5. Row(rn[s].rtype) = "JOBSTEPS" => Children(s) = StepsChildren /\ Children(s)' = StepsChildren'
    BY Zenon DEF Children
  <2>6. /\ PartsChildren' = PartsChildren /\ NodesChildren' = NodesChildren
        /\ JobsChildren' = JobsChildren /\ StepsChildren' = StepsChildren
    BY Zenon DEF PartsChildren, NodesChildren, JobsChildren, StepsChildren
  <2> QED BY <2>1, <2>2, <2>3, <2>4, <2>5, <2>6
<1> QED BY <1>1, <1>2, <1>3, <1>4

\* A second cast changes nothing but the name, the pointer and the block.
LEMMA RecastIs ==
  ASSUME NEW s, rn[s].rtype \in BuiltTypes,
         DOMAIN rn[s] = {"rtype", "gen", "nm", "typ", "dyn", "parent", "children", "n", "isdir"}
  PROVE  /\ DOMAIN Recast(s) = DOMAIN rn[s]
         /\ Recast(s).rtype = rn[s].rtype /\ Recast(s).parent = rn[s].parent
         /\ Recast(s).typ = rn[s].typ /\ Recast(s).isdir = rn[s].isdir
         /\ Recast(s).gen = rn[s].gen + 1
         /\ Recast(s).nm = IF rn[s].rtype = "CLUSTER" THEN in.cname ELSE rn[s].nm
         /\ rn[s].rtype \in ListTypes => Recast(s).dyn = 1
         /\ rn[s].rtype = "JOBID" => Recast(s).dyn = JobRecord(s)
         /\ rn[s].rtype \notin ListTypes \cup {"JOBID"} => Recast(s).dyn = rn[s].dyn
         /\ Recast(s).children = nxt_avail /\ Recast(s).n = Len(Children(s))
<1> DEFINE dyn == CASE rn[s].rtype \in {"PARTS", "NODES", "JOBS", "JOBSTEPS"} -> 1
                    [] rn[s].rtype = "JOBID" -> JobRecord(s)
                    [] OTHER -> rn[s].dyn
<1>1. Recast(s) = [rn[s] EXCEPT
          !.gen = @ + 1,
          !.nm = IF rn[s].rtype = "CLUSTER" THEN in.cname ELSE @,
          !.dyn = dyn,
          !.children = nxt_avail,
          !.n = Len(Children(s))]
  BY Zenon DEF Recast
<1>2. /\ rn[s].rtype \in ListTypes => dyn = 1
      /\ rn[s].rtype = "JOBID" => dyn = JobRecord(s)
      /\ rn[s].rtype \notin ListTypes \cup {"JOBID"} => dyn = rn[s].dyn
  BY Zenon DEF ListTypes
<1> HIDE DEF dyn
<1> QED BY <1>1, <1>2

USE BaseAllocAssumption DEF NULL, Pending

-----------------------------------------------------------------------------
(* The stack *)

\* The innermost builder is the last of the stack.
LEMMA TopIs ==
  ASSUME stack \in Seq(Frames), stack # <<>>
  PROVE  /\ Depth \in Nat /\ Depth >= 1 /\ Top \in Frames /\ Top = stack[Depth]
         /\ Below \in Seq(Frames) /\ Len(Below) = Depth - 1
         /\ \A k \in 1 .. (Depth - 1) : Below[k] = stack[k]
         /\ Below = <<>> <=> Depth = 1
<1>1. Depth \in Nat /\ Depth >= 1
  BY EmptySeq, LenProperties DEF Depth
<1>2. Top = stack[Depth] /\ Top \in Frames
  BY <1>1, ElementOfSeq DEF Top, Depth
<1>3. Below \in Seq(Frames) /\ Len(Below) = Depth - 1 /\ \A k \in 1 .. (Depth - 1) : Below[k] = stack[k]
  <2>1. \A k \in 1 .. (Depth - 1) : stack[k] \in Frames
    BY <1>1, ElementOfSeq DEF Depth
  <2> DEFINE m == Len(stack) - 1
  <2>2. m \in Int /\ m = Depth - 1 /\ Below = SubSeq(stack, 1, m) /\ m >= 0
    BY <1>1 DEF Depth, Below
  <2> HIDE DEF m
  <2>3. \A k \in 1 .. m : stack[k] \in Frames
    BY <2>1, <2>2
  <2>4. /\ SubSeq(stack, 1, m) \in Seq(Frames)
        /\ Len(SubSeq(stack, 1, m)) = IF 1 <= m THEN m - 1 + 1 ELSE 0
        /\ \A k \in 1 .. (m - 1 + 1) : SubSeq(stack, 1, m)[k] = stack[1 + k - 1]
    BY <2>2, <2>3, SubSeqProperties
  <2> QED BY <1>1, <2>2, <2>4
<1>4. Below = <<>> <=> Depth = 1
  BY <1>1, <1>3, EmptySeq
<1> QED BY <1>1, <1>2, <1>3, <1>4

\* Setting the innermost builder changes no other.
LEMMA SetTopIs ==
  ASSUME stack \in Seq(Frames), stack # <<>>, NEW f \in Frames, SetTop(f)
  PROVE  /\ stack' \in Seq(Frames) /\ Depth' = Depth /\ stack'[Depth] = f
         /\ \A k \in 1 .. (Depth - 1) : stack'[k] = stack[k]
<1>1. Below \in Seq(Frames) /\ Len(Below) = Depth - 1 /\ \A k \in 1 .. (Depth - 1) : Below[k] = stack[k]
      /\ Depth \in Nat /\ Depth >= 1
  BY TopIs
<1>2. stack' = Append(Below, f)
  BY DEF SetTop
<1> QED BY <1>1, <1>2, AppendProperties DEF Depth

\* Calling a builder changes none that runs.
LEMMA PushIs ==
  ASSUME stack \in Seq(Frames), NEW f \in Frames, stack' = Append(stack, f)
  PROVE  /\ stack' \in Seq(Frames) /\ Depth' = Depth + 1 /\ stack'[Depth + 1] = f
         /\ \A k \in 1 .. Depth : stack'[k] = stack[k]
  BY AppendProperties, LenProperties DEF Depth

-----------------------------------------------------------------------------
(* What the invariant says of the builders *)

\* What a directory holds has a builder.
LEMMA HeldIsBuilt ==
  ASSUME NEW up, NEW rtype, MayHold(up, rtype)
  PROVE  rtype \in BuiltTypes /\ rtype # "ROOT"
  BY DEF MayHold, BuiltTypes, AttrTypes, AttrSubtypes

\* A running builder has a node of a type that is built, and a list of children.
LEMMA FrameFacts ==
  ASSUME PoolInv, FrameInv, NEW k \in 1 .. Depth
  PROVE  /\ stack[k].at \in Slots /\ rn[stack[k].at].rtype \in BuiltTypes
         /\ ListFor(stack[k].at, Children(stack[k].at))
         /\ NKids(stack[k].at) \in Nat
         /\ rn[stack[k].at].rtype = "ROOT" => NKids(stack[k].at) = 3
<1>1. stack[k].at \in Slots
  BY DEF FrameInv, FrameOK
<1>2. CASE k = 1
  <2>1. rn[stack[k].at].rtype = "ROOT"
    BY <1>2 DEF FrameInv, FrameOK
  <2> QED BY <1>1, <2>1, ChildrenFor, ChildrenIs
         DEF PoolInv, Listable, BuiltTypes, RootChildren, ListFor, NKids
<1>3. CASE k > 1
  <2>1. MayHold(rn[rn[stack[k].at].parent].rtype, rn[stack[k].at].rtype)
    BY <1>3 DEF FrameInv, FrameOK
  <2>2. rn[stack[k].at].rtype \in BuiltTypes /\ rn[stack[k].at].rtype # "ROOT"
    BY <2>1, HeldIsBuilt
  <2> QED BY <1>1, <2>1, <2>2, ChildrenFor DEF PoolInv, Listable, ListFor, NKids
<1> QED BY <1>2, <1>3

\* The places of a block.
LEMMA PosIs ==
  ASSUME NEW f \in Frames, NEW n \in Nat, rn[f.at].rtype = "ROOT" => n = 3,
         NEW p \in 1 .. n
  PROVE  /\ Pos(f, p) \in f.blk .. (f.blk + n - 1)
         /\ \A q \in 1 .. n : Pos(f, p) = Pos(f, q) => p = q
  BY DEF Pos, Frames

\* The node of a builder is neither fresh nor a guard.
LEMMA BuiltIsCast ==
  ASSUME NEW s, rn[s].rtype \in BuiltTypes
  PROVE  ~Fresh(s) /\ rn[s].rtype # "GUARD"
  BY DEF Fresh, Guard, BuiltTypes, AttrTypes, AttrSubtypes

\* A fresh slot is an unnamed guard without a block.
LEMMA FreshIs ==
  ASSUME NEW s, Fresh(s)
  PROVE  rn[s].rtype = "GUARD" /\ rn[s].nm = NoName /\ rn[s].children = NULL /\ rn[s].gen = 0
  BY DEF Fresh, Guard

\* The next child goes to a fresh slot of the builder's own block, which is
\* no other builder's, no directory's, and no guard.
LEMMA NextFree ==
  ASSUME IInv, Casting, More
  PROVE  /\ Top.kid \in 1 .. NKids(Top.at)
         /\ Top.next \in Slots /\ Fresh(Top.next)
         /\ Top.next \in Top.blk .. (Top.blk + NKids(Top.at) - 1)
         /\ \A k \in 1 .. Depth : stack[k].at < Top.next
         /\ \A k \in 1 .. Depth : stack[k].kid > 0 =>
               /\ Top.next # stack[k].blk + NKids(stack[k].at)
               /\ \A p \in (stack[k].kid + 1) .. NKids(stack[k].at) : Top.next # Pos(stack[k], p)
         /\ \A d \in Dirs : Top.next # d /\ Top.next # GuardOf(d)
<1> DEFINE t == Top.next n == NKids(Top.at)
<1>1. /\ stack \in Seq(Frames) /\ stack # <<>> /\ Top.kid > 0 /\ ret = Pending
  BY DEF IInv, VarsInv, Casting, Running
<1>2. Depth \in Nat /\ Depth >= 1 /\ Top \in Frames /\ Top = stack[Depth]
  BY <1>1, TopIs
<1>3. /\ \A k \in 1 .. Depth : /\ NKids(stack[k].at) \in Nat /\ stack[k] \in Frames
                               /\ stack[k].at \in Slots /\ ~Fresh(stack[k].at)
                               /\ rn[stack[k].at].rtype = "ROOT" => NKids(stack[k].at) = 3
  BY <1>1, FrameFacts, BuiltIsCast, ElementOfSeq DEF IInv, Depth
<1>4. Top.kid \in 1 .. n
  <2>1. PICK m \in Nat : m = n
    BY <1>2, <1>3
  <2>2. PICK j \in Nat : j = Top.kid
    BY <1>2 DEF Frames
  <2>3. Top.kid <= n
    BY Zenon DEF More, NKids
  <2>4. j \in 1 .. m
    BY <1>1, <2>1, <2>2, <2>3
  <2> QED BY <2>1, <2>2, <2>4
<1>5. /\ Top.at < Top.blk /\ Top.blk + n < nxt_avail /\ t = Pos(Top, Top.kid)
      /\ Fresh(Pos(Top, Top.kid))
      /\ rn[Top.at].rtype # "ALLOCJOB" => rn[Top.at].children = Top.blk /\ rn[Top.at].n = n
      /\ rn[Top.at].rtype = "ALLOCJOB" => rn[Top.at].children = NULL
  <2>1. Done(Depth) = Top.kid - 1
    BY <1>1, <1>2 DEF Done
  <2>2. Top.kid \in (Done(Depth) + 1) .. n
    BY <1>2, <1>3, <1>4, <2>1 DEF Frames
  <2>3. Depth \in 1 .. Depth
    BY <1>2
  <2> QED BY <1>1, <1>2, <1>4, <2>2, <2>3 DEF IInv, BlockInv, BlockOK
<1>6. t \in Top.blk .. (Top.blk + n - 1) /\ \A q \in 1 .. n : q # Top.kid => t # Pos(Top, q)
  <2>1. n \in Nat /\ (rn[Top.at].rtype = "ROOT" => n = 3)
    BY <1>2, <1>3
  <2> QED BY <1>2, <1>4, <1>5, <2>1, PosIs
<1>7. t \in Slots /\ t \in Nat
  BY <1>2, <1>3, <1>5, <1>6 DEF Slots, IInv, PoolInv, Frames
<1>8. \A k \in 1 .. Depth : stack[k].at < t
  BY <1>2, <1>3, <1>5, <1>6 DEF IInv, OrderInv, OrderOK, Frames
<1>9. ASSUME NEW k \in 1 .. Depth, stack[k].kid > 0
      PROVE  /\ t # stack[k].blk + NKids(stack[k].at)
             /\ \A p \in (stack[k].kid + 1) .. NKids(stack[k].at) : t # Pos(stack[k], p)
  <2>1. CASE k = Depth
    BY <1>2, <1>3, <1>4, <1>6, <2>1 DEF Frames
  <2>2. CASE k < Depth
    <3>1. stack[k].blk + NKids(stack[k].at) < Top.blk
      BY <1>1, <1>2, <2>2 DEF IInv, OrderInv, OrderOK
    <3>2. ASSUME NEW p \in (stack[k].kid + 1) .. NKids(stack[k].at)
          PROVE  t # Pos(stack[k], p)
      <4>1. Pos(stack[k], p) \in stack[k].blk .. (stack[k].blk + NKids(stack[k].at) - 1)
        BY <1>3, <1>9, PosIs DEF Frames
      <4> QED BY <1>3, <1>6, <3>1, <4>1, <1>2 DEF Frames
    <3> QED BY <1>2, <1>3, <1>6, <3>1, <3>2 DEF Frames
  <2> QED BY <1>2, <2>1, <2>2
<1>10. ASSUME NEW d \in Dirs
       PROVE  t # d /\ t # GuardOf(d)
  <2>1. t # d
    BY <1>5, FreshIs DEF Dirs
  <2>2. rn[d].children \in Nat /\ rn[d].n \in Nat
    BY DEF Dirs, IInv, PoolInv, NodeOK, Slots
  <2>3. CASE d = Top.at
    <3>1. rn[Top.at].rtype # "ALLOCJOB"
      BY <1>5, <2>3 DEF Dirs
    <3> QED BY <1>2, <1>3, <1>5, <1>6, <2>3, <3>1 DEF GuardOf, Frames
  <2>4. CASE d # Top.at
    <3>1. Apart(rn[d].children, rn[d].n, Top.blk, n)
      BY <1>1, <1>2, <2>4 DEF IInv, ApartInv, ApartOK
    <3> QED BY <1>2, <1>3, <1>6, <2>1, <2>2, <3>1 DEF GuardOf, Apart, Frames
  <2> QED BY <2>1, <2>3, <2>4
<1> QED BY <1>4, <1>5, <1>6, <1>7, <1>8, <1>9, <1>10

-----------------------------------------------------------------------------

\* The pool after a step.
LEMMA SlotsThen ==
  ASSUME NEW m \in Nat, nxt_avail' = m
  PROVE  Slots' = BaseAlloc .. (m - 1)
  BY DEF Slots

\* The provisioner takes back no slot.
LEMMA SlotsGrow ==
  ASSUME nxt_avail \in Nat, nxt_avail' \in Nat, nxt_avail' >= nxt_avail
  PROVE  \A s \in Slots : s \in Slots'
<1> DEFINE m == nxt_avail'
<1>1. m \in Nat /\ m >= nxt_avail
  OBVIOUS
<1>2. Slots' = BaseAlloc .. (m - 1)
  BY <1>1, SlotsThen
<1>3. Slots = BaseAlloc .. (nxt_avail - 1)
  BY DEF Slots
<1> HIDE DEF m
<1> QED BY <1>1, <1>2, <1>3

\* The block of a builder after a step: its frame, its number of children, the
\* end of the pool, the child last cast, and its node.
BlockThen(k, f, n, m, done, node) ==
    /\ f \in Frames /\ stack'[k] = f
    /\ n \in Nat /\ NKids(stack[k].at)' = n
    /\ m \in Nat /\ nxt_avail' = m
    /\ done \in Int /\ Done(k)' = done
    /\ rn'[f.at] = node
    /\ f.kid <= n + 1 /\ f.at < f.blk /\ f.blk + n < m
    /\ node.rtype = "ALLOCJOB" => node.children = NULL
    /\ node.rtype # "ALLOCJOB" => node.children = f.blk /\ node.n = n
    /\ \A s : s = f.blk + n => Fresh(s)'
    /\ \A p : p = f.kid /\ p <= n => f.next = Pos(f, p)'
    /\ \A p \in (done + 1) .. n : Fresh(Pos(stack[k], p))'

\* Such a block is as the invariant says.
LEMMA BlockIsOK ==
  ASSUME NEW k, NEW f, NEW n, NEW m, NEW done, NEW node, BlockThen(k, f, n, m, done, node)
  PROVE  BlockOK(k)'
  BY DEF BlockOK, BlockThen, Frames

\* The lists of the running builders do not change under them: the innermost
\* one alone may recast its node.
LEMMA ListsKept ==
  ASSUME PoolInv, FrameInv, Depth \in Nat, in' = in, NEW m \in 1 .. Depth,
         \A k \in 1 .. m :
            LET s == stack[k].at
            IN /\ rn'[s].rtype = rn[s].rtype /\ rn'[s].parent = rn[s].parent
               /\ \/ rn'[s].dyn = rn[s].dyn
                  \/ k = Depth /\ rn[s].rtype \in ListTypes \cup {"JOBID"},
         NEW k \in 1 .. m, NEW s, s = stack[k].at
  PROVE  Children(s)' = Children(s) /\ NKids(s)' = NKids(s)
<1>1. rn[s].rtype \in BuiltTypes
  BY FrameFacts
<1>2. /\ rn'[s].rtype = rn[s].rtype /\ rn'[s].parent = rn[s].parent
      /\ rn'[s].dyn = rn[s].dyn \/ rn[s].rtype \in ListTypes \cup {"JOBID"}
  OBVIOUS
<1>3. rn[s].rtype # "ROOT" => /\ rn'[rn[s].parent].rtype = rn[rn[s].parent].rtype
                              /\ rn'[rn[s].parent].dyn = rn[rn[s].parent].dyn
  <2> SUFFICES ASSUME rn[s].rtype # "ROOT"
               PROVE  /\ rn'[rn[s].parent].rtype = rn[rn[s].parent].rtype
                      /\ rn'[rn[s].parent].dyn = rn[rn[s].parent].dyn
    OBVIOUS
  <2>1. k > 1 /\ k - 1 \in 1 .. m /\ k - 1 # Depth
    BY DEF FrameInv, FrameOK
  <2>2. rn[s].parent = stack[k - 1].at
    BY <2>1 DEF FrameInv, FrameOK
  <2> QED BY <2>1, <2>2
<1>4. Children(s)' = Children(s)
  BY <1>1, <1>2, <1>3, ChildrenKept
<1> QED BY <1>4 DEF NKids

\* A slot that no builder below the innermost one stands on, nor waits to
\* fill, nor has as its guard.
Untouched(x) ==
    \A k \in 1 .. (Depth - 1) :
        /\ x # stack[k].at /\ x # stack[k].blk + NKids(stack[k].at)
        /\ \A p \in (stack[k].kid + 1) .. NKids(stack[k].at) : x # Pos(stack[k], p)

\* Two nodes with one list of children.
SameList(v, w) == /\ w.rtype = v.rtype /\ w.parent = v.parent
                  /\ w.dyn = v.dyn \/ v.rtype \in ListTypes \cup {"JOBID"}

\* A step that writes one slot of the pool, which is not theirs, may extend
\* the pool, and changes the innermost builder only.
WritesAbove(x) ==
    /\ in' = in /\ nxt_avail' \in Nat /\ nxt_avail' >= nxt_avail
    /\ Untouched(x) /\ \A s \in Slots : s # x => rn'[s] = rn[s]
    /\ x = Top.at => SameList(rn[x], rn'[x]) \/ Depth' = Depth - 1
    /\ Depth' \in {Depth - 1, Depth, Depth + 1}
    /\ Depth' = Depth - 1 => ret' # Pending
    /\ \A k \in 1 .. (Depth - 1) : stack'[k] = stack[k]

\* What holds of the builders below the innermost one goes on to hold.
LEMMA LowerKept ==
  ASSUME IInv, stack # <<>>, NEW x, WritesAbove(x)
  PROVE  /\ \A k \in 1 .. (Depth - 1) : FrameOK(k)' /\ EnteredOK(k)' /\ BlockOK(k)'
         /\ \A j, k \in 1 .. (Depth - 1) : j < k => OrderOK(j, k)'
         /\ \A k \in 1 .. (Depth - 1) :
               /\ rn'[stack[k].at] = rn[stack[k].at]
               /\ \A s : s = stack[k].at => Children(s)' = Children(s) /\ NKids(s)' = NKids(s)
         /\ Depth' # Depth - 1 =>
               /\ SameList(rn[Top.at], rn'[Top.at])
               /\ \A k \in 1 .. Depth : \A s : s = stack[k].at =>
                     Children(s)' = Children(s) /\ NKids(s)' = NKids(s)
<1>1. Depth \in Nat /\ Depth >= 1 /\ Top = stack[Depth]
  BY TopIs DEF IInv, VarsInv
<1>2. /\ nxt_avail \in Nat /\ nxt_avail' \in Nat /\ nxt_avail' >= nxt_avail
      /\ \A k \in 1 .. (Depth - 1) : stack'[k] = stack[k]
  BY DEF WritesAbove, IInv, PoolInv
<1>3. \A k \in 1 .. Depth : /\ NKids(stack[k].at) \in Nat /\ stack[k] \in Frames
                            /\ stack[k].at \in Slots
                            /\ rn[stack[k].at].rtype = "ROOT" => NKids(stack[k].at) = 3
  BY FrameFacts, ElementOfSeq DEF IInv, VarsInv, Depth
<1>4. \A k \in 1 .. (Depth - 1) : rn'[stack[k].at] = rn[stack[k].at]
  BY <1>1, <1>3 DEF Untouched, WritesAbove
<1>5. Depth' # Depth - 1 => SameList(rn[Top.at], rn'[Top.at])
  <2>1. Top.at \in Slots /\ (Top.at # x => rn'[Top.at] = rn[Top.at])
    BY <1>1, <1>3 DEF WritesAbove
  <2>2. CASE Top.at = x
    BY <2>2, Zenon DEF WritesAbove
  <2>3. CASE Top.at # x
    BY <2>1, <2>3 DEF SameList
  <2> QED BY <2>2, <2>3
<1>6. /\ \A k \in 1 .. (Depth - 1) :
            LET s == stack[k].at
            IN /\ rn'[s].rtype = rn[s].rtype /\ rn'[s].parent = rn[s].parent
               /\ \/ rn'[s].dyn = rn[s].dyn
                  \/ k = Depth /\ rn[s].rtype \in ListTypes \cup {"JOBID"}
      /\ Depth' # Depth - 1 => \A k \in 1 .. Depth :
            LET s == stack[k].at
            IN /\ rn'[s].rtype = rn[s].rtype /\ rn'[s].parent = rn[s].parent
               /\ \/ rn'[s].dyn = rn[s].dyn
                  \/ k = Depth /\ rn[s].rtype \in ListTypes \cup {"JOBID"}
  <2>1. ASSUME NEW k \in 1 .. (Depth - 1)
        PROVE  LET s == stack[k].at
               IN rn'[s].rtype = rn[s].rtype /\ rn'[s].parent = rn[s].parent /\ rn'[s].dyn = rn[s].dyn
    BY <1>4
  <2>2. \A k \in 1 .. Depth : k = Depth \/ k \in 1 .. (Depth - 1)
    BY <1>1
  <2> QED BY <1>1, <1>5, <2>1, <2>2 DEF SameList
<1>7. \A k \in 1 .. (Depth - 1) : \A s : s = stack[k].at =>
         Children(s)' = Children(s) /\ NKids(s)' = NKids(s)
  <2>1. PICK m : m = Depth - 1
    OBVIOUS
  <2>2. m \in 1 .. Depth \/ m = 0
    BY <1>1, <2>1
  <2>3. in' = in
    BY DEF WritesAbove
  <2>4. CASE m = 0
    BY <2>1, <2>4
  <2>5. CASE m \in 1 .. Depth
    BY <1>1, <1>6, <2>1, <2>3, <2>5, ListsKept DEF IInv
  <2> QED BY <2>2, <2>4, <2>5
<1>8. Depth' # Depth - 1 => \A k \in 1 .. Depth : \A s : s = stack[k].at =>
        Children(s)' = Children(s) /\ NKids(s)' = NKids(s)
  <2>1. Depth \in 1 .. Depth /\ in' = in
    BY <1>1 DEF WritesAbove
  <2> QED BY <1>1, <1>6, <2>1, ListsKept DEF IInv
<1>9. ASSUME NEW k \in 1 .. (Depth - 1) PROVE FrameOK(k)'
  <2>1. FrameOK(k) /\ k \in 1 .. Depth /\ (k > 1 => k - 1 \in 1 .. (Depth - 1) /\ k - 1 \in 1 .. Depth)
    BY <1>1 DEF IInv, FrameInv
  <2>2. \A s \in Slots : s \in Slots'
    BY <1>2, SlotsGrow
  <2>3. stack'[k] = stack[k] /\ (k > 1 => stack'[k - 1] = stack[k - 1])
    BY <1>2, <2>1
  <2>4. /\ rn'[stack[k].at] = rn[stack[k].at]
        /\ k > 1 => rn'[stack[k - 1].at] = rn[stack[k - 1].at]
    BY <1>4, <2>1
  <2>5. k > 1 => /\ NKids(stack[k - 1].at)' = NKids(stack[k - 1].at)
                 /\ Children(stack[k - 1].at)' = Children(stack[k - 1].at)
    BY <1>7, <2>1, <2>3
  <2> QED BY <2>1, <2>2, <2>3, <2>4, <2>5 DEF FrameOK
<1>10. ASSUME NEW k \in 1 .. (Depth - 1) PROVE stack[k].kid > 0
  <2>1. EnteredOK(k) /\ k # Depth /\ k \in 1 .. Depth
    BY <1>1 DEF IInv, EnteredInv
  <2> QED BY <1>3, <2>1 DEF EnteredOK, Frames
<1>11. ASSUME NEW k \in 1 .. (Depth - 1) PROVE EnteredOK(k)'
  BY <1>10, <1>2 DEF EnteredOK
<1>12. ASSUME NEW k \in 1 .. (Depth - 1) PROVE BlockOK(k)'
  <2>1. PICK f \in Frames : f = stack[k]
    BY <1>1, <1>3
  <2>2. PICK n \in Nat : n = NKids(f.at)
    BY <1>1, <1>3, <2>1
  <2>3. /\ k \in 1 .. Depth /\ f.kid > 0 /\ f.at \in Slots /\ rn'[f.at] = rn[f.at]
        /\ stack'[k] = f /\ NKids(stack[k].at)' = n /\ (rn[f.at].rtype = "ROOT" => n = 3)
    BY <1>1, <1>3, <1>4, <1>7, <1>10, <1>2, <2>1, <2>2
  <2>4. /\ f.kid <= n + 1 /\ f.at < f.blk /\ f.blk + n < nxt_avail
        /\ rn[f.at].rtype = "ALLOCJOB" => rn[f.at].children = NULL
        /\ rn[f.at].rtype # "ALLOCJOB" => rn[f.at].children = f.blk /\ rn[f.at].n = n
        /\ Fresh(f.blk + n)
        /\ f.kid <= n => f.next = Pos(f, f.kid)
        /\ \A p \in (Done(k) + 1) .. n : Fresh(Pos(f, p))
    BY <2>1, <2>2, <2>3 DEF IInv, BlockInv, BlockOK
  <2>5. Done(k) = f.kid /\ Done(k)' = f.kid
    BY <1>1, <2>1, <2>3 DEF Done, WritesAbove
  <2>6. \A p : Pos(f, p)' = Pos(f, p) /\ Pos(stack[k], p)' = Pos(f, p)
    BY <2>3 DEF Pos
  <2>7. \A s \in Slots : s # x /\ Fresh(s) => Fresh(s)'
    BY DEF Fresh, Guard, WritesAbove
  <2>8. \A s \in f.blk .. (f.blk + n) : s \in Slots
    BY <1>2, <2>3, <2>4 DEF Slots, Frames
  <2>9. \A s : s = f.blk + n => Fresh(s)'
    <3>1. f.blk + n # x
      BY <2>1, <2>2 DEF Untouched, WritesAbove
    <3>2. f.blk + n \in f.blk .. (f.blk + n)
      BY DEF Frames
    <3> QED BY <2>4, <2>7, <2>8, <3>1, <3>2
  <2>10. ASSUME NEW p \in (f.kid + 1) .. n PROVE Fresh(Pos(stack[k], p))'
    <3>1. Pos(f, p) # x
      BY <2>1, <2>2 DEF Untouched, WritesAbove
    <3>2. Pos(f, p) \in f.blk .. (f.blk + n - 1)
      <4>1. p \in 1 .. n
        BY <2>3 DEF Frames
      <4> QED BY <2>3, <4>1, PosIs
    <3>3. Pos(f, p) \in Slots
      BY <2>8, <3>2 DEF Frames
    <3>4. Fresh(Pos(f, p))
      BY <2>4, <2>5
    <3>5. \A s : s = Pos(f, p) => Fresh(s)'
      BY <2>7, <3>1, <3>3, <3>4
    <3> QED BY <2>6, <3>5
  <2>11. PICK m \in Nat : m = nxt_avail'
    BY <1>2
  <2>12. f.blk + n < m
    BY <1>2, <2>4, <2>11 DEF Frames
  <2>13. /\ f.kid \in Int /\ \A p : p = f.kid /\ p <= n => f.next = Pos(f, p)'
    BY <2>4, <2>6 DEF Frames
  <2>14. BlockThen(k, f, n, m, f.kid, rn[f.at])
    BY <2>3, <2>4, <2>5, <2>9, <2>10, <2>11, <2>12, <2>13 DEF BlockThen
  <2> QED BY <2>14, BlockIsOK
<1>13. ASSUME NEW j \in 1 .. (Depth - 1), NEW k \in 1 .. (Depth - 1), j < k PROVE OrderOK(j, k)'
  <2>1. j \in 1 .. Depth /\ k \in 1 .. Depth
    BY <1>1
  <2>2. OrderOK(j, k) /\ stack'[j] = stack[j] /\ stack'[k] = stack[k]
    BY <1>13, <1>2, <2>1 DEF IInv, OrderInv
  <2>3. \A s : s = stack[j].at => NKids(s)' = NKids(s)
    BY <1>7, <2>1
  <2> QED BY <2>2, <2>3 DEF OrderOK
<1> QED BY <1>4, <1>7, <1>9, <1>11, <1>12, <1>13, <1>5, <1>8

\* A step that leaves the innermost builder in place leaves it where it was.
LEMMA TopKept ==
  ASSUME IInv, stack # <<>>, NEW x, WritesAbove(x), NEW k, k = Depth, Depth' # Depth - 1,
         NEW f \in Frames, stack'[k] = f, f.at = Top.at, f.kid > 0 \/ f.kid = Top.kid
  PROVE  /\ FrameOK(k)'
         /\ \A j \in 1 .. (k - 1) : stack'[j].at < f.at
<1>1. k \in Nat /\ k >= 1 /\ Top = stack[k] /\ k \in 1 .. Depth
  BY TopIs DEF IInv, VarsInv
<1>2. /\ nxt_avail \in Nat /\ nxt_avail' \in Nat /\ nxt_avail' >= nxt_avail
      /\ \A j \in 1 .. (k - 1) : stack'[j] = stack[j]
  BY DEF WritesAbove, IInv, PoolInv
<1>3. /\ \A j \in 1 .. (k - 1) : rn'[stack[j].at] = rn[stack[j].at]
      /\ SameList(rn[Top.at], rn'[Top.at])
      /\ \A j \in 1 .. k : \A s : s = stack[j].at =>
            Children(s)' = Children(s) /\ NKids(s)' = NKids(s)
  BY LowerKept
<1>4. FrameOK(k)
  BY <1>1 DEF IInv, FrameInv
<1>5. f.at \in Slots'
  BY <1>1, <1>2, <1>4, SlotsGrow DEF FrameOK
<1>6. k = 1 => rn'[f.at].rtype = "ROOT" /\ f.kid > 0
  BY <1>1, <1>3, <1>4 DEF FrameOK, SameList
<1>7. ASSUME k > 1, NEW g, g = stack[k - 1]
      PROVE  /\ g.kid \in 1 .. NKids(g.at)' /\ f.at = g.next
             /\ rn'[f.at].parent = g.at
             /\ MayHold(rn'[g.at].rtype, rn'[f.at].rtype)
             /\ rn'[f.at].rtype = Children(g.at)'[g.kid].rtype
             /\ stack'[k - 1] = g
  <2>1. k - 1 \in 1 .. (k - 1) /\ k - 1 \in 1 .. k
    BY <1>1, <1>7
  <2>2. /\ g.kid \in 1 .. NKids(g.at) /\ f.at = g.next /\ rn[f.at].parent = g.at
        /\ MayHold(rn[g.at].rtype, rn[f.at].rtype)
        /\ rn[f.at].rtype = Children(g.at)[g.kid].rtype
    BY <1>1, <1>4, <1>7 DEF FrameOK
  <2>3. /\ stack'[k - 1] = g /\ rn'[g.at] = rn[g.at] /\ SameList(rn[f.at], rn'[f.at])
    BY <1>2, <1>3, <1>7, <2>1
  <2>4. \A s : s = g.at => Children(s)' = Children(s) /\ NKids(s)' = NKids(s)
    BY <1>3, <1>7, <2>1
  <2> QED BY <2>2, <2>3, <2>4 DEF SameList
<1>8. \A j \in 1 .. (k - 1) : stack'[j].at < f.at
  BY <1>1, <1>2 DEF IInv, OrderInv, OrderOK
<1> QED BY <1>1, <1>5, <1>6, <1>7, <1>8 DEF FrameOK

\* The directories and their guards are not touched by a step that writes one
\* slot, neither a directory nor a guard.
LEMMA DirsKept ==
  ASSUME IInv, nxt_avail' = nxt_avail, DOMAIN rn' = DOMAIN rn, NEW x,
         \A s \in Slots : s # x => rn'[s] = rn[s],
         x \in Slots => rn[x].children = NULL /\ rn'[x].children = NULL,
         \A d \in Dirs : x # GuardOf(d)
  PROVE  /\ Dirs' = Dirs /\ \A d \in Dirs : rn'[d] = rn[d]
         /\ DirsInv' /\ BlocksApart'
<1>1. Slots' = Slots
  BY DEF Slots
<1>2. Dirs' = Dirs
  BY <1>1 DEF Dirs
<1>3. ASSUME NEW d \in Dirs
      PROVE  /\ rn'[d] = rn[d] /\ rn'[GuardOf(d)] = rn[GuardOf(d)]
             /\ rn[d].children > d /\ GuardOf(d) < nxt_avail
             /\ rn[GuardOf(d)].rtype = "GUARD" /\ rn[GuardOf(d)].nm = NoName
  <2>1. d \in Slots /\ rn[d].children \in Slots /\ rn[d].n \in Nat /\ rn[d].children # NULL
    BY DEF Dirs, IInv, PoolInv, NodeOK
  <2>2. /\ rn[d].children > d /\ GuardOf(d) < nxt_avail
        /\ rn[GuardOf(d)].rtype = "GUARD" /\ rn[GuardOf(d)].nm = NoName
    BY DEF IInv, DirsInv
  <2>3. GuardOf(d) \in Slots
    BY <2>1, <2>2 DEF GuardOf, Slots, IInv, PoolInv
  <2> QED BY <2>1, <2>2, <2>3
<1>4. ASSUME NEW d \in Dirs PROVE GuardOf(d)' = GuardOf(d)
  BY <1>3 DEF GuardOf
<1>5. DirsInv'
  BY <1>2, <1>3, <1>4 DEF DirsInv
<1>6. BlocksApart'
  BY <1>2, <1>3, Zenon DEF BlocksApart, IInv, ApartInv
<1> QED BY <1>2, <1>3, <1>5, <1>6

\* The end of the process leaves everything where it is.
LEMMA EndKeeps ==
  ASSUME IInv, UNCHANGED <<in, rn, nxt_avail, stack, ret, caught_in_a_loop, p_fsroot, p_jobd>>,
         status' \in {"building", "mounted", "exited", "crashed"},
         status' = "building" => status = "building"
  PROVE  IInv'
<1>1. \A s : Children(s)' = Children(s) /\ NKids(s)' = NKids(s)
  <2> SUFFICES ASSUME NEW s PROVE Children(s)' = Children(s) /\ NKids(s)' = NKids(s)
    OBVIOUS
  <2>1. RootChildren' = RootChildren /\ ClusterChildren' = ClusterChildren
    BY Zenon DEF RootChildren, ClusterChildren, Dir, Child
  <2>2. /\ PartsChildren' = PartsChildren /\ NodesChildren' = NodesChildren
        /\ JobsChildren' = JobsChildren /\ StepsChildren' = StepsChildren
    BY Zenon DEF PartsChildren, NodesChildren, JobsChildren, StepsChildren, OfRecords, Dir, Child
  <2>3. /\ PartChildren(s)' = PartChildren(s) /\ NodeChildren(s)' = NodeChildren(s)
        /\ StateChildren(s)' = StateChildren(s) /\ JobChildren(s)' = JobChildren(s)
        /\ StepChildren(s)' = StepChildren(s) /\ AttrChildren(s)' = AttrChildren(s)
        /\ CtlChildren(s)' = CtlChildren(s)
    BY Zenon DEF PartChildren, NodeChildren, StateChildren, JobChildren, StepChildren,
       AttrChildren, CtlChildren, JobRecord, Dir, Child
  <2>4. Children(s)' = Children(s)
    BY <2>1, <2>2, <2>3, Zenon DEF Children
  <2> QED BY <2>4, Zenon DEF NKids
<1>2. Slots' = Slots /\ Depth' = Depth /\ (Building' => Building)
  BY DEF Slots, Depth, Building
<1>3. \A s : Fresh(s)' = Fresh(s)
  BY DEF Fresh, Guard
<1>4. \A k : Done(k)' = Done(k)
  BY <1>2 DEF Done
<1>5. \A f, p : Pos(f, p)' = Pos(f, p)
  BY DEF Pos
<1>6. PoolInv'
  BY <1>2, Zenon DEF PoolInv, NodeOK, IInv
<1>7. VarsInv'
  BY <1>2, Zenon DEF VarsInv, IInv
<1>8. FrameInv'
  BY <1>1, <1>2, Zenon DEF FrameInv, FrameOK, IInv
<1>9. EnteredInv'
  BY <1>2, Zenon DEF EnteredInv, EnteredOK, IInv
<1>10. BlockInv'
  BY <1>1, <1>2, <1>3, <1>4, <1>5, Zenon DEF BlockInv, BlockOK, IInv
<1>11. OrderInv'
  BY <1>1, <1>2, Zenon DEF OrderInv, OrderOK, IInv
<1>12. DirsInv'
  BY <1>2, Zenon DEF DirsInv, Dirs, GuardOf, IInv
<1>13. ApartInv'
  BY <1>1, <1>2, Zenon DEF ApartInv, ApartOK, BlocksApart, Dirs, Apart, IInv
<1>14. RetInv'
  BY <1>1, <1>2, Zenon DEF RetInv, Top, IInv
<1> QED BY <1>6, <1>7, <1>8, <1>9, <1>10, <1>11, <1>12, <1>13, <1>14, Zenon DEF IInv

\* A step that leaves the innermost builder in place, with its block.
LEMMA StackKept ==
  ASSUME IInv, stack # <<>>, NEW x, WritesAbove(x), NEW k, k = Depth, Depth' = k,
         NEW f \in Frames, stack'[k] = f, f.at = Top.at, f.kid > 0,
         BlockOK(k)',
         \A j \in 1 .. (k - 1) : stack[j].blk + NKids(stack[j].at) < f.blk
  PROVE  FrameInv' /\ EnteredInv' /\ BlockInv' /\ OrderInv'
<1>1. k \in Nat /\ k >= 1 /\ \A j \in 1 .. k : j = k \/ j \in 1 .. (k - 1)
  BY TopIs DEF IInv, VarsInv
<1>2. /\ \A j \in 1 .. (k - 1) : FrameOK(j)' /\ EnteredOK(j)' /\ BlockOK(j)'
      /\ \A i, j \in 1 .. (k - 1) : i < j => OrderOK(i, j)'
      /\ \A j \in 1 .. (k - 1) : \A s : s = stack[j].at => NKids(s)' = NKids(s)
  <2>1. /\ \A j \in 1 .. (Depth - 1) : FrameOK(j)' /\ EnteredOK(j)' /\ BlockOK(j)'
        /\ \A i, j \in 1 .. (Depth - 1) : i < j => OrderOK(i, j)'
    BY LowerKept
  <2>2. \A j \in 1 .. (Depth - 1) : \A s : s = stack[j].at => NKids(s)' = NKids(s)
    BY LowerKept
  <2> QED BY <1>1, <2>1, <2>2
<1>3. FrameOK(k)' /\ \A j \in 1 .. (k - 1) : stack'[j].at < f.at
  <2>1. Depth' # Depth - 1
    BY <1>1
  <2> QED BY <2>1, TopKept
<1>4. EnteredOK(k)'
  BY DEF EnteredOK, Frames
<1>5. \A j \in 1 .. (k - 1) : OrderOK(j, k)'
  <2> SUFFICES ASSUME NEW j \in 1 .. (k - 1) PROVE OrderOK(j, k)'
    OBVIOUS
  <2>1. PICK g : g = stack[j] /\ stack'[j] = g
    BY <1>1 DEF WritesAbove
  <2>2. PICK n : n = NKids(g.at)
    OBVIOUS
  <2>3. NKids(stack[j].at)' = n /\ g.blk + n < f.blk /\ g.at < f.at
    BY <1>2, <1>3, <2>1, <2>2
  <2> QED BY <2>1, <2>3 DEF OrderOK
<1>6. FrameInv'
  BY <1>1, <1>2, <1>3 DEF FrameInv
<1>7. EnteredInv'
  BY <1>1, <1>2, <1>4 DEF EnteredInv
<1>8. BlockInv'
  BY <1>1, <1>2 DEF BlockInv
<1>9. OrderInv'
  BY <1>1, <1>2, <1>5 DEF OrderInv
<1> QED BY <1>6, <1>7, <1>8, <1>9

\* The directories and the blocks of builders that keep theirs.
LEMMA ApartKept ==
  ASSUME IInv, Dirs' = Dirs, BlocksApart', \A d \in Dirs : rn'[d] = rn[d],
         \A k \in 1 .. Depth' : stack'[k].kid > 0 =>
             /\ k \in 1 .. Depth /\ stack[k].kid > 0
             /\ stack'[k].at = stack[k].at /\ stack'[k].blk = stack[k].blk
             /\ \A s : s = stack[k].at => NKids(s)' = NKids(s)
  PROVE  ApartInv'
<1>1. ASSUME NEW k \in 1 .. Depth' PROVE ApartOK(k)'
  <2> SUFFICES ASSUME stack'[k].kid > 0, NEW d \in Dirs
               PROVE  \/ d = stack'[k].at
                      \/ Apart(rn'[d].children, rn'[d].n, stack'[k].blk, NKids(stack[k].at)')
    BY Zenon DEF ApartOK, Apart
  <2>1. /\ k \in 1 .. Depth /\ stack[k].kid > 0
        /\ stack'[k].at = stack[k].at /\ stack'[k].blk = stack[k].blk
        /\ \A s : s = stack[k].at => NKids(s)' = NKids(s)
    OBVIOUS
  <2>2. d = stack[k].at \/ Apart(rn[d].children, rn[d].n, stack[k].blk, NKids(stack[k].at))
    BY <2>1 DEF IInv, ApartInv, ApartOK
  <2>3. NKids(stack[k].at)' = NKids(stack[k].at)
    BY <2>1, Zenon
  <2> QED BY <2>1, <2>2, <2>3, Zenon
<1> QED BY <1>1, Zenon DEF ApartInv

\* The frame of a builder that goes on to the next child.
Advanced(f, nx) == [f EXCEPT !.kid = @ + 1, !.next = nx]
\* It is a frame again, of the same node and block.
LEMMA FrameStep ==
  ASSUME NEW f \in Frames, NEW nx \in Nat
  PROVE  LET g == Advanced(f, nx)
         IN /\ g \in Frames /\ g.at = f.at /\ g.blk = f.blk /\ g.next = nx
            /\ g.kid = f.kid + 1 /\ g.kid > 0
<1>1. PICK m \in Nat : m = f.kid + 1 /\ m > 0
  BY DEF Frames
<1>2. Advanced(f, nx) = [f EXCEPT !.kid = m, !.next = nx]
  BY <1>1, Zenon DEF Advanced
<1>3. Advanced(f, nx) \in Frames
  BY <1>2 DEF Frames
<1>4. LET g == Advanced(f, nx) IN g.at = f.at /\ g.blk = f.blk /\ g.next = nx /\ g.kid = m
  BY <1>2 DEF Frames
<1> QED BY <1>1, <1>3, <1>4

\* Slots that no builder below the innermost one is after.
LEMMA UntouchedOut ==
  ASSUME IInv, stack # <<>>, NEW x, x \notin Slots
  PROVE  Untouched(x)
<1>1. Depth \in Nat
  BY TopIs DEF IInv, VarsInv
<1>2. SUFFICES ASSUME NEW k \in 1 .. (Depth - 1)
               PROVE  /\ x # stack[k].at /\ x # stack[k].blk + NKids(stack[k].at)
                      /\ \A p \in (stack[k].kid + 1) .. NKids(stack[k].at) : x # Pos(stack[k], p)
  BY DEF Untouched
<1>3. PICK f \in Frames : f = stack[k] /\ k \in 1 .. Depth
  BY <1>1, ElementOfSeq DEF IInv, VarsInv, Depth
<1>4. PICK n \in Nat : n = NKids(f.at) /\ f.at \in Slots /\ (rn[f.at].rtype = "ROOT" => n = 3)
  BY <1>3, FrameFacts DEF IInv
<1>5. f.kid > 0
  <2>1. EnteredOK(k) /\ k # Depth
    BY <1>1, <1>3 DEF IInv, EnteredInv
  <2> QED BY <1>3, <2>1 DEF EnteredOK, Frames
<1>6. f.at < f.blk /\ f.blk + n < nxt_avail
  BY <1>3, <1>4, <1>5 DEF IInv, BlockInv, BlockOK
<1>7. \A s \in f.blk .. (f.blk + n) : s \in Slots
  BY <1>4, <1>6 DEF Slots, Frames, IInv, PoolInv
<1>8. ASSUME NEW p \in (f.kid + 1) .. n PROVE x # Pos(f, p)
  <2>1. p \in 1 .. n
    BY DEF Frames
  <2>2. Pos(f, p) \in f.blk .. (f.blk + n - 1)
    BY <1>4, <2>1, PosIs
  <2> QED BY <1>7, <2>2 DEF Frames
<1>9. f.blk + n \in f.blk .. (f.blk + n)
  BY DEF Frames
<1> QED BY <1>3, <1>4, <1>7, <1>8, <1>9

\* The node of the innermost builder is in no other builder's way either.
LEMMA UntouchedTop ==
  ASSUME IInv, stack # <<>>
  PROVE  Untouched(Top.at) /\ Top.at \in Slots /\ ~Fresh(Top.at)
<1>1. Depth \in Nat /\ Depth >= 1 /\ Top = stack[Depth] /\ Depth \in 1 .. Depth
  BY TopIs DEF IInv, VarsInv
<1>2. Top.at \in Slots /\ ~Fresh(Top.at)
  BY <1>1, FrameFacts, BuiltIsCast DEF IInv
<1>3. SUFFICES ASSUME NEW k \in 1 .. (Depth - 1)
               PROVE  /\ Top.at # stack[k].at /\ Top.at # stack[k].blk + NKids(stack[k].at)
                      /\ \A p \in (stack[k].kid + 1) .. NKids(stack[k].at) : Top.at # Pos(stack[k], p)
  BY <1>2 DEF Untouched
<1>4. stack[k] \in Frames /\ k \in 1 .. Depth
  BY <1>1, ElementOfSeq DEF IInv, VarsInv, Depth
<1>5. stack[k].at < Top.at
  BY <1>1, <1>4 DEF IInv, OrderInv, OrderOK
<1>6. stack[k].kid > 0
  <2>1. EnteredOK(k) /\ k # Depth
    BY <1>1, <1>4 DEF IInv, EnteredInv
  <2> QED BY <1>4, <2>1 DEF EnteredOK, Frames
<1>7. Done(k) = stack[k].kid
  BY <1>1, <1>4 DEF Done
<1>8. /\ Fresh(stack[k].blk + NKids(stack[k].at))
      /\ \A p \in (stack[k].kid + 1) .. NKids(stack[k].at) : Fresh(Pos(stack[k], p))
  BY <1>4, <1>6, <1>7 DEF IInv, BlockInv, BlockOK
<1>9. stack[k].at \in Slots
  BY <1>4, FrameFacts DEF IInv
<1> QED BY <1>2, <1>5, <1>8, <1>9 DEF Slots

\* The child that a builder has cast last, after a step.
LEMMA DoneThen ==
  ASSUME NEW k \in Nat, NEW f \in Frames, stack'[k] = f, Depth' = k
  PROVE  /\ ret' = Pending => Done(k)' = f.kid - 1
         /\ ret' # Pending => Done(k)' = f.kid
  BY DEF Done, Frames

\* A builder looks at what rn_cast() has returned, and goes on.
LEMMA AdvanceKeeps ==
  ASSUME IInv, Building, stack # <<>>, ret # Pending, NEW nx \in Nat,
         SetTop(Advanced(Top, nx)),
         Top.kid + 1 <= NKids(Top.at) => nx = Pos(Top, Top.kid + 1),
         ret' = Pending, UNCHANGED <<in, rn, nxt_avail, caught_in_a_loop, p_jobd, status>>,
         p_fsroot' \in Slots \cup {NULL}
  PROVE  IInv'
<1>1. PICK k \in Nat : k = Depth /\ k >= 1 /\ Top = stack[k] /\ Top \in Frames
  BY TopIs DEF IInv, VarsInv
<1>2. PICK f : f = Advanced(Top, nx)
  OBVIOUS
<1>3. /\ f \in Frames /\ f.at = Top.at /\ f.blk = Top.blk /\ f.next = nx
      /\ f.kid = Top.kid + 1 /\ f.kid > 0
  BY <1>1, <1>2, FrameStep
<1>4. /\ stack' \in Seq(Frames) /\ Depth' = k /\ stack'[k] = f
      /\ \A j \in 1 .. (k - 1) : stack'[j] = stack[j]
  <2>1. SetTop(f) /\ stack \in Seq(Frames)
    BY <1>2, Zenon DEF IInv, VarsInv
  <2> QED BY <1>1, <1>3, <2>1, SetTopIs
<1>5. stack' # <<>> /\ Top' = f
  BY <1>1, <1>4 DEF Top, Depth
<1>6. WritesAbove(NULL)
  <2>1. Untouched(NULL)
    BY UntouchedOut DEF Slots
  <2>2. NULL # Top.at
    BY UntouchedTop DEF Slots
  <2> QED BY <1>1, <1>4, <2>1, <2>2 DEF WritesAbove, IInv, PoolInv
<1>7. \A j \in 1 .. k : \A s : s = stack[j].at => Children(s)' = Children(s) /\ NKids(s)' = NKids(s)
  <2>1. Depth' # Depth - 1
    BY <1>1, <1>4
  <2> QED BY <1>1, <1>6, <2>1, LowerKept
<1>8. Top.kid > 0 /\ Top.kid <= NKids(Top.at)
  BY DEF IInv, RetInv, Building
<1>9. BlockOK(k)'
  <2>1. PICK n \in Nat : n = NKids(Top.at)
    BY <1>1, FrameFacts DEF IInv
  <2>2. /\ k \in 1 .. Depth /\ NKids(stack[k].at)' = n
    <3>1. k \in 1 .. Depth /\ k \in 1 .. k
      BY <1>1
    <3>2. \A s : s = stack[k].at => NKids(s)' = NKids(s)
      BY <1>7, <3>1
    <3> QED BY <1>1, <1>3, <1>4, <2>1, <3>1, <3>2
  <2>3. BlockOK(k) /\ Done(k) = Top.kid
    BY <1>1, <2>2 DEF IInv, BlockInv, Done
  <2>4. /\ Top.at < Top.blk /\ Top.blk + n < nxt_avail
        /\ rn[Top.at].rtype = "ALLOCJOB" => rn[Top.at].children = NULL
        /\ rn[Top.at].rtype # "ALLOCJOB" => rn[Top.at].children = Top.blk /\ rn[Top.at].n = n
        /\ Fresh(Top.blk + n)
        /\ \A p \in (Top.kid + 1) .. n : Fresh(Pos(Top, p))
    BY <1>1, <1>8, <2>1, <2>3 DEF BlockOK
  <2>5. PICK done \in Int : done = Top.kid /\ Done(k)' = done
    <3>1. Done(k)' = f.kid - 1
      BY <1>1, <1>3, <1>4, DoneThen
    <3>2. f.kid - 1 = Top.kid /\ Top.kid \in Int
      BY <1>1, <1>3 DEF Frames
    <3> QED BY <3>1, <3>2
  <2>6. \A s : Fresh(s)' = Fresh(s)
    BY DEF Fresh, Guard
  <2>7. \A p : Pos(f, p)' = Pos(Top, p) /\ Pos(stack[k], p)' = Pos(Top, p)
    BY <1>3, <1>4 DEF Pos
  <2>8. PICK m \in Nat : m = nxt_avail'
    BY DEF IInv, PoolInv
  <2>9. f.kid <= n + 1 /\ f.at < f.blk /\ f.blk + n < m
    BY <1>1, <1>3, <1>8, <2>1, <2>4, <2>8 DEF Frames
  <2>10. \A p : p = f.kid /\ p <= n => f.next = Pos(f, p)'
    BY <1>3, <2>1, <2>7
  <2>11. \A p \in (done + 1) .. n : Fresh(Pos(stack[k], p))'
    BY <2>4, <2>5, <2>6, <2>7
  <2>12. \A s : s = f.blk + n => Fresh(s)'
    BY <1>3, <2>4, <2>6
  <2>13. PICK node : node = rn[Top.at] /\ rn'[f.at] = node
    BY <1>3
  <2>14. /\ node.rtype = "ALLOCJOB" => node.children = NULL
         /\ node.rtype # "ALLOCJOB" => node.children = f.blk /\ node.n = n
    BY <1>3, <2>4, <2>13
  <2>15. BlockThen(k, f, n, m, done, node)
    BY <1>3, <1>4, <2>2, <2>5, <2>8, <2>9, <2>10, <2>11, <2>12, <2>13, <2>14 DEF BlockThen
  <2> QED BY <2>15, BlockIsOK
<1>10. \A j \in 1 .. (k - 1) : stack[j].blk + NKids(stack[j].at) < f.blk
  BY <1>1, <1>3, <1>8 DEF IInv, OrderInv, OrderOK
<1>11. FrameInv' /\ EnteredInv' /\ BlockInv' /\ OrderInv'
  BY <1>1, <1>3, <1>4, <1>6, <1>9, <1>10, StackKept
<1>12. Slots' = Slots /\ Building'
  BY DEF Slots, Building
<1>13. PoolInv'
  BY <1>12, Zenon DEF IInv, PoolInv, NodeOK
<1>14. VarsInv'
  BY <1>4, <1>12 DEF IInv, VarsInv
<1>15. /\ Dirs' = Dirs /\ \A d \in Dirs : rn'[d] = rn[d]
       /\ DirsInv' /\ BlocksApart'
  <2>1. NULL \notin Slots
    BY DEF Slots
  <2>2. \A d \in Dirs : NULL # GuardOf(d)
    BY DEF Dirs, GuardOf, IInv, PoolInv, NodeOK, Slots
  <2> QED BY <2>1, <2>2, DirsKept
<1>16. ApartInv'
  BY <1>1, <1>3, <1>4, <1>7, <1>8, <1>15, ApartKept
<1>17. RetInv'
  BY <1>5 DEF RetInv
<1> QED BY <1>11, <1>13, <1>14, <1>15, <1>16, <1>17 DEF IInv

\* A step that writes the slot where the innermost builder casts its next
\* child, and may push a builder for it.
Fills(v) ==
    /\ Casting /\ More
    /\ rn' = [rn EXCEPT ![Top.next] = v] /\ in' = in /\ nxt_avail' = nxt_avail
    /\ NodeOK(v) /\ v.children = NULL
    /\ Depth' \in {Depth, Depth + 1} /\ (Depth' = Depth => ret' # Pending)
    /\ \A k \in 1 .. Depth : stack'[k] = stack[k]

\* It disturbs no builder, no directory and no guard.
LEMMA FillKeeps ==
  ASSUME IInv, NEW v, Fills(v)
  PROVE  /\ \A k \in 1 .. Depth : FrameOK(k)' /\ EnteredOK(k)' /\ BlockOK(k)' /\ stack[k].kid > 0
         /\ \A j, k \in 1 .. Depth : j < k => OrderOK(j, k)'
         /\ \A k \in 1 .. Depth : \A s : s = stack[k].at =>
               Children(s)' = Children(s) /\ NKids(s)' = NKids(s)
         /\ \A k \in 1 .. Depth : rn'[stack[k].at] = rn[stack[k].at]
         /\ Dirs' = Dirs /\ (\A d \in Dirs : rn'[d] = rn[d]) /\ DirsInv' /\ BlocksApart'
         /\ PoolInv' /\ Slots' = Slots /\ rn'[Top.next] = v
<1>1. /\ Top.kid \in 1 .. NKids(Top.at) /\ Top.next \in Slots /\ Fresh(Top.next)
      /\ \A k \in 1 .. Depth : stack[k].at < Top.next
      /\ \A k \in 1 .. Depth : stack[k].kid > 0 =>
            /\ Top.next # stack[k].blk + NKids(stack[k].at)
            /\ \A p \in (stack[k].kid + 1) .. NKids(stack[k].at) : Top.next # Pos(stack[k], p)
      /\ \A d \in Dirs : Top.next # d /\ Top.next # GuardOf(d)
  BY NextFree DEF Fills
<1>2. stack # <<>> /\ Top.kid > 0 /\ Building /\ ret = Pending
  BY DEF Fills, Casting, Running, Building
<1>3. PICK k \in Nat : k = Depth /\ k >= 1 /\ Top = stack[k] /\ Top \in Frames
  BY <1>2, TopIs DEF IInv, VarsInv
<1>4. Slots' = Slots /\ in' = in /\ nxt_avail \in Nat /\ nxt_avail' = nxt_avail
  BY DEF Slots, Fills, IInv, PoolInv
<1>5. /\ \A s \in Slots : s # Top.next => rn'[s] = rn[s]
      /\ DOMAIN rn' = DOMAIN rn /\ rn'[Top.next] = v
  BY <1>1 DEF Fills, IInv, PoolInv
<1>6. \A j \in 1 .. k : stack[j].kid > 0 /\ stack[j] \in Frames
  <2>1. \A j \in 1 .. k : stack[j] \in Frames /\ EnteredOK(j)
    BY <1>3, ElementOfSeq DEF IInv, VarsInv, EnteredInv, Depth
  <2> QED BY <1>2, <1>3, <2>1 DEF EnteredOK, Frames
<1>7. WritesAbove(Top.next)
  <2>1. Untouched(Top.next)
    BY <1>1, <1>3, <1>6 DEF Untouched, Slots
  <2>2. Top.next # Top.at
    BY <1>1, <1>3 DEF Frames
  <2>3. /\ Depth' \in {Depth - 1, Depth, Depth + 1} /\ Depth' # Depth - 1
    BY <1>3 DEF Fills
  <2>4. \A j \in 1 .. (Depth - 1) : stack'[j] = stack[j]
    BY <1>3 DEF Fills
  <2> QED BY <1>4, <1>5, <2>1, <2>2, <2>3, <2>4 DEF WritesAbove
<1>8. /\ \A j \in 1 .. (k - 1) : FrameOK(j)' /\ EnteredOK(j)' /\ BlockOK(j)'
      /\ \A i, j \in 1 .. (k - 1) : i < j => OrderOK(i, j)'
  BY <1>2, <1>3, <1>7, LowerKept
<1>9. /\ \A j \in 1 .. k : \A s : s = stack[j].at =>
               Children(s)' = Children(s) /\ NKids(s)' = NKids(s)
  <2>1. Depth' # Depth - 1
    BY <1>3 DEF Fills
  <2> QED BY <1>2, <1>3, <1>7, <2>1, LowerKept
<1>10. stack'[k] = Top /\ k \in 1 .. k /\ k \in 1 .. Depth
  BY <1>3 DEF Fills
<1>11. FrameOK(k)' /\ \A j \in 1 .. (k - 1) : stack'[j].at < Top.at
  <2>1. Depth' # Depth - 1
    BY <1>3 DEF Fills
  <2> QED BY <1>2, <1>3, <1>7, <1>10, <2>1, TopKept
<1>12. EnteredOK(k)'
  BY <1>2, <1>10 DEF EnteredOK
<1>13. \A j \in 1 .. k : rn'[stack[j].at] = rn[stack[j].at]
  <2>1. \A j \in 1 .. k : stack[j].at \in Slots /\ stack[j].at < Top.next
    BY <1>1, <1>3, FrameFacts DEF IInv
  <2> QED BY <1>5, <2>1 DEF Slots
<1>14. BlockOK(k)'
  <2>1. PICK n \in Nat : n = NKids(Top.at) /\ Top.at \in Slots /\ (rn[Top.at].rtype = "ROOT" => n = 3)
    BY <1>3, <1>10, FrameFacts DEF IInv
  <2>2. NKids(stack[k].at)' = n
    BY <1>3, <1>9, <1>10, <2>1
  <2>3. PICK f \in Frames : f = Top
    BY <1>3
  <2>4. BlockOK(k) /\ Done(k) = f.kid - 1
    BY <1>2, <1>3, <1>10, <2>3 DEF IInv, BlockInv, Done
  <2>5. PICK node : node = rn[f.at] /\ rn'[f.at] = node
    BY <1>3, <1>10, <1>13, <2>3
  <2>6. /\ f.kid > 0 /\ f.kid <= n + 1 /\ f.at < f.blk /\ f.blk + n < nxt_avail
        /\ node.rtype = "ALLOCJOB" => node.children = NULL
        /\ node.rtype # "ALLOCJOB" => node.children = f.blk /\ node.n = n
        /\ Fresh(f.blk + n)
        /\ f.kid <= n => f.next = Pos(f, f.kid)
        /\ \A p \in f.kid .. n : Fresh(Pos(f, p))
    BY <1>2, <1>3, <2>1, <2>3, <2>4, <2>5 DEF BlockOK, Frames
  <2>7. Done(k)' = f.kid /\ f.kid \in Int
    BY <1>3, <1>10, <2>3 DEF Done, Fills, Frames
  <2>8. \A s \in Slots : s # Top.next /\ Fresh(s) => Fresh(s)'
    BY <1>5 DEF Fresh, Guard
  <2>9. \A p : Pos(f, p)' = Pos(f, p) /\ Pos(stack[k], p)' = Pos(f, p)
    BY <1>10, <2>3, <2>5 DEF Pos
  <2>10. \A s \in f.blk .. (f.blk + n) : s \in Slots
    BY <2>1, <2>3, <2>6 DEF Slots, Frames, IInv, PoolInv
  <2>11. \A s : s = f.blk + n => Fresh(s)'
    <3>1. f.blk + n # Top.next
      BY <1>1, <1>3, <1>10, <2>1, <2>3, <2>6
    <3>2. f.blk + n \in f.blk .. (f.blk + n)
      BY DEF Frames
    <3> QED BY <2>6, <2>8, <2>10, <3>1, <3>2
  <2>12. ASSUME NEW p \in (f.kid + 1) .. n PROVE Fresh(Pos(stack[k], p))'
    <3>1. Pos(f, p) # Top.next
      BY <1>1, <1>3, <1>10, <2>1, <2>3, <2>6
    <3>2. p \in 1 .. n /\ p \in f.kid .. n
      BY <2>6 DEF Frames
    <3>3. Pos(f, p) \in f.blk .. (f.blk + n - 1)
      BY <2>1, <2>3, <3>2, PosIs
    <3>4. Pos(f, p) \in Slots
      BY <2>10, <3>3 DEF Frames
    <3>5. \A s : s = Pos(f, p) => Fresh(s)'
      BY <2>6, <2>8, <3>1, <3>2, <3>4
    <3> QED BY <2>9, <3>5
  <2>13. PICK m \in Nat : m = nxt_avail' /\ f.blk + n < m
    BY <1>4, <2>6
  <2>14. \A p : p = f.kid /\ p <= n => f.next = Pos(f, p)'
    BY <2>6, <2>9
  <2>15. BlockThen(k, f, n, m, f.kid, node)
    BY <1>10, <2>2, <2>3, <2>5, <2>6, <2>7, <2>11, <2>12, <2>13, <2>14 DEF BlockThen
  <2> QED BY <2>15, BlockIsOK
<1>15. \A j \in 1 .. (k - 1) : OrderOK(j, k)'
  <2> SUFFICES ASSUME NEW j \in 1 .. (k - 1) PROVE OrderOK(j, k)'
    OBVIOUS
  <2>1. j \in 1 .. k /\ j \in 1 .. Depth /\ j < k
    BY <1>3
  <2>2. OrderOK(j, k) /\ stack'[j] = stack[j] /\ stack'[k] = stack[k]
    BY <1>3, <1>10, <2>1 DEF IInv, OrderInv, Fills
  <2>3. \A s : s = stack[j].at => NKids(s)' = NKids(s)
    BY <1>9, <2>1
  <2> QED BY <2>2, <2>3 DEF OrderOK
<1>16. /\ Dirs' = Dirs /\ (\A d \in Dirs : rn'[d] = rn[d]) /\ DirsInv' /\ BlocksApart'
  <2>1. rn[Top.next].children = NULL /\ v.children = NULL
    BY <1>1, FreshIs DEF Fills
  <2> QED BY <1>1, <1>4, <1>5, <2>1, DirsKept
<1>17. PoolInv'
  <2>1. \A s \in Slots : NodeOK(rn'[s])
    BY <1>5 DEF Fills, IInv, PoolInv
  <2>2. \A w : NodeOK(w)' <=> NodeOK(w)
    BY <1>4 DEF NodeOK
  <2> QED BY <1>4, <1>5, <2>1, <2>2 DEF IInv, PoolInv
<1>18. \A j \in 1 .. Depth : j = k \/ j \in 1 .. (k - 1)
  BY <1>3
<1> QED BY <1>3, <1>4, <1>5, <1>6, <1>8, <1>9, <1>11, <1>12, <1>13, <1>14, <1>15, <1>16, <1>17, <1>18

\* The child a builder casts next, or has just cast.
LEMMA NextIs ==
  ASSUME IInv, stack # <<>>, Top.kid \in 1 .. NKids(Top.at)
  PROVE  /\ MayHold(rn[Top.at].rtype, NextChild.rtype) /\ Cast(NextChild)
         /\ NextChild.rtype \in RTypes
         /\ NextChild.onNull = "CONTINUE" => rn[Top.at].rtype = "JOBS"
         /\ NextChild.rtype = "ALLOCJOB" => rn[Top.at].rtype = "ALLOCJOB" \/ Top.kid = NKids(Top.at)
<1>1. Depth \in 1 .. Depth /\ Top = stack[Depth]
  BY TopIs DEF IInv, VarsInv
<1>2. ListFor(Top.at, Children(Top.at))
  BY <1>1, FrameFacts DEF IInv
<1>3. /\ MayHold(rn[Top.at].rtype, NextChild.rtype) /\ Cast(NextChild)
      /\ NextChild.onNull = "CONTINUE" => rn[Top.at].rtype = "JOBS"
      /\ NextChild.rtype = "ALLOCJOB" => rn[Top.at].rtype = "ALLOCJOB" \/ Top.kid = NKids(Top.at)
  BY <1>2 DEF ListFor, NextChild, NKids
<1>4. NextChild.rtype \in RTypes
  BY <1>3, HeldIsBuilt, BuiltRows
<1> QED BY <1>3, <1>4

\* rn_cast() finds a child of that name: the slot stays unnamed.
LEMMA TwinKeeps ==
  ASSUME IInv, CastTwin, Returns("ASSERT")
  PROVE  IInv'
<1>1. Casting /\ More /\ stack # <<>> /\ Building
  BY DEF CastTwin, Casting, Running, Building
<1>2. PICK v : v = [rn[Top.next] EXCEPT !.gen = 1, !.rtype = NextChild.rtype, !.typ = NextChild.typ]
  OBVIOUS
<1>3. /\ rn' = [rn EXCEPT ![Top.next] = v] /\ ret' = NULL /\ caught_in_a_loop' \in BOOLEAN
      /\ UNCHANGED <<in, nxt_avail, stack, p_fsroot, p_jobd, status>>
  <2>1. caught_in_a_loop' \in BOOLEAN
    BY DEF CastTwin, Catch, IInv, VarsInv
  <2> QED BY <1>2, <2>1, Zenon DEF CastTwin, roots
<1>4. NodeOK(v) /\ v.children = NULL
  <2>1. Top.kid \in 1 .. NKids(Top.at) /\ Top.next \in Slots /\ Fresh(Top.next)
    BY <1>1, NextFree
  <2>2. NextChild.rtype \in RTypes /\ NodeOK(rn[Top.next]) /\ rn[Top.next].children = NULL
    BY <1>1, <2>1, NextIs, FreshIs DEF IInv, PoolInv
  <2>3. PICK w : w = rn[Top.next]
    OBVIOUS
  <2>4. PICK rtype, typ : rtype = NextChild.rtype /\ typ = NextChild.typ
    OBVIOUS
  <2>5. v = [w EXCEPT !.gen = 1, !.rtype = rtype, !.typ = typ]
    BY <1>2, <2>3, <2>4
  <2> QED BY <2>2, <2>3, <2>4, <2>5 DEF NodeOK, NodeFields
<1>5. Depth' = Depth /\ Slots' = Slots /\ Top' = Top
  BY <1>3 DEF Depth, Slots, Top
<1>6. Fills(v)
  BY <1>1, <1>3, <1>4, <1>5 DEF Fills
<1>7. /\ \A k \in 1 .. Depth : FrameOK(k)' /\ EnteredOK(k)' /\ BlockOK(k)'
      /\ \A j, k \in 1 .. Depth : j < k => OrderOK(j, k)'
      /\ \A k \in 1 .. Depth : \A s : s = stack[k].at => NKids(s)' = NKids(s)
      /\ Dirs' = Dirs /\ (\A d \in Dirs : rn'[d] = rn[d]) /\ DirsInv' /\ BlocksApart'
      /\ PoolInv'
  BY <1>6, FillKeeps
<1>8. FrameInv' /\ EnteredInv' /\ BlockInv' /\ OrderInv'
  BY <1>5, <1>7 DEF FrameInv, EnteredInv, BlockInv, OrderInv
<1>9. VarsInv'
  BY <1>3, <1>5 DEF IInv, VarsInv
<1>10. ApartInv'
  BY <1>3, <1>5, <1>7, ApartKept
<1>11. RetInv'
  <2>1. Top.kid \in 1 .. NKids(Top.at) /\ Top.kid > 0 /\ NKids(Top.at)' = NKids(Top.at)
    <3>1. Depth \in 1 .. Depth /\ Top = stack[Depth]
      BY <1>1, TopIs DEF IInv, VarsInv
    <3>2. \A s : s = Top.at => NKids(s)' = NKids(s)
      BY <1>7, <3>1
    <3> QED BY <1>1, <1>5, <3>2, NextFree DEF Casting
  <2>2. Top.kid <= NKids(Top.at)
    BY <1>1, <2>1, TopIs DEF IInv, VarsInv, Frames
  <2> QED BY <1>1, <1>3, <1>5, <2>1, <2>2 DEF RetInv
<1> QED BY <1>7, <1>8, <1>9, <1>10, <1>11 DEF IInv

\* rn_cast() of a fresh child: its builder begins.
LEMMA CastKeeps ==
  ASSUME IInv, CastChild
  PROVE  IInv'
<1>1. Casting /\ More /\ stack # <<>> /\ Building /\ ret = Pending
  BY DEF CastChild, Casting, Running, Building
<1>2. PICK v : v = FirstCast(NextChild, Top.at)
  OBVIOUS
<1>3. /\ rn' = [rn EXCEPT ![Top.next] = v] /\ stack' = Append(stack, Frame(Top.next))
      /\ UNCHANGED <<in, nxt_avail, ret, caught_in_a_loop, p_fsroot, p_jobd, status>>
  BY <1>2, Zenon DEF CastChild, roots
<1>4. /\ Top.kid \in 1 .. NKids(Top.at) /\ Top.next \in Slots
      /\ \A k \in 1 .. Depth : stack[k].at < Top.next
  BY <1>1, NextFree
<1>5. PICK k \in Nat : k = Depth /\ k >= 1 /\ Top = stack[k] /\ Top \in Frames
  BY <1>1, TopIs DEF IInv, VarsInv
<1>6. /\ MayHold(rn[Top.at].rtype, NextChild.rtype) /\ Cast(NextChild)
      /\ NextChild.rtype \in RTypes
  BY <1>1, <1>4, NextIs
<1>7. NodeOK(v) /\ v.children = NULL /\ v.rtype = NextChild.rtype /\ v.typ = NextChild.typ
      /\ v.parent = Top.at /\ v.gen = 1
  <2>1. Top.at \in Slots
    BY <1>1, UntouchedTop
  <2> QED BY <1>2, <1>6, <2>1 DEF FirstCast, NodeOK, NodeFields, IsDir
<1>8. PICK f \in Frames : f = Frame(Top.next) /\ f.at = Top.next /\ f.kid = 0
  <2>1. Top.next \in Nat
    BY <1>5 DEF Frames
  <2>2. Frame(Top.next) \in Frames /\ Frame(Top.next).at = Top.next /\ Frame(Top.next).kid = 0
    BY <2>1 DEF Frame, Frames
  <2> QED BY <2>2
<1>9. /\ stack' \in Seq(Frames) /\ Depth' = k + 1 /\ stack'[k + 1] = f
      /\ \A j \in 1 .. k : stack'[j] = stack[j]
  BY <1>3, <1>5, <1>8, PushIs DEF IInv, VarsInv
<1>10. Fills(v)
  <2>1. Depth' = Depth + 1 /\ Depth' # Depth
    BY <1>5, <1>9
  <2>2. \A j \in 1 .. Depth : stack'[j] = stack[j]
    BY <1>5, <1>9
  <2> QED BY <1>1, <1>3, <1>7, <2>1, <2>2 DEF Fills
<1>11. /\ \A j \in 1 .. k : FrameOK(j)' /\ EnteredOK(j)' /\ BlockOK(j)' /\ stack[j].kid > 0
       /\ \A i, j \in 1 .. k : i < j => OrderOK(i, j)'
       /\ Dirs' = Dirs /\ (\A d \in Dirs : rn'[d] = rn[d]) /\ DirsInv' /\ BlocksApart'
       /\ PoolInv' /\ Slots' = Slots /\ rn'[Top.next] = v
  BY <1>5, <1>10, FillKeeps
<1>12. \A j \in 1 .. k : /\ rn'[stack[j].at] = rn[stack[j].at]
                          /\ \A s : s = stack[j].at => /\ Children(s)' = Children(s)
                                                        /\ NKids(s)' = NKids(s)
  BY <1>5, <1>10, FillKeeps
<1>13. \A j \in 1 .. Depth' : j = k + 1 \/ j \in 1 .. k
  BY <1>5, <1>9
<1>14. FrameOK(k + 1)'
  <2>1. /\ stack'[k + 1 - 1] = Top /\ k + 1 > 1 /\ k + 1 # 1 /\ k + 1 - 1 = k
    BY <1>5, <1>9
  <2>2. /\ rn'[Top.at] = rn[Top.at]
        /\ \A s : s = Top.at => Children(s)' = Children(s) /\ NKids(s)' = NKids(s)
    BY <1>5, <1>12
  <2>3. NextChild = Children(Top.at)[Top.kid]
    BY DEF NextChild
  <2>4. \A s : s = Top.at => /\ Top.kid \in 1 .. NKids(s)'
                             /\ v.rtype = Children(s)'[Top.kid].rtype
    BY <1>4, <1>7, <2>2, <2>3
  <2>5. PICK i : i = k + 1
    OBVIOUS
  <2>6. FrameOK(i)'
    BY <1>4, <1>6, <1>7, <1>8, <1>9, <1>11, <2>1, <2>2, <2>4, <2>5 DEF FrameOK
  <2> QED BY <2>5, <2>6
<1>15. EnteredOK(k + 1)'
  BY <1>1, <1>3, <1>6, <1>7, <1>8, <1>9, <1>11 DEF EnteredOK, Cast
<1>16. BlockOK(k + 1)'
  BY <1>8, <1>9 DEF BlockOK
<1>17. \A j \in 1 .. k : OrderOK(j, k + 1)'
  BY <1>4, <1>5, <1>8, <1>9 DEF OrderOK
<1>18. FrameInv' /\ EnteredInv' /\ BlockInv' /\ OrderInv'
  <2>1. FrameInv'
    BY <1>11, <1>13, <1>14 DEF FrameInv
  <2>2. EnteredInv'
    BY <1>11, <1>13, <1>15 DEF EnteredInv
  <2>3. BlockInv'
    BY <1>11, <1>13, <1>16 DEF BlockInv
  <2>4. OrderInv'
    BY <1>5, <1>9, <1>11, <1>13, <1>17 DEF OrderInv
  <2> QED BY <2>1, <2>2, <2>3, <2>4
<1>19. VarsInv'
  BY <1>3, <1>9, <1>11 DEF IInv, VarsInv
<1>20. ApartInv'
  <2>1. \A j \in 1 .. Depth' : stack'[j].kid > 0 =>
             /\ j \in 1 .. Depth /\ stack[j].kid > 0
             /\ stack'[j].at = stack[j].at /\ stack'[j].blk = stack[j].blk
             /\ \A s : s = stack[j].at => NKids(s)' = NKids(s)
    BY <1>5, <1>8, <1>9, <1>11, <1>12, <1>13
  <2> QED BY <1>11, <2>1, ApartKept
<1>21. RetInv'
  <2>1. stack' # <<>>
    BY <1>5, <1>9 DEF Depth
  <2> QED BY <1>1, <1>3, <2>1 DEF RetInv
<1> QED BY <1>11, <1>18, <1>19, <1>20, <1>21 DEF IInv

-----------------------------------------------------------------------------
(* Returns, blocks and leaves *)

\* A builder returns to the one that called it, or mk_fs() itself does.  It may
\* have written its own node, which has no block.
Pops(x) ==
    /\ Building /\ stack # <<>> /\ stack' = Below
    /\ x = NULL \/ (x = Top.at /\ rn[x].children = NULL /\ rn'[x].children = NULL)
    /\ \A s \in Slots : (s # x => rn'[s] = rn[s]) /\ NodeOK(rn'[s])
    /\ DOMAIN rn' = DOMAIN rn
    /\ UNCHANGED <<in, nxt_avail>>
    /\ ret' \in Slots \cup {NULL}
    /\ ret' > NULL => ret' = Top.at \/ rn[Top.at].rtype = "ALLOCJOB"
    /\ Below = <<>> => status' # "building"
    /\ status' \in {"building", "mounted", "exited", "crashed"}
    /\ caught_in_a_loop' \in BOOLEAN
    /\ p_fsroot' \in Slots \cup {NULL} /\ p_jobd' \in Slots \cup {NULL}

\* The builder below finds its own child returned, where it cast it.
LEMMA PopKeeps ==
  ASSUME IInv, NEW x, Pops(x)
  PROVE  IInv'
<1>1. Building /\ stack # <<>>
  BY DEF Pops
<1>2. PICK k \in Nat : k = Depth /\ k >= 1 /\ Top = stack[k] /\ Top \in Frames
  BY <1>1, TopIs DEF IInv, VarsInv
<1>3. PICK m \in Nat : m = k - 1
  BY <1>2
<1>4. /\ stack' \in Seq(Frames) /\ Depth' = m /\ \A j \in 1 .. m : stack'[j] = stack[j]
  <2>1. /\ Below \in Seq(Frames) /\ Len(Below) = Depth - 1
        /\ \A j \in 1 .. (Depth - 1) : Below[j] = stack[j]
    BY <1>1, TopIs DEF IInv, VarsInv
  <2> QED BY <1>2, <1>3, <2>1 DEF Pops, Depth
<1>5. stack' = <<>> <=> m = 0
  BY <1>1, <1>2, <1>3, TopIs DEF IInv, VarsInv, Pops
<1>6. Slots' = Slots /\ nxt_avail \in Nat /\ nxt_avail' = nxt_avail /\ in' = in
  BY DEF Slots, IInv, PoolInv, Pops
<1>7. Top.at \in Slots /\ Untouched(Top.at) /\ ~Fresh(Top.at) /\ rn[Top.at].rtype # "GUARD"
  <2>1. rn[Top.at].rtype # "GUARD"
    BY <1>2, FrameFacts, BuiltIsCast DEF IInv
  <2> QED BY <1>1, <2>1, UntouchedTop
<1>8. WritesAbove(x)
  <2>1. Untouched(x)
    <3>1. Untouched(NULL)
      BY <1>1, UntouchedOut DEF Slots
    <3> QED BY <1>7, <3>1 DEF Pops
  <2>2. Depth' \in {Depth - 1, Depth, Depth + 1} /\ Depth' = Depth - 1
    BY <1>2, <1>3, <1>4
  <2>3. ret' # Pending /\ \A s \in Slots : s # x => rn'[s] = rn[s]
    BY DEF Pops, Slots
  <2>4. \A j \in 1 .. (Depth - 1) : stack'[j] = stack[j]
    BY <1>2, <1>3, <1>4
  <2>5. nxt_avail' \in Nat /\ nxt_avail' >= nxt_avail
    BY <1>6
  <2> QED BY <1>6, <2>1, <2>2, <2>3, <2>4, <2>5 DEF WritesAbove
<1>9. /\ \A j \in 1 .. m : FrameOK(j)' /\ EnteredOK(j)' /\ BlockOK(j)'
      /\ \A i, j \in 1 .. m : i < j => OrderOK(i, j)'
      /\ \A j \in 1 .. m : \A s : s = stack[j].at => NKids(s)' = NKids(s)
  BY <1>1, <1>2, <1>3, <1>8, LowerKept
<1>10. FrameInv' /\ EnteredInv' /\ BlockInv' /\ OrderInv'
  BY <1>4, <1>9 DEF FrameInv, EnteredInv, BlockInv, OrderInv
<1>11. PoolInv'
  <2>1. \A w : NodeOK(w)' <=> NodeOK(w)
    BY <1>6 DEF NodeOK
  <2>2. DOMAIN rn' = Slots /\ \A s \in Slots : NodeOK(rn'[s])
    BY DEF Pops, IInv, PoolInv
  <2> QED BY <1>6, <2>1, <2>2 DEF IInv, PoolInv
<1>12. VarsInv'
  BY <1>4, <1>6 DEF Pops, VarsInv
<1>13. /\ Dirs' = Dirs /\ \A d \in Dirs : rn'[d] = rn[d]
       /\ DirsInv' /\ BlocksApart'
  <2>1. \A s \in Slots : s # x => rn'[s] = rn[s]
    BY DEF Pops
  <2>2. x \in Slots => rn[x].children = NULL /\ rn'[x].children = NULL
    BY DEF Pops, Slots
  <2>3. \A d \in Dirs : x # GuardOf(d)
    <3>1. \A d \in Dirs : rn[GuardOf(d)].rtype = "GUARD" /\ GuardOf(d) # NULL
      <4>1. \A d \in Dirs : rn[GuardOf(d)].rtype = "GUARD"
        BY DEF IInv, DirsInv
      <4>2. \A d \in Dirs : NULL # GuardOf(d)
        BY DEF Dirs, GuardOf, IInv, PoolInv, NodeOK, Slots
      <4> QED BY <4>1, <4>2
    <3> QED BY <1>7, <3>1 DEF Pops
  <2> QED BY <1>6, <2>1, <2>2, <2>3, DirsKept DEF Pops
<1>14. ApartInv'
  <2>1. \A j \in 1 .. Depth' : stack'[j].kid > 0 =>
             /\ j \in 1 .. Depth /\ stack[j].kid > 0
             /\ stack'[j].at = stack[j].at /\ stack'[j].blk = stack[j].blk
             /\ \A s : s = stack[j].at => NKids(s)' = NKids(s)
    BY <1>2, <1>3, <1>4, <1>9
  <2> QED BY <1>13, <2>1, ApartKept
<1>15. RetInv'
  <2>1. CASE m = 0
    BY <1>5, <2>1 DEF RetInv, Building, Pops
  <2>2. CASE m > 0
    <3>1. PICK g \in Frames : g = stack[m] /\ m \in 1 .. Depth /\ m = k - 1 /\ k \in 1 .. Depth
      BY <1>2, <1>3, <2>2, ElementOfSeq DEF IInv, VarsInv, Depth
    <3>2. Top' = g /\ stack' # <<>>
      BY <1>4, <1>5, <2>2, <3>1 DEF Top, Depth
    <3>3. /\ g.kid \in 1 .. NKids(g.at) /\ Top.at = g.next
          /\ MayHold(rn[g.at].rtype, rn[Top.at].rtype)
          /\ rn[Top.at].rtype = Children(g.at)[g.kid].rtype
      <4>1. FrameOK(k) /\ k > 1 /\ stack[k - 1] = g
        BY <1>2, <1>3, <2>2, <3>1 DEF IInv, FrameInv
      <4> QED BY <1>2, <4>1 DEF FrameOK
    <3>4. /\ NKids(g.at) \in Nat /\ ListFor(g.at, Children(g.at)) /\ g.at \in Slots
      BY <3>1, FrameFacts DEF IInv
    <3>5. rn[Top.at].rtype = "ALLOCJOB" => rn[g.at].rtype = "ALLOCJOB" \/ g.kid = NKids(g.at)
      BY <3>3, <3>4 DEF ListFor, NKids
    <3>6. /\ \A s : s = g.at => NKids(s)' = NKids(s)
          /\ rn'[g.at] = rn[g.at]
      <4>1. m \in 1 .. m
        BY <2>2
      <4>2. rn'[g.at] = rn[g.at]
        BY <1>1, <1>2, <1>3, <1>8, <3>1, <4>1, LowerKept
      <4> QED BY <1>9, <3>1, <4>1, <4>2
    <3>7. PICK n \in Nat : n = NKids(g.at) /\ NKids(Top.at)' = n
      BY <3>2, <3>4, <3>6
    <3>8. g.kid > 0 /\ g.kid <= n
      BY <3>3, <3>7
    <3>9. ret' > NULL => \/ ret' = g.next \/ g.kid = n
                         \/ rn'[g.at].rtype \notin {"CLUSTER", "PARTNAME", "JOBID", "ATTRIBUTES"}
      BY <3>3, <3>5, <3>6, <3>7 DEF Pops
    <3> QED BY <3>2, <3>7, <3>8, <3>9 DEF RetInv
  <2> QED BY <2>1, <2>2
<1> QED BY <1>10, <1>11, <1>12, <1>13, <1>14, <1>15 DEF IInv

\* What a builder does when it takes its block: its node is at, its block of n
\* children and a guard begins at b, and m is the end of the pool afterwards.
Provisions(at, n, up, k, b, m) ==
    /\ at = Top.at /\ at \in Slots /\ NKids(at) = n /\ n \in Nat
    /\ up \in {at, rn[at].parent}
    /\ Building /\ stack # <<>> /\ Top.kid = 0 /\ ret = Pending
    /\ k \in 1 .. Depth /\ k = Depth /\ k > 1 /\ k \in Nat /\ Top = stack[k] /\ Top \in Frames
    /\ rn[at].rtype \in BuiltTypes \ ({"ROOT"} \cup AttrTypes)
    /\ rn[at].children = NULL /\ rn[at].gen = 1 /\ NodeOK(rn[at])
    /\ b = nxt_avail /\ b \in Nat /\ b >= BaseAlloc /\ Room(n + 1)
    /\ m \in Nat /\ nxt_avail' = m /\ m = b + n + 1 /\ b + n < m
    /\ Slots' = BaseAlloc .. (m - 1) /\ Slots = BaseAlloc .. (b - 1)
    /\ \A s \in Slots : s \in Slots' /\ s < b
    /\ \A s \in b .. (b + n) : s \in Slots' /\ s \notin Slots
    /\ \A s \in Slots' : s \in Slots \/ s \in b .. (b + n)
    /\ DOMAIN rn' = Slots'
    /\ \A s \in Slots : s # at => rn'[s] = rn[s]
    /\ \A s \in b .. (b + n) : rn'[s] = Guard(up)
    /\ rn[at].rtype = "ALLOCJOB" => rn'[at] = rn[at]
    /\ rn[at].rtype # "ALLOCJOB" => rn'[at] = Recast(at)
    /\ SetTop([at |-> at, blk |-> b, next |-> b, kid |-> 1])
    /\ UNCHANGED <<in, ret, caught_in_a_loop, p_fsroot, p_jobd, status>>

\* rn_provision(), and the recast of the builder's node after it, do that.
LEMMA ProvisionIs ==
  ASSUME IInv, Provision, ~Exit
  PROVE  \E at, up : \E n, k, b, m \in Nat : Provisions(at, n, up, k, b, m)
<1>1. PICK at, n, up :
         /\ at = Top.at /\ n = Len(Children(Top.at))
         /\ up = IF rn[Top.at].rtype \in {"CLUSTER", "ATTRIBUTES", "ALLOCJOB"}
                 THEN rn[Top.at].parent ELSE Top.at
  OBVIOUS
<1>2. /\ Building /\ stack # <<>> /\ Top.kid = 0 /\ Room(n + 1)
      /\ rn' = IF Row(rn[at].rtype) = "NODESTATE" THEN Provisioned(n + 1, up)
                ELSE [Provisioned(n + 1, up) EXCEPT ![at] = Recast(at)]
      /\ nxt_avail' = nxt_avail + (n + 1)
      /\ SetTop([at |-> at, blk |-> nxt_avail, next |-> nxt_avail, kid |-> 1])
      /\ UNCHANGED <<in, ret, caught_in_a_loop, p_fsroot, p_jobd, status>>
  BY <1>1, Zenon DEF Provision, Entered, Running, Building, roots
<1>3. PICK k \in Nat : k = Depth /\ k >= 1 /\ Top = stack[k] /\ Top \in Frames /\ k \in 1 .. Depth
  BY <1>2, TopIs DEF IInv, VarsInv
<1>4. /\ at \in Slots /\ rn[at].rtype \in BuiltTypes /\ NKids(at) = n /\ n \in Nat
      /\ Untouched(at) /\ ~Fresh(at)
  BY <1>1, <1>2, <1>3, FrameFacts, UntouchedTop DEF IInv, NKids
<1>5. /\ rn[at].children = NULL /\ ret = Pending /\ rn[at].gen = 1
  BY <1>1, <1>2, <1>3 DEF IInv, EnteredInv, EnteredOK
<1>6. k > 1 /\ rn[at].rtype # "ROOT"
  <2>1. FrameOK(k) /\ k # 1
    BY <1>2, <1>3 DEF IInv, FrameInv, FrameOK, Frames
  <2>2. MayHold(rn[stack[k - 1].at].rtype, rn[at].rtype)
    BY <1>1, <1>3, <2>1 DEF FrameOK
  <2> QED BY <1>3, <2>1, <2>2, HeldIsBuilt
<1>7. PICK b \in Nat : b = nxt_avail /\ b >= BaseAlloc
  BY DEF IInv, PoolInv
<1>8. PICK m \in Nat : m = b + n + 1 /\ nxt_avail' = m /\ m > b /\ b + n < m
  BY <1>2, <1>4, <1>7
<1>9. /\ Slots' = BaseAlloc .. (m - 1) /\ Slots = BaseAlloc .. (b - 1)
      /\ \A s \in Slots : s \in Slots' /\ s < b
      /\ \A s \in b .. (b + n) : s \in Slots' /\ s \notin Slots
      /\ \A s \in Slots' : s \in Slots \/ s \in b .. (b + n)
  <2>1. Slots = BaseAlloc .. (b - 1) /\ Slots' = BaseAlloc .. (m - 1)
    BY <1>7, <1>8, SlotsThen DEF Slots
  <2> QED BY <1>4, <1>7, <1>8, <2>1
<1>10. /\ DOMAIN rn' = Slots'
       /\ \A s \in Slots : s # at => rn'[s] = rn[s]
       /\ \A s \in b .. (b + n) : rn'[s] = Guard(up)
       /\ rn'[at] = IF Row(rn[at].rtype) = "NODESTATE" THEN rn[at] ELSE Recast(at)
  <2>1. PICK pool1 : pool1 = Provisioned(n + 1, up)
    OBVIOUS
  <2>2. nxt_avail + (n + 1) - 1 = m - 1
    BY <1>4, <1>7, <1>8
  <2>3. pool1 = [s \in Slots' |-> IF s < b THEN rn[s] ELSE Guard(up)]
    BY <1>7, <1>9, <2>1, <2>2 DEF Provisioned
  <2>4. /\ DOMAIN pool1 = Slots' /\ \A s \in Slots : pool1[s] = rn[s]
        /\ \A s \in b .. (b + n) : pool1[s] = Guard(up)
    <3>1. DOMAIN pool1 = Slots' /\ \A s \in Slots' : pool1[s] = IF s < b THEN rn[s] ELSE Guard(up)
      BY <2>3
    <3>2. \A s \in b .. (b + n) : ~(s < b)
      BY <1>4, <1>7
    <3> QED BY <1>9, <3>1, <3>2
  <2>5. PICK node : node = Recast(at)
    OBVIOUS
  <2>6. rn' = IF Row(rn[at].rtype) = "NODESTATE" THEN pool1 ELSE [pool1 EXCEPT ![at] = node]
    BY <1>2, <2>1, <2>5
  <2> QED BY <1>4, <1>9, <2>4, <2>5, <2>6
<1>11. /\ Row(rn[at].rtype) = "NODESTATE" <=> rn[at].rtype = "ALLOCJOB"
       /\ rn[at].rtype \notin AttrTypes
  <2>1. Row(rn[at].rtype) \notin AttrTypes
    BY <1>1 DEF Provision, IsLeaf
  <2> QED BY <1>4, <2>1, BuiltRows DEF BuiltTypes, AttrTypes, AttrSubtypes
<1>12. up \in {at, rn[at].parent} /\ NodeOK(rn[at])
  BY <1>1, <1>4 DEF IInv, PoolInv
<1>13. SetTop([at |-> at, blk |-> b, next |-> b, kid |-> 1])
  <2>1. b = nxt_avail
    BY <1>7
  <2>2. SetTop([at |-> at, blk |-> nxt_avail, next |-> nxt_avail, kid |-> 1])
    BY <1>2, Zenon
  <2> QED BY <2>1, <2>2
<1>14. Provisions(at, n, up, k, b, m)
  BY <1>1, <1>2, <1>3, <1>4, <1>5, <1>6, <1>7, <1>8, <1>9, <1>10, <1>11, <1>12, <1>13,
     Zenon DEF Provisions
<1> QED BY <1>4, <1>8, <1>14

\* A builder takes a block from the pool and points its own node to it.
LEMMA ProvisionKeeps ==
  ASSUME IInv, Provision, ~Exit
  PROVE  IInv'
<1> PICK at, up : \E n, k, b, m \in Nat : Provisions(at, n, up, k, b, m)
  BY ProvisionIs
<1>1. PICK n, k, b, m \in Nat : Provisions(at, n, up, k, b, m)
  OBVIOUS
<1>2. /\ at = Top.at /\ up \in {at, rn[at].parent} /\ Building /\ stack # <<>> /\ Top.kid = 0
      /\ Room(n + 1) /\ SetTop([at |-> at, blk |-> b, next |-> b, kid |-> 1])
      /\ UNCHANGED <<in, ret, caught_in_a_loop, p_fsroot, p_jobd, status>>
  BY <1>1 DEF Provisions
<1>3. k \in 1 .. Depth /\ k = Depth /\ k >= 1 /\ k \in Nat /\ Top = stack[k] /\ Top \in Frames
  BY <1>1 DEF Provisions
<1>4. /\ at \in Slots /\ rn[at].rtype \in BuiltTypes /\ NKids(at) = n /\ n \in Nat
      /\ Untouched(at) /\ ~Fresh(at)
  BY <1>1, UntouchedTop DEF Provisions
<1>5. /\ rn[at].children = NULL /\ ret = Pending /\ rn[at].gen = 1
  BY <1>1 DEF Provisions
<1>6. k > 1 /\ rn[at].rtype # "ROOT"
  BY <1>1 DEF Provisions
<1>7. b \in Nat /\ b = nxt_avail /\ b >= BaseAlloc
  BY <1>1 DEF Provisions
<1>8. m \in Nat /\ m = b + n + 1 /\ nxt_avail' = m /\ m > b /\ b + n < m
  BY <1>1 DEF Provisions
<1>9. /\ Slots' = BaseAlloc .. (m - 1) /\ Slots = BaseAlloc .. (b - 1)
      /\ \A s \in Slots : s \in Slots' /\ s < b
      /\ \A s \in b .. (b + n) : s \in Slots' /\ s \notin Slots
      /\ \A s \in Slots' : s \in Slots \/ s \in b .. (b + n)
  BY <1>1 DEF Provisions
<1>10. /\ DOMAIN rn' = Slots'
       /\ \A s \in Slots : s # at => rn'[s] = rn[s]
       /\ \A s \in b .. (b + n) : rn'[s] = Guard(up)
  BY <1>1 DEF Provisions
<1>11. /\ rn[at].rtype = "ALLOCJOB" => rn'[at] = rn[at]
       /\ rn[at].rtype # "ALLOCJOB" => rn'[at] = Recast(at)
  BY <1>1 DEF Provisions
<1>12. /\ NodeOK(rn[at]) /\ SameList(rn[at], rn'[at]) /\ rn'[at].rtype = rn[at].rtype
       /\ rn[at].rtype = "ALLOCJOB" => rn'[at].children = NULL
       /\ rn[at].rtype # "ALLOCJOB" => rn'[at].children = b /\ rn'[at].n = n
       /\ NodeOK(rn[at])'
  <2>1. NodeOK(rn[at])
    BY <1>4 DEF IInv, PoolInv
  <2>2. CASE rn[at].rtype = "ALLOCJOB"
    BY <1>5, <1>9, <1>10, <1>11, <2>1, <2>2 DEF SameList, NodeOK
  <2>3. CASE rn[at].rtype # "ALLOCJOB"
    <3>1. PICK node : node = Recast(at) /\ rn'[at] = node
      BY <1>10, <1>11, <2>3
    <3>2. PICK old : old = rn[at]
      OBVIOUS
    <3>3. /\ DOMAIN node = NodeFields
          /\ node.rtype = old.rtype /\ node.parent = old.parent
          /\ node.isdir = old.isdir /\ node.gen = 2
          /\ old.rtype \notin ListTypes \cup {"JOBID"} => node.dyn = old.dyn
          /\ node.children = b /\ node.n = n
      <4>1. DOMAIN rn[at] = {"rtype", "gen", "nm", "typ", "dyn", "parent", "children", "n", "isdir"}
        BY <2>1 DEF NodeOK, NodeFields
      <4>2. /\ DOMAIN Recast(at) = DOMAIN rn[at]
            /\ Recast(at).rtype = rn[at].rtype /\ Recast(at).parent = rn[at].parent
            /\ Recast(at).isdir = rn[at].isdir
            /\ Recast(at).gen = rn[at].gen + 1
            /\ rn[at].rtype \notin ListTypes \cup {"JOBID"} => Recast(at).dyn = rn[at].dyn
            /\ Recast(at).children = nxt_avail /\ Recast(at).n = Len(Children(at))
        BY <1>4, <4>1, RecastIs
      <4>3. Len(Children(at)) = n /\ rn[at].gen + 1 = 2 /\ DOMAIN rn[at] = NodeFields
        BY <1>4, <1>5, <4>1 DEF NKids, NodeFields
      <4> QED BY <1>7, <3>1, <3>2, <4>2, <4>3
    <3>4. SameList(old, node)
      BY <3>3 DEF SameList
    <3>5. b \in Slots'
      BY <1>4, <1>7, <1>9
    <3>6. NodeOK(rn[at])'
      BY <1>4, <1>9, <2>1, <3>1, <3>2, <3>3, <3>5 DEF NodeOK
    <3> QED BY <2>1, <2>3, <3>1, <3>2, <3>3, <3>4, <3>6
  <2> QED BY <2>2, <2>3
<1>13. PICK f \in Frames : /\ f = [at |-> at, blk |-> b, next |-> b, kid |-> 1]
                           /\ f.at = at /\ f.blk = b /\ f.next = b /\ f.kid = 1
  <2>1. at \in Nat
    BY <1>4, <1>7, <1>9
  <2>2. LET g == [at |-> at, blk |-> b, next |-> b, kid |-> 1]
        IN g \in Frames /\ g.at = at /\ g.blk = b /\ g.next = b /\ g.kid = 1
    BY <2>1 DEF Frames
  <2> QED BY <2>2
<1>14. /\ stack' \in Seq(Frames) /\ Depth' = k /\ stack'[k] = f
       /\ \A j \in 1 .. (k - 1) : stack'[j] = stack[j]
  <2>1. SetTop(f)
    BY <1>2, <1>7, <1>13, Zenon
  <2> QED BY <1>2, <1>3, <2>1, SetTopIs DEF IInv, VarsInv
<1>15. WritesAbove(at)
  <2>1. \A s \in Slots : s # at => rn'[s] = rn[s]
    BY <1>10
  <2>2. Depth' \in {Depth - 1, Depth, Depth + 1} /\ Depth' # Depth - 1
    BY <1>3, <1>14
  <2>3. \A j \in 1 .. (Depth - 1) : stack'[j] = stack[j]
    BY <1>3, <1>14
  <2>4. in' = in /\ nxt_avail' \in Nat /\ nxt_avail' >= nxt_avail
    BY <1>2, <1>7, <1>8
  <2> QED BY <1>4, <1>12, <2>1, <2>2, <2>3, <2>4 DEF WritesAbove
<1>16. /\ \A j \in 1 .. k : \A s : s = stack[j].at => NKids(s)' = NKids(s)
       /\ \A j \in 1 .. (k - 1) : rn'[stack[j].at] = rn[stack[j].at]
  <2>1. Depth' # Depth - 1
    BY <1>3, <1>14
  <2> QED BY <1>2, <1>3, <1>15, <2>1, LowerKept
<1>17. BlockOK(k)'
  <2>1. PICK node : node = rn'[at]
    OBVIOUS
  <2>2. NKids(stack[k].at)' = n
    <3>1. k \in 1 .. k
      BY <1>3
    <3> QED BY <1>2, <1>3, <1>4, <1>13, <1>14, <1>16, <3>1
  <2>3. Done(k)' = 0
    BY <1>2, <1>3, <1>5, <1>13, <1>14, DoneThen
  <2>4. \A s \in b .. (b + n) : Fresh(s)'
    <3>1. Guard(up).parent = up
      BY DEF Guard
    <3> QED BY <1>10, <3>1 DEF Fresh
  <2>5. \A p : Pos(f, p)' = b + (p - 1) /\ Pos(stack[k], p)' = b + (p - 1)
    BY <1>6, <1>12, <1>13, <1>14 DEF Pos
  <2>6. \A s : s = f.blk + n => Fresh(s)'
    BY <1>4, <1>13, <2>4
  <2>7. \A p \in (0 + 1) .. n : Fresh(Pos(stack[k], p))'
    <3>1. \A p \in 1 .. n : b + (p - 1) \in b .. (b + n)
      BY <1>4
    <3>2. \A p \in 1 .. n : \A s : s = b + (p - 1) => Fresh(s)'
      BY <2>4, <3>1
    <3> QED BY <2>5, <3>2
  <2>8. \A p : p = f.kid /\ p <= n => f.next = Pos(f, p)'
    BY <1>13, <2>5
  <2>9. f.kid <= n + 1 /\ f.at < f.blk /\ f.blk + n < m
    BY <1>4, <1>8, <1>9, <1>13
  <2>10. BlockThen(k, f, n, m, 0, node)
    BY <1>4, <1>8, <1>12, <1>13, <1>14, <2>1, <2>2, <2>3, <2>6, <2>7, <2>8, <2>9 DEF BlockThen
  <2> QED BY <2>10, BlockIsOK
<1>18. \A j \in 1 .. (k - 1) : stack[j].kid > 0 /\ stack[j].blk + NKids(stack[j].at) < b
  <2> SUFFICES ASSUME NEW j \in 1 .. (k - 1)
               PROVE  stack[j].kid > 0 /\ stack[j].blk + NKids(stack[j].at) < b
    OBVIOUS
  <2>1. j \in 1 .. Depth /\ j # Depth /\ stack[j] \in Frames
    BY <1>3, ElementOfSeq DEF IInv, VarsInv, Depth
  <2>2. stack[j].kid > 0
    BY <2>1 DEF IInv, EnteredInv, EnteredOK, Frames
  <2> QED BY <1>7, <2>1, <2>2 DEF IInv, BlockInv, BlockOK
<1>19. FrameInv' /\ EnteredInv' /\ BlockInv' /\ OrderInv'
  <2>1. f.at = Top.at /\ f.kid > 0
    BY <1>2, <1>13
  <2> QED BY <1>2, <1>3, <1>13, <1>14, <1>15, <1>17, <1>18, <2>1, StackKept
<1>20. VarsInv'
  <2>1. \A s : s \in Slots \cup {NULL} => s \in Slots' \cup {NULL}
    BY <1>9
  <2> QED BY <1>2, <1>5, <1>14, <2>1 DEF IInv, VarsInv
<1>21. RetInv'
  <2>1. stack' # <<>>
    BY <1>3, <1>14 DEF Depth
  <2> QED BY <1>2, <1>5, <2>1 DEF RetInv
<1>22. PoolInv'
  <2>1. \A w : NodeOK(w) => NodeOK(w)'
    BY <1>9 DEF NodeOK
  <2>2. NodeOK(Guard(up))
    <3>1. up \in Slots \cup {NULL}
      BY <1>2, <1>4, <1>12 DEF NodeOK
    <3> QED BY <3>1, RTypesSet DEF NodeOK, Guard, NodeFields
  <2>3. \A s \in Slots : NodeOK(rn[s])
    BY DEF IInv, PoolInv
  <2>4. ASSUME NEW s \in Slots' PROVE NodeOK(rn[s])'
    <3>1. CASE s = at
      BY <1>12, <3>1
    <3>2. CASE s \in Slots /\ s # at
      BY <1>10, <2>1, <2>3, <3>2
    <3>3. CASE s \in b .. (b + n)
      BY <1>10, <2>1, <2>2, <3>3
    <3> QED BY <1>9, <3>1, <3>2, <3>3
  <2>5. in' \in Inputs /\ m - BaseAlloc <= in'.maxalloc /\ m >= BaseAlloc
    <3>1. in \in Inputs /\ in' = in /\ in.maxalloc \in Nat
      BY <1>2, InputsAssumption DEF IInv, PoolInv
    <3> QED BY <1>2, <1>4, <1>7, <1>8, <3>1 DEF Room
  <2>6. /\ in' \in Inputs /\ nxt_avail' \in Nat /\ nxt_avail' >= BaseAlloc
        /\ (nxt_avail - BaseAlloc <= in.maxalloc)'
    BY <1>8, <2>5
  <2> QED BY <1>10, <2>4, <2>6, Zenon DEF PoolInv
\* the directories, the old and the new one
<1>23. \A d \in Dirs : /\ d \in Slots /\ d # at /\ rn'[d] = rn[d] /\ GuardOf(d)' = GuardOf(d)
                       /\ rn'[GuardOf(d)] = rn[GuardOf(d)] /\ GuardOf(d) < b
                       /\ rn[d].children \in Nat /\ rn[d].n \in Nat
  <2> SUFFICES ASSUME NEW d \in Dirs
               PROVE  /\ d \in Slots /\ d # at /\ rn'[d] = rn[d] /\ GuardOf(d)' = GuardOf(d)
                      /\ rn'[GuardOf(d)] = rn[GuardOf(d)] /\ GuardOf(d) < b
                      /\ rn[d].children \in Nat /\ rn[d].n \in Nat
    OBVIOUS
  <2>1. d \in Slots /\ d # at /\ rn'[d] = rn[d]
    BY <1>5, <1>10 DEF Dirs
  <2>2. rn[d].children \in Slots /\ rn[d].children \in Nat /\ rn[d].n \in Nat
    BY DEF Dirs, IInv, PoolInv, NodeOK, Slots
  <2>3. GuardOf(d) < b /\ rn[GuardOf(d)].rtype = "GUARD"
    BY <1>7 DEF IInv, DirsInv
  <2>4. GuardOf(d) \in Slots /\ GuardOf(d) # at
    <3>1. GuardOf(d) \in Slots
      BY <1>7, <1>9, <2>2, <2>3 DEF GuardOf
    <3>2. rn[at].rtype # "GUARD"
      BY <1>4, BuiltIsCast
    <3> QED BY <2>3, <3>1, <3>2
  <2>5. GuardOf(d)' = GuardOf(d)
    BY <2>1, Zenon DEF GuardOf
  <2> QED BY <1>10, <2>1, <2>2, <2>3, <2>4, <2>5
<1>24. Dirs' = IF rn[at].rtype = "ALLOCJOB" THEN Dirs ELSE Dirs \cup {at}
  <2>1. \A s \in b .. (b + n) : rn'[s].children = NULL
    BY <1>10 DEF Guard
  <2>2. b # NULL
    BY <1>7
  <2>3. \A s \in Slots' : rn'[s].children # NULL <=>
           s \in Slots /\ IF s = at THEN rn[at].rtype # "ALLOCJOB" ELSE rn[s].children # NULL
    BY <1>9, <1>10, <1>12, <2>1, <2>2
  <2> QED BY <1>4, <1>5, <1>9, <2>3 DEF Dirs
<1>25. rn[at].rtype # "ALLOCJOB" =>
          /\ rn'[at].children = b /\ rn'[at].n = n
          /\ \A s : s = at => GuardOf(s)' = b + n
  BY <1>12 DEF GuardOf
<1>26. DirsInv'
  <2>1. rn'[b + n].rtype = "GUARD" /\ rn'[b + n].nm = NoName
    <3>1. b + n \in b .. (b + n)
      BY <1>4
    <3> QED BY <1>10, <3>1 DEF Guard
  <2>2. \A d \in Dirs : /\ rn[d].children > d
                        /\ rn[GuardOf(d)].rtype = "GUARD" /\ rn[GuardOf(d)].nm = NoName
    BY DEF IInv, DirsInv
  <2>3. ASSUME NEW d \in Dirs
        PROVE  /\ rn'[d].children > d /\ GuardOf(d)' < nxt_avail'
               /\ rn'[GuardOf(d)'].rtype = "GUARD" /\ rn'[GuardOf(d)'].nm = NoName
    <3>1. PICK g : g = GuardOf(d) /\ g = GuardOf(d)'
      BY <1>23
    <3>2. g \in Nat /\ g < m
      BY <1>8, <1>23, <3>1 DEF GuardOf
    <3> QED BY <1>8, <1>23, <2>2, <3>1, <3>2
  <2>4. ASSUME rn[at].rtype # "ALLOCJOB", NEW d, d = at
        PROVE  /\ rn'[d].children > d /\ GuardOf(d)' < nxt_avail'
               /\ rn'[GuardOf(d)'].rtype = "GUARD" /\ rn'[GuardOf(d)'].nm = NoName
    BY <1>4, <1>8, <1>9, <1>25, <2>1, <2>4
  <2> QED BY <1>24, <2>3, <2>4 DEF DirsInv
<1>27. \A d \in Dirs : /\ Apart(rn[d].children, rn[d].n, b, n)
                       /\ Apart(b, n, rn[d].children, rn[d].n)
  BY <1>23 DEF Apart, GuardOf
<1>28. BlocksApart'
  <2>1. \A d, e \in Dirs : d = e \/ Apart(rn'[d].children, rn'[d].n, rn'[e].children, rn'[e].n)
    BY <1>23, Zenon DEF IInv, ApartInv, BlocksApart
  <2>2. \A d, e \in Dirs' : d = e \/ Apart(rn'[d].children, rn'[d].n, rn'[e].children, rn'[e].n)
    BY <1>23, <1>24, <1>25, <1>27, <2>1
  <2> QED BY <2>2, Zenon DEF BlocksApart, Apart
<1>29. ASSUME NEW j \in 1 .. k PROVE ApartOK(j)'
  <2>1. PICK g \in Frames : /\ g = stack'[j]
                            /\ j = k => g = f
                            /\ j # k => g = stack[j] /\ j \in 1 .. (k - 1) /\ j \in 1 .. Depth
    <3>1. j = k \/ (j # k /\ j \in 1 .. (k - 1) /\ j \in 1 .. Depth)
      BY <1>3
    <3> QED BY <1>3, <1>14, <3>1, ElementOfSeq DEF IInv, VarsInv, Depth
  <2>2. PICK w : w = NKids(g.at) /\ NKids(stack[j].at)' = w
    <3>1. g.at = stack[j].at
      BY <1>2, <1>3, <1>13, <2>1
    <3> QED BY <1>16, <2>1, <3>1
  <2>3. \A d \in Dirs : d = g.at \/ Apart(rn[d].children, rn[d].n, g.blk, w)
    <3>1. CASE j = k
      BY <1>4, <1>13, <1>27, <2>1, <2>2, <3>1
    <3>2. CASE j # k
      BY <1>18, <2>1, <2>2, <3>2 DEF IInv, ApartInv, ApartOK
    <3> QED BY <3>1, <3>2
  <2>4. rn[at].rtype # "ALLOCJOB" => at = g.at \/ Apart(b, n, g.blk, w)
    <3>1. CASE j = k
      BY <1>13, <2>1, <3>1
    <3>2. CASE j # k
      <4>1. g.blk + w < b
        BY <1>18, <2>1, <2>2, <3>2
      <4> QED BY <4>1 DEF Apart
    <3> QED BY <3>1, <3>2
  <2>5. \A d \in Dirs' : d = g.at \/ Apart(rn'[d].children, rn'[d].n, g.blk, w)
    BY <1>23, <1>24, <1>25, <2>3, <2>4
  <2> QED BY <2>1, <2>2, <2>5, Zenon DEF ApartOK, Apart
<1> QED BY <1>14, <1>19, <1>20, <1>21, <1>22, <1>26, <1>28, <1>29 DEF IInv, ApartInv

\* What mk_fs() begins with: rn_mkfsroot() takes five slots, its own node at b,
\* three children and the guard.
RootMade(b, node) ==
    /\ b = BaseAlloc /\ b > 0 /\ Building /\ stack = <<>> /\ Room(5) /\ ret = Pending
    /\ nxt_avail = b /\ nxt_avail' = b + 5
    /\ node = [rtype |-> "ROOT", gen |-> 1, nm |-> "MountPoint", typ |-> "NONE", dyn |-> NULL,
               parent |-> b, children |-> b + 1, n |-> 3, isdir |-> TRUE]
    /\ Slots' = b .. (b + 4) /\ Slots = {}
    /\ DOMAIN rn' = Slots' /\ rn'[b] = node
    /\ \A s \in (b + 1) .. (b + 4) : rn'[s] = Guard(NULL)
    /\ stack' = <<[at |-> b, blk |-> b + 1, next |-> b + 1, kid |-> 1]>>
    /\ UNCHANGED <<in, ret, caught_in_a_loop, p_fsroot, p_jobd, status>>

\* Its arithmetic: the first five slots of the pool are those from BaseAlloc on.
LEMMA RootIs ==
  ASSUME IInv, MkFsRoot, ~Exit
  PROVE  \E b \in Nat : \E node : RootMade(b, node)
<1>1. PICK b \in Nat : b = BaseAlloc /\ b > 0
  BY DEF IInv
<1>2. PICK node :
         node = [rtype |-> "ROOT", gen |-> 1, nm |-> "MountPoint", typ |-> "NONE", dyn |-> NULL,
                 parent |-> b, children |-> b + 1, n |-> 3, isdir |-> TRUE]
  OBVIOUS
<1>3. /\ Building /\ stack = <<>> /\ Room(5) /\ ret = Pending /\ nxt_avail = b
      /\ rn' = [Provisioned(5, NULL) EXCEPT ![b] = node] /\ nxt_avail' = b + 5
      /\ stack' = <<[at |-> b, blk |-> b + 1, next |-> b + 1, kid |-> 1]>>
      /\ UNCHANGED <<in, ret, caught_in_a_loop, p_fsroot, p_jobd, status>>
  <2>1. Building /\ stack = <<>>
    BY DEF MkFsRoot, Building
  <2>2. ret = Pending /\ nxt_avail = b
    BY <1>1, <2>1 DEF IInv, RetInv
  <2>3. /\ Room(5)
        /\ rn' = [Provisioned(5, NULL) EXCEPT ![nxt_avail] =
                     [rtype |-> "ROOT", gen |-> 1, nm |-> "MountPoint", typ |-> "NONE",
                      dyn |-> NULL, parent |-> nxt_avail, children |-> nxt_avail + 1,
                      n |-> 3, isdir |-> TRUE]]
        /\ nxt_avail' = nxt_avail + 5
        /\ stack' = <<[at |-> nxt_avail, blk |-> nxt_avail + 1, next |-> nxt_avail + 1, kid |-> 1]>>
        /\ UNCHANGED <<in, ret, caught_in_a_loop, p_fsroot, p_jobd, status>>
    BY Zenon DEF MkFsRoot, roots
  <2> QED BY <1>2, <2>1, <2>2, <2>3, Zenon
<1>4. PICK m \in Nat : m = b + 5 /\ nxt_avail' = m
  BY <1>3
<1>5. Slots' = b .. (b + 4) /\ Slots = {}
  BY <1>1, <1>3, <1>4, SlotsThen DEF Slots
<1>6. DOMAIN rn' = Slots' /\ rn'[b] = node /\ \A s \in (b + 1) .. (b + 4) : rn'[s] = Guard(NULL)
  <2>1. PICK pool1 : pool1 = Provisioned(5, NULL)
    OBVIOUS
  <2>2. pool1 = [s \in b .. (b + 4) |-> IF s < b THEN rn[s] ELSE Guard(NULL)]
    <3>1. BaseAlloc = b /\ nxt_avail = b /\ nxt_avail + 5 - 1 = b + 4
      BY <1>1, <1>3
    <3> QED BY <2>1, <3>1 DEF Provisioned
  <2>3. /\ DOMAIN pool1 = b .. (b + 4) /\ b \in b .. (b + 4)
        /\ \A s \in (b + 1) .. (b + 4) : s \in b .. (b + 4) /\ s # b /\ pool1[s] = Guard(NULL)
    BY <2>2
  <2>4. rn' = [pool1 EXCEPT ![b] = node]
    BY <1>3, <2>1
  <2> QED BY <1>5, <2>3, <2>4
<1>7. RootMade(b, node)
  BY <1>1, <1>2, <1>3, <1>5, <1>6, Zenon DEF RootMade
<1> QED BY <1>7

\* The root and its block, in an empty pool, make the invariant true of one
\* builder and one directory.
LEMMA RootKeeps ==
  ASSUME IInv, MkFsRoot, ~Exit
  PROVE  IInv'
<1>1. PICK b \in Nat : \E node : RootMade(b, node)
  BY RootIs
<1>2. PICK node : RootMade(b, node)
  BY <1>1
<1>3. b = BaseAlloc /\ b > 0
  BY <1>2 DEF RootMade
<1>4. PICK f \in Frames : /\ f = [at |-> b, blk |-> b + 1, next |-> b + 1, kid |-> 1]
                          /\ f.at = b /\ f.blk = b + 1 /\ f.next = b + 1 /\ f.kid = 1
  <2>1. LET g == [at |-> b, blk |-> b + 1, next |-> b + 1, kid |-> 1]
        IN g \in Frames /\ g.at = b /\ g.blk = b + 1 /\ g.next = b + 1 /\ g.kid = 1
    BY <1>3 DEF Frames
  <2> QED BY <2>1
<1>5. /\ Building /\ stack = <<>> /\ Room(5) /\ ret = Pending /\ nxt_avail = b
      /\ nxt_avail' = b + 5 /\ stack' = <<f>>
      /\ UNCHANGED <<in, ret, caught_in_a_loop, p_fsroot, p_jobd, status>>
  BY <1>4, <1>2, Zenon DEF RootMade
<1>6. PICK m \in Nat : m = b + 5 /\ nxt_avail' = m
  BY <1>5
<1>7. Slots' = b .. (b + 4) /\ Slots = {}
  BY <1>2 DEF RootMade
<1>8. DOMAIN rn' = Slots' /\ rn'[b] = node /\ \A s \in (b + 1) .. (b + 4) : rn'[s] = Guard(NULL)
  BY <1>2 DEF RootMade
<1>9. /\ stack' \in Seq(Frames) /\ Depth' = 1 /\ stack'[1] = f /\ stack' # <<>>
  BY <1>5 DEF Depth
<1>10. /\ node.rtype = "ROOT" /\ node.parent = b /\ node.children = b + 1 /\ node.n = 3
       /\ node.gen = 1 /\ node.isdir = TRUE /\ DOMAIN node = NodeFields
  BY <1>2 DEF NodeFields, RootMade
<1>11. \A s : s = b => NKids(s)' = 3
  <2>1. \A s : s = b => Row(rn'[s].rtype) = "ROOT"
    BY <1>8, <1>10, BuiltRows DEF BuiltTypes
  <2>2. \A s : s = b => Children(s)' = RootChildren'
    BY <2>1, Zenon DEF Children
  <2>3. RootChildren' = RootChildren
    BY Zenon DEF RootChildren, Dir, Child
  <2>4. Len(RootChildren) = 3
    BY DEF RootChildren
  <2>5. \A s : s = b => NKids(s)' = Len(RootChildren)
    BY <2>2, <2>3, Zenon DEF NKids
  <2> QED BY <2>4, <2>5
<1>12. \A s \in (b + 1) .. (b + 4) : Fresh(s)' /\ NodeOK(rn[s])' /\ rn'[s].children = NULL
  <2>1. /\ NodeOK(Guard(NULL))' /\ Guard(NULL).parent = NULL /\ Guard(NULL).children = NULL
    BY RTypesSet DEF Guard, NodeOK, NodeFields
  <2> QED BY <1>8, <2>1 DEF Fresh
<1>13. PoolInv'
  <2>1. NodeOK(node)'
    <3>1. node.parent \in Slots' /\ node.children \in Slots' /\ node.rtype \in RTypes
          /\ node.gen \in 0 .. 2 /\ node.n \in Nat /\ node.isdir \in BOOLEAN
      <4>1. node.rtype \in RTypes
        BY <1>10, RTypesSet
      <4>2. node.isdir \in BOOLEAN
        BY <1>10, Zenon
      <4>3. node.parent \in Slots' /\ node.children \in Slots' /\ node.gen \in 0 .. 2
            /\ node.n \in Nat
        BY <1>7, <1>10
      <4> QED BY <4>1, <4>2, <4>3
    <3> QED BY <1>10, <3>1 DEF NodeOK
  <2>2. \A s \in Slots' : NodeOK(rn[s])'
    <3>1. \A s \in Slots' : s = b \/ s \in (b + 1) .. (b + 4)
      BY <1>7
    <3> QED BY <1>8, <1>12, <2>1, <3>1
  <2>3. /\ in' \in Inputs /\ nxt_avail' \in Nat /\ nxt_avail' >= BaseAlloc
        /\ (nxt_avail - BaseAlloc <= in.maxalloc)'
    <3>1. in \in Inputs /\ in' = in
      BY <1>5, Zenon DEF IInv, PoolInv
    <3>2. PICK max \in Nat : max = in.maxalloc
      BY <3>1, InputsAssumption, Zenon
    <3>3. nxt_avail - BaseAlloc + 5 <= max
      BY <1>5, <3>2, Zenon DEF Room
    <3>4. m - BaseAlloc <= max /\ m >= BaseAlloc
      BY <1>3, <1>5, <1>6, <3>3
    <3> QED BY <1>6, <3>1, <3>2, <3>4
  <2> QED BY <1>8, <2>2, <2>3, Zenon DEF PoolInv
<1>14. VarsInv'
  BY <1>5, <1>7, <1>9 DEF IInv, VarsInv
<1>15. FrameInv' /\ EnteredInv' /\ OrderInv'
  <2>1. FrameOK(1)'
    BY <1>4, <1>7, <1>8, <1>9, <1>10 DEF FrameOK
  <2>2. EnteredOK(1)'
    BY <1>4, <1>9 DEF EnteredOK
  <2> QED BY <1>9, <2>1, <2>2 DEF FrameInv, EnteredInv, OrderInv
<1>16. BlockInv'
  <2>1. Done(1)' = 0
    BY <1>4, <1>5, <1>9, DoneThen
  <2>2. \A p : /\ Pos(f, p)' = b + 1 + IF p = 1 THEN 0 ELSE 4 - p
               /\ Pos(stack[1], p)' = b + 1 + IF p = 1 THEN 0 ELSE 4 - p
    BY <1>4, <1>8, <1>9, <1>10 DEF Pos
  <2>3. ASSUME NEW p \in (0 + 1) .. 3 PROVE Fresh(Pos(stack[1], p))'
    <3>1. PICK s : s = b + 1 + (IF p = 1 THEN 0 ELSE 4 - p)
      OBVIOUS
    <3>2. s \in (b + 1) .. (b + 4)
      BY <3>1
    <3>3. Pos(stack[1], p)' = s
      BY <2>2, <3>1
    <3> QED BY <1>12, <3>2, <3>3
  <2>4. \A s : s = f.blk + 3 => Fresh(s)'
    BY <1>4, <1>12
  <2>5. NKids(stack[1].at)' = 3
    BY <1>4, <1>9, <1>11
  <2>6. BlockThen(1, f, 3, m, 0, node)
    BY <1>4, <1>6, <1>8, <1>9, <1>10, <2>1, <2>2, <2>3, <2>4, <2>5 DEF BlockThen
  <2>7. BlockOK(1)'
    BY <2>6, BlockIsOK
  <2> QED BY <1>9, <2>7 DEF BlockInv
<1>17. Dirs' = {b}
  <2>1. \A s \in Slots' : s = b \/ s \in (b + 1) .. (b + 4)
    BY <1>7
  <2>2. b \in Slots' /\ rn'[b].children # NULL
    BY <1>7, <1>8, <1>10
  <2> QED BY <1>12, <2>1, <2>2 DEF Dirs
<1>18. DirsInv'
  <2>1. \A s : s = b => GuardOf(s)' = b + 4
    BY <1>8, <1>10 DEF GuardOf
  <2>2. rn'[b + 4].rtype = "GUARD" /\ rn'[b + 4].nm = NoName
    BY <1>8 DEF Guard
  <2>3. rn'[b].children > b /\ b + 4 < m
    BY <1>6, <1>8, <1>10
  <2> QED BY <1>6, <1>17, <2>1, <2>2, <2>3 DEF DirsInv
<1>19. ApartInv'
  <2>1. ApartOK(1)'
    BY <1>4, <1>9, <1>17 DEF ApartOK
  <2>2. BlocksApart'
    BY <1>17 DEF BlocksApart
  <2> QED BY <1>9, <2>1, <2>2 DEF ApartInv
<1>20. RetInv'
  BY <1>5, <1>9 DEF RetInv
<1> QED BY <1>13, <1>14, <1>15, <1>16, <1>18, <1>19, <1>20 DEF IInv

\* What rn_mkattr() does: it casts its own node at a second time, to v, which
\* has another type only if it was a knob.
CastsAttr(at, v) ==
    /\ at = Top.at /\ at \in Slots /\ Building /\ stack # <<>> /\ Top.kid = 0 /\ ret = Pending
    /\ Depth > 1 /\ rn[at].rtype \in BuiltTypes \cap AttrTypes /\ Cast(rn[at])
    /\ rn[at].children = NULL /\ rn[at].gen = 1 /\ NodeOK(rn[at])
    /\ rn' = [rn EXCEPT ![at] = v] /\ DOMAIN rn' = DOMAIN rn /\ rn'[at] = v
    /\ \A s \in Slots : s # at => rn'[s] = rn[s]
    /\ v.rtype = rn[at].rtype \/ (rn[at].rtype = "KNOB" /\ v.rtype = "ATTRIBUTE")
    /\ v.gen = 2 /\ v.nm = rn[at].nm /\ v.typ = rn[at].typ /\ v.dyn = rn[at].dyn
    /\ v.parent = rn[at].parent /\ v.children = NULL /\ v.n = rn[at].n /\ NodeOK(v)
    /\ v.isdir = IsDir(v.rtype)
    /\ UNCHANGED <<in, nxt_avail, caught_in_a_loop, p_fsroot, p_jobd>> /\ Slots' = Slots
    /\ \/ /\ v.rtype = "SIGNATURE" /\ status' \in {"exited", "crashed"}
          /\ UNCHANGED <<stack, ret>>
       \/ v.rtype # "SIGNATURE" /\ stack' = Below /\ ret' = at /\ UNCHANGED status

\* rn_mkattr() does that: what it converts the type to is the type it has,
\* because p2r_typ_convtab[] gave it, but for a knob.
LEMMA AttrIs ==
  ASSUME IInv, MkAttr
  PROVE  \E at, v : CastsAttr(at, v)
<1>1. PICK at, old : at = Top.at /\ old = rn[at]
  OBVIOUS
<1>2. PICK rtype : rtype = p2r_typ_convtab(old.typ)
  OBVIOUS
<1>3. PICK dir \in BOOLEAN : dir = IsDir(rtype)
  BY Zenon DEF IsDir
<1>4. PICK v : v = [old EXCEPT !.gen = @ + 1, !.rtype = rtype, !.isdir = dir]
  OBVIOUS
<1>5. /\ Building /\ stack # <<>> /\ Top.kid = 0 /\ IsLeaf(at)
      /\ rn' = [rn EXCEPT ![at] = v]
      /\ UNCHANGED <<in, nxt_avail, caught_in_a_loop, p_fsroot, p_jobd>>
      /\ \/ /\ rtype = "SIGNATURE" /\ status' \in {"exited", "crashed"}
            /\ UNCHANGED <<stack, ret>>
         \/ rtype # "SIGNATURE" /\ stack' = Below /\ ret' = at /\ UNCHANGED status
  <2>1. rn' = [rn EXCEPT ![at] = [old EXCEPT !.gen = @ + 1, !.rtype = rtype,
                                             !.isdir = IsDir(rtype)]]
    BY <1>1, <1>2 DEF MkAttr
  <2>2. /\ UNCHANGED <<in, nxt_avail, caught_in_a_loop, p_fsroot, p_jobd>>
        /\ IF rtype = "SIGNATURE"
           THEN /\ status' = IF Returns("ASSERT") THEN "crashed" ELSE "exited"
                /\ UNCHANGED <<stack, ret>>
           ELSE stack' = Below /\ ret' = at /\ UNCHANGED status
    BY <1>1, <1>2, Zenon DEF MkAttr, roots
  <2>3. Building /\ stack # <<>> /\ Top.kid = 0 /\ IsLeaf(at)
    BY <1>1 DEF MkAttr, Entered, Running, Building
  <2> QED BY <1>3, <1>4, <2>1, <2>2, <2>3
<1>6. PICK k \in Nat : k = Depth /\ k >= 1 /\ Top = stack[k] /\ Top \in Frames /\ k \in 1 .. Depth
  BY <1>5, TopIs DEF IInv, VarsInv
<1>7. /\ at \in Slots /\ old.rtype \in BuiltTypes
      /\ old.children = NULL /\ old.gen = 1 /\ Cast(old) /\ NodeOK(old) /\ ret = Pending
  <2>1. at \in Slots /\ old.rtype \in BuiltTypes
    BY <1>1, <1>6, FrameFacts DEF IInv
  <2>2. old.children = NULL /\ old.gen = 1 /\ Cast(old) /\ ret = Pending
    BY <1>1, <1>5, <1>6 DEF IInv, EnteredInv, EnteredOK
  <2> QED BY <1>1, <2>1, <2>2 DEF IInv, PoolInv
<1>8. old.rtype \in AttrTypes
  <2>1. Row(old.rtype) \in AttrTypes
    BY <1>1, <1>5 DEF IsLeaf
  <2> QED BY <1>7, <2>1, BuiltRows DEF AttrTypes, AttrSubtypes
<1>9. rtype = old.rtype \/ (old.rtype = "KNOB" /\ rtype = "ATTRIBUTE")
  BY <1>2, <1>7, <1>8 DEF Cast, p2r_typ_convtab
<1>10. /\ v.rtype = rtype /\ v.gen = 2 /\ v.nm = old.nm /\ v.typ = old.typ /\ v.dyn = old.dyn
       /\ v.parent = old.parent /\ v.children = NULL /\ v.n = old.n /\ NodeOK(v)
       /\ v.isdir = IsDir(v.rtype)
  <2>1. /\ DOMAIN v = NodeFields /\ v.rtype = rtype /\ v.gen = 2 /\ v.nm = old.nm
        /\ v.typ = old.typ /\ v.parent = old.parent /\ v.dyn = old.dyn
        /\ v.children = old.children /\ v.n = old.n /\ v.isdir = dir
    BY <1>4, <1>7 DEF NodeOK, NodeFields
  <2>2. rtype \in RTypes
    BY <1>2, RTypesSet DEF p2r_typ_convtab
  <2>3. v.isdir = IsDir(v.rtype)
    BY <1>3, <2>1, Zenon
  <2> QED BY <1>7, <2>1, <2>2, <2>3 DEF NodeOK
<1>11. /\ \A s \in Slots : s # at => rn'[s] = rn[s]
       /\ DOMAIN rn' = DOMAIN rn /\ rn'[at] = v /\ Slots' = Slots
  BY <1>5, <1>7 DEF IInv, PoolInv, Slots
<1>12. Depth > 1
  BY <1>5, <1>6 DEF IInv, FrameInv, FrameOK
<1>13. CastsAttr(at, v)
  BY <1>1, <1>5, <1>7, <1>8, <1>9, <1>10, <1>11, <1>12 DEF CastsAttr
<1> QED BY <1>13

\* rn_mkattr() of a signature: the node is written, and the process is at its
\* end, below every builder it was in.
LEMMA SignatureKeeps ==
  ASSUME IInv, NEW at, NEW v, CastsAttr(at, v), UNCHANGED <<stack, ret>>,
         v.rtype = "SIGNATURE", status' \in {"exited", "crashed"}
  PROVE  IInv'
<1>1. PICK old : at = Top.at /\ old = rn[at]
  BY DEF CastsAttr
<1>2. /\ Building /\ stack # <<>> /\ Top.kid = 0 /\ rn' = [rn EXCEPT ![at] = v]
      /\ UNCHANGED <<in, nxt_avail, caught_in_a_loop, p_fsroot, p_jobd>>
  BY DEF CastsAttr
<1>3. PICK k \in Nat : k = Depth /\ k >= 1 /\ Top = stack[k] /\ Top \in Frames /\ k \in 1 .. Depth
  BY <1>2, TopIs DEF IInv, VarsInv
<1>4. /\ at \in Slots /\ Untouched(at) /\ old.children = NULL /\ Cast(old) /\ ret = Pending
  BY <1>1, <1>2, UntouchedTop DEF CastsAttr
<1>5. old.rtype = "SIGNATURE"
  BY <1>1 DEF CastsAttr
<1>6. /\ v.rtype = "SIGNATURE" /\ v.gen = 2 /\ v.typ = old.typ /\ v.parent = old.parent
      /\ v.dyn = old.dyn /\ v.children = NULL /\ NodeOK(v) /\ Cast(v) /\ SameList(old, v)
  BY <1>1, <1>4, <1>5 DEF CastsAttr, Cast, SameList
<1>7. /\ \A s \in Slots : s # at => rn'[s] = rn[s]
      /\ DOMAIN rn' = DOMAIN rn /\ rn'[at] = v
      /\ Slots' = Slots /\ Depth' = k /\ Top' = Top /\ nxt_avail \in Nat /\ ~Building'
  <2>1. Depth' = k /\ Top' = Top /\ nxt_avail \in Nat /\ ~Building'
    BY <1>3 DEF IInv, PoolInv, Depth, Top, Building
  <2> QED BY <2>1 DEF CastsAttr
<1>8. WritesAbove(at)
  <2>1. Depth' \in {Depth - 1, Depth, Depth + 1} /\ Depth' # Depth - 1
    BY <1>3, <1>7
  <2>2. SameList(rn[at], rn'[at])
    BY <1>1, <1>6, <1>7
  <2> QED BY <1>2, <1>4, <1>7, <2>1, <2>2 DEF WritesAbove
<1>9. /\ \A j \in 1 .. (k - 1) : FrameOK(j)' /\ EnteredOK(j)' /\ BlockOK(j)'
      /\ \A i, j \in 1 .. (k - 1) : i < j => OrderOK(i, j)'
  BY <1>2, <1>3, <1>8, LowerKept
<1>10. \A j \in 1 .. k : \A s : s = stack[j].at => NKids(s)' = NKids(s)
  <2>1. Depth' # Depth - 1
    BY <1>3, <1>7
  <2> QED BY <1>2, <1>3, <1>8, <2>1, LowerKept
<1>11. PICK f \in Frames : f = Top /\ f.at = at /\ f.kid = 0 /\ stack'[k] = f
  BY <1>1, <1>2, <1>3
<1>12. FrameOK(k)' /\ \A j \in 1 .. (k - 1) : stack'[j].at < f.at
  <2>1. Depth' # Depth - 1
    BY <1>3, <1>7
  <2> QED BY <1>2, <1>3, <1>8, <1>11, <2>1, TopKept
<1>13. EnteredOK(k)' /\ BlockOK(k)' /\ \A j \in 1 .. (k - 1) : OrderOK(j, k)'
  <2>1. EnteredOK(k)'
    BY <1>6, <1>7, <1>11 DEF EnteredOK, Cast
  <2>2. BlockOK(k)'
    BY <1>11 DEF BlockOK
  <2>3. \A j \in 1 .. (k - 1) : OrderOK(j, k)'
    BY <1>11, <1>12 DEF OrderOK
  <2> QED BY <2>1, <2>2, <2>3
<1>14. FrameInv' /\ EnteredInv' /\ BlockInv' /\ OrderInv'
  <2>1. \A j \in 1 .. k : j = k \/ j \in 1 .. (k - 1)
    BY <1>3
  <2>2. FrameInv'
    BY <1>7, <1>9, <1>12, <2>1 DEF FrameInv
  <2>3. EnteredInv'
    BY <1>7, <1>9, <1>13, <2>1 DEF EnteredInv
  <2>4. BlockInv'
    BY <1>7, <1>9, <1>13, <2>1 DEF BlockInv
  <2>5. OrderInv'
    BY <1>3, <1>7, <1>9, <1>13, <2>1 DEF OrderInv
  <2> QED BY <2>2, <2>3, <2>4, <2>5
<1>15. PoolInv'
  <2>1. \A w : NodeOK(w)' <=> NodeOK(w)
    BY <1>7 DEF NodeOK
  <2>2. \A s \in Slots : NodeOK(rn'[s])
    BY <1>6, <1>7 DEF IInv, PoolInv
  <2> QED BY <1>2, <1>7, <2>1, <2>2 DEF IInv, PoolInv
<1>16. VarsInv'
  BY <1>2, <1>7 DEF IInv, VarsInv
<1>17. /\ Dirs' = Dirs /\ \A d \in Dirs : rn'[d] = rn[d]
       /\ DirsInv' /\ BlocksApart'
  <2>1. \A d \in Dirs : at # GuardOf(d)
    <3>1. \A d \in Dirs : rn[GuardOf(d)].rtype = "GUARD"
      BY DEF IInv, DirsInv
    <3> QED BY <1>1, <1>5, <3>1
  <2>2. rn[at].children = NULL /\ rn'[at].children = NULL
    BY <1>1, <1>4, <1>6, <1>7
  <2> QED BY <1>2, <1>7, <2>1, <2>2, DirsKept
<1>18. ApartInv'
  <2>1. \A j \in 1 .. Depth' : stack'[j].kid > 0 =>
             /\ j \in 1 .. Depth /\ stack[j].kid > 0
             /\ stack'[j].at = stack[j].at /\ stack'[j].blk = stack[j].blk
             /\ \A s : s = stack[j].at => NKids(s)' = NKids(s)
    BY <1>2, <1>3, <1>7, <1>10
  <2> QED BY <1>17, <2>1, ApartKept
<1>19. RetInv'
  BY <1>7 DEF RetInv
<1> QED BY <1>14, <1>15, <1>16, <1>17, <1>18, <1>19 DEF IInv

\* rn_mkattr(): the node is cast and returned, or the process is at its end.
LEMMA AttrKeeps ==
  ASSUME IInv, MkAttr
  PROVE  IInv'
<1>1. PICK at, v : CastsAttr(at, v)
  BY AttrIs
<1>2. CASE /\ v.rtype = "SIGNATURE" /\ status' \in {"exited", "crashed"}
           /\ UNCHANGED <<stack, ret>>
  BY <1>1, <1>2, SignatureKeeps
<1>3. CASE stack' = Below /\ ret' = at /\ UNCHANGED status
  <2>1. Below # <<>>
    <3>1. stack # <<>> /\ Depth # 1
      BY <1>1 DEF CastsAttr
    <3> QED BY <3>1, TopIs DEF IInv, VarsInv
  <2>2. status' \in {"building", "mounted", "exited", "crashed"} /\ caught_in_a_loop' \in BOOLEAN
        /\ p_fsroot' \in Slots \cup {NULL} /\ p_jobd' \in Slots \cup {NULL}
    BY <1>1, <1>3 DEF IInv, VarsInv, CastsAttr
  <2>3. \A s \in Slots : NodeOK(rn'[s])
    BY <1>1 DEF CastsAttr, IInv, PoolInv
  <2>4. Pops(at)
    BY <1>1, <1>3, <2>1, <2>2, <2>3 DEF Pops, CastsAttr
  <2> QED BY <2>4, PopKeeps
<1> QED BY <1>1, <1>2, <1>3 DEF CastsAttr

\* A builder reports an error and returns NULL, or the process ends.
LEMMA FailKeeps ==
  ASSUME IInv, NEW sev, Fail(sev), Building, stack # <<>>
  PROVE  IInv'
<1>1. CASE Exit
  BY <1>1, EndKeeps DEF Exit, pool, roots
<1>2. CASE ~Exit
  <2>1. /\ Below # <<>> /\ stack' = Below /\ ret' = NULL
        /\ UNCHANGED <<in, rn, nxt_avail, p_fsroot, p_jobd, status>>
        /\ caught_in_a_loop' = (caught_in_a_loop \/ sev = "ASSERT")
    BY <1>2, Zenon DEF Fail, Catch, pool, roots
  <2>2. caught_in_a_loop' \in BOOLEAN
    BY <2>1 DEF IInv, VarsInv
  <2>3. /\ status' \in {"building", "mounted", "exited", "crashed"}
        /\ p_fsroot' \in Slots \cup {NULL} /\ p_jobd' \in Slots \cup {NULL}
    BY <2>1 DEF IInv, VarsInv
  <2>4. Pops(NULL)
    BY <2>1, <2>2, <2>3 DEF Pops, IInv, PoolInv
  <2> QED BY <2>4, PopKeeps
<1> QED BY <1>1, <1>2

\* A builder that has cast all its children returns.
LEMMA ReturnKeeps ==
  ASSUME IInv, Return
  PROVE  IInv'
<1>1. /\ Building /\ stack # <<>> /\ stack' = Below /\ Top.kid > 0
      /\ UNCHANGED <<in, rn, nxt_avail, caught_in_a_loop, p_fsroot>>
      /\ ret' = IF Row(rn[Top.at].rtype) = "NODESTATE" THEN Top.blk ELSE Top.at
      /\ p_jobd' = IF rn[Top.at].rtype = "JOBS" THEN Top.at ELSE p_jobd
      /\ status' = IF Below = <<>> THEN "mounted" ELSE status
  BY DEF Return, Casting, Running, Building, pool
<1>2. PICK k \in Nat : k = Depth /\ k >= 1 /\ Top = stack[k] /\ Top \in Frames /\ k \in 1 .. Depth
  BY <1>1, TopIs DEF IInv, VarsInv
<1>3. Top.at \in Slots /\ rn[Top.at].rtype \in BuiltTypes /\ NKids(Top.at) \in Nat
  BY <1>2, FrameFacts DEF IInv
<1>4. Top.blk \in Slots
  <2>1. Top.at < Top.blk /\ Top.blk + NKids(Top.at) < nxt_avail
    BY <1>1, <1>2 DEF IInv, BlockInv, BlockOK
  <2> QED BY <1>2, <1>3, <2>1 DEF Slots, Frames, IInv, PoolInv
<1>5. ret' \in Slots /\ (ret' = Top.at \/ rn[Top.at].rtype = "ALLOCJOB")
  <2>1. Row(rn[Top.at].rtype) = "NODESTATE" => rn[Top.at].rtype = "ALLOCJOB"
    BY <1>3, BuiltRows DEF BuiltTypes, AttrTypes, AttrSubtypes
  <2> QED BY <1>1, <1>3, <1>4, <2>1
<1>6. Pops(NULL)
  <2>1. /\ status' \in {"building", "mounted", "exited", "crashed"}
        /\ Below = <<>> => status' # "building"
        /\ p_fsroot' \in Slots \cup {NULL} /\ p_jobd' \in Slots \cup {NULL}
        /\ caught_in_a_loop' \in BOOLEAN
    BY <1>1, <1>3 DEF IInv, VarsInv
  <2> QED BY <1>1, <1>5, <2>1 DEF Pops, IInv, PoolInv
<1> QED BY <1>6, PopKeeps

\* Where the next child goes is its place in the builder's own block, although
\* most builders add one to what rn_cast() has just returned.
LEMMA NextSlotIs ==
  ASSUME IInv, Building, stack # <<>>, ret # Pending
  PROVE  /\ Top.kid + 1 <= NKids(Top.at) => Top.next + 1 = Pos(Top, Top.kid + 1)
                                            \/ rn[Top.at].rtype = "ROOT"
         /\ ret > NULL => NextSlot \in Nat
         /\ ret > NULL /\ Top.kid + 1 <= NKids(Top.at) => NextSlot = Pos(Top, Top.kid + 1)
<1>1. PICK k \in Nat : k = Depth /\ k >= 1 /\ Top = stack[k] /\ Top \in Frames /\ k \in 1 .. Depth
  BY TopIs DEF IInv, VarsInv
<1>2. PICK n \in Nat : /\ n = NKids(Top.at) /\ Top.at \in Slots
                       /\ rn[Top.at].rtype \in BuiltTypes
                       /\ rn[Top.at].rtype = "ROOT" => n = 3
  BY <1>1, FrameFacts DEF IInv
<1>3. /\ Top.kid > 0 /\ Top.kid <= n
      /\ ret > NULL => \/ ret = Top.next \/ Top.kid = n
                       \/ rn[Top.at].rtype \notin {"CLUSTER", "PARTNAME", "JOBID", "ATTRIBUTES"}
  BY <1>2 DEF IInv, RetInv
<1>4. Top.next = Pos(Top, Top.kid)
  BY <1>1, <1>2, <1>3 DEF IInv, BlockInv, BlockOK
<1>5. PICK kid, blk, next \in Nat : kid = Top.kid /\ blk = Top.blk /\ next = Top.next
  BY <1>1 DEF Frames
<1>6. ret \in Int /\ (ret > NULL => ret \in Nat)
  BY DEF IInv, VarsInv, Slots
<1>7. PICK rtype : rtype = rn[Top.at].rtype
  OBVIOUS
<1>8. /\ rtype = "ROOT" => NextSlot = RootSlots(blk)[(kid % 3) + 1]
      /\ rtype \in {"CLUSTER", "PARTNAME", "JOBID", "ATTRIBUTES"} => NextSlot = ret + 1
      /\ rtype \notin {"ROOT", "CLUSTER", "PARTNAME", "JOBID", "ATTRIBUTES"} =>
            NextSlot = next + 1
  <2>1. PICK row : row = Row(rtype)
    OBVIOUS
  <2>2. /\ row = "ROOT" => NextSlot = RootSlots(Top.blk)[(Top.kid % 3) + 1]
        /\ row \in {"CLUSTER", "PARTNAME", "JOBID", "ATTRIBUTES"} => NextSlot = ret + 1
        /\ row # "ROOT" /\ row \notin {"CLUSTER", "PARTNAME", "JOBID", "ATTRIBUTES"} =>
              NextSlot = Top.next + 1
    BY <1>7, <2>1, Zenon DEF NextSlot
  <2>3. row = IF rtype = "ALLOCJOB" THEN "NODESTATE" ELSE rtype
    BY <1>2, <1>7, <2>1, BuiltRows
  <2> QED BY <1>5, <2>2, <2>3
<1>9. PICK pos : /\ pos = Pos(Top, Top.kid + 1)
                 /\ rtype = "ROOT" => pos = blk + 3 - kid
                 /\ rtype # "ROOT" => pos = blk + kid /\ next = blk + kid - 1
  <2>1. kid > 0 /\ next = Pos(Top, kid)
    BY <1>3, <1>4, <1>5
  <2> QED BY <1>5, <1>7, <2>1 DEF Pos
<1>10. rtype = "ROOT" =>
          /\ RootSlots(blk)[(kid % 3) + 1] \in Nat
          /\ kid + 1 <= 3 => RootSlots(blk)[(kid % 3) + 1] = blk + 3 - kid
  <2> SUFFICES ASSUME rtype = "ROOT"
               PROVE  /\ RootSlots(blk)[(kid % 3) + 1] \in Nat
                      /\ kid + 1 <= 3 => RootSlots(blk)[(kid % 3) + 1] = blk + 3 - kid
    OBVIOUS
  <2>1. kid = 1 \/ kid = 2 \/ kid = 3
    BY <1>2, <1>3, <1>5, <1>7
  <2>2. 1 % 3 = 1 /\ 2 % 3 = 2 /\ 3 % 3 = 0
    OBVIOUS
  <2>3. RootSlots(blk)[1] = blk /\ RootSlots(blk)[2] = blk + 2 /\ RootSlots(blk)[3] = blk + 1
    BY DEF RootSlots
  <2> QED BY <2>1, <2>2, <2>3
<1>11. Top.kid + 1 <= NKids(Top.at) => Top.next + 1 = Pos(Top, Top.kid + 1) \/ rtype = "ROOT"
  <2>1. next + 1 = pos \/ rtype = "ROOT"
    BY <1>9
  <2> QED BY <1>5, <1>9, <2>1
<1>12. ret > NULL => NextSlot \in Nat
  <2>1. ret > NULL => ret + 1 \in Nat
    BY <1>6
  <2> QED BY <1>5, <1>8, <1>10, <2>1
<1>13. ret > NULL /\ Top.kid + 1 <= NKids(Top.at) => NextSlot = Pos(Top, Top.kid + 1)
  <2> SUFFICES ASSUME ret > NULL, Top.kid + 1 <= NKids(Top.at)
               PROVE  NextSlot = Pos(Top, Top.kid + 1)
    OBVIOUS
  <2>1. kid + 1 <= n /\ kid # n
    BY <1>2, <1>5
  <2>2. CASE rtype = "ROOT"
    <3>1. kid + 1 <= 3
      BY <1>2, <1>7, <2>1, <2>2
    <3> QED BY <1>8, <1>9, <1>10, <2>2, <3>1
  <2>3. CASE rtype \in {"CLUSTER", "PARTNAME", "JOBID", "ATTRIBUTES"}
    <3>1. ret = next
      BY <1>3, <1>5, <1>7, <2>1, <2>3
    <3>2. NextSlot = ret + 1 /\ pos = blk + kid /\ next = blk + kid - 1
      BY <1>8, <1>9, <2>3
    <3>3. NextSlot = pos
      BY <3>1, <3>2
    <3> QED BY <1>9, <3>3
  <2>4. CASE rtype \notin {"ROOT", "CLUSTER", "PARTNAME", "JOBID", "ATTRIBUTES"}
    <3>1. NextSlot = next + 1 /\ pos = blk + kid /\ next = blk + kid - 1
      BY <1>8, <1>9, <2>4
    <3>2. NextSlot = pos
      BY <3>1
    <3> QED BY <1>9, <3>2
  <2> QED BY <2>2, <2>3, <2>4
<1> QED BY <1>7, <1>11, <1>12, <1>13

\* A child is there: the builder goes on to the next one.
LEMMA BuiltKeeps ==
  ASSUME IInv, ChildBuilt
  PROVE  IInv'
<1>1. /\ Building /\ stack # <<>> /\ ret > NULL /\ ret # Pending /\ ret' = Pending
      /\ SetTop(Advanced(Top, NextSlot))
      /\ UNCHANGED <<in, rn, nxt_avail, caught_in_a_loop, p_jobd, status>>
  <2>1. Building /\ stack # <<>> /\ ret > NULL
    BY DEF ChildBuilt, Running, Building
  <2>2. SetTop(Advanced(Top, NextSlot))
    BY Zenon DEF ChildBuilt, Advanced
  <2> QED BY <2>1, <2>2 DEF ChildBuilt, pool
<1>2. p_fsroot' \in Slots \cup {NULL}
  <2>1. p_fsroot' = Top.at \/ p_fsroot' = p_fsroot
    BY Zenon DEF ChildBuilt
  <2> QED BY <1>1, <2>1, UntouchedTop DEF IInv, VarsInv
<1>3. PICK nx \in Nat : /\ nx = NextSlot
                        /\ Top.kid + 1 <= NKids(Top.at) => nx = Pos(Top, Top.kid + 1)
  BY <1>1, NextSlotIs
<1>4. SetTop(Advanced(Top, nx))
  BY <1>1, <1>3, Zenon
<1> QED BY <1>1, <1>2, <1>3, <1>4, AdvanceKeeps

\* rn_cast() has returned NULL: the builder fails as well, or skips the child.
LEMMA FailsKeeps ==
  ASSUME IInv, ChildFails
  PROVE  IInv'
<1>1. Building /\ stack # <<>> /\ ret = NULL /\ ret # Pending
  BY DEF ChildFails, Running, Building
<1>2. CASE NextChild.onNull = "CONTINUE"
  <2>1. /\ SetTop([Top EXCEPT !.kid = @ + 1, !.next = @ + 1]) /\ ret' = Pending
        /\ UNCHANGED <<in, rn, nxt_avail, caught_in_a_loop, p_fsroot, p_jobd, status>>
    BY <1>2, Zenon DEF ChildFails, pool, roots
  <2>2. Top.kid \in 1 .. NKids(Top.at) /\ Top.next \in Nat
    <3>1. Depth \in 1 .. Depth /\ Top = stack[Depth] /\ Top \in Frames
      BY <1>1, TopIs DEF IInv, VarsInv
    <3>2. NKids(Top.at) \in Nat /\ Top.kid > 0 /\ Top.kid <= NKids(Top.at)
      BY <1>1, <3>1, FrameFacts DEF IInv, RetInv
    <3> QED BY <3>1, <3>2 DEF Frames
  <2>3. rn[Top.at].rtype = "JOBS"
    BY <1>1, <1>2, <2>2, NextIs
  <2>4. PICK nx \in Nat : nx = Top.next + 1
    BY <2>2
  <2>5. Top.kid + 1 <= NKids(Top.at) => nx = Pos(Top, Top.kid + 1)
    BY <1>1, <2>3, <2>4, NextSlotIs
  <2>6. SetTop(Advanced(Top, nx))
    BY <2>1, <2>4, Zenon DEF Advanced
  <2>7. p_fsroot' \in Slots \cup {NULL}
    BY <2>1 DEF IInv, VarsInv
  <2> QED BY <1>1, <2>1, <2>5, <2>6, <2>7, AdvanceKeeps
<1>3. CASE NextChild.onNull # "CONTINUE"
  <2>1. Fail(NextChild.onNull)
    BY <1>3, Zenon DEF ChildFails
  <2> QED BY <1>1, <2>1, FailKeeps
<1> QED BY <1>2, <1>3

\* Before mk_fs() runs, the pool is empty and nothing is built.
LEMMA InitIInv == Init => IInv
<1> SUFFICES ASSUME Init PROVE IInv
  OBVIOUS
<1>1. /\ in \in Inputs /\ rn = [s \in {} |-> Guard(NULL)] /\ nxt_avail = BaseAlloc
      /\ stack = <<>> /\ ret = Pending /\ caught_in_a_loop = FALSE
      /\ p_fsroot = NULL /\ p_jobd = NULL /\ status = "building"
  BY DEF Init
<1>2. Slots = {} /\ Depth = 0 /\ Dirs = {}
  BY <1>1 DEF Slots, Depth, Dirs
<1>3. PoolInv
  <2>1. in.maxalloc \in Nat
    BY <1>1, InputsAssumption
  <2> QED BY <1>1, <1>2, <2>1 DEF PoolInv
<1>4. VarsInv
  <2>1. <<>> \in Seq(Frames)
    OBVIOUS
  <2>2. caught_in_a_loop \in BOOLEAN
    BY <1>1
  <2> QED BY <1>1, <2>1, <2>2 DEF VarsInv
<1>5. FrameInv /\ EnteredInv /\ BlockInv /\ OrderInv
  BY <1>2 DEF FrameInv, EnteredInv, BlockInv, OrderInv
<1>6. DirsInv /\ ApartInv
  BY <1>2 DEF DirsInv, ApartInv, BlocksApart
<1>7. RetInv
  BY <1>1 DEF RetInv
<1> QED BY <1>3, <1>4, <1>5, <1>6, <1>7 DEF IInv

\* Every step of every builder keeps the invariant.
LEMMA NextIInv == IInv /\ [Next]_vars => IInv'
<1> SUFFICES ASSUME IInv, [Next]_vars PROVE IInv'
  OBVIOUS
<1>1. CASE Exit
  BY <1>1, EndKeeps DEF Exit, pool, roots
<1>2. CASE MkFsRoot
  BY <1>1, <1>2, RootKeeps
<1>3. CASE Refuse
  <2>1. Fail(Check(Top.at)) /\ Building /\ stack # <<>>
    BY <1>3, Zenon DEF Refuse, Entered, Running, Building
  <2> QED BY <2>1, FailKeeps
<1>4. CASE Provision
  BY <1>1, <1>4, ProvisionKeeps
<1>5. CASE MkAttr
  BY <1>5, AttrKeeps
<1>6. CASE RefuseAttr
  BY <1>1, <1>6 DEF RefuseAttr
<1>7. CASE CastChild
  BY <1>7, CastKeeps
<1>8. CASE CastTwin
  <2>1. Returns("ASSERT") \/ Exit
    BY <1>8, Zenon DEF CastTwin
  <2> QED BY <1>1, <1>8, <2>1, TwinKeeps
<1>9. CASE ChildFails
  BY <1>9, FailsKeeps
<1>10. CASE ChildBuilt
  BY <1>10, BuiltKeeps
<1>11. CASE Return
  BY <1>11, ReturnKeeps
<1>12. CASE Ended \/ UNCHANGED vars
  <2>1. UNCHANGED <<in, rn, nxt_avail, stack, ret, caught_in_a_loop, p_fsroot, p_jobd, status>>
    BY <1>12 DEF Ended, vars
  <2>2. status' \in {"building", "mounted", "exited", "crashed"}
    BY <2>1 DEF IInv, VarsInv
  <2> QED BY <2>1, <2>2, EndKeeps
<1> QED BY <1>2, <1>3, <1>4, <1>5, <1>6, <1>7, <1>8, <1>9, <1>10, <1>11, <1>12 DEF Next, Build

\* The invariant holds of every run of mk_fs(), whatever the resource manager
\* replies and however small the pool is.
THEOREM Invariant == Spec => []IInv
  BY InitIInv, NextIInv, PTL DEF Spec

\* Every slot that the tree, the stack and the roots point to has been
\* provisioned, whatever mk_fs() was given.
THEOREM Types == Spec => []TypeOK
<1>1. IInv => TypeOK
  <2> SUFFICES ASSUME IInv PROVE TypeOK
    OBVIOUS
  <2>1. DOMAIN stack = 1 .. Depth
    BY LenProperties DEF IInv, VarsInv, Depth
  <2>2. \A k \in DOMAIN stack : stack[k].at \in Slots
    BY <2>1 DEF IInv, FrameInv, FrameOK
  <2>3. \A s \in Slots :
          /\ rn[s].rtype \in RTypes /\ rn[s].gen \in 0 .. 2
          /\ rn[s].parent \in Slots \cup {NULL}
          /\ rn[s].children \in Slots \cup {NULL} /\ rn[s].n \in Nat
          /\ rn[s].isdir \in BOOLEAN
    BY DEF IInv, PoolInv, NodeOK
  <2> QED BY <2>2, <2>3 DEF TypeOK, IInv, PoolInv, VarsInv
<1> QED BY Invariant, <1>1, PTL

\* Every rn_cast() of a child goes to a fresh slot of the block of the builder
\* that calls it.
THEOREM CastsOwnBlock == Spec => []CastIntoOwnBlock
<1>1. IInv => CastIntoOwnBlock
  BY NextFree DEF CastIntoOwnBlock, Fresh, NKids
<1> QED BY Invariant, <1>1, PTL

\* A step of mk_fs() takes a run of slots that the pool has room for, or none.
LEMMA TakesRun ==
  ASSUME IInv, Next, nxt_avail' # nxt_avail
  PROVE  /\ in' = in /\ status = "building" /\ status' = status
         /\ \E n \in Nat \ {0} : Room(n) /\ nxt_avail' = nxt_avail + n
<1>1. ~Exit /\ ~(Refuse \/ MkAttr \/ RefuseAttr \/ CastChild \/ CastTwin \/ ChildFails
                 \/ ChildBuilt \/ Return \/ Ended)
  BY DEF Exit, Refuse, Fail, MkAttr, RefuseAttr, CastChild, CastTwin, ChildFails, ChildBuilt,
     Return, Ended, pool, vars
<1>2. CASE MkFsRoot
  <2>1. Room(5) /\ nxt_avail' = nxt_avail + 5 /\ in' = in /\ status = "building" /\ status' = status
    BY <1>1, <1>2, Zenon DEF MkFsRoot
  <2> QED BY <2>1
<1>3. CASE Provision
  <2>1. PICK n : n = Len(Children(Top.at)) + 1
    OBVIOUS
  <2>2. Room(n) /\ nxt_avail' = nxt_avail + n /\ in' = in /\ status = "building" /\ status' = status
    BY <1>1, <1>3, <2>1, Zenon DEF Provision, Entered, Running
  <2>3. n \in Nat \ {0}
    <3>1. Depth \in 1 .. Depth /\ Top = stack[Depth]
      BY <1>3, TopIs DEF IInv, VarsInv, Provision, Entered, Running
    <3> QED BY <2>1, <3>1, FrameFacts DEF IInv, NKids
  <2> QED BY <2>2, <2>3
<1> QED BY <1>1, <1>2, <1>3 DEF Next, Build

\* Any other step keeps the inputs, and the process ends, mounts or goes on.
LEMMA TakesNone ==
  ASSUME IInv, [Next]_vars, nxt_avail' = nxt_avail
  PROVE  /\ in' = in
         /\ \/ status' \in {"exited", "crashed"}
            \/ status' = status
            \/ status = "building" /\ status' = "mounted"
<1>1. CASE Exit
  BY <1>1 DEF Exit
<1>2. CASE ~Exit /\ (MkFsRoot \/ Provision)
  BY <1>2, Zenon DEF MkFsRoot, Provision
<1>3. CASE ~Exit /\ (Refuse \/ RefuseAttr \/ CastChild \/ CastTwin \/ ChildFails \/ ChildBuilt)
  BY <1>3, Zenon DEF Refuse, Fail, RefuseAttr, CastChild, CastTwin, ChildFails, ChildBuilt
<1>4. CASE MkAttr
  BY <1>4, Zenon DEF MkAttr
<1>5. CASE Return
  BY <1>5 DEF Return, Casting, Running
<1>6. CASE Ended \/ UNCHANGED vars
  BY <1>6 DEF Ended, vars
<1> QED BY <1>1, <1>2, <1>3, <1>4, <1>5, <1>6 DEF Next, Build

\* The builders take from the inode space what RnodeSpace promises, for every
\* reply and every size of the pool: runs of fresh numbers, none past the end,
\* and none after the end of the process.
THEOREM SlotsFromSpace == Spec => SlotsGranted
<1> DEFINE Step == IF nxt_avail' # nxt_avail THEN Space!Grant ELSE Space!Stop
           stopped == status \in {"exited", "crashed"}
<1>1. ASSUME IInv, [Next]_vars PROVE [Step]_(Space!spaceVars)
  <2>1. in' = in /\ in.maxalloc \in Nat /\ nxt_avail \in Nat /\ nxt_avail >= BaseAlloc
    BY <1>1, TakesRun, TakesNone, InputsAssumption DEF IInv, PoolInv, vars
  <2>2. CASE nxt_avail' = nxt_avail
    <3>1. Slots' = Slots
      BY <2>2 DEF Slots
    <3>2. stopped' = TRUE \/ stopped' = stopped
      BY <1>1, <2>2, TakesNone
    <3> QED BY <2>1, <2>2, <3>1, <3>2 DEF Space!Stop, Space!spaceVars
  <2>3. CASE nxt_avail' # nxt_avail
    <3>1. Next /\ stopped = FALSE /\ stopped' = FALSE
      BY <1>1, <2>3, TakesRun DEF vars
    <3>2. PICK n \in Nat \ {0} : Room(n) /\ nxt_avail' = nxt_avail + n
      BY <1>1, <2>3, <3>1, TakesRun
    <3>3. PICK m \in Nat : m = nxt_avail + n /\ nxt_avail' = m
      BY <2>1, <3>2
    <3>4. Slots' = BaseAlloc .. (m - 1)
      BY <3>3, SlotsThen
    <3>5. PICK size \in Nat : size = BaseAlloc + in.maxalloc
      BY <2>1
    <3>6. /\ n \in 1 .. size /\ nxt_avail \in BaseAlloc .. (size - n)
          /\ Space!Run(nxt_avail, n) \cap Slots = {}
          /\ Slots' = Slots \cup Space!Run(nxt_avail, n)
      BY <2>1, <3>2, <3>3, <3>4, <3>5 DEF Room, Slots, Space!Run
    <3>7. Space!Grant
      BY <2>1, <3>1, <3>5, <3>6 DEF Space!Grant
    <3> QED BY <2>3, <3>7
  <2> QED BY <2>2, <2>3
<1>2. IInv /\ [Next]_vars => [Step]_(Space!spaceVars)
  BY <1>1
<1> QED BY Invariant, <1>2, PTL DEF Spec, SlotsGranted
=============================================================================
