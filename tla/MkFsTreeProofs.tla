--------------------------- MODULE MkFsTreeProofs ---------------------------
(***************************************************************************)
(* What the tree of mk_fs() looks like at every moment of its              *)
(* construction, proved for every reply and every size of the pool: that   *)
(* the two directions of the tree agree, that listings show no name twice, *)
(* that a record's directory shows that record, that what is cast stays,   *)
(* and what can be relied on once the tree is mounted.                     *)
(***************************************************************************)
EXTENDS MkFsProofs

USE BaseAllocAssumption DEF NULL, Pending

\* The types that may have a block.
DirTypes == BuiltTypes \ (AttrTypes \cup {"ALLOCJOB"})

\* A named node is where its parent pointer says, and may be there.
NamedOK(s) ==
    LET up == rn[s].parent
    IN Named(s) /\ rn[s].rtype # "ROOT" =>
          /\ up \in Slots
          /\ \/ MayHold(rn[up].rtype, rn[s].rtype)
             \/ rn[up].rtype = "CONTROL" /\ rn[s].rtype = "ATTRIBUTE"
          /\ s \in Kids(up) \/ rn[up].rtype = "ALLOCJOB"

\* A named node shows the record of its place, an attribute the record of its
\* directory, and an attribute directory the record of the one that it is in.
RecOK(s) ==
    LET up == rn[s].parent j == s - rn[up].children + 1
    IN Named(s) =>
          /\ rn[s].rtype = "PARTNAME" => rn[s].dyn = j /\ rn[s].nm = in.part.recs[j]
          /\ rn[s].rtype = "NODENAME" => rn[s].dyn = j /\ rn[s].nm = in.node.recs[j]
          /\ rn[s].rtype = "JOBSTEPID" => rn[s].dyn = j /\ rn[s].nm = in.step.recs[j]
          /\ rn[s].rtype \in AttrTypes /\ rn[up].rtype = "ATTRIBUTES" => rn[s].dyn = rn[up].dyn
          /\ rn[s].rtype = "ATTRIBUTES" /\ rn[up].rtype \in RecordTypes => rn[s].dyn = rn[up].dyn

\* The named nodes of a directory's block point back to it.
DirOK(d) ==
    LET up == rn[d].parent
    IN /\ rn[d].rtype \in DirTypes
       /\ rn[d].rtype # "ROOT" => up \in Dirs /\ MayHold(rn[up].rtype, rn[d].rtype)
       /\ rn[d].rtype = "JOBID" => rn[d].dyn = rn[up].dyn
       /\ rn[d].rtype = "ATTRIBUTES" => Named(d)
       /\ \A s \in Kids(d) : Named(s) => rn[s].parent = d

\* A running attribute directory has its name, which no reply gives.
AttrsNamed(s) == rn[s].rtype = "ATTRIBUTES" => Named(s)

\* The invariant of the tree, which rests on that of the builders.
TreeInv ==
    /\ \A s \in Slots : NamedOK(s) /\ RecOK(s)
    /\ \A d \in Dirs : DirOK(d)
    /\ \A k \in 1 .. Depth : AttrsNamed(stack[k].at)
    /\ ListedDistinct

-----------------------------------------------------------------------------
(* Where the running builders are in the tree *)

\* A slot of a builder's block is no other directory's.
LEMMA BlockOf ==
  ASSUME IInv, NEW k \in 1 .. Depth, stack[k].kid > 0,
         NEW x \in stack[k].blk .. (stack[k].blk + NKids(stack[k].at) - 1)
  PROVE  /\ \A d \in Dirs : x \in Kids(d) => d = stack[k].at
         /\ rn[stack[k].at].rtype # "ALLOCJOB" => stack[k].at \in Dirs /\ x \in Kids(stack[k].at)
<1>1. PICK f \in Frames : f = stack[k]
  BY ElementOfSeq DEF IInv, VarsInv, Depth
<1>2. PICK n \in Nat : n = NKids(f.at)
  BY <1>1, FrameFacts DEF IInv
<1>3. ASSUME NEW d \in Dirs, x \in Kids(d) PROVE d = f.at
  <2>1. d = f.at \/ Apart(rn[d].children, rn[d].n, f.blk, n)
    BY <1>1, <1>2 DEF IInv, ApartInv, ApartOK
  <2>2. rn[d].children \in Nat /\ rn[d].n \in Nat
    BY DEF Dirs, IInv, PoolInv, NodeOK, Slots
  <2> QED BY <1>1, <1>2, <1>3, <2>1, <2>2 DEF Kids, Apart, Frames
<1>4. ASSUME rn[f.at].rtype # "ALLOCJOB" PROVE f.at \in Dirs /\ x \in Kids(f.at)
  <2>1. f.at < f.blk /\ rn[f.at].children = f.blk /\ rn[f.at].n = n /\ f.at \in Slots
    BY <1>1, <1>2, <1>4, FrameFacts DEF IInv, BlockInv, BlockOK
  <2> QED BY <1>1, <1>2, <2>1 DEF Dirs, Kids, Frames
<1> QED BY <1>1, <1>3, <1>4

\* A builder's node is in the block of the builder that called it.
LEMMA CalledFrom ==
  ASSUME IInv, NEW k \in 1 .. Depth, k > 1
  PROVE  LET g == stack[k - 1] at == stack[k].at
         IN /\ k - 1 \in 1 .. Depth /\ g.at \in Slots /\ g.at # at /\ rn[at].parent = g.at
            /\ MayHold(rn[g.at].rtype, rn[at].rtype)
            /\ \A d \in Dirs : at \in Kids(d) => d = g.at
            /\ rn[g.at].rtype # "ALLOCJOB" => g.at \in Dirs /\ at \in Kids(g.at)
<1>1. k - 1 \in 1 .. Depth /\ k - 1 < k /\ k - 1 # Depth
  <2>1. Depth \in Nat
    BY LenProperties DEF IInv, VarsInv, Depth
  <2> QED BY <2>1
<1>2. PICK g \in Frames : g = stack[k - 1]
  BY <1>1, ElementOfSeq DEF IInv, VarsInv, Depth
<1>3. PICK at : at = stack[k].at
  OBVIOUS
<1>4. /\ rn[at].parent = g.at /\ MayHold(rn[g.at].rtype, rn[at].rtype)
      /\ g.kid \in 1 .. NKids(g.at) /\ at = g.next
  BY <1>2, <1>3 DEF IInv, FrameInv, FrameOK
<1>5. PICK n \in Nat : n = NKids(g.at) /\ (rn[g.at].rtype = "ROOT" => n = 3) /\ g.at \in Slots
  BY <1>1, <1>2, FrameFacts DEF IInv
<1>6. g.kid > 0 /\ g.kid <= n
  BY <1>4, <1>5
<1>7. at = Pos(g, g.kid)
  BY <1>1, <1>2, <1>4, <1>5, <1>6 DEF IInv, BlockInv, BlockOK
<1>8. at \in g.blk .. (g.blk + n - 1)
  BY <1>4, <1>5, <1>7, PosIs
<1>9. g.at < at
  BY <1>1, <1>2, <1>3 DEF IInv, OrderInv, OrderOK
<1>10. /\ \A d \in Dirs : at \in Kids(d) => d = g.at
       /\ rn[g.at].rtype # "ALLOCJOB" => g.at \in Dirs /\ at \in Kids(g.at)
  BY <1>1, <1>2, <1>5, <1>6, <1>8, BlockOf
<1>11. g.at # at
  BY <1>5, <1>9 DEF Slots
<1> QED BY <1>1, <1>2, <1>3, <1>4, <1>5, <1>10, <1>11

-----------------------------------------------------------------------------
(* The nodes that a step does not write *)

\* A step that writes node x, which has no block, and may extend the pool.
Writes(x) ==
    /\ in' = in /\ x \in Slots /\ rn[x].children = NULL
    /\ \A s \in Slots : s \in Slots' /\ (s # x => rn'[s] = rn[s])
    /\ \A s \in Slots' : s \in Slots \/ (rn'[s].nm = NoName /\ rn'[s].children = NULL)
    /\ rn[x].rtype = "ALLOCJOB" => rn'[x].rtype = "ALLOCJOB"

\* The other nodes stay what the invariant says they are.
LEMMA OthersKept ==
  ASSUME IInv, TreeInv, NEW x, Writes(x),
         \A d \in Dirs : x \in Kids(d) /\ rn'[x].nm # NoName => rn'[x].parent = d
  PROVE  /\ \A s \in Slots' : s # x => NamedOK(s)' /\ RecOK(s)'
         /\ \A d \in Dirs : d # x /\ d \in Dirs' /\ rn'[d] = rn[d] /\ Kids(d)' = Kids(d) /\ DirOK(d)'
         /\ \A d \in Dirs' : d \in Dirs \/ d = x
<1>1. /\ in' = in /\ x \in Slots /\ rn[x].children = NULL
      /\ \A s \in Slots : s \in Slots' /\ (s # x => rn'[s] = rn[s])
      /\ \A s \in Slots' : s \in Slots \/ (rn'[s].nm = NoName /\ rn'[s].children = NULL)
      /\ rn[x].rtype = "ALLOCJOB" => rn'[x].rtype = "ALLOCJOB"
  BY DEF Writes
<1>2. \A d \in Dirs : d \in Slots /\ d # x /\ d \in Dirs' /\ rn'[d] = rn[d] /\ Kids(d)' = Kids(d)
  <2> SUFFICES ASSUME NEW d \in Dirs
               PROVE  d \in Slots /\ d # x /\ d \in Dirs' /\ rn'[d] = rn[d] /\ Kids(d)' = Kids(d)
    OBVIOUS
  <2>1. d \in Slots /\ d # x /\ rn'[d] = rn[d] /\ d \in Dirs'
    BY <1>1 DEF Dirs
  <2>2. Kids(d)' = Kids(d)
    BY <2>1, Zenon DEF Kids
  <2> QED BY <2>1, <2>2
<1>3. ASSUME NEW s \in Slots, s # x, Named(s), rn[s].rtype # "ROOT", NEW up, up = rn[s].parent
      PROVE  \/ up # x /\ rn'[up] = rn[up] /\ Kids(up)' = Kids(up) /\ up \in Slots
             \/ up = x /\ rn[up].rtype = "ALLOCJOB" /\ rn'[up].rtype = "ALLOCJOB"
  <2>1. up \in Slots /\ (s \in Kids(up) \/ rn[up].rtype = "ALLOCJOB")
    BY <1>3 DEF TreeInv, NamedOK
  <2>2. CASE up = x
    <3>1. Kids(up) = {}
      BY <1>1, <2>2 DEF Kids
    <3> QED BY <1>1, <2>1, <2>2, <3>1
  <2>3. CASE up # x
    <3>1. rn'[up] = rn[up]
      BY <1>1, <2>1, <2>3
    <3>2. Kids(up)' = Kids(up)
      BY <3>1, Zenon DEF Kids
    <3> QED BY <2>1, <2>3, <3>1, <3>2
  <2> QED BY <2>2, <2>3
<1>4. ASSUME NEW s \in Slots', s # x PROVE NamedOK(s)' /\ RecOK(s)'
  <2>1. CASE rn'[s].nm = NoName
    BY <2>1 DEF NamedOK, RecOK, Named
  <2>2. CASE rn'[s].nm # NoName
    <3>1. s \in Slots /\ rn'[s] = rn[s] /\ Named(s) /\ NamedOK(s) /\ RecOK(s)
      BY <1>1, <1>4, <2>2 DEF Named, TreeInv
    <3>2. CASE rn[s].rtype = "ROOT"
      BY <3>1, <3>2 DEF NamedOK, RecOK, Named, AttrTypes, AttrSubtypes
    <3>3. CASE rn[s].rtype # "ROOT"
      <4>1. PICK up : up = rn[s].parent /\ up = rn'[s].parent
        BY <3>1
      <4>2. CASE up # x
        <5>1. rn'[up] = rn[up] /\ Kids(up)' = Kids(up) /\ up \in Slots /\ up \in Slots'
          BY <1>1, <1>3, <1>4, <3>1, <3>3, <4>1, <4>2
        <5>2. NamedOK(s)'
          BY <3>1, <4>1, <5>1 DEF NamedOK, Named
        <5>3. RecOK(s)'
          BY <1>1, <3>1, <4>1, <5>1 DEF RecOK, Named
        <5> QED BY <5>2, <5>3
      <4>3. CASE up = x
        <5>1. rn[up].rtype = "ALLOCJOB" /\ rn'[up].rtype = "ALLOCJOB" /\ up \in Slots'
          BY <1>1, <1>3, <1>4, <3>1, <3>3, <4>1, <4>3
        <5>2. NamedOK(s)'
          BY <3>1, <4>1, <5>1 DEF NamedOK, Named
        <5>3. rn[s].rtype \notin {"PARTNAME", "NODENAME", "JOBSTEPID"}
          BY <3>1, <3>3, <4>1, <5>1 DEF NamedOK, MayHold
        <5>4. RecOK(s)'
          BY <3>1, <4>1, <5>1, <5>3 DEF RecOK, Named, RecordTypes
        <5> QED BY <5>2, <5>4
      <4> QED BY <4>2, <4>3
    <3> QED BY <3>2, <3>3
  <2> QED BY <2>1, <2>2
<1>5. ASSUME NEW d \in Dirs PROVE DirOK(d)'
  <2>1. d \in Slots /\ rn'[d] = rn[d] /\ Kids(d)' = Kids(d) /\ DirOK(d)
    BY <1>2 DEF TreeInv
  <2>2. PICK up : up = rn[d].parent /\ up = rn'[d].parent
    BY <2>1
  <2>3. rn[d].rtype # "ROOT" => up \in Dirs' /\ rn'[up] = rn[up]
    BY <1>2, <2>1, <2>2 DEF DirOK
  <2>4. \A s \in Kids(d)' : rn'[s].nm # NoName => rn'[s].parent = d
    <3> SUFFICES ASSUME NEW s \in Kids(d), rn'[s].nm # NoName PROVE rn'[s].parent = d
      BY <2>1
    <3>1. CASE s = x
      BY <3>1
    <3>2. CASE s # x
      <4>1. GuardOf(d) < nxt_avail /\ rn[d].children \in Slots /\ rn[d].n \in Nat
        BY DEF IInv, PoolInv, NodeOK, DirsInv, Dirs
      <4>2. s \in Slots
        BY <4>1 DEF GuardOf, Kids, Slots, IInv, PoolInv
      <4>3. rn'[s] = rn[s]
        BY <1>1, <3>2, <4>2
      <4> QED BY <2>1, <4>3 DEF DirOK, Named
    <3> QED BY <3>1, <3>2
  <2>5. rn'[d].rtype = "ATTRIBUTES" => rn'[d].nm # NoName
    BY <2>1 DEF DirOK, Named
  <2>6. /\ rn'[d].rtype \in DirTypes
        /\ rn'[d].rtype # "ROOT" => up \in Dirs' /\ MayHold(rn'[up].rtype, rn'[d].rtype)
        /\ rn'[d].rtype = "JOBID" => rn'[d].dyn = rn'[up].dyn
    BY <2>1, <2>2, <2>3 DEF DirOK
  <2> QED BY <2>2, <2>4, <2>5, <2>6 DEF DirOK, Named
<1>6. ASSUME NEW d \in Dirs' PROVE d \in Dirs \/ d = x
  BY <1>1 DEF Dirs
<1> QED BY <1>2, <1>4, <1>5, <1>6

\* A child with a new name is the next of a directory that lists no such name.
AddsTo(d, x) ==
    /\ rn[x].nm = NoName /\ ~Twin(d, rn'[x].nm)
    /\ \A t \in Kids(d) : t > x => rn[t].nm = NoName

\* Such a step makes no listing show a name twice.
LEMMA DistinctKept ==
  ASSUME IInv, ListedDistinct, NEW x, Writes(x),
         \A d \in Dirs : x \in Kids(d) /\ rn[d].rtype # "ROOT" =>
            rn'[x].nm = rn[x].nm \/ AddsTo(d, x),
         x \in Dirs' => \A t \in Kids(x)' : rn'[t].nm = NoName
  PROVE  ListedDistinct'
<1>1. /\ x \in Slots /\ rn[x].children = NULL
      /\ \A s \in Slots : s \in Slots' /\ (s # x => rn'[s] = rn[s])
      /\ \A s \in Slots' : s \in Slots \/ rn'[s].children = NULL
  BY DEF Writes
<1>2. ASSUME NEW d \in Dirs', d # x, rn'[d].rtype # "ROOT",
             NEW s \in Listed(d)', NEW t \in Listed(d)', rn'[s].nm = rn'[t].nm
      PROVE  s = t
  <2>1. d \in Dirs /\ rn'[d] = rn[d] /\ rn[d].children # NULL /\ rn[d].rtype # "ROOT"
    BY <1>1, <1>2 DEF Dirs
  <2>2. PICK first \in Nat : first = rn[d].children /\ first # NULL
    BY <2>1 DEF Dirs, IInv, PoolInv, NodeOK, Slots
  <2>3. PICK kids : kids = Kids(d) /\ Kids(d)' = kids
    <3>1. Kids(d)' = Kids(d)
      BY <2>1, Zenon DEF Kids
    <3> QED BY <3>1
  <2>4. /\ kids \subseteq Slots /\ kids \subseteq Int
        /\ \A u \in kids : first <= u
        /\ \A u \in kids : \A w \in first .. u : w \in kids
    <3>1. rn[d].n \in Nat /\ GuardOf(d) < nxt_avail /\ rn[d].children \in Slots
      BY <2>1 DEF Dirs, IInv, PoolInv, NodeOK, DirsInv
    <3>2. PICK n \in Nat : n = rn[d].n /\ first + n < nxt_avail /\ first >= BaseAlloc
      BY <2>2, <3>1 DEF GuardOf, Slots
    <3>3. kids = first .. (first + n - 1)
      BY <2>1, <2>2, <2>3, <3>2 DEF Kids
    <3>4. nxt_avail \in Nat
      BY DEF IInv, PoolInv
    <3>5. \A u \in kids : u \in Int /\ first <= u /\ u <= first + n - 1 /\ u \in Slots
      BY <3>2, <3>3, <3>4 DEF Slots
    <3>6. \A u \in kids : \A w \in first .. u : w \in kids
      BY <3>2, <3>3
    <3> QED BY <3>5, <3>6
  <2>5. /\ \A u : u \in Listed(d)' <=> u \in kids /\ \A w \in first .. u : rn'[w].nm # NoName
        /\ \A u : u \in Listed(d) <=> u \in kids /\ \A w \in first .. u : rn[w].nm # NoName
    <3>1. rn'[d].children = first
      BY <2>1, <2>2
    <3> QED BY <2>2, <2>3, <3>1, Zenon DEF Listed, Named
  <2>6. \A u \in kids : u # x => rn'[u] = rn[u]
    BY <1>1, <2>4
  <2>7. \A u, w : u \in Listed(d) /\ w \in Listed(d) /\ rn[u].nm = rn[w].nm => u = w
    BY <2>1 DEF ListedDistinct
  <2>8. CASE x \notin kids \/ rn'[x].nm = rn[x].nm
    <3>1. \A u \in kids : rn'[u].nm = rn[u].nm
      BY <2>6, <2>8
    <3>2. s \in Listed(d) /\ t \in Listed(d) /\ s \in kids /\ t \in kids
      BY <1>2, <2>4, <2>5, <3>1
    <3> QED BY <1>2, <2>7, <3>1, <3>2
  <2>9. CASE x \in kids /\ rn'[x].nm # rn[x].nm
    <3>1. AddsTo(d, x)
      BY <2>1, <2>3, <2>9
    <3>2. \A u \in Listed(d)' : u = x \/ u \in Listed(d)
      <4> SUFFICES ASSUME NEW u \in Listed(d)', u # x PROVE u \in Listed(d)
        OBVIOUS
      <4>1. u \in kids /\ rn'[u] = rn[u] /\ \A w \in first .. u : w \in kids /\ rn'[w].nm # NoName
        BY <2>4, <2>5, <2>6
      <4>2. u \in first .. u /\ x \in Int /\ u \in Int
        <5>1. u \in Int /\ first <= u /\ x \in Int
          BY <2>4, <2>9, <4>1
        <5> QED BY <5>1
      <4>3. rn[u].nm # NoName
        BY <4>1, <4>2
      <4>4. u < x
        BY <2>3, <2>4, <3>1, <4>1, <4>2, <4>3 DEF AddsTo
      <4>5. \A w \in first .. u : w # x
        BY <4>2, <4>4
      <4> QED BY <2>5, <2>6, <4>1, <4>5
    <3>3. ASSUME NEW u \in Listed(d) PROVE rn[u].nm # rn'[x].nm
      <4>1. u \in kids /\ \A w \in first .. u : rn[w].nm # NoName
        BY <2>5
      <4>2. u \in DOMAIN rn /\ u >= first
        BY <2>4, <4>1 DEF IInv, PoolInv
      <4> QED BY <2>2, <3>1, <4>1, <4>2 DEF AddsTo, Twin
    <3>4. \A u \in Listed(d) : u # x /\ rn'[u] = rn[u]
      <4>1. \A u \in Listed(d) : u \in kids /\ u \in first .. u
        <5> SUFFICES ASSUME NEW u \in Listed(d) PROVE u \in kids /\ u \in first .. u
          OBVIOUS
        <5>1. u \in kids
          BY <2>5
        <5>2. u \in Int /\ first <= u
          BY <2>4, <5>1
        <5> QED BY <5>1, <5>2
      <4> QED BY <2>5, <2>6, <3>1, <4>1 DEF AddsTo
    <3> QED BY <1>2, <2>7, <3>2, <3>3, <3>4
  <2> QED BY <2>8, <2>9
<1>3. ASSUME x \in Dirs', NEW s \in Listed(x)', NEW t \in Listed(x)'
      PROVE  s = t
  <2>1. \A u : u \in Listed(x)' => u \in Kids(x)' /\ \A w \in rn'[x].children .. u : rn'[w].nm # NoName
    BY Zenon DEF Listed, Named
  <2>2. \A u \in Listed(x)' : u \in rn'[x].children .. u
    BY <2>1 DEF Kids
  <2> QED BY <1>3, <2>1, <2>2
<1> QED BY <1>2, <1>3, Zenon DEF ListedDistinct

-----------------------------------------------------------------------------
(* Steps that change no node *)

\* A step that writes no node and calls no builder keeps the tree.
LEMMA TreeKept ==
  ASSUME IInv, TreeInv, UNCHANGED <<in, rn, nxt_avail>>, NEW m \in Nat, Depth' = m,
         \A k \in 1 .. m : k \in 1 .. Depth /\ stack'[k].at = stack[k].at
  PROVE  TreeInv'
<1>1. Slots' = Slots
  BY DEF Slots
<1>2. /\ \A s : (Named(s)' <=> Named(s)) /\ Kids(s)' = Kids(s)
      /\ Dirs' = Dirs
  BY <1>1 DEF Named, Kids, Dirs
<1>3. \A s \in Slots' : NamedOK(s)' /\ RecOK(s)'
  <2>1. ASSUME NEW s \in Slots PROVE NamedOK(s)'
    BY <1>2, <1>1 DEF TreeInv, NamedOK
  <2>2. ASSUME NEW s \in Slots PROVE RecOK(s)'
    BY <1>2, <1>1 DEF TreeInv, RecOK
  <2> QED BY <1>1, <2>1, <2>2
<1>4. Dirs' = Dirs /\ \A d \in Dirs : DirOK(d)'
  <2>1. \A d \in Dirs : DirOK(d)
    BY DEF TreeInv
  <2>2. Dirs' = Dirs
    BY <1>1 DEF Dirs
  <2> QED BY <2>1, <2>2, Zenon DEF DirOK, Named, Kids
<1>5. \A k \in 1 .. Depth' : AttrsNamed(stack[k].at)'
  BY DEF TreeInv, AttrsNamed, Named
<1>6. ListedDistinct'
  <2>1. \A s : Listed(s)' = Listed(s)
    BY <1>2 DEF Listed
  <2> QED BY <1>2, <2>1 DEF TreeInv, ListedDistinct
<1> QED BY <1>3, <1>4, <1>5, <1>6 DEF TreeInv

-----------------------------------------------------------------------------
(* Steps that write a node *)

\* What is left to show of a step that writes node x.
LEMMA TreeThen ==
  ASSUME IInv, TreeInv, NEW x, Writes(x), NamedOK(x)', RecOK(x)',
         x \in Dirs' => DirOK(x)' /\ \A t \in Kids(x)' : rn'[t].nm = NoName,
         \A d \in Dirs : x \in Kids(d) /\ rn'[x].nm # NoName => rn'[x].parent = d,
         \A d \in Dirs : x \in Kids(d) /\ rn[d].rtype # "ROOT" =>
            rn'[x].nm = rn[x].nm \/ AddsTo(d, x),
         \A k \in 1 .. Depth' :
            \/ k \in 1 .. Depth /\ stack'[k].at = stack[k].at /\ stack[k].at # x
            \/ AttrsNamed(stack[k].at)'
  PROVE  TreeInv'
<1>1. /\ \A s \in Slots' : s # x => NamedOK(s)' /\ RecOK(s)'
      /\ \A d \in Dirs : DirOK(d)'
      /\ \A d \in Dirs' : d \in Dirs \/ d = x
  BY OthersKept
<1>2. ListedDistinct'
  BY DistinctKept DEF TreeInv
<1>3. ASSUME NEW k \in 1 .. Depth' PROVE AttrsNamed(stack[k].at)'
  <2>1. CASE k \in 1 .. Depth /\ stack'[k].at = stack[k].at /\ stack[k].at # x
    <3>1. PICK s : s = stack[k].at /\ s = stack'[k].at
      BY <2>1
    <3>2. s \in Slots /\ AttrsNamed(s)
      BY <2>1, <3>1, FrameFacts DEF IInv, TreeInv
    <3>3. rn'[s] = rn[s]
      BY <2>1, <3>1, <3>2 DEF Writes
    <3> QED BY <3>1, <3>2, <3>3 DEF AttrsNamed, Named
  <2> QED BY <1>3, <2>1
<1> QED BY <1>1, <1>2, <1>3 DEF TreeInv

\* A child is cast where no builder and no directory is, and into the builder's
\* own block.
LEMMA NextIn ==
  ASSUME IInv, Casting, More
  PROVE  /\ Top.next \in Slots /\ rn[Top.next].nm = NoName /\ rn[Top.next].children = NULL
         /\ rn[Top.next].rtype = "GUARD"
         /\ \A k \in 1 .. Depth : stack[k].at # Top.next
         /\ \A d \in Dirs : Top.next \in Kids(d) => d = Top.at
         /\ rn[Top.at].rtype # "ALLOCJOB" => Top.at \in Dirs /\ Top.next \in Kids(Top.at)
<1>1. stack # <<>> /\ Top.kid > 0
  BY DEF Casting, Running
<1>2. Depth \in 1 .. Depth /\ Top = stack[Depth]
  BY <1>1, TopIs DEF IInv, VarsInv
<1>3. /\ Top.next \in Slots /\ Fresh(Top.next)
      /\ Top.next \in Top.blk .. (Top.blk + NKids(Top.at) - 1)
      /\ \A k \in 1 .. Depth : stack[k].at < Top.next
  BY NextFree
<1>4. \A k \in 1 .. Depth : stack[k].at # Top.next
  BY <1>3, FrameFacts DEF IInv, Slots, PoolInv
<1>5. /\ \A d \in Dirs : Top.next \in Kids(d) => d = Top.at
      /\ rn[Top.at].rtype # "ALLOCJOB" => Top.at \in Dirs /\ Top.next \in Kids(Top.at)
  BY <1>1, <1>2, <1>3, BlockOf
<1> QED BY <1>3, <1>4, <1>5, FreshIs

\* A twin gets a type and no name.
LEMMA TwinTree ==
  ASSUME IInv, TreeInv, CastTwin, ~Exit
  PROVE  TreeInv'
<1>1. Casting /\ More
  BY DEF CastTwin
<1>2. PICK x : x = Top.next
  OBVIOUS
<1>3. PICK v : v = [rn[x] EXCEPT !.gen = 1, !.rtype = NextChild.rtype, !.typ = NextChild.typ]
  OBVIOUS
<1>4. /\ rn' = [rn EXCEPT ![x] = v] /\ UNCHANGED <<in, nxt_avail, stack>>
  BY <1>2, <1>3, Zenon DEF CastTwin
<1>5. /\ x \in Slots /\ rn[x].nm = NoName /\ rn[x].children = NULL /\ rn[x].rtype = "GUARD"
      /\ \A k \in 1 .. Depth : stack[k].at # x
  BY <1>1, <1>2, NextIn
<1>6. v.nm = NoName /\ v.children = NULL
  <2>1. NodeOK(rn[x])
    BY <1>5 DEF IInv, PoolInv
  <2>2. PICK w, rtype, typ : w = rn[x] /\ rtype = NextChild.rtype /\ typ = NextChild.typ
    OBVIOUS
  <2>3. v = [w EXCEPT !.gen = 1, !.rtype = rtype, !.typ = typ]
    BY <1>3, <2>2
  <2> QED BY <1>5, <2>1, <2>2, <2>3 DEF NodeOK, NodeFields
<1>7. Slots' = Slots /\ rn'[x] = v /\ \A s \in Slots : s # x => rn'[s] = rn[s]
  BY <1>4, <1>5 DEF Slots, IInv, PoolInv
<1>8. Writes(x)
  BY <1>4, <1>5, <1>7 DEF Writes
<1>9. NamedOK(x)' /\ RecOK(x)'
  BY <1>6, <1>7 DEF NamedOK, RecOK, Named
<1>10. x \notin Dirs'
  BY <1>6, <1>7 DEF Dirs
<1>11. \A k \in 1 .. Depth' : k \in 1 .. Depth /\ stack'[k].at = stack[k].at /\ stack[k].at # x
  BY <1>4, <1>5 DEF Depth
<1> QED BY <1>5, <1>6, <1>7, <1>8, <1>9, <1>10, <1>11, TreeThen

\* rn_mkattr() writes its own node again, with the name and pointer it has.
LEMMA AttrTree ==
  ASSUME IInv, TreeInv, MkAttr
  PROVE  TreeInv'
<1>1. PICK at, v : CastsAttr(at, v)
  BY AttrIs
<1>2. /\ at = Top.at /\ at \in Slots /\ stack # <<>> /\ Depth > 1
      /\ rn[at].rtype \in AttrTypes /\ rn[at].children = NULL
      /\ rn'[at] = v /\ \A s \in Slots : s # at => rn'[s] = rn[s]
      /\ v.rtype = rn[at].rtype \/ (rn[at].rtype = "KNOB" /\ v.rtype = "ATTRIBUTE")
      /\ v.nm = rn[at].nm /\ v.dyn = rn[at].dyn /\ v.parent = rn[at].parent /\ v.children = NULL
      /\ in' = in /\ Slots' = Slots
      /\ stack' = stack \/ stack' = Below
  BY <1>1 DEF CastsAttr
<1>3. PICK k \in Nat : k = Depth /\ k \in 1 .. Depth /\ Top = stack[k] /\ k > 1
  BY <1>2, TopIs DEF IInv, VarsInv
<1>4. PICK up : up = rn[at].parent
  OBVIOUS
<1>5. /\ up \in Slots /\ up # at /\ MayHold(rn[up].rtype, rn[at].rtype)
      /\ \A d \in Dirs : at \in Kids(d) => d = up
      /\ rn[up].rtype # "ALLOCJOB" => at \in Kids(up)
  BY <1>2, <1>3, <1>4, CalledFrom
<1>6. rn'[up] = rn[up] /\ Kids(up)' = Kids(up)
  BY <1>2, <1>5 DEF Kids
<1>7. Writes(at)
  BY <1>2 DEF Writes, AttrTypes, AttrSubtypes
<1>8. v.rtype \in AttrTypes /\ v.rtype # "ATTRIBUTES"
      /\ v.rtype \notin {"PARTNAME", "NODENAME", "JOBSTEPID"}
  BY <1>2 DEF AttrTypes, AttrSubtypes
<1>9. NamedOK(at)'
  <2>1. rn[at].rtype = "KNOB" => rn[up].rtype = "CONTROL"
    BY <1>5, Zenon DEF MayHold
  <2> QED BY <1>2, <1>4, <1>5, <1>6, <2>1 DEF NamedOK
<1>10. RecOK(at)'
  <2>1. RecOK(at)
    BY <1>2 DEF TreeInv
  <2> QED BY <1>2, <1>4, <1>6, <1>8, <2>1 DEF RecOK, Named
<1>11. at \notin Dirs'
  BY <1>2 DEF Dirs
<1>12. \A j \in 1 .. Depth' : \/ j \in 1 .. Depth /\ stack'[j].at = stack[j].at /\ stack[j].at # at
                              \/ AttrsNamed(stack[j].at)'
  <2>1. \A j \in 1 .. (k - 1) : j \in 1 .. Depth /\ stack[j].at # at
    <3>1. \A j \in 1 .. (k - 1) : j \in 1 .. Depth /\ j < k
      BY <1>3
    <3>2. \A j \in 1 .. (k - 1) : stack[j].at < at /\ stack[j].at \in Int
      BY <1>2, <1>3, <3>1, FrameFacts DEF IInv, OrderInv, OrderOK, Slots, PoolInv
    <3> QED BY <3>1, <3>2
  <2>2. CASE stack' = Below
    <3>1. Len(Below) = k - 1 /\ \A j \in 1 .. (k - 1) : Below[j] = stack[j]
      BY <1>2, <1>3, TopIs DEF IInv, VarsInv
    <3> QED BY <2>1, <2>2, <3>1 DEF Depth
  <2>3. CASE stack' = stack
    <3>1. \A j \in 1 .. k : j = k \/ j \in 1 .. (k - 1)
      BY <1>3
    <3>2. AttrsNamed(stack[k].at)'
      BY <1>2, <1>3, <1>8, <2>3 DEF AttrsNamed
    <3> QED BY <1>3, <2>1, <2>3, <3>1, <3>2 DEF Depth
  <2> QED BY <1>2, <2>2, <2>3
<1> QED BY <1>2, <1>4, <1>5, <1>7, <1>9, <1>10, <1>11, <1>12, TreeThen

\* A builder takes a block of unnamed slots, and points its node to it.
LEMMA ProvisionTree ==
  ASSUME IInv, TreeInv, Provision, ~Exit
  PROVE  TreeInv'
<1> PICK at, up0 : \E n, k, b, m \in Nat : Provisions(at, n, up0, k, b, m)
  BY ProvisionIs
<1>1. PICK n, k, b, m \in Nat : Provisions(at, n, up0, k, b, m)
  OBVIOUS
<1>2. /\ at = Top.at /\ at \in Slots /\ stack # <<>> /\ in' = in
      /\ k \in 1 .. Depth /\ k = Depth /\ k > 1 /\ Top = stack[k] /\ Top \in Frames
      /\ rn[at].rtype \in BuiltTypes \ ({"ROOT"} \cup AttrTypes)
      /\ rn[at].children = NULL /\ NodeOK(rn[at]) /\ NKids(at) = n
      /\ SetTop([at |-> at, blk |-> b, next |-> b, kid |-> 1])
  BY <1>1 DEF Provisions
<1>3. /\ b = nxt_avail /\ b >= BaseAlloc
      /\ \A s \in Slots : s \in Slots' /\ (s # at => rn'[s] = rn[s])
      /\ \A s \in b .. (b + n) : s \notin Slots /\ rn'[s] = Guard(up0)
      /\ \A s \in Slots' : s \in Slots \/ s \in b .. (b + n)
      /\ rn[at].rtype = "ALLOCJOB" => rn'[at] = rn[at]
      /\ rn[at].rtype # "ALLOCJOB" => rn'[at] = Recast(at)
  BY <1>1 DEF Provisions
<1>4. \A s \in b .. (b + n) : rn'[s].nm = NoName /\ rn'[s].children = NULL
  BY <1>3 DEF Guard
<1>5. PICK g : g = stack[k - 1].at
  OBVIOUS
<1>6. /\ g \in Slots /\ g # at /\ rn[at].parent = g /\ MayHold(rn[g].rtype, rn[at].rtype)
      /\ \A d \in Dirs : at \in Kids(d) => d = g
      /\ rn[g].rtype # "ALLOCJOB" => g \in Dirs /\ at \in Kids(g)
  BY <1>2, <1>5, CalledFrom
<1>7. PICK v : v = rn'[at]
  OBVIOUS
<1>8. /\ v.rtype = rn[at].rtype /\ v.parent = g
      /\ rn[at].rtype # "CLUSTER" => v.nm = rn[at].nm
      /\ rn[at].rtype \notin ListTypes \cup {"JOBID"} => v.dyn = rn[at].dyn
      /\ rn[at].rtype = "JOBID" => v.dyn = rn[g].dyn
      /\ v.children # NULL => v.children = b /\ v.n = n /\ rn[at].rtype # "ALLOCJOB"
  <2>1. CASE rn[at].rtype = "ALLOCJOB"
    BY <1>2, <1>3, <1>6, <1>7, <2>1
  <2>2. CASE rn[at].rtype # "ALLOCJOB"
    <3>1. DOMAIN rn[at] = {"rtype", "gen", "nm", "typ", "dyn", "parent", "children", "n", "isdir"}
      BY <1>2 DEF NodeOK, NodeFields
    <3>2. /\ Recast(at).rtype = rn[at].rtype /\ Recast(at).parent = rn[at].parent
          /\ Recast(at).nm = IF rn[at].rtype = "CLUSTER" THEN in.cname ELSE rn[at].nm
          /\ rn[at].rtype = "JOBID" => Recast(at).dyn = JobRecord(at)
          /\ rn[at].rtype \notin ListTypes \cup {"JOBID"} => Recast(at).dyn = rn[at].dyn
          /\ Recast(at).children = nxt_avail /\ Recast(at).n = Len(Children(at))
      BY <1>2, <3>1, RecastIs
    <3> QED BY <1>2, <1>3, <1>6, <1>7, <2>2, <3>2 DEF NKids, JobRecord
  <2> QED BY <2>1, <2>2
<1>9. rn'[g] = rn[g] /\ Kids(g)' = Kids(g) /\ g \in Slots'
  <2>1. rn'[g] = rn[g] /\ g \in Slots'
    BY <1>3, <1>6
  <2> QED BY <2>1, Zenon DEF Kids
<1>10. Writes(at)
  BY <1>2, <1>3, <1>4 DEF Writes
<1>11. rn[at].rtype \notin AttrTypes /\ rn[at].rtype # "ROOT" /\ rn[at].rtype \in BuiltTypes
       /\ ListTypes \cap {"PARTNAME", "NODENAME", "JOBSTEPID", "ATTRIBUTES"} = {}
  BY <1>2 DEF ListTypes
<1>12. NamedOK(at)'
  <2>1. g \in Slots' /\ MayHold(rn'[g].rtype, v.rtype)
    BY <1>6, <1>8, <1>9
  <2>2. at \in Kids(g)' \/ rn'[g].rtype = "ALLOCJOB"
    BY <1>6, <1>9
  <2> QED BY <1>7, <1>8, <2>1, <2>2 DEF NamedOK
<1>13. RecOK(at)'
  <2>1. RecOK(at)
    BY <1>2 DEF TreeInv
  <2>2. CASE rn[at].rtype \in {"PARTNAME", "NODENAME", "JOBSTEPID", "ATTRIBUTES"}
    <3>1. v.nm = rn[at].nm /\ v.dyn = rn[at].dyn
      BY <1>8, <1>11, <2>2
    <3>2. PICK old, up : old = rn[at] /\ up = rn[g] /\ rn'[g] = up /\ old.parent = g
      BY <1>6, <1>9
    <3>3. v.nm = old.nm /\ v.dyn = old.dyn /\ v.rtype = old.rtype /\ v.parent = g
      BY <1>8, <3>1, <3>2
    <3>4. in' = in /\ rn'[at] = v
      BY <1>2, <1>7
    <3> QED BY <2>1, <3>2, <3>3, <3>4 DEF RecOK, Named
  <2>3. CASE rn[at].rtype \notin {"PARTNAME", "NODENAME", "JOBSTEPID", "ATTRIBUTES"}
    BY <1>7, <1>8, <1>11, <2>3 DEF RecOK
  <2> QED BY <2>2, <2>3
<1>14. rn[at].rtype = "ATTRIBUTES" => v.nm # NoName
  <2>1. AttrsNamed(at)
    BY <1>2 DEF TreeInv
  <2> QED BY <1>8, <2>1 DEF AttrsNamed, Named
<1>15. ASSUME at \in Dirs' PROVE DirOK(at)' /\ \A t \in Kids(at)' : rn'[t].nm = NoName
  <2>1. v.children = b /\ v.n = n /\ rn[at].rtype # "ALLOCJOB" /\ b # NULL
    BY <1>3, <1>7, <1>8, <1>15 DEF Dirs
  <2>2. \A t \in Kids(at)' : rn'[t].nm = NoName
    <3>1. Kids(at)' = b .. (b + n - 1)
      BY <1>7, <2>1 DEF Kids
    <3> QED BY <1>4, <3>1
  <2>3. g \in Dirs' /\ MayHold(rn'[g].rtype, v.rtype)
    <3>1. rn[g].rtype # "ALLOCJOB"
      BY <1>6, <1>11, <2>1 DEF MayHold, AttrTypes, AttrSubtypes
    <3> QED BY <1>6, <1>8, <1>9, <3>1 DEF Dirs
  <2>4. v.rtype \in DirTypes
    BY <1>8, <1>11, <2>1 DEF DirTypes
  <2> QED BY <1>7, <1>8, <1>9, <1>14, <2>2, <2>3, <2>4 DEF DirOK, Named
<1>16. \A d \in Dirs : at \in Kids(d) /\ rn[d].rtype # "ROOT" => v.nm = rn[at].nm
  <2>1. rn[at].rtype = "CLUSTER" => rn[g].rtype = "ROOT"
    BY <1>6 DEF MayHold
  <2> QED BY <1>6, <1>8, <2>1
<1>17. \A j \in 1 .. Depth' : \/ j \in 1 .. Depth /\ stack'[j].at = stack[j].at /\ stack[j].at # at
                              \/ AttrsNamed(stack[j].at)'
  <2>1. PICK f \in Frames : f = [at |-> at, blk |-> b, next |-> b, kid |-> 1] /\ f.at = at
    <3>1. at \in Nat
      BY <1>2 DEF Frames
    <3>2. LET h == [at |-> at, blk |-> b, next |-> b, kid |-> 1] IN h \in Frames /\ h.at = at
      BY <3>1 DEF Frames
    <3> QED BY <3>2
  <2>2. SetTop(f)
    BY <1>2, <2>1, Zenon
  <2>3. Depth' = k /\ stack'[k] = f /\ \A j \in 1 .. (k - 1) : stack'[j] = stack[j]
    BY <1>2, <2>2, SetTopIs DEF IInv, VarsInv
  <2>4. \A j \in 1 .. (k - 1) : j \in 1 .. Depth /\ j < k
    BY <1>2
  <2>5. \A j \in 1 .. (k - 1) : stack[j].at # at
    <3>1. \A j \in 1 .. (k - 1) : stack[j].at < at /\ stack[j].at \in Int
      BY <1>2, <2>4, FrameFacts DEF IInv, OrderInv, OrderOK, Slots, PoolInv
    <3> QED BY <3>1
  <2>6. AttrsNamed(stack[k].at)'
    BY <1>7, <1>8, <1>14, <2>1, <2>3 DEF AttrsNamed, Named
  <2>7. \A j \in 1 .. Depth' : j = k \/ j \in 1 .. (k - 1)
    BY <2>3
  <2> QED BY <2>3, <2>4, <2>5, <2>6, <2>7
<1> QED BY <1>6, <1>7, <1>8, <1>10, <1>12, <1>13, <1>15, <1>16, <1>17, TreeThen

\* The tree begins as a root with a block of unnamed slots.
LEMMA RootTree ==
  ASSUME IInv, MkFsRoot, ~Exit
  PROVE  TreeInv'
<1>1. PICK b \in Nat : \E node : RootMade(b, node)
  BY RootIs
<1>2. PICK node : RootMade(b, node)
  BY <1>1
<1>3. /\ b > 0 /\ Slots' = b .. (b + 4) /\ rn'[b] = node
      /\ node.rtype = "ROOT" /\ node.children = b + 1 /\ node.n = 3
      /\ stack' = <<[at |-> b, blk |-> b + 1, next |-> b + 1, kid |-> 1]>>
  BY <1>2 DEF RootMade
<1>4. \A s \in (b + 1) .. (b + 4) : rn'[s].nm = NoName /\ rn'[s].children = NULL
  BY <1>2 DEF RootMade, Guard
<1>5. \A s \in Slots' : s = b \/ s \in (b + 1) .. (b + 4)
  BY <1>3
<1>6. \A s \in Slots' : NamedOK(s)' /\ RecOK(s)'
  <2>1. NamedOK(b)' /\ RecOK(b)'
    BY <1>3 DEF NamedOK, RecOK, AttrTypes, AttrSubtypes
  <2>2. ASSUME NEW s \in (b + 1) .. (b + 4) PROVE NamedOK(s)' /\ RecOK(s)'
    BY <1>4 DEF NamedOK, RecOK, Named
  <2> QED BY <1>5, <2>1, <2>2
<1>7. \A d \in Dirs' : d = b
  BY <1>4, <1>5 DEF Dirs
<1>8. DirOK(b)'
  <2>1. \A s : s = b => Kids(s)' \subseteq (b + 1) .. (b + 4)
    BY <1>3 DEF Kids
  <2>2. node.rtype \in DirTypes
    BY <1>3 DEF DirTypes, BuiltTypes, AttrTypes, AttrSubtypes
  <2> QED BY <1>3, <1>4, <2>1, <2>2 DEF DirOK, Named
<1>9. \A k \in 1 .. Depth' : AttrsNamed(stack[k].at)'
  <2>1. Depth' = 1 /\ stack'[1].at = b
    BY <1>3 DEF Depth
  <2> QED BY <1>3, <2>1 DEF AttrsNamed
<1>10. ListedDistinct'
  BY <1>3, <1>7 DEF ListedDistinct
<1> QED BY <1>6, <1>7, <1>8, <1>9, <1>10 DEF TreeInv

-----------------------------------------------------------------------------
(* rn_cast() of a fresh child *)

\* What a list says of its child at place j, which depends on the directory.
LEMMA ListSays ==
  ASSUME IInv, TreeInv, NEW s \in Slots, rn[s].rtype \in BuiltTypes,
         rn[s].rtype # "ROOT" => MayHold(rn[rn[s].parent].rtype, rn[s].rtype),
         NEW j \in 1 .. NKids(s), NEW c, c = Children(s)[j]
  PROVE  /\ c.rtype = "PARTNAME" => c.dyn = j /\ c.nm = in.part.recs[j]
         /\ c.rtype = "NODENAME" => c.dyn = j /\ c.nm = in.node.recs[j]
         /\ c.rtype = "JOBSTEPID" => c.dyn = j /\ c.nm = in.step.recs[j]
         /\ c.rtype = "ATTRIBUTES" => c.nm # NoName
         /\ c.rtype = "ATTRIBUTES" /\ rn[s].rtype \in RecordTypes =>
               c.dyn = IF rn[s].rtype = "JOBID" THEN JobRecord(s) ELSE rn[s].dyn
         /\ rn[s].rtype = "ATTRIBUTES" => c.dyn = rn[s].dyn
<1>1. IsReply(in.part) /\ IsReply(in.node) /\ IsReply(in.job) /\ IsReply(in.step)
  BY InputsAssumption DEF IInv, PoolInv
<1>2. PICK n \in Nat : n = Len(Children(s)) /\ j \in 1 .. n /\ j \in Nat
  <2>1. ListFor(s, Children(s))
    BY ChildrenFor DEF Listable, IInv, PoolInv
  <2>2. PICK n : n = Len(Children(s))
    OBVIOUS
  <2>3. n \in Nat
    BY <2>1, <2>2 DEF ListFor
  <2>4. j \in 1 .. n
    BY <2>2 DEF NKids
  <2>5. j \in Nat
    BY <2>3, <2>4
  <2> QED BY <2>2, <2>3, <2>4, <2>5
<1>3. MayHold(rn[s].rtype, c.rtype)
  <2>1. ListFor(s, Children(s))
    BY ChildrenFor DEF Listable, IInv, PoolInv
  <2> QED BY <2>1 DEF ListFor, NKids
<1>4. \A rtype, nm, dyn, onNull : /\ Dir(rtype, nm, dyn, onNull).rtype = rtype
                                  /\ Dir(rtype, nm, dyn, onNull).nm = nm
                                  /\ Dir(rtype, nm, dyn, onNull).dyn = dyn
  BY DEF Dir, Child
<1>5. CASE rn[s].rtype = "PARTS"
  <2>1. Children(s) = OfRecords(in.part, "PARTNAME", "ASSERT")
    BY <1>5, ChildrenIs DEF PartsChildren
  <2>2. c = Dir("PARTNAME", in.part.recs[j], j, "ASSERT")
    BY <1>1, <1>2, <2>1, RecordsListed
  <2> QED BY <1>4, <1>5, <2>2 DEF RecordTypes
<1>6. CASE rn[s].rtype = "NODES"
  <2>1. Children(s) = OfRecords(in.node, "NODENAME", "ASSERT")
    BY <1>6, ChildrenIs DEF NodesChildren
  <2>2. c = Dir("NODENAME", in.node.recs[j], j, "ASSERT")
    BY <1>1, <1>2, <2>1, RecordsListed
  <2> QED BY <1>4, <1>6, <2>2 DEF RecordTypes
<1>7. CASE rn[s].rtype = "JOBSTEPS"
  <2>1. Children(s) = OfRecords(in.step, "JOBSTEPID", "ASSERT")
    BY <1>7, ChildrenIs DEF StepsChildren
  <2>2. c = Dir("JOBSTEPID", in.step.recs[j], j, "ASSERT")
    BY <1>1, <1>2, <2>1, RecordsListed
  <2> QED BY <1>4, <1>7, <2>2 DEF RecordTypes
<1>8. CASE rn[s].rtype = "ATTRIBUTES"
  <2>1. Children(s) = AttrChildren(s)
    BY <1>8, ChildrenIs
  <2>2. PICK tab : /\ tab = AttrTab[rn[rn[s].parent].rtype] /\ DOMAIN tab = 1 .. Len(tab)
                   /\ Len(tab) \in Nat
    BY <1>8, AttrTabIs
  <2>3. AttrChildren(s) = [i \in 1 .. Len(tab) |->
          Child(p2r_typ_convtab(tab[i].typ), tab[i].nm, tab[i].typ, rn[s].dyn, "ASSERT")]
    BY <2>2, Zenon DEF AttrChildren
  <2> DEFINE Attr(i) == Child(p2r_typ_convtab(tab[i].typ), tab[i].nm, tab[i].typ, rn[s].dyn,
                              "ASSERT")
  <2>4. Len(AttrChildren(s)) = Len(tab)
    <3>1. AttrChildren(s) = [i \in 1 .. Len(tab) |-> Attr(i)]
      BY <2>3, Zenon
    <3> HIDE DEF Attr
    <3> QED BY <2>2, <3>1, LenOfFun
  <2>5. c.dyn = rn[s].dyn
    BY <1>2, <2>1, <2>3, <2>4 DEF Child
  <2> QED BY <1>3, <1>8, <2>5 DEF MayHold, RecordTypes
<1>9. CASE rn[s].rtype \in RecordTypes \cup {"ROOT", "CLUSTER"}
  <2> DEFINE rec == IF rn[s].rtype = "JOBID" THEN JobRecord(s) ELSE rn[s].dyn
             Holds(a) == /\ a.rtype \notin {"PARTNAME", "NODENAME", "JOBSTEPID"}
                         /\ a.rtype = "ATTRIBUTES" => a.nm # NoName
                         /\ a.rtype = "ATTRIBUTES" /\ rn[s].rtype \in RecordTypes => a.dyn = rec
  <2>1. \A rtype, nm, dyn, onNull :
           /\ rtype \notin {"PARTNAME", "NODENAME", "JOBSTEPID", "ATTRIBUTES"} =>
                 Holds(Dir(rtype, nm, dyn, onNull))
           /\ rtype = "ATTRIBUTES" /\ nm = "attributes" /\ (rn[s].rtype \in RecordTypes => dyn = rec)
                 => Holds(Dir(rtype, nm, dyn, onNull))
    <3>1. "attributes" # NoName
      BY DEF NoName
    <3> QED BY <1>4, <3>1
  <2> HIDE DEF Holds
  <2>2. \A x, y, z : Holds(x) /\ Holds(y) /\ Holds(z) =>
           /\ \A i \in 1 .. Len(<<x>>) : Holds(<<x>>[i])
           /\ \A i \in 1 .. Len(<<x, y>>) : Holds(<<x, y>>[i])
           /\ \A i \in 1 .. Len(<<x, y, z>>) : Holds(<<x, y, z>>[i])
    OBVIOUS
  <2>3. ASSUME rn[s].rtype \in {"NODENAME", "JOBSTEPID"} PROVE Holds(c)
    <3>1. Children(s) = <<Dir("ATTRIBUTES", "attributes", rn[s].dyn, "ASSERT")>>
      BY <2>3, ChildrenIs DEF NodeChildren, StepChildren
    <3>2. Holds(Dir("ATTRIBUTES", "attributes", rn[s].dyn, "ASSERT"))
      BY <2>1, <2>3
    <3> QED BY <1>2, <2>2, <3>1, <3>2
  <2>4. ASSUME rn[s].rtype = "PARTNAME" PROVE Holds(c)
    <3>1. Children(s) = <<Dir("NODES", "nodes", NULL, "ASSERT"),
                          Dir("ATTRIBUTES", "attributes", rn[s].dyn, "ASSERT")>>
      BY <2>4, ChildrenIs DEF PartChildren
    <3>2. /\ Holds(Dir("NODES", "nodes", NULL, "ASSERT"))
          /\ Holds(Dir("ATTRIBUTES", "attributes", rn[s].dyn, "ASSERT"))
      BY <2>1, <2>4
    <3> QED BY <1>2, <2>2, <3>1, <3>2
  <2>5. ASSUME rn[s].rtype = "JOBID" PROVE Holds(c)
    <3>1. Children(s) = <<Dir("JOBSTEPS", "jobsteps", NULL, "WARN"),
                          Dir("ATTRIBUTES", "attributes", JobRecord(s), "ASSERT"),
                          Dir("CONTROL", "control", NULL, "ASSERT")>>
      BY <2>5, ChildrenIs DEF JobChildren
    <3>2. /\ Holds(Dir("JOBSTEPS", "jobsteps", NULL, "WARN"))
          /\ Holds(Dir("ATTRIBUTES", "attributes", JobRecord(s), "ASSERT"))
          /\ Holds(Dir("CONTROL", "control", NULL, "ASSERT"))
      BY <2>1, <2>5
    <3> QED BY <1>2, <2>2, <3>1, <3>2
  <2>6. ASSUME rn[s].rtype = "ROOT" PROVE Holds(c)
    <3>1. Children(s) = RootChildren /\ rn[s].rtype \notin RecordTypes
      BY <2>6, ChildrenIs DEF RecordTypes
    <3>2. /\ Holds(Dir("ATTRIBUTES", "attributes", NULL, "ASSERT"))
          /\ Holds(Dir("CLUSTER", "ClusterName", 1, "WARN"))
          /\ Holds(Dir("CONTROL", "control", NULL, "ASSERT"))
      BY <2>1, <3>1
    <3> QED BY <1>2, <2>2, <3>1, <3>2 DEF RootChildren
  <2>7. ASSUME rn[s].rtype = "CLUSTER" PROVE Holds(c)
    <3>1. Children(s) = ClusterChildren /\ rn[s].rtype \notin RecordTypes
      BY <2>7, ChildrenIs DEF RecordTypes
    <3>2. /\ Holds(Dir("ATTRIBUTES", "attributes", 1, "ASSERT"))
          /\ Holds(Dir("PARTS", "partitions", NULL, "ASSERT"))
          /\ Holds(Dir("JOBS", "jobs", NULL, "WARN"))
      BY <2>1, <3>1
    <3> QED BY <1>2, <2>2, <3>1, <3>2 DEF ClusterChildren
  <2>8. Holds(c)
    BY <1>9, <2>3, <2>4, <2>5, <2>6, <2>7 DEF RecordTypes
  <2> QED BY <1>9, <2>8 DEF Holds, RecordTypes
<1>10. CASE rn[s].rtype \notin {"ROOT", "CLUSTER", "PARTS", "NODES", "JOBSTEPS", "ATTRIBUTES"}
                                   \cup RecordTypes
  BY <1>3, <1>10 DEF MayHold, RecordTypes
<1> QED BY <1>5, <1>6, <1>7, <1>8, <1>9, <1>10

\* Where the next child goes is at the end of what the directory lists, and its
\* place is the number of its record.
LEMMA NextPlace ==
  ASSUME IInv, Casting, More, rn[Top.at].rtype \notin {"ROOT", "ALLOCJOB"}
  PROVE  /\ Top.next - rn[Top.at].children + 1 = Top.kid
         /\ \A t \in Kids(Top.at) : t > Top.next => rn[t].nm = NoName
<1>1. stack # <<>> /\ Top.kid > 0 /\ ret = Pending
  BY DEF Casting, Running
<1>2. PICK k \in Nat : k = Depth /\ k \in 1 .. Depth /\ Top = stack[k] /\ k >= 1
  BY <1>1, TopIs DEF IInv, VarsInv
<1>3. PICK f \in Frames : f = Top
  BY <1>1, TopIs DEF IInv, VarsInv
<1>4. PICK n \in Nat : n = NKids(f.at)
  BY <1>2, <1>3, FrameFacts DEF IInv
<1>5. f.kid \in 1 .. n
  BY <1>3, <1>4, NextFree
<1>6. BlockOK(k) /\ Done(k) = f.kid - 1
  BY <1>1, <1>2, <1>3 DEF IInv, BlockInv, Done
<1>7. /\ rn[f.at].children = f.blk /\ rn[f.at].n = n /\ f.next = Pos(f, f.kid)
      /\ \A p \in f.kid .. n : Fresh(Pos(f, p))
  BY <1>1, <1>2, <1>3, <1>4, <1>5, <1>6 DEF BlockOK, Frames
<1>8. \A p : Pos(f, p) = f.blk + (p - 1)
  BY <1>3 DEF Pos
<1>9. ASSUME NEW t \in Kids(f.at), t > f.next PROVE rn[t].nm = NoName
  <2>1. t \in f.blk .. (f.blk + n - 1)
    BY <1>7, <1>9 DEF Kids
  <2>2. PICK p \in Int : p = t - f.blk + 1
    BY <2>1 DEF Frames
  <2>3. p \in f.kid .. n /\ Pos(f, p) = t
    BY <1>5, <1>7, <1>8, <1>9, <2>1, <2>2 DEF Frames
  <2>4. Fresh(t)
    BY <1>7, <2>3
  <2> QED BY <2>4, FreshIs
<1>10. f.next - f.blk + 1 = f.kid
  BY <1>5, <1>7, <1>8 DEF Frames
<1> QED BY <1>3, <1>7, <1>9, <1>10

\* A fresh child has the record of its place, and no listed name twice.
LEMMA CastTree ==
  ASSUME IInv, TreeInv, CastChild
  PROVE  TreeInv'
<1>1. Casting /\ More /\ stack # <<>> /\ Top.kid > 0
  BY DEF CastChild, Casting, Running
<1>2. PICK x, s, c : x = Top.next /\ s = Top.at /\ c = NextChild
  OBVIOUS
<1>3. PICK v : v = FirstCast(c, s)
  OBVIOUS
<1>4. /\ rn' = [rn EXCEPT ![x] = v] /\ stack' = Append(stack, Frame(x))
      /\ UNCHANGED <<in, nxt_avail>> /\ ~Twin(s, c.nm)
  BY <1>2, <1>3, Zenon DEF CastChild
<1>5. /\ x \in Slots /\ rn[x].nm = NoName /\ rn[x].children = NULL /\ rn[x].rtype = "GUARD"
      /\ \A k \in 1 .. Depth : stack[k].at # x
      /\ \A d \in Dirs : x \in Kids(d) => d = s
      /\ rn[s].rtype # "ALLOCJOB" => s \in Dirs /\ x \in Kids(s)
  BY <1>1, <1>2, NextIn
<1>6. /\ v.rtype = c.rtype /\ v.nm = c.nm /\ v.dyn = c.dyn /\ v.parent = s /\ v.children = NULL
  BY <1>3 DEF FirstCast
<1>7. Slots' = Slots /\ rn'[x] = v /\ \A t \in Slots : t # x => rn'[t] = rn[t]
  BY <1>4, <1>5 DEF Slots, IInv, PoolInv
<1>8. PICK k \in Nat : k = Depth /\ k \in 1 .. Depth /\ Top = stack[k] /\ k >= 1 /\ Top \in Frames
  BY <1>1, TopIs DEF IInv, VarsInv
<1>9. s \in Slots /\ s # x /\ rn[s].rtype \in BuiltTypes
  BY <1>2, <1>5, <1>8, FrameFacts DEF IInv
<1>10. rn'[s] = rn[s] /\ Kids(s)' = Kids(s)
  <2>1. rn'[s] = rn[s]
    BY <1>7, <1>9
  <2> QED BY <2>1, Zenon DEF Kids
<1>11. rn[s].rtype # "ROOT" => MayHold(rn[rn[s].parent].rtype, rn[s].rtype)
  BY <1>2, <1>8 DEF IInv, FrameInv, FrameOK
<1>12. Top.kid \in 1 .. NKids(s) /\ c = Children(s)[Top.kid] /\ MayHold(rn[s].rtype, c.rtype)
  BY <1>1, <1>2, NextFree, NextIs DEF NextChild
<1>13. PICK j : j = Top.kid
  OBVIOUS
<1>14. /\ c.rtype = "PARTNAME" => c.dyn = j /\ c.nm = in.part.recs[j]
       /\ c.rtype = "NODENAME" => c.dyn = j /\ c.nm = in.node.recs[j]
       /\ c.rtype = "JOBSTEPID" => c.dyn = j /\ c.nm = in.step.recs[j]
       /\ c.rtype = "ATTRIBUTES" => c.nm # NoName
       /\ c.rtype = "ATTRIBUTES" /\ rn[s].rtype \in RecordTypes =>
             c.dyn = IF rn[s].rtype = "JOBID" THEN JobRecord(s) ELSE rn[s].dyn
       /\ rn[s].rtype = "ATTRIBUTES" => c.dyn = rn[s].dyn
  BY <1>9, <1>11, <1>12, <1>13, ListSays
<1>15. Writes(x)
  BY <1>4, <1>5, <1>7 DEF Writes
<1>16. NamedOK(x)'
  <2>1. s \in Slots' /\ (x \in Kids(s)' \/ rn'[s].rtype = "ALLOCJOB")
    BY <1>5, <1>7, <1>9, <1>10
  <2> QED BY <1>6, <1>7, <1>10, <1>12, <2>1 DEF NamedOK
<1>17. RecOK(x)'
  <2>1. rn[s].rtype = "JOBID" => JobRecord(s) = rn[s].dyn
    BY <1>5 DEF TreeInv, DirOK, JobRecord
  <2>2. rn[s].rtype \notin {"ROOT", "ALLOCJOB"} => x - rn[s].children + 1 = j
    BY <1>1, <1>2, <1>13, NextPlace
  <2>3. c.rtype \in {"PARTNAME", "NODENAME", "JOBSTEPID"} => rn[s].rtype \notin {"ROOT", "ALLOCJOB"}
    BY <1>12 DEF MayHold
  <2>4. c.rtype = "ATTRIBUTES" /\ rn[s].rtype \in RecordTypes => c.dyn = rn[s].dyn
    BY <1>14, <2>1
  <2>5. PICK up : up = rn[s] /\ up = rn'[s]
    BY <1>10
  <2> QED BY <1>4, <1>6, <1>7, <1>14, <2>2, <2>3, <2>4, <2>5 DEF RecOK
<1>18. x \notin Dirs'
  BY <1>6, <1>7 DEF Dirs
<1>19. \A d \in Dirs : x \in Kids(d) /\ rn[d].rtype # "ROOT" => AddsTo(d, x)
  <2> SUFFICES ASSUME s \in Dirs, rn[s].rtype # "ROOT" PROVE AddsTo(s, x)
    BY <1>5
  <2>1. rn[s].rtype # "ALLOCJOB"
    BY DEF TreeInv, DirOK, DirTypes
  <2>2. \A t \in Kids(s) : t > x => rn[t].nm = NoName
    BY <1>1, <1>2, <2>1, NextPlace
  <2> QED BY <1>4, <1>5, <1>6, <1>7, <2>2 DEF AddsTo
<1>20. \A i \in 1 .. Depth' : \/ i \in 1 .. Depth /\ stack'[i].at = stack[i].at /\ stack[i].at # x
                              \/ AttrsNamed(stack[i].at)'
  <2>1. PICK f \in Frames : f = Frame(x) /\ f.at = x
    <3>1. x \in Nat
      BY <1>2, <1>8 DEF Frames
    <3>2. Frame(x) \in Frames /\ Frame(x).at = x
      BY <3>1 DEF Frame, Frames
    <3> QED BY <3>2
  <2>2. /\ Depth' = k + 1 /\ stack'[k + 1] = f
        /\ \A i \in 1 .. k : stack'[i] = stack[i]
    BY <1>4, <1>8, <2>1, PushIs DEF IInv, VarsInv
  <2>3. \A i \in 1 .. Depth' : i = k + 1 \/ i \in 1 .. k
    BY <1>8, <2>2
  <2>4. AttrsNamed(stack[k + 1].at)'
    BY <1>6, <1>7, <1>14, <2>1, <2>2 DEF AttrsNamed, Named
  <2> QED BY <1>5, <1>8, <2>2, <2>3, <2>4
<1> QED BY <1>5, <1>6, <1>7, <1>15, <1>16, <1>17, <1>18, <1>19, <1>20, TreeThen

-----------------------------------------------------------------------------
(* The invariant of the tree *)

\* Returning, failing, going on to the next child and ending write no node.
LEMMA StackStep ==
  ASSUME IInv, TreeInv, UNCHANGED <<in, rn, nxt_avail>>,
         \/ stack' = stack
         \/ stack # <<>> /\ stack' = Below
         \/ stack # <<>> /\ \E nx \in Nat : SetTop(Advanced(Top, nx))
  PROVE  TreeInv'
<1>1. Depth \in Nat
  BY LenProperties DEF IInv, VarsInv, Depth
<1>2. CASE stack' = stack
  BY <1>1, <1>2, TreeKept DEF Depth
<1>3. CASE stack # <<>> /\ stack' = Below
  <2>1. /\ Depth >= 1 /\ Len(Below) = Depth - 1 /\ \A k \in 1 .. (Depth - 1) : Below[k] = stack[k]
    BY <1>3, TopIs DEF IInv, VarsInv
  <2>2. PICK m \in Nat : m = Depth - 1
    BY <1>1, <2>1
  <2>3. Depth' = m /\ \A k \in 1 .. m : k \in 1 .. Depth /\ stack'[k].at = stack[k].at
    BY <1>1, <1>3, <2>1, <2>2 DEF Depth
  <2> QED BY <2>3, TreeKept
<1>4. CASE stack # <<>> /\ \E nx \in Nat : SetTop(Advanced(Top, nx))
  <2>1. PICK nx \in Nat : SetTop(Advanced(Top, nx))
    BY <1>4
  <2>2. PICK m \in Nat : m = Depth /\ m >= 1 /\ Top = stack[m] /\ Top \in Frames
    BY <1>4, TopIs DEF IInv, VarsInv
  <2>3. PICK f \in Frames : f = Advanced(Top, nx) /\ f.at = Top.at
    BY <2>2, FrameStep
  <2>4. SetTop(f)
    BY <2>1, <2>3, Zenon
  <2>5. Depth' = m /\ stack'[m] = f /\ \A k \in 1 .. (m - 1) : stack'[k] = stack[k]
    BY <1>4, <2>2, <2>4, SetTopIs DEF IInv, VarsInv
  <2>6. \A k \in 1 .. m : k \in 1 .. Depth /\ stack'[k].at = stack[k].at
    <3>1. \A k \in 1 .. m : k = m \/ k \in 1 .. (m - 1)
      BY <2>2
    <3> QED BY <2>2, <2>3, <2>5, <3>1
  <2> QED BY <2>5, <2>6, TreeKept
<1> QED BY <1>2, <1>3, <1>4

\* The steps that write no node.
LEMMA IdleSteps ==
  ASSUME IInv, [Next]_vars,
         Exit \/ ~(MkFsRoot \/ Provision \/ MkAttr \/ CastChild \/ CastTwin)
  PROVE  /\ UNCHANGED <<in, rn, nxt_avail>>
         /\ \/ stack' = stack
            \/ stack # <<>> /\ stack' = Below
            \/ stack # <<>> /\ \E nx \in Nat : SetTop(Advanced(Top, nx))
<1>1. CASE Exit
  BY <1>1 DEF Exit, pool
<1>2. \A sev : Fail(sev) => UNCHANGED <<in, rn, nxt_avail>> /\ (stack' = stack \/ stack' = Below)
  BY Zenon DEF Fail, Exit, pool
<1>3. CASE Refuse
  <2>1. stack # <<>> /\ Fail(Check(Top.at))
    BY <1>3, Zenon DEF Refuse, Entered, Running
  <2> QED BY <1>2, <2>1
<1>4. CASE RefuseAttr
  BY <1>1, <1>4 DEF RefuseAttr
<1>5. CASE ChildFails
  <2>1. stack # <<>>
    BY <1>5 DEF ChildFails, Running
  <2>2. CASE NextChild.onNull = "CONTINUE"
    <3>1. SetTop([Top EXCEPT !.kid = @ + 1, !.next = @ + 1]) /\ UNCHANGED <<in, rn, nxt_avail>>
      BY <1>5, <2>2, Zenon DEF ChildFails, pool
    <3>2. Top.next \in Nat
      BY <2>1, TopIs DEF IInv, VarsInv, Frames
    <3>3. PICK nx \in Nat : nx = Top.next + 1
      BY <3>2
    <3>4. SetTop(Advanced(Top, nx))
      BY <3>1, <3>3, Zenon DEF Advanced
    <3> QED BY <2>1, <3>1, <3>4
  <2>3. CASE NextChild.onNull # "CONTINUE"
    <3>1. Fail(NextChild.onNull)
      BY <1>5, <2>3, Zenon DEF ChildFails
    <3> QED BY <1>2, <2>1, <3>1
  <2> QED BY <2>2, <2>3
<1>6. CASE ChildBuilt
  <2>1. /\ Building /\ stack # <<>> /\ ret > NULL /\ ret # Pending
        /\ UNCHANGED <<in, rn, nxt_avail>>
    BY <1>6 DEF ChildBuilt, Running, Building, pool
  <2>2. SetTop(Advanced(Top, NextSlot))
    BY <1>6, Zenon DEF ChildBuilt, Advanced
  <2>3. NextSlot \in Nat
    BY <2>1, NextSlotIs
  <2> QED BY <2>1, <2>2, <2>3
<1>7. CASE Return
  BY <1>7 DEF Return, Casting, Running, pool
<1>8. CASE Ended \/ UNCHANGED vars
  BY <1>8 DEF Ended, vars
<1> QED BY <1>1, <1>3, <1>4, <1>5, <1>6, <1>7, <1>8 DEF Next, Build

\* Every step of mk_fs() keeps the tree.
LEMMA NextTree == IInv /\ TreeInv /\ [Next]_vars => TreeInv'
<1> SUFFICES ASSUME IInv, TreeInv, [Next]_vars PROVE TreeInv'
  OBVIOUS
<1>1. CASE Exit \/ ~(MkFsRoot \/ Provision \/ MkAttr \/ CastChild \/ CastTwin)
  BY <1>1, IdleSteps, StackStep
<1>2. CASE ~Exit /\ (MkFsRoot \/ Provision \/ MkAttr \/ CastChild \/ CastTwin)
  BY <1>2, RootTree, ProvisionTree, AttrTree, CastTree, TwinTree
<1> QED BY <1>1, <1>2

\* Before mk_fs() runs there is no tree.
LEMMA InitTree == Init => TreeInv
<1> SUFFICES ASSUME Init PROVE TreeInv
  OBVIOUS
<1>1. Slots = {} /\ Dirs = {} /\ Depth = 0
  BY DEF Init, Slots, Dirs, Depth
<1> QED BY <1>1 DEF TreeInv, ListedDistinct

\* The invariant of the tree holds of every run of mk_fs().
THEOREM TreeInvariant == Spec => []TreeInv
  BY Invariant, InitTree, NextTree, PTL DEF Spec

\* The two directions of the tree that the builders of rn_mk*.c write agree at
\* every moment, and the slot after every block stays the unnamed guard.
THEOREM WellFormed == Spec => []TreeWellFormed
<1>1. IInv /\ TreeInv => TreeWellFormed
  <2> SUFFICES ASSUME IInv, TreeInv PROVE TreeWellFormed
    OBVIOUS
  <2>1. \A s \in Slots : Named(s) /\ rn[s].rtype # "ROOT" =>
          s \in Kids(rn[s].parent) \/ rn[rn[s].parent].rtype = "ALLOCJOB"
    BY DEF TreeInv, NamedOK
  <2>2. ASSUME NEW d \in Dirs, NEW guard, guard = rn[d].children + rn[d].n
        PROVE  /\ \A s \in Kids(d) : s > d /\ (Named(s) => rn[s].parent = d)
               /\ \A e \in Dirs \ {d} :
                     rn[e].children > guard \/ rn[e].children + rn[e].n < rn[d].children
               /\ guard \in Slots /\ rn[guard].rtype = "GUARD" /\ ~Named(guard)
    <3>1. /\ d \in Nat /\ rn[d].children \in Nat /\ rn[d].n \in Nat /\ rn[d].children \in Slots
          /\ rn[d].children # NULL
      BY DEF Dirs, IInv, PoolInv, NodeOK, Slots
    <3>2. \A s \in Kids(d) : s > d /\ (Named(s) => rn[s].parent = d)
      <4>1. rn[d].children > d
        BY DEF IInv, DirsInv
      <4>2. \A s \in Kids(d) : s > d
        BY <3>1, <4>1 DEF Kids
      <4> QED BY <4>2 DEF TreeInv, DirOK
    <3>3. \A e \in Dirs \ {d} :
             rn[e].children > guard \/ rn[e].children + rn[e].n < rn[d].children
      <4>1. \A e \in Dirs : rn[e].children \in Nat
        BY DEF Dirs, IInv, PoolInv, NodeOK, Slots
      <4> QED BY <2>2, <3>1, <4>1 DEF IInv, ApartInv, BlocksApart, Apart
    <3>4. guard < nxt_avail /\ rn[guard].rtype = "GUARD" /\ rn[guard].nm = NoName
      BY <2>2 DEF IInv, DirsInv, GuardOf
    <3>5. guard \in Slots
      BY <2>2, <3>1, <3>4 DEF Slots, IInv, PoolInv
    <3> QED BY <3>2, <3>3, <3>4, <3>5 DEF Named
  <2> QED BY <2>1, <2>2 DEF TreeWellFormed
<1> QED BY Invariant, TreeInvariant, <1>1, PTL

\* No listing of a directory shows one name twice, although two records of the
\* resource manager may have one name: rn_cast() leaves the second unnamed.
THEOREM NoTwins == Spec => []ListedDistinct
<1>1. TreeInv => ListedDistinct
  BY DEF TreeInv
<1> QED BY TreeInvariant, <1>1, PTL

\* A directory that was made for a record shows that record, and so do the
\* attributes below it.
THEOREM OwnRecords == Spec => []RecordsMatch
<1>1. TreeInv => RecordsMatch
  <2> SUFFICES ASSUME TreeInv PROVE RecordsMatch
    OBVIOUS
  <2>1. ASSUME NEW s \in Slots, Named(s), rn[s].rtype = "PARTNAME"
        PROVE  LET j == s - rn[rn[s].parent].children + 1
               IN rn[s].dyn = j /\ rn[s].nm = in.part.recs[j]
    BY <2>1 DEF TreeInv, RecOK
  <2>2. ASSUME NEW s \in Slots, Named(s), rn[s].rtype = "NODENAME"
        PROVE  LET j == s - rn[rn[s].parent].children + 1
               IN rn[s].dyn = j /\ rn[s].nm = in.node.recs[j]
    BY <2>2 DEF TreeInv, RecOK
  <2>3. ASSUME NEW s \in Slots, Named(s), rn[s].rtype = "JOBSTEPID"
        PROVE  LET j == s - rn[rn[s].parent].children + 1
               IN rn[s].dyn = j /\ rn[s].nm = in.step.recs[j]
    BY <2>3 DEF TreeInv, RecOK
  <2>4. ASSUME NEW s \in Slots, NEW up, up = rn[s].parent, Named(s), rn[s].rtype \in AttrTypes,
               rn[up].rtype = "ATTRIBUTES", rn[rn[up].parent].rtype \in RecordTypes
        PROVE  rn[s].dyn = rn[rn[up].parent].dyn
    <3>1. rn[s].dyn = rn[up].dyn
      BY <2>4 DEF TreeInv, RecOK
    <3>2. up \in Slots /\ s \in Kids(up)
      BY <2>4 DEF TreeInv, NamedOK, AttrTypes, AttrSubtypes
    <3>3. up \in Dirs
      BY <3>2 DEF Kids, Dirs
    <3>4. Named(up)
      BY <2>4, <3>3 DEF TreeInv, DirOK
    <3>5. rn[up].dyn = rn[rn[up].parent].dyn
      BY <2>4, <3>2, <3>4 DEF TreeInv, RecOK
    <3> QED BY <3>1, <3>5
  <2> QED BY <2>1, <2>2, <2>3, <2>4 DEF RecordsMatch
<1> QED BY TreeInvariant, <1>1, PTL

-----------------------------------------------------------------------------
(* What is cast stays *)

\* What a step may do to a named node, old, that is new after it.
Stays(old, new) ==
    /\ old.nm # new.nm => old.rtype = "CLUSTER" /\ old.children = NULL
    /\ old.rtype # new.rtype => old.rtype = "KNOB" /\ new.rtype = "ATTRIBUTE"
    /\ new.parent = old.parent /\ new.typ = old.typ
    /\ old.children # NULL => new.children = old.children /\ new.n = old.n

\* A step of mk_fs() writes a named node only when its own builder casts it a
\* second time.
LEMMA NamedStays ==
  ASSUME IInv, [Next]_vars, NEW s \in Slots, Named(s)
  PROVE  Stays(rn[s], rn'[s])
<1>1. \A v : Stays(v, v)
  BY DEF Stays
<1>2. CASE Exit \/ ~(MkFsRoot \/ Provision \/ MkAttr \/ CastChild \/ CastTwin)
  BY <1>1, <1>2, IdleSteps
<1>3. CASE ~Exit /\ MkFsRoot
  BY <1>3, RootIs DEF RootMade
<1>4. CASE ~Exit /\ Provision
  <2> PICK at, up : \E n, k, b, m \in Nat : Provisions(at, n, up, k, b, m)
    BY <1>4, ProvisionIs
  <2>1. PICK n, k, b, m \in Nat : Provisions(at, n, up, k, b, m)
    OBVIOUS
  <2>2. /\ rn[at].rtype \in BuiltTypes /\ NodeOK(rn[at]) /\ rn[at].children = NULL
        /\ s # at => rn'[s] = rn[s]
        /\ rn[at].rtype = "ALLOCJOB" => rn'[at] = rn[at]
        /\ rn[at].rtype # "ALLOCJOB" => rn'[at] = Recast(at)
    BY <2>1 DEF Provisions
  <2>3. DOMAIN rn[at] = {"rtype", "gen", "nm", "typ", "dyn", "parent", "children", "n", "isdir"}
    BY <2>2 DEF NodeOK, NodeFields
  <2>4. Stays(rn[at], Recast(at))
    BY <2>2, <2>3, RecastIs DEF Stays
  <2> QED BY <1>1, <2>2, <2>4
<1>5. CASE MkAttr
  <2>1. PICK at, v : CastsAttr(at, v)
    BY <1>5, AttrIs
  <2>2. Stays(rn[at], v) /\ rn'[at] = v /\ (s # at => rn'[s] = rn[s])
    BY <2>1 DEF CastsAttr, Stays
  <2> QED BY <1>1, <2>2
<1>6. CASE ~Exit /\ (CastChild \/ CastTwin)
  <2>1. Casting /\ More
    BY <1>6 DEF CastChild, CastTwin
  <2>2. s # Top.next
    BY <2>1, NextIn DEF Named
  <2>3. \E v : rn' = [rn EXCEPT ![Top.next] = v]
    BY <1>6, Zenon DEF CastChild, CastTwin
  <2>4. rn'[s] = rn[s]
    BY <2>2, <2>3 DEF IInv, PoolInv
  <2> QED BY <1>1, <2>4
<1> QED BY <1>2, <1>3, <1>4, <1>5, <1>6

\* Whatever fails after it, a node that has been cast keeps its name, parent,
\* parameter type and block; the cluster alone is renamed, and a knob alone
\* gets another type.
THEOREM NeverRecast == Spec => CastOnce
<1> DEFINE Step == \A s \in Slots : Named(s) =>
                      LET old == rn[s] new == rn'[s]
                      IN /\ old.nm # new.nm => old.rtype = "CLUSTER" /\ old.children = NULL
                         /\ old.rtype # new.rtype => old.rtype = "KNOB" /\ new.rtype = "ATTRIBUTE"
                         /\ new.parent = old.parent /\ new.typ = old.typ
                         /\ old.children # NULL => new.children = old.children /\ new.n = old.n
<1>1. IInv /\ [Next]_vars => Step
  BY NamedStays DEF Stays
<1> QED BY Invariant, <1>1, PTL DEF Spec, CastOnce

-----------------------------------------------------------------------------
(* The lists of the root, the cluster and the jobs *)

\* What the builder of a node casts, where the list does not depend on replies.
LEMMA FixedLists ==
  ASSUME NEW s, rn[s].rtype \in BuiltTypes
  PROVE  LET list == Children(s)
         IN /\ rn[s].rtype = "ROOT" =>
                 /\ Len(list) = 3 /\ list[1].rtype = "ATTRIBUTES"
                 /\ list[2].rtype = "CLUSTER" /\ list[3].rtype = "CONTROL"
            /\ rn[s].rtype = "CLUSTER" => Len(list) = 3
            /\ rn[s].rtype = "JOBID" =>
                 /\ Len(list) = 3 /\ list[1].rtype = "JOBSTEPS"
                 /\ list[2].rtype = "ATTRIBUTES" /\ list[3].rtype = "CONTROL"
<1>1. \A a, b, c : /\ Len(<<a, b, c>>) = 3 /\ <<a, b, c>>[1] = a /\ <<a, b, c>>[2] = b
                   /\ <<a, b, c>>[3] = c
  OBVIOUS
<1>2. \A rtype, nm, dyn, onNull : Dir(rtype, nm, dyn, onNull).rtype = rtype
  BY DEF Dir, Child
<1>3. ASSUME rn[s].rtype = "ROOT"
      PROVE  LET list == Children(s)
             IN /\ Len(list) = 3 /\ list[1].rtype = "ATTRIBUTES"
                /\ list[2].rtype = "CLUSTER" /\ list[3].rtype = "CONTROL"
  <2>1. Children(s) = RootChildren
    BY <1>3, ChildrenIs
  <2>2. PICK a, b, c : /\ a = Dir("ATTRIBUTES", "attributes", NULL, "ASSERT")
                       /\ b = Dir("CLUSTER", "ClusterName", 1, "WARN")
                       /\ c = Dir("CONTROL", "control", NULL, "ASSERT")
    OBVIOUS
  <2>3. Children(s) = <<a, b, c>>
    BY <2>1, <2>2, Zenon DEF RootChildren
  <2>4. a.rtype = "ATTRIBUTES" /\ b.rtype = "CLUSTER" /\ c.rtype = "CONTROL"
    BY <1>2, <2>2, Zenon
  <2> QED BY <2>3, <2>4
<1>4. ASSUME rn[s].rtype = "CLUSTER" PROVE Len(Children(s)) = 3
  <2>1. Children(s) = ClusterChildren
    BY <1>4, ChildrenIs
  <2> QED BY <1>1, <2>1, Zenon DEF ClusterChildren
<1>5. ASSUME rn[s].rtype = "JOBID"
      PROVE  LET list == Children(s)
             IN /\ Len(list) = 3 /\ list[1].rtype = "JOBSTEPS"
                /\ list[2].rtype = "ATTRIBUTES" /\ list[3].rtype = "CONTROL"
  <2>1. Children(s) = JobChildren(s)
    BY <1>5, ChildrenIs
  <2>2. PICK a, b, c : /\ a = Dir("JOBSTEPS", "jobsteps", NULL, "WARN")
                       /\ b = Dir("ATTRIBUTES", "attributes", JobRecord(s), "ASSERT")
                       /\ c = Dir("CONTROL", "control", NULL, "ASSERT")
    OBVIOUS
  <2>3. Children(s) = <<a, b, c>>
    BY <2>1, <2>2, Zenon DEF JobChildren
  <2>4. a.rtype = "JOBSTEPS" /\ b.rtype = "ATTRIBUTES" /\ c.rtype = "CONTROL"
    BY <1>2, <2>2, Zenon
  <2> QED BY <2>3, <2>4
<1> QED BY <1>3, <1>4, <1>5

\* The attributes of a job end with its signature.
LEMMA JobAttrs ==
  ASSUME NEW s, in \in Inputs, OfJob(s)
  PROVE  /\ NKids(s) = 3 /\ Children(s)[3].rtype = "SIGNATURE"
         /\ \A j \in 1 .. 3 : Children(s)[j].rtype \in AttrTypes /\ Children(s)[j].onNull = "ASSERT"
<1> DEFINE tab == AttrTab["JOBID"]
           Attr(j) == Child(p2r_typ_convtab(tab[j].typ), tab[j].nm, tab[j].typ, rn[s].dyn,
                            "ASSERT")
<1>1. Children(s) = AttrChildren(s)
  BY ChildrenIs DEF OfJob, BuiltTypes
<1>2. AttrChildren(s) = [j \in DOMAIN tab |-> Attr(j)]
  BY Zenon DEF AttrChildren, OfJob
<1>3. /\ Len(tab) = 3 /\ DOMAIN tab = 1 .. 3
      /\ tab[1].typ = "NUMERIC" /\ tab[2].typ = "CONTEXT" /\ tab[3].typ = "SIGNATURE"
  <2> DEFINE Ok(t) == /\ Len(t) = 3 /\ DOMAIN t = 1 .. 3
                      /\ t[1].typ = "NUMERIC" /\ t[2].typ = "CONTEXT" /\ t[3].typ = "SIGNATURE"
  <2>1. \A a, b, c : a.typ = "NUMERIC" /\ b.typ = "CONTEXT" /\ c.typ = "SIGNATURE" => Ok(<<a, b, c>>)
    OBVIOUS
  <2> HIDE DEF Ok
  <2>2. Ok(AttrTab["JOBID"])
    BY <2>1 DEF AttrTab
  <2> QED BY <2>2 DEF Ok
<1> HIDE DEF tab
<1>4. \A rtype, nm, typ, dyn : /\ Child(rtype, nm, typ, dyn, "ASSERT").rtype = rtype
                               /\ Child(rtype, nm, typ, dyn, "ASSERT").onNull = "ASSERT"
  BY DEF Child
<1>5. \A j \in 1 .. 3 : Attr(j).rtype = p2r_typ_convtab(tab[j].typ) /\ Attr(j).onNull = "ASSERT"
  BY <1>4, Zenon
<1> HIDE DEF Attr
<1>6. \A j \in 1 .. 3 : Attr(j).rtype \in AttrTypes
  BY <1>3, <1>5 DEF p2r_typ_convtab, AttrTypes, AttrSubtypes
<1>7. Attr(3).rtype = "SIGNATURE"
  BY <1>3, <1>5 DEF p2r_typ_convtab
<1>8. Len(AttrChildren(s)) = 3 /\ \A j \in 1 .. 3 : AttrChildren(s)[j] = Attr(j)
  <2>1. AttrChildren(s) = [j \in 1 .. 3 |-> Attr(j)]
    BY <1>2, <1>3
  <2> QED BY <2>1, LenOfFun
<1> QED BY <1>1, <1>5, <1>6, <1>7, <1>8 DEF NKids

\* A context is in the tables of the root and of jobs only.
LEMMA ContextFor ==
  ASSUME NEW s, Listable(s), rn[s].rtype = "ATTRIBUTES",
         NEW j \in 1 .. NKids(s), Children(s)[j].rtype = "CONTEXT"
  PROVE  rn[rn[s].parent].rtype \in {"ROOT", "JOBID"}
<1> DEFINE up == rn[rn[s].parent].rtype
           None(tab) == \A k \in DOMAIN tab : tab[k].typ # "CONTEXT"
<1>1. MayHold(up, "ATTRIBUTES")
  BY DEF Listable
<1>2. None(AttrTab["CLUSTER"]) /\ None(AttrTab["PARTNAME"]) /\ None(AttrTab["NODENAME"])
      /\ None(AttrTab["JOBSTEPID"])
  <2>1. \A a : a.typ # "CONTEXT" => None(<<a>>)
    OBVIOUS
  <2>2. \A a, b : a.typ # "CONTEXT" /\ b.typ # "CONTEXT" => None(<<a, b>>)
    OBVIOUS
  <2>3. \A a, b, c : a.typ # "CONTEXT" /\ b.typ # "CONTEXT" /\ c.typ # "CONTEXT" => None(<<a, b, c>>)
    OBVIOUS
  <2> HIDE DEF None
  <2> QED BY <2>1, <2>2, <2>3 DEF AttrTab
<1>3. Children(s) = AttrChildren(s)
  BY ChildrenIs DEF BuiltTypes
<1> DEFINE tab == AttrTab[up]
           Attr(k) == Child(p2r_typ_convtab(tab[k].typ), tab[k].nm, tab[k].typ, rn[s].dyn,
                            "ASSERT")
<1>4. AttrChildren(s) = [k \in DOMAIN tab |-> Attr(k)]
  BY Zenon DEF AttrChildren
<1>5. Len(tab) \in Nat /\ DOMAIN tab = 1 .. Len(tab)
  BY <1>1, AttrTabIs
<1> HIDE DEF tab
<1>6. \A rtype, nm, typ, dyn : Child(rtype, nm, typ, dyn, "ASSERT").rtype = rtype
  BY DEF Child
<1>7. Attr(j).rtype = p2r_typ_convtab(tab[j].typ)
  BY <1>6, Zenon
<1> HIDE DEF Attr
<1>8. j \in DOMAIN tab /\ AttrChildren(s)[j] = Attr(j)
  <2>1. PICK n \in Nat : n = Len(tab)
    BY <1>5
  <2>2. AttrChildren(s) = [k \in 1 .. n |-> Attr(k)]
    BY <1>4, <1>5, <2>1
  <2>3. Len(AttrChildren(s)) = n
    BY <2>2, LenOfFun
  <2> QED BY <1>3, <1>5, <2>1, <2>2, <2>3 DEF NKids
<1>9. tab[j].typ = "CONTEXT"
  BY <1>3, <1>7, <1>8 DEF p2r_typ_convtab
<1>10. ~None(AttrTab[up])
  BY <1>8, <1>9, Zenon DEF tab
<1>11. up \notin {"CLUSTER", "PARTNAME", "NODENAME", "JOBSTEPID"}
  <2> HIDE DEF None
  <2> QED BY <1>2, <1>10
<1> QED BY <1>1, <1>11 DEF MayHold

\* Which of its children the builder below is at.
LEMMA CalledAs ==
  ASSUME IInv, NEW k \in 1 .. Depth, k > 1, NEW g, g = stack[k - 1], NEW at, at = stack[k].at
  PROVE  /\ rn[at].rtype # "ROOT" /\ k - 1 \in 1 .. Depth /\ k - 1 # Depth
         /\ rn[at].rtype = "CLUSTER" => rn[g.at].rtype = "ROOT"
         /\ rn[g.at].rtype = "ROOT" => g.kid \in 1 .. 3 /\ (rn[at].rtype = "CLUSTER" <=> g.kid = 2)
         /\ rn[g.at].rtype = "JOBID" =>
              /\ g.kid \in 1 .. 3 /\ (g.kid = 2 => OfJob(at))
              /\ rn[at].rtype = "CONTROL" => g.kid = 3
         /\ OfJob(g.at) => /\ g.kid \in 1 .. 3 /\ rn[at].rtype \in AttrTypes
                           /\ g.kid = 3 => rn[at].rtype = "SIGNATURE"
         /\ rn[at].rtype \in {"CONTROL", "ATTRIBUTES"} => g.at \in Dirs
<1>1. /\ k - 1 \in 1 .. Depth /\ rn[at].parent = g.at /\ MayHold(rn[g.at].rtype, rn[at].rtype)
      /\ rn[g.at].rtype # "ALLOCJOB" => g.at \in Dirs
  BY CalledFrom
<1>2. /\ g.kid \in 1 .. NKids(g.at) /\ rn[at].rtype = Children(g.at)[g.kid].rtype
  BY DEF IInv, FrameInv, FrameOK
<1>3. rn[g.at].rtype \in BuiltTypes
  BY <1>1, FrameFacts DEF IInv
<1>4. k - 1 # Depth /\ rn[at].rtype # "ROOT" /\ (rn[at].rtype = "CLUSTER" => rn[g.at].rtype = "ROOT")
      /\ (rn[at].rtype \in {"CONTROL", "ATTRIBUTES"} => rn[g.at].rtype # "ALLOCJOB")
  <2>1. Depth \in Nat
    BY LenProperties DEF IInv, VarsInv, Depth
  <2> QED BY <1>1, <2>1 DEF MayHold
<1>5. PICK list : list = Children(g.at) /\ Len(list) = NKids(g.at)
  BY DEF NKids
<1>6. rn[g.at].rtype = "ROOT" => g.kid \in 1 .. 3 /\ (rn[at].rtype = "CLUSTER" <=> g.kid = 2)
  BY <1>2, <1>3, <1>5, FixedLists
<1>7. rn[g.at].rtype = "JOBID" =>
              /\ g.kid \in 1 .. 3 /\ (g.kid = 2 => OfJob(at))
              /\ rn[at].rtype = "CONTROL" => g.kid = 3
  BY <1>1, <1>2, <1>3, <1>5, FixedLists DEF OfJob
<1>8. OfJob(g.at) => /\ g.kid \in 1 .. 3 /\ rn[at].rtype \in AttrTypes
                     /\ g.kid = 3 => rn[at].rtype = "SIGNATURE"
  BY <1>2, <1>5, JobAttrs DEF IInv, PoolInv
<1> QED BY <1>1, <1>4, <1>6, <1>7, <1>8

\* How long those lists are, and that a leaf has none.
LEMMA ListLengths ==
  ASSUME IInv, TreeInv, NEW k \in 1 .. Depth, NEW at, at = stack[k].at
  PROVE  /\ rn[at].rtype \in {"ROOT", "CLUSTER", "JOBID"} \/ OfJob(at) => NKids(at) = 3
         /\ rn[at].rtype \in AttrTypes => stack[k].kid = 0
         /\ stack[k].kid > 0 /\ rn[at].rtype # "ALLOCJOB" => at \in Dirs
<1>1. rn[at].rtype \in BuiltTypes /\ at \in Slots
  BY FrameFacts DEF IInv
<1>2. rn[at].rtype \in {"ROOT", "CLUSTER", "JOBID"} => NKids(at) = 3
  BY <1>1, FixedLists DEF NKids
<1>3. OfJob(at) => NKids(at) = 3
  BY JobAttrs DEF IInv, PoolInv
<1>4. PICK f \in Frames : f = stack[k]
  BY ElementOfSeq DEF IInv, VarsInv, Depth
<1>5. f.kid > 0 /\ rn[at].rtype # "ALLOCJOB" => at \in Dirs
  <2>1. f.kid > 0 /\ rn[at].rtype # "ALLOCJOB" => rn[at].children = f.blk /\ at < f.blk
    BY <1>4 DEF IInv, BlockInv, BlockOK
  <2>2. at \in Nat /\ f.blk \in Nat
    BY <1>4 DEF Frames
  <2> QED BY <1>1, <1>4, <2>1, <2>2 DEF Dirs
<1>6. rn[at].rtype \in AttrTypes => at \notin Dirs /\ rn[at].rtype # "ALLOCJOB"
  BY DEF TreeInv, DirOK, DirTypes, AttrTypes, AttrSubtypes
<1>7. stack[k].kid \in Nat
  BY <1>4 DEF Frames
<1> QED BY <1>2, <1>3, <1>4, <1>5, <1>6, <1>7

-----------------------------------------------------------------------------
(* What a step keeps of the nodes *)

\* A step that writes one node, which is no directory yet.
LEMMA NodesKept ==
  ASSUME IInv, TreeInv, NodesInv, NEW x, Writes(x), x \in Slots => rn[x].children = NULL,
         \A s \in Slots' : s \in Slots \/ rn'[s].rtype # "ROOT",
         NodeSays(x)', x \in Dirs' => CtlOfRoot(x)'
  PROVE  NodesInv'
<1>1. \A d \in Dirs : d # x /\ rn'[d] = rn[d]
  BY DEF Writes, Dirs
<1>2. ASSUME NEW s \in Slots', s # x PROVE NodeSays(s)'
  <2>1. CASE s \notin Slots
    BY <1>2, <2>1 DEF Writes, NodeSays, Named
  <2>2. CASE s \in Slots
    <3>1. rn'[s] = rn[s] /\ NodeSays(s)
      BY <1>2, <2>2 DEF Writes, NodesInv
    <3>2. ASSUME rn[s].nm # NoName, rn[s].rtype = "CONTEXT"
          PROVE  rn'[rn[s].parent] = rn[rn[s].parent]
                 /\ rn'[rn[rn[s].parent].parent] = rn[rn[rn[s].parent].parent]
      <4>1. NamedOK(s)
        BY <2>2 DEF TreeInv
      <4>2. PICK up : up = rn[s].parent /\ up \in Slots /\ rn[up].rtype = "ATTRIBUTES"
                      /\ s \in Kids(up)
        BY <3>2, <4>1 DEF NamedOK, Named, MayHold
      <4>3. up \in Dirs
        BY <4>2 DEF Dirs, Kids
      <4>4. rn[up].parent \in Dirs
        BY <4>2, <4>3 DEF TreeInv, DirOK
      <4> QED BY <1>1, <4>2, <4>3, <4>4
    <3>3. rn[s].nm # NoName \/ rn[s].children # NULL => rn'[s].isdir = IsDir(rn[s].rtype)
      BY <3>1 DEF NodeSays, Flagged, Named
    <3>4. Flagged(s)' <=> rn'[s].isdir = IsDir(rn'[s].rtype)
      BY DEF Flagged
    <3> QED BY <3>1, <3>2, <3>3, <3>4 DEF NodeSays, Named
  <2> QED BY <2>1, <2>2
<1>3. ASSUME NEW d \in Dirs', d # x PROVE CtlOfRoot(d)'
  <2>1. d \in Dirs
    BY <1>3 DEF Dirs, Writes
  <2>2. CtlOfRoot(d) /\ rn'[d] = rn[d]
    BY <1>1, <2>1 DEF NodesInv
  <2>3. rn[d].rtype = "CONTROL" => rn[d].parent \in Dirs
    BY <2>1 DEF TreeInv, DirOK
  <2> QED BY <1>1, <2>2, <2>3 DEF CtlOfRoot
<1> QED BY <1>2, <1>3 DEF NodesInv

\* Directories stay, and what they hang in.
LEMMA DirsStay ==
  ASSUME IInv, TreeInv, NEW x, Writes(x) \/ UNCHANGED <<rn, nxt_avail>>
  PROVE  /\ \A d \in Dirs : d \in Dirs' /\ rn'[d] = rn[d] /\ (OfJob(d)' => OfJob(d))
         /\ \A d \in Dirs' : d \in Dirs \/ (d = x /\ Writes(x))
         /\ FsRootIs /\ p_fsroot' = p_fsroot => FsRootIs'
<1>1. \A d \in Dirs : d \in Dirs' /\ rn'[d] = rn[d]
  <2>1. CASE Writes(x)
    BY <2>1 DEF Writes, Dirs
  <2>2. CASE UNCHANGED <<rn, nxt_avail>>
    BY <2>2, Zenon DEF Dirs, Slots
  <2> QED BY <2>1, <2>2
<1>2. ASSUME NEW d \in Dirs PROVE OfJob(d)' => OfJob(d)
  <2>1. rn[d].rtype = "ATTRIBUTES" => rn[d].parent \in Dirs
    BY DEF TreeInv, DirOK
  <2> QED BY <1>1, <2>1 DEF OfJob
<1>3. \A d \in Dirs' : d \in Dirs \/ (d = x /\ Writes(x))
  <2>1. CASE Writes(x)
    BY <2>1 DEF Writes, Dirs
  <2>2. CASE UNCHANGED <<rn, nxt_avail>>
    BY <2>2, Zenon DEF Dirs, Slots
  <2> QED BY <2>1, <2>2
<1>4. FsRootIs /\ p_fsroot' = p_fsroot => FsRootIs'
  BY <1>1 DEF FsRootIs
<1> QED BY <1>1, <1>2, <1>3, <1>4

\* The builder of every attribute directory of a job still runs.
LEMMA JobsThen ==
  ASSUME IInv, TreeInv, JobsInv, NEW x, Writes(x) \/ UNCHANGED <<rn, nxt_avail>>,
         x \in Dirs' /\ x \notin Dirs => \E j \in 1 .. Depth' : stack'[j].at = x,
         \A k \in 1 .. Depth : OfJob(stack[k].at) =>
            \E j \in 1 .. Depth' : stack'[j].at = stack[k].at
  PROVE  JobsInv'
<1> SUFFICES ASSUME NEW d \in Dirs', OfJob(d)' PROVE \E j \in 1 .. Depth' : stack'[j].at = d
  BY Zenon DEF JobsInv, OfJob
<1>1. CASE d \notin Dirs
  BY <1>1, DirsStay
<1>2. CASE d \in Dirs
  <2>1. OfJob(d)
    BY <1>2, DirsStay
  <2>2. PICK k \in 1 .. Depth : stack[k].at = d
    BY <1>2, <2>1 DEF JobsInv
  <2> QED BY <2>1, <2>2
<1> QED BY <1>1, <1>2

\* The nodes of the first m builders are what they were.
SameNodes(m) ==
    \A k \in 1 .. m :
        LET old == rn[stack[k].at] new == rn'[stack[k].at]
        IN new.rtype = old.rtype /\ new.parent = old.parent /\ new.isdir = old.isdir

\* What the invariant says of a builder's job and flag hangs on those fields only.
LEMMA JobsSame ==
  ASSUME IInv, NEW m \in 0 .. Depth, SameNodes(m), NEW k \in 1 .. m, NEW at, at = stack[k].at
  PROVE  OfJob(at)' = OfJob(at) /\ Flagged(at)' = Flagged(at)
<1>1. k \in 1 .. Depth
  <2>1. Depth \in Nat
    BY LenProperties DEF IInv, VarsInv, Depth
  <2> QED BY <2>1
<1>2. rn'[at].rtype = rn[at].rtype /\ rn'[at].parent = rn[at].parent /\ rn'[at].isdir = rn[at].isdir
  BY DEF SameNodes
<1>3. rn[at].rtype = "ATTRIBUTES" =>
         rn[at].parent = stack[k - 1].at /\ rn'[stack[k - 1].at].rtype = rn[stack[k - 1].at].rtype
  <2> SUFFICES ASSUME rn[at].rtype = "ATTRIBUTES"
               PROVE  rn[at].parent = stack[k - 1].at
                      /\ rn'[stack[k - 1].at].rtype = rn[stack[k - 1].at].rtype
    OBVIOUS
  <2>1. k > 1
    BY <1>1 DEF IInv, FrameInv, FrameOK
  <2>2. rn[at].parent = stack[k - 1].at
    BY <1>1, <2>1, CalledFrom
  <2>3. k - 1 \in 1 .. m
    BY <2>1
  <2> QED BY <2>2, <2>3 DEF SameNodes
<1>4. OfJob(at)' = OfJob(at)
  BY <1>2, <1>3 DEF OfJob
<1>5. Flagged(at)' = Flagged(at)
  BY <1>2 DEF Flagged
<1> QED BY <1>4, <1>5

\* What is known of a builder goes on to hold while another runs above it.
LEMMA LowerSays ==
  ASSUME IInv, TreeInv, MountInv, NEW m \in 0 .. Depth, SameNodes(m), m < Depth',
         \A k \in 1 .. m : stack'[k] = stack[k],
         FsRootIs => FsRootIs',
         p_fsroot' = p_fsroot \/ m = 0 \/ (m = 1 /\ FsRootIs')
  PROVE  \A k \in 1 .. m : FrameSays(k)'
<1> SUFFICES ASSUME NEW k \in 1 .. m PROVE FrameSays(k)'
  OBVIOUS
<1>1. k \in 1 .. Depth /\ k # Depth'
  <2>1. Depth \in Nat
    BY LenProperties DEF IInv, VarsInv, Depth
  <2> QED BY <2>1
<1>2. PICK f \in Frames : f = stack[k] /\ stack'[k] = f
  BY <1>1, ElementOfSeq DEF IInv, VarsInv, Depth
<1>3. FrameSays(k)
  BY <1>1 DEF MountInv
<1>4. rn'[f.at].rtype = rn[f.at].rtype
  BY <1>2 DEF SameNodes
<1>5. OfJob(f.at)' = OfJob(f.at) /\ Flagged(f.at)' = Flagged(f.at)
  BY <1>2, JobsSame
<1>6. Flagged(stack[k].at)'
  BY <1>2, <1>3, <1>5 DEF FrameSays
<1>7. JobOK(k)'
  BY <1>1, <1>2, <1>3, <1>4, <1>5 DEF FrameSays, JobOK
<1>8. rn[f.at].rtype = "CLUSTER" => p_fsroot' = p_fsroot
  <2>1. k = 1 => rn[f.at].rtype = "ROOT"
    BY <1>1, <1>2 DEF IInv, FrameInv, FrameOK
  <2> QED BY <2>1
<1>9. FsRootOK(k)'
  BY <1>1, <1>2, <1>3, <1>4, <1>8 DEF FrameSays, FsRootOK
<1> QED BY <1>6, <1>7, <1>9 DEF FrameSays

-----------------------------------------------------------------------------
(* The steps *)

\* rn_cast() calls the builder of a fresh child.
LEMMA CastMount ==
  ASSUME IInv, TreeInv, MountInv, CastChild
  PROVE  MountInv'
<1>1. Casting /\ More /\ stack # <<>> /\ ret = Pending /\ status = "building"
  BY DEF CastChild, Casting, Running
<1>2. PICK x, s, c : x = Top.next /\ s = Top.at /\ c = NextChild
  OBVIOUS
<1>3. PICK v : v = FirstCast(c, s)
  OBVIOUS
<1>4. /\ rn' = [rn EXCEPT ![x] = v] /\ stack' = Append(stack, Frame(x))
      /\ UNCHANGED <<in, nxt_avail, ret, caught_in_a_loop, p_fsroot, status>>
  BY <1>2, <1>3, Zenon DEF CastChild, roots
<1>5. /\ x \in Slots /\ rn[x].nm = NoName /\ rn[x].children = NULL /\ rn[x].rtype = "GUARD"
      /\ \A k \in 1 .. Depth : stack[k].at # x
  BY <1>1, <1>2, NextIn
<1>6. v.rtype = c.rtype /\ v.parent = s /\ v.children = NULL /\ v.isdir = IsDir(c.rtype)
  BY <1>3 DEF FirstCast
<1>7. Slots' = Slots /\ rn'[x] = v /\ \A t \in Slots : t # x => rn'[t] = rn[t]
  BY <1>4, <1>5 DEF Slots, IInv, PoolInv
<1>8. PICK k \in Nat : k = Depth /\ k \in 1 .. Depth /\ Top = stack[k] /\ k >= 1 /\ Top \in Frames
  BY <1>1, TopIs DEF IInv, VarsInv
<1>9. s \in Slots /\ s # x /\ rn[s].rtype \in BuiltTypes
  BY <1>2, <1>5, <1>8, FrameFacts DEF IInv
<1>10. rn[s].rtype # "ROOT" => MayHold(rn[rn[s].parent].rtype, rn[s].rtype)
  BY <1>2, <1>8 DEF IInv, FrameInv, FrameOK
<1>11. Top.kid \in 1 .. NKids(s) /\ c = Children(s)[Top.kid] /\ MayHold(rn[s].rtype, c.rtype)
  BY <1>1, <1>2, NextFree, NextIs DEF NextChild
<1>12. Writes(x)
  BY <1>4, <1>5, <1>7 DEF Writes
<1>13. NodeSays(x)'
  <2>1. c.rtype # "ROOT"
    BY <1>11 DEF MayHold
  <2>2. ASSUME c.rtype = "CONTEXT" PROVE rn'[rn[s].parent].rtype \in {"ROOT", "JOBID"}
    <3>1. rn[s].rtype = "ATTRIBUTES"
      BY <1>11, <2>2 DEF MayHold
    <3>2. rn[rn[s].parent].rtype \in {"ROOT", "JOBID"}
      BY <1>9, <1>10, <1>11, <2>2, <3>1, ContextFor DEF Listable, IInv, PoolInv
    <3>3. k > 1
      BY <1>2, <1>8, <3>1 DEF IInv, FrameInv, FrameOK
    <3>4. rn[s].parent = stack[k - 1].at /\ k - 1 \in 1 .. Depth
      BY <1>2, <1>8, <3>3, CalledFrom
    <3>5. rn[s].parent \in Slots /\ rn[s].parent # x
      BY <1>5, <3>4, FrameFacts DEF IInv
    <3> QED BY <1>7, <3>2, <3>5
  <2>3. Flagged(x)'
    BY <1>6, <1>7 DEF Flagged
  <2> QED BY <1>6, <1>7, <1>9, <2>1, <2>2, <2>3 DEF NodeSays
<1>14. x \notin Dirs'
  BY <1>6, <1>7 DEF Dirs
<1>15. NodesInv'
  BY <1>5, <1>7, <1>12, <1>13, <1>14, NodesKept DEF MountInv
<1>16. PICK f \in Frames : f = Frame(x) /\ f.at = x /\ f.kid = 0
  <2>1. x \in Nat
    BY <1>2, <1>8 DEF Frames
  <2>2. Frame(x) \in Frames /\ Frame(x).at = x /\ Frame(x).kid = 0
    BY <2>1 DEF Frame, Frames
  <2> QED BY <2>2
<1>17. /\ Depth' = k + 1 /\ stack'[k + 1] = f
       /\ \A i \in 1 .. k : stack'[i] = stack[i]
  BY <1>4, <1>8, <1>16, PushIs DEF IInv, VarsInv
<1>18. JobsInv'
  <2>1. \A i \in 1 .. Depth : i \in 1 .. Depth' /\ stack'[i].at = stack[i].at
    BY <1>8, <1>17
  <2> QED BY <1>12, <1>14, <2>1, JobsThen DEF MountInv
<1>19. \A i \in 1 .. k : FrameSays(i)'
  <2>1. SameNodes(k)
    <3>1. \A i \in 1 .. k : rn'[stack[i].at] = rn[stack[i].at]
      BY <1>5, <1>7, <1>8, FrameFacts DEF IInv
    <3> QED BY <3>1, Zenon DEF SameNodes
  <2>2. FsRootIs => FsRootIs'
    BY <1>4, <1>12, DirsStay
  <2>3. k \in 0 .. Depth /\ k < Depth'
    BY <1>8, <1>17
  <2> QED BY <1>4, <1>17, <2>1, <2>2, <2>3, LowerSays
<1>20. FrameSays(k + 1)'
  <2>1. Flagged(stack[k + 1].at)'
    BY <1>6, <1>7, <1>16, <1>17 DEF Flagged
  <2>2. JobOK(k + 1)' /\ FsRootOK(k + 1)'
    BY <1>1, <1>4, <1>16, <1>17 DEF JobOK, FsRootOK
  <2> QED BY <2>1, <2>2 DEF FrameSays
<1>21. \A i \in 1 .. Depth' : FrameSays(i)'
  <2>1. \A i \in 1 .. Depth' : i = k + 1 \/ i \in 1 .. k
    BY <1>17
  <2> QED BY <1>19, <1>20, <2>1
<1> QED BY <1>1, <1>4, <1>15, <1>18, <1>21 DEF MountInv

\* A twin is left without a name.
LEMMA TwinMount ==
  ASSUME IInv, TreeInv, MountInv, CastTwin, ~Exit
  PROVE  MountInv'
<1>1. Casting /\ More /\ stack # <<>> /\ status = "building"
  BY DEF CastTwin, Casting, Running
<1>2. PICK x : x = Top.next
  OBVIOUS
<1>3. PICK v : v = [rn[x] EXCEPT !.gen = 1, !.rtype = NextChild.rtype, !.typ = NextChild.typ]
  OBVIOUS
<1>4. /\ rn' = [rn EXCEPT ![x] = v] /\ UNCHANGED <<in, nxt_avail, stack, p_fsroot, status>>
      /\ ret' = NULL /\ caught_in_a_loop'
  BY <1>2, <1>3, Zenon DEF CastTwin, Catch, roots
<1>5. /\ x \in Slots /\ rn[x].nm = NoName /\ rn[x].children = NULL /\ rn[x].rtype = "GUARD"
      /\ \A k \in 1 .. Depth : stack[k].at # x
  BY <1>1, <1>2, NextIn
<1>6. v.nm = NoName /\ v.children = NULL /\ v.rtype # "ROOT"
  <2>1. NodeOK(rn[x])
    BY <1>5 DEF IInv, PoolInv
  <2>2. PICK w, rtype, typ : w = rn[x] /\ rtype = NextChild.rtype /\ typ = NextChild.typ
    OBVIOUS
  <2>3. v = [w EXCEPT !.gen = 1, !.rtype = rtype, !.typ = typ]
    BY <1>3, <2>2
  <2>4. rtype # "ROOT"
    <3>1. Top.kid \in 1 .. NKids(Top.at)
      BY <1>1, NextFree
    <3>2. MayHold(rn[Top.at].rtype, rtype)
      BY <1>1, <2>2, <3>1, NextIs
    <3> QED BY <3>2 DEF MayHold
  <2> QED BY <1>5, <2>1, <2>2, <2>3, <2>4 DEF NodeOK, NodeFields
<1>7. Slots' = Slots /\ rn'[x] = v /\ \A s \in Slots : s # x => rn'[s] = rn[s]
  BY <1>4, <1>5 DEF Slots, IInv, PoolInv
<1>8. Writes(x)
  BY <1>4, <1>5, <1>7 DEF Writes
<1>9. x \notin Dirs'
  BY <1>6, <1>7 DEF Dirs
<1>10. NodesInv'
  <2>1. NodeSays(x)'
    BY <1>6, <1>7 DEF NodeSays, Named
  <2> QED BY <1>5, <1>7, <1>8, <1>9, <2>1, NodesKept DEF MountInv
<1>11. Depth' = Depth
  BY <1>4 DEF Depth
<1>12. JobsInv'
  BY <1>4, <1>8, <1>9, <1>11, JobsThen DEF MountInv
<1>13. PICK k \in Nat : k = Depth /\ k \in 1 .. Depth /\ Top = stack[k] /\ k >= 1 /\ Top \in Frames
  BY <1>1, TopIs DEF IInv, VarsInv
<1>14. SameNodes(k)
  <2>1. \A i \in 1 .. k : rn'[stack[i].at] = rn[stack[i].at]
    BY <1>5, <1>7, <1>13, FrameFacts DEF IInv
  <2> QED BY <2>1, Zenon DEF SameNodes
<1>15. FsRootIs => FsRootIs'
  BY <1>4, <1>8, DirsStay
<1>16. \A i \in 1 .. (k - 1) : FrameSays(i)'
  <2>1. PICK m \in Nat : m = k - 1 /\ m \in 0 .. Depth /\ m < Depth'
    BY <1>11, <1>13
  <2>2. SameNodes(m)
    <3>1. \A i \in 1 .. m : i \in 1 .. k
      BY <1>13, <2>1
    <3> QED BY <1>14, <3>1, Zenon DEF SameNodes
  <2>3. \A i \in 1 .. m : FrameSays(i)'
    BY <1>4, <1>15, <2>1, <2>2, LowerSays
  <2> QED BY <2>1, <2>3
<1>17. FrameSays(k)'
  <2>1. FrameSays(k)
    BY <1>13 DEF MountInv
  <2>2. PICK f \in Frames : f = Top /\ stack[k] = f /\ stack'[k] = f
    BY <1>4, <1>13
  <2>3. rn'[f.at].rtype = rn[f.at].rtype
    BY <1>13, <1>14, <2>2 DEF SameNodes
  <2>4. OfJob(f.at)' = OfJob(f.at) /\ Flagged(f.at)' = Flagged(f.at)
    BY <1>13, <1>14, <2>2, JobsSame
  <2>5. JobOK(k)'
    BY <1>4, <2>1, <2>2, <2>3, <2>4 DEF FrameSays, JobOK
  <2>6. FsRootOK(k)'
    BY <1>4, <1>15, <2>1, <2>2, <2>3 DEF FrameSays, FsRootOK
  <2>7. Flagged(stack[k].at)'
    BY <2>1, <2>2, <2>4 DEF FrameSays
  <2> QED BY <2>5, <2>6, <2>7 DEF FrameSays
<1>18. \A i \in 1 .. Depth' : FrameSays(i)'
  <2>1. \A i \in 1 .. Depth' : i = k \/ i \in 1 .. (k - 1)
    BY <1>11, <1>13
  <2> QED BY <1>16, <1>17, <2>1
<1> QED BY <1>1, <1>4, <1>10, <1>12, <1>18 DEF MountInv

\* A builder returns to the one that called it, which is none of a job's
\* attributes.
LEMMA PopMount ==
  ASSUME IInv, TreeInv, MountInv, stack # <<>>, stack' = Below, NEW k, k = Depth, k > 1,
         NEW x, Writes(x) \/ UNCHANGED <<rn, nxt_avail>>, x \in Dirs' => x \in Dirs,
         \A j \in 1 .. (k - 1) : rn'[stack[j].at] = rn[stack[j].at],
         NodesInv', p_fsroot' = p_fsroot, status' # "mounted", ~OfJob(Top.at),
         NEW g, g = stack[k - 1],
         \/ ret' = NULL /\ (OfJob(g.at) => caught_in_a_loop')
         \/ /\ ret' # NULL /\ (OfJob(g.at) => g.kid # 3)
            /\ rn[g.at].rtype = "JOBID" => g.kid # 2
            /\ rn[g.at].rtype = "ROOT" /\ g.kid = 2 => FsRootIs
  PROVE  MountInv'
<1>1. /\ k \in Nat /\ k \in 1 .. Depth /\ Top = stack[k] /\ Depth' = k - 1
      /\ \A j \in 1 .. (k - 1) : stack'[j] = stack[j]
  BY TopIs DEF IInv, VarsInv, Depth
<1>2. PICK m \in Nat : /\ m = k - 1 /\ m >= 1 /\ m \in 1 .. Depth /\ m \in 0 .. Depth
                       /\ Depth' = m /\ (\A j \in 1 .. m : j \in 1 .. Depth)
  BY <1>1
<1>3. SameNodes(m)
  BY <1>2, Zenon DEF SameNodes
<1>4. FsRootIs => FsRootIs'
  BY DirsStay
<1>5. JobsInv'
  <2>1. ASSUME NEW i \in 1 .. Depth, OfJob(stack[i].at)
        PROVE  \E j \in 1 .. Depth' : stack'[j].at = stack[i].at
    <3>1. i # k
      BY <1>1, <2>1
    <3>2. i \in 1 .. Depth'
      BY <1>1, <1>2, <3>1
    <3> QED BY <1>1, <1>2, <3>2
  <2> QED BY <2>1, JobsThen DEF MountInv
<1>6. \A j \in 1 .. (m - 1) : FrameSays(j)'
  <2>1. PICK n \in Nat : n = m - 1 /\ n \in 0 .. Depth /\ n < Depth'
    <3>1. m - 1 \in Nat /\ m - 1 \in 0 .. k /\ m - 1 < m
      BY <1>1, <1>2
    <3> QED BY <1>2, <3>1, Zenon
  <2>2. \A j \in 1 .. n : j \in 1 .. m
    BY <1>2, <2>1
  <2>3. SameNodes(n)
    BY <1>3, <2>2, Zenon DEF SameNodes
  <2>4. \A j \in 1 .. n : stack'[j] = stack[j]
    BY <1>1, <1>2, <2>2
  <2>5. \A j \in 1 .. n : FrameSays(j)'
    BY <1>4, <2>1, <2>3, <2>4, LowerSays
  <2> QED BY <2>1, <2>5
<1>7. FrameSays(m)'
  <2>1. FrameSays(m)
    BY <1>2 DEF MountInv
  <2>2. PICK f \in Frames : f = g /\ stack[m] = f /\ stack'[m] = f
    BY <1>1, <1>2, ElementOfSeq DEF IInv, VarsInv, Depth
  <2>3. rn'[f.at].rtype = rn[f.at].rtype /\ f.kid \in Nat
    BY <1>2, <2>2 DEF Frames
  <2>4. OfJob(f.at)' = OfJob(f.at) /\ Flagged(f.at)' = Flagged(f.at)
    BY <1>2, <1>3, <2>2, JobsSame
  <2>5. JobOK(m)'
    BY <2>1, <2>2, <2>3, <2>4 DEF FrameSays, JobOK
  <2>6. FsRootOK(m)'
    <3>1. rn[f.at].rtype = "ROOT" /\ f.kid > 2 => FsRootIs
      BY <2>1, <2>2 DEF FrameSays, FsRootOK
    <3>2. rn[f.at].rtype = "ROOT" /\ f.kid = 2 /\ ret' > NULL => FsRootIs
      BY <2>2
    <3>3. rn[f.at].rtype = "CLUSTER" /\ f.kid > 1 => p_fsroot = f.at
      BY <2>1, <2>2 DEF FrameSays, FsRootOK
    <3> QED BY <1>4, <2>2, <2>3, <3>1, <3>2, <3>3 DEF FsRootOK
  <2>7. Flagged(stack[m].at)'
    BY <2>1, <2>2, <2>4 DEF FrameSays
  <2> QED BY <2>5, <2>6, <2>7 DEF FrameSays
<1>8. \A j \in 1 .. Depth' : FrameSays(j)'
  <2>1. \A j \in 1 .. Depth' : j = m \/ j \in 1 .. (m - 1)
    BY <1>2
  <2> QED BY <1>6, <1>7, <2>1
<1> QED BY <1>5, <1>8 DEF MountInv

\* The nodes stay when none is written.
LEMMA NodesStay ==
  ASSUME NodesInv, UNCHANGED <<rn, nxt_avail>>
  PROVE  NodesInv'
<1>1. Slots' = Slots /\ Dirs' = Dirs
  BY Zenon DEF Slots, Dirs
<1>2. \A s : NodeSays(s)' <=> NodeSays(s)
  BY Zenon DEF NodeSays, Named, Flagged
<1>3. \A d : CtlOfRoot(d)' <=> CtlOfRoot(d)
  BY Zenon DEF CtlOfRoot
<1> QED BY <1>1, <1>2, <1>3 DEF NodesInv

\* The end of the process.
LEMMA EndMount ==
  ASSUME MountInv, UNCHANGED <<rn, nxt_avail, stack, ret, caught_in_a_loop, p_fsroot>>,
         status' = "mounted" => status = "mounted"
  PROVE  MountInv'
<1>1. Slots' = Slots /\ Dirs' = Dirs /\ Depth' = Depth
  BY Zenon DEF Slots, Dirs, Depth
<1>2. \A s : NodeSays(s)' <=> NodeSays(s)
  BY Zenon DEF NodeSays, Named, Flagged
<1>3. \A d : (CtlOfRoot(d)' <=> CtlOfRoot(d)) /\ (OfJob(d)' <=> OfJob(d)) /\ (Flagged(d)' <=> Flagged(d))
  BY Zenon DEF CtlOfRoot, OfJob, Flagged
<1>4. JobsInv'
  BY <1>1, <1>3, Zenon DEF JobsInv, MountInv
<1>5. FsRootIs' <=> FsRootIs
  BY <1>1, Zenon DEF FsRootIs
<1>6. ASSUME NEW k \in 1 .. Depth PROVE FrameSays(k)'
  <2>1. FrameSays(k)
    BY DEF MountInv
  <2>2. JobOK(k)'
    BY <1>1, <1>3, <2>1, Zenon DEF JobOK, FrameSays
  <2>3. FsRootOK(k)'
    BY <1>1, <1>5, <2>1, Zenon DEF FsRootOK, FrameSays
  <2>4. Flagged(stack[k].at)'
    BY <1>3, <2>1, Zenon DEF FrameSays
  <2> QED BY <2>2, <2>3, <2>4, Zenon DEF FrameSays
<1>7. NodesInv'
  BY <1>1, <1>2, <1>3, Zenon DEF NodesInv, MountInv
<1> QED BY <1>1, <1>4, <1>5, <1>6, <1>7, Zenon DEF MountInv

\* rn_mkattr() writes its own node and returns it, or crashes in a signature.
LEMMA AttrMount ==
  ASSUME IInv, TreeInv, MountInv, MkAttr
  PROVE  MountInv'
<1>1. PICK at, v : CastsAttr(at, v)
  BY AttrIs
<1>2. /\ at = Top.at /\ at \in Slots /\ stack # <<>> /\ Depth > 1
      /\ rn[at].rtype \in AttrTypes /\ rn[at].children = NULL
      /\ rn'[at] = v /\ \A s \in Slots : s # at => rn'[s] = rn[s]
      /\ v.rtype = rn[at].rtype \/ (rn[at].rtype = "KNOB" /\ v.rtype = "ATTRIBUTE")
      /\ v.nm = rn[at].nm /\ v.parent = rn[at].parent /\ v.children = NULL
      /\ v.isdir = IsDir(v.rtype)
      /\ UNCHANGED <<in, caught_in_a_loop, p_fsroot>> /\ Slots' = Slots
      /\ \/ v.rtype = "SIGNATURE" /\ status' \in {"exited", "crashed"} /\ UNCHANGED <<stack, ret>>
         \/ v.rtype # "SIGNATURE" /\ stack' = Below /\ ret' = at /\ UNCHANGED status
  BY <1>1 DEF CastsAttr
<1>3. PICK k \in Nat : k = Depth /\ k \in 1 .. Depth /\ Top = stack[k] /\ k > 1
  BY <1>2, TopIs DEF IInv, VarsInv
<1>4. PICK g : g = stack[k - 1]
  OBVIOUS
<1>5. Writes(at)
  BY <1>2 DEF Writes, AttrTypes, AttrSubtypes
<1>6. at \notin Dirs' /\ at # NULL
  BY <1>2 DEF Dirs, Slots
<1>7. /\ rn[g.at].rtype = "ROOT" => g.kid # 2
      /\ rn[g.at].rtype = "JOBID" => g.kid # 2
      /\ OfJob(g.at) /\ g.kid = 3 => rn[at].rtype = "SIGNATURE"
      /\ ~OfJob(at) /\ rn[at].rtype # "ROOT" /\ rn[at].parent = g.at
      /\ MayHold(rn[g.at].rtype, rn[at].rtype)
  BY <1>2, <1>3, <1>4, CalledAs, CalledFrom DEF OfJob, AttrTypes, AttrSubtypes
<1>8. \A j \in 1 .. (k - 1) : /\ j \in 1 .. Depth /\ stack[j].at # at
                              /\ rn'[stack[j].at] = rn[stack[j].at]
  <2>1. \A j \in 1 .. (k - 1) : j \in 1 .. Depth /\ j < k
    BY <1>3
  <2>2. \A j \in 1 .. (k - 1) : stack[j].at < at /\ stack[j].at \in Int /\ stack[j].at \in Slots
    BY <1>2, <1>3, <2>1, FrameFacts DEF IInv, OrderInv, OrderOK, Slots, PoolInv
  <2> QED BY <1>2, <2>1, <2>2
<1>9. NodeSays(at)'
  <2>1. NodeSays(at)
    BY <1>2 DEF MountInv, NodesInv
  <2>2. v.rtype # "ROOT"
    BY <1>2, <1>7 DEF AttrTypes, AttrSubtypes
  <2>3. ASSUME rn[at].nm # NoName, v.rtype = "CONTEXT"
        PROVE  rn'[rn[g.at].parent].rtype \in {"ROOT", "JOBID"}
    <3>1. rn[rn[g.at].parent].rtype \in {"ROOT", "JOBID"}
      BY <1>2, <1>7, <2>1, <2>3 DEF NodeSays, Named
    <3>2. rn[g.at].rtype = "ATTRIBUTES"
      BY <1>2, <1>7, <2>3 DEF MayHold
    <3>3. k - 1 \in 1 .. Depth /\ k - 1 > 1
      <4>1. k - 1 \in 1 .. Depth
        BY <1>3
      <4> QED BY <1>4, <3>2, <4>1 DEF IInv, FrameInv, FrameOK
    <3>4. /\ rn[g.at].parent = stack[(k - 1) - 1].at /\ (k - 1) - 1 \in 1 .. (k - 1)
      BY <1>4, <3>3, CalledFrom
    <3> QED BY <1>8, <3>1, <3>4
  <2>4. rn'[g.at] = rn[g.at]
    BY <1>3, <1>4, <1>8
  <2>5. Flagged(at)'
    BY <1>2 DEF Flagged
  <2> QED BY <1>2, <1>7, <2>2, <2>3, <2>4, <2>5 DEF NodeSays, Named
<1>10. NodesInv'
  BY <1>2, <1>5, <1>6, <1>9, NodesKept DEF MountInv
<1>11. status # "mounted"
  BY <1>1 DEF CastsAttr, Building
<1>12. CASE v.rtype # "SIGNATURE"
  <2>1. stack' = Below /\ ret' # NULL /\ status' # "mounted"
    BY <1>2, <1>6, <1>11, <1>12
  <2>2. OfJob(g.at) => g.kid # 3
    BY <1>2, <1>7, <1>12
  <2> QED BY <1>2, <1>3, <1>4, <1>5, <1>6, <1>7, <1>8, <1>10, <2>1, <2>2, PopMount
<1>13. CASE v.rtype = "SIGNATURE"
  <2>1. status' # "mounted" /\ stack' = stack /\ ret' = ret /\ Depth' = Depth
    BY <1>2, <1>13 DEF Depth
  <2>2. JobsInv'
    BY <1>5, <1>6, <2>1, JobsThen DEF MountInv
  <2>3. \A i \in 1 .. (k - 1) : FrameSays(i)'
    <3>1. PICK m \in Nat : m = k - 1 /\ m \in 0 .. Depth /\ m < Depth'
      BY <1>3, <2>1
    <3>2. SameNodes(m)
      BY <1>8, <3>1, Zenon DEF SameNodes
    <3>3. FsRootIs => FsRootIs'
      BY <1>2, <1>5, DirsStay
    <3>4. \A i \in 1 .. m : FrameSays(i)'
      BY <1>2, <2>1, <3>1, <3>2, <3>3, LowerSays
    <3> QED BY <3>1, <3>4
  <2>4. FrameSays(k)'
    <3>1. stack'[k].at = at
      BY <1>2, <1>3, <2>1
    <3>2. Flagged(at)'
      BY <1>2 DEF Flagged
    <3>3. rn'[at].rtype = "SIGNATURE"
      BY <1>2, <1>13
    <3> QED BY <3>1, <3>2, <3>3 DEF FrameSays, JobOK, FsRootOK, OfJob
  <2>5. \A i \in 1 .. Depth' : FrameSays(i)'
    <3>1. \A i \in 1 .. Depth' : i = k \/ i \in 1 .. (k - 1)
      BY <1>3, <2>1
    <3> QED BY <2>3, <2>4, <3>1
  <2> QED BY <1>10, <2>1, <2>2, <2>5 DEF MountInv
<1> QED BY <1>12, <1>13

\* A builder gives up, or the process ends.
LEMMA FailMount ==
  ASSUME IInv, TreeInv, MountInv, NEW sev, Fail(sev), stack # <<>>, status = "building",
         OfJob(Top.at) => Exit, ~OfJob(stack[Depth - 1].at)
  PROVE  MountInv'
<1>1. CASE Exit
  BY <1>1, EndMount DEF Exit, pool, roots
<1>2. CASE ~Exit
  <2>1. /\ Below # <<>> /\ Catch(sev) /\ stack' = Below /\ ret' = NULL
        /\ UNCHANGED <<rn, nxt_avail, p_fsroot, status>>
    BY <1>2 DEF Fail, pool, roots
  <2>2. PICK k \in Nat : k = Depth /\ k \in 1 .. Depth /\ Top = stack[k] /\ k > 1
    BY <2>1, TopIs DEF IInv, VarsInv
  <2>3. PICK g : g = stack[k - 1]
    OBVIOUS
  <2>4. ~OfJob(g.at)
    BY <2>2, <2>3
  <2>5. NodesInv'
    BY <2>1, NodesStay DEF MountInv
  <2>6. NULL \in Dirs' => NULL \in Dirs
    BY <2>1, DirsStay
  <2> QED BY <1>2, <2>1, <2>2, <2>3, <2>4, <2>5, <2>6, PopMount
<1> QED BY <1>1, <1>2

\* The checks that may fail are those of directories of records.
LEMMA RefuseMount ==
  ASSUME IInv, TreeInv, MountInv, Refuse
  PROVE  MountInv'
<1>1. stack # <<>> /\ status = "building" /\ Check(Top.at) # "OK" /\ Fail(Check(Top.at))
  BY DEF Refuse, Entered, Running
<1>2. PICK k \in Nat : k = Depth /\ k \in 1 .. Depth /\ Top = stack[k]
  BY <1>1, TopIs DEF IInv, VarsInv
<1>3. rn[Top.at].rtype \in BuiltTypes
  BY <1>2, FrameFacts DEF IInv
<1>4. Row(rn[Top.at].rtype) \in {"PARTS", "NODES", "JOBS", "JOBSTEPS"}
  BY <1>1, Zenon DEF Check
<1>5. rn[Top.at].rtype \notin AttrTypes \cup {"ATTRIBUTES", "ROOT"}
  BY <1>3, <1>4, BuiltRows DEF AttrTypes, AttrSubtypes
<1>6. k > 1
  BY <1>2, <1>5 DEF IInv, FrameInv, FrameOK
<1>7. ~OfJob(stack[k - 1].at)
  BY <1>2, <1>5, <1>6, CalledAs
<1> QED BY <1>1, <1>2, <1>5, <1>7, FailMount DEF OfJob

\* A builder goes on to its next child.
LEMMA AdvanceMount ==
  ASSUME IInv, TreeInv, MountInv, stack # <<>>, status = "building", ret # Pending, NEW nx \in Nat,
         SetTop(Advanced(Top, nx)), ret' = Pending, UNCHANGED <<rn, nxt_avail, status>>,
         OfJob(Top.at) => Top.kid # 3, rn[Top.at].rtype = "JOBID" => Top.kid # 2,
         rn[Top.at].rtype = "ROOT" => ret > NULL,
         p_fsroot' = IF rn[Top.at].rtype \in {"ROOT", "CLUSTER"} /\ Top.kid = 1
                     THEN Top.at ELSE p_fsroot
  PROVE  MountInv'
<1>1. PICK k \in Nat : k = Depth /\ k \in 1 .. Depth /\ Top = stack[k] /\ k >= 1 /\ Top \in Frames
  BY TopIs DEF IInv, VarsInv
<1>2. PICK f \in Frames : f = Advanced(Top, nx) /\ f.at = Top.at /\ f.kid = Top.kid + 1
  BY <1>1, FrameStep
<1>3. SetTop(f)
  BY <1>2, Zenon
<1>4. Depth' = k /\ stack'[k] = f /\ \A j \in 1 .. (k - 1) : stack'[j] = stack[j]
  BY <1>1, <1>3, SetTopIs DEF IInv, VarsInv
<1>5. Top.kid \in Nat /\ Top.kid > 0
  BY <1>1 DEF IInv, RetInv, Building, Frames
<1>6. SameNodes(k)
  BY Zenon DEF SameNodes
<1>7. NodesInv'
  BY NodesStay DEF MountInv
<1>8. JobsInv'
  <2>1. NULL \in Dirs' => NULL \in Dirs
    BY DirsStay
  <2>2. \A i \in 1 .. Depth : i \in 1 .. Depth' /\ stack'[i].at = stack[i].at
    <3>1. \A i \in 1 .. Depth : i = k \/ i \in 1 .. (k - 1)
      BY <1>1
    <3> QED BY <1>1, <1>2, <1>4, <3>1
  <2> QED BY <2>1, <2>2, JobsThen DEF MountInv
<1>9. rn[Top.at].rtype = "CLUSTER" /\ Top.kid = 1 => FsRootIs'
  <2> SUFFICES ASSUME rn[Top.at].rtype = "CLUSTER", Top.kid = 1 PROVE FsRootIs'
    OBVIOUS
  <2>1. Top.at \in Dirs
    BY <1>1, <1>5, ListLengths
  <2>2. Top.at \in Dirs' /\ rn'[Top.at].rtype = "CLUSTER"
    BY <2>1, DirsStay
  <2> QED BY <2>2 DEF FsRootIs
<1>10. FsRootIs /\ p_fsroot' = p_fsroot => FsRootIs'
  BY DirsStay
<1>11. \A i \in 1 .. (k - 1) : FrameSays(i)'
  <2>1. CASE k = 1
    BY <2>1
  <2>2. CASE k > 1
    <3>1. PICK m \in Nat : m = k - 1 /\ m \in 0 .. Depth /\ m < Depth'
      BY <1>1, <1>4, <2>2
    <3>2. SameNodes(m)
      BY Zenon DEF SameNodes
    <3>3. rn[Top.at].rtype # "ROOT" /\ (rn[Top.at].rtype = "CLUSTER" => m = 1)
      <4>1. rn[Top.at].rtype # "ROOT" /\ (rn[Top.at].rtype = "CLUSTER" => rn[stack[k - 1].at].rtype = "ROOT")
        BY <1>1, <2>2, CalledAs
      <4>2. m > 1 => rn[stack[m].at].rtype # "ROOT"
        <5>1. m \in 1 .. Depth
          BY <1>1, <2>2, <3>1
        <5> QED BY <5>1, CalledAs
      <4> QED BY <2>2, <3>1, <4>1, <4>2
    <3>4. p_fsroot' = p_fsroot \/ (m = 1 /\ FsRootIs')
      BY <1>9, <3>3
    <3>5. FsRootIs => FsRootIs'
      BY <1>10, <3>4
    <3>6. \A i \in 1 .. m : FrameSays(i)'
      BY <1>4, <3>1, <3>2, <3>4, <3>5, LowerSays
    <3> QED BY <3>1, <3>6
  <2> QED BY <1>1, <2>1, <2>2
<1>12. FrameSays(k)'
  <2>1. FrameSays(k)
    BY <1>1 DEF MountInv
  <2>2. rn'[f.at].rtype = rn[f.at].rtype /\ f.kid \in Nat
    BY DEF Frames
  <2>3. OfJob(f.at)' = OfJob(f.at) /\ Flagged(f.at)' = Flagged(f.at)
    BY <1>1, <1>2, <1>6, JobsSame
  <2>4. JobOK(k)'
    BY <1>1, <1>2, <1>4, <1>5, <2>1, <2>2, <2>3 DEF FrameSays, JobOK
  <2>5. FsRootOK(k)'
    <3>1. rn[f.at].rtype = "CLUSTER" => p_fsroot' = f.at
      BY <1>1, <1>2, <1>5, <2>1 DEF FrameSays, FsRootOK
    <3>2. rn[f.at].rtype = "ROOT" /\ f.kid > 2 => FsRootIs'
      <4>1. rn[f.at].rtype = "ROOT" /\ f.kid > 2 => FsRootIs /\ p_fsroot' = p_fsroot
        BY <1>1, <1>2, <1>5, <2>1 DEF FrameSays, FsRootOK
      <4> QED BY <1>10, <4>1
    <3> QED BY <1>4, <2>2, <3>1, <3>2 DEF FsRootOK
  <2>6. Flagged(stack[k].at)'
    BY <1>1, <1>2, <1>4, <2>1, <2>3 DEF FrameSays
  <2> QED BY <2>4, <2>5, <2>6 DEF FrameSays
<1>13. \A i \in 1 .. Depth' : FrameSays(i)'
  <2>1. \A i \in 1 .. Depth' : i = k \/ i \in 1 .. (k - 1)
    BY <1>4
  <2> QED BY <1>11, <1>12, <2>1
<1> QED BY <1>7, <1>8, <1>13 DEF MountInv

\* A child was not built: the builder goes on, in the directory of jobs, or
\* gives up.
LEMMA ChildFailsMount ==
  ASSUME IInv, TreeInv, MountInv, ChildFails
  PROVE  MountInv'
<1>1. stack # <<>> /\ status = "building" /\ ret = NULL /\ ret # Pending
  BY DEF ChildFails, Running
<1>2. PICK k \in Nat : k = Depth /\ k \in 1 .. Depth /\ Top = stack[k] /\ Top \in Frames
  BY <1>1, TopIs DEF IInv, VarsInv
<1>3. Top.kid > 0 /\ Top.kid \in 1 .. NKids(Top.at)
  <2>1. Top.kid > 0 /\ Top.kid <= NKids(Top.at) /\ Top.kid \in Nat
    BY <1>1, <1>2 DEF IInv, RetInv, Building, Frames
  <2>2. NKids(Top.at) \in Nat
    BY <1>2, FrameFacts DEF IInv
  <2> QED BY <2>1, <2>2
<1>4. CASE NextChild.onNull = "CONTINUE"
  <2>1. /\ SetTop([Top EXCEPT !.kid = @ + 1, !.next = @ + 1]) /\ ret' = Pending
        /\ UNCHANGED <<rn, nxt_avail, p_fsroot, status>>
    BY <1>4, Zenon DEF ChildFails, pool, roots
  <2>2. PICK nx \in Nat : nx = Top.next + 1
    BY <1>2 DEF Frames
  <2>3. SetTop(Advanced(Top, nx))
    BY <2>1, <2>2, Zenon DEF Advanced
  <2>4. rn[Top.at].rtype = "JOBS"
    BY <1>1, <1>3, <1>4, NextIs
  <2> QED BY <1>1, <2>1, <2>2, <2>3, <2>4, AdvanceMount DEF OfJob
<1>5. CASE NextChild.onNull # "CONTINUE"
  <2>1. Fail(NextChild.onNull)
    BY <1>5, Zenon DEF ChildFails
  <2>2. OfJob(Top.at) => Exit
    <3> SUFFICES ASSUME OfJob(Top.at) PROVE Exit
      OBVIOUS
    <3>1. NextChild.onNull = "ASSERT"
      BY <1>3, JobAttrs DEF NextChild, IInv, PoolInv
    <3>2. caught_in_a_loop
      BY <1>1, <1>2 DEF MountInv, FrameSays, JobOK
    <3>3. ~Returns("ASSERT")
      BY <3>2 DEF Returns
    <3> QED BY <2>1, <3>1, <3>3 DEF Fail
  <2>3. CASE Below = <<>>
    <3>1. Exit
      BY <2>1, <2>3 DEF Fail
    <3> QED BY <3>1, EndMount DEF Exit, pool, roots
  <2>4. CASE Below # <<>>
    <3>1. k > 1
      BY <1>1, <1>2, <2>4, TopIs DEF IInv, VarsInv
    <3>2. ~OfJob(stack[k - 1].at)
      <4>1. rn[Top.at].rtype \notin AttrTypes
        BY <1>2, <1>3, ListLengths
      <4> QED BY <1>2, <3>1, <4>1, CalledAs
    <3> QED BY <1>1, <1>2, <2>1, <2>2, <3>2, FailMount
  <2> QED BY <2>3, <2>4
<1> QED BY <1>4, <1>5

\* A child was built, which no job's attributes, nor those of them, have as
\* their last.
LEMMA ChildBuiltMount ==
  ASSUME IInv, TreeInv, MountInv, ChildBuilt
  PROVE  MountInv'
<1>1. /\ stack # <<>> /\ status = "building" /\ ret > NULL /\ ret # Pending /\ ret' = Pending
      /\ UNCHANGED <<rn, nxt_avail, status>>
      /\ p_fsroot' = IF rn[Top.at].rtype \in {"ROOT", "CLUSTER"} /\ Top.kid = 1
                     THEN Top.at ELSE p_fsroot
  BY DEF ChildBuilt, Running, pool
<1>2. SetTop(Advanced(Top, NextSlot))
  BY Zenon DEF ChildBuilt, Advanced
<1>3. PICK nx \in Nat : nx = NextSlot
  BY <1>1, NextSlotIs DEF Building
<1>4. PICK k \in Nat : k = Depth /\ k \in 1 .. Depth /\ Top = stack[k]
  BY <1>1, TopIs DEF IInv, VarsInv
<1>5. /\ OfJob(Top.at) => Top.kid # 3
      /\ rn[Top.at].rtype = "JOBID" => Top.kid # 2
  <2>1. ~(ret <= NULL)
    BY <1>1 DEF IInv, VarsInv, Slots, PoolInv
  <2> QED BY <1>4, <2>1 DEF MountInv, FrameSays, JobOK
<1> QED BY <1>1, <1>2, <1>3, <1>5, AdvanceMount

\* A builder returns, and the root's mounts the tree.
LEMMA ReturnMount ==
  ASSUME IInv, TreeInv, MountInv, Return
  PROVE  MountInv'
<1>1. /\ stack # <<>> /\ status = "building" /\ Top.kid > 0 /\ stack' = Below
      /\ ~(Top.kid <= Len(Children(Top.at)))
      /\ ret' = IF Row(rn[Top.at].rtype) = "NODESTATE" THEN Top.blk ELSE Top.at
      /\ status' = IF Below = <<>> THEN "mounted" ELSE status
      /\ UNCHANGED <<rn, nxt_avail, p_fsroot>>
  BY DEF Return, Casting, Running, More, pool
<1>2. PICK k \in Nat : k = Depth /\ k \in 1 .. Depth /\ Top = stack[k] /\ Top \in Frames
  BY <1>1, TopIs DEF IInv, VarsInv
<1>3. Top.kid \in Nat /\ Top.kid > NKids(Top.at)
  <2>1. NKids(Top.at) \in Nat /\ Top.kid \in Nat
    BY <1>2, FrameFacts DEF IInv, Frames
  <2> QED BY <1>1, <2>1 DEF NKids
<1>4. ~OfJob(Top.at)
  <2>1. OfJob(Top.at) => NKids(Top.at) = 3
    BY <1>2, ListLengths
  <2>2. OfJob(Top.at) => Top.kid <= 3
    BY <1>2 DEF MountInv, FrameSays, JobOK
  <2> QED BY <1>3, <2>1, <2>2
<1>5. NodesInv'
  BY <1>1, NodesStay DEF MountInv
<1>6. NULL \in Dirs' => NULL \in Dirs
  BY <1>1, DirsStay
<1>7. ASSUME k = 1 PROVE MountInv'
  <2>1. stack' = <<>> /\ Depth' = 0
    <3>1. Below = <<>>
      BY <1>1, <1>2, <1>7, TopIs DEF IInv, VarsInv
    <3> QED BY <1>1, <3>1 DEF Depth
  <2>2. rn[Top.at].rtype = "ROOT"
    BY <1>2, <1>7 DEF IInv, FrameInv, FrameOK
  <2>3. NKids(Top.at) = 3
    BY <1>2, <2>2, ListLengths
  <2>4. FsRootIs
    BY <1>2, <1>3, <2>2, <2>3 DEF MountInv, FrameSays, FsRootOK
  <2>5. FsRootIs'
    BY <1>1, <2>4, DirsStay
  <2>6. JobsInv'
    <3>1. \A j \in 1 .. Depth : ~OfJob(stack[j].at)
      BY <1>2, <1>4, <1>7
    <3> QED BY <1>1, <1>6, <3>1, JobsThen DEF MountInv
  <2> QED BY <1>5, <2>1, <2>5, <2>6 DEF MountInv
<1>8. ASSUME k > 1 PROVE MountInv'
  <2>1. PICK g : g = stack[k - 1]
    OBVIOUS
  <2>2. ret' # NULL
    <3>1. Top.at \in Slots /\ Top.at < Top.blk /\ Top.blk \in Nat
      BY <1>1, <1>2 DEF IInv, FrameInv, FrameOK, BlockInv, BlockOK, Frames
    <3>2. Top.at > 0 /\ Top.blk > 0
      BY <3>1 DEF Slots
    <3> QED BY <1>1, <3>2
  <2>3. ~OfJob(g.at)
    <3>1. rn[Top.at].rtype \notin AttrTypes
      BY <1>1, <1>2, ListLengths
    <3> QED BY <1>2, <1>8, <2>1, <3>1, CalledAs
  <2>4. rn[g.at].rtype = "JOBID" => g.kid # 2
    BY <1>2, <1>4, <1>8, <2>1, CalledAs
  <2>5. ASSUME rn[g.at].rtype = "ROOT", g.kid = 2 PROVE FsRootIs
    <3>1. rn[Top.at].rtype = "CLUSTER"
      BY <1>2, <1>8, <2>1, <2>5, CalledAs
    <3>2. NKids(Top.at) = 3 /\ Top.at \in Dirs
      BY <1>1, <1>2, <3>1, ListLengths
    <3>3. p_fsroot = Top.at
      BY <1>2, <1>3, <3>1, <3>2 DEF MountInv, FrameSays, FsRootOK
    <3> QED BY <3>1, <3>2, <3>3 DEF FsRootIs
  <2>6. status' # "mounted"
    <3>1. Below # <<>>
      BY <1>1, <1>2, <1>8, TopIs DEF IInv, VarsInv
    <3> QED BY <1>1, <3>1
  <2> QED BY <1>1, <1>2, <1>4, <1>5, <1>6, <1>8, <2>1, <2>2, <2>3, <2>4, <2>5, <2>6, PopMount
<1>9. k = 1 \/ k > 1
  BY <1>2
<1> QED BY <1>7, <1>8, <1>9

\* A builder points its node to a block.
LEMMA ProvisionMount ==
  ASSUME IInv, TreeInv, MountInv, Provision, ~Exit
  PROVE  MountInv'
<1> PICK at, up0 : \E n, k, b, m \in Nat : Provisions(at, n, up0, k, b, m)
  BY ProvisionIs
<1>1. PICK n, k, b, m \in Nat : Provisions(at, n, up0, k, b, m)
  OBVIOUS
<1>2. /\ at = Top.at /\ at \in Slots /\ stack # <<>> /\ in' = in /\ ret = Pending
      /\ k \in 1 .. Depth /\ k = Depth /\ k > 1 /\ Top = stack[k] /\ Top \in Frames
      /\ rn[at].rtype \in BuiltTypes \ ({"ROOT"} \cup AttrTypes)
      /\ rn[at].children = NULL /\ NodeOK(rn[at]) /\ NKids(at) = n /\ Building
      /\ SetTop([at |-> at, blk |-> b, next |-> b, kid |-> 1])
      /\ UNCHANGED <<ret, caught_in_a_loop, p_fsroot, status>>
  BY <1>1 DEF Provisions
<1>3. /\ \A s \in Slots : s \in Slots' /\ (s # at => rn'[s] = rn[s])
      /\ \A s \in b .. (b + n) : rn'[s] = Guard(up0)
      /\ \A s \in Slots' : s \in Slots \/ s \in b .. (b + n)
      /\ rn[at].rtype = "ALLOCJOB" => rn'[at] = rn[at]
      /\ rn[at].rtype # "ALLOCJOB" => rn'[at] = Recast(at)
  BY <1>1 DEF Provisions
<1>4. \A s \in b .. (b + n) : rn'[s].nm = NoName /\ rn'[s].children = NULL /\ rn'[s].rtype # "ROOT"
  BY <1>3 DEF Guard
<1>5. PICK v : v = rn'[at]
  OBVIOUS
<1>6. v.rtype = rn[at].rtype /\ v.parent = rn[at].parent /\ v.isdir = rn[at].isdir
  <2>1. CASE rn[at].rtype = "ALLOCJOB"
    BY <1>3, <1>5, <2>1
  <2>2. CASE rn[at].rtype # "ALLOCJOB"
    <3>1. DOMAIN rn[at] = {"rtype", "gen", "nm", "typ", "dyn", "parent", "children", "n", "isdir"}
      BY <1>2 DEF NodeOK, NodeFields
    <3>2. /\ Recast(at).rtype = rn[at].rtype /\ Recast(at).parent = rn[at].parent
          /\ Recast(at).isdir = rn[at].isdir
      BY <1>2, <3>1, RecastIs
    <3> QED BY <1>3, <1>5, <2>2, <3>2
  <2> QED BY <2>1, <2>2
<1>7. Writes(at)
  BY <1>2, <1>3, <1>4 DEF Writes
<1>8. \A j \in 1 .. (k - 1) : stack[j].at # at /\ rn'[stack[j].at] = rn[stack[j].at]
  <2>1. \A j \in 1 .. (k - 1) : j \in 1 .. Depth /\ j < k
    BY <1>2
  <2>2. \A j \in 1 .. (k - 1) : stack[j].at \in Slots
    BY <2>1, FrameFacts DEF IInv
  <2>3. at = stack[k].at
    BY <1>2
  <2>4. \A j \in 1 .. (k - 1) : stack[j].at < at
    BY <1>2, <2>1, <2>3 DEF IInv, OrderInv, OrderOK
  <2>5. \A j \in 1 .. (k - 1) : stack[j].at \in Int
    BY <2>2 DEF Slots, IInv, PoolInv
  <2>6. at \in Int
    BY <1>2 DEF Slots, IInv, PoolInv
  <2> QED BY <1>3, <2>2, <2>4, <2>5, <2>6
<1>9. SameNodes(k)
  <2>1. ASSUME NEW j \in 1 .. k
        PROVE  LET old == rn[stack[j].at] new == rn'[stack[j].at]
               IN new.rtype = old.rtype /\ new.parent = old.parent /\ new.isdir = old.isdir
    <3>1. CASE j = k
      BY <1>2, <1>5, <1>6, <3>1
    <3>2. CASE j # k
      <4>1. j \in 1 .. (k - 1)
        BY <3>2
      <4> QED BY <1>8, <4>1
    <3> QED BY <3>1, <3>2
  <2> QED BY <2>1 DEF SameNodes
<1>10. FrameSays(k)
  BY <1>2 DEF MountInv
<1>11. (Flagged(at)' <=> Flagged(at)) /\ (OfJob(at)' <=> OfJob(at)) /\ Flagged(at)
  BY <1>2, <1>9, <1>10, JobsSame DEF FrameSays
<1>12. PICK g : g = stack[k - 1]
  OBVIOUS
<1>13. rn[at].parent = g.at /\ MayHold(rn[g.at].rtype, rn[at].rtype) /\ k - 1 \in 1 .. Depth
  BY <1>2, <1>12, CalledFrom
<1>14. NodesInv'
  <2>1. NodeSays(at)'
    <3>1. v.rtype \notin {"ROOT", "CONTEXT"}
      BY <1>2, <1>6 DEF AttrTypes, AttrSubtypes
    <3> QED BY <1>5, <1>11, <3>1 DEF NodeSays
  <2>2. CtlOfRoot(at)'
    <3> SUFFICES ASSUME v.rtype = "CONTROL" PROVE rn'[v.parent].rtype = "ROOT"
      BY <1>5 DEF CtlOfRoot
    <3>1. rn[at].rtype = "CONTROL"
      BY <1>6
    <3>2. rn[g.at].rtype = "JOBID" => g.kid = 3
      BY <1>2, <1>12, <3>1, CalledAs
    <3>3. rn[g.at].rtype = "JOBID" => g.kid <= 2
      BY <1>12, <1>13 DEF MountInv, FrameSays, JobOK
    <3>4. rn[g.at].rtype = "ROOT"
      <4>1. rn[g.at].rtype # "JOBID"
        BY <3>2, <3>3
      <4> QED BY <1>13, <3>1, <4>1 DEF MayHold
    <3>5. rn'[g.at] = rn[g.at]
      BY <1>2, <1>8, <1>12
    <3> QED BY <1>6, <1>13, <3>4, <3>5
  <2>3. \A s \in Slots' : s \in Slots \/ rn'[s].rtype # "ROOT"
    BY <1>3, <1>4
  <2> QED BY <1>2, <1>7, <2>1, <2>2, <2>3, NodesKept DEF MountInv
<1>15. PICK f \in Frames : f = [at |-> at, blk |-> b, next |-> b, kid |-> 1] /\ f.at = at /\ f.kid = 1
  <2>1. at \in Nat
    BY <1>2 DEF Frames
  <2>2. LET h == [at |-> at, blk |-> b, next |-> b, kid |-> 1] IN h \in Frames /\ h.at = at /\ h.kid = 1
    BY <2>1 DEF Frames
  <2> QED BY <2>2
<1>16. Depth' = k /\ stack'[k] = f /\ \A j \in 1 .. (k - 1) : stack'[j] = stack[j]
  <2>1. SetTop(f)
    BY <1>2, <1>15, Zenon
  <2> QED BY <1>2, <2>1, SetTopIs DEF IInv, VarsInv
<1>17. JobsInv'
  <2>1. \A j \in 1 .. Depth : j \in 1 .. Depth' /\ stack'[j].at = stack[j].at
    <3>1. \A j \in 1 .. Depth : j = k \/ j \in 1 .. (k - 1)
      BY <1>2
    <3> QED BY <1>2, <1>15, <1>16, <3>1
  <2> QED BY <1>2, <1>7, <2>1, JobsThen DEF MountInv
<1>18. \A j \in 1 .. (k - 1) : FrameSays(j)'
  <2>1. PICK l \in Nat : l = k - 1 /\ l \in 0 .. Depth /\ l < Depth'
    BY <1>2, <1>16
  <2>2. SameNodes(l)
    <3>1. \A j \in 1 .. l : j \in 1 .. k
      BY <2>1
    <3> QED BY <1>9, <3>1, Zenon DEF SameNodes
  <2>3. FsRootIs => FsRootIs'
    BY <1>2, <1>7, DirsStay
  <2>4. \A j \in 1 .. l : FrameSays(j)'
    BY <1>2, <1>16, <2>1, <2>2, <2>3, LowerSays
  <2> QED BY <2>1, <2>4
<1>19. FrameSays(k)'
  <2>1. JobOK(k)'
    BY <1>2, <1>15, <1>16 DEF JobOK
  <2>2. FsRootOK(k)'
    BY <1>15, <1>16 DEF FsRootOK
  <2>3. Flagged(stack[k].at)'
    BY <1>11, <1>15, <1>16
  <2> QED BY <2>1, <2>2, <2>3 DEF FrameSays
<1>20. \A j \in 1 .. Depth' : FrameSays(j)'
  <2>1. \A j \in 1 .. Depth' : j = k \/ j \in 1 .. (k - 1)
    BY <1>16
  <2> QED BY <1>18, <1>19, <2>1
<1> QED BY <1>2, <1>14, <1>17, <1>20 DEF MountInv, Building

\* rn_mkfsroot() makes the first node.
LEMMA RootMount ==
  ASSUME IInv, MkFsRoot, ~Exit
  PROVE  MountInv'
<1>1. PICK b \in Nat : \E node : RootMade(b, node)
  BY RootIs
<1>2. PICK node : RootMade(b, node)
  BY <1>1
<1>3. /\ b = BaseAlloc /\ b > 0 /\ Slots' = b .. (b + 4) /\ rn'[b] = node
      /\ node.rtype = "ROOT" /\ node.children = b + 1 /\ node.isdir = TRUE
      /\ stack' = <<[at |-> b, blk |-> b + 1, next |-> b + 1, kid |-> 1]>>
      /\ status' = "building"
  BY <1>2 DEF RootMade, Building
<1>4. \A s \in (b + 1) .. (b + 4) : rn'[s].nm = NoName /\ rn'[s].children = NULL /\ rn'[s].rtype = "GUARD"
  BY <1>2 DEF RootMade, Guard
<1>5. \A s \in Slots' : s = b \/ s \in (b + 1) .. (b + 4)
  BY <1>3
<1>6. Flagged(b)'
  <2>1. Row("ROOT") = "ROOT"
    BY BuiltRows DEF BuiltTypes
  <2>2. IsDir("ROOT") = TRUE
    BY <2>1 DEF IsDir, FileTypes, AttrTypes, AttrSubtypes
  <2> QED BY <1>3, <2>2 DEF Flagged
<1>7. \A s \in Slots' : NodeSays(s)'
  <2>1. NodeSays(b)'
    BY <1>3, <1>6 DEF NodeSays
  <2>2. ASSUME NEW s \in (b + 1) .. (b + 4) PROVE NodeSays(s)'
    BY <1>4 DEF NodeSays, Named
  <2> QED BY <1>5, <2>1, <2>2
<1>8. \A d \in Dirs' : d = b
  BY <1>4, <1>5 DEF Dirs
<1>9. \A s : s = b => CtlOfRoot(s)' /\ ~OfJob(s)'
  BY <1>3 DEF CtlOfRoot, OfJob
<1>10. Depth' = 1 /\ stack'[1].at = b /\ stack'[1].kid = 1
  BY <1>3 DEF Depth
<1>11. FrameSays(1)'
  BY <1>3, <1>6, <1>9, <1>10 DEF FrameSays, JobOK, FsRootOK
<1>12. \A k \in 1 .. Depth' : k = 1
  BY <1>10
<1>13. NodesInv'
  BY <1>7, <1>8, <1>9 DEF NodesInv
<1>14. JobsInv'
  BY <1>8, <1>9 DEF JobsInv
<1> QED BY <1>3, <1>11, <1>12, <1>13, <1>14 DEF MountInv

\* Every step of mk_fs() keeps what is needed for the mount.
LEMMA NextMount == IInv /\ TreeInv /\ MountInv /\ [Next]_vars => MountInv'
<1> SUFFICES ASSUME IInv, TreeInv, MountInv, [Next]_vars PROVE MountInv'
  OBVIOUS
<1>1. CASE Exit
  BY <1>1, EndMount DEF Exit, pool, roots
<1>2. CASE UNCHANGED vars
  BY <1>2, EndMount DEF vars
<1>3. CASE ~Exit /\ Next
  <2>1. ~RefuseAttr
    BY <1>3 DEF RefuseAttr
  <2>2. Ended => MountInv'
    BY <1>2 DEF Ended
  <2> QED BY <1>3, <2>1, <2>2, RootMount, RefuseMount, ProvisionMount, AttrMount, CastMount,
             TwinMount, ChildFailsMount, ChildBuiltMount, ReturnMount DEF Next, Build
<1> QED BY <1>1, <1>2, <1>3

\* Before mk_fs() runs there is nothing to mount.
LEMMA InitMount == Init => MountInv
<1> SUFFICES ASSUME Init PROVE MountInv
  OBVIOUS
<1>1. Slots = {} /\ Dirs = {} /\ Depth = 0 /\ status = "building"
  BY DEF Init, Slots, Dirs, Depth
<1> QED BY <1>1 DEF MountInv, NodesInv, JobsInv

\* The invariant holds of every run of mk_fs().
THEOREM MountInvariant == Spec => []MountInv
  BY Invariant, TreeInvariant, InitMount, NextMount, PTL DEF Spec

-----------------------------------------------------------------------------
(* The name of the file system's root *)

\* A cluster that has a block has been renamed.
ClusterNamed == \A d \in Dirs : rn[d].rtype = "CLUSTER" => rn[d].nm = in.cname

\* Only rn_mkclstr() renames a cluster, and to the name of the inputs; every
\* other step leaves the clusters that have a block as they are.
LEMMA NextCluster == IInv /\ ClusterNamed /\ [Next]_vars => ClusterNamed'
<1> SUFFICES ASSUME IInv, ClusterNamed, [Next]_vars,
                    NEW d \in Dirs', rn'[d].rtype = "CLUSTER"
             PROVE  rn'[d].nm = in'.cname
  BY DEF ClusterNamed
<1>1. ASSUME d \in Slots, in' = in, rn'[d] = rn[d] PROVE rn'[d].nm = in'.cname
  BY <1>1 DEF ClusterNamed, Dirs
<1>2. CASE Exit \/ ~(MkFsRoot \/ Provision \/ MkAttr \/ CastChild \/ CastTwin)
  <2>1. UNCHANGED <<in, rn, nxt_avail>>
    BY <1>2, IdleSteps
  <2> QED BY <1>1, <2>1 DEF Dirs, Slots
<1>3. CASE ~Exit /\ MkFsRoot
  <2>1. PICK b \in Nat : \E node : RootMade(b, node)
    BY <1>3, RootIs
  <2>2. rn'[b].rtype = "ROOT" /\ \A s \in Slots' : s = b \/ s \in (b + 1) .. (b + 4)
    BY <2>1 DEF RootMade
  <2>3. \A s \in (b + 1) .. (b + 4) : rn'[s].children = NULL
    BY <2>1 DEF RootMade, Guard
  <2> QED BY <2>2, <2>3 DEF Dirs
<1>4. CASE ~Exit /\ Provision
  <2> PICK at, up : \E n, k, b, m \in Nat : Provisions(at, n, up, k, b, m)
    BY <1>4, ProvisionIs
  <2>1. PICK n, k, b, m \in Nat : Provisions(at, n, up, k, b, m)
    OBVIOUS
  <2>2. /\ rn[at].rtype \in BuiltTypes /\ NodeOK(rn[at]) /\ at \in Slots /\ in' = in
        /\ rn[at].rtype = "ALLOCJOB" => rn'[at] = rn[at]
        /\ rn[at].rtype # "ALLOCJOB" => rn'[at] = Recast(at)
        /\ \A s \in Slots : s # at => rn'[s] = rn[s]
        /\ \A s \in Slots' : s \in Slots \/ s \in b .. (b + n)
        /\ \A s \in b .. (b + n) : rn'[s] = Guard(up)
    BY <2>1 DEF Provisions
  <2>3. DOMAIN rn[at] = {"rtype", "gen", "nm", "typ", "dyn", "parent", "children", "n", "isdir"}
    BY <2>2 DEF NodeOK, NodeFields
  <2>4. Recast(at).rtype = rn[at].rtype
        /\ Recast(at).nm = IF rn[at].rtype = "CLUSTER" THEN in.cname ELSE rn[at].nm
    BY <2>2, <2>3, RecastIs
  <2>5. \A s \in b .. (b + n) : rn'[s].children = NULL
    BY <2>2 DEF Guard
  <2>6. d \in Slots
    BY <2>2, <2>5 DEF Dirs
  <2> QED BY <1>1, <2>2, <2>4, <2>6
<1>5. CASE MkAttr
  <2>1. PICK at, v : CastsAttr(at, v)
    BY <1>5, AttrIs
  <2>2. /\ in' = in /\ Slots' = Slots /\ rn'[at].children = NULL
        /\ \A s \in Slots : s # at => rn'[s] = rn[s]
    BY <2>1 DEF CastsAttr
  <2> QED BY <1>1, <2>2 DEF Dirs
<1>6. CASE ~Exit /\ (CastChild \/ CastTwin)
  <2>1. Casting /\ More /\ UNCHANGED <<in, nxt_avail>>
    BY <1>6 DEF CastChild, CastTwin
  <2>2. Top.next \in Slots /\ rn[Top.next].children = NULL /\ DOMAIN rn = Slots
        /\ NodeOK(rn[Top.next])
    BY <2>1, NextIn DEF IInv, PoolInv
  <2>3. PICK x : x = Top.next
    OBVIOUS
  <2>4. PICK v : rn' = [rn EXCEPT ![x] = v] /\ v.children = NULL
    <3>1. CASE CastChild
      <4>1. FirstCast(NextChild, Top.at).children = NULL
        BY DEF FirstCast
      <4> QED BY <2>3, <3>1, <4>1, Zenon DEF CastChild
    <3>2. CASE ~Exit /\ CastTwin
      <4>1. PICK v : v = [rn[x] EXCEPT !.gen = 1, !.rtype = NextChild.rtype, !.typ = NextChild.typ]
        OBVIOUS
      <4>2. v.children = NULL
        BY <2>2, <2>3, <4>1 DEF NodeOK, NodeFields
      <4>3. rn' = [rn EXCEPT ![x] = v]
        BY <2>3, <3>2, <4>1 DEF CastTwin
      <4> QED BY <4>2, <4>3
    <3> QED BY <1>6, <3>1, <3>2
  <2>5. rn'[x].children = NULL /\ \A s \in Slots : s # x => rn'[s] = rn[s]
    BY <2>2, <2>3, <2>4
  <2> QED BY <1>1, <2>1, <2>5 DEF Dirs, Slots
<1> QED BY <1>2, <1>3, <1>4, <1>5, <1>6

\* The directory of the cluster has the cluster's name.
LEMMA ClusterInvariant == Spec => []ClusterNamed
<1>1. Init => ClusterNamed
  BY DEF Init, ClusterNamed, Dirs, Slots
<1> QED BY <1>1, NextCluster, Invariant, PTL DEF Spec
=============================================================================
