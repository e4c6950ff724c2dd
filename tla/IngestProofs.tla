---------------------------- MODULE IngestProofs ----------------------------
(***************************************************************************)
(* The invariant of ingest_config(), IInv, is inductive, and with it every *)
(* step keeps the sources that parameters have (Kept).  The steps fall     *)
(* into four kinds: a call is entered, the innermost call goes on, it      *)
(* returns, or the process ends.  The table only ever changes by finding   *)
(* rows (LinksTo) or by giving one row a source (SetTo).                   *)
(***************************************************************************)
EXTENDS IngestInv, SequenceTheorems, WellFoundedInduction, TLAPS

-----------------------------------------------------------------------------
(* The table                                                               *)

\* slurmfs_config[] has 31 rows.
LEMMA RowsAre == Rows = 1 .. 31 /\ Len(slurmfs_config) = 31
  BY DEF Rows, slurmfs_config

\* A set of rows has a first one.
LEMMA FirstRow ==
  ASSUME NEW S \in SUBSET Rows, S # {}
  PROVE  \E i \in S : \A j \in S : i <= j
<1>1. IsWellFoundedOn(OpToRel(<, Nat), Nat)
  BY NatLessThanWellFounded
<1>2. S \subseteq Nat
  BY RowsAre
<1>3. PICK i \in S : \A j \in S : <<j, i>> \notin OpToRel(<, Nat)
  BY <1>1, <1>2, WFMin
<1>4. \A j \in S : ~(j < i)
  BY <1>2, <1>3 DEF OpToRel
<1> QED BY <1>2, <1>4

\* The rows that the proofs name, and where they are.
LEMMA Indices ==
  /\ \A i \in 1 .. 31 : slurmfs_config[i].nm = "MountPoint" <=> i = 12
  /\ \A i \in 1 .. 31 : slurmfs_config[i].nm \in UserRows => i >= 25
  /\ {"Debug", "MountPoint", "Hostname", "SLURM_MAC_CONF"} \cup UserRows \cup DepNames \subseteq Names
  /\ NoName \notin Names
<1>1. \A nm, typ, al, db, dep, dflt : Param(nm, typ, al, db, dep, dflt).nm = nm
  BY DEF Param
<1>2. /\ \A i \in 1 .. 31 : slurmfs_config[i].nm = "MountPoint" <=> i = 12
      /\ \A i \in 1 .. 31 : slurmfs_config[i].nm # NoName
  BY <1>1 DEF slurmfs_config, OfSlurm, NoName
<1>3. \A i \in 1 .. 31 : slurmfs_config[i].nm \in UserRows => i >= 25
  BY <1>1 DEF slurmfs_config, OfSlurm, UserRows
<1>4. /\ slurmfs_config[4].nm = "ControlMachine" /\ slurmfs_config[5].nm = "Debug"
      /\ slurmfs_config[9].nm = "Hostname" /\ slurmfs_config[12].nm = "MountPoint"
  BY <1>1 DEF slurmfs_config
<1>5. /\ slurmfs_config[15].nm = "partitions" /\ slurmfs_config[17].nm = "slurm_api_version"
      /\ slurmfs_config[18].nm = "SLURM_MAC_CONF" /\ slurmfs_config[19].nm = "SLURM_DIR"
  BY <1>1 DEF slurmfs_config, OfSlurm
<1>6. /\ slurmfs_config[23].nm = "SlurmdTimeout" /\ slurmfs_config[25].nm = "slurm_user_name"
      /\ slurmfs_config[26].nm = "slurmd_user_name"
  BY <1>1 DEF slurmfs_config, OfSlurm
<1>7. slurmfs_config[28].nm = "pid" /\ slurmfs_config[30].nm = "varrun"
  BY <1>1 DEF slurmfs_config
<1>8. \A i \in 1 .. 31 : slurmfs_config[i].nm \in Names
  BY RowsAre DEF Names
<1>9. {"Debug", "MountPoint", "Hostname", "SLURM_MAC_CONF"} \cup UserRows \subseteq Names
  BY <1>4, <1>5, <1>6, <1>8 DEF UserRows
<1>10. DepNames \subseteq Names
  BY <1>4, <1>5, <1>6, <1>7, <1>8 DEF DepNames
<1>11. NoName \notin Names
  <2>1. Rows = 1 .. 31
    BY RowsAre
  <2>2. \A i \in Rows : slurmfs_config[i].nm # NoName
    BY <1>2, <2>1
  <2> QED BY <2>2, Zenon DEF Names
<1> QED BY <1>2, <1>3, <1>9, <1>10, <1>11

\* The description of a name is that of a row so named.
LEMMA DescIs ==
  ASSUME NEW p \in Names
  PROVE  \E i \in 1 .. 31 : Desc[p] = slurmfs_config[i] /\ slurmfs_config[i].nm = p
<1>1. PICK k \in Rows : slurmfs_config[k].nm = p
  BY DEF Names
<1>2. Desc[p] = slurmfs_config[CHOOSE j \in Rows : slurmfs_config[j].nm = p]
  BY DEF Desc
<1> DEFINE m == CHOOSE j \in Rows : slurmfs_config[j].nm = p
<1>3. m \in Rows /\ slurmfs_config[m].nm = p
  BY <1>1, Zenon
<1> HIDE DEF m
<1>4. m \in 1 .. 31
  BY <1>3, RowsAre
<1> QED BY <1>2, <1>3, <1>4, Zenon DEF m

\* Which row a row depends on.
LEMMA DepIs ==
  ASSUME NEW p \in Names
  PROVE  /\ Dep(p) \in DepNames \cup {NoName}
         /\ p \in {"slurm_api_version", "SLURM_DIR", "pid", "Debug", "Hostname"} => Dep(p) = NoName
         /\ p = "varrun" => Dep(p) = "pid"
         /\ p \in {"ControlMachine", "partitions", "SlurmdTimeout"} => Dep(p) = "slurm_api_version"
<1> DEFINE Fits(nm, dep) ==
             /\ dep \in DepNames \cup {NoName}
             /\ nm \in {"slurm_api_version", "SLURM_DIR", "pid", "Debug", "Hostname"} => dep = NoName
             /\ nm = "varrun" => dep = "pid"
             /\ nm \in {"ControlMachine", "partitions", "SlurmdTimeout"} => dep = "slurm_api_version"
           Row(r) == Fits(r.nm, r.dep)
<1>1. \A nm, typ, al, db, dep, dflt : Fits(nm, dep) => Row(Param(nm, typ, al, db, dep, dflt))
  BY DEF Param
<1> HIDE DEF Row
<1>2. \A i \in 1 .. 31 : Row(slurmfs_config[i])
  BY <1>1 DEF slurmfs_config, OfSlurm, DepNames, NoName
<1>3. PICK i \in 1 .. 31 : Desc[p] = slurmfs_config[i] /\ slurmfs_config[i].nm = p
  BY DescIs
<1>4. Row(Desc[p]) /\ Desc[p].nm = p
  BY <1>2, <1>3
<1> QED BY <1>4 DEF Row, Dep

\* The words of the command line are a source of the mount point alone.
LEMMA SourcesAre ==
  ASSUME NEW p \in Names
  PROVE  /\ NONOPT \in Desc[p].allowed \cup Desc[p].debug => p = "MountPoint"
         /\ p = "MountPoint" => Desc[p].allowed = {NONOPT, DEFAULT} /\ Desc[p].debug = {NONOPT, DEFAULT}
         /\ p = "Hostname" => Desc[p].allowed = {DERIVED} /\ Desc[p].debug = {DERIVED}
<1> DEFINE Fits(nm, al, db) ==
             /\ NONOPT \in al \cup db => nm = "MountPoint"
             /\ nm = "MountPoint" => al = {NONOPT, DEFAULT} /\ db = {NONOPT, DEFAULT}
             /\ nm = "Hostname" => al = {DERIVED} /\ db = {DERIVED}
           Row(r) == Fits(r.nm, r.allowed, r.debug)
<1>1. \A nm, typ, al, db, dep, dflt : Fits(nm, al, db) => Row(Param(nm, typ, al, db, dep, dflt))
  BY DEF Param
<1> HIDE DEF Row
<1>2. \A i \in 1 .. 31 : Row(slurmfs_config[i])
  BY <1>1 DEF slurmfs_config, OfSlurm, NONOPT, MAC, SLURM, ENV, MNT, DEFAULT, DERIVED
<1>3. PICK i \in 1 .. 31 : Desc[p] = slurmfs_config[i] /\ slurmfs_config[i].nm = p
  BY DescIs
<1>4. Row(Desc[p]) /\ Desc[p].nm = p
  BY <1>2, <1>3
<1> QED BY <1>4 DEF Row

\* The types that decide which collector is asked.
LEMMA TypesAre ==
  ASSUME NEW p \in Names
  PROVE  /\ p = "MountPoint" => Desc[p].typ = "FSVIS"
         /\ p = "Hostname" => Desc[p].typ = "HOST"
         /\ Desc[p].typ = "UNAME" => p = "slurm_user_name"
         /\ Desc[p].typ = "DUNAME" => p = "slurmd_user_name"
         /\ p \in UserRows => Desc[p].typ \in {"UNAME", "DUNAME"}
         /\ p \in {"SLURM_DIR", "varrun"} => Desc[p].typ = "FSVIS"
<1> DEFINE Fits(nm, typ) ==
             /\ nm = "MountPoint" => typ = "FSVIS"
             /\ nm = "Hostname" => typ = "HOST"
             /\ typ = "UNAME" => nm = "slurm_user_name"
             /\ typ = "DUNAME" => nm = "slurmd_user_name"
             /\ nm \in UserRows => typ \in {"UNAME", "DUNAME"}
             /\ nm \in {"SLURM_DIR", "varrun"} => typ = "FSVIS"
           Row(r) == Fits(r.nm, r.typ)
<1>1. \A nm, typ, al, db, dep, dflt : Fits(nm, typ) => Row(Param(nm, typ, al, db, dep, dflt))
  BY DEF Param
<1> HIDE DEF Row
<1>2. \A i \in 1 .. 31 : Row(slurmfs_config[i])
  BY <1>1 DEF slurmfs_config, OfSlurm, UserRows
<1>3. PICK i \in 1 .. 31 : Desc[p] = slurmfs_config[i] /\ slurmfs_config[i].nm = p
  BY DescIs
<1>4. Row(Desc[p]) /\ Desc[p].nm = p
  BY <1>2, <1>3
<1> QED BY <1>4 DEF Row

\* A default that is another row's name is put behind the path of a directory.
LEMMA DefaultsAre ==
  ASSUME NEW p \in Names, Desc[p].typ \in {"FSVIS", "ALPHA"}, Desc[p].dflt \in Names
  PROVE  Dep(p) \in {"SLURM_DIR", "varrun"}
<1> DEFINE Fits(nm, typ, dep, dflt) ==
             \/ typ \notin {"FSVIS", "ALPHA"}
             \/ dep \in {"SLURM_DIR", "varrun"}
             \/ dflt \in {"/dev/shm/slurmfs", "slu_rmfs", "/etc/slurm", "/var/run/slurmfs"}
           Row(r) == Fits(r.nm, r.typ, r.dep, r.dflt)
           Other(r) == r.nm \notin {"/dev/shm/slurmfs", "slu_rmfs", "/etc/slurm", "/var/run/slurmfs"}
<1>1. \A nm, typ, al, db, dep, dflt :
        /\ Fits(nm, typ, dep, dflt) => Row(Param(nm, typ, al, db, dep, dflt))
        /\ nm \notin {"/dev/shm/slurmfs", "slu_rmfs", "/etc/slurm", "/var/run/slurmfs"}
             => Other(Param(nm, typ, al, db, dep, dflt))
  BY DEF Param
<1> HIDE DEF Row, Other
<1>2. \A i \in 1 .. 31 : Row(slurmfs_config[i])
  BY <1>1 DEF slurmfs_config, OfSlurm
<1>3. \A i \in 1 .. 31 : Other(slurmfs_config[i])
  BY <1>1 DEF slurmfs_config, OfSlurm
<1>4. PICK i \in 1 .. 31 : Desc[p] = slurmfs_config[i]
  BY DescIs
<1>5. PICK j \in 1 .. 31 : slurmfs_config[j].nm = Desc[p].dflt
  BY RowsAre DEF Names
<1>6. Desc[p].dflt \notin {"/dev/shm/slurmfs", "slu_rmfs", "/etc/slurm", "/var/run/slurmfs"}
  BY <1>3, <1>5 DEF Other
<1> QED BY <1>2, <1>4, <1>6 DEF Row, Dep

\* Every default is one of the texts.
LEMMA DefaultText ==
  ASSUME NEW p \in Names
  PROVE  Desc[p].dflt \in Texts
  BY DescIs, RowsAre DEF Texts

\* The chain of dependencies gets shorter, and is no longer than two.
LEMMA ChainFalls ==
  ASSUME NEW p \in Names
  PROVE  /\ Chain(p) \in 0 .. 2
         /\ Dep(p) # NoName => Dep(p) \in Names /\ Dep(p) \in DepNames /\ Chain(Dep(p)) < Chain(p)
<1>1. Chain(p) \in 0 .. 2
  BY DEF Chain
<1>2. ASSUME Dep(p) # NoName
      PROVE  Dep(p) \in Names /\ Dep(p) \in DepNames /\ Chain(Dep(p)) < Chain(p)
  <2> DEFINE d == Dep(p)
  <2>1. d \in DepNames /\ d \in Names
    BY <1>2, DepIs, Indices
  <2>2. Dep(d) # NoName => Dep(d) \in Names /\ Dep(Dep(d)) = NoName
    BY <2>1, DepIs, Indices DEF DepNames
  <2> QED BY <1>2, <2>1, <2>2 DEF Chain
<1> QED BY <1>1, <1>2

-----------------------------------------------------------------------------
(* The steps of the table                                                  *)

LinksTo(b, c) ==
    /\ IsTable(c)
    /\ \A p \in Names : /\ c[p].actual = b[p].actual /\ c[p].val = b[p].val
                        /\ c[p].h = b[p].h \/ (b[p].h = None /\ c[p].h = <<p>>)
                        /\ c[p].dep \in {b[p].dep, Dep(p)}

SetTo(q, a, v, h) ==
    /\ IsTable(cp')
    /\ \A p \in Names \ {q} : cp'[p] = cp[p]
    /\ cp'[q].actual = a /\ cp'[q].val = v /\ cp'[q].h = h /\ cp'[q].dep = cp[q].dep

\* init_hash_cp() hashes the row and leaves the others.
LEMMA HashedLinks ==
  ASSUME NEW c, IsTable(c), NEW q \in Names
  PROVE  LinksTo(c, Hashed(c, q)) /\ Hashed(c, q)[q].h # None
<1>1. CASE c[q].h = None
  <2> DEFINE e == [c EXCEPT ![q].h = <<q>>]
  <2>1. Hashed(c, q) = e
    BY <1>1 DEF Hashed
  <2>2. IsTable(e) /\ e[q].h = <<q>>
    BY DEF IsTable
  <2>3. \A p \in Names \ {q} : e[p] = c[p]
    BY DEF IsTable
  <2>4. e[q].actual = c[q].actual /\ e[q].val = c[q].val /\ e[q].dep = c[q].dep
    BY DEF IsTable
  <2>5. <<q>> # None
    BY DEF None
  <2> HIDE DEF e
  <2> QED BY <1>1, <2>1, <2>2, <2>3, <2>4, <2>5 DEF LinksTo
<1>2. CASE c[q].h # None
  BY <1>2 DEF Hashed, LinksTo
<1> QED BY <1>1, <1>2

\* A finding may follow another.
LEMMA LinksTrans ==
  ASSUME NEW b, NEW c, NEW d, LinksTo(b, c), LinksTo(c, d)
  PROVE  LinksTo(b, d)
<1>1. \A p \in Names : <<p>> # None
  BY DEF None
<1> QED BY <1>1 DEF LinksTo

\* The entry of collect_cp() finds the row and the one it depends on.
LEMMA LinkedLinks ==
  ASSUME IsTable(cp), NEW q \in Names
  PROVE  LinksTo(cp, Linked(q)) /\ Linked(q)[q].h # None
<1> DEFINE c == Hashed(cp, q)
           e == [c EXCEPT ![q].dep = Dep(q)]
<1>1. LinksTo(cp, c) /\ c[q].h # None
  BY HashedLinks
<1>2. IsTable(c)
  BY <1>1 DEF LinksTo
<1> HIDE DEF c
<1>3. CASE Dep(q) = NoName \/ c[q].dep # NoName
  <2>1. Linked(q) = c
    BY <1>3 DEF Linked, c, Dep
  <2> QED BY <1>1, <2>1
<1>4. CASE ~(Dep(q) = NoName \/ c[q].dep # NoName)
  <2>1. Linked(q) = Hashed(e, Dep(q))
    BY <1>4 DEF Linked, c, Dep
  <2>2. IsTable(e)
    BY <1>2 DEF IsTable
  <2>3. /\ \A p \in Names \ {q} : e[p] = c[p]
        /\ e[q].actual = c[q].actual /\ e[q].val = c[q].val /\ e[q].h = c[q].h /\ e[q].dep = Dep(q)
    BY <1>2 DEF IsTable
  <2> HIDE DEF e
  <2>4. LinksTo(c, e)
    BY <2>2, <2>3 DEF LinksTo
  <2>5. LinksTo(e, Hashed(e, Dep(q)))
    BY <1>4, <2>2, ChainFalls, HashedLinks
  <2>6. LinksTo(cp, Linked(q))
    BY <1>1, <2>1, <2>4, <2>5, LinksTrans
  <2>7. e[q].h # None
    BY <1>1, <2>3
  <2> QED BY <2>1, <2>5, <2>6, <2>7 DEF LinksTo
<1> QED BY <1>3, <1>4

\* A lookup by name finds at most that row.
LEMMA LookedUpLinks ==
  ASSUME IsTable(cp), NEW nm \in Names
  PROVE  LinksTo(cp, LookedUp(nm))
<1>1. LinksTo(cp, cp)
  BY DEF LinksTo
<1> QED BY <1>1, HashedLinks DEF LookedUp

\* The four ways in which a collector writes to a row.
LEMMA Exceptions ==
  ASSUME IsTable(cp), NEW q \in Names, NEW a, NEW v, NEW h
  PROVE  /\ cp' = [cp EXCEPT ![q].actual = a] => SetTo(q, a, cp[q].val, cp[q].h)
         /\ cp' = [[cp EXCEPT ![q].val = v] EXCEPT ![q].actual = a] => SetTo(q, a, v, cp[q].h)
         /\ cp' = [cp EXCEPT ![q].val = v, ![q].actual = a] => SetTo(q, a, v, cp[q].h)
         /\ cp' = [[cp EXCEPT ![q].val = v, ![q].h = h] EXCEPT ![q].actual = a] => SetTo(q, a, v, h)
<1>1. ASSUME cp' = [cp EXCEPT ![q].actual = a] PROVE SetTo(q, a, cp[q].val, cp[q].h)
  BY <1>1 DEF SetTo, IsTable
<1>2. ASSUME cp' = [[cp EXCEPT ![q].val = v] EXCEPT ![q].actual = a] PROVE SetTo(q, a, v, cp[q].h)
  BY <1>2 DEF SetTo, IsTable
<1>3. ASSUME cp' = [cp EXCEPT ![q].val = v, ![q].actual = a] PROVE SetTo(q, a, v, cp[q].h)
  BY <1>3 DEF SetTo, IsTable
<1>4. ASSUME cp' = [[cp EXCEPT ![q].val = v, ![q].h = h] EXCEPT ![q].actual = a] PROVE SetTo(q, a, v, h)
  BY <1>4 DEF SetTo, IsTable
<1> QED BY <1>1, <1>2, <1>3, <1>4

-----------------------------------------------------------------------------
(* What the steps keep of the table                                        *)

HashKept == \A p \in Names : cp[p].h # None => cp'[p].h # None
SourcesKept == \A p \in Names : cp[p].actual # PSRC_NONE => cp'[p].actual # PSRC_NONE

\* The step of SourceKept.
Kept ==
    \A p \in Names : cp[p].actual # PSRC_NONE =>
        /\ cp'[p].actual \in 1 .. cp[p].actual
        /\ cp'[p].val # cp[p].val =>
              \/ cp'[p].actual = BIT(FUSE)
              \/ \E i \in DOMAIN in.args :
                    NamedBy(p, in.args[i]) /\ cp'[p].val = Address(in.args[i].text)

\* The texts are given by what the process starts with.
LEMMA TextsStay == in' = in => Texts' = Texts
  BY DEF Texts

\* A source is a number.
LEMMA ActualNat ==
  ASSUME TableInv, NEW p \in Names
  PROVE  cp[p].actual \in Nat
  BY DEF TableInv, RowOK, Bits, PSRC_NONE

\* Finding rows keeps the invariant of the table.
LEMMA LinksKeep ==
  ASSUME TableInv, LinksTo(cp, cp'), in' = in, row \in Nat, row' \in Nat, row' >= row
  PROVE  TableInv' /\ Kept /\ HashKept /\ SourcesKept
<1>1. \A p \in Names : <<p>> # None
  BY DEF None
<1>2. \A p \in Names : cp'[p].actual = cp[p].actual /\ cp'[p].val = cp[p].val
  BY DEF LinksTo
<1>3. Kept /\ SourcesKept
  <2>1. \A p \in Names : cp[p].actual \in Nat
    BY ActualNat
  <2> QED BY <1>2, <2>1 DEF Kept, SourcesKept, PSRC_NONE
<1>4. HashKept
  BY <1>1 DEF HashKept, LinksTo
<1>5. ASSUME NEW p \in Names PROVE RowOK(p)'
  <2>1. RowOK(p)
    BY DEF TableInv
  <2>2. cp'[p].val \in Seq(Texts)' /\ cp'[p].actual \in Bits \cup {PSRC_NONE}
    BY <1>2, <2>1, TextsStay DEF RowOK
  <2>3. <<p>> \in Seq(Texts)
    <3>1. p \in Texts
      BY DEF Texts
    <3> QED BY <3>1
  <2>4. cp'[p].h \in {cp[p].h, <<p>>} /\ cp'[p].dep \in {cp[p].dep, Dep(p)}
    BY DEF LinksTo
  <2>5. cp'[p].h \in Seq(Texts)'
    BY <2>1, <2>3, <2>4, TextsStay DEF RowOK
  <2>6. HashOK(p)'
    <3>1. CASE cp'[p].h = <<p>>
      BY <3>1 DEF HashOK
    <3>2. CASE cp'[p].h = cp[p].h
      BY <2>1, <3>2 DEF RowOK, HashOK, Refused, NamedAfter
    <3> QED BY <2>4, <3>1, <3>2
  <2>7. cp'[p].actual # PSRC_NONE /\ Dep(p) # NoName => cp'[Dep(p)].actual # PSRC_NONE
    BY <1>2, <2>1, ChainFalls DEF RowOK
  <2>8. cp'[p].dep \in {NoName, Dep(p)}
    BY <2>1, <2>4 DEF RowOK
  <2> QED BY <2>2, <2>5, <2>6, <2>7, <2>8 DEF RowOK
<1>6. cp'["Hostname"].actual \in {PSRC_NONE, BIT(FUSE), BIT(DERIVED)}
  BY <1>2, Indices DEF TableInv
<1>7. row' < 25 => \A p \in UserRows : cp'[p].h \in {None, <<p>>}
  <2>1. PICK n, m : n = row /\ m = row'
    OBVIOUS
  <2>2. row' < 25 => row < 25
    BY <2>1
  <2>3. \A p \in UserRows : cp'[p].h = cp[p].h \/ cp'[p].h = <<p>>
    BY Indices DEF LinksTo
  <2> QED BY <2>2, <2>3 DEF TableInv
<1>8. IsTable(cp')
  BY DEF LinksTo
<1> QED BY <1>3, <1>4, <1>5, <1>6, <1>7, <1>8 DEF TableInv, IsTable

\* The same while ingest_config() stays at its row.
LEMMA LinksKeepHere ==
  ASSUME TableInv, StackInv, LinksTo(cp, cp'), in' = in, row' = row
  PROVE  TableInv' /\ Kept /\ HashKept /\ SourcesKept
<1>1. row \in Nat
  BY RowsAre DEF StackInv
<1>2. row' \in Nat /\ row' >= row
  BY <1>1
<1> QED BY <1>1, <1>2, LinksKeep

\* The hash that a row is given with a value.
HashFits(q, h) ==
    /\ q \in PathRows \cup UserRows \cup {"Hostname"} /\ ~Refused(h) /\ h # None
    /\ \A nm \in Names : h = <<nm>> => NamedAfter(q, nm)
    /\ q \in UserRows => row >= 25

\* A source that a row is given behind its dependency keeps it too.
LEMMA SetKeeps ==
  ASSUME TableInv, NEW q \in Names, NEW a \in Bits, NEW v \in Seq(Texts), NEW h \in Seq(Texts),
         SetTo(q, a, v, h), in' = in, row \in Nat, row' = row,
         Dep(q) # NoName => cp[Dep(q)].actual # PSRC_NONE,
         h = cp[q].h \/ HashFits(q, h),
         q = "Hostname" => a \in {BIT(FUSE), BIT(DERIVED)},
         cp[q].actual # PSRC_NONE => a <= cp[q].actual /\ (v # cp[q].val => a = BIT(FUSE))
  PROVE  TableInv' /\ Kept /\ HashKept /\ SourcesKept
<1>1. a \in Nat /\ a > 0 /\ a # PSRC_NONE
  BY DEF Bits, PSRC_NONE
<1>2. /\ \A p \in Names \ {q} : cp'[p] = cp[p]
      /\ cp'[q].actual = a /\ cp'[q].val = v /\ cp'[q].h = h /\ cp'[q].dep = cp[q].dep
  BY DEF SetTo
<1>3. SourcesKept
  BY <1>1, <1>2 DEF SourcesKept
<1>4. HashKept
  BY <1>2 DEF HashKept, HashFits
<1>5. Kept
  <2>1. \A p \in Names : cp[p].actual \in Nat
    BY ActualNat
  <2> QED BY <1>1, <1>2, <2>1 DEF Kept, PSRC_NONE
<1>6. ASSUME NEW p \in Names PROVE RowOK(p)'
  <2>1. RowOK(p)
    BY DEF TableInv
  <2>2. cp'[p].actual # PSRC_NONE /\ Dep(p) # NoName => cp'[Dep(p)].actual # PSRC_NONE
    <3>1. Dep(p) # NoName => Dep(p) \in Names
      BY ChainFalls
    <3>2. cp'[p].actual # PSRC_NONE /\ Dep(p) # NoName => cp[Dep(p)].actual # PSRC_NONE
      BY <1>2, <2>1 DEF RowOK
    <3> QED BY <1>3, <3>1, <3>2 DEF SourcesKept
  <2>3. CASE p = q
    <3>1. HashOK(q)'
      <4>1. CASE h = cp[q].h
        BY <1>2, <2>1, <2>3, <4>1 DEF RowOK, HashOK, Refused, NamedAfter
      <4>2. CASE HashFits(q, h)
        BY <1>2, <4>2 DEF HashFits, HashOK, Refused, NamedAfter
      <4> QED BY <4>1, <4>2
    <3> QED BY <1>2, <2>1, <2>2, <2>3, <3>1, TextsStay DEF RowOK
  <2>4. CASE p # q
    <3>1. cp'[p] = cp[p]
      BY <1>2, <2>4
    <3>2. HashOK(p)'
      BY <2>1, <3>1 DEF RowOK, HashOK, Refused, NamedAfter
    <3> QED BY <2>1, <2>2, <3>1, <3>2, TextsStay DEF RowOK
  <2> QED BY <2>3, <2>4
<1>7. cp'["Hostname"].actual \in {PSRC_NONE, BIT(FUSE), BIT(DERIVED)}
  BY <1>2, Indices DEF TableInv
<1>8. row' < 25 => \A p \in UserRows : cp'[p].h \in {None, <<p>>}
  <2>1. row < 25 => \A p \in UserRows : cp[p].h \in {None, <<p>>}
    BY DEF TableInv
  <2>2. row < 25 /\ q \in UserRows => h = cp[q].h
    <3>1. CASE h = cp[q].h
      BY <3>1
    <3>2. CASE HashFits(q, h)
      BY <3>2 DEF HashFits
    <3> QED BY <3>1, <3>2
  <2> QED BY <1>2, <2>1, <2>2, Indices
<1>9. IsTable(cp')
  BY DEF SetTo
<1> QED BY <1>3, <1>4, <1>5, <1>6, <1>7, <1>8, <1>9 DEF TableInv, IsTable

-----------------------------------------------------------------------------
(* The stack of calls                                                      *)

\* The innermost call, and the calls below it.
LEMMA StackFacts ==
  ASSUME stack \in Seq(Frames), stack # <<>>
  PROVE  /\ Depth \in Nat \ {0} /\ Top = stack[Depth] /\ Top \in Frames
         /\ Below \in Seq(Frames) /\ Len(Below) = Depth - 1
         /\ \A k \in 1 .. Depth - 1 : Below[k] = stack[k]
<1>1. Depth \in Nat \ {0}
  BY EmptySeq DEF Depth
<1>2. Top = stack[Depth] /\ Top \in Frames
  BY <1>1 DEF Depth, Top
<1>3. Below \in Seq(Frames) /\ Len(Below) = Depth - 1
  <2>1. PICK n \in Int : n = Depth - 1 /\ n >= 0
    BY <1>1
  <2>2. \A i \in 1 .. n : stack[i] \in Frames
    BY <1>1, <2>1 DEF Depth
  <2>3. SubSeq(stack, 1, n) \in Seq(Frames) /\ Len(SubSeq(stack, 1, n)) = n
    <3>1. Len(SubSeq(stack, 1, n)) = IF 1 <= n THEN n - 1 + 1 ELSE 0
      BY <2>2, SubSeqProperties
    <3>2. SubSeq(stack, 1, n) \in Seq(Frames)
      BY <2>2, SubSeqProperties
    <3> QED BY <2>1, <3>1, <3>2
  <2> QED BY <2>1, <2>3 DEF Depth, Below
<1>4. \A k \in 1 .. Depth - 1 : Below[k] = stack[k]
  BY <1>1 DEF Depth, Below
<1> QED BY <1>1, <1>2, <1>3, <1>4

\* A call is entered.
LEMMA PushFacts ==
  ASSUME stack \in Seq(Frames), NEW f \in Frames, stack' = Append(stack, f)
  PROVE  /\ stack' \in Seq(Frames) /\ stack' # <<>> /\ Depth' = Depth + 1
         /\ Depth \in Nat /\ stack'[Depth + 1] = f
         /\ \A k \in 1 .. Depth : stack'[k] = stack[k]
  BY DEF Depth

\* The innermost call goes on.
LEMMA SetTopFacts ==
  ASSUME stack \in Seq(Frames), stack # <<>>, NEW f \in Frames, SetTop(f)
  PROVE  /\ stack' \in Seq(Frames) /\ stack' # <<>> /\ Depth' = Depth
         /\ stack'[Depth] = f /\ Top' = f
         /\ \A k \in 1 .. Depth - 1 : stack'[k] = stack[k]
<1>1. stack' = Append(Below, f)
  BY DEF SetTop
<1>2. /\ Depth \in Nat \ {0} /\ Below \in Seq(Frames) /\ Len(Below) = Depth - 1
      /\ \A k \in 1 .. Depth - 1 : Below[k] = stack[k]
  BY StackFacts
<1>3. /\ stack' \in Seq(Frames) /\ stack' # <<>> /\ Len(stack') = Depth /\ stack'[Depth] = f
      /\ \A k \in 1 .. Depth - 1 : stack'[k] = Below[k]
  BY <1>1, <1>2
<1>4. Depth' = Depth
  BY <1>3 DEF Depth
<1>5. Top' = f
  BY <1>3 DEF Top
<1> QED BY <1>2, <1>3, <1>4, <1>5

\* The innermost call returns.
LEMMA PopFacts ==
  ASSUME stack \in Seq(Frames), stack # <<>>, stack' = Below
  PROVE  /\ stack' \in Seq(Frames) /\ Depth' = Depth - 1 /\ Depth \in Nat \ {0}
         /\ \A k \in 1 .. Depth - 1 : stack'[k] = stack[k]
  BY StackFacts DEF Depth

\* A call that is waiting keeps what it has.
LEMMA LowerFrames ==
  ASSUME StackInv, HashKept, SourcesKept, row' = row, NEW k \in 1 .. Depth - 1,
         stack'[k] = stack[k], k > 1 => stack'[k - 1] = stack[k - 1]
  PROVE  FrameOK(k)'
<1> DEFINE f == stack[k]
<1>1. k \in 1 .. Depth /\ Depth \in Nat /\ k < Depth
  BY DEF StackInv, Depth
<1>2. FrameOK(k) /\ stack \in Seq(Frames)
  BY <1>1 DEF StackInv
<1>3. f.pc = "deps" /\ f.at \in Names
  <2>1. f \in Frames
    BY <1>1, <1>2 DEF Depth
  <2> QED BY <1>1, <1>2, <2>1 DEF FrameOK, Frames
<1>4. Dep(f.at) # NoName => Dep(f.at) \in Names
  BY <1>3, ChainFalls
<1>5. cp'[f.at].h # None
  BY <1>2, <1>3 DEF FrameOK, HashKept
<1>6. cp[Dep(f.at)].actual # PSRC_NONE /\ Dep(f.at) # NoName => cp'[Dep(f.at)].actual # PSRC_NONE
  BY <1>4 DEF SourcesKept
<1>7. stack'[k].pc # "sources" /\ stack'[k].pc # "parse"
  BY <1>3
<1> QED BY <1>2, <1>3, <1>5, <1>6, <1>7 DEF FrameOK

\* The innermost call only.
LEMMA TopIsFrame ==
  ASSUME StackInv, stack # <<>>
  PROVE  /\ FrameOK(Depth) /\ At \in Names /\ Top \in Frames /\ Top = stack[Depth] /\ Depth \in Nat \ {0}
         /\ stack \in Seq(Frames) /\ row \in 1 .. 31
<1>1. Depth \in Nat \ {0} /\ Top = stack[Depth] /\ Top \in Frames
  BY StackFacts DEF StackInv
<1>2. At \in Names
  BY <1>1 DEF At, Frames
<1> QED BY <1>1, <1>2, RowsAre DEF StackInv

\* Only one call is for a row that no other depends on.
LEMMA OnlyFrame ==
  ASSUME StackInv, stack # <<>>, At \notin DepNames
  PROVE  Depth = 1 /\ At = slurmfs_config[row].nm
<1>1. FrameOK(Depth) /\ Depth \in Nat \ {0} /\ Top = stack[Depth]
  BY TopIsFrame
<1>2. ASSUME Depth > 1 PROVE FALSE
  <2>1. Depth - 1 \in 1 .. Depth /\ Depth - 1 < Depth
    BY <1>1, <1>2
  <2>2. FrameOK(Depth - 1)
    BY <2>1 DEF StackInv
  <2>3. At = stack[Depth - 1].di /\ stack[Depth - 1].pc = "deps"
    BY <1>1, <1>2, <2>1, <2>2 DEF FrameOK, At
  <2>4. At # NoName
    BY TopIsFrame, Indices
  <2> QED BY <2>2, <2>3, <2>4 DEF FrameOK
<1>3. Depth = 1
  BY <1>1, <1>2
<1> QED BY <1>1, <1>3 DEF FrameOK, At

-----------------------------------------------------------------------------
(* Calls that are entered, and the end of the process                      *)

EndCodes == {"running", "complete", "crashed"} \cup ExitCodes

\* Finding rows leaves the mount point what it has.
LEMMA MountLinks ==
  ASSUME MountInv, LinksTo(cp, cp'), in' = in
  PROVE  /\ cp'["MountPoint"].h \in {None, <<"MountPoint">>}
         /\ cp'["MountPoint"].val = cp["MountPoint"].val
         /\ cp'["MountPoint"].actual = cp["MountPoint"].actual
         /\ \A n : Holds(n)' <=> Holds(n)
<1>1. "MountPoint" \in Names
  BY Indices
<1>2. /\ cp'["MountPoint"].h \in {None, <<"MountPoint">>}
      /\ cp'["MountPoint"].val = cp["MountPoint"].val
      /\ cp'["MountPoint"].actual = cp["MountPoint"].actual
  BY <1>1 DEF MountInv, LinksTo
<1> QED BY <1>2 DEF Holds

\* So does no change.
LEMMA SameLinks ==
  ASSUME TableInv, cp' = cp
  PROVE  LinksTo(cp, cp')
  BY DEF TableInv, LinksTo

\* The end of the process leaves everything where it is.
LEMMA EndKeeps ==
  ASSUME IInv, NEW code \in EndCodes, code = "complete" => row = 31 /\ stack = <<>>, End(code)
  PROVE  IInv' /\ Kept
<1>1. /\ in' = in /\ row' = row /\ cp' = cp /\ stack' = stack /\ ret' = ret /\ linked' = linked
      /\ term_count' = term_count /\ slcnf' = slcnf /\ loaded' = loaded /\ status' = code
  BY DEF End, fuse, slurm
<1>2. row \in Nat
  BY DEF IInv, StackInv
<1>3. TableInv' /\ Kept
  BY <1>1, <1>2, SameLinks, LinksKeep DEF IInv
<1>4. StackInv'
  <2>1. Depth' = Depth
    BY <1>1 DEF Depth
  <2>2. ASSUME NEW k \in 1 .. Depth PROVE FrameOK(k)'
    <3>1. FrameOK(k)
      BY DEF IInv, StackInv
    <3> QED BY <1>1, <2>1, <3>1 DEF FrameOK
  <2>3. stack \in Seq(Frames) /\ row \in 0 .. Len(slurmfs_config) /\ (row = 0 => stack = <<>>)
    BY DEF IInv, StackInv
  <2> QED BY <1>1, <2>1, <2>2, <2>3 DEF StackInv
<1>5. RetInv'
  BY <1>1 DEF IInv, RetInv, Top
<1>6. MountInv'
  BY <1>1 DEF IInv, MountInv, Unparsed, InParse, HasParsed, Holds, Depth, Top
<1>7. OtherInv'
  BY <1>1, RowsAre DEF IInv, OtherInv, EndCodes
<1> QED BY <1>3, <1>4, <1>5, <1>6, <1>7 DEF IInv

\* How a call starts.
LEMMA FrameIs ==
  ASSUME NEW p \in Names
  PROVE  /\ Frame(p) \in Frames /\ Frame(p).at = p /\ Frame(p).pc = "deps" /\ Frame(p).di = Dep(p)
         /\ Frame(p).s = MAC /\ Frame(p).argi = 1
<1>1. Dep(p) \in Names \cup {NoName}
  BY ChainFalls
<1> QED BY <1>1 DEF Frame, Frames, Dep, MAC, PSRC_NONE, LeastTrusted, DERIVED

\* The call that is entered.
LEMMA EnteredFrame ==
  ASSUME NEW p \in Names, NEW k \in Nat \ {0}, k + Chain(p) <= 3, cp'[p].h # None,
         stack'[k] = Frame(p), Depth' = k,
         k = 1 => p = slurmfs_config[row'].nm, k > 1 => p = stack'[k - 1].di
  PROVE  FrameOK(k)'
<1> DEFINE f == stack'[k]
<1>1. f.at = p /\ f.pc = "deps" /\ f.di = Dep(p)
  BY FrameIs
<1>2. Dep(p) # NoName => Chain(Dep(p)) < Chain(p) /\ Dep(p) \in DepNames
  BY ChainFalls
<1> QED BY <1>1, <1>2 DEF FrameOK

\* ingest_config() comes to the next row.
LEMMA NextParamKeeps ==
  ASSUME IInv, NextParam
  PROVE  IInv' /\ Kept
<1> DEFINE p == slurmfs_config[row'].nm
<1>1. /\ status = "running" /\ stack = <<>> /\ row < 31 /\ row' = row + 1 /\ row \in Nat
      /\ cp' = Linked(p) /\ stack' = Append(stack, Frame(p))
      /\ in' = in /\ ret' = ret /\ linked' = linked
      /\ term_count' = term_count /\ slcnf' = slcnf /\ loaded' = loaded /\ status' = status
  BY RowsAre DEF NextParam, Enter, fuse, slurm, IInv, StackInv
<1>2. p \in Names
  <2>1. row + 1 \in Rows
    BY <1>1, RowsAre
  <2> QED BY <1>1, <2>1 DEF Names
<1>3. LinksTo(cp, cp') /\ cp'[p].h # None
  BY <1>1, <1>2, LinkedLinks DEF IInv, TableInv
<1>4. TableInv' /\ Kept
  BY <1>1, <1>3, LinksKeep DEF IInv
<1>5. stack' = <<Frame(p)>> /\ stack' \in Seq(Frames) /\ Depth' = 1 /\ stack'[1] = Frame(p) /\ stack' # <<>>
  BY <1>1, <1>2, FrameIs DEF Depth
<1>6. FrameOK(1)'
  <2>1. 1 + Chain(p) <= 3
    BY <1>2, ChainFalls
  <2> QED BY <1>2, <1>3, <1>5, <2>1, EnteredFrame
<1>7. StackInv'
  BY <1>1, <1>5, <1>6, RowsAre DEF StackInv
<1>8. ret = Pending
  BY <1>1 DEF IInv, RetInv
<1>9. RetInv'
  BY <1>1, <1>8 DEF RetInv
<1>10. MountInv'
  <2>1. /\ cp'["MountPoint"].h \in {None, <<"MountPoint">>}
        /\ cp'["MountPoint"].val = cp["MountPoint"].val
        /\ cp'["MountPoint"].actual = cp["MountPoint"].actual
        /\ \A n : Holds(n)' <=> Holds(n)
    BY <1>1, <1>3, MountLinks DEF IInv
  <2>2. stack'[1].pc = "deps" /\ stack'[1].s <= NONOPT /\ stack'[1].argi = 1
    BY <1>2, <1>5, FrameIs DEF MAC, NONOPT
  <2>3. CASE Unparsed
    BY <1>1, <1>5, <2>1, <2>2, <2>3 DEF MountInv, Unparsed
  <2>4. CASE InParse
    BY <1>1, <2>4 DEF InParse, Depth
  <2>5. CASE HasParsed
    BY <1>1, <1>5, <2>1, <2>2, <2>5 DEF MountInv, HasParsed
  <2> QED BY <2>3, <2>4, <2>5 DEF IInv, MountInv
<1>11. OtherInv'
  BY <1>1 DEF IInv, OtherInv
<1> QED BY <1>4, <1>7, <1>9, <1>10, <1>11 DEF IInv

\* A dependency is collected first.
LEMMA CollectDependencyKeeps ==
  ASSUME IInv, CollectDependency
  PROVE  IInv' /\ Kept
<1> DEFINE p == Top.di
<1>1. /\ status = "running" /\ stack # <<>> /\ Top.pc = "deps" /\ p # NoName /\ ret = Pending
      /\ cp' = Linked(p) /\ stack' = Append(stack, Frame(p))
      /\ in' = in /\ row' = row /\ ret' = ret /\ linked' = linked
      /\ term_count' = term_count /\ slcnf' = slcnf /\ loaded' = loaded /\ status' = status
  BY DEF CollectDependency, Running, Enter, fuse, slurm
<1>2. /\ FrameOK(Depth) /\ At \in Names /\ Top \in Frames /\ Top = stack[Depth] /\ Depth \in Nat \ {0}
      /\ stack \in Seq(Frames) /\ row \in 1 .. 31
  BY <1>1, TopIsFrame DEF IInv
<1>3. p \in Names /\ Chain(p) < Chain(At) /\ p \in DepNames
  BY <1>1, <1>2, Indices DEF FrameOK, At
<1>4. LinksTo(cp, cp') /\ cp'[p].h # None
  BY <1>1, <1>3, LinkedLinks DEF IInv, TableInv
<1>5. TableInv' /\ Kept /\ HashKept /\ SourcesKept
  BY <1>1, <1>2, <1>4, LinksKeep DEF IInv
<1> PICK d \in Nat \ {0} : d = Depth
  BY <1>2
<1>6. /\ stack' \in Seq(Frames) /\ stack' # <<>> /\ Depth' = d + 1
      /\ stack'[d + 1] = Frame(p) /\ \A k \in 1 .. d : stack'[k] = stack[k]
  BY <1>1, <1>2, <1>3, FrameIs, PushFacts
<1>f. FrameOK(d) /\ Top = stack[d] /\ At = stack[d].at /\ p = stack[d].di
  BY <1>2 DEF At
<1>7. FrameOK(d + 1)'
  <2>1. d + 1 + Chain(p) <= 3 /\ d + 1 > 1 /\ d + 1 \in Nat \ {0}
    <3>1. d + Chain(At) <= 3
      BY <1>f DEF FrameOK
    <3>2. Chain(p) \in Nat /\ Chain(At) \in Nat
      <4>1. Chain(p) \in 0 .. 2
        BY <1>3, ChainFalls
      <4>2. Chain(At) \in 0 .. 2
        BY <1>2, ChainFalls
      <4> QED BY <4>1, <4>2
    <3> HIDE DEF p
    <3> QED BY <1>3, <3>1, <3>2
  <2>2. stack'[d + 1 - 1].di = p
    BY <1>6, <1>f
  <2> PICK k \in Nat \ {0} : k = d + 1
    BY <2>1
  <2>3. stack'[k] = Frame(p) /\ Depth' = k /\ k + Chain(p) <= 3 /\ k # 1
    BY <1>6, <2>1
  <2>4. stack'[k - 1].di = p
    BY <2>2
  <2>5. FrameOK(k)'
    BY <1>3, <1>4, <2>3, <2>4, EnteredFrame
  <2> QED BY <2>5
<1>8. ASSUME NEW k \in 1 .. d + 1 PROVE FrameOK(k)'
  <2>1. CASE k = d + 1
    BY <1>7, <2>1
  <2>2. CASE k < d
    <3>1. k \in 1 .. Depth - 1 /\ stack'[k] = stack[k] /\ (k > 1 => stack'[k - 1] = stack[k - 1])
      BY <1>6, <2>2
    <3> QED BY <1>1, <1>5, <3>1, LowerFrames DEF IInv
  <2>3. CASE k = d
    <3>1. stack'[d] = stack[d] /\ cp'[At].h # None
      BY <1>2, <1>5, <1>6, <1>f DEF FrameOK, HashKept
    <3>2. d > 1 => stack'[d - 1] = stack[d - 1]
      BY <1>6
    <3>3. cp[Dep(At)].actual # PSRC_NONE /\ Dep(At) # NoName => cp'[Dep(At)].actual # PSRC_NONE
      BY <1>2, <1>5, ChainFalls DEF SourcesKept
    <3>4. k < Depth'
      BY <1>6, <2>3
    <3> QED BY <1>1, <1>f, <2>3, <3>1, <3>2, <3>3, <3>4 DEF FrameOK
  <2> QED BY <2>1, <2>2, <2>3
<1>9. StackInv'
  BY <1>1, <1>2, <1>6, <1>8, RowsAre DEF StackInv
<1>10. RetInv'
  BY <1>1 DEF RetInv
<1>11. MountInv'
  <2>1. /\ cp'["MountPoint"].h \in {None, <<"MountPoint">>}
        /\ cp'["MountPoint"].val = cp["MountPoint"].val
        /\ cp'["MountPoint"].actual = cp["MountPoint"].actual
        /\ \A n : Holds(n)' <=> Holds(n)
    BY <1>1, <1>4, MountLinks DEF IInv
  <2>2. stack'[d + 1].pc = "deps" /\ stack'[1] = stack[1]
    BY <1>3, <1>6, FrameIs
  <2>3. CASE Unparsed
    BY <1>1, <1>6, <2>1, <2>2, <2>3 DEF MountInv, Unparsed
  <2>4. CASE InParse
    BY <1>1, <2>4 DEF InParse
  <2>5. CASE HasParsed
    <3>1. \A k \in 1 .. Depth' : stack'[k].pc # "parse"
      BY <1>2, <1>6, <2>2, <2>5 DEF HasParsed
    <3> QED BY <1>1, <2>1, <2>5, <3>1 DEF MountInv, HasParsed
  <2> QED BY <2>3, <2>4, <2>5 DEF IInv, MountInv
<1>12. OtherInv'
  BY <1>1 DEF IInv, OtherInv
<1> QED BY <1>5, <1>9, <1>10, <1>11, <1>12 DEF IInv

-----------------------------------------------------------------------------
(* The innermost call goes on                                              *)

\* What the innermost call may become.
TopFits(f) ==
    LET d == Dep(At)
    IN /\ f \in Frames /\ f.at = At
       /\ f.pc = "deps" /\ f.di # d => d # NoName /\ cp'[d].actual # PSRC_NONE
       /\ f.pc = "deps" /\ f.di # NoName => Chain(f.di) < Chain(At) /\ f.di \in DepNames
       /\ f.pc # "deps" => d = NoName \/ cp'[d].actual # PSRC_NONE
       /\ f.pc = "sources" => (f.src = PSRC_NONE <=> cp'[At].actual = PSRC_NONE)
       /\ f.pc = "parse" => At = "MountPoint" /\ f.s = NONOPT /\ f.argi <= Len(in'.args) + 1

\* The innermost call goes on, and the stack is one again.
LEMMA SetTopStack ==
  ASSUME StackInv, stack # <<>>, HashKept, SourcesKept, row' = row, NEW f, SetTop(f), TopFits(f)
  PROVE  StackInv'
<1>1. /\ FrameOK(Depth) /\ At \in Names /\ Top \in Frames /\ Top = stack[Depth] /\ Depth \in Nat \ {0}
      /\ stack \in Seq(Frames) /\ row \in 1 .. 31
  BY TopIsFrame
<1> PICK d \in Nat \ {0} : d = Depth
  BY <1>1
<1>2. f \in Frames
  BY DEF TopFits
<1>3. /\ stack' \in Seq(Frames) /\ stack' # <<>> /\ Depth' = d
      /\ stack'[d] = f /\ \A k \in 1 .. d - 1 : stack'[k] = stack[k]
  BY <1>1, <1>2, SetTopFacts
<1>4. FrameOK(d) /\ At = stack[d].at
  BY <1>1 DEF At
<1>5. cp'[At].h # None
  BY <1>1, <1>4 DEF FrameOK, HashKept
<1>6. FrameOK(d)'
  <2>1. d > 1 => stack'[d - 1] = stack[d - 1]
    BY <1>3
  <2>2. stack'[d].at = At
    BY <1>3 DEF TopFits
  <2>3. /\ d + Chain(At) <= 3 /\ (d = 1 => At = slurmfs_config[row].nm)
        /\ (d > 1 => At = stack[d - 1].di)
    BY <1>4 DEF FrameOK
  <2> QED BY <1>3, <1>5, <2>1, <2>2, <2>3 DEF FrameOK, TopFits
<1>7. ASSUME NEW k \in 1 .. d PROVE FrameOK(k)'
  <2>1. CASE k = d
    BY <1>6, <2>1
  <2>2. CASE k < d
    <3>1. k \in 1 .. Depth - 1 /\ stack'[k] = stack[k] /\ (k > 1 => stack'[k - 1] = stack[k - 1])
      BY <1>3, <2>2
    <3> QED BY <3>1, LowerFrames
  <2> QED BY <2>1, <2>2
<1> QED BY <1>1, <1>3, <1>7, RowsAre DEF StackInv

\* What has been kept of the mount point when another step is taken.
MountSame ==
    /\ in' = in /\ row' = row /\ term_count' = term_count
    /\ cp'["MountPoint"].h \in {None, <<"MountPoint">>}
    /\ cp'["MountPoint"].val = cp["MountPoint"].val
    /\ cp'["MountPoint"].actual = cp["MountPoint"].actual

\* A step of another row, or before the mount point is reached, leaves it.
LEMMA SetTopMount ==
  ASSUME StackInv, stack # <<>>, MountInv, MountSame, NEW f \in Frames, SetTop(f), f.pc # "parse",
         At = "MountPoint" => Top.pc # "parse" /\ (Top.s <= NONOPT => f.s <= NONOPT)
                              /\ f.argi = Top.argi
  PROVE  MountInv'
<1>1. /\ FrameOK(Depth) /\ At \in Names /\ Top \in Frames /\ Top = stack[Depth] /\ Depth \in Nat \ {0}
      /\ stack \in Seq(Frames) /\ row \in 1 .. 31
  BY TopIsFrame
<1> PICK d \in Nat \ {0} : d = Depth
  BY <1>1
<1>2. /\ stack' \in Seq(Frames) /\ stack' # <<>> /\ Depth' = d
      /\ stack'[d] = f /\ \A k \in 1 .. d - 1 : stack'[k] = stack[k]
  BY <1>1, SetTopFacts
<1>3. ASSUME d = 1, row = 12 PROVE At = "MountPoint" /\ Top = stack[1]
  BY <1>1, <1>3, Indices DEF FrameOK, At
<1>4. \A n : Holds(n)' <=> Holds(n)
  BY DEF MountSame, Holds
<1>5. CASE Unparsed
  <2>1. ASSUME row = 12 PROVE stack'[1].pc # "parse" /\ stack'[1].s <= NONOPT /\ stack'[1].argi = 1
    <3>1. CASE d = 1
      BY <1>2, <1>3, <1>5, <2>1, <3>1 DEF Unparsed
    <3>2. CASE d > 1
      BY <1>2, <1>5, <2>1, <3>2 DEF Unparsed
    <3> QED BY <3>1, <3>2
  <2> QED BY <1>2, <1>5, <2>1 DEF MountSame, MountInv, Unparsed
<1>6. CASE InParse
  BY <1>3, <1>6 DEF InParse
<1>7. CASE HasParsed
  <2>1. \A k \in 1 .. d : stack'[k].pc # "parse"
    BY <1>2, <1>7 DEF HasParsed
  <2> QED BY <1>2, <1>4, <1>7, <2>1 DEF MountSame, MountInv, HasParsed
<1> QED BY <1>5, <1>6, <1>7 DEF MountInv

\* The walk goes on along the chain.
LEMMA DependencyReturnsKeeps ==
  ASSUME IInv, DependencyReturns
  PROVE  IInv' /\ Kept
<1>1. stack # <<>> /\ Top.pc = "deps" /\ ret # Pending
  BY DEF DependencyReturns, Running
<1>2. /\ FrameOK(Depth) /\ At \in Names /\ Top \in Frames /\ Top = stack[Depth] /\ Depth \in Nat \ {0}
      /\ stack \in Seq(Frames) /\ row \in 1 .. 31
  BY <1>1, TopIsFrame DEF IInv
<1>3. CASE NOBITS(ret)
  <2>1. End("INTERNAL")
    BY <1>3 DEF DependencyReturns
  <2> QED BY <2>1, EndKeeps DEF EndCodes, ExitCodes
<1>4. CASE ~NOBITS(ret)
  <2> DEFINE f == [Top EXCEPT !.di = NextDep(Top.di)]
  <2>1. /\ SetTop(f) /\ ret' = Pending
        /\ in' = in /\ row' = row /\ cp' = cp /\ linked' = linked
        /\ term_count' = term_count /\ slcnf' = slcnf /\ loaded' = loaded /\ status' = status
    BY <1>4 DEF DependencyReturns, fuse, slurm
  <2>2. LinksTo(cp, cp')
    BY <2>1, SameLinks DEF IInv
  <2>3. TableInv' /\ Kept /\ HashKept /\ SourcesKept
    BY <2>1, <2>2, LinksKeepHere DEF IInv
  <2>4. Top.di \in Names /\ cp[Top.di].actual # PSRC_NONE
    BY <1>1, <1>2, <1>4 DEF IInv, RetInv, NOBITS, Frames
  <2>5. cp[Top.di].dep \in {NoName, Dep(Top.di)}
    BY <2>4 DEF IInv, TableInv, RowOK
  <2>6. f \in Frames /\ f.at = At /\ f.pc = "deps" /\ f.di = cp[Top.di].dep /\ f.s = Top.s /\ f.argi = Top.argi
    <3>1. cp[Top.di].dep \in Names \cup {NoName}
      BY <2>4, <2>5, ChainFalls
    <3> QED BY <1>1, <1>2, <3>1 DEF Frames, At, NextDep
  <2> HIDE DEF f
  <2>7. TopFits(f)
    <3>1. Chain(Top.di) < Chain(At) /\ Top.di \in DepNames
      BY <1>1, <1>2, <2>4, Indices DEF FrameOK, At
    <3>2. f.di # NoName => Chain(f.di) < Chain(At) /\ f.di \in DepNames
      <4>1. ASSUME f.di # NoName PROVE f.di = Dep(Top.di) /\ f.di \in DepNames /\ Chain(f.di) < Chain(Top.di)
        BY <2>4, <2>5, <2>6, <4>1, ChainFalls
      <4>2. /\ Chain(Top.di) \in 0 .. 2 /\ Chain(At) \in 0 .. 2
            /\ (f.di # NoName => Chain(f.di) \in 0 .. 2)
        BY <1>2, <2>4, <4>1, ChainFalls
      <4> QED BY <3>1, <4>1, <4>2
    <3>3. Dep(At) # NoName /\ cp[Dep(At)].actual # PSRC_NONE
      BY <1>1, <1>2, <2>4, Indices DEF FrameOK, At
    <3> QED BY <2>1, <2>6, <3>2, <3>3 DEF TopFits
  <2>8. StackInv'
    BY <1>1, <2>1, <2>3, <2>7, SetTopStack DEF IInv
  <2>9. MountSame
    BY <2>1, <2>2, MountLinks DEF IInv, MountSame
  <2>10. MountInv'
    BY <1>1, <2>1, <2>6, <2>9, SetTopMount DEF IInv
  <2>11. RetInv'
    BY <2>1 DEF RetInv
  <2>12. status # "complete"
    BY DEF DependencyReturns, Running
  <2>13. OtherInv'
    BY <2>1, <2>12 DEF IInv, OtherInv
  <2> QED BY <2>3, <2>8, <2>10, <2>11, <2>13 DEF IInv
<1> QED BY <1>3, <1>4

\* The search begins.
LEMMA ReadDebugKeeps ==
  ASSUME IInv, ReadDebug
  PROVE  IInv' /\ Kept
<1> DEFINE f == [Top EXCEPT !.pc = "sources", !.debug = DebugOn, !.src = cp[At].actual]
<1>1. /\ stack # <<>> /\ Top.pc = "deps" /\ Top.di = NoName
      /\ cp' = LookedUp("Debug") /\ SetTop(f) /\ ret' = ret
      /\ in' = in /\ row' = row /\ linked' = linked
      /\ term_count' = term_count /\ slcnf' = slcnf /\ loaded' = loaded /\ status' = status
      /\ status = "running"
  BY DEF ReadDebug, Running, fuse, slurm
<1>2. /\ FrameOK(Depth) /\ At \in Names /\ Top \in Frames /\ Top = stack[Depth] /\ Depth \in Nat \ {0}
      /\ stack \in Seq(Frames) /\ row \in 1 .. 31
  BY <1>1, TopIsFrame DEF IInv
<1>3. LinksTo(cp, cp')
  BY <1>1, LookedUpLinks, Indices DEF IInv, TableInv
<1>4. TableInv' /\ Kept /\ HashKept /\ SourcesKept
  BY <1>1, <1>3, LinksKeepHere DEF IInv
<1>5. ret = Pending
  BY <1>1 DEF IInv, RetInv
<1>6. f \in Frames /\ f.at = At /\ f.pc = "sources" /\ f.s = Top.s /\ f.src = cp[At].actual
      /\ f.argi = Top.argi
  <2>1. cp[At].actual \in Bits \cup (PSRC_NONE .. LeastTrusted)
    BY <1>2 DEF IInv, TableInv, RowOK, PSRC_NONE, LeastTrusted, DERIVED
  <2>2. DebugOn \in BOOLEAN
    BY DEF DebugOn
  <2> QED BY <1>2, <2>1, <2>2 DEF Frames, At
<1> HIDE DEF f
<1>7. TopFits(f)
  <2>1. Dep(At) # NoName => cp'[Dep(At)].actual # PSRC_NONE
    <3>1. Dep(At) # NoName => cp[Dep(At)].actual # PSRC_NONE
      BY <1>1, <1>2 DEF FrameOK, At
    <3> QED BY <1>2, <1>4, <3>1, ChainFalls DEF SourcesKept
  <2>2. cp'[At].actual = cp[At].actual
    BY <1>2, <1>3 DEF LinksTo
  <2> QED BY <1>6, <2>1, <2>2 DEF TopFits
<1>8. StackInv'
  BY <1>1, <1>4, <1>7, SetTopStack DEF IInv
<1>9. MountSame
  BY <1>1, <1>3, MountLinks DEF IInv, MountSame
<1>10. MountInv'
  BY <1>1, <1>6, <1>9, SetTopMount DEF IInv
<1>11. RetInv'
  BY <1>1, <1>5 DEF RetInv
<1>12. OtherInv'
  BY <1>1 DEF IInv, OtherInv
<1> QED BY <1>4, <1>8, <1>10, <1>11, <1>12 DEF IInv

\* The search leaves out what the row does not permit.
LEMMA SkipSourcesKeeps ==
  ASSUME IInv, SkipSources
  PROVE  IInv' /\ Kept
<1>1. PICK s \in (Top.s + 1) .. (LeastTrusted + 1) :
         /\ s = LeastTrusted + 1 \/ Permitted(At, s, Top.debug)
         /\ \A t \in Top.s .. (s - 1) : ~Permitted(At, t, Top.debug)
         /\ SetTop([Top EXCEPT !.s = s])
  BY DEF SkipSources
<1> DEFINE f == [Top EXCEPT !.s = s]
<1>2. /\ stack # <<>> /\ Top.pc = "sources" /\ Top.src = PSRC_NONE /\ cp' = cp /\ SetTop(f) /\ ret' = ret
      /\ in' = in /\ row' = row /\ linked' = linked
      /\ term_count' = term_count /\ slcnf' = slcnf /\ loaded' = loaded /\ status' = status
      /\ status = "running"
  BY <1>1 DEF SkipSources, Searching, Running, fuse, slurm
<1>3. /\ FrameOK(Depth) /\ At \in Names /\ Top \in Frames /\ Top = stack[Depth] /\ Depth \in Nat \ {0}
      /\ stack \in Seq(Frames) /\ row \in 1 .. 31
  BY <1>2, TopIsFrame DEF IInv
<1>4. LinksTo(cp, cp')
  BY <1>2, SameLinks DEF IInv
<1>5. TableInv' /\ Kept /\ HashKept /\ SourcesKept
  BY <1>2, <1>4, LinksKeepHere DEF IInv
<1>6. ret = Pending
  BY <1>2 DEF IInv, RetInv
<1>7. s \in 1 .. 10 /\ Top.s \in 1 .. 10
  <2>1. Top.s \in MAC .. 10
    BY <1>3 DEF Frames
  <2>2. Top.s \in 1 .. 10
    BY <2>1 DEF MAC
  <2> QED BY <2>2 DEF LeastTrusted, DERIVED
<1>8. f \in Frames /\ f.at = At /\ f.pc = "sources" /\ f.s = s /\ f.src = Top.src
      /\ f.argi = Top.argi
  <2>1. s \in MAC .. 10
    BY <1>7 DEF MAC
  <2>2. Top.pc = "sources" /\ Top \in Frames
    BY <1>2, <1>3
  <2>3. f \in Frames
    BY <2>1, <2>2 DEF Frames
  <2>4. f.at = At /\ f.pc = "sources"
    BY <2>2 DEF Frames, At
  <2>5. f.s = s /\ f.src = Top.src /\ f.argi = Top.argi
    BY <2>2 DEF Frames
  <2> QED BY <2>3, <2>4, <2>5
<1>9. ASSUME At = "MountPoint", Top.s <= NONOPT PROVE s <= NONOPT
  <2>1. NONOPT \in Desc[At].allowed
    BY <1>3, <1>9, SourcesAre
  <2>2. Permitted(At, NONOPT, Top.debug)
    BY <2>1 DEF Permitted
  <2> QED BY <1>1, <1>7, <1>9, <2>2 DEF NONOPT
<1> HIDE DEF f
<1>10. TopFits(f)
  <2>1. Dep(At) # NoName => cp'[Dep(At)].actual # PSRC_NONE
    BY <1>2, <1>3 DEF FrameOK, At
  <2>2. Top.src = PSRC_NONE <=> cp'[At].actual = PSRC_NONE
    BY <1>2, <1>3 DEF FrameOK, At
  <2> QED BY <1>8, <2>1, <2>2 DEF TopFits
<1>11. StackInv'
  BY <1>2, <1>5, <1>10, SetTopStack DEF IInv
<1>12. MountSame
  BY <1>2, <1>4, MountLinks DEF IInv, MountSame
<1>13. MountInv'
  BY <1>2, <1>8, <1>9, <1>12, SetTopMount DEF IInv
<1>14. RetInv'
  BY <1>2, <1>6 DEF RetInv
<1>15. OtherInv'
  BY <1>2 DEF IInv, OtherInv
<1> QED BY <1>5, <1>11, <1>13, <1>14, <1>15 DEF IInv

-----------------------------------------------------------------------------
(* A call returns; a collector is asked                                    *)

\* collect_cp() returns to the call that waits for this row.
LEMMA ReturnKeeps ==
  ASSUME IInv, Return
  PROVE  IInv' /\ Kept
<1>1. /\ status = "running" /\ stack # <<>> /\ Top.pc = "sources"
      /\ Top.src # PSRC_NONE \/ ~(Top.s <= LeastTrusted)
  BY DEF Return, Searching, Running
<1>2. /\ FrameOK(Depth) /\ At \in Names /\ Top \in Frames /\ Top = stack[Depth] /\ Depth \in Nat \ {0}
      /\ stack \in Seq(Frames) /\ row \in 1 .. 31
  BY <1>1, TopIsFrame DEF IInv
<1>3. ASSUME End("INTERNAL") PROVE IInv' /\ Kept
  BY <1>3, EndKeeps DEF EndCodes, ExitCodes
<1>4. ASSUME ~End("INTERNAL") PROVE IInv' /\ Kept
  <2>1. /\ cp' = LookedUp("Debug") /\ stack' = Below
        /\ ret' = IF Below = <<>> THEN Pending ELSE cp[At].actual
        /\ in' = in /\ row' = row /\ linked' = linked
        /\ term_count' = term_count /\ slcnf' = slcnf /\ loaded' = loaded /\ status' = status
    BY <1>4 DEF Return, fuse, slurm
  <2>2. LinksTo(cp, cp')
    BY <2>1, LookedUpLinks, Indices DEF IInv, TableInv
  <2>3. TableInv' /\ Kept /\ HashKept /\ SourcesKept
    BY <2>1, <2>2, LinksKeepHere DEF IInv
  <2> PICK d \in Nat \ {0} : d = Depth
    BY <1>2
  <2>4. /\ stack' \in Seq(Frames) /\ Depth' = d - 1
        /\ \A k \in 1 .. d - 1 : stack'[k] = stack[k]
    BY <1>1, <1>2, <2>1, PopFacts
  <2>5. ASSUME NEW k \in 1 .. d - 1 PROVE FrameOK(k)'
    <3>1. k \in 1 .. Depth - 1 /\ stack'[k] = stack[k] /\ (k > 1 => stack'[k - 1] = stack[k - 1])
      BY <2>4
    <3> QED BY <2>1, <2>3, <3>1, LowerFrames DEF IInv
  <2>6. StackInv'
    BY <1>2, <2>1, <2>4, <2>5, RowsAre DEF StackInv
  <2>7. RetInv'
    <3>1. CASE Below = <<>>
      BY <2>1, <3>1 DEF RetInv
    <3>2. CASE Below # <<>>
      <4>1. d > 1
        <5>1. Depth' # 0
          BY <2>1, <2>4, <3>2, EmptySeq DEF Depth
        <5> QED BY <2>4, <5>1
      <4>2. FrameOK(d - 1) /\ d - 1 \in 1 .. Depth /\ d - 1 < Depth
        BY <4>1 DEF IInv, StackInv
      <4>3. stack[d - 1].pc = "deps" /\ stack[d - 1].di = At
        BY <1>2, <4>1, <4>2 DEF FrameOK, At
      <4>4. Top' = stack[d - 1] /\ stack' # <<>>
        BY <2>1, <2>4, <3>2, <4>1 DEF Top, Depth
      <4>5. ret' = cp'[At].actual /\ ret' \in Bits \cup {PSRC_NONE}
        BY <1>2, <2>1, <2>2, <3>2 DEF LinksTo, IInv, TableInv, RowOK
      <4> QED BY <1>2, <4>3, <4>4, <4>5, Indices DEF RetInv
    <3> QED BY <3>1, <3>2
  <2>8. MountInv'
    <3>1. /\ cp'["MountPoint"].h \in {None, <<"MountPoint">>}
          /\ cp'["MountPoint"].val = cp["MountPoint"].val
          /\ cp'["MountPoint"].actual = cp["MountPoint"].actual
          /\ \A n : Holds(n)' <=> Holds(n)
      BY <2>1, <2>2, MountLinks DEF IInv
    <3>2. CASE Unparsed
      <4>1. ASSUME row = 12 PROVE d > 1
        <5>1. SUFFICES ASSUME d = 1 PROVE FALSE
          OBVIOUS
        <5>2. At = "MountPoint" /\ Top = stack[1]
          BY <1>2, <4>1, <5>1, Indices DEF FrameOK, At
        <5>3. Top.src = PSRC_NONE
          BY <1>1, <1>2, <3>2, <5>2 DEF FrameOK, At, Unparsed
        <5>4. Top.s <= NONOPT /\ Top.s \in MAC .. 10
          BY <1>2, <3>2, <4>1, <5>2 DEF Unparsed, Frames
        <5> QED BY <1>1, <5>3, <5>4 DEF LeastTrusted, DERIVED, NONOPT, MAC
      <4>2. ASSUME row = 12 PROVE stack' # <<>> /\ stack'[1] = stack[1]
        BY <2>4, <4>1, <4>2, EmptySeq DEF Depth
      <4> QED BY <2>1, <3>1, <3>2, <4>2 DEF MountInv, Unparsed
    <3>3. CASE InParse
      BY <1>1, <3>3 DEF InParse
    <3>4. CASE HasParsed
      <4>1. \A k \in 1 .. d - 1 : stack'[k].pc # "parse"
        BY <2>4, <3>4 DEF HasParsed
      <4> QED BY <2>1, <2>4, <3>1, <3>4, <4>1 DEF MountInv, HasParsed
    <3> QED BY <3>2, <3>3, <3>4 DEF IInv, MountInv
  <2>9. OtherInv'
    BY <1>1, <2>1 DEF IInv, OtherInv
  <2> QED BY <2>3, <2>6, <2>7, <2>8, <2>9 DEF IInv
<1> QED BY <1>3, <1>4

\* The bits of the sources.
LEMMA BitsAre ==
  /\ BIT(MAC) = 2 /\ BIT(SLURM) = 4 /\ BIT(ENV) = 8 /\ BIT(MNT) = 16 /\ BIT(NONOPT) = 32
  /\ BIT(FUSE) = 64 /\ BIT(DEFAULT) = 256 /\ BIT(DERIVED) = 512
  BY DEF BIT, MAC, SLURM, ENV, MNT, NONOPT, FUSE, DEFAULT, DERIVED

\* Before the command line is read, the mount point has no source; after it,
\* it has one.
LEMMA NotMount ==
  ASSUME IInv, NEW s, Trying(s), s # NONOPT
  PROVE  At # "MountPoint"
<1>1. SUFFICES ASSUME At = "MountPoint" PROVE FALSE
  OBVIOUS
<1>2. stack # <<>> /\ Top.pc = "sources" /\ Top.src = PSRC_NONE /\ Top.s = s /\ Permitted(At, s, Top.debug)
  BY DEF Trying, Searching, Running
<1>3. /\ FrameOK(Depth) /\ At \in Names /\ Top \in Frames /\ Top = stack[Depth] /\ Depth \in Nat \ {0}
      /\ stack \in Seq(Frames) /\ row \in 1 .. 31
  BY <1>2, TopIsFrame DEF IInv
<1>4. s = DEFAULT
  BY <1>1, <1>2, <1>3, SourcesAre DEF Permitted
<1>5. "MountPoint" \notin DepNames
  BY DEF DepNames
<1>6. Depth = 1 /\ row = 12
  BY <1>1, <1>2, <1>3, <1>5, OnlyFrame, Indices DEF IInv
<1>7. cp["MountPoint"].actual = PSRC_NONE
  BY <1>1, <1>2, <1>3 DEF FrameOK, At
<1>8. CASE Unparsed
  BY <1>2, <1>3, <1>4, <1>6, <1>8 DEF Unparsed, NONOPT, DEFAULT
<1>9. CASE InParse
  BY <1>2, <1>9 DEF InParse
<1>10. CASE HasParsed
  BY <1>7, <1>10, BitsAre DEF HasParsed, PSRC_NONE
<1> QED BY <1>8, <1>9, <1>10 DEF IInv, MountInv

\* A collector has been asked for the innermost row.
LEMMA AnswerKeeps ==
  ASSUME IInv, NEW s, Trying(s), s # NONOPT, NEW src \in {PSRC_NONE, s}, NEW c, Answer(src, c),
         TableInv', Kept, HashKept, SourcesKept, MountSame, OtherInv',
         src = PSRC_NONE <=> cp'[At].actual = PSRC_NONE
  PROVE  IInv' /\ Kept
<1> DEFINE f == [Top EXCEPT !.pc = "sources", !.s = @ + 1, !.src = src]
<1>1. /\ stack # <<>> /\ Top.pc = "sources" /\ Top.src = PSRC_NONE /\ Top.s = s /\ SetTop(f) /\ ret' = ret
      /\ row' = row /\ s <= LeastTrusted
  BY DEF Trying, Searching, Running, Answer
<1>2. /\ FrameOK(Depth) /\ At \in Names /\ Top \in Frames /\ Top = stack[Depth] /\ Depth \in Nat \ {0}
      /\ stack \in Seq(Frames) /\ row \in 1 .. 31
  BY <1>1, TopIsFrame DEF IInv
<1>3. ret = Pending
  BY <1>1 DEF IInv, RetInv
<1>4. f \in Frames /\ f.at = At /\ f.pc = "sources" /\ f.src = src
  <2>1. s \in MAC .. 10
    BY <1>1, <1>2 DEF Frames
  <2>2. s \in 1 .. 9
    BY <1>1, <2>1 DEF MAC, LeastTrusted, DERIVED
  <2>3. Top.s + 1 \in MAC .. 10 /\ src \in PSRC_NONE .. LeastTrusted
    BY <1>1, <2>2 DEF MAC, LeastTrusted, DERIVED, PSRC_NONE
  <2> QED BY <1>2, <2>3 DEF Frames, At
<1> HIDE DEF f
<1>5. TopFits(f)
  <2>1. Dep(At) # NoName => cp'[Dep(At)].actual # PSRC_NONE
    <3>1. Dep(At) # NoName => cp[Dep(At)].actual # PSRC_NONE
      BY <1>1, <1>2 DEF FrameOK, At
    <3> QED BY <1>2, <3>1, ChainFalls DEF SourcesKept
  <2> QED BY <1>4, <2>1 DEF TopFits
<1>6. StackInv'
  BY <1>1, <1>5, SetTopStack DEF IInv
<1>7. At # "MountPoint"
  BY NotMount
<1>8. MountInv'
  BY <1>1, <1>4, <1>7, SetTopMount DEF IInv
<1>9. RetInv'
  BY <1>1, <1>3 DEF RetInv
<1> QED BY <1>6, <1>8, <1>9 DEF IInv

-----------------------------------------------------------------------------
(* What a collector answers                                                *)

\* A collector that has nothing.
LEMMA AnswerNone ==
  ASSUME IInv, NEW s, Trying(s), s # NONOPT, NEW c, Answer(PSRC_NONE, c), LinksTo(cp, c),
         term_count' = term_count, OtherInv'
  PROVE  IInv' /\ Kept
<1>1. cp' = c /\ in' = in /\ row' = row
  BY DEF Answer
<1>2. LinksTo(cp, cp')
  BY <1>1
<1>3. TableInv' /\ Kept /\ HashKept /\ SourcesKept
  BY <1>1, <1>2, LinksKeepHere DEF IInv
<1>4. MountSame
  BY <1>1, <1>2, MountLinks DEF IInv, MountSame
<1>5. cp'[At].actual = PSRC_NONE
  <2>1. stack # <<>> /\ Top.pc = "sources" /\ Top.src = PSRC_NONE
    BY DEF Trying, Searching, Running
  <2>2. FrameOK(Depth) /\ Top = stack[Depth] /\ At \in Names
    BY <2>1, TopIsFrame DEF IInv
  <2> QED BY <1>2, <2>1, <2>2 DEF LinksTo, FrameOK, At
<1>6. PSRC_NONE \in {PSRC_NONE, s}
  OBVIOUS
<1> QED BY <1>3, <1>4, <1>5, <1>6, AnswerKeeps

\* A collector that gives a source, and perhaps a value and a hash.
LEMMA AnswerSome ==
  ASSUME IInv, NEW s \in {SLURM, ENV, MNT, DEFAULT, DERIVED}, Trying(s), NEW c, Answer(s, c),
         NEW v \in Seq(Texts), NEW h \in Seq(Texts), SetTo(At, BIT(s), v, h),
         h = cp[At].h \/ HashFits(At, h),
         term_count' = term_count, OtherInv'
  PROVE  IInv' /\ Kept
<1>1. in' = in /\ row' = row /\ s # NONOPT
  BY DEF Answer, NONOPT, SLURM, ENV, MNT, DEFAULT, DERIVED
<1>2. stack # <<>> /\ Top.pc = "sources" /\ Top.src = PSRC_NONE /\ Permitted(At, s, Top.debug)
  BY DEF Trying, Searching, Running
<1>3. FrameOK(Depth) /\ Top = stack[Depth] /\ At \in Names /\ row \in Nat
  BY <1>2, TopIsFrame, RowsAre DEF IInv, StackInv
<1>4. cp[At].actual = PSRC_NONE /\ (Dep(At) # NoName => cp[Dep(At)].actual # PSRC_NONE)
  BY <1>2, <1>3 DEF FrameOK, At
<1>5. BIT(s) \in Bits /\ BIT(s) # PSRC_NONE
  BY BitsAre DEF Bits, PSRC_NONE
<1>6. At = "Hostname" => BIT(s) \in {BIT(FUSE), BIT(DERIVED)}
  BY <1>2, <1>3, SourcesAre DEF Permitted
<1>7. TableInv' /\ Kept /\ HashKept /\ SourcesKept
  BY <1>1, <1>3, <1>4, <1>5, <1>6, SetKeeps DEF IInv
<1>8. At # "MountPoint"
  BY <1>1, NotMount
<1>9. MountSame
  BY <1>1, <1>8, Indices DEF SetTo, MountSame, IInv, MountInv
<1>10. cp'[At].actual # PSRC_NONE /\ s # PSRC_NONE
  BY <1>5 DEF SetTo, PSRC_NONE, SLURM, ENV, MNT, DEFAULT, DERIVED
<1> QED BY <1>1, <1>7, <1>9, <1>10, AnswerKeeps

\* The table is one, and no change is a finding.
LEMMA IsTableNow == IInv => IsTable(cp) /\ LinksTo(cp, cp)
  BY DEF IInv, TableInv, LinksTo

\* The texts that the innermost row has.
LEMMA SelfSet ==
  ASSUME IInv, At \in Names
  PROVE  cp[At].val \in Seq(Texts) /\ cp[At].h \in Seq(Texts)
  BY DEF IInv, TableInv, RowOK

\* The row that is searched for.
LEMMA TryingAt ==
  ASSUME IInv, NEW s, Trying(s)
  PROVE  At \in Names /\ stack # <<>> /\ status = "running"
  BY TopIsFrame DEF IInv, Trying, Searching, Running

\* A step that leaves the rest of the state.
LEMMA OtherSame ==
  ASSUME OtherInv, status = "running", in' = in, linked' = linked, loaded' = loaded, status' = status,
         slcnf' \in BOOLEAN
  PROVE  OtherInv'
  BY DEF OtherInv

\* The answers that set nothing, or a source without a value, or with one.
LEMMA NoneKeeps ==
  ASSUME IInv, NEW s, Trying(s), s # NONOPT, Answer(PSRC_NONE, cp), UNCHANGED fuse, UNCHANGED slurm
  PROVE  IInv' /\ Kept
<1>1. OtherInv'
  BY TryingAt, OtherSame DEF IInv, OtherInv, Answer, fuse, slurm
<1> QED BY <1>1, IsTableNow, AnswerNone DEF fuse

\* An answer that sets no value.
LEMMA SourceKeeps ==
  ASSUME IInv, NEW s \in {SLURM, ENV, MNT, DEFAULT, DERIVED}, Trying(s), Answer(s, cp),
         term_count' = term_count, OtherInv'
  PROVE  IInv' /\ Kept
<1>1. At \in Names /\ s # PSRC_NONE
  BY TryingAt DEF PSRC_NONE, SLURM, ENV, MNT, DEFAULT, DERIVED
<1>2. cp' = [cp EXCEPT ![At].actual = BIT(s)]
  BY <1>1 DEF Answer
<1>3. SetTo(At, BIT(s), cp[At].val, cp[At].h)
  BY <1>1, <1>2, IsTableNow, Exceptions
<1> QED BY <1>1, <1>3, SelfSet, AnswerSome

\* An answer that sets a value.
LEMMA PutKeeps ==
  ASSUME IInv, NEW s \in {SLURM, ENV, MNT, DEFAULT, DERIVED}, Trying(s), NEW v \in Seq(Texts),
         Answer(s, [cp EXCEPT ![At].val = v]),
         term_count' = term_count, OtherInv'
  PROVE  IInv' /\ Kept
<1>1. At \in Names /\ s # PSRC_NONE
  BY TryingAt DEF PSRC_NONE, SLURM, ENV, MNT, DEFAULT, DERIVED
<1>2. cp' = [[cp EXCEPT ![At].val = v] EXCEPT ![At].actual = BIT(s)]
  BY <1>1 DEF Answer
<1>3. SetTo(At, BIT(s), v, cp[At].h)
  BY <1>1, <1>2, IsTableNow, Exceptions
<1> QED BY <1>1, <1>3, SelfSet, AnswerSome

\* The same for a text.
LEMMA ValueKeeps ==
  ASSUME IInv, NEW s \in {SLURM, ENV, MNT, DEFAULT, DERIVED}, Trying(s), NEW text \in Texts,
         Answer(s, [cp EXCEPT ![At].val = <<text>>]),
         term_count' = term_count, OtherInv'
  PROVE  IInv' /\ Kept
<1>1. <<text>> \in Seq(Texts)
  OBVIOUS
<1> QED BY <1>1, PutKeeps

\* An answer that sets a value and its hash.
LEMMA CharPtrKeeps ==
  ASSUME IInv, NEW s \in {SLURM, ENV, MNT, DEFAULT, DERIVED}, Trying(s), NEW path \in Seq(Texts),
         Answer(s, CharPtr(path)), HashFits(At, path),
         term_count' = term_count, OtherInv'
  PROVE  IInv' /\ Kept
<1>1. At \in Names /\ s # PSRC_NONE
  BY TryingAt DEF PSRC_NONE, SLURM, ENV, MNT, DEFAULT, DERIVED
<1>2. cp' = [[cp EXCEPT ![At].val = path, ![At].h = path] EXCEPT ![At].actual = BIT(s)]
  BY <1>1 DEF Answer, CharPtr
<1>3. SetTo(At, BIT(s), path, path)
  BY <1>1, <1>2, IsTableNow, Exceptions
<1> QED BY <1>1, <1>3, AnswerSome

\* set_val_charptr() may refuse the value.
LEMMA SetCharPtrKeeps ==
  ASSUME IInv, NEW s \in {SLURM, ENV, MNT, DEFAULT, DERIVED}, Trying(s), NEW path \in Seq(Texts),
         SetCharPtr(s, path), ~Refused(path) => HashFits(At, path)
  PROVE  IInv' /\ Kept
<1>1. CASE Refused(path)
  BY <1>1, EndKeeps DEF SetCharPtr, EndCodes, ExitCodes
<1>2. CASE ~Refused(path)
  <2>1. Answer(s, CharPtr(path)) /\ UNCHANGED fuse /\ UNCHANGED slurm
    BY <1>2 DEF SetCharPtr
  <2>2. /\ in' = in /\ status' = status /\ linked' = linked /\ loaded' = loaded
        /\ slcnf' = slcnf /\ term_count' = term_count
    BY <2>1 DEF Answer, fuse, slurm
  <2>3. OtherInv /\ status = "running" /\ slcnf \in BOOLEAN
    BY TryingAt DEF IInv, OtherInv
  <2>4. OtherInv'
    BY <2>2, <2>3, OtherSame
  <2>5. HashFits(At, path)
    BY <1>2
  <2> QED BY <2>1, <2>2, <2>4, <2>5, CharPtrKeeps, Zenon
<1> QED BY <1>1, <1>2

\* The other setters do not.
LEMMA SetValKeeps ==
  ASSUME IInv, NEW s \in {SLURM, ENV, MNT, DEFAULT, DERIVED}, Trying(s), NEW text \in Texts,
         SetVal(s, <<text>>)
  PROVE  IInv' /\ Kept
<1>1. Answer(s, [cp EXCEPT ![At].val = <<text>>]) /\ UNCHANGED fuse /\ UNCHANGED slurm
  BY DEF SetVal
<1>2. OtherInv'
  BY <1>1, TryingAt, OtherSame DEF IInv, OtherInv, Answer, fuse, slurm
<1> QED BY <1>1, <1>2, ValueKeeps DEF fuse

\* A lookup gives the row so named, or one with that hash.
LEMMA LookupIs ==
  ASSUME NEW nm
  PROVE  \/ Lookup(nm) = ByName(nm)
         \/ Lookup(nm) \in Names /\ cp[Lookup(nm)].h = <<nm>>
<1> DEFINE hits == {i \in Rows : cp[slurmfs_config[i].nm].h = <<nm>>}
           first == CHOOSE i \in hits : \A j \in hits : i <= j
<1>1. Lookup(nm) = IF hits = {} THEN ByName(nm) ELSE slurmfs_config[first].nm
  BY Zenon DEF Lookup
<1>2. hits \in SUBSET Rows /\ \A i \in hits : cp[slurmfs_config[i].nm].h = <<nm>>
  OBVIOUS
<1> HIDE DEF hits
<1>3. ASSUME hits # {} PROVE first \in hits
  <2>1. \E i \in hits : \A j \in hits : i <= j
    BY <1>2, <1>3, FirstRow
  <2> QED BY <2>1, Zenon
<1> HIDE DEF first
<1>4. CASE hits = {}
  BY <1>1, <1>4
<1>5. CASE hits # {}
  BY <1>1, <1>2, <1>3, <1>5 DEF Names
<1> QED BY <1>4, <1>5

\* A lookup finds a row, or none.
LEMMA LookupRow ==
  ASSUME NEW nm, Lookup(nm) # NoName
  PROVE  Lookup(nm) \in Names
  BY LookupIs DEF ByName

\* The lookup of a name finds a row.
LEMMA LookupFinds ==
  ASSUME NEW nm \in Names
  PROVE  Lookup(nm) \in Names
  BY LookupIs DEF ByName

-----------------------------------------------------------------------------
(* The collectors                                                          *)

\* The sources that collectors answer with are not those of the command line.
LEMMA SourcesDiffer ==
  /\ {SLURM, ENV, MNT, DEFAULT, DERIVED} \cap {NONOPT, PSRC_NONE} = {} /\ MAC # NONOPT
  BY DEF NONOPT, PSRC_NONE, SLURM, ENV, MNT, DEFAULT, DERIVED, MAC

\* The MAC file ends the process, or has nothing.
LEMMA CollectMacConfKeeps ==
  ASSUME IInv, CollectMacConf
  PROVE  IInv' /\ Kept
<1>1. Trying(MAC)
  BY DEF CollectMacConf
<1>2. CASE MacHas(At)
  <2>1. End("crashed") \/ End("INTERNAL")
    BY <1>2 DEF CollectMacConf
  <2>2. CASE End("crashed")
    BY <2>2, EndKeeps DEF EndCodes
  <2>3. CASE End("INTERNAL")
    BY <2>3, EndKeeps DEF EndCodes, ExitCodes
  <2> QED BY <2>1, <2>2, <2>3
<1>3. CASE ~MacHas(At)
  <2>1. Answer(PSRC_NONE, LookedUp("SLURM_MAC_CONF")) /\ UNCHANGED fuse /\ UNCHANGED slurm
    BY <1>3 DEF CollectMacConf
  <2>2. LinksTo(cp, LookedUp("SLURM_MAC_CONF"))
    BY IsTableNow, LookedUpLinks, Indices
  <2>3. /\ in' = in /\ status' = status /\ linked' = linked /\ loaded' = loaded
        /\ slcnf' = slcnf /\ term_count' = term_count
    BY <2>1 DEF Answer, fuse, slurm
  <2>4. OtherInv'
    BY <1>1, <2>3, TryingAt, OtherSame DEF IInv, OtherInv
  <2> QED BY <1>1, <2>1, <2>2, <2>3, <2>4, SourcesDiffer, AnswerNone
<1> QED BY <1>2, <1>3

\* The environment has the variable or not.
LEMMA CollectEnvKeeps ==
  ASSUME IInv, CollectEnv
  PROVE  IInv' /\ Kept
<1>1. Trying(ENV) /\ Answer(IF At \in in.env THEN ENV ELSE PSRC_NONE, cp) /\ UNCHANGED fuse /\ UNCHANGED slurm
  BY DEF CollectEnv
<1>2. CASE At \notin in.env
  BY <1>1, <1>2, SourcesDiffer, NoneKeeps
<1>3. CASE At \in in.env
  <2>1. Answer(ENV, cp)
    BY <1>1, <1>3
  <2>2. /\ in' = in /\ status' = status /\ linked' = linked /\ loaded' = loaded
        /\ slcnf' = slcnf /\ term_count' = term_count
    BY <1>1 DEF Answer, fuse, slurm
  <2>3. OtherInv'
    BY <1>1, <2>2, TryingAt, OtherSame DEF IInv, OtherInv
  <2> QED BY <1>1, <2>1, <2>2, <2>3, SourceKeeps
<1> QED BY <1>2, <1>3

\* slurm_fopts[] points to rows.
LEMMA LinkedFopts ==
  ASSUME OtherInv, At \in Names, LinkFopts
  PROVE  linked' \in [slurm_fopts -> Names \cup {NoName}]
  BY DEF OtherInv, LinkFopts

\* The mount options.
LEMMA ConstructMountOptsKeeps ==
  ASSUME IInv, ConstructMountOpts
  PROVE  IInv' /\ Kept
<1>1. Trying(MNT) /\ Answer(IF FoptsOf(At) = {} THEN PSRC_NONE ELSE MNT, cp) /\ LinkFopts
  BY DEF ConstructMountOpts
<1>2. /\ in' = in /\ status' = status /\ loaded' = loaded /\ slcnf' = slcnf
      /\ term_count' = term_count /\ status = "running"
  BY <1>1, TryingAt DEF ConstructMountOpts, Answer, slurm
<1>3. OtherInv'
  <2>1. linked' \in [slurm_fopts -> Names \cup {NoName}]
    BY <1>1, TryingAt, LinkedFopts DEF IInv
  <2> QED BY <1>2, <2>1 DEF IInv, OtherInv
<1>4. CASE FoptsOf(At) = {}
  BY <1>1, <1>2, <1>3, <1>4, SourcesDiffer, IsTableNow, AnswerNone
<1>5. CASE FoptsOf(At) # {}
  BY <1>1, <1>2, <1>3, <1>5, SourceKeeps
<1> QED BY <1>4, <1>5

\* A default path is a text that is no row's name.
LEMMA DefaultPathIs ==
  ASSUME IInv, NEW p \in Names, Desc[p].typ \in {"FSVIS", "ALPHA"}
  PROVE  DefaultPath(p) \in Seq(Texts) /\ DefaultPath(p) # None
         /\ \A nm \in Names : DefaultPath(p) # <<nm>>
<1> DEFINE d == Dep(p)
           t == Desc[p].dflt
<1>1. t \in Texts /\ NoName \in Texts
  BY DefaultText DEF Texts
<1>2. CASE d = NoName \/ Desc[d].typ # "FSVIS"
  <2>1. DefaultPath(p) = <<t>>
    BY <1>2 DEF DefaultPath, Dep
  <2>2. t \notin Names
    <3>1. ASSUME t \in Names PROVE FALSE
      <4>1. d \in {"SLURM_DIR", "varrun"}
        BY <3>1, DefaultsAre
      <4>2. d # NoName /\ d \in Names
        BY <4>1, Indices DEF DepNames
      <4> QED BY <1>2, <4>1, <4>2, TypesAre
    <3> QED BY <3>1
  <2>3. <<t>> # None /\ \A nm \in Names : <<t>> # <<nm>>
    BY <2>2 DEF None
  <2> HIDE DEF t
  <2> QED BY <1>1, <2>1, <2>3
<1>3. CASE ~(d = NoName \/ Desc[d].typ # "FSVIS")
  <2> DEFINE v == IF cp[d].val = None THEN <<NoName>> ELSE cp[d].val
  <2>1. DefaultPath(p) = v \o <<t>>
    BY <1>3 DEF DefaultPath, Dep
  <2>2. v \in Seq(Texts) /\ Len(v) > 0
    <3>1. cp[d].val \in Seq(Texts)
      BY <1>3, ChainFalls DEF IInv, TableInv, RowOK
    <3>2. CASE cp[d].val = None
      <4>1. v = <<NoName>>
        BY <3>2
      <4> HIDE DEF v
      <4> QED BY <1>1, <4>1
    <3>3. CASE cp[d].val # None
      <4>1. v = cp[d].val
        BY <3>3
      <4> HIDE DEF v
      <4> QED BY <3>1, <3>3, <4>1, EmptySeq DEF None
    <3> QED BY <3>2, <3>3
  <2> HIDE DEF v, t
  <2>3. v \o <<t>> \in Seq(Texts) /\ Len(v \o <<t>>) > 1
    BY <1>1, <2>2
  <2>4. Len(None) = 0 /\ \A nm \in Names : Len(<<nm>>) = 1
    BY DEF None
  <2> DEFINE path == v \o <<t>>
  <2>5. DefaultPath(p) = path
    BY <2>1
  <2>6. path \in Seq(Texts) /\ Len(path) # 1 /\ Len(path) # 0
    BY <2>3
  <2> HIDE DEF path
  <2> QED BY <2>4, <2>5, <2>6, Zenon
<1> QED BY <1>2, <1>3

\* The defaults.
LEMMA CollectDefaultKeeps ==
  ASSUME IInv, CollectDefault
  PROVE  IInv' /\ Kept
<1>1. Trying(DEFAULT)
  BY DEF CollectDefault
<1>2. At \in Names
  BY <1>1, TryingAt
<1>3. CASE ~HasDefault(At) \/ Desc[At].typ = "CONTEXT"
  BY <1>1, <1>3, SourcesDiffer, NoneKeeps DEF CollectDefault
<1>4. CASE HasDefault(At) /\ Desc[At].typ \in {"FSVIS", "ALPHA"}
  <2>1. SetCharPtr(DEFAULT, DefaultPath(At))
    BY <1>4 DEF CollectDefault
  <2>2. At # "MountPoint"
    BY <1>1, SourcesDiffer, NotMount
  <2>3. At \in PathRows /\ At \notin UserRows
    BY <1>2, <1>4, <2>2, TypesAre DEF PathRows
  <2>4. ~Refused(DefaultPath(At)) => HashFits(At, DefaultPath(At))
    BY <1>2, <1>4, <2>3, DefaultPathIs DEF HashFits
  <2> QED BY <1>1, <1>2, <1>4, <2>1, <2>4, DefaultPathIs, SetCharPtrKeeps
<1>5. CASE HasDefault(At) /\ Desc[At].typ \notin {"FSVIS", "ALPHA", "CONTEXT"}
  <2>1. SetVal(DEFAULT, <<Desc[At].dflt>>)
    BY <1>5 DEF CollectDefault
  <2> QED BY <1>1, <1>2, <2>1, DefaultText, SetValKeeps
<1> QED BY <1>3, <1>4, <1>5

\* What the collectors read are texts.
LEMMA OwnTexts ==
  {in.hostname, in.cname, in.user, in.duser, "&", "TRUE", "pid", "version", "nodes",
   "slurmd_timeout", "slurm_user_id"} \subseteq Texts
  BY DEF Texts

\* The name of the machine.
LEMMA CollectHostnameKeeps ==
  ASSUME IInv, CollectHostname
  PROVE  IInv' /\ Kept
<1>1. Trying(DERIVED) /\ At = "Hostname" /\ SetCharPtr(DERIVED, <<in.hostname>>)
  BY DEF CollectHostname, Custom
<1>2. <<in.hostname>> \in Seq(Texts) /\ <<in.hostname>> # None
  BY OwnTexts DEF None
<1>3. \A nm \in Names : <<in.hostname>> = <<nm>> => NamedAfter(At, nm)
  BY <1>1 DEF NamedAfter
<1>4. ~Refused(<<in.hostname>>) => HashFits(At, <<in.hostname>>)
  BY <1>1, <1>2, <1>3 DEF HashFits, UserRows
<1> QED BY <1>1, <1>2, <1>4, SetCharPtrKeeps

\* The process id.
LEMMA CollectPidKeeps ==
  ASSUME IInv, CollectPid
  PROVE  IInv' /\ Kept
  BY OwnTexts, SetValKeeps DEF CollectPid, Custom

\* Whether the machine is the controller.
LEMMA CalculIsControllerKeeps ==
  ASSUME IInv, CalculIsController
  PROVE  IInv' /\ Kept
<1>1. CASE SetVal(DERIVED, <<"TRUE">>)
  BY <1>1, OwnTexts, SetValKeeps DEF CalculIsController, Custom
<1>2. CASE ~SetVal(DERIVED, <<"TRUE">>)
  BY <1>2, SourcesDiffer, NoneKeeps DEF CalculIsController, Custom
<1> QED BY <1>1, <1>2

\* The version of the API.
LEMMA CollectVersionKeeps ==
  ASSUME IInv, CollectVersion
  PROVE  IInv' /\ Kept
  BY OwnTexts, SetValKeeps DEF CollectVersion, Custom

\* The controller does not answer.
LEMMA ConfUnavailableKeeps ==
  ASSUME IInv, ConfUnavailable
  PROVE  IInv' /\ Kept
  BY SourcesDiffer, NoneKeeps DEF ConfUnavailable, Conf

\* A field of the controller's configuration.
LEMMA CollectConfParamKeeps ==
  ASSUME IInv, CollectConfParam
  PROVE  IInv' /\ Kept
<1> DEFINE typ == Desc[At].typ
           text == ConfigField[typ]
<1>1. Trying(SLURM) /\ typ \in DOMAIN ConfigField
  BY DEF CollectConfParam, Conf
<1>2. At \in Names /\ status = "running" /\ stack # <<>>
  BY <1>1, TryingAt
<1>3. CASE End("SLURM")
  BY <1>3, EndKeeps DEF EndCodes, ExitCodes
<1>4. CASE End("CONFIG")
  BY <1>4, EndKeeps DEF EndCodes, ExitCodes
<1>5. CASE End("INTERNAL")
  BY <1>5, EndKeeps DEF EndCodes, ExitCodes
<1>6. ASSUME ~End("SLURM"), ~End("CONFIG"), ~End("INTERNAL") PROVE IInv' /\ Kept
  <2>1. /\ text # NoText => ~Refused(<<text>>)
        /\ slcnf' = TRUE /\ UNCHANGED <<fuse, loaded>>
        /\ Answer(SLURM, IF text = NoText THEN [cp EXCEPT ![At].val = None]
                         ELSE IF typ \in {"UNAME", "DUNAME"} THEN CharPtr(<<text>>)
                         ELSE [cp EXCEPT ![At].val = <<text>>])
    BY <1>6 DEF CollectConfParam
  <2>2. /\ in' = in /\ status' = status /\ linked' = linked /\ loaded' = loaded
        /\ slcnf' \in BOOLEAN /\ term_count' = term_count
    BY <2>1 DEF Answer, fuse
  <2>3. OtherInv'
    BY <1>2, <2>2, OtherSame DEF IInv
  <2>4. text \in Texts
    BY <1>1, OwnTexts DEF ConfigField
  <2>5. <<text>> \in Seq(Texts) /\ <<text>> # None
    BY <2>4 DEF None
  <2>6. CASE text = NoText
    <3>1. None \in Seq(Texts)
      BY DEF None
    <3>2. Answer(SLURM, [cp EXCEPT ![At].val = None])
      BY <2>1, <2>6
    <3> QED BY <1>1, <2>2, <2>3, <3>1, <3>2, PutKeeps
  <2>7. CASE text # NoText /\ typ \in {"UNAME", "DUNAME"}
    <3>1. Answer(SLURM, CharPtr(<<text>>))
      BY <2>1, <2>7
    <3>2. typ = "UNAME" => At = "slurm_user_name" /\ text = in.user
      BY <1>2, TypesAre DEF ConfigField
    <3>3. typ = "DUNAME" => At = "slurmd_user_name" /\ text = in.duser
      BY <1>2, TypesAre DEF ConfigField
    <3>4. At \in UserRows
      BY <2>7, <3>2, <3>3 DEF UserRows
    <3>5. row >= 25
      <4>1. At \notin DepNames
        BY <3>4 DEF UserRows, DepNames
      <4>2. At = slurmfs_config[row].nm /\ row \in 1 .. 31
        BY <1>2, <4>1, OnlyFrame, TopIsFrame DEF IInv
      <4> QED BY <3>4, <4>2, Indices
    <3> HIDE DEF text
    <3>6. \A nm \in Names : <<text>> = <<nm>> => NamedAfter(At, nm)
      BY <2>7, <3>2, <3>3 DEF NamedAfter
    <3>7. HashFits(At, <<text>>)
      BY <2>1, <2>5, <2>7, <3>4, <3>5, <3>6 DEF HashFits
    <3> QED BY <1>1, <2>2, <2>3, <2>5, <3>1, <3>7, CharPtrKeeps
  <2>8. CASE text # NoText /\ typ \notin {"UNAME", "DUNAME"}
    <3>1. Answer(SLURM, [cp EXCEPT ![At].val = <<text>>])
      BY <2>1, <2>8
    <3> QED BY <1>1, <2>2, <2>3, <2>4, <3>1, ValueKeeps
  <2> QED BY <2>6, <2>7, <2>8
<1> QED BY <1>3, <1>4, <1>5, <1>6

\* A reply of the resource manager.
LEMMA CollectMessageKeeps ==
  ASSUME IInv, CollectMessage
  PROVE  IInv' /\ Kept
<1>1. Trying(SLURM) /\ loaded' = loaded \cup {At} /\ Answer(SLURM, cp) /\ UNCHANGED <<fuse, slcnf>>
  BY DEF CollectMessage, Message
<1>2. /\ in' = in /\ status' = status /\ linked' = linked /\ slcnf' = slcnf /\ term_count' = term_count
      /\ loaded' = loaded \cup {At}
  BY <1>1 DEF Answer, fuse
<1>3. OtherInv'
  BY <1>1, <1>2, TryingAt DEF IInv, OtherInv
<1> QED BY <1>1, <1>2, <1>3, SourceKeeps

\* No reply: only the jobs are given up.
LEMMA MessageUnavailableKeeps ==
  ASSUME IInv, MessageUnavailable
  PROVE  IInv' /\ Kept
<1>1. Trying(SLURM)
  BY DEF MessageUnavailable, Message
<1>2. CASE At = "jobs"
  BY <1>1, <1>2, SourcesDiffer, NoneKeeps DEF MessageUnavailable
<1>3. CASE At # "jobs"
  BY <1>3, EndKeeps DEF MessageUnavailable, EndCodes, ExitCodes
<1> QED BY <1>2, <1>3

\* The estimate of the pool.
LEMMA CalculRnodePoolKeeps ==
  ASSUME IInv, CalculRnodePool
  PROVE  IInv' /\ Kept
<1>1. Trying(DERIVED)
  BY DEF CalculRnodePool, Custom
<1>2. CASE End("ASSERT")
  BY <1>2, EndKeeps DEF EndCodes, ExitCodes
<1>3. CASE ~End("ASSERT")
  <2>1. /\ loaded' = loaded \cup {Lookup("partitions")} /\ UNCHANGED <<fuse, slcnf>>
        /\ Answer(DERIVED, [cp EXCEPT ![At].val = <<"nodes">>])
    BY <1>3 DEF CalculRnodePool
  <2>2. /\ in' = in /\ status' = status /\ linked' = linked /\ slcnf' = slcnf /\ term_count' = term_count
        /\ loaded' = loaded \cup {Lookup("partitions")}
    BY <2>1 DEF Answer, fuse
  <2>3. Lookup("partitions") \in Names
    BY Indices, LookupFinds DEF DepNames
  <2>4. OtherInv'
    BY <1>1, <2>2, <2>3, TryingAt DEF IInv, OtherInv
  <2> QED BY <1>1, <2>1, <2>2, <2>4, OwnTexts, ValueKeeps
<1> QED BY <1>2, <1>3

\* No reply to estimate it from.
LEMMA RnodePoolUnavailableKeeps ==
  ASSUME IInv, RnodePoolUnavailable
  PROVE  IInv' /\ Kept
  BY EndKeeps DEF RnodePoolUnavailable, EndCodes, ExitCodes

-----------------------------------------------------------------------------
(* The command line                                                        *)

\* The command line is read by the only call for the mount point.
LEMMA CallForMount ==
  ASSUME IInv, stack # <<>>, At = "MountPoint"
  PROVE  Depth = 1 /\ row = 12 /\ Top = stack[1]
<1>1. At \notin DepNames
  BY DEF DepNames
<1>2. Depth = 1 /\ At = slurmfs_config[row].nm
  BY <1>1, OnlyFrame DEF IInv
<1>3. row \in 1 .. 31 /\ Top = stack[1]
  BY <1>2, TopIsFrame DEF IInv
<1> QED BY <1>2, <1>3, Indices

\* Where the process is while it reads the command line.
LEMMA ParsingIs ==
  ASSUME IInv, Running("parse")
  PROVE  /\ InParse /\ At = "MountPoint" /\ stack # <<>> /\ Top.pc = "parse" /\ Depth = 1 /\ row = 12
         /\ Top \in Frames /\ Top.s = NONOPT /\ Top.argi <= Len(in.args) + 1 /\ FrameOK(1)
         /\ Top = stack[1] /\ status = "running" /\ ret = Pending
<1>1. stack # <<>> /\ Top.pc = "parse" /\ status = "running"
  BY DEF Running
<1>2. FrameOK(Depth) /\ Top = stack[Depth] /\ Top \in Frames
  BY <1>1, TopIsFrame DEF IInv
<1>3. At = "MountPoint" /\ Top.s = NONOPT /\ Top.argi <= Len(in.args) + 1
  BY <1>1, <1>2 DEF FrameOK, At
<1>4. Depth = 1 /\ row = 12 /\ Top = stack[1]
  BY <1>1, <1>3, CallForMount
<1>5. InParse
  <2>1. ~Unparsed
    BY <1>1, <1>4 DEF Unparsed
  <2>2. ~HasParsed
    BY <1>1, <1>4 DEF HasParsed
  <2> QED BY <2>1, <2>2 DEF IInv, MountInv
<1>6. ret = Pending
  BY <1>1 DEF IInv, RetInv
<1> QED BY <1>1, <1>2, <1>3, <1>4, <1>5, <1>6

\* No argument, no word.
LEMMA LastWordStarts == ASSUME NEW args PROVE LastWord(args, 0) = None
  BY DEF LastWord, WordsOf

\* The next argument is the last word, if it is one.
LEMMA LastWordGrows ==
  ASSUME NEW args, NEW n \in Nat \ {0}
  PROVE  LastWord(args, n) = IF args[n].kind = "word" /\ args[n].ok THEN <<args[n].text>>
                             ELSE LastWord(args, n - 1)
<1> DEFINE w == WordsOf(args, n)
<1>1. CASE args[n].kind = "word" /\ args[n].ok
  <2>1. n \in w /\ \A j \in w : j <= n /\ j \in Nat
    BY <1>1 DEF WordsOf
  <2> HIDE DEF w
  <2> DEFINE last == CHOOSE i \in w : \A j \in w : j <= i
  <2>2. last \in w /\ \A j \in w : j <= last
    BY <2>1, Zenon
  <2>3. last = n
    <3> HIDE DEF last
    <3> QED BY <2>1, <2>2
  <2>4. LastWord(args, n) = <<args[last].text>>
    BY <2>1 DEF LastWord, w
  <2> HIDE DEF last
  <2> QED BY <1>1, <2>3, <2>4
<1>2. CASE ~(args[n].kind = "word" /\ args[n].ok)
  <2>1. w = WordsOf(args, n - 1)
    BY <1>2 DEF WordsOf
  <2> HIDE DEF w
  <2>2. LastWord(args, n) = LastWord(args, n - 1)
    BY <2>1 DEF LastWord, w
  <2> QED BY <1>2, <2>2
<1> QED BY <1>1, <1>2

\* The command line is given to the parser, for the first time.
LEMMA CollectMountOptsKeeps ==
  ASSUME IInv, CollectMountOpts
  PROVE  IInv' /\ Kept
<1>1. Trying(NONOPT)
  BY DEF CollectMountOpts
<1>2. /\ At \in Names /\ stack # <<>> /\ status = "running" /\ Top.pc = "sources" /\ Top.src = PSRC_NONE
      /\ Top.s = NONOPT /\ Permitted(At, NONOPT, Top.debug)
  BY <1>1, TryingAt DEF Trying, Searching, Running
<1>3. CASE End("INTERNAL")
  BY <1>3, EndKeeps DEF EndCodes, ExitCodes
<1>4. CASE ~End("INTERNAL")
  <2> DEFINE f == [Top EXCEPT !.pc = "parse"]
  <2>1. /\ LinkFopts /\ term_count' = term_count + 1 /\ SetTop(f) /\ cp' = cp /\ in' = in /\ row' = row
        /\ ret' = ret /\ slcnf' = slcnf /\ loaded' = loaded /\ status' = status
    BY <1>4 DEF CollectMountOpts, slurm
  <2>2. At = "MountPoint"
    BY <1>2, SourcesAre DEF Permitted
  <2>3. Depth = 1 /\ row = 12 /\ Top = stack[1] /\ FrameOK(1) /\ Top \in Frames /\ stack \in Seq(Frames)
    BY <1>2, <2>2, CallForMount, TopIsFrame DEF IInv
  <2>4. cp["MountPoint"].actual = PSRC_NONE
    BY <1>2, <2>2, <2>3 DEF FrameOK, At
  <2>5. Unparsed
    <3>1. ~InParse
      BY <1>2 DEF InParse
    <3>2. ~HasParsed
      BY <2>4, BitsAre DEF HasParsed, PSRC_NONE
    <3> QED BY <3>1, <3>2 DEF IInv, MountInv
  <2>6. Top.argi = 1
    BY <2>3, <2>5 DEF Unparsed
  <2>7. f \in Frames /\ f.at = At /\ f.pc = "parse" /\ f.s = NONOPT /\ f.argi = 1
    BY <1>2, <2>3, <2>6 DEF Frames, At
  <2> HIDE DEF f
  <2>8. TableInv' /\ Kept /\ HashKept /\ SourcesKept
    BY <2>1, SameLinks, LinksKeepHere DEF IInv
  <2>9. TopFits(f)
    <3>1. Dep(At) # NoName => cp'[Dep(At)].actual # PSRC_NONE
      BY <1>2, <2>1, <2>3 DEF FrameOK, At
    <3>2. Len(in.args) \in Nat
      BY DEF IInv, OtherInv, InputsAssumption
    <3> QED BY <2>1, <2>2, <2>7, <3>1, <3>2 DEF TopFits
  <2>10. StackInv'
    BY <1>2, <2>1, <2>8, <2>9, SetTopStack DEF IInv
  <2>11. Top' = f /\ Depth' = 1
    BY <1>2, <2>1, <2>3, <2>7, SetTopFacts
  <2>12. MountInv'
    <3>1. Holds(0)'
      BY <2>1, <2>5, LastWordStarts DEF Holds, Unparsed
    <3>2. Top'.argi - 1 = 0
      BY <2>7, <2>11
    <3>3. InParse'
      BY <2>1, <2>3, <2>4, <2>5, <2>7, <2>11, <3>1, <3>2 DEF InParse, Unparsed
    <3> QED BY <2>1, <3>3 DEF IInv, MountInv
  <2>13. RetInv'
    BY <1>2, <2>1 DEF IInv, RetInv
  <2>14. OtherInv'
    BY <1>2, <2>1, LinkedFopts DEF IInv, OtherInv
  <2> QED BY <2>8, <2>10, <2>12, <2>13, <2>14 DEF IInv
<1> QED BY <1>3, <1>4

\* An argument of the command line.
LEMMA ArgumentText ==
  ASSUME OtherInv, NEW i \in 1 .. Len(in.args)
  PROVE  in.args[i].text \in Texts /\ <<in.args[i].text>> \in Seq(Texts)
<1>1. in.args \in Seq([kind : Kinds, text : STRING, ok : BOOLEAN])
  <2>1. \A x \in Inputs : x.args \in Seq([kind : Kinds, text : STRING, ok : BOOLEAN])
    BY InputsAssumption, Zenon
  <2> QED BY <2>1 DEF OtherInv
<1>2. i \in DOMAIN in.args
  BY <1>1
<1>3. in.args[i].text \in Texts
  BY <1>2 DEF Texts
<1> QED BY <1>3

\* While the command line is read, only a host's row may be found for the
\* mount point's.
LEMMA MountLookup ==
  ASSUME IInv, row = 12
  PROVE  \/ Lookup("MountPoint") = "MountPoint"
         \/ Lookup("MountPoint") = "Hostname" /\ in.hostname = "MountPoint"
<1> DEFINE q == Lookup("MountPoint")
<1>1. "MountPoint" \in Names
  BY Indices
<1>2. CASE q = ByName("MountPoint")
  BY <1>1, <1>2 DEF ByName
<1>3. CASE q \in Names /\ cp[q].h = <<"MountPoint">>
  <2>1. HashOK(q)
    BY <1>3 DEF IInv, TableInv, RowOK
  <2> HIDE DEF q
  <2>2. <<"MountPoint">> # None
    BY DEF None
  <2>3. CASE cp[q].h = <<q>>
    BY <1>3, <2>3 DEF q
  <2>4. CASE NamedAfter(q, "MountPoint") /\ q # "MountPoint" /\ cp[q].h # <<q>>
    <3>1. q \notin UserRows
      <4>1. row < 25
        OBVIOUS
      <4>2. \A p \in UserRows : cp[p].h \in {None, <<p>>}
        BY <4>1 DEF IInv, TableInv
      <4> QED BY <1>3, <2>2, <2>4, <4>2
    <3>2. q = "Hostname" /\ in.hostname = "MountPoint"
      BY <2>4, <3>1 DEF NamedAfter, UserRows
    <3> QED BY <3>2 DEF q
  <2> QED BY <1>1, <1>3, <2>1, <2>2, <2>3, <2>4 DEF HashOK, q
<1> QED BY <1>2, <1>3, LookupIs

\* A step of the reading that goes to the next argument.
LEMMA ParsedKeeps ==
  ASSUME IInv, Running("parse"), Top.argi <= Len(in.args), NEW c, Parsed(c),
         TableInv', Kept, HashKept, SourcesKept,
         cp'["MountPoint"].h = cp["MountPoint"].h,
         cp'["MountPoint"].actual \in {PSRC_NONE, BIT(FUSE)},
         in.hostname # "MountPoint" => cp'["MountPoint"].val = LastWord(in.args, Top.argi)
  PROVE  IInv' /\ Kept
<1> DEFINE f == [Top EXCEPT !.argi = @ + 1]
<1>1. /\ SetTop(f) /\ in' = in /\ row' = row /\ ret' = ret /\ linked' = linked
      /\ term_count' = term_count /\ slcnf' = slcnf /\ loaded' = loaded /\ status' = status
  BY DEF Parsed, fuse, slurm
<1>2. /\ InParse /\ At = "MountPoint" /\ stack # <<>> /\ Top.pc = "parse" /\ Depth = 1 /\ row = 12
      /\ Top \in Frames /\ Top.s = NONOPT /\ FrameOK(1)
      /\ Top = stack[1] /\ status = "running" /\ ret = Pending
  BY ParsingIs
<1>3. f \in Frames /\ f.at = At /\ f.pc = "parse" /\ f.s = NONOPT /\ f.argi = Top.argi + 1
      /\ Top.argi \in Nat
  BY <1>2 DEF Frames, At
<1> HIDE DEF f
<1>4. TopFits(f)
  <2>1. Dep(At) # NoName => cp[Dep(At)].actual # PSRC_NONE
    BY <1>2 DEF FrameOK, At
  <2>2. Dep(At) # NoName => cp'[Dep(At)].actual # PSRC_NONE
    BY <1>2, <2>1, ChainFalls, Indices DEF SourcesKept
  <2>3. f.argi <= Len(in'.args) + 1
    <3>1. Len(in.args) \in Nat
      BY InputsAssumption DEF IInv, OtherInv
    <3> QED BY <1>1, <1>3, <3>1
  <2> QED BY <1>2, <1>3, <2>2, <2>3 DEF TopFits
<1>5. StackInv'
  BY <1>1, <1>2, <1>4, SetTopStack DEF IInv
<1>6. Top' = f /\ Depth' = 1
  BY <1>1, <1>2, <1>3, SetTopFacts DEF IInv, StackInv
<1>7. MountInv'
  <2>1. Top'.argi - 1 = Top.argi
    BY <1>3, <1>6
  <2>3. (Holds(Top.argi - 1))'
    BY <1>1, <2>1 DEF Holds
  <2>4. InParse'
    BY <1>1, <1>2, <1>3, <1>6, <2>3 DEF InParse
  <2> QED BY <2>4 DEF IInv, MountInv
<1>8. RetInv'
  BY <1>1, <1>2 DEF RetInv
<1>9. OtherInv'
  BY <1>1, <1>2 DEF IInv, OtherInv
<1> QED BY <1>5, <1>7, <1>8, <1>9 DEF IInv

-----------------------------------------------------------------------------
(* The arguments                                                           *)

\* What the row of the mount point or of the host is given by an argument.
LEMMA SetByArgument ==
  ASSUME IInv, Running("parse"), NEW q \in {"MountPoint", "Hostname"}, NEW v \in Seq(Texts),
         SetTo(q, BIT(FUSE), v, cp[q].h), in' = in, row' = row
  PROVE  TableInv' /\ Kept /\ HashKept /\ SourcesKept
<1>1. q \in Names
  BY Indices
<1>2. Dep(q) # NoName => cp[Dep(q)].actual # PSRC_NONE
  <2>1. CASE q = "Hostname"
    BY <1>1, <2>1, DepIs
  <2>2. CASE q = "MountPoint"
    BY <2>2, ParsingIs DEF FrameOK, At
  <2> QED BY <2>1, <2>2
<1>3. cp[q].actual # PSRC_NONE => BIT(FUSE) <= cp[q].actual
  <2>1. CASE q = "Hostname"
    <3>1. cp[q].actual \in {PSRC_NONE, 64, 512}
      BY <2>1, BitsAre DEF IInv, TableInv
    <3> QED BY <3>1, BitsAre
  <2>2. CASE q = "MountPoint"
    <3>1. cp[q].actual \in {PSRC_NONE, 64}
      BY <2>2, ParsingIs, BitsAre DEF InParse
    <3> QED BY <3>1, BitsAre
  <2> QED BY <2>1, <2>2
<1>4. BIT(FUSE) \in Bits
  BY BitsAre DEF Bits
<1>5. row \in Nat /\ cp[q].h \in Seq(Texts)
  BY <1>1, ParsingIs DEF IInv, TableInv, RowOK
<1>6. TableInv
  BY DEF IInv
<1> HIDE DEF IInv
<1> QED BY <1>1, <1>2, <1>3, <1>4, <1>5, <1>6, SetKeeps

\* A word goes to the mount point, or to a host named like it.
LEMMA ParseWordKeeps ==
  ASSUME IInv, ParseWord
  PROVE  IInv' /\ Kept
<1> DEFINE q == Lookup("MountPoint")
           takes == Arg.ok \/ Desc[q].typ = "HOST"
<1>1. /\ Running("parse") /\ Top.argi <= Len(in.args) /\ Arg.kind = "word"
      /\ Parsed(IF takes THEN [cp EXCEPT ![q].val = <<Arg.text>>, ![q].actual = BIT(FUSE)] ELSE cp)
  BY DEF ParseWord, Parsing
<1>2. /\ InParse /\ row = 12 /\ Top \in Frames
  BY <1>1, ParsingIs
<1>3. \/ q = "MountPoint"
      \/ q = "Hostname" /\ in.hostname = "MountPoint"
  BY <1>2, MountLookup
<1> HIDE DEF q
<1>4. q \in Names /\ "MountPoint" \in Names
  BY <1>3, Indices
<1>5. Top.argi \in Nat \ {0} /\ Top.argi \in 1 .. Len(in.args)
  <2>1. Top.argi \in Nat \ {0}
    BY <1>2 DEF Frames
  <2>2. Len(in.args) \in Nat
    BY InputsAssumption DEF IInv, OtherInv
  <2> QED BY <1>1, <2>1, <2>2
<1>6. <<Arg.text>> \in Seq(Texts)
  BY <1>5, ArgumentText DEF Arg, IInv
<1>7. in' = in /\ row' = row
  BY <1>1 DEF Parsed
<1>8. LastWord(in.args, Top.argi) = IF Arg.ok THEN <<Arg.text>> ELSE LastWord(in.args, Top.argi - 1)
  BY <1>1, <1>5, LastWordGrows DEF Arg
<1>9. in.hostname # "MountPoint" => cp["MountPoint"].val = LastWord(in.args, Top.argi - 1)
  BY <1>2 DEF InParse, Holds
<1>10. CASE takes
  <2>1. cp' = [cp EXCEPT ![q].val = <<Arg.text>>, ![q].actual = BIT(FUSE)]
    BY <1>1, <1>10 DEF Parsed
  <2>2. SetTo(q, BIT(FUSE), <<Arg.text>>, cp[q].h)
    BY <1>4, <2>1, IsTableNow, Exceptions
  <2>3. q \in {"MountPoint", "Hostname"}
    BY <1>3
  <2>4. TableInv' /\ Kept /\ HashKept /\ SourcesKept
    BY <1>1, <1>6, <1>7, <2>2, <2>3, SetByArgument
  <2>5. CASE q = "MountPoint"
    <3>1. Arg.ok
      BY <1>4, <1>10, <2>5, TypesAre
    <3>2. /\ cp'["MountPoint"].h = cp["MountPoint"].h /\ cp'["MountPoint"].actual = BIT(FUSE)
          /\ cp'["MountPoint"].val = <<Arg.text>>
      BY <2>2, <2>5 DEF SetTo
    <3>3. cp'["MountPoint"].val = LastWord(in.args, Top.argi)
      BY <1>8, <3>1, <3>2
    <3> QED BY <1>1, <2>4, <3>2, <3>3, ParsedKeeps
  <2>6. CASE q # "MountPoint"
    <3>1. cp'["MountPoint"] = cp["MountPoint"] /\ in.hostname = "MountPoint"
      BY <1>3, <1>4, <2>2, <2>6 DEF SetTo
    <3>2. cp'["MountPoint"].actual \in {PSRC_NONE, BIT(FUSE)}
      BY <1>2, <3>1 DEF InParse
    <3> QED BY <1>1, <2>4, <3>1, <3>2, ParsedKeeps
  <2> QED BY <2>5, <2>6
<1>11. CASE ~takes
  <2>1. cp' = cp
    BY <1>1, <1>11 DEF Parsed
  <2>2. TableInv' /\ Kept /\ HashKept /\ SourcesKept
    BY <1>7, <2>1, SameLinks, LinksKeepHere DEF IInv
  <2>3. in.hostname # "MountPoint" => cp'["MountPoint"].val = LastWord(in.args, Top.argi)
    BY <1>8, <1>9, <1>11, <2>1
  <2>4. cp'["MountPoint"].actual \in {PSRC_NONE, BIT(FUSE)} /\ cp'["MountPoint"].h = cp["MountPoint"].h
    BY <1>2, <2>1 DEF InParse
  <2> QED BY <1>1, <2>2, <2>3, <2>4, ParsedKeeps
<1> QED BY <1>10, <1>11

\* An argument that is no word leaves the value of the mount point.
LEMMA NoWordKeeps ==
  ASSUME IInv, Running("parse"), Top.argi <= Len(in.args), Arg.kind # "word", NEW c, Parsed(c),
         TableInv', Kept, HashKept, SourcesKept,
         cp'["MountPoint"].h = cp["MountPoint"].h, cp'["MountPoint"].val = cp["MountPoint"].val,
         cp'["MountPoint"].actual \in {PSRC_NONE, BIT(FUSE)}
  PROVE  IInv' /\ Kept
<1>1. InParse /\ Top \in Frames
  BY ParsingIs
<1>2. Top.argi \in Nat \ {0}
  BY <1>1 DEF Frames
<1>3. LastWord(in.args, Top.argi) = LastWord(in.args, Top.argi - 1)
  BY <1>2, LastWordGrows DEF Arg
<1>4. in.hostname # "MountPoint" => cp'["MountPoint"].val = LastWord(in.args, Top.argi)
  BY <1>1, <1>3 DEF InParse, Holds
<1> QED BY <1>4, ParsedKeeps

\* An option is discarded.
LEMMA ParseOptionKeeps ==
  ASSUME IInv, ParseOption
  PROVE  IInv' /\ Kept
<1>1. Running("parse") /\ Top.argi <= Len(in.args) /\ Arg.kind # "word" /\ Parsed(cp)
  BY DEF ParseOption, Parsing
<1>2. cp' = cp /\ in' = in /\ row' = row
  BY <1>1 DEF Parsed
<1>3. TableInv' /\ Kept /\ HashKept /\ SourcesKept
  BY <1>2, SameLinks, LinksKeepHere DEF IInv
<1>4. cp'["MountPoint"].actual \in {PSRC_NONE, BIT(FUSE)}
  BY <1>1, <1>2, ParsingIs DEF InParse
<1> QED BY <1>1, <1>2, <1>3, <1>4, NoWordKeeps

\* What an option that finds a row does to the table: it hashes the row, stores in
\* it, and marks the row that the last word went to.
OptionTable ==
    /\ IsTable(cp')
    /\ \A p \in Names :
          /\ cp'[p].actual = cp[p].actual
             \/ (p \in {"MountPoint", "Hostname"} /\ cp'[p].actual = BIT(FUSE))
          /\ cp'[p].val = cp[p].val \/ (NamedBy(p, Arg) /\ cp'[p].val = Address(Arg.text))
          /\ cp'[p].h = cp[p].h \/ (cp[p].h = None /\ cp'[p].h = <<p>>)
          /\ cp'[p].dep = cp[p].dep

\* A table that differs from the present one by a value that the argument stores,
\* and by hashes.
OptionStores(c) ==
    /\ IsTable(c)
    /\ \A p \in Names :
          /\ c[p].actual = cp[p].actual /\ c[p].dep = cp[p].dep
          /\ c[p].val = cp[p].val \/ (NamedBy(p, Arg) /\ c[p].val = Address(Arg.text))
          /\ c[p].h = cp[p].h \/ (cp[p].h = None /\ c[p].h = <<p>>)

\* Looking up the row of an option.
LEMMA OptionLooks ==
  ASSUME IsTable(cp), NEW nm, Lookup(nm) \in Names
  PROVE  OptionStores(LookedUp(nm))
<1>1. CASE Lookup(nm) # nm \/ cp[nm].h # None
  BY <1>1 DEF LookedUp, Hashed, OptionStores
<1>2. CASE Lookup(nm) = nm /\ cp[nm].h = None
  <2> DEFINE e == [cp EXCEPT ![nm].h = <<nm>>]
  <2>1. LookedUp(nm) = e
    BY <1>2 DEF LookedUp, Hashed
  <2>2. /\ IsTable(e) /\ e[nm].h = <<nm>> /\ e[nm].actual = cp[nm].actual /\ e[nm].val = cp[nm].val
        /\ e[nm].dep = cp[nm].dep
    BY <1>2 DEF IsTable
  <2>3. \A p \in Names \ {nm} : e[p] = cp[p]
    BY DEF IsTable
  <2> HIDE DEF e
  <2> QED BY <1>2, <2>1, <2>2, <2>3 DEF OptionStores
<1> QED BY <1>1, <1>2

\* Storing the place of the argument in it.
LEMMA OptionPuts ==
  ASSUME NEW c, OptionStores(c), NEW q \in Names, NamedBy(q, Arg)
  PROVE  OptionStores([c EXCEPT ![q].val = Address(Arg.text)])
<1> DEFINE e == [c EXCEPT ![q].val = Address(Arg.text)]
<1>1. /\ IsTable(e) /\ e[q].h = c[q].h /\ e[q].actual = c[q].actual /\ e[q].dep = c[q].dep
      /\ e[q].val = Address(Arg.text)
  BY DEF OptionStores, IsTable
<1>2. \A p \in Names \ {q} : e[p] = c[p]
  BY DEF OptionStores, IsTable
<1> HIDE DEF e
<1>3. OptionStores(e)
  BY <1>1, <1>2 DEF OptionStores
<1> QED BY <1>3 DEF e

\* The source is lost, or is the one of the row that the last word went to.
LEMMA OptionMarks ==
  ASSUME IInv, Running("parse"), NEW c, OptionStores(c), SourceLost(c)
  PROVE  End("crashed") \/ (OptionTable /\ \E d : Parsed(d))
<1> DEFINE m == Lookup("MountPoint")
<1>1. m \in {"MountPoint", "Hostname"}
  BY ParsingIs, MountLookup
<1>2. m \in Names
  BY <1>1, Indices
<1> HIDE DEF m
<1>3. CASE Parsed(c)
  <2>1. cp' = c
    BY <1>3 DEF Parsed
  <2> QED BY <1>3, <2>1 DEF OptionStores, OptionTable
<1>4. CASE Parsed([c EXCEPT ![m].actual = BIT(FUSE)])
  <2> DEFINE e == [c EXCEPT ![m].actual = BIT(FUSE)]
  <2>1. cp' = e
    BY <1>4 DEF Parsed
  <2>2. /\ IsTable(e) /\ e[m].h = c[m].h /\ e[m].actual = BIT(FUSE) /\ e[m].dep = c[m].dep
        /\ e[m].val = c[m].val
    BY <1>2 DEF OptionStores, IsTable
  <2>3. \A p \in Names \ {m} : e[p] = c[p]
    BY <1>2 DEF OptionStores, IsTable
  <2> HIDE DEF e
  <2>4. OptionTable
    BY <1>1, <1>2, <2>1, <2>2, <2>3 DEF OptionStores, OptionTable
  <2> QED BY <1>4, <2>4
<1> QED BY <1>3, <1>4 DEF SourceLost, m

\* What an option that finds a row comes to.
LEMMA ParseParamDoes ==
  ASSUME IInv, ParseParam
  PROVE  \/ End("crashed") \/ End("CONFIG")
         \/ OptionTable /\ \E c : Parsed(c)
<1> DEFINE p == Lookup(Arg.text)
           c == LookedUp(Arg.text)
           e == [c EXCEPT ![p].val = Address(Arg.text)]
<1>1. Running("parse") /\ Arg.kind = "option" /\ p # NoName
  BY DEF ParseParam, Parsing
<1>2. p \in Names
  BY <1>1, LookupRow
<1>3. OptionStores(c)
  BY <1>2, IsTableNow, OptionLooks
<1>4. \/ Parsed(c) \/ SourceLost(c) \/ End("CONFIG") \/ End("crashed")
      \/ Stores(p) /\ SourceLost(e)
  BY DEF ParseParam
<1>5. ASSUME Stores(p) PROVE OptionStores(e)
  <2>1. NamedBy(p, Arg)
    BY <1>1, <1>5 DEF NamedBy, Stores
  <2> HIDE DEF p, c
  <2> QED BY <1>2, <1>3, <2>1, OptionPuts
<1> HIDE DEF p, c, e
<1>6. CASE Parsed(c)
  BY <1>3, <1>6, OptionMarks, <1>1 DEF SourceLost
<1>7. CASE SourceLost(c)
  BY <1>1, <1>3, <1>7, OptionMarks
<1>8. CASE Stores(p) /\ SourceLost(e)
  BY <1>1, <1>5, <1>8, OptionMarks
<1> QED BY <1>4, <1>6, <1>7, <1>8

\* Such a table keeps the invariant, and every source.
LEMMA OptionKeeps ==
  ASSUME IInv, Running("parse"), Top.argi <= Len(in.args), OptionTable, in' = in, row' = row
  PROVE  /\ TableInv' /\ Kept /\ HashKept /\ SourcesKept
         /\ cp'["MountPoint"].h = cp["MountPoint"].h /\ cp'["MountPoint"].val = cp["MountPoint"].val
         /\ cp'["MountPoint"].actual \in {PSRC_NONE, BIT(FUSE)}
<1>1. /\ InParse /\ At = "MountPoint" /\ row = 12 /\ Top \in Frames /\ FrameOK(1) /\ Top = stack[1]
      /\ Top.pc = "parse"
  BY ParsingIs
<1>2. Top.argi \in 1 .. Len(in.args) /\ Top.argi \in DOMAIN in.args
  <2>1. Top.argi \in Nat \ {0}
    BY <1>1 DEF Frames
  <2>2. in.args \in Seq([kind : Kinds, text : STRING, ok : BOOLEAN])
    <3>1. \A x \in Inputs : x.args \in Seq([kind : Kinds, text : STRING, ok : BOOLEAN])
      BY InputsAssumption, Zenon
    <3> QED BY <3>1 DEF IInv, OtherInv
  <2>3. Len(in.args) \in Nat /\ DOMAIN in.args = 1 .. Len(in.args)
    BY <2>2
  <2> QED BY <2>1, <2>3
<1>3. Address(Arg.text) \in Seq(Texts)
  <2>1. "&" \in Texts
    BY OwnTexts
  <2>2. Arg.text \in Texts
    BY <1>2, ArgumentText DEF Arg, IInv
  <2> QED BY <2>1, <2>2 DEF Address
<1>4. {"MountPoint", "Hostname"} \subseteq Names
  BY Indices
<1>5. BIT(FUSE) = 64 /\ BIT(DERIVED) = 512 /\ PSRC_NONE = 0
  BY BitsAre DEF PSRC_NONE
<1>6. /\ cp["MountPoint"].actual \in {0, 64} /\ cp["Hostname"].actual \in {0, 64, 512}
  BY <1>1, <1>5 DEF InParse, IInv, TableInv
<1>7. \A p \in Names : <<p>> # None
  BY DEF None
<1>8. SourcesKept
  BY <1>5 DEF SourcesKept, OptionTable
<1>9. HashKept
  BY <1>7 DEF HashKept, OptionTable
<1>10. Kept
  <2>1. \A p \in Names : cp[p].actual \in Nat
    BY ActualNat DEF IInv
  <2>2. ASSUME NEW p \in Names, cp[p].actual # PSRC_NONE PROVE cp'[p].actual \in 1 .. cp[p].actual
    BY <1>5, <1>6, <2>1, <2>2 DEF OptionTable
  <2>3. ASSUME NEW p \in Names, cp'[p].val # cp[p].val
        PROVE  \E i \in DOMAIN in.args :
                  NamedBy(p, in.args[i]) /\ cp'[p].val = Address(in.args[i].text)
    BY <1>2, <2>3 DEF OptionTable, Arg
  <2> QED BY <2>2, <2>3 DEF Kept
<1>11. ASSUME NEW p \in Names PROVE RowOK(p)'
  <2>1. RowOK(p)
    BY DEF IInv, TableInv
  <2>2. cp'[p].actual \in Bits \cup {PSRC_NONE}
    BY <1>5, <2>1 DEF OptionTable, RowOK, Bits
  <2>3. cp'[p].val \in Seq(Texts)'
    BY <1>3, <2>1, TextsStay DEF OptionTable, RowOK
  <2>4. <<p>> \in Seq(Texts)
    <3>1. p \in Texts
      BY DEF Texts
    <3> QED BY <3>1
  <2>5. cp'[p].h \in {cp[p].h, <<p>>} /\ cp'[p].dep = cp[p].dep
    BY DEF OptionTable
  <2>6. cp'[p].h \in Seq(Texts)'
    BY <2>1, <2>4, <2>5, TextsStay DEF RowOK
  <2>7. HashOK(p)'
    <3>1. CASE cp'[p].h = <<p>>
      BY <3>1 DEF HashOK
    <3>2. CASE cp'[p].h = cp[p].h
      BY <2>1, <3>2 DEF RowOK, HashOK, Refused, NamedAfter
    <3> QED BY <2>5, <3>1, <3>2
  <2>8. cp'[p].actual # PSRC_NONE /\ Dep(p) # NoName => cp'[Dep(p)].actual # PSRC_NONE
    <3>1. Dep(p) # NoName => Dep(p) \in Names
      BY ChainFalls
    <3>2. CASE cp[p].actual # PSRC_NONE
      BY <1>8, <2>1, <3>1, <3>2 DEF RowOK, SourcesKept
    <3>3. CASE p = "Hostname"
      BY <3>3, DepIs
    <3>4. CASE p = "MountPoint"
      BY <1>1, <1>8, <3>1, <3>4 DEF FrameOK, At, SourcesKept
    <3>5. CASE cp[p].actual = PSRC_NONE /\ p \notin {"MountPoint", "Hostname"}
      BY <3>5 DEF OptionTable
    <3> QED BY <3>2, <3>3, <3>4, <3>5
  <2>9. cp'[p].dep \in {NoName, Dep(p)}
    BY <2>1, <2>5 DEF RowOK
  <2> QED BY <2>2, <2>3, <2>6, <2>7, <2>8, <2>9 DEF RowOK
<1>12. cp'["Hostname"].actual \in {PSRC_NONE, BIT(FUSE), BIT(DERIVED)}
  BY <1>4, <1>5, <1>6 DEF OptionTable
<1>13. row' < 25 => \A p \in UserRows : cp'[p].h \in {None, <<p>>}
  <2>1. row < 25 => \A p \in UserRows : cp[p].h \in {None, <<p>>}
    BY DEF IInv, TableInv
  <2>2. \A p \in UserRows : cp'[p].h = cp[p].h \/ cp'[p].h = <<p>>
    BY Indices DEF OptionTable
  <2> QED BY <2>1, <2>2
<1>14. TableInv'
  BY <1>11, <1>12, <1>13 DEF TableInv, OptionTable, IsTable
<1>15. cp'["MountPoint"].val = cp["MountPoint"].val
  <2>1. Desc["MountPoint"].typ = "FSVIS"
    BY <1>4, TypesAre
  <2>2. ~NamedBy("MountPoint", Arg)
    BY <2>1 DEF NamedBy, NumberTypes, SizedTypes
  <2> QED BY <1>4, <2>2 DEF OptionTable
<1>16. cp["MountPoint"].h # None
  BY <1>1 DEF FrameOK, At
<1>17. cp'["MountPoint"].actual \in {PSRC_NONE, BIT(FUSE)} /\ cp'["MountPoint"].h = cp["MountPoint"].h
  BY <1>4, <1>5, <1>6, <1>16 DEF OptionTable
<1> QED BY <1>8, <1>9, <1>10, <1>14, <1>15, <1>17

\* An option that finds a row leaves the value of the mount point.
LEMMA ParseParamKeeps ==
  ASSUME IInv, ParseParam
  PROVE  IInv' /\ Kept
<1>1. CASE End("crashed")
  BY <1>1, EndKeeps DEF EndCodes
<1>2. CASE End("CONFIG")
  BY <1>2, EndKeeps DEF EndCodes, ExitCodes
<1>3. CASE OptionTable /\ \E c : Parsed(c)
  <2>1. Running("parse") /\ Top.argi <= Len(in.args) /\ Arg.kind # "word"
    BY DEF ParseParam, Parsing
  <2>2. PICK c : Parsed(c)
    BY <1>3
  <2>3. in' = in /\ row' = row
    BY <2>2 DEF Parsed
  <2>4. /\ TableInv' /\ Kept /\ HashKept /\ SourcesKept
        /\ cp'["MountPoint"].h = cp["MountPoint"].h /\ cp'["MountPoint"].val = cp["MountPoint"].val
        /\ cp'["MountPoint"].actual \in {PSRC_NONE, BIT(FUSE)}
    BY <1>3, <2>1, <2>3, OptionKeeps
  <2> QED BY <2>1, <2>2, <2>4, NoWordKeeps
<1> QED BY <1>1, <1>2, <1>3, ParseParamDoes

\* The parser returns: the mount point has its source.
LEMMA ParseEndsKeeps ==
  ASSUME IInv, ParseEnds
  PROVE  IInv' /\ Kept
<1> DEFINE f == [Top EXCEPT !.pc = "sources", !.s = @ + 1, !.src = NONOPT]
<1>1. Running("parse") /\ Top.argi > Len(in.args) /\ Answer(NONOPT, cp) /\ UNCHANGED fuse /\ UNCHANGED slurm
  BY DEF ParseEnds
<1>2. /\ InParse /\ At = "MountPoint" /\ stack # <<>> /\ Top.pc = "parse" /\ Depth = 1 /\ row = 12
      /\ Top \in Frames /\ Top.s = NONOPT /\ Top.argi <= Len(in.args) + 1 /\ FrameOK(1)
      /\ Top = stack[1] /\ status = "running" /\ ret = Pending
  BY <1>1, ParsingIs
<1>3. /\ SetTop(f) /\ cp' = [cp EXCEPT !["MountPoint"].actual = BIT(NONOPT)]
      /\ in' = in /\ row' = row /\ ret' = ret /\ linked' = linked
      /\ term_count' = term_count /\ slcnf' = slcnf /\ loaded' = loaded /\ status' = status
  <2>1. NONOPT # PSRC_NONE
    BY DEF NONOPT, PSRC_NONE
  <2> QED BY <1>1, <1>2, <2>1 DEF Answer, fuse, slurm
<1>4. "MountPoint" \in Names
  BY Indices
<1>5. SetTo("MountPoint", BIT(NONOPT), cp["MountPoint"].val, cp["MountPoint"].h)
  BY <1>3, <1>4, IsTableNow, Exceptions
<1>6. TableInv' /\ Kept /\ HashKept /\ SourcesKept
  <2>1. BIT(NONOPT) \in Bits /\ cp["MountPoint"].actual # PSRC_NONE => BIT(NONOPT) <= cp["MountPoint"].actual
    <3>1. cp["MountPoint"].actual \in {PSRC_NONE, 64}
      BY <1>2, BitsAre DEF InParse
    <3> QED BY <3>1, BitsAre DEF Bits
  <2>2. BIT(NONOPT) \in Bits
    BY BitsAre DEF Bits
  <2>3. cp["MountPoint"].val \in Seq(Texts) /\ cp["MountPoint"].h \in Seq(Texts)
    BY <1>4 DEF IInv, TableInv, RowOK
  <2>4. Dep("MountPoint") # NoName => cp[Dep("MountPoint")].actual # PSRC_NONE
    BY <1>2 DEF FrameOK, At
  <2>5. TableInv /\ row \in Nat
    BY <1>2 DEF IInv
  <2>6. cp["MountPoint"].actual # PSRC_NONE => BIT(NONOPT) <= cp["MountPoint"].actual
    BY <2>1, <2>2
  <2> HIDE DEF IInv
  <2> QED BY <1>3, <1>4, <1>5, <2>2, <2>3, <2>4, <2>5, <2>6, SetKeeps
<1>7. f \in Frames /\ f.at = At /\ f.pc = "sources" /\ f.src = NONOPT
  <2>1. Top.s + 1 \in MAC .. 10 /\ NONOPT \in PSRC_NONE .. LeastTrusted
    BY <1>2 DEF NONOPT, MAC, PSRC_NONE, LeastTrusted, DERIVED
  <2>2. Top \in Frames
    BY <1>2
  <2> QED BY <2>1, <2>2 DEF Frames, At
<1> HIDE DEF f
<1>8. cp'["MountPoint"].actual = BIT(NONOPT) /\ cp'["MountPoint"].val = cp["MountPoint"].val
      /\ cp'["MountPoint"].h = cp["MountPoint"].h
  BY <1>5 DEF SetTo
<1>9. TopFits(f)
  <2>1. Dep(At) # NoName => cp[Dep(At)].actual # PSRC_NONE
    BY <1>2 DEF FrameOK, At
  <2>2. Dep(At) # NoName => cp'[Dep(At)].actual # PSRC_NONE
    BY <1>2, <1>4, <1>6, <2>1, ChainFalls DEF SourcesKept
  <2>3. NONOPT # PSRC_NONE /\ BIT(NONOPT) # PSRC_NONE
    BY BitsAre DEF NONOPT, PSRC_NONE
  <2> QED BY <1>2, <1>7, <1>8, <2>2, <2>3 DEF TopFits
<1>10. StackInv'
  BY <1>2, <1>3, <1>6, <1>9, SetTopStack DEF IInv
<1>11. Top' = f /\ Depth' = 1 /\ stack'[1] = f
  BY <1>2, <1>3, <1>7, SetTopFacts DEF IInv, StackInv
<1>12. MountInv'
  <2>1. Top.argi - 1 = Len(in.args)
    <3>1. Top.argi \in Nat
      BY <1>2 DEF Frames
    <3>2. Len(in.args) \in Nat
      BY InputsAssumption DEF IInv, OtherInv
    <3> QED BY <1>1, <1>2, <3>1, <3>2
  <2>2. Holds(Len(in.args))'
    BY <1>2, <1>3, <1>8, <2>1 DEF InParse, Holds
  <2>3. HasParsed'
    BY <1>2, <1>3, <1>7, <1>8, <1>11, <2>2 DEF InParse, HasParsed
  <2> QED BY <1>8, <2>3 DEF IInv, MountInv
<1>13. RetInv'
  BY <1>2, <1>3 DEF RetInv
<1>14. OtherInv'
  BY <1>2, <1>3 DEF IInv, OtherInv
<1> QED BY <1>6, <1>10, <1>12, <1>13, <1>14 DEF IInv

-----------------------------------------------------------------------------
(* Theorems                                                                *)

\* The check at the end.
LEMMA FinishKeeps ==
  ASSUME IInv, Finish
  PROVE  IInv' /\ Kept
<1>1. stack = <<>> /\ row = 31
  BY RowsAre DEF Finish
<1>2. End("complete") \/ End("INCOMPLETE")
  BY DEF Finish
<1>3. CASE End("complete")
  BY <1>1, <1>3, EndKeeps DEF EndCodes
<1>4. CASE End("INCOMPLETE")
  BY <1>4, EndKeeps DEF EndCodes, ExitCodes
<1> QED BY <1>2, <1>3, <1>4

\* The invariant holds at the start.
LEMMA Starts == Init => IInv
<1>1. SUFFICES ASSUME Init PROVE IInv
  OBVIOUS
<1>1a. cp = [p \in Names |-> [actual |-> PSRC_NONE, val |-> None, h |-> None, dep |-> NoName]]
  BY <1>1 DEF Init
<1>2. /\ in \in Inputs /\ row = 0 /\ stack = <<>> /\ ret = Pending /\ term_count = 0
      /\ slcnf = FALSE /\ loaded = {} /\ status = "running"
  BY <1>1 DEF Init
<1>2a. linked = [f \in slurm_fopts |-> NoName]
  BY <1>1 DEF Init
<1>3. /\ DOMAIN cp = Names
      /\ \A p \in Names : /\ DOMAIN cp[p] = {"actual", "val", "h", "dep"} /\ cp[p].actual = PSRC_NONE
                          /\ cp[p].val = None /\ cp[p].h = None /\ cp[p].dep = NoName
  BY <1>1a
<1>4. None \in Seq(Texts)
  BY DEF None
<1>5. TableInv
  BY <1>3, <1>4, Indices DEF TableInv, IsTable, RowOK, HashOK
<1>6. StackInv
  BY <1>2, RowsAre DEF StackInv, Depth
<1>7. RetInv
  BY <1>2 DEF RetInv
<1>8. MountInv
  <2>1. /\ cp["MountPoint"].h = None /\ cp["MountPoint"].val = None
        /\ cp["MountPoint"].actual = PSRC_NONE
    BY <1>3, Indices
  <2>2. Unparsed
    BY <1>2, <2>1 DEF Unparsed
  <2> QED BY <2>1, <2>2 DEF MountInv
<1>9. OtherInv
  BY <1>2, <1>2a DEF OtherInv
<1> QED BY <1>5, <1>6, <1>7, <1>8, <1>9 DEF IInv

\* It holds when nothing happens.
LEMMA Stutters ==
  ASSUME IInv, UNCHANGED vars
  PROVE  IInv' /\ Kept
<1>1. End(status)
  BY DEF vars, End, fuse, slurm
<1>2. status \in EndCodes /\ (status = "complete" => row = 31 /\ stack = <<>>)
  BY RowsAre DEF IInv, OtherInv, EndCodes
<1> QED BY <1>1, <1>2, EndKeeps

\* Every step keeps it, and the sources that there are.
LEMMA Keeps ==
  ASSUME IInv, [Next]_vars
  PROVE  IInv' /\ Kept
<1>1. CASE CollectCp
  BY <1>1, NextParamKeeps, CollectDependencyKeeps, DependencyReturnsKeeps, ReadDebugKeeps,
     SkipSourcesKeeps, ReturnKeeps, FinishKeeps, Zenon DEF CollectCp
<1>2. CASE Parse
  BY <1>2, ParseWordKeeps, ParseOptionKeeps, ParseParamKeeps, ParseEndsKeeps, Zenon DEF Parse
<1>3. CASE Collect
  BY <1>3, CollectMacConfKeeps, CollectEnvKeeps, ConstructMountOptsKeeps, CollectMountOptsKeeps,
     CollectDefaultKeeps, CollectHostnameKeeps, CollectPidKeeps, CalculIsControllerKeeps,
     CollectVersionKeeps, ConfUnavailableKeeps, CollectConfParamKeeps, CollectMessageKeeps,
     MessageUnavailableKeeps, CalculRnodePoolKeeps, RnodePoolUnavailableKeeps, Zenon DEF Collect
<1>4. CASE Ended
  BY <1>4, Stutters DEF Ended
<1>5. CASE UNCHANGED vars
  BY <1>5, Stutters
<1> QED BY <1>1, <1>2, <1>3, <1>4, <1>5 DEF Next

\* IInv holds in every state: what the theorems below rest on.
THEOREM Invariant == Spec => []IInv
<1>1. IInv /\ [Next]_vars => IInv'
  BY Keeps
<1> QED BY Starts, <1>1, PTL DEF Spec

\* A source is one bit of the mask, a text is one that rows and collectors give,
\* and collect_cp() is never deeper than three calls (collect_cp.c:33-60).
THEOREM Types == Spec => []TypeOK
<1>1. ASSUME IInv PROVE TypeOK
  <2>1. in \in Inputs /\ row \in 0 .. Len(slurmfs_config)
    BY <1>1 DEF IInv, OtherInv, StackInv
  <2>2. \A p \in Names : /\ cp[p].actual \in Bits \cup {0}
                         /\ {cp[p].val, cp[p].h} \subseteq Seq(Texts)
                         /\ cp[p].dep \in {NoName, Desc[p].dep}
    BY <1>1 DEF IInv, TableInv, RowOK, PSRC_NONE, Dep
  <2>3. Len(stack) <= 3 /\ (stack # <<>> => At \in Names /\ Top.pc \in {"deps", "sources", "parse"})
    <3>1. CASE stack = <<>>
      BY <3>1
    <3>2. CASE stack # <<>>
      <4>1. FrameOK(Depth) /\ Top \in Frames /\ Top = stack[Depth] /\ At \in Names /\ Depth \in Nat \ {0}
        BY <1>1, <3>2, TopIsFrame DEF IInv
      <4>2. Depth + Chain(At) <= 3 /\ Chain(At) \in 0 .. 2
        BY <4>1, ChainFalls DEF FrameOK, At
      <4>3. Depth <= 3
        BY <4>1, <4>2
      <4>4. Top.pc \in {"deps", "sources", "parse"}
        BY <4>1 DEF Frames
      <4> QED BY <4>1, <4>3, <4>4 DEF Depth
    <3> QED BY <3>1, <3>2
  <2>4. ret \in Bits \cup {Pending, 0}
    BY <1>1 DEF IInv, RetInv, PSRC_NONE
  <2>5. term_count \in 0 .. 1
    BY <1>1 DEF IInv, MountInv, Unparsed, InParse, HasParsed
  <2>6. /\ linked \in [slurm_fopts -> Names \cup {NoName}] /\ slcnf \in BOOLEAN /\ loaded \subseteq Names
        /\ status \in {"running", "complete", "crashed"} \cup ExitCodes
    BY <1>1 DEF IInv, OtherInv
  <2> QED BY <2>1, <2>2, <2>3, <2>4, <2>5, <2>6 DEF TypeOK
<1> QED BY <1>1, Invariant, PTL

\* collect_cp.c:33: no parameter has a source before the one it depends on.
THEOREM DependenciesKept == Spec => []DependenciesFirst
<1>1. IInv => DependenciesFirst
  BY DEF IInv, TableInv, RowOK, DependenciesFirst, Dep
<1> QED BY <1>1, Invariant, PTL

\* ingest.c:3: a source that was found is only replaced by a more trusted one, and
\* a value only by a word of the command line (collect_fuse.c:43) or by the place
\* of an option that names its row (collect_fuse.c:97).
THEOREM SourcesStay == Spec => SourceKept
<1>1. IInv /\ [Next]_vars =>
        [\A p \in Names : cp[p].actual # PSRC_NONE =>
          /\ cp'[p].actual \in 1 .. cp[p].actual
          /\ cp'[p].val # cp[p].val =>
                \/ cp'[p].actual = BIT(FUSE)
                \/ \E i \in DOMAIN in.args :
                      NamedBy(p, in.args[i]) /\ cp'[p].val = Address(in.args[i].text)]_cp
  BY Keeps DEF Kept
<1> QED BY <1>1, Invariant, PTL DEF Spec, SourceKept

\* cp_get.c:5: whatever has been collected, a lookup finds the row of that name,
\* unless the machine or a user is called like one.
THEOREM Resolves == Spec => []NameResolves
<1>1. ASSUME IInv, NEW nm \in Names \ {in.hostname, in.user, in.duser}
      PROVE  Lookup(nm) = nm
  <2> DEFINE q == Lookup(nm)
  <2>1. CASE q = ByName(nm)
    BY <2>1 DEF ByName
  <2>2. CASE q \in Names /\ cp[q].h = <<nm>>
    <3>1. HashOK(q)
      BY <1>1, <2>2 DEF IInv, TableInv, RowOK
    <3>2. <<nm>> # None
      BY DEF None
    <3>3. ~NamedAfter(q, nm)
      BY DEF NamedAfter
    <3> HIDE DEF q
    <3>4. cp[q].h = <<q>>
      BY <2>2, <3>1, <3>2, <3>3 DEF HashOK
    <3> QED BY <2>2, <3>4 DEF q
  <2> QED BY <2>1, <2>2, LookupIs
<1>2. IInv => NameResolves
  BY <1>1 DEF NameResolves
<1> QED BY <1>2, Invariant, PTL

\* collect_fuse.c:43: when ingestion completes, the mount point is the last word of
\* the command line that typ_check() accepts, however many there are.
THEOREM MountPointHeld == Spec => []MountPointArg
<1>1. ASSUME IInv, status = "complete", in.hostname # "MountPoint"
      PROVE  cp["MountPoint"].val = LastWord(in.args, Len(in.args))
  <2>1. row = 31 /\ stack = <<>>
    BY <1>1, RowsAre DEF IInv, OtherInv
  <2>2. ~Unparsed /\ ~InParse
    BY <2>1 DEF Unparsed, InParse
  <2> QED BY <1>1, <2>2 DEF IInv, MountInv, HasParsed, Holds
<1>2. ASSUME IInv
      PROVE  {i \in DOMAIN in.args : in.args[i].kind = "word" /\ in.args[i].ok} = WordsOf(in.args, Len(in.args))
  <2>1. \A x \in Inputs : x.args \in Seq([kind : Kinds, text : STRING, ok : BOOLEAN])
    BY InputsAssumption, Zenon
  <2>2. DOMAIN in.args = 1 .. Len(in.args)
    BY <1>2, <2>1 DEF IInv, OtherInv
  <2> QED BY <2>2 DEF WordsOf
<1>3. IInv => MountPointArg
  <2>1. SUFFICES ASSUME IInv, status = "complete", in.hostname # "MountPoint" PROVE MountPointArg
    BY DEF MountPointArg
  <2> QED BY <1>1, <1>2, <2>1 DEF MountPointArg, LastWord
<1> QED BY <1>3, Invariant, PTL
=============================================================================
