------------------------- MODULE IngestOriginProofs -------------------------
(***************************************************************************)
(* Where each parameter has its value from: no source gives it while a     *)
(* more trusted one has it (MostTrusted), and ingestion ends as Outcome    *)
(* says.                                                                   *)
(*                                                                         *)
(* A collector lacks the parameter, gives it, turns to the arguments or    *)
(* ends the process (Collects).  A step leaves a row as it was (Same) or   *)
(* gives it the most trusted source that has it (Gains), because a call    *)
(* has asked every source before that one (Searched, of ModeInv).  What    *)
(* the collected rows have (PassedInv) then leaves nothing for             *)
(* config_consistent_complete() to find, unless Outcome allows it.         *)
(***************************************************************************)
EXTENDS IngestProofs

-----------------------------------------------------------------------------
(* The table                                                               *)

\* Which rows come early, and where those are whose turn matters.
LEMMA Turns ==
  ASSUME NEW i \in 1 .. 31
  PROVE  LET p == slurmfs_config[i].nm
         IN /\ p \in Names
            /\ i <= 5 => p \in Early
            /\ i > 5 /\ p \in Early => p = "slurm_api_version"
            /\ p = "Debug" <=> i = 5
            /\ p = "Hostname" <=> i = 9
            /\ i = 2 <=> p = "ClusterName"
            /\ i = 10 <=> p = "isController"
            /\ p = "slurm_user_name" <=> i = 25
            /\ p = "slurmd_user_name" <=> i = 26
<1> DEFINE Fits(n, p) ==
             /\ n <= 5 => p \in Early
             /\ n > 5 /\ p \in Early => p = "slurm_api_version"
             /\ p = "Debug" <=> n = 5
             /\ p = "Hostname" <=> n = 9
             /\ n = 2 <=> p = "ClusterName"
             /\ n = 10 <=> p = "isController"
             /\ p = "slurm_user_name" <=> n = 25
             /\ p = "slurmd_user_name" <=> n = 26
<1>1. \A nm, typ, al, db, dep, dflt : Param(nm, typ, al, db, dep, dflt).nm = nm
  BY DEF Param
<1>2. Fits(i, slurmfs_config[i].nm)
  BY <1>1 DEF slurmfs_config, OfSlurm, Early
<1>3. slurmfs_config[i].nm \in Names
  BY RowsAre DEF Names
<1> QED BY <1>2, <1>3

\* The types whose value is a field of the controller's configuration.
LEMMA Fields ==
  DOMAIN ConfigField = {"CLUSTER", "CNTRLMACH", "TMOUT", "UID", "UNAME", "DUNAME"}
  BY DEF ConfigField

\* A row that the resource manager may leave without an answer.
Doubtful(p) == p = "jobs" \/ Desc[p].typ \in DOMAIN ConfigField

\* The sources that rows may have.
LEMMA Origins ==
  ASSUME NEW p \in Names
  PROVE  /\ Desc[p].allowed \cup Desc[p].debug
              \subseteq {MAC, SLURM, ENV, MNT, NONOPT, DEFAULT, DERIVED}
         /\ Doubtful(p) => /\ Desc[p].allowed = {SLURM}
                           /\ Desc[p].debug \subseteq {SLURM, MNT}
                           /\ MNT \in Desc[p].debug => p = "ControlMachine"
         /\ p = "ControlMachine" => Doubtful(p)
         /\ p \in {"Debug", "context"} => Desc[p].allowed = {MAC, DEFAULT}
         /\ p = "isController" => Desc[p].allowed = {DERIVED} /\ Desc[p].debug = {DERIVED, DEFAULT}
         /\ p = "rnodepool" => Desc[p].allowed = {DERIVED} /\ Desc[p].debug = {DERIVED}
<1> DEFINE Fits(nm, typ, al, db) ==
             /\ al \cup db \subseteq {MAC, SLURM, ENV, MNT, NONOPT, DEFAULT, DERIVED}
             /\ nm = "jobs" \/ typ \in {"CLUSTER", "CNTRLMACH", "TMOUT", "UID", "UNAME", "DUNAME"} =>
                  /\ al = {SLURM} /\ db \subseteq {SLURM, MNT}
                  /\ MNT \in db => nm = "ControlMachine"
             /\ nm = "ControlMachine" => typ = "CNTRLMACH"
             /\ nm \in {"Debug", "context"} => al = {MAC, DEFAULT}
             /\ nm = "isController" => al = {DERIVED} /\ db = {DERIVED, DEFAULT}
             /\ nm = "rnodepool" => al = {DERIVED} /\ db = {DERIVED}
           Row(r) == Fits(r.nm, r.typ, r.allowed, r.debug)
<1>1. \A nm, typ, al, db, dep, dflt : Fits(nm, typ, al, db) => Row(Param(nm, typ, al, db, dep, dflt))
  BY DEF Param
<1> HIDE DEF Row
<1>2. \A i \in 1 .. 31 : Row(slurmfs_config[i])
  BY <1>1 DEF slurmfs_config, OfSlurm, MAC, SLURM, ENV, MNT, NONOPT, DEFAULT, DERIVED
<1>3. PICK i \in 1 .. 31 : Desc[p] = slurmfs_config[i] /\ slurmfs_config[i].nm = p
  BY DescIs
<1>4. Row(Desc[p]) /\ Desc[p].nm = p
  BY <1>2, <1>3
<1> QED BY <1>4, Fields DEF Row, Doubtful

\* The type of the controller's machine.
LEMMA MachineType ==
  ASSUME NEW p \in Names
  PROVE  p = "ControlMachine" <=> Desc[p].typ = "CNTRLMACH"
<1> DEFINE Fits(nm, typ) == nm = "ControlMachine" <=> typ = "CNTRLMACH"
           Row(r) == Fits(r.nm, r.typ)
<1>1. \A nm, typ, al, db, dep, dflt : Fits(nm, typ) => Row(Param(nm, typ, al, db, dep, dflt))
  BY DEF Param
<1> HIDE DEF Row
<1>2. \A i \in 1 .. 31 : Row(slurmfs_config[i])
  BY <1>1 DEF slurmfs_config, OfSlurm
<1>3. PICK i \in 1 .. 31 : Desc[p] = slurmfs_config[i] /\ slurmfs_config[i].nm = p
  BY DescIs
<1>4. Row(Desc[p]) /\ Desc[p].nm = p
  BY <1>2, <1>3
<1> QED BY <1>4 DEF Row

\* What the early rows depend on, and what Debug has for a default.
LEMMA EarlyRows ==
  ASSUME NEW p \in Names
  PROVE  /\ p \in Early => Dep(p) \in Early \cup {NoName}
         /\ p = "Debug" => Desc[p].typ = "TRUTH" /\ Desc[p].dflt = "TRUE"
         /\ p = "context" => Desc[p].typ = "CONTEXT"
         /\ p = "ClusterName" => Dep(p) = "slurm_api_version"
         /\ p = "isController" => Dep(p) = "ControlMachine"
         /\ p \in UserRows => Dep(p) # NoName
<1> DEFINE Fits(nm, typ, dep, dflt) ==
             /\ nm \in Early => dep \in Early \cup {NoName}
             /\ nm = "Debug" => typ = "TRUTH" /\ dflt = "TRUE"
             /\ nm = "context" => typ = "CONTEXT"
             /\ nm = "ClusterName" => dep = "slurm_api_version"
             /\ nm = "isController" => dep = "ControlMachine"
             /\ nm \in UserRows => dep # NoName
           Row(r) == Fits(r.nm, r.typ, r.dep, r.dflt)
<1>1. \A nm, typ, al, db, dep, dflt : Fits(nm, typ, dep, dflt) => Row(Param(nm, typ, al, db, dep, dflt))
  BY DEF Param
<1> HIDE DEF Row
<1>2. \A i \in 1 .. 31 : Row(slurmfs_config[i])
  BY <1>1 DEF slurmfs_config, OfSlurm, Early, UserRows, NoName
<1>3. PICK i \in 1 .. 31 : Desc[p] = slurmfs_config[i] /\ slurmfs_config[i].nm = p
  BY DescIs
<1>4. Row(Desc[p]) /\ Desc[p].nm = p
  BY <1>2, <1>3
<1> QED BY <1>4 DEF Row, Dep

-----------------------------------------------------------------------------
(* Names                                                                   *)

\* Debug is found by its own name: the rows whose hash may have become
\* another text come behind it.
LEMMA DebugIs ==
  ASSUME IInv, DebugInv
  PROVE  Lookup("Debug") = "Debug" /\ cp["Debug"].h \in {None, <<"Debug">>}
<1>1. "Debug" \in Names /\ "Hostname" \in Names /\ UserRows \subseteq Names
  BY Indices
<1>2. \A p \in Names : cp[p].h = <<"Debug">> => p \in {"Debug", "Hostname"} \cup UserRows
  <2>1. ASSUME NEW p \in Names, cp[p].h = <<"Debug">>
        PROVE  p \in {"Debug", "Hostname"} \cup UserRows
    <3>1. HashOK(p)
      BY DEF IInv, TableInv, RowOK
    <3> QED BY <1>1, <2>1, <3>1 DEF HashOK, NamedAfter, UserRows, None
  <2> QED BY <2>1
<1>3. cp["Debug"].h \in {None, <<"Debug">>}
  <2>1. HashOK("Debug") /\ "Debug" \notin PathRows \cup UserRows \cup {"Hostname"}
    BY <1>1, EarlyRows DEF IInv, TableInv, RowOK, PathRows, UserRows
  <2> QED BY <2>1 DEF HashOK
<1> DEFINE hits == {i \in Rows : cp[slurmfs_config[i].nm].h = <<"Debug">>}
           first == CHOOSE i \in hits : \A j \in hits : i <= j
<1>4. Lookup("Debug") = IF hits = {} THEN ByName("Debug") ELSE slurmfs_config[first].nm
  BY Zenon DEF Lookup
<1>5. \A i \in hits : i \in {5, 9, 25, 26}
  BY <1>2, RowsAre, Turns DEF UserRows
<1>6. CASE row < 5
  <2>1. \A i \in hits : i = 5
    <3>1. row < 9 /\ row < 25
      BY <1>6, RowsAre DEF IInv, StackInv
    <3>2. cp["Hostname"].h # <<"Debug">>
      BY <3>1 DEF DebugInv, None
    <3>3. \A p \in UserRows : cp[p].h # <<"Debug">>
      BY <3>1 DEF IInv, TableInv, None, UserRows
    <3> QED BY <1>5, <3>2, <3>3, RowsAre, Turns DEF UserRows
  <2>4. hits \in SUBSET Rows
    OBVIOUS
  <2> HIDE DEF hits
  <2>5. hits # {} => \E i \in hits : \A j \in hits : i <= j
    BY <2>4, FirstRow
  <2>2. hits # {} => first \in hits
    BY <2>5, Zenon
  <2>3. hits # {} => slurmfs_config[first].nm = "Debug"
    BY <2>1, <2>2, Turns
  <2> QED BY <1>1, <1>3, <1>4, <2>3 DEF ByName
<1>7. CASE row >= 5
  <2>1. 5 \in hits
    <3>1. cp["Debug"].h = <<"Debug">>
      BY <1>3, <1>7 DEF DebugInv
    <3>2. 5 \in Rows /\ slurmfs_config[5].nm = "Debug"
      BY RowsAre, Turns
    <3> QED BY <3>1, <3>2
  <2>2. \A j \in hits : 5 <= j
    BY <1>5
  <2> HIDE DEF hits
  <2>3. first \in hits /\ \A j \in hits : first <= j
    BY <2>1, <2>2, Zenon
  <2>4. first = 5
    BY <1>5, <2>1, <2>3
  <2>5. slurmfs_config[5].nm = "Debug"
    BY Turns
  <2>6. Lookup("Debug") = slurmfs_config[first].nm
    BY <1>4, <2>1, Zenon
  <2> QED BY <1>3, <2>4, <2>5, <2>6, Zenon
<1> HIDE DEF hits, first
<1>8. row < 5 \/ row >= 5
  BY RowsAre DEF IInv, StackInv
<1> QED BY <1>6, <1>7, <1>8, Zenon

-----------------------------------------------------------------------------
(* What a collector does                                                   *)

\* The options that are found to be the row's own.
LinksOwn ==
    \A f \in slurm_fopts : linked'[f] = linked[f] \/ (linked'[f] = At /\ cp[At].h = <<f>>)

\* The innermost call goes on to the next source.
Turned(s, src) ==
    /\ Trying(s) /\ SetTop([Top EXCEPT !.pc = "sources", !.s = @ + 1, !.src = src])
    /\ UNCHANGED <<in, row, status, term_count>> /\ (slcnf => slcnf') /\ LinksOwn

\* It had nothing from this one.
Lacks(s) ==
    /\ Turned(s, PSRC_NONE) /\ LinksTo(cp, cp')
    /\ ~Offers(s, At) \/ (s = SLURM /\ MayFail(At))

\* What is told of some rows.
Told(s, v, h) ==
    /\ At = "Debug" /\ s = DEFAULT => v = <<"TRUE">>
    /\ At = "ControlMachine" /\ s = SLURM => slcnf' /\ in.cname # NoText
    /\ At \in UserRows /\ s = SLURM /\ User(At) # NoText => h = <<User(At)>>
    /\ At = "rnodepool" /\ s = DERIVED => in.parts

\* It has a source.
Gives(s, v, h) ==
    /\ s \in {SLURM, ENV, MNT, DEFAULT, DERIVED} /\ Turned(s, s) /\ SetTo(At, BIT(s), v, h)
    /\ Offers(s, At) /\ Told(s, v, h)

\* It parses the command line.
Parses ==
    /\ Trying(NONOPT) /\ SetTop([Top EXCEPT !.pc = "parse"])
    /\ UNCHANGED <<in, row, cp, status, slcnf>> /\ LinksOwn

\* It ends the process, for a reason.
Excused(code) ==
    /\ code = "crashed" => in.mac = "line" \/ \E i \in DOMAIN in.args : FindsRow(in.args[i])
    /\ code = "INTERNAL" =>
          \/ in.mac = "bare" \/ "Debug" \in {in.user, in.duser}
          \/ At = "ControlMachine" /\ in.cname = NoText /\ in.machine # NoText
          \/ Top.pc = "deps" /\ Top.di # NoName /\ cp[Top.di].actual = PSRC_NONE
    /\ code = "CONFIG" => in.refused # {} \/ \E i \in DOMAIN in.args : FindsRow(in.args[i])
Stops == \E code \in (ExitCodes \ {"INCOMPLETE"}) \cup {"crashed"} : End(code) /\ Excused(code)

\* What a collector does.
Collects ==
    \/ \E s \in MAC .. LeastTrusted : Lacks(s)
    \/ \E s \in MAC .. LeastTrusted, v \in Seq(Texts), h \in Seq(Texts) : Gives(s, v, h)
    \/ Parses \/ Stops

\* The process may end without more ado.
LEMMA StopsFor ==
  ASSUME NEW code \in {"SLURM", "ASSERT"}, End(code)
  PROVE  Collects
  BY DEF Collects, Stops, Excused, ExitCodes

\* So it may for a text that is refused.
LEMMA StopsAt ==
  ASSUME NEW text, Refused(text), End("CONFIG")
  PROVE  Collects
<1>1. Excused("CONFIG")
  BY DEF Excused, Refused
<1> QED BY <1>1 DEF Collects, Stops, ExitCodes

\* An answer moves on to the next source.
LEMMA AnswerTurns ==
  ASSUME IInv, NEW s, Trying(s), NEW src, NEW c, Answer(src, c), UNCHANGED <<linked, term_count>>,
         slcnf => slcnf'
  PROVE  Turned(s, src)
  BY DEF Answer, Turned, LinksOwn

\* An answer that sets nothing.
LEMMA NoneLacks ==
  ASSUME IInv, NEW s \in MAC .. LeastTrusted, Trying(s), NEW c, Answer(PSRC_NONE, c), LinksTo(cp, c),
         UNCHANGED fuse, UNCHANGED slurm,
         ~Offers(s, At) \/ (s = SLURM /\ MayFail(At))
  PROVE  Collects
<1>1. cp' = c
  BY DEF Answer
<1>2. UNCHANGED <<linked, term_count>> /\ (slcnf => slcnf')
  BY DEF fuse, slurm
<1>3. Turned(s, PSRC_NONE)
  BY <1>2, AnswerTurns
<1>4. Lacks(s)
  BY <1>1, <1>3 DEF Lacks
<1> QED BY <1>4 DEF Collects

\* The four sets that collectors answer with.
LEMMA AnswerSets ==
  ASSUME IInv, NEW s \in {SLURM, ENV, MNT, DEFAULT, DERIVED}, Trying(s), NEW v, NEW h
  PROVE  /\ s \in MAC .. LeastTrusted /\ At \in Names
         /\ cp[At].val \in Seq(Texts) /\ cp[At].h \in Seq(Texts)
         /\ Answer(s, cp) => SetTo(At, BIT(s), cp[At].val, cp[At].h)
         /\ Answer(s, [cp EXCEPT ![At].val = v]) => SetTo(At, BIT(s), v, cp[At].h)
         /\ Answer(s, CharPtr(v)) => SetTo(At, BIT(s), v, v)
<1>1. At \in Names /\ s # PSRC_NONE
  BY TryingAt DEF PSRC_NONE, SLURM, ENV, MNT, DEFAULT, DERIVED
<1>2. s \in MAC .. LeastTrusted
  BY DEF MAC, LeastTrusted, SLURM, ENV, MNT, DEFAULT, DERIVED
<1>3. ASSUME Answer(s, cp) PROVE SetTo(At, BIT(s), cp[At].val, cp[At].h)
  <2>1. cp' = [cp EXCEPT ![At].actual = BIT(s)]
    BY <1>1, <1>3 DEF Answer
  <2> QED BY <1>1, <2>1, IsTableNow, Exceptions
<1>4. ASSUME Answer(s, [cp EXCEPT ![At].val = v]) PROVE SetTo(At, BIT(s), v, cp[At].h)
  <2>1. cp' = [[cp EXCEPT ![At].val = v] EXCEPT ![At].actual = BIT(s)]
    BY <1>1, <1>4 DEF Answer
  <2> QED BY <1>1, <2>1, IsTableNow, Exceptions
<1>5. ASSUME Answer(s, CharPtr(v)) PROVE SetTo(At, BIT(s), v, v)
  <2>1. cp' = [[cp EXCEPT ![At].val = v, ![At].h = v] EXCEPT ![At].actual = BIT(s)]
    BY <1>1, <1>5 DEF Answer, CharPtr
  <2> QED BY <1>1, <2>1, IsTableNow, Exceptions
<1> QED BY <1>1, <1>2, <1>3, <1>4, <1>5, SelfSet

\* An answer that gives a source.
LEMMA SomeGives ==
  ASSUME IInv, NEW s \in {SLURM, ENV, MNT, DEFAULT, DERIVED}, Trying(s), NEW c, Answer(s, c),
         NEW v \in Seq(Texts), NEW h \in Seq(Texts), SetTo(At, BIT(s), v, h),
         UNCHANGED <<linked, term_count>>, slcnf => slcnf', Offers(s, At), Told(s, v, h)
  PROVE  Collects
<1>1. Turned(s, s)
  BY AnswerTurns
<1>2. Gives(s, v, h)
  BY <1>1 DEF Gives
<1>3. s \in MAC .. LeastTrusted
  BY DEF MAC, LeastTrusted, SLURM, ENV, MNT, DEFAULT, DERIVED
<1> QED BY <1>2, <1>3 DEF Collects

\* set_val_l() gives one, set_val_charptr() may refuse to.
LEMMA SetValGives ==
  ASSUME IInv, NEW s \in {SLURM, ENV, MNT, DEFAULT, DERIVED}, Trying(s), NEW text \in Texts,
         SetVal(s, <<text>>), Offers(s, At), Told(s, <<text>>, cp[At].h)
  PROVE  Collects
<1>1. Answer(s, [cp EXCEPT ![At].val = <<text>>]) /\ UNCHANGED fuse /\ UNCHANGED slurm
  BY DEF SetVal
<1>2. UNCHANGED <<linked, term_count>> /\ (slcnf => slcnf')
  BY <1>1 DEF fuse, slurm
<1>3. SetTo(At, BIT(s), <<text>>, cp[At].h) /\ cp[At].h \in Seq(Texts)
  BY <1>1, AnswerSets
<1>4. <<text>> \in Seq(Texts)
  OBVIOUS
<1> QED BY <1>1, <1>2, <1>3, <1>4, SomeGives

\* A setter of a text gives the row that text, or refuses it.
LEMMA CharPtrGives ==
  ASSUME IInv, NEW s \in {SLURM, ENV, MNT, DEFAULT, DERIVED}, Trying(s), NEW path \in Seq(Texts),
         SetCharPtr(s, path), Offers(s, At), \A h : Told(s, path, h)
  PROVE  Collects
<1>1. CASE Refused(path)
  BY <1>1, StopsAt DEF SetCharPtr
<1>2. CASE ~Refused(path)
  <2>1. Answer(s, CharPtr(path)) /\ UNCHANGED fuse /\ UNCHANGED slurm
    BY <1>2 DEF SetCharPtr
  <2>2. UNCHANGED <<linked, term_count>> /\ (slcnf => slcnf')
    BY <2>1 DEF fuse, slurm
  <2>3. SetTo(At, BIT(s), path, path)
    BY <2>1, AnswerSets
  <2> QED BY <2>1, <2>2, <2>3, SomeGives
<1> QED BY <1>1, <1>2

-----------------------------------------------------------------------------
(* The collectors                                                          *)

\* The sources are numbers, of which no two are the same.
LEMMA Numbers ==
  /\ PSRC_NONE = 0 /\ MAC = 1 /\ SLURM = 2 /\ ENV = 3 /\ MNT = 4 /\ NONOPT = 5 /\ FUSE = 6
  /\ DEFAULT = 8 /\ DERIVED = 9 /\ LeastTrusted = 9
  BY DEF PSRC_NONE, MAC, SLURM, ENV, MNT, NONOPT, FUSE, DEFAULT, DERIVED, LeastTrusted

\* What each source has.
LEMMA OffersIs ==
  ASSUME NEW p
  PROVE  /\ Offers(ENV, p) <=> p \in in.env
         /\ Offers(MNT, p) <=> p \in slurm_fopts
         /\ Offers(DEFAULT, p) <=> HasDefault(p) /\ Desc[p].typ # "CONTEXT"
         /\ Offers(DERIVED, p) <=> p # "isController"
         /\ ~Offers(MAC, p) /\ Offers(SLURM, p) /\ Offers(NONOPT, p)
  BY Numbers DEF Offers

\* While a row is searched for, its hash is that of its name.
LEMMA OwnHash ==
  ASSUME IInv, NameHash, NEW s, Trying(s)
  PROVE  cp[At].h = <<At>> /\ cp[At].actual = PSRC_NONE /\ At \in Names
<1>1. stack # <<>> /\ Top.pc = "sources" /\ Top.src = PSRC_NONE
  BY DEF Trying, Searching, Running
<1>2. FrameOK(Depth) /\ At \in Names /\ Top = stack[Depth]
  BY <1>1, TopIsFrame DEF IInv
<1>3. cp[At].h # None /\ cp[At].actual = PSRC_NONE
  BY <1>1, <1>2 DEF FrameOK, At
<1> QED BY <1>2, <1>3 DEF NameHash

\* collect_mac_conf() has nothing, or ends the process.
LEMMA CollectMacConfDoes ==
  ASSUME IInv, CollectMacConf
  PROVE  Collects
<1>1. Trying(MAC)
  BY DEF CollectMacConf
<1>2. CASE MacHas(At)
  <2>1. /\ in.mac \in {"bare", "line"}
        /\ in.mac = "line" => End("crashed")
        /\ in.mac # "line" => End("INTERNAL")
    BY <1>2 DEF CollectMacConf, MacHas
  <2>2. CASE in.mac = "line"
    BY <2>1, <2>2 DEF Collects, Stops, Excused
  <2>3. CASE in.mac = "bare"
    BY <2>1, <2>3 DEF Collects, Stops, Excused, ExitCodes
  <2> QED BY <2>1, <2>2, <2>3
<1>3. CASE ~MacHas(At)
  <2>1. Answer(PSRC_NONE, LookedUp("SLURM_MAC_CONF")) /\ UNCHANGED fuse /\ UNCHANGED slurm
    BY <1>3 DEF CollectMacConf
  <2>2. LinksTo(cp, LookedUp("SLURM_MAC_CONF"))
    BY IsTableNow, LookedUpLinks, Indices
  <2>3. MAC \in MAC .. LeastTrusted
    BY Numbers
  <2>4. ~Offers(MAC, At)
    BY OffersIs
  <2> QED BY <1>1, <2>1, <2>2, <2>3, <2>4, NoneLacks
<1> QED BY <1>2, <1>3

\* collect_env() has what the environment has.
LEMMA CollectEnvDoes ==
  ASSUME IInv, CollectEnv
  PROVE  Collects
<1>1. Trying(ENV) /\ Answer(IF At \in in.env THEN ENV ELSE PSRC_NONE, cp) /\ UNCHANGED fuse /\ UNCHANGED slurm
  BY DEF CollectEnv
<1>2. UNCHANGED <<linked, term_count>> /\ (slcnf => slcnf')
  BY <1>1 DEF fuse, slurm
<1>3. ENV \in MAC .. LeastTrusted
  BY Numbers
<1>4. CASE At \notin in.env
  <2>1. ~Offers(ENV, At)
    BY <1>4, OffersIs
  <2>2. Answer(PSRC_NONE, cp)
    BY <1>1, <1>4
  <2> QED BY <1>1, <1>3, <2>1, <2>2, IsTableNow, NoneLacks
<1>5. CASE At \in in.env
  <2>1. Offers(ENV, At) /\ Answer(ENV, cp)
    BY <1>1, <1>5, OffersIs
  <2>2. Told(ENV, cp[At].val, cp[At].h)
    BY Numbers DEF Told
  <2> QED BY <1>1, <1>2, <2>1, <2>2, AnswerSets, SomeGives
<1> QED BY <1>4, <1>5

\* No option is found but the row's own.
LEMMA LinkFoptsOwn ==
  ASSUME LinkFopts
  PROVE  LinksOwn
  BY DEF LinkFopts, LinksOwn, FoptsOf

\* An option of mount_opts has the row that is found by its name.
LEMMA ConstructMountOptsDoes ==
  ASSUME IInv, NameHash, ConstructMountOpts
  PROVE  Collects
<1>1. /\ Trying(MNT) /\ Answer(IF FoptsOf(At) = {} THEN PSRC_NONE ELSE MNT, cp)
      /\ LinkFopts /\ term_count' = term_count /\ slcnf' = slcnf
  BY DEF ConstructMountOpts, slurm
<1>2. cp[At].h = <<At>>
  BY <1>1, OwnHash
<1>3. FoptsOf(At) # {} <=> At \in slurm_fopts
  BY <1>2 DEF FoptsOf
<1>4. MNT \in MAC .. LeastTrusted
  BY Numbers
<1>5. ASSUME NEW src, Answer(src, cp) PROVE Turned(MNT, src)
  BY <1>1, <1>5, LinkFoptsOwn DEF Answer, Turned
<1>6. CASE At \notin slurm_fopts
  <2>1. Answer(PSRC_NONE, cp)
    BY <1>1, <1>3, <1>6
  <2>2. cp' = cp
    BY <2>1 DEF Answer
  <2>3. ~Offers(MNT, At)
    BY <1>6, OffersIs
  <2>4. Lacks(MNT)
    BY <1>5, <2>1, <2>2, <2>3, IsTableNow DEF Lacks
  <2> QED BY <1>4, <2>4 DEF Collects
<1>7. CASE At \in slurm_fopts
  <2>1. Answer(MNT, cp)
    BY <1>1, <1>3, <1>7
  <2>2. Offers(MNT, At)
    BY <1>7, OffersIs
  <2>3. /\ SetTo(At, BIT(MNT), cp[At].val, cp[At].h)
        /\ cp[At].val \in Seq(Texts) /\ cp[At].h \in Seq(Texts)
    BY <1>1, <2>1, AnswerSets
  <2>4. Told(MNT, cp[At].val, cp[At].h)
    BY Numbers DEF Told
  <2>5. Gives(MNT, cp[At].val, cp[At].h)
    BY <1>5, <2>1, <2>2, <2>3, <2>4 DEF Gives
  <2> QED BY <1>4, <2>3, <2>5 DEF Collects
<1> QED BY <1>6, <1>7

\* Without an option the mount point is looked for in the arguments.
LEMMA CollectMountOptsDoes ==
  ASSUME IInv, NameHash, CollectMountOpts
  PROVE  Collects
<1>1. Trying(NONOPT)
  BY DEF CollectMountOpts
<1>2. /\ At \in Names /\ stack # <<>> /\ Top.pc = "sources" /\ Permitted(At, NONOPT, Top.debug)
  BY <1>1, TryingAt DEF Trying, Searching, Running
<1>3. At = "MountPoint" /\ cp[At].h = <<"MountPoint">> /\ cp["MountPoint"].actual = PSRC_NONE
  BY <1>1, <1>2, SourcesAre, OwnHash DEF Permitted
<1>4. "MountPoint" \in FoptsOf(At)
  BY <1>3 DEF FoptsOf, slurm_fopts, Mandatory
<1>5. Unparsed
  <2>1. ~InParse
    BY <1>2 DEF InParse
  <2>2. ~HasParsed
    BY <1>3, BitsAre, Numbers DEF HasParsed
  <2> QED BY <2>1, <2>2 DEF IInv, MountInv
<1>6. ~(term_count > 1)
  BY <1>5 DEF Unparsed
<1>7. Parses
  BY <1>1, <1>4, <1>6, LinkFoptsOwn DEF CollectMountOpts, Parses, slurm
<1> QED BY <1>7 DEF Collects

\* What is told of the rows that have a default.
LEMMA DefaultTold ==
  ASSUME At \in Names, NEW v, NEW h, At = "Debug" => v = <<"TRUE">>
  PROVE  Told(DEFAULT, v, h)
  BY Numbers DEF Told

\* collect_default() has what the table has.
LEMMA CollectDefaultDoes ==
  ASSUME IInv, CollectDefault
  PROVE  Collects
<1>1. Trying(DEFAULT) /\ DEFAULT \in MAC .. LeastTrusted
  BY Numbers DEF CollectDefault
<1>2. At \in Names
  BY <1>1, TryingAt
<1>3. CASE ~HasDefault(At) \/ Desc[At].typ = "CONTEXT"
  <2>1. Answer(PSRC_NONE, cp) /\ UNCHANGED fuse /\ UNCHANGED slurm
    BY <1>3 DEF CollectDefault
  <2>2. ~Offers(DEFAULT, At)
    BY <1>3, OffersIs
  <2> QED BY <1>1, <2>1, <2>2, IsTableNow, NoneLacks
<1>4. CASE ~(~HasDefault(At) \/ Desc[At].typ = "CONTEXT")
  <2>1. Offers(DEFAULT, At)
    BY <1>4, OffersIs
  <2>2. CASE Desc[At].typ \in {"FSVIS", "ALPHA"}
    <3>1. SetCharPtr(DEFAULT, DefaultPath(At))
      BY <1>4, <2>2 DEF CollectDefault
    <3>2. DefaultPath(At) \in Seq(Texts)
      BY <1>2, <2>2, DefaultPathIs
    <3>3. At # "Debug"
      BY <1>2, <2>2, EarlyRows
    <3>4. \A h : Told(DEFAULT, DefaultPath(At), h)
      BY <1>2, <3>3, DefaultTold
    <3> QED BY <1>1, <2>1, <3>1, <3>2, <3>4, CharPtrGives
  <2>3. CASE Desc[At].typ \notin {"FSVIS", "ALPHA"}
    <3>1. SetVal(DEFAULT, <<Desc[At].dflt>>)
      BY <1>4, <2>3 DEF CollectDefault
    <3>2. Desc[At].dflt \in Texts
      BY <1>2, DefaultText
    <3>3. At = "Debug" => <<Desc[At].dflt>> = <<"TRUE">>
      BY <1>2, EarlyRows
    <3>4. Told(DEFAULT, <<Desc[At].dflt>>, cp[At].h)
      BY <1>2, <3>3, DefaultTold
    <3> QED BY <1>1, <2>1, <3>1, <3>2, <3>4, SetValGives
  <2> QED BY <2>2, <2>3
<1> QED BY <1>3, <1>4

\* The rows that have a collector of their own.
LEMMA DerivedTold ==
  ASSUME At # "rnodepool", NEW v, NEW h
  PROVE  Told(DERIVED, v, h)
  BY Numbers DEF Told

\* collect_hostname() always has a name.
LEMMA CollectHostnameDoes ==
  ASSUME IInv, CollectHostname
  PROVE  Collects
<1>1. Trying(DERIVED) /\ At = "Hostname" /\ SetCharPtr(DERIVED, <<in.hostname>>)
  BY DEF CollectHostname, Custom
<1>2. Offers(DERIVED, At) /\ \A h : Told(DERIVED, <<in.hostname>>, h)
  BY <1>1, OffersIs, DerivedTold
<1>3. <<in.hostname>> \in Seq(Texts)
  BY OwnTexts
<1> QED BY <1>1, <1>2, <1>3, CharPtrGives

\* collect_pid() always has a number.
LEMMA CollectPidDoes ==
  ASSUME IInv, CollectPid
  PROVE  Collects
<1>1. Trying(DERIVED) /\ At = "pid" /\ SetVal(DERIVED, <<"pid">>)
  BY DEF CollectPid, Custom
<1>2. Offers(DERIVED, At) /\ \A h : Told(DERIVED, <<"pid">>, h)
  BY <1>1, OffersIs, DerivedTold
<1> QED BY <1>1, <1>2, OwnTexts, SetValGives

\* Two rows are never found by the same hash.
LEMMA CalculIsControllerDoes ==
  ASSUME IInv, NameHash, CalculIsController
  PROVE  Collects
<1>1. Trying(DERIVED) /\ At = "isController" /\ DERIVED \in MAC .. LeastTrusted
  BY Numbers DEF CalculIsController, Custom
<1>2. cp[At].h = <<"isController">>
  BY <1>1, OwnHash
<1>3. cp[Lookup("ControlMachine")].h # <<"isController">>
  <2>1. CASE Lookup("ControlMachine") = ByName("ControlMachine")
    <3>1. "ControlMachine" \in Names
      BY Indices DEF DepNames
    <3>2. Lookup("ControlMachine") = "ControlMachine"
      BY <2>1, <3>1 DEF ByName
    <3>3. Desc["ControlMachine"].typ \notin {"FSVIS", "ALPHA"}
      BY <3>1, Origins, Fields DEF Doubtful
    <3>4. cp["ControlMachine"].h \in {None, <<"ControlMachine">>}
      BY <3>1, <3>3 DEF IInv, TableInv, RowOK, HashOK, PathRows, UserRows
    <3> QED BY <3>2, <3>4 DEF None
  <2>2. CASE cp[Lookup("ControlMachine")].h = <<"ControlMachine">>
    BY <2>2
  <2> QED BY <2>1, <2>2, LookupIs
<1>4. Answer(PSRC_NONE, cp) /\ UNCHANGED fuse /\ UNCHANGED slurm
  BY <1>2, <1>3 DEF CalculIsController
<1>5. ~Offers(DERIVED, At)
  BY <1>1, OffersIs
<1> QED BY <1>1, <1>4, <1>5, IsTableNow, NoneLacks

\* The library of the resource manager always has a version.
LEMMA CollectVersionDoes ==
  ASSUME IInv, CollectVersion
  PROVE  Collects
<1>1. Trying(SLURM) /\ At = "slurm_api_version" /\ SetVal(SLURM, <<"version">>)
  BY DEF CollectVersion, Custom
<1>2. Offers(SLURM, At) /\ Told(SLURM, <<"version">>, cp[At].h)
  BY <1>1, OffersIs, Numbers DEF Told, UserRows
<1> QED BY <1>1, <1>2, OwnTexts, SetValGives

\* Once the controller's machine is known, its configuration has been loaded.
LEMMA ConfUnavailableDoes ==
  ASSUME IInv, ManagerInv, ConfUnavailable
  PROVE  Collects
<1>1. /\ Trying(SLURM) /\ Desc[At].typ \in DOMAIN ConfigField /\ ~slcnf
      /\ Answer(PSRC_NONE, cp) /\ UNCHANGED fuse /\ UNCHANGED slurm
  BY DEF ConfUnavailable, Conf
<1>2. row <= 10
  <2>1. ~Passed(10)
    BY <1>1 DEF ManagerInv
  <2> QED BY <2>1, RowsAre DEF Passed, IInv, StackInv
<1>3. MayFail(At) /\ SLURM \in MAC .. LeastTrusted
  BY <1>1, <1>2, Numbers DEF MayFail
<1> QED BY <1>1, <1>3, IsTableNow, NoneLacks

\* A field of the controller's configuration.
LEMMA CollectConfParamDoes ==
  ASSUME IInv, CollectConfParam
  PROVE  Collects
<1> DEFINE typ == Desc[At].typ
           text == ConfigField[typ]
           tested == IF typ = "CNTRLMACH" THEN in.machine ELSE text
           untold == typ \in {"CLUSTER", "CNTRLMACH"} /\ tested = NoText
           unnamed == typ = "CNTRLMACH" /\ text = NoText
           refused == text # NoText /\ Refused(<<text>>)
<1>1. Trying(SLURM) /\ typ \in DOMAIN ConfigField
  BY DEF CollectConfParam, Conf
<1>2. At \in Names
  BY <1>1, TryingAt
<1>3. CASE untold
  <2>1. End("SLURM")
    BY <1>3 DEF CollectConfParam
  <2> QED BY <2>1, StopsFor
<1>5. CASE ~untold /\ unnamed
  <2>1. End("INTERNAL")
    BY <1>5 DEF CollectConfParam
  <2>2. At = "ControlMachine" /\ in.cname = NoText /\ in.machine # NoText
    BY <1>2, <1>5, MachineType DEF ConfigField
  <2>3. Excused("INTERNAL")
    BY <2>2 DEF Excused
  <2> QED BY <2>1, <2>3 DEF Collects, Stops, ExitCodes
<1>6. CASE ~untold /\ ~unnamed /\ refused
  <2>1. End("CONFIG")
    BY <1>6 DEF CollectConfParam
  <2> QED BY <1>6, <2>1, StopsAt
<1>4. CASE ~untold /\ ~unnamed /\ ~refused
  <2>1. /\ slcnf' = TRUE /\ UNCHANGED <<fuse, loaded>>
        /\ Answer(SLURM, IF text = NoText THEN [cp EXCEPT ![At].val = None]
                         ELSE IF typ \in {"UNAME", "DUNAME"} THEN CharPtr(<<text>>)
                         ELSE [cp EXCEPT ![At].val = <<text>>])
    BY <1>4 DEF CollectConfParam
  <2>2. UNCHANGED <<linked, term_count>> /\ slcnf' /\ Offers(SLURM, At)
    BY <2>1, OffersIs DEF fuse
  <2>3. text \in Texts
    BY <1>1, OwnTexts DEF ConfigField
  <2>4. At = "ControlMachine" => in.cname # NoText
    <3>1. At = "ControlMachine" => typ = "CNTRLMACH"
      BY <1>2, MachineType
    <3> QED BY <1>4, <3>1 DEF ConfigField
  <2>5. At \in UserRows => typ \in {"UNAME", "DUNAME"} /\ text = User(At)
    <3>1. At \in UserRows => typ \in {"UNAME", "DUNAME"}
      BY <1>2, TypesAre
    <3>2. /\ typ = "UNAME" => At = "slurm_user_name"
          /\ typ = "DUNAME" => At = "slurmd_user_name"
      BY <1>2, TypesAre
    <3> QED BY <3>1, <3>2 DEF ConfigField, User
  <2> HIDE DEF text, typ
  <2>6. \A v, h : (At \in UserRows /\ text # NoText => h = <<text>>) => Told(SLURM, v, h)
    BY <2>2, <2>4, <2>5, Numbers DEF Told
  <2>7. CASE text = NoText
    <3>1. Answer(SLURM, [cp EXCEPT ![At].val = None]) /\ Told(SLURM, None, cp[At].h)
      BY <2>1, <2>6, <2>7
    <3>2. None \in Seq(Texts)
      BY DEF None
    <3> QED BY <1>1, <2>2, <3>1, <3>2, AnswerSets, SomeGives
  <2>8. CASE text # NoText /\ typ \in {"UNAME", "DUNAME"}
    <3>1. Answer(SLURM, CharPtr(<<text>>)) /\ Told(SLURM, <<text>>, <<text>>)
      BY <2>1, <2>6, <2>8
    <3>2. <<text>> \in Seq(Texts)
      BY <2>3
    <3> QED BY <1>1, <2>2, <3>1, <3>2, AnswerSets, SomeGives
  <2>9. CASE text # NoText /\ typ \notin {"UNAME", "DUNAME"}
    <3>1. Answer(SLURM, [cp EXCEPT ![At].val = <<text>>])
      BY <2>1, <2>9
    <3>2. Told(SLURM, <<text>>, cp[At].h)
      BY <2>5, <2>6, <2>9
    <3>3. <<text>> \in Seq(Texts)
      BY <2>3
    <3> QED BY <1>1, <2>2, <3>1, <3>2, <3>3, AnswerSets, SomeGives
  <2> QED BY <2>7, <2>8, <2>9
<1> QED BY <1>3, <1>4, <1>5, <1>6

\* A reply of the resource manager, or none.
LEMMA CollectMessageDoes ==
  ASSUME IInv, CollectMessage
  PROVE  Collects
<1>1. /\ Trying(SLURM) /\ Desc[At].typ \in {"JOB", "NODE", "PARTITION", "STEP"} /\ Answer(SLURM, cp)
      /\ UNCHANGED <<linked, term_count>> /\ slcnf' = slcnf
  BY DEF CollectMessage, Message, fuse
<1>2. At \in Names
  BY <1>1, TryingAt
<1>3. At # "ControlMachine" /\ At \notin UserRows
  BY <1>1, <1>2, MachineType, TypesAre
<1>4. Offers(SLURM, At) /\ Told(SLURM, cp[At].val, cp[At].h)
  BY <1>3, OffersIs, Numbers DEF Told
<1> QED BY <1>1, <1>4, AnswerSets, SomeGives

\* Without an answer jobs lacks its records, and the other messages end the process.
LEMMA MessageUnavailableDoes ==
  ASSUME IInv, MessageUnavailable
  PROVE  Collects
<1>1. CASE At = "jobs"
  <2>1. Trying(SLURM) /\ Answer(PSRC_NONE, cp) /\ UNCHANGED fuse /\ UNCHANGED slurm
    BY <1>1 DEF MessageUnavailable, Message
  <2>2. MayFail(At) /\ SLURM \in MAC .. LeastTrusted
    BY <1>1, Numbers DEF MayFail
  <2> QED BY <2>1, <2>2, IsTableNow, NoneLacks
<1>2. CASE At # "jobs"
  BY <1>2, StopsFor DEF MessageUnavailable
<1> QED BY <1>1, <1>2

\* The estimate of the pool needs partitions.
LEMMA CalculRnodePoolDoes ==
  ASSUME IInv, CalculRnodePool
  PROVE  Collects
<1>1. Trying(DERIVED) /\ At = "rnodepool"
  BY DEF CalculRnodePool, Custom
<1>2. CASE ~in.parts
  BY <1>2, StopsFor DEF CalculRnodePool
<1>3. CASE in.parts
  <2>1. /\ Answer(DERIVED, [cp EXCEPT ![At].val = <<"nodes">>])
        /\ UNCHANGED <<linked, term_count>> /\ slcnf' = slcnf
    BY <1>3 DEF CalculRnodePool, fuse
  <2>2. Offers(DERIVED, At) /\ Told(DERIVED, <<"nodes">>, cp[At].h)
    BY <1>1, <1>3, OffersIs, Numbers DEF Told
  <2>3. <<"nodes">> \in Seq(Texts)
    BY OwnTexts
  <2> QED BY <1>1, <2>1, <2>2, <2>3, AnswerSets, SomeGives
<1> QED BY <1>2, <1>3

\* Each collector lacks or gives a source, parses, or ends the process.
LEMMA CollectDoes ==
  ASSUME IInv, ManagerInv, NameHash, Collect
  PROVE  Collects
<1>1. CASE CollectMacConf BY <1>1, CollectMacConfDoes
<1>2. CASE CollectEnv BY <1>2, CollectEnvDoes
<1>3. CASE ConstructMountOpts BY <1>3, ConstructMountOptsDoes
<1>4. CASE CollectMountOpts BY <1>4, CollectMountOptsDoes
<1>5. CASE CollectDefault BY <1>5, CollectDefaultDoes
<1>6. CASE CollectHostname BY <1>6, CollectHostnameDoes
<1>7. CASE CollectPid BY <1>7, CollectPidDoes
<1>8. CASE CalculIsController BY <1>8, CalculIsControllerDoes
<1>9. CASE CollectVersion BY <1>9, CollectVersionDoes
<1>10. CASE ConfUnavailable BY <1>10, ConfUnavailableDoes
<1>11. CASE CollectConfParam BY <1>11, CollectConfParamDoes
<1>12. CASE CollectMessage BY <1>12, CollectMessageDoes
<1>13. CASE MessageUnavailable BY <1>13, MessageUnavailableDoes
<1>14. CASE CalculRnodePool BY <1>14, CalculRnodePoolDoes
<1>15. CASE RnodePoolUnavailable BY <1>15, StopsFor DEF RnodePoolUnavailable
<1> QED BY <1>1, <1>2, <1>3, <1>4, <1>5, <1>6, <1>7, <1>8, <1>9, <1>10, <1>11, <1>12, <1>13,
           <1>14, <1>15 DEF Collect

-----------------------------------------------------------------------------
(* What a step does to a row                                               *)

\* s is the most trusted of the sources that have p and may give it.
Best(p, s) ==
    /\ Offers(s, p)
    /\ s \in Desc[p].allowed \/ (s \in Desc[p].debug /\ p \notin Early)
    /\ \A t \in MAC .. (s - 1) : Offers(t, p) => ~Permitted(p, t, p \notin Early)

\* The row is found, or nothing happens to it.
Same(p) ==
    /\ cp'[p].actual = cp[p].actual /\ (p = "Debug" => cp'[p].val = cp[p].val)
    /\ cp'[p].h = cp[p].h \/ (cp[p].h = None /\ cp'[p].h = <<p>>)
    /\ cp'[p].dep \in {cp[p].dep, Dep(p)}

\* The row is given s for its source.
Gains(p, s) ==
    /\ cp'[p].actual = BIT(s) /\ cp'[p].dep = cp[p].dep
    /\ IF s = FUSE THEN p \in {"MountPoint", "Hostname"} ELSE Best(p, s)
    /\ p = "Debug" => row = 5 /\ stack # <<>> /\ Top.pc = "sources" /\ cp'[p].val = <<"TRUE">>
    /\ p = "Hostname" => row >= 9
    /\ p = "ControlMachine" => slcnf' /\ in.cname # NoText
    /\ p = "rnodepool" => in.parts
    /\ p \in UserRows /\ User(p) # NoText => cp'[p].h = <<User(p)>>

\* What any step of the table does to p.
StepOf(p) == Same(p) \/ \E s \in MAC .. LeastTrusted : Gains(p, s)

\* Finding a row does no more.
LEMMA LinksAre ==
  ASSUME LinksTo(cp, cp')
  PROVE  \A p \in Names : StepOf(p)
  BY DEF LinksTo, StepOf, Same

\* A setter gives one row a source.
LEMMA SetIs ==
  ASSUME NEW q \in Names, NEW a, NEW v, NEW h, SetTo(q, a, v, h),
         NEW s \in MAC .. LeastTrusted, Gains(q, s)
  PROVE  \A p \in Names : StepOf(p)
  BY DEF SetTo, StepOf, Same

\* No bit is the bit of two sources.
LEMMA BitOnce ==
  ASSUME NEW s \in MAC .. LeastTrusted, NEW t \in MAC .. LeastTrusted, BIT(s) = BIT(t)
  PROVE  s = t
<1>1. s \in {1, 2, 3, 4, 5, 6, 7, 8, 9} /\ t \in {1, 2, 3, 4, 5, 6, 7, 8, 9}
  BY Numbers
<1>2. /\ BIT(1) = 2 /\ BIT(2) = 4 /\ BIT(3) = 8 /\ BIT(4) = 16 /\ BIT(5) = 32
      /\ BIT(6) = 64 /\ BIT(7) = 128 /\ BIT(8) = 256 /\ BIT(9) = 512
  BY DEF BIT
<1> HIDE DEF BIT
<1> QED BY <1>1, <1>2

\* What a row has gained is the best that there is.
LEMMA TrustedStays ==
  ASSUME MostTrusted, in' = in, \A p \in Names : StepOf(p)
  PROVE  MostTrusted'
<1>1. ASSUME NEW p \in Names, NEW s \in MAC .. LeastTrusted, cp'[p].actual = BIT(s), s # FUSE
      PROVE  Best(p, s)
  <2>1. CASE Same(p)
    <3>1. cp[p].actual = BIT(s)
      BY <1>1, <2>1 DEF Same
    <3> QED BY <1>1, <3>1 DEF MostTrusted, Best
  <2>2. CASE \E t \in MAC .. LeastTrusted : Gains(p, t)
    <3>1. PICK t \in MAC .. LeastTrusted : Gains(p, t)
      BY <2>2
    <3>2. t = s
      BY <1>1, <3>1, BitOnce DEF Gains
    <3> QED BY <1>1, <3>1, <3>2 DEF Gains
  <2> QED BY <2>1, <2>2 DEF StepOf
<1>2. \A p, s : Offers(s, p)' <=> Offers(s, p)
  BY DEF Offers
<1>3. \A p \in Names : \A s \in MAC .. LeastTrusted : cp'[p].actual = BIT(s) /\ s # FUSE =>
          /\ Offers(s, p)'
          /\ s \in Desc[p].allowed \/ (s \in Desc[p].debug /\ p \notin Early)
          /\ \A t \in MAC .. (s - 1) : Offers(t, p)' => ~Permitted(p, t, p \notin Early)
  BY <1>1, <1>2 DEF Best
<1> QED BY <1>3 DEF MostTrusted

\* Bits are not nothing.
LEMMA BitSome ==
  ASSUME NEW s \in MAC .. LeastTrusted
  PROVE  BIT(s) # PSRC_NONE
<1>1. s \in {1, 2, 3, 4, 5, 6, 7, 8, 9}
  BY Numbers
<1>2. /\ BIT(1) = 2 /\ BIT(2) = 4 /\ BIT(3) = 8 /\ BIT(4) = 16 /\ BIT(5) = 32
      /\ BIT(6) = 64 /\ BIT(7) = 128 /\ BIT(8) = 256 /\ BIT(9) = 512
  BY DEF BIT
<1> HIDE DEF BIT
<1> QED BY <1>1, <1>2, Numbers

\* The hash of a row without a source is still that of its name.
LEMMA NameHashStays ==
  ASSUME NameHash, \A p \in Names : StepOf(p)
  PROVE  NameHash'
<1>1. ASSUME NEW p \in Names, cp'[p].actual = PSRC_NONE PROVE cp'[p].h \in {None, <<p>>}
  <2>1. \A s \in MAC .. LeastTrusted : ~Gains(p, s)
    BY <1>1, BitSome DEF Gains
  <2> QED BY <1>1, <2>1 DEF StepOf, Same, NameHash
<1> QED BY <1>1 DEF NameHash

\* Debug is not given a source before its row is searched for.
Undecided == row < 5 \/ (row = 5 /\ stack # <<>> /\ Top.pc = "deps")

\* What a step of the table and the stack keeps of the modes.
LEMMA ModesStay ==
  ASSUME IInv, IInv', ModeInv, in' = in, HashKept, SourcesKept, slcnf => slcnf', \A p \in Names : StepOf(p),
         row' \in {row, row + 1},
         row' >= 5 => row >= 5 \/ cp'["Debug"].h # None,
         Passed(5)' => Passed(5) \/ cp'["Debug"].actual # PSRC_NONE,
         Passed(2)' => Passed(2) \/ cp'["slurm_api_version"].actual # PSRC_NONE,
         Passed(10)' => Passed(10) \/ cp'["ControlMachine"].actual # PSRC_NONE,
         Undecided' => Undecided,
         (\A k \in 1 .. Depth : ModeOf(stack[k]))'
  PROVE  ModeInv'
<1>1. {"Debug", "Hostname", "slurm_api_version", "ControlMachine"} \subseteq Names
  BY Indices DEF DepNames
<1>2. row \in Nat
  BY RowsAre DEF IInv, StackInv
<1>3. DebugInv'
  <2>1. row' >= 5 => cp'["Debug"].h # None
    BY <1>1 DEF ModeInv, DebugInv, HashKept
  <2>2. row' < 9 => cp'["Hostname"].h \in {None, <<"Hostname">>}
    <3>1. SUFFICES ASSUME row' < 9 PROVE cp'["Hostname"].h \in {None, <<"Hostname">>}
      OBVIOUS
    <3>2. row < 9
      BY <1>2, <3>1
    <3>3. \A s : ~Gains("Hostname", s)
      BY <1>2, <3>2 DEF Gains
    <3>4. Same("Hostname")
      BY <1>1, <3>3 DEF StepOf
    <3> QED BY <3>2, <3>4 DEF ModeInv, DebugInv, Same
  <2>3. cp'["Debug"].val = IF cp'["Debug"].actual = PSRC_NONE THEN None ELSE <<"TRUE">>
    <3>1. CASE Same("Debug")
      BY <3>1 DEF Same, ModeInv, DebugInv
    <3>2. ASSUME NEW s \in MAC .. LeastTrusted, Gains("Debug", s)
          PROVE  cp'["Debug"].val = <<"TRUE">> /\ cp'["Debug"].actual # PSRC_NONE
      BY <3>2, BitSome DEF Gains
    <3> QED BY <1>1, <3>1, <3>2 DEF StepOf
  <2>4. Passed(5)' => cp'["Debug"].actual # PSRC_NONE
    BY <1>1 DEF ModeInv, DebugInv, SourcesKept
  <2>5. Undecided' => cp'["Debug"].actual = PSRC_NONE
    <3>1. SUFFICES ASSUME Undecided PROVE cp'["Debug"].actual = PSRC_NONE
      OBVIOUS
    <3>2. \A s : ~Gains("Debug", s)
      BY <1>2, <3>1 DEF Gains, Undecided
    <3>3. Same("Debug")
      BY <1>1, <3>2 DEF StepOf
    <3> QED BY <3>1, <3>3 DEF Same, ModeInv, DebugInv, Undecided
  <2> QED BY <2>1, <2>2, <2>3, <2>4, <2>5 DEF DebugInv, Undecided
<1>4. ManagerInv'
  <2>1. cp'["ControlMachine"].actual # PSRC_NONE => slcnf' /\ in'.cname # NoText
    <3>1. CASE Same("ControlMachine")
      BY <3>1 DEF Same, ModeInv, ManagerInv
    <3>2. CASE \E s \in MAC .. LeastTrusted : Gains("ControlMachine", s)
      BY <3>2 DEF Gains
    <3> QED BY <1>1, <3>1, <3>2 DEF StepOf
  <2>2. /\ Passed(2)' => cp'["slurm_api_version"].actual # PSRC_NONE
        /\ Passed(10)' => cp'["ControlMachine"].actual # PSRC_NONE
    BY <1>1 DEF ModeInv, ManagerInv, SourcesKept
  <2> QED BY <2>1, <2>2 DEF ManagerInv
<1>5. NameHash' /\ MostTrusted'
  BY NameHashStays, TrustedStays DEF ModeInv
<1> QED BY <1>3, <1>4, <1>5 DEF ModeInv

\* A step finds no option but the one named like the row.
LinksFit == \A f \in slurm_fopts : linked'[f] \in {linked[f], f}

\* What a step of the table and the stack keeps of the rows behind it.
LEMMA PassedStays ==
  ASSUME IInv, PassedInv, in' = in, HashKept, SourcesKept, LinksFit, \A p \in Names : StepOf(p),
         \A i \in Rows : Passed(i)' => Passed(i) \/ PassedOK(i)',
         (\A k \in 1 .. Depth : cp[stack[k].at].dep = Dep(stack[k].at))'
  PROVE  PassedInv'
<1>1. \A p \in Names : cp[p].dep = Dep(p) => cp'[p].dep = Dep(p)
  BY DEF StepOf, Same, Gains
<1>2. ASSUME NEW i \in Rows, Passed(i)' PROVE PassedOK(i)'
  <2>1. CASE Passed(i)
    <3>1. PassedOK(i) /\ slurmfs_config[i].nm \in Names
      BY <2>1 DEF PassedInv, Names
    <3> QED BY <1>1, <3>1 DEF PassedOK, HashKept, SourcesKept, User
  <2> QED BY <1>2, <2>1
<1>3. ASSUME NEW p \in Names PROVE SourceTells(p)'
  <2>1. SourceTells(p)
    BY DEF PassedInv
  <2>2. CASE Same(p)
    <3>1. User(p)' = User(p)
      BY DEF User
    <3>2. <<User(p)>> # None
      BY DEF None
    <3> QED BY <2>1, <2>2, <3>1, <3>2 DEF Same, SourceTells
  <2>3. ASSUME NEW s \in MAC .. LeastTrusted, Gains(p, s) PROVE SourceTells(p)'
    <3>1. User(p)' = User(p)
      BY DEF User
    <3>2. FUSE \in MAC .. LeastTrusted
      BY Numbers
    <3>3. cp'[p].actual = BIT(FUSE) => s = FUSE
      BY <2>3, <3>2, BitOnce DEF Gains
    <3> QED BY <2>3, <3>1, <3>3 DEF Gains, SourceTells
  <2> QED BY <2>2, <2>3 DEF StepOf
<1>4. \A f \in slurm_fopts : linked'[f] \in {NoName, f}
  BY DEF PassedInv, LinksFit
<1> QED BY <1>2, <1>3, <1>4 DEF PassedInv

\* The mode of a call is its own.
LEMMA ModeSame ==
  ASSUME row' = row, in' = in, NEW k, ModeOf(stack'[k])
  PROVE  ModeOf(stack[k])'
<1>1. (DOMAIN ConfigField)' = DOMAIN ConfigField
  BY DEF ConfigField
<1> QED BY <1>1 DEF ModeOf, Searched, MayFail, Offers

\* A call that waits goes on waiting.
LEMMA LowerModes ==
  ASSUME IInv, ModeInv, PassedInv, row' = row, in' = in, \A p \in Names : StepOf(p),
         NEW k \in 1 .. Depth, stack'[k] = stack[k]
  PROVE  /\ ModeOf(stack[k])'
         /\ (cp[stack[k].at].dep = Dep(stack[k].at))'
<1>1. ModeOf(stack[k]) /\ cp[stack[k].at].dep = Dep(stack[k].at)
  BY DEF ModeInv, PassedInv
<1>2. stack[k].at \in Names
  <2>1. stack \in Seq(Frames)
    BY DEF IInv, StackInv
  <2>2. stack[k] \in Frames
    BY <2>1 DEF Depth
  <2> QED BY <2>2 DEF Frames
<1>3. ModeOf(stack[k])'
  BY <1>1, ModeSame
<1>4. cp'[stack[k].at].dep = Dep(stack[k].at)
  BY <1>1, <1>2 DEF StepOf, Same, Gains
<1> QED BY <1>3, <1>4

\* The innermost call goes on.
LEMMA InnerStep ==
  ASSUME IInv, IInv', ModeInv, PassedInv, stack # <<>>, NEW f \in Frames, SetTop(f), f.at = At,
         in' = in, row' = row, slcnf => slcnf', HashKept, SourcesKept, LinksFit,
         \A p \in Names : StepOf(p),
         f.pc = "deps" => Top.pc = "deps", ModeOf(f)
  PROVE  ModeInv' /\ PassedInv'
<1>1. stack \in Seq(Frames) /\ Depth \in Nat \ {0} /\ Top = stack[Depth]
  BY TopIsFrame DEF IInv
<1> PICK d \in Nat \ {0} : d = Depth
  BY <1>1
<1>2. /\ stack' # <<>> /\ Depth' = d /\ stack'[d] = f /\ Top' = f
      /\ \A k \in 1 .. d - 1 : stack'[k] = stack[k]
  BY <1>1, SetTopFacts
<1>3. \A n : Passed(n)' <=> Passed(n)
  BY <1>2 DEF Passed
<1>4. Undecided' => Undecided
  BY <1>2 DEF Undecided
<1>5. ASSUME NEW k \in 1 .. d
      PROVE  ModeOf(stack[k])' /\ (cp[stack[k].at].dep = Dep(stack[k].at))'
  <2>1. CASE k = d
    <3>1. ModeOf(stack[k])'
      BY <1>2, <2>1, ModeSame
    <3>2. cp[At].dep = Dep(At) /\ At \in Names
      BY <1>1, TopIsFrame DEF PassedInv, IInv, At
    <3>3. cp'[At].dep = Dep(At)
      BY <3>2 DEF StepOf, Same, Gains
    <3> QED BY <1>2, <2>1, <3>1, <3>3
  <2>2. CASE k # d
    <3>1. k \in 1 .. Depth /\ stack'[k] = stack[k]
      BY <1>2, <2>2
    <3> QED BY <3>1, LowerModes
  <2> QED BY <2>1, <2>2
<1>6. (\A k \in 1 .. Depth : ModeOf(stack[k]))'
  BY <1>2, <1>5
<1>7. (\A k \in 1 .. Depth : cp[stack[k].at].dep = Dep(stack[k].at))'
  BY <1>2, <1>5
<1>8. ModeInv'
  BY <1>3, <1>4, <1>6, ModesStay
<1>9. PassedInv'
  BY <1>3, <1>7, PassedStays
<1> QED BY <1>8, <1>9

-----------------------------------------------------------------------------
(* The steps of ingest_config() and collect_cp()                           *)

\* A step keeps the modes, what has been collected and the outcome.
Stays == ModeInv' /\ PassedInv' /\ Outcome'

\* A process that runs has not come to anything.
LEMMA Runs ==
  ASSUME status' = "running"
  PROVE  Outcome'
  BY DEF Outcome

\* Nothing but the status changes.
LEMMA QuietStays ==
  ASSUME IInv, IInv', ModeInv, PassedInv, UNCHANGED <<in, row, cp, stack, fuse, slurm>>
  PROVE  ModeInv' /\ PassedInv'
<1>1. in' = in /\ row' = row /\ cp' = cp /\ stack' = stack /\ linked' = linked /\ slcnf' = slcnf
  BY DEF fuse, slurm
<1>2. LinksTo(cp, cp')
  BY <1>1, SameLinks DEF IInv
<1>3. HashKept /\ SourcesKept /\ (\A p \in Names : StepOf(p)) /\ LinksFit
  BY <1>1, <1>2, LinksAre DEF HashKept, SourcesKept, LinksFit
<1>4. Depth' = Depth /\ Top' = Top
  BY <1>1 DEF Depth, Top
<1>5. \A n : Passed(n)' <=> Passed(n)
  BY <1>1 DEF Passed
<1>6. Undecided' => Undecided
  BY <1>1, <1>4 DEF Undecided
<1>7. ASSUME NEW k \in 1 .. Depth
      PROVE  ModeOf(stack[k])' /\ (cp[stack[k].at].dep = Dep(stack[k].at))'
  BY <1>1, <1>3, LowerModes
<1>8. (\A k \in 1 .. Depth : ModeOf(stack[k]))'
  BY <1>4, <1>7
<1>9. (\A k \in 1 .. Depth : cp[stack[k].at].dep = Dep(stack[k].at))'
  BY <1>4, <1>7
<1>10. ModeInv'
  BY <1>1, <1>3, <1>5, <1>6, <1>8, ModesStay
<1>11. PassedInv'
  BY <1>1, <1>3, <1>5, <1>9, PassedStays
<1> QED BY <1>10, <1>11

\* An option finds the row that it found.
LEMMA SameFinds ==
  ASSUME in' = in, cp' = cp
  PROVE  (\E i \in DOMAIN in.args : FindsRow(in.args[i]))' <=> \E i \in DOMAIN in.args : FindsRow(in.args[i])
<1>1. \A nm : Lookup(nm)' = Lookup(nm)
  BY DEF Lookup
<1> QED BY <1>1 DEF FindsRow

\* The process ends, for a reason.
LEMMA StopsStays ==
  ASSUME IInv, IInv', ModeInv, PassedInv, Stops
  PROVE  Stays
<1>1. PICK code \in (ExitCodes \ {"INCOMPLETE"}) \cup {"crashed"} : End(code) /\ Excused(code)
  BY DEF Stops
<1>2. status' = code /\ in' = in /\ cp' = cp /\ stack' = stack
      /\ UNCHANGED <<in, row, cp, stack, fuse, slurm>>
  BY <1>1 DEF End
<1>3. ModeInv' /\ PassedInv'
  BY <1>2, QuietStays
<1>4. Top' = Top
  BY <1>2 DEF Top
<1>5. code # "complete" /\ code # "INCOMPLETE"
  BY DEF ExitCodes
<1>6. /\ At' = At
      /\ (\E i \in DOMAIN in.args : FindsRow(in.args[i]))' <=> \E i \in DOMAIN in.args : FindsRow(in.args[i])
  BY <1>2, <1>4, SameFinds DEF At
<1>7. Outcome'
  BY <1>1, <1>2, <1>4, <1>5, <1>6 DEF Outcome, Excused
<1> QED BY <1>3, <1>7 DEF Stays

\* A call links its row to the one that it depends on.
LEMMA LinkedDep ==
  ASSUME IsTable(cp), NEW q \in Names, cp[q].dep \in {NoName, Dep(q)}
  PROVE  Linked(q)[q].dep = Dep(q)
<1> DEFINE c == Hashed(cp, q)
           e == [c EXCEPT ![q].dep = Dep(q)]
<1>1. LinksTo(cp, c)
  BY HashedLinks
<1>2. IsTable(c) /\ c[q].dep \in {NoName, Dep(q)}
  BY <1>1 DEF LinksTo
<1> HIDE DEF c
<1>3. CASE Dep(q) = NoName \/ c[q].dep # NoName
  <2>1. Linked(q) = c
    BY <1>3 DEF Linked, c, Dep
  <2> QED BY <1>2, <1>3, <2>1
<1>4. CASE ~(Dep(q) = NoName \/ c[q].dep # NoName)
  <2>1. Linked(q) = Hashed(e, Dep(q))
    BY <1>4 DEF Linked, c, Dep
  <2>2. IsTable(e) /\ e[q].dep = Dep(q)
    BY <1>2 DEF IsTable
  <2> HIDE DEF e
  <2>3. LinksTo(e, Hashed(e, Dep(q)))
    BY <1>4, <2>2, ChainFalls, HashedLinks
  <2> QED BY <2>1, <2>2, <2>3 DEF LinksTo
<1> QED BY <1>3, <1>4

\* What a new call is.
LEMMA EnteredMode ==
  ASSUME NEW p \in Names, NEW k, stack'[k] = Frame(p), IsTable(cp), cp[p].dep \in {NoName, Dep(p)},
         cp' = Linked(p), row' <= 5 => p \in Early
  PROVE  ModeOf(stack[k])' /\ (cp[stack[k].at].dep = Dep(stack[k].at))'
<1>1. /\ stack'[k].at = p /\ stack'[k].pc = "deps" /\ stack'[k].di = Dep(p) /\ stack'[k].s = MAC
  BY FrameIs
<1>2. p \in Early => Dep(p) \in Early \cup {NoName}
  BY EarlyRows
<1>3. ModeOf(stack[k])'
  BY <1>1, <1>2 DEF ModeOf
<1>4. cp'[p].dep = Dep(p)
  BY LinkedDep
<1> QED BY <1>1, <1>3, <1>4

\* ingest_config() comes to the next row.
LEMMA NextParamStays ==
  ASSUME IInv, IInv', ModeInv, PassedInv, NextParam
  PROVE  Stays
<1> DEFINE p == slurmfs_config[row'].nm
<1>1. /\ status = "running" /\ stack = <<>> /\ row < 31 /\ row' = row + 1
      /\ cp' = Linked(p) /\ stack' = Append(stack, Frame(p))
      /\ in' = in /\ linked' = linked /\ slcnf' = slcnf /\ status' = status
  BY RowsAre DEF NextParam, Enter, fuse, slurm
<1>2. row \in Nat /\ row' \in 1 .. 31 /\ stack \in Seq(Frames) /\ TableInv
  BY <1>1, RowsAre DEF IInv, StackInv
<1>3. p \in Names /\ (row' <= 5 => p \in Early) /\ (row' = 5 => p = "Debug")
  BY <1>2, Turns
<1> HIDE DEF p
<1>4. LinksTo(cp, cp') /\ cp'[p].h # None
  BY <1>1, <1>3, LinkedLinks, IsTableNow
<1>5. HashKept /\ SourcesKept
  BY <1>1, <1>2, <1>4, LinksKeep
<1>6. (\A q \in Names : StepOf(q)) /\ LinksFit
  BY <1>1, <1>4, LinksAre DEF LinksFit
<1>7. Depth' = 1 /\ stack' # <<>> /\ stack'[1] = Frame(p)
  <2>1. Depth = 0
    BY <1>1 DEF Depth
  <2> QED BY <1>1, <1>2, <1>3, <2>1, FrameIs, PushFacts
<1>8. ASSUME NEW n \in 1 .. 31, Passed(n)' PROVE Passed(n)
  BY <1>1, <1>2, <1>7, <1>8 DEF Passed
<1>9. ModeOf(stack[1])' /\ (cp[stack[1].at].dep = Dep(stack[1].at))'
  <2>1. cp[p].dep \in {NoName, Dep(p)}
    BY <1>2, <1>3 DEF TableInv, RowOK
  <2> QED BY <1>1, <1>3, <1>7, <2>1, IsTableNow, EnteredMode
<1>10. ModeInv'
  <2>1. row' >= 5 => row >= 5 \/ cp'["Debug"].h # None
    BY <1>1, <1>2, <1>3, <1>4
  <2>2. Undecided' => Undecided
    BY <1>1, <1>2 DEF Undecided
  <2>3. (\A k \in 1 .. Depth : ModeOf(stack[k]))'
    BY <1>7, <1>9
  <2>4. row' \in {row, row + 1}
    BY <1>1
  <2>5. (Passed(2)' => Passed(2)) /\ (Passed(5)' => Passed(5)) /\ (Passed(10)' => Passed(10))
    BY <1>8
  <2> QED BY <1>1, <1>5, <1>6, <2>5, <2>1, <2>2, <2>3, <2>4, ModesStay
<1>11. PassedInv'
  <2>1. (\A k \in 1 .. Depth : cp[stack[k].at].dep = Dep(stack[k].at))'
    BY <1>7, <1>9
  <2> QED BY <1>1, <1>5, <1>6, <1>8, <2>1, RowsAre, PassedStays
<1>12. Outcome'
  BY <1>1, Runs
<1> QED BY <1>10, <1>11, <1>12 DEF Stays

\* A dependency is collected first.
LEMMA CollectDependencyStays ==
  ASSUME IInv, IInv', ModeInv, PassedInv, CollectDependency
  PROVE  Stays
<1> DEFINE p == Top.di
<1>1. /\ status = "running" /\ stack # <<>> /\ Top.pc = "deps" /\ p # NoName
      /\ cp' = Linked(p) /\ stack' = Append(stack, Frame(p))
      /\ in' = in /\ row' = row /\ linked' = linked /\ slcnf' = slcnf /\ status' = status
  BY DEF CollectDependency, Running, Enter, fuse, slurm
<1>2. /\ Top \in Frames /\ Top = stack[Depth] /\ Depth \in Nat \ {0} /\ stack \in Seq(Frames)
  BY <1>1, TopIsFrame DEF IInv
<1>3. p \in Names /\ (row <= 5 => p \in Early)
  <2>1. ModeOf(Top) /\ p \in Names
    BY <1>1, <1>2 DEF ModeInv, Frames
  <2> QED BY <1>1, <2>1 DEF ModeOf
<1> HIDE DEF p
<1>4. LinksTo(cp, cp')
  BY <1>1, <1>3, LinkedLinks, IsTableNow
<1>5. HashKept /\ SourcesKept
  BY <1>1, <1>4, LinksKeepHere DEF IInv
<1>6. (\A q \in Names : StepOf(q)) /\ LinksFit
  BY <1>1, <1>4, LinksAre DEF LinksFit
<1> PICK d \in Nat \ {0} : d = Depth
  BY <1>2
<1>7. /\ stack' # <<>> /\ Depth' = d + 1 /\ stack'[d + 1] = Frame(p)
      /\ \A k \in 1 .. d : stack'[k] = stack[k]
  BY <1>1, <1>2, <1>3, FrameIs, PushFacts
<1>8. \A n : Passed(n)' <=> Passed(n)
  BY <1>1, <1>7 DEF Passed
<1>9. Undecided' => Undecided
  BY <1>1 DEF Undecided
<1>10. ASSUME NEW k \in 1 .. d + 1
       PROVE  ModeOf(stack[k])' /\ (cp[stack[k].at].dep = Dep(stack[k].at))'
  <2>1. CASE k = d + 1
    <3>1. cp[p].dep \in {NoName, Dep(p)}
      BY <1>3 DEF IInv, TableInv, RowOK
    <3>2. stack'[k] = Frame(p)
      BY <1>7, <2>1
    <3> QED BY <1>1, <1>3, <3>1, <3>2, IsTableNow, EnteredMode
  <2>2. CASE k # d + 1
    <3>1. k \in 1 .. Depth /\ stack'[k] = stack[k]
      BY <1>7, <2>2
    <3> QED BY <1>1, <1>6, <3>1, LowerModes
  <2> QED BY <2>1, <2>2
<1>11. (\A k \in 1 .. Depth : ModeOf(stack[k]))'
  BY <1>7, <1>10
<1>12. (\A k \in 1 .. Depth : cp[stack[k].at].dep = Dep(stack[k].at))'
  BY <1>7, <1>10
<1>13. ModeInv'
  BY <1>1, <1>5, <1>6, <1>8, <1>9, <1>11, ModesStay
<1>14. PassedInv'
  BY <1>1, <1>5, <1>6, <1>8, <1>12, PassedStays
<1>15. Outcome'
  BY <1>1, Runs
<1> QED BY <1>13, <1>14, <1>15 DEF Stays

\* The walk goes on along the chain.
LEMMA DependencyReturnsStays ==
  ASSUME IInv, IInv', ModeInv, PassedInv, DependencyReturns
  PROVE  Stays
<1>1. status = "running" /\ stack # <<>> /\ Top.pc = "deps" /\ ret # Pending
  BY DEF DependencyReturns, Running
<1>2. /\ Top \in Frames /\ Top = stack[Depth] /\ Depth \in Nat \ {0} /\ At \in Names
  BY <1>1, TopIsFrame DEF IInv
<1>3. Top.di # NoName /\ ret = cp[Top.di].actual /\ Top.di \in Names
  BY <1>1, <1>2 DEF IInv, RetInv, Frames
<1>4. CASE NOBITS(ret)
  <2>1. End("INTERNAL") /\ Excused("INTERNAL")
    BY <1>1, <1>3, <1>4 DEF DependencyReturns, NOBITS, Excused
  <2>2. Stops
    BY <2>1 DEF Stops, ExitCodes
  <2> QED BY <2>2, StopsStays
<1>5. CASE ~NOBITS(ret)
  <2> DEFINE f == [Top EXCEPT !.di = NextDep(Top.di)]
  <2>1. /\ SetTop(f) /\ in' = in /\ row' = row /\ cp' = cp /\ linked' = linked
        /\ slcnf' = slcnf /\ status' = status
    BY <1>5 DEF DependencyReturns, fuse, slurm
  <2>2. cp[Top.di].dep \in {NoName, Dep(Top.di)}
    BY <1>3 DEF IInv, TableInv, RowOK
  <2>3. f \in Frames /\ f.at = At /\ f.pc = "deps" /\ f.di = cp[Top.di].dep /\ f.s = Top.s
    <3>1. cp[Top.di].dep \in Names \cup {NoName}
      BY <1>3, <2>2, ChainFalls
    <3> QED BY <1>1, <1>2, <3>1 DEF Frames, At, NextDep
  <2> HIDE DEF f
  <2>4. ModeOf(f)
    <3>1. ModeOf(Top)
      BY <1>2 DEF ModeInv
    <3>2. row <= 5 => At \in Early /\ f.di \in Early \cup {NoName}
      BY <1>3, <2>2, <2>3, <3>1, EarlyRows DEF ModeOf, At
    <3>3. f.s = MAC
      BY <1>1, <2>3, <3>1 DEF ModeOf
    <3> QED BY <2>3, <3>2, <3>3 DEF ModeOf
  <2>5. LinksTo(cp, cp')
    BY <2>1, SameLinks DEF IInv
  <2>6. HashKept /\ SourcesKept /\ (\A q \in Names : StepOf(q)) /\ LinksFit
    BY <2>1, <2>5, LinksAre DEF LinksFit, HashKept, SourcesKept
  <2>7. ModeInv' /\ PassedInv'
    BY <1>1, <2>1, <2>3, <2>4, <2>6, InnerStep
  <2> QED BY <1>1, <2>1, <2>7, Runs DEF Stays
<1> QED BY <1>4, <1>5

\* Debug is on behind its own row.
LEMMA DebugFrom ==
  ASSUME IInv, ModeInv, stack # <<>>, Top.pc = "deps" \/ row # 5
  PROVE  DebugOn <=> row > 5
<1>1. Lookup("Debug") = "Debug"
  BY DebugIs DEF ModeInv
<1>2. row \in Nat
  BY RowsAre DEF IInv, StackInv
<1>3. row > 5 => cp["Debug"].val = <<"TRUE">>
  BY DEF ModeInv, DebugInv, Passed
<1>4. row <= 5 => cp["Debug"].val = None
  BY <1>2 DEF ModeInv, DebugInv
<1>5. None # <<"TRUE">>
  BY DEF None
<1>6. DebugOn <=> cp["Debug"].val = <<"TRUE">>
  BY <1>1, Zenon DEF DebugOn
<1>7. CASE row > 5
  BY <1>3, <1>6, <1>7, Zenon
<1>8. CASE row <= 5
  <2>1. ~DebugOn
    BY <1>4, <1>5, <1>6, <1>8, Zenon
  <2>2. ~(row > 5)
    BY <1>2, <1>8
  <2> QED BY <2>1, <2>2, Zenon
<1>9. row > 5 \/ row <= 5
  BY <1>2
<1> QED BY <1>7, <1>8, <1>9, Zenon

\* The search begins.
LEMMA ReadDebugStays ==
  ASSUME IInv, IInv', ModeInv, PassedInv, ReadDebug
  PROVE  Stays
<1> DEFINE f == [Top EXCEPT !.pc = "sources", !.debug = DebugOn, !.src = cp[At].actual]
<1>1. /\ status = "running" /\ stack # <<>> /\ Top.pc = "deps" /\ Top.di = NoName
      /\ cp' = LookedUp("Debug") /\ SetTop(f)
      /\ in' = in /\ row' = row /\ linked' = linked /\ slcnf' = slcnf /\ status' = status
  BY DEF ReadDebug, Running, fuse, slurm
<1>2. /\ Top \in Frames /\ Top = stack[Depth] /\ Depth \in Nat \ {0} /\ At \in Names
  BY <1>1, TopIsFrame DEF IInv
<1>3. LinksTo(cp, cp')
  BY <1>1, LookedUpLinks, IsTableNow, Indices
<1>4. HashKept /\ SourcesKept
  BY <1>1, <1>3, LinksKeepHere DEF IInv
<1>5. (\A q \in Names : StepOf(q)) /\ LinksFit
  BY <1>1, <1>3, LinksAre DEF LinksFit
<1>6. f \in Frames /\ f.at = At /\ f.pc = "sources" /\ f.s = Top.s /\ f.di = NoName
      /\ (f.debug <=> DebugOn)
  <2>1. cp[At].actual \in Bits \cup (PSRC_NONE .. LeastTrusted)
    BY <1>2, Numbers DEF IInv, TableInv, RowOK
  <2>2. DebugOn \in BOOLEAN
    BY DEF DebugOn
  <2> QED BY <1>1, <1>2, <2>1, <2>2 DEF Frames, At
<1> HIDE DEF f
<1>7. ModeOf(f)
  <2>1. ModeOf(Top)
    BY <1>2 DEF ModeInv
  <2>2. f.debug <=> row > 5
    BY <1>1, <1>6, DebugFrom
  <2>3. f.s = MAC
    BY <1>1, <1>6, <2>1 DEF ModeOf
  <2>4. Searched(f)
    BY <2>3, Numbers DEF Searched
  <2>5. row <= 5 => At \in Early
    BY <2>1 DEF ModeOf, At
  <2> QED BY <1>6, <2>2, <2>4, <2>5 DEF ModeOf
<1>8. ModeInv' /\ PassedInv'
  BY <1>1, <1>4, <1>5, <1>6, <1>7, InnerStep
<1> QED BY <1>1, <1>8, Runs DEF Stays

\* The search leaves out what the row does not permit.
LEMMA SkipSourcesStays ==
  ASSUME IInv, IInv', ModeInv, PassedInv, SkipSources
  PROVE  Stays
<1>1. PICK s \in (Top.s + 1) .. (LeastTrusted + 1) :
         /\ \A t \in Top.s .. (s - 1) : ~Permitted(At, t, Top.debug)
         /\ SetTop([Top EXCEPT !.s = s])
  BY DEF SkipSources
<1> DEFINE f == [Top EXCEPT !.s = s]
<1>2. /\ status = "running" /\ stack # <<>> /\ Top.pc = "sources" /\ Top.src = PSRC_NONE
      /\ cp' = cp /\ SetTop(f)
      /\ in' = in /\ row' = row /\ linked' = linked /\ slcnf' = slcnf /\ status' = status
  BY <1>1 DEF SkipSources, Searching, Running, fuse, slurm
<1>3. /\ Top \in Frames /\ Top = stack[Depth] /\ Depth \in Nat \ {0} /\ At \in Names
  BY <1>2, TopIsFrame DEF IInv
<1>4. s \in MAC .. 10 /\ Top.s \in MAC .. 10 /\ s > Top.s
  <2>1. Top.s \in MAC .. 10
    BY <1>3 DEF Frames
  <2> QED BY <2>1, Numbers
<1>5. f \in Frames /\ f.at = At /\ f.pc = "sources" /\ f.s = s /\ f.di = Top.di /\ f.debug = Top.debug
  BY <1>2, <1>3, <1>4 DEF Frames, At
<1> HIDE DEF f
<1>6. ModeOf(f)
  <2>1. ModeOf(Top)
    BY <1>3 DEF ModeInv
  <2>2. Searched(Top)
    BY <1>2, <2>1 DEF ModeOf
  <2>3. Searched(f)
    <3>1. ASSUME NEW t \in MAC .. (s - 1), Permitted(At, t, Top.debug)
          PROVE  ~Offers(t, At) \/ (t = SLURM /\ MayFail(At))
      <4>1. ~(t \in Top.s .. (s - 1))
        BY <1>1, <3>1
      <4>2. t \in MAC .. (Top.s - 1)
        BY <1>4, <4>1, Numbers
      <4> QED BY <2>2, <3>1, <4>2 DEF Searched, At
    <3> QED BY <1>5, <3>1 DEF Searched
  <2> QED BY <1>2, <1>5, <2>1, <2>3 DEF ModeOf, At
<1>7. LinksTo(cp, cp')
  BY <1>2, SameLinks DEF IInv
<1>8. HashKept /\ SourcesKept /\ (\A q \in Names : StepOf(q)) /\ LinksFit
  BY <1>2, <1>7, LinksAre DEF LinksFit, HashKept, SourcesKept
<1>9. ModeInv' /\ PassedInv'
  BY <1>2, <1>5, <1>6, <1>8, InnerStep
<1> QED BY <1>2, <1>9, Runs DEF Stays

\* The fields that the controller is asked for behind its own.
LateFields == {"SlurmctldTimeout", "SlurmUser", "SlurmdUser", "SlurmdTimeout"} \cup UserRows

\* They come behind it.
LEMMA LateTurns ==
  ASSUME NEW i \in 1 .. 31
  PROVE  /\ slurmfs_config[i].nm = "DefContext" => i > 5
         /\ slurmfs_config[i].nm \in LateFields => i > 10
<1> DEFINE Fits(n, p) ==
             /\ p = "DefContext" => n > 5
             /\ p \in {"SlurmctldTimeout", "SlurmUser", "SlurmdUser", "SlurmdTimeout",
                       "slurm_user_name", "slurmd_user_name"} => n > 10
<1>1. \A nm, typ, al, db, dep, dflt : Param(nm, typ, al, db, dep, dflt).nm = nm
  BY DEF Param
<1>2. Fits(i, slurmfs_config[i].nm)
  BY <1>1 DEF slurmfs_config, OfSlurm
<1> QED BY <1>2 DEF LateFields, UserRows

\* What gives a source to each row that has to have one.
LEMMA MustHave ==
  ASSUME NEW p \in Names, p \notin MayLack \cup {"ControlMachine"}
  PROVE  \/ DEFAULT \in Desc[p].allowed /\ Desc[p].typ # "CONTEXT"
         \/ p = "DefContext" /\ MNT \in Desc[p].debug
         \/ SLURM \in Desc[p].allowed /\ (Desc[p].typ \in DOMAIN ConfigField => p \in LateFields)
         \/ DERIVED \in Desc[p].allowed
<1> DEFINE Fits(nm, typ, al, db) ==
             \/ nm \in MayLack \cup {"ControlMachine"}
             \/ DEFAULT \in al /\ typ # "CONTEXT"
             \/ nm = "DefContext" /\ MNT \in db
             \/ SLURM \in al /\ (typ \in {"CLUSTER", "CNTRLMACH", "TMOUT", "UID", "UNAME", "DUNAME"} =>
                                   nm \in {"SlurmctldTimeout", "SlurmUser", "SlurmdUser", "SlurmdTimeout",
                                           "slurm_user_name", "slurmd_user_name"})
             \/ DERIVED \in al
           Row(r) == Fits(r.nm, r.typ, r.allowed, r.debug)
<1>1. \A nm, typ, al, db, dep, dflt : Fits(nm, typ, al, db) => Row(Param(nm, typ, al, db, dep, dflt))
  BY DEF Param
<1> HIDE DEF Row
<1>2. \A i \in 1 .. 31 : Row(slurmfs_config[i])
  BY <1>1 DEF slurmfs_config, OfSlurm, MayLack
<1>3. PICK i \in 1 .. 31 : Desc[p] = slurmfs_config[i] /\ slurmfs_config[i].nm = p
  BY DescIs
<1>4. Row(Desc[p]) /\ Desc[p].nm = p
  BY <1>2, <1>3
<1> QED BY <1>4, Fields DEF Row, LateFields, UserRows

\* So each of these has a source that has something when its turn comes.
LEMMA SomeSource ==
  ASSUME NEW i \in 1 .. 31, NEW p, p = slurmfs_config[i].nm, p \notin MayLack \cup {"ControlMachine"}
  PROVE  \E t \in MAC .. LeastTrusted :
            /\ Permitted(p, t, i > 5) /\ Offers(t, p)
            /\ ~(t = SLURM /\ (p = "jobs" \/ (Desc[p].typ \in DOMAIN ConfigField /\ i <= 10)))
<1>1. p \in Names
  BY Turns
<1>2. CASE DEFAULT \in Desc[p].allowed /\ Desc[p].typ # "CONTEXT"
  <2>1. Offers(DEFAULT, p)
    BY <1>2, OffersIs DEF HasDefault
  <2> QED BY <1>2, <2>1, Numbers DEF Permitted
<1>3. CASE p = "DefContext" /\ MNT \in Desc[p].debug
  <2>1. i > 5
    BY <1>3, LateTurns
  <2>2. Offers(MNT, p)
    BY <1>3, OffersIs DEF slurm_fopts
  <2> QED BY <1>3, <2>1, <2>2, Numbers DEF Permitted
<1>4. CASE SLURM \in Desc[p].allowed /\ (Desc[p].typ \in DOMAIN ConfigField => p \in LateFields)
  <2>1. Desc[p].typ \in DOMAIN ConfigField => i > 10
    BY <1>4, LateTurns
  <2>2. p # "jobs"
    BY DEF MayLack
  <2>3. Offers(SLURM, p)
    BY OffersIs
  <2> QED BY <1>4, <2>1, <2>2, <2>3, Numbers DEF Permitted
<1>5. CASE DERIVED \in Desc[p].allowed
  <2>1. p # "isController"
    BY DEF MayLack
  <2>2. Offers(DERIVED, p)
    BY <2>1, OffersIs
  <2> QED BY <1>5, <2>2, Numbers DEF Permitted
<1> QED BY <1>1, <1>2, <1>3, <1>4, <1>5, MustHave

\* A row whose search comes to the end has a source, but for a few.
LEMMA ReturnHas ==
  ASSUME IInv, ModeInv, Return, Depth = 1
  PROVE  /\ At = slurmfs_config[row].nm /\ row \in 1 .. 31
         /\ cp[At].actual = PSRC_NONE => At \in MayLack \cup {"ControlMachine"}
<1>1. /\ stack # <<>> /\ Top.pc = "sources" /\ (Top.src # PSRC_NONE \/ ~(Top.s <= LeastTrusted))
  BY DEF Return, Searching, Running
<1>2. /\ FrameOK(1) /\ At \in Names /\ Top \in Frames /\ Top = stack[1] /\ row \in 1 .. 31
  BY <1>1, TopIsFrame DEF IInv
<1>3. At = slurmfs_config[row].nm
  BY <1>2 DEF FrameOK, At
<1>4. ASSUME cp[At].actual = PSRC_NONE, At \notin MayLack \cup {"ControlMachine"} PROVE FALSE
  <2>1. Top.src = PSRC_NONE
    BY <1>1, <1>2, <1>4 DEF FrameOK, At
  <2>2. Top.s = 10
    <3>1. Top.s \in MAC .. 10
      BY <1>2 DEF Frames
    <3> QED BY <1>1, <2>1, <3>1, Numbers
  <2>3. ModeOf(Top)
    BY <1>2 DEF ModeInv
  <2>4. Searched(Top) /\ (Top.debug <=> row > 5)
    BY <1>1, <2>1, <2>3 DEF ModeOf
  <2>5. PICK t \in MAC .. LeastTrusted :
            /\ Permitted(At, t, row > 5) /\ Offers(t, At)
            /\ ~(t = SLURM /\ (At = "jobs" \/ (Desc[At].typ \in DOMAIN ConfigField /\ row <= 10)))
    BY <1>2, <1>3, <1>4, SomeSource
  <2>6. Permitted(At, t, Top.debug)
    BY <2>4, <2>5 DEF Permitted
  <2>7. t \in MAC .. (Top.s - 1)
    BY <2>2, Numbers
  <2>8. ~Offers(t, At) \/ (t = SLURM /\ MayFail(At))
    BY <2>4, <2>6, <2>7 DEF Searched, At
  <2> QED BY <2>5, <2>8 DEF MayFail
<1> QED BY <1>2, <1>3, <1>4

\* A row that is found by the hash of Debug's name is called like it.
LEMMA Namesakes ==
  ASSUME IInv, DebugInv, stack # <<>>, cp[Lookup("Debug")].h = cp[At].h, Dep(At) # NoName
  PROVE  "Debug" \in {in.user, in.duser}
<1>1. FrameOK(Depth) /\ At \in Names /\ Top = stack[Depth]
  BY TopIsFrame DEF IInv
<1>2. cp[At].h # None
  BY <1>1 DEF FrameOK, At
<1>3. cp[At].h = <<"Debug">>
  BY <1>2, DebugIs
<1>4. At # "Debug" /\ At # "Hostname"
  BY <1>1, DepIs
<1>5. HashOK(At) /\ "Debug" \in Names
  BY <1>1, Indices DEF IInv, TableInv, RowOK
<1>6. NamedAfter(At, "Debug")
  BY <1>3, <1>4, <1>5 DEF HashOK, None
<1> QED BY <1>4, <1>6 DEF NamedAfter

\* Only the call for Debug runs at its row.
LEMMA AloneAtDebug ==
  ASSUME IInv, row = 5, stack # <<>>
  PROVE  Depth = 1
<1>1. Depth \in Nat \ {0} /\ stack \in Seq(Frames)
  BY TopIsFrame DEF IInv
<1>2. SUFFICES ASSUME Depth > 1 PROVE FALSE
  BY <1>1
<1>3. FrameOK(1) /\ FrameOK(2)
  BY <1>1, <1>2 DEF IInv, StackInv
<1>4. stack[1].at = "Debug" /\ stack[1].pc = "deps" /\ stack[1].di = stack[2].at
  <2>1. slurmfs_config[5].nm = "Debug"
    BY Turns
  <2>2. stack[1].at = "Debug" /\ stack[1].pc = "deps"
    BY <1>2, <1>3, <2>1 DEF FrameOK
  <2>3. stack[2].at = stack[1].di
    <3>1. PICK k \in {2} : FrameOK(k)
      BY <1>3
    <3>2. k > 1 /\ k - 1 = 1 /\ k = 2
      OBVIOUS
    <3>3. stack[k].at = stack[k - 1].di
      BY <3>1, <3>2 DEF FrameOK
    <3> QED BY <3>2, <3>3
  <2> QED BY <2>2, <2>3
<1>5. stack[2].at \in Names
  <2>1. stack[2] \in Frames
    BY <1>1, <1>2 DEF Depth
  <2> QED BY <2>1 DEF Frames
<1>6. Chain(stack[1].di) < Chain("Debug") /\ stack[1].di \in Names
  BY <1>3, <1>4, <1>5, Indices DEF FrameOK
<1>7. Chain("Debug") = 0
  BY DepIs, Indices DEF Chain
<1>8. Chain(stack[1].di) \in 0 .. 2
  BY <1>6, ChainFalls
<1> QED BY <1>6, <1>7, <1>8

\* What a row is when its call returns to ingest_config().
LEMMA ReturnPasses ==
  ASSUME IInv, ModeInv, PassedInv, Return, Depth = 1, ~End("INTERNAL"), LinksTo(cp, cp'), HashKept, in' = in,
         NEW i \in 1 .. 31, i = row
  PROVE  PassedOK(i)'
<1>1. stack # <<>> /\ ~(cp[Lookup("Debug")].h = cp[At].h /\ DebugOn /\ Dep(At) # NoName)
  BY DEF Return, Running, Dep
<1>2. FrameOK(1) /\ At \in Names /\ Top = stack[1]
  BY <1>1, TopIsFrame DEF IInv
<1>3. At = slurmfs_config[i].nm /\ (cp[At].actual = PSRC_NONE => At \in MayLack \cup {"ControlMachine"})
  BY ReturnHas
<1>4. cp'[At].actual = cp[At].actual
  BY <1>2 DEF LinksTo
<1>5. cp'[At].h # None
  BY <1>2 DEF FrameOK, At, HashKept
<1>6. cp'[At].dep = Dep(At)
  <2>1. cp[At].dep = Dep(At)
    BY <1>2 DEF PassedInv, At
  <2> QED BY <1>2, <2>1 DEF LinksTo
<1>7. ASSUME At \in UserRows, User(At) = "Debug" PROVE FALSE
  <2>1. cp[At].actual # PSRC_NONE
    BY <1>3, <1>7 DEF UserRows, MayLack
  <2>2. SourceTells(At)
    BY <1>2 DEF PassedInv
  <2>3. cp[At].h = <<"Debug">>
    BY <1>7, <2>1, <2>2 DEF SourceTells, NoText
  <2>4. row > 5
    BY <1>3, <1>7, Turns DEF UserRows
  <2>5. cp["Debug"].h # None
    BY <2>4 DEF ModeInv, DebugInv
  <2>6. cp[Lookup("Debug")].h = <<"Debug">>
    BY <2>5, DebugIs DEF ModeInv
  <2>7. DebugOn
    BY <1>1, <2>4, DebugFrom
  <2>8. Dep(At) # NoName
    BY <1>2, <1>7, EarlyRows
  <2> QED BY <1>1, <2>3, <2>6, <2>7, <2>8
<1> QED BY <1>3, <1>4, <1>5, <1>6, <1>7 DEF PassedOK, User

\* collect_cp() returns.
LEMMA ReturnStays ==
  ASSUME IInv, IInv', ModeInv, PassedInv, Return
  PROVE  Stays
<1>1. status = "running" /\ stack # <<>> /\ Top.pc = "sources"
  BY DEF Return, Running
<1>2. /\ FrameOK(Depth) /\ At \in Names /\ Top \in Frames /\ Top = stack[Depth] /\ Depth \in Nat \ {0}
      /\ stack \in Seq(Frames) /\ row \in 1 .. 31
  BY <1>1, TopIsFrame DEF IInv
<1>3. CASE End("INTERNAL")
  <2>1. CASE cp[Lookup("Debug")].h = cp[At].h /\ Dep(At) # NoName
    <3>1. Excused("INTERNAL")
      BY <1>1, <2>1, Namesakes DEF Excused, ModeInv
    <3>2. Stops
      BY <1>3, <3>1 DEF Stops, ExitCodes
    <3> QED BY <3>2, StopsStays
  <2>2. CASE ~(cp[Lookup("Debug")].h = cp[At].h /\ Dep(At) # NoName)
    <3>1. status' = status
      BY <2>2 DEF Return, Dep
    <3> QED BY <1>1, <1>3, <3>1 DEF End
  <2> QED BY <2>1, <2>2
<1>4. CASE ~End("INTERNAL")
  <2>1. /\ cp' = LookedUp("Debug") /\ stack' = Below
        /\ in' = in /\ row' = row /\ linked' = linked /\ slcnf' = slcnf /\ status' = status
    BY <1>4 DEF Return, fuse, slurm
  <2>2. LinksTo(cp, cp')
    BY <2>1, LookedUpLinks, IsTableNow, Indices
  <2>3. HashKept /\ SourcesKept
    BY <2>1, <2>2, LinksKeepHere DEF IInv
  <2>4. (\A q \in Names : StepOf(q)) /\ LinksFit
    BY <2>1, <2>2, LinksAre DEF LinksFit
  <2> PICK d \in Nat \ {0} : d = Depth
    BY <1>2
  <2>5. stack' \in Seq(Frames) /\ Depth' = d - 1 /\ \A k \in 1 .. d - 1 : stack'[k] = stack[k]
    BY <1>1, <1>2, <2>1, PopFacts
  <2>6. stack' = <<>> <=> d = 1
    <3>1. stack' = <<>> <=> Depth' = 0
      BY <2>5, EmptySeq DEF Depth
    <3> QED BY <2>5, <3>1
  <2>7. ASSUME NEW n \in 1 .. 31, Passed(n)', ~Passed(n) PROVE n = row /\ d = 1
    BY <1>1, <2>1, <2>6, <2>7 DEF Passed
  <2>8. d = 1 => /\ At = slurmfs_config[row].nm
                 /\ cp[At].actual = PSRC_NONE => At \in MayLack \cup {"ControlMachine"}
    BY ReturnHas
  <2>9. Dep(At) # NoName => cp'[Dep(At)].actual # PSRC_NONE
    <3>1. Dep(At) # NoName => cp[Dep(At)].actual # PSRC_NONE
      BY <1>1, <1>2 DEF FrameOK, At
    <3> QED BY <1>2, <2>3, <3>1, ChainFalls DEF SourcesKept
  <2>10. ASSUME NEW k \in 1 .. d - 1
         PROVE  ModeOf(stack[k])' /\ (cp[stack[k].at].dep = Dep(stack[k].at))'
    <3>1. k \in 1 .. Depth /\ stack'[k] = stack[k]
      BY <2>5
    <3> QED BY <2>1, <2>4, <3>1, LowerModes
  <2>11. ModeInv'
    <3>1. Passed(5)' => Passed(5) \/ cp'["Debug"].actual # PSRC_NONE
      <4>1. SUFFICES ASSUME Passed(5)', ~Passed(5) PROVE cp'["Debug"].actual # PSRC_NONE
        OBVIOUS
      <4>2. row = 5 /\ d = 1
        BY <2>7, <4>1
      <4>3. At = "Debug"
        BY <2>8, <4>2, Turns
      <4>4. cp["Debug"].actual # PSRC_NONE
        BY <2>8, <4>2, <4>3 DEF MayLack
      <4> QED BY <1>2, <2>3, <4>3, <4>4 DEF SourcesKept
    <3>2. Passed(2)' => Passed(2) \/ cp'["slurm_api_version"].actual # PSRC_NONE
      <4>1. SUFFICES ASSUME Passed(2)', ~Passed(2) PROVE cp'["slurm_api_version"].actual # PSRC_NONE
        OBVIOUS
      <4>2. row = 2 /\ d = 1
        BY <2>7, <4>1
      <4>3. At = "ClusterName"
        BY <2>8, <4>2, Turns
      <4>4. Dep(At) = "slurm_api_version" /\ Dep(At) # NoName
        BY <1>2, <4>3, EarlyRows DEF NoName
      <4> QED BY <2>9, <4>4
    <3>3. Passed(10)' => Passed(10) \/ cp'["ControlMachine"].actual # PSRC_NONE
      <4>1. SUFFICES ASSUME Passed(10)', ~Passed(10) PROVE cp'["ControlMachine"].actual # PSRC_NONE
        OBVIOUS
      <4>2. row = 10 /\ d = 1
        BY <2>7, <4>1
      <4>3. At = "isController"
        BY <2>8, <4>2, Turns
      <4>4. Dep(At) = "ControlMachine" /\ Dep(At) # NoName
        BY <1>2, <4>3, EarlyRows DEF NoName
      <4> QED BY <2>9, <4>4
    <3>4. Undecided' => Undecided
      <4>1. SUFFICES ASSUME row = 5, stack' # <<>> PROVE FALSE
        BY <2>1 DEF Undecided
      <4> QED BY <1>1, <2>6, <4>1, AloneAtDebug
    <3>5. (\A k \in 1 .. Depth : ModeOf(stack[k]))'
      BY <2>5, <2>10
    <3> QED BY <2>1, <2>3, <2>4, <3>1, <3>2, <3>3, <3>4, <3>5, ModesStay
  <2>12. PassedInv'
    <3>1. ASSUME NEW i \in Rows, Passed(i)' PROVE Passed(i) \/ PassedOK(i)'
      <4>1. SUFFICES ASSUME ~Passed(i) PROVE PassedOK(i)'
        OBVIOUS
      <4>2. i \in 1 .. 31
        BY RowsAre
      <4>3. i = row /\ d = 1
        BY <2>7, <3>1, <4>1, <4>2
      <4> QED BY <1>4, <2>1, <2>2, <2>3, <4>2, <4>3, ReturnPasses
    <3>2. (\A k \in 1 .. Depth : cp[stack[k].at].dep = Dep(stack[k].at))'
      BY <2>5, <2>10
    <3> QED BY <2>1, <2>3, <2>4, <3>1, <3>2, PassedStays
  <2> QED BY <1>1, <2>1, <2>11, <2>12, Runs DEF Stays
<1> QED BY <1>3, <1>4

-----------------------------------------------------------------------------
(* The steps of a collector                                                *)

\* The next turn of a search.
LEMMA TurnedFrame ==
  ASSUME IInv, ModeInv, NEW s \in MAC .. LeastTrusted, Trying(s), NEW src \in PSRC_NONE .. LeastTrusted,
         src # PSRC_NONE \/ ~Offers(s, At) \/ (s = SLURM /\ MayFail(At))
  PROVE  LET f == [Top EXCEPT !.pc = "sources", !.s = @ + 1, !.src = src]
         IN f \in Frames /\ f.at = At /\ f.pc = "sources" /\ ModeOf(f)
<1> DEFINE f == [Top EXCEPT !.pc = "sources", !.s = @ + 1, !.src = src]
<1>1. stack # <<>> /\ Top.pc = "sources" /\ Top.src = PSRC_NONE /\ Top.s = s
  BY DEF Trying, Searching, Running
<1>2. Top \in Frames /\ Top = stack[Depth] /\ Depth \in Nat \ {0}
  BY <1>1, TopIsFrame DEF IInv
<1>3. s + 1 \in MAC .. 10 /\ s \in Int
  BY Numbers
<1>4. f \in Frames /\ f.at = At /\ f.pc = "sources" /\ f.s = s + 1 /\ f.src = src /\ f.debug = Top.debug
      /\ f.di = Top.di
  BY <1>1, <1>2, <1>3 DEF Frames, At
<1> HIDE DEF f
<1>5. ModeOf(Top)
  BY <1>2 DEF ModeInv
<1>6. src = PSRC_NONE => Searched(f)
  <2>1. SUFFICES ASSUME src = PSRC_NONE, NEW t \in MAC .. (f.s - 1), Permitted(At, t, Top.debug)
                 PROVE  ~Offers(t, At) \/ (t = SLURM /\ MayFail(At))
    BY <1>4 DEF Searched
  <2>2. Searched(Top)
    BY <1>1, <1>5 DEF ModeOf
  <2>3. t = s \/ t \in MAC .. (Top.s - 1)
    BY <1>1, <1>3, <1>4, Numbers
  <2> QED BY <2>1, <2>2, <2>3 DEF Searched, At
<1>7. ModeOf(f)
  BY <1>1, <1>4, <1>5, <1>6 DEF ModeOf, At
<1> QED BY <1>4, <1>7 DEF f

\* The options that are found are the row's own.
LEMMA OwnLinks ==
  ASSUME IInv, NameHash, NEW s, Trying(s), LinksOwn
  PROVE  LinksFit
<1>1. cp[At].h = <<At>>
  BY OwnHash
<1>2. \A f : <<At>> = <<f>> => At = f
  OBVIOUS
<1> QED BY <1>1, <1>2 DEF LinksOwn, LinksFit

\* A source has nothing.
LEMMA LacksStays ==
  ASSUME IInv, IInv', ModeInv, PassedInv, NEW s \in MAC .. LeastTrusted, Lacks(s)
  PROVE  Stays
<1>1. /\ Trying(s) /\ SetTop([Top EXCEPT !.pc = "sources", !.s = @ + 1, !.src = PSRC_NONE])
      /\ in' = in /\ row' = row /\ status' = status /\ (slcnf => slcnf') /\ LinksOwn
      /\ LinksTo(cp, cp') /\ (~Offers(s, At) \/ (s = SLURM /\ MayFail(At)))
  BY DEF Lacks, Turned
<1> DEFINE f == [Top EXCEPT !.pc = "sources", !.s = @ + 1, !.src = PSRC_NONE]
<1>2. f \in Frames /\ f.at = At /\ f.pc = "sources" /\ ModeOf(f)
  <2>1. PSRC_NONE \in PSRC_NONE .. LeastTrusted
    BY Numbers
  <2> QED BY <1>1, <2>1, TurnedFrame
<1>3. SetTop(f)
  BY <1>1
<1> HIDE DEF f
<1>4. HashKept /\ SourcesKept
  BY <1>1, LinksKeepHere DEF IInv
<1>5. (\A q \in Names : StepOf(q)) /\ LinksFit
  BY <1>1, LinksAre, OwnLinks DEF ModeInv
<1>6. stack # <<>> /\ status = "running"
  BY <1>1, TryingAt
<1>7. ModeInv' /\ PassedInv'
  BY <1>1, <1>2, <1>3, <1>4, <1>5, <1>6, InnerStep
<1> QED BY <1>1, <1>6, <1>7, Runs DEF Stays

\* Which rows are collected at which turn.
LEMMA EarlyTurn ==
  ASSUME IInv, ModeInv, NEW s, Trying(s)
  PROVE  /\ Top.debug <=> row > 5
         /\ row <= 5 => At \in Early
         /\ row > 5 /\ At \in Early => At = "ControlMachine"
         /\ At = "Debug" => row = 5
         /\ At = "Hostname" => row = 9
<1>1. stack # <<>> /\ Top.pc = "sources"
  BY DEF Trying, Searching, Running
<1>2. At \in Names /\ Top = stack[Depth] /\ Depth \in Nat \ {0} /\ row \in 1 .. 31 /\ StackInv
  BY <1>1, TopIsFrame DEF IInv
<1>3. ModeOf(Top)
  BY <1>2 DEF ModeInv
<1>4. cp[At].actual = PSRC_NONE
  BY OwnHash DEF ModeInv
<1>5. row > 5 => At # "slurm_api_version"
  <2>1. row > 5 => Passed(2)
    BY <1>2 DEF Passed
  <2> QED BY <1>4, <2>1 DEF ModeInv, ManagerInv
<1>6. At \notin DepNames => At = slurmfs_config[row].nm
  BY <1>1, <1>2, OnlyFrame
<1>7. At \in DepNames /\ At \in Early => At \in {"slurm_api_version", "ControlMachine"}
  BY DEF DepNames, Early
<1>8. At \notin DepNames /\ At \in Early /\ row > 5 => At = "slurm_api_version"
  BY <1>2, <1>6, Turns
<1>9. (At = "Debug" => row = 5) /\ (At = "Hostname" => row = 9)
  <2>1. "Debug" \notin DepNames /\ "Hostname" \notin DepNames
    BY DEF DepNames
  <2> QED BY <1>2, <1>6, <2>1, Turns
<1> QED BY <1>1, <1>3, <1>5, <1>7, <1>8, <1>9 DEF ModeOf, At

\* What answers is the best of the sources.
LEMMA GivesBest ==
  ASSUME IInv, ModeInv, NEW s \in MAC .. LeastTrusted, Trying(s), Offers(s, At)
  PROVE  Best(At, s)
<1>1. /\ stack # <<>> /\ Top.pc = "sources" /\ Top.src = PSRC_NONE /\ Top.s = s /\ Permitted(At, s, Top.debug)
  BY DEF Trying, Searching, Running
<1>2. At \in Names /\ Top = stack[Depth] /\ Depth \in Nat \ {0}
  BY <1>1, TopIsFrame DEF IInv
<1>3. Searched(Top)
  BY <1>1, <1>2 DEF ModeInv, ModeOf
<1>4. "ControlMachine" \notin slurm_fopts
  BY DEF slurm_fopts, Mandatory, ValidIfDebug
<1>5. s = MNT => At # "ControlMachine"
  BY <1>4, OffersIs
<1>6. s \in Desc[At].allowed \/ (s \in Desc[At].debug /\ At \notin Early)
  <2>1. SUFFICES ASSUME s \notin Desc[At].allowed PROVE s \in Desc[At].debug /\ At \notin Early
    OBVIOUS
  <2>2. s \in Desc[At].debug /\ row > 5
    BY <1>1, <2>1, EarlyTurn DEF Permitted
  <2>3. At # "ControlMachine"
    BY <1>2, <1>5, <2>1, <2>2, Origins
  <2> QED BY <2>2, <2>3, EarlyTurn
<1>7. ASSUME NEW t \in MAC .. (s - 1), Offers(t, At), Permitted(At, t, At \notin Early) PROVE FALSE
  <2>1. t \in MAC .. (Top.s - 1) /\ t < s /\ s \in Int
    BY <1>1, Numbers
  <2>2. Permitted(At, t, Top.debug) => t = SLURM /\ MayFail(At)
    BY <1>3, <1>7, <2>1 DEF Searched, At
  <2>3. CASE Permitted(At, t, Top.debug)
    <3>1. t = SLURM /\ Doubtful(At)
      BY <2>2, <2>3 DEF MayFail, Doubtful
    <3>2. s \in Desc[At].debug \cup Desc[At].allowed
      BY <1>1 DEF Permitted
    <3>3. s = MNT /\ MNT \in Desc[At].debug
      BY <1>2, <2>1, <3>1, <3>2, Origins, Numbers
    <3> QED BY <1>2, <1>5, <3>1, <3>3, Origins
  <2>4. CASE ~Permitted(At, t, Top.debug)
    <3>1. At \notin Early /\ ~Top.debug
      BY <1>7, <2>4 DEF Permitted
    <3>2. row > 5 \/ row <= 5
      BY RowsAre DEF IInv, StackInv
    <3> QED BY <3>1, <3>2, EarlyTurn
  <2> QED BY <2>3, <2>4
<1> QED BY <1>6, <1>7 DEF Best

\* What the row gains that a source answers for.
LEMMA GivesGains ==
  ASSUME IInv, ModeInv, NEW s \in MAC .. LeastTrusted, NEW v, NEW h, Gives(s, v, h)
  PROVE  Gains(At, s)
<1>1. /\ s \in {SLURM, ENV, MNT, DEFAULT, DERIVED} /\ Trying(s) /\ SetTo(At, BIT(s), v, h)
      /\ Offers(s, At) /\ Told(s, v, h)
  BY DEF Gives, Turned
<1>2. /\ stack # <<>> /\ Top.pc = "sources" /\ Permitted(At, s, Top.debug) /\ At \in Names
  BY <1>1, OwnHash DEF Trying, Searching, Running, ModeInv
<1>3. Best(At, s) /\ s # FUSE
  BY <1>1, GivesBest, Numbers
<1>4. At = "Debug" => s = DEFAULT
  <2>1. SUFFICES ASSUME At = "Debug" PROVE s = DEFAULT
    OBVIOUS
  <2>2. Desc[At].allowed = {MAC, DEFAULT} /\ ~Top.debug
    BY <1>1, <1>2, <2>1, Origins, EarlyTurn
  <2> QED BY <1>1, <1>2, <2>2, Numbers DEF Permitted
<1>5. At = "ControlMachine" \/ At \in UserRows => s = SLURM
  <2>1. SUFFICES ASSUME At = "ControlMachine" \/ At \in UserRows PROVE s = SLURM
    OBVIOUS
  <2>2. Doubtful(At)
    <3>1. At \in UserRows => Desc[At].typ \in DOMAIN ConfigField
      BY <1>2, TypesAre, Fields
    <3> QED BY <1>2, <2>1, <3>1, Origins DEF Doubtful
  <2>3. s \in {SLURM, MNT}
    BY <1>2, <2>2, Origins DEF Permitted
  <2>4. At \notin slurm_fopts
    BY <2>1 DEF slurm_fopts, Mandatory, ValidIfDebug, UserRows
  <2> QED BY <1>1, <2>3, <2>4, OffersIs
<1>6. At = "rnodepool" => s = DERIVED
  BY <1>2, Origins DEF Permitted
<1>7. cp'[At].actual = BIT(s) /\ cp'[At].dep = cp[At].dep /\ cp'[At].val = v /\ cp'[At].h = h
  BY <1>1 DEF SetTo
<1>8. /\ At = "Debug" => v = <<"TRUE">>
      /\ At = "ControlMachine" => slcnf' /\ in.cname # NoText
      /\ At = "rnodepool" => in.parts
      /\ At \in UserRows /\ User(At) # NoText => h = <<User(At)>>
  BY <1>1, <1>4, <1>5, <1>6 DEF Told
<1>9. (At = "Debug" => row = 5) /\ (At = "Hostname" => row >= 9)
  BY <1>1, EarlyTurn
<1> QED BY <1>2, <1>3, <1>7, <1>8, <1>9 DEF Gains

\* A source answers.
LEMMA GivesStays ==
  ASSUME IInv, IInv', ModeInv, PassedInv, NEW s \in MAC .. LeastTrusted, NEW v, NEW h, Gives(s, v, h)
  PROVE  Stays
<1> DEFINE f == [Top EXCEPT !.pc = "sources", !.s = @ + 1, !.src = s]
<1>1. /\ Trying(s) /\ SetTop(f) /\ SetTo(At, BIT(s), v, h)
      /\ in' = in /\ row' = row /\ status' = status /\ (slcnf => slcnf') /\ LinksOwn
  BY DEF Gives, Turned
<1>2. f \in Frames /\ f.at = At /\ f.pc = "sources" /\ ModeOf(f)
  <2>1. s \in PSRC_NONE .. LeastTrusted /\ s # PSRC_NONE
    BY Numbers
  <2> QED BY <1>1, <2>1, TurnedFrame
<1> HIDE DEF f
<1>3. stack # <<>> /\ status = "running" /\ At \in Names
  BY <1>1, TryingAt
<1>4. \A q \in Names : StepOf(q)
  BY <1>1, <1>3, GivesGains, SetIs
<1>5. cp'[At].h # None
  <2>1. stack \in Seq(Frames) /\ Depth \in Nat \ {0}
    BY <1>3, TopIsFrame DEF IInv
  <2> PICK d \in Nat \ {0} : d = Depth
    BY <2>1
  <2>2. stack'[d] = f /\ Depth' = d
    BY <1>1, <1>2, <1>3, <2>1, SetTopFacts
  <2>3. FrameOK(d)'
    BY <2>2 DEF IInv, StackInv
  <2> QED BY <1>2, <2>2, <2>3 DEF FrameOK
<1>6. HashKept /\ SourcesKept
  BY <1>1, <1>3, <1>5, BitSome DEF SetTo, HashKept, SourcesKept
<1>7. LinksFit
  BY <1>1, OwnLinks DEF ModeInv
<1>8. ModeInv' /\ PassedInv'
  BY <1>1, <1>2, <1>3, <1>4, <1>6, <1>7, InnerStep
<1> QED BY <1>1, <1>3, <1>8, Runs DEF Stays

\* The command line is come to.
LEMMA ParsesStays ==
  ASSUME IInv, IInv', ModeInv, PassedInv, Parses
  PROVE  Stays
<1> DEFINE f == [Top EXCEPT !.pc = "parse"]
<1>1. /\ Trying(NONOPT) /\ SetTop(f) /\ cp' = cp
      /\ in' = in /\ row' = row /\ status' = status /\ slcnf' = slcnf /\ LinksOwn
  BY DEF Parses
<1>2. stack # <<>> /\ Top.pc = "sources" /\ status = "running"
  BY <1>1 DEF Trying, Searching, Running
<1>3. Top \in Frames /\ Top = stack[Depth] /\ Depth \in Nat \ {0}
  BY <1>2, TopIsFrame DEF IInv
<1>4. f \in Frames /\ f.at = At /\ f.pc = "parse" /\ f.debug = Top.debug /\ f.di = Top.di
  BY <1>3 DEF Frames, At
<1> HIDE DEF f
<1>5. ModeOf(f)
  <2>1. ModeOf(Top)
    BY <1>3 DEF ModeInv
  <2> QED BY <1>2, <1>4, <2>1 DEF ModeOf, At
<1>6. LinksTo(cp, cp')
  BY <1>1, SameLinks DEF IInv
<1>7. HashKept /\ SourcesKept /\ \A q \in Names : StepOf(q)
  BY <1>1, <1>6, LinksAre DEF HashKept, SourcesKept
<1>8. LinksFit
  BY <1>1, OwnLinks DEF ModeInv
<1>9. ModeInv' /\ PassedInv'
  BY <1>1, <1>2, <1>4, <1>5, <1>7, <1>8, InnerStep
<1> QED BY <1>1, <1>2, <1>9, Runs DEF Stays

\* So does every collector.
LEMMA CollectStays ==
  ASSUME IInv, IInv', ModeInv, PassedInv, Collect
  PROVE  Stays
<1>1. Collects
  BY CollectDoes DEF ModeInv
<1> QED BY <1>1, LacksStays, GivesStays, ParsesStays, StopsStays DEF Collects

-----------------------------------------------------------------------------
(* The arguments                                                           *)

\* The parser goes to the next argument.
LEMMA ParsedStays ==
  ASSUME IInv, IInv', ModeInv, PassedInv, Running("parse"), NEW c, Parsed(c),
         HashKept, SourcesKept, \A q \in Names : StepOf(q)
  PROVE  Stays
<1> DEFINE f == [Top EXCEPT !.argi = @ + 1]
<1>1. /\ SetTop(f) /\ in' = in /\ row' = row /\ linked' = linked /\ slcnf' = slcnf /\ status' = status
  BY DEF Parsed, fuse, slurm
<1>2. stack # <<>> /\ Top.pc = "parse" /\ status = "running"
  BY DEF Running
<1>3. Top \in Frames /\ Top = stack[Depth] /\ Depth \in Nat \ {0}
  BY <1>2, TopIsFrame DEF IInv
<1>4. f \in Frames /\ f.at = At /\ f.pc = "parse" /\ f.debug = Top.debug /\ f.di = Top.di
  BY <1>2, <1>3 DEF Frames, At
<1> HIDE DEF f
<1>5. ModeOf(f)
  <2>1. ModeOf(Top)
    BY <1>3 DEF ModeInv
  <2> QED BY <1>2, <1>4, <2>1 DEF ModeOf, At
<1>6. LinksFit
  BY <1>1 DEF LinksFit
<1>7. ModeInv' /\ PassedInv'
  BY <1>1, <1>2, <1>4, <1>5, <1>6, InnerStep
<1> QED BY <1>1, <1>2, <1>7, Runs DEF Stays

\* An argument may mark the mount point, or a host named like it.
LEMMA MarkedStays ==
  ASSUME IInv, IInv', ModeInv, PassedInv, Running("parse"), NEW c, Parsed(c),
         NEW q \in {"MountPoint", "Hostname"}, NEW v, SetTo(q, BIT(FUSE), v, cp[q].h)
  PROVE  Stays
<1>1. row = 12
  BY ParsingIs
<1>2. q \in Names /\ q \notin UserRows
  BY Indices DEF UserRows
<1>3. FUSE \in MAC .. LeastTrusted
  BY Numbers
<1>4. cp'[q].actual = BIT(FUSE) /\ cp'[q].dep = cp[q].dep
  BY DEF SetTo
<1>5. Gains(q, FUSE)
  BY <1>1, <1>2, <1>4 DEF Gains
<1>6. \A p \in Names : StepOf(p)
  BY <1>2, <1>3, <1>5, SetIs
<1>7. HashKept /\ SourcesKept
  BY <1>2, <1>3, BitSome DEF SetTo, HashKept, SourcesKept
<1> QED BY <1>6, <1>7, ParsedStays

\* It may leave the table.
LEMMA UnmarkedStays ==
  ASSUME IInv, IInv', ModeInv, PassedInv, Running("parse"), Parsed(cp)
  PROVE  Stays
<1>1. cp' = cp
  BY DEF Parsed
<1>2. LinksTo(cp, cp')
  BY <1>1, SameLinks DEF IInv
<1>3. HashKept /\ SourcesKept /\ \A q \in Names : StepOf(q)
  BY <1>1, <1>2, LinksAre DEF HashKept, SourcesKept
<1> QED BY <1>3, ParsedStays

\* A word.
LEMMA ParseWordStays ==
  ASSUME IInv, IInv', ModeInv, PassedInv, ParseWord
  PROVE  Stays
<1> DEFINE q == Lookup("MountPoint")
           takes == Arg.ok \/ Desc[q].typ = "HOST"
           c == [cp EXCEPT ![q].val = <<Arg.text>>, ![q].actual = BIT(FUSE)]
<1>1. Running("parse") /\ Parsed(IF takes THEN c ELSE cp)
  BY DEF ParseWord, Parsing
<1>2. q \in {"MountPoint", "Hostname"}
  BY <1>1, ParsingIs, MountLookup
<1> HIDE DEF q, takes
<1>3. CASE takes
  <2>1. Parsed(c) /\ cp' = c
    BY <1>1, <1>3 DEF Parsed
  <2>2. SetTo(q, BIT(FUSE), <<Arg.text>>, cp[q].h)
    BY <1>2, <2>1, IsTableNow, Indices, Exceptions
  <2> QED BY <1>1, <1>2, <2>1, <2>2, MarkedStays
<1>4. CASE ~takes
  BY <1>1, <1>4, UnmarkedStays
<1> QED BY <1>3, <1>4

\* An option that finds a row may give it a value, but Debug, and may mark the
\* mount point, or a host named like it.
LEMMA ParseParamStays ==
  ASSUME IInv, IInv', ModeInv, PassedInv, ParseParam
  PROVE  Stays
<1>1. /\ Running("parse") /\ Top.argi <= Len(in.args) /\ Arg.kind = "option"
      /\ Lookup(Arg.text) # NoName
  BY DEF ParseParam, Parsing
<1>2. ASSUME NEW code \in {"crashed", "CONFIG"}, End(code) PROVE Stays
  <2>1. Top.argi \in DOMAIN in.args
    <3>1. Top \in Frames
      BY <1>1, ParsingIs
    <3>2. Top.argi \in Nat \ {0}
      BY <3>1 DEF Frames
    <3>3. in.args \in Seq([kind : Kinds, text : STRING, ok : BOOLEAN])
      BY InputsAssumption DEF IInv, OtherInv
    <3> QED BY <1>1, <3>2, <3>3
  <2>2. FindsRow(in.args[Top.argi])
    BY <1>1 DEF FindsRow, Arg
  <2>3. Excused(code)
    BY <2>1, <2>2 DEF Excused
  <2>4. Stops
    BY <1>2, <2>3 DEF Stops, ExitCodes
  <2> QED BY <2>4, StopsStays
<1>3. CASE OptionTable /\ \E c : Parsed(c)
  <2> PICK c : Parsed(c)
    BY <1>3
  <2>1. in' = in /\ row' = row
    BY DEF Parsed
  <2>2. HashKept /\ SourcesKept
    BY <1>1, <1>3, <2>1, OptionKeeps
  <2>3. ~NamedBy("Debug", Arg)
    <3>1. "Debug" \in Names
      BY Indices
    <3> QED BY <3>1, EarlyRows DEF NamedBy, NumberTypes, SizedTypes
  <2>4. ASSUME NEW p \in Names PROVE StepOf(p)
    <3>1. /\ cp'[p].h = cp[p].h \/ (cp[p].h = None /\ cp'[p].h = <<p>>)
          /\ cp'[p].dep = cp[p].dep
          /\ cp'[p].val = cp[p].val \/ NamedBy(p, Arg)
      BY <1>3 DEF OptionTable
    <3>2. CASE cp'[p].actual = cp[p].actual
      BY <2>3, <3>1, <3>2 DEF StepOf, Same
    <3>3. CASE p \in {"MountPoint", "Hostname"} /\ cp'[p].actual = BIT(FUSE)
      <4>1. row = 12 /\ FUSE \in MAC .. LeastTrusted
        BY <1>1, ParsingIs, Numbers
      <4>2. Gains(p, FUSE)
        BY <3>1, <3>3, <4>1 DEF Gains, UserRows
      <4> QED BY <4>1, <4>2 DEF StepOf
    <3> QED BY <1>3, <3>2, <3>3 DEF OptionTable
  <2> QED BY <1>1, <2>2, <2>4, ParsedStays
<1> QED BY <1>2, <1>3, ParseParamDoes

\* The parser returns.
LEMMA ParseEndsStays ==
  ASSUME IInv, IInv', ModeInv, PassedInv, ParseEnds
  PROVE  Stays
<1> DEFINE f == [Top EXCEPT !.pc = "sources", !.s = @ + 1, !.src = NONOPT]
<1>1. Running("parse") /\ Answer(NONOPT, cp) /\ UNCHANGED fuse /\ UNCHANGED slurm
  BY DEF ParseEnds
<1>2. /\ At = "MountPoint" /\ stack # <<>> /\ Top.pc = "parse" /\ Depth = 1 /\ row = 12
      /\ Top \in Frames /\ Top.s = NONOPT /\ Top = stack[1] /\ status = "running"
  BY <1>1, ParsingIs
<1>3. /\ SetTop(f) /\ cp' = [cp EXCEPT !["MountPoint"].actual = BIT(NONOPT)]
      /\ in' = in /\ row' = row /\ linked' = linked /\ slcnf' = slcnf /\ status' = status
  BY <1>1, <1>2, Numbers DEF Answer, fuse, slurm
<1>4. SetTo("MountPoint", BIT(NONOPT), cp["MountPoint"].val, cp["MountPoint"].h)
  BY <1>3, IsTableNow, Indices, Exceptions
<1>5. NONOPT \in MAC .. LeastTrusted /\ NONOPT # FUSE /\ "MountPoint" \in Names /\ "MountPoint" \notin UserRows
  BY Numbers, Indices DEF UserRows
<1>6. Best("MountPoint", NONOPT)
  <2>1. Desc["MountPoint"].allowed = {NONOPT, DEFAULT} /\ Desc["MountPoint"].debug = {NONOPT, DEFAULT}
    BY <1>5, SourcesAre
  <2>2. \A t \in MAC .. (NONOPT - 1) : ~Permitted("MountPoint", t, "MountPoint" \notin Early)
    BY <2>1, Numbers DEF Permitted
  <2> QED BY <2>1, <2>2, OffersIs DEF Best
<1>7. Gains("MountPoint", NONOPT)
  <2>1. cp'["MountPoint"].actual = BIT(NONOPT) /\ cp'["MountPoint"].dep = cp["MountPoint"].dep
    BY <1>4 DEF SetTo
  <2> QED BY <1>5, <1>6, <2>1 DEF Gains
<1>8. \A p \in Names : StepOf(p)
  BY <1>4, <1>5, <1>7, SetIs
<1>9. HashKept /\ SourcesKept
  BY <1>4, <1>5, BitSome DEF SetTo, HashKept, SourcesKept
<1>10. f \in Frames /\ f.at = At /\ f.pc = "sources" /\ f.src = NONOPT /\ f.debug = Top.debug /\ f.di = Top.di
  <2>1. Top.s + 1 \in MAC .. 10 /\ NONOPT \in PSRC_NONE .. LeastTrusted
    BY <1>2, Numbers
  <2> QED BY <1>2, <2>1 DEF Frames, At
<1> HIDE DEF f
<1>11. ModeOf(f)
  <2>1. ModeOf(Top)
    BY <1>2 DEF ModeInv
  <2>2. NONOPT # PSRC_NONE
    BY Numbers
  <2> QED BY <1>2, <1>10, <2>1, <2>2 DEF ModeOf, At
<1>12. LinksFit
  BY <1>3 DEF LinksFit
<1>13. ModeInv' /\ PassedInv'
  BY <1>2, <1>3, <1>8, <1>9, <1>10, <1>11, <1>12, InnerStep
<1> QED BY <1>2, <1>3, <1>13, Runs DEF Stays

-----------------------------------------------------------------------------
(* The end                                                                 *)

\* A row comes at a turn.
LEMMA HasTurn ==
  ASSUME NEW p \in Names
  PROVE  \E i \in Rows : slurmfs_config[i].nm = p
  BY RowsAre DEF Names

\* Some rows of the table.
LEMMA OtherRows == {"context", "isController", "rnodepool"} \subseteq Names
<1>1. \A nm, typ, al, db, dep, dflt : Param(nm, typ, al, db, dep, dflt).nm = nm
  BY DEF Param
<1>2. /\ slurmfs_config[3].nm = "context" /\ slurmfs_config[10].nm = "isController"
      /\ slurmfs_config[16].nm = "rnodepool"
  BY <1>1 DEF slurmfs_config, OfSlurm
<1> QED BY <1>2, RowsAre DEF Names

\* Nothing has context's or isController's value.
LEMMA NeverGiven ==
  ASSUME MostTrusted, NEW p \in {"context", "isController"}, p \in Names, SourceTells(p),
         cp[p].actual \in Bits \cup {PSRC_NONE}
  PROVE  cp[p].actual = PSRC_NONE
<1>1. SUFFICES ASSUME cp[p].actual # PSRC_NONE PROVE FALSE
  OBVIOUS
<1>2. cp[p].actual # BIT(FUSE)
  BY DEF SourceTells
<1>3. PICK s \in {MAC, SLURM, ENV, MNT, NONOPT, DEFAULT, DERIVED} : cp[p].actual = BIT(s)
  <2>1. cp[p].actual \in {2, 4, 8, 16, 32, 256, 512}
    BY <1>1, <1>2, BitsAre DEF Bits
  <2> QED BY <2>1, BitsAre
<1>4. s \in MAC .. LeastTrusted /\ s # FUSE
  BY Numbers
<1>5. Offers(s, p) /\ (s \in Desc[p].allowed \/ (s \in Desc[p].debug /\ p \notin Early))
  BY <1>3, <1>4 DEF MostTrusted
<1>6. CASE p = "context"
  <2>1. s \in {MAC, DEFAULT}
    BY <1>5, <1>6, Origins DEF Early
  <2>2. Desc[p].typ = "CONTEXT"
    BY <1>6, EarlyRows
  <2> QED BY <1>5, <2>1, <2>2, OffersIs
<1>7. CASE p = "isController"
  <2>1. s \in {DERIVED, DEFAULT} /\ DEFAULT \notin Desc[p].allowed
    BY <1>5, <1>7, Origins, Numbers
  <2> QED BY <1>5, <1>7, <2>1, OffersIs DEF HasDefault
<1> QED BY <1>6, <1>7

\* When the last row has been collected, the check at the end finds nothing.
LEMMA NothingFound ==
  ASSUME IInv, ModeInv, PassedInv, stack = <<>>, row = 31
  PROVE  Consistent
<1>1. \A i \in Rows : PassedOK(i)
  <2>1. \A i \in Rows : Passed(i)
    BY RowsAre DEF Passed
  <2> QED BY <2>1 DEF PassedInv
<1>2. \A p \in Names : /\ cp[p].actual = PSRC_NONE => p \in MayLack \cup {"ControlMachine"}
                       /\ cp[p].dep = Dep(p)
  BY <1>1, HasTurn DEF PassedOK
<1>3. DebugOn
  <2>1. Lookup("Debug") = "Debug"
    BY DebugIs DEF ModeInv
  <2>2. cp["Debug"].val = <<"TRUE">>
    BY DEF ModeInv, DebugInv, Passed
  <2> QED BY <2>1, <2>2, Zenon DEF DebugOn
<1>4. ASSUME NEW f \in slurm_fopts, linked[f] # NoName, f \in Mandatory
      PROVE  cp[linked[f]].actual # PSRC_NONE
  <2>1. linked[f] = f /\ linked[f] \in Names
    BY <1>4 DEF PassedInv, IInv, OtherInv
  <2>2. f \notin MayLack \cup {"ControlMachine"}
    BY <1>4 DEF Mandatory, MayLack
  <2> QED BY <1>2, <2>1, <2>2
<1>5. ASSUME NEW p \in Names, Desc[p].dep # NoName PROVE cp[p].dep # NoName
  BY <1>2, <1>5 DEF Dep
<1> QED BY <1>3, <1>4, <1>5 DEF Consistent

\* What the configuration is when it is complete.
LEMMA CompleteIs ==
  ASSUME IInv, ModeInv, PassedInv, stack = <<>>, row = 31
  PROVE  /\ \A p \in Names : cp[p].actual = PSRC_NONE => p \in MayLack
         /\ {cp[p].actual : p \in {"context", "isController"}} = {PSRC_NONE}
         /\ slcnf /\ in.cname # NoText /\ in.parts /\ "Debug" \notin {in.user, in.duser}
         /\ \A p \in Names : cp[p].h # <<p>> => ~Refused(cp[p].h)
<1>1. \A i \in Rows : PassedOK(i) /\ Passed(i)
  <2>1. \A i \in Rows : Passed(i)
    BY RowsAre DEF Passed
  <2> QED BY <2>1 DEF PassedInv
<1>2. \A p \in Names : /\ cp[p].actual = PSRC_NONE => p \in MayLack \cup {"ControlMachine"}
                       /\ cp[p].h # None
                       /\ p \in UserRows => User(p) # "Debug"
  BY <1>1, HasTurn DEF PassedOK
<1>3. cp["ControlMachine"].actual # PSRC_NONE /\ slcnf /\ in.cname # NoText
  <2>1. Passed(10)
    BY <1>1, RowsAre
  <2> QED BY <2>1 DEF ModeInv, ManagerInv
<1>4. \A p \in Names : cp[p].actual = PSRC_NONE => p \in MayLack
  BY <1>2, <1>3
<1>5. {"context", "isController", "rnodepool"} \subseteq Names
  BY OtherRows
<1>6. cp["context"].actual = PSRC_NONE /\ cp["isController"].actual = PSRC_NONE
  <2>1. \A p \in Names : SourceTells(p) /\ cp[p].actual \in Bits \cup {PSRC_NONE}
    BY DEF PassedInv, IInv, TableInv, RowOK
  <2> QED BY <1>5, <2>1, NeverGiven DEF ModeInv
<1>7. in.parts
  <2>1. cp["rnodepool"].actual # PSRC_NONE
    BY <1>4, <1>5 DEF MayLack
  <2> QED BY <1>5, <2>1 DEF PassedInv, SourceTells
<1>8. "Debug" \notin {in.user, in.duser}
  <2>1. UserRows \subseteq Names
    BY Indices
  <2>2. User("slurm_user_name") # "Debug" /\ User("slurmd_user_name") # "Debug"
    BY <1>2, <2>1 DEF UserRows
  <2> QED BY <2>2 DEF User
<1>9. \A p \in Names : cp[p].h # <<p>> => ~Refused(cp[p].h)
  BY <1>2 DEF IInv, TableInv, RowOK, HashOK
<1> QED BY <1>3, <1>4, <1>6, <1>7, <1>8, <1>9

\* config_consistent_complete() lets every configuration through.
LEMMA FinishStays ==
  ASSUME IInv, IInv', ModeInv, PassedInv, Finish
  PROVE  Stays
<1>1. stack = <<>> /\ row = 31 /\ End(IF Consistent THEN "complete" ELSE "INCOMPLETE")
  BY RowsAre DEF Finish
<1>2. End("complete")
  BY <1>1, NothingFound
<1>3. status' = "complete" /\ UNCHANGED <<in, row, cp, stack, fuse, slurm>>
  BY <1>2 DEF End
<1>4. ModeInv' /\ PassedInv'
  BY <1>3, QuietStays
<1>5. /\ \A p \in Names : cp[p].actual = PSRC_NONE => p \in MayLack
      /\ {cp[p].actual : p \in {"context", "isController"}} = {PSRC_NONE}
      /\ slcnf /\ in.cname # NoText /\ in.parts /\ "Debug" \notin {in.user, in.duser}
      /\ \A p \in Names : cp[p].h # <<p>> => ~Refused(cp[p].h)
  BY <1>1, CompleteIs
<1>6. Outcome'
  <2>1. in' = in /\ cp' = cp /\ slcnf' = slcnf
    BY <1>3 DEF slurm
  <2> QED BY <1>3, <1>5, <2>1 DEF Outcome, Refused
<1> QED BY <1>4, <1>6 DEF Stays

\* Nothing happens.
LEMMA StutterStays ==
  ASSUME IInv, IInv', ModeInv, EndInv, UNCHANGED vars
  PROVE  Stays
<1>1. UNCHANGED <<in, row, cp, stack, fuse, slurm>> /\ status' = status
  BY DEF vars, fuse, slurm
<1>2. ModeInv' /\ PassedInv'
  BY <1>1, QuietStays DEF EndInv
<1>3. Outcome'
  <2>1. in' = in /\ cp' = cp /\ slcnf' = slcnf /\ stack' = stack
    BY <1>1 DEF slurm
  <2>2. Top' = Top /\ At' = At
    BY <2>1 DEF Top, At
  <2>3. (\E i \in DOMAIN in.args : FindsRow(in.args[i]))' <=> \E i \in DOMAIN in.args : FindsRow(in.args[i])
    BY <2>1, SameFinds
  <2> QED BY <1>1, <2>1, <2>2, <2>3 DEF EndInv, Outcome, Refused
<1> QED BY <1>2, <1>3 DEF Stays

-----------------------------------------------------------------------------
(* Theorems                                                                *)

\* Nothing has been collected at the start.
LEMMA StartsBare == Init => ModeInv /\ EndInv
<1>1. SUFFICES ASSUME Init PROVE ModeInv /\ EndInv
  OBVIOUS
<1>2. row = 0 /\ stack = <<>> /\ status = "running" /\ linked = [f \in slurm_fopts |-> NoName]
  BY <1>1 DEF Init
<1>3. \A p \in Names : cp[p].actual = PSRC_NONE /\ cp[p].val = None /\ cp[p].h = None
  BY <1>1 DEF Init
<1>4. Depth = 0 /\ \A n \in 1 .. 31 : ~Passed(n)
  BY <1>2 DEF Depth, Passed
<1>5. {"Debug", "Hostname", "slurm_api_version", "ControlMachine"} \subseteq Names
  BY Indices DEF DepNames
<1>6. DebugInv /\ ManagerInv /\ NameHash
  <2>1. ~Passed(2) /\ ~Passed(5) /\ ~Passed(10)
    BY <1>4
  <2>2. DebugInv
    BY <1>2, <1>3, <1>5, <2>1 DEF DebugInv
  <2>3. ManagerInv
    BY <1>3, <1>5, <2>1 DEF ManagerInv
  <2>4. NameHash
    BY <1>3 DEF NameHash
  <2> QED BY <2>2, <2>3, <2>4
<1>7. MostTrusted
  BY <1>3, BitSome DEF MostTrusted
<1>8. ModeInv
  BY <1>4, <1>6, <1>7 DEF ModeInv
<1>9. PassedInv
  <2>1. \A p \in Names : SourceTells(p)
    <3>1. BIT(FUSE) # PSRC_NONE
      BY BitsAre, Numbers
    <3> QED BY <1>3, <3>1 DEF SourceTells
  <2> QED BY <1>2, <1>4, <2>1, RowsAre DEF PassedInv
<1>10. Outcome
  BY <1>2 DEF Outcome
<1> QED BY <1>8, <1>9, <1>10 DEF EndInv

\* Every step keeps the modes and what has been collected.
LEMMA EveryStepStays ==
  ASSUME IInv, IInv', ModeInv, EndInv, [Next]_vars
  PROVE  Stays
<1>1. PassedInv
  BY DEF EndInv
<1>2. CASE CollectCp
  BY <1>1, <1>2, NextParamStays, CollectDependencyStays, DependencyReturnsStays, ReadDebugStays,
     SkipSourcesStays, ReturnStays, FinishStays, Zenon DEF CollectCp
<1>3. CASE Parse
  <2>1. ASSUME ParseOption PROVE Stays
    BY <1>1, <2>1, UnmarkedStays DEF ParseOption, Parsing
  <2> QED BY <1>1, <1>3, <2>1, ParseWordStays, ParseParamStays, ParseEndsStays, Zenon DEF Parse
<1>4. CASE Collect
  BY <1>1, <1>4, CollectStays
<1>5. CASE Ended \/ UNCHANGED vars
  BY <1>5, StutterStays DEF Ended
<1> QED BY <1>2, <1>3, <1>4, <1>5 DEF Next

\* In which mode the rows are collected, and what has come of it, in every
\* state: what the theorems below rest on.
THEOREM Modes == Spec => [](ModeInv /\ EndInv)
<1>1. IInv /\ IInv' /\ ModeInv /\ EndInv /\ [Next]_vars => ModeInv' /\ EndInv'
  BY EveryStepStays DEF Stays, EndInv
<1> QED BY <1>1, StartsBare, Invariant, PTL DEF Spec

\* MostTrusted holds in every state: no source gives a row its value while a
\* more trusted one has it.
THEOREM Trusted == Spec => []MostTrusted
<1>1. ModeInv => MostTrusted
  BY DEF ModeInv
<1> QED BY <1>1, Modes, PTL

\* Outcome holds in every state: what ingestion ends with, and why it may end
\* before the last row.
THEOREM Outcomes == Spec => []Outcome
<1>1. EndInv => Outcome
  BY DEF EndInv
<1> QED BY <1>1, Modes, PTL
=============================================================================
