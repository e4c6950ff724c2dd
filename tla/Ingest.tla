------------------------------- MODULE Ingest -------------------------------
(***************************************************************************)
(* ingest_config(INGEST_COLDSTART): where each configuration parameter of  *)
(* slurmfs_config[] gets its value from.                                   *)
(*                                                                         *)
(* collect_cp() takes one parameter.  It first collects the parameters the *)
(* row depends on, by recursion, then tries the sources from the most to   *)
(* the least trusted until a collector answers.  Rows name each other by   *)
(* string; a row is found by hash, and set_val_charptr() stores the hash   *)
(* of a value where the hash of the name was.                              *)
(*                                                                         *)
(* The resource manager may come up or go down between two calls, so every *)
(* load succeeds or fails.  A hash is taken for injective: the text stands *)
(* for it.  Texts are sequences of components; <<>> is no text.  Unlike in *)
(* MkFs every failed assertion exits: the collectors that assert run after *)
(* Debug has its default, TRUE.                                            *)
(***************************************************************************)
EXTENDS Integers, Sequences, FiniteSets

CONSTANT Inputs    \* what the process finds when it starts

Kinds == {"word", "option"}

ASSUME InputsAssumption ==
    \A x \in Inputs :
        \* the MAC file: absent, without macnm, with macnm but no "=" behind
        \* it, or with both
        /\ x.mac \in {"none", "other", "bare", "line"} /\ x.macnm \in STRING
        /\ x.env \subseteq STRING  \* the variables that are set
        \* the command line: words, and options ("-d", or what follows "-o");
        \* ok is what typ_check() says of it as a path, or a word as a host
        /\ x.args \in Seq([kind : Kinds, text : STRING, ok : BOOLEAN])
        \* gethostname() and fields of the controller's reply; NoText is NULL
        /\ {x.hostname, x.cname, x.machine, x.user, x.duser} \subseteq STRING
        /\ x.parts \in BOOLEAN     \* the partition reply has an array and records
        /\ x.refused \subseteq Seq(STRING)  \* the texts typ_check() refuses

VARIABLES
    in,
    row,         \* how many rows ingest_config() has come to
    cp,          \* slurmfs_config[]
    stack,       \* the running calls of collect_cp(), the innermost last
    ret,         \* what the last call returned to the one below, or Pending
    linked,      \* slurm_fopts[].p_cp
    term_count,
    slcnf,       \* p_slcnf has been loaded
    loaded,      \* the rows that hold a reply of the resource manager
    status       \* "running", "complete", "crashed" or an exit code

vars == <<in, row, cp, stack, ret, linked, term_count, slcnf, loaded, status>>
slurm == <<slcnf, loaded>>
fuse == <<linked, term_count>>

Pending == -1
NoName == "(null)"
NoText == "NULL"
None == <<>>

-----------------------------------------------------------------------------
(* Sources.  allowed and debug are sets of them; actual is a bit.          *)

PSRC_NONE == 0
MAC == 1
SLURM == 2
ENV == 3
MNT == 4
NONOPT == 5
FUSE == 6
DEFAULT == 8
DERIVED == 9
LeastTrusted == DERIVED

\* A slip: the source itself is stored, not its bit.
Number(src) == src

BIT(src) == 2 ^ src

\* ANY() shifts by a whole mask instead of testing it; the processor takes the
\* distance modulo 32.
ANY(tst) == tst % 32 \in {MAC, SLURM, ENV, MNT, NONOPT, 7, DEFAULT, DERIVED}

-----------------------------------------------------------------------------
(* slurmfs_config[], in its order, and slurm_fopts[]                       *)

Param(nm, typ, allowed, debug, dep, dflt) ==
    [nm |-> nm, typ |-> typ, allowed |-> allowed, debug |-> debug, dep |-> dep,
     dflt |-> dflt]
OfSlurm(nm, typ) == Param(nm, typ, {SLURM}, {SLURM}, "slurm_api_version", NoText)

slurmfs_config ==
    <<Param("BackingStore", "FSVIS", {MAC, DEFAULT}, {MAC, MNT, DEFAULT}, NoName, "/dev/shm/slurmfs"),
      OfSlurm("ClusterName", "CLUSTER"),
      Param("context", "CONTEXT", {MAC, DEFAULT}, {MAC, MNT, DEFAULT}, NoName, "ctx"),
      Param("ControlMachine", "CNTRLMACH", {SLURM}, {SLURM, MNT}, "slurm_api_version", NoText),
      Param("Debug", "TRUTH", {MAC, DEFAULT}, {MAC, MNT, DEFAULT}, NoName, "TRUE"),
      Param("DefContext", "CONTEXT", {MAC, DEFAULT}, {MAC, MNT, DEFAULT}, NoName, "ctx"),
      Param("EnforceMAC", "TRUTH", {MAC, DEFAULT}, {MAC, DEFAULT}, NoName, "FALSE"),
      Param("fsid", "ALPHA", {DEFAULT}, {DEFAULT}, NoName, "slu_rmfs"),
      Param("Hostname", "HOST", {DERIVED}, {DERIVED}, NoName, "localhost"),
      Param("isController", "TRUTH", {DERIVED}, {DERIVED, DEFAULT}, "ControlMachine", "FALSE"),
      OfSlurm("jobs", "JOB"),
      Param("MountPoint", "FSVIS", {NONOPT, DEFAULT}, {NONOPT, DEFAULT}, "SLURM_DIR", "fs"),
      Param("mountpointfile", "FSVIS", {DERIVED, DEFAULT}, {DERIVED, DEFAULT}, "varrun", "mp"),
      OfSlurm("nodes", "NODE"),
      OfSlurm("partitions", "PARTITION"),
      Param("rnodepool", "NUMERIC", {DERIVED}, {DERIVED}, "partitions", NoText),
      Param("slurm_api_version", "VERSION", {DERIVED, SLURM}, {DERIVED, SLURM}, NoName, NoText),
      Param("SLURM_MAC_CONF", "FSVIS", {ENV, DEFAULT}, {ENV, DEFAULT}, "SLURM_DIR", "mac.conf"),
      Param("SLURM_DIR", "FSVIS", {ENV, DEFAULT}, {ENV, DEFAULT}, NoName, "/etc/slurm"),
      OfSlurm("SlurmctldTimeout", "TMOUT"),
      OfSlurm("SlurmUser", "UID"),
      OfSlurm("SlurmdUser", "UID"),
      OfSlurm("SlurmdTimeout", "TMOUT"),
      OfSlurm("jobsteps", "STEP"),
      OfSlurm("slurm_user_name", "UNAME"),
      OfSlurm("slurmd_user_name", "DUNAME"),
      Param("pidfile", "FSVIS", {MAC, DEFAULT}, {MAC, MNT, DEFAULT}, "varrun", "pid"),
      Param("pid", "NUMERIC", {DERIVED}, {DERIVED}, NoName, NoText),
      Param("unmountwait", "NUMERIC", {DERIVED, DEFAULT}, {DERIVED, DEFAULT}, "SlurmdTimeout", "61"),
      Param("varrun", "FSVIS", {DERIVED, DEFAULT}, {DERIVED, DEFAULT}, "pid", "/var/run/slurmfs"),
      Param("version", "NUMERIC", {DEFAULT}, {DEFAULT}, NoName, "20141224816")>>

Rows == DOMAIN slurmfs_config
Names == {slurmfs_config[i].nm : i \in Rows}
Desc == [p \in Names |-> slurmfs_config[CHOOSE i \in Rows : slurmfs_config[i].nm = p]]

\* The options; the first takes the words that are no option.
Mandatory == {"MountPoint", "BackingStore"}
ValidIfDebug == {"ClusterName", "Hostname", "SLURM_MAC_CONF"}
slurm_fopts == Mandatory \cup ValidIfDebug
               \cup {"Context", "DefContext", "EnforceMAC", "unmountwait", "Debug"}

-----------------------------------------------------------------------------
(* Finding a row *)

\* A slip: nothing is found once the hash of a name has been overwritten.
ByHashOnly(nm) == NoName

ByName(nm) == IF nm \in Names THEN nm ELSE NoName

\* getconfig_fromnm(): the first row with the hash of nm, else the row so named.
Lookup(nm) ==
    LET hits == {i \in Rows : cp[slurmfs_config[i].nm].h = <<nm>>}
    IN IF hits = {} THEN ByName(nm)
       ELSE slurmfs_config[CHOOSE i \in hits : \A j \in hits : i <= j].nm

\* init_hash_cp()
Hashed(c, p) == IF c[p].h = None THEN [c EXCEPT ![p].h = <<p>>] ELSE c

\* The table after a lookup, which hashes the row it finds by name.
LookedUp(nm) == IF Lookup(nm) = nm THEN Hashed(cp, nm) ELSE cp

DebugOn == cp[Lookup("Debug")].val = <<"TRUE">>

\* A slip: the row a parameter depends on is found and not remembered.
LinkForgotten(p) == Hashed(cp, p)

\* What collect_cp() does on entry: init_hash_cp() and init_dependency_cp().
Linked(p) ==
    LET c == Hashed(cp, p)
        d == Desc[p].dep
    IN IF d = NoName \/ c[p].dep # NoName THEN c
       ELSE Hashed([c EXCEPT ![p].dep = d], d)

-----------------------------------------------------------------------------
(* collect_cp() *)

Frame(p) == [at |-> p, pc |-> "deps", di |-> Desc[p].dep, s |-> MAC, src |-> PSRC_NONE,
             debug |-> FALSE, argi |-> 1]
Top == stack[Len(stack)]
At == Top.at
Below == SubSeq(stack, 1, Len(stack) - 1)
SetTop(frame) == stack' = Append(Below, frame)
Running(pc) == status = "running" /\ stack # <<>> /\ Top.pc = pc

\* Another exit code, or a crash, ends the process where it is.
End(code) == status' = code
             /\ UNCHANGED <<in, row, cp, stack, ret, fuse, slurm>>

Enter(p) == cp' = Linked(p) /\ stack' = Append(stack, Frame(p))

\* ingest_config() comes to the next row.
NextParam ==
    /\ status = "running" /\ stack = <<>> /\ row < Len(slurmfs_config)
    /\ row' = row + 1
    /\ Enter(slurmfs_config[row'].nm)
    /\ UNCHANGED <<in, ret, fuse, slurm, status>>

CollectDependency ==
    /\ Running("deps") /\ Top.di # NoName /\ ret = Pending
    /\ Enter(Top.di)
    /\ UNCHANGED <<in, row, ret, fuse, slurm, status>>

\* A slip: the walk along the chain stays where it is.
SameDep(d) == d

NextDep(d) == cp[d].dep

\* A slip: a dependency without a source is not noticed.
NeverMissing(src) == FALSE

NOBITS(src) == src = PSRC_NONE

DependencyReturns ==
    /\ Running("deps") /\ ret # Pending
    /\ IF NOBITS(ret) THEN End("INTERNAL")
       ELSE /\ SetTop([Top EXCEPT !.di = NextDep(Top.di)])
            /\ ret' = Pending
            /\ UNCHANGED <<in, row, cp, fuse, slurm, status>>

\* The mode is read once, after the dependencies.
ReadDebug ==
    /\ Running("deps") /\ Top.di = NoName
    /\ cp' = LookedUp("Debug")
    /\ SetTop([Top EXCEPT !.pc = "sources", !.debug = DebugOn, !.src = cp[At].actual])
    /\ UNCHANGED <<in, row, ret, fuse, slurm, status>>

\* A slip: the sources that are kept for Debug are always open.
PermittedAnyway(p, s, debug) == s \in Desc[p].allowed \cup Desc[p].debug

Permitted(p, s, debug) ==
    s \in Desc[p].allowed \/ (debug /\ s \in Desc[p].debug)

Searching == Running("sources") /\ Top.src = PSRC_NONE /\ Top.s <= LeastTrusted
Trying(s) == Searching /\ Top.s = s /\ Permitted(At, s, Top.debug)

\* A collector returns src and leaves the table c.
Answer(src, c) ==
    /\ SetTop([Top EXCEPT !.pc = "sources", !.s = @ + 1, !.src = src])
    /\ cp' = IF src = PSRC_NONE THEN c ELSE [c EXCEPT ![At].actual = BIT(src)]
    /\ UNCHANGED <<in, row, ret, status>>

\* The turns of the loop up to the next source that is permitted.
SkipSources ==
    /\ Searching /\ ~Permitted(At, Top.s, Top.debug)
    /\ \E s \in (Top.s + 1) .. (LeastTrusted + 1) :
          /\ s = LeastTrusted + 1 \/ Permitted(At, s, Top.debug)
          /\ \A t \in Top.s .. (s - 1) : ~Permitted(At, t, Top.debug)
          /\ SetTop([Top EXCEPT !.s = s])
    /\ UNCHANGED <<in, row, cp, ret, fuse, slurm, status>>

Refused(text) == text \in in.refused

\* set_val_charptr(): the value, and its hash in the place of the name's.
CharPtr(text) == [cp EXCEPT ![At].val = text, ![At].h = text]

SetCharPtr(src, text) ==
    IF Refused(text) THEN End("CONFIG")
    ELSE Answer(src, CharPtr(text)) /\ UNCHANGED <<fuse, slurm>>

SetVal(src, text) ==
    Answer(src, [cp EXCEPT ![At].val = text]) /\ UNCHANGED <<fuse, slurm>>

\* collect_cp() returns.  Debug may not depend on another parameter; the rows
\* are told apart by hash.
Return ==
    /\ Running("sources") /\ ~Searching
    /\ IF /\ cp[Lookup("Debug")].h = cp[At].h
          /\ DebugOn /\ Desc[At].dep # NoName
       THEN End("INTERNAL")
       ELSE /\ cp' = LookedUp("Debug")
            /\ stack' = Below
            /\ ret' = IF Below = <<>> THEN Pending ELSE cp[At].actual
            /\ UNCHANGED <<in, row, fuse, slurm, status>>

-----------------------------------------------------------------------------
(* The collectors *)

\* collect_macconf() opens a file called like the row it finds, and strtok()
\* writes to the read-only mapping of it.
MacHas(p) == /\ Lookup("SLURM_MAC_CONF") = "SLURM_MAC_CONF"
             /\ in.mac \in {"bare", "line"} /\ in.macnm = p

CollectMacConf ==
    /\ Trying(MAC)
    /\ IF ~MacHas(At) THEN Answer(PSRC_NONE, LookedUp("SLURM_MAC_CONF"))
                           /\ UNCHANGED <<fuse, slurm>>
       ELSE End(IF in.mac = "line" THEN "crashed" ELSE "INTERNAL")

\* collect_env(): set_val_ptr() hands the string itself to typ_check(), which
\* takes its bytes for an address and refuses it; no value is set.
CollectEnv ==
    /\ Trying(ENV)
    /\ Answer(IF At \in in.env THEN ENV ELSE PSRC_NONE, cp)
    /\ UNCHANGED <<fuse, slurm>>

\* construct_fuse_mountopts().  It writes its two entries of the fuse_opt table
\* over those of the last call, behind an entry that ends the table, so that
\* fuse_opt_parse() matches no option.
FoptsOf(p) == {f \in slurm_fopts : cp[p].h = <<f>>}
LinkFopts == linked' = [f \in slurm_fopts |-> IF f \in FoptsOf(At) THEN At ELSE linked[f]]

ConstructMountOpts ==
    /\ Trying(MNT)
    /\ LinkFopts
    /\ Answer(IF FoptsOf(At) = {} THEN PSRC_NONE ELSE MNT, cp)
    /\ UNCHANGED <<term_count, slurm>>

\* collect_fuse_mountopts() gives the command line to fuse_opt_parse().
CollectMountOpts ==
    /\ Trying(NONOPT)
    /\ IF term_count > 1 \/ "MountPoint" \notin FoptsOf(At) THEN End("INTERNAL")
       ELSE /\ LinkFopts
            /\ term_count' = term_count + 1
            /\ SetTop([Top EXCEPT !.pc = "parse"])
            /\ UNCHANGED <<in, row, cp, ret, slurm, status>>

\* A slip: the callback looks at the first argument only.
FirstArg == in.args[1]

Arg == in.args[Top.argi]
Parsing(kind) == Running("parse") /\ Top.argi <= Len(in.args) /\ Arg.kind = kind
Parsed(c) ==
    /\ cp' = c
    /\ SetTop([Top EXCEPT !.argi = @ + 1])
    /\ UNCHANGED <<in, row, ret, fuse, slurm, status>>

\* parse_an_arg() stores every word in the mount point.
ParseWord ==
    /\ Parsing("word")
    /\ LET p == Lookup("MountPoint")
       IN Parsed(IF Arg.ok \/ Desc[p].typ = "HOST"
                 THEN [cp EXCEPT ![p].val = <<Arg.text>>, ![p].actual = BIT(FUSE)]
                 ELSE cp)

\* An option that finds no row is discarded.
ParseOption == Parsing("option") /\ Lookup(Arg.text) = NoName /\ Parsed(cp)

\* set_val_ptr() stores where the argument is, and not what it says.
Address(text) == <<"&", text>>
IsAddress(val) == \E i \in DOMAIN in.args : val = Address(in.args[i].text)

\* What typ_check() makes of the bytes of a text that it takes for an
\* rmfs_param_t.  Any are a number; these types read at the address they spell,
\* where nothing is mapped; and these up to a length that lies behind the text.
NumberTypes == {"NUMERIC", "VERSION", "TMOUT", "UID", "JOB", "STEP"}
PointerTypes == {"HOST", "CLUSTER", "CNTRLMACH", "CONTEXT", "UNAME", "DUNAME", "NODE"}
SizedTypes == {"ALPHA", "PARTITION"}

\* A slip: the argument is stored before its type is checked.
StoresUnchecked(p) == TRUE

\* The rows that set_val_ptr() may store in.  The length of a stored value is
\* unknown, and a type that asks for it refuses the next one.
Stores(p) == \/ Desc[p].typ \in NumberTypes
             \/ Desc[p].typ \in SizedTypes /\ ~IsAddress(cp[p].val)

\* The source is stored through a pointer that was never set: elsewhere, where
\* an earlier word has left it, or with a crash.
SourceLost(c) ==
    \/ Parsed(c)
    \/ /\ \E i \in 1 .. (Top.argi - 1) : in.args[i].kind = "word"
       /\ Parsed([c EXCEPT ![Lookup("MountPoint")].actual = BIT(FUSE)])
    \/ End("crashed")

\* An option that finds a row, by its name or by the hash of its value.  A path
\* is read as an address and refused (EFAULT).
ParseParam ==
    /\ Parsing("option") /\ Lookup(Arg.text) # NoName
    /\ LET p == Lookup(Arg.text)
           c == LookedUp(Arg.text)
           typ == Desc[p].typ
       IN \/ (typ = "TRUTH" \/ (typ = "FSVIS" /\ ~Arg.ok)) /\ Parsed(c)
          \/ typ = "FSVIS" /\ Arg.ok /\ SourceLost(c)
          \/ Stores(p) /\ SourceLost([c EXCEPT ![p].val = Address(Arg.text)])
          \/ typ \in SizedTypes /\ End("CONFIG")
          \/ typ \in PointerTypes /\ End("crashed")

ParseEnds ==
    /\ Running("parse") /\ Top.argi > Len(in.args)
    /\ Answer(NONOPT, cp)
    /\ UNCHANGED <<fuse, slurm>>

HasDefault(p) == DEFAULT \in Desc[p].allowed

\* A path is made of the value of a dependency that is a path itself.
DefaultPath(p) ==
    LET d == Desc[p].dep
    IN IF d = NoName \/ Desc[d].typ # "FSVIS" THEN <<Desc[p].dflt>>
       ELSE (IF cp[d].val = None THEN <<NoName>> ELSE cp[d].val) \o <<Desc[p].dflt>>

CollectDefault ==
    /\ Trying(DEFAULT)
    /\ IF ~HasDefault(At) \/ Desc[At].typ = "CONTEXT"
       THEN Answer(PSRC_NONE, cp) /\ UNCHANGED <<fuse, slurm>>
       ELSE IF Desc[At].typ \in {"FSVIS", "ALPHA"} THEN SetCharPtr(DEFAULT, DefaultPath(At))
       ELSE SetVal(DEFAULT, <<Desc[At].dflt>>)

-----------------------------------------------------------------------------
(* The collectors that a row names.  calcul_unmountwait(),                 *)
(* record_mountpoint(), collectos_pidfile() and collectmac_context() are   *)
(* named by rows whose source is never SLURM or DERIVED.                   *)

Custom(src, p) == Trying(src) /\ At = p

CollectHostname == Custom(DERIVED, "Hostname") /\ SetCharPtr(DERIVED, <<in.hostname>>)

CollectPid == Custom(DERIVED, "pid") /\ SetVal(DERIVED, <<"pid">>)

\* It compares the hashes of two rows' names.
CalculIsController ==
    /\ Custom(DERIVED, "isController")
    /\ IF cp[At].h = cp[Lookup("ControlMachine")].h THEN SetVal(DERIVED, <<"TRUE">>)
       ELSE Answer(PSRC_NONE, cp) /\ UNCHANGED <<fuse, slurm>>

CollectVersion == Custom(SLURM, "slurm_api_version") /\ SetVal(SLURM, <<"version">>)

\* collectslurm_confparam() loads the controller's configuration unless that
\* has been done; then set_val_slurm() reads the field of the row's type.  For
\* the control machine it tests one field and takes another, whose type check
\* ends the process when it is NULL.
ConfigField ==
    [CLUSTER |-> in.cname, CNTRLMACH |-> in.cname, TMOUT |-> "slurmd_timeout",
     UID |-> "slurm_user_id", UNAME |-> in.user, DUNAME |-> in.duser]

Conf == Trying(SLURM) /\ Desc[At].typ \in DOMAIN ConfigField

ConfUnavailable ==
    /\ Conf /\ ~slcnf
    /\ Answer(PSRC_NONE, cp)
    /\ UNCHANGED <<fuse, slurm>>

CollectConfParam ==
    /\ Conf
    /\ LET typ == Desc[At].typ
           text == ConfigField[typ]
           tested == IF typ = "CNTRLMACH" THEN in.machine ELSE text
       IN IF typ \in {"CLUSTER", "CNTRLMACH"} /\ tested = NoText THEN End("SLURM")
          ELSE IF typ = "CNTRLMACH" /\ text = NoText THEN End("INTERNAL")
          ELSE IF text # NoText /\ Refused(<<text>>) THEN End("CONFIG")
          ELSE /\ slcnf' = TRUE
               /\ Answer(SLURM, IF text = NoText THEN [cp EXCEPT ![At].val = None]
                                ELSE IF typ \in {"UNAME", "DUNAME"} THEN CharPtr(<<text>>)
                                ELSE [cp EXCEPT ![At].val = <<text>>])
               /\ UNCHANGED <<fuse, loaded>>

\* collectslurm_jobs(), _nodes(), _partitions() and _jobsteps() load a reply
\* into the row.  Without one, only the jobs are given up.
Message == Trying(SLURM) /\ Desc[At].typ \in {"JOB", "NODE", "PARTITION", "STEP"}

CollectMessage ==
    /\ Message
    /\ loaded' = loaded \cup {At}
    /\ Answer(SLURM, cp)
    /\ UNCHANGED <<fuse, slcnf>>

MessageUnavailable ==
    /\ Message /\ At \notin loaded
    /\ IF At = "jobs" THEN Answer(PSRC_NONE, cp) /\ UNCHANGED <<fuse, slurm>>
       ELSE End("ASSERT")

\* calcul_rnodepool() needs the partitions, and loads them into the row it
\* finds if that was not collected from the resource manager.
NeedsLoad(p) == cp[p].actual # BIT(SLURM) /\ p \notin loaded

CalculRnodePool ==
    /\ Custom(DERIVED, "rnodepool")
    /\ LET p == Lookup("partitions")
       IN IF in.parts
          THEN /\ loaded' = loaded \cup {p}
               /\ Answer(DERIVED, [cp EXCEPT ![At].val = <<"nodes">>])
               /\ UNCHANGED <<fuse, slcnf>>
          ELSE End("ASSERT")

RnodePoolUnavailable ==
    /\ Custom(DERIVED, "rnodepool") /\ NeedsLoad(Lookup("partitions"))
    /\ End("ASSERT")

-----------------------------------------------------------------------------
(* config_consistent_complete(), after the last row.  No option is         *)
(* OPT_EXCLUSIVE.                                                          *)

Consistent ==
    /\ \A f \in slurm_fopts : linked[f] # NoName =>
          /\ f \in Mandatory => cp[linked[f]].actual # PSRC_NONE
          /\ f \in ValidIfDebug => DebugOn \/ Desc[linked[f]].debug = {}
    /\ \A p \in Names : ANY(cp[p].actual) /\ Desc[p].dep # NoName => cp[p].dep # NoName

Finish ==
    /\ status = "running" /\ stack = <<>> /\ row = Len(slurmfs_config)
    /\ End(IF Consistent THEN "complete" ELSE "INCOMPLETE")

-----------------------------------------------------------------------------

Init ==
    /\ in \in Inputs
    /\ row = 0 /\ stack = <<>> /\ ret = Pending
    /\ cp = [p \in Names |-> [actual |-> PSRC_NONE, val |-> None, h |-> None, dep |-> NoName]]
    /\ linked = [f \in slurm_fopts |-> NoName] /\ term_count = 0
    /\ slcnf = FALSE /\ loaded = {}
    /\ status = "running"

\* The process has ended, or has gone on to mk_fs().
Ended == status # "running" /\ UNCHANGED vars

CollectCp ==
    \/ NextParam \/ CollectDependency \/ DependencyReturns \/ ReadDebug \/ SkipSources
    \/ Return \/ Finish

Parse == ParseWord \/ ParseOption \/ ParseParam \/ ParseEnds

Collect ==
    \/ CollectMacConf \/ CollectEnv \/ ConstructMountOpts \/ CollectMountOpts
    \/ CollectDefault \/ CollectHostname \/ CollectPid \/ CalculIsController
    \/ CollectVersion \/ ConfUnavailable \/ CollectConfParam \/ CollectMessage
    \/ MessageUnavailable \/ CalculRnodePool \/ RnodePoolUnavailable

Next == CollectCp \/ Parse \/ Collect \/ Ended

Spec == Init /\ [][Next]_vars

\* Ingestion is one thread of straight calls: it does not stop by itself.
FairSpec == Spec /\ WF_vars(CollectCp \/ Parse \/ Collect)

-----------------------------------------------------------------------------
(* Properties *)

ExitCodes == {"INTERNAL", "CONFIG", "SLURM", "ASSERT", "INCOMPLETE"}
Bits == {2, 4, 8, 16, 32, 64, 256, 512}

\* The texts of the table, of the process and of the machine.
Texts == Names \cup {slurmfs_config[i].dflt : i \in Rows}
         \cup {in.hostname, in.cname, in.user, in.duser}
         \cup {in.args[i].text : i \in DOMAIN in.args}
         \cup {NoName, "&", "TRUE", "pid", "version", "nodes", "slurmd_timeout", "slurm_user_id"}

\* Types: a recorded source is one bit of the mask (collect_cp.c:81), a value
\* or a hash is of nothing but the texts that rows and collectors give, the
\* recursion is no deeper than the longest chain of dependencies (:33), and
\* the command line is parsed at most once (collect_fuse.c:288).
TypeOK ==
    /\ in \in Inputs /\ row \in 0 .. Len(slurmfs_config)
    /\ \A p \in Names : /\ cp[p].actual \in Bits \cup {0}
                        /\ {cp[p].val, cp[p].h} \subseteq Seq(Texts)
                        /\ cp[p].dep \in {NoName, Desc[p].dep}
    /\ Len(stack) <= 3 /\ (stack # <<>> => At \in Names /\ Top.pc \in {"deps", "sources", "parse"})
    /\ ret \in Bits \cup {Pending, 0}
    /\ linked \in [slurm_fopts -> Names \cup {NoName}] /\ term_count \in 0 .. 1
    /\ slcnf \in BOOLEAN /\ loaded \subseteq Names
    /\ status \in {"running", "complete", "crashed"} \cup ExitCodes

\* The option on the command line that a row may have a value from: its text
\* finds the row, and the row's type takes its bytes for a number or a length.
NamedBy(p, a) == a.kind = "option" /\ Lookup(a.text) = p /\ Desc[p].typ \in NumberTypes \cup SizedTypes

\* ingest.c:3: what has been found is not overwritten from a lower priority
\* source, with what collect_fuse.c:97 leaves of it.  Rows are collected again
\* for every parameter that depends on them, and parse_an_arg() writes to rows
\* that were collected and to the one being collected: no row that has a source
\* gets a lesser one, and none gets another value but with the source that says
\* so (a word) or the place of an option that names the row, never that of one
\* which names another row or a path, a host, a user or a truth.
SourceKept ==
    [][\A p \in Names : cp[p].actual # PSRC_NONE =>
          /\ cp'[p].actual \in 1 .. cp[p].actual
          /\ cp'[p].val # cp[p].val =>
                \/ cp'[p].actual = BIT(FUSE)
                \/ \E i \in DOMAIN in.args :
                      NamedBy(p, in.args[i]) /\ cp'[p].val = Address(in.args[i].text)]_cp

\* collect_cp.c:33: a parameter has a source only when every parameter it
\* depends on has one, whichever of them ingest_config() came to first.
DependenciesFirst ==
    \A p \in Names : cp[p].actual # PSRC_NONE /\ Desc[p].dep # NoName =>
        cp[Desc[p].dep].actual # PSRC_NONE

\* What a source has for a parameter, were it asked.
Offers(s, p) ==
    CASE s = ENV -> p \in in.env
      [] s = MNT -> p \in slurm_fopts
      [] s = DEFAULT -> HasDefault(p) /\ Desc[p].typ # "CONTEXT"
      [] s = DERIVED -> p # "isController"
      [] s = MAC -> FALSE
      [] OTHER -> TRUE

\* The rows that ingest_config() comes to before it comes to Debug, whose
\* value they would need, and what they depend on.
Early == {"BackingStore", "ClusterName", "context", "ControlMachine", "Debug",
          "slurm_api_version"}

\* collect_cp.c:65-85: a parameter comes from the most trusted of the sources
\* that have it and may give it, and Debug opens further sources only to the
\* rows behind its own.
MostTrusted ==
    \A p \in Names : \A s \in MAC .. LeastTrusted :
        cp[p].actual = BIT(s) /\ s # FUSE =>
            /\ Offers(s, p)
            /\ s \in Desc[p].allowed \/ (s \in Desc[p].debug /\ p \notin Early)
            /\ \A t \in MAC .. (s - 1) :
                  Offers(t, p) => ~Permitted(p, t, p \notin Early)

FindsRow(a) == a.kind = "option" /\ Lookup(a.text) # NoName

\* The parameters a configuration may lack.
MayLack == {"ClusterName", "context", "isController", "jobs"}

\* ingest.c:181-199: what ingestion comes to.  It ends with a configuration
\* that lacks two parameters and perhaps two more; the check at the end finds
\* nothing that collect_cp() has let through.  It crashes for a line of the MAC
\* file or an option that finds a row, stops with INTERNAL for such a file, for
\* a user called Debug, for a dependency without a source, or for a cluster
\* without a name whose control machine has one, and with CONFIG for a text
\* that its type refuses or an option.
Outcome ==
    /\ status = "complete" =>
          /\ \A p \in Names : cp[p].actual = PSRC_NONE => p \in MayLack
          /\ {cp[p].actual : p \in {"context", "isController"}} = {PSRC_NONE}
          /\ slcnf /\ in.cname # NoText /\ in.parts /\ "Debug" \notin {in.user, in.duser}
          /\ \A p \in Names : cp[p].h # <<p>> => ~Refused(cp[p].h)
    /\ status = "crashed" => in.mac = "line" \/ \E i \in DOMAIN in.args : FindsRow(in.args[i])
    /\ status = "INTERNAL" =>
          \/ in.mac = "bare" \/ "Debug" \in {in.user, in.duser}
          \/ At = "ControlMachine" /\ in.cname = NoText /\ in.machine # NoText
          \/ Top.pc = "deps" /\ Top.di # NoName /\ cp[Top.di].actual = PSRC_NONE
    /\ status = "CONFIG" => in.refused # {} \/ \E i \in DOMAIN in.args : FindsRow(in.args[i])
    /\ status # "INCOMPLETE"

\* cp_get.c:5: a lookup by name finds the row of that name, though the hashes
\* of many rows have become those of values, unless a value is such a name.
NameResolves ==
    \A nm \in Names \ {in.hostname, in.user, in.duser} : Lookup(nm) = nm

\* collect_fuse.c:43: the mount point is the last word of the command line that
\* is no option and that typ_check() accepts.
MountPointArg ==
    status = "complete" /\ in.hostname # "MountPoint" =>
        LET words == {i \in DOMAIN in.args : in.args[i].kind = "word" /\ in.args[i].ok}
        IN cp["MountPoint"].val =
              IF words = {} THEN None
              ELSE <<in.args[CHOOSE i \in words : \A j \in words : j <= i].text>>

\* collect_cp.c:29: the walk along the dependencies and the search through the
\* sources end, and so does ingestion.
Ends == <>(status # "running")
=============================================================================
