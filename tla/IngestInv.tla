----------------------------- MODULE IngestInv -----------------------------
(***************************************************************************)
(* The inductive invariant of ingest_config().                             *)
(*                                                                         *)
(* That a parameter has a source only behind its dependency is not         *)
(* inductive: a row is collected by a call whose dependencies were         *)
(* collected by calls that have returned, while the rows that wait for it  *)
(* stand below it on the stack.  The invariant says what the hash of a row *)
(* may have become, of which rows the running calls are, what each of them *)
(* has behind it, and what the command line has left in the mount point.   *)
(***************************************************************************)
EXTENDS Ingest

Depth == Len(stack)
\* The rows that others depend on.
DepNames == {"slurm_api_version", "SLURM_DIR", "varrun", "ControlMachine", "partitions",
             "SlurmdTimeout", "pid"}
Dep(p) == Desc[p].dep

\* How many dependencies a row has behind it.
Chain(p) == IF Dep(p) = NoName THEN 0 ELSE IF Dep(Dep(p)) = NoName THEN 1 ELSE 2

Frames == [at : Names, pc : {"deps", "sources", "parse"}, di : Names \cup {NoName}, s : MAC .. 10,
           src : Bits \cup (PSRC_NONE .. LeastTrusted), debug : BOOLEAN, argi : Nat \ {0}]

\* The rows whose hash set_val_charptr() may overwrite with a value.
UserRows == {"slurm_user_name", "slurmd_user_name"}
PathRows == {p \in Names : Desc[p].typ \in {"FSVIS", "ALPHA"}} \ {"MountPoint"}

\* The text that a row takes from the machine or the controller.
NamedAfter(p, text) ==
    \/ p = "Hostname" /\ text = in.hostname
    \/ p = "slurm_user_name" /\ text = in.user
    \/ p = "slurmd_user_name" /\ text = in.duser

\* The hash of a row is that of its name, or of an accepted value that is no
\* row's name, unless the machine or a user is called like one.
HashOK(p) ==
    LET h == cp[p].h
    IN \/ h \in {None, <<p>>}
       \/ /\ p \in PathRows \cup UserRows \cup {"Hostname"} /\ ~Refused(h)
          /\ \A nm \in Names : h = <<nm>> => NamedAfter(p, nm)

IsTable(c) ==
    DOMAIN c = Names /\ \A p \in Names : DOMAIN c[p] = {"actual", "val", "h", "dep"}

RowOK(p) ==
    /\ cp[p].actual \in Bits \cup {PSRC_NONE}
    /\ cp[p].val \in Seq(Texts) /\ cp[p].h \in Seq(Texts)
    /\ cp[p].dep \in {NoName, Dep(p)}
    /\ HashOK(p)
    /\ cp[p].actual # PSRC_NONE /\ Dep(p) # NoName => cp[Dep(p)].actual # PSRC_NONE

TableInv ==
    /\ IsTable(cp)
    /\ \A p \in Names : RowOK(p)
    /\ cp["Hostname"].actual \in {PSRC_NONE, BIT(FUSE), BIT(DERIVED)}
    \* the rows of the users come after the command line has been read
    /\ row < 25 => \A p \in UserRows : cp[p].h \in {None, <<p>>}

\* A call waits for the row above it on the stack, which its row depends on;
\* only the innermost one has its dependencies behind it.
FrameOK(k) ==
    LET f == stack[k] d == Dep(f.at)
    IN /\ k + Chain(f.at) <= 3 /\ cp[f.at].h # None
       /\ k = 1 => f.at = slurmfs_config[row].nm
       /\ k > 1 => f.at = stack[k - 1].di
       /\ k < Depth => f.pc = "deps"
       /\ f.pc = "deps" /\ f.di # d => d # NoName /\ cp[d].actual # PSRC_NONE
       /\ f.pc = "deps" /\ f.di # NoName => Chain(f.di) < Chain(f.at) /\ f.di \in DepNames
       /\ f.pc # "deps" => d = NoName \/ cp[d].actual # PSRC_NONE
       /\ f.pc = "sources" => (f.src = PSRC_NONE <=> cp[f.at].actual = PSRC_NONE)
       /\ f.pc = "parse" => f.at = "MountPoint" /\ f.s = NONOPT /\ f.argi <= Len(in.args) + 1

StackInv ==
    /\ stack \in Seq(Frames) /\ row \in 0 .. Len(slurmfs_config)
    /\ row = 0 => stack = <<>>
    /\ \A k \in 1 .. Depth : FrameOK(k)

\* What a call returns is the source of the row that the one below waits for.
RetInv ==
    /\ ret \in Bits \cup {Pending, PSRC_NONE}
    /\ ret # Pending => /\ stack # <<>> /\ Top.pc = "deps" /\ Top.di # NoName
                        /\ ret = cp[Top.di].actual

\* The last word among the first n arguments that the mount point takes.
WordsOf(args, n) == {i \in 1 .. n : args[i].kind = "word" /\ args[i].ok}
LastWord(args, n) ==
    LET words == WordsOf(args, n)
    IN IF words = {} THEN None
       ELSE <<args[CHOOSE i \in words : \A j \in words : j <= i].text>>

\* Until a host named like it is taken for it, the mount point is the last
\* word of the first n.
Holds(n) == in.hostname # "MountPoint" => cp["MountPoint"].val = LastWord(in.args, n)

\* The command line is parsed once, by the only call for the mount point.
Unparsed ==
    /\ row <= 12 /\ term_count = 0
    /\ cp["MountPoint"].val = None /\ cp["MountPoint"].actual = PSRC_NONE
    /\ row = 12 => stack # <<>> /\ stack[1].pc # "parse"
                  /\ stack[1].s <= NONOPT /\ stack[1].argi = 1
InParse ==
    /\ row = 12 /\ term_count = 1 /\ Depth = 1 /\ Top.pc = "parse"
    /\ Holds(Top.argi - 1) /\ cp["MountPoint"].actual \in {PSRC_NONE, BIT(FUSE)}
HasParsed ==
    /\ row >= 12 /\ term_count = 1 /\ Holds(Len(in.args))
    /\ cp["MountPoint"].actual = BIT(NONOPT)
    /\ \A k \in 1 .. Depth : stack[k].pc # "parse"

MountInv ==
    /\ cp["MountPoint"].h \in {None, <<"MountPoint">>}
    /\ Unparsed \/ InParse \/ HasParsed

OtherInv ==
    /\ in \in Inputs
    /\ linked \in [slurm_fopts -> Names \cup {NoName}]
    /\ slcnf \in BOOLEAN /\ loaded \subseteq Names
    /\ status \in {"running", "complete", "crashed"} \cup ExitCodes
    /\ status = "complete" => row = Len(slurmfs_config) /\ stack = <<>>

IInv == TableInv /\ StackInv /\ RetInv /\ MountInv /\ OtherInv

-----------------------------------------------------------------------------
(* In which mode a row is collected.  Debug is a row of the table itself:  *)
(* the rows that ingest_config() comes to before it (Early) are collected  *)
(* without it, but one of them may be collected again, for a row that      *)
(* depends on it.                                                          *)

\* The resource manager may leave a row of these without an answer.
MayFail(p) == p = "jobs" \/ (Desc[p].typ \in DOMAIN ConfigField /\ row <= 10)

\* The sources that a call has behind it had nothing.
Searched(f) ==
    \A t \in MAC .. (f.s - 1) :
        Permitted(f.at, t, f.debug) => ~Offers(t, f.at) \/ (t = SLURM /\ MayFail(f.at))

\* A call has read the mode behind its dependencies; up to the row of Debug
\* only early rows are called for.
ModeOf(f) ==
    /\ f.pc = "deps" => f.s = MAC
    /\ f.pc # "deps" => (f.debug <=> row > 5)
    /\ row <= 5 => f.at \in Early /\ f.di \in Early \cup {NoName}
    /\ f.pc = "sources" /\ f.src = PSRC_NONE => Searched(f)

\* The n-th row has been collected.
Passed(n) == row > n \/ (row = n /\ stack = <<>>)

\* Debug is found by its own name, and has its default from row 5 on.
DebugInv ==
    /\ row >= 5 => cp["Debug"].h # None
    /\ row < 9 => cp["Hostname"].h \in {None, <<"Hostname">>}
    /\ cp["Debug"].val = IF cp["Debug"].actual = PSRC_NONE THEN None ELSE <<"TRUE">>
    /\ Passed(5) => cp["Debug"].actual # PSRC_NONE
    /\ row < 5 \/ (row = 5 /\ stack # <<>> /\ Top.pc = "deps") => cp["Debug"].actual = PSRC_NONE

\* What the resource manager has answered when the rows behind need it.
ManagerInv ==
    /\ Passed(2) => cp["slurm_api_version"].actual # PSRC_NONE
    /\ Passed(10) => cp["ControlMachine"].actual # PSRC_NONE
    /\ cp["ControlMachine"].actual # PSRC_NONE => slcnf /\ in.cname # NoText

\* Only a setter overwrites the hash of a name.
NameHash == \A p \in Names : cp[p].actual = PSRC_NONE => cp[p].h \in {None, <<p>>}

ModeInv == /\ DebugInv /\ ManagerInv /\ NameHash /\ MostTrusted
           /\ \A k \in 1 .. Depth : ModeOf(stack[k])

-----------------------------------------------------------------------------
(* What ingestion has come to                                              *)

User(p) == IF p = "slurm_user_name" THEN in.user ELSE in.duser

\* A row that has been collected: the configuration may lack few of them.
PassedOK(i) ==
    LET p == slurmfs_config[i].nm
    IN /\ cp[p].actual = PSRC_NONE => p \in MayLack \cup {"ControlMachine"}
       /\ cp[p].h # None /\ cp[p].dep = Dep(p)
       /\ p \in UserRows => User(p) # "Debug"

\* What is known of a row by its source.
SourceTells(p) ==
    /\ cp[p].actual = BIT(FUSE) => p \in {"MountPoint", "Hostname"}
    /\ p = "rnodepool" /\ cp[p].actual # PSRC_NONE => in.parts
    /\ p \in UserRows /\ cp[p].actual # PSRC_NONE /\ User(p) # NoText => cp[p].h = <<User(p)>>

\* Every running call has linked its row to the one that it depends on.
PassedInv ==
    /\ \A i \in Rows : Passed(i) => PassedOK(i)
    /\ \A k \in 1 .. Depth : cp[stack[k].at].dep = Dep(stack[k].at)
    /\ \A p \in Names : SourceTells(p)
    /\ \A f \in slurm_fopts : linked[f] \in {NoName, f}

EndInv == PassedInv /\ Outcome
=============================================================================
