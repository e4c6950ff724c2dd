------------------------------ MODULE MCIngest ------------------------------
(***************************************************************************)
(* One way to start, and every deviation from it that a collector tells    *)
(* apart; two at a time where they meet in one row.                        *)
(***************************************************************************)
EXTENDS IngestPromises

Word(text, ok) == [kind |-> "word", text |-> text, ok |-> ok]
Option(text, ok) == [kind |-> "option", text |-> text, ok |-> ok]

Plain == [mac |-> "none", macnm |-> NoText, env |-> {}, args |-> <<Word("/mnt", TRUE)>>,
          hostname |-> "host", cname |-> "c1", machine |-> "ctl", user |-> "slurm",
          duser |-> "slurmd", parts |-> TRUE, refused |-> {}]

MacFiles == {[Plain EXCEPT !.mac = m, !.macnm = nm] :
               m \in {"other", "bare", "line"}, nm \in {"BackingStore", "Debug", "context", "pidfile"}}
Environments == {[Plain EXCEPT !.env = e, !.hostname = h] :
                   e \in SUBSET {"SLURM_DIR", "SLURM_MAC_CONF", "Debug"},
                   h \in {"host", "SLURM_MAC_CONF"}}
Words == {Word("/mnt", TRUE), Word("/mnt/other", TRUE), Word("/etc/passwd", FALSE),
          Option("-d", FALSE), Option("jobs", FALSE), Option("Debug", FALSE)}
CommandLines == {[Plain EXCEPT !.args = a, !.hostname = h] :
                   a \in {<<>>} \cup {<<v>> : v \in Words} \cup {<<v, w>> : v, w \in Words},
                   h \in {"host", "MountPoint"}}

\* An option for each kind of type, for a row that has a value and one that has
\* none yet, by name or by hash, behind a word and behind the same option.
RowOptions == {Option("slurm_api_version", FALSE), Option("rnodepool", FALSE), Option("pid", FALSE),
               Option("pidfile", TRUE), Option("/dev/shm/slurmfs", TRUE), Option("Debug", FALSE),
               Option("ControlMachine", FALSE), Option("host", FALSE),
               Option("fsid", FALSE), Option("partitions", FALSE)}
OptionLines == {[Plain EXCEPT !.args = a] :
                  a \in UNION {{<<Word("/mnt", TRUE), o>>, <<o, o>>} : o \in RowOptions}}
Machines == {[Plain EXCEPT !.hostname = h, !.cname = c, !.machine = m, !.parts = p] :
               h \in {"host", "ctl", "partitions", "ControlMachine"}, c \in {"c1", NoText},
               m \in {"ctl", NoText}, p \in BOOLEAN}
Users == {[Plain EXCEPT !.user = u, !.duser = d, !.mac = m, !.macnm = "pidfile"] :
            u \in {"slurm", NoText, "Debug", "SLURM_MAC_CONF"}, d \in {"slurmd", NoText, "Debug", "partitions"},
            m \in {"none", "line"}}
Refusals == {[Plain EXCEPT !.refused = {r}] :
               r \in {<<"/dev/shm/slurmfs">>, <<"c1">>, <<"host">>, <<"/etc/slurm">>,
                      <<"/etc/slurm", "mac.conf">>, <<"/var/run/slurmfs">>, <<"slurm">>}}

MCInputs == MacFiles \cup Environments \cup CommandLines \cup OptionLines \cup Machines
            \cup Users \cup Refusals
=============================================================================
