--------------------------- MODULE IngestPromises ---------------------------
(***************************************************************************)
(* What comments in the source say of the configuration that               *)
(* ingest_config() leaves and what the code does not do.  Each is a        *)
(* formula that some behaviour of Ingest violates.                         *)
(***************************************************************************)
EXTENDS Ingest

\* inc/rmfs/conf.h:26: "The run-time environment overides config file
\* parameters".  A variable that is set leaves its parameter without a value.
EnvOverrides ==
    status = "complete" => \A p \in in.env \cap Names :
        ENV \in Desc[p].allowed => cp[p].val # None

\* inc/rmfs/conf.h:25: "Mount options (processed by fuse) overide env or config
\* file".  Option -d is for DefContext, and is discarded.
OptionsHonoured ==
    status = "complete" /\ (\E i \in DOMAIN in.args : in.args[i].text = "-d") =>
        cp["DefContext"].val # None

\* inc/rmfs/conf.h:27: "The MAC Configuration file overides the default slurm
\* config."  A file with a line for a parameter ends the process.
MacConfUsable ==
    (\A i \in DOMAIN in.args : in.args[i].kind # "option") => status # "crashed"

\* slu_rmfs/ingest.c:3: "once a parameter has been found from a high priority
\* source / it may not be overwritten from a lower priority source".  An option
\* that names the parameter overwrites what the resource manager has said.
ValueKept ==
    [][\A p \in Names : cp[p].actual = BIT(SLURM) => cp'[p].val = cp[p].val]_cp
=============================================================================
