---------------------------- MODULE ServePromises ----------------------------
(***************************************************************************)
(* What comments in the source say of the mounted file system and what the *)
(* code does not do.                                                       *)
(***************************************************************************)
EXTENDS Serve

\* lib/fuseops/namer.c:7: "namer() is modeled after namei()/lookuppn()".  What
\* a listing shows under a name is what a look-up of that name in the listed
\* directory finds.  namer() compares the last component with the directory
\* before its children, so an entry with its directory's name is never found.
ListedResolves ==
    \A c \in Clients :
        In(c, "done") /\ R(c).op = "readdir" /\ IsEntry(R(c).path) =>
            LET reply == call[c].reply
            IN \A j \in DOMAIN reply.shows.listing :
                  namer(R(c).path \o <<reply.shows.listing[j].nm>>) = reply.more.inos[j]
=============================================================================
