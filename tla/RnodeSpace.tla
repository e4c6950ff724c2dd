----------------------------- MODULE RnodeSpace -----------------------------
(***************************************************************************)
(* What the rnode allocator promises the builders, without its counters,   *)
(* maps and locks: inode numbers are granted in contiguous runs of fresh   *)
(* numbers, none below FirstIno and none past the end of the pool, and a   *)
(* number once granted is never taken back or granted again.               *)
(***************************************************************************)
EXTENDS Integers

CONSTANT FirstIno    \* the lowest number a builder may receive, a natural

VARIABLES
    size,     \* 0 while the space is closed, then one past the last number
    granted,  \* the numbers that have been granted
    stopped   \* the process has exited

spaceVars == <<size, granted, stopped>>

Run(first, n) == first .. (first + n - 1)

SpaceInit == size = 0 /\ granted = {} /\ stopped = FALSE

\* The pool gets its size, once.
Open ==
    /\ ~stopped /\ size = 0
    /\ size' \in Nat /\ size' > FirstIno
    /\ UNCHANGED <<granted, stopped>>

\* A builder receives n >= 1 consecutive numbers nobody has.
Grant ==
    /\ ~stopped
    /\ \E n \in 1 .. size : \E first \in FirstIno .. (size - n) :
          /\ Run(first, n) \cap granted = {}
          /\ granted' = granted \cup Run(first, n)
    /\ UNCHANGED <<size, stopped>>

Stop == stopped' = TRUE /\ UNCHANGED <<size, granted>>

SpaceNext == Open \/ Grant \/ Stop

SpaceSpec == SpaceInit /\ [][SpaceNext]_spaceVars
=============================================================================
