----------------------------- MODULE MCRnodePool -----------------------------
(***************************************************************************)
(* A pool of a few slots: RNODEPOOL_DEFAULT_MINSIZE scaled down to 7, so   *)
(* that five nodes are available above RN_BASEALLOC and the pool can be    *)
(* exhausted by two or three provisions, as a large cluster exhausts 256.  *)
(***************************************************************************)
EXTENDS RnodePool

MCBaseAlloc == 2
MCDefaultMinSize == 7
\* unset, below, at and above the default
MCPoolSizes == {0, 6, 7, 8}
=============================================================================
