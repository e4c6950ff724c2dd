------------------------------ MODULE RnodePool ------------------------------
(***************************************************************************)
(* The rnode pool: rn_poolinit() and rn_alloc() of lib/rnode/rn_alloc.c,   *)
(* called by rn_provision() of lib/rnode/rn_provision.c, over the counters *)
(* of the in-memory superblock rn_paramtab (inc/rmfs/param.h).             *)
(*                                                                         *)
(* The allocator keeps the same fact four times over: the allocation map,  *)
(* a count, an index and a pointer.  rn_provision() computes the inode     *)
(* numbers of a block from a fifth place, a copy of the count it took      *)
(* before the allocation.  A call is therefore modelled step by step, one  *)
(* step per loop iteration, so that each of the five can be seen to drift. *)
(*                                                                         *)
(* The process is single-threaded while it builds the tree, so there is    *)
(* one program counter.                                                    *)
(***************************************************************************)
EXTENDS Integers

CONSTANTS
    BaseAlloc,       \* RN_BASEALLOC, the slots below it are never handed out
    DefaultMinSize,  \* RNODEPOOL_DEFAULT_MINSIZE
    PoolSizes,       \* what configuration may leave in rn_minpoolsize
    MaxRequest,      \* bound: the largest n_children of a prototype
    MaxLock,         \* bound: no new call once the lock counter is this high
    MaxGen           \* bound: casts of one node

ASSUME BaseAllocAssumption == BaseAlloc \in Nat
ASSUME DefaultMinSizeAssumption ==
    DefaultMinSize \in Nat /\ DefaultMinSize > BaseAlloc
ASSUME PoolSizesAssumption == PoolSizes \subseteq Nat
ASSUME BoundsAssumption == MaxRequest \in Nat /\ MaxLock \in Nat /\ MaxGen \in Nat

VARIABLES
    pc,              \* where the running call is, "idle" between calls
    rn_minpoolsize, rn_pool, rn_allocmap, rn_maxalloc, rn_basealloc,
    rn_curalloc, nxt_avail, p_nxt_avail_rn,
    rn,              \* the pool's slots: slot number -> node
    lock,            \* the_rn_paramtab_lock
    n_alloc, prev_curalloc, prev_nxt_avail, p_new, i, \* locals of the running call
    held,            \* history: the slots builders have been given
    leaked           \* history: calls rejected while holding the lock

paramtab == <<rn_minpoolsize, rn_pool, rn_allocmap, rn_maxalloc, rn_basealloc,
              rn_curalloc, nxt_avail, p_nxt_avail_rn>>
locals == <<n_alloc, prev_curalloc, prev_nxt_avail, p_new, i>>
vars == <<pc, paramtab, rn, lock, locals, held, leaked>>

-----------------------------------------------------------------------------
Steps == {"idle", "poolinit", "check", "exhausted", "invalidate", "take",
          "zero", "number", "exited"}

\* RN_PROVISION is the zero of the enumeration, the type calloc() leaves.
RTypes == {"PROVISION", "INVALID", "GUARD", "CAST"}

Node(rtype, rino, gen) == [rtype |-> rtype, rino |-> rino, gen |-> gen]
Nodes == [rtype : RTypes, rino : Int, gen : 0 .. MaxGen]
Zeroed == Node("PROVISION", 0, 0)
Invalidated == Node("INVALID", -1, 0)

\* The locals of a call end with it.
ForgetLocals ==
    n_alloc' = 0 /\ prev_curalloc' = 0 /\ prev_nxt_avail' = 0 /\ p_new' = 0 /\ i' = 0

\* The slots p .. p+n-1 of the pool overwritten with node, as memset() does.
Memset(p, n, node) ==
    rn' = [s \in DOMAIN rn |-> IF p <= s /\ s < p + n THEN node ELSE rn[s]]

Init ==
    /\ pc = "idle"
    /\ rn_minpoolsize \in PoolSizes
    /\ rn_pool = FALSE
    /\ rn_allocmap = [s \in {} |-> 0]
    /\ rn_maxalloc = 0 /\ rn_basealloc = 0 /\ rn_curalloc = 0
    /\ nxt_avail = 0 /\ p_nxt_avail_rn = 0
    /\ rn = [s \in {} |-> Zeroed]
    /\ lock = 0
    /\ n_alloc = 0 /\ prev_curalloc = 0 /\ prev_nxt_avail = 0 /\ p_new = 0 /\ i = 0
    /\ held = {} /\ leaked = 0

-----------------------------------------------------------------------------
(* rn_poolinit() *)

\* A slip: a configured size below the default is taken as it is.
PoolSizeAsGiven == rn_minpoolsize

PoolSize == IF rn_minpoolsize <= DefaultMinSize
            THEN DefaultMinSize ELSE rn_minpoolsize

\* A slip: the pool is set up again when it exists.
SetUpPoolAgain ==
    /\ rn_minpoolsize' = PoolSize
    /\ rn_basealloc' = BaseAlloc
    /\ rn_maxalloc' = PoolSize - BaseAlloc
    /\ rn_curalloc' = 0
    /\ rn_pool' = TRUE
    /\ rn' = [s \in 0 .. (PoolSize - 1) |-> Zeroed]
    /\ rn_allocmap' = [s \in 0 .. (PoolSize - 1) |-> 0]
    /\ p_nxt_avail_rn' = BaseAlloc
    /\ nxt_avail' = BaseAlloc

\* The pool does not exist yet: size it, allocate it and set the counters.
SetUpPool ==
    /\ ~rn_pool
    /\ rn_minpoolsize' = PoolSize
    /\ rn_basealloc' = BaseAlloc
    /\ rn_maxalloc' = PoolSize - BaseAlloc
    /\ rn_curalloc' = 0
    /\ rn_pool' = TRUE
    /\ rn' = [s \in 0 .. (PoolSize - 1) |-> Zeroed]
    /\ rn_allocmap' = [s \in 0 .. (PoolSize - 1) |-> 0]
    /\ p_nxt_avail_rn' = BaseAlloc
    /\ nxt_avail' = BaseAlloc

\* mk_fs() creates the pool; a second call warns and changes nothing.
PoolInit ==
    /\ pc = "idle"
    /\ \/ SetUpPool
       \/ rn_pool /\ UNCHANGED <<paramtab, rn>>
    /\ UNCHANGED <<pc, lock, locals, held, leaked>>

\* No SlurmUser, SlurmdUser or BackingStore parameter, or calloc() fails: the
\* process exits holding the lock.
PoolInitFails ==
    /\ pc \in {"idle", "poolinit"} /\ ~rn_pool
    /\ pc' = "exited"
    /\ lock' = lock + 1
    /\ UNCHANGED <<paramtab, rn, locals, held, leaked>>

-----------------------------------------------------------------------------
(* rn_provision() up to its call of rn_alloc() *)

\* A builder asks for n nodes; n = 0 stands for a missing prototype as well.
Provision(n) ==
    /\ pc = "idle" /\ lock < MaxLock
    /\ lock' = lock + 1
    /\ n_alloc' = n
    /\ pc' = IF rn_pool THEN "check" ELSE "poolinit"
    /\ UNCHANGED <<paramtab, rn, prev_curalloc, prev_nxt_avail, p_new, i, held, leaked>>

ProvisionPoolInit ==
    /\ pc = "poolinit"
    /\ SetUpPool
    /\ pc' = "check"
    /\ UNCHANGED <<lock, locals, held, leaked>>

\* The early returns do not release the lock.
Reject ==
    /\ pc = "check" /\ n_alloc <= 0
    /\ pc' = "idle"
    /\ leaked' = leaked + 1
    /\ ForgetLocals
    /\ UNCHANGED <<paramtab, rn, lock, held>>

Accept ==
    /\ pc = "check" /\ n_alloc > 0
    /\ prev_curalloc' = rn_curalloc
    /\ pc' = "exhausted"
    /\ UNCHANGED <<paramtab, rn, lock, n_alloc, prev_nxt_avail, p_new, i, held, leaked>>

-----------------------------------------------------------------------------
(* rn_alloc() *)

\* A slip: one slot past the end of the pool is accepted.
FitsPastEnd == rn_curalloc + n_alloc <= rn_maxalloc + 1

Fits == rn_curalloc + n_alloc <= rn_maxalloc

Exhausted ==
    /\ pc = "exhausted" /\ ~Fits
    /\ pc' = "exited"
    /\ UNCHANGED <<paramtab, rn, lock, locals, held, leaked>>

\* Takes the lock a second time and remembers where the block starts; the
\* pointer and the index start at the same slot.
TakeBlock ==
    /\ pc = "exhausted" /\ Fits
    /\ lock' = lock + 1
    /\ p_new' = p_nxt_avail_rn
    /\ prev_nxt_avail' = nxt_avail
    /\ i' = 0
    /\ pc' = "invalidate"
    /\ UNCHANGED <<paramtab, rn, n_alloc, prev_curalloc, held, leaked>>

Invalidate ==
    /\ pc = "invalidate"
    /\ Memset(p_new, n_alloc, Invalidated)
    /\ pc' = "take"
    /\ UNCHANGED <<paramtab, lock, locals, held, leaked>>

\* The slot of this iteration, from the index as it was before the loop.
ThisSlot == prev_nxt_avail + i

\* A slip: the pointer is not moved with the index.
TakeSlotKeepPointer ==
    /\ pc = "take" /\ i < n_alloc
    /\ rn_allocmap[ThisSlot] = 0
    /\ rn_allocmap' = [rn_allocmap EXCEPT ![ThisSlot] = 1]
    /\ nxt_avail' = nxt_avail + 1
    /\ rn_curalloc' = rn_curalloc + 1
    /\ i' = i + 1
    /\ UNCHANGED <<pc, rn_minpoolsize, rn_pool, rn_maxalloc, rn_basealloc,
                   p_nxt_avail_rn, rn, lock, n_alloc, prev_curalloc,
                   prev_nxt_avail, p_new, held, leaked>>

TakeSlot ==
    /\ pc = "take" /\ i < n_alloc
    /\ rn_allocmap[ThisSlot] = 0
    /\ rn_allocmap' = [rn_allocmap EXCEPT ![ThisSlot] = 1]
    /\ nxt_avail' = nxt_avail + 1
    /\ rn_curalloc' = rn_curalloc + 1
    /\ p_nxt_avail_rn' = p_nxt_avail_rn + 1
    /\ i' = i + 1
    /\ UNCHANGED <<pc, rn_minpoolsize, rn_pool, rn_maxalloc, rn_basealloc, rn,
                   lock, n_alloc, prev_curalloc, prev_nxt_avail, p_new, held,
                   leaked>>

\* A slip: rn_alloc() returns without releasing the lock.
AllocReturnsLocked ==
    /\ pc = "take" /\ i = n_alloc
    /\ i' = 0
    /\ pc' = "zero"
    /\ UNCHANGED <<paramtab, rn, lock, n_alloc, prev_curalloc, prev_nxt_avail, p_new,
                   held, leaked>>

AllocReturns ==
    /\ pc = "take" /\ i = n_alloc
    /\ lock' = lock - 1
    /\ i' = 0
    /\ pc' = "zero"
    /\ UNCHANGED <<paramtab, rn, n_alloc, prev_curalloc, prev_nxt_avail, p_new, held,
                   leaked>>

-----------------------------------------------------------------------------
(* rn_provision() after rn_alloc() *)

Zero ==
    /\ pc = "zero"
    /\ Memset(p_new, n_alloc, Zeroed)
    /\ pc' = "number"
    /\ UNCHANGED <<paramtab, lock, locals, held, leaked>>

\* A slip: the inode number comes from the counter as it is now.
NumberSlotLate ==
    /\ pc = "number" /\ i < n_alloc
    /\ rn' = [rn EXCEPT ![p_new + i] = Node("GUARD", rn_basealloc + rn_curalloc + i, 0)]
    /\ i' = i + 1
    /\ UNCHANGED <<pc, paramtab, lock, n_alloc, prev_curalloc, prev_nxt_avail,
                   p_new, held, leaked>>

\* A slip: every block is numbered from the base.
NumberSlotFromBase ==
    /\ pc = "number" /\ i < n_alloc
    /\ rn' = [rn EXCEPT ![p_new + i] = Node("GUARD", rn_basealloc + i, 0)]
    /\ i' = i + 1
    /\ UNCHANGED <<pc, paramtab, lock, n_alloc, prev_curalloc, prev_nxt_avail,
                   p_new, held, leaked>>

\* A slip: the loop does not advance.
NumberSlotForever ==
    /\ pc = "number" /\ i < n_alloc
    /\ rn' = [rn EXCEPT ![p_new + i] =
                Node("GUARD", rn_basealloc + prev_curalloc + i, 0)]
    /\ UNCHANGED <<pc, paramtab, lock, locals, held, leaked>>

\* The inode number comes from the counter copied before the allocation.
NumberSlot ==
    /\ pc = "number" /\ i < n_alloc
    /\ rn' = [rn EXCEPT ![p_new + i] =
                Node("GUARD", rn_basealloc + prev_curalloc + i, 0)]
    /\ i' = i + 1
    /\ UNCHANGED <<pc, paramtab, lock, n_alloc, prev_curalloc, prev_nxt_avail,
                   p_new, held, leaked>>

ProvisionReturns ==
    /\ pc = "number" /\ i = n_alloc
    /\ lock' = lock - 1
    /\ held' = held \cup (p_new .. (p_new + n_alloc - 1))
    /\ pc' = "idle"
    /\ ForgetLocals
    /\ UNCHANGED <<paramtab, rn, leaked>>

-----------------------------------------------------------------------------
(* What builders do with a node they hold: rn_cast() types it. *)

Cast(s) ==
    /\ pc = "idle"
    /\ rn[s].gen < MaxGen
    /\ rn[s].rtype = "GUARD" \/ rn[s].gen > 0
    /\ rn' = [rn EXCEPT ![s] = Node("CAST", @.rino, @.gen + 1)]
    /\ UNCHANGED <<pc, paramtab, lock, locals, held, leaked>>

Exited == pc = "exited" /\ UNCHANGED vars

Alloc == Exhausted \/ TakeBlock \/ Invalidate \/ TakeSlot \/ AllocReturns
ProvisionStep ==
    \/ ProvisionPoolInit \/ Reject \/ Accept
    \/ Alloc
    \/ Zero \/ NumberSlot \/ ProvisionReturns

Next ==
    \/ PoolInit \/ PoolInitFails
    \/ \E n \in 0 .. MaxRequest : Provision(n)
    \/ ProvisionStep
    \/ \E s \in held : Cast(s)
    \/ Exited

Spec == Init /\ [][Next]_vars

\* A running call keeps running; nothing obliges a builder to make another.
FairSpec == Spec /\ WF_vars(ProvisionStep)
-----------------------------------------------------------------------------
(* Properties *)

Slots == IF rn_pool THEN 0 .. (rn_minpoolsize - 1) ELSE {}

TypeOK ==
    /\ pc \in Steps
    /\ rn_minpoolsize \in Nat /\ rn_pool \in BOOLEAN
    /\ rn_allocmap \in [Slots -> {0, 1}]
    /\ rn_maxalloc \in Nat /\ rn_basealloc \in Nat /\ rn_curalloc \in Nat
    /\ nxt_avail \in Nat /\ p_nxt_avail_rn \in Nat
    /\ rn \in [Slots -> Nodes]
    /\ lock \in Nat
    /\ n_alloc \in Nat /\ prev_curalloc \in Nat /\ prev_nxt_avail \in Nat
    /\ p_new \in Nat /\ i \in Nat
    /\ held \subseteq Nat
    /\ leaked \in Nat

\* The slots of the running call that the allocator has marked, or will have
\* marked when its loop ends.
InFlight ==
    IF pc \in {"take", "zero", "number"}
    THEN p_new .. (p_new + (IF pc = "take" THEN i ELSE n_alloc) - 1)
    ELSE {}

\* rn_alloc()'s comment on its loop: incrementing one at a time "keeps
\* allocmap consistent with these counters".  At every step the marked slots
\* are exactly the nodes builders hold and those the running call has taken,
\* the count is their number and the index is the first free slot.
CountersAgree ==
    rn_pool =>
        /\ {s \in Slots : rn_allocmap[s] = 1} = held \cup InFlight
        /\ held \cup InFlight = rn_basealloc .. (nxt_avail - 1)
        /\ nxt_avail = rn_basealloc + rn_curalloc
        /\ p_nxt_avail_rn = nxt_avail

\* The "duplicate allocation" exit of rn_alloc() is dead: whenever its loop
\* is about to mark a slot, the slot lies in the pool and is free.
NoDuplicateAllocation ==
    (pc = "take" /\ i < n_alloc) =>
        ThisSlot \in Slots /\ rn_allocmap[ThisSlot] = 0

\* A node a builder holds has its slot number as inode number, so two nodes
\* of the mounted tree never share a st_ino.
InodeIsSlot == \A s \in held : s \in Slots /\ rn[s].rino = s

\* The lock counter is the nesting of the running call plus one for every
\* call that returned early; nothing else unbalances it.
LockDepth ==
    CASE pc \in {"poolinit", "check", "exhausted", "zero", "number"} -> 1
      [] pc \in {"invalidate", "take"} -> 2
      [] OTHER -> 0
LockAccounted == pc # "exited" => lock = leaked + LockDepth

\* No step of a later provision touches a node that a builder already holds:
\* such a node keeps its inode number for ever, and changes only by a cast.
HeldNodesKept ==
    [][\A s \in held :
         /\ s \in held'
         /\ \/ rn'[s] = rn[s]
            \/ pc = "idle" /\ rn'[s] = Node("CAST", rn[s].rino, rn[s].gen + 1)]_vars

\* Every provision returns to its builder or ends the process.
ProvisionEnds == (pc \notin {"idle", "exited"}) ~> (pc \in {"idle", "exited"})

\* The pool implements the abstract inode space.
Space == INSTANCE RnodeSpace WITH
    FirstIno <- BaseAlloc,
    size <- IF rn_pool THEN rn_minpoolsize ELSE 0,
    granted <- {rn[s].rino : s \in held},
    stopped <- (pc = "exited")
SpaceSpec == Space!SpaceSpec
=============================================================================
