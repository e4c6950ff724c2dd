--------------------------- MODULE RnodePoolProofs ---------------------------
(***************************************************************************)
(* The safety of the rnode pool for every pool size, every base and every  *)
(* sequence of requests.                                                   *)
(*                                                                         *)
(* None of the properties is inductive alone: that the slot about to be    *)
(* marked is free needs the map to be the prefix below nxt_avail, that the *)
(* slot exists needs the bound rn_alloc() tested before it took the lock,  *)
(* and that the inode number is the slot needs the copy of the count to    *)
(* agree with the pointer for as long as the call runs.  IInv says all of  *)
(* this at once.                                                           *)
(***************************************************************************)
EXTENDS RnodePool, TLAPS

\* Where a call holds a block that its builder does not have yet.
Pending == {"invalidate", "take", "zero", "number"}

\* Without a pool nobody holds a node.
ClosedInv ==
    ~rn_pool => pc \in {"idle", "poolinit", "exited"} /\ held = {}

\* With a pool: the counters are one number, and the map is a prefix.
OpenInv ==
    rn_pool =>
        /\ pc # "poolinit"
        /\ rn_basealloc = BaseAlloc
        /\ rn_maxalloc = rn_minpoolsize - BaseAlloc
        /\ nxt_avail = BaseAlloc + rn_curalloc
        /\ p_nxt_avail_rn = nxt_avail
        /\ nxt_avail <= rn_minpoolsize
        /\ \A s \in Slots : rn_allocmap[s] = 1 <=> BaseAlloc <= s /\ s < nxt_avail

\* What the locals of the running call say of the pool.
CallInv ==
    /\ pc = "exhausted" => n_alloc > 0 /\ prev_curalloc = rn_curalloc
    /\ pc \in Pending =>
          /\ n_alloc > 0 /\ i <= n_alloc
          /\ p_new = BaseAlloc + prev_curalloc
          /\ prev_nxt_avail = p_new
          /\ p_new + n_alloc <= rn_minpoolsize
    /\ pc = "invalidate" => i = 0 /\ nxt_avail = p_new
    /\ pc = "take" => nxt_avail = p_new + i
    /\ pc = "zero" => i = 0
    /\ pc \in {"zero", "number"} => nxt_avail = p_new + n_alloc
    /\ pc = "number" => \A s \in p_new .. (p_new + i - 1) : rn[s].rino = s

\* Builders hold everything below the block of the running call.
FirstFree == IF pc \in Pending THEN p_new ELSE nxt_avail
HeldInv == rn_pool => held = BaseAlloc .. (FirstFree - 1)

IInv == TypeOK /\ ClosedInv /\ OpenInv /\ CallInv /\ HeldInv /\ InodeIsSlot
            /\ LockAccounted

USE BaseAllocAssumption, DefaultMinSizeAssumption, PoolSizesAssumption,
    BoundsAssumption

-----------------------------------------------------------------------------

\* A new pool has room above its base, a clear map and zeroed slots.
LEMMA SetUpPoolFacts ==
  ASSUME TypeOK, SetUpPool
  PROVE  /\ rn_pool' = TRUE
         /\ rn_minpoolsize' \in Nat /\ rn_minpoolsize' > BaseAlloc
         /\ rn_basealloc' = BaseAlloc
         /\ rn_maxalloc' = rn_minpoolsize' - BaseAlloc /\ rn_maxalloc' \in Nat
         /\ rn_curalloc' = 0
         /\ nxt_avail' = BaseAlloc /\ p_nxt_avail_rn' = BaseAlloc
         /\ Slots' = 0 .. (rn_minpoolsize' - 1)
         /\ rn_allocmap' \in [Slots' -> {0, 1}]
         /\ \A s \in Slots' : rn_allocmap'[s] = 0
         /\ rn' \in [Slots' -> Nodes]
<1>1. PoolSize \in Nat /\ PoolSize > BaseAlloc
  BY DEF PoolSize, TypeOK
<1>2. Zeroed \in Nodes
  BY DEF Zeroed, Node, Nodes, RTypes
<1>3. Slots' = 0 .. (PoolSize - 1)
  BY DEF Slots, SetUpPool
<1> QED BY <1>1, <1>2, <1>3 DEF SetUpPool

LEMMA SetUpPoolTypeOK ==
  ASSUME TypeOK, SetUpPool, pc' \in Steps, UNCHANGED <<lock, locals, held, leaked>>
  PROVE  TypeOK'
<1>1. rn_pool' \in BOOLEAN /\ rn_minpoolsize' \in Nat /\ rn_maxalloc' \in Nat
  BY SetUpPoolFacts
<1>2. /\ rn_basealloc' \in Nat /\ rn_curalloc' \in Nat
      /\ nxt_avail' \in Nat /\ p_nxt_avail_rn' \in Nat
  BY SetUpPoolFacts
<1>3. rn_allocmap' \in [Slots' -> {0, 1}] /\ rn' \in [Slots' -> Nodes]
  BY SetUpPoolFacts
<1> QED BY <1>1, <1>2, <1>3 DEF TypeOK, locals

LEMMA PoolInitPreserves == ASSUME IInv, PoolInit PROVE IInv'
<1>1. CASE SetUpPool
  <2>1. TypeOK'
    BY <1>1, SetUpPoolTypeOK DEF IInv, TypeOK, PoolInit
  <2>2. held = {} /\ pc \notin Pending
    BY <1>1 DEF IInv, ClosedInv, SetUpPool, PoolInit, Pending
  <2>3. OpenInv'
    BY <1>1, SetUpPoolFacts DEF IInv, OpenInv, PoolInit
  <2>4. HeldInv'
    BY <1>1, <2>2, SetUpPoolFacts DEF IInv, HeldInv, FirstFree, PoolInit, Pending
  <2>5. ClosedInv' /\ InodeIsSlot'
    BY <1>1, <2>2, SetUpPoolFacts DEF ClosedInv, InodeIsSlot, PoolInit
  <2>6. CallInv' /\ LockAccounted'
    BY DEF IInv, CallInv, LockAccounted, LockDepth, PoolInit, Pending
  <2> QED BY <2>1, <2>3, <2>4, <2>5, <2>6 DEF IInv
<1>2. CASE UNCHANGED <<paramtab, rn>>
  BY <1>2 DEF IInv, TypeOK, ClosedInv, OpenInv, CallInv, HeldInv, InodeIsSlot,
         LockAccounted, LockDepth, Slots, FirstFree, paramtab, locals, PoolInit
<1> QED BY <1>1, <1>2 DEF PoolInit

-----------------------------------------------------------------------------
(* Most steps leave the counters of rn_paramtab and the held nodes alone:   *)
(* what the invariant says of them is carried over once, here.              *)

LEMMA TypeKept ==
  ASSUME TypeOK, UNCHANGED <<paramtab, held>>,
         pc' \in Steps, rn' \in [Slots -> Nodes], lock' \in Nat, leaked' \in Nat,
         n_alloc' \in Nat, prev_curalloc' \in Nat, prev_nxt_avail' \in Nat,
         p_new' \in Nat, i' \in Nat
  PROVE  TypeOK'
  BY DEF TypeOK, Slots, paramtab

LEMMA PoolKept ==
  ASSUME IInv, UNCHANGED <<paramtab, held>>, FirstFree' = FirstFree,
         rn_pool => pc' # "poolinit",
         ~rn_pool => pc' \in {"idle", "poolinit", "exited"}
  PROVE  ClosedInv' /\ OpenInv' /\ HeldInv'
  BY DEF IInv, ClosedInv, OpenInv, HeldInv, Slots, paramtab

LEMMA InodesKept ==
  ASSUME IInv, UNCHANGED <<paramtab, held>>,
         \A s \in held : rn'[s].rino = rn[s].rino
  PROVE  InodeIsSlot'
  BY DEF IInv, InodeIsSlot, Slots, paramtab

\* A call past its first check runs on a pool.
LEMMA RunningHasPool ==
  ASSUME IInv, pc \notin {"idle", "poolinit", "exited"}
  PROVE  rn_pool
  BY DEF IInv, ClosedInv

\* Everything held lies below the block of the running call.
LEMMA HeldBelowBlock ==
  ASSUME IInv, pc \in Pending, NEW s \in held
  PROVE  s < p_new
<1>1. rn_pool
  BY RunningHasPool DEF Pending
<1> QED BY <1>1 DEF IInv, TypeOK, HeldInv, FirstFree

LEMMA MemsetFacts ==
  ASSUME TypeOK, NEW node \in Nodes, Memset(p_new, n_alloc, node)
  PROVE  /\ rn' \in [Slots -> Nodes]
         /\ \A s \in Slots : s < p_new => rn'[s] = rn[s]
<1>1. DOMAIN rn = Slots /\ Slots \subseteq Int
  BY DEF TypeOK, Slots
<1> QED BY <1>1 DEF TypeOK, Memset

-----------------------------------------------------------------------------

LEMMA ProvisionPreserves == ASSUME IInv, NEW n \in 0 .. MaxRequest, Provision(n) PROVE IInv'
<1>1. TypeOK'
  BY TypeKept DEF IInv, TypeOK, Steps, Provision
<1>2. ClosedInv' /\ OpenInv' /\ HeldInv'
  BY PoolKept DEF FirstFree, Pending, paramtab, IInv, ClosedInv, Provision
<1>3. InodeIsSlot'
  BY InodesKept DEF Provision
<1>4. CallInv' /\ LockAccounted'
  BY DEF IInv, TypeOK, CallInv, LockAccounted, LockDepth, Pending, Provision
<1> QED BY <1>1, <1>2, <1>3, <1>4 DEF IInv

LEMMA ProvisionPoolInitPreserves == ASSUME IInv, ProvisionPoolInit PROVE IInv'
<1> SetUpPool
  BY DEF ProvisionPoolInit
<1>1. TypeOK'
  BY SetUpPoolTypeOK DEF IInv, ProvisionPoolInit, Steps
<1>2. held = {}
  BY DEF IInv, ClosedInv, SetUpPool
<1>3. OpenInv'
  BY SetUpPoolFacts DEF IInv, OpenInv, ProvisionPoolInit
<1>4. HeldInv'
  BY <1>2, SetUpPoolFacts DEF IInv, HeldInv, FirstFree, ProvisionPoolInit, Pending
<1>5. ClosedInv' /\ InodeIsSlot'
  BY <1>2, SetUpPoolFacts DEF IInv, ClosedInv, InodeIsSlot, ProvisionPoolInit
<1>6. CallInv' /\ LockAccounted'
  BY DEF IInv, CallInv, LockAccounted, LockDepth, ProvisionPoolInit, Pending
<1> QED BY <1>1, <1>3, <1>4, <1>5, <1>6 DEF IInv

LEMMA RejectPreserves == ASSUME IInv, Reject PROVE IInv'
<1>1. TypeOK'
  BY TypeKept DEF IInv, TypeOK, Steps, Reject, ForgetLocals
<1>2. ClosedInv' /\ OpenInv' /\ HeldInv'
  BY PoolKept DEF FirstFree, Pending, paramtab, Reject
<1>3. InodeIsSlot'
  BY InodesKept DEF Reject
<1>4. CallInv' /\ LockAccounted'
  BY DEF IInv, TypeOK, CallInv, LockAccounted, LockDepth, Pending, Reject
<1> QED BY <1>1, <1>2, <1>3, <1>4 DEF IInv

LEMMA AcceptPreserves == ASSUME IInv, Accept PROVE IInv'
<1>1. TypeOK'
  BY TypeKept DEF IInv, TypeOK, Steps, paramtab, Accept
<1>2. ClosedInv' /\ OpenInv' /\ HeldInv'
  BY PoolKept, RunningHasPool DEF FirstFree, Pending, paramtab, Accept
<1>3. InodeIsSlot'
  BY InodesKept DEF Accept
<1>4. CallInv' /\ LockAccounted'
  BY DEF IInv, CallInv, LockAccounted, LockDepth, Pending, paramtab, Accept
<1> QED BY <1>1, <1>2, <1>3, <1>4 DEF IInv

LEMMA ExhaustedPreserves == ASSUME IInv, Exhausted PROVE IInv'
<1>1. TypeOK'
  BY TypeKept DEF IInv, TypeOK, Steps, locals, Exhausted
<1>2. ClosedInv' /\ OpenInv' /\ HeldInv'
  BY PoolKept DEF FirstFree, Pending, paramtab, Exhausted
<1>3. InodeIsSlot'
  BY InodesKept DEF Exhausted
<1>4. CallInv' /\ LockAccounted'
  BY DEF CallInv, LockAccounted, Pending, Exhausted
<1> QED BY <1>1, <1>2, <1>3, <1>4 DEF IInv

\* Here the test of rn_alloc() becomes the bound of the block.
LEMMA TakeBlockPreserves == ASSUME IInv, TakeBlock PROVE IInv'
<1>1. rn_pool
  BY RunningHasPool DEF TakeBlock
<1>2. TypeOK'
  BY TypeKept DEF IInv, TypeOK, Steps, paramtab, TakeBlock
<1>3. p_new' = nxt_avail
  BY <1>1 DEF IInv, OpenInv, TakeBlock
<1>4. ClosedInv' /\ OpenInv' /\ HeldInv'
  BY <1>1, <1>3, PoolKept DEF FirstFree, Pending, paramtab, TakeBlock
<1>5. InodeIsSlot'
  BY InodesKept DEF TakeBlock
<1>6. CallInv'
  BY <1>1, <1>3 DEF IInv, TypeOK, CallInv, OpenInv, Pending, paramtab, TakeBlock, Fits
<1>7. LockAccounted'
  BY DEF IInv, TypeOK, LockAccounted, LockDepth, TakeBlock
<1> QED BY <1>2, <1>4, <1>5, <1>6, <1>7 DEF IInv

LEMMA InvalidatePreserves == ASSUME IInv, Invalidate PROVE IInv'
<1>1. Invalidated \in Nodes
  BY DEF Invalidated, Node, Nodes, RTypes
<1>2. rn' \in [Slots -> Nodes] /\ \A s \in Slots : s < p_new => rn'[s] = rn[s]
  BY <1>1, MemsetFacts DEF IInv, Invalidate
<1>3. TypeOK'
  BY <1>2, TypeKept DEF IInv, TypeOK, Steps, locals, Invalidate
<1>4. ClosedInv' /\ OpenInv' /\ HeldInv'
  BY PoolKept, RunningHasPool DEF FirstFree, Pending, paramtab, locals, Invalidate
<1>5. \A s \in held : s \in Slots /\ s < p_new
  BY HeldBelowBlock DEF IInv, InodeIsSlot, Pending, Invalidate
<1>6. InodeIsSlot'
  BY <1>2, <1>5, InodesKept DEF Invalidate
<1>7. CallInv' /\ LockAccounted'
  BY DEF IInv, TypeOK, CallInv, LockAccounted, LockDepth, Pending, paramtab, locals,
         Invalidate
<1> QED BY <1>3, <1>4, <1>6, <1>7 DEF IInv

\* The only step that moves the counters of a pool.
LEMMA TakeSlotPreserves == ASSUME IInv, TakeSlot PROVE IInv'
<1>1. rn_pool /\ ThisSlot = nxt_avail /\ nxt_avail < rn_minpoolsize
  BY RunningHasPool DEF IInv, TypeOK, CallInv, Pending, ThisSlot, TakeSlot
<1>2. ThisSlot \in Slots /\ Slots' = Slots
  BY <1>1 DEF IInv, TypeOK, Slots, TakeSlot
<1>3. TypeOK'
  <2>1. rn_allocmap' \in [Slots -> {0, 1}]
    BY <1>2 DEF IInv, TypeOK, TakeSlot
  <2> QED BY <1>2, <2>1 DEF IInv, TypeOK, TakeSlot
<1>4. OpenInv'
  <2>1. \A s \in Slots : rn_allocmap'[s] = 1 <=> s = ThisSlot \/ rn_allocmap[s] = 1
    BY <1>2 DEF IInv, TypeOK, TakeSlot
  <2>2. \A s \in Slots : rn_allocmap'[s] = 1 <=> BaseAlloc <= s /\ s < nxt_avail + 1
    BY <1>1, <1>2, <2>1 DEF IInv, TypeOK, OpenInv, Slots
  <2> QED BY <1>1, <1>2, <2>2 DEF IInv, TypeOK, OpenInv, TakeSlot
<1>5. CallInv'
  BY DEF IInv, TypeOK, CallInv, Pending, TakeSlot
<1>6. ClosedInv' /\ HeldInv'
  BY <1>1 DEF IInv, ClosedInv, HeldInv, FirstFree, Pending, TakeSlot
<1>7. InodeIsSlot' /\ LockAccounted'
  BY <1>2 DEF IInv, InodeIsSlot, LockAccounted, LockDepth, TakeSlot
<1> QED BY <1>3, <1>4, <1>5, <1>6, <1>7 DEF IInv

LEMMA AllocReturnsPreserves == ASSUME IInv, AllocReturns PROVE IInv'
<1>1. lock' \in Nat /\ LockAccounted'
  BY DEF IInv, TypeOK, LockAccounted, LockDepth, AllocReturns
<1>2. TypeOK'
  BY <1>1, TypeKept DEF IInv, TypeOK, Steps, AllocReturns
<1>3. ClosedInv' /\ OpenInv' /\ HeldInv'
  BY PoolKept, RunningHasPool DEF FirstFree, Pending, paramtab, AllocReturns
<1>4. InodeIsSlot'
  BY InodesKept DEF AllocReturns
<1>5. CallInv'
  BY DEF IInv, TypeOK, CallInv, Pending, paramtab, AllocReturns
<1> QED BY <1>1, <1>2, <1>3, <1>4, <1>5 DEF IInv

LEMMA ZeroPreserves == ASSUME IInv, Zero PROVE IInv'
<1>1. Zeroed \in Nodes
  BY DEF Zeroed, Node, Nodes, RTypes
<1>2. rn' \in [Slots -> Nodes] /\ \A s \in Slots : s < p_new => rn'[s] = rn[s]
  BY <1>1, MemsetFacts DEF IInv, Zero
<1>3. TypeOK'
  BY <1>2, TypeKept DEF IInv, TypeOK, Steps, locals, Zero
<1>4. ClosedInv' /\ OpenInv' /\ HeldInv'
  BY PoolKept, RunningHasPool DEF FirstFree, Pending, paramtab, locals, Zero
<1>5. \A s \in held : s \in Slots /\ s < p_new
  BY HeldBelowBlock DEF IInv, InodeIsSlot, Pending, Zero
<1>6. InodeIsSlot'
  BY <1>2, <1>5, InodesKept DEF Zero
<1>7. CallInv' /\ LockAccounted'
  BY DEF IInv, TypeOK, CallInv, LockAccounted, LockDepth, Pending, paramtab, locals, Zero
<1> QED BY <1>3, <1>4, <1>6, <1>7 DEF IInv

LEMMA NumberSlotPreserves == ASSUME IInv, NumberSlot PROVE IInv'
<1> DEFINE slot == p_new + i
<1>1. rn_pool /\ slot = rn_basealloc + prev_curalloc + i
  BY RunningHasPool DEF IInv, TypeOK, OpenInv, CallInv, Pending, NumberSlot
<1>2. slot \in Slots /\ p_new \in Nat /\ i \in Nat
  BY <1>1 DEF IInv, TypeOK, CallInv, Pending, Slots, NumberSlot
<1>3. /\ rn' = [rn EXCEPT ![slot] = Node("GUARD", slot, 0)]
      /\ Node("GUARD", slot, 0) \in Nodes
  <2>1. rn' = [rn EXCEPT ![slot] = Node("GUARD", slot, 0)]
    BY <1>1 DEF NumberSlot
  <2>2. Node("GUARD", slot, 0) \in Nodes
    BY <1>2 DEF Node, Nodes, RTypes
  <2> QED BY <2>1, <2>2
<1>4. /\ rn' \in [Slots -> Nodes]
      /\ rn'[slot].rino = slot
      /\ \A s \in Slots : s # slot => rn'[s] = rn[s]
  BY <1>2, <1>3 DEF IInv, TypeOK, Node
<1>5. TypeOK'
  BY <1>4, TypeKept DEF IInv, TypeOK, Steps, NumberSlot
<1>6. ClosedInv' /\ OpenInv' /\ HeldInv'
  BY <1>1, PoolKept DEF FirstFree, Pending, paramtab, NumberSlot
<1>7. \A s \in held : s \in Slots /\ s # slot
  BY <1>2, HeldBelowBlock DEF IInv, InodeIsSlot, Slots, Pending, NumberSlot
<1>8. InodeIsSlot'
  BY <1>4, <1>7, InodesKept DEF NumberSlot
<1>9. CallInv'
  <2>1. \A s \in p_new .. (slot - 1) : s \in Slots /\ s # slot /\ rn[s].rino = s
    BY <1>1, <1>2 DEF IInv, TypeOK, CallInv, Pending, Slots, NumberSlot
  <2>2. \A s \in p_new .. slot : rn'[s].rino = s
    BY <1>2, <1>4, <2>1
  <2>3. p_new .. (p_new + i' - 1) = p_new .. slot
    BY <1>2 DEF NumberSlot
  <2> QED BY <2>2, <2>3 DEF IInv, TypeOK, CallInv, Pending, paramtab, NumberSlot
<1>10. LockAccounted'
  BY DEF IInv, LockAccounted, LockDepth, NumberSlot
<1> QED BY <1>5, <1>6, <1>8, <1>9, <1>10 DEF IInv

\* The block becomes held: it is numbered, and it begins where held ended.
LEMMA ProvisionReturnsPreserves == ASSUME IInv, ProvisionReturns PROVE IInv'
<1>1. rn_pool /\ pc = "number" /\ i = n_alloc
  BY RunningHasPool DEF ProvisionReturns
<1>2. lock' \in Nat /\ LockAccounted'
  BY DEF IInv, TypeOK, LockAccounted, LockDepth, ProvisionReturns
<1>3. TypeOK'
  BY <1>2 DEF IInv, TypeOK, Steps, Slots, paramtab, ProvisionReturns, ForgetLocals
<1>4. nxt_avail = p_new + n_alloc /\ n_alloc > 0 /\ nxt_avail <= rn_minpoolsize
  BY <1>1 DEF IInv, CallInv, OpenInv, Pending
<1>5. HeldInv'
  BY <1>1, <1>4 DEF IInv, TypeOK, HeldInv, CallInv, FirstFree, Pending, paramtab,
                    ProvisionReturns
<1>6. ClosedInv' /\ OpenInv'
  BY <1>1 DEF IInv, ClosedInv, OpenInv, Slots, paramtab, ProvisionReturns
<1>7. \A s \in p_new .. (p_new + n_alloc - 1) : s \in Slots /\ rn[s].rino = s
  BY <1>1, <1>4 DEF IInv, TypeOK, CallInv, Pending, Slots
<1>8. InodeIsSlot'
  BY <1>7 DEF IInv, InodeIsSlot, Slots, paramtab, ProvisionReturns
<1>9. CallInv'
  BY DEF CallInv, Pending, ProvisionReturns
<1> QED BY <1>2, <1>3, <1>5, <1>6, <1>8, <1>9 DEF IInv

LEMMA CastPreserves == ASSUME IInv, NEW s \in held, Cast(s) PROVE IInv'
<1>1. s \in Slots /\ rn[s] \in Nodes
  BY DEF IInv, TypeOK, InodeIsSlot
<1>2. Node("CAST", rn[s].rino, rn[s].gen + 1) \in Nodes
  BY <1>1 DEF Cast, Node, Nodes, RTypes, IInv, TypeOK
<1>3. rn' \in [Slots -> Nodes]
  BY <1>1, <1>2 DEF IInv, TypeOK, Cast
<1>4. TypeOK'
  BY <1>3, TypeKept DEF IInv, TypeOK, locals, Cast
<1>5. ClosedInv' /\ OpenInv' /\ HeldInv'
  BY PoolKept DEF FirstFree, Pending, paramtab, Cast
<1>6. \A t \in held : rn'[t].rino = rn[t].rino
  BY <1>1 DEF IInv, TypeOK, InodeIsSlot, Cast, Node
<1>7. InodeIsSlot'
  BY <1>6, InodesKept DEF Cast
<1>8. CallInv' /\ LockAccounted'
  BY DEF IInv, CallInv, LockAccounted, LockDepth, Pending, Cast
<1> QED BY <1>4, <1>5, <1>7, <1>8 DEF IInv

LEMMA PoolInitFailsPreserves == ASSUME IInv, PoolInitFails PROVE IInv'
<1>1. TypeOK'
  BY TypeKept DEF IInv, TypeOK, Steps, locals, PoolInitFails
<1>2. ClosedInv' /\ OpenInv' /\ HeldInv' /\ InodeIsSlot'
  BY DEF IInv, ClosedInv, OpenInv, HeldInv, InodeIsSlot, paramtab, PoolInitFails
<1>3. CallInv' /\ LockAccounted'
  BY DEF CallInv, LockAccounted, Pending, PoolInitFails
<1> QED BY <1>1, <1>2, <1>3 DEF IInv

LEMMA InitIInv == Init => IInv
<1> SUFFICES ASSUME Init PROVE IInv
  OBVIOUS
<1>1. Slots = {} /\ rn_pool \in BOOLEAN
  BY DEF Init, Slots
<1>2. rn_allocmap \in [Slots -> {0, 1}] /\ rn \in [Slots -> Nodes]
  BY <1>1 DEF Init
<1>3. TypeOK
  BY <1>1, <1>2 DEF Init, TypeOK, Steps
<1>4. ClosedInv /\ OpenInv /\ HeldInv /\ InodeIsSlot
  BY DEF Init, ClosedInv, OpenInv, HeldInv, InodeIsSlot
<1>5. CallInv /\ LockAccounted
  BY DEF Init, CallInv, LockAccounted, LockDepth, Pending
<1> QED BY <1>3, <1>4, <1>5 DEF IInv

LEMMA StutterPreserves == ASSUME IInv, UNCHANGED vars PROVE IInv'
  BY DEF IInv, TypeOK, ClosedInv, OpenInv, CallInv, HeldInv, FirstFree, InodeIsSlot,
         LockAccounted, LockDepth, Pending, Slots, Steps, Nodes,
         vars, paramtab, locals

LEMMA NextPreserves == IInv /\ [Next]_vars => IInv'
<1> SUFFICES ASSUME IInv, [Next]_vars PROVE IInv'
  OBVIOUS
<1>1. CASE PoolInit
  BY <1>1, PoolInitPreserves
<1>2. CASE PoolInitFails
  BY <1>2, PoolInitFailsPreserves
<1>3. CASE \E n \in 0 .. MaxRequest : Provision(n)
  BY <1>3, ProvisionPreserves
<1>4. CASE ProvisionPoolInit \/ Reject \/ Accept
  BY <1>4, ProvisionPoolInitPreserves, RejectPreserves, AcceptPreserves
<1>5. CASE Alloc
  BY <1>5, ExhaustedPreserves, TakeBlockPreserves, InvalidatePreserves,
     TakeSlotPreserves, AllocReturnsPreserves DEF Alloc
<1>6. CASE Zero \/ NumberSlot \/ ProvisionReturns
  BY <1>6, ZeroPreserves, NumberSlotPreserves, ProvisionReturnsPreserves
<1>7. CASE \E s \in held : Cast(s)
  BY <1>7, CastPreserves
<1>8. CASE Exited \/ UNCHANGED vars
  BY <1>8, StutterPreserves DEF Exited
<1> QED
  BY <1>1, <1>2, <1>3, <1>4, <1>5, <1>6, <1>7, <1>8 DEF Next, ProvisionStep

\* The counters, the map, the locals and the held nodes agree in every state,
\* for every base, pool size and request.
THEOREM PoolInvariant == Spec => []IInv
  BY InitIInv, NextPreserves, PTL DEF Spec

-----------------------------------------------------------------------------

\* Every variable of the pool keeps its type.
THEOREM PoolTypeCorrect == Spec => []TypeOK
  BY PoolInvariant, PTL DEF IInv

LEMMA IInvImpliesCountersAgree == IInv => CountersAgree
<1> SUFFICES ASSUME IInv, rn_pool PROVE CountersAgree
  BY DEF CountersAgree
<1>1. held \cup InFlight = BaseAlloc .. (nxt_avail - 1)
  BY DEF IInv, TypeOK, HeldInv, FirstFree, CallInv, OpenInv, InFlight, Pending
<1>2. {s \in Slots : rn_allocmap[s] = 1} = BaseAlloc .. (nxt_avail - 1)
  BY DEF IInv, TypeOK, OpenInv, Slots
<1> QED BY <1>1, <1>2 DEF IInv, OpenInv, CountersAgree

\* The map marks exactly the nodes that are held or being taken, and the three
\* counters of rn_paramtab say where they end, at every step of rn_alloc().
THEOREM PoolCountersAgree == Spec => []CountersAgree
  BY PoolInvariant, IInvImpliesCountersAgree, PTL

LEMMA IInvImpliesNoDuplicate == IInv => NoDuplicateAllocation
  BY DEF IInv, TypeOK, ClosedInv, OpenInv, CallInv, Pending, Slots, ThisSlot,
         NoDuplicateAllocation

\* rn_alloc() never reaches its "duplicate allocation" exit and never marks a
\* slot outside the pool.
THEOREM PoolNoDuplicateAllocation == Spec => []NoDuplicateAllocation
  BY PoolInvariant, IInvImpliesNoDuplicate, PTL

\* A held node's inode number is its slot number, so inode numbers are unique.
THEOREM PoolInodeIsSlot == Spec => []InodeIsSlot
  BY PoolInvariant, PTL DEF IInv

\* The lock counter is off by exactly the number of early returns.
THEOREM PoolLockAccounted == Spec => []LockAccounted
  BY PoolInvariant, PTL DEF IInv

-----------------------------------------------------------------------------

\* Memset() and NumberSlot write to the block of the running call, above
\* everything that is held.
LEMMA StepKeepsHeldNodes ==
  ASSUME IInv, [Next]_vars, NEW s \in held
  PROVE  /\ s \in held'
         /\ \/ rn'[s] = rn[s]
            \/ pc = "idle" /\ rn'[s] = Node("CAST", rn[s].rino, rn[s].gen + 1)
<1>1. s \in Slots /\ rn_pool /\ rn \in [Slots -> Nodes]
  BY DEF IInv, TypeOK, ClosedInv, InodeIsSlot
<1>2. pc \in Pending => s < p_new
  BY <1>1 DEF IInv, TypeOK, HeldInv, FirstFree, Pending
<1>3. CASE PoolInit \/ Exited \/ UNCHANGED vars
  BY <1>1, <1>3 DEF PoolInit, SetUpPool, Exited, vars
<1>4. CASE PoolInitFails \/ \E n \in 0 .. MaxRequest : Provision(n)
  BY <1>4 DEF PoolInitFails, Provision
<1>5. CASE ProvisionPoolInit \/ Reject \/ Accept
  BY <1>1, <1>5 DEF ProvisionPoolInit, SetUpPool, Reject, Accept
<1>6. CASE Exhausted \/ TakeBlock \/ TakeSlot \/ AllocReturns
  BY <1>6 DEF Exhausted, TakeBlock, TakeSlot, AllocReturns
<1>7. CASE Invalidate
  BY <1>1, <1>2, <1>7 DEF Invalidate, Memset, Pending, IInv, TypeOK
<1>8. CASE Zero
  BY <1>1, <1>2, <1>8 DEF Zero, Memset, Pending, IInv, TypeOK
<1>9. CASE NumberSlot
  <2>1. s # p_new + i
    BY <1>2, <1>9 DEF NumberSlot, Pending, IInv, TypeOK, InodeIsSlot, Slots
  <2> QED BY <1>1, <1>9, <2>1 DEF NumberSlot
<1>10. CASE ProvisionReturns
  BY <1>10 DEF ProvisionReturns
<1>11. CASE \E t \in held : Cast(t)
  <2>1. PICK t \in held : Cast(t)
    BY <1>11
  <2> QED BY <1>1, <2>1 DEF Cast, Node
<1> QED
  BY <1>3, <1>4, <1>5, <1>6, <1>7, <1>8, <1>9, <1>10, <1>11
  DEF Next, ProvisionStep, Alloc

\* No step of a later provision changes or takes back a node a builder holds.
THEOREM PoolKeepsHeldNodes == Spec => HeldNodesKept
<1>1. IInv /\ [Next]_vars =>
        [\A s \in held :
            /\ s \in held'
            /\ \/ rn'[s] = rn[s]
               \/ pc = "idle" /\ rn'[s] = Node("CAST", rn[s].rino, rn[s].gen + 1)]_vars
  BY StepKeepsHeldNodes
<1> QED BY <1>1, PoolInvariant, PTL DEF Spec, HeldNodesKept

-----------------------------------------------------------------------------

LEMMA GrantedIsHeld ==
  /\ IInv => {rn[s].rino : s \in held} = held
  /\ IInv' => {rn[s].rino : s \in held}' = held'
  BY DEF IInv, InodeIsSlot

\* A provision that returns is a grant: its block is fresh, consecutive, at or
\* above the base and below the end of the pool.
LEMMA ReturnIsGrant == ASSUME IInv, IInv', ProvisionReturns PROVE Space!Grant
<1> DEFINE n == n_alloc
           first == p_new
<1>1. rn_pool /\ pc = "number" /\ i = n_alloc
  BY DEF IInv, ClosedInv, ProvisionReturns
<1>2. /\ n \in 1 .. rn_minpoolsize
      /\ first \in BaseAlloc .. (rn_minpoolsize - n)
  BY <1>1 DEF IInv, TypeOK, CallInv, Pending
<1>3. held = BaseAlloc .. (first - 1)
  BY <1>1 DEF IInv, HeldInv, FirstFree, Pending
<1>4. /\ held' = held \cup Space!Run(first, n)
      /\ Space!Run(first, n) \cap held = {}
  BY <1>1, <1>2, <1>3 DEF ProvisionReturns, Space!Run, IInv, TypeOK
<1>5. {rn[s].rino : s \in held}' = held'
  BY GrantedIsHeld
<1>6. pc' = "idle" /\ UNCHANGED <<rn_pool, rn_minpoolsize>>
  BY DEF ProvisionReturns, paramtab
<1> QED BY <1>1, <1>2, <1>4, <1>5, <1>6, GrantedIsHeld DEF Space!Grant

LEMMA SetUpIsOpen ==
  ASSUME IInv, IInv', SetUpPool, pc # "exited", pc' # "exited", UNCHANGED held
  PROVE  Space!Open
<1>1. rn_pool' = TRUE /\ rn_minpoolsize' \in Nat /\ rn_minpoolsize' > BaseAlloc
  BY SetUpPoolFacts DEF IInv
<1>2. {rn[s].rino : s \in held}' = {rn[s].rino : s \in held}
  BY GrantedIsHeld
<1> QED BY <1>1, <1>2 DEF Space!Open, SetUpPool

\* Every other step stops the process or does nothing to the space.
LEMMA StepRefines == ASSUME IInv, IInv', [Next]_vars PROVE [Space!SpaceNext]_(Space!spaceVars)
<1>1. ASSUME UNCHANGED <<held, rn_pool, rn_minpoolsize>>, pc' = "exited" \/ pc # "exited"
      PROVE  [Space!SpaceNext]_(Space!spaceVars)
  <2>1. {rn[s].rino : s \in held}' = {rn[s].rino : s \in held}
    BY <1>1, GrantedIsHeld
  <2>2. CASE pc' = "exited"
    BY <1>1, <2>1, <2>2 DEF Space!SpaceNext, Space!Stop
  <2>3. CASE pc' # "exited"
    BY <1>1, <2>1, <2>3 DEF Space!spaceVars
  <2> QED BY <2>2, <2>3
<1>2. CASE PoolInit
  BY <1>1, <1>2, SetUpIsOpen DEF PoolInit, paramtab, Space!SpaceNext
<1>3. CASE PoolInitFails \/ Exhausted
  BY <1>1, <1>3 DEF PoolInitFails, Exhausted, paramtab
<1>4. CASE \E n \in 0 .. MaxRequest : Provision(n)
  BY <1>1, <1>4 DEF Provision, paramtab
<1>5. CASE ProvisionPoolInit
  BY <1>5, SetUpIsOpen DEF ProvisionPoolInit, Space!SpaceNext
<1>6. CASE Reject \/ Accept
  BY <1>1, <1>6 DEF Reject, Accept, paramtab
<1>7. CASE TakeBlock \/ Invalidate \/ TakeSlot \/ AllocReturns
  BY <1>1, <1>7 DEF TakeBlock, Invalidate, TakeSlot, AllocReturns, paramtab
<1>8. CASE Zero \/ NumberSlot
  BY <1>1, <1>8 DEF Zero, NumberSlot, paramtab
<1>9. CASE ProvisionReturns
  BY <1>9, ReturnIsGrant DEF Space!SpaceNext
<1>10. CASE \E s \in held : Cast(s)
  BY <1>1, <1>10 DEF Cast, paramtab
<1>11. CASE Exited \/ UNCHANGED vars
  BY <1>1, <1>11 DEF Exited, vars, paramtab
<1> QED
  BY <1>2, <1>3, <1>4, <1>5, <1>6, <1>7, <1>8, <1>9, <1>10, <1>11
  DEF Next, ProvisionStep, Alloc

\* The pool implements the inode space: what builders see of rn_provision() is
\* a sequence of grants of fresh consecutive numbers.
THEOREM PoolImplementsSpace == Spec => SpaceSpec
<1>1. Init => Space!SpaceInit
  BY DEF Init, Space!SpaceInit
<1>2. IInv /\ IInv' /\ [Next]_vars => [Space!SpaceNext]_(Space!spaceVars)
  BY StepRefines
<1> QED BY <1>1, <1>2, PoolInvariant, PTL DEF Spec, SpaceSpec, Space!SpaceSpec
====
