-------------------------- MODULE BcacheRefinement --------------------------
(***************************************************************************)
(* The buffer cache over the disk driver implements the store of blocks of *)
(* BlockStore: the content of a block is the data of the valid buffer that *)
(* caches it, and the disk's where there is none.                          *)
(***************************************************************************)
EXTENDS BcacheProofs

HasValid(k, b) == b \in Bufs /\ buf[b].blk = k /\ buf[b].valid

\* The content of a block, for any buffers and disk: the data of the one valid
\* buffer of the block, and of the disk when there is none.
LEMMA OneValid ==
  ASSUME NEW B, NEW D, NEW k, \A b, c \in Bufs : B[b].blk = k /\ B[c].blk = k => b = c
  PROVE  LET S == {b \in Bufs : B[b].blk = k}
             x == IF \E b \in S : B[b].valid THEN B[CHOOSE b \in S : B[b].valid].data ELSE D[k]
         IN  /\ \A b \in Bufs : B[b].blk = k /\ B[b].valid => x = B[b].data
             /\ (\A b \in Bufs : ~(B[b].blk = k /\ B[b].valid)) => x = D[k]
PROOF
<1>. DEFINE S == {b \in Bufs : B[b].blk = k}
            x == IF \E b \in S : B[b].valid THEN B[CHOOSE b \in S : B[b].valid].data ELSE D[k]
<1>1. ASSUME NEW b \in Bufs, B[b].blk = k, B[b].valid PROVE x = B[b].data
  <2>1. \A c \in S : c = b
    BY <1>1
  <2>2. b \in S
    BY <1>1
  <2>3. (CHOOSE c \in S : B[c].valid) \in S
    <3>. HIDE DEF S
    <3>. QED
      BY <1>1, <2>2
  <2>. HIDE DEF S
  <2>4. (CHOOSE c \in S : B[c].valid) = b
    BY <2>1, <2>3
  <2>5. \E c \in S : B[c].valid
    BY <1>1, <2>2
  <2>6. x = B[CHOOSE c \in S : B[c].valid].data
    BY <2>5, Zenon
  <2>. QED
    BY <2>4, <2>6, Zenon
<1>2. ASSUME \A b \in Bufs : ~(B[b].blk = k /\ B[b].valid) PROVE x = D[k]
  BY <1>2
<1>. QED
  BY <1>1, <1>2

\* Content in the current state.
LEMMA ContentIs ==
  ASSUME CacheInv, NEW k \in Blocks
  PROVE  /\ \A b : HasValid(k, b) => Content(k) = buf[b].data
         /\ (\A b : ~HasValid(k, b)) => Content(k) = disk[k]
PROOF
<1>1. \A b, c \in Bufs : buf[b].blk = k /\ buf[c].blk = k => b = c
  BY NoneAssumption DEF CacheInv
<1>. QED
  BY <1>1, OneValid, Zenon DEF Content, Cached, HasValid

\* Content in the next state.
LEMMA ContentIsNext ==
  ASSUME CacheInv', NEW k \in Blocks
  PROVE  /\ \A b : HasValid(k, b)' => Content(k)' = buf'[b].data
         /\ (\A b : ~HasValid(k, b)') => Content(k)' = disk'[k]
PROOF
<1>1. \A b, c \in Bufs : buf'[b].blk = k /\ buf'[c].blk = k => b = c
  BY NoneAssumption DEF CacheInv
<1>. QED
  BY <1>1, OneValid, Zenon DEF Content, Cached, HasValid

\* The contents do not change when blocks, valid bits, data and the disk do not.
LEMMA ContentKept ==
  ASSUME CacheInv, CacheInv', disk' = disk,
         \A b \in Bufs : buf'[b].blk = buf[b].blk /\ (buf'[b].valid <=> buf[b].valid) /\ buf'[b].data = buf[b].data,
         NEW k \in Blocks
  PROVE  Content(k)' = Content(k)
PROOF
<1>1. \A b : HasValid(k, b)' <=> HasValid(k, b)
  BY DEF HasValid
<1>3. CASE \E b : HasValid(k, b)
  <2>1. PICK b : HasValid(k, b)
    BY <1>3
  <2>2. Content(k) = buf[b].data
    BY <2>1, ContentIs, Zenon
  <2>3. Content(k)' = buf'[b].data
    BY <1>1, <2>1, ContentIsNext, Zenon
  <2>. QED
    BY <2>1, <2>2, <2>3 DEF HasValid
<1>4. CASE \A b : ~HasValid(k, b)
  <2>1. Content(k) = disk[k]
    BY <1>4, ContentIs, Zenon
  <2>2. Content(k)' = disk'[k]
    BY <1>1, <1>4, ContentIsNext, Zenon
  <2>. QED
    BY <2>1, <2>2
<1>. QED
  BY <1>3, <1>4

\* What the store shows of a process is the same before and after.
SameFor(q) ==
    /\ InUse(q)' <=> InUse(q)
    /\ InUse(q) => want'[q] = want[q] /\ buf'[mine'[q]].data = buf[mine[q]].data

\* A step outside the driver shows nothing of another process.
LEMMA OthersKept ==
  ASSUME BcIInv, ~panic, NEW p \in Uses, Quiet(p), NEW q \in Uses, q # p, want'[q] = want[q]
  PROVE  SameFor(q)
PROOF
<1>1. pc'[q] = pc[q] /\ mine'[q] = mine[q]
  BY DEF Quiet
<1>2. pc[q] \in Locked => mine[q] \in Bufs /\ buf[mine[q]].lock = q
  BY UserFacts DEF Locked
<1>3. pc[q] \in Locked => buf'[mine[q]].valid = buf[mine[q]].valid /\ buf'[mine[q]].data = buf[mine[q]].data
  BY <1>2 DEF Quiet
<1>4. InUse(q) => pc[q] \in Locked
  BY DEF InUse, Locked
<1>. QED
  BY <1>1, <1>3, <1>4 DEF SameFor, InUse, Locked

\* When no content and no process shows a change, the store stutters.
LEMMA StoreStutters ==
  ASSUME \A k \in Blocks : Content(k)' = Content(k), \A q \in Uses : SameFor(q)
  PROVE  UNCHANGED Store!storeVars
PROOF
<1>1. [k \in Blocks |-> Content(k)]' = [k \in Blocks |-> Content(k)]
  BY Zenon
<1>2. [q \in Uses |-> IF InUse(q) THEN want[q] ELSE None]' = [q \in Uses |-> IF InUse(q) THEN want[q] ELSE None]
  BY DEF SameFor
<1>3. [q \in Uses |-> IF InUse(q) THEN buf[mine[q]].data ELSE None]'
        = [q \in Uses |-> IF InUse(q) THEN buf[mine[q]].data ELSE None]
  BY DEF SameFor
<1>. QED
  BY <1>1, <1>2, <1>3 DEF Store!storeVars

\* A process that comes to use a buffer locks its block in the store.
LEMMA StoreLocks ==
  ASSUME BcIInv, ~panic, NEW p \in Uses, pc[p] # "idle",
         ~InUse(p), InUse(p)', want'[p] = want[p],
         buf'[mine'[p]].data = Content(want[p]),
         \A q \in Uses : q # p => buf[mine[p]].lock # q,
         \A k \in Blocks : Content(k)' = Content(k),
         \A q \in Uses : q # p => SameFor(q)
  PROVE  Store!StoreNext
PROOF
<1>. DEFINE C == [k \in Blocks |-> Content(k)]
            H == [q \in Uses |-> IF InUse(q) THEN want[q] ELSE None]
            V == [q \in Uses |-> IF InUse(q) THEN buf[mine[q]].data ELSE None]
<1>1. want[p] \in Blocks /\ mine[p] \in Bufs /\ buf[mine[p]].blk = want[p]
  BY UserFacts
<1>2. C' = C
  BY Zenon
<1>3. H[p] = None
  OBVIOUS
<1>4. ASSUME NEW q \in Uses PROVE H[q] # want[p]
  <2>1. CASE ~InUse(q)
    BY <1>1, <2>1, NoneAssumption
  <2>2. CASE InUse(q)
    <3>1. q # p /\ pc[q] \in Locked
      BY <2>2 DEF InUse, Locked
    <3>2. mine[q] \in Bufs /\ buf[mine[q]].blk = want[q] /\ buf[mine[q]].lock = q
      BY <3>1, UserFacts DEF Locked
    <3>3. mine[q] # mine[p]
      BY <3>1, <3>2
    <3>4. want[q] # want[p]
      BY <1>1, <3>2, <3>3, NoneAssumption DEF BcIInv, CacheInv
    <3>. QED
      BY <2>2, <3>4
  <2>. QED
    BY <2>1, <2>2
<1>5. H' = [H EXCEPT ![p] = want[p]]
  <2>1. H'[p] = want[p]
    OBVIOUS
  <2>2. \A q \in Uses : q # p => H'[q] = H[q]
    BY DEF SameFor
  <2>3. H' = [q \in Uses |-> H'[q]] /\ H = [q \in Uses |-> H[q]]
    BY Zenon
  <2>. HIDE DEF H, C
  <2>. QED
    BY <2>1, <2>2, <2>3
<1>6. V' = [V EXCEPT ![p] = C[want[p]]]
  <2>1. V'[p] = C[want[p]]
    BY <1>1
  <2>2. \A q \in Uses : q # p => V'[q] = V[q]
    BY DEF SameFor
  <2>3. V' = [q \in Uses |-> V'[q]] /\ V = [q \in Uses |-> V[q]]
    BY Zenon
  <2>. HIDE DEF V, C
  <2>. QED
    BY <2>1, <2>2, <2>3
<1>. HIDE DEF C, H, V
<1>8. PICK k \in Blocks : k = want[p]
  BY <1>1
<1>7. Store!Lock(p, k)
  BY <1>2, <1>3, <1>4, <1>5, <1>6, <1>8, Zenon DEF Store!Lock, C, H, V
<1>. QED
  BY <1>7, Zenon DEF Store!StoreNext

\* A caller that changes its buffer changes its block in the store.
LEMMA StoreChanges ==
  ASSUME BcIInv, BcIInv', ~panic, NEW p \in Uses, NEW v \in Vals, Modify(p, v)
  PROVE  Store!StoreNext
PROOF
<1>. DEFINE C == [k \in Blocks |-> Content(k)]
            H == [q \in Uses |-> IF InUse(q) THEN want[q] ELSE None]
            V == [q \in Uses |-> IF InUse(q) THEN buf[mine[q]].data ELSE None]
            b == mine[p]
<1>1. /\ pc[p] \in {"have", "changed"} /\ pc' = [pc EXCEPT ![p] = "changed"]
      /\ UNCHANGED <<disk, mine, want>>
  BY DEF Modify
<1>2. /\ b \in Bufs /\ buf'[b].blk = buf[b].blk /\ buf'[b].valid = buf[b].valid /\ buf'[b].data = v
      /\ \A c \in Bufs : c # b => buf'[c] = buf[c]
  BY ModifyStep, Zenon
<1>3. want[p] \in Blocks /\ buf[b].blk = want[p] /\ buf[b].valid
  BY <1>1, UserFacts DEF BcIInv, UserInv
<1>4. InUse(p) /\ InUse(p)'
  <2>1. pc'[p] = "changed"
    BY <1>1 DEF BcIInv, BcTypeOK
  <2>. QED
    BY <1>1, <2>1 DEF InUse
<1>5. ASSUME NEW q \in Uses, q # p PROVE SameFor(q)
  BY <1>1, <1>5, OthersKept, QuietSteps, SMTT(30)
<1>6. C'[want[p]] = v
  <2>2. PICK k \in Blocks : k = want[p] /\ k = want'[p]
    BY <1>1, <1>3
  <2>3. PICK c \in Bufs : c = b /\ c = b'
    BY <1>1, <1>2
  <2>4. HasValid(k, c)'
    BY <1>2, <1>3, <2>2, <2>3, Zenon DEF HasValid
  <2>5. Content(k)' = buf'[c].data
    BY <2>4, ContentIsNext, Zenon DEF BcIInv
  <2>. QED
    BY <1>2, <2>2, <2>3, <2>5
<1>7. ASSUME NEW k \in Blocks, k # want[p] PROVE Content(k)' = Content(k)
  <2>1. \A c : HasValid(k, c)' <=> HasValid(k, c)
    BY <1>2, <1>3, <1>7 DEF HasValid
  <2>2. \A c : HasValid(k, c) => c # b /\ c \in Bufs
    BY <1>3, <1>7 DEF HasValid
  <2>3. CASE \E c : HasValid(k, c)
    <3>1. PICK c : HasValid(k, c)
      BY <2>3
    <3>2. Content(k) = buf[c].data
      BY <3>1, ContentIs, Zenon DEF BcIInv
    <3>3. Content(k)' = buf'[c].data
      BY <2>1, <3>1, ContentIsNext, Zenon DEF BcIInv
    <3>. QED
      BY <1>2, <2>2, <3>1, <3>2, <3>3
  <2>4. CASE \A c : ~HasValid(k, c)
    <3>1. Content(k) = disk[k]
      BY <2>4, ContentIs, Zenon DEF BcIInv
    <3>2. Content(k)' = disk'[k]
      BY <2>1, <2>4, ContentIsNext, Zenon DEF BcIInv
    <3>. QED
      BY <1>1, <3>1, <3>2
  <2>. QED
    BY <2>3, <2>4
<1>8. C' = [C EXCEPT ![want[p]] = v]
  <2>1. \A k \in Blocks : k # want[p] => C'[k] = C[k]
    BY <1>7
  <2>2. C' = [k \in Blocks |-> C'[k]] /\ C = [k \in Blocks |-> C[k]]
    BY Zenon
  <2>. HIDE DEF C
  <2>. QED
    BY <1>3, <1>6, <2>1, <2>2
<1>9. H' = H
  BY <1>1, <1>4, <1>5 DEF SameFor
<1>10. V' = [V EXCEPT ![p] = v]
  <2>1. V'[p] = v
    BY <1>1, <1>2, <1>4
  <2>2. \A q \in Uses : q # p => V'[q] = V[q]
    BY <1>5 DEF SameFor
  <2>3. V' = [q \in Uses |-> V'[q]] /\ V = [q \in Uses |-> V[q]]
    BY Zenon
  <2>. HIDE DEF V
  <2>. QED
    BY <2>1, <2>2, <2>3, SMTT(30)
<1>11. H[p] = want[p] /\ H[p] # None
  BY <1>3, <1>4, NoneAssumption
<1>. HIDE DEF C, H, V
<1>12. Store!Change(p, v)
  <2>1. C' = [C EXCEPT ![H[p]] = v]
    BY <1>8, <1>11
  <2>. QED
    BY <1>9, <1>10, <1>11, <2>1, Zenon DEF Store!Change, C, H, V
<1>. QED
  BY <1>12, Zenon DEF Store!StoreNext

\* brelse unlocks the block in the store.
LEMMA StoreUnlocks ==
  ASSUME BcIInv, BcIInv', ~panic, NEW p \in Uses, BrelseUnlock(p)
  PROVE  Store!StoreNext
PROOF
<1>. DEFINE C == [k \in Blocks |-> Content(k)]
            H == [q \in Uses |-> IF InUse(q) THEN want[q] ELSE None]
            V == [q \in Uses |-> IF InUse(q) THEN buf[mine[q]].data ELSE None]
            b == mine[p]
<1>1. pc[p] = "have" /\ pc' = [pc EXCEPT ![p] = "put"] /\ UNCHANGED <<disk, mine, want>>
  BY DEF BrelseUnlock, Goto
<1>2. \A c \in Bufs : buf'[c].blk = buf[c].blk /\ buf'[c].valid = buf[c].valid /\ buf'[c].data = buf[c].data
  BY BrelseUnlockStep, Zenon
<1>3. C' = C
  <2>1. \A k \in Blocks : Content(k)' = Content(k)
    BY <1>1, <1>2, ContentKept DEF BcIInv
  <2>. QED
    BY <2>1, Zenon
<1>4. InUse(p) /\ ~InUse(p)'
  <2>1. pc'[p] = "put"
    BY <1>1 DEF BcIInv, BcTypeOK
  <2>. QED
    BY <1>1, <2>1, SMTT(30) DEF InUse
<1>5. ASSUME NEW q \in Uses, q # p PROVE SameFor(q)
  BY <1>1, <1>5, OthersKept, QuietSteps
<1>6. H[p] # None
  BY <1>1, <1>4, UserFacts, NoneAssumption
<1>7. H' = [H EXCEPT ![p] = None]
  <2>1. H'[p] = None
    BY <1>4
  <2>2. \A q \in Uses : q # p => H'[q] = H[q]
    BY <1>5 DEF SameFor
  <2>3. H' = [q \in Uses |-> H'[q]] /\ H = [q \in Uses |-> H[q]]
    BY Zenon
  <2>. HIDE DEF H
  <2>. QED
    BY <2>1, <2>2, <2>3
<1>8. V' = [V EXCEPT ![p] = None]
  <2>1. V'[p] = None
    BY <1>4
  <2>2. \A q \in Uses : q # p => V'[q] = V[q]
    BY <1>5 DEF SameFor
  <2>3. V' = [q \in Uses |-> V'[q]] /\ V = [q \in Uses |-> V[q]]
    BY Zenon
  <2>. HIDE DEF V
  <2>. QED
    BY <2>1, <2>2, <2>3
<1>. HIDE DEF C, H, V
<1>9. Store!Unlock(p)
  BY <1>3, <1>6, <1>7, <1>8, Zenon DEF Store!Unlock, C, H, V
<1>. QED
  BY <1>9, Zenon DEF Store!StoreNext

\* Every step of the cache, the driver and the disk is a step of the store or
\* shows nothing.
LEMMA NextStore ==
  ASSUME BcIInv, BcIInv', Next
  PROVE  Store!StoreNext \/ UNCHANGED Store!storeVars
PROOF
<1>0. UserInv /\ CacheInv /\ CacheInv' /\ QueueInv /\ ControllerInv /\ DataInv /\ ~panic
  BY DEF BcIInv, Next
<1>t. pc \in [Uses -> PCs] /\ want \in [Uses -> Blocks \cup {None}]
  BY DEF BcIInv, BcTypeOK
<1>1. ASSUME DiskDone, UNCHANGED <<want, lru>> PROVE UNCHANGED Store!storeVars
  <2>1. UNCHANGED <<buf, pc, mine, want>> /\ ctl # None
    BY <1>1 DEF DiskDone
  <2>2. \A q \in Uses : SameFor(q)
    BY <2>1 DEF SameFor, InUse
  <2>3. ASSUME NEW k \in Blocks PROVE Content(k)' = Content(k)
    <3>1. CASE disk'[k] = disk[k]
      <4>1. \A b : HasValid(k, b)' <=> HasValid(k, b)
        BY <2>1 DEF HasValid
      <4>. QED
        BY <1>0, <2>1, <3>1, <4>1, ContentIs, ContentIsNext, SMTT(30)
    <3>2. CASE disk'[k] # disk[k]
      <4>. DEFINE b == idequeue[1]
      <4>1. ctl.write /\ ctl.blk = k
        BY <1>1, <3>2 DEF DiskDone, BcIInv, BcTypeOK
      <4>2. idequeue # <<>> /\ BcTypeOK
        BY <1>0, <2>1 DEF BcIInv, ControllerInv
      <4>3. buf[b].blk = k /\ buf[b].dirty
        BY <1>0, <2>1, <4>1, Zenon DEF ControllerInv
      <4>4. b \in Bufs
        BY <4>2, HeadFacts
      <4>5. PICK c \in Bufs : c = b
        BY <4>4
      <4>6. HasValid(k, c) /\ HasValid(k, c)'
        BY <1>0, <2>1, <4>3, <4>5 DEF CacheInv, HasValid
      <4>7. Content(k) = buf[c].data /\ Content(k)' = buf'[c].data
        BY <1>0, <4>6, ContentIs, ContentIsNext, Zenon
      <4>. QED
        BY <2>1, <4>7
    <3>. QED
      BY <3>1, <3>2
  <2>. QED
    BY <2>2, <2>3, StoreStutters, Zenon
<1>2. ASSUME IdeIntr, UNCHANGED <<want, lru>> PROVE Store!StoreNext \/ UNCHANGED Store!storeVars
  <2>0. PICK b \in Bufs : b = idequeue[1]
    BY <1>0, <1>2, IdeIntrStep, Zenon
  <2>1. /\ buf'[b].blk = buf[b].blk /\ buf'[b].valid /\ buf'[b].lock = buf[b].lock
        /\ (buf[b].dirty => buf'[b].data = buf[b].data)
        /\ (~buf[b].dirty => buf'[b].data = ctl.data)
        /\ ctl # None /\ irq
        /\ \A c \in Bufs : c # b => buf'[c] = buf[c]
    BY <1>0, <1>2, <2>0, IdeIntrStep, ZenonT(40)
  <2>2. /\ \A q \in Uses : pc'[q] = IF pc[q] = "asleep" /\ mine[q] = b THEN "wait" ELSE pc[q]
        /\ mine' = mine /\ want' = want /\ disk' = disk /\ idequeue # <<>>
    <3>1. idequeue # <<>> /\ Head(idequeue) = b
      BY <1>0, <1>2, <2>0, IdeIntrStep, Zenon DEF IdeIntr
    <3>. QED
      BY <1>2, <3>1 DEF IdeIntr
  <2>3. PICK p \in Uses : buf[b].lock = p /\ pc[p] \in Waiting /\ ~Synced(b)
    <3>1. BcTypeOK /\ QueueInv
      BY <1>0 DEF BcIInv
    <3>2. 1 \in 1 .. Len(idequeue)
      BY <2>2, <3>1, HeadFacts, Zenon
    <3>. QED
      BY <2>0, <3>1, <3>2, Zenon DEF QueueInv
  <2>4. mine[p] = b /\ want[p] \in Blocks /\ buf[b].blk = want[p]
    BY <1>0, <2>3, UserFacts, SMTT(30) DEF UserInv, Waiting
  <2>5. ASSUME NEW q \in Uses, q # p PROVE SameFor(q)
    <3>1. mine[q] = b => pc[q] \notin Locked
      BY <1>0, <2>3, <2>5, SMTT(30) DEF UserInv
    <3>2. pc[q] \in Locked => mine[q] \in Bufs
      BY <1>0, UserFacts DEF Locked
    <3>. QED
      BY <2>1, <2>2, <3>1, <3>2, SMTT(30) DEF SameFor, InUse, Locked
  <2>6. CASE buf[b].valid
    <3>1. buf[b].dirty
      BY <2>3, <2>6, SMTT(30) DEF Synced
    <3>2. SameFor(p)
      <4>1. pc'[p] \in Waiting /\ mine'[p] = b /\ want'[p] = want[p] /\ buf'[b].data = buf[b].data
        BY <2>1, <2>2, <2>3, <2>4, <3>1, SMTT(30) DEF Waiting
      <4>2. InUse(p) /\ InUse(p)'
        BY <2>1, <2>3, <2>4, <2>6, <4>1, SMTT(30) DEF InUse, Waiting
      <4>. QED
        BY <2>4, <4>1, <4>2, SMTT(30) DEF SameFor
    <3>3. \A k \in Blocks : Content(k)' = Content(k)
      <4>1. \A c \in Bufs :
              buf'[c].blk = buf[c].blk /\ (buf'[c].valid <=> buf[c].valid) /\ buf'[c].data = buf[c].data
        BY <2>1, <2>6, <3>1, SMTT(30)
      <4>. QED
        BY <1>0, <2>2, <4>1, ContentKept, SMTT(30)
    <3>. QED
      BY <2>5, <3>2, <3>3, StoreStutters, SMTT(30)
  <2>7. CASE ~buf[b].valid
    <3>1. ~buf[b].dirty
      BY <1>0, <2>7, SMTT(30) DEF CacheInv
    <3>2. buf'[b].data = disk[buf[b].blk]
      BY <1>0, <2>0, <2>1, <3>1, SMTT(30) DEF ControllerInv
    <3>3. ASSUME NEW k \in Blocks, k # want[p] PROVE Content(k)' = Content(k)
      <4>1. \A c : HasValid(k, c)' <=> HasValid(k, c)
        BY <2>1, <2>4, <3>3, SMTT(30) DEF HasValid
      <4>2. \A c : HasValid(k, c) => buf'[c] = buf[c]
        BY <2>1, <2>4, <3>3, SMTT(30) DEF HasValid
      <4>. QED
        BY <1>0, <2>2, <4>1, <4>2, ContentIs, ContentIsNext, SMTT(30)
    <3>4. ASSUME NEW k \in Blocks, k = want[p]
          PROVE  Content(k) = disk[k] /\ Content(k)' = disk[k]
      <4>1. \A c : ~HasValid(k, c)
        BY <1>0, <2>4, <2>7, <3>4, NoneAssumption, SMTT(30) DEF HasValid, CacheInv
      <4>2. HasValid(k, b)'
        BY <2>1, <2>4, <3>4 DEF HasValid
      <4>3. Content(k)' = buf'[b].data
        BY <1>0, <4>2, ContentIsNext, Zenon
      <4>4. Content(k) = disk[k]
        BY <1>0, <4>1, ContentIs, Zenon
      <4>. QED
        BY <2>4, <3>2, <3>4, <4>3, <4>4, SMTT(30)
    <3>5. \A k \in Blocks : Content(k)' = Content(k)
      BY <3>3, <3>4
    <3>6. buf'[mine'[p]].data = Content(want[p])
      <4>1. PICK k \in Blocks : k = want[p]
        BY <2>4
      <4>. QED
        BY <2>2, <2>4, <3>2, <3>4, <4>1, SMTT(30)
    <3>7. ~InUse(p) /\ InUse(p)'
      BY <2>1, <2>2, <2>3, <2>4, <2>7, SMTT(30) DEF InUse, Waiting
    <3>. QED
      BY <1>0, <2>2, <2>3, <2>4, <2>5, <3>5, <3>6, <3>7, StoreLocks, SMTT(30) DEF Waiting
  <2>. QED
    BY <2>6, <2>7
<1>3. ASSUME NEW p \in Uses, Drive(p) PROVE UNCHANGED Store!storeVars
  <2>1. UNCHANGED <<disk, buf, mine, want>>
    BY <1>3 DEF Drive, Iderw, IderwSleep, IderwDone, Roused
  <2>2. /\ pc[p] \in {"iderw", "wait", "asleep"}
        /\ \/ \E c \in {"iderw", "wait", "asleep"} : pc' = [pc EXCEPT ![p] = c]
           \/ pc' = [pc EXCEPT ![p] = "have"] /\ Synced(mine[p])
           \/ pc' = pc
    BY <1>3 DEF Drive, Iderw, IderwSleep, IderwDone, Roused, Goto
  <2>3. /\ \A q \in Uses : q # p => pc'[q] = pc[q]
        /\ pc'[p] \in {"iderw", "wait", "asleep"} \/ (pc'[p] = "have" /\ Synced(mine[p]))
    BY <1>t, <2>2, SMTT(30)
  <2>4. \A q \in Uses : SameFor(q)
    BY <2>1, <2>2, <2>3 DEF SameFor, InUse, Synced
  <2>5. \A k \in Blocks : Content(k)' = Content(k)
    BY <1>0, <2>1, ContentKept
  <2>. QED
    BY <2>4, <2>5, StoreStutters, Zenon
<1>4. ASSUME NEW p \in Uses, NEW k \in Blocks, Bget(p, k) PROVE UNCHANGED Store!storeVars
  <2>1. pc[p] = "idle" /\ pc'[p] = "lock" /\ disk' = disk /\ \A q \in Uses : q # p => want'[q] = want[q]
    BY <1>4, <1>t, SMTT(30) DEF Bget, Goto
  <2>2. \A q \in Uses : q # p => SameFor(q)
    BY <1>0, <1>4, <2>1, OthersKept, QuietSteps, SMTT(30)
  <2>3. SameFor(p)
    BY <2>1 DEF SameFor, InUse
  <2>4. ASSUME NEW j \in Blocks PROVE Content(j)' = Content(j)
    <3>1. CASE Miss(p, k)
      <4>1. PICK b \in Bufs :
               /\ buf[b].ref = 0 /\ ~buf[b].dirty
               /\ \A c \in Bufs : buf[c].blk # k
               /\ ~buf'[b].valid
               /\ \A c \in Bufs : c # b => buf'[c] = buf[c]
        BY <3>1, Zenon DEF Miss
      <4>2. buf[b].lock = None
        BY <4>1, NoUser, SMTT(30)
      <4>3. CASE HasValid(j, b)
        <5>1. buf[b].data = disk[j]
          BY <1>0, <4>1, <4>2, <4>3, NoneAssumption, SMTT(30) DEF DataInv, HasValid
        <5>2. \A c : ~HasValid(j, c)'
          BY <1>0, <4>1, <4>3, NoneAssumption DEF HasValid, CacheInv
        <5>3. Content(j)' = disk'[j]
          BY <1>0, <5>2, ContentIsNext, Zenon
        <5>4. Content(j) = buf[b].data
          BY <1>0, <4>3, ContentIs, Zenon
        <5>. QED
          BY <2>1, <5>1, <5>3, <5>4, SMTT(30)
      <4>4. CASE ~HasValid(j, b)
        <5>1. \A c : HasValid(j, c)' <=> HasValid(j, c)
          BY <4>1, <4>4 DEF HasValid
        <5>2. \A c : HasValid(j, c) => buf'[c] = buf[c]
          BY <4>1, <4>4, SMTT(30) DEF HasValid
        <5>. QED
          BY <1>0, <2>1, <5>1, <5>2, ContentIs, ContentIsNext, SMTT(30)
      <4>. QED
        BY <4>3, <4>4
    <3>2. CASE Hit(p, k) \/ UNCHANGED <<buf, mine>>
      <4>1. \A c \in Bufs : buf'[c].blk = buf[c].blk /\ buf'[c].valid = buf[c].valid /\ buf'[c].data = buf[c].data
        BY <3>2, Zenon DEF Hit
      <4>. QED
        BY <1>0, <2>1, <4>1, ContentKept
    <3>. QED
      BY <1>0, <1>4, <3>1, <3>2, BgetStep, Zenon
  <2>. QED
    BY <2>2, <2>3, <2>4, StoreStutters
<1>5. ASSUME NEW p \in Uses, BreadLocked(p) PROVE Store!StoreNext \/ UNCHANGED Store!storeVars
  <2>0. PICK b \in Bufs : b = mine[p]
    BY <1>0, <1>5, BreadLockedStep, Zenon
  <2>1. /\ pc[p] = "lock" /\ buf[b].lock = None /\ UNCHANGED <<disk, mine, want>>
        /\ pc'[p] = IF buf[b].valid THEN "have" ELSE "iderw"
    BY <1>5, <1>t, <2>0, SMTT(30) DEF BreadLocked, Goto
  <2>2. \A c \in Bufs : buf'[c].blk = buf[c].blk /\ buf'[c].valid = buf[c].valid /\ buf'[c].data = buf[c].data
    BY <1>0, <1>5, BreadLockedStep, ZenonT(40)
  <2>3. \A q \in Uses : q # p => SameFor(q)
    BY <1>0, <1>5, <2>1, OthersKept, QuietSteps, SMTT(30)
  <2>4. \A k \in Blocks : Content(k)' = Content(k)
    BY <1>0, <2>1, <2>2, ContentKept, SMTT(30)
  <2>5. want[p] \in Blocks /\ buf[b].blk = want[p]
    BY <1>0, <2>0, <2>1, UserFacts, SMTT(30)
  <2>6. CASE buf[b].valid
    <3>1. ~InUse(p) /\ InUse(p)'
      BY <2>1, <2>6, SMTT(30) DEF InUse
    <3>2. PICK k \in Blocks : k = want[p]
      BY <2>5
    <3>3. HasValid(k, b)
      BY <2>5, <2>6, <3>2, SMTT(30) DEF HasValid
    <3>4. Content(k) = buf[b].data
      BY <1>0, <3>3, ContentIs, Zenon
    <3>5. buf'[mine'[p]].data = Content(want[p])
      BY <2>0, <2>1, <2>2, <3>2, <3>4, SMTT(30)
    <3>. QED
      BY <1>0, <2>0, <2>1, <2>3, <2>4, <3>1, <3>5, StoreLocks, NoneAssumption, SMTT(30)
  <2>7. CASE ~buf[b].valid
    <3>1. SameFor(p)
      BY <2>0, <2>1, <2>2, <2>7 DEF SameFor, InUse
    <3>. QED
      BY <2>3, <2>4, <3>1, StoreStutters, SMTT(30)
  <2>. QED
    BY <2>6, <2>7
<1>6. ASSUME NEW p \in Uses, LogWrite(p) \/ Bwrite(p) PROVE UNCHANGED Store!storeVars
  <2>1. /\ pc[p] \in {"have", "changed"} /\ pc'[p] \in {"have", "iderw"} /\ UNCHANGED <<disk, mine, want>>
    BY <1>6, <1>t DEF LogWrite, Bwrite, Goto
  <2>2. \A c \in Bufs : buf'[c].blk = buf[c].blk /\ buf'[c].valid = buf[c].valid /\ buf'[c].data = buf[c].data
    BY <1>0, <1>6, LogWriteStep, BwriteStep, ZenonT(40)
  <2>0. Quiet(p)
    BY <1>0, <1>6, QuietSteps, Zenon
  <2>3. \A q \in Uses : q # p => SameFor(q)
    BY <1>0, <2>0, <2>1, OthersKept, Zenon
  <2>4. \A k \in Blocks : Content(k)' = Content(k)
    BY <1>0, <2>1, <2>2, ContentKept, Zenon
  <2>5. mine[p] \in Bufs /\ buf[mine[p]].valid
    <3>1. pc[p] \in Locked
      BY <2>1 DEF Locked
    <3>2. mine[p] \in Bufs
      BY <1>0, <3>1, LockFacts, Zenon
    <3>3. buf[mine[p]].valid
      BY <1>0, <2>1, Zenon DEF UserInv
    <3>. QED
      BY <3>2, <3>3
  <2>6. SameFor(p)
    <3>1. /\ buf'[mine[p]].blk = buf[mine[p]].blk /\ buf'[mine[p]].valid
          /\ buf'[mine[p]].data = buf[mine[p]].data
      BY <2>2, <2>5, Zenon
    <3>. QED
      BY <2>1, <2>5, <3>1 DEF SameFor, InUse
  <2>. QED
    BY <2>3, <2>4, <2>6, StoreStutters, Zenon
<1>7. ASSUME NEW p \in Uses, BrelsePut(p) PROVE UNCHANGED Store!storeVars
  <2>1. /\ pc[p] = "put" /\ pc'[p] = "idle" /\ disk' = disk /\ \A q \in Uses : q # p => want'[q] = want[q]
    BY <1>7, <1>t DEF BrelsePut, Goto
  <2>2. \A c \in Bufs : buf'[c].blk = buf[c].blk /\ buf'[c].valid = buf[c].valid /\ buf'[c].data = buf[c].data
    BY <1>0, <1>7, BrelsePutStep, Zenon
  <2>0. Quiet(p)
    BY <1>0, <1>7, QuietSteps, Zenon
  <2>3. \A q \in Uses : q # p => SameFor(q)
    BY <1>0, <2>0, <2>1, OthersKept, Zenon
  <2>4. \A k \in Blocks : Content(k)' = Content(k)
    BY <1>0, <2>1, <2>2, ContentKept, Zenon
  <2>5. SameFor(p)
    BY <2>1 DEF SameFor, InUse
  <2>. QED
    BY <2>3, <2>4, <2>5, StoreStutters, Zenon
<1>. QED
  BY <1>0, <1>1, <1>2, <1>3, <1>4, <1>5, <1>6, <1>7, StoreChanges, StoreUnlocks, SMTT(30) DEF Next, Hardware, Step

\* Seen through bread, bwrite, log_write and brelse the cache, the driver and
\* the disk are a store of blocks that one process at a time reads and changes.
THEOREM BcacheAtomic == Spec => BlocksAreAtomic
PROOF
<1>1. Init => Store!StoreInit
  <2>. SUFFICES ASSUME Init PROVE Store!StoreInit
    OBVIOUS
  <2>1. (CHOOSE v \in Vals : TRUE) \in Vals
    BY SizesAssumption
  <2>2. \A k \in Blocks : Content(k) \in Vals
    <3>. SUFFICES ASSUME NEW k \in Blocks PROVE Content(k) \in Vals
      OBVIOUS
    <3>1. disk[k] \in Vals
      BY <2>1 DEF Init
    <3>2. Cached(k) = {}
      BY NoneAssumption DEF Init, Cached
    <3>. QED
      BY <3>1, <3>2 DEF Content
  <2>3. \A p \in Uses : ~InUse(p)
    BY DEF Init, InUse
  <2>. QED
    BY <2>2, <2>3 DEF Store!StoreInit
<1>2. BcIInv /\ BcIInv' /\ [Next]_vars => [Store!StoreNext]_(Store!storeVars)
  <2>1. ASSUME UNCHANGED vars PROVE UNCHANGED Store!storeVars
    BY <2>1 DEF vars, ideVars, Store!storeVars, Content, Cached, InUse
  <2>. QED
    BY <2>1, NextStore, SMTT(30)
<1>. QED
  BY <1>1, <1>2, BcacheInductive, PTL DEF Spec, BlocksAreAtomic, Store!StoreSpec
=============================================================================
