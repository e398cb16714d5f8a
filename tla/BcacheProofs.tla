---------------------------- MODULE BcacheProofs ----------------------------
(***************************************************************************)
(* Proofs about the buffer cache and the disk driver, for any number of    *)
(* processes, blocks, values and buffers.  The inductive invariant says    *)
(* who has a buffer and in which place of the code (UserInv), what is in   *)
(* the driver's queue (QueueInv), what the controller was told and has     *)
(* done (ControllerInv), and when a buffer agrees with the disk (DataInv). *)
(***************************************************************************)
EXTENDS Bcache, FiniteSetTheorems, WellFoundedInduction, TLAPS

\* The places of the code at which a process has its buffer's sleep lock, and
\* the ones inside iderw's wait.
Locked == {"have", "changed", "iderw", "wait", "asleep"}
Waiting == {"wait", "asleep"}
PCs == Locked \cup {"idle", "lock", "put"}

BufRecords == [blk : Blocks \cup {None}, valid : BOOLEAN, dirty : BOOLEAN, ref : Int,
               lock : Uses \cup {None}, data : Vals]

\* The types, and that the list of buffers has them all.
BcTypeOK ==
    /\ disk \in [Blocks -> Vals]
    /\ buf \in [Bufs -> BufRecords]
    /\ idequeue \in Seq(Bufs)
    /\ ctl \in Requests \cup {None}
    /\ irq \in BOOLEAN
    /\ pc \in [Uses -> PCs]
    /\ mine \in [Uses -> Bufs \cup {None}]
    /\ want \in [Uses -> Blocks \cup {None}]
    /\ lru \in [Bufs -> Bufs]
    /\ \A b \in Bufs : \E i \in Bufs : lru[i] = b
    /\ panic \in BOOLEAN

\* The buffer of a process: it caches the block asked for, is locked by the
\* process in the places of Locked and by nobody else, and is valid for its
\* user.  Only a bget that found no buffer leaves its caller without one.
UserInv ==
    /\ \A p \in Uses :
          /\ pc[p] = "idle" => mine[p] = None /\ want[p] = None
          /\ pc[p] # "idle" =>
                /\ want[p] \in Blocks
                /\ mine[p] = None => panic /\ pc[p] = "lock"
                /\ mine[p] # None => buf[mine[p]].blk = want[p]
          /\ pc[p] \in Locked => buf[mine[p]].lock = p
          /\ pc[p] \in {"have", "changed"} => buf[mine[p]].valid
          /\ pc[p] = "iderw" => ~Synced(mine[p])
    /\ \A b \in Bufs : \A p \in Uses :
          buf[b].lock = p => pc[p] \in Locked /\ mine[p] = b

\* The counts, and that a block is cached once.
CacheInv ==
    /\ \A b, c \in Bufs : buf[b].blk = buf[c].blk /\ buf[b].blk # None => b = c
    /\ \A b \in Bufs : buf[b].ref = Cardinality({p \in Uses : mine[p] = b})
    /\ \A b \in Bufs : buf[b].dirty => buf[b].valid
    /\ \A b \in Bufs : buf[b].valid => buf[b].blk # None

\* The driver's queue has every unfinished request once, each of a process
\* that waits for it.
QueueInv ==
    /\ \A i \in 1 .. Len(idequeue) :
          /\ buf[idequeue[i]].lock \in Uses
          /\ pc[buf[idequeue[i]].lock] \in Waiting
          /\ ~Synced(idequeue[i])
    /\ \A i, j \in 1 .. Len(idequeue) : idequeue[i] = idequeue[j] => i = j
    /\ \A p \in Uses : pc[p] \in Waiting =>
          Synced(mine[p]) \/ \E i \in 1 .. Len(idequeue) : idequeue[i] = mine[p]
    /\ \A p \in Uses : pc[p] = "asleep" => ~Synced(mine[p])

\* The controller has the request of the buffer at the head of the queue.
ControllerInv ==
    /\ idequeue = <<>> <=> ctl = None
    /\ ctl = None => ~irq
    /\ ctl # None => LET b == idequeue[1] IN
          /\ ctl.blk = buf[b].blk
          /\ ctl.write = buf[b].dirty
          /\ ctl.write => ctl.data = buf[b].data
          /\ irq => ctl.data = disk[ctl.blk]

\* A valid buffer that is not dirty and that nobody is changing has what the
\* disk has.
DataInv ==
    \A b \in Bufs :
        buf[b].valid /\ ~buf[b].dirty /\ (\A p \in Uses : buf[b].lock = p => pc[p] # "changed")
            => buf[b].data = disk[buf[b].blk]

BcIInv == BcTypeOK /\ UserInv /\ CacheInv /\ QueueInv /\ ControllerInv /\ DataInv

\* The buffers that are dirty and not on their way to the disk are the ones the
\* log has pinned.
Kept ==
    {b \in Bufs : /\ buf[b].dirty
                  /\ \A p \in Uses : buf[b].lock = p => pc[p] \notin {"iderw", "wait", "asleep"}}
KeptInv == Cardinality(Kept) <= MaxPinned

-----------------------------------------------------------------------------
(* Facts the steps share *)

\* Changing the fields of one buffer keeps the type.
LEMMA FieldTypes ==
  ASSUME NEW f \in [Bufs -> BufRecords], NEW b \in Bufs
  PROVE  /\ \A q \in Uses \cup {None} : [f EXCEPT ![b].lock = q] \in [Bufs -> BufRecords]
         /\ \A v \in Vals : [f EXCEPT ![b].data = v] \in [Bufs -> BufRecords]
         /\ \A n \in Int : [f EXCEPT ![b].ref = n] \in [Bufs -> BufRecords]
         /\ [f EXCEPT ![b].dirty = TRUE] \in [Bufs -> BufRecords]
         /\ \A k \in Blocks :
               [f EXCEPT ![b].blk = k, ![b].ref = 1, ![b].valid = FALSE] \in [Bufs -> BufRecords]
         /\ \A v \in Vals :
               [f EXCEPT ![b].valid = TRUE, ![b].dirty = FALSE, ![b].data = v] \in [Bufs -> BufRecords]
PROOF
<1>. USE DEF BufRecords
<1>1. ASSUME NEW q \in Uses \cup {None} PROVE [f EXCEPT ![b].lock = q] \in [Bufs -> BufRecords]
  OBVIOUS
<1>2. ASSUME NEW v \in Vals PROVE [f EXCEPT ![b].data = v] \in [Bufs -> BufRecords]
  OBVIOUS
<1>3. ASSUME NEW n \in Int PROVE [f EXCEPT ![b].ref = n] \in [Bufs -> BufRecords]
  OBVIOUS
<1>4. [f EXCEPT ![b].dirty = TRUE] \in [Bufs -> BufRecords]
  BY ZenonT(60)
<1>5. ASSUME NEW k \in Blocks
      PROVE  [f EXCEPT ![b].blk = k, ![b].ref = 1, ![b].valid = FALSE] \in [Bufs -> BufRecords]
  <2>. DEFINE r == [blk |-> k, valid |-> FALSE, dirty |-> f[b].dirty, ref |-> 1,
                    lock |-> f[b].lock, data |-> f[b].data]
              g == [f EXCEPT ![b].blk = k, ![b].ref = 1, ![b].valid = FALSE]
  <2>1. r \in BufRecords
    OBVIOUS
  <2>2. g[b] = r
    BY ZenonT(120)
  <2>4. \A c \in Bufs : c # b => g[c] = f[c]
    OBVIOUS
  <2>5. g = [c \in Bufs |-> g[c]]
    BY Zenon
  <2>. HIDE DEF r, g, BufRecords
  <2>6. \A c \in Bufs : g[c] \in BufRecords
    BY <2>1, <2>2, <2>4
  <2>3. g \in [Bufs -> BufRecords]
    BY <2>5, <2>6
  <2>. QED
    BY <2>3 DEF g
<1>6. ASSUME NEW v \in Vals
      PROVE  [f EXCEPT ![b].valid = TRUE, ![b].dirty = FALSE, ![b].data = v] \in [Bufs -> BufRecords]
  <2>. DEFINE r == [blk |-> f[b].blk, valid |-> TRUE, dirty |-> FALSE, ref |-> f[b].ref,
                    lock |-> f[b].lock, data |-> v]
              g == [f EXCEPT ![b].valid = TRUE, ![b].dirty = FALSE, ![b].data = v]
  <2>1. r \in BufRecords
    OBVIOUS
  <2>2. g[b] = r
    BY ZenonT(120)
  <2>4. \A c \in Bufs : c # b => g[c] = f[c]
    OBVIOUS
  <2>5. g = [c \in Bufs |-> g[c]]
    BY Zenon
  <2>. HIDE DEF r, g, BufRecords
  <2>6. \A c \in Bufs : g[c] \in BufRecords
    BY <2>1, <2>2, <2>4
  <2>3. g \in [Bufs -> BufRecords]
    BY <2>5, <2>6
  <2>. QED
    BY <2>3 DEF g
<1>. HIDE DEF BufRecords
<1>. QED
  BY <1>1, <1>2, <1>3, <1>4, <1>5, <1>6, Zenon

\* A process that is past bget has its buffer; inside Locked it is the only
\* one that has it locked, and iderw's panics are never reached.
LEMMA UserFacts ==
  ASSUME BcIInv, ~panic, NEW p \in Uses, pc[p] # "idle"
  PROVE  /\ mine[p] \in Bufs /\ want[p] \in Blocks
         /\ buf[mine[p]].blk = want[p]
         /\ pc[p] \in Locked => buf[mine[p]].lock = p
         /\ pc[p] = "iderw" => ~Synced(mine[p])
BY NoneAssumption DEF BcIInv, BcTypeOK, UserInv

\* A process in one of the places of Locked has the lock of its buffer, and of
\* no other.
LEMMA LockFacts ==
  ASSUME BcIInv, ~panic, NEW p \in Uses, pc[p] \in Locked
  PROVE  /\ pc[p] # "idle" /\ mine[p] \in Bufs /\ buf[mine[p]].lock = p
         /\ \A c \in Bufs : c # mine[p] => buf[c].lock # p
PROOF
<1>1. pc[p] # "idle"
  BY DEF Locked
<1>2. mine[p] \in Bufs /\ buf[mine[p]].lock = p
  BY <1>1, UserFacts, Zenon
<1>3. \A c \in Bufs : buf[c].lock = p => mine[p] = c
  BY Zenon DEF BcIInv, UserInv
<1>. QED
  BY <1>1, <1>2, <1>3, Zenon

\* The head of a non-empty queue.
LEMMA HeadFacts ==
  ASSUME BcTypeOK, idequeue # <<>>
  PROVE  /\ Len(idequeue) \in Nat /\ Len(idequeue) >= 1
         /\ 1 \in 1 .. Len(idequeue)
         /\ Head(idequeue) = idequeue[1] /\ idequeue[1] \in Bufs
BY DEF BcTypeOK

\* A set without two different elements has at most one.
LEMMA AtMostOne ==
  ASSUME NEW S, \A x, y \in S : x = y
  PROVE  Cardinality(S) <= 1
PROOF
<1>1. CASE S = {}
  BY <1>1, FS_EmptySet
<1>2. CASE S # {}
  <2>1. PICK x : x \in S
    BY <1>2
  <2>2. S = {x}
    BY <2>1
  <2>. QED
    BY <2>2, FS_Singleton
<1>. QED
  BY <1>1, <1>2

\* A non-empty set of buffer numbers has a largest one.
LEMMA LargestIn ==
  ASSUME NEW S, S \subseteq Bufs, S # {}
  PROVE  \E i \in S : \A j \in S : j <= i
PROOF
<1>. DEFINE R == OpToRel(<, Nat)
            T == {NBUF - i : i \in S}
<1>1. IsWellFoundedOn(R, Nat)
  BY NatLessThanWellFounded, Zenon
<1>2. \A y, x \in Nat : y < x => <<y, x>> \in R
  BY DEF OpToRel
<1>3. T \subseteq Nat /\ T # {}
  <2>1. \A i \in S : NBUF - i \in Nat
    BY SizesAssumption DEF Bufs
  <2>. QED
    BY <2>1
<1>. HIDE DEF R
<1>4. PICK x \in T : \A y \in T : ~(<<y, x>> \in R)
  <2>. HIDE DEF T
  <2>. QED
    BY <1>1, <1>3, WFMin, Zenon
<1>5. PICK i \in S : x = NBUF - i
  OBVIOUS
<1>6. ASSUME NEW j \in S PROVE j <= i
  <2>1. NBUF - j \in T /\ NBUF - j \in Nat /\ x \in Nat
    BY <1>3
  <2>2. ~(NBUF - j < x)
    BY <1>2, <1>4, <2>1, Zenon
  <2>. QED
    BY <2>1, <2>2, <1>5, SizesAssumption DEF Bufs
<1>. QED
  BY <1>6

\* bget's victim is a buffer nobody counts and the log has not pinned.
LEMMA VictimFacts ==
  ASSUME BcTypeOK, Unused # {}
  PROVE  Victim \in Bufs /\ buf[Victim].ref = 0 /\ ~buf[Victim].dirty
PROOF
<1>1. Unused \subseteq Bufs
  BY DEF Unused, BcTypeOK
<1>2. \E i \in Unused : \A j \in Unused : j <= i
  BY <1>1, LargestIn
<1>3. PICK i \in Unused : i = CHOOSE x \in Unused : \A j \in Unused : j <= x
  BY <1>2
<1>. QED
  BY <1>1, <1>3 DEF Unused, Victim, BcTypeOK

\* A buffer whose count is zero is nobody's, and unlocked.
LEMMA NoUser ==
  ASSUME BcIInv, NEW b \in Bufs, buf[b].ref = 0
  PROVE  (\A q \in Uses : mine[q] # b) /\ buf[b].lock = None
PROOF
<1>. DEFINE U == {p \in Uses : mine[p] = b}
<1>1. IsFiniteSet(U) /\ Cardinality(U) = 0
  BY FS_Subset, SizesAssumption DEF BcIInv, CacheInv
<1>2. U = {}
  BY <1>1, FS_EmptySet
<1>3. buf[b].lock \in Uses \cup {None}
  BY DEF BcIInv, BcTypeOK, BufRecords
<1>. QED
  BY <1>2, <1>3 DEF BcIInv, UserInv

\* brelse's relinking of a buffer loses none of the list.
LEMMA MoveFacts ==
  ASSUME BcTypeOK, NEW b \in Bufs
  PROVE  /\ MoveToFront(b) \in [Bufs -> Bufs]
         /\ \A c \in Bufs : \E i \in Bufs : MoveToFront(b)[i] = c
PROOF
<1>. DEFINE k == CHOOSE i \in DOMAIN lru : lru[i] = b
<1>1. DOMAIN lru = Bufs /\ k \in Bufs /\ lru[k] = b
  BY DEF BcTypeOK
<1>. HIDE DEF k
<1>2. MoveToFront(b) =
        [i \in Bufs |-> IF i = 1 THEN b ELSE IF i <= k THEN lru[i - 1] ELSE lru[i]]
  BY <1>1 DEF MoveToFront, k
<1>3. \A i \in Bufs : i # 1 => i - 1 \in Bufs
  BY SizesAssumption DEF Bufs
<1>4. MoveToFront(b) \in [Bufs -> Bufs]
  BY <1>1, <1>2, <1>3 DEF BcTypeOK
<1>5. ASSUME NEW c \in Bufs PROVE \E i \in Bufs : MoveToFront(b)[i] = c
  <2>1. PICK j \in Bufs : lru[j] = c
    BY DEF BcTypeOK
  <2>2. CASE c = b
    <3>1. 1 \in Bufs /\ MoveToFront(b)[1] = b
      BY <1>2, SizesAssumption DEF Bufs
    <3>. QED
      BY <2>2, <3>1
  <2>3. CASE c # b /\ j < k
    <3>1. j + 1 \in Bufs /\ j + 1 # 1 /\ j + 1 <= k /\ (j + 1) - 1 = j
      BY <1>1, <2>3, SizesAssumption DEF Bufs
    <3>. QED
      BY <1>2, <2>1, <3>1
  <2>4. CASE c # b /\ ~(j < k)
    <3>1. j # 1 /\ ~(j <= k)
      BY <1>1, <2>1, <2>4, SizesAssumption DEF Bufs
    <3>. QED
      BY <1>2, <2>1, <3>1
  <2>. QED
    BY <2>2, <2>3, <2>4
<1>. QED
  BY <1>4, <1>5

-----------------------------------------------------------------------------
(* The inductive invariant *)

\* binit establishes the invariant.
LEMMA InitBcIInv == Init => BcIInv
PROOF
<1>. SUFFICES ASSUME Init PROVE BcIInv
  OBVIOUS
<1>1. BcTypeOK
  <2>1. (CHOOSE v \in Vals : TRUE) \in Vals
    BY SizesAssumption
  <2>2. \A b \in Bufs : NBUF + 1 - b \in Bufs /\ lru[b] = NBUF + 1 - b
    BY SizesAssumption DEF Init, Bufs
  <2>3. \A b \in Bufs : lru[NBUF + 1 - b] = b
    BY <2>2, SizesAssumption DEF Bufs
  <2>4. lru \in [Bufs -> Bufs]
    BY <2>2 DEF Init
  <2>5. \A b \in Bufs : \E i \in Bufs : lru[i] = b
    BY <2>2, <2>3
  <2>6. disk \in [Blocks -> Vals] /\ buf \in [Bufs -> BufRecords]
    BY <2>1 DEF Init, BufRecords
  <2>7. idequeue \in Seq(Bufs) /\ ctl \in Requests \cup {None}
    BY DEF Init
  <2>9. irq \in BOOLEAN /\ panic \in BOOLEAN
    BY Zenon DEF Init
  <2>8. pc \in [Uses -> PCs] /\ mine \in [Uses -> Bufs \cup {None}] /\ want \in [Uses -> Blocks \cup {None}]
    BY DEF Init, PCs, Locked
  <2>. QED
    BY <2>4, <2>5, <2>6, <2>7, <2>8, <2>9 DEF BcTypeOK
<1>2. \A b \in Bufs : Cardinality({p \in Uses : mine[p] = b}) = 0
  <2>. SUFFICES ASSUME NEW b \in Bufs PROVE Cardinality({p \in Uses : mine[p] = b}) = 0
    OBVIOUS
  <2>1. {p \in Uses : mine[p] = b} = {}
    BY NoneAssumption DEF Init
  <2>. QED
    BY <2>1, FS_EmptySet
<1>3. UserInv /\ CacheInv /\ QueueInv /\ ControllerInv /\ DataInv
  BY <1>2, NoneAssumption DEF Init, UserInv, CacheInv, QueueInv, ControllerInv, DataInv,
     Locked, Waiting, Synced
<1>. QED
  BY <1>1, <1>3 DEF BcIInv

\* Every step keeps the types.
LEMMA NextBcTypeOK == ASSUME BcIInv, Next PROVE BcTypeOK'
PROOF
<1>. USE DEF PCs, Locked
<1>0. BcTypeOK /\ ~panic
  BY DEF BcIInv, Next
<1>b. buf \in [Bufs -> BufRecords]
  BY <1>0 DEF BcTypeOK
<1>q. idequeue \in Seq(Bufs) /\ ctl \in Requests \cup {None}
  BY <1>0 DEF BcTypeOK
<1>1. ASSUME DiskDone, UNCHANGED <<want, lru>> PROVE BcTypeOK'
  <2>1. ctl \in Requests
    BY <1>0, <1>1 DEF DiskDone, BcTypeOK
  <2>2. disk' \in [Blocks -> Vals] /\ ctl' \in Requests
    <3>1. CASE ctl.write
      <4>1. ctl.data \in Vals
        <5>1. idequeue[1] \in Bufs /\ ctl.data = buf[idequeue[1]].data
          BY <1>0, <1>1, <3>1, HeadFacts DEF BcIInv, ControllerInv, DiskDone
        <5>. QED
          BY <1>b, <5>1 DEF BufRecords
      <4>. QED
        BY <1>0, <1>1, <2>1, <3>1, <4>1 DEF DiskDone, BcTypeOK, Requests
    <3>2. CASE ~ctl.write
      <4>1. /\ disk[ctl.blk] \in Vals
            /\ ctl' = [ctl EXCEPT !.data = disk[ctl.blk]] /\ disk' = disk
        BY <1>0, <1>1, <2>1, <3>2 DEF DiskDone, BcTypeOK, Requests
      <4>. QED
        BY <1>0, <2>1, <4>1, Zenon DEF BcTypeOK, Requests
    <3>. QED
      BY <3>1, <3>2
  <2>3. irq' \in BOOLEAN /\ UNCHANGED <<buf, idequeue, pc, mine, panic, want, lru>>
    BY <1>1 DEF DiskDone
  <2>. QED
    BY <1>0, <2>2, <2>3 DEF BcTypeOK
<1>2. ASSUME IdeIntr, UNCHANGED <<want, lru>> PROVE BcTypeOK'
  <2>1. idequeue[1] \in Bufs /\ idequeue # <<>> /\ irq /\ Head(idequeue) = idequeue[1]
    BY <1>0, <1>2, HeadFacts DEF IdeIntr
  <2>2. ctl # None /\ (buf[idequeue[1]].dirty \/ ctl.data \in Vals)
    BY <1>0, <2>1 DEF BcIInv, ControllerInv, BcTypeOK, Requests
  <2>3. buf' \in [Bufs -> BufRecords]
    <3>. DEFINE b == idequeue[1]
                d == IF buf[b].dirty THEN buf[b].data ELSE ctl.data
    <3>1. buf' = [buf EXCEPT ![b].valid = TRUE, ![b].dirty = FALSE, ![b].data = d]
      BY <1>b, <1>2, <2>1 DEF IdeIntr
    <3>3. buf[b].data \in Vals /\ b \in Bufs
      BY <1>b, <2>1 DEF BufRecords
    <3>2. d \in Vals /\ b \in Bufs
      BY <2>2, <3>3, Zenon
    <3>. HIDE DEF b, d
    <3>. QED
      BY <1>b, <3>1, <3>2, FieldTypes, ZenonT(60)
  <2>4. \A b \in Bufs : buf[b].blk # None => Request(b) \in Requests
    BY <1>b DEF Request, Requests, BufRecords
  <2>5. idequeue' \in Seq(Bufs) /\ irq' \in BOOLEAN /\ UNCHANGED <<disk, mine, panic, want, lru>>
    <3>1. idequeue' = Tail(idequeue)
      BY <1>2 DEF IdeIntr
    <3>2. idequeue' \in Seq(Bufs)
      BY <1>q, <2>1, <3>1
    <3>3. irq' \in BOOLEAN /\ UNCHANGED <<disk, mine, panic, want, lru>>
      BY <1>2, Zenon DEF IdeIntr
    <3>. QED
      BY <3>2, <3>3
  <2>6. pc' \in [Uses -> PCs]
    BY <1>0, <1>2 DEF IdeIntr, BcTypeOK
  <2>7. ctl' \in Requests \cup {None}
    <3>1. CASE Len(idequeue) > 1
      <4>1. 2 \in 1 .. Len(idequeue) /\ idequeue[2] \in Bufs
        BY <1>0, <3>1 DEF BcTypeOK
      <4>2. buf[idequeue[2]].blk # None
        <5>1. PICK q \in Uses : buf[idequeue[2]].lock = q /\ pc[q] \in Waiting
          BY <4>1 DEF BcIInv, QueueInv
        <5>2. mine[q] = idequeue[2]
          BY <4>1, <5>1 DEF BcIInv, UserInv
        <5>. QED
          BY <1>0, <5>1, <5>2, UserFacts, NoneAssumption DEF Waiting
      <4>. QED
        BY <1>2, <2>4, <3>1, <4>1, <4>2 DEF IdeIntr, IntrNext
    <3>2. CASE ~(Len(idequeue) > 1)
      BY <1>2, <3>2 DEF IdeIntr, IntrNext
    <3>. QED
      BY <3>1, <3>2
  <2>. QED
    BY <1>0, <2>3, <2>5, <2>6, <2>7 DEF BcTypeOK
<1>3. ASSUME NEW p \in Uses, Drive(p) PROVE BcTypeOK'
  <2>1. mine[p] \in Bufs /\ want[p] \in Blocks /\ buf[mine[p]].blk = want[p]
    BY <1>0, <1>3, UserFacts DEF Drive, Iderw, IderwSleep, IderwDone, Roused, Goto
  <2>2. Request(mine[p]) \in Requests
    BY <1>b, <2>1 DEF Request, Requests, BufRecords
  <2>3. pc' \in [Uses -> PCs]
    <3>1. pc' = pc \/ \E c \in PCs : pc' = [pc EXCEPT ![p] = c]
      BY <1>3 DEF Drive, Iderw, IderwSleep, IderwDone, Roused, Goto
    <3>. QED
      BY <1>0, <3>1 DEF BcTypeOK
  <2>4. idequeue' \in Seq(Bufs) /\ ctl' \in Requests \cup {None}
    <3>1. /\ idequeue' = idequeue \/ idequeue' = Append(idequeue, mine[p])
          /\ ctl' = ctl \/ ctl' = Request(mine[p])
      BY <1>3 DEF Drive, Iderw, IderwSleep, IderwDone, Roused
    <3>2. idequeue' \in Seq(Bufs)
      BY <1>q, <2>1, <3>1
    <3>3. ctl' \in Requests \cup {None}
      BY <1>q, <2>2, <3>1, Zenon
    <3>. QED
      BY <3>2, <3>3
  <2>5. panic' \in BOOLEAN /\ UNCHANGED <<disk, buf, irq, mine, want, lru>>
    BY <1>0, <1>3, Zenon DEF Drive, Iderw, IderwSleep, IderwDone, Roused, BcTypeOK
  <2>. QED
    BY <1>0, <2>3, <2>4, <2>5 DEF BcTypeOK
<1>4. ASSUME NEW p \in Uses, NEW k \in Blocks, Bget(p, k) PROVE BcTypeOK'
  <2>1. pc' \in [Uses -> PCs] /\ want' \in [Uses -> Blocks \cup {None}] /\ panic' \in BOOLEAN
    BY <1>0, <1>4, Zenon DEF Bget, Goto, BcTypeOK
  <2>2. mine' \in [Uses -> Bufs \cup {None}] /\ buf' \in [Bufs -> BufRecords]
    <3>1. CASE \E b \in Bufs : mine' = [mine EXCEPT ![p] = b] /\ buf' = [buf EXCEPT ![b].ref = @ + 1]
      <4>1. PICK b \in Bufs : mine' = [mine EXCEPT ![p] = b] /\ buf' = [buf EXCEPT ![b].ref = @ + 1]
        BY <3>1, Zenon
      <4>2. mine' \in [Uses -> Bufs \cup {None}]
        BY <1>0, <4>1 DEF BcTypeOK
      <4>. QED
        BY <1>b, <4>1, <4>2 DEF BufRecords
    <3>2. CASE /\ Unused # {} /\ mine' = [mine EXCEPT ![p] = Victim]
               /\ buf' = [buf EXCEPT ![Victim].blk = k, ![Victim].ref = 1, ![Victim].valid = FALSE]
      <4>1. Victim \in Bufs
        BY <1>0, <3>2, VictimFacts
      <4>2. mine' \in [Uses -> Bufs \cup {None}]
        BY <1>0, <3>2, <4>1 DEF BcTypeOK
      <4>. QED
        <5>. DEFINE b == Victim
        <5>1. b \in Bufs /\ buf' = [buf EXCEPT ![b].blk = k, ![b].ref = 1, ![b].valid = FALSE]
          BY <3>2, <4>1
        <5>. HIDE DEF b
        <5>2. buf' \in [Bufs -> BufRecords]
          BY <1>b, <5>1, FieldTypes, Zenon
        <5>. QED
          BY <4>2, <5>2
    <3>3. CASE UNCHANGED <<buf, mine>>
      BY <1>0, <3>3 DEF BcTypeOK
    <3>. QED
      BY <1>4, <3>1, <3>2, <3>3 DEF Bget, Reuse, Cached
  <2>3. UNCHANGED <<disk, idequeue, ctl, irq, lru>>
    BY <1>4 DEF Bget
  <2>. QED
    BY <1>0, <2>1, <2>2, <2>3 DEF BcTypeOK
<1>5. ASSUME NEW p \in Uses,
             BreadLocked(p) \/ LogWrite(p) \/ Bwrite(p) \/ BrelseUnlock(p) \/ \E v \in Vals : Modify(p, v)
      PROVE BcTypeOK'
  <2>1. pc' \in [Uses -> PCs]
    <3>1. \E c \in PCs : pc' = [pc EXCEPT ![p] = c]
      BY <1>5, Zenon DEF BreadLocked, LogWrite, Bwrite, BrelseUnlock, Modify, Goto
    <3>. QED
      BY <1>0, <3>1 DEF BcTypeOK
  <2>2. buf' \in [Bufs -> BufRecords]
    <3>1. \/ \E q \in Uses \cup {None} : buf' = [buf EXCEPT ![mine[p]].lock = q]
          \/ buf' = [buf EXCEPT ![mine[p]].dirty = TRUE]
          \/ \E v \in Vals : buf' = [buf EXCEPT ![mine[p]].data = v]
      BY <1>5, Zenon DEF BreadLocked, LogWrite, Bwrite, BrelseUnlock, Modify
    <3>2. mine[p] \in Bufs
      BY <1>0, <1>5, UserFacts, Zenon DEF BreadLocked, LogWrite, Bwrite, BrelseUnlock, Modify, Goto
    <3>3. /\ \A q \in Uses \cup {None} : [buf EXCEPT ![mine[p]].lock = q] \in [Bufs -> BufRecords]
          /\ \A v \in Vals : [buf EXCEPT ![mine[p]].data = v] \in [Bufs -> BufRecords]
          /\ [buf EXCEPT ![mine[p]].dirty = TRUE] \in [Bufs -> BufRecords]
      BY <1>b, <3>2, FieldTypes, ZenonT(60)
    <3>4. CASE \E q \in Uses \cup {None} : buf' = [buf EXCEPT ![mine[p]].lock = q]
      BY <3>3, <3>4, ZenonT(60)
    <3>5. CASE buf' = [buf EXCEPT ![mine[p]].dirty = TRUE]
      BY <3>3, <3>5, Zenon
    <3>6. CASE \E v \in Vals : buf' = [buf EXCEPT ![mine[p]].data = v]
      BY <3>3, <3>6, ZenonT(60)
    <3>. QED
      BY <3>1, <3>4, <3>5, <3>6, Zenon
  <2>3. UNCHANGED <<disk, idequeue, ctl, irq, mine, panic, want, lru>>
    BY <1>5, Zenon DEF BreadLocked, LogWrite, Bwrite, BrelseUnlock, Modify
  <2>. QED
    BY <1>0, <2>1, <2>2, <2>3 DEF BcTypeOK
<1>6. ASSUME NEW p \in Uses, BrelsePut(p) PROVE BcTypeOK'
  <2>1. mine[p] \in Bufs
    BY <1>0, <1>6, UserFacts DEF BrelsePut, Goto
  <2>2. /\ pc' \in [Uses -> PCs] /\ want' \in [Uses -> Blocks \cup {None}]
        /\ mine' \in [Uses -> Bufs \cup {None}]
    BY <1>0, <1>6 DEF BrelsePut, Goto, BcTypeOK
  <2>3. buf' \in [Bufs -> BufRecords]
    <3>1. buf' = [buf EXCEPT ![mine[p]].ref = buf[mine[p]].ref - 1]
      BY <1>6 DEF BrelsePut, Released
    <3>. QED
      BY <1>b, <2>1, <3>1 DEF BufRecords
  <2>4. lru' \in [Bufs -> Bufs] /\ \A b \in Bufs : \E i \in Bufs : lru'[i] = b
    BY <1>0, <1>6, <2>1, MoveFacts, ZenonT(60) DEF BrelsePut, BcTypeOK
  <2>5. UNCHANGED <<disk, idequeue, ctl, irq, panic>>
    BY <1>6 DEF BrelsePut
  <2>. QED
    BY <1>0, <2>2, <2>3, <2>4, <2>5 DEF BcTypeOK
<1>. QED
  BY <1>1, <1>2, <1>3, <1>4, <1>5, <1>6 DEF Next, Hardware, Step

-----------------------------------------------------------------------------
(* What each step does to the buffers *)

(* In these lemmas b is the buffer of the step; every other one is unchanged. *)

\* acquiresleep takes the lock.
LEMMA BreadLockedStep ==
  ASSUME BcIInv, ~panic, NEW p \in Uses, BreadLocked(p)
  PROVE  LET b == mine[p] IN
         /\ b \in Bufs
         /\ buf'[b].blk = buf[b].blk /\ buf'[b].valid = buf[b].valid /\ buf'[b].dirty = buf[b].dirty
         /\ buf'[b].ref = buf[b].ref /\ buf'[b].lock = p /\ buf'[b].data = buf[b].data
         /\ \A c \in Bufs : c # b => buf'[c] = buf[c]
PROOF
<1>1. mine[p] \in Bufs
  BY UserFacts DEF BreadLocked
<1>2. buf \in [Bufs -> BufRecords]
  BY DEF BcIInv, BcTypeOK
<1>. QED
  BY <1>1, <1>2 DEF BreadLocked, BufRecords

\* The caller's change.
LEMMA ModifyStep ==
  ASSUME BcIInv, ~panic, NEW p \in Uses, NEW v \in Vals, Modify(p, v)
  PROVE  LET b == mine[p] IN
         /\ b \in Bufs
         /\ buf'[b].blk = buf[b].blk /\ buf'[b].valid = buf[b].valid /\ buf'[b].dirty = buf[b].dirty
         /\ buf'[b].ref = buf[b].ref /\ buf'[b].lock = buf[b].lock /\ buf'[b].data = v
         /\ \A c \in Bufs : c # b => buf'[c] = buf[c]
PROOF
<1>1. mine[p] \in Bufs
  BY UserFacts DEF Modify
<1>2. buf \in [Bufs -> BufRecords]
  BY DEF BcIInv, BcTypeOK
<1>. QED
  BY <1>1, <1>2 DEF Modify, BufRecords

\* log_write pins the buffer.
LEMMA LogWriteStep ==
  ASSUME BcIInv, ~panic, NEW p \in Uses, LogWrite(p)
  PROVE  LET b == mine[p] IN
         /\ b \in Bufs
         /\ buf'[b].blk = buf[b].blk /\ buf'[b].valid = buf[b].valid /\ buf'[b].dirty
         /\ buf'[b].ref = buf[b].ref /\ buf'[b].lock = buf[b].lock /\ buf'[b].data = buf[b].data
         /\ \A c \in Bufs : c # b => buf'[c] = buf[c]
PROOF
<1>1. mine[p] \in Bufs
  BY UserFacts DEF LogWrite, Goto
<1>2. buf \in [Bufs -> BufRecords]
  BY DEF BcIInv, BcTypeOK
<1>. QED
  BY <1>1, <1>2 DEF LogWrite, BufRecords

\* bwrite marks it dirty.
LEMMA BwriteStep ==
  ASSUME BcIInv, ~panic, NEW p \in Uses, Bwrite(p)
  PROVE  LET b == mine[p] IN
         /\ b \in Bufs
         /\ buf'[b].blk = buf[b].blk /\ buf'[b].valid = buf[b].valid /\ buf'[b].dirty
         /\ buf'[b].ref = buf[b].ref /\ buf'[b].lock = buf[b].lock /\ buf'[b].data = buf[b].data
         /\ \A c \in Bufs : c # b => buf'[c] = buf[c]
PROOF
<1>1. mine[p] \in Bufs
  BY UserFacts DEF Bwrite
<1>2. buf \in [Bufs -> BufRecords]
  BY DEF BcIInv, BcTypeOK
<1>. QED
  BY <1>1, <1>2 DEF Bwrite, BufRecords

\* releasesleep gives the lock up.
LEMMA BrelseUnlockStep ==
  ASSUME BcIInv, ~panic, NEW p \in Uses, BrelseUnlock(p)
  PROVE  LET b == mine[p] IN
         /\ b \in Bufs
         /\ buf'[b].blk = buf[b].blk /\ buf'[b].valid = buf[b].valid /\ buf'[b].dirty = buf[b].dirty
         /\ buf'[b].ref = buf[b].ref /\ buf'[b].lock = None /\ buf'[b].data = buf[b].data
         /\ \A c \in Bufs : c # b => buf'[c] = buf[c]
PROOF
<1>1. mine[p] \in Bufs
  BY UserFacts DEF BrelseUnlock, Goto
<1>2. buf \in [Bufs -> BufRecords]
  BY DEF BcIInv, BcTypeOK
<1>. QED
  BY <1>1, <1>2 DEF BrelseUnlock, BufRecords

\* The end of brelse lowers the count.
LEMMA BrelsePutStep ==
  ASSUME BcIInv, ~panic, NEW p \in Uses, BrelsePut(p)
  PROVE  LET b == mine[p] IN
         /\ b \in Bufs
         /\ buf'[b].blk = buf[b].blk /\ buf'[b].valid = buf[b].valid /\ buf'[b].dirty = buf[b].dirty
         /\ buf'[b].ref = buf[b].ref - 1 /\ buf'[b].lock = buf[b].lock /\ buf'[b].data = buf[b].data
         /\ \A c \in Bufs : c # b => buf'[c] = buf[c]
PROOF
<1>1. mine[p] \in Bufs
  BY UserFacts DEF BrelsePut, Goto
<1>2. buf \in [Bufs -> BufRecords]
  BY DEF BcIInv, BcTypeOK
<1>. QED
  BY <1>1, <1>2 DEF BrelsePut, Released, BufRecords

\* bget's outcomes with a buffer, field by field.
Hit(p, k) == \E b \in Bufs :
    /\ buf[b].blk = k
    /\ mine' = [mine EXCEPT ![p] = b] /\ panic' = panic
    /\ buf'[b].blk = buf[b].blk /\ buf'[b].valid = buf[b].valid /\ buf'[b].dirty = buf[b].dirty
    /\ buf'[b].ref = buf[b].ref + 1 /\ buf'[b].lock = buf[b].lock /\ buf'[b].data = buf[b].data
    /\ \A c \in Bufs : c # b => buf'[c] = buf[c]
Miss(p, k) == \E b \in Bufs :
    /\ buf[b].ref = 0 /\ ~buf[b].dirty
    /\ \A c \in Bufs : buf[c].blk # k
    /\ mine' = [mine EXCEPT ![p] = b] /\ panic' = panic
    /\ buf'[b].blk = k /\ ~buf'[b].valid /\ buf'[b].dirty = buf[b].dirty
    /\ buf'[b].ref = 1 /\ buf'[b].lock = buf[b].lock /\ buf'[b].data = buf[b].data
    /\ \A c \in Bufs : c # b => buf'[c] = buf[c]

\* bget, its caller idle, counts a cached buffer once more, gives the victim
\* to the block, or panics.
LEMMA BgetStep ==
  ASSUME BcIInv, ~panic, NEW p \in Uses, NEW k \in Blocks, Bget(p, k)
  PROVE  \/ Hit(p, k) \/ Miss(p, k)
         \/ panic' = TRUE /\ Unused = {} /\ UNCHANGED <<buf, mine>>
PROOF
<1>1. buf \in [Bufs -> BufRecords] /\ BcTypeOK
  BY DEF BcIInv, BcTypeOK
<1>2. CASE \E b \in Cached(k) : mine' = [mine EXCEPT ![p] = b] /\ buf' = [buf EXCEPT ![b].ref = @ + 1] /\ UNCHANGED panic
  <2>1. PICK b \in Cached(k) : mine' = [mine EXCEPT ![p] = b] /\ buf' = [buf EXCEPT ![b].ref = @ + 1] /\ UNCHANGED panic
    BY <1>2, Zenon
  <2>2. b \in Bufs /\ buf[b].blk = k
    BY DEF Cached
  <2>3. \A c \in Bufs : c # b => buf'[c] = buf[c]
    BY <1>1, <2>1
  <2>4. /\ buf'[b].blk = buf[b].blk /\ buf'[b].valid = buf[b].valid /\ buf'[b].dirty = buf[b].dirty
        /\ buf'[b].ref = buf[b].ref + 1 /\ buf'[b].lock = buf[b].lock /\ buf'[b].data = buf[b].data
    BY <1>1, <2>1, <2>2 DEF BufRecords
  <2>5. Hit(p, k)
    BY <2>1, <2>2, <2>3, <2>4, Zenon DEF Hit
  <2>. QED
    BY <2>5
<1>3. CASE /\ Cached(k) = {} /\ Unused # {} /\ mine' = [mine EXCEPT ![p] = Victim]
           /\ buf' = Reuse(Victim, k) /\ UNCHANGED panic
  <2>1. PICK b \in Bufs : b = Victim /\ buf[b].ref = 0 /\ ~buf[b].dirty
    BY <1>1, <1>3, VictimFacts
  <2>2. buf' = [buf EXCEPT ![b].blk = k, ![b].ref = 1, ![b].valid = FALSE]
    BY <1>3, <2>1 DEF Reuse
  <2>3. \A c \in Bufs : buf[c].blk # k
    BY <1>3 DEF Cached
  <2>4. \A c \in Bufs : c # b => buf'[c] = buf[c]
    BY <1>1, <2>2
  <2>5. /\ buf'[b].blk = k /\ ~buf'[b].valid /\ buf'[b].dirty = buf[b].dirty
        /\ buf'[b].ref = 1 /\ buf'[b].lock = buf[b].lock /\ buf'[b].data = buf[b].data
    BY <1>1, <2>2 DEF BufRecords
  <2>6. mine' = [mine EXCEPT ![p] = b] /\ panic' = panic
    BY <1>3, <2>1
  <2>7. Miss(p, k)
    BY <2>1, <2>3, <2>4, <2>5, <2>6, ZenonT(40) DEF Miss
  <2>. QED
    BY <2>7
<1>. QED
  BY <1>2, <1>3, Zenon DEF Bget

\* ideintr marks the head's buffer valid and clean, with the data the
\* controller read when the request was not a write.
LEMMA IdeIntrStep ==
  ASSUME BcIInv, ~panic, IdeIntr
  PROVE  LET b == idequeue[1] IN
         /\ b \in Bufs /\ Head(idequeue) = b /\ ctl # None /\ irq
         /\ buf'[b].blk = buf[b].blk /\ buf'[b].valid /\ ~buf'[b].dirty
         /\ buf'[b].ref = buf[b].ref /\ buf'[b].lock = buf[b].lock /\ (buf[b].dirty => buf'[b].data = buf[b].data)
         /\ (~buf[b].dirty => buf'[b].data = ctl.data)
         /\ \A c \in Bufs : c # b => buf'[c] = buf[c]
PROOF
<1>1. idequeue[1] \in Bufs /\ Head(idequeue) = idequeue[1] /\ ctl # None /\ irq
  BY HeadFacts DEF BcIInv, ControllerInv, IdeIntr
<1>2. buf \in [Bufs -> BufRecords]
  BY DEF BcIInv, BcTypeOK
<1>. QED
  BY <1>1, <1>2 DEF IdeIntr, BufRecords

-----------------------------------------------------------------------------
(* Who has a buffer *)

\* A step of one process, or of the disk, leaves every process in order with
\* its buffer.
LEMMA NextUserInv == ASSUME BcIInv, Next PROVE UserInv'
PROOF
<1>. USE NoneAssumption DEF Locked, Synced
<1>0. UserInv /\ ~panic
  BY DEF BcIInv, Next
<1>t. /\ \A q \in Uses : mine[q] \in Bufs \cup {None}
      /\ pc = [q \in Uses |-> pc[q]] /\ mine = [q \in Uses |-> mine[q]] /\ want = [q \in Uses |-> want[q]]
  BY DEF BcIInv, BcTypeOK
<1>1. ASSUME DiskDone, UNCHANGED <<want, lru>> PROVE UserInv'
  BY <1>0, <1>1, SMTT(30) DEF DiskDone, UserInv
<1>2. ASSUME IdeIntr, UNCHANGED <<want, lru>> PROVE UserInv'
  <2>. DEFINE b == idequeue[1]
  <2>1. /\ b \in Bufs /\ buf'[b].valid /\ ~buf'[b].dirty
        /\ \A c \in Bufs : buf'[c].blk = buf[c].blk /\ buf'[c].lock = buf[c].lock
        /\ \A c \in Bufs : c # b => buf'[c] = buf[c]
    BY <1>0, <1>2, IdeIntrStep, Zenon
  <2>2. /\ \A q \in Uses : pc'[q] = IF pc[q] = "asleep" /\ mine[q] = b THEN "wait" ELSE pc[q]
        /\ mine' = mine /\ want' = want /\ panic' = panic
    BY <1>0, <1>2, IdeIntrStep, SMTT(30) DEF IdeIntr
  <2>3. buf[b].lock \in Uses /\ pc[buf[b].lock] \in Waiting
    BY <1>0, <1>2, HeadFacts, SMTT(30) DEF BcIInv, QueueInv, IdeIntr
  <2>. HIDE DEF b
  <2>4. \A q \in Uses : pc[q] = "iderw" => mine[q] # b
    BY <1>0, <2>1, <2>3, SMTT(30) DEF UserInv, Waiting
  <2>. QED
    BY <1>0, <1>t, <2>1, <2>2, <2>4, SMTT(30) DEF UserInv
<1>3. ASSUME NEW p \in Uses, Drive(p) PROVE UserInv'
  <2>1. mine[p] \in Bufs /\ buf[mine[p]].lock = p /\ (pc[p] = "iderw" => ~Synced(mine[p]))
    BY <1>0, <1>3, UserFacts, SMTT(30) DEF Drive, Iderw, IderwSleep, IderwDone, Roused, Goto
  <2>2. /\ UNCHANGED <<buf, mine, want, panic>>
        /\ pc' = [pc EXCEPT ![p] = pc'[p]] /\ pc[p] \in Locked
        /\ pc'[p] \in {"wait", "asleep"} \/ (pc'[p] = "have" /\ Synced(mine[p]))
    BY <1>3, <1>t, <2>1 DEF Drive, Iderw, IderwSleep, IderwDone, Roused, Goto
  <2>. QED
    BY <1>0, <1>t, <2>1, <2>2, SMTT(30) DEF UserInv
<1>4. ASSUME NEW p \in Uses, NEW k \in Blocks, Bget(p, k) PROVE UserInv'
  <2>1. /\ pc[p] = "idle" /\ mine[p] = None
        /\ \A q \in Uses : pc'[q] = IF q = p THEN "lock" ELSE pc[q]
        /\ \A q \in Uses : want'[q] = IF q = p THEN k ELSE want[q]
    BY <1>0, <1>4, <1>t, SMTT(30) DEF Bget, Goto, UserInv
  <2>2. CASE Hit(p, k)
    BY <1>0, <1>t, <2>1, <2>2, SMTT(30) DEF Hit, UserInv
  <2>3. CASE Miss(p, k)
    <3>1. PICK b \in Bufs : 
            /\ buf[b].ref = 0
            /\ mine' = [mine EXCEPT ![p] = b] /\ panic' = panic
            /\ buf'[b].blk = k /\ buf'[b].lock = buf[b].lock
            /\ \A c \in Bufs : c # b => buf'[c] = buf[c]
      BY <2>3, Zenon DEF Miss
    <3>2. \A q \in Uses : mine[q] # b
      BY <3>1, NoUser, SMTT(30)
    <3>. QED
      BY <1>0, <1>t, <2>1, <3>1, <3>2 DEF UserInv
  <2>4. CASE panic' = TRUE /\ UNCHANGED <<buf, mine>>
    BY <1>0, <1>t, <2>1, <2>4, SMTT(30) DEF UserInv
  <2>. QED
    BY <1>0, <1>4, <2>2, <2>3, <2>4, BgetStep, Zenon
<1>5. ASSUME NEW p \in Uses, BreadLocked(p) PROVE UserInv'
  <2>. DEFINE b == mine[p]
  <2>1. /\ pc[p] = "lock" /\ buf[b].lock = None /\ UNCHANGED <<mine, want, panic>>
        /\ \A q \in Uses : pc'[q] = IF q = p THEN (IF buf[b].valid THEN "have" ELSE "iderw") ELSE pc[q]
    BY <1>5, <1>t DEF BreadLocked, Goto
  <2>2. /\ b \in Bufs /\ buf'[b].lock = p /\ buf'[b].blk = buf[b].blk
        /\ buf'[b].valid = buf[b].valid /\ buf'[b].dirty = buf[b].dirty
        /\ \A c \in Bufs : c # b => buf'[c] = buf[c]
    BY <1>0, <1>5, BreadLockedStep, SMTT(30)
  <2>. QED
    BY <1>0, <1>t, <2>1, <2>2 DEF UserInv
<1>6. ASSUME NEW p \in Uses, NEW v \in Vals, Modify(p, v) PROVE UserInv'
  <2>1. /\ pc[p] \in {"have", "changed"} /\ UNCHANGED <<mine, want, panic>>
        /\ \A q \in Uses : pc'[q] = IF q = p THEN "changed" ELSE pc[q]
    BY <1>6, <1>t, SMTT(30) DEF Modify
  <2>2. \A c \in Bufs : /\ buf'[c].blk = buf[c].blk /\ buf'[c].lock = buf[c].lock
                         /\ buf'[c].valid = buf[c].valid /\ buf'[c].dirty = buf[c].dirty
    BY <1>0, <1>6, ModifyStep, SMTT(30)
  <2>. QED
    BY <1>0, <1>t, <2>1, <2>2 DEF UserInv
<1>7. ASSUME NEW p \in Uses, LogWrite(p) \/ Bwrite(p) PROVE UserInv'
  <2>. DEFINE b == mine[p]
  <2>1. /\ pc[p] \in {"have", "changed"} /\ UNCHANGED <<mine, want, panic>>
        /\ \A q \in Uses : q # p => pc'[q] = pc[q]
        /\ pc'[p] \in {"have", "iderw"}
    BY <1>7, <1>t DEF LogWrite, Bwrite, Goto
  <2>2. /\ b \in Bufs /\ buf'[b].dirty
        /\ \A c \in Bufs : /\ buf'[c].blk = buf[c].blk /\ buf'[c].lock = buf[c].lock
                            /\ buf'[c].valid = buf[c].valid
        /\ \A c \in Bufs : c # b => buf'[c] = buf[c]
    BY <1>0, <1>7, LogWriteStep, BwriteStep, Zenon
  <2>. QED
    BY <1>0, <1>t, <2>1, <2>2 DEF UserInv
<1>8. ASSUME NEW p \in Uses, BrelseUnlock(p) PROVE UserInv'
  <2>. DEFINE b == mine[p]
  <2>1. /\ pc[p] = "have" /\ UNCHANGED <<mine, want, panic>>
        /\ \A q \in Uses : pc'[q] = IF q = p THEN "put" ELSE pc[q]
    BY <1>8, <1>t, SMTT(30) DEF BrelseUnlock, Goto
  <2>2. /\ b \in Bufs /\ buf'[b].lock = None /\ buf'[b].blk = buf[b].blk
        /\ buf'[b].valid = buf[b].valid /\ buf'[b].dirty = buf[b].dirty
        /\ \A c \in Bufs : c # b => buf'[c] = buf[c]
    BY <1>0, <1>8, BrelseUnlockStep, SMTT(30)
  <2>. QED
    BY <1>0, <1>t, <2>1, <2>2 DEF UserInv
<1>9. ASSUME NEW p \in Uses, BrelsePut(p) PROVE UserInv'
  <2>1. /\ pc[p] = "put" /\ panic' = panic /\ pc' = [pc EXCEPT ![p] = "idle"]
        /\ mine' = [mine EXCEPT ![p] = None] /\ want' = [want EXCEPT ![p] = None]
    BY <1>9 DEF BrelsePut, Goto
  <2>3. pc'[p] = "idle" /\ mine'[p] = None /\ want'[p] = None
    BY <1>t, <2>1
  <2>4. \A q \in Uses : q # p => pc'[q] = pc[q] /\ mine'[q] = mine[q] /\ want'[q] = want[q]
    <3>1. \A q \in Uses : q # p => pc'[q] = pc[q]
      <4>1. pc \in [Uses -> PCs] /\ pc' = [pc EXCEPT ![p] = "idle"]
        BY <2>1 DEF BcIInv, BcTypeOK
      <4>. QED
        BY <4>1
    <3>2. \A q \in Uses : q # p => mine'[q] = mine[q]
      BY <1>t, <2>1
    <3>3. \A q \in Uses : q # p => want'[q] = want[q]
      BY <1>t, <2>1
    <3>. QED
      BY <3>1, <3>2, <3>3
  <2>2. \A c \in Bufs : /\ buf'[c].blk = buf[c].blk /\ buf'[c].lock = buf[c].lock
                         /\ buf'[c].valid = buf[c].valid /\ buf'[c].dirty = buf[c].dirty
    BY <1>0, <1>9, BrelsePutStep, Zenon
  <2>5. \A c \in Bufs : buf[c].lock # p
    BY <1>0, <2>1 DEF UserInv
  <2>. QED
    BY <1>0, <1>t, <2>1, <2>2, <2>3, <2>4, <2>5, SMTT(30) DEF UserInv
<1>. QED
  BY <1>1, <1>2, <1>3, <1>4, <1>5, <1>6, <1>7, <1>8, <1>9, SMTT(30) DEF Next, Hardware, Step

-----------------------------------------------------------------------------
(* Counts, and one buffer for a block *)

Users(b) == {p \in Uses : mine[p] = b}

\* A process that takes a buffer is one user more of that buffer.
LEMMA AddUser ==
  ASSUME BcTypeOK, NEW p \in Uses, mine[p] = None, NEW b \in Bufs, mine' = [mine EXCEPT ![p] = b]
  PROVE  /\ Cardinality(Users(b)') = Cardinality(Users(b)) + 1 /\ Cardinality(Users(b)) \in Nat
         /\ \A c \in Bufs : c # b => Users(c)' = Users(c)
PROOF
<1>1. \A q \in Uses : mine'[q] = IF q = p THEN b ELSE mine[q]
  BY DEF BcTypeOK
<1>2. IsFiniteSet(Users(b)) /\ p \notin Users(b)
  BY FS_Subset, SizesAssumption, NoneAssumption DEF Users
<1>3. Users(b)' = Users(b) \cup {p}
  BY <1>1 DEF Users
<1>4. \A c \in Bufs : c # b => Users(c)' = Users(c)
  BY <1>1, NoneAssumption DEF Users
<1>. QED
  BY <1>2, <1>3, <1>4, FS_AddElement, FS_CardinalityType

\* A process that gives its buffer back is one user less.
LEMMA DropUser ==
  ASSUME BcTypeOK, NEW p \in Uses, NEW b \in Bufs, mine[p] = b, mine' = [mine EXCEPT ![p] = None]
  PROVE  /\ Cardinality(Users(b)') = Cardinality(Users(b)) - 1
         /\ \A c \in Bufs : c # b => Users(c)' = Users(c)
PROOF
<1>1. \A q \in Uses : mine'[q] = IF q = p THEN None ELSE mine[q]
  BY DEF BcTypeOK
<1>2. IsFiniteSet(Users(b)) /\ p \in Users(b)
  BY FS_Subset, SizesAssumption DEF Users
<1>3. Users(b)' = Users(b) \ {p}
  BY <1>1, NoneAssumption DEF Users
<1>4. \A c \in Bufs : c # b => Users(c)' = Users(c)
  BY <1>1, NoneAssumption DEF Users
<1>. QED
  <2>1. Cardinality(Users(b) \ {p}) = Cardinality(Users(b)) - 1
    <3>1. Cardinality(Users(b) \ {p}) = IF p \in Users(b) THEN Cardinality(Users(b)) - 1 ELSE Cardinality(Users(b))
      BY <1>2, FS_RemoveElement, Zenon
    <3>. QED
      BY <1>2, <3>1, Zenon
  <2>. QED
    BY <1>3, <1>4, <2>1

\* Counts stay exact and no second buffer is given to a block.
LEMMA NextCacheInv == ASSUME BcIInv, Next PROVE CacheInv'
PROOF
<1>0. BcTypeOK /\ CacheInv /\ UserInv /\ ~panic
  BY DEF BcIInv, Next
<1>1. ASSUME mine' = mine,
             \A c \in Bufs : /\ buf'[c].blk = buf[c].blk /\ buf'[c].ref = buf[c].ref
                             /\ buf'[c].dirty => buf'[c].valid
                             /\ buf'[c].valid => buf'[c].blk # None
      PROVE  CacheInv'
  BY <1>0, <1>1, SMTT(30) DEF CacheInv
<1>2. ASSUME DiskDone \/ \E p \in Uses : Drive(p) PROVE CacheInv'
  <2>1. UNCHANGED <<buf, mine>>
    BY <1>2, SMTT(30) DEF DiskDone, Drive, Iderw, IderwSleep, IderwDone, Roused
  <2>. QED
    BY <1>0, <1>1, <2>1 DEF CacheInv
<1>3. ASSUME IdeIntr PROVE CacheInv'
  <2>. DEFINE b == idequeue[1]
  <2>1. /\ b \in Bufs /\ buf'[b].valid /\ ~buf'[b].dirty
        /\ \A c \in Bufs : buf'[c].blk = buf[c].blk /\ buf'[c].ref = buf[c].ref
        /\ \A c \in Bufs : c # b => buf'[c] = buf[c]
    BY <1>0, <1>3, IdeIntrStep, Zenon
  <2>2. buf[b].lock \in Uses /\ pc[buf[b].lock] \in Waiting
    BY <1>0, <1>3, HeadFacts, SMTT(30) DEF BcIInv, QueueInv, IdeIntr
  <2>3. mine[buf[b].lock] = b
    BY <1>0, <2>1, <2>2 DEF UserInv
  <2>4. buf[b].blk # None
    BY <1>0, <2>2, <2>3, UserFacts, NoneAssumption, SMTT(30) DEF Waiting
  <2>5. mine' = mine
    BY <1>3 DEF IdeIntr
  <2>. HIDE DEF b
  <2>. QED
    BY <1>0, <1>1, <2>1, <2>4, <2>5, SMTT(30) DEF CacheInv
<1>4. ASSUME NEW p \in Uses, NEW k \in Blocks, Bget(p, k) PROVE CacheInv'
  <2>1. mine[p] = None
    BY <1>0, <1>4, SMTT(30) DEF Bget, Goto, UserInv
  <2>2. CASE Hit(p, k)
    <3>1. PICK b \in Bufs :
             /\ mine' = [mine EXCEPT ![p] = b] /\ buf'[b].ref = buf[b].ref + 1
             /\ buf'[b].blk = buf[b].blk /\ buf'[b].valid = buf[b].valid /\ buf'[b].dirty = buf[b].dirty
             /\ \A c \in Bufs : c # b => buf'[c] = buf[c]
      BY <2>2, Zenon DEF Hit
    <3>2. \A c \in Bufs : buf'[c].ref = Cardinality(Users(c)')
      <4>1. buf'[b].ref = Cardinality(Users(b)')
        <5>1. Cardinality(Users(b)') = Cardinality(Users(b)) + 1 /\ Cardinality(Users(b)) \in Nat
          BY <1>0, <2>1, <3>1, AddUser, Zenon
        <5>2. buf[b].ref = Cardinality(Users(b))
          BY <1>0 DEF CacheInv, Users
        <5>. QED
          BY <3>1, <5>1, <5>2
      <4>2. ASSUME NEW c \in Bufs, c # b PROVE buf'[c].ref = Cardinality(Users(c)')
        <5>1. Users(c)' = Users(c)
          BY <1>0, <2>1, <3>1, <4>2, AddUser, Zenon
        <5>. QED
          BY <1>0, <3>1, <4>2, <5>1 DEF CacheInv, Users
      <4>. QED
        BY <4>1, <4>2
    <3>. QED
      BY <1>0, <3>1, <3>2 DEF CacheInv, Users
  <2>3. CASE Miss(p, k)
    <3>1. PICK b \in Bufs :
             /\ mine' = [mine EXCEPT ![p] = b] /\ buf'[b].ref = 1 /\ buf[b].ref = 0
             /\ buf'[b].blk = k /\ ~buf'[b].valid /\ ~buf[b].dirty /\ buf'[b].dirty = buf[b].dirty
             /\ \A c \in Bufs : buf[c].blk # k
             /\ \A c \in Bufs : c # b => buf'[c] = buf[c]
      BY <2>3, Zenon DEF Miss
    <3>2. \A c \in Bufs : buf'[c].ref = Cardinality(Users(c)')
      <4>1. buf'[b].ref = Cardinality(Users(b)')
        <5>1. Cardinality(Users(b)') = Cardinality(Users(b)) + 1 /\ Cardinality(Users(b)) \in Nat
          BY <1>0, <2>1, <3>1, AddUser, Zenon
        <5>2. buf[b].ref = Cardinality(Users(b))
          BY <1>0 DEF CacheInv, Users
        <5>. QED
          BY <3>1, <5>1, <5>2
      <4>2. ASSUME NEW c \in Bufs, c # b PROVE buf'[c].ref = Cardinality(Users(c)')
        <5>1. Users(c)' = Users(c)
          BY <1>0, <2>1, <3>1, <4>2, AddUser, Zenon
        <5>. QED
          BY <1>0, <3>1, <4>2, <5>1 DEF CacheInv, Users
      <4>. QED
        BY <4>1, <4>2
    <3>. QED
      BY <1>0, <3>1, <3>2, NoneAssumption DEF CacheInv, Users
  <2>4. CASE UNCHANGED <<buf, mine>>
    BY <1>0, <1>1, <2>4, SMTT(30) DEF CacheInv
  <2>. QED
    BY <1>0, <1>4, <2>2, <2>3, <2>4, BgetStep, Zenon
<1>5. ASSUME NEW p \in Uses, BreadLocked(p) \/ BrelseUnlock(p) \/ \E v \in Vals : Modify(p, v) PROVE CacheInv'
  <2>1. \A c \in Bufs : /\ buf'[c].blk = buf[c].blk /\ buf'[c].ref = buf[c].ref
                         /\ buf'[c].dirty = buf[c].dirty /\ buf'[c].valid = buf[c].valid
    BY <1>0, <1>5, BreadLockedStep, BrelseUnlockStep, ModifyStep, Zenon
  <2>2. mine' = mine
    BY <1>5, Zenon DEF BreadLocked, BrelseUnlock, Modify
  <2>. QED
    BY <1>0, <1>1, <2>1, <2>2 DEF CacheInv
<1>6. ASSUME NEW p \in Uses, LogWrite(p) \/ Bwrite(p) PROVE CacheInv'
  <2>1. /\ mine[p] \in Bufs
        /\ \A c \in Bufs : /\ buf'[c].blk = buf[c].blk /\ buf'[c].ref = buf[c].ref
                            /\ buf'[c].valid = buf[c].valid
        /\ \A c \in Bufs : c # mine[p] => buf'[c] = buf[c]
    BY <1>0, <1>6, LogWriteStep, BwriteStep, Zenon
  <2>2. mine' = mine /\ buf[mine[p]].valid
    BY <1>0, <1>6, SMTT(30) DEF LogWrite, Bwrite, Goto, UserInv
  <2>. QED
    BY <1>0, <1>1, <2>1, <2>2 DEF CacheInv
<1>7. ASSUME NEW p \in Uses, BrelsePut(p) PROVE CacheInv'
  <2>0. PICK b \in Bufs : b = mine[p]
    BY <1>0, <1>7, BrelsePutStep
  <2>1. /\ buf'[b].ref = buf[b].ref - 1
        /\ \A c \in Bufs : /\ buf'[c].blk = buf[c].blk
                            /\ buf'[c].dirty = buf[c].dirty /\ buf'[c].valid = buf[c].valid
        /\ \A c \in Bufs : c # b => buf'[c] = buf[c]
    BY <1>0, <1>7, <2>0, BrelsePutStep, Zenon
  <2>2. mine' = [mine EXCEPT ![p] = None]
    BY <1>7 DEF BrelsePut
  <2>3. buf'[b].ref = Cardinality(Users(b)') 
    <3>1. Cardinality(Users(b)') = Cardinality(Users(b)) - 1
      BY <1>0, <2>0, <2>2, DropUser, Zenon
    <3>2. buf[b].ref = Cardinality(Users(b))
      BY <1>0, <2>1 DEF CacheInv, Users
    <3>. QED
      BY <2>1, <3>1, <3>2
  <2>4. ASSUME NEW c \in Bufs, c # b PROVE buf'[c].ref = Cardinality(Users(c)')
    <3>1. Users(c)' = Users(c)
      BY <1>0, <2>0, <2>2, <2>4, DropUser, Zenon
    <3>. QED
      BY <1>0, <2>1, <2>4, <3>1 DEF CacheInv, Users
  <2>5. \A c \in Bufs : buf'[c].ref = Cardinality(Users(c)')
    BY <2>1, <2>3, <2>4
  <2>. QED
    BY <1>0, <2>1, <2>5, SMTT(30) DEF CacheInv, Users
<1>. QED
  BY <1>2, <1>3, <1>4, <1>5, <1>6, <1>7, SMTT(30) DEF Next, Hardware, Step

-----------------------------------------------------------------------------
(* The driver *)

\* A step of p outside the driver: nothing of the disk changes, and nothing
\* but the count of a buffer another process has locked.
Quiet(p) ==
    /\ pc[p] \notin Waiting /\ pc'[p] \notin Waiting
    /\ \A q \in Uses : q # p => pc'[q] = pc[q] /\ mine'[q] = mine[q]
    /\ UNCHANGED <<disk, idequeue, ctl, irq>>
    /\ \A c \in Bufs : buf[c].lock \in Uses /\ buf[c].lock # p =>
          /\ buf'[c].blk = buf[c].blk /\ buf'[c].valid = buf[c].valid /\ buf'[c].dirty = buf[c].dirty
          /\ buf'[c].lock = buf[c].lock /\ buf'[c].data = buf[c].data

\* The steps of bread, log_write, bwrite and brelse are such steps.
LEMMA QuietSteps ==
  ASSUME BcIInv, ~panic, NEW p \in Uses,
         \/ BreadLocked(p) \/ LogWrite(p) \/ Bwrite(p) \/ BrelseUnlock(p) \/ BrelsePut(p)
         \/ \E k \in Blocks : Bget(p, k)
         \/ \E v \in Vals : Modify(p, v)
  PROVE  Quiet(p)
PROOF
<1>. USE DEF Waiting
<1>t. pc \in [Uses -> PCs] /\ mine \in [Uses -> Bufs \cup {None}] /\ UserInv
  BY DEF BcIInv, BcTypeOK
<1>1. ASSUME NEW k \in Blocks, Bget(p, k) PROVE Quiet(p)
  <2>1. pc[p] = "idle" /\ pc' = [pc EXCEPT ![p] = "lock"] /\ UNCHANGED <<disk, idequeue, ctl, irq>>
    BY <1>1, SMTT(30) DEF Bget, Goto
  <2>2. CASE Hit(p, k)
    <3>1. PICK b \in Bufs :
             /\ mine' = [mine EXCEPT ![p] = b]
             /\ buf'[b].blk = buf[b].blk /\ buf'[b].valid = buf[b].valid /\ buf'[b].dirty = buf[b].dirty
             /\ buf'[b].lock = buf[b].lock /\ buf'[b].data = buf[b].data
             /\ \A c \in Bufs : c # b => buf'[c] = buf[c]
      BY <2>2, Zenon DEF Hit
    <3>. QED
      BY <1>t, <2>1, <3>1 DEF Quiet
  <2>3. CASE Miss(p, k)
    <3>1. PICK b \in Bufs :
             /\ mine' = [mine EXCEPT ![p] = b] /\ buf[b].ref = 0
             /\ \A c \in Bufs : c # b => buf'[c] = buf[c]
      BY <2>3, Zenon DEF Miss
    <3>2. buf[b].lock \notin Uses
      BY <3>1, NoUser, NoneAssumption
    <3>. QED
      BY <1>t, <2>1, <3>1, <3>2 DEF Quiet
  <2>4. CASE UNCHANGED <<buf, mine>>
    <3>1. pc[p] \notin Waiting /\ pc'[p] \notin Waiting /\ \A q \in Uses : q # p => pc'[q] = pc[q]
      BY <1>t, <2>1
    <3>. QED
      BY <2>1, <2>4, <3>1, Zenon DEF Quiet
  <2>. QED
    BY <1>1, <2>2, <2>3, <2>4, BgetStep, Zenon
<1>2. ASSUME NEW v \in Vals, Modify(p, v) PROVE Quiet(p)
  <2>1. /\ pc[p] \in {"have", "changed"} /\ pc' = [pc EXCEPT ![p] = "changed"]
        /\ UNCHANGED <<disk, idequeue, ctl, irq, mine>>
    BY <1>2, SMTT(30) DEF Modify
  <2>2. \A c \in Bufs : c # mine[p] => buf'[c] = buf[c]
    BY <1>2, ModifyStep, Zenon
  <2>3. pc[p] \in Locked
    BY <2>1 DEF Locked
  <2>4. buf[mine[p]].lock = p
    BY <2>3, LockFacts, Zenon
  <2>5. pc[p] \notin Waiting /\ pc'[p] \notin Waiting /\ \A q \in Uses : q # p => pc'[q] = pc[q]
    BY <1>t, <2>1
  <2>. QED
    BY <2>1, <2>2, <2>4, <2>5, Zenon DEF Quiet
<1>3. ASSUME LogWrite(p) \/ Bwrite(p) \/ BrelseUnlock(p) PROVE Quiet(p)
  <2>1. /\ pc[p] \in {"have", "changed"} /\ \E c \in {"have", "iderw", "put"} : pc' = [pc EXCEPT ![p] = c]
        /\ UNCHANGED <<disk, idequeue, ctl, irq, mine>>
    BY <1>3 DEF LogWrite, Bwrite, BrelseUnlock, Goto
  <2>2. \A c \in Bufs : c # mine[p] => buf'[c] = buf[c]
    BY <1>3, LogWriteStep, BwriteStep, BrelseUnlockStep, ZenonT(40)
  <2>3. pc[p] \in Locked
    BY <2>1 DEF Locked
  <2>4. buf[mine[p]].lock = p
    BY <2>3, LockFacts, Zenon
  <2>5. pc[p] \notin Waiting /\ pc'[p] \notin Waiting /\ \A q \in Uses : q # p => pc'[q] = pc[q]
    BY <1>t, <2>1
  <2>. QED
    BY <2>1, <2>2, <2>4, <2>5, Zenon DEF Quiet
<1>4. ASSUME BreadLocked(p) PROVE Quiet(p)
  <2>1. /\ pc[p] = "lock" /\ \E c \in {"have", "iderw"} : pc' = [pc EXCEPT ![p] = c]
        /\ UNCHANGED <<disk, idequeue, ctl, irq, mine>> /\ buf[mine[p]].lock = None
    <3>1. /\ pc[p] = "lock" /\ pc' = [pc EXCEPT ![p] = IF buf[mine[p]].valid THEN "have" ELSE "iderw"]
          /\ UNCHANGED <<disk, idequeue, ctl, irq, mine>> /\ buf[mine[p]].lock = None
      BY <1>4, Zenon DEF BreadLocked, Goto
    <3>2. (IF buf[mine[p]].valid THEN "have" ELSE "iderw") \in {"have", "iderw"}
      OBVIOUS
    <3>. QED
      BY <3>1, <3>2, Zenon
  <2>2. \A c \in Bufs : c # mine[p] => buf'[c] = buf[c]
    BY <1>4, BreadLockedStep, ZenonT(40)
  <2>. QED
    BY <1>t, <2>1, <2>2, NoneAssumption DEF Quiet
<1>5. ASSUME BrelsePut(p) PROVE Quiet(p)
  <2>1. /\ pc[p] = "put" /\ pc' = [pc EXCEPT ![p] = "idle"] /\ mine' = [mine EXCEPT ![p] = None]
        /\ UNCHANGED <<disk, idequeue, ctl, irq>>
    BY <1>5 DEF BrelsePut, Goto
  <2>2. \A c \in Bufs :
          /\ buf'[c].blk = buf[c].blk /\ buf'[c].valid = buf[c].valid /\ buf'[c].dirty = buf[c].dirty
          /\ buf'[c].lock = buf[c].lock /\ buf'[c].data = buf[c].data
    BY <1>5, BrelsePutStep, Zenon
  <2>. QED
    BY <1>t, <2>1, <2>2 DEF Quiet
<1>. QED
  BY <1>1, <1>2, <1>3, <1>4, <1>5, SMTT(30)

\* The queue has every unfinished request once, whatever is appended to it
\* and whenever its head is finished.
LEMMA NextQueueInv == ASSUME BcIInv, Next PROVE QueueInv'
PROOF
<1>0. QueueInv /\ UserInv /\ ~panic
  BY DEF BcIInv, Next
<1>t. /\ pc \in [Uses -> PCs] /\ mine \in [Uses -> Bufs \cup {None}] /\ idequeue \in Seq(Bufs)
      /\ Len(idequeue) \in Nat /\ \A i \in 1 .. Len(idequeue) : idequeue[i] \in Bufs
  BY SMTT(30) DEF BcIInv, BcTypeOK
<1>w. \A q \in Uses : pc[q] \in Waiting => mine[q] \in Bufs /\ buf[mine[q]].lock = q
  BY <1>0, UserFacts, SMTT(30) DEF Locked, Waiting
<1>q. /\ \A i \in 1 .. Len(idequeue) :
            /\ buf[idequeue[i]].lock \in Uses
            /\ pc[buf[idequeue[i]].lock] \in Waiting
            /\ ~Synced(idequeue[i])
      /\ \A i, j \in 1 .. Len(idequeue) : idequeue[i] = idequeue[j] => i = j
      /\ \A q \in Uses : pc[q] \in Waiting =>
            Synced(mine[q]) \/ \E i \in 1 .. Len(idequeue) : idequeue[i] = mine[q]
      /\ \A q \in Uses : pc[q] = "asleep" => ~Synced(mine[q])
  BY <1>0, Zenon DEF QueueInv
<1>r. ASSUME \A i \in 1 .. Len(idequeue') :
               /\ buf'[idequeue'[i]].lock \in Uses
               /\ pc'[buf'[idequeue'[i]].lock] \in Waiting
               /\ ~(buf'[idequeue'[i]].valid /\ ~buf'[idequeue'[i]].dirty),
             \A i, j \in 1 .. Len(idequeue') : idequeue'[i] = idequeue'[j] => i = j,
             \A q \in Uses : pc'[q] \in Waiting =>
               \/ buf'[mine'[q]].valid /\ ~buf'[mine'[q]].dirty
               \/ \E i \in 1 .. Len(idequeue') : idequeue'[i] = mine'[q],
             \A q \in Uses : pc'[q] = "asleep" => ~(buf'[mine'[q]].valid /\ ~buf'[mine'[q]].dirty)
      PROVE  QueueInv'
  BY <1>r, Zenon DEF QueueInv, Synced
<1>1. ASSUME NEW p \in Uses, Quiet(p) PROVE QueueInv'
  <2>0. "asleep" \in Waiting
    BY DEF Waiting
  <2>1. /\ "asleep" \in Waiting /\ pc'[p] \notin Waiting /\ idequeue' = idequeue
        /\ \A q \in Uses : q # p => pc'[q] = pc[q] /\ mine'[q] = mine[q]
    BY <1>1, <2>0, Zenon DEF Quiet
  <2>2. ASSUME NEW c \in Bufs, buf[c].lock \in Uses, buf[c].lock # p
        PROVE  buf'[c].valid = buf[c].valid /\ buf'[c].dirty = buf[c].dirty /\ buf'[c].lock = buf[c].lock
    BY <1>1, <2>2, Zenon DEF Quiet
  <2>3. ASSUME NEW i \in 1 .. Len(idequeue) PROVE idequeue[i] \in Bufs /\ buf[idequeue[i]].lock # p
    <3>1. pc[buf[idequeue[i]].lock] \in Waiting /\ pc[p] \notin Waiting
      BY <1>q, <1>1, Zenon DEF Quiet
    <3>. QED
      BY <1>t, <3>1, Zenon
  <2>4. ASSUME NEW i \in 1 .. Len(idequeue')
        PROVE  /\ buf'[idequeue'[i]].lock \in Uses
               /\ pc'[buf'[idequeue'[i]].lock] \in Waiting
               /\ ~(buf'[idequeue'[i]].valid /\ ~buf'[idequeue'[i]].dirty)
    <3>. DEFINE c == idequeue[i]
    <3>1. c \in Bufs /\ buf[c].lock \in Uses /\ buf[c].lock # p /\ pc[buf[c].lock] \in Waiting /\ ~Synced(c)
      BY <1>q, <2>1, <2>3, Zenon
    <3>2. idequeue'[i] = c
      BY <2>1, Zenon
    <3>. HIDE DEF c
    <3>3. buf'[c].valid = buf[c].valid /\ buf'[c].dirty = buf[c].dirty /\ buf'[c].lock = buf[c].lock
      BY <2>2, <3>1, Zenon
    <3>. QED
      BY <2>1, <3>1, <3>2, <3>3, ZenonT(60) DEF Synced
  <2>5. ASSUME NEW q \in Uses, pc'[q] \in Waiting
        PROVE  /\ q # p /\ pc[q] = pc'[q] /\ mine'[q] = mine[q]
               /\ buf'[mine[q]].valid = buf[mine[q]].valid /\ buf'[mine[q]].dirty = buf[mine[q]].dirty
    <3>1. q # p /\ pc[q] = pc'[q] /\ mine'[q] = mine[q]
      BY <2>1, <2>5, Zenon
    <3>2. mine[q] \in Bufs /\ buf[mine[q]].lock = q
      BY <1>w, <2>5, <3>1, Zenon
    <3>. QED
      BY <2>2, <3>1, <3>2, Zenon
  <2>6. ASSUME NEW q \in Uses, pc'[q] \in Waiting
        PROVE  \/ buf'[mine'[q]].valid /\ ~buf'[mine'[q]].dirty
               \/ \E i \in 1 .. Len(idequeue') : idequeue'[i] = mine'[q]
    <3>1. Synced(mine[q]) \/ \E i \in 1 .. Len(idequeue) : idequeue[i] = mine[q]
      BY <1>q, <2>5, <2>6, Zenon
    <3>. QED
      BY <2>1, <2>5, <2>6, <3>1, ZenonT(60) DEF Synced
  <2>7. ASSUME NEW q \in Uses, pc'[q] = "asleep" PROVE ~(buf'[mine'[q]].valid /\ ~buf'[mine'[q]].dirty)
    <3>1. pc'[q] \in Waiting
      BY <2>1, <2>7
    <3>2. pc[q] = "asleep"
      BY <2>5, <2>7, <3>1
    <3>3. ~Synced(mine[q])
      BY <1>q, <3>2, Zenon
    <3>. QED
      BY <2>5, <3>1, <3>3, Zenon DEF Synced
  <2>8. \A i, j \in 1 .. Len(idequeue') : idequeue'[i] = idequeue'[j] => i = j
    BY <1>q, <2>1, ZenonT(60)
  <2>. QED
    BY <1>r, <2>4, <2>6, <2>7, <2>8, Zenon
<1>2. ASSUME DiskDone PROVE QueueInv'
  BY <1>0, <1>2 DEF QueueInv, DiskDone, Synced
<1>3. ASSUME NEW p \in Uses, IderwSleep(p) \/ IderwDone(p) \/ Roused(p) PROVE QueueInv'
  <2>1. /\ UNCHANGED <<idequeue, buf, mine>> /\ pc[p] \in Waiting
        /\ \/ pc' = [pc EXCEPT ![p] = "have"] /\ Synced(mine[p])
           \/ pc' = [pc EXCEPT ![p] = "wait"]
           \/ pc' = [pc EXCEPT ![p] = "asleep"] /\ ~Synced(mine[p])
    BY <1>3 DEF IderwSleep, IderwDone, Roused, Goto, Waiting, Synced
  <2>2. \A q \in Uses : q # p => pc'[q] = pc[q]
    BY <1>t, <2>1
  <2>3. \/ pc'[p] \in Waiting
        \/ pc'[p] \notin Waiting /\ Synced(mine[p])
    BY <1>t, <2>1 DEF Waiting
  <2>4. pc'[p] = "asleep" => ~Synced(mine[p])
    BY <1>t, <2>1
  <2>5. ASSUME NEW i \in 1 .. Len(idequeue')
        PROVE  /\ buf'[idequeue'[i]].lock \in Uses
               /\ pc'[buf'[idequeue'[i]].lock] \in Waiting
               /\ ~(buf'[idequeue'[i]].valid /\ ~buf'[idequeue'[i]].dirty)
    <3>. DEFINE c == idequeue[i]
    <3>1. /\ c = idequeue'[i] /\ c \in Bufs /\ buf[c].lock \in Uses /\ pc[buf[c].lock] \in Waiting
          /\ ~Synced(c) /\ buf' = buf
      BY <1>q, <1>t, <2>1, Zenon
    <3>. HIDE DEF c
    <3>2. buf[c].lock = p => pc'[p] \in Waiting
      <4>. SUFFICES ASSUME buf[c].lock = p, Synced(mine[p]) PROVE FALSE
        BY <2>3, Zenon
      <4>1. mine[p] = c
        BY <1>0, <3>1 DEF UserInv
      <4>. QED
        BY <3>1, <4>1, Zenon
    <3>3. pc'[buf[c].lock] \in Waiting
      BY <2>2, <3>1, <3>2, Zenon
    <3>. QED
      BY <3>1, <3>3, Zenon DEF Synced
  <2>6. \A i, j \in 1 .. Len(idequeue') : idequeue'[i] = idequeue'[j] => i = j
    BY <1>q, <2>1, Zenon
  <2>7. ASSUME NEW q \in Uses, pc'[q] \in Waiting
        PROVE  \/ buf'[mine'[q]].valid /\ ~buf'[mine'[q]].dirty
               \/ \E i \in 1 .. Len(idequeue') : idequeue'[i] = mine'[q]
    <3>1. pc[q] \in Waiting
      BY <2>1, <2>2, <2>7, Zenon
    <3>2. Synced(mine[q]) \/ \E i \in 1 .. Len(idequeue) : idequeue[i] = mine[q]
      BY <1>q, <3>1, Zenon
    <3>. QED
      BY <2>1, <3>2, Zenon DEF Synced
  <2>8. ASSUME NEW q \in Uses, pc'[q] = "asleep" PROVE ~(buf'[mine'[q]].valid /\ ~buf'[mine'[q]].dirty)
    <3>1. ~Synced(mine[q])
      BY <1>q, <2>2, <2>4, <2>8, Zenon
    <3>. QED
      BY <2>1, <3>1, Zenon DEF Synced
  <2>. QED
    BY <1>r, <2>5, <2>6, <2>7, <2>8, Zenon
<1>4. ASSUME NEW p \in Uses, Iderw(p) PROVE QueueInv'
  <2>1. mine[p] \in Bufs /\ buf[mine[p]].lock = p /\ ~Synced(mine[p]) /\ pc[p] = "iderw"
    <3>1. pc[p] = "iderw"
      BY <1>4 DEF Iderw
    <3>. QED
      BY <1>0, <3>1, UserFacts DEF Locked
  <2>2. /\ pc' = [pc EXCEPT ![p] = "wait"] /\ idequeue' = Append(idequeue, mine[p])
        /\ UNCHANGED <<buf, mine>>
    BY <1>4, <2>1 DEF Iderw, Synced
  <2>3. /\ Len(idequeue') = Len(idequeue) + 1 /\ idequeue'[Len(idequeue) + 1] = mine[p]
        /\ \A i \in 1 .. Len(idequeue) : idequeue'[i] = idequeue[i]
    BY <1>t, <2>1, <2>2
  <2>4. \A i \in 1 .. Len(idequeue) : idequeue[i] # mine[p]
    <3>. SUFFICES ASSUME NEW i \in 1 .. Len(idequeue), idequeue[i] = mine[p] PROVE FALSE
      OBVIOUS
    <3>1. pc[p] \in Waiting
      BY <1>q, <2>1, ZenonT(60)
    <3>. QED
      BY <2>1, <3>1 DEF Waiting
  <2>5. pc'[p] = "wait" /\ \A q \in Uses : q # p => pc'[q] = pc[q]
    BY <1>t, <2>2
  <2>6. "wait" \in Waiting /\ "wait" # "asleep"
    BY DEF Waiting
  <2>i. \A i \in 1 .. Len(idequeue') :
          (i \in 1 .. Len(idequeue) /\ idequeue'[i] = idequeue[i]) \/ (i = Len(idequeue) + 1 /\ idequeue'[i] = mine[p])
    BY <1>t, <2>3
  <2>7. ASSUME NEW i \in 1 .. Len(idequeue')
        PROVE  /\ buf'[idequeue'[i]].lock \in Uses
               /\ pc'[buf'[idequeue'[i]].lock] \in Waiting
               /\ ~(buf'[idequeue'[i]].valid /\ ~buf'[idequeue'[i]].dirty)
    <3>1. CASE idequeue'[i] = mine[p]
      BY <2>1, <2>2, <2>5, <2>6, <3>1, ZenonT(60) DEF Synced
    <3>2. CASE i \in 1 .. Len(idequeue) /\ idequeue'[i] = idequeue[i]
      <4>. DEFINE c == idequeue[i]
      <4>1. /\ c = idequeue'[i] /\ buf[c].lock \in Uses /\ pc[buf[c].lock] \in Waiting
            /\ ~Synced(c) /\ buf' = buf
        BY <1>q, <2>2, <3>2, Zenon
      <4>. HIDE DEF c
      <4>2. pc'[buf[c].lock] \in Waiting
        BY <2>5, <2>6, <4>1, Zenon
      <4>. QED
        BY <4>1, <4>2, Zenon DEF Synced
    <3>. QED
      BY <2>i, <3>1, <3>2, Zenon
  <2>8. ASSUME NEW i \in 1 .. Len(idequeue'), NEW j \in 1 .. Len(idequeue'), idequeue'[i] = idequeue'[j]
        PROVE  i = j
    <3>1. CASE i = Len(idequeue) + 1 /\ idequeue'[i] = mine[p]
      BY <2>4, <2>i, <2>8, <3>1, Zenon
    <3>2. CASE j = Len(idequeue) + 1 /\ idequeue'[j] = mine[p]
      BY <2>4, <2>i, <2>8, <3>2, Zenon
    <3>3. CASE /\ i \in 1 .. Len(idequeue) /\ idequeue'[i] = idequeue[i]
               /\ j \in 1 .. Len(idequeue) /\ idequeue'[j] = idequeue[j]
      BY <1>q, <2>8, <3>3, Zenon
    <3>. QED
      BY <2>i, <3>1, <3>2, <3>3, Zenon
  <2>9. ASSUME NEW q \in Uses, pc'[q] \in Waiting
        PROVE  \/ buf'[mine'[q]].valid /\ ~buf'[mine'[q]].dirty
               \/ \E i \in 1 .. Len(idequeue') : idequeue'[i] = mine'[q]
    <3>1. CASE q = p
      BY <1>t, <2>2, <2>3, <3>1
    <3>2. CASE q # p
      <4>1. Synced(mine[q]) \/ \E i \in 1 .. Len(idequeue) : idequeue[i] = mine[q]
        BY <1>q, <2>5, <2>9, <3>2, Zenon
      <4>2. \A i \in 1 .. Len(idequeue) : i \in 1 .. Len(idequeue')
        BY <1>t, <2>3
      <4>. QED
        BY <2>2, <2>3, <4>1, <4>2, Zenon DEF Synced
    <3>. QED
      BY <3>1, <3>2
  <2>10. ASSUME NEW q \in Uses, pc'[q] = "asleep" PROVE ~(buf'[mine'[q]].valid /\ ~buf'[mine'[q]].dirty)
    <3>1. ~Synced(mine[q])
      BY <1>q, <2>5, <2>6, <2>10, Zenon
    <3>. QED
      BY <2>2, <3>1, Zenon DEF Synced
  <2>. QED
    BY <1>r, <2>7, <2>8, <2>9, <2>10, Zenon
<1>5. ASSUME IdeIntr PROVE QueueInv'
  <2>. USE DEF Waiting, Synced
  <2>. DEFINE b == idequeue[1]
  <2>1. /\ b \in Bufs /\ buf'[b].valid /\ ~buf'[b].dirty
        /\ \A c \in Bufs : buf'[c].lock = buf[c].lock
        /\ \A c \in Bufs : c # b => buf'[c] = buf[c]
    BY <1>0, <1>5, IdeIntrStep, Zenon
  <2>2. /\ \A q \in Uses : pc'[q] = IF pc[q] = "asleep" /\ mine[q] = b THEN "wait" ELSE pc[q]
        /\ mine' = mine /\ idequeue' = Tail(idequeue) /\ idequeue # <<>>
    BY <1>0, <1>5, IdeIntrStep DEF IdeIntr
  <2>3. Len(idequeue') = Len(idequeue) - 1 /\ \A i \in 1 .. Len(idequeue') : idequeue'[i] = idequeue[i + 1]
    BY <1>t, <2>2, SMTT(30)
  <2>4. \A i \in 1 .. Len(idequeue') : i + 1 \in 1 .. Len(idequeue) /\ idequeue'[i] # b /\ idequeue'[i] \in Bufs
    BY <1>0, <1>t, <2>2, <2>3, SMTT(30) DEF QueueInv
  <2>5. \A c \in Bufs : c # b /\ (\E i \in 1 .. Len(idequeue) : idequeue[i] = c) =>
                         \E i \in 1 .. Len(idequeue') : idequeue'[i] = c
    BY <1>t, <2>2, <2>3, SMTT(30)
  <2>. HIDE DEF b
  <2>6. \A i \in 1 .. Len(idequeue') :
          /\ buf'[idequeue'[i]].lock \in Uses
          /\ pc'[buf'[idequeue'[i]].lock] \in Waiting
          /\ ~(buf'[idequeue'[i]].valid /\ ~buf'[idequeue'[i]].dirty)
    <3>. SUFFICES ASSUME NEW i \in 1 .. Len(idequeue')
                  PROVE  /\ buf'[idequeue'[i]].lock \in Uses
                         /\ pc'[buf'[idequeue'[i]].lock] \in Waiting
                         /\ ~(buf'[idequeue'[i]].valid /\ ~buf'[idequeue'[i]].dirty)
      BY Zenon
    <3>1. PICK c \in Bufs : c = idequeue'[i] /\ c = idequeue[i + 1] /\ c # b
      BY <2>3, <2>4, Zenon
    <3>2. buf[c].lock \in Uses /\ pc[buf[c].lock] \in Waiting /\ ~(buf[c].valid /\ ~buf[c].dirty)
      BY <1>q, <2>4, <3>1, Zenon
    <3>3. buf'[c] = buf[c]
      BY <2>1, <3>1, Zenon
    <3>4. pc'[buf[c].lock] \in Waiting
      BY <2>2, <3>2
    <3>. QED
      BY <3>1, <3>2, <3>3, <3>4, Zenon
  <2>7. \A i, j \in 1 .. Len(idequeue') : idequeue'[i] = idequeue'[j] => i = j
    <3>. SUFFICES ASSUME NEW i \in 1 .. Len(idequeue'), NEW j \in 1 .. Len(idequeue'), idequeue'[i] = idequeue'[j]
                  PROVE  i = j
      OBVIOUS
    <3>1. i + 1 = j + 1
      BY <1>0, <2>3, <2>4, SMTT(30) DEF QueueInv
    <3>. QED
      BY <1>t, <2>3, <3>1
  <2>8. ASSUME NEW q \in Uses, pc'[q] \in Waiting
        PROVE  (buf'[mine[q]].valid /\ ~buf'[mine[q]].dirty) \/ \E i \in 1 .. Len(idequeue') : idequeue'[i] = mine[q]
    <3>1. pc[q] \in Waiting /\ mine[q] \in Bufs
      BY <1>w, <2>2, <2>8, SMTT(30)
    <3>. QED
      BY <1>0, <2>1, <2>5, <3>1 DEF QueueInv
  <2>9. ASSUME NEW q \in Uses, pc'[q] = "asleep"
        PROVE  ~(buf'[mine[q]].valid /\ ~buf'[mine[q]].dirty)
    <3>1. pc[q] = "asleep" /\ mine[q] # b /\ mine[q] \in Bufs
      BY <1>w, <2>2, <2>9, SMTT(30)
    <3>. QED
      BY <1>0, <2>1, <3>1 DEF QueueInv
  <2>. QED
    BY <2>2, <2>6, <2>7, <2>8, <2>9 DEF QueueInv
<1>. QED
  BY <1>0, <1>1, <1>2, <1>3, <1>4, <1>5, QuietSteps, SMTT(30) DEF Next, Hardware, Step, Drive

\* The controller always works on the request at the head of the queue.
LEMMA NextControllerInv == ASSUME BcIInv, Next PROVE ControllerInv'
PROOF
<1>0. ControllerInv /\ QueueInv /\ UserInv /\ ~panic
  BY DEF BcIInv, Next
<1>t. /\ idequeue \in Seq(Bufs) /\ Len(idequeue) \in Nat
      /\ ctl \in Requests \cup {None} /\ buf \in [Bufs -> BufRecords]
  BY DEF BcIInv, BcTypeOK
<1>h. idequeue # <<>> => idequeue[1] \in Bufs /\ 1 \in 1 .. Len(idequeue)
  BY HeadFacts, Zenon DEF BcIInv
<1>1. ASSUME NEW p \in Uses, Quiet(p) PROVE ControllerInv'
  <2>1. idequeue # <<>> => buf[idequeue[1]].lock \in Uses /\ buf[idequeue[1]].lock # p
    BY <1>0, <1>1, <1>h DEF QueueInv, Quiet
  <2>2. UNCHANGED <<disk, idequeue, ctl, irq>>
    BY <1>1, Zenon DEF Quiet
  <2>3. idequeue # <<>> =>
           /\ buf'[idequeue[1]].blk = buf[idequeue[1]].blk /\ buf'[idequeue[1]].dirty = buf[idequeue[1]].dirty
           /\ buf'[idequeue[1]].data = buf[idequeue[1]].data
    BY <1>1, <1>h, <2>1, Zenon DEF Quiet
  <2>. QED
    BY <1>0, <2>2, <2>3 DEF ControllerInv
<1>2. ASSUME DiskDone PROVE ControllerInv'
  <2>1. UNCHANGED <<buf, idequeue>> /\ irq' /\ ctl # None /\ ctl \in Requests
    BY <1>2, <1>t, SMTT(30) DEF DiskDone
  <2>2. CASE ctl.write
    <3>1. disk' = [disk EXCEPT ![ctl.blk] = ctl.data] /\ ctl' = ctl /\ ctl.blk \in Blocks /\ DOMAIN disk = Blocks
      BY <1>2, <2>1, <2>2 DEF DiskDone, Requests, BcIInv, BcTypeOK
    <3>2. disk'[ctl.blk] = ctl.data
      BY <3>1
    <3>. QED
      BY <1>0, <2>1, <3>1, <3>2 DEF ControllerInv
  <2>3. CASE ~ctl.write
    <3>1. ctl' = [ctl EXCEPT !.data = disk[ctl.blk]] /\ disk' = disk
      BY <1>2, <2>3 DEF DiskDone
    <3>2. /\ ctl' # None /\ ctl'.blk = ctl.blk /\ ctl'.write = ctl.write /\ ctl'.data = disk[ctl.blk]
      <4>1. disk[ctl.blk] \in Vals
        BY <2>1 DEF BcIInv, BcTypeOK, Requests
      <4>2. ctl' \in Requests
        BY <2>1, <3>1, <4>1, SMTT(30) DEF Requests
      <4>. QED
        BY <2>1, <3>1, <4>2, NoneAssumption, SMTT(30) DEF Requests
    <3>. QED
      BY <1>0, <2>1, <2>3, <3>1, <3>2 DEF ControllerInv
  <2>. QED
    BY <2>2, <2>3
<1>3. ASSUME NEW p \in Uses, IderwSleep(p) \/ IderwDone(p) \/ Roused(p) PROVE ControllerInv'
  <2>1. UNCHANGED <<disk, buf, idequeue, ctl, irq>>
    BY <1>3, SMTT(30) DEF IderwSleep, IderwDone, Roused
  <2>. QED
    BY <1>0, <2>1 DEF ControllerInv
<1>r. ASSUME NEW b \in Bufs, buf[b].blk \in Blocks
      PROVE  /\ Request(b) # None /\ Request(b).blk = buf[b].blk /\ Request(b).write = buf[b].dirty
             /\ buf[b].dirty => Request(b).data = buf[b].data
  <2>1. Request(b) \in Requests
    BY <1>t, <1>r DEF Request, Requests, BufRecords
  <2>2. Request(b) # None
    BY <2>1, NoneAssumption DEF Requests
  <2>. QED
    BY <2>2 DEF Request
<1>4. ASSUME NEW p \in Uses, Iderw(p) PROVE ControllerInv'
  <2>1. /\ mine[p] \in Bufs /\ buf[mine[p]].blk \in Blocks
        /\ buf[mine[p]].lock = p /\ ~Synced(mine[p]) /\ pc[p] = "iderw"
    <3>1. pc[p] = "iderw"
      BY <1>4 DEF Iderw
    <3>2. pc[p] \in Locked /\ pc[p] # "idle"
      BY <3>1 DEF Locked
    <3>. QED
      BY <1>0, <3>1, <3>2, UserFacts, Zenon
  <2>2. /\ idequeue' = Append(idequeue, mine[p])
        /\ ctl' = IF idequeue = <<>> THEN Request(mine[p]) ELSE ctl
        /\ UNCHANGED <<buf, disk, irq>>
    BY <1>4, <2>1, SMTT(30) DEF Iderw
  <2>3. CASE idequeue = <<>>
    <3>1. idequeue' # <<>> /\ idequeue'[1] = mine[p]
      BY <1>t, <2>1, <2>2, <2>3, SMTT(30)
    <3>2. ctl' = Request(mine[p]) /\ ~irq'
      BY <1>0, <2>2, <2>3, SMTT(30) DEF ControllerInv
    <3>3. /\ ctl' # None /\ ctl'.blk = buf'[mine[p]].blk /\ ctl'.write = buf'[mine[p]].dirty
          /\ buf'[mine[p]].dirty => ctl'.data = buf'[mine[p]].data
      BY <1>r, <2>1, <2>2, <3>2, Zenon
    <3>. QED
      BY <3>1, <3>2, <3>3 DEF ControllerInv
  <2>4. CASE idequeue # <<>>
    <3>1. idequeue' # <<>> /\ idequeue'[1] = idequeue[1]
      BY <1>t, <1>h, <2>1, <2>2, <2>4, SMTT(30)
    <3>2. ctl' = ctl
      BY <2>2, <2>4
    <3>. QED
      BY <1>0, <2>2, <2>4, <3>1, <3>2, SMTT(30) DEF ControllerInv
  <2>. QED
    BY <2>3, <2>4, SMTT(30)
<1>5. ASSUME IdeIntr PROVE ControllerInv'
  <2>1. /\ ~irq' /\ idequeue' = Tail(idequeue) /\ idequeue # <<>> /\ ctl' = IntrNext /\ idequeue[1] \in Bufs
    BY <1>5, <1>h, SMTT(30) DEF IdeIntr
  <2>2. CASE Len(idequeue) > 1
    <3>. DEFINE b == idequeue[2]
    <3>1. 2 \in 1 .. Len(idequeue) /\ b \in Bufs
      BY <1>t, <2>2
    <3>2. idequeue' # <<>> /\ idequeue'[1] = b
      <4>1. idequeue \in Seq(Bufs)
        BY <1>t
      <4>2. Len(Tail(idequeue)) = Len(idequeue) - 1 /\ Tail(idequeue)[1] = idequeue[2]
        BY <2>2, <4>1
      <4>3. Tail(idequeue) # <<>>
        <5>1. Len(<<>>) = 0
          OBVIOUS
        <5>2. Len(Tail(idequeue)) # 0
          BY <1>t, <2>2, <4>2, SMTT(30)
        <5>. QED
          BY <5>1, <5>2, Zenon
      <4>. QED
        BY <2>1, <4>2, <4>3, Zenon
    <3>3. b # idequeue[1] /\ buf[b].lock \in Uses /\ pc[buf[b].lock] \in Waiting
      BY <1>0, <1>h, <2>1, <3>1, SMTT(30) DEF QueueInv
    <3>4. mine[buf[b].lock] = b
      BY <1>0, <3>1, <3>3, ZenonT(60) DEF UserInv
    <3>5. buf[b].blk \in Blocks
      BY <1>0, <3>3, <3>4, UserFacts DEF Waiting
    <3>6. buf'[b] = buf[b]
      BY <1>0, <1>5, <3>1, <3>3, IdeIntrStep, Zenon
    <3>7. ctl' = Request(b)
      BY <2>1, <2>2 DEF IntrNext
    <3>. HIDE DEF b
    <3>8. /\ ctl' # None /\ ctl'.blk = buf'[b].blk /\ ctl'.write = buf'[b].dirty
          /\ buf'[b].dirty => ctl'.data = buf'[b].data
      BY <1>r, <3>1, <3>5, <3>6, <3>7, Zenon
    <3>. QED
      BY <2>1, <3>2, <3>8 DEF ControllerInv
  <2>3. CASE ~(Len(idequeue) > 1)
    <3>1. idequeue' = <<>>
      BY <1>t, <2>1, <2>3
    <3>2. ctl' = None
      BY <2>1, <2>3 DEF IntrNext
    <3>. QED
      BY <2>1, <3>1, <3>2 DEF ControllerInv
  <2>. QED
    BY <2>2, <2>3
<1>. QED
  BY <1>0, <1>1, <1>2, <1>3, <1>4, <1>5, QuietSteps, SMTT(30) DEF Next, Hardware, Step, Drive

-----------------------------------------------------------------------------
(* Buffers and the disk *)

\* The buffers that must agree with the disk.
Clean(b) ==
    buf[b].valid /\ ~buf[b].dirty /\ \A p \in Uses : buf[b].lock = p => pc[p] # "changed"

\* A clean buffer has what is on the disk, through reads, writes and reuse.
LEMMA NextDataInv == ASSUME BcIInv, Next PROVE DataInv'
PROOF
<1>0. DataInv /\ UserInv /\ CacheInv /\ ControllerInv /\ ~panic
  BY DEF BcIInv, Next
<1>d. DataInv <=> \A b \in Bufs : Clean(b) => buf[b].data = disk[buf[b].blk]
  BY DEF DataInv, Clean
<1>e. DataInv' <=> \A b \in Bufs : Clean(b)' => buf'[b].data = disk'[buf'[b].blk]
  BY DEF DataInv, Clean
<1>t. pc \in [Uses -> PCs]
  BY DEF BcIInv, BcTypeOK
<1>1. ASSUME disk' = disk,
             \A c \in Bufs : Clean(c)' => Clean(c) /\ buf'[c].data = buf[c].data /\ buf'[c].blk = buf[c].blk
      PROVE  DataInv'
  BY <1>0, <1>1, <1>d, <1>e, SMTT(30)
<1>2. ASSUME DiskDone PROVE DataInv'
  <2>1. UNCHANGED <<buf, pc>> /\ ctl # None
    BY <1>2 DEF DiskDone
  <2>2. CASE ctl.write
    <3>1. idequeue[1] \in Bufs /\ ctl.blk = buf[idequeue[1]].blk /\ buf[idequeue[1]].dirty
      <4>1. idequeue # <<>> /\ BcTypeOK
        BY <1>0, <2>1 DEF BcIInv, ControllerInv
      <4>2. ctl.blk = buf[idequeue[1]].blk /\ buf[idequeue[1]].dirty
        BY <1>0, <2>1, <2>2, Zenon DEF ControllerInv
      <4>. QED
        BY <4>1, <4>2, HeadFacts, SMTT(30)
    <3>2. /\ disk' = [disk EXCEPT ![ctl.blk] = ctl.data] /\ ctl.blk # None
          /\ disk \in [Blocks -> Vals] /\ buf \in [Bufs -> BufRecords]
      <4>1. disk' = [disk EXCEPT ![ctl.blk] = ctl.data]
        BY <1>2, <2>2 DEF DiskDone
      <4>2. ctl \in Requests /\ disk \in [Blocks -> Vals] /\ buf \in [Bufs -> BufRecords]
        BY <2>1 DEF BcIInv, BcTypeOK
      <4>3. ctl.blk # None
        BY <4>2, NoneAssumption DEF Requests
      <4>. QED
        BY <4>1, <4>2, <4>3
    <3>3. ASSUME NEW c \in Bufs, Clean(c)' PROVE buf'[c].data = disk'[buf'[c].blk]
      <4>1. Clean(c) /\ c # idequeue[1]
        BY <2>1, <3>1, <3>3, SMTT(30) DEF Clean
      <4>2. buf[c].blk # ctl.blk /\ buf[c].blk \in Blocks
        <5>1. buf[c].blk # None /\ (buf[c].blk = buf[idequeue[1]].blk => c = idequeue[1])
          BY <1>0, <4>1, <3>1 DEF CacheInv, Clean
        <5>2. buf[c].blk \in Blocks \cup {None}
          BY <3>2 DEF BufRecords
        <5>. QED
          BY <3>1, <4>1, <5>1, <5>2, Zenon
      <4>. QED
        BY <1>0, <1>d, <2>1, <3>2, <4>1, <4>2, SMTT(30)
    <3>. QED
      BY <1>e, <3>3
  <2>3. CASE ~ctl.write
    <3>1. disk' = disk
      BY <1>2, <2>3, SMTT(30) DEF DiskDone
    <3>. QED
      BY <1>1, <2>1, <3>1 DEF Clean
  <2>. QED
    BY <2>2, <2>3
<1>3. ASSUME NEW p \in Uses, Drive(p) PROVE DataInv'
  <2>1. UNCHANGED <<disk, buf>> /\ pc[p] # "changed"
    BY <1>3 DEF Drive, Iderw, IderwSleep, IderwDone, Roused, Goto
  <2>2. \A q \in Uses : q # p => pc'[q] = pc[q]
    <3>1. pc' = pc \/ \E c \in PCs : pc' = [pc EXCEPT ![p] = c]
      BY <1>3 DEF Drive, Iderw, IderwSleep, IderwDone, Roused, Goto, PCs, Locked
    <3>. QED
      BY <1>t, <3>1, SMTT(30)
  <2>. QED
    BY <1>1, <2>1, <2>2, SMTT(30) DEF Clean
<1>4. ASSUME IdeIntr PROVE DataInv'
  <2>. DEFINE b == idequeue[1]
  <2>1. /\ b \in Bufs /\ ctl # None /\ irq
        /\ buf'[b].blk = buf[b].blk
        /\ (buf[b].dirty => buf'[b].data = buf[b].data)
        /\ (~buf[b].dirty => buf'[b].data = ctl.data)
        /\ \A c \in Bufs : c # b => buf'[c] = buf[c]
    BY <1>0, <1>4, IdeIntrStep, Zenon
  <2>2. \A q \in Uses : pc'[q] = "changed" <=> pc[q] = "changed"
    BY <1>4 DEF IdeIntr
  <2>3. disk' = disk
    BY <1>4, SMTT(30) DEF IdeIntr
  <2>4. buf'[b].data = disk'[buf'[b].blk]
    <3>1. ctl # None /\ irq
      BY <1>0, <1>4, IdeIntrStep, Zenon
    <3>2. /\ ctl.blk = buf[b].blk /\ ctl.write = buf[b].dirty /\ ctl.data = disk[ctl.blk]
          /\ ctl.write => ctl.data = buf[b].data
      BY <1>0, <3>1 DEF ControllerInv
    <3>. QED
      BY <2>1, <2>3, <3>2
  <2>5. ASSUME NEW c \in Bufs, c # b, Clean(c)' PROVE buf'[c].data = disk'[buf'[c].blk]
    <3>1. Clean(c) /\ buf'[c] = buf[c]
      BY <2>1, <2>2, <2>5 DEF Clean
    <3>. QED
      BY <1>0, <1>d, <2>3, <3>1, SMTT(30)
  <2>. QED
    BY <1>e, <2>4, <2>5
<1>5. ASSUME NEW p \in Uses, NEW k \in Blocks, Bget(p, k) PROVE DataInv'
  <2>1. /\ disk' = disk /\ \A q \in Uses : pc'[q] = "changed" <=> pc[q] = "changed"
    BY <1>5, <1>t, SMTT(30) DEF Bget, Goto
  <2>2. CASE Hit(p, k)
    <3>1. PICK b \in Bufs :
             /\ buf'[b].blk = buf[b].blk /\ buf'[b].valid = buf[b].valid /\ buf'[b].dirty = buf[b].dirty
             /\ buf'[b].lock = buf[b].lock /\ buf'[b].data = buf[b].data
             /\ \A c \in Bufs : c # b => buf'[c] = buf[c]
      BY <2>2, Zenon DEF Hit
    <3>2. ASSUME NEW c \in Bufs
          PROVE  /\ buf'[c].blk = buf[c].blk /\ buf'[c].valid = buf[c].valid /\ buf'[c].dirty = buf[c].dirty
                 /\ buf'[c].lock = buf[c].lock /\ buf'[c].data = buf[c].data
      BY <3>1, Zenon
    <3>. QED
      BY <1>1, <2>1, <3>2 DEF Clean
  <2>3. CASE Miss(p, k)
    <3>1. PICK b \in Bufs : ~buf'[b].valid /\ \A c \in Bufs : c # b => buf'[c] = buf[c]
      BY <2>3, Zenon DEF Miss
    <3>. QED
      BY <1>1, <2>1, <3>1 DEF Clean
  <2>4. CASE UNCHANGED <<buf, mine>>
    BY <1>1, <2>1, <2>4, SMTT(30) DEF Clean
  <2>. QED
    BY <1>0, <1>5, <2>2, <2>3, <2>4, BgetStep, Zenon
<1>6. ASSUME NEW p \in Uses, BreadLocked(p) PROVE DataInv'
  <2>1. /\ disk' = disk /\ buf[mine[p]].lock = None /\ \A q \in Uses : q # p => pc'[q] = pc[q]
    BY <1>6, <1>t DEF BreadLocked, Goto
  <2>2. /\ mine[p] \in Bufs /\ \A c \in Bufs : c # mine[p] => buf'[c] = buf[c]
        /\ buf'[mine[p]].blk = buf[mine[p]].blk /\ buf'[mine[p]].valid = buf[mine[p]].valid
        /\ buf'[mine[p]].dirty = buf[mine[p]].dirty /\ buf'[mine[p]].data = buf[mine[p]].data
    BY <1>0, <1>6, BreadLockedStep, Zenon
  <2>3. \A c \in Bufs : buf[c].lock # p
    <3>1. pc[p] \notin Locked
      BY <1>6 DEF BreadLocked, Locked
    <3>. QED
      BY <1>0, <3>1, Zenon DEF UserInv
  <2>4. ASSUME NEW c \in Bufs, Clean(c)' PROVE Clean(c) /\ buf'[c].data = buf[c].data /\ buf'[c].blk = buf[c].blk
    <3>1. CASE c = mine[p]
      <4>1. \A q \in Uses : buf[c].lock # q
        BY <2>1, <3>1, NoneAssumption
      <4>. QED
        BY <2>2, <2>4, <3>1, <4>1, Zenon DEF Clean
    <3>2. CASE c # mine[p]
      <4>1. buf'[c] = buf[c]
        BY <2>2, <3>2, Zenon
      <4>. QED
        BY <2>1, <2>3, <2>4, <4>1, Zenon DEF Clean
    <3>. QED
      BY <3>1, <3>2, Zenon
  <2>. QED
    BY <1>1, <2>1, <2>4, Zenon
<1>7. ASSUME NEW p \in Uses, NEW v \in Vals, Modify(p, v) PROVE DataInv'
  <2>1. /\ disk' = disk /\ pc'[p] = "changed" /\ \A q \in Uses : q # p => pc'[q] = pc[q]
        /\ pc[p] \in {"have", "changed"}
    BY <1>7, <1>t DEF Modify
  <2>2. /\ mine[p] \in Bufs /\ \A c \in Bufs : c # mine[p] => buf'[c] = buf[c]
        /\ buf'[mine[p]].lock = buf[mine[p]].lock
    BY <1>0, <1>7, ModifyStep, Zenon
  <2>l. pc[p] \in Locked
    BY <2>1 DEF Locked
  <2>3. buf[mine[p]].lock = p /\ \A c \in Bufs : c # mine[p] => buf[c].lock # p
    BY <1>0, <2>l, LockFacts, Zenon
  <2>. QED
    BY <1>1, <2>1, <2>2, <2>3 DEF Clean
<1>8. ASSUME NEW p \in Uses, LogWrite(p) \/ Bwrite(p) PROVE DataInv'
  <2>1. /\ disk' = disk /\ pc[p] \in {"have", "changed"} /\ \A q \in Uses : q # p => pc'[q] = pc[q]
    BY <1>8, <1>t DEF LogWrite, Bwrite, Goto
  <2>2. /\ mine[p] \in Bufs /\ buf'[mine[p]].dirty /\ \A c \in Bufs : c # mine[p] => buf'[c] = buf[c]
    BY <1>0, <1>8, LogWriteStep, BwriteStep, Zenon
  <2>l. pc[p] \in Locked
    BY <2>1 DEF Locked
  <2>3. \A c \in Bufs : c # mine[p] => buf[c].lock # p
    BY <1>0, <2>l, LockFacts, Zenon
  <2>. QED
    BY <1>1, <2>1, <2>2, <2>3 DEF Clean
<1>9. ASSUME NEW p \in Uses, BrelseUnlock(p) PROVE DataInv'
  <2>1. /\ disk' = disk /\ pc[p] = "have" /\ \A q \in Uses : q # p => pc'[q] = pc[q]
    BY <1>9, <1>t DEF BrelseUnlock, Goto
  <2>2. /\ mine[p] \in Bufs /\ \A c \in Bufs : c # mine[p] => buf'[c] = buf[c]
        /\ buf'[mine[p]].blk = buf[mine[p]].blk /\ buf'[mine[p]].valid = buf[mine[p]].valid
        /\ buf'[mine[p]].dirty = buf[mine[p]].dirty /\ buf'[mine[p]].data = buf[mine[p]].data
    BY <1>0, <1>9, BrelseUnlockStep, Zenon
  <2>l. pc[p] \in Locked
    BY <2>1 DEF Locked
  <2>3. buf[mine[p]].lock = p
    BY <1>0, <2>l, LockFacts, Zenon
  <2>. QED
    BY <1>1, <2>1, <2>2, <2>3 DEF Clean
<1>10. ASSUME NEW p \in Uses, BrelsePut(p) PROVE DataInv'
  <2>1. /\ disk' = disk /\ pc[p] = "put" /\ \A q \in Uses : q # p => pc'[q] = pc[q]
    BY <1>10, <1>t DEF BrelsePut, Goto
  <2>2. \A c \in Bufs :
          /\ buf'[c].blk = buf[c].blk /\ buf'[c].valid = buf[c].valid /\ buf'[c].dirty = buf[c].dirty
          /\ buf'[c].lock = buf[c].lock /\ buf'[c].data = buf[c].data
    BY <1>0, <1>10, BrelsePutStep, Zenon
  <2>. QED
    BY <1>1, <2>1, <2>2 DEF Clean
<1>. QED
  BY <1>0, <1>2, <1>3, <1>4, <1>5, <1>6, <1>7, <1>8, <1>9, <1>10, SMTT(30) DEF Next, Hardware, Step

-----------------------------------------------------------------------------
(* The theorems *)

\* BcIInv is inductive: it holds of the boot state and every step of bio.c,
\* ide.c and the disk keeps it.
THEOREM BcacheInductive == Spec => []BcIInv
PROOF
<1>1. BcIInv /\ [Next]_vars => BcIInv'
  <2>1. ASSUME BcIInv, Next PROVE BcIInv'
    BY <2>1, NextBcTypeOK, NextUserInv, NextCacheInv, NextQueueInv, NextControllerInv, NextDataInv, SMTT(30) DEF BcIInv
  <2>2. ASSUME BcIInv, UNCHANGED vars PROVE BcIInv'
    <3>1. UNCHANGED <<disk, buf, idequeue, ctl, irq, pc, mine, panic, want, lru>>
      BY <2>2, ZenonT(40) DEF vars, ideVars
    <3>2. BcTypeOK' /\ UserInv'
      BY <2>2, <3>1 DEF BcIInv, BcTypeOK, UserInv, Synced
    <3>3. CacheInv'
      BY <2>2, <3>1, Zenon DEF BcIInv, CacheInv
    <3>5. QueueInv'
      <4>1. \A b : Synced(b)' <=> Synced(b)
        BY <3>1 DEF Synced
      <4>2. QueueInv
        BY <2>2, SMTT(30) DEF BcIInv
      <4>. QED
        BY <3>1, <4>1, <4>2, Zenon DEF QueueInv
    <3>4. ControllerInv' /\ DataInv'
      BY <2>2, <3>1, Zenon DEF BcIInv, ControllerInv, DataInv
    <3>. QED
      BY <3>2, <3>3, <3>4, <3>5 DEF BcIInv
  <2>. QED
    BY <2>1, <2>2
<1>. QED
  BY <1>1, InitBcIInv, PTL DEF Spec

\* No block is ever in two buffers, every reference count is the number of
\* processes that use the buffer, and no buffer is queued twice.
THEOREM BcacheOneBuffer == Spec => []OneBufferPerBlock
PROOF
<1>1. BcIInv => OneBufferPerBlock
  <2>. SUFFICES ASSUME BcIInv PROVE OneBufferPerBlock
    OBVIOUS
  <2>1. ASSUME NEW k \in Blocks PROVE Cardinality(Cached(k)) <= 1
    <3>1. \A b, c \in Cached(k) : b = c
      BY NoneAssumption DEF BcIInv, CacheInv, Cached
    <3>. QED
      BY <3>1, AtMostOne, SMTT(30)
  <2>2. ASSUME NEW b \in Bufs PROVE Cardinality({i \in DOMAIN idequeue : idequeue[i] = b}) <= 1
    <3>. DEFINE S == {i \in DOMAIN idequeue : idequeue[i] = b}
    <3>1. DOMAIN idequeue = 1 .. Len(idequeue)
      BY SMTT(30) DEF BcIInv, BcTypeOK
    <3>2. \A i, j \in S : i = j
      <4>1. \A i, j \in 1 .. Len(idequeue) : idequeue[i] = idequeue[j] => i = j
        BY Zenon DEF BcIInv, QueueInv
      <4>. QED
        BY <3>1, <4>1
    <3>. QED
      BY <3>2, AtMostOne
  <2>3. \A b \in Bufs : buf[b].ref = Cardinality({p \in Uses : mine[p] = b})
    BY Zenon DEF BcIInv, CacheInv
  <2>. QED
    BY <2>1, <2>2, <2>3 DEF OneBufferPerBlock
<1>. QED
  BY <1>1, BcacheInductive, PTL

\* No request is forgotten: whoever sleeps in iderw has its buffer in the
\* queue, and the controller has the request at the queue's head.
THEOREM BcacheRequestPending == Spec => []RequestPending
PROOF
<1>1. BcIInv => RequestPending
  <2>. SUFFICES ASSUME BcIInv PROVE RequestPending
    OBVIOUS
  <2>1. (idequeue = <<>> <=> ctl = None) /\ (idequeue # <<>> => ctl.blk = buf[Head(idequeue)].blk)
    BY HeadFacts DEF BcIInv, ControllerInv
  <2>2. ASSUME NEW p \in Uses, pc[p] = "asleep" PROVE \E i \in DOMAIN idequeue : idequeue[i] = mine[p]
    <3>1. PICK i \in 1 .. Len(idequeue) : idequeue[i] = mine[p]
      BY <2>2 DEF BcIInv, QueueInv, Waiting
    <3>2. DOMAIN idequeue = 1 .. Len(idequeue)
      BY DEF BcIInv, BcTypeOK
    <3>. QED
      BY <3>1, <3>2
  <2>. QED
    BY <2>1, <2>2 DEF RequestPending
<1>. QED
  BY <1>1, BcacheInductive, PTL

-----------------------------------------------------------------------------
(* bget finds a buffer *)

\* Only log_write adds to the dirty buffers that are not on their way to the
\* disk, and only within its bound.
LEMMA NextKeptInv == ASSUME BcIInv, KeptInv, Next PROVE KeptInv'
PROOF
<1>0. UserInv /\ CacheInv /\ ~panic
  BY DEF BcIInv, Next
<1>t. pc \in [Uses -> PCs]
  BY DEF BcIInv, BcTypeOK
<1>f. ASSUME NEW S, S \subseteq Bufs PROVE IsFiniteSet(S) /\ Cardinality(S) \in Nat
  <2>1. IsFiniteSet(Bufs)
    BY FS_Interval, SizesAssumption DEF Bufs
  <2>2. IsFiniteSet(S)
    BY <1>f, <2>1, FS_Subset, Zenon
  <2>. QED
    BY <2>2, FS_CardinalityType, Zenon
<1>1. ASSUME Kept' \subseteq Kept PROVE KeptInv'
  <2>1. Kept \subseteq Bufs
    BY DEF Kept
  <2>2. Kept' \subseteq Bufs
    BY <1>1, <2>1
  <2>3. Cardinality(Kept') <= Cardinality(Kept)
    BY <1>1, <1>f, <2>1, FS_Subset
  <2>. QED
    BY <1>f, <2>1, <2>2, <2>3, PinAssumption DEF KeptInv
<1>2. ASSUME DiskDone PROVE Kept' \subseteq Kept
  BY <1>2, SMTT(30) DEF DiskDone, Kept
<1>3. ASSUME NEW p \in Uses, Drive(p) PROVE Kept' \subseteq Kept
  <2>1. /\ mine[p] \in Bufs /\ buf[mine[p]].lock = p /\ (pc[p] = "iderw" => ~Synced(mine[p]))
        /\ \A b \in Bufs : buf[b].lock = p => b = mine[p]
    <3>1. pc[p] \in Locked
      <4>1. pc[p] = "iderw" \/ pc[p] = "wait" \/ pc[p] = "asleep"
        BY <1>3, Zenon DEF Drive, Iderw, IderwSleep, IderwDone, Roused, Goto
      <4>. QED
        BY <4>1 DEF Locked
    <3>2. mine[p] \in Bufs /\ buf[mine[p]].lock = p /\ (\A b \in Bufs : b # mine[p] => buf[b].lock # p) /\ pc[p] # "idle"
      BY <1>0, <3>1, LockFacts, Zenon
    <3>3. pc[p] = "iderw" => ~Synced(mine[p])
      BY <1>0, <3>2, UserFacts, Zenon
    <3>. QED
      BY <3>2, <3>3, Zenon
  <2>2. /\ buf' = buf
        /\ \/ \E c \in {"wait", "asleep"} : pc' = [pc EXCEPT ![p] = c]
           \/ pc' = [pc EXCEPT ![p] = "have"] /\ Synced(mine[p])
    BY <1>3, <2>1 DEF Drive, Iderw, IderwSleep, IderwDone, Roused, Goto
  <2>3. /\ \A q \in Uses : q # p => pc'[q] = pc[q]
        /\ pc'[p] \in {"wait", "asleep"} \/ ~buf[mine[p]].dirty
    BY <1>t, <2>2, SMTT(30) DEF Synced
  <2>. QED
    BY <2>1, <2>2, <2>3, SMTT(30) DEF Kept
<1>4. ASSUME IdeIntr PROVE Kept' \subseteq Kept
  <2>1. /\ idequeue[1] \in Bufs /\ ~buf'[idequeue[1]].dirty
        /\ \A c \in Bufs : c # idequeue[1] => buf'[c] = buf[c]
    BY <1>0, <1>4, IdeIntrStep, Zenon
  <2>2. \A q \in Uses : pc'[q] = pc[q] \/ (pc[q] = "asleep" /\ pc'[q] = "wait")
    BY <1>4 DEF IdeIntr
  <2>3. ASSUME NEW c \in Kept' PROVE c \in Kept
    <3>1. c \in Bufs /\ buf'[c].dirty /\ c # idequeue[1]
      BY <2>1 DEF Kept
    <3>2. buf'[c] = buf[c]
      BY <2>1, <3>1
    <3>. QED
      BY <2>2, <3>1, <3>2 DEF Kept
  <2>. QED
    BY <2>3
<1>5. ASSUME NEW p \in Uses, NEW k \in Blocks, Bget(p, k) PROVE Kept' \subseteq Kept
  <2>1. pc[p] = "idle" /\ \A q \in Uses : q # p => pc'[q] = pc[q]
    BY <1>5, <1>t DEF Bget, Goto
  <2>2. \A b \in Bufs : buf'[b].dirty = buf[b].dirty /\ buf'[b].lock = buf[b].lock
    BY <1>0, <1>5, BgetStep, ZenonT(60) DEF Hit, Miss
  <2>. QED
    BY <2>1, <2>2 DEF Kept
<1>6. ASSUME NEW p \in Uses, BreadLocked(p) PROVE Kept' \subseteq Kept
  <2>1. /\ pc[p] = "lock" /\ \A q \in Uses : q # p => pc'[q] = pc[q]
        /\ buf[mine[p]].lock = None
    BY <1>6, <1>t DEF BreadLocked, Goto
  <2>2. /\ mine[p] \in Bufs /\ \A c \in Bufs : c # mine[p] => buf'[c] = buf[c]
        /\ buf'[mine[p]].dirty = buf[mine[p]].dirty
    BY <1>0, <1>6, BreadLockedStep, Zenon
  <2>3. ASSUME NEW c \in Kept' PROVE c \in Kept
    <3>1. c \in Bufs /\ buf'[c].dirty
      BY <2>3, Zenon DEF Kept
    <3>2. CASE c = mine[p]
      <4>1. \A q \in Uses : buf[c].lock # q
        BY <2>1, <3>2, NoneAssumption
      <4>. QED
        BY <2>2, <3>1, <3>2, <4>1, Zenon DEF Kept
    <3>3. CASE c # mine[p]
      <4>1. buf'[c] = buf[c]
        BY <2>2, <3>1, <3>3, Zenon
      <4>2. pc[p] \notin {"iderw", "wait", "asleep"}
        BY <2>1
      <4>. QED
        BY <2>1, <2>3, <3>1, <4>1, <4>2, Zenon DEF Kept
    <3>. QED
      BY <3>2, <3>3, Zenon
  <2>. QED
    BY <2>3
<1>7. ASSUME NEW p \in Uses, NEW v \in Vals, Modify(p, v) PROVE Kept' \subseteq Kept
  <2>1. /\ pc[p] \in {"have", "changed"} /\ \A q \in Uses : q # p => pc'[q] = pc[q]
    BY <1>7, <1>t DEF Modify
  <2>2. \A b \in Bufs : buf'[b].dirty = buf[b].dirty /\ buf'[b].lock = buf[b].lock
    BY <1>0, <1>7, ModifyStep, Zenon
  <2>. QED
    BY <2>1, <2>2 DEF Kept
<1>8. ASSUME NEW p \in Uses, LogWrite(p) PROVE KeptInv'
  <2>1. Cardinality(Pinned \cup {mine[p]}) <= MaxPinned
    BY <1>8 DEF LogWrite
  <2>2. /\ mine[p] \in Bufs /\ \A c \in Bufs : c # mine[p] => buf'[c] = buf[c]
    BY <1>0, <1>8, LogWriteStep, Zenon
  <2>3. Kept' \subseteq Pinned \cup {mine[p]} /\ Pinned \cup {mine[p]} \subseteq Bufs
    BY <2>2 DEF Kept, Pinned
  <2>4. Cardinality(Kept') <= Cardinality(Pinned \cup {mine[p]})
    BY <1>f, <2>3, FS_Subset
  <2>5. Cardinality(Kept') \in Nat /\ Cardinality(Pinned \cup {mine[p]}) \in Nat
    BY <1>f, <2>3, SMTT(30)
  <2>. QED
    BY <2>1, <2>4, <2>5, PinAssumption DEF KeptInv
<1>9. ASSUME NEW p \in Uses, Bwrite(p) PROVE Kept' \subseteq Kept
  <2>1. /\ pc[p] \in {"have", "changed"} /\ pc'[p] = "iderw" /\ \A q \in Uses : q # p => pc'[q] = pc[q]
    BY <1>9, <1>t DEF Bwrite
  <2>2. /\ mine[p] \in Bufs /\ \A c \in Bufs : c # mine[p] => buf'[c] = buf[c]
        /\ buf'[mine[p]].lock = buf[mine[p]].lock
    BY <1>0, <1>9, BwriteStep, Zenon
  <2>l. pc[p] \in Locked
    BY <2>1 DEF Locked
  <2>3. buf[mine[p]].lock = p
    BY <1>0, <2>l, LockFacts, Zenon
  <2>. QED
    BY <2>1, <2>2, <2>3 DEF Kept
<1>10. ASSUME NEW p \in Uses, BrelseUnlock(p) PROVE Kept' \subseteq Kept
  <2>1. /\ pc[p] = "have" /\ \A q \in Uses : q # p => pc'[q] = pc[q]
    BY <1>10, <1>t DEF BrelseUnlock, Goto
  <2>2. /\ mine[p] \in Bufs /\ \A c \in Bufs : c # mine[p] => buf'[c] = buf[c]
        /\ buf'[mine[p]].dirty = buf[mine[p]].dirty
    BY <1>0, <1>10, BrelseUnlockStep, Zenon
  <2>3. buf[mine[p]].lock = p
    BY <1>0, <2>1 DEF UserInv, Locked
  <2>. QED
    BY <2>1, <2>2, <2>3 DEF Kept
<1>11. ASSUME NEW p \in Uses, BrelsePut(p) PROVE Kept' \subseteq Kept
  <2>1. /\ pc[p] = "put" /\ \A q \in Uses : q # p => pc'[q] = pc[q]
    BY <1>11, <1>t DEF BrelsePut, Goto
  <2>2. \A b \in Bufs : buf'[b].dirty = buf[b].dirty /\ buf'[b].lock = buf[b].lock
    BY <1>0, <1>11, BrelsePutStep, Zenon
  <2>. QED
    BY <2>1, <2>2 DEF Kept
<1>. QED
  BY <1>1, <1>2, <1>3, <1>4, <1>5, <1>6, <1>7, <1>8, <1>9, <1>10, <1>11, SMTT(30) DEF Next, Hardware, Step

\* When bget finds no buffer, the uses under way and the buffers the log may
\* pin account for all of them.
LEMMA AllInUse ==
  ASSUME BcIInv, KeptInv, ~panic, Unused = {}
  PROVE  IsFiniteSet(Active) /\ Cardinality(Active) \in Nat /\ NBUF <= Cardinality(Active) + MaxPinned
PROOF
<1>. DEFINE F == [q \in Active |-> mine[q]]
            H == {b \in Bufs : \E q \in Active : mine[q] = b}
<1>1. IsFiniteSet(Active) /\ Cardinality(Active) \in Nat
  <2>1. Active \subseteq Uses
    BY DEF Active
  <2>. QED
    BY <2>1, SizesAssumption, FS_Subset, FS_CardinalityType, Zenon
<1>2. IsFiniteSet(H) /\ Cardinality(H) <= Cardinality(Active)
  <2>2. F \in Surjection(Active, H)
    <3>1. \A q \in Active : F[q] \in H
      BY NoneAssumption DEF Active, BcIInv, BcTypeOK, UserInv
    <3>2. \A b \in H : \E q \in Active : F[q] = b
      OBVIOUS
    <3>4. F = [q \in Active |-> F[q]]
      OBVIOUS
    <3>. HIDE DEF F, H
    <3>3. F \in [Active -> H]
      BY <3>1, <3>4
    <3>. QED
      BY <3>2, <3>3 DEF Surjection
  <2>. HIDE DEF F, H
  <2>. QED
    BY <1>1, <2>2, FS_Surjection
<1>4. Bufs = H \cup Kept
  <2>1. Kept \subseteq Bufs /\ H \subseteq Bufs
    BY DEF Kept
  <2>2. ASSUME NEW b \in Bufs, b \notin H PROVE b \in Kept
    <3>1. \A q \in Uses : mine[q] # b
      BY <2>2, NoneAssumption, SMTT(30) DEF Active, BcIInv, UserInv
    <3>2. buf[b].ref = 0
      <4>1. {q \in Uses : mine[q] = b} = {}
        BY <3>1
      <4>. QED
        BY <4>1, FS_EmptySet DEF BcIInv, CacheInv
    <3>3. buf[b].dirty
      BY <3>2, SMTT(30) DEF Unused, BcIInv, BcTypeOK
    <3>4. \A q \in Uses : buf[b].lock # q
      BY <3>1 DEF BcIInv, UserInv
    <3>. QED
      BY <3>3, <3>4 DEF Kept
  <2>. QED
    BY <2>1, <2>2
<1>. HIDE DEF H
<1>5. IsFiniteSet(Kept) /\ Cardinality(Kept) \in Nat /\ Cardinality(H) \in Nat
  <2>1. IsFiniteSet(Bufs) /\ Kept \subseteq Bufs
    BY FS_Interval, SizesAssumption DEF Bufs, Kept
  <2>. QED
    BY <1>2, <2>1, FS_Subset, FS_CardinalityType, SMTT(30)
<1>6. Cardinality(Bufs) = NBUF
  BY FS_Interval, SizesAssumption DEF Bufs
<1>7. Cardinality(H \cup Kept) <= Cardinality(H) + Cardinality(Kept)
  <2>1. IsFiniteSet(H \cap Kept)
    BY <1>2, FS_Subset
  <2>2. Cardinality(H \cap Kept) \in Nat
    BY <2>1, FS_CardinalityType
  <2>3. Cardinality(H \cup Kept) = Cardinality(H) + Cardinality(Kept) - Cardinality(H \cap Kept)
    BY <1>2, <1>5, FS_Union, Zenon
  <2>. QED
    BY <1>5, <2>2, <2>3
<1>8. NBUF <= Cardinality(Active) + MaxPinned
  BY <1>1, <1>2, <1>4, <1>5, <1>6, <1>7, SizesAssumption, PinAssumption, SMTT(30) DEF KeptInv
<1>. QED
  BY <1>1, <1>8

\* iderw never panics, and bget only when the uses under way, with its own, and
\* the buffers the log may pin are more than there are buffers: counts that are
\* lowered and dirty bits that are cleared give every buffer back.
THEOREM BcacheAvailable == Spec => []BufferAvailable
PROOF
<1>. DEFINE I == KeptInv /\ BufferAvailable
<1>1. Init => I
  <2>. SUFFICES ASSUME Init PROVE I
    BY SMTT(30)
  <2>1. Kept = {} /\ ~panic
    BY DEF Init, Kept
  <2>. QED
    BY <2>1, FS_EmptySet, PinAssumption DEF KeptInv, BufferAvailable
<1>2. BcIInv /\ I /\ [Next]_vars => I'
  <2>1. ASSUME BcIInv, I, Next PROVE I'
    <3>0. ~panic
      BY <2>1 DEF Next
    <3>1. ASSUME NEW p \in Uses, NEW k \in Blocks, Bget(p, k), panic' PROVE BufferAvailable'
      <4>1. Unused = {} /\ pc[p] = "idle" /\ pc' = [pc EXCEPT ![p] = "lock"]
        BY <3>0, <3>1, Zenon DEF Bget, Goto
      <4>2. IsFiniteSet(Active) /\ Cardinality(Active) \in Nat /\ NBUF <= Cardinality(Active) + MaxPinned
        BY <2>1, <3>0, <4>1, AllInUse
      <4>3. pc \in [Uses -> PCs]
        BY <2>1 DEF BcIInv, BcTypeOK
      <4>4. Active' = Active \cup {p} /\ p \notin Active
        BY <4>1, <4>3 DEF Active
      <4>5. Cardinality(Active') = Cardinality(Active) + 1
        <5>1. Cardinality(Active \cup {p}) = IF p \in Active THEN Cardinality(Active) ELSE Cardinality(Active) + 1
          BY <4>2, FS_AddElement, Zenon
        <5>. QED
          BY <4>4, <5>1, Zenon
      <4>. QED
        <5>1. ~(Cardinality(Active') + MaxPinned <= NBUF)
          BY <4>2, <4>5, SizesAssumption, PinAssumption, SMTT(30)
        <5>. QED
          BY <5>1 DEF BufferAvailable
    <3>2. ASSUME NEW p \in Uses, Iderw(p) PROVE ~panic'
      <4>1. pc[p] = "iderw" /\ ~Synced(mine[p]) /\ buf[mine[p]].lock = p
        BY <2>1, <3>0, <3>2, UserFacts DEF Iderw, Locked
      <4>. QED
        BY <3>0, <3>2, <4>1, Zenon DEF Iderw
    <3>3. ASSUME NEW p \in Uses, IderwSleep(p) \/ IderwDone(p) \/ Roused(p) \/ BreadLocked(p) \/ LogWrite(p)
                 \/ Bwrite(p) \/ BrelseUnlock(p) \/ BrelsePut(p) \/ \E v \in Vals : Modify(p, v)
          PROVE  panic' = panic
      BY <3>3, Zenon DEF IderwSleep, IderwDone, Roused, BreadLocked, LogWrite, Bwrite, BrelseUnlock, BrelsePut, Modify
    <3>4. ASSUME Hardware PROVE panic' = panic
      BY <3>4, Zenon DEF Hardware, DiskDone, IdeIntr
    <3>5. panic' => \E p \in Uses, k \in Blocks : Bget(p, k)
      BY <2>1, <3>0, <3>2, <3>3, <3>4, Zenon DEF Next, Step, Drive
    <3>6. BufferAvailable'
      <4>1. CASE panic'
        BY <3>1, <3>5, <4>1, Zenon
      <4>2. CASE ~panic'
        BY <4>2 DEF BufferAvailable
      <4>. QED
        BY <4>1, <4>2
    <3>. QED
      BY <2>1, <3>6, NextKeptInv
  <2>2. ASSUME I, UNCHANGED vars PROVE I'
    BY <2>2 DEF vars, ideVars, KeptInv, Kept, BufferAvailable, Active
  <2>. QED
    BY <2>1, <2>2
<1>3. I => BufferAvailable
  OBVIOUS
<1>. HIDE DEF I
<1>. QED
  BY <1>1, <1>2, <1>3, BcacheInductive, PTL DEF Spec
=============================================================================
