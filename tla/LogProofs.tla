------------------------------ MODULE LogProofs ------------------------------
(***************************************************************************)
(* The log of log.c for any number of processes, blocks and contents: a    *)
(* commit runs alone, sleepers of begin_op are never forgotten, the space  *)
(* that begin_op reserves is enough, and the log implements the            *)
(* transactional disk of TxDisk, with a crash possible between any two     *)
(* disk writes of a commit or a recovery.                                  *)
(***************************************************************************)
EXTENDS Log, FiniteSetTheorems, SequenceTheorems, TLAPS

Active == {p \in Procs : pc[p] = "op"}
CommitPCs == PCs \ {"idle", "op"}

LogTypeOK ==
    /\ home \in [Blocks -> Vals]
    /\ logblk \in [1 .. LOGSIZE -> Vals]
    /\ hdr \in Seq(Blocks)
    /\ mem \in [Blocks -> Vals]
    /\ lh \in Seq(Blocks)
    /\ outstanding \in Nat
    /\ committing \in BOOLEAN
    /\ pc \in [Procs -> PCs]
    /\ held \in [Procs -> Blocks \cup {NoBlock}]
    /\ wrote \in [Procs -> SUBSET Blocks]
    /\ tail \in [Procs -> Nat]
    /\ rtail \in Nat
    /\ asleep \subseteq Procs
    /\ boot \in {"up", "read_head", "install"}

\* log.outstanding counts the calls in progress; a commit excludes them, and
\* between transactions the log in memory is empty.
CallInv ==
    /\ outstanding = Cardinality(Active)
    /\ \A p \in Procs : pc[p] \in CommitPCs =>
          committing /\ \A q \in Procs \ {p} : pc[q] = "idle"
    /\ committing => \E p \in Procs : pc[p] \in CommitPCs
    /\ ~committing /\ Active = {} /\ boot = "up" => lh = <<>>
    /\ \A p \in Procs : pc[p] = "done" => lh = <<>>
    /\ boot # "up" => \A p \in Procs : pc[p] = "idle"

NoDuplicates(s) == \A i, j \in 1 .. Len(s) : s[i] = s[j] => i = j

\* Only a call holds a buffer or has changed blocks, and the blocks it has
\* changed are logged, but for the one it still holds.
BlockInv ==
    /\ \A p \in Procs : pc[p] # "op" => held[p] = NoBlock /\ wrote[p] = {}
    /\ \A p \in Procs : held[p] # NoBlock => held[p] \in wrote[p]
    /\ \A p \in Procs : wrote[p] \ {held[p]} \subseteq Elems(lh)
    /\ \A p \in Procs : IsFiniteSet(wrote[p]) /\ Cardinality(wrote[p]) <= OpBlocks
    /\ NoDuplicates(lh) /\ NoDuplicates(hdr)

\* The reservations still open: one pair <<p, i>> for each block that the call
\* of p has not logged yet, one less than begin_op has set aside.
Open == {r \in Active \X (1 .. MAXOPBLOCKS - 1) :
            r[2] > Cardinality(wrote[r[1]] \cap Elems(lh))}

\* The transaction has had a single call, which has logged every block in it.
Solo == \E p \in Procs : Active = {p} /\ Elems(lh) \subseteq wrote[p]

\* The transaction has had several calls at a time: since each reserves one
\* block more than it needs, two of the log stay free.
Group == Len(lh) + Cardinality(Open) + 2 <= LOGSIZE

SpaceInv ==
    /\ panic = "none"
    /\ Len(hdr) + 2 <= LOGSIZE
    /\ Len(lh) + 2 <= LOGSIZE
    /\ Active # {} => Solo \/ Group

LogIInv == LogTypeOK /\ CallInv /\ BlockInv /\ SpaceInv /\ SleepersMustWait

-----------------------------------------------------------------------------
(* Lemmas *)

\* A list without duplicates has as many members as places.
LEMMA ElemsCount ==
    ASSUME NEW s \in Seq(Blocks), NoDuplicates(s)
    PROVE  IsFiniteSet(Elems(s)) /\ Cardinality(Elems(s)) = Len(s)
<1>1. Len(s) \in Nat /\ \A i \in 1 .. Len(s) : s[i] \in Blocks
  BY LenProperties, ElementOfSeq
<1>2. [i \in 1 .. Len(s) |-> s[i]] \in Bijection(1 .. Len(s), Elems(s))
  BY <1>1 DEF Bijection, Injection, Surjection, IsInjective, Elems, NoDuplicates
<1>3. ExistsBijection(1 .. Len(s), Elems(s))
  BY <1>2 DEF ExistsBijection
<1>4. IsFiniteSet(1 .. Len(s)) /\ Cardinality(1 .. Len(s)) = Len(s)
  <2>1. 1 \in Int /\ Len(s) \in Int
    BY <1>1
  <2>2. /\ IsFiniteSet(1 .. Len(s))
        /\ Cardinality(1 .. Len(s)) = IF 1 > Len(s) THEN 0 ELSE Len(s) - 1 + 1
    BY <2>1, FS_Interval, Zenon
  <2> QED
    BY <1>1, <2>2
<1> QED
  BY <1>3, <1>4, FS_Bijection

\* What log_write does to the list: the block is in it, once, and the other
\* entries stay where they are.
LEMMA AbsorbFacts ==
    ASSUME lh \in Seq(Blocks), NEW b \in Blocks
    PROVE  /\ Absorb(b) \in Seq(Blocks)
           /\ Elems(Absorb(b)) = Elems(lh) \cup {b}
           /\ Len(Absorb(b)) = IF b \in Elems(lh) THEN Len(lh) ELSE Len(lh) + 1
           /\ NoDuplicates(lh) => NoDuplicates(Absorb(b))
<1>1. Len(lh) \in Nat /\ \A i \in 1 .. Len(lh) : lh[i] \in Blocks
  BY LenProperties, ElementOfSeq
<1>2. CASE b \in Elems(lh)
  BY <1>2 DEF Absorb
<1>3. CASE b \notin Elems(lh)
  <2> DEFINE t == Append(lh, b)
  <2>1. /\ t \in Seq(Blocks) /\ Len(t) = Len(lh) + 1
        /\ \A i \in 1 .. Len(lh) : t[i] = lh[i]
        /\ t[Len(lh) + 1] = b
    BY AppendProperties
  <2>2. Absorb(b) = t
    BY <1>3 DEF Absorb
  <2> HIDE DEF t
  <2>3. Elems(t) = Elems(lh) \cup {b}
    <3>1. \A i \in 1 .. Len(t) : i \in 1 .. Len(lh) \/ i = Len(lh) + 1
      BY <1>1, <2>1
    <3>2. Elems(t) \subseteq Elems(lh) \cup {b}
      BY <2>1, <3>1 DEF Elems
    <3>3. 1 .. Len(lh) \subseteq 1 .. Len(t) /\ Len(lh) + 1 \in 1 .. Len(t)
      BY <1>1, <2>1
    <3>4. Elems(lh) \cup {b} \subseteq Elems(t)
      BY <2>1, <3>3 DEF Elems
    <3> QED
      BY <3>2, <3>4
  <2>4. ASSUME NoDuplicates(lh) PROVE NoDuplicates(t)
    BY <1>1, <1>3, <2>1, <2>4 DEF NoDuplicates, Elems
  <2> QED
    BY <1>3, <2>1, <2>2, <2>3, <2>4
<1> QED
  BY <1>2, <1>3

\* The calls in progress are finitely many.
LEMMA ActiveFinite == IsFiniteSet(Active) /\ Cardinality(Active) \in Nat
  BY ProcsAssumption, FS_Subset, FS_CardinalityType DEF Active

\* No call is in progress while a process commits.
LEMMA NoCallInCommit ==
    ASSUME CallInv, committing PROVE Active = {}
<1>1. PICK r \in Procs : pc[r] \in CommitPCs
  BY DEF CallInv
<1> QED
  BY <1>1 DEF CallInv, Active, CommitPCs, PCs

-----------------------------------------------------------------------------
(* The calls *)

\* The initial state satisfies the inductive invariant.
LEMMA InitLogIInv == Init => LogIInv
<1> SUFFICES ASSUME Init PROVE LogIInv
  OBVIOUS
<1>1. Active = {} /\ Cardinality(Active) = 0
  BY FS_EmptySet, Zenon DEF Init, Active
<1>2. LogTypeOK
  BY EmptySeq, Zenon DEF Init, LogTypeOK, PCs
<1>3. CallInv
  BY <1>1 DEF Init, CallInv, CommitPCs
<1>4. BlockInv
  BY FS_EmptySet, SizesAssumption DEF Init, BlockInv, NoDuplicates
<1>5. SpaceInv
  BY <1>1, SizesAssumption, CapacityAssumption, EmptySeq DEF Init, SpaceInv
<1>6. SleepersMustWait
  BY SMTT(30) DEF Init, SleepersMustWait
<1> QED
  BY <1>2, <1>3, <1>4, <1>5, <1>6 DEF LogIInv

\* Every step keeps the variables in their types.
LEMMA NextLogTypeOK == LogIInv /\ [Next]_vars => LogTypeOK'
<1> SUFFICES ASSUME LogTypeOK, CallInv, SpaceInv, [Next]_vars PROVE LogTypeOK'
  BY DEF LogIInv
<1> USE DEF LogTypeOK, PCs, diskVars, bootVars
<1>1. ASSUME NEW p \in Procs, BeginOp(p) PROVE LogTypeOK'
  BY <1>1 DEF BeginOp
<1>2. ASSUME NEW p \in Procs, BeginSleep(p) PROVE LogTypeOK'
  BY <1>2 DEF BeginSleep
<1>3. ASSUME NEW p \in Procs, EndOp(p) PROVE LogTypeOK'
  <2>1. outstanding - 1 \in Nat
    <3>1. Active # {}
      BY <1>3 DEF EndOp, Active
    <3>2. Cardinality(Active) \in Nat /\ Cardinality(Active) # 0
      BY <3>1, ActiveFinite, FS_EmptySet
    <3> QED
      BY <3>2 DEF CallInv
  <2> QED
    BY <1>3, <2>1, Zenon DEF EndOp
<1>4. ASSUME NEW p \in Procs, LogWrite(p) PROVE LogTypeOK'
  BY <1>4, AbsorbFacts DEF LogWrite
<1>5. ASSUME NEW p \in Procs, WriteLog(p) PROVE LogTypeOK'
  <2>1. tail[p] + 1 \in 1 .. Len(lh)
    BY <1>5, LenProperties DEF WriteLog
  <2>2. mem[lh[tail[p] + 1]] \in Vals
    BY <2>1, ElementOfSeq
  <2>3. logblk' \in [1 .. LOGSIZE -> Vals]
    BY <1>5, <2>2, Zenon DEF WriteLog
  <2>4. tail' \in [Procs -> Nat]
    BY <1>5 DEF WriteLog
  <2> QED
    BY <1>5, <2>3, <2>4 DEF WriteLog
<1>6. ASSUME NEW p \in Procs, WriteHead(p) PROVE LogTypeOK'
  BY <1>6 DEF WriteHead
<1>7. ASSUME NEW i \in 1 .. Len(lh), InstallBlock(i)
      PROVE  home' \in [Blocks -> Vals] /\ mem' \in [Blocks -> Vals]
  <2>1. Len(lh) \in Nat /\ i \in 1 .. LOGSIZE
    BY LenProperties, SizesAssumption DEF SpaceInv
  <2>2. logblk[i] \in Vals
    BY <2>1, Zenon
  <2> QED
    BY <1>7, <2>2 DEF InstallBlock
<1>8. ASSUME NEW p \in Procs, Install(p) PROVE LogTypeOK'
  <2>1. tail[p] + 1 \in 1 .. Len(lh)
    BY <1>8, LenProperties DEF Install
  <2> QED
    BY <1>7, <1>8, <2>1 DEF Install
<1>9. ASSUME NEW p \in Procs, Erase(p) PROVE LogTypeOK'
  BY <1>9, EmptySeq DEF Erase
<1>10. ASSUME NEW p \in Procs, CommitDone(p) PROVE LogTypeOK'
  BY <1>10, Zenon DEF CommitDone
<1>11. ASSUME NEW p \in Procs, NEW b \in Blocks, NEW v \in Vals, Modify(p, b, v)
       PROVE  LogTypeOK'
  BY <1>11, Zenon DEF Modify
<1>12. CASE Recover
  <2>1. CASE RecoverInstall
    <3>1. rtail + 1 \in 1 .. Len(lh)
      BY <2>1, LenProperties DEF RecoverInstall
    <3> QED
      BY <1>7, <2>1, <3>1 DEF RecoverInstall
  <2>2. CASE ReadHead
    BY <2>2 DEF ReadHead
  <2>3. CASE RecoverErase
    BY <2>3, EmptySeq DEF RecoverErase
  <2> QED
    BY <1>12, <2>1, <2>2, <2>3 DEF Recover
<1>13. CASE Crash
  BY <1>13, EmptySeq, Zenon DEF Crash
<1>14. CASE UNCHANGED vars
  BY <1>14 DEF vars
<1> QED
  BY <1>1, <1>2, <1>3, <1>4, <1>5, <1>6, <1>8, <1>9, <1>10, <1>11, <1>12, <1>13, <1>14, ZenonT(40)
  DEF Next, Progress

\* Steps that keep the places in the code, the lists and the flags.
CallsKept ==
    /\ UNCHANGED <<outstanding, committing, boot>>
    /\ \A p \in Procs : pc'[p] = pc[p]
    /\ lh = <<>> => lh' = <<>>

\* Every step keeps log.outstanding right and the commit alone.
LEMMA NextCallInv == LogIInv /\ [Next]_vars => CallInv'
<1> SUFFICES ASSUME LogTypeOK, CallInv, BlockInv, [Next]_vars PROVE CallInv'
  BY DEF LogIInv
<1> USE DEF LogTypeOK, PCs, diskVars, bootVars, Running
<1>1. ASSUME CallsKept PROVE CallInv'
  <2>1. Active' = Active
    BY <1>1 DEF CallsKept, Active
  <2> QED
    BY <1>1, <2>1, Zenon DEF CallsKept, CallInv
<1>2. ASSUME NEW p \in Procs, BeginOp(p) PROVE CallInv'
  <2>1. Active' = Active \cup {p} /\ p \notin Active
    BY <1>2 DEF BeginOp, Active
  <2>2. Cardinality(Active') = Cardinality(Active) + 1
    BY <2>1, ActiveFinite, FS_AddElement, Zenon
  <2>3. \A q \in Procs : pc[q] \notin CommitPCs
    BY <1>2 DEF BeginOp, MayBegin, CallInv
  <2> QED
    BY <1>2, <2>1, <2>2, <2>3 DEF BeginOp, MayBegin, CallInv, CommitPCs
<1>3. ASSUME NEW p \in Procs, EndOp(p) PROVE CallInv'
  <2>1. p \in Active /\ ~committing /\ \A q \in Procs : pc[q] \notin CommitPCs
    BY <1>3, NoCallInCommit DEF EndOp, Active, CallInv
  <2>2. Active' = Active \ {p}
    BY <1>3, <2>1 DEF EndOp, Active
  <2>3. Cardinality(Active') = Cardinality(Active) - 1
    BY <2>1, <2>2, ActiveFinite, FS_RemoveElement, Zenon
  <2>4. IsFiniteSet(Active') /\ (Active' = {} <=> Cardinality(Active') = 0)
    BY <2>2, ActiveFinite, FS_RemoveElement, FS_EmptySet, Zenon
  <2>5. outstanding' = Cardinality(Active')
    BY <1>3, <2>3 DEF EndOp, CallInv
  <2>6. CASE outstanding' = 0
    <3>1. \A q \in Procs \ {p} : pc[q] = "idle"
      BY <2>1, <2>2, <2>4, <2>5, <2>6 DEF Active, CommitPCs
    <3> QED
      BY <1>3, <2>1, <2>5, <2>6, <3>1, ZenonT(120) DEF EndOp, CallInv, CommitPCs
  <2>7. CASE outstanding' # 0
    BY <1>3, <2>1, <2>4, <2>5, <2>7, ZenonT(60) DEF EndOp, CallInv, CommitPCs
  <2> QED
    BY <2>6, <2>7
<1>4. ASSUME NEW p \in Procs, LogWrite(p) PROVE CallInv'
  <2>1. p \in Active
    BY <1>4 DEF LogWrite, BlockInv, Active
  <2>2. \A q \in Procs : pc[q] \notin CommitPCs
    BY <2>1, NoCallInCommit DEF CallInv
  <2>3. UNCHANGED <<outstanding, committing, boot, pc, Active>>
    BY <1>4 DEF LogWrite, Active
  <2> QED
    BY <2>1, <2>2, <2>3 DEF CallInv, CommitPCs
<1>5. ASSUME NEW p \in Procs, BeginSleep(p) \/ WriteLog(p) \/ Install(p) PROVE CallsKept
  BY <1>5 DEF BeginSleep, WriteLog, Install, CallsKept
<1>6. ASSUME NEW p \in Procs, NEW b \in Blocks, NEW v \in Vals, Modify(p, b, v)
      PROVE  CallsKept
  BY <1>6, Zenon DEF Modify, CallsKept
<1>7. ASSUME NEW p \in Procs, WriteHead(p) PROVE CallInv'
  <2>1. Active' = Active
    BY <1>7 DEF WriteHead, CommitReady, Active
  <2> QED
    BY <1>7, <2>1 DEF WriteHead, CommitReady, CallInv, CommitPCs
<1>8. ASSUME NEW p \in Procs, Erase(p) PROVE CallInv'
  <2>1. Active' = Active
    BY <1>8 DEF Erase, Installed, Active
  <2> QED
    BY <1>8, <2>1 DEF Erase, Installed, CallInv, CommitPCs
<1>9. ASSUME NEW p \in Procs, CommitDone(p) PROVE CallInv'
  <2>1. Active' = Active
    BY <1>9 DEF CommitDone, Active
  <2> QED
    BY <1>9, <2>1 DEF CommitDone, CallInv, CommitPCs
<1>10. CASE Recover
  <2>1. boot # "up" /\ UNCHANGED <<outstanding, committing, pc, Active>>
    BY <1>10 DEF Recover, ReadHead, RecoverInstall, RecoverErase, Active
  <2>2. boot' = "up" => lh' = <<>>
    BY <1>10 DEF Recover, ReadHead, RecoverInstall, RecoverErase
  <2> QED
    BY <2>1, <2>2 DEF CallInv, CommitPCs
<1>11. CASE Crash
  <2>1. Active' = {} /\ Cardinality(Active') = 0
    BY <1>11, FS_EmptySet, Zenon DEF Crash, Active
  <2> QED
    BY <1>11, <2>1 DEF Crash, CallInv, CommitPCs
<1>12. ASSUME UNCHANGED vars PROVE CallsKept
  BY <1>12 DEF vars, CallsKept
<1> QED
  BY <1>1, <1>2, <1>3, <1>4, <1>5, <1>6, <1>7, <1>8, <1>9, <1>10, <1>11, <1>12, SMTT(30)
  DEF Next, Progress

\* Every step keeps a changed block either logged or held by its call, and the
\* lists of blocks free of duplicates.
LEMMA NextBlockInv == LogIInv /\ [Next]_vars => BlockInv'
<1> SUFFICES ASSUME LogTypeOK, CallInv, BlockInv, [Next]_vars PROVE BlockInv'
  BY DEF LogIInv
<1> USE NoBlockAssumption DEF LogTypeOK, PCs, diskVars, bootVars, Running
<1>1. NoDuplicates(<<>>) /\ Elems(<<>>) = {}
  BY EmptySeq DEF NoDuplicates, Elems
<1>2. ASSUME NEW p \in Procs, BeginOp(p) PROVE BlockInv'
  BY <1>2 DEF BeginOp, BlockInv
<1>3. ASSUME NEW p \in Procs, EndOp(p) PROVE BlockInv'
  <2>1. ~committing
    BY <1>3, NoCallInCommit DEF EndOp, Active
  <2>2. IsFiniteSet({}) /\ Cardinality({}) <= OpBlocks
    BY FS_EmptySet, SizesAssumption
  <2> QED
    BY <1>3, <2>1, <2>2 DEF EndOp, BlockInv
<1>4. ASSUME NEW p \in Procs, LogWrite(p) PROVE BlockInv'
  <2>1. Elems(lh') = Elems(lh) \cup {held[p]} /\ NoDuplicates(lh')
    BY <1>4, AbsorbFacts, SMTT(30) DEF LogWrite, BlockInv
  <2> QED
    BY <1>4, <2>1 DEF LogWrite, BlockInv
<1>5. ASSUME NEW p \in Procs, NEW b \in Blocks, NEW v \in Vals, Modify(p, b, v)
      PROVE  BlockInv'
  <2>1. IsFiniteSet(wrote[p] \cup {b}) /\ Cardinality(wrote[p] \cup {b}) <= OpBlocks
    BY <1>5, FS_AddElement, Zenon DEF Modify, BlockInv
  <2>2. \A q \in Procs : /\ held'[q] = IF q = p THEN b ELSE held[q]
                         /\ wrote'[q] = IF q = p THEN wrote[q] \cup {b} ELSE wrote[q]
    BY <1>5, Zenon DEF Modify
  <2>3. wrote[p] \subseteq Elems(lh) /\ pc[p] = "op"
    BY <1>5, ZenonT(60) DEF Modify, BlockInv
  <2>4. UNCHANGED <<pc, lh, hdr>>
    BY <1>5, Zenon DEF Modify
  <2> QED
    BY <2>1, <2>2, <2>3, <2>4, ZenonT(120) DEF BlockInv
<1>6. ASSUME NEW p \in Procs,
             BeginSleep(p) \/ WriteLog(p) \/ WriteHead(p) \/ Install(p) \/ CommitDone(p)
      PROVE  BlockInv'
  <2>1. /\ UNCHANGED <<held, wrote, lh>> /\ (hdr' = hdr \/ hdr' = lh)
        /\ \A q \in Procs : pc'[q] # "op" => pc[q] # "op"
    BY <1>6 DEF BeginSleep, WriteLog, WriteHead, Install, CommitDone, CommitReady
  <2> QED
    BY <2>1, SMTT(30) DEF BlockInv
<1>7. ASSUME NEW p \in Procs, Erase(p) PROVE BlockInv'
  <2>1. \A q \in Procs : pc[q] # "op"
    BY <1>7, Zenon DEF Erase, Installed, CallInv, CommitPCs
  <2> QED
    BY <1>1, <1>7, <2>1 DEF Erase, BlockInv
<1>8. CASE Recover
  <2>1. \A q \in Procs : pc[q] # "op"
    BY <1>8 DEF Recover, ReadHead, RecoverInstall, RecoverErase, CallInv
  <2>2. /\ UNCHANGED <<held, wrote, pc>>
        /\ (lh' = lh \/ lh' = hdr \/ lh' = <<>>) /\ (hdr' = hdr \/ hdr' = <<>>)
    BY <1>8 DEF Recover, ReadHead, RecoverInstall, RecoverErase
  <2> QED
    BY <1>1, <2>1, <2>2 DEF BlockInv
<1>9. CASE Crash
  <2>1. IsFiniteSet({}) /\ Cardinality({}) <= OpBlocks
    BY FS_EmptySet, SizesAssumption
  <2> QED
    BY <1>1, <1>9, <2>1 DEF Crash, BlockInv
<1>10. CASE UNCHANGED vars
  BY <1>10 DEF vars, BlockInv
<1> QED
  BY <1>2, <1>3, <1>4, <1>5, <1>6, <1>7, <1>8, <1>9, <1>10, SMTT(30) DEF Next, Progress

-----------------------------------------------------------------------------
(* Log space *)

\* Steps that lengthen no list and open no reservation.
SpaceKept ==
    /\ UNCHANGED panic
    /\ Active' = Active
    /\ UNCHANGED <<lh, hdr>>
    /\ \A q \in Active : wrote[q] \subseteq wrote'[q]

\* The open reservations are finitely many.
LEMMA OpenFinite == IsFiniteSet(Open) /\ Cardinality(Open) \in Nat
<1>1. IsFiniteSet(1 .. MAXOPBLOCKS - 1)
  BY SizesAssumption, FS_Interval
<1>2. IsFiniteSet(Active \X (1 .. MAXOPBLOCKS - 1))
  BY <1>1, ActiveFinite, FS_Product, Zenon
<1> QED
  BY <1>2, FS_Subset, FS_CardinalityType, Zenon DEF Open

\* A reservation stays open only if the call logs no further block.
LEMMA OpenShrinks ==
    ASSUME BlockInv, BlockInv', Active' \subseteq Active,
           \A q \in Active' : wrote[q] \cap Elems(lh) \subseteq wrote'[q] \cap Elems(lh')
    PROVE  Open' \subseteq Open
<1> SUFFICES ASSUME NEW r \in Open' PROVE r \in Open
  OBVIOUS
<1>1. /\ r \in Active' \X (1 .. MAXOPBLOCKS - 1)
      /\ r[2] > Cardinality(wrote'[r[1]] \cap Elems(lh'))
  BY DEF Open
<1> DEFINE S == wrote[r[1]] \cap Elems(lh)
           T == wrote'[r[1]] \cap Elems(lh')
<1>2. r[1] \in Procs /\ r[1] \in Active /\ S \subseteq T
  BY <1>1, SMTT(30) DEF Active
<1>3. IsFiniteSet(S) /\ IsFiniteSet(T)
  BY <1>2, FS_Intersection, Zenon DEF BlockInv
<1> HIDE DEF S, T
<1>4. Cardinality(S) <= Cardinality(T) /\ Cardinality(S) \in Nat /\ Cardinality(T) \in Nat
  BY <1>2, <1>3, FS_Subset, FS_CardinalityType
<1>5. r[2] > Cardinality(S)
  <2>1. r[2] \in Nat /\ r[2] > Cardinality(T)
    BY <1>1 DEF T
  <2> QED
    BY <1>4, <2>1
<1> QED
  BY <1>1, <1>2, <1>5 DEF Open, S

\* Every step leaves the log room enough.  A call that begins while others are
\* active reserves MAXOPBLOCKS, a call that logs a new block uses up one of its
\* own reservations, and a call alone in its transaction needs no more than its
\* OpBlocks blocks.
LEMMA NextSpaceInv == LogIInv /\ [Next]_vars => SpaceInv'
<1> SUFFICES ASSUME LogTypeOK, CallInv, BlockInv, SpaceInv, [Next]_vars, CallInv', BlockInv'
             PROVE  SpaceInv'
  BY NextCallInv, NextBlockInv DEF LogIInv
<1> USE DEF diskVars, bootVars, Running
<1>1. /\ Len(lh) \in Nat /\ Len(hdr) \in Nat
      /\ Len(<<>>) = 0 /\ Elems(<<>>) = {}
  BY LenProperties, EmptySeq DEF LogTypeOK, Elems
<1>2. ASSUME SpaceKept PROVE SpaceInv'
  <2>1. Solo => Solo'
    BY <1>2 DEF SpaceKept, Solo, Active
  <2>2. Group => Group'
    <3>1. Open' \subseteq Open
      BY <1>2, OpenShrinks DEF SpaceKept
    <3>2. Cardinality(Open') <= Cardinality(Open) /\ Cardinality(Open') \in Nat
      BY <3>1, OpenFinite, FS_Subset, FS_CardinalityType
    <3> QED
      BY <1>1, <1>2, <3>2, OpenFinite, SizesAssumption DEF SpaceKept, Group
  <2> QED
    BY <1>2, <2>1, <2>2 DEF SpaceKept, SpaceInv
<1>3. ASSUME NEW p \in Procs, BeginOp(p) PROVE SpaceInv'
  <2>1. Active' = Active \cup {p} /\ UNCHANGED <<lh, hdr, panic, wrote>>
    BY <1>3 DEF BeginOp, Active, LogTypeOK
  <2>2. CASE Active = {}
    <3>1. lh = <<>>
      BY <1>3, <2>2 DEF BeginOp, MayBegin, CallInv
    <3>2. Solo'
      BY <1>1, <2>1, <2>2, <3>1 DEF Solo
    <3> QED
      BY <2>1, <3>2, SMTT(30) DEF SpaceInv
  <2>3. CASE Active # {}
    <3> DEFINE k == outstanding + 1
    <3>1. outstanding \in Nat /\ outstanding # 0
      BY <2>3, ActiveFinite, FS_EmptySet, SMTT(30) DEF CallInv
    <3>2. k = Cardinality(Active') /\ IsFiniteSet(Active')
      BY <1>3, <2>1, ActiveFinite, FS_AddElement DEF BeginOp, CallInv
    <3>3. /\ IsFiniteSet(1 .. MAXOPBLOCKS - 1)
          /\ Cardinality(1 .. MAXOPBLOCKS - 1) = MAXOPBLOCKS - 1
      <4>1. 1 \in Int /\ MAXOPBLOCKS - 1 \in Int
        BY SizesAssumption
      <4>2. /\ IsFiniteSet(1 .. MAXOPBLOCKS - 1)
            /\ Cardinality(1 .. MAXOPBLOCKS - 1) =
                  IF 1 > MAXOPBLOCKS - 1 THEN 0 ELSE MAXOPBLOCKS - 1 - 1 + 1
        BY <4>1, FS_Interval, Zenon
      <4> QED
        BY <4>2, SizesAssumption
    <3>4. /\ IsFiniteSet(Active' \X (1 .. MAXOPBLOCKS - 1))
          /\ Cardinality(Active' \X (1 .. MAXOPBLOCKS - 1)) = k * (MAXOPBLOCKS - 1)
      <4>1. IsFiniteSet(Active') /\ IsFiniteSet(1 .. MAXOPBLOCKS - 1)
        BY <3>2, <3>3
      <4>2. /\ IsFiniteSet(Active' \X (1 .. MAXOPBLOCKS - 1))
            /\ Cardinality(Active' \X (1 .. MAXOPBLOCKS - 1)) =
                  Cardinality(Active') * Cardinality(1 .. MAXOPBLOCKS - 1)
        BY <4>1, FS_Product, Zenon
      <4> QED
        BY <3>2, <3>3, <4>2, Zenon
    <3>5. Open' \subseteq Active' \X (1 .. MAXOPBLOCKS - 1)
      BY DEF Open
    <3>6. Cardinality(Open') <= k * (MAXOPBLOCKS - 1) /\ Cardinality(Open') \in Nat
      BY <3>4, <3>5, FS_Subset, FS_CardinalityType
    <3>7. Len(lh) + k * MAXOPBLOCKS <= LOGSIZE
      BY <1>3 DEF BeginOp, MayBegin
    <3>8. k \in Nat /\ k >= 2
      BY <3>1
    <3> HIDE DEF k
    <3>9. k * (MAXOPBLOCKS - 1) = k * MAXOPBLOCKS - k
      BY <3>8, SizesAssumption
    <3>10. k * MAXOPBLOCKS \in Nat
      BY <3>8, SizesAssumption
    <3>11. Group'
      BY <1>1, <2>1, <3>6, <3>7, <3>8, <3>9, <3>10, SizesAssumption, SMTT(30) DEF Group
    <3> QED
      BY <2>1, <3>11, SMTT(30) DEF SpaceInv
  <2> QED
    BY <2>2, <2>3
<1>4. ASSUME NEW p \in Procs, EndOp(p) PROVE SpaceInv'
  <2>1. p \in Active /\ ~committing
    BY <1>4, NoCallInCommit, SMTT(30) DEF EndOp, Active
  <2>2. /\ Active' = Active \ {p} /\ UNCHANGED <<lh, hdr, panic>>
        /\ \A q \in Active' : wrote'[q] = wrote[q]
    BY <1>4, <2>1, SMTT(30) DEF EndOp, Active, LogTypeOK
  <2>3. ASSUME Active' # {} PROVE Group'
    <3>1. Group
      BY <2>1, <2>2, <2>3 DEF SpaceInv, Solo
    <3>2. Open' \subseteq Open
      BY <2>2, OpenShrinks
    <3>3. Cardinality(Open') <= Cardinality(Open) /\ Cardinality(Open') \in Nat
      BY <3>2, OpenFinite, FS_Subset, FS_CardinalityType, SMTT(30)
    <3> QED
      BY <1>1, <2>2, <3>1, <3>3, OpenFinite, SizesAssumption, SMTT(30) DEF Group
  <2> QED
    BY <2>2, <2>3, SMTT(30) DEF SpaceInv
<1>5. ASSUME NEW p \in Procs, NEW b \in Blocks, NEW v \in Vals, Modify(p, b, v)
      PROVE  SpaceKept
  <2>1. p \in Active
    BY <1>5, Zenon DEF Modify, Active
  <2>2. outstanding \in Nat /\ outstanding # 0
    BY <2>1, ActiveFinite, FS_EmptySet DEF CallInv
  <2>3. ~(Len(lh) >= LOGSIZE) /\ ~(Len(lh) >= Size - 1) /\ ~(outstanding < 1)
    BY <1>1, <2>2, SizesAssumption, CapacityAssumption, SMTT(30) DEF SpaceInv
  <2>4. UNCHANGED <<panic, lh, hdr, pc>> /\ \A q \in Procs : wrote[q] \subseteq wrote'[q]
    BY <1>5, <2>3, Zenon DEF Modify, LogTypeOK
  <2> QED
    BY <2>4, SMTT(30) DEF SpaceKept, Active
<1>6. ASSUME NEW p \in Procs, LogWrite(p) PROVE SpaceInv'
  <2> DEFINE b == held[p]
  <2>1. /\ p \in Active /\ b \in Blocks /\ b \in wrote[p]
        /\ UNCHANGED <<hdr, panic, wrote, pc, Active>> /\ lh' = Absorb(b)
    BY <1>6, SMTT(30) DEF LogWrite, BlockInv, Active, LogTypeOK
  <2>2. /\ lh' \in Seq(Blocks) /\ Elems(lh') = Elems(lh) \cup {b} /\ NoDuplicates(lh')
        /\ Len(lh') = IF b \in Elems(lh) THEN Len(lh) ELSE Len(lh) + 1
    BY <2>1, AbsorbFacts DEF LogTypeOK, BlockInv
  <2> HIDE DEF b
  <2>3. CASE Solo
    <3>1. Active = {p} /\ Elems(lh) \subseteq wrote[p]
      BY <2>1, <2>3, SMTT(30) DEF Solo
    <3>2. Elems(lh') \subseteq wrote[p] /\ IsFiniteSet(wrote[p]) /\ Cardinality(wrote[p]) <= OpBlocks
      <4>1. Elems(lh) \cup {b} \subseteq wrote[p]
        BY <2>1, <3>1
      <4> QED
        BY <2>2, <4>1, Zenon DEF BlockInv
    <3>3. Cardinality(Elems(lh')) <= Cardinality(wrote[p]) /\ Cardinality(Elems(lh')) = Len(lh')
      BY <2>2, <3>2, FS_Subset, ElemsCount, Zenon
    <3>4. Len(lh') \in Nat /\ Cardinality(wrote[p]) \in Nat
      <4>1. Len(lh') \in Nat
        BY <2>2, LenProperties, Zenon
      <4>2. Cardinality(wrote[p]) \in Nat
        BY <3>2, FS_CardinalityType, Zenon
      <4> QED
        BY <4>1, <4>2
    <3>5. Len(lh') + 2 <= LOGSIZE
      BY <3>2, <3>3, <3>4, SizesAssumption, CapacityAssumption, SMTT(30)
    <3>6. Solo'
      BY <2>1, <3>1, <3>2, SMTT(30) DEF Solo
    <3> QED
      BY <2>1, <3>5, <3>6 DEF SpaceInv
  <2>4. CASE Group /\ b \in Elems(lh)
    <3>1. Open' \subseteq Open
      BY <2>1, <2>2, OpenShrinks, SMTT(30)
    <3>2. Cardinality(Open') <= Cardinality(Open) /\ Cardinality(Open') \in Nat
      BY <3>1, OpenFinite, FS_Subset, FS_CardinalityType, Zenon
    <3>3. Group'
      BY <1>1, <2>2, <2>4, <3>2, OpenFinite, SizesAssumption, SMTT(30) DEF Group
    <3> QED
      BY <2>1, <2>2, <2>4, <3>3, SMTT(30) DEF SpaceInv
  <2>5. CASE Group /\ b \notin Elems(lh)
    <3> DEFINE S == wrote[p] \cap Elems(lh)
               n == Cardinality(S) + 1
    <3>1. IsFiniteSet(S) /\ Cardinality(S) \in Nat
      BY FS_Intersection, FS_CardinalityType, Zenon DEF BlockInv
    <3>2. wrote'[p] \cap Elems(lh') = S \cup {b} /\ b \notin S
      BY <2>1, <2>2, <2>5
    <3>3. Cardinality(S \cup {b}) = n /\ IsFiniteSet(S \cup {b})
      BY <3>1, <3>2, FS_AddElement, ZenonT(40)
    <3>4. S \cup {b} \subseteq wrote[p]
      BY <2>1, SMTT(30)
    <3>5. n <= Cardinality(wrote[p]) /\ Cardinality(wrote[p]) \in Nat /\ Cardinality(wrote[p]) <= OpBlocks
      <4>1. IsFiniteSet(wrote[p]) /\ Cardinality(wrote[p]) <= OpBlocks
        BY Zenon DEF BlockInv
      <4>2. Cardinality(S \cup {b}) <= Cardinality(wrote[p]) /\ Cardinality(wrote[p]) \in Nat
        BY <3>4, <4>1, FS_Subset, FS_CardinalityType, Zenon
      <4>. QED
        BY <3>3, <4>1, <4>2, Zenon
    <3>6. n \in 1 .. MAXOPBLOCKS - 1 /\ n > Cardinality(S)
      <4>. HIDE DEF S
      <4>. QED
        BY <3>1, <3>5, SizesAssumption, CapacityAssumption, SMTT(30)
    <3>7. <<p, n>> \in Open
      BY <2>1, <3>6, Zenon DEF Open
    <3>8. <<p, n>> \notin Open'
      <4>1. ~(n > n)
        BY <3>1, SMTT(30)
      <4> QED
        BY <3>2, <3>3, <4>1, Zenon DEF Open
    <3> HIDE DEF n, S
    <3>9. Open' \subseteq Open \ {<<p, n>>}
      BY <2>1, <2>2, <3>8, OpenShrinks
    <3>10. Cardinality(Open \ {<<p, n>>}) = Cardinality(Open) - 1 /\ IsFiniteSet(Open \ {<<p, n>>})
      BY <3>7, OpenFinite, FS_RemoveElement, SMTT(30)
    <3>11. Cardinality(Open') <= Cardinality(Open) - 1 /\ Cardinality(Open') \in Nat
      BY <3>9, <3>10, FS_Subset, FS_CardinalityType, SMTT(30)
    <3>12. Group'
      BY <1>1, <2>2, <2>5, <3>11, OpenFinite, SizesAssumption, SMTT(30) DEF Group
    <3>13. Len(lh') + 2 <= LOGSIZE
      BY <1>1, <2>2, <2>5, <3>11, OpenFinite, SizesAssumption, SMTT(30) DEF Group
    <3> QED
      BY <2>1, <3>12, <3>13, SMTT(30) DEF SpaceInv
  <2> QED
    BY <2>1, <2>3, <2>4, <2>5, SMTT(30) DEF SpaceInv
<1>7. ASSUME NEW p \in Procs, BeginSleep(p) \/ WriteLog(p) \/ Install(p) PROVE SpaceKept
  BY <1>7 DEF BeginSleep, WriteLog, Install, SpaceKept, Active
<1>8. ASSUME NEW p \in Procs, WriteHead(p) \/ Erase(p) \/ CommitDone(p) PROVE SpaceInv'
  <2>1. Active' = {}
    <3>1. /\ pc[p] \in {"write_log", "install", "done"}
          /\ \E c \in {"install", "done", "idle"} : pc' = [pc EXCEPT ![p] = c]
      BY <1>8 DEF WriteHead, CommitReady, Erase, Installed, CommitDone
    <3>2. pc[p] \in CommitPCs
      BY <3>1 DEF CommitPCs, PCs
    <3>3. \A q \in Procs \ {p} : pc[q] = "idle"
      BY <3>2, Zenon DEF CallInv
    <3>4. \A q \in Procs : pc'[q] # "op"
      BY <3>1, <3>3 DEF LogTypeOK
    <3>. QED
      BY <3>4, Zenon DEF Active
  <2>2. UNCHANGED panic /\ Len(hdr') + 2 <= LOGSIZE /\ Len(lh') + 2 <= LOGSIZE
    BY <1>1, <1>8, SizesAssumption, CapacityAssumption
    DEF WriteHead, Erase, CommitDone, SpaceInv
  <2>3. panic = "none"
    BY Zenon DEF SpaceInv
  <2> QED
    BY <2>1, <2>2, <2>3, Zenon DEF SpaceInv
<1>9. CASE Recover \/ Crash
  <2>1. Active' = {}
    <3>1. \A q \in Procs : pc'[q] = "idle"
      BY <1>9 DEF Recover, ReadHead, RecoverInstall, RecoverErase, Crash, CallInv
    <3>2. "idle" # "op"
      OBVIOUS
    <3>. QED
      BY <3>1, <3>2, Zenon DEF Active
  <2>2. panic' = "none" /\ Len(hdr') + 2 <= LOGSIZE /\ Len(lh') + 2 <= LOGSIZE
    BY <1>1, <1>9, SizesAssumption, CapacityAssumption, SMTT(30)
    DEF Recover, ReadHead, RecoverInstall, RecoverErase, Crash, SpaceInv
  <2> QED
    BY <2>1, <2>2, Zenon DEF SpaceInv
<1>10. ASSUME UNCHANGED vars PROVE SpaceKept
  BY <1>10, Zenon DEF vars, SpaceKept, Active
<1> QED
  BY <1>2, <1>3, <1>4, <1>5, <1>6, <1>7, <1>8, <1>9, <1>10 DEF Next, Progress

\* Every step leaves the sleepers of begin_op a reason to sleep: the last call
\* that could give space back wakes them in the step in which it does.
LEMMA NextSleepers == LogIInv /\ [Next]_vars => SleepersMustWait'
<1> SUFFICES ASSUME LogTypeOK, CallInv, BlockInv, SleepersMustWait, [Next]_vars
             PROVE  SleepersMustWait'
  BY DEF LogIInv
<1> USE DEF diskVars, bootVars, Running, SleepersMustWait
<1>1. Len(lh) \in Nat /\ Len(<<>>) = 0 /\ outstanding \in Nat
  BY LenProperties, EmptySeq DEF LogTypeOK
<1>2. ASSUME NEW p \in Procs, BeginOp(p) PROVE SleepersMustWait'
  BY <1>2 DEF BeginOp
<1>3. ASSUME NEW p \in Procs, BeginSleep(p) PROVE SleepersMustWait'
  <2>1. committing \/ outstanding > 0
    <3>1. ASSUME ~committing, outstanding = 0 PROVE FALSE
      <4>1. Active = {}
        BY <3>1, ActiveFinite, FS_EmptySet, Zenon DEF CallInv
      <4>2. lh = <<>>
        BY <1>3, <3>1, <4>1, SMTT(30) DEF BeginSleep, CallInv
      <4> QED
        BY <1>1, <1>3, <3>1, <4>2, SizesAssumption, CapacityAssumption, SMTT(30) DEF BeginSleep, MayBegin
    <3> QED
      BY <1>1, <3>1
  <2> QED
    BY <1>3, <2>1 DEF BeginSleep, MayBegin
<1>4. ASSUME NEW p \in Procs, EndOp(p) PROVE SleepersMustWait'
  <2>1. ~committing
    BY <1>4, NoCallInCommit DEF EndOp, Active
  <2> QED
    BY <1>4, <2>1 DEF EndOp, EndOpWakes, MayBegin
<1>5. ASSUME NEW p \in Procs, LogWrite(p) PROVE SleepersMustWait'
  <2>1. Len(lh') \in Nat /\ Len(lh') >= Len(lh)
    BY <1>1, <1>5, AbsorbFacts, LenProperties, SMTT(30) DEF LogWrite, LogTypeOK
  <2>2. MayBegin' => MayBegin
    <3> DEFINE k == (outstanding + 1) * MAXOPBLOCKS
    <3>1. k \in Nat
      BY <1>1, SizesAssumption
    <3>2. MayBegin' => ~committing /\ Len(lh') + k <= LOGSIZE
      BY <1>5 DEF LogWrite, MayBegin
    <3>3. ~committing /\ Len(lh) + k <= LOGSIZE => MayBegin
      BY SMTT(30) DEF MayBegin
    <3> HIDE DEF k
    <3> QED
      BY <1>1, <2>1, <3>1, <3>2, <3>3, SizesAssumption, SMTT(30)
  <2> QED
    BY <1>5, <2>2, SMTT(30) DEF LogWrite
<1>6. ASSUME NEW p \in Procs, NEW b \in Blocks, NEW v \in Vals, Modify(p, b, v)
      PROVE  SleepersMustWait'
  BY <1>6, ZenonT(40) DEF Modify, MayBegin
<1>7. ASSUME NEW p \in Procs, WriteLog(p) \/ WriteHead(p) \/ Install(p)
      PROVE  SleepersMustWait'
  BY <1>7, Zenon DEF WriteLog, WriteHead, Install, MayBegin
<1>8. ASSUME NEW p \in Procs, Erase(p) PROVE SleepersMustWait'
  <2>1. committing
    BY <1>8 DEF Erase, Installed, CallInv, CommitPCs, PCs
  <2> QED
    BY <1>8, <2>1, SMTT(30) DEF Erase, MayBegin
<1>9. ASSUME NEW p \in Procs, CommitDone(p) PROVE SleepersMustWait'
  BY <1>9 DEF CommitDone, DoneWakes
<1>10. CASE Recover
  <2>1. ~committing /\ outstanding = 0
    <3>1. \A p \in Procs : pc[p] = "idle"
      BY <1>10 DEF Recover, ReadHead, RecoverInstall, RecoverErase, CallInv
    <3>2. Active = {}
      BY <3>1, SMTT(30) DEF Active
    <3> QED
      BY <3>1, <3>2, FS_EmptySet, SMTT(30) DEF CallInv, CommitPCs
  <2>2. asleep' = {}
    BY <1>1, <1>10, <2>1 DEF Recover, ReadHead, RecoverInstall, RecoverErase
  <2> QED
    BY <2>2
<1>11. CASE Crash
  BY <1>11 DEF Crash
<1>12. CASE UNCHANGED vars
  BY <1>12 DEF vars, MayBegin
<1> QED
  BY <1>2, <1>3, <1>4, <1>5, <1>6, <1>7, <1>8, <1>9, <1>10, <1>11, <1>12, SMTT(30)
  DEF Next, Progress

-----------------------------------------------------------------------------
(* What the log promises its callers *)

\* The inductive invariant holds in every reachable state.
THEOREM LogInductive == Spec => []LogIInv
<1>1. LogIInv /\ [Next]_vars => LogIInv'
  BY NextLogTypeOK, NextCallInv, NextBlockInv, NextSpaceInv, NextSleepers DEF LogIInv
<1> QED
  BY <1>1, InitLogIInv, PTL DEF Spec

\* With any number of processes, a commit runs alone: no call is active and
\* nobody else commits.
THEOREM LogCommitAlone == Spec => []CommitAlone
<1>1. ASSUME LogIInv PROVE CommitAlone
  <2>1. SUFFICES ASSUME NEW p \in Procs, pc[p] \in CommitPCs
                 PROVE  /\ committing /\ outstanding = 0
                        /\ \A q \in Procs \ {p} : pc[q] = "idle"
    BY DEF CommitAlone, CommitPCs
  <2>2. committing /\ \A q \in Procs \ {p} : pc[q] = "idle"
    BY <1>1, <2>1 DEF LogIInv, CallInv
  <2>3. Active = {}
    BY <1>1, <2>2, NoCallInCommit DEF LogIInv
  <2> QED
    BY <1>1, <2>2, <2>3, FS_EmptySet DEF LogIInv, CallInv
<1> QED
  BY <1>1, LogInductive, PTL

\* A process asleep in begin_op cannot begin, and somebody will wake it.
THEOREM LogSleepersMustWait == Spec => []SleepersMustWait
  BY LogInductive, PTL DEF LogIInv

\* However calls overlap, log_write never panics and the log never lists more
\* blocks than the disk has room for.
THEOREM LogSpaceReserved == Spec => []SpaceReserved
<1>1. ASSUME LogIInv PROVE SpaceReserved
  <2>1. Len(lh) \in Nat
    BY <1>1, LenProperties DEF LogIInv, LogTypeOK
  <2> QED
    BY <1>1, <2>1, SizesAssumption, CapacityAssumption, SMTT(30) DEF LogIInv, SpaceInv, SpaceReserved
<1> QED
  BY <1>1, LogInductive, PTL

-----------------------------------------------------------------------------
(* The log implements the transactional disk *)

\* The stages of a commit.  The header on the disk is empty until the log holds
\* the whole transaction, and again once every block of it is at home; blocks
\* that are neither logged nor held are in memory as on the disk.
UpInv ==
    /\ EvictableClean
    /\ (\A p \in Procs : pc[p] # "install") => hdr = <<>>
    /\ \A p \in Procs : pc[p] = "write_log" =>
          /\ tail[p] <= Len(lh)
          /\ \A i \in 1 .. tail[p] : logblk[i] = mem[lh[i]]
    /\ \A p \in Procs : pc[p] = "install" =>
          /\ hdr = lh /\ tail[p] <= Len(lh)
          /\ \A i \in 1 .. Len(lh) : logblk[i] = mem[lh[i]]
          /\ \A i \in 1 .. tail[p] : home[lh[i]] = logblk[i]
    /\ \A p \in Procs : pc[p] \notin {"write_log", "install"} => tail[p] = 0
    /\ rtail = 0

\* The stages of a recovery, which may itself be cut short by a crash.
RecoverInv ==
    /\ boot = "read_head" => rtail = 0
    /\ boot = "install" =>
          /\ lh = hdr /\ mem = home /\ rtail <= Len(lh)
          /\ \A i \in 1 .. rtail : home[lh[i]] = logblk[i]
    /\ \A p \in Procs : tail[p] = 0

DataInv ==
    /\ boot = "up" => UpInv
    /\ boot # "up" => RecoverInv

\* The initial state satisfies the invariant on the data.
LEMMA InitDataInv == Init => DataInv
  BY DEF Init, DataInv, UpInv, EvictableClean

\* Every step keeps the invariant on the data.
LEMMA NextDataInv == LogIInv /\ DataInv /\ [Next]_vars => DataInv'
<1> SUFFICES ASSUME LogTypeOK, CallInv, BlockInv, SpaceInv, DataInv, [Next]_vars
             PROVE  DataInv'
  BY DEF LogIInv
<1> USE NoBlockAssumption DEF diskVars, bootVars, Running
<1>1. /\ Len(lh) \in Nat /\ Len(lh) <= LOGSIZE /\ Len(<<>>) = 0 /\ Elems(<<>>) = {}
      /\ \A i \in 1 .. Len(lh) : lh[i] \in Blocks /\ lh[i] \in Elems(lh)
  BY LenProperties, ElementOfSeq, EmptySeq, SizesAssumption DEF LogTypeOK, Elems, SpaceInv
<1>2. \A p \in Procs : pc[p] \in {"write_log", "install"} =>
         \A q \in Procs : q # p => pc[q] = "idle"
  BY DEF CallInv, CommitPCs, PCs
<1>3. ASSUME NEW p \in Procs, BeginOp(p) \/ BeginSleep(p) PROVE DataInv'
  <2>1. UNCHANGED <<home, logblk, hdr, mem, lh, held, tail, rtail, boot>> /\ boot = "up"
    BY <1>3 DEF BeginOp, BeginSleep
  <2>2. \A q \in Procs : /\ pc'[q] \in {"write_log", "install"} => pc'[q] = pc[q]
                         /\ pc[q] \in {"write_log", "install"} => pc'[q] = pc[q]
    BY <1>3 DEF BeginOp, BeginSleep, LogTypeOK
  <2> QED
    BY <2>1, <2>2 DEF DataInv, UpInv, EvictableClean
<1>4. ASSUME NEW p \in Procs, EndOp(p) PROVE DataInv'
  <2>1. UNCHANGED <<home, logblk, hdr, mem, lh, held, tail, rtail, boot>> /\ boot = "up"
    BY <1>4 DEF EndOp
  <2>2. /\ pc[p] = "op" /\ pc'[p] # "install"
        /\ \A q \in Procs : q # p => pc'[q] = pc[q]
    BY <1>4 DEF EndOp, LogTypeOK
  <2>3. tail[p] = 0
    BY <2>1, <2>2 DEF DataInv, UpInv
  <2>4. (\A q \in Procs : pc'[q] # "install") => (\A q \in Procs : pc[q] # "install")
    BY <2>2
  <2> QED
    BY <1>1, <2>1, <2>2, <2>3, <2>4 DEF DataInv, UpInv, EvictableClean
<1>5. ASSUME NEW p \in Procs, NEW b \in Blocks, NEW v \in Vals, Modify(p, b, v)
      PROVE  DataInv'
  <2>1. /\ UNCHANGED <<home, logblk, hdr, pc, lh, tail, rtail, boot>> /\ boot = "up"
        /\ pc[p] = "op" /\ held[p] = NoBlock
        /\ mem' = [mem EXCEPT ![b] = v] /\ held' = [held EXCEPT ![p] = b]
    BY <1>5, Zenon DEF Modify
  <2>2. \A q \in Procs : pc[q] \notin {"write_log", "install"}
    BY <1>2, <2>1
  <2>3. EvictableClean'
    BY <2>1 DEF DataInv, UpInv, EvictableClean, LogTypeOK
  <2> QED
    BY <2>1, <2>2, <2>3 DEF DataInv, UpInv
<1>6. ASSUME NEW p \in Procs, LogWrite(p) PROVE DataInv'
  <2>1. /\ UNCHANGED <<home, logblk, hdr, mem, pc, tail, rtail, boot>> /\ boot = "up"
        /\ pc[p] = "op" /\ held' = [held EXCEPT ![p] = NoBlock]
        /\ Elems(lh') = Elems(lh) \cup {held[p]}
    BY <1>6, AbsorbFacts DEF LogWrite, BlockInv, LogTypeOK
  <2>2. \A q \in Procs : pc[q] \notin {"write_log", "install"}
    BY <1>2, <2>1, SMTT(30)
  <2>3. EvictableClean'
    BY <2>1, SMTT(30) DEF DataInv, UpInv, EvictableClean, LogTypeOK
  <2> QED
    BY <2>1, <2>2, <2>3 DEF DataInv, UpInv
<1>7. ASSUME NEW p \in Procs, WriteLog(p) PROVE DataInv'
  <2>1. /\ UNCHANGED <<home, hdr, mem, lh, held, pc, rtail, boot>> /\ boot = "up"
        /\ pc[p] = "write_log" /\ tail[p] < Len(lh)
        /\ logblk' = [logblk EXCEPT ![tail[p] + 1] = mem[lh[tail[p] + 1]]]
        /\ tail' = [tail EXCEPT ![p] = @ + 1]
    BY <1>7 DEF WriteLog
  <2>2. /\ tail[p] \in Nat /\ tail'[p] = tail[p] + 1
        /\ \A q \in Procs : q # p => tail'[q] = tail[q] /\ pc[q] = "idle"
    BY <1>2, <2>1, SMTT(30) DEF LogTypeOK
  <2>3. \A i \in 1 .. tail'[p] : logblk'[i] = mem[lh[i]]
    <3>1. \A i \in 1 .. tail'[p] : i \in 1 .. LOGSIZE /\ (i \in 1 .. tail[p] \/ i = tail[p] + 1)
      BY <1>1, <2>1, <2>2, SizesAssumption, SMTT(30)
    <3> QED
      BY <2>1, <3>1 DEF DataInv, UpInv, LogTypeOK
  <2>4. tail'[p] <= Len(lh)
    BY <1>1, <2>1, <2>2, SMTT(30)
  <2>5. EvictableClean'
    BY <2>1, SMTT(30) DEF DataInv, UpInv, EvictableClean
  <2> QED
    BY <2>1, <2>2, <2>3, <2>4, <2>5, SMTT(30) DEF DataInv, UpInv
<1>8. ASSUME NEW p \in Procs, WriteHead(p) PROVE DataInv'
  <2>1. /\ UNCHANGED <<home, logblk, mem, lh, held, rtail, boot>> /\ boot = "up"
        /\ pc[p] = "write_log" /\ tail[p] = Len(lh) /\ hdr' = lh
        /\ pc' = [pc EXCEPT ![p] = "install"] /\ tail' = [tail EXCEPT ![p] = 0]
    BY <1>8 DEF WriteHead, CommitReady
  <2>2. /\ pc'[p] = "install" /\ tail'[p] = 0
        /\ \A q \in Procs : q # p => tail'[q] = tail[q] /\ pc'[q] = "idle" /\ tail[q] = 0
    BY <1>2, <2>1, ZenonT(60) DEF LogTypeOK, DataInv, UpInv
  <2>3. EvictableClean'
    BY <2>1 DEF DataInv, UpInv, EvictableClean
  <2>4. \A i \in 1 .. Len(lh) : logblk[i] = mem[lh[i]]
    BY <2>1 DEF DataInv, UpInv
  <2> QED
    BY <1>1, <2>1, <2>2, <2>3, <2>4 DEF DataInv, UpInv
<1>9. ASSUME NEW i \in 1 .. Len(lh), NEW n \in Nat, i = n + 1, InstallBlock(i),
             \A j \in 1 .. n : home[lh[j]] = logblk[j]
      PROVE  /\ home' = [home EXCEPT ![lh[i]] = logblk[i]]
             /\ mem' = [mem EXCEPT ![lh[i]] = logblk[i]]
             /\ \A j \in 1 .. n + 1 : home'[lh[j]] = logblk[j]
  <2>1. /\ home' = [home EXCEPT ![lh[i]] = logblk[i]]
        /\ mem' = [mem EXCEPT ![lh[i]] = logblk[i]]
    BY <1>9 DEF InstallBlock
  <2>2. \A j \in 1 .. n + 1 : j \in 1 .. n \/ j = i
    BY <1>9
  <2>3. \A j \in 1 .. n + 1 : j \in 1 .. Len(lh) /\ lh[j] \in Blocks
    BY <1>1, <1>9, SMTT(30)
  <2>4. \A j \in 1 .. n + 1 : lh[j] = lh[i] => j = i
    BY <2>3, SMTT(30) DEF BlockInv, NoDuplicates
  <2>5. home \in [Blocks -> Vals] /\ lh[i] \in Blocks
    BY <1>9, <2>3 DEF LogTypeOK
  <2>6. home'[lh[i]] = logblk[i] /\ \A b \in Blocks : b # lh[i] => home'[b] = home[b]
    BY <2>1, <2>5
  <2>7. ASSUME NEW j \in 1 .. n + 1 PROVE home'[lh[j]] = logblk[j]
    <3>1. CASE j = i
      BY <2>6, <3>1
    <3>2. CASE j # i
      BY <1>9, <2>2, <2>3, <2>4, <2>6, <3>2, Zenon
    <3> QED
      BY <3>1, <3>2
  <2> QED
    BY <2>1, <2>7, Zenon
<1>10. ASSUME NEW p \in Procs, Install(p) PROVE DataInv'
  <2>1. /\ UNCHANGED <<logblk, hdr, lh, held, pc, rtail, boot>> /\ boot = "up"
        /\ pc[p] = "install" /\ tail[p] < Len(lh) /\ InstallBlock(tail[p] + 1)
        /\ tail' = [tail EXCEPT ![p] = @ + 1]
    BY <1>10 DEF Install
  <2>2. /\ tail[p] \in Nat /\ tail'[p] = tail[p] + 1 /\ tail[p] + 1 \in 1 .. Len(lh)
        /\ \A q \in Procs : q # p => tail'[q] = tail[q] /\ pc[q] = "idle"
    BY <1>1, <1>2, <2>1 DEF LogTypeOK
  <2>3. /\ hdr = lh
        /\ \A i \in 1 .. Len(lh) : logblk[i] = mem[lh[i]]
        /\ \A i \in 1 .. tail[p] : home[lh[i]] = logblk[i]
    BY <2>1 DEF DataInv, UpInv
  <2>4. /\ home' = [home EXCEPT ![lh[tail[p] + 1]] = logblk[tail[p] + 1]]
        /\ mem' = [mem EXCEPT ![lh[tail[p] + 1]] = logblk[tail[p] + 1]]
        /\ \A j \in 1 .. tail[p] + 1 : home'[lh[j]] = logblk[j]
    BY <1>9, <2>1, <2>2, <2>3, SMTT(30)
  <2>5. mem' = mem
    BY <1>1, <2>2, <2>3, <2>4, SMTT(30) DEF LogTypeOK
  <2>6. EvictableClean'
    BY <1>1, <2>1, <2>2, <2>4, <2>5, SMTT(30) DEF DataInv, UpInv, EvictableClean, LogTypeOK
  <2>7. tail'[p] <= Len(lh)
    BY <1>1, <2>2, SMTT(30)
  <2> QED
    BY <2>1, <2>2, <2>3, <2>4, <2>5, <2>6, <2>7, SMTT(30) DEF DataInv, UpInv
<1>11. ASSUME NEW p \in Procs, Erase(p) PROVE DataInv'
  <2>1. /\ UNCHANGED <<home, logblk, mem, held, rtail, boot>> /\ boot = "up"
        /\ pc[p] = "install" /\ tail[p] = Len(lh) /\ hdr' = <<>> /\ lh' = <<>>
        /\ pc' = [pc EXCEPT ![p] = "done"] /\ tail' = [tail EXCEPT ![p] = 0]
    BY <1>11 DEF Erase, Installed
  <2>2. /\ pc'[p] = "done" /\ tail'[p] = 0
        /\ \A q \in Procs : q # p => tail'[q] = tail[q] /\ pc'[q] = "idle" /\ tail[q] = 0
    BY <1>2, <2>1 DEF LogTypeOK, DataInv, UpInv
  <2>3. \A b \in Elems(lh) : mem[b] = home[b]
    BY <2>1 DEF DataInv, UpInv, Elems
  <2>4. \A q \in Procs : held[q] = NoBlock
    BY <1>2, <2>1, SMTT(30) DEF BlockInv
  <2>5. EvictableClean'
    BY <2>1, <2>3, <2>4, SMTT(30) DEF DataInv, UpInv, EvictableClean
  <2> QED
    BY <2>1, <2>2, <2>5 DEF DataInv, UpInv
<1>12. ASSUME NEW p \in Procs, CommitDone(p) PROVE DataInv'
  <2>1. /\ UNCHANGED <<home, logblk, hdr, mem, lh, held, tail, rtail, boot>> /\ boot = "up"
        /\ pc[p] = "done" /\ pc' = [pc EXCEPT ![p] = "idle"]
    BY <1>12 DEF CommitDone
  <2>2. \A q \in Procs : /\ pc'[q] \in {"write_log", "install"} => pc'[q] = pc[q]
                         /\ pc[q] \in {"write_log", "install"} => pc'[q] = pc[q]
    BY <2>1, SMTT(30) DEF LogTypeOK
  <2> QED
    BY <2>1, <2>2 DEF DataInv, UpInv, EvictableClean
<1>13. CASE Crash
  BY <1>13 DEF Crash, DataInv, RecoverInv
<1>14. CASE ReadHead
  <2>1. rtail = 0 /\ Len(hdr) \in Nat
    BY <1>14, LenProperties DEF ReadHead, DataInv, RecoverInv, LogTypeOK
  <2> QED
    BY <1>14, <2>1 DEF ReadHead, DataInv, RecoverInv
<1>15. CASE RecoverInstall
  <2>1. /\ UNCHANGED <<logblk, hdr, lh, tail, boot>> /\ boot = "install"
        /\ rtail < Len(lh) /\ InstallBlock(rtail + 1) /\ rtail' = rtail + 1
    BY <1>15 DEF RecoverInstall
  <2>2. rtail \in Nat /\ rtail + 1 \in 1 .. Len(lh)
    BY <1>1, <2>1, SMTT(30) DEF LogTypeOK
  <2>3. mem = home /\ \A i \in 1 .. rtail : home[lh[i]] = logblk[i]
    BY <2>1, SMTT(30) DEF DataInv, RecoverInv
  <2>4. /\ home' = [home EXCEPT ![lh[rtail + 1]] = logblk[rtail + 1]]
        /\ mem' = [mem EXCEPT ![lh[rtail + 1]] = logblk[rtail + 1]]
        /\ \A j \in 1 .. rtail + 1 : home'[lh[j]] = logblk[j]
    BY <1>9, <2>1, <2>2, <2>3, SMTT(30)
  <2>5. rtail' <= Len(lh)
    BY <1>1, <2>1, <2>2, SMTT(30)
  <2> QED
    BY <2>1, <2>3, <2>4, <2>5 DEF DataInv, RecoverInv
<1>16. CASE RecoverErase
  <2>1. \A p \in Procs : pc[p] = "idle"
    BY <1>16, SMTT(30) DEF RecoverErase, CallInv
  <2> QED
    BY <1>16, <2>1, SMTT(30) DEF RecoverErase, DataInv, RecoverInv, UpInv, EvictableClean
<1>17. CASE UNCHANGED vars
  BY <1>17 DEF vars, DataInv, UpInv, RecoverInv, EvictableClean
<1> QED
  BY <1>3, <1>4, <1>5, <1>6, <1>7, <1>8, <1>10, <1>11, <1>12, <1>13, <1>14, <1>15, <1>16, <1>17, SMTT(30)
  DEF Next, Progress, Recover

\* The two invariants together hold in every reachable state.
THEOREM LogDataInductive == Spec => [](LogIInv /\ DataInv)
<1>1. (LogIInv /\ DataInv) /\ [Next]_vars => DataInv'
  BY NextDataInv
<1> QED
  BY <1>1, LogInductive, InitDataInv, PTL DEF Spec

\* A block that is neither in the log nor held by a call is in memory as it is
\* on the disk, so the buffer cache may evict it.
THEOREM LogEvictableClean == Spec => []EvictableClean
<1>1. LogIInv /\ DataInv => EvictableClean
  BY DEF DataInv, UpInv, EvictableClean
<1> QED
  BY <1>1, LogDataInductive, PTL

-----------------------------------------------------------------------------
(* The refinement *)

\* A step that leaves the disk alone, or changes home blocks that the log
\* overrides, changes nothing that a reboot would find.
LEMMA DurableKept ==
    ASSUME UNCHANGED <<logblk, hdr>>,
           \A b \in Blocks : b \notin Elems(hdr) => home'[b] = home[b]
    PROVE  Durable' = Durable
  BY DEF Durable, Elems

\* With an empty header a reboot finds the home blocks.
LEMMA DurableHome ==
    ASSUME home \in [Blocks -> Vals], hdr = <<>> PROVE Durable = home
<1>1. Elems(hdr) = {}
  BY EmptySeq DEF Elems
<1> QED
  BY <1>1 DEF Durable

\* A mem seen by the calls, as the refinement maps it.
MemMap == IF boot = "up" THEN mem ELSE Durable

\* Every step is a step of the transactional disk or leaves it unchanged.
LEMMA NextTx == LogIInv /\ DataInv /\ [Next]_vars => [Tx!TxNext]_(Tx!txVars)
<1> SUFFICES ASSUME LogTypeOK, CallInv, BlockInv, SpaceInv, DataInv, [Next]_vars
             PROVE  [Tx!TxNext]_(Tx!txVars)
  BY DEF LogIInv
<1> USE DEF diskVars, bootVars, Running
<1>1. ASSUME Durable' = Durable, MemMap' = MemMap, Active' = Active
      PROVE  [Tx!TxNext]_(Tx!txVars)
  BY <1>1 DEF Tx!txVars, MemMap, Active
<1>2. /\ Len(lh) \in Nat /\ Len(hdr) \in Nat
      /\ \A i \in 1 .. Len(lh) : lh[i] \in Blocks /\ lh[i] \in Elems(lh)
  BY LenProperties, ElementOfSeq DEF LogTypeOK, Elems
<1>3. \A p \in Procs : pc[p] \in {"write_log", "install"} =>
         \A q \in Procs : q # p => pc[q] = "idle"
  BY DEF CallInv, CommitPCs, PCs
<1>4. ASSUME NEW p \in Procs, BeginOp(p) PROVE [Tx!TxNext]_(Tx!txVars)
  <2>1. Durable' = Durable
    BY <1>4, DurableKept DEF BeginOp
  <2>2. MemMap' = MemMap
    BY <1>4 DEF BeginOp, MemMap
  <2>3. p \notin Active /\ Active' = Active \cup {p}
    BY <1>4 DEF BeginOp, Active, LogTypeOK
  <2>4. Tx!Begin(p)
    BY <2>1, <2>2, <2>3 DEF Tx!Begin, MemMap, Active
  <2> QED
    BY <2>4 DEF Tx!TxNext
<1>5. ASSUME NEW p \in Procs, EndOp(p) PROVE [Tx!TxNext]_(Tx!txVars)
  <2>1. Durable' = Durable
    BY <1>5, DurableKept DEF EndOp
  <2>2. MemMap' = MemMap
    BY <1>5 DEF EndOp, MemMap
  <2>3. p \in Active
    BY <1>5 DEF EndOp, Active
  <2>4. ~committing
    BY <2>3, NoCallInCommit
  <2>5. Active' = Active \ {p}
    BY <1>5, <2>4 DEF EndOp, Active, LogTypeOK
  <2>6. Tx!End(p)
    BY <2>1, <2>2, <2>3, <2>5 DEF Tx!End, MemMap, Active
  <2> QED
    BY <2>6 DEF Tx!TxNext
<1>6. ASSUME NEW p \in Procs, NEW b \in Blocks, NEW v \in Vals, Modify(p, b, v)
      PROVE  [Tx!TxNext]_(Tx!txVars)
  <2>1. Durable' = Durable
    BY <1>6, DurableKept, Zenon DEF Modify
  <2>2. MemMap' = [MemMap EXCEPT ![b] = v]
    BY <1>6, Zenon DEF Modify, MemMap
  <2>3. p \in Active /\ Active' = Active
    BY <1>6, Zenon DEF Modify, Active
  <2>4. Tx!Write(p, b, v)
    BY <2>1, <2>2, <2>3 DEF Tx!Write, MemMap, Active
  <2> QED
    BY <2>4 DEF Tx!TxNext
<1>7. ASSUME NEW p \in Procs, BeginSleep(p) \/ LogWrite(p) \/ CommitDone(p)
      PROVE  [Tx!TxNext]_(Tx!txVars)
  <2>1. Durable' = Durable
    BY <1>7, DurableKept DEF BeginSleep, LogWrite, CommitDone
  <2>2. MemMap' = MemMap
    BY <1>7 DEF BeginSleep, LogWrite, CommitDone, MemMap
  <2>3. Active' = Active
    BY <1>7 DEF BeginSleep, LogWrite, CommitDone, Active, LogTypeOK
  <2> QED
    BY <1>1, <2>1, <2>2, <2>3, SMTT(30)
<1>8. ASSUME NEW p \in Procs, WriteLog(p) PROVE [Tx!TxNext]_(Tx!txVars)
  <2>1. hdr = <<>>
    BY <1>3, <1>8 DEF WriteLog, DataInv, UpInv
  <2>2. Elems(hdr) = {} /\ Elems(hdr') = {}
    BY <1>8, <2>1, EmptySeq, SMTT(30) DEF WriteLog, Elems
  <2>3. Durable' = Durable
    BY <1>8, <2>2 DEF WriteLog, Durable
  <2>4. MemMap' = MemMap /\ Active' = Active
    BY <1>8 DEF WriteLog, MemMap, Active
  <2> QED
    BY <1>1, <2>3, <2>4, SMTT(30)
<1>9. ASSUME NEW p \in Procs, WriteHead(p) PROVE [Tx!TxNext]_(Tx!txVars)
  <2>1. /\ UNCHANGED <<home, logblk, mem, boot>> /\ boot = "up" /\ hdr' = lh
        /\ pc[p] = "write_log" /\ tail[p] = Len(lh)
    BY <1>9 DEF WriteHead, CommitReady
  <2>2. Active = {} /\ Active' = Active
    BY <1>3, <1>9, <2>1, Zenon DEF WriteHead, Active, LogTypeOK
  <2>3. \A q \in Procs : held[q] = NoBlock
    BY <2>2 DEF BlockInv, Active
  <2>4. ASSUME NEW b \in Blocks PROVE Durable'[b] = mem[b]
    <3>1. CASE b \in Elems(lh)
      <4> DEFINE j == CHOOSE i \in 1 .. Len(lh) : lh[i] = b
      <4>1. j \in 1 .. Len(lh) /\ lh[j] = b
        BY <3>1 DEF Elems
      <4>2. Durable'[b] = logblk[j]
        BY <2>1, <3>1, SMTT(30) DEF Durable
      <4> HIDE DEF j
      <4> QED
        BY <2>1, <4>1, <4>2 DEF DataInv, UpInv
    <3>2. CASE b \notin Elems(lh)
      BY <2>1, <2>3, <3>2, NoBlockAssumption DEF Durable, DataInv, UpInv, EvictableClean
    <3> QED
      BY <3>1, <3>2
  <2>5. Durable' = mem
    BY <2>4, Zenon DEF Durable, LogTypeOK
  <2>6. Tx!Commit
    BY <2>1, <2>2, <2>5, SMTT(30) DEF Tx!Commit, Active
  <2> QED
    BY <2>6 DEF Tx!TxNext
<1>10. ASSUME NEW i \in 1 .. Len(lh), InstallBlock(i), lh = hdr, UNCHANGED <<logblk, hdr>>
       PROVE  Durable' = Durable
  <2>1. \A b \in Blocks : b \notin Elems(hdr) => home'[b] = home[b]
    BY <1>2, <1>10 DEF InstallBlock, LogTypeOK
  <2> QED
    BY <1>10, <2>1, DurableKept
<1>11. ASSUME NEW p \in Procs, Install(p) PROVE [Tx!TxNext]_(Tx!txVars)
  <2>1. /\ UNCHANGED <<logblk, hdr, pc, boot>> /\ boot = "up" /\ pc[p] = "install"
        /\ InstallBlock(tail[p] + 1) /\ tail[p] + 1 \in 1 .. Len(lh)
    BY <1>2, <1>11, SMTT(30) DEF Install, LogTypeOK
  <2>2. hdr = lh /\ \A i \in 1 .. Len(lh) : logblk[i] = mem[lh[i]]
    BY <2>1 DEF DataInv, UpInv
  <2>3. Durable' = Durable
    BY <1>10, <2>1, <2>2, SMTT(30)
  <2>4. mem' = mem
    BY <1>2, <2>1, <2>2 DEF InstallBlock, LogTypeOK
  <2> QED
    BY <1>1, <2>1, <2>3, <2>4, SMTT(30) DEF MemMap, Active
<1>12. ASSUME hdr = lh, \A i \in 1 .. Len(lh) : home[lh[i]] = logblk[i]
       PROVE  Durable = home
  <2>1. ASSUME NEW b \in Blocks, b \in Elems(hdr) PROVE Durable[b] = home[b]
    <3> DEFINE j == CHOOSE i \in 1 .. Len(hdr) : hdr[i] = b
    <3>1. j \in 1 .. Len(hdr) /\ hdr[j] = b
      BY <2>1 DEF Elems
    <3>2. Durable[b] = logblk[j]
      BY <2>1 DEF Durable
    <3> HIDE DEF j
    <3> QED
      BY <1>12, <3>1, <3>2
  <2> QED
    BY <2>1 DEF Durable, LogTypeOK
<1>13. ASSUME hdr' = <<>>, UNCHANGED home PROVE Durable' = home
  <2>1. Elems(hdr') = {}
    BY <1>13, EmptySeq DEF Elems
  <2> QED
    BY <1>13, <2>1 DEF Durable, LogTypeOK
<1>14. ASSUME NEW p \in Procs, Erase(p) PROVE [Tx!TxNext]_(Tx!txVars)
  <2>1. /\ UNCHANGED <<home, mem, boot>> /\ boot = "up" /\ hdr' = <<>>
        /\ pc[p] = "install" /\ tail[p] = Len(lh)
    BY <1>14 DEF Erase, Installed
  <2>2. Durable = home /\ Durable' = home
    BY <1>12, <1>13, <2>1, SMTT(30) DEF DataInv, UpInv
  <2>3. Active' = Active
    BY <1>14, <2>1 DEF Erase, Active, LogTypeOK
  <2> QED
    BY <1>1, <2>1, <2>2, <2>3, SMTT(30) DEF MemMap
<1>15. CASE Crash
  <2>1. Durable' = Durable
    BY <1>15, DurableKept, SMTT(30) DEF Crash
  <2>2. MemMap' = Durable /\ Active' = {}
    BY <1>15, <2>1 DEF Crash, MemMap, Active
  <2>3. Tx!Crash
    BY <2>1, <2>2 DEF Tx!Crash, MemMap, Active
  <2> QED
    BY <2>3 DEF Tx!TxNext
<1>16. CASE ReadHead
  <2>1. Durable' = Durable
    BY <1>16, DurableKept, SMTT(30) DEF ReadHead
  <2> QED
    BY <1>1, <1>16, <2>1 DEF ReadHead, MemMap, Active
<1>17. CASE RecoverInstall
  <2>1. /\ UNCHANGED <<logblk, hdr, pc, boot>> /\ boot = "install" /\ lh = hdr
        /\ InstallBlock(rtail + 1) /\ rtail + 1 \in 1 .. Len(lh)
    BY <1>2, <1>17 DEF RecoverInstall, DataInv, RecoverInv, LogTypeOK
  <2>2. Durable' = Durable
    BY <1>10, <2>1
  <2> QED
    BY <1>1, <2>1, <2>2, SMTT(30) DEF MemMap, Active
<1>18. CASE RecoverErase
  <2>1. /\ UNCHANGED <<home, mem, pc>> /\ boot = "install" /\ boot' = "up" /\ hdr' = <<>>
        /\ rtail = Len(lh) /\ lh = hdr /\ mem = home
    BY <1>18, SMTT(30) DEF RecoverErase, DataInv, RecoverInv
  <2>2. Durable = home /\ Durable' = home
    BY <1>12, <1>13, <2>1 DEF DataInv, RecoverInv
  <2> QED
    BY <1>1, <2>1, <2>2, SMTT(30) DEF MemMap, Active
<1>19. CASE UNCHANGED vars
  <2>1. Durable' = Durable
    BY <1>19, DurableKept DEF vars
  <2> QED
    BY <1>1, <1>19, <2>1, SMTT(30) DEF vars, MemMap, Active
<1> QED
  BY <1>4, <1>5, <1>6, <1>7, <1>8, <1>9, <1>11, <1>14, <1>15, <1>16, <1>17, <1>18, <1>19, SMTT(30)
  DEF Next, Progress, Recover

\* The log implements the transactional disk for every number of processes,
\* blocks and contents: wherever a crash hits, each group of calls is on the
\* disk as a whole or not at all.
THEOREM LogCrashAtomic == Spec => CrashAtomic
<1>1. Init => Tx!TxInit
  <2> SUFFICES ASSUME Init PROVE Tx!TxInit
    OBVIOUS
  <2>1. Durable = home
    BY DurableHome DEF Init
  <2> QED
    BY <2>1 DEF Init, Tx!TxInit
<1> QED
  BY <1>1, NextTx, LogDataInductive, PTL DEF Spec, CrashAtomic, Tx!TxSpec
=============================================================================
