---------------------------- MODULE FinaliseProofs ----------------------------
(***************************************************************************)
(* Theorems about Finalise, for every set of requests and processes, any   *)
(* distribution of duties and any number of evictions and lost files.      *)
(***************************************************************************)
EXTENDS Finalise, TLAPS

\* The type invariant by parts: database, disk, memory of the processes.
StoreOK ==
    /\ row \in [Requests -> {"pending", "successful", "failed", "cancelled"}]
    /\ entry \in Paths \cup {NoPath}
    /\ tombs \in Seq(Tombs)
DiskOK ==
    /\ job \in [Requests -> {"running", "done", "failed", "cancelled"}]
    /\ files \in SUBSET Paths
    /\ names \in 0..MaxNames
    /\ claims \in 0..MaxClaims
MemoryOK ==
    /\ pc \in [Processes -> Steps]
    /\ req \in [Processes -> Requests]
    /\ path \in [Processes -> Paths \cup {NoPath}]
    /\ src \in [Processes -> Paths \cup {NoPath}]
    /\ victim \in [Processes -> Paths \cup {NoPath}]
    /\ doomed \in [Processes -> Paths \cup {NoPath}]

\* A process that is about to register a file registers one of its own request,
\* and one that evicts has read an entry.
Owning   == {"size", "register", "lost", "linked", "stat", "repair"}
Evicting == {"evict", "unlink"}
HoldsOwn ==
    \A p \in Processes :
        /\ pc[p] \in Owning => path[p] \in Paths /\ path[p].req = req[p]
        /\ pc[p] \in Evicting => victim[p] \in Paths

MInv == MemoryOK /\ HoldsOwn
IInv == StoreOK /\ DiskOK /\ MInv

-----------------------------------------------------------------------------
(* What the steps are built from.                                          *)

LEMMA PathOf ==
  ASSUME NEW r \in Requests
  PROVE  Original(r) \in Paths /\ Original(r).req = r
  BY FinaliseAssumption DEF Original, Paths

LEMMA FreshPath ==
  ASSUME NEW r \in Requests, names \in 0..MaxNames, names < MaxNames
  PROVE  /\ NewName(r) \in Paths
         /\ NewName(r).req = r
         /\ names + 1 \in 0..MaxNames
  BY FinaliseAssumption DEF NewName, Paths

LEMMA NoPathIsNone == NoPath \notin Paths /\ NoPath \notin Requests
  BY FinaliseAssumption

LEMMA TombsGrow ==
  ASSUME tombs \in Seq(Tombs), NEW f \in Paths, NEW c \in BOOLEAN
  PROVE  Append(tombs, [path |-> f, claimed |-> c]) \in Seq(Tombs)
  BY DEF Tombs

\* An operation that ends leaves nothing behind.
LEMMA FinishKeeps ==
  ASSUME MInv, NEW p \in Processes, Finish(p)
  PROVE  MInv'
  BY DEF MInv, MemoryOK, HoldsOwn, Finish, Goto, Steps, Owning, Evicting

\* A step that only moves on keeps what the process holds.
LEMMA MoveKeeps ==
  ASSUME MInv, NEW p \in Processes, NEW s \in Steps, Goto(p, s), UNCHANGED local,
         s \in Owning => pc[p] \in Owning,
         s \in Evicting => pc[p] \in Evicting
  PROVE  MInv'
  BY DEF MInv, MemoryOK, HoldsOwn, Goto, local

\* A process takes a file in hand.
LEMMA PathKeeps ==
  ASSUME MInv, NEW p \in Processes, NEW s \in Steps \ Evicting, Goto(p, s),
         NEW f \in Paths, path' = [path EXCEPT ![p] = f], f.req = req[p],
         UNCHANGED <<req, src, victim, doomed>>
  PROVE  MInv'
  BY DEF MInv, MemoryOK, HoldsOwn, Goto

\* A process remembers a file to adopt or remove, or one it must not adopt.
LEMMA NoteKeeps ==
  ASSUME MInv, NEW p \in Processes, NEW s \in Steps \ (Owning \cup Evicting),
         Goto(p, s),
         NEW f \in Paths \cup {NoPath}, NEW g \in Paths \cup {NoPath},
         src' = [src EXCEPT ![p] = f], doomed' = [doomed EXCEPT ![p] = g],
         UNCHANGED <<req, path, victim>>
  PROVE  MInv'
  BY DEF MInv, MemoryOK, HoldsOwn, Goto

\* A process starts on a request, or stays with the one it has.
LEMMA StartKeeps ==
  ASSUME MInv, NEW p \in Processes, NEW s \in Steps \ (Owning \cup Evicting),
         Goto(p, s), NEW r \in Requests, req' = [req EXCEPT ![p] = r],
         UNCHANGED <<path, src, victim, doomed>>
  PROVE  MInv'
  BY DEF MInv, MemoryOK, HoldsOwn, Goto

LEMMA TargetKeeps ==
  ASSUME MInv, NEW p \in Processes, Target(p), entry \in Paths \cup {NoPath},
         claims \in 0..MaxClaims
  PROVE  MInv' /\ claims' \in 0..MaxClaims
  BY FinaliseAssumption
  DEF MInv, MemoryOK, HoldsOwn, Target, Goto, Steps, Owning, Evicting

LEMMA AfterwardsKeeps ==
  ASSUME MInv, NEW p \in Processes, Afterwards(p)
  PROVE  MInv'
<1>1. CASE src[p] # NoPath /\ Goto(p, "retire") /\ UNCHANGED local
  BY <1>1, MoveKeeps DEF Steps, Owning, Evicting
<1>2. CASE Finish(p)
  BY <1>2, FinishKeeps
<1> QED
  BY <1>1, <1>2 DEF Afterwards

LEMMA SettleKeeps ==
  ASSUME StoreOK, NEW r \in Requests, SettleRow(r, "failed") \/ SettleRow(r, "cancelled"),
         UNCHANGED <<entry, tombs>>
  PROVE  StoreOK'
  BY DEF StoreOK, SettleRow

LEMMA EvictKeeps ==
  ASSUME StoreOK, entry \in Paths, NEW c \in BOOLEAN, EvictEntry(c), UNCHANGED row
  PROVE  StoreOK'
  BY TombsGrow DEF StoreOK, EvictEntry

LEMMA EvictMatchKeeps ==
  ASSUME StoreOK, NEW f \in Paths, NEW c \in BOOLEAN, EvictIfMatches(f, c), UNCHANGED row
  PROVE  StoreOK'
  BY EvictKeeps DEF StoreOK, EvictIfMatches

LEMMA LookUpKeeps ==
  ASSUME StoreOK, LookUp, UNCHANGED row
  PROVE  StoreOK'
  BY EvictKeeps DEF StoreOK, LookUp

LEMMA PublishKeeps ==
  ASSUME DiskOK, MInv, NEW p \in Processes, NEW s \in {"linked", "stat"},
         PublishFresh(p, s), UNCHANGED <<job, claims, req, src, victim, doomed>>
  PROVE  DiskOK' /\ MInv'
<1>1. req[p] \in Requests
  BY DEF MInv, MemoryOK
<1>2. DiskOK'
  BY <1>1, FreshPath DEF DiskOK, PublishFresh
<1>3. MInv'
  BY <1>1, FreshPath, PathKeeps DEF DiskOK, PublishFresh, Steps, Evicting
<1> QED
  BY <1>2, <1>3

-----------------------------------------------------------------------------
(* Every step keeps the invariant.                                         *)

LEMMA SameStore == StoreOK /\ UNCHANGED store => StoreOK'
  BY DEF StoreOK, store

LEMMA SameDisk == DiskOK /\ UNCHANGED disk => DiskOK'
  BY DEF DiskOK, disk

LEMMA EmptyTombs == <<>> \in Seq(Tombs)
  OBVIOUS

LEMMA FilesGo ==
  ASSUME DiskOK, files' \subseteq files, UNCHANGED <<job, claims, names>>
  PROVE  DiskOK'
  BY DEF DiskOK

LEMMA FinaliseKeeps ==
  ASSUME IInv, NEW p \in Processes
  PROVE  /\ Check(p) \/ Find(p) \/ Download(p) \/ Publish(p) \/ Fail(p) => IInv'
         /\ Size(p) \/ Register(p) \/ Supersede(p) \/ Lost(p) => IInv'
<1> USE DEF IInv
<1>r. req[p] \in Requests /\ path[p] \in Paths \cup {NoPath}
  BY DEF MInv, MemoryOK
<1>1. Check(p) => IInv'
  BY SameStore, SameDisk, MoveKeeps, FinishKeeps DEF Check, Steps, Owning, Evicting
<1>2. Find(p) => IInv'
  <2> SUFFICES ASSUME Find(p) PROVE MInv'
    BY SameStore, SameDisk DEF Find
  <2>1. CASE Original(req[p]) \in files
    BY <1>r, <2>1, PathOf, PathKeeps DEF Find, Steps, Evicting
  <2>2. CASE Original(req[p]) \notin files
    BY <2>2, MoveKeeps DEF Find, Steps, Owning, Evicting, local
  <2> QED
    BY <2>1, <2>2
<1>3. Download(p) => IInv'
  BY SameStore, SameDisk, MoveKeeps, FinishKeeps DEF Download, Steps, Owning, Evicting
<1>4. Publish(p) => IInv'
  <2> SUFFICES ASSUME Publish(p) PROVE DiskOK' /\ MInv'
    BY SameStore DEF Publish, store
  <2>1. CASE /\ files' = files \cup {Original(req[p])}
             /\ path' = [path EXCEPT ![p] = Original(req[p])]
             /\ Goto(p, "size")
    <3>1. MInv'
      BY <1>r, <2>1, PathOf, PathKeeps DEF Publish, Steps, Evicting
    <3>2. DiskOK'
      BY <1>r, <2>1, PathOf DEF Publish, DiskOK
    <3> QED
      BY <3>1, <3>2
  <2>2. CASE Goto(p, "fail") /\ UNCHANGED <<files, path>>
    BY <2>2, MoveKeeps, FilesGo DEF Publish, Steps, Owning, Evicting, local
  <2> QED
    BY <2>1, <2>2 DEF Publish
<1>5. Fail(p) => IInv'
  BY <1>r, SettleKeeps, SameDisk, FinishKeeps DEF Fail
<1>6. Size(p) => IInv'
  BY SameStore, SameDisk, MoveKeeps, FinishKeeps DEF Size, Steps, Owning, Evicting
<1>7. Register(p) => IInv'
  <2> SUFFICES ASSUME Register(p) PROVE StoreOK' /\ MInv'
    BY SameDisk DEF Register, disk
  <2>1. path[p] \in Paths
    BY DEF Register, MInv, HoldsOwn, Owning
  <2>2. CASE Settles(req[p])
    <3>1. StoreOK'
      BY <1>r, <2>1, <2>2 DEF Register, StoreOK
    <3>2. MInv'
      BY <1>r, <2>2 DEF Register, MInv, MemoryOK, HoldsOwn, Goto, StoreOK, Steps, Owning, Evicting
    <3> QED
      BY <3>1, <3>2
  <2>3. CASE ~Settles(req[p])
    BY <2>3, SameStore, MoveKeeps DEF Register, Steps, Owning, Evicting, local
  <2> QED
    BY <2>2, <2>3
<1>8. Supersede(p) => IInv'
  <2> SUFFICES ASSUME Supersede(p) PROVE MInv'
    BY SameStore, FilesGo DEF Supersede
  <2> QED
    BY DEF Supersede, MInv, MemoryOK, HoldsOwn, Goto, Steps, Owning, Evicting
<1>9. Lost(p) => IInv'
  BY SameStore, FilesGo, FinishKeeps DEF Lost
<1> QED
  BY <1>1, <1>2, <1>3, <1>4, <1>5, <1>6, <1>7, <1>8, <1>9

LEMMA EvictKeepsAll ==
  ASSUME IInv, NEW p \in Processes
  PROVE  /\ Discard(p) \/ StartEvict(p) \/ Enforce(p) => IInv'
         /\ Evict(p) \/ Unlink(p) => IInv'
<1> USE DEF IInv
<1>1. Discard(p) => IInv'
  BY SameStore, FilesGo, FinishKeeps DEF Discard
<1>2. StartEvict(p) => IInv'
  BY SameStore, TargetKeeps DEF StartEvict, StoreOK, DiskOK
<1>3. Enforce(p) => IInv'
  BY SameStore, TargetKeeps, AfterwardsKeeps DEF Enforce, StoreOK, DiskOK
<1>4. Evict(p) => IInv'
  <2> SUFFICES ASSUME Evict(p) PROVE IInv'
    OBVIOUS
  <2>1. victim[p] \in Paths
    BY DEF Evict, MInv, HoldsOwn, Evicting
  <2>2. StoreOK' /\ DiskOK'
    BY <2>1, EvictMatchKeeps, SameDisk DEF Evict
  <2>3. MInv'
    BY MoveKeeps, AfterwardsKeeps DEF Evict, Steps, Owning, Evicting
  <2> QED
    BY <2>2, <2>3
<1>5. Unlink(p) => IInv'
  BY SameStore, FilesGo, AfterwardsKeeps DEF Unlink
<1> QED
  BY <1>1, <1>2, <1>3, <1>4, <1>5

LEMMA RepairKeeps ==
  ASSUME IInv, NEW p \in Processes
  PROVE  /\ Fetch(p) \/ ReadTomb(p) \/ AdoptOriginal(p) \/ AdoptFresh(p) => IInv'
         /\ Link(p) \/ Linked(p) \/ Gone(p) \/ Refetch(p) \/ Stat(p) => IInv'
         /\ Repair(p) \/ YieldRepair(p) \/ Retire(p) => IInv'
<1> USE DEF IInv
<1>r. /\ req[p] \in Requests
      /\ src[p] \in Paths \cup {NoPath}
      /\ doomed[p] \in Paths \cup {NoPath}
      /\ src = [src EXCEPT ![p] = src[p]]
      /\ doomed = [doomed EXCEPT ![p] = doomed[p]]
      /\ path = [path EXCEPT ![p] = path[p]]
  BY DEF MInv, MemoryOK
<1>f. files \subseteq Paths
  BY DEF DiskOK
<1>1. Fetch(p) => IInv'
  BY LookUpKeeps, SameDisk, FinishKeeps, MoveKeeps DEF Fetch, Steps, Owning, Evicting
<1>2. ReadTomb(p) => IInv'
  <2> SUFFICES ASSUME ReadTomb(p) PROVE MInv'
    BY SameStore, SameDisk DEF ReadTomb
  <2> DEFINE newest == tombs[Len(tombs)]
             claim  == IF tombs # <<>> /\ newest.claimed THEN newest.path ELSE NoPath
  <2>1. claim \in Paths \cup {NoPath}
    <3>1. CASE tombs # <<>>
      <4>1. newest \in Tombs
        BY <3>1 DEF StoreOK
      <4> QED
        BY <4>1 DEF Tombs
    <3>2. CASE tombs = <<>>
      BY <3>2
    <3> QED
      BY <3>1, <3>2
  <2>2. CASE Finish(p)
    BY <2>2, FinishKeeps
  <2>3. CASE /\ doomed' = [doomed EXCEPT ![p] = claim]
             /\ Goto(p, "adopt")
             /\ UNCHANGED <<req, path, src, victim>>
    BY <1>r, <2>1, <2>3, NoteKeeps DEF Steps, Owning, Evicting
  <2> QED
    BY <2>2, <2>3 DEF ReadTomb
<1>3. AdoptOriginal(p) => IInv'
  BY <1>r, <1>f, SameStore, SameDisk, NoteKeeps
  DEF AdoptOriginal, Steps, Owning, Evicting
<1>4. AdoptFresh(p) => IInv'
  BY <1>r, <1>f, SameStore, SameDisk, NoteKeeps
  DEF AdoptFresh, Named, Steps, Owning, Evicting
<1>5. Link(p) => IInv'
  <2> SUFFICES ASSUME Link(p) PROVE DiskOK' /\ MInv'
    BY SameStore DEF Link, store
  <2>1. CASE PublishFresh(p, "linked")
    BY <2>1, PublishKeeps DEF Link
  <2>2. CASE Goto(p, "gone") /\ UNCHANGED <<files, names, path>>
    BY <2>2, SameDisk, MoveKeeps DEF Link, Steps, Owning, Evicting, local, disk
  <2> QED
    BY <2>1, <2>2 DEF Link
<1>6. Linked(p) => IInv'
  BY SameStore, SameDisk, MoveKeeps DEF Linked, Steps, Owning, Evicting
<1>7. Gone(p) => IInv'
  <2> SUFFICES ASSUME Gone(p) PROVE MInv'
    BY LookUpKeeps, SameDisk DEF Gone
  <2>1. CASE Finish(p)
    BY <2>1, FinishKeeps
  <2>2. CASE /\ src' = [src EXCEPT ![p] = NoPath]
             /\ Goto(p, "refetch")
             /\ UNCHANGED <<req, path, victim, doomed>>
    BY <1>r, <2>2, NoteKeeps DEF Steps, Owning, Evicting
  <2> QED
    BY <2>1, <2>2 DEF Gone
<1>8. Refetch(p) => IInv'
  <2> SUFFICES ASSUME Refetch(p) PROVE DiskOK' /\ MInv'
    BY SameStore DEF Refetch, store
  <2>1. CASE PublishFresh(p, "stat") /\ UNCHANGED <<req, src, victim, doomed>>
    BY <2>1, PublishKeeps DEF Refetch
  <2>2. CASE Finish(p) /\ UNCHANGED <<files, names>>
    BY <2>2, SameDisk, FinishKeeps DEF Refetch, disk
  <2> QED
    BY <2>1, <2>2 DEF Refetch
<1>9. Stat(p) => IInv'
  BY SameStore, SameDisk, MoveKeeps DEF Stat, Steps, Owning, Evicting
<1>10. Repair(p) => IInv'
  <2> SUFFICES ASSUME Repair(p) PROVE StoreOK' /\ MInv'
    BY SameDisk DEF Repair
  <2>1. path[p] \in Paths
    BY DEF Repair, MInv, HoldsOwn, Owning
  <2>2. StoreOK'
    <3>1. tombs' \in Seq(Tombs)
      BY EmptyTombs DEF Repair, StoreOK
    <3> QED
      BY <2>1, <3>1 DEF Repair, StoreOK
  <2>3. MInv'
    BY MoveKeeps DEF Repair, Steps, Owning, Evicting
  <2> QED
    BY <2>2, <2>3
<1>11. YieldRepair(p) => IInv'
  BY LookUpKeeps, FilesGo, FinishKeeps DEF YieldRepair
<1>12. Retire(p) => IInv'
  BY SameStore, FilesGo, FinishKeeps DEF Retire
<1> QED
  BY <1>1, <1>2, <1>3, <1>4, <1>5, <1>6, <1>7, <1>8, <1>9, <1>10, <1>11, <1>12

LEMMA StartKeepsAll ==
  ASSUME IInv, NEW p \in Processes, NEW r \in Requests
  PROVE  Start(p, r) => IInv'
<1> USE DEF IInv
<1>1. RecordFailure(p, r) => IInv'
  <2> SUFFICES ASSUME RecordFailure(p, r) PROVE MInv'
    BY SettleKeeps, SameDisk DEF RecordFailure
  <2> QED
    BY DEF RecordFailure, MInv, MemoryOK, HoldsOwn, local
<1>2. StartFinalise(p, r) => IInv'
  BY SameStore, SameDisk, StartKeeps DEF StartFinalise, Steps, Owning, Evicting
<1>3. Cancel(p, r) => IInv'
  <2> SUFFICES ASSUME Cancel(p, r) PROVE MInv'
    BY SettleKeeps, SameDisk DEF Cancel
  <2>1. CASE row[r] = "pending"
    BY <2>1, StartKeeps DEF Cancel, Steps, Owning, Evicting
  <2>2. CASE row[r] # "pending"
    BY <2>2 DEF Cancel, MInv, MemoryOK, HoldsOwn
  <2> QED
    BY <2>1, <2>2
<1>4. StartFetch(p, r) => IInv'
  BY SameStore, SameDisk, StartKeeps DEF StartFetch, Steps, Owning, Evicting
<1> QED
  BY <1>1, <1>2, <1>3, <1>4 DEF Start

LEMMA OthersKeep ==
  ASSUME IInv
  PROVE  /\ \A r \in Requests : JobEnds(r) => IInv'
         /\ \A f \in files : LoseFile(f) => IInv'
         /\ \A p \in Processes : Crash(p) => IInv'
         /\ UNCHANGED vars => IInv'
<1> USE DEF IInv
<1>1. ASSUME UNCHANGED <<pc, local>> PROVE MInv'
  BY <1>1 DEF MInv, MemoryOK, HoldsOwn, local
<1>2. ASSUME NEW r \in Requests, JobEnds(r) PROVE IInv'
  BY <1>1, <1>2, SameStore DEF JobEnds, DiskOK
<1>3. ASSUME NEW f \in files, LoseFile(f) PROVE IInv'
  BY <1>1, <1>3, SameStore, FinaliseAssumption DEF LoseFile, DiskOK
<1>4. ASSUME NEW p \in Processes, Crash(p) PROVE IInv'
  BY <1>4, SameStore, SameDisk, MoveKeeps DEF Crash, Steps, Owning, Evicting
<1>5. ASSUME UNCHANGED vars PROVE IInv'
  BY <1>1, <1>5, SameStore, SameDisk DEF vars, store, disk, local
<1> QED
  BY <1>2, <1>3, <1>4, <1>5

LEMMA NextKeeps == IInv /\ [Next]_vars => IInv'
  BY FinaliseKeeps, EvictKeepsAll, RepairKeeps, StartKeepsAll, OthersKeep DEF Next, Step

LEMMA InitOK == Init => IInv
<1>1. (CHOOSE r \in Requests : TRUE) \in Requests
  BY FinaliseAssumption
<1> SUFFICES ASSUME Init PROVE IInv
  OBVIOUS
<1>2. StoreOK
  BY EmptyTombs DEF Init, StoreOK
<1>3. DiskOK
  BY FinaliseAssumption DEF Init, DiskOK
<1>4. MInv
  BY <1>1 DEF Init, MInv, MemoryOK, HoldsOwn, Owning, Evicting, Steps
<1> QED
  BY <1>2, <1>3, <1>4 DEF IInv

LEMMA Invariance == Spec => []IInv
  BY InitOK, NextKeeps, PTL DEF Spec

\* Finalise is type correct for any number of requests, processes, evictions and
\* lost files.
THEOREM TypeCorrect == Spec => []TypeOK
<1>1. IInv => TypeOK
  BY DEF IInv, StoreOK, DiskOK, MInv, MemoryOK, TypeOK
<1> QED
  BY <1>1, Invariance, PTL

-----------------------------------------------------------------------------
(* Finalise implements Delivery.                                           *)

OnShelf == IF entry = NoPath THEN NoPath ELSE entry.req

\* A step that changes neither a row nor what is on the shelf.
LEMMA Stutters ==
  ASSUME UNCHANGED <<row, entry>>
  PROVE  UNCHANGED <<row, OnShelf>>
  BY DEF OnShelf

\* A row ends, and the shelf is as it was.
LEMMA SettleEnds ==
  ASSUME NEW r \in Requests, row \in [Requests -> {"pending", "successful", "failed", "cancelled"}],
         SettleRow(r, "failed") \/ SettleRow(r, "cancelled"), UNCHANGED entry
  PROVE  [Shelf!Next]_<<row, OnShelf>>
  BY Stutters DEF SettleRow, OnShelf, Shelf!Next, Shelf!End

\* An entry is evicted.
LEMMA EvictLoses ==
  ASSUME entry \in Paths, entry' = NoPath, UNCHANGED row
  PROVE  [Shelf!Next]_<<row, OnShelf>>
<1>1. entry.req \in Requests
  BY DEF Paths
<1> QED
  BY <1>1, NoPathIsNone DEF OnShelf, Shelf!Next, Shelf!Lose

LEMMA LookUpLoses ==
  ASSUME entry \in Paths \cup {NoPath}, LookUp, UNCHANGED row
  PROVE  [Shelf!Next]_<<row, OnShelf>>
  BY Stutters, EvictLoses DEF LookUp, EvictEntry

\* A transaction of commit_success_with_cache_entry or register_entry_if_missing.
LEMMA RegisterDelivers ==
  ASSUME IInv, NEW p \in Processes, Register(p) \/ Repair(p)
  PROVE  [Shelf!Next]_<<row, OnShelf>>
<1>1. /\ req[p] \in Requests
      /\ path[p] \in Paths
      /\ path[p].req = req[p]
      /\ path[p] # NoPath
  BY NoPathIsNone DEF IInv, MInv, MemoryOK, HoldsOwn, Owning, Register, Repair
<1>2. CASE Register(p) /\ Settles(req[p])
  <2>1. Shelf!Deliver(req[p])
    BY <1>1, <1>2 DEF Register, Settles, Shelf!Deliver
  <2> QED
    BY <1>1, <2>1 DEF Shelf!Next, OnShelf
<1>3. CASE Repair(p) /\ MayRepair(p)
  <2>1. Shelf!Restore(req[p])
    BY <1>1, <1>3 DEF Repair, MayRepair, Shelf!Restore
  <2> QED
    BY <1>1, <2>1 DEF Shelf!Next, OnShelf
<1>4. CASE UNCHANGED <<row, entry>>
  BY <1>4, Stutters
<1> QED
  BY <1>2, <1>3, <1>4 DEF Register, Repair, store

LEMMA NextDelivers == IInv /\ [Next]_vars => [Shelf!Next]_<<row, OnShelf>>
<1> SUFFICES ASSUME IInv, [Next]_vars PROVE [Shelf!Next]_<<row, OnShelf>>
  OBVIOUS
<1>0. /\ row \in [Requests -> {"pending", "successful", "failed", "cancelled"}]
      /\ entry \in Paths \cup {NoPath}
      /\ req \in [Processes -> Requests]
  BY DEF IInv, StoreOK, MInv, MemoryOK
<1>1. ASSUME NEW p \in Processes, Register(p) \/ Repair(p)
      PROVE  [Shelf!Next]_<<row, OnShelf>>
  BY <1>1, RegisterDelivers
<1>2. ASSUME NEW p \in Processes, Fail(p)
      PROVE  [Shelf!Next]_<<row, OnShelf>>
  BY <1>0, <1>2, SettleEnds DEF Fail
<1>3. ASSUME NEW p \in Processes, NEW r \in Requests, RecordFailure(p, r) \/ Cancel(p, r)
      PROVE  [Shelf!Next]_<<row, OnShelf>>
  BY <1>0, <1>3, SettleEnds DEF RecordFailure, Cancel
<1>4. ASSUME NEW p \in Processes, Fetch(p) \/ Gone(p) \/ YieldRepair(p)
      PROVE  [Shelf!Next]_<<row, OnShelf>>
  BY <1>0, <1>4, LookUpLoses DEF Fetch, Gone, YieldRepair
<1>5. ASSUME NEW p \in Processes, Evict(p)
      PROVE  [Shelf!Next]_<<row, OnShelf>>
  <2>1. victim[p] \in Paths
    BY <1>5 DEF Evict, IInv, MInv, HoldsOwn, Evicting
  <2> QED
    BY <1>5, <2>1, EvictLoses, Stutters DEF Evict, EvictIfMatches, EvictEntry
<1>6. ASSUME NEW p \in Processes,
             \/ Check(p) \/ Find(p) \/ Download(p) \/ Publish(p) \/ Size(p) \/ Supersede(p)
             \/ Lost(p) \/ Discard(p) \/ Enforce(p) \/ Unlink(p) \/ ReadTomb(p)
             \/ AdoptOriginal(p) \/ AdoptFresh(p) \/ Link(p) \/ Linked(p) \/ Refetch(p)
             \/ Stat(p) \/ Retire(p) \/ StartEvict(p) \/ Crash(p)
      PROVE  UNCHANGED store
  BY <1>6 DEF Check, Find, Download, Publish, Size, Supersede, Lost, Discard, Enforce,
     Unlink, ReadTomb, AdoptOriginal, AdoptFresh, Link, Linked, Refetch, Stat, Retire,
     StartEvict, Crash, store
<1>7. ASSUME NEW p \in Processes, NEW r \in Requests, StartFinalise(p, r) \/ StartFetch(p, r)
      PROVE  UNCHANGED store
  BY <1>7 DEF StartFinalise, StartFetch
<1>8. ASSUME \/ \E r \in Requests : JobEnds(r)
             \/ \E f \in files : LoseFile(f)
             \/ UNCHANGED vars
      PROVE  UNCHANGED store
  BY <1>8 DEF JobEnds, LoseFile, vars, store
<1>9. UNCHANGED store => [Shelf!Next]_<<row, OnShelf>>
  BY Stutters DEF store
<1> QED
  BY <1>1, <1>2, <1>3, <1>4, <1>5, <1>6, <1>7, <1>8, <1>9 DEF Next, Step, Start

\* Finalise implements Delivery: a row ends once and with its entry, a result is only
\* ever that of a delivered request, and a repair replaces nothing (KeepsPromise).
THEOREM Delivers == Spec => KeepsPromise
<1>1. Init => Shelf!Init
  BY DEF Init, Shelf!Init
<1>2. IInv /\ [Next]_vars => [Shelf!Next]_<<row, IF entry = NoPath THEN NoPath ELSE entry.req>>
  BY NextDelivers DEF OnShelf
<1> QED
  BY <1>1, <1>2, Invariance, PTL DEF Spec, KeepsPromise, Shelf!Spec

-----------------------------------------------------------------------------
(* No cancelled request keeps a file when all is done.                     *)

\* Files, deliveries and finalisers are of jobs that are done; who repairs works for
\* a delivered request; and the cache serves one.
Finalising == {"check", "find", "download", "publish", "size", "register"}
Serving == {"lookup", "tomb", "adopt", "adopt_fresh", "link", "linked", "gone",
            "refetch", "stat", "repair", "yield"}
FilesAreDone   == \A f \in files : job[f.req] = "done"
SuccessIsDone  == \A r \in Requests : row[r] = "successful" => job[r] = "done"
WorksOnDone    ==
    \A p \in Processes :
        /\ pc[p] \in Finalising => job[req[p]] = "done"
        /\ pc[p] \in Serving => row[req[p]] = "successful"
ServesSuccess  == OnShelf # NoPath => row[OnShelf] = "successful"

\* A file of a cancelled request is in the hands of somebody who removes it, or of
\* nobody who lives.
Heir(p, f) ==
    \/ pc[p] = "discard" /\ req[p] = f.req
    \/ pc[p] \in {"size", "register", "lost"} /\ path[p] = f
    \/ pc[p] = "dead"
HasHeir == \A f \in files : row[f.req] = "cancelled" => \E p \in Processes : Heir(p, f)

CInv == FilesAreDone /\ SuccessIsDone /\ WorksOnDone /\ ServesSuccess /\ HasHeir

\* What is over is over: rows by the refinement, jobs by JobEnds.
LEMMA Permanent ==
  ASSUME IInv, [Next]_vars, NEW r \in Requests
  PROVE  /\ row[r] # "pending" => row'[r] = row[r]
         /\ job[r] = "done" => job'[r] = "done"
<1>1. row \in [Requests -> {"pending", "successful", "failed", "cancelled"}]
  BY DEF IInv, StoreOK
<1>2. row[r] # "pending" => row'[r] = row[r]
  <2>1. [Shelf!Next]_<<row, OnShelf>>
    BY NextDelivers
  <2> QED
    BY <1>1, <2>1
    DEF Shelf!Next, Shelf!Lose, Shelf!Deliver, Shelf!End, Shelf!Restore
<1>3. job[r] = "done" => job'[r] = "done"
  <2>1. CASE UNCHANGED job
    BY <2>1
  <2>2. CASE \E q \in Requests : JobEnds(q)
    BY <2>2 DEF JobEnds, IInv, DiskOK
  <2>3. ASSUME NEW p \in Processes, Step(p) \/ StartEvict(p) \/ Crash(p)
        PROVE  UNCHANGED job
    BY <2>3 DEF Step, Check, Find, Download, Publish, Fail, Size, Register, Supersede, Lost,
       Discard, Enforce, Evict, Unlink, Fetch, ReadTomb, AdoptOriginal, AdoptFresh, Link,
       Linked, Gone, Refetch, Stat, Repair, YieldRepair, Retire, StartEvict, Crash, disk
  <2>4. ASSUME NEW p \in Processes, NEW q \in Requests, Start(p, q)
        PROVE  UNCHANGED job
    BY <2>4 DEF Start, RecordFailure, StartFinalise, Cancel, StartFetch, disk
  <2>5. ASSUME (\E f \in files : LoseFile(f)) \/ UNCHANGED vars
        PROVE  UNCHANGED job
    BY <2>5 DEF LoseFile, vars
  <2> QED
    BY <2>1, <2>2, <2>3, <2>4, <2>5 DEF Next
<1> QED
  BY <1>2, <1>3

\* A process goes on with the request it has, and begins neither a finalise nor a
\* fetch on the way.
LEMMA GoesOn ==
  ASSUME IInv, NEW p \in Processes, Step(p) \/ StartEvict(p) \/ Crash(p)
  PROVE  \E s \in Steps : /\ Goto(p, s) /\ UNCHANGED req
                          /\ s \in Finalising => pc[p] \in Finalising
                          /\ s \in Serving => pc[p] \in Serving
<1> DEFINE G == \E s \in Steps : /\ Goto(p, s) /\ UNCHANGED req
                                 /\ s \in Finalising => pc[p] \in Finalising
                                 /\ s \in Serving => pc[p] \in Serving
<1>0. /\ Finish(p) => G
      /\ Afterwards(p) => G
  BY DEF Finish, Afterwards, local, Steps, Finalising, Serving
<1>1. Check(p) \/ Find(p) \/ Download(p) \/ Publish(p) \/ Fail(p) \/ Size(p) => G
  BY <1>0 DEF Check, Find, Download, Publish, Fail, Size, local, Steps, Finalising, Serving
<1>2. Register(p) \/ Supersede(p) \/ Lost(p) \/ Discard(p) => G
  BY <1>0 DEF Register, Supersede, Lost, Discard, Steps, Finalising, Serving
<1>3. Enforce(p) \/ Evict(p) \/ Unlink(p) \/ StartEvict(p) \/ Crash(p) => G
  BY <1>0 DEF Enforce, Evict, Unlink, StartEvict, Crash, Target, local, Steps, Finalising, Serving
<1>4. Fetch(p) \/ ReadTomb(p) \/ AdoptOriginal(p) \/ AdoptFresh(p) => G
  BY <1>0 DEF Fetch, ReadTomb, AdoptOriginal, AdoptFresh, local, Steps, Finalising, Serving
<1>5. Link(p) \/ Linked(p) \/ Gone(p) \/ Refetch(p) => G
  BY <1>0 DEF Link, Linked, Gone, Refetch, PublishFresh, local, Steps, Finalising, Serving
<1>6. Stat(p) \/ Repair(p) \/ YieldRepair(p) \/ Retire(p) => G
  BY <1>0 DEF Stat, Repair, YieldRepair, Retire, local, Steps, Finalising, Serving
<1> QED
  BY <1>1, <1>2, <1>3, <1>4, <1>5, <1>6 DEF Step

LEMMA WorkKeeps ==
  ASSUME IInv, CInv, [Next]_vars
  PROVE  WorksOnDone'
<1>0. /\ pc \in [Processes -> Steps] /\ req \in [Processes -> Requests]
      /\ \A q \in Processes : pc[q] \in Serving => row[req[q]] = "successful"
      /\ \A q \in Processes : pc[q] \in Finalising => job[req[q]] = "done"
  BY DEF IInv, MInv, MemoryOK, CInv, WorksOnDone
<1>p. \A r \in Requests : /\ row[r] = "successful" => row'[r] = "successful"
                          /\ job[r] = "done" => job'[r] = "done"
  BY Permanent
<1>1. ASSUME NEW p \in Processes, Step(p) \/ StartEvict(p) \/ Crash(p)
      PROVE  WorksOnDone'
  <2>1. PICK s \in Steps : /\ Goto(p, s) /\ UNCHANGED req
                           /\ s \in Finalising => pc[p] \in Finalising
                           /\ s \in Serving => pc[p] \in Serving
    BY <1>1, GoesOn
  <2> QED
    BY <1>0, <1>p, <2>1 DEF WorksOnDone, Goto
<1>2. ASSUME NEW p \in Processes, NEW r \in Requests, Start(p, r)
      PROVE  WorksOnDone'
  <2>1. CASE UNCHANGED <<pc, req>>
    BY <1>0, <1>p, <2>1 DEF WorksOnDone
  <2>2. CASE /\ req' = [req EXCEPT ![p] = r]
             /\ \/ Goto(p, "check") /\ job[r] = "done"
                \/ Goto(p, "lookup") /\ row[r] = "successful"
                \/ Goto(p, "discard")
    BY <1>0, <1>p, <2>2 DEF WorksOnDone, Goto, Finalising, Serving
  <2> QED
    BY <1>2, <2>1, <2>2 DEF Start, RecordFailure, StartFinalise, Cancel, StartFetch, local
<1>3. ASSUME \/ \E r \in Requests : JobEnds(r)
             \/ \E f \in files : LoseFile(f)
             \/ UNCHANGED vars
      PROVE  WorksOnDone'
  <2>1. UNCHANGED <<pc, req>>
    BY <1>3 DEF JobEnds, LoseFile, vars, local
  <2> QED
    BY <1>0, <1>p, <2>1 DEF WorksOnDone
<1> QED
  BY <1>1, <1>2, <1>3 DEF Next

\* Files appear only in the hands of a finaliser or a repair.
LEMMA FilesAppear ==
  ASSUME IInv, [Next]_vars, NEW f \in files', f \notin files
  PROVE  \E p \in Processes :
           /\ f.req = req[p]
           /\ \/ Publish(p) /\ pc[p] \in Finalising /\ path'[p] = f /\ pc'[p] = "size"
              \/ pc[p] \in Serving /\ UNCHANGED row
<1>0. /\ pc \in [Processes -> Steps] /\ req \in [Processes -> Requests]
      /\ path \in [Processes -> Paths \cup {NoPath}]
      /\ names \in 0..MaxNames
  BY DEF IInv, MInv, MemoryOK, DiskOK
<1>1. ASSUME NEW p \in Processes, Publish(p)
      PROVE  /\ f.req = req[p] /\ path'[p] = f
             /\ pc[p] \in Finalising /\ pc'[p] = "size"
  BY <1>0, <1>1, PathOf DEF Publish, Goto, Finalising
<1>2. ASSUME NEW p \in Processes, Link(p) \/ Refetch(p)
      PROVE  f.req = req[p] /\ pc[p] \in Serving /\ UNCHANGED row
  BY <1>0, <1>2, FreshPath DEF Link, Refetch, PublishFresh, Serving, store
<1>3. ASSUME NEW p \in Processes, Step(p) \/ StartEvict(p) \/ Crash(p),
             ~Publish(p), ~Link(p), ~Refetch(p)
      PROVE  FALSE
  BY <1>3 DEF Step, Check, Find, Download, Fail, Size, Register, Supersede, Lost,
     Discard, Enforce, Evict, Unlink, Fetch, ReadTomb, AdoptOriginal, AdoptFresh,
     Linked, Gone, Stat, Repair, YieldRepair, Retire, StartEvict, Crash, disk
<1>4. ASSUME NEW p \in Processes, NEW r \in Requests, Start(p, r)
      PROVE  FALSE
  BY <1>4 DEF Start, RecordFailure, StartFinalise, Cancel, StartFetch, disk
<1>5. ASSUME \/ \E r \in Requests : JobEnds(r)
             \/ \E g \in files : LoseFile(g)
             \/ UNCHANGED vars
      PROVE  FALSE
  BY <1>5 DEF JobEnds, LoseFile, vars
<1> QED
  BY <1>1, <1>2, <1>3, <1>4, <1>5 DEF Next


LEMMA DoneKeeps ==
  ASSUME IInv, CInv, [Next]_vars
  PROVE  FilesAreDone'
<1>0. /\ IInv'
      /\ req \in [Processes -> Requests]
  BY NextKeeps DEF IInv, MInv, MemoryOK
<1> SUFFICES ASSUME NEW f \in files' PROVE job'[f.req] = "done"
  BY DEF FilesAreDone
<1>1. f.req \in Requests
  BY <1>0 DEF IInv, DiskOK, Paths
<1>2. job[f.req] = "done"
  <2>1. CASE f \in files
    BY <2>1 DEF CInv, FilesAreDone
  <2>2. CASE f \notin files
    BY <1>0, <2>2, FilesAppear DEF CInv, WorksOnDone, SuccessIsDone
  <2> QED
    BY <2>1, <2>2
<1> QED
  BY <1>1, <1>2, Permanent

\* What changes a row.
LEMMA RowsChange ==
  ASSUME IInv, [Next]_vars, NEW r \in Requests, row'[r] # row[r]
  PROVE  /\ row[r] = "pending"
         /\ \E p \in Processes :
              \/ Register(p) /\ r = req[p] /\ row'[r] = "successful"
              \/ Fail(p) /\ row'[r] = "failed"
              \/ RecordFailure(p, r) /\ row'[r] = job[r]
              \/ Cancel(p, r)
<1>0. row \in [Requests -> {"pending", "successful", "failed", "cancelled"}]
  BY DEF IInv, StoreOK
<1>1. row[r] = "pending"
  BY Permanent
<1> DEFINE C == \E p \in Processes :
              \/ Register(p) /\ r = req[p] /\ row'[r] = "successful"
              \/ Fail(p) /\ row'[r] = "failed"
              \/ RecordFailure(p, r) /\ row'[r] = job[r]
              \/ Cancel(p, r)
<1>2. ASSUME NEW p \in Processes, Register(p) PROVE C
  BY <1>0, <1>2 DEF Register, store
<1>3. ASSUME NEW p \in Processes, Fail(p) PROVE C
  BY <1>0, <1>3 DEF Fail, SettleRow
<1>4. ASSUME NEW p \in Processes, NEW q \in Requests, RecordFailure(p, q) \/ Cancel(p, q)
      PROVE  C
  BY <1>0, <1>4 DEF RecordFailure, Cancel, SettleRow
<1>5. ASSUME NEW p \in Processes, Step(p) \/ StartEvict(p) \/ Crash(p), ~Register(p), ~Fail(p)
      PROVE  UNCHANGED row
  BY <1>5 DEF Step, Check, Find, Download, Publish, Size, Supersede, Lost,
     Discard, Enforce, Evict, Unlink, Fetch, ReadTomb, AdoptOriginal, AdoptFresh, Link,
     Linked, Gone, Refetch, Stat, Repair, YieldRepair, Retire, StartEvict, Crash, store
<1>6. ASSUME NEW p \in Processes, NEW q \in Requests, StartFinalise(p, q) \/ StartFetch(p, q)
      PROVE  UNCHANGED row
  BY <1>6 DEF StartFinalise, StartFetch, store
<1>7. ASSUME \/ \E q \in Requests : JobEnds(q)
             \/ \E f \in files : LoseFile(f)
             \/ UNCHANGED vars
      PROVE  UNCHANGED row
  BY <1>7 DEF JobEnds, LoseFile, vars, store
<1>8. C
  BY <1>2, <1>3, <1>4, <1>5, <1>6, <1>7 DEF Next, Start
<1> QED
  BY <1>1, <1>8

LEMMA SuccessKeeps ==
  ASSUME IInv, CInv, [Next]_vars
  PROVE  SuccessIsDone'
<1> SUFFICES ASSUME NEW r \in Requests, row'[r] = "successful" PROVE job'[r] = "done"
  BY DEF SuccessIsDone
<1>1. CASE row[r] = "successful"
  BY <1>1, Permanent DEF CInv, SuccessIsDone
<1>2. CASE row[r] # "successful"
  <2>0. /\ row \in [Requests -> {"pending", "successful", "failed", "cancelled"}]
        /\ job \in [Requests -> {"running", "done", "failed", "cancelled"}]
    BY DEF IInv, StoreOK, DiskOK
  <2>1. PICK p \in Processes : Register(p) /\ r = req[p]
    BY <1>2, <2>0, RowsChange DEF Cancel, SettleRow
  <2>2. job[r] = "done"
    BY <2>1 DEF Register, CInv, WorksOnDone, Finalising
  <2> QED
    BY <2>2, Permanent
<1> QED
  BY <1>1, <1>2

LEMMA ServesKeeps ==
  ASSUME IInv, CInv, [Next]_vars
  PROVE  ServesSuccess'
<1>1. [Shelf!Next]_<<row, OnShelf>>
  BY NextDelivers
<1>2. row \in [Requests -> {"pending", "successful", "failed", "cancelled"}]
  BY DEF IInv, StoreOK
<1>3. OnShelf # NoPath => OnShelf \in Requests
  BY DEF OnShelf, IInv, StoreOK, Paths
<1> QED
  BY <1>1, <1>2, <1>3, NoPathIsNone
  DEF OnShelf, CInv, ServesSuccess, Shelf!Next, Shelf!Lose, Shelf!Deliver, Shelf!End, Shelf!Restore

\* A finaliser or canceller that holds a dead file goes on to remove it.
LEMMA HeirStays ==
  ASSUME IInv, CInv, [Next]_vars, NEW p \in Processes, NEW f \in files, f \in files',
         row[f.req] = "cancelled", Heir(p, f)
  PROVE  Heir(p, f)'
<1>0. /\ pc \in [Processes -> Steps] /\ req \in [Processes -> Requests]
      /\ path \in [Processes -> Paths \cup {NoPath}]
      /\ f \in Paths
      /\ \A q \in Processes : pc[q] \in {"size", "register", "lost"} => path[q].req = req[q]
  BY DEF IInv, MInv, MemoryOK, HoldsOwn, Owning, DiskOK
<1>1. ASSUME pc'[p] = pc[p], req'[p] = req[p], path'[p] = path[p]
      PROVE  Heir(p, f)'
  BY <1>1 DEF Heir
<1>2. ASSUME NEW q \in Processes, q # p, Step(q) \/ StartEvict(q) \/ Crash(q)
      PROVE  pc'[p] = pc[p] /\ req'[p] = req[p] /\ path'[p] = path[p]
  <2>1. pc'[p] = pc[p] /\ req'[p] = req[p]
    BY <1>0, <1>2, GoesOn DEF Goto
  <2>2. path'[p] = path[p]
    BY <1>0, <1>2 DEF Step, Check, Find, Download, Publish, Fail, Size, Register, Supersede,
       Lost, Discard, Enforce, Evict, Unlink, Fetch, ReadTomb, AdoptOriginal, AdoptFresh, Link,
       Linked, Gone, Refetch, Stat, Repair, YieldRepair, Retire, StartEvict, Crash, Target,
       Finish, Afterwards, PublishFresh, local
  <2> QED
    BY <2>1, <2>2
<1>3. CASE Step(p)
  <2>1. CASE pc[p] = "discard"
    <3>1. Discard(p)
      BY <1>3, <2>1 DEF Step, Check, Find, Download, Publish, Fail, Size, Register, Supersede,
         Lost, Enforce, Evict, Unlink, Fetch, ReadTomb, AdoptOriginal, AdoptFresh, Link,
         Linked, Gone, Refetch, Stat, Repair, YieldRepair, Retire
    <3> QED
      BY <2>1, <3>1 DEF Discard, Heir
  <2>2. CASE pc[p] = "size"
    <3>1. Size(p)
      BY <1>3, <2>2 DEF Step, Check, Find, Download, Publish, Fail, Register, Supersede,
         Lost, Discard, Enforce, Evict, Unlink, Fetch, ReadTomb, AdoptOriginal, AdoptFresh,
         Link, Linked, Gone, Refetch, Stat, Repair, YieldRepair, Retire
    <3> QED
      BY <1>0, <2>2, <3>1 DEF Size, Heir, Goto, local
  <2>3. CASE pc[p] = "register"
    <3>1. Register(p)
      BY <1>3, <2>3 DEF Step, Check, Find, Download, Publish, Fail, Size, Supersede,
         Lost, Discard, Enforce, Evict, Unlink, Fetch, ReadTomb, AdoptOriginal, AdoptFresh,
         Link, Linked, Gone, Refetch, Stat, Repair, YieldRepair, Retire
    <3>2. path[p] = f /\ row[req[p]] = "cancelled"
      BY <1>0, <2>3 DEF Heir
    <3> QED
      BY <1>0, <2>3, <3>1, <3>2 DEF Register, Settles, Heir, Goto
  <2>4. CASE pc[p] = "lost"
    <3>1. Lost(p)
      BY <1>3, <2>4 DEF Step, Check, Find, Download, Publish, Fail, Size, Register, Supersede,
         Discard, Enforce, Evict, Unlink, Fetch, ReadTomb, AdoptOriginal, AdoptFresh,
         Link, Linked, Gone, Refetch, Stat, Repair, YieldRepair, Retire
    <3>2. path[p] = f /\ row[req[p]] = "cancelled"
      BY <1>0, <2>4 DEF Heir
    <3>3. entry # f
      BY <1>0, NoPathIsNone DEF CInv, ServesSuccess, OnShelf, Paths
    <3> QED
      BY <3>1, <3>2, <3>3 DEF Lost, DeadFile
  <2>5. CASE pc[p] = "dead"
    BY <1>3, <2>5 DEF Step, Check, Find, Download, Publish, Fail, Size, Register, Supersede,
       Lost, Discard, Enforce, Evict, Unlink, Fetch, ReadTomb, AdoptOriginal, AdoptFresh, Link,
       Linked, Gone, Refetch, Stat, Repair, YieldRepair, Retire
  <2> QED
    BY <2>1, <2>2, <2>3, <2>4, <2>5 DEF Heir
<1>4. CASE StartEvict(p)
  BY <1>4 DEF StartEvict, Heir
<1>5. CASE Crash(p)
  BY <1>0, <1>5 DEF Crash, Goto, Heir
<1>6. ASSUME NEW q \in Processes, NEW r \in Requests, Start(q, r)
      PROVE  Heir(p, f)'
  <2>1. pc[q] = "idle" \/ UNCHANGED <<pc, req>>
    BY <1>6 DEF Start, RecordFailure, StartFinalise, Cancel, StartFetch, local
  <2>2. /\ UNCHANGED path
        /\ UNCHANGED <<pc, req>> \/ \E s \in Steps : Goto(q, s) /\ req' = [req EXCEPT ![q] = r]
    BY <1>6 DEF Start, RecordFailure, StartFinalise, Cancel, StartFetch, local, Steps
  <2>3. CASE q = p
    BY <1>1, <2>1, <2>2, <2>3 DEF Heir
  <2>4. CASE q # p
    BY <1>0, <1>1, <2>2, <2>4 DEF Goto
  <2> QED
    BY <2>3, <2>4
<1>7. ASSUME \/ \E r \in Requests : JobEnds(r)
             \/ \E g \in files : LoseFile(g)
             \/ UNCHANGED vars
      PROVE  Heir(p, f)'
  BY <1>1, <1>7 DEF JobEnds, LoseFile, vars, local
<1> QED
  BY <1>1, <1>2, <1>3, <1>4, <1>5, <1>6, <1>7 DEF Next

\* A file that is new, or newly dead, is in the hands of who made it, or of the cancel.
LEMMA NewHeir ==
  ASSUME IInv, CInv, [Next]_vars, NEW f \in files', row'[f.req] = "cancelled",
         f \notin files \/ row[f.req] # "cancelled"
  PROVE  \E p \in Processes : Heir(p, f)'
<1>0. /\ IInv'
      /\ pc \in [Processes -> Steps] /\ req \in [Processes -> Requests]
      /\ row \in [Requests -> {"pending", "successful", "failed", "cancelled"}]
  BY NextKeeps DEF IInv, StoreOK, MInv, MemoryOK
<1>1. f.req \in Requests
  BY <1>0 DEF IInv, DiskOK, Paths
<1>2. CASE f \notin files
  <2>1. PICK p \in Processes :
           /\ f.req = req[p]
           /\ \/ Publish(p) /\ pc[p] \in Finalising /\ path'[p] = f /\ pc'[p] = "size"
              \/ pc[p] \in Serving /\ UNCHANGED row
    BY <1>2, FilesAppear
  <2>2. ~(pc[p] \in Serving /\ UNCHANGED row)
    BY <2>1 DEF CInv, WorksOnDone
  <2> QED
    BY <2>1, <2>2 DEF Heir
<1>3. CASE f \in files /\ row[f.req] # "cancelled"
  <2>1. job[f.req] = "done"
    BY <1>3 DEF CInv, FilesAreDone
  <2>2. /\ row[f.req] = "pending"
        /\ \E p \in Processes : Cancel(p, f.req)
    BY <1>1, <1>3, <2>1, RowsChange
  <2>3. PICK p \in Processes : Cancel(p, f.req)
    BY <2>2
  <2> QED
    BY <1>0, <2>2, <2>3 DEF Cancel, Heir, Goto
<1> QED
  BY <1>2, <1>3

LEMMA HeirKeeps ==
  ASSUME IInv, CInv, [Next]_vars
  PROVE  HasHeir'
<1> SUFFICES ASSUME NEW f \in files', row'[f.req] = "cancelled"
             PROVE  \E p \in Processes : Heir(p, f)'
  BY DEF HasHeir
<1>1. CASE f \in files /\ row[f.req] = "cancelled"
  <2>1. PICK p \in Processes : Heir(p, f)
    BY <1>1 DEF CInv, HasHeir
  <2> QED
    BY <1>1, <2>1, HeirStays
<1>2. CASE f \notin files \/ row[f.req] # "cancelled"
  BY <1>2, NewHeir
<1> QED
  BY <1>1, <1>2

LEMMA DoneInvariance == Spec => []CInv
<1>1. Init => CInv
  BY DEF Init, CInv, FilesAreDone, SuccessIsDone, WorksOnDone, Finalising, Serving,
     ServesSuccess, OnShelf, HasHeir
<1>2. IInv /\ CInv /\ [Next]_vars => CInv'
  BY DoneKeeps, SuccessKeeps, WorkKeeps, ServesKeeps, HeirKeeps DEF CInv
<1> QED
  BY <1>1, <1>2, Invariance, PTL DEF Spec

\* A cancelled request keeps no file once every operation has run to its end: either
\* the cancel or a finaliser that lost to it comes after the file and removes it.
THEOREM DeadFilesGo == Spec => []NoDeadFiles
<1>1. CInv => NoDeadFiles
  BY DEF CInv, HasHeir, Heir, NoDeadFiles
<1> QED
  BY <1>1, DoneInvariance, PTL

-----------------------------------------------------------------------------
(* A registered file exists.                                               *)

\* Files are lost by evictions only, and the entry is evicted once at most or no two
\* processes repair it.
OnceAtMost  == MaxClaims <= 1
OneRepairer ==
    \A p, q \in Processes : "fetch" \in Duties[p] /\ "fetch" \in Duties[q] => p = q
Gentle == ~Losable /\ (OnceAtMost \/ OneRepairer)

\* Steps at which a repair owns a fresh name, those that follow a missing entry, and
\* those after a registration.
Holding == {"linked", "stat", "repair", "yield"}
Repairs == Serving \ {"lookup"}
Ending  == {"enforce", "evict", "unlink", "retire"}

\* A name that has been drawn, of a request that is delivered.
Spent(f) == f.name <= names /\ row[f.req] = "successful"

\* Nobody evicts any more; and an entry that is there stays.
EvictionsOver == claims = MaxClaims /\ \A p \in Processes : pc[p] # "evict"
ForGood == EvictionsOver /\ entry # NoPath

Numbered ==
    /\ \A f \in files : f.name <= names
    /\ entry # NoPath => Spent(entry)
    /\ \A p \in Processes :
          /\ src[p] # NoPath => Spent(src[p])
          /\ victim[p] # NoPath => Spent(victim[p])
          /\ path[p] # NoPath => path[p].name <= names

\* A missing entry was evicted, and the eviction is over if there is one at most.
Counted ==
    /\ \A p \in Processes : pc[p] = "evict" => claims > 0
    /\ OnceAtMost => \A p, q \in Processes : pc[p] = "evict" /\ pc[q] = "evict" => p = q
    /\ OnceAtMost /\ entry = NoPath /\ (\E r \in Requests : row[r] = "successful")
          => EvictionsOver

\* A finaliser registers its request's own name, which exists while the request is
\* pending; a repair a name of its own, which exists or need not any more; and who
\* removes a file has seen its registration end.
Mine(p) ==
    /\ pc[p] = "idle" => src[p] = NoPath
    /\ pc[p] \in {"size", "register", "lost"} => path[p] = Original(req[p])
    /\ pc[p] = "discard" => row[req[p]] = "cancelled"
    /\ pc[p] = "register" /\ row[req[p]] = "pending" => path[p] \in files
    /\ pc[p] \in Serving => "fetch" \in Duties[p]
    /\ pc[p] \in Repairs /\ OnceAtMost => EvictionsOver
    /\ pc[p] \in Holding =>
          path[p] # NoPath /\ path[p].name > 0 /\ path[p] # entry /\ path[p] # src[p]
    /\ pc[p] = "repair" => path[p] \in files \/ (OnceAtMost /\ ForGood)
    /\ pc[p] = "supersede" => src[p] # NoPath /\ src[p] # entry
    /\ pc[p] = "unlink" => victim[p] # NoPath /\ victim[p] # entry
    /\ pc[p] \in Ending /\ src[p] # NoPath =>
          /\ src[p] # entry
          /\ "fetch" \in Duties[p]
          /\ OnceAtMost => ForGood

\* A name a repair owns is in nobody else's hands.
Apart(p, q) ==
    pc[p] \in Holding =>
        /\ q # p /\ pc[q] \in Holding => path[q] # path[p]
        /\ victim[q] # path[p]
        /\ pc[q] = "supersede" => src[q] # path[p]

FInv ==
    /\ EntryHasFile
    /\ Numbered
    /\ Counted
    /\ \A p \in Processes : Mine(p)
    /\ \A p, q \in Processes : Apart(p, q)

LEMMA Kinds ==
  ASSUME IInv
  PROVE  /\ row \in [Requests -> {"pending", "successful", "failed", "cancelled"}]
         /\ entry \in Paths \cup {NoPath}
         /\ files \subseteq Paths
         /\ names \in Nat /\ claims \in Nat /\ claims <= MaxClaims /\ MaxClaims \in Nat
         /\ pc \in [Processes -> Steps]
         /\ req \in [Processes -> Requests]
         /\ path \in [Processes -> Paths \cup {NoPath}]
         /\ src \in [Processes -> Paths \cup {NoPath}]
         /\ victim \in [Processes -> Paths \cup {NoPath}]
         /\ doomed \in [Processes -> Paths \cup {NoPath}]
         /\ \A f \in Paths : f.req \in Requests /\ f.name \in Nat
         /\ \A r \in Requests : Original(r) \in Paths /\ Original(r).req = r /\ Original(r).name = 0
         /\ NoPath \notin Paths
<1>1. \A f \in Paths : f.req \in Requests /\ f.name \in Nat
  BY FinaliseAssumption DEF Paths
<1>2. \A r \in Requests : Original(r) \in Paths /\ Original(r).req = r /\ Original(r).name = 0
  BY PathOf DEF Original
<1> QED
  BY <1>1, <1>2, NoPathIsNone, FinaliseAssumption DEF IInv, StoreOK, DiskOK, MInv, MemoryOK

Same(q) ==
    /\ pc'[q] = pc[q] /\ req'[q] = req[q] /\ path'[q] = path[q]
    /\ src'[q] = src[q] /\ victim'[q] = victim[q]

LEMMA Aside ==
  ASSUME IInv, NEW p \in Processes,
         Step(p) \/ StartEvict(p) \/ Crash(p) \/ (\E r \in Requests : Start(p, r)),
         NEW q \in Processes, q # p
  PROVE  Same(q)
<1> USE Kinds DEF Same
<1>0. Finish(p) => Same(q)
  BY DEF Finish, Goto
<1>00. Afterwards(p) => Same(q)
  BY <1>0 DEF Afterwards, Goto, local
<1>1. Check(p) \/ Find(p) \/ Download(p) \/ Publish(p) \/ Fail(p) \/ Size(p) => Same(q)
  BY <1>0 DEF Check, Find, Download, Publish, Fail, Size, local, Goto
<1>2. Register(p) \/ Supersede(p) \/ Lost(p) \/ Discard(p) => Same(q)
  BY <1>0 DEF Register, Supersede, Lost, Discard, Goto
<1>3. Enforce(p) \/ Evict(p) \/ Unlink(p) \/ StartEvict(p) \/ Crash(p) => Same(q)
  BY <1>00 DEF Enforce, Evict, Unlink, StartEvict, Crash, Target, local, Goto
<1>4. Fetch(p) \/ ReadTomb(p) \/ AdoptOriginal(p) \/ AdoptFresh(p) => Same(q)
  BY <1>0 DEF Fetch, ReadTomb, AdoptOriginal, AdoptFresh, local, Goto
<1>5. Link(p) \/ Linked(p) \/ Gone(p) \/ Refetch(p) => Same(q)
  BY <1>0 DEF Link, Linked, Gone, Refetch, PublishFresh, local, Goto
<1>6. Stat(p) \/ Repair(p) \/ YieldRepair(p) \/ Retire(p) => Same(q)
  BY <1>0 DEF Stat, Repair, YieldRepair, Retire, local, Goto
<1>7. ASSUME NEW r \in Requests, Start(p, r) PROVE Same(q)
  BY <1>7 DEF Start, RecordFailure, StartFinalise, Cancel, StartFetch, local, Goto
<1> QED
  BY <1>1, <1>2, <1>3, <1>4, <1>5, <1>6, <1>7 DEF Step

-----------------------------------------------------------------------------
\* What a process has to be careful about for the others' sake.
Clear(q, f) ==
    /\ pc[q] \in Holding => path[q] # f
    /\ pc[q] = "supersede" => src[q] # f
    /\ pc[q] = "unlink" => victim[q] # f
    /\ pc[q] \in Ending /\ src[q] # NoPath => src[q] # f
Tame(p) ==
    /\ names <= names'
    /\ \A f \in files \ files' :
          /\ f.name = 0 => row'[f.req] # "pending"
          /\ \A q \in Processes \ {p} :
                pc[q] = "repair" /\ path[q] = f => OnceAtMost /\ ForGood
    /\ OnceAtMost /\ EvictionsOver => EvictionsOver'
    /\ OnceAtMost /\ ForGood => ForGood'
    /\ entry' \in {entry, NoPath} \/ \A q \in Processes \ {p} : Clear(q, entry')
    /\ pc'[p] \in Holding =>
          \/ pc[p] \in Holding /\ path'[p] = path[p]
          \/ path'[p] # NoPath /\ path'[p].name > names
    /\ victim'[p] \in {victim[p], NoPath, entry}
    /\ pc'[p] = "supersede" => src'[p] = entry
Counts(p) ==
    /\ \A f \in files' \ files : f.name <= names'
    /\ entry' # NoPath => Spent(entry)'
    /\ src'[p] # NoPath => Spent(src[p])'
    /\ path'[p] # NoPath => path'[p].name <= names'

LEMMA OthersMine ==
  ASSUME IInv, IInv', FInv, Next, NEW p \in Processes, NEW q \in Processes, q # p, Same(q), Tame(p)
  PROVE  Mine(q)'
<1>1. Mine(q)
  BY DEF FInv
<1>2. /\ row[req[q]] # "pending" => row'[req[q]] = row[req[q]]
      /\ req[q] \in Requests /\ row'[req[q]] \in {"pending", "successful", "failed", "cancelled"}
  BY Permanent, Kinds DEF IInv, StoreOK
<1>3. /\ OnceAtMost /\ EvictionsOver => EvictionsOver'
      /\ OnceAtMost /\ ForGood => ForGood'
  BY DEF Tame
<1>4. /\ pc[q] = "register" /\ row'[req[q]] = "pending" => path[q] \in files'
      /\ pc[q] = "repair" => path[q] \in files' \/ (OnceAtMost /\ ForGood')
  <2>1. CASE pc[q] = "register" /\ row'[req[q]] = "pending"
    <3>1. /\ path[q] \in files /\ path[q] = Original(req[q])
          /\ path[q].name = 0 /\ path[q].req = req[q]
      BY <1>1, <1>2, <2>1, Kinds DEF Mine
    <3> QED
      BY <2>1, <3>1 DEF Tame
  <2>2. CASE pc[q] = "repair"
    BY <1>1, <1>3, <2>2 DEF Mine, Tame
  <2> QED
    BY <2>1, <2>2
<1>5. /\ pc[q] \in Holding => path[q] # entry'
      /\ pc[q] = "supersede" => src[q] # entry'
      /\ pc[q] = "unlink" => victim[q] # entry'
      /\ pc[q] \in Ending /\ src[q] # NoPath => src[q] # entry'
  <2>1. CASE entry' \in {entry, NoPath}
    BY <1>1, <2>1 DEF Mine
  <2>2. CASE Clear(q, entry')
    BY <2>2 DEF Clear
  <2> QED
    BY <2>1, <2>2 DEF Tame
<1> QED
  BY <1>1, <1>2, <1>3, <1>4, <1>5 DEF Mine, Same

LEMMA PairsKeep ==
  ASSUME IInv, FInv, NEW p \in Processes, NEW q \in Processes, q # p => Same(q), Tame(p)
  PROVE  Apart(p, q)' /\ Apart(q, p)'
<1>1. /\ Apart(p, q) /\ Apart(q, p) /\ Apart(p, p)
      /\ Mine(p) /\ Mine(q)
      /\ path[q] # NoPath => path[q].name <= names
      /\ src[q] # NoPath => src[q].name <= names
      /\ victim[q] # NoPath => victim[q].name <= names
      /\ victim[p] # NoPath => victim[p].name <= names
      /\ entry # NoPath => entry.name <= names
  BY DEF FInv, Numbered, Spent
<1>2. /\ pc'[p] \in Holding =>
            \/ pc[p] \in Holding /\ path'[p] = path[p]
            \/ path'[p] # NoPath /\ path'[p].name > names
      /\ victim'[p] \in {victim[p], NoPath, entry}
      /\ pc'[p] = "supersede" => src'[p] = entry
  BY DEF Tame
<1>0. names \in Nat /\ \A f \in Paths : f.name \in Nat
  BY Kinds
<1>00. path[q] \in Paths \cup {NoPath} /\ src[q] \in Paths \cup {NoPath}
  BY Kinds
<1>000. victim[q] \in Paths \cup {NoPath} /\ victim[p] \in Paths \cup {NoPath}
        /\ entry \in Paths \cup {NoPath}
  BY Kinds
<1>3. Apart(p, q)'
  <2> SUFFICES ASSUME pc'[p] \in Holding
               PROVE  /\ q # p /\ pc'[q] \in Holding => path'[q] # path'[p]
                      /\ victim'[q] # path'[p]
                      /\ pc'[q] = "supersede" => src'[q] # path'[p]
    BY DEF Apart
  <2>1. CASE pc[p] \in Holding /\ path'[p] = path[p]
    BY <1>1, <1>2, <2>1 DEF Apart, Mine, Same, Holding
  <2>2. CASE path'[p] # NoPath /\ path'[p].name > names
    BY <1>0, <1>00, <1>000, <1>1, <1>2, <2>2 DEF Same, Holding, Mine
  <2> QED
    BY <1>2, <2>1, <2>2
<1>4. Apart(q, p)'
  <2>1. CASE q = p
    BY <1>3, <2>1
  <2>2. CASE q # p
    <3> SUFFICES ASSUME pc[q] \in Holding
                 PROVE  /\ pc'[p] \in Holding => path'[p] # path[q]
                        /\ victim'[p] # path[q]
                        /\ pc'[p] = "supersede" => src'[p] # path[q]
      BY <2>2 DEF Apart, Same
    <3>1. pc'[p] \in Holding => path'[p] # path[q]
      BY <1>0, <1>00, <1>1, <1>2, <2>2 DEF Apart
    <3>2. path[q] # entry /\ path[q] # NoPath
      BY <1>1 DEF Mine
    <3> QED
      BY <1>1, <1>2, <3>1, <3>2 DEF Apart
  <2> QED
    BY <2>1, <2>2
<1> QED
  BY <1>3, <1>4

LEMMA SpentStays ==
  ASSUME IInv, IInv', [Next]_vars, names <= names', NEW f \in Paths, f.name <= names,
         row[f.req] = "successful"
  PROVE  f.name <= names' /\ row'[f.req] = "successful"
<1>1. f.name \in Nat /\ f.req \in Requests /\ names \in Nat
  BY Kinds
<1>2. names' \in Nat
  BY FinaliseAssumption DEF IInv, DiskOK
<1>3. row'[f.req] = row[f.req]
  BY <1>1, Permanent
<1> QED
  BY <1>1, <1>2, <1>3

LEMMA NumbersKeep ==
  ASSUME IInv, IInv', FInv, Next, NEW p \in Processes,
         \A q \in Processes \ {p} : Same(q), Tame(p), Counts(p)
  PROVE  Numbered'
<1>0. /\ names \in Nat /\ names' \in Nat /\ names <= names'
      /\ \A f \in Paths : f.name \in Nat /\ f.req \in Requests
      /\ \A q \in Processes :
            path[q] \in Paths \cup {NoPath} /\ src[q] \in Paths \cup {NoPath}
            /\ victim[q] \in Paths \cup {NoPath}
      /\ entry \in Paths \cup {NoPath} /\ files \subseteq Paths
  BY Kinds, FinaliseAssumption DEF Tame, IInv, DiskOK
<1>1. \A f \in Paths : Spent(f) => f.name <= names' /\ row'[f.req] = "successful"
  BY <1>0, SpentStays DEF Spent
<1>2. \A f \in files' : f.name <= names'
  <2> SUFFICES ASSUME NEW f \in files', f \in files PROVE f.name <= names'
    BY DEF Counts
  <2>1. f.name <= names /\ f.name \in Nat
    BY <1>0 DEF FInv, Numbered
  <2> QED
    BY <1>0, <2>1
<1>3. ASSUME NEW q \in Processes
      PROVE  /\ src'[q] # NoPath => Spent(src[q])'
             /\ victim'[q] # NoPath => Spent(victim[q])'
             /\ path'[q] # NoPath => path'[q].name <= names'
  <2>0. /\ src[q] # NoPath => src[q] \in Paths /\ Spent(src[q])
        /\ victim[q] # NoPath => victim[q] \in Paths /\ Spent(victim[q])
        /\ path[q] # NoPath => path[q].name \in Nat /\ path[q].name <= names
        /\ entry # NoPath => entry \in Paths /\ Spent(entry)
    BY <1>0 DEF FInv, Numbered
  <2>1. /\ src[q] # NoPath => src[q].name <= names' /\ row'[src[q].req] = "successful"
        /\ victim[q] # NoPath => victim[q].name <= names' /\ row'[victim[q].req] = "successful"
        /\ path[q] # NoPath => path[q].name <= names'
        /\ entry # NoPath => entry.name <= names' /\ row'[entry.req] = "successful"
    <3>1. path[q] # NoPath => path[q].name <= names'
      BY <1>0, <2>0
    <3> QED
      BY <1>1, <2>0, <3>1
  <2>2. CASE q = p
    BY <2>1, <2>2 DEF Counts, Tame, Spent
  <2>3. CASE q # p
    BY <2>1, <2>3 DEF Same, Spent
  <2> QED
    BY <2>2, <2>3
<1> QED
  BY <1>2, <1>3 DEF Numbered, Counts, Spent

\* What has to be shown of a step of p.
Careful(p) == Tame(p) /\ Counts(p) /\ Mine(p)' /\ Counted' /\ EntryHasFile'

LEMMA CarefulKeeps ==
  ASSUME IInv, IInv', FInv, Next, NEW p \in Processes,
         Step(p) \/ StartEvict(p) \/ Crash(p) \/ (\E r \in Requests : Start(p, r)),
         Careful(p)
  PROVE  FInv'
<1>1. \A q \in Processes \ {p} : Same(q)
  BY Aside
<1>2. Numbered'
  BY <1>1, NumbersKeep DEF Careful
<1>3. \A q \in Processes : Mine(q)'
  BY <1>1, OthersMine DEF Careful
<1>4. \A q \in Processes : Apart(p, q)' /\ Apart(q, p)'
  BY <1>1, PairsKeep DEF Careful
<1>5. \A q, s \in Processes : q # p /\ s # p => Apart(q, s)'
  BY <1>1 DEF FInv, Apart, Same
<1> QED
  BY <1>2, <1>3, <1>4, <1>5 DEF FInv, Careful

\* A step that neither touches the entry nor a file, nor begins or ends an eviction.
LEMMA QuietStep ==
  ASSUME IInv, IInv', FInv, Next, NEW p \in Processes,
         \A q \in Processes \ {p} : Same(q),
         UNCHANGED <<entry, files, names, claims>>,
         \A r \in Requests : row'[r] = "successful" => row[r] = "successful",
         pc'[p] \notin {"evict", "supersede"},
         pc'[p] \in Holding => pc[p] \in Holding /\ path'[p] = path[p],
         victim'[p] \in {victim[p], NoPath},
         src'[p] # NoPath => Spent(src'[p]),
         path'[p] # NoPath => path'[p].name <= names,
         Mine(p)'
  PROVE  Careful(p)
<1>0. /\ names \in Nat /\ names' \in Nat
      /\ src'[p] \in Paths \cup {NoPath}
      /\ entry \in Paths \cup {NoPath}
      /\ \A f \in Paths : f.req \in Requests
  BY Kinds DEF IInv, MInv, MemoryOK, DiskOK
<1>1. \A f \in Paths : Spent(f) => f.name <= names' /\ row'[f.req] = "successful"
  BY <1>0, SpentStays DEF Spent
<1>2. EvictionsOver => EvictionsOver'
  BY DEF EvictionsOver, Same
<1>3. Tame(p)
  <2>1. names <= names'
    BY <1>0
  <2>2. OnceAtMost /\ ForGood => ForGood'
    BY <1>2 DEF ForGood
  <2> QED
    BY <1>2, <2>1, <2>2 DEF Tame
<1>4. Counts(p)
  <2>1. entry # NoPath => Spent(entry)'
    BY <1>0, <1>1 DEF FInv, Numbered, Spent
  <2>2. src'[p] # NoPath => Spent(src[p])'
    BY <1>0, <1>1 DEF Spent
  <2> QED
    BY <2>1, <2>2 DEF Counts, Spent
<1>5. Counted'
  <2>1. \A q \in Processes : pc'[q] = "evict" => pc[q] = "evict"
    BY DEF Same
  <2> QED
    BY <1>2, <2>1 DEF FInv, Counted
<1>6. EntryHasFile'
  BY DEF EntryHasFile, FInv
<1> QED
  BY <1>3, <1>4, <1>5, <1>6 DEF Careful

\* The look-ups find a registered file.
LEMMA LookUpFinds ==
  ASSUME FInv, LookUp
  PROVE  /\ UNCHANGED entry
         /\ Served \/ entry = NoPath
  BY DEF FInv, EntryHasFile, LookUp, Served

\* The situation of a step.
Now == IInv /\ IInv' /\ CInv /\ FInv /\ Next

\* What p may do next leaves the eviction and the repairs in peace.
Walks(p) ==
    /\ UNCHANGED <<entry, files, names, claims>>
    /\ \A r \in Requests : row'[r] = "successful" => row[r] = "successful"
    /\ pc'[p] \notin {"evict", "supersede"}

LEMMA OverStays ==
  ASSUME NEW p \in Processes, \A q \in Processes \ {p} : Same(q), pc'[p] # "evict",
         UNCHANGED claims
  PROVE  EvictionsOver => EvictionsOver'
  BY DEF EvictionsOver, Same

\* An operation that ends.
LEMMA EndsQuietly ==
  ASSUME Now, NEW p \in Processes, \A q \in Processes \ {p} : Same(q), Walks(p), Finish(p)
  PROVE  Careful(p)
<1>1. /\ pc'[p] = "idle" /\ path'[p] = NoPath /\ src'[p] = NoPath /\ victim'[p] = NoPath
  BY Kinds DEF Now, Finish, Goto
<1>2. Mine(p)'
  BY <1>1 DEF Mine, Serving, Repairs, Holding, Ending
<1> QED
  BY <1>1, <1>2, QuietStep DEF Now, Walks, Holding

\* An operation that goes on and holds what it held.
LEMMA MovesQuietly ==
  ASSUME Now, NEW p \in Processes, \A q \in Processes \ {p} : Same(q), Walks(p),
         UNCHANGED <<path, src, victim>>, pc'[p] \in Holding => pc[p] \in Holding, Mine(p)'
  PROVE  Careful(p)
<1>1. /\ src[p] # NoPath => Spent(src[p])
      /\ path[p] # NoPath => path[p].name <= names
  BY DEF Now, FInv, Numbered
<1> QED
  BY <1>1, QuietStep DEF Now, Walks

\* The finaliser's steps to its registration, and its failure.
LEMMA FinaliserCareful ==
  ASSUME Now, NEW p \in Processes,
         Check(p) \/ Find(p) \/ Download(p) \/ Size(p) \/ Fail(p) \/ (Register(p) /\ ~Settles(req[p]))
  PROVE  Careful(p)
<1> USE DEF Now
<1>s. \A q \in Processes \ {p} : Same(q)
  BY Aside DEF Step
<1>k. /\ pc \in [Processes -> Steps] /\ req \in [Processes -> Requests]
      /\ path \in [Processes -> Paths \cup {NoPath}]
      /\ row \in [Requests -> {"pending", "successful", "failed", "cancelled"}]
  BY Kinds
<1>m. Mine(p)
  BY DEF FInv
<1>1. CASE Finish(p)
  <2>1. Walks(p)
    BY <1>1, <1>k DEF Walks, Check, Find, Download, Size, Fail, Register, SettleRow, Finish, Goto, store, disk
  <2> QED
    BY <1>1, <1>s, <2>1, EndsQuietly
<1>2. CASE ~Finish(p) /\ (Check(p) \/ Download(p) \/ Size(p) \/ (Register(p) /\ ~Settles(req[p])))
  <2>1. /\ Walks(p) /\ UNCHANGED <<req, row, path, src, victim>>
        /\ \/ pc'[p] \in {"find", "publish", "fail"}
           \/ pc[p] = "size" /\ pc'[p] = "register" /\ path[p] \in files'
           \/ pc[p] = "register" /\ pc'[p] = "lost"
    <3>1. CASE Check(p) \/ Download(p)
      BY <1>2, <1>k, <3>1 DEF Walks, Check, Download, Goto, store, disk, local
    <3>2. CASE Size(p)
      BY <1>2, <1>k, <3>2 DEF Walks, Size, Goto, store, disk, local
    <3>3. CASE Register(p) /\ ~Settles(req[p])
      BY <1>k, <3>3 DEF Walks, Register, Goto, store, disk
    <3> QED
      BY <1>2, <3>1, <3>2, <3>3
  <2>2. Mine(p)' /\ pc'[p] \notin Holding
    BY <1>m, <2>1 DEF Mine, Serving, Repairs, Holding, Ending
  <2> QED
    BY <1>s, <2>1, <2>2, MovesQuietly
<1>3. CASE Find(p)
  <2>1. /\ Walks(p) /\ UNCHANGED <<req, row, src, victim>>
        /\ \/ pc'[p] = "size" /\ path'[p] = Original(req[p])
           \/ pc'[p] = "download" /\ path'[p] = path[p]
    BY <1>3, <1>k DEF Walks, Find, Goto, store, disk
  <2>2. Mine(p)' /\ pc'[p] \notin Holding
    BY <1>m, <2>1 DEF Mine, Serving, Repairs, Holding, Ending
  <2>3. /\ src[p] # NoPath => Spent(src[p])
        /\ path'[p] # NoPath => path'[p].name <= names
    BY <1>k, <2>1, Kinds DEF FInv, Numbered
  <2> QED
    BY <1>s, <2>1, <2>2, <2>3, QuietStep DEF Walks
<1> QED
  BY <1>1, <1>2, <1>3 DEF Fail

\* An eviction that comes to nothing, and the end of the size limit's enforcement.
LEMMA AfterwardsCareful ==
  ASSUME Now, NEW p \in Processes, \A q \in Processes \ {p} : Same(q), Walks(p),
         UNCHANGED row, pc[p] \in {"enforce", "evict"}, Afterwards(p)
  PROVE  Careful(p)
<1> USE DEF Now
<1>m. Mine(p)
  BY DEF FInv
<1>k. pc \in [Processes -> Steps]
  BY Kinds
<1>1. CASE Finish(p)
  BY <1>1, EndsQuietly
<1>2. CASE src[p] # NoPath /\ Goto(p, "retire") /\ UNCHANGED local
  <2>1. pc'[p] = "retire" /\ UNCHANGED <<req, path, src, victim>>
    BY <1>2, <1>k DEF Goto, local
  <2>2. ForGood => ForGood'
    BY <2>1, OverStays DEF ForGood, Walks
  <2>3. Mine(p)'
    BY <1>m, <2>1, <2>2 DEF Walks, Mine, Serving, Repairs, Holding, Ending
  <2> QED
    BY <2>1, <2>3, MovesQuietly DEF Holding
<1> QED
  BY <1>1, <1>2 DEF Afterwards

LEMMA EvictionIdle ==
  ASSUME Now, NEW p \in Processes,
         (Enforce(p) /\ Afterwards(p) /\ UNCHANGED claims) \/ (Evict(p) /\ ~Claims(p))
  PROVE  Careful(p)
<1> USE DEF Now
<1>s. \A q \in Processes \ {p} : Same(q)
  BY Aside DEF Step
<1>1. pc'[p] \in {"idle", "retire"}
  BY Kinds DEF Enforce, Evict, Afterwards, Finish, Goto
<1>2. Walks(p) /\ UNCHANGED row /\ Afterwards(p) /\ pc[p] \in {"enforce", "evict"}
  BY <1>1 DEF Walks, Enforce, Evict, EvictIfMatches, Claims, store, disk
<1> QED
  BY <1>s, <1>2, AfterwardsCareful

\* The beginnings of operations, and a failure that is recorded.
LEMMA StartCareful ==
  ASSUME Now, NEW p \in Processes, NEW r \in Requests, Start(p, r)
  PROVE  Careful(p)
<1> USE DEF Now
<1>s. \A q \in Processes \ {p} : Same(q)
  BY Aside
<1>m. Mine(p)
  BY DEF FInv
<1>k. /\ pc \in [Processes -> Steps] /\ req \in [Processes -> Requests]
      /\ row \in [Requests -> {"pending", "successful", "failed", "cancelled"}]
  BY Kinds
<1>1. CASE RecordFailure(p, r)
  <2>1. /\ Walks(p) /\ pc[p] = "idle" /\ pc'[p] = "idle"
        /\ UNCHANGED <<path, src, victim>>
    BY <1>1, <1>k DEF Walks, RecordFailure, SettleRow, disk, local
  <2>2. Mine(p)'
    BY <1>m, <2>1 DEF Mine, Serving, Repairs, Holding, Ending
  <2> QED
    BY <1>s, <2>1, <2>2, MovesQuietly DEF Holding
<1>2. CASE Cancel(p, r)
  <2>1. /\ Walks(p) /\ pc[p] = "idle" /\ UNCHANGED <<path, src, victim>>
        /\ \/ pc'[p] = "idle"
           \/ pc'[p] = "discard" /\ row'[req'[p]] = "cancelled"
    BY <1>2, <1>k DEF Walks, Cancel, SettleRow, Goto, disk
  <2>2. Mine(p)'
    BY <1>m, <2>1 DEF Mine, Serving, Repairs, Holding, Ending
  <2> QED
    BY <1>s, <2>1, <2>2, MovesQuietly DEF Holding
<1>3. CASE StartFinalise(p, r) \/ StartFetch(p, r)
  <2>1. /\ Walks(p) /\ pc[p] = "idle" /\ UNCHANGED <<path, src, victim>>
        /\ \/ pc'[p] = "check"
           \/ pc'[p] = "lookup" /\ "fetch" \in Duties[p]
    BY <1>3, <1>k DEF Walks, StartFinalise, StartFetch, Goto, store, disk
  <2>2. Mine(p)'
    BY <1>m, <2>1 DEF Mine, Serving, Repairs, Holding, Ending
  <2> QED
    BY <1>s, <2>1, <2>2, MovesQuietly DEF Holding
<1> QED
  BY <1>1, <1>2, <1>3 DEF Start

LEMMA CrashCareful ==
  ASSUME Now, NEW p \in Processes, Crash(p)
  PROVE  Careful(p)
<1> USE DEF Now
<1>s. \A q \in Processes \ {p} : Same(q)
  BY Aside
<1>1. pc'[p] = "dead" /\ Walks(p) /\ UNCHANGED <<path, src, victim>>
  BY Kinds DEF Crash, Walks, Goto, store, disk, local
<1>2. Mine(p)'
  BY <1>1 DEF Mine, Serving, Repairs, Holding, Ending
<1> QED
  BY <1>s, <1>1, <1>2, MovesQuietly DEF Holding

\* A repair on its way: it needs to know of nothing but the names it holds.
LEMMA RepairMoves ==
  ASSUME Now, NEW p \in Processes, \A q \in Processes \ {p} : Same(q), Walks(p), UNCHANGED row,
         UNCHANGED <<req, path, victim>>,
         pc[p] \in Serving, pc[p] = "lookup" => entry = NoPath,
         pc'[p] \in Repairs, pc'[p] \in Holding => pc[p] \in Holding /\ src'[p] = src[p],
         pc'[p] = "repair" => path[p] \in files,
         src'[p] # NoPath => Spent(src'[p])
  PROVE  Careful(p)
<1> USE DEF Now
<1>m. Mine(p)
  BY DEF FInv
<1>1. row[req[p]] = "successful" /\ req[p] \in Requests
  BY Kinds DEF CInv, WorksOnDone
<1>2. OnceAtMost => EvictionsOver
  <2>1. CASE pc[p] = "lookup"
    BY <1>1, <2>1 DEF FInv, Counted
  <2>2. CASE pc[p] # "lookup"
    BY <1>m, <2>2 DEF Mine, Repairs
  <2> QED
    BY <2>1, <2>2
<1>3. OnceAtMost => EvictionsOver'
  BY <1>2, OverStays DEF Walks
<1>4. pc'[p] \in Holding =>
         path'[p] # NoPath /\ path'[p].name > 0 /\ path'[p] # entry' /\ path'[p] # src'[p]
  BY <1>m DEF Mine, Walks
<1>5. pc'[p] \in Serving /\ "fetch" \in Duties[p] /\ pc'[p] \notin {"idle", "size", "register",
         "lost", "discard", "supersede", "unlink", "enforce", "evict", "retire"}
  BY <1>m DEF Mine, Repairs, Serving
<1>6. pc'[p] = "repair" => path'[p] \in files'
  BY DEF Walks
<1>7. Mine(p)'
  BY <1>3, <1>4, <1>5, <1>6 DEF Mine, Ending
<1>8. path'[p] # NoPath => path'[p].name <= names
  BY DEF FInv, Numbered
<1> QED
  BY <1>7, <1>8, QuietStep DEF Walks

LEMMA RepairIdle ==
  ASSUME Now, NEW p \in Processes,
         \/ Fetch(p) \/ ReadTomb(p) \/ AdoptOriginal(p) \/ AdoptFresh(p)
         \/ Linked(p) \/ Gone(p) \/ Stat(p)
         \/ (Link(p) \/ Refetch(p)) /\ UNCHANGED names
         \/ Repair(p) /\ ~MayRepair(p)
  PROVE  Careful(p)
<1> USE DEF Now
<1>s. \A q \in Processes \ {p} : Same(q)
  BY Aside DEF Step
<1>k. /\ pc \in [Processes -> Steps] /\ req \in [Processes -> Requests] /\ names \in Nat
      /\ src \in [Processes -> Paths \cup {NoPath}] /\ files \subseteq Paths
      /\ entry \in Paths \cup {NoPath}
  BY Kinds
<1>m. Mine(p) /\ (src[p] # NoPath => Spent(src[p]))
  BY DEF FInv, Numbered
<1>f. ~((Link(p) \/ Refetch(p)) /\ UNCHANGED names /\ names' = names + 1)
  BY <1>k
<1>p. pc[p] \in Serving
  BY DEF Fetch, ReadTomb, AdoptOriginal, AdoptFresh, Linked, Gone, Stat, Link, Refetch, Repair,
     Serving
<1>1. CASE Finish(p)
  <2>1. Walks(p)
    <3>1. CASE Fetch(p) \/ Gone(p)
      BY <1>1, <1>k, <3>1, LookUpFinds DEF Walks, Fetch, Gone, Finish, Goto, disk
    <3>2. CASE ReadTomb(p) \/ AdoptOriginal(p) \/ AdoptFresh(p) \/ Linked(p) \/ Stat(p)
      BY <1>1, <1>k, <3>2 DEF Walks, ReadTomb, AdoptOriginal, AdoptFresh, Linked, Stat,
         Finish, Goto, store, disk
    <3>3. CASE (Link(p) \/ Refetch(p)) /\ UNCHANGED names
      BY <1>1, <1>k, <1>f, <3>3 DEF Walks, Link, Refetch, PublishFresh, Finish, Goto, store
    <3>4. CASE Repair(p) /\ ~MayRepair(p)
      BY <1>1, <1>k, <3>4 DEF Walks, Repair, Finish, Goto, disk
    <3> QED
      BY <3>1, <3>2, <3>3, <3>4
  <2> QED
    BY <1>1, <1>s, <2>1, EndsQuietly
<1>2. CASE ~Finish(p) /\ (Fetch(p) \/ Gone(p))
  <2>1. LookUp /\ UNCHANGED row /\ UNCHANGED <<files, names, claims>>
    BY <1>2 DEF Fetch, Gone, disk
  <2>2. UNCHANGED entry /\ entry = NoPath
    BY <1>2, <2>1, LookUpFinds DEF Fetch, Gone
  <2>3. /\ UNCHANGED <<req, path, victim>> /\ src'[p] \in {src[p], NoPath}
        /\ pc'[p] \in {"tomb", "refetch"}
    BY <1>2, <1>k DEF Fetch, Gone, local, Goto
  <2>4. Walks(p) /\ pc'[p] \in Repairs \ Holding /\ pc'[p] # "repair"
    BY <2>1, <2>2, <2>3 DEF Walks, Repairs, Serving, Holding
  <2> QED
    BY <1>m, <1>p, <1>s, <2>1, <2>2, <2>3, <2>4, RepairMoves
<1>3. CASE ~Finish(p) /\ (ReadTomb(p) \/ AdoptOriginal(p) \/ AdoptFresh(p))
  <2>1. row[req[p]] = "successful"
    BY <1>p DEF CInv, WorksOnDone
  <2>2. \A f \in Paths : f.req = req[p] /\ f.name <= names => Spent(f)
    BY <2>1 DEF Spent
  <2>3. Spent(Original(req[p])) /\ \A f \in Named(req[p]) : Spent(f)
    <3>1. \A f \in Named(req[p]) : f \in Paths /\ f.req = req[p] /\ f.name <= names
      BY <1>k DEF Named, FInv, Numbered
    <3>2. Original(req[p]) \in Paths /\ Original(req[p]).req = req[p] /\ Original(req[p]).name <= names
      BY <1>k, Kinds
    <3> QED
      BY <2>2, <3>1, <3>2
  <2>4. /\ UNCHANGED <<req, path, victim, row>>
        /\ pc[p] # "lookup" /\ pc'[p] \in {"adopt", "link", "adopt_fresh", "refetch"}
        /\ Walks(p)
        /\ src'[p] # NoPath => Spent(src'[p])
    <3>1. CASE ReadTomb(p)
      BY <1>2, <1>3, <1>k, <1>m, <3>1 DEF ReadTomb, Walks, Goto, store, disk
    <3>2. CASE AdoptOriginal(p)
      BY <1>k, <1>m, <2>3, <3>2 DEF AdoptOriginal, Walks, Goto, store, disk
    <3>3. CASE AdoptFresh(p)
      BY <1>k, <1>m, <2>3, <3>3 DEF AdoptFresh, Walks, Goto, store, disk
    <3> QED
      BY <1>3, <3>1, <3>2, <3>3
  <2>5. pc'[p] \in Repairs /\ pc'[p] \notin Holding /\ pc'[p] # "repair"
    BY <2>4 DEF Repairs, Serving, Holding
  <2> QED
    BY <1>p, <1>s, <2>4, <2>5, RepairMoves
<1>4. CASE ~Finish(p) /\ (Linked(p) \/ Stat(p) \/ (Repair(p) /\ ~MayRepair(p)))
  <2>1. /\ UNCHANGED <<req, path, victim, row, src>> /\ Walks(p)
        /\ pc[p] \in {"linked", "stat", "repair"} /\ pc'[p] \in {"stat", "gone", "repair", "yield"}
        /\ pc'[p] = "repair" => path[p] \in files
    BY <1>4, <1>k DEF Linked, Stat, Repair, Walks, Goto, store, disk, local
  <2>2. pc'[p] \in Repairs /\ pc[p] \in Holding /\ pc[p] # "lookup"
    BY <2>1 DEF Repairs, Serving, Holding
  <2> QED
    BY <1>m, <1>p, <1>s, <2>1, <2>2, RepairMoves
<1>5. CASE ~Finish(p) /\ (Link(p) \/ Refetch(p)) /\ UNCHANGED names
  <2>1. /\ UNCHANGED <<req, path, victim, row, src>> /\ Walks(p)
        /\ pc[p] # "lookup" /\ pc'[p] = "gone"
    BY <1>5, <1>f, <1>k DEF Link, Refetch, PublishFresh, Walks, Goto, store
  <2>2. pc'[p] \in Repairs /\ pc'[p] \notin Holding /\ pc'[p] # "repair"
    BY <2>1 DEF Repairs, Serving, Holding
  <2> QED
    BY <1>m, <1>p, <1>s, <2>1, <2>2, RepairMoves
<1> QED
  BY <1>1, <1>2, <1>3, <1>4, <1>5

\* Files that are removed are not registered, of no pending request, and in nobody's
\* hands; or the entry that is there stays.
Removable(p, f) ==
    /\ f # entry
    /\ f.name = 0 => row[f.req] # "pending"
    /\ \A q \in Processes \ {p} : pc[q] = "repair" /\ path[q] = f => OnceAtMost /\ ForGood

LEMMA RemovesCarefully ==
  ASSUME Now, NEW p \in Processes, \A q \in Processes \ {p} : Same(q),
         UNCHANGED <<row, entry, names, claims>>,
         files' \subseteq files, \A f \in files \ files' : Removable(p, f),
         pc'[p] \notin Holding, pc'[p] \notin {"evict", "supersede"},
         victim'[p] \in {victim[p], NoPath},
         src'[p] \in {src[p], NoPath}, path'[p] \in {path[p], NoPath}, Mine(p)'
  PROVE  Careful(p)
<1> USE DEF Now
<1>k. names \in Nat /\ entry \in Paths \cup {NoPath} /\ files \subseteq Paths
  BY Kinds
<1>1. EvictionsOver => EvictionsOver'
  BY OverStays
<1>2. Tame(p)
  <2>1. names <= names'
    BY <1>k
  <2>2. ForGood => ForGood'
    BY <1>1 DEF ForGood
  <2> QED
    BY <1>1, <2>1, <2>2 DEF Tame, Removable
<1>3. Counts(p)
  BY DEF Counts, FInv, Numbered, Spent
<1>4. Counted'
  <2>1. \A q \in Processes : pc'[q] = "evict" => pc[q] = "evict"
    BY DEF Same
  <2> QED
    BY <1>1, <2>1 DEF FInv, Counted
<1>5. EntryHasFile'
  BY <1>k DEF FInv, EntryHasFile, Removable
<1> QED
  BY <1>2, <1>3, <1>4, <1>5 DEF Careful

\* Who no longer repairs or registers after the removal.
LEMMA RemovedMine ==
  ASSUME Now, NEW p \in Processes, \A q \in Processes \ {p} : Same(q), UNCHANGED <<entry, claims>>,
         \/ Finish(p)
         \/ /\ pc[p] = "unlink" /\ pc'[p] = "retire" /\ src'[p] = src[p]
         \/ /\ pc[p] = "supersede" /\ pc'[p] = "enforce" /\ src'[p] = NoPath
  PROVE  Mine(p)'
<1> USE DEF Now
<1>m. Mine(p)
  BY DEF FInv
<1>1. CASE Finish(p)
  <2>1. pc'[p] = "idle" /\ src'[p] = NoPath
    BY <1>1, Kinds DEF Finish, Goto
  <2> QED
    BY <2>1 DEF Mine, Serving, Repairs, Holding, Ending
<1>2. CASE pc[p] = "unlink" /\ pc'[p] = "retire" /\ src'[p] = src[p]
  <2>1. ForGood => ForGood'
    BY <1>2, OverStays DEF ForGood
  <2> QED
    BY <1>m, <1>2, <2>1 DEF Mine, Serving, Repairs, Holding, Ending
<1>3. CASE pc[p] = "supersede" /\ pc'[p] = "enforce" /\ src'[p] = NoPath
  BY <1>3 DEF Mine, Serving, Repairs, Holding, Ending
<1> QED
  BY <1>1, <1>2, <1>3

LEMMA RemovalCareful ==
  ASSUME Now, Gentle, NEW p \in Processes,
         \/ Supersede(p) \/ Lost(p) \/ Discard(p) \/ Unlink(p) \/ YieldRepair(p) \/ Retire(p)
  PROVE  Careful(p)
<1> USE DEF Now
<1>s. \A q \in Processes \ {p} : Same(q)
  BY Aside DEF Step
<1>k. /\ pc \in [Processes -> Steps] /\ req \in [Processes -> Requests]
      /\ src \in [Processes -> Paths \cup {NoPath}]
      /\ path \in [Processes -> Paths \cup {NoPath}]
      /\ victim \in [Processes -> Paths \cup {NoPath}]
      /\ files \subseteq Paths
  BY Kinds
<1>m. /\ Mine(p) /\ EntryHasFile
      /\ src[p] # NoPath => Spent(src[p])
      /\ victim[p] # NoPath => Spent(victim[p])
      /\ entry # NoPath => Spent(entry)
  BY DEF FInv, Numbered
<1>a. \A q \in Processes : Mine(q) /\ Apart(q, p)
  BY DEF FInv
<1>n. NoPath \notin Paths
  BY Kinds
<1>1. CASE Supersede(p)
  <2>1. /\ pc[p] = "supersede" /\ pc'[p] = "enforce" /\ src'[p] = NoPath
        /\ UNCHANGED <<row, entry, names, claims, path, victim>> /\ files' = files \ {src[p]}
    BY <1>1, <1>k DEF Supersede, Goto, store
  <2>2. Removable(p, src[p])
    BY <1>a, <1>m, <2>1 DEF Removable, Mine, Spent, Apart, Holding
  <2>3. Mine(p)'
    BY <1>s, <2>1, RemovedMine
  <2> QED
    BY <1>s, <2>1, <2>2, <2>3, RemovesCarefully DEF Holding
<1>2. CASE Lost(p)
  <2>1. /\ pc[p] = "lost" /\ Finish(p) /\ UNCHANGED <<row, entry, names, claims>>
        /\ \/ files' = files
           \/ files' = files \ {path[p]} /\ DeadFile(p)
    BY <1>2 DEF Lost, store
  <2>2. ASSUME DeadFile(p) PROVE Removable(p, path[p])
    <3>1. path[p] = Original(req[p]) /\ row[req[p]] = "cancelled" /\ path[p] # entry
      BY <1>m, <2>1, <2>2 DEF Mine, DeadFile
    <3>2. path[p].name = 0 /\ path[p].req = req[p]
      BY <1>k, <3>1, Kinds
    <3>3. \A q \in Processes : pc[q] = "repair" => path[q].name > 0
      BY <1>a DEF Mine, Holding
    <3> QED
      BY <3>1, <3>2, <3>3 DEF Removable
  <2>3. Mine(p)'
    BY <1>s, <2>1, RemovedMine
  <2>4. /\ pc'[p] = "idle" /\ src'[p] = NoPath /\ path'[p] = NoPath /\ victim'[p] = NoPath
    BY <1>k, <2>1 DEF Finish, Goto
  <2> QED
    BY <1>s, <2>1, <2>2, <2>3, <2>4, RemovesCarefully DEF Holding
<1>3. CASE Discard(p)
  <2>1. /\ pc[p] = "discard" /\ Finish(p) /\ UNCHANGED <<row, entry, names, claims>>
        /\ files' = {f \in files : f.req # req[p]}
    BY <1>3 DEF Discard, store
  <2>2. ASSUME NEW f \in files \ files' PROVE Removable(p, f)
    <3>1. f.req = req[p] /\ row[req[p]] = "cancelled"
      BY <1>m, <2>1, <2>2 DEF Mine
    <3>2. \A q \in Processes : pc[q] = "repair" => path[q].req = req[q] /\ row[req[q]] = "successful"
      BY DEF CInv, WorksOnDone, Serving, IInv, MInv, HoldsOwn, Owning
    <3> QED
      BY <1>k, <1>n, <1>m, <3>1, <3>2 DEF Removable, Spent
  <2>3. Mine(p)'
    BY <1>s, <2>1, RemovedMine
  <2>4. /\ pc'[p] = "idle" /\ src'[p] = NoPath /\ path'[p] = NoPath /\ victim'[p] = NoPath
    BY <1>k, <2>1 DEF Finish, Goto
  <2> QED
    BY <1>s, <2>1, <2>2, <2>3, <2>4, RemovesCarefully DEF Holding
<1>4. CASE Unlink(p)
  <2>1. /\ pc[p] = "unlink" /\ UNCHANGED <<row, entry, names, claims>>
        /\ files' = files \ {victim[p]}
        /\ \/ Finish(p)
           \/ pc'[p] = "retire" /\ UNCHANGED <<path, src, victim>>
    BY <1>4, <1>k DEF Unlink, Afterwards, Goto, store, local
  <2>2. Removable(p, victim[p])
    BY <1>a, <1>m, <2>1 DEF Removable, Mine, Spent, Apart, Holding
  <2>3. Mine(p)'
    BY <1>s, <2>1, RemovedMine
  <2>4. \/ pc'[p] = "idle" /\ src'[p] = NoPath /\ path'[p] = NoPath /\ victim'[p] = NoPath
        \/ pc'[p] = "retire" /\ UNCHANGED <<path, src, victim>>
    BY <1>k, <2>1 DEF Finish, Goto
  <2> QED
    BY <1>s, <2>1, <2>2, <2>3, <2>4, RemovesCarefully DEF Holding
<1>5. CASE YieldRepair(p)
  <2>1. /\ pc[p] = "yield" /\ Finish(p) /\ UNCHANGED <<row, entry, names, claims>>
        /\ files' \in {files, files \ {path[p]}}
    BY <1>5, LookUpFinds DEF YieldRepair
  <2>2. Removable(p, path[p])
    <3>1. path[p] # entry /\ path[p] \in Paths /\ path[p].name > 0
      BY <1>k, <1>m, <2>1 DEF Mine, Holding
    <3>2. \A q \in Processes \ {p} : pc[q] = "repair" => path[q] # path[p]
      BY <1>a, <2>1 DEF Apart, Holding
    <3> QED
      BY <3>1, <3>2 DEF Removable
  <2>3. Mine(p)'
    BY <1>s, <2>1, RemovedMine
  <2>4. /\ pc'[p] = "idle" /\ src'[p] = NoPath /\ path'[p] = NoPath /\ victim'[p] = NoPath
    BY <1>k, <2>1 DEF Finish, Goto
  <2> QED
    BY <1>s, <2>1, <2>2, <2>3, <2>4, RemovesCarefully DEF Holding
<1>6. CASE Retire(p)
  <2>1. /\ pc[p] = "retire" /\ Finish(p) /\ UNCHANGED <<row, entry, names, claims>>
        /\ files' = files \ {src[p]}
    BY <1>6 DEF Retire, store
  <2>2. ASSUME src[p] # NoPath PROVE Removable(p, src[p])
    <3>1. /\ src[p] # entry /\ row[src[p].req] = "successful"
          /\ "fetch" \in Duties[p] /\ (OnceAtMost => ForGood)
      BY <1>m, <2>1, <2>2 DEF Mine, Ending, Spent
    <3>2. \A q \in Processes : pc[q] = "repair" => "fetch" \in Duties[q]
      BY <1>a DEF Mine, Serving
    <3> QED
      BY <3>1, <3>2 DEF Removable, Gentle, OneRepairer
  <2>3. Mine(p)'
    BY <1>s, <2>1, RemovedMine
  <2>4. /\ pc'[p] = "idle" /\ src'[p] = NoPath /\ path'[p] = NoPath /\ victim'[p] = NoPath
    BY <1>k, <2>1 DEF Finish, Goto
  <2> QED
    BY <1>k, <1>n, <1>s, <2>1, <2>2, <2>3, <2>4, RemovesCarefully DEF Holding
<1> QED
  BY <1>1, <1>2, <1>3, <1>4, <1>5, <1>6

\* A file appears, under the request's own name or a fresh one.
LEMMA AppearsCareful ==
  ASSUME Now, NEW p \in Processes, \A q \in Processes \ {p} : Same(q),
         UNCHANGED <<row, entry, claims, src, victim>>,
         names <= names', files \subseteq files',
         \A f \in files' \ files : f.name <= names',
         path'[p] # NoPath => path'[p].name <= names',
         pc'[p] \in Holding => path'[p] # NoPath /\ path'[p].name > names,
         pc'[p] \notin {"evict", "supersede"}, Mine(p)'
  PROVE  Careful(p)
<1> USE DEF Now
<1>1. EvictionsOver => EvictionsOver'
  BY OverStays
<1>2. Tame(p)
  BY <1>1 DEF Tame, ForGood
<1>3. /\ entry # NoPath => entry.name <= names' /\ row'[entry.req] = "successful"
      /\ src[p] # NoPath => src[p].name <= names' /\ row'[src[p].req] = "successful"
  BY Kinds, SpentStays DEF FInv, Numbered, Spent
<1>4. Counts(p)
  BY <1>3 DEF Counts, Spent
<1>5. Counted'
  <2>1. \A q \in Processes : pc'[q] = "evict" => pc[q] = "evict"
    BY DEF Same
  <2> QED
    BY <1>1, <2>1 DEF FInv, Counted
<1>6. EntryHasFile'
  BY DEF FInv, EntryHasFile
<1> QED
  BY <1>2, <1>4, <1>5, <1>6 DEF Careful

LEMMA PublishCareful ==
  ASSUME Now, NEW p \in Processes, Publish(p)
  PROVE  Careful(p)
<1> USE DEF Now
<1>s. \A q \in Processes \ {p} : Same(q)
  BY Aside DEF Step
<1>k. /\ pc \in [Processes -> Steps] /\ req \in [Processes -> Requests] /\ names \in Nat
      /\ path \in [Processes -> Paths \cup {NoPath}]
      /\ Original(req[p]).name = 0
  BY Kinds
<1>1. /\ UNCHANGED <<row, entry, names, claims, req, src, victim>>
      /\ \/ /\ pc'[p] = "size" /\ path'[p] = Original(req[p])
            /\ files' = files \cup {Original(req[p])}
         \/ pc'[p] = "fail" /\ UNCHANGED <<files, path>>
  BY <1>k DEF Publish, Goto, store
<1>2. Mine(p)' /\ pc'[p] \notin Holding
  BY <1>1 DEF Mine, Serving, Repairs, Holding, Ending
<1>3. path[p] # NoPath => path[p].name <= names
  BY DEF FInv, Numbered
<1> QED
  BY <1>k, <1>s, <1>1, <1>2, <1>3, AppearsCareful

LEMMA FreshCareful ==
  ASSUME Now, NEW p \in Processes, Link(p) \/ Refetch(p), names' # names
  PROVE  Careful(p)
<1> USE DEF Now
<1>s. \A q \in Processes \ {p} : Same(q)
  BY Aside DEF Step
<1>k. /\ pc \in [Processes -> Steps] /\ req \in [Processes -> Requests] /\ names \in Nat
      /\ path \in [Processes -> Paths \cup {NoPath}]
      /\ src \in [Processes -> Paths \cup {NoPath}]
      /\ entry \in Paths \cup {NoPath}
  BY Kinds
<1>m. /\ Mine(p)
      /\ entry # NoPath => entry.name <= names
      /\ src[p] # NoPath => src[p].name <= names
  BY DEF FInv, Numbered, Spent
<1> DEFINE new == NewName(req[p])
<1>1. /\ UNCHANGED <<row, entry, claims, req, src, victim>>
      /\ names < MaxNames /\ names' = names + 1
      /\ files' = files \cup {new} /\ path'[p] = new
      /\ pc[p] \in Serving \ {"lookup"} /\ pc'[p] \in {"linked", "stat"}
  BY <1>k DEF Link, Refetch, PublishFresh, Goto, store, Serving
<1>2. new \in Paths /\ new # NoPath /\ new.name = names + 1
  BY <1>k, <1>1, FreshPath, NoPathIsNone DEF NewName, IInv, DiskOK
<1>3. new # entry /\ new # src[p] /\ new.name > names /\ new.name > 0
  BY <1>k, <1>m, <1>2, Kinds
<1>4. OnceAtMost => EvictionsOver'
  BY <1>m, <1>s, <1>1, OverStays DEF Mine, Repairs
<1>5. Mine(p)'
  BY <1>m, <1>1, <1>2, <1>3, <1>4 DEF Mine, Serving, Repairs, Holding, Ending
<1>6. names <= names' /\ new.name <= names'
  BY <1>k, <1>1, <1>2
<1> HIDE DEF new
<1> QED
  BY <1>s, <1>1, <1>2, <1>3, <1>5, <1>6, AppearsCareful

-----------------------------------------------------------------------------
\* The steps that change the entry or begin an eviction.
LEMMA TargetCareful ==
  ASSUME Now, NEW p \in Processes, StartEvict(p) \/ (Enforce(p) /\ Target(p))
  PROVE  Careful(p)
<1> USE DEF Now
<1>s. \A q \in Processes \ {p} : Same(q)
  BY Aside DEF Step
<1>k. /\ pc \in [Processes -> Steps] /\ victim \in [Processes -> Paths \cup {NoPath}]
      /\ claims \in Nat /\ claims <= MaxClaims /\ MaxClaims \in Nat /\ names \in Nat
  BY Kinds
<1>m. Mine(p) /\ Counted /\ EntryHasFile
  BY DEF FInv
<1>1. /\ UNCHANGED <<row, entry, files, names, path, src, req>>
      /\ pc[p] \in {"idle", "enforce"} /\ pc'[p] = "evict"
      /\ entry # NoPath /\ victim'[p] = entry
      /\ claims < MaxClaims /\ claims' = claims + 1
  BY <1>k DEF StartEvict, Enforce, Target, Goto, store
<1>2. ~EvictionsOver /\ ~ForGood
  BY <1>k, <1>1 DEF EvictionsOver, ForGood
<1>3. Tame(p)
  BY <1>k, <1>1, <1>2 DEF Tame, Holding
<1>4. Counts(p)
  BY <1>1 DEF Counts, FInv, Numbered, Spent
<1>5. Mine(p)'
  BY <1>m, <1>1, <1>2 DEF Mine, Serving, Repairs, Holding, Ending
<1>6. Counted'
  <2>1. OnceAtMost => \A q \in Processes : pc[q] # "evict"
    BY <1>k, <1>m, <1>1 DEF Counted, OnceAtMost
  <2>2. \A q \in Processes : pc'[q] = "evict" => claims' > 0
    BY <1>k, <1>1
  <2>3. OnceAtMost => \A q, s \in Processes : pc'[q] = "evict" /\ pc'[s] = "evict" => q = s
    BY <1>s, <2>1 DEF Same
  <2> QED
    BY <1>1, <2>2, <2>3 DEF Counted, OnceAtMost
<1>7. EntryHasFile'
  BY <1>m, <1>1 DEF EntryHasFile
<1> QED
  BY <1>3, <1>4, <1>5, <1>6, <1>7 DEF Careful

LEMMA ClaimCareful ==
  ASSUME Now, NEW p \in Processes, Evict(p), Claims(p)
  PROVE  Careful(p)
<1> USE DEF Now
<1>s. \A q \in Processes \ {p} : Same(q)
  BY Aside DEF Step
<1>k. /\ pc \in [Processes -> Steps] /\ names \in Nat
      /\ claims \in Nat /\ claims <= MaxClaims /\ MaxClaims \in Nat
  BY Kinds
<1>m. Mine(p) /\ Counted /\ EntryHasFile
  BY DEF FInv
<1>1. /\ UNCHANGED <<row, files, names, claims, path, src, victim, req>>
      /\ pc[p] = "evict" /\ pc'[p] = "unlink" /\ victim[p] = entry /\ entry' = NoPath
  <2>1. Goto(p, "unlink") /\ UNCHANGED local
    BY <1>k DEF Evict, Claims
  <2> QED
    BY <1>k, <2>1 DEF Evict, EvictIfMatches, EvictEntry, Claims, Goto, local, disk
<1>2. victim[p] \in Paths /\ victim[p] # NoPath
  BY <1>1, NoPathIsNone DEF IInv, MInv, HoldsOwn, Evicting
<1>3. ~EvictionsOver /\ ~ForGood
  BY <1>1 DEF EvictionsOver, ForGood
<1>4. Tame(p)
  BY <1>k, <1>1, <1>3 DEF Tame, Holding
<1>5. Counts(p)
  BY <1>1 DEF Counts, FInv, Numbered, Spent
<1>6. Mine(p)'
  BY <1>m, <1>1, <1>2, <1>3 DEF Mine, Serving, Repairs, Holding, Ending
<1>7. Counted'
  <2>1. \A q \in Processes : pc'[q] = "evict" => pc[q] = "evict" /\ q # p
    BY <1>s, <1>1 DEF Same
  <2>2. OnceAtMost => EvictionsOver'
    BY <1>k, <1>m, <1>1, <2>1 DEF Counted, OnceAtMost, EvictionsOver
  <2> QED
    BY <1>m, <1>1, <2>1, <2>2 DEF Counted, OnceAtMost
<1>8. EntryHasFile'
  BY <1>1 DEF EntryHasFile
<1> QED
  BY <1>4, <1>5, <1>6, <1>7, <1>8 DEF Careful

\* The finaliser's file is registered while its request is pending: what is spent is
\* of other requests.
LEMMA RegisterCareful ==
  ASSUME Now, NEW p \in Processes, Register(p), Settles(req[p])
  PROVE  Careful(p)
<1> USE DEF Now
<1>s. \A q \in Processes \ {p} : Same(q)
  BY Aside DEF Step
<1>k. /\ pc \in [Processes -> Steps] /\ req \in [Processes -> Requests] /\ names \in Nat
      /\ row \in [Requests -> {"pending", "successful", "failed", "cancelled"}]
      /\ src \in [Processes -> Paths \cup {NoPath}]
      /\ entry \in Paths \cup {NoPath}
      /\ Original(req[p]) \in Paths /\ Original(req[p]).req = req[p] /\ Original(req[p]).name = 0
  BY Kinds
<1>a. \A q \in Processes : Mine(q)
  BY DEF FInv
<1>n. \A q \in Processes :
        /\ src[q] # NoPath => Spent(src[q])
        /\ victim[q] # NoPath => Spent(victim[q])
  BY DEF FInv, Numbered
<1>0. pc[p] = "register" /\ row[req[p]] = "pending"
  BY DEF Register, Settles
<1>1. path[p] = Original(req[p]) /\ path[p] \in files
  BY <1>a, <1>0 DEF Mine
<1>2. path[p] \in Paths /\ path[p].req = req[p] /\ path[p].name = 0 /\ path[p] # NoPath
  BY <1>k, <1>1, NoPathIsNone
<1>3. /\ UNCHANGED <<files, names, claims, path, victim, req>>
      /\ row' = [row EXCEPT ![req[p]] = "successful"] /\ entry' = path[p]
      /\ \/ pc'[p] = "enforce" /\ src'[p] = NoPath
         \/ pc'[p] = "supersede" /\ src'[p] = entry /\ entry # NoPath /\ entry # path[p]
  BY <1>k, <1>0 DEF Register, Settles, Goto, disk
<1>4. EvictionsOver => EvictionsOver'
  BY <1>s, <1>3, OverStays
<1>5. ASSUME NEW q \in Processes \ {p} PROVE Clear(q, path[p])
  <2>1. /\ src[q] # NoPath => src[q] # path[p]
        /\ victim[q] # NoPath => victim[q] # path[p]
    BY <1>n, <1>0, <1>2 DEF Spent
  <2>2. /\ pc[q] \in Holding => path[q] # path[p]
        /\ pc[q] = "supersede" => src[q] # NoPath
        /\ pc[q] = "unlink" => victim[q] # NoPath
    BY <1>a, <1>2 DEF Mine
  <2> QED
    BY <2>1, <2>2 DEF Clear
<1>6. Tame(p)
  <2>1. ForGood => ForGood'
    BY <1>2, <1>3, <1>4 DEF ForGood
  <2>2. \A q \in Processes \ {p} : Clear(q, entry')
    BY <1>3, <1>5
  <2>3. names <= names' /\ victim'[p] = victim[p] /\ files \ files' = {}
        /\ pc'[p] \notin Holding /\ (pc'[p] = "supersede" => src'[p] = entry)
    BY <1>k, <1>3 DEF Holding
  <2> QED
    BY <1>4, <2>1, <2>2, <2>3 DEF Tame
<1>7. Counts(p)
  <2>1. entry # NoPath => entry.name <= names' /\ row'[entry.req] = "successful"
    BY <1>k, <1>3, SpentStays DEF FInv, Numbered, Spent
  <2>2. Spent(entry)'
    BY <1>k, <1>2, <1>3 DEF Spent
  <2>3. path'[p].name <= names'
    BY <1>k, <1>2, <1>3
  <2> QED
    BY <1>3, <2>1, <2>2, <2>3 DEF Counts, Spent
<1>8. Mine(p)'
  BY <1>2, <1>3 DEF Mine, Serving, Repairs, Holding, Ending
<1>9. Counted'
  <2>1. \A q \in Processes : pc'[q] = "evict" => pc[q] = "evict"
    BY <1>s, <1>3 DEF Same
  <2> QED
    BY <1>2, <1>3, <2>1 DEF FInv, Counted, OnceAtMost
<1>10. EntryHasFile'
  BY <1>1, <1>3 DEF EntryHasFile
<1> QED
  BY <1>6, <1>7, <1>8, <1>9, <1>10 DEF Careful

\* A repair registers a name of its own, which nobody removes: there is no other
\* repair, or no eviction after the one that made it necessary.
LEMMA RepairCareful ==
  ASSUME Now, Gentle, NEW p \in Processes, Repair(p), MayRepair(p)
  PROVE  Careful(p)
<1> USE DEF Now
<1>s. \A q \in Processes \ {p} : Same(q)
  BY Aside DEF Step
<1>k. pc \in [Processes -> Steps] /\ names \in Nat
  BY Kinds
<1>a. \A q \in Processes : Mine(q) /\ Apart(p, q)
  BY DEF FInv
<1>1. /\ pc[p] = "repair" /\ pc'[p] = "enforce" /\ entry = NoPath /\ entry' = path[p]
      /\ UNCHANGED <<row, files, names, claims, path, src, victim, req>>
      /\ row[req[p]] = "successful"
  BY <1>k DEF Repair, MayRepair, Goto, disk, local
<1>2. /\ path[p] \in files /\ path[p] # NoPath /\ path[p] # src[p]
      /\ "fetch" \in Duties[p] /\ (OnceAtMost => EvictionsOver)
  BY <1>a, <1>1 DEF Mine, Holding, Serving, Repairs, ForGood
<1>3. path[p].req = req[p] /\ path[p].name <= names
  BY <1>1, <1>2 DEF IInv, MInv, HoldsOwn, Owning, FInv, Numbered
<1>4. EvictionsOver => EvictionsOver'
  BY <1>s, <1>1, OverStays
<1>5. ~ForGood
  BY <1>1 DEF ForGood
<1>6. ASSUME NEW q \in Processes \ {p} PROVE Clear(q, path[p])
  <2>1. /\ pc[q] \in Holding => path[q] # path[p]
        /\ victim[q] # path[p]
        /\ pc[q] = "supersede" => src[q] # path[p]
    BY <1>a, <1>1 DEF Apart, Holding
  <2>2. pc[q] \in Ending => src[q] = NoPath
    BY <1>a, <1>2, <1>5 DEF Mine, Gentle, OneRepairer
  <2> QED
    BY <2>1, <2>2 DEF Clear
<1>7. Tame(p)
  <2>1. \A q \in Processes \ {p} : Clear(q, entry')
    BY <1>1, <1>6
  <2> QED
    BY <1>k, <1>1, <1>4, <1>5, <2>1 DEF Tame, Holding
<1>8. Counts(p)
  BY <1>1, <1>3 DEF Counts, FInv, Numbered, Spent
<1>9. Mine(p)'
  <2>1. OnceAtMost => ForGood'
    BY <1>1, <1>2, <1>4 DEF ForGood
  <2> QED
    BY <1>1, <1>2, <2>1 DEF Mine, Serving, Repairs, Holding, Ending
<1>10. Counted'
  <2>1. \A q \in Processes : pc'[q] = "evict" => pc[q] = "evict"
    BY <1>s, <1>1 DEF Same
  <2> QED
    BY <1>1, <1>2, <2>1 DEF FInv, Counted, OnceAtMost
<1>11. EntryHasFile'
  BY <1>1, <1>2 DEF EntryHasFile
<1> QED
  BY <1>7, <1>8, <1>9, <1>10, <1>11 DEF Careful

-----------------------------------------------------------------------------
LEMMA StepCareful ==
  ASSUME Now, Gentle, NEW p \in Processes,
         Step(p) \/ StartEvict(p) \/ Crash(p) \/ (\E r \in Requests : Start(p, r))
  PROVE  Careful(p)
<1>1. CASE Check(p) \/ Find(p) \/ Download(p) \/ Size(p) \/ Fail(p) \/ Register(p)
  BY <1>1, FinaliserCareful, RegisterCareful
<1>2. CASE Supersede(p) \/ Lost(p) \/ Discard(p) \/ Unlink(p) \/ YieldRepair(p) \/ Retire(p)
  BY <1>2, RemovalCareful
<1>3. CASE Publish(p)
  BY <1>3, PublishCareful
<1>4. CASE Enforce(p) \/ Evict(p) \/ StartEvict(p)
  BY <1>4, EvictionIdle, TargetCareful, ClaimCareful DEF Enforce
<1>5. CASE \/ Fetch(p) \/ ReadTomb(p) \/ AdoptOriginal(p) \/ AdoptFresh(p) \/ Linked(p) \/ Gone(p)
           \/ Stat(p) \/ Link(p) \/ Refetch(p) \/ Repair(p)
  BY <1>5, RepairIdle, FreshCareful, RepairCareful
<1>6. CASE Crash(p) \/ \E r \in Requests : Start(p, r)
  BY <1>6, CrashCareful, StartCareful
<1> QED
  BY <1>1, <1>2, <1>3, <1>4, <1>5, <1>6 DEF Step

LEMMA FilesInit == Init => FInv
<1> SUFFICES ASSUME Init PROVE FInv
  OBVIOUS
<1>1. /\ entry = NoPath /\ files = {}
      /\ \A r \in Requests : row[r] = "pending"
      /\ \A p \in Processes : pc[p] = "idle" /\ path[p] = NoPath /\ src[p] = NoPath /\ victim[p] = NoPath
  BY DEF Init
<1>2. EntryHasFile /\ Numbered /\ Counted
  BY <1>1 DEF EntryHasFile, Numbered, Counted
<1>3. \A p \in Processes : Mine(p)
  BY <1>1 DEF Mine, Serving, Repairs, Holding, Ending
<1>4. \A p, q \in Processes : Apart(p, q)
  BY <1>1 DEF Apart, Holding
<1> QED
  BY <1>2, <1>3, <1>4 DEF FInv

LEMMA FilesKeep ==
  ASSUME Gentle, IInv, CInv, FInv, [Next]_vars
  PROVE  FInv'
<1>i. IInv'
  BY NextKeeps
<1>1. CASE UNCHANGED <<row, entry, files, names, claims, pc, req, path, src, victim>>
  BY <1>1 DEF FInv, EntryHasFile, Numbered, Counted, Mine, Apart, Spent, EvictionsOver, ForGood
<1>2. ASSUME NEW p \in Processes,
             Step(p) \/ StartEvict(p) \/ Crash(p) \/ (\E r \in Requests : Start(p, r))
      PROVE  FInv'
  <2>1. Next
    BY <1>2 DEF Next
  <2>2. Now
    BY <1>i, <2>1 DEF Now
  <2>3. Careful(p)
    BY <1>2, <2>2, StepCareful
  <2> QED
    BY <1>2, <1>i, <2>1, <2>3, CarefulKeeps
<1>3. CASE \E r \in Requests : JobEnds(r)
  BY <1>1, <1>3 DEF JobEnds, store, local
<1>4. CASE UNCHANGED vars
  BY <1>1, <1>4 DEF vars
<1>5. ~\E f \in files : LoseFile(f)
  BY DEF LoseFile, Gentle
<1> QED
  BY <1>2, <1>3, <1>4, <1>5 DEF Next

\* As long as no file is deleted by hand, and the key's entry is evicted once at most
\* or one process at most repairs it, a registered file exists: whoever removes one has
\* taken its entry away first, and a repair registers a name of its own.
THEOREM FilesRegistered ==
  ASSUME Gentle
  PROVE  Spec => []EntryHasFile
<1>1. IInv /\ CInv /\ FInv /\ [Next]_vars => FInv'
  BY FilesKeep
<1>2. FInv => EntryHasFile
  BY DEF FInv
<1> QED
  BY <1>1, <1>2, FilesInit, Invariance, DoneInvariance, PTL DEF Spec
=============================================================================
