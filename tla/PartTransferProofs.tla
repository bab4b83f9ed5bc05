-------------------------- MODULE PartTransferProofs --------------------------
(***************************************************************************)
(* Theorems about PartTransfer, for any number of processes and locations, *)
(* a result of any size and any number of failed transfers: as long as a   *)
(* behaviour meets either regenerated results or dead and stalled          *)
(* processes, what is published is one whole result.                       *)
(***************************************************************************)
EXTENDS PartTransfer, SequenceTheorems, TLAPS

(* The operators of the model.                                             *)

Blocks == Locations \cup {Junk}

LEMMA DataIs == Data = {s \in Seq(Blocks) : Len(s) <= Size}
<1>1. ASSUME NEW s \in Data PROVE s \in Seq(Blocks) /\ Len(s) <= Size
  <2>1. PICK n \in 0..Size : s \in [1..n -> Blocks]
    BY <1>1 DEF Data, Blocks
  <2>2. n \in Nat /\ n <= Size
    BY PartAssumption
  <2>3. s \in Seq(Blocks)
    BY <2>1, <2>2, SeqDef
  <2>4. Len(s) = n
    BY <2>1, <2>2, <2>3, LenProperties
  <2> QED
    BY <2>2, <2>3, <2>4
<1>2. ASSUME NEW s \in Seq(Blocks), Len(s) <= Size PROVE s \in Data
  <2>1. Len(s) \in 0..Size /\ s \in [1..Len(s) -> Blocks]
    BY <1>2, PartAssumption, LenProperties
  <2> QED
    BY <2>1 DEF Data, Blocks
<1> QED
  BY <1>1, <1>2

LEMMA EmptyData == <<>> \in Data
  BY DataIs, PartAssumption

LEMMA DataGrows ==
  ASSUME NEW data \in Data, Len(data) < Size, NEW b \in Blocks
  PROVE  Append(data, b) \in Data
  BY DataIs, PartAssumption

LEMMA NoFileIsNone == NoFile \notin Data /\ NoFile \notin Sidecars
  BY AbsenceAssumption

LEMMA Records ==
  /\ Blank \in Sidecars
  /\ NoCopy \in Copies
  /\ \A at \in Locations : [Blank EXCEPT !.location = at] \in Sidecars
  /\ \A r \in Sidecars \cup {NoFile} : Says(r) \in Sidecars
  BY EmptyData, PartAssumption DEF Blank, Sidecars, NoCopy, Copies, Says

LEMMA Judgements ==
  ASSUME NEW data \in Data \cup {NoFile}, NEW r \in Sidecars \cup {NoFile}, NEW at \in Locations
  PROVE  /\ Verified(data, r) \in BOOLEAN
         /\ Kept(data, r, at) \in {data, NoFile}
         /\ Kept(data, r, at) # NoFile => data # NoFile /\ Says(r).location = at
         /\ Repinned(data, r, at) \in Sidecars
         /\ Repinned(data, r, at).location = at
         /\ Repinned(data, r, at).complete => Says(r).complete
         /\ Repinned(data, r, at).complete =>
               Repinned(data, r, at).identity = Says(r).identity
<1>1. Says(r) \in Sidecars
  BY Records
<1>2. [Says(r) EXCEPT !.location = at] \in Sidecars
  BY <1>1 DEF Sidecars
<1>3. Repinned(data, r, at) \in
         {[Says(r) EXCEPT !.location = at], [Blank EXCEPT !.location = at]}
  BY DEF Repinned
<1>4. Repinned(data, r, at) \in Sidecars
  BY <1>2, <1>3, Records
<1>5. /\ Repinned(data, r, at).location = at
      /\ Repinned(data, r, at).complete => Says(r).complete
      /\ Repinned(data, r, at).complete =>
            Repinned(data, r, at).identity = Says(r).identity
  <2>1. CASE Repinned(data, r, at) = [Says(r) EXCEPT !.location = at]
    BY <2>1, <1>1 DEF Sidecars
  <2>2. CASE Repinned(data, r, at) = [Blank EXCEPT !.location = at]
    BY <2>2 DEF Blank
  <2> QED
    BY <1>3, <2>1, <2>2
<1>6. /\ Verified(data, r) \in BOOLEAN
      /\ Kept(data, r, at) \in {data, NoFile}
      /\ Kept(data, r, at) # NoFile => data # NoFile /\ Says(r).location = at
  BY <1>1 DEF Verified, Kept, Sidecars
<1> QED
  BY <1>4, <1>5, <1>6

\* What planning leaves of the own part and writes into its sidecar.
LEMMA Planned ==
  ASSUME TypeOK, NEW p \in Processes
  PROVE  /\ PlannedPart(p) \in {part[p], NoFile}
         /\ PlannedPart(p) # NoFile => Says(sidecar[p]).location = location[p]
         /\ Full(PlannedPart(p)) => Verified(part[p], sidecar[p])
<1>1. /\ part[p] \in Data \cup {NoFile}
      /\ sidecar[p] \in Sidecars \cup {NoFile}
      /\ location[p] \in Locations
  BY DEF TypeOK
<1> DEFINE kept == Kept(part[p], sidecar[p], location[p])
<1>2. kept \in {part[p], NoFile} /\ (kept # NoFile => Says(sidecar[p]).location = location[p])
  BY <1>1, Judgements
<1>3. PlannedPart(p) = IF Full(kept) /\ (transfer[p] = "failed" \/ ~Verified(kept, sidecar[p]))
                       THEN NoFile ELSE kept
  BY DEF PlannedPart
<1> HIDE DEF kept
<1>4. ~Full(NoFile)
  BY DEF Full
<1> QED
  BY <1>2, <1>3, <1>4

LEMMA PinIs ==
  ASSUME TypeOK, NEW p \in Processes, Pin(p)
  PROVE  \E r \in Sidecars :
            /\ sidecar' = [sidecar EXCEPT ![p] = r]
            /\ r.location = location[p]
            /\ r.complete => Says(sidecar[p]).complete
            /\ r.complete => r.identity = Says(sidecar[p]).identity
<1>1. /\ part[p] \in Data \cup {NoFile}
      /\ sidecar[p] \in Sidecars \cup {NoFile}
      /\ location[p] \in Locations
  BY DEF TypeOK
<1>2. CASE PlannedPart(p) = NoFile
  <2>1. sidecar' = [sidecar EXCEPT ![p] = [Blank EXCEPT !.location = location[p]]]
    BY <1>2 DEF Pin, SetSidecar
  <2> QED
    BY <2>1, <1>1, Records DEF Blank
<1>3. CASE PlannedPart(p) # NoFile
  <2>1. sidecar' = [sidecar EXCEPT ![p] = Repinned(part[p], sidecar[p], location[p])]
    BY <1>3 DEF Pin, SetSidecar
  <2> DEFINE r == Repinned(part[p], sidecar[p], location[p])
  <2>2. /\ r \in Sidecars
        /\ r.location = location[p]
        /\ r.complete => Says(sidecar[p]).complete
        /\ r.complete => r.identity = Says(sidecar[p]).identity
    BY <1>1, Judgements
  <2> HIDE DEF r
  <2> QED
    BY <2>1, <2>2 DEF r
<1> QED
  BY <1>2, <1>3

-----------------------------------------------------------------------------
(* Type correctness.                                                       *)

Steps == {"none", "adopt", "copy", "link", "pin", "check", "open", "write", "raise",
          "mark", "clean"}

LEMMA FaultsStay ==
  ASSUME TypeOK, NEW k \in {"deaths", "regenerations", "failures", "stalls"},
         UNCHANGED faults \/ Strikes(k)
  PROVE  /\ faults' \in [deaths: Nat, regenerations: Nat, failures: Nat, stalls: Nat]
         /\ faults.deaths = 0 => faults'.deaths = 0
         /\ faults.stalls = 0 => faults'.stalls = 0
         /\ faults.regenerations = 0 => faults'.regenerations = 0
  BY DEF TypeOK, Strikes

LEMMA TypePoll ==
  ASSUME TypeOK, NEW p \in Processes,
         Resolve(p) \/ Rejoin(p) \/ BackOff(p) \/ Awake(p) \/ Abandon(p)
  PROVE  TypeOK'
<1>1. CASE Resolve(p)
  BY <1>1 DEF TypeOK, Resolve, world
<1>2. CASE Rejoin(p)
  BY <1>2 DEF TypeOK, Rejoin, world
<1>3. CASE BackOff(p)
  BY <1>3 DEF TypeOK, BackOff, world
<1>4. CASE Awake(p)
  BY <1>4 DEF TypeOK, Awake, world
<1>5. CASE Abandon(p)
  BY <1>5 DEF TypeOK, Abandon, world
<1> QED
  BY <1>1, <1>2, <1>3, <1>4, <1>5

LEMMA TypePlan ==
  ASSUME TypeOK, NEW p \in Processes, Plan(p)
  PROVE  TypeOK'
<1>1. UNCHANGED <<current, faults, final, location, copy>>
  BY DEF Plan, world
<1>2. part' \in [Processes -> Data \cup {NoFile}]
  <2>1. PlannedPart(p) \in Data \cup {NoFile}
    BY Planned DEF TypeOK
  <2> QED
    BY <2>1 DEF Plan, SetPart, TypeOK
<1>3. sidecar' \in [Processes -> Sidecars \cup {NoFile}]
  <2>1. Pin(p)
    BY DEF Plan
  <2> QED
    BY <2>1, PinIs DEF TypeOK
<1>4. quiet' \subseteq Processes
  BY DEF Plan, TypeOK
<1>5. /\ pc' \in [Processes -> {"idle", "plan", "await", "promote", "done", "dead"}]
      /\ transfer' \in [Processes -> {"none", "live", "ok", "failed"}]
  BY DEF Plan, TypeOK
<1>6. thread' \in [Processes -> Steps] /\ source' \in [Processes -> Processes \cup {Nobody}]
  BY DEF Plan, TypeOK, Steps, Adoptable, Foreign, GotoThread
<1> QED
  BY <1>1, <1>2, <1>3, <1>4, <1>5, <1>6 DEF TypeOK, Steps

LEMMA TypeFiles ==
  ASSUME TypeOK, NEW p \in Processes, Promote(p) \/ RemoveQuiet(p) \/ Fall(p)
  PROVE  TypeOK'
<1>1. CASE Promote(p)
  BY <1>1 DEF TypeOK, Promote, SetPart, SetSidecar, world
<1>2. CASE RemoveQuiet(p)
  <2>1. UNCHANGED <<current, faults, final, pc, location, transfer, thread, source, copy>>
    BY <1>2 DEF RemoveQuiet, world
  <2>2. PICK q \in quiet : /\ SetPart(q, NoFile)
                           /\ SetSidecar(q, NoFile)
                           /\ quiet' = quiet \ {q}
    BY <1>2 DEF RemoveQuiet
  <2> QED
    BY <2>1, <2>2 DEF TypeOK, SetPart, SetSidecar
<1>3. CASE Fall(p)
  <2>1. UNCHANGED <<current, part, sidecar, final, pc, location, transfer, thread, source,
                    copy>>
    BY <1>3 DEF Fall
  <2>2. UNCHANGED faults \/ Strikes("stalls")
    BY <1>3 DEF Fall
  <2>3. faults' \in [deaths: Nat, regenerations: Nat, failures: Nat, stalls: Nat]
    BY <2>2, FaultsStay
  <2>4. quiet' \subseteq Processes
    BY <1>3 DEF Fall, TypeOK
  <2> QED
    BY <2>1, <2>3, <2>4 DEF TypeOK
<1> QED
  BY <1>1, <1>2, <1>3

LEMMA CopiedIs ==
  ASSUME NEW p \in Processes, AdoptCopy(p), part[source[p]] # NoFile
  PROVE  copy' = [copy EXCEPT ![p] = [@ EXCEPT
                     !.data = part[source[p]],
                     !.vouched = /\ copy[p].vouched
                                 /\ sidecar[source[p]] # NoFile
                                 /\ copy[p].sidecar.identity = part[source[p]]]]
  BY DEF AdoptCopy

LEMMA TypeAdopt ==
  ASSUME TypeOK, NEW p \in Processes,
         AdoptRead(p) \/ AdoptCopy(p) \/ AdoptLink(p) \/ AdoptPin(p),
         thread[p] \in {"adopt", "copy"} => source[p] \in Processes
  PROVE  TypeOK'
<1>0. /\ part[p] \in Data \cup {NoFile}
      /\ sidecar[p] \in Sidecars \cup {NoFile}
      /\ location[p] \in Locations
      /\ copy[p] \in Copies
  BY DEF TypeOK
<1>1. CASE AdoptRead(p)
  <2> DEFINE q == source[p]
             record == [data |-> <<>>, sidecar |-> sidecar[q],
                        vouched |-> Verified(part[q], sidecar[q])]
  <2>1. q \in Processes
    BY <1>1 DEF AdoptRead
  <2>2. record \in Copies
    <3>1. part[q] \in Data \cup {NoFile} /\ sidecar[q] \in Sidecars \cup {NoFile}
      BY <2>1 DEF TypeOK
    <3>2. Verified(part[q], sidecar[q]) \in BOOLEAN
      BY <3>1, Judgements, PartAssumption
    <3> QED
      BY <3>1, <3>2, EmptyData DEF Copies
  <2> HIDE DEF record
  <2>3. copy' = copy \/ copy' = [copy EXCEPT ![p] = record]
    BY <1>1 DEF AdoptRead, record
  <2>4. copy' \in [Processes -> Copies]
    BY <2>2, <2>3 DEF TypeOK
  <2> QED
    BY <2>4, <1>1 DEF TypeOK, AdoptRead, EndTransfer, GotoThread, world
<1>2. CASE AdoptCopy(p)
  <2> DEFINE q == source[p]
             vouched == /\ copy[p].vouched
                        /\ sidecar[q] # NoFile
                        /\ copy[p].sidecar.identity = part[q]
  <2>1. q \in Processes
    BY <1>2 DEF AdoptCopy
  <2>2. part[q] \in Data \cup {NoFile}
    BY <2>1 DEF TypeOK
  <2>3. copy' = copy \/ (part[q] # NoFile
           /\ copy' = [copy EXCEPT ![p] = [@ EXCEPT !.data = part[q], !.vouched = vouched]])
    <3>1. CASE part[q] = NoFile
      BY <3>1, <1>2 DEF AdoptCopy
    <3>2. CASE part[q] # NoFile
      BY <3>2, <1>2, CopiedIs
    <3> QED
      BY <3>1, <3>2
  <2>4. vouched \in BOOLEAN
    OBVIOUS
  <2> HIDE DEF vouched
  <2>5. part[q] # NoFile => [copy[p] EXCEPT !.data = part[q], !.vouched = vouched] \in Copies
    BY <2>2, <2>4, <1>0 DEF Copies
  <2>6. copy' \in [Processes -> Copies]
    BY <2>3, <2>5 DEF TypeOK
  <2> QED
    BY <2>6, <1>2 DEF TypeOK, AdoptCopy, EndTransfer, GotoThread, world
<1>3. CASE AdoptLink(p)
  <2>1. copy[p].data \in Data
    BY <1>0 DEF Copies
  <2>2. part' \in [Processes -> Data \cup {NoFile}]
    BY <1>3, <1>0, <2>1 DEF TypeOK, AdoptLink, SetPart
  <2> QED
    BY <2>2, <1>3 DEF TypeOK, AdoptLink, GotoThread, world
<1>4. CASE AdoptPin(p)
  <2>1. AdoptedSidecar(p) \in Sidecars \cup {NoFile}
    BY <1>0 DEF AdoptedSidecar, Copies, Sidecars
  <2>2. /\ Kept(part[p], AdoptedSidecar(p), location[p]) \in Data \cup {NoFile}
        /\ Repinned(part[p], AdoptedSidecar(p), location[p]) \in Sidecars
    BY <1>0, <2>1, Judgements
  <2>3. /\ part' \in [Processes -> Data \cup {NoFile}]
        /\ sidecar' \in [Processes -> Sidecars \cup {NoFile}]
    BY <1>4, <2>2 DEF TypeOK, AdoptPin, SetPart, SetSidecar
  <2>4. copy' \in [Processes -> Copies]
    BY <1>4, Records DEF TypeOK, AdoptPin
  <2> QED
    BY <2>3, <2>4, <1>4 DEF TypeOK, AdoptPin, GotoThread, world
<1> QED
  BY <1>1, <1>2, <1>3, <1>4

LEMMA TypeThread ==
  ASSUME TypeOK, NEW p \in Processes,
         \/ Check(p) \/ Open(p) \/ Write(p) \/ Raise(p) \/ Vanish(p)
         \/ Return(p) \/ MarkComplete(p) \/ Disown(p) \/ Clean(p)
  PROVE  TypeOK'
<1>0. /\ part[p] \in Data \cup {NoFile}
      /\ sidecar[p] \in Sidecars \cup {NoFile}
      /\ location[p] \in Locations
  BY DEF TypeOK
<1>1. CASE Check(p)
  BY <1>1 DEF TypeOK, Check, SetPart, GotoThread, world
<1>2. CASE Open(p)
  BY <1>2, EmptyData DEF TypeOK, Open, SetPart, GotoThread, world
<1>3. CASE Write(p)
  <2>1. faults' \in [deaths: Nat, regenerations: Nat, failures: Nat, stalls: Nat]
    BY <1>3, FaultsStay DEF Write
  <2>2. /\ Append(part[p], location[p]) \in Data
        /\ Append(part[p], Junk) \in Data
    BY <1>3, <1>0, DataGrows DEF Write, Blocks
  <2>3. part' \in [Processes -> Data \cup {NoFile}]
    BY <1>3, <2>2 DEF TypeOK, Write, SetPart
  <2> QED
    BY <2>1, <2>3, <1>3 DEF TypeOK, Write, GotoThread
<1>4. CASE Raise(p)
  <2>1. faults' \in [deaths: Nat, regenerations: Nat, failures: Nat, stalls: Nat]
    BY <1>4, FaultsStay DEF Raise
  <2> QED
    BY <2>1, <1>4 DEF TypeOK, Raise, GotoThread
<1>5. CASE Vanish(p)
  BY <1>5 DEF TypeOK, Vanish, EndTransfer, GotoThread, world
<1>6. CASE Return(p)
  BY <1>6 DEF TypeOK, Return, GotoThread, world
<1>7. CASE MarkComplete(p)
  <2> DEFINE record == [Says(sidecar[p]) EXCEPT !.complete = TRUE, !.identity = part[p]]
  <2>1. part[p] # NoFile => record \in Sidecars
    BY <1>0, Records DEF Sidecars
  <2>2. sidecar' = sidecar \/ (part[p] # NoFile /\ sidecar' = [sidecar EXCEPT ![p] = record])
    BY <1>7 DEF MarkComplete, SetSidecar
  <2> HIDE DEF record
  <2>3. sidecar' \in [Processes -> Sidecars \cup {NoFile}]
    BY <2>1, <2>2 DEF TypeOK
  <2> QED
    BY <2>3, <1>7 DEF TypeOK, MarkComplete, EndTransfer, GotoThread, world
<1>8. CASE Disown(p)
  BY <1>8 DEF TypeOK, Disown, SetPart, EndTransfer, GotoThread, world
<1>9. CASE Clean(p)
  BY <1>9 DEF TypeOK, Clean, SetSidecar, EndTransfer, GotoThread, world
<1> QED
  BY <1>1, <1>2, <1>3, <1>4, <1>5, <1>6, <1>7, <1>8, <1>9

LEMMA TypeWorld ==
  ASSUME TypeOK, Regenerate \/ \E p \in Processes : Die(p)
  PROVE  TypeOK'
<1>1. CASE Regenerate
  <2>1. faults' \in [deaths: Nat, regenerations: Nat, failures: Nat, stalls: Nat]
    BY <1>1, FaultsStay DEF Regenerate
  <2> QED
    BY <2>1, <1>1 DEF TypeOK, Regenerate
<1>2. ASSUME NEW p \in Processes, Die(p) PROVE TypeOK'
  <2>1. faults' \in [deaths: Nat, regenerations: Nat, failures: Nat, stalls: Nat]
    BY <1>2, FaultsStay DEF Die
  <2>2. copy' \in [Processes -> Copies]
    BY <1>2, Records DEF TypeOK, Die
  <2> QED
    BY <2>1, <2>2, <1>2 DEF TypeOK, Die, GotoThread
<1> QED
  BY <1>1, <1>2

-----------------------------------------------------------------------------
(* The invariant.                                                          *)

\* Faults of one behaviour: regenerated results, or dead and stalled processes.
FaultsApart ==
    \A f \in Faults : f.regenerations = 0 \/ (f.deaths = 0 /\ f.stalls = 0)

Adopting == {"adopt", "copy", "link", "pin"}

\* Only the last block of a part may be wrong, and if faults come apart the others
\* are of one location.
Usable(data) == data # NoFile => \A i \in 1..Len(data) : data[i] = Junk => i = Size
Of(data, at) ==
    data # NoFile =>
        \A i \in 1..Len(data) : data[i] = at \/ (i = Size /\ data[i] = Junk)

\* What a transfer that has not failed has in its part, and returns with.
Genuine(data, at) ==
    /\ \A i \in 1..Len(data) : data[i] # Junk
    /\ FaultsApart => \A i \in 1..Len(data) : data[i] = at
Finished(data) ==
    /\ Full(data)
    /\ \A i \in 1..Size : data[i] # Junk
    /\ FaultsApart => Whole(data)
FinishedOrGone(data) == data = NoFile \/ Finished(data)

\* There has been one result only: whatever is copied continues it ...
Steady == faults.regenerations = 0 /\ current = 1
SteadyOwn(p) ==
    /\ location[p] = 1
    /\ Of(part[p], 1)
    /\ Of(copy[p].data, 1)

\* ... or nobody takes a part over or removes one, and what a process writes to is
\* pinned to the location it writes from.
Lonely == faults.deaths = 0 /\ faults.stalls = 0 /\ quiet = {}
LonelyOwn(p) ==
    /\ pc[p] \notin {"dead", "done"}
    /\ thread[p] \notin Adopting
    /\ Of(part[p], Says(sidecar[p]).location)
    /\ thread[p] # "none" => Says(sidecar[p]).location = location[p]

AllSteady == FaultsApart /\ Steady /\ \A p \in Processes : SteadyOwn(p)
AllLonely == FaultsApart /\ Lonely /\ \A p \in Processes : LonelyOwn(p)
Regime == AllSteady \/ AllLonely

\* The registered transfer is the thread, and a promoter has none.
Registered(p) ==
    /\ thread[p] # "none" <=> transfer[p] = "live"
    /\ pc[p] = "promote" => transfer[p] = "none"

\* A flag was set for finished data, wherever it went since.
Earned(p) ==
    /\ Says(sidecar[p]).complete => Finished(Says(sidecar[p]).identity)
    /\ Says(copy[p].sidecar).complete => Finished(Says(copy[p].sidecar).identity)
    /\ copy[p].vouched => Says(copy[p].sidecar).complete
    /\ thread[p] \in {"link", "pin"} /\ copy[p].vouched => Finished(copy[p].data)

\* What the steps of a thread, and the promotion, rely on.
Ready(p) ==
    /\ thread[p] = "open" => ~Full(part[p])
    /\ thread[p] = "write" /\ part[p] # NoFile => Genuine(part[p], location[p])
    /\ thread[p] = "mark" => FinishedOrGone(part[p])
    /\ thread[p] = "clean" => part[p] = NoFile
    /\ pc[p] = "await" /\ transfer[p] = "ok" => FinishedOrGone(part[p])
    /\ pc[p] = "promote" => FinishedOrGone(part[p])

Tidy(p) == Usable(part[p]) /\ Usable(copy[p].data)

Own(p) == Registered(p) /\ Earned(p) /\ Ready(p) /\ Tidy(p)

\* Once the request has its file, nothing of this matters any more.
Sound == (FaultsApart => Regime) /\ \A p \in Processes : Own(p)
Sourced ==
    \A p \in Processes : thread[p] \in {"adopt", "copy"} => source[p] \in Processes

\* What is published is complete, and nothing a failed transfer left is in it,
\* whatever happens.
PublishedIsFinished == final # NoFile => Finished(final)

IInv ==
    /\ TypeOK
    /\ Sourced
    /\ PublishedIsFinished
    /\ final = NoFile => Sound

LEMMA EarnedIsFinished ==
  ASSUME NEW p \in Processes, Earned(p), Verified(part[p], sidecar[p])
  PROVE  Finished(part[p])
  BY DEF Earned, Verified

\* A thread writes on with the result its part holds.
LEMMA WritesItsOwn ==
  ASSUME Sound, FaultsApart, NEW p \in Processes, thread[p] # "none", thread[p] \notin Adopting
  PROVE  Of(part[p], location[p])
<1>1. CASE AllSteady
  BY <1>1 DEF AllSteady, SteadyOwn
<1>2. CASE AllLonely
  BY <1>2 DEF AllLonely, LonelyOwn
<1> QED
  BY <1>1, <1>2 DEF Sound, Regime

LEMMA PartialIsGenuine ==
  ASSUME NEW data \in Data, NEW at, Usable(data), FaultsApart => Of(data, at), ~Full(data)
  PROVE  Genuine(data, at)
  BY DataIs, NoFileIsNone, PartAssumption DEF Usable, Of, Full, Genuine

LEMMA GenuineIsFinished ==
  ASSUME NEW data \in Data, NEW at \in Locations, Genuine(data, at), Full(data)
  PROVE  Finished(data)
  BY DataIs, PartAssumption DEF Genuine, Full, Whole, Finished

LEMMA GenuineGrows ==
  ASSUME NEW data \in Data, Len(data) < Size, NEW at \in Locations, Genuine(data, at)
  PROVE  /\ Genuine(Append(data, at), at)
         /\ Usable(Append(data, at))
         /\ FaultsApart => Of(Append(data, at), at)
         /\ Len(data) = Size - 1 => /\ Usable(Append(data, Junk))
                                    /\ FaultsApart => Of(Append(data, Junk), at)
<1>0. data \in Seq(Blocks) /\ at \in Blocks /\ Junk \in Blocks /\ at # Junk
  BY DataIs, PartAssumption DEF Blocks
<1>1. \A b \in Blocks : /\ Len(Append(data, b)) = Len(data) + 1
                        /\ Append(data, b)[Len(data) + 1] = b
                        /\ \A i \in 1..Len(data) : Append(data, b)[i] = data[i]
  BY <1>0
<1>2. /\ Len(data) \in Nat
      /\ Size \in Nat
  BY <1>0, PartAssumption
<1>3. Genuine(Append(data, at), at) /\ Usable(Append(data, at))
  BY <1>0, <1>1, <1>2 DEF Genuine, Usable
<1>4. FaultsApart => Of(Append(data, at), at)
  BY <1>0, <1>1, <1>2 DEF Genuine, Of
<1>5. ASSUME Len(data) = Size - 1
      PROVE  /\ Usable(Append(data, Junk))
             /\ FaultsApart => Of(Append(data, Junk), at)
  BY <1>0, <1>1, <1>2, <1>5 DEF Genuine, Usable, Of
<1> QED
  BY <1>3, <1>4, <1>5

-----------------------------------------------------------------------------
(* What one process does leaves the others alone.                          *)

Alone(q) ==
    UNCHANGED <<part[q], sidecar[q], pc[q], location[q], transfer[q], thread[q], source[q],
                copy[q]>>

LEMMA AloneKeeps ==
  ASSUME NEW q \in Processes, Alone(q)
  PROVE  /\ Own(q) => Own(q)'
         /\ SteadyOwn(q) => SteadyOwn(q)'
         /\ LonelyOwn(q) => LonelyOwn(q)'
  BY DEF Alone, Own, Registered, Earned, Ready, Tidy, SteadyOwn, LonelyOwn

\* Every step of p but the removal of parts.
Acts(p) ==
    \/ AdoptRead(p) \/ AdoptCopy(p) \/ AdoptLink(p) \/ AdoptPin(p)
    \/ Check(p) \/ Open(p) \/ Write(p) \/ Vanish(p) \/ Return(p)
    \/ MarkComplete(p) \/ Disown(p) \/ Clean(p)
    \/ Resolve(p) \/ Rejoin(p) \/ BackOff(p) \/ Plan(p) \/ Awake(p) \/ Promote(p)
    \/ Raise(p) \/ Abandon(p) \/ Fall(p) \/ Die(p)

LEMMA ActsApart ==
  ASSUME TypeOK, NEW p \in Processes, Acts(p), NEW q \in Processes, q # p
  PROVE  Alone(q)
<1> USE DEF TypeOK, Alone
<1>1. CASE AdoptRead(p) \/ AdoptCopy(p) \/ AdoptLink(p) \/ AdoptPin(p)
  BY <1>1 DEF AdoptRead, AdoptCopy, AdoptLink, AdoptPin, EndTransfer, GotoThread, SetPart,
              SetSidecar
<1>2. CASE Check(p) \/ Open(p) \/ Write(p) \/ Vanish(p) \/ Return(p)
  BY <1>2 DEF Check, Open, Write, Vanish, Return, EndTransfer, GotoThread, SetPart
<1>3. CASE MarkComplete(p) \/ Disown(p) \/ Clean(p)
  BY <1>3 DEF MarkComplete, Disown, Clean, EndTransfer, GotoThread, SetPart, SetSidecar
<1>4. CASE Resolve(p) \/ Rejoin(p) \/ BackOff(p) \/ Awake(p) \/ Promote(p)
  BY <1>4 DEF Resolve, Rejoin, BackOff, Awake, Promote, SetPart, SetSidecar
<1>5. CASE Plan(p)
  <2>1. UNCHANGED <<location, copy>> /\ Pin(p)
    BY <1>5 DEF Plan
  <2>2. sidecar'[q] = sidecar[q]
    BY <2>1, PinIs
  <2>3. part'[q] = part[q] /\ pc'[q] = pc[q] /\ transfer'[q] = transfer[q]
    BY <1>5 DEF Plan, SetPart
  <2>4. thread'[q] = thread[q] /\ source'[q] = source[q]
    BY <1>5 DEF Plan, GotoThread
  <2> QED
    BY <2>1, <2>2, <2>3, <2>4
<1>6. CASE Raise(p) \/ Abandon(p) \/ Fall(p) \/ Die(p)
  BY <1>6 DEF Raise, Abandon, Fall, Die, GotoThread
<1> QED
  BY <1>1, <1>2, <1>3, <1>4, <1>5, <1>6 DEF Acts

\* So that only p itself has to be looked at.
Keeps(p) ==
    /\ Own(p)'
    /\ AllSteady => Steady' /\ SteadyOwn(p)'
    /\ AllLonely => Lonely' /\ LonelyOwn(p)'

LEMMA KeepsSound ==
  ASSUME TypeOK, Sound, NEW p \in Processes, Acts(p), Keeps(p)
  PROVE  Sound'
<1>1. \A q \in Processes : Own(q)'
  BY ActsApart, AloneKeeps DEF Sound, Keeps
<1>2. CASE AllSteady
  <2>1. \A q \in Processes : SteadyOwn(q)'
    BY <1>2, ActsApart, AloneKeeps DEF AllSteady, Keeps
  <2> QED
    BY <1>1, <1>2, <2>1 DEF Keeps, Sound, Regime, AllSteady
<1>3. CASE AllLonely
  <2>1. \A q \in Processes : LonelyOwn(q)'
    BY <1>3, ActsApart, AloneKeeps DEF AllLonely, Keeps
  <2> QED
    BY <1>1, <1>3, <2>1 DEF Keeps, Sound, Regime, AllLonely
<1> QED
  BY <1>1, <1>2, <1>3 DEF Sound, Regime

LEMMA CalmPolls ==
  ASSUME TypeOK, Sound, final = NoFile, NEW p \in Processes,
         Resolve(p) \/ Rejoin(p) \/ BackOff(p) \/ Awake(p) \/ Abandon(p)
  PROVE  Keeps(p)
<1> USE DEF TypeOK, Keeps, Own, Registered, Earned, Ready, Tidy, AllSteady, AllLonely, Steady,
            Lonely, SteadyOwn, LonelyOwn, Sound, Adopting, world
<1>1. CASE Resolve(p)
  BY <1>1 DEF Resolve
<1>2. CASE Rejoin(p)
  BY <1>2 DEF Rejoin
<1>3. CASE BackOff(p)
  BY <1>3 DEF BackOff
<1>4. CASE Awake(p)
  BY <1>4 DEF Awake
<1>5. CASE Abandon(p)
  BY <1>5 DEF Abandon
<1> QED
  BY <1>1, <1>2, <1>3, <1>4, <1>5

LEMMA FaultyPolls ==
  ASSUME TypeOK, Sound, NEW p \in Processes, Raise(p) \/ Fall(p) \/ Die(p)
  PROVE  Keeps(p)
<1> USE DEF TypeOK, Keeps, Own, Registered, Earned, Ready, Tidy, AllSteady, AllLonely, Steady,
            Lonely, SteadyOwn, LonelyOwn, Sound, Adopting
<1>1. CASE Raise(p)
  BY <1>1, FaultsStay DEF Raise, GotoThread
<1>2. CASE Fall(p)
  BY <1>2, FaultsStay DEF Fall, Strikes
<1>3. CASE Die(p)
  <2>1. ~Lonely
    BY <1>3 DEF Die, Strikes
  <2>2. Steady => Steady'
    BY <1>3, FaultsStay DEF Die
  <2>3. copy'[p] = NoCopy
    BY <1>3 DEF Die
  <2> QED
    BY <2>1, <2>2, <2>3, <1>3 DEF Die, GotoThread, NoCopy, Says, Blank, Of, Usable
<1> QED
  BY <1>1, <1>2, <1>3

LEMMA KeptThread ==
  ASSUME TypeOK, Sound, NEW p \in Processes,
         Check(p) \/ Open(p) \/ Vanish(p) \/ Return(p) \/ Disown(p) \/ Clean(p)
  PROVE  Keeps(p)
<1> USE DEF TypeOK, Keeps, Own, Registered, Earned, Ready, Tidy, AllSteady, AllLonely, Steady,
            Lonely, SteadyOwn, LonelyOwn, Sound, Adopting, world
<1>0. /\ part[p] \in Data \cup {NoFile}
      /\ location[p] \in Locations
      /\ Usable(part[p])
      /\ FaultsApart /\ thread[p] # "none" /\ thread[p] \notin Adopting
            => Of(part[p], location[p])
  BY WritesItsOwn
<1>00. /\ \A at : Of(NoFile, at)
       /\ Usable(NoFile) /\ ~Full(NoFile) /\ FinishedOrGone(NoFile)
  BY DEF Of, Usable, Full, FinishedOrGone
<1>1. CASE Check(p)
  <2>1. Verified(part[p], sidecar[p]) => FinishedOrGone(part[p])
    BY EarnedIsFinished DEF FinishedOrGone
  <2> QED
    BY <2>1, <1>00, <1>1 DEF Check, SetPart, GotoThread
<1>2. CASE Open(p)
  <2>1. Usable(<<>>) /\ \A at : Of(<<>>, at) /\ Genuine(<<>>, at)
    BY DEF Usable, Of, Genuine
  <2>2. part[p] # NoFile => Genuine(part[p], location[p])
    BY <1>0, <1>2, PartialIsGenuine DEF Open
  <2> QED
    BY <2>1, <2>2, <1>2 DEF Open, SetPart, GotoThread
<1>3. CASE Vanish(p)
  BY <1>3 DEF Vanish, EndTransfer, GotoThread
<1>4. CASE Return(p)
  <2>1. part[p] # NoFile /\ Full(part[p])
    BY <1>4 DEF Return, Full
  <2>2. FinishedOrGone(part[p])
    BY <2>1, <1>0, <1>4, GenuineIsFinished DEF Return, FinishedOrGone
  <2> QED
    BY <2>2, <1>4 DEF Return, GotoThread
<1>5. CASE Disown(p)
  BY <1>00, <1>5 DEF Disown, SetPart, EndTransfer, GotoThread
<1>6. CASE Clean(p)
  BY <1>00, <1>6 DEF Clean, SetSidecar, EndTransfer, GotoThread, Says, Blank
<1> QED
  BY <1>1, <1>2, <1>3, <1>4, <1>5, <1>6

LEMMA WriteKeeps ==
  ASSUME TypeOK, Sound, NEW p \in Processes, Write(p)
  PROVE  Keeps(p)
<1> USE DEF TypeOK, Keeps, Own, Registered, Earned, Ready, Tidy, AllSteady, AllLonely, Steady,
            Lonely, SteadyOwn, LonelyOwn, Sound, Adopting
<1>1. /\ part[p] \in Data
      /\ Len(part[p]) < Size
      /\ location[p] \in Locations
      /\ thread[p] = "write"
      /\ Genuine(part[p], location[p])
  BY DEF Write
<1>2. /\ Genuine(Append(part[p], location[p]), location[p])
      /\ Usable(Append(part[p], location[p]))
      /\ FaultsApart => Of(Append(part[p], location[p]), location[p])
      /\ Len(part[p]) = Size - 1 => /\ Usable(Append(part[p], Junk))
                                    /\ FaultsApart => Of(Append(part[p], Junk), location[p])
  BY <1>1, GenuineGrows
<1>3. /\ faults.deaths = 0 => faults'.deaths = 0
      /\ faults.stalls = 0 => faults'.stalls = 0
      /\ faults.regenerations = 0 => faults'.regenerations = 0
  BY FaultsStay DEF Write
<1>4. /\ UNCHANGED <<current, sidecar, final, pc, location, transfer, source, copy>>
      /\ quiet' = quiet \ {p}
      /\ \/ /\ part'[p] = Append(part[p], location[p])
            /\ UNCHANGED thread
         \/ /\ part'[p] = Append(part[p], Junk)
            /\ Len(part[p]) = Size - 1
            /\ thread'[p] = "raise"
  BY DEF Write, SetPart, GotoThread
<1>5. AllSteady => location[p] = 1
  OBVIOUS
<1>6. AllLonely => Says(sidecar[p]).location = location[p]
  BY <1>1
<1>7. Usable(part'[p]) /\ (FaultsApart => Of(part'[p], location[p]))
  BY <1>2, <1>4
<1>8. pc[p] # "promote" /\ transfer[p] = "live"
  BY <1>1
<1>9. Own(p)'
  BY <1>1, <1>2, <1>4, <1>7, <1>8
<1>10. AllSteady => Steady' /\ SteadyOwn(p)'
  BY <1>3, <1>4, <1>5, <1>7
<1>11. AllLonely => Lonely' /\ LonelyOwn(p)'
  BY <1>1, <1>3, <1>4, <1>6, <1>7
<1> QED
  BY <1>9, <1>10, <1>11

LEMMA MarkKeeps ==
  ASSUME TypeOK, Sound, NEW p \in Processes, MarkComplete(p)
  PROVE  Keeps(p)
<1> USE DEF TypeOK, Keeps, Own, Registered, Earned, Ready, Tidy, AllSteady, AllLonely, Steady,
            Lonely, SteadyOwn, LonelyOwn, Sound, Adopting, world
<1>1. CASE part[p] = NoFile
  BY <1>1 DEF MarkComplete, EndTransfer, GotoThread
<1>2. CASE part[p] # NoFile
  <2> DEFINE r == [Says(sidecar[p]) EXCEPT !.complete = TRUE, !.identity = part[p]]
  <2>1. /\ r.location = Says(sidecar[p]).location
        /\ r.identity = part[p]
        /\ r \in Sidecars
    BY <1>2, Records DEF Sidecars
  <2>2. Finished(part[p])
    BY <1>2 DEF MarkComplete, FinishedOrGone
  <2>3. sidecar' = [sidecar EXCEPT ![p] = r]
    BY <1>2 DEF MarkComplete, SetSidecar
  <2> HIDE DEF r
  <2>4. sidecar'[p] = r /\ Says(r) = r
    BY <2>1, <2>3, NoFileIsNone DEF Says
  <2> QED
    BY <2>1, <2>2, <2>4, <1>2 DEF MarkComplete, EndTransfer, GotoThread, FinishedOrGone
<1> QED
  BY <1>1, <1>2

LEMMA PinsFinished ==
  ASSUME NEW data \in Data \cup {NoFile}, NEW r \in Sidecars \cup {NoFile}, NEW at \in Locations,
         Says(r).complete => Finished(Says(r).identity)
  PROVE  /\ Kept(data, r, at) \in {data, NoFile}
         /\ Repinned(data, r, at) \in Sidecars
         /\ Repinned(data, r, at).complete => Finished(Repinned(data, r, at).identity)
<1> DEFINE new == Repinned(data, r, at)
<1>1. /\ Kept(data, r, at) \in {data, NoFile}
      /\ new \in Sidecars
      /\ new.complete => Says(r).complete
      /\ new.complete => new.identity = Says(r).identity
  BY Judgements
<1> HIDE DEF new
<1>2. new.complete => Finished(new.identity)
  BY <1>1
<1> QED
  BY <1>1, <1>2 DEF new

LEMMA AdoptKeeps ==
  ASSUME TypeOK, Sourced, Sound, NEW p \in Processes,
         AdoptRead(p) \/ AdoptCopy(p) \/ AdoptLink(p) \/ AdoptPin(p)
  PROVE  Keeps(p)
<1> USE DEF TypeOK, Keeps, Own, Registered, Ready, Tidy, AllSteady, Steady, SteadyOwn, Sound,
            Adopting, world
<1>0. /\ ~AllLonely
      /\ thread[p] \in Adopting /\ transfer[p] = "live" /\ pc[p] # "promote"
  BY DEF AdoptRead, AdoptCopy, AdoptLink, AdoptPin, AllLonely, LonelyOwn
<1>00. /\ part[p] \in Data \cup {NoFile}
       /\ sidecar[p] \in Sidecars \cup {NoFile}
       /\ location[p] \in Locations
       /\ copy[p] \in Copies
       /\ Earned(p)
       /\ Usable(part[p]) /\ Usable(copy[p].data)
  OBVIOUS
<1>1. CASE AdoptRead(p)
  <2> DEFINE q == source[p]
             record == [data |-> <<>>, sidecar |-> sidecar[q],
                        vouched |-> Verified(part[q], sidecar[q])]
  <2>1. q \in Processes /\ Earned(q)
    BY <1>1 DEF AdoptRead, Sourced
  <2>2. /\ Verified(part[q], sidecar[q]) => Says(sidecar[q]).complete
        /\ Of(<<>>, 1) /\ Usable(<<>>)
    BY DEF Verified, Of, Usable
  <2>3. /\ Says(record.sidecar).complete => Finished(Says(record.sidecar).identity)
        /\ record.vouched => Says(record.sidecar).complete
        /\ Of(record.data, 1) /\ Usable(record.data)
    BY <2>1, <2>2 DEF Earned
  <2>4. \/ copy' = copy /\ thread'[p] = "none" /\ transfer'[p] = "failed"
        \/ copy' = [copy EXCEPT ![p] = record] /\ thread'[p] = "copy" /\ UNCHANGED transfer
    BY <1>1 DEF AdoptRead, EndTransfer, GotoThread
  <2> HIDE DEF record
  <2>5. UNCHANGED <<current, faults, part, sidecar, quiet, final, pc, location, source>>
    BY <1>1 DEF AdoptRead
  <2> QED
    BY <1>0, <1>00, <2>3, <2>4, <2>5 DEF Earned
<1>2. CASE AdoptCopy(p)
  <2> DEFINE q == source[p]
             vouched == /\ copy[p].vouched
                        /\ sidecar[q] # NoFile
                        /\ copy[p].sidecar.identity = part[q]
             record == [copy[p] EXCEPT !.data = part[q], !.vouched = vouched]
  <2>1. q \in Processes /\ (AllSteady => Of(part[q], 1)) /\ Usable(part[q])
    BY <1>2 DEF AdoptCopy, Sourced
  <2>2. vouched => Finished(part[q])
    <3>1. HAVE vouched
    <3>2. Says(copy[p].sidecar).complete /\ Finished(Says(copy[p].sidecar).identity)
      BY <3>1, <1>00 DEF Earned
    <3>3. Says(copy[p].sidecar) = copy[p].sidecar
      BY <3>2 DEF Says, Blank
    <3> QED
      BY <3>1, <3>2, <3>3
  <2>3. vouched => copy[p].vouched
    OBVIOUS
  <2>4. UNCHANGED <<current, faults, part, sidecar, quiet, final, pc, location, source>>
    BY <1>2 DEF AdoptCopy
  <2>5. \/ copy' = copy /\ thread'[p] = "none" /\ transfer'[p] = "failed"
        \/ copy'[p] = record /\ thread'[p] = "link" /\ UNCHANGED transfer
    <3>1. CASE part[q] = NoFile
      BY <3>1, <1>2 DEF AdoptCopy, EndTransfer, GotoThread
    <3>2. CASE part[q] # NoFile
      <4>1. copy' = [copy EXCEPT ![p] = [@ EXCEPT !.data = part[q], !.vouched = vouched]]
        BY <3>2, <1>2, CopiedIs
      <4>2. thread'[p] = "link" /\ UNCHANGED transfer
        BY <3>2, <1>2 DEF AdoptCopy, GotoThread
      <4> HIDE DEF vouched
      <4> QED
        BY <4>1, <4>2
    <3> QED
      BY <3>1, <3>2
  <2> HIDE DEF vouched
  <2>6. /\ record.data = part[q]
        /\ record.sidecar = copy[p].sidecar
        /\ record.vouched = vouched
    BY <1>00 DEF Copies
  <2> HIDE DEF record
  <2> QED
    BY <1>0, <1>00, <2>1, <2>2, <2>3, <2>4, <2>5, <2>6 DEF Earned
<1>3. CASE AdoptLink(p)
  BY <1>0, <1>00, <1>3 DEF AdoptLink, SetPart, GotoThread, Earned
<1>4. CASE AdoptPin(p)
  <2> DEFINE adopted == AdoptedSidecar(p)
  <2>1. adopted \in Sidecars \cup {NoFile}
    BY <1>00 DEF AdoptedSidecar, Copies, Sidecars
  <2>2. Says(adopted).complete => Finished(Says(adopted).identity)
    <3>1. CASE copy[p].sidecar = NoFile
      BY <3>1, <1>00 DEF AdoptedSidecar, Earned
    <3>2. CASE copy[p].sidecar # NoFile
      <4>1. /\ copy[p].sidecar \in Sidecars
            /\ copy[p].data \in Data
            /\ adopted =
                 [copy[p].sidecar EXCEPT !.complete = copy[p].vouched, !.identity = copy[p].data]
        BY <3>2, <1>00 DEF AdoptedSidecar, Copies
      <4>2. adopted # NoFile
        BY <2>1, <4>1, <1>00, NoFileIsNone DEF Sidecars, Copies
      <4>3. Says(adopted) = adopted
        BY <4>2 DEF Says
      <4>4. adopted.complete = copy[p].vouched /\ adopted.identity = copy[p].data
        BY <4>1 DEF Sidecars
      <4>5. copy[p].vouched => Finished(copy[p].data)
        BY <1>00, <1>4 DEF Earned, AdoptPin
      <4> HIDE DEF adopted
      <4> QED
        BY <4>3, <4>4, <4>5
    <3> QED
      BY <3>1, <3>2
  <2> DEFINE kept == Kept(part[p], adopted, location[p])
             pinned == Repinned(part[p], adopted, location[p])
  <2>3. /\ kept \in {part[p], NoFile}
        /\ pinned \in Sidecars
        /\ pinned.complete => Finished(pinned.identity)
    BY <1>00, <2>1, <2>2, PinsFinished
  <2>4. Says(pinned) = pinned
    BY <2>3, NoFileIsNone DEF Says
  <2>5. /\ part' = [part EXCEPT ![p] = kept]
        /\ sidecar' = [sidecar EXCEPT ![p] = pinned]
        /\ copy' = [copy EXCEPT ![p] = NoCopy]
        /\ thread'[p] = "check"
        /\ UNCHANGED <<current, faults, quiet, final, pc, location, transfer>>
    BY <1>4 DEF AdoptPin, SetPart, SetSidecar, GotoThread
  <2> HIDE DEF kept, pinned
  <2> QED
    BY <1>0, <1>00, <2>3, <2>4, <2>5 DEF Earned, Of, Usable, NoCopy, Says, Blank
<1> QED
  BY <1>1, <1>2, <1>3, <1>4

LEMMA PlanKeeps ==
  ASSUME TypeOK, Sound, NEW p \in Processes, Plan(p)
  PROVE  Keeps(p)
<1> USE DEF TypeOK
<1>1. /\ transfer[p] # "live" /\ thread[p] = "none" /\ pc[p] = "plan"
      /\ Earned(p)
  BY DEF Plan, Sound, Own, Registered
<1>2. PICK r \in Sidecars :
            /\ sidecar' = [sidecar EXCEPT ![p] = r]
            /\ r.location = location[p]
            /\ r.complete => Says(sidecar[p]).complete
            /\ r.complete => r.identity = Says(sidecar[p]).identity
  BY PinIs DEF Plan
<1>3. sidecar'[p] = r /\ Says(r) = r
  BY <1>2, NoFileIsNone DEF Says
<1>4. /\ part'[p] = PlannedPart(p)
      /\ UNCHANGED <<current, faults, final, location, copy>>
      /\ quiet' \subseteq quiet
  BY DEF Plan, SetPart, world
<1>5. Earned(p)'
  <2>1. thread'[p] \notin {"link", "pin"}
    BY <1>1 DEF Plan, GotoThread
  <2> QED
    BY <1>1, <1>2, <1>3, <1>4, <2>1 DEF Earned
<1>6. /\ PlannedPart(p) \in {part[p], NoFile}
      /\ PlannedPart(p) # NoFile => Says(sidecar[p]).location = location[p]
      /\ Full(PlannedPart(p)) => FinishedOrGone(PlannedPart(p))
  BY <1>1, Planned, EarnedIsFinished DEF FinishedOrGone
<1>7. Registered(p)' /\ Ready(p)' /\ Tidy(p)'
  BY <1>1, <1>4, <1>6 DEF Plan, GotoThread, Registered, Ready, Tidy, Usable, Sound, Own
<1>8. AllSteady => Steady' /\ SteadyOwn(p)'
  BY <1>4, <1>6 DEF AllSteady, Steady, SteadyOwn, Of
<1>9. AllLonely => Lonely' /\ LonelyOwn(p)'
  <2>1. HAVE AllLonely
  <2>2. part[p] = NoFile => Foreign(p) = {}
    BY <2>1 DEF Plan, Live, AllLonely, Lonely
  <2>3. pc'[p] \notin {"dead", "done"} /\ thread'[p] \notin Adopting
    BY <1>1, <2>2 DEF Plan, GotoThread, Adopting
  <2>4. Of(part'[p], location[p])
    BY <2>1, <1>4, <1>6 DEF AllLonely, LonelyOwn, Of
  <2> QED
    BY <2>1, <2>3, <2>4, <1>2, <1>3, <1>4 DEF AllLonely, Lonely, LonelyOwn
<1> QED
  BY <1>5, <1>7, <1>8, <1>9 DEF Keeps, Own

LEMMA RemovalKeeps ==
  ASSUME TypeOK, Sound, NEW p \in Processes, RemoveQuiet(p)
  PROVE  Sound'
<1> USE DEF TypeOK, Own, Registered, Earned, Ready, Tidy
<1>1. PICK q \in quiet : /\ part' = [part EXCEPT ![q] = NoFile]
                         /\ sidecar' = [sidecar EXCEPT ![q] = NoFile]
  BY DEF RemoveQuiet, SetPart, SetSidecar
<1>2. /\ UNCHANGED <<current, faults, final, pc, location, transfer, thread, source, copy>>
      /\ quiet' \subseteq quiet
  BY DEF RemoveQuiet, world
<1>3. /\ \A at : Of(NoFile, at)
      /\ Usable(NoFile) /\ ~Full(NoFile) /\ FinishedOrGone(NoFile)
      /\ ~Says(NoFile).complete
  BY DEF Of, Usable, Full, FinishedOrGone, Says, Blank
<1>4. ASSUME NEW r \in Processes PROVE Own(r)'
  <2>1. Own(r)
    BY DEF Sound
  <2>2. CASE r = q
    BY <1>1, <1>2, <1>3, <2>1, <2>2
  <2>3. CASE r # q
    BY <1>1, <1>2, <2>1, <2>3
  <2> QED
    BY <2>2, <2>3
<1>5. AllSteady => AllSteady'
  BY <1>1, <1>2, <1>3 DEF AllSteady, Steady, SteadyOwn
<1>6. ~AllLonely
  BY <1>1 DEF AllLonely, Lonely
<1> QED
  BY <1>4, <1>5, <1>6 DEF Sound, Regime

LEMMA RegenerationKeeps ==
  ASSUME TypeOK, Sound, Regenerate
  PROVE  Sound'
<1>1. UNCHANGED <<part, sidecar, quiet, final, pc, location, transfer, thread, source, copy>>
  BY DEF Regenerate
<1>2. \A q \in Processes : Own(q)'
  BY <1>1, AloneKeeps DEF Sound, Alone
<1>3. ~AllSteady
  BY DEF AllSteady, Steady, Regenerate, Strikes
<1>4. ASSUME AllLonely PROVE AllLonely'
  <2>1. \A q \in Processes : LonelyOwn(q)'
    BY <1>1, <1>4, AloneKeeps DEF AllLonely, Alone
  <2>2. Lonely'
    BY <1>1, <1>4, FaultsStay DEF AllLonely, Lonely, Regenerate
  <2> QED
    BY <2>1, <2>2, <1>4 DEF AllLonely
<1> QED
  BY <1>2, <1>3, <1>4 DEF Sound, Regime

\* A promoter publishes what is finished, or finds nothing to publish.
LEMMA PromotionKeeps ==
  ASSUME TypeOK, Sound, final = NoFile, NEW p \in Processes, Promote(p)
  PROVE  PublishedIsFinished' /\ (final' = NoFile => Keeps(p))
<1>1. /\ FinishedOrGone(part[p]) /\ transfer[p] = "none" /\ thread[p] = "none"
      /\ Own(p)
  BY DEF Promote, Sound, Own, Ready, Registered, TypeOK
<1>2. /\ final' = part[p]
      /\ part'[p] = NoFile
      /\ sidecar'[p] = NoFile
      /\ pc'[p] = IF final' = NoFile THEN "idle" ELSE "done"
      /\ quiet' \subseteq quiet
      /\ UNCHANGED <<current, faults, location, transfer, thread, source, copy>>
  BY DEF Promote, SetPart, SetSidecar, TypeOK, world
<1>3. PublishedIsFinished'
  BY <1>1, <1>2 DEF PublishedIsFinished, FinishedOrGone
<1>4. /\ \A at : Of(NoFile, at)
      /\ Usable(NoFile)
      /\ ~Says(NoFile).complete
  BY DEF Of, Usable, Says, Blank
<1>5. Own(p)'
  BY <1>1, <1>2, <1>4 DEF Own, Registered, Earned, Ready, Tidy
<1>6. AllSteady => Steady' /\ SteadyOwn(p)'
  BY <1>2, <1>4 DEF AllSteady, Steady, SteadyOwn
<1>7. final' = NoFile /\ AllLonely => Lonely' /\ LonelyOwn(p)'
  BY <1>1, <1>2, <1>4 DEF AllLonely, Lonely, LonelyOwn, Adopting
<1> QED
  BY <1>3, <1>5, <1>6, <1>7 DEF Keeps


LEMMA SoundStep ==
  ASSUME TypeOK, Sourced, Sound, final = NoFile, Next
  PROVE  PublishedIsFinished' /\ (final' = NoFile => Sound')
<1>1. ASSUME NEW p \in Processes, Acts(p), Keeps(p), final' = final
      PROVE  PublishedIsFinished' /\ (final' = NoFile => Sound')
  BY <1>1, KeepsSound DEF PublishedIsFinished
<1>2. ASSUME NEW p \in Processes, Resolve(p) \/ Rejoin(p) \/ BackOff(p) \/ Awake(p) \/ Abandon(p)
      PROVE  Acts(p) /\ Keeps(p) /\ final' = final
  BY <1>2, CalmPolls DEF Acts, Resolve, Rejoin, BackOff, Awake, Abandon
<1>3. ASSUME NEW p \in Processes, Raise(p) \/ Fall(p) \/ Die(p)
      PROVE  Acts(p) /\ Keeps(p) /\ final' = final
  BY <1>3, FaultyPolls DEF Acts, Raise, Fall, Die
<1>4. ASSUME NEW p \in Processes,
             Check(p) \/ Open(p) \/ Vanish(p) \/ Return(p) \/ Disown(p) \/ Clean(p)
      PROVE  Acts(p) /\ Keeps(p) /\ final' = final
  BY <1>4, KeptThread DEF Acts, Check, Open, Vanish, Return, Disown, Clean
<1>5. ASSUME NEW p \in Processes, Write(p) \/ MarkComplete(p)
      PROVE  Acts(p) /\ Keeps(p) /\ final' = final
  BY <1>5, WriteKeeps, MarkKeeps DEF Acts, Write, MarkComplete
<1>6. ASSUME NEW p \in Processes,
             AdoptRead(p) \/ AdoptCopy(p) \/ AdoptLink(p) \/ AdoptPin(p)
      PROVE  Acts(p) /\ Keeps(p) /\ final' = final
  BY <1>6, AdoptKeeps DEF Acts, AdoptRead, AdoptCopy, AdoptLink, AdoptPin
<1>7. ASSUME NEW p \in Processes, Plan(p)
      PROVE  Acts(p) /\ Keeps(p) /\ final' = final
  BY <1>7, PlanKeeps DEF Acts, Plan
<1>8. ASSUME NEW p \in Processes, Promote(p)
      PROVE  PublishedIsFinished' /\ (final' = NoFile => Sound')
  BY <1>8, PromotionKeeps, KeepsSound DEF Acts
<1>9. ASSUME NEW p \in Processes, RemoveQuiet(p)
      PROVE  PublishedIsFinished' /\ (final' = NoFile => Sound')
  BY <1>9, RemovalKeeps DEF RemoveQuiet, PublishedIsFinished
<1>10. CASE Regenerate
  BY <1>10, RegenerationKeeps DEF Regenerate, PublishedIsFinished
<1> QED
  BY <1>1, <1>2, <1>3, <1>4, <1>5, <1>6, <1>7, <1>8, <1>9, <1>10 DEF Next, ThreadStep, Poll

\* A published file stays.
LEMMA FinalStays ==
  ASSUME TypeOK, final # NoFile, Next
  PROVE  final' = final
<1>1. ASSUME NEW p \in Processes, ThreadStep(p) PROVE final' = final
  BY <1>1 DEF ThreadStep, AdoptRead, AdoptCopy, AdoptLink, AdoptPin, Check, Open, Write,
              Vanish, Return, MarkComplete, Disown, Clean
<1>2. ASSUME NEW p \in Processes, Poll(p) PROVE final' = final
  BY <1>2 DEF Poll, Resolve, Rejoin, BackOff, Plan, Awake, Promote
<1>3. ASSUME NEW p \in Processes,
             Raise(p) \/ Abandon(p) \/ RemoveQuiet(p) \/ Fall(p) \/ Die(p)
      PROVE  final' = final
  BY <1>3 DEF Raise, Abandon, RemoveQuiet, Fall, Die
<1>4. CASE Regenerate
  BY <1>4 DEF Regenerate
<1> QED
  BY <1>1, <1>2, <1>3, <1>4 DEF Next

\* An adoption begins with a source, and keeps it until it has copied the bytes.
LEMMA SourcedStep ==
  ASSUME TypeOK, Sourced, Next
  PROVE  Sourced'
<1> USE DEF TypeOK, Sourced
<1>1. ASSUME NEW p \in Processes,
             AdoptRead(p) \/ AdoptCopy(p) \/ AdoptLink(p) \/ AdoptPin(p)
      PROVE  Sourced'
  BY <1>1 DEF AdoptRead, AdoptCopy, AdoptLink, AdoptPin, EndTransfer, GotoThread
<1>2. ASSUME NEW p \in Processes,
             \/ Check(p) \/ Open(p) \/ Write(p) \/ Vanish(p) \/ Return(p)
             \/ MarkComplete(p) \/ Disown(p) \/ Clean(p)
      PROVE  Sourced'
  BY <1>2 DEF Check, Open, Write, Vanish, Return, MarkComplete, Disown, Clean, EndTransfer,
              GotoThread
<1>3. ASSUME NEW p \in Processes,
             Resolve(p) \/ Rejoin(p) \/ BackOff(p) \/ Awake(p) \/ Promote(p)
      PROVE  Sourced'
  BY <1>3 DEF Resolve, Rejoin, BackOff, Awake, Promote
<1>4. ASSUME NEW p \in Processes, Plan(p) PROVE Sourced'
  BY <1>4 DEF Plan, GotoThread, Adoptable, Foreign
<1>5. ASSUME NEW p \in Processes,
             Raise(p) \/ Abandon(p) \/ RemoveQuiet(p) \/ Fall(p) \/ Die(p)
      PROVE  Sourced'
  BY <1>5 DEF Raise, Abandon, RemoveQuiet, Fall, Die, GotoThread
<1>6. CASE Regenerate
  BY <1>6 DEF Regenerate
<1> QED
  BY <1>1, <1>2, <1>3, <1>4, <1>5, <1>6 DEF Next, ThreadStep, Poll

LEMMA TypeStep ==
  ASSUME TypeOK, Sourced, Next
  PROVE  TypeOK'
<1>1. ASSUME NEW p \in Processes, ThreadStep(p) \/ Raise(p) PROVE TypeOK'
  BY <1>1, TypeAdopt, TypeThread DEF ThreadStep, Sourced
<1>2. ASSUME NEW p \in Processes, Poll(p) \/ Abandon(p) \/ RemoveQuiet(p) \/ Fall(p) PROVE TypeOK'
  BY <1>2, TypePoll, TypePlan, TypeFiles DEF Poll
<1>3. ASSUME NEW p \in Processes, Die(p) PROVE TypeOK'
  BY <1>3, TypeWorld
<1>4. CASE Regenerate
  BY <1>4, TypeWorld
<1> QED
  BY <1>1, <1>2, <1>3, <1>4 DEF Next

LEMMA InitInv ==
  ASSUME Init
  PROVE  IInv
<1>1. TypeOK
  BY EmptyData, Records, PartAssumption DEF Init, TypeOK
<1>2. Sourced
  BY DEF Init, Sourced
<1>0. \A p \in Processes :
         /\ part[p] = NoFile /\ sidecar[p] = NoFile /\ pc[p] = "idle" /\ location[p] = 1
         /\ transfer[p] = "none" /\ thread[p] = "none"
         /\ copy[p].data = <<>> /\ copy[p].sidecar = NoFile /\ ~copy[p].vouched
  BY DEF Init, NoCopy
<1>00. /\ \A at : Of(NoFile, at) /\ Of(<<>>, at)
       /\ Usable(NoFile) /\ Usable(<<>>)
       /\ ~Says(NoFile).complete
  BY DEF Of, Usable, Says, Blank
<1>3. \A p \in Processes : Own(p)
  BY <1>0, <1>00 DEF Own, Registered, Earned, Ready, Tidy
<1>4. FaultsApart => Regime
  <2>1. \A p \in Processes : SteadyOwn(p) /\ LonelyOwn(p)
    BY <1>0, <1>00 DEF SteadyOwn, LonelyOwn, Adopting
  <2>2. FaultsApart => Steady \/ Lonely
    BY DEF FaultsApart, Init, Steady, Lonely
  <2> QED
    BY <2>1, <2>2 DEF Regime, AllSteady, AllLonely
<1> QED
  BY <1>1, <1>2, <1>3, <1>4 DEF IInv, Sound, Init, PublishedIsFinished

LEMMA InvStep ==
  ASSUME IInv, [Next]_vars
  PROVE  IInv'
<1>1. CASE Next
  <2>1. TypeOK' /\ Sourced'
    BY <1>1, TypeStep, SourcedStep DEF IInv
  <2>2. CASE final = NoFile
    BY <1>1, <2>1, <2>2, SoundStep DEF IInv
  <2>3. CASE final # NoFile
    BY <1>1, <2>1, <2>3, FinalStays DEF IInv, PublishedIsFinished
  <2> QED
    BY <2>2, <2>3
<1>2. CASE UNCHANGED vars
  <2>1. TypeOK' /\ Sourced' /\ PublishedIsFinished'
    BY <1>2 DEF vars, IInv, TypeOK, Sourced, PublishedIsFinished
  <2>2. ASSUME Sound PROVE Sound'
    <3>1. \A q \in Processes : Alone(q)
      BY <1>2 DEF vars, Alone
    <3>2. \A q \in Processes : Own(q)'
      BY <2>2, <3>1, AloneKeeps DEF Sound
    <3>3. AllSteady => AllSteady'
      BY <1>2, <3>1, AloneKeeps DEF AllSteady, Steady, vars
    <3>4. AllLonely => AllLonely'
      BY <1>2, <3>1, AloneKeeps DEF AllLonely, Lonely, vars
    <3> QED
      BY <2>2, <3>2, <3>3, <3>4 DEF Sound, Regime
  <2> QED
    BY <1>2, <2>1, <2>2 DEF IInv, vars
<1> QED
  BY <1>1, <1>2

LEMMA Invariance == Spec => []IInv
<1>1. Init => IInv
  BY InitInv
<1>2. IInv /\ [Next]_vars => IInv'
  BY InvStep
<1> QED
  BY <1>1, <1>2, PTL DEF Spec

-----------------------------------------------------------------------------
\* Any number of processes, blocks, deaths, stalls, regenerations and failures keeps the
\* files and memories of the transfers within their types.
THEOREM TypeCorrect == Spec => []TypeOK
<1>1. IInv => TypeOK
  BY DEF IInv
<1> QED
  BY <1>1, Invariance, PTL

\* Whatever faults come together, the request never gets a prefix of its result or a
\* file that ends in what a failed transfer wrote: publish_request_file is reached only
\* with a part some transfer returned with.
PublishedIsComplete ==
    final # NoFile => Full(final) /\ \A i \in 1..Size : final[i] # Junk

THEOREM CompletePublished == Spec => []PublishedIsComplete
<1>1. IInv => PublishedIsComplete
  BY DEF IInv, PublishedIsFinished, Finished, PublishedIsComplete
<1> QED
  BY <1>1, Invariance, PTL

\* As long as results are regenerated, or processes die and stall, but not both, what is
\* published is one whole result: no part is continued with another location's bytes.
THEOREM WholePublished ==
  ASSUME FaultsApart
  PROVE  Spec => []PublishedIsWhole
<1>1. IInv => PublishedIsWhole
  BY DEF IInv, PublishedIsFinished, Finished, PublishedIsWhole
<1> QED
  BY <1>1, Invariance, PTL

\* And until then every sidecar that vouches for a part vouches for one whole result.
THEOREM FlagsTrue ==
  ASSUME FaultsApart
  PROVE  Spec => []Vouched
<1>1. IInv => Vouched
  BY EarnedIsFinished DEF IInv, Sound, Own, Finished, FlagsAreEarned, Vouched
<1> QED
  BY <1>1, Invariance, PTL

=============================================================================
