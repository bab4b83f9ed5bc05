----------------------------- MODULE PartTransfer -----------------------------
(***************************************************************************)
(* The resumable transfer of one finished CDS request (backends/cds/       *)
(* backend.py): every process appends to a part file of its own, whose     *)
(* sidecar pins the result it is a prefix of and, once a transfer has      *)
(* returned, that it is complete.  A process takes over the part of a dead *)
(* one by copying it, and promotes a complete part to the request's file.  *)
(*                                                                         *)
(* A restarted process is a new one.  A result is Size blocks long; a block*)
(* is named by the location it came from, or Junk.  The identity a sidecar *)
(* vouches for (inode, size, mtime) is the data itself.                    *)
(***************************************************************************)
EXTENDS Naturals, Sequences

CONSTANTS Processes, Nobody,
          Locations,  \* result URLs, in the order CDS regenerates them: 1..n
          Size,       \* blocks of the result
          NoFile, Junk,
          Faults      \* how often a behaviour may meet each fault

ASSUME PartAssumption ==
    /\ Nobody \notin Processes
    /\ Size \in Nat \ {0}
    /\ Locations \subseteq Nat \ {0}   \* 0 is the location of a sidecar that pins none
    /\ 1 \in Locations
    /\ Junk \notin Locations
    /\ Faults \subseteq [deaths: Nat, regenerations: Nat, failures: Nat, stalls: Nat]

VARIABLES
    current,   \* the location the result has now
    faults,    \* faults left
    part,      \* process -> data of its part
    sidecar,   \* process -> sidecar of its part
    quiet,     \* parts not written for _FOREIGN_PART_LIVE_SECONDS
    final,     \* data of the file published for the request
    pc,        \* process -> next step of its finaliser
    location,  \* process -> the location its handle names
    transfer,  \* process -> its entry in _part_transfers
    thread,    \* process -> next step of its transfer thread
    source,    \* process -> owner of the part it copies
    copy       \* process -> what it has copied: data, sidecar, vouched

vars == <<current, faults, part, sidecar, quiet, final, pc, location,
          transfer, thread, source, copy>>
world == <<current, faults>>

Data == UNION {[1..n -> Locations \cup {Junk}] : n \in 0..Size}
Blank == [location |-> 0, complete |-> FALSE, identity |-> <<>>]
Sidecars == [location: Locations \cup {0}, complete: BOOLEAN, identity: Data]
Copies == [data: Data, sidecar: Sidecars \cup {NoFile}, vouched: BOOLEAN]
NoCopy == [data |-> <<>>, sidecar |-> NoFile, vouched |-> FALSE]

ASSUME AbsenceAssumption == NoFile \notin Data \cup Sidecars

TypeOK ==
    /\ current \in Locations
    /\ faults \in [deaths: Nat, regenerations: Nat, failures: Nat, stalls: Nat]
    /\ part \in [Processes -> Data \cup {NoFile}]
    /\ sidecar \in [Processes -> Sidecars \cup {NoFile}]
    /\ quiet \subseteq Processes
    /\ final \in Data \cup {NoFile}
    /\ pc \in [Processes -> {"idle", "plan", "await", "promote", "done", "dead"}]
    /\ location \in [Processes -> Locations]
    /\ transfer \in [Processes -> {"none", "live", "ok", "failed"}]
    /\ thread \in [Processes -> {"none", "adopt", "copy", "link", "pin", "check", "open",
                                 "write", "raise", "mark", "clean"}]
    /\ source \in [Processes -> Processes \cup {Nobody}]
    /\ copy \in [Processes -> Copies]

Init ==
    /\ current = 1
    /\ faults \in Faults
    /\ part = [p \in Processes |-> NoFile]
    /\ sidecar = [p \in Processes |-> NoFile]
    /\ quiet = {}
    /\ final = NoFile
    /\ pc = [p \in Processes |-> "idle"]
    /\ location = [p \in Processes |-> 1]
    /\ transfer = [p \in Processes |-> "none"]
    /\ thread = [p \in Processes |-> "none"]
    /\ source = [p \in Processes |-> Nobody]
    /\ copy = [p \in Processes |-> NoCopy]

----------------------------------------------------------------------------
Full(data) == data # NoFile /\ Len(data) = Size

\* A copied or read sidecar that is missing says nothing.
Says(record) == IF record = NoFile THEN Blank ELSE record

\* _part_verified: the flag counts for the very data it was written for.
Verified(data, record) ==
    Says(record).complete /\ data # NoFile /\ Says(record).identity = data

\* Mutant of Kept: parts of equal size are taken for the same result.
KeptBySize(data, record, at) == data

\* _validate_or_reset_part: a part pinned to another result is dropped.
Kept(data, record, at) ==
    IF data # NoFile /\ Says(record).location = at THEN data ELSE NoFile

Repinned(data, record, at) ==
    IF Kept(data, record, at) # NoFile
    THEN [Says(record) EXCEPT !.location = at]
    ELSE [Blank EXCEPT !.location = at]

SetPart(p, data) == part' = [part EXCEPT ![p] = data]
SetSidecar(p, record) == sidecar' = [sidecar EXCEPT ![p] = record]
Strikes(fault) ==
    /\ faults[fault] > 0
    /\ faults' = [faults EXCEPT ![fault] = @ - 1]
GotoThread(p, s) == thread' = [thread EXCEPT ![p] = s]
EndTransfer(p, how) ==
    /\ transfer' = [transfer EXCEPT ![p] = how]
    /\ GotoThread(p, "none")

----------------------------------------------------------------------------
(* The finaliser.                                                          *)

\* The handle of the result, unless the request's file is there already.
Resolve(p) ==
    /\ pc[p] = "idle"
    /\ IF final # NoFile
       THEN pc' = [pc EXCEPT ![p] = "done"] /\ UNCHANGED location
       ELSE /\ pc' = [pc EXCEPT ![p] = "plan"]
            /\ location' = [location EXCEPT
                   ![p] = IF transfer[p] = "live" THEN @ ELSE current]
    /\ UNCHANGED <<world, part, sidecar, quiet, final, transfer, thread, source, copy>>

Foreign(p) == {q \in Processes \ {p} : part[q] # NoFile}

\* The largest foreign part is worth the most.
Adoptable(p) ==
    {q \in Foreign(p) : \A r \in Foreign(p) : Len(part[r]) <= Len(part[q])}

\* The own part after the checks of _plan_part_transfer: pinned to another
\* result, left full by a failed transfer, or full and not verified, it goes.
PlannedPart(p) ==
    LET kept == Kept(part[p], sidecar[p], location[p]) IN
    IF Full(kept) /\ (transfer[p] = "failed" \/ ~Verified(kept, sidecar[p]))
    THEN NoFile ELSE kept

Pin(p) == SetSidecar(p, IF PlannedPart(p) = NoFile
                        THEN [Blank EXCEPT !.location = location[p]]
                        ELSE Repinned(part[p], sidecar[p], location[p]))

\* This process's own live transfer is awaited again.
Rejoin(p) ==
    /\ pc[p] = "plan"
    /\ transfer[p] = "live"
    /\ pc' = [pc EXCEPT ![p] = "await"]
    /\ UNCHANGED <<world, part, sidecar, quiet, final, location, transfer, thread, source, copy>>

\* Mutant of Live: any part has.
EverLive(q) == TRUE

\* A part somebody wrote to lately has a live writer.
Live(q) == q \notin quiet

\* Beside the part another process is writing, this one backs off.
BackOff(p) ==
    /\ pc[p] = "plan"
    /\ transfer[p] # "live"
    /\ part[p] = NoFile
    /\ \E q \in Foreign(p) : Live(q)
    /\ pc' = [pc EXCEPT ![p] = "idle"]
    /\ transfer' = [transfer EXCEPT ![p] = "none"]
    /\ UNCHANGED <<world, part, sidecar, quiet, final, location, thread, source, copy>>

\* _plan_part_transfer otherwise: a complete part, or a new transfer, which
\* begins with a copy if there is only another process's part.
Plan(p) ==
    /\ pc[p] = "plan"
    /\ transfer[p] # "live"
    /\ part[p] = NoFile => \A q \in Foreign(p) : ~Live(q)
    /\ SetPart(p, PlannedPart(p))
    /\ Pin(p)
    /\ quiet' = IF PlannedPart(p) = NoFile THEN quiet \ {p} ELSE quiet
    /\ IF Full(PlannedPart(p))
       THEN /\ pc' = [pc EXCEPT ![p] = "promote"]
            /\ transfer' = [transfer EXCEPT ![p] = "none"]
            /\ UNCHANGED <<thread, source>>
       ELSE /\ pc' = [pc EXCEPT ![p] = "await"]
            /\ transfer' = [transfer EXCEPT ![p] = "live"]
            /\ IF part[p] = NoFile /\ Foreign(p) # {}
               THEN \E q \in Adoptable(p) :
                       source' = [source EXCEPT ![p] = q] /\ GotoThread(p, "adopt")
               ELSE UNCHANGED source /\ GotoThread(p, "check")
    /\ UNCHANGED <<world, final, location, copy>>

\* The awaiter of a transfer, or its poll, is cancelled; the thread goes on.
Abandon(p) ==
    /\ pc[p] = "await"
    /\ transfer[p] = "live"
    /\ pc' = [pc EXCEPT ![p] = "idle"]
    /\ UNCHANGED <<world, part, sidecar, quiet, final, location, transfer, thread, source, copy>>

\* A transfer that returned is promoted; one that raised ends this finaliser.
Awake(p) ==
    /\ pc[p] = "await"
    /\ transfer[p] \in {"ok", "failed"}
    /\ pc' = [pc EXCEPT ![p] = IF transfer[p] = "ok" THEN "promote" ELSE "idle"]
    /\ transfer' = [transfer EXCEPT ![p] = IF @ = "ok" THEN "none" ELSE @]
    /\ UNCHANGED <<world, part, sidecar, quiet, final, location, thread, source, copy>>

\* publish_request_file links the part to the request's name; whoever comes
\* second uses what is there.  A part that is gone ends the finaliser.
Promote(p) ==
    /\ pc[p] = "promote"
    /\ final' = IF final = NoFile THEN part[p] ELSE final
    /\ pc' = [pc EXCEPT ![p] = IF final' = NoFile THEN "idle" ELSE "done"]
    /\ SetPart(p, NoFile)
    /\ SetSidecar(p, NoFile)
    /\ quiet' = quiet \ {p}
    /\ UNCHANGED <<world, location, transfer, thread, source, copy>>

\* After the row is successful, parts nobody has written lately are removed; a
\* part older than a week is swept by any process but its live writer's.
RemoveQuiet(p) ==
    /\ pc[p] \in {"plan", "done"}
    /\ \E q \in quiet :
          /\ part[q] # NoFile
          /\ q = p => transfer[p] # "live"
          /\ SetPart(q, NoFile)
          /\ SetSidecar(q, NoFile)
          /\ quiet' = quiet \ {q}
    /\ UNCHANGED <<world, final, pc, location, transfer, thread, source, copy>>

----------------------------------------------------------------------------
(* The transfer thread.                                                    *)

\* _adopt_foreign_part: what the foreign sidecar says, then the bytes ...
AdoptRead(p) ==
    LET q == source[p] IN
    /\ thread[p] = "adopt"
    /\ IF part[q] = NoFile
       THEN EndTransfer(p, "failed") /\ UNCHANGED copy
       ELSE /\ copy' = [copy EXCEPT ![p] =
                   [data |-> <<>>, sidecar |-> sidecar[q],
                    vouched |-> Verified(part[q], sidecar[q])]]
            /\ GotoThread(p, "copy")
            /\ UNCHANGED transfer
    /\ UNCHANGED <<world, part, sidecar, quiet, final, pc, location, source>>

AdoptCopy(p) ==
    LET q == source[p] IN
    /\ thread[p] = "copy"
    /\ IF part[q] = NoFile
       THEN EndTransfer(p, "failed") /\ UNCHANGED copy
       ELSE /\ copy' = [copy EXCEPT
                   ![p].data = part[q],
                   ![p].vouched = @ /\ sidecar[q] # NoFile /\ copy[p].sidecar.identity = part[q]]
            /\ GotoThread(p, "link")
            /\ UNCHANGED transfer
    /\ UNCHANGED <<world, part, sidecar, quiet, final, pc, location, source>>

\* ... which appear under the own name in one step, never over a part ...
AdoptLink(p) ==
    /\ thread[p] = "link"
    /\ SetPart(p, IF part[p] = NoFile THEN copy[p].data ELSE part[p])
    /\ GotoThread(p, IF part[p] = NoFile THEN "pin" ELSE "check")
    /\ quiet' = quiet \ {p}
    /\ UNCHANGED <<world, sidecar, final, pc, location, transfer, source, copy>>

\* Mutant of AdoptedSidecar: the flag is inherited as it is read.
InheritFlag(p) ==
    IF copy[p].sidecar = NoFile
    THEN sidecar[p]
    ELSE [copy[p].sidecar EXCEPT !.identity = copy[p].data]

\* ... and then the sidecar, if there was one; both are validated at once.
AdoptedSidecar(p) ==
    IF copy[p].sidecar = NoFile
    THEN sidecar[p]
    ELSE [copy[p].sidecar EXCEPT !.complete = copy[p].vouched, !.identity = copy[p].data]

AdoptPin(p) ==
    /\ thread[p] = "pin"
    /\ SetPart(p, Kept(part[p], AdoptedSidecar(p), location[p]))
    /\ SetSidecar(p, Repinned(part[p], AdoptedSidecar(p), location[p]))
    /\ copy' = [copy EXCEPT ![p] = NoCopy]
    /\ source' = [source EXCEPT ![p] = Nobody]
    /\ GotoThread(p, "check")
    /\ UNCHANGED <<world, quiet, final, pc, location, transfer>>

\* _resumable_download begins: a verified whole part needs no transfer, an
\* unverified one starts over.
Check(p) ==
    /\ thread[p] = "check"
    /\ IF Full(part[p])
       THEN IF Verified(part[p], sidecar[p])
            THEN GotoThread(p, "mark") /\ UNCHANGED part
            ELSE GotoThread(p, "open") /\ SetPart(p, NoFile)
       ELSE GotoThread(p, "open") /\ UNCHANGED part
    /\ UNCHANGED <<world, sidecar, quiet, final, pc, location, transfer, source, copy>>

\* multiurl.download appends to the part, or creates it.
Open(p) ==
    /\ thread[p] = "open"
    /\ SetPart(p, IF part[p] = NoFile THEN <<>> ELSE part[p])
    /\ GotoThread(p, "write")
    /\ quiet' = quiet \ {p}
    /\ UNCHANGED <<world, sidecar, final, pc, location, transfer, source, copy>>

\* The next block; the last one may be wrong in a transfer that then raises.
Write(p) ==
    /\ thread[p] = "write"
    /\ part[p] # NoFile
    /\ Len(part[p]) < Size
    /\ \/ /\ SetPart(p, Append(part[p], location[p]))
          /\ UNCHANGED <<thread, faults>>
       \/ /\ Len(part[p]) = Size - 1
          /\ Strikes("failures")
          /\ SetPart(p, Append(part[p], Junk))
          /\ GotoThread(p, "raise")
    /\ quiet' = quiet \ {p}
    /\ UNCHANGED <<current, sidecar, final, pc, location, transfer, source, copy>>

\* The network gives out.
Raise(p) ==
    /\ thread[p] = "write"
    /\ Strikes("failures")
    /\ GotoThread(p, "raise")
    /\ UNCHANGED <<current, part, sidecar, quiet, final, pc, location, transfer,
                   source, copy>>

\* The part was removed under the writer: it notices by the path, at the end.
Vanish(p) ==
    /\ thread[p] = "write"
    /\ part[p] = NoFile
    /\ EndTransfer(p, "failed")
    /\ UNCHANGED <<world, part, sidecar, quiet, final, pc, location, source, copy>>

\* The transfer returns with the expected size.
Return(p) ==
    /\ thread[p] = "write"
    /\ Full(part[p])
    /\ GotoThread(p, "mark")
    /\ UNCHANGED <<world, part, sidecar, quiet, final, pc, location, transfer, source, copy>>

\* _mark_part_complete binds the flag to the part as it is now.
MarkComplete(p) ==
    /\ thread[p] = "mark"
    /\ IF part[p] = NoFile
       THEN EndTransfer(p, "failed") /\ UNCHANGED sidecar
       ELSE /\ SetSidecar(p, [Says(sidecar[p]) EXCEPT !.complete = TRUE, !.identity = part[p]])
            /\ EndTransfer(p, "ok")
    /\ UNCHANGED <<world, part, quiet, final, pc, location, source, copy>>

\* _disown_complete_looking_part: a transfer that raised removes a full part,
\* then its sidecar.
Disowned(data) == Full(data)

Disown(p) ==
    /\ thread[p] = "raise"
    /\ IF Disowned(part[p])
       THEN SetPart(p, NoFile) /\ GotoThread(p, "clean") /\ UNCHANGED transfer
       ELSE UNCHANGED part /\ EndTransfer(p, "failed")
    /\ UNCHANGED <<world, sidecar, quiet, final, pc, location, source, copy>>

Clean(p) ==
    /\ thread[p] = "clean"
    /\ SetSidecar(p, NoFile)
    /\ EndTransfer(p, "failed")
    /\ UNCHANGED <<world, part, quiet, final, pc, location, source, copy>>

----------------------------------------------------------------------------
(* The surroundings.                                                       *)

\* Ninety seconds without a write: the writer is gone, or it stalls.
Fall(p) ==
    /\ part[p] # NoFile
    /\ p \notin quiet
    /\ quiet' = quiet \cup {p}
    /\ \/ pc[p] \in {"dead", "done"} /\ UNCHANGED faults
       \/ pc[p] \notin {"dead", "done"} /\ Strikes("stalls")
    /\ UNCHANGED <<current, part, sidecar, final, pc, location, transfer, thread, source, copy>>

\* CDS makes the result anew, at another location and of the same size.
Regenerate ==
    /\ Strikes("regenerations")
    /\ current + 1 \in Locations
    /\ current' = current + 1
    /\ UNCHANGED <<part, sidecar, quiet, final, pc, location, transfer, thread,
                   source, copy>>

\* The process dies with its thread; its files stay.
Die(p) ==
    /\ pc[p] \notin {"done", "dead"}
    /\ Strikes("deaths")
    /\ pc' = [pc EXCEPT ![p] = "dead"]
    /\ transfer' = [transfer EXCEPT ![p] = "none"]
    /\ GotoThread(p, "none")
    /\ copy' = [copy EXCEPT ![p] = NoCopy]
    /\ source' = [source EXCEPT ![p] = Nobody]
    /\ UNCHANGED <<current, part, sidecar, quiet, final, location>>

----------------------------------------------------------------------------
ThreadStep(p) ==
    \/ AdoptRead(p) \/ AdoptCopy(p) \/ AdoptLink(p) \/ AdoptPin(p)
    \/ Check(p) \/ Open(p) \/ Write(p) \/ Vanish(p) \/ Return(p)
    \/ MarkComplete(p) \/ Disown(p) \/ Clean(p)

Poll(p) == Resolve(p) \/ Rejoin(p) \/ BackOff(p) \/ Plan(p) \/ Awake(p) \/ Promote(p)

Next ==
    \/ \E p \in Processes :
          ThreadStep(p) \/ Poll(p) \/ Raise(p) \/ Abandon(p) \/ RemoveQuiet(p) \/ Fall(p) \/ Die(p)
    \/ Regenerate

Spec == Init /\ [][Next]_vars

\* Live processes poll again and again, threads run, and time passes.
FairSpec ==
    /\ Spec
    /\ \A p \in Processes :
          /\ WF_vars(ThreadStep(p)) /\ WF_vars(Poll(p))
          /\ WF_vars(Fall(p) /\ pc[p] \in {"dead", "done"})

----------------------------------------------------------------------------
\* What is published for the request is one whole result, as CDS had it at one
\* location: never a prefix of one continued with another, nor bytes a failed
\* transfer left.
Whole(data) == Full(data) /\ \E at \in Locations : \A i \in 1..Size : data[i] = at

PublishedIsWhole == final # NoFile => Whole(final)

\* Until the request has its file, a sidecar never vouches for bytes no transfer
\* returned with.  (Afterwards the remover of quiet parts may take the sidecar from
\* under a process that is still writing, and a third one adopt the bytes without
\* a pin: nobody promotes them any more.)
FlagsAreEarned ==
    final = NoFile =>
        \A p \in Processes : Verified(part[p], sidecar[p]) => Whole(part[p])

\* With the types of the variables: every sidecar tells the truth of its part.
Vouched == TypeOK /\ FlagsAreEarned

\* The part of a dead or stalled process never keeps the others from delivering
\* the result, as long as one of them lives.
Delivered == <>(final # NoFile \/ \A p \in Processes : pc[p] = "dead")
=============================================================================
