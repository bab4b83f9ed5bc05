------------------------------- MODULE Finalise -------------------------------
(***************************************************************************)
(* The result file of a finished CDS request: how it is published and      *)
(* registered with the request's row, evicted, cancelled away, and given   *)
(* back to a delivered request that lost it (backends/cds/backend.py,      *)
(* cache/manager.py, persistence/sqlite_backend.py).                       *)
(*                                                                         *)
(* All Requests share one cache key, as a request and its force-refreshed  *)
(* repetitions do.  A Process runs one operation at a time; the locks of   *)
(* the code are per process, so that between processes only a database     *)
(* transaction or a file system call is atomic, and each is one action.    *)
(***************************************************************************)
EXTENDS Naturals, Sequences

CONSTANTS Requests,   \* requests with this cache key
          Processes,  \* servers and one-shot calls
          NoPath,     \* no file
          MaxNames,   \* bound on the fresh names of re-fetched files
          MaxClaims,  \* bound on the evictions and losses of files
          Losable,    \* whether published files may be deleted by hand
          Duties,     \* process -> the operations it performs
          Mortal      \* processes that may be killed between two steps

Operations == {"finalise", "cancel", "fetch", "evict"}

\* A published file's name is the request's own (number 0) or a fresh one.
Paths == [req: Requests, name: 0..MaxNames]
Original(r) == [req |-> r, name |-> 0]

ASSUME FinaliseAssumption ==
    /\ MaxNames \in Nat
    /\ MaxClaims \in Nat
    /\ Losable \in BOOLEAN
    /\ Requests # {}
    /\ NoPath \notin Paths \cup Requests
    /\ Duties \in [Processes -> SUBSET Operations]
    /\ Mortal \subseteq Processes

VARIABLES
    row,    \* status column of each request's row ("pending" = queued, running)
    job,    \* what CDS says of the job
    entry,  \* file_path of the cache entry of the key, or NoPath
    tombs,  \* cache_evictions of the key, oldest first
    files,  \* the published files that exist
    names,  \* fresh names drawn so far
    claims, \* evictions begun, and files lost, so far
    pc,     \* next step of each process
    req,    \* the request it works on
    path,   \* the file it is about to register
    src,    \* the file it removes after a commit: superseded, or adopted
    victim, \* the file of the entry it is evicting
    doomed  \* the path its repair must not adopt

vars  == <<row, job, entry, tombs, files, names, claims, pc, req, path, src, victim, doomed>>
disk  == <<job, files, names, claims>>
store == <<row, entry, tombs>>
local == <<req, path, src, victim, doomed>>

Steps == {"idle", "dead", "check", "find", "download", "publish", "fail", "size",
          "register", "supersede", "lost", "enforce", "evict", "unlink", "discard",
          "lookup", "tomb", "adopt", "adopt_fresh", "link", "linked", "gone",
          "refetch", "stat", "repair", "yield", "retire"}

\* A tombstone: the path, and whether its evictor goes on to remove the file.
Tombs == [path: Paths, claimed: BOOLEAN]

TypeOK ==
    /\ row \in [Requests -> {"pending", "successful", "failed", "cancelled"}]
    /\ job \in [Requests -> {"running", "done", "failed", "cancelled"}]
    /\ entry \in Paths \cup {NoPath}
    /\ tombs \in Seq(Tombs)
    /\ files \in SUBSET Paths
    /\ names \in 0..MaxNames
    /\ claims \in 0..MaxClaims
    /\ pc \in [Processes -> Steps]
    /\ req \in [Processes -> Requests]
    /\ path \in [Processes -> Paths \cup {NoPath}]
    /\ src \in [Processes -> Paths \cup {NoPath}]
    /\ victim \in [Processes -> Paths \cup {NoPath}]
    /\ doomed \in [Processes -> Paths \cup {NoPath}]

Init ==
    /\ row = [r \in Requests |-> "pending"]
    /\ job = [r \in Requests |-> "running"]
    /\ entry = NoPath
    /\ tombs = <<>>
    /\ files = {}
    /\ names = 0
    /\ claims = 0
    /\ pc = [p \in Processes |-> "idle"]
    /\ req = [p \in Processes |-> CHOOSE r \in Requests : TRUE]
    /\ path = [p \in Processes |-> NoPath]
    /\ src = [p \in Processes |-> NoPath]
    /\ victim = [p \in Processes |-> NoPath]
    /\ doomed = [p \in Processes |-> NoPath]

-----------------------------------------------------------------------------

Goto(p, step) == pc' = [pc EXCEPT ![p] = step]

\* An operation is over: nothing it held in memory matters any more.
Finish(p) ==
    /\ Goto(p, "idle")
    /\ path' = [path EXCEPT ![p] = NoPath]
    /\ src' = [src EXCEPT ![p] = NoPath]
    /\ victim' = [victim EXCEPT ![p] = NoPath]
    /\ doomed' = [doomed EXCEPT ![p] = NoPath]
    /\ UNCHANGED req

\* update_workflow_status_if_pending, update_workflow_error_if_pending.
SettleRow(r, s) == row' = IF row[r] = "pending" THEN [row EXCEPT ![r] = s] ELSE row

\* The entry goes, and a tombstone is left.
EvictEntry(claimed) ==
    /\ entry' = NoPath
    /\ tombs' = Append(tombs, [path |-> entry, claimed |-> claimed])

\* evict_cache_entry_if_matches: nothing happens if the entry names another path by
\* now.  (Within one key a path is registered at most once, so that the generation
\* adds nothing.)
EvictIfMatches(f, claimed) ==
    \/ entry = f /\ EvictEntry(claimed)
    \/ entry # f /\ UNCHANGED <<entry, tombs>>

\* lookup_entry: an entry whose file is missing is evicted on the spot.
Served == entry # NoPath /\ entry \in files
LookUp ==
    \/ Served /\ UNCHANGED <<entry, tombs>>
    \/ entry = NoPath /\ UNCHANGED <<entry, tombs>>
    \/ entry # NoPath /\ ~Served /\ EvictEntry(FALSE)

\* The files of r under fresh names.
Named(r) == {f \in files : f.req = r /\ f.name > 0}

-----------------------------------------------------------------------------
(* Following a pending request (_poll_and_maybe_finalise).                 *)

\* CDS reports a failed or dismissed job: _record_terminal.  The row was pending
\* when the poll began, and may be anything by now.
RecordFailure(p, r) ==
    /\ "finalise" \in Duties[p]
    /\ pc[p] = "idle" /\ job[r] \in {"failed", "cancelled"}
    /\ SettleRow(r, job[r])
    /\ UNCHANGED <<entry, tombs, disk, pc, local>>

\* CDS reports a finished job: a finalise is started.
StartFinalise(p, r) ==
    /\ "finalise" \in Duties[p]
    /\ pc[p] = "idle" /\ row[r] = "pending" /\ job[r] = "done"
    /\ Goto(p, "check")
    /\ req' = [req EXCEPT ![p] = r]
    /\ UNCHANGED <<store, disk, path, src, victim, doomed>>

\* Re-check of the row under the finalise lock.
Check(p) ==
    /\ pc[p] = "check"
    /\ \/ row[req[p]] = "pending" /\ Goto(p, "find") /\ UNCHANGED local
       \/ row[req[p]] # "pending" /\ Finish(p)
    /\ UNCHANGED <<store, disk>>

\* A file an earlier, interrupted finalise published is committed as it is.
Find(p) ==
    /\ pc[p] = "find"
    /\ \/ /\ Original(req[p]) \in files
          /\ path' = [path EXCEPT ![p] = Original(req[p])]
          /\ Goto(p, "size")
       \/ Original(req[p]) \notin files /\ Goto(p, "download") /\ UNCHANGED path
    /\ UNCHANGED <<store, disk, req, src, victim, doomed>>

\* The result is in staging, verified.  The transfer may back off before that of
\* another process (the row stays pending); it, or the checks, may fail.
Download(p) ==
    /\ pc[p] = "download"
    /\ \/ Goto(p, "publish") /\ UNCHANGED local
       \/ Finish(p)
       \/ Goto(p, "fail") /\ UNCHANGED local
    /\ UNCHANGED <<store, disk>>

\* publish_request_file: a link under the request's own name, which is never
\* overwritten.
Publish(p) ==
    /\ pc[p] = "publish"
    /\ \/ /\ files' = files \cup {Original(req[p])}
          /\ path' = [path EXCEPT ![p] = Original(req[p])]
          /\ Goto(p, "size")
       \/ Goto(p, "fail") /\ UNCHANGED <<files, path>>
    /\ UNCHANGED <<store, job, claims, names, req, src, victim, doomed>>

Fail(p) ==
    /\ pc[p] = "fail"
    /\ SettleRow(req[p], "failed")
    /\ Finish(p)
    /\ UNCHANGED <<entry, tombs, disk>>

\* Mutant of Settles: another result of the key is taken for a lost race.
SettlesFirst(r) == row[r] = "pending" /\ entry = NoPath

\* The conditional flip of commit_success_with_cache_entry.
Settles(r) == row[r] = "pending"

\* register_success looks at the file; one that has vanished raises and leaves the
\* row as it is ...
Size(p) ==
    /\ pc[p] = "size"
    /\ \/ path[p] \in files /\ Goto(p, "register") /\ UNCHANGED local
       \/ path[p] \notin files /\ Finish(p)
    /\ UNCHANGED <<store, disk>>

\* ... and commits row, entry and tombstones in one transaction.
Register(p) ==
    LET r == req[p] IN
    /\ pc[p] = "register"
    /\ \/ /\ Settles(r)
          /\ row' = [row EXCEPT ![r] = "successful"]
          /\ entry' = path[p]
          /\ tombs' = <<>>
          /\ src' = [src EXCEPT ![p] = IF entry = path[p] THEN NoPath ELSE entry]
          /\ Goto(p, IF entry \in {NoPath, path[p]} THEN "enforce" ELSE "supersede")
       \/ ~Settles(r) /\ Goto(p, "lost") /\ UNCHANGED <<store, src>>
    /\ UNCHANGED <<disk, req, path, victim, doomed>>

\* The file of the entry it replaced is removed after the commit.
Supersede(p) ==
    /\ pc[p] = "supersede"
    /\ files' = files \ {src[p]}
    /\ src' = [src EXCEPT ![p] = NoPath]
    /\ Goto(p, "enforce")
    /\ UNCHANGED <<store, job, claims, names, req, path, victim, doomed>>

\* Mutant of DeadFile: the loser of a race keeps its file.
KeepsFile(p) == FALSE

\* _commit_published, race lost: only a cancelled row's file is dead.
DeadFile(p) == row[req[p]] = "cancelled" /\ entry # path[p]

Lost(p) ==
    /\ pc[p] = "lost"
    /\ files' = IF DeadFile(p) THEN files \ {path[p]} ELSE files
    /\ Finish(p)
    /\ UNCHANGED <<store, job, claims, names>>

-----------------------------------------------------------------------------
(* Cancelling (cancel): the row first, then every published name.          *)

\* Nothing is discarded if the row, pending when it was read, has ended meanwhile.
Cancel(p, r) ==
    /\ "cancel" \in Duties[p]
    /\ pc[p] = "idle"
    /\ SettleRow(r, "cancelled")
    /\ \/ /\ row[r] = "pending"
          /\ req' = [req EXCEPT ![p] = r]
          /\ Goto(p, "discard")
       \/ row[r] # "pending" /\ UNCHANGED <<req, pc>>
    /\ UNCHANGED <<entry, tombs, disk, path, src, victim, doomed>>

Discard(p) ==
    /\ pc[p] = "discard"
    /\ files' = {f \in files : f.req # req[p]}
    /\ Finish(p)
    /\ UNCHANGED <<store, job, claims, names>>

-----------------------------------------------------------------------------
(* Eviction: by size after a registration (of this key or, in StartEvict,  *)
(* of any other), or by invalidate.  The entry goes first, then the file.  *)

\* Where a process goes on after the size limit has been enforced: a repair
\* then removes the name it adopted.
Afterwards(p) == IF src[p] # NoPath THEN Goto(p, "retire") /\ UNCHANGED local
                 ELSE Finish(p)

\* The entry that p has read is its victim.
Target(p) ==
    /\ entry # NoPath
    /\ claims < MaxClaims
    /\ claims' = claims + 1
    /\ victim' = [victim EXCEPT ![p] = entry]
    /\ Goto(p, "evict")
    /\ UNCHANGED <<req, path, src, doomed>>

StartEvict(p) ==
    /\ "evict" \in Duties[p]
    /\ pc[p] = "idle"
    /\ Target(p)
    /\ UNCHANGED <<store, job, files, names>>

\* _enforce_size_limit, whose snapshot may make this key's entry the victim.
Enforce(p) ==
    /\ pc[p] = "enforce"
    /\ \/ Target(p)
       \/ Afterwards(p) /\ UNCHANGED claims
    /\ UNCHANGED <<store, job, files, names>>

\* The deletion of the entry hit the row that was read.
Claims(p) == entry = victim[p]

Evict(p) ==
    /\ pc[p] = "evict"
    /\ EvictIfMatches(victim[p], TRUE)
    /\ \/ Claims(p) /\ Goto(p, "unlink") /\ UNCHANGED local
       \/ ~Claims(p) /\ Afterwards(p)
    /\ UNCHANGED <<row, disk>>

Unlink(p) ==
    /\ pc[p] = "unlink"
    /\ files' = files \ {victim[p]}
    /\ Afterwards(p)
    /\ UNCHANGED <<store, job, claims, names>>

-----------------------------------------------------------------------------
(* Fetching a delivered request (fetch_result, _successful_status); if its *)
(* entry is gone, the repair of _repair_or_refetch_locked.                 *)

StartFetch(p, r) ==
    /\ "fetch" \in Duties[p]
    /\ pc[p] = "idle" /\ row[r] = "successful"
    /\ req' = [req EXCEPT ![p] = r]
    /\ Goto(p, "lookup")
    /\ UNCHANGED <<store, disk, path, src, victim, doomed>>

Fetch(p) ==
    /\ pc[p] = "lookup"
    /\ LookUp
    /\ \/ Served /\ Finish(p)
       \/ ~Served /\ Goto(p, "tomb") /\ UNCHANGED local
    /\ UNCHANGED <<row, disk>>

\* The path the newest tombstone claims.  Before that CDS is asked for the result,
\* which it may have purged.
ReadTomb(p) ==
    LET newest == tombs[Len(tombs)] IN
    /\ pc[p] = "tomb"
    /\ \/ /\ doomed' = [doomed EXCEPT ![p] = IF tombs # <<>> /\ newest.claimed
                                             THEN newest.path ELSE NoPath]
          /\ Goto(p, "adopt")
          /\ UNCHANGED <<req, path, src, victim>>
       \/ Finish(p)
    /\ UNCHANGED <<store, disk>>

\* The request's own publication is adopted first ...
AdoptOriginal(p) ==
    LET own == Original(req[p]) IN
    /\ pc[p] = "adopt"
    /\ \/ /\ own \in files \ {doomed[p]}
          /\ src' = [src EXCEPT ![p] = own]
          /\ Goto(p, "link")
       \/ own \notin files \ {doomed[p]} /\ Goto(p, "adopt_fresh") /\ UNCHANGED src
    /\ UNCHANGED <<store, disk, req, path, victim, doomed>>

\* ... and then the newest file under a fresh name.  Links share their file's time,
\* and the name that breaks the tie is random: it may be any of them.
AdoptFresh(p) ==
    /\ pc[p] = "adopt_fresh"
    /\ \/ \E f \in Named(req[p]) :
             /\ f # doomed[p]
             /\ src' = [src EXCEPT ![p] = f]
             /\ Goto(p, "link")
       \/ /\ Named(req[p]) \subseteq {doomed[p]}
          /\ Goto(p, "refetch")
          /\ UNCHANGED src
    /\ UNCHANGED <<store, disk, req, path, victim, doomed>>

\* Mutant of NewName: a repair publishes under the request's own name.
OwnName(r) == Original(r)

\* _published_name(unique=True).
NewName(r) == [req |-> r, name |-> names + 1]

\* A file of this request appears under a fresh name.
PublishFresh(p, next) ==
    /\ names < MaxNames
    /\ names' = names + 1
    /\ files' = files \cup {NewName(req[p])}
    /\ path' = [path EXCEPT ![p] = NewName(req[p])]
    /\ Goto(p, next)

\* _republish_adopted: link the adopted file to a fresh name, if it still exists.
Link(p) ==
    /\ pc[p] = "link"
    /\ \/ src[p] \in files /\ PublishFresh(p, "linked")
       \/ src[p] \notin files /\ Goto(p, "gone") /\ UNCHANGED <<files, names, path>>
    /\ UNCHANGED <<store, job, claims, req, src, victim, doomed>>

\* The link is looked at: another repair may have adopted and retired it.
Linked(p) ==
    /\ pc[p] = "linked"
    /\ Goto(p, IF path[p] \in files THEN "stat" ELSE "gone")
    /\ UNCHANGED <<store, disk, local>>

\* The adopted file has vanished: most likely another repair has won.
Gone(p) ==
    /\ pc[p] = "gone"
    /\ LookUp
    /\ \/ Served /\ Finish(p)
       \/ /\ ~Served
          /\ src' = [src EXCEPT ![p] = NoPath]
          /\ Goto(p, "refetch")
          /\ UNCHANGED <<req, path, victim, doomed>>
    /\ UNCHANGED <<row, disk>>

\* _download_published_copy.
Refetch(p) ==
    /\ pc[p] = "refetch"
    /\ \/ PublishFresh(p, "stat") /\ UNCHANGED <<req, src, victim, doomed>>
       \/ Finish(p) /\ UNCHANGED <<files, names>>
    /\ UNCHANGED <<store, job, claims>>

\* register_repaired looks at the file ...
Stat(p) ==
    /\ pc[p] = "stat"
    /\ Goto(p, IF path[p] \in files THEN "repair" ELSE "yield")
    /\ UNCHANGED <<store, disk, local>>

\* Mutant of MayRepair: an entry registered meanwhile is overwritten.
MayRepairOver(p) ==
    /\ row[req[p]] = "successful"
    /\ ~\E i \in DOMAIN tombs : tombs[i] = [path |-> path[p], claimed |-> TRUE]

\* ... and register_entry_if_missing at the row, the entry and the tombstones.
MayRepair(p) ==
    /\ row[req[p]] = "successful"
    /\ entry = NoPath
    /\ ~\E i \in DOMAIN tombs : tombs[i] = [path |-> path[p], claimed |-> TRUE]

Repair(p) ==
    /\ pc[p] = "repair"
    /\ \/ /\ MayRepair(p)
          /\ entry' = path[p]
          /\ tombs' = <<>>
          /\ Goto(p, "enforce")
       \/ ~MayRepair(p) /\ Goto(p, "yield") /\ UNCHANGED <<entry, tombs>>
    /\ UNCHANGED <<row, disk, local>>

\* The repair was lost: the file it made is nobody's, the adopted one stays.
YieldRepair(p) ==
    /\ pc[p] = "yield"
    /\ LookUp
    /\ files' = IF entry = path[p] /\ Served THEN files ELSE files \ {path[p]}
    /\ Finish(p)
    /\ UNCHANGED <<row, job, claims, names>>

\* _retire_adopted_name.
Retire(p) ==
    /\ pc[p] = "retire"
    /\ files' = files \ {src[p]}
    /\ Finish(p)
    /\ UNCHANGED <<store, job, claims, names>>

-----------------------------------------------------------------------------

JobEnds(r) ==
    /\ job[r] = "running"
    /\ \E s \in {"done", "failed", "cancelled"} : job' = [job EXCEPT ![r] = s]
    /\ UNCHANGED <<store, files, names, claims, pc, local>>

\* A published file is lost (what lookup_entry calls file_missing).
LoseFile(f) ==
    /\ Losable
    /\ claims < MaxClaims
    /\ claims' = claims + 1
    /\ files' = files \ {f}
    /\ UNCHANGED <<store, job, names, pc, local>>

\* The process is killed, or the task is cancelled (by a cancel or close in its own
\* process; a file system call that its thread had begun has then been its last step).
Crash(p) ==
    /\ p \in Mortal
    /\ pc[p] \notin {"idle", "dead"}
    /\ Goto(p, "dead")
    /\ UNCHANGED <<store, disk, local>>

Step(p) ==
    \/ Check(p) \/ Find(p) \/ Download(p) \/ Publish(p) \/ Fail(p) \/ Size(p)
    \/ Register(p) \/ Supersede(p) \/ Lost(p) \/ Discard(p) \/ Enforce(p) \/ Evict(p) \/ Unlink(p)
    \/ Fetch(p) \/ ReadTomb(p) \/ AdoptOriginal(p) \/ AdoptFresh(p) \/ Link(p)
    \/ Linked(p) \/ Gone(p) \/ Refetch(p) \/ Stat(p) \/ Repair(p) \/ YieldRepair(p) \/ Retire(p)

Start(p, r) == RecordFailure(p, r) \/ StartFinalise(p, r) \/ Cancel(p, r) \/ StartFetch(p, r)

Next ==
    \/ \E p \in Processes : Step(p) \/ StartEvict(p) \/ Crash(p)
    \/ \E p \in Processes, r \in Requests : Start(p, r)
    \/ \E r \in Requests : JobEnds(r)
    \/ \E f \in files : LoseFile(f)

Spec == Init /\ [][Next]_vars

-----------------------------------------------------------------------------

\* A registered file exists: whoever removes it has claimed its entry first, and what
\* was claimed is not registered again (evict_cache_entry_if_matches, tombstones and
\* fresh names).  It holds while the key's entry is evicted once at most, or no two
\* processes repair it.
EntryHasFile == entry # NoPath => entry \in files

\* When every operation has run to its end, a cancelled request has left no file
\* behind: whichever of the cancel (discard_request_publications) and a finaliser
\* (_commit_published) comes last removes it.  An interrupted finalise may leave one.
NoDeadFiles ==
    (\A p \in Processes : pc[p] = "idle") => \A f \in files : row[f.req] # "cancelled"

\* The cache serves a delivered request, never a cancelled or failed one; row and
\* entry change together; a terminal row stays as it is, and a repair never takes
\* the place of another entry (decisions 1 and 9 of the code).
Shelf == INSTANCE Delivery WITH
            Nothing <- NoPath,
            status  <- row,
            shelf   <- IF entry = NoPath THEN NoPath ELSE entry.req
KeepsPromise == Shelf!Spec

\* Every process takes its next step in the end, the caller polls again (check_status
\* is the only thing that starts a finalise), and a transfer does not back off for
\* ever: a part that nobody writes any more is adopted.
Fairness ==
    \A p \in Processes :
        /\ WF_vars(Step(p))
        /\ \A r \in Requests : SF_vars(RecordFailure(p, r) \/ StartFinalise(p, r))
        /\ SF_vars(Download(p) /\ pc'[p] # "idle")

FairSpec == Spec /\ Fairness

\* A request whose job has ended does not stay pending, whoever is killed over it
\* (the next poll of _poll_and_maybe_finalise completes what was interrupted).
Settled == \A r \in Requests : job[r] # "running" ~> row[r] # "pending"

=============================================================================
