-------------------------------- MODULE Marine --------------------------------
(***************************************************************************)
(* Marine downloads (backends/cmems/backend.py): the calls of one cache    *)
(* key, either of marine_subset_dataset, in the caller's task or in a      *)
(* background task, or of marine_get_files, always in the caller's task.   *)
(*                                                                         *)
(* One server process runs the calls; any process polls and cancels.  Calls*)
(* interleave at their awaits, so an action is what a call does between    *)
(* two of them.  The canonical path of a key is fixed: "disk" is what is   *)
(* there, "entry" the cache entry (each named by the call that wrote it).  *)
(* One server, one day: a publication always replaces the file it          *)
(* supersedes.                                                             *)
(***************************************************************************)
EXTENDS Naturals

CONSTANTS Calls,      \* calls with this cache key
          Nobody,     \* no call
          Evictor,    \* holder of the cache lock that evicts
          Watched,    \* calls whose requests are polled and cancelled
          Kinds,      \* the operations instances may be about
          MaxCrashes  \* bound on crashes of the server

ASSUME MarineAssumption ==
    /\ Nobody \notin Calls
    /\ Evictor \notin Calls \cup {Nobody}
    /\ Watched \subseteq Calls
    /\ Kinds \subseteq {"subset", "get"}
    /\ MaxCrashes \in Nat

VARIABLES
    kind,      \* what the calls of this behaviour ask for
    async,     \* whether a call asked for a background task
    forced,    \* whether it asked for a refresh
    pc,        \* its next step
    outcome,   \* the status its last step writes
    row,       \* status column of its row
    latest,    \* the row recorded last
    entry,     \* the cache entry of the key
    disk,      \* the file, or bundle, at the key's path
    gate,      \* holder of _async_submit_lock
    cache,     \* holder of _cache_lock
    committed, \* commit_state of a get
    cut,       \* gets cancelled while their commit was shielded
    aged,      \* running rows not written for 60 s
    verdicts,  \* rows a poll is about to fail
    asks,      \* background tasks a cancel waits for
    acked,     \* calls such a cancel reported cancelled
    crashes    \* crashes so far

vars == <<kind, async, forced, pc, outcome, row, latest, entry, disk, gate, cache,
          committed, cut, aged, verdicts, asks, acked, crashes>>
asked   == <<kind, async, forced>>
polling == <<verdicts, asks, acked>>

Pending  == {"queued", "running"}
Terminal == {"successful", "failed", "cancelled"}

\* The steps at which a job runs: the last row write still lies ahead.
Working  == {"download", "invalidate", "place", "enter", "read", "settle"}
\* The steps at which an awaiting call has not reached its try block.
Early    == {"find", "gate", "estimate", "mark", "unstaged"}
Over     == {"ended", "cut", "dead"}

TypeOK ==
    /\ kind \in Kinds
    /\ async \in [Calls -> BOOLEAN]
    /\ forced \in [Calls -> BOOLEAN]
    /\ pc \in [Calls -> {"start"} \cup Early \cup Working \cup Over]
    /\ outcome \in [Calls -> Terminal]
    /\ row \in [Calls -> {"none"} \cup Pending \cup Terminal]
    /\ latest \in Calls \cup {Nobody}
    /\ entry \in Calls \cup {Nobody}
    /\ disk \in Calls \cup {Nobody}
    /\ gate \in Calls \cup {Nobody}
    /\ cache \in Calls \cup {Nobody, Evictor}
    /\ committed \subseteq Calls
    /\ cut \subseteq Calls
    /\ aged \subseteq Calls
    /\ verdicts \subseteq Calls
    /\ asks \subseteq Calls
    /\ acked \subseteq Calls
    /\ crashes \in 0..MaxCrashes

Init ==
    /\ kind \in Kinds
    /\ async = [c \in Calls |-> FALSE]
    /\ forced = [c \in Calls |-> FALSE]
    /\ pc = [c \in Calls |-> "start"]
    /\ outcome = [c \in Calls |-> "successful"]
    /\ row = [c \in Calls |-> "none"]
    /\ latest = Nobody
    /\ entry = Nobody
    /\ disk = Nobody
    /\ gate = Nobody
    /\ cache = Nobody
    /\ committed = {}
    /\ cut = {}
    /\ aged = {}
    /\ verdicts = {}
    /\ asks = {}
    /\ acked = {}
    /\ crashes = 0

----------------------------------------------------------------------------
At(c, s) == pc[c] = s
Goto(c, s) == pc' = [pc EXCEPT ![c] = s]

\* Every write of a row renews its updated_at.
Write(c, s) ==
    /\ row' = [row EXCEPT ![c] = s]
    /\ aged' = aged \ {c}

\* update_workflow_status_if_pending
WriteIfPending(c, s) ==
    IF row[c] \in Pending THEN Write(c, s) ELSE UNCHANGED <<row, aged>>

\* Mutant of Release: the submit lock is never given back.
KeepGate(c) == UNCHANGED gate

\* Leaving the critical section, if the call is in it.
Release(c) == gate' = IF gate = c THEN Nobody ELSE gate

\* A subset's task outlives the call that spawned it.
Background(c) == kind = "subset" /\ async[c] /\ pc[c] \in Working

\* lookup_entry: an entry whose file is gone is dropped on the way.
Hit == entry # Nobody /\ disk # Nobody
DropDeadEntry == entry' = IF Hit THEN entry ELSE Nobody

----------------------------------------------------------------------------
(* The call, up to its row.                                                *)

Submit(c) ==
    /\ At(c, "start")
    /\ \E a \in IF kind = "get" THEN {FALSE} ELSE BOOLEAN, f \in BOOLEAN :
          /\ async' = [async EXCEPT ![c] = a]
          /\ forced' = [forced EXCEPT ![c] = f]
          /\ Goto(c, IF ~f THEN "find"
                     ELSE IF a \/ kind = "get" THEN "gate" ELSE "estimate")
    /\ UNCHANGED <<kind, outcome, row, latest, entry, disk, gate, cache, committed,
                   cut, aged, polling, crashes>>

\* The look at the cache before the lock: a hit ends the call.
Find(c) ==
    /\ At(c, "find")
    /\ cache = Nobody
    /\ DropDeadEntry
    /\ Goto(c, IF Hit THEN "ended"
               ELSE IF async[c] \/ kind = "get" THEN "gate" ELSE "estimate")
    /\ UNCHANGED <<asked, outcome, row, latest, disk, gate, cache, committed, cut,
                   aged, polling, crashes>>

\* An async subset is answered with the last row if that one is pending.
Dedupe(c) == kind = "subset" /\ latest # Nobody /\ row[latest] \in Pending

\* Mutant of Answered: no subset looks for a pending row.
AnsweredByCache(c) == ~forced[c] /\ kind = "get" /\ Hit

\* What an unforced call finds once it holds the submit lock: a subset looks for
\* a pending row, a get looks at the cache again.
Answered(c) == ~forced[c] /\ IF kind = "get" THEN Hit ELSE Dedupe(c)

Enter(c) ==
    /\ At(c, "gate")
    /\ gate = Nobody
    /\ kind = "get" => cache = Nobody
    /\ IF kind = "get" /\ ~forced[c] THEN DropDeadEntry ELSE UNCHANGED entry
    /\ IF Answered(c)
       THEN Goto(c, "ended") /\ UNCHANGED gate
       ELSE Goto(c, "estimate") /\ gate' = c
    /\ UNCHANGED <<asked, outcome, row, latest, disk, cache, committed, cut, aged,
                   polling, crashes>>

\* The estimate, and the confirmation it may ask for instead of going on.
Refuse(c) ==
    /\ At(c, "estimate")
    /\ Goto(c, "ended")
    /\ Release(c)
    /\ UNCHANGED <<asked, outcome, row, latest, entry, disk, cache, committed, cut,
                   aged, polling, crashes>>

Record(c) ==
    /\ At(c, "estimate")
    /\ Write(c, "queued")
    /\ latest' = c
    /\ Goto(c, "mark")
    /\ UNCHANGED <<asked, outcome, entry, disk, gate, cache, committed, cut, polling,
                   crashes>>

\* The row runs; a subset prepares its staging, and spawns its task, at once.
Mark(c) ==
    /\ At(c, "mark")
    /\ Write(c, "running")
    /\ \/ /\ Goto(c, "download")
          /\ IF async[c] THEN Release(c) ELSE UNCHANGED gate
       \/ /\ kind = "subset"
          /\ Goto(c, "unstaged")
          /\ UNCHANGED gate
    /\ UNCHANGED <<asked, outcome, latest, entry, disk, cache, committed, cut, polling,
                   crashes>>

\* Staging could not be prepared.
Unstaged(c) ==
    /\ At(c, "unstaged")
    /\ Write(c, "failed")
    /\ Goto(c, "ended")
    /\ Release(c)
    /\ UNCHANGED <<asked, outcome, latest, entry, disk, cache, committed, cut, polling,
                   crashes>>

----------------------------------------------------------------------------
(* The job: _execute_subset_download, _execute_get_download.               *)

Fail(c) ==
    /\ outcome' = [outcome EXCEPT ![c] = IF c \in cut THEN "cancelled" ELSE "failed"]
    /\ Goto(c, "settle")

\* The toolbox, in a thread: it may fail, leave no file, or match none.
Download(c) ==
    /\ At(c, "download")
    /\ \/ Goto(c, IF kind = "get" THEN "invalidate" ELSE "place") /\ UNCHANGED outcome
       \/ Fail(c)
    /\ UNCHANGED <<asked, row, latest, entry, disk, gate, cache, committed, cut, aged,
                   polling, crashes>>

\* A get drops the entry it replaces; the bundle goes before the lock does.
Invalidate(c) ==
    /\ At(c, "invalidate")
    /\ cache = Nobody
    /\ entry' = Nobody
    /\ cache' = c
    /\ Goto(c, "place")
    /\ UNCHANGED <<asked, outcome, row, latest, disk, gate, committed, cut, aged,
                   polling, crashes>>

\* A get moves its bundle to the path, and writes the manifest there.
PlaceBundle(c) ==
    /\ At(c, "place")
    /\ kind = "get"
    /\ cache' = Nobody
    /\ \/ disk' = c /\ Goto(c, "enter") /\ UNCHANGED outcome
       \/ disk' \in {c, Nobody} /\ Fail(c)
    /\ UNCHANGED <<asked, row, latest, entry, gate, committed, cut, aged, polling, crashes>>

\* store_file removes the file of the entry it will replace, then moves its own.
PlaceFile(c) ==
    /\ At(c, "place")
    /\ kind = "subset"
    /\ cache = Nobody
    /\ \/ disk' = c /\ cache' = c /\ Goto(c, "enter") /\ UNCHANGED outcome
       \/ /\ disk' = IF entry # Nobody THEN Nobody ELSE disk
          /\ UNCHANGED cache
          /\ Fail(c)
    /\ UNCHANGED <<asked, row, latest, entry, gate, committed, cut, aged, polling, crashes>>

\* The entry of a subset; record_cache_entry may fail, and so may the enforcement
\* of the size limit that follows its commit, the entry being there by then.
EnterFile(c) ==
    /\ At(c, "enter")
    /\ kind = "subset"
    /\ cache' = Nobody
    /\ \/ entry' = c /\ Goto(c, "settle") /\ UNCHANGED outcome
       \/ entry' \in {entry, c} /\ Fail(c)
    /\ UNCHANGED <<asked, row, latest, disk, gate, committed, cut, aged, polling, crashes>>

\* The entry of a get; store_manifest removes the files of an entry it finds, which
\* are those of the same path.  The get is committed once store_manifest returns: if
\* the size limit cannot be enforced, it is not, though its entry is there.
EnterBundle(c) ==
    /\ At(c, "enter")
    /\ kind = "get"
    /\ cache = Nobody
    /\ disk' = IF entry # Nobody THEN Nobody ELSE disk
    /\ \/ entry' = c /\ committed' = committed \cup {c} /\ Goto(c, "read") /\ UNCHANGED outcome
       \/ entry' \in {entry, c} /\ UNCHANGED committed /\ Fail(c)
    /\ UNCHANGED <<asked, row, latest, gate, cache, cut, aged, polling, crashes>>

\* After the commit point the manifest is read back, and may be gone by then.
Read(c) ==
    /\ At(c, "read")
    /\ \/ disk = c /\ Goto(c, "settle") /\ UNCHANGED outcome
       \/ Fail(c)
    /\ UNCHANGED <<asked, row, latest, entry, disk, gate, cache, committed, cut, aged,
                   polling, crashes>>

\* A get that is not committed takes its bundle away again.
Rollback(c) == disk' = IF disk = c THEN Nobody ELSE disk

SettleFile(c) ==
    /\ Write(c, outcome[c])
    /\ UNCHANGED disk

\* Mutant of SettleBundle: a failure past the commit point is rolled back too.
RollBackCommitted(c) ==
    IF outcome[c] = "successful"
    THEN Write(c, "successful") /\ UNCHANGED disk
    ELSE WriteIfPending(c, "cancelled") /\ Rollback(c)

\* A get whose commit fails past the commit point is successful all the same.
SettleBundle(c) ==
    IF c \in committed
    THEN /\ IF outcome[c] = "successful"
            THEN Write(c, "successful") ELSE WriteIfPending(c, "successful")
         /\ UNCHANGED disk
    ELSE /\ IF outcome[c] = "cancelled"
            THEN WriteIfPending(c, "cancelled") ELSE Write(c, "failed")
         /\ Rollback(c)

Settle(c) ==
    /\ At(c, "settle")
    /\ IF kind = "get" THEN SettleBundle(c) ELSE SettleFile(c)
    /\ Goto(c, "ended")
    /\ Release(c)
    /\ UNCHANGED <<asked, outcome, latest, entry, cache, committed, cut, polling, crashes>>

----------------------------------------------------------------------------
(* Cancellation of a task, delivered at the await it is at.                *)

Free(c) == cache' = IF cache = c THEN Nobody ELSE cache

\* Mutants of CutWork: the handler writes no row; the cancellation is swallowed.
CutSilently(c) ==
    /\ Goto(c, "ended")
    /\ Free(c)
    /\ UNCHANGED outcome
Swallow(c) ==
    /\ Goto(c, "settle")
    /\ Free(c)
    /\ UNCHANGED outcome

CutWork(c) ==
    /\ outcome' = [outcome EXCEPT ![c] = "cancelled"]
    /\ Goto(c, "settle")
    /\ Free(c)

\* A subset in its try block; a write under way when the cancellation comes is
\* still carried out, the shielded last one included.
CutFile(c) ==
    /\ kind = "subset"
    /\ pc[c] \in Working
    /\ At(c, "settle") => outcome[c] = "successful"
    /\ CutWork(c)
    /\ entry' \in IF At(c, "enter") THEN {entry, c} ELSE {entry}
    /\ \/ At(c, "settle") /\ Write(c, "successful")
       \/ UNCHANGED <<row, aged>>
    /\ UNCHANGED <<asked, latest, disk, gate, committed, cut, crashes>>

\* A get: its commit task is drained first, so that only what it has not yet
\* begun to commit is cancelled.
CutBundle(c) ==
    /\ kind = "get"
    /\ \/ pc[c] \in {"download", "invalidate", "place"} /\ CutWork(c) /\ UNCHANGED cut
       \/ /\ pc[c] \in {"enter", "read"}
          /\ cut' = cut \cup {c}
          /\ UNCHANGED <<outcome, pc, cache>>
    /\ UNCHANGED <<asked, row, aged, latest, entry, disk, gate, committed, crashes>>

\* The client gives up a call that is still in its own task.
ClientCut(c) ==
    /\ ~Background(c)
    /\ CutFile(c) \/ CutBundle(c)
    /\ UNCHANGED polling

\* Before its try block a cancelled call writes nothing: the row stays as it is.
ClientGone(c) ==
    /\ pc[c] \in Early
    /\ Goto(c, IF pc[c] \in {"mark", "unstaged"} THEN "cut" ELSE "ended")
    /\ \/ At(c, "mark") /\ Write(c, "running")
       \/ UNCHANGED <<row, aged>>
    /\ Release(c)
    /\ UNCHANGED <<asked, outcome, latest, entry, disk, cache, committed, cut, polling,
                   crashes>>

\* cancel in the server of a background task, up to its wait for the task.
CancelTask(c) ==
    /\ c \in Watched
    /\ Background(c)
    /\ row[c] \in Pending
    /\ asks' = asks \cup {c}
    /\ \/ CutFile(c)
       \/ /\ At(c, "settle")
          /\ outcome[c] # "successful"
          /\ UNCHANGED <<asked, pc, outcome, row, latest, entry, disk, gate, cache,
                         committed, cut, aged, crashes>>
    /\ UNCHANGED <<verdicts, acked>>

\* Its conditional write, after the wait or 5 s, and its answer.
FinishCancel(c) ==
    /\ c \in asks
    /\ WriteIfPending(c, "cancelled")
    /\ asks' = asks \ {c}
    /\ acked' = IF row'[c] = "cancelled" THEN acked \cup {c} ELSE acked
    /\ UNCHANGED <<asked, pc, outcome, latest, entry, disk, gate, cache, committed, cut,
                   verdicts, crashes>>

\* cancel without a task at hand: a call in its client's task, or another process.
CancelRow(c) ==
    /\ c \in Watched
    /\ row[c] \in Pending
    /\ WriteIfPending(c, "cancelled")
    /\ UNCHANGED <<asked, pc, outcome, latest, entry, disk, gate, cache, committed, cut,
                   polling, crashes>>

----------------------------------------------------------------------------
(* Polling, eviction, crashes.                                             *)

\* Sixty seconds pass without a write of the row.
Age(c) ==
    /\ c \in Watched
    /\ row[c] = "running"
    /\ c \notin aged
    /\ aged' = aged \cup {c}
    /\ UNCHANGED <<asked, pc, outcome, row, latest, entry, disk, gate, cache, committed,
                   cut, polling, crashes>>

\* check_status reads a stale running row and finds no file for its key ...
Suspect(c) ==
    /\ row[c] = "running"
    /\ c \in aged
    /\ c \notin verdicts
    /\ ~Hit
    /\ DropDeadEntry
    /\ verdicts' = verdicts \cup {c}
    /\ UNCHANGED <<asked, pc, outcome, row, latest, disk, gate, cache, committed, cut,
                   aged, asks, acked, crashes>>

\* ... and fails it.
Verdict(c) ==
    /\ c \in verdicts
    /\ Write(c, "failed")
    /\ verdicts' = verdicts \ {c}
    /\ UNCHANGED <<asked, pc, outcome, latest, entry, disk, gate, cache, committed, cut,
                   asks, acked, crashes>>

\* The size limit, enforced by a store of any key: the entry, then its files.
Evict ==
    /\ cache = Nobody
    /\ entry # Nobody
    /\ entry' = Nobody
    /\ cache' = Evictor
    /\ UNCHANGED <<asked, pc, outcome, row, latest, disk, gate, committed, cut, aged,
                   polling, crashes>>

Unlink ==
    /\ cache = Evictor
    /\ disk' = Nobody
    /\ cache' = Nobody
    /\ UNCHANGED <<asked, pc, outcome, row, latest, entry, gate, committed, cut, aged,
                   polling, crashes>>

Crash ==
    /\ crashes < MaxCrashes
    /\ crashes' = crashes + 1
    /\ pc' = [c \in Calls |-> IF pc[c] \in Early \cup Working THEN "dead" ELSE pc[c]]
    /\ gate' = Nobody
    /\ cache' = Nobody
    /\ asks' = {}
    /\ UNCHANGED <<asked, outcome, row, latest, entry, disk, committed, cut, aged,
                   verdicts, acked>>

----------------------------------------------------------------------------
\* What the server's event loop does by itself for a call.
Step(c) ==
    \/ Find(c) \/ Enter(c) \/ Refuse(c) \/ Record(c) \/ Mark(c) \/ Unstaged(c)
    \/ Download(c) \/ Invalidate(c) \/ PlaceBundle(c) \/ PlaceFile(c)
    \/ EnterFile(c) \/ EnterBundle(c) \/ Read(c) \/ Settle(c)

Next ==
    \/ \E c \in Calls :
          \/ Submit(c) \/ Step(c)
          \/ ClientCut(c) \/ ClientGone(c) \/ CancelTask(c) \/ FinishCancel(c) \/ CancelRow(c)
          \/ Age(c) \/ Suspect(c) \/ Verdict(c)
    \/ Evict \/ Unlink \/ Crash

Spec == Init /\ [][Next]_vars

\* Tasks that can run do run, and a download in its thread ends.
FairSpec ==
    /\ Spec
    /\ WF_vars(Unlink)
    /\ \A c \in Calls : WF_vars(Step(c))

----------------------------------------------------------------------------
Jobs == {c \in Calls : pc[c] \in Working}

\* One download of a key at a time: the submit lock is held for the whole of a
\* get; subsets are deduplicated by row, which holds as long as every call is an
\* unforced async one and nobody has settled the row of a job that runs.
OneDownload ==
    \A c, d \in Jobs :
       \/ c = d
       \/ /\ kind = "subset"
          /\ \/ \E e \in Calls : row[e] # "none" /\ (forced[e] \/ ~async[e])
             \/ {row[c], row[d]} \cap Terminal # {}

\* A get's entry describes the very bundle on disk, at every step, after a
\* cancellation, a rollback, an eviction and a crash.  The one exception is a get whose
\* store_manifest raised after the entry was written, and which took its bundle away:
\* its entry describes nothing, and a look-up drops it.
RolledBack(c) == c \notin committed /\ At(c, "ended")
EntryIsBundle ==
    kind = "get" /\ entry # Nobody =>
       disk = entry \/ (disk = Nobody /\ RolledBack(entry))

\* With the types of the variables: the cache and the disk are consistent.
Consistent == TypeOK /\ EntryIsBundle

\* Whatever ends a job that had reached its try block, its row is settled, and a
\* get that was rolled back has left nothing at the key's path.
EndsSettled ==
    \A c \in Calls :
       pc[c] = "ended" =>
          /\ row[c] \notin Pending
          /\ kind = "get" /\ disk = c => c \in committed

\* A cancel of a background task that was answered "cancelled" stands: the job
\* does not turn successful afterwards.
CancelStands == \A c \in acked : row[c] # "successful"

\* Every call of the server ends, and lets the next one have the submit lock.
CallsEnd == \A c \in Calls : pc[c] # "start" ~> pc[c] \in Over

\* The comment on check_status' reconciliation (backends/cmems/backend.py:1895):
\* a stale running row without a file is a crash, not a job at work.
FailsOnlyTheDead ==
    [][\A c \in Calls : Verdict(c) => pc[c] \notin Working]_vars
=============================================================================
