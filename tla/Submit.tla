-------------------------------- MODULE Submit --------------------------------
(***************************************************************************)
(* Submits of one CDS request (backends/cds/backend.py, CdsBackend.submit, *)
(* _submit_one, _submit_chunk_parent): calls with the same cache key, in   *)
(* one server or several.  A server serialises its own calls with a lock   *)
(* per cache key that exists only while somebody uses it; between servers  *)
(* only the database is shared.  A lock is named by the call that made it. *)
(*                                                                         *)
(* The chunks of a parent and the delivery of a job are modelled in        *)
(* ChunkParent and Finalise; here they are how a row ends.                 *)
(***************************************************************************)
EXTENDS SubmitRoute, FiniteSets

CONSTANTS Calls, Nobody,
          Processes,
          Homes,      \* how calls may be spread over the processes
          Refreshers, \* calls that may ask for a refresh
          Shapes,     \* the requests the key may stand for
          Budget,     \* the budget flags of the installation
          MaxCrashes  \* bound on crashes of a process

ASSUME SubmitAssumption ==
    /\ IsFiniteSet(Calls)
    /\ Nobody \notin Calls
    /\ Refreshers \subseteq Calls
    /\ Homes \subseteq [Calls -> Processes]
    /\ Budget \subseteq Budgets
    /\ MaxCrashes \in Nat

VARIABLES
    shape,   \* the request
    home,    \* call -> the process that serves it
    forced,  \* whether a call asked for a refresh
    pc,      \* its next step
    lock,    \* the lock it refers to
    holder,  \* lock -> the call that holds it
    dict,    \* process -> _submit_locks[cache_key]
    refs,    \* process -> _submit_lock_refs[cache_key]
    row,     \* status column of the row a call recorded
    chunked, \* the rows of chunked parents
    job,     \* the job a call ordered at CDS
    latest,  \* the row recorded last
    entry,   \* the cache entry of the key, named by its request
    crashes  \* crashes so far

vars == <<shape, home, forced, pc, lock, holder, dict, refs, row, chunked, job, latest,
          entry, crashes>>
locks == <<lock, holder, dict, refs>>
store == <<row, chunked, latest, entry>>

Pending == {"queued"}
Over    == {"ended", "unheard", "lost", "dead"}
Inside  == {"cache", "rows", "estimate", "order", "record", "discard", "plan", "wave"}

TypeOK ==
    /\ shape \in Shapes
    /\ home \in Homes
    /\ forced \in [Calls -> BOOLEAN]
    /\ pc \in [Calls -> {"start", "wait"} \cup Inside \cup Over]
    /\ lock \in [Calls -> Calls \cup {Nobody}]
    /\ holder \in [Calls -> Calls \cup {Nobody}]
    /\ dict \in [Processes -> Calls \cup {Nobody}]
    /\ refs \in [Processes -> Nat]
    /\ row \in [Calls -> {"none", "queued", "successful", "failed", "cancelled"}]
    /\ chunked \subseteq Calls
    /\ job \in [Calls -> {"none", "live", "gone"}]
    /\ latest \in Calls \cup {Nobody}
    /\ entry \in Calls \cup {Nobody}
    /\ crashes \in 0..MaxCrashes

Init ==
    /\ shape \in Shapes
    /\ home \in Homes
    /\ forced = [c \in Calls |-> FALSE]
    /\ pc = [c \in Calls |-> "start"]
    /\ lock = [c \in Calls |-> Nobody]
    /\ holder = [c \in Calls |-> Nobody]
    /\ dict = [p \in Processes |-> Nobody]
    /\ refs = [p \in Processes |-> 0]
    /\ row = [c \in Calls |-> "none"]
    /\ chunked = {}
    /\ job = [c \in Calls |-> "none"]
    /\ latest = Nobody
    /\ entry = Nobody
    /\ crashes = 0

----------------------------------------------------------------------------
At(c, s) == pc[c] = s
Goto(c, s) == pc' = [pc EXCEPT ![c] = s]

\* Mutant of LastUser: every user drops it.
AnyUser(p) == TRUE

\* The last user of a lock drops it from the dictionary.
LastUser(p) == refs[p] = 1

\* Mutant of Leave: the lock itself is not given back.
LeaveHeld(c, s) ==
    /\ Goto(c, s)
    /\ refs' = [refs EXCEPT ![home[c]] = @ - 1]
    /\ lock' = [lock EXCEPT ![c] = Nobody]
    /\ UNCHANGED <<holder, dict>>

\* Leaving, however the call ends: the lock, if held, then the reference.
Leave(c, s) ==
    LET p == home[c] IN
    /\ Goto(c, s)
    /\ holder' = [l \in Calls |-> IF holder[l] = c THEN Nobody ELSE holder[l]]
    /\ refs' = [refs EXCEPT ![p] = @ - 1]
    /\ dict' = IF LastUser(p) THEN [dict EXCEPT ![p] = Nobody] ELSE dict
    /\ lock' = [lock EXCEPT ![c] = Nobody]

\* Checks of the request itself come first: it may be refused before the lock.
Refuse(c) ==
    /\ At(c, "start")
    /\ Goto(c, "ended")
    /\ UNCHANGED <<shape, home, forced, locks, store, job, crashes>>

Join(c) ==
    LET p == home[c] IN
    /\ At(c, "start")
    /\ \E flags \in SUBSET Flags : ~KeysRefused(shape, flags, Budget)
    /\ \E f \in IF c \in Refreshers THEN BOOLEAN ELSE {FALSE} : forced' = [forced EXCEPT ![c] = f]
    /\ LET l == IF dict[p] = Nobody THEN c ELSE dict[p] IN
          /\ dict' = [dict EXCEPT ![p] = l]
          /\ lock' = [lock EXCEPT ![c] = l]
    /\ refs' = [refs EXCEPT ![p] = @ + 1]
    /\ Goto(c, "wait")
    /\ UNCHANGED <<shape, home, holder, store, job, crashes>>

Acquire(c) ==
    /\ At(c, "wait")
    /\ holder[lock[c]] = Nobody
    /\ holder' = [holder EXCEPT ![lock[c]] = c]
    /\ Goto(c, IF forced[c] THEN "estimate" ELSE "cache")
    /\ UNCHANGED <<shape, home, forced, lock, dict, refs, store, job, crashes>>

\* The cached file of an earlier request.
LookAtCache(c) ==
    /\ At(c, "cache")
    /\ IF entry # Nobody THEN Leave(c, "ended") ELSE Goto(c, "rows") /\ UNCHANGED locks
    /\ UNCHANGED <<shape, home, forced, store, job, crashes>>

\* Mutant of RowAnswers: only a delivered row answers.
DeliveredRowAnswers == latest # Nobody /\ row[latest] = "successful"

\* The last row of the key answers a call while it is pending, or if it is the
\* parent of delivered chunks.
RowAnswers ==
    /\ latest # Nobody
    /\ \/ row[latest] \in Pending
       \/ latest \in chunked /\ row[latest] = "successful"

LookAtRows(c) ==
    /\ At(c, "rows")
    /\ IF RowAnswers THEN Leave(c, "ended") ELSE Goto(c, "estimate") /\ UNCHANGED locks
    /\ UNCHANGED <<shape, home, forced, store, job, crashes>>

\* The estimate and the gates of SubmitRoute, under any options.
Decide(c) ==
    /\ At(c, "estimate")
    /\ \E route \in {Route(shape, flags, Budget, axis) : flags \in SUBSET Flags, axis \in Axes} :
          \/ route = "single" /\ Goto(c, "order") /\ UNCHANGED locks
          \/ route = "parent" /\ Goto(c, "plan") /\ UNCHANGED locks
          \/ route \in Asking \cup {"refused"} /\ Leave(c, "ended")
    /\ UNCHANGED <<shape, home, forced, store, job, crashes>>

\* client.retrieve, in a thread: CDS may refuse the order, or accept it and not be
\* heard, the call raising for a timeout or a lost reply: then nobody knows of the job.
Order(c) ==
    /\ At(c, "order")
    /\ \/ /\ job' = [job EXCEPT ![c] = "live"]
          /\ Goto(c, "record")
          /\ UNCHANGED locks
       \/ Leave(c, "ended") /\ UNCHANGED job
       \/ Leave(c, "unheard") /\ job' = [job EXCEPT ![c] = "live"]
    /\ UNCHANGED <<shape, home, forced, store, crashes>>

WriteRow(c) ==
    /\ row' = [row EXCEPT ![c] = "queued"]
    /\ latest' = c

\* Its row: if it cannot be written the job is taken back.
Record(c) ==
    /\ At(c, "record")
    /\ \/ WriteRow(c) /\ Leave(c, "ended")
       \/ Goto(c, "discard") /\ UNCHANGED <<row, latest, locks>>
    /\ UNCHANGED <<shape, home, forced, chunked, entry, job, crashes>>

\* Mutant of Discard: the call ends as if the row had never been wanted.
KeepJob(c) ==
    /\ At(c, "discard")
    /\ Leave(c, "ended")
    /\ UNCHANGED <<shape, home, forced, store, job, crashes>>

\* Taking a job back may fail, and leaves it to run unknown to anybody.
Discard(c) ==
    /\ At(c, "discard")
    /\ \/ job' = [job EXCEPT ![c] = "gone"] /\ Leave(c, "ended")
       \/ UNCHANGED job /\ Leave(c, "lost")
    /\ UNCHANGED <<shape, home, forced, store, crashes>>

\* The row of a chunked parent, and its first wave under the same lock.
RecordParent(c) ==
    /\ At(c, "plan")
    /\ \/ WriteRow(c) /\ chunked' = chunked \cup {c} /\ Goto(c, "wave") /\ UNCHANGED locks
       \/ Leave(c, "ended") /\ UNCHANGED <<row, latest, chunked>>
    /\ UNCHANGED <<shape, home, forced, entry, job, crashes>>

\* A wave that fails, or is cancelled, fails the parent.
Wave(c) ==
    /\ At(c, "wave")
    /\ row' \in {row, [row EXCEPT ![c] = "failed"]}
    /\ Leave(c, "ended")
    /\ UNCHANGED <<shape, home, forced, chunked, latest, entry, job, crashes>>

----------------------------------------------------------------------------
\* A caller gives a submit up: an order under way may still go through, and so
\* may the insertion of a row, whose job is then taken back under it.
Cut(c) ==
    /\ \/ /\ pc[c] \in {"wait", "cache", "rows", "estimate", "plan"}
          /\ Leave(c, "ended")
          /\ UNCHANGED <<row, latest, job>>
       \/ /\ At(c, "order")
          /\ job' \in {job, [job EXCEPT ![c] = "live"]}
          /\ Leave(c, "unheard")
          /\ UNCHANGED <<row, latest>>
       \/ /\ At(c, "record")
          /\ WriteRow(c) \/ UNCHANGED <<row, latest>>
          /\ Goto(c, "discard")
          /\ UNCHANGED <<job, locks>>
       \/ /\ At(c, "wave")
          /\ row' = [row EXCEPT ![c] = "failed"]
          /\ Leave(c, "ended")
          /\ UNCHANGED <<latest, job>>
    /\ UNCHANGED <<shape, home, forced, chunked, entry, crashes>>

\* The row is settled by a poll, a delivery or a cancel: with the delivery of a
\* single job its cache entry appears.
Settle(c) ==
    /\ row[c] \in Pending
    /\ \E s \in {"successful", "failed", "cancelled"} :
          /\ s = "successful" => job[c] = "live" \/ c \in chunked
          /\ row' = [row EXCEPT ![c] = s]
          /\ entry' = IF s = "successful" /\ c \notin chunked THEN c ELSE entry
    /\ job' = [job EXCEPT ![c] = IF c \in chunked THEN "none" ELSE "gone"]
    /\ UNCHANGED <<shape, home, forced, pc, locks, chunked, latest, crashes>>

Evict ==
    /\ entry # Nobody
    /\ entry' = Nobody
    /\ UNCHANGED <<shape, home, forced, pc, locks, row, chunked, latest, job, crashes>>

Crash(p) ==
    LET served == {c \in Calls : home[c] = p /\ pc[c] \in Inside \cup {"wait"}} IN
    /\ crashes < MaxCrashes
    /\ crashes' = crashes + 1
    /\ pc' = [c \in Calls |-> IF c \in served THEN "dead" ELSE pc[c]]
    /\ lock' = [c \in Calls |-> IF c \in served THEN Nobody ELSE lock[c]]
    /\ holder' = [l \in Calls |-> IF holder[l] \in served THEN Nobody ELSE holder[l]]
    /\ dict' = [dict EXCEPT ![p] = Nobody]
    /\ refs' = [refs EXCEPT ![p] = 0]
    /\ UNCHANGED <<shape, home, forced, store, job>>

----------------------------------------------------------------------------
Step(c) ==
    \/ Acquire(c) \/ LookAtCache(c) \/ LookAtRows(c) \/ Decide(c) \/ Order(c)
    \/ Record(c) \/ Discard(c) \/ RecordParent(c) \/ Wave(c)

Next ==
    \/ \E c \in Calls : Refuse(c) \/ Join(c) \/ Step(c) \/ Cut(c) \/ Settle(c)
    \/ Evict
    \/ \E p \in Processes : Crash(p)

Spec == Init /\ [][Next]_vars

\* Every call that can run does run; CDS answers an order.
FairSpec == Spec /\ \A c \in Calls : WF_vars(Step(c))

----------------------------------------------------------------------------
\* Two calls of one server are never between lookup and record at once: the
\* lock they wait for is the same instance as long as anybody refers to it.
OneInside ==
    \A c, d \in Calls :
       home[c] = home[d] /\ pc[c] \in Inside /\ pc[d] \in Inside => c = d

\* The dictionary holds a lock exactly while somebody refers to it, and it is
\* the lock they refer to: a submit leaves nothing behind.
LocksAreCounted ==
    \A p \in Processes :
       LET users == {c \in Calls : home[c] = p /\ lock[c] # Nobody} IN
       /\ refs[p] = 0 <=> users = {}
       /\ dict[p] = Nobody <=> users = {}
       /\ \A c \in users : lock[c] = dict[p]

\* Both, and the types they are stated over: what the reference-counted dictionary
\* of submit locks is for (submit, backend.py:3087-3106 and 3319-3338).
LockDiscipline == TypeOK /\ OneInside /\ LocksAreCounted

\* Unforced submits of one server never have two requests in flight, not after a
\* cancellation, a crash or an eviction either.  They look at the last row only,
\* so that this takes a key nobody forces and no other server submits.
OneOrderInFlight ==
    \A c, d \in Calls :
       /\ home[c] = home[d] /\ ~forced[c] /\ ~forced[d]
       /\ row[c] \in Pending /\ row[d] \in Pending
       => \/ c = d
          \/ \E e \in Calls : row[e] # "none" /\ (forced[e] \/ home[e] # home[c])

\* A job at CDS that no row names is about to be recorded or taken back.  There are
\* three exceptions: its submit never heard that CDS accepted it (it was given up, or its
\* call raised, with the order under way), CDS would not take it back, or its server died.
NoOrphanJob ==
    \A c \in Calls :
       job[c] = "live" /\ row[c] = "none" => pc[c] \in {"record", "discard", "unheard", "lost", "dead"}

\* A request for several models of a dataset that runs one per job is never
\* ordered as a single job, whatever options it comes with.
NeverWhole == \A c \in Calls : shape.models > 1 => job[c] = "none"

\* Every submit ends, so that the next one of the key gets its turn.
CallsEnd == \A c \in Calls : pc[c] = "wait" ~> pc[c] \in Over
=============================================================================
