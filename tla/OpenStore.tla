------------------------------- MODULE OpenStore -------------------------------
(***************************************************************************)
(* How a process opens the state database: whether its directory is on a   *)
(* network file system, and the ladder of bounded attempts that avoids a   *)
(* hang on the side files of an unclean shutdown                           *)
(* (persistence/fs_detect.py; SqliteBackend.initialise and its helpers).   *)
(*                                                                         *)
(* A path is a sequence of names, and mounts a set of [point, network]     *)
(* records.  What an attempt meets is a situation:                         *)
(*   holder  another process with the database open in WAL mode: "none",   *)
(*           "idle" or "writing"                                           *)
(*   wal     the write-ahead log: "none", "fresh", or "stale" for one that *)
(*           was not touched for a quarter of an hour                      *)
(*   wedged  the modes whose open fails as long as the log is there        *)
(*   slow    the attempts, by number, that time out all the same, and 0    *)
(*           when the probe of the write lock does                         *)
(***************************************************************************)
EXTENDS Naturals, SequencesExt

Situation == [holder : {"none", "idle", "writing"}, wal : {"none", "fresh", "stale"},
              wedged : SUBSET {"WAL", "DELETE"}, slow : SUBSET Nat]

\* _best_match: the longest mount point that is a prefix of the path; of two on the
\* same point, a network one.
BestMatch(mounts, path) ==
    LET above == {m \in mounts : IsPrefix(m.point, path)}
        deepest == {m \in above : \A n \in above : Len(n.point) <= Len(m.point)}
    IN  IF \E m \in deepest : m.network
        THEN {m \in deepest : m.network} ELSE deepest

\* Mutant of IsNetwork: the path as it is written decides.
IsNetworkAsWritten(mounts, resolved, literal) ==
    {m.network : m \in BestMatch(mounts, literal)}

\* is_network_filesystem: the resolved path decides, unless it matches nothing but the
\* root and the path as written matches more.  {} when no mount answers.  An
\* unresolvable path is an empty set of paths.
IsNetwork(mounts, resolved, literal) ==
    LET real   == UNION {BestMatch(mounts, r) : r \in resolved}
        spelt  == BestMatch(mounts, literal)
        AtRoot(ms) == \A m \in ms : m.point = <<>>
        chosen == IF real = {} \/ (AtRoot(real) /\ ~AtRoot(spelt)) THEN spelt ELSE real
    IN  {m.network : m \in chosen}

----------------------------------------------------------------------------
\* The holder keeps its log busy, and a mode change waits for it in vain.
Opens(mode, s, attempt) ==
    /\ attempt \notin s.slow
    /\ ~(s.wal # "none" /\ mode \in s.wedged)
    /\ ~(mode = "DELETE" /\ s.holder # "none")

\* _probe_write_lock: SQLite grants BEGIN IMMEDIATE while no other process writes.
LockProbe(s) == s.holder # "writing" /\ 0 \notin s.slow

\* _heal_stale_sidefiles: both side files are moved aside.
Heals(s) == s.wal = "stale" /\ LockProbe(s)
Healed(s) == IF Heals(s) THEN [s EXCEPT !.wal = "none"] ELSE s

Opened(mode, heals, tried)  == [mode |-> mode, heals |-> heals, tried |-> tried]

\* Second half of the ladder: DELETE, and DELETE again after a heal.
OpenDelete(s, heals, tried) ==
    LET n == Len(tried) + 1
    IN  IF Opens("DELETE", s, n)
        THEN Opened("DELETE", heals, Append(tried, "DELETE"))
        ELSE IF ~Heals(s)
        THEN Opened("unavailable", heals, Append(tried, "DELETE"))
        ELSE IF Opens("DELETE", Healed(s), n + 1)
        THEN Opened("DELETE", heals + 1, tried \o <<"DELETE", "DELETE">>)
        ELSE Opened("unavailable", heals + 1, tried \o <<"DELETE", "DELETE">>)

\* initialise: WAL is not tried on a network file system; otherwise it is tried, and
\* once more after a heal.
Open(network, s) ==
    IF network = {TRUE} THEN OpenDelete(s, 0, <<>>)
    ELSE IF Opens("WAL", s, 1) THEN Opened("WAL", 0, <<"WAL">>)
    ELSE IF ~Heals(s) THEN OpenDelete(s, 0, <<"WAL">>)
    ELSE IF Opens("WAL", Healed(s), 2) THEN Opened("WAL", 1, <<"WAL", "WAL">>)
    ELSE OpenDelete(Healed(s), 1, <<"WAL", "WAL">>)
=============================================================================
