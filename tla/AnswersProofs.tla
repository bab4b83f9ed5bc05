----------------------------- MODULE AnswersProofs -----------------------------
(***************************************************************************)
(* What Answers promises of its answers, for every set of questions that   *)
(* its assumptions admit.                                                  *)
(***************************************************************************)
EXTENDS Answers, FiniteSetTheorems, SequenceTheorems, TLAPS

----------------------------------------------------------------------------
(* The question stays, and is one of its kind's.                           *)

Questioned ==
    /\ kind = "split"  => ask \in Splits
    /\ kind = "size"   => ask \in Sizes
    /\ kind = "groups" => ask \in [query : Queries]
    /\ kind = "cards"  => ask \in Finds
    /\ kind = "cover"  => ask \in Covers
    /\ kind \in {"parent", "fetch"} => ask \in Parents
    /\ kind = "open"   => ask \in Openings
    /\ kind = "call"   => ask \in ToolCalls
    /\ kind = "jobs"   => ask \in Listings
    /\ kind = "index"  => ask \in Indices
    /\ kind = "files"  => ask \in FileLists

\* Nothing has been answered, or what was answered is what the kind's action answers.
Replied ==
    /\ Given("split")  => \E p \in Plans(ask) : answer = <<p>>
    /\ Given("size")   => answer = <<Estimate(ask.request, Rows(ask.past), ask.reply)>>
    /\ Given("groups") =>
         LET groups == SearchGroups(ask.query, TopGroups)
         IN  answer = <<[groups   |-> groups,
                         products |-> SearchProducts(groups.selected, ask.query, TopProducts)]>>
    /\ Given("cards")  =>
         answer = <<SearchInProducts(ask.asked, ask.query, ask.top, ask.boxes, ask.times)>>
    /\ Given("cover")  => answer = <<Coverage(ask.box, Enclosing(ask.extents))>>
    /\ Given("parent") => answer = <<View(ask.chunks, Aggregate(ask.chunks, ask.stopped))>>
    /\ Given("fetch")  =>
         answer = <<Fetch(ask.chunks, Aggregate(ask.chunks, ask.stopped), ask.repair, ask.lost)>>
    /\ Given("open")   =>
         answer = <<Open(IsNetwork(ask.mounts, ask.resolved, ask.literal), ask.situation)>>
    /\ Given("call")   => answer = <<Run(ask.enabled, ask.places, ask.fault, ask.call)>>
    /\ Given("jobs")   => answer = <<ListJobs(ask.rows, ask.statuses, ask.after, ask.limit)>>
    /\ Given("index")  => answer = <<Loads(ask.format, ask.loads, ask.source)>>
    /\ Given("files")  =>
         \E index \in Parse(ask.format, ask.source) :
            answer = <<Listing(IF ask.kept THEN FromParquet(index) ELSE index, ask.filter, ask.limit)>>

IInv == Questioned /\ Replied

LEMMA Begins == Init => IInv
BY DEF Init, IInv, Questioned, Replied, Given

\* Every action answers its own kind, and only once.
LEMMA Continues == IInv /\ [Next]_vars => IInv'
<1> SUFFICES ASSUME IInv, [Next]_vars PROVE IInv'
  OBVIOUS
<1> USE DEF IInv
<1>1. CASE UNCHANGED vars
  BY <1>1 DEF vars, Questioned, Replied, Given
<1>2. CASE Next
  <2>1. kind' = kind /\ ask' = ask /\ answer = <<>>
    BY <1>2 DEF Next, Asked, AnswerSplit, AnswerSize, AnswerGroups, AnswerCards, AnswerCover,
                AnswerParent, AnswerFetch, AnswerOpen, AnswerCall, AnswerJobs, AnswerIndex, AnswerFiles
  <2>2. Questioned'
    BY <2>1 DEF Questioned
  <2>3. Replied'
    BY <1>2, <2>1, Zenon DEF Next, Asked, AnswerSplit, AnswerSize, AnswerGroups, AnswerCards, AnswerCover,
                AnswerParent, AnswerFetch, AnswerOpen, AnswerCall, AnswerJobs, AnswerIndex, AnswerFiles,
                Replied, Given
  <2> QED
    BY <2>2, <2>3
<1> QED
  BY <1>1, <1>2

THEOREM Answering == Spec => []IInv
BY Begins, Continues, PTL DEF Spec

----------------------------------------------------------------------------
(* Opening the store.                                                      *)

Modes == {"WAL", "DELETE"}

\* What StoreOpens says of an opening, the file system apart.
Bounded(r, s) ==
    /\ r.tried \in Seq(Modes) /\ Len(r.tried) \in 1..4
    /\ r.heals \in 0..1
    /\ r.heals > 0 => Heals(s)
    /\ r.mode = "unavailable" =>
         /\ Last(r.tried) = "DELETE"
         /\ s.slow # {} \/ s.holder # "none" \/ (s.wal = "fresh" /\ "DELETE" \in s.wedged)

\* What the second half of the ladder adds: it starts with DELETE and never leaves a log.
DeleteEnds(r, s, heals, tried) ==
    /\ r.tried \in Seq(Modes) /\ Len(r.tried) \in 1..4
    /\ r.heals \in 0..1
    /\ r.heals > heals => Heals(s)
    /\ r.mode # "WAL"
    /\ tried = <<>> => r.tried[1] = "DELETE"
    /\ r.mode = "unavailable" =>
         /\ Last(r.tried) = "DELETE"
         /\ s.slow # {} \/ s.holder # "none" \/ (s.wal = "fresh" /\ "DELETE" \in s.wedged)

\* Once the log has been moved aside there is nothing left to heal.
LEMMA HealedOnce ==
    ASSUME NEW s \in Situation
    PROVE  /\ Healed(s) \in Situation
           /\ Heals(s) => Healed(s).wal = "none" /\ ~Heals(Healed(s))
           /\ Healed(s).holder = s.holder /\ Healed(s).slow = s.slow /\ Healed(s).wedged = s.wedged
BY DEF Situation, Heals, Healed, LockProbe

LEMMA DeleteTells ==
    ASSUME NEW s \in Situation, NEW heals \in 0..1, NEW tried \in Seq(Modes),
           Len(tried) <= 2, heals = 1 => ~Heals(s)
    PROVE  DeleteEnds(OpenDelete(s, heals, tried), s, heals, tried)
<1> DEFINE n == Len(tried) + 1
<1>1. /\ Append(tried, "DELETE") \in Seq(Modes)
      /\ Len(Append(tried, "DELETE")) = n
      /\ Last(Append(tried, "DELETE")) = "DELETE"
      /\ tried = <<>> => Append(tried, "DELETE")[1] = "DELETE"
  BY DEF Last, Modes
<1>2. LET t == tried \o <<"DELETE", "DELETE">>
      IN  /\ t \in Seq(Modes) /\ Len(t) = n + 1
          /\ Last(t) = "DELETE"
          /\ tried = <<>> => t[1] = "DELETE"
  <2> DEFINE two == <<"DELETE", "DELETE">>
             t == tried \o two
  <2>1. two \in Seq(Modes) /\ Len(two) = 2 /\ two[1] = "DELETE" /\ two[2] = "DELETE"
    BY DEF Modes
  <2> HIDE DEF two
  <2>2. /\ t \in Seq(Modes) /\ Len(t) = Len(tried) + Len(two)
        /\ \A i \in 1..Len(tried) + Len(two) :
             t[i] = IF i <= Len(tried) THEN tried[i] ELSE two[i - Len(tried)]
    BY <2>1, ConcatProperties, Zenon
  <2> HIDE DEF t
  <2>3. Len(t) = n + 1 /\ n + 1 \in 1..Len(tried) + Len(two) /\ ~(n + 1 <= Len(tried))
        /\ n + 1 - Len(tried) = 2 /\ 1 \in 1..Len(tried) + Len(two)
    BY <2>1, <2>2
  <2>4. t[n + 1] = two[2] /\ (Len(tried) = 0 => t[1] = two[1])
    BY <2>1, <2>2, <2>3
  <2>5. (tried = <<>> => t[1] = "DELETE") /\ Last(t) = "DELETE"
    BY <2>1, <2>3, <2>4 DEF Last
  <2> QED
    BY <2>2, <2>3, <2>5 DEF t, two
<1>3. n \in 1..3
  OBVIOUS
<1>4. ~Opens("DELETE", s, n) =>
        s.slow # {} \/ s.holder # "none" \/ (s.wal # "none" /\ "DELETE" \in s.wedged)
  BY DEF Opens
<1>5. ~Opens("DELETE", s, n) /\ ~Heals(s) =>
        s.slow # {} \/ s.holder # "none" \/ (s.wal = "fresh" /\ "DELETE" \in s.wedged)
  BY <1>4 DEF Situation, Heals, LockProbe
<1>6. Heals(s) /\ ~Opens("DELETE", Healed(s), n + 1) => s.slow # {} \/ s.holder # "none"
  BY HealedOnce DEF Opens
<1>7. heals + 1 > heals /\ (Heals(s) => heals + 1 \in 0..1)
  OBVIOUS
<1> DEFINE one == Append(tried, "DELETE")
           two == tried \o <<"DELETE", "DELETE">>
<1> HIDE DEF one, two
<1>8. OpenDelete(s, heals, tried) =
        IF Opens("DELETE", s, n) THEN Opened("DELETE", heals, one)
        ELSE IF ~Heals(s) THEN Opened("unavailable", heals, one)
        ELSE IF Opens("DELETE", Healed(s), n + 1) THEN Opened("DELETE", heals + 1, two)
        ELSE Opened("unavailable", heals + 1, two)
  BY DEF OpenDelete, one, two
<1>9. /\ one \in Seq(Modes) /\ Len(one) \in 1..4 /\ Last(one) = "DELETE"
      /\ two \in Seq(Modes) /\ Len(two) \in 1..4 /\ Last(two) = "DELETE"
      /\ tried = <<>> => one[1] = "DELETE" /\ two[1] = "DELETE"
  BY <1>1, <1>2, <1>3 DEF one, two
<1> HIDE DEF n
<1>10. CASE Opens("DELETE", s, n)
  BY <1>7, <1>8, <1>9, <1>10 DEF Opened, DeleteEnds
<1>11. CASE ~Opens("DELETE", s, n) /\ ~Heals(s)
  BY <1>5, <1>7, <1>8, <1>9, <1>11 DEF Opened, DeleteEnds
<1>12. CASE ~Opens("DELETE", s, n) /\ Heals(s) /\ Opens("DELETE", Healed(s), n + 1)
  BY <1>7, <1>8, <1>9, <1>12 DEF Opened, DeleteEnds
<1>13. CASE ~Opens("DELETE", s, n) /\ Heals(s) /\ ~Opens("DELETE", Healed(s), n + 1)
  BY <1>6, <1>7, <1>8, <1>9, <1>13 DEF Opened, DeleteEnds
<1> QED
  BY <1>10, <1>11, <1>12, <1>13

LEMMA OpenTells ==
    ASSUME NEW s \in Situation, NEW network
    PROVE  Bounded(Open(network, s), s)
<1>1. Bounded(Opened("WAL", 0, <<"WAL">>), s)
  BY DEF Bounded, Opened, Modes
<1>2. Heals(s) => Bounded(Opened("WAL", 1, <<"WAL", "WAL">>), s)
  BY DEF Bounded, Opened, Modes
<1>3. Bounded(OpenDelete(s, 0, <<>>), s)
  <2> DEFINE r == OpenDelete(s, 0, <<>>)
  <2>1. <<>> \in Seq(Modes) /\ Len(<<>>) <= 2 /\ 0 \in 0..1 /\ (0 = 1 => ~Heals(s))
    BY DEF Modes
  <2>2. DeleteEnds(r, s, 0, <<>>)
    BY <2>1, DeleteTells, Zenon
  <2> QED
    BY <2>2 DEF DeleteEnds, Bounded
<1>4. Bounded(OpenDelete(s, 0, <<"WAL">>), s)
  <2> DEFINE r == OpenDelete(s, 0, <<"WAL">>)
  <2>1. <<"WAL">> \in Seq(Modes) /\ Len(<<"WAL">>) <= 2 /\ 0 \in 0..1 /\ (0 = 1 => ~Heals(s))
    BY DEF Modes
  <2>2. DeleteEnds(r, s, 0, <<"WAL">>)
    BY <2>1, DeleteTells, Zenon
  <2> QED
    BY <2>2 DEF DeleteEnds, Bounded
<1>5. ASSUME Heals(s) PROVE Bounded(OpenDelete(Healed(s), 1, <<"WAL", "WAL">>), s)
  <2> DEFINE r == OpenDelete(Healed(s), 1, <<"WAL", "WAL">>)
  <2>1. /\ Healed(s) \in Situation /\ ~Heals(Healed(s)) /\ Healed(s).wal = "none"
        /\ Healed(s).holder = s.holder /\ Healed(s).slow = s.slow
    BY <1>5, HealedOnce
  <2>2. <<"WAL", "WAL">> \in Seq(Modes) /\ Len(<<"WAL", "WAL">>) <= 2 /\ 1 \in 0..1
    BY DEF Modes
  <2>3. DeleteEnds(r, Healed(s), 1, <<"WAL", "WAL">>)
    BY <2>1, <2>2, DeleteTells, Zenon
  <2> QED
    BY <1>5, <2>1, <2>3 DEF DeleteEnds, Bounded
<1> QED
  BY <1>1, <1>2, <1>3, <1>4, <1>5 DEF Open

\* What is_network_filesystem says of a path below a network mount of its own.
LEMMA MountDecides ==
    ASSUME IInv, kind = "open", OnNetwork
    PROVE  IsNetwork(ask.mounts, ask.resolved, ask.literal) = {TRUE}
<1>1. PICK p \in ask.resolved, m \in ask.mounts :
        /\ m.network /\ m.point # <<>> /\ IsPrefix(m.point, p)
        /\ \A n \in ask.mounts : IsPrefix(n.point, p) => Len(n.point) <= Len(m.point)
  BY DEF OnNetwork
<1>2. /\ ask.resolved = {p}
      /\ \A n \in ask.mounts : n.network \in BOOLEAN /\ n.point \in Seq(STRING)
  BY OpeningsAssumption DEF IInv, Questioned
<1> DEFINE best == BestMatch(ask.mounts, p)
<1>3. m \in best /\ \A b \in best : b \in ask.mounts /\ b.network
  BY <1>1, <1>2 DEF BestMatch
<1>4. UNION {BestMatch(ask.mounts, r) : r \in ask.resolved} = best
  BY <1>2
<1> HIDE DEF best
<1>5. best # {} /\ ~ \A b \in best : b.point = <<>>
  BY <1>1, <1>3
<1>6. IsNetwork(ask.mounts, ask.resolved, ask.literal) = {b.network : b \in best}
  BY <1>4, <1>5 DEF IsNetwork
<1> QED
  BY <1>2, <1>3, <1>6

\* A start makes at most four attempts to open the database, never uses the log of one on
\* a network file system, and moves aside only the log of one nobody is writing
\* (SqliteBackend.initialise, is_network_filesystem).
THEOREM StartsBounded == Spec => []StoreOpens
<1>1. IInv => StoreOpens
  <2> SUFFICES ASSUME IInv, Given("open") PROVE StoreOpens
    BY DEF StoreOpens
  <2> DEFINE network == IsNetwork(ask.mounts, ask.resolved, ask.literal)
             s == ask.situation
  <2>1. s \in Situation
    BY OpeningsAssumption DEF IInv, Questioned, Given
  <2>2. Reply = Open(network, s)
    BY DEF IInv, Replied, Given, Reply
  <2>3. Bounded(Reply, s)
    BY <2>1, <2>2, OpenTells
  <2>4. ASSUME OnNetwork PROVE Reply.mode # "WAL" /\ Reply.tried[1] = "DELETE"
    <3>1. Reply = OpenDelete(s, 0, <<>>)
      BY <2>2, <2>4, MountDecides DEF Open, Given
    <3>2. <<>> \in Seq(Modes) /\ Len(<<>>) <= 2 /\ 0 \in 0..1 /\ (0 = 1 => ~Heals(s))
      BY DEF Modes
    <3>3. DeleteEnds(Reply, s, 0, <<>>)
      BY <2>1, <3>1, <3>2, DeleteTells, Zenon
    <3> QED
      BY <3>3 DEF DeleteEnds
  <2>5. Heals(s) => s.wal = "stale" /\ s.holder # "writing"
    BY DEF Heals, LockProbe
  <2> QED
    BY <2>3, <2>4, <2>5 DEF Bounded, StoreOpens
<1> QED
  BY <1>1, Answering, PTL

----------------------------------------------------------------------------
(* Chunked parents.                                                        *)

\* What the bucket a chunk is counted in says of the chunk.
LEMMA StateMeans ==
    ASSUME NEW c \in Chunk, NEW status
    PROVE  /\ StateOf(c, status) \in States
           /\ StateOf(c, status) = "successful" <=> c.child /\ c.row = "successful"
           /\ c.child /\ c.row = "failed" /\ ~c.pending => StateOf(c, status) = "failed"
           /\ c.child /\ c.row = "cancelled" => StateOf(c, status) = "cancelled"
           /\ status \in Terminal => StateOf(c, status) # "retrying"
           /\ StateOf(c, status) = "downloading" => c.row \notin Terminal /\ c.phase = "downloading"
<1>1. RowState(c) \in Terminal \cup {"running", "queued"}
  BY DEF Chunk, RowState, Terminal
<1> QED
  BY <1>1 DEF Chunk, StateOf, RowState, States, Terminal, Phases

LEMMA AggregateMeans ==
    ASSUME NEW chunks \in Seq(Chunk) \ {<<>>}, NEW stopped \in BOOLEAN
    PROVE  LET status == Aggregate(chunks, stopped)
           IN  /\ status = "successful" <=>
                    ~stopped /\ \A i \in DOMAIN chunks : chunks[i].child /\ chunks[i].row = "successful"
               /\ status = "failed" =>
                    \E i \in DOMAIN chunks :
                       /\ chunks[i].child
                       /\ \/ chunks[i].row = "failed" /\ ~chunks[i].pending
                          \/ chunks[i].row = "cancelled"
<1> DEFINE Sent == {i \in DOMAIN chunks : chunks[i].child}
           Seen(i) == IF chunks[i].row = "failed" /\ chunks[i].pending THEN "running"
                      ELSE chunks[i].row
<1>1. Aggregate(chunks, stopped) =
        IF \E i \in Sent : Seen(i) = "failed" THEN "failed"
        ELSE IF stopped THEN "cancelled"
        ELSE IF \E i \in Sent : Seen(i) = "cancelled" THEN "failed"
        ELSE IF Sent # {} /\ Sent = DOMAIN chunks /\ \A i \in Sent : Seen(i) = "successful"
        THEN "successful"
        ELSE IF Sent # {} THEN "running" ELSE "queued"
  BY DEF Aggregate
<1>2. DOMAIN chunks # {}
  OBVIOUS
<1>3. \A i : /\ Seen(i) = "failed" => chunks[i].row = "failed" /\ ~chunks[i].pending
             /\ Seen(i) = "cancelled" => chunks[i].row = "cancelled"
             /\ Seen(i) = "successful" <=> chunks[i].row = "successful"
  OBVIOUS
<1>4. Aggregate(chunks, stopped) = "failed" =>
        \E i \in Sent : Seen(i) = "failed" \/ Seen(i) = "cancelled"
  BY <1>1
<1>5. Aggregate(chunks, stopped) = "successful" <=>
        ~stopped /\ Sent = DOMAIN chunks /\ \A i \in Sent : Seen(i) = "successful"
  BY <1>1, <1>2
<1> QED
  BY <1>3, <1>4, <1>5

LEMMA DisjointSum ==
    ASSUME NEW S, NEW T, IsFiniteSet(S), IsFiniteSet(T), S \cap T = {}
    PROVE  IsFiniteSet(S \cup T) /\ Cardinality(S \cup T) = Cardinality(S) + Cardinality(T)
BY FS_Union, FS_EmptySet, FS_CardinalityType

\* Every chunk is counted once.
LEMMA CountsAddUp ==
    ASSUME NEW chunks \in Seq(Chunk), NEW status
    PROVE  LET n == [s \in States |-> Cardinality(In(chunks, status, s))]
           IN  /\ Total(n) = Len(chunks)
               /\ \A s \in States : n[s] \in Nat /\ IsFiniteSet(In(chunks, status, s))
<1> DEFINE B(s) == In(chunks, status, s)
           n == [s \in States |-> Cardinality(B(s))]
<1>1. IsFiniteSet(DOMAIN chunks) /\ Cardinality(DOMAIN chunks) = Len(chunks)
  <2>1. DOMAIN chunks = 1..Len(chunks) /\ Len(chunks) \in Nat
    OBVIOUS
  <2> QED
    BY <2>1, FS_Interval
<1>2. \A s : B(s) \subseteq DOMAIN chunks /\ IsFiniteSet(B(s)) /\ Cardinality(B(s)) \in Nat
  BY <1>1, FS_Subset, FS_CardinalityType DEF In
<1>3. \A s, t : s # t => B(s) \cap B(t) = {}
  BY DEF In
<1>4. DOMAIN chunks = B("successful") \cup B("failed") \cup B("cancelled") \cup B("running")
                      \cup B("downloading") \cup B("retrying") \cup B("queued")
  <2>1. \A i \in DOMAIN chunks : StateOf(chunks[i], status) \in States
    BY StateMeans
  <2> QED
    BY <2>1 DEF In, States, Terminal
<1> HIDE DEF B
<1> DEFINE U2 == B("successful") \cup B("failed")
           U3 == U2 \cup B("cancelled")
           U4 == U3 \cup B("running")
           U5 == U4 \cup B("downloading")
           U6 == U5 \cup B("retrying")
<1>5. IsFiniteSet(U2) /\ Cardinality(U2) = Cardinality(B("successful")) + Cardinality(B("failed"))
  BY <1>2, <1>3, DisjointSum
<1>6. IsFiniteSet(U3) /\ Cardinality(U3) = Cardinality(U2) + Cardinality(B("cancelled"))
  BY <1>2, <1>3, <1>5, DisjointSum
<1>7. IsFiniteSet(U4) /\ Cardinality(U4) = Cardinality(U3) + Cardinality(B("running"))
  BY <1>2, <1>3, <1>6, DisjointSum
<1>8. IsFiniteSet(U5) /\ Cardinality(U5) = Cardinality(U4) + Cardinality(B("downloading"))
  BY <1>2, <1>3, <1>7, DisjointSum
<1>9. IsFiniteSet(U6) /\ Cardinality(U6) = Cardinality(U5) + Cardinality(B("retrying"))
  BY <1>2, <1>3, <1>8, DisjointSum
<1>10. Cardinality(DOMAIN chunks) = Cardinality(U6) + Cardinality(B("queued"))
  <2>1. DOMAIN chunks = U6 \cup B("queued")
    BY <1>4
  <2>2. U6 \cap B("queued") = {}
    BY <1>3
  <2> HIDE DEF U6
  <2> QED
    BY <1>2, <1>9, <2>1, <2>2, DisjointSum
<1>11. Total(n) = Cardinality(B("successful")) + Cardinality(B("failed")) + Cardinality(B("cancelled"))
                  + Cardinality(B("running")) + Cardinality(B("downloading"))
                  + Cardinality(B("retrying")) + Cardinality(B("queued"))
  <2>1. \A s \in States : n[s] = Cardinality(B(s))
    OBVIOUS
  <2>2. {"successful", "failed", "cancelled", "running", "downloading", "retrying", "queued"}
          \subseteq States
    BY DEF States, Terminal
  <2> HIDE DEF n
  <2>3. /\ n["successful"] = Cardinality(B("successful")) /\ n["failed"] = Cardinality(B("failed"))
        /\ n["cancelled"] = Cardinality(B("cancelled")) /\ n["running"] = Cardinality(B("running"))
        /\ n["downloading"] = Cardinality(B("downloading"))
        /\ n["retrying"] = Cardinality(B("retrying")) /\ n["queued"] = Cardinality(B("queued"))
    BY <2>1, <2>2, Zenon
  <2> QED
    BY <2>3 DEF Total
<1> HIDE DEF U2, U3, U4, U5, U6, n
<1>12. Total(n) = Len(chunks)
  BY <1>1, <1>2, <1>5, <1>6, <1>7, <1>8, <1>9, <1>10, <1>11
<1> QED
  BY <1>2, <1>12 DEF B, n

\* What the set of result files says, the last look at the cache included.
FetchTells(r, chunks, status, repair) ==
    /\ r.answer = "complete" =>
         /\ status = "successful"
         /\ \A i \in DOMAIN chunks : chunks[i].cached \/ repair[i] = "back"
    /\ r.answer = "order again" => \E i \in DOMAIN chunks : repair[i] = "expired"
    /\ status = "successful" /\ Described(chunks) = DOMAIN chunks => r.answer = "complete"

LEMMA FetchMeans ==
    ASSUME NEW chunks \in Seq(Chunk), NEW status, NEW repair, NEW lost
    PROVE  FetchTells(Fetch(chunks, status, repair, lost), chunks, status, repair)
<1> DEFINE evicted  == DOMAIN chunks \ Described(chunks)
           repaired == {i \in evicted : chunks[i].child /\ chunks[i].row = "successful"}
           Now(i)   == [chunks[i] EXCEPT !.cached =
                           /\ i \notin lost
                           /\ chunks[i].cached \/ (i \in repaired /\ repair[i] = "back")]
           later    == [i \in DOMAIN chunks |-> Now(i)]
           files    == IF status # "successful" \/ evicted = {} THEN Described(chunks)
                       ELSE Described(later)
           Lacks(outcome) == \E i \in repaired \ files : repair[i] = outcome
           r == Fetch(chunks, status, repair, lost)
<1>1. r.answer = IF status # "successful" THEN "no result"
                 ELSE IF Lacks("expired") THEN "order again"
                 ELSE IF Lacks("not_ready") THEN "call again"
                 ELSE IF files # DOMAIN chunks THEN "evicted"
                 ELSE "complete"
  BY DEF Fetch
<1>2. Described(chunks) \subseteq DOMAIN chunks
      /\ \A i \in Described(chunks) : chunks[i].cached
  BY DEF Described
<1>3. \A i \in Described(later) : chunks[i].cached \/ repair[i] = "back"
  <2> SUFFICES ASSUME NEW i \in Described(later) PROVE chunks[i].cached \/ repair[i] = "back"
    OBVIOUS
  <2>1. i \in DOMAIN chunks /\ later[i] = Now(i) /\ later[i].cached
    BY DEF Described
  <2>2. chunks[i] \in Chunk
    BY <2>1
  <2>3. Now(i).cached = (/\ i \notin lost
                         /\ chunks[i].cached \/ (i \in repaired /\ repair[i] = "back"))
    BY <2>2 DEF Chunk
  <2> QED
    BY <2>1, <2>3
<1> HIDE DEF later, r
<1>4. r.answer = "complete" =>
        status = "successful" /\ \A i \in DOMAIN chunks : chunks[i].cached \/ repair[i] = "back"
  BY <1>1, <1>2, <1>3
<1>5. r.answer = "order again" => \E i \in DOMAIN chunks : repair[i] = "expired"
  BY <1>1
<1>6. status = "successful" /\ Described(chunks) = DOMAIN chunks => r.answer = "complete"
  BY <1>1
<1> QED
  BY <1>4, <1>5, <1>6 DEF r, FetchTells

LEMMA ParentAnswers == IInv /\ Given("parent") => ParentTellsWhole
<1> SUFFICES ASSUME IInv, Given("parent") PROVE ParentTellsWhole
  OBVIOUS
<1> DEFINE chunks == ask.chunks
           status == StatusNow
           C(s) == In(chunks, status, s)
<1>1. chunks \in Seq(Chunk) \ {<<>>} /\ ask.stopped \in BOOLEAN
  BY ParentsAssumption DEF IInv, Questioned, Given
<1>2. Reply = View(chunks, status)
  BY DEF IInv, Replied, Given, Reply, StatusNow
<1>3. /\ Reply.status = status /\ Reply.counts = [s \in States |-> Cardinality(C(s))]
      /\ Reply.promoted = Promoted(chunks, status)
      /\ Reply.complete => status = "successful" /\ Described(chunks) = DOMAIN chunks
  BY <1>2 DEF View, Terminal
<1>4. /\ Total(Reply.counts) = Len(chunks)
      /\ \A s \in States : Reply.counts[s] \in Nat /\ IsFiniteSet(C(s))
                           /\ Reply.counts[s] = Cardinality(C(s))
  BY <1>1, <1>3, CountsAddUp
<1>5. \A i \in DOMAIN chunks : chunks[i] \in Chunk
  BY <1>1
<1>6. {"successful", "failed", "cancelled", "retrying", "downloading"} \subseteq States
  BY DEF States, Terminal
<1>7. status = "successful" <=> ~ask.stopped /\ Reply.counts["successful"] = Len(chunks)
  <2>1. C("successful") = {i \in DOMAIN chunks : chunks[i].child /\ chunks[i].row = "successful"}
    BY <1>5, StateMeans DEF In
  <2>2. DOMAIN chunks = 1..Len(chunks) /\ Len(chunks) \in Nat
    BY <1>1
  <2>3. IsFiniteSet(DOMAIN chunks) /\ Cardinality(DOMAIN chunks) = Len(chunks)
    BY <2>2, FS_Interval
  <2>4. Reply.counts["successful"] = Len(chunks) <=> C("successful") = DOMAIN chunks
    BY <1>4, <1>6, <2>1, <2>3, FS_Subset
  <2> QED
    BY <1>1, <2>1, <2>4, AggregateMeans DEF StatusNow
<1>8. status = "failed" => Reply.counts["failed"] + Reply.counts["cancelled"] > 0
  <2> SUFFICES ASSUME status = "failed" PROVE Reply.counts["failed"] + Reply.counts["cancelled"] > 0
    OBVIOUS
  <2>1. PICK i \in DOMAIN chunks : chunks[i].child /\ \/ chunks[i].row = "failed" /\ ~chunks[i].pending
                                                      \/ chunks[i].row = "cancelled"
    BY <1>1, AggregateMeans DEF StatusNow
  <2>2. i \in C("failed") \/ i \in C("cancelled")
    BY <1>5, <2>1, StateMeans DEF In
  <2>3. \A s \in States : i \in C(s) => Reply.counts[s] # 0
    BY <1>4, FS_EmptySet
  <2> QED
    BY <1>4, <1>6, <2>2, <2>3
<1>9. status \in Terminal => Reply.counts["retrying"] = 0
  <2>1. status \in Terminal => C("retrying") = {}
    BY <1>5, StateMeans DEF In
  <2> QED
    BY <1>4, <1>6, <2>1, FS_EmptySet
<1>10. Reply.promoted =>
         \A i \in DOMAIN chunks : \/ chunks[i].row = "successful"
                                  \/ chunks[i].row \notin Terminal /\ chunks[i].phase = "downloading"
  <2> SUFFICES ASSUME Reply.promoted, NEW i \in DOMAIN chunks
               PROVE  \/ chunks[i].row = "successful"
                      \/ chunks[i].row \notin Terminal /\ chunks[i].phase = "downloading"
    OBVIOUS
  <2>1. \A s \in States \ {"downloading", "successful"} : C(s) = {}
    BY <1>3 DEF Promoted
  <2>2. StateOf(chunks[i], status) \in {"downloading", "successful"}
    BY <1>5, <2>1, StateMeans DEF In
  <2> QED
    BY <1>5, <2>2, StateMeans
<1>11. Reply.complete => \A i \in DOMAIN chunks : chunks[i].cached
  BY <1>3 DEF Described
<1> QED
  BY <1>3, <1>4, <1>7, <1>8, <1>9, <1>10, <1>11 DEF ParentTellsWhole, Given

LEMMA FetchAnswers == IInv /\ Given("fetch") => ParentTellsWhole
<1> SUFFICES ASSUME IInv, Given("fetch") PROVE ParentTellsWhole
  OBVIOUS
<1> DEFINE chunks == ask.chunks
<1>1. chunks \in Seq(Chunk) \ {<<>>} /\ ask.stopped \in BOOLEAN
  BY ParentsAssumption DEF IInv, Questioned, Given
<1>2. Reply = Fetch(chunks, StatusNow, ask.repair, ask.lost)
  BY DEF IInv, Replied, Given, Reply, StatusNow
<1>3. StatusNow = "successful" =>
        \A i \in DOMAIN chunks : chunks[i].child /\ chunks[i].row = "successful"
  BY <1>1, AggregateMeans DEF StatusNow
<1>4. StatusNow = "successful" /\ (\A i \in DOMAIN chunks : chunks[i].cached) =>
        Described(chunks) = DOMAIN chunks
  BY <1>3 DEF Described
<1>5. FetchTells(Reply, chunks, StatusNow, ask.repair)
  <2>1. chunks \in Seq(Chunk)
    BY <1>1
  <2> QED
    BY <1>2, <2>1, FetchMeans
<1>6. ~Given("parent")
  BY DEF Given
<1> QED
  BY <1>3, <1>4, <1>5, <1>6 DEF ParentTellsWhole, FetchTells

\* What a caller is told of a parent of any number of chunks adds up to its chunks, and
\* what is called complete is there (_chunk_parent_response, _fetch_chunk_parent_result).
THEOREM ParentsToldWhole == Spec => []ParentTellsWhole
<1>1. IInv => ParentTellsWhole
  BY ParentAnswers, FetchAnswers DEF ParentTellsWhole
<1> QED
  BY <1>1, Answering, PTL

----------------------------------------------------------------------------
(* Sorting.  A strict total order is given as the set of its pairs.        *)

Orders(S, R) ==
    /\ \A x \in S : <<x, x>> \notin R
    /\ \A x, y, z \in S : <<x, y>> \in R /\ <<y, z>> \in R => <<x, z>> \in R
    /\ \A x, y \in S : x # y => <<x, y>> \in R \/ <<y, x>> \in R

\* An injection of as many numbers reaches every element.
LEMMA SeqsCover ==
    ASSUME NEW S, IsFiniteSet(S), NEW s \in SetToSeqs(S)
    PROVE  /\ Cardinality(S) \in Nat
           /\ s \in Seq(S) /\ Len(s) = Cardinality(S) /\ DOMAIN s = 1..Cardinality(S)
           /\ \A x \in S : \E i \in DOMAIN s : s[i] = x
           /\ \A i, j \in DOMAIN s : s[i] = s[j] => i = j
<1> DEFINE n == Cardinality(S)
<1>1. n \in Nat
  BY FS_CardinalityType
<1>2. s \in [1..n -> S] /\ \A i, j \in 1..n : i # j => s[i] # s[j]
  BY DEF SetToSeqs
<1>3. IsFiniteSet(1..n) /\ Cardinality(1..n) = n
  BY <1>1, FS_Interval
<1>4. s \in Injection(1..n, S)
  BY <1>2 DEF Injection, IsInjective
<1>5. s \in Surjection(1..n, S)
  BY <1>3, <1>4, FS_Injection
<1> QED
  BY <1>1, <1>2, <1>5 DEF Surjection

LEMMA SmallerSet ==
    ASSUME NEW T, IsFiniteSet(T), NEW S \in SUBSET T, S # T
    PROVE  /\ Cardinality(S) \in Nat /\ Cardinality(T) \in Nat
           /\ Cardinality(S) < Cardinality(T)
<1>1. /\ IsFiniteSet(S) /\ Cardinality(S) <= Cardinality(T)
      /\ Cardinality(T) = Cardinality(S) => T = S
  BY FS_Subset, Zenon
<1>2. Cardinality(S) \in Nat /\ Cardinality(T) \in Nat
  BY <1>1, FS_CardinalityType
<1> QED
  BY <1>1, <1>2

\* The k-th element is the one with k - 1 before it.
LEMMA SortedExists ==
    ASSUME NEW S, IsFiniteSet(S), NEW R, Orders(S, R)
    PROVE  \E s \in SetToSeqs(S) : \A i, j \in DOMAIN s : i < j => <<s[i], s[j]>> \in R
<1> DEFINE n == Cardinality(S)
           Below(x) == {y \in S : <<y, x>> \in R}
           rank == [x \in S |-> Cardinality(Below(x)) + 1]
<1>1. n \in Nat /\ IsFiniteSet(1..n) /\ Cardinality(1..n) = n
  <2>1. n \in Nat
    BY FS_CardinalityType
  <2> QED
    BY <2>1, FS_Interval
<1>2. \A x \in S : Below(x) \in SUBSET S /\ Below(x) # S /\ IsFiniteSet(Below(x))
  <2>1. \A x \in S : Below(x) \in SUBSET S /\ x \notin Below(x)
    BY DEF Orders
  <2> QED
    BY <2>1, FS_Subset
<1>3. \A x, y \in S : <<y, x>> \in R => Below(y) \in SUBSET Below(x) /\ Below(y) # Below(x)
  BY DEF Orders
<1>4. \A x \in S : rank[x] = Cardinality(Below(x)) + 1
  OBVIOUS
<1> HIDE DEF Below, rank
<1>5. rank \in [S -> 1..n]
  <2>1. \A x \in S : Cardinality(Below(x)) \in Nat /\ Cardinality(Below(x)) < n
    BY <1>2, SmallerSet
  <2>2. \A x \in S : rank[x] \in 1..n
    BY <1>1, <1>4, <2>1
  <2> QED
    BY <2>2 DEF rank
<1>6. \A x, y \in S : <<y, x>> \in R => rank[y] < rank[x]
  <2>1. \A x, y \in S : <<y, x>> \in R =>
          /\ Cardinality(Below(x)) \in Nat /\ Cardinality(Below(y)) \in Nat
          /\ Cardinality(Below(y)) < Cardinality(Below(x))
    BY <1>2, <1>3, SmallerSet
  <2> QED
    BY <1>4, <2>1
<1>7. rank \in Injection(S, 1..n)
  <2>1. \A x, y \in S : rank[x] = rank[y] => x = y
    <3> SUFFICES ASSUME NEW x \in S, NEW y \in S, rank[x] = rank[y], x # y PROVE FALSE
      OBVIOUS
    <3>1. rank[x] < rank[y] \/ rank[y] < rank[x]
      BY <1>6 DEF Orders
    <3> QED
      BY <1>5, <3>1
  <2> QED
    BY <1>5, <2>1 DEF Injection, IsInjective
<1>8. rank \in Surjection(S, 1..n)
  BY <1>1, <1>7, FS_Injection
<1> DEFINE s == [k \in 1..n |-> CHOOSE x \in S : rank[x] = k]
<1>9. \A k \in 1..n : s[k] \in S /\ rank[s[k]] = k
  BY <1>8 DEF Surjection
<1>10. s \in [1..n -> S] /\ DOMAIN s = 1..n
  BY <1>9
<1> HIDE DEF s
<1>11. s \in SetToSeqs(S)
  BY <1>9, <1>10 DEF SetToSeqs
<1>12. \A i, j \in DOMAIN s : i < j => <<s[i], s[j]>> \in R
  <2> SUFFICES ASSUME NEW i \in 1..n, NEW j \in 1..n, i < j PROVE <<s[i], s[j]>> \in R
    BY <1>10
  <2>1. s[i] \in S /\ s[j] \in S /\ rank[s[i]] = i /\ rank[s[j]] = j
    BY <1>9
  <2>2. s[i] # s[j] /\ ~(<<s[j], s[i]>> \in R)
    BY <1>1, <1>6, <2>1
  <2> QED
    BY <2>1, <2>2 DEF Orders
<1> QED
  BY <1>11, <1>12

----------------------------------------------------------------------------
(* Calls.                                                                  *)

LEMMA FirstWhole ==
    ASSUME NEW whole \in [1..4 -> BOOLEAN]
    PROVE  LET first == SelectInSeq(whole, LAMBDA w : w)
           IN  /\ first \in 0..4
               /\ first # 0 => whole[first] /\ \A j \in 1..(first - 1) : ~whole[j]
               /\ first = 0 => \A j \in 1..4 : ~whole[j]
<1> DEFINE I == {i \in 1..Len(whole) : whole[i]}
           first == SelectInSeq(whole, LAMBDA w : w)
<1>1. I = {i \in 1..4 : whole[i]}
  <2>1. Len(whole) = 4
    OBVIOUS
  <2> QED
    BY <2>1
<1>2. first = IF I # {} THEN (CHOOSE x \in I : \A y \in I : x <= y) ELSE 0
  BY DEF SelectInSeq, Min
<1>3. I # {} => \E x \in I : \A y \in I : x <= y
  <2>1. CASE whole[1]
    BY <1>1, <2>1
  <2>2. CASE ~whole[1] /\ whole[2]
    BY <1>1, <2>2
  <2>3. CASE ~whole[1] /\ ~whole[2] /\ whole[3]
    BY <1>1, <2>3
  <2>4. CASE ~whole[1] /\ ~whole[2] /\ ~whole[3]
    BY <1>1, <2>4
  <2> QED
    BY <2>1, <2>2, <2>3, <2>4
<1> HIDE DEF I, first
<1>4. CASE I = {}
  BY <1>1, <1>2, <1>4 DEF first
<1>5. CASE I # {}
  <2>1. first \in I /\ \A y \in I : first <= y
    BY <1>2, <1>3, <1>5
  <2> QED
    BY <1>1, <2>1 DEF first
<1> QED
  BY <1>4, <1>5

\* An account is used whole or not at all, and of the first place that has it whole.
LEMMA CredentialsMean ==
    ASSUME NEW backend \in Backends, NEW places \in [Sources -> SUBSET STRING], NEW fault \in Faults
    PROVE  LET used == Credentials(backend, places, fault)
               Has(s) == Needed[backend] \subseteq places[s]
           IN  /\ used.fields # {} =>
                    /\ Needed[backend] \subseteq used.fields
                    /\ used.fields \subseteq places[used.source]
                    /\ used.source = "config_file" => ~Has("env") /\ ~Has("explicit")
               /\ Has("env") => used.fields # {}
<1> DEFINE whole == [i \in 1..4 |-> Complete(backend, FieldsAt(places, fault, Order[i]))]
           first == SelectInSeq(whole, LAMBDA w : w)
           used == Credentials(backend, places, fault)
           Has(s) == Needed[backend] \subseteq places[s]
<1>1. /\ Order[1] = "explicit" /\ Order[2] = "secret_manager" /\ Order[3] = "env"
      /\ Order[4] = "config_file"
  BY DEF Order
<1>2. \A i \in 1..4 : Order[i] \in Sources /\ FieldsAt(places, fault, Order[i]) \subseteq places[Order[i]]
  BY <1>1 DEF Sources, ToSet, Order, FieldsAt
<1>3. Needed[backend] # {} /\ Needed[backend] \subseteq Allowed[backend]
  BY DEF Backends, Needed, Allowed
<1>5. \A i \in 1..4 : whole[i] = (Needed[backend] \subseteq FieldsAt(places, fault, Order[i]))
  BY DEF Complete
<1>6. whole \in [1..4 -> BOOLEAN]
  BY DEF Complete
<1>7. /\ used.source = IF first # 0 THEN Order[first]
                       ELSE IF backend = "cmems" /\ fault = "garbled" THEN "error" ELSE "missing"
      /\ used.fields = IF first # 0
                       THEN FieldsAt(places, fault, Order[first]) \cap Allowed[backend] ELSE {}
  BY DEF Credentials
<1> HIDE DEF whole, used
<1>8. /\ first \in 0..4
      /\ first # 0 => whole[first] /\ \A j \in 1..(first - 1) : ~whole[j]
      /\ first = 0 => \A j \in 1..4 : ~whole[j]
  BY <1>6, FirstWhole
<1> HIDE DEF first
<1> DEFINE At(i) == FieldsAt(places, fault, Order[i])
           N == Needed[backend]
<1> HIDE DEF At, N
<1>9. /\ first # 0 => N \subseteq At(first) /\ \A j \in 1..(first - 1) : ~(N \subseteq At(j))
      /\ first = 0 => \A j \in 1..4 : ~(N \subseteq At(j))
  <2>1. \A i \in 1..4 : whole[i] <=> N \subseteq At(i)
    BY <1>5 DEF At, N
  <2>2. /\ first # 0 => first \in 1..4
        /\ first # 0 => \A j \in 1..(first - 1) : j \in 1..4
    BY <1>8
  <2> QED
    BY <1>8, <2>1, <2>2, Zenon
<1>13. /\ N \subseteq At(1) <=> Has("explicit")
       /\ N \subseteq At(3) <=> Has("env")
  BY <1>1 DEF FieldsAt, At, N
<1>14. first # 0 => /\ N \subseteq used.fields
                    /\ used.fields \subseteq places[used.source] /\ used.fields # {}
  <2> SUFFICES ASSUME first # 0
               PROVE  /\ N \subseteq used.fields
                      /\ used.fields \subseteq places[used.source] /\ used.fields # {}
    OBVIOUS
  <2>1. used.source = Order[first] /\ used.fields = At(first) \cap Allowed[backend]
    BY <1>7 DEF At
  <2>2. At(first) \subseteq places[Order[first]]
    BY <1>2, <1>8 DEF At
  <2> QED
    BY <1>3, <1>9, <2>1, <2>2 DEF N
<1>10. first # 0 /\ used.source = "config_file" => ~Has("env") /\ ~Has("explicit")
  <2>1. first # 0 /\ used.source = "config_file" => first = 4
    BY <1>1, <1>7, <1>8
  <2>2. first = 4 => ~(N \subseteq At(1)) /\ ~(N \subseteq At(3))
    BY <1>9
  <2> QED
    BY <1>13, <2>1, <2>2
<1>11. Has("env") => first # 0
  BY <1>9, <1>13
<1>12. first = 0 => used.fields = {}
  BY <1>7
<1> QED
  BY <1>10, <1>11, <1>12, <1>14 DEF used, N

\* The newest come first, and a listing is a beginning of them.
ShowsNewest(r, rows, statuses, after, limit) ==
    LET shown == ToSet(r.value)
        asked == {i \in DOMAIN rows : /\ statuses # {} => rows[i].status \in statuses
                                      /\ \A t \in after : rows[i].created > t}
    IN  /\ shown \subseteq asked
        /\ shown # asked => Len(r.value) \in {1, limit, MaxListed}
        /\ \A i \in shown, j \in asked \ shown : rows[j].created <= rows[i].created

LEMMA JobsMean ==
    ASSUME NEW rows \in Seq([status : STRING, created : Int]), NEW statuses \in SUBSET STRING,
           NEW after \in SUBSET Int, NEW limit \in Int, statuses \subseteq Canonical
    PROVE  ShowsNewest(ListJobs(rows, statuses, after, limit), rows, statuses, after, limit)
<1> DEFINE asked == {i \in DOMAIN rows : /\ statuses = {} \/ rows[i].status \in statuses
                                         /\ \A t \in after : rows[i].created > t}
           Newer(i, j) == \/ rows[i].created > rows[j].created
                          \/ rows[i].created = rows[j].created /\ i > j
           newest == InOrder(asked, LAMBDA i, j : \/ rows[i].created > rows[j].created
                                                  \/ rows[i].created = rows[j].created /\ i > j)
           capped == IF limit < 1 THEN 1 ELSE IF limit > MaxListed THEN MaxListed ELSE limit
           m == IF capped < Len(newest) THEN capped ELSE Len(newest)
           r == ListJobs(rows, statuses, after, limit)
           R == {p \in asked \X asked : Newer(p[1], p[2])}
<1>1. r.value = SubSeq(newest, 1, m)
  BY DEF ListJobs, Result
<1>2. \A i \in asked : i \in Int /\ rows[i].created \in Int
  <2>1. DOMAIN rows = 1..Len(rows) /\ Len(rows) \in Nat
    OBVIOUS
  <2>2. \A i \in 1..Len(rows) : rows[i] \in [status : STRING, created : Int]
    BY ElementOfSeq, Zenon
  <2> QED
    BY <2>1, <2>2
<1>3. IsFiniteSet(asked)
  <2>1. DOMAIN rows = 1..Len(rows) /\ Len(rows) \in Nat
    OBVIOUS
  <2>2. IsFiniteSet(DOMAIN rows)
    BY <2>1, FS_Interval
  <2> QED
    BY <2>2, FS_Subset
<1>4. Orders(asked, R)
  <2> HIDE DEF asked
  <2>1. \A x, y \in asked : <<x, y>> \in R <=> Newer(x, y)
    OBVIOUS
  <2>2. \A x \in asked : ~Newer(x, x)
    BY <1>2
  <2>3. \A x, y, z \in asked : Newer(x, y) /\ Newer(y, z) => Newer(x, z)
    BY <1>2
  <2>4. \A x, y \in asked : x # y => Newer(x, y) \/ Newer(y, x)
    BY <1>2
  <2> HIDE DEF R, Newer
  <2> QED
    BY <2>1, <2>2, <2>3, <2>4 DEF Orders
<1>5. /\ newest \in SetToSeqs(asked)
      /\ \A i, j \in DOMAIN newest : i < j => Newer(newest[i], newest[j])
  <2>1. \E s \in SetToSeqs(asked) : \A i, j \in DOMAIN s : i < j => <<s[i], s[j]>> \in R
    BY <1>3, <1>4, SortedExists
  <2>2. \E s \in SetToSeqs(asked) : \A i, j \in DOMAIN s : i < j => Newer(s[i], s[j])
    BY <2>1
  <2> QED
    BY <2>2 DEF InOrder
<1> HIDE DEF asked, newest, R
<1>6. /\ newest \in Seq(asked) /\ Len(newest) \in Nat /\ DOMAIN newest = 1..Len(newest)
      /\ \A x \in asked : \E i \in DOMAIN newest : newest[i] = x
  BY <1>3, <1>5, SeqsCover
<1>7. m \in 0..Len(newest) /\ (m < Len(newest) => m \in {1, limit, MaxListed})
  <2>1. capped \in {1, limit, MaxListed} /\ capped \in Nat
    BY CallsAssumption
  <2> HIDE DEF capped
  <2>2. CASE capped < Len(newest)
    BY <1>6, <2>1, <2>2
  <2>3. CASE ~(capped < Len(newest))
    <3>1. m = Len(newest) /\ Len(newest) \in Nat
      BY <1>6, <2>3
    <3> HIDE DEF m
    <3> QED
      BY <3>1
  <2> QED
    BY <2>2, <2>3
<1> HIDE DEF m
<1>8. Len(SubSeq(newest, 1, m)) = m /\ \A i \in 1..m : SubSeq(newest, 1, m)[i] = newest[i]
  BY <1>6, <1>7
<1>9. ToSet(r.value) = {newest[i] : i \in 1..m}
  <2>1. DOMAIN SubSeq(newest, 1, m) = 1..m
    BY <1>6, <1>7
  <2> QED
    BY <1>1, <1>8, <2>1 DEF ToSet
<1> HIDE DEF r
<1>10. ToSet(r.value) \subseteq asked
  BY <1>6, <1>7, <1>9
<1>11. m = Len(newest) => ToSet(r.value) = asked
  BY <1>6, <1>9, <1>10
<1>12. ASSUME NEW i \in ToSet(r.value), NEW j \in asked \ ToSet(r.value)
       PROVE  rows[j].created <= rows[i].created
  <2>1. PICK a \in 1..m : newest[a] = i
    BY <1>9
  <2>2. PICK b \in DOMAIN newest : newest[b] = j
    BY <1>6
  <2>3. b > m
    BY <1>6, <1>7, <1>9, <2>2
  <2>4. a \in DOMAIN newest /\ a < b
    BY <1>6, <1>7, <2>3
  <2>5. Newer(i, j)
    BY <1>5, <2>1, <2>2, <2>4
  <2> QED
    BY <1>2, <1>10, <2>5
<1>13. asked = {i \in DOMAIN rows : /\ statuses # {} => rows[i].status \in statuses
                                    /\ \A t \in after : rows[i].created > t}
  BY DEF asked
<1> QED
  BY <1>1, <1>7, <1>8, <1>10, <1>11, <1>12, <1>13 DEF r, ShowsNewest

\* What reaches the caller: an error a group has a name for under that name, and the
\* account is asked for where there is none.
LEMMA RunMeans ==
    ASSUME NEW enabled, NEW places, NEW fault, NEW call,
           call.outcome.kind = "group" =>
             call.outcome.leaves \in Phrases /\ "unexpected" \notin call.outcome.leaves
    PROVE  LET r == Run(enabled, places, fault, call)
           IN  /\ call.backend \in Advertised(enabled, places, fault) /\ call.backend = "cds"
                  /\ r.value \in {"not_configured", "auth"} => r = Envelope(call.outcome)
               /\ r.key = "result" => call.outcome.kind = "result"
               /\ call.outcome.kind = "group" /\ r.value \in {"network", "quota", "unexpected"}
                    => (r.value = "unexpected" <=> Cardinality(call.outcome.leaves) # 1)
<1> DEFINE o == call.outcome
           e == Envelope(o)
           r == Run(enabled, places, fault, call)
<1>1. e.key = "result" => o.kind = "result"
  BY DEF Envelope, Error, Result
<1>2. o.kind = "group" =>
        IF Cardinality(o.leaves) = 1 THEN e = Error(CHOOSE l \in o.leaves : TRUE)
        ELSE e = Error("unexpected")
  BY DEF Envelope
<1>3. o.kind = "group" /\ Cardinality(o.leaves) = 1 => \E l : l \in o.leaves
  BY FS_Singleton DEF Phrases
<1>4. o.kind = "group" => (e.value = "unexpected" <=> Cardinality(o.leaves) # 1)
  BY <1>2, <1>3 DEF Error
<1> HIDE DEF e
<1>5. \/ r = e
      \/ \E class \in {"not_configured", "unsupported", "missing_field", "auth"} : r = Error(class)
  BY DEF Run, e
<1>6. \A class : Error(class).key = "error" /\ Error(class).value = class
  BY DEF Error
<1>7. /\ call.backend \in Advertised(enabled, places, fault) /\ call.backend = "cds"
      => (r # Error("not_configured") /\ r # Error("auth")) \/ r = e
  BY <1>6 DEF Advertised, Run, e
<1> HIDE DEF r
<1> QED
  BY <1>1, <1>4, <1>5, <1>6, <1>7 DEF r, e

LEMMA CallAnswers == IInv /\ Given("call") => CallIsTold
<1> SUFFICES ASSUME IInv, Given("call") PROVE CallIsTold
  OBVIOUS
<1>1. /\ ask.places \in [Sources -> SUBSET STRING] /\ ask.fault \in Faults
      /\ ask.call.backend \in Backends
      /\ ask.call.outcome.kind = "group" =>
           ask.call.outcome.leaves \in Phrases /\ "unexpected" \notin ask.call.outcome.leaves
  BY ToolCallsAssumption DEF IInv, Questioned, Given
<1>2. Reply = Run(ask.enabled, ask.places, ask.fault, ask.call)
  BY DEF IInv, Replied, Given, Reply
<1>3. ~Given("jobs")
  BY DEF Given
<1> QED
  BY <1>1, <1>2, <1>3, CredentialsMean, RunMeans DEF CallIsTold

LEMMA JobsAnswer == IInv /\ Given("jobs") => CallIsTold
<1> SUFFICES ASSUME IInv, Given("jobs"), Reply.key = "result" PROVE CallIsTold
  BY DEF CallIsTold, Given
<1>1. /\ ask.rows \in Seq([status : STRING, created : Int])
      /\ ask.statuses \in SUBSET STRING /\ ask.after \in SUBSET Int /\ ask.limit \in Int
  BY ListingsAssumption DEF IInv, Questioned, Given
<1>2. Reply = ListJobs(ask.rows, ask.statuses, ask.after, ask.limit)
  BY DEF IInv, Replied, Given, Reply
<1>3. ask.statuses \subseteq Canonical
  BY <1>2 DEF ListJobs, Error
<1>4. ~Given("call")
  BY DEF Given
<1> QED
  <2>1. ShowsNewest(Reply, ask.rows, ask.statuses, ask.after, ask.limit)
    BY <1>1, <1>2, <1>3, JobsMean
  <2> QED
    BY <1>4, <2>1 DEF CallIsTold, ShowsNewest

\* Whatever the places and whatever a backend raises, an account is used whole, the one
\* error with a name reaches the caller, and a listing of jobs shows the newest
\* (CredentialResolver.resolve, WorkflowOrchestrator.run, list_workflows).
THEOREM CallsTold == Spec => []CallIsTold
<1>1. IInv => CallIsTold
  BY CallAnswers, JobsAnswer DEF CallIsTold
<1> QED
  BY <1>1, Answering, PTL

----------------------------------------------------------------------------
(* Sizes.                                                                  *)

\* Every nonempty set of naturals has a least element.
LEMMA Least ==
    ASSUME NEW S \in SUBSET Nat, S # {}
    PROVE  \E i \in S : \A j \in S : i <= j
<1> DEFINE R == {p \in Nat \X Nat : p[1] < p[2]}
<1>1. IsWellFoundedOn(R, Nat)
  BY NatLessThanWellFounded, Zenon DEF OpToRel
<1>2. PICK i \in S : \A j \in S : <<j, i>> \notin R
  <2> HIDE DEF R
  <2> QED
    BY <1>1, WFMin
<1>3. ASSUME NEW j \in S PROVE i <= j
  <2>1. i \in Nat /\ j \in Nat
    OBVIOUS
  <2>2. ~(j < i)
    BY <1>2, <2>1
  <2> QED
    BY <2>1, <2>2
<1> QED
  BY <1>3

\* One step of the average lies between the value and the average before it, and so
\* does the mean of an average and a bundled value.
LEMMA Between ==
    ASSUME NEW x \in Nat, NEW y \in Nat
    PROVE  LET z == (3 * x + 7 * y) \div 10
           IN  z \in Nat /\ (x <= z \/ y <= z) /\ (z <= x \/ z <= y)
OBVIOUS

LEMMA Weighted ==
    ASSUME NEW x \in Nat, NEW y \in Nat, NEW n \in 1..2, NEW w \in 0..3
    PROVE  LET z == (x * n + y * w) \div (n + w)
           IN  z \in Nat /\ (x <= z \/ y <= z) /\ (z <= x \/ z <= y)
<1>1. \A v \in 0..3 : LET z == (x + y * v) \div (1 + v)
                      IN  z \in Nat /\ (x <= z \/ y <= z) /\ (z <= x \/ z <= y)
  <2>1. \A v \in 0..3 : v = 0 \/ v = 1 \/ v = 2 \/ v = 3
    OBVIOUS
  <2> QED
    BY <2>1
<1>2. \A v \in 0..3 : LET z == (x * 2 + y * v) \div (2 + v)
                      IN  z \in Nat /\ (x <= z \/ y <= z) /\ (z <= x \/ z <= y)
  <2>1. \A v \in 0..3 : v = 0 \/ v = 1 \/ v = 2 \/ v = 3
    OBVIOUS
  <2> QED
    BY <2>1
<1>3. n = 1 \/ n = 2
  OBVIOUS
<1>4. CASE n = 1
  BY <1>1, <1>4
<1>5. CASE n = 2
  BY <1>2, <1>5
<1> QED
  BY <1>3, <1>4, <1>5

\* The recursion of the average, for a prefix of the values.
Ewma(g, values, m) ==
    /\ g \in [1..m -> Nat]
    /\ g = [i \in 1..m |-> IF i = 1 THEN values[1] ELSE (3 * values[i] + 7 * g[i - 1]) \div 10]

LEMMA EwmaExists ==
    ASSUME NEW values \in Seq(Nat), NEW n \in 1..Len(values)
    PROVE  \E g : Ewma(g, values, n)
<1> DEFINE Bad == {m \in 1..Len(values) : ~ \E g : Ewma(g, values, m)}
<1>1. SUFFICES ASSUME Bad # {} PROVE FALSE
  OBVIOUS
<1>2. PICK m \in Bad : \A j \in Bad : m <= j
  <2>1. Bad \in SUBSET Nat
    OBVIOUS
  <2> HIDE DEF Bad
  <2> QED
    BY <1>1, <2>1, Least
<1>3. m \in 1..Len(values) /\ ~ \E g : Ewma(g, values, m)
  OBVIOUS
<1>4. \A i \in 1..Len(values) : values[i] \in Nat
  OBVIOUS
<1>5. CASE m = 1
  <2> DEFINE g == [i \in 1..1 |-> values[1]]
  <2>1. g \in [1..1 -> Nat] /\ g = [i \in 1..1 |-> IF i = 1 THEN values[1]
                                                   ELSE (3 * values[i] + 7 * g[i - 1]) \div 10]
    BY <1>3, <1>4, <1>5
  <2> QED
    BY <1>3, <1>5, <2>1 DEF Ewma
<1>6. CASE m # 1
  <2>1. m - 1 \in 1..Len(values) /\ m - 1 \notin Bad
    <3>1. m - 1 \in 1..Len(values) /\ ~(m <= m - 1)
      BY <1>3, <1>6
    <3> HIDE DEF Bad
    <3> QED
      BY <1>2, <3>1
  <2>2. PICK g : Ewma(g, values, m - 1)
    BY <2>1
  <2> DEFINE h == [i \in 1..m |-> IF i = m THEN (3 * values[m] + 7 * g[m - 1]) \div 10 ELSE g[i]]
  <2>3. g \in [1..(m - 1) -> Nat]
        /\ \A i \in 1..(m - 1) :
             g[i] = IF i = 1 THEN values[1] ELSE (3 * values[i] + 7 * g[i - 1]) \div 10
    BY <2>2 DEF Ewma
  <2>4. g[m - 1] \in Nat /\ values[m] \in Nat
    BY <1>3, <1>4, <2>1, <2>3
  <2>5. (3 * values[m] + 7 * g[m - 1]) \div 10 \in Nat
    BY <2>4
  <2>6. h \in [1..m -> Nat]
    BY <1>3, <2>3, <2>5
  <2>7. \A i \in 1..m :
          h[i] = IF i = 1 THEN values[1] ELSE (3 * values[i] + 7 * h[i - 1]) \div 10
    <3> SUFFICES ASSUME NEW i \in 1..m
                 PROVE  h[i] = IF i = 1 THEN values[1] ELSE (3 * values[i] + 7 * h[i - 1]) \div 10
      OBVIOUS
    <3>1. i # 1 => i - 1 \in 1..m /\ i - 1 # m /\ h[i - 1] = g[i - 1]
      BY <1>3
    <3>2. CASE i = m
      BY <1>3, <1>6, <3>1, <3>2
    <3>3. CASE i # m
      <4>1. i \in 1..(m - 1) /\ h[i] = g[i]
        BY <1>3, <3>3
      <4> QED
        BY <2>3, <3>1, <4>1
    <3> QED
      BY <3>2, <3>3
  <2> HIDE DEF h
  <2>8. Ewma(h, values, m)
    BY <2>6, <2>7 DEF Ewma
  <2> QED
    BY <1>3, <2>8
<1> QED
  BY <1>5, <1>6

\* The average of values lies among them.
LEMMA AverageMeans ==
    ASSUME NEW values \in Seq(Nat), Len(values) # 0
    PROVE  /\ Average(values) \in Nat
           /\ \E i \in DOMAIN values : values[i] <= Average(values)
           /\ \E i \in DOMAIN values : values[i] >= Average(values)
<1> DEFINE n == Len(values)
           Step(g) == [i \in DOMAIN values |-> IF i = 1 THEN values[1]
                                               ELSE (3 * values[i] + 7 * g[i - 1]) \div 10]
           ewma == CHOOSE g : g = Step(g)
<1>1. n \in Nat /\ n \in 1..n /\ DOMAIN values = 1..n /\ \A i \in 1..n : values[i] \in Nat
  OBVIOUS
<1>2. \E g : g = Step(g)
  <2>1. PICK g : Ewma(g, values, n)
    BY <1>1, EwmaExists
  <2>2. g = Step(g)
    BY <1>1, <2>1 DEF Ewma
  <2> QED
    BY <2>2
<1>3. ewma = Step(ewma)
  BY <1>2
<1>4. Average(values) = ewma[n]
  BY DEF Average
<1> HIDE DEF ewma
<1>5. \A i \in 1..n : ewma[i] = IF i = 1 THEN values[1] ELSE (3 * values[i] + 7 * ewma[i - 1]) \div 10
  BY <1>1, <1>3
<1> DEFINE Fine(k) == /\ ewma[k] \in Nat
                      /\ \E i \in 1..n : values[i] <= ewma[k]
                      /\ \E i \in 1..n : values[i] >= ewma[k]
           Bad == {k \in 1..n : ~Fine(k)}
<1>6. ASSUME Bad # {} PROVE FALSE
  <2>1. PICK k \in Bad : \A j \in Bad : k <= j
    <3>1. Bad \in SUBSET Nat
      OBVIOUS
    <3> HIDE DEF Bad
    <3> QED
      BY <1>6, <3>1, Least
  <2>2. k \in 1..n /\ ~Fine(k)
    OBVIOUS
  <2>3. CASE k = 1
    BY <1>1, <1>5, <2>2, <2>3
  <2>4. CASE k # 1
    <3>1. k - 1 \in 1..n /\ Fine(k - 1)
      BY <1>1, <2>1, <2>2, <2>4
    <3>2. ewma[k] = (3 * values[k] + 7 * ewma[k - 1]) \div 10
      BY <1>5, <2>2, <2>4
    <3>3. /\ ewma[k] \in Nat
          /\ values[k] <= ewma[k] \/ ewma[k - 1] <= ewma[k]
          /\ ewma[k] <= values[k] \/ ewma[k] <= ewma[k - 1]
      BY <1>1, <2>2, <3>1, <3>2, Between
    <3> QED
      BY <1>1, <2>2, <3>1, <3>3
  <2> QED
    BY <2>3, <2>4
<1>7. Fine(n)
  BY <1>1, <1>6
<1> QED
  BY <1>1, <1>4, <1>7

\* The rows a signature finds: one for every download that tells something of it.
RowAt(past, i) == [sig |-> past[i].sig, units |-> past[i].units, area |-> past[i].area,
                 size |-> past[i].size, at |-> i]
TellingOf(past, sig) == {i \in DOMAIN past : past[i].sig = sig /\ past[i].units > 0 /\ past[i].area > 0}
RowsOf(past, sig) == {o \in {r \in Rows(past) : Eligible(r)} : o.sig = sig}

PastType == Seq([sig : STRING, area : Nat, units : Int, size : Nat])

LEMMA RowsAreTelling ==
    ASSUME NEW past \in PastType, NEW sig
    PROVE  /\ IsFiniteSet(TellingOf(past, sig)) /\ IsFiniteSet(RowsOf(past, sig))
           /\ Cardinality(RowsOf(past, sig)) = Cardinality(TellingOf(past, sig))
           /\ RowsOf(past, sig) = {RowAt(past, i) : i \in TellingOf(past, sig)}
<1> DEFINE T == TellingOf(past, sig)
           f == [i \in T |-> RowAt(past, i)]
<1>1. \A i \in DOMAIN past : past[i].area \in Nat /\ past[i].units \in Int /\ i \in Nat
  <2>1. DOMAIN past = 1..Len(past) /\ Len(past) \in Nat
    BY DEF PastType
  <2>2. \A i \in 1..Len(past) : past[i] \in [sig : STRING, area : Nat, units : Int, size : Nat]
    BY ElementOfSeq, Zenon DEF PastType
  <2> QED
    BY <2>1, <2>2
<1>2. RowsOf(past, sig) = {RowAt(past, i) : i \in T}
  <2>1. \A r : r \in Rows(past) <=>
           \E i \in DOMAIN past : past[i].area # 0 /\ past[i].units # 0 /\ r = RowAt(past, i)
    BY DEF Rows, Observed, RowAt
  <2>2. \A i : /\ RowAt(past, i).sig = past[i].sig /\ RowAt(past, i).units = past[i].units
               /\ RowAt(past, i).area = past[i].area /\ RowAt(past, i).at = i
    BY DEF RowAt
  <2>3. ASSUME NEW r PROVE r \in RowsOf(past, sig) <=> r \in {RowAt(past, i) : i \in T}
    <3>1. ASSUME r \in RowsOf(past, sig) PROVE \E i \in T : r = RowAt(past, i)
      <4>1. r \in Rows(past) /\ r.units > 0 /\ r.area > 0 /\ r.sig = sig
        BY <3>1 DEF RowsOf, Eligible
      <4>2. PICK i \in DOMAIN past : r = RowAt(past, i)
        BY <2>1, <4>1
      <4> QED
        BY <2>2, <4>1, <4>2 DEF TellingOf
    <3>2. ASSUME NEW i \in T, r = RowAt(past, i) PROVE r \in RowsOf(past, sig)
      <4>1. i \in DOMAIN past /\ past[i].sig = sig /\ past[i].units > 0 /\ past[i].area > 0
        BY DEF TellingOf
      <4>2. past[i].area # 0 /\ past[i].units # 0
        BY <1>1, <4>1
      <4>3. r \in Rows(past)
        BY <2>1, <3>2, <4>1, <4>2
      <4> QED
        BY <2>2, <3>2, <4>1, <4>3 DEF RowsOf, Eligible
    <3> QED
      BY <3>1, <3>2
  <2> QED
    BY <2>3
<1>3. IsFiniteSet(T)
  <2>1. DOMAIN past = 1..Len(past) /\ Len(past) \in Nat
    BY DEF PastType
  <2>2. IsFiniteSet(DOMAIN past)
    BY <2>1, FS_Interval
  <2> QED
    BY <2>2, FS_Subset DEF TellingOf
<1>4. f \in Surjection(T, RowsOf(past, sig)) /\ f \in Injection(T, RowsOf(past, sig))
  <2>1. f \in [T -> RowsOf(past, sig)] /\ \A r \in RowsOf(past, sig) : \E i \in T : f[i] = r
    BY <1>2
  <2>2. \A i, j \in T : f[i] = f[j] => i = j
    <3>1. \A i : RowAt(past, i).at = i
      BY DEF RowAt
    <3> QED
      BY <3>1
  <2> QED
    BY <2>1, <2>2 DEF Surjection, Injection, IsInjective
<1>5. /\ IsFiniteSet(RowsOf(past, sig))
      /\ Cardinality(RowsOf(past, sig)) = Cardinality(T)
  BY <1>3, <1>4, FS_Surjection
<1> QED
  BY <1>2, <1>3, <1>5

RateOf(d) == (d.size * 100) \div (d.units * d.area)

\* The values that are averaged are the rates of the downloads that tell something.
LEMMA ValuesMean ==
    ASSUME NEW past \in PastType, NEW sig
    PROVE  LET q == ByAge(RowsOf(past, sig))
               values == [i \in DOMAIN q |-> BytesPerUnit(q[i])]
           IN  /\ values \in Seq(Nat) /\ Len(values) = Cardinality(TellingOf(past, sig))
               /\ \A k \in DOMAIN values :
                    \E i \in TellingOf(past, sig) : values[k] = RateOf(past[i])
<1> DEFINE T == TellingOf(past, sig)
           S == RowsOf(past, sig)
           q == ByAge(S)
           values == [i \in DOMAIN q |-> BytesPerUnit(q[i])]
           R == {p \in S \X S : p[1].at < p[2].at}
<1>1. /\ IsFiniteSet(S) /\ Cardinality(S) = Cardinality(T)
      /\ S = {RowAt(past, i) : i \in T}
  BY RowsAreTelling
<1>2. \A i \in T : i \in Nat /\ past[i] \in [sig : STRING, area : Nat, units : Int, size : Nat]
                   /\ past[i].units > 0 /\ past[i].area > 0
  <2>1. DOMAIN past = 1..Len(past) /\ Len(past) \in Nat
    BY DEF PastType
  <2>2. \A i \in 1..Len(past) : past[i] \in [sig : STRING, area : Nat, units : Int, size : Nat]
    BY ElementOfSeq, Zenon DEF PastType
  <2> QED
    BY <2>1, <2>2 DEF TellingOf
<1> HIDE DEF S, T
<1>3. Orders(S, R)
  <2>1. \A r \in S : r.at \in Nat
    BY <1>1, <1>2 DEF RowAt
  <2>2. \A r, p \in S : r.at = p.at => r = p
    BY <1>1 DEF RowAt
  <2>3. \A r, p \in S : <<r, p>> \in R <=> r.at < p.at
    OBVIOUS
  <2> HIDE DEF R
  <2> QED
    BY <2>1, <2>2, <2>3 DEF Orders
<1>4. q \in SetToSeqs(S)
  <2>1. \E s \in SetToSeqs(S) : \A i, j \in DOMAIN s : i < j => <<s[i], s[j]>> \in R
    BY <1>1, <1>3, SortedExists
  <2>2. \E s \in SetToSeqs(S) : \A i, j \in DOMAIN s : i < j => s[i].at < s[j].at
    BY <2>1
  <2> QED
    BY <2>2 DEF ByAge, InOrder
<1> HIDE DEF q, R
<1>5. /\ Cardinality(S) \in Nat /\ Len(q) = Cardinality(S) /\ DOMAIN q = 1..Cardinality(S)
      /\ \A k \in DOMAIN q : q[k] \in S
  <2>1. Cardinality(S) \in Nat /\ q \in Seq(S) /\ Len(q) = Cardinality(S) /\ DOMAIN q = 1..Cardinality(S)
    BY <1>1, <1>4, SeqsCover
  <2> QED
    BY <2>1
<1>6. \A k \in DOMAIN q : \E i \in T : values[k] = RateOf(past[i])
  <2> SUFFICES ASSUME NEW k \in DOMAIN q PROVE \E i \in T : values[k] = RateOf(past[i])
    OBVIOUS
  <2>1. PICK i \in T : q[k] = RowAt(past, i)
    BY <1>1, <1>5
  <2>2. values[k] = RateOf(past[i])
    BY <2>1 DEF BytesPerUnit, RowAt, RateOf
  <2> QED
    BY <2>2
<1>7. \A i \in T : RateOf(past[i]) \in Nat
  <2> SUFFICES ASSUME NEW i \in T PROVE RateOf(past[i]) \in Nat
    OBVIOUS
  <2>1. \A x, y, z \in Nat : y > 0 /\ z > 0 => (x * 100) \div (y * z) \in Nat
    <3> SUFFICES ASSUME NEW x \in Nat, NEW y \in Nat, NEW z \in Nat, y > 0, z > 0
                 PROVE  (x * 100) \div (y * z) \in Nat
      OBVIOUS
    <3>1. y * z \in Nat /\ y * z > 0
      OBVIOUS
    <3>2. \A u, v \in Nat : v > 0 => u \div v \in Nat
      OBVIOUS
    <3> QED
      BY <3>1, <3>2
  <2>2. past[i].size \in Nat /\ past[i].units \in Nat /\ past[i].area \in Nat
    BY <1>2
  <2> QED
    BY <1>2, <2>1, <2>2 DEF RateOf
<1>8. values \in [1..Cardinality(S) -> Nat] /\ DOMAIN values = DOMAIN q
  BY <1>5, <1>6, <1>7
<1>9. values \in Seq(Nat) /\ Len(values) = Cardinality(T)
  <2>1. \A m \in Nat : \A v : v \in [1..m -> Nat] => v \in Seq(Nat) /\ Len(v) = m
    OBVIOUS
  <2> HIDE DEF values
  <2> QED
    BY <1>1, <1>5, <1>8, <2>1
<1> QED
  BY <1>6, <1>8, <1>9 DEF S, T, q

\* What the sizes of a signature are said to come from.
SeedOf(sig, n) == IF sig \in DOMAIN Seed /\ n < MinLocal THEN {Seed[sig].bpu} ELSE {}

LEMMA ResolveMeans ==
    ASSUME NEW past \in PastType, NEW sig
    PROVE  LET r == Resolve(Rows(past), sig)
               n == Cardinality(TellingOf(past, sig))
               known == {RateOf(past[i]) : i \in TellingOf(past, sig)} \cup SeedOf(sig, n)
               shown == r.n > 0 \/ r.source = "seed"
           IN  /\ n \in Nat /\ (n > 0 <=> TellingOf(past, sig) # {})
               /\ r.n = n
               /\ shown <=> known # {}
               /\ shown => /\ r.bpu \in Nat
                           /\ \E k \in known : k \in Nat /\ k <= r.bpu
                           /\ \E k \in known : k \in Nat /\ r.bpu <= k
<1> DEFINE T == TellingOf(past, sig)
           n == Cardinality(T)
           q == ByAge(RowsOf(past, sig))
           values == [i \in DOMAIN q |-> BytesPerUnit(q[i])]
           usable == {o \in Rows(past) : Eligible(o)}
           rest == ByAge(usable)
           median == Median([i \in DOMAIN rest |-> BytesPerUnit(rest[i])])
           weight == IF Seed[sig].n < MinLocal THEN Seed[sig].n ELSE MinLocal
           average == Average(values)
           mixed == (average * n + Seed[sig].bpu * weight) \div (n + weight)
           r == Resolve(Rows(past), sig)
           rates == {RateOf(past[i]) : i \in T}
<1>1. /\ values \in Seq(Nat) /\ Len(values) = n
      /\ \A k \in DOMAIN values : values[k] \in rates
  BY ValuesMean
<1>2. n \in Nat /\ (n = 0 <=> T = {}) /\ (T = {} <=> rates = {})
  <2>1. IsFiniteSet(T)
    BY RowsAreTelling
  <2> QED
    BY <2>1, FS_CardinalityType, FS_EmptySet
<1>3. r = IF n >= MinLocal \/ (n > 0 /\ sig \notin DOMAIN Seed)
          THEN Resolved(average, n, "local")
          ELSE IF n > 0 THEN Resolved(mixed, n, "local")
          ELSE IF sig \in DOMAIN Seed THEN Resolved(Seed[sig].bpu, 0, "seed")
          ELSE IF Cardinality(usable) >= 3 THEN Resolved(median, 0, "median") ELSE Unresolved
  <2>1. Len(values) = n
    BY <1>1
  <2> QED
    BY <2>1 DEF Resolve, RowsOf
<1>4. n > 0 => /\ average \in Nat
               /\ \E k \in rates : k \in Nat /\ k <= average
               /\ \E k \in rates : k \in Nat /\ average <= k
  <2> SUFFICES ASSUME n > 0
               PROVE  /\ average \in Nat
                      /\ \E k \in rates : k \in Nat /\ k <= average
                      /\ \E k \in rates : k \in Nat /\ average <= k
    OBVIOUS
  <2>1. /\ values \in Seq(Nat) /\ Len(values) # 0
        /\ \A k \in DOMAIN values : values[k] \in Nat /\ values[k] \in rates
    <3>1. \A k \in DOMAIN values : values[k] \in Nat
      BY <1>1
    <3> QED
      BY <1>1, <1>2, <3>1
  <2> HIDE DEF values, rates
  <2>2. /\ average \in Nat
        /\ \E i \in DOMAIN values : values[i] <= average
        /\ \E i \in DOMAIN values : values[i] >= average
    BY <2>1, AverageMeans
  <2> QED
    BY <2>1, <2>2
<1> HIDE DEF values, average, rates, r, T, usable, median
<1>5. CASE n >= MinLocal \/ (n > 0 /\ sig \notin DOMAIN Seed)
  <2>1. r.n = n /\ r.source = "local" /\ r.bpu = average
    BY <1>3, <1>5 DEF Resolved
  <2>2. n > 0 /\ rates # {}
    BY <1>2, <1>5 DEF MinLocal
  <2> QED
    BY <1>2, <1>4, <2>1, <2>2 DEF r, T, rates
<1>6. CASE 0 < n /\ n < MinLocal /\ sig \in DOMAIN Seed
  <2>1. r.n = n /\ r.source = "local" /\ r.bpu = mixed
    <3>1. ~ (n >= MinLocal \/ (n > 0 /\ sig \notin DOMAIN Seed)) /\ n > 0
      BY <1>2, <1>6 DEF MinLocal
    <3>2. r = Resolved(mixed, n, "local")
      BY <1>3, <3>1, Zenon
    <3> HIDE DEF mixed
    <3> QED
      BY <3>2 DEF Resolved
  <2>2. Seed[sig].bpu \in Nat /\ weight \in 0..3 /\ n \in 1..2
    BY <1>2, <1>6, SeedAssumption DEF MinLocal
  <2>3. /\ mixed \in Nat /\ (average <= mixed \/ Seed[sig].bpu <= mixed)
        /\ mixed <= average \/ mixed <= Seed[sig].bpu
    BY <1>4, <2>2, Weighted
  <2>4. SeedOf(sig, n) = {Seed[sig].bpu}
    BY <1>6 DEF SeedOf
  <2> HIDE DEF mixed
  <2> QED
    BY <1>2, <1>4, <1>6, <2>1, <2>2, <2>3, <2>4 DEF r, T, rates
<1>7. CASE n = 0 /\ sig \in DOMAIN Seed
  <2>1. r.n = 0 /\ r.source = "seed" /\ r.bpu = Seed[sig].bpu
    BY <1>3, <1>7 DEF Resolved, MinLocal
  <2>2. SeedOf(sig, n) = {Seed[sig].bpu} /\ Seed[sig].bpu \in Nat
    BY <1>7, SeedAssumption DEF SeedOf, MinLocal
  <2> QED
    BY <1>2, <1>7, <2>1, <2>2 DEF r, T, rates
<1>8. CASE n = 0 /\ sig \notin DOMAIN Seed
  <2>1. r.n = 0 /\ r.source # "seed"
    BY <1>3, <1>8 DEF Resolved, Unresolved, MinLocal
  <2>2. SeedOf(sig, n) = {} /\ rates = {}
    BY <1>2, <1>8 DEF SeedOf
  <2> QED
    BY <1>2, <1>8, <2>1, <2>2 DEF r, T, rates
<1> QED
  BY <1>2, <1>5, <1>6, <1>7, <1>8 DEF MinLocal

\* What is multiplied up and rounded down again keeps the order of the factors.
LEMMA Scaled ==
    ASSUME NEW b \in Nat, NEW a \in Nat, NEW x \in Nat, NEW y \in Nat, x <= y
    PROVE  /\ (b * x * a) \div 100 \in Nat
           /\ (b * x * a) \div 100 <= (b * y * a) \div 100
<1>1. \A u, v, w \in Nat : v <= w => u * v \in Nat /\ u * w \in Nat /\ u * v <= u * w
  OBVIOUS
<1>2. b * x \in Nat /\ b * y \in Nat /\ b * x <= b * y
  BY <1>1
<1>3. \A u, v, w \in Nat : v <= w => v * u \in Nat /\ w * u \in Nat /\ v * u <= w * u
  OBVIOUS
<1>4. b * x * a \in Nat /\ b * y * a \in Nat /\ b * x * a <= b * y * a
  BY <1>2, <1>3
<1>5. \A u, v \in Nat : u <= v => u \div 100 \in Nat /\ u \div 100 <= v \div 100
  OBVIOUS
<1> QED
  BY <1>4, <1>5

LEMMA SizeAnswers == IInv /\ Given("size") => SizeIsGrounded
<1> SUFFICES ASSUME IInv, Given("size") PROVE SizeIsGrounded
  OBVIOUS
<1> DEFINE past == ask.past
           request == ask.request
           reply == ask.reply
           sig == request.sig
           r == Resolve(Rows(past), sig)
           n == Cardinality(TellingOf(past, sig))
           basis == IF reply.units >= 0 /\ reply.limit > 0 THEN reply.units ELSE request.fields
           Sized(bpu) == (basis * bpu * request.area) \div 100
           shown == r.n > 0 \/ r.source = "seed"
<1>1. /\ past \in PastType
      /\ request.area \in Nat /\ request.fields \in Nat
      /\ reply.units \in Int /\ reply.limit \in Int
  BY SizesAssumption DEF IInv, Questioned, Given, PastType
<1>2. Telling = TellingOf(past, sig) /\ Rates = {RateOf(past[i]) : i \in TellingOf(past, sig)}
      /\ Known = {RateOf(past[i]) : i \in TellingOf(past, sig)} \cup SeedOf(sig, n)
  BY DEF Telling, TellingOf, Rates, RateOf, Known, SeedOf
<1>3. /\ n \in Nat /\ (n > 0 <=> Telling # {})
      /\ r.n = n
      /\ shown <=> Known # {}
      /\ shown => /\ r.bpu \in Nat
                  /\ \E k \in Known : k \in Nat /\ k <= r.bpu
                  /\ \E k \in Known : k \in Nat /\ r.bpu <= k
  BY <1>1, <1>2, ResolveMeans
<1>4. basis \in Nat
  BY <1>1
<1>5. /\ Reply.word = (IF ~shown THEN "unknown" ELSE IF r.n > 0 THEN "calibrated" ELSE "approximate")
      /\ Reply.n = (IF shown THEN r.n ELSE 0)
      /\ Reply.size = (IF shown THEN Sized(r.bpu) ELSE Unsaid)
  <2>1. Reply = Estimate(request, Rows(past), reply)
    BY DEF IInv, Replied, Reply
  <2>2. (IF Costing(reply) = Unsaid THEN request.fields ELSE Costing(reply)) = basis
    BY <1>1 DEF Costing, Unsaid
  <2> QED
    BY <2>1, <2>2 DEF Estimate
<1> HIDE DEF r, n, basis, past, request, reply, sig
<1>6. Reply.n = Cardinality(Telling)
  BY <1>2, <1>3, <1>5 DEF n
<1>7. Reply.word = (IF Telling # {} THEN "calibrated" ELSE IF Known # {} THEN "approximate" ELSE "unknown")
  BY <1>3, <1>5
<1>8. shown => /\ Sized(r.bpu) \in Nat
               /\ \E k \in Known : Sized(k) <= Sized(r.bpu)
               /\ \E k \in Known : Sized(k) >= Sized(r.bpu)
  <2> SUFFICES ASSUME shown
               PROVE  /\ Sized(r.bpu) \in Nat
                      /\ \E k \in Known : Sized(k) <= Sized(r.bpu)
                      /\ \E k \in Known : Sized(k) >= Sized(r.bpu)
    OBVIOUS
  <2>1. PICK k \in Known : k \in Nat /\ k <= r.bpu
    BY <1>3
  <2>2. PICK l \in Known : l \in Nat /\ r.bpu <= l
    BY <1>3
  <2>3. r.bpu \in Nat /\ request.area \in Nat
    BY <1>1, <1>3
  <2>4. Sized(k) \in Nat /\ Sized(k) <= Sized(r.bpu)
    BY <1>4, <2>1, <2>3, Scaled
  <2>5. Sized(r.bpu) \in Nat /\ Sized(r.bpu) <= Sized(l)
    BY <1>4, <2>2, <2>3, Scaled
  <2>6. Sized(l) \in Nat
    BY <1>4, <2>2, <2>3, Scaled
  <2> HIDE DEF Sized
  <2> QED
    BY <2>1, <2>2, <2>4, <2>5, <2>6
<1> HIDE DEF shown, Sized
<1>9. Reply.size = Unsaid <=> Known = {}
  BY <1>3, <1>5, <1>8 DEF Unsaid
<1>10. Known # {} => /\ \E k \in Known : Sized(k) <= Reply.size
                     /\ \E k \in Known : Sized(k) >= Reply.size
  BY <1>3, <1>5, <1>8
<1> QED
  BY <1>6, <1>7, <1>9, <1>10 DEF SizeIsGrounded, Sized, basis, request, reply

\* A size that is shown is borne out by what was downloaded, or bundled.
\* (CalibrationLookup.resolve, estimate)
THEOREM SizesGrounded == Spec => []SizeIsGrounded
<1>1. IInv => SizeIsGrounded
  BY SizeAnswers DEF SizeIsGrounded
<1> QED
  BY <1>1, Answering, PTL

----------------------------------------------------------------------------
(* Finding.                                                                *)

\* What a ranking shows: every index once, and none before one of a better score.
Ranks(order, S, score) ==
    /\ order \in Seq(S) /\ Len(order) \in Nat /\ Len(order) = Cardinality(S)
    /\ DOMAIN order = 1..Len(order)
    /\ \A x \in S : \E i \in DOMAIN order : order[i] = x
    /\ \A i, j \in DOMAIN order : i < j => score[order[j]] <= score[order[i]]

LEMMA RankedMeans ==
    ASSUME NEW S \in SUBSET Nat, IsFiniteSet(S), NEW score, NEW rank,
           \A i \in S : score[i] \in Int /\ rank[i] \in Int
    PROVE  Ranks(Ranked(S, score, rank), S, score)
<1> DEFINE Better(i, j) ==
             \/ score[i] > score[j]
             \/ score[i] = score[j] /\ rank[i] > rank[j]
             \/ score[i] = score[j] /\ rank[i] = rank[j] /\ i < j
           R == {p \in S \X S : Better(p[1], p[2])}
           order == Ranked(S, score, rank)
<1>1. \A i \in S : i \in Nat
  OBVIOUS
<1>2. Orders(S, R)
  <2>1. \A x, y \in S : <<x, y>> \in R <=> Better(x, y)
    OBVIOUS
  <2>2. \A x \in S : ~Better(x, x)
    BY <1>1
  <2>3. \A x, y, z \in S : Better(x, y) /\ Better(y, z) => Better(x, z)
    BY <1>1
  <2>4. \A x, y \in S : x # y => Better(x, y) \/ Better(y, x)
    BY <1>1
  <2> HIDE DEF R, Better
  <2> QED
    BY <2>1, <2>2, <2>3, <2>4 DEF Orders
<1>3. /\ order \in SetToSeqs(S)
      /\ \A i, j \in DOMAIN order : i < j => Better(order[i], order[j])
  <2>1. \E s \in SetToSeqs(S) : \A i, j \in DOMAIN s : i < j => <<s[i], s[j]>> \in R
    BY <1>2, SortedExists
  <2>2. \E s \in SetToSeqs(S) : \A i, j \in DOMAIN s : i < j => Better(s[i], s[j])
    BY <2>1
  <2>3. order = CHOOSE s \in SetToSeqs(S) : \A i, j \in DOMAIN s : i < j => Better(s[i], s[j])
    BY Zenon DEF InOrder, Ranked
  <2> HIDE DEF order, Better
  <2> QED
    BY <2>2, <2>3, Zenon
<1> HIDE DEF order
<1>4. /\ order \in Seq(S) /\ Len(order) \in Nat /\ Len(order) = Cardinality(S)
      /\ DOMAIN order = 1..Len(order)
      /\ \A x \in S : \E i \in DOMAIN order : order[i] = x
  BY <1>3, SeqsCover
<1>5. \A i, j \in DOMAIN order : i < j => score[order[j]] <= score[order[i]]
  <2> SUFFICES ASSUME NEW i \in DOMAIN order, NEW j \in DOMAIN order, i < j
               PROVE  score[order[j]] <= score[order[i]]
    OBVIOUS
  <2>1. order[i] \in S /\ order[j] \in S
    BY <1>4
  <2>2. Better(order[i], order[j])
    BY <1>3
  <2>3. \A a, b \in S : Better(a, b) => score[b] <= score[a]
    OBVIOUS
  <2> HIDE DEF Better
  <2> QED
    BY <2>1, <2>2, <2>3
<1> QED
  BY <1>4, <1>5 DEF Ranks, order

\* The first of a sequence, as many as are wanted and there are.
Starting(t, n, s) ==
    /\ Len(t) \in Nat /\ Len(t) <= Len(s) /\ DOMAIN t = 1..Len(t)
    /\ Len(t) = n \/ Len(t) = Len(s)
    /\ \A i \in DOMAIN t : t[i] = s[i]

LEMMA FirstMeans ==
    ASSUME NEW S, NEW s \in Seq(S), NEW n \in Nat
    PROVE  Starting(First(n, s), n, s)
<1> DEFINE m == IF n < Len(s) THEN n ELSE Len(s)
<1>1. m \in 0..Len(s) /\ (m = n \/ m = Len(s))
  <2>1. Len(s) \in Nat
    OBVIOUS
  <2> QED
    BY <2>1
<1>2. First(n, s) = SubSeq(s, 1, m)
  BY DEF First
<1> HIDE DEF m
<1>3. /\ Len(SubSeq(s, 1, m)) = m /\ DOMAIN SubSeq(s, 1, m) = 1..m
      /\ \A i \in 1..m : SubSeq(s, 1, m)[i] = s[i]
  BY <1>1
<1> QED
  BY <1>1, <1>2, <1>3 DEF Starting

LEMMA FirstOfRanks ==
    ASSUME NEW S, NEW score, NEW order, NEW n, NEW t, Ranks(order, S, score), Starting(t, n, order)
    PROVE  \A i \in DOMAIN t : i \in DOMAIN order /\ t[i] = order[i] /\ t[i] \in S
<1> SUFFICES ASSUME NEW i \in DOMAIN t PROVE i \in DOMAIN order /\ t[i] = order[i] /\ t[i] \in S
  OBVIOUS
<1>1. /\ order \in Seq(S) /\ Len(order) \in Nat /\ DOMAIN order = 1..Len(order)
      /\ Len(t) \in Nat /\ Len(t) <= Len(order) /\ DOMAIN t = 1..Len(t) /\ t[i] = order[i]
  BY DEF Ranks, Starting
<1>2. \A l, m \in Nat : l <= m => \A k \in 1..l : k \in 1..m
  OBVIOUS
<1>3. i \in 1..Len(order)
  BY <1>1, <1>2, Zenon
<1>4. order[i] \in S
  BY <1>1, <1>3
<1> QED
  BY <1>1, <1>3, <1>4

\* A score is a number, for any query.
LEMMA HitsCount ==
    ASSUME NEW phrases \in Phrases, NEW query
    PROVE  Hits(phrases, query) \in Nat /\ Once(phrases, query) \in Nat
<1>1. IsFiniteSet(phrases) /\ (phrases \cap query) \in SUBSET phrases
  BY DEF Phrases
<1>2. IsFiniteSet(phrases \cap query)
  BY <1>1, FS_Subset
<1> QED
  BY <1>2, FS_CardinalityType DEF Hits, Once

GroupRecords == [id : STRING, include : Phrases, exclude : Phrases, title : Phrases,
                 summary : Phrases, products : SUBSET STRING]
ProductRecords == [id : STRING, title : Phrases, summary : Phrases, variables : Phrases]
CardRecords == [product : STRING, title : Phrases, description : Phrases,
                variables : Phrases, box : SUBSET Boxes, time : SUBSET Ends]

LEMMA Catalogued ==
    /\ DOMAIN Groups \in SUBSET Nat /\ IsFiniteSet(DOMAIN Groups)
    /\ DOMAIN Products \in SUBSET Nat /\ IsFiniteSet(DOMAIN Products)
    /\ DOMAIN Cards \in SUBSET Nat /\ IsFiniteSet(DOMAIN Cards)
    /\ \A g \in DOMAIN Groups : Groups[g] \in GroupRecords
    /\ \A p \in DOMAIN Products : Products[p] \in ProductRecords
    /\ \A c \in DOMAIN Cards : Cards[c] \in CardRecords
<1>1. /\ Groups \in Seq(GroupRecords) /\ Products \in Seq(ProductRecords)
      /\ Cards \in Seq(CardRecords)
  BY CatalogueAssumption DEF GroupRecords, ProductRecords, CardRecords
<1>2. \A R, s : s \in Seq(R) => /\ DOMAIN s \in SUBSET Nat /\ IsFiniteSet(DOMAIN s)
                                /\ \A i \in DOMAIN s : s[i] \in R
  <2> SUFFICES ASSUME NEW R, NEW s \in Seq(R)
               PROVE  /\ DOMAIN s \in SUBSET Nat /\ IsFiniteSet(DOMAIN s)
                      /\ \A i \in DOMAIN s : s[i] \in R
    OBVIOUS
  <2>1. Len(s) \in Nat /\ DOMAIN s = 1..Len(s)
    OBVIOUS
  <2>2. IsFiniteSet(1..Len(s))
    BY <2>1, FS_Interval
  <2>3. \A i \in 1..Len(s) : s[i] \in R
    BY ElementOfSeq, Zenon
  <2> QED
    BY <2>1, <2>2, <2>3
<1> QED
  BY <1>1, <1>2, Zenon

LEMMA ScoresCount ==
    ASSUME NEW query
    PROVE  /\ \A g \in DOMAIN Groups : GroupScore(Groups[g], query) \in Int
           /\ \A p \in DOMAIN Products : ProductScore(Products[p], query) \in Int
           /\ \A c \in DOMAIN Cards : CardScore(Cards[c], query) \in Int
<1>1. ASSUME NEW g \in GroupRecords PROVE GroupScore(g, query) \in Int
  <2>1. /\ Hits(g.include, query) \in Nat /\ Hits(g.exclude, query) \in Nat
        /\ Once(g.title, query) \in Nat /\ Once(g.summary, query) \in Nat
    BY HitsCount DEF GroupRecords
  <2> QED
    BY <2>1 DEF GroupScore, Include, Exclude, Title, Summary
<1>2. ASSUME NEW p \in ProductRecords PROVE ProductScore(p, query) \in Int
  <2>1. /\ Hits(p.title, query) \in Nat /\ Hits(p.summary, query) \in Nat
        /\ Hits(p.variables, query) \in Nat
    BY HitsCount DEF ProductRecords
  <2> QED
    BY <2>1 DEF ProductScore, Include, Title, Summary
<1>3. ASSUME NEW c \in CardRecords PROVE CardScore(c, query) \in Int
  <2>1. /\ Once(c.title, query) \in Nat /\ Once(c.description, query) \in Nat
        /\ Hits(c.variables, query) \in Nat
    BY HitsCount DEF CardRecords
  <2> QED
    BY <2>1 DEF CardScore, Include, Title
<1> QED
  BY <1>1, <1>2, <1>3, Catalogued

\* Spans have a point in common exactly where neither ends before the other starts, and
\* lie within each other exactly where their ends do.
LEMMA SpansMeet ==
    ASSUME NEW s \in Ends, NEW t \in Ends, s[1] <= s[2], t[1] <= t[2]
    PROVE  /\ Meet(s, t) <=> Instants(s) \cap Instants(t) # {}
           /\ Instants(s) \subseteq Instants(t) <=> s[1] >= t[1] /\ s[2] <= t[2]
           /\ Meet(s, t) <=> Meet(t, s)
           /\ s[1] \in Instants(s) /\ s[2] \in Instants(s)
<1>1. Reach \in Nat
  BY CatalogueAssumption
<1>2. s[1] \in 0..Reach /\ s[2] \in 0..Reach /\ t[1] \in 0..Reach /\ t[2] \in 0..Reach
  BY DEF Ends
<1>3. s[1] \in Instants(s) /\ s[2] \in Instants(s)
  BY <1>1, <1>2 DEF Instants
<1>4. ASSUME Meet(s, t) PROVE Instants(s) \cap Instants(t) # {}
  <2>1. CASE s[1] <= t[1]
    <3>1. t[1] \in Instants(s) /\ t[1] \in Instants(t)
      BY <1>1, <1>2, <1>4, <2>1 DEF Instants, Meet
    <3> QED
      BY <3>1
  <2>2. CASE t[1] <= s[1]
    <3>1. s[1] \in Instants(s) /\ s[1] \in Instants(t)
      BY <1>1, <1>2, <1>4, <2>2 DEF Instants, Meet
    <3> QED
      BY <3>1
  <2> QED
    BY <1>1, <1>2, <2>1, <2>2
<1>5. ASSUME NEW x \in Instants(s) \cap Instants(t) PROVE Meet(s, t)
  BY <1>1, <1>2 DEF Instants, Meet
<1>6. ASSUME Instants(s) \subseteq Instants(t) PROVE s[1] >= t[1] /\ s[2] <= t[2]
  <2>1. s[1] \in Instants(t) /\ s[2] \in Instants(t)
    BY <1>3, <1>6
  <2> QED
    BY <1>1, <1>2, <2>1 DEF Instants
<1>7. ASSUME s[1] >= t[1], s[2] <= t[2] PROVE Instants(s) \subseteq Instants(t)
  BY <1>1, <1>2, <1>7 DEF Instants
<1>8. Meet(s, t) <=> Meet(t, s)
  BY <1>1, <1>2 DEF Meet
<1> QED
  BY <1>3, <1>4, <1>5, <1>6, <1>7, <1>8

\* The points of a box are those of its two spans.
LEMMA PointsOf ==
    ASSUME NEW b PROVE Points(b) = Instants(b[1]) \X Instants(b[2])
BY DEF Points, Instants

LEMMA SpansOf ==
    ASSUME NEW b \in Boxes
    PROVE  /\ b[1] \in Ends /\ b[2] \in Ends /\ b[1][1] <= b[1][2] /\ b[2][1] <= b[2][2]
           /\ b = <<b[1], b[2]>>
BY DEF Boxes, ValidBox

LEMMA BoxesMeet ==
    ASSUME NEW a \in Boxes, NEW b \in Boxes
    PROVE  /\ (Meet(a[1], b[1]) /\ Meet(a[2], b[2])) <=> Points(a) \cap Points(b) # {}
           /\ Points(a) \subseteq Points(b)
                <=> /\ a[1][1] >= b[1][1] /\ a[1][2] <= b[1][2]
                    /\ a[2][1] >= b[2][1] /\ a[2][2] <= b[2][2]
           /\ Points(a) = Points(b) <=> a = b
<1>1. /\ a[1] \in Ends /\ a[2] \in Ends /\ b[1] \in Ends /\ b[2] \in Ends
      /\ a[1][1] <= a[1][2] /\ a[2][1] <= a[2][2] /\ b[1][1] <= b[1][2] /\ b[2][1] <= b[2][2]
      /\ a = <<a[1], a[2]>> /\ b = <<b[1], b[2]>>
  BY SpansOf
<1> DEFINE A1 == Instants(a[1])  A2 == Instants(a[2])
           B1 == Instants(b[1])  B2 == Instants(b[2])
<1>2. /\ Meet(a[1], b[1]) <=> A1 \cap B1 # {}
      /\ A1 \subseteq B1 <=> a[1][1] >= b[1][1] /\ a[1][2] <= b[1][2]
      /\ B1 \subseteq A1 <=> b[1][1] >= a[1][1] /\ b[1][2] <= a[1][2]
      /\ A1 # {} /\ B1 # {}
  BY <1>1, SpansMeet
<1>3. /\ Meet(a[2], b[2]) <=> A2 \cap B2 # {}
      /\ A2 \subseteq B2 <=> a[2][1] >= b[2][1] /\ a[2][2] <= b[2][2]
      /\ B2 \subseteq A2 <=> b[2][1] >= a[2][1] /\ b[2][2] <= a[2][2]
      /\ A2 # {} /\ B2 # {}
  BY <1>1, SpansMeet
<1>4. Points(a) = A1 \X A2 /\ Points(b) = B1 \X B2
  BY PointsOf
<1> HIDE DEF A1, A2, B1, B2
<1>5. Points(a) \cap Points(b) # {} <=> A1 \cap B1 # {} /\ A2 \cap B2 # {}
  <2>1. ASSUME NEW p \in Points(a) \cap Points(b) PROVE p[1] \in A1 \cap B1 /\ p[2] \in A2 \cap B2
    BY <1>4
  <2>2. ASSUME NEW x \in A1 \cap B1, NEW y \in A2 \cap B2
        PROVE  <<x, y>> \in Points(a) \cap Points(b)
    BY <1>4
  <2> QED
    BY <2>1, <2>2
<1>6. Points(a) \subseteq Points(b) <=> A1 \subseteq B1 /\ A2 \subseteq B2
  <2>1. ASSUME Points(a) \subseteq Points(b), NEW x \in A1, NEW y \in A2
        PROVE  x \in B1 /\ y \in B2
    <3>1. <<x, y>> \in Points(a)
      BY <1>4
    <3>2. <<x, y>> \in Points(b)
      BY <2>1, <3>1
    <3> QED
      BY <1>4, <3>2
  <2>2. ASSUME Points(a) \subseteq Points(b) PROVE A1 \subseteq B1 /\ A2 \subseteq B2
    BY <1>2, <1>3, <2>1, <2>2
  <2>3. ASSUME A1 \subseteq B1, A2 \subseteq B2 PROVE Points(a) \subseteq Points(b)
    BY <1>4, <2>3
  <2> QED
    BY <2>2, <2>3
<1>7. Points(a) = Points(b) => a = b
  <2> SUFFICES ASSUME Points(a) = Points(b) PROVE a = b
    OBVIOUS
  <2>1. A1 \X A2 = B1 \X B2
    BY <1>4
  <2>2. ASSUME NEW x \in A1, NEW y \in A2 PROVE x \in B1 /\ y \in B2
    <3>1. <<x, y>> \in B1 \X B2
      BY <2>1
    <3> QED
      BY <3>1
  <2>3. ASSUME NEW x \in B1, NEW y \in B2 PROVE x \in A1 /\ y \in A2
    <3>1. <<x, y>> \in A1 \X A2
      BY <2>1
    <3> QED
      BY <3>1
  <2>4. A1 \subseteq B1 /\ B1 \subseteq A1 /\ A2 \subseteq B2 /\ B2 \subseteq A2
    BY <1>2, <1>3, <2>2, <2>3
  <2>5. \A k \in {1, 2} : a[k][1] = b[k][1] /\ a[k][2] = b[k][2]
    <3>1. Reach \in Nat
      BY CatalogueAssumption
    <3>2. \A s \in Ends : s[1] \in Int /\ s[2] \in Int
      BY <3>1 DEF Ends
    <3> QED
      BY <1>1, <1>2, <1>3, <2>4, <3>2
  <2>6. a[1] = b[1] /\ a[2] = b[2]
    <3>1. \A s, t \in Ends : s[1] = t[1] /\ s[2] = t[2] => s = t
      BY DEF Ends
    <3> QED
      BY <1>1, <2>5, <3>1
  <2> QED
    BY <1>1, <2>6
<1> QED
  BY <1>2, <1>3, <1>5, <1>6, <1>7

\* A set of longitudes has a least and a greatest.
LEMMA Extremes ==
    ASSUME NEW S \in SUBSET (0..Reach), S # {}
    PROVE  /\ \E x \in S : \A y \in S : x <= y
           /\ \E x \in S : \A y \in S : x >= y
<1>1. Reach \in Nat /\ S \in SUBSET Nat /\ \A x \in S : x \in 0..Reach
  <2>1. Reach \in Nat
    BY CatalogueAssumption
  <2> QED
    BY <2>1
<1>2. \E x \in S : \A y \in S : x <= y
  BY <1>1, Least
<1>3. \E x \in S : \A y \in S : x >= y
  <2> DEFINE T == {Reach - x : x \in S}
  <2>1. T \in SUBSET Nat /\ T # {}
    <3>1. \A x \in S : Reach - x \in Nat
      BY <1>1
    <3>2. PICK x \in S : TRUE
      OBVIOUS
    <3>3. Reach - x \in T
      OBVIOUS
    <3> QED
      BY <3>1, <3>3
  <2>2. \A t \in T : \E x \in S : t = Reach - x
    OBVIOUS
  <2>3. \A x \in S : Reach - x \in T
    OBVIOUS
  <2> HIDE DEF T
  <2>4. PICK t \in T : \A u \in T : t <= u
    BY <2>1, Least
  <2>5. PICK x \in S : t = Reach - x
    BY <2>2
  <2>6. \A y \in S : Reach - x <= Reach - y
    BY <2>3, <2>4, <2>5
  <2> QED
    BY <1>1, <2>6
<1> QED
  BY <1>2, <1>3

\* One box lies around all of them.
LEMMA EnclosingMeans ==
    ASSUME NEW boxes \in SUBSET Boxes, boxes # {}
    PROVE  \E u \in Boxes : Enclosing(boxes) = {u} /\ \A e \in boxes : Points(e) \subseteq Points(u)
<1> DEFINE Low(S) == CHOOSE x \in S : \A y \in S : x <= y
           Top(S) == CHOOSE x \in S : \A y \in S : x >= y
           Lows(k) == {b[k][1] : b \in boxes}
           Tops(k) == {b[k][2] : b \in boxes}
           Hold(k) == <<Low(Lows(k)), Top(Tops(k))>>
           u == <<Hold(1), Hold(2)>>
<1>1. Reach \in Nat
  BY CatalogueAssumption
<1>2. \A b \in boxes : \A k \in {1, 2} : /\ b[k][1] \in 0..Reach /\ b[k][2] \in 0..Reach
                                         /\ b[k][1] <= b[k][2]
  <2>1. \A b \in boxes : /\ b[1] \in Ends /\ b[2] \in Ends
                         /\ b[1][1] <= b[1][2] /\ b[2][1] <= b[2][2]
    BY SpansOf
  <2>2. \A s \in Ends : s[1] \in 0..Reach /\ s[2] \in 0..Reach
    BY DEF Ends
  <2> QED
    BY <2>1, <2>2
<1>3. ASSUME NEW S \in SUBSET (0..Reach), S # {}
      PROVE  Low(S) \in S /\ Top(S) \in S /\ \A y \in S : Low(S) <= y /\ Top(S) >= y
  BY <1>3, Extremes
<1>4. ASSUME NEW k \in {1, 2}
      PROVE  /\ Low(Lows(k)) \in 0..Reach /\ Top(Tops(k)) \in 0..Reach
             /\ \A b \in boxes : Low(Lows(k)) <= b[k][1] /\ b[k][2] <= Top(Tops(k))
  <2>1. Lows(k) \in SUBSET (0..Reach) /\ Tops(k) \in SUBSET (0..Reach)
    BY <1>2
  <2>2. Lows(k) # {} /\ Tops(k) # {}
    OBVIOUS
  <2>3. \A b \in boxes : b[k][1] \in Lows(k) /\ b[k][2] \in Tops(k)
    OBVIOUS
  <2> HIDE DEF Lows, Tops
  <2>4. Low(Lows(k)) \in Lows(k) /\ \A y \in Lows(k) : Low(Lows(k)) <= y
    BY <1>3, <2>1, <2>2
  <2>5. Top(Tops(k)) \in Tops(k) /\ \A y \in Tops(k) : Top(Tops(k)) >= y
    BY <1>3, <2>1, <2>2
  <2> HIDE DEF Low, Top
  <2>6. \A b \in boxes : Low(Lows(k)) <= b[k][1]
    BY <2>3, <2>4
  <2>7. \A b \in boxes : b[k][2] <= Top(Tops(k))
    <3> SUFFICES ASSUME NEW b \in boxes PROVE b[k][2] <= Top(Tops(k))
      OBVIOUS
    <3>1. Top(Tops(k)) >= b[k][2]
      BY <2>3, <2>5
    <3>2. Top(Tops(k)) \in 0..Reach /\ b[k][2] \in 0..Reach
      BY <1>2, <2>1, <2>5
    <3> HIDE DEF Tops
    <3> QED
      BY <1>1, <3>1, <3>2
  <2> QED
    BY <2>1, <2>4, <2>5, <2>6, <2>7
<1>5. Enclosing(boxes) = {u}
  BY Zenon DEF Enclosing
<1> HIDE DEF Low, Top, Lows, Tops
<1>6. \A k \in {1, 2} : /\ Hold(k)[1] = Low(Lows(k)) /\ Hold(k)[2] = Top(Tops(k))
                        /\ Hold(k) = <<Low(Lows(k)), Top(Tops(k))>>
  OBVIOUS
<1> HIDE DEF Hold
<1>7. \A k \in {1, 2} : /\ Hold(k) \in Ends /\ Hold(k)[1] <= Hold(k)[2]
                        /\ \A b \in boxes : Hold(k)[1] <= b[k][1] /\ b[k][2] <= Hold(k)[2]
  <2> SUFFICES ASSUME NEW k \in {1, 2}
               PROVE  /\ Hold(k) \in Ends /\ Hold(k)[1] <= Hold(k)[2]
                      /\ \A b \in boxes : Hold(k)[1] <= b[k][1] /\ b[k][2] <= Hold(k)[2]
    OBVIOUS
  <2>1. /\ Hold(k)[1] \in 0..Reach /\ Hold(k)[2] \in 0..Reach
        /\ \A b \in boxes : Hold(k)[1] <= b[k][1] /\ b[k][2] <= Hold(k)[2]
    BY <1>4, <1>6
  <2>2. Hold(k) \in Ends
    BY <1>4, <1>6 DEF Ends
  <2>3. Hold(k)[1] <= Hold(k)[2]
    <3>1. PICK b \in boxes : TRUE
      OBVIOUS
    <3> QED
      BY <1>1, <1>2, <2>1, <3>1
  <2> QED
    BY <2>1, <2>2, <2>3
<1>8. u \in Boxes /\ u[1] = Hold(1) /\ u[2] = Hold(2)
  BY <1>7 DEF Boxes, ValidBox
<1> HIDE DEF u
<1>9. ASSUME NEW e \in boxes PROVE Points(e) \subseteq Points(u)
  <2>1. e \in Boxes
    OBVIOUS
  <2>2. \A k \in {1, 2} : e[k][1] >= u[k][1] /\ e[k][2] <= u[k][2]
    <3>1. \A k \in {1, 2} : /\ u[k][1] \in 0..Reach /\ u[k][1] <= e[k][1] /\ e[k][2] <= u[k][2]
      BY <1>7, <1>8 DEF Ends
    <3> QED
      BY <1>1, <1>2, <3>1
  <2> QED
    BY <1>8, <2>1, <2>2, BoxesMeet
<1> QED
  BY <1>5, <1>8, <1>9

\* How a box lies to the extent of a dataset, told by its points.
LEMMA CoverageMeans ==
    ASSUME NEW a \in Boxes, NEW u \in Boxes
    PROVE  /\ Coverage(a, {u}) = "disjoint" <=> Points(a) \cap Points(u) = {}
           /\ Coverage(a, {u}) = "none" <=> Points(a) = Points(u)
           /\ Coverage(a, {u}) = "inside" <=> Points(a) \subseteq Points(u) /\ Points(a) # Points(u)
<1> DEFINE s1 == AxisState(a[1], u[1])
           s2 == AxisState(a[2], u[2])
           states == UNION {{AxisState(a[1], e[1]), AxisState(a[2], e[2])} : e \in {u}}
<1>1. states = {s1, s2}
  OBVIOUS
<1>2. /\ a[1] \in Ends /\ a[2] \in Ends /\ u[1] \in Ends /\ u[2] \in Ends
      /\ a[1][1] <= a[1][2] /\ a[2][1] <= a[2][2] /\ u[1][1] <= u[1][2] /\ u[2][1] <= u[2][2]
      /\ a = <<a[1], a[2]>> /\ u = <<u[1], u[2]>>
  BY SpansOf
<1> DEFINE Within(s, t) == s[1] >= t[1] /\ s[2] <= t[2]
<1>3. ASSUME NEW s \in Ends, NEW t \in Ends, s[1] <= s[2], t[1] <= t[2]
      PROVE  /\ AxisState(s, t) \in {"exact", "disjoint", "inside", "exceeds"}
             /\ AxisState(s, t) = "exact" <=> s = t
             /\ AxisState(s, t) = "disjoint" <=> ~Meet(s, t)
             /\ AxisState(s, t) \in {"exact", "inside"} <=> Within(s, t)
  <2>1. Reach \in Nat
    BY CatalogueAssumption
  <2>2. s[1] \in 0..Reach /\ s[2] \in 0..Reach /\ t[1] \in 0..Reach /\ t[2] \in 0..Reach
    BY DEF Ends
  <2>3. s = t => Meet(s, t) /\ Within(s, t)
    BY <1>3, <2>1, <2>2 DEF Meet
  <2>4. Within(s, t) => Meet(s, t)
    BY <1>3, <2>1, <2>2 DEF Meet
  <2> HIDE DEF Within
  <2>5. AxisState(s, t) = IF s = t THEN "exact" ELSE IF ~Meet(s, t) THEN "disjoint"
                          ELSE IF Within(s, t) THEN "inside" ELSE "exceeds"
    BY Zenon DEF AxisState, Within
  <2> QED
    BY <2>3, <2>4, <2>5
<1>4. /\ s1 \in {"exact", "disjoint", "inside", "exceeds"}
      /\ s1 = "exact" <=> a[1] = u[1]
      /\ s1 = "disjoint" <=> ~Meet(a[1], u[1])
      /\ s1 \in {"exact", "inside"} <=> Within(a[1], u[1])
  BY <1>2, <1>3
<1>5. /\ s2 \in {"exact", "disjoint", "inside", "exceeds"}
      /\ s2 = "exact" <=> a[2] = u[2]
      /\ s2 = "disjoint" <=> ~Meet(a[2], u[2])
      /\ s2 \in {"exact", "inside"} <=> Within(a[2], u[2])
  BY <1>2, <1>3
<1>6. Coverage(a, {u}) = IF states \subseteq {"exact"} THEN "none"
                         ELSE IF "disjoint" \in states THEN "disjoint"
                         ELSE IF "exceeds" \notin states THEN "inside"
                         ELSE IF "inside" \notin states THEN "exceeds" ELSE "mismatch"
  BY Zenon DEF Coverage
<1>7. /\ Meet(a[1], u[1]) /\ Meet(a[2], u[2]) <=> Points(a) \cap Points(u) # {}
      /\ Within(a[1], u[1]) /\ Within(a[2], u[2]) <=> Points(a) \subseteq Points(u)
      /\ Points(a) = Points(u) <=> a = u
  BY BoxesMeet
<1>8. a = u <=> a[1] = u[1] /\ a[2] = u[2]
  BY <1>2
<1> HIDE DEF s1, s2, states, Within
<1>9. /\ Coverage(a, {u}) = "disjoint" <=> s1 = "disjoint" \/ s2 = "disjoint"
      /\ Coverage(a, {u}) = "none" <=> s1 = "exact" /\ s2 = "exact"
      /\ Coverage(a, {u}) = "inside" <=> /\ s1 \in {"exact", "inside"} /\ s2 \in {"exact", "inside"}
                                         /\ ~(s1 = "exact" /\ s2 = "exact")
  BY <1>1, <1>4, <1>5, <1>6
<1> QED
  BY <1>4, <1>5, <1>7, <1>8, <1>9

\* What FoundIffInside says of a coverage.
LEMMA CoverAnswers ==
    ASSUME IInv, Given("cover")
    PROVE  LET whole == UNION {Points(e) : e \in Enclosing(ask.extents)}
               mine  == Points(ask.box)
           IN  /\ Reply = "disjoint" <=> ask.extents # {} /\ mine \cap whole = {}
               /\ Reply = "none" <=> ask.extents = {} \/ mine = whole
               /\ Reply = "inside" <=> mine \subseteq whole /\ mine # whole
               /\ \A e \in ask.extents : Points(e) \subseteq whole
<1> DEFINE whole == UNION {Points(e) : e \in Enclosing(ask.extents)}
           mine  == Points(ask.box)
<1>1. ask.box \in Boxes /\ ask.extents \in SUBSET Boxes
  BY FindsAssumption DEF IInv, Questioned, Given
<1>2. Reply = Coverage(ask.box, Enclosing(ask.extents))
  BY DEF IInv, Replied, Reply
<1>3. mine # {}
  <2>1. /\ ask.box[1] \in Ends /\ ask.box[2] \in Ends
        /\ ask.box[1][1] <= ask.box[1][2] /\ ask.box[2][1] <= ask.box[2][2]
    BY <1>1, SpansOf
  <2>2. ask.box[1][1] \in Instants(ask.box[1]) /\ ask.box[2][1] \in Instants(ask.box[2])
    BY <2>1, SpansMeet
  <2>3. <<ask.box[1][1], ask.box[2][1]>> \in mine
    BY <2>2, PointsOf
  <2> QED
    BY <2>3
<1>4. CASE ask.extents = {}
  <2>1. Enclosing(ask.extents) = {}
    BY <1>4 DEF Enclosing
  <2>2. Reply = "none"
    BY <1>2, <2>1 DEF Coverage
  <2>3. whole = {}
    BY <2>1
  <2> HIDE DEF whole, mine
  <2> QED
    BY <1>3, <1>4, <2>2, <2>3 DEF whole, mine
<1>5. CASE ask.extents # {}
  <2>1. PICK u \in Boxes : /\ Enclosing(ask.extents) = {u}
                           /\ \A e \in ask.extents : Points(e) \subseteq Points(u)
    BY <1>1, <1>5, EnclosingMeans
  <2>2. whole = Points(u)
    BY <2>1
  <2>3. /\ Reply = "disjoint" <=> mine \cap Points(u) = {}
        /\ Reply = "none" <=> mine = Points(u)
        /\ Reply = "inside" <=> mine \subseteq Points(u) /\ mine # Points(u)
    BY <1>1, <1>2, <2>1, CoverageMeans
  <2> QED
    BY <1>5, <2>1, <2>2, <2>3
<1> QED
  BY <1>4, <1>5

\* The datasets that a search goes through.
Fitting(asked, boxes, times) ==
    {c \in DOMAIN Cards :
        /\ \E i \in DOMAIN asked : Products[asked[i]].id = Cards[c].product
        /\ \A b \in boxes : BoxOverlaps(Cards[c].box, b)
        /\ \A t \in times : TimeOverlaps(Cards[c].time, t)}

\* It shows the best of them, and leaves out none where it is sure.
ShowsBest(r, fits, query, limit) ==
    LET shown == {r.selected[i] : i \in DOMAIN r.selected}
    IN  /\ shown \subseteq fits
        /\ \A c \in fits \ shown :
             /\ Len(r.selected) \in {limit, MaxCards}
             /\ r.confidence # "high"
             /\ \A d \in shown : CardScore(Cards[d], query) >= CardScore(Cards[c], query)

\* A product that is asked for twice counts where it was last.
LEMMA LastAsked ==
    ASSUME NEW asked \in Seq(DOMAIN Products), NEW i \in DOMAIN asked
    PROVE  \E k \in DOMAIN asked : /\ asked[k] = asked[i]
                                   /\ \A j \in DOMAIN asked : asked[j] = asked[k] => j <= k
<1> DEFINE Same == {k \in DOMAIN asked : asked[k] = asked[i]}
           T == {Len(asked) - k : k \in Same}
<1>1. Len(asked) \in Nat /\ DOMAIN asked = 1..Len(asked)
  OBVIOUS
<1>2. \A k \in Same : k \in Nat /\ Len(asked) - k \in Nat
  BY <1>1
<1>3. i \in Same
  OBVIOUS
<1>4. Len(asked) - i \in T /\ (\A k \in Same : Len(asked) - k \in T)
  BY <1>3
<1>5. T \in SUBSET Nat
  BY <1>2
<1>6. \A t \in T : \E k \in Same : t = Len(asked) - k
  OBVIOUS
<1> HIDE DEF T
<1>7. PICK t \in T : \A u \in T : t <= u
  BY <1>4, <1>5, Least
<1>8. PICK k \in Same : t = Len(asked) - k
  BY <1>6
<1>9. ASSUME NEW j \in DOMAIN asked, asked[j] = asked[k] PROVE j <= k
  <2>1. j \in Same
    BY <1>9
  <2>2. Len(asked) - k <= Len(asked) - j
    BY <1>4, <1>7, <1>8, <2>1
  <2> QED
    BY <1>1, <1>2, <2>1, <2>2
<1> QED
  BY <1>9

LEMMA CardsMean ==
    ASSUME NEW asked \in Seq(DOMAIN Products), NEW query, NEW limit \in Nat,
           NEW boxes, NEW times
    PROVE  ShowsBest(SearchCards(asked, query, limit, boxes, times),
                     Fitting(asked, boxes, times), query, limit)
<1> DEFINE pool  == Fitting(asked, boxes, times)
           score == [c \in pool |-> CardScore(Cards[c], query)]
           Place(c) == CHOOSE i \in DOMAIN asked :
                          /\ Products[asked[i]].id = Cards[c].product
                          /\ \A j \in DOMAIN asked : asked[j] = asked[i] => j <= i
           rank  == [c \in pool |-> - Place(c)]
           order == Ranked(pool, score, rank)
           count == IF limit < MaxCards THEN limit ELSE MaxCards
           sel   == First(count, order)
           r     == SearchCards(asked, query, limit, boxes, times)
<1>1. /\ r.selected = sel
      /\ r.confidence = (IF order = <<>> THEN "low"
                         ELSE IF query # {} /\ score[order[1]] = 0 THEN "low"
                         ELSE IF Len(order) > count THEN "medium" ELSE "high")
  <2> DEFINE mine == {c \in DOMAIN Cards : \E i \in DOMAIN asked :
                                              Products[asked[i]].id = Cards[c].product}
             nearby == {c \in mine : \A b \in boxes : BoxOverlaps(Cards[c].box, b)}
  <2>1. pool = {c \in nearby : \A t \in times : TimeOverlaps(Cards[c].time, t)}
    BY DEF Fitting
  <2> QED
    BY <2>1 DEF SearchCards
<1>2. pool \in SUBSET Nat /\ IsFiniteSet(pool) /\ pool \subseteq DOMAIN Cards
  <2>1. pool \in SUBSET DOMAIN Cards
    BY DEF Fitting
  <2> QED
    BY <2>1, Catalogued, FS_Subset
<1>3. \A c \in pool : score[c] = CardScore(Cards[c], query) /\ score[c] \in Int
  BY <1>2, ScoresCount
<1>4. \A c \in pool : rank[c] \in Int
  <2> SUFFICES ASSUME NEW c \in pool PROVE - Place(c) \in Int
    OBVIOUS
  <2>1. PICK i \in DOMAIN asked : Products[asked[i]].id = Cards[c].product
    BY DEF Fitting
  <2>2. PICK k \in DOMAIN asked : /\ asked[k] = asked[i]
                                  /\ \A j \in DOMAIN asked : asked[j] = asked[k] => j <= k
    BY LastAsked
  <2>3. Products[asked[k]].id = Cards[c].product
    BY <2>1, <2>2
  <2>4. Place(c) \in DOMAIN asked
    BY <2>2, <2>3
  <2> HIDE DEF Place
  <2> QED
    BY <2>4
<1> HIDE DEF pool, score, rank
<1>5. Ranks(order, pool, score)
  BY <1>2, <1>3, <1>4, RankedMeans
<1>6. count \in Nat /\ count \in {limit, MaxCards}
  BY SearchAssumption
<1> HIDE DEF order, count
<1>7. Starting(sel, count, order)
  BY <1>5, <1>6, FirstMeans DEF Ranks
<1> HIDE DEF sel, r
<1> DEFINE shown == {sel[i] : i \in DOMAIN sel}
<1>8. shown = {order[i] : i \in 1..Len(sel)} /\ Len(sel) \in 0..Len(order)
  BY <1>5, <1>7 DEF Starting, Ranks
<1>9. shown \subseteq pool
  BY <1>5, <1>8 DEF Ranks
<1>10. ASSUME NEW c \in pool \ shown
       PROVE  /\ Len(sel) \in {limit, MaxCards}
              /\ r.confidence # "high"
              /\ \A d \in shown : CardScore(Cards[d], query) >= CardScore(Cards[c], query)
  <2>1. PICK b \in DOMAIN order : order[b] = c
    BY <1>5 DEF Ranks
  <2>2. b > Len(sel) /\ b <= Len(order)
    <3>1. Len(sel) \in Nat /\ Len(order) \in Nat /\ b \in 1..Len(order)
      BY <1>5, <1>7, <2>1 DEF Ranks, Starting
    <3>2. b \notin 1..Len(sel)
      <4>1. b \in 1..Len(sel) => order[b] \in shown
        BY <1>8
      <4> HIDE DEF shown
      <4> QED
        BY <2>1, <4>1
    <3> QED
      BY <3>1, <3>2
  <2>3. Len(sel) # Len(order) /\ Len(sel) = count /\ Len(order) > count
    BY <1>5, <1>7, <1>8, <2>2 DEF Starting, Ranks
  <2>4. r.confidence # "high"
    BY <1>1, <2>3
  <2>5. ASSUME NEW d \in shown PROVE CardScore(Cards[d], query) >= CardScore(Cards[c], query)
    <3>1. PICK a \in 1..Len(sel) : order[a] = d
      BY <1>8
    <3>2. a \in DOMAIN order /\ a < b
      BY <1>5, <1>8, <2>2 DEF Ranks
    <3>3. score[c] <= score[d]
      BY <1>5, <2>1, <3>1, <3>2 DEF Ranks
    <3>4. d \in pool
      BY <1>9
    <3> QED
      BY <1>3, <3>3, <3>4
  <2> QED
    BY <1>6, <2>3, <2>4, <2>5
<1> QED
  BY <1>1, <1>9, <1>10 DEF ShowsBest, pool, r

\* A dataset fits if it shares a point and an instant with what is looked for.
LEMMA FitsIffShares ==
    ASSUME NEW asked, NEW boxes \in SUBSET Boxes, NEW times \in SUBSET Ends,
           \A t \in times : ValidTime(t), NEW c \in DOMAIN Cards
    PROVE  c \in Fitting(asked, boxes, times) <=>
             /\ \A b \in boxes : \E e \in Cards[c].box : Points(e) \cap Points(b) # {}
             /\ \A t \in times : \E e \in Cards[c].time : Instants(e) \cap Instants(t) # {}
             /\ \E i \in DOMAIN asked : Products[asked[i]].id = Cards[c].product
<1>1. Cards[c].box \in SUBSET Boxes /\ Cards[c].time \in SUBSET Ends
  <2>1. Cards[c] \in CardRecords
    BY Catalogued
  <2> QED
    BY <2>1 DEF CardRecords
<1>2. ASSUME NEW b \in boxes
      PROVE  BoxOverlaps(Cards[c].box, b) <=> \E e \in Cards[c].box : Points(e) \cap Points(b) # {}
  <2>1. \A e \in Cards[c].box : (Meet(e[1], b[1]) /\ Meet(e[2], b[2])) <=> Points(e) \cap Points(b) # {}
    BY <1>1, BoxesMeet
  <2> QED
    BY <2>1 DEF BoxOverlaps
<1>3. ASSUME NEW t \in times
      PROVE  TimeOverlaps(Cards[c].time, t)
               <=> \E e \in Cards[c].time : Instants(e) \cap Instants(t) # {}
  <2>1. Reach \in Nat /\ t \in Ends /\ t[1] \in 0..Reach /\ t[2] \in 0..Reach /\ t[1] <= t[2]
    <3>1. t \in Ends /\ t[1] < t[2]
      BY DEF ValidTime
    <3> QED
      BY <3>1, CatalogueAssumption DEF Ends
  <2>2. ASSUME NEW e \in Ends
        PROVE  (e[1] <= e[2] /\ Meet(e, t)) <=> Instants(e) \cap Instants(t) # {}
    <3>1. CASE e[1] <= e[2]
      BY <2>1, <3>1, SpansMeet
    <3>2. CASE ~(e[1] <= e[2])
      <4>1. e[1] \in 0..Reach /\ e[2] \in 0..Reach
        BY DEF Ends
      <4>2. Instants(e) = {}
        BY <2>1, <3>2, <4>1 DEF Instants
      <4> QED
        BY <3>2, <4>2
    <3> QED
      BY <3>1, <3>2
  <2> QED
    BY <1>1, <2>2 DEF TimeOverlaps
<1> QED
  BY <1>2, <1>3 DEF Fitting

\* What FoundIffInside says of the datasets that are shown.
LEMMA CardsAnswer ==
    ASSUME IInv, Given("cards"), Reply.confidence # "refused"
    PROVE  LET shown == {Reply.selected[i] : i \in DOMAIN Reply.selected}
               fits  == {c \in DOMAIN Cards : Shares(c)}
           IN  /\ shown \subseteq fits
               /\ \A c \in fits \ shown :
                    /\ Len(Reply.selected) \in {ask.top, MaxCards}
                    /\ Reply.confidence # "high"
                    /\ \A d \in shown : CardScore(Cards[d], ask.query) >= CardScore(Cards[c], ask.query)
               /\ \A c \in shown, b \in ask.boxes : Coverage(b, Cards[c].box) # "disjoint"
<1> DEFINE asked == IF ask.asked = <<>> THEN [p \in DOMAIN Products |-> p] ELSE ask.asked
           shown == {Reply.selected[i] : i \in DOMAIN Reply.selected}
           fits  == {c \in DOMAIN Cards : Shares(c)}
<1>1. /\ ask.top \in Nat /\ ask.asked \in Seq(DOMAIN Products)
      /\ ask.boxes \in SUBSET (Ends \X Ends) /\ ask.times \in SUBSET Ends
  BY FindsAssumption DEF IInv, Questioned, Given
<1>2. Reply = SearchInProducts(ask.asked, ask.query, ask.top, ask.boxes, ask.times)
  BY DEF IInv, Replied, Reply
<1>3. (\A b \in ask.boxes : ValidBox(b)) /\ (\A t \in ask.times : ValidTime(t))
  BY <1>2 DEF SearchInProducts
<1>4. Reply = SearchCards(asked, ask.query, ask.top, ask.boxes, ask.times)
  BY <1>2, <1>3, Zenon DEF SearchInProducts
<1>5. ask.boxes \in SUBSET Boxes
  BY <1>1, <1>3 DEF Boxes
<1>6. asked \in Seq(DOMAIN Products)
  <2>1. Products \in Seq(ProductRecords)
    BY CatalogueAssumption DEF ProductRecords
  <2>2. Len(Products) \in Nat /\ DOMAIN Products = 1..Len(Products)
    BY <2>1
  <2>3. [p \in DOMAIN Products |-> p] \in Seq(DOMAIN Products)
    BY <2>2
  <2> QED
    BY <1>1, <2>3
<1>7. ASSUME NEW c \in DOMAIN Cards
      PROVE  (\E i \in DOMAIN asked : Products[asked[i]].id = Cards[c].product)
               <=> (ask.asked # <<>> => \E i \in DOMAIN ask.asked :
                                            Products[ask.asked[i]].id = Cards[c].product)
  <2>1. CASE ask.asked = <<>>
    <3>1. PICK p \in DOMAIN Products : Products[p].id = Cards[c].product
      BY CatalogueAssumption
    <3>2. DOMAIN asked = DOMAIN Products /\ asked[p] = p
      BY <2>1
    <3> QED
      BY <2>1, <3>1, <3>2
  <2>2. CASE ask.asked # <<>>
    BY <2>2
  <2> QED
    BY <2>1, <2>2
<1> HIDE DEF asked
<1>8. fits = Fitting(asked, ask.boxes, ask.times)
  <2>1. ASSUME NEW c \in DOMAIN Cards
        PROVE  Shares(c) <=> c \in Fitting(asked, ask.boxes, ask.times)
    <3>1. c \in Fitting(asked, ask.boxes, ask.times) <=>
             /\ \A b \in ask.boxes : \E e \in Cards[c].box : Points(e) \cap Points(b) # {}
             /\ \A t \in ask.times : \E e \in Cards[c].time : Instants(e) \cap Instants(t) # {}
             /\ \E i \in DOMAIN asked : Products[asked[i]].id = Cards[c].product
      BY <1>1, <1>3, <1>5, FitsIffShares
    <3> QED
      BY <1>7, <3>1, Zenon DEF Shares
  <2>2. Fitting(asked, ask.boxes, ask.times) \subseteq DOMAIN Cards
    BY DEF Fitting
  <2> QED
    BY <2>1, <2>2
<1>9. ShowsBest(Reply, fits, ask.query, ask.top)
  BY <1>1, <1>4, <1>6, <1>8, CardsMean
<1>10. ASSUME NEW c \in fits, NEW b \in ask.boxes PROVE Coverage(b, Cards[c].box) # "disjoint"
  <2>1. PICK e \in Cards[c].box : Points(e) \cap Points(b) # {}
    BY DEF Shares
  <2>2. Cards[c].box = {e} /\ e \in Boxes
    <3>1. Cards[c] \in CardRecords
      BY Catalogued
    <3>2. Cards[c].box \in SUBSET Boxes
      BY <3>1 DEF CardRecords
    <3>3. \A d \in Cards[c].box : d = e
      BY CatalogueAssumption
    <3> QED
      BY <3>2, <3>3
  <2>3. b \in Boxes
    BY <1>5
  <2>4. Coverage(b, {e}) # "disjoint"
    BY <2>1, <2>2, <2>3, CoverageMeans
  <2> QED
    BY <2>2, <2>4
<1> HIDE DEF fits
<1> QED
  BY <1>9, <1>10 DEF ShowsBest, fits

LEMMA GroupsMean ==
    ASSUME NEW query, NEW top \in Nat
    PROVE  LET r == SearchGroups(query, top)
           IN  /\ r.selected \in Seq(DOMAIN Groups)
               /\ \A i \in DOMAIN r.selected : r.selected[i] \notin r.rejected
<1> DEFINE score == [i \in DOMAIN Groups |-> GroupScore(Groups[i], query)]
           pool  == {i \in DOMAIN Groups : score[i] > 0}
           order == Ranked(pool, score, score)
           sel   == First(top, order)
           r     == SearchGroups(query, top)
<1>1. r.selected = sel /\ r.rejected = {i \in DOMAIN Groups : score[i] < 0}
  BY DEF SearchGroups
<1>2. \A i \in DOMAIN Groups : score[i] \in Int
  BY ScoresCount
<1>3. pool \in SUBSET Nat /\ IsFiniteSet(pool) /\ pool \in SUBSET DOMAIN Groups
  <2>1. pool \in SUBSET DOMAIN Groups
    OBVIOUS
  <2> QED
    BY <2>1, Catalogued, FS_Subset
<1>4. \A i \in pool : score[i] \in Int /\ score[i] > 0
  BY <1>2
<1> HIDE DEF score, pool
<1>5. Ranks(order, pool, score)
  BY <1>3, <1>4, RankedMeans
<1> HIDE DEF order
<1>6. Starting(sel, top, order)
  BY <1>5, FirstMeans DEF Ranks
<1>7. \A i \in DOMAIN sel : sel[i] \in pool
  BY <1>5, <1>6, FirstOfRanks, Zenon
<1>8. sel \in Seq(DOMAIN Groups)
  <2>1. order \in Seq(DOMAIN Groups)
    <3>1. \A S, T, s : S \in SUBSET T /\ s \in Seq(S) => s \in Seq(T)
      OBVIOUS
    <3> QED
      BY <1>3, <1>5, <3>1, Zenon DEF Ranks
  <2>2. \A s \in Seq(DOMAIN Groups) : First(top, s) \in Seq(DOMAIN Groups)
    <3> SUFFICES ASSUME NEW s \in Seq(DOMAIN Groups) PROVE First(top, s) \in Seq(DOMAIN Groups)
      OBVIOUS
    <3> DEFINE m == IF top < Len(s) THEN top ELSE Len(s)
    <3>1. m \in 0..Len(s)
      <4>1. Len(s) \in Nat
        OBVIOUS
      <4> QED
        BY <4>1
    <3> HIDE DEF m
    <3>2. SubSeq(s, 1, m) \in Seq(DOMAIN Groups)
      BY <3>1
    <3> QED
      BY <3>2 DEF First, m
  <2> QED
    BY <2>1, <2>2
<1> HIDE DEF sel, r
<1> QED
  BY <1>1, <1>4, <1>7, <1>8 DEF r

\* Products are found wherever there are groups, and only in them.
LEMMA ProductsMean ==
    ASSUME NEW asked \in Seq(DOMAIN Groups), NEW query, NEW top \in Nat \ {0}
    PROVE  LET found == SearchProducts(asked, query, top).selected
           IN  /\ asked # <<>> => found # <<>>
               /\ \A i \in DOMAIN found : \E j \in DOMAIN asked :
                     Products[found[i]].id \in Groups[asked[j]].products
<1> DEFINE n == Len(asked)
           Calling(p) == {i \in 1..n : asked[i] \in DOMAIN Groups
                                      /\ Products[p].id \in Groups[asked[i]].products}
           pool  == {p \in DOMAIN Products : Calling(p) # {}}
           rank  == [p \in pool |-> Cardinality({w \in Calling(p) \X (1..n) : w[1] <= w[2]})]
           score == [p \in pool |-> ProductScore(Products[p], query)]
           order == Ranked(pool, score, rank)
           found == First(top, order)
<1>1. SearchProducts(asked, query, top).selected = found
  BY DEF SearchProducts
<1>2. n \in Nat /\ DOMAIN asked = 1..n /\ \A i \in 1..n : asked[i] \in DOMAIN Groups
  OBVIOUS
<1>3. pool \in SUBSET Nat /\ IsFiniteSet(pool) /\ pool \in SUBSET DOMAIN Products
  <2>1. pool \in SUBSET DOMAIN Products
    OBVIOUS
  <2> QED
    BY <2>1, Catalogued, FS_Subset
<1>4. \A p \in pool : rank[p] \in Int
  <2> SUFFICES ASSUME NEW p \in pool
               PROVE  Cardinality({w \in Calling(p) \X (1..n) : w[1] <= w[2]}) \in Int
    OBVIOUS
  <2>1. Calling(p) \in SUBSET (1..n) /\ IsFiniteSet(1..n)
    BY <1>2, FS_Interval
  <2> HIDE DEF Calling
  <2>2. IsFiniteSet((1..n) \X (1..n))
    BY <2>1, FS_Product
  <2>3. {w \in Calling(p) \X (1..n) : w[1] <= w[2]} \in SUBSET ((1..n) \X (1..n))
    BY <2>1
  <2>4. IsFiniteSet({w \in Calling(p) \X (1..n) : w[1] <= w[2]})
    BY <2>2, <2>3, FS_Subset
  <2>5. Cardinality({w \in Calling(p) \X (1..n) : w[1] <= w[2]}) \in Nat
    BY <2>4, FS_CardinalityType
  <2> QED
    BY <2>5
<1>5. \A p \in pool : score[p] \in Int
  BY <1>3, ScoresCount
<1>6. asked # <<>> => pool # {}
  <2> SUFFICES ASSUME asked # <<>> PROVE pool # {}
    OBVIOUS
  <2>1. 1 \in 1..n /\ asked[1] \in DOMAIN Groups
    BY <1>2
  <2>2. PICK p \in DOMAIN Products : Products[p].id \in Groups[asked[1]].products
    BY <2>1, CatalogueAssumption
  <2>3. 1 \in Calling(p)
    BY <2>1, <2>2
  <2> QED
    BY <2>3
<1>7. \A p \in pool : \E j \in DOMAIN asked : Products[p].id \in Groups[asked[j]].products
  BY <1>2
<1> HIDE DEF pool, rank, score
<1>8. Ranks(order, pool, score)
  BY <1>3, <1>4, <1>5, RankedMeans
<1> HIDE DEF order
<1>9. Starting(found, top, order)
  BY <1>8, FirstMeans DEF Ranks
<1> HIDE DEF found
<1>10. \A i \in DOMAIN found : found[i] \in pool
  BY <1>8, <1>9, FirstOfRanks, Zenon
<1>11. asked # <<>> => found # <<>>
  <2> SUFFICES ASSUME asked # <<>> PROVE Len(found) # 0
    OBVIOUS
  <2>1. PICK p \in pool : TRUE
    BY <1>6
  <2>2. PICK i \in DOMAIN order : order[i] = p
    BY <1>8 DEF Ranks
  <2>3. Len(order) # 0
    BY <1>8, <2>2 DEF Ranks
  <2> QED
    BY <1>9, <2>3 DEF Starting
<1> QED
  BY <1>1, <1>7, <1>10, <1>11

\* What FoundIffInside says of groups and their products.
LEMMA GroupsAnswer ==
    ASSUME IInv, Given("groups")
    PROVE  LET groups == Reply.groups.selected
               found  == Reply.products.selected
           IN  /\ \A g \in DOMAIN Groups : (\E i \in DOMAIN groups : groups[i] = g)
                                           => g \notin Reply.groups.rejected
               /\ groups # <<>> => found # <<>>
               /\ \A i \in DOMAIN found : \E j \in DOMAIN groups :
                     Products[found[i]].id \in Groups[groups[j]].products
<1> DEFINE g == SearchGroups(ask.query, TopGroups)
           p == SearchProducts(g.selected, ask.query, TopProducts)
<1>1. Reply.groups = g /\ Reply.products = p
  BY DEF IInv, Replied, Reply
<1> HIDE DEF g
<1>2. TopGroups \in Nat /\ TopProducts \in Nat \ {0}
  BY SearchAssumption
<1>3. /\ g.selected \in Seq(DOMAIN Groups)
      /\ \A i \in DOMAIN g.selected : g.selected[i] \notin g.rejected
  BY <1>2, GroupsMean DEF g
<1>4. /\ g.selected # <<>> => p.selected # <<>>
      /\ \A i \in DOMAIN p.selected : \E j \in DOMAIN g.selected :
            Products[p.selected[i]].id \in Groups[g.selected[j]].products
  BY <1>2, <1>3, ProductsMean
<1> HIDE DEF p
<1> QED
  BY <1>1, <1>3, <1>4

\* A dataset is shown only if it has a point and an instant in common with what the
\* caller looks for; one that has is left out only for better ones; and the coverage
\* told agrees with the points of the boxes.
\* (_search_in_products, search_datasets_in_products, _build_coverage_advisory)
THEOREM Found == Spec => []FoundIffInside
<1>1. IInv => FoundIffInside
  <2> SUFFICES ASSUME IInv PROVE FoundIffInside
    OBVIOUS
  <2> QED
    BY CardsAnswer, CoverAnswers, GroupsAnswer, Zenon DEF FoundIffInside
<1> QED
  BY <1>1, Answering, PTL

----------------------------------------------------------------------------
(* Splitting.                                                              *)

\* An override gives some axes one of their values each.
Narrow(inputs, over) ==
    /\ over = [a \in DOMAIN over |-> over[a]]
    /\ DOMAIN over \subseteq DOMAIN inputs
    /\ \A a \in DOMAIN over : \E x \in inputs[a] : over[a] = {x}

LEMMA Applied ==
    ASSUME NEW inputs, NEW over, DOMAIN over \subseteq DOMAIN inputs
    PROVE  /\ DOMAIN Apply(inputs, over) = DOMAIN inputs
           /\ \A a \in DOMAIN inputs :
                Apply(inputs, over)[a] = IF a \in DOMAIN over THEN over[a] ELSE inputs[a]
           /\ Apply(inputs, over)
                = [a \in DOMAIN inputs |-> IF a \in DOMAIN over THEN over[a] ELSE inputs[a]]
<1>1. DOMAIN over \cup DOMAIN inputs = DOMAIN inputs
  OBVIOUS
<1>2. Apply(inputs, over)
        = [a \in DOMAIN inputs |-> IF a \in DOMAIN over THEN over[a] ELSE inputs[a]]
  BY <1>1 DEF Apply
<1> QED
  BY <1>2

LEMMA OneOfEachMeans ==
    ASSUME NEW inputs, NEW axes, NEW f
    PROVE  f \in OneOfEach(inputs, axes)
             <=> f = [a \in axes |-> f[a]] /\ \A a \in axes : f[a] \in inputs[a]
<1>1. ASSUME f = [a \in axes |-> f[a]], \A a \in axes : f[a] \in inputs[a]
      PROVE  f \in [axes -> UNION {inputs[a] : a \in axes}]
  BY <1>1
<1>2. ASSUME f \in [axes -> UNION {inputs[a] : a \in axes}]
      PROVE  f = [a \in axes |-> f[a]]
  BY <1>2
<1> QED
  BY <1>1, <1>2 DEF OneOfEach

\* A child asks for what its request asks for of the chosen values.
LEMMA NarrowAsks ==
    ASSUME NEW inputs, NEW over, Narrow(inputs, over), NEW cell
    PROVE  cell \in Asks(Apply(inputs, over))
             <=> cell \in Asks(inputs) /\ \A a \in DOMAIN over : over[a] = {cell[a]}
<1> DEFINE child == Apply(inputs, over)
<1>1. /\ DOMAIN child = DOMAIN inputs
      /\ \A a \in DOMAIN inputs : child[a] = IF a \in DOMAIN over THEN over[a] ELSE inputs[a]
  BY Applied DEF Narrow
<1> HIDE DEF child
<1>2. (\A a \in DOMAIN inputs : cell[a] \in child[a])
        <=> /\ \A a \in DOMAIN inputs : cell[a] \in inputs[a]
            /\ \A a \in DOMAIN over : over[a] = {cell[a]}
  BY <1>1 DEF Narrow
<1>3. cell \in OneOfEach(child, DOMAIN inputs)
        <=> cell \in OneOfEach(inputs, DOMAIN inputs) /\ \A a \in DOMAIN over : over[a] = {cell[a]}
  BY <1>2, OneOfEachMeans
<1> QED
  BY <1>1, <1>3, Zenon DEF Asks, child

\* A plan that orders everything once.
Exact(chunks, inputs) ==
    /\ \A c \in chunks : Narrow(inputs, c.over)
    /\ \A cell \in Asks(inputs) : \E c \in chunks : \A a \in DOMAIN c.over : c.over[a] = {cell[a]}
    /\ \A c, d \in chunks : c # d =>
         \E a \in DOMAIN c.over : a \in DOMAIN d.over /\ c.over[a] # d.over[a]

LEMMA ExactAsks ==
    ASSUME NEW inputs, NEW chunks, Exact(chunks, inputs)
    PROVE  /\ UNION {Asks(Apply(inputs, c.over)) : c \in chunks} = Asks(inputs)
           /\ \A c, d \in chunks : c # d =>
                Asks(Apply(inputs, c.over)) \cap Asks(Apply(inputs, d.over)) = {}
<1>1. \A c \in chunks : \A cell : cell \in Asks(Apply(inputs, c.over))
             <=> cell \in Asks(inputs) /\ \A a \in DOMAIN c.over : c.over[a] = {cell[a]}
  BY NarrowAsks DEF Exact
<1>2. ASSUME NEW cell \in Asks(inputs)
      PROVE  \E c \in chunks : cell \in Asks(Apply(inputs, c.over))
  BY <1>1 DEF Exact
<1>3. ASSUME NEW c \in chunks, NEW d \in chunks, c # d, NEW cell,
             cell \in Asks(Apply(inputs, c.over)), cell \in Asks(Apply(inputs, d.over))
      PROVE  FALSE
  <2>1. PICK a \in DOMAIN c.over : a \in DOMAIN d.over /\ c.over[a] # d.over[a]
    BY <1>3 DEF Exact
  <2>2. c.over[a] = {cell[a]} /\ d.over[a] = {cell[a]}
    BY <1>1, <1>3, <2>1
  <2> QED
    BY <2>1, <2>2
<1> DEFINE Mine(c) == Asks(Apply(inputs, c.over))
<1>4. \A c \in chunks : Mine(c) \subseteq Asks(inputs)
  BY <1>1
<1>5. UNION {Mine(c) : c \in chunks} = Asks(inputs)
  <2>1. \A cell \in Asks(inputs) : \E c \in chunks : cell \in Mine(c)
    BY <1>2
  <2> HIDE DEF Mine
  <2> QED
    BY <1>4, <2>1
<1>6. \A c, d \in chunks : c # d => Mine(c) \cap Mine(d) = {}
  BY <1>3
<1> QED
  BY <1>5, <1>6, Zenon

LEMMA Calendars ==
    /\ Levels = 1..3
    /\ Calendar(1) = {"year"} /\ Calendar(2) = {"year", "month"}
    /\ Calendar(3) = {"year", "month", "day"}
<1>1. Granularities = <<"year", "month", "day">> /\ Levels = 1..3
  BY DEF Granularities, Levels
<1>2. Granularities[1] = "year" /\ Granularities[2] = "month" /\ Granularities[3] = "day"
  BY <1>1
<1>3. 1..1 = {1} /\ 1..2 = {1, 2} /\ 1..3 = {1, 2, 3}
  OBVIOUS
<1> QED
  BY <1>1, <1>2, <1>3 DEF Calendar

\* Inputs the calendar can split.
Datable(inputs) ==
    /\ inputs = [a \in DOMAIN inputs |-> inputs[a]]
    /\ \A a \in DOMAIN inputs : IsFiniteSet(inputs[a])
    /\ CalendarClean(inputs)
    /\ Calendar(2) \subseteq DOMAIN inputs =>
         \A y \in inputs["year"], m \in inputs["month"] :
            Number(y) # Junk /\ Number(m) \in 1..12 =>
               <<Number(y), Number(m)>> \in DOMAIN LastDay

LEMMA Units3Finite ==
    ASSUME NEW inputs, NEW l \in 1..3, Listed(inputs, Calendar(l)),
           \A a \in DOMAIN inputs : IsFiniteSet(inputs[a])
    PROVE  IsFiniteSet(Proposal(inputs, l))
<1> DEFINE V(a) == IF a \in DOMAIN inputs THEN inputs[a] ELSE {}
           X == V("year") \cup V("month") \cup V("day")
           Unit(t) == [a \in Calendar(l) |-> IF a = "year" THEN t[1][1]
                                             ELSE IF a = "month" THEN t[1][2] ELSE t[2]]
           All == {Override(Unit(t)) : t \in (X \X X) \X X}
<1>1. IsFiniteSet(X)
  <2>1. \A a : IsFiniteSet(V(a))
    BY FS_EmptySet
  <2> HIDE DEF V
  <2>2. IsFiniteSet(V("year") \cup V("month"))
    BY <2>1, FS_Union
  <2> QED
    BY <2>1, <2>2, FS_Union
<1>2. Calendar(l) \subseteq DOMAIN inputs /\ "year" \in Calendar(l)
      /\ Calendar(l) \subseteq {"year", "month", "day"}
  BY Calendars DEF Listed
<1>3. ASSUME NEW u \in OneOfEach(inputs, Calendar(l))
      PROVE  \E t \in (X \X X) \X X : u = Unit(t)
  <2>1. u = [a \in Calendar(l) |-> u[a]] /\ \A a \in Calendar(l) : u[a] \in inputs[a]
    BY OneOfEachMeans
  <2>2. \A a \in Calendar(l) : u[a] \in X
    BY <1>2, <2>1
  <2> DEFINE At(a) == IF a \in Calendar(l) THEN u[a] ELSE u["year"]
             t == <<<<At("year"), At("month")>>, At("day")>>
  <2> HIDE DEF X
  <2>3. t \in (X \X X) \X X
    BY <1>2, <2>2
  <2>4. \A a \in Calendar(l) : Unit(t)[a] = u[a]
    BY <1>2
  <2>5. Unit(t) = u
    BY <2>1, <2>4
  <2> QED
    BY <2>3, <2>5
<1> HIDE DEF X, Unit
<1>4. IsFiniteSet(All)
  <2> DEFINE T == (X \X X) \X X
             f == [t \in T |-> Override(Unit(t))]
  <2>1. IsFiniteSet(T)
    BY <1>1, FS_Product
  <2>2. All = {f[t] : t \in T} /\ f \in Surjection(T, All)
    <3>1. \A t \in T : f[t] = Override(Unit(t))
      OBVIOUS
    <3>2. DOMAIN f = T
      OBVIOUS
    <3>3. All = {Override(Unit(t)) : t \in T}
      OBVIOUS
    <3>4. f = [t \in T |-> f[t]]
      OBVIOUS
    <3> HIDE DEF f, T, All
    <3>5. All = {f[t] : t \in T}
      BY <3>1, <3>3
    <3> QED
      BY <3>4, <3>5 DEF Surjection
  <2> HIDE DEF f, T, All
  <2> QED
    BY <2>1, <2>2, FS_Surjection
<1>5. Proposal(inputs, l) \subseteq All
  BY <1>3 DEF Proposal
<1> QED
  BY <1>4, <1>5, FS_Subset

\* The units of a level are chosen from the lists, and no two alike.
LEMMA ProposalNarrow ==
    ASSUME NEW inputs, NEW l \in 1..3
    PROVE  /\ \A o \in Proposal(inputs, l) : Narrow(inputs, o) /\ DOMAIN o = Calendar(l)
           /\ \A o, r \in Proposal(inputs, l) : o # r => \E a \in Calendar(l) : o[a] # r[a]
<1>1. ASSUME NEW o \in Proposal(inputs, l) PROVE Narrow(inputs, o) /\ DOMAIN o = Calendar(l)
  <2>1. Listed(inputs, Calendar(l))
    BY DEF Proposal
  <2>2. PICK u \in OneOfEach(inputs, Calendar(l)) : o = Override(u)
    BY DEF Proposal
  <2>3. DOMAIN u = Calendar(l) /\ \A a \in Calendar(l) : u[a] \in inputs[a]
    BY OneOfEachMeans
  <2>4. o = [a \in Calendar(l) |-> {u[a]}]
    BY <2>2, <2>3 DEF Override
  <2> QED
    BY <2>1, <2>3, <2>4 DEF Narrow, Listed
<1>2. ASSUME NEW o \in Proposal(inputs, l), NEW r \in Proposal(inputs, l),
             \A a \in Calendar(l) : o[a] = r[a]
      PROVE  o = r
  <2>1. o = [a \in Calendar(l) |-> o[a]] /\ r = [a \in Calendar(l) |-> r[a]]
    BY <1>1 DEF Narrow
  <2> QED
    BY <1>2, <2>1
<1> QED
  BY <1>1, <1>2

\* Every combination that exists lies in one of them.
Covered(overrides, inputs) ==
    \A cell \in Asks(inputs) : \E o \in overrides : \A a \in DOMAIN o : o[a] = {cell[a]}

LEMMA ProposalCovers ==
    ASSUME NEW inputs, Datable(inputs), NEW l \in 1..3, Listed(inputs, Calendar(l))
    PROVE  Covered(Proposal(inputs, l), inputs)
<1> SUFFICES ASSUME NEW cell \in Asks(inputs)
             PROVE  \E o \in Proposal(inputs, l) : \A a \in DOMAIN o : o[a] = {cell[a]}
  BY DEF Covered
<1> DEFINE u == [a \in Calendar(l) |-> cell[a]]
<1>1. /\ DOMAIN cell = DOMAIN inputs /\ Exists(cell)
      /\ \A a \in DOMAIN inputs : cell[a] \in inputs[a]
  BY OneOfEachMeans DEF Asks
<1>2. Calendar(l) \subseteq DOMAIN inputs /\ "year" \in Calendar(l)
  BY Calendars DEF Listed
<1>3. u \in OneOfEach(inputs, Calendar(l))
  BY <1>1, <1>2, OneOfEachMeans
<1>4. Number(cell["year"]) # Junk
  BY <1>1, <1>2, Calendars DEF Datable, CalendarClean
<1>5. l = 1 \/ "month" \in Calendar(l)
  BY Calendars
<1>6. "month" \in Calendar(l) => Number(cell["month"]) \in 1..12
  BY <1>1, <1>2 DEF Exists
<1> DEFINE y == Number(cell["year"])
           m == Number(cell["month"])
           d == Number(cell["day"])
<1>7. "day" \in Calendar(l) => RealDay(y, m, d)
  <2> SUFFICES ASSUME "day" \in Calendar(l)
               PROVE  RealDay(y, m, d)
    OBVIOUS
  <2>1. l = 3
    BY Calendars
  <2>2. /\ <<y, m>> \in DOMAIN LastDay
        /\ d \in 1..LastDay[<<y, m>>]
        /\ m \in 1..12
    BY <1>1, <1>2, <1>6, <2>1, Calendars DEF Exists
  <2>3. LastDay[<<y, m>>] = MonthLength(y, m)
    BY <2>2, SplitsAssumption
  <2> QED
    BY <2>2, <2>3 DEF RealDay
<1>8. RealUnit(u)
  <2>1. DOMAIN u = Calendar(l) /\ \A a \in Calendar(l) : u[a] = cell[a]
    OBVIOUS
  <2>2. DOMAIN u # {"year"} => Number(u["year"]) # Junk /\ Number(u["month"]) \in 1..12
    BY <1>2, <1>4, <1>5, <1>6, <2>1, Calendars
  <2>3. "day" \in DOMAIN u =>
          RealDay(Number(u["year"]), Number(u["month"]), Number(u["day"]))
    <3>1. "day" \in Calendar(l) => "month" \in Calendar(l)
      BY Calendars
    <3> QED
      BY <1>2, <1>7, <2>1, <3>1
  <2> QED
    BY <2>2, <2>3 DEF RealUnit
<1>9. Override(u) \in Proposal(inputs, l)
  BY <1>3, <1>8 DEF Proposal
<1>10. \A a \in DOMAIN Override(u) : Override(u)[a] = {cell[a]}
  BY DEF Override
<1> QED
  BY <1>9, <1>10

\* A day of the calendar is asked for, if nothing else is empty.
LEMMA DaysAsked ==
    ASSUME NEW inputs, Datable(inputs), NEW o \in Proposal(inputs, 3),
           \A a \in DOMAIN inputs : inputs[a] # {}
    PROVE  Asks(Apply(inputs, o)) # {}
<1>1. Calendar(3) \subseteq DOMAIN inputs
  BY DEF Proposal, Listed
<1>2. PICK u \in OneOfEach(inputs, Calendar(3)) : o = Override(u) /\ RealUnit(u)
  BY DEF Proposal
<1>3. DOMAIN u = {"year", "month", "day"} /\ \A a \in Calendar(3) : u[a] \in inputs[a]
  <2>1. u = [a \in Calendar(3) |-> u[a]] /\ \A a \in Calendar(3) : u[a] \in inputs[a]
    BY OneOfEachMeans
  <2>2. DOMAIN u = Calendar(3)
    BY <2>1
  <2> QED
    BY <2>1, <2>2, Calendars
<1> DEFINE y == Number(u["year"])
           m == Number(u["month"])
           d == Number(u["day"])
<1>4. y # Junk /\ m \in 1..12 /\ RealDay(y, m, d)
  BY <1>2, <1>3 DEF RealUnit
<1> DEFINE cell == [a \in DOMAIN inputs |-> IF a \in Calendar(3) THEN u[a]
                                            ELSE CHOOSE x \in inputs[a] : TRUE]
<1>5. \A a \in DOMAIN inputs : cell[a] \in inputs[a]
  BY <1>3
<1>6. cell["year"] = u["year"] /\ cell["month"] = u["month"] /\ cell["day"] = u["day"]
  BY <1>1, Calendars
<1>7. cell = [a \in DOMAIN inputs |-> cell[a]] /\ DOMAIN cell = DOMAIN inputs
  OBVIOUS
<1>8. \A a \in DOMAIN o : o[a] = {cell[a]}
  <2>1. DOMAIN o = Calendar(3) /\ \A a \in Calendar(3) : o[a] = {u[a]}
    BY <1>2, <1>3, Calendars DEF Override
  <2> QED
    BY <1>1, <2>1
<1> HIDE DEF cell
<1>9. Exists(cell)
  <2>1. <<y, m>> \in DOMAIN LastDay
    BY <1>1, <1>3, <1>4, Calendars DEF Datable
  <2>2. d \in 1..LastDay[<<y, m>>]
    BY <1>4, <2>1, SplitsAssumption DEF RealDay
  <2> QED
    BY <1>4, <1>6, <2>1, <2>2 DEF Exists
<1>10. cell \in Asks(inputs)
  BY <1>5, <1>7, <1>9, OneOfEachMeans DEF Asks
<1> QED
  BY <1>8, <1>10, NarrowAsks, ProposalNarrow

LEMMA PricedCount ==
    ASSUME NEW overrides, IsFiniteSet(overrides), NEW cost
    PROVE  /\ IsFiniteSet(Priced(overrides, cost))
           /\ Cardinality(Priced(overrides, cost)) <= Cardinality(overrides)
<1> DEFINE f == [o \in overrides |-> [over |-> o, units |-> cost[o]]]
           P == Priced(overrides, cost)
<1>1. /\ f = [o \in overrides |-> f[o]] /\ P = {f[o] : o \in overrides}
  BY DEF Priced
<1> HIDE DEF f, P
<1>2. f \in Surjection(overrides, P)
  BY <1>1 DEF Surjection
<1> QED
  BY <1>2, FS_Surjection DEF P

\* Whole units of a level would not do for these inputs.
TooCoarse(inputs, level, weight, limit) ==
    \/ Proposal(inputs, level) = {}
    \/ \E o \in Proposal(inputs, level) : Units(Apply(inputs, o), weight) > limit

\* What a plan of one level is.
PlanOf(inputs, level, service) ==
    LET p == Proposal(inputs, level)
    IN  Planned({level}, Priced(p, [c \in p |-> Cost(Apply(inputs, c), service)]))

LEMMA VerdictMeans ==
    ASSUME NEW inputs, NEW limit \in Nat, NEW level, NEW service
    PROVE  LET v == Verdicts(inputs, limit, level, service)
           IN  /\ "fits" \in v =>
                    /\ v = {"fits"}
                    /\ Proposal(inputs, level) # {}
                    /\ ~(Cardinality(Proposal(inputs, level)) > MaxChunks)
                    /\ \A o \in Proposal(inputs, level) :
                         Cost(Apply(inputs, o), service) \in 0..limit
               /\ v \cap {"missing", "over"} # {} =>
                    TooCoarse(inputs, level, service.weight, limit)
<1> DEFINE proposal == Proposal(inputs, level)
           cost == [c \in proposal |-> Cost(Apply(inputs, c), service)]
           v == Verdicts(inputs, limit, level, service)
           unknown == {"costing_unavailable" : c \in {c \in proposal : cost[c] = Unknown}}
           above == {"over" : c \in {c \in proposal : cost[c] > limit}}
<1>1. v = IF proposal = {} THEN {"missing"}
          ELSE IF Cardinality(proposal) > MaxChunks THEN {"too_many_chunks"}
          ELSE IF \A c \in proposal : cost[c] \in 0..limit THEN {"fits"}
          ELSE unknown \cup above
  BY Zenon DEF Verdicts
<1>2. unknown \subseteq {"costing_unavailable"} /\ above \subseteq {"over"}
  OBVIOUS
<1>3. "over" \in above => \E c \in proposal : cost[c] > limit
  OBVIOUS
<1>4. \A c \in proposal : cost[c] = Cost(Apply(inputs, c), service)
  OBVIOUS
<1>5. ASSUME NEW c \in proposal, cost[c] > limit
      PROVE  Units(Apply(inputs, c), service.weight) > limit
  <2>1. ~(Unknown > limit)
    BY DEF Unknown
  <2>2. cost[c] # Unknown
    BY <1>5, <2>1
  <2> QED
    BY <1>4, <1>5, <2>2 DEF Cost
<1> HIDE DEF v, unknown, above, cost
<1>6. "fits" \in v => /\ v = {"fits"} /\ proposal # {} /\ ~(Cardinality(proposal) > MaxChunks)
                      /\ \A c \in proposal : cost[c] \in 0..limit
  BY <1>1, <1>2
<1>7. v \cap {"missing", "over"} # {} => proposal = {} \/ \E c \in proposal : cost[c] > limit
  BY <1>1, <1>2, <1>3
<1>8. v \cap {"missing", "over"} # {} => TooCoarse(inputs, level, service.weight, limit)
  BY <1>5, <1>7 DEF TooCoarse
<1> QED
  BY <1>4, <1>6, <1>8 DEF v

\* The level a plan is of: it fits, and no coarser one did.
Taken(inputs, limit, start, service, level) ==
    /\ level \in start..3
    /\ "fits" \in Verdicts(inputs, limit, level, service)
    /\ \A k \in start..(level - 1) :
         Verdicts(inputs, limit, k, service) \cap {"missing", "over"} # {}

LEMMA CalendarPlansTake ==
    ASSUME NEW inputs, NEW limit \in Nat, NEW start \in Levels, NEW service,
           NEW p \in CalendarPlans(inputs, limit, start, service), p.refused = "no"
    PROVE  \E l \in start..3 : /\ Taken(inputs, limit, start, service, l)
                               /\ p = PlanOf(inputs, l, service)
<1> DEFINE V == [l \in start..3 |-> Verdicts(inputs, limit, l, service)]
           Reached(l) == \A k \in start..(l - 1) : V[k] \cap {"missing", "over"} # {}
           Ls == {k \in start..3 : Reached(k) /\ "fits" \in V[k]}
           Rs == {"too_many_chunks", "costing_unavailable"}
                   \cap UNION {V[k] : k \in {j \in start..3 : Reached(j)}}
           Es == {Refused(IF \A l \in start..3 : V[l] = {"missing"}
                          THEN "not_splittable" ELSE "exceeds_at_finest") :
                  all \in {k \in {4} : Reached(k)}}
<1>1. CalendarPlans(inputs, limit, start, service)
        = {PlanOf(inputs, l, service) : l \in Ls} \cup {Refused(r) : r \in Rs} \cup Es
  BY Zenon DEF CalendarPlans, PlanOf
<1>2. \A r : Refused(r).refused = r
  BY DEF Refused
<1>3. \A r \in Rs : r # "no"
  OBVIOUS
<1>4. \A q \in Es : q.refused # "no"
  BY <1>2
<1>5. \A k \in start..3 : V[k] = Verdicts(inputs, limit, k, service)
  OBVIOUS
<1> HIDE DEF V, Rs, Es
<1>6. p \in {PlanOf(inputs, l, service) : l \in Ls}
  BY <1>1, <1>2, <1>3, <1>4
<1>7. PICK l \in Ls : p = PlanOf(inputs, l, service)
  BY <1>6
<1>8. start \in 1..3 /\ l \in start..3
  BY Calendars
<1>9. \A k \in start..(l - 1) : k \in start..3
  BY <1>8
<1>10. Taken(inputs, limit, start, service, l)
  BY <1>5, <1>8, <1>9 DEF Taken
<1> QED
  BY <1>7, <1>8, <1>10

\* There is one such level.
LEMMA OneTaken ==
    ASSUME NEW inputs, NEW limit \in Nat, NEW start \in Levels, NEW service,
           NEW k \in Int, NEW l \in Int,
           Taken(inputs, limit, start, service, k), Taken(inputs, limit, start, service, l)
    PROVE  k = l
<1>1. start \in 1..3
  BY Calendars
<1>2. ASSUME NEW i \in Int, NEW j \in Int, i < j, Taken(inputs, limit, start, service, i),
             Taken(inputs, limit, start, service, j)
      PROVE  FALSE
  <2>1. i \in start..(j - 1)
    BY <1>1, <1>2 DEF Taken
  <2>2. Verdicts(inputs, limit, i, service) = {"fits"}
    BY <1>2, VerdictMeans DEF Taken
  <2>3. Verdicts(inputs, limit, i, service) \cap {"missing", "over"} # {}
    BY <1>2, <2>1 DEF Taken
  <2> QED
    BY <2>2, <2>3
<1> QED
  BY <1>2

\* What a calendar plan promises of its chunks.
Dated(chunks, inputs, limit, start, service, l) ==
    /\ Exact(chunks, inputs)
    /\ IsFiniteSet(chunks) /\ Cardinality(chunks) <= MaxChunks
    /\ \A c \in chunks :
         /\ DOMAIN c.over = Calendar(l) /\ c.over \in Proposal(inputs, l)
         /\ c.units \in Nat /\ c.units <= limit
         /\ c = [over |-> c.over, units |-> c.units]
    /\ \A k \in start..(l - 1) : TooCoarse(inputs, k, service.weight, limit)

LEMMA CalendarPlansMean ==
    ASSUME NEW inputs, Datable(inputs), NEW limit \in Nat, NEW start \in Levels, NEW service,
           NEW l \in start..3, Taken(inputs, limit, start, service, l)
    PROVE  /\ PlanOf(inputs, l, service).refused = "no"
           /\ Dated(PlanOf(inputs, l, service).chunks, inputs, limit, start, service, l)
<1> DEFINE P == Proposal(inputs, l)
           cost == [c \in P |-> Cost(Apply(inputs, c), service)]
           chunks == Priced(P, cost)
<1>1. PlanOf(inputs, l, service).refused = "no" /\ PlanOf(inputs, l, service).chunks = chunks
  BY DEF PlanOf, Planned
<1>2. start \in 1..3 /\ l \in 1..3
  BY Calendars
<1>3. /\ P # {} /\ ~(Cardinality(P) > MaxChunks)
      /\ \A o \in P : cost[o] \in 0..limit
  <2>1. \A o \in P : cost[o] = Cost(Apply(inputs, o), service)
    OBVIOUS
  <2> HIDE DEF cost
  <2> QED
    BY <2>1, VerdictMeans DEF Taken
<1>4. Listed(inputs, Calendar(l))
  BY <1>3 DEF Proposal
<1>5. IsFiniteSet(P)
  BY <1>2, <1>4, Units3Finite DEF Datable
<1>6. /\ \A o \in P : Narrow(inputs, o) /\ DOMAIN o = Calendar(l)
      /\ \A o, r \in P : o # r => \E a \in Calendar(l) : o[a] # r[a]
  BY <1>2, ProposalNarrow
<1>7. \A cell \in Asks(inputs) : \E o \in P : \A a \in DOMAIN o : o[a] = {cell[a]}
  <2>1. Datable(inputs)
    OBVIOUS
  <2>2. l \in 1..3
    BY <1>2
  <2>3. Listed(inputs, Calendar(l))
    BY <1>4
  <2>4. Covered(Proposal(inputs, l), inputs)
    BY <2>1, <2>2, <2>3, ProposalCovers
  <2>5. Covered(P, inputs)
    BY <2>4
  <2> QED
    BY <2>5 DEF Covered
<1> HIDE DEF P, cost
<1>8. /\ \A c \in chunks : c.over \in P /\ c = [over |-> c.over, units |-> cost[c.over]]
                           /\ c.units = cost[c.over]
      /\ \A o \in P : \E c \in chunks : c.over = o
  <2>1. chunks = {[over |-> o, units |-> cost[o]] : o \in P}
    BY DEF Priced
  <2>2. \A o \in P : [over |-> o, units |-> cost[o]] \in chunks
    BY <2>1
  <2>3. \A c \in chunks : \E o \in P : c = [over |-> o, units |-> cost[o]]
    BY <2>1
  <2> HIDE DEF chunks
  <2>4. ASSUME NEW c \in chunks
        PROVE  c.over \in P /\ c = [over |-> c.over, units |-> cost[c.over]] /\ c.units = cost[c.over]
    <3>1. PICK o \in P : c = [over |-> o, units |-> cost[o]]
      BY <2>3
    <3>2. c.over = o /\ c.units = cost[o]
      BY <3>1
    <3> QED
      BY <3>1, <3>2
  <2>5. ASSUME NEW o \in P PROVE \E c \in chunks : c.over = o
    <3>1. [over |-> o, units |-> cost[o]].over = o
      OBVIOUS
    <3> QED
      BY <2>2, <3>1
  <2> QED
    BY <2>4, <2>5
<1>9. IsFiniteSet(chunks) /\ Cardinality(chunks) <= MaxChunks
  <2>1. IsFiniteSet(chunks) /\ Cardinality(chunks) <= Cardinality(P)
    BY <1>5, PricedCount
  <2>2. Cardinality(P) \in Nat /\ Cardinality(chunks) \in Nat /\ MaxChunks \in Nat
    BY <1>5, <2>1, FS_CardinalityType, SplitAssumption
  <2> HIDE DEF chunks
  <2> QED
    BY <1>3, <2>1, <2>2
<1> HIDE DEF chunks
<1>10. Exact(chunks, inputs)
  <2>1. \A c \in chunks : Narrow(inputs, c.over)
    BY <1>6, <1>8
  <2>2. \A cell \in Asks(inputs) : \E c \in chunks : \A a \in DOMAIN c.over : c.over[a] = {cell[a]}
    BY <1>7, <1>8
  <2>3. ASSUME NEW c \in chunks, NEW d \in chunks, c # d
        PROVE  \E a \in DOMAIN c.over : a \in DOMAIN d.over /\ c.over[a] # d.over[a]
    <3>1. c.over # d.over /\ c.over \in P /\ d.over \in P
      BY <1>8, <2>3
    <3> QED
      BY <1>6, <3>1
  <2> QED
    BY <2>1, <2>2, <2>3 DEF Exact
<1>11. \A k \in start..(l - 1) : TooCoarse(inputs, k, service.weight, limit)
  BY VerdictMeans DEF Taken
<1>12. \A c \in chunks : c.units \in Nat /\ c.units <= limit
  BY <1>3, <1>8
<1> QED
  BY <1>1, <1>6, <1>8, <1>9, <1>10, <1>11, <1>12 DEF Dated, P

\* Inputs whose models may be split: as Datable, but for the calendar.
Drawn(inputs) ==
    /\ inputs = [a \in DOMAIN inputs |-> inputs[a]]
    /\ \A a \in DOMAIN inputs : IsFiniteSet(inputs[a])
    /\ Calendar(2) \subseteq DOMAIN inputs =>
         \A y \in inputs["year"], m \in inputs["month"] :
            Number(y) # Junk /\ Number(m) \in 1..12 =>
               <<Number(y), Number(m)>> \in DOMAIN LastDay

Multi(inputs) == {a \in ModelAxes \cap DOMAIN inputs : Cardinality(inputs[a]) > 1}

LEMMA ModelsDiffer ==
    ASSUME NEW inputs
    PROVE  /\ \A o \in ModelOverrides(inputs) : Narrow(inputs, o) /\ DOMAIN o = Multi(inputs)
           /\ \A o, r \in ModelOverrides(inputs) :
                o # r => \E a \in Multi(inputs) : o[a] # r[a]
           /\ ModelOverrides(inputs) # {} => Covered(ModelOverrides(inputs), inputs)
           /\ ModelOverrides(inputs) = {} =>
                Multi(inputs) = {} \/ \E a \in Multi(inputs) : inputs[a] = {}
<1> DEFINE multi == Multi(inputs)
           O == {Override(c) : c \in OneOfEach(inputs, multi)}
<1>1. ModelOverrides(inputs) = IF multi = {} THEN {} ELSE O
  BY DEF ModelOverrides, Multi
<1>2. multi \subseteq DOMAIN inputs
  BY DEF Multi
<1> HIDE DEF multi
<1>3. ASSUME NEW o \in O PROVE Narrow(inputs, o) /\ DOMAIN o = multi
  <2>1. PICK u \in OneOfEach(inputs, multi) : o = Override(u)
    OBVIOUS
  <2>2. u = [a \in multi |-> u[a]] /\ \A a \in multi : u[a] \in inputs[a]
    BY OneOfEachMeans
  <2>3. DOMAIN u = multi
    BY <2>2
  <2>4. o = [a \in multi |-> {u[a]}]
    BY <2>1, <2>3 DEF Override
  <2> QED
    BY <1>2, <2>2, <2>4 DEF Narrow
<1>4. ASSUME NEW o \in O, NEW r \in O, \A a \in multi : o[a] = r[a] PROVE o = r
  <2>1. o = [a \in multi |-> o[a]] /\ r = [a \in multi |-> r[a]]
    BY <1>3 DEF Narrow
  <2> QED
    BY <1>4, <2>1
<1>5. ASSUME NEW cell \in Asks(inputs)
      PROVE  \E o \in O : \A a \in DOMAIN o : o[a] = {cell[a]}
  <2> DEFINE u == [a \in multi |-> cell[a]]
  <2>1. \A a \in DOMAIN inputs : cell[a] \in inputs[a]
    BY OneOfEachMeans DEF Asks
  <2>2. u \in OneOfEach(inputs, multi)
    BY <1>2, <2>1, OneOfEachMeans
  <2>3. \A a \in DOMAIN Override(u) : Override(u)[a] = {cell[a]}
    BY DEF Override
  <2> QED
    BY <2>2, <2>3
<1>6. ASSUME \A a \in multi : inputs[a] # {} PROVE O # {}
  <2> DEFINE u == [a \in multi |-> CHOOSE x \in inputs[a] : TRUE]
  <2>1. \A a \in multi : u[a] \in inputs[a]
    BY <1>6
  <2>2. u \in OneOfEach(inputs, multi)
    BY <2>1, OneOfEachMeans
  <2> QED
    BY <2>2
<1> HIDE DEF O
<1>7. ModelOverrides(inputs) # {} => Covered(ModelOverrides(inputs), inputs)
  BY <1>1, <1>5 DEF Covered
<1> QED
  BY <1>1, <1>3, <1>4, <1>6, <1>7 DEF multi

\* Narrowing to models leaves the calendar as it is.
LEMMA ModelsDated ==
    ASSUME NEW inputs, Drawn(inputs), NEW o \in ModelOverrides(inputs),
           CalendarClean(Apply(inputs, o))
    PROVE  Datable(Apply(inputs, o))
<1> DEFINE child == Apply(inputs, o)
<1>1. Narrow(inputs, o) /\ DOMAIN o \subseteq ModelAxes
  BY ModelsDiffer DEF Multi
<1>2. /\ DOMAIN child = DOMAIN inputs
      /\ \A a \in DOMAIN inputs : child[a] = IF a \in DOMAIN o THEN o[a] ELSE inputs[a]
      /\ child = [a \in DOMAIN inputs |-> IF a \in DOMAIN o THEN o[a] ELSE inputs[a]]
  BY <1>1, Applied DEF Narrow
<1> HIDE DEF child
<1>3. child = [a \in DOMAIN child |-> child[a]]
  BY <1>2
<1>4. \A a \in DOMAIN child : IsFiniteSet(child[a])
  <2>1. \A a \in DOMAIN o : IsFiniteSet(o[a])
    BY <1>1, FS_Singleton DEF Narrow
  <2> QED
    BY <1>2, <2>1 DEF Drawn
<1>5. "year" \notin DOMAIN o /\ "month" \notin DOMAIN o
  BY <1>1, SplitsAssumption, Calendars
<1>6. Calendar(2) \subseteq DOMAIN child =>
         \A y \in child["year"], m \in child["month"] :
            Number(y) # Junk /\ Number(m) \in 1..12 =>
               <<Number(y), Number(m)>> \in DOMAIN LastDay
  <2> SUFFICES ASSUME Calendar(2) \subseteq DOMAIN child
               PROVE  \A y \in child["year"], m \in child["month"] :
                         Number(y) # Junk /\ Number(m) \in 1..12 =>
                            <<Number(y), Number(m)>> \in DOMAIN LastDay
    OBVIOUS
  <2>1. child["year"] = inputs["year"] /\ child["month"] = inputs["month"]
    BY <1>2, <1>5, Calendars
  <2> QED
    BY <1>2, <2>1 DEF Drawn
<1> QED
  BY <1>3, <1>4, <1>6 DEF Datable, child

\* The calendar's part of a model plan is a calendar plan.
LEMMA SubPlansDated ==
    ASSUME NEW inputs, Drawn(inputs), NEW o \in ModelOverrides(inputs),
           NEW limit \in Nat, NEW start \in Levels, NEW service,
           NEW q \in SubPlans(Apply(inputs, o), limit, start, service), q.refused = "no"
    PROVE  /\ Datable(Apply(inputs, o))
           /\ \E l \in start..3 : /\ Taken(Apply(inputs, o), limit, start, service, l)
                                  /\ q = PlanOf(Apply(inputs, o), l, service)
                                  /\ Dated(q.chunks, Apply(inputs, o), limit, start, service, l)
<1> DEFINE child == Apply(inputs, o)
           Mapped(p) == IF p.refused = "not_splittable" THEN Refused("exceeds_at_finest") ELSE p
<1>1. SubPlans(child, limit, start, service)
        = IF CalendarClean(child)
          THEN {Mapped(p) : p \in CalendarPlans(child, limit, start, service)}
          ELSE {Refused("exceeds_at_finest")}
  BY Zenon DEF SubPlans
<1>2. Refused("exceeds_at_finest").refused # "no"
  BY DEF Refused
<1> HIDE DEF child
<1>3. CalendarClean(child) /\ q \in CalendarPlans(child, limit, start, service)
  BY <1>1, <1>2 DEF child
<1>4. Datable(child)
  BY <1>3, ModelsDated DEF child
<1>5. PICK l \in start..3 : /\ Taken(child, limit, start, service, l)
                            /\ q = PlanOf(child, l, service)
  BY <1>3, CalendarPlansTake
<1>6. Dated(PlanOf(child, l, service).chunks, child, limit, start, service, l)
  BY <1>4, <1>5, CalendarPlansMean
<1> QED
  BY <1>4, <1>5, <1>6 DEF child

OverLimit(inputs, limit, service) ==
    {o \in ModelOverrides(inputs) : limit > 0 /\ Cost(Apply(inputs, o), service) > limit}

\* A chunk of the calendar plan of a model that is over the limit.
Nested(c, inputs, limit, start, service) ==
    \E o \in OverLimit(inputs, limit, service) :
    \E q \in SubPlans(Apply(inputs, o), limit, start, service) :
        q.refused = "no" /\ \E s \in q.chunks : c = [s EXCEPT !.over = Apply(s.over, o)]

Whole(o, price) == [over |-> o, units |-> price[o]]

\* The chunks of a model plan: whole models, and parts of those over the limit.
Made(p, inputs, limit, start, service, price) ==
    LET over == OverLimit(inputs, limit, service)
        rest == ModelOverrides(inputs) \ over
    IN  /\ \A c : c \in p.chunks <=> Nested(c, inputs, limit, start, service)
                                     \/ \E o \in rest : c = Whole(o, price)
        /\ \A o \in rest : \/ Fails(Apply(inputs, o), service.dark)
                           \/ price[o] = Cost(Apply(inputs, o), service)
        /\ \A o \in over : \E q \in SubPlans(Apply(inputs, o), limit, start, service) : q.refused = "no"
        /\ Cardinality(p.chunks) <= MaxChunks

LEMMA ModelPlansForm ==
    ASSUME NEW inputs, NEW limit \in Nat, NEW start, NEW service, NEW gone,
           NEW p \in ModelPlans(inputs, limit, start, service, gone), p.refused = "no"
    PROVE  \E price : Made(p, inputs, limit, start, service, price)
<1> DEFINE overrides == ModelOverrides(inputs)
           first == [o \in overrides |-> Cost(Apply(inputs, o), service)]
           again == [o \in overrides |-> Cost(Apply(inputs, o), [service EXCEPT !.dark = gone])]
           over  == {o \in overrides : limit > 0 /\ first[o] > limit}
           dark  == {o \in overrides : Fails(Apply(inputs, o), service.dark)}
           subs  == [o \in over |-> SubPlans(Apply(inputs, o), limit, start, service)]
           Good(o) == {q \in subs[o] : q.refused = "no"}
           inner == UNION {UNION {{[s EXCEPT !.over = Apply(s.over, o)] : s \in q.chunks} :
                                  q \in Good(o)} : o \in over}
           loop  == Priced(overrides \ (over \cup dark), first) \cup inner
           levels == UNION {UNION {q.levels : q \in Good(o)} : o \in over}
           Counted(chunks) == IF Cardinality(chunks) <= MaxChunks
                              THEN Planned(levels, chunks) ELSE Refused("too_many_chunks")
           refusals == {q \in UNION {subs[o] : o \in over} : q.refused # "no"}
           ending == IF dark = overrides
                     THEN Counted(Priced(dark, [o \in dark |-> 0]))
                     ELSE IF \E o \in dark : again[o] = Unknown
                     THEN Refused("invalid_model_combination")
                     ELSE Counted(loop \cup Priced(dark, again))
<1>1. ModelPlans(inputs, limit, start, service, gone)
        = refusals \cup (IF Cardinality(loop) > MaxChunks THEN {Refused("too_many_chunks")}
                         ELSE IF \E o \in over : Good(o) = {} THEN {} ELSE {ending})
  BY Zenon DEF ModelPlans
<1>2. over = OverLimit(inputs, limit, service)
  BY DEF OverLimit
<1>3. \A o \in over : subs[o] = SubPlans(Apply(inputs, o), limit, start, service)
  OBVIOUS
<1>4. \A o \in overrides : first[o] = Cost(Apply(inputs, o), service)
  OBVIOUS
<1>5. over \cap dark = {}
  <2> SUFFICES ASSUME NEW o \in overrides, Fails(Apply(inputs, o), service.dark), first[o] > limit
               PROVE  FALSE
    OBVIOUS
  <2>1. first[o] = Unknown
    BY <1>4 DEF Cost
  <2> QED
    BY <2>1 DEF Unknown
<1>6. \A c : c \in inner <=> \E o \in over : \E q \in Good(o) : \E s \in q.chunks :
                                c = [s EXCEPT !.over = Apply(s.over, o)]
  <2> DEFINE Put(s, o) == [s EXCEPT !.over = Apply(s.over, o)]
             Part(q, o) == {Put(s, o) : s \in q.chunks}
             Parts(o) == UNION {Part(q, o) : q \in Good(o)}
  <2>1. inner = UNION {Parts(o) : o \in over}
    BY Zenon
  <2> HIDE DEF inner, over, subs, Good, Put
  <2>2. \A c, q, o : c \in Part(q, o) <=> \E s \in q.chunks : c = Put(s, o)
    OBVIOUS
  <2> HIDE DEF Part
  <2>3. \A c, o : c \in Parts(o) <=> \E q \in Good(o) : c \in Part(q, o)
    OBVIOUS
  <2> HIDE DEF Parts
  <2>4. \A c : c \in inner <=> \E o \in over : c \in Parts(o)
    BY <2>1
  <2>5. \A c : c \in inner <=> \E o \in over : \E q \in Good(o) : \E s \in q.chunks : c = Put(s, o)
    BY <2>2, <2>3, <2>4
  <2> QED
    BY <2>5, Zenon DEF Put
<1>7. \A c : c \in inner <=> Nested(c, inputs, limit, start, service)
  <2>1. \A o \in over : \A q : q \in Good(o) <=>
           q \in SubPlans(Apply(inputs, o), limit, start, service) /\ q.refused = "no"
    BY <1>3
  <2> HIDE DEF over, Good, inner
  <2> QED
    BY <1>2, <1>6, <2>1 DEF Nested
<1>8. p = ending /\ \A o \in over : Good(o) # {}
  <2>1. \A r \in refusals : r.refused # "no"
    OBVIOUS
  <2>2. Refused("too_many_chunks").refused # "no"
    BY DEF Refused
  <2> HIDE DEF refusals, ending, loop, over, Good
  <2> QED
    BY <1>1, <2>1, <2>2
<1> HIDE DEF inner, levels, refusals
<1>9. ASSUME NEW C, p = Counted(C)
      PROVE  p.chunks = C /\ Cardinality(C) <= MaxChunks
  BY <1>9 DEF Planned, Refused
<1> DEFINE price == [o \in overrides |-> IF dark = overrides THEN 0
                                         ELSE IF o \in dark THEN again[o] ELSE first[o]]
<1>10. p.chunks = Priced(overrides \ over, price) \cup inner /\ Cardinality(p.chunks) <= MaxChunks
  <2>1. CASE dark = overrides
    <3>1. over = {}
      BY <1>5, <2>1
    <3>2. inner = {}
      BY <1>6, <3>1
    <3>3. p = Counted(Priced(dark, [o \in dark |-> 0]))
      BY <1>8, <2>1
    <3>4. Priced(dark, [o \in dark |-> 0]) = Priced(overrides \ over, price)
      BY <2>1, <3>1 DEF Priced
    <3> HIDE DEF Counted, over, dark, overrides, price
    <3> QED
      BY <1>9, <3>2, <3>3, <3>4
  <2>2. CASE dark # overrides
    <3>1. Refused("invalid_model_combination").refused # "no"
      BY DEF Refused
    <3>2. p = Counted(loop \cup Priced(dark, again))
      <4> HIDE DEF Counted, loop, dark, overrides, again
      <4> QED
        BY <1>8, <2>2, <3>1
    <3>3. Priced(overrides \ (over \cup dark), first) \cup Priced(dark, again)
            = Priced(overrides \ over, price)
      <4>1. \A o \in dark : price[o] = again[o] /\ o \in overrides \ over
        BY <1>5, <2>2
      <4>2. \A o \in overrides \ (over \cup dark) : price[o] = first[o]
        BY <2>2
      <4>3. dark \subseteq overrides
        OBVIOUS
      <4> HIDE DEF over, dark, overrides, price, first, again
      <4>4. overrides \ over = (overrides \ (over \cup dark)) \cup dark
        BY <4>1, <4>3
      <4>5. Priced(dark, again) = Priced(dark, price)
        BY <4>1 DEF Priced
      <4>6. Priced(overrides \ (over \cup dark), first) = Priced(overrides \ (over \cup dark), price)
        BY <4>2 DEF Priced
      <4>7. \A S, T : Priced(S, price) \cup Priced(T, price) = Priced(S \cup T, price)
        BY DEF Priced
      <4> QED
        BY <4>4, <4>5, <4>6, <4>7
    <3>4. loop \cup Priced(dark, again) = Priced(overrides \ over, price) \cup inner
      BY <3>3
    <3> HIDE DEF Counted, over, dark, overrides, price, loop, again
    <3> QED
      BY <1>9, <3>2, <3>4
  <2> QED
    BY <2>1, <2>2
<1>11. \A c : c \in p.chunks <=> Nested(c, inputs, limit, start, service)
                                 \/ \E o \in overrides \ over : c = Whole(o, price)
  <2> HIDE DEF over, overrides, price
  <2> QED
    BY <1>7, <1>10 DEF Priced, Whole
<1>12. \A o \in overrides \ over : \/ Fails(Apply(inputs, o), service.dark)
                                   \/ price[o] = Cost(Apply(inputs, o), service)
  <2> SUFFICES ASSUME NEW o \in overrides, ~Fails(Apply(inputs, o), service.dark)
               PROVE  price[o] = first[o]
    BY <1>4
  <2>1. o \notin dark /\ dark # overrides
    OBVIOUS
  <2> HIDE DEF dark
  <2> QED
    BY <2>1
<1>13. \A o \in over : \E q \in SubPlans(Apply(inputs, o), limit, start, service) : q.refused = "no"
  <2>1. \A o \in over : \A q \in Good(o) :
           q \in SubPlans(Apply(inputs, o), limit, start, service) /\ q.refused = "no"
    BY <1>3
  <2> HIDE DEF over, Good
  <2> QED
    BY <1>8, <2>1
<1> HIDE DEF price, over, overrides
<1> QED
  BY <1>2, <1>10, <1>11, <1>12, <1>13 DEF Made, overrides

\* A chunk's models are those of the combination it is cut from.
Models(inputs, over) ==
    [a \in DOMAIN inputs |-> IF a \in ModelAxes THEN Apply(inputs, over)[a] ELSE inputs[a]]

\* A calendar override and a model override put together.
Joined(u, t, o) ==
    /\ DOMAIN u = DOMAIN o \cup DOMAIN t
    /\ \A a \in DOMAIN o : u[a] = o[a]
    /\ \A a \in DOMAIN t : u[a] = t[a]

LEMMA PartsJoin ==
    ASSUME NEW inputs, NEW o, Narrow(inputs, o), DOMAIN o \subseteq ModelAxes,
           NEW t, Narrow(Apply(inputs, o), t), DOMAIN t \cap ModelAxes = {}
    PROVE  /\ Joined(Apply(t, o), t, o)
           /\ Narrow(inputs, Apply(t, o))
           /\ Apply(inputs, Apply(t, o)) = Apply(Apply(inputs, o), t)
           /\ Models(inputs, Apply(t, o)) = Apply(inputs, o)
<1> DEFINE child == Apply(inputs, o)
           u == Apply(t, o)
<1>1. /\ DOMAIN child = DOMAIN inputs
      /\ \A a \in DOMAIN inputs : child[a] = IF a \in DOMAIN o THEN o[a] ELSE inputs[a]
      /\ child = [a \in DOMAIN inputs |-> IF a \in DOMAIN o THEN o[a] ELSE inputs[a]]
  BY Applied DEF Narrow
<1>2. u = [a \in DOMAIN o \cup DOMAIN t |-> IF a \in DOMAIN o THEN o[a] ELSE t[a]]
  BY DEF Apply
<1>3. Narrow(inputs, o) /\ Narrow(child, t)
  OBVIOUS
<1> HIDE DEF child, u
<1>4. Joined(u, t, o)
  BY <1>2 DEF Joined
<1>5. Narrow(inputs, u)
  <2>1. u = [a \in DOMAIN u |-> u[a]]
    BY <1>2
  <2>2. DOMAIN u \subseteq DOMAIN inputs
    BY <1>1, <1>2, <1>3 DEF Narrow
  <2>3. \A a \in DOMAIN t : \E x \in inputs[a] : t[a] = {x}
    BY <1>1, <1>3 DEF Narrow
  <2>4. \A a \in DOMAIN u : \E x \in inputs[a] : u[a] = {x}
    BY <1>3, <1>4, <2>3 DEF Narrow, Joined
  <2> QED
    BY <2>1, <2>2, <2>4 DEF Narrow
<1>6. /\ DOMAIN Apply(inputs, u) = DOMAIN inputs
      /\ \A a \in DOMAIN inputs : Apply(inputs, u)[a] = IF a \in DOMAIN u THEN u[a] ELSE inputs[a]
      /\ Apply(inputs, u) = [a \in DOMAIN inputs |-> IF a \in DOMAIN u THEN u[a] ELSE inputs[a]]
  BY <1>5, Applied DEF Narrow
<1>7. Apply(inputs, u) = Apply(child, t)
  <2>1. Apply(child, t) = [a \in DOMAIN inputs |-> IF a \in DOMAIN t THEN t[a] ELSE child[a]]
    BY <1>1, <1>3, Applied DEF Narrow
  <2>2. \A a \in DOMAIN inputs : (IF a \in DOMAIN u THEN u[a] ELSE inputs[a])
                                 = IF a \in DOMAIN t THEN t[a] ELSE child[a]
    BY <1>1, <1>4 DEF Joined
  <2> QED
    BY <1>6, <2>1, <2>2
<1>8. Models(inputs, u) = child
  <2>1. \A a \in DOMAIN inputs : (IF a \in ModelAxes THEN Apply(inputs, u)[a] ELSE inputs[a])
                                 = IF a \in DOMAIN o THEN o[a] ELSE inputs[a]
    BY <1>4, <1>6 DEF Joined
  <2> QED
    BY <1>1, <2>1 DEF Models
<1> QED
  BY <1>4, <1>5, <1>7, <1>8 DEF u, child

\* The chunk s of a calendar plan for the combination o, as it stands in a model plan.
Cut(c, s, o, l, inputs, limit, start, service) ==
    /\ Datable(Apply(inputs, o))
    /\ Taken(Apply(inputs, o), limit, start, service, l)
    /\ s \in PlanOf(Apply(inputs, o), l, service).chunks
    /\ c = [over |-> Apply(s.over, o), units |-> s.units]

LEMMA NestedMeans ==
    ASSUME NEW inputs, Drawn(inputs), NEW limit \in Nat, NEW start \in Levels, NEW service,
           NEW c, Nested(c, inputs, limit, start, service)
    PROVE  \E o \in OverLimit(inputs, limit, service), l \in 1..3 : \E s :
              Cut(c, s, o, l, inputs, limit, start, service)
<1>1. PICK o \in OverLimit(inputs, limit, service) :
         \E q \in SubPlans(Apply(inputs, o), limit, start, service) :
            q.refused = "no" /\ \E s \in q.chunks : c = [s EXCEPT !.over = Apply(s.over, o)]
  BY DEF Nested
<1>2. PICK q \in SubPlans(Apply(inputs, o), limit, start, service) :
         q.refused = "no" /\ \E s \in q.chunks : c = [s EXCEPT !.over = Apply(s.over, o)]
  BY <1>1
<1>3. PICK s \in q.chunks : c = [s EXCEPT !.over = Apply(s.over, o)]
  BY <1>2
<1>4. o \in ModelOverrides(inputs)
  BY DEF OverLimit
<1>5. PICK l \in start..3 :
         /\ Taken(Apply(inputs, o), limit, start, service, l)
         /\ q = PlanOf(Apply(inputs, o), l, service)
         /\ Dated(q.chunks, Apply(inputs, o), limit, start, service, l)
  BY <1>2, <1>4, SubPlansDated
<1>6. s = [over |-> s.over, units |-> s.units]
  BY <1>5 DEF Dated
<1>7. c = [over |-> Apply(s.over, o), units |-> s.units]
  BY <1>3, <1>6
<1>8. l \in 1..3
  BY Calendars
<1>9. Datable(Apply(inputs, o))
  BY <1>2, <1>4, SubPlansDated
<1> QED
  BY <1>5, <1>7, <1>8, <1>9 DEF Cut

\* What a chunk cut from a combination is.
LEMMA CutMeans ==
    ASSUME NEW inputs, Drawn(inputs), NEW limit \in Nat, NEW start \in Levels, NEW service,
           NEW c, NEW s, NEW o \in ModelOverrides(inputs), NEW l \in 1..3,
           Cut(c, s, o, l, inputs, limit, start, service)
    PROVE  /\ Joined(c.over, s.over, o) /\ DOMAIN s.over = Calendar(l)
           /\ Narrow(inputs, c.over)
           /\ s.over \in Proposal(Apply(inputs, o), l)
           /\ Apply(inputs, c.over) = Apply(Apply(inputs, o), s.over)
           /\ Models(inputs, c.over) = Apply(inputs, o)
           /\ c.units \in Nat /\ c.units <= limit
<1>1. /\ Datable(Apply(inputs, o)) /\ Taken(Apply(inputs, o), limit, start, service, l)
      /\ s \in PlanOf(Apply(inputs, o), l, service).chunks
      /\ c.over = Apply(s.over, o) /\ c.units = s.units
  BY DEF Cut
<1>2. Dated(PlanOf(Apply(inputs, o), l, service).chunks, Apply(inputs, o), limit, start, service, l)
  <2>1. l \in start..3
    BY <1>1 DEF Taken
  <2> QED
    BY <1>1, <2>1, CalendarPlansMean
<1>3. /\ DOMAIN s.over = Calendar(l) /\ s.over \in Proposal(Apply(inputs, o), l)
      /\ s.units \in Nat /\ s.units <= limit
      /\ Narrow(Apply(inputs, o), s.over)
  BY <1>1, <1>2 DEF Dated, Exact
<1>4. Narrow(inputs, o) /\ DOMAIN o \subseteq ModelAxes
  BY ModelsDiffer DEF Multi
<1>5. DOMAIN s.over \cap ModelAxes = {}
  BY <1>3, SplitsAssumption, Calendars
<1> QED
  BY <1>1, <1>3, <1>4, <1>5, PartsJoin

\* What a split promises.
Split(chunks, inputs, limit, start, service) ==
    /\ Exact(chunks, inputs)
    /\ Cardinality(chunks) <= MaxChunks
    /\ \A c \in chunks :
         /\ Multi(inputs) \subseteq DOMAIN c.over
         /\ limit > 0 /\ c.units > limit => Fails(Apply(inputs, c.over), service.dark)
         /\ "day" \in DOMAIN c.over /\ (\A a \in DOMAIN inputs : inputs[a] # {})
              => Asks(Apply(inputs, c.over)) # {}
         /\ \A l \in start..3 : Calendar(l) \subseteq DOMAIN c.over =>
              \A k \in start..(l - 1) :
                 TooCoarse(Models(inputs, c.over), k, service.weight, limit)

\* Two chunks cut from the combinations have a value they differ in.
LEMMA CutsDiffer ==
    ASSUME NEW inputs, Drawn(inputs), NEW limit \in Nat, NEW start \in Levels, NEW service,
           NEW c, NEW s, NEW o \in ModelOverrides(inputs), NEW l \in 1..3,
           Cut(c, s, o, l, inputs, limit, start, service),
           NEW d, NEW t, NEW r \in ModelOverrides(inputs), NEW k \in 1..3,
           Cut(d, t, r, k, inputs, limit, start, service),
           c # d
    PROVE  \E a \in DOMAIN c.over : a \in DOMAIN d.over /\ c.over[a] # d.over[a]
<1>1. Joined(c.over, s.over, o) /\ Joined(d.over, t.over, r)
  BY CutMeans
<1>2. CASE o # r
  <2>1. PICK a \in Multi(inputs) : o[a] # r[a]
    BY <1>2, ModelsDiffer
  <2>2. a \in DOMAIN o /\ a \in DOMAIN r
    BY ModelsDiffer
  <2> QED
    BY <1>1, <2>1, <2>2 DEF Joined
<1>3. CASE o = r
  <2>1. /\ Datable(Apply(inputs, o))
        /\ Taken(Apply(inputs, o), limit, start, service, l)
        /\ Taken(Apply(inputs, o), limit, start, service, k)
        /\ s \in PlanOf(Apply(inputs, o), l, service).chunks
        /\ t \in PlanOf(Apply(inputs, o), k, service).chunks
        /\ c = [over |-> Apply(s.over, o), units |-> s.units]
        /\ d = [over |-> Apply(t.over, o), units |-> t.units]
    BY <1>3 DEF Cut
  <2>2. k = l
    BY <2>1, OneTaken
  <2>3. l \in start..3
    BY <2>1 DEF Taken
  <2>4. Exact(PlanOf(Apply(inputs, o), l, service).chunks, Apply(inputs, o))
    BY <2>1, <2>3, CalendarPlansMean DEF Dated
  <2>5. s # t
    BY <2>1
  <2>6. PICK a \in DOMAIN s.over : a \in DOMAIN t.over /\ s.over[a] # t.over[a]
    BY <2>1, <2>2, <2>4, <2>5 DEF Exact
  <2> QED
    BY <1>1, <2>6 DEF Joined
<1> QED
  BY <1>2, <1>3

\* Every combination that exists lies in a chunk: in a whole one, or in a part of it.
LEMMA CutsCover ==
    ASSUME NEW inputs, Drawn(inputs), NEW limit \in Nat, NEW start \in Levels, NEW service,
           NEW o \in OverLimit(inputs, limit, service),
           NEW q \in SubPlans(Apply(inputs, o), limit, start, service), q.refused = "no",
           NEW cell \in Asks(inputs), \A a \in DOMAIN o : o[a] = {cell[a]}
    PROVE  \E c : /\ Nested(c, inputs, limit, start, service)
                  /\ \A a \in DOMAIN c.over : c.over[a] = {cell[a]}
<1>1. o \in ModelOverrides(inputs)
  BY DEF OverLimit
<1>2. Narrow(inputs, o)
  BY <1>1, ModelsDiffer
<1>3. cell \in Asks(Apply(inputs, o))
  BY <1>2, NarrowAsks
<1>4. PICK l \in start..3 : Dated(q.chunks, Apply(inputs, o), limit, start, service, l)
  BY <1>1, SubPlansDated
<1>5. PICK s \in q.chunks : \A a \in DOMAIN s.over : s.over[a] = {cell[a]}
  BY <1>3, <1>4 DEF Dated, Exact
<1> DEFINE c == [s EXCEPT !.over = Apply(s.over, o)]
<1>6. s = [over |-> s.over, units |-> s.units]
  BY <1>4 DEF Dated
<1>7. c.over = Apply(s.over, o)
  BY <1>6
<1>8. Nested(c, inputs, limit, start, service)
  BY DEF Nested
<1> HIDE DEF c
<1>9. c.over = [a \in DOMAIN o \cup DOMAIN s.over |-> IF a \in DOMAIN o THEN o[a] ELSE s.over[a]]
  BY <1>7 DEF Apply
<1> QED
  BY <1>5, <1>8, <1>9

\* A model plan does.
LEMMA ModelPlansMean ==
    ASSUME NEW inputs, Drawn(inputs), ModelOverrides(inputs) # {},
           NEW limit \in Nat, NEW start \in Levels, NEW service, NEW price, NEW p,
           Made(p, inputs, limit, start, service, price)
    PROVE  Split(p.chunks, inputs, limit, start, service)
<1> DEFINE over == OverLimit(inputs, limit, service)
           rest == ModelOverrides(inputs) \ over
           I(c) == Nested(c, inputs, limit, start, service)
<1>1. /\ \A c : c \in p.chunks <=> I(c) \/ \E o \in rest : c = Whole(o, price)
      /\ \A o \in rest : \/ Fails(Apply(inputs, o), service.dark)
                         \/ price[o] = Cost(Apply(inputs, o), service)
      /\ \A o \in over : \E q \in SubPlans(Apply(inputs, o), limit, start, service) : q.refused = "no"
      /\ Cardinality(p.chunks) <= MaxChunks
  BY DEF Made
<1>2. over \subseteq ModelOverrides(inputs)
  BY DEF OverLimit
<1>3. ASSUME NEW c, I(c)
      PROVE  \E o \in over, l \in 1..3 : \E s : Cut(c, s, o, l, inputs, limit, start, service)
  BY <1>3, NestedMeans
<1>4. \A o \in rest : Whole(o, price).over = o /\ Whole(o, price).units = price[o]
  BY DEF Whole
<1> HIDE DEF over, I
<1>5. \A o \in ModelOverrides(inputs) : /\ Narrow(inputs, o) /\ DOMAIN o = Multi(inputs)
                                        /\ DOMAIN o \cap Calendar(3) = {}
  <2>1. Multi(inputs) \cap Calendar(3) = {}
    BY SplitsAssumption DEF Multi
  <2> QED
    BY <2>1, ModelsDiffer
<1>6. Exact(p.chunks, inputs)
  <2>1. ASSUME NEW c \in p.chunks PROVE Narrow(inputs, c.over)
    <3>1. CASE I(c)
      BY <1>2, <1>3, <3>1, CutMeans
    <3>2. CASE \E o \in rest : c = Whole(o, price)
      BY <1>4, <1>5, <3>2
    <3> QED
      BY <1>1, <3>1, <3>2
  <2>2. ASSUME NEW cell \in Asks(inputs)
        PROVE  \E c \in p.chunks : \A a \in DOMAIN c.over : c.over[a] = {cell[a]}
    <3>1. PICK o \in ModelOverrides(inputs) : \A a \in DOMAIN o : o[a] = {cell[a]}
      <4>1. Covered(ModelOverrides(inputs), inputs)
        BY ModelsDiffer
      <4> QED
        BY <4>1 DEF Covered
    <3>2. CASE o \in over
      <4>1. PICK q \in SubPlans(Apply(inputs, o), limit, start, service) : q.refused = "no"
        BY <1>1, <3>2
      <4>2. \E c : I(c) /\ \A a \in DOMAIN c.over : c.over[a] = {cell[a]}
        <5>1. o \in OverLimit(inputs, limit, service)
          BY <3>2 DEF over
        <5>2. \A a \in DOMAIN o : o[a] = {cell[a]}
          BY <3>1
        <5>3. \E c : /\ Nested(c, inputs, limit, start, service)
                     /\ \A a \in DOMAIN c.over : c.over[a] = {cell[a]}
          BY <2>2, <4>1, <5>1, <5>2, CutsCover
        <5> QED
          BY <5>3 DEF I
      <4> QED
        BY <1>1, <4>2
    <3>3. CASE o \in rest
      BY <1>1, <1>4, <3>1, <3>3
    <3> QED
      BY <3>2, <3>3
  <2>3. ASSUME NEW c \in p.chunks, NEW d \in p.chunks, c # d
        PROVE  \E a \in DOMAIN c.over : a \in DOMAIN d.over /\ c.over[a] # d.over[a]
    <3> DEFINE Apart(x, y) == \E a \in DOMAIN x : a \in DOMAIN y /\ x[a] # y[a]
    <3>1. \A o, r \in ModelOverrides(inputs) : o # r => \E a \in Multi(inputs) : o[a] # r[a]
      BY ModelsDiffer
    <3>2. ASSUME NEW e, I(e), NEW r \in rest
          PROVE  Apart(e.over, r) /\ Apart(r, e.over)
      <4>0. PICK o \in over, l \in 1..3 : \E s : Cut(e, s, o, l, inputs, limit, start, service)
        BY <1>3, <3>2
      <4>1. PICK s : Cut(e, s, o, l, inputs, limit, start, service)
        BY <4>0
      <4>2. Joined(e.over, s.over, o)
        BY <1>2, <4>1, CutMeans
      <4>3. PICK a \in Multi(inputs) : o[a] # r[a]
        BY <1>2, <3>1
      <4> QED
        BY <1>2, <1>5, <4>2, <4>3 DEF Joined
    <3>3. CASE I(c) /\ I(d)
      BY <1>2, <1>3, <2>3, <3>3, CutsDiffer
    <3>4. CASE I(c) /\ \E r \in rest : d = Whole(r, price)
      BY <1>4, <3>2, <3>4
    <3>5. CASE I(d) /\ \E r \in rest : c = Whole(r, price)
      BY <1>4, <3>2, <3>5
    <3>6. CASE \E o, r \in rest : c = Whole(o, price) /\ d = Whole(r, price)
      <4>1. PICK o \in rest, r \in rest : c = Whole(o, price) /\ d = Whole(r, price)
        BY <3>6
      <4>2. o # r
        BY <2>3, <4>1
      <4> QED
        BY <1>4, <1>5, <3>1, <4>1, <4>2
    <3> QED
      BY <1>1, <3>3, <3>4, <3>5, <3>6
  <2> QED
    BY <2>1, <2>2, <2>3 DEF Exact
<1>7. ASSUME NEW c \in p.chunks
      PROVE  /\ Multi(inputs) \subseteq DOMAIN c.over
             /\ limit > 0 /\ c.units > limit => Fails(Apply(inputs, c.over), service.dark)
             /\ "day" \in DOMAIN c.over /\ (\A a \in DOMAIN inputs : inputs[a] # {})
                  => Asks(Apply(inputs, c.over)) # {}
             /\ \A l \in start..3 : Calendar(l) \subseteq DOMAIN c.over =>
                  \A k \in start..(l - 1) :
                     TooCoarse(Models(inputs, c.over), k, service.weight, limit)
  <2>1. CASE I(c)
    <3>0. PICK o \in over, l \in 1..3 : \E s : Cut(c, s, o, l, inputs, limit, start, service)
      BY <1>3, <2>1
    <3>1. PICK s : Cut(c, s, o, l, inputs, limit, start, service)
      BY <3>0
    <3>2. o \in ModelOverrides(inputs)
      BY <1>2
    <3>3. /\ Joined(c.over, s.over, o) /\ DOMAIN s.over = Calendar(l)
          /\ s.over \in Proposal(Apply(inputs, o), l)
          /\ Apply(inputs, c.over) = Apply(Apply(inputs, o), s.over)
          /\ Models(inputs, c.over) = Apply(inputs, o)
          /\ c.units \in Nat /\ c.units <= limit
      BY <3>1, <3>2, CutMeans
    <3>4. /\ Datable(Apply(inputs, o)) /\ Taken(Apply(inputs, o), limit, start, service, l)
      BY <3>1 DEF Cut
    <3>5. Multi(inputs) \subseteq DOMAIN c.over
      BY <1>5, <3>2, <3>3 DEF Joined
    <3>6. DOMAIN c.over \cap Calendar(3) = Calendar(l)
      <4>1. Calendar(l) \subseteq Calendar(3)
        BY Calendars
      <4> QED
        BY <1>5, <3>2, <3>3, <4>1 DEF Joined
    <3>7. ASSUME "day" \in DOMAIN c.over, \A a \in DOMAIN inputs : inputs[a] # {}
          PROVE  Asks(Apply(inputs, c.over)) # {}
      <4>1. l = 3
        BY <3>6, <3>7, Calendars
      <4>2. \A a \in DOMAIN Apply(inputs, o) : Apply(inputs, o)[a] # {}
        BY <1>5, <3>2, <3>7, Applied DEF Narrow
      <4> QED
        BY <3>3, <3>4, <4>1, <4>2, DaysAsked
    <3>8. ASSUME NEW m \in start..3, Calendar(m) \subseteq DOMAIN c.over, NEW k \in start..(m - 1)
          PROVE  TooCoarse(Models(inputs, c.over), k, service.weight, limit)
      <4>1. start \in 1..3
        BY Calendars
      <4>2. Calendar(m) \subseteq Calendar(l)
        BY <3>6, <3>8, <4>1, Calendars
      <4>3. m <= l
        BY <4>1, <4>2, Calendars
      <4>4. k \in start..(l - 1)
        BY <4>1, <4>3
      <4>5. l \in start..3
        BY <3>4 DEF Taken
      <4> QED
        BY <3>3, <3>4, <4>4, <4>5, CalendarPlansMean DEF Dated
    <3> QED
      BY <3>3, <3>5, <3>7, <3>8
  <2>2. CASE \E o \in rest : c = Whole(o, price)
    <3>1. PICK o \in rest : c.over = o /\ c.units = price[o]
      BY <1>4, <2>2
    <3>2. DOMAIN o = Multi(inputs) /\ DOMAIN o \cap Calendar(3) = {}
      BY <1>5
    <3>3. "day" \notin DOMAIN o /\ \A l \in 1..3 : ~(Calendar(l) \subseteq DOMAIN o)
      BY <3>2, Calendars
    <3>4. start \in 1..3
      BY Calendars
    <3>5. limit > 0 /\ price[o] > limit => Fails(Apply(inputs, o), service.dark)
      BY <1>1 DEF over, OverLimit
    <3> QED
      BY <3>1, <3>2, <3>3, <3>4, <3>5
  <2> QED
    BY <1>1, <2>1, <2>2
<1> QED
  BY <1>1, <1>6, <1>7 DEF Split

LEMMA FewModels ==
    ASSUME NEW inputs, ModelOverrides(inputs) = {}
    PROVE  Multi(inputs) = {}
<1>1. \A a \in Multi(inputs) : inputs[a] # {}
  BY FS_EmptySet DEF Multi
<1> QED
  BY <1>1, ModelsDiffer

\* So does a calendar plan, of a request that has no models to split.
LEMMA CalendarPlansSplit ==
    ASSUME NEW inputs, Drawn(inputs), CalendarClean(inputs), ModelOverrides(inputs) = {},
           NEW limit \in Nat, NEW start \in Levels, NEW service,
           NEW p \in CalendarPlans(inputs, limit, start, service), p.refused = "no"
    PROVE  Split(p.chunks, inputs, limit, start, service)
<1>1. Datable(inputs)
  BY DEF Drawn, Datable
<1>2. PICK l \in start..3 : Taken(inputs, limit, start, service, l) /\ p = PlanOf(inputs, l, service)
  BY CalendarPlansTake
<1>3. Dated(p.chunks, inputs, limit, start, service, l)
  BY <1>1, <1>2, CalendarPlansMean
<1>4. start \in 1..3 /\ l \in 1..3
  BY Calendars
<1>5. ASSUME NEW c \in p.chunks
      PROVE  /\ Multi(inputs) \subseteq DOMAIN c.over
             /\ limit > 0 /\ c.units > limit => Fails(Apply(inputs, c.over), service.dark)
             /\ "day" \in DOMAIN c.over /\ (\A a \in DOMAIN inputs : inputs[a] # {})
                  => Asks(Apply(inputs, c.over)) # {}
             /\ \A m \in start..3 : Calendar(m) \subseteq DOMAIN c.over =>
                  \A k \in start..(m - 1) :
                     TooCoarse(Models(inputs, c.over), k, service.weight, limit)
  <2>1. /\ Narrow(inputs, c.over) /\ DOMAIN c.over = Calendar(l)
        /\ c.over \in Proposal(inputs, l) /\ c.units \in Nat /\ c.units <= limit
    BY <1>3 DEF Dated, Exact
  <2>2. "day" \in DOMAIN c.over => l = 3
    BY <1>4, <2>1, Calendars
  <2>3. Models(inputs, c.over) = inputs
    <3>1. \A a \in DOMAIN inputs :
             (IF a \in ModelAxes THEN Apply(inputs, c.over)[a] ELSE inputs[a]) = inputs[a]
      <4>1. \A a \in ModelAxes : a \notin DOMAIN c.over
        BY <1>4, <2>1, SplitsAssumption, Calendars
      <4>2. \A a \in DOMAIN inputs :
               Apply(inputs, c.over)[a] = IF a \in DOMAIN c.over THEN c.over[a] ELSE inputs[a]
        BY <2>1, Applied DEF Narrow
      <4> QED
        BY <4>1, <4>2
    <3>2. Models(inputs, c.over) = [a \in DOMAIN inputs |-> inputs[a]]
      BY <3>1 DEF Models
    <3> QED
      BY <3>2 DEF Drawn
  <2>4. ASSUME NEW m \in start..3, Calendar(m) \subseteq Calendar(l), NEW k \in start..(m - 1)
        PROVE  TooCoarse(inputs, k, service.weight, limit)
    <3>1. m <= l
      BY <1>4, <2>4, Calendars
    <3>2. k \in start..(l - 1)
      BY <1>4, <3>1
    <3> QED
      BY <1>3, <3>2 DEF Dated
  <2>5. "day" \in DOMAIN c.over /\ (\A a \in DOMAIN inputs : inputs[a] # {})
          => Asks(Apply(inputs, c.over)) # {}
    BY <1>1, <2>1, <2>2, DaysAsked
  <2> QED
    BY <2>1, <2>3, <2>4, <2>5, FewModels
<1> QED
  BY <1>3, <1>5 DEF Split, Dated

\* What was answered is a split.
LEMMA PlansSplit ==
    ASSUME NEW s \in Splits, NEW p \in Plans(s), p.refused = "no"
    PROVE  Split(p.chunks, s.inputs, s.limit, s.start, [weight |-> s.weight, dark |-> s.dark])
<1> DEFINE service == [weight |-> s.weight, dark |-> s.dark]
<1>1. Plans(s) = IF ModelOverrides(s.inputs) # {}
                 THEN IF OutsideVocabulary(ModelOverrides(s.inputs))
                      THEN {Refused("vocabulary")}
                      ELSE ModelPlans(s.inputs, s.limit, s.start, service, s.gone)
                 ELSE IF ~Splittable(s.inputs)
                 THEN {Refused("not_splittable")}
                 ELSE CalendarPlans(s.inputs, s.limit, s.start, service)
  BY Zenon DEF Plans
<1>2. \A r \in {"vocabulary", "not_splittable"} : Refused(r).refused # "no"
  BY DEF Refused
<1>3. Drawn(s.inputs) /\ s.limit \in Nat /\ s.start \in Levels
  BY SplitsAssumption DEF Drawn
<1> HIDE DEF service
<1>4. CASE ModelOverrides(s.inputs) # {}
  <2>1. p \in ModelPlans(s.inputs, s.limit, s.start, service, s.gone)
    BY <1>1, <1>2, <1>4
  <2>2. PICK price : Made(p, s.inputs, s.limit, s.start, service, price)
    BY <1>3, <2>1, ModelPlansForm
  <2> QED
    BY <1>3, <1>4, <2>2, ModelPlansMean DEF service
<1>5. CASE ModelOverrides(s.inputs) = {}
  <2>1. Splittable(s.inputs) /\ p \in CalendarPlans(s.inputs, s.limit, s.start, service)
    BY <1>1, <1>2, <1>5
  <2>2. CalendarClean(s.inputs)
    BY <2>1 DEF Splittable
  <2> QED
    BY <1>3, <1>5, <2>1, <2>2, CalendarPlansSplit DEF service
<1> QED
  BY <1>4, <1>5

\* A plan orders exactly what was asked for, and nothing twice but what the request lists
\* twice, one model per child; no child is known to be over the limit, unless its first costing failed; a day nobody can
\* deliver is not ordered; and no coarser plan of whole units would have fitted.
\* (build_chunk_plan, build_model_chunk_plan)
THEOREM SplitsExact == Spec => []SplitIsExact
<1>1. IInv => SplitIsExact
  <2> SUFFICES ASSUME IInv, Given("split"), Reply.refused = "no" PROVE SplitIsExact
    BY DEF SplitIsExact
  <2> DEFINE inputs == ask.inputs
             chunks == Reply.chunks
             service == [weight |-> ask.weight, dark |-> ask.dark]
  <2>1. ask \in Splits
    BY DEF IInv, Questioned, Given
  <2>2. Reply \in Plans(ask)
    BY DEF IInv, Replied, Reply
  <2>3. Split(chunks, inputs, ask.limit, ask.start, service)
    BY <2>1, <2>2, PlansSplit
  <2>4. service.weight = ask.weight /\ service.dark = ask.dark
    OBVIOUS
  <2>5. /\ inputs = [a \in DOMAIN inputs |-> inputs[a]]
        /\ \A a \in DOMAIN inputs : IsFiniteSet(inputs[a])
    BY <2>1, SplitsAssumption
  <2>6. \A c : Child(c) = Apply(inputs, c.over) /\ OfModels(c) = Models(inputs, c.over)
    BY DEF Child, OfModels, Models
  <2> HIDE DEF inputs, chunks, service
  <2>7. Exact(chunks, inputs) /\ Cardinality(chunks) <= MaxChunks
    BY <2>3 DEF Split
  <2>8. ASSUME NEW c \in chunks, NEW a \in ModelAxes \cap DOMAIN inputs, inputs[a] # {}
        PROVE  Cardinality(Child(c)[a]) = 1
    <3>1. Narrow(inputs, c.over)
      BY <2>7 DEF Exact
    <3>2. Child(c)[a] = IF a \in DOMAIN c.over THEN c.over[a] ELSE inputs[a]
      BY <2>6, <3>1, Applied DEF Narrow
    <3>3. CASE a \in DOMAIN c.over
      BY <3>1, <3>2, <3>3, FS_Singleton DEF Narrow
    <3>4. CASE a \notin DOMAIN c.over
      <4>1. a \notin Multi(inputs)
        BY <2>3, <3>4 DEF Split
      <4>2. ~(Cardinality(inputs[a]) > 1)
        BY <4>1 DEF Multi
      <4>3. Cardinality(inputs[a]) \in Nat /\ Cardinality(inputs[a]) # 0
        BY <2>5, <2>8, FS_CardinalityType, FS_EmptySet
      <4> QED
        BY <3>2, <3>4, <4>2, <4>3
    <3> QED
      BY <3>3, <3>4
  <2>9. ASSUME NEW c \in chunks
        PROVE  /\ ask.limit > 0 /\ c.units > ask.limit => Fails(Child(c), ask.dark)
               /\ "day" \in DOMAIN c.over /\ (\A a \in DOMAIN inputs : inputs[a] # {})
                    => Asks(Child(c)) # {}
    BY <2>3, <2>4, <2>6 DEF Split
  <2>10. ASSUME NEW c \in chunks, NEW l \in ask.start..3, Calendar(l) \subseteq DOMAIN c.over,
                NEW k \in ask.start..(l - 1)
         PROVE  \/ Proposal(OfModels(c), k) = {}
                \/ \E o \in Proposal(OfModels(c), k) :
                      Units(Apply(OfModels(c), o), ask.weight) > ask.limit
    BY <2>3, <2>4, <2>6, <2>10 DEF Split, TooCoarse
  <2>11. UNION {Wants(Child(c)) : c \in chunks} = Wants(inputs)
    <3>1. UNION {Asks(Child(c)) : c \in chunks} = Asks(inputs)
      BY <2>6, <2>7, ExactAsks
    <3> QED
      BY <3>1 DEF Wants
  <2>12. ASSUME NEW c \in chunks, NEW d \in chunks, c # d,
                NEW w \in Wants(Child(c)), w \in Wants(Child(d))
         PROVE  ListedTwice(c, d)
    <3>1. PICK x \in Asks(Child(c)) : w = Meant(x)
      BY DEF Wants
    <3>2. PICK z \in Asks(Child(d)) : w = Meant(z)
      BY <2>12 DEF Wants
    <3>3. PICK a \in DOMAIN c.over : a \in DOMAIN d.over /\ c.over[a] # d.over[a]
      BY <2>7, <2>12 DEF Exact
    <3>4. Narrow(inputs, c.over) /\ Narrow(inputs, d.over)
      BY <2>7 DEF Exact
    <3>5. x \in Asks(inputs) /\ c.over[a] = {x[a]}
      BY <2>6, <3>1, <3>4, NarrowAsks
    <3>6. z \in Asks(inputs) /\ d.over[a] = {z[a]}
      BY <2>6, <3>2, <3>3, <3>4, NarrowAsks
    <3>7. /\ x = [b \in DOMAIN inputs |-> x[b]] /\ \A b \in DOMAIN inputs : x[b] \in inputs[b]
          /\ z = [b \in DOMAIN inputs |-> z[b]] /\ \A b \in DOMAIN inputs : z[b] \in inputs[b]
      BY <3>5, <3>6, OneOfEachMeans DEF Asks
    <3>8. a \in DOMAIN inputs /\ x[a] # z[a]
      BY <3>3, <3>4, <3>5, <3>6 DEF Narrow
    <3>9. DOMAIN x = DOMAIN inputs /\ DOMAIN z = DOMAIN inputs
      BY <3>7
    <3>10. Meant(x)[a] = Meant(z)[a]
      BY <3>1, <3>2
    <3>11. a \in Calendar(3) /\ Number(x[a]) = Number(z[a])
      BY <3>8, <3>9, <3>10 DEF Meant
    <3> QED
      BY <3>3, <3>5, <3>6, <3>7, <3>8, <3>11 DEF ListedTwice, inputs
  <2>13. \A c, d \in chunks :
            c # d => Wants(Child(c)) \cap Wants(Child(d)) = {} \/ ListedTwice(c, d)
    BY <2>12
  <2>14. \A c \in chunks : Asks(Child(c)) # {} => Wants(Child(c)) # {}
    BY DEF Wants
  <2> QED
    BY <2>7, <2>8, <2>9, <2>10, <2>11, <2>13, <2>14 DEF SplitIsExact, inputs, chunks
<1> QED
  BY <1>1, Answering, PTL

----------------------------------------------------------------------------
(* Indices.                                                                *)

LoadType == [arrives : Nat, expired : BOOLEAN, probe : {"error", "nothing", "found"},
             fetch : {"error", "nothing", "source"}, saved : BOOLEAN]

\* A state is a cache, a format and a record.
State(cache, format, failed) == [cache |-> cache, format |-> format, failed |-> failed]
Filled(s, cache, format) == [s EXCEPT !.cache = cache, !.format = format]
IsState(s) == \E c, f : \E b \in BOOLEAN : s = State(c, f, b)

LEMMA StatesChange ==
    ASSUME NEW s, IsState(s)
    PROVE  /\ s.failed \in BOOLEAN
           /\ \A b \in BOOLEAN : [s EXCEPT !.failed = b] = State(s.cache, s.format, b)
           /\ \A f : [s EXCEPT !.format = f] = State(s.cache, f, s.failed)
           /\ \A c, f : Filled(s, c, f) = State(c, f, s.failed)
<1>1. PICK c, f : \E b \in BOOLEAN : s = State(c, f, b)
  BY DEF IsState
<1>2. PICK b \in BOOLEAN : s = State(c, f, b)
  BY <1>1
<1>3. s = [cache |-> c, format |-> f, failed |-> b]
  BY <1>2 DEF State
<1>4. s.cache = c /\ s.format = f /\ s.failed = b
  BY <1>3
<1>5. \A v : [s EXCEPT !.failed = v] = State(s.cache, s.format, v)
  BY <1>3, <1>4 DEF State
<1>6. \A v : [s EXCEPT !.format = v] = State(s.cache, v, s.failed)
  BY <1>3, <1>4 DEF State
<1>7. ASSUME NEW u, NEW v PROVE Filled(s, u, v) = State(u, v, s.failed)
  <2> DEFINE t == [s EXCEPT !.cache = u]
  <2>1. t = [cache |-> u, format |-> f, failed |-> b]
    BY <1>3
  <2>2. Filled(s, u, v) = [t EXCEPT !.format = v]
    BY DEF Filled
  <2> HIDE DEF t
  <2> QED
    BY <1>4, <2>1, <2>2 DEF State
<1> QED
  BY <1>4, <1>5, <1>6, <1>7

LEMMA StatesAre ==
    ASSUME NEW c, NEW f, NEW b \in BOOLEAN
    PROVE  /\ IsState(State(c, f, b)) /\ State(c, f, b).cache = c
           /\ State(c, f, b).format = f /\ State(c, f, b).failed = b
BY DEF State, IsState

\* What one load does, whatever it found on its arrival.
LoadIs(r, seen, state, load) ==
    /\ IsState(r.state)
    /\ state.cache # {} =>
         r.state.cache = state.cache /\ r.told.probed = FALSE /\ r.told.fetched = FALSE
    /\ seen.cache # {} => r.told = Offline
    /\ r.told.mode = "fresh" <=> state.cache = {} /\ r.state.cache # {}
    /\ r.told.mode = "offline" => state.cache # {}
    /\ r.told.probed = TRUE => state.format = "none" /\ ~OnRecord(seen, load)
    /\ r.told.probed = TRUE /\ r.told.mode = "missing" => r.state.failed = TRUE
    /\ state.failed = TRUE /\ load.expired = FALSE => r.state.failed = TRUE

LEMMA ToldMeans ==
    ASSUME NEW m, NEW p, NEW f
    PROVE  Told(m, p, f).mode = m /\ Told(m, p, f).probed = p /\ Told(m, p, f).fetched = f
BY DEF Told

\* What a fetch ends with.
Concludes(r, state, probes) ==
    /\ IsState(r.state) /\ r.told.probed = probes
    /\ state.failed = TRUE => r.state.failed = TRUE
    /\ r.told.mode = "fresh" <=> r.state.cache # {}
    /\ r.told.mode # "offline"
    /\ probes = TRUE /\ r.told.mode = "missing" => r.state.failed = TRUE

LEMMA EndsAre ==
    ASSUME NEW s, IsState(s), NEW t, IsState(t), NEW m, NEW p \in BOOLEAN, NEW f,
           s.failed = TRUE => t.failed = TRUE,
           m = "fresh" <=> t.cache # {}, m # "offline",
           p = TRUE /\ m = "missing" => t.failed = TRUE
    PROVE  Concludes([state |-> t, told |-> Told(m, p, f)], s, p)
<1> DEFINE r == [state |-> t, told |-> Told(m, p, f)]
<1>1. r.state = t /\ r.told = Told(m, p, f)
  OBVIOUS
<1> HIDE DEF r
<1>2. r.told.mode = m /\ r.told.probed = p
  BY <1>1, ToldMeans
<1> QED
  BY <1>1, <1>2 DEF Concludes, r

LEMMA SaveMeans ==
    ASSUME NEW state, IsState(state), state.cache = {}, NEW format, NEW found, found # {},
           NEW load, NEW p \in BOOLEAN
    PROVE  Concludes(Save(state, format, found, load, p), state, p)
<1>1. state.failed \in BOOLEAN
  BY StatesChange
<1> DEFINE full == State(found, format, state.failed)
           empty == State({}, format, state.failed)
<1>2. Filled(state, found, format) = full
  BY StatesChange, Zenon
<1>3. [state EXCEPT !.format = format] = empty
  BY StatesChange, Zenon
<1>4. Save(state, format, found, load, p)
        = IF load.saved THEN [state |-> full, told |-> Told("fresh", p, TRUE)]
          ELSE [state |-> empty, told |-> Told("error", p, TRUE)]
  BY <1>2, <1>3, Zenon DEF Save, Filled
<1>5. /\ IsState(full) /\ full.cache = found /\ full.failed = state.failed
      /\ IsState(empty) /\ empty.cache = {} /\ empty.failed = state.failed
  BY <1>1, StatesAre
<1> HIDE DEF full, empty
<1>6. Concludes([state |-> full, told |-> Told("fresh", p, TRUE)], state, p)
  BY <1>5, EndsAre
<1>7. Concludes([state |-> empty, told |-> Told("error", p, TRUE)], state, p)
  BY <1>5, EndsAre
<1> QED
  BY <1>4, <1>6, <1>7, Zenon

LEMMA RefetchMeans ==
    ASSUME NEW state, IsState(state), state.cache = {}, NEW load, NEW source
    PROVE  Concludes(Refetch(state, load, source), state, FALSE)
<1> DEFINE found == Parse(state.format, source)
<1>1. Refetch(state, load, source)
        = IF load.fetch # "source"
          THEN [state |-> state,
                told |-> Told(IF load.fetch = "error" THEN "error" ELSE "missing", FALSE, TRUE)]
          ELSE IF found = {}
          THEN [state |-> state, told |-> Told("invalid", FALSE, TRUE)]
          ELSE Save(state, state.format, found, load, FALSE)
  BY Zenon DEF Refetch
<1> HIDE DEF found
<1>2. \A m \in {"error", "missing", "invalid"} :
         Concludes([state |-> state, told |-> Told(m, FALSE, TRUE)], state, FALSE)
  BY EndsAre
<1>3. found # {} => Concludes(Save(state, state.format, found, load, FALSE), state, FALSE)
  BY SaveMeans
<1>4. CASE load.fetch # "source"
  BY <1>1, <1>2, <1>4
<1>5. CASE load.fetch = "source"
  BY <1>1, <1>2, <1>3, <1>5
<1> QED
  BY <1>4, <1>5

LEMMA DiscoverMeans ==
    ASSUME NEW state, IsState(state), state.cache = {}, NEW load, NEW source
    PROVE  Concludes(Discover(state, load, source), state, TRUE)
<1> DEFINE found == Parse(source.format, source)
           bad == [state EXCEPT !.failed = TRUE]
<1>1. Discover(state, load, source)
        = IF load.probe = "error"
          THEN [state |-> state, told |-> Told("error", TRUE, FALSE)]
          ELSE IF load.probe = "nothing"
          THEN [state |-> bad, told |-> Told("missing", TRUE, FALSE)]
          ELSE IF load.fetch = "error"
          THEN [state |-> state, told |-> Told("error", TRUE, TRUE)]
          ELSE IF load.fetch = "nothing"
          THEN [state |-> bad, told |-> Told("missing", TRUE, TRUE)]
          ELSE IF ~Detected(source)
          THEN [state |-> bad, told |-> Told("invalid", TRUE, TRUE)]
          ELSE IF found = {}
          THEN [state |-> state, told |-> Told("invalid", TRUE, TRUE)]
          ELSE Save(state, source.format, found, load, TRUE)
  BY Zenon DEF Discover
<1>2. IsState(bad) /\ bad.cache = {} /\ bad.failed = TRUE
  <2>1. bad = State(state.cache, state.format, TRUE)
    BY StatesChange
  <2> HIDE DEF bad
  <2> QED
    BY <2>1, StatesAre
<1> HIDE DEF found, bad
<1>3. \A m \in {"error", "invalid"} : \A f :
         Concludes([state |-> state, told |-> Told(m, TRUE, f)], state, TRUE)
  BY EndsAre
<1>4. \A m \in {"missing", "invalid"} : \A f :
         Concludes([state |-> bad, told |-> Told(m, TRUE, f)], state, TRUE)
  BY <1>2, EndsAre
<1>5. found # {} => Concludes(Save(state, source.format, found, load, TRUE), state, TRUE)
  BY SaveMeans
<1> QED
  BY <1>1, <1>3, <1>4, <1>5

LEMMA LoadMeans ==
    ASSUME NEW seen, NEW state, IsState(state), NEW load \in LoadType, NEW source,
           seen.cache # {} => state.cache # {}
    PROVE  LoadIs(Load(seen, state, load, source), seen, state, load)
<1> DEFINE r == Load(seen, state, load, source)
           on == OnRecord(state, load)
           now == [state EXCEPT !.failed = on]
<1>1. r = IF seen.cache # {}
          THEN [state |-> state, told |-> Offline]
          ELSE IF OnRecord(seen, load)
          THEN [state |-> state, told |-> NotThere]
          ELSE Held(now, load, source)
  BY Zenon DEF Load
<1>2. on \in BOOLEAN /\ (state.failed = TRUE /\ load.expired = FALSE => on = TRUE)
  BY DEF OnRecord
<1>3. now = State(state.cache, state.format, on)
  BY <1>2, StatesChange
<1>4. /\ Offline.mode = "offline" /\ Offline.probed = FALSE /\ Offline.fetched = FALSE
      /\ NotThere.mode = "missing" /\ NotThere.probed = FALSE /\ NotThere.fetched = FALSE
  BY DEF Offline, NotThere, Told
<1> HIDE DEF r, on, now
<1>5. IsState(now) /\ now.cache = state.cache /\ now.format = state.format /\ now.failed = on
  BY <1>2, <1>3, StatesAre
<1>6. CASE seen.cache # {}
  <2>1. r.state = state /\ r.told = Offline
    BY <1>1, <1>6
  <2> QED
    BY <1>4, <1>6, <2>1 DEF LoadIs, r
<1>7. CASE seen.cache = {} /\ OnRecord(seen, load)
  <2>1. r.state = state /\ r.told = NotThere
    BY <1>1, <1>7
  <2> QED
    BY <1>4, <1>7, <2>1 DEF LoadIs, r
<1>8. CASE seen.cache = {} /\ ~OnRecord(seen, load)
  <2>1. r = IF state.cache # {}
            THEN [state |-> now, told |-> Offline]
            ELSE IF state.format # "none"
            THEN Refetch(now, load, source)
            ELSE Discover(now, load, source)
    BY <1>1, <1>5, <1>8 DEF Held
  <2>2. CASE state.cache # {}
    <3>1. r.state = now /\ r.told = Offline
      BY <2>1, <2>2
    <3> QED
      BY <1>2, <1>4, <1>5, <1>8, <2>2, <3>1 DEF LoadIs, r
  <2>3. CASE state.cache = {} /\ state.format # "none"
    <3>1. Concludes(r, now, FALSE)
      BY <1>5, <2>1, <2>3, RefetchMeans
    <3> QED
      BY <1>2, <1>5, <1>8, <2>3, <3>1 DEF LoadIs, Concludes, r
  <2>4. CASE state.cache = {} /\ state.format = "none"
    <3>1. Concludes(r, now, TRUE)
      BY <1>5, <2>1, <2>4, DiscoverMeans
    <3> QED
      BY <1>2, <1>5, <1>8, <2>4, <3>1 DEF LoadIs, Concludes, r
  <2> QED
    BY <2>2, <2>3, <2>4
<1> QED
  BY <1>6, <1>7, <1>8

\* Loads are told apart by when they arrive.
Arriving(loads) == loads \in Seq(LoadType) /\ \A i \in DOMAIN loads : loads[i].arrives < i

\* The recursion of the states, for so many of the loads.
Turn(g, loads, source, n) == Load(g[loads[n].arrives], g[n - 1], loads[n], source)
RunUpTo(g, format, loads, source, m) ==
    g = [n \in 0..m |-> IF n = 0 THEN State({}, format, FALSE) ELSE Turn(g, loads, source, n).state]

LEMMA LoadsArrive ==
    ASSUME NEW loads, Arriving(loads), NEW n \in 1..Len(loads)
    PROVE  /\ Len(loads) \in Nat /\ DOMAIN loads = 1..Len(loads) /\ loads[n] \in LoadType
           /\ loads[n].arrives \in 0..(n - 1) /\ n - 1 \in 0..Len(loads)
<1>1. loads \in Seq(LoadType)
  BY DEF Arriving
<1>2. Len(loads) \in Nat /\ DOMAIN loads = 1..Len(loads)
  BY <1>1
<1>3. loads[n] \in LoadType
  BY <1>1, <1>2, ElementOfSeq, Zenon
<1>4. loads[n].arrives \in Nat /\ loads[n].arrives < n
  BY <1>2, <1>3 DEF Arriving, LoadType
<1> QED
  BY <1>2, <1>3, <1>4

LEMMA ArrivingLen ==
    ASSUME NEW loads, Arriving(loads)
    PROVE  Len(loads) \in Nat /\ DOMAIN loads = 1..Len(loads)
<1>1. loads \in Seq(LoadType)
  BY DEF Arriving
<1> QED
  BY <1>1

LEMMA RunExists ==
    ASSUME NEW format, NEW loads, Arriving(loads), NEW source, NEW n \in 0..Len(loads)
    PROVE  \E g : RunUpTo(g, format, loads, source, n)
<1> DEFINE Bad == {m \in 0..Len(loads) : ~ \E g : RunUpTo(g, format, loads, source, m)}
<1>1. SUFFICES ASSUME Bad # {} PROVE FALSE
  OBVIOUS
<1>2. PICK m \in Bad : \A j \in Bad : m <= j
  <2>1. Bad \in SUBSET Nat
    OBVIOUS
  <2> HIDE DEF Bad
  <2> QED
    BY <1>1, <2>1, Least
<1>3. m \in 0..Len(loads) /\ ~ \E g : RunUpTo(g, format, loads, source, m)
  OBVIOUS
<1>4. Len(loads) \in Nat
  BY DEF Arriving
<1>5. CASE m = 0
  <2> DEFINE g == [i \in 0..0 |-> State({}, format, FALSE)]
  <2>1. g = [i \in 0..0 |-> IF i = 0 THEN State({}, format, FALSE) ELSE Turn(g, loads, source, i).state]
    <3>1. \A i \in 0..0 : i = 0
      OBVIOUS
    <3>2. \A i \in 0..0 : g[i] = IF i = 0 THEN State({}, format, FALSE) ELSE Turn(g, loads, source, i).state
      BY <3>1
    <3> QED
      BY <3>2
  <2> HIDE DEF g
  <2>2. RunUpTo(g, format, loads, source, 0)
    BY <2>1 DEF RunUpTo
  <2> QED
    BY <1>3, <1>5, <2>2
<1>6. CASE m # 0
  <2>1. m - 1 \in 0..Len(loads) /\ m - 1 \notin Bad /\ m \in 1..Len(loads)
    <3>1. m - 1 \in 0..Len(loads) /\ ~(m <= m - 1) /\ m \in 1..Len(loads)
      BY <1>3, <1>4, <1>6
    <3> HIDE DEF Bad
    <3> QED
      BY <1>2, <3>1
  <2>2. PICK g : RunUpTo(g, format, loads, source, m - 1)
    BY <2>1
  <2> DEFINE h == [i \in 0..m |-> IF i = m THEN Turn(g, loads, source, m).state ELSE g[i]]
             Next3(f, i) == IF i = 0 THEN State({}, format, FALSE) ELSE Turn(f, loads, source, i).state
  <2>3. \A i \in 0..(m - 1) : g[i] = Next3(g, i)
    BY <2>2 DEF RunUpTo
  <2>4. \A i \in 0..(m - 1) : h[i] = g[i]
    BY <1>3
  <2>5. h[m] = Turn(g, loads, source, m).state
    BY <1>3
  <2>6. h = [i \in 0..m |-> h[i]]
    OBVIOUS
  <2> HIDE DEF h
  <2>7. \A i \in 1..m : Turn(h, loads, source, i) = Turn(g, loads, source, i)
    <3> SUFFICES ASSUME NEW i \in 1..m PROVE Turn(h, loads, source, i) = Turn(g, loads, source, i)
      OBVIOUS
    <3>1. i \in 1..Len(loads)
      BY <1>3, <1>4
    <3>2. loads[i].arrives \in 0..(i - 1)
      BY <3>1, LoadsArrive
    <3>3. loads[i].arrives \in 0..(m - 1) /\ i - 1 \in 0..(m - 1)
      BY <1>3, <1>4, <3>2
    <3>4. h[loads[i].arrives] = g[loads[i].arrives] /\ h[i - 1] = g[i - 1]
      BY <2>4, <3>3
    <3> QED
      BY <3>4 DEF Turn
  <2>8. \A i \in 0..m : h[i] = Next3(h, i)
    <3> SUFFICES ASSUME NEW i \in 0..m PROVE h[i] = Next3(h, i)
      OBVIOUS
    <3>1. CASE i = m
      BY <1>3, <1>4, <1>6, <2>5, <2>7, <3>1
    <3>2. CASE i # m
      <4>1. i \in 0..(m - 1) /\ (i = 0 \/ i \in 1..m)
        BY <1>3, <1>4, <3>2
      <4> QED
        BY <2>3, <2>4, <2>7, <4>1
    <3> QED
      BY <3>1, <3>2
  <2>9. RunUpTo(h, format, loads, source, m)
    BY <2>6, <2>8 DEF RunUpTo
  <2> QED
    BY <1>3, <2>9
<1> QED
  BY <1>5, <1>6

\* What the loads end with is such a run, and what each was told.
Ran(L, format, loads, source) ==
    /\ L.after[0] = State({}, format, FALSE)
    /\ \A n \in 1..Len(loads) : /\ L.after[n] = Turn(L.after, loads, source, n).state
                                /\ L.told[n] = Turn(L.after, loads, source, n).told

LEMMA LoadsRun ==
    ASSUME NEW format, NEW loads, Arriving(loads), NEW source
    PROVE  Ran(Loads(format, loads, source), format, loads, source)
<1> DEFINE Step(g) == [n \in 0..Len(loads) |->
                          IF n = 0 THEN State({}, format, FALSE) ELSE Turn(g, loads, source, n).state]
           after == CHOOSE g : g = Step(g)
           told == [n \in DOMAIN loads |-> Turn(after, loads, source, n).told]
           L == Loads(format, loads, source)
<1>1. Len(loads) \in Nat /\ DOMAIN loads = 1..Len(loads) /\ Len(loads) \in 0..Len(loads)
  BY DEF Arriving
<1>2. \E g : g = Step(g)
  <2>1. PICK g : RunUpTo(g, format, loads, source, Len(loads))
    BY <1>1, RunExists
  <2> QED
    BY <2>1 DEF RunUpTo
<1>3. after = Step(after)
  BY <1>2
<1>4. L = [after |-> after, told |-> told]
  BY Zenon DEF Loads, Turn, State
<1> HIDE DEF after, L
<1>5. /\ after[0] = State({}, format, FALSE)
      /\ \A n \in 1..Len(loads) : after[n] = Turn(after, loads, source, n).state
  <2>1. \A n \in 0..Len(loads) :
           after[n] = IF n = 0 THEN State({}, format, FALSE) ELSE Turn(after, loads, source, n).state
    BY <1>3
  <2>2. 0 \in 0..Len(loads) /\ \A n \in 1..Len(loads) : n \in 0..Len(loads) /\ n # 0
    BY <1>1
  <2> QED
    BY <2>1, <2>2
<1>6. \A n \in 1..Len(loads) : told[n] = Turn(after, loads, source, n).told
  BY <1>1
<1> HIDE DEF told
<1>7. L.after = after /\ L.told = told
  BY <1>4
<1>8. Ran(L, format, loads, source)
  BY <1>5, <1>6, <1>7 DEF Ran
<1> QED
  BY <1>8 DEF L

\* A run of loads: a state before the first, and what each does to it.
Runs(after, told, loads) ==
    /\ IsState(after[0]) /\ after[0].cache = {}
    /\ \A n \in 1..Len(loads) :
         /\ IsState(after[n])
         /\ \A m \in 0..n : after[m].cache # {} => after[n].cache = after[m].cache
         /\ LoadIs([state |-> after[n], told |-> told[n]], after[loads[n].arrives], after[n - 1], loads[n])

LEMMA LoadsMean ==
    ASSUME NEW format, NEW loads, Arriving(loads), NEW source
    PROVE  Runs(Loads(format, loads, source).after, Loads(format, loads, source).told, loads)
<1> DEFINE L == Loads(format, loads, source)
           after == L.after
           told == L.told
<1> HIDE DEF L
<1>0. Ran(L, format, loads, source)
  BY LoadsRun DEF L
<1>1. /\ after[0] = State({}, format, FALSE)
      /\ \A n \in 1..Len(loads) : /\ after[n] = Turn(after, loads, source, n).state
                                  /\ told[n] = Turn(after, loads, source, n).told
  BY <1>0 DEF Ran
<1> HIDE DEF after, told
<1>2. Len(loads) \in Nat
  BY ArrivingLen
<1>3. IsState(after[0]) /\ after[0].cache = {}
  <2>1. IsState(State({}, format, FALSE)) /\ State({}, format, FALSE).cache = {}
    BY StatesAre
  <2> QED
    BY <1>1, <2>1
<1> DEFINE Fine(n) == /\ IsState(after[n])
                      /\ \A m \in 0..n : after[m].cache # {} => after[n].cache = after[m].cache
           Does(n) == LoadIs([state |-> after[n], told |-> told[n]],
                             after[loads[n].arrives], after[n - 1], loads[n])
<1>4. ASSUME NEW n \in 1..Len(loads), Fine(n - 1) PROVE Fine(n) /\ Does(n)
  <2> DEFINE seen == after[loads[n].arrives]
             before == after[n - 1]
             r == Turn(after, loads, source, n)
  <2>1. loads[n] \in LoadType /\ loads[n].arrives \in 0..(n - 1) /\ n \in Nat
    BY LoadsArrive
  <2>2. r = Load(seen, before, loads[n], source)
    BY DEF Turn
  <2>3. IsState(before) /\ (seen.cache # {} => before.cache # {})
    BY <1>4, <2>1
  <2>4. after[n] = r.state /\ told[n] = r.told
    BY <1>1
  <2> HIDE DEF r, seen, before
  <2>5. LoadIs(r, seen, before, loads[n])
    BY <2>1, <2>2, <2>3, LoadMeans
  <2> DEFINE t == [state |-> after[n], told |-> told[n]]
  <2>6. t.state = r.state /\ t.told = r.told
    BY <2>4
  <2> HIDE DEF t
  <2>7. LoadIs(t, seen, before, loads[n])
    BY <2>5, <2>6 DEF LoadIs
  <2>8. IsState(after[n]) /\ (before.cache # {} => after[n].cache = before.cache)
    BY <2>4, <2>5 DEF LoadIs
  <2>9. \A m \in 0..n : after[m].cache # {} => after[n].cache = after[m].cache
    <3> SUFFICES ASSUME NEW m \in 0..n, after[m].cache # {} PROVE after[n].cache = after[m].cache
      OBVIOUS
    <3>1. CASE m = n
      BY <3>1
    <3>2. CASE m # n
      <4>1. m \in 0..(n - 1)
        BY <2>1, <3>2
      <4>2. before.cache = after[m].cache
        BY <1>4, <4>1 DEF before
      <4> QED
        BY <2>8, <4>2
    <3> QED
      BY <3>1, <3>2
  <2> QED
    BY <2>7, <2>8, <2>9 DEF t, seen, before
<1> DEFINE Bad == {n \in 0..Len(loads) : ~Fine(n)}
<1>5. ASSUME Bad # {} PROVE FALSE
  <2>1. PICK n \in Bad : \A j \in Bad : n <= j
    <3>1. Bad \in SUBSET Nat
      OBVIOUS
    <3> HIDE DEF Bad
    <3> QED
      BY <1>5, <3>1, Least
  <2>2. n \in 0..Len(loads) /\ ~Fine(n)
    OBVIOUS
  <2>3. Fine(0)
    <3>1. \A m \in 0..0 : m = 0
      OBVIOUS
    <3> QED
      BY <1>3, <3>1
  <2> HIDE DEF Fine
  <2>4. n # 0
    BY <2>2, <2>3
  <2>5. n \in 1..Len(loads) /\ n - 1 \in 0..Len(loads) /\ ~(n <= n - 1)
    BY <1>2, <2>2, <2>4
  <2>6. Fine(n - 1)
    BY <2>1, <2>5
  <2> QED
    BY <1>4, <2>2, <2>5, <2>6
<1>6. \A n \in 0..Len(loads) : Fine(n)
  BY <1>5
<1>7. \A n \in 1..Len(loads) : Fine(n) /\ Does(n)
  <2>1. \A n \in 1..Len(loads) : n \in 0..Len(loads) /\ n - 1 \in 0..Len(loads)
    BY <1>2
  <2> HIDE DEF Fine, Does
  <2> QED
    BY <1>4, <1>6, <2>1
<1>8. Runs(after, told, loads)
  BY <1>3, <1>7 DEF Runs
<1> QED
  BY <1>8 DEF after, told, L

\* From there on the record of a failed probe is kept, while it is not out of date.
LEMMA RecordKept ==
    ASSUME NEW after, NEW told, NEW loads, Arriving(loads), Runs(after, told, loads),
           NEW j \in 1..Len(loads), NEW i \in j..Len(loads), after[j].failed = TRUE,
           \A k \in (j + 1)..i : ~loads[k].expired
    PROVE  after[i].failed = TRUE
<1>0. Len(loads) \in Nat /\ j \in Nat /\ i \in Nat /\ i \in j..i
  BY ArrivingLen
<1> DEFINE Bad == {k \in j..i : after[k].failed # TRUE}
<1>1. SUFFICES ASSUME Bad # {} PROVE FALSE
  BY <1>0
<1>2. PICK k \in Bad : \A m \in Bad : k <= m
  <2>1. Bad \subseteq j..i
    OBVIOUS
  <2>2. j..i \in SUBSET Nat
    BY <1>0
  <2> HIDE DEF Bad
  <2> QED
    BY <1>1, <2>1, <2>2, Least
<1>3. k \in j..i /\ after[k].failed # TRUE
  OBVIOUS
<1>4. k # j
  BY <1>3
<1>5. /\ k \in 1..Len(loads) /\ k \in (j + 1)..i /\ k - 1 \in j..i /\ ~(k <= k - 1)
  BY <1>0, <1>3, <1>4
<1>6. after[k - 1].failed = TRUE
  BY <1>2, <1>5
<1>7. loads[k].expired = FALSE
  <2>1. loads[k].expired \in BOOLEAN
    BY <1>5, LoadsArrive DEF LoadType
  <2> QED
    BY <1>5, <2>1
<1> DEFINE r == [state |-> after[k], told |-> told[k]]
<1>8. LoadIs(r, after[loads[k].arrives], after[k - 1], loads[k])
  BY <1>5 DEF Runs
<1>9. r.state = after[k]
  OBVIOUS
<1> HIDE DEF r
<1> QED
  BY <1>3, <1>6, <1>7, <1>8, <1>9 DEF LoadIs

\* The first load that leaves something stored was the one that fetched it.
LEMMA SomeFresh ==
    ASSUME NEW after, NEW told, NEW loads, Arriving(loads), Runs(after, told, loads),
           NEW i \in 0..Len(loads), after[i].cache # {}
    PROVE  \E j \in 1..i : after[j - 1].cache = {} /\ after[j].cache # {}
<1> DEFINE S == {k \in 0..i : after[k].cache # {}}
<1>1. i \in Nat /\ i \in S
  BY ArrivingLen
<1>2. PICK k \in S : \A m \in S : k <= m
  <2>1. S \in SUBSET Nat /\ S # {}
    BY <1>1
  <2> HIDE DEF S
  <2> QED
    BY <2>1, Least
<1>3. k \in 0..i /\ after[k].cache # {} /\ k # 0
  BY DEF Runs
<1>4. k \in 1..i /\ k - 1 \in 0..i /\ ~(k <= k - 1)
  BY <1>1, <1>3
<1>5. after[k - 1].cache = {}
  BY <1>2, <1>4
<1> QED
  BY <1>3, <1>4, <1>5

\* What is promised of one of the calls for an index.
Foretold(after, told, loads, i) ==
    LET load == loads[i]
    IN  /\ after[i - 1].cache # {} =>
             ~told[i].fetched /\ ~told[i].probed /\ after[i].cache = after[i - 1].cache
        /\ after[load.arrives].cache # {} => told[i] = Offline
        /\ told[i].mode = "fresh" <=> after[i - 1].cache = {} /\ after[i].cache # {}
        /\ told[i].mode = "offline" => \E j \in 1..(i - 1) : told[j].mode = "fresh"
        /\ told[i].probed => after[i - 1].format = "none"
        /\ \A j \in 1..load.arrives :
             (told[j].probed /\ told[j].mode = "missing")
             /\ (\A k \in (j + 1)..i : ~loads[k].expired) => ~told[i].probed

LEMMA LoadsForetold ==
    ASSUME NEW after, NEW told, NEW loads, Arriving(loads), Runs(after, told, loads),
           NEW i \in 1..Len(loads)
    PROVE  Foretold(after, told, loads, i)
<1> DEFINE load == loads[i]
           seen == after[load.arrives]
           before == after[i - 1]
           Does(n) == LoadIs([state |-> after[n], told |-> told[n]],
                             after[loads[n].arrives], after[n - 1], loads[n])
<1>1. \A n \in 1..Len(loads) : Does(n)
  BY DEF Runs
<1>2. /\ Len(loads) \in Nat /\ i \in Nat /\ i - 1 \in 0..Len(loads)
      /\ load \in LoadType /\ load.arrives \in 0..(i - 1)
  BY LoadsArrive
<1>3. /\ before.cache # {} =>
           after[i].cache = before.cache /\ told[i].probed = FALSE /\ told[i].fetched = FALSE
      /\ seen.cache # {} => told[i] = Offline
      /\ told[i].mode = "fresh" <=> before.cache = {} /\ after[i].cache # {}
      /\ told[i].mode = "offline" => before.cache # {}
      /\ told[i].probed = TRUE => before.format = "none" /\ ~OnRecord(seen, load)
  BY <1>1 DEF LoadIs
<1>4. ASSUME before.cache # {} PROVE \E j \in 1..(i - 1) : told[j].mode = "fresh"
  <2>1. PICK j \in 1..(i - 1) : after[j - 1].cache = {} /\ after[j].cache # {}
    BY <1>2, <1>4, SomeFresh
  <2>2. j \in 1..Len(loads)
    BY <1>2
  <2>3. Does(j)
    BY <1>1, <2>2
  <2> QED
    BY <2>1, <2>3 DEF LoadIs
<1>5. ASSUME NEW j \in 1..load.arrives, told[j].probed = TRUE, told[j].mode = "missing",
             \A k \in (j + 1)..i : ~loads[k].expired
      PROVE  told[i].probed # TRUE
  <2>1. /\ j \in 1..Len(loads) /\ load.arrives \in j..Len(loads)
        /\ \A k \in (j + 1)..load.arrives : k \in (j + 1)..i
        /\ i \in (j + 1)..i
    BY <1>2
  <2>2. Does(j)
    BY <1>1, <2>1
  <2>3. after[j].failed = TRUE
    BY <1>5, <2>2 DEF LoadIs
  <2>4. seen.failed = TRUE
    BY <1>5, <2>1, <2>3, RecordKept
  <2>5. ~load.expired
    BY <1>5, <2>1
  <2> QED
    BY <1>3, <2>4, <2>5 DEF OnRecord
<1> QED
  BY <1>3, <1>4, <1>5 DEF Foretold

\* What ListingIsExact says of the calls for an index.
LEMMA IndexAnswers ==
    ASSUME IInv, Given("index")
    PROVE  \A i \in DOMAIN ask.loads : Foretold(Reply.after, Reply.told, ask.loads, i)
<1>1. ask \in Indices
  BY DEF IInv, Questioned, Given
<1>2. Reply = Loads(ask.format, ask.loads, ask.source)
  BY DEF IInv, Replied, Given, Reply
<1>3. Arriving(ask.loads)
  BY <1>1, IndicesAssumption DEF Arriving, LoadType
<1>4. Runs(Reply.after, Reply.told, ask.loads)
  BY <1>2, <1>3, LoadsMean
<1>5. DOMAIN ask.loads = 1..Len(ask.loads)
  BY <1>3, ArrivingLen
<1> QED
  BY <1>3, <1>4, <1>5, LoadsForetold

----------------------------------------------------------------------------
(* Listings.                                                               *)

LEMMA FiniteImage ==
    ASSUME NEW S, IsFiniteSet(S), NEW f, DOMAIN f = S
    PROVE  IsFiniteSet({f[x] : x \in S})
<1> DEFINE T == {f[x] : x \in S}
           g == [x \in S |-> f[x]]
<1>1. g \in Surjection(S, T)
  BY DEF Surjection
<1> HIDE DEF T, g
<1>2. IsFiniteSet(T)
  BY <1>1, FS_Surjection
<1> QED
  BY <1>2 DEF T

\* A finite set of integers has a least and a greatest: the ends of its sorted sequence.
LEMMA MinMax ==
    ASSUME NEW S \in SUBSET Int, IsFiniteSet(S), S # {}
    PROVE  /\ Min(S) \in S /\ \A y \in S : Min(S) <= y
           /\ Max(S) \in S /\ \A y \in S : y <= Max(S)
<1> DEFINE R == {p \in S \X S : p[1] < p[2]}
<1>1. \A x \in S : x \in Int
  OBVIOUS
<1>2. Orders(S, R)
  <2>1. \A x, y \in S : <<x, y>> \in R <=> x < y
    OBVIOUS
  <2> HIDE DEF R
  <2> QED
    BY <1>1, <2>1 DEF Orders
<1>3. \A x, y \in S : <<x, y>> \in R => x < y
  OBVIOUS
<1> HIDE DEF R
<1>4. PICK s \in SetToSeqs(S) : \A i, j \in DOMAIN s : i < j => <<s[i], s[j]>> \in R
  BY <1>2, SortedExists
<1> DEFINE n == Len(s)
<1>5. /\ s \in Seq(S) /\ n \in Nat /\ DOMAIN s = 1..n
      /\ \A x \in S : \E i \in DOMAIN s : s[i] = x
  BY SeqsCover
<1>6. \A i \in 1..n : s[i] \in S
  <2>1. \A i \in 1..Len(s) : s[i] \in S
    BY <1>5, ElementOfSeq, Zenon
  <2> QED
    BY <2>1
<1>7. 1 \in 1..n /\ n \in 1..n
  <2>1. PICK x \in S : TRUE
    OBVIOUS
  <2>2. PICK i \in 1..n : s[i] = x
    BY <1>5, <2>1
  <2> QED
    BY <1>5, <2>2
<1>8. \A i, j \in 1..n : i <= j => s[i] <= s[j]
  <2> SUFFICES ASSUME NEW i \in 1..n, NEW j \in 1..n, i <= j PROVE s[i] <= s[j]
    OBVIOUS
  <2>1. s[i] \in S /\ s[j] \in S /\ s[i] \in Int /\ s[j] \in Int
    BY <1>1, <1>6
  <2>2. CASE i = j
    BY <2>1, <2>2
  <2>3. CASE i < j
    <3>1. <<s[i], s[j]>> \in R
      BY <1>4, <1>5, <2>3
    <3> QED
      BY <1>3, <2>1, <3>1
  <2> QED
    BY <1>5, <2>2, <2>3
<1> HIDE DEF n
<1>9. \A y \in S : s[1] <= y /\ y <= s[n]
  <2> SUFFICES ASSUME NEW y \in S PROVE s[1] <= y /\ y <= s[n]
    OBVIOUS
  <2>1. PICK i \in 1..n : s[i] = y
    BY <1>5
  <2>2. 1 <= i /\ i <= n
    BY <1>5
  <2> QED
    BY <1>7, <1>8, <2>1, <2>2
<1>10. s[1] \in S /\ s[n] \in S
  BY <1>6, <1>7
<1>11. Min(S) \in S /\ \A y \in S : Min(S) <= y
  <2>1. \E x \in S : \A y \in S : x <= y
    BY <1>9, <1>10
  <2> QED
    BY <2>1, Zenon DEF Min
<1>12. Max(S) \in S /\ \A y \in S : Max(S) >= y
  <2>1. \E x \in S : \A y \in S : x >= y
    BY <1>1, <1>9, <1>10
  <2> QED
    BY <2>1, Zenon DEF Max
<1> QED
  BY <1>1, <1>11, <1>12

\* The span around spans reaches as far as the furthest of them, both ways.
Around(h, spans) ==
    /\ h \in Int \X Int
    /\ \A s \in spans : h[1] <= s[1] /\ s[2] <= h[2]
    /\ (\E s \in spans : h[1] = s[1]) /\ (\E s \in spans : h[2] = s[2])

LEMMA HullMeans ==
    ASSUME NEW spans \in SUBSET (Int \X Int), IsFiniteSet(spans), spans # {}
    PROVE  Around(Hull(spans), spans)
<1> DEFINE low == {s[1] : s \in spans}
           high == {s[2] : s \in spans}
<1>1. Hull(spans) = <<Min(low), Max(high)>>
  BY DEF Hull
<1>2. IsFiniteSet(low)
  <2> DEFINE f == [s \in spans |-> s[1]]
  <2>1. low = {f[s] : s \in spans} /\ DOMAIN f = spans
    OBVIOUS
  <2> HIDE DEF f, low
  <2> QED
    BY <2>1, FiniteImage
<1>3. IsFiniteSet(high)
  <2> DEFINE f == [s \in spans |-> s[2]]
  <2>1. high = {f[s] : s \in spans} /\ DOMAIN f = spans
    OBVIOUS
  <2> HIDE DEF f, high
  <2> QED
    BY <2>1, FiniteImage
<1>4. low \in SUBSET Int /\ low # {} /\ high \in SUBSET Int /\ high # {}
  OBVIOUS
<1>5. \A s \in spans : s[1] \in low /\ s[2] \in high
  OBVIOUS
<1>6. (\A x \in low : \E s \in spans : x = s[1]) /\ (\A x \in high : \E s \in spans : x = s[2])
  OBVIOUS
<1> HIDE DEF low, high
<1>7. Min(low) \in low /\ (\A y \in low : Min(low) <= y)
      /\ Max(high) \in high /\ (\A y \in high : y <= Max(high))
  BY <1>2, <1>3, <1>4, MinMax
<1> DEFINE a == Min(low)
           b == Max(high)
<1>8. a \in low /\ b \in high /\ (\A y \in low : a <= y) /\ (\A y \in high : y <= b)
  BY <1>7
<1> HIDE DEF a, b
<1>9. a \in Int /\ b \in Int
  BY <1>4, <1>8
<1>10. Around(<<a, b>>, spans)
  BY <1>5, <1>6, <1>8, <1>9 DEF Around
<1> QED
  BY <1>1, <1>10 DEF a, b

\* The rows of a source: a box and a time at most.
Sourced(rows) ==
    /\ IsFiniteSet(rows)
    /\ \A r \in rows :
         /\ r.file \in Int
         /\ r.box \subseteq (Int \X Int) \X (Int \X Int) /\ \A b, c \in r.box : b = c
         /\ r.time \subseteq Int \X Int /\ \A t, u \in r.time : t = u

IsRow(x) == \E f, b, t, v, p : x = Row(f, b, t, v, p)
Spanned(x) == x.box \in (Int \X Int) \X (Int \X Int) /\ x.time \in Int \X Int

\* An index has one row of a file.
Indexed(index) ==
    /\ IsFiniteSet(index)
    /\ \A x \in index : x.file \in Int /\ IsRow(x) /\ Spanned(x)
    /\ \A x, y \in index : x.file = y.file => x = y

\* A row of an index is a row of its source, and says all it says.
IsOf(x, r) ==
    /\ x.file = r.file /\ x.platform = r.platform
    /\ \A b \in r.box : x.box = b
    /\ \A t \in r.time : x.time = t

LEMMA OnlyOne ==
    ASSUME NEW S, S # {}, \A x, y \in S : x = y
    PROVE  Only(S) \in S /\ \A x \in S : Only(S) = x
BY DEF Only

\* A readable row has one box and one time.
LEMMA ReadableHas ==
    ASSUME NEW rows, Sourced(rows), NEW r \in Readable(rows)
    PROVE  /\ r \in rows /\ r.file \in Int
           /\ Only(r.box) \in r.box /\ \A b \in r.box : b = Only(r.box)
           /\ Only(r.time) \in r.time /\ \A t \in r.time : t = Only(r.time)
           /\ Only(r.box) \in (Int \X Int) \X (Int \X Int) /\ Only(r.time) \in Int \X Int
<1>1. r \in rows /\ r.box # {} /\ r.time # {}
  BY DEF Readable
<1>2. /\ r.file \in Int
      /\ r.box \subseteq (Int \X Int) \X (Int \X Int) /\ \A b, c \in r.box : b = c
      /\ r.time \subseteq Int \X Int /\ \A t, u \in r.time : t = u
  BY <1>1 DEF Sourced
<1>3. Only(r.box) \in r.box /\ \A b \in r.box : Only(r.box) = b
  BY <1>1, <1>2, OnlyOne
<1>4. Only(r.time) \in r.time /\ \A t \in r.time : Only(r.time) = t
  BY <1>1, <1>2, OnlyOne
<1> QED
  BY <1>1, <1>2, <1>3, <1>4

LEMMA RowHas ==
    ASSUME NEW f, NEW b, NEW t, NEW v, NEW p
    PROVE  /\ Row(f, b, t, v, p).file = f /\ Row(f, b, t, v, p).box = b
           /\ Row(f, b, t, v, p).time = t /\ Row(f, b, t, v, p).platform = p
           /\ Row(f, b, t, v, p).vars = Naming(v, "tuple")
BY DEF Row

\* Read as they are, where no file has two rows.
LEMMA TheyAre ==
    ASSUME NEW rows, Sourced(rows), \A r, s \in rows : r.file = s.file => r = s
    PROVE  /\ Indexed(AsTheyAre(rows))
           /\ \A x \in AsTheyAre(rows) : \E r \in Readable(rows) :
                 IsOf(x, r) /\ x.vars = Naming(r.vars, "tuple")
           /\ \A r \in Readable(rows) : \E x \in AsTheyAre(rows) :
                 IsOf(x, r) /\ x.vars = Naming(r.vars, "tuple")
<1> DEFINE S == Readable(rows)
           f == [r \in S |-> Row(r.file, Only(r.box), Only(r.time), r.vars, r.platform)]
           index == AsTheyAre(rows)
<1>1. index = {f[r] : r \in S} /\ DOMAIN f = S
  BY DEF AsTheyAre
<1>2. \A r \in S : f[r] = Row(r.file, Only(r.box), Only(r.time), r.vars, r.platform)
  OBVIOUS
<1>3. IsFiniteSet(S)
  BY FS_Subset DEF Sourced, Readable
<1> HIDE DEF f, index, S
<1>4. \A r \in S : /\ IsOf(f[r], r) /\ f[r].vars = Naming(r.vars, "tuple")
                   /\ f[r].file = r.file /\ r.file \in Int /\ r \in rows
                   /\ IsRow(f[r]) /\ Spanned(f[r])
  <2> SUFFICES ASSUME NEW r \in S
               PROVE  /\ IsOf(f[r], r) /\ f[r].vars = Naming(r.vars, "tuple")
                      /\ f[r].file = r.file /\ r.file \in Int /\ r \in rows
                      /\ IsRow(f[r]) /\ Spanned(f[r])
    OBVIOUS
  <2>1. /\ r \in rows /\ r.file \in Int /\ (\A b \in r.box : b = Only(r.box))
        /\ \A t \in r.time : t = Only(r.time)
        /\ Only(r.box) \in (Int \X Int) \X (Int \X Int) /\ Only(r.time) \in Int \X Int
    BY ReadableHas DEF S
  <2>2. /\ f[r].file = r.file /\ f[r].box = Only(r.box) /\ f[r].time = Only(r.time)
        /\ f[r].platform = r.platform /\ f[r].vars = Naming(r.vars, "tuple")
    BY <1>2, RowHas
  <2>3. IsRow(f[r])
    BY <1>2 DEF IsRow
  <2>4. Spanned(f[r])
    BY <2>1, <2>2 DEF Spanned
  <2> QED
    BY <2>1, <2>2, <2>3, <2>4 DEF IsOf
<1>5. IsFiniteSet(index)
  BY <1>1, <1>3, FiniteImage
<1>6. \A x \in index : \E r \in S : x = f[r]
  BY <1>1
<1>7. \A r \in S : f[r] \in index
  BY <1>1
<1>8. \A x, y \in index : x.file = y.file => x = y
  <2> SUFFICES ASSUME NEW x \in index, NEW y \in index, x.file = y.file PROVE x = y
    OBVIOUS
  <2>1. PICK r \in S : x = f[r]
    BY <1>6
  <2>2. PICK s \in S : y = f[s]
    BY <1>6
  <2>3. r.file = s.file /\ r \in rows /\ s \in rows
    BY <1>4, <2>1, <2>2
  <2> QED
    BY <2>1, <2>2, <2>3
<1>9. Indexed(index)
  BY <1>4, <1>5, <1>6, <1>8 DEF Indexed
<1> QED
  BY <1>4, <1>6, <1>7, <1>9 DEF index, S

\* A row of an index is of a source row, and reaches as far at least.
Reaches(x, r) ==
    /\ x.file = r.file /\ x.platform = r.platform
    /\ \A b \in r.box : \A k \in {1, 2} : x.box[k][1] <= b[k][1] /\ b[k][2] <= x.box[k][2]
    /\ \A t \in r.time : x.time[1] <= t[1] /\ t[2] <= x.time[2]

OfItsFile(rows, r) == {q \in Readable(rows) : q.file = r.file}

\* Whether the file of a row is legal throughout.
Proper(rows, r) == \A q \in OfItsFile(rows, r) : \A b \in q.box, t \in q.time : Legal([box |-> b, time |-> t])

\* The row of a file of observations.
OneFile(rows, f) ==
    LET mine == {r \in Readable(rows) : r.file = f}
    IN  Row(f, <<Hull({Only(r.box)[1] : r \in mine}), Hull({Only(r.box)[2] : r \in mine})>>,
            Hull({Only(r.time) : r \in mine}), UNION {r.vars : r \in mine}, {})

\* It reaches as far as every observation in it, and its ends are those of one.
LEMMA OneFileMeans ==
    ASSUME NEW rows, Sourced(rows), \A r \in rows : r.platform = {},
           NEW f, NEW r \in Readable(rows), r.file = f
    PROVE  LET x == OneFile(rows, f)
               mine == OfItsFile(rows, r)
           IN  /\ Reaches(x, r) /\ Spanned(x) /\ IsRow(x)
               /\ x.vars = Naming(UNION {q.vars : q \in mine}, "tuple")
               /\ Proper(rows, r) => Legal(x)
<1> DEFINE mine == {q \in Readable(rows) : q.file = f}
           lons == {Only(q.box)[1] : q \in mine}
           lats == {Only(q.box)[2] : q \in mine}
           times == {Only(q.time) : q \in mine}
           lon == Hull(lons)
           lat == Hull(lats)
           time == Hull(times)
           x == OneFile(rows, f)
<1>1. mine = OfItsFile(rows, r) /\ r \in mine
  BY DEF OfItsFile
<1>2. /\ x.file = f /\ x.box = <<lon, lat>> /\ x.time = time /\ x.platform = {}
      /\ x.vars = Naming(UNION {q.vars : q \in mine}, "tuple")
  <2> DEFINE names == UNION {q.vars : q \in mine}
  <2>1. x = Row(f, <<lon, lat>>, time, names, {})
    BY Zenon DEF OneFile
  <2> HIDE DEF x, lon, lat, time, names
  <2>2. /\ x.file = f /\ x.box = <<lon, lat>> /\ x.time = time /\ x.platform = {}
        /\ x.vars = Naming(names, "tuple")
    BY <2>1, RowHas
  <2> QED
    BY <2>2 DEF names
<1>3. IsFiniteSet(mine)
  BY FS_Subset DEF Sourced, Readable
<1>4. \A q \in mine : /\ q \in rows
                      /\ Only(q.box) \in q.box /\ \A b \in q.box : b = Only(q.box)
                      /\ Only(q.time) \in q.time /\ \A t \in q.time : t = Only(q.time)
                      /\ Only(q.box) \in (Int \X Int) \X (Int \X Int) /\ Only(q.time) \in Int \X Int
  BY ReadableHas
<1>5. \A q \in mine : Only(q.box)[1] \in Int \X Int /\ Only(q.box)[2] \in Int \X Int
  BY <1>4
<1> HIDE DEF mine, x
<1>6. Around(lon, lons)
  <2> DEFINE g == [q \in mine |-> Only(q.box)[1]]
  <2>1. lons = {g[q] : q \in mine} /\ DOMAIN g = mine
    OBVIOUS
  <2>2. lons \in SUBSET (Int \X Int) /\ lons # {}
    BY <1>1, <1>5
  <2> HIDE DEF g, lons
  <2>3. IsFiniteSet(lons)
    BY <1>3, <2>1, FiniteImage
  <2> QED
    BY <2>2, <2>3, HullMeans
<1>7. Around(lat, lats)
  <2> DEFINE g == [q \in mine |-> Only(q.box)[2]]
  <2>1. lats = {g[q] : q \in mine} /\ DOMAIN g = mine
    OBVIOUS
  <2>2. lats \in SUBSET (Int \X Int) /\ lats # {}
    BY <1>1, <1>5
  <2> HIDE DEF g, lats
  <2>3. IsFiniteSet(lats)
    BY <1>3, <2>1, FiniteImage
  <2> QED
    BY <2>2, <2>3, HullMeans
<1>8. Around(time, times)
  <2> DEFINE g == [q \in mine |-> Only(q.time)]
  <2>1. times = {g[q] : q \in mine} /\ DOMAIN g = mine
    OBVIOUS
  <2>2. times \in SUBSET (Int \X Int) /\ times # {}
    BY <1>1, <1>4
  <2> HIDE DEF g, times
  <2>3. IsFiniteSet(times)
    BY <1>3, <2>1, FiniteImage
  <2> QED
    BY <2>2, <2>3, HullMeans
<1>9. \A q \in mine : Only(q.box)[1] \in lons /\ Only(q.box)[2] \in lats /\ Only(q.time) \in times
  OBVIOUS
<1>10. /\ \A s \in lons : \E q \in mine : s = Only(q.box)[1]
       /\ \A s \in lats : \E q \in mine : s = Only(q.box)[2]
       /\ \A s \in times : \E q \in mine : s = Only(q.time)
  OBVIOUS
<1> HIDE DEF lons, lats, times, lon, lat, time
<1>11. Spanned(x)
  BY <1>2, <1>6, <1>7, <1>8 DEF Around, Spanned
<1>12. x.box[1] = lon /\ x.box[2] = lat
  BY <1>2
<1>13. Reaches(x, r)
  <2>1. r.platform = {} /\ (\A b \in r.box : b = Only(r.box)) /\ \A t \in r.time : t = Only(r.time)
    BY <1>1, <1>4
  <2>2. /\ lon[1] <= Only(r.box)[1][1] /\ Only(r.box)[1][2] <= lon[2]
        /\ lat[1] <= Only(r.box)[2][1] /\ Only(r.box)[2][2] <= lat[2]
        /\ time[1] <= Only(r.time)[1] /\ Only(r.time)[2] <= time[2]
    BY <1>1, <1>6, <1>7, <1>8, <1>9 DEF Around
  <2>3. \A b \in r.box : \A k \in {1, 2} : x.box[k][1] <= b[k][1] /\ b[k][2] <= x.box[k][2]
    BY <1>12, <2>1, <2>2
  <2> QED
    BY <1>2, <2>1, <2>2, <2>3 DEF Reaches
<1>14. ASSUME Proper(rows, r) PROVE Legal(x)
  <2>1. \A q \in mine : /\ Inside(Only(q.box)[1], Longitudes) /\ Inside(Only(q.box)[2], Latitudes)
                        /\ Only(q.time)[1] <= Only(q.time)[2]
    <3> SUFFICES ASSUME NEW q \in mine
                 PROVE  /\ Inside(Only(q.box)[1], Longitudes) /\ Inside(Only(q.box)[2], Latitudes)
                        /\ Only(q.time)[1] <= Only(q.time)[2]
      OBVIOUS
    <3> DEFINE e == [box |-> Only(q.box), time |-> Only(q.time)]
    <3>1. Legal(e)
      BY <1>1, <1>4, <1>14 DEF Proper
    <3>2. e.box = Only(q.box) /\ e.time = Only(q.time)
      OBVIOUS
    <3> HIDE DEF e
    <3> QED
      BY <3>1, <3>2 DEF Legal
  <2>2. \A s \in lons : Inside(s, Longitudes) /\ s \in Int \X Int
    BY <1>5, <1>10, <2>1
  <2>3. \A s \in lats : Inside(s, Latitudes) /\ s \in Int \X Int
    BY <1>5, <1>10, <2>1
  <2>4. \A s \in times : s[1] <= s[2] /\ s \in Int \X Int
    BY <1>4, <1>10, <2>1
  <2>5. Inside(lon, Longitudes)
    BY <1>1, <1>6, <1>9, <2>2, IndexAssumption DEF Around, Inside
  <2>6. Inside(lat, Latitudes)
    BY <1>1, <1>7, <1>9, <2>3, IndexAssumption DEF Around, Inside
  <2>7. time[1] <= time[2]
    BY <1>1, <1>8, <1>9, <2>4 DEF Around
  <2> QED
    BY <1>2, <1>12, <2>5, <2>6, <2>7 DEF Legal
<1>15. IsRow(x)
  BY Zenon DEF IsRow, OneFile, x
<1> QED
  BY <1>1, <1>2, <1>11, <1>13, <1>14, <1>15 DEF x

\* The rows of observations: one of every file that can be read.
LEMMA FilesAre ==
    ASSUME NEW rows, Sourced(rows), \A r \in rows : r.platform = {}
    PROVE  /\ Indexed(PerFile(rows))
           /\ \A r \in Readable(rows) : OneFile(rows, r.file) \in PerFile(rows)
<1> DEFINE S == {r.file : r \in Readable(rows)}
           f == [n \in S |-> OneFile(rows, n)]
           index == PerFile(rows)
<1>1. index = {f[n] : n \in S} /\ DOMAIN f = S
  BY DEF PerFile, OneFile
<1>2. \A n \in S : f[n] = OneFile(rows, n)
  OBVIOUS
<1>3. IsFiniteSet(S)
  <2> DEFINE R == Readable(rows)
             g == [r \in R |-> r.file]
  <2>1. IsFiniteSet(R)
    BY FS_Subset DEF Sourced, Readable
  <2>2. S = {g[r] : r \in R} /\ DOMAIN g = R
    OBVIOUS
  <2> HIDE DEF S, R, g
  <2> QED
    BY <2>1, <2>2, FiniteImage
<1>4. \A r \in Readable(rows) : r.file \in S /\ r.file \in Int
  BY ReadableHas
<1>5. \A n \in S : \E r \in Readable(rows) : r.file = n
  OBVIOUS
<1> HIDE DEF S, f, index
<1>6. \A n \in S : f[n].file = n /\ n \in Int /\ IsRow(f[n]) /\ Spanned(f[n])
  <2> SUFFICES ASSUME NEW n \in S PROVE f[n].file = n /\ n \in Int /\ IsRow(f[n]) /\ Spanned(f[n])
    OBVIOUS
  <2>1. PICK r \in Readable(rows) : r.file = n
    BY <1>5
  <2>2. Reaches(OneFile(rows, n), r) /\ IsRow(OneFile(rows, n)) /\ Spanned(OneFile(rows, n))
    BY <2>1, OneFileMeans
  <2> QED
    BY <1>2, <1>4, <2>1, <2>2 DEF Reaches
<1>7. Indexed(index)
  <2>1. IsFiniteSet(index)
    BY <1>1, <1>3, FiniteImage
  <2>2. \A x \in index : \E n \in S : x = f[n]
    BY <1>1
  <2> QED
    BY <1>6, <2>1, <2>2 DEF Indexed
<1>8. \A n \in S : f[n] \in index
  BY <1>1
<1> QED
  BY <1>2, <1>4, <1>7, <1>8 DEF index

\* What is kept of rows.
LEMMA KeptAre ==
    ASSUME NEW rows, Indexed(rows), NEW index \in Kept(rows)
    PROVE  Indexed(index) /\ index = {x \in rows : Legal(x)}
<1>1. index = {x \in rows : Legal(x)}
  BY DEF Kept
<1>2. IsFiniteSet(index)
  BY <1>1, FS_Subset DEF Indexed
<1> QED
  BY <1>1, <1>2 DEF Indexed

\* What an index has to do with its source: its rows are readable ones and legal, unless
\* they are of observations, and every file that is legal throughout is in it.
Shown(index, format, rows) ==
    /\ Indexed(index)
    /\ format # "canyon" =>
         \A x \in index : \E r \in Readable(rows) :
            /\ format = "paths" => r.ours
            /\ IsOf(x, r) /\ Legal(x) /\ x.vars = Naming(r.vars, "tuple")
    /\ \A r \in Readable(rows) : (format = "paths" => r.ours) /\ Proper(rows, r) =>
         \E x \in index :
            /\ Reaches(x, r)
            /\ x.vars = Naming(UNION {q.vars : q \in OfItsFile(rows, r)}, "tuple")

LEMMA LegalWhere ==
    ASSUME NEW x, NEW r, IsOf(x, r), NEW b \in r.box, NEW t \in r.time
    PROVE  Legal(x) <=> Legal([box |-> b, time |-> t])
<1> DEFINE e == [box |-> b, time |-> t]
<1>1. e.box = b /\ e.time = t /\ x.box = b /\ x.time = t
  BY DEF IsOf
<1> HIDE DEF e
<1>2. Legal(x) <=> Legal(e)
  BY <1>1 DEF Legal
<1> QED
  BY <1>2 DEF e

\* Where no file has two rows, a row of the index goes as far as the row it is.
LEMMA AsFar ==
    ASSUME NEW rows, Sourced(rows), \A r, s \in rows : r.file = s.file => r = s,
           NEW r \in Readable(rows), NEW x, IsOf(x, r)
    PROVE  /\ Reaches(x, r) /\ UNION {q.vars : q \in OfItsFile(rows, r)} = r.vars
           /\ OfItsFile(rows, r) = {r}
           /\ Proper(rows, r) <=> Legal(x)
<1>1. OfItsFile(rows, r) = {r}
  BY DEF OfItsFile, Readable
<1>2. UNION {q.vars : q \in OfItsFile(rows, r)} = r.vars
  BY <1>1
<1>3. /\ Only(r.box) \in r.box /\ (\A b \in r.box : b = Only(r.box))
      /\ Only(r.time) \in r.time /\ \A t \in r.time : t = Only(r.time)
      /\ Only(r.box) \in (Int \X Int) \X (Int \X Int) /\ Only(r.time) \in Int \X Int
  BY ReadableHas
<1>4. Reaches(x, r)
  BY <1>3 DEF IsOf, Reaches
<1>5. Proper(rows, r) <=> Legal(x)
  <2>1. \A b \in r.box, t \in r.time : Legal(x) <=> Legal([box |-> b, time |-> t])
    BY LegalWhere
  <2> QED
    BY <1>1, <1>3, <2>1 DEF Proper
<1> QED
  BY <1>1, <1>2, <1>4, <1>5

LEMMA ParseMeans ==
    ASSUME NEW q \in FileLists, NEW index \in Parse(q.format, q.source)
    PROVE  Shown(index, q.format, q.source.rows)
<1> DEFINE rows == q.source.rows
           format == q.format
<1>1. /\ Sourced(rows)
      /\ format = "canyon" => \A r \in rows : r.platform = {}
      /\ format # "canyon" => \A r, s \in rows : r.file = s.file => r = s
      /\ format = "paths" => \A r \in rows : r.ours =>
            \A b \in r.box, t \in r.time : Legal([box |-> b, time |-> t])
  BY FileListsAssumption DEF Sourced
<1>2. \/ format = "insitu" /\ index \in Kept(AsTheyAre(rows))
      \/ format = "canyon" /\ index \in Kept(PerFile(rows))
      \/ format = "paths" /\ index = AsTheyAre({r \in rows : r.ours})
  BY DEF Parse, InsituIndex, CanyonIndex, PathIndex
<1> HIDE DEF rows, format
<1>3. ASSUME format = "insitu", index \in Kept(AsTheyAre(rows))
      PROVE  Shown(index, format, rows)
  <2>1. \A r, s \in rows : r.file = s.file => r = s
    BY <1>1, <1>3
  <2>2. /\ Indexed(AsTheyAre(rows))
        /\ \A x \in AsTheyAre(rows) : \E r \in Readable(rows) :
              IsOf(x, r) /\ x.vars = Naming(r.vars, "tuple")
        /\ \A r \in Readable(rows) : \E x \in AsTheyAre(rows) :
              IsOf(x, r) /\ x.vars = Naming(r.vars, "tuple")
    BY <1>1, <2>1, TheyAre
  <2>3. Indexed(index) /\ index = {x \in AsTheyAre(rows) : Legal(x)}
    BY <1>3, <2>2, KeptAre
  <2>4. \A x \in index : \E r \in Readable(rows) :
           IsOf(x, r) /\ Legal(x) /\ x.vars = Naming(r.vars, "tuple")
    BY <2>2, <2>3
  <2>5. ASSUME NEW r \in Readable(rows), Proper(rows, r)
        PROVE  \E x \in index :
                  /\ Reaches(x, r)
                  /\ x.vars = Naming(UNION {p.vars : p \in OfItsFile(rows, r)}, "tuple")
    <3>1. PICK x \in AsTheyAre(rows) : IsOf(x, r) /\ x.vars = Naming(r.vars, "tuple")
      BY <2>2
    <3>2. /\ Reaches(x, r) /\ UNION {p.vars : p \in OfItsFile(rows, r)} = r.vars
          /\ Legal(x)
      BY <1>1, <2>1, <2>5, <3>1, AsFar
    <3> QED
      BY <2>3, <3>1, <3>2
  <2> QED
    BY <1>3, <2>3, <2>4, <2>5 DEF Shown
<1>4. ASSUME format = "canyon", index \in Kept(PerFile(rows))
      PROVE  Shown(index, format, rows)
  <2>1. Indexed(PerFile(rows)) /\ \A r \in Readable(rows) : OneFile(rows, r.file) \in PerFile(rows)
    BY <1>1, <1>4, FilesAre
  <2>2. Indexed(index) /\ index = {x \in PerFile(rows) : Legal(x)}
    BY <1>4, <2>1, KeptAre
  <2>3. ASSUME NEW r \in Readable(rows), Proper(rows, r)
        PROVE  \E x \in index :
                  /\ Reaches(x, r)
                  /\ x.vars = Naming(UNION {p.vars : p \in OfItsFile(rows, r)}, "tuple")
    <3> DEFINE x == OneFile(rows, r.file)
    <3>1. /\ Reaches(x, r)
          /\ x.vars = Naming(UNION {p.vars : p \in OfItsFile(rows, r)}, "tuple")
          /\ Legal(x)
      BY <1>1, <1>4, <2>3, OneFileMeans
    <3> HIDE DEF x
    <3>2. x \in PerFile(rows)
      BY <2>1 DEF x
    <3> QED
      BY <2>2, <3>1, <3>2
  <2> QED
    BY <1>4, <2>2, <2>3 DEF Shown
<1>5. ASSUME format = "paths", index = AsTheyAre({r \in rows : r.ours})
      PROVE  Shown(index, format, rows)
  <2> DEFINE ours == {r \in rows : r.ours}
  <2>1. \A r, s \in rows : r.file = s.file => r = s
    BY <1>1, <1>5
  <2>2. Sourced(ours) /\ \A r, s \in ours : r.file = s.file => r = s
    <3>1. IsFiniteSet(ours)
      BY <1>1, FS_Subset DEF Sourced
    <3> QED
      BY <1>1, <2>1, <3>1 DEF Sourced
  <2>3. \A r : r \in Readable(ours) <=> r \in Readable(rows) /\ r.ours
    BY DEF Readable
  <2>4. \A r \in Readable(ours) : r \in ours /\ r \in rows
    BY DEF Readable
  <2>5. ours \subseteq rows
    OBVIOUS
  <2> HIDE DEF ours
  <2>6. /\ Indexed(index)
        /\ \A x \in index : \E r \in Readable(ours) :
              IsOf(x, r) /\ x.vars = Naming(r.vars, "tuple")
        /\ \A r \in Readable(ours) : \E x \in index :
              IsOf(x, r) /\ x.vars = Naming(r.vars, "tuple")
    BY <1>5, <2>2, TheyAre DEF ours
  <2>7. ASSUME NEW r \in Readable(ours), NEW x, IsOf(x, r) PROVE Legal(x)
    <3>1. \A b \in r.box, t \in r.time : Legal([box |-> b, time |-> t])
      BY <1>1, <1>5, <2>3, <2>4
    <3>2. Only(r.box) \in r.box /\ Only(r.time) \in r.time
      BY <2>2, ReadableHas
    <3> QED
      BY <2>7, <3>1, <3>2, LegalWhere
  <2>8. \A x \in index : \E r \in Readable(rows) :
           r.ours /\ IsOf(x, r) /\ Legal(x) /\ x.vars = Naming(r.vars, "tuple")
    BY <2>3, <2>6, <2>7
  <2>9. ASSUME NEW r \in Readable(rows), r.ours
        PROVE  \E x \in index :
                  /\ Reaches(x, r)
                  /\ x.vars = Naming(UNION {p.vars : p \in OfItsFile(rows, r)}, "tuple")
    <3>1. r \in Readable(ours)
      BY <2>3, <2>9
    <3>2. PICK x \in index : IsOf(x, r) /\ x.vars = Naming(r.vars, "tuple")
      BY <2>6, <3>1
    <3>3. Reaches(x, r) /\ UNION {p.vars : p \in OfItsFile(rows, r)} = r.vars
      BY <1>1, <2>1, <3>2, AsFar
    <3> QED
      BY <3>2, <3>3
  <2> QED
    BY <1>5, <2>6, <2>8, <2>9 DEF Shown
<1>6. Shown(index, format, rows)
  BY <1>2, <1>3, <1>4, <1>5
<1> QED
  BY <1>6 DEF rows, format

----------------------------------------------------------------------------
(* Spans in common.                                                        *)

LEMMA SpansShare ==
    ASSUME NEW s \in Int \X Int, NEW t \in Int \X Int
    PROVE  /\ Span(s) \cap Span(t) # {} => Overlap(s, t)
           /\ s[1] <= s[2] /\ t[1] <= t[2] /\ Overlap(s, t) => Span(s) \cap Span(t) # {}
<1>1. s[1] \in Int /\ s[2] \in Int /\ t[1] \in Int /\ t[2] \in Int
  OBVIOUS
<1>2. ASSUME NEW x \in Span(s) \cap Span(t) PROVE Overlap(s, t)
  BY <1>1 DEF Span, Overlap
<1>3. ASSUME s[1] <= s[2], t[1] <= t[2], Overlap(s, t) PROVE Span(s) \cap Span(t) # {}
  <2>1. CASE s[1] <= t[1]
    <3>1. t[1] \in Span(s) /\ t[1] \in Span(t)
      BY <1>1, <1>3, <2>1 DEF Span, Overlap
    <3> QED
      BY <3>1
  <2>2. CASE t[1] <= s[1]
    <3>1. s[1] \in Span(s) /\ s[1] \in Span(t)
      BY <1>1, <1>3, <2>2 DEF Span, Overlap
    <3> QED
      BY <3>1
  <2> QED
    BY <1>1, <2>1, <2>2
<1> QED
  BY <1>2, <1>3

LEMMA SpansGrow ==
    ASSUME NEW s \in Int \X Int, NEW t \in Int \X Int, s[1] <= t[1], t[2] <= s[2]
    PROVE  Span(t) \subseteq Span(s)
<1>1. s[1] \in Int /\ s[2] \in Int /\ t[1] \in Int /\ t[2] \in Int
  OBVIOUS
<1> QED
  BY <1>1 DEF Span

\* Round the antimeridian too.
LEMMA RoundsShare ==
    ASSUME NEW s \in Int \X Int, NEW lon \in (Longitudes[1]..Longitudes[2]) \X (Longitudes[1]..Longitudes[2])
    PROVE  /\ Round(lon) \cap Span(s) # {} => OverlapLongitude(s, lon)
           /\ s[1] <= s[2] /\ OverlapLongitude(s, lon) => Round(lon) \cap Span(s) # {}
<1>1. Longitudes \in Int \X Int /\ Longitudes[1] \in Int /\ Longitudes[2] \in Int
  BY IndexAssumption
<1>2. /\ lon[1] \in Int /\ lon[2] \in Int /\ lon \in Int \X Int
      /\ lon[1] <= Longitudes[2] /\ Longitudes[1] <= lon[2]
  BY <1>1
<1>3. CASE lon[1] <= lon[2]
  <2>1. Round(lon) = Span(lon) /\ (OverlapLongitude(s, lon) <=> Overlap(s, lon))
    BY <1>3 DEF Round, OverlapLongitude
  <2>2. /\ Span(s) \cap Span(lon) # {} => Overlap(s, lon)
        /\ s[1] <= s[2] /\ lon[1] <= lon[2] /\ Overlap(s, lon) => Span(s) \cap Span(lon) # {}
    BY <1>2, SpansShare
  <2> QED
    BY <1>3, <2>1, <2>2
<1>4. CASE ~(lon[1] <= lon[2])
  <2> DEFINE u == <<lon[1], Longitudes[2]>>
             v == <<Longitudes[1], lon[2]>>
  <2>1. /\ Round(lon) = Span(u) \cup Span(v)
        /\ OverlapLongitude(s, lon) <=> Overlap(s, u) \/ Overlap(s, v)
    BY <1>4 DEF Round, OverlapLongitude
  <2>2. u \in Int \X Int /\ u[1] <= u[2] /\ v \in Int \X Int /\ v[1] <= v[2]
    BY <1>1, <1>2
  <2> HIDE DEF u, v
  <2>3. /\ Span(s) \cap Span(u) # {} => Overlap(s, u)
        /\ s[1] <= s[2] /\ Overlap(s, u) => Span(s) \cap Span(u) # {}
    BY <2>2, SpansShare
  <2>4. /\ Span(s) \cap Span(v) # {} => Overlap(s, v)
        /\ s[1] <= s[2] /\ Overlap(s, v) => Span(s) \cap Span(v) # {}
    BY <2>2, SpansShare
  <2> QED
    BY <2>1, <2>3, <2>4
<1> QED
  BY <1>3, <1>4

----------------------------------------------------------------------------
(* What comes back of a kept index.                                        *)

\* Rows that differ in their variables at most.
Alike(x, y) == x.file = y.file /\ x.box = y.box /\ x.time = y.time /\ x.platform = y.platform

LEMMA RowsChange ==
    ASSUME NEW x, IsRow(x), NEW w
    PROVE  Alike(x, [x EXCEPT !.vars = w])
<1>1. PICK f, b, t, v, p : x = Row(f, b, t, v, p)
  BY DEF IsRow
<1>2. x = [file |-> f, box |-> b, time |-> t, vars |-> Naming(v, "tuple"), platform |-> p]
  BY <1>1 DEF Row
<1>3. [x EXCEPT !.vars = w] = [file |-> f, box |-> b, time |-> t, vars |-> w, platform |-> p]
  BY <1>2
<1> QED
  BY <1>2, <1>3 DEF Alike

LEMMA MatchesAlike ==
    ASSUME NEW x, NEW y, Alike(x, y), NEW filter, filter.vars = {}
    PROVE  Matches(x, filter) <=> Matches(y, filter)
BY DEF Alike, Matches

\* Read back, an index lists the same files, unless it is asked for variables.
SameFiles(back, index, filter) ==
    /\ IsFiniteSet(back)
    /\ \A x \in back : x.file \in Int
    /\ \A x, y \in back : x.file = y.file => x = y
    /\ \A y \in back : \E x \in index : x.file = y.file /\ (Matches(x, filter) <=> Matches(y, filter))
    /\ \A x \in index : \E y \in back : x.file = y.file /\ (Matches(x, filter) <=> Matches(y, filter))

LEMMA ParquetMeans ==
    ASSUME NEW index, Indexed(index), NEW filter, filter.vars = {}
    PROVE  SameFiles(FromParquet(index), index, filter)
<1> DEFINE f == [r \in index |-> [r EXCEPT !.vars = Naming(r.vars.names, "array")]]
           back == FromParquet(index)
<1>1. back = {f[r] : r \in index} /\ DOMAIN f = index
  BY DEF FromParquet
<1>2. \A r \in index : f[r] = [r EXCEPT !.vars = Naming(r.vars.names, "array")]
  OBVIOUS
<1> HIDE DEF f, back
<1>3. \A r \in index : Alike(r, f[r])
  <2> SUFFICES ASSUME NEW r \in index PROVE Alike(r, f[r])
    OBVIOUS
  <2>1. IsRow(r)
    BY DEF Indexed
  <2>2. Alike(r, [r EXCEPT !.vars = Naming(r.vars.names, "array")])
    BY <2>1, RowsChange
  <2> QED
    BY <1>2, <2>2, Zenon
<1>4. IsFiniteSet(back)
  BY <1>1, FiniteImage DEF Indexed
<1>5. \A y \in back : \E x \in index : y = f[x]
  BY <1>1
<1>6. \A x \in index : f[x] \in back
  BY <1>1
<1>7. \A x \in index : f[x].file = x.file /\ (Matches(x, filter) <=> Matches(f[x], filter))
  BY <1>3, MatchesAlike DEF Alike
<1>8. \A x \in index : x.file \in Int /\ \A y \in index : x.file = y.file => x = y
  BY DEF Indexed
<1>9. \A x, y \in back : x.file = y.file => x = y
  BY <1>5, <1>7, <1>8
<1> QED
  BY <1>4, <1>5, <1>6, <1>7, <1>8, <1>9 DEF SameFiles, back

LEMMA SameIndex ==
    ASSUME NEW index, Indexed(index), NEW filter
    PROVE  SameFiles(index, index, filter)
BY DEF Indexed, SameFiles

----------------------------------------------------------------------------
(* What is listed is what is sought.                                       *)

\* A row of the index of a file that is sought.
LEMMA SoughtMatches ==
    ASSUME ask \in FileLists, NEW r, Sought(r), NEW x, Reaches(x, r), Spanned(x),
           x.vars = Naming(UNION {q.vars : q \in OfItsFile(ask.source.rows, r)}, "tuple")
    PROVE  Matches(x, ask.filter)
<1> DEFINE rows == ask.source.rows
           filter == ask.filter
           mine == OfItsFile(rows, r)
           names == UNION {q.vars : q \in mine}
<1>1. /\ Sourced(rows)
      /\ filter.box \subseteq (Int \X Int) \X (Int \X Int) /\ \A b \in filter.box : OnEarth(b)
      /\ filter.time \subseteq Int \X Int
  BY FileListsAssumption DEF Sourced
<1>2. /\ r \in Readable(rows)
      /\ \A b \in filter.box, c \in r.box :
            Round(b[1]) \cap Span(c[1]) # {} /\ Span(b[2]) \cap Span(c[2]) # {}
      /\ \A t \in filter.time, u \in r.time : Span(t) \cap Span(u) # {}
      /\ filter.vars # {} => filter.vars \cap r.vars # {} \/ \A q \in mine : q.vars = {}
      /\ filter.platforms # {} => r.platform # {} /\ r.platform \subseteq filter.platforms
  BY DEF Sought, OfItsFile
<1>3. x.vars = Naming(names, "tuple") /\ r \in mine
  BY <1>2 DEF OfItsFile
<1> HIDE DEF rows, filter, mine, names
<1> DEFINE c == Only(r.box)
           u == Only(r.time)
<1>4. c \in r.box /\ u \in r.time /\ c \in (Int \X Int) \X (Int \X Int) /\ u \in Int \X Int
  BY <1>1, <1>2, ReadableHas
<1> HIDE DEF c, u
<1>5. /\ c[1] \in Int \X Int /\ c[2] \in Int \X Int
      /\ x.box[1] \in Int \X Int /\ x.box[2] \in Int \X Int /\ x.time \in Int \X Int
  BY <1>4 DEF Spanned
<1>6. /\ x.box[1][1] <= c[1][1] /\ c[1][2] <= x.box[1][2]
      /\ x.box[2][1] <= c[2][1] /\ c[2][2] <= x.box[2][2]
      /\ x.time[1] <= u[1] /\ u[2] <= x.time[2]
  BY <1>4 DEF Reaches
<1>7. /\ Span(c[1]) \subseteq Span(x.box[1]) /\ Span(c[2]) \subseteq Span(x.box[2])
      /\ Span(u) \subseteq Span(x.time)
  <2>1. Span(c[1]) \subseteq Span(x.box[1])
    BY <1>5, <1>6, SpansGrow
  <2>2. Span(c[2]) \subseteq Span(x.box[2])
    BY <1>5, <1>6, SpansGrow
  <2>3. Span(u) \subseteq Span(x.time)
    BY <1>4, <1>5, <1>6, SpansGrow
  <2> QED
    BY <2>1, <2>2, <2>3
<1>8. ASSUME NEW b \in filter.box
      PROVE  OverlapLongitude(x.box[1], b[1]) /\ Overlap(x.box[2], b[2])
  <2>1. /\ b[1] \in (Longitudes[1]..Longitudes[2]) \X (Longitudes[1]..Longitudes[2])
        /\ b[2] \in Int \X Int
    BY <1>1 DEF OnEarth
  <2>2. Round(b[1]) \cap Span(x.box[1]) # {} /\ Span(x.box[2]) \cap Span(b[2]) # {}
    BY <1>2, <1>4, <1>7
  <2> QED
    BY <1>5, <2>1, <2>2, RoundsShare, SpansShare
<1>9. ASSUME NEW t \in filter.time PROVE Overlap(x.time, t)
  <2>1. t \in Int \X Int /\ Span(x.time) \cap Span(t) # {}
    BY <1>1, <1>2, <1>4, <1>7
  <2> QED
    BY <1>5, <2>1, SpansShare
<1>10. ASSUME filter.vars # {} PROVE Names(x.vars, filter.vars)
  <2>1. CASE names = {}
    <3>1. x.vars.form = "unknown"
      BY <1>3, <2>1 DEF Naming
    <3> QED
      BY <3>1 DEF Names
  <2>2. CASE names # {}
    <3>1. x.vars.form = "tuple" /\ x.vars.names = names
      BY <1>3, <2>2 DEF Naming
    <3>2. ~ \A q \in mine : q.vars = {}
      BY <2>2 DEF names
    <3>3. r.vars \subseteq names
      BY <1>3 DEF names
    <3>4. names \cap filter.vars # {}
      BY <1>2, <1>10, <3>2, <3>3
    <3> QED
      BY <3>1, <3>4 DEF Names
  <2> QED
    BY <2>1, <2>2
<1>11. x.platform = r.platform
  BY DEF Reaches
<1>12. Matches(x, filter)
  BY <1>2, <1>8, <1>9, <1>10, <1>11 DEF Matches
<1> QED
  BY <1>12 DEF filter

\* A row of the index that is listed, where files are rows.
LEMMA MatchSought ==
    ASSUME ask \in FileLists, ask.format # "canyon",
           NEW r \in Readable(ask.source.rows), ask.format = "paths" => r.ours,
           NEW x, IsOf(x, r), Legal(x), x.vars = Naming(r.vars, "tuple"), Matches(x, ask.filter)
    PROVE  Sought(r)
<1> DEFINE rows == ask.source.rows
           filter == ask.filter
<1>1. /\ Sourced(rows) /\ \A p, q \in rows : p.file = q.file => p = q
      /\ filter.box \subseteq (Int \X Int) \X (Int \X Int) /\ \A b \in filter.box : OnEarth(b)
      /\ filter.time \subseteq Int \X Int /\ \A t \in filter.time : t[1] <= t[2]
  BY FileListsAssumption DEF Sourced
<1>2. /\ \A b \in filter.box : OverlapLongitude(x.box[1], b[1]) /\ Overlap(x.box[2], b[2])
      /\ \A t \in filter.time : Overlap(x.time, t)
      /\ filter.vars # {} => Names(x.vars, filter.vars)
      /\ filter.platforms # {} => x.platform # {} /\ x.platform \subseteq filter.platforms
  BY DEF Matches
<1>3. r \in Readable(rows)
  OBVIOUS
<1>4. OfItsFile(rows, r) = {r} /\ Proper(rows, r)
  BY <1>1, <1>3, AsFar
<1> HIDE DEF rows, filter
<1>5. /\ \A b \in r.box : b = x.box /\ b \in (Int \X Int) \X (Int \X Int)
      /\ \A t \in r.time : t = x.time /\ t \in Int \X Int
      /\ r.platform = x.platform
  BY <1>1, <1>3 DEF IsOf, Sourced, Readable
<1>6. /\ Inside(x.box[1], Longitudes) /\ Inside(x.box[2], Latitudes)
      /\ x.time[1] <= x.time[2]
  BY DEF Legal
<1>7. x.box[1][1] <= x.box[1][2] /\ x.box[2][1] <= x.box[2][2]
  BY <1>6 DEF Inside
<1>8. ASSUME NEW b \in filter.box, NEW c \in r.box
      PROVE  Round(b[1]) \cap Span(c[1]) # {} /\ Span(b[2]) \cap Span(c[2]) # {}
  <2>1. c = x.box /\ c[1] \in Int \X Int /\ c[2] \in Int \X Int
    BY <1>5
  <2>2. /\ b[1] \in (Longitudes[1]..Longitudes[2]) \X (Longitudes[1]..Longitudes[2])
        /\ b[2] \in Int \X Int /\ b[2][1] <= b[2][2]
    BY <1>1 DEF OnEarth, Inside
  <2>3. OverlapLongitude(c[1], b[1]) /\ Overlap(c[2], b[2]) /\ c[1][1] <= c[1][2] /\ c[2][1] <= c[2][2]
    BY <1>2, <1>7, <2>1
  <2>4. Round(b[1]) \cap Span(c[1]) # {}
    BY <2>1, <2>2, <2>3, RoundsShare
  <2>5. Span(c[2]) \cap Span(b[2]) # {}
    BY <2>1, <2>2, <2>3, SpansShare
  <2> QED
    BY <2>4, <2>5
<1>9. ASSUME NEW t \in filter.time, NEW u \in r.time PROVE Span(t) \cap Span(u) # {}
  <2>1. Span(u) \cap Span(t) # {}
    BY <1>1, <1>2, <1>5, <1>6, SpansShare
  <2> QED
    BY <2>1
<1>10. ASSUME filter.vars # {}, r.vars # {} PROVE filter.vars \cap r.vars # {}
  <2>1. x.vars.form = "tuple" /\ x.vars.names = r.vars
    BY <1>10 DEF Naming
  <2> QED
    BY <1>2, <1>10, <2>1 DEF Names
<1>11. \A q \in OfItsFile(rows, r) : q = r
  BY <1>4
<1>12. \A q \in OfItsFile(rows, r) : \A b \in q.box, t \in q.time : Legal([box |-> b, time |-> t])
  BY <1>4 DEF Proper
<1>13. filter.vars # {} => filter.vars \cap r.vars # {} \/ \A q \in OfItsFile(rows, r) : q.vars = {}
  BY <1>10, <1>11
<1>14. filter.platforms # {} => r.platform # {} /\ r.platform \subseteq filter.platforms
  BY <1>2, <1>5
<1> QED
  BY <1>3, <1>8, <1>9, <1>12, <1>13, <1>14 DEF Sought, OfItsFile, rows, filter

\* A listing is the beginning of the matched rows by path, and says when it is not all.
Lists(r, M) ==
    /\ ToSet(r.files) \subseteq M
    /\ r.matched = Cardinality(M)
    /\ r.truncated <=> Len(r.files) < r.matched
    /\ \A x \in M : \/ x \in ToSet(r.files)
                    \/ r.truncated /\ \A y \in ToSet(r.files) : y.file < x.file

LEMMA ListingMeans ==
    ASSUME NEW index, NEW filter, NEW limit \in SUBSET (Nat \ {0}), \A l, m \in limit : l = m,
           IsFiniteSet(index), \A x \in index : x.file \in Int,
           \A x, y \in index : x.file = y.file => x = y
    PROVE  Lists(Listing(index, filter, limit), {x \in index : Matches(x, filter)})
<1> DEFINE M == {x \in index : Matches(x, filter)}
           order == InOrder(M, LAMBDA x, y : x.file < y.file)
           R == {p \in M \X M : p[1].file < p[2].file}
           cut == limit # {} /\ Len(order) > Only(limit)
           r == Listing(index, filter, limit)
<1>1. IsFiniteSet(M)
  BY FS_Subset
<1>2. \A x \in M : x.file \in Int /\ \A y \in M : x.file = y.file => x = y
  OBVIOUS
<1>3. /\ r.files = IF cut THEN SubSeq(order, 1, Only(limit)) ELSE order
      /\ r.matched = Cardinality(M) /\ r.truncated = cut
  BY DEF Listing
<1> HIDE DEF M, r
<1>4. Orders(M, R)
  <2>1. \A x, y \in M : <<x, y>> \in R <=> x.file < y.file
    OBVIOUS
  <2> HIDE DEF R
  <2> QED
    BY <1>2, <2>1 DEF Orders
<1>5. /\ order \in SetToSeqs(M)
      /\ \A i, j \in DOMAIN order : i < j => order[i].file < order[j].file
  <2>1. \E s \in SetToSeqs(M) : \A i, j \in DOMAIN s : i < j => <<s[i], s[j]>> \in R
    BY <1>1, <1>4, SortedExists
  <2>2. \E s \in SetToSeqs(M) : \A i, j \in DOMAIN s : i < j => s[i].file < s[j].file
    BY <2>1
  <2> QED
    BY <2>2 DEF InOrder
<1> HIDE DEF order, R
<1> DEFINE n == Len(order)
<1>6. /\ order \in Seq(M) /\ n \in Nat /\ n = Cardinality(M) /\ DOMAIN order = 1..n
      /\ \A x \in M : \E i \in DOMAIN order : order[i] = x
  BY <1>1, <1>5, SeqsCover
<1>7. \A i \in 1..Len(order) : order[i] \in M
  BY <1>6, ElementOfSeq, Zenon
<1> DEFINE m == IF cut THEN Only(limit) ELSE n
<1>8. m \in Nat /\ m <= n /\ (cut <=> m < n)
  <2>1. limit # {} => Only(limit) \in Nat
    BY OnlyOne
  <2> QED
    BY <1>6, <2>1
<1>9. /\ Len(r.files) = m /\ DOMAIN r.files = 1..m
      /\ \A i \in 1..m : r.files[i] = order[i]
  <2>1. CASE cut
    <3>1. r.files = SubSeq(order, 1, m)
      BY <1>3, <2>1
    <3> HIDE DEF m
    <3> QED
      BY <1>6, <1>8, <3>1
  <2>2. CASE ~cut
    <3>1. r.files = order /\ m = n
      BY <1>3, <2>2
    <3> HIDE DEF m
    <3> QED
      BY <1>6, <3>1
  <2> QED
    BY <2>1, <2>2
<1> HIDE DEF m, n, cut
<1>10. ToSet(r.files) = {order[i] : i \in 1..m}
  BY <1>9 DEF ToSet
<1>11. \A i \in 1..m : i \in 1..n /\ i \in DOMAIN order
  BY <1>6, <1>8
<1>12. ToSet(r.files) \subseteq M
  BY <1>7, <1>10, <1>11 DEF n
<1>13. ASSUME NEW x \in M, x \notin ToSet(r.files)
       PROVE  r.truncated = TRUE /\ \A y \in ToSet(r.files) : y.file < x.file
  <2>1. PICK j \in 1..n : order[j] = x
    BY <1>6
  <2>2. j \notin 1..m
    BY <1>10, <1>13, <2>1
  <2>3. m < j /\ m < n
    BY <1>6, <1>8, <2>1, <2>2
  <2>4. cut = TRUE
    BY <1>8, <2>3 DEF cut
  <2>5. ASSUME NEW y \in ToSet(r.files) PROVE y.file < x.file
    <3>1. PICK i \in 1..m : order[i] = y
      BY <1>10
    <3>2. i < j /\ i \in DOMAIN order /\ j \in DOMAIN order
      BY <1>6, <1>8, <1>11, <2>1, <2>3, <3>1
    <3> QED
      BY <1>5, <2>1, <3>1, <3>2
  <2> QED
    BY <1>3, <2>4, <2>5
<1>14. r.truncated <=> Len(r.files) < r.matched
  BY <1>3, <1>6, <1>8, <1>9
<1> QED
  BY <1>3, <1>12, <1>13, <1>14 DEF Lists, r, M

\* As many files as rows, where no file has two.
LEMMA FilesCount ==
    ASSUME NEW M, IsFiniteSet(M), \A x, y \in M : x.file = y.file => x = y
    PROVE  IsFiniteSet({x.file : x \in M}) /\ Cardinality({x.file : x \in M}) = Cardinality(M)
<1> DEFINE F == {x.file : x \in M}
           f == [x \in M |-> x.file]
<1>1. f \in Surjection(M, F)
  BY DEF Surjection
<1>2. f \in Injection(M, F)
  BY DEF Injection, IsInjective
<1> HIDE DEF F, f
<1>3. IsFiniteSet(F) /\ Cardinality(F) = Cardinality(M)
  BY <1>1, <1>2, FS_Surjection
<1> QED
  BY <1>3 DEF F

\* What ListingIsExact says of a listing.
LEMMA FilesAnswer ==
    ASSUME IInv, Given("files"), ask.kept => ask.filter.vars = {}
    PROVE  LET shown == ToSet(Reply.files)
           IN  /\ ask.format # "canyon" =>
                    /\ \A r \in shown : r.file \in SoughtFiles
                    /\ Reply.matched = Cardinality(SoughtFiles)
               /\ Reply.matched >= Cardinality(SoughtFiles)
               /\ \A f \in SoughtFiles : \/ \E r \in shown : r.file = f
                                         \/ Reply.truncated /\ \A r \in shown : r.file < f
               /\ Reply.truncated <=> Len(Reply.files) < Reply.matched
<1>1. ask \in FileLists
  BY DEF IInv, Questioned, Given
<1>2. PICK index \in Parse(ask.format, ask.source) :
         answer = <<Listing(IF ask.kept THEN FromParquet(index) ELSE index, ask.filter, ask.limit)>>
  BY DEF IInv, Replied
<1> DEFINE back == IF ask.kept THEN FromParquet(index) ELSE index
           rows == ask.source.rows
           M == {x \in back : Matches(x, ask.filter)}
           F == {x.file : x \in M}
           shown == ToSet(Reply.files)
<1>3. Reply = Listing(back, ask.filter, ask.limit)
  BY <1>2 DEF Reply
<1>4. Shown(index, ask.format, rows)
  BY <1>1, <1>2, ParseMeans
<1>5. Indexed(index)
  BY <1>4 DEF Shown
<1>6. SameFiles(back, index, ask.filter)
  <2>1. ask.kept \in BOOLEAN
    BY <1>1, FileListsAssumption
  <2>2. CASE ask.kept
    BY <1>5, <2>2, ParquetMeans
  <2>3. CASE ~ask.kept
    BY <1>5, <2>3, SameIndex
  <2> QED
    BY <2>2, <2>3
<1>7. ask.limit \in SUBSET (Nat \ {0}) /\ \A l, m \in ask.limit : l = m
  BY <1>1, FileListsAssumption
<1> HIDE DEF back
<1>8. /\ IsFiniteSet(back) /\ (\A x \in back : x.file \in Int)
      /\ \A x, y \in back : x.file = y.file => x = y
  BY <1>6 DEF SameFiles
<1>9. Lists(Reply, M)
  BY <1>3, <1>7, <1>8, ListingMeans
<1>10. IsFiniteSet(F) /\ Cardinality(F) = Cardinality(M)
  <2>1. IsFiniteSet(M) /\ \A x, y \in M : x.file = y.file => x = y
    BY <1>8, FS_Subset
  <2> HIDE DEF M
  <2> QED
    BY <2>1, FilesCount
<1>11. SoughtFiles \subseteq F
  <2> SUFFICES ASSUME NEW r \in rows, Sought(r) PROVE \E y \in M : y.file = r.file
    BY DEF SoughtFiles
  <2>1. r \in Readable(rows) /\ (ask.format = "paths" => r.ours) /\ Proper(rows, r)
    BY DEF Sought, Proper, OfItsFile
  <2>2. PICK x \in index :
           /\ Reaches(x, r)
           /\ x.vars = Naming(UNION {q.vars : q \in OfItsFile(rows, r)}, "tuple")
    BY <1>4, <2>1 DEF Shown
  <2>3. Spanned(x)
    BY <1>5 DEF Indexed
  <2>4. Matches(x, ask.filter)
    BY <1>1, <2>2, <2>3, SoughtMatches
  <2>5. PICK y \in back : x.file = y.file /\ (Matches(x, ask.filter) <=> Matches(y, ask.filter))
    BY <1>6 DEF SameFiles
  <2> QED
    BY <2>2, <2>4, <2>5 DEF Reaches
<1>12. ASSUME ask.format # "canyon", NEW y \in M PROVE y.file \in SoughtFiles
  <2>1. PICK x \in index : x.file = y.file /\ (Matches(x, ask.filter) <=> Matches(y, ask.filter))
    BY <1>6 DEF SameFiles
  <2>2. PICK r \in Readable(rows) :
           /\ ask.format = "paths" => r.ours
           /\ IsOf(x, r) /\ Legal(x) /\ x.vars = Naming(r.vars, "tuple")
    BY <1>4, <1>12 DEF Shown
  <2>3. Sought(r)
    BY <1>1, <1>12, <2>1, <2>2, MatchSought
  <2>4. r \in rows /\ r.file = y.file
    BY <2>1, <2>2 DEF Readable, IsOf
  <2> QED
    BY <2>3, <2>4 DEF SoughtFiles
<1>13. ask.format # "canyon" => F = SoughtFiles
  BY <1>11, <1>12
<1>14. /\ Cardinality(SoughtFiles) <= Cardinality(F)
       /\ Cardinality(SoughtFiles) \in Nat /\ Cardinality(F) \in Nat
  <2>1. IsFiniteSet(SoughtFiles) /\ Cardinality(SoughtFiles) <= Cardinality(F)
    BY <1>10, <1>11, FS_Subset
  <2> QED
    BY <1>10, <2>1, FS_CardinalityType
<1>15. /\ shown \subseteq M /\ Reply.matched = Cardinality(M)
       /\ Reply.truncated <=> Len(Reply.files) < Reply.matched
       /\ \A x \in M : \/ x \in shown
                       \/ Reply.truncated /\ \A y \in shown : y.file < x.file
  BY <1>9 DEF Lists
<1>16. \A f \in SoughtFiles : \E x \in M : x.file = f
  BY <1>11
<1> HIDE DEF M, F, shown
<1>17. Reply.matched >= Cardinality(SoughtFiles)
  BY <1>10, <1>14, <1>15
<1>18. ask.format # "canyon" =>
         (\A r \in shown : r.file \in SoughtFiles) /\ Reply.matched = Cardinality(SoughtFiles)
  BY <1>10, <1>12, <1>13, <1>15
<1>19. \A f \in SoughtFiles : \/ \E r \in shown : r.file = f
                              \/ Reply.truncated /\ \A r \in shown : r.file < f
  BY <1>15, <1>16
<1> QED
  BY <1>15, <1>17, <1>18, <1>19 DEF shown

\* Whatever the loads of an index and the order they come in, it is fetched until it is
\* stored and no longer; and whatever a source's rows and the caller's filter, a listing
\* shows the files that are sought (IndexStore.load, list_files).
THEOREM ListingsExact == Spec => []ListingIsExact
<1>1. IInv => ListingIsExact
  <2> SUFFICES ASSUME IInv PROVE ListingIsExact
    OBVIOUS
  <2>1. CASE Given("index")
    <3>1. \A i \in DOMAIN ask.loads : Foretold(Reply.after, Reply.told, ask.loads, i)
      BY <2>1, IndexAnswers
    <3>2. ~Given("files")
      BY <2>1 DEF Given
    <3> QED
      BY <3>1, <3>2, Zenon DEF Foretold, ListingIsExact
  <2>2. CASE Given("files")
    <3>1. ~Given("index")
      BY <2>2 DEF Given
    <3>2. CASE ask.kept => ask.filter.vars = {}
      BY <2>2, <3>1, <3>2, FilesAnswer DEF ListingIsExact
    <3>3. CASE ~(ask.kept => ask.filter.vars = {})
      BY <3>1, <3>3 DEF ListingIsExact
    <3> QED
      BY <3>2, <3>3
  <2>3. CASE ~Given("index") /\ ~Given("files")
    BY <2>3 DEF ListingIsExact
  <2> QED
    BY <2>1, <2>2, <2>3
<1> QED
  BY <1>1, Answering, PTL
=============================================================================
