------------------------------- MODULE MCAnswers -------------------------------
(***************************************************************************)
(* Small questions for Answers, and what the documentation says of a       *)
(* listing.                                                                *)
(***************************************************************************)
EXTENDS Answers

----------------------------------------------------------------------------
(* Splitting.                                                              *)

\* Models, of which the last is not in the vocabulary.
CONSTANTS m1, m2, m3, m4

MCModelAxes  == {"model"}
MCVocabulary == [model |-> {m1, m2, m3}]

\* A leap year and one that is none, and the months whose lengths differ.
MCLastDay == (<<2023, 2>> :> 28) @@ (<<2023, 4>> :> 30) @@ (<<2024, 2>> :> 29) @@ (<<2024, 4>> :> 30)

\* The entries of lists: some name a year, month or day twice.
Entries(lists) == {{<<i, list[i]>> : i \in DOMAIN list} : list \in lists}
Years  == Entries({<<2024>>, <<2023, 2024>>, <<2024, 2024>>, <<Junk, 2024>>})
Months == Entries({<<2>>, <<2, 4>>, <<4, 4>>, <<4, 13>>})
Days   == Entries({<<28>>, <<1, 29>>, <<30, 31>>, <<1, 29, 1>>, <<Junk, 1>>})
Models == {{m1}, {m1, m2}, {m1, m2, m3}, {m1, m4}}

Dated  == [year : Years] \cup [year : Years, month : Months] \cup [year : Years, day : Days]
          \cup [year : Years, month : Months, day : Days]
Inputs == Dated \cup {[model |-> m] @@ d : m \in Models, d \in Dated} \cup [model : Models]
Failing == {{}, {m1}, {m1, m2, m3}, {2024}}

\* Only requests for several models or over the limit are ever split.
MCSplits ==
    {q \in [inputs : Inputs, limit : {0, 1, 4, 9}, start : Levels, weight : {1, 3},
            dark : Failing, gone : SUBSET {m1} \cup {{2024}}] :
        /\ q.gone \subseteq q.dark
        /\ \/ ModelOverrides(q.inputs) # {}
           \/ q.limit > 0 /\ Units(q.inputs, q.weight) > q.limit}

----------------------------------------------------------------------------
(* Sizes.  The bytes per unit of every download are a whole number.        *)

MCSeed == [s2 |-> [bpu |-> 40, n |-> 2]]

Requests  == [sig : {"s1", "s2", "s3"}, area : {0, 50, 100}, fields : {50, 20000}]
Replies   == {[units |-> 4, limit |-> 10], [units |-> 20, limit |-> 10],
              [units |-> 4, limit |-> 0], [units |-> Unsaid, limit |-> 10]}
Downloads == {[sig |-> "s1", area |-> 100, units |-> 2, size |-> 20],
              [sig |-> "s1", area |-> 50, units |-> 4, size |-> 60],
              [sig |-> "s1", area |-> 100, units |-> Unsaid, size |-> 90],
              [sig |-> "s1", area |-> 0, units |-> 2, size |-> 90],
              [sig |-> "s2", area |-> 100, units |-> 1, size |-> 80],
              [sig |-> "s3", area |-> 50, units |-> 0, size |-> 70]}

MCSizes == {[past |-> p, request |-> r, reply |-> a] :
                p \in UNION {[1..n -> Downloads] : n \in 0..3}, r \in Requests, a \in Replies}

----------------------------------------------------------------------------
(* Finding.  A small ocean: longitudes and latitudes 0..3, instants 0..3.  *)

MCGroups == <<
    [id |-> "waves", include |-> {"wave", "swell"}, exclude |-> {"ice"}, title |-> {"wave"},
     summary |-> {"sea"}, products |-> {"p1", "p2"}],
    [id |-> "ice", include |-> {"ice"}, exclude |-> {}, title |-> {"ice"},
     summary |-> {"sea"}, products |-> {"p2", "p3"}]>>

MCProducts == <<
    [id |-> "p1", title |-> {"wave"}, summary |-> {"sea"}, variables |-> {"swell"}],
    [id |-> "p2", title |-> {"sea"}, summary |-> {"ice"}, variables |-> {"wave"}],
    [id |-> "p3", title |-> {"ice"}, summary |-> {}, variables |-> {"ice"}]>>

Box(w, e, s, n) == <<<<w, e>>, <<s, n>>>>

MCCards == <<
    [product |-> "p1", title |-> {"wave"}, description |-> {}, variables |-> {"wave"},
     box |-> {Box(0, 1, 0, 1)}, time |-> {<<0, 1>>}],
    [product |-> "p1", title |-> {}, description |-> {"sea"}, variables |-> {"swell"},
     box |-> {Box(2, 3, 0, 3)}, time |-> {<<1, 3>>}],
    [product |-> "p2", title |-> {"sea"}, description |-> {}, variables |-> {"ice", "wave"},
     box |-> {Box(0, 3, 0, 3)}, time |-> {<<2, 1>>}],
    [product |-> "p3", title |-> {"ice"}, description |-> {}, variables |-> {"ice"},
     box |-> {}, time |-> {<<0, 3>>}]>>

Spans   == {<<a, b>> : a, b \in 0..3}
MCBoxes == Spans \X {<<0, 1>>, <<1, 1>>, <<2, 3>>, <<3, 2>>}

MCQueries == {{}, {"wave"}, {"ice"}, {"sea", "swell"}, {"storm"}}
MCFinds ==
    {[query |-> q, top |-> t, asked |-> a, boxes |-> b, times |-> w] :
        q \in MCQueries, t \in {1, 9},
        a \in {<<>>, <<1>>, <<2, 1>>, <<3, 2>>},
        b \in {{}} \cup {{x} : x \in MCBoxes}, w \in {{}, {<<0, 1>>}, {<<1, 1>>}, {<<1, 2>>}}}

MCCovers == {[box |-> b, extents |-> e] : b \in {x \in MCBoxes : ValidBox(x)},
                e \in {{}, {Box(0, 1, 0, 1)}, {Box(0, 1, 0, 1), Box(2, 3, 1, 2)}, {Box(1, 2, 1, 2)},
                       {Box(2, 3, 0, 3), Box(3, 3, 0, 2)}}}

----------------------------------------------------------------------------
(* Chunked parents of two chunks.                                          *)

\* A chunk without a child has no row, no phase and no file, and a retry is owed to
\* failed ones only.
Situations == {c \in Chunk : /\ ~c.child => c.row = "unknown" /\ c.phase = "none" /\ ~c.cached
                             /\ c.phase # "none" => c.row \in {"queued", "running", "successful"}
                             /\ c.row = "unknown" => ~c.cached
                             /\ c.pending => c.row = "failed"}

MCParents == {[chunks |-> <<c, d>>, stopped |-> s, repair |-> <<r, q>>, lost |-> l] :
                 c, d \in Situations, s \in BOOLEAN, r, q \in Repairs, l \in {{}, {1}}}

----------------------------------------------------------------------------
(* Opening the store.                                                      *)

Mount(p, n) == [point |-> p, network |-> n]
MountTables ==
    {{}, {Mount(<<>>, FALSE)},
     {Mount(<<>>, FALSE), Mount(<<"home">>, TRUE)},
     {Mount(<<>>, FALSE), Mount(<<"home">>, TRUE), Mount(<<"home">>, FALSE)},
     {Mount(<<>>, FALSE), Mount(<<"home">>, TRUE), Mount(<<"home", "disk">>, FALSE)},
     {Mount(<<>>, TRUE), Mount(<<"scratch">>, FALSE)}}
Paths == {<<"home", "db">>, <<"home", "disk", "db">>, <<"scratch", "db">>}

\* A writer in the write-ahead mode has a log.
MCSituations ==
    {s \in [holder : {"none", "idle", "writing"}, wal : {"none", "fresh", "stale"},
            wedged : SUBSET {"WAL", "DELETE"}, slow : {{}, {0}, {1}, {1, 2}, {1, 2, 3}}] :
        s.holder = "writing" => s.wal # "none"}

MCOpenings == {[mounts |-> m, resolved |-> r, literal |-> l, situation |-> s] :
                m \in MountTables, r \in {{}} \cup {{p} : p \in Paths}, l \in Paths,
                s \in MCSituations}

----------------------------------------------------------------------------
(* Calls.                                                                  *)

MCPlaces ==
    {[explicit |-> {}, secret_manager |-> m, env |-> e, config_file |-> f] :
        m \in {{}, {"username"}, {"key", "password", "other"}},
        e \in SUBSET {"username", "password", "key", "url"},
        f \in {{}, {"username", "password"}, {"key", "url", "other"}}}

Outcomes ==
    {[kind |-> "result"], [kind |-> "confirm"], [kind |-> "other"],
     [kind |-> "canonical", class |-> "terms"]}
    \cup {[kind |-> "group", leaves |-> l, others |-> o] :
            l \in SUBSET {"network", "quota"}, o \in BOOLEAN}

ToolCall == [backend : Backends, known : BOOLEAN, operation : {"submit", "poll", "fetch"},
             fields : SUBSET {"request_id", "target"}, account : BOOLEAN, outcome : Outcomes]

MCToolCalls ==
    {[enabled |-> e, places |-> p, fault |-> f, call |-> c] :
        e \in SUBSET Backends, p \in {q \in MCPlaces : q.secret_manager = {} \/ q.env = {}},
        f \in {"none", "garbled"},
        c \in {d \in ToolCall : d.known /\ d.operation = "submit" /\ d.fields = {}
                                /\ (d.outcome.kind = "result" \/ d.account)}}
    \cup {[enabled |-> {"cmems"}, places |-> p, fault |-> f, call |-> c] :
        p \in {q \in MCPlaces : q.env \in {{}, {"username"}, {"username", "password"}}},
        f \in {"manager", "unreadable"}, c \in {d \in ToolCall : d.backend = "cmems"}}

Statuses == {"running", "successful"}
MCListings ==
    {[rows |-> r, statuses |-> s, after |-> a, limit |-> l] :
        r \in UNION {[1..n -> [status : Statuses, created : 1..2]] : n \in 0..4},
        s \in {{}, {"running"}, {"done"}}, a \in {{}, {1}}, l \in {-1, 1, 3, 9}}

----------------------------------------------------------------------------
(* Indices.  Longitudes, latitudes and instants are 0..3 where legal.      *)

MCLongitudes == <<0, 3>>

Source(f, t, lon, lat, vs, ps) ==
    [file |-> f, box |-> {<<lon, lat>>}, time |-> {t}, vars |-> vs, platform |-> ps, ours |-> TRUE]

Located == {Source(1, <<0, 1>>, <<0, 1>>, <<0, 1>>, {"temp"}, {}),
            Source(2, <<1, 3>>, <<2, 3>>, <<1, 2>>, {"temp", "salt"}, {}),
            Source(3, <<2, 2>>, <<3, 3>>, <<0, 3>>, {}, {})}
\* The last file's second observation is beyond the poles.
Profiles == {Source(1, <<0, 0>>, <<0, 0>>, <<1, 1>>, {"temp"}, {}),
             Source(1, <<2, 2>>, <<2, 2>>, <<2, 2>>, {"salt"}, {}),
             Source(2, <<1, 1>>, <<3, 3>>, <<0, 0>>, {}, {}),
             Source(3, <<0, 0>>, <<1, 1>>, <<2, 2>>, {"temp"}, {}),
             Source(3, <<0, 0>>, <<1, 1>>, <<4, 4>>, {"temp"}, {})}
Paths3 == {Source(1, <<0, 0>>, <<0, 3>>, <<2, 3>>, {}, {"PF"}),
           Source(2, <<1, 1>>, <<1, 2>>, <<0, 1>>, {}, {"CT"}),
           [Source(3, <<1, 1>>, <<1, 2>>, <<0, 1>>, {}, {"CT"}) EXCEPT !.ours = FALSE]}
\* Rows without an instant, beyond the poles and with their ends swapped.
Spoilt == {[Source(4, <<0, 1>>, <<0, 1>>, <<0, 1>>, {"temp"}, {}) EXCEPT !.time = {}],
           Source(5, <<0, 1>>, <<0, 1>>, <<2, 4>>, {"salt"}, {}),
           Source(6, <<0, 1>>, <<3, 0>>, <<0, 1>>, {}, {})}

Written(format, rows) == [format |-> format, whole |-> TRUE, rows |-> rows]
Good == Written("insitu", Located)
BadSources == {Written("other", {}), [Good EXCEPT !.whole = FALSE], Written("insitu", Spoilt)}

Load3 ==
    {[arrives |-> n, expired |-> x, probe |-> p, fetch |-> f, saved |-> s] :
        n \in 0..2, x \in BOOLEAN, p \in {"error", "nothing", "found"},
        f \in {"error", "nothing", "source"}, s \in BOOLEAN}
\* What comes after a probe that finds nothing does not matter, nor what comes after a
\* fetch that does not succeed.
Told3 == {l \in Load3 : (l.probe # "found" => l.fetch = "source") /\ (l.fetch # "source" => l.saved)
                        /\ (l.probe # "found" => l.saved)}

MCIndices ==
    {[format |-> f, source |-> s, loads |-> <<a, b, c>>] :
        f \in {"none", "insitu"}, s \in {Good} \cup BadSources,
        a \in {l \in Told3 : l.arrives = 0 /\ ~l.expired},
        b \in {l \in Told3 : l.arrives <= 1 /\ (l.expired => l.arrives = 1)},
        c \in {l \in Told3 : l.expired => l.arrives = 2}}

Filters ==
    [box : {{}} \cup {{<<lon, lat>>} : lon \in Spans, lat \in {<<0, 3>>, <<1, 1>>, <<2, 3>>}},
     time : {{}, {<<0, 1>>}, {<<1, 2>>}}, vars : {{}, {"temp"}, {"salt"}}, platforms : {{}, {"PF"}}]

MCFileLists ==
    {[format |-> s.format, source |-> s, filter |-> f, limit |-> l, kept |-> k] :
        s \in {Good, Written("insitu", Located \cup Spoilt), Written("canyon", Profiles),
               Written("paths", Paths3)},
        f \in Filters, l \in {{}, {1}}, k \in BOOLEAN}

\* "rows whose variables is None OR shares any token with requested" are kept, whether
\* the index was just fetched or is read back from its Parquet file.
\* (filter_by_variables: _index_filter.py:73; marine_list_files: cmems/tools.py:511-513)
KeptAnswersAsFresh ==
    Given("files") /\ ask.source.format = "insitu" =>
        Reply.matched = Cardinality(SoughtFiles)
=============================================================================
