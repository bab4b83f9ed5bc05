-------------------------------- MODULE Answers --------------------------------
(***************************************************************************)
(* The questions the server answers out of what it has at hand or fetches  *)
(* and keeps: how a request is split, how large its result will            *)
(* be, which datasets lie where the caller looks, what has become of a     *)
(* chunked parent, how the state database is opened, what comes back of a  *)
(* tool call whatever its backend does, and which files a dataset has.     *)
(*                                                                         *)
(* Each behaviour is one question and its answer; the questions are those  *)
(* of a set the instance gives.                                            *)
(***************************************************************************)
EXTENDS ChunkSplit, SizeEstimate, MarineSearch, ParentView, OpenStore, Calls,
        MarineIndex

CONSTANTS Splits,   \* records of inputs, limit, start, weight, dark, gone
          Sizes,    \* records of past, request, reply
          Queries,  \* sets of phrases
          Finds,    \* records of query, top, asked, boxes, times
          Covers,   \* records of box, extents
          Parents,  \* records of chunks, stopped, repair, lost
          Openings, \* records of mounts, resolved, literal, situation
          ToolCalls, \* records of enabled, places, fault, call
          Listings, \* records of rows, statuses, after, limit
          Indices,  \* records of format, source, loads
          FileLists, \* records of format, source, filter, limit, kept
          LastDay,  \* <<year, month>> -> its last day: the calendar
          Reach     \* the largest longitude, latitude and instant of a catalogue

----------------------------------------------------------------------------
(* The questions the theorems are about.                                   *)

\* The lists of a request are finite, and the calendar has its years; no axis of models
\* is one of the calendar's.
ASSUME SplitsAssumption ==
    /\ \A u \in DOMAIN LastDay : LastDay[u] = MonthLength(u[1], u[2])
    /\ ModelAxes \cap Calendar(3) = {}
    /\ \A q \in Splits :
         /\ q.inputs = [a \in DOMAIN q.inputs |-> q.inputs[a]]
         /\ \A a \in DOMAIN q.inputs : IsFiniteSet(q.inputs[a])
         /\ Calendar(2) \subseteq DOMAIN q.inputs =>
              \A y \in q.inputs["year"], m \in q.inputs["month"] :
                 Number(y) # Junk /\ Number(m) \in 1..12 =>
                    <<Number(y), Number(m)>> \in DOMAIN LastDay
         /\ q.limit \in Nat /\ q.start \in Levels

ASSUME SizesAssumption ==
    \A q \in Sizes :
        /\ q.past \in Seq([sig : STRING, area : Nat, units : Int, size : Nat])
        /\ q.request.area \in Nat /\ q.request.fields \in Nat
        /\ q.reply.units \in Int /\ q.reply.limit \in Int

Ends == (0..Reach) \X (0..Reach)
Boxes == {b \in Ends \X Ends : ValidBox(b)}
Phrases == {S \in SUBSET STRING : IsFiniteSet(S)}

\* Every group names a product there is, and every dataset belongs to one; the bundled
\* extents are boxes, while a dataset may end before it starts.
ASSUME CatalogueAssumption ==
    /\ Reach \in Nat
    /\ Groups \in Seq([id : STRING, include : Phrases, exclude : Phrases, title : Phrases,
                       summary : Phrases, products : SUBSET STRING])
    /\ Products \in Seq([id : STRING, title : Phrases, summary : Phrases, variables : Phrases])
    /\ Cards \in Seq([product : STRING, title : Phrases, description : Phrases,
                      variables : Phrases, box : SUBSET Boxes, time : SUBSET Ends])
    /\ \A g \in DOMAIN Groups : \E p \in DOMAIN Products : Products[p].id \in Groups[g].products
    /\ \A c \in DOMAIN Cards :
         /\ \E p \in DOMAIN Products : Products[p].id = Cards[c].product
         /\ \A d, e \in Cards[c].box : d = e

ASSUME FindsAssumption ==
    /\ \A q \in Finds :
         /\ q.top \in Nat /\ q.asked \in Seq(DOMAIN Products)
         /\ q.boxes \subseteq Ends \X Ends /\ q.times \subseteq Ends
    /\ \A q \in Covers : q.box \in Boxes /\ q.extents \subseteq Boxes

\* A parent has chunks.
ASSUME ParentsAssumption ==
    \A q \in Parents : q.chunks \in Seq(Chunk) \ {<<>>} /\ q.stopped \in BOOLEAN

\* A path that can be resolved is resolved to one path.
ASSUME OpeningsAssumption ==
    \A q \in Openings :
        /\ \A m \in q.mounts : m.point \in Seq(STRING) /\ m.network \in BOOLEAN
        /\ q.resolved \subseteq Seq(STRING) /\ \A p, r \in q.resolved : p = r
        /\ q.literal \in Seq(STRING)
        /\ q.situation \in Situation

\* "unexpected" is not a name a backend has for an error.
ASSUME ToolCallsAssumption ==
    \A q \in ToolCalls :
        /\ q.places \in [Sources -> SUBSET STRING] /\ q.fault \in Faults
        /\ q.call.backend \in Backends
        /\ q.call.outcome.kind = "group" =>
             q.call.outcome.leaves \in Phrases /\ "unexpected" \notin q.call.outcome.leaves

ASSUME ListingsAssumption ==
    \A q \in Listings :
        /\ q.rows \in Seq([status : STRING, created : Int])
        /\ q.statuses \subseteq STRING /\ q.after \subseteq Int /\ q.limit \in Int

\* A load sees what was there when it arrived; only one that found nobody at the lock
\* meets a record that is out of date.
ASSUME IndicesAssumption ==
    \A q \in Indices :
        q.loads \in Seq([arrives : Nat, expired : BOOLEAN, probe : {"error", "nothing", "found"},
                        fetch : {"error", "nothing", "source"}, saved : BOOLEAN])
        /\ \A i \in DOMAIN q.loads : q.loads[i].arrives < i

OnEarth(box) ==
    /\ box[1] \in (Longitudes[1]..Longitudes[2]) \X (Longitudes[1]..Longitudes[2])
    /\ Inside(box[2], Latitudes)

\* A row has at most one box and one time.  A file is one row of its source, except
\* among observations, whose format has no platforms; the regions of a listing of paths
\* are legal.  The caller's filter is validated.
ASSUME FileListsAssumption ==
    \A q \in FileLists :
        /\ IsFiniteSet(q.source.rows)
        /\ \A r \in q.source.rows :
             /\ r.file \in Int
             /\ r.box \subseteq (Int \X Int) \X (Int \X Int) /\ \A b, c \in r.box : b = c
             /\ r.time \subseteq Int \X Int /\ \A t, u \in r.time : t = u
             /\ q.format = "canyon" => r.platform = {}
             /\ q.format = "paths" /\ r.ours =>
                  \A b \in r.box, t \in r.time : Legal([box |-> b, time |-> t])
        /\ q.format # "canyon" => \A r, s \in q.source.rows : r.file = s.file => r = s
        /\ q.filter.box \subseteq (Int \X Int) \X (Int \X Int) /\ \A b \in q.filter.box : OnEarth(b)
        /\ q.filter.time \subseteq Int \X Int /\ \A t \in q.filter.time : t[1] <= t[2]
        /\ q.limit \subseteq Nat \ {0} /\ \A l, m \in q.limit : l = m
        /\ q.kept \in BOOLEAN

----------------------------------------------------------------------------
VARIABLES kind,  \* what is asked
          ask,   \* the question
          answer \* <<>>, or the one answer

vars == <<kind, ask, answer>>

Init ==
    /\ answer = <<>>
    /\ \/ kind = "split"  /\ ask \in Splits
       \/ kind = "size"   /\ ask \in Sizes
       \/ kind = "groups" /\ ask \in [query : Queries]
       \/ kind = "cards"  /\ ask \in Finds
       \/ kind = "cover"  /\ ask \in Covers
       \/ kind = "parent" /\ ask \in Parents
       \/ kind = "fetch"  /\ ask \in Parents
       \/ kind = "open"   /\ ask \in Openings
       \/ kind = "call"   /\ ask \in ToolCalls
       \/ kind = "jobs"   /\ ask \in Listings
       \/ kind = "index"  /\ ask \in Indices
       \/ kind = "files"  /\ ask \in FileLists

Asked(k) == kind = k /\ answer = <<>> /\ UNCHANGED <<kind, ask>>

\* submit: models first, and only within the dataset's vocabulary; without models
\* only what the calendar can split.
Plans(s) ==
    LET service == [weight |-> s.weight, dark |-> s.dark]
    IN  IF ModelOverrides(s.inputs) # {}
        THEN IF OutsideVocabulary(ModelOverrides(s.inputs))
             THEN {Refused("vocabulary")}
             ELSE ModelPlans(s.inputs, s.limit, s.start, service, s.gone)
        ELSE IF ~Splittable(s.inputs)
        THEN {Refused("not_splittable")}
        ELSE CalendarPlans(s.inputs, s.limit, s.start, service)

AnswerSplit == Asked("split") /\ \E p \in Plans(ask) : answer' = <<p>>

\* The rows of the earlier downloads, in the order they were made.
Rows(past) ==
    UNION {Observed([sig |-> past[i].sig, area |-> past[i].area], past[i].units,
                    past[i].size, i) : i \in DOMAIN past}

AnswerSize ==
    Asked("size") /\ answer' = <<Estimate(ask.request, Rows(ask.past), ask.reply)>>

\* The caller goes on to the products of the groups it was shown.
AnswerGroups ==
    /\ Asked("groups")
    /\ LET groups == SearchGroups(ask.query, TopGroups)
       IN  answer' = <<[groups   |-> groups,
                        products |-> SearchProducts(groups.selected, ask.query, TopProducts)]>>

AnswerCards ==
    /\ Asked("cards")
    /\ answer' = <<SearchInProducts(ask.asked, ask.query, ask.top, ask.boxes, ask.times)>>

AnswerCover == Asked("cover") /\ answer' = <<Coverage(ask.box, Enclosing(ask.extents))>>

AnswerParent ==
    Asked("parent") /\ answer' = <<View(ask.chunks, Aggregate(ask.chunks, ask.stopped))>>

AnswerFetch ==
    /\ Asked("fetch")
    /\ answer' = <<Fetch(ask.chunks, Aggregate(ask.chunks, ask.stopped), ask.repair, ask.lost)>>

AnswerOpen ==
    /\ Asked("open")
    /\ answer' = <<Open(IsNetwork(ask.mounts, ask.resolved, ask.literal), ask.situation)>>

\* A server that does not start answers nothing.
AnswerCall ==
    /\ Asked("call")
    /\ Starts(ask.enabled, ask.places, ask.fault)
    /\ answer' = <<Run(ask.enabled, ask.places, ask.fault, ask.call)>>

AnswerJobs ==
    /\ Asked("jobs")
    /\ answer' = <<ListJobs(ask.rows, ask.statuses, ask.after, ask.limit)>>

AnswerIndex ==
    Asked("index") /\ answer' = <<Loads(ask.format, ask.loads, ask.source)>>

\* An index that was kept is read back; one that cannot be read lists nothing.
AnswerFiles ==
    /\ Asked("files")
    /\ \E index \in Parse(ask.format, ask.source) :
          answer' = <<Listing(IF ask.kept THEN FromParquet(index) ELSE index, ask.filter, ask.limit)>>

Next == \/ AnswerSplit  \/ AnswerSize   \/ AnswerGroups \/ AnswerCards
        \/ AnswerCover  \/ AnswerParent \/ AnswerFetch  \/ AnswerOpen
        \/ AnswerCall   \/ AnswerJobs   \/ AnswerIndex  \/ AnswerFiles

Spec == Init /\ [][Next]_vars

----------------------------------------------------------------------------
Given(k) == kind = k /\ answer # <<>>
Reply == answer[1]

----------------------------------------------------------------------------
(* What must be true of splits.                                            *)

\* What a request or a child of it lists: the combinations that exist.
Exists(cell) ==
    /\ "month" \in DOMAIN cell => Number(cell["month"]) \in 1..12
    /\ Calendar(3) \subseteq DOMAIN cell =>
         LET month == <<Number(cell["year"]), Number(cell["month"])>>
         IN  month \in DOMAIN LastDay /\ Number(cell["day"]) \in 1..LastDay[month]
Asks(inputs) == {cell \in OneOfEach(inputs, DOMAIN inputs) : Exists(cell)}
Child(chunk) == Apply(ask.inputs, chunk.over)

\* What comes of it: the models, years, months and days meant, however often listed.
Meant(cell) == [a \in DOMAIN cell |-> IF a \in Calendar(3) THEN Number(cell[a]) ELSE cell[a]]
Wants(inputs) == {Meant(cell) : cell \in Asks(inputs)}

\* Two chunks go back to two entries of the request that mean the same.
ListedTwice(c, d) ==
    \E a \in Calendar(3) \cap DOMAIN c.over \cap DOMAIN d.over :
       \E e, f \in ask.inputs[a] :
          c.over[a] = {e} /\ d.over[a] = {f} /\ e # f /\ Number(e) = Number(f)

\* The request narrowed to the models of one chunk.
OfModels(chunk) ==
    [a \in DOMAIN ask.inputs |-> IF a \in ModelAxes THEN Child(chunk)[a] ELSE ask.inputs[a]]

\* A plan orders exactly what was asked for, and nothing twice but what the request lists
\* twice.  A child is for one model; none is known to be over the limit, unless its first
\* costing failed; a day nobody can deliver is not ordered; and where a plan of whole units
\* of a coarser kind would have fitted for a child's models, that one is taken.  A limit of
\* 0 is none.
\* (build_chunk_plan, build_model_chunk_plan: chunking.py:354, 402)
SplitIsExact ==
    Given("split") /\ Reply.refused = "no" =>
        /\ UNION {Wants(Child(c)) : c \in Reply.chunks} = Wants(ask.inputs)
        /\ \A c, d \in Reply.chunks :
             c # d => Wants(Child(c)) \cap Wants(Child(d)) = {} \/ ListedTwice(c, d)
        /\ Cardinality(Reply.chunks) <= MaxChunks
        /\ \A c \in Reply.chunks :
             /\ \A a \in ModelAxes \cap DOMAIN ask.inputs :
                  ask.inputs[a] # {} => Cardinality(Child(c)[a]) = 1
             /\ ask.limit > 0 /\ c.units > ask.limit => Fails(Child(c), ask.dark)
             /\ "day" \in DOMAIN c.over /\ (\A a \in DOMAIN ask.inputs : ask.inputs[a] # {})
                  => Wants(Child(c)) # {}
             /\ \A l \in ask.start..3 : Calendar(l) \subseteq DOMAIN c.over =>
                  \A k \in ask.start..(l - 1) :
                     Proposal(OfModels(c), k) = {}
                     \/ \E o \in Proposal(OfModels(c), k) :
                           Units(Apply(OfModels(c), o), ask.weight) > ask.limit

----------------------------------------------------------------------------
(* What must be true of sizes.  The bytes per unit of a download are        *)
(* rounded down.                                                           *)

\* The downloads that tell something of the question: those of its own signature
\* whose cost and area are known.
Telling == {i \in DOMAIN ask.past : LET d == ask.past[i]
                                    IN  d.sig = ask.request.sig /\ d.units > 0 /\ d.area > 0}
Rates == {(ask.past[i].size * 100) \div (ask.past[i].units * ask.past[i].area) : i \in Telling}
Known == Rates \cup (IF ask.request.sig \in DOMAIN Seed /\ Cardinality(Telling) < MinLocal
                     THEN {Seed[ask.request.sig].bpu} ELSE {})

\* A size is only shown where a download of the same signature, or a bundled value,
\* bears it out: it is called calibrated exactly when there was such a download, names
\* their number, and never goes beyond the values it comes from.
\* (CalibrationLookup.resolve, estimate: calibration.py, estimator.py)
SizeIsGrounded ==
    Given("size") =>
        LET basis == IF ask.reply.units >= 0 /\ ask.reply.limit > 0
                     THEN ask.reply.units ELSE ask.request.fields
            Sized(bpu) == (basis * bpu * ask.request.area) \div 100
        IN  /\ Reply.word = (IF Telling # {} THEN "calibrated"
                             ELSE IF Known # {} THEN "approximate" ELSE "unknown")
            /\ Reply.n = Cardinality(Telling)
            /\ Reply.size = Unsaid <=> Known = {}
            /\ Known # {} =>
                 /\ \E k \in Known : Sized(k) <= Reply.size
                 /\ \E k \in Known : Sized(k) >= Reply.size

----------------------------------------------------------------------------
(* What must be true of finding.                                           *)

\* The points of a box, or of an instant span.
Points(box) == {p \in (0..Reach) \X (0..Reach) :
                   /\ box[1][1] <= p[1] /\ p[1] <= box[1][2]
                   /\ box[2][1] <= p[2] /\ p[2] <= box[2][2]}
Instants(span) == {t \in 0..Reach : span[1] <= t /\ t <= span[2]}

Shares(c) ==
    /\ \A b \in ask.boxes : \E e \in Cards[c].box : Points(e) \cap Points(b) # {}
    /\ \A t \in ask.times : \E e \in Cards[c].time : Instants(e) \cap Instants(t) # {}
    /\ ask.asked # <<>> => \E i \in DOMAIN ask.asked :
                               Products[ask.asked[i]].id = Cards[c].product

\* A dataset is shown only if it has a point and an instant in common with what the
\* caller looks for, and one that has is left out only for better ones; an answer that
\* is called sure leaves none out.  The coverage told of a request agrees with the
\* points of the two boxes, so that no dataset that is shown is called disjoint.
\* (_search_in_products, search_datasets_in_products, _build_coverage_advisory)
FoundIffInside ==
    /\ Given("cards") /\ Reply.confidence # "refused" =>
         LET shown == {Reply.selected[i] : i \in DOMAIN Reply.selected}
             fits  == {c \in DOMAIN Cards : Shares(c)}
         IN  /\ shown \subseteq fits
             /\ \A c \in fits \ shown :
                  /\ Len(Reply.selected) \in {ask.top, MaxCards}
                  /\ Reply.confidence # "high"
                  /\ \A d \in shown : CardScore(Cards[d], ask.query) >= CardScore(Cards[c], ask.query)
             /\ \A c \in shown, b \in ask.boxes : Coverage(b, Cards[c].box) # "disjoint"
    /\ Given("cover") =>
         LET whole == UNION {Points(e) : e \in Enclosing(ask.extents)}
             mine  == Points(ask.box)
         IN  /\ Reply = "disjoint" <=> ask.extents # {} /\ mine \cap whole = {}
             /\ Reply = "none" <=> ask.extents = {} \/ mine = whole
             /\ Reply = "inside" <=> mine \subseteq whole /\ mine # whole
             /\ \A e \in ask.extents : Points(e) \subseteq whole
    /\ Given("groups") =>
         LET groups == Reply.groups.selected
             found  == Reply.products.selected
         IN  /\ \A g \in DOMAIN Groups : (\E i \in DOMAIN groups : groups[i] = g)
                                         => g \notin Reply.groups.rejected
             /\ groups # <<>> => found # <<>>
             /\ \A i \in DOMAIN found : \E j \in DOMAIN groups :
                   Products[found[i]].id \in Groups[groups[j]].products

----------------------------------------------------------------------------
(* What must be true of chunked parents.                                   *)

StatusNow == Aggregate(ask.chunks, ask.stopped)

Total(n) == n["successful"] + n["failed"] + n["cancelled"] + n["running"]
            + n["downloading"] + n["retrying"] + n["queued"]

\* The counts a caller is shown add up to the chunks and agree with the status: all
\* delivered exactly under a successful parent, some chunk lost under a failed one, no
\* retry announced by a parent that will run none.  The parent is said to be
\* downloading only when nothing but local transfers is left, and a result is called
\* complete only when the file of every chunk is there.
\* (_chunk_parent_response, _fetch_chunk_parent_result, compute_parent_status)
ParentTellsWhole ==
    /\ Given("parent") =>
         /\ Total(Reply.counts) = Len(ask.chunks)
         /\ Reply.status = "successful"
              <=> ~ask.stopped /\ Reply.counts["successful"] = Len(ask.chunks)
         /\ Reply.status = "failed" => Reply.counts["failed"] + Reply.counts["cancelled"] > 0
         /\ Reply.status \in Terminal => Reply.counts["retrying"] = 0
         /\ Reply.promoted =>
              \A i \in DOMAIN ask.chunks :
                 \/ ask.chunks[i].row = "successful"
                 \/ ask.chunks[i].row \notin Terminal /\ ask.chunks[i].phase = "downloading"
         /\ Reply.complete => \A i \in DOMAIN ask.chunks : ask.chunks[i].cached
    /\ Given("fetch") =>
         /\ Reply.answer = "complete" =>
              \A i \in DOMAIN ask.chunks :
                 /\ ask.chunks[i].row = "successful"
                 /\ ask.chunks[i].cached \/ ask.repair[i] = "back"
         /\ Reply.answer = "order again" => \E i \in DOMAIN ask.chunks : ask.repair[i] = "expired"
         /\ (\A i \in DOMAIN ask.chunks : ask.chunks[i].cached) /\ StatusNow = "successful"
              => Reply.answer = "complete"

----------------------------------------------------------------------------
(* What must be true of opening the store.                                 *)

\* Where the path really lies on a network file system, below a mount of its own.
OnNetwork ==
    \E p \in ask.resolved : \E m \in ask.mounts :
        /\ m.network /\ m.point # <<>> /\ IsPrefix(m.point, p)
        /\ \A n \in ask.mounts : IsPrefix(n.point, p) => Len(n.point) <= Len(m.point)

\* A start makes at most four bounded attempts and never gives up before a last one
\* without a log; the log of a database on a network file system is never used; only
\* logs nobody wrote to for long are moved aside, and never one that is being written;
\* and where nobody holds the database and no attempt is slow, it fails only on a
\* young log.
\* (SqliteBackend.initialise, is_network_filesystem)
StoreOpens ==
    Given("open") =>
        LET s == ask.situation
        IN  /\ Len(Reply.tried) \in 1..4
            /\ OnNetwork => Reply.mode # "WAL" /\ Reply.tried[1] = "DELETE"
            /\ Reply.heals <= 1
            /\ Reply.heals > 0 => s.wal = "stale" /\ s.holder # "writing"
            /\ Reply.mode = "unavailable" =>
                 /\ Last(Reply.tried) = "DELETE"
                 /\ s.slow # {} \/ s.holder # "none" \/ (s.wal = "fresh" /\ "DELETE" \in s.wedged)

----------------------------------------------------------------------------
(* What must be true of calls.                                             *)

\* The account of a backend is used whole or not at all, and comes from the first place
\* that has it whole.  A tool that is offered belongs to a backend that answers, and one
\* of the CDS never asks for an account the server could not find.  Whatever a backend
\* raises, the one error it has a name for reaches the caller.  A listing of jobs leaves
\* out none that is newer than one it shows, and no job at all unless it is full.
\* (CredentialResolver.resolve, build_server, WorkflowOrchestrator.run, list_workflows)
CallIsTold ==
    /\ Given("call") =>
         LET c == ask.call
             used == Credentials(c.backend, ask.places, ask.fault)
             Has(s) == Needed[c.backend] \subseteq ask.places[s]
         IN  /\ used.fields # {} =>
                  /\ Needed[c.backend] \subseteq used.fields
                  /\ used.fields \subseteq ask.places[used.source]
                  /\ used.source = "config_file" => ~Has("env") /\ ~Has("explicit")
             /\ Has("env") => used.fields # {}
             /\ c.backend \in Advertised(ask.enabled, ask.places, ask.fault) /\ c.backend = "cds"
                  /\ Reply.value \in {"not_configured", "auth"} => Reply = Envelope(c.outcome)
             /\ Reply.key = "result" => c.outcome.kind = "result"
             /\ (c.outcome.kind = "group" /\ Reply.value \in {"network", "quota", "unexpected"})
                  => (Reply.value = "unexpected" <=> Cardinality(c.outcome.leaves) # 1)
    /\ Given("jobs") /\ Reply.key = "result" =>
         LET shown == ToSet(Reply.value)
             asked == {i \in DOMAIN ask.rows :
                         /\ ask.statuses # {} => ask.rows[i].status \in ask.statuses
                         /\ \A t \in ask.after : ask.rows[i].created > t}
         IN  /\ shown \subseteq asked
             /\ shown # asked => Len(Reply.value) \in {1, ask.limit, MaxListed}
             /\ \A i \in shown, j \in asked \ shown :
                   ask.rows[j].created <= ask.rows[i].created

----------------------------------------------------------------------------
(* What must be true of indices and listings.                              *)

\* The points of a span, and the longitudes a box asks for, all the way round.
Span(s) == s[1]..s[2]
Round(lon) == IF lon[1] <= lon[2] THEN Span(lon)
              ELSE Span(<<lon[1], Longitudes[2]>>) \cup Span(<<Longitudes[1], lon[2]>>)

\* Whether a source row is one the caller looks for: a row of a file that is legal
\* throughout.  A file that names no variable may have any.
Sought(r) ==
    LET rows == Readable(ask.source.rows)
        mine == {q \in rows : q.file = r.file}
        filter == ask.filter
    IN  /\ r \in rows
        /\ ask.format = "paths" => r.ours
        /\ \A q \in mine : \A b \in q.box, t \in q.time : Legal([box |-> b, time |-> t])
        /\ \A b \in filter.box, c \in r.box :
             Round(b[1]) \cap Span(c[1]) # {} /\ Span(b[2]) \cap Span(c[2]) # {}
        /\ \A t \in filter.time, u \in r.time : Span(t) \cap Span(u) # {}
        /\ filter.vars # {} => filter.vars \cap r.vars # {} \/ \A q \in mine : q.vars = {}
        /\ filter.platforms # {} => r.platform # {} /\ r.platform \subseteq filter.platforms

SoughtFiles == {r.file : r \in {q \in ask.source.rows : Sought(q)}}

\* Among the calls for a dataset's index, nothing is fetched any more once one of them
\* has stored it, and what is read then is what that one was told; the service is never
\* probed for a dataset whose format is known, nor by a call that arrives after a probe
\* has found nothing and before the record of it is out of date.  A listing shows every
\* file with what the caller looks for, of the row it comes from or of an observation in
\* it, and where a file is one row no other; one that is cut short says so.
\* (IndexStore.load, IndexRegistry.discover, apply_filters, list_files)
ListingIsExact ==
    /\ Given("index") =>
         LET Stored(i) == Reply.after[i].cache
             Nothing(i) == Reply.told[i].probed /\ Reply.told[i].mode = "missing"
         IN  \A i \in DOMAIN ask.loads :
               LET load == ask.loads[i]
                   told == Reply.told[i]
               IN  /\ Stored(i - 1) # {} =>
                        ~told.fetched /\ ~told.probed /\ Stored(i) = Stored(i - 1)
                   /\ Stored(load.arrives) # {} => told = Offline
                   /\ told.mode = "fresh" <=> Stored(i - 1) = {} /\ Stored(i) # {}
                   /\ told.mode = "offline" => \E j \in 1..(i - 1) : Reply.told[j].mode = "fresh"
                   /\ told.probed => Reply.after[i - 1].format = "none"
                   /\ \A j \in 1..load.arrives :
                        Nothing(j) /\ (\A k \in (j + 1)..i : ~ask.loads[k].expired) => ~told.probed
    /\ Given("files") /\ (ask.kept => ask.filter.vars = {}) =>
         LET shown == ToSet(Reply.files)
         IN  /\ ask.format # "canyon" =>
                  /\ \A r \in shown : r.file \in SoughtFiles
                  /\ Reply.matched = Cardinality(SoughtFiles)
             /\ Reply.matched >= Cardinality(SoughtFiles)
             /\ \A f \in SoughtFiles : \/ \E r \in shown : r.file = f
                                       \/ Reply.truncated /\ \A r \in shown : r.file < f
             /\ Reply.truncated <=> Len(Reply.files) < Reply.matched
=============================================================================
