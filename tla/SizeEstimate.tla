------------------------------ MODULE SizeEstimate ------------------------------
(***************************************************************************)
(* How large the result of a CDS request is said to be, from the sizes of  *)
(* earlier downloads and a bundled seed (backends/cds/estimator.py,        *)
(* calibration.py, costing.py; CdsBackend.estimate and                     *)
(* _record_size_observation).                                              *)
(*                                                                         *)
(* A request has a signature (what decides how many bytes a cost unit      *)
(* takes), a number of fields, and an area in percent of the globe.  An    *)
(* observation is one finished download; its units are Unsaid when the    *)
(* process that ordered it restarted since.  The code divides as floats;   *)
(* here bytes per unit are rounded down, which never leaves the range of   *)
(* the values that are averaged.                                           *)
(***************************************************************************)
EXTENDS Integers, Sequences, FiniteSets, SequencesExt, Sorted

CONSTANT Seed \* signature -> [bpu, n]: bundled bytes per unit, and its observations

ASSUME SeedAssumption == \A s \in DOMAIN Seed : Seed[s].bpu \in Nat /\ Seed[s].n \in Nat

Unsaid == -1
MinLocal == 3   \* local observations that make the seed redundant
Light == 100    \* fewer fields than this wait in the light queue
Medium == 10000 \* up to this many in the medium one

----------------------------------------------------------------------------
\* fetch_costing: an answer that is no finite number, or has no limit, is none.
Costing(reply) ==
    IF reply.units >= 0 /\ reply.limit > 0 THEN reply.units ELSE Unsaid

\* _record_size_observation: nothing is kept of a request without area or cost.
Observed(request, units, size, at) ==
    IF request.area = 0 \/ units = 0 THEN {}
    ELSE {[sig |-> request.sig, units |-> units, area |-> request.area,
           size |-> size, at |-> at]}

Eligible(o) == o.units > 0 /\ o.area > 0

BytesPerUnit(o) == (o.size * 100) \div (o.units * o.area)

\* Oldest first, whatever the order the rows were read in.
ByAge(rows) == InOrder(rows, LAMBDA o, p : o.at < p.at)

\* _ewma, seeded with the oldest value.
Average(values) ==
    LET ewma[i \in DOMAIN values] ==
            IF i = 1 THEN values[1] ELSE (3 * values[i] + 7 * ewma[i - 1]) \div 10
    IN  ewma[Len(values)]

Median(values) ==
    LET s == SortSeq(values, LAMBDA a, b : a < b)
        h == Len(s) \div 2
    IN  IF Len(s) % 2 = 1 THEN s[h + 1] ELSE (s[h] + s[h + 1]) \div 2

Resolved(bpu, n, source) == [bpu |-> bpu, n |-> n, source |-> source]
Unresolved == Resolved(0, 0, "none")

\* Mutant of Resolve: the observations of every signature of the dataset count, and
\* one of them is enough to leave the seed out.
ResolveByDataset(rows, sig) ==
    LET mine == ByAge({o \in rows : Eligible(o)})
    IN  IF mine = <<>>
        THEN IF sig \in DOMAIN Seed THEN Resolved(Seed[sig].bpu, 0, "seed") ELSE Unresolved
        ELSE Resolved(Average([i \in DOMAIN mine |-> BytesPerUnit(mine[i])]),
                      Len(mine), "local")

\* CalibrationLookup.resolve
Resolve(rows, sig) ==
    LET usable == {o \in rows : Eligible(o)}
        Of(s)  == LET q == ByAge(s) IN [i \in DOMAIN q |-> BytesPerUnit(q[i])]
        mine   == Of({o \in usable : o.sig = sig})
        n      == Len(mine)
        seed   == Seed[sig]
        weight == IF seed.n < MinLocal THEN seed.n ELSE MinLocal
    IN  IF n >= MinLocal \/ (n > 0 /\ sig \notin DOMAIN Seed)
        THEN Resolved(Average(mine), n, "local")
        ELSE IF n > 0
        THEN Resolved((Average(mine) * n + seed.bpu * weight) \div (n + weight), n, "local")
        ELSE IF sig \in DOMAIN Seed
        THEN Resolved(seed.bpu, 0, "seed")
        ELSE IF Cardinality(usable) >= 3
        THEN Resolved(Median(Of(usable)), 0, "median")
        ELSE Unresolved

Tier(fields) == IF fields < Light THEN "light" ELSE IF fields <= Medium THEN "medium" ELSE "heavy"

\* estimate: the server's units if it gave any, and a size only if there is a local
\* observation of this signature, or a seed for it.
Estimate(request, rows, reply) ==
    LET units == Costing(reply)
        basis == IF units = Unsaid THEN request.fields ELSE units
        r     == Resolve(rows, request.sig)
        shown == r.n > 0 \/ r.source = "seed"
    IN  [size  |-> IF shown THEN (basis * r.bpu * request.area) \div 100 ELSE Unsaid,
         word  |-> IF ~shown THEN "unknown" ELSE IF r.n > 0 THEN "calibrated" ELSE "approximate",
         n     |-> IF shown THEN r.n ELSE 0,
         bpu   |-> r.bpu,
         tier  |-> Tier(basis),
         exceeds |-> units # Unsaid /\ units > reply.limit]
=============================================================================
