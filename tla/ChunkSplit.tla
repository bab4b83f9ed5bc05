------------------------------- MODULE ChunkSplit -------------------------------
(***************************************************************************)
(* How a CDS request is split: into whole years, months or days, the       *)
(* coarsest whose every chunk costs no more than the dataset's limit, and  *)
(* first of all into single models where the dataset executes one model    *)
(* per request (backends/cds/chunking.py).                                 *)
(*                                                                         *)
(* Inputs are a function from the axes a request gives as lists to their   *)
(* values; keys with one scalar value play no part in a split and are left *)
(* out.  A list of years, months or days is the set of its entries, pairs  *)
(* of a place and the number the token there stands for: such a list may   *)
(* name a number twice, in one spelling ("2020", "2020") or two ("1",      *)
(* "01").  On other axes the set of the values will do, as the fan-out     *)
(* leaves repeated models out.  A chunk is the function of the axes it     *)
(* overrides.  A cost is a number of units, or Unknown when the            *)
(* costing endpoint fails.  The chunks of a proposal are costed one after  *)
(* the other, in the order the caller listed the values; the first cost    *)
(* that decides ends the round, so that an operator below gives the set of *)
(* the outcomes some order leads to.                                       *)
(***************************************************************************)
EXTENDS Integers, FiniteSetsExt

CONSTANTS ModelAxes,  \* axes of which the dataset executes one value per request
          Vocabulary, \* axis -> the values its dataset is known to have
          MaxChunks   \* the most chunks a plan may have

ASSUME SplitAssumption == MaxChunks \in Nat \ {0}

Unknown == -1
Junk    == -1 \* what a token stands for that is none of the calendar

Number(entry) == entry[2]

Granularities == <<"year", "month", "day">>
Levels == DOMAIN Granularities
Calendar(level) == {Granularities[i] : i \in 1..level}

----------------------------------------------------------------------------
(* The proposals.                                                          *)

Leap(y) == y % 4 = 0 /\ (y % 100 # 0 \/ y % 400 = 0)

MonthLength(y, m) ==
    CASE m = 2 -> IF Leap(y) THEN 29 ELSE 28
      [] m \in {4, 6, 9, 11} -> 30
      [] OTHER -> 31

\* Mutant of RealDay: every month is as long as the longest.
AnyDay(y, m, d) == m \in 1..12 /\ d \in 1..31

RealDay(y, m, d) == m \in 1..12 /\ d \in 1..MonthLength(y, m)

\* Whether the unit exists; of a whole year or month only its name is looked at.
RealUnit(unit) ==
    /\ DOMAIN unit # {"year"} =>
         Number(unit["year"]) # Junk /\ Number(unit["month"]) \in 1..12
    /\ "day" \in DOMAIN unit =>
         RealDay(Number(unit["year"]), Number(unit["month"]), Number(unit["day"]))

\* One value, or entry, for each of the axes.
OneOfEach(inputs, axes) ==
    {f \in [axes -> UNION {inputs[a] : a \in axes}] : \A a \in axes : f[a] \in inputs[a]}

Override(choice) == [a \in DOMAIN choice |-> {choice[a]}]

Listed(inputs, axes) == axes \subseteq {a \in DOMAIN inputs : inputs[a] # {}}

\* propose_chunks: nothing when an axis is missing, or no unit exists.  Entries are not
\* compared: two of one number give two chunks.
Proposal(inputs, level) ==
    IF Listed(inputs, Calendar(level))
    THEN {Override(u) : u \in {c \in OneOfEach(inputs, Calendar(level)) : RealUnit(c)}}
    ELSE {}

\* apply_chunk
Apply(inputs, chunk) ==
    [a \in DOMAIN chunk \cup DOMAIN inputs |-> IF a \in DOMAIN chunk THEN chunk[a] ELSE inputs[a]]

\* calendar_axes_clean
CalendarClean(inputs) ==
    \A a \in Calendar(3) \cap DOMAIN inputs : \A e \in inputs[a] : Number(e) # Junk

\* is_splittable
Splittable(inputs) ==
    /\ CalendarClean(inputs)
    /\ \E l \in Levels : Cardinality(Proposal(inputs, l)) > 1

\* propose_model_chunks
ModelOverrides(inputs) ==
    LET multi == {a \in ModelAxes \cap DOMAIN inputs : Cardinality(inputs[a]) > 1}
    IN  IF multi = {} THEN {} ELSE {Override(c) : c \in OneOfEach(inputs, multi)}

\* model_tokens_outside_vocabulary: an axis without a vocabulary knows no value.
OutsideVocabulary(overrides) ==
    \E o \in overrides : \E a \in DOMAIN o :
        a \notin DOMAIN Vocabulary \/ ~ o[a] \subseteq Vocabulary[a]

----------------------------------------------------------------------------
(* The plans.  A plan's chunks are pairs of an override and its units.     *)

Refused(reason) == [refused |-> reason, levels |-> {}, chunks |-> {}]
Planned(levels, chunks) == [refused |-> "no", levels |-> levels, chunks |-> chunks]
Priced(overrides, cost) == {[over |-> o, units |-> cost[o]] : o \in overrides}

\* The units the costing endpoint gives for the child's inputs: one for each
\* combination listed, whether or not it exists.
Units(child, weight) ==
    weight * FoldSet(LAMBDA a, product : product * Cardinality(child[a]), 1, DOMAIN child)

\* What a list holds, whatever its places and spellings.
Values(child, a) == IF a \in Calendar(3) THEN {Number(e) : e \in child[a]} ELSE child[a]

\* The costing of a child fails when it asks for nothing but a value of this set.
Fails(child, values) ==
    \E a \in DOMAIN child : child[a] # {} /\ Values(child, a) \subseteq values

\* A service's answer: a weight per combination, and what it fails on.
Cost(child, service) ==
    IF Fails(child, service.dark) THEN Unknown ELSE Units(child, service.weight)

\* What one granularity may decide: "over" and "missing" go on to a finer one.
Verdicts(inputs, limit, level, service) ==
    LET proposal == Proposal(inputs, level)
        cost == [c \in proposal |-> Cost(Apply(inputs, c), service)]
    IN  IF proposal = {} THEN {"missing"}
        ELSE IF Cardinality(proposal) > MaxChunks THEN {"too_many_chunks"}
        ELSE IF \A c \in proposal : cost[c] \in 0..limit THEN {"fits"}
        ELSE {"costing_unavailable" : c \in {c \in proposal : cost[c] = Unknown}}
             \cup {"over" : c \in {c \in proposal : cost[c] > limit}}

\* build_chunk_plan
CalendarPlans(inputs, limit, start, service) ==
    LET V == [l \in start..3 |-> Verdicts(inputs, limit, l, service)]
        Reached(l) == \A k \in start..(l - 1) : V[k] \cap {"missing", "over"} # {}
        Plan(l) == LET p == Proposal(inputs, l)
                   IN  Planned({l}, Priced(p, [c \in p |-> Cost(Apply(inputs, c), service)]))
    IN  {Plan(l) : l \in {k \in start..3 : Reached(k) /\ "fits" \in V[k]}}
        \cup {Refused(r) : r \in {"too_many_chunks", "costing_unavailable"}
                                 \cap UNION {V[k] : k \in {j \in start..3 : Reached(j)}}}
        \cup {Refused(IF \A l \in start..3 : V[l] = {"missing"}
                      THEN "not_splittable" ELSE "exceeds_at_finest") :
              all \in {k \in {4} : Reached(k)}}

\* The calendar split of one model's request that is over the limit.
SubPlans(inputs, limit, start, service) ==
    LET Mapped(p) == IF p.refused = "not_splittable" THEN Refused("exceeds_at_finest") ELSE p
    IN  IF CalendarClean(inputs)
        THEN {Mapped(p) : p \in CalendarPlans(inputs, limit, start, service)}
        ELSE {Refused("exceeds_at_finest")}

\* build_model_chunk_plan: a combination whose first costing fails is costed again,
\* unless all of them failed, by a service that by then fails on what is gone.  A
\* limit of 0 is no limit.
ModelPlans(inputs, limit, start, service, gone) ==
    LET overrides == ModelOverrides(inputs)
        first == [o \in overrides |-> Cost(Apply(inputs, o), service)]
        again == [o \in overrides |-> Cost(Apply(inputs, o), [service EXCEPT !.dark = gone])]
        over  == {o \in overrides : limit > 0 /\ first[o] > limit}
        dark  == {o \in overrides : Fails(Apply(inputs, o), service.dark)}
        subs  == [o \in over |-> SubPlans(Apply(inputs, o), limit, start, service)]
        Good(o) == {p \in subs[o] : p.refused = "no"}
        \* Sub-chunks carry both the model and the calendar override.
        inner == UNION {UNION {{[s EXCEPT !.over = Apply(s.over, o)] : s \in p.chunks} :
                               p \in Good(o)} : o \in over}
        loop  == Priced(overrides \ (over \cup dark), first) \cup inner
        levels == UNION {UNION {p.levels : p \in Good(o)} : o \in over}
        Counted(chunks) == IF Cardinality(chunks) <= MaxChunks
                           THEN Planned(levels, chunks) ELSE Refused("too_many_chunks")
        refusals == {p \in UNION {subs[o] : o \in over} : p.refused # "no"}
        ending == IF dark = overrides
                  THEN Counted(Priced(dark, [o \in dark |-> 0]))
                  ELSE IF \E o \in dark : again[o] = Unknown
                  THEN Refused("invalid_model_combination")
                  ELSE Counted(loop \cup Priced(dark, again))
    IN  refusals
        \cup (IF Cardinality(loop) > MaxChunks THEN {Refused("too_many_chunks")}
              ELSE IF \E o \in over : Good(o) = {} THEN {} ELSE {ending})
=============================================================================
