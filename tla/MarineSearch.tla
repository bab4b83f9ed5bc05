------------------------------ MODULE MarineSearch ------------------------------
(***************************************************************************)
(* Finding a CMEMS dataset in the bundled catalogue, from groups over      *)
(* products to dataset cards, and telling how a request's box lies to the  *)
(* extent of the dataset (backends/cmems/routing.py; _search_in_products,  *)
(* _build_coverage_advisory and their helpers in backends/cmems/backend.py)*)
(*                                                                         *)
(* A query is the set of the phrases it mentions, {} for none.  Groups,    *)
(* Products and Cards are sequences of records, in the order of their      *)
(* bundled files, which is that of their ids.  A span is a pair of ends, a *)
(* box a pair of spans (longitude, latitude), an extent a set with at most *)
(* one box or span: what is missing or malformed is the empty set.  Scores *)
(* are doubled, so that they are whole numbers.                            *)
(***************************************************************************)
EXTENDS Integers, Sequences, FiniteSets, SequencesExt, Sorted

CONSTANTS Groups,   \* records of id, include, exclude, title, summary, products
          Products, \* records of id, title, summary, variables
          Cards,    \* records of id, product, title, description, variables,
                    \* box, time
          TopGroups, TopProducts, MaxCards \* the default and the largest counts

ASSUME SearchAssumption == {TopGroups, TopProducts, MaxCards} \subseteq Nat \ {0}

Include == 4
Exclude == 6
Title   == 2
Summary == 1
High    == 8
Mid     == 3

----------------------------------------------------------------------------
Hits(phrases, query) == Cardinality(phrases \cap query)
Once(phrases, query) == IF phrases \cap query = {} THEN 0 ELSE 1

GroupScore(g, query) ==
    Include * Hits(g.include, query) - Exclude * Hits(g.exclude, query)
    + Title * Once(g.title, query) + Summary * Once(g.summary, query)

ProductScore(p, query) ==
    Title * Hits(p.title, query) + Summary * Hits(p.summary, query)
    + Include * Hits(p.variables, query)

CardScore(c, query) ==
    Title * (Once(c.title, query) + Once(c.description, query))
    + Include * Hits(c.variables, query)

Confidence(score) ==
    IF score >= High THEN "high" ELSE IF score >= Mid THEN "medium" ELSE "low"

\* The indices of S, best score first, then best rank, then in the bundled order.
Ranked(S, score, rank) ==
    InOrder(S, LAMBDA i, j :
        \/ score[i] > score[j]
        \/ score[i] = score[j] /\ rank[i] > rank[j]
        \/ score[i] = score[j] /\ rank[i] = rank[j] /\ i < j)

First(n, s) == SubSeq(s, 1, IF n < Len(s) THEN n ELSE Len(s))

\* search_groups: what scores nothing is neither selected nor rejected.
SearchGroups(query, top) ==
    LET score == [i \in DOMAIN Groups |-> GroupScore(Groups[i], query)]
        order == Ranked({i \in DOMAIN Groups : score[i] > 0}, score, score)
    IN  [selected   |-> First(top, order),
         rejected   |-> {i \in DOMAIN Groups : score[i] < 0},
         confidence |-> Confidence(IF order = <<>> THEN 0 ELSE score[order[1]])]

\* search_products: a product's rank adds up over the asked groups that name it, the
\* first of n weighing n and the last 1, as many as there are groups from it on; names
\* of unknown groups and products are skipped.
SearchProducts(asked, query, top) ==
    LET n == Len(asked)
        Naming(p) == {i \in 1..n : asked[i] \in DOMAIN Groups
                                   /\ Products[p].id \in Groups[asked[i]].products}
        pool  == {p \in DOMAIN Products : Naming(p) # {}}
        rank  == [p \in pool |-> Cardinality({w \in Naming(p) \X (1..n) : w[1] <= w[2]})]
        score == [p \in pool |-> ProductScore(Products[p], query)]
        order == Ranked(pool, score, rank)
    IN  [selected   |-> First(top, order),
         rejected   |-> {i \in 1..n : asked[i] \notin DOMAIN Groups},
         confidence |-> IF order = <<>> THEN "low"
                        ELSE IF score[order[1]] >= High THEN "high" ELSE "medium"]

----------------------------------------------------------------------------
(* Boxes.                                                                  *)

\* Mutant of Meet: spans that only touch do not overlap.
MeetInside(s, t) == s[1] < t[2] /\ s[2] > t[1]

Meet(s, t) == s[1] <= t[2] /\ s[2] >= t[1]

\* _spatial_overlaps
BoxOverlaps(extent, box) ==
    \E e \in extent : Meet(e[1], box[1]) /\ Meet(e[2], box[2])

\* _temporal_overlaps: an extent that ends before it starts is none.
TimeOverlaps(extent, time) == \E e \in extent : e[1] <= e[2] /\ Meet(e, time)

\* _validate_bbox and _validate_time_range: a box may be a point, a time may not.
ValidBox(box)   == box[1][1] <= box[1][2] /\ box[2][1] <= box[2][2]
ValidTime(time) == time[1] < time[2]

\* _union_bboxes
Enclosing(boxes) ==
    LET Low(S)  == CHOOSE x \in S : \A y \in S : x <= y
        Top(S)  == CHOOSE x \in S : \A y \in S : x >= y
        Span(k) == <<Low({b[k][1] : b \in boxes}), Top({b[k][2] : b \in boxes})>>
    IN  IF boxes = {} THEN {} ELSE {<<Span(1), Span(2)>>}

\* _axis_state
AxisState(user, data) ==
    IF user = data THEN "exact"
    ELSE IF ~Meet(user, data) THEN "disjoint"
    ELSE IF user[1] >= data[1] /\ user[2] <= data[2] THEN "inside"
    ELSE "exceeds"

\* _build_coverage_advisory
Coverage(box, extent) ==
    LET states == UNION {{AxisState(box[1], e[1]), AxisState(box[2], e[2])} : e \in extent}
    IN  IF states \subseteq {"exact"} THEN "none"
        ELSE IF "disjoint" \in states THEN "disjoint"
        ELSE IF "exceeds" \notin states THEN "inside"
        ELSE IF "inside" \notin states THEN "exceeds"
        ELSE "mismatch"

\* search_datasets_in_products, for the products at asked, each filter a set with at
\* most one box or time.
SearchCards(asked, query, limit, boxes, times) ==
    LET mine   == {c \in DOMAIN Cards : \E i \in DOMAIN asked :
                                            Products[asked[i]].id = Cards[c].product}
        nearby == {c \in mine : \A b \in boxes : BoxOverlaps(Cards[c].box, b)}
        pool   == {c \in nearby : \A t \in times : TimeOverlaps(Cards[c].time, t)}
        score  == [c \in pool |-> CardScore(Cards[c], query)]
        rank   == [c \in pool |-> - (CHOOSE i \in DOMAIN asked :
                                       /\ Products[asked[i]].id = Cards[c].product
                                       /\ \A j \in DOMAIN asked : asked[j] = asked[i] => j <= i)]
        order  == Ranked(pool, score, rank)
        count  == IF limit < MaxCards THEN limit ELSE MaxCards
    IN  [selected   |-> First(count, order),
         rejected   |-> Cardinality(mine) - Cardinality(pool),
         confidence |-> IF order = <<>> THEN "low"
                        ELSE IF query # {} /\ score[order[1]] = 0 THEN "low"
                        ELSE IF Len(order) > count THEN "medium"
                        ELSE "high"]

\* _search_in_products: every product when the caller names none.
SearchInProducts(asked, query, limit, boxes, times) ==
    IF \/ \E b \in boxes : ~ValidBox(b)
       \/ \E t \in times : ~ValidTime(t)
    THEN [selected |-> <<>>, rejected |-> 0, confidence |-> "refused"]
    ELSE SearchCards(IF asked = <<>> THEN [p \in DOMAIN Products |-> p] ELSE asked,
                     query, limit, boxes, times)
=============================================================================
