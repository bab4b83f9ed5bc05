------------------------------ MODULE SubmitRoute ------------------------------
(***************************************************************************)
(* What becomes of a CDS submit once the cache and the rows in flight have *)
(* been looked at (backends/cds/backend.py, CdsBackend.submit): one job, a *)
(* chunked parent, a refusal, or a confirmation the caller is asked for.   *)
(*                                                                         *)
(* A shape is what the checks tell of a request:                           *)
(*   keys      its input keys: all in the "snapshot", all in the "live"    *)
(*             form, some in "neither", or some with the form "unread"     *)
(*   models    combinations of the single-model axes it asks for           *)
(*   known     whether those are in the dataset's vocabulary               *)
(*   cost      "unknown", "under" or "over" the dataset's limit            *)
(*   cells     whether the calendar can split it                           *)
(*   chunks    chunks of the validated plan, 0 if there is none            *)
(*   size      "unknown", "under" or "over" the warning threshold          *)
(*   tier      whether its queue tier asks for a confirmation              *)
(* Options and budget are sets of the flags that are on, and the plan's    *)
(* axis is "none", a granularity or "bad".                                 *)
(***************************************************************************)
EXTENDS Naturals

CONSTANTS ConfirmAbove,   \* cds_auto_chunk_confirm_above
          ReconfirmAbove  \* cds_auto_chunk_reconfirm_above

ASSUME RouteAssumption == ConfirmAbove \in Nat /\ ReconfirmAbove \in Nat

Flags   == {"confirmed", "confirm_large_fanout", "no_auto_chunk", "skip_input_validation"}
Budgets == {"auto_chunk_enabled", "confirm_on_unknown_size", "input_key_validation"}
Axes    == {"none", "calendar", "bad"}

Asking == {"confirm_size", "propose_chunks", "confirm_chunks", "confirm_large"}

----------------------------------------------------------------------------
\* _check_input_keys: the live form is only asked about what the snapshot lacks,
\* and a form that cannot be read lets the refusal stand.
KeysRefused(shape, flags, budget) ==
    /\ "input_key_validation" \in budget
    /\ "skip_input_validation" \notin flags
    /\ shape.keys \in {"neither", "unread"}

\* _maybe_raise_size_confirmation
SizeAsks(shape, flags, budget) ==
    /\ "confirmed" \notin flags
    /\ \/ shape.size = "over"
       \/ shape.size = "unknown" /\ "confirm_on_unknown_size" \in budget
       \/ shape.tier

\* Splitting is off for this call or for the installation.
SplitOff(flags, budget) ==
    "no_auto_chunk" \in flags \/ "auto_chunk_enabled" \notin budget

\* The two tiers of the fan-out confirmation.
Tiers(shape, flags) ==
    IF shape.chunks > ConfirmAbove /\ "confirmed" \notin flags
    THEN "confirm_chunks"
    ELSE IF shape.chunks > ReconfirmAbove /\ "confirm_large_fanout" \notin flags
    THEN "confirm_large"
    ELSE "parent"

\* Mutant of ModelRoute: with splitting off the request goes through as it is.
WholeWhenOff(shape, flags, budget, axis) ==
    IF SplitOff(flags, budget) THEN "single" ELSE Tiers(shape, flags)

\* _submit_model_split
ModelRoute(shape, flags, budget, axis) ==
    IF SplitOff(flags, budget)
    THEN "refused"
    ELSE IF SizeAsks(shape, flags, budget)
    THEN "confirm_size"
    ELSE IF ~shape.known \/ axis = "bad" \/ shape.chunks = 0
    THEN "refused"
    ELSE Tiers(shape, flags)

\* The pre-flight cost limit: without an axis the caller is shown the choices,
\* and a confirmation takes the default one.
CostRoute(shape, flags, budget, axis) ==
    IF SplitOff(flags, budget) \/ ~shape.cells
    THEN "refused"
    ELSE IF axis = "none" /\ "confirmed" \notin flags
    THEN "propose_chunks"
    ELSE IF axis = "bad" \/ shape.chunks = 0
    THEN "refused"
    ELSE Tiers(shape, flags)

\* The model split comes before the cost limit, the cost limit before the size.
Route(shape, flags, budget, axis) ==
    IF shape.models > 1
    THEN ModelRoute(shape, flags, budget, axis)
    ELSE IF shape.cost = "over"
    THEN CostRoute(shape, flags, budget, axis)
    ELSE IF SizeAsks(shape, flags, budget)
    THEN "confirm_size"
    ELSE "single"
=============================================================================
