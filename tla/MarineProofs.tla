----------------------------- MODULE MarineProofs -----------------------------
(***************************************************************************)
(* For any number of calls, polls, cancels, evictions and crashes: a get   *)
(* leaves cache and disk consistent, and a confirmed cancel stands.        *)
(***************************************************************************)
EXTENDS Marine, TLAPS

\* The call a step belongs to moves, its row is written, or the environment acts:
\* all variables keep to their domains.
LEMMA TypeStep == TypeOK /\ [Next]_vars => TypeOK'
<1> SUFFICES ASSUME TypeOK, [Next]_vars PROVE TypeOK'
  OBVIOUS
<1> USE MarineAssumption
<1> USE DEF TypeOK, asked, polling, Working, Early, Over, Pending, Terminal, Goto, At
<1>1. ASSUME NEW c \in Calls, Submit(c) PROVE TypeOK'
  <2>1. PICK a \in BOOLEAN, f \in BOOLEAN :
          /\ async' = [async EXCEPT ![c] = a]
          /\ forced' = [forced EXCEPT ![c] = f]
          /\ Goto(c, IF ~f THEN "find"
                     ELSE IF a \/ kind = "get" THEN "gate" ELSE "estimate")
    BY <1>1, Zenon DEF Submit
  <2>2. async' \in [Calls -> BOOLEAN] /\ forced' \in [Calls -> BOOLEAN]
    BY <2>1
  <2> QED
    BY <1>1, <2>1, <2>2 DEF Submit
<1>2. ASSUME NEW c \in Calls, Find(c) PROVE TypeOK'
  BY <1>2 DEF Find, DropDeadEntry
<1>3. ASSUME NEW c \in Calls, Enter(c) PROVE TypeOK'
  BY <1>3 DEF Enter, DropDeadEntry
<1>4. ASSUME NEW c \in Calls, Refuse(c) PROVE TypeOK'
  BY <1>4 DEF Refuse, Release
<1>5. ASSUME NEW c \in Calls, Record(c) PROVE TypeOK'
  BY <1>5 DEF Record, Write
<1>6. ASSUME NEW c \in Calls, Mark(c) PROVE TypeOK'
  BY <1>6 DEF Mark, Write, Release
<1>7. ASSUME NEW c \in Calls, Unstaged(c) PROVE TypeOK'
  BY <1>7 DEF Unstaged, Write, Release
<1>8. ASSUME NEW c \in Calls, Download(c) PROVE TypeOK'
  BY <1>8 DEF Download, Fail
<1>9. ASSUME NEW c \in Calls, Invalidate(c) PROVE TypeOK'
  BY <1>9 DEF Invalidate
<1>10. ASSUME NEW c \in Calls, PlaceBundle(c) PROVE TypeOK'
  BY <1>10 DEF PlaceBundle, Fail
<1>11. ASSUME NEW c \in Calls, PlaceFile(c) PROVE TypeOK'
  BY <1>11 DEF PlaceFile, Fail
<1>12. ASSUME NEW c \in Calls, EnterFile(c) PROVE TypeOK'
  BY <1>12 DEF EnterFile, Fail
<1>13. ASSUME NEW c \in Calls, EnterBundle(c) PROVE TypeOK'
  BY <1>13 DEF EnterBundle, Fail
<1>14. ASSUME NEW c \in Calls, Read(c) PROVE TypeOK'
  BY <1>14 DEF Read, Fail
<1>15. ASSUME NEW c \in Calls, Settle(c) PROVE TypeOK'
  <2>1. row' \in [Calls -> {"none"} \cup Pending \cup Terminal] /\ aged' \subseteq Calls
    BY <1>15 DEF Settle, SettleBundle, SettleFile, Write, WriteIfPending
  <2>2. disk' \in Calls \cup {Nobody}
    BY <1>15 DEF Settle, SettleBundle, SettleFile, Rollback
  <2> QED
    BY <1>15, <2>1, <2>2 DEF Settle, Release
<1>16. ASSUME NEW c \in Calls, ClientCut(c) PROVE TypeOK'
  <2>1. CASE CutFile(c)
    BY <1>16, <2>1 DEF ClientCut, CutFile, CutWork, Free, Write
  <2>2. CASE CutBundle(c)
    BY <1>16, <2>2 DEF ClientCut, CutBundle, CutWork, Free
  <2> QED
    BY <1>16, <2>1, <2>2 DEF ClientCut
<1>17. ASSUME NEW c \in Calls, ClientGone(c) PROVE TypeOK'
  BY <1>17 DEF ClientGone, Write, Release
<1>18. ASSUME NEW c \in Calls, CancelTask(c) PROVE TypeOK'
  <2>1. CASE CutFile(c)
    BY <1>18, <2>1 DEF CancelTask, CutFile, CutWork, Free, Write
  <2>2. CASE ~CutFile(c)
    BY <1>18, <2>2 DEF CancelTask
  <2> QED
    BY <2>1, <2>2
<1>19. ASSUME NEW c \in Calls, FinishCancel(c) PROVE TypeOK'
  BY <1>19 DEF FinishCancel, WriteIfPending, Write
<1>20. ASSUME NEW c \in Calls, CancelRow(c) PROVE TypeOK'
  BY <1>20 DEF CancelRow, WriteIfPending, Write
<1>21. ASSUME NEW c \in Calls, Age(c) PROVE TypeOK'
  BY <1>21 DEF Age
<1>22. ASSUME NEW c \in Calls, Suspect(c) PROVE TypeOK'
  BY <1>22 DEF Suspect, DropDeadEntry
<1>23. ASSUME NEW c \in Calls, Verdict(c) PROVE TypeOK'
  BY <1>23 DEF Verdict, Write
<1>24. CASE Evict
  BY <1>24 DEF Evict
<1>25. CASE Unlink
  BY <1>25 DEF Unlink
<1>26. CASE Crash
  BY <1>26 DEF Crash
<1>27. CASE UNCHANGED vars
  BY <1>27 DEF vars
<1> QED
  BY <1>1, <1>2, <1>3, <1>4, <1>5, <1>6, <1>7, <1>8, <1>9, <1>10, <1>11, <1>12, <1>13,
     <1>14, <1>15, <1>16, <1>17, <1>18, <1>19, <1>20, <1>21, <1>22, <1>23, <1>24, <1>25,
     <1>26, <1>27 DEF Next, Step

LEMMA InitType == Init => TypeOK
  BY MarineAssumption DEF Init, TypeOK, Terminal

----------------------------------------------------------------------------
(* The bundle of a get.                                                    *)

\* A get is always in its caller's task, and holds the submit lock once it is past
\* its look-ups, so that at most one is.
Gated ==
    \A c \in Calls :
       /\ ~async[c]
       /\ pc[c] \in {"estimate", "mark", "unstaged"} \cup Working => gate = c

\* Between the drop of the old entry and its own, a get has the path for itself:
\* there is no entry, the cache lock is its until its bundle is in place, and
\* then no eviction is under way that could remove it.
Exclusive ==
    /\ \A c \in Calls :
          /\ pc[c] \in {"place", "enter"} => entry = Nobody
          /\ pc[c] = "place" => cache = c
          /\ pc[c] = "enter" => disk = c
    /\ cache = Evictor => entry = Nobody /\ \A c \in Calls : pc[c] # "enter"

\* The bundle of an entry is there, unless its get has taken it away again, as it does
\* if the entry was written but the get not committed.
EntryIsBacked ==
    entry # Nobody => disk = entry \/ (disk = Nobody /\ RolledBack(entry))

GInv == kind = "get" => Gated /\ Exclusive /\ EntryIsBacked

LEMMA StepBundle ==
    ASSUME TypeOK, GInv, [Next]_vars
    PROVE  GInv'
<1> USE MarineAssumption
<1> USE DEF TypeOK, asked, polling, Working, Early, Over, Goto, At
<1>1. kind' = kind
  BY DEF Next, Step, vars, Submit, Find, Enter, Refuse, Record, Mark, Unstaged, Download,
         Invalidate, PlaceBundle, PlaceFile, EnterFile, EnterBundle, Read, Settle, ClientCut,
         CutFile, CutBundle, ClientGone, CancelTask, FinishCancel, CancelRow, Age, Suspect,
         Verdict, Evict, Unlink, Crash
<1> SUFFICES ASSUME kind = "get" PROVE Gated' /\ Exclusive' /\ EntryIsBacked'
  BY <1>1 DEF GInv
<1> DEFINE Fits == Gated' /\ Exclusive' /\ EntryIsBacked'
<1> USE DEF GInv, Gated, Exclusive, EntryIsBacked, RolledBack
<1>2. ASSUME NEW c \in Calls, Submit(c) PROVE Fits
  BY <1>2 DEF Submit
<1>3. ASSUME NEW c \in Calls, Find(c) PROVE Fits
  BY <1>3 DEF Find, DropDeadEntry
<1>4. ASSUME NEW c \in Calls, Enter(c) PROVE Fits
  BY <1>4 DEF Enter, DropDeadEntry
<1>5. ASSUME NEW c \in Calls, Refuse(c) PROVE Fits
  BY <1>5 DEF Refuse, Release
<1>6. ASSUME NEW c \in Calls, Record(c) PROVE Fits
  BY <1>6 DEF Record
<1>7. ASSUME NEW c \in Calls, Mark(c) PROVE Fits
  BY <1>7 DEF Mark, Release
<1>8. ASSUME NEW c \in Calls, Unstaged(c) PROVE Fits
  BY <1>8 DEF Unstaged, Release
<1>9. ASSUME NEW c \in Calls, Download(c) PROVE Fits
  BY <1>9 DEF Download, Fail
<1>10. ASSUME NEW c \in Calls, Invalidate(c) PROVE Fits
  BY <1>10 DEF Invalidate
<1>11. ASSUME NEW c \in Calls, PlaceBundle(c) PROVE Fits
  BY <1>11 DEF PlaceBundle, Fail
<1>12. ASSUME NEW c \in Calls, PlaceFile(c) \/ EnterFile(c) PROVE Fits
  BY <1>12 DEF PlaceFile, EnterFile
<1>13. ASSUME NEW c \in Calls, EnterBundle(c) PROVE Fits
  BY <1>13 DEF EnterBundle, Fail
<1>14. ASSUME NEW c \in Calls, Read(c) PROVE Fits
  BY <1>14 DEF Read, Fail
<1>15. ASSUME NEW c \in Calls, Settle(c) PROVE Fits
  BY <1>15 DEF Settle, SettleBundle, Rollback, Release
<1>16. ASSUME NEW c \in Calls, ClientCut(c) PROVE Fits
  <2>1. CutBundle(c)
    BY <1>16 DEF ClientCut, CutFile
  <2> QED
    BY <2>1 DEF CutBundle, CutWork, Free
<1>17. ASSUME NEW c \in Calls, ClientGone(c) PROVE Fits
  BY <1>17 DEF ClientGone, Release
<1>18. ASSUME NEW c \in Calls, CancelTask(c) PROVE Fits
  BY <1>18 DEF CancelTask, Background
<1>19. ASSUME NEW c \in Calls, FinishCancel(c) \/ CancelRow(c) \/ Age(c) \/ Verdict(c)
       PROVE  Fits
  BY <1>19 DEF FinishCancel, CancelRow, Age, Verdict
<1>20. ASSUME NEW c \in Calls, Suspect(c) PROVE Fits
  BY <1>20 DEF Suspect, DropDeadEntry
<1>21. CASE Evict
  BY <1>21 DEF Evict
<1>22. CASE Unlink
  BY <1>22 DEF Unlink
<1>23. CASE Crash
  BY <1>23 DEF Crash
<1>24. CASE UNCHANGED vars
  BY <1>24 DEF vars
<1> QED
  BY <1>2, <1>3, <1>4, <1>5, <1>6, <1>7, <1>8, <1>9, <1>10, <1>11, <1>12, <1>13, <1>14,
     <1>15, <1>16, <1>17, <1>18, <1>19, <1>20, <1>21, <1>22, <1>23, <1>24 DEF Next, Step

\* However calls are cancelled, rolled back, evicted or killed, the cache entry of a
\* get describes the very bundle at its path; only a get whose store_manifest raised with
\* the entry written leaves it without one (_execute_get_download, store_manifest).
THEOREM BundleConsistent == Spec => []Consistent
<1>1. Init => TypeOK /\ GInv
  BY InitType, MarineAssumption DEF Init, GInv, Gated, Exclusive, EntryIsBacked, Working
<1>2. TypeOK /\ GInv /\ [Next]_vars => (TypeOK /\ GInv)'
  BY TypeStep, StepBundle
<1>3. TypeOK /\ GInv => Consistent
  BY DEF GInv, EntryIsBacked, Consistent, EntryIsBundle
<1> QED
  BY <1>1, <1>2, <1>3, PTL DEF Spec

----------------------------------------------------------------------------
(* The cancel of a background task.                                        *)

\* A task that was asked to stop has nothing left to do but to write a row, and not
\* as successful; a row that was reported cancelled is not successful yet either.
AskedStops ==
    /\ \A c \in asks \cup acked :
          /\ pc[c] \in {"settle", "ended", "dead"}
          /\ kind = "subset"
          /\ At(c, "settle") => outcome[c] # "successful"
    /\ CancelStands

LEMMA StepCancel ==
    ASSUME TypeOK, AskedStops, [Next]_vars
    PROVE  AskedStops'
<1> USE MarineAssumption
<1> USE DEF TypeOK, AskedStops, CancelStands, asked, polling, Working, Early, Over, Goto, At
<1>1. ASSUME NEW c \in Calls,
             Submit(c) \/ Find(c) \/ Enter(c) \/ Refuse(c) \/ Record(c) \/ Mark(c) \/ Unstaged(c)
      PROVE  AskedStops'
  <2>1. c \notin asks \cup acked /\ UNCHANGED <<kind, outcome, polling>>
    BY <1>1 DEF Submit, Find, Enter, Refuse, Record, Mark, Unstaged
  <2>2. \A d \in Calls : d # c => pc'[d] = pc[d] /\ row'[d] = row[d]
    BY <1>1 DEF Submit, Find, Enter, Refuse, Record, Mark, Unstaged, Write
  <2> QED
    BY <2>1, <2>2
<1>2. ASSUME NEW c \in Calls,
             Download(c) \/ Invalidate(c) \/ PlaceBundle(c) \/ PlaceFile(c) \/ EnterFile(c)
             \/ EnterBundle(c) \/ Read(c)
      PROVE  AskedStops'
  <2>1. c \notin asks \cup acked /\ UNCHANGED <<kind, row, polling>>
    BY <1>2 DEF Download, Invalidate, PlaceBundle, PlaceFile, EnterFile, EnterBundle, Read
  <2>2. \A d \in Calls : d # c => pc'[d] = pc[d] /\ outcome'[d] = outcome[d]
    BY <1>2 DEF Download, Invalidate, PlaceBundle, PlaceFile, EnterFile, EnterBundle, Read, Fail
  <2> QED
    BY <2>1, <2>2
<1>3. ASSUME NEW c \in Calls, Settle(c) PROVE AskedStops'
  <2>1. kind = "subset" => row' = [row EXCEPT ![c] = outcome[c]]
    BY <1>3 DEF Settle, SettleFile, Write
  <2>2. pc' = [pc EXCEPT ![c] = "ended"] /\ UNCHANGED <<kind, outcome, polling>>
    BY <1>3 DEF Settle
  <2> QED
    BY <1>3, <2>1, <2>2 DEF Settle
<1>4. ASSUME NEW c \in Calls, ClientCut(c) PROVE AskedStops'
  <2>1. c \notin asks \cup acked
    BY <1>4 DEF ClientCut, CutFile, CutBundle, CutWork
  <2>2. \A d \in Calls : d # c => pc'[d] = pc[d] /\ outcome'[d] = outcome[d] /\ row'[d] = row[d]
    BY <1>4 DEF ClientCut, CutFile, CutBundle, CutWork, Write
  <2>3. UNCHANGED <<kind, polling>>
    BY <1>4 DEF ClientCut, CutFile, CutBundle
  <2> QED
    BY <2>1, <2>2, <2>3
<1>5. ASSUME NEW c \in Calls, ClientGone(c) PROVE AskedStops'
  BY <1>5 DEF ClientGone, Write
<1>6. ASSUME NEW c \in Calls, CancelTask(c) PROVE AskedStops'
  <2>1. CASE CutFile(c)
    <3>1. c \notin acked
      BY <2>1 DEF CutFile, CutWork
    <3>2. \A d \in Calls : d # c => row'[d] = row[d]
      BY <2>1 DEF CutFile, Write
    <3> QED
      BY <1>6, <2>1, <3>1, <3>2 DEF CancelTask, CutFile, CutWork
  <2>2. CASE ~CutFile(c)
    BY <1>6, <2>2 DEF CancelTask, Background
  <2> QED
    BY <2>1, <2>2
<1>7. ASSUME NEW c \in Calls, FinishCancel(c) PROVE AskedStops'
  BY <1>7 DEF FinishCancel, WriteIfPending, Write
<1>8. ASSUME NEW c \in Calls, CancelRow(c) \/ Age(c) \/ Suspect(c) \/ Verdict(c) PROVE AskedStops'
  BY <1>8 DEF CancelRow, Age, Suspect, Verdict, WriteIfPending, Write
<1>9. CASE Evict \/ Unlink \/ Crash
  BY <1>9 DEF Evict, Unlink, Crash
<1>10. CASE UNCHANGED vars
  BY <1>10 DEF vars
<1> QED
  BY <1>1, <1>2, <1>3, <1>4, <1>5, <1>6, <1>7, <1>8, <1>9, <1>10 DEF Next, Step

\* A cancel of a background task that answered "cancelled" is never contradicted by
\* what the task writes last (cancel, _execute_subset_download).
THEOREM CancelsStand == Spec => []CancelStands
<1>1. Init => AskedStops
  BY DEF Init, AskedStops, CancelStands
<1>2. TypeOK /\ AskedStops /\ [Next]_vars => AskedStops'
  BY StepCancel
<1>3. AskedStops => CancelStands
  BY DEF AskedStops
<1> QED
  BY <1>1, <1>2, <1>3, InitType, TypeStep, PTL DEF Spec

----------------------------------------------------------------------------
(* How a call ends.                                                        *)

\* A call that has not recorded its row has none, one that works has one, and polls
\* fail only rows there are; a call that has not moved its bundle is not what lies at
\* the path.
Early0 == {"start", "find", "gate", "estimate"}
NotYet ==
    \A c \in Calls :
       /\ pc[c] \in Early0 => row[c] = "none"
       /\ pc[c] \in Early0 \cup {"mark", "unstaged", "download", "invalidate"} => disk # c
       /\ pc[c] \in Working \/ c \in verdicts => row[c] # "none"

EInv == NotYet /\ EndsSettled

LEMMA StepEnds ==
    ASSUME TypeOK, GInv, EInv, [Next]_vars
    PROVE  EInv'
<1> USE MarineAssumption
<1> USE DEF TypeOK, EInv, NotYet, EndsSettled, Early0, asked, polling, Working, Early, Over,
            Pending, Terminal, Goto, At
<1>1. ASSUME NEW c \in Calls, Submit(c) \/ Find(c) \/ Enter(c) \/ Refuse(c) PROVE EInv'
  <2>1. UNCHANGED <<kind, row, disk, committed>>
    BY <1>1 DEF Submit, Find, Enter, Refuse
  <2>2. /\ pc[c] \in Early0
        /\ pc'[c] \in Early0 \cup {"ended"}
        /\ \A d \in Calls : d # c => pc'[d] = pc[d]
    <3>1. CASE Submit(c)
      <4>1. pc[c] = "start" /\ \E s \in Early0 : pc' = [pc EXCEPT ![c] = s]
        BY <3>1, Zenon DEF Submit
      <4> QED
        BY <4>1
    <3>2. CASE Find(c) \/ Refuse(c)
      BY <3>2 DEF Find, Refuse
    <3>3. CASE Enter(c)
      BY <3>3 DEF Enter
    <3> QED
      BY <1>1, <3>1, <3>2, <3>3
  <2>3. UNCHANGED verdicts
    BY <1>1 DEF Submit, Find, Enter, Refuse
  <2> QED
    BY <2>1, <2>2, <2>3
<1>2. ASSUME NEW c \in Calls, Record(c) \/ Mark(c) \/ Unstaged(c) PROVE EInv'
  BY <1>2 DEF Record, Mark, Unstaged, Write
<1>3. ASSUME NEW c \in Calls, Download(c) \/ Invalidate(c) PROVE EInv'
  BY <1>3 DEF Download, Invalidate, Fail
<1>4. ASSUME NEW c \in Calls, PlaceBundle(c) \/ PlaceFile(c) PROVE EInv'
  BY <1>4 DEF PlaceBundle, PlaceFile, Fail
<1>5. ASSUME NEW c \in Calls, EnterFile(c) \/ EnterBundle(c) \/ Read(c) PROVE EInv'
  BY <1>5 DEF EnterFile, EnterBundle, Read, Fail
<1>6. ASSUME NEW c \in Calls, Settle(c) PROVE EInv'
  <2>1. /\ row'[c] \in Terminal
        /\ \A d \in Calls : d # c => row'[d] = row[d] /\ pc'[d] = pc[d]
        /\ pc'[c] = "ended"
        /\ UNCHANGED <<kind, committed, verdicts>>
    BY <1>6 DEF Settle, SettleFile, SettleBundle, Write, WriteIfPending
  <2>2. /\ disk' \in {disk, Nobody}
        /\ kind = "get" /\ disk' = c => c \in committed
    BY <1>6 DEF Settle, SettleFile, SettleBundle, Rollback
  <2> QED
    BY <2>1, <2>2
<1>7. ASSUME NEW c \in Calls, ClientCut(c) PROVE EInv'
  <2>1. CASE CutFile(c)
    BY <1>7, <2>1 DEF ClientCut, CutFile, CutWork, Write
  <2>2. CASE CutBundle(c)
    BY <1>7, <2>2 DEF ClientCut, CutBundle, CutWork
  <2> QED
    BY <1>7, <2>1, <2>2 DEF ClientCut
<1>8. ASSUME NEW c \in Calls, ClientGone(c) PROVE EInv'
  BY <1>8 DEF ClientGone, Write
<1>9. ASSUME NEW c \in Calls, CancelTask(c) PROVE EInv'
  <2>1. CASE CutFile(c)
    BY <1>9, <2>1 DEF CancelTask, CutFile, CutWork, Write
  <2>2. CASE ~CutFile(c)
    BY <1>9, <2>2 DEF CancelTask
  <2> QED
    BY <2>1, <2>2
<1>10. ASSUME NEW c \in Calls,
              FinishCancel(c) \/ CancelRow(c) \/ Age(c) \/ Suspect(c) \/ Verdict(c)
       PROVE  EInv'
  <2>1. CASE FinishCancel(c) \/ CancelRow(c)
    BY <2>1 DEF FinishCancel, CancelRow, WriteIfPending, Write
  <2>2. CASE Age(c) \/ Suspect(c)
    BY <2>2 DEF Age, Suspect
  <2>3. CASE Verdict(c)
    BY <2>3 DEF Verdict, Write
  <2> QED
    BY <1>10, <2>1, <2>2, <2>3
<1>11. CASE Evict \/ Unlink \/ Crash
  BY <1>11 DEF Evict, Unlink, Crash
<1>12. CASE UNCHANGED vars
  BY <1>12 DEF vars
<1> QED
  BY <1>1, <1>2, <1>3, <1>4, <1>5, <1>6, <1>7, <1>8, <1>9, <1>10, <1>11, <1>12 DEF Next, Step

\* Whatever cuts a call short after its try block has begun, its row tells the end, and a
\* get that was not committed leaves nothing behind (the handlers of both downloads).
THEOREM CallsEndSettled == Spec => []EndsSettled
<1>1. Init => EInv
  BY MarineAssumption DEF Init, EInv, NotYet, EndsSettled, Early0, Working
<1>2. Init => GInv
  BY MarineAssumption DEF Init, GInv, Gated, Exclusive, EntryIsBacked, Working
<1>3. TypeOK /\ GInv /\ EInv /\ [Next]_vars => (GInv /\ EInv)'
  BY StepBundle, StepEnds
<1>4. EInv => EndsSettled
  BY DEF EInv
<1> QED
  BY <1>1, <1>2, <1>3, <1>4, InitType, TypeStep, PTL DEF Spec

----------------------------------------------------------------------------
(* One download of a key.                                                  *)

\* As long as only unforced background calls have recorded a row, a pending row is
\* the one recorded last, and there is none while such a call is about to record its
\* own.
Plain == \A e \in Calls : row[e] # "none" => ~forced[e] /\ async[e]
Turns ==
    /\ \A c \in Calls : At(c, "estimate") /\ ~forced[c] /\ async[c] => gate = c
    /\ Plain =>
         \A c \in Calls :
            /\ row[c] \in Pending => latest = c
            /\ pc[c] \in {"mark", "unstaged"} => gate = c /\ latest = c
            /\ At(c, "estimate") /\ ~forced[c] /\ async[c] => \A d \in Calls : row[d] \notin Pending

TInv == kind = "subset" => Turns

\* Rows stay, and so do the options of a call that has one.
LEMMA StepPlain == ASSUME TypeOK, EInv, [Next]_vars PROVE Plain' => Plain
<1> USE MarineAssumption
<1> USE DEF TypeOK, EInv, NotYet, Early0, asked, polling, Working, Early, Over, Pending,
            Terminal, Goto, At
<1> DEFINE Stays == /\ \A e \in Calls : row[e] # "none" => row'[e] # "none"
                    /\ UNCHANGED <<forced, async>>
<1>1. ASSUME NEW c \in Calls, Submit(c) PROVE Plain' => Plain
  <2>1. /\ row[c] = "none" /\ row' = row
        /\ \A e \in Calls : e # c => async'[e] = async[e] /\ forced'[e] = forced[e]
    <3>1. PICK a \in BOOLEAN, f \in BOOLEAN : /\ async' = [async EXCEPT ![c] = a]
                                            /\ forced' = [forced EXCEPT ![c] = f]
      BY <1>1, Zenon DEF Submit
    <3> QED
      BY <1>1, <3>1 DEF Submit
  <2> QED
    BY <2>1 DEF Plain
<1>2. ASSUME NEW c \in Calls, Step(c) PROVE Stays
  <2>1. CASE Find(c) \/ Enter(c) \/ Refuse(c) \/ Download(c) \/ Invalidate(c) \/ PlaceBundle(c)
             \/ PlaceFile(c) \/ EnterFile(c) \/ EnterBundle(c) \/ Read(c)
    BY <2>1 DEF Find, Enter, Refuse, Download, Invalidate, PlaceBundle, PlaceFile, EnterFile,
                EnterBundle, Read
  <2>2. CASE Record(c) \/ Mark(c) \/ Unstaged(c)
    BY <2>2 DEF Record, Mark, Unstaged, Write
  <2>3. CASE Settle(c)
    BY <2>3 DEF Settle, SettleFile, SettleBundle, Write, WriteIfPending
  <2> QED
    BY <1>2, <2>1, <2>2, <2>3 DEF Step
<1>3. ASSUME NEW c \in Calls, ClientCut(c) \/ CancelTask(c) PROVE Stays
  <2>1. /\ UNCHANGED asked
        /\ row' = row \/ row' = [row EXCEPT ![c] = "successful"]
    <3>1. CASE CutFile(c)
      BY <3>1, Zenon DEF CutFile, Write
    <3>2. CASE CutBundle(c)
      BY <3>2, Zenon DEF CutBundle
    <3>3. CASE ~CutFile(c) /\ ~CutBundle(c)
      BY <1>3, <3>3, Zenon DEF ClientCut, CancelTask
    <3> QED
      BY <3>1, <3>2, <3>3
  <2> QED
    BY <2>1
<1>4. ASSUME NEW c \in Calls, ClientGone(c) \/ FinishCancel(c) \/ CancelRow(c) PROVE Stays
  <2>1. CASE ClientGone(c)
    BY <2>1 DEF ClientGone, Write
  <2>2. CASE FinishCancel(c)
    BY <2>2 DEF FinishCancel, WriteIfPending, Write
  <2>3. CASE CancelRow(c)
    BY <2>3 DEF CancelRow, WriteIfPending, Write
  <2> QED
    BY <1>4, <2>1, <2>2, <2>3
<1>5. ASSUME NEW c \in Calls, Age(c) \/ Suspect(c) \/ Verdict(c) PROVE Stays
  BY <1>5 DEF Age, Suspect, Verdict, Write
<1>6. CASE Evict \/ Unlink \/ Crash
  BY <1>6 DEF Evict, Unlink, Crash, Plain
<1>7. CASE UNCHANGED vars
  BY <1>7 DEF vars, Plain
<1>8. Stays => (Plain' => Plain)
  BY DEF Plain
<1> QED
  BY <1>1, <1>2, <1>3, <1>4, <1>5, <1>6, <1>7, <1>8 DEF Next, Plain

LEMMA StepTurns ==
    ASSUME TypeOK, EInv, TInv, [Next]_vars
    PROVE  TInv'
<1> USE MarineAssumption
<1> USE DEF TypeOK, EInv, NotYet, Early0, asked, polling, Working, Early, Over, Pending,
            Terminal, Goto, At
<1>1. kind' = kind
  BY DEF Next, Step, vars, Submit, Find, Enter, Refuse, Record, Mark, Unstaged, Download,
         Invalidate, PlaceBundle, PlaceFile, EnterFile, EnterBundle, Read, Settle, ClientCut,
         CutFile, CutBundle, ClientGone, CancelTask, FinishCancel, CancelRow, Age, Suspect,
         Verdict, Evict, Unlink, Crash
<1> SUFFICES ASSUME kind = "subset" PROVE Turns'
  BY <1>1 DEF TInv
<1>2. Turns
  BY DEF TInv
<1>3. Plain' => Plain
  BY StepPlain
<1> USE <1>2, <1>3 DEF Turns
<1>4. ASSUME NEW c \in Calls, Submit(c) PROVE Turns'
  <2>1. PICK a \in BOOLEAN, f \in BOOLEAN :
          /\ async' = [async EXCEPT ![c] = a]
          /\ forced' = [forced EXCEPT ![c] = f]
          /\ Goto(c, IF ~f THEN "find" ELSE IF a \/ kind = "get" THEN "gate" ELSE "estimate")
    BY <1>4, Zenon DEF Submit
  <2>2. \A d \in Calls : d # c => /\ pc'[d] = pc[d] /\ forced'[d] = forced[d]
                                 /\ async'[d] = async[d]
    BY <2>1
  <2>3. pc'[c] \in {"find", "gate", "estimate"} /\ (pc'[c] = "estimate" => forced'[c])
    BY <1>4, <2>1 DEF Submit
  <2>4. UNCHANGED <<row, latest, gate>>
    BY <1>4 DEF Submit
  <2> QED
    BY <2>2, <2>3, <2>4
<1>5. ASSUME NEW c \in Calls, Find(c) \/ Refuse(c) PROVE Turns'
  <2>1. CASE Find(c)
    <3>1. /\ \A d \in Calls : d # c => pc'[d] = pc[d]
          /\ pc'[c] \in {"ended", "gate"} \/ (pc'[c] = "estimate" /\ ~async[c])
          /\ UNCHANGED <<row, latest, gate, forced, async>>
      BY <2>1 DEF Find
    <3> QED
      BY <3>1 DEF Plain
  <2>2. CASE Refuse(c)
    BY <2>2 DEF Refuse, Release, Plain
  <2> QED
    BY <1>5, <2>1, <2>2
<1>6. ASSUME NEW c \in Calls, Enter(c) PROVE Turns'
  <2>1. CASE Answered(c)
    BY <1>6, <2>1 DEF Enter, Plain
  <2>2. CASE ~Answered(c)
    BY <1>6, <2>2 DEF Enter, Answered, Dedupe, Plain
  <2> QED
    BY <2>1, <2>2
<1>7. ASSUME NEW c \in Calls, Record(c) PROVE Turns'
  <2>1. /\ row' = [row EXCEPT ![c] = "queued"] /\ latest' = c
        /\ pc' = [pc EXCEPT ![c] = "mark"] /\ UNCHANGED <<forced, async, gate>>
        /\ pc[c] = "estimate"
    BY <1>7 DEF Record, Write
  <2>2. Plain' => ~forced[c] /\ async[c]
    BY <2>1 DEF Plain
  <2> QED
    BY <2>1, <2>2
<1>8. ASSUME NEW c \in Calls, Mark(c) \/ Unstaged(c) PROVE Turns'
  BY <1>8 DEF Mark, Unstaged, Write, Release
<1>9. ASSUME NEW c \in Calls,
             Download(c) \/ Invalidate(c) \/ PlaceBundle(c) \/ PlaceFile(c) \/ EnterFile(c)
             \/ EnterBundle(c) \/ Read(c)
      PROVE  Turns'
  BY <1>9 DEF Download, Invalidate, PlaceBundle, PlaceFile, EnterFile, EnterBundle, Read, Fail
<1>10. ASSUME NEW c \in Calls, Settle(c) PROVE Turns'
  <2>1. /\ \A d \in Calls : row'[d] \in Pending => row[d] \in Pending
        /\ pc' = [pc EXCEPT ![c] = "ended"]
        /\ gate' = IF gate = c THEN Nobody ELSE gate
        /\ UNCHANGED <<forced, async, latest>>
        /\ pc[c] = "settle"
    BY <1>10 DEF Settle, SettleFile, Write, Release
  <2> QED
    BY <2>1
<1>11. ASSUME NEW c \in Calls, ClientCut(c) \/ CancelTask(c) PROVE Turns'
  <2>1. /\ \A d \in Calls : row'[d] \in Pending => row[d] \in Pending
        /\ \A d \in Calls : pc'[d] = pc[d] \/ pc'[d] = "settle"
        /\ UNCHANGED <<forced, async, latest, gate>>
    BY <1>11 DEF ClientCut, CancelTask, CutFile, CutBundle, CutWork, Write
  <2> QED
    BY <2>1
<1>12. ASSUME NEW c \in Calls, ClientGone(c) PROVE Turns'
  BY <1>12 DEF ClientGone, Write, Release
<1>13. ASSUME NEW c \in Calls,
              FinishCancel(c) \/ CancelRow(c) \/ Age(c) \/ Suspect(c) \/ Verdict(c)
       PROVE  Turns'
  <2>1. /\ \A d \in Calls : row'[d] \in Pending => row[d] \in Pending
        /\ UNCHANGED <<pc, forced, async, latest, gate>>
    BY <1>13 DEF FinishCancel, CancelRow, Age, Suspect, Verdict, WriteIfPending, Write
  <2> QED
    BY <2>1
<1>14. CASE Evict \/ Unlink
  BY <1>14 DEF Evict, Unlink
<1>15. CASE Crash
  BY <1>15 DEF Crash
<1>16. CASE UNCHANGED vars
  BY <1>16 DEF vars, Plain
<1> QED
  BY <1>4, <1>5, <1>6, <1>7, <1>8, <1>9, <1>10, <1>11, <1>12, <1>13, <1>14, <1>15, <1>16
     DEF Next, Step

\* Background calls share one download, gets take turns: two jobs of a key only run side by
\* side if one of them was forced or awaited, or a row was settled over its job's head
\* (submit, backend.py:836-858).
THEOREM DownloadsOnce == Spec => []OneDownload
<1>1. Init => GInv /\ EInv /\ TInv
  BY MarineAssumption
     DEF Init, GInv, Gated, Exclusive, EntryIsBacked, EInv, NotYet, EndsSettled, Early0, TInv,
         Turns, Plain, Working, Pending, At
<1>2. TypeOK /\ GInv /\ EInv /\ TInv /\ [Next]_vars => (GInv /\ EInv /\ TInv)'
  BY StepBundle, StepEnds, StepTurns
<1>3. TypeOK /\ GInv /\ EInv /\ TInv => OneDownload
  <2> SUFFICES ASSUME TypeOK, GInv, EInv, TInv, NEW c \in Jobs, NEW d \in Jobs, c # d
               PROVE  /\ kind = "subset"
                      /\ \/ \E e \in Calls : row[e] # "none" /\ (forced[e] \/ ~async[e])
                         \/ {row[c], row[d]} \cap Terminal # {}
    BY DEF OneDownload
  <2>1. c \in Calls /\ d \in Calls /\ pc[c] \in Working /\ pc[d] \in Working
    BY DEF Jobs
  <2>2. kind = "subset"
    BY <2>1, MarineAssumption DEF GInv, Gated, TypeOK, Working
  <2>3. row[c] \in Pending \cup Terminal /\ row[d] \in Pending \cup Terminal
    BY <2>1 DEF EInv, NotYet, TypeOK
  <2>4. CASE Plain
    BY <2>1, <2>2, <2>3, <2>4 DEF TInv, Turns
  <2>5. CASE ~Plain
    BY <2>2, <2>5, Zenon DEF Plain
  <2> QED
    BY <2>4, <2>5
<1> QED
  BY <1>1, <1>2, <1>3, InitType, TypeStep, PTL DEF Spec
=============================================================================
