----------------------------- MODULE SubmitProofs -----------------------------
(***************************************************************************)
(* For any number of calls, servers, options and crashes: the submit lock  *)
(* is counted right and keeps the calls of a server apart, a key nobody    *)
(* forces has one request in flight, and a job that was heard of is        *)
(* recorded or taken back.                                                 *)
(***************************************************************************)
EXTENDS Submit, FiniteSetTheorems, TLAPS

(* The lock.                                                               *)

Users(p) == {c \in Calls : home[c] = p /\ lock[c] # Nobody}
Using(c) == pc[c] \in {"wait"} \cup Inside

\* The count is the number of users, the dictionary's lock is theirs, and whoever is
\* inside holds it.
Counted ==
    \A p \in Processes :
       /\ refs[p] = Cardinality(Users(p))
       /\ dict[p] = Nobody <=> Users(p) = {}
Shared ==
    \A c \in Calls :
       /\ lock[c] # Nobody <=> Using(c)
       /\ lock[c] # Nobody => lock[c] = dict[home[c]]
       /\ pc[c] \in Inside => holder[lock[c]] = c

IInv == TypeOK /\ Counted /\ Shared

LockTypes ==
    /\ pc' \in [Calls -> {"start", "wait"} \cup Inside \cup Over]
    /\ lock' \in [Calls -> Calls \cup {Nobody}]
    /\ holder' \in [Calls -> Calls \cup {Nobody}]
    /\ dict' \in [Processes -> Calls \cup {Nobody}]
    /\ refs' \in [Processes -> Nat]

Locked == LockTypes /\ Counted' /\ Shared'

\* What a step of a call may do to the lock: the call joins its users, takes it, keeps it,
\* or leaves; otherwise nothing of it changes, or a process dies.
LEMMA UsersFinite ==
    ASSUME NEW p \in Processes
    PROVE  IsFiniteSet(Users(p)) /\ Cardinality(Users(p)) \in Nat
<1>1. Users(p) \subseteq Calls
  BY DEF Users
<1> QED
  BY <1>1, FS_Subset, FS_CardinalityType, SubmitAssumption

LEMMA LeaveLocks ==
    ASSUME IInv, home' = home, NEW c \in Calls, Using(c), NEW s \in Over, Leave(c, s)
    PROVE  Locked
<1> USE SubmitAssumption
<1>0. PICK h \in Processes : h = home[c]
  BY DEF IInv, TypeOK
<1>1. h = home[c] /\ c \in Users(h)
  BY <1>0 DEF IInv, TypeOK, Shared, Users
<1>2. /\ pc' = [pc EXCEPT ![c] = s]
      /\ lock' = [lock EXCEPT ![c] = Nobody]
      /\ refs' = [refs EXCEPT ![h] = @ - 1]
      /\ holder' = [l \in Calls |-> IF holder[l] = c THEN Nobody ELSE holder[l]]
      /\ dict' = IF refs[h] = 1 THEN [dict EXCEPT ![h] = Nobody] ELSE dict
  BY <1>1, Zenon DEF Leave, Goto, LastUser
<1>3. Users(h)' = Users(h) \ {c}
  BY <1>1, <1>2 DEF IInv, TypeOK, Users
<1>4. \A p \in Processes : p # h => Users(p)' = Users(p)
  <2>1. \A p \in Processes, d \in Calls :
           p # h => (home'[d] = p /\ lock'[d] # Nobody <=> home[d] = p /\ lock[d] # Nobody)
    BY <1>1, <1>2 DEF IInv, TypeOK
  <2> QED
    BY <2>1 DEF Users
<1>5. /\ Cardinality(Users(h)') = Cardinality(Users(h)) - 1
      /\ Cardinality(Users(h)) \in Nat /\ Cardinality(Users(h)') \in Nat
      /\ Users(h)' = {} <=> Cardinality(Users(h)') = 0
  <2>1. IsFiniteSet(Users(h)) /\ IsFiniteSet(Users(h) \ {c})
    BY <1>1, UsersFinite, FS_RemoveElement
  <2>2. Cardinality(Users(h) \ {c}) = Cardinality(Users(h)) - 1
    BY <1>1, <2>1, FS_RemoveElement
  <2>3. Cardinality(Users(h)) \in Nat /\ Cardinality(Users(h) \ {c}) \in Nat
    BY <2>1, FS_CardinalityType
  <2>4. Users(h) \ {c} = {} <=> Cardinality(Users(h) \ {c}) = 0
    BY <2>1, FS_EmptySet
  <2> QED
    BY <1>3, <2>2, <2>3, <2>4, Zenon
<1>6. refs[h] = Cardinality(Users(h)) /\ refs[h] \in Nat
  BY <1>1 DEF IInv, Counted, TypeOK
<1>7. Counted'
  <2> SUFFICES ASSUME NEW p \in Processes
               PROVE  /\ refs'[p] = Cardinality(Users(p)')
                      /\ dict'[p] = Nobody <=> Users(p)' = {}
    BY DEF Counted
  <2>1. CASE p = h
    <3>1. dict[h] # Nobody
      BY <1>1 DEF IInv, Counted
    <3>2. refs'[h] = refs[h] - 1 /\ dict'[h] = IF refs[h] = 1 THEN Nobody ELSE dict[h]
      BY <1>1, <1>2 DEF IInv, TypeOK
    <3>3. Cardinality(Users(h)') = refs[h] - 1 /\ (Users(h)' = {} <=> refs[h] = 1)
      BY <1>5, <1>6
    <3>4. refs'[h] = Cardinality(Users(h)') /\ (dict'[h] = Nobody <=> Users(h)' = {})
      BY <3>1, <3>2, <3>3
    <3> QED
      BY <2>1, <3>4
  <2>2. CASE p # h
    BY <1>1, <1>2, <1>4, <2>2 DEF IInv, TypeOK, Counted
  <2> QED
    BY <2>1, <2>2
<1>8. Shared'
  <2> SUFFICES ASSUME NEW d \in Calls
               PROVE  /\ lock'[d] # Nobody <=> Using(d)'
                      /\ lock'[d] # Nobody => lock'[d] = dict'[home[d]]
                      /\ pc'[d] \in Inside => holder'[lock'[d]] = d
    BY DEF Shared
  <2>1. CASE d = c
    BY <1>2, <2>1 DEF IInv, TypeOK, Using, Over, Inside
  <2>2. CASE d # c
    <3>1. pc'[d] = pc[d] /\ lock'[d] = lock[d] /\ Using(d)' = Using(d)
      BY <1>2, <2>2 DEF IInv, TypeOK, Using
    <3>2. lock[d] # Nobody => dict'[home[d]] = dict[home[d]]
      <4> SUFFICES ASSUME lock[d] # Nobody, home[d] = h PROVE refs[h] # 1
        BY <1>1, <1>2 DEF IInv, TypeOK
      <4>1. d \in Users(h)'
        BY <1>3, <2>2 DEF Users
      <4> QED
        BY <1>5, <1>6, <4>1
    <3>3. pc[d] \in Inside => holder'[lock[d]] = d
      BY <1>2, <2>2 DEF IInv, TypeOK, Shared, Using
    <3> QED
      BY <3>1, <3>2, <3>3 DEF IInv, Shared
  <2> QED
    BY <2>1, <2>2
<1>9. LockTypes
  BY <1>1, <1>2, <1>5, <1>6 DEF LockTypes, IInv, TypeOK
<1> QED
  BY <1>7, <1>8, <1>9 DEF Locked

\* A call that stays inside, or outside, leaves the lock as it is.
LEMMA StayLocks ==
    ASSUME IInv, home' = home, UNCHANGED locks, pc' \in [Calls -> {"start", "wait"} \cup Inside \cup Over],
           \A c \in Calls : pc'[c] = pc[c] \/ (pc[c] \in Inside /\ pc'[c] \in Inside)
                            \/ (~Using(c) /\ pc'[c] \in {"start"} \cup Over)
    PROVE  Locked
<1>1. \A p \in Processes : Users(p)' = Users(p)
  BY DEF Users, locks
<1>2. Counted'
  BY <1>1 DEF IInv, Counted, locks
<1>3. Shared'
  BY DEF IInv, Shared, Using, Over, Inside, locks
<1> QED
  BY <1>2, <1>3 DEF Locked, LockTypes, IInv, TypeOK, locks

LEMMA JoinLocks ==
    ASSUME IInv, home' = home, NEW c \in Calls, Join(c)
    PROVE  Locked
<1> USE SubmitAssumption
<1>0. PICK h \in Processes : h = home[c]
  BY DEF IInv, TypeOK
<1> DEFINE l == IF dict[h] = Nobody THEN c ELSE dict[h]
<1>1. /\ h = home[c] /\ pc[c] = "start" /\ lock[c] = Nobody
      /\ l \in Calls
  BY <1>0 DEF IInv, TypeOK, Shared, Using, Inside, Join, At
<1>2. /\ pc' = [pc EXCEPT ![c] = "wait"]
      /\ lock' = [lock EXCEPT ![c] = l]
      /\ refs' = [refs EXCEPT ![h] = @ + 1]
      /\ dict' = [dict EXCEPT ![h] = l]
      /\ UNCHANGED holder
  BY <1>1, Zenon DEF Join, Goto
<1> HIDE DEF l
<1>3. Users(h)' = Users(h) \cup {c} /\ c \notin Users(h)
  BY <1>1, <1>2 DEF IInv, TypeOK, Users
<1>4. \A p \in Processes : p # h => Users(p)' = Users(p)
  <2>1. \A p \in Processes, d \in Calls :
           p # h => (home'[d] = p /\ lock'[d] # Nobody <=> home[d] = p /\ lock[d] # Nobody)
    BY <1>1, <1>2 DEF IInv, TypeOK
  <2> QED
    BY <2>1 DEF Users
<1>5. Cardinality(Users(h)') = Cardinality(Users(h)) + 1
  <2>1. Cardinality(Users(h) \cup {c}) = Cardinality(Users(h)) + 1
    BY <1>3, UsersFinite, FS_AddElement
  <2> QED
    BY <1>3, <2>1, Zenon
<1>6. Counted'
  <2> SUFFICES ASSUME NEW p \in Processes
               PROVE  /\ refs'[p] = Cardinality(Users(p)')
                      /\ dict'[p] = Nobody <=> Users(p)' = {}
    BY DEF Counted
  <2>1. CASE p = h
    BY <1>1, <1>2, <1>3, <1>5, <2>1 DEF IInv, TypeOK, Counted
  <2>2. CASE p # h
    BY <1>1, <1>2, <1>4, <2>2 DEF IInv, TypeOK, Counted
  <2> QED
    BY <2>1, <2>2
<1>7. Shared'
  <2> SUFFICES ASSUME NEW d \in Calls
               PROVE  /\ lock'[d] # Nobody <=> Using(d)'
                      /\ lock'[d] # Nobody => lock'[d] = dict'[home[d]]
                      /\ pc'[d] \in Inside => holder'[lock'[d]] = d
    BY DEF Shared
  <2>1. CASE d = c
    BY <1>1, <1>2, <2>1 DEF IInv, TypeOK, Using, Inside
  <2>2. CASE d # c
    <3>1. pc'[d] = pc[d] /\ lock'[d] = lock[d] /\ Using(d)' = Using(d)
      BY <1>2, <2>2 DEF IInv, TypeOK, Using
    <3>2. lock[d] # Nobody => dict'[home[d]] = lock[d]
      BY <1>1, <1>2 DEF IInv, TypeOK, Shared, l
    <3> QED
      BY <1>2, <3>1, <3>2 DEF IInv, Shared
  <2> QED
    BY <2>1, <2>2
<1>8. LockTypes
  BY <1>1, <1>2 DEF LockTypes, IInv, TypeOK
<1> QED
  BY <1>6, <1>7, <1>8 DEF Locked

LEMMA AcquireLocks ==
    ASSUME IInv, home' = home, NEW c \in Calls, Acquire(c)
    PROVE  Locked
<1> USE SubmitAssumption
<1>1. /\ pc[c] = "wait" /\ lock[c] \in Calls /\ holder[lock[c]] = Nobody
      /\ pc' = [pc EXCEPT ![c] = IF forced[c] THEN "estimate" ELSE "cache"]
      /\ holder' = [holder EXCEPT ![lock[c]] = c]
      /\ UNCHANGED <<lock, dict, refs>>
  BY DEF Acquire, At, Goto, IInv, TypeOK, Shared, Using
<1>2. \A p \in Processes : Users(p)' = Users(p)
  BY <1>1 DEF Users
<1>3. Counted'
  BY <1>1, <1>2 DEF IInv, Counted
<1>4. Shared'
  BY <1>1 DEF IInv, TypeOK, Shared, Using, Inside
<1>5. LockTypes
  BY <1>1 DEF LockTypes, IInv, TypeOK, Inside
<1> QED
  BY <1>3, <1>4, <1>5 DEF Locked

LEMMA CrashLocks ==
    ASSUME IInv, home' = home, NEW p \in Processes, Crash(p)
    PROVE  Locked
<1> USE SubmitAssumption
<1>1. /\ pc' = [c \in Calls |-> IF home[c] = p /\ Using(c) THEN "dead" ELSE pc[c]]
      /\ lock' = [c \in Calls |-> IF home[c] = p /\ Using(c) THEN Nobody ELSE lock[c]]
      /\ holder' = [l \in Calls |-> IF /\ holder[l] \in Calls
                                       /\ home[holder[l]] = p /\ Using(holder[l])
                                    THEN Nobody ELSE holder[l]]
      /\ dict' = [dict EXCEPT ![p] = Nobody]
      /\ refs' = [refs EXCEPT ![p] = 0]
  BY DEF Crash, Using
<1>2. Users(p)' = {} /\ Cardinality({}) = 0
  BY <1>1, FS_EmptySet DEF IInv, Shared, Users
<1>3. \A q \in Processes : q # p => Users(q)' = Users(q)
  <2>1. \A q \in Processes, d \in Calls :
           q # p => (home'[d] = q /\ lock'[d] # Nobody <=> home[d] = q /\ lock[d] # Nobody)
    BY <1>1 DEF IInv, TypeOK
  <2> QED
    BY <2>1 DEF Users
<1>4. Counted'
  <2> SUFFICES ASSUME NEW q \in Processes
               PROVE  /\ refs'[q] = Cardinality(Users(q)')
                      /\ dict'[q] = Nobody <=> Users(q)' = {}
    BY DEF Counted
  <2>1. CASE q = p
    BY <1>1, <1>2, <2>1 DEF IInv, TypeOK
  <2>2. CASE q # p
    BY <1>1, <1>3, <2>2 DEF IInv, TypeOK, Counted
  <2> QED
    BY <2>1, <2>2
<1>5. Shared'
  <2> SUFFICES ASSUME NEW d \in Calls
               PROVE  /\ lock'[d] # Nobody <=> Using(d)'
                      /\ lock'[d] # Nobody => lock'[d] = dict'[home[d]]
                      /\ pc'[d] \in Inside => holder'[lock'[d]] = d
    BY DEF Shared
  <2>1. CASE home[d] = p /\ Using(d)
    BY <1>1, <2>1 DEF Using, Inside
  <2>2. CASE ~(home[d] = p /\ Using(d))
    <3>1. pc'[d] = pc[d] /\ lock'[d] = lock[d] /\ Using(d)' = Using(d)
      BY <1>1, <2>2 DEF Using
    <3>2. lock[d] # Nobody => dict'[home[d]] = dict[home[d]]
      BY <1>1, <2>2 DEF IInv, TypeOK, Shared
    <3>3. pc[d] \in Inside => holder'[lock[d]] = d
      BY <1>1, <2>2 DEF IInv, TypeOK, Shared, Using
    <3> QED
      BY <3>1, <3>2, <3>3 DEF IInv, Shared
  <2> QED
    BY <2>1, <2>2
<1>6. LockTypes
  BY <1>1 DEF LockTypes, IInv, TypeOK, Over
<1> QED
  BY <1>4, <1>5, <1>6 DEF Locked

\* A call that is inside goes on inside, or leaves.
LEMMA GoOn ==
    ASSUME IInv, home' = home, NEW c \in Calls, pc[c] \in Inside, NEW s \in Inside, Goto(c, s),
           UNCHANGED locks
    PROVE  Locked
<1>1. pc' = [pc EXCEPT ![c] = s]
  BY DEF Goto
<1> QED
  BY <1>1, StayLocks DEF IInv, TypeOK

LEMMA InsideUses == ASSUME NEW c \in Calls, pc[c] \in Inside PROVE Using(c)
  BY DEF Using

LEMMA StepLocks == IInv /\ [Next]_vars => Locked /\ home' = home
<1> SUFFICES ASSUME IInv, [Next]_vars PROVE Locked /\ home' = home
  OBVIOUS
<1>1. home' = home
  <2>1. ASSUME NEW c \in Calls, Refuse(c) \/ Join(c) \/ Acquire(c) \/ LookAtCache(c) \/ LookAtRows(c)
        PROVE  home' = home
    BY <2>1 DEF Refuse, Join, Acquire, LookAtCache, LookAtRows
  <2>2. ASSUME NEW c \in Calls, Decide(c) \/ Order(c) \/ Record(c) \/ Discard(c)
        PROVE  home' = home
    BY <2>2 DEF Decide, Order, Record, Discard
  <2>3. ASSUME NEW c \in Calls, RecordParent(c) \/ Wave(c) \/ Cut(c) \/ Settle(c)
        PROVE  home' = home
    BY <2>3 DEF RecordParent, Wave, Cut, Settle
  <2>4. CASE Evict \/ (\E p \in Processes : Crash(p)) \/ UNCHANGED vars
    BY <2>4 DEF Evict, Crash, vars
  <2> QED
    BY <2>1, <2>2, <2>3, <2>4 DEF Next, Step
<1> USE <1>1
<1> DEFINE Goes(c) == \/ \E s \in Over : Leave(c, s)
                      \/ \E s \in Inside : Goto(c, s) /\ UNCHANGED locks
<1>2. ASSUME NEW c \in Calls, pc[c] \in Inside, Goes(c) PROVE Locked
  BY <1>2, LeaveLocks, GoOn, InsideUses
<1>3. ASSUME NEW c \in Calls, Refuse(c) PROVE Locked
  <2>1. pc[c] = "start" /\ pc' = [pc EXCEPT ![c] = "ended"] /\ UNCHANGED locks
    BY <1>3 DEF Refuse, At, Goto
  <2> QED
    BY <2>1, StayLocks DEF IInv, TypeOK, Using, Inside, Over
<1>4. ASSUME NEW c \in Calls, Join(c) PROVE Locked
  BY <1>4, JoinLocks
<1>5. ASSUME NEW c \in Calls, Acquire(c) PROVE Locked
  BY <1>5, AcquireLocks
<1>6. ASSUME NEW c \in Calls, LookAtCache(c) \/ LookAtRows(c) PROVE Locked
  <2>1. pc[c] \in Inside /\ Goes(c)
    BY <1>6 DEF LookAtCache, LookAtRows, At, Inside, Over
  <2> QED
    BY <1>2, <2>1
<1>7. ASSUME NEW c \in Calls, Decide(c) PROVE Locked
  <2>1. pc[c] \in Inside /\ Goes(c)
    BY <1>7 DEF Decide, At, Inside, Over
  <2> QED
    BY <1>2, <2>1
<1>8. ASSUME NEW c \in Calls, Order(c) \/ Record(c) \/ Discard(c) PROVE Locked
  <2>1. pc[c] \in Inside /\ Goes(c)
    BY <1>8 DEF Order, Record, Discard, At, Inside, Over
  <2> QED
    BY <1>2, <2>1
<1>9. ASSUME NEW c \in Calls, RecordParent(c) \/ Wave(c) PROVE Locked
  <2>1. pc[c] \in Inside /\ Goes(c)
    BY <1>9 DEF RecordParent, Wave, At, Inside, Over
  <2> QED
    BY <1>2, <2>1
<1>10. ASSUME NEW c \in Calls, Cut(c) PROVE Locked
  <2>1. CASE pc[c] = "record"
    <3>1. Goes(c)
      BY <1>10, <2>1 DEF Cut, At, Inside
    <3> QED
      BY <1>2, <2>1, <3>1 DEF Inside
  <2>2. CASE pc[c] # "record"
    <3>1. Using(c) /\ \E s \in Over : Leave(c, s)
      BY <1>10, <2>2 DEF Cut, At, Inside, Over, Using
    <3> QED
      BY <3>1, LeaveLocks
  <2> QED
    BY <2>1, <2>2
<1>11. CASE (\E c \in Calls : Settle(c)) \/ Evict \/ UNCHANGED vars
  <2>1. pc' = pc /\ UNCHANGED locks
    BY <1>11 DEF Settle, Evict, vars, locks
  <2> QED
    BY <2>1, StayLocks DEF IInv, TypeOK
<1>12. ASSUME NEW p \in Processes, Crash(p) PROVE Locked
  BY <1>12, CrashLocks
<1> QED
  BY <1>3, <1>4, <1>5, <1>6, <1>7, <1>8, <1>9, <1>10, <1>11, <1>12 DEF Next, Step

\* The rest of the state keeps to its types.
Kept ==
    /\ shape' \in Shapes
    /\ forced' \in [Calls -> BOOLEAN]
    /\ row' \in [Calls -> {"none", "queued", "successful", "failed", "cancelled"}]
    /\ chunked' \subseteq Calls
    /\ job' \in [Calls -> {"none", "live", "gone"}]
    /\ latest' \in Calls \cup {Nobody}
    /\ entry' \in Calls \cup {Nobody}
    /\ crashes' \in 0..MaxCrashes

LEMMA StepTypes == IInv /\ [Next]_vars => Kept
<1> SUFFICES ASSUME IInv, [Next]_vars PROVE Kept
  OBVIOUS
<1> USE SubmitAssumption DEF IInv, TypeOK, Kept, store
<1>1. ASSUME NEW c \in Calls, Refuse(c) \/ Acquire(c) \/ LookAtCache(c) \/ LookAtRows(c) \/ Decide(c)
      PROVE  Kept
  BY <1>1 DEF Refuse, Acquire, LookAtCache, LookAtRows, Decide
<1>2. ASSUME NEW c \in Calls, Join(c) PROVE Kept
  BY <1>2 DEF Join
<1>3. ASSUME NEW c \in Calls, Order(c) PROVE Kept
  BY <1>3 DEF Order
<1>4. ASSUME NEW c \in Calls, Record(c) \/ Discard(c) PROVE Kept
  BY <1>4 DEF Record, Discard, WriteRow
<1>5. ASSUME NEW c \in Calls, RecordParent(c) \/ Wave(c) PROVE Kept
  BY <1>5 DEF RecordParent, Wave, WriteRow
<1>6. ASSUME NEW c \in Calls, Cut(c) PROVE Kept
  <2>1. /\ job' = job \/ job' = [job EXCEPT ![c] = "live"]
        /\ row' = row \/ \E s \in {"queued", "failed"} : row' = [row EXCEPT ![c] = s]
        /\ latest' \in {latest, c}
        /\ UNCHANGED <<shape, forced, chunked, entry, crashes>>
    BY <1>6 DEF Cut, WriteRow
  <2> QED
    BY <2>1
<1>7. ASSUME NEW c \in Calls, Settle(c) PROVE Kept
  BY <1>7 DEF Settle
<1>8. CASE Evict \/ UNCHANGED vars
  BY <1>8 DEF Evict, vars
<1>9. ASSUME NEW p \in Processes, Crash(p) PROVE Kept
  BY <1>9 DEF Crash
<1> QED
  BY <1>1, <1>2, <1>3, <1>4, <1>5, <1>6, <1>7, <1>8, <1>9 DEF Next, Step

LEMMA InitLocks == Init => IInv
<1> USE SubmitAssumption
<1> SUFFICES ASSUME Init PROVE IInv
  OBVIOUS
<1>1. TypeOK
  BY DEF Init, TypeOK
<1>2. \A p \in Processes : Users(p) = {}
  BY DEF Init, Users
<1>3. Cardinality({}) = 0
  BY FS_EmptySet
<1>4. Counted
  BY <1>2, <1>3 DEF Init, Counted
<1>5. Shared
  BY DEF Init, Shared, Using, Inside
<1> QED
  BY <1>1, <1>4, <1>5 DEF IInv

LEMMA StepIInv == IInv /\ [Next]_vars => IInv'
<1> SUFFICES ASSUME IInv, [Next]_vars PROVE IInv'
  OBVIOUS
<1>1. Locked /\ home' = home /\ Kept
  BY StepLocks, StepTypes
<1> QED
  BY <1>1 DEF IInv, TypeOK, Locked, LockTypes, Kept

LEMMA Inductive == Spec => []IInv
  BY InitLocks, StepIInv, PTL DEF Spec

\* However calls of a key come, go, are cut short and die, in any number of servers: a
\* server lets one in at a time, and its dictionary of locks is exactly as large as the
\* calls in progress need (submit, backend.py:3087-3106 and 3319-3338).
THEOREM LocksHold == Spec => []LockDiscipline
<1>1. IInv => LockDiscipline
  <2> SUFFICES ASSUME IInv PROVE LockDiscipline
    OBVIOUS
  <2>1. OneInside
    <3> SUFFICES ASSUME NEW c \in Calls, NEW d \in Calls, home[c] = home[d],
                        pc[c] \in Inside, pc[d] \in Inside
                 PROVE  c = d
      BY DEF OneInside
    <3>1. lock[c] = lock[d]
      BY InsideUses DEF IInv, Shared
    <3> QED
      BY <3>1 DEF IInv, Shared
  <2>2. LocksAreCounted
    <3> SUFFICES ASSUME NEW p \in Processes
                 PROVE  /\ refs[p] = 0 <=> Users(p) = {}
                        /\ dict[p] = Nobody <=> Users(p) = {}
                        /\ \A c \in Users(p) : lock[c] = dict[p]
      BY DEF LocksAreCounted, Users
    <3>1. refs[p] = Cardinality(Users(p)) /\ (dict[p] = Nobody <=> Users(p) = {})
      BY DEF IInv, Counted
    <3>2. Cardinality(Users(p)) = 0 <=> Users(p) = {}
      BY UsersFinite, FS_EmptySet
    <3>3. \A c \in Users(p) : lock[c] = dict[p]
      BY DEF IInv, Shared, Users
    <3> QED
      BY <3>1, <3>2, <3>3
  <2> QED
    BY <2>1, <2>2 DEF LockDiscipline, IInv
<1> QED
  BY <1>1, Inductive, PTL

----------------------------------------------------------------------------
(* The rows and jobs of a key.                                             *)

\* A call records its row as it leaves, and orders its job before that; a request that must
\* be split never comes to an order.
Fresh == {"start", "wait", "cache", "rows", "estimate", "order", "record", "plan"}

Rows ==
    \A c \in Calls :
       /\ pc[c] \in Fresh => row[c] = "none"
       /\ pc[c] = "wave" => row[c] # "none"
       /\ shape.models > 1 => /\ job[c] = "none"
                              /\ pc[c] \notin {"order", "record", "discard"}
                              /\ row[c] # "none" => c \in chunked

LEMMA RouteSplits ==
    ASSUME NEW s, s.models > 1, NEW flags, NEW budget, NEW axis
    PROVE  Route(s, flags, budget, axis) # "single"
  BY DEF Route, ModelRoute, Tiers

LEMMA StepRows == ASSUME IInv, Rows, [Next]_vars PROVE Rows' /\ shape' = shape
<1> USE SubmitAssumption DEF IInv, TypeOK, Rows, Fresh, Over, Inside, At, Goto, store
<1>1. ASSUME NEW c \in Calls, Refuse(c) \/ Join(c) \/ Acquire(c) PROVE Rows' /\ shape' = shape
  <2>1. /\ pc[c] \in {"start", "wait"} /\ UNCHANGED <<row, job, chunked, shape>>
        /\ \A d \in Calls : d # c => pc'[d] = pc[d]
        /\ pc'[c] \in {"ended", "wait", "cache", "estimate"}
    BY <1>1 DEF Refuse, Join, Acquire
  <2> QED
    BY <2>1
<1>2. ASSUME NEW c \in Calls, LookAtCache(c) \/ LookAtRows(c) PROVE Rows' /\ shape' = shape
  <2>1. /\ pc[c] \in {"cache", "rows"} /\ UNCHANGED <<row, job, chunked, shape>>
        /\ \A d \in Calls : d # c => pc'[d] = pc[d]
        /\ pc'[c] \in {"ended", "rows", "estimate"}
    BY <1>2 DEF LookAtCache, LookAtRows, Leave
  <2> QED
    BY <2>1
<1>3. ASSUME NEW c \in Calls, Decide(c) PROVE Rows' /\ shape' = shape
  <2>1. /\ pc[c] = "estimate" /\ UNCHANGED <<row, job, chunked, shape>>
        /\ \A d \in Calls : d # c => pc'[d] = pc[d]
        /\ pc'[c] \in {"order", "plan", "ended"}
    BY <1>3 DEF Decide, Leave
  <2>2. shape.models > 1 => pc'[c] # "order"
    BY <1>3, RouteSplits DEF Decide, Leave, Asking
  <2> QED
    BY <2>1, <2>2
<1>4. ASSUME NEW c \in Calls, Order(c) PROVE Rows' /\ shape' = shape
  BY <1>4 DEF Order, Leave
<1>5. ASSUME NEW c \in Calls, Record(c) \/ Discard(c) PROVE Rows' /\ shape' = shape
  BY <1>5 DEF Record, Discard, WriteRow, Leave
<1>6. ASSUME NEW c \in Calls, RecordParent(c) \/ Wave(c) PROVE Rows' /\ shape' = shape
  <2>1. CASE RecordParent(c)
    BY <2>1 DEF RecordParent, WriteRow, Leave
  <2>2. CASE Wave(c)
    <3>1. /\ pc[c] = "wave" /\ pc' = [pc EXCEPT ![c] = "ended"]
          /\ row' \in {row, [row EXCEPT ![c] = "failed"]}
          /\ UNCHANGED <<job, chunked, shape>>
      BY <2>2 DEF Wave, Leave
    <3> QED
      BY <3>1
  <2> QED
    BY <1>6, <2>1, <2>2
<1>7. ASSUME NEW c \in Calls, Cut(c) PROVE Rows' /\ shape' = shape
  <2>1. CASE pc[c] \in {"wait", "cache", "rows", "estimate", "plan"}
    BY <1>7, <2>1 DEF Cut, Leave
  <2>2. CASE pc[c] = "order"
    BY <1>7, <2>2 DEF Cut, Leave
  <2>3. CASE pc[c] = "record"
    BY <1>7, <2>3 DEF Cut, WriteRow
  <2>4. CASE pc[c] = "wave"
    BY <1>7, <2>4 DEF Cut, Leave
  <2> QED
    BY <1>7, <2>1, <2>2, <2>3, <2>4 DEF Cut
<1>8. ASSUME NEW c \in Calls, Settle(c) PROVE Rows' /\ shape' = shape
  BY <1>8 DEF Settle, Pending
<1>9. CASE Evict \/ UNCHANGED vars
  BY <1>9 DEF Evict, vars
<1>10. ASSUME NEW p \in Processes, Crash(p) PROVE Rows' /\ shape' = shape
  BY <1>10 DEF Crash
<1> QED
  BY <1>1, <1>2, <1>3, <1>4, <1>5, <1>6, <1>7, <1>8, <1>9, <1>10 DEF Next, Step

LEMMA RowsInvariant == Spec => []Rows
<1>1. Init => Rows
  BY DEF Init, Rows, Fresh
<1> QED
  BY <1>1, StepRows, Inductive, PTL DEF Spec

\* Under any options and budget, a request for several models of a dataset that runs one
\* model per job is split, refused or asked about (_submit_model_split, the gates of submit).
THEOREM SplitsModels == Spec => []NeverWhole
<1>1. Rows => NeverWhole
  BY DEF Rows, NeverWhole
<1> QED
  BY <1>1, RowsInvariant, PTL

LEMMA StepJobs == ASSUME IInv, Rows, NoOrphanJob, [Next]_vars PROVE NoOrphanJob'
<1> USE SubmitAssumption
    DEF IInv, TypeOK, Rows, Fresh, Over, Inside, At, Goto, store, NoOrphanJob
<1>1. ASSUME NEW c \in Calls, Refuse(c) \/ Join(c) \/ Acquire(c) PROVE NoOrphanJob'
  BY <1>1 DEF Refuse, Join, Acquire
<1>2. ASSUME NEW c \in Calls, LookAtCache(c) \/ LookAtRows(c) PROVE NoOrphanJob'
  <2>1. /\ pc[c] \in {"cache", "rows"} /\ UNCHANGED <<row, job>>
        /\ \A d \in Calls : d # c => pc'[d] = pc[d]
    BY <1>2 DEF LookAtCache, LookAtRows, Leave
  <2> QED
    BY <2>1
<1>3. ASSUME NEW c \in Calls, Decide(c) PROVE NoOrphanJob'
  <2>1. /\ pc[c] = "estimate" /\ UNCHANGED <<row, job>>
        /\ \A d \in Calls : d # c => pc'[d] = pc[d]
    BY <1>3 DEF Decide, Leave
  <2> QED
    BY <2>1
<1>4. ASSUME NEW c \in Calls, Order(c) PROVE NoOrphanJob'
  BY <1>4 DEF Order, Leave
<1>5. ASSUME NEW c \in Calls, Record(c) \/ Discard(c) PROVE NoOrphanJob'
  BY <1>5 DEF Record, Discard, WriteRow, Leave
<1>6. ASSUME NEW c \in Calls, RecordParent(c) \/ Wave(c) PROVE NoOrphanJob'
  <2>1. CASE RecordParent(c)
    BY <2>1 DEF RecordParent, WriteRow, Leave
  <2>2. CASE Wave(c)
    <3>1. /\ pc[c] = "wave" /\ UNCHANGED job
          /\ row' \in {row, [row EXCEPT ![c] = "failed"]}
          /\ \A d \in Calls : d # c => pc'[d] = pc[d]
      BY <2>2 DEF Wave, Leave
    <3> QED
      BY <3>1
  <2> QED
    BY <1>6, <2>1, <2>2
<1>7. ASSUME NEW c \in Calls, Cut(c) PROVE NoOrphanJob'
  <2>1. CASE pc[c] \in {"wait", "cache", "rows", "estimate", "plan"}
    BY <1>7, <2>1 DEF Cut, Leave
  <2>2. CASE pc[c] = "order"
    BY <1>7, <2>2 DEF Cut, Leave
  <2>3. CASE pc[c] = "record"
    BY <1>7, <2>3 DEF Cut, WriteRow
  <2>4. CASE pc[c] = "wave"
    BY <1>7, <2>4 DEF Cut, Leave
  <2> QED
    BY <1>7, <2>1, <2>2, <2>3, <2>4 DEF Cut
<1>8. ASSUME NEW c \in Calls, Settle(c) PROVE NoOrphanJob'
  <2>1. /\ job'[c] # "live" /\ pc' = pc
        /\ \A d \in Calls : d # c => job'[d] = job[d] /\ row'[d] = row[d]
    BY <1>8 DEF Settle
  <2> QED
    BY <2>1
<1>9. CASE Evict \/ UNCHANGED vars
  BY <1>9 DEF Evict, vars
<1>10. ASSUME NEW p \in Processes, Crash(p) PROVE NoOrphanJob'
  BY <1>10 DEF Crash
<1> QED
  BY <1>1, <1>2, <1>3, <1>4, <1>5, <1>6, <1>7, <1>8, <1>9, <1>10 DEF Next, Step

\* A job CDS is heard to accept is recorded or taken back: only the death of the server, a
\* submit that does not hear of it (its caller gives up, or its call raises, with the order
\* under way) or a failed clean-up leaves one without a row (_submit_one).
THEOREM JobsAreRecorded == Spec => []NoOrphanJob
<1>1. Init => NoOrphanJob
  BY DEF Init, NoOrphanJob
<1> QED
  BY <1>1, StepJobs, Inductive, RowsInvariant, PTL DEF Spec

----------------------------------------------------------------------------
(* One request in flight.                                                  *)

\* As long as only unforced calls of server p have recorded rows, a pending row is the one
\* recorded last; a call past its look at the rows knows that there is none.
Clean(p) == \A e \in Calls : row[e] # "none" => ~forced[e] /\ home[e] = p
Beyond == {"estimate", "order", "record", "plan"}
InTurn ==
    \A p \in Processes :
       Clean(p) =>
          \A c \in Calls :
             /\ row[c] \in Pending => latest = c
             /\ home[c] = p /\ ~forced[c] /\ pc[c] \in Beyond =>
                   \A e \in Calls : row[e] \notin Pending

\* Rows only appear, and the options of a call that has one stand.
LEMMA StepClean ==
    ASSUME IInv, Rows, [Next]_vars
    PROVE  \A e \in Calls :
              row[e] # "none" => row'[e] # "none" /\ forced'[e] = forced[e] /\ home'[e] = home[e]
<1> USE SubmitAssumption DEF IInv, TypeOK, Rows, Fresh, At, store
<1> DEFINE Stays == \A e \in Calls : row[e] # "none" => row'[e] # "none" /\ forced'[e] = forced[e]
<1>1. ASSUME NEW c \in Calls, Refuse(c) \/ Acquire(c) \/ LookAtCache(c) \/ LookAtRows(c) \/ Decide(c)
      PROVE  Stays
  BY <1>1 DEF Refuse, Acquire, LookAtCache, LookAtRows, Decide
<1>2. ASSUME NEW c \in Calls, Join(c) PROVE Stays
  BY <1>2 DEF Join
<1>3. ASSUME NEW c \in Calls, Order(c) \/ Record(c) \/ Discard(c) PROVE Stays
  BY <1>3 DEF Order, Record, Discard, WriteRow
<1>4. ASSUME NEW c \in Calls, RecordParent(c) \/ Wave(c) PROVE Stays
  BY <1>4 DEF RecordParent, Wave, WriteRow
<1>5. ASSUME NEW c \in Calls, Cut(c) PROVE Stays
  BY <1>5 DEF Cut, WriteRow
<1>6. ASSUME NEW c \in Calls, Settle(c) PROVE Stays
  BY <1>6 DEF Settle
<1>7. CASE Evict \/ (\E p \in Processes : Crash(p)) \/ UNCHANGED vars
  BY <1>7 DEF Evict, Crash, vars
<1>8. Stays
  BY <1>1, <1>2, <1>3, <1>4, <1>5, <1>6, <1>7 DEF Next, Step
<1> QED
  BY <1>8, StepLocks

\* What a step does to the rows: nobody new is past the look at the rows, or a call gets
\* past it, or records its row, or a row is settled.
Quiet ==
    /\ \A e \in Calls : row'[e] \in Pending => row[e] \in Pending
    /\ latest' = latest
Past(c) == ~forced[c] /\ pc[c] \in Beyond

LEMMA QuietTurns ==
    ASSUME IInv, Rows, InTurn, [Next]_vars, Quiet,
           \A c \in Calls : Past(c)' => Past(c) \/ \A e \in Calls : Clean(home[c]) => row[e] \notin Pending
    PROVE  InTurn'
<1> SUFFICES ASSUME NEW p \in Processes, Clean(p)', NEW c \in Calls
             PROVE  /\ row'[c] \in Pending => latest' = c
                    /\ home'[c] = p /\ Past(c)' => \A e \in Calls : row'[e] \notin Pending
  BY DEF InTurn, Past, Pending
<1>1. Clean(p) /\ home' = home
  BY StepClean, StepLocks DEF Clean
<1> QED
  BY <1>1 DEF InTurn, Quiet, Past, Pending

LEMMA RecordTurns ==
    ASSUME IInv, Rows, InTurn, [Next]_vars, NEW c \in Calls, pc[c] \in {"record", "plan"},
           pc'[c] \in {"discard", "wave"} \cup Over, forced' = forced,
           \A d \in Calls : d # c => pc'[d] = pc[d],
           WriteRow(c)
    PROVE  InTurn'
<1> SUFFICES ASSUME NEW p \in Processes, Clean(p)', NEW d \in Calls
             PROVE  /\ row'[d] \in Pending => latest' = d
                    /\ home'[d] = p /\ Past(d)' => \A e \in Calls : row'[e] \notin Pending
  BY DEF InTurn, Past, Pending
<1>1. Clean(p) /\ home' = home
  BY StepClean, StepLocks DEF Clean
<1>2. row' = [row EXCEPT ![c] = "queued"] /\ latest' = c /\ row'[c] = "queued"
  BY DEF WriteRow, IInv, TypeOK
<1>3. ~forced[c] /\ home[c] = p
  BY <1>1, <1>2 DEF Clean
<1>4. \A e \in Calls : row[e] \notin Pending
  BY <1>1, <1>3 DEF InTurn, Beyond
<1>5. ~(home[d] = p /\ Past(d)')
  <2> SUFFICES ASSUME home[d] = p, pc'[d] \in Beyond PROVE FALSE
    BY DEF Past
  <2>1. d # c
    BY DEF Beyond, Over
  <2>2. pc[d] \in Inside /\ pc[c] \in Inside
    BY <2>1 DEF Beyond, Inside
  <2>3. lock[c] = lock[d]
    BY <1>3, <2>2, InsideUses DEF IInv, Shared
  <2> QED
    BY <2>1, <2>2, <2>3 DEF IInv, Shared
<1> QED
  BY <1>1, <1>2, <1>4, <1>5 DEF Pending, IInv, TypeOK

LEMMA StepInTurn == ASSUME IInv, Rows, InTurn, [Next]_vars PROVE InTurn'
<1> USE SubmitAssumption DEF IInv, TypeOK, At, Goto, store
<1> DEFINE Same == \A c \in Calls : Past(c)' => Past(c)
<1>1. ASSUME NEW c \in Calls, Refuse(c) \/ LookAtCache(c) PROVE InTurn'
  <2>1. Quiet /\ Same
    BY <1>1 DEF Refuse, LookAtCache, Leave, Quiet, Past, Beyond
  <2> QED
    BY <2>1, QuietTurns
<1>2. ASSUME NEW c \in Calls, Join(c) PROVE InTurn'
  <2>1. Quiet /\ Same
    BY <1>2 DEF Join, Quiet, Past, Beyond
  <2> QED
    BY <2>1, QuietTurns
<1>3. ASSUME NEW c \in Calls, Acquire(c) PROVE InTurn'
  <2>1. Quiet /\ Same
    BY <1>3 DEF Acquire, Quiet, Past, Beyond
  <2> QED
    BY <2>1, QuietTurns
<1>4. ASSUME NEW c \in Calls, LookAtRows(c) PROVE InTurn'
  <2>1. Quiet
    BY <1>4 DEF LookAtRows, Quiet
  <2>2. \A d \in Calls : Past(d)' => Past(d) \/ (d = c /\ ~RowAnswers)
    BY <1>4 DEF LookAtRows, Leave, Past, Beyond
  <2>3. ASSUME ~RowAnswers, Clean(home[c]) PROVE \A e \in Calls : row[e] \notin Pending
    BY <2>3 DEF RowAnswers, InTurn
  <2> QED
    BY <2>1, <2>2, <2>3, QuietTurns
<1>5. ASSUME NEW c \in Calls, Decide(c) PROVE InTurn'
  <2>1. Quiet /\ Same
    BY <1>5 DEF Decide, Leave, Quiet, Past, Beyond
  <2> QED
    BY <2>1, QuietTurns
<1>6. ASSUME NEW c \in Calls, Order(c) \/ Discard(c) PROVE InTurn'
  <2>1. Quiet /\ Same
    BY <1>6 DEF Order, Discard, Leave, Quiet, Past, Beyond
  <2> QED
    BY <2>1, QuietTurns
<1>7. ASSUME NEW c \in Calls, Record(c) \/ RecordParent(c) PROVE InTurn'
  <2>1. /\ pc[c] \in {"record", "plan"} /\ pc'[c] \in {"discard", "wave"} \cup Over
        /\ forced' = forced /\ \A d \in Calls : d # c => pc'[d] = pc[d]
        /\ WriteRow(c) \/ UNCHANGED <<row, latest>>
    BY <1>7 DEF Record, RecordParent, Leave, Over
  <2>2. CASE WriteRow(c)
    BY <2>1, <2>2, RecordTurns
  <2>3. CASE UNCHANGED <<row, latest>>
    <3>1. Quiet /\ Same
      BY <2>1, <2>3 DEF Quiet, Past, Beyond, Over
    <3> QED
      BY <3>1, QuietTurns
  <2> QED
    BY <2>1, <2>2, <2>3
<1>8. ASSUME NEW c \in Calls, Wave(c) PROVE InTurn'
  <2>1. Quiet /\ Same
    BY <1>8 DEF Wave, Leave, Quiet, Past, Beyond, Pending
  <2> QED
    BY <2>1, QuietTurns
<1>9. ASSUME NEW c \in Calls, Cut(c) PROVE InTurn'
  <2>1. CASE pc[c] = "record" /\ WriteRow(c)
    <3>1. /\ pc'[c] = "discard" /\ forced' = forced
          /\ \A d \in Calls : d # c => pc'[d] = pc[d]
      BY <1>9, <2>1 DEF Cut
    <3> QED
      BY <2>1, <3>1, RecordTurns
  <2>2. CASE ~(pc[c] = "record" /\ WriteRow(c))
    <3>1. Quiet /\ Same
      BY <1>9, <2>2 DEF Cut, Leave, Quiet, Past, Beyond, Pending
    <3> QED
      BY <3>1, QuietTurns
  <2> QED
    BY <2>1, <2>2
<1>10. CASE (\E c \in Calls : Settle(c)) \/ Evict \/ UNCHANGED vars
  <2>1. Quiet /\ Same
    BY <1>10 DEF Settle, Evict, vars, Quiet, Past, Pending
  <2> QED
    BY <2>1, QuietTurns
<1>11. ASSUME NEW p \in Processes, Crash(p) PROVE InTurn'
  <2>1. Quiet /\ Same
    BY <1>11 DEF Crash, Quiet, Past, Beyond
  <2> QED
    BY <2>1, QuietTurns
<1> QED
  BY <1>1, <1>2, <1>3, <1>4, <1>5, <1>6, <1>7, <1>8, <1>9, <1>10, <1>11 DEF Next, Step

\* Two unforced calls of a server never both have a request in flight, however many were
\* delivered, failed, cancelled or evicted before, as long as no other server and no forced
\* call has recorded one (submit's look at the last row under the lock).
THEOREM OneInFlight == Spec => []OneOrderInFlight
<1>1. Init => InTurn
  BY DEF Init, InTurn, Clean, Beyond, Pending
<1>2. IInv /\ InTurn => OneOrderInFlight
  <2> SUFFICES ASSUME IInv, InTurn, NEW c \in Calls, NEW d \in Calls,
                      home[c] = home[d], row[c] \in Pending, row[d] \in Pending,
                      \A e \in Calls : row[e] # "none" => ~forced[e] /\ home[e] = home[c]
               PROVE  c = d
    BY DEF OneOrderInFlight
  <2>1. Clean(home[c]) /\ home[c] \in Processes
    BY SubmitAssumption DEF Clean, IInv, TypeOK
  <2> QED
    BY <2>1 DEF InTurn
<1> QED
  BY <1>1, <1>2, StepInTurn, Inductive, RowsInvariant, PTL DEF Spec
=============================================================================
