------------------------- MODULE SyslogForwardProofs -------------------------
(***************************************************************************)
(* Proofs about SyslogForward, for every number of processes, rows and     *)
(* failures, with and without the advisory lock.                           *)
(***************************************************************************)
EXTENDS SyslogForward, FiniteSetTheorems, TLAPS

\* Every action of the model keeps the variables in their types.
LEMMA TypeStep == TypeOK /\ [Next]_vars => TypeOK'
<1> SUFFICES ASSUME TypeOK, [Next]_vars PROVE TypeOK'
  OBVIOUS
<1> USE NoProcAssumption, BoundsAssumption
    DEF TypeOK, tables, config, tick, history, bounds, GoTo, DropBatch,
        DropLocals, Release, Acquire, Bootstrap, SaveBatch, Sources,
        Steps
<1>1. ASSUME NEW s \in Sources, InsertRow(s) PROVE TypeOK'
  <2>1. seq[s] + 1 \in Ids /\ seq[s] + 1 \in 0 .. MaxId
    BY <1>1 DEF InsertRow, Ids
  <2> QED BY <1>1, <2>1 DEF InsertRow
<1>2. ASSUME NEW s \in Sources, NEW id \in Ids, CommitRow(s, id) PROVE TypeOK'
  BY <1>2 DEF CommitRow
<1>3. ASSUME NEW s \in Sources, NEW id \in Ids, RollbackRow(s, id) PROVE TypeOK'
  BY <1>3 DEF RollbackRow
<1>4. ASSUME NEW id \in Ids, PruneRow(id) PROVE TypeOK'
  BY <1>4 DEF PruneRow
<1>5. ASSUME NEW on \in BOOLEAN, NEW chosen \in SUBSET Sources,
             SaveSettings(on, chosen)
      PROVE  TypeOK'
  BY <1>5 DEF SaveSettings
<1>6. ASSUME NEW p \in Procs, BeginTick(p) PROVE TypeOK'
  BY <1>6 DEF BeginTick
<1>7. ASSUME NEW p \in Procs, ReadConfig(p) PROVE TypeOK'
  BY <1>7 DEF ReadConfig
<1>8. ASSUME NEW p \in Procs, ReadCursor(p) PROVE TypeOK'
  <2> DEFINE s == NextSource(agenda[p])
  <2>1. s \in Sources
    BY DEF NextSource
  <2>2. CASE cursor[s] # -1
    BY <1>8, <2>1, <2>2 DEF ReadCursor
  <2>3. CASE cursor[s] = -1
    <3>1. PICK m \in tbl[s] \cup {0} : mark' = [mark EXCEPT ![p] = m]
      BY <1>8, <2>3 DEF ReadCursor
    <3>2. m \in 0 .. MaxId
      BY <2>1 DEF Ids
    <3>3. mark' \in [Procs -> 0 .. MaxId]
      BY <3>1, <3>2
    <3>4. left' = [left EXCEPT ![p] = tbl[s]] /\ pc' = [pc EXCEPT ![p] = "boot"]
      BY <1>8, <2>3 DEF ReadCursor
    <3> QED BY <1>8, <2>1, <3>3, <3>4 DEF ReadCursor
  <2> QED BY <2>2, <2>3
<1>9. ASSUME NEW p \in Procs, StoreBootstrap(p) PROVE TypeOK'
  BY <1>9 DEF StoreBootstrap
<1>10. ASSUME NEW p \in Procs, ReadBatch(p) PROVE TypeOK'
  <2>1. PICK rows \in SUBSET {id \in tbl[src[p]] : id > mark[p]} :
          IF rows = {}
            THEN GoTo(p, "cursor") /\ DropBatch(p)
            ELSE /\ GoTo(p, "send")
                 /\ batch' = [batch EXCEPT ![p] = rows]
                 /\ left' = [left EXCEPT ![p] = rows]
                 /\ \E last \in rows : mark' = [mark EXCEPT ![p] = last]
                 /\ UNCHANGED src
    BY <1>10 DEF ReadBatch
  <2>2. rows \in SUBSET Ids
    OBVIOUS
  <2>3. CASE rows = {}
    BY <1>10, <2>1, <2>3 DEF ReadBatch
  <2>4. CASE rows # {}
    <3>1. PICK last \in rows : mark' = [mark EXCEPT ![p] = last]
      BY <2>1, <2>4
    <3>2. last \in 0 .. MaxId
      BY <2>2 DEF Ids
    <3>3. mark' \in [Procs -> 0 .. MaxId]
      BY <3>1, <3>2
    <3>4. batch' \in [Procs -> SUBSET Ids] /\ left' \in [Procs -> SUBSET Ids]
      BY <2>1, <2>2, <2>4
    <3>5. pc' \in [Procs -> Steps] /\ src' = src
      BY <2>1, <2>4
    <3> QED BY <1>10, <3>3, <3>4, <3>5 DEF ReadBatch
  <2> QED BY <2>3, <2>4
<1>11. ASSUME NEW p \in Procs, NEW id \in Ids, SendRow(p, id) PROVE TypeOK'
  BY <1>11 DEF SendRow
<1>12. ASSUME NEW p \in Procs, StoreCursor(p) PROVE TypeOK'
  <2>1. IsFiniteSet(Ids)
    BY FS_Interval DEF Ids
  <2>2. Cardinality(batch[p]) \in Nat
    BY <2>1, FS_Subset, FS_CardinalityType
  <2>3. total[p] + Cardinality(batch[p]) \in Nat
    BY <2>2
  <2> QED BY <1>12, <2>3 DEF StoreCursor
<1>13. ASSUME NEW p \in Procs, SourcesDone(p) PROVE TypeOK'
  BY <1>13 DEF SourcesDone
<1>14. ASSUME NEW p \in Procs, Report(p) PROVE TypeOK'
  BY <1>14 DEF Report
<1>15. ASSUME NEW p \in Procs, EndTick(p) PROVE TypeOK'
  BY <1>15 DEF EndTick
<1>16. ASSUME NEW p \in Procs, SendFails(p) PROVE TypeOK'
  BY <1>16 DEF SendFails
<1>17. ASSUME NEW p \in Procs, TickFails(p) PROVE TypeOK'
  BY <1>17 DEF TickFails
<1>18. ASSUME NEW p \in Procs, Crash(p) PROVE TypeOK'
  BY <1>18 DEF Crash
<1>19. ASSUME NEW p \in Procs, SkipTick(p) PROVE TypeOK'
  BY <1>19 DEF SkipTick
<1>20. CASE UNCHANGED vars
  BY <1>20 DEF vars
<1> QED
  BY <1>1, <1>2, <1>3, <1>4, <1>5, <1>6, <1>7, <1>8, <1>9, <1>10, <1>11,
     <1>12, <1>13, <1>14, <1>15, <1>16, <1>17, <1>18, <1>19, <1>20
     DEF Next, Environment, Step, Trouble

\* Cursors, batches and telemetry of syslog_worker.py keep their types.
THEOREM TypeCorrect == Spec => []TypeOK
<1>1. Init => TypeOK
  <2> SUFFICES ASSUME Init PROVE TypeOK
    OBVIOUS
  <2>1. 0 \in 0 .. MaxId /\ -1 \in -1 .. MaxId
    BY BoundsAssumption
  <2>2. "audit" \in Sources /\ "idle" \in Steps
    BY DEF Sources, Steps
  <2> QED BY <2>1, <2>2 DEF Init, TypeOK
<1> QED BY <1>1, TypeStep, PTL DEF Spec
-----------------------------------------------------------------------------
(* No silent gap.                                                          *)

\* A row at or below the position a tick has taken is accounted for, or is one
\* of the rows that tick still holds in its hands.
Settled(p) ==
  /\ pc[p] \in Holding =>
       \A id \in tbl[src[p]] :
         id <= mark[p] => Accounted(src[p], id) \/ id \in left[p]
  /\ pc[p] \in {"query", "save"} => left[p] = {}

GapInv == NoSilentGap /\ \A p \in Procs : Settled(p)

\* A step that leaves the cursors alone, adds no row and forgets nothing that
\* was accounted for keeps NoSilentGap.
LEMMA GapKept ==
  ASSUME TypeOK, NoSilentGap, cursor' = cursor,
         \A s \in Sources : tbl'[s] \subseteq tbl[s],
         \A s \in Sources : /\ skipped[s] \subseteq skipped'[s]
                            /\ sent[s] \subseteq sent'[s]
                            /\ late[s] \subseteq late'[s]
  PROVE  NoSilentGap'
BY DEF NoSilentGap, Accounted

\* The same for what another tick has settled.
LEMMA SettledKept ==
  ASSUME TypeOK, NEW p \in Procs, Settled(p),
         pc'[p] = pc[p], src'[p] = src[p], mark'[p] = mark[p], left'[p] = left[p],
         tbl'[src[p]] \subseteq tbl[src[p]],
         skipped[src[p]] \subseteq skipped'[src[p]],
         sent[src[p]] \subseteq sent'[src[p]],
         late[src[p]] \subseteq late'[src[p]]
  PROVE  Settled(p)'
BY DEF Settled, Accounted

\* A tick that holds no position has nothing to settle.
LEMMA SettledIdle ==
  ASSUME NEW p \in Procs, pc'[p] \notin Holding PROVE Settled(p)'
BY DEF Settled, Holding

LEMMA GapStep == TypeOK /\ GapInv /\ [Next]_vars => GapInv'
<1> SUFFICES ASSUME TypeOK, GapInv, [Next]_vars PROVE GapInv'
  OBVIOUS
<1> USE DEF GapInv, tables, config, tick, history, bounds, GoTo, DropBatch,
            DropLocals, Bootstrap, SaveBatch
<1>1. ASSUME NEW s \in Sources, NEW id \in Ids, CommitRow(s, id) PROVE GapInv'
  <2>1. ASSUME NEW x \in Sources, NEW i \in tbl'[x]
        PROVE  i \in tbl[x] \/ (x = s /\ i = id)
    BY <1>1, <2>1 DEF CommitRow, TypeOK
  <2>2. ASSUME NEW x \in Sources PROVE late[x] \subseteq late'[x]
    BY <1>1 DEF CommitRow, TypeOK
  <2>3. Passed(s, id) => id \in late'[s]
    BY <1>1 DEF CommitRow, TypeOK
  <2>4. cursor' = cursor /\ skipped' = skipped /\ sent' = sent
    BY <1>1 DEF CommitRow
  <2>5. NoSilentGap'
    BY <2>1, <2>2, <2>3, <2>4 DEF NoSilentGap, Accounted, Passed
  <2>6. ASSUME NEW p \in Procs PROVE Settled(p)'
    <3>1. Settled(p) /\ src[p] \in Sources
      BY DEF TypeOK
    <3>2. /\ pc' = pc /\ src' = src /\ mark' = mark /\ left' = left
      BY <1>1 DEF CommitRow
    <3> QED
      BY <2>1, <2>2, <2>3, <2>4, <3>1, <3>2 DEF Settled, Accounted, Passed
  <2> QED BY <2>5, <2>6
<1>2. ASSUME NEW p \in Procs, NEW id \in Ids, SendRow(p, id) PROVE GapInv'
  <2>1. /\ cursor' = cursor /\ tbl' = tbl /\ skipped' = skipped /\ late' = late
        /\ src' = src /\ mark' = mark /\ src[p] \in Sources
    BY <1>2 DEF SendRow, TypeOK
  <2>2. \A s \in Sources : sent[s] \subseteq sent'[s]
    BY <1>2 DEF SendRow, TypeOK
  <2>3. NoSilentGap'
    BY <2>1, <2>2, GapKept
  <2>4. /\ id \in sent'[src[p]]
        /\ left'[p] = left[p] \ {id}
        /\ pc'[p] = IF left[p] = {id} THEN "save" ELSE "send"
    BY <1>2 DEF SendRow, TypeOK
  <2>5. Settled(p)'
    <3>1. Settled(p) /\ pc[p] = "send"
      BY <1>2 DEF SendRow
    <3> QED BY <2>1, <2>2, <2>4, <3>1 DEF Settled, Accounted, Holding
  <2>6. ASSUME NEW q \in Procs, q # p PROVE Settled(q)'
    <3>1. pc'[q] = pc[q] /\ left'[q] = left[q] /\ src[q] \in Sources
      BY <1>2, <2>6 DEF SendRow, TypeOK
    <3> QED BY <2>1, <2>2, <3>1, SettledKept
  <2> QED BY <2>3, <2>5, <2>6
<1>3. ASSUME NEW p \in Procs, ReadCursor(p) PROVE GapInv'
  <2> DEFINE s == NextSource(agenda[p])
  <2>1. s \in Sources
    BY DEF NextSource, Sources
  <2>2. cursor' = cursor /\ tbl' = tbl /\ skipped' = skipped /\ sent' = sent
        /\ late' = late
    BY <1>3 DEF ReadCursor
  <2>3. NoSilentGap'
    BY <2>2, GapKept
  <2>4. src'[p] = s
    BY <1>3, <2>1 DEF ReadCursor, TypeOK
  <2>5. CASE cursor[s] # -1
    <3>1. mark'[p] = cursor[s] /\ left'[p] = {} /\ pc'[p] = "query"
      BY <1>3, <2>5 DEF ReadCursor, TypeOK
    <3>2. Settled(p)'
      BY <2>1, <2>2, <2>4, <3>1 DEF Settled, NoSilentGap, Accounted
    <3>3. ASSUME NEW q \in Procs, q # p PROVE Settled(q)'
      <4>1. /\ pc'[q] = pc[q] /\ left'[q] = left[q] /\ src'[q] = src[q]
            /\ mark'[q] = mark[q] /\ src[q] \in Sources
        BY <1>3, <2>5, <3>3 DEF ReadCursor, TypeOK
      <4> QED BY <2>2, <4>1, SettledKept
    <3> QED BY <2>3, <3>2, <3>3
  <2>6. CASE cursor[s] = -1
    <3>1. left'[p] = tbl[s] /\ pc'[p] = "boot"
      BY <1>3, <2>6 DEF ReadCursor, TypeOK
    <3>2. Settled(p)'
      BY <2>2, <2>4, <3>1 DEF Settled
    <3>3. ASSUME NEW q \in Procs, q # p PROVE Settled(q)'
      <4>1. /\ pc'[q] = pc[q] /\ left'[q] = left[q] /\ src'[q] = src[q]
            /\ mark'[q] = mark[q] /\ src[q] \in Sources
        BY <1>3, <2>6, <3>3 DEF ReadCursor, TypeOK
      <4> QED BY <2>2, <4>1, SettledKept
    <3> QED BY <2>3, <3>2, <3>3
  <2> QED BY <2>5, <2>6
<1>4. ASSUME NEW p \in Procs, StoreBootstrap(p) PROVE GapInv'
  <2>1. /\ tbl' = tbl /\ sent' = sent /\ late' = late /\ mark' = mark
        /\ src' = src /\ src[p] \in Sources
    BY <1>4 DEF StoreBootstrap, TypeOK
  <2>2. /\ \A x \in Sources : skipped[x] \subseteq skipped'[x]
        /\ left[p] \subseteq skipped'[src[p]]
        /\ cursor'[src[p]] = mark[p]
        /\ \A x \in Sources : x # src[p] => cursor'[x] = cursor[x]
        /\ left'[p] = {} /\ pc'[p] = "query"
    BY <1>4, <2>1 DEF StoreBootstrap, TypeOK
  <2>3. \A id \in tbl[src[p]] : id <= mark[p] => Accounted(src[p], id)'
    <3>1. Settled(p) /\ pc[p] = "boot"
      BY <1>4 DEF StoreBootstrap
    <3> QED BY <2>1, <2>2, <3>1 DEF Settled, Accounted, Holding
  <2>4. NoSilentGap'
    BY <2>1, <2>2, <2>3 DEF NoSilentGap, Accounted
  <2>5. Settled(p)'
    BY <2>1, <2>2, <2>3 DEF Settled
  <2>6. ASSUME NEW q \in Procs, q # p PROVE Settled(q)'
    <3>1. pc'[q] = pc[q] /\ left'[q] = left[q] /\ src[q] \in Sources
      BY <1>4, <2>6 DEF StoreBootstrap, TypeOK
    <3> QED BY <2>1, <2>2, <3>1, SettledKept
  <2> QED BY <2>4, <2>5, <2>6
<1>5. ASSUME NEW p \in Procs, ReadBatch(p) PROVE GapInv'
  <2> DEFINE pending == {id \in tbl[src[p]] : id > mark[p]}
  <2>1. /\ cursor' = cursor /\ tbl' = tbl /\ skipped' = skipped /\ sent' = sent
        /\ late' = late /\ src[p] \in Sources
    BY <1>5 DEF ReadBatch, TypeOK
  <2>2. NoSilentGap'
    BY <2>1, GapKept
  <2>3. PICK rows \in SUBSET pending :
          /\ IsFirst(rows, pending)
          /\ IF rows = {}
               THEN GoTo(p, "cursor") /\ DropBatch(p)
               ELSE /\ GoTo(p, "send")
                    /\ left' = [left EXCEPT ![p] = rows]
                    /\ \E last \in rows :
                         /\ \A id \in rows : id <= last
                         /\ mark' = [mark EXCEPT ![p] = last]
                    /\ UNCHANGED src
    BY <1>5 DEF ReadBatch
  <2>4. Settled(p) /\ pc[p] = "query" /\ left[p] = {}
    BY <1>5 DEF ReadBatch, Settled
  <2>5. CASE rows = {}
    <3>1. pc'[p] = "cursor"
      BY <2>3, <2>5 DEF TypeOK
    <3>2. ASSUME NEW q \in Procs, q # p PROVE Settled(q)'
      <4>1. /\ pc'[q] = pc[q] /\ left'[q] = left[q] /\ src'[q] = src[q]
            /\ mark'[q] = mark[q] /\ src[q] \in Sources
        BY <2>3, <2>5, <3>2 DEF TypeOK
      <4> QED BY <2>1, <4>1, SettledKept
    <3> QED BY <2>2, <3>1, <3>2, SettledIdle DEF Holding
  <2>6. CASE rows # {}
    <3>1. PICK last \in rows : /\ \A id \in rows : id <= last
                               /\ mark' = [mark EXCEPT ![p] = last]
      BY <2>3, <2>6
    <3>2. /\ pc'[p] = "send" /\ left'[p] = rows /\ src' = src
          /\ mark'[p] = last
      BY <2>3, <2>6, <3>1 DEF TypeOK
    <3>3. ASSUME NEW id \in tbl[src[p]], id <= last
          PROVE  Accounted(src[p], id) \/ id \in rows
      <4>1. id \in Int /\ last \in Int /\ mark[p] \in Int
        BY <2>1 DEF TypeOK, Ids
      <4>2. CASE id <= mark[p]
        BY <2>4, <4>2 DEF Settled, Holding
      <4>3. CASE id > mark[p]
        BY <2>3, <3>3, <4>1, <4>3 DEF IsFirst
      <4> QED BY <4>1, <4>2, <4>3
    <3>4. Settled(p)'
      BY <2>1, <3>2, <3>3 DEF Settled, Accounted
    <3>5. ASSUME NEW q \in Procs, q # p PROVE Settled(q)'
      <4>1. /\ pc'[q] = pc[q] /\ left'[q] = left[q] /\ src'[q] = src[q]
            /\ mark'[q] = mark[q] /\ src[q] \in Sources
        BY <2>3, <2>6, <3>1, <3>5 DEF TypeOK
      <4> QED BY <2>1, <4>1, SettledKept
    <3> QED BY <2>2, <3>4, <3>5
  <2> QED BY <2>5, <2>6
<1>6. ASSUME NEW p \in Procs, StoreCursor(p) PROVE GapInv'
  <2>1. /\ tbl' = tbl /\ sent' = sent /\ late' = late /\ skipped' = skipped
        /\ src[p] \in Sources /\ pc'[p] = "cursor"
        /\ cursor'[src[p]] = mark[p]
        /\ \A x \in Sources : x # src[p] => cursor'[x] = cursor[x]
    BY <1>6 DEF StoreCursor, TypeOK
  <2>2. \A id \in tbl[src[p]] : id <= mark[p] => Accounted(src[p], id)
    <3>1. Settled(p) /\ pc[p] = "save"
      BY <1>6 DEF StoreCursor
    <3> QED BY <3>1 DEF Settled, Holding
  <2>3. NoSilentGap'
    BY <2>1, <2>2 DEF NoSilentGap, Accounted
  <2>4. ASSUME NEW q \in Procs, q # p PROVE Settled(q)'
    <3>1. /\ pc'[q] = pc[q] /\ left'[q] = left[q] /\ src'[q] = src[q]
          /\ mark'[q] = mark[q] /\ src[q] \in Sources
      BY <1>6, <2>4 DEF StoreCursor, TypeOK
    <3> QED BY <2>1, <3>1, SettledKept
  <2> QED BY <2>1, <2>3, <2>4, SettledIdle DEF Holding
<1>7. ASSUME NEW p \in Procs,
             \/ BeginTick(p) \/ ReadConfig(p) \/ SkipTick(p) \/ SourcesDone(p)
             \/ Report(p) \/ EndTick(p) \/ SendFails(p) \/ TickFails(p) \/ Crash(p)
      PROVE  GapInv'
  <2>1. /\ cursor' = cursor /\ tbl' = tbl /\ skipped' = skipped /\ sent' = sent
        /\ late' = late
    BY <1>7 DEF BeginTick, ReadConfig, SkipTick, SourcesDone, Report, EndTick,
                SendFails, TickFails, Crash
  <2>2. pc'[p] \notin Holding
    BY <1>7 DEF BeginTick, ReadConfig, SkipTick, SourcesDone, Report, EndTick,
                SendFails, TickFails, Crash, Holding, TypeOK
  <2>3. ASSUME NEW q \in Procs, q # p PROVE Settled(q)'
    <3>1. /\ pc'[q] = pc[q] /\ left'[q] = left[q] /\ src'[q] = src[q]
          /\ mark'[q] = mark[q] /\ src[q] \in Sources
      BY <1>7, <2>3
         DEF BeginTick, ReadConfig, SkipTick, SourcesDone, Report, EndTick,
             SendFails, TickFails, Crash, TypeOK
    <3> QED BY <2>1, <3>1, SettledKept
  <2> QED BY <2>1, <2>2, <2>3, GapKept, SettledIdle
<1>8. ASSUME \/ \E s \in Sources : InsertRow(s)
             \/ \E s \in Sources, id \in Ids : RollbackRow(s, id)
             \/ \E id \in Ids : PruneRow(id)
             \/ \E on \in BOOLEAN, chosen \in SUBSET Sources : SaveSettings(on, chosen)
             \/ UNCHANGED vars
      PROVE  GapInv'
  <2>1. /\ cursor' = cursor /\ skipped' = skipped /\ sent' = sent /\ late' = late
        /\ pc' = pc /\ src' = src /\ mark' = mark /\ left' = left
    BY <1>8 DEF InsertRow, RollbackRow, PruneRow, SaveSettings, vars
  <2>2. \A s \in Sources : tbl'[s] \subseteq tbl[s]
    BY <1>8 DEF InsertRow, RollbackRow, PruneRow, SaveSettings, vars, TypeOK
  <2>3. \A p \in Procs : src[p] \in Sources
    BY DEF TypeOK
  <2> QED BY <2>1, <2>2, <2>3, GapKept, SettledKept
<1> QED
  BY <1>1, <1>2, <1>3, <1>4, <1>5, <1>6, <1>7, <1>8
     DEF Next, Environment, Step, Trouble

\* _run_tick leaves no visible row below a cursor unsent without a reason, for
\* any number of forwarders and writers, whatever fails, lock or no lock.
THEOREM SyslogNoSilentGap == Spec => []NoSilentGap
<1>1. Init => GapInv
  BY DEF Init, GapInv, NoSilentGap, Settled, Holding, Sources
<1>2. GapInv => NoSilentGap
  BY DEF GapInv
<1> QED BY <1>1, <1>2, TypeCorrect, GapStep, PTL DEF Spec
-----------------------------------------------------------------------------
(* The cursor under the advisory lock.                                     *)

\* On PostgreSQL the forwarder inside a tick is the holder of the lock, and the
\* position it has taken is not behind the stored cursor.
LockInv == \A p \in Procs : pc[p] # "idle" => lock = p

Ahead(p) ==
  /\ pc[p] = "boot" => cursor[src[p]] = -1
  /\ pc[p] \in {"query", "send", "save"} => cursor[src[p]] <= mark[p]

CursorInv == LockInv /\ \A p \in Procs : Ahead(p)

\* A tick whose locals and cursors are untouched stays ahead.
LEMMA AheadKept ==
  ASSUME NEW p \in Procs, Ahead(p), pc'[p] = pc[p], src'[p] = src[p],
         mark'[p] = mark[p], cursor' = cursor
  PROVE  Ahead(p)'
BY DEF Ahead

LEMMA CursorStep ==
  ASSUME Dialect = "postgresql", TypeOK, CursorInv, [Next]_vars
  PROVE  CursorInv' /\ \A s \in Sources : cursor'[s] >= cursor[s]
<1> USE NoProcAssumption
    DEF tables, config, tick, history, bounds, GoTo, Acquire, Bootstrap, SaveBatch
<1> DEFINE Goal == CursorInv' /\ \A s \in Sources : cursor'[s] >= cursor[s]
<1>0. \A s \in Sources : cursor[s] \in Int
  BY BoundsAssumption DEF TypeOK
<1>1. ASSUME NEW p \in Procs, pc[p] # "idle",
             \A q \in Procs : q # p => pc'[q] = pc[q],
             lock' = lock \/ (pc'[p] = "idle" /\ lock' = NoProc)
      PROVE  LockInv' /\ \A q \in Procs : q # p => pc[q] = "idle" /\ pc'[q] = "idle"
  BY <1>1 DEF CursorInv, LockInv, TypeOK
<1>2. ASSUME NEW p \in Procs, BeginTick(p) PROVE Goal
  <2>1. lock = NoProc /\ lock' = p /\ cursor' = cursor
    BY <1>2 DEF BeginTick
  <2>2. \A q \in Procs : pc[q] = "idle"
    BY <2>1 DEF CursorInv, LockInv
  <2>3. pc'[p] = "config" /\ \A q \in Procs : q # p => pc'[q] = "idle"
    BY <1>2, <2>2 DEF BeginTick, TypeOK
  <2> QED BY <2>1, <2>3, <1>0 DEF CursorInv, LockInv, Ahead
<1>3. ASSUME NEW p \in Procs, ReadCursor(p) PROVE Goal
  <2> DEFINE s == NextSource(agenda[p])
  <2>1. /\ s \in Sources /\ cursor' = cursor /\ lock' = lock /\ pc[p] = "cursor"
        /\ \A q \in Procs : q # p => pc'[q] = pc[q]
        /\ src'[p] = s
    BY <1>3 DEF ReadCursor, NextSource, Sources, TypeOK
  <2>2. Ahead(p)'
    <3>1. CASE cursor[s] # -1
      <4>1. mark'[p] = cursor[s] /\ pc'[p] = "query"
        BY <1>3, <3>1 DEF ReadCursor, TypeOK
      <4> QED BY <2>1, <4>1, <1>0 DEF Ahead
    <3>2. CASE cursor[s] = -1
      <4>1. pc'[p] = "boot"
        BY <1>3, <3>2 DEF ReadCursor, TypeOK
      <4> QED BY <2>1, <3>2, <4>1 DEF Ahead
    <3> QED BY <3>1, <3>2
  <2> QED BY <1>0, <1>1, <2>1, <2>2 DEF CursorInv, Ahead
<1>4. ASSUME NEW p \in Procs, StoreBootstrap(p) PROVE Goal
  <2>1. /\ lock' = lock /\ pc[p] = "boot" /\ pc'[p] = "query" /\ src' = src
        /\ mark' = mark /\ src[p] \in Sources /\ mark[p] \in 0 .. MaxId
        /\ \A q \in Procs : q # p => pc'[q] = pc[q]
        /\ cursor'[src[p]] = mark[p]
        /\ \A x \in Sources : x # src[p] => cursor'[x] = cursor[x]
    BY <1>4 DEF StoreBootstrap, TypeOK
  <2>2. cursor[src[p]] = -1
    BY <2>1 DEF CursorInv, Ahead
  <2> QED BY <1>0, <1>1, <2>1, <2>2, BoundsAssumption DEF CursorInv, Ahead
<1>5. ASSUME NEW p \in Procs, ReadBatch(p) PROVE Goal
  <2> DEFINE pending == {id \in tbl[src[p]] : id > mark[p]}
  <2>1. PICK rows \in SUBSET pending :
          IF rows = {}
            THEN GoTo(p, "cursor")
            ELSE /\ GoTo(p, "send")
                 /\ \E last \in rows : mark' = [mark EXCEPT ![p] = last]
                 /\ UNCHANGED src
    BY <1>5 DEF ReadBatch
  <2>2. /\ lock' = lock /\ cursor' = cursor /\ pc[p] = "query" /\ src[p] \in Sources
        /\ \A q \in Procs : q # p => pc'[q] = pc[q]
    BY <1>5, <2>1 DEF ReadBatch, TypeOK
  <2>3. Ahead(p)'
    <3>1. CASE rows = {}
      BY <2>1, <3>1 DEF Ahead, TypeOK
    <3>2. CASE rows # {}
      <4>1. PICK last \in rows : mark' = [mark EXCEPT ![p] = last]
        BY <2>1, <3>2
      <4>2. /\ pc'[p] = "send" /\ src' = src /\ mark'[p] = last
            /\ last > mark[p] /\ last \in Int /\ mark[p] \in Int
        BY <2>1, <2>2, <3>2, <4>1, BoundsAssumption DEF TypeOK, Ids
      <4>3. cursor[src[p]] <= mark[p]
        BY <2>2 DEF CursorInv, Ahead
      <4> QED BY <1>0, <2>2, <4>2, <4>3 DEF Ahead
    <3> QED BY <3>1, <3>2
  <2> QED BY <1>0, <1>1, <2>2, <2>3 DEF CursorInv, Ahead
<1>6. ASSUME NEW p \in Procs, NEW id \in Ids, SendRow(p, id) PROVE Goal
  <2>1. /\ lock' = lock /\ cursor' = cursor /\ pc[p] = "send" /\ src' = src
        /\ mark' = mark /\ pc'[p] \in {"send", "save"}
        /\ \A q \in Procs : q # p => pc'[q] = pc[q]
    BY <1>6 DEF SendRow, TypeOK
  <2> QED BY <1>0, <1>1, <2>1 DEF CursorInv, Ahead
<1>7. ASSUME NEW p \in Procs, StoreCursor(p) PROVE Goal
  <2>1. /\ lock' = lock /\ pc[p] = "save" /\ pc'[p] = "cursor" /\ src[p] \in Sources
        /\ \A q \in Procs : q # p => pc'[q] = pc[q]
        /\ cursor'[src[p]] = mark[p]
        /\ \A x \in Sources : x # src[p] => cursor'[x] = cursor[x]
        /\ mark[p] \in Int
    BY <1>7, BoundsAssumption DEF StoreCursor, DropBatch, TypeOK
  <2>2. cursor[src[p]] <= mark[p]
    BY <2>1 DEF CursorInv, Ahead
  <2> QED BY <1>0, <1>1, <2>1, <2>2 DEF CursorInv, Ahead
<1>8. ASSUME NEW p \in Procs,
             \/ ReadConfig(p) \/ SkipTick(p) \/ SourcesDone(p) \/ Report(p)
             \/ EndTick(p) \/ SendFails(p) \/ TickFails(p) \/ Crash(p)
      PROVE  Goal
  <2>1. /\ cursor' = cursor /\ pc[p] # "idle"
        /\ pc'[p] \in {"cursor", "report", "unlock", "idle"}
        /\ \A q \in Procs : q # p => pc'[q] = pc[q]
    BY <1>8 DEF ReadConfig, SkipTick, SourcesDone, Report, EndTick, SendFails,
                TickFails, Crash, TypeOK
  <2>2. lock = p
    BY <2>1 DEF CursorInv, LockInv
  <2>3. lock' = lock \/ (pc'[p] = "idle" /\ lock' = NoProc)
    BY <1>8, <2>2 DEF ReadConfig, SkipTick, SourcesDone, Report, EndTick,
                      SendFails, TickFails, Crash, Release, TypeOK
  <2> QED BY <1>0, <1>1, <2>1, <2>3 DEF CursorInv, Ahead
<1>9. ASSUME \/ \E s \in Sources : InsertRow(s)
             \/ \E s \in Sources, id \in Ids : CommitRow(s, id) \/ RollbackRow(s, id)
             \/ \E id \in Ids : PruneRow(id)
             \/ \E on \in BOOLEAN, chosen \in SUBSET Sources : SaveSettings(on, chosen)
             \/ UNCHANGED vars
      PROVE  Goal
  <2>1. /\ cursor' = cursor /\ lock' = lock /\ pc' = pc /\ src' = src /\ mark' = mark
    BY <1>9 DEF InsertRow, CommitRow, RollbackRow, PruneRow, SaveSettings, vars
  <2> QED BY <1>0, <2>1, AheadKept DEF CursorInv, LockInv
<1> QED
  BY <1>2, <1>3, <1>4, <1>5, <1>6, <1>7, <1>8, <1>9
     DEF Next, Environment, Step, Trouble

\* Under advisory lock 815005 no forwarder of syslog_worker.py overwrites a
\* cursor with an older one, whichever processes die holding the lock.
THEOREM SyslogCursorMonotone ==
  ASSUME Dialect = "postgresql" PROVE Spec => CursorNeverMovesBack
<1>1. Init => CursorInv
  BY DEF Init, CursorInv, LockInv, Ahead
<1>2. TypeOK /\ CursorInv /\ [Next]_vars => CursorInv'
  BY CursorStep
<1>3. TypeOK /\ CursorInv /\ [Next]_vars
        => [\A s \in Sources : cursor'[s] >= cursor[s]]_cursor
  BY CursorStep
<1> QED BY <1>1, <1>2, <1>3, TypeCorrect, PTL DEF Spec, CursorNeverMovesBack
-----------------------------------------------------------------------------
(* The ledger of what was sent, under the advisory lock.                   *)

\* The rows a stored cursor accounts for, and how many they are.
Counted(s)  == {id \in sent[s] : id <= cursor[s]}
CountedRows == Cardinality(Counted("modsecurity")) + Cardinality(Counted("audit"))

Sending == {"send", "save"}

\* What a tick holds fits the stored cursor: a bootstrap skips rows up to its
\* mark, a batch lies between the cursor and the mark and is sent but for what
\* is left of it, and the local counter is not ahead of the cursors.
TickFits(p) ==
  /\ pc[p] = "boot" => \A id \in left[p] : id <= mark[p]
  /\ pc[p] \in {"query", "send", "save"} => cursor[src[p]] >= 0
  /\ pc[p] \in Sending =>
       /\ \A id \in batch[p] : cursor[src[p]] < id /\ id <= mark[p]
       /\ left[p] \subseteq batch[p]
       /\ batch[p] \subseteq sent[src[p]] \cup left[p]
  /\ pc[p] = "save" => left[p] = {}
  /\ pc[p] \in Holding \cup {"cursor", "report"} => total[p] <= CountedRows

\* History lies below the cursor, and nothing is sent before there is one.
HistoryBelow ==
  \A s \in Sources : /\ \A id \in skipped[s] : id <= cursor[s]
                     /\ cursor[s] = -1 => sent[s] = {}

LedgerInv ==
  /\ \A p \in Procs : TickFits(p)
  /\ HistoryBelow
  /\ HistoryStaysHome
  /\ sentTotal <= CountedRows

\* As long as nothing failed, what lies above a cursor was sent by the tick at
\* work, and its rest was not.
FreshInv ==
  fails + crashes = 0 =>
    /\ ~dup
    /\ \A s \in Sources : \A id \in sent[s] :
         \/ id <= cursor[s]
         \/ \E p \in Procs : pc[p] \in Sending /\ src[p] = s /\ id <= mark[p]
    /\ \A p \in Procs : pc[p] = "send" => left[p] \cap sent[src[p]] = {}

\* Under the lock a tick at work is the only one.
LEMMA SoleTick ==
  ASSUME CursorInv, NEW p \in Procs, pc[p] # "idle"
  PROVE  \A q \in Procs : q # p => pc[q] = "idle"
BY DEF CursorInv, LockInv

\* No step takes back what was handed to the socket.
LEMMA SentGrows ==
  ASSUME TypeOK, [Next]_vars PROVE \A s \in Sources : sent[s] \subseteq sent'[s]
<1> USE DEF tables, config, tick, history, bounds, Bootstrap, SaveBatch
<1>1. ASSUME NEW p \in Procs, NEW id \in Ids, SendRow(p, id)
      PROVE  \A s \in Sources : sent[s] \subseteq sent'[s]
  BY <1>1 DEF SendRow, TypeOK
<1>2. ASSUME NEW p \in Procs,
             \/ BeginTick(p) \/ ReadConfig(p) \/ SkipTick(p) \/ ReadCursor(p)
             \/ StoreBootstrap(p) \/ ReadBatch(p) \/ StoreCursor(p)
             \/ SourcesDone(p) \/ Report(p) \/ EndTick(p) \/ Trouble(p)
      PROVE  sent' = sent
  BY <1>2 DEF BeginTick, ReadConfig, SkipTick, ReadCursor, StoreBootstrap,
              ReadBatch, StoreCursor, SourcesDone, Report, EndTick, Trouble,
              SendFails, TickFails, Crash
<1>3. ASSUME Environment \/ UNCHANGED vars PROVE sent' = sent
  BY <1>3 DEF Environment, InsertRow, CommitRow, RollbackRow, PruneRow,
              SaveSettings, vars
<1> QED BY <1>1, <1>2, <1>3 DEF Next, Step

\* The rows accounted for are finitely many in each table.
LEMMA CountedFinite ==
  ASSUME TypeOK, NEW s \in Sources
  PROVE  /\ IsFiniteSet(Counted(s))
         /\ Cardinality(Counted(s)) \in Nat
<1>1. IsFiniteSet(Ids)
  BY FS_Interval, BoundsAssumption DEF Ids
<1>2. Counted(s) \subseteq Ids
  BY DEF TypeOK, Counted
<1> QED BY <1>1, <1>2, FS_Subset, FS_CardinalityType

\* The sizes of two sets that share nothing add up.
LEMMA DisjointUnion ==
  ASSUME NEW S, IsFiniteSet(S), NEW T, IsFiniteSet(T), S \cap T = {}
  PROVE  Cardinality(S \cup T) = Cardinality(S) + Cardinality(T)
<1>1. Cardinality(S \cap T) = 0
  BY FS_EmptySet
<1>2. Cardinality(S) \in Nat /\ Cardinality(T) \in Nat
  BY FS_CardinalityType
<1>3. Cardinality(S \cup T) = Cardinality(S) + Cardinality(T) - Cardinality(S \cap T)
  BY FS_Union
<1> QED BY <1>1, <1>2, <1>3

\* While no cursor moves back, what is accounted for stays so.
LEMMA CountedGrows ==
  ASSUME TypeOK, TypeOK',
         \A s \in Sources : cursor'[s] >= cursor[s],
         \A s \in Sources : sent[s] \subseteq sent'[s]
  PROVE  /\ CountedRows \in Nat /\ CountedRows' \in Nat
         /\ CountedRows <= CountedRows'
<1>1. ASSUME NEW s \in Sources
      PROVE  /\ Cardinality(Counted(s)) \in Nat
             /\ Cardinality(Counted(s)') \in Nat
             /\ Cardinality(Counted(s)) <= Cardinality(Counted(s)')
  <2>1. Counted(s) \subseteq Counted(s)'
    <3>1. \A id \in sent[s] : id \in Int
      BY DEF TypeOK, Ids
    <3>2. cursor[s] \in Int /\ cursor'[s] \in Int
      BY BoundsAssumption DEF TypeOK
    <3> QED BY <3>1, <3>2 DEF Counted
  <2>2. IsFiniteSet(Counted(s)) /\ Cardinality(Counted(s)) \in Nat
    BY CountedFinite
  <2>3. IsFiniteSet(Counted(s)') /\ Cardinality(Counted(s)') \in Nat
    <3>1. IsFiniteSet(Ids)
      BY FS_Interval, BoundsAssumption DEF Ids
    <3>2. Counted(s)' \subseteq Ids
      BY DEF TypeOK, Counted
    <3> QED BY <3>1, <3>2, FS_Subset, FS_CardinalityType
  <2> QED BY <2>1, <2>2, <2>3, FS_Subset
<1>2. "modsecurity" \in Sources /\ "audit" \in Sources
  BY DEF Sources
<1> QED BY <1>1, <1>2 DEF CountedRows

\* A step that has one forwarder at work keeps the ledger if that forwarder and
\* the tables of record do.
LEMMA LedgerStep ==
  ASSUME Dialect = "postgresql", TypeOK, CursorInv, LedgerInv, [Next]_vars
  PROVE  LedgerInv'
<1> USE DEF tables, config, tick, history, bounds, GoTo, DropBatch, DropLocals,
            Bootstrap, SaveBatch
<1>0. /\ TypeOK' /\ CursorInv'
      /\ \A s \in Sources : cursor'[s] >= cursor[s]
      /\ CountedRows \in Nat /\ CountedRows' \in Nat
      /\ CountedRows <= CountedRows'
  BY TypeStep, CursorStep, SentGrows, CountedGrows
<1>1. /\ \A s \in Sources : cursor[s] \in Int /\ cursor'[s] \in Int
      /\ \A s \in Sources : skipped[s] \subseteq Int /\ sent[s] \subseteq Int
      /\ \A p \in Procs : src[p] \in Sources /\ mark[p] \in Nat /\ total[p] \in Nat
      /\ sentTotal \in Nat
  BY <1>0, BoundsAssumption DEF TypeOK, Ids
<1>2. ASSUME NEW p \in Procs, pc[p] # "idle",
             \A q \in Procs : q # p => pc'[q] = pc[q],
             TickFits(p)', HistoryBelow', HistoryStaysHome',
             sentTotal' <= CountedRows'
      PROVE  LedgerInv'
  <2>1. ASSUME NEW q \in Procs, q # p PROVE TickFits(q)'
    <3>1. pc'[q] = "idle"
      BY <1>2, <2>1, SoleTick
    <3> QED BY <3>1 DEF TickFits, Holding, Sending
  <2> QED BY <1>2, <2>1 DEF LedgerInv
\* A step that leaves cursors, history and counter alone.
<1>3. ASSUME cursor' = cursor, skipped' = skipped, sent' = sent,
             sentTotal' = sentTotal
      PROVE  HistoryBelow' /\ HistoryStaysHome' /\ sentTotal' <= CountedRows'
  BY <1>3, <1>0, <1>1 DEF LedgerInv, HistoryBelow, HistoryStaysHome
<1>4. ASSUME NEW p \in Procs, BeginTick(p) PROVE LedgerInv'
  <2>1. /\ cursor' = cursor /\ skipped' = skipped /\ sent' = sent
        /\ sentTotal' = sentTotal /\ lock = NoProc
    BY <1>4 DEF BeginTick, Acquire
  <2>2. \A q \in Procs : pc[q] = "idle"
    BY <2>1, NoProcAssumption DEF CursorInv, LockInv
  <2>3. \A q \in Procs : pc'[q] \in {"idle", "config"}
    BY <1>4, <2>2 DEF BeginTick, TypeOK
  <2>4. \A q \in Procs : TickFits(q)'
    BY <2>3 DEF TickFits, Holding, Sending
  <2> QED BY <1>3, <2>1, <2>4 DEF LedgerInv
<1>5. ASSUME NEW p \in Procs,
             \/ ReadConfig(p) \/ SkipTick(p) \/ SourcesDone(p) \/ EndTick(p)
             \/ SendFails(p) \/ TickFails(p) \/ Crash(p)
      PROVE  LedgerInv'
  <2>1. /\ cursor' = cursor /\ skipped' = skipped /\ sent' = sent
        /\ sentTotal' = sentTotal /\ pc[p] # "idle"
        /\ \A q \in Procs : q # p => pc'[q] = pc[q]
        /\ pc'[p] \in {"cursor", "report", "unlock", "idle"}
    BY <1>5 DEF ReadConfig, SkipTick, SourcesDone, EndTick, SendFails,
                TickFails, Crash, TypeOK
  <2>2. pc'[p] \in {"cursor", "report"} =>
          \/ total'[p] = sentTotal
          \/ total'[p] = total[p] /\ pc[p] \in {"cursor", "send"}
    BY <1>5 DEF ReadConfig, SkipTick, SourcesDone, EndTick, SendFails,
                TickFails, Crash, TypeOK
  <2>3. pc'[p] \in {"cursor", "report"} => total'[p] <= CountedRows'
    BY <1>0, <1>1, <2>2 DEF LedgerInv, TickFits, Holding
  <2>4. TickFits(p)'
    BY <2>1, <2>3 DEF TickFits, Holding, Sending
  <2> QED BY <1>2, <1>3, <2>1, <2>4
<1>6. ASSUME NEW p \in Procs, ReadCursor(p) PROVE LedgerInv'
  <2> DEFINE s == NextSource(agenda[p])
  <2>1. /\ s \in Sources /\ cursor' = cursor /\ sent' = sent
        /\ skipped' = skipped /\ sentTotal' = sentTotal /\ total' = total
        /\ pc[p] = "cursor" /\ src'[p] = s
        /\ \A q \in Procs : q # p => pc'[q] = pc[q]
    BY <1>6 DEF ReadCursor, NextSource, Sources, TypeOK
  <2>2. total'[p] <= CountedRows'
    BY <1>0, <1>1, <2>1 DEF LedgerInv, TickFits
  <2>3. CASE cursor[s] # -1
    <3>1. pc'[p] = "query" /\ cursor'[src'[p]] >= 0
      BY <1>6, <2>1, <2>3, BoundsAssumption DEF ReadCursor, TypeOK
    <3>2. TickFits(p)'
      BY <2>2, <3>1 DEF TickFits, Sending
    <3> QED BY <1>2, <1>3, <2>1, <3>2
  <2>4. CASE cursor[s] = -1
    <3>1. PICK m \in tbl[s] \cup {0} : /\ \A id \in tbl[s] : id <= m
                                       /\ mark' = [mark EXCEPT ![p] = m]
      BY <1>6, <2>4 DEF ReadCursor
    <3>2. pc'[p] = "boot" /\ left'[p] = tbl[s] /\ mark'[p] = m
      BY <1>6, <2>4, <3>1 DEF ReadCursor, TypeOK
    <3>3. TickFits(p)'
      BY <2>2, <3>1, <3>2 DEF TickFits, Sending
    <3> QED BY <1>2, <1>3, <2>1, <3>3
  <2> QED BY <2>3, <2>4
<1>7. ASSUME NEW p \in Procs, StoreBootstrap(p) PROVE LedgerInv'
  <2>1. /\ pc[p] = "boot" /\ pc'[p] = "query" /\ src' = src /\ sent' = sent
        /\ total' = total /\ sentTotal' = sentTotal
        /\ \A q \in Procs : q # p => pc'[q] = pc[q]
        /\ cursor'[src[p]] = mark[p]
        /\ \A x \in Sources : x # src[p] => cursor'[x] = cursor[x]
        /\ skipped'[src[p]] = skipped[src[p]] \cup left[p]
        /\ \A x \in Sources : x # src[p] => skipped'[x] = skipped[x]
    BY <1>7 DEF StoreBootstrap, TypeOK
  <2>2. cursor[src[p]] = -1
    BY <2>1 DEF CursorInv, Ahead
  <2>3. sent[src[p]] = {}
    BY <1>1, <2>2 DEF LedgerInv, HistoryBelow
  <2>4. \A id \in left[p] : id <= mark[p]
    BY <2>1 DEF LedgerInv, TickFits
  <2>5. HistoryBelow'
    <3>1. ASSUME NEW x \in Sources PROVE /\ \A id \in skipped'[x] : id <= cursor'[x]
                                         /\ cursor'[x] = -1 => sent'[x] = {}
      <4>1. CASE x # src[p]
        BY <2>1, <4>1 DEF LedgerInv, HistoryBelow
      <4>2. CASE x = src[p]
        <5>1. \A id \in skipped[x] : id <= mark[p]
          BY <1>0, <1>1, <2>1, <4>2 DEF LedgerInv, HistoryBelow
        <5> QED BY <1>1, <2>1, <2>3, <2>4, <4>2, <5>1
      <4> QED BY <4>1, <4>2
    <3> QED BY <3>1 DEF HistoryBelow
  <2>6. HistoryStaysHome'
    BY <2>1, <2>3 DEF LedgerInv, HistoryStaysHome
  <2>7. total'[p] <= CountedRows' /\ sentTotal' <= CountedRows'
    BY <1>0, <1>1, <2>1 DEF LedgerInv, TickFits, Holding
  <2>8. TickFits(p)'
    BY <1>1, <2>1, <2>7 DEF TickFits, Sending
  <2> QED BY <1>2, <2>1, <2>5, <2>6, <2>7, <2>8
<1>8. ASSUME NEW p \in Procs, ReadBatch(p) PROVE LedgerInv'
  <2> DEFINE pending == {id \in tbl[src[p]] : id > mark[p]}
  <2>1. PICK rows \in SUBSET pending :
          IF rows = {}
            THEN GoTo(p, "cursor")
            ELSE /\ GoTo(p, "send")
                 /\ batch' = [batch EXCEPT ![p] = rows]
                 /\ left' = [left EXCEPT ![p] = rows]
                 /\ \E last \in rows :
                      /\ \A id \in rows : id <= last
                      /\ mark' = [mark EXCEPT ![p] = last]
                 /\ UNCHANGED src
    BY <1>8 DEF ReadBatch
  <2>2. /\ cursor' = cursor /\ sent' = sent /\ skipped' = skipped
        /\ sentTotal' = sentTotal /\ total' = total /\ pc[p] = "query"
        /\ \A q \in Procs : q # p => pc'[q] = pc[q]
    BY <1>8, <2>1 DEF ReadBatch, TypeOK
  <2>3. total'[p] <= CountedRows'
    BY <1>0, <1>1, <2>2 DEF LedgerInv, TickFits, Holding
  <2>4. TickFits(p)'
    <3>1. CASE rows = {}
      <4>1. pc'[p] = "cursor"
        BY <2>1, <3>1 DEF TypeOK
      <4> QED BY <2>3, <4>1 DEF TickFits, Sending
    <3>2. CASE rows # {}
      <4>1. PICK last \in rows : /\ \A id \in rows : id <= last
                                 /\ mark' = [mark EXCEPT ![p] = last]
        BY <2>1, <3>2
      <4>2. /\ pc'[p] = "send" /\ src' = src /\ mark'[p] = last
            /\ batch'[p] = rows /\ left'[p] = rows
        BY <2>1, <3>2, <4>1 DEF TypeOK
      <4>3. cursor[src[p]] >= 0 /\ cursor[src[p]] <= mark[p]
        BY <2>2 DEF LedgerInv, TickFits, CursorInv, Ahead
      <4>4. \A id \in rows : id \in Int /\ cursor[src[p]] < id
        BY <1>1, <4>3 DEF TypeOK, Ids
      <4> QED BY <2>2, <2>3, <4>1, <4>2, <4>3, <4>4 DEF TickFits
    <3> QED BY <3>1, <3>2
  <2> QED BY <1>2, <1>3, <2>2, <2>4
<1>9. ASSUME NEW p \in Procs, NEW id \in Ids, SendRow(p, id) PROVE LedgerInv'
  <2>1. /\ pc[p] = "send" /\ cursor' = cursor /\ skipped' = skipped
        /\ src' = src /\ mark' = mark /\ batch' = batch /\ total' = total
        /\ sentTotal' = sentTotal /\ id \in left[p]
        /\ \A q \in Procs : q # p => pc'[q] = pc[q]
        /\ pc'[p] = IF left[p] = {id} THEN "save" ELSE "send"
        /\ left'[p] = left[p] \ {id}
        /\ sent'[src[p]] = sent[src[p]] \cup {id}
        /\ \A x \in Sources : x # src[p] => sent'[x] = sent[x]
    BY <1>9 DEF SendRow, TypeOK
  <2>2. /\ cursor[src[p]] >= 0
        /\ \A i \in batch[p] : cursor[src[p]] < i /\ i <= mark[p]
        /\ left[p] \subseteq batch[p]
        /\ batch[p] \subseteq sent[src[p]] \cup left[p]
        /\ total[p] <= CountedRows
    BY <2>1 DEF LedgerInv, TickFits, Sending, Holding
  <2>3. HistoryBelow'
    BY <1>1, <2>1, <2>2 DEF LedgerInv, HistoryBelow
  <2>4. HistoryStaysHome'
    <3>1. cursor[src[p]] < id /\ id \in Int
      BY <2>1, <2>2 DEF Ids
    <3>2. id \notin skipped[src[p]]
      BY <1>1, <3>1 DEF LedgerInv, HistoryBelow
    <3> QED BY <2>1, <3>2 DEF LedgerInv, HistoryStaysHome
  <2>5. total'[p] <= CountedRows' /\ sentTotal' <= CountedRows'
    BY <1>0, <1>1, <2>1, <2>2 DEF LedgerInv
  <2>6. TickFits(p)'
    <3>1. batch'[p] \subseteq sent'[src'[p]] \cup left'[p]
      BY <2>1, <2>2
    <3>2. left'[p] \subseteq batch'[p] /\ pc'[p] \in {"send", "save"}
      BY <2>1, <2>2
    <3>3. pc'[p] = "save" => left'[p] = {}
      BY <2>1
    <3> QED BY <2>1, <2>2, <2>5, <3>1, <3>2, <3>3 DEF TickFits
  <2> QED BY <1>2, <2>1, <2>3, <2>4, <2>5, <2>6
<1>10. ASSUME NEW p \in Procs, StoreCursor(p) PROVE LedgerInv'
  <2>0. PICK s \in Sources : s = src[p]
    BY <1>1
  <2>1. /\ pc[p] = "save" /\ pc'[p] = "cursor" /\ sent' = sent
        /\ skipped' = skipped /\ sentTotal' = sentTotal
        /\ total'[p] = total[p] + Cardinality(batch[p])
        /\ \A q \in Procs : q # p => pc'[q] = pc[q]
        /\ cursor'[s] = mark[p] /\ s \in Sources
        /\ \A x \in Sources : x # s => cursor'[x] = cursor[x]
    BY <1>10, <2>0 DEF StoreCursor, TypeOK
  <2>2. /\ cursor[s] >= 0
        /\ \A i \in batch[p] : cursor[s] < i /\ i <= mark[p]
        /\ batch[p] \subseteq sent[s]
        /\ total[p] <= CountedRows
    BY <2>0, <2>1 DEF LedgerInv, TickFits, Sending, Holding
  <2>3. HistoryBelow'
    BY <1>0, <1>1, <2>1, <2>2 DEF LedgerInv, HistoryBelow
  <2>4. HistoryStaysHome'
    BY <2>1 DEF LedgerInv, HistoryStaysHome
  <2>5. CountedRows + Cardinality(batch[p]) <= CountedRows'
    <3>1. IsFiniteSet(Ids)
      BY FS_Interval, BoundsAssumption DEF Ids
    <3>2. IsFiniteSet(batch[p])
      BY <3>1, FS_Subset DEF TypeOK
    <3>3. \A x \in Sources : /\ IsFiniteSet(Counted(x))
                             /\ Cardinality(Counted(x)) \in Nat
      BY CountedFinite
    <3>4. ASSUME NEW x \in Sources
          PROVE  IsFiniteSet(Counted(x)') /\ Cardinality(Counted(x)') \in Nat
      <4>1. Counted(x)' \subseteq Ids
        BY <1>0 DEF TypeOK, Counted
      <4> QED BY <3>1, <4>1, FS_Subset, FS_CardinalityType
    <3>5. Counted(s) \cap batch[p] = {}
      BY <1>1, <2>1, <2>2 DEF Counted
    <3>6. Cardinality(Counted(s) \cup batch[p])
            = Cardinality(Counted(s)) + Cardinality(batch[p])
      BY <3>2, <3>3, <3>5, DisjointUnion
    <3>7. Counted(s) \cup batch[p] \subseteq Counted(s)'
      BY <1>0, <1>1, <2>1, <2>2 DEF Counted
    <3>8. /\ Cardinality(Counted(s) \cup batch[p]) \in Nat
          /\ Cardinality(Counted(s) \cup batch[p]) <= Cardinality(Counted(s)')
      BY <2>1, <3>2, <3>4, <3>7, FS_Subset, FS_CardinalityType
    <3>9. ASSUME NEW x \in Sources, x # s
          PROVE  Counted(x)' = Counted(x)
      BY <2>1, <3>9 DEF Counted
    <3>10. Cardinality(batch[p]) \in Nat
      BY <3>2, FS_CardinalityType
    <3> QED
      BY <2>1, <3>3, <3>4, <3>6, <3>8, <3>9, <3>10 DEF CountedRows, Sources
  <2>6. Cardinality(batch[p]) \in Nat
    <3>1. IsFiniteSet(Ids) /\ batch[p] \subseteq Ids
      BY FS_Interval, BoundsAssumption DEF TypeOK, Ids
    <3> QED BY <3>1, FS_Subset, FS_CardinalityType
  <2>7. total'[p] <= CountedRows' /\ sentTotal' <= CountedRows'
    BY <1>0, <1>1, <2>1, <2>2, <2>5, <2>6 DEF LedgerInv
  <2>8. TickFits(p)'
    BY <2>1, <2>7 DEF TickFits, Sending
  <2> QED BY <1>2, <2>1, <2>3, <2>4, <2>7, <2>8
<1>11. ASSUME NEW p \in Procs, Report(p) PROVE LedgerInv'
  <2>1. /\ cursor' = cursor /\ skipped' = skipped /\ sent' = sent
        /\ sentTotal' = total[p] /\ pc[p] = "report" /\ pc'[p] = "unlock"
        /\ \A q \in Procs : q # p => pc'[q] = pc[q]
    BY <1>11 DEF Report, TypeOK
  <2>2. sentTotal' <= CountedRows'
    BY <1>0, <1>1, <2>1 DEF LedgerInv, TickFits
  <2>3. HistoryBelow' /\ HistoryStaysHome'
    BY <2>1 DEF LedgerInv, HistoryBelow, HistoryStaysHome
  <2>4. TickFits(p)'
    BY <2>1 DEF TickFits, Holding, Sending
  <2> QED BY <1>2, <2>1, <2>2, <2>3, <2>4
<1>12. CASE Environment \/ UNCHANGED vars
  <2>1. /\ cursor' = cursor /\ skipped' = skipped /\ sent' = sent
        /\ sentTotal' = sentTotal /\ pc' = pc /\ src' = src /\ mark' = mark
        /\ left' = left /\ batch' = batch /\ total' = total
    BY <1>12 DEF Environment, InsertRow, CommitRow, RollbackRow, PruneRow,
                 SaveSettings, vars
  <2>2. CountedRows' = CountedRows
    BY <2>1 DEF CountedRows, Counted
  <2>3. \A p \in Procs : TickFits(p)'
    BY <2>1, <2>2 DEF LedgerInv, TickFits
  <2> QED BY <1>3, <2>1, <2>3 DEF LedgerInv
<1> QED
  BY <1>4, <1>5, <1>6, <1>7, <1>8, <1>9, <1>10, <1>11, <1>12
     DEF Next, Step, Trouble

LEMMA LedgerInit == Init => LedgerInv
<1> SUFFICES ASSUME Init PROVE LedgerInv
  OBVIOUS
<1>1. \A s \in Sources : Counted(s) = {}
  BY DEF Init, Counted
<1>2. CountedRows = 0
  BY <1>1, FS_EmptySet DEF CountedRows, Sources
<1> QED
  BY <1>2 DEF Init, LedgerInv, TickFits, HistoryBelow, HistoryStaysHome,
              Holding, Sending

\* Lines that were in a table when its cursor was created never go out, and the
\* counter never runs ahead of the lines that did: for any number of
\* forwarders, batches and failures under advisory lock 815005.
LEMMA LedgerAlways ==
  ASSUME Dialect = "postgresql" PROVE Spec => [](TypeOK /\ CursorInv /\ LedgerInv)
<1>1. Init => CursorInv
  BY DEF Init, CursorInv, LockInv, Ahead
<1>2. TypeOK /\ CursorInv /\ LedgerInv /\ [Next]_vars => CursorInv' /\ LedgerInv'
  BY CursorStep, LedgerStep
<1> QED BY <1>1, <1>2, LedgerInit, TypeCorrect, PTL DEF Spec

\* _bootstrap_cursor keeps the rows logged before the cursor out of the stream
\* whatever fails or dies afterwards, as long as the lock is PostgreSQL's.
THEOREM SyslogHistoryStaysHome ==
  ASSUME Dialect = "postgresql" PROVE Spec => []HistoryStaysHome
<1>1. LedgerInv => HistoryStaysHome
  BY DEF LedgerInv
<1> QED BY <1>1, LedgerAlways, PTL

\* syslog_sent_total never exceeds the number of distinct rows sent: a batch
\* that fails and is sent again is counted once.
THEOREM SyslogTotalNeverOvercounts ==
  ASSUME Dialect = "postgresql" PROVE Spec => []TotalNeverOvercounts
<1>1. TypeOK /\ LedgerInv => TotalNeverOvercounts
  <2> SUFFICES ASSUME TypeOK, LedgerInv PROVE TotalNeverOvercounts
    OBVIOUS
  <2>1. ASSUME NEW s \in Sources
        PROVE  /\ Cardinality(Counted(s)) \in Nat
               /\ Cardinality(sent[s]) \in Nat
               /\ Cardinality(Counted(s)) <= Cardinality(sent[s])
    <3>1. IsFiniteSet(sent[s])
      <4>1. IsFiniteSet(Ids) /\ sent[s] \subseteq Ids
        BY FS_Interval, BoundsAssumption DEF TypeOK, Ids
      <4> QED BY <4>1, FS_Subset
    <3>2. Counted(s) \subseteq sent[s]
      BY DEF Counted
    <3> QED BY <3>1, <3>2, FS_Subset, FS_CardinalityType
  <2> QED
    BY <2>1 DEF LedgerInv, CountedRows, TotalNeverOvercounts, Sources, TypeOK
<1> QED BY <1>1, LedgerAlways, PTL
-----------------------------------------------------------------------------
(* Frames without trouble.                                                 *)

LEMMA FreshStep ==
  ASSUME Dialect = "postgresql", TypeOK, CursorInv, LedgerInv, FreshInv,
         [Next]_vars
  PROVE  FreshInv'
<1> USE DEF tables, config, tick, history, bounds, GoTo, DropBatch, DropLocals,
            Bootstrap, SaveBatch
<1> SUFFICES ASSUME fails' + crashes' = 0 PROVE FreshInv'
  BY DEF FreshInv
<1>1. \A p \in Procs : ~Trouble(p)
  BY DEF Trouble, SendFails, TickFails, Crash, TypeOK
<1>2. /\ \A s \in Sources : cursor[s] \in Int /\ cursor'[s] \in Int
      /\ \A s \in Sources : cursor'[s] >= cursor[s] /\ sent[s] \subseteq Int
      /\ \A p \in Procs : src[p] \in Sources /\ mark[p] \in Nat
      /\ TypeOK'
  BY TypeStep, CursorStep, BoundsAssumption DEF TypeOK, Ids
<1> DEFINE Covered(s) ==
             \A id \in sent[s] :
               \/ id <= cursor[s]
               \/ \E p \in Procs : pc[p] \in Sending /\ src[p] = s /\ id <= mark[p]
           Rest(p) == pc[p] = "send" => left[p] \cap sent[src[p]] = {}
<1>3. ASSUME fails = fails', crashes = crashes'
      PROVE  ~dup /\ (\A s \in Sources : Covered(s)) /\ \A p \in Procs : Rest(p)
  BY <1>3 DEF FreshInv
<1>4. ASSUME NEW p \in Procs, NEW id \in Ids, SendRow(p, id) PROVE FreshInv'
  <2>1. /\ pc[p] = "send" /\ cursor' = cursor /\ src' = src /\ mark' = mark
        /\ fails' = fails /\ crashes' = crashes /\ id \in left[p]
        /\ \A q \in Procs : q # p => pc'[q] = pc[q]
        /\ pc'[p] \in {"send", "save"}
        /\ left'[p] = left[p] \ {id}
        /\ sent'[src[p]] = sent[src[p]] \cup {id}
        /\ \A x \in Sources : x # src[p] => sent'[x] = sent[x]
    BY <1>4 DEF SendRow, TypeOK
  <2>2. id <= mark[p] /\ id \notin sent[src[p]]
    BY <1>3, <2>1 DEF LedgerInv, TickFits, Sending
  <2>3. ~dup'
    BY <1>3, <1>4, <2>1, <2>2 DEF SendRow
  <2>4. ASSUME NEW s \in Sources PROVE Covered(s)'
    <3>1. Covered(s)
      BY <1>3, <2>1
    <3>2. CASE s # src[p]
      BY <2>1, <3>1, <3>2 DEF Sending
    <3>3. CASE s = src[p]
      BY <2>1, <2>2, <3>1, <3>3 DEF Sending
    <3> QED BY <3>2, <3>3
  <2>5. ASSUME NEW q \in Procs PROVE Rest(q)'
    <3>1. CASE q = p
      BY <1>3, <2>1, <3>1
    <3>2. CASE q # p
      BY <2>1, <3>2, SoleTick
    <3> QED BY <3>1, <3>2
  <2> QED BY <2>3, <2>4, <2>5 DEF FreshInv
<1>5. ASSUME NEW p \in Procs, ReadBatch(p) PROVE FreshInv'
  <2> DEFINE pending == {id \in tbl[src[p]] : id > mark[p]}
  <2>1. PICK rows \in SUBSET pending :
          IF rows = {}
            THEN GoTo(p, "cursor")
            ELSE left' = [left EXCEPT ![p] = rows] /\ UNCHANGED src
    BY <1>5 DEF ReadBatch
  <2>2. /\ cursor' = cursor /\ sent' = sent /\ dup' = dup /\ pc[p] = "query"
        /\ fails' = fails /\ crashes' = crashes
        /\ \A q \in Procs : q # p => pc'[q] = pc[q]
        /\ rows = {} => pc'[p] = "cursor"
    BY <1>5, <2>1 DEF ReadBatch, TypeOK
  <2>3. \A q \in Procs : pc[q] \notin Sending
    BY <2>2, SoleTick DEF Sending
  <2>4. \A s \in Sources : \A id \in sent[s] : id <= cursor[s]
    BY <1>3, <2>2, <2>3
  <2>5. ASSUME NEW q \in Procs, pc'[q] = "send" PROVE left'[q] \cap sent'[src'[q]] = {}
    <3>1. q = p /\ rows # {}
      BY <2>2, <2>5, SoleTick
    <3>2. left'[p] = rows /\ src'[p] = src[p]
      BY <2>1, <3>1 DEF TypeOK
    <3>3. cursor[src[p]] <= mark[p]
      BY <2>2 DEF CursorInv, Ahead
    <3>4. \A id \in rows : id > mark[p]
      OBVIOUS
    <3> QED BY <1>2, <2>2, <2>4, <3>1, <3>2, <3>3, <3>4
  <2> QED BY <1>3, <2>2, <2>4, <2>5 DEF FreshInv
<1>6. ASSUME NEW p \in Procs, StoreCursor(p) PROVE FreshInv'
  <2>1. /\ sent' = sent /\ dup' = dup /\ pc[p] = "save" /\ pc'[p] = "cursor"
        /\ fails' = fails /\ crashes' = crashes
        /\ \A q \in Procs : q # p => pc'[q] = pc[q]
        /\ cursor'[src[p]] = mark[p]
        /\ \A x \in Sources : x # src[p] => cursor'[x] = cursor[x]
    BY <1>6 DEF StoreCursor, TypeOK
  <2>2. \A q \in Procs : pc'[q] \notin Sending /\ pc'[q] # "send"
    BY <2>1, SoleTick DEF Sending
  <2>3. ASSUME NEW s \in Sources, NEW id \in sent[s] PROVE id <= cursor'[s]
    <3>1. CASE id <= cursor[s]
      BY <1>2, <3>1
    <3>2. CASE ~(id <= cursor[s])
      <4>1. PICK q \in Procs : pc[q] \in Sending /\ src[q] = s /\ id <= mark[q]
        BY <1>3, <2>1, <3>2
      <4>2. q = p
        BY <2>1, <4>1, SoleTick DEF Sending
      <4> QED BY <2>1, <4>1, <4>2
    <3> QED BY <3>1, <3>2
  <2> QED BY <1>3, <2>1, <2>2, <2>3 DEF FreshInv
<1>7. ASSUME NEW p \in Procs,
             \/ BeginTick(p) \/ ReadConfig(p) \/ SkipTick(p) \/ ReadCursor(p)
             \/ StoreBootstrap(p) \/ SourcesDone(p) \/ Report(p) \/ EndTick(p)
      PROVE  FreshInv'
  <2>1. /\ sent' = sent /\ dup' = dup /\ pc[p] \notin Sending
        /\ pc'[p] \notin Sending /\ fails' = fails /\ crashes' = crashes
        /\ \A q \in Procs : q # p =>
             /\ pc'[q] = pc[q] /\ src'[q] = src[q]
             /\ mark'[q] = mark[q] /\ left'[q] = left[q]
    BY <1>7 DEF BeginTick, ReadConfig, SkipTick, ReadCursor, StoreBootstrap,
                SourcesDone, Report, EndTick, Sending, TypeOK
  <2>2. ASSUME NEW s \in Sources, NEW id \in sent[s]
        PROVE  \/ id <= cursor'[s]
               \/ \E q \in Procs : pc'[q] \in Sending /\ src'[q] = s /\ id <= mark'[q]
    <3>1. CASE id <= cursor[s]
      BY <1>2, <3>1
    <3>2. CASE \E q \in Procs : pc[q] \in Sending /\ src[q] = s /\ id <= mark[q]
      BY <2>1, <3>2
    <3> QED BY <1>3, <2>1, <3>1, <3>2
  <2>3. ASSUME NEW q \in Procs, pc'[q] = "send" PROVE left'[q] \cap sent'[src'[q]] = {}
    BY <1>3, <2>1, <2>3 DEF Sending
  <2> QED BY <1>3, <2>1, <2>2, <2>3 DEF FreshInv
<1>8. CASE Environment \/ UNCHANGED vars
  <2>1. /\ cursor' = cursor /\ sent' = sent /\ dup' = dup /\ pc' = pc
        /\ src' = src /\ mark' = mark /\ left' = left
        /\ fails' = fails /\ crashes' = crashes
    BY <1>8 DEF Environment, InsertRow, CommitRow, RollbackRow, PruneRow,
                SaveSettings, vars
  <2> QED BY <1>3, <2>1 DEF FreshInv
<1> QED
  BY <1>1, <1>4, <1>5, <1>6, <1>7, <1>8 DEF Next, Step

\* Two forwarders never send the same row: a frame is repeated only after a
\* failed send, a failed tick or a process that died between send and save.
THEOREM SyslogDuplicateNeedsTrouble ==
  ASSUME Dialect = "postgresql" PROVE Spec => []DuplicateNeedsTrouble
<1>1. Init => FreshInv
  BY DEF Init, FreshInv
<1>2. TypeOK /\ CursorInv /\ LedgerInv /\ FreshInv /\ [Next]_vars => FreshInv'
  BY FreshStep
<1>3. TypeOK /\ FreshInv => DuplicateNeedsTrouble
  BY DEF TypeOK, FreshInv, DuplicateNeedsTrouble
<1> QED BY <1>1, <1>2, <1>3, LedgerAlways, PTL DEF Spec
=============================================================================
