---------------------------- MODULE RawLogProofs ----------------------------
(***************************************************************************)
(* Proofs about RawLog, for every number of processes, lines, prunes and   *)
(* failures.                                                               *)
(***************************************************************************)
EXTENDS RawLog, FiniteSetTheorems, TLAPS

Rows     == [id : Nat \ {0}, line : Lines, at : Times]
Names    == {t \div PerName : t \in Times}
Locals   == [at : Times, cutoff : Int, archive : BOOLEAN, rows : SUBSET Rows]
Steps    == {"idle", "start", "select", "zip", "write", "published", "failed", "delete", "save",
             "unlock"}
Histories == [stored : SUBSET Lines, troubled : SUBSET Procs, gone : SUBSET (Rows \X Names),
              zips : [Names -> Nat], again : SUBSET Rows]
Suffixes == {<<>>, <<"password">>, <<"archive", "password">>, Keys}

TypeOK ==
  /\ now \in Times
  /\ log \in Seq([line : Lines, at : Times])
  /\ pos \in [Procs -> Nat]
  /\ reading \in [Procs -> {"off", "wait", "event", "dup"}]
  /\ raw \subseteq Rows /\ next_id \in Nat \ {0}
  /\ events \in [Lines -> Nat]
  /\ config \in Configs /\ submitted \in Configs /\ form \in Suffixes
  /\ last_prune \in Times \cup {-1}
  /\ lock \in Procs \cup {Nobody}
  /\ pc \in [Jobs -> Steps] /\ local \in [Jobs -> Locals]
  /\ DOMAIN archives \subseteq Names
  /\ \A n \in DOMAIN archives : archives[n] \subseteq Rows
  /\ DOMAIN parts \subseteq Names
  /\ \A n \in DOMAIN parts : parts[n] \subseteq Jobs
  /\ spent \in [Kinds -> Nat]
  /\ hist \in Histories
  /\ \A p \in Procs : reading[p] \in {"event", "dup"} => pos[p] < Len(log)

LEMMA Spends ==
  ASSUME NEW k \in Kinds, Spend(k)
  PROVE  /\ spent' = [spent EXCEPT ![k] = @ + 1]
         /\ TypeOK => spent' \in [Kinds -> Nat]
<1>1. spent' = [spent EXCEPT ![k] = @ + 1]
  BY Zenon DEF Spend
<1>2. CASE spent \in [Kinds -> Nat]
  BY <1>1, <1>2
<1> QED BY <1>1, <1>2 DEF TypeOK

LEMMA TypeInit == Init => TypeOK
<1> SUFFICES ASSUME Init PROVE TypeOK
  OBVIOUS
<1> USE ConstantsAssumption, FormsAssumption
<1>1. now \in Times /\ last_prune \in Times \cup {-1} /\ next_id \in Nat \ {0}
  BY DEF Init, Times
<1>2. log \in Seq([line : Lines, at : Times]) /\ form \in Suffixes
  BY DEF Init, Suffixes
<1>3. local \in [Jobs -> Locals]
  BY DEF Init, NoLocals, Locals, Times
<1>4. DOMAIN archives = {} /\ DOMAIN parts = {}
  BY DEF Init
<1>5. hist.zips \in [Names -> Nat]
  BY DEF Init, Names
<1> QED BY <1>1, <1>2, <1>3, <1>4, <1>5 DEF Init, TypeOK, Steps, Names, Histories

LEMMA StoreKeyTyped == ASSUME TypeOK, StoreKey PROVE config' \in Configs /\ form' \in Suffixes
<1>1. CASE form = Keys
  <2>1. Head(form) = "retention" /\ Tail(form) = <<"archive", "password">>
    BY <1>1 DEF Keys
  <2>2. config' = [config EXCEPT !.retention = submitted.retention]
    BY <2>1 DEF StoreKey
  <2> QED BY <2>1, <2>2 DEF TypeOK, StoreKey, Configs, Suffixes
<1>2. CASE form = <<"archive", "password">>
  <2>1. Head(form) = "archive" /\ Tail(form) = <<"password">>
    BY <1>2
  <2>2. config' = [config EXCEPT !.archive = submitted.archive]
    BY <2>1 DEF StoreKey
  <2> QED BY <2>1, <2>2 DEF TypeOK, StoreKey, Configs, Suffixes
<1>3. CASE form = <<"password">>
  <2>1. Head(form) = "password" /\ Tail(form) = <<>>
    BY <1>3
  <2>2. config' = [config EXCEPT !.password = config.password \/ submitted.password]
    BY <2>1 DEF StoreKey
  <2> QED BY <2>1, <2>2 DEF TypeOK, StoreKey, Configs, Suffixes
<1> QED BY <1>1, <1>2, <1>3 DEF TypeOK, Suffixes, StoreKey

\* What is at a position of the log.
LEMMA LogTyped ==
  ASSUME TypeOK
  PROVE  /\ Len(log) \in Nat /\ DOMAIN log = 1 .. Len(log)
         /\ \A k \in DOMAIN log : log[k].line \in Lines /\ log[k].at \in Times
<1>1. \A k \in DOMAIN log : log[k] \in [line : Lines, at : Times]
  <2> DEFINE R == [line : Lines, at : Times]
  <2>1. log \in Seq(R)
    BY DEF TypeOK
  <2>2. \A k \in DOMAIN log : log[k] \in R
    <3> HIDE DEF R
    <3> QED BY <2>1
  <2> QED BY <2>2
<1> QED BY <1>1 DEF TypeOK

\* A process has a line in hand when it reads, or is between its inserts.
LEMMA LineTyped ==
  ASSUME TypeOK, NEW p \in Procs, pos[p] < Len(log) PROVE Line(p) \in Lines
<1>1. pos[p] \in Nat
  BY DEF TypeOK
<1>2. pos[p] + 1 \in DOMAIN log
  BY <1>1, LogTyped
<1> QED BY <1>2, LogTyped DEF Line

\* The position after a reconnection is a position.
LEMMA Position ==
  ASSUME TypeOK, NEW p \in Procs, Connect(p) PROVE pos' \in [Procs -> Nat]
<1> DEFINE S == {k \in DOMAIN log : log[k].at \div PerName < now \div PerName}
<1>1. IsFiniteSet(S)
  <2>1. DOMAIN log = 1 .. Len(log) /\ Len(log) \in Nat
    BY DEF TypeOK
  <2>2. IsFiniteSet(1 .. Len(log))
    BY <2>1, FS_Interval
  <2> QED BY <2>1, <2>2, FS_Subset
<1>2. Cardinality(S) \in Nat
  BY <1>1, FS_CardinalityType
<1>3. pos' = [pos EXCEPT ![p] = Cardinality(S)]
  BY DEF Connect
<1> HIDE DEF S
<1> QED BY <1>2, <1>3 DEF TypeOK

\* The second of a prune is one of those that name archives.
LEMMA NameTyped ==
  ASSUME TypeOK, NEW j \in Jobs PROVE Name(j) \in Names /\ local[j].rows \subseteq Rows
BY DEF TypeOK, Locals, Names, Name

LEMMA PartRemoved ==
  ASSUME NEW j \in Jobs, RemovePart(j)
  PROVE  DOMAIN parts' = DOMAIN parts \ {Name(j)} /\ \A m \in DOMAIN parts' : parts'[m] = parts[m]
BY DEF RemovePart

LEMMA PartRemovedTyped ==
  ASSUME TypeOK, NEW j \in Jobs, RemovePart(j)
  PROVE  DOMAIN parts' \subseteq Names /\ \A m \in DOMAIN parts' : parts'[m] \subseteq Jobs
BY PartRemoved DEF TypeOK

\* Opening counts, and adds the prune to those that have the .part open.
LEMMA Opened ==
  ASSUME TypeOK, NEW j \in Jobs, Open(j)
  PROVE  /\ DOMAIN parts' = DOMAIN parts \cup {Name(j)}
         /\ parts'[Name(j)] = (IF Name(j) \in DOMAIN parts THEN parts[Name(j)] ELSE {}) \cup {j}
         /\ \A m \in DOMAIN parts \ {Name(j)} : parts'[m] = parts[m]
         /\ hist'.zips[Name(j)] = hist.zips[Name(j)] + 1
         /\ \A m \in Names \ {Name(j)} : hist'.zips[m] = hist.zips[m]
         /\ hist'.gone = hist.gone /\ hist'.again = hist.again
         /\ hist'.stored = hist.stored /\ hist'.troubled = hist.troubled
         /\ hist' \in Histories
<1>1. Name(j) \in Names /\ hist.zips \in [Names -> Nat] /\ hist \in Histories
  BY NameTyped DEF TypeOK, Histories
<1>2. hist' = [hist EXCEPT !.zips = [hist.zips EXCEPT ![Name(j)] = hist.zips[Name(j)] + 1]]
  BY DEF Open
<1>3. [hist.zips EXCEPT ![Name(j)] = hist.zips[Name(j)] + 1] \in [Names -> Nat]
  <2>1. hist.zips[Name(j)] + 1 \in Nat
    BY <1>1
  <2> QED BY <1>1, <2>1
<1>4. parts' = With(parts, Name(j),
                    (IF Name(j) \in DOMAIN parts THEN parts[Name(j)] ELSE {}) \cup {j})
  BY DEF Open
<1>5. /\ DOMAIN parts' = DOMAIN parts \cup {Name(j)}
      /\ parts'[Name(j)] = (IF Name(j) \in DOMAIN parts THEN parts[Name(j)] ELSE {}) \cup {j}
      /\ \A m \in DOMAIN parts \ {Name(j)} : parts'[m] = parts[m]
  <2> DEFINE n == Name(j)
             value == (IF n \in DOMAIN parts THEN parts[n] ELSE {}) \cup {j}
  <2>1. parts' = [m \in DOMAIN parts \cup {n} |-> IF m = n THEN value ELSE parts[m]]
    BY <1>4 DEF With
  <2> HIDE DEF n, value
  <2>2. /\ DOMAIN parts' = DOMAIN parts \cup {n} /\ parts'[n] = value
        /\ \A m \in DOMAIN parts \ {n} : parts'[m] = parts[m]
    BY <2>1
  <2> QED BY <2>2 DEF n, value
<1>6. hist' \in Histories
  BY <1>1, <1>2, <1>3 DEF Histories
<1>7. /\ hist'.zips = [hist.zips EXCEPT ![Name(j)] = hist.zips[Name(j)] + 1]
      /\ hist'.gone = hist.gone /\ hist'.again = hist.again
      /\ hist'.stored = hist.stored /\ hist'.troubled = hist.troubled
  BY <1>1, <1>2 DEF Histories
<1>8. /\ hist'.zips[Name(j)] = hist.zips[Name(j)] + 1
      /\ \A m \in Names \ {Name(j)} : hist'.zips[m] = hist.zips[m]
  BY <1>1, <1>7
<1> QED BY <1>5, <1>6, <1>7, <1>8

\* A .part holds nothing, or the rows of one of those that have it open.
LEMMA ContentOf ==
  ASSUME TypeOK, NEW j \in Jobs, Name(j) \in DOMAIN parts, NEW rows \in Content(j)
  PROVE  /\ rows \subseteq Rows
         /\ parts[Name(j)] = {j} => rows = local[j].rows
         /\ rows = {} \/ \E k \in Jobs : k \in parts[Name(j)] /\ rows = local[k].rows
<1>1. parts[Name(j)] \subseteq Jobs
  BY DEF TypeOK
<1>2. /\ parts[Name(j)] = {j} => rows = local[j].rows
      /\ rows = {} \/ \E k \in parts[Name(j)] : rows = local[k].rows
  BY DEF Content
<1> QED BY <1>1, <1>2, NameTyped

\* What publishing does to the archives.
LEMMA Published ==
  ASSUME TypeOK, NEW j \in Jobs, Publish(j)
  PROVE  \/ /\ Name(j) \notin DOMAIN parts /\ pc' = [pc EXCEPT ![j] = "failed"]
            /\ UNCHANGED <<archives, hist>>
         \/ /\ Name(j) \in DOMAIN parts /\ pc' = [pc EXCEPT ![j] = "published"]
            /\ \E rows \in Content(j) :
                 /\ DOMAIN archives' = DOMAIN archives \cup {Name(j)}
                 /\ archives'[Name(j)] = rows
                 /\ \A m \in DOMAIN archives \ {Name(j)} : archives'[m] = archives[m]
                 /\ hist' = [hist EXCEPT !.again = @ \cup (rows \cap Archived)]
<1>1. CASE Name(j) \notin DOMAIN parts
  BY <1>1 DEF Publish, Goto
<1>2. CASE Name(j) \in DOMAIN parts
  <2>1. PICK rows \in Content(j) :
           /\ archives' = With(archives, Name(j), rows)
           /\ hist' = [hist EXCEPT !.again = @ \cup (rows \cap Archived)]
    BY <1>2 DEF Publish
  <2>2. pc' = [pc EXCEPT ![j] = "published"]
    BY <1>2 DEF Publish, Goto
  <2>3. /\ DOMAIN archives' = DOMAIN archives \cup {Name(j)}
        /\ archives'[Name(j)] = rows
        /\ \A m \in DOMAIN archives \ {Name(j)} : archives'[m] = archives[m]
    <3> DEFINE n == Name(j)
    <3>1. archives' = [m \in DOMAIN archives \cup {n} |-> IF m = n THEN rows ELSE archives[m]]
      BY <2>1 DEF With
    <3> HIDE DEF n
    <3>2. /\ DOMAIN archives' = DOMAIN archives \cup {n} /\ archives'[n] = rows
          /\ \A m \in DOMAIN archives \ {n} : archives'[m] = archives[m]
      BY <3>1
    <3> QED BY <3>2 DEF n
  <2> QED BY <1>2, <2>1, <2>2, <2>3
<1> QED BY <1>1, <1>2

\* Whatever is published was archived before, or in the hands of a prune.
LEMMA PublishedRows ==
  ASSUME TypeOK, NEW j \in Jobs, Publish(j)
  PROVE  /\ \A r \in Archived' :
              \/ r \in Archived
              \/ /\ Name(j) \in DOMAIN parts
                 /\ \E k \in Jobs : k \in parts[Name(j)] /\ r \in local[k].rows
         /\ DOMAIN archives' \subseteq Names
         /\ \A m \in DOMAIN archives' : archives'[m] \subseteq Rows
         /\ hist' \in Histories
         /\ UNCHANGED <<hist.stored, hist.troubled, hist.gone, hist.zips>>
<1>1. Name(j) \in Names /\ hist \in Histories
  BY NameTyped DEF TypeOK
<1>2. CASE UNCHANGED <<archives, hist>>
  BY <1>1, <1>2 DEF TypeOK, Archived
<1>3. CASE Name(j) \in DOMAIN parts /\ ~UNCHANGED <<archives, hist>>
  <2>1. PICK rows \in Content(j) :
           /\ DOMAIN archives' = DOMAIN archives \cup {Name(j)}
           /\ archives'[Name(j)] = rows
           /\ \A m \in DOMAIN archives \ {Name(j)} : archives'[m] = archives[m]
           /\ hist' = [hist EXCEPT !.again = @ \cup (rows \cap Archived)]
    BY <1>3, Published
  <2>2. /\ rows \subseteq Rows
        /\ rows = {} \/ \E k \in Jobs : k \in parts[Name(j)] /\ rows = local[k].rows
    BY <1>3, ContentOf
  <2>3. \A r \in Archived' : r \in Archived \/ r \in rows
    BY <2>1 DEF Archived
  <2>4. hist' \in Histories /\ UNCHANGED <<hist.stored, hist.troubled, hist.gone, hist.zips>>
    BY <1>1, <2>1, <2>2 DEF Histories
  <2>5. /\ DOMAIN archives' \subseteq Names
        /\ \A m \in DOMAIN archives' : archives'[m] \subseteq Rows
    BY <1>1, <2>1, <2>2 DEF TypeOK
  <2> QED BY <1>3, <2>2, <2>3, <2>4, <2>5
<1> QED BY <1>2, <1>3, Published

LEMMA TypeStep == TypeOK /\ [Next]_vars => TypeOK'
<1> SUFFICES ASSUME TypeOK, [Next]_vars PROVE TypeOK'
  OBVIOUS
<1> USE ConstantsAssumption DEF ingest, settings, prune, Goto, Leave, NoLocals, Steps
<1>1. ASSUME Advance PROVE TypeOK'
  BY <1>1 DEF Advance, TypeOK, Times
<1>2. ASSUME Submit PROVE TypeOK'
  <2>1. spent' \in [Kinds -> Nat]
    BY <1>2, Spends DEF Submit, Kinds
  <2>2. submitted' \in Configs /\ form' \in Suffixes
    BY <1>2, FormsAssumption DEF Submit, Suffixes
  <2> QED BY <1>2, <2>1, <2>2 DEF Submit, TypeOK
<1>3. ASSUME StoreKey PROVE TypeOK'
  BY <1>3, StoreKeyTyped DEF StoreKey, TypeOK
<1>4. ASSUME NEW l \in Lines, Emit(l) PROVE TypeOK'
  <2>1. log' \in Seq([line : Lines, at : Times]) /\ Len(log') = Len(log) + 1
    BY <1>4 DEF Emit, TypeOK
  <2>2. Len(log) \in Nat
    BY DEF TypeOK
  <2> QED BY <1>4, <2>1, <2>2 DEF Emit, TypeOK
<1>5. ASSUME NEW p \in Procs, StoreRawLog(p) PROVE TypeOK'
  <2>2. Line(p) \in Lines
    BY <1>5, LineTyped DEF StoreRawLog
  <2>3. raw' \subseteq Rows /\ next_id' \in Nat \ {0}
    <3>1. [id |-> next_id, line |-> Line(p), at |-> now] \in Rows
      BY <2>2 DEF Rows, TypeOK
    <3>2. \/ raw' = raw \cup {[id |-> next_id, line |-> Line(p), at |-> now]} /\ next_id' = next_id + 1
          \/ raw' = raw /\ next_id' = next_id
      BY <1>5 DEF StoreRawLog, InsertRaw
    <3>3. raw \subseteq Rows /\ next_id \in Nat \ {0}
      BY DEF TypeOK
    <3> QED BY <3>1, <3>2, <3>3
  <2>4. hist' \in Histories
    <3>1. \/ hist' = hist
          \/ hist' = [hist EXCEPT !.stored = @ \cup {Line(p)}]
      BY <1>5 DEF StoreRawLog, InsertRaw
    <3>2. CASE hist' = hist
      BY <3>2 DEF TypeOK
    <3>3. CASE hist' = [hist EXCEPT !.stored = @ \cup {Line(p)}]
      BY <2>2, <3>3 DEF TypeOK, Histories
    <3> QED BY <3>1, <3>2, <3>3
  <2>5. \A q \in Procs : reading'[q] \in {"event", "dup"} => pos[q] < Len(log)
    BY <1>5 DEF StoreRawLog, TypeOK
  <2>6. reading' \in [Procs -> {"off", "wait", "event", "dup"}]
    BY <1>5 DEF StoreRawLog, TypeOK
  <2> QED BY <1>5, <2>3, <2>4, <2>5, <2>6 DEF StoreRawLog, TypeOK
<1>6. ASSUME NEW p \in Procs, ProcessLine(p) PROVE TypeOK'
  <2>1. events' \in [Lines -> Nat]
    <3>1. Line(p) \in Lines
      BY <1>6, LineTyped DEF ProcessLine, TypeOK
    <3>2. events[Line(p)] \in Nat
      BY <3>1 DEF TypeOK
    <3>3. PICK n \in Nat : events' = [events EXCEPT ![Line(p)] = n]
      <4> DEFINE n == IF Line(p) \in NoId \/ events[Line(p)] = 0
                      THEN events[Line(p)] + 1 ELSE events[Line(p)]
      <4>1. n \in Nat
        BY <3>2
      <4>2. CASE Line(p) \in Refused
        <5>1. events' = [events EXCEPT ![Line(p)] = events[Line(p)]]
          BY <1>6, <4>2 DEF ProcessLine, TypeOK
        <5> QED BY <3>2, <5>1
      <4>3. CASE Line(p) \notin Refused
        <5>1. events' = [events EXCEPT ![Line(p)] = n]
          BY <1>6, <4>3 DEF ProcessLine, InsertEvent
        <5> QED BY <4>1, <5>1
      <4> QED BY <4>2, <4>3
    <3> QED BY <3>3 DEF TypeOK
  <2>2. pos' \in [Procs -> Nat] /\ reading' \in [Procs -> {"off", "wait", "event", "dup"}]
    BY <1>6 DEF ProcessLine, TypeOK
  <2>3. \A q \in Procs : reading'[q] \in {"event", "dup"} => pos'[q] < Len(log)
    BY <1>6 DEF ProcessLine, TypeOK
  <2>4. UNCHANGED <<now, log, raw, next_id, settings, prune, spent, hist>>
    BY <1>6 DEF ProcessLine
  <2> QED BY <2>1, <2>2, <2>3, <2>4 DEF TypeOK
<1>7. ASSUME NEW p \in Procs, InsertFails(p) PROVE TypeOK'
  <2>1. spent' \in [Kinds -> Nat]
    BY <1>7, Spends DEF InsertFails, Kinds
  <2>2. hist' \in Histories
    BY <1>7 DEF InsertFails, TypeOK, Histories
  <2>3. CASE reading[p] = "wait" /\ pos[p] < Len(log)
    <3>1. /\ reading' = [reading EXCEPT ![p] = "dup"] /\ UNCHANGED pos
      BY <1>7, <2>3 DEF InsertFails
    <3> QED BY <1>7, <2>1, <2>2, <2>3, <3>1 DEF InsertFails, TypeOK
  <2>4. CASE reading[p] \in {"event", "dup"}
    <3>1. /\ reading' = [reading EXCEPT ![p] = "wait"]
          /\ pos' = [pos EXCEPT ![p] = @ + 1]
      BY <1>7, <2>4 DEF InsertFails
    <3>2. pos' \in [Procs -> Nat] /\ reading' \in [Procs -> {"off", "wait", "event", "dup"}]
      BY <3>1 DEF TypeOK
    <3>3. \A q \in Procs : reading'[q] \in {"event", "dup"} => pos'[q] < Len(log)
      BY <3>1 DEF TypeOK
    <3> QED BY <1>7, <2>1, <2>2, <3>2, <3>3 DEF InsertFails, TypeOK
  <2> QED BY <1>7, <2>3, <2>4 DEF InsertFails
<1>8. ASSUME NEW p \in Procs, Disconnect(p) PROVE TypeOK'
  <2>1. spent' \in [Kinds -> Nat]
    BY <1>8, Spends DEF Disconnect, Kinds
  <2>2. hist' \in Histories
    BY <1>8 DEF Disconnect, TypeOK, Histories
  <2> QED BY <1>8, <2>1, <2>2 DEF Disconnect, TypeOK
<1>9. ASSUME NEW p \in Procs, Connect(p) PROVE TypeOK'
  <2>1. pos' \in [Procs -> Nat]
    BY <1>9, Position
  <2>2. \A q \in Procs : reading'[q] \in {"event", "dup"} => pos'[q] < Len(log)
    BY <1>9 DEF Connect, TypeOK
  <2> QED BY <1>9, <2>1, <2>2 DEF Connect, TypeOK
<1>10. ASSUME NEW j \in Jobs, Acquire(j) PROVE TypeOK'
  <2>1. Process(j) \in Procs
    BY DEF Jobs, Process
  <2> QED BY <1>10, <2>1 DEF Acquire, TypeOK
<1>11. ASSUME NEW j \in Jobs, PruneNow(j) PROVE TypeOK'
  <2>1. spent' \in [Kinds -> Nat]
    BY <1>11, Spends DEF PruneNow, Kinds
  <2> QED BY <1>11, <2>1 DEF PruneNow, TypeOK
<1>12. NoLocals \in Locals
  BY DEF Locals, Times
<1>13. ASSUME NEW j \in Jobs, Begin(j) PROVE TypeOK'
  <2>1. config.archive \in BOOLEAN /\ config.retention \in Nat \ {0} /\ now \in Int
    BY DEF TypeOK, Configs, Times
  <2>2. local' \in [Jobs -> Locals]
    <3>1. local[j] \in Locals /\ now \in Times
      BY DEF TypeOK
    <3>2. now - config.retention \in Int
      BY <2>1
    <3>3. [local[j] EXCEPT !.at = now, !.cutoff = now - config.retention,
                           !.archive = config.archive] \in Locals
      BY Zenon, <2>1, <3>1, <3>2 DEF Locals
    <3>4. \E x \in Locals : local' = [local EXCEPT ![j] = x]
      <4>1. \/ local' = [local EXCEPT ![j] = NoLocals]
            \/ local' = [local EXCEPT ![j] = [local[j] EXCEPT !.at = now, !.cutoff = now - config.retention,
                                                            !.archive = config.archive]]
        BY <1>13 DEF Begin
      <4> QED BY <1>12, <3>3, <4>1
    <3> QED BY <3>4 DEF TypeOK
  <2>3. pc' \in [Jobs -> Steps]
    <3>1. PICK step \in Steps : pc' = [pc EXCEPT ![j] = step]
      BY <1>13 DEF Begin
    <3> QED BY <3>1 DEF TypeOK
  <2> QED BY <1>13, <2>2, <2>3 DEF Begin, TypeOK
<1>14. ASSUME NEW j \in Jobs, Select(j) PROVE TypeOK'
  <2>1. Old(local[j].cutoff) \in SUBSET Rows
    BY DEF Old, TypeOK
  <2>2. local' \in [Jobs -> Locals]
    <3>1. [local[j] EXCEPT !.rows = Old(local[j].cutoff)] \in Locals
      BY <2>1 DEF Locals, TypeOK
    <3> QED BY <1>14, <3>1 DEF Select, TypeOK
  <2> QED BY <1>14, <2>2 DEF Select, TypeOK
<1>15. ASSUME NEW j \in Jobs, Open(j) \/ Publish(j) PROVE TypeOK'
  <2>1. CASE Open(j)
    <3>1. DOMAIN parts' \subseteq Names /\ \A m \in DOMAIN parts' : parts'[m] \subseteq Jobs
      <4>1. /\ DOMAIN parts \subseteq Names /\ \A m \in DOMAIN parts : parts[m] \subseteq Jobs
            /\ Name(j) \in Names
        BY NameTyped DEF TypeOK
      <4>2. /\ DOMAIN parts' = DOMAIN parts \cup {Name(j)}
            /\ parts'[Name(j)] = (IF Name(j) \in DOMAIN parts THEN parts[Name(j)] ELSE {}) \cup {j}
            /\ \A m \in DOMAIN parts \ {Name(j)} : parts'[m] = parts[m]
        BY <2>1, Opened
      <4> QED BY <4>1, <4>2
    <3>2. hist' \in Histories
      BY <2>1, Opened
    <3> QED BY <2>1, <3>1, <3>2 DEF Open, TypeOK
  <2>2. CASE Publish(j)
    <3>1. DOMAIN parts' \subseteq Names /\ \A m \in DOMAIN parts' : parts'[m] \subseteq Jobs
      BY <2>2, PartRemovedTyped DEF Publish
    <3>2. pc' \in [Jobs -> Steps]
      <4>1. \E step \in Steps : pc' = [pc EXCEPT ![j] = step]
        BY <2>2 DEF Publish
      <4> QED BY <4>1 DEF TypeOK
    <3> QED BY <2>2, <3>1, <3>2, PublishedRows DEF Publish, TypeOK
  <2> QED BY <1>15, <2>1, <2>2
<1>16. ASSUME NEW j \in Jobs, ZipFails(j) \/ Sweep(j) \/ DeleteFails(j) PROVE TypeOK'
  <2>1. spent' \in [Kinds -> Nat]
    BY <1>16, Spends DEF ZipFails, Sweep, DeleteFails, Kinds, TypeOK
  <2>2. pc' \in [Jobs -> Steps] /\ local' \in [Jobs -> Locals]
    <3>1. \E step \in Steps : pc' = [pc EXCEPT ![j] = step]
      BY <1>16 DEF ZipFails, Sweep, DeleteFails
    <3>2. local' = [local EXCEPT ![j] = NoLocals] \/ local' = local
      BY <1>16 DEF ZipFails, Sweep, DeleteFails
    <3>3. pc' \in [Jobs -> Steps]
      BY <3>1 DEF TypeOK
    <3>4. local' \in [Jobs -> Locals]
      BY <1>12, <3>2 DEF TypeOK
    <3> QED BY <3>3, <3>4
  <2>3. DOMAIN parts' \subseteq Names /\ \A m \in DOMAIN parts' : parts'[m] \subseteq Jobs
    <3>1. RemovePart(j) \/ parts' = parts
      BY <1>16 DEF ZipFails, Sweep, DeleteFails
    <3> QED BY <3>1, PartRemovedTyped DEF TypeOK
  <2> QED BY <1>16, <2>1, <2>2, <2>3 DEF ZipFails, Sweep, DeleteFails, TypeOK
<1>17. ASSUME NEW j \in Jobs, Delete(j) PROVE TypeOK'
  <2>1. Pruned(j) \in SUBSET Rows
    BY DEF Pruned, Old, TypeOK
  <2>2. hist' \in Histories
    <3> DEFINE now_gone == {<<r, Name(j)>> : r \in Pruned(j)}
    <3>1. now_gone \in SUBSET (Rows \X Names)
      BY <2>1, NameTyped
    <3>2. hist' = hist \/ hist' = [hist EXCEPT !.gone = @ \cup now_gone]
      BY <1>17 DEF Delete
    <3>3. hist \in Histories /\ hist.gone \in SUBSET (Rows \X Names)
      BY DEF TypeOK, Histories
    <3>4. hist.gone \cup now_gone \in SUBSET (Rows \X Names)
      <4> HIDE DEF now_gone
      <4> QED BY <3>1, <3>3
    <3> HIDE DEF now_gone
    <3> QED BY <3>2, <3>3, <3>4 DEF Histories
  <2>3. raw' \subseteq Rows
    BY <1>17 DEF Delete, TypeOK
  <2> QED BY <1>17, <2>2, <2>3 DEF Delete, TypeOK
<1>18. ASSUME NEW j \in Jobs, SavePrune(j) \/ Unlock(j) PROVE TypeOK'
  <2>1. /\ pc' \in [Jobs -> Steps] /\ local' \in [Jobs -> Locals]
        /\ last_prune' \in Times \cup {-1}
    <3>1. local[j].at \in Times
      BY DEF TypeOK, Locals
    <3>2. CASE SavePrune(j)
      BY <1>12, <3>1, <3>2 DEF SavePrune, TypeOK
    <3>3. CASE Unlock(j)
      BY <1>12, <3>1, <3>3 DEF Unlock, TypeOK
    <3> QED BY <1>18, <3>2, <3>3
  <2>2. lock' \in Procs \cup {Nobody}
    BY <1>18 DEF SavePrune, Unlock, TypeOK
  <2> QED BY <1>18, <2>1, <2>2 DEF SavePrune, Unlock, TypeOK
<1>19. ASSUME NEW p \in Procs, Crash(p) PROVE TypeOK'
  <2>1. spent' \in [Kinds -> Nat]
    BY <1>19, Spends DEF Crash, Kinds
  <2>2. pc' \in [Jobs -> Steps] /\ local' \in [Jobs -> Locals]
    BY <1>12, <1>19 DEF Crash, TypeOK
  <2>3. hist' \in Histories
    BY <1>19 DEF Crash, TypeOK, Histories
  <2>4. lock' \in Procs \cup {Nobody}
    BY <1>19 DEF Crash, TypeOK
  <2>5. reading' \in [Procs -> {"off", "wait", "event", "dup"}]
    BY <1>19 DEF Crash, TypeOK
  <2>6. \A q \in Procs : reading'[q] \in {"event", "dup"} => pos[q] < Len(log)
    BY <1>19 DEF Crash, TypeOK
  <2>7. DOMAIN parts' \subseteq Names /\ \A n \in DOMAIN parts' : parts'[n] \subseteq Jobs
    BY <1>19 DEF Crash, TypeOK
  <2> QED BY <1>19, <2>1, <2>2, <2>3, <2>4, <2>5, <2>6, <2>7 DEF Crash, TypeOK
<1>20. CASE UNCHANGED vars
  BY <1>20 DEF vars, TypeOK
<1>21. CASE \E p \in Procs : \/ StoreRawLog(p) \/ ProcessLine(p) \/ InsertFails(p)
                             \/ Disconnect(p) \/ Connect(p) \/ Crash(p)
  BY <1>5, <1>6, <1>7, <1>8, <1>9, <1>19, <1>21
<1>22. CASE \E j \in Jobs : \/ Acquire(j) \/ PruneNow(j) \/ Begin(j) \/ Select(j) \/ Open(j)
                            \/ Publish(j) \/ ZipFails(j) \/ Sweep(j) \/ Delete(j)
                            \/ DeleteFails(j) \/ SavePrune(j) \/ Unlock(j)
  BY <1>10, <1>11, <1>13, <1>14, <1>15, <1>16, <1>17, <1>18, <1>22
<1> QED BY <1>1, <1>2, <1>3, <1>4, <1>20, <1>21, <1>22 DEF Next

\* The rows, the readers and the prunes keep their types in every reachable
\* state.
THEOREM RawLogTypeCorrect == Spec => []TypeOK
BY TypeInit, TypeStep, PTL DEF Spec

-----------------------------------------------------------------------------
(* The inductive invariants.                                               *)

\* Every line a process is past, or has in hand after its first insert, was
\* stored; a reader without a connection is one that lost it.
Counted(l) == l \in Refused \/ events[l] > 0

ReadInv ==
  /\ \A r \in raw : r.line \in hist.stored
  /\ \A p \in Procs \ hist.troubled :
       /\ reading[p] # "off"
       /\ pos[p] <= Len(log)
       /\ \A k \in 1 .. pos[p] :
            log[k].line \in hist.stored /\ Counted(log[k].line)
       /\ reading[p] \in {"event", "dup"} => Line(p) \in hist.stored

\* Only a prune that writes has a .part open, and it has counted its second.
PartInv ==
  /\ \A n \in DOMAIN archives : hist.zips[n] > 0
  /\ \A n \in DOMAIN parts : hist.zips[n] > 0
  /\ \A n \in DOMAIN parts : \A k \in parts[n] : pc[k] = "write" /\ Name(k) = n

Kept(rows, n) == \A r \in rows : n \in DOMAIN archives /\ r \in archives[n]

\* No row that is old enough for a prune under way appears after its SELECT:
\* what it has read covers what its DELETE will take, and so does its archive,
\* when no other prune opened the .part of its second: then the .part is its own
\* as long as it is there, and there is no archive of that name before its.
Alright(j) ==
  /\ pc[j] = "write" => /\ Name(j) \notin DOMAIN archives
                        /\ Name(j) \in DOMAIN parts => parts[Name(j)] = {j}
  /\ \/ pc[j] = "published"
     \/ pc[j] = "delete" /\ local[j].archive
     => Kept(Old(local[j].cutoff), Name(j))

Covered(j) ==
  /\ pc[j] \in {"select", "zip", "write", "published", "delete"} => local[j].cutoff < now
  /\ pc[j] \in {"select", "zip", "write", "published"} => local[j].archive
  /\ pc[j] \in {"zip", "write"} => Old(local[j].cutoff) \subseteq local[j].rows
  /\ pc[j] = "write" => hist.zips[Name(j)] > 0
  /\ hist.zips[Name(j)] <= 1 => Alright(j)

ArchiveInv == PartInv /\ (\A j \in Jobs : Covered(j)) /\ DeletedIsArchived

\* Identifiers are not used twice.
IdInv ==
  /\ \A r \in raw \cup Archived : r.id < next_id
  /\ \A j \in Jobs : \A r \in local[j].rows : r.id < next_id

\* While no prune fails, dies or is asked for by hand, the lock is with the one
\* under way, and it alone stands between an archived row and its deletion.
Alone(j) ==
  /\ pc[j] # "idle" => Scheduled(j) /\ lock = Process(j)
  /\ pc[j] \in {"zip", "write"} => local[j].rows \subseteq Old(local[j].cutoff) \ Archived

AgainInv ==
  spent.prunefail = 0 /\ spent.crash = 0 /\ spent.manual = 0 =>
    /\ hist.again = {}
    /\ \A j \in Jobs : Alone(j)
    /\ \A r \in raw \cap Archived :
         \E j \in Jobs : pc[j] \in {"published", "delete"} /\ r.at < local[j].cutoff

-----------------------------------------------------------------------------
(* The two tables under many readers.                                      *)

LEMMA ReadInit == Init => ReadInv
<1> SUFFICES ASSUME Init PROVE ReadInv
  OBVIOUS
<1>1. \A p \in Procs : 1 .. pos[p] = {} /\ pos[p] <= Len(log) /\ reading[p] = "wait"
  BY DEF Init
<1>2. raw = {}
  BY DEF Init
<1> QED BY <1>1, <1>2 DEF ReadInv

\* What reading leaves alone does not disturb the invariant.
LEMMA ReadFrame ==
  ASSUME ReadInv, UNCHANGED <<log, pos, reading, events>>, raw' \subseteq raw,
         hist'.stored = hist.stored, hist'.troubled = hist.troubled
  PROVE  ReadInv'
BY DEF ReadInv, Counted, Line

LEMMA ReadStep == TypeOK /\ TypeOK' /\ ReadInv /\ [Next]_vars => ReadInv'
<1> SUFFICES ASSUME TypeOK, TypeOK', ReadInv, [Next]_vars PROVE ReadInv'
  OBVIOUS
<1> USE DEF ingest, settings, prune
<1> DEFINE Read(p) ==
      /\ reading[p] # "off"
      /\ pos[p] <= Len(log)
      /\ \A k \in 1 .. pos[p] : log[k].line \in hist.stored /\ Counted(log[k].line)
      /\ reading[p] \in {"event", "dup"} => Line(p) \in hist.stored
<1>0. /\ \A r \in raw : r.line \in hist.stored
      /\ \A p \in Procs \ hist.troubled : Read(p)
      /\ hist \in Histories
  BY DEF ReadInv, TypeOK
<1>1. ASSUME NEW p \in Procs, StoreRawLog(p) PROVE ReadInv'
  <2>1. \/ hist' = [hist EXCEPT !.stored = @ \cup {Line(p)}]
        \/ hist' = hist /\ Line(p) \in hist.stored
    BY <1>0, <1>1 DEF StoreRawLog, InsertRaw
  <2>2. hist'.stored = hist.stored \cup {Line(p)} /\ hist'.troubled = hist.troubled
    BY <1>0, <2>1 DEF Histories
  <2>3. /\ UNCHANGED <<log, pos, events>>
        /\ reading'[p] \in {"event", "dup"}
        /\ \A q \in Procs \ {p} : reading'[q] = reading[q]
    BY <1>1 DEF StoreRawLog, TypeOK
  <2>4. \A r \in raw' : r.line \in hist'.stored
    BY <1>0, <1>1, <2>2 DEF StoreRawLog, InsertRaw
  <2>5. ASSUME NEW q \in Procs \ hist'.troubled PROVE Read(q)'
    BY <1>0, <2>2, <2>3, <2>5 DEF Line, Counted
  <2> QED BY <2>4, <2>5 DEF ReadInv
<1>2. ASSUME NEW p \in Procs, ProcessLine(p) PROVE ReadInv'
  <2> DEFINE l == Line(p)
             After(m) == m \in Refused \/ events'[m] > 0
  <2>1. l \in Lines /\ pos[p] < Len(log) /\ pos[p] \in Nat /\ Len(log) \in Nat
    BY <1>2, LineTyped, LogTyped DEF ProcessLine, TypeOK
  <2>2. /\ UNCHANGED <<log, raw, hist>> /\ pos'[p] = pos[p] + 1 /\ reading'[p] = "wait"
        /\ \A q \in Procs \ {p} : pos'[q] = pos[q] /\ reading'[q] = reading[q]
    BY <1>2 DEF ProcessLine, TypeOK
  <2>3. (\A m \in Lines : Counted(m) => After(m)) /\ After(l)
    <3>1. \A m \in Lines : events[m] \in Nat
      BY DEF TypeOK
    <3>2. CASE l \in Refused
      BY <1>2, <2>2, <3>2 DEF ProcessLine, Counted
    <3>3. CASE l \notin Refused
      <4> DEFINE n == IF l \in NoId \/ events[l] = 0 THEN events[l] + 1 ELSE events[l]
      <4>1. events' = [events EXCEPT ![l] = n]
        BY <1>2, <3>3 DEF ProcessLine, InsertEvent
      <4>2. n > 0 /\ events[l] \in Nat
        BY <2>1, <3>1
      <4>3. \A m \in Lines : events'[m] = IF m = l THEN n ELSE events[m]
        BY <4>1 DEF TypeOK
      <4> HIDE DEF n
      <4> QED BY <2>1, <4>2, <4>3 DEF Counted
    <3> QED BY <3>2, <3>3
  <2>4. ASSUME NEW q \in Procs \ hist.troubled PROVE Read(q)'
    <3>1. CASE q = p
      <4>1. ASSUME NEW k \in 1 .. pos'[p]
            PROVE  log[k].line \in hist.stored /\ After(log[k].line)
        <5>1. CASE k \in 1 .. pos[p]
          <6>1. log[k].line \in Lines
            BY <2>1, <5>1, LogTyped
          <6> QED BY <1>0, <2>3, <3>1, <5>1, <6>1
        <5>2. CASE k = pos[p] + 1
          BY <1>0, <1>2, <2>3, <3>1, <5>2 DEF Line, ProcessLine
        <5> QED BY <2>1, <2>2, <5>1, <5>2
      <4> QED BY <2>1, <2>2, <3>1, <4>1 DEF Counted
    <3>2. CASE q # p
      <4>1. ASSUME NEW k \in 1 .. pos[q]
            PROVE  log[k].line \in hist.stored /\ After(log[k].line)
        <5>1. pos[q] \in Nat /\ pos[q] <= Len(log)
          BY <1>0 DEF TypeOK
        <5>2. log[k].line \in Lines
          BY <5>1, LogTyped
        <5> QED BY <1>0, <2>3, <5>2
      <4> QED BY <1>0, <2>2, <3>2, <4>1 DEF Line, Counted
    <3> QED BY <3>1, <3>2
  <2> HIDE DEF Read
  <2>5. \A q \in Procs \ hist'.troubled : Read(q)'
    BY <2>2, <2>4
  <2> QED BY <1>0, <2>2, <2>5 DEF ReadInv, Read
<1>3. ASSUME NEW p \in Procs, InsertFails(p) \/ Disconnect(p) \/ Crash(p) PROVE ReadInv'
  <2>1. hist'.troubled = hist.troubled \cup {p} /\ hist'.stored = hist.stored
    BY <1>0, <1>3 DEF InsertFails, Disconnect, Crash, Histories
  <2>2. /\ UNCHANGED <<log, raw, events>>
        /\ \A q \in Procs \ {p} : pos'[q] = pos[q] /\ reading'[q] = reading[q]
    BY <1>3 DEF InsertFails, Disconnect, Crash, TypeOK
  <2> QED BY <1>0, <2>1, <2>2 DEF ReadInv, Counted, Line
<1>4. ASSUME NEW p \in Procs, Connect(p) PROVE ReadInv'
  <2>1. p \in hist.troubled
    BY <1>0, <1>4 DEF Connect
  <2>2. /\ UNCHANGED <<log, raw, events, hist>>
        /\ \A q \in Procs \ {p} : pos'[q] = pos[q] /\ reading'[q] = reading[q]
    BY <1>4 DEF Connect, TypeOK
  <2> QED BY <1>0, <2>1, <2>2 DEF ReadInv, Counted, Line
<1>5. ASSUME NEW l \in Lines, Emit(l) PROVE ReadInv'
  <2>1. /\ Len(log) \in Nat /\ Len(log') = Len(log) + 1
        /\ \A k \in 1 .. Len(log) : log'[k] = log[k]
    BY <1>5 DEF Emit, TypeOK
  <2>2. UNCHANGED <<pos, reading, raw, events, hist>>
    BY <1>5 DEF Emit
  <2>3. ASSUME NEW p \in Procs \ hist.troubled PROVE Read(p)'
    <3>1. pos[p] \in Nat /\ pos[p] <= Len(log)
      BY <1>0 DEF TypeOK
    <3>2. reading[p] \in {"event", "dup"} => pos[p] + 1 \in 1 .. Len(log)
      <4>1. reading[p] \in {"event", "dup"} => pos[p] < Len(log)
        BY DEF TypeOK
      <4> QED BY <2>1, <3>1, <4>1
    <3>3. reading[p] \in {"event", "dup"} => Line(p)' = Line(p)
      BY <2>1, <2>2, <3>2 DEF Line
    <3>4. \A k \in 1 .. pos[p] : log'[k] = log[k]
      BY <2>1, <3>1
    <3> QED BY <1>0, <2>1, <2>2, <3>1, <3>3, <3>4 DEF Counted
  <2> QED BY <1>0, <2>2, <2>3 DEF ReadInv
<1>6. ASSUME NEW j \in Jobs, Open(j) \/ Publish(j) \/ Delete(j) PROVE ReadInv'
  <2>1. hist'.stored = hist.stored /\ hist'.troubled = hist.troubled
    <3>1. CASE Delete(j)
      BY <1>0, <3>1 DEF Delete, Histories
    <3> QED BY <1>6, <3>1, Opened, PublishedRows
  <2>2. UNCHANGED <<log, pos, reading, events>> /\ raw' \subseteq raw
    BY <1>6 DEF Open, Publish, Delete
  <2> QED BY <2>1, <2>2, ReadFrame
<1>7. CASE UNCHANGED <<ingest, hist>>
  BY <1>7, ReadFrame
<1>8. CASE \E p \in Procs : \/ StoreRawLog(p) \/ ProcessLine(p) \/ InsertFails(p)
                            \/ Disconnect(p) \/ Connect(p) \/ Crash(p)
  BY <1>1, <1>2, <1>3, <1>4, <1>8
<1>9. CASE \E j \in Jobs : \/ Acquire(j) \/ PruneNow(j) \/ Begin(j) \/ Select(j) \/ Open(j)
                           \/ Publish(j) \/ ZipFails(j) \/ Sweep(j) \/ Delete(j)
                           \/ DeleteFails(j) \/ SavePrune(j) \/ Unlock(j)
  BY <1>6, <1>7, <1>9 DEF Acquire, PruneNow, Begin, Select, ZipFails, Sweep,
     DeleteFails, SavePrune, Unlock
<1> QED BY <1>5, <1>7, <1>8, <1>9 DEF Next, Advance, Submit, StoreKey, vars

\* A line a process without trouble is past was stored and its event counted,
\* whichever of the two inserts another process made before it died.
THEOREM RawLogNoLossWhileOneReads == Spec => []NoLossWhileOneReads
<1>1. ReadInv => NoLossWhileOneReads
  BY DEF ReadInv, Counted, NoLossWhileOneReads
<1> QED BY <1>1, TypeInit, ReadInit, TypeStep, ReadStep, PTL DEF Spec

-----------------------------------------------------------------------------
(* What is deleted is archived.                                            *)

\* A row that is inserted is too young for every cutoff of before.
LEMMA OldShrinks ==
  ASSUME TypeOK, [Next]_vars, NEW cutoff \in Int, cutoff < now
  PROVE  Old(cutoff)' \subseteq Old(cutoff)
<1>1. raw' \subseteq raw \cup {[id |-> next_id, line |-> l, at |-> now] : l \in Lines}
  <2>1. ASSUME NEW p \in Procs, StoreRawLog(p)
        PROVE  raw' \subseteq raw \cup {[id |-> next_id, line |-> l, at |-> now] : l \in Lines}
    BY <2>1, LineTyped DEF StoreRawLog, InsertRaw
  <2>2. ASSUME NEW j \in Jobs, Delete(j) PROVE raw' \subseteq raw
    BY <2>2 DEF Delete
  <2>3. CASE \E p \in Procs : \/ StoreRawLog(p) \/ ProcessLine(p) \/ InsertFails(p)
                              \/ Disconnect(p) \/ Connect(p) \/ Crash(p)
    BY <2>1, <2>3 DEF ProcessLine, InsertFails, Disconnect, Connect, Crash
  <2>4. CASE \E j \in Jobs : \/ Acquire(j) \/ PruneNow(j) \/ Begin(j) \/ Select(j) \/ Open(j)
                             \/ Publish(j) \/ ZipFails(j) \/ Sweep(j) \/ Delete(j)
                             \/ DeleteFails(j) \/ SavePrune(j) \/ Unlock(j)
    BY <2>2, <2>4 DEF Acquire, PruneNow, Begin, Select, Open, Publish, Sweep, ZipFails, DeleteFails,
       SavePrune, Unlock, ingest
  <2> QED BY <2>3, <2>4 DEF Next, Advance, Emit, Submit, StoreKey, vars, ingest
<1>2. now \in Int
  BY DEF TypeOK, Times
<1> QED BY <1>1, <1>2 DEF Old

\* The clock never goes back.
LEMMA ClockStep == ASSUME TypeOK, [Next]_vars PROVE now' >= now /\ now \in Int /\ now' \in Int
<1>1. now \in Int
  BY DEF TypeOK, Times
<1>2. now' = now \/ now' = now + 1
  BY DEF Next, Advance, Emit, Submit, StoreKey, StoreRawLog, ProcessLine, InsertFails,
     Disconnect, Connect, Crash, Acquire, PruneNow, Begin, Select, Open, Publish, Sweep, ZipFails, Delete,
     DeleteFails, SavePrune, Unlock, vars
<1> QED BY <1>1, <1>2

LEMMA ArchiveInit == Init => ArchiveInv
<1> SUFFICES ASSUME Init PROVE ArchiveInv
  OBVIOUS
<1>1. /\ DOMAIN archives = {} /\ DOMAIN parts = {} /\ hist.gone = {}
      /\ \A j \in Jobs : pc[j] = "idle"
  BY DEF Init
<1> QED BY <1>1 DEF ArchiveInv, PartInv, Covered, Alright, DeletedIsArchived

\* What a step may do to the name of a prune that does not move.
Untouched(j) ==
  LET n == Name(j)
  IN  /\ hist.zips[n] <= 1
      /\ n \in DOMAIN archives => n \in DOMAIN archives' /\ archives[n] \subseteq archives'[n]
      /\ pc[j] = "write" =>
           /\ n \in DOMAIN archives' => n \in DOMAIN archives
           /\ n \in DOMAIN parts' => n \in DOMAIN parts /\ (parts[n] = {j} => parts'[n] = {j})

\* A prune that does not move keeps what it has covered.
LEMMA CoveredFrame ==
  ASSUME TypeOK, [Next]_vars, NEW j \in Jobs, Covered(j), UNCHANGED <<pc[j], local[j]>>,
         hist'.zips[Name(j)] > 0 \/ hist.zips[Name(j)] = 0,
         hist'.zips[Name(j)] <= 1 =>
           \/ Untouched(j)
           \/ hist.zips[Name(j)] <= 1 /\ pc[j] # "write" /\ Name(j) \notin DOMAIN archives
  PROVE  Covered(j)'
<1>1. PICK c \in Int : c = local[j].cutoff
  BY DEF TypeOK, Locals
<1>2. c < now => c < now' /\ Old(c)' \subseteq Old(c)
  BY ClockStep, OldShrinks
<1>3. /\ Old(local[j].cutoff) = Old(c) /\ Old(local[j].cutoff)' = Old(c)'
      /\ local'[j].cutoff = c /\ Name(j)' = Name(j)
  BY <1>1 DEF Old, Name
<1>4. PICK n \in Names : n = Name(j)
  BY NameTyped
<1>5. hist.zips[n] \in Nat
  BY DEF TypeOK, Histories
<1>6. ASSUME hist'.zips[n] <= 1 PROVE Alright(j)'
  <2>1. hist.zips[n] <= 1 /\ Alright(j)
    BY <1>4, <1>6 DEF Covered, Untouched
  <2>2. CASE Untouched(j)
    <3>1. pc'[j] = "write" =>
             n \notin DOMAIN archives' /\ (n \in DOMAIN parts' => parts'[n] = {j})
      BY <1>4, <2>1, <2>2 DEF Untouched, Alright
    <3>2. ASSUME pc[j] = "published" \/ (pc[j] = "delete" /\ local[j].archive)
          PROVE  Kept(Old(local[j].cutoff), Name(j))'
      <4>1. Kept(Old(c), n) /\ Old(c)' \subseteq Old(c)
        BY <1>1, <1>2, <1>3, <1>4, <2>1, <3>2 DEF Alright, Covered
      <4>2. n \in DOMAIN archives => n \in DOMAIN archives' /\ archives[n] \subseteq archives'[n]
        BY <1>4, <2>2 DEF Untouched
      <4> QED BY <1>3, <1>4, <4>1, <4>2 DEF Kept
    <3>3. pc'[j] = pc[j] /\ local'[j] = local[j]
      OBVIOUS
    <3> QED BY <1>3, <1>4, <3>1, <3>2, <3>3 DEF Alright
  <2>3. CASE pc[j] # "write" /\ n \notin DOMAIN archives
    <3>1. ASSUME pc[j] = "published" \/ (pc[j] = "delete" /\ local[j].archive)
          PROVE  Kept(Old(local[j].cutoff), Name(j))'
      <4>1. Kept(Old(c), n) /\ Old(c)' \subseteq Old(c)
        BY <1>1, <1>2, <1>3, <1>4, <2>1, <3>1 DEF Alright, Covered
      <4> QED BY <1>3, <1>4, <2>3, <4>1 DEF Kept
    <3>2. pc'[j] = pc[j] /\ local'[j] = local[j]
      OBVIOUS
    <3> QED BY <1>3, <1>4, <2>3, <3>1, <3>2 DEF Alright
  <2> QED BY <1>4, <1>6, <2>2, <2>3
<1>7. pc[j] \in {"zip", "write"} => Old(c)' \subseteq local[j].rows
  BY <1>1, <1>2, <1>3 DEF Covered
<1> QED BY <1>1, <1>2, <1>3, <1>4, <1>5, <1>6, <1>7 DEF Covered

\* A step that opens and publishes nothing: the rows that go are in the archive of
\* their prune, a .part stays as it is or goes away.
LEMMA ArchiveFrame ==
  ASSUME TypeOK, TypeOK', ArchiveInv, [Next]_vars, UNCHANGED <<archives, hist.zips>>,
         \A d \in hist'.gone :
           d \in hist.gone \/ (hist.zips[d[2]] <= 1 => Kept({d[1]}, d[2])),
         \A n \in DOMAIN parts' :
           /\ n \in DOMAIN parts /\ parts'[n] \subseteq parts[n]
           /\ \A k \in Jobs : parts[n] = {k} /\ pc'[k] = "write" => parts'[n] = {k},
         \A k \in Jobs :
           \/ UNCHANGED <<pc[k], local[k]>>
           \/ /\ Covered(k) => Covered(k)'
              /\ pc[k] = "write" => \A n \in DOMAIN parts' : k \notin parts'[n]
  PROVE  ArchiveInv'
<1>1. PartInv'
  <2>1. ASSUME NEW n \in DOMAIN parts', NEW k \in parts'[n]
        PROVE  pc'[k] = "write" /\ Name(k)' = n
    <3>1. n \in DOMAIN parts /\ k \in parts[n] /\ k \in Jobs
      BY <2>1 DEF TypeOK
    <3>2. pc[k] = "write" /\ Name(k) = n
      BY <3>1 DEF ArchiveInv, PartInv
    <3>3. UNCHANGED <<pc[k], local[k]>>
      BY <2>1, <3>1, <3>2
    <3> QED BY <3>2, <3>3 DEF Name
  <2> QED BY <2>1 DEF ArchiveInv, PartInv
<1>2. ASSUME NEW j \in Jobs PROVE Covered(j)'
  <2>1. Covered(j)
    BY DEF ArchiveInv
  <2>2. CASE UNCHANGED <<pc[j], local[j]>>
    <3>1. \A n \in DOMAIN parts' :
            n \in DOMAIN parts /\ (parts[n] = {j} /\ pc[j] = "write" => parts'[n] = {j})
      BY <2>2
    <3>2. hist.zips[Name(j)] <= 1 => Untouched(j)
      BY <3>1 DEF Untouched
    <3>3. hist.zips[Name(j)] \in Nat
      BY NameTyped DEF TypeOK, Histories
    <3> QED BY <2>1, <2>2, <3>2, <3>3, CoveredFrame
  <2> QED BY <2>1, <2>2
<1>3. DeletedIsArchived'
  BY DEF ArchiveInv, DeletedIsArchived, Kept
<1> QED BY <1>1, <1>2, <1>3 DEF ArchiveInv

LEMMA OpenStep ==
  ASSUME TypeOK, TypeOK', ArchiveInv, [Next]_vars, NEW j \in Jobs, Open(j)
  PROVE  ArchiveInv'
<1> DEFINE n == Name(j)
<1>1. /\ pc[j] = "zip" /\ pc'[j] = "write" /\ UNCHANGED <<now, raw, archives, local>>
      /\ \A k \in Jobs \ {j} : pc'[k] = pc[k]
  BY DEF Open, Goto, TypeOK, ingest
<1>2. \A k \in Jobs : Name(k)' = Name(k) /\ Name(k) \in Names
  BY <1>1, NameTyped DEF Name
<1>3. /\ hist'.zips[n] = hist.zips[n] + 1
      /\ \A m \in Names : hist.zips[m] \in Nat
      /\ \A m \in Names \ {n} : hist'.zips[m] = hist.zips[m]
  BY Opened DEF TypeOK, Histories
<1>4. \A m \in Names : hist.zips[m] > 0 => hist'.zips[m] > 0 /\ (m = n => hist'.zips[m] > 1)
  <2> HIDE DEF n
  <2> QED BY <1>2, <1>3
<1>5. hist'.zips[n] > 0 /\ (hist'.zips[n] <= 1 => hist.zips[n] = 0)
  BY <1>2, <1>3
<1>6. PartInv'
  <2>1. /\ DOMAIN parts' = DOMAIN parts \cup {n}
        /\ parts'[n] = (IF n \in DOMAIN parts THEN parts[n] ELSE {}) \cup {j}
        /\ \A m \in DOMAIN parts \ {n} : parts'[m] = parts[m]
    BY Opened
  <2>2. \A m \in DOMAIN archives' : hist'.zips[m] > 0
    BY <1>1, <1>4 DEF ArchiveInv, PartInv, TypeOK
  <2>3. \A m \in DOMAIN parts' : hist'.zips[m] > 0
    BY <1>4, <1>5, <2>1 DEF ArchiveInv, PartInv, TypeOK
  <2>4. ASSUME NEW m \in DOMAIN parts', NEW k \in parts'[m]
        PROVE  pc'[k] = "write" /\ Name(k)' = m
    <3>1. (k = j /\ m = n) \/ (m \in DOMAIN parts /\ k \in parts[m] /\ k \in Jobs)
      BY <2>1, <2>4 DEF TypeOK
    <3>2. CASE k = j /\ m = n
      BY <1>1, <1>2, <3>2
    <3>3. CASE m \in DOMAIN parts /\ k \in parts[m] /\ k \in Jobs
      <4>1. pc[k] = "write" /\ Name(k) = m
        BY <3>3 DEF ArchiveInv, PartInv
      <4> QED BY <1>1, <1>2, <3>3, <4>1
    <3> QED BY <3>1, <3>2, <3>3
  <2> QED BY <2>2, <2>3, <2>4 DEF PartInv
<1>7. Covered(j)'
  <2>1. /\ local[j].cutoff < now /\ local[j].archive
        /\ Old(local[j].cutoff) \subseteq local[j].rows
    BY <1>1 DEF ArchiveInv, Covered
  <2>2. Old(local[j].cutoff)' = Old(local[j].cutoff)
    BY <1>1 DEF Old
  <2>3. ASSUME hist'.zips[n] <= 1
        PROVE  n \notin DOMAIN archives' /\ (n \in DOMAIN parts' => parts'[n] = {j})
    <3>1. n \notin DOMAIN archives /\ n \notin DOMAIN parts
      BY <1>5, <2>3 DEF ArchiveInv, PartInv
    <3> QED BY <1>1, <3>1, Opened
  <2>4. hist'.zips[n] <= 1 => Alright(j)'
    BY <1>1, <1>2, <2>3 DEF Alright
  <2> QED BY <1>1, <1>2, <1>5, <2>1, <2>2, <2>4 DEF Covered
<1>8. ASSUME NEW k \in Jobs \ {j} PROVE Covered(k)'
  <2>1. Covered(k) /\ UNCHANGED <<pc[k], local[k]>>
    BY <1>1 DEF ArchiveInv
  <2>2. hist'.zips[Name(k)] > 0 \/ hist.zips[Name(k)] = 0
    BY <1>2, <1>3, <1>5
  <2>3. CASE Name(k) # n
    <3>1. /\ hist'.zips[Name(k)] = hist.zips[Name(k)]
          /\ Name(k) \in DOMAIN parts' =>
               Name(k) \in DOMAIN parts /\ parts'[Name(k)] = parts[Name(k)]
      <4>1. /\ DOMAIN parts' = DOMAIN parts \cup {n}
            /\ \A m \in DOMAIN parts \ {n} : parts'[m] = parts[m]
        BY Opened
      <4>2. Name(k) \in Names \ {n}
        BY <1>2, <2>3
      <4> HIDE DEF n
      <4> QED BY <1>3, <4>1, <4>2
    <3>2. hist'.zips[Name(k)] <= 1 => Untouched(k)
      BY <1>1, <3>1 DEF Untouched
    <3> QED BY <2>1, <2>2, <3>2, CoveredFrame
  <2>4. CASE Name(k) = n
    <3>1. hist'.zips[Name(k)] <= 1 => hist.zips[Name(k)] = 0
      BY <1>5, <2>4
    <3>2. hist.zips[Name(k)] = 0 => pc[k] # "write" /\ Name(k) \notin DOMAIN archives
      BY <2>1 DEF Covered, ArchiveInv, PartInv
    <3> QED BY <2>1, <2>2, <3>1, <3>2, CoveredFrame
  <2> QED BY <2>3, <2>4
<1>9. DeletedIsArchived'
  <2>1. \A d \in hist.gone : d[2] \in Names
    BY DEF TypeOK, Histories
  <2>2. \A m \in Names : hist'.zips[m] <= 1 => hist.zips[m] <= 1
    <3> HIDE DEF n
    <3> QED BY <1>3
  <2>3. hist'.gone = hist.gone
    BY Opened
  <2> QED BY <1>1, <2>1, <2>2, <2>3 DEF ArchiveInv, DeletedIsArchived
<1> QED BY <1>6, <1>7, <1>8, <1>9 DEF ArchiveInv

LEMMA PublishStep ==
  ASSUME TypeOK, TypeOK', ArchiveInv, [Next]_vars, NEW j \in Jobs, Publish(j)
  PROVE  ArchiveInv'
<1> DEFINE n == Name(j)
<1>1. /\ pc[j] = "write" /\ UNCHANGED <<now, raw, local>>
      /\ \A k \in Jobs \ {j} : pc'[k] = pc[k]
      /\ RemovePart(j)
  <2>1. pc' = [pc EXCEPT ![j] = "failed"] \/ pc' = [pc EXCEPT ![j] = "published"]
    BY Published
  <2>2. pc[j] = "write" /\ UNCHANGED <<now, raw, local>> /\ RemovePart(j)
    BY DEF Publish, ingest
  <2> QED BY <2>1, <2>2 DEF TypeOK
<1>2. \A k \in Jobs : Name(k)' = Name(k) /\ Name(k) \in Names
  BY <1>1, NameTyped DEF Name
<1>3. hist'.zips = hist.zips /\ hist'.gone = hist.gone
  BY PublishedRows
<1>4. /\ DOMAIN parts' = DOMAIN parts \ {n}
      /\ \A m \in DOMAIN parts' : parts'[m] = parts[m] /\ j \notin parts'[m]
  BY <1>1, PartRemoved DEF ArchiveInv, PartInv
<1>5. CASE UNCHANGED archives /\ pc'[j] = "failed"
  <2>1. Covered(j)'
    BY <1>5 DEF Covered, Alright
  <2>2. \A m \in DOMAIN parts' :
           /\ m \in DOMAIN parts /\ parts'[m] \subseteq parts[m]
           /\ \A k \in Jobs : parts[m] = {k} /\ pc'[k] = "write" => parts'[m] = {k}
    BY <1>4
  <2>3. \A k \in Jobs :
           \/ UNCHANGED <<pc[k], local[k]>>
           \/ /\ Covered(k) => Covered(k)'
              /\ pc[k] = "write" => \A m \in DOMAIN parts' : k \notin parts'[m]
    BY <1>1, <1>4, <2>1
  <2> QED BY <1>3, <1>5, <2>2, <2>3, ArchiveFrame
<1>6. CASE n \in DOMAIN parts /\ pc'[j] = "published"
  <2>1. PICK rows \in Content(j) :
           /\ DOMAIN archives' = DOMAIN archives \cup {n}
           /\ archives'[n] = rows
           /\ \A m \in DOMAIN archives \ {n} : archives'[m] = archives[m]
    BY <1>1, <1>6, Published DEF TypeOK
  <2>2. Covered(j) /\ n \in Names
    BY <1>2 DEF ArchiveInv
  <2>3. hist.zips[n] <= 1 => n \notin DOMAIN archives /\ parts[n] = {j}
    BY <1>1, <1>6, <2>2 DEF Covered, Alright
  <2>4. PartInv'
    <3>1. hist.zips[n] > 0
      BY <1>1, <2>2 DEF Covered
    <3>2. \A m \in DOMAIN archives' : hist'.zips[m] > 0
      BY <1>3, <2>1, <3>1 DEF ArchiveInv, PartInv
    <3>3. ASSUME NEW m \in DOMAIN parts', NEW k \in parts'[m]
          PROVE  pc'[k] = "write" /\ Name(k)' = m
      <4>1. m \in DOMAIN parts /\ k \in parts[m] /\ k \in Jobs /\ k # j
        BY <1>4, <3>3 DEF TypeOK
      <4>2. pc[k] = "write" /\ Name(k) = m
        BY <4>1 DEF ArchiveInv, PartInv
      <4> QED BY <1>1, <1>2, <4>1, <4>2
    <3> QED BY <1>3, <1>4, <3>2, <3>3 DEF ArchiveInv, PartInv
  <2>5. Covered(j)'
    <3>1. /\ local[j].cutoff < now /\ local[j].archive
          /\ Old(local[j].cutoff) \subseteq local[j].rows
      BY <1>1, <2>2 DEF Covered
    <3>2. Old(local[j].cutoff)' = Old(local[j].cutoff)
      BY <1>1 DEF Old
    <3>3. hist.zips[n] <= 1 => rows = local[j].rows
      BY <1>6, <2>1, <2>3, ContentOf
    <3>4. hist.zips[n] <= 1 => Kept(Old(local[j].cutoff), n)'
      <4> QED BY <1>2, <2>1, <3>1, <3>2, <3>3 DEF Kept
    <3>5. hist'.zips[n] <= 1 => Alright(j)'
      <4> QED BY <1>2, <1>3, <1>6, <3>4, <1>1 DEF Alright
    <3> QED BY <1>1, <1>2, <1>6, <3>1, <3>5 DEF Covered
  <2>6. ASSUME NEW k \in Jobs \ {j} PROVE Covered(k)'
    <3>1. Covered(k) /\ UNCHANGED <<pc[k], local[k]>>
      BY <1>1 DEF ArchiveInv
    <3>2. hist'.zips[Name(k)] > 0 \/ hist.zips[Name(k)] = 0
      BY <1>2, <1>3 DEF TypeOK, Histories
    <3>3. CASE Name(k) # n
      <4>1. hist'.zips[Name(k)] <= 1 => Untouched(k)
        BY <1>3, <1>4, <2>1, <3>3 DEF Untouched
      <4> QED BY <3>1, <3>2, <4>1, CoveredFrame
    <3>4. CASE Name(k) = n
      <4>1. hist.zips[n] <= 1 => pc[k] # "write"
        BY <1>6, <2>3, <3>1, <3>4 DEF Covered, Alright
      <4> QED BY <1>3, <2>3, <3>1, <3>2, <3>4, <4>1, CoveredFrame
    <3> QED BY <3>3, <3>4
  <2>7. DeletedIsArchived'
    BY <1>3, <2>1, <2>3 DEF ArchiveInv, DeletedIsArchived
  <2> QED BY <2>4, <2>5, <2>6, <2>7 DEF ArchiveInv
<1> QED BY <1>1, <1>5, <1>6, Published DEF TypeOK

LEMMA ArchiveStep == TypeOK /\ TypeOK' /\ ArchiveInv /\ [Next]_vars => ArchiveInv'
<1> SUFFICES ASSUME TypeOK, TypeOK', ArchiveInv, [Next]_vars PROVE ArchiveInv'
  OBVIOUS
<1> USE DEF ingest, settings, prune, Goto, Leave
<1>0. hist \in Histories
  BY DEF TypeOK
<1>2. ASSUME UNCHANGED <<archives, parts, hist.zips>>,
             \A d \in hist'.gone :
               d \in hist.gone \/ (hist.zips[d[2]] <= 1 => Kept({d[1]}, d[2])),
             \A k \in Jobs :
               UNCHANGED <<pc[k], local[k]>> \/ ((Covered(k) => Covered(k)') /\ pc[k] # "write")
      PROVE  ArchiveInv'
  BY <1>2, ArchiveFrame
<1>3. ASSUME NEW j \in Jobs, Delete(j) PROVE ArchiveInv'
  <2>1. /\ pc[j] = "delete" /\ pc'[j] = "save"
        /\ \A i \in Jobs \ {j} : pc'[i] = pc[i]
        /\ UNCHANGED <<local, archives, parts>>
    BY <1>3 DEF Delete, TypeOK
  <2>2. /\ hist'.zips = hist.zips
        /\ \/ hist'.gone = hist.gone
           \/ local[j].archive
              /\ hist'.gone = hist.gone \cup {<<r, Name(j)>> : r \in Pruned(j)}
    BY <1>0, <1>3 DEF Delete, Histories
  <2>3. Covered(j)
    BY DEF ArchiveInv
  <2>4. local[j].archive /\ hist.zips[Name(j)] <= 1 => Kept(Pruned(j), Name(j))
    BY <2>1, <2>3 DEF Covered, Alright, Pruned
  <2>5. ASSUME NEW d \in hist'.gone, d \notin hist.gone, hist.zips[d[2]] <= 1
        PROVE  Kept({d[1]}, d[2])
    <3>1. PICK r \in Pruned(j) : d = <<r, Name(j)>> /\ local[j].archive
      BY <2>2, <2>5
    <3> QED BY <2>4, <2>5, <3>1 DEF Kept
  <2>6. Covered(j)'
    BY <2>1 DEF Covered, Alright
  <2> QED BY <1>2, <2>1, <2>2, <2>5, <2>6
<1>4. ASSUME NEW j \in Jobs, Begin(j) PROVE ArchiveInv'
  <2>1. /\ \A i \in Jobs \ {j} : pc'[i] = pc[i] /\ local'[i] = local[i]
        /\ pc[j] = "start" /\ UNCHANGED <<archives, parts, hist, now, raw>>
    BY <1>4 DEF Begin, TypeOK
  <2>2. Covered(j)'
    <3>1. CASE pc'[j] \in {"idle", "unlock"}
      BY <3>1 DEF Covered, Alright
    <3>2. CASE pc'[j] \notin {"idle", "unlock"}
      <4>1. /\ local'[j].cutoff = now - config.retention
            /\ local'[j].archive = config.archive
            /\ pc'[j] = IF config.archive THEN "select" ELSE "delete"
        BY <1>4, <3>2 DEF Begin, TypeOK, Locals
      <4>2. config.retention \in Nat \ {0} /\ now \in Int
        BY DEF TypeOK, Configs, Times
      <4>3. local'[j].cutoff < now'
        BY <2>1, <4>1, <4>2
      <4> QED BY <4>1, <4>3 DEF Covered, Alright
    <3> QED BY <3>1, <3>2
  <2> QED BY <1>2, <2>1, <2>2
<1>5. ASSUME NEW j \in Jobs, Select(j) PROVE ArchiveInv'
  <2>1. /\ pc[j] = "select" /\ UNCHANGED <<archives, parts, hist, now, raw>>
        /\ \A i \in Jobs \ {j} : pc'[i] = pc[i] /\ local'[i] = local[i]
        /\ local'[j].cutoff = local[j].cutoff /\ local'[j].archive = local[j].archive
        /\ local'[j].rows = Old(local[j].cutoff)
        /\ pc'[j] = IF Old(local[j].cutoff) = {} THEN "delete" ELSE "zip"
    BY <1>5 DEF Select, TypeOK, Locals
  <2>2. Old(local[j].cutoff)' = Old(local[j].cutoff)
    BY <2>1 DEF Old
  <2>3. Covered(j) => Covered(j)'
    BY <2>1, <2>2 DEF Covered, Alright, Kept
  <2> QED BY <1>2, <2>1, <2>3
<1>6. ASSUME NEW j \in Jobs,
             Acquire(j) \/ PruneNow(j) \/ DeleteFails(j) \/ SavePrune(j) \/ Unlock(j)
      PROVE  ArchiveInv'
  <2>1. /\ pc'[j] \in {"idle", "start", "unlock"} /\ pc[j] # "write"
        /\ \A i \in Jobs \ {j} : pc'[i] = pc[i] /\ local'[i] = local[i]
        /\ UNCHANGED <<archives, parts, hist>>
    BY <1>6 DEF Acquire, PruneNow, DeleteFails, SavePrune, Unlock, TypeOK
  <2>2. Covered(j)'
    BY <2>1 DEF Covered, Alright
  <2> QED BY <1>2, <2>1, <2>2
<1>7. ASSUME NEW j \in Jobs, ZipFails(j) \/ Sweep(j) PROVE ArchiveInv'
  <2>1. /\ RemovePart(j) /\ UNCHANGED <<archives, hist, now, raw>>
        /\ \A i \in Jobs \ {j} : pc'[i] = pc[i] /\ local'[i] = local[i]
    BY <1>7 DEF ZipFails, Sweep, TypeOK
  <2>2. /\ \A m \in DOMAIN parts' : m \in DOMAIN parts /\ parts'[m] = parts[m]
        /\ \A m \in DOMAIN parts' : j \notin parts'[m]
    BY <2>1, PartRemoved DEF ArchiveInv, PartInv
  <2>3. Covered(j) => Covered(j)'
    <3>1. CASE pc'[j] \in {"failed", "unlock", "idle"}
      BY <3>1 DEF Covered, Alright
    <3>2. CASE pc'[j] \notin {"failed", "unlock", "idle"}
      <4>1. pc[j] = "published" /\ pc'[j] = "delete" /\ UNCHANGED local
        BY <1>7, <3>2 DEF ZipFails, Sweep, TypeOK
      <4>2. Old(local[j].cutoff)' = Old(local[j].cutoff) /\ Name(j)' = Name(j)
        BY <2>1, <4>1 DEF Old, Name
      <4> QED BY <2>1, <4>1, <4>2 DEF Covered, Alright, Kept
    <3> QED BY <3>1, <3>2
  <2>4. \A k \in Jobs :
           \/ UNCHANGED <<pc[k], local[k]>>
           \/ /\ Covered(k) => Covered(k)'
              /\ pc[k] = "write" => \A n \in DOMAIN parts' : k \notin parts'[n]
    BY <2>1, <2>2, <2>3
  <2> QED BY <2>1, <2>2, <2>4, ArchiveFrame
<1>8. ASSUME NEW p \in Procs, Crash(p) PROVE ArchiveInv'
  <2>1. \A j \in Jobs :
           \/ Process(j) # p /\ UNCHANGED <<pc[j], local[j]>>
           \/ Process(j) = p /\ pc'[j] = "idle"
    BY <1>8 DEF Crash, TypeOK
  <2>2. hist'.zips = hist.zips /\ hist'.gone = hist.gone /\ UNCHANGED archives
    BY <1>0, <1>8 DEF Crash, Histories
  <2>3. /\ DOMAIN parts' = DOMAIN parts
        /\ \A n \in DOMAIN parts : parts'[n] = {j \in parts[n] : Process(j) # p}
    BY <1>8 DEF Crash
  <2>4. \A n \in DOMAIN parts' :
           /\ n \in DOMAIN parts /\ parts'[n] \subseteq parts[n]
           /\ \A k \in Jobs : parts[n] = {k} /\ pc'[k] = "write" => parts'[n] = {k}
    BY <2>1, <2>3
  <2>5. \A k \in Jobs :
           \/ UNCHANGED <<pc[k], local[k]>>
           \/ /\ Covered(k) => Covered(k)'
              /\ pc[k] = "write" => \A n \in DOMAIN parts' : k \notin parts'[n]
    BY <2>1, <2>3 DEF Covered, Alright
  <2> QED BY <2>2, <2>4, <2>5, ArchiveFrame
<1>9. ASSUME UNCHANGED <<pc, local, archives, parts>>,
             \/ \E p \in Procs : \/ StoreRawLog(p) \/ ProcessLine(p) \/ InsertFails(p)
                                \/ Disconnect(p) \/ Connect(p)
             \/ hist' = hist
      PROVE  ArchiveInv'
  <2>1. hist'.zips = hist.zips /\ hist'.gone = hist.gone
    BY <1>0, <1>9 DEF StoreRawLog, InsertRaw, ProcessLine, InsertFails, Disconnect, Connect,
       Histories
  <2> QED BY <1>2, <1>9, <2>1
<1>10. CASE \E p \in Procs : \/ StoreRawLog(p) \/ ProcessLine(p) \/ InsertFails(p)
                            \/ Disconnect(p) \/ Connect(p) \/ Crash(p)
  BY <1>8, <1>9, <1>10 DEF StoreRawLog, ProcessLine, InsertFails, Disconnect, Connect
<1>11. CASE \E j \in Jobs : \/ Acquire(j) \/ PruneNow(j) \/ Begin(j) \/ Select(j) \/ Open(j)
                            \/ Publish(j) \/ ZipFails(j) \/ Sweep(j) \/ Delete(j)
                            \/ DeleteFails(j) \/ SavePrune(j) \/ Unlock(j)
  BY <1>3, <1>4, <1>5, <1>6, <1>7, <1>11, OpenStep, PublishStep
<1> QED BY <1>9, <1>10, <1>11 DEF Next, Advance, Emit, Submit, StoreKey, vars

\* A row deleted by a prune that was to archive is in the archive of that prune,
\* unless two prunes of one second shared its .part: nothing that is stored, saved,
\* pruned or published between a SELECT and its DELETE comes in between, and a
\* prune whose .part another one took away deletes nothing.
THEOREM RawLogDeletedIsArchived == Spec => []DeletedIsArchived
<1>1. ArchiveInv => DeletedIsArchived
  BY DEF ArchiveInv
<1> QED BY <1>1, TypeInit, ArchiveInit, TypeStep, ArchiveStep, PTL DEF Spec

-----------------------------------------------------------------------------
(* What is archived twice.                                                 *)

\* A row is inserted under the next identifier.
LEMMA Inserted ==
  ASSUME TypeOK, NEW p \in Procs, StoreRawLog(p)
  PROVE  /\ \A r \in raw' : r \in raw \/ r.id = next_id
         /\ \/ raw' = raw /\ next_id' = next_id
            \/ next_id' = next_id + 1
         /\ raw \subseteq raw'
         /\ UNCHANGED <<pc, local, archives, parts, lock, spent>>
         /\ hist'.again = hist.again
BY DEF StoreRawLog, InsertRaw, TypeOK, Histories, settings, prune

LEMMA IdStep == TypeOK /\ TypeOK' /\ IdInv /\ [Next]_vars => IdInv'
<1> SUFFICES ASSUME TypeOK, TypeOK', IdInv, [Next]_vars PROVE IdInv'
  OBVIOUS
<1> USE DEF ingest, settings, prune, Goto, Leave
<1>0. /\ next_id \in Nat /\ \A r \in Rows : r.id \in Nat
      /\ raw \subseteq Rows /\ Archived \subseteq Rows
      /\ \A j \in Jobs : local[j].rows \subseteq Rows
  BY DEF TypeOK, Rows, Archived, Locals
<1>1. ASSUME NEW p \in Procs, StoreRawLog(p) PROVE IdInv'
  <2>1. Archived' = Archived /\ UNCHANGED local
    BY <1>1, Inserted DEF Archived
  <2>2. \A r \in Rows : r.id < next_id => r.id < next_id'
    BY <1>0, <1>1, Inserted
  <2>3. \A r \in raw' : r.id < next_id'
    BY <1>0, <1>1, <2>2, Inserted DEF IdInv
  <2> QED BY <1>0, <2>1, <2>2, <2>3 DEF IdInv
<1>2. ASSUME UNCHANGED next_id, raw' \subseteq raw,
             Archived' \subseteq Archived \cup UNION {local[j].rows : j \in Jobs},
             \A j \in Jobs : local'[j].rows \subseteq local[j].rows \cup raw
      PROVE  IdInv'
  BY <1>2 DEF IdInv
<1>3. ASSUME NEW j \in Jobs, Publish(j) PROVE IdInv'
  <2>1. UNCHANGED <<next_id, raw, local>>
    BY <1>3 DEF Publish
  <2>2. Archived' \subseteq Archived \cup UNION {local[k].rows : k \in Jobs}
    BY <1>3, PublishedRows
  <2> QED BY <1>2, <2>1, <2>2
<1>4. ASSUME NEW j \in Jobs,
             \/ Acquire(j) \/ PruneNow(j) \/ Begin(j) \/ Select(j) \/ Open(j) \/ ZipFails(j)
             \/ Sweep(j) \/ Delete(j) \/ DeleteFails(j) \/ SavePrune(j) \/ Unlock(j)
      PROVE  IdInv'
  <2>1. UNCHANGED <<next_id, archives>> /\ raw' \subseteq raw
    BY <1>4 DEF Acquire, PruneNow, Begin, Select, Open, ZipFails, Sweep, Delete, DeleteFails,
       SavePrune, Unlock
  <2>2. local' = local \/ \E x : local' = [local EXCEPT ![j] = x] /\ x.rows \subseteq local[j].rows \cup raw
    <3>1. CASE Select(j)
      <4>1. local' = [local EXCEPT ![j] = [local[j] EXCEPT !.rows = Old(local[j].cutoff)]]
        BY <3>1 DEF Select
      <4>2. [local[j] EXCEPT !.rows = Old(local[j].cutoff)].rows = Old(local[j].cutoff)
        BY DEF TypeOK, Locals
      <4> QED BY <4>1, <4>2 DEF Old
    <3>2. CASE Begin(j)
      <4>1. \/ local' = [local EXCEPT ![j] = NoLocals]
            \/ local' = [local EXCEPT ![j] = [local[j] EXCEPT !.at = now,
                           !.cutoff = now - config.retention, !.archive = config.archive]]
        BY <3>2 DEF Begin
      <4>2. NoLocals.rows = {}
        BY DEF NoLocals
      <4>3. [local[j] EXCEPT !.at = now, !.cutoff = now - config.retention, !.archive = config.archive].rows
              = local[j].rows
        <5>1. local[j] \in Locals
          BY DEF TypeOK
        <5> QED BY <5>1 DEF Locals
      <4> QED BY <4>1, <4>2, <4>3
    <3>3. CASE \/ Acquire(j) \/ PruneNow(j) \/ Open(j) \/ ZipFails(j) \/ Sweep(j) \/ Delete(j)
               \/ DeleteFails(j) \/ SavePrune(j) \/ Unlock(j)
      <4>1. local' = local \/ local' = [local EXCEPT ![j] = NoLocals]
        BY <3>3 DEF Acquire, PruneNow, Open, ZipFails, Sweep, Delete, DeleteFails, SavePrune, Unlock
      <4> QED BY <4>1 DEF NoLocals
    <3> QED BY <1>4, <3>1, <3>2, <3>3
  <2>3. Archived' = Archived
    BY <2>1 DEF Archived
  <2>4. \A i \in Jobs : local'[i].rows \subseteq local[i].rows \cup raw
    BY <2>2 DEF TypeOK
  <2> QED BY <1>2, <2>1, <2>3, <2>4
<1>5. ASSUME NEW p \in Procs,
             ProcessLine(p) \/ InsertFails(p) \/ Disconnect(p) \/ Connect(p) \/ Crash(p)
      PROVE  IdInv'
  <2>1. UNCHANGED <<next_id, archives, raw>>
    BY <1>5 DEF ProcessLine, InsertFails, Disconnect, Connect, Crash
  <2>2. \A i \in Jobs : local'[i] = local[i] \/ local'[i] = NoLocals
    BY <1>5 DEF ProcessLine, InsertFails, Disconnect, Connect, Crash, TypeOK
  <2>3. Archived' = Archived
    BY <2>1 DEF Archived
  <2>4. \A i \in Jobs : local'[i].rows \subseteq local[i].rows \cup raw
    BY <2>2 DEF NoLocals
  <2> QED BY <1>2, <2>1, <2>3, <2>4
<1>6. CASE UNCHANGED <<next_id, archives, raw, local>>
  <2>1. Archived' = Archived
    BY <1>6 DEF Archived
  <2> QED BY <1>2, <1>6, <2>1
<1>7. CASE \E p \in Procs : \/ StoreRawLog(p) \/ ProcessLine(p) \/ InsertFails(p)
                            \/ Disconnect(p) \/ Connect(p) \/ Crash(p)
  BY <1>1, <1>5, <1>7
<1>8. CASE \E j \in Jobs : \/ Acquire(j) \/ PruneNow(j) \/ Begin(j) \/ Select(j) \/ Open(j)
                           \/ Publish(j) \/ ZipFails(j) \/ Sweep(j) \/ Delete(j)
                           \/ DeleteFails(j) \/ SavePrune(j) \/ Unlock(j)
  BY <1>3, <1>4, <1>8
<1> QED BY <1>6, <1>7, <1>8 DEF Next, Advance, Emit, Submit, StoreKey, vars

LEMMA AgainInit == Init => IdInv /\ AgainInv
<1> SUFFICES ASSUME Init PROVE IdInv /\ AgainInv
  OBVIOUS
<1>1. /\ raw = {} /\ Archived = {} /\ hist.again = {}
      /\ \A j \in Jobs : pc[j] = "idle" /\ local[j].rows = {}
  BY DEF Init, Archived, NoLocals
<1> QED BY <1>1 DEF IdInv, AgainInv, Alone

\* Two prunes under way are one.
LEMMA OnePrune ==
  ASSUME ConstantsAssumption, NEW i \in Jobs, NEW j \in Jobs, Alone(i), Alone(j),
         pc[i] # "idle", pc[j] # "idle"
  PROVE  i = j
BY DEF Alone, Jobs, Scheduled, Process

Calm == spent.prunefail = 0 /\ spent.crash = 0 /\ spent.manual = 0

\* What is spent stays spent.
LEMMA CalmStep ==
  ASSUME TypeOK, TypeOK', [Next]_vars, Calm'
  PROVE  /\ Calm
         /\ \A j \in Jobs : ~PruneNow(j) /\ ~ZipFails(j) /\ ~DeleteFails(j)
         /\ \A p \in Procs : ~Crash(p)
<1>1. ASSUME NEW k \in Kinds, Spend(k)
      PROVE  /\ spent'[k] > 0
             /\ k \in {"prunefail", "crash", "manual"} => ~Calm'
             /\ Calm
  <2>1. spent' = [spent EXCEPT ![k] = @ + 1] /\ spent \in [Kinds -> Nat]
    BY <1>1, Spends DEF TypeOK
  <2>2. spent'[k] = spent[k] + 1 /\ spent[k] \in Nat /\ \A m \in Kinds \ {k} : spent'[m] = spent[m]
    BY <2>1
  <2>3. /\ spent'["prunefail"] = 0 /\ spent'["crash"] = 0 /\ spent'["manual"] = 0
        /\ {"prunefail", "crash", "manual"} \subseteq Kinds
    BY DEF Calm, Kinds
  <2>4. k \notin {"prunefail", "crash", "manual"}
    BY <2>2, <2>3
  <2> QED BY <2>2, <2>3, <2>4 DEF Calm, Kinds
<1>2. ASSUME NEW j \in Jobs PROVE ~PruneNow(j) /\ ~ZipFails(j) /\ ~DeleteFails(j)
  BY <1>1 DEF PruneNow, ZipFails, DeleteFails, Kinds
<1>3. ASSUME NEW p \in Procs PROVE ~Crash(p)
  BY <1>1 DEF Crash, Kinds
<1>4. spent' = spent \/ Spend("save") \/ Spend("dberror") \/ Spend("drop")
  BY <1>2, <1>3 DEF Next, Advance, Emit, Submit, StoreKey, StoreRawLog, ProcessLine,
     InsertFails, Disconnect, Connect, Acquire, Begin, Select, Open, Publish, Sweep, Delete, SavePrune,
     Unlock, vars
<1> QED BY <1>1, <1>2, <1>3, <1>4 DEF Calm, Kinds

LEMMA AgainStep ==
  TypeOK /\ TypeOK' /\ IdInv /\ PartInv /\ AgainInv /\ [Next]_vars => AgainInv'
<1> SUFFICES ASSUME TypeOK, TypeOK', IdInv, PartInv, AgainInv, [Next]_vars, Calm' PROVE AgainInv'
  BY DEF AgainInv, Calm
<1> USE DEF ingest, settings, prune, Goto, Leave
<1> DEFINE Ours(r) == \E j \in Jobs : pc[j] \in {"published", "delete"} /\ r.at < local[j].cutoff
<1>0. /\ Calm
      /\ hist.again = {}
      /\ \A j \in Jobs : Alone(j)
      /\ \A r \in raw \cap Archived : Ours(r)
  BY CalmStep DEF AgainInv, Calm
<1>1. ASSUME hist'.again = {}, \A j \in Jobs : Alone(j)',
             \A r \in raw' \cap Archived' : Ours(r)'
      PROVE  AgainInv'
  BY <1>1 DEF AgainInv
<1>2. ASSUME NEW p \in Procs, StoreRawLog(p) PROVE AgainInv'
  <2>1. Archived' = Archived /\ hist'.again = {}
    BY <1>0, <1>2, Inserted DEF Archived
  <2>2. ASSUME NEW j \in Jobs PROVE Alone(j)'
    BY <1>0, <1>2, <2>1, Inserted DEF Alone, Old
  <2>3. ASSUME NEW r \in raw' \cap Archived' PROVE Ours(r)'
    <3>1. r.id < next_id /\ r.id \in Nat /\ next_id \in Nat
      <4>1. Archived \subseteq Rows
        BY DEF TypeOK, Archived
      <4> QED BY <2>1, <2>3, <4>1 DEF IdInv, Rows, TypeOK
    <3>2. r \in raw
      BY <1>2, <3>1, Inserted
    <3> QED BY <1>0, <1>2, <2>1, <3>2, Inserted
  <2> QED BY <1>1, <2>1, <2>2, <2>3
<1>3. ASSUME NEW j \in Jobs, Select(j) PROVE AgainInv'
  <2>1. /\ pc[j] = "select" /\ UNCHANGED <<archives, hist, lock, raw>>
        /\ \A i \in Jobs \ {j} : pc'[i] = pc[i] /\ local'[i] = local[i]
        /\ local'[j].cutoff = local[j].cutoff /\ local'[j].rows = Old(local[j].cutoff)
        /\ pc'[j] \in {"delete", "zip"}
    BY <1>3 DEF Select, TypeOK, Locals
  <2>2. \A i \in Jobs \ {j} : pc[i] = "idle"
    BY <1>0, <2>1, OnePrune, ConstantsAssumption
  <2>3. Archived' = Archived /\ raw \cap Archived = {}
    BY <1>0, <2>1, <2>2 DEF Archived
  <2>4. Alone(j)'
    BY <1>0, <2>1, <2>3 DEF Alone, Old
  <2>5. ASSUME NEW i \in Jobs \ {j} PROVE Alone(i)'
    BY <2>1, <2>2 DEF Alone
  <2> QED BY <1>0, <1>1, <2>1, <2>3, <2>4, <2>5
<1>4. ASSUME NEW j \in Jobs, Publish(j) PROVE AgainInv'
  <2>1. /\ pc[j] = "write" /\ UNCHANGED <<local, lock, raw>>
        /\ (pc'[j] = "failed" /\ UNCHANGED archives) \/ pc'[j] = "published"
        /\ \A i \in Jobs \ {j} : pc'[i] = pc[i]
    BY <1>4, Published DEF Publish, TypeOK
  <2>2. \A i \in Jobs \ {j} : pc[i] = "idle"
    BY <1>0, <2>1, OnePrune, ConstantsAssumption
  <2>3. local[j].rows \subseteq Old(local[j].cutoff) \ Archived /\ Alone(j)
    BY <1>0, <2>1 DEF Alone
  <2>4. \A n \in DOMAIN parts : \A k \in parts[n] : k = j
    BY <2>1, <2>2 DEF PartInv, TypeOK
  <2>5. hist'.again = {}
    <3>1. CASE hist' = hist
      BY <1>0, <3>1
    <3>2. CASE Name(j) \in DOMAIN parts /\ hist' # hist
      <4>1. PICK rows \in Content(j) : hist' = [hist EXCEPT !.again = @ \cup (rows \cap Archived)]
        BY <1>4, <3>2, Published
      <4>2. rows \subseteq local[j].rows
        BY <2>4, <3>2, <4>1, ContentOf
      <4>3. rows \cap Archived = {}
        BY <2>3, <4>2
      <4> QED BY <1>0, <4>1, <4>3 DEF TypeOK, Histories
    <3> QED BY <1>4, <3>1, <3>2, Published
  <2>6. \A i \in Jobs : Alone(i)'
    BY <1>0, <2>1, <2>2 DEF Alone
  <2>7. raw \cap Archived = {}
    BY <1>0, <2>1, <2>2
  <2>8. ASSUME NEW r \in raw' \cap Archived' PROVE Ours(r)'
    <3>1. r \in raw /\ r \notin Archived
      BY <2>1, <2>7, <2>8
    <3>2. r \in local[j].rows
      BY <1>4, <2>4, <2>8, <3>1, PublishedRows
    <3>3. pc'[j] = "published"
      BY <2>1, <2>8, <3>1 DEF Archived
    <3> QED BY <2>1, <2>3, <3>2, <3>3 DEF Old
  <2> QED BY <1>1, <2>5, <2>6, <2>8
<1>10. ASSUME NEW j \in Jobs, Open(j) \/ Sweep(j) PROVE AgainInv'
  <2>1. /\ pc[j] # "idle" /\ UNCHANGED <<lock, raw, archives>> /\ hist'.again = hist.again
        /\ \A i \in Jobs \ {j} : pc'[i] = pc[i] /\ local'[i] = local[i]
        /\ \/ pc[j] = "zip" /\ pc'[j] = "write" /\ local' = local
           \/ pc[j] = "published" /\ pc'[j] = "delete" /\ local' = local
           \/ pc[j] = "failed" /\ pc'[j] \in {"unlock", "idle"} /\ (pc'[j] = "idle" => ~Scheduled(j))
    BY <1>10, Opened DEF Open, Sweep, TypeOK
  <2>2. \A i \in Jobs \ {j} : pc[i] = "idle"
    BY <1>0, <2>1, OnePrune, ConstantsAssumption
  <2>3. Archived' = Archived
    BY <2>1 DEF Archived
  <2>4. ASSUME NEW i \in Jobs PROVE Alone(i)'
    <3>1. CASE i = j
      <4>1. Alone(j) /\ Scheduled(j)
        BY <1>0, <2>1 DEF Alone
      <4> QED BY <2>1, <2>3, <3>1, <4>1 DEF Alone, Old
    <3>2. CASE i # j
      BY <2>1, <2>2, <3>2 DEF Alone
    <3> QED BY <3>1, <3>2
  <2>5. ASSUME NEW r \in raw' \cap Archived' PROVE Ours(r)'
    <3>1. PICK i \in Jobs : pc[i] \in {"published", "delete"} /\ r.at < local[i].cutoff
      BY <1>0, <2>1, <2>3
    <3>2. i = j /\ pc[j] = "published"
      BY <2>1, <2>2, <3>1
    <3> QED BY <2>1, <3>1, <3>2
  <2> QED BY <1>0, <1>1, <2>1, <2>4, <2>5
<1>5. ASSUME NEW j \in Jobs, Delete(j) PROVE AgainInv'
  <2>1. /\ pc[j] = "delete" /\ pc'[j] = "save" /\ UNCHANGED <<local, lock, archives>>
        /\ \A i \in Jobs \ {j} : pc'[i] = pc[i]
        /\ raw' = raw \ Old(local[j].cutoff)
    BY <1>5 DEF Delete, Pruned, TypeOK
  <2>2. \A i \in Jobs \ {j} : pc[i] = "idle"
    BY <1>0, <2>1, OnePrune, ConstantsAssumption
  <2>3. hist'.again = {}
    BY <1>0, <1>5 DEF Delete, TypeOK, Histories
  <2>4. \A i \in Jobs : Alone(i)'
    BY <1>0, <2>1, <2>2 DEF Alone
  <2>5. raw' \cap Archived' = {}
    <3>1. Archived' = Archived
      BY <2>1 DEF Archived
    <3>2. \A r \in raw \cap Archived : r.at < local[j].cutoff
      BY <1>0, <2>1, <2>2
    <3> QED BY <2>1, <3>1, <3>2 DEF Old
  <2> QED BY <1>1, <2>3, <2>4, <2>5
<1>6. ASSUME NEW j \in Jobs, Acquire(j) \/ Begin(j) \/ SavePrune(j) \/ Unlock(j)
      PROVE  AgainInv'
  <2>1. /\ \A i \in Jobs \ {j} : pc'[i] = pc[i] /\ local'[i] = local[i]
        /\ pc[j] \in {"idle", "start", "save", "unlock"} /\ pc'[j] \notin {"zip", "write"}
        /\ UNCHANGED <<archives, raw, hist>>
    BY <1>6 DEF Acquire, Begin, SavePrune, Unlock, TypeOK
  <2>2. Archived' = Archived
    BY <2>1 DEF Archived
  <2>3. ASSUME NEW i \in Jobs PROVE Alone(i)'
    <3>1. CASE Acquire(j)
      <4>1. Scheduled(j) /\ lock = Nobody /\ lock' = Process(j)
        BY <3>1 DEF Acquire
      <4>2. \A k \in Jobs : pc[k] = "idle"
        <5>1. \A k \in Jobs : Process(k) # Nobody
          BY ConstantsAssumption DEF Jobs, Process
        <5> QED BY <1>0, <4>1, <5>1 DEF Alone
      <4> QED BY <2>1, <4>1, <4>2 DEF Alone
    <3>2. CASE Unlock(j)
      <4>1. pc'[j] = "idle" /\ pc[j] = "unlock"
        BY <3>2 DEF Unlock, TypeOK
      <4>2. \A k \in Jobs \ {j} : pc[k] = "idle"
        BY <1>0, <4>1, OnePrune, ConstantsAssumption
      <4> QED BY <2>1, <4>1, <4>2 DEF Alone
    <3>3. CASE Begin(j) \/ SavePrune(j)
      <4>1. lock' = lock /\ pc[j] # "idle"
        BY <3>3 DEF Begin, SavePrune
      <4>2. CASE i = j
        BY <1>0, <2>1, <4>1, <4>2 DEF Alone
      <4>3. CASE i # j
        BY <1>0, <2>1, <2>2, <4>1, <4>3 DEF Alone, Old
      <4> QED BY <4>2, <4>3
    <3> QED BY <1>6, <3>1, <3>2, <3>3
  <2>4. ASSUME NEW r \in raw' \cap Archived' PROVE Ours(r)'
    BY <1>0, <2>1, <2>2
  <2> QED BY <1>0, <1>1, <2>1, <2>2, <2>3, <2>4
<1>7. ASSUME UNCHANGED <<raw, archives, pc, local, lock, hist.again>> PROVE AgainInv'
  BY <1>0, <1>1, <1>7 DEF Alone, Old, Archived
<1>8. CASE \E p \in Procs : \/ StoreRawLog(p) \/ ProcessLine(p) \/ InsertFails(p)
                            \/ Disconnect(p) \/ Connect(p) \/ Crash(p)
  <2>1. PICK p \in Procs : \/ StoreRawLog(p) \/ ProcessLine(p) \/ InsertFails(p)
                           \/ Disconnect(p) \/ Connect(p)
    BY <1>8, CalmStep
  <2>2. CASE InsertFails(p) \/ Disconnect(p)
    <3>1. hist'.again = hist.again
      BY <2>2 DEF InsertFails, Disconnect, TypeOK, Histories
    <3> QED BY <1>7, <2>2, <3>1 DEF InsertFails, Disconnect
  <2> QED BY <1>2, <1>7, <2>1, <2>2 DEF ProcessLine, Connect
<1>9. CASE \E j \in Jobs : \/ Acquire(j) \/ PruneNow(j) \/ Begin(j) \/ Select(j) \/ Open(j)
                           \/ Publish(j) \/ ZipFails(j) \/ Sweep(j) \/ Delete(j)
                           \/ DeleteFails(j) \/ SavePrune(j) \/ Unlock(j)
  BY <1>3, <1>4, <1>5, <1>6, <1>9, <1>10, CalmStep
<1> QED BY <1>7, <1>8, <1>9 DEF Next, Advance, Emit, Submit, StoreKey, vars

\* Under the lock no row is zipped twice: only a prune that failed or died after
\* its zip, or one asked for by hand, leaves an archived row to be read again.
THEOREM RawLogArchivedOnce == Spec => []ArchivedTwiceNeedsTrouble
<1>1. TypeOK /\ AgainInv => ArchivedTwiceNeedsTrouble
  <2> SUFFICES ASSUME TypeOK, AgainInv, hist.again # {}
               PROVE  spent.prunefail + spent.crash + spent.manual > 0
    BY DEF ArchivedTwiceNeedsTrouble
  <2>1. ~Calm
    BY DEF AgainInv, Calm
  <2>2. spent["prunefail"] \in Nat /\ spent["crash"] \in Nat /\ spent["manual"] \in Nat
    BY DEF TypeOK, Kinds
  <2> QED BY <2>1, <2>2 DEF Calm
<1>2. ArchiveInv => PartInv
  BY DEF ArchiveInv
<1> QED BY <1>1, <1>2, TypeInit, ArchiveInit, AgainInit, TypeStep, ArchiveStep, IdStep,
           AgainStep, PTL DEF Spec
=============================================================================
