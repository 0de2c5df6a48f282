-------------------------- MODULE RowChangesProofs --------------------------
(***************************************************************************)
(* Changes of a customer's table for any number of requests and any        *)
(* contents: types and unique keys, permitted and recorded changes, the    *)
(* implementation of AuditedTable, and that records and answers tell what  *)
(* a request did.                                                          *)
(***************************************************************************)
EXTENDS RowChanges, TLAPS

-----------------------------------------------------------------------------
(* What the operators on rows yield.                                       *)

LEMMA PartialIntro ==
  ASSUME NEW S, NEW C \in SUBSET S, NEW f \in [C -> Values]
  PROVE  f \in Partial(S)
BY DEF Partial

LEMMA PartialElim ==
  ASSUME NEW S, NEW f \in Partial(S)
  PROVE  DOMAIN f \subseteq S /\ f \in [DOMAIN f -> Values]
BY DEF Partial

LEMMA RowIsPartial ==
  ASSUME NEW row \in Rows
  PROVE  row \in Partial(Columns) /\ DOMAIN row = Columns
BY PartialIntro DEF Rows

LEMMA OnlyTyped ==
  ASSUME NEW S, NEW f \in Partial(S), NEW C \in SUBSET (DOMAIN f)
  PROVE  Only(f, C) \in [C -> Values]
<1>1. f \in [DOMAIN f -> Values]
  BY PartialElim
<1>2. QED
  BY <1>1 DEF Only

LEMMA MergeTyped ==
  ASSUME NEW S, NEW f \in Partial(S), NEW g \in Partial(S)
  PROVE  /\ Merge(f, g) \in Partial(S)
         /\ DOMAIN Merge(f, g) = DOMAIN f \union DOMAIN g
<1>1. /\ DOMAIN f \subseteq S /\ f \in [DOMAIN f -> Values]
      /\ DOMAIN g \subseteq S /\ g \in [DOMAIN g -> Values]
  BY PartialElim
<1>2. Merge(f, g) \in [DOMAIN f \union DOMAIN g -> Values]
  BY <1>1 DEF Merge
<1>3. DOMAIN f \union DOMAIN g \in SUBSET S
  BY <1>1
<1>4. QED
  BY <1>2, <1>3, PartialIntro DEF Merge

LEMMA MergeRow ==
  ASSUME NEW row \in Rows, NEW body \in Partial(Columns)
  PROVE  Merge(row, body) \in Rows
<1>1. DOMAIN body \subseteq Columns /\ body \in [DOMAIN body -> Values]
  BY PartialElim
<1>2. DOMAIN row = Columns /\ row \in [Columns -> Values]
  BY DEF Rows
<1>3. DOMAIN row \union DOMAIN body = Columns
  BY <1>1, <1>2
<1>4. QED
  BY <1>1, <1>2, <1>3 DEF Merge, Rows

LEMMA FieldsAreColumns ==
  ASSUME NEW s \in Settings \union {NoSettings}
  PROVE  AvailableFields(s) \subseteq Columns
BY DEF AvailableFields, Settings

LEMMA SplicedTyped ==
  ASSUME NEW s \in Settings \union {NoSettings}
  PROVE  Spliced(s) \in Settings \union {NoSettings}
BY DEF Spliced, Settings

LEMMA HashedTyped ==
  ASSUME NEW S, NEW body \in Partial(S), NEW s
  PROVE  Hashed(body, s) \in Partial(S) /\ DOMAIN Hashed(body, s) = DOMAIN body
<1>1. DOMAIN body \subseteq S /\ body \in [DOMAIN body -> Values]
  BY PartialElim
<1>2. hash \in [Values -> Values]
  BY RowChangesAssumption
<1>3. Hashed(body, s) \in [DOMAIN body -> Values]
  BY <1>1, <1>2 DEF Hashed
<1>4. QED
  BY <1>1, <1>3, PartialIntro DEF Hashed

LEMMA HiddenTyped ==
  ASSUME NEW row \in Rows, NEW C \in SUBSET Columns, NEW s
  PROVE  Hidden(Only(row, C), s) \in ShownRows
<1>1. Only(row, C) \in [C -> Values]
  BY OnlyTyped, RowIsPartial
<1>2. Hidden(Only(row, C), s) \in [C -> Values \union {Masked}]
  BY <1>1 DEF Hidden
<1>3. QED
  BY <1>2 DEF ShownRows

(***************************************************************************)
(* A whole key finds one row at most; a key that fits keeps keys unique.   *)
(***************************************************************************)
LEMMA WholeKeyFindsOne ==
  ASSUME NEW rows, UniqueKeys(rows), NEW key, Keys \subseteq DOMAIN key
  PROVE  \A a, b \in Matching(rows, key) : a = b
BY DEF UniqueKeys, Matching

LEMMA FittingKeepsKeys ==
  ASSUME UniqueKeys(table), NEW from, NEW to, Fits(from, to)
  PROVE  UniqueKeys((table \ from) \union to)
<1> SUFFICES ASSUME NEW a \in (table \ from) \union to, NEW b \in (table \ from) \union to,
                    \A c \in Keys : a[c] = b[c]
             PROVE  a = b
  BY DEF UniqueKeys
<1>1. \A row \in to, x \in table \ from : \E c \in Keys : x[c] # row[c]
  BY DEF Fits, Matching, Only
<1>2. CASE a \in to /\ b \in to
  BY <1>2 DEF Fits, UniqueKeys
<1>3. CASE a \in table \ from /\ b \in table \ from
  BY <1>3 DEF UniqueKeys
<1>4. QED
  BY <1>1, <1>2, <1>3

-----------------------------------------------------------------------------
(* Types.                                                                  *)

LEMMA InitTyped == Init => TypeOK
<1> SUFFICES ASSUME Init PROVE TypeOK
  OBVIOUS
<1>1. StoredOK
  BY RowChangesAssumption DEF Init, StoredOK, Rows
<1>2. NoKey \in Partial(Keys)
  <2>1. NoKey \in [{} -> Values]
    BY DEF NoKey
  <2>2. QED
    BY <2>1, PartialIntro
<1>3. MemoryOK
  BY <1>2 DEF Init, MemoryOK
<1>4. ControlOK
  BY RowChangesAssumption DEF Init, ControlOK, Calls, Outcomes, Replies
<1>5. HistoryOK
  BY RowChangesAssumption DEF Init, HistoryOK
<1>6. QED
  BY <1>1, <1>3, <1>4, <1>5 DEF TypeOK

LEMMA StatementTyped ==
  ASSUME TypeOK, NEW r \in Requests, NEW from \in SUBSET table, NEW to \in SUBSET Rows,
         NEW next \in {"readBack", "log"}, Statement(r, from, to, next)
  PROVE  /\ StoredOK' /\ HistoryOK'
         /\ pc' \in [Requests -> Calls \union {"unsent", "done"}]
         /\ outcome' \in [Requests -> Outcomes]
<1>1. CASE Fits(from, to)
  <2>1. table' = (table \ from) \union to /\ UNCHANGED <<settings, accounts, log>>
    BY <1>1 DEF Statement
  <2>2. UniqueKeys(table')
    BY <1>1, <2>1, FittingKeepsKeys DEF TypeOK, StoredOK
  <2>3. StoredOK'
    BY <2>1, <2>2 DEF TypeOK, StoredOK, Rows, UniqueKeys
  <2>4. gone' \in [Requests -> SUBSET Rows] /\ came' \in [Requests -> SUBSET Rows]
    BY <1>1 DEF Statement, TypeOK, StoredOK, HistoryOK
  <2>5. overtaken' \subseteq Requests
    BY <1>1 DEF Statement, TypeOK, HistoryOK
  <2>6. hit' \subseteq Requests /\ events' \in 0..MaxEvents
    BY <1>1, RowChangesAssumption DEF Statement, Strike, Happens, TypeOK, HistoryOK
  <2>7. HistoryOK'
    BY <1>1, <2>4, <2>5, <2>6 DEF Statement, TypeOK, HistoryOK
  <2>8. QED
    BY <1>1, <2>3, <2>7 DEF Statement, Caught, Conclude, Goto, TypeOK, ControlOK, Calls, Outcomes
<1>2. CASE ~Fits(from, to)
  <2>1. StoredOK' /\ HistoryOK'
    BY <1>2 DEF Statement, stored, history, TypeOK, StoredOK, HistoryOK, UniqueKeys
  <2>2. QED
    BY <1>2, <2>1 DEF Statement, Caught, Conclude, Goto, TypeOK, ControlOK, Calls, Outcomes
<1>3. QED
  BY <1>1, <1>2

LEMMA AddTyped ==
  ASSUME TypeOK, NEW r \in Requests, AddRow(r)
  PROVE  TypeOK'
<1>1. PICK row \in Rows : /\ Statement(r, {}, {row}, "readBack")
                          /\ future' = [future EXCEPT ![r] = Only(row, Keys)]
  BY DEF AddRow
<1>2. /\ StoredOK' /\ HistoryOK'
      /\ pc' \in [Requests -> Calls \union {"unsent", "done"}]
      /\ outcome' \in [Requests -> Outcomes]
  BY <1>1, StatementTyped
<1>3. Only(row, Keys) \in Partial(Keys)
  <2>1. row \in Partial(Columns) /\ Keys \in SUBSET DOMAIN row
    BY RowIsPartial, RowChangesAssumption
  <2>2. Only(row, Keys) \in [Keys -> Values]
    BY <2>1, OnlyTyped
  <2>3. QED
    BY <2>2, PartialIntro
<1>4. MemoryOK'
  BY <1>1, <1>3 DEF AddRow, TypeOK, MemoryOK
<1>5. ControlOK'
  BY <1>2 DEF AddRow, TypeOK, ControlOK
<1>6. QED
  BY <1>2, <1>4, <1>5 DEF TypeOK

LEMMA UpdateTyped ==
  ASSUME TypeOK, NEW r \in Requests, UpdateRow(r)
  PROVE  TypeOK'
<1> DEFINE rows == Matching(table, want[r].key)
           body == Hashed(want[r].body, using[r])
           new  == {Merge(row, body) : row \in rows}
<1>1. rows \in SUBSET table /\ rows \subseteq Rows
  BY DEF Matching, TypeOK, StoredOK
<1>2. body \in Partial(Columns)
  BY HashedTyped DEF TypeOK, ControlOK, Want
<1>3. new \in SUBSET Rows
  <2> HIDE DEF body, rows
  <2>1. QED
    BY <1>1, <1>2, MergeRow
<1>4. Statement(r, rows, new, "readBack")
  BY DEF UpdateRow
<1>5. /\ StoredOK' /\ HistoryOK'
      /\ pc' \in [Requests -> Calls \union {"unsent", "done"}]
      /\ outcome' \in [Requests -> Outcomes]
  <2> HIDE DEF rows, new
  <2>1. QED
    BY <1>1, <1>3, <1>4, StatementTyped
<1>6. UNCHANGED <<want, using, old, future, shown, reply>>
  BY DEF UpdateRow
<1>7. QED
  BY <1>5, <1>6 DEF TypeOK, MemoryOK, ControlOK

LEMMA DeleteTyped ==
  ASSUME TypeOK, NEW r \in Requests, DeleteRow(r)
  PROVE  TypeOK'
<1> DEFINE rows == Matching(table, want[r].key)
<1>1. rows \in SUBSET table
  BY DEF Matching
<1>2. Statement(r, rows, {}, "log")
  BY DEF DeleteRow
<1>3. /\ StoredOK' /\ HistoryOK'
      /\ pc' \in [Requests -> Calls \union {"unsent", "done"}]
      /\ outcome' \in [Requests -> Outcomes]
  <2> HIDE DEF rows
  <2>1. QED
    BY <1>1, <1>2, StatementTyped
<1>4. UNCHANGED <<want, using, old, future, shown, reply>>
  BY DEF DeleteRow
<1>5. QED
  BY <1>3, <1>4 DEF TypeOK, MemoryOK, ControlOK

LEMMA ReadOldTyped ==
  ASSUME TypeOK, NEW r \in Requests, ReadOld(r)
  PROVE  TypeOK'
<1> DEFINE row(full) == Only(full, AvailableFields(using[r]))
           merged(full) == IF want[r].op = "update" THEN Merge(row(full), want[r].body)
                           ELSE row(full)
<1>1. ASSUME NEW full \in table
      PROVE  /\ merged(full) \in Partial(Columns)
             /\ Only(merged(full), Keys \cap DOMAIN merged(full)) \in Partial(Keys)
  <2>1. AvailableFields(using[r]) \subseteq Columns
    BY FieldsAreColumns DEF TypeOK, MemoryOK
  <2>2. full \in Partial(Columns) /\ DOMAIN full = Columns
    BY <1>1, RowIsPartial DEF TypeOK, StoredOK
  <2>3. row(full) \in Partial(Columns)
    BY <2>1, <2>2, OnlyTyped, PartialIntro
  <2>4. want[r].body \in Partial(Columns)
    BY DEF TypeOK, ControlOK, Want
  <2>5. merged(full) \in Partial(Columns)
    BY <2>3, <2>4, MergeTyped
  <2> HIDE DEF merged
  <2>6. Only(merged(full), Keys \cap DOMAIN merged(full))
          \in [Keys \cap DOMAIN merged(full) -> Values]
    BY <2>5, OnlyTyped
  <2>7. QED
    BY <2>5, <2>6, PartialIntro
<1>2. StoredOK' /\ HistoryOK'
  BY DEF ReadOld, stored, history, TypeOK, StoredOK, HistoryOK, UniqueKeys
<1>3. ControlOK'
  BY DEF ReadOld, Goto, Answer, TypeOK, ControlOK, Calls, Replies
<1>4. MemoryOK'
  <2>1. CASE Matching(table, want[r].key) = {}
    BY <2>1 DEF ReadOld, TypeOK, MemoryOK
  <2>2. CASE Matching(table, want[r].key) # {}
    <3>1. PICK full \in Matching(table, want[r].key) :
             /\ old' = [old EXCEPT ![r] = merged(full)]
             /\ future' = [future EXCEPT ![r] =
                             Only(merged(full), Keys \cap DOMAIN merged(full))]
      BY <2>2 DEF ReadOld
    <3>2. full \in table
      BY DEF Matching
    <3>3. using' \in [Requests -> Settings \union {NoSettings}]
      <4>1. using' = [using EXCEPT ![r] = Spliced(@)]
        BY <2>2 DEF ReadOld
      <4>2. QED
        BY <4>1, SplicedTyped DEF TypeOK, MemoryOK
    <3>4. shown' = shown
      BY DEF ReadOld
    <3> HIDE DEF merged
    <3>5. QED
      BY <1>1, <3>1, <3>2, <3>3, <3>4 DEF TypeOK, MemoryOK
  <2>3. QED
    BY <2>1, <2>2
<1>5. QED
  BY <1>2, <1>3, <1>4 DEF TypeOK

LEMMA ReadBackTyped ==
  ASSUME TypeOK, NEW r \in Requests, ReadBack(r)
  PROVE  TypeOK'
<1> DEFINE found == Matching(table, future[r])
           row(full) == Hidden(Only(full, AvailableFields(using[r])), using[r])
<1>1. ASSUME NEW full \in table
      PROVE  row(full) \in ShownRows
  <2>1. AvailableFields(using[r]) \subseteq Columns
    BY FieldsAreColumns DEF TypeOK, MemoryOK
  <2>2. full \in Rows
    BY DEF TypeOK, StoredOK
  <2>3. QED
    BY <2>1, <2>2, HiddenTyped
<1>2. shown' \in [Requests -> ShownRows \union {NoRow}]
  <2>1. shown' = shown \/ \E full \in found : shown' = [shown EXCEPT ![r] = row(full)]
    BY DEF ReadBack
  <2>2. \A full \in found : full \in table
    BY DEF Matching
  <2> HIDE DEF found, row
  <2>3. QED
    BY <1>1, <2>1, <2>2 DEF TypeOK, MemoryOK
<1>3. StoredOK' /\ HistoryOK'
  BY DEF ReadBack, stored, history, TypeOK, StoredOK, HistoryOK, UniqueKeys
<1>4. ControlOK'
  BY DEF ReadBack, Goto, Caught, Conclude, TypeOK, ControlOK, Calls, Outcomes
<1>5. MemoryOK'
  BY <1>2 DEF ReadBack, TypeOK, MemoryOK
<1>6. QED
  BY <1>3, <1>4, <1>5 DEF TypeOK

LEMMA RecordedTyped ==
  ASSUME TypeOK, NEW r \in Requests
  PROVE  Recorded(r) \in Record
<1>1. Hashed(want[r].body, using[r]) \in Partial(Columns)
  BY HashedTyped DEF TypeOK, ControlOK, Want
<1>2. want[r].key \in Partial(Columns)
  <2>1. want[r].key \in Partial(Keys)
    BY DEF TypeOK, ControlOK, Want
  <2>2. DOMAIN want[r].key \subseteq Columns /\ want[r].key \in [DOMAIN want[r].key -> Values]
    BY <2>1, PartialElim, RowChangesAssumption
  <2>3. QED
    BY <2>2, PartialIntro
<1>3. /\ old[r] \in Partial(Columns) \union {NoRow}
      /\ want[r].op \in Operations /\ outcome[r] \in Outcomes
  BY DEF TypeOK, MemoryOK, ControlOK, Want
<1>4. QED
  BY <1>1, <1>2, <1>3 DEF Recorded, Record

LEMMA WriteLogTyped ==
  ASSUME TypeOK, NEW r \in Requests, WriteLog(r)
  PROVE  TypeOK'
<1>1. log' \in [Requests -> Record \union {NoRecord}]
  BY RecordedTyped DEF WriteLog, TypeOK, StoredOK
<1>2. StoredOK'
  BY <1>1 DEF WriteLog, TypeOK, StoredOK, UniqueKeys
<1>3. MemoryOK'
  BY DEF WriteLog, memory, TypeOK, MemoryOK
<1>4. ControlOK'
  BY DEF WriteLog, memory, Goto, Answer, TypeOK, ControlOK, Calls, Replies
<1>5. HistoryOK'
  BY DEF WriteLog, TypeOK, HistoryOK
<1>6. QED
  BY <1>2, <1>3, <1>4, <1>5 DEF TypeOK

LEMMA EnvironmentTyped ==
  ASSUME TypeOK,
         \/ \E s \in SettingsChoices \union {NoSettings} : ChangeSettings(s)
         \/ \E u \in Users : DeleteAccount(u)
  PROVE  TypeOK'
<1>1. UNCHANGED <<table, log, requests, gone, came, overtaken, hit, cut>>
  BY DEF ChangeSettings, DeleteAccount, requests, history
<1>2. settings' \in Settings \union {NoSettings} /\ accounts' \subseteq Users
  BY RowChangesAssumption DEF ChangeSettings, DeleteAccount, TypeOK, StoredOK
<1>3. permitted' \subseteq Requests /\ events' \in 0..MaxEvents
  BY RowChangesAssumption
     DEF ChangeSettings, DeleteAccount, Happens, history, TypeOK, HistoryOK
<1>4. StoredOK'
  BY <1>1, <1>2 DEF TypeOK, StoredOK, UniqueKeys
<1>5. MemoryOK' /\ ControlOK'
  BY <1>1 DEF requests, memory, TypeOK, MemoryOK, ControlOK
<1>6. HistoryOK'
  BY <1>1, <1>3 DEF TypeOK, HistoryOK
<1>7. QED
  BY <1>4, <1>5, <1>6 DEF TypeOK

\* The actions of a request that leave what is stored alone, and its memory but
\* for "using".
LEMMA LightStepTyped ==
  ASSUME TypeOK, NEW r \in Requests,
         Send(r) \/ ReadTable(r) \/ ReadRows(r) \/ Timeout(r) \/ Fail(r) \/ Crash(r)
  PROVE  TypeOK'
<1>1. StoredOK'
  BY DEF Send, ReadTable, ReadRows, Timeout, Fail, Crash, stored, TypeOK, StoredOK, UniqueKeys
<1>2. MemoryOK'
  BY DEF Send, ReadTable, ReadRows, Timeout, Fail, Crash, memory, TypeOK, StoredOK, MemoryOK
<1>3. ControlOK'
  <2>1. pc' \in [Requests -> Calls \union {"unsent", "done"}]
    BY DEF Send, ReadTable, ReadRows, Timeout, Fail, Crash, Goto, Caught, TypeOK, ControlOK, Calls
  <2>2. reply' \in [Requests -> Replies]
    BY DEF Send, ReadTable, ReadRows, Timeout, Fail, Crash, Answer, Refusal, TypeOK, ControlOK,
           Replies
  <2>3. outcome' \in [Requests -> Outcomes]
    BY DEF Send, ReadTable, ReadRows, Timeout, Fail, Crash, memory, Caught, Conclude, TypeOK,
           ControlOK, Outcomes
  <2>4. want' = want
    BY DEF Send, ReadTable, ReadRows, Timeout, Fail, Crash
  <2>5. QED
    BY <2>1, <2>2, <2>3, <2>4 DEF TypeOK, ControlOK
<1>4. HistoryOK'
  BY RowChangesAssumption
     DEF Send, ReadTable, ReadRows, Timeout, Fail, Crash, Strike, Happens, history, TypeOK,
         HistoryOK
<1>5. QED
  BY <1>1, <1>2, <1>3, <1>4 DEF TypeOK

LEMMA NextTyped == TypeOK /\ [Next]_vars => TypeOK'
<1> SUFFICES ASSUME TypeOK, [Next]_vars PROVE TypeOK'
  OBVIOUS
<1>1. CASE UNCHANGED vars
  BY <1>1 DEF vars, stored, requests, memory, history, TypeOK, StoredOK, MemoryOK, ControlOK,
              HistoryOK, UniqueKeys
<1>2. ASSUME NEW r \in Requests,
             Send(r) \/ ReadTable(r) \/ ReadRows(r) \/ Timeout(r) \/ Fail(r) \/ Crash(r)
      PROVE  TypeOK'
  BY <1>2, LightStepTyped
<1>3. ASSUME NEW r \in Requests, ReadOld(r) \/ ReadBack(r) \/ WriteLog(r)
      PROVE  TypeOK'
  BY <1>3, ReadOldTyped, ReadBackTyped, WriteLogTyped
<1>4. ASSUME NEW r \in Requests, AddRow(r) \/ UpdateRow(r) \/ DeleteRow(r)
      PROVE  TypeOK'
  BY <1>4, AddTyped, UpdateTyped, DeleteTyped
<1>5. CASE \/ \E s \in SettingsChoices \union {NoSettings} : ChangeSettings(s)
           \/ \E u \in Users : DeleteAccount(u)
  BY <1>5, EnvironmentTyped
<1>6. QED
  BY <1>1, <1>2, <1>3, <1>4, <1>5 DEF Next, Step

(***************************************************************************)
(* Whatever requests, faults and changed settings interleave, every        *)
(* variable keeps its type, and the table its unique key.                  *)
(***************************************************************************)
THEOREM TypeCorrect == Spec => []TypeOK
BY InitTyped, NextTyped, PTL DEF Spec
-----------------------------------------------------------------------------
(***************************************************************************)
(* The inductive invariant: what is known of a request at each call.       *)
(***************************************************************************)

\* A request changes nothing before its statement and records nothing before
\* it is done.
NotYet(r) ==
  /\ pc[r] \in {"unsent", "read", "old", "write"} => gone[r] = {} /\ came[r] = {}
  /\ pc[r] # "done" => log[r] = NoRecord

\* Behind the checks of the use case, the settings permitted it and the key is
\* whole.
Admitted(r) ==
  /\ Active(r) /\ Permits(settings, want[r].op) => r \in permitted
  /\ pc[r] \in {"old", "write"} => r \in permitted
  /\ pc[r] \in {"old", "write"} /\ want[r].op \in {"update", "delete"} =>
       DOMAIN want[r].key = Keys
  /\ Changed(r) => r \in permitted

\* What changed, and what is known when the record is written.
Owed(r) ==
  /\ Did(r) \in {"nothing", want[r].op}
  /\ pc[r] = "readBack" => outcome[r] = "successfully"
  /\ pc[r] = "log" => outcome[r] # "unknown"
  /\ pc[r] \in {"readBack", "log"} /\ want[r].op = "add" /\ outcome[r] = "successfully" =>
       came[r] # {}
  /\ pc[r] = "done" /\ Changed(r) /\ r \notin cut => log[r] # NoRecord

Progress(r) == NotYet(r) /\ Admitted(r) /\ Owed(r)

IInv == TypeOK /\ \A r \in Requests : Progress(r)

\* What concerns one request: other requests' steps leave it alone.
Mine(r) == <<pc[r], want[r], outcome[r], log[r], gone[r], came[r]>>

LEMMA Untouched ==
  ASSUME NEW q \in Requests, Progress(q), Mine(q)' = Mine(q),
         settings' = settings, permitted \subseteq permitted', cut \subseteq cut'
  PROVE  Progress(q)'
<1>1. /\ pc'[q] = pc[q] /\ want'[q] = want[q] /\ outcome'[q] = outcome[q]
      /\ log'[q] = log[q] /\ gone'[q] = gone[q] /\ came'[q] = came[q]
  BY DEF Mine
<1>2. NotYet(q)'
  BY <1>1 DEF Progress, NotYet
<1>3. Admitted(q)'
  BY <1>1 DEF Progress, Admitted, Active, Changed
<1>4. Owed(q)'
  BY <1>1 DEF Progress, Owed, Did, Changed
<1>5. QED
  BY <1>2, <1>3, <1>4 DEF Progress

LEMMA InitProgress == Init => \A r \in Requests : Progress(r)
<1> SUFFICES ASSUME Init, NEW r \in Requests PROVE Progress(r)
  OBVIOUS
<1>1. /\ pc[r] = "unsent" /\ gone[r] = {} /\ came[r] = {} /\ log[r] = NoRecord
  BY DEF Init
<1>2. NotYet(r)
  BY <1>1 DEF NotYet
<1>3. Admitted(r)
  BY <1>1 DEF Admitted, Active, Calls, Changed
<1>4. Owed(r)
  BY <1>1 DEF Owed, Did, Changed
<1>5. QED
  BY <1>2, <1>3, <1>4 DEF Progress

(***************************************************************************)
(* The statement: r changes its own request only, and keeps Progress if    *)
(* the change is of the kind it asked for.                                 *)
(***************************************************************************)
LEMMA StatementProgress ==
  ASSUME IInv, NEW r \in Requests, pc[r] = "write", want' = want,
         NEW from, NEW to, NEW next \in {"readBack", "log"}, Statement(r, from, to, next),
         \/ want[r].op = "add" /\ from = {} /\ to # {}
         \/ want[r].op = "update" /\ (from = {} <=> to = {})
         \/ want[r].op = "delete" /\ to = {}
  PROVE  \A q \in Requests : Progress(q)'
<1>0. Progress(r) /\ TypeOK
  BY DEF IInv
<1>1. /\ UNCHANGED <<settings, accounts, log, permitted, cut>>
      /\ \/ outcome' = [outcome EXCEPT ![r] = "successfully"] /\ pc' = [pc EXCEPT ![r] = next]
         \/ outcome' = [outcome EXCEPT ![r] = "unsuccessfully"] /\ pc' = [pc EXCEPT ![r] = "log"]
  BY DEF Statement, Caught, Conclude, Goto, stored, history
<1>2. \/ gone' = [gone EXCEPT ![r] = from] /\ came' = [came EXCEPT ![r] = to]
      \/ /\ gone' = gone /\ came' = came
         /\ outcome' = [outcome EXCEPT ![r] = "unsuccessfully"]
         /\ pc' = [pc EXCEPT ![r] = "log"]
  BY DEF Statement, Caught, Conclude, Goto, stored, history
<1>3. /\ pc \in [Requests -> Calls \union {"unsent", "done"}]
      /\ outcome \in [Requests -> Outcomes]
      /\ gone \in [Requests -> SUBSET Rows] /\ came \in [Requests -> SUBSET Rows]
  BY <1>0 DEF TypeOK, ControlOK, HistoryOK
<1>4. ASSUME NEW q \in Requests, q # r
      PROVE  Progress(q)'
  <2>1. Mine(q)' = Mine(q)
    BY <1>1, <1>2, <1>3, <1>4 DEF Mine
  <2>2. QED
    BY <1>1, <2>1, Untouched DEF IInv
<1>5. /\ log[r] = NoRecord /\ gone[r] = {} /\ came[r] = {} /\ r \in permitted
  BY <1>0 DEF Progress, NotYet, Admitted
<1>6. /\ pc'[r] \in {"readBack", "log"} /\ log'[r] = NoRecord /\ r \in permitted'
      /\ outcome'[r] \in {"successfully", "unsuccessfully"}
      /\ pc'[r] = "readBack" => outcome'[r] = "successfully"
  BY <1>1, <1>3, <1>5
<1>7. \/ gone'[r] = from /\ came'[r] = to
      \/ gone'[r] = {} /\ came'[r] = {} /\ outcome'[r] = "unsuccessfully"
  BY <1>2, <1>3, <1>5
<1>8. NotYet(r)'
  BY <1>6 DEF NotYet
<1>9. Admitted(r)'
  BY <1>6 DEF Admitted
<1>10. Owed(r)'
  <2>1. Did(r)' \in {"nothing", want[r].op}
    BY <1>7 DEF Did
  <2>2. want[r].op = "add" /\ outcome'[r] = "successfully" => came'[r] # {}
    BY <1>7
  <2>3. QED
    BY <1>6, <2>1, <2>2 DEF Owed
<1>11. QED
  BY <1>4, <1>8, <1>9, <1>10 DEF Progress

LEMMA ChangeProgress ==
  ASSUME IInv, NEW r \in Requests, AddRow(r) \/ UpdateRow(r) \/ DeleteRow(r)
  PROVE  \A q \in Requests : Progress(q)'
<1>1. CASE AddRow(r)
  <2>1. PICK row \in Rows : Statement(r, {}, {row}, "readBack")
    BY <1>1 DEF AddRow
  <2>2. pc[r] = "write" /\ want[r].op = "add" /\ want' = want /\ {row} # {}
    BY <1>1 DEF AddRow
  <2>3. QED
    BY <2>1, <2>2, StatementProgress
<1>2. CASE UpdateRow(r)
  <2> DEFINE rows == Matching(table, want[r].key)
             new  == {Merge(row, Hashed(want[r].body, using[r])) : row \in rows}
  <2>1. Statement(r, rows, new, "readBack")
    BY <1>2 DEF UpdateRow
  <2>2. pc[r] = "write" /\ want[r].op = "update" /\ want' = want
    BY <1>2 DEF UpdateRow
  <2> HIDE DEF rows
  <2>3. rows = {} <=> new = {}
    OBVIOUS
  <2> HIDE DEF new
  <2>4. QED
    BY <2>1, <2>2, <2>3, StatementProgress
<1>3. CASE DeleteRow(r)
  <2>1. Statement(r, Matching(table, want[r].key), {}, "log")
    BY <1>3 DEF DeleteRow
  <2>2. pc[r] = "write" /\ want[r].op = "delete" /\ want' = want
    BY <1>3 DEF DeleteRow
  <2>3. QED
    BY <2>1, <2>2, StatementProgress
<1>4. QED
  BY <1>1, <1>2, <1>3

\* The steps of r that change no row: what they may do to its request.
LEMMA OthersUntouched ==
  ASSUME IInv, NEW r \in Requests,
         \/ Send(r) \/ ReadTable(r) \/ ReadRows(r) \/ ReadOld(r) \/ ReadBack(r)
         \/ WriteLog(r) \/ Timeout(r) \/ Fail(r) \/ Crash(r)
  PROVE  \A q \in Requests \ {r} : Progress(q)'
<1>1. /\ pc \in [Requests -> Calls \union {"unsent", "done"}]
      /\ outcome \in [Requests -> Outcomes]
      /\ log \in [Requests -> Record \union {NoRecord}]
  BY DEF IInv, TypeOK, StoredOK, ControlOK
<1>2. UNCHANGED <<settings, want, gone, came>> /\ permitted \subseteq permitted' /\ cut \subseteq cut'
  BY DEF Send, ReadTable, ReadRows, ReadOld, ReadBack, WriteLog, Timeout, Fail, Crash, stored,
         history
<1>3. \A q \in Requests \ {r} :
         pc'[q] = pc[q] /\ outcome'[q] = outcome[q] /\ log'[q] = log[q]
  <2>1. pc' = pc \/ \E call : pc' = [pc EXCEPT ![r] = call]
    BY DEF Send, ReadTable, ReadRows, ReadOld, ReadBack, WriteLog, Timeout, Fail, Crash, Goto,
           Caught
  <2>2. outcome' = outcome \/ \E o : outcome' = [outcome EXCEPT ![r] = o]
    BY DEF Send, ReadTable, ReadRows, ReadOld, ReadBack, WriteLog, Timeout, Fail, Crash, Caught,
           Conclude, memory
  <2>3. log' = log \/ \E record : log' = [log EXCEPT ![r] = record]
    BY DEF Send, ReadTable, ReadRows, ReadOld, ReadBack, WriteLog, Timeout, Fail, Crash, stored
  <2>4. QED
    BY <1>1, <2>1, <2>2, <2>3
<1>4. ASSUME NEW q \in Requests \ {r}
      PROVE  Progress(q)'
  <2>1. Mine(q)' = Mine(q)
    BY <1>2, <1>3 DEF Mine
  <2>2. QED
    BY <1>2, <2>1, Untouched DEF IInv
<1>5. QED
  BY <1>4

\* ... and to its own.
LEMMA OwnProgress ==
  ASSUME IInv, NEW r \in Requests,
         \/ Send(r) \/ ReadTable(r) \/ ReadRows(r) \/ ReadOld(r) \/ ReadBack(r)
         \/ WriteLog(r) \/ Timeout(r) \/ Fail(r) \/ Crash(r)
  PROVE  Progress(r)'
<1>0. NotYet(r) /\ Admitted(r) /\ Owed(r)
  BY DEF IInv, Progress
<1>1. /\ pc \in [Requests -> Calls \union {"unsent", "done"}]
      /\ outcome \in [Requests -> Outcomes] /\ log \in [Requests -> Record \union {NoRecord}]
      /\ gone \in [Requests -> SUBSET Rows] /\ came \in [Requests -> SUBSET Rows]
  BY DEF IInv, TypeOK, StoredOK, ControlOK, HistoryOK
<1>2. /\ UNCHANGED <<settings, want, gone, came>>
      /\ permitted \subseteq permitted' /\ cut \subseteq cut'
  BY DEF Send, ReadTable, ReadRows, ReadOld, ReadBack, WriteLog, Timeout, Fail, Crash, stored,
         history
<1>3. Did(r)' = Did(r) /\ Changed(r)' = Changed(r)
  <2>1. Did(r)' = Did(r)
    BY <1>2 DEF Did
  <2>2. Changed(r)' = Changed(r)
    BY <1>2 DEF Changed
  <2>3. QED
    BY <2>1, <2>2
<1>4. CASE Send(r)
  <2>1. /\ pc[r] = "unsent" /\ pc'[r] = "read" /\ log' = log
        /\ permitted' = IF Permits(settings, want[r].op) THEN permitted \union {r} ELSE permitted
    BY <1>1, <1>4 DEF Send, Goto, stored
  <2>2. NotYet(r)'
    BY <1>0, <1>2, <2>1 DEF NotYet
  <2>3. Admitted(r)'
    BY <1>0, <1>2, <2>1 DEF NotYet, Admitted, Changed
  <2>4. Owed(r)'
    BY <1>0, <1>2, <1>3, <2>1 DEF Owed
  <2>5. QED
    BY <2>2, <2>3, <2>4 DEF Progress
<1>5. CASE ReadTable(r)
  <2>1. /\ pc[r] = "read" /\ log' = log /\ permitted' = permitted
        /\ \/ pc'[r] = "done"
           \/ /\ pc'[r] \in {"old", "write"}
              /\ Refusal(want[r], settings) = "none"
    BY <1>1, <1>5 DEF ReadTable, Goto, stored, history
  <2>2. NotYet(r)'
    BY <1>0, <1>2, <2>1 DEF NotYet
  <2>3. Admitted(r)'
    <3>1. pc'[r] \in {"old", "write"} =>
             /\ Permits(settings, want[r].op)
             /\ want[r].op \in {"update", "delete"} => DOMAIN want[r].key = Keys
      BY <2>1 DEF Refusal, BadKey
    <3>2. Permits(settings, want[r].op) => r \in permitted
      BY <1>0, <2>1 DEF Admitted, Active, Calls
    <3>3. Changed(r)' => r \in permitted
      BY <1>0, <1>3 DEF Admitted
    <3>4. QED
      BY <1>2, <2>1, <3>1, <3>2, <3>3 DEF Admitted
  <2>4. Owed(r)'
    <3>1. ~Changed(r)'
      BY <1>0, <1>2, <2>1 DEF NotYet, Changed
    <3>2. QED
      BY <1>0, <1>2, <1>3, <2>1, <3>1 DEF Owed
  <2>5. QED
    BY <2>2, <2>3, <2>4 DEF Progress
<1>6. CASE ReadRows(r)
  <2>1. /\ pc[r] = "read" /\ pc'[r] = "log" /\ log' = log /\ permitted' = permitted
        /\ outcome'[r] = "successfully" /\ want[r].op = "rows"
    BY <1>1, <1>6 DEF ReadRows, Goto, Conclude, stored, history
  <2>2. NotYet(r)'
    BY <1>0, <1>2, <2>1 DEF NotYet
  <2>3. Admitted(r)'
    BY <1>0, <1>2, <1>3, <2>1 DEF Admitted, Active, Calls
  <2>4. Owed(r)'
    BY <1>0, <1>2, <1>3, <2>1 DEF Owed
  <2>5. QED
    BY <2>2, <2>3, <2>4 DEF Progress
<1>7. CASE ReadOld(r)
  <2>1. /\ pc[r] = "old" /\ pc'[r] \in {"write", "done"} /\ log' = log
        /\ permitted' = permitted
    BY <1>1, <1>7 DEF ReadOld, Goto, stored, history
  <2>2. NotYet(r)'
    BY <1>0, <1>2, <2>1 DEF NotYet
  <2>3. Admitted(r)'
    BY <1>0, <1>2, <1>3, <2>1 DEF Admitted, Active, Calls
  <2>4. Owed(r)'
    <3>1. ~Changed(r)'
      BY <1>0, <1>2, <2>1 DEF NotYet, Changed
    <3>2. QED
      BY <1>0, <1>2, <1>3, <2>1, <3>1 DEF Owed
  <2>5. QED
    BY <2>2, <2>3, <2>4 DEF Progress
<1>8. CASE ReadBack(r)
  <2>1. /\ pc[r] = "readBack" /\ pc'[r] = "log" /\ log' = log /\ permitted' = permitted
        /\ outcome'[r] \in {outcome[r], "unsuccessfully"}
    BY <1>1, <1>8 DEF ReadBack, Goto, Caught, Conclude, stored, history
  <2>2. NotYet(r)'
    BY <1>0, <2>1 DEF NotYet
  <2>3. Admitted(r)'
    BY <1>0, <1>2, <1>3, <2>1 DEF Admitted, Active, Calls
  <2>4. Owed(r)'
    BY <1>0, <1>2, <1>3, <2>1 DEF Owed
  <2>5. QED
    BY <2>2, <2>3, <2>4 DEF Progress
<1>9. CASE WriteLog(r)
  <2>1. pc[r] = "log" /\ pc'[r] = "done" /\ permitted' = permitted
    BY <1>1, <1>9 DEF WriteLog, Goto
  <2>2. log'[r] # NoRecord \/ r \in cut'
    BY <1>1, <1>9, RecordedTyped, RowChangesAssumption DEF WriteLog, IInv
  <2>3. NotYet(r)'
    BY <2>1 DEF NotYet
  <2>4. Admitted(r)'
    BY <1>0, <1>3, <2>1 DEF Admitted, Active, Calls
  <2>5. Owed(r)'
    BY <1>0, <1>2, <1>3, <2>1, <2>2 DEF Owed
  <2>6. QED
    BY <2>3, <2>4, <2>5 DEF Progress
<1>10. CASE Timeout(r)
  <2>1. Mine(r)' = Mine(r)
    BY <1>10 DEF Timeout, Mine, stored, memory, history
  <2>2. QED
    BY <1>2, <2>1, Untouched DEF IInv
<1>11. CASE Fail(r) \/ Crash(r)
  <2>1. /\ log' = log /\ permitted' = permitted
        /\ \/ pc[r] \in {"read", "old"} /\ pc'[r] = "done"
           \/ r \in cut' /\ pc'[r] = "done"
           \/ Active(r) /\ pc'[r] = "log" /\ outcome'[r] = "unsuccessfully"
    BY <1>1, <1>11 DEF Fail, Crash, Goto, Caught, Conclude, stored, memory
  <2>2. NotYet(r)'
    <3>1. Active(r) => log[r] = NoRecord
      BY <1>0 DEF NotYet, Active, Calls
    <3>2. QED
      BY <2>1, <3>1 DEF NotYet
  <2>3. Admitted(r)'
    BY <1>0, <1>2, <1>3, <2>1 DEF Admitted, Active, Calls
  <2>4. Owed(r)'
    <3>1. pc[r] \in {"read", "old"} => ~Changed(r)'
      BY <1>0, <1>2 DEF NotYet, Changed
    <3>2. QED
      BY <1>0, <1>2, <1>3, <2>1, <3>1 DEF Owed
  <2>5. QED
    BY <2>2, <2>3, <2>4 DEF Progress
<1>12. QED
  BY <1>4, <1>5, <1>6, <1>7, <1>8, <1>9, <1>10, <1>11

LEMMA EnvironmentProgress ==
  ASSUME IInv,
         \/ \E s \in SettingsChoices \union {NoSettings} : ChangeSettings(s)
         \/ \E u \in Users : DeleteAccount(u)
  PROVE  \A q \in Requests : Progress(q)'
<1> SUFFICES ASSUME NEW q \in Requests PROVE Progress(q)'
  OBVIOUS
<1>1. Mine(q)' = Mine(q) /\ cut' = cut
  BY DEF ChangeSettings, DeleteAccount, requests, memory, history, Mine
<1>2. CASE \E s \in SettingsChoices \union {NoSettings} : ChangeSettings(s)
  <2>0. NotYet(q) /\ Admitted(q) /\ Owed(q)
    BY DEF IInv, Progress
  <2>1. UNCHANGED <<pc, want, outcome, log, gone, came, cut>>
    BY <1>2 DEF ChangeSettings, requests, memory
  <2>2. permitted' = permitted \union {x \in Requests : Active(x) /\ Permits(settings', want[x].op)}
    BY <1>2 DEF ChangeSettings
  <2>3. NotYet(q)'
    BY <2>0, <2>1 DEF NotYet
  <2>4. Admitted(q)'
    BY <2>0, <2>1, <2>2 DEF Admitted, Active, Changed
  <2>5. Owed(q)'
    BY <2>0, <2>1 DEF Owed, Did, Changed
  <2>6. QED
    BY <2>3, <2>4, <2>5 DEF Progress
<1>3. CASE \E u \in Users : DeleteAccount(u)
  <2>1. settings' = settings /\ permitted' = permitted
    BY <1>3 DEF DeleteAccount, history
  <2>2. QED
    BY <1>1, <2>1, Untouched DEF IInv
<1>4. QED
  BY <1>2, <1>3

LEMMA NextProgress == IInv /\ [Next]_vars => IInv'
<1> SUFFICES ASSUME IInv, [Next]_vars PROVE IInv'
  OBVIOUS
<1>1. TypeOK'
  BY NextTyped DEF IInv
<1>2. CASE UNCHANGED vars
  <2>1. UNCHANGED <<pc, want, outcome, log, gone, came, cut, settings, permitted>>
    BY <1>2 DEF vars, stored, requests, memory, history
  <2>2. ASSUME NEW q \in Requests
        PROVE  Progress(q)'
    <3>1. Mine(q)' = Mine(q)
      BY <2>1 DEF Mine
    <3>2. QED
      BY <2>1, <3>1, Untouched DEF IInv
  <2>3. QED
    BY <1>1, <2>2 DEF IInv
<1>3. ASSUME NEW r \in Requests, AddRow(r) \/ UpdateRow(r) \/ DeleteRow(r)
      PROVE  \A q \in Requests : Progress(q)'
  BY <1>3, ChangeProgress
<1>4. ASSUME NEW r \in Requests,
             \/ Send(r) \/ ReadTable(r) \/ ReadRows(r) \/ ReadOld(r) \/ ReadBack(r)
             \/ WriteLog(r) \/ Timeout(r) \/ Fail(r) \/ Crash(r)
      PROVE  \A q \in Requests : Progress(q)'
  <2>1. \A q \in Requests \ {r} : Progress(q)'
    BY <1>4, OthersUntouched
  <2>2. Progress(r)'
    BY <1>4, OwnProgress
  <2>3. QED
    BY <2>1, <2>2
<1>5. CASE \/ \E s \in SettingsChoices \union {NoSettings} : ChangeSettings(s)
           \/ \E u \in Users : DeleteAccount(u)
  BY <1>1, <1>5, EnvironmentProgress DEF IInv
<1>6. QED
  BY <1>1, <1>2, <1>3, <1>4, <1>5 DEF Next, Step, IInv

LEMMA Inductive == Spec => []IInv
<1>1. Init => IInv
  BY InitTyped, InitProgress DEF IInv
<1>2. QED
  BY <1>1, NextProgress, PTL DEF Spec

(***************************************************************************)
(* Whoever changed the table was allowed to, at some time of its request,  *)
(* by settings that hold or held: the copy the use case checks may be      *)
(* stale, but it was never read before the request.                        *)
(***************************************************************************)
THEOREM ChangesAlwaysPermitted == Spec => []ChangesWerePermitted
<1>1. IInv => ChangesWerePermitted
  BY DEF IInv, Progress, Admitted, ChangesWerePermitted
<1>2. QED
  BY <1>1, Inductive, PTL

(***************************************************************************)
(* A finished request that changed the table is on the record, whatever    *)
(* the client was answered, unless the record could not be written.        *)
(***************************************************************************)
THEOREM ChangesAlwaysLogged == Spec => []ChangedIsLogged
<1>1. IInv => ChangedIsLogged
  BY DEF IInv, Progress, Owed, ChangedIsLogged
<1>2. QED
  BY <1>1, Inductive, PTL

-----------------------------------------------------------------------------
(***************************************************************************)
(* The use cases implement AuditedTable: the statement is a Change, the    *)
(* finally block a Record, every other step is invisible.                  *)
(***************************************************************************)
LEMMA Invisible ==
  ASSUME UNCHANGED <<table, gone, came, log>>
  PROVE  UNCHANGED Audited!vars
<1>1. Dids' = Dids
  BY DEF Dids, Did
<1>2. Entries' = Entries
  BY DEF Entries, Entry
<1>3. QED
  BY <1>1, <1>2 DEF Audited!vars

LEMMA StatementIsChange ==
  ASSUME IInv, TypeOK', NEW r \in Requests, pc[r] = "write",
         NEW from \in SUBSET table, NEW to, NEW next, Statement(r, from, to, next),
         \A a, b \in from : a = b, \A a, b \in to : a = b,
         \/ want[r].op = "add" /\ from = {} /\ to # {}
         \/ want[r].op = "update" /\ (from = {} <=> to = {})
         \/ want[r].op = "delete" /\ to = {}
  PROVE  Audited!Change(r, want[r].op) \/ UNCHANGED Audited!vars
<1>1. CASE ~Fits(from, to)
  <2>1. UNCHANGED <<table, gone, came, log>>
    BY <1>1 DEF Statement, stored, history
  <2>2. QED
    BY <2>1, Invisible
<1>2. CASE Fits(from, to) /\ from = {} /\ to = {}
  <2>1. gone[r] = {} /\ came[r] = {}
    BY DEF IInv, Progress, NotYet
  <2>2. gone' = gone /\ came' = came
    <3>1. gone' = [gone EXCEPT ![r] = {}] /\ came' = [came EXCEPT ![r] = {}]
      BY <1>2 DEF Statement
    <3>2. gone \in [Requests -> SUBSET Rows] /\ came \in [Requests -> SUBSET Rows]
      BY DEF IInv, TypeOK, HistoryOK
    <3>3. QED
      BY <2>1, <3>1, <3>2
  <2>3. table' = table /\ log' = log
    BY <1>2 DEF Statement
  <2>4. QED
    BY <2>2, <2>3, Invisible
<1>3. CASE Fits(from, to) /\ ~(from = {} /\ to = {})
  <2>1. /\ table' = (table \ from) \union to /\ log' = log
        /\ gone' = [gone EXCEPT ![r] = from] /\ came' = [came EXCEPT ![r] = to]
    BY <1>3 DEF Statement
  <2>2. gone[r] = {} /\ came[r] = {} /\ log[r] = NoRecord
    BY DEF IInv, Progress, NotYet
  <2>3. gone \in [Requests -> SUBSET Rows] /\ came \in [Requests -> SUBSET Rows]
    BY DEF IInv, TypeOK, HistoryOK
  <2>4. Dids[r] = "nothing" /\ Entries[r] = NoRecord
    BY <2>2 DEF Dids, Did, Entries, Entry
  <2>5. table' \subseteq Rows
    BY DEF TypeOK, StoredOK
  <2>6. /\ Audited!AtMostOne(table \ table') /\ Audited!AtMostOne(table' \ table)
        /\ want[r].op = "add" => table \subseteq table'
        /\ want[r].op = "delete" => table' \subseteq table
    BY <2>1 DEF Audited!AtMostOne
  <2>7. Dids' = [Dids EXCEPT ![r] = want[r].op]
    <3>1. gone'[r] = from /\ came'[r] = to
      BY <2>1, <2>3
    <3>2. Did(r)' = want[r].op
      BY <1>3, <3>1 DEF Did
    <3>3. \A q \in Requests \ {r} : gone'[q] = gone[q] /\ came'[q] = came[q]
      BY <2>1, <2>3
    <3>4. \A q \in Requests \ {r} : Did(q)' = Did(q)
      BY <3>3 DEF Did
    <3>5. QED
      BY <3>2, <3>4 DEF Dids
  <2>8. Entries' = Entries
    BY <2>1 DEF Entries, Entry
  <2>9. QED
    BY <2>4, <2>5, <2>6, <2>7, <2>8 DEF Audited!Change
<1>4. QED
  BY <1>1, <1>2, <1>3

LEMMA WholeKey ==
  ASSUME IInv, NEW r \in Requests, pc[r] = "write", want[r].op \in {"update", "delete"}
  PROVE  \A a, b \in Matching(table, want[r].key) : a = b
<1>1. Keys \subseteq DOMAIN want[r].key
  BY DEF IInv, Progress, Admitted
<1>2. UniqueKeys(table)
  BY DEF IInv, TypeOK, StoredOK
<1>3. QED
  BY <1>1, <1>2, WholeKeyFindsOne

LEMMA ChangeIsChange ==
  ASSUME IInv, TypeOK', NEW r \in Requests, AddRow(r) \/ UpdateRow(r) \/ DeleteRow(r)
  PROVE  (\E op \in {"add", "update", "delete"} : Audited!Change(r, op))
            \/ UNCHANGED Audited!vars
<1> DEFINE rows == Matching(table, want[r].key)
           new  == {Merge(row, Hashed(want[r].body, using[r])) : row \in rows}
<1>1. pc[r] = "write" /\ want[r].op \in {"add", "update", "delete"}
  BY DEF AddRow, UpdateRow, DeleteRow
<1>2. rows \in SUBSET table
  BY DEF Matching
<1>3. want[r].op \in {"update", "delete"} => \A a, b \in rows : a = b
  BY <1>1, WholeKey
<1>4. (rows = {} <=> new = {}) /\ ((\A a, b \in rows : a = b) => \A a, b \in new : a = b)
  <2> HIDE DEF rows
  <2>1. QED
    OBVIOUS
<1>5. Audited!Change(r, want[r].op) \/ UNCHANGED Audited!vars
  <2>1. CASE AddRow(r)
    <3>1. PICK row \in Rows : Statement(r, {}, {row}, "readBack")
      BY <2>1 DEF AddRow
    <3>2. want[r].op = "add" /\ {row} # {} /\ {} \in SUBSET table
      BY <2>1 DEF AddRow
    <3>3. QED
      BY <1>1, <3>1, <3>2, StatementIsChange
  <2>2. CASE UpdateRow(r)
    <3>1. Statement(r, rows, new, "readBack") /\ want[r].op = "update"
      BY <2>2 DEF UpdateRow
    <3> HIDE DEF rows, new
    <3>2. QED
      BY <1>1, <1>2, <1>3, <1>4, <3>1, StatementIsChange
  <2>3. CASE DeleteRow(r)
    <3>1. Statement(r, rows, {}, "log") /\ want[r].op = "delete"
      BY <2>3 DEF DeleteRow
    <3> HIDE DEF rows
    <3>2. QED
      BY <1>1, <1>2, <1>3, <3>1, StatementIsChange
  <2>4. QED
    BY <2>1, <2>2, <2>3
<1>6. QED
  BY <1>1, <1>5

LEMMA WriteLogIsRecord ==
  ASSUME IInv, NEW r \in Requests, WriteLog(r)
  PROVE  (\E op \in Operations, status \in Audited!Statuses : Audited!Record(r, op, status))
            \/ UNCHANGED Audited!vars
<1>0. NotYet(r) /\ Owed(r) /\ TypeOK
  BY DEF IInv, Progress
<1>1. UNCHANGED <<table, gone, came>> /\ pc[r] = "log"
  BY DEF WriteLog
<1>2. CASE want[r].user \notin accounts
  BY <1>1, <1>2, Invisible DEF WriteLog
<1>3. CASE want[r].user \in accounts
  <2>1. log' = [log EXCEPT ![r] = Recorded(r)]
    BY <1>3 DEF WriteLog
  <2>2. log \in [Requests -> Record \union {NoRecord}]
    BY <1>0 DEF TypeOK, StoredOK
  <2>3. Recorded(r) # NoRecord
    BY <1>0, RecordedTyped, RowChangesAssumption
  <2>4. Entry(Recorded(r)) = <<want[r].op, outcome[r]>>
    BY <2>3 DEF Entry, Recorded
  <2>5. Entries' = [Entries EXCEPT ![r] = <<want[r].op, outcome[r]>>]
    <3>1. Entry(log[r])' = <<want[r].op, outcome[r]>>
      BY <2>1, <2>2, <2>3, <2>4 DEF Entry
    <3>2. \A q \in Requests \ {r} : Entry(log[q])' = Entry(log[q])
      BY <2>1, <2>2 DEF Entry
    <3>3. QED
      BY <3>1, <3>2 DEF Entries
  <2>6. Dids' = Dids
    BY <1>1 DEF Dids, Did
  <2>7. /\ Entries[r] = NoRecord
        /\ Dids[r] \in {"nothing", want[r].op}
        /\ want[r].op = "add" /\ outcome[r] = "successfully" => Dids[r] = "add"
    <3>1. Entries[r] = NoRecord
      BY <1>0, <1>1 DEF NotYet, Entries, Entry
    <3>2. Dids[r] = Did(r)
      BY DEF Dids
    <3>3. Did(r) \in {"nothing", want[r].op}
      BY <1>0 DEF Owed
    <3>4. want[r].op = "add" /\ outcome[r] = "successfully" => Did(r) # "nothing"
      BY <1>0, <1>1 DEF Owed, Did
    <3>5. QED
      BY <3>1, <3>2, <3>3, <3>4
  <2>8. want[r].op \in Operations /\ outcome[r] \in Audited!Statuses
    BY <1>0, <1>1 DEF Owed, TypeOK, ControlOK, Want, Outcomes, Audited!Statuses
  <2>9. Audited!Record(r, want[r].op, outcome[r])
    BY <1>1, <2>5, <2>6, <2>7 DEF Audited!Record
  <2>10. QED
    BY <2>8, <2>9
<1>4. QED
  BY <1>2, <1>3

LEMMA StepImplements == IInv /\ IInv' /\ [Next]_vars => [Audited!Next]_Audited!vars
<1> SUFFICES ASSUME IInv, IInv', [Next]_vars PROVE [Audited!Next]_Audited!vars
  OBVIOUS
<1>0. Audited!Operations = Operations
  BY DEF Audited!Operations, Operations
<1>1. CASE UNCHANGED vars
  BY <1>1, Invisible DEF vars, stored, history
<1>2. ASSUME NEW r \in Requests, AddRow(r) \/ UpdateRow(r) \/ DeleteRow(r)
      PROVE  [Audited!Next]_Audited!vars
  BY <1>2, ChangeIsChange DEF IInv, Audited!Next
<1>3. ASSUME NEW r \in Requests, WriteLog(r)
      PROVE  [Audited!Next]_Audited!vars
  BY <1>0, <1>3, WriteLogIsRecord DEF Audited!Next
<1>4. ASSUME NEW r \in Requests,
             \/ Send(r) \/ ReadTable(r) \/ ReadRows(r) \/ ReadOld(r) \/ ReadBack(r)
             \/ Timeout(r) \/ Fail(r) \/ Crash(r)
      PROVE  [Audited!Next]_Audited!vars
  <2>1. UNCHANGED <<table, gone, came, log>>
    BY <1>4 DEF Send, ReadTable, ReadRows, ReadOld, ReadBack, Timeout, Fail, Crash, stored, history
  <2>2. QED
    BY <2>1, Invisible
<1>5. CASE \/ \E s \in SettingsChoices \union {NoSettings} : ChangeSettings(s)
           \/ \E u \in Users : DeleteAccount(u)
  <2>1. UNCHANGED <<table, gone, came, log>>
    BY <1>5 DEF ChangeSettings, DeleteAccount, history
  <2>2. QED
    BY <2>1, Invisible
<1>6. QED
  BY <1>1, <1>2, <1>3, <1>4, <1>5 DEF Next, Step

(***************************************************************************)
(* Whatever the contents of the table and however many requests, faults    *)
(* and changes of settings interleave, a request changes at most one row,  *)
(* once, by its own operation, and records that operation afterwards.      *)
(***************************************************************************)
THEOREM ImplementsAudit == Spec => KeepsAudit
<1>1. Init => Audited!Init
  <2>1. Init => \A r \in Requests : Did(r) = "nothing" /\ Entry(log[r]) = NoRecord
    BY DEF Init, Did, Entry
  <2>2. Init => table \subseteq Rows
    BY RowChangesAssumption DEF Init
  <2>3. QED
    BY <2>1, <2>2 DEF Audited!Init, Dids, Entries
<1>2. QED
  BY <1>1, StepImplements, Inductive, PTL DEF Spec, KeepsAudit, Audited!Spec
-----------------------------------------------------------------------------
(***************************************************************************)
(* What is told of a change.  The invariant says, of a request nothing     *)
(* overtook, what its memory has to do with the table and its change.      *)
(***************************************************************************)
\* The body of RecordTellsTheChange.
Truthful(r, record) ==
  /\ record.op \in {"add", "update"} =>
       came[r] # {} /\ \A row \in came[r] : Agree(record.data, row)
  /\ record.op \in {"update", "delete"} =>
       /\ gone[r] # {} /\ record.old # NoRow
       /\ \A row \in gone[r] :
            /\ Agree(Only(record.old, DOMAIN record.old \ DOMAIN want[r].body), row)
            /\ record.op = "delete" => Agree(record.data, row)

Ordered(r) ==
  /\ pc[r] \in {"unsent", "read", "old", "write"} => outcome[r] = "unknown"
  /\ pc[r] = "old" => want[r].op \in {"update", "delete"}
  /\ pc[r] = "readBack" => want[r].op \in {"add", "update"}
  /\ pc[r] # "done" => reply[r] \notin {"ok", "failed"}
  /\ reply[r] = "failed" => outcome[r] = "unsuccessfully"

\* The row that was read is there until the statement.
FoundOld(r) ==
  Alone(r) /\ pc[r] = "write" /\ want[r].op \in {"update", "delete"} =>
    /\ Matching(table, want[r].key) # {} /\ old[r] # NoRow
    /\ \A row \in Matching(table, want[r].key) :
         Agree(Only(old[r], DOMAIN old[r] \ DOMAIN want[r].body), row)

Tells(r) ==
  /\ Alone(r) /\ outcome[r] = "successfully" /\ pc[r] \in {"readBack", "log"} =>
       Truthful(r, Recorded(r))
  /\ Alone(r) /\ log[r] # NoRecord /\ log[r].status = "successfully" => Truthful(r, log[r])

Honest(r) == Ordered(r) /\ FoundOld(r) /\ Tells(r)

\* The passwords of a table are none of its keys: the row is read again by the
\* key of the body, before it is hashed.
KeysInTheClear == \A s \in SettingsChoices : s.passwords \cap Keys = {}

Clear == /\ settings \in SettingsChoices \union {NoSettings}
         /\ \A r \in Requests : Passwords(using[r]) \cap Keys = {}

\* The row is read again by the key it has after the change.
FutureOK(r) ==
  Alone(r) /\ pc[r] = "write" /\ want[r].op = "update" =>
    /\ \A row \in Matching(table, want[r].key) : Agree(future[r], Merge(row, want[r].body))
    /\ KeyIsKnown(r) => DOMAIN future[r] = Keys

BackOK(r) ==
  Alone(r) /\ pc[r] = "readBack" =>
    /\ came[r] # {}
    /\ \A x, y \in came[r] : x = y
    /\ \A x \in came[r] : x \in table /\ Agree(future[r], x)
    /\ KeyIsKnown(r) => DOMAIN future[r] = Keys

ShowsTheRow(r) ==
  /\ shown[r] # NoRow
  /\ \A row \in came[r] : Agree(Hidden(Only(row, DOMAIN shown[r]), using[r]), shown[r])

ShownOK(r) ==
  /\ Alone(r) /\ want[r].op \in {"add", "update"}
  /\ (pc[r] = "log" /\ outcome[r] = "successfully") \/ reply[r] = "ok"
  => ShowsTheRow(r)

FailedOK(r) ==
  Alone(r) /\ r \notin hit /\ KeyIsKnown(r) /\ outcome[r] = "unsuccessfully" => ~Changed(r)

Correct(r) == FutureOK(r) /\ BackOK(r) /\ ShownOK(r) /\ FailedOK(r)

\* What is said of a request r depends on these, and on the table until it is done.
Own(r) == <<pc[r], want[r], using[r], old[r], future[r], outcome[r], shown[r], reply[r], log[r],
            gone[r], came[r]>>

LEMMA HonestUntouched ==
  ASSUME NEW q \in Requests, Own(q)' = Own(q), overtaken \subseteq overtaken',
         Active(q) /\ q \notin overtaken' => table' = table
  PROVE  Honest(q) => Honest(q)'
<1>1. /\ pc'[q] = pc[q] /\ want'[q] = want[q] /\ using'[q] = using[q] /\ old'[q] = old[q]
      /\ outcome'[q] = outcome[q] /\ reply'[q] = reply[q] /\ log'[q] = log[q]
      /\ gone'[q] = gone[q] /\ came'[q] = came[q]
  BY DEF Own
<1>2. Alone(q)' => Alone(q)
  BY DEF Alone
<1>3. Ordered(q) => Ordered(q)'
  BY <1>1 DEF Ordered
<1>4. FoundOld(q) => FoundOld(q)'
  BY <1>1, <1>2 DEF FoundOld, Active, Calls, Alone
<1>5. Recorded(q)' = Recorded(q)
  BY <1>1 DEF Recorded
<1>6. Tells(q) => Tells(q)'
  BY <1>1, <1>2, <1>5 DEF Tells, Truthful
<1>7. QED
  BY <1>3, <1>4, <1>6 DEF Honest

LEMMA CorrectUntouched ==
  ASSUME NEW q \in Requests, Own(q)' = Own(q), overtaken \subseteq overtaken', hit \subseteq hit',
         Active(q) /\ q \notin overtaken' => table' = table
  PROVE  Correct(q) => Correct(q)'
<1>1. /\ pc'[q] = pc[q] /\ want'[q] = want[q] /\ using'[q] = using[q] /\ future'[q] = future[q]
      /\ outcome'[q] = outcome[q] /\ shown'[q] = shown[q] /\ reply'[q] = reply[q]
      /\ gone'[q] = gone[q] /\ came'[q] = came[q]
  BY DEF Own
<1>2. Alone(q)' => Alone(q)
  BY DEF Alone
<1>3. KeyIsKnown(q)' = KeyIsKnown(q)
  BY <1>1 DEF KeyIsKnown
<1>4. FutureOK(q) => FutureOK(q)'
  BY <1>1, <1>2, <1>3 DEF FutureOK, Active, Calls, Alone
<1>5. BackOK(q) => BackOK(q)'
  BY <1>1, <1>2, <1>3 DEF BackOK, Active, Calls, Alone
<1>6. ShownOK(q) => ShownOK(q)'
  BY <1>1, <1>2 DEF ShownOK, ShowsTheRow
<1>7. FailedOK(q) => FailedOK(q)'
  BY <1>1, <1>2, <1>3 DEF FailedOK, Changed
<1>8. QED
  BY <1>4, <1>5, <1>6, <1>7 DEF Correct

(***************************************************************************)
(* A step of one request leaves what is said of the others alone: where it *)
(* changes the table, it overtakes them.                                   *)
(***************************************************************************)
LEMMA StepOfOne ==
  ASSUME TypeOK, NEW r \in Requests, Send(r) \/ Step(r) \/ Timeout(r) \/ Fail(r) \/ Crash(r)
  PROVE  /\ want' = want /\ settings' = settings
         /\ overtaken \subseteq overtaken' /\ hit \subseteq hit'
         /\ \A q \in Requests \ {r} :
              /\ Own(q)' = Own(q)
              /\ Active(q) /\ q \notin overtaken' => table' = table
<1>1. want' = want /\ settings' = settings
  BY DEF Send, Step, ReadTable, ReadRows, ReadOld, AddRow, UpdateRow, DeleteRow, ReadBack,
         WriteLog, Timeout, Fail, Crash, Statement, Caught, stored, memory, history
<1>2. overtaken \subseteq overtaken' /\ hit \subseteq hit'
  BY DEF Send, Step, ReadTable, ReadRows, ReadOld, AddRow, UpdateRow, DeleteRow, ReadBack,
         WriteLog, Timeout, Fail, Crash, Statement, Caught, Strike, stored, memory, history
<1>3. ASSUME NEW q \in Requests \ {r}, Active(q), q \notin overtaken'
      PROVE  table' = table
  BY <1>3 DEF Send, Step, ReadTable, ReadRows, ReadOld, AddRow, UpdateRow, DeleteRow, ReadBack,
              WriteLog, Timeout, Fail, Crash, Statement, stored
<1>4. /\ pc' = pc \/ \E x : pc' = [pc EXCEPT ![r] = x]
      /\ outcome' = outcome \/ \E x : outcome' = [outcome EXCEPT ![r] = x]
  BY DEF Send, Step, ReadTable, ReadRows, ReadOld, AddRow, UpdateRow, DeleteRow, ReadBack,
         WriteLog, Timeout, Fail, Crash, Statement, Caught, Conclude, Goto, memory
<1>5. /\ using' = using \/ \E x : using' = [using EXCEPT ![r] = x]
      /\ old' = old \/ \E x : old' = [old EXCEPT ![r] = x]
      /\ future' = future \/ \E x : future' = [future EXCEPT ![r] = x]
  BY DEF Send, Step, ReadTable, ReadRows, ReadOld, AddRow, UpdateRow, DeleteRow, ReadBack,
         WriteLog, Timeout, Fail, Crash, memory
<1>6. /\ shown' = shown \/ \E x : shown' = [shown EXCEPT ![r] = x]
      /\ reply' = reply \/ \E x : reply' = [reply EXCEPT ![r] = x]
  BY DEF Send, Step, ReadTable, ReadRows, ReadOld, AddRow, UpdateRow, DeleteRow, ReadBack,
         WriteLog, Timeout, Fail, Crash, Answer, memory
<1>7. /\ log' = log \/ \E x : log' = [log EXCEPT ![r] = x]
      /\ gone' = gone \/ \E x : gone' = [gone EXCEPT ![r] = x]
      /\ came' = came \/ \E x : came' = [came EXCEPT ![r] = x]
  BY DEF Send, Step, ReadTable, ReadRows, ReadOld, AddRow, UpdateRow, DeleteRow, ReadBack,
         WriteLog, Timeout, Fail, Crash, Statement, stored, history
<1>8. ASSUME NEW q \in Requests \ {r}
      PROVE  Own(q)' = Own(q)
  <2>1. pc'[q] = pc[q] /\ outcome'[q] = outcome[q]
    BY <1>4 DEF TypeOK, ControlOK
  <2>2. using'[q] = using[q] /\ old'[q] = old[q] /\ future'[q] = future[q]
    BY <1>5 DEF TypeOK, MemoryOK
  <2>3. shown'[q] = shown[q] /\ reply'[q] = reply[q]
    BY <1>6 DEF TypeOK, MemoryOK, ControlOK
  <2>4. log'[q] = log[q] /\ gone'[q] = gone[q] /\ came'[q] = came[q]
    BY <1>7 DEF TypeOK, StoredOK, HistoryOK
  <2>5. QED
    BY <1>1, <2>1, <2>2, <2>3, <2>4 DEF Own
<1>9. QED
  BY <1>1, <1>2, <1>3, <1>8

LEMMA Environment ==
  ASSUME \/ \E s \in SettingsChoices \union {NoSettings} : ChangeSettings(s)
         \/ \E u \in Users : DeleteAccount(u)
         \/ UNCHANGED vars
  PROVE  /\ table' = table /\ overtaken' = overtaken /\ hit' = hit
         /\ \A q \in Requests : Own(q)' = Own(q)
         /\ UNCHANGED <<want, using>>
         /\ settings' \in {settings} \union SettingsChoices \union {NoSettings}
<1>1. /\ table' = table /\ overtaken' = overtaken /\ hit' = hit
      /\ UNCHANGED <<want, using>>
      /\ settings' \in {settings} \union SettingsChoices \union {NoSettings}
  BY DEF ChangeSettings, DeleteAccount, vars, stored, requests, memory, history
<1>2. UNCHANGED <<pc, want, using, old, future, outcome, shown, reply, log, gone, came>>
  BY DEF ChangeSettings, DeleteAccount, vars, stored, requests, memory, history
<1>3. \A q \in Requests : Own(q)' = Own(q)
  BY <1>2 DEF Own
<1>4. QED
  BY <1>1, <1>3

(***************************************************************************)
(* The row that is read before the change.                                 *)
(***************************************************************************)
LEMMA RowWasRead ==
  ASSUME IInv, NEW r \in Requests, Ordered(r), ReadOld(r), pc'[r] = "write"
  PROVE  \E full \in table :
           /\ Matching(table, want[r].key) = {full}
           /\ LET part == Only(full, AvailableFields(using[r]))
                  copy == IF want[r].op = "update" THEN Merge(part, want[r].body) ELSE part
              IN  /\ copy \in Partial(Columns)
                  /\ old'[r] = copy /\ future'[r] = Only(copy, Keys \cap DOMAIN copy)
<1> DEFINE found == Matching(table, want[r].key)
           part(full) == Only(full, AvailableFields(using[r]))
           copy(full) == IF want[r].op = "update" THEN Merge(part(full), want[r].body)
                         ELSE part(full)
<1>1. /\ TypeOK /\ pc[r] = "old" /\ Admitted(r) /\ want[r].op \in {"update", "delete"}
  BY DEF IInv, Progress, ReadOld, Ordered
<1>2. found # {}
  BY <1>1 DEF ReadOld, Goto, TypeOK, ControlOK
<1>3. PICK full \in found :
         /\ old' = [old EXCEPT ![r] = copy(full)]
         /\ future' = [future EXCEPT ![r] = Only(copy(full), Keys \cap DOMAIN copy(full))]
  BY <1>2 DEF ReadOld
<1>4. full \in table /\ full \in Rows
  BY <1>1 DEF Matching, TypeOK, StoredOK
<1>5. found = {full}
  <2>1. Keys \subseteq DOMAIN want[r].key
    BY <1>1 DEF Admitted
  <2>2. UniqueKeys(table)
    BY <1>1 DEF TypeOK, StoredOK
  <2>3. \A a, b \in found : a = b
    BY <2>1, <2>2, WholeKeyFindsOne
  <2> HIDE DEF found
  <2>4. QED
    BY <1>3, <2>3
<1>6. copy(full) \in Partial(Columns)
  <2>1. AvailableFields(using[r]) \subseteq Columns
    BY <1>1, FieldsAreColumns DEF TypeOK, MemoryOK
  <2>2. full \in Partial(Columns) /\ DOMAIN full = Columns
    BY <1>4, RowIsPartial
  <2>3. part(full) \in Partial(Columns)
    BY <2>1, <2>2, OnlyTyped, PartialIntro
  <2>4. want[r].body \in Partial(Columns)
    BY <1>1 DEF TypeOK, ControlOK, Want
  <2> HIDE DEF part
  <2>5. QED
    BY <2>3, <2>4, MergeTyped
<1> HIDE DEF copy
<1>7. old'[r] = copy(full) /\ future'[r] = Only(copy(full), Keys \cap DOMAIN copy(full))
  BY <1>1, <1>3 DEF TypeOK, MemoryOK
<1>8. QED
  BY <1>4, <1>5, <1>6, <1>7 DEF copy

\* What it has in common with the row.
LEMMA CopyAgrees ==
  ASSUME NEW full, NEW F, NEW body
  PROVE  LET part == Only(full, F)
         IN  /\ Agree(Only(part, DOMAIN part \ DOMAIN body), full)
             /\ LET copy == Merge(part, body)
                IN  Agree(Only(copy, DOMAIN copy \ DOMAIN body), full)
BY DEF Agree, Only, Merge

LEMMA ReadOldHonest ==
  ASSUME IInv, NEW r \in Requests, Honest(r), ReadOld(r)
  PROVE  Honest(r)'
<1>1. /\ TypeOK /\ pc[r] = "old" /\ Ordered(r) /\ Tells(r) /\ NotYet(r)
  BY DEF IInv, Progress, ReadOld, Honest
<1>2. /\ pc'[r] \in {"write", "done"} /\ outcome' = outcome /\ want' = want /\ log' = log
      /\ table' = table /\ gone' = gone /\ came' = came
      /\ reply'[r] \in {reply[r], "notFound"}
  BY <1>1 DEF ReadOld, Goto, Answer, stored, history, TypeOK, ControlOK
<1>3. Ordered(r)'
  BY <1>1, <1>2 DEF Ordered
<1>4. Tells(r)'
  BY <1>1, <1>2 DEF Tells, NotYet, Ordered
<1>5. FoundOld(r)'
  <2>1. SUFFICES ASSUME pc'[r] = "write"
                 PROVE  /\ Matching(table, want[r].key) # {} /\ old'[r] # NoRow
                        /\ \A row \in Matching(table, want[r].key) :
                             Agree(Only(old'[r], DOMAIN old'[r] \ DOMAIN want[r].body), row)
    BY <1>2 DEF FoundOld
  <2>2. PICK full \in table :
           /\ Matching(table, want[r].key) = {full}
           /\ LET part == Only(full, AvailableFields(using[r]))
                  copy == IF want[r].op = "update" THEN Merge(part, want[r].body) ELSE part
              IN  copy \in Partial(Columns) /\ old'[r] = copy
    BY <1>1, <2>1, RowWasRead
  <2>3. Agree(Only(old'[r], DOMAIN old'[r] \ DOMAIN want[r].body), full)
    BY <2>2, CopyAgrees
  <2>4. old'[r] # NoRow
    BY <2>2, RowChangesAssumption
  <2>5. QED
    BY <2>2, <2>3, <2>4
<1>6. QED
  BY <1>3, <1>4, <1>5 DEF Honest

(***************************************************************************)
(* The statement takes effect or not, and the record will tell which rows. *)
(***************************************************************************)
Effect(r, from, to, next) ==
  /\ log' = log /\ overtaken \subseteq overtaken' /\ (Alone(r)' => Alone(r))
  /\ \/ /\ gone'[r] = from /\ came'[r] = to /\ table' = (table \ from) \union to
        /\ UniqueKeys((table \ from) \union to)
        /\ \/ outcome'[r] = "successfully" /\ pc'[r] = next
           \/ outcome'[r] = "unsuccessfully" /\ pc'[r] = "log" /\ r \in hit'
     \/ /\ gone' = gone /\ came' = came /\ table' = table
        /\ outcome'[r] = "unsuccessfully" /\ pc'[r] = "log"

LEMMA StatementEffect ==
  ASSUME TypeOK, NEW r \in Requests, NEW from, NEW to, NEW next, Statement(r, from, to, next)
  PROVE  Effect(r, from, to, next)
<1>1. CASE Fits(from, to)
  <2>1. UniqueKeys((table \ from) \union to)
    BY <1>1, FittingKeepsKeys DEF TypeOK, StoredOK
  <2>2. /\ gone'[r] = from /\ came'[r] = to /\ table' = (table \ from) \union to
        /\ log' = log /\ overtaken \subseteq overtaken' /\ (Alone(r)' => Alone(r))
    BY <1>1 DEF Statement, Alone, TypeOK, HistoryOK
  <2>3. \/ outcome'[r] = "successfully" /\ pc'[r] = next
        \/ outcome'[r] = "unsuccessfully" /\ pc'[r] = "log" /\ r \in hit'
    BY <1>1 DEF Statement, Caught, Conclude, Goto, Strike, TypeOK, ControlOK
  <2>4. QED
    BY <2>1, <2>2, <2>3 DEF Effect
<1>2. CASE ~Fits(from, to)
  BY <1>2 DEF Statement, Caught, Conclude, Goto, stored, history, Alone, Effect, TypeOK, ControlOK
<1>3. QED
  BY <1>1, <1>2

LEMMA StatementHonest ==
  ASSUME IInv, NEW r \in Requests, Honest(r), pc[r] = "write",
         NEW from, NEW to, NEW next \in {"readBack", "log"}, Statement(r, from, to, next),
         UNCHANGED <<want, using, old, reply>>,
         next = "readBack" => want[r].op \in {"add", "update"},
         Alone(r) /\ gone'[r] = from /\ came'[r] = to => Truthful(r, Recorded(r))'
  PROVE  Honest(r)'
<1>1. /\ TypeOK /\ Ordered(r) /\ log[r] = NoRecord
  BY DEF IInv, Progress, NotYet, Honest
<1>2. /\ log' = log /\ (Alone(r)' => Alone(r))
      /\ \/ /\ gone'[r] = from /\ came'[r] = to
            /\ \/ outcome'[r] = "successfully" /\ pc'[r] = next
               \/ outcome'[r] = "unsuccessfully" /\ pc'[r] = "log"
         \/ outcome'[r] = "unsuccessfully" /\ pc'[r] = "log"
  BY <1>1, StatementEffect DEF Effect
<1>3. Ordered(r)'
  BY <1>1, <1>2 DEF Ordered
<1>4. FoundOld(r)'
  BY <1>2 DEF FoundOld
<1>5. Tells(r)'
  BY <1>1, <1>2 DEF Tells
<1>6. QED
  BY <1>3, <1>4, <1>5 DEF Honest

LEMMA ChangeHonest ==
  ASSUME IInv, NEW r \in Requests, Honest(r), AddRow(r) \/ UpdateRow(r) \/ DeleteRow(r)
  PROVE  Honest(r)'
<1> DEFINE body == Hashed(want[r].body, using[r])
           rows == Matching(table, want[r].key)
           new  == {Merge(row, body) : row \in rows}
<1>1. /\ pc[r] = "write" /\ UNCHANGED <<want, using, old, reply>> /\ FoundOld(r)
  BY DEF AddRow, UpdateRow, DeleteRow, Honest
<1>2. Recorded(r)' = [op |-> want[r].op, status |-> outcome'[r],
                      data |-> IF want[r].op = "delete" THEN want[r].key ELSE body,
                      old |-> old[r]]
  BY <1>1 DEF Recorded
<1>3. DOMAIN body = DOMAIN want[r].body
  BY DEF Hashed
<1>4. CASE AddRow(r)
  <2>1. PICK row \in Rows : /\ \A c \in DOMAIN body : row[c] = body[c]
                            /\ Statement(r, {}, {row}, "readBack")
    BY <1>4 DEF AddRow
  <2>2. want[r].op = "add"
    BY <1>4 DEF AddRow
  <2>3. Agree(body, row)
    BY <2>1 DEF Agree
  <2> HIDE DEF body
  <2>4. came'[r] = {row} => Truthful(r, Recorded(r))'
    BY <1>1, <1>2, <2>2, <2>3 DEF Truthful
  <2>5. QED
    BY <1>1, <2>1, <2>2, <2>4, StatementHonest
<1>5. CASE UpdateRow(r)
  <2>1. Statement(r, rows, new, "readBack") /\ want[r].op = "update"
    BY <1>5 DEF UpdateRow
  <2>2. ASSUME NEW row \in rows PROVE Agree(body, Merge(row, body))
    BY DEF Agree, Merge
  <2>3. \A x \in new : Agree(body, x)
    BY <2>2
  <2>4. rows # {} => new # {}
    OBVIOUS
  <2>5. Alone(r) => /\ rows # {} /\ old[r] # NoRow
                    /\ \A row \in rows : Agree(Only(old[r], DOMAIN old[r] \ DOMAIN want[r].body), row)
    BY <1>1, <2>1 DEF FoundOld
  <2> HIDE DEF body, rows, new
  <2>6. Alone(r) /\ gone'[r] = rows /\ came'[r] = new => Truthful(r, Recorded(r))'
    BY <1>1, <1>2, <2>1, <2>3, <2>4, <2>5 DEF Truthful
  <2>7. QED
    BY <1>1, <2>1, <2>6, StatementHonest
<1>6. CASE DeleteRow(r)
  <2>1. Statement(r, rows, {}, "log") /\ want[r].op = "delete"
    BY <1>6 DEF DeleteRow
  <2>2. \A row \in rows : Agree(want[r].key, row)
    BY DEF Matching, Agree
  <2>3. Alone(r) => /\ rows # {} /\ old[r] # NoRow
                    /\ \A row \in rows : Agree(Only(old[r], DOMAIN old[r] \ DOMAIN want[r].body), row)
    BY <1>1, <2>1 DEF FoundOld
  <2> HIDE DEF body, rows
  <2>4. Alone(r) /\ gone'[r] = rows => Truthful(r, Recorded(r))'
    BY <1>1, <1>2, <2>1, <2>2, <2>3 DEF Truthful
  <2>5. QED
    BY <1>1, <2>1, <2>4, StatementHonest
<1>7. QED
  BY <1>4, <1>5, <1>6

LEMMA RestHonest ==
  ASSUME IInv, NEW r \in Requests, Honest(r),
         \/ Send(r) \/ ReadTable(r) \/ ReadRows(r) \/ ReadBack(r) \/ WriteLog(r)
         \/ Timeout(r) \/ Fail(r) \/ Crash(r)
  PROVE  Honest(r)'
<1>1. /\ TypeOK /\ NotYet(r) /\ Owed(r) /\ Ordered(r) /\ FoundOld(r) /\ Tells(r)
  BY DEF IInv, Progress, Honest
<1>2. /\ pc \in [Requests -> Calls \union {"unsent", "done"}]
      /\ outcome \in [Requests -> Outcomes] /\ reply \in [Requests -> Replies]
      /\ log \in [Requests -> Record \union {NoRecord}]
  BY <1>1 DEF TypeOK, ControlOK, StoredOK
<1>3. /\ UNCHANGED <<table, want, old, gone, came, overtaken>>
      /\ pc[r] \notin {"read"} => using' = using
  BY DEF Send, ReadTable, ReadRows, ReadBack, WriteLog, Timeout, Fail, Crash, stored, memory, history
<1>4. CASE Send(r) \/ ReadTable(r)
  <2>1. /\ pc[r] \in {"unsent", "read"} /\ pc'[r] \in {"read", "old", "write", "done"}
        /\ outcome' = outcome /\ log' = log
        /\ reply'[r] \in {reply[r], "invalid", "forbidden"}
        /\ pc'[r] = "old" => want[r].op \in {"update", "delete"}
        /\ pc'[r] = "write" => want[r].op = "add"
    BY <1>1, <1>2, <1>4
    DEF Send, ReadTable, Goto, Answer, Refusal, stored, memory, TypeOK, ControlOK, Want, Operations
  <2>2. Ordered(r)'
    BY <1>1, <1>3, <2>1 DEF Ordered
  <2>3. FoundOld(r)'
    BY <1>3, <2>1 DEF FoundOld
  <2>4. Tells(r)'
    BY <1>1, <2>1 DEF Tells, NotYet
  <2>5. QED
    BY <2>2, <2>3, <2>4 DEF Honest
<1>5. CASE ReadRows(r)
  <2>1. /\ pc[r] = "read" /\ want[r].op = "rows" /\ pc'[r] = "log" /\ reply' = reply
        /\ outcome'[r] = "successfully" /\ log' = log
    BY <1>2, <1>5 DEF ReadRows, Goto, Conclude, stored
  <2>2. Ordered(r)' /\ FoundOld(r)'
    BY <1>1, <1>3, <2>1 DEF Ordered, FoundOld
  <2>3. Recorded(r)'.op = "rows"
    BY <1>3, <2>1 DEF Recorded
  <2>4. Tells(r)'
    BY <1>1, <2>1, <2>3 DEF Tells, NotYet, Truthful
  <2>5. QED
    BY <2>2, <2>4 DEF Honest
<1>6. CASE ReadBack(r)
  <2>1. /\ pc[r] = "readBack" /\ pc'[r] = "log" /\ log' = log /\ reply' = reply
        /\ outcome'[r] \in {outcome[r], "unsuccessfully"}
    BY <1>2, <1>6 DEF ReadBack, Goto, Caught, Conclude, stored
  <2>2. Ordered(r)' /\ FoundOld(r)'
    BY <1>1, <1>3, <2>1 DEF Ordered, FoundOld
  <2>3. outcome'[r] = outcome[r] => Recorded(r)' = Recorded(r)
    BY <1>3, <2>1 DEF Recorded
  <2>4. Tells(r)'
    BY <1>1, <1>3, <2>1, <2>3 DEF Tells, NotYet, Truthful, Alone
  <2>5. QED
    BY <2>2, <2>4 DEF Honest
<1>7. CASE WriteLog(r)
  <2>1. /\ pc[r] = "log" /\ pc'[r] = "done" /\ outcome' = outcome /\ log'[r] \in {Recorded(r), log[r]}
        /\ reply'[r] \in {reply[r], "error", IF outcome[r] = "successfully" THEN "ok" ELSE "failed"}
    BY <1>2, <1>7 DEF WriteLog, Goto, Answer, memory
  <2>2. outcome[r] \in {"successfully", "unsuccessfully"}
    BY <1>1, <1>2, <2>1 DEF Owed, Outcomes
  <2>3. Ordered(r)' /\ FoundOld(r)'
    BY <1>1, <1>3, <2>1, <2>2 DEF Ordered, FoundOld
  <2>4. Recorded(r).status = outcome[r]
    BY DEF Recorded
  <2>5. Tells(r)'
    BY <1>1, <1>3, <2>1, <2>4 DEF Tells, NotYet, Truthful, Alone
  <2>6. QED
    BY <2>3, <2>5 DEF Honest
<1>8. CASE Timeout(r)
  <2>1. /\ UNCHANGED <<pc, using, outcome, log>> /\ reply'[r] \in {reply[r], "timeout"} /\ Active(r)
    BY <1>2, <1>8 DEF Timeout, Answer, stored, memory
  <2>2. Recorded(r)' = Recorded(r)
    BY <1>3, <2>1 DEF Recorded
  <2>3. Ordered(r)' /\ FoundOld(r)'
    BY <1>1, <1>3, <2>1 DEF Ordered, FoundOld, Alone
  <2>4. Tells(r)'
    BY <1>1, <1>3, <2>1, <2>2 DEF Tells, Truthful, Alone
  <2>5. QED
    BY <2>3, <2>4 DEF Honest
<1>9. CASE Fail(r) \/ Crash(r)
  <2>1. /\ Active(r) /\ log' = log
        /\ reply'[r] \in {reply[r], "error"}
        /\ \/ pc'[r] = "done" /\ outcome' = outcome
           \/ pc'[r] = "log" /\ outcome'[r] = "unsuccessfully" /\ reply' = reply
    BY <1>2, <1>9 DEF Fail, Crash, Goto, Answer, Caught, Conclude, stored, memory
  <2>2. Ordered(r)' /\ FoundOld(r)'
    BY <1>1, <1>3, <2>1 DEF Ordered, FoundOld, Active, Calls
  <2>3. log[r] = NoRecord
    BY <1>1, <2>1 DEF NotYet, Active, Calls
  <2>4. Tells(r)'
    BY <2>1, <2>3 DEF Tells
  <2>5. QED
    BY <2>2, <2>4 DEF Honest
<1>10. QED
  BY <1>4, <1>5, <1>6, <1>7, <1>8, <1>9

LEMMA OwnHonest ==
  ASSUME IInv, NEW r \in Requests, Honest(r),
         Send(r) \/ Step(r) \/ Timeout(r) \/ Fail(r) \/ Crash(r)
  PROVE  Honest(r)'
BY ReadOldHonest, ChangeHonest, RestHonest DEF Step

\* A step is one request's, or leaves the table and the requests alone.
LEMMA NextIsOne ==
  ASSUME [Next]_vars
  PROVE  \/ \E r \in Requests : Send(r) \/ Step(r) \/ Timeout(r) \/ Fail(r) \/ Crash(r)
         \/ \E s \in SettingsChoices \union {NoSettings} : ChangeSettings(s)
         \/ \E u \in Users : DeleteAccount(u)
         \/ UNCHANGED vars
BY DEF Next

LEMMA NextHonest ==
  ASSUME IInv, \A r \in Requests : Honest(r), [Next]_vars
  PROVE  \A q \in Requests : Honest(q)'
<1>0. TypeOK
  BY DEF IInv
<1>1. ASSUME NEW r \in Requests, Send(r) \/ Step(r) \/ Timeout(r) \/ Fail(r) \/ Crash(r)
      PROVE  \A q \in Requests : Honest(q)'
  <2>1. Honest(r)'
    BY <1>1, OwnHonest
  <2>2. ASSUME NEW q \in Requests \ {r} PROVE Honest(q)'
    <3>1. /\ Own(q)' = Own(q) /\ overtaken \subseteq overtaken'
          /\ Active(q) /\ q \notin overtaken' => table' = table
      BY <1>0, <1>1, StepOfOne
    <3>2. QED
      BY <3>1, HonestUntouched
  <2>3. QED
    BY <2>1, <2>2
<1>2. ASSUME \/ \E s \in SettingsChoices \union {NoSettings} : ChangeSettings(s)
             \/ \E u \in Users : DeleteAccount(u)
             \/ UNCHANGED vars,
             NEW q \in Requests
      PROVE  Honest(q)'
  <2>1. Own(q)' = Own(q) /\ overtaken' = overtaken /\ table' = table
    BY <1>2, Environment
  <2>2. QED
    BY <2>1, HonestUntouched
<1>3. QED
  BY <1>1, <1>2, NextIsOne

LEMMA InitHonest == Init => \A r \in Requests : Honest(r)
<1> SUFFICES ASSUME Init, NEW r \in Requests PROVE Honest(r)
  OBVIOUS
<1>1. pc[r] = "unsent" /\ outcome[r] = "unknown" /\ reply[r] = "none" /\ log[r] = NoRecord
  BY DEF Init
<1>2. QED
  BY <1>1 DEF Honest, Ordered, FoundOld, Tells

LEMMA HonestHolds == Spec => [](\A r \in Requests : Honest(r))
<1> DEFINE H == \A r \in Requests : Honest(r)
<1>1. Init => H
  BY InitHonest
<1>2. IInv /\ H /\ [Next]_vars => H'
  BY NextHonest
<1> HIDE DEF H
<1>3. Spec => []H
  BY <1>1, <1>2, Inductive, PTL DEF Spec
<1>4. QED
  BY <1>3 DEF H

(***************************************************************************)
(* A record of success, of a request nothing overtook, tells the change,   *)
(* whatever the settings and whichever faults strike.                      *)
(***************************************************************************)
THEOREM RecordsTellTheChange == Spec => []RecordTellsTheChange
<1>1. (\A r \in Requests : Honest(r)) => RecordTellsTheChange
  BY DEF Honest, Tells, Truthful, RecordTellsTheChange
<1>2. QED
  BY <1>1, HonestHolds, PTL

-----------------------------------------------------------------------------
(***************************************************************************)
(* What the client is told.                                                *)
(***************************************************************************)
\* The columns that are shown, of those that are listed and excluded.
Listed(list, excluded) ==
  LET fields == (IF list = {} THEN Columns ELSE list) \ excluded
  IN  IF fields = {} THEN Columns ELSE fields

LEMMA ListedLess ==
  ASSUME NEW L \in SUBSET Columns, NEW E
  PROVE  Listed(L \ E, E) \subseteq Listed(L, E)
<1>1. CASE L = {}
  <2>1. L \ E = L
    BY <1>1
  <2>2. QED
    BY <2>1
<1>2. CASE L # {} /\ L \ E = {}
  <2>1. Listed(L, E) = Columns
    BY <1>2 DEF Listed
  <2>2. QED
    BY <1>2, <2>1 DEF Listed
<1>3. CASE L # {} /\ L \ E # {}
  <2>1. (L \ E) \ E = L \ E
    OBVIOUS
  <2>2. QED
    BY <1>3, <2>1 DEF Listed
<1>4. QED
  BY <1>1, <1>2, <1>3

LEMMA SplicedFields ==
  ASSUME NEW s \in Settings \union {NoSettings}
  PROVE  /\ AvailableFields(Spliced(s)) \subseteq AvailableFields(s)
         /\ Passwords(Spliced(s)) = Passwords(s)
<1>1. CASE s = NoSettings
  BY <1>1 DEF Spliced
<1>2. CASE s # NoSettings
  <2>1. /\ s \in Settings /\ s.excluded_fields \subseteq Columns
        /\ Spliced(s) = [s EXCEPT !.list_fields = @ \ s.excluded_fields]
    BY <1>2 DEF Spliced, Settings
  <2>2. /\ Spliced(s) \in Settings /\ Spliced(s).list_fields = s.list_fields \ s.excluded_fields
        /\ Spliced(s).excluded_fields = s.excluded_fields
        /\ Spliced(s).passwords = s.passwords
    BY <2>1 DEF Settings
  <2>3. Spliced(s) # NoSettings
    BY <2>2, RowChangesAssumption
  <2>4. Passwords(Spliced(s)) = Passwords(s)
    BY <1>2, <2>2, <2>3 DEF Passwords
  <2>5. /\ s.list_fields \subseteq Columns
        /\ AvailableFields(s) = Listed(s.list_fields, s.excluded_fields)
    BY <1>2, <2>1 DEF AvailableFields, Settings, Listed
  <2>6. AvailableFields(Spliced(s)) = Listed(s.list_fields \ s.excluded_fields, s.excluded_fields)
    BY <2>2, <2>3 DEF AvailableFields, Listed
  <2>7. QED
    BY <2>4, <2>5, <2>6, ListedLess
<1>3. QED
  BY <1>1, <1>2

LEMMA NextClear ==
  ASSUME KeysInTheClear, TypeOK, Clear, [Next]_vars
  PROVE  Clear'
<1>0. Passwords(settings) \cap Keys = {}
  BY DEF KeysInTheClear, Clear, Passwords
<1>1. ASSUME NEW r \in Requests, Send(r) \/ Step(r) \/ Timeout(r) \/ Fail(r) \/ Crash(r)
      PROVE  Clear'
  <2>1. settings' = settings
    BY <1>1, StepOfOne
  <2>2. ASSUME NEW q \in Requests \ {r} PROVE Passwords(using'[q]) \cap Keys = {}
    BY <1>1, StepOfOne DEF Own, Clear
  <2>3. using'[r] \in {using[r], settings, Spliced(using[r])}
    BY <1>1 DEF Send, Step, ReadTable, ReadRows, ReadOld, AddRow, UpdateRow, DeleteRow, ReadBack,
                WriteLog, Timeout, Fail, Crash, memory, TypeOK, MemoryOK
  <2>4. using[r] \in Settings \union {NoSettings}
    BY DEF TypeOK, MemoryOK
  <2>5. Passwords(using'[r]) \cap Keys = {}
    BY <1>0, <2>3, <2>4, SplicedFields DEF Clear
  <2>6. QED
    BY <2>1, <2>2, <2>5 DEF Clear
<1>2. CASE \/ \E s \in SettingsChoices \union {NoSettings} : ChangeSettings(s)
           \/ \E u \in Users : DeleteAccount(u)
           \/ UNCHANGED vars
  BY <1>2, Environment DEF Clear
<1>3. QED
  BY <1>1, <1>2, NextIsOne

\* The key the row is read again by.
KeyOf(copy) == Only(copy, Keys \cap DOMAIN copy)

LEMMA ReadOldCorrect ==
  ASSUME IInv, NEW r \in Requests, Honest(r), Honest(r)', Correct(r), ReadOld(r)
  PROVE  Correct(r)'
<1>1. /\ TypeOK /\ pc[r] = "old" /\ Ordered(r) /\ Ordered(r)'
  BY DEF IInv, ReadOld, Honest
<1>2. /\ pc'[r] \in {"write", "done"} /\ outcome' = outcome /\ want' = want /\ table' = table
      /\ reply'[r] \in {reply[r], "notFound"}
  BY <1>1 DEF ReadOld, Goto, Answer, stored, history, TypeOK, ControlOK
<1>3. outcome'[r] = "unknown" /\ reply'[r] # "ok"
  BY <1>1, <1>2 DEF Ordered
<1>4. BackOK(r)' /\ ShownOK(r)' /\ FailedOK(r)'
  BY <1>2, <1>3 DEF BackOK, ShownOK, FailedOK
<1>5. ASSUME pc'[r] = "write", want[r].op = "update"
      PROVE  /\ \A row \in Matching(table, want[r].key) : Agree(future'[r], Merge(row, want[r].body))
             /\ KeyIsKnown(r)' => DOMAIN future'[r] = Keys
  <2> DEFINE F == AvailableFields(using[r])
  <2>1. PICK full \in table :
           /\ Matching(table, want[r].key) = {full}
           /\ LET copy == Merge(Only(full, F), want[r].body)
              IN  future'[r] = Only(copy, Keys \cap DOMAIN copy)
    BY <1>1, <1>5, RowWasRead
  <2> DEFINE body == want[r].body
  <2>2. /\ Agree(future'[r], Merge(full, body))
        /\ DOMAIN future'[r] = Keys \cap (F \union DOMAIN body)
    <3>1. future'[r] = KeyOf(Merge(Only(full, F), body))
      BY <2>1 DEF KeyOf
    <3> HIDE DEF body, F
    <3>2. /\ Agree(KeyOf(Merge(Only(full, F), body)), Merge(full, body))
          /\ DOMAIN KeyOf(Merge(Only(full, F), body)) = Keys \cap (F \union DOMAIN body)
      BY DEF KeyOf, Agree, Only, Merge
    <3>3. QED
      BY <3>1, <3>2
  <2>3. using'[r] = Spliced(using[r])
    BY <1>1, <1>5 DEF ReadOld, Goto, TypeOK, MemoryOK, ControlOK
  <2>4. AvailableFields(using'[r]) \subseteq F
    <3>1. using[r] \in Settings \union {NoSettings}
      BY <1>1 DEF TypeOK, MemoryOK
    <3>2. QED
      BY <2>3, <3>1, SplicedFields
  <2>5. KeyIsKnown(r)' => Keys \subseteq AvailableFields(using'[r]) \union DOMAIN want[r].body
    BY <1>2 DEF KeyIsKnown
  <2> HIDE DEF F
  <2>6. KeyIsKnown(r)' => DOMAIN future'[r] = Keys
    BY <2>2, <2>4, <2>5
  <2>7. QED
    BY <2>1, <2>2, <2>6
<1>6. FutureOK(r)'
  BY <1>2, <1>5 DEF FutureOK
<1>7. QED
  BY <1>4, <1>6 DEF Correct

LEMMA StatementCorrect ==
  ASSUME IInv, NEW r \in Requests, Honest(r), Honest(r)', pc[r] = "write",
         NEW from, NEW to, NEW next \in {"readBack", "log"}, Statement(r, from, to, next),
         UNCHANGED <<want, using, reply>>,
         next = "log" => want[r].op = "delete",
         next = "readBack" /\ Alone(r) =>
           /\ to # {} /\ \A x, y \in to : x = y
           /\ \A x \in to : Agree(future'[r], x)
           /\ KeyIsKnown(r) => DOMAIN future'[r] = Keys
  PROVE  Correct(r)'
<1>1. /\ TypeOK /\ gone[r] = {} /\ came[r] = {} /\ Ordered(r) /\ Ordered(r)'
  BY DEF IInv, Progress, NotYet, Honest
<1>2. /\ Alone(r)' => Alone(r)
      /\ \/ /\ gone'[r] = from /\ came'[r] = to /\ table' = (table \ from) \union to
            /\ \/ outcome'[r] = "successfully" /\ pc'[r] = next
               \/ outcome'[r] = "unsuccessfully" /\ pc'[r] = "log" /\ r \in hit'
         \/ /\ gone' = gone /\ came' = came
            /\ outcome'[r] = "unsuccessfully" /\ pc'[r] = "log"
  <2>1. Effect(r, from, to, next)
    BY <1>1, StatementEffect
  <2>2. QED
    BY <2>1 DEF Effect
<1>3. reply'[r] # "ok" /\ KeyIsKnown(r)' = KeyIsKnown(r)
  BY <1>1 DEF Ordered, KeyIsKnown
<1>4. FutureOK(r)'
  BY <1>2 DEF FutureOK
<1>5. BackOK(r)'
  BY <1>2, <1>3 DEF BackOK
<1>6. ShownOK(r)'
  BY <1>2, <1>3 DEF ShownOK
<1>7. FailedOK(r)'
  BY <1>1, <1>2 DEF FailedOK, Changed
<1>8. QED
  BY <1>4, <1>5, <1>6, <1>7 DEF Correct

LEMMA ChangeCorrect ==
  ASSUME IInv, Clear, NEW r \in Requests, Honest(r), Honest(r)', Correct(r),
         AddRow(r) \/ UpdateRow(r) \/ DeleteRow(r)
  PROVE  Correct(r)'
<1> DEFINE body == Hashed(want[r].body, using[r])
           rows == Matching(table, want[r].key)
           new  == {Merge(row, body) : row \in rows}
<1>1. /\ pc[r] = "write" /\ UNCHANGED <<want, using, reply>> /\ FutureOK(r) /\ FoundOld(r) /\ TypeOK
      /\ Admitted(r)
  BY DEF AddRow, UpdateRow, DeleteRow, Correct, Honest, IInv, Progress
<1>2. CASE AddRow(r)
  <2>1. PICK row \in Rows : /\ Statement(r, {}, {row}, "readBack")
                            /\ future' = [future EXCEPT ![r] = Only(row, Keys)]
    BY <1>2 DEF AddRow
  <2>2. future'[r] = Only(row, Keys)
    BY <1>1, <2>1 DEF TypeOK, MemoryOK
  <2>3. Agree(future'[r], row) /\ DOMAIN future'[r] = Keys
    BY <2>2 DEF Agree, Only
  <2>4. QED
    BY <1>1, <2>1, <2>3, StatementCorrect
<1>3. CASE UpdateRow(r)
  <2>1. Statement(r, rows, new, "readBack") /\ want[r].op = "update" /\ future' = future
    BY <1>3 DEF UpdateRow
  <2>2. Alone(r) => rows # {}
    BY <1>1, <2>1 DEF FoundOld
  <2>3. \A a, b \in rows : a = b
    BY <1>1, <2>1, WholeKeyFindsOne DEF Admitted, TypeOK, StoredOK
  <2>4. DOMAIN future[r] \subseteq Keys
    BY <1>1, PartialElim DEF TypeOK, MemoryOK
  <2>5. DOMAIN body = DOMAIN want[r].body
        /\ \A c \in DOMAIN body \cap Keys : body[c] = want[r].body[c]
    BY DEF Hashed, Clear
  <2> HIDE DEF body, rows
  <2>6. ASSUME NEW row \in rows, Agree(future[r], Merge(row, want[r].body))
        PROVE  Agree(future[r], Merge(row, body))
    BY <2>4, <2>5, <2>6 DEF Agree, Merge
  <2>7. Alone(r) => \A row \in rows : Agree(future[r], Merge(row, want[r].body))
    BY <1>1, <2>1 DEF FutureOK, rows
  <2>8. Alone(r) /\ KeyIsKnown(r) => DOMAIN future[r] = Keys
    BY <1>1, <2>1 DEF FutureOK
  <2>9. Alone(r) => new # {} /\ (\A x, y \in new : x = y) /\ \A x \in new : Agree(future[r], x)
    BY <2>2, <2>3, <2>6, <2>7
  <2> HIDE DEF new
  <2>10. QED
    BY <1>1, <2>1, <2>8, <2>9, StatementCorrect
<1>4. CASE DeleteRow(r)
  <2>1. Statement(r, rows, {}, "log") /\ want[r].op = "delete"
    BY <1>4 DEF DeleteRow
  <2> HIDE DEF rows
  <2>2. QED
    BY <1>1, <2>1, StatementCorrect
<1>5. QED
  BY <1>2, <1>3, <1>4

(***************************************************************************)
(* The second read finds the row that was made.                            *)
(***************************************************************************)
LEMMA ReadBackCorrect ==
  ASSUME IInv, NEW r \in Requests, Honest(r), Honest(r)', Correct(r), ReadBack(r)
  PROVE  Correct(r)'
<1> DEFINE found == Matching(table, future[r])
           F == AvailableFields(using[r])
           row(full) == Hidden(Only(full, F), using[r])
<1>1. /\ TypeOK /\ pc[r] = "readBack" /\ Ordered(r) /\ BackOK(r) /\ Owed(r) /\ FailedOK(r)
  BY DEF IInv, Progress, ReadBack, Honest, Correct
<1>2. /\ UNCHANGED <<table, want, using, future, reply, gone, came, overtaken, hit>>
      /\ pc'[r] = "log"
      /\ outcome[r] = "successfully" /\ reply[r] # "ok"
  BY <1>1 DEF ReadBack, Goto, Caught, stored, history, TypeOK, ControlOK, Owed, Ordered
<1>3. FutureOK(r)' /\ BackOK(r)'
  BY <1>2 DEF FutureOK, BackOK
<1>4. ASSUME Alone(r)
      PROVE  /\ came[r] # {} /\ \A x, y \in came[r] : x = y
             /\ \A x \in came[r] : x \in table /\ x \in Rows /\ Agree(future[r], x)
             /\ KeyIsKnown(r) => DOMAIN future[r] = Keys
  BY <1>1, <1>4 DEF BackOK, TypeOK, StoredOK
<1>5. DOMAIN future[r] \subseteq Keys
  BY <1>1, PartialElim DEF TypeOK, MemoryOK
<1>6. Alone(r) => \A x \in came[r] : x \in found
  <2>1. SUFFICES ASSUME Alone(r), NEW x \in came[r] PROVE x \in found
    OBVIOUS
  <2>2. DOMAIN x = Columns /\ x \in table
    BY <1>4, <2>1, RowIsPartial
  <2>3. QED
    BY <1>4, <1>5, <2>1, <2>2, RowChangesAssumption DEF Matching, Agree
<1>7. CASE outcome'[r] = "unsuccessfully"
  <2>1. DOMAIN future[r] # Keys \/ found = {}
    BY <1>2, <1>7 DEF ReadBack
  <2> HIDE DEF found
  <2>2. Alone(r) => ~KeyIsKnown(r)
    BY <1>4, <1>6, <2>1
  <2>3. FailedOK(r)'
    BY <1>2, <2>2 DEF FailedOK, Alone, KeyIsKnown
  <2>4. ShownOK(r)'
    BY <1>2, <1>7 DEF ShownOK
  <2>5. QED
    BY <1>3, <2>3, <2>4 DEF Correct
<1>8. CASE outcome'[r] # "unsuccessfully"
  <2>1. /\ DOMAIN future[r] = Keys
        /\ IF found = {} THEN UNCHANGED shown
           ELSE \E full \in found : shown' = [shown EXCEPT ![r] = row(full)]
    BY <1>1, <1>8 DEF ReadBack, Caught, Conclude, TypeOK, ControlOK
  <2>2. FailedOK(r)'
    BY <1>8 DEF FailedOK
  <2>3. ASSUME Alone(r) PROVE ShowsTheRow(r)'
    <3>1. UniqueKeys(table) /\ Keys \subseteq DOMAIN future[r]
      BY <1>1, <2>1 DEF TypeOK, StoredOK
    <3>2. \A a, b \in found : a = b
      BY <3>1, WholeKeyFindsOne
    <3>3. F \subseteq Columns
      BY <1>1, FieldsAreColumns DEF TypeOK, MemoryOK
    <3> HIDE DEF found, F, row
    <3>4. PICK full \in found : shown' = [shown EXCEPT ![r] = row(full)]
      BY <1>4, <1>6, <2>1, <2>3
    <3>5. \A x \in came[r] : x = full
      BY <1>6, <2>3, <3>2
    <3>6. shown'[r] = row(full)
      BY <1>1, <3>4 DEF TypeOK, MemoryOK
    <3>7. full \in Rows
      BY <1>1 DEF found, Matching, TypeOK, StoredOK
    <3>8. row(full) # NoRow
      BY <3>3, <3>7, HiddenTyped, RowChangesAssumption DEF row
    <3>9. DOMAIN row(full) = F
      BY DEF row, Hidden, Only
    <3>10. Agree(Hidden(Only(full, F), using[r]), row(full))
      BY DEF row, Agree
    <3>11. QED
      BY <1>2, <3>5, <3>6, <3>8, <3>9, <3>10 DEF ShowsTheRow
  <2>4. ShownOK(r)'
    BY <1>2, <2>3 DEF ShownOK, Alone
  <2>5. QED
    BY <1>3, <2>2, <2>4 DEF Correct
<1>9. QED
  BY <1>7, <1>8

LEMMA RestCorrect ==
  ASSUME IInv, NEW r \in Requests, Honest(r), Honest(r)', Correct(r),
         \/ Send(r) \/ ReadTable(r) \/ ReadRows(r) \/ WriteLog(r)
         \/ Timeout(r) \/ Fail(r) \/ Crash(r)
  PROVE  Correct(r)'
<1>1. /\ TypeOK /\ NotYet(r) /\ Owed(r) /\ Ordered(r) /\ Ordered(r)'
      /\ FutureOK(r) /\ BackOK(r) /\ ShownOK(r) /\ FailedOK(r)
  BY DEF IInv, Progress, Honest, Correct
<1>2. /\ pc \in [Requests -> Calls \union {"unsent", "done"}]
      /\ outcome \in [Requests -> Outcomes] /\ reply \in [Requests -> Replies]
  BY <1>1 DEF TypeOK, ControlOK
<1>3. /\ UNCHANGED <<table, want, old, future, shown, gone, came, overtaken>>
      /\ pc[r] \notin {"read"} => using' = using
  BY DEF Send, ReadTable, ReadRows, WriteLog, Timeout, Fail, Crash, stored, memory, history
<1>4. CASE Send(r) \/ ReadTable(r) \/ ReadRows(r)
  <2>1. /\ pc[r] \in {"unsent", "read"} /\ pc'[r] \in {"read", "old", "write", "done", "log"}
        /\ pc'[r] = "log" => want[r].op = "rows"
        /\ pc'[r] = "write" => want[r].op = "add"
        /\ reply'[r] \in {reply[r], "invalid", "forbidden"}
    BY <1>1, <1>2, <1>4
    DEF Send, ReadTable, ReadRows, Goto, Answer, Refusal, memory, TypeOK, ControlOK, Want, Operations
  <2>2. FutureOK(r)' /\ BackOK(r)' /\ ShownOK(r)'
    BY <1>1, <1>3, <2>1 DEF FutureOK, BackOK, ShownOK, Ordered
  <2>3. FailedOK(r)'
    BY <1>1, <1>3, <2>1 DEF FailedOK, NotYet, Changed
  <2>4. QED
    BY <2>2, <2>3 DEF Correct
<1>5. CASE WriteLog(r)
  <2>1. /\ pc[r] = "log" /\ pc'[r] = "done" /\ outcome' = outcome /\ hit' = hit
        /\ reply'[r] \in {reply[r], "error", IF outcome[r] = "successfully" THEN "ok" ELSE "failed"}
    BY <1>2, <1>5 DEF WriteLog, Goto, Answer, memory
  <2>2. FutureOK(r)' /\ BackOK(r)'
    BY <2>1 DEF FutureOK, BackOK
  <2>3. reply'[r] = "ok" => outcome[r] = "successfully"
    BY <1>1, <2>1 DEF Ordered
  <2>4. ShowsTheRow(r)' = ShowsTheRow(r)
    BY <1>3, <2>1 DEF ShowsTheRow
  <2>5. ShownOK(r)'
    BY <1>1, <1>3, <2>1, <2>3, <2>4 DEF ShownOK, Alone
  <2>6. FailedOK(r)'
    BY <1>1, <1>3, <2>1 DEF FailedOK, Alone, KeyIsKnown, Changed
  <2>7. QED
    BY <2>2, <2>5, <2>6 DEF Correct
<1>6. CASE Timeout(r)
  <2>1. /\ UNCHANGED <<pc, using, outcome, hit>> /\ reply'[r] \in {reply[r], "timeout"}
    BY <1>2, <1>6 DEF Timeout, Answer, stored, memory, history
  <2>2. KeyIsKnown(r)' = KeyIsKnown(r) /\ ShowsTheRow(r)' = ShowsTheRow(r)
    BY <1>3, <2>1 DEF KeyIsKnown, ShowsTheRow
  <2>3. FutureOK(r)' /\ BackOK(r)'
    BY <1>1, <1>3, <2>1, <2>2 DEF FutureOK, BackOK, Alone
  <2>4. ShownOK(r)' /\ FailedOK(r)'
    BY <1>1, <1>3, <2>1, <2>2 DEF ShownOK, FailedOK, Alone, Changed
  <2>5. QED
    BY <2>3, <2>4 DEF Correct
<1>7. CASE Fail(r) \/ Crash(r)
  <2>1. /\ Active(r) /\ r \in hit'
        /\ reply'[r] \in {reply[r], "error"}
        /\ \/ pc'[r] = "done"
           \/ pc'[r] = "log" /\ outcome'[r] = "unsuccessfully"
    BY <1>2, <1>7 DEF Fail, Crash, Strike, Goto, Answer, Caught, Conclude
  <2>2. FutureOK(r)' /\ BackOK(r)' /\ FailedOK(r)'
    BY <2>1 DEF FutureOK, BackOK, FailedOK
  <2>3. ShownOK(r)'
    BY <1>1, <2>1 DEF ShownOK, Ordered, Active, Calls
  <2>4. QED
    BY <2>2, <2>3 DEF Correct
<1>8. QED
  BY <1>4, <1>5, <1>6, <1>7

LEMMA OwnCorrect ==
  ASSUME IInv, Clear, NEW r \in Requests, Honest(r), Honest(r)', Correct(r),
         Send(r) \/ Step(r) \/ Timeout(r) \/ Fail(r) \/ Crash(r)
  PROVE  Correct(r)'
BY ReadOldCorrect, ChangeCorrect, ReadBackCorrect, RestCorrect DEF Step

LEMMA NextCorrect ==
  ASSUME IInv, Clear, \A r \in Requests : Honest(r) /\ Correct(r), [Next]_vars
  PROVE  \A q \in Requests : Correct(q)'
<1>0. TypeOK /\ \A q \in Requests : Honest(q)'
  BY NextHonest DEF IInv
<1>1. ASSUME NEW r \in Requests, Send(r) \/ Step(r) \/ Timeout(r) \/ Fail(r) \/ Crash(r)
      PROVE  \A q \in Requests : Correct(q)'
  <2>1. Correct(r)'
    BY <1>0, <1>1, OwnCorrect
  <2>2. ASSUME NEW q \in Requests \ {r} PROVE Correct(q)'
    <3>1. /\ Own(q)' = Own(q) /\ overtaken \subseteq overtaken' /\ hit \subseteq hit'
          /\ Active(q) /\ q \notin overtaken' => table' = table
      BY <1>0, <1>1, StepOfOne
    <3>2. QED
      BY <3>1, CorrectUntouched
  <2>3. QED
    BY <2>1, <2>2
<1>2. ASSUME \/ \E s \in SettingsChoices \union {NoSettings} : ChangeSettings(s)
             \/ \E u \in Users : DeleteAccount(u)
             \/ UNCHANGED vars,
             NEW q \in Requests
      PROVE  Correct(q)'
  <2>1. Own(q)' = Own(q) /\ overtaken' = overtaken /\ hit' = hit /\ table' = table
    BY <1>2, Environment
  <2>2. QED
    BY <2>1, CorrectUntouched
<1>3. QED
  BY <1>1, <1>2, NextIsOne

LEMMA InitCorrect == Init => Clear /\ \A r \in Requests : Correct(r)
<1> SUFFICES ASSUME Init PROVE Clear /\ \A r \in Requests : Correct(r)
  OBVIOUS
<1>1. Clear
  BY DEF Init, Clear, Passwords
<1>2. ASSUME NEW r \in Requests PROVE Correct(r)
  <2>1. pc[r] = "unsent" /\ outcome[r] = "unknown" /\ reply[r] = "none"
    BY DEF Init
  <2>2. QED
    BY <2>1 DEF Correct, FutureOK, BackOK, ShownOK, FailedOK
<1>3. QED
  BY <1>1, <1>2

(***************************************************************************)
(* The row a client is answered is the row it made, and a change answered  *)
(* as failed did not take effect - where nothing overtook the request and  *)
(* no column of the key is a password: UpdateRow hashes the body after the *)
(* key of the second read was taken from it.                               *)
(***************************************************************************)
THEOREM AnswersAlwaysTrue == KeysInTheClear => (Spec => []AnswersAreTrue)
<1> SUFFICES ASSUME KeysInTheClear PROVE Spec => []AnswersAreTrue
  OBVIOUS
<1> DEFINE H == \A r \in Requests : Honest(r)
           C == Clear /\ \A r \in Requests : Correct(r)
<1>1. Init => C
  BY InitCorrect
<1>2. IInv /\ H /\ C /\ [Next]_vars => C'
  BY NextClear, NextCorrect DEF IInv
<1>3. H /\ C => AnswersAreTrue
  <2> SUFFICES ASSUME H, C PROVE AnswersAreTrue
    OBVIOUS
  <2>1. AnsweredIsStored
    BY DEF AnsweredIsStored, Correct, ShownOK, ShowsTheRow
  <2>2. FailedMeansUnchanged
    BY DEF FailedMeansUnchanged, Correct, FailedOK, Honest, Ordered
  <2>3. QED
    BY <2>1, <2>2 DEF AnswersAreTrue
<1>4. Spec => []H
  BY HonestHolds
<1> HIDE DEF H, C
<1>5. QED
  BY <1>1, <1>2, <1>3, <1>4, Inductive, PTL DEF Spec
=============================================================================
