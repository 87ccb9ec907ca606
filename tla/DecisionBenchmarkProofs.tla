---------------------- MODULE DecisionBenchmarkProofs ----------------------
(* Theorems about the processes that share the results database, for any    *)
(* task lists, answers, concurrency and number of pipelines.                *)
EXTENDS DecisionBenchmark, SetLemmas, SequenceTheorems

Shapes ==
    /\ tasks \in TaskLists
    /\ at \in [Ids -> {"queued", "calling", "inserting", "committing",
                       "done", "failed", "cancelled"}]
    /\ pipeline \in [Pipelines -> {"running", "widening", "inserting", "committing",
                                   "saved", "duplicate", "locked out"}]

Widths == columns \in {0, 8, 9}

(* A pipeline that has got past adding the column, or was kept from it.     *)
Past(p) == pipeline[p] \in {"inserting", "committing", "saved", "locked out"}

(* The strengthening: the column that a pipeline is about to add, and finds  *)
(* there, was added by another one.                                         *)
WideningIsBeaten ==
    \A p \in Pipelines : pipeline[p] = "widening" /\ columns = 9 =>
        \E q \in Pipelines \ {p} : Past(q)

IInv == Shapes /\ Widths /\ WritersApart /\ WideningIsBeaten

(* A task is a positive number, a pipeline is none, and nobody is neither.  *)
LEMMA Apart ==
  ASSUME tasks \in TaskLists
  PROVE  /\ \A i \in Ids : i # Nobody /\ i \notin Pipelines
         /\ \A p \in Pipelines : p # Nobody /\ p \notin Ids
<1>1. tasks \in Seq(Task)
  BY BenchmarkAssumption
<1>2. Ids \subseteq Nat \ {0}
  BY <1>1 DEF Ids
<1> QED
  BY <1>2, PipelinesAssumption DEF Nobody

-----------------------------------------------------------------------------
LEMMA InitIInv ==
  Init => IInv
<1> SUFFICES ASSUME Init PROVE IInv
  OBVIOUS
<1>1. Shapes
  BY DEF Init, Shapes
<1>2. LockHeldByWriter
  BY <1>1, Apart DEF Init, LockHeldByWriter, Shapes
<1>3. Widths /\ DuplicateColumnNeedsRival /\ WideningIsBeaten
  BY DEF Init, Widths, DuplicateColumnNeedsRival, WideningIsBeaten
<1> QED
  BY <1>1, <1>2, <1>3 DEF IInv, WritersApart

(* A step of the runner moves one task, and the lock only to or from it.    *)
LEMMA TaskStep ==
  ASSUME IInv, NEW i \in Ids, RunTask(i)
  PROVE  Shapes' /\ LockHeldByWriter'
<1> USE DEF IInv, Shapes
<1>1. UNCHANGED <<tasks, pipeline, columns>> /\ Ids' = Ids
  BY DEF RunTask, Enter, Answer, Raise, Insert, Commit, databaseVars, Ids
<1>2. LockHeldByWriter
  BY DEF WritersApart
<1>3. CASE Enter(i)
  BY <1>1, <1>2, <1>3 DEF Enter, databaseVars, LockHeldByWriter
<1>4. CASE Answer(i)
  <2>1. /\ writer' = writer
        /\ at[i] = "calling"
        /\ \/ at' = [at EXCEPT ![i] = "failed"]
           \/ at' = [at EXCEPT ![i] = "inserting"]
    BY <1>4 DEF Answer, Raise, databaseVars
  <2> QED
    BY <1>1, <1>2, <2>1 DEF LockHeldByWriter
<1>5. CASE Insert(i)
  <2>1. at[i] = "inserting"
    BY <1>5 DEF Insert
  <2>2. CASE columns = 8 /\ writer = Nobody
    <3>1. writer' = i /\ at' = [at EXCEPT ![i] = "committing"]
      BY <1>5, <2>2 DEF Insert
    <3>2. \A j \in Ids : at[j] # "committing"
      BY <1>2, <2>2, Apart DEF LockHeldByWriter
    <3>3. \A p \in Pipelines : pipeline[p] # "committing"
      BY <1>2, <2>2, Apart DEF LockHeldByWriter
    <3> QED
      BY <1>1, <3>1, <3>2, <3>3, Apart DEF LockHeldByWriter
  <2>3. CASE ~(columns = 8 /\ writer = Nobody)
    <3>1. writer' = writer /\ at' = [at EXCEPT ![i] = "failed"]
      BY <1>5, <2>3 DEF Insert, Raise
    <3> QED
      BY <1>1, <1>2, <2>1, <3>1 DEF LockHeldByWriter
  <2> QED
    BY <2>2, <2>3
<1>6. CASE Commit(i)
  <2>1. /\ at[i] = "committing" /\ writer' = Nobody
        /\ at' = [at EXCEPT ![i] = "done"]
    BY <1>6 DEF Commit
  <2>2. writer = i
    BY <1>2, <2>1 DEF LockHeldByWriter
  <2> QED
    BY <1>1, <1>2, <2>1, <2>2, Apart DEF LockHeldByWriter
<1> QED
  BY <1>3, <1>4, <1>5, <1>6 DEF RunTask

(* Cancelling what is left takes the lock from the tasks, not from the      *)
(* pipelines.                                                               *)
LEMMA CancelStep ==
  ASSUME IInv, CancelRest
  PROVE  Shapes' /\ LockHeldByWriter'
<1> USE DEF IInv, Shapes
<1>1. UNCHANGED <<tasks, pipeline>> /\ Ids' = Ids
  BY DEF CancelRest, Ids
<1>2. at' = [j \in Ids |-> IF Ended(j) THEN at[j] ELSE "cancelled"]
  BY DEF CancelRest
<1>3. writer' = IF writer \in Ids THEN Nobody ELSE writer
  BY DEF CancelRest
<1>4. \A j \in Ids : at'[j] # "committing"
  BY <1>2 DEF Ended
<1>5. \A j \in Ids : writer' # j
  BY <1>3, Apart
<1>6. \A p \in Pipelines : (writer' = p) <=> (writer = p)
  BY <1>3, Apart
<1>7. LockHeldByWriter
  BY DEF WritersApart
<1>8. LockHeldByWriter'
  BY <1>1, <1>4, <1>5, <1>6, <1>7 DEF LockHeldByWriter
<1>9. Shapes'
  BY <1>1, <1>2 DEF Ended
<1> QED
  BY <1>8, <1>9

(* The runner never widens the table, and moves no pipeline.                *)
LEMMA RunnerIInv ==
  ASSUME IInv, RunnerStep
  PROVE  IInv'
<1> USE DEF IInv
<1>1. pipeline' = pipeline /\ (columns' = columns \/ (columns = 0 /\ columns' = 8))
  BY DEF RunnerStep, Start, Report, CancelRest, RunTask, Enter, Answer, Raise, Insert,
         Commit, databaseVars
<1>2. Widths' /\ DuplicateColumnNeedsRival'
  BY <1>1 DEF Widths, WritersApart, DuplicateColumnNeedsRival
<1>3. WideningIsBeaten'
  <2>1. columns' = 9 => columns = 9
    BY <1>1 DEF Widths
  <2> QED
    BY <1>1, <2>1 DEF WideningIsBeaten, Past
<1>4. CASE Start \/ Report
  <2>1. UNCHANGED <<tasks, at, pipeline, writer>>
    BY <1>4 DEF Start, Report, databaseVars
  <2>2. Shapes' /\ LockHeldByWriter'
    BY <2>1 DEF Shapes, WritersApart, LockHeldByWriter, Ids
  <2> QED
    BY <1>2, <1>3, <2>2 DEF WritersApart
<1>5. CASE CancelRest
  BY <1>2, <1>3, <1>5, CancelStep DEF WritersApart
<1>6. CASE \E i \in Ids : RunTask(i)
  BY <1>2, <1>3, <1>6, TaskStep DEF WritersApart
<1> QED
  BY <1>4, <1>5, <1>6 DEF RunnerStep

-----------------------------------------------------------------------------
(* A step of a pipeline moves it alone, and the lock only to or from it.    *)
LEMMA PipelineLock ==
  ASSUME IInv, NEW p \in Pipelines, PipelineStep(p)
  PROVE  Shapes' /\ LockHeldByWriter'
<1> USE DEF IInv, Shapes, MovesTo
<1>1. UNCHANGED <<tasks, at>> /\ Ids' = Ids
  BY DEF PipelineStep, ReadColumns, Widen, PipelineInsert, PipelineCommit, runnerVars, Ids
<1>2. LockHeldByWriter
  BY DEF WritersApart
<1>3. CASE ReadColumns(p) \/ Widen(p)
  <2>1. writer' = writer /\ pipeline[p] # "committing"
    BY <1>3 DEF ReadColumns, Widen
  <2>2. \E place \in {"inserting", "widening", "locked out", "duplicate"} :
           pipeline' = [pipeline EXCEPT ![p] = place]
    BY <1>3 DEF ReadColumns, Widen
  <2> QED
    BY <1>1, <1>2, <2>1, <2>2 DEF LockHeldByWriter
<1>4. CASE PipelineInsert(p)
  <2>1. pipeline[p] = "inserting"
    BY <1>4 DEF PipelineInsert
  <2>2. CASE writer = Nobody
    <3>1. writer' = p /\ pipeline' = [pipeline EXCEPT ![p] = "committing"]
      BY <1>4, <2>2 DEF PipelineInsert
    <3>2. /\ \A j \in Ids : at[j] # "committing"
          /\ \A q \in Pipelines : pipeline[q] # "committing"
      BY <1>2, <2>2, Apart DEF LockHeldByWriter
    <3> QED
      BY <1>1, <3>1, <3>2, Apart DEF LockHeldByWriter
  <2>3. CASE writer # Nobody
    <3>1. writer' = writer /\ pipeline' = [pipeline EXCEPT ![p] = "locked out"]
      BY <1>4, <2>3 DEF PipelineInsert
    <3> QED
      BY <1>1, <1>2, <2>1, <3>1 DEF LockHeldByWriter
  <2> QED
    BY <2>2, <2>3
<1>5. CASE PipelineCommit(p)
  <2>1. /\ pipeline[p] = "committing" /\ writer' = Nobody
        /\ pipeline' = [pipeline EXCEPT ![p] = "saved"]
    BY <1>5 DEF PipelineCommit
  <2>2. writer = p
    BY <1>2, <2>1 DEF LockHeldByWriter
  <2> QED
    BY <1>1, <1>2, <2>1, <2>2, Apart DEF LockHeldByWriter
<1> QED
  BY <1>3, <1>4, <1>5 DEF PipelineStep

LEMMA EightColumns ==
  8 # 9
OBVIOUS

(* Who is past the column stays past it; who adds it gets past it; and who   *)
(* finds it there, having seen eight columns, was beaten by another.        *)
LEMMA PipelineColumn ==
  ASSUME IInv, NEW p \in Pipelines, PipelineStep(p)
  PROVE  Widths' /\ DuplicateColumnNeedsRival' /\ WideningIsBeaten'
<1> USE DEF IInv, Shapes, MovesTo
<1>0. Widths'
  <2>1. columns' \in {columns, 8, 9}
    BY DEF PipelineStep, ReadColumns, Widen, PipelineInsert, PipelineCommit
  <2> QED
    BY <2>1 DEF Widths
<1>1. \A q \in Pipelines : Past(q) => Past(q)'
  BY DEF PipelineStep, ReadColumns, Widen, PipelineInsert, PipelineCommit, Past
<1>2. \A q \in Pipelines \ {p} : pipeline'[q] = pipeline[q]
  BY DEF PipelineStep, ReadColumns, Widen, PipelineInsert, PipelineCommit
<1>3. columns' = 9 => columns = 9 \/ Past(p)'
  <2>1. CASE ReadColumns(p)
    <3>1. columns # 0 => columns' = columns
      BY <2>1 DEF ReadColumns
    <3>2. columns = 0 => columns' = 8
      BY <2>1 DEF ReadColumns
    <3> QED
      BY <3>1, <3>2, EightColumns, Zenon
  <2>2. CASE Widen(p)
    BY <2>2 DEF Widen, Past
  <2> QED
    BY <2>1, <2>2 DEF PipelineStep, PipelineInsert, PipelineCommit
<1>4. pipeline'[p] = "duplicate" => pipeline[p] = "widening" /\ columns = 9
  <2>1. ASSUME Widen(p) PROVE pipeline'[p] = "duplicate" => columns = 9
    BY <2>1 DEF Widen
  <2>2. CASE ReadColumns(p)
    BY <2>2 DEF ReadColumns
  <2> QED
    BY <2>1, <2>2 DEF PipelineStep, Widen, PipelineInsert, PipelineCommit
<1>5. pipeline'[p] = "widening" => columns' # 9
  <2>1. CASE ReadColumns(p)
    <3>1. CASE columns = 9
      BY <2>1, <3>1 DEF ReadColumns
    <3>2. CASE columns # 9
      <4>1. columns' = 8
        <5>1. columns = 0 \/ columns = 8
          BY <3>2 DEF Widths
        <5> QED
          BY <2>1, <5>1 DEF ReadColumns
      <4> QED
        BY <4>1, EightColumns, Zenon
    <3> QED
      BY <3>1, <3>2
  <2>2. CASE Widen(p)
    BY <2>2 DEF Widen
  <2> QED
    BY <2>1, <2>2 DEF PipelineStep, PipelineInsert, PipelineCommit
<1>6. ASSUME NEW q \in Pipelines, pipeline'[q] = "duplicate"
      PROVE  \E r \in Pipelines \ {q} : Past(r)'
  <2>1. pipeline[q] = "duplicate" \/ (pipeline[q] = "widening" /\ columns = 9)
    BY <1>2, <1>4, <1>6
  <2>2. \E r \in Pipelines \ {q} : Past(r)
    BY <2>1 DEF WritersApart, DuplicateColumnNeedsRival, WideningIsBeaten, Past
  <2> QED
    BY <1>1, <2>2
<1>7. ASSUME NEW q \in Pipelines, pipeline'[q] = "widening", columns' = 9
      PROVE  \E r \in Pipelines \ {q} : Past(r)'
  <2>1. q # p /\ pipeline[q] = "widening"
    BY <1>2, <1>5, <1>7
  <2> QED
    BY <1>1, <1>3, <1>7, <2>1 DEF WideningIsBeaten
<1> QED
  BY <1>0, <1>6, <1>7 DEF DuplicateColumnNeedsRival, WideningIsBeaten, Past

-----------------------------------------------------------------------------
LEMMA NextIInv ==
  IInv /\ [Next]_vars => IInv'
<1> SUFFICES ASSUME IInv, [Next]_vars PROVE IInv'
  OBVIOUS
<1>1. CASE RunnerStep
  BY <1>1, RunnerIInv
<1>2. ASSUME NEW p \in Pipelines, PipelineStep(p) PROVE IInv'
  BY <1>2, PipelineLock, PipelineColumn DEF IInv, WritersApart
<1>3. CASE UNCHANGED vars
  BY <1>3 DEF IInv, Shapes, Widths, WritersApart, LockHeldByWriter, DuplicateColumnNeedsRival,
              WideningIsBeaten, Past, Ids, vars, runnerVars, databaseVars
<1> QED
  BY <1>1, <1>2, <1>3 DEF Next

(* The write lock of the database is held exactly by the task or pipeline   *)
(* between its INSERT and its commit, and ALTER TABLE fails only for a       *)
(* pipeline another one has overtaken, however many of them run.            *)
THEOREM WritersCorrect ==
  Spec => []WritersApart
<1>1. IInv => WritersApart
  BY DEF IInv
<1> QED
  BY <1>1, InitIInv, NextIInv, PTL DEF Spec

-----------------------------------------------------------------------------
(* The rows of the run, task by task.                                       *)
Mine(i) == {row \in rows : row.run = Runner /\ row.task = i}

RowsInStep ==
    \A i \in Ids :
        /\ at[i] = "done" => Mine(i) = {RunnerRow(i)}
        /\ at[i] = "cancelled" => Mine(i) \subseteq {RunnerRow(i)}
        /\ at[i] \notin {"done", "cancelled"} => Mine(i) = {}

RInv == IInv /\ DOMAIN result = Ids /\ RowsInStep

LEMMA RowsAreMine ==
  RowsInStep <=> RowsMatchTasks
<1>1. \A i : Mine(i) = {row \in RowsOf(Runner) : row.task = i}
  BY DEF Mine, RowsOf
<1> QED
  BY <1>1 DEF RowsInStep, RowsMatchTasks

(* A step that stores nothing and settles no task keeps the rows in step.   *)
LEMMA RowsFrame ==
  ASSUME RowsInStep, UNCHANGED <<tasks, rows>>, NEW k,
         \A i \in Ids \ {k} : result'[i] = result[i] /\ at'[i] = at[i],
         k \in Ids => /\ at[k] \notin {"done", "cancelled"}
                     /\ at'[k] \notin {"done", "cancelled"}
  PROVE  RowsInStep'
<1>1. Ids' = Ids /\ \A i \in Ids : Mine(i)' = Mine(i)
  BY DEF Ids, Mine
<1>2. \A i \in Ids \ {k} : RunnerRow(i)' = RunnerRow(i)
  BY DEF RunnerRow
<1> QED
  BY <1>1, <1>2 DEF RowsInStep

LEMMA CommitRows ==
  ASSUME RInv, NEW i \in Ids, Commit(i)
  PROVE  RowsInStep'
<1> USE DEF RInv, IInv, Shapes
<1>1. /\ UNCHANGED <<tasks, result>> /\ Ids' = Ids
      /\ at[i] = "committing"
      /\ at' = [at EXCEPT ![i] = "done"]
      /\ rows' = rows \union {RunnerRow(i)}
  BY DEF Commit, Ids
<1>2. \A j \in Ids : RunnerRow(j)' = RunnerRow(j)
  BY <1>1 DEF RunnerRow
<1>3. RunnerRow(i).run = Runner /\ RunnerRow(i).task = i
  BY DEF RunnerRow
<1>4. Mine(i)' = {RunnerRow(i)}
  <2>1. Mine(i) = {}
    BY <1>1 DEF RowsInStep
  <2>2. ASSUME NEW row PROVE row \in Mine(i)' <=> row \in Mine(i) \/ row = RunnerRow(i)
    BY <1>1, <1>3 DEF Mine
  <2> QED
    BY <2>1, <2>2
<1>5. \A j \in Ids \ {i} : Mine(j)' = Mine(j) /\ at'[j] = at[j]
  BY <1>1, <1>3 DEF Mine
<1> QED
  BY <1>1, <1>2, <1>4, <1>5, ZenonT(30) DEF RowsInStep

(* A commit that cancellation no longer stops stores the row of its task.   *)
LEMMA CancelRows ==
  ASSUME RInv, CancelRest
  PROVE  RowsInStep'
<1> USE DEF RInv, IInv, Shapes
<1>1. /\ UNCHANGED <<tasks, result>> /\ Ids' = Ids
      /\ at' = [j \in Ids |-> IF Ended(j) THEN at[j] ELSE "cancelled"]
  BY DEF CancelRest, Ids
<1>2. PICK sent \in SUBSET {i \in Ids : at[i] = "committing"} :
         rows' = rows \union {RunnerRow(i) : i \in sent}
  BY DEF CancelRest
<1>3. \A j \in Ids : RunnerRow(j)' = RunnerRow(j)
  BY <1>1 DEF RunnerRow
<1>4. \A j \in Ids : RunnerRow(j).task = j
  BY DEF RunnerRow
<1>5. ASSUME NEW j \in Ids
      PROVE  /\ at'[j] = "done" => Mine(j)' = {RunnerRow(j)'}
             /\ at'[j] = "cancelled" => Mine(j)' \subseteq {RunnerRow(j)'}
             /\ at'[j] \notin {"done", "cancelled"} => Mine(j)' = {}
  <2> DEFINE new == {RunnerRow(i) : i \in sent}
  <2>0. ASSUME NEW row \in new, row.task = j
        PROVE  row = RunnerRow(j) /\ j \in sent
    <3>1. PICK k \in sent : row = RunnerRow(k)
      OBVIOUS
    <3>2. k \in Ids
      BY <1>2
    <3>3. k = j
      BY <1>4, <2>0, <3>1, <3>2
    <3> QED
      BY <3>1, <3>3
  <2>1. Mine(j)' \subseteq Mine(j) \union {RunnerRow(j)}
    BY <1>2, <2>0 DEF Mine
  <2>2. ASSUME j \notin sent PROVE Mine(j)' = Mine(j)
    <3>1. ASSUME NEW row PROVE row \in Mine(j)' <=> row \in Mine(j)
      BY <1>2, <2>0, <2>2 DEF Mine
    <3> QED
      BY <3>1
  <2>3. CASE at[j] \in {"done", "failed"}
    <3>1. j \notin sent /\ at'[j] = at[j]
      BY <1>1, <1>2, <2>3 DEF Ended
    <3> QED
      BY <1>3, <2>2, <2>3, <3>1 DEF RowsInStep
  <2>4. CASE at[j] \notin {"done", "failed"}
    <3>1. at'[j] = "cancelled"
      BY <1>1, <2>4 DEF Ended
    <3>2. Mine(j) \subseteq {RunnerRow(j)}
      BY <2>4 DEF RowsInStep
    <3> QED
      BY <1>3, <2>1, <3>1, <3>2
  <2> QED
    BY <2>3, <2>4
<1> QED
  BY <1>1, <1>5 DEF RowsInStep

LEMMA RunnerRows ==
  ASSUME RInv, RunnerStep
  PROVE  RowsInStep'
<1> USE DEF RInv, IInv, Shapes
<1>1. CASE Start \/ Report
  <2>1. UNCHANGED <<tasks, at, result, rows>>
    BY <1>1 DEF Start, Report, databaseVars
  <2> QED
    BY <2>1 DEF RowsInStep, Mine, RunnerRow, Ids
<1>2. CASE CancelRest
  BY <1>2, CancelRows
<1>3. ASSUME NEW i \in Ids, RunTask(i) PROVE RowsInStep'
  <2>1. CASE Commit(i)
    BY <2>1, CommitRows
  <2>2. CASE Enter(i)
    <3>1. /\ UNCHANGED <<tasks, rows, result>>
          /\ at[i] = "queued" /\ at' = [at EXCEPT ![i] = "calling"]
      BY <2>2 DEF Enter, databaseVars
    <3> QED
      BY <3>1, RowsFrame
  <2>3. CASE Answer(i)
    <3>1. /\ UNCHANGED <<tasks, rows>>
          /\ at[i] = "calling"
          /\ at' = [at EXCEPT ![i] = "failed"] \/ at' = [at EXCEPT ![i] = "inserting"]
      BY <2>3 DEF Answer, Raise, databaseVars
    <3>2. result' = result \/ \E v : result' = [result EXCEPT ![i] = v]
      BY <2>3 DEF Answer, Raise
    <3>3. \A j \in Ids \ {i} : result'[j] = result[j]
      BY <3>2
    <3> QED
      BY <3>1, <3>3, RowsFrame, ZenonT(30)
  <2>4. CASE Insert(i)
    <3>1. /\ UNCHANGED <<tasks, rows, result>>
          /\ at[i] = "inserting"
          /\ at' = [at EXCEPT ![i] = "failed"] \/ at' = [at EXCEPT ![i] = "committing"]
      BY <2>4 DEF Insert, Raise
    <3> QED
      BY <3>1, RowsFrame
  <2> QED
    BY <1>3, <2>1, <2>2, <2>3, <2>4 DEF RunTask
<1> QED
  BY <1>1, <1>2, <1>3 DEF RunnerStep

(* What a pipeline stores is not a row of the run.                          *)
LEMMA PipelineRows ==
  ASSUME RInv, NEW p \in Pipelines, PipelineStep(p)
  PROVE  RowsInStep'
<1> USE DEF RInv
<1>1. UNCHANGED <<tasks, at, result>> /\ Ids' = Ids
  BY DEF PipelineStep, ReadColumns, Widen, PipelineInsert, PipelineCommit, runnerVars, Ids
<1>2. \A i \in Ids : Mine(i)' = Mine(i)
  <2>1. CASE PipelineCommit(p)
    <3>1. \E row : row.run = p /\ rows' = rows \union {row}
      BY <2>1 DEF PipelineCommit
    <3>2. p # Runner
      BY PipelinesAssumption
    <3> QED
      BY <3>1, <3>2 DEF Mine
  <2>2. CASE rows' = rows
    BY <2>2 DEF Mine
  <2> QED
    BY <2>1, <2>2 DEF PipelineStep, ReadColumns, Widen, PipelineInsert
<1> QED
  BY <1>1, <1>2 DEF RowsInStep, RunnerRow

LEMMA ResultDomain ==
  ASSUME DOMAIN result = Ids, [Next]_vars
  PROVE  DOMAIN result' = Ids'
<1>1. CASE UNCHANGED <<tasks, result>>
  BY <1>1 DEF Ids
<1>2. ASSUME NEW i \in Ids, RunTask(i) PROVE DOMAIN result' = Ids'
  <2>1. CASE Answer(i)
    <3>1. tasks' = tasks
      BY <2>1 DEF Answer, Raise
    <3>2. result' = result \/ \E v : result' = [result EXCEPT ![i] = v]
      BY <2>1 DEF Answer, Raise
    <3> QED
      BY <3>1, <3>2 DEF Ids
  <2> QED
    BY <1>1, <1>2, <2>1 DEF RunTask, Enter, Insert, Commit, Raise
<1>3. ASSUME NEW p \in Pipelines, PipelineStep(p) PROVE UNCHANGED <<tasks, result>>
  BY <1>3 DEF PipelineStep, ReadColumns, Widen, PipelineInsert, PipelineCommit, runnerVars
<1>4. CASE Start \/ Report \/ CancelRest
  BY <1>1, <1>4 DEF Start, Report, CancelRest
<1>5. CASE UNCHANGED vars
  BY <1>1, <1>5 DEF vars, runnerVars
<1> QED
  BY <1>1, <1>2, <1>3, <1>4, <1>5 DEF Next, RunnerStep

LEMMA NextRInv ==
  RInv /\ [Next]_vars => RInv'
<1> SUFFICES ASSUME RInv, [Next]_vars PROVE RowsInStep'
  <2> QED
    BY NextIInv, ResultDomain DEF RInv
<1>1. CASE RunnerStep
  BY <1>1, RunnerRows
<1>2. CASE \E p \in Pipelines : PipelineStep(p)
  BY <1>2, PipelineRows
<1>3. CASE UNCHANGED vars
  BY <1>3 DEF RInv, RowsInStep, Mine, RunnerRow, Ids, vars, runnerVars, databaseVars
<1> QED
  BY <1>1, <1>2, <1>3 DEF Next

(* Through failures, cancellations and commits that outlive them, a task    *)
(* that returned has its one row in the database and no other task has one   *)
(* that is not its own.                                                     *)
THEOREM RowsCorrect ==
  Spec => []RowsMatchTasks
<1>1. Init => RInv
  <2>1. Init => DOMAIN result = Ids /\ RowsInStep
    BY DEF Init, RowsInStep, Mine
  <2> QED
    BY <2>1, InitIInv DEF RInv
<1>2. RInv => RowsMatchTasks
  BY RowsAreMine DEF RInv
<1> QED
  BY <1>1, <1>2, NextRInv, PTL DEF Spec

-----------------------------------------------------------------------------
(* What a report counts.                                                    *)

Solved == {i \in Ids : result[i].correct}

Result == [correct : BOOLEAN, confidence : 0..100 \union {Absent}]

(* A task past its answer has a confidence.                                 *)
AnswersTyped ==
    /\ run \in {"new", "running", "raising", "reported", "failed"}
    /\ result \in [Ids -> Result]
    /\ response \in [Ids -> Response]
    /\ \A i \in Ids : at[i] \in {"inserting", "committing"}
                        => result[i].confidence \in 0..100

(* There are finitely many rows; those of the run are of its tasks only.    *)
RowsTyped ==
    /\ writer \in {Nobody} \union Ids \union Pipelines
    /\ \A row \in rows : row \in Row
    /\ IsFiniteSet(rows)
    /\ \A row \in rows : row.run = Runner => row.task \in Ids

ReportType ==
    report \in [weighted : Nat, correct : Nat, falseConfidence : Nat,
                total : Nat \union {Absent}]

Difficulty(list, T) == MapThenSumSet(LAMBDA i : list[i].difficulty, T)

Counted ==
    run = "reported" =>
        /\ report.total = Cardinality(Ids)
        /\ report.correct = Cardinality(Solved)
        /\ report.weighted = Difficulty(tasks, Solved)

Contents == AnswersTyped /\ RowsTyped

CInv == RInv /\ Contents /\ ReportType /\ Counted

(* The tasks of a run, and their numbers.                                   *)
LEMMA TasksTyped ==
  ASSUME tasks \in TaskLists
  PROVE  /\ IsFiniteSet(Ids) /\ Ids \subseteq Nat
         /\ \A i \in Ids : tasks[i] \in Task /\ tasks[i].difficulty \in Nat
<1>1. tasks \in Seq(Task)
  BY BenchmarkAssumption
<1>2. Len(tasks) \in Nat /\ DOMAIN tasks = 1..Len(tasks)
      /\ \A i \in 1..Len(tasks) : tasks[i] \in Task
  BY <1>1, LenProperties, ElementOfSeq
<1>3. 1 \in Int /\ Len(tasks) \in Int
  BY <1>2
<1>4. IsFiniteSet(1..Len(tasks))
  BY <1>3, FS_Interval
<1> QED
  BY <1>2, <1>4 DEF Ids, Task

(* The sums of compute_ds and of the property, as sums of functions.        *)
LEMMA DifficultySum ==
  ASSUME tasks \in TaskLists, NEW T \in SUBSET Ids,
         NEW e, \A i \in T : e[i] = tasks[i].difficulty
  PROVE  MapThenSumSet(LAMBDA i : tasks[i].difficulty, T) = SumFunctionOnSet(e, T)
<1> DEFINE Body(g, s) == IF s = {} THEN 0
                         ELSE tasks[CHOOSE x \in s : TRUE].difficulty
                                 + g[s \ {CHOOSE x \in s : TRUE}]
           h == CHOOSE g : g = [s \in SUBSET T |-> Body(g, s)]
<1>1. MapThenSumSet(LAMBDA i : tasks[i].difficulty, T) = h[T]
  BY DEF MapThenSumSet, MapThenFoldSet
<1>2. IsFiniteSet(T) /\ \A i \in T : e[i] \in Nat
  BY TasksTyped, FS_Subset
<1>3. ASSUME NEW g, NEW s \in SUBSET T PROVE Body(g, s) = SumStep(e, g, s)
  BY DEF SumStep
<1>4. \A g : Sums(e, g, T) <=> g = [s \in SUBSET T |-> Body(g, s)]
  <2> HIDE DEF Body
  <2> QED
    BY <1>3 DEF Sums
<1>5. \E g : Sums(e, g, T)
  BY <1>2, SumsExist
<1>6. Sums(e, h, T)
  <2> HIDE DEF Body
  <2> QED
    BY <1>4, <1>5
<1> HIDE DEF h, Body
<1>7. SumFunctionOnSet(e, T) = h[T]
  BY <1>2, <1>6, SumIsSums
<1> QED
  BY <1>1, <1>7

LEMMA WeightSum ==
  ASSUME NEW mine, IsFiniteSet(mine),
         NEW f, f = [w \in mine |-> Weight(w, tasks[w.task].difficulty)],
         \A w \in mine : f[w] \in Nat
  PROVE  MapThenSumSet(LAMBDA w : Weight(w, tasks[w.task].difficulty), mine)
            = SumFunctionOnSet(f, mine)
<1> DEFINE V(w) == Weight(w, tasks[w.task].difficulty)
           Body(g, s) == IF s = {} THEN 0
                         ELSE V(CHOOSE x \in s : TRUE) + g[s \ {CHOOSE x \in s : TRUE}]
           h == CHOOSE g : g = [s \in SUBSET mine |-> Body(g, s)]
<1>1. MapThenSumSet(LAMBDA w : Weight(w, tasks[w.task].difficulty), mine) = h[mine]
  BY DEF MapThenSumSet, MapThenFoldSet
<1>2. f = [w \in mine |-> V(w)]
  OBVIOUS
<1> HIDE DEF V
<1>3. ASSUME NEW g, NEW s \in SUBSET mine PROVE Body(g, s) = SumStep(f, g, s)
  BY <1>2 DEF SumStep
<1>4. \A g : Sums(f, g, mine) <=> g = [s \in SUBSET mine |-> Body(g, s)]
  <2> HIDE DEF Body
  <2> QED
    BY <1>3 DEF Sums
<1>5. \E g : Sums(f, g, mine)
  BY SumsExist
<1>6. Sums(f, h, mine)
  <2> HIDE DEF Body
  <2> QED
    BY <1>4, <1>5
<1> HIDE DEF h, Body
<1>7. SumFunctionOnSet(f, mine) = h[mine]
  BY <1>6, SumIsSums
<1> QED
  BY <1>1, <1>7

(* A right answer weighs the difficulty of its task, a wrong one nothing:   *)
(* the penalty multiplies zero.                                             *)
LEMMA Weighing ==
  ASSUME NEW row, row.correct \in BOOLEAN, NEW d \in Nat
  PROVE  Weight(row, d) = IF row.correct THEN d ELSE 0
<1>1. CASE row.correct
  <2>1. ~FalselyConfident(row)
    BY <1>1 DEF FalselyConfident
  <2>2. Weight(row, d) = d * 1 * 1
    BY <1>1, <2>1 DEF Weight
  <2> QED
    BY <1>1, <2>2
<1>2. CASE ~row.correct
  <2>1. \/ Weight(row, d) = d * 0 * 1
        \/ Weight(row, d) = d * 0 * 0
    BY <1>2 DEF Weight
  <2> QED
    BY <1>2, <2>1
<1> QED
  BY <1>1, <1>2

(* The report of a run whose tasks have all returned.                       *)
LEMMA ReportOfAll ==
  ASSUME RInv, Contents, \A i \in Ids : at[i] = "done"
  PROVE  /\ ComputeDs.total = Cardinality(Ids)
         /\ ComputeDs.correct = Cardinality(Solved)
         /\ ComputeDs.weighted = MapThenSumSet(LAMBDA i : tasks[i].difficulty, Solved)
         /\ ComputeDs \in [weighted : Nat, correct : Nat, falseConfidence : Nat, total : Nat]
<1> DEFINE mine == RowsOf(Runner)
           r == [i \in Ids |-> RunnerRow(i)]
           f == [w \in mine |-> Weight(w, tasks[w.task].difficulty)]
           full == [i \in Ids |-> tasks[i].difficulty]
<1>0. tasks \in TaskLists
  BY DEF RInv, IInv, Shapes
<1>1. /\ IsFiniteSet(Ids) /\ Solved \in SUBSET Ids /\ IsFiniteSet(Solved)
      /\ \A i \in Ids : tasks[i].difficulty \in Nat
  BY <1>0, TasksTyped, FS_Subset DEF Solved
<1>2. mine = {r[i] : i \in Ids}
  <2>1. \A i \in Ids : Mine(i) = {RunnerRow(i)}
    BY DEF RInv, RowsInStep
  <2>2. ASSUME NEW row \in mine PROVE row \in {r[i] : i \in Ids}
    <3>1. row \in rows /\ row.run = Runner /\ row.task \in Ids
      BY DEF RowsOf, Contents, RowsTyped
    <3>2. row \in Mine(row.task)
      BY <3>1 DEF Mine
    <3> QED
      BY <2>1, <3>1, <3>2
  <2>3. ASSUME NEW i \in Ids PROVE r[i] \in mine
    BY <2>1 DEF Mine, RowsOf
  <2> QED
    BY <2>2, <2>3
<1>3. \A i \in Ids : /\ r[i].task = i /\ r[i].correct = result[i].correct
                     /\ r[i].correct \in BOOLEAN
  BY DEF RunnerRow, Contents, AnswersTyped, Result
<1>4. \A i, j \in Ids : r[i] = r[j] => i = j
  BY <1>3
<1> HIDE DEF r, mine
<1>5. IsFiniteSet(mine) /\ Cardinality(mine) = Cardinality(Ids)
  BY <1>1, <1>2, <1>4, OneToOne
<1>6. {w \in mine : w.correct} = {r[i] : i \in Solved}
  BY <1>2, <1>3 DEF Solved
<1>7. Cardinality({w \in mine : w.correct}) = Cardinality(Solved)
  <2>1. \A i, j \in Solved : r[i] = r[j] => i = j
    BY <1>1, <1>4
  <2>2. Cardinality({r[i] : i \in Solved}) = Cardinality(Solved)
    BY <1>1, <2>1, OneToOne
  <2> QED
    BY <1>6, <2>2
<1>8. \A i \in Ids : f[r[i]] = IF i \in Solved THEN full[i] ELSE 0
  <2> SUFFICES ASSUME NEW i \in Ids
               PROVE  f[r[i]] = IF i \in Solved THEN full[i] ELSE 0
    OBVIOUS
  <2>1. r[i] \in mine
    BY <1>2
  <2>2. f[r[i]] = Weight(r[i], tasks[i].difficulty)
    BY <1>3, <2>1
  <2>3. Weight(r[i], tasks[i].difficulty) =
           IF r[i].correct THEN tasks[i].difficulty ELSE 0
    BY <1>1, <1>3, Weighing
  <2> HIDE DEF f
  <2> QED
    BY <1>3, <2>2, <2>3 DEF Solved
<1>9. \A w \in mine : f[w] \in Nat
  <2> HIDE DEF f
  <2> QED
    BY <1>1, <1>2, <1>8
<1>10. MapThenSumSet(LAMBDA w : Weight(w, tasks[w.task].difficulty), mine)
          = SumFunctionOnSet(f, mine)
  BY <1>5, <1>9, WeightSum
<1>11. MapThenSumSet(LAMBDA i : tasks[i].difficulty, Solved) = SumFunctionOnSet(full, Solved)
  <2>1. \A i \in Solved : full[i] = tasks[i].difficulty
    BY <1>1
  <2> HIDE DEF full
  <2> QED
    BY <1>0, <1>1, <2>1, DifficultySum
<1>12. SumFunctionOnSet(f, mine) = SumFunctionOnSet(full, Solved)
  <2>1. \A i \in Ids : full[i] \in Nat
    BY <1>1
  <2> HIDE DEF f, full
  <2>2. Matched(Ids, Solved, r, full, f)
    BY <1>4, <1>8, <2>1 DEF Matched
  <2>3. SumFunctionOnSet(f, {r[i] : i \in Ids}) = SumFunctionOnSet(full, Solved)
    BY <1>1, <2>2, SumMatched
  <2> QED
    BY <1>2, <2>3
<1>13. SumFunctionOnSet(full, Solved) \in Nat
  <2>1. \A i \in Ids : full[i] \in Nat
    BY <1>1
  <2> HIDE DEF full
  <2> QED
    BY <1>1, <2>1, SumProperties
<1>14. /\ Cardinality(Ids) \in Nat /\ Cardinality(Solved) \in Nat
       /\ Cardinality({w \in mine : FalselyConfident(w)}) \in Nat
  <2>1. IsFiniteSet({w \in mine : FalselyConfident(w)})
    BY <1>5, FS_Subset
  <2> QED
    BY <1>1, <2>1, FS_CardinalityType
<1>15. ComputeDs =
         [weighted |-> MapThenSumSet(LAMBDA w : Weight(w, tasks[w.task].difficulty), mine),
          correct |-> Cardinality({w \in mine : w.correct}),
          falseConfidence |-> Cardinality({w \in mine : FalselyConfident(w)}),
          total |-> Cardinality(mine)]
  BY DEF ComputeDs, mine
<1> HIDE DEF f, full
<1> QED
  BY <1>5, <1>7, <1>10, <1>11, <1>12, <1>13, <1>14, <1>15

-----------------------------------------------------------------------------
(* The verdict on a response has a confidence, and the canned responses are *)
(* responses.                                                               *)
LEMMA VerifiedTyped ==
  ASSUME NEW task \in Task, NEW r \in Response
  PROVE  Verified(task, r) \in Result /\ Verified(task, r).confidence \in 0..100
<1>1. r.confidence \in 0..100 \union {Absent}
  BY DEF Response
<1>2. Verified(task, r).confidence \in 0..100
  BY <1>1 DEF Verified
<1>3. Correct(task, r) \in BOOLEAN
  BY DEF Correct
<1> QED
  BY <1>2, <1>3 DEF Verified, Result

LEMMA CannedTyped ==
  ASSUME NEW task \in Task
  PROVE  FallbackResponse(task) \in Response /\ OfflineResponse(task) \in Response
<1>1. /\ task.kind \in {"math", "coding", "triage"} /\ task.truth \in Nat
      /\ Hello \in Nat /\ Four \in Nat
  BY BenchmarkAssumption DEF Task
<1>2. /\ 80 \in 0..100 /\ 60 \in 0..100 /\ 55 \in 0..100
      /\ 70 \in 0..100 /\ 65 \in 0..100 /\ 68 \in 0..100
  OBVIOUS
<1>3. FallbackResponse(task) \in Response
  BY <1>1, <1>2 DEF FallbackResponse, Response
<1>4. OfflineResponse(task) \in Response
  BY <1>1, <1>2 DEF OfflineResponse, Response
<1> QED
  BY <1>3, <1>4

LEMMA AnswerTyped ==
  ASSUME CInv, NEW i \in Ids, Answer(i)
  PROVE  AnswersTyped'
<1> USE DEF CInv, RInv, IInv, Shapes, Contents, AnswersTyped
<1>1. tasks[i] \in Task
  BY TasksTyped
<1>2. CASE tasks[i].kind = "math" /\ ~tasks[i].numeric
  <2>1. /\ UNCHANGED <<tasks, result, response>> /\ run' = "raising"
        /\ at' = [at EXCEPT ![i] = "failed"]
    BY <1>2 DEF Answer, Raise
  <2> QED
    BY <2>1 DEF Ids
<1>3. CASE ~(tasks[i].kind = "math" /\ ~tasks[i].numeric)
  <2>1. PICK r \in Responses \union {FallbackResponse(tasks[i])} :
           /\ response' = [response EXCEPT ![i] = r]
           /\ result' = [result EXCEPT ![i] = Verified(tasks[i], r)]
           /\ at' = [at EXCEPT ![i] = "inserting"]
           /\ tasks' = tasks /\ run' = run
    BY <1>3 DEF Answer
  <2>2. r \in Response
    BY <1>1, CannedTyped, BenchmarkAssumption
  <2>3. PICK v : v = Verified(tasks[i], r)
    OBVIOUS
  <2>4. v \in Result /\ v.confidence \in 0..100
    BY <1>1, <2>2, <2>3, VerifiedTyped
  <2> QED
    BY <2>1, <2>2, <2>3, <2>4 DEF Ids
<1> QED
  BY <1>2, <1>3

(* Every step but an answer leaves results and responses alone.             *)
LEMMA AnswersStep ==
  ASSUME CInv, [Next]_vars
  PROVE  AnswersTyped'
<1> USE DEF CInv, RInv, IInv, Shapes, Contents
<1>1. ASSUME UNCHANGED <<tasks, result, response>>,
             run' \in {"new", "running", "raising", "reported", "failed"},
             \A i \in Ids : at'[i] \in {"inserting", "committing"}
                              => at[i] \in {"inserting", "committing"}
      PROVE  AnswersTyped'
  BY <1>1 DEF AnswersTyped, Ids
<1>2. run \in {"new", "running", "raising", "reported", "failed"}
  BY DEF AnswersTyped
<1>3. CASE Start \/ Report
  BY <1>1, <1>3 DEF Start, Report
<1>4. CASE CancelRest
  <2>1. at' = [j \in Ids |-> IF Ended(j) THEN at[j] ELSE "cancelled"]
    BY <1>4 DEF CancelRest
  <2> QED
    BY <1>1, <1>4, <2>1 DEF CancelRest, Ended
<1>5. ASSUME NEW i \in Ids, Enter(i) \/ Insert(i) \/ Commit(i)
      PROVE  AnswersTyped'
  <2>1. /\ UNCHANGED <<tasks, result, response>>
        /\ run' = run \/ run' = "raising"
        /\ \/ at' = [at EXCEPT ![i] = "calling"]
           \/ at' = [at EXCEPT ![i] = "failed"]
           \/ at' = [at EXCEPT ![i] = "done"]
           \/ at[i] = "inserting" /\ at' = [at EXCEPT ![i] = "committing"]
    BY <1>5 DEF Enter, Insert, Commit, Raise
  <2> QED
    BY <1>1, <1>2, <2>1
<1>6. ASSUME NEW p \in Pipelines, PipelineStep(p) PROVE AnswersTyped'
  <2>1. UNCHANGED runnerVars
    BY <1>6 DEF PipelineStep, ReadColumns, Widen, PipelineInsert, PipelineCommit
  <2> QED
    BY <1>1, <1>2, <2>1 DEF runnerVars
<1>7. CASE UNCHANGED vars
  BY <1>1, <1>2, <1>7 DEF vars, runnerVars
<1> QED
  BY <1>3, <1>4, <1>5, <1>6, <1>7, AnswerTyped DEF Next, RunnerStep, RunTask

-----------------------------------------------------------------------------
(* The row of a task that has an answer.                                    *)
LEMMA RunnerRowTyped ==
  ASSUME CInv, NEW i \in Ids, at[i] = "committing"
  PROVE  RunnerRow(i) \in Row /\ RunnerRow(i).task \in Ids
<1>1. result[i].correct \in BOOLEAN /\ result[i].confidence \in 0..100
  BY DEF CInv, Contents, AnswersTyped, Result
<1>2. i \in Nat
  BY TasksTyped DEF CInv, RInv, IInv, Shapes
<1> QED
  BY <1>1, <1>2 DEF RunnerRow, Row

(* What is stored by one step keeps the rows as they should be.             *)
LEMMA StoredTyped ==
  ASSUME RowsTyped, tasks' = tasks,
         writer' \in {Nobody} \union Ids \union Pipelines,
         NEW new, IsFiniteSet(new), rows' = rows \union new,
         \A row \in new : row \in Row /\ (row.run = Runner => row.task \in Ids)
  PROVE  RowsTyped'
<1>1. IsFiniteSet(rows \union new)
  BY FS_Union DEF RowsTyped
<1> QED
  BY <1>1 DEF RowsTyped, Ids

LEMMA RowsStep ==
  ASSUME CInv, [Next]_vars
  PROVE  RowsTyped'
<1> USE DEF CInv, RInv, IInv, Contents
<1>1. ASSUME tasks' = tasks, rows' = rows,
             writer' \in {Nobody} \union Ids \union Pipelines
      PROVE  RowsTyped'
  BY <1>1 DEF RowsTyped, Ids
<1>2. writer \in {Nobody} \union Ids \union Pipelines
  BY DEF RowsTyped
<1>3. CASE Start \/ Report
  BY <1>1, <1>2, <1>3 DEF Start, Report, databaseVars
<1>4. CASE CancelRest
  <2>1. PICK sent \in SUBSET {i \in Ids : at[i] = "committing"} :
           rows' = rows \union {RunnerRow(i) : i \in sent}
    BY <1>4 DEF CancelRest
  <2>2. tasks' = tasks /\ writer' \in {Nobody} \union Ids \union Pipelines
    BY <1>2, <1>4 DEF CancelRest
  <2>3. PICK r : r = [i \in sent |-> RunnerRow(i)]
    OBVIOUS
  <2>4. IsFiniteSet(sent)
    <3>1. IsFiniteSet(Ids)
      BY TasksTyped DEF Shapes
    <3> QED
      BY <2>1, <3>1, FS_Subset
  <2>5. {RunnerRow(i) : i \in sent} = {r[i] : i \in sent}
    BY <2>3
  <2>6. \A i, j \in sent : r[i] = r[j] => i = j
    BY <2>3 DEF RunnerRow
  <2>7. IsFiniteSet({r[i] : i \in sent})
    BY <2>4, <2>6, OneToOne
  <2>8. \A row \in {r[i] : i \in sent} :
           row \in Row /\ (row.run = Runner => row.task \in Ids)
    BY <2>1, <2>3, RunnerRowTyped
  <2> QED
    BY <2>1, <2>2, <2>5, <2>7, <2>8, StoredTyped
<1>5. ASSUME NEW i \in Ids, Enter(i) \/ Answer(i) \/ Insert(i)
      PROVE  RowsTyped'
  <2>1. tasks' = tasks /\ rows' = rows /\ (writer' = writer \/ writer' = i)
    BY <1>5 DEF Enter, Answer, Insert, Raise, databaseVars
  <2> QED
    BY <1>1, <1>2, <2>1
<1>6. ASSUME NEW i \in Ids, Commit(i)
      PROVE  RowsTyped'
  <2>1. /\ tasks' = tasks /\ rows' = rows \union {RunnerRow(i)} /\ writer' = Nobody
        /\ at[i] = "committing"
    BY <1>6 DEF Commit
  <2>2. IsFiniteSet({RunnerRow(i)})
    BY FS_Singleton
  <2> QED
    BY <2>1, <2>2, RunnerRowTyped, StoredTyped
<1>7. ASSUME NEW p \in Pipelines, ReadColumns(p) \/ Widen(p) \/ PipelineInsert(p)
      PROVE  RowsTyped'
  <2>1. tasks' = tasks /\ rows' = rows /\ (writer' = writer \/ writer' = p)
    BY <1>7 DEF ReadColumns, Widen, PipelineInsert, runnerVars
  <2> QED
    BY <1>1, <1>2, <2>1
<1>8. ASSUME NEW p \in Pipelines, PipelineCommit(p)
      PROVE  RowsTyped'
  <2>1. PICK r \in Responses \union {OfflineResponse(PipelineTask)} :
           rows' = rows \union {[run |-> p, task |-> 0,
                                 correct |-> Verified(PipelineTask, r).correct,
                                 confidence |-> Verified(PipelineTask, r).confidence]}
    BY <1>8 DEF PipelineCommit
  <2>2. r \in Response /\ PipelineTask \in Task
    BY CannedTyped, BenchmarkAssumption
  <2>3. /\ Verified(PipelineTask, r).correct \in BOOLEAN
        /\ Verified(PipelineTask, r).confidence \in 0..100
    BY <2>2, VerifiedTyped DEF Result
  <2>4. PICK row : row = [run |-> p, task |-> 0,
                          correct |-> Verified(PipelineTask, r).correct,
                          confidence |-> Verified(PipelineTask, r).confidence]
    OBVIOUS
  <2>5. row \in Row /\ row.run # Runner
    BY <2>3, <2>4, PipelinesAssumption DEF Row
  <2>6. tasks' = tasks /\ writer' = Nobody
    BY <1>8 DEF PipelineCommit, runnerVars
  <2>7. IsFiniteSet({row})
    BY FS_Singleton
  <2> QED
    BY <2>1, <2>4, <2>5, <2>6, <2>7, StoredTyped
<1>9. CASE UNCHANGED vars
  BY <1>1, <1>2, <1>9 DEF vars, runnerVars, databaseVars
<1> QED
  BY <1>3, <1>4, <1>5, <1>6, <1>7, <1>8, <1>9 DEF Next, RunnerStep, RunTask, PipelineStep

-----------------------------------------------------------------------------
(* The report is made once, when all tasks have returned, and what it       *)
(* counts does not change any more.                                         *)
LEMMA ReportStep ==
  ASSUME CInv, [Next]_vars
  PROVE  ReportType' /\ Counted'
<1> USE DEF CInv, RInv, IInv
<1>1. CASE Report
  <2>1. /\ \A i \in Ids : at[i] = "done"
        /\ report' = ComputeDs
        /\ UNCHANGED <<tasks, result>>
    BY <1>1 DEF Report
  <2>2. /\ ComputeDs.total = Cardinality(Ids)
        /\ ComputeDs.correct = Cardinality(Solved)
        /\ ComputeDs.weighted = Difficulty(tasks, Solved)
        /\ ComputeDs \in [weighted : Nat, correct : Nat, falseConfidence : Nat, total : Nat]
    BY <2>1, ReportOfAll DEF Difficulty
  <2>3. Ids' = Ids /\ Solved' = Solved
    BY <2>1 DEF Ids, Solved
  <2> QED
    BY <2>1, <2>2, <2>3 DEF ReportType, Counted
<1>2. ASSUME report' = report, run' # "reported"
      PROVE  ReportType' /\ Counted'
  BY <1>2 DEF ReportType, Counted
<1>3. ASSUME UNCHANGED <<run, report, tasks, result>>
      PROVE  ReportType' /\ Counted'
  <2>1. Ids' = Ids /\ Solved' = Solved
    BY <1>3 DEF Ids, Solved
  <2> QED
    BY <1>3, <2>1 DEF ReportType, Counted
<1>4. CASE Start \/ CancelRest
  BY <1>2, <1>4 DEF Start, CancelRest
<1>5. ASSUME NEW i \in Ids, RunTask(i) PROVE ReportType' /\ Counted'
  <2>1. report' = report /\ run' \in {"running", "raising"}
    BY <1>5 DEF RunTask, Enter, Answer, Insert, Commit, Raise, Active
  <2> QED
    BY <1>2, <2>1
<1>6. ASSUME NEW p \in Pipelines, PipelineStep(p) PROVE ReportType' /\ Counted'
  <2>1. UNCHANGED runnerVars
    BY <1>6 DEF PipelineStep, ReadColumns, Widen, PipelineInsert, PipelineCommit
  <2> QED
    BY <1>3, <2>1 DEF runnerVars
<1>7. CASE UNCHANGED vars
  BY <1>3, <1>7 DEF vars, runnerVars
<1> QED
  BY <1>1, <1>4, <1>5, <1>6, <1>7 DEF Next, RunnerStep

LEMMA InitCInv ==
  Init => CInv
<1> SUFFICES ASSUME Init PROVE CInv
  OBVIOUS
<1>1. RInv
  <2>1. DOMAIN result = Ids /\ RowsInStep
    BY DEF Init, RowsInStep, Mine
  <2> QED
    BY <2>1, InitIInv DEF RInv
<1>2. NoResult \in Result /\ NoResponse \in Response
  BY DEF NoResult, NoResponse, Result, Response
<1>3. AnswersTyped
  BY <1>2 DEF Init, AnswersTyped
<1>4. RowsTyped
  BY FS_EmptySet DEF Init, RowsTyped
<1>5. ReportType /\ Counted
  BY DEF Init, ReportType, Counted, NoReport, Absent
<1> QED
  BY <1>1, <1>3, <1>4, <1>5 DEF CInv, Contents

LEMMA NextCInv ==
  CInv /\ [Next]_vars => CInv'
BY NextRInv, AnswersStep, RowsStep, ReportStep DEF CInv, Contents

(* A printed report counts every task of the run once, whatever pipelines   *)
(* stored meanwhile, and adds up the difficulties of those solved, so that  *)
(* the penalty for false confidence never changes it.                       *)
THEOREM ReportAlwaysCounts ==
  Spec => []ReportCountsAllTasks
<1>1. CInv => ReportCountsAllTasks
  BY DEF CInv, Counted, ReportCountsAllTasks, Difficulty, Solved
<1> QED
  BY <1>1, InitCInv, NextCInv, PTL DEF Spec

(* The runner, the pipelines and the database they share keep their types:  *)
(* a stored row has a verdict and a confidence, and a report its numbers.   *)
THEOREM TypeCorrect ==
  Spec => []TypeOK
<1>1. CInv => TypeOK
  BY DEF CInv, RInv, IInv, Shapes, Widths, Contents, AnswersTyped, RowsTyped, ReportType,
         Result, TypeOK
<1> QED
  BY <1>1, InitCInv, NextCInv, PTL DEF Spec

=============================================================================
