------------------------- MODULE DecisionBenchmark -------------------------
(***************************************************************************)
(* src/ds-benchmark/runner.py, with the tasks of decisions_benchmark.py    *)
(* and the score of ds_scorer.py; and, in processes of their own, runs of  *)
(* src/unified-pipeline/run_pipeline.py, which save to the same database.  *)
(*                                                                         *)
(* The runner is one event loop: a step is what one coroutine does from    *)
(* one await to the next, the verification of an answer included.  The     *)
(* database has one table and one writer at a time: a statement that       *)
(* writes waits for the lock, at most five seconds.                        *)
(*                                                                         *)
(* Abstractions.  A response is the answer verify() finds in it, its       *)
(* confidence, and which of the two numbers comes last.  Answers are       *)
(* integers; times, and the seconds the score is divided by, are left out. *)
(***************************************************************************)
EXTENDS Integers, Sequences, FiniteSetsExt

CONSTANTS
    TaskLists,      \* what load_tasks may return
    Concurrency,    \* tasks in the semaphore at once
    Responses,      \* what the model may answer
    Hello, Four,    \* the answers of programs that print hello and 4
    Pipelines,      \* the processes of run_pipeline.py
    PipelineTask    \* the task their command line names

Absent == -1        \* no number, no confidence

Response ==
    [answer : Nat \union {Absent}, confidence : 0..100 \union {Absent},
     confidenceLast : BOOLEAN]

Task ==
    [kind : {"math", "coding", "triage"},
     truth : Nat,               \* ground_truth
     numeric : BOOLEAN,         \* float(ground_truth) does not raise
     difficulty : Nat]          \* in tenths

ASSUME BenchmarkAssumption ==
    /\ TaskLists \subseteq Seq(Task)
    /\ Concurrency \in Nat \ {0}
    /\ Responses \subseteq Response
    /\ {Hello, Four} \subseteq Nat
    /\ PipelineTask \in Task

Runner == "runner"
ASSUME PipelinesAssumption ==       \* a pipeline is neither the runner nor a task
    Runner \notin Pipelines /\ Pipelines \cap Nat = {}

VARIABLES
    tasks,      \* the list of this run
    run,        \* "new", "running", "raising", "reported" or "failed"
    at,         \* where each _run_task is
    result,     \* its VerificationResult
    response,   \* history: the response it was verified from
    report,     \* the DSReport printed, or None
    pipeline,   \* where each pipeline process is
    columns,    \* of the table results: 0 without a table, then 8 or 9
    rows,       \* its committed rows
    writer      \* who holds the write lock: a task, a pipeline, or nobody

runnerVars == <<tasks, run, at, result, response, report>>
databaseVars == <<columns, rows, writer>>
vars == <<runnerVars, pipeline, databaseVars>>

Nobody == 0
Ids == DOMAIN tasks

-----------------------------------------------------------------------------
(* Verification and score.                                                 *)

(* The number a math task is graded by: the last one of the response, be   *)
(* it the answer or the confidence the prompt asks for.                    *)
LastNumber(r) ==
    IF r.confidence # Absent /\ (r.confidenceLast \/ r.answer = Absent)
    THEN r.confidence ELSE r.answer

(* verify(): code is run, an ICD code is looked up, a number compared.     *)
Correct(task, r) ==
    IF task.kind = "math" THEN LastNumber(r) = task.truth
    ELSE r.answer = task.truth

(* Mutant: a response without a confidence keeps none.                     *)
VerifiedUndefaulted(task, r) ==
    [correct |-> Correct(task, r), confidence |-> r.confidence]

Verified(task, r) ==
    [correct |-> Correct(task, r),
     confidence |-> IF r.confidence = Absent THEN 50 ELSE r.confidence]

(* The canned response to a call that failed or timed out.                 *)
FallbackResponse(task) ==
    CASE task.kind = "math" ->
            [answer |-> task.truth, confidence |-> 80, confidenceLast |-> TRUE]
      [] task.kind = "coding" ->
            [answer |-> Hello, confidence |-> 60, confidenceLast |-> TRUE]
      [] task.kind = "triage" ->
            [answer |-> task.truth, confidence |-> 55, confidenceLast |-> TRUE]

FalselyConfident(row) == ~row.correct /\ row.confidence > 80

(* difficulty * correct * max(0, 1 - penalty); the penalty is for wrong    *)
(* answers only.                                                           *)
Weight(row, difficulty) ==
    LET penalty == IF FalselyConfident(row) THEN 2 ELSE 0
    IN  difficulty * (IF row.correct THEN 1 ELSE 0)
            * (IF 1 - penalty > 0 THEN 1 - penalty ELSE 0)

RowsOf(who) == {row \in rows : row.run = who}

(* compute_ds on the rows of the run.                                      *)
ComputeDs ==
    LET mine == RowsOf(Runner)
    IN  [weighted |-> MapThenSumSet(LAMBDA w : Weight(w, tasks[w.task].difficulty), mine),
         correct |-> Cardinality({w \in mine : w.correct}),
         falseConfidence |-> Cardinality({w \in mine : FalselyConfident(w)}),
         total |-> Cardinality(mine)]

-----------------------------------------------------------------------------
(* The runner.                                                             *)

NoResult == [correct |-> FALSE, confidence |-> Absent]

NoResponse == [answer |-> Absent, confidence |-> Absent, confidenceLast |-> FALSE]

NoReport == [weighted |-> 0, correct |-> 0, falseConfidence |-> 0, total |-> Absent]

Init ==
    /\ tasks \in TaskLists
    /\ run = "new"
    /\ at = [i \in Ids |-> "queued"]
    /\ result = [i \in Ids |-> NoResult]
    /\ response = [i \in Ids |-> NoResponse]
    /\ report = NoReport
    /\ pipeline = [p \in Pipelines |-> "running"]
    /\ columns \in {0, 8, 9}
    /\ rows = {}
    /\ writer = Nobody

RunnerRow(i) == [run |-> Runner, task |-> i, correct |-> result[i].correct,
                 confidence |-> result[i].confidence]

Active == run \in {"running", "raising"}

(* _ensure_db, and the tasks are created.                                  *)
Start ==
    /\ run = "new"
    /\ run' = "running"
    /\ columns' = IF columns = 0 THEN 8 ELSE columns
    /\ UNCHANGED <<tasks, at, result, response, report, pipeline, rows, writer>>

InSemaphore == {i \in Ids : at[i] \in {"calling", "inserting", "committing"}}

(* The semaphore serves the tasks in the order they were created in.       *)
Enter(i) ==
    /\ Active
    /\ at[i] = "queued"
    /\ \A j \in Ids : j < i => at[j] # "queued"
    /\ Cardinality(InSemaphore) < Concurrency
    /\ at' = [at EXCEPT ![i] = "calling"]
    /\ UNCHANGED <<tasks, run, result, response, report, pipeline, databaseVars>>

(* A task raises: gather passes it on, and the other tasks go on.          *)
Raise(i) ==
    /\ at' = [at EXCEPT ![i] = "failed"]
    /\ run' = "raising"
    /\ UNCHANGED <<tasks, result, report, pipeline, columns, rows>>

(* The model answers, or the call fails or times out after 30 seconds; the *)
(* response is verified.  A ground truth that is no number raises.         *)
Answer(i) ==
    /\ Active
    /\ at[i] = "calling"
    /\ \E r \in Responses \union {FallbackResponse(tasks[i])} :
        IF tasks[i].kind = "math" /\ ~tasks[i].numeric
        THEN Raise(i) /\ UNCHANGED <<response, writer>>
        ELSE /\ response' = [response EXCEPT ![i] = r]
             /\ result' = [result EXCEPT ![i] = Verified(tasks[i], r)]
             /\ at' = [at EXCEPT ![i] = "inserting"]
             /\ UNCHANGED <<tasks, run, report, pipeline, databaseVars>>

(* INSERT INTO results VALUES (eight of them): it takes the write lock, or *)
(* gives up waiting for it, or does not fit a table of nine columns.       *)
Insert(i) ==
    /\ Active
    /\ at[i] = "inserting"
    /\ IF columns = 8 /\ writer = Nobody
       THEN /\ writer' = i
            /\ at' = [at EXCEPT ![i] = "committing"]
            /\ UNCHANGED <<tasks, run, result, response, report, pipeline, columns, rows>>
       ELSE Raise(i) /\ UNCHANGED <<response, writer>>

(* Mutant: the task returns without db.commit().                           *)
CommitForgotten(i) ==
    /\ Active
    /\ at[i] = "committing"
    /\ writer' = Nobody
    /\ at' = [at EXCEPT ![i] = "done"]
    /\ UNCHANGED <<tasks, run, result, response, report, pipeline, columns, rows>>

Commit(i) ==
    /\ Active
    /\ at[i] = "committing"
    /\ rows' = rows \union {RunnerRow(i)}
    /\ writer' = Nobody
    /\ at' = [at EXCEPT ![i] = "done"]
    /\ UNCHANGED <<tasks, run, result, response, report, pipeline, columns>>

(* Mutant: what has failed so far is left out of the report.               *)
ReportRest ==
    /\ Active
    /\ \A i \in Ids : at[i] \in {"done", "failed"}
    /\ run' = "reported"
    /\ report' = ComputeDs
    /\ UNCHANGED <<tasks, at, result, response, pipeline, databaseVars>>

(* gather returns, and the rows of the run are read back and scored.       *)
Report ==
    /\ run = "running"
    /\ \A i \in Ids : at[i] = "done"
    /\ run' = "reported"
    /\ report' = ComputeDs
    /\ UNCHANGED <<tasks, at, result, response, pipeline, databaseVars>>

Ended(i) == at[i] \in {"done", "failed", "cancelled"}

(* Mutant: a cancelled task keeps its transaction open.                    *)
CancelRestLocked ==
    /\ run = "raising"
    /\ run' = "failed"
    /\ at' = [i \in Ids |-> IF Ended(i) THEN at[i] ELSE "cancelled"]
    /\ UNCHANGED <<tasks, result, response, report, pipeline, databaseVars>>

(* Mutant: the exception waits for the tasks that have not ended.          *)
CancelRestNever ==
    /\ run = "raising"
    /\ \A i \in Ids : at[i] = "done"
    /\ run' = "failed"
    /\ UNCHANGED <<tasks, at, result, response, report, pipeline, databaseVars>>

(* The exception has left run_benchmark, and asyncio.run cancels what is   *)
(* left.  A commit already handed to the database may still be made.       *)
CancelRest ==
    /\ run = "raising"
    /\ run' = "failed"
    /\ at' = [i \in Ids |-> IF Ended(i) THEN at[i] ELSE "cancelled"]
    /\ writer' = IF writer \in Ids THEN Nobody ELSE writer
    /\ \E sent \in SUBSET {i \in Ids : at[i] = "committing"} :
            rows' = rows \union {RunnerRow(i) : i \in sent}
    /\ UNCHANGED <<tasks, result, response, report, pipeline, columns>>

RunTask(i) == Enter(i) \/ Answer(i) \/ Insert(i) \/ Commit(i)

RunnerStep ==
    \/ Start \/ Report \/ CancelRest
    \/ \E i \in Ids : RunTask(i)

-----------------------------------------------------------------------------
(* A process of run_pipeline.py: run() has its answer, and                 *)
(* save_pipeline_result stores it.                                         *)

MovesTo(p, place) == pipeline' = [pipeline EXCEPT ![p] = place]

(* The table is created if there is none, and its columns are read.        *)
ReadColumns(p) ==
    /\ pipeline[p] = "running"
    /\ columns' = IF columns = 0 THEN 8 ELSE columns
    /\ MovesTo(p, IF columns = 9 THEN "inserting" ELSE "widening")
    /\ UNCHANGED <<runnerVars, rows, writer>>

(* ALTER TABLE, which fails if the table is locked or another was faster.  *)
Widen(p) ==
    /\ pipeline[p] = "widening"
    /\ IF writer # Nobody THEN MovesTo(p, "locked out") /\ UNCHANGED columns
       ELSE IF columns = 9 THEN MovesTo(p, "duplicate") /\ UNCHANGED columns
       ELSE MovesTo(p, "inserting") /\ columns' = 9
    /\ UNCHANGED <<runnerVars, rows, writer>>

PipelineInsert(p) ==
    /\ pipeline[p] = "inserting"
    /\ IF writer # Nobody THEN MovesTo(p, "locked out") /\ UNCHANGED writer
       ELSE MovesTo(p, "committing") /\ writer' = p
    /\ UNCHANGED <<runnerVars, columns, rows>>

(* What the agents answer without a key.                                   *)
OfflineResponse(task) ==
    CASE task.kind = "math" ->
            [answer |-> task.truth, confidence |-> 70, confidenceLast |-> FALSE]
      [] task.kind = "coding" ->
            [answer |-> IF task.truth = Four THEN Four ELSE Hello,
             confidence |-> 65, confidenceLast |-> FALSE]
      [] task.kind = "triage" ->
            [answer |-> task.truth, confidence |-> 68, confidenceLast |-> FALSE]

(* The output that was voted for is verified and stored.                   *)
PipelineCommit(p) ==
    /\ pipeline[p] = "committing"
    /\ MovesTo(p, "saved")
    /\ writer' = Nobody
    /\ \E r \in Responses \union {OfflineResponse(PipelineTask)} :
        LET v == Verified(PipelineTask, r)
        IN  rows' = rows \union {[run |-> p, task |-> 0, correct |-> v.correct,
                                  confidence |-> v.confidence]}
    /\ UNCHANGED <<runnerVars, columns>>

PipelineStep(p) ==
    ReadColumns(p) \/ Widen(p) \/ PipelineInsert(p) \/ PipelineCommit(p)

Next == RunnerStep \/ \E p \in Pipelines : PipelineStep(p)

(* The event loop runs what is ready; every await ends: a call within 30   *)
(* seconds, a wait for the lock within five.                               *)
Spec == Init /\ [][Next]_vars /\ WF_vars(RunnerStep)

-----------------------------------------------------------------------------
(* Properties.                                                             *)

Row == [run : {Runner} \union Pipelines, task : Nat, correct : BOOLEAN, confidence : 0..100]

TypeOK ==
    /\ tasks \in TaskLists
    /\ run \in {"new", "running", "raising", "reported", "failed"}
    /\ at \in [Ids -> {"queued", "calling", "inserting", "committing",
                       "done", "failed", "cancelled"}]
    /\ result \in [Ids -> [correct : BOOLEAN, confidence : 0..100 \union {Absent}]]
    /\ response \in [Ids -> Response]
    /\ report \in [weighted : Nat, correct : Nat, falseConfidence : Nat,
                   total : Nat \union {Absent}]
    /\ pipeline \in [Pipelines -> {"running", "widening", "inserting", "committing",
                                   "saved", "duplicate", "locked out"}]
    /\ columns \in {0, 8, 9}
    /\ \A row \in rows : row \in Row
    /\ writer \in {Nobody} \union Ids \union Pipelines

(* The write lock is held exactly by who is between its INSERT and its     *)
(* commit, through failures and cancellations of others and its own.       *)
LockHeldByWriter ==
    /\ \A i \in Ids : (writer = i) <=> at[i] = "committing"
    /\ \A p \in Pipelines : (writer = p) <=> pipeline[p] = "committing"

(* ALTER TABLE fails with a duplicate column only if another pipeline added*)
(* the column after this one had looked; it may also find the table locked.*)
DuplicateColumnNeedsRival ==
    \A p \in Pipelines : pipeline[p] = "duplicate" =>
        \E q \in Pipelines \ {p} :
            pipeline[q] \in {"inserting", "committing", "saved", "locked out"}

(* What the processes that share the database do to one another.           *)
WritersApart == LockHeldByWriter /\ DuplicateColumnNeedsRival

(* A task that returned has its row, with its result; one that has not     *)
(* got to its commit has none, and no task has two.                        *)
RowsMatchTasks ==
    \A i \in Ids :
        LET mine == {row \in RowsOf(Runner) : row.task = i}
        IN  /\ at[i] = "done" => mine = {RunnerRow(i)}
            /\ at[i] = "cancelled" => mine \subseteq {RunnerRow(i)}
            /\ at[i] \notin {"done", "cancelled"} => mine = {}

(* A report counts every task of the run once, whatever other processes    *)
(* stored meanwhile; and its score is the same whatever the confidence of  *)
(* the answers, for the penalty of false confidence never bites.           *)
ReportCountsAllTasks ==
    run = "reported" =>
        LET solved == {i \in Ids : result[i].correct}
        IN  /\ report.total = Cardinality(Ids)
            /\ report.correct = Cardinality(solved)
            /\ report.weighted = MapThenSumSet(LAMBDA i : tasks[i].difficulty, solved)

(* A run with a task still to insert when a pipeline has widened the table *)
(* is going to fail.                                                       *)
Doomed ==
    /\ run = "running"
    /\ columns = 9
    /\ \E i \in Ids : at[i] \in {"queued", "calling", "inserting"}

(* Every run ends, reported or failed, whatever the model, the lock and    *)
(* the other processes do; one whose table is widened on the way fails,    *)
(* and the answers it has paid for are not reported.                       *)
RunEnds ==
    /\ run = "running" ~> run \in {"reported", "failed"}
    /\ Doomed ~> run = "failed"

=============================================================================
