---------------------------- MODULE JobLifecycle ----------------------------
(***************************************************************************)
(* The life of a research job: the API that creates and deletes it         *)
(* (apps/api/routers/jobs.py), the broker that carries its one Celery      *)
(* message (src/core/celery_app.py), the workers that run it               *)
(* (src/graph/tasks.py, the transaction skeleton of src/graph/pipeline.py) *)
(* and the rows all of them share in PostgreSQL (src/models/orm.py).       *)
(*                                                                         *)
(* What the research itself finds is a nondeterministic choice here.       *)
(* Locks are not state of their own: which row a long transaction has      *)
(* locked follows from how far its worker has come (HoldsRow, HoldsKey).   *)
(***************************************************************************)
EXTENDS Naturals, FiniteSets

CONSTANTS
    Jobs,        \* job ids; each one is POSTed at most once (uuid4)
    Workers,     \* Celery worker processes, each running one task at a time
    Faults,      \* which of FaultKinds the environment may inject
    MaxCrashes,  \* bound: worker processes killed in the middle of a task
    MaxTimeouts  \* bound: messages handed out again while a worker still runs

FaultKinds == {"enqueue", "setup", "research", "handler"}

ASSUME FaultsAssumption == Faults \subseteq FaultKinds
ASSUME BoundsAssumption == MaxCrashes \in Nat /\ MaxTimeouts \in Nat

VARIABLES
    jobs,      \* the committed row of each job in table jobs, or NoRow
    reports,   \* the committed reports rows of each job: [run, insufficient]
    claims,    \* the runs of each job whose claims (and evidence) are committed
    api,       \* how far POST /jobs has come for each job
    deletion,  \* how far DELETE /jobs/{id} has come, and the children it selected
    message,   \* where each job's Celery message is
    pc,        \* the step a worker is at in _run_research_job
    task,      \* the job a worker is running
    snap,      \* the row a worker's session loaded with session.get
    txn,       \* what run_research's first flush sent to the database
    run,       \* the number of a worker's run: the start order of the long
               \* transactions of a job, which is what created_at records
    begun,     \* how many runs of each job have started
    crashes, timeouts

apiVars    == <<api, deletion>>
dbVars     == <<jobs, reports, claims>>
workerVars == <<pc, task, snap, txn, run>>
envVars    == <<begun, crashes, timeouts>>
vars       == <<jobs, reports, claims, api, deletion, message,
                pc, task, snap, txn, run, begun, crashes, timeouts>>

NoJob == "no job"
ASSUME NoJobAssumption == NoJob \notin Jobs

NonTerminal        == {"PENDING", "RUNNING"}
TERMINAL_STATUSES  == {"SUCCEEDED", "FAILED"}
DELETABLE_STATUSES == {"SUCCEEDED", "FAILED"}

\* The columns of ResearchJob that the protocol reads or writes. error and
\* progress stand for error_message and progress_detail: whether they are set,
\* and for progress which of the two writers set it last.
ResearchJob == [status       : NonTerminal \cup TERMINAL_STATUSES,
                insufficient : BOOLEAN,
                error        : BOOLEAN,
                progress     : {"none", "starting", "working"}]

NoRow == [status |-> "ABSENT", insufficient |-> FALSE, error |-> FALSE, progress |-> "none"]

NewRow(status) ==
    [status |-> status, insufficient |-> FALSE, error |-> FALSE, progress |-> "none"]

Exists(row) == row.status # "ABSENT"

\* The row after a session that loaded `seen` and holds the object `obj` emits
\* its UPDATE: the unit of work writes the changed columns and no others.
Save(row, seen, obj) ==
    [status       |-> IF obj.status = seen.status THEN row.status ELSE obj.status,
     insufficient |-> IF obj.insufficient = seen.insufficient
                      THEN row.insufficient ELSE obj.insufficient,
     error        |-> IF obj.error = seen.error THEN row.error ELSE obj.error,
     progress     |-> IF obj.progress = seen.progress THEN row.progress ELSE obj.progress]

Steps == {"start", "flip", "setup", "begin", "flush", "plan", "work", "cite", "handler", "ack"}

\* The steps at which a worker may still write to its job.
WritingSteps == Steps \ {"ack"}

\* The steps covered by the inner try of _run_research_job.
ResearchSteps == {"begin", "flush", "plan", "work", "cite"}

Active(w, j)  == pc[w] # "idle" /\ task[w] = j
Writing(w, j) == pc[w] \in WritingSteps /\ task[w] = j

\* Row locks of the long transactions. An uncommitted UPDATE holds the row; an
\* inserted claim holds a key-share lock on it, which only a DELETE waits for;
\* an uncommitted INSERT makes another INSERT of the same id wait.
HoldsRow(w, j)  == task[w] = j /\ txn[w] = "dirty"
HoldsKey(w, j)  == task[w] = j /\ pc[w] = "cite"
Inserting(w, j) == task[w] = j /\ txn[w] = "insert"

Locked(j) == \E w \in Workers : HoldsRow(w, j)
LockedByOther(w, j) == \E v \in Workers \ {w} : HoldsRow(v, j)

-----------------------------------------------------------------------------
Init ==
    /\ jobs     = [j \in Jobs |-> NoRow]
    /\ reports  = [j \in Jobs |-> {}]
    /\ claims   = [j \in Jobs |-> {}]
    /\ api      = [j \in Jobs |-> "new"]
    /\ deletion = [j \in Jobs |-> [phase |-> "none", reports |-> {}, claims |-> {}]]
    /\ message  = [j \in Jobs |-> "none"]
    /\ pc       = [w \in Workers |-> "idle"]
    /\ task     = [w \in Workers |-> NoJob]
    /\ snap     = [w \in Workers |-> NoRow]
    /\ txn      = [w \in Workers |-> "none"]
    /\ run      = [w \in Workers |-> 0]
    /\ begun    = [j \in Jobs |-> 0]
    /\ crashes  = 0
    /\ timeouts = 0

-----------------------------------------------------------------------------
(* POST /jobs: the row is committed first, the message is sent second.      *)

CreateJob(j) ==
    /\ api[j] = "new"
    /\ api'  = [api EXCEPT ![j] = "created"]
    /\ jobs' = [jobs EXCEPT ![j] = NewRow("PENDING")]
    /\ UNCHANGED <<reports, claims, deletion, message, workerVars, envVars>>

\* Mutant: a publish that is retried although it already arrived.
EnqueueJob_Retried(j) ==
    /\ api[j] = "created"
    /\ message' = [message EXCEPT ![j] = "queued"]
    /\ UNCHANGED <<dbVars, apiVars, workerVars, envVars>>

EnqueueJob(j) ==
    /\ api[j] = "created"
    /\ api'     = [api EXCEPT ![j] = "accepted"]
    /\ message' = [message EXCEPT ![j] = "queued"]
    /\ UNCHANGED <<dbVars, deletion, workerVars, envVars>>

\* The broker is unreachable, or the API process dies between the two.
EnqueueFails(j) ==
    /\ "enqueue" \in Faults
    /\ api[j] = "created"
    /\ api' = [api EXCEPT ![j] = "failed"]
    /\ UNCHANGED <<dbVars, deletion, message, workerVars, envVars>>

(* DELETE /jobs/{id}: check the status, select the children, then delete    *)
(* them and the row in one transaction. A job that is absent or not         *)
(* finished is refused without touching anything.                           *)

\* Mutant: the status of the job is not looked at.
DeleteCheck_AnyStatus(j) ==
    /\ deletion[j].phase = "none"
    /\ Exists(jobs[j])
    /\ deletion' = [deletion EXCEPT ![j].phase = "checked"]
    /\ UNCHANGED <<dbVars, api, message, workerVars, envVars>>

DeleteCheck(j) ==
    /\ deletion[j].phase = "none"
    /\ jobs[j].status \in DELETABLE_STATUSES
    /\ deletion' = [deletion EXCEPT ![j].phase = "checked"]
    /\ UNCHANGED <<dbVars, api, message, workerVars, envVars>>

DeleteSelect(j) ==
    /\ deletion[j].phase = "checked"
    /\ deletion' = [deletion EXCEPT ![j] =
                       [phase |-> "selected", reports |-> reports[j], claims |-> claims[j]]]
    /\ UNCHANGED <<dbVars, api, message, workerVars, envVars>>

\* Mutant: without the foreign keys, what the select missed stays behind.
DeleteCommit_NoForeignKeys(j) ==
    /\ deletion[j].phase = "selected"
    /\ \A w \in Workers : ~HoldsRow(w, j)
    /\ deletion' = [deletion EXCEPT ![j] = [phase |-> "none", reports |-> {}, claims |-> {}]]
    /\ jobs'    = [jobs EXCEPT ![j] = NoRow]
    /\ reports' = [reports EXCEPT ![j] = @ \ deletion[j].reports]
    /\ claims'  = [claims EXCEPT ![j] = @ \ deletion[j].claims]
    /\ UNCHANGED <<api, message, workerVars, envVars>>

\* The DELETE of the row waits for every lock on it. A child committed since
\* the select violates its foreign key, and everything is rolled back.
DeleteCommit(j) ==
    /\ deletion[j].phase = "selected"
    /\ \A w \in Workers : ~HoldsRow(w, j) /\ ~HoldsKey(w, j)
    /\ deletion' = [deletion EXCEPT ![j] = [phase |-> "none", reports |-> {}, claims |-> {}]]
    /\ \/ /\ deletion[j].reports = reports[j]
          /\ deletion[j].claims = claims[j]
          /\ jobs'    = [jobs EXCEPT ![j] = NoRow]
          /\ reports' = [reports EXCEPT ![j] = {}]
          /\ claims'  = [claims EXCEPT ![j] = {}]
       \/ /\ deletion[j].reports # reports[j] \/ deletion[j].claims # claims[j]
          /\ UNCHANGED dbVars
    /\ UNCHANGED <<api, message, workerVars, envVars>>

-----------------------------------------------------------------------------
(* The broker: Redis through Celery with late acknowledgement. A message    *)
(* keeps its delivery tag, so it is in the queue, among the unacknowledged  *)
(* ones, or gone, whoever acknowledges it.                                  *)

\* Mutant: task_acks_late is off, the message is acknowledged on receipt.
TakeMessage_AcksEarly(w, j) ==
    /\ pc[w] = "idle"
    /\ message[j] = "queued"
    /\ message' = [message EXCEPT ![j] = "none"]
    /\ pc'   = [pc EXCEPT ![w] = "start"]
    /\ task' = [task EXCEPT ![w] = j]
    /\ UNCHANGED <<dbVars, apiVars, snap, txn, run, envVars>>

TakeMessage(w, j) ==
    /\ pc[w] = "idle"
    /\ message[j] = "queued"
    /\ message' = [message EXCEPT ![j] = "unacked"]
    /\ pc'   = [pc EXCEPT ![w] = "start"]
    /\ task' = [task EXCEPT ![w] = j]
    /\ UNCHANGED <<dbVars, apiVars, snap, txn, run, envVars>>

\* A task that returned or raised is acknowledged; acknowledging a message
\* that was put back in the queue in the meantime removes nothing.
AckMessage(w) ==
    /\ pc[w] = "ack"
    /\ message' = [message EXCEPT ![task[w]] = IF @ = "unacked" THEN "none" ELSE @]
    /\ pc'   = [pc EXCEPT ![w] = "idle"]
    /\ task' = [task EXCEPT ![w] = NoJob]
    /\ snap' = [snap EXCEPT ![w] = NoRow]
    /\ run'  = [run EXCEPT ![w] = 0]
    /\ UNCHANGED <<dbVars, apiVars, txn, envVars>>

\* Mutant: the message of a dead worker is never restored.
Redeliver_OnlyFromTheLiving(j) ==
    /\ message[j] = "unacked"
    /\ \E w \in Workers : Active(w, j)
    /\ timeouts < MaxTimeouts
    /\ timeouts' = timeouts + 1
    /\ message' = [message EXCEPT ![j] = "queued"]
    /\ UNCHANGED <<dbVars, apiVars, workerVars, begun, crashes>>

\* The visibility timeout of an unacknowledged message ends: an idle worker's
\* event loop puts it back. When its worker is dead this recovers the job;
\* when it is only slow, the job is run a second time beside it.
Redeliver(j) ==
    /\ message[j] = "unacked"
    /\ \E w \in Workers : pc[w] = "idle"
    /\ \/ /\ \A w \in Workers : ~Active(w, j)
          /\ UNCHANGED timeouts
       \/ /\ \E w \in Workers : Active(w, j)
          /\ timeouts < MaxTimeouts
          /\ timeouts' = timeouts + 1
    /\ message' = [message EXCEPT ![j] = "queued"]
    /\ UNCHANGED <<dbVars, apiVars, workerVars, begun, crashes>>

\* Mutant: the dead worker's transaction stays open.
Crash_KeepsTransaction(w) ==
    /\ crashes < MaxCrashes
    /\ pc[w] # "idle"
    /\ crashes' = crashes + 1
    /\ pc'   = [pc EXCEPT ![w] = "idle"]
    /\ task' = [task EXCEPT ![w] = NoJob]
    /\ snap' = [snap EXCEPT ![w] = NoRow]
    /\ run'  = [run EXCEPT ![w] = 0]
    /\ UNCHANGED <<dbVars, apiVars, message, txn, begun, timeouts>>

\* The process is killed: its transactions roll back, its message stays
\* unacknowledged, and it is started again.
Crash(w) ==
    /\ crashes < MaxCrashes
    /\ pc[w] # "idle"
    /\ crashes' = crashes + 1
    /\ pc'   = [pc EXCEPT ![w] = "idle"]
    /\ task' = [task EXCEPT ![w] = NoJob]
    /\ snap' = [snap EXCEPT ![w] = NoRow]
    /\ txn'  = [txn EXCEPT ![w] = "none"]
    /\ run'  = [run EXCEPT ![w] = 0]
    /\ UNCHANGED <<dbVars, apiVars, message, begun, timeouts>>

-----------------------------------------------------------------------------
(* _run_research_job, before its inner try.                                 *)

Goto(w, step) == pc' = [pc EXCEPT ![w] = step]

FetchJob(w) ==
    LET j == task[w] IN
    /\ pc[w] = "start"
    /\ snap' = [snap EXCEPT ![w] = jobs[j]]
    /\ Goto(w, IF Exists(jobs[j]) THEN "flip" ELSE "setup")
    /\ UNCHANGED <<dbVars, apiVars, message, task, txn, run, envVars>>

\* Mutant: the early commit reports progress but leaves the status to the long
\* transaction.
FlipToRunning_ProgressOnly(w) ==
    LET j == task[w] IN
    /\ pc[w] = "flip"
    /\ ~Locked(j)
    /\ jobs' = [jobs EXCEPT ![j] = IF Exists(@) THEN [@ EXCEPT !.progress = "starting"] ELSE @]
    /\ Goto(w, "setup")
    /\ UNCHANGED <<reports, claims, apiVars, message, task, snap, txn, run, envVars>>

\* An UPDATE of a row deleted since the get raises, outside the inner try.
FlipToRunning(w) ==
    LET j   == task[w]
        obj == [snap[w] EXCEPT !.status = "RUNNING", !.progress = "starting"]
    IN
    /\ pc[w] = "flip"
    /\ \/ /\ obj = snap[w]
          /\ Goto(w, "setup")
          /\ UNCHANGED jobs
       \/ /\ obj # snap[w] /\ ~Locked(j) /\ Exists(jobs[j])
          /\ jobs' = [jobs EXCEPT ![j] = Save(@, snap[w], obj)]
          /\ Goto(w, "setup")
       \/ /\ obj # snap[w] /\ ~Exists(jobs[j])
          /\ Goto(w, "ack")
          /\ UNCHANGED jobs
    /\ UNCHANGED <<reports, claims, apiVars, message, task, snap, txn, run, envVars>>

SetUpClients(w) ==
    /\ pc[w] = "setup"
    /\ Goto(w, "begin")
    /\ UNCHANGED <<dbVars, apiVars, message, task, snap, txn, run, envVars>>

\* The engine, a client, the sparse encoder or the prompt repository raises.
SetUpFails(w) ==
    /\ "setup" \in Faults
    /\ pc[w] \in {"start", "flip", "setup"}
    /\ Goto(w, "ack")
    /\ UNCHANGED <<dbVars, apiVars, message, task, snap, txn, run, envVars>>

-----------------------------------------------------------------------------
(* run_research, one long transaction.                                      *)

BeginResearch(w) ==
    LET j == task[w] IN
    /\ pc[w] = "begin"
    /\ snap'  = [snap EXCEPT ![w] = jobs[j]]
    /\ begun' = [begun EXCEPT ![j] = @ + 1]
    /\ run'   = [run EXCEPT ![w] = begun[j] + 1]
    /\ Goto(w, "flush")
    /\ UNCHANGED <<dbVars, apiVars, message, task, txn, crashes, timeouts>>

\* Get or create. Leaves the transaction clean when the row already said
\* RUNNING, dirty when an UPDATE was sent, and raises on a duplicate key or on
\* a row that has gone.
FlushRunning(w) ==
    LET j == task[w] IN
    /\ pc[w] = "flush"
    /\ \/ /\ ~Exists(snap[w]) /\ ~Exists(jobs[j])
          /\ \A v \in Workers \ {w} : ~Inserting(v, j)
          /\ txn' = [txn EXCEPT ![w] = "insert"]
          /\ Goto(w, "plan")
       \/ /\ ~Exists(snap[w]) /\ Exists(jobs[j])
          /\ Goto(w, "handler")
          /\ UNCHANGED txn
       \/ /\ snap[w].status = "RUNNING"
          /\ txn' = [txn EXCEPT ![w] = "clean"]
          /\ Goto(w, "plan")
       \/ /\ Exists(snap[w]) /\ snap[w].status # "RUNNING"
          /\ Exists(jobs[j]) /\ ~Locked(j)
          /\ txn' = [txn EXCEPT ![w] = "dirty"]
          /\ Goto(w, "plan")
       \/ /\ Exists(snap[w]) /\ snap[w].status # "RUNNING" /\ ~Exists(jobs[j])
          /\ Goto(w, "handler")
          /\ UNCHANGED txn
    /\ UNCHANGED <<dbVars, apiVars, message, task, snap, run, envVars>>

\* on_progress: a session of its own, so it waits for a row lock even when the
\* worker's own long transaction holds it.
ReportProgress(w) ==
    LET j == task[w] IN
    /\ pc[w] \in {"plan", "work"}
    /\ \/ /\ ~Exists(jobs[j])
          /\ UNCHANGED jobs
       \/ /\ Exists(jobs[j]) /\ ~Locked(j)
          /\ jobs' = [jobs EXCEPT ![j].progress = "working"]
    /\ Goto(w, "work")
    /\ UNCHANGED <<reports, claims, apiVars, message, task, snap, txn, run, envVars>>

\* The first claim is flushed: its foreign key needs the job's row.
WriteClaims(w) ==
    LET j == task[w] IN
    /\ pc[w] = "work"
    /\ \/ /\ Exists(jobs[j]) \/ txn[w] = "insert"
          /\ Goto(w, "cite")
          /\ UNCHANGED txn
       \/ /\ ~Exists(jobs[j]) /\ txn[w] # "insert"
          /\ Goto(w, "handler")
          /\ txn' = [txn EXCEPT ![w] = "none"]
    /\ UNCHANGED <<dbVars, apiVars, message, task, snap, run, envVars>>

\* The job object of the long session as it was last flushed, and as the end of
\* run_research leaves it.
FlushedObject(w) ==
    IF txn[w] = "insert" THEN NewRow("RUNNING") ELSE [snap[w] EXCEPT !.status = "RUNNING"]

\* Mutant: the declaration of insufficiency does not set the flag.
FinishedObject_NoFlag(w, insufficient) ==
    [FlushedObject(w) EXCEPT !.status = "SUCCEEDED"]

FinishedObject(w, insufficient) ==
    [FlushedObject(w) EXCEPT !.status = "SUCCEEDED", !.insufficient = @ \/ insufficient]

\* The last flush and the caller's commit: status SUCCEEDED, the report, and
\* the claims if any were written.
Commit(w, insufficient, withClaims) ==
    LET j   == task[w]
        row == IF txn[w] = "insert" THEN FlushedObject(w) ELSE jobs[j]
    IN
    \/ /\ Exists(row) /\ ~LockedByOther(w, j)
       /\ jobs'    = [jobs EXCEPT ![j] = Save(row, FlushedObject(w), FinishedObject(w, insufficient))]
       /\ reports' = [reports EXCEPT ![j] =
                         @ \cup {[run |-> run[w], insufficient |-> insufficient]}]
       /\ claims'  = [claims EXCEPT ![j] = IF withClaims THEN @ \cup {run[w]} ELSE @]
       /\ txn'     = [txn EXCEPT ![w] = "none"]
       /\ Goto(w, "ack")
    \/ /\ ~Exists(row)
       /\ txn' = [txn EXCEPT ![w] = "none"]
       /\ Goto(w, "handler")
       /\ UNCHANGED dbVars

\* Mutant: the early return forgets the report.
DeclareInsufficient_NoReport(w) ==
    /\ pc[w] = "work"
    /\ Exists(jobs[task[w]]) /\ ~LockedByOther(w, task[w])
    /\ jobs' = [jobs EXCEPT ![task[w]].status = "SUCCEEDED", ![task[w]].insufficient = TRUE]
    /\ txn'  = [txn EXCEPT ![w] = "none"]
    /\ Goto(w, "ack")
    /\ UNCHANGED <<reports, claims, apiVars, message, task, snap, run, envVars>>

\* No sub-question produced verified evidence, or no claim cited any.
DeclareInsufficient(w) ==
    /\ pc[w] = "work"
    /\ Commit(w, TRUE, FALSE)
    /\ UNCHANGED <<apiVars, message, task, snap, run, envVars>>

\* The citations were validated; insufficient when every claim was removed.
FinishReport(w) ==
    /\ pc[w] = "cite"
    /\ \E insufficient \in BOOLEAN : Commit(w, insufficient, TRUE)
    /\ UNCHANGED <<apiVars, message, task, snap, run, envVars>>

ResearchFails(w) ==
    /\ "research" \in Faults
    /\ pc[w] \in ResearchSteps
    /\ txn' = [txn EXCEPT ![w] = "none"]
    /\ Goto(w, "handler")
    /\ UNCHANGED <<dbVars, apiVars, message, task, snap, run, envVars>>

\* The except branch: a session of its own marks the row FAILED, if it exists.
MarkFailed(w) ==
    LET j == task[w] IN
    /\ pc[w] = "handler"
    /\ \/ /\ ~Exists(jobs[j])
          /\ UNCHANGED jobs
       \/ /\ Exists(jobs[j]) /\ ~Locked(j)
          /\ jobs' = [jobs EXCEPT ![j].status = "FAILED", ![j].error = TRUE]
    /\ Goto(w, "ack")
    /\ UNCHANGED <<reports, claims, apiVars, message, task, snap, txn, run, envVars>>

\* The failure session itself fails (the database is what was unreachable).
MarkFailedFails(w) ==
    /\ "handler" \in Faults
    /\ pc[w] = "handler"
    /\ Goto(w, "ack")
    /\ UNCHANGED <<dbVars, apiVars, message, task, snap, txn, run, envVars>>

-----------------------------------------------------------------------------
TaskStep(w) ==
    \/ FetchJob(w) \/ FlipToRunning(w) \/ SetUpClients(w)
    \/ BeginResearch(w) \/ FlushRunning(w) \/ ReportProgress(w) \/ WriteClaims(w)
    \/ DeclareInsufficient(w) \/ FinishReport(w) \/ MarkFailed(w) \/ AckMessage(w)

RunTask(w) ==
    TaskStep(w) \/ SetUpFails(w) \/ ResearchFails(w) \/ MarkFailedFails(w)

Next ==
    \/ \E j \in Jobs : \/ CreateJob(j) \/ EnqueueJob(j) \/ EnqueueFails(j)
                       \/ DeleteCheck(j) \/ DeleteSelect(j) \/ DeleteCommit(j)
                       \/ Redeliver(j)
    \/ \E w \in Workers : \/ RunTask(w) \/ Crash(w)
                          \/ \E j \in Jobs : TakeMessage(w, j)

Spec == Init /\ [][Next]_vars

\* Workers keep running, the queue keeps being consumed and unacknowledged
\* messages keep being restored: what a running deployment provides. Nobody has
\* to create or delete a job, and nothing has to fail or crash.
Fairness ==
    /\ \A w \in Workers : /\ WF_vars(TaskStep(w))
                          /\ \A j \in Jobs : WF_vars(TakeMessage(w, j))
    /\ \A j \in Jobs : WF_vars(EnqueueJob(j)) /\ WF_vars(Redeliver(j))

FairSpec == Spec /\ Fairness

-----------------------------------------------------------------------------
(* Properties.                                                              *)

Report == [run : Nat, insufficient : BOOLEAN]

\* Every variable keeps its shape: rows are rows of the schema, a worker has a
\* task exactly when it is not idle, and only a run in progress has an open
\* transaction.
TypeOK ==
    /\ jobs \in [Jobs -> ResearchJob \cup {NoRow}]
    /\ reports \in [Jobs -> SUBSET Report]
    /\ claims \in [Jobs -> SUBSET Nat]
    /\ api \in [Jobs -> {"new", "created", "accepted", "failed"}]
    /\ deletion \in [Jobs -> [phase   : {"none", "checked", "selected"},
                              reports : SUBSET Report,
                              claims  : SUBSET Nat]]
    /\ message \in [Jobs -> {"none", "queued", "unacked"}]
    /\ pc \in [Workers -> Steps \cup {"idle"}]
    /\ task \in [Workers -> Jobs \cup {NoJob}]
    /\ \A w \in Workers : (pc[w] = "idle") <=> (task[w] = NoJob)
    /\ snap \in [Workers -> ResearchJob \cup {NoRow}]
    /\ txn \in [Workers -> {"none", "clean", "dirty", "insert"}]
    /\ \A w \in Workers : txn[w] # "none" => pc[w] \in {"plan", "work", "cite"}
    /\ run \in [Workers -> Nat]
    /\ begun \in [Jobs -> Nat]
    /\ crashes \in 0 .. MaxCrashes
    /\ timeouts \in 0 .. MaxTimeouts

\* A job that GET /jobs/{id} reports as SUCCEEDED has a report to show, however
\* runs, crashes, repeated deliveries and deletions interleave (jobs.py falls
\* back to a null final_report otherwise).
SucceededHasReport ==
    \A j \in Jobs : jobs[j].status = "SUCCEEDED" => reports[j] # {}

\* No report or claim outlives its job: a delete takes every child committed so
\* far, and a run that commits after it must fail or bring its own row back.
NoOrphanRows ==
    \A j \in Jobs : ~Exists(jobs[j]) => reports[j] = {} /\ claims[j] = {}

\* Somebody will still move job j: the API is about to enqueue it, its message
\* is queued, its message is unacknowledged with nobody working on it (the
\* broker will restore it), or a worker has yet to write its outcome.
InCustody(j) ==
    \/ api[j] = "created"
    \/ message[j] = "queued"
    \/ message[j] = "unacked" /\ \A w \in Workers : ~Active(w, j)
    \/ \E w \in Workers : Writing(w, j)

\* No job is silently dropped: a row that still says PENDING or RUNNING is in
\* somebody's custody. This is what acks_late and reject_on_worker_lost are for.
NoLostJob ==
    \A j \in Jobs : jobs[j].status \in NonTerminal => InCustody(j)

\* A row that says RUNNING is being run, or will be: a failed run marks the job
\* FAILED "rather than leaving it stuck RUNNING forever" (test_tasks.py).
RunningIsRun ==
    \A j \in Jobs : jobs[j].status = "RUNNING" => InCustody(j)

\* Without a repeated delivery to a live worker, crashes never make two workers
\* run the same job at the same time.
OneWorkerPerJob ==
    \A v, w \in Workers : \A j \in Jobs : Active(v, j) /\ Active(w, j) => v = w

\* A worker never waits, in on_progress, for the row lock of its own long
\* transaction: no event but its death would end that wait.
NoSelfDeadlock ==
    \A w \in Workers :
        ~(pc[w] \in {"plan", "work"} /\ HoldsRow(w, task[w]) /\ Exists(jobs[task[w]]))

\* The report GET /jobs/{id} shows: the one whose transaction started last.
LatestReport(j) == CHOOSE r \in reports[j] : \A q \in reports[j] : q.run <= r.run

\* A job is deleted only once it is finished: no worker that may still write to
\* it is running it when its row disappears (the comment at DELETABLE_STATUSES).
DeletedOnlyWhenFinished ==
    [][\A j \in Jobs : Exists(jobs[j]) /\ ~Exists(jobs'[j])
                          => \A w \in Workers : ~Writing(w, j)]_vars

\* Every job whose row exists is eventually finished or deleted.
EveryJobFinishes ==
    \A j \in Jobs : jobs[j].status \in NonTerminal ~> jobs[j].status \notin NonTerminal

\* Every task ends and its worker becomes free for the next message: no wait
\* for a lock, its own or another's, lasts for ever.
EveryTaskEnds ==
    \A w \in Workers : pc[w] # "idle" ~> pc[w] = "idle"
-----------------------------------------------------------------------------
(* What a client of the API sees of job j (_load_job_response): the report  *)
(* only once the job SUCCEEDED, and a job it created and then deleted as    *)
(* gone.                                                                    *)

JobResponse(j) ==
    [status       |-> IF Exists(jobs[j]) THEN jobs[j].status
                      ELSE IF api[j] = "new" THEN "NEW" ELSE "DELETED",
     insufficient |-> jobs[j].insufficient,
     error        |-> jobs[j].error,
     report       |-> IF jobs[j].status # "SUCCEEDED" \/ reports[j] = {} THEN "none"
                      ELSE IF LatestReport(j).insufficient THEN "insufficient" ELSE "answer"]

Service == INSTANCE JobService
    WITH view <- [j \in Jobs |-> JobResponse(j)], workerLost <- crashes > 0

\* While no message is handed out beside a live worker, the API, broker, workers
\* and database together keep the promises of JobService: one outcome per job,
\* shown whole, and no way back from a deletion, unless a worker was lost.
ImplementsService == Service!Spec
=============================================================================
