----------------------------- MODULE JobService -----------------------------
(***************************************************************************)
(* What the job API promises a client, and nothing of how: a job is        *)
(* accepted, starts, and ends once, with an answer, with a declaration of  *)
(* insufficient evidence or with an error; a finished job may be deleted,  *)
(* and a deleted one never comes back. Once a worker was lost, jobs may be *)
(* run again: an outcome is then withdrawn and replaced, and may still     *)
(* carry the flags of the one before, but it is never half shown, never    *)
(* replaced without going through RUNNING, and always replaced.            *)
(* The view of a job is what GET /jobs/{id} returns for it (JobResponse in *)
(* apps/api/routers/jobs.py).                                              *)
(***************************************************************************)
CONSTANT Jobs

VARIABLES view, workerLost

vars == <<view, workerLost>>

\* The flag is insufficient_evidence, the error error_message; a report is shown
\* only of a SUCCEEDED job.
View(status, insufficient, error, report) ==
    [status |-> status, insufficient |-> insufficient, error |-> error, report |-> report]

Fresh(status) == View(status, FALSE, FALSE, "none")
Unborn  == Fresh("NEW")
Deleted == Fresh("DELETED")

Init == view = [j \in Jobs |-> Unborn] /\ workerLost = FALSE

Becomes(j, v) == view' = [view EXCEPT ![j] = v] /\ UNCHANGED workerLost

Accept(j) ==
    /\ view[j] = Unborn
    /\ Becomes(j, Fresh("PENDING"))

Start(j) ==
    /\ view[j].status = "PENDING"
    /\ Becomes(j, Fresh("RUNNING"))

Answered(v) == View("SUCCEEDED", v.insufficient, v.error, "answer")
Declared(v) == View("SUCCEEDED", TRUE, v.error, "insufficient")

Answer(j)       == view[j].status = "RUNNING" /\ Becomes(j, Answered(view[j]))
Insufficient(j) == view[j].status = "RUNNING" /\ Becomes(j, Declared(view[j]))

Fail(j) ==
    /\ view[j].status = "RUNNING"
    /\ Becomes(j, View("FAILED", view[j].insufficient, TRUE, "none"))

Delete(j) ==
    /\ view[j].status \in {"SUCCEEDED", "FAILED"}
    /\ Becomes(j, Deleted)

LoseWorker == workerLost' = TRUE /\ UNCHANGED view

\* The message of a finished job is delivered again: nothing clears the columns
\* of the outcome that is withdrawn.
RunAgain(j) ==
    /\ workerLost /\ view[j].status \in {"SUCCEEDED", "FAILED"}
    /\ Becomes(j, View("RUNNING", view[j].insufficient, view[j].error, "none"))

\* It is deleted by a request that saw it finished, while it runs again.
DeleteInFlight(j) ==
    /\ workerLost /\ view[j].status = "RUNNING"
    /\ Becomes(j, Deleted)

\* The run outlives the deletion and brings the job back, finished.
Resurrect(j) ==
    /\ workerLost /\ view[j] = Deleted
    /\ Becomes(j, Answered(Unborn)) \/ Becomes(j, Declared(Unborn))

Next == \/ LoseWorker
        \/ \E j \in Jobs : \/ Accept(j) \/ Start(j) \/ Answer(j) \/ Insufficient(j)
                           \/ Fail(j) \/ Delete(j)
                           \/ RunAgain(j) \/ DeleteInFlight(j) \/ Resurrect(j)

Spec == Init /\ [][Next]_vars
=============================================================================
