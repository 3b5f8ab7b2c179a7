------------------------- MODULE JobLifecycle_proofs -------------------------
(***************************************************************************)
(* Proofs about JobLifecycle for any jobs, workers and bounds: types, the  *)
(* safety invariants, and, step by step, that it implements JobService.    *)
(***************************************************************************)
EXTENDS JobLifecycle, TLAPS

\* A row that exists is a row of the schema.
LEMMA ExistingRow ==
    ASSUME NEW r \in ResearchJob \cup {NoRow}
    PROVE  Exists(r) <=> r \in ResearchJob
BY DEF Exists, ResearchJob, NoRow, NonTerminal, TERMINAL_STATUSES

\* An UPDATE turns a row into a row, and writes a status that has changed.
LEMMA SaveType ==
    ASSUME NEW row \in ResearchJob, NEW seen \in ResearchJob, NEW obj \in ResearchJob
    PROVE  /\ Save(row, seen, obj) \in ResearchJob
           /\ Save(row, seen, obj).status =
                 IF obj.status = seen.status THEN row.status ELSE obj.status
BY DEF Save, ResearchJob

\* The objects the long session holds are rows; it always changes the status.
LEMMA ObjectTypes ==
    ASSUME TypeOK, NEW w \in Workers, NEW insufficient \in BOOLEAN,
           txn[w] = "insert" \/ Exists(snap[w])
    PROVE  /\ FlushedObject(w) \in ResearchJob
           /\ FinishedObject(w, insufficient) \in ResearchJob
           /\ FlushedObject(w).status = "RUNNING"
           /\ FinishedObject(w, insufficient).status = "SUCCEEDED"
<1>1. FlushedObject(w) \in ResearchJob /\ FlushedObject(w).status = "RUNNING"
  <2>1. CASE txn[w] = "insert"
    BY <2>1 DEF FlushedObject, NewRow, ResearchJob, NonTerminal
  <2>2. CASE txn[w] # "insert"
    <3>1. snap[w] \in ResearchJob
      BY <2>2, ExistingRow DEF TypeOK
    <3> QED BY <2>2, <3>1 DEF FlushedObject, ResearchJob, NonTerminal
  <2> QED BY <2>1, <2>2
<1> QED BY <1>1 DEF FinishedObject, ResearchJob, TERMINAL_STATUSES

-----------------------------------------------------------------------------
(* Type correctness. It needs to know which rows a worker has loaded.       *)

Loaded ==
    \A w \in Workers :
        /\ pc[w] = "flip" => Exists(snap[w])
        /\ pc[w] \in {"plan", "work", "cite"} => txn[w] = "insert" \/ Exists(snap[w])

TypeInv == TypeOK /\ Loaded

\* The end of a run keeps the types.
LEMMA CommitType ==
    ASSUME TypeInv, NEW w \in Workers, pc[w] \in {"work", "cite"},
           NEW insufficient \in BOOLEAN, NEW withClaims \in BOOLEAN,
           Commit(w, insufficient, withClaims),
           UNCHANGED <<apiVars, message, task, snap, run, envVars>>
    PROVE  TypeInv'
<1> DEFINE j == task[w]
<1>1. j \in Jobs
  BY DEF TypeInv, TypeOK
<1>2. txn[w] = "insert" \/ Exists(snap[w])
  BY DEF TypeInv, Loaded
<1>3. jobs' \in [Jobs -> ResearchJob \cup {NoRow}]
  <2>1. CASE UNCHANGED dbVars
    BY <2>1 DEF TypeInv, TypeOK, dbVars
  <2>2. CASE ~ UNCHANGED dbVars
    <3> DEFINE row == IF txn[w] = "insert" THEN FlushedObject(w) ELSE jobs[j]
    <3>1. /\ Exists(row)
          /\ jobs' = [jobs EXCEPT ![j] =
                          Save(row, FlushedObject(w), FinishedObject(w, insufficient))]
      BY <2>2 DEF Commit
    <3>2. row \in ResearchJob
      BY <3>1, <1>1, <1>2, ExistingRow, ObjectTypes DEF TypeInv, TypeOK
    <3>3. Save(row, FlushedObject(w), FinishedObject(w, insufficient)) \in ResearchJob
      BY <3>2, <1>2, SaveType, ObjectTypes DEF TypeInv
    <3> QED BY <3>1, <3>3 DEF TypeInv, TypeOK
  <2> QED BY <2>1, <2>2
<1>4. reports' \in [Jobs -> SUBSET Report] /\ claims' \in [Jobs -> SUBSET Nat]
  <2>1. CASE UNCHANGED dbVars
    BY <2>1 DEF TypeInv, TypeOK, dbVars
  <2>2. CASE ~ UNCHANGED dbVars
    <3>1. /\ reports' = [reports EXCEPT ![j] =
                             @ \cup {[run |-> run[w], insufficient |-> insufficient]}]
          /\ claims'  = [claims EXCEPT ![j] = IF withClaims THEN @ \cup {run[w]} ELSE @]
      BY <2>2 DEF Commit
    <3>2. run[w] \in Nat /\ [run |-> run[w], insufficient |-> insufficient] \in Report
      BY DEF TypeInv, TypeOK, Report
    <3> QED BY <1>1, <3>1, <3>2 DEF TypeInv, TypeOK
  <2> QED BY <2>1, <2>2
<1>5. /\ txn' = [txn EXCEPT ![w] = "none"]
      /\ \/ pc' = [pc EXCEPT ![w] = "ack"]
         \/ pc' = [pc EXCEPT ![w] = "handler"]
  BY DEF Commit, Goto
<1>6. UNCHANGED <<api, deletion, message, task, snap, run, begun, crashes, timeouts>>
  BY DEF apiVars, envVars
<1>7. TypeOK'
  BY <1>3, <1>4, <1>5, <1>6 DEF TypeInv, TypeOK, Steps
<1>8. Loaded'
  BY <1>5, <1>6 DEF TypeInv, TypeOK, Loaded
<1> QED BY <1>7, <1>8 DEF TypeInv

LEMMA TypeStep ==
    ASSUME TypeInv, [Next]_vars
    PROVE  TypeInv'
<1> USE DEF TypeInv, TypeOK, Loaded
<1>1. ASSUME NEW j \in Jobs, CreateJob(j) PROVE TypeInv'
  BY <1>1 DEF CreateJob, NewRow, ResearchJob, NonTerminal, workerVars, envVars
<1>2. ASSUME NEW j \in Jobs, EnqueueJob(j) PROVE TypeInv'
  BY <1>2 DEF EnqueueJob, dbVars, workerVars, envVars
<1>3. ASSUME NEW j \in Jobs, EnqueueFails(j) PROVE TypeInv'
  BY <1>3 DEF EnqueueFails, dbVars, workerVars, envVars
<1>4. ASSUME NEW j \in Jobs, DeleteCheck(j) PROVE TypeInv'
  <2> DEFINE Deletion == [phase   : {"none", "checked", "selected"},
                          reports : SUBSET Report,
                          claims  : SUBSET Nat]
  <2>1. \A d \in Deletion : [d EXCEPT !.phase = "checked"] \in Deletion
    OBVIOUS
  <2> QED BY <1>4, <2>1 DEF DeleteCheck, dbVars, workerVars, envVars
<1>5. ASSUME NEW j \in Jobs, DeleteSelect(j) PROVE TypeInv'
  BY <1>5 DEF DeleteSelect, dbVars, workerVars, envVars
<1>6. ASSUME NEW j \in Jobs, DeleteCommit(j) PROVE TypeInv'
  BY <1>6 DEF DeleteCommit, dbVars, workerVars, envVars
<1>7. ASSUME NEW j \in Jobs, Redeliver(j) PROVE TypeInv'
  BY <1>7, BoundsAssumption DEF Redeliver, dbVars, apiVars, workerVars
<1>8. ASSUME NEW w \in Workers, NEW j \in Jobs, TakeMessage(w, j) PROVE TypeInv'
  BY <1>8, NoJobAssumption DEF TakeMessage, Steps, dbVars, apiVars, envVars
<1>9. ASSUME NEW w \in Workers, Crash(w) PROVE TypeInv'
  BY <1>9, BoundsAssumption DEF Crash, dbVars, apiVars
<1>10. ASSUME NEW w \in Workers, FetchJob(w) PROVE TypeInv'
  BY <1>10 DEF FetchJob, Goto, Steps, dbVars, apiVars, envVars
<1>11. ASSUME NEW w \in Workers, FlipToRunning(w) PROVE TypeInv'
  <2> DEFINE j   == task[w]
             obj == [snap[w] EXCEPT !.status = "RUNNING", !.progress = "starting"]
  <2>1. j \in Jobs /\ snap[w] \in ResearchJob
    BY <1>11, ExistingRow DEF FlipToRunning
  <2>2. obj \in ResearchJob
    BY <2>1 DEF ResearchJob, NonTerminal
  <2>3. jobs' \in [Jobs -> ResearchJob \cup {NoRow}]
    <3>1. CASE UNCHANGED jobs
      BY <3>1
    <3>2. CASE /\ Exists(jobs[j])
               /\ jobs' = [jobs EXCEPT ![j] = Save(@, snap[w], obj)]
      <4>1. jobs[j] \in ResearchJob
        BY <3>2, <2>1, ExistingRow
      <4> QED BY <3>2, <4>1, <2>1, <2>2, SaveType
    <3> QED BY <1>11, <3>1, <3>2 DEF FlipToRunning
  <2>4. pc[w] = "flip" /\ (\/ pc' = [pc EXCEPT ![w] = "setup"]
                           \/ pc' = [pc EXCEPT ![w] = "ack"])
    BY <1>11 DEF FlipToRunning, Goto
  <2>5. UNCHANGED <<reports, claims, apiVars, message, task, snap, txn, run, envVars>>
    BY <1>11 DEF FlipToRunning
  <2>6. UNCHANGED <<reports, claims, api, deletion, message, task, snap, txn, run,
                    begun, crashes, timeouts>>
    BY <2>5 DEF apiVars, envVars
  <2>7. /\ pc' \in [Workers -> Steps \cup {"idle"}]
        /\ \A v \in Workers : (pc'[v] = "idle") <=> (pc[v] = "idle")
        /\ \A v \in Workers : txn[v] # "none" => pc'[v] \in {"plan", "work", "cite"}
        /\ \A v \in Workers : pc'[v] \notin {"flip", "plan", "work", "cite"} \/ pc'[v] = pc[v]
    <3>1. CASE pc' = [pc EXCEPT ![w] = "setup"]
      BY <2>4, <3>1 DEF Steps
    <3>2. CASE pc' = [pc EXCEPT ![w] = "ack"]
      BY <2>4, <3>2 DEF Steps
    <3> QED BY <2>4, <3>1, <3>2
  <2>8. TypeOK'
    BY <2>3, <2>6, <2>7
  <2>9. Loaded'
    BY <2>6, <2>7
  <2> QED BY <2>8, <2>9
<1>12. ASSUME NEW w \in Workers, SetUpClients(w) PROVE TypeInv'
  BY <1>12 DEF SetUpClients, Goto, Steps, dbVars, apiVars, envVars
<1>13. ASSUME NEW w \in Workers, SetUpFails(w) PROVE TypeInv'
  BY <1>13 DEF SetUpFails, Goto, Steps, dbVars, apiVars, envVars
<1>14. ASSUME NEW w \in Workers, BeginResearch(w) PROVE TypeInv'
  BY <1>14 DEF BeginResearch, Goto, Steps, dbVars, apiVars
<1>15. ASSUME NEW w \in Workers, FlushRunning(w) PROVE TypeInv'
  <2>1. pc[w] = "flush" /\ UNCHANGED <<dbVars, apiVars, message, task, snap, run, envVars>>
    BY <1>15 DEF FlushRunning
  <2>2. \/ /\ pc' = [pc EXCEPT ![w] = "handler"]
           /\ UNCHANGED txn
        \/ /\ pc' = [pc EXCEPT ![w] = "plan"]
           /\ \/ txn' = [txn EXCEPT ![w] = "insert"]
              \/ txn' = [txn EXCEPT ![w] = "clean"] /\ Exists(snap[w])
              \/ txn' = [txn EXCEPT ![w] = "dirty"] /\ Exists(snap[w])
    BY <1>15 DEF FlushRunning, Exists, Goto
  <2>3. UNCHANGED <<jobs, reports, claims, api, deletion, message, task, snap, run,
                    begun, crashes, timeouts>>
    BY <2>1 DEF dbVars, apiVars, envVars
  <2>4. /\ pc' \in [Workers -> Steps \cup {"idle"}]
        /\ txn' \in [Workers -> {"none", "clean", "dirty", "insert"}]
        /\ \A v \in Workers : (pc'[v] = "idle") <=> (pc[v] = "idle")
        /\ \A v \in Workers : txn'[v] # "none" => pc'[v] \in {"plan", "work", "cite"}
    <3>1. CASE pc' = [pc EXCEPT ![w] = "handler"] /\ UNCHANGED txn
      BY <2>1, <3>1 DEF Steps
    <3>2. CASE /\ pc' = [pc EXCEPT ![w] = "plan"]
               /\ \E t \in {"insert", "clean", "dirty"} : txn' = [txn EXCEPT ![w] = t]
      BY <2>1, <3>2 DEF Steps
    <3> QED BY <2>2, <3>1, <3>2
  <2>5. TypeOK'
    BY <2>3, <2>4
  <2>6. Loaded'
    BY <2>1, <2>2
  <2> QED BY <2>5, <2>6
<1>16. ASSUME NEW w \in Workers, ReportProgress(w) PROVE TypeInv'
  <2>1. jobs' \in [Jobs -> ResearchJob \cup {NoRow}]
    <3>1. CASE UNCHANGED jobs
      BY <3>1
    <3>2. CASE /\ Exists(jobs[task[w]])
               /\ jobs' = [jobs EXCEPT ![task[w]].progress = "working"]
      <4>1. jobs[task[w]] \in ResearchJob
        BY <1>16, <3>2, ExistingRow DEF ReportProgress
      <4>2. [jobs[task[w]] EXCEPT !.progress = "working"] \in ResearchJob
        BY <4>1 DEF ResearchJob
      <4> QED BY <3>2, <4>2
    <3> QED BY <1>16, <3>1, <3>2 DEF ReportProgress
  <2> QED BY <1>16, <2>1 DEF ReportProgress, Goto, Steps, apiVars, envVars
<1>17. ASSUME NEW w \in Workers, WriteClaims(w) PROVE TypeInv'
  <2>1. /\ pc[w] = "work"
        /\ UNCHANGED <<dbVars, apiVars, message, task, snap, run, envVars>>
        /\ \/ pc' = [pc EXCEPT ![w] = "cite"] /\ UNCHANGED txn
           \/ pc' = [pc EXCEPT ![w] = "handler"] /\ txn' = [txn EXCEPT ![w] = "none"]
    BY <1>17 DEF WriteClaims, Goto
  <2>2. UNCHANGED <<jobs, reports, claims, api, deletion, message, task, snap, run,
                    begun, crashes, timeouts>>
    BY <2>1 DEF dbVars, apiVars, envVars
  <2>3. /\ pc' \in [Workers -> Steps \cup {"idle"}]
        /\ txn' \in [Workers -> {"none", "clean", "dirty", "insert"}]
        /\ \A v \in Workers : (pc'[v] = "idle") <=> (pc[v] = "idle")
        /\ \A v \in Workers : txn'[v] # "none" => pc'[v] \in {"plan", "work", "cite"}
    BY <2>1 DEF Steps
  <2>4. TypeOK'
    BY <2>2, <2>3
  <2>5. Loaded'
    BY <2>1
  <2> QED BY <2>4, <2>5
<1>18. ASSUME NEW w \in Workers, DeclareInsufficient(w) PROVE TypeInv'
  BY <1>18, CommitType DEF DeclareInsufficient
<1>19. ASSUME NEW w \in Workers, FinishReport(w) PROVE TypeInv'
  <2>1. PICK insufficient \in BOOLEAN : Commit(w, insufficient, TRUE)
    BY <1>19 DEF FinishReport
  <2>2. /\ pc[w] \in {"work", "cite"}
        /\ UNCHANGED <<apiVars, message, task, snap, run, envVars>>
    BY <1>19 DEF FinishReport
  <2> HIDE DEF TypeInv
  <2> QED BY <2>1, <2>2, CommitType
<1>20. ASSUME NEW w \in Workers, ResearchFails(w) PROVE TypeInv'
  BY <1>20 DEF ResearchFails, ResearchSteps, Goto, Steps, dbVars, apiVars, envVars
<1>21. ASSUME NEW w \in Workers, MarkFailed(w) PROVE TypeInv'
  <2>1. jobs' \in [Jobs -> ResearchJob \cup {NoRow}]
    <3>1. CASE UNCHANGED jobs
      BY <3>1
    <3>2. CASE /\ Exists(jobs[task[w]])
               /\ jobs' = [jobs EXCEPT ![task[w]].status = "FAILED", ![task[w]].error = TRUE]
      <4>1. jobs[task[w]] \in ResearchJob
        BY <1>21, <3>2, ExistingRow DEF MarkFailed
      <4>2. [jobs[task[w]] EXCEPT !.status = "FAILED", !.error = TRUE] \in ResearchJob
        BY <4>1 DEF ResearchJob, TERMINAL_STATUSES
      <4> QED BY <3>2, <4>2
    <3> QED BY <1>21, <3>1, <3>2 DEF MarkFailed
  <2> QED BY <1>21, <2>1 DEF MarkFailed, Goto, Steps, apiVars, envVars
<1>22. ASSUME NEW w \in Workers, MarkFailedFails(w) PROVE TypeInv'
  BY <1>22 DEF MarkFailedFails, Goto, Steps, dbVars, apiVars, envVars
<1>23. ASSUME NEW w \in Workers, AckMessage(w) PROVE TypeInv'
  BY <1>23 DEF AckMessage, dbVars, apiVars, envVars
<1>24. CASE UNCHANGED vars
  BY <1>24 DEF vars
<1> HIDE DEF TypeInv
<1> QED BY <1>1, <1>2, <1>3, <1>4, <1>5, <1>6, <1>7, <1>8, <1>9, <1>10, <1>11, <1>12,
           <1>13, <1>14, <1>15, <1>16, <1>17, <1>18, <1>19, <1>20, <1>21, <1>22, <1>23,
           <1>24 DEF Next, RunTask, TaskStep

LEMMA TypeInit == Init => TypeInv
BY BoundsAssumption, NoJobAssumption
DEF Init, TypeInv, TypeOK, Loaded, NoRow, Report

\* Type correctness of the whole lifecycle, with what its workers have loaded.
THEOREM TypeInvariant == Spec => []TypeInv
<1>1. TypeInv /\ [Next]_vars => TypeInv'
  BY TypeStep
<1> QED BY <1>1, TypeInit, PTL DEF Spec

\* Every variable keeps its shape, for any jobs, workers, faults and bounds.
THEOREM TypeCorrect == Spec => []TypeOK
<1>1. TypeInv => TypeOK
  BY DEF TypeInv
<1> QED BY <1>1, TypeInvariant, PTL


-----------------------------------------------------------------------------
(* What the steps that write a row do to its status.                        *)

LEMMA FlipEffect ==
    ASSUME TypeInv, NEW w \in Workers, FlipToRunning(w)
    PROVE  /\ task[w] \in Jobs /\ pc[w] = "flip"
           /\ \A j \in Jobs : j # task[w] => jobs'[j] = jobs[j]
           /\ \/ /\ UNCHANGED jobs /\ snap[w].status = "RUNNING"
                 /\ pc' = [pc EXCEPT ![w] = "setup"]
              \/ /\ Exists(jobs[task[w]]) /\ Exists(jobs'[task[w]])
                 /\ jobs'[task[w]].status = IF snap[w].status = "RUNNING"
                                            THEN jobs[task[w]].status ELSE "RUNNING"
                 /\ pc' = [pc EXCEPT ![w] = "setup"]
              \/ /\ UNCHANGED jobs /\ ~Exists(jobs[task[w]])
                 /\ pc' = [pc EXCEPT ![w] = "ack"]
<1> DEFINE j   == task[w]
           obj == [snap[w] EXCEPT !.status = "RUNNING", !.progress = "starting"]
<1>1. j \in Jobs /\ pc[w] = "flip" /\ snap[w] \in ResearchJob
  BY ExistingRow DEF FlipToRunning, TypeInv, TypeOK, Loaded
<1>2. obj \in ResearchJob /\ obj.status = "RUNNING"
  BY <1>1 DEF ResearchJob, NonTerminal
<1>3. CASE obj = snap[w] /\ UNCHANGED jobs /\ pc' = [pc EXCEPT ![w] = "setup"]
  BY <1>1, <1>2, <1>3
<1>4. CASE /\ Exists(jobs[j])
           /\ jobs' = [jobs EXCEPT ![j] = Save(@, snap[w], obj)]
           /\ pc' = [pc EXCEPT ![w] = "setup"]
  <2>1. jobs \in [Jobs -> ResearchJob \cup {NoRow}] /\ jobs[j] \in ResearchJob
    BY <1>1, <1>4, ExistingRow DEF TypeInv, TypeOK
  <2>2. /\ Save(jobs[j], snap[w], obj) \in ResearchJob
        /\ Save(jobs[j], snap[w], obj).status =
              IF snap[w].status = "RUNNING" THEN jobs[j].status ELSE "RUNNING"
    <3> HIDE DEF obj
    <3>1. snap[w] \in ResearchJob /\ obj \in ResearchJob /\ jobs[j] \in ResearchJob
      BY <2>1, <1>1, <1>2
    <3>2. /\ Save(jobs[j], snap[w], obj) \in ResearchJob
          /\ Save(jobs[j], snap[w], obj).status =
                IF obj.status = snap[w].status THEN jobs[j].status ELSE obj.status
      BY <3>1, SaveType
    <3> QED BY <3>2, <1>2
  <2>3. jobs'[j] = Save(jobs[j], snap[w], obj)
    BY <1>4, <1>1, <2>1
  <2>4. Exists(jobs'[j])
    BY <2>2, <2>3, ExistingRow
  <2> QED BY <1>1, <1>4, <2>1, <2>2, <2>3, <2>4
<1>5. CASE UNCHANGED jobs /\ ~Exists(jobs[j]) /\ pc' = [pc EXCEPT ![w] = "ack"]
  BY <1>1, <1>5
<1> QED BY <1>3, <1>4, <1>5 DEF FlipToRunning, Goto

LEMMA ProgressEffect ==
    ASSUME TypeInv, NEW w \in Workers, ReportProgress(w)
    PROVE  /\ task[w] \in Jobs
           /\ \A j \in Jobs : jobs'[j].status = jobs[j].status
<1>1. task[w] \in Jobs /\ jobs \in [Jobs -> ResearchJob \cup {NoRow}]
  BY DEF ReportProgress, TypeInv, TypeOK
<1>2. CASE UNCHANGED jobs
  BY <1>1, <1>2
<1>3. CASE /\ Exists(jobs[task[w]])
           /\ jobs' = [jobs EXCEPT ![task[w]].progress = "working"]
  <2>1. jobs[task[w]] \in ResearchJob
    BY <1>1, <1>3, ExistingRow
  <2>2. [jobs[task[w]] EXCEPT !.progress = "working"].status = jobs[task[w]].status
    BY <2>1 DEF ResearchJob
  <2> QED BY <1>1, <1>3, <2>2
<1> QED BY <1>1, <1>2, <1>3 DEF ReportProgress

LEMMA MarkFailedEffect ==
    ASSUME TypeInv, NEW w \in Workers, MarkFailed(w)
    PROVE  /\ task[w] \in Jobs
           /\ \A j \in Jobs : j # task[w] => jobs'[j] = jobs[j]
           /\ \/ ~Exists(jobs[task[w]]) /\ UNCHANGED jobs
              \/ Exists(jobs[task[w]]) /\ jobs'[task[w]].status = "FAILED"
<1>1. task[w] \in Jobs /\ jobs \in [Jobs -> ResearchJob \cup {NoRow}]
  BY DEF MarkFailed, TypeInv, TypeOK
<1>2. CASE UNCHANGED jobs /\ ~Exists(jobs[task[w]])
  BY <1>1, <1>2
<1>3. CASE /\ Exists(jobs[task[w]])
           /\ jobs' = [jobs EXCEPT ![task[w]].status = "FAILED", ![task[w]].error = TRUE]
  <2>1. jobs[task[w]] \in ResearchJob
    BY <1>1, <1>3, ExistingRow
  <2>2. [jobs[task[w]] EXCEPT !.status = "FAILED", !.error = TRUE].status = "FAILED"
    BY <2>1 DEF ResearchJob
  <2> QED BY <1>1, <1>3, <2>2
<1> QED BY <1>1, <1>2, <1>3 DEF MarkFailed

LEMMA CommitEffect ==
    ASSUME TypeInv, NEW w \in Workers, pc[w] \in {"work", "cite"},
           NEW insufficient \in BOOLEAN, NEW withClaims \in BOOLEAN,
           Commit(w, insufficient, withClaims)
    PROVE  /\ task[w] \in Jobs
           /\ txn' = [txn EXCEPT ![w] = "none"]
           /\ \A j \in Jobs \ {task[w]} : /\ jobs'[j] = jobs[j]
                                          /\ reports'[j] = reports[j]
                                          /\ claims'[j] = claims[j]
           /\ \/ /\ jobs'[task[w]].status = "SUCCEEDED"
                 /\ reports'[task[w]] # {}
                 /\ pc' = [pc EXCEPT ![w] = "ack"]
              \/ /\ UNCHANGED dbVars
                 /\ pc' = [pc EXCEPT ![w] = "handler"]
<1> DEFINE j   == task[w]
           row == IF txn[w] = "insert" THEN FlushedObject(w) ELSE jobs[j]
<1>1. /\ j \in Jobs
      /\ jobs \in [Jobs -> ResearchJob \cup {NoRow}]
      /\ reports \in [Jobs -> SUBSET Report]
      /\ claims \in [Jobs -> SUBSET Nat]
      /\ txn[w] = "insert" \/ Exists(snap[w])
  BY DEF TypeInv, TypeOK, Loaded
<1>2. CASE /\ Exists(row)
           /\ jobs' = [jobs EXCEPT ![j] =
                          Save(row, FlushedObject(w), FinishedObject(w, insufficient))]
           /\ reports' = [reports EXCEPT ![j] =
                             @ \cup {[run |-> run[w], insufficient |-> insufficient]}]
           /\ claims' = [claims EXCEPT ![j] = IF withClaims THEN @ \cup {run[w]} ELSE @]
           /\ txn' = [txn EXCEPT ![w] = "none"]
           /\ pc' = [pc EXCEPT ![w] = "ack"]
  <2>1. row \in ResearchJob
    BY <1>1, <1>2, ExistingRow, ObjectTypes DEF TypeInv
  <2>2. Save(row, FlushedObject(w), FinishedObject(w, insufficient)).status = "SUCCEEDED"
    BY <1>1, <2>1, SaveType, ObjectTypes DEF TypeInv
  <2> QED BY <1>1, <1>2, <2>2
<1>3. CASE /\ UNCHANGED dbVars
           /\ txn' = [txn EXCEPT ![w] = "none"]
           /\ pc' = [pc EXCEPT ![w] = "handler"]
  BY <1>1, <1>3 DEF dbVars
<1> QED BY <1>2, <1>3 DEF Commit, Goto

-----------------------------------------------------------------------------
(* The rows of a job agree with each other, whatever fails.                 *)

RowsInv == SucceededHasReport /\ NoOrphanRows

LEMMA RowsStep ==
    ASSUME TypeInv, RowsInv, [Next]_vars
    PROVE  RowsInv'
<1> USE DEF RowsInv, SucceededHasReport, NoOrphanRows, Exists
<1>0. /\ jobs \in [Jobs -> ResearchJob \cup {NoRow}]
      /\ reports \in [Jobs -> SUBSET Report]
      /\ claims \in [Jobs -> SUBSET Nat]
  BY DEF TypeInv, TypeOK
<1>1. ASSUME NEW j \in Jobs, CreateJob(j) PROVE RowsInv'
  BY <1>0, <1>1 DEF CreateJob, NewRow
<1>2. ASSUME NEW j \in Jobs, DeleteCommit(j) PROVE RowsInv'
  BY <1>0, <1>2 DEF DeleteCommit, NoRow, dbVars
<1>3. ASSUME NEW w \in Workers, FlipToRunning(w) PROVE RowsInv'
  <2>1. \A j \in Jobs : \/ jobs'[j] = jobs[j]
                        \/ Exists(jobs'[j]) /\ jobs'[j].status \in {"RUNNING", jobs[j].status}
    BY <1>3, FlipEffect
  <2>2. UNCHANGED <<reports, claims>>
    BY <1>3 DEF FlipToRunning
  <2> QED BY <2>1, <2>2
<1>4. ASSUME NEW w \in Workers, ReportProgress(w) PROVE RowsInv'
  BY <1>4, ProgressEffect DEF ReportProgress
<1>5. ASSUME NEW w \in Workers, MarkFailed(w) PROVE RowsInv'
  BY <1>5, MarkFailedEffect DEF MarkFailed
<1>6. ASSUME NEW w \in Workers, pc[w] \in {"work", "cite"},
             NEW insufficient \in BOOLEAN, NEW withClaims \in BOOLEAN,
             Commit(w, insufficient, withClaims)
      PROVE  RowsInv'
  BY <1>6, CommitEffect DEF dbVars
<1>7. ASSUME NEW w \in Workers, DeclareInsufficient(w) PROVE RowsInv'
  BY <1>6, <1>7 DEF DeclareInsufficient
<1>8. ASSUME NEW w \in Workers, FinishReport(w) PROVE RowsInv'
  BY <1>6, <1>8 DEF FinishReport
<1>9. ASSUME UNCHANGED dbVars PROVE RowsInv'
  BY <1>9 DEF dbVars
<1> HIDE DEF RowsInv
<1>10. ASSUME NEW j \in Jobs,
              \/ EnqueueJob(j) \/ EnqueueFails(j) \/ DeleteCheck(j) \/ DeleteSelect(j)
              \/ Redeliver(j) \/ \E w \in Workers : TakeMessage(w, j)
       PROVE  RowsInv'
  BY <1>9, <1>10 DEF EnqueueJob, EnqueueFails, DeleteCheck, DeleteSelect, Redeliver, TakeMessage
<1>11. ASSUME NEW w \in Workers,
              \/ FetchJob(w) \/ SetUpClients(w) \/ SetUpFails(w) \/ BeginResearch(w)
              \/ FlushRunning(w) \/ WriteClaims(w) \/ ResearchFails(w)
              \/ MarkFailedFails(w) \/ AckMessage(w) \/ Crash(w)
       PROVE  RowsInv'
  BY <1>9, <1>11 DEF FetchJob, SetUpClients, SetUpFails, BeginResearch, FlushRunning,
       WriteClaims, ResearchFails, MarkFailedFails, AckMessage, Crash
<1>12. CASE UNCHANGED vars
  BY <1>9, <1>12 DEF vars, dbVars
<1> QED BY <1>1, <1>2, <1>3, <1>4, <1>5, <1>7, <1>8, <1>10, <1>11, <1>12 DEF Next, RunTask, TaskStep

\* Whatever fails, crashes, times out or is deleted: a SUCCEEDED job has a
\* committed report, and a job that is gone has left no report or claim behind.
THEOREM RowsAgree == Spec => [](SucceededHasReport /\ NoOrphanRows)
<1>1. Init => RowsInv
  BY DEF Init, RowsInv, SucceededHasReport, NoOrphanRows, NoRow
<1>2. TypeInv /\ RowsInv /\ [Next]_vars => RowsInv'
  BY RowsStep
<1>3. RowsInv => SucceededHasReport /\ NoOrphanRows
  BY DEF RowsInv
<1> QED BY <1>1, <1>2, <1>3, TypeInvariant, PTL DEF Spec

\* In particular a deletion (delete_job in jobs.py) leaves no report or claim
\* without its job, whatever a run commits between its steps.
THEOREM NoOrphans == Spec => []NoOrphanRows
BY RowsAgree, PTL

-----------------------------------------------------------------------------
(* With no visibility timeout on a live worker, the broker's state tells    *)
(* who has a job: an unacknowledged message has at most one worker, any     *)
(* other message has none.                                                  *)

ExclusiveInv ==
    \A j \in Jobs :
        /\ message[j] # "unacked" => \A w \in Workers : task[w] # j
        /\ \A v, w \in Workers : task[v] = j /\ task[w] = j => v = w
        /\ api[j] # "accepted" => message[j] = "none"

LEMMA ExclusiveStep ==
    ASSUME MaxTimeouts = 0, TypeInv, ExclusiveInv, [Next]_vars
    PROVE  ExclusiveInv'
<1> USE DEF ExclusiveInv
<1>0. /\ message \in [Jobs -> {"none", "queued", "unacked"}]
      /\ api \in [Jobs -> {"new", "created", "accepted", "failed"}]
      /\ task \in [Workers -> Jobs \cup {NoJob}]
      /\ \A w \in Workers : (pc[w] = "idle") <=> (task[w] = NoJob)
      /\ NoJob \notin Jobs
      /\ timeouts = 0
  BY NoJobAssumption, BoundsAssumption DEF TypeInv, TypeOK
<1>1. ASSUME NEW j \in Jobs, CreateJob(j) PROVE ExclusiveInv'
  BY <1>0, <1>1 DEF CreateJob, workerVars
<1>2. ASSUME NEW j \in Jobs, EnqueueJob(j) PROVE ExclusiveInv'
  BY <1>0, <1>2 DEF EnqueueJob, workerVars
<1>3. ASSUME NEW j \in Jobs, EnqueueFails(j) PROVE ExclusiveInv'
  BY <1>0, <1>3 DEF EnqueueFails, workerVars
<1>4. ASSUME NEW j \in Jobs, Redeliver(j) PROVE ExclusiveInv'
  <2>1. \A w \in Workers : task[w] # j
    BY <1>0, <1>4 DEF Redeliver, Active
  <2> QED BY <1>0, <1>4, <2>1 DEF Redeliver, workerVars, apiVars
<1>5. ASSUME NEW w \in Workers, NEW j \in Jobs, TakeMessage(w, j) PROVE ExclusiveInv'
  BY <1>0, <1>5 DEF TakeMessage, apiVars
<1>6. ASSUME NEW w \in Workers, AckMessage(w) PROVE ExclusiveInv'
  BY <1>0, <1>6 DEF AckMessage, apiVars
<1>7. ASSUME NEW w \in Workers, Crash(w) PROVE ExclusiveInv'
  BY <1>0, <1>7 DEF Crash, apiVars
<1>8. ASSUME UNCHANGED <<message, api, task>> PROVE ExclusiveInv'
  BY <1>8
<1> HIDE DEF ExclusiveInv
<1>9. ASSUME NEW j \in Jobs, DeleteCheck(j) \/ DeleteSelect(j) \/ DeleteCommit(j)
      PROVE  ExclusiveInv'
  BY <1>8, <1>9 DEF DeleteCheck, DeleteSelect, DeleteCommit, workerVars
<1>10. ASSUME NEW w \in Workers,
              \/ FetchJob(w) \/ FlipToRunning(w) \/ SetUpClients(w) \/ SetUpFails(w)
              \/ BeginResearch(w) \/ FlushRunning(w) \/ ReportProgress(w) \/ WriteClaims(w)
              \/ DeclareInsufficient(w) \/ FinishReport(w) \/ ResearchFails(w)
              \/ MarkFailed(w) \/ MarkFailedFails(w)
       PROVE  ExclusiveInv'
  BY <1>8, <1>10 DEF FetchJob, FlipToRunning, SetUpClients, SetUpFails, BeginResearch,
       FlushRunning, ReportProgress, WriteClaims, DeclareInsufficient, FinishReport,
       ResearchFails, MarkFailed, MarkFailedFails, apiVars
<1>11. CASE UNCHANGED vars
  BY <1>8, <1>11 DEF vars
<1> QED BY <1>1, <1>2, <1>3, <1>4, <1>5, <1>6, <1>7, <1>9, <1>10, <1>11 DEF Next, RunTask, TaskStep

LEMMA ExclusiveInit == Init => ExclusiveInv
BY NoJobAssumption DEF Init, ExclusiveInv

\* As long as the visibility timeout outlasts every run, a message has one holder.
THEOREM ExclusiveInvariant ==
    ASSUME MaxTimeouts = 0
    PROVE  Spec => []ExclusiveInv
<1>1. TypeInv /\ ExclusiveInv /\ [Next]_vars => ExclusiveInv'
  BY ExclusiveStep
<1> QED BY <1>1, ExclusiveInit, TypeInvariant, PTL DEF Spec

\* However often workers crash, no two ever run the same job at once, as long as
\* the visibility timeout outlasts every run.
THEOREM CrashesKeepOneWorker ==
    ASSUME MaxTimeouts = 0
    PROVE  Spec => []OneWorkerPerJob
<1>1. ExclusiveInv => OneWorkerPerJob
  BY DEF ExclusiveInv, OneWorkerPerJob, Active
<1> QED BY <1>1, ExclusiveInvariant, PTL

-----------------------------------------------------------------------------
(* No job is lost. With repeated deliveries allowed as well as crashes it   *)
(* would not hold: the acknowledgement of a slow worker takes the message   *)
(* from under the one that crashes.                                         *)

CustodyInv == NoLostJob /\ (MaxTimeouts = 0 => ExclusiveInv)

LEMMA CustodyStep ==
    ASSUME Faults \subseteq {"research"}, MaxTimeouts = 0 \/ MaxCrashes = 0,
           TypeInv, CustodyInv, [Next]_vars
    PROVE  CustodyInv'
<1>0. /\ jobs \in [Jobs -> ResearchJob \cup {NoRow}]
      /\ message \in [Jobs -> {"none", "queued", "unacked"}]
      /\ api \in [Jobs -> {"new", "created", "accepted", "failed"}]
      /\ pc \in [Workers -> Steps \cup {"idle"}]
      /\ task \in [Workers -> Jobs \cup {NoJob}]
      /\ \A w \in Workers : (pc[w] = "idle") <=> (task[w] = NoJob)
      /\ NoJob \notin Jobs
  BY NoJobAssumption DEF TypeInv, TypeOK
<1>1. MaxTimeouts = 0 => ExclusiveInv'
  BY ExclusiveStep DEF CustodyInv
<1> USE DEF NoLostJob, InCustody, NonTerminal
<1>2. NoLostJob
  BY DEF CustodyInv
<1>3. ASSUME NEW j \in Jobs, CreateJob(j) PROVE NoLostJob'
  BY <1>0, <1>2, <1>3 DEF CreateJob, Active, Writing, workerVars
<1>4. ASSUME NEW j \in Jobs, EnqueueJob(j) PROVE NoLostJob'
  BY <1>0, <1>2, <1>4 DEF EnqueueJob, Active, Writing, workerVars, dbVars
<1>5. ASSUME NEW j \in Jobs, DeleteCommit(j) PROVE NoLostJob'
  BY <1>0, <1>2, <1>5 DEF DeleteCommit, Active, Writing, workerVars, dbVars, NoRow
<1>6. ASSUME NEW j \in Jobs, Redeliver(j) PROVE NoLostJob'
  BY <1>0, <1>2, <1>6 DEF Redeliver, Active, Writing, workerVars, dbVars, apiVars
<1>7. ASSUME NEW w \in Workers, NEW j \in Jobs, TakeMessage(w, j) PROVE NoLostJob'
  BY <1>0, <1>2, <1>7 DEF TakeMessage, Active, Writing, WritingSteps, Steps, dbVars, apiVars
<1>8. ASSUME NEW w \in Workers, AckMessage(w) PROVE NoLostJob'
  BY <1>0, <1>2, <1>8 DEF AckMessage, Active, Writing, WritingSteps, Steps, dbVars, apiVars
<1>9. ASSUME NEW w \in Workers, Crash(w) PROVE NoLostJob'
  <2>1. ExclusiveInv
    BY <1>9, BoundsAssumption DEF Crash, CustodyInv, TypeInv, TypeOK
  <2> QED BY <1>0, <1>2, <1>9, <2>1
          DEF Crash, ExclusiveInv, Active, Writing, WritingSteps, Steps, dbVars, apiVars
\* A step of worker w that leaves the broker alone keeps the custody of every
\* job if w still has to write, or if its own job needs nobody any more.
<1>10. ASSUME NEW w \in Workers, task[w] \in Jobs,
              UNCHANGED <<message, api, task>>,
              NEW step \in Steps, pc' = [pc EXCEPT ![w] = step], pc[w] # "idle",
              \A j \in Jobs \ {task[w]} : jobs'[j].status = jobs[j].status,
              step \in WritingSteps \/ jobs'[task[w]].status \notin NonTerminal
       PROVE  NoLostJob'
  <2> SUFFICES ASSUME NEW j \in Jobs, jobs'[j].status \in NonTerminal
               PROVE  InCustody(j)'
    OBVIOUS
  <2>1. CASE j # task[w]
    BY <1>0, <1>2, <1>10, <2>1 DEF Active, Writing, WritingSteps, Steps
  <2>2. CASE j = task[w]
    BY <1>0, <1>10, <2>2 DEF Writing
  <2> QED BY <2>1, <2>2
<1>11. ASSUME NEW w \in Workers, FlipToRunning(w) PROVE NoLostJob'
  BY <1>0, <1>10, <1>11, FlipEffect DEF FlipToRunning, WritingSteps, Steps, Exists, apiVars
<1>12. ASSUME NEW w \in Workers, pc[w] \in {"work", "cite"},
              UNCHANGED <<apiVars, message, task>>,
              NEW insufficient \in BOOLEAN, NEW withClaims \in BOOLEAN,
              Commit(w, insufficient, withClaims)
       PROVE  NoLostJob'
  BY <1>0, <1>10, <1>12, CommitEffect DEF WritingSteps, Steps, apiVars, dbVars
<1>13. ASSUME NEW w \in Workers, DeclareInsufficient(w) \/ FinishReport(w) PROVE NoLostJob'
  BY <1>12, <1>13 DEF DeclareInsufficient, FinishReport
<1>14. ASSUME NEW w \in Workers, MarkFailed(w) PROVE NoLostJob'
  BY <1>0, <1>10, <1>14, MarkFailedEffect DEF MarkFailed, Goto, Steps, Exists, apiVars
<1>15. ASSUME NEW w \in Workers, ReportProgress(w) PROVE NoLostJob'
  BY <1>0, <1>10, <1>15, ProgressEffect DEF ReportProgress, Goto, WritingSteps, Steps, apiVars
<1>16. ASSUME NEW w \in Workers,
              \/ FetchJob(w) \/ SetUpClients(w) \/ BeginResearch(w) \/ FlushRunning(w)
              \/ WriteClaims(w) \/ ResearchFails(w)
       PROVE  NoLostJob'
  <2>1. /\ pc[w] \in Steps
        /\ UNCHANGED <<message, api, task, jobs>>
        /\ \E step \in WritingSteps : pc' = [pc EXCEPT ![w] = step]
    BY <1>16 DEF FetchJob, SetUpClients, BeginResearch, FlushRunning, WriteClaims,
         ResearchFails, ResearchSteps, Goto, WritingSteps, Steps, apiVars, dbVars
  <2> QED BY <1>0, <1>10, <2>1 DEF WritingSteps, Steps
<1>17. ASSUME UNCHANGED <<jobs, message, api, task, pc>> PROVE NoLostJob'
  BY <1>2, <1>17 DEF Active, Writing
<1> HIDE DEF NoLostJob, InCustody, NonTerminal
<1>18. ASSUME NEW j \in Jobs, DeleteCheck(j) \/ DeleteSelect(j) PROVE NoLostJob'
  BY <1>17, <1>18 DEF DeleteCheck, DeleteSelect, dbVars, workerVars
<1>19. ASSUME UNCHANGED vars PROVE NoLostJob'
  BY <1>17, <1>19 DEF vars
<1>20. ~(\E j \in Jobs : EnqueueFails(j)) /\ ~(\E w \in Workers : SetUpFails(w) \/ MarkFailedFails(w))
  BY DEF EnqueueFails, SetUpFails, MarkFailedFails
<1>21. NoLostJob'
  BY <1>3, <1>4, <1>5, <1>6, <1>7, <1>8, <1>9, <1>11, <1>13, <1>14, <1>15, <1>16, <1>18, <1>19,
     <1>20 DEF Next, RunTask, TaskStep
<1> QED BY <1>1, <1>21 DEF CustodyInv

\* No job is silently dropped: with late acknowledgement, and as long as only
\* the research itself fails, a PENDING or RUNNING row is always in somebody's
\* custody, whether workers crash or messages are delivered again (but not both).
THEOREM NoJobIsLost ==
    ASSUME Faults \subseteq {"research"}, MaxTimeouts = 0 \/ MaxCrashes = 0
    PROVE  Spec => []NoLostJob
<1>1. Init => CustodyInv
  BY ExclusiveInit DEF Init, CustodyInv, NoLostJob, NoRow, NonTerminal
<1>2. TypeInv /\ CustodyInv /\ [Next]_vars => CustodyInv'
  BY CustodyStep
<1>3. CustodyInv => NoLostJob
  BY DEF CustodyInv
<1> QED BY <1>1, <1>2, <1>3, TypeInvariant, PTL DEF Spec

-----------------------------------------------------------------------------
(* No worker waits for itself. The early commit of RUNNING is what keeps    *)
(* the long transaction from touching the row: as nobody else runs the job, *)
(* the status a worker finds in it is RUNNING, unless the row is gone.      *)

RunningOrGone == {"RUNNING", "ABSENT"}

CleanInv ==
    \A w \in Workers :
        /\ pc[w] = "flip" => /\ Exists(snap[w])
                             /\ jobs[task[w]].status \in {snap[w].status, "ABSENT"}
        /\ pc[w] \in {"setup", "begin"} => jobs[task[w]].status \in RunningOrGone
        /\ pc[w] = "flush" => snap[w].status \in RunningOrGone
        /\ txn[w] # "dirty"

LEMMA CleanStep ==
    ASSUME TypeInv, ExclusiveInv, CleanInv, [Next]_vars
    PROVE  CleanInv'
<1> USE DEF CleanInv, RunningOrGone
<1>0. /\ jobs \in [Jobs -> ResearchJob \cup {NoRow}]
      /\ pc \in [Workers -> Steps \cup {"idle"}]
      /\ task \in [Workers -> Jobs \cup {NoJob}]
      /\ snap \in [Workers -> ResearchJob \cup {NoRow}]
      /\ txn \in [Workers -> {"none", "clean", "dirty", "insert"}]
      /\ \A w \in Workers : pc[w] # "idle" => task[w] \in Jobs
  BY DEF TypeInv, TypeOK
\* A step that leaves the workers alone may delete a row, or write one that no
\* worker has.
<1>1. ASSUME UNCHANGED <<pc, task, snap, txn>>,
             \A w \in Workers : task[w] \in Jobs =>
                 jobs'[task[w]].status \in {jobs[task[w]].status, "ABSENT"}
      PROVE  CleanInv'
  BY <1>0, <1>1
\* A step of worker w may do what it likes to its own job's row.
<1>2. ASSUME NEW w \in Workers, task[w] \in Jobs, UNCHANGED task,
             \A j \in Jobs \ {task[w]} : jobs'[j].status = jobs[j].status,
             \A v \in Workers \ {w} : /\ pc'[v] = pc[v]
                                      /\ snap'[v] = snap[v]
                                      /\ txn'[v] = txn[v],
             /\ pc'[w] = "flip" => /\ Exists(snap'[w])
                                   /\ jobs'[task[w]].status \in {snap'[w].status, "ABSENT"}
             /\ pc'[w] \in {"setup", "begin"} => jobs'[task[w]].status \in RunningOrGone
             /\ pc'[w] = "flush" => snap'[w].status \in RunningOrGone
             /\ txn'[w] # "dirty"
      PROVE  CleanInv'
  <2>1. \A v \in Workers \ {w} : task[v] # task[w]
    BY <1>2 DEF ExclusiveInv
  <2> QED BY <1>0, <1>2, <2>1 DEF Exists
<1>3. ASSUME NEW j \in Jobs, CreateJob(j) PROVE CleanInv'
  <2>1. \A w \in Workers : task[w] # j
    BY <1>3 DEF CreateJob, ExclusiveInv
  <2> QED BY <1>0, <1>1, <1>3, <2>1 DEF CreateJob, workerVars
<1>4. ASSUME NEW j \in Jobs, DeleteCommit(j) PROVE CleanInv'
  BY <1>0, <1>1, <1>4 DEF DeleteCommit, NoRow, workerVars, dbVars
<1>5. ASSUME NEW j \in Jobs,
             \/ EnqueueJob(j) \/ EnqueueFails(j) \/ DeleteCheck(j) \/ DeleteSelect(j)
             \/ Redeliver(j)
      PROVE  CleanInv'
  <2>1. UNCHANGED <<jobs, pc, task, snap, txn>>
    BY <1>5 DEF EnqueueJob, EnqueueFails, DeleteCheck, DeleteSelect, Redeliver, workerVars, dbVars
  <2> QED BY <1>1, <2>1
<1>6. ASSUME NEW w \in Workers, NEW j \in Jobs, TakeMessage(w, j) PROVE CleanInv'
  BY <1>0, <1>6 DEF TakeMessage, dbVars
<1>7. ASSUME NEW w \in Workers, AckMessage(w) \/ Crash(w) PROVE CleanInv'
  BY <1>0, <1>7 DEF AckMessage, Crash, dbVars
<1>8. ASSUME NEW w \in Workers, FetchJob(w) PROVE CleanInv'
  BY <1>0, <1>2, <1>8 DEF FetchJob, Goto, Exists, dbVars
<1>9. ASSUME NEW w \in Workers, FlipToRunning(w) PROVE CleanInv'
  <2>1. UNCHANGED <<task, snap, txn>>
    BY <1>9 DEF FlipToRunning
  <2>2. pc[w] = "flip" /\ jobs[task[w]].status \in {snap[w].status, "ABSENT"}
    BY <1>9 DEF FlipToRunning
  <2> QED BY <1>0, <1>2, <1>9, <2>1, <2>2, FlipEffect DEF Exists
<1>10. ASSUME NEW w \in Workers, SetUpClients(w) \/ SetUpFails(w) PROVE CleanInv'
  BY <1>0, <1>2, <1>10 DEF SetUpClients, SetUpFails, Goto, dbVars
<1>11. ASSUME NEW w \in Workers, BeginResearch(w) PROVE CleanInv'
  BY <1>0, <1>2, <1>11 DEF BeginResearch, Goto, dbVars
<1>12. ASSUME NEW w \in Workers, FlushRunning(w) PROVE CleanInv'
  BY <1>0, <1>2, <1>12 DEF FlushRunning, Goto, Exists, dbVars
<1>13. ASSUME NEW w \in Workers, ReportProgress(w) PROVE CleanInv'
  BY <1>0, <1>2, <1>13, ProgressEffect DEF ReportProgress, Goto
<1>14. ASSUME NEW w \in Workers, WriteClaims(w) \/ ResearchFails(w) \/ MarkFailedFails(w)
       PROVE  CleanInv'
  BY <1>0, <1>2, <1>14 DEF WriteClaims, ResearchFails, MarkFailedFails, ResearchSteps, Goto, dbVars
<1>15. ASSUME NEW w \in Workers, pc[w] \in {"work", "cite"}, UNCHANGED <<task, snap>>,
              NEW insufficient \in BOOLEAN, NEW withClaims \in BOOLEAN,
              Commit(w, insufficient, withClaims)
       PROVE  CleanInv'
  BY <1>0, <1>2, <1>15, CommitEffect DEF dbVars
<1>16. ASSUME NEW w \in Workers, DeclareInsufficient(w) \/ FinishReport(w) PROVE CleanInv'
  BY <1>15, <1>16 DEF DeclareInsufficient, FinishReport
<1>17. ASSUME NEW w \in Workers, MarkFailed(w) PROVE CleanInv'
  BY <1>0, <1>2, <1>17, MarkFailedEffect DEF MarkFailed, Goto
<1> HIDE DEF CleanInv
<1>18. ASSUME UNCHANGED vars PROVE CleanInv'
  BY <1>18 DEF vars, CleanInv
<1> QED BY <1>3, <1>4, <1>5, <1>6, <1>7, <1>8, <1>9, <1>10, <1>11, <1>12, <1>13, <1>14, <1>16,
           <1>17, <1>18 DEF Next, RunTask, TaskStep

\* The early commit of RUNNING keeps every long transaction off the row of its job.
THEOREM CleanInvariant ==
    ASSUME MaxTimeouts = 0
    PROVE  Spec => []CleanInv
<1>1. Init => CleanInv
  BY DEF Init, CleanInv
<1>2. TypeInv /\ ExclusiveInv /\ CleanInv /\ [Next]_vars => CleanInv'
  BY CleanStep
<1> QED BY <1>1, <1>2, TypeInvariant, ExclusiveInvariant, PTL DEF Spec

\* No worker ever waits in on_progress for the lock of its own transaction, as
\* long as the visibility timeout outlasts every run.
THEOREM NoWorkerWaitsForItself ==
    ASSUME MaxTimeouts = 0
    PROVE  Spec => []NoSelfDeadlock
<1>1. CleanInv => NoSelfDeadlock
  BY DEF CleanInv, NoSelfDeadlock, HoldsRow
<1> QED BY <1>1, CleanInvariant, PTL

-----------------------------------------------------------------------------
(* What a client is shown. The rows and the runs fit each other: a run that *)
(* writes finds the flags it loaded, its report is the latest, and before   *)
(* the first crash every job is run once and deleted only behind its end.   *)

RunSteps == {"flush", "plan", "work", "cite"}

RowFits(j) ==
    /\ api[j] = "new" => ~Exists(jobs[j])
    /\ api[j] = "created" => jobs[j].status = "PENDING"
    /\ jobs[j].status = "PENDING" => /\ ~jobs[j].insufficient /\ ~jobs[j].error
                                     /\ deletion[j].phase = "none"
    /\ deletion[j].phase # "none" => Exists(jobs[j])
    /\ \A r \in reports[j] : r.run <= begun[j]

RunFits(w) ==
    LET j == task[w] IN
    /\ pc[w] \in {"setup", "begin", "handler"} \cup RunSteps => jobs[j].status \in RunningOrGone
    /\ pc[w] \in RunSteps =>
          /\ run[w] <= begun[j]
          /\ \A r \in reports[j] : r.run < run[w]
          /\ Exists(jobs[j]) => /\ snap[w].status = "RUNNING"
                                /\ snap[w].insufficient = jobs[j].insufficient
    /\ txn[w] = "insert" => ~Exists(snap[w])

RowIsRunOnce(j) ==
    crashes = 0 =>
        /\ deletion[j].phase # "none" => jobs[j].status \in TERMINAL_STATUSES
        /\ message[j] = "queued" => jobs[j].status = "PENDING"
        /\ message[j] = "unacked" => \E w \in Workers : Active(w, j)

RunIsOnly(w) ==
    crashes = 0 =>
        /\ pc[w] \in {"start", "flip"} => jobs[task[w]].status = "PENDING"
        /\ pc[w] \in {"setup", "begin", "handler"} \cup RunSteps
              => jobs[task[w]].status = "RUNNING"

OutcomeInv ==
    /\ \A j \in Jobs : RowFits(j) /\ RowIsRunOnce(j)
    /\ \A w \in Workers : RunFits(w) /\ RunIsOnly(w)

\* What the steps that write a row do to what a client sees of it.
Shown(row) == <<row.status, row.insufficient, row.error>>

LEMMA FlipShows ==
    ASSUME TypeInv, CleanInv, NEW w \in Workers, FlipToRunning(w)
    PROVE  \/ UNCHANGED jobs /\ (~Exists(jobs[task[w]]) \/ jobs[task[w]].status = "RUNNING")
           \/ /\ Exists(jobs[task[w]])
              /\ Shown(jobs'[task[w]]) =
                    <<"RUNNING", jobs[task[w]].insufficient, jobs[task[w]].error>>
<1> DEFINE j   == task[w]
           obj == [snap[w] EXCEPT !.status = "RUNNING", !.progress = "starting"]
<1>1. /\ j \in Jobs /\ pc[w] = "flip" /\ snap[w] \in ResearchJob
      /\ jobs \in [Jobs -> ResearchJob \cup {NoRow}]
      /\ Exists(jobs[j]) => jobs[j].status = snap[w].status
  BY ExistingRow DEF FlipToRunning, TypeInv, TypeOK, CleanInv, Exists
<1>2. /\ obj.status = "RUNNING" /\ obj.insufficient = snap[w].insufficient
      /\ obj.error = snap[w].error
  BY <1>1 DEF ResearchJob
<1>3. CASE obj = snap[w] /\ UNCHANGED jobs
  BY <1>1, <1>2, <1>3
<1>4. CASE Exists(jobs[j]) /\ jobs' = [jobs EXCEPT ![j] = Save(@, snap[w], obj)]
  <2>1. jobs'[j] = Save(jobs[j], snap[w], obj)
    BY <1>1, <1>4
  <2> HIDE DEF obj
  <2>2. Shown(Save(jobs[j], snap[w], obj)) = <<"RUNNING", jobs[j].insufficient, jobs[j].error>>
    BY <1>1, <1>2, <1>4 DEF Save, Shown
  <2> QED BY <1>4, <2>1, <2>2
<1>5. CASE UNCHANGED jobs /\ ~Exists(jobs[j])
  BY <1>5
<1> QED BY <1>3, <1>4, <1>5 DEF FlipToRunning

LEMMA ProgressShows ==
    ASSUME TypeInv, NEW w \in Workers, ReportProgress(w)
    PROVE  \A j \in Jobs : Shown(jobs'[j]) = Shown(jobs[j])
<1>1. jobs \in [Jobs -> ResearchJob \cup {NoRow}]
  BY DEF TypeInv, TypeOK
<1>2. CASE UNCHANGED jobs
  BY <1>2
<1>3. CASE jobs' = [jobs EXCEPT ![task[w]].progress = "working"]
  BY <1>1, <1>3 DEF Shown, ResearchJob, NoRow
<1> QED BY <1>2, <1>3 DEF ReportProgress

LEMMA MarkFailedShows ==
    ASSUME TypeInv, NEW w \in Workers, MarkFailed(w), Exists(jobs[task[w]])
    PROVE  Shown(jobs'[task[w]]) = <<"FAILED", jobs[task[w]].insufficient, TRUE>>
<1>1. task[w] \in Jobs /\ jobs \in [Jobs -> ResearchJob \cup {NoRow}]
  BY DEF MarkFailed, TypeInv, TypeOK
<1>2. jobs[task[w]] \in ResearchJob
  BY <1>1, ExistingRow
<1>3. jobs' = [jobs EXCEPT ![task[w]].status = "FAILED", ![task[w]].error = TRUE]
  BY DEF MarkFailed
<1> QED BY <1>1, <1>2, <1>3 DEF Shown, ResearchJob

\* The outcome is written whole: the flag says what the report says, unless an
\* earlier outcome had set it, and a row inserted anew starts from nothing.
LEMMA CommitShows ==
    ASSUME TypeInv, CleanInv, NEW w \in Workers, RunFits(w), pc[w] \in {"work", "cite"},
           NEW insufficient \in BOOLEAN, NEW withClaims \in BOOLEAN,
           Commit(w, insufficient, withClaims), ~UNCHANGED dbVars
    PROVE  LET j    == task[w]
               flag == Exists(jobs[j]) /\ jobs[j].insufficient
           IN  /\ Shown(jobs'[j]) = <<"SUCCEEDED", flag \/ insufficient,
                                      Exists(jobs[j]) /\ jobs[j].error>>
               /\ reports'[j] = reports[j] \cup {[run |-> run[w], insufficient |-> insufficient]}
<1> DEFINE j   == task[w]
           row == IF txn[w] = "insert" THEN FlushedObject(w) ELSE jobs[j]
<1>1. /\ j \in Jobs
      /\ jobs \in [Jobs -> ResearchJob \cup {NoRow}]
      /\ reports \in [Jobs -> SUBSET Report]
      /\ txn[w] = "insert" \/ Exists(snap[w])
      /\ txn[w] = "insert" => ~Exists(jobs[j])
      /\ Exists(jobs[j]) => snap[w].insufficient = jobs[j].insufficient
  BY DEF TypeInv, TypeOK, Loaded, RunFits, RunSteps, Exists
<1>2. /\ Exists(row)
      /\ jobs' = [jobs EXCEPT ![j] =
                     Save(row, FlushedObject(w), FinishedObject(w, insufficient))]
      /\ reports' = [reports EXCEPT ![j] =
                        @ \cup {[run |-> run[w], insufficient |-> insufficient]}]
  BY DEF Commit
<1>3. row \in ResearchJob /\ FlushedObject(w) \in ResearchJob
  BY <1>1, <1>2, ExistingRow, ObjectTypes DEF TypeInv
<1>4. /\ FlushedObject(w).status = "RUNNING"
      /\ row.insufficient = FlushedObject(w).insufficient
      /\ row.insufficient = (Exists(jobs[j]) /\ jobs[j].insufficient)
      /\ row.error = (Exists(jobs[j]) /\ jobs[j].error)
  <2>1. CASE txn[w] = "insert"
    BY <1>1, <2>1 DEF FlushedObject, NewRow
  <2>2. CASE txn[w] # "insert"
    <3>1. snap[w] \in ResearchJob
      BY <1>1, <2>2, ExistingRow DEF TypeInv, TypeOK
    <3>2. Exists(jobs[j]) /\ row = jobs[j]
      BY <1>2, <2>2
    <3> QED BY <1>1, <1>3, <2>2, <3>1, <3>2 DEF FlushedObject, ResearchJob
  <2> QED BY <2>1, <2>2
<1>5. /\ FinishedObject(w, insufficient).status = "SUCCEEDED"
      /\ FinishedObject(w, insufficient).insufficient = (row.insufficient \/ insufficient)
      /\ FinishedObject(w, insufficient).error = FlushedObject(w).error
  BY <1>3, <1>4 DEF FinishedObject, ResearchJob
<1>6. jobs'[j] = Save(row, FlushedObject(w), FinishedObject(w, insufficient))
  BY <1>1, <1>2
<1> HIDE DEF row
<1>7. Shown(jobs'[j]) = <<"SUCCEEDED", row.insufficient \/ insufficient, row.error>>
  <2> DEFINE flushed == FlushedObject(w)
             end == FinishedObject(w, insufficient)
  <2>1. /\ jobs'[j].status = "SUCCEEDED"
        /\ jobs'[j].error = row.error
        /\ jobs'[j].insufficient = IF end.insufficient = flushed.insufficient
                                  THEN row.insufficient ELSE end.insufficient
    <3>1. jobs'[j] = Save(row, flushed, end)
      BY <1>6
    <3>2. end.status = "SUCCEEDED" /\ flushed.status = "RUNNING" /\ end.error = flushed.error
      BY <1>4, <1>5
    <3> HIDE DEF flushed, end
    <3> QED BY <3>1, <3>2 DEF Save
  <2>2. row.insufficient \in BOOLEAN
    BY <1>3 DEF ResearchJob
  <2> HIDE DEF flushed, end
  <2>3. jobs'[j].insufficient = (row.insufficient \/ insufficient)
    BY <1>4, <1>5, <2>1, <2>2 DEF flushed, end
  <2> QED BY <2>1, <2>3 DEF Shown
<1> QED BY <1>1, <1>2, <1>4, <1>7

\* A step of a worker leaves everybody else's rows and runs as they are: only its
\* own can come not to fit.
LEMMA OwnStep ==
    ASSUME TypeInv, ExclusiveInv, OutcomeInv, NEW w \in Workers, task[w] \in Jobs,
           UNCHANGED <<task, api, deletion, message, crashes>>,
           pc[w] \in WritingSteps, pc'[w] # "idle",
           \A v \in Workers \ {w} : /\ pc'[v] = pc[v] /\ snap'[v] = snap[v]
                                   /\ txn'[v] = txn[v] /\ run'[v] = run[v],
           \A j \in Jobs \ {task[w]} : /\ jobs'[j] = jobs[j] /\ reports'[j] = reports[j]
                                       /\ begun'[j] = begun[j],
           RowFits(task[w])', RunFits(w)', RunIsOnly(w)'
    PROVE  OutcomeInv'
<1>1. \A j \in Jobs \ {task[w]} : RowFits(j)' /\ RowIsRunOnce(j)'
  <2> TAKE j \in Jobs \ {task[w]}
  <2>1. RowFits(j)'
    BY DEF OutcomeInv, RowFits
  <2>2. RowIsRunOnce(j)'
    BY DEF OutcomeInv, RowIsRunOnce, Active, TypeInv, TypeOK
  <2> QED BY <2>1, <2>2
<1>2. RowIsRunOnce(task[w])'
  <2>1. crashes = 0 => deletion[task[w]].phase = "none"
    BY DEF OutcomeInv, RowIsRunOnce, RunIsOnly, RunSteps, WritingSteps, Steps, TERMINAL_STATUSES
  <2>2. message'[task[w]] = "unacked" /\ Active(w, task[w])'
    BY DEF ExclusiveInv, TypeInv, TypeOK, Active
  <2> QED BY <2>1, <2>2 DEF RowIsRunOnce
<1>3. \A v \in Workers \ {w} : RunFits(v)' /\ RunIsOnly(v)'
  <2> TAKE v \in Workers \ {w}
  <2>1. task[v] # task[w] /\ task[v] \in Jobs \cup {NoJob}
    BY DEF ExclusiveInv, TypeInv, TypeOK
  <2>2. CASE task[v] \in Jobs
    BY <2>1, <2>2 DEF OutcomeInv, RunFits, RunIsOnly
  <2>3. CASE task[v] = NoJob
    BY <2>3 DEF TypeInv, TypeOK, RunFits, RunIsOnly, RunSteps
  <2> QED BY <2>1, <2>2, <2>3
<1> QED BY <1>1, <1>2, <1>3 DEF OutcomeInv

LEMMA OutcomeStep ==
    ASSUME MaxTimeouts = 0, TypeInv, RowsInv, ExclusiveInv, CleanInv, OutcomeInv, [Next]_vars
    PROVE  OutcomeInv'
<1>0. /\ jobs \in [Jobs -> ResearchJob \cup {NoRow}]
      /\ reports \in [Jobs -> SUBSET Report]
      /\ api \in [Jobs -> {"new", "created", "accepted", "failed"}]
      /\ message \in [Jobs -> {"none", "queued", "unacked"}]
      /\ deletion \in [Jobs -> [phase   : {"none", "checked", "selected"},
                                reports : SUBSET Report,
                                claims  : SUBSET Nat]]
      /\ pc \in [Workers -> Steps \cup {"idle"}]
      /\ task \in [Workers -> Jobs \cup {NoJob}]
      /\ snap \in [Workers -> ResearchJob \cup {NoRow}]
      /\ txn \in [Workers -> {"none", "clean", "dirty", "insert"}]
      /\ run \in [Workers -> Nat] /\ begun \in [Jobs -> Nat] /\ crashes \in Nat
      /\ \A w \in Workers : (pc[w] = "idle") <=> (task[w] = NoJob)
      /\ NoJob \notin Jobs
  BY NoJobAssumption, BoundsAssumption DEF TypeInv, TypeOK
<1>a. /\ \A j \in Jobs : RowFits(j) /\ RowIsRunOnce(j)
      /\ \A w \in Workers : RunFits(w) /\ RunIsOnly(w)
  BY DEF OutcomeInv
\* The API and the broker.
<1>1. ASSUME NEW j \in Jobs, CreateJob(j) PROVE OutcomeInv'
  <2>1. /\ message[j] = "none" /\ \A w \in Workers : task[w] # j
        /\ reports[j] = {} /\ deletion[j].phase = "none"
    BY <1>0, <1>a, <1>1 DEF CreateJob, ExclusiveInv, RowsInv, NoOrphanRows, RowFits
  <2>2. \A i \in Jobs : RowFits(i)'
    BY <1>0, <1>a, <1>1, <2>1 DEF CreateJob, RowFits, NewRow, Exists, envVars
  <2>3. \A i \in Jobs : RowIsRunOnce(i)'
    BY <1>0, <1>a, <1>1, <2>1 DEF CreateJob, RowIsRunOnce, NewRow, Active, workerVars, envVars
  <2>4. \A w \in Workers : RunFits(w)' /\ RunIsOnly(w)'
    BY <1>0, <1>a, <1>1, <2>1 DEF CreateJob, RunFits, RunIsOnly, RunSteps, workerVars, envVars
  <2> QED BY <2>2, <2>3, <2>4 DEF OutcomeInv
<1>2. ASSUME NEW j \in Jobs, EnqueueJob(j) \/ EnqueueFails(j) PROVE OutcomeInv'
  <2>1. \A i \in Jobs : RowFits(i)'
    BY <1>0, <1>a, <1>2 DEF EnqueueJob, EnqueueFails, RowFits, dbVars, envVars
  <2>2. \A i \in Jobs : RowIsRunOnce(i)'
    BY <1>0, <1>a, <1>2 DEF EnqueueJob, EnqueueFails, RowIsRunOnce, RowFits, Active,
       TERMINAL_STATUSES, workerVars, dbVars, envVars
  <2>3. \A w \in Workers : RunFits(w)' /\ RunIsOnly(w)'
    BY <1>0, <1>a, <1>2 DEF EnqueueJob, EnqueueFails, RunFits, RunIsOnly, workerVars, dbVars, envVars
  <2> QED BY <2>1, <2>2, <2>3 DEF OutcomeInv
<1>3. ASSUME NEW j \in Jobs, DeleteCheck(j) \/ DeleteSelect(j) PROVE OutcomeInv'
  <2>0. /\ UNCHANGED <<dbVars, api, message, workerVars, envVars>>
        /\ \A i \in Jobs : deletion'[i].phase # "none" =>
               deletion[i].phase # "none" \/ jobs[i].status \in TERMINAL_STATUSES
    BY <1>0, <1>3 DEF DeleteCheck, DeleteSelect, DELETABLE_STATUSES, TERMINAL_STATUSES
  <2>1. \A i \in Jobs : RowFits(i)'
    BY <1>0, <1>a, <2>0 DEF RowFits, Exists, TERMINAL_STATUSES, dbVars, envVars
  <2>2. \A i \in Jobs : RowIsRunOnce(i)'
    BY <1>0, <1>a, <2>0 DEF RowIsRunOnce, Active, workerVars, dbVars, envVars
  <2>3. \A w \in Workers : RunFits(w)' /\ RunIsOnly(w)'
    BY <1>0, <1>a, <2>0 DEF RunFits, RunIsOnly, workerVars, dbVars, envVars
  <2> QED BY <2>1, <2>2, <2>3 DEF OutcomeInv
<1>4. ASSUME NEW j \in Jobs, DeleteCommit(j) PROVE OutcomeInv'
  <2>0. /\ UNCHANGED <<api, message, workerVars, envVars>>
        /\ deletion[j].phase # "none" /\ deletion'[j].phase = "none"
        /\ \A i \in Jobs \ {j} : jobs'[i] = jobs[i] /\ reports'[i] = reports[i]
                                 /\ deletion'[i] = deletion[i]
        /\ \/ jobs'[j] = jobs[j] /\ reports'[j] = reports[j]
           \/ ~Exists(jobs'[j]) /\ reports'[j] = {}
    BY <1>0, <1>4 DEF DeleteCommit, dbVars, NoRow, Exists
  <2>1. \A i \in Jobs : RowFits(i)'
    BY <1>0, <1>a, <2>0 DEF RowFits, Exists, envVars
  <2>2. \A i \in Jobs : RowIsRunOnce(i)'
    BY <1>0, <1>a, <2>0 DEF RowIsRunOnce, Active, TERMINAL_STATUSES, workerVars, envVars
  <2>3. \A w \in Workers : RunFits(w)'
    BY <1>0, <1>a, <2>0 DEF RunFits, RunSteps, RunningOrGone, Exists, workerVars, envVars
  <2>4. \A w \in Workers : RunIsOnly(w)'
    BY <1>0, <1>a, <2>0 DEF RunIsOnly, RunSteps, RowIsRunOnce, TERMINAL_STATUSES, workerVars, envVars
  <2> QED BY <2>1, <2>2, <2>3, <2>4 DEF OutcomeInv
<1>5. ASSUME NEW j \in Jobs, Redeliver(j) PROVE OutcomeInv'
  <2>1. crashes # 0
    BY <1>0, <1>a, <1>5, BoundsAssumption DEF Redeliver, RowIsRunOnce, TypeInv, TypeOK
  <2> QED BY <1>0, <1>a, <1>5, <2>1
          DEF Redeliver, OutcomeInv, RowFits, RowIsRunOnce, RunFits, RunIsOnly, Active, dbVars, apiVars, workerVars
<1>6. ASSUME NEW w \in Workers, NEW j \in Jobs, TakeMessage(w, j) PROVE OutcomeInv'
  <2>1. \A i \in Jobs : RowFits(i)'
    BY <1>0, <1>a, <1>6 DEF TakeMessage, RowFits, apiVars, dbVars, envVars
  <2>2. \A i \in Jobs : RowIsRunOnce(i)'
    BY <1>0, <1>a, <1>6 DEF TakeMessage, RowIsRunOnce, Active, apiVars, dbVars, envVars
  <2>3. \A v \in Workers : RunFits(v)' /\ RunIsOnly(v)'
    BY <1>0, <1>a, <1>6 DEF TakeMessage, RunFits, RunIsOnly, RunSteps, RowIsRunOnce, apiVars, dbVars, envVars
  <2> QED BY <2>1, <2>2, <2>3 DEF OutcomeInv
<1>7. ASSUME NEW w \in Workers, AckMessage(w) PROVE OutcomeInv'
  <2>1. \A i \in Jobs : RowFits(i)'
    BY <1>0, <1>a, <1>7 DEF AckMessage, RowFits, apiVars, dbVars, envVars
  <2>2. \A i \in Jobs : RowIsRunOnce(i)'
    BY <1>0, <1>a, <1>7 DEF AckMessage, RowIsRunOnce, Active, ExclusiveInv, apiVars, dbVars, envVars
  <2>3. \A v \in Workers : RunFits(v)' /\ RunIsOnly(v)'
    <3>1. txn[w] = "none"
      BY <1>0, <1>7 DEF AckMessage, TypeInv, TypeOK
    <3> QED BY <1>0, <1>a, <1>7, <3>1 DEF AckMessage, RunFits, RunIsOnly, RunSteps, apiVars, dbVars, envVars
  <2> QED BY <2>1, <2>2, <2>3 DEF OutcomeInv
<1>8. ASSUME NEW w \in Workers, Crash(w) PROVE OutcomeInv'
  <2>1. crashes' # 0
    BY <1>0, <1>8 DEF Crash
  <2>2. \A i \in Jobs : RowFits(i)' /\ RowIsRunOnce(i)'
    BY <1>0, <1>a, <1>8, <2>1 DEF Crash, RowFits, RowIsRunOnce, apiVars, dbVars
  <2>3. \A v \in Workers : RunFits(v)' /\ RunIsOnly(v)'
    BY <1>0, <1>a, <1>8, <2>1 DEF Crash, RunFits, RunIsOnly, RunSteps, apiVars, dbVars
  <2> QED BY <2>2, <2>3 DEF OutcomeInv
\* The steps of a run.
<1>b. ASSUME NEW w \in Workers,
             UNCHANGED <<task, api, deletion, message, crashes>>,
             pc[w] \in WritingSteps, pc'[w] # "idle",
             \A v \in Workers \ {w} : /\ pc'[v] = pc[v] /\ snap'[v] = snap[v]
                                     /\ txn'[v] = txn[v] /\ run'[v] = run[v],
             \A j \in Jobs \ {task[w]} : /\ jobs'[j] = jobs[j] /\ reports'[j] = reports[j]
                                         /\ begun'[j] = begun[j],
             RowFits(task[w])', RunFits(w)', RunIsOnly(w)'
      PROVE  OutcomeInv'
  <2>1. task[w] \in Jobs
    BY <1>0, <1>b DEF WritingSteps, Steps
  <2> QED BY <1>b, <2>1, OwnStep
<1>c. \A w \in Workers : pc[w] \in WritingSteps =>
          task[w] \in Jobs /\ api[task[w]] = "accepted"
  BY <1>0 DEF ExclusiveInv, WritingSteps, Steps
\* A step that writes nothing of its row.
<1>d. ASSUME NEW w \in Workers, pc[w] \in WritingSteps, NEW step \in Steps,
             UNCHANGED <<jobs, reports, claims, api, deletion, message, task, begun, crashes>>,
             pc' = [pc EXCEPT ![w] = step],
             \A v \in Workers \ {w} : snap'[v] = snap[v] /\ txn'[v] = txn[v] /\ run'[v] = run[v],
             RunFits(w)', RunIsOnly(w)'
      PROVE  OutcomeInv'
  <2>1. RowFits(task[w])'
    BY <1>a, <1>c, <1>d DEF RowFits
  <2> QED BY <1>0, <1>b, <1>d, <2>1 DEF Steps
<1>9. ASSUME NEW w \in Workers, FetchJob(w) PROVE OutcomeInv'
  <2>1. /\ pc[w] = "start"
        /\ UNCHANGED <<jobs, reports, claims, api, deletion, message, task, txn, run, begun, crashes>>
        /\ snap' = [snap EXCEPT ![w] = jobs[task[w]]]
        /\ pc' = [pc EXCEPT ![w] = IF Exists(jobs[task[w]]) THEN "flip" ELSE "setup"]
    BY <1>9 DEF FetchJob, Goto, apiVars, dbVars, envVars
  <2>2. txn[w] = "none" /\ pc[w] \in WritingSteps
    BY <1>0, <2>1 DEF TypeInv, TypeOK, WritingSteps, Steps
  <2>3. RunFits(w)' /\ RunIsOnly(w)'
    BY <1>0, <1>a, <2>1, <2>2 DEF RunFits, RunIsOnly, RunSteps, RunningOrGone, Exists
  <2> QED BY <1>0, <1>d, <2>1, <2>2, <2>3 DEF Steps
<1>10. ASSUME NEW w \in Workers, FlipToRunning(w) PROVE OutcomeInv'
  <2> DEFINE j == task[w]
  <2>1. /\ j \in Jobs /\ pc[w] = "flip"
        /\ UNCHANGED <<reports, claims, api, deletion, message, task, snap, txn, run, begun, crashes>>
        /\ \A i \in Jobs : i # j => jobs'[i] = jobs[i]
    BY <1>10, FlipEffect DEF FlipToRunning, apiVars, envVars
  <2>2. txn[w] = "none" /\ pc[w] \in WritingSteps
    BY <1>0, <2>1 DEF TypeInv, TypeOK, WritingSteps, Steps
  <2>3. \/ /\ jobs' = jobs /\ pc' = [pc EXCEPT ![w] = "setup"]
           /\ jobs[j].status \in RunningOrGone
        \/ /\ jobs' = jobs /\ pc' = [pc EXCEPT ![w] = "ack"]
        \/ /\ jobs'[j].status = "RUNNING" /\ Exists(jobs[j]) /\ pc' = [pc EXCEPT ![w] = "setup"]
    BY <1>10, <2>1, FlipEffect DEF CleanInv, RunningOrGone, Exists
  <2>4. RowFits(j)'
    BY <1>a, <1>c, <2>1, <2>2, <2>3 DEF RowFits, Exists
  <2>5. RunFits(w)'
    BY <1>0, <2>1, <2>2, <2>3 DEF RunFits, RunSteps, RunningOrGone
  <2>6. RunIsOnly(w)'
    BY <1>0, <1>a, <2>1, <2>3 DEF RunIsOnly, RunSteps, RunningOrGone, Exists
  <2> QED BY <1>0, <1>b, <2>1, <2>2, <2>3, <2>4, <2>5, <2>6
<1>11. ASSUME NEW w \in Workers, SetUpClients(w) \/ SetUpFails(w) PROVE OutcomeInv'
  <2>1. /\ pc[w] \in {"start", "flip", "setup"} /\ pc[w] \in WritingSteps
        /\ UNCHANGED <<jobs, reports, claims, api, deletion, message, task, snap, txn, run,
                       begun, crashes>>
        /\ \/ pc[w] = "setup" /\ pc' = [pc EXCEPT ![w] = "begin"]
           \/ pc' = [pc EXCEPT ![w] = "ack"]
    BY <1>11 DEF SetUpClients, SetUpFails, Goto, WritingSteps, Steps, apiVars, dbVars, envVars
  <2>2. txn[w] = "none"
    BY <1>0, <2>1 DEF TypeInv, TypeOK
  <2>3. RunFits(w)' /\ RunIsOnly(w)'
    BY <1>0, <1>a, <2>1, <2>2 DEF RunFits, RunIsOnly, RunSteps
  <2> QED BY <1>0, <1>d, <2>1, <2>3 DEF Steps
<1>12. ASSUME NEW w \in Workers, BeginResearch(w) PROVE OutcomeInv'
  <2> DEFINE j == task[w]
  <2>1. /\ pc[w] = "begin" /\ pc[w] \in WritingSteps
        /\ UNCHANGED <<jobs, reports, claims, api, deletion, message, task, txn, crashes>>
        /\ snap'  = [snap EXCEPT ![w] = jobs[j]]
        /\ begun' = [begun EXCEPT ![j] = @ + 1]
        /\ run'   = [run EXCEPT ![w] = begun[j] + 1]
        /\ pc' = [pc EXCEPT ![w] = "flush"]
    BY <1>12 DEF BeginResearch, Goto, WritingSteps, Steps, apiVars, dbVars
  <2>2. txn[w] = "none" /\ j \in Jobs
    BY <1>0, <1>c, <2>1 DEF TypeInv, TypeOK
  <2>3. jobs[j].status \in RunningOrGone /\ \A r \in reports[j] : r.run \in Nat /\ r.run <= begun[j]
    BY <1>0, <1>a, <2>1, <2>2 DEF RunFits, RowFits, Report
  <2>4. begun[j] \in Nat /\ begun'[j] = begun[j] + 1 /\ run'[w] = begun[j] + 1
    BY <1>0, <2>1, <2>2
  <2>5. RowFits(j)'
    BY <1>a, <2>1, <2>2, <2>3, <2>4 DEF RowFits
  <2>6. RunFits(w)'
    BY <1>0, <2>1, <2>2, <2>3, <2>4 DEF RunFits, RunSteps, RunningOrGone, Exists
  <2>7. RunIsOnly(w)'
    BY <1>0, <1>a, <2>1 DEF RunIsOnly, RunSteps
  <2> QED BY <1>0, <1>b, <2>1, <2>2, <2>5, <2>6, <2>7
<1>13. ASSUME NEW w \in Workers, FlushRunning(w) PROVE OutcomeInv'
  <2>1. /\ pc[w] = "flush" /\ pc[w] \in WritingSteps
        /\ UNCHANGED <<jobs, reports, claims, api, deletion, message, task, snap, run, begun, crashes>>
        /\ \/ pc' = [pc EXCEPT ![w] = "plan"] \/ pc' = [pc EXCEPT ![w] = "handler"]
        /\ \/ UNCHANGED txn
           \/ txn' = [txn EXCEPT ![w] = "insert"] /\ ~Exists(snap[w])
           \/ \E t \in {"clean", "dirty"} : txn' = [txn EXCEPT ![w] = t]
    BY <1>13 DEF FlushRunning, Goto, WritingSteps, Steps, apiVars, dbVars, envVars
  <2>2. txn[w] = "none"
    BY <1>0, <2>1 DEF TypeInv, TypeOK
  <2>3. RunFits(w)' /\ RunIsOnly(w)'
    BY <1>0, <1>a, <2>1, <2>2 DEF RunFits, RunIsOnly, RunSteps
  <2> QED BY <1>0, <1>d, <2>1, <2>3 DEF Steps
<1>14. ASSUME NEW w \in Workers, ReportProgress(w) PROVE OutcomeInv'
  <2> DEFINE j == task[w]
  <2>1. /\ pc[w] \in {"plan", "work"} /\ pc[w] \in WritingSteps /\ j \in Jobs
        /\ UNCHANGED <<reports, claims, api, deletion, message, task, snap, txn, run, begun, crashes>>
        /\ pc' = [pc EXCEPT ![w] = "work"]
        /\ \A i \in Jobs : i # j => jobs'[i] = jobs[i]
        /\ Shown(jobs'[j]) = Shown(jobs[j])
    BY <1>0, <1>14, ProgressShows, ProgressEffect DEF ReportProgress, Goto, WritingSteps, Steps, apiVars, envVars
  <2>2. RowFits(j)'
    BY <1>a, <2>1 DEF RowFits, Shown, Exists
  <2>3. RunFits(w)'
    BY <1>0, <1>a, <2>1 DEF RunFits, RunSteps, Shown, Exists
  <2>4. RunIsOnly(w)'
    BY <1>0, <1>a, <2>1 DEF RunIsOnly, RunSteps, Shown
  <2> QED BY <1>0, <1>b, <2>1, <2>2, <2>3, <2>4
<1>15. ASSUME NEW w \in Workers, WriteClaims(w) \/ ResearchFails(w) \/ MarkFailedFails(w)
       PROVE  OutcomeInv'
  <2>1. /\ pc[w] \in {"begin", "handler"} \cup RunSteps /\ pc[w] \in WritingSteps
        /\ UNCHANGED <<jobs, reports, claims, api, deletion, message, task, snap, run, begun, crashes>>
        /\ \/ pc' = [pc EXCEPT ![w] = "ack"] /\ UNCHANGED txn /\ pc[w] = "handler"
           \/ pc' = [pc EXCEPT ![w] = "handler"] /\ txn' = [txn EXCEPT ![w] = "none"]
           \/ pc' = [pc EXCEPT ![w] = "cite"] /\ UNCHANGED txn /\ pc[w] = "work"
    BY <1>15 DEF WriteClaims, ResearchFails, MarkFailedFails, Goto, WritingSteps, Steps,
       ResearchSteps, RunSteps, apiVars, dbVars, envVars
  <2>2. pc[w] = "handler" => txn[w] = "none"
    BY DEF TypeInv, TypeOK
  <2>3. RunFits(w)' /\ RunIsOnly(w)'
    BY <1>0, <1>a, <2>1, <2>2 DEF RunFits, RunIsOnly, RunSteps
  <2> QED BY <1>0, <1>d, <2>1, <2>3 DEF Steps
<1>16. ASSUME NEW w \in Workers, pc[w] \in {"work", "cite"},
              UNCHANGED <<apiVars, message, task, snap, run, envVars>>,
              NEW insufficient \in BOOLEAN, NEW withClaims \in BOOLEAN,
              Commit(w, insufficient, withClaims)
       PROVE  OutcomeInv'
  <2> DEFINE j == task[w]
  <2>1. /\ pc[w] \in WritingSteps /\ j \in Jobs /\ api[j] = "accepted"
        /\ UNCHANGED <<api, deletion, message, task, snap, run, begun, crashes>>
        /\ txn' = [txn EXCEPT ![w] = "none"]
        /\ \A i \in Jobs \ {j} : jobs'[i] = jobs[i] /\ reports'[i] = reports[i]
    BY <1>16, <1>c, CommitEffect DEF WritingSteps, Steps, apiVars, envVars
  <2>2. CASE UNCHANGED dbVars
    <3>1. pc' = [pc EXCEPT ![w] = "handler"]
      BY <1>16, <1>a, <2>2, CommitEffect DEF RunFits, RunSteps, RunningOrGone, dbVars
    <3>2. RowFits(j)'
      BY <1>a, <2>1, <2>2 DEF RowFits, dbVars
    <3>3. RunFits(w)' /\ RunIsOnly(w)'
      BY <1>0, <1>16, <1>a, <2>1, <2>2, <3>1 DEF RunFits, RunIsOnly, RunSteps, dbVars
    <3> QED BY <1>0, <1>b, <1>16, <2>1, <3>1, <3>2, <3>3
  <2>3. CASE ~UNCHANGED dbVars
    <3>1. /\ pc' = [pc EXCEPT ![w] = "ack"]
          /\ jobs'[j].status = "SUCCEEDED"
          /\ reports'[j] = reports[j] \cup {[run |-> run[w], insufficient |-> insufficient]}
      BY <1>16, <1>a, <2>3, CommitEffect, CommitShows DEF Shown
    <3>2. run[w] <= begun[j]
      BY <1>16, <1>a DEF RunFits, RunSteps
    <3>3. RowFits(j)'
      BY <1>a, <2>1, <3>1, <3>2 DEF RowFits, Exists
    <3>4. RunFits(w)' /\ RunIsOnly(w)'
      BY <1>0, <2>1, <3>1 DEF RunFits, RunIsOnly, RunSteps
    <3> QED BY <1>0, <1>b, <1>16, <2>1, <3>1, <3>3, <3>4
  <2> QED BY <2>2, <2>3
<1>17. ASSUME NEW w \in Workers, DeclareInsufficient(w) \/ FinishReport(w) PROVE OutcomeInv'
  BY <1>16, <1>17 DEF DeclareInsufficient, FinishReport
<1>18. ASSUME NEW w \in Workers, MarkFailed(w) PROVE OutcomeInv'
  <2> DEFINE j == task[w]
  <2>1. /\ pc[w] = "handler" /\ pc[w] \in WritingSteps /\ j \in Jobs /\ api[j] = "accepted"
        /\ UNCHANGED <<reports, claims, api, deletion, message, task, snap, txn, run, begun, crashes>>
        /\ pc' = [pc EXCEPT ![w] = "ack"]
        /\ \A i \in Jobs : i # j => jobs'[i] = jobs[i]
        /\ \/ jobs' = jobs
           \/ Exists(jobs[j]) /\ jobs'[j].status = "FAILED"
    BY <1>18, <1>c, MarkFailedEffect DEF MarkFailed, Goto, WritingSteps, Steps, apiVars, envVars
  <2>2. RowFits(j)'
    BY <1>a, <2>1 DEF RowFits, Exists
  <2>3. txn[w] = "none"
    BY <1>0, <2>1 DEF TypeInv, TypeOK
  <2>4. RunFits(w)' /\ RunIsOnly(w)'
    BY <1>0, <2>1, <2>3 DEF RunFits, RunIsOnly, RunSteps
  <2> QED BY <1>0, <1>b, <2>1, <2>2, <2>4
<1>19. CASE UNCHANGED vars
  BY <1>19 DEF vars, OutcomeInv, RowFits, RowIsRunOnce, RunFits, RunIsOnly, Active
<1> QED BY <1>1, <1>2, <1>3, <1>4, <1>5, <1>6, <1>7, <1>8, <1>9, <1>10, <1>11, <1>12, <1>13,
           <1>14, <1>15, <1>17, <1>18, <1>19 DEF Next, RunTask, TaskStep

LEMMA OutcomeInit == Init => OutcomeInv
BY NoJobAssumption
DEF Init, OutcomeInv, RowFits, RowIsRunOnce, RunFits, RunIsOnly, RunSteps, NoRow, Exists

\* The report GET shows is the one that was added last.
LEMMA LatestIsAdded ==
    ASSUME NEW S \in SUBSET Report, NEW r \in Report, \A q \in S : q.run < r.run
    PROVE  (CHOOSE l \in S \cup {r} : \A q \in S \cup {r} : q.run <= l.run) = r
<1>1. \A q \in S \cup {r} : q.run \in Nat /\ q.run <= r.run
  BY DEF Report
<1>2. ASSUME NEW l \in S \cup {r}, \A q \in S \cup {r} : q.run <= l.run
      PROVE  l = r
  BY <1>1, <1>2
<1> QED BY <1>1, <1>2

LEMMA ViewIs ==
    ASSUME NEW j \in Jobs, NEW status, NEW insufficient, NEW error,
           Shown(jobs[j]) = <<status, insufficient, error>>, status \notin {"ABSENT", "SUCCEEDED"}
    PROVE  JobResponse(j) = Service!View(status, insufficient, error, "none")
BY DEF JobResponse, Service!View, Shown, Exists

LEMMA ViewIsNext ==
    ASSUME NEW j \in Jobs, NEW status, NEW insufficient, NEW error,
           Shown(jobs'[j]) = <<status, insufficient, error>>, status \notin {"ABSENT", "SUCCEEDED"}
    PROVE  JobResponse(j)' = Service!View(status, insufficient, error, "none")
BY DEF JobResponse, Service!View, Shown, Exists

LEMMA SameView ==
    ASSUME NEW j \in Jobs, Shown(jobs'[j]) = Shown(jobs[j]),
           jobs[j].status # "SUCCEEDED" \/ reports'[j] = reports[j],
           api'[j] = "new" <=> api[j] = "new"
    PROVE  JobResponse(j)' = JobResponse(j)
<1>1. /\ jobs'[j].status = jobs[j].status /\ jobs'[j].insufficient = jobs[j].insufficient
      /\ jobs'[j].error = jobs[j].error
  BY DEF Shown
<1>2. CASE jobs[j].status = "SUCCEEDED"
  BY <1>1, <1>2 DEF JobResponse, LatestReport, Exists
<1>3. CASE jobs[j].status # "SUCCEEDED"
  BY <1>1, <1>3 DEF JobResponse, Exists
<1> QED BY <1>2, <1>3

LEMMA OneView ==
    ASSUME NEW j \in Jobs, \A i \in Jobs \ {j} : JobResponse(i)' = JobResponse(i),
           UNCHANGED crashes, NEW v, JobResponse(j)' = v
    PROVE  Service!Becomes(j, v)
BY DEF Service!Becomes

\* What a client is shown of a row without a report, and of a finished one.
LEMMA ViewOf ==
    ASSUME NEW j \in Jobs
    PROVE  /\ JobResponse(j).insufficient = jobs[j].insufficient
           /\ JobResponse(j).error = jobs[j].error
           /\ Exists(jobs[j]) => JobResponse(j).status = jobs[j].status
           /\ jobs[j].status # "SUCCEEDED" => JobResponse(j).report = "none"
BY DEF JobResponse

\* Every step is a step of JobService, or shows a client nothing new.
LEMMA ServiceStep ==
    ASSUME MaxTimeouts = 0, TypeInv, RowsInv, ExclusiveInv, CleanInv, OutcomeInv, [Next]_vars
    PROVE  [Service!Next]_(Service!vars)
<1> DEFINE Stutter == UNCHANGED <<[j \in Jobs |-> JobResponse(j)], crashes > 0>>
<1>0. /\ jobs \in [Jobs -> ResearchJob \cup {NoRow}]
      /\ reports \in [Jobs -> SUBSET Report]
      /\ api \in [Jobs -> {"new", "created", "accepted", "failed"}]
      /\ crashes \in Nat
      /\ \A w \in Workers : pc[w] # "idle" => task[w] \in Jobs /\ api[task[w]] = "accepted"
  BY BoundsAssumption DEF TypeInv, TypeOK, ExclusiveInv
<1>a. /\ \A j \in Jobs : RowFits(j) /\ RowIsRunOnce(j)
      /\ \A w \in Workers : RunFits(w) /\ RunIsOnly(w)
  BY DEF OutcomeInv
\* A step that shows nothing new.
<1>b. ASSUME UNCHANGED <<reports, crashes>>,
             \A j \in Jobs : /\ Shown(jobs'[j]) = Shown(jobs[j])
                             /\ api'[j] = "new" <=> api[j] = "new"
      PROVE  Stutter
  BY <1>b, SameView
\* A step of a worker that shows something new of its own job.
<1>c. ASSUME NEW j \in Jobs, NEW v, UNCHANGED <<api, crashes>>,
             \A i \in Jobs \ {j} : jobs'[i] = jobs[i] /\ reports'[i] = reports[i],
             JobResponse(j)' = v
      PROVE  Service!Becomes(j, v)
  <2>1. \A i \in Jobs \ {j} : JobResponse(i)' = JobResponse(i)
    BY <1>c, SameView DEF Shown
  <2> QED BY <1>c, <2>1, OneView
<1>1. ASSUME NEW j \in Jobs, CreateJob(j) PROVE Service!Accept(j)
  <2>1. /\ jobs[j] = NoRow /\ jobs'[j] = NewRow("PENDING") /\ api[j] = "new" /\ api'[j] = "created"
        /\ \A i \in Jobs \ {j} : jobs'[i] = jobs[i] /\ api'[i] = api[i]
        /\ UNCHANGED <<reports, crashes>>
    BY <1>0, <1>a, <1>1, ExistingRow DEF CreateJob, RowFits, envVars
  <2>2. JobResponse(j) = Service!Unborn
    BY <2>1 DEF JobResponse, Service!Unborn, Service!Fresh, Service!View, NoRow, Exists
  <2>3. JobResponse(j)' = Service!Fresh("PENDING")
    <3>1. Shown(jobs'[j]) = <<"PENDING", FALSE, FALSE>>
      BY <2>1 DEF Shown, NewRow
    <3> QED BY <3>1, ViewIsNext DEF Service!Fresh
  <2>4. \A i \in Jobs \ {j} : JobResponse(i)' = JobResponse(i)
    BY <2>1, SameView DEF Shown
  <2>5. Service!Becomes(j, Service!Fresh("PENDING"))
    BY <2>1, <2>3, <2>4, OneView
  <2> QED BY <2>2, <2>5 DEF Service!Accept
<1>2. ASSUME NEW j \in Jobs,
             \/ EnqueueJob(j) \/ EnqueueFails(j) \/ DeleteCheck(j) \/ DeleteSelect(j)
             \/ Redeliver(j) \/ \E w \in Workers : TakeMessage(w, j)
      PROVE  Stutter
  <2>1. UNCHANGED <<jobs, reports, crashes>> /\ \A i \in Jobs : api'[i] = "new" <=> api[i] = "new"
    BY <1>0, <1>2 DEF EnqueueJob, EnqueueFails, DeleteCheck, DeleteSelect, Redeliver, TakeMessage,
       apiVars, dbVars, envVars
  <2> QED BY <1>b, <2>1
<1>3. ASSUME NEW j \in Jobs, DeleteCommit(j)
      PROVE  Stutter \/ Service!Delete(j) \/ Service!DeleteInFlight(j)
  <2>1. UNCHANGED <<api, crashes>> /\ deletion[j].phase # "none"
    BY <1>3 DEF DeleteCommit, envVars
  <2>2. CASE UNCHANGED dbVars
    BY <1>b, <2>1, <2>2 DEF dbVars
  <2>3. CASE ~UNCHANGED dbVars
    <3>1. /\ jobs'[j] = NoRow
          /\ \A i \in Jobs \ {j} : jobs'[i] = jobs[i] /\ reports'[i] = reports[i]
      BY <1>0, <1>3, <2>3 DEF DeleteCommit
    <3>2. Exists(jobs[j]) /\ api[j] # "new" /\ jobs[j].status # "PENDING"
      BY <1>a, <2>1 DEF RowFits
    <3>3. JobResponse(j)' = Service!Deleted
      <4>1. jobs'[j] = NoRow /\ api'[j] # "new"
        BY <2>1, <3>1, <3>2
      <4>2. JobResponse(j)' = Service!View("DELETED", FALSE, FALSE, "none")
        BY <4>1 DEF JobResponse, Service!View, NoRow, Exists
      <4> QED BY <4>2 DEF Service!Deleted, Service!Fresh
    <3>4. Service!Becomes(j, Service!Deleted)
      BY <1>c, <2>1, <3>1, <3>3
    <3>5. JobResponse(j).status = jobs[j].status
      BY <3>2, ViewOf
    <3>6. CASE jobs[j].status \in TERMINAL_STATUSES
      BY <3>4, <3>5, <3>6 DEF Service!Delete, TERMINAL_STATUSES
    <3>7. CASE jobs[j].status \notin TERMINAL_STATUSES
      <4>1. crashes > 0 /\ jobs[j].status = "RUNNING"
        BY <1>0, <1>a, <2>1, <3>2, <3>7, ExistingRow
           DEF RowIsRunOnce, ResearchJob, NonTerminal
      <4> QED BY <3>4, <3>5, <4>1 DEF Service!DeleteInFlight
    <3> QED BY <3>6, <3>7
  <2> QED BY <2>2, <2>3
<1>4. ASSUME NEW w \in Workers, Crash(w) PROVE Stutter \/ Service!LoseWorker
  <2>1. UNCHANGED <<jobs, reports, api>> /\ crashes' = crashes + 1
    BY <1>4 DEF Crash, apiVars, dbVars
  <2>2. UNCHANGED [j \in Jobs |-> JobResponse(j)]
    BY <2>1, SameView
  <2>3. (crashes > 0)' = TRUE
    BY <1>0, <2>1
  <2> QED BY <2>2, <2>3 DEF Service!LoseWorker
<1>5. ASSUME NEW w \in Workers, FlipToRunning(w)
      PROVE  Stutter \/ \E j \in Jobs : Service!Start(j) \/ Service!RunAgain(j)
  <2>0. PICK j \in Jobs : j = task[w]
    BY <1>5, FlipEffect
  <2>1. /\ pc[w] = "flip" /\ UNCHANGED <<api, reports, crashes>>
        /\ \A i \in Jobs \ {j} : jobs'[i] = jobs[i]
    BY <2>0, <1>5, FlipEffect DEF FlipToRunning, apiVars, envVars
  <2>2. CASE jobs' = jobs
    BY <1>b, <2>0, <2>1, <2>2
  <2>3. CASE /\ Exists(jobs[j])
             /\ Shown(jobs'[j]) = <<"RUNNING", jobs[j].insufficient, jobs[j].error>>
    <3>1. JobResponse(j)' = Service!View("RUNNING", jobs[j].insufficient, jobs[j].error, "none")
      BY <2>3, ViewIsNext
    <3>2. /\ Service!Becomes(j, Service!View("RUNNING", jobs[j].insufficient, jobs[j].error, "none"))
          /\ JobResponse(j).status = jobs[j].status
          /\ JobResponse(j).insufficient = jobs[j].insufficient
          /\ JobResponse(j).error = jobs[j].error
      BY <1>c, <2>0, <2>1, <2>3, <3>1, ViewOf
    <3>3. CASE jobs[j].status = "PENDING"
      <4>1. jobs[j].insufficient = FALSE /\ jobs[j].error = FALSE
        BY <1>0, <1>a, <2>0, <2>1, <2>3, <3>3, ExistingRow DEF RowFits, ResearchJob
      <4> QED BY <3>2, <3>3, <4>1 DEF Service!Start, Service!Fresh
    <3>4. CASE jobs[j].status = "RUNNING"
      BY <1>0, <1>b, <2>0, <2>1, <2>3, <3>4 DEF Shown
    <3>5. CASE jobs[j].status \in TERMINAL_STATUSES
      <4>1. crashes > 0
        BY <1>0, <1>a, <2>0, <2>1, <3>5 DEF RunIsOnly, TERMINAL_STATUSES
      <4> QED BY <2>0, <2>1, <3>1, <3>2, <3>5, <4>1 DEF Service!RunAgain, TERMINAL_STATUSES
    <3> QED BY <1>0, <2>0, <2>1, <2>3, <3>3, <3>4, <3>5, ExistingRow DEF ResearchJob, NonTerminal
  <2> QED BY <1>5, <2>0, <2>2, <2>3, FlipShows
<1>6. ASSUME NEW w \in Workers, pc[w] \in {"work", "cite"},
             UNCHANGED <<apiVars, message, task, snap, run, envVars>>,
             NEW insufficient \in BOOLEAN, NEW withClaims \in BOOLEAN,
             Commit(w, insufficient, withClaims)
      PROVE  Stutter \/ \E j \in Jobs : \/ Service!Answer(j) \/ Service!Insufficient(j)
                                        \/ Service!Resurrect(j)
  <2>0. PICK j \in Jobs : j = task[w]
    BY <1>6, CommitEffect
  <2>1. /\ UNCHANGED <<api, crashes>> /\ api[j] # "new"
        /\ \A i \in Jobs \ {j} : jobs'[i] = jobs[i] /\ reports'[i] = reports[i]
    BY <1>0, <1>6, <2>0, CommitEffect DEF apiVars, envVars
  <2>2. CASE UNCHANGED dbVars
    BY <1>b, <2>1, <2>2 DEF dbVars
  <2>3. CASE ~UNCHANGED dbVars
    <3> DEFINE flag   == (Exists(jobs[j]) /\ jobs[j].insufficient) \/ insufficient
               error  == Exists(jobs[j]) /\ jobs[j].error
               report == IF insufficient THEN "insufficient" ELSE "answer"
    <3>1. /\ Shown(jobs'[j]) = <<"SUCCEEDED", flag, error>>
          /\ reports'[j] = reports[j] \cup {[run |-> run[w], insufficient |-> insufficient]}
      BY <1>6, <1>a, <2>0, <2>3, CommitShows
    <3>2. /\ jobs'[j].status = "SUCCEEDED" /\ jobs'[j].insufficient = flag
          /\ jobs'[j].error = error
      BY <3>1 DEF Shown
    <3>3. LatestReport(j)' = [run |-> run[w], insufficient |-> insufficient]
      <4> DEFINE new == [run |-> run[w], insufficient |-> insufficient]
      <4>1. new \in Report /\ new.run = run[w]
        BY DEF Report, TypeInv, TypeOK
      <4>2. reports[j] \in SUBSET Report /\ \A q \in reports[j] : q.run < new.run
        BY <1>0, <1>a, <1>6, <2>0, <4>1 DEF RunFits, RunSteps
      <4> HIDE DEF new
      <4>3. (CHOOSE l \in reports[j] \cup {new} : \A q \in reports[j] \cup {new} : q.run <= l.run) = new
        BY <4>1, <4>2, LatestIsAdded
      <4>4. reports'[j] = reports[j] \cup {new}
        BY <3>1 DEF new
      <4> QED BY <4>3, <4>4 DEF LatestReport, new
    <3>4. JobResponse(j)' = Service!View("SUCCEEDED", flag, error, report)
      <4> HIDE DEF flag, error
      <4>1. reports'[j] # {} /\ Exists(jobs'[j])
        BY <3>1, <3>2 DEF Exists
      <4>2. (LatestReport(j)').insufficient = insufficient
        BY <3>3
      <4> QED BY <3>2, <4>1, <4>2 DEF JobResponse, Service!View
    <3>5. Service!Becomes(j, Service!View("SUCCEEDED", flag, error, report))
      <4> HIDE DEF flag, error, report
      <4> QED BY <1>c, <2>1, <3>4, Zenon
    <3>6. CASE Exists(jobs[j])
      <4>1. jobs[j].status = "RUNNING"
        BY <1>a, <1>6, <2>0, <3>6 DEF RunFits, RunSteps, RunningOrGone, Exists
      <4>2. JobResponse(j) = Service!View("RUNNING", jobs[j].insufficient, jobs[j].error, "none")
        BY <4>1, ViewIs DEF Shown
      <4>3. jobs[j].insufficient \in BOOLEAN /\ jobs[j].error \in BOOLEAN
        BY <1>0, <3>6, ExistingRow DEF ResearchJob
      <4>4. /\ JobResponse(j).status = "RUNNING"
            /\ JobResponse(j).insufficient = jobs[j].insufficient
            /\ JobResponse(j).error = jobs[j].error
        BY <3>6, <4>1, ViewOf
      <4>5. CASE insufficient
        BY <3>5, <3>6, <4>3, <4>4, <4>5 DEF Service!Insufficient, Service!Declared
      <4>6. CASE ~insufficient
        BY <3>5, <3>6, <4>3, <4>4, <4>6 DEF Service!Answer, Service!Answered
      <4> QED BY <4>5, <4>6
    <3>7. CASE ~Exists(jobs[j])
      <4>1. crashes > 0
        BY <1>0, <1>a, <1>6, <2>0, <3>7 DEF RunIsOnly, RunSteps, Exists
      <4>2. JobResponse(j) = Service!Deleted
        <5>1. jobs[j] = NoRow
          BY <1>0, <3>7, ExistingRow
        <5>2. JobResponse(j) = Service!View("DELETED", FALSE, FALSE, "none")
          BY <2>1, <5>1 DEF JobResponse, Service!View, NoRow, Exists
        <5> QED BY <5>2 DEF Service!Deleted, Service!Fresh
      <4>3. Service!Unborn.insufficient = FALSE /\ Service!Unborn.error = FALSE
        BY DEF Service!Unborn, Service!Fresh, Service!View
      <4>4. CASE insufficient
        BY <3>5, <3>7, <4>1, <4>2, <4>3, <4>4 DEF Service!Resurrect, Service!Declared
      <4>5. CASE ~insufficient
        BY <3>5, <3>7, <4>1, <4>2, <4>3, <4>5 DEF Service!Resurrect, Service!Answered
      <4> QED BY <4>4, <4>5
    <3> QED BY <3>6, <3>7
  <2> QED BY <2>2, <2>3
<1>7. ASSUME NEW w \in Workers, DeclareInsufficient(w) \/ FinishReport(w)
      PROVE  Stutter \/ \E j \in Jobs : \/ Service!Answer(j) \/ Service!Insufficient(j)
                                        \/ Service!Resurrect(j)
  BY <1>6, <1>7 DEF DeclareInsufficient, FinishReport
<1>8. ASSUME NEW w \in Workers, MarkFailed(w)
      PROVE  Stutter \/ \E j \in Jobs : Service!Fail(j)
  <2>0. PICK j \in Jobs : j = task[w]
    BY <1>8, MarkFailedEffect
  <2>1. /\ pc[w] = "handler" /\ UNCHANGED <<api, reports, crashes>>
        /\ \A i \in Jobs \ {j} : jobs'[i] = jobs[i]
    BY <2>0, <1>8, MarkFailedEffect DEF MarkFailed, apiVars, envVars
  <2>2. CASE ~Exists(jobs[j])
    <3>1. jobs' = jobs
      BY <1>8, <2>0, <2>2, MarkFailedEffect
    <3> QED BY <1>b, <2>0, <2>1, <3>1
  <2>3. CASE Exists(jobs[j])
    <3>1. Shown(jobs'[j]) = <<"FAILED", jobs[j].insufficient, TRUE>>
      BY <1>8, <2>0, <2>3, MarkFailedShows
    <3>2. jobs[j].status = "RUNNING"
      BY <1>a, <2>0, <2>1, <2>3 DEF RunFits, RunningOrGone, Exists
    <3>3. JobResponse(j)' = Service!View("FAILED", jobs[j].insufficient, TRUE, "none")
      BY <3>1, ViewIsNext
    <3>4. /\ Service!Becomes(j, Service!View("FAILED", jobs[j].insufficient, TRUE, "none"))
          /\ JobResponse(j).status = "RUNNING"
          /\ JobResponse(j).insufficient = jobs[j].insufficient
      BY <1>c, <2>0, <2>1, <2>3, <3>2, <3>3, ViewOf
    <3> QED BY <3>4 DEF Service!Fail
  <2> QED BY <2>2, <2>3
<1>9. ASSUME NEW w \in Workers, ReportProgress(w) PROVE Stutter
  BY <1>b, <1>9, ProgressShows DEF ReportProgress, apiVars, envVars
<1>10. ASSUME NEW w \in Workers,
              \/ FetchJob(w) \/ SetUpClients(w) \/ SetUpFails(w) \/ BeginResearch(w)
              \/ FlushRunning(w) \/ WriteClaims(w) \/ ResearchFails(w) \/ MarkFailedFails(w)
              \/ AckMessage(w)
       PROVE  Stutter
  <2>1. UNCHANGED <<jobs, reports, api, crashes>>
    BY <1>10 DEF FetchJob, SetUpClients, SetUpFails, BeginResearch, FlushRunning, WriteClaims,
       ResearchFails, MarkFailedFails, AckMessage, apiVars, dbVars, envVars
  <2> QED BY <1>b, <2>1
<1>11. ASSUME UNCHANGED vars PROVE Stutter
  BY <1>b, <1>11 DEF vars
<1> HIDE DEF Stutter
<1>12. ASSUME NEW w \in Workers, RunTask(w) PROVE Stutter \/ Service!Next
  BY <1>5, <1>7, <1>8, <1>9, <1>10, <1>12 DEF RunTask, TaskStep, Service!Next
<1>13. ASSUME NEW j \in Jobs,
              \/ CreateJob(j) \/ EnqueueJob(j) \/ EnqueueFails(j)
              \/ DeleteCheck(j) \/ DeleteSelect(j) \/ DeleteCommit(j)
              \/ Redeliver(j) \/ \E w \in Workers : TakeMessage(w, j)
       PROVE  Stutter \/ Service!Next
  BY <1>1, <1>2, <1>3, <1>13 DEF Service!Next
<1>14. ASSUME NEW w \in Workers, Crash(w) PROVE Stutter \/ Service!Next
  BY <1>4, <1>14 DEF Service!Next
<1>15. Stutter \/ Service!Next
  BY <1>11, <1>12, <1>13, <1>14 DEF Next
<1> QED BY <1>15 DEF Stutter, Service!vars

\* As long as the visibility timeout outlasts every run, the API, broker, workers
\* and database implement JobService, whatever fails, crashes or is deleted: one
\* outcome per job, shown whole, and no way back from a deletion unless a worker
\* was lost.
THEOREM ServiceIsImplemented ==
    ASSUME MaxTimeouts = 0
    PROVE  Spec => ImplementsService
<1> DEFINE Inv == TypeInv /\ RowsInv /\ ExclusiveInv /\ CleanInv
<1>1. Init => Service!Init
  <2> SUFFICES ASSUME Init PROVE Service!Init
    OBVIOUS
  <2>1. ASSUME NEW j \in Jobs PROVE JobResponse(j) = Service!Unborn
    BY DEF Init, JobResponse, Service!Unborn, Service!Fresh, Service!View, NoRow, Exists
  <2> QED BY <2>1 DEF Init, Service!Init
<1>2. Inv /\ OutcomeInv /\ [Next]_vars => [Service!Next]_(Service!vars)
  BY ServiceStep
<1>3. Inv /\ OutcomeInv /\ [Next]_vars => OutcomeInv'
  BY OutcomeStep
<1>4. Spec => []Inv
  <2>1. RowsInv <=> SucceededHasReport /\ NoOrphanRows
    BY DEF RowsInv
  <2> QED BY <2>1, TypeInvariant, RowsAgree, ExclusiveInvariant, CleanInvariant, PTL
<1> HIDE DEF Inv
<1> QED BY <1>1, <1>2, <1>3, <1>4, OutcomeInit, PTL DEF Spec, ImplementsService, Service!Spec

\* Without crashes and repeated deliveries, a job is deleted only once it is
\* finished, as the comment at DELETABLE_STATUSES says: its row never disappears
\* under a worker that may still write to it.
THEOREM DeletionsWait ==
    ASSUME MaxCrashes = 0, MaxTimeouts = 0
    PROVE  Spec => DeletedOnlyWhenFinished
<1> DEFINE Inv == TypeInv /\ RowsInv /\ ExclusiveInv /\ CleanInv /\ OutcomeInv
           NoneWriting == \A j \in Jobs : Exists(jobs[j]) /\ ~Exists(jobs'[j])
                                             => \A w \in Workers : ~Writing(w, j)
<1>1. Inv /\ [Next]_vars => [NoneWriting]_vars
  <2> SUFFICES ASSUME Inv, [Next]_vars, NEW j \in Jobs, Exists(jobs[j]), ~Exists(jobs'[j]),
                      NEW w \in Workers, Writing(w, j)
               PROVE  FALSE
    OBVIOUS
  <2>1. [Service!Next]_(Service!vars)
    BY ServiceStep
  <2>2. crashes = 0 /\ jobs \in [Jobs -> ResearchJob \cup {NoRow}]
    BY BoundsAssumption DEF TypeInv, TypeOK
  <2>3. JobResponse(j).status = jobs[j].status /\ jobs[j].status \notin {"NEW", "DELETED"}
    BY <2>2, ExistingRow DEF JobResponse, Service!View, ResearchJob, NonTerminal, TERMINAL_STATUSES
  <2>4. JobResponse(j)'.status \in {"NEW", "DELETED"}
    BY DEF JobResponse
  <2> DEFINE view == [i \in Jobs |-> JobResponse(i)]
  <2>5. jobs[j].status \in TERMINAL_STATUSES
    <3>1. view[j] = JobResponse(j) /\ view'[j] = JobResponse(j)'
      OBVIOUS
    <3> HIDE DEF view
    <3>2. view'[j] # view[j]
      BY <2>3, <2>4, <3>1
    <3>3. PICK i \in Jobs : \/ Service!Accept(i) \/ Service!Start(i) \/ Service!Answer(i)
                            \/ Service!Insufficient(i) \/ Service!Fail(i) \/ Service!Delete(i)
      BY <2>1, <2>2, <3>2 DEF Service!Next, Service!vars, Service!LoseWorker, Service!RunAgain,
           Service!DeleteInFlight, Service!Resurrect, view
    <3>4. CASE Service!Delete(i)
      <4>1. i = j
        BY <3>2, <3>4 DEF Service!Delete, Service!Becomes, view
      <4> QED BY <2>3, <3>1, <3>4, <4>1 DEF Service!Delete, TERMINAL_STATUSES, view
    <3>5. CASE ~Service!Delete(i)
      <4>1. PICK v : /\ v.status \notin {"NEW", "DELETED"}
                     /\ view' = [view EXCEPT ![i] = v]
        BY <3>3, <3>5 DEF Service!Accept, Service!Start, Service!Answer, Service!Insufficient,
             Service!Fail, Service!Becomes, Service!Answered, Service!Declared, Service!Fresh,
             Service!View, view
      <4> QED BY <2>4, <3>1, <3>2, <4>1
    <3> QED BY <3>4, <3>5
  <2>6. jobs[j].status \notin TERMINAL_STATUSES
    BY <2>2 DEF Writing, OutcomeInv, RunIsOnly, WritingSteps, Steps, RunSteps, TERMINAL_STATUSES
  <2> QED BY <2>5, <2>6
<1>2. Spec => []Inv
  <2>1. RowsInv <=> SucceededHasReport /\ NoOrphanRows
    BY DEF RowsInv
  <2>2. TypeInv /\ RowsInv /\ ExclusiveInv /\ CleanInv /\ OutcomeInv /\ [Next]_vars => OutcomeInv'
    BY OutcomeStep
  <2> QED BY <2>1, <2>2, OutcomeInit, TypeInvariant, RowsAgree, ExclusiveInvariant,
             CleanInvariant, PTL DEF Spec
<1> HIDE DEF Inv
<1> QED BY <1>1, <1>2, PTL DEF Spec, DeletedOnlyWhenFinished

=============================================================================
