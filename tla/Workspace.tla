------------------------------ MODULE Workspace ------------------------------
(***************************************************************************)
(* One browser tab of the web workspace: the job page with its event       *)
(* stream (apps/web/src/routes/ResearchRoute.tsx, api.ts), the query cache *)
(* (lib/queryClient.ts), the notification bell (lib/notifications.ts), and *)
(* the server's end of the stream (stream_job in apps/api/routers/jobs.py).*)
(*                                                                         *)
(* The jobs themselves are a JobService that loses no worker: what GET and *)
(* the polls of a stream read is its view. Requests and answers take time, *)
(* connections break, and other clients delete jobs as well.               *)
(***************************************************************************)
EXTENDS Naturals, FiniteSets, SequencesExt

CONSTANTS
    Jobs,
    MaxProgress,  \* progress lines of a run
    MaxDrops      \* broken connections during one visit of a page

ASSUME ProgressAssumption == MaxProgress \in Nat
ASSUME DropsAssumption    == MaxDrops \in Nat

VARIABLES
    view, workerLost,  \* JobService
    progress,          \* the number of the job's progress_detail, 0 for none
    query,             \* the cache entry of each job's detail
    page,              \* the job whose page is shown, or Elsewhere
    stream,            \* for each job, both ends of an EventSource to it
    log,               \* progressLog of the page
    drops,             \* connections broken since the page was opened
    noticed,           \* jobs in the notification list
    posting,           \* jobs whose POST is not answered yet
    deleting,          \* the DELETE sent for each job
    forgotten          \* history: jobs this tab deleted

serverVars == <<view, workerLost, progress>>
pageVars == <<page, log, drops>>
userVars == <<posting, deleting, forgotten>>
vars == <<serverVars, query, stream, pageVars, noticed, userVars>>

Service == INSTANCE JobService

None == "none"
Elsewhere == "elsewhere"
ASSUME JobsAssumption == Elsewhere \notin Jobs

Finished == {"SUCCEEDED", "FAILED"}
Status(j) == view[j].status
Missing(j) == Status(j) \in {"NEW", "DELETED"}

NoQuery == [data |-> None, fetch |-> None, error |-> FALSE]

Closed  == [conn |-> "closed", lastStatus |-> None, lastProgress |-> 0, inbox |-> <<>>]
Pending == [Closed EXCEPT !.conn = "connecting"]

Init ==
    /\ Service!Init
    /\ progress = [j \in Jobs |-> 0]
    /\ query = [j \in Jobs |-> NoQuery]
    /\ page = Elsewhere /\ log = <<>> /\ drops = 0
    /\ stream = [j \in Jobs |-> Closed]
    /\ noticed = {} /\ posting = {} /\ forgotten = {}
    /\ deleting = [j \in Jobs |-> None]

-----------------------------------------------------------------------------
(* The job runs, reports progress, and may be deleted by another client.    *)

Run(j) ==
    /\ Service!Start(j) \/ Service!Answer(j) \/ Service!Fail(j)
    /\ UNCHANGED <<progress, query, stream, pageVars, noticed, userVars>>

ReportProgress(j) ==
    /\ Status(j) = "RUNNING" /\ progress[j] < MaxProgress
    /\ progress' = [progress EXCEPT ![j] = @ + 1]
    /\ UNCHANGED <<view, workerLost, query, stream, pageVars, noticed, userVars>>

DeleteElsewhere(j) ==
    /\ Service!Delete(j)
    /\ UNCHANGED <<progress, query, stream, pageVars, noticed, userVars>>

-----------------------------------------------------------------------------
(* The query cache. A fetch is sent, answered with what the server sees, and *)
(* delivered; retries are part of it.                                        *)

Started(q) == [q EXCEPT !.fetch = "sent", !.error = @ /\ q.data # None]

\* Mutant: a fetch under way is joined, old answer or not (cancelRefetch off).
Invalidated_Joined(q) ==
    IF q.fetch # None THEN q ELSE Started(q)

\* invalidateQueries on a job that is shown: a refetch starts over, a first fetch
\* under way is joined.
Invalidated(q) ==
    IF q.fetch # None /\ q.data = None THEN q ELSE Started(q)

\* useQuery of a page that opens. Whether data is older than staleTime is left open.
Mounted(q) ==
    IF q.fetch # None THEN {q}
    ELSE IF q.data = None \/ q.error THEN {Started(q)}
    ELSE {q, Started(q)}

\* Mutant: get_job does not look whether there is a row.
ReadJob_Unchecked(j) ==
    /\ query[j].fetch = "sent"
    /\ query' = [query EXCEPT ![j].fetch = Status(j)]
    /\ UNCHANGED <<serverVars, stream, pageVars, noticed, userVars>>

ReadJob(j) ==
    /\ query[j].fetch = "sent" /\ ~Missing(j)
    /\ query' = [query EXCEPT ![j].fetch = Status(j)]
    /\ UNCHANGED <<serverVars, stream, pageVars, noticed, userVars>>

\* recordIfNew, on every update of an entry.
Notice(j, status) ==
    noticed' = IF status \in Finished THEN noticed \cup {j} ELSE noticed

ReceiveJob(j) ==
    LET answer == query[j].fetch IN
    /\ answer \notin {None, "sent"}
    /\ query' = [query EXCEPT ![j] = [NoQuery EXCEPT !.data = answer]]
    /\ Notice(j, answer)
    /\ UNCHANGED <<serverVars, stream, pageVars, userVars>>

\* The job is missing, or no attempt got an answer. Data stays, but is stale from now
\* on, and the page shows an error.
FetchFails(j) ==
    /\ query[j].fetch = "sent"
    /\ query' = [query EXCEPT ![j].fetch = None, ![j].error = TRUE]
    /\ UNCHANGED <<serverVars, stream, pageVars, noticed, userVars>>

\* refetchOnReconnect, and the entry of a page that is not shown is collected.
Refetch(j) ==
    /\ page = j /\ query[j].fetch = None
    /\ query' = [query EXCEPT ![j] = Started(@)]
    /\ UNCHANGED <<serverVars, stream, pageVars, noticed, userVars>>

Collect(j) ==
    /\ page # j /\ query[j].fetch = None
    /\ query' = [query EXCEPT ![j] = NoQuery]
    /\ UNCHANGED <<serverVars, stream, pageVars, noticed, userVars>>

-----------------------------------------------------------------------------
(* The event stream of the page.                                            *)

\* Mutant: the effect has no cleanup.
CloseStream_Kept == stream

CloseStream == IF page \in Jobs THEN [stream EXCEPT ![page] = Closed] ELSE stream

\* The effect of ResearchRoute for a job: the old stream is closed, a new one opened.
Show(j) ==
    /\ page' = j /\ log' = <<>> /\ drops' = 0
    /\ stream' = [CloseStream EXCEPT ![j] = Pending]

ShowElsewhere ==
    /\ page' = Elsewhere /\ log' = <<>> /\ drops' = 0
    /\ stream' = CloseStream

\* The connection is answered, and a generator starts that has sent nothing yet.
Connect(j) ==
    /\ stream[j].conn = "connecting" /\ ~Missing(j)
    /\ stream' = [stream EXCEPT ![j] = [Closed EXCEPT !.conn = "open"]]
    /\ UNCHANGED <<serverVars, query, pageVars, noticed, userVars>>

\* Any status but 200 ends an EventSource for good: 404 here, or an error of the API.
ConnectFails(j) ==
    /\ stream[j].conn = "connecting"
    /\ stream' = [stream EXCEPT ![j] = [Closed EXCEPT
                      !.conn = IF Missing(j) THEN "gone" ELSE "refused"]]
    /\ query' = [query EXCEPT ![j] = Invalidated(@)]
    /\ UNCHANGED <<serverVars, pageVars, noticed, userVars>>

\* The network fails: what was sent is lost, and the EventSource connects again.
Drop(j) ==
    /\ stream[j].conn \in {"connecting", "open"} /\ drops < MaxDrops
    /\ drops' = drops + 1
    /\ stream' = [stream EXCEPT ![j] = Pending]
    /\ query' = [query EXCEPT ![j] = Invalidated(@)]
    /\ UNCHANGED <<serverVars, page, log, noticed, userVars>>

\* Mutant: the generator does not remember the line it sent.
Sent_Forgets(s, j) == [s EXCEPT !.lastStatus = Status(j)]

\* What a generator has sent after a poll that found the job.
Sent(s, j) == [s EXCEPT !.lastStatus = Status(j), !.lastProgress = progress[j]]

\* One round of stream_job. It returns, and the stream ends, behind a final status
\* and behind the error event for a job that is gone.
Poll(j) ==
    LET s == stream[j]
        lines  == IF progress[j] \notin {0, s.lastProgress} THEN <<<<"progress", progress[j]>>>> ELSE <<>>
        states == IF Status(j) # s.lastStatus THEN <<<<"status", Status(j)>>>> ELSE <<>>
    IN
    /\ s.conn = "open" /\ s.lastStatus \notin Finished \cup {"DELETED"}
    /\ \/ /\ ~Missing(j)
          /\ stream' = [stream EXCEPT ![j] = [Sent(s, j) EXCEPT !.inbox = @ \o lines \o states
                            \o IF Status(j) \in Finished THEN <<<<"end">>>> ELSE <<>>]]
       \/ /\ Missing(j)
          /\ stream' = [stream EXCEPT ![j].lastStatus = "DELETED",
                                      ![j].inbox = @ \o <<<<"error">>, <<"end">>>>]
    /\ UNCHANGED <<serverVars, query, pageVars, noticed, userVars>>

\* The next event is taken from what has arrived.
Take(j, kind) == stream[j].inbox # <<>> /\ Head(stream[j].inbox)[1] = kind

Rest(j) == [stream EXCEPT ![j].inbox = Tail(@)]

OnProgress(j) ==
    /\ Take(j, "progress")
    /\ log' = Append(log, [job |-> j, line |-> Head(stream[j].inbox)[2]])
    /\ stream' = Rest(j)
    /\ UNCHANGED <<serverVars, query, page, drops, noticed, userVars>>

\* A final status closes the stream of the page and refetches the job; any other
\* only changes what the progress display says.
OnStatus(j) ==
    /\ Take(j, "status")
    /\ IF Head(stream[j].inbox)[2] \in Finished
       THEN /\ stream' = CloseStream
            /\ query' = [query EXCEPT ![j] = Invalidated(@)]
       ELSE stream' = Rest(j) /\ UNCHANGED query
    /\ UNCHANGED <<serverVars, page, log, drops, noticed, userVars>>

\* The server's error event, or the end of the stream, which makes it reconnect.
OnError(j) ==
    /\ Take(j, "error") \/ Take(j, "end")
    /\ stream' = IF Take(j, "end") THEN [stream EXCEPT ![j] = Pending] ELSE Rest(j)
    /\ query' = [query EXCEPT ![j] = Invalidated(@)]
    /\ UNCHANGED <<serverVars, pageVars, noticed, userVars>>

-----------------------------------------------------------------------------
(* The user.                                                                *)

Submit(j) ==
    /\ page = Elsewhere /\ posting = {}
    /\ Service!Accept(j)
    /\ posting' = {j}
    /\ UNCHANGED <<progress, query, stream, pageVars, noticed, deleting, forgotten>>

\* useCreateJob fills the cache with the answer, and the user is taken to the page
\* from wherever they are by then.
Submitted(j) ==
    /\ j \in posting
    /\ posting' = {}
    /\ query' = [query EXCEPT ![j].data = "PENDING", ![j].error = FALSE]
    /\ IF page = j THEN UNCHANGED <<pageVars, stream>> ELSE Show(j)
    /\ UNCHANGED <<serverVars, noticed, deleting, forgotten>>

SubmitFails ==
    /\ posting # {} /\ posting' = {}
    /\ UNCHANGED <<serverVars, query, stream, pageVars, noticed, deleting, forgotten>>

\* Through a list or a link, which may be older than the deletion of the job. The
\* deletion may even be under way, asked for on the same page a moment ago.
Visit(j) ==
    /\ page # j /\ Status(j) # "NEW"
    /\ \E q \in Mounted(query[j]) : query' = [query EXCEPT ![j] = q]
    /\ Show(j)
    /\ UNCHANGED <<serverVars, noticed, userVars>>

Leave ==
    /\ page \in Jobs
    /\ ShowElsewhere
    /\ UNCHANGED <<serverVars, query, noticed, userVars>>

\* Mutant: every job that is shown can be deleted.
Deletable_Any(j) == query[j].data # None

Deletable(j) == query[j].data \in Finished

\* The delete button of a page that shows the job. Its POST has been answered. One
\* DELETE of a job is followed at a time.
ConfirmDelete(j) ==
    /\ page = j /\ j \notin posting
    /\ Deletable(j) /\ ~query[j].error /\ deleting[j] \in {None, "conflict"}
    /\ deleting' = [deleting EXCEPT ![j] = "sent"]
    /\ UNCHANGED <<serverVars, query, stream, pageVars, noticed, posting, forgotten>>

\* delete_job answers 404, 409 or 204; an answer that is lost is a failure, too.
Delete(j) ==
    /\ deleting[j] = "sent"
    /\ \/ /\ Service!Delete(j)
          /\ \E answer \in {"deleted", None} : deleting' = [deleting EXCEPT ![j] = answer]
       \/ /\ Status(j) \notin Finished
          /\ deleting' = [deleting EXCEPT ![j] = IF Missing(j) THEN None ELSE "conflict"]
          /\ UNCHANGED <<view, workerLost>>
    /\ UNCHANGED <<progress, query, stream, pageVars, noticed, posting, forgotten>>

\* Mutant: the entry is emptied, not removed with the fetch that is under way.
Removed_Emptied(q) == [q EXCEPT !.data = None]

Removed(q) == NoQuery

\* useDeleteJob removes the entry. The callback of the header that asked leads to the
\* history, from the page of another job too if the header has been kept; but it
\* runs only while that header is mounted, so whoever left meanwhile, and perhaps
\* came back to a new header, stays where they are.
Deleted(j) ==
    /\ deleting[j] = "deleted"
    /\ deleting' = [deleting EXCEPT ![j] = None]
    /\ forgotten' = forgotten \cup {j}
    /\ query' = [query EXCEPT ![j] = Removed(@)]
    /\ \/ page \in Jobs /\ ShowElsewhere
       \/ UNCHANGED <<pageVars, stream>>
    /\ UNCHANGED <<serverVars, noticed, posting>>

-----------------------------------------------------------------------------
FetchStep(j) == ReadJob(j) \/ ReceiveJob(j) \/ FetchFails(j)

OnEvent(j) == OnProgress(j) \/ OnStatus(j) \/ OnError(j)

Next ==
    \/ Leave \/ SubmitFails
    \/ \E j \in Jobs :
        \/ Run(j) \/ ReportProgress(j) \/ DeleteElsewhere(j)
        \/ FetchStep(j) \/ Refetch(j) \/ Collect(j)
        \/ Connect(j) \/ ConnectFails(j) \/ Drop(j) \/ Poll(j) \/ OnEvent(j)
        \/ Submit(j) \/ Submitted(j) \/ Visit(j)
        \/ ConfirmDelete(j) \/ Delete(j) \/ Deleted(j)

Spec == Init /\ [][Next]_vars

\* Jobs end (EveryJobFinishes of JobLifecycle), requests and connections are
\* answered or fail, the generator polls, the browser handles events.
Fairness ==
    \A j \in Jobs :
        /\ WF_vars(Run(j)) /\ WF_vars(FetchStep(j)) /\ WF_vars(Connect(j) \/ ConnectFails(j))
        /\ WF_vars(Poll(j)) /\ WF_vars(OnEvent(j))

FairSpec == Spec /\ Fairness

-----------------------------------------------------------------------------
(* Properties.                                                              *)

Statuses == {"PENDING", "RUNNING", "SUCCEEDED", "FAILED"}

Event == ({"progress"} \X (1 .. MaxProgress)) \cup ({"status"} \X Statuses)
         \cup {<<"error">>, <<"end">>}

TypeOK ==
    /\ progress \in [Jobs -> 0 .. MaxProgress]
    /\ query \in [Jobs -> [data : Statuses \cup {None}, error : BOOLEAN,
                           fetch : Statuses \cup {None, "sent"}]]
    /\ page \in Jobs \cup {Elsewhere}
    /\ log \in Seq([job : Jobs, line : 1 .. MaxProgress]) /\ drops \in 0 .. MaxDrops
    /\ \A j \in Jobs :
          /\ stream[j].conn \in {"closed", "connecting", "open", "gone", "refused"}
          /\ stream[j].lastStatus \in Statuses \cup {None, "DELETED"}
          /\ stream[j].lastProgress \in 0 .. MaxProgress
          /\ stream[j].inbox \in Seq(Event)
    /\ noticed \subseteq Jobs /\ posting \subseteq Jobs /\ forgotten \subseteq Jobs
    /\ deleting \in [Jobs -> {None, "sent", "deleted", "conflict"}]

\* No stream outlives its page. The progress shown is the job's of this page, in the
\* order it was made, and a line is repeated only because the stream had to connect
\* again.
LogFollowsTheJob ==
    /\ \A j \in Jobs : stream[j].conn \in {"connecting", "open"} => page = j
    /\ \A i \in DOMAIN log : log[i].job = page
    /\ \A i, k \in DOMAIN log : i < k => log[i].line <= log[k].line
    /\ Len(log) - Cardinality(ToSet(log)) <= drops
    /\ log # <<>> => Last(log).line <= progress[page]

\* The page lets nobody ask for a deletion that the server must refuse with 409:
\* what the cache calls finished is finished, however old it is.
DeletesAreAccepted == \A j \in Jobs : deleting[j] # "conflict"

\* A job this tab deleted does not come back into its cache, whatever was under way.
DeletedIsForgotten == \A j \in forgotten : query[j].data = None

\* A page that has the job and listens to it comes to show the outcome, and the bell
\* to list it, unless the user leaves, the job cannot be loaded or the stream was
\* refused. Not so a page whose first fetch is still under way when the final status
\* arrives: its answer may be older and is never replaced.
PageCatchesUp ==
    \A j \in Jobs :
        (page = j /\ query[j].data # None /\ stream[j].conn \in {"connecting", "open"})
            ~> (\/ page # j \/ query[j].error \/ stream[j].conn = "refused"
                \/ query[j].data \in Finished /\ j \in noticed)
==============================================================================
