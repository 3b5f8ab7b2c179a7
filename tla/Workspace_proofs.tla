-------------------------- MODULE Workspace_proofs --------------------------
(***************************************************************************)
(* Proofs about Workspace for any jobs, progress and broken connections:   *)
(* types, what the event stream puts into the log of a page, and what a    *)
(* deletion of this tab meets and leaves behind.                           *)
(***************************************************************************)
EXTENDS Workspace, FiniteSetTheorems, SequenceTheorems, TLAPS

-----------------------------------------------------------------------------
(* Types.                                                                   *)

Connection == [conn         : {"closed", "connecting", "open", "gone", "refused"},
               lastStatus   : Statuses \cup {None, "DELETED"},
               lastProgress : 0 .. MaxProgress,
               inbox        : Seq(Event)]

Query == [data  : Statuses \cup {None}, error : BOOLEAN,
          fetch : Statuses \cup {None, "sent"}]

ViewType == [status : Statuses \cup {"NEW", "DELETED"}, insufficient : BOOLEAN,
             error  : BOOLEAN, report : {"none", "answer", "insufficient"}]

TypeInv ==
    /\ TypeOK
    /\ stream \in [Jobs -> Connection]
    /\ view \in [Jobs -> ViewType]
    /\ ~workerLost

-----------------------------------------------------------------------------
(* Deletions. What a tab has heard to be finished is finished or deleted,   *)
(* however old the news; and once it has deleted a job, no answer that      *)
(* brings it back is under way.                                             *)

Settled(j) == Status(j) \in Finished \cup {"DELETED"}

DeletionFits(j) ==
    /\ query[j].data \in Finished \/ query[j].fetch \in Finished => Settled(j)
    /\ j \in posting => Status(j) # "NEW"
    /\ deleting[j] # None => deleting[j] # "conflict" /\ Settled(j) /\ j \notin posting
    /\ deleting[j] = "deleted" => Status(j) = "DELETED"
    /\ j \in forgotten => /\ Status(j) = "DELETED" /\ j \notin posting
                          /\ query[j].data = None /\ query[j].fetch \in {None, "sent"}

DeletionInv == \A j \in Jobs : DeletionFits(j)

-----------------------------------------------------------------------------
(* The log. What a connection still has to deliver continues the log, and   *)
(* the one line it may repeat is paid for by the drop that made it.         *)

Line(j, i) == stream[j].inbox[i][2]
Lines(j) == {i \in DOMAIN stream[j].inbox : stream[j].inbox[i][1] = "progress"}

Repeats == Len(log) - Cardinality(ToSet(log))

\* The next line this connection delivers may be the last one of the log.
MayRepeat(j) ==
    \/ stream[j].conn = "connecting" /\ ~Missing(j)
    \/ stream[j].conn = "open" /\ stream[j].lastProgress = 0 /\ ~Missing(j)
    \/ \E i \in Lines(j), k \in DOMAIN log : Line(j, i) = log[k].line

StreamFits(j) ==
    /\ page # j => stream[j] = Closed
    /\ page = j => Status(j) # "NEW"
    /\ stream[j].lastProgress <= progress[j]
    /\ stream[j].conn # "open" => stream[j].inbox = <<>>
    /\ \A i \in Lines(j) : Line(j, i) <= stream[j].lastProgress
    /\ \A i, k \in Lines(j) : i < k => Line(j, i) < Line(j, k)
    /\ \A i \in DOMAIN stream[j].inbox :
          stream[j].inbox[i][1] = "end" =>
              \/ Missing(j)
              \/ \E k \in 1 .. i - 1 : /\ stream[j].inbox[k][1] = "status"
                                       /\ stream[j].inbox[k][2] \in Finished

StreamInv == \A j \in Jobs : StreamFits(j)

LogInv ==
    /\ page = Elsewhere => log = <<>>
    /\ Repeats <= drops
    /\ \A i \in DOMAIN log :
          /\ log[i].job = page
          /\ log[i].line <= progress[page]
          /\ stream[page].lastProgress # 0 => log[i].line <= stream[page].lastProgress
          /\ \A k \in Lines(page) : log[i].line <= Line(page, k)
          /\ \A k \in DOMAIN log : i < k => log[i].line <= log[k].line
          /\ MayRepeat(page) => Repeats < drops

LEMMA PendingType == Closed \in Connection /\ Pending \in Connection
<1>1. Closed \in Connection
  BY ProgressAssumption DEF Closed, Connection
<1> QED BY <1>1 DEF Pending, Connection

\* An event of each kind, and what an event of that kind carries.
LEMMA Events ==
    /\ <<"error">> \in Event /\ <<"end">> \in Event
    /\ \A status \in Statuses : <<"status", status>> \in Event
    /\ \A line \in 1 .. MaxProgress : <<"progress", line>> \in Event
    /\ \A e \in Event : /\ e[1] = "progress" => e[2] \in 1 .. MaxProgress
                        /\ e[1] = "status" => e[2] \in Statuses
BY DEF Event

\* Sequences that arrive one behind the other.
LEMMA Joined ==
    ASSUME NEW S, NEW s \in Seq(S), NEW t \in Seq(S)
    PROVE  /\ s \o t \in Seq(S) /\ Len(s \o t) = Len(s) + Len(t)
           /\ \A i \in 1 .. Len(s) : (s \o t)[i] = s[i]
           /\ \A i \in 1 .. Len(t) : (s \o t)[Len(s) + i] = t[i]
OBVIOUS

LEMMA JoinedThree ==
    ASSUME NEW S, NEW a \in Seq(S), NEW b \in Seq(S), NEW c \in Seq(S)
    PROVE  LET d == a \o b \o c IN
           /\ d \in Seq(S) /\ DOMAIN d = 1 .. Len(a) + Len(b) + Len(c)
           /\ \A i \in 1 .. Len(a) : d[i] = a[i]
           /\ \A i \in 1 .. Len(b) : d[Len(a) + i] = b[i]
           /\ \A i \in 1 .. Len(c) : d[Len(a) + Len(b) + i] = c[i]
<1> DEFINE e == a \o b
<1>1. /\ e \in Seq(S) /\ Len(e) = Len(a) + Len(b)
      /\ \A i \in 1 .. Len(a) : e[i] = a[i]
      /\ \A i \in 1 .. Len(b) : e[Len(a) + i] = b[i]
  BY Joined
<1> HIDE DEF e
<1>2. /\ e \o c \in Seq(S) /\ Len(e \o c) = Len(e) + Len(c)
      /\ \A i \in 1 .. Len(e) : (e \o c)[i] = e[i]
      /\ \A i \in 1 .. Len(c) : (e \o c)[Len(e) + i] = c[i]
  <2>1. ASSUME NEW t \in Seq(S)
        PROVE  /\ t \o c \in Seq(S) /\ Len(t \o c) = Len(t) + Len(c)
               /\ \A i \in 1 .. Len(t) : (t \o c)[i] = t[i]
               /\ \A i \in 1 .. Len(c) : (t \o c)[Len(t) + i] = c[i]
    BY Joined
  <2> QED BY <1>1, <2>1
<1> DEFINE d == e \o c
<1>3. Len(a) \in Nat /\ Len(b) \in Nat /\ Len(c) \in Nat
  OBVIOUS
<1>4. DOMAIN d = 1 .. Len(d)
  BY <1>2
<1> HIDE DEF d
<1>5. /\ \A i \in 1 .. Len(a) : d[i] = a[i]
      /\ \A i \in 1 .. Len(b) : d[Len(a) + i] = b[i]
      /\ \A i \in 1 .. Len(c) : d[Len(a) + Len(b) + i] = c[i]
  BY <1>1, <1>2, <1>3 DEF d
<1> QED BY <1>1, <1>2, <1>4, <1>5 DEF d, e

\* What one round of the generator adds to the stream: at most one line, always a
\* new one, at the front; and an end only behind a final status or for a job that
\* is gone.
LEMMA PollSends ==
    ASSUME TypeInv, NEW j \in Jobs, Poll(j)
    PROVE  \E new \in Seq(Event) :
              /\ stream'[j].inbox = stream[j].inbox \o new
              /\ stream'[j] \in Connection
              /\ \A i \in DOMAIN new :
                    /\ new[i][1] = "progress" =>
                          /\ i = 1 /\ new[i][2] = progress[j] /\ ~Missing(j)
                          /\ progress[j] \notin {0, stream[j].lastProgress}
                    /\ new[i][1] = "end" =>
                          \/ Missing(j)
                          \/ \E k \in 1 .. i - 1 : new[k][1] = "status" /\ new[k][2] \in Finished
              /\ stream'[j].conn = "open" /\ stream[j].conn = "open"
              /\ IF Missing(j) THEN stream'[j].lastProgress = stream[j].lastProgress
                               ELSE stream'[j].lastProgress = progress[j]
<1> DEFINE s == stream[j]
           lines  == IF progress[j] \notin {0, s.lastProgress} THEN <<<<"progress", progress[j]>>>> ELSE <<>>
           states == IF Status(j) # s.lastStatus THEN <<<<"status", Status(j)>>>> ELSE <<>>
           end == IF Status(j) \in Finished THEN <<<<"end">>>> ELSE <<>>
<1>1. /\ s \in Connection /\ stream \in [Jobs -> Connection] /\ s.inbox \in Seq(Event)
      /\ progress[j] \in 0 .. MaxProgress
      /\ s.conn = "open" /\ s.lastStatus \notin Finished \cup {"DELETED"}
      /\ Status(j) \in Statuses \cup {"NEW", "DELETED"}
  <2>1. /\ stream \in [Jobs -> Connection] /\ view \in [Jobs -> ViewType]
        /\ progress \in [Jobs -> 0 .. MaxProgress]
    BY DEF TypeInv, TypeOK
  <2>2. s \in Connection /\ s.inbox \in Seq(Event)
    BY <2>1 DEF Connection
  <2>3. Status(j) \in Statuses \cup {"NEW", "DELETED"}
    BY <2>1 DEF ViewType, Status
  <2> QED BY <2>1, <2>2, <2>3 DEF Poll
<1>2. CASE /\ ~Missing(j)
           /\ stream' = [stream EXCEPT ![j] = [Sent(s, j) EXCEPT !.inbox = @ \o lines \o states \o end]]
  <2>1. /\ Status(j) \in Statuses
        /\ lines \in Seq(Event) /\ states \in Seq(Event) /\ end \in Seq(Event)
    BY <1>1, <1>2, Events DEF Missing
  <2> DEFINE new == lines \o states \o end
  <2>2. new \in Seq(Event) /\ s.inbox \o lines \o states \o end = s.inbox \o new
    <3> HIDE DEF lines, states, end
    <3>1. new \in Seq(Event)
      BY <2>1, JoinedThree
    <3>2. PICK t, a, b, c \in Seq(Event) : t = s.inbox /\ a = lines /\ b = states /\ c = end
      BY <1>1, <2>1
    <3>3. t \o a \o b \o c = t \o (a \o b \o c)
      OBVIOUS
    <3> QED BY <3>1, <3>2, <3>3
  <2>3. stream'[j] = [Sent(s, j) EXCEPT !.inbox = s.inbox \o new]
    <3> HIDE DEF lines, states, end
    <3>1. stream'[j] = [Sent(s, j) EXCEPT !.inbox = @ \o lines \o states \o end]
      BY <1>1, <1>2
    <3>2. Sent(s, j).inbox = s.inbox
      BY <1>1 DEF Sent, Connection
    <3> HIDE DEF new
    <3> QED BY <2>2, <3>1, <3>2
  <2>4. s.inbox \o new \in Seq(Event)
    BY <1>1, <2>2
  <2>5. /\ stream'[j] \in Connection /\ stream'[j].inbox = s.inbox \o new
        /\ stream'[j].conn = "open" /\ stream'[j].lastProgress = progress[j]
    <3> HIDE DEF new
    <3> QED BY <1>1, <2>1, <2>3, <2>4 DEF Sent, Connection
  <2>6. ASSUME NEW i \in DOMAIN new
        PROVE  /\ new[i][1] = "progress" =>
                     i = 1 /\ new[i][2] = progress[j] /\ progress[j] \notin {0, s.lastProgress}
               /\ new[i][1] = "end" =>
                     \E k \in 1 .. i - 1 : new[k][1] = "status" /\ new[k][2] \in Finished
    <3>1. Len(lines) \in {0, 1} /\ Len(states) \in {0, 1} /\ Len(end) \in {0, 1}
      OBVIOUS
    <3>2. /\ DOMAIN new = 1 .. Len(lines) + Len(states) + Len(end)
          /\ \A n \in 1 .. Len(lines) : new[n] = lines[n]
          /\ \A n \in 1 .. Len(states) : new[Len(lines) + n] = states[n]
          /\ \A n \in 1 .. Len(end) : new[Len(lines) + Len(states) + n] = end[n]
      BY <2>1, JoinedThree
    <3>3. /\ Len(lines) = 1 => /\ lines[1] = <<"progress", progress[j]>>
                               /\ progress[j] \notin {0, s.lastProgress}
          /\ Len(states) = 1 => states[1] = <<"status", Status(j)>>
          /\ Len(end) = 1 => end[1] = <<"end">> /\ Status(j) \in Finished /\ Len(states) = 1
      BY <1>1
    <3> HIDE DEF new, lines, states, end
    <3>4. CASE i = 1 /\ Len(lines) = 1
      BY <3>2, <3>3, <3>4
    <3>5. CASE i = Len(lines) + 1 /\ Len(states) = 1
      <4>1. new[i] = states[1]
        BY <3>2, <3>5
      <4> QED BY <3>3, <3>5, <4>1
    <3>6. CASE i = Len(lines) + Len(states) + 1 /\ Len(end) = 1
      <4>1. new[i] = end[1] /\ new[Len(lines) + 1] = states[1] /\ Len(lines) + 1 \in 1 .. i - 1
        BY <3>1, <3>2, <3>3, <3>6
      <4> QED BY <3>3, <3>6, <4>1
    <3>7. \/ i = 1 /\ Len(lines) = 1
          \/ i = Len(lines) + 1 /\ Len(states) = 1
          \/ i = Len(lines) + Len(states) + 1 /\ Len(end) = 1
      BY <3>1, <3>2
    <3> QED BY <3>4, <3>5, <3>6, <3>7
  <2> HIDE DEF new
  <2> QED BY <1>1, <1>2, <2>2, <2>5, <2>6
<1>3. CASE /\ Missing(j)
           /\ stream' = [stream EXCEPT ![j].lastStatus = "DELETED",
                                       ![j].inbox = @ \o <<<<"error">>, <<"end">>>>]
  <2> DEFINE new == <<<<"error">>, <<"end">>>>
  <2>1. new \in Seq(Event) /\ DOMAIN new = {1, 2} /\ new[1][1] = "error"
    BY Events
  <2>2. s.inbox \o new \in Seq(Event)
    BY <1>1, <2>1
  <2> HIDE DEF new
  <2>3. stream'[j] = [s EXCEPT !.lastStatus = "DELETED", !.inbox = s.inbox \o new]
    BY <1>1, <1>3 DEF new
  <2>4. /\ stream'[j] \in Connection /\ stream'[j].inbox = s.inbox \o new
        /\ stream'[j].conn = "open" /\ stream'[j].lastProgress = s.lastProgress
    BY <1>1, <2>2, <2>3 DEF Connection
  <2>5. ASSUME NEW i \in DOMAIN new PROVE new[i][1] # "progress"
    BY <2>1 DEF new
  <2> QED BY <1>1, <1>3, <2>1, <2>4, <2>5
<1> QED BY <1>2, <1>3 DEF Poll

-----------------------------------------------------------------------------
(* What a step of the service does to the status of the jobs.               *)

Promised(before, after) ==
    \/ after = before
    \/ before = "NEW" /\ after = "PENDING"
    \/ before = "PENDING" /\ after = "RUNNING"
    \/ before = "RUNNING" /\ after \in Finished
    \/ before \in Finished /\ after = "DELETED"

ServiceStep(j) ==
    \/ Service!Accept(j) \/ Service!Start(j) \/ Service!Answer(j)
    \/ Service!Fail(j) \/ Service!Delete(j)

LEMMA Served ==
    ASSUME TypeInv, NEW j \in Jobs, ServiceStep(j)
    PROVE  /\ view' \in [Jobs -> ViewType] /\ ~workerLost'
           /\ \A i \in Jobs : Promised(Status(i), Status(i)')
           /\ Service!Accept(j) => Status(j) = "NEW" /\ Status(j)' = "PENDING"
           /\ Service!Delete(j) => Status(j)' = "DELETED"
<1>1. view \in [Jobs -> ViewType] /\ ~workerLost
  BY DEF TypeInv
<1>2. PICK v \in ViewType : /\ Service!Becomes(j, v)
                            /\ Promised(view[j].status, v.status)
                            /\ Service!Accept(j) => view[j].status = "NEW" /\ v.status = "PENDING"
                            /\ Service!Delete(j) => v.status = "DELETED"
  <2>0. view[j] \in ViewType
    BY <1>1
  <2>1. CASE Service!Accept(j)
    <3>1. Service!Fresh("PENDING") \in ViewType
      BY DEF Service!Fresh, Service!View, ViewType, Statuses
    <3>2. view[j].status = "NEW" /\ Service!Fresh("PENDING").status = "PENDING"
      BY <2>1 DEF Service!Accept, Service!Unborn, Service!Fresh, Service!View
    <3>3. ~Service!Delete(j)
      BY <3>2 DEF Service!Delete
    <3> QED BY <2>1, <3>1, <3>2, <3>3 DEF Service!Accept, Promised
  <2>2. CASE Service!Start(j)
    <3>1. Service!Fresh("RUNNING") \in ViewType
      BY DEF Service!Fresh, Service!View, ViewType, Statuses
    <3>2. view[j].status = "PENDING" /\ Service!Fresh("RUNNING").status = "RUNNING"
      BY <2>2 DEF Service!Start, Service!Fresh, Service!View
    <3>3. ~Service!Delete(j) /\ ~Service!Accept(j)
      BY <3>2 DEF Service!Delete, Service!Accept, Service!Unborn, Service!Fresh, Service!View
    <3> QED BY <2>2, <3>1, <3>2, <3>3 DEF Service!Start, Promised
  <2>3. CASE Service!Answer(j)
    <3>1. Service!Answered(view[j]) \in ViewType
      BY <2>0 DEF Service!Answered, Service!View, ViewType, Statuses
    <3>2. view[j].status = "RUNNING" /\ Service!Answered(view[j]).status = "SUCCEEDED"
      BY <2>3 DEF Service!Answer, Service!Answered, Service!View
    <3>3. ~Service!Delete(j) /\ ~Service!Accept(j)
      BY <3>2 DEF Service!Delete, Service!Accept, Service!Unborn, Service!Fresh, Service!View
    <3> QED BY <2>3, <3>1, <3>2, <3>3 DEF Service!Answer, Promised, Finished
  <2>4. CASE Service!Fail(j)
    <3> DEFINE v == Service!View("FAILED", view[j].insufficient, TRUE, "none")
    <3>1. v \in ViewType /\ v.status = "FAILED"
      BY <2>0 DEF Service!View, ViewType, Statuses
    <3>2. view[j].status = "RUNNING" /\ Service!Becomes(j, v)
      BY <2>4 DEF Service!Fail
    <3>3. ~Service!Delete(j) /\ ~Service!Accept(j)
      BY <3>2 DEF Service!Delete, Service!Accept, Service!Unborn, Service!Fresh, Service!View
    <3> HIDE DEF v
    <3> QED BY <3>1, <3>2, <3>3 DEF Promised, Finished
  <2>5. CASE Service!Delete(j)
    <3>1. Service!Deleted \in ViewType /\ Service!Deleted.status = "DELETED"
      BY DEF Service!Deleted, Service!Fresh, Service!View, ViewType, Statuses
    <3>2. view[j].status \in Finished /\ Service!Becomes(j, Service!Deleted)
      BY <2>5 DEF Service!Delete, Finished
    <3>3. ~Service!Accept(j)
      BY <3>2 DEF Service!Accept, Service!Unborn, Service!Fresh, Service!View, Finished
    <3> QED BY <3>1, <3>2, <3>3 DEF Promised
  <2> QED BY <2>1, <2>2, <2>3, <2>4, <2>5 DEF ServiceStep
<1>3. view' = [view EXCEPT ![j] = v] /\ UNCHANGED workerLost
  BY <1>2 DEF Service!Becomes
<1> QED BY <1>1, <1>2, <1>3 DEF Status, Promised

LEMMA TypeStep ==
    ASSUME TypeInv, [Next]_vars
    PROVE  TypeInv'
<1>0. /\ view \in [Jobs -> ViewType] /\ ~workerLost
      /\ progress \in [Jobs -> 0 .. MaxProgress]
      /\ query \in [Jobs -> Query]
      /\ page \in Jobs \cup {Elsewhere}
      /\ log \in Seq([job : Jobs, line : 1 .. MaxProgress]) /\ drops \in 0 .. MaxDrops
      /\ stream \in [Jobs -> Connection]
      /\ noticed \subseteq Jobs /\ posting \subseteq Jobs /\ forgotten \subseteq Jobs
      /\ deleting \in [Jobs -> {None, "sent", "deleted", "conflict"}]
  BY DEF TypeInv, TypeOK, Query
<1>a. ASSUME view' \in [Jobs -> ViewType] /\ ~workerLost',
             progress' \in [Jobs -> 0 .. MaxProgress],
             query' \in [Jobs -> Query],
             page' \in Jobs \cup {Elsewhere},
             log' \in Seq([job : Jobs, line : 1 .. MaxProgress]), drops' \in 0 .. MaxDrops,
             stream' \in [Jobs -> Connection],
             noticed' \subseteq Jobs, posting' \subseteq Jobs, forgotten' \subseteq Jobs,
             deleting' \in [Jobs -> {None, "sent", "deleted", "conflict"}]
      PROVE  TypeInv'
  BY <1>a DEF TypeInv, TypeOK, Query, Connection
\* Only the cache, only the streams, only what the user does changes.
<1>b. ASSUME NEW j \in Jobs, NEW q \in Query, query' = [query EXCEPT ![j] = q]
      PROVE  query' \in [Jobs -> Query]
  BY <1>0, <1>b
<1>c. ASSUME NEW j \in Jobs
      PROVE  /\ query[j] \in Query /\ NoQuery \in Query
             /\ Started(query[j]) \in Query /\ Invalidated(query[j]) \in Query
  <2>1. query[j] \in Query /\ NoQuery \in Query
    BY <1>0 DEF Query, NoQuery
  <2>2. Started(query[j]) \in Query
    BY <2>1 DEF Query, Started
  <2> QED BY <2>1, <2>2 DEF Invalidated
<1>d. Closed \in Connection /\ Pending \in Connection
  BY PendingType
<1>e. CloseStream \in [Jobs -> Connection]
  BY <1>0, <1>d DEF CloseStream
<1>f. ASSUME NEW j \in Jobs, Show(j)
      PROVE  /\ page' \in Jobs \cup {Elsewhere} /\ log' \in Seq([job : Jobs, line : 1 .. MaxProgress])
             /\ drops' \in 0 .. MaxDrops /\ stream' \in [Jobs -> Connection]
  BY <1>d, <1>e, <1>f, DropsAssumption DEF Show
<1>g. ASSUME ShowElsewhere
      PROVE  /\ page' \in Jobs \cup {Elsewhere} /\ log' \in Seq([job : Jobs, line : 1 .. MaxProgress])
             /\ drops' \in 0 .. MaxDrops /\ stream' \in [Jobs -> Connection]
  BY <1>d, <1>e, <1>g, DropsAssumption DEF ShowElsewhere
<1>h. ASSUME NEW j \in Jobs, NEW kind, Take(j, kind)
      PROVE  Rest(j) \in [Jobs -> Connection] /\ Head(stream[j].inbox) \in Event
  <2>1. stream[j] \in Connection /\ stream[j].inbox \in Seq(Event) /\ stream[j].inbox # <<>>
    BY <1>0, <1>h DEF Take, Connection
  <2>2. Tail(stream[j].inbox) \in Seq(Event) /\ Head(stream[j].inbox) \in Event
    BY <2>1
  <2>3. [stream[j] EXCEPT !.inbox = Tail(stream[j].inbox)] \in Connection
    BY <2>1, <2>2 DEF Connection
  <2>4. Rest(j) = [stream EXCEPT ![j] = [stream[j] EXCEPT !.inbox = Tail(stream[j].inbox)]]
    BY DEF Rest
  <2> QED BY <1>0, <2>2, <2>3, <2>4
<1> USE DEF serverVars, pageVars, userVars
<1>1. CASE Leave
  BY <1>0, <1>1, <1>a, <1>g DEF Leave
<1>2. CASE SubmitFails
  BY <1>0, <1>2, <1>a DEF SubmitFails
<1>3. ASSUME NEW j \in Jobs, Run(j) \/ DeleteElsewhere(j) PROVE TypeInv'
  BY <1>0, <1>3, <1>a, Served DEF Run, DeleteElsewhere, ServiceStep
<1>4. ASSUME NEW j \in Jobs, ReportProgress(j) PROVE TypeInv'
  BY <1>0, <1>4, <1>a, ProgressAssumption DEF ReportProgress
<1>5. ASSUME NEW j \in Jobs, ReadJob(j) PROVE TypeInv'
  <2>1. [query[j] EXCEPT !.fetch = Status(j)] \in Query
    BY <1>0, <1>5, <1>c DEF ReadJob, Query, ViewType, Missing, Status
  <2> QED BY <1>0, <1>5, <1>a, <1>b, <2>1 DEF ReadJob
<1>6. ASSUME NEW j \in Jobs, ReceiveJob(j) PROVE TypeInv'
  <2>1. [NoQuery EXCEPT !.data = query[j].fetch] \in Query
    BY <1>0, <1>6, <1>c DEF ReceiveJob, Query, NoQuery
  <2>2. noticed' \subseteq Jobs
    BY <1>0, <1>6 DEF ReceiveJob, Notice
  <2> QED BY <1>0, <1>6, <1>a, <1>b, <2>1, <2>2 DEF ReceiveJob
<1>7. ASSUME NEW j \in Jobs, FetchFails(j) PROVE TypeInv'
  <2>1. query' \in [Jobs -> Query]
    BY <1>0, <1>7 DEF FetchFails, Query
  <2> QED BY <1>0, <1>7, <1>a, <2>1 DEF FetchFails
<1>8. ASSUME NEW j \in Jobs, Refetch(j) \/ Collect(j) PROVE TypeInv'
  <2>1. query' \in [Jobs -> Query]
    BY <1>8, <1>b, <1>c DEF Refetch, Collect
  <2> QED BY <1>0, <1>8, <1>a, <2>1 DEF Refetch, Collect
<1>9. ASSUME NEW j \in Jobs, Connect(j) PROVE TypeInv'
  <2>1. [Closed EXCEPT !.conn = "open"] \in Connection
    BY <1>d DEF Connection
  <2> QED BY <1>0, <1>9, <1>a, <2>1 DEF Connect
<1>10. ASSUME NEW j \in Jobs, ConnectFails(j) PROVE TypeInv'
  <2>1. [Closed EXCEPT !.conn = IF Missing(j) THEN "gone" ELSE "refused"] \in Connection
    BY <1>d DEF Connection
  <2>2. query' \in [Jobs -> Query] /\ stream' \in [Jobs -> Connection]
    BY <1>0, <1>10, <1>b, <1>c, <2>1 DEF ConnectFails
  <2> QED BY <1>0, <1>10, <1>a, <2>2 DEF ConnectFails
<1>11. ASSUME NEW j \in Jobs, Drop(j) PROVE TypeInv'
  <2>1. query' \in [Jobs -> Query] /\ stream' \in [Jobs -> Connection]
    BY <1>0, <1>11, <1>b, <1>c, <1>d DEF Drop
  <2>2. drops' \in 0 .. MaxDrops
    BY <1>0, <1>11, DropsAssumption DEF Drop
  <2> QED BY <1>0, <1>11, <1>a, <2>1, <2>2 DEF Drop
<1>12. ASSUME NEW j \in Jobs, Poll(j) PROVE TypeInv'
  <2>1. stream'[j] \in Connection
    BY <1>12, PollSends
  <2>2. \A i \in Jobs \ {j} : stream'[i] = stream[i]
    BY <1>0, <1>12 DEF Poll
  <2>3. DOMAIN stream' = Jobs /\ stream' = [i \in DOMAIN stream' |-> stream'[i]]
    BY <1>0, <1>12 DEF Poll
  <2>4. stream' \in [Jobs -> Connection]
    BY <1>0, <2>1, <2>2, <2>3
  <2> QED BY <1>0, <1>12, <1>a, <2>4 DEF Poll
<1>13. ASSUME NEW j \in Jobs, OnProgress(j) PROVE TypeInv'
  <2>1. Head(stream[j].inbox)[2] \in 1 .. MaxProgress
    BY <1>13, <1>h, Events DEF OnProgress, Take
  <2>2. [job |-> j, line |-> Head(stream[j].inbox)[2]] \in [job : Jobs, line : 1 .. MaxProgress]
    BY <2>1
  <2>3. log' \in Seq([job : Jobs, line : 1 .. MaxProgress]) /\ stream' \in [Jobs -> Connection]
    BY <1>0, <1>13, <1>h, <2>2 DEF OnProgress
  <2> QED BY <1>0, <1>13, <1>a, <2>3 DEF OnProgress
<1>14. ASSUME NEW j \in Jobs, OnStatus(j) PROVE TypeInv'
  <2>1. query' \in [Jobs -> Query] /\ stream' \in [Jobs -> Connection]
    BY <1>0, <1>14, <1>b, <1>c, <1>e, <1>h DEF OnStatus
  <2> QED BY <1>0, <1>14, <1>a, <2>1 DEF OnStatus
<1>15. ASSUME NEW j \in Jobs, OnError(j) PROVE TypeInv'
  <2>1. query' \in [Jobs -> Query] /\ stream' \in [Jobs -> Connection]
    BY <1>0, <1>15, <1>b, <1>c, <1>d, <1>h DEF OnError
  <2> QED BY <1>0, <1>15, <1>a, <2>1 DEF OnError
<1>16. ASSUME NEW j \in Jobs, Submit(j) PROVE TypeInv'
  BY <1>0, <1>16, <1>a, Served DEF Submit, ServiceStep
<1>17. ASSUME NEW j \in Jobs, Submitted(j) PROVE TypeInv'
  <2>1. query' \in [Jobs -> Query]
    BY <1>0, <1>17 DEF Submitted, Query, Statuses
  <2> QED BY <1>0, <1>17, <1>a, <1>f, <2>1 DEF Submitted
<1>18. ASSUME NEW j \in Jobs, Visit(j) PROVE TypeInv'
  <2>1. query' \in [Jobs -> Query]
    BY <1>0, <1>18, <1>b, <1>c DEF Visit, Mounted
  <2> QED BY <1>0, <1>18, <1>a, <1>f, <2>1 DEF Visit
<1>19. ASSUME NEW j \in Jobs, ConfirmDelete(j) PROVE TypeInv'
  BY <1>0, <1>19, <1>a DEF ConfirmDelete
<1>20. ASSUME NEW j \in Jobs, Delete(j) PROVE TypeInv'
  <2>1. deleting' \in [Jobs -> {None, "sent", "deleted", "conflict"}]
    BY <1>0, <1>20 DEF Delete
  <2> QED BY <1>0, <1>20, <1>a, <2>1, Served DEF Delete, ServiceStep
<1>21. ASSUME NEW j \in Jobs, Deleted(j) PROVE TypeInv'
  <2>1. query' \in [Jobs -> Query]
    BY <1>21, <1>b, <1>c DEF Deleted, Removed
  <2>2. /\ deleting' \in [Jobs -> {None, "sent", "deleted", "conflict"}]
        /\ forgotten' \subseteq Jobs
    BY <1>0, <1>21 DEF Deleted
  <2> QED BY <1>0, <1>21, <1>a, <1>g, <2>1, <2>2 DEF Deleted
<1>22. CASE UNCHANGED vars
  BY <1>0, <1>22, <1>a DEF vars
<1> QED BY <1>1, <1>2, <1>3, <1>4, <1>5, <1>6, <1>7, <1>8, <1>9, <1>10, <1>11, <1>12, <1>13,
           <1>14, <1>15, <1>16, <1>17, <1>18, <1>19, <1>20, <1>21, <1>22
        DEF Next, FetchStep, OnEvent

LEMMA TypeInit == Init => TypeInv
<1> SUFFICES ASSUME Init PROVE TypeInv
  OBVIOUS
<1>1. \A j \in Jobs : Closed \in Connection /\ NoQuery \in Query
  BY PendingType DEF NoQuery, Query
<1>2. view \in [Jobs -> ViewType] /\ ~workerLost
  BY DEF Init, Service!Init, Service!Unborn, Service!Fresh, Service!View, ViewType
<1> QED BY <1>1, <1>2, ProgressAssumption, DropsAssumption
        DEF Init, TypeInv, TypeOK, Query, Connection

\* Every variable of the tab, and every event on its way, keeps its shape.
THEOREM TypeInvariant == Spec => []TypeInv
<1>1. TypeInv /\ [Next]_vars => TypeInv'
  BY TypeStep
<1> QED BY <1>1, TypeInit, PTL DEF Spec

\* In particular the cache, the streams, the log and the deletions do.
THEOREM TypeCorrect == Spec => []TypeOK
<1>1. TypeInv => TypeOK
  BY DEF TypeInv
<1> QED BY <1>1, TypeInvariant, PTL

LEMMA DeletionStep ==
    ASSUME TypeInv, DeletionInv, [Next]_vars
    PROVE  DeletionInv'
<1>0. /\ query \in [Jobs -> Query]
      /\ view \in [Jobs -> ViewType]
      /\ posting \subseteq Jobs /\ forgotten \subseteq Jobs
      /\ deleting \in [Jobs -> {None, "sent", "deleted", "conflict"}]
  BY DEF TypeInv, TypeOK, Query
<1>a. \A j \in Jobs : DeletionFits(j)
  BY DEF DeletionInv
<1>b. ASSUME \A i \in Jobs : DeletionFits(i)' PROVE DeletionInv'
  BY <1>b DEF DeletionInv
\* The service goes on; every other variable of the invariant waits.
<1>c. ASSUME NEW i \in Jobs, Promised(Status(i), Status(i)'), query'[i] = query[i],
             i \in posting' <=> i \in posting, deleting'[i] = deleting[i],
             i \in forgotten' <=> i \in forgotten
      PROVE  DeletionFits(i)'
  BY <1>a, <1>c DEF DeletionFits, Settled, Promised, Finished
<1>d. ASSUME UNCHANGED <<view, query, posting, deleting, forgotten>> PROVE DeletionInv'
  BY <1>b, <1>c, <1>d DEF Promised, Status
\* The cache entry of one job changes, to nothing the service has not said.
<1>e. ASSUME NEW j \in Jobs, NEW q, UNCHANGED <<view, posting, deleting, forgotten>>,
             query' = [query EXCEPT ![j] = q],
             q.data \in Finished => Settled(j),
             q.fetch \in Finished => Settled(j),
             j \in forgotten => q.data = None /\ q.fetch \in {None, "sent"}
      PROVE  DeletionInv'
  <2>1. query'[j] = q /\ \A i \in Jobs \ {j} : query'[i] = query[i]
    BY <1>0, <1>e
  <2>2. \A i \in Jobs \ {j} : DeletionFits(i)'
    BY <1>c, <1>e, <2>1 DEF Promised, Status
  <2>3. DeletionFits(j)'
    BY <1>a, <1>e, <2>1 DEF DeletionFits, Settled, Status
  <2> QED BY <1>b, <2>2, <2>3
<1>f. ASSUME NEW j \in Jobs
      PROVE  /\ Started(query[j]).data = query[j].data
             /\ Started(query[j]).fetch = "sent"
             /\ Invalidated(query[j]).data = query[j].data
             /\ Invalidated(query[j]).fetch \in {query[j].fetch, "sent"}
             /\ NoQuery.data = None /\ NoQuery.fetch = None
  BY <1>0 DEF Started, Invalidated, Query, NoQuery
<1>g. ASSUME NEW j \in Jobs, NEW q \in {query[j], Started(query[j]), Invalidated(query[j]), NoQuery}
      PROVE  /\ q.data \in Finished => Settled(j)
             /\ q.fetch \in Finished => Settled(j)
             /\ j \in forgotten => q.data = None /\ q.fetch \in {None, "sent"}
  BY <1>a, <1>f, <1>g DEF DeletionFits, Finished, None
<1> USE DEF serverVars, pageVars, userVars
<1>1. CASE \/ Leave \/ SubmitFails
  <2>1. CASE Leave
    BY <1>d, <2>1 DEF Leave
  <2>2. CASE SubmitFails
    BY <1>a, <1>b, <2>2 DEF SubmitFails, DeletionFits, Settled, Status
  <2> QED BY <1>1, <2>1, <2>2
<1>2. ASSUME NEW j \in Jobs, Run(j) \/ DeleteElsewhere(j) PROVE DeletionInv'
  BY <1>2, <1>b, <1>c, Served DEF Run, DeleteElsewhere, ServiceStep
<1>3. ASSUME NEW j \in Jobs,
             \/ ReportProgress(j) \/ Connect(j) \/ Poll(j) \/ OnProgress(j)
      PROVE  DeletionInv'
  BY <1>3, <1>d DEF ReportProgress, Connect, Poll, OnProgress
<1>4. ASSUME NEW j \in Jobs, ReadJob(j) PROVE DeletionInv'
  <2>1. query' = [query EXCEPT ![j] = [query[j] EXCEPT !.fetch = Status(j)]]
    BY <1>4 DEF ReadJob
  <2>2. /\ [query[j] EXCEPT !.fetch = Status(j)].data = query[j].data
        /\ [query[j] EXCEPT !.fetch = Status(j)].fetch = Status(j)
    BY <1>0 DEF Query
  <2>3. j \notin forgotten
    BY <1>4, <1>a DEF ReadJob, Missing, DeletionFits
  <2> QED BY <1>4, <1>e, <1>g, <2>1, <2>2, <2>3 DEF ReadJob, Settled
<1>5. ASSUME NEW j \in Jobs, ReceiveJob(j) PROVE DeletionInv'
  <2>1. query' = [query EXCEPT ![j] = [NoQuery EXCEPT !.data = query[j].fetch]]
    BY <1>5 DEF ReceiveJob
  <2>2. /\ [NoQuery EXCEPT !.data = query[j].fetch].data = query[j].fetch
        /\ [NoQuery EXCEPT !.data = query[j].fetch].fetch = None
    BY DEF NoQuery
  <2>3. j \notin forgotten
    BY <1>5, <1>a DEF ReceiveJob, DeletionFits
  <2> QED BY <1>5, <1>e, <1>g, <2>1, <2>2, <2>3 DEF ReceiveJob, Finished, None
<1>6. ASSUME NEW j \in Jobs, FetchFails(j) PROVE DeletionInv'
  <2> DEFINE q == [query[j] EXCEPT !.fetch = None, !.error = TRUE]
  <2>1. query' = [query EXCEPT ![j] = q]
    BY <1>0, <1>6 DEF FetchFails
  <2>2. q.data = query[j].data /\ q.fetch = None
    BY <1>0 DEF Query
  <2> HIDE DEF q
  <2>3. /\ q.data \in Finished => Settled(j)
        /\ q.fetch \in Finished => Settled(j)
        /\ j \in forgotten => q.data = None /\ q.fetch \in {None, "sent"}
    BY <1>a, <2>2 DEF Finished, None, DeletionFits
  <2>4. UNCHANGED <<view, posting, deleting, forgotten>>
    BY <1>6 DEF FetchFails
  <2> QED BY <1>e, <2>1, <2>3, <2>4
<1>7. ASSUME NEW j \in Jobs,
             NEW q \in {query[j], Started(query[j]), Invalidated(query[j]), NoQuery},
             query' = [query EXCEPT ![j] = q], UNCHANGED <<view, posting, deleting, forgotten>>
      PROVE  DeletionInv'
  BY <1>7, <1>e, <1>g
<1>8. ASSUME NEW j \in Jobs, Refetch(j) \/ Collect(j) \/ ConnectFails(j) \/ Drop(j) \/ OnError(j)
      PROVE  DeletionInv'
  BY <1>8, <1>7 DEF Refetch, Collect, ConnectFails, Drop, OnError
<1>9. ASSUME NEW j \in Jobs, OnStatus(j) PROVE DeletionInv'
  BY <1>9, <1>7, <1>d DEF OnStatus
<1>10. ASSUME NEW j \in Jobs, Visit(j) PROVE DeletionInv'
  BY <1>10, <1>7 DEF Visit, Mounted
<1>11. ASSUME NEW j \in Jobs, Submit(j) PROVE DeletionInv'
  <2>1. /\ Status(j) = "NEW" /\ Status(j)' = "PENDING"
        /\ \A i \in Jobs : Promised(Status(i), Status(i)')
    BY <1>11, Served DEF Submit, ServiceStep
  <2>2. \A i \in Jobs \ {j} : DeletionFits(i)'
    BY <1>11, <1>c, <2>1 DEF Submit
  <2>3. DeletionFits(j)'
    BY <1>11, <1>a, <2>1 DEF Submit, DeletionFits, Settled, Finished
  <2> QED BY <1>b, <2>2, <2>3
<1>12. ASSUME NEW j \in Jobs, Submitted(j) PROVE DeletionInv'
  <2>1. query'[j].data = "PENDING" /\ query'[j].fetch = query[j].fetch
    BY <1>0, <1>12 DEF Submitted, Query
  <2>2. \A i \in Jobs \ {j} : query'[i] = query[i]
    BY <1>0, <1>12 DEF Submitted
  <2>3. \A i \in Jobs \ {j} : DeletionFits(i)'
    BY <1>12, <1>a, <2>2 DEF Submitted, DeletionFits, Settled, Status
  <2>4. DeletionFits(j)'
    BY <1>12, <1>a, <2>1 DEF Submitted, DeletionFits, Settled, Finished, Status
  <2> QED BY <1>b, <2>3, <2>4
<1>13. ASSUME NEW j \in Jobs, ConfirmDelete(j) PROVE DeletionInv'
  <2>1. \A i \in Jobs \ {j} : DeletionFits(i)'
    BY <1>0, <1>13, <1>c DEF ConfirmDelete, Promised, Status
  <2>2. DeletionFits(j)'
    BY <1>0, <1>13, <1>a DEF ConfirmDelete, Deletable, DeletionFits, Settled, Status
  <2> QED BY <1>b, <2>1, <2>2
<1>14. ASSUME NEW j \in Jobs, Delete(j) PROVE DeletionInv'
  <2>1. CASE Service!Delete(j)
    <3>1. Status(j)' = "DELETED" /\ \A i \in Jobs : Promised(Status(i), Status(i)')
      BY <2>1, Served DEF ServiceStep
    <3>2. deleting' \in [Jobs -> {None, "sent", "deleted", "conflict"}]
          /\ deleting'[j] \in {"deleted", None}
          /\ \A i \in Jobs \ {j} : deleting'[i] = deleting[i]
      <4>1. Status(j) \in Finished
        BY <2>1 DEF Service!Delete, Status, Finished
      <4> QED BY <1>0, <1>14, <4>1 DEF Delete
    <3>3. \A i \in Jobs \ {j} : DeletionFits(i)'
      BY <1>14, <1>c, <3>1, <3>2 DEF Delete
    <3>4. DeletionFits(j)'
      <4>1. /\ deleting[j] = "sent" /\ query'[j] = query[j]
            /\ posting' = posting /\ forgotten' = forgotten
        BY <1>14 DEF Delete
      <4>2. Settled(j)'
        BY <3>1 DEF Settled
      <4> QED BY <1>a, <3>1, <3>2, <4>1, <4>2 DEF DeletionFits, None
    <3> QED BY <1>b, <3>3, <3>4
  <2>2. CASE ~Service!Delete(j)
    <3>1. Status(j) \notin Finished /\ Settled(j) /\ deleting[j] = "sent"
      BY <1>14, <1>a, <2>2 DEF Delete, DeletionFits, None
    <3>2. deleting' = [deleting EXCEPT ![j] = None]
      BY <1>14, <2>2, <3>1 DEF Delete, Settled, Missing
    <3>3. \A i \in Jobs \ {j} : DeletionFits(i)'
      BY <1>0, <1>14, <1>c, <2>2, <3>2 DEF Delete, Promised, Status
    <3>4. DeletionFits(j)'
      BY <1>0, <1>14, <1>a, <2>2, <3>2 DEF Delete, DeletionFits, Settled, Status, None
    <3> QED BY <1>b, <3>3, <3>4
  <2> QED BY <2>1, <2>2
<1>15. ASSUME NEW j \in Jobs, Deleted(j) PROVE DeletionInv'
  <2>1. \A i \in Jobs \ {j} : DeletionFits(i)'
    BY <1>0, <1>15, <1>c DEF Deleted, Promised, Status
  <2>2. query'[j] = NoQuery /\ deleting'[j] = None
    BY <1>0, <1>15 DEF Deleted, Removed
  <2>3. DeletionFits(j)'
    BY <1>15, <1>a, <1>f, <2>2 DEF Deleted, DeletionFits, Settled, Status, Finished, None
  <2> QED BY <1>b, <2>1, <2>3
<1>16. CASE UNCHANGED vars
  BY <1>16, <1>d DEF vars
<1> QED BY <1>1, <1>2, <1>3, <1>4, <1>5, <1>6, <1>8, <1>9, <1>10, <1>11, <1>12, <1>13,
           <1>14, <1>15, <1>16 DEF Next, FetchStep, OnEvent

LEMMA DeletionInit == Init => DeletionInv
<1>1. Init => \A j \in Jobs : DeletionFits(j)
  BY DEF Init, DeletionFits, NoQuery, None, Finished
<1> QED BY <1>1 DEF DeletionInv

\* The cache of a tab and its deletions never get ahead of the service.
THEOREM DeletionInvariant == Spec => []DeletionInv
<1>1. TypeInv /\ DeletionInv /\ [Next]_vars => DeletionInv'
  BY DeletionStep
<1> QED BY <1>1, DeletionInit, TypeInvariant, PTL DEF Spec

\* However old what the page knows of a job, the deletion it offers is never refused
\* with 409 by delete_job.
THEOREM DeletesGoThrough == Spec => []DeletesAreAccepted
<1>1. TypeInv /\ DeletionInv => DeletesAreAccepted
  BY DEF DeletionInv, DeletionFits, DeletesAreAccepted, None
<1> QED BY <1>1, DeletionInvariant, TypeInvariant, PTL

\* Whatever fetch was under way when useDeleteJob removed a job, no answer brings
\* it back into the cache.
THEOREM DeletedStaysForgotten == Spec => []DeletedIsForgotten
<1>1. TypeInv /\ DeletionInv => DeletedIsForgotten
  BY DEF DeletionInv, DeletionFits, DeletedIsForgotten, TypeInv, TypeOK
<1> QED BY <1>1, DeletionInvariant, TypeInvariant, PTL

-----------------------------------------------------------------------------
(* What an event stream holds after it has been written or read.            *)

LEMMA LineTypes ==
    ASSUME TypeInv, NEW j \in Jobs
    PROVE  /\ stream[j] \in Connection /\ stream[j].inbox \in Seq(Event)
           /\ stream[j].lastProgress \in Nat /\ progress[j] \in Nat
           /\ \A i \in DOMAIN stream[j].inbox : i \in Nat
           /\ \A i \in Lines(j) : Line(j, i) \in Nat /\ Line(j, i) # 0 /\ i \in Nat
<1>1. /\ stream[j] \in Connection /\ stream[j].inbox \in Seq(Event)
      /\ stream[j].lastProgress \in 0 .. MaxProgress /\ progress[j] \in 0 .. MaxProgress
  BY DEF TypeInv, TypeOK, Connection
<1>2. \A i \in DOMAIN stream[j].inbox : i \in Nat /\ stream[j].inbox[i] \in Event
  BY <1>1
<1>3. \A i \in Lines(j) : Line(j, i) \in 1 .. MaxProgress
  BY <1>2, Events DEF Lines, Line
<1> QED BY <1>1, <1>2, <1>3 DEF Lines

LEMMA PollLines ==
    ASSUME TypeInv, NEW j \in Jobs, Poll(j)
    PROVE  /\ \A i \in Lines(j)' :
                 \/ i \in Lines(j) /\ Line(j, i)' = Line(j, i)
                 \/ /\ \A k \in Lines(j) : k < i
                    /\ \A k \in Lines(j)' : k <= i
                    /\ Line(j, i)' = progress[j] /\ ~Missing(j)
                    /\ progress[j] \notin {0, stream[j].lastProgress}
           /\ \A i \in DOMAIN stream'[j].inbox :
                 stream'[j].inbox[i][1] = "end" =>
                    \/ Missing(j)
                    \/ i \in DOMAIN stream[j].inbox /\ stream[j].inbox[i][1] = "end"
                    \/ \E k \in 1 .. i - 1 : /\ stream'[j].inbox[k][1] = "status"
                                             /\ stream'[j].inbox[k][2] \in Finished
           /\ \A i \in DOMAIN stream[j].inbox : /\ i \in DOMAIN stream'[j].inbox
                                                /\ stream'[j].inbox[i] = stream[j].inbox[i]
<1> DEFINE old == stream[j].inbox
<1>1. PICK new \in Seq(Event) :
         /\ stream'[j].inbox = old \o new
         /\ \A i \in DOMAIN new :
               /\ new[i][1] = "progress" =>
                     /\ i = 1 /\ new[i][2] = progress[j] /\ ~Missing(j)
                     /\ progress[j] \notin {0, stream[j].lastProgress}
               /\ new[i][1] = "end" =>
                     \/ Missing(j)
                     \/ \E k \in 1 .. i - 1 : new[k][1] = "status" /\ new[k][2] \in Finished
  BY PollSends
<1>2. old \in Seq(Event)
  BY LineTypes
<1> HIDE DEF old
<1> DEFINE n == Len(old)
           all == stream'[j].inbox
<1>3. /\ n \in Nat /\ Len(new) \in Nat
      /\ DOMAIN old = 1 .. n /\ DOMAIN new = 1 .. Len(new) /\ DOMAIN all = 1 .. n + Len(new)
      /\ \A i \in 1 .. n : all[i] = old[i]
      /\ \A i \in 1 .. Len(new) : all[n + i] = new[i]
  BY <1>1, <1>2
<1> HIDE DEF n, all
<1>4. ASSUME NEW i \in DOMAIN all
      PROVE  i \in 1 .. n \/ (i - n \in 1 .. Len(new) /\ all[i] = new[i - n])
  BY <1>3
<1>5. ASSUME NEW i \in DOMAIN all, i \notin 1 .. n, all[i][1] = "progress"
      PROVE  i = n + 1 /\ all[i][2] = progress[j] /\ ~Missing(j)
             /\ progress[j] \notin {0, stream[j].lastProgress}
  BY <1>1, <1>3, <1>4, <1>5
<1>6. /\ Lines(j)  = {i \in 1 .. n : old[i][1] = "progress"}
      /\ Lines(j)' = {i \in DOMAIN all : all[i][1] = "progress"}
      /\ \A i : Line(j, i) = old[i][2] /\ Line(j, i)' = all[i][2]
  BY <1>3 DEF Lines, Line, old, all
<1>7. ASSUME NEW i \in Lines(j)'
      PROVE  \/ i \in Lines(j) /\ Line(j, i)' = Line(j, i)
             \/ /\ \A k \in Lines(j) : k < i
                /\ \A k \in Lines(j)' : k <= i
                /\ Line(j, i)' = progress[j] /\ ~Missing(j)
                /\ progress[j] \notin {0, stream[j].lastProgress}
  <2>1. CASE i \in 1 .. n
    BY <1>3, <1>6, <2>1
  <2>2. CASE i \notin 1 .. n
    <3>1. i = n + 1
      BY <1>5, <1>6, <2>2
    <3>2. \A k \in Lines(j)' : k <= n + 1
      BY <1>3, <1>5, <1>6
    <3> QED BY <1>3, <1>5, <1>6, <2>2, <3>1, <3>2
  <2> QED BY <2>1, <2>2
<1>8. ASSUME NEW i \in DOMAIN all, all[i][1] = "end"
      PROVE  \/ Missing(j)
             \/ i \in 1 .. n /\ old[i][1] = "end"
             \/ \E k \in 1 .. i - 1 : all[k][1] = "status" /\ all[k][2] \in Finished
  <2>1. CASE i \in 1 .. n
    BY <1>3, <1>8, <2>1
  <2>2. CASE i \notin 1 .. n /\ ~Missing(j)
    <3>1. i - n \in 1 .. Len(new) /\ all[i] = new[i - n]
      BY <1>4, <2>2
    <3>2. PICK k \in 1 .. i - n - 1 : new[k][1] = "status" /\ new[k][2] \in Finished
      BY <1>1, <1>3, <1>8, <2>2, <3>1
    <3>3. all[n + k] = new[k] /\ n + k \in 1 .. i - 1
      BY <1>3, <3>1
    <3> QED BY <3>2, <3>3
  <2> QED BY <2>1, <2>2
<1> QED BY <1>3, <1>7, <1>8 DEF old, all

LEMMA RestLines ==
    ASSUME TypeInv, NEW j \in Jobs, stream[j].inbox # <<>>, stream' = Rest(j)
    PROVE  /\ \A i \in Lines(j)' : i + 1 \in Lines(j) /\ Line(j, i)' = Line(j, i + 1)
           /\ \A i \in DOMAIN stream'[j].inbox : /\ i + 1 \in DOMAIN stream[j].inbox
                                                /\ stream'[j].inbox[i] = stream[j].inbox[i + 1]
           /\ stream'[j].conn = stream[j].conn
           /\ stream'[j].lastProgress = stream[j].lastProgress
           /\ \A i \in Jobs \ {j} : stream'[i] = stream[i]
<1>1. /\ stream \in [Jobs -> Connection] /\ stream[j].inbox \in Seq(Event)
      /\ stream[j] \in Connection
  BY LineTypes DEF TypeInv
<1>2. /\ stream'[j].inbox = Tail(stream[j].inbox)
      /\ stream'[j].conn = stream[j].conn
      /\ stream'[j].lastProgress = stream[j].lastProgress
      /\ \A i \in Jobs \ {j} : stream'[i] = stream[i]
  BY <1>1 DEF Rest, Connection
<1>3. \A i \in DOMAIN Tail(stream[j].inbox) :
         /\ i + 1 \in DOMAIN stream[j].inbox
         /\ Tail(stream[j].inbox)[i] = stream[j].inbox[i + 1]
  BY <1>1
<1> QED BY <1>2, <1>3 DEF Lines, Line

LEMMA StreamStep ==
    ASSUME TypeInv, DeletionInv, StreamInv, [Next]_vars
    PROVE  StreamInv'
<1>0. /\ stream \in [Jobs -> Connection] /\ stream' \in [Jobs -> Connection]
      /\ page \in Jobs \cup {Elsewhere} /\ Elsewhere \notin Jobs
      /\ \A i \in Jobs : progress[i] \in Nat /\ progress'[i] \in Nat
      /\ posting \subseteq Jobs
  <2>1. TypeInv'
    BY TypeStep
  <2> QED BY <2>1, JobsAssumption DEF TypeInv, TypeOK
<1>a. \A i \in Jobs : StreamFits(i)
  BY DEF StreamInv
<1>b. ASSUME \A i \in Jobs : StreamFits(i)' PROVE StreamInv'
  BY <1>b DEF StreamInv
<1>c. /\ Closed.inbox = <<>> /\ Closed.lastProgress = 0 /\ Closed.conn = "closed"
      /\ Pending.inbox = <<>> /\ Pending.lastProgress = 0 /\ Pending.conn = "connecting"
  BY DEF Closed, Pending
\* A stream that is new, or closed, or left alone.
<1>d. ASSUME NEW i \in Jobs, stream'[i].inbox = <<>>, stream'[i].lastProgress = 0,
             page' # i => stream'[i] = Closed, page' = i => Status(i)' # "NEW"
      PROVE  StreamFits(i)'
  BY <1>0, <1>d DEF StreamFits, Lines
<1>e. ASSUME NEW i \in Jobs, stream'[i] = stream[i], page' = page,
             Promised(Status(i), Status(i)'), progress'[i] >= progress[i]
      PROVE  StreamFits(i)'
  <2>1. CASE page = i
    <3>1. Missing(i) => Missing(i)'
      BY <1>a, <1>e, <2>1 DEF StreamFits, Missing, Promised, Finished
    <3>2. Lines(i)' = Lines(i) /\ \A k : Line(i, k)' = Line(i, k)
      BY <1>e DEF Lines, Line
    <3>3. stream[i].lastProgress <= progress'[i]
      BY <1>0, <1>a, <1>e, LineTypes DEF StreamFits
    <3>4. Status(i)' # "NEW"
      BY <1>a, <1>e, <2>1 DEF StreamFits, Promised, Finished
    <3> QED BY <1>a, <1>e, <2>1, <3>1, <3>2, <3>3, <3>4 DEF StreamFits
  <2>2. CASE page # i
    BY <1>a, <1>c, <1>d, <1>e, <2>2 DEF StreamFits
  <2> QED BY <2>1, <2>2
<1>f. ASSUME UNCHANGED <<view, progress, page, stream>> PROVE StreamInv'
  BY <1>0, <1>b, <1>e, <1>f DEF Promised, Status
<1>g. ASSUME ShowElsewhere PROVE StreamInv'
  <2>1. \A i \in Jobs : stream'[i] = Closed
    BY <1>0, <1>a, <1>g DEF ShowElsewhere, CloseStream, StreamFits
  <2> QED BY <1>0, <1>b, <1>c, <1>d, <1>g, <2>1 DEF ShowElsewhere
<1>h. ASSUME NEW j \in Jobs, Show(j), Status(j)' # "NEW" PROVE StreamInv'
  <2>1. stream'[j] = Pending /\ \A i \in Jobs \ {j} : stream'[i] = Closed
    BY <1>0, <1>a, <1>h DEF Show, CloseStream, StreamFits
  <2> QED BY <1>b, <1>c, <1>d, <1>h, <2>1 DEF Show
\* The stream of a page that shows its job.
<1>i. ASSUME NEW j \in Jobs, stream[j].conn # "closed"
      PROVE  page = j /\ Status(j) # "NEW"
  BY <1>a, <1>c, <1>i DEF StreamFits
<1>j. ASSUME NEW j \in Jobs, stream[j].conn # "closed", UNCHANGED <<view, progress, page>>,
             \A i \in Jobs \ {j} : stream'[i] = stream[i], StreamFits(j)'
      PROVE  StreamInv'
  BY <1>0, <1>b, <1>e, <1>j DEF Promised, Status
<1>k. ASSUME NEW j \in Jobs, NEW c \in {Pending, Closed}, stream[j].conn # "closed",
             UNCHANGED <<view, progress, page>>, stream' = [stream EXCEPT ![j] = c]
      PROVE  StreamInv'
  <2>1. StreamFits(j)'
    BY <1>0, <1>c, <1>d, <1>i, <1>k DEF Status
  <2> QED BY <1>0, <1>j, <1>k, <2>1
<1>l. ASSUME NEW j \in Jobs, stream[j].inbox # <<>>
      PROVE  stream[j].conn = "open" /\ page = j
  BY <1>a, <1>i, <1>l DEF StreamFits
\* The page reads an event that is no final status.
<1>m. ASSUME NEW j \in Jobs, stream[j].inbox # <<>>, UNCHANGED <<view, progress, page>>,
             stream' = Rest(j),
             Head(stream[j].inbox)[1] = "status" => Head(stream[j].inbox)[2] \notin Finished
      PROVE  StreamInv'
  <2>1. stream[j].inbox \in Seq(Event) /\ stream[j].inbox[1] = Head(stream[j].inbox)
    BY <1>m, LineTypes
  <2>2. ASSUME NEW i \in DOMAIN stream'[j].inbox, stream'[j].inbox[i][1] = "end"
        PROVE  \/ Missing(j)'
               \/ \E k \in 1 .. i - 1 : /\ stream'[j].inbox[k][1] = "status"
                                        /\ stream'[j].inbox[k][2] \in Finished
    <3>1. i + 1 \in DOMAIN stream[j].inbox /\ stream[j].inbox[i + 1][1] = "end"
      BY <1>m, <2>2, RestLines
    <3>2. CASE Missing(j)
      BY <1>m, <3>2 DEF Missing, Status
    <3>3. CASE ~Missing(j)
      <4>1. PICK k \in 1 .. i : /\ stream[j].inbox[k][1] = "status"
                                /\ stream[j].inbox[k][2] \in Finished
        <5>1. i \in Nat /\ (i + 1) - 1 = i
          BY <2>2, <1>0, TypeStep, LineTypes DEF TypeInv, Connection
        <5> QED BY <1>a, <3>1, <3>3, <5>1 DEF StreamFits
      <4>2. k # 1
        BY <1>m, <2>1, <4>1
      <4>3. /\ i \in 1 .. Len(stream'[j].inbox) /\ stream'[j].inbox \in Seq(Event)
            /\ k - 1 \in 1 .. i - 1
        BY <1>0, <2>2, <4>1, <4>2 DEF Connection
      <4>4. k - 1 \in DOMAIN stream'[j].inbox /\ (k - 1) + 1 = k
        BY <4>3
      <4>5. stream'[j].inbox[k - 1] = stream[j].inbox[k]
        BY <1>m, <4>4, RestLines
      <4> QED BY <4>1, <4>3, <4>5
    <3> QED BY <3>2, <3>3
  <2>3. \A i \in Lines(j)' : i \in Nat
    BY TypeStep, <1>0 DEF Lines, Connection
  <2>4. \A i, k \in Lines(j)' : i < k => Line(j, i)' < Line(j, k)'
    <3> TAKE i, k \in Lines(j)'
    <3> HAVE i < k
    <3>1. i + 1 < k + 1 /\ i + 1 \in Lines(j) /\ k + 1 \in Lines(j)
      BY <1>m, <2>3, RestLines
    <3> QED BY <1>a, <1>m, <3>1, RestLines DEF StreamFits
  <2>5. \A i \in Lines(j)' : Line(j, i)' <= stream[j].lastProgress
    BY <1>a, <1>m, RestLines DEF StreamFits
  <2>6. StreamFits(j)'
    <3>1. /\ stream'[j].conn = "open" /\ stream'[j].lastProgress = stream[j].lastProgress
          /\ page' = j /\ Status(j)' = Status(j)
      BY <1>l, <1>m, RestLines DEF Status
    <3> QED BY <1>a, <1>m, <2>2, <2>4, <2>5, <3>1 DEF StreamFits
  <2> QED BY <1>j, <1>l, <1>m, <2>6, RestLines
<1> USE DEF serverVars, pageVars, userVars
<1>1. CASE \/ Leave \/ SubmitFails
  BY <1>1, <1>f, <1>g DEF Leave, SubmitFails
<1>2. ASSUME NEW j \in Jobs, Run(j) \/ DeleteElsewhere(j) \/ Submit(j) PROVE StreamInv'
  BY <1>0, <1>2, <1>b, <1>e, Served DEF Run, DeleteElsewhere, Submit, ServiceStep
<1>3. ASSUME NEW j \in Jobs, ReportProgress(j) PROVE StreamInv'
  <2>1. \A i \in Jobs : progress'[i] >= progress[i]
    BY <1>0, <1>3 DEF ReportProgress, TypeInv, TypeOK
  <2> QED BY <1>3, <1>b, <1>e, <2>1 DEF ReportProgress, Promised, Status
<1>4. ASSUME NEW j \in Jobs,
             \/ FetchStep(j) \/ Refetch(j) \/ Collect(j) \/ ConfirmDelete(j)
      PROVE  StreamInv'
  BY <1>4, <1>f DEF FetchStep, ReadJob, ReceiveJob, FetchFails, Refetch, Collect, ConfirmDelete
<1>5. ASSUME NEW j \in Jobs, Connect(j) \/ ConnectFails(j) PROVE StreamInv'
  <2>1. /\ stream[j].conn = "connecting" /\ UNCHANGED <<view, progress, page>>
        /\ \A i \in Jobs \ {j} : stream'[i] = stream[i]
        /\ stream'[j].inbox = <<>> /\ stream'[j].lastProgress = 0
    BY <1>0, <1>5 DEF Connect, ConnectFails, Closed
  <2>2. StreamFits(j)'
    BY <1>d, <1>i, <2>1 DEF Status
  <2> QED BY <1>j, <2>1, <2>2
<1>6. ASSUME NEW j \in Jobs, Drop(j) PROVE StreamInv'
  BY <1>6, <1>k DEF Drop
<1>7. ASSUME NEW j \in Jobs, Poll(j) PROVE StreamInv'
  <2>1. /\ stream[j].conn = "open" /\ stream'[j].conn = "open" /\ page = j
        /\ UNCHANGED <<view, progress, page>>
        /\ \A i \in Jobs \ {j} : stream'[i] = stream[i]
    BY <1>0, <1>7, <1>i, PollSends DEF Poll
  <2>2. stream'[j].lastProgress <= progress[j] /\ stream'[j].lastProgress >= stream[j].lastProgress
    <3>1. /\ stream[j].lastProgress \in Nat /\ progress[j] \in Nat
          /\ stream[j].lastProgress <= progress[j]
      BY <1>a, LineTypes DEF StreamFits
    <3>2. stream'[j].lastProgress \in {stream[j].lastProgress, progress[j]}
      BY <1>7, PollSends
    <3> QED BY <3>1, <3>2
  <2>3. \A i \in Lines(j)' : Line(j, i)' <= stream'[j].lastProgress
    <3> TAKE i \in Lines(j)'
    <3>1. CASE i \in Lines(j) /\ Line(j, i)' = Line(j, i)
      <4>1. Line(j, i) <= stream[j].lastProgress /\ Line(j, i) \in Nat
        BY <1>a, <3>1, LineTypes DEF StreamFits
      <4>2. stream[j].lastProgress \in Nat /\ stream'[j].lastProgress \in Nat
        BY <1>0, TypeStep, LineTypes, <1>7, PollSends
      <4> QED BY <2>2, <3>1, <4>1, <4>2
    <3>2. CASE Line(j, i)' = progress[j] /\ ~Missing(j)
      BY <1>0, <1>7, <3>2, PollSends
    <3> QED BY <1>7, <3>1, <3>2, PollLines
  <2>4. \A i, k \in Lines(j)' : i < k => Line(j, i)' < Line(j, k)'
    <3> TAKE i, k \in Lines(j)'
    <3> HAVE i < k
    <3>0. i \in Nat /\ k \in Nat
      BY <1>0 DEF Lines, Connection
    <3>1. i \in Lines(j) /\ Line(j, i)' = Line(j, i)
      BY <1>7, <3>0, PollLines
    <3>2. CASE k \in Lines(j) /\ Line(j, k)' = Line(j, k)
      BY <1>a, <3>1, <3>2 DEF StreamFits
    <3>3. CASE Line(j, k)' = progress[j] /\ progress[j] \notin {0, stream[j].lastProgress}
      BY <1>a, <3>1, <3>3, LineTypes DEF StreamFits
    <3> QED BY <1>7, <3>2, <3>3, PollLines
  <2>5. ASSUME NEW i \in DOMAIN stream'[j].inbox, stream'[j].inbox[i][1] = "end"
        PROVE  \/ Missing(j)'
               \/ \E k \in 1 .. i - 1 : /\ stream'[j].inbox[k][1] = "status"
                                        /\ stream'[j].inbox[k][2] \in Finished
    <3>1. CASE Missing(j)
      BY <2>1, <3>1 DEF Missing, Status
    <3>2. CASE ~Missing(j) /\ i \in DOMAIN stream[j].inbox /\ stream[j].inbox[i][1] = "end"
      <4>1. PICK k \in 1 .. i - 1 : /\ stream[j].inbox[k][1] = "status"
                                    /\ stream[j].inbox[k][2] \in Finished
        BY <1>a, <3>2 DEF StreamFits
      <4>2. k \in DOMAIN stream[j].inbox
        BY <3>2, <4>1, LineTypes
      <4> QED BY <1>7, <4>1, <4>2, PollLines
    <3> QED BY <1>7, <2>5, <3>1, <3>2, PollLines
  <2>6. StreamFits(j)'
    <3>1. page' = j /\ Status(j)' # "NEW" /\ progress'[j] = progress[j]
      BY <1>i, <2>1 DEF Status
    <3> QED BY <2>1, <2>2, <2>3, <2>4, <2>5, <3>1 DEF StreamFits
  <2> QED BY <1>j, <2>1, <2>6
<1>8. ASSUME NEW j \in Jobs, OnProgress(j) PROVE StreamInv'
  BY <1>8, <1>m DEF OnProgress, Take
<1>9. ASSUME NEW j \in Jobs, OnStatus(j) PROVE StreamInv'
  <2>1. CASE Head(stream[j].inbox)[2] \in Finished
    <3>1. stream[j].conn = "open" /\ page = j
      BY <1>9, <1>l DEF OnStatus, Take
    <3>2. stream' = [stream EXCEPT ![j] = Closed]
      BY <1>9, <2>1, <3>1 DEF OnStatus, CloseStream
    <3> QED BY <1>9, <1>k, <3>1, <3>2 DEF OnStatus
  <2>2. CASE Head(stream[j].inbox)[2] \notin Finished
    BY <1>9, <1>m, <2>2 DEF OnStatus, Take
  <2> QED BY <2>1, <2>2
<1>10. ASSUME NEW j \in Jobs, OnError(j) PROVE StreamInv'
  <2>1. /\ stream[j].inbox # <<>> /\ Head(stream[j].inbox)[1] \in {"error", "end"}
        /\ UNCHANGED <<view, progress, page>>
    BY <1>10 DEF OnError, Take
  <2>2. CASE stream' = [stream EXCEPT ![j] = Pending]
    BY <1>k, <1>l, <2>1, <2>2
  <2>3. CASE stream' = Rest(j)
    BY <1>m, <2>1, <2>3
  <2> QED BY <1>10, <2>2, <2>3 DEF OnError
<1>11. ASSUME NEW j \in Jobs, Submitted(j) PROVE StreamInv'
  <2>1. Status(j)' # "NEW"
    BY <1>11 DEF Submitted, DeletionInv, DeletionFits, Status
  <2> QED BY <1>11, <1>f, <1>h, <2>1 DEF Submitted
<1>12. ASSUME NEW j \in Jobs, Visit(j) PROVE StreamInv'
  <2>1. Status(j)' # "NEW"
    BY <1>12 DEF Visit, Status
  <2> QED BY <1>12, <1>h, <2>1 DEF Visit
<1>13. ASSUME NEW j \in Jobs, Delete(j) PROVE StreamInv'
  <2>1. CASE Service!Delete(j)
    BY <1>0, <1>13, <1>b, <1>e, <2>1, Served DEF Delete, ServiceStep
  <2>2. CASE ~Service!Delete(j)
    BY <1>13, <1>f, <2>2 DEF Delete
  <2> QED BY <2>1, <2>2
<1>14. ASSUME NEW j \in Jobs, Deleted(j) PROVE StreamInv'
  BY <1>14, <1>f, <1>g DEF Deleted
<1>15. CASE UNCHANGED vars
  BY <1>15, <1>f DEF vars
<1> QED BY <1>1, <1>2, <1>3, <1>4, <1>5, <1>6, <1>7, <1>8, <1>9, <1>10, <1>11, <1>12, <1>13,
           <1>14, <1>15 DEF Next, OnEvent

LEMMA StreamInit == Init => StreamInv
<1> SUFFICES ASSUME Init, NEW j \in Jobs PROVE StreamFits(j)
  BY DEF StreamInv
<1>1. stream[j] = Closed /\ page # j /\ progress[j] = 0
  BY JobsAssumption DEF Init
<1> QED BY <1>1 DEF Closed, StreamFits, Lines

-----------------------------------------------------------------------------
(* The log of the page.                                                     *)

LEMMA LoggedSet ==
    ASSUME NEW S, NEW s \in Seq(S)
    PROVE  IsFiniteSet(ToSet(s)) /\ Cardinality(ToSet(s)) \in Nat
<1>1. IsFiniteSet(1 .. Len(s))
  BY FS_Interval
<1>2. s \in Surjection(1 .. Len(s), ToSet(s))
  BY DEF ToSet, Surjection
<1> QED BY <1>1, <1>2, FS_Surjection, FS_CardinalityType

\* A line repeats what is in the log already, or it is new.
LEMMA Logged ==
    ASSUME NEW S, NEW s \in Seq(S), NEW x \in S
    PROVE  Cardinality(ToSet(Append(s, x))) =
              IF x \in ToSet(s) THEN Cardinality(ToSet(s)) ELSE Cardinality(ToSet(s)) + 1
<1>1. IsFiniteSet(ToSet(s))
  BY LoggedSet
<1>2. ToSet(Append(s, x)) = ToSet(s) \cup {x}
  <2>1. /\ Len(Append(s, x)) = Len(s) + 1 /\ Append(s, x)[Len(s) + 1] = x
        /\ \A i \in 1 .. Len(s) : Append(s, x)[i] = s[i]
        /\ DOMAIN Append(s, x) = 1 .. Len(s) + 1 /\ DOMAIN s = 1 .. Len(s) /\ Len(s) \in Nat
    OBVIOUS
  <2> QED BY <2>1 DEF ToSet
<1> QED BY <1>1, <1>2, FS_AddElement

LEMMA RepeatsOfNothing == Len(<<>>) - Cardinality(ToSet(<<>>)) = 0
BY FS_EmptySet DEF ToSet

LEMMA LogStep ==
    ASSUME TypeInv, DeletionInv, StreamInv, LogInv, [Next]_vars
    PROVE  LogInv'
<1>0. /\ page \in Jobs \cup {Elsewhere} /\ Elsewhere \notin Jobs
      /\ log \in Seq([job : Jobs, line : 1 .. MaxProgress]) /\ drops \in Nat
      /\ Repeats \in Int
      /\ \A i \in DOMAIN log : i \in Nat /\ log[i].line \in Nat
  <2>1. log \in Seq([job : Jobs, line : 1 .. MaxProgress])
    BY DEF TypeInv, TypeOK
  <2>2. Cardinality(ToSet(log)) \in Nat
    BY <2>1, LoggedSet
  <2>3. Len(log) \in Nat /\ \A i \in DOMAIN log : i \in Nat /\ log[i].line \in Nat
    <3> DEFINE Entry == [job : Jobs, line : 1 .. MaxProgress]
    <3>1. \A i \in DOMAIN log : log[i] \in Entry
      <4>1. log \in Seq(Entry)
        BY <2>1
      <4> HIDE DEF Entry
      <4> QED BY <4>1
    <3>2. Len(log) \in Nat /\ \A i \in DOMAIN log : i \in Nat
      BY <2>1
    <3> QED BY <3>1, <3>2
  <2>4. drops \in Nat /\ page \in Jobs \cup {Elsewhere}
    BY DropsAssumption DEF TypeInv, TypeOK
  <2> QED BY <2>1, <2>2, <2>3, <2>4, JobsAssumption DEF Repeats
<1>a. \A i \in Jobs : StreamFits(i)
  BY DEF StreamInv
\* The page is opened or left.
<1>b. ASSUME log' = <<>>, drops' = 0 PROVE LogInv'
  BY <1>b, RepeatsOfNothing DEF LogInv, Repeats
\* The log waits, and nothing comes up that repeats it but what did already.
<1>c. ASSUME UNCHANGED <<page, log, drops>>,
             page \in Jobs =>
                 /\ progress'[page] \in Nat /\ progress'[page] >= progress[page]
                 /\ MayRepeat(page)' => MayRepeat(page)
                 /\ \A i \in DOMAIN log :
                       /\ stream'[page].lastProgress # 0 => log[i].line <= stream'[page].lastProgress
                       /\ \A k \in Lines(page)' : log[i].line <= Line(page, k)'
      PROVE  LogInv'
  <2>1. CASE page \notin Jobs
    <3>1. log = <<>>
      BY <1>0, <2>1 DEF LogInv
    <3> QED BY <1>c, <3>1 DEF LogInv, Repeats
  <2>2. CASE page \in Jobs
    <3>1. progress[page] \in Nat
      BY <2>2, LineTypes
    <3>2. \A i \in DOMAIN log : log[i].line <= progress'[page]
      BY <1>0, <1>c, <2>2, <3>1 DEF LogInv
    <3>3. Repeats' = Repeats
      BY <1>c DEF Repeats
    <3> QED BY <1>0, <1>c, <2>2, <3>2, <3>3 DEF LogInv
  <2> QED BY <2>1, <2>2
\* The stream of the page waits as well.
<1>d. ASSUME UNCHANGED <<page, log, drops>>,
             page \in Jobs =>
                 /\ stream'[page] = stream[page]
                 /\ Promised(Status(page), Status(page)')
                 /\ progress'[page] \in Nat /\ progress'[page] >= progress[page]
      PROVE  LogInv'
  <2>1. CASE page \in Jobs
    <3>1. Lines(page)' = Lines(page) /\ \A k : Line(page, k)' = Line(page, k)
      BY <1>d, <2>1 DEF Lines, Line
    <3>2. Missing(page) => Missing(page)'
      BY <1>a, <1>d, <2>1 DEF StreamFits, Missing, Promised, Finished
    <3>3. MayRepeat(page)' => MayRepeat(page)
      BY <1>d, <2>1, <3>1, <3>2 DEF MayRepeat
    <3> QED BY <1>c, <1>d, <2>1, <3>1, <3>3 DEF LogInv
  <2>2. CASE page \notin Jobs
    BY <1>c, <1>d, <2>2
  <2> QED BY <2>1, <2>2
<1>e. ASSUME UNCHANGED <<page, log, drops, view, progress, stream>> PROVE LogInv'
  <2>1. page \in Jobs => progress[page] \in Nat
    BY LineTypes
  <2> QED BY <1>d, <1>e, <2>1 DEF Promised, Status
<1>f. ASSUME NEW j \in Jobs, Show(j) PROVE LogInv'
  BY <1>b, <1>f DEF Show
<1>g. ASSUME ShowElsewhere PROVE LogInv'
  BY <1>b, <1>g DEF ShowElsewhere
<1>h. ASSUME NEW j \in Jobs, stream[j].conn # "closed" PROVE page = j
  BY <1>a, <1>h DEF StreamFits, Closed
\* A connection that can only start over for a job that is gone, or was new itself.
<1>i. ASSUME NEW j \in Jobs, page = j, UNCHANGED <<page, log, drops, view, progress>>,
             stream'[j].inbox = <<>>, stream'[j].lastProgress = 0,
             \/ stream'[j].conn \notin {"connecting", "open"}
             \/ stream[j].conn = "connecting" \/ Missing(j)
      PROVE  LogInv'
  <2>1. Lines(j)' = {}
    BY <1>i DEF Lines
  <2>2. MayRepeat(j)' => MayRepeat(j)
    BY <1>i, <2>1 DEF MayRepeat, Missing, Status
  <2> QED BY <1>c, <1>i, <2>1, <2>2, LineTypes
<1>j. ASSUME NEW j \in Jobs, stream[j].inbox # <<>>
      PROVE  page = j /\ stream[j].conn = "open"
  BY <1>a, <1>h, <1>j DEF StreamFits
\* An event is read that is no progress line.
<1>k. ASSUME NEW j \in Jobs, stream[j].inbox # <<>>, stream' = Rest(j),
             UNCHANGED <<page, log, drops, view, progress>>
      PROVE  LogInv'
  <2>1. page = j
    BY <1>j, <1>k
  <2>2. \A i \in DOMAIN log, k \in Lines(j)' : log[i].line <= Line(j, k)'
    BY <1>k, <2>1, RestLines DEF LogInv
  <2>3. MayRepeat(j)' => MayRepeat(j)
    BY <1>k, RestLines DEF MayRepeat, Missing, Status
  <2> QED BY <1>c, <1>k, <2>1, <2>2, <2>3, RestLines, LineTypes DEF LogInv
<1> USE DEF serverVars, pageVars, userVars
<1>1. CASE \/ Leave \/ SubmitFails
  BY <1>1, <1>e, <1>g DEF Leave, SubmitFails
<1>2. ASSUME NEW j \in Jobs, Run(j) \/ DeleteElsewhere(j) \/ Submit(j) PROVE LogInv'
  <2>1. \A i \in Jobs : Promised(Status(i), Status(i)')
    BY <1>2, Served DEF Run, DeleteElsewhere, Submit, ServiceStep
  <2> QED BY <1>2, <1>d, <2>1, LineTypes DEF Run, DeleteElsewhere, Submit
<1>3. ASSUME NEW j \in Jobs, ReportProgress(j) PROVE LogInv'
  <2>1. \A i \in Jobs : progress'[i] \in Nat /\ progress'[i] >= progress[i]
    BY <1>3 DEF ReportProgress, TypeInv, TypeOK
  <2> QED BY <1>3, <1>d, <2>1 DEF ReportProgress, Promised, Status
<1>4. ASSUME NEW j \in Jobs,
             \/ FetchStep(j) \/ Refetch(j) \/ Collect(j) \/ ConfirmDelete(j)
      PROVE  LogInv'
  BY <1>4, <1>e DEF FetchStep, ReadJob, ReceiveJob, FetchFails, Refetch, Collect, ConfirmDelete
<1>5. ASSUME NEW j \in Jobs, Connect(j) \/ ConnectFails(j) PROVE LogInv'
  <2>1. /\ stream[j].conn = "connecting" /\ UNCHANGED <<view, progress, page, log, drops>>
        /\ stream'[j].inbox = <<>> /\ stream'[j].lastProgress = 0
    BY <1>5 DEF Connect, ConnectFails, Closed, TypeInv
  <2> QED BY <1>h, <1>i, <2>1
<1>6. ASSUME NEW j \in Jobs, Drop(j) PROVE LogInv'
  <2>1. /\ page' = j /\ log' = log /\ drops' = drops + 1 /\ page = j
        /\ stream'[j] = Pending /\ progress' = progress
    BY <1>6, <1>h DEF Drop, TypeInv
  <2>2. Lines(j)' = {} /\ stream'[j].lastProgress = 0
    BY <2>1 DEF Pending, Closed, Lines
  <2>3. Repeats' <= drops' /\ Repeats' < drops'
    <3>1. Repeats' = Repeats /\ Repeats <= drops
      BY <2>1 DEF LogInv, Repeats
    <3> QED BY <1>0, <2>1, <3>1
  <2>4. \A i \in DOMAIN log : /\ log[i].job = j /\ log[i].line <= progress[j]
                             /\ \A k \in DOMAIN log : i < k => log[i].line <= log[k].line
    BY <2>1 DEF LogInv
  <2> QED BY <1>0, <2>1, <2>2, <2>3, <2>4 DEF LogInv
<1>7. ASSUME NEW j \in Jobs, Poll(j) PROVE LogInv'
  <2>1. /\ UNCHANGED <<page, log, drops, view, progress>> /\ page = j
        /\ stream[j].conn = "open" /\ stream'[j].conn = "open"
    BY <1>7, <1>h, PollSends DEF Poll
  <2>2. stream'[j].lastProgress \in {stream[j].lastProgress, progress[j]}
    BY <1>7, PollSends
  <2>3. /\ progress[j] \in Nat /\ stream[j].lastProgress \in Nat
        /\ stream[j].lastProgress <= progress[j]
    BY <1>a, LineTypes DEF StreamFits
  <2>4. ASSUME NEW i \in DOMAIN log
        PROVE  /\ stream'[j].lastProgress # 0 => log[i].line <= stream'[j].lastProgress
               /\ \A k \in Lines(j)' : log[i].line <= Line(j, k)'
    <3>1. log[i].line <= progress[j] /\ \A k \in Lines(j) : log[i].line <= Line(j, k)
      BY <2>1 DEF LogInv
    <3>2. \A k \in Lines(j)' : log[i].line <= Line(j, k)'
      BY <1>7, <3>1, PollLines
    <3>3. stream'[j].lastProgress # 0 => log[i].line <= stream'[j].lastProgress
      BY <2>1, <2>2, <3>1 DEF LogInv
    <3> QED BY <3>2, <3>3
  <2>5. MayRepeat(j)' => MayRepeat(j)
    <3> SUFFICES ASSUME MayRepeat(j)', ~MayRepeat(j) PROVE FALSE
      OBVIOUS
    <3>1. CASE stream'[j].lastProgress = 0 /\ ~Missing(j)'
      <4>1. ~Missing(j)
        BY <2>1, <3>1 DEF Missing, Status
      <4>2. stream[j].lastProgress = 0
        BY <1>7, <2>3, <3>1, <4>1, PollSends
      <4> QED BY <2>1, <4>1, <4>2 DEF MayRepeat
    <3>2. CASE \E i \in Lines(j)', k \in DOMAIN log' : Line(j, i)' = log'[k].line
      <4>1. PICK i \in Lines(j)', k \in DOMAIN log : Line(j, i)' = log[k].line
        BY <2>1, <3>2
      <4>2. /\ Line(j, i)' = progress[j] /\ ~Missing(j)
            /\ progress[j] \notin {0, stream[j].lastProgress}
        BY <1>7, <4>1, PollLines DEF MayRepeat
      <4>3. stream[j].lastProgress # 0
        BY <2>1, <4>2 DEF MayRepeat
      <4>4. log[k].line <= stream[j].lastProgress
        BY <2>1, <4>3 DEF LogInv
      <4> QED BY <2>3, <4>1, <4>2, <4>4
    <3> QED BY <2>1, <3>1, <3>2 DEF MayRepeat
  <2> QED BY <1>c, <2>1, <2>3, <2>4, <2>5
<1>8. ASSUME NEW j \in Jobs, OnProgress(j) PROVE LogInv'
  <2> DEFINE new == [job |-> j, line |-> Head(stream[j].inbox)[2]]
  <2>1. /\ stream[j].inbox # <<>> /\ Head(stream[j].inbox)[1] = "progress"
        /\ log' = Append(log, new) /\ stream' = Rest(j)
        /\ UNCHANGED <<page, drops, view, progress>>
    BY <1>8 DEF OnProgress, Take
  <2>2. page = j /\ stream[j].conn = "open"
    BY <1>j, <2>1
  <2>3. /\ stream[j].inbox \in Seq(Event) /\ 1 \in Lines(j) /\ new.line = Line(j, 1)
        /\ stream[j].inbox[1] \in Event
    BY <2>1, LineTypes DEF Lines, Line
  <2>4. new \in [job : Jobs, line : 1 .. MaxProgress]
    BY <2>3, Events DEF Lines, Line
  <2> HIDE DEF new
  <2>5. /\ new.line \in Nat /\ new.line # 0 /\ new.line <= stream[j].lastProgress
        /\ stream[j].lastProgress <= progress[j]
        /\ stream[j].lastProgress \in Nat /\ progress[j] \in Nat
        /\ new.job = j
    BY <1>a, <2>3, LineTypes DEF StreamFits, new
  <2>6. ASSUME NEW k \in Lines(j)' PROVE new.line < Line(j, k)' /\ Line(j, k)' \in Nat
    <3>1. k + 1 \in Lines(j) /\ Line(j, k)' = Line(j, k + 1)
      BY <2>1, RestLines
    <3>2. k \in Nat /\ k # 0
      BY TypeStep DEF Lines, TypeInv, Connection
    <3> QED BY <1>a, <2>3, <3>1, <3>2, LineTypes DEF StreamFits
  <2>7. /\ Len(log') = Len(log) + 1 /\ log'[Len(log) + 1] = new
        /\ DOMAIN log = 1 .. Len(log) /\ DOMAIN log' = 1 .. Len(log) + 1 /\ Len(log) \in Nat
        /\ \A i \in DOMAIN log : log'[i] = log[i]
    BY <1>0, <2>1, <2>4
  <2>8. \A i \in DOMAIN log : log[i].line <= new.line /\ log[i].job = j
    BY <2>2, <2>3 DEF LogInv
  \* It repeats the last line, which the drop has paid for, or goes beyond it.
  <2>9. /\ Repeats' <= drops'
        /\ Repeats' \in Int
    <3>1. /\ Cardinality(ToSet(log)) \in Nat
          /\ Cardinality(ToSet(log')) = IF new \in ToSet(log) THEN Cardinality(ToSet(log))
                                        ELSE Cardinality(ToSet(log)) + 1
      BY <1>0, <2>1, <2>4, Logged, LoggedSet
    <3>2. CASE new \in ToSet(log)
      <4>1. PICK k \in DOMAIN log : log[k] = new
        BY <3>2 DEF ToSet
      <4>2. MayRepeat(j)
        BY <2>3, <4>1 DEF MayRepeat
      <4>3. Repeats < drops
        BY <2>2, <4>1, <4>2 DEF LogInv
      <4> QED BY <1>0, <2>1, <2>7, <3>1, <3>2, <4>3 DEF Repeats
    <3>3. CASE new \notin ToSet(log)
      BY <1>0, <2>1, <2>7, <3>1, <3>3 DEF Repeats, LogInv
    <3> QED BY <3>2, <3>3
  <2>10. ~MayRepeat(j)'
    <3>1. stream'[j].conn = "open" /\ stream'[j].lastProgress # 0
      BY <2>1, <2>2, <2>5, RestLines
    <3>2. \A i \in DOMAIN log' : log'[i].line <= new.line /\ log'[i].line \in Nat
      BY <1>0, <2>5, <2>7, <2>8
    <3> QED BY <2>5, <2>6, <3>1, <3>2 DEF MayRepeat
  <2>11. stream'[j].lastProgress = stream[j].lastProgress
    BY <2>1, RestLines
  <2>12. ASSUME NEW i \in DOMAIN log'
         PROVE  /\ log'[i].job = page'
                /\ log'[i].line <= progress'[page']
                /\ log'[i].line <= stream'[j].lastProgress
                /\ \A k \in Lines(j)' : log'[i].line <= Line(j, k)'
                /\ \A k \in DOMAIN log' : i < k => log'[i].line <= log'[k].line
    <3>1. log'[i].line <= new.line /\ log'[i].line \in Nat /\ log'[i].job = j
      BY <1>0, <2>5, <2>7, <2>8
    <3>2. ASSUME NEW k \in DOMAIN log', i < k PROVE log'[i].line <= log'[k].line
      BY <1>0, <2>7, <2>8, <3>1, <3>2 DEF LogInv
    <3> QED BY <2>1, <2>2, <2>5, <2>6, <2>11, <3>1, <3>2
  <2> QED BY <1>0, <2>1, <2>2, <2>9, <2>10, <2>12 DEF LogInv
<1>9. ASSUME NEW j \in Jobs, OnStatus(j) PROVE LogInv'
  <2>1. stream[j].inbox # <<>> /\ UNCHANGED <<page, log, drops, view, progress>>
    BY <1>9 DEF OnStatus, Take
  <2>2. page = j /\ stream \in [Jobs -> Connection]
    BY <1>j, <2>1 DEF TypeInv
  <2>3. CASE stream' = CloseStream
    <3>1. stream'[j] = Closed
      BY <2>2, <2>3 DEF CloseStream
    <3> QED BY <1>i, <2>1, <2>2, <3>1 DEF Closed
  <2>4. CASE stream' = Rest(j)
    BY <1>k, <2>1, <2>4
  <2> QED BY <1>9, <2>3, <2>4 DEF OnStatus
<1>10. ASSUME NEW j \in Jobs, OnError(j) PROVE LogInv'
  <2>1. stream[j].inbox # <<>> /\ UNCHANGED <<page, log, drops, view, progress>>
    BY <1>10 DEF OnError, Take
  <2>2. page = j /\ stream \in [Jobs -> Connection] /\ stream[j].inbox \in Seq(Event)
    BY <1>j, <2>1, LineTypes DEF TypeInv
  <2>3. CASE Take(j, "end") /\ stream' = [stream EXCEPT ![j] = Pending]
    <3>1. 1 \in DOMAIN stream[j].inbox /\ stream[j].inbox[1][1] = "end"
      BY <2>1, <2>2, <2>3 DEF Take
    <3>2. Missing(j)
      BY <1>a, <3>1 DEF StreamFits
    <3>3. stream'[j] = Pending
      BY <2>2, <2>3
    <3> QED BY <1>i, <2>1, <2>2, <3>2, <3>3 DEF Pending, Closed
  <2>4. CASE stream' = Rest(j)
    BY <1>k, <2>1, <2>4
  <2> QED BY <1>10, <2>3, <2>4 DEF OnError
<1>11. ASSUME NEW j \in Jobs, Submitted(j) PROVE LogInv'
  BY <1>11, <1>e, <1>f DEF Submitted
<1>12. ASSUME NEW j \in Jobs, Visit(j) PROVE LogInv'
  BY <1>12, <1>f DEF Visit
<1>13. ASSUME NEW j \in Jobs, Delete(j) PROVE LogInv'
  <2>1. CASE Service!Delete(j)
    <3>1. \A i \in Jobs : Promised(Status(i), Status(i)')
      BY <2>1, Served DEF ServiceStep
    <3> QED BY <1>13, <1>d, <3>1, LineTypes DEF Delete
  <2>2. CASE ~Service!Delete(j)
    BY <1>13, <1>e, <2>2 DEF Delete
  <2> QED BY <2>1, <2>2
<1>14. ASSUME NEW j \in Jobs, Deleted(j) PROVE LogInv'
  BY <1>14, <1>e, <1>g DEF Deleted
<1>15. CASE UNCHANGED vars
  BY <1>15, <1>e DEF vars
<1> QED BY <1>1, <1>2, <1>3, <1>4, <1>5, <1>6, <1>7, <1>8, <1>9, <1>10, <1>11, <1>12, <1>13,
           <1>14, <1>15 DEF Next, OnEvent

LEMMA LogInit == Init => LogInv
BY RepeatsOfNothing DEF Init, LogInv, Repeats

\* The progress a page shows is that of its job, in the order it was made, from a
\* stream that ends with the page; a line is repeated only where a broken connection
\* made the generator of stream_job start over.
THEOREM LogFollows == Spec => []LogFollowsTheJob
<1>1. TypeInv /\ StreamInv /\ LogInv => LogFollowsTheJob
  <2> SUFFICES ASSUME TypeInv, StreamInv, LogInv PROVE LogFollowsTheJob
    OBVIOUS
  <2>1. \A j \in Jobs : stream[j].conn \in {"connecting", "open"} => page = j
    BY DEF StreamInv, StreamFits, Closed
  <2>2. log # <<>> => Last(log).line <= progress[page]
    <3>1. log \in Seq([job : Jobs, line : 1 .. MaxProgress])
      BY DEF TypeInv, TypeOK
    <3> QED BY <3>1 DEF LogInv, Last
  <2> QED BY <2>1, <2>2 DEF LogFollowsTheJob, LogInv, Repeats
<1>2. TypeInv /\ DeletionInv /\ StreamInv /\ [Next]_vars => StreamInv'
  BY StreamStep
<1>3. TypeInv /\ DeletionInv /\ StreamInv /\ LogInv /\ [Next]_vars => LogInv'
  BY LogStep
<1> QED BY <1>1, <1>2, <1>3, StreamInit, LogInit, TypeInvariant, DeletionInvariant, PTL DEF Spec

=============================================================================
