---------------------- MODULE WorkspaceSubdomainProofs ----------------------
(***************************************************************************)
(* Proofs about WorkspaceSubdomain for any number of workspaces, names,    *)
(* records and handlers and any limit.  The inductive invariant says what  *)
(* a handler knows of its row while no second handler of the workspace     *)
(* interferes, that the ids of records never pass from one workspace to    *)
(* another, and which handlers are past the uniqueness check.              *)
(***************************************************************************)
EXTENDS WorkspaceSubdomain, FiniteSetTheorems, TLAPS

USE NullsAssumption

USE DEF history

-----------------------------------------------------------------------------
(* The inductive invariant *)

\* What each kind of handler remembers at each of its steps.
JobsInForm ==
    \A j \in Jobs :
        /\ jobs[j].kind = "none" => jobs[j] = NoJob
        /\ jobs[j].kind \in Kinds => jobs[j].ws \in Workspaces /\ jobs[j].pc # "idle"
        /\ jobs[j].kind \in {"create", "on"} /\ jobs[j].pc # "write" =>
              jobs[j].rec = NoRecord /\ jobs[j].sub \in Names
        /\ jobs[j].kind = "on" /\ jobs[j].pc = "write" => jobs[j].rec # NoRecord
        /\ jobs[j].kind = "rename" =>
              /\ jobs[j].sub \in Names /\ jobs[j].pc # "count"
              /\ jobs[j].pc # "write" => jobs[j].rec # NoRecord
        /\ jobs[j].kind \in {"off", "remove", "delete"} =>
              /\ jobs[j].pc \in {"dns", "write"}
              /\ jobs[j].pc = "dns" => jobs[j].rec # NoRecord

\* The id of a record is known to one workspace only: to its row and to its handlers.
RecordsArePrivate ==
    /\ \A v, w \in Workspaces : row[v].rec # NoRecord /\ row[v].rec = row[w].rec => v = w
    /\ \A w \in Workspaces, j \in Jobs :
          row[w].rec # NoRecord /\ row[w].rec = jobs[j].rec => jobs[j].ws = w
    /\ \A i, j \in Jobs :
          jobs[i].rec # NoRecord /\ jobs[i].rec = jobs[j].rec => jobs[i].ws = jobs[j].ws

\* The row as handler j of an undisturbed workspace found it.
SeesRow(j) ==
    LET w == jobs[j].ws IN
    /\ jobs[j].kind = "create" => row[w] = NoRow
    /\ jobs[j].kind # "create" => IsLive(w)
    /\ jobs[j].kind = "on" => row[w].sub = jobs[j].sub /\ row[w].rec = NoRecord
    /\ jobs[j].kind = "rename" => jobs[j].rec = row[w].rec
    /\ jobs[j].kind \in {"off", "remove", "delete"} => jobs[j].rec = row[w].rec

\* A workspace that no two handlers and no lost answer have disturbed has one handler at
\* a time, which works on the row as it found it; its subdomain is active exactly if its
\* row names a record.
Undisturbed(w) ==
    /\ \A i, j \in Jobs : jobs[i].ws = w /\ jobs[j].ws = w => i = j
    /\ \A j \in Jobs : jobs[j].ws = w => SeesRow(j)
    /\ row[w].active <=> row[w].rec # NoRecord
    /\ row[w].state # "live" => row[w].rec = NoRecord

UndisturbedRows == \A w \in Workspaces : ~muddled[w] => Undisturbed(w)

\* What a handler has done at Cloudflare before it writes its row.
ZoneAhead(j) ==
    jobs[j].pc = "write" /\ jobs[j].rec # NoRecord =>
        IF jobs[j].kind \in {"off", "remove", "delete"}
        THEN zone[jobs[j].rec] = NoName \/ jobs[j].rec \in dropped
        ELSE zone[jobs[j].rec] = jobs[j].sub \/ muddled[jobs[j].ws]

ZoneIsAhead == \A j \in Jobs : ZoneAhead(j)

\* An active row of an undisturbed workspace is behind the zone only while its handler is
\* about to write.
RowFollowsZone ==
    \A w \in Workspaces : row[w].active /\ ~muddled[w] =>
        \/ zone[row[w].rec] = row[w].sub
        \/ \E j \in Jobs : jobs[j].ws = w /\ jobs[j].pc = "write"

\* A record at Cloudflare belongs to the workspace it was made for.
Owned(r) ==
    /\ maker[r] \in Workspaces
    /\ \/ IsLive(maker[r]) /\ row[maker[r]].rec = r
       \/ \E j \in Jobs : jobs[j].ws = maker[r] /\ Holds(j, r)
       \/ r \in dropped
       \/ muddled[maker[r]]

MakerOwns == \A r \in Records : zone[r] # NoName => Owned(r)

\* Past the uniqueness check.
Passed(j) ==
    /\ jobs[j].kind \in {"create", "on", "rename"}
    /\ jobs[j].pc = "dns" \/ (jobs[j].pc = "write" /\ jobs[j].rec # NoRecord)

\* Nobody has taken the subdomain of a handler that is past the check, unless somebody
\* else was past it at the same time.
ChecksHold ==
    \A j \in Jobs : Passed(j) /\ jobs[j].sub \notin contested =>
        /\ \A i \in Jobs : Passed(i) /\ jobs[i].sub = jobs[j].sub => i = j
        /\ \A v \in ActiveRows :
              v # jobs[j].ws /\ row[v].sub = jobs[j].sub => muddled[v] \/ muddled[jobs[j].ws]

-----------------------------------------------------------------------------
(* How a handler starts *)

\* What the five handlers have in common when they take slot j: the job matches the row
\* of w, with every column it is going to rely on.
Starts(j, w, job) ==
    /\ Start(j, job)
    /\ UNCHANGED <<row, zone, maker, dropped, contested>>
    /\ job.ws = w /\ job.kind \in Kinds
    /\ IF job.kind = "create"
       THEN /\ row[w] = NoRow /\ job.rec = NoRecord
            /\ IF job.sub = NoName THEN job.pc = "write" ELSE job.pc = "count"
       ELSE IsLive(w)
    /\ job.kind = "on" =>
          /\ job.pc = "count" /\ job.rec = NoRecord /\ ~row[w].active
          /\ job.sub = row[w].sub /\ job.sub # NoName
    /\ job.kind = "rename" =>
          /\ job.sub # NoName
          /\ IF row[w].active /\ row[w].rec # NoRecord
             THEN job.pc = "taken" /\ job.rec = row[w].rec
             ELSE job.pc = "write" /\ job.rec = NoRecord
    /\ job.kind \in {"off", "remove", "delete"} =>
          /\ job.rec = row[w].rec
          /\ job.pc = IF job.rec = NoRecord THEN "write" ELSE "dns"

\* Every handler starts like that.
LEMMA BeginStarts ==
  ASSUME TypeOK, NEW j \in Jobs, Begin(j)
  PROVE  \E w \in Workspaces, job \in Job : Starts(j, w, job)
<1>. USE DEF Starts, NewJob, Job, Kinds, TypeOK, Row, IsLive
<1>1. ASSUME NEW w \in Workspaces, NEW x \in Names \cup {NoName}, handleCreateWorkspace(j, w, x)
      PROVE  \E job \in Job : Starts(j, w, job)
  <2>. WITNESS NewJob("create", IF x = NoName THEN "write" ELSE "count", w, x, NoRecord) \in Job
  <2>. QED
    BY <1>1 DEF handleCreateWorkspace
<1>2. ASSUME NEW w \in Workspaces, NEW active \in BOOLEAN,
             handleToggleWorkspaceSubdomain(j, w, active)
      PROVE  \E job \in Job : Starts(j, w, job)
  <2>1. CASE active
    <3>. WITNESS NewJob("on", "count", w, row[w].sub, NoRecord) \in Job
    <3>. QED
      BY <1>2, <2>1 DEF handleToggleWorkspaceSubdomain
  <2>2. CASE ~active
    <3>. WITNESS NewJob("off", IF row[w].rec = NoRecord THEN "write" ELSE "dns", w, NoName,
                        row[w].rec) \in Job
    <3>. QED
      BY <1>2, <2>2 DEF handleToggleWorkspaceSubdomain
  <2>. QED
    BY <2>1, <2>2
<1>3. ASSUME NEW w \in Workspaces, NEW x \in Names, handleUpdateWorkspaceSubdomain(j, w, x)
      PROVE  \E job \in Job : Starts(j, w, job)
  <2>1. CASE row[w].active /\ row[w].rec # NoRecord
    <3>. WITNESS NewJob("rename", "taken", w, x, row[w].rec) \in Job
    <3>. QED
      BY <1>3, <2>1 DEF handleUpdateWorkspaceSubdomain
  <2>2. CASE ~(row[w].active /\ row[w].rec # NoRecord)
    <3>. WITNESS NewJob("rename", "write", w, x, NoRecord) \in Job
    <3>. QED
      BY <1>3, <2>2 DEF handleUpdateWorkspaceSubdomain
  <2>. QED
    BY <2>1, <2>2
<1>4. ASSUME NEW w \in Workspaces, RemoveSubdomain(j, w)
      PROVE  \E job \in Job : Starts(j, w, job)
  <2>. WITNESS NewJob("remove", IF row[w].rec = NoRecord THEN "write" ELSE "dns", w, NoName,
                      row[w].rec) \in Job
  <2>. QED
    BY <1>4 DEF RemoveSubdomain
<1>5. ASSUME NEW w \in Workspaces, handleDeleteWorkspace(j, w)
      PROVE  \E job \in Job : Starts(j, w, job)
  <2>. WITNESS NewJob("delete", IF row[w].rec = NoRecord THEN "write" ELSE "dns", w, NoName,
                      row[w].rec) \in Job
  <2>. QED
    BY <1>5 DEF handleDeleteWorkspace
<1>. QED
  BY <1>1, <1>2, <1>3, <1>4, <1>5 DEF Begin

\* A started handler leaves slots and marks well typed.
LEMMA StartTyped ==
  ASSUME TypeOK, NEW j \in Jobs, NEW job \in Job, job.ws \in Workspaces, Start(j, job)
  PROVE  jobs' \in [Jobs -> Job] /\ muddled' \in [Workspaces -> BOOLEAN]
<1>1. jobs' \in [Jobs -> Job]
  BY DEF Start, TypeOK
<1>2. muddled' = [muddled EXCEPT ![job.ws] = muddled[job.ws] \/ \E i \in Jobs : jobs[i].ws = job.ws]
  BY DEF Start
<1>3. (muddled[job.ws] \/ \E i \in Jobs : jobs[i].ws = job.ws) \in BOOLEAN
  OBVIOUS
<1>. QED
  BY <1>1, <1>2, <1>3 DEF TypeOK

\* A handler that goes on or ends leaves the slots well typed.
LEMMA GoOnTyped ==
  ASSUME TypeOK, NEW j \in Jobs,
         Finish(j) \/ \E pc \in {"count", "taken", "dns", "write"} : Goto(j, pc)
  PROVE  jobs' \in [Jobs -> Job]
BY DEF Finish, Goto, Job, NoJob, TypeOK

\* Each update is a row of the table.
LEMMA UpdatedTyped ==
  ASSUME TypeOK, NEW j \in Jobs, jobs[j].kind \in Kinds, NEW w \in Workspaces
  PROVE  Updated(w, jobs[j]) \in Row
<1>1. jobs[j].sub \in Names \cup {NoName} /\ jobs[j].rec \in Records \cup {NoRecord}
  BY DEF TypeOK, Job
<1>2. row[w] \in Row
  BY DEF TypeOK
<1>. QED
  BY <1>1, <1>2 DEF Updated, Kinds, Row

-----------------------------------------------------------------------------
(* How a handler goes on *)

\* Handler j moves to another step or ends; nobody else moves.
GoesOn(j) ==
    /\ \A i \in Jobs : i # j => jobs'[i] = jobs[i]
    /\ \/ jobs'[j] = NoJob
       \/ /\ jobs'[j].kind = jobs[j].kind /\ jobs'[j].ws = jobs[j].ws
          /\ jobs'[j].sub = jobs[j].sub /\ jobs'[j].rec = jobs[j].rec

\* It does so without writing a row, and a mark once set stays.
Quiet(j) ==
    /\ GoesOn(j)
    /\ UNCHANGED row
    /\ \A w \in Workspaces : muddled[w] => muddled'[w]

\* Whoever goes to a next step or finishes goes on.
LEMMA GoOn ==
  ASSUME TypeOK, NEW j \in Jobs, Finish(j) \/ \E pc : Goto(j, pc)
  PROVE  GoesOn(j)
BY DEF Finish, Goto, Job, TypeOK, GoesOn

\* Checks, refusals, renamed and deleted records, and a write that fails.
LEMMA QuietActions ==
  ASSUME TypeOK, NEW j \in Jobs,
         \/ CountCheck(j) \/ TakenCheck(j) \/ WriteFails(j)
         \/ \E answered \in BOOLEAN : updateDnsRecord(j, answered) \/ deleteDnsRecord(j, answered)
         \/ \E r \in Records : createDnsRecord(j, r, FALSE)
         \/ CreateRefused(j) \/ UpdateRefused(j) \/ DeleteRefused(j)
  PROVE  Quiet(j)
<1>1. GoesOn(j)
  BY GoOn
  DEF CountCheck, TakenCheck, WriteFails, updateDnsRecord, deleteDnsRecord,
      createDnsRecord, CreateRefused, UpdateRefused, DeleteRefused, Refuse
<1>2. UNCHANGED row
  BY DEF CountCheck, TakenCheck, WriteFails, updateDnsRecord, deleteDnsRecord,
     createDnsRecord, CreateRefused, UpdateRefused, DeleteRefused
<1>3. ASSUME NEW w \in Workspaces, muddled[w] PROVE muddled'[w]
  BY <1>3
  DEF CountCheck, TakenCheck, WriteFails, updateDnsRecord, deleteDnsRecord,
      createDnsRecord, CreateRefused, UpdateRefused, DeleteRefused, TypeOK
<1>. QED
  BY <1>1, <1>2, <1>3 DEF Quiet

\* Handler j gets the new record r.
Makes(j, r) ==
    /\ \A i \in Jobs : i # j => jobs'[i] = jobs[i]
    /\ jobs' \in [Jobs -> Job]
    /\ jobs[j].kind \in {"create", "on"} /\ jobs[j].pc = "dns"
    /\ jobs'[j].kind = jobs[j].kind /\ jobs'[j].ws = jobs[j].ws /\ jobs'[j].sub = jobs[j].sub
    /\ jobs'[j].rec = r /\ jobs'[j].pc = "write"
    /\ r \in FreshRecords
    /\ zone' = [zone EXCEPT ![r] = jobs[j].sub] /\ maker' = [maker EXCEPT ![r] = jobs[j].ws]
    /\ dropped' = dropped \ {r}
    /\ UNCHANGED <<row, muddled, contested>>

\* Cloudflare's answer to a creation arrives.
LEMMA RecordMade ==
  ASSUME TypeOK, NEW j \in Jobs, NEW r \in Records, createDnsRecord(j, r, TRUE)
  PROVE  Makes(j, r)
<1> DEFINE made == [jobs[j] EXCEPT !.pc = "write", !.rec = r]
<1>1. jobs[j] \in Job /\ jobs' = [jobs EXCEPT ![j] = made]
  BY DEF createDnsRecord, TypeOK
<1>2. /\ made \in Job
      /\ made.kind = jobs[j].kind /\ made.ws = jobs[j].ws /\ made.sub = jobs[j].sub
      /\ made.pc = "write" /\ made.rec = r
  BY <1>1 DEF Job
<1>. HIDE DEF made
<1>3. /\ jobs' \in [Jobs -> Job]
      /\ jobs'[j] = made
      /\ \A i \in Jobs : i # j => jobs'[i] = jobs[i]
  BY <1>1, <1>2 DEF TypeOK
<1>. QED
  BY <1>2, <1>3 DEF createDnsRecord, At, Makes

-----------------------------------------------------------------------------
(* Preservation *)

\* Every handler keeps the rows, the zone and the slots well typed.
LEMMA TypeStep == TypeOK /\ JobsInForm /\ [Next]_vars => TypeOK'
<1> SUFFICES ASSUME TypeOK, JobsInForm, [Next]_vars PROVE TypeOK'
  OBVIOUS
<1>1. ASSUME NEW j \in Jobs, NEW w \in Workspaces, NEW job \in Job, Starts(j, w, job)
      PROVE  TypeOK'
  BY <1>1, StartTyped DEF Starts, TypeOK
<1>2. ASSUME NEW j \in Jobs, CountCheck(j) PROVE TypeOK'
  <2>1. jobs' \in [Jobs -> Job]
    BY <1>2, GoOnTyped DEF CountCheck, Refuse
  <2>2. jobs[j] \in Job
    BY DEF TypeOK
  <2>. QED
    BY <1>2, <2>1, <2>2 DEF CountCheck, TypeOK, Job, At
<1>3. ASSUME NEW j \in Jobs, TakenCheck(j) PROVE TypeOK'
  <2>1. jobs' \in [Jobs -> Job]
    BY <1>3, GoOnTyped DEF TakenCheck, Refuse
  <2>2. jobs[j] \in Job
    BY DEF TypeOK
  <2>3. jobs[j].sub \in Names
    BY <1>3, <2>2 DEF TakenCheck, At, JobsInForm, Job
  <2>. QED
    BY <1>3, <2>1, <2>2, <2>3 DEF TakenCheck, TypeOK, Job, At
<1>4. ASSUME NEW j \in Jobs, NEW r \in Records, NEW answered \in BOOLEAN,
             createDnsRecord(j, r, answered)
      PROVE  TypeOK'
  <2>1. jobs' \in [Jobs -> Job]
    <3>1. CASE answered
      BY <1>4, <3>1, RecordMade DEF Makes
    <3>2. CASE ~answered
      BY <1>4, <3>2, GoOnTyped DEF createDnsRecord, Refuse
    <3>. QED
      BY <3>1, <3>2
  <2>2. jobs[j].ws \in Workspaces \cup {NoWorkspace} /\ jobs[j].sub \in Names \cup {NoName}
    BY DEF TypeOK, Job
  <2>3. maker' \in [Records -> Workspaces \cup {NoWorkspace}] /\ zone' \in [Records -> Names \cup {NoName}]
    BY <1>4, <2>2 DEF createDnsRecord, TypeOK
  <2>4. dropped' \in SUBSET Records
    BY <1>4 DEF createDnsRecord, TypeOK
  <2>. QED
    BY <1>4, <2>1, <2>3, <2>4 DEF createDnsRecord, TypeOK
<1>5. ASSUME NEW j \in Jobs, NEW answered \in BOOLEAN, updateDnsRecord(j, answered)
      PROVE  TypeOK'
  <2>1. jobs' \in [Jobs -> Job]
    BY <1>5, GoOnTyped DEF updateDnsRecord, Refuse
  <2>2. jobs[j] \in Job
    BY DEF TypeOK
  <2>. QED
    BY <1>5, <2>1, <2>2 DEF updateDnsRecord, TypeOK, Job, At
<1>6. ASSUME NEW j \in Jobs, NEW answered \in BOOLEAN, deleteDnsRecord(j, answered)
      PROVE  TypeOK'
  <2>1. jobs' \in [Jobs -> Job]
    BY <1>6, GoOnTyped DEF deleteDnsRecord, Refuse
  <2>2. jobs[j] \in Job
    BY DEF TypeOK
  <2>. QED
    BY <1>6, <2>1, <2>2 DEF deleteDnsRecord, TypeOK, Job, At
<1>7. ASSUME NEW j \in Jobs, CreateRefused(j) PROVE TypeOK'
  <2>1. jobs' \in [Jobs -> Job]
    BY <1>7, GoOnTyped DEF CreateRefused, Refuse
  <2>2. jobs[j] \in Job
    BY DEF TypeOK
  <2>. QED
    BY <1>7, <2>1, <2>2 DEF CreateRefused, TypeOK, Job
<1>8. ASSUME NEW j \in Jobs, UpdateRefused(j) PROVE TypeOK'
  <2>1. jobs' \in [Jobs -> Job]
    BY <1>8, GoOnTyped DEF UpdateRefused, Refuse
  <2>2. jobs[j] \in Job
    BY DEF TypeOK
  <2>. QED
    BY <1>8, <2>1, <2>2 DEF UpdateRefused, TypeOK, Job
<1>9. ASSUME NEW j \in Jobs, DeleteRefused(j) PROVE TypeOK'
  <2>1. jobs' \in [Jobs -> Job]
    BY <1>9, GoOnTyped DEF DeleteRefused, Refuse
  <2>2. jobs[j] \in Job
    BY DEF TypeOK
  <2>3. jobs[j].rec \in Records
    BY <1>9, <2>2 DEF DeleteRefused, At, JobsInForm, Job
  <2>. QED
    BY <1>9, <2>1, <2>2, <2>3 DEF DeleteRefused, TypeOK, Job
<1>10. ASSUME NEW j \in Jobs, WriteRow(j) PROVE TypeOK'
  <2>1. jobs' \in [Jobs -> Job]
    BY <1>10, GoOnTyped DEF WriteRow
  <2>2. jobs[j].kind \in Kinds
    BY <1>10 DEF WriteRow, At
  <2>3. \A w \in Workspaces : Updated(w, jobs[j]) \in Row
    BY <2>2, UpdatedTyped
  <2>4. row' \in [Workspaces -> Row]
    BY <1>10, <2>3 DEF WriteRow, TypeOK
  <2>. QED
    BY <1>10, <2>1, <2>4 DEF WriteRow, TypeOK
<1>11. ASSUME NEW j \in Jobs, WriteFails(j) PROVE TypeOK'
  <2>1. jobs' \in [Jobs -> Job]
    BY <1>11, GoOnTyped DEF WriteFails
  <2>2. dropped' \in SUBSET Records
    BY <1>11 DEF WriteFails, TypeOK
  <2>3. muddled' \in [Workspaces -> BOOLEAN]
    <3>1. (muddled[jobs[j].ws] \/ jobs[j].kind # "create") \in BOOLEAN
      OBVIOUS
    <3>. QED
      BY <1>11, <3>1 DEF WriteFails, TypeOK
  <2>. QED
    BY <1>11, <2>1, <2>2, <2>3 DEF WriteFails, TypeOK
<1>12. ASSUME UNCHANGED vars PROVE TypeOK'
  BY <1>12 DEF vars, TypeOK, Row, Job, Kinds, NoJob, NoRow
<1>. QED
  BY BeginStarts, <1>1, <1>2, <1>3, <1>4, <1>5, <1>6, <1>7, <1>8, <1>9, <1>10, <1>11,
     <1>12
  DEF Next, Cloudflare

\* Every handler remembers what its next step needs.
LEMMA FormStep == TypeOK /\ JobsInForm /\ [Next]_vars => JobsInForm'
<1> SUFFICES ASSUME TypeOK, JobsInForm, [Next]_vars PROVE JobsInForm'
  OBVIOUS
<1>1. ASSUME NEW j \in Jobs, NEW w \in Workspaces, NEW job \in Job, Starts(j, w, job)
      PROVE  JobsInForm'
  BY <1>1 DEF Starts, Start, IsLive, TypeOK, JobsInForm, Job, Kinds, NoJob
<1>2. ASSUME NEW j \in Jobs, CountCheck(j) PROVE JobsInForm'
  BY <1>2 DEF CountCheck, At, Goto, Refuse, Finish, TypeOK, JobsInForm, Job, Kinds, NoJob
<1>3. ASSUME NEW j \in Jobs, TakenCheck(j) PROVE JobsInForm'
  BY <1>3 DEF TakenCheck, At, Goto, Refuse, Finish, TypeOK, JobsInForm, Job, Kinds, NoJob
<1>4. ASSUME NEW j \in Jobs, NEW r \in Records, NEW answered \in BOOLEAN,
             createDnsRecord(j, r, answered)
      PROVE  JobsInForm'
  <2>1. CASE answered
    <3>1. Makes(j, r)
      BY <1>4, <2>1, RecordMade
    <3>2. jobs[j].ws \in Workspaces /\ jobs[j].sub \in Names
      BY <3>1 DEF Makes, JobsInForm, Kinds
    <3>. QED
      BY <3>1, <3>2 DEF Makes, JobsInForm, Kinds
  <2>2. CASE ~answered
    BY <1>4, <2>2
    DEF createDnsRecord, At, Goto, Refuse, Finish, TypeOK, JobsInForm, Job, Kinds, NoJob
  <2>. QED
    BY <2>1, <2>2
<1>5. ASSUME NEW j \in Jobs, NEW answered \in BOOLEAN, updateDnsRecord(j, answered)
      PROVE  JobsInForm'
  BY <1>5 DEF updateDnsRecord, At, Goto, Finish, TypeOK, JobsInForm, Job, Kinds, NoJob
<1>6. ASSUME NEW j \in Jobs, NEW answered \in BOOLEAN, deleteDnsRecord(j, answered)
      PROVE  JobsInForm'
  BY <1>6 DEF deleteDnsRecord, At, Goto, Finish, TypeOK, JobsInForm, Job, Kinds, NoJob
<1>7. ASSUME NEW j \in Jobs, CreateRefused(j) PROVE JobsInForm'
  BY <1>7 DEF CreateRefused, At, Goto, Refuse, Finish, TypeOK, JobsInForm, Job, Kinds, NoJob
<1>8. ASSUME NEW j \in Jobs, UpdateRefused(j) PROVE JobsInForm'
  BY <1>8 DEF UpdateRefused, At, Finish, TypeOK, JobsInForm, Job, Kinds, NoJob
<1>9. ASSUME NEW j \in Jobs, DeleteRefused(j) PROVE JobsInForm'
  BY <1>9 DEF DeleteRefused, At, Goto, Finish, TypeOK, JobsInForm, Job, Kinds, NoJob
<1>10. ASSUME NEW j \in Jobs, WriteRow(j) PROVE JobsInForm'
  BY <1>10 DEF WriteRow, At, Finish, Updated, IsLive, TypeOK, JobsInForm, Job, Kinds, NoJob
<1>11. ASSUME NEW j \in Jobs, WriteFails(j) PROVE JobsInForm'
  BY <1>11 DEF WriteFails, At, Finish, TypeOK, JobsInForm, Job, Kinds, NoJob
<1>12. ASSUME UNCHANGED vars PROVE JobsInForm'
  BY <1>12 DEF vars, TypeOK, JobsInForm, Job, Kinds, NoJob
<1>. QED
  BY BeginStarts, <1>1, <1>2, <1>3, <1>4, <1>5, <1>6, <1>7, <1>8, <1>9, <1>10, <1>11,
     <1>12
  DEF Next, Cloudflare

\* A new record is unknown to everybody, and a known id moves between a row and the
\* handlers of its own workspace only.
LEMMA PrivateStep ==
  TypeOK /\ JobsInForm /\ RecordsArePrivate /\ [Next]_vars
    => RecordsArePrivate'
<1> SUFFICES ASSUME TypeOK, JobsInForm, RecordsArePrivate, [Next]_vars
             PROVE  RecordsArePrivate'
  OBVIOUS
<1>1. ASSUME NEW j \in Jobs, NEW w \in Workspaces, NEW job \in Job, Starts(j, w, job)
      PROVE  RecordsArePrivate'
  BY <1>1 DEF Starts, Start, TypeOK, RecordsArePrivate, Kinds
<1>2. ASSUME NEW j \in Jobs, Quiet(j) PROVE RecordsArePrivate'
  BY <1>2 DEF Quiet, GoesOn, NoJob, RecordsArePrivate
<1>3. ASSUME NEW j \in Jobs, NEW r \in Records, Makes(j, r)
      PROVE  RecordsArePrivate'
  BY <1>3 DEF Makes, FreshRecords, Holds, RecordsArePrivate
<1>4. ASSUME NEW j \in Jobs, WriteRow(j) PROVE RecordsArePrivate'
  BY <1>4
  DEF WriteRow, At, Finish, Updated, IsLive, TypeOK, Job, Row, Kinds, NoJob, NoRow,
      RecordsArePrivate, JobsInForm
<1>5. ASSUME UNCHANGED vars PROVE RecordsArePrivate'
  BY <1>5 DEF vars, RecordsArePrivate
<1>. QED
  BY <1>1, <1>2, <1>3, <1>4, <1>5, BeginStarts, QuietActions, RecordMade
  DEF Next, Cloudflare

\* While no second handler starts and no answer is lost, the row a handler relies on is
\* the one it read, and its own write keeps the row and its record in step.
LEMMA UndisturbedStep ==
  TypeOK /\ JobsInForm /\ UndisturbedRows /\ [Next]_vars
    => UndisturbedRows'
<1> SUFFICES ASSUME TypeOK, JobsInForm, UndisturbedRows, [Next]_vars PROVE UndisturbedRows'
  OBVIOUS
<1>1. ASSUME NEW j \in Jobs, NEW w \in Workspaces, NEW job \in Job, Starts(j, w, job)
      PROVE  UndisturbedRows'
  <2>. SUFFICES ASSUME NEW v \in Workspaces, ~muddled'[v] PROVE Undisturbed(v)'
    BY DEF UndisturbedRows
  <2>1. ~muddled[v] /\ (v = w => \A i \in Jobs : jobs[i].ws # w)
    <3>1. CASE v = w
      <4>1. muddled'[w] = (muddled[w] \/ \E i \in Jobs : jobs[i].ws = w)
        BY <1>1 DEF Starts, Start, TypeOK
      <4>. QED
        BY <3>1, <4>1
    <3>2. CASE v # w
      BY <1>1, <3>2 DEF Starts, Start, TypeOK
    <3>. QED
      BY <3>1, <3>2
  <2>2. Undisturbed(v) /\ row' = row
    BY <1>1, <2>1 DEF UndisturbedRows, Starts
  <2>3. jobs'[j] = job /\ \A i \in Jobs : i # j => jobs'[i] = jobs[i]
    BY <1>1 DEF Starts, Start, TypeOK
  <2>4. jobs[j] = NoJob
    BY <1>1 DEF Starts, Start
  <2>5. ASSUME NEW i \in Jobs, jobs'[i].ws = v PROVE SeesRow(i)'
    <3>1. CASE i = j
      <4>1. v = w /\ jobs'[i] = job
        BY <1>1, <2>3, <2>5, <3>1 DEF Starts
      <4>. QED
        BY <1>1, <2>2, <4>1 DEF Starts, SeesRow, IsLive, Undisturbed, Kinds, NoRow
    <3>2. CASE i # j
      BY <2>2, <2>3, <2>5, <3>2 DEF Undisturbed, SeesRow, IsLive
    <3>. QED
      BY <3>1, <3>2
  <2>6. ASSUME NEW i \in Jobs, NEW k \in Jobs, jobs'[i].ws = v, jobs'[k].ws = v PROVE i = k
    BY <1>1, <2>1, <2>2, <2>3, <2>6 DEF Undisturbed, Starts
  <2>. QED
    BY <2>2, <2>5, <2>6 DEF Undisturbed
<1>2. ASSUME NEW j \in Jobs, Quiet(j) PROVE UndisturbedRows'
  BY <1>2 DEF Quiet, GoesOn, NoJob, UndisturbedRows, Undisturbed, SeesRow, IsLive
<1>3. ASSUME NEW j \in Jobs, NEW r \in Records, Makes(j, r)
      PROVE  UndisturbedRows'
  BY <1>3 DEF Makes, UndisturbedRows, Undisturbed, SeesRow, IsLive
<1>4. ASSUME NEW j \in Jobs, WriteRow(j) PROVE UndisturbedRows'
  <2>. SUFFICES ASSUME NEW w \in Workspaces, ~muddled'[w] PROVE Undisturbed(w)'
    BY DEF UndisturbedRows
  <2>1. Undisturbed(w)
    BY <1>4 DEF WriteRow, history, UndisturbedRows
  <2>2. jobs'[j] = NoJob /\ \A i \in Jobs : i # j => jobs'[i] = jobs[i]
    BY <1>4 DEF WriteRow, Finish, TypeOK
  <2>3. CASE jobs[j].ws # w
    <3>1. row'[w] = row[w]
      BY <1>4, <2>3 DEF WriteRow, TypeOK
    <3>. QED
      BY <2>1, <2>2, <3>1 DEF Undisturbed, SeesRow, IsLive, NoJob
  <2>4. CASE jobs[j].ws = w
    <3>1. \A i \in Jobs : jobs'[i].ws # w
      BY <2>1, <2>2, <2>4 DEF Undisturbed, NoJob
    <3>2. SeesRow(j) /\ jobs[j].kind \in Kinds /\ (jobs[j].kind = "on" => jobs[j].rec # NoRecord)
      BY <1>4, <2>1, <2>4 DEF Undisturbed, WriteRow, At, JobsInForm
    <3>3. row'[w] = Updated(w, jobs[j])
      BY <1>4, <2>4, <3>2 DEF WriteRow, TypeOK, SeesRow
    <3>4. row[w] \in Row
      BY DEF TypeOK
    <3>5. /\ row'[w].active <=> row'[w].rec # NoRecord
          /\ row'[w].state # "live" => row'[w].rec = NoRecord
      <4>1. row[w].active <=> row[w].rec # NoRecord
        BY <2>1 DEF Undisturbed
      <4>2. jobs[j].kind # "create" => row[w].state = "live"
        BY <2>4, <3>2 DEF SeesRow, IsLive
      <4>3. CASE jobs[j].kind = "create"
        <5>1. /\ row'[w].active = (jobs[j].rec # NoRecord)
              /\ row'[w].rec = jobs[j].rec /\ row'[w].state = "live"
          BY <3>3, <4>3 DEF Updated
        <5>. QED
          BY <5>1
      <4>on. CASE jobs[j].kind = "on"
        <5>1. row'[w] = [row[w] EXCEPT !.active = TRUE, !.rec = jobs[j].rec]
          BY <3>3, <4>on DEF Updated
        <5>2. row'[w].active = TRUE /\ row'[w].rec = jobs[j].rec /\ row'[w].state = row[w].state
          BY <3>4, <5>1 DEF Row
        <5>. QED
          BY <3>2, <4>2, <4>on, <5>2
      <4>4. CASE jobs[j].kind \in {"off", "remove", "delete"}
        BY <3>3, <3>4, <4>4 DEF Updated, Row
      <4>5. CASE jobs[j].kind = "rename"
        <5>1. row'[w] = [row[w] EXCEPT !.sub = jobs[j].sub]
          BY <3>3, <4>5 DEF Updated
        <5>2. row'[w].active = row[w].active /\ row'[w].rec = row[w].rec /\ row'[w].state = row[w].state
          BY <3>4, <5>1 DEF Row
        <5>. QED
          BY <4>1, <4>2, <4>5, <5>2
      <4>. QED
        BY <3>2, <4>3, <4>on, <4>4, <4>5 DEF Kinds
    <3>. QED
      BY <3>1, <3>5 DEF Undisturbed
  <2>. QED
    BY <2>3, <2>4
<1>5. ASSUME UNCHANGED vars PROVE UndisturbedRows'
  BY <1>5 DEF vars, UndisturbedRows, Undisturbed, SeesRow, IsLive
<1>. QED
  BY <1>1, <1>2, <1>3, <1>4, <1>5, BeginStarts, QuietActions, RecordMade
  DEF Next, Cloudflare

\* Cloudflare's answer puts the zone ahead of the row, and until the row is written only a
\* handler of the same workspace can change that record again.
LEMMA ZoneStep ==
  TypeOK /\ JobsInForm /\ RecordsArePrivate /\ UndisturbedRows /\ ZoneIsAhead /\ [Next]_vars
    => ZoneIsAhead'
<1> SUFFICES ASSUME TypeOK, JobsInForm, RecordsArePrivate, UndisturbedRows, ZoneIsAhead,
                    [Next]_vars
             PROVE  ZoneIsAhead'
  OBVIOUS
<1>form. \A i \in Jobs : jobs[i].ws \in Workspaces \/ jobs[i] = NoJob
  BY DEF JobsInForm, TypeOK, Job
<1>same. ASSUME NEW i \in Jobs, NEW j \in Jobs, jobs[i].rec = jobs[j].rec, jobs[i].rec # NoRecord,
                i # j
         PROVE  muddled[jobs[i].ws]
  BY <1>form, <1>same DEF RecordsArePrivate, UndisturbedRows, Undisturbed, NoJob
<1>1. ASSUME NEW j \in Jobs, NEW w \in Workspaces, NEW job \in Job, Starts(j, w, job)
      PROVE  ZoneIsAhead'
  <2>1. jobs'[j] = job /\ \A i \in Jobs : i # j => jobs'[i] = jobs[i]
    BY <1>1 DEF Starts, Start, TypeOK
  <2>2. \A v \in Workspaces : muddled[v] => muddled'[v]
    BY <1>1 DEF Starts, Start, TypeOK
  <2>3. ~(job.pc = "write" /\ job.rec # NoRecord)
    BY <1>1 DEF Starts, Kinds
  <2>4. ASSUME NEW i \in Jobs, i # j PROVE ZoneAhead(i)'
    BY <1>1, <1>form, <2>1, <2>2, <2>4 DEF ZoneIsAhead, ZoneAhead, Starts, NoJob
  <2>. QED
    BY <2>1, <2>3, <2>4 DEF ZoneIsAhead, ZoneAhead
<1>2. ASSUME NEW j \in Jobs, CountCheck(j) PROVE ZoneIsAhead'
  BY <1>2, QuietActions, <1>form
  DEF CountCheck, At, Goto, Refuse, Finish, TypeOK, Job, NoJob, ZoneIsAhead, ZoneAhead,
      JobsInForm
<1>3. ASSUME NEW j \in Jobs, TakenCheck(j) PROVE ZoneIsAhead'
  BY <1>3, QuietActions
  DEF TakenCheck, At, Goto, Refuse, Finish, TypeOK, Job, NoJob, ZoneIsAhead, ZoneAhead,
      JobsInForm
<1>4. ASSUME NEW j \in Jobs, NEW r \in Records, Makes(j, r) PROVE ZoneIsAhead'
  <2>1. ASSUME NEW i \in Jobs, i # j PROVE ZoneAhead(i)'
    <3>1. jobs'[i] = jobs[i] /\ jobs[i].rec # r
      BY <1>4, <2>1 DEF Makes, FreshRecords, Holds
    <3>. QED
      BY <1>4, <3>1 DEF Makes, ZoneIsAhead, ZoneAhead, TypeOK
  <2>2. ZoneAhead(j)'
    BY <1>4 DEF Makes, ZoneAhead, TypeOK
  <2>. QED
    BY <2>1, <2>2 DEF ZoneIsAhead
<1>5. ASSUME NEW j \in Jobs, NEW r \in Records, createDnsRecord(j, r, FALSE)
      PROVE  ZoneIsAhead'
  <2>1. GoesOn(j) /\ UNCHANGED muddled
    BY <1>5, QuietActions DEF Quiet, createDnsRecord
  <2>2. ASSUME NEW i \in Jobs, i # j PROVE ZoneAhead(i)'
    <3>1. jobs'[i] = jobs[i] /\ jobs[i].rec # r
      BY <1>5, <2>1, <2>2 DEF GoesOn, createDnsRecord, FreshRecords, Holds
    <3>. QED
      BY <1>5, <2>1, <3>1 DEF createDnsRecord, ZoneIsAhead, ZoneAhead, TypeOK
  <2>3. jobs'[j].rec = NoRecord
    BY <1>5, <2>1 DEF GoesOn, createDnsRecord, At, JobsInForm, NoJob
  <2>. QED
    BY <2>2, <2>3 DEF ZoneIsAhead, ZoneAhead
<1>6. ASSUME NEW j \in Jobs, NEW answered \in BOOLEAN, updateDnsRecord(j, answered)
      PROVE  ZoneIsAhead'
  <2>1. Quiet(j)
    BY <1>6, QuietActions
  <2>2. ASSUME NEW i \in Jobs, i # j PROVE ZoneAhead(i)'
    <3>1. jobs'[i] = jobs[i]
      BY <2>1, <2>2 DEF Quiet, GoesOn
    <3>2. CASE jobs[i].rec # jobs[j].rec
      BY <1>6, <1>form, <2>1, <3>1, <3>2
      DEF Quiet, updateDnsRecord, ZoneIsAhead, ZoneAhead, TypeOK, NoJob
    <3>3. CASE jobs[i].rec = jobs[j].rec /\ jobs[i].rec # NoRecord
      <4>1. muddled[jobs[i].ws] /\ jobs[i].ws \in Workspaces
        BY <1>same, <1>form, <2>2, <3>3 DEF NoJob
      <4>2. muddled'[jobs[i].ws]
        BY <2>1, <4>1 DEF Quiet
      <4>. QED
        BY <1>6, <3>1, <3>3, <4>2 DEF updateDnsRecord, ZoneIsAhead, ZoneAhead
    <3>. QED
      BY <3>1, <3>2, <3>3 DEF ZoneAhead
  <2>3. ZoneAhead(j)'
    BY <1>6, <2>1 DEF Quiet, GoesOn, updateDnsRecord, At, ZoneAhead, TypeOK, NoJob, Job
  <2>. QED
    BY <2>2, <2>3 DEF ZoneIsAhead
<1>7. ASSUME NEW j \in Jobs, NEW answered \in BOOLEAN, deleteDnsRecord(j, answered)
      PROVE  ZoneIsAhead'
  <2>1. Quiet(j)
    BY <1>7, QuietActions
  <2>2. ASSUME NEW i \in Jobs, i # j PROVE ZoneAhead(i)'
    <3>1. jobs'[i] = jobs[i]
      BY <2>1, <2>2 DEF Quiet, GoesOn
    <3>2. CASE jobs[i].rec # jobs[j].rec
      BY <1>7, <1>form, <2>1, <3>1, <3>2
      DEF Quiet, deleteDnsRecord, ZoneIsAhead, ZoneAhead, TypeOK, NoJob
    <3>3. CASE jobs[i].rec = jobs[j].rec /\ jobs[i].rec # NoRecord
      <4>1. muddled[jobs[i].ws] /\ jobs[i].ws \in Workspaces
        BY <1>same, <1>form, <2>2, <3>3 DEF NoJob
      <4>2. muddled'[jobs[i].ws]
        BY <2>1, <4>1 DEF Quiet
      <4>3. zone'[jobs[i].rec] = NoName
        BY <1>7, <3>3 DEF deleteDnsRecord, TypeOK, Job
      <4>. QED
        BY <3>1, <4>2, <4>3 DEF ZoneAhead
    <3>. QED
      BY <3>1, <3>2, <3>3 DEF ZoneAhead
  <2>3. ZoneAhead(j)'
    BY <1>7, <2>1 DEF Quiet, GoesOn, deleteDnsRecord, At, ZoneAhead, TypeOK, NoJob, Job
  <2>. QED
    BY <2>2, <2>3 DEF ZoneIsAhead
<1>8. ASSUME NEW j \in Jobs, CreateRefused(j) PROVE ZoneIsAhead'
  <2>1. GoesOn(j)
    BY <1>8, QuietActions DEF Quiet
  <2>2. ASSUME NEW i \in Jobs, i # j PROVE ZoneAhead(i)'
    BY <1>8, <2>1, <2>2 DEF GoesOn, CreateRefused, ZoneIsAhead, ZoneAhead
  <2>3. jobs'[j].rec = NoRecord
    BY <1>8, <2>1 DEF GoesOn, CreateRefused, At, JobsInForm, NoJob
  <2>. QED
    BY <2>2, <2>3 DEF ZoneIsAhead, ZoneAhead
<1>9. ASSUME NEW j \in Jobs, UpdateRefused(j) PROVE ZoneIsAhead'
  BY <1>9 DEF UpdateRefused, At, Finish, TypeOK, NoJob, ZoneIsAhead, ZoneAhead
<1>10. ASSUME NEW j \in Jobs, DeleteRefused(j) PROVE ZoneIsAhead'
  <2>1. GoesOn(j)
    BY <1>10, QuietActions DEF Quiet
  <2>2. ASSUME NEW i \in Jobs, i # j PROVE ZoneAhead(i)'
    BY <1>10, <2>1, <2>2 DEF GoesOn, DeleteRefused, ZoneIsAhead, ZoneAhead
  <2>3. ZoneAhead(j)'
    <3>1. jobs[j].rec \in Records
      BY <1>10 DEF DeleteRefused, At, JobsInForm, TypeOK, Job
    <3>2. CASE jobs[j].kind = "delete"
      BY <1>10, <3>2 DEF DeleteRefused, Finish, ZoneAhead, TypeOK, NoJob
    <3>3. CASE jobs[j].kind # "delete"
      <4>1. /\ zone' = zone /\ jobs'[j].rec = jobs[j].rec /\ jobs'[j].kind \in {"off", "remove"}
            /\ zone[jobs[j].rec] # NoName => jobs[j].rec \in dropped'
        BY <1>10, <3>1, <3>3 DEF DeleteRefused, At, Goto, TypeOK, Job
      <4>. QED
        BY <4>1 DEF ZoneAhead
    <3>. QED
      BY <3>2, <3>3
  <2>. QED
    BY <2>2, <2>3 DEF ZoneIsAhead
<1>11. ASSUME NEW j \in Jobs, WriteRow(j) PROVE ZoneIsAhead'
  BY <1>11 DEF WriteRow, Finish, TypeOK, NoJob, ZoneIsAhead, ZoneAhead
<1>12. ASSUME NEW j \in Jobs, WriteFails(j) PROVE ZoneIsAhead'
  <2>1. Quiet(j)
    BY <1>12, QuietActions
  <2>2. ASSUME NEW i \in Jobs, i # j PROVE ZoneAhead(i)'
    BY <1>12, <1>form, <2>1, <2>2
    DEF Quiet, GoesOn, WriteFails, ZoneIsAhead, ZoneAhead, NoJob
  <2>3. jobs'[j] = NoJob
    BY <1>12 DEF WriteFails, Finish, TypeOK
  <2>. QED
    BY <2>2, <2>3 DEF ZoneIsAhead, ZoneAhead, NoJob
<1>13. ASSUME UNCHANGED vars PROVE ZoneIsAhead'
  BY <1>13 DEF vars, ZoneIsAhead, ZoneAhead
<1>. QED
  BY <1>1, <1>2, <1>3, <1>4, <1>5, <1>6, <1>7, <1>8, <1>9, <1>10, <1>11, <1>12, <1>13,
     BeginStarts, RecordMade
  DEF Next, Cloudflare

\* An active row falls behind the zone only when its own handler moves the record, and
\* catches up when that handler writes.
LEMMA RowStep ==
  TypeOK /\ JobsInForm /\ RecordsArePrivate /\ UndisturbedRows /\ ZoneIsAhead /\ RowFollowsZone
    /\ [Next]_vars => RowFollowsZone'
<1> SUFFICES ASSUME TypeOK, JobsInForm, RecordsArePrivate, UndisturbedRows, ZoneIsAhead,
                    RowFollowsZone, [Next]_vars,
                    NEW w \in Workspaces, row'[w].active, ~muddled'[w]
             PROVE  \/ zone'[row'[w].rec] = row'[w].sub
                    \/ \E j \in Jobs : jobs'[j].ws = w /\ jobs'[j].pc = "write"
  BY DEF RowFollowsZone
<1>. DEFINE Follows == \/ zone[row[w].rec] = row[w].sub
                       \/ \E j \in Jobs : jobs[j].ws = w /\ jobs[j].pc = "write"
<1>active. row'[w].rec # NoRecord
  BY UndisturbedStep DEF UndisturbedRows, Undisturbed
<1>1. ASSUME NEW j \in Jobs, NEW v \in Workspaces, NEW job \in Job, Starts(j, v, job)
      PROVE  Follows'
  <2>1. ~muddled[w] /\ row' = row /\ zone' = zone
    BY <1>1 DEF Starts, Start, TypeOK
  <2>2. Follows
    BY <2>1 DEF RowFollowsZone
  <2>3. jobs[j] = NoJob /\ \A i \in Jobs : i # j => jobs'[i] = jobs[i]
    BY <1>1 DEF Starts, Start, TypeOK
  <2>. QED
    BY <2>1, <2>2, <2>3 DEF NoJob
<1>quiet. ASSUME NEW j \in Jobs, Quiet(j)
      PROVE  /\ ~muddled[w] /\ row' = row /\ Follows /\ row[w].rec # NoRecord
             /\ jobs[j].ws # w => \A i \in Jobs : jobs[i].ws = w => jobs'[i] = jobs[i]
             /\ jobs[j].ws = w => SeesRow(j) /\ \A i \in Jobs : jobs[i].ws = w => i = j
  BY <1>quiet DEF Quiet, GoesOn, RowFollowsZone, UndisturbedRows, Undisturbed
<1>other. ASSUME NEW j \in Jobs, Quiet(j), jobs[j].ws # w, zone'[row[w].rec] = zone[row[w].rec]
      PROVE  Follows'
  BY <1>quiet, <1>other
<1>before. ASSUME NEW j \in Jobs, Quiet(j), jobs[j].pc # "write", zone'[row[w].rec] = zone[row[w].rec]
      PROVE  Follows'
  BY <1>quiet, <1>other, <1>before
<1>2. ASSUME NEW j \in Jobs, CountCheck(j) PROVE Follows'
  BY <1>2, <1>before, QuietActions DEF CountCheck, At
<1>3. ASSUME NEW j \in Jobs, TakenCheck(j) PROVE Follows'
  BY <1>3, <1>before, QuietActions DEF TakenCheck, At
<1>4. ASSUME NEW j \in Jobs, NEW r \in Records, Makes(j, r) PROVE Follows'
  <2>1. Follows /\ row' = row /\ r # row[w].rec
    BY <1>4 DEF Makes, FreshRecords, RowFollowsZone
  <2>2. zone'[row'[w].rec] = zone[row[w].rec]
    BY <1>4, <2>1 DEF Makes, TypeOK
  <2>3. \A i \in Jobs : jobs[i].ws = w /\ jobs[i].pc = "write" => jobs'[i] = jobs[i]
    BY <1>4 DEF Makes
  <2>. QED
    BY <2>1, <2>2, <2>3
<1>5. ASSUME NEW j \in Jobs, NEW r \in Records, createDnsRecord(j, r, FALSE) PROVE Follows'
  <2>1. r # row[w].rec /\ jobs[j].pc # "write"
    BY <1>5 DEF createDnsRecord, FreshRecords, At
  <2>2. zone'[row[w].rec] = zone[row[w].rec]
    BY <1>5, <2>1 DEF createDnsRecord, TypeOK
  <2>. QED
    BY <1>5, <2>1, <2>2, <1>before, QuietActions
<1>6. ASSUME NEW j \in Jobs, NEW answered \in BOOLEAN, updateDnsRecord(j, answered)
      PROVE  Follows'
  <2>1. Quiet(j) /\ jobs[j].pc # "write"
    BY <1>6, QuietActions DEF updateDnsRecord, At
  <2>2. CASE jobs[j].rec # row[w].rec
    <3>1. zone'[row[w].rec] = zone[row[w].rec]
      BY <1>6, <2>2 DEF updateDnsRecord, TypeOK
    <3>. QED
      BY <2>1, <3>1, <1>before
  <2>3. CASE jobs[j].rec = row[w].rec
    <3>1. jobs[j].ws = w
      BY <2>1, <2>3, <1>quiet DEF RecordsArePrivate
    <3>2. CASE answered
      BY <1>6, <3>1, <3>2 DEF updateDnsRecord, Goto, TypeOK, Job
    <3>3. CASE ~answered
      BY <1>6, <3>1, <3>3 DEF updateDnsRecord, TypeOK
    <3>. QED
      BY <3>2, <3>3
  <2>. QED
    BY <2>2, <2>3
<1>7. ASSUME NEW j \in Jobs, NEW answered \in BOOLEAN, deleteDnsRecord(j, answered)
      PROVE  Follows'
  <2>1. Quiet(j) /\ jobs[j].pc # "write"
    BY <1>7, QuietActions DEF deleteDnsRecord, At
  <2>2. CASE jobs[j].rec # row[w].rec
    <3>1. zone'[row[w].rec] = zone[row[w].rec]
      BY <1>7, <2>2 DEF deleteDnsRecord, TypeOK
    <3>. QED
      BY <2>1, <3>1, <1>before
  <2>3. CASE jobs[j].rec = row[w].rec
    <3>1. jobs[j].ws = w
      BY <2>1, <2>3, <1>quiet DEF RecordsArePrivate
    <3>2. CASE answered \/ jobs[j].kind # "delete"
      BY <1>7, <3>1, <3>2 DEF deleteDnsRecord, Goto, TypeOK, Job
    <3>3. CASE ~(answered \/ jobs[j].kind # "delete")
      BY <1>7, <3>1, <3>3 DEF deleteDnsRecord, TypeOK
    <3>. QED
      BY <3>2, <3>3
  <2>. QED
    BY <2>2, <2>3
<1>8. ASSUME NEW j \in Jobs, CreateRefused(j) PROVE Follows'
  BY <1>8, <1>before, QuietActions DEF CreateRefused, At
<1>9. ASSUME NEW j \in Jobs, UpdateRefused(j) PROVE Follows'
  BY <1>9, <1>before, QuietActions DEF UpdateRefused, At
<1>10. ASSUME NEW j \in Jobs, DeleteRefused(j) PROVE Follows'
  BY <1>10, <1>before, QuietActions DEF DeleteRefused, At
<1>11. ASSUME NEW j \in Jobs, WriteRow(j) PROVE Follows'
  <2>1. /\ jobs'[j] = NoJob /\ \A i \in Jobs : i # j => jobs'[i] = jobs[i]
        /\ zone' = zone /\ muddled' = muddled
        /\ jobs[j].kind \in Kinds /\ jobs[j].pc = "write"
    BY <1>11 DEF WriteRow, At, Finish, TypeOK
  <2>2. CASE jobs[j].ws # w
    <3>1. row'[w] = row[w] /\ row[w].active /\ ~muddled[w]
      BY <1>11, <2>1, <2>2 DEF WriteRow, TypeOK
    <3>. QED
      BY <2>1, <2>2, <3>1 DEF RowFollowsZone
  <2>3. CASE jobs[j].ws = w
    <3>1. SeesRow(j) /\ Undisturbed(w)
      BY <2>1, <2>3 DEF UndisturbedRows, Undisturbed
    <3>2. row'[w] = Updated(w, jobs[j])
      BY <1>11, <2>1, <2>3, <3>1 DEF WriteRow, TypeOK, SeesRow
    <3>3. row[w] \in Row /\ (jobs[j].kind # "create" => row[w].state = "live")
      BY <2>3, <3>1 DEF TypeOK, SeesRow, IsLive
    <3>4. CASE jobs[j].kind \in {"create", "on"}
      <4>1. jobs[j].rec # NoRecord /\ row'[w].rec = jobs[j].rec /\ row'[w].sub = jobs[j].sub
        <5>1. CASE jobs[j].kind = "create"
          <6>1. row'[w] = [state |-> "live", sub |-> jobs[j].sub,
                           active |-> jobs[j].rec # NoRecord, rec |-> jobs[j].rec]
            BY <3>2, <5>1 DEF Updated
          <6>2. row'[w].rec = jobs[j].rec /\ row'[w].sub = jobs[j].sub
            BY <6>1
          <6>. QED
            BY <6>2, <1>active
        <5>2. CASE jobs[j].kind = "on"
          <6>1. row'[w] = [row[w] EXCEPT !.active = TRUE, !.rec = jobs[j].rec]
            BY <3>2, <5>2 DEF Updated
          <6>2. row'[w].rec = jobs[j].rec /\ row'[w].sub = row[w].sub
            BY <3>3, <6>1 DEF Row
          <6>. QED
            BY <2>1, <2>3, <3>1, <5>2, <6>2 DEF SeesRow, JobsInForm
        <5>. QED
          BY <3>4, <5>1, <5>2
      <4>. QED
        BY <2>1, <2>3, <3>4, <4>1 DEF ZoneIsAhead, ZoneAhead
    <3>5. CASE jobs[j].kind = "rename"
      <4>1. /\ row'[w].active = row[w].active /\ row'[w].rec = row[w].rec
            /\ row'[w].sub = jobs[j].sub
        BY <3>2, <3>3, <3>5 DEF Updated, Row
      <4>2. jobs[j].rec = row[w].rec /\ row[w].rec # NoRecord
        BY <2>3, <3>1, <3>5, <4>1 DEF SeesRow, Undisturbed
      <4>. QED
        BY <2>1, <2>3, <3>5, <4>1, <4>2 DEF ZoneIsAhead, ZoneAhead
    <3>6. CASE jobs[j].kind \in {"off", "remove", "delete"}
      <4>1. ~row'[w].active
        BY <3>2, <3>3, <3>6 DEF Updated, Row
      <4>. QED
        BY <4>1
    <3>. QED
      BY <2>1, <3>4, <3>5, <3>6 DEF Kinds
  <2>. QED
    BY <2>2, <2>3
<1>12. ASSUME NEW j \in Jobs, WriteFails(j) PROVE Follows'
  <2>1. Quiet(j) /\ zone' = zone
    BY <1>12, QuietActions DEF WriteFails
  <2>2. CASE jobs[j].ws # w
    BY <2>1, <2>2, <1>other
  <2>3. CASE jobs[j].ws = w
    <3>1. jobs[j].kind = "create"
      BY <1>12, <2>3 DEF WriteFails, TypeOK
    <3>2. ~row[w].active
      BY <2>1, <2>3, <3>1, <1>quiet DEF SeesRow, NoRow
    <3>. QED
      BY <2>1, <3>2 DEF Quiet
  <2>. QED
    BY <2>2, <2>3
<1>13. ASSUME UNCHANGED vars PROVE Follows'
  BY <1>13 DEF vars, RowFollowsZone
<1>. QED
  BY <1>1, <1>2, <1>3, <1>4, <1>5, <1>6, <1>7, <1>8, <1>9, <1>10, <1>11, <1>12, <1>13,
     BeginStarts, RecordMade
  DEF Next, Cloudflare

\* A record that a handler lets go of is in its row, gone, or dropped.
LEMMA MakerStep ==
  TypeOK /\ JobsInForm /\ UndisturbedRows /\ ZoneIsAhead /\ MakerOwns /\ [Next]_vars
    => MakerOwns'
<1> SUFFICES ASSUME TypeOK, JobsInForm, UndisturbedRows, ZoneIsAhead, MakerOwns, [Next]_vars,
                    NEW r \in Records, zone'[r] # NoName
             PROVE  Owned(r)'
  BY DEF MakerOwns
<1>keep. ASSUME NEW j \in Jobs, Quiet(j), zone[r] # NoName, maker'[r] = maker[r],
                r \in dropped => r \in dropped',
                jobs[j].kind \in {"create", "on"} /\ Holds(j, r) => r \in dropped'
         PROVE  Owned(r)'
  <2>1. Owned(r) /\ row' = row
    BY <1>keep DEF MakerOwns, Quiet
  <2>2. maker[r] \in Workspaces /\ (muddled[maker[r]] => muddled'[maker[r]])
    BY <1>keep, <2>1 DEF Quiet, Owned
  <2>3. ASSUME NEW i \in Jobs, jobs[i].ws = maker[r], Holds(i, r), i # j
        PROVE  jobs'[i].ws = maker[r] /\ jobs'[i].rec = r
    BY <1>keep, <2>3 DEF Quiet, GoesOn, Holds
  <2>4. ASSUME jobs[j].ws = maker[r], Holds(j, r), ~muddled[maker[r]], r \notin dropped'
        PROVE  IsLive(maker[r]) /\ row[maker[r]].rec = r
    <3>1. SeesRow(j) /\ jobs[j].kind \notin {"create", "on"}
      BY <1>keep, <2>2, <2>4 DEF UndisturbedRows, Undisturbed
    <3>2. jobs[j].kind \in Kinds
      BY <2>4 DEF JobsInForm, Holds, NoJob, TypeOK, Job
    <3>. QED
      BY <2>4, <3>1, <3>2 DEF SeesRow, Holds, Kinds
  <2>. QED
    BY <1>keep, <2>1, <2>2, <2>3, <2>4 DEF Owned, Holds, IsLive
<1>1. ASSUME NEW j \in Jobs, NEW w \in Workspaces, NEW job \in Job, Starts(j, w, job)
      PROVE  Owned(r)'
  <2>1. Owned(r) /\ row' = row /\ maker' = maker /\ dropped' = dropped
    BY <1>1 DEF MakerOwns, Starts
  <2>2. jobs[j] = NoJob /\ \A i \in Jobs : i # j => jobs'[i] = jobs[i]
    BY <1>1 DEF Starts, Start, TypeOK
  <2>3. \A v \in Workspaces : muddled[v] => muddled'[v]
    BY <1>1 DEF Starts, Start, TypeOK
  <2>. QED
    BY <2>1, <2>2, <2>3 DEF Owned, Holds, IsLive, NoJob
<1>2. ASSUME NEW j \in Jobs, CountCheck(j) PROVE Owned(r)'
  <2>1. ~Holds(j, r)
    BY <1>2 DEF CountCheck, At, JobsInForm, Holds
  <2>. QED
    BY <1>2, <1>keep, <2>1, QuietActions DEF CountCheck
<1>3. ASSUME NEW j \in Jobs, TakenCheck(j) PROVE Owned(r)'
  <2>1. jobs[j].kind \in {"create", "on"} => ~Holds(j, r)
    BY <1>3 DEF TakenCheck, At, JobsInForm, Holds
  <2>. QED
    BY <1>3, <1>keep, <2>1, QuietActions DEF TakenCheck
<1>4. ASSUME NEW j \in Jobs, NEW d \in Records, Makes(j, d) PROVE Owned(r)'
  <2>1. jobs[j].ws \in Workspaces /\ row' = row /\ muddled' = muddled
    BY <1>4 DEF Makes, JobsInForm, Kinds
  <2>2. CASE d = r
    <3>1. maker'[r] = jobs[j].ws /\ jobs'[j].ws = jobs[j].ws /\ jobs'[j].rec = r
      BY <1>4, <2>2 DEF Makes, TypeOK
    <3>. QED
      BY <2>1, <3>1 DEF Owned, Holds
  <2>3. CASE d # r
    <3>1. maker'[r] = maker[r] /\ zone'[r] = zone[r] /\ (r \in dropped => r \in dropped')
      BY <1>4, <2>3 DEF Makes, TypeOK
    <3>2. Owned(r)
      BY <3>1 DEF MakerOwns
    <3>3. \A i \in Jobs : Holds(i, r) => jobs'[i] = jobs[i]
      BY <1>4, <2>3 DEF Makes, Holds, JobsInForm
    <3>. QED
      BY <2>1, <3>1, <3>2, <3>3 DEF Owned, Holds, IsLive
  <2>. QED
    BY <2>2, <2>3
<1>5. ASSUME NEW j \in Jobs, NEW d \in Records, createDnsRecord(j, d, FALSE) PROVE Owned(r)'
  <2>1. Quiet(j) /\ ~Holds(j, r)
    BY <1>5, QuietActions DEF createDnsRecord, At, JobsInForm, Holds
  <2>2. CASE d = r
    <3>1. maker'[r] = jobs[j].ws /\ r \in dropped'
      BY <1>5, <2>2 DEF createDnsRecord, TypeOK
    <3>2. jobs[j].ws \in Workspaces
      BY <1>5 DEF createDnsRecord, At, JobsInForm, Kinds
    <3>. QED
      BY <3>1, <3>2 DEF Owned
  <2>3. CASE d # r
    <3>1. maker'[r] = maker[r] /\ zone'[r] = zone[r] /\ (r \in dropped => r \in dropped')
      BY <1>5, <2>3 DEF createDnsRecord, TypeOK
    <3>. QED
      BY <2>1, <3>1, <1>keep
  <2>. QED
    BY <2>2, <2>3
<1>6. ASSUME NEW j \in Jobs, NEW answered \in BOOLEAN, updateDnsRecord(j, answered)
      PROVE  Owned(r)'
  <2>1. zone[r] # NoName
    BY <1>6 DEF updateDnsRecord, TypeOK
  <2>. QED
    BY <1>6, <1>keep, <2>1, QuietActions DEF updateDnsRecord, At
<1>7. ASSUME NEW j \in Jobs, NEW answered \in BOOLEAN, deleteDnsRecord(j, answered)
      PROVE  Owned(r)'
  <2>1. Quiet(j)
    BY <1>7, QuietActions
  <2>2. jobs[j].rec # r
    BY <1>7 DEF deleteDnsRecord, TypeOK
  <2>3. zone'[r] = zone[r] /\ maker'[r] = maker[r] /\ (r \in dropped => r \in dropped')
    BY <1>7, <2>2 DEF deleteDnsRecord, TypeOK
  <2>. QED
    BY <2>1, <2>2, <2>3, <1>7, <1>keep DEF Holds
<1>8. ASSUME NEW j \in Jobs, CreateRefused(j) PROVE Owned(r)'
  <2>1. ~Holds(j, r)
    BY <1>8 DEF CreateRefused, At, JobsInForm, Holds
  <2>. QED
    BY <1>8, <1>keep, <2>1, QuietActions DEF CreateRefused
<1>9. ASSUME NEW j \in Jobs, UpdateRefused(j) PROVE Owned(r)'
  BY <1>9, <1>keep, QuietActions DEF UpdateRefused, At
<1>10. ASSUME NEW j \in Jobs, DeleteRefused(j) PROVE Owned(r)'
  BY <1>10, <1>keep, QuietActions DEF DeleteRefused, At
<1>11. ASSUME NEW j \in Jobs, WriteRow(j) PROVE Owned(r)'
  <2>1. /\ jobs'[j] = NoJob /\ \A i \in Jobs : i # j => jobs'[i] = jobs[i]
        /\ zone' = zone /\ maker' = maker /\ dropped' = dropped /\ muddled' = muddled
        /\ jobs[j].kind \in Kinds /\ jobs[j].pc = "write"
    BY <1>11 DEF WriteRow, At, Finish, TypeOK
  <2>2. Owned(r) /\ maker[r] \in Workspaces
    BY <2>1 DEF MakerOwns, Owned
  <2>3. CASE muddled[maker[r]] \/ r \in dropped
    BY <2>1, <2>2, <2>3 DEF Owned
  <2>4. CASE jobs[j].ws # maker[r]
    <3>1. row'[maker[r]] = row[maker[r]]
      BY <1>11, <2>2, <2>4 DEF WriteRow, TypeOK
    <3>. QED
      BY <2>1, <2>2, <2>4, <3>1 DEF Owned, Holds, IsLive
  <2>5. CASE ~muddled[maker[r]] /\ r \notin dropped /\ jobs[j].ws = maker[r]
    <3>. DEFINE w == maker[r]
    <3>1. SeesRow(j) /\ Undisturbed(w) /\ row[w] \in Row
      BY <2>2, <2>5 DEF UndisturbedRows, Undisturbed, TypeOK
    <3>2. (IsLive(w) /\ row[w].rec = r) \/ jobs[j].rec = r
      BY <2>2, <2>5, <3>1 DEF Owned, Undisturbed, Holds
    <3>3. row'[w] = Updated(w, jobs[j])
      BY <1>11, <2>1, <2>2, <2>5, <3>1 DEF WriteRow, TypeOK, SeesRow
    <3>4. CASE jobs[j].kind = "create"
      BY <2>1, <2>2, <2>5, <3>1, <3>2, <3>3, <3>4 DEF SeesRow, NoRow, Updated, Owned, IsLive
    <3>5. CASE jobs[j].kind = "on"
      <4>1. row[w].state = "live" /\ jobs[j].rec = r
        BY <2>5, <3>1, <3>2, <3>5 DEF SeesRow, IsLive
      <4>2. row'[w] = [row[w] EXCEPT !.active = TRUE, !.rec = jobs[j].rec]
        BY <3>3, <3>5 DEF Updated
      <4>3. row'[w].state = "live" /\ row'[w].rec = r
        BY <3>1, <4>1, <4>2 DEF Row
      <4>. QED
        BY <2>1, <2>2, <4>3 DEF Owned, IsLive
    <3>6. CASE jobs[j].kind = "rename"
      <4>1. row[w].state = "live" /\ row[w].rec = r
        BY <2>5, <3>1, <3>2, <3>6 DEF SeesRow, IsLive
      <4>2. row'[w] = [row[w] EXCEPT !.sub = jobs[j].sub]
        BY <3>3, <3>6 DEF Updated
      <4>3. row'[w].state = "live" /\ row'[w].rec = r
        BY <3>1, <4>1, <4>2 DEF Row
      <4>. QED
        BY <2>1, <2>2, <4>3 DEF Owned, IsLive
    <3>7. CASE jobs[j].kind \in {"off", "remove", "delete"}
      <4>1. jobs[j].rec = r
        BY <2>5, <3>1, <3>2, <3>7 DEF SeesRow
      <4>. QED
        BY <2>1, <2>5, <3>7, <4>1 DEF ZoneIsAhead, ZoneAhead
    <3>. QED
      BY <2>1, <3>4, <3>5, <3>6, <3>7 DEF Kinds
  <2>. QED
    BY <2>3, <2>4, <2>5
<1>12. ASSUME NEW j \in Jobs, WriteFails(j) PROVE Owned(r)'
  BY <1>12, <1>keep, QuietActions DEF WriteFails, Holds
<1>13. ASSUME UNCHANGED vars PROVE Owned(r)'
  BY <1>13 DEF vars, MakerOwns, Owned, IsLive, Holds
<1>. QED
  BY <1>1, <1>2, <1>3, <1>4, <1>5, <1>6, <1>7, <1>8, <1>9, <1>10, <1>11, <1>12, <1>13,
     BeginStarts, RecordMade
  DEF Next, Cloudflare

\* Who makes or keeps an undisturbed row active under a subdomain has passed the check for it.
LEMMA WriterPassed ==
  ASSUME TypeOK, JobsInForm, UndisturbedRows, UndisturbedRows', NEW j \in Jobs, WriteRow(j),
         ~muddled[jobs[j].ws], row'[jobs[j].ws].active
  PROVE  Passed(j) /\ row'[jobs[j].ws].sub = jobs[j].sub
<1>. DEFINE w == jobs[j].ws
<1>1. jobs[j].kind \in Kinds /\ jobs[j].pc = "write" /\ w \in Workspaces /\ muddled' = muddled
  BY DEF WriteRow, At, JobsInForm
<1>2. SeesRow(j) /\ Undisturbed(w) /\ row[w] \in Row /\ row'[w].rec # NoRecord
  BY <1>1 DEF UndisturbedRows, Undisturbed, TypeOK
<1>3. row'[w] = Updated(w, jobs[j])
  BY <1>1, <1>2 DEF WriteRow, TypeOK, SeesRow
<1>4. CASE jobs[j].kind = "create"
  <2>1. row'[w] = [state |-> "live", sub |-> jobs[j].sub,
                   active |-> jobs[j].rec # NoRecord, rec |-> jobs[j].rec]
    BY <1>3, <1>4 DEF Updated
  <2>2. row'[w].rec = jobs[j].rec /\ row'[w].sub = jobs[j].sub
    BY <2>1
  <2>. QED
    BY <1>1, <1>2, <1>4, <2>2 DEF Passed
<1>5. CASE jobs[j].kind = "on"
  <2>1. row'[w] = [row[w] EXCEPT !.active = TRUE, !.rec = jobs[j].rec]
    BY <1>3, <1>5 DEF Updated
  <2>2. row'[w].sub = row[w].sub
    BY <1>2, <2>1 DEF Row
  <2>. QED
    BY <1>1, <1>2, <1>5, <2>2 DEF Passed, SeesRow, JobsInForm
<1>6. CASE jobs[j].kind = "rename"
  <2>1. row'[w] = [row[w] EXCEPT !.sub = jobs[j].sub]
    BY <1>3, <1>6 DEF Updated
  <2>2. row'[w].rec = row[w].rec /\ row'[w].sub = jobs[j].sub
    BY <1>2, <2>1 DEF Row
  <2>. QED
    BY <1>1, <1>2, <1>6, <2>2 DEF Passed, SeesRow
<1>7. CASE jobs[j].kind \in {"off", "remove", "delete"}
  <2>1. ~row'[w].active
    BY <1>2, <1>3, <1>7 DEF Updated, Row
  <2>. QED
    BY <2>1
<1>. QED
  BY <1>1, <1>4, <1>5, <1>6, <1>7 DEF Kinds

\* The check looks at the rows and the mark at the handlers, so between them nothing is
\* missed: whoever writes later was past the check already, and the subdomain is contested.
LEMMA ChecksStep ==
  TypeOK /\ JobsInForm /\ UndisturbedRows /\ ChecksHold /\ [Next]_vars => ChecksHold'
<1> SUFFICES ASSUME TypeOK, JobsInForm, UndisturbedRows, ChecksHold, [Next]_vars
             PROVE  ChecksHold'
  OBVIOUS
<1>keep. ASSUME NEW j \in Jobs, Quiet(j), Passed(j)' => Passed(j), contested \subseteq contested'
         PROVE  ChecksHold'
  <2>1. ASSUME NEW i \in Jobs, Passed(i)'
        PROVE  Passed(i) /\ jobs'[i].sub = jobs[i].sub /\ jobs'[i].ws = jobs[i].ws
    BY <1>keep, <2>1 DEF Quiet, GoesOn, Passed, NoJob
  <2>2. ActiveRows' = ActiveRows /\ row' = row
    BY <1>keep DEF Quiet, ActiveRows, IsLive
  <2>3. \A i \in Jobs : Passed(i) => jobs[i].ws \in Workspaces
    BY DEF Passed, JobsInForm, Kinds
  <2>. QED
    BY <1>keep, <2>1, <2>2, <2>3 DEF ChecksHold, Quiet, ActiveRows
<1>1. ASSUME NEW j \in Jobs, NEW w \in Workspaces, NEW job \in Job, Starts(j, w, job)
      PROVE  ChecksHold'
  <2>1. jobs'[j] = job /\ \A i \in Jobs : i # j => jobs'[i] = jobs[i]
    BY <1>1 DEF Starts, Start, TypeOK
  <2>2. \A v \in Workspaces : muddled[v] => muddled'[v]
    BY <1>1 DEF Starts, Start, TypeOK
  <2>3. ~Passed(j)'
    BY <1>1, <2>1 DEF Passed, Starts
  <2>4. ActiveRows' = ActiveRows /\ row' = row /\ contested' = contested
    BY <1>1 DEF Starts, ActiveRows, IsLive
  <2>5. ASSUME NEW i \in Jobs, Passed(i)'
        PROVE  Passed(i) /\ jobs'[i] = jobs[i] /\ jobs[i].ws \in Workspaces
    BY <2>1, <2>3, <2>5 DEF Passed, JobsInForm, Kinds
  <2>. QED
    BY <2>2, <2>4, <2>5 DEF ChecksHold, ActiveRows
<1>2. ASSUME NEW j \in Jobs, CountCheck(j) PROVE ChecksHold'
  <2>1. Quiet(j) /\ contested' = contested
    BY <1>2, QuietActions DEF CountCheck
  <2>2. ~Passed(j)'
    BY <1>2 DEF CountCheck, At, Goto, Refuse, Finish, TypeOK, Job, NoJob, Passed, JobsInForm
  <2>. QED
    BY <2>1, <2>2, <1>keep
<1>3. ASSUME NEW j \in Jobs, TakenCheck(j) PROVE ChecksHold'
  <2>1. Quiet(j) /\ contested \subseteq contested'
    BY <1>3, QuietActions DEF TakenCheck
  <2>2. CASE ~Passed(j)'
    BY <2>1, <2>2, <1>keep
  <2>3. CASE Passed(j)'
    <3>1. /\ ~isSubdomainTaken(jobs[j].sub, jobs[j].ws)
          /\ jobs'[j].sub = jobs[j].sub /\ jobs'[j].ws = jobs[j].ws
          /\ jobs[j].sub \notin contested' => ~Contested(j)
      BY <1>3, <2>3
      DEF TakenCheck, At, Goto, Refuse, Finish, TypeOK, Job, NoJob, Passed, JobsInForm
    <3>2. ASSUME NEW i \in Jobs, i # j, Passed(i)'
          PROVE  jobs'[i] = jobs[i] /\ Passed(i) /\ jobs[i].ws \in Workspaces
      BY <2>1, <3>2 DEF Quiet, GoesOn, Passed, JobsInForm, Kinds
    <3>3. ActiveRows' = ActiveRows /\ row' = row
      BY <2>1 DEF Quiet, ActiveRows, IsLive
    <3>4. ASSUME NEW i \in Jobs, i # j, Passed(i)', jobs'[i].sub = jobs[j].sub
          PROVE  jobs[j].sub \in contested'
      BY <3>1, <3>2, <3>4 DEF Contested, Passed, At
    <3>5. \A v \in ActiveRows' : v # jobs'[j].ws => row'[v].sub # jobs'[j].sub
      BY <3>1, <3>3 DEF isSubdomainTaken
    <3>6. ASSUME NEW i \in Jobs, i # j, Passed(i)', jobs'[i].sub \notin contested',
                 NEW v \in ActiveRows', v # jobs'[i].ws, row'[v].sub = jobs'[i].sub
          PROVE  muddled'[v] \/ muddled'[jobs'[i].ws]
      BY <2>1, <3>2, <3>3, <3>6 DEF ChecksHold, Quiet, ActiveRows
    <3>7. ASSUME NEW i \in Jobs, NEW k \in Jobs, Passed(i)', Passed(k)', jobs'[k].sub = jobs'[i].sub,
                 jobs'[i].sub \notin contested'
          PROVE  i = k
      BY <2>1, <3>1, <3>2, <3>4, <3>7 DEF ChecksHold
    <3>. QED
      BY <3>5, <3>6, <3>7 DEF ChecksHold
  <2>. QED
    BY <2>2, <2>3
<1>4. ASSUME NEW j \in Jobs, NEW r \in Records, Makes(j, r) PROVE ChecksHold'
  <2>1. ASSUME NEW i \in Jobs, Passed(i)'
        PROVE  Passed(i) /\ jobs'[i].sub = jobs[i].sub /\ jobs'[i].ws = jobs[i].ws
    BY <1>4, <2>1 DEF Makes, Passed
  <2>2. ActiveRows' = ActiveRows /\ row' = row /\ muddled' = muddled /\ contested' = contested
    BY <1>4 DEF Makes, ActiveRows, IsLive
  <2>. QED
    BY <2>1, <2>2 DEF ChecksHold
<1>5. ASSUME NEW j \in Jobs, NEW r \in Records, createDnsRecord(j, r, FALSE) PROVE ChecksHold'
  <2>1. Passed(j)
    BY <1>5 DEF createDnsRecord, At, Passed
  <2>. QED
    BY <1>5, <2>1, <1>keep, QuietActions DEF createDnsRecord
<1>6. ASSUME NEW j \in Jobs, NEW answered \in BOOLEAN, updateDnsRecord(j, answered)
      PROVE  ChecksHold'
  <2>1. Passed(j)
    BY <1>6 DEF updateDnsRecord, At, Passed
  <2>. QED
    BY <1>6, <2>1, <1>keep, QuietActions DEF updateDnsRecord
<1>7. ASSUME NEW j \in Jobs, NEW answered \in BOOLEAN, deleteDnsRecord(j, answered)
      PROVE  ChecksHold'
  <2>1. Quiet(j) /\ contested' = contested
    BY <1>7, QuietActions DEF deleteDnsRecord
  <2>2. ~Passed(j)'
    BY <1>7, <2>1 DEF deleteDnsRecord, At, Quiet, GoesOn, Passed, NoJob
  <2>. QED
    BY <2>1, <2>2, <1>keep
<1>8. ASSUME NEW j \in Jobs, CreateRefused(j) PROVE ChecksHold'
  <2>1. Passed(j)
    BY <1>8 DEF CreateRefused, At, Passed
  <2>. QED
    BY <1>8, <2>1, <1>keep, QuietActions DEF CreateRefused
<1>9. ASSUME NEW j \in Jobs, UpdateRefused(j) PROVE ChecksHold'
  <2>1. Passed(j)
    BY <1>9 DEF UpdateRefused, At, Passed
  <2>. QED
    BY <1>9, <2>1, <1>keep, QuietActions DEF UpdateRefused
<1>10. ASSUME NEW j \in Jobs, DeleteRefused(j) PROVE ChecksHold'
  <2>1. Quiet(j) /\ contested' = contested
    BY <1>10, QuietActions DEF DeleteRefused
  <2>2. ~Passed(j)'
    BY <1>10, <2>1 DEF DeleteRefused, At, Quiet, GoesOn, Passed, NoJob
  <2>. QED
    BY <2>1, <2>2, <1>keep
<1>11. ASSUME NEW j \in Jobs, WriteRow(j) PROVE ChecksHold'
  <2>. DEFINE w == jobs[j].ws
  <2>1. /\ jobs'[j] = NoJob /\ \A i \in Jobs : i # j => jobs'[i] = jobs[i]
        /\ muddled' = muddled /\ contested' = contested
    BY <1>11 DEF WriteRow, Finish, TypeOK
  <2>2. ASSUME NEW i \in Jobs, Passed(i)' PROVE i # j /\ jobs'[i] = jobs[i] /\ Passed(i)
    BY <2>1, <2>2 DEF Passed, NoJob
  <2>3. ASSUME NEW i \in Jobs, Passed(i)', jobs[i].sub \notin contested,
               NEW v \in ActiveRows', v # jobs[i].ws, row'[v].sub = jobs[i].sub
        PROVE  muddled[v] \/ muddled[jobs[i].ws]
    <3>1. CASE v # w
      <4>1. row'[v] = row[v] /\ v \in ActiveRows
        BY <1>11, <2>3, <3>1 DEF WriteRow, TypeOK, ActiveRows, IsLive
      <4>. QED
        BY <2>2, <2>3, <4>1 DEF ChecksHold
    <3>2. CASE v = w /\ ~muddled[w]
      <4>1. row'[w].active
        BY <2>3, <3>2 DEF ActiveRows
      <4>2. Passed(j) /\ jobs[j].sub = jobs[i].sub
        BY <1>11, <2>3, <3>2, <4>1, UndisturbedStep, WriterPassed
      <4>. QED
        BY <2>2, <2>3, <4>2 DEF ChecksHold
    <3>. QED
      BY <3>1, <3>2
  <2>. QED
    BY <2>1, <2>2, <2>3 DEF ChecksHold
<1>12. ASSUME NEW j \in Jobs, WriteFails(j) PROVE ChecksHold'
  <2>1. Quiet(j) /\ contested' = contested
    BY <1>12, QuietActions DEF WriteFails
  <2>2. ~Passed(j)'
    BY <1>12 DEF WriteFails, Finish, TypeOK, Passed, NoJob
  <2>. QED
    BY <2>1, <2>2, <1>keep
<1>13. ASSUME UNCHANGED vars PROVE ChecksHold'
  BY <1>13 DEF vars, ChecksHold, Passed, ActiveRows, IsLive
<1>. QED
  BY <1>1, <1>2, <1>3, <1>4, <1>5, <1>6, <1>7, <1>8, <1>9, <1>10, <1>11, <1>12, <1>13,
     BeginStarts, RecordMade
  DEF Next, Cloudflare

\* A write shares a subdomain only if its handler's check was overtaken.
LEMMA SharedStep ==
  TypeOK /\ JobsInForm /\ UndisturbedRows /\ ChecksHold /\ SharedOnlyByRace /\ [Next]_vars
    => SharedOnlyByRace'
<1> SUFFICES ASSUME TypeOK, JobsInForm, UndisturbedRows, ChecksHold, SharedOnlyByRace, [Next]_vars
             PROVE  SharedOnlyByRace'
  OBVIOUS
<1>keep. ASSUME row' = row, contested \subseteq contested',
                \A w \in Workspaces : muddled[w] => muddled'[w]
         PROVE  SharedOnlyByRace'
  BY <1>keep DEF SharedOnlyByRace, ActiveRows, IsLive
<1>1. ASSUME NEW j \in Jobs, NEW w \in Workspaces, NEW job \in Job, Starts(j, w, job)
      PROVE  SharedOnlyByRace'
  <2>1. \A v \in Workspaces : muddled[v] => muddled'[v]
    BY <1>1 DEF Starts, Start, TypeOK
  <2>. QED
    BY <1>1, <2>1, <1>keep DEF Starts
<1>2. ASSUME NEW j \in Jobs, Quiet(j), contested \subseteq contested' PROVE SharedOnlyByRace'
  BY <1>2, <1>keep DEF Quiet
<1>3. ASSUME NEW j \in Jobs, NEW r \in Records, Makes(j, r) PROVE SharedOnlyByRace'
  BY <1>3, <1>keep DEF Makes
<1>4. ASSUME NEW j \in Jobs, WriteRow(j) PROVE SharedOnlyByRace'
  <2>. DEFINE w == jobs[j].ws
  <2>1. muddled' = muddled /\ contested' = contested
    BY <1>4 DEF WriteRow
  <2>2. ASSUME NEW v \in ActiveRows', v # w PROVE v \in ActiveRows /\ row'[v] = row[v]
    BY <1>4, <2>2 DEF WriteRow, TypeOK, ActiveRows, IsLive
  <2>3. ASSUME w \in ActiveRows', NEW v \in ActiveRows', v # w, row'[v].sub = row'[w].sub,
               row'[w].sub \notin contested, ~muddled[w]
        PROVE  muddled[v]
    <3>1. row'[w].active
      BY <2>3 DEF ActiveRows
    <3>2. Passed(j) /\ row'[w].sub = jobs[j].sub
      BY <1>4, <2>3, <3>1, UndisturbedStep, WriterPassed
    <3>. QED
      BY <2>2, <2>3, <3>2 DEF ChecksHold
  <2>. QED
    BY <2>1, <2>2, <2>3 DEF SharedOnlyByRace
<1>5. ASSUME UNCHANGED vars PROVE SharedOnlyByRace'
  BY <1>5 DEF vars, SharedOnlyByRace, ActiveRows, IsLive
<1>6. ASSUME NEW j \in Jobs, CountCheck(j) \/ TakenCheck(j) \/ Cloudflare(j) \/ WriteFails(j)
      PROVE  contested \subseteq contested'
  BY <1>6
  DEF CountCheck, TakenCheck, Cloudflare, createDnsRecord, updateDnsRecord,
      deleteDnsRecord, CreateRefused, UpdateRefused, DeleteRefused, WriteFails
<1>. QED
  BY <1>1, <1>2, <1>3, <1>4, <1>5, <1>6, BeginStarts, QuietActions, RecordMade
  DEF Next, Cloudflare

\* Workspaces and handlers can be counted.
LEMMA SetsAreFinite ==
  ASSUME NEW S \in SUBSET Workspaces, NEW T \in SUBSET Jobs
  PROVE  /\ IsFiniteSet(S) /\ Cardinality(S) \in Nat
         /\ IsFiniteSet(T) /\ Cardinality(T) \in Nat /\ Cardinality(T) <= Cardinality(Jobs)
         /\ Cardinality(Jobs) \in Nat
BY FiniteAssumption, FS_Subset, FS_CardinalityType

\* Fewer active rows and fewer activations stay within the bound.
LEMMA FewerStayBounded ==
  ASSUME OvershootIsBounded, ActiveRows' \subseteq ActiveRows, Activating' \subseteq Activating
  PROVE  OvershootIsBounded'
<1>1. ActiveRows \subseteq Workspaces /\ Activating \subseteq Jobs
  BY DEF ActiveRows, Activating
<1>2. /\ Cardinality(ActiveRows') <= Cardinality(ActiveRows)
      /\ Cardinality(Activating') <= Cardinality(Activating)
  BY <1>1, SetsAreFinite, FS_Subset
<1>3. /\ Cardinality(ActiveRows) \in Nat /\ Cardinality(ActiveRows') \in Nat
      /\ Cardinality(Activating) \in Nat /\ Cardinality(Activating') \in Nat
      /\ Cardinality(Jobs) \in Nat
  BY <1>1, SetsAreFinite
<1>. QED
  BY <1>2, <1>3, LimitAssumption DEF OvershootIsBounded

\* Passing the check adds one activation while one handler is still missing from the count,
\* and the write turns an activation into an active row.
LEMMA OvershootStep ==
  TypeOK /\ JobsInForm /\ OvershootIsBounded /\ [Next]_vars
    => OvershootIsBounded'
<1> SUFFICES ASSUME TypeOK, JobsInForm, OvershootIsBounded, [Next]_vars
             PROVE  OvershootIsBounded'
  OBVIOUS
<1>sets. ActiveRows \subseteq Workspaces /\ Activating \subseteq Jobs
  BY DEF ActiveRows, Activating
<1>size. /\ Cardinality(ActiveRows) \in Nat /\ Cardinality(Activating) \in Nat
         /\ Cardinality(Jobs) \in Nat
  BY <1>sets, SetsAreFinite
<1>quiet. ASSUME NEW j \in Jobs, Quiet(j), j \in Activating' => j \in Activating
          PROVE  OvershootIsBounded'
  <2>1. ActiveRows' \subseteq ActiveRows
    BY <1>quiet DEF Quiet, ActiveRows, IsLive
  <2>2. Activating' \subseteq Activating
    BY <1>quiet DEF Quiet, GoesOn, Activating
  <2>. QED
    BY <2>1, <2>2, FewerStayBounded
<1>1. ASSUME NEW j \in Jobs, NEW w \in Workspaces, NEW job \in Job, Starts(j, w, job)
      PROVE  OvershootIsBounded'
  <2>1. jobs'[j] = job /\ \A i \in Jobs : i # j => jobs'[i] = jobs[i]
    BY <1>1 DEF Starts, Start, TypeOK
  <2>2. Activating' \subseteq Activating
    BY <1>1, <2>1 DEF Starts, Activating
  <2>3. ActiveRows' \subseteq ActiveRows
    BY <1>1 DEF Starts, ActiveRows, IsLive
  <2>. QED
    BY <2>2, <2>3, FewerStayBounded
<1>2. ASSUME NEW j \in Jobs, CountCheck(j) PROVE OvershootIsBounded'
  <2>1. Quiet(j) /\ j \notin Activating
    BY <1>2, QuietActions DEF CountCheck, At, Activating, JobsInForm
  <2>2. CASE j \notin Activating'
    BY <2>1, <2>2, <1>quiet
  <2>3. CASE j \in Activating'
    <3>1. UnderLimit
      BY <1>2, <2>3
      DEF CountCheck, At, Goto, Refuse, Finish, TypeOK, Job, NoJob, Activating, JobsInForm
    <3>2. ActiveRows' = ActiveRows
      BY <2>1 DEF Quiet, ActiveRows, IsLive
    <3>3. Activating' \subseteq Activating \cup {j}
      BY <2>1 DEF Quiet, GoesOn, Activating
    <3>4. Cardinality(Activating') <= Cardinality(Activating) + 1 /\ Cardinality(Activating') \in Nat
      <4>1. /\ IsFiniteSet(Activating \cup {j})
            /\ Cardinality(Activating \cup {j}) = Cardinality(Activating) + 1
        BY <1>sets, <2>1, SetsAreFinite, FS_AddElement
      <4>. QED
        BY <4>1, <3>3, <1>size, FS_Subset, FS_CardinalityType
    <3>5. Cardinality(Activating) < Cardinality(Jobs)
      <4>1. Activating \subseteq Jobs \ {j} /\ IsFiniteSet(Jobs) /\ j \in Jobs
        BY <1>sets, <2>1, FiniteAssumption
      <4>2. IsFiniteSet(Jobs \ {j}) /\ Cardinality(Jobs \ {j}) = Cardinality(Jobs) - 1
        BY <4>1, FS_RemoveElement
      <4>3. Cardinality(Activating) <= Cardinality(Jobs \ {j})
        BY <4>1, <4>2, FS_Subset
      <4>. QED
        BY <4>2, <4>3, <1>size
    <3>. QED
      BY <3>1, <3>2, <3>4, <3>5, <1>size, LimitAssumption DEF UnderLimit, OvershootIsBounded
  <2>. QED
    BY <2>2, <2>3
<1>3. ASSUME NEW j \in Jobs, TakenCheck(j) PROVE OvershootIsBounded'
  <2>1. Quiet(j) /\ jobs[j].pc = "taken"
    BY <1>3, QuietActions DEF TakenCheck, At
  <2>2. j \in Activating' => j \in Activating
    BY <2>1 DEF Quiet, GoesOn, NoJob, Activating
  <2>. QED
    BY <2>1, <2>2, <1>quiet
<1>4. ASSUME NEW j \in Jobs, NEW r \in Records, Makes(j, r) PROVE OvershootIsBounded'
  <2>1. ActiveRows' \subseteq ActiveRows
    BY <1>4 DEF Makes, ActiveRows, IsLive
  <2>2. Activating' \subseteq Activating
    BY <1>4 DEF Makes, Activating
  <2>. QED
    BY <2>1, <2>2, FewerStayBounded
<1>5. ASSUME NEW j \in Jobs, Cloudflare(j), Quiet(j) PROVE OvershootIsBounded'
  <2>1. jobs[j].pc = "dns"
    BY <1>5
    DEF Cloudflare, createDnsRecord, updateDnsRecord, deleteDnsRecord, CreateRefused,
        UpdateRefused, DeleteRefused, At
  <2>2. j \in Activating' => j \in Activating
    BY <1>5, <2>1 DEF Quiet, GoesOn, NoJob, Activating
  <2>. QED
    BY <1>5, <2>2, <1>quiet
<1>6. ASSUME NEW j \in Jobs, WriteRow(j) PROVE OvershootIsBounded'
  <2>. DEFINE w == jobs[j].ws
  <2>1. /\ jobs'[j] = NoJob /\ \A i \in Jobs : i # j => jobs'[i] = jobs[i]
        /\ jobs[j].kind \in Kinds /\ jobs[j].pc = "write" /\ w \in Workspaces /\ row[w] \in Row
    BY <1>6 DEF WriteRow, At, Finish, TypeOK, JobsInForm
  <2>2. Activating' \subseteq Activating \ {j}
    BY <2>1 DEF Activating, NoJob
  <2>3. ASSUME NEW v \in ActiveRows', v # w PROVE v \in ActiveRows
    BY <1>6, <2>3 DEF WriteRow, TypeOK, ActiveRows, IsLive
  <2>4. CASE w \in ActiveRows' => w \in ActiveRows
    BY <2>2, <2>3, <2>4, FewerStayBounded
  <2>5. CASE w \in ActiveRows' /\ w \notin ActiveRows
    <3>1. row'[w] = Updated(w, jobs[j])
      <4>1. row'[w].state = "live" /\ row'[w].active /\ ~(row[w].state = "live" /\ row[w].active)
        BY <2>5 DEF ActiveRows, IsLive
      <4>2. row'[w] # row[w]
        BY <4>1
      <4>. QED
        BY <1>6, <2>1, <4>2 DEF WriteRow, TypeOK
    <3>2. j \in Activating
      <4>1. CASE jobs[j].kind = "create"
        <5>1. row'[w] = [state |-> "live", sub |-> jobs[j].sub,
                         active |-> jobs[j].rec # NoRecord, rec |-> jobs[j].rec]
          BY <3>1, <4>1 DEF Updated
        <5>2. row'[w].active = (jobs[j].rec # NoRecord)
          BY <5>1
        <5>. QED
          BY <2>5, <4>1, <5>2 DEF ActiveRows, Activating
      <4>2. CASE jobs[j].kind = "on"
        BY <2>1, <4>2 DEF JobsInForm, Activating
      <4>3. CASE jobs[j].kind = "rename"
        <5>1. row'[w] = [row[w] EXCEPT !.sub = jobs[j].sub]
          BY <3>1, <4>3 DEF Updated
        <5>2. row'[w].active = row[w].active /\ row'[w].state = row[w].state
          BY <2>1, <5>1 DEF Row
        <5>. QED
          BY <2>5, <5>2 DEF ActiveRows, IsLive
      <4>4. CASE jobs[j].kind \in {"off", "remove", "delete"}
        <5>1. ~row'[w].active
          BY <2>1, <3>1, <4>4 DEF Updated, Row
        <5>. QED
          BY <2>5, <5>1 DEF ActiveRows
      <4>. QED
        BY <2>1, <4>1, <4>2, <4>3, <4>4 DEF Kinds
    <3>3. ActiveRows' \subseteq ActiveRows \cup {w}
      BY <2>3
    <3>4. Cardinality(ActiveRows') <= Cardinality(ActiveRows) + 1 /\ Cardinality(ActiveRows') \in Nat
      <4>1. /\ IsFiniteSet(ActiveRows \cup {w})
            /\ Cardinality(ActiveRows \cup {w}) = Cardinality(ActiveRows) + 1
        BY <1>sets, <2>5, SetsAreFinite, FS_AddElement
      <4>. QED
        BY <4>1, <3>3, <1>size, FS_Subset, FS_CardinalityType
    <3>5. Cardinality(Activating') <= Cardinality(Activating) - 1 /\ Cardinality(Activating') \in Nat
      <4>1. /\ IsFiniteSet(Activating \ {j})
            /\ Cardinality(Activating \ {j}) = Cardinality(Activating) - 1
        BY <1>sets, <3>2, SetsAreFinite, FS_RemoveElement
      <4>. QED
        BY <4>1, <2>2, <1>size, FS_Subset, FS_CardinalityType
    <3>. QED
      BY <3>4, <3>5, <1>size, LimitAssumption DEF OvershootIsBounded
  <2>. QED
    BY <2>4, <2>5
<1>7. ASSUME NEW j \in Jobs, WriteFails(j) PROVE OvershootIsBounded'
  <2>1. j \notin Activating'
    BY <1>7 DEF WriteFails, Finish, TypeOK, NoJob, Activating
  <2>. QED
    BY <1>7, <2>1, <1>quiet, QuietActions
<1>8. ASSUME UNCHANGED vars PROVE OvershootIsBounded'
  BY <1>8 DEF vars, OvershootIsBounded, ActiveRows, IsLive, Activating
<1>9. ASSUME NEW j \in Jobs, Cloudflare(j)
      PROVE  Quiet(j) \/ \E r \in Records : Makes(j, r)
  BY <1>9, QuietActions, RecordMade DEF Cloudflare
<1>. QED
  BY <1>1, <1>2, <1>3, <1>4, <1>5, <1>6, <1>7, <1>8, <1>9, BeginStarts DEF Next

-----------------------------------------------------------------------------
(* Theorems *)

WorkspaceInv ==
    /\ TypeOK /\ JobsInForm /\ RecordsArePrivate
    /\ UndisturbedRows /\ ZoneIsAhead /\ RowFollowsZone /\ MakerOwns
    /\ ChecksHold /\ SharedOnlyByRace /\ OvershootIsBounded

\* Without rows, records and handlers all of it holds.
LEMMA WorkspaceInit == Init => WorkspaceInv
<1> SUFFICES ASSUME Init PROVE WorkspaceInv
  OBVIOUS
<1>1. TypeOK /\ JobsInForm /\ RecordsArePrivate
  BY DEF Init, NoRow, NoJob, TypeOK, Row, Job, JobsInForm, Kinds, RecordsArePrivate
<1>2. UndisturbedRows /\ ZoneIsAhead /\ RowFollowsZone /\ MakerOwns
  BY DEF Init, NoRow, NoJob, UndisturbedRows, Undisturbed, ZoneIsAhead, ZoneAhead,
     RowFollowsZone, MakerOwns
<1>3. ChecksHold
  BY DEF Init, NoJob, ChecksHold, Passed
<1>4. ActiveRows = {} /\ Activating = {}
  BY DEF Init, NoRow, NoJob, ActiveRows, IsLive, Activating
<1>5. SharedOnlyByRace
  BY <1>4 DEF SharedOnlyByRace
<1>6. OvershootIsBounded
  <2>1. Cardinality(Jobs) \in Nat /\ Cardinality(Jobs) # 0
    BY FiniteAssumption, JobsAssumption, FS_CardinalityType, FS_EmptySet
  <2>3. Limit + Cardinality(Jobs) > 0
    BY <2>1, LimitAssumption
  <2>2. Cardinality(ActiveRows) = 0 /\ Cardinality(Activating) = 0
    BY <1>4, FS_EmptySet
  <2>. QED
    BY <2>2, <2>3 DEF OvershootIsBounded
<1>. QED
  BY <1>1, <1>2, <1>3, <1>5, <1>6 DEF WorkspaceInv

\* The invariant holds of every run.
LEMMA WorkspaceInvariant == Spec => []WorkspaceInv
<1>1. WorkspaceInv /\ [Next]_vars => WorkspaceInv'
  BY TypeStep, FormStep, PrivateStep, UndisturbedStep, ZoneStep, RowStep, MakerStep,
     ChecksStep, SharedStep, OvershootStep
  DEF WorkspaceInv
<1>. QED
  BY <1>1, WorkspaceInit, PTL DEF Spec

\* Rows, records and handlers keep their types.
THEOREM WorkspaceTypeCorrect == Spec => []TypeOK
<1>1. WorkspaceInv => TypeOK
  BY DEF WorkspaceInv
<1>. QED
  BY <1>1, WorkspaceInvariant, PTL

\* Handlers that pass the limit together pass it by less than their number.
THEOREM LimitOvershoot == Spec => []OvershootIsBounded
<1>1. WorkspaceInv => OvershootIsBounded
  BY DEF WorkspaceInv
<1>. QED
  BY <1>1, WorkspaceInvariant, PTL

\* A subdomain is shared only when two handlers were past the check together, or two
\* handlers of one workspace overlapped.
THEOREM SharingNeedsRace == Spec => []SharedOnlyByRace
<1>1. WorkspaceInv => SharedOnlyByRace
  BY DEF WorkspaceInv
<1>. QED
  BY <1>1, WorkspaceInvariant, PTL

\* Between handlers an undisturbed active row has its record, and the record its subdomain.
THEOREM SettledRowsMatch == Spec => []SettledRowMatchesZone
<1>1. WorkspaceInv => SettledRowMatchesZone
  BY DEF WorkspaceInv, UndisturbedRows, Undisturbed, RowFollowsZone, SettledRowMatchesZone
<1>. QED
  BY <1>1, WorkspaceInvariant, PTL

\* No record is left behind at Cloudflare unless its id was dropped or its workspace
\* disturbed.
THEOREM NoOrphanRecords == Spec => []RecordsAreOwned
<1>1. WorkspaceInv => RecordsAreOwned
  BY DEF WorkspaceInv, MakerOwns, Owned, RecordsAreOwned
<1>. QED
  BY <1>1, WorkspaceInvariant, PTL

=============================================================================
