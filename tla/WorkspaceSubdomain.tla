------------------------- MODULE WorkspaceSubdomain -------------------------
(***************************************************************************)
(* WorkspaceService: the subdomains of workspaces and the DNS records at   *)
(* Cloudflare that make them reachable.  The number of active subdomains   *)
(* is limited, an active one must be unique, and each has a record whose   *)
(* id is kept in the row.                                                  *)
(*                                                                         *)
(* Every check is a query of its own, so handlers interleave between the   *)
(* checks, the call to Cloudflare and the write.  A call to Cloudflare is  *)
(* answered, refused, or takes effect and its answer is lost.              *)
(***************************************************************************)
EXTENDS Naturals, FiniteSets

CONSTANTS
    Workspaces,     \* workspace_index; a row is created at most once
    Names,          \* subdomains
    Records,        \* ids of DNS records, reused once nothing remembers them
    Jobs,           \* handlers at the same time
    Limit,          \* SUBDOMAIN_ACTIVE_LIMIT
    NoName, NoRecord, NoWorkspace

ASSUME NullsAssumption ==
    NoName \notin Names /\ NoRecord \notin Records /\ NoWorkspace \notin Workspaces
ASSUME FiniteAssumption == IsFiniteSet(Workspaces) /\ IsFiniteSet(Jobs)
ASSUME LimitAssumption == Limit \in Nat
ASSUME JobsAssumption == Jobs # {}

VARIABLES
    row,            \* the workspaces table
    zone,           \* the record at Cloudflare under each id: the subdomain it serves
    jobs,           \* the suspended handlers
    maker,          \* history: the workspace each record was made for
    muddled,        \* history: see Muddle and the lost answers
    dropped,        \* history: records whose id the code had no way, or no wish, to keep
    contested       \* history: subdomains two handlers were about to take at the same time

vars == <<row, zone, jobs, maker, muddled, dropped, contested>>
history == <<maker, muddled, dropped, contested>>

Row == [state: {"none", "live", "deleted"}, sub: Names \cup {NoName}, active: BOOLEAN,
        rec: Records \cup {NoRecord}]

NoRow == [state |-> "none", sub |-> NoName, active |-> FALSE, rec |-> NoRecord]

Kinds == {"create", "on", "off", "rename", "remove", "delete"}

\* sub is the subdomain the handler is about, rec the record it found or made.
Job == [kind: Kinds \cup {"none"}, pc: {"idle", "count", "taken", "dns", "write"},
        ws: Workspaces \cup {NoWorkspace}, sub: Names \cup {NoName},
        rec: Records \cup {NoRecord}]

NoJob == [kind |-> "none", pc |-> "idle", ws |-> NoWorkspace, sub |-> NoName, rec |-> NoRecord]

TypeOK ==
    /\ row \in [Workspaces -> Row]
    /\ zone \in [Records -> Names \cup {NoName}]
    /\ jobs \in [Jobs -> Job]
    /\ maker \in [Records -> Workspaces \cup {NoWorkspace}]
    /\ muddled \in [Workspaces -> BOOLEAN]
    /\ dropped \in SUBSET Records
    /\ contested \in SUBSET Names

Init ==
    /\ row = [w \in Workspaces |-> NoRow]
    /\ zone = [r \in Records |-> NoName]
    /\ jobs = [j \in Jobs |-> NoJob]
    /\ maker = [r \in Records |-> NoWorkspace]
    /\ muddled = [w \in Workspaces |-> FALSE]
    /\ dropped = {}
    /\ contested = {}

-----------------------------------------------------------------------------
(* Helpers *)

At(j, kinds, pc) == jobs[j].kind \in kinds /\ jobs[j].pc = pc

Goto(j, pc) == jobs' = [jobs EXCEPT ![j].pc = pc]

Finish(j) == jobs' = [jobs EXCEPT ![j] = NoJob]

IsLive(w) == row[w].state = "live"

ActiveRows == {w \in Workspaces : IsLive(w) /\ row[w].active}

\* countActiveSubdomains is below the limit.
UnderLimit == Cardinality(ActiveRows) < Limit

\* isSubdomainTaken, workspace w excluded.
isSubdomainTaken(x, w) == \E v \in ActiveRows \ {w} : row[v].sub = x

Holds(j, r) == jobs[j].rec = r

\* Records nobody remembers: new ids.
FreshRecords ==
    {r \in Records : /\ zone[r] = NoName
                     /\ \A w \in Workspaces : row[w].rec # r
                     /\ \A j \in Jobs : ~Holds(j, r)}

\* A handler of w starts in slot j.  Two handlers of one workspace at the same time each
\* work on a row that the other one changes.
Start(j, job) ==
    /\ jobs[j] = NoJob
    /\ jobs' = [jobs EXCEPT ![j] = job]
    /\ muddled' = [muddled EXCEPT ![job.ws] = @ \/ \E i \in Jobs : jobs[i].ws = job.ws]

NewJob(kind, pc, w, x, r) == [kind |-> kind, pc |-> pc, ws |-> w, sub |-> x, rec |-> r]

-----------------------------------------------------------------------------
(* Handlers: from the start to the first decision *)

\* With a subdomain the handler goes through tryActivateSubdomain first.
handleCreateWorkspace(j, w, x) ==
    /\ row[w] = NoRow
    /\ \A i \in Jobs : jobs[i].ws # w
    /\ Start(j, NewJob("create", IF x = NoName THEN "write" ELSE "count", w, x, NoRecord))
    /\ UNCHANGED <<row, zone, maker, dropped, contested>>

\* Without a subdomain, or already in the state asked for, nothing happens.
handleToggleWorkspaceSubdomain(j, w, active) ==
    /\ IsLive(w) /\ row[w].sub # NoName /\ row[w].active # active
    /\ Start(j, IF active THEN NewJob("on", "count", w, row[w].sub, NoRecord)
                ELSE NewJob("off", IF row[w].rec = NoRecord THEN "write" ELSE "dns",
                            w, NoName, row[w].rec))
    /\ UNCHANGED <<row, zone, maker, dropped, contested>>

\* Removal of the value: the record goes first, if there is one.
RemoveSubdomain(j, w) ==
    /\ IsLive(w) /\ row[w].sub # NoName
    /\ Start(j, NewJob("remove", IF row[w].rec = NoRecord THEN "write" ELSE "dns",
                       w, NoName, row[w].rec))
    /\ UNCHANGED <<row, zone, maker, dropped, contested>>

\* A new value: checked and moved at Cloudflare only while the subdomain is active.
handleUpdateWorkspaceSubdomain(j, w, x) ==
    /\ IsLive(w) /\ row[w].sub # x
    /\ Start(j, IF row[w].active /\ row[w].rec # NoRecord
                THEN NewJob("rename", "taken", w, x, row[w].rec)
                ELSE NewJob("rename", "write", w, x, NoRecord))
    /\ UNCHANGED <<row, zone, maker, dropped, contested>>

handleDeleteWorkspace(j, w) ==
    /\ IsLive(w)
    /\ Start(j, NewJob("delete", IF row[w].rec = NoRecord THEN "write" ELSE "dns",
                       w, NoName, row[w].rec))
    /\ UNCHANGED <<row, zone, maker, dropped, contested>>

-----------------------------------------------------------------------------
(* Checks *)

\* A creation that may not activate goes on without a record, the others end.
Refuse(j) ==
    IF jobs[j].kind = "create" THEN Goto(j, "write") ELSE Finish(j)

\* Mutant: off by one.
CountAtMostLimit(j) ==
    /\ At(j, {"create", "on"}, "count")
    /\ IF Cardinality(ActiveRows) <= Limit THEN Goto(j, "taken") ELSE Refuse(j)
    /\ UNCHANGED <<row, zone, history>>

CountCheck(j) ==
    /\ At(j, {"create", "on"}, "count")
    /\ IF UnderLimit THEN Goto(j, "taken") ELSE Refuse(j)
    /\ UNCHANGED <<row, zone, history>>

\* Another handler has passed its check for the same subdomain and has yet to write.
Contested(j) ==
    \E i \in Jobs \ {j} : /\ jobs[i].sub = jobs[j].sub
                          /\ At(i, {"create", "on", "rename"}, "dns")
                             \/ At(i, {"create", "on", "rename"}, "write")

\* Mutant: a new value is not checked.
TakenCheckButNotRename(j) ==
    /\ At(j, {"create", "on", "rename"}, "taken")
    /\ IF jobs[j].kind # "rename" /\ isSubdomainTaken(jobs[j].sub, jobs[j].ws)
       THEN Refuse(j) ELSE Goto(j, "dns")
    /\ contested' = contested \cup (IF Contested(j) THEN {jobs[j].sub} ELSE {})
    /\ UNCHANGED <<row, zone, maker, muddled, dropped>>

TakenCheck(j) ==
    /\ At(j, {"create", "on", "rename"}, "taken")
    /\ IF isSubdomainTaken(jobs[j].sub, jobs[j].ws) THEN Refuse(j) ELSE Goto(j, "dns")
    /\ contested' = contested \cup (IF Contested(j) THEN {jobs[j].sub} ELSE {})
    /\ UNCHANGED <<row, zone, maker, muddled, dropped>>

-----------------------------------------------------------------------------
(* Cloudflare *)

\* A record comes into being; if the answer is lost nobody has its id.
createDnsRecord(j, r, answered) ==
    /\ At(j, {"create", "on"}, "dns")
    /\ r \in FreshRecords
    /\ zone' = [zone EXCEPT ![r] = jobs[j].sub]
    /\ maker' = [maker EXCEPT ![r] = jobs[j].ws]
    /\ IF answered
       THEN /\ jobs' = [jobs EXCEPT ![j] = [@ EXCEPT !.pc = "write", !.rec = r]]
            /\ dropped' = dropped \ {r}
       ELSE /\ Refuse(j)
            /\ dropped' = dropped \cup {r}
    /\ UNCHANGED <<row, muddled, contested>>

CreateRefused(j) ==
    /\ At(j, {"create", "on"}, "dns")
    /\ Refuse(j)
    /\ UNCHANGED <<row, zone, history>>

\* The record is renamed; a lost answer reads as a failure.
updateDnsRecord(j, answered) ==
    /\ At(j, {"rename"}, "dns")
    /\ zone[jobs[j].rec] # NoName
    /\ zone' = [zone EXCEPT ![jobs[j].rec] = jobs[j].sub]
    /\ IF answered
       THEN Goto(j, "write") /\ UNCHANGED muddled
       ELSE Finish(j) /\ muddled' = [muddled EXCEPT ![jobs[j].ws] = TRUE]
    /\ UNCHANGED <<row, maker, dropped, contested>>

\* Mutant: the new value is stored although the record kept the old one.
UpdateRefusedGoesOn(j) ==
    /\ At(j, {"rename"}, "dns")
    /\ Goto(j, "write")
    /\ UNCHANGED <<row, zone, history>>

UpdateRefused(j) ==
    /\ At(j, {"rename"}, "dns")
    /\ Finish(j)
    /\ UNCHANGED <<row, zone, history>>

\* The record goes; a lost answer stops only the deletion of the workspace, whose row
\* then names a record that is gone.
deleteDnsRecord(j, answered) ==
    /\ At(j, {"off", "remove", "delete"}, "dns")
    /\ zone[jobs[j].rec] # NoName
    /\ zone' = [zone EXCEPT ![jobs[j].rec] = NoName]
    /\ IF answered \/ jobs[j].kind # "delete"
       THEN Goto(j, "write") /\ UNCHANGED muddled
       ELSE Finish(j) /\ muddled' = [muddled EXCEPT ![jobs[j].ws] = TRUE]
    /\ maker' = [maker EXCEPT ![jobs[j].rec] = NoWorkspace]
    /\ dropped' = dropped \ {jobs[j].rec}
    /\ UNCHANGED <<row, contested>>

\* Mutant: the workspace is deleted although its record is not.
DeleteRefusedGoesOn(j) ==
    /\ At(j, {"off", "remove", "delete"}, "dns")
    /\ Goto(j, "write")
    /\ dropped' = dropped \cup (IF jobs[j].kind = "delete" THEN {} ELSE {jobs[j].rec})
    /\ UNCHANGED <<row, zone, maker, muddled, contested>>

\* Refused, or there is no such record: off and remove forget the id all the same.
DeleteRefused(j) ==
    /\ At(j, {"off", "remove", "delete"}, "dns")
    /\ IF jobs[j].kind = "delete"
       THEN Finish(j) /\ UNCHANGED dropped
       ELSE /\ Goto(j, "write")
            /\ dropped' = dropped \cup {r \in {jobs[j].rec} : zone[r] # NoName}
    /\ UNCHANGED <<row, zone, maker, muddled, contested>>

-----------------------------------------------------------------------------
(* Writes *)

\* What each handler's update leaves in the row it finds: the columns it names and no
\* others.
Updated(w, job) ==
    CASE job.kind = "create" -> [state |-> "live", sub |-> job.sub,
                                 active |-> job.rec # NoRecord, rec |-> job.rec]
      [] job.kind = "on"     -> [row[w] EXCEPT !.active = TRUE, !.rec = job.rec]
      [] job.kind = "off"    -> [row[w] EXCEPT !.active = FALSE, !.rec = NoRecord]
      [] job.kind = "remove" -> [row[w] EXCEPT !.sub = NoName, !.active = FALSE, !.rec = NoRecord]
      [] job.kind = "rename" -> [row[w] EXCEPT !.sub = job.sub]
      [] job.kind = "delete" -> [row[w] EXCEPT !.state = "deleted", !.active = FALSE,
                                               !.rec = NoRecord]

\* Only the deletion insists on a row that is still there.
WriteRow(j) ==
    /\ At(j, Kinds, "write")
    /\ row' = [row EXCEPT ![jobs[j].ws] =
                  IF jobs[j].kind = "delete" /\ ~IsLive(jobs[j].ws) THEN @
                  ELSE Updated(jobs[j].ws, jobs[j])]
    /\ Finish(j)
    /\ UNCHANGED <<zone, history>>

\* The database refuses the write (a workspace of that name exists, or it is down), or
\* the Hub stops here: what was done at Cloudflare stays done.
WriteFails(j) ==
    /\ At(j, Kinds, "write")
    /\ Finish(j)
    /\ dropped' = dropped \cup (IF jobs[j].kind \in {"create", "on"}
                               THEN {jobs[j].rec} \cap Records ELSE {})
    /\ muddled' = [muddled EXCEPT ![jobs[j].ws] = @ \/ jobs[j].kind # "create"]
    /\ UNCHANGED <<row, zone, maker, contested>>

-----------------------------------------------------------------------------
Begin(j) ==
    \E w \in Workspaces :
        \/ \E x \in Names \cup {NoName} : handleCreateWorkspace(j, w, x)
        \/ \E active \in BOOLEAN : handleToggleWorkspaceSubdomain(j, w, active)
        \/ \E x \in Names : handleUpdateWorkspaceSubdomain(j, w, x)
        \/ RemoveSubdomain(j, w)
        \/ handleDeleteWorkspace(j, w)

Cloudflare(j) ==
    \/ \E answered \in BOOLEAN :
          \/ \E r \in Records : createDnsRecord(j, r, answered)
          \/ updateDnsRecord(j, answered)
          \/ deleteDnsRecord(j, answered)
    \/ CreateRefused(j) \/ UpdateRefused(j) \/ DeleteRefused(j)

Next ==
    \E j \in Jobs : \/ Begin(j)
                    \/ CountCheck(j) \/ TakenCheck(j)
                    \/ Cloudflare(j)
                    \/ WriteRow(j) \/ WriteFails(j)

Spec == Init /\ [][Next]_vars

-----------------------------------------------------------------------------
(* Properties *)

\* Handlers that have found the limit not reached and have yet to make use of it.
Activating ==
    {j \in Jobs : /\ jobs[j].kind \in {"create", "on"}
                  /\ jobs[j].pc \in {"taken", "dns"} \/ jobs[j].rec # NoRecord}

\* The limit is checked and used in different steps, so activations in flight pass it
\* together; the excess, those still in flight counted, is less than the number of
\* handlers that can run at the same time.
OvershootIsBounded ==
    Cardinality(ActiveRows) + Cardinality(Activating) < Limit + Cardinality(Jobs)

\* Two workspaces are active under the same subdomain only if both passed the check before
\* either wrote, or one of them was worked on by two handlers at once.
SharedOnlyByRace ==
    \A v, w \in ActiveRows :
        v # w /\ row[v].sub = row[w].sub
          => row[v].sub \in contested \/ muddled[v] \/ muddled[w]

\* Between handlers, an active workspace is served by its own record under its own
\* subdomain, whatever other workspaces do and whichever calls are refused, unless two of
\* its own handlers overlapped or an answer of Cloudflare was lost.
SettledRowMatchesZone ==
    \A w \in Workspaces :
        /\ row[w].active
        /\ ~muddled[w]
        /\ \A j \in Jobs : jobs[j].ws # w
        => row[w].rec # NoRecord /\ zone[row[w].rec] = row[w].sub

\* Every record at Cloudflare is named by a live row or by the handler that made it,
\* unless its id was dropped (a lost answer, a refused deletion that off and remove
\* ignore, a failed insert) or two handlers of the workspace overlapped.
RecordsAreOwned ==
    \A r \in Records :
        zone[r] # NoName =>
          \/ \E w \in Workspaces : IsLive(w) /\ row[w].rec = r
          \/ \E j \in Jobs : Holds(j, r)
          \/ r \in dropped
          \/ muddled[maker[r]]

=============================================================================
