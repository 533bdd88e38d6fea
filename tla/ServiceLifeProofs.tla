------------------------- MODULE ServiceLifeProofs -------------------------
(***************************************************************************)
(* Proofs about ServiceLife for any number of services, names, subdomains, *)
(* handlers and endpoints of a request.  The inductive invariant says what *)
(* a handler carries from one step to the next, which checks still hold    *)
(* when their handler writes, who is about to write the endpoints of a     *)
(* service that has none, and that whoever still works on a deleted        *)
(* service has been overtaken by its deletion.                             *)
(***************************************************************************)
EXTENDS ServiceLife, WellFoundedInduction, SequenceTheorems, TLAPS

USE DEF history

-----------------------------------------------------------------------------
(* What a handler carries from one step to the next *)

\* What the row of a handler holds at each of its steps.
InForm(job) ==
    /\ job \in Job
    /\ job.pc = "idle" => job = NoJob
    /\ job.pc = "insert" =>
          job.op = "create" /\ job.list # <<>> /\ job.svc = NoService /\ job.name \in Names
    /\ job.pc \notin {"idle", "insert"} => job.svc \in Services
    /\ job.pc \in {"name", "update", "check", "clear", "fill"} => job.list # <<>>
    /\ job.prim # "none" => job.pc = "point"
    /\ job.op # "subdomain" => job.pc \notin {"taken", "primary", "point"}
    /\ job.pc \in {"stop", "plan", "name", "update"} => job.name \in Names

\* Every handler is in form.
JobsInForm == jobs \in [Jobs -> Job] /\ \A j \in Jobs : InForm(jobs[j])

-----------------------------------------------------------------------------
(* Lists of endpoints *)

\* A list that a request asks for is a sequence of subdomains, and not empty.
LEMMA ListsAreSequences ==
  ASSUME NEW list \in EndpointLists
  PROVE  list \in Seq(Subdomain) /\ list # <<>>
<1>1. PICK n \in 1..MaxEndpoints : list \in [1..n -> Subdomain]
  BY DEF EndpointLists
<1>2. 1 \in DOMAIN list
  BY <1>1
<1>. QED
  BY <1>1, <1>2

\* A set of natural numbers has a least element.
LEMMA HasLeast ==
  ASSUME NEW S \in SUBSET Nat, S # {}
  PROVE  \E i \in S : \A k \in S : i <= k
<1> DEFINE R == {ss \in Nat \X Nat : ss[1] < ss[2]}
<1>1. IsWellFoundedOn(R, Nat)
  BY NatLessThanWellFounded DEF OpToRel
<1>2. PICK i \in S : \A k \in S : <<k, i>> \notin R
  <2>. HIDE DEF R
  <2>. QED
    BY <1>1, WFMin
<1>3. ASSUME NEW k \in S PROVE i <= k
  <2>1. ~(k < i)
    BY <1>2
  <2>. QED
    BY <2>1
<1>. QED
  BY <1>3

\* The first public subdomain of a list is one, or the default.
LEMMA FirstPublicType ==
  ASSUME NEW list \in Seq(Subdomain), NEW x \in Subdomain
  PROVE  FirstPublic(list, x) \in Subdomain
<1> DEFINE public == {i \in DOMAIN list : list[i] # NoSub}
           first == CHOOSE i \in public : \A k \in public : i <= k
<1>1. CASE public = {}
  BY <1>1 DEF FirstPublic
<1>2. CASE public # {}
  <2>1. public \in SUBSET Nat
    OBVIOUS
  <2>2. \E i \in public : \A k \in public : i <= k
    BY <1>2, <2>1, HasLeast
  <2>3. first \in public
    BY <2>2
  <2>. QED
    BY <1>2, <2>3 DEF FirstPublic
<1>. QED
  BY <1>1, <1>2

\* normalizeEndpoints never returns an empty list.
LEMMA NormalizedType ==
  ASSUME NEW list \in EndpointLists \cup {<<>>}, NEW ports \in 1..MaxEndpoints, NEW x \in Subdomain
  PROVE  normalizeEndpoints(list, ports, x) \in EndpointLists
BY DEF normalizeEndpoints, EndpointLists, Subdomain

\* A handler that is replaced by one in form leaves all in form.
LEMMA Becomes ==
  ASSUME JobsInForm, NEW j \in Jobs, NEW r, InForm(r), jobs' = [jobs EXCEPT ![j] = r]
  PROVE  JobsInForm'
BY DEF JobsInForm, InForm

\* A free slot is in form.
LEMMA NoJobForm == InForm(NoJob)
BY DEF NoJob, Job, InForm, Subdomain

\* A handler that ends leaves a free slot.
LEMMA Ends ==
  ASSUME JobsInForm, NEW j \in Jobs, Finish(j)
  PROVE  JobsInForm'
BY NoJobForm, Becomes DEF Finish

\* A handler that only goes on to another step stays in form.
LEMMA Moves ==
  ASSUME JobsInForm, NEW j \in Jobs, NEW pc \in Pcs \ {"insert"}, Goto(j, pc),
         jobs[j].pc \notin {"idle", "insert"},
         pc \in {"name", "update", "check", "clear", "fill"} => jobs[j].list # <<>>,
         jobs[j].prim = "none",
         pc \in {"taken", "primary", "point"} => jobs[j].op = "subdomain",
         pc \in {"stop", "plan", "name", "update"} => jobs[j].name \in Names
  PROVE  JobsInForm'
<1> DEFINE r == [jobs[j] EXCEPT !.pc = pc]
<1>1. jobs[j] \in Job /\ InForm(jobs[j])
  BY DEF JobsInForm
<1>2. /\ r \in Job /\ r.pc = pc /\ r.svc = jobs[j].svc /\ r.list = jobs[j].list
      /\ r.prim = jobs[j].prim /\ r.op = jobs[j].op /\ r.name = jobs[j].name
  BY <1>1 DEF Job
<1>3. pc # "idle" /\ pc # "insert"
  BY DEF Pcs
<1>. HIDE DEF r
<1>4. InForm(r)
  BY <1>1, <1>2, <1>3 DEF InForm
<1>5. jobs' = [jobs EXCEPT ![j] = r]
  BY DEF Goto, r
<1>. QED
  BY <1>4, <1>5, Becomes

\* What a handler carries, field by field.
LEMMA Inside ==
  ASSUME JobsInForm, NEW j \in Jobs
  PROVE  /\ jobs[j].pc \notin {"idle", "insert"} => Svc(j) \in Services
         /\ Svc(j) # NoService => Svc(j) \in Services
         /\ jobs[j].name \in Names \cup {NoName}
         /\ jobs[j].pc = "update" => jobs[j].name \in Names
         /\ jobs[j].sub \in Subdomain
         /\ jobs[j].list \in Seq(Subdomain)
         /\ jobs[j].pc \in {"check", "clear", "fill"} => jobs[j].list # <<>>
         /\ jobs[j].scope \in {"containers", "service"}
         /\ InForm(jobs[j])
<1>1. jobs[j] \in Job /\ InForm(jobs[j])
  BY DEF JobsInForm
<1>2. jobs[j].list \in EndpointLists \cup {<<>>} /\ jobs[j].svc \in Services \cup {NoService}
      /\ jobs[j].name \in Names \cup {NoName} /\ jobs[j].sub \in Subdomain
      /\ jobs[j].scope \in {"containers", "service"}
  BY <1>1 DEF Job
<1>3. jobs[j].list \in Seq(Subdomain)
  BY <1>2, ListsAreSequences, EmptySeq
<1>. QED
  BY <1>1, <1>2, <1>3 DEF InForm, Svc

\* A list publishes subdomains only.
LEMMA PublicType ==
  ASSUME NEW list \in Seq(Subdomain)
  PROVE  Public(list) \in SUBSET Subs
BY DEF Public, Subdomain

\* Replacing the first endpoint publishes at most the new subdomain.
LEMMA PointedList ==
  ASSUME NEW list \in Seq(Subdomain), NEW x \in Subdomain
  PROVE  /\ [list EXCEPT ![1] = x] \in Seq(Subdomain)
         /\ Public([list EXCEPT ![1] = x]) \subseteq Public(list) \cup ({x} \ {NoSub})
         /\ list # <<>> => [list EXCEPT ![1] = x] # <<>>
<1> DEFINE new == [list EXCEPT ![1] = x]
<1>1. new \in Seq(Subdomain)
  <2>1. CASE Len(list) = 0
    <3>1. list = <<>> /\ 1 \notin DOMAIN list
      BY <2>1
    <3>2. new = list
      BY <3>1
    <3>. QED
      BY <3>2
  <2>2. CASE Len(list) # 0
    BY <2>2, 1 \in 1..Len(list)
  <2>. QED
    BY <2>1, <2>2
<1>2. DOMAIN new = DOMAIN list /\ \A i \in DOMAIN list : new[i] = IF i = 1 THEN x ELSE list[i]
  OBVIOUS
<1>3. list # <<>> => new # <<>>
  <2>1. list # <<>> => 1 \in DOMAIN list
    BY EmptySeq
  <2>. HIDE DEF new
  <2>. QED
    BY <1>2, <2>1
<1>. HIDE DEF new
<1>4. Public(new) \subseteq Public(list) \cup ({x} \ {NoSub})
  BY <1>2 DEF Public
<1>. QED
  BY <1>1, <1>3, <1>4 DEF new

\* So does adding an endpoint.
LEMMA AppendedList ==
  ASSUME NEW list \in Seq(Subdomain), NEW x \in Subdomain
  PROVE  /\ Append(list, x) \in Seq(Subdomain)
         /\ Public(Append(list, x)) \subseteq Public(list) \cup ({x} \ {NoSub})
         /\ Append(list, x) # <<>>
BY DEF Public

\* Two lists together publish what each of them does.
LEMMA JoinedLists ==
  ASSUME NEW list \in Seq(Subdomain), NEW more \in Seq(Subdomain)
  PROVE  /\ list \o more \in Seq(Subdomain)
         /\ Public(list \o more) \subseteq Public(list) \cup Public(more)
         /\ more # <<>> => list \o more # <<>>
<1>1. /\ list \o more \in Seq(Subdomain)
      /\ Len(list \o more) = Len(list) + Len(more)
      /\ \A i \in 1..Len(list) + Len(more) :
            (list \o more)[i] = IF i <= Len(list) THEN list[i] ELSE more[i - Len(list)]
  BY ConcatProperties
<1>2. Public(list \o more) \subseteq Public(list) \cup Public(more)
  <2>1. ASSUME NEW i \in 1..Len(list) + Len(more), (list \o more)[i] # NoSub
        PROVE  (list \o more)[i] \in Public(list) \cup Public(more)
    <3>1. CASE i <= Len(list)
      <4>1. i \in DOMAIN list /\ (list \o more)[i] = list[i]
        BY <1>1, <3>1
      <4>. QED
        BY <2>1, <4>1 DEF Public
    <3>2. CASE i > Len(list)
      <4>1. i - Len(list) \in DOMAIN more /\ (list \o more)[i] = more[i - Len(list)]
        BY <1>1, <3>2
      <4>. QED
        BY <2>1, <4>1 DEF Public
    <3>. QED
      BY <3>1, <3>2
  <2>2. DOMAIN (list \o more) = 1..Len(list) + Len(more)
    BY <1>1
  <2>. QED
    BY <2>1, <2>2 DEF Public
<1>3. more # <<>> => list \o more # <<>>
  <2>1. more # <<>> => Len(more) \in Nat \ {0}
    BY EmptySeq
  <2>. QED
    BY <1>1, <2>1
<1>. QED
  BY <1>1, <1>2, <1>3

-----------------------------------------------------------------------------
(* What a step does to the handlers *)

\* Handler j goes on to step pc; nobody's service, list or subdomain changes.
GoesOn(j, pc) ==
    /\ \A i \in Jobs : /\ jobs'[i].svc = jobs[i].svc /\ jobs'[i].op = jobs[i].op
                       /\ i # j => jobs'[i].pc = jobs[i].pc
                       /\ jobs'[i].list = jobs[i].list /\ jobs'[i].sub = jobs[i].sub
    /\ jobs'[j].pc = pc

\* Goto changes the step only.
LEMMA Passes ==
  ASSUME JobsInForm, NEW j \in Jobs, NEW pc, Goto(j, pc)
  PROVE  GoesOn(j, pc)
<1> DEFINE r == [jobs[j] EXCEPT !.pc = pc]
<1>1. jobs[j] \in Job /\ jobs \in [Jobs -> Job]
  BY DEF JobsInForm
<1>2. /\ r.svc = jobs[j].svc /\ r.op = jobs[j].op /\ r.list = jobs[j].list
      /\ r.sub = jobs[j].sub /\ r.pc = pc
  BY <1>1
<1>3. jobs' = [jobs EXCEPT ![j] = r]
  BY DEF Goto
<1>. HIDE DEF r
<1>. QED
  BY <1>1, <1>2, <1>3 DEF GoesOn

\* The steps that change a row or an endpoint and go on with the same request.
LEMMA Keepers ==
  ASSUME JobsInForm, NEW j \in Jobs
  PROVE  /\ RedeployUpdate(j) => GoesOn(j, "check")
         /\ FindPrimary(j) => GoesOn(j, "point")
         /\ PointPrimary(j) => GoesOn(j, "mirror")
         /\ ClearEndpoints(j) => GoesOn(j, "fill")
<1>. USE DEF Job
<1>1. jobs[j] \in Job /\ jobs \in [Jobs -> Job]
  BY DEF JobsInForm
<1>2. ASSUME RedeployUpdate(j) PROVE GoesOn(j, "check")
  BY <1>1, <1>2 DEF RedeployUpdate, GoesOn
<1>3. ASSUME FindPrimary(j) PROVE GoesOn(j, "point")
  <2> DEFINE prim == IF endpoints[Svc(j)] = <<>> THEN "none" ELSE "some"
  <2>1. jobs' = [jobs EXCEPT ![j] = [@ EXCEPT !.pc = "point", !.prim = prim]]
    BY <1>3 DEF FindPrimary
  <2>. HIDE DEF prim
  <2>. QED
    BY <1>1, <2>1 DEF GoesOn
<1>4. ASSUME PointPrimary(j) PROVE GoesOn(j, "mirror")
  BY <1>1, <1>4 DEF PointPrimary, GoesOn
<1>5. ASSUME ClearEndpoints(j) PROVE GoesOn(j, "fill")
  BY <1>1, <1>5 DEF ClearEndpoints, GoesOn
<1>. QED
  BY <1>2, <1>3, <1>4, <1>5

\* Handler j ends.
Closes(j) ==
    /\ \A i \in Jobs \ {j} : jobs'[i] = jobs[i]
    /\ jobs'[j] = NoJob
    /\ jobs'[j].svc = NoService /\ jobs'[j].pc = "idle"
    /\ overtaken' = overtaken \ {j}

\* Finish frees the slot of its handler only.
LEMMA Closed ==
  ASSUME JobsInForm, NEW j \in Jobs, Finish(j)
  PROVE  Closes(j)
BY DEF JobsInForm, Finish, Closes, NoJob

\* Handler j gets the new row s.
Created(j, s) ==
    /\ \A i \in Jobs \ {j} : jobs'[i] = jobs[i]
    /\ jobs'[j].svc = s /\ jobs'[j].op = "create" /\ jobs'[j].pc = "check"
    /\ jobs'[j].list = jobs[j].list
    /\ services[s] = NoRow /\ services[s].state = "none"
    /\ services'[s].state = "live"
    /\ \A t \in Services \ {s} : services'[t] = services[t]

\* handleCreateService inserts a row no handler works on yet.
LEMMA RowCreated ==
  ASSUME JobsInForm, ServiceTypeOK, NEW j \in Jobs, NEW s \in Services, CreateRow(j, s)
  PROVE  Created(j, s)
<1>1. jobs[j] \in Job /\ jobs \in [Jobs -> Job]
  BY DEF JobsInForm
<1>2. /\ \A i \in Jobs \ {j} : jobs'[i] = jobs[i]
      /\ jobs'[j].svc = s /\ jobs'[j].op = "create" /\ jobs'[j].pc = "check"
      /\ jobs'[j].list = jobs[j].list
  BY <1>1 DEF CreateRow, At
<1>3. /\ services[s] = NoRow /\ services[s].state = "none"
      /\ services'[s].state = "live"
      /\ \A t \in Services \ {s} : services'[t] = services[t]
  BY DEF CreateRow, NoRow, ServiceTypeOK
<1>. QED
  BY <1>2, <1>3 DEF Created

\* A handler starts in slot j, with nothing to write yet.
Opens(j) ==
    /\ jobs[j].svc = NoService /\ jobs[j].pc = "idle"
    /\ \A i \in Jobs \ {j} : jobs'[i] = jobs[i]
    /\ jobs'[j].pc \in {"insert", "stop", "plan", "fail", "write", "taken", "check"}

\* Start fills a free slot.
LEMMA Opening ==
  ASSUME JobsInForm, NEW j \in Jobs, NEW job, Start(j, job),
         job.pc \in {"insert", "stop", "plan", "fail", "write", "taken", "check"}
  PROVE  Opens(j)
BY DEF Start, Opens, NoJob, JobsInForm

\* No handler changes a row or an endpoint when it starts.
LEMMA Opened ==
  ASSUME JobsInForm, NEW j \in Jobs,
         \/ \E n \in Names, list \in EndpointLists : handleCreateService(j, n, list)
         \/ \E s \in Services :
               \/ CommandFails(j, s)
               \/ \E scope \in {"containers", "service"} : handleDeleteService(j, s, scope)
               \/ \E x \in Subdomain : handleUpdateServiceSubdomain(j, s, x)
               \/ \E list \in EndpointLists \cup {<<>>} :
                     \/ \E ports \in 1..MaxEndpoints :
                           handleUpdateServiceEndpoints(j, s, list, ports)
                     \/ \E n \in Names, moves \in BOOLEAN :
                           handleRedeployService(j, s, n, list, moves)
  PROVE  Opens(j) /\ UNCHANGED <<services, endpoints, history>>
<1>1. ASSUME NEW n \in Names, NEW list \in EndpointLists, handleCreateService(j, n, list)
      PROVE  Opens(j) /\ UNCHANGED <<services, endpoints, history>>
  BY <1>1, Opening DEF handleCreateService, NoJob
<1>2. ASSUME NEW s \in Services, CommandFails(j, s)
      PROVE  Opens(j) /\ UNCHANGED <<services, endpoints, history>>
  BY <1>2, Opening DEF CommandFails, NoJob
<1>3. ASSUME NEW s \in Services, NEW scope \in {"containers", "service"},
             handleDeleteService(j, s, scope)
      PROVE  Opens(j) /\ UNCHANGED <<services, endpoints, history>>
  BY <1>3, Opening DEF handleDeleteService, NoJob
<1>4. ASSUME NEW s \in Services, NEW x \in Subdomain,
             handleUpdateServiceSubdomain(j, s, x)
      PROVE  Opens(j) /\ UNCHANGED <<services, endpoints, history>>
  BY <1>4, Opening DEF handleUpdateServiceSubdomain, NoJob
<1>5. ASSUME NEW s \in Services, NEW list \in EndpointLists \cup {<<>>},
             NEW ports \in 1..MaxEndpoints, handleUpdateServiceEndpoints(j, s, list, ports)
      PROVE  Opens(j) /\ UNCHANGED <<services, endpoints, history>>
  BY <1>5, Opening DEF handleUpdateServiceEndpoints, NoJob
<1>6. ASSUME NEW s \in Services, NEW list \in EndpointLists \cup {<<>>},
             NEW n \in Names, NEW moves \in BOOLEAN, handleRedeployService(j, s, n, list, moves)
      PROVE  Opens(j) /\ UNCHANGED <<services, endpoints, history>>
  BY <1>6, Opening DEF handleRedeployService, NoJob
<1>. QED
  BY <1>1, <1>2, <1>3, <1>4, <1>5, <1>6

\* A subdomain that service s publishes anew is shared only if it is noted as raced.
LEMMA StillShared ==
  ASSUME SubdomainSharedByRace, NEW s \in Services, NEW new,
         Published(s)' \subseteq Published(s) \cup new,
         \A t \in Services \ {s} : Published(t)' = Published(t),
         raced \subseteq raced',
         \A t \in Services \ {s} : Published(t) \cap new \subseteq raced'
  PROVE  SubdomainSharedByRace'
<1> SUFFICES ASSUME NEW t \in Services, NEW u \in Services, t # u
             PROVE  Published(t)' \cap Published(u)' \subseteq raced'
  BY DEF SubdomainSharedByRace
<1>1. Published(t) \cap Published(u) \subseteq raced
  BY DEF SubdomainSharedByRace
<1>2. CASE t = s
  BY <1>1, <1>2
<1>3. CASE u = s
  BY <1>1, <1>3
<1>4. CASE t # s /\ u # s
  BY <1>1, <1>4
<1>. QED
  BY <1>2, <1>3, <1>4

\* A service without endpoints publishes nothing.
LEMMA ClearedLists == Public(<<>>) = {}
BY DEF Public

-----------------------------------------------------------------------------
(* The inductive invariant *)

\* The services that handlers work on have rows.
HandledRowsExist == \A j \in Jobs, s \in Services : jobs[j].svc = s => services[s].state # "none"
\* Handler j creates service s, or has deleted its endpoints, and will write them.
IsWriting(j, s) ==
    /\ jobs[j].svc = s
    /\ \/ jobs[j].pc = "fill"
       \/ jobs[j].op = "create" /\ jobs[j].pc \in {"check", "clear"}

\* A service without endpoints has such a handler, unless one of them failed.
EmptiedIsWritten == \A s \in Services : services[s].state # "none" /\ endpoints[s] = <<>> =>
        s \in bare \/ \E j \in Jobs : IsWriting(j, s)
\* The subdomains handler j has checked and has yet to write.
ToWrite(j) == IF jobs[j].pc \in {"clear","fill"} THEN Public(jobs[j].list)
   ELSE IF jobs[j].pc \in {"primary","point"} THEN {jobs[j].sub} \ {NoSub} ELSE {}
\* The check of a handler that nobody has overtaken still holds.
ChecksHold == \A j \in Jobs \ overtaken : ~SubdomainTaken(ToWrite(j), Svc(j))
\* Whoever still works on a deleted service had read it before.
ReadersAreOvertaken ==
    \A j \in Jobs, s \in Services :
        services[s].state = "deleted" /\ jobs[j].svc = s => j \in overtaken

\* A step leaves what a deletion makes final as it is.
Untouched(s) ==
    /\ services'[s].state = services[s].state
    /\ services'[s].name = services[s].name
    /\ services'[s].subdomain = services[s].subdomain
    /\ endpoints'[s] = endpoints[s]
    /\ s \in deployed' <=> s \in deployed

\* The step is one of a handler of service s.
ByHandler(s) == \E j \in Jobs : jobs[j].svc = s /\ jobs'[j] # jobs[j]

\* Only its own handlers touch a deleted service.
DeletedUntouched ==
    \A s \in Services : services[s].state = "deleted" => Untouched(s) \/ ByHandler(s)

-----------------------------------------------------------------------------
(* Preservation *)

\* Every handler remembers what its next step needs.
LEMMA JobsStep == JobsInForm /\ ServiceTypeOK /\ [ServiceNext]_serviceVars => JobsInForm'
<1> SUFFICES ASSUME JobsInForm, ServiceTypeOK, [ServiceNext]_serviceVars PROVE JobsInForm'
  OBVIOUS
<1>1. ASSUME NEW j \in Jobs, NEW n \in Names, NEW list \in EndpointLists,
             handleCreateService(j, n, list)
      PROVE  JobsInForm'
  <2> DEFINE r == [NoJob EXCEPT !.op = "create", !.pc = "insert", !.name = n, !.list = list]
  <2>1. InForm(r)
    BY <1>1, ListsAreSequences DEF NoJob, InForm, Job, Subdomain, Ops, Pcs
  <2>2. jobs' = [jobs EXCEPT ![j] = r]
    BY <1>1 DEF handleCreateService, Start
  <2>. HIDE DEF r
  <2>. QED
    BY <2>1, <2>2, Becomes
<1>2. ASSUME NEW j \in Jobs, NEW s \in Services, CreateRow(j, s) PROVE JobsInForm'
  <2> DEFINE r == [jobs[j] EXCEPT !.svc = s, !.name = NoName, !.pc = "check"]
  <2>1. jobs[j] \in Job /\ InForm(jobs[j]) /\ jobs[j].pc = "insert"
    BY <1>2 DEF CreateRow, At, JobsInForm
  <2>2. InForm(r)
    BY <2>1 DEF InForm, Job, Pcs
  <2>3. jobs' = [jobs EXCEPT ![j] = r]
    BY <1>2 DEF CreateRow
  <2>. HIDE DEF r
  <2>. QED
    BY <2>2, <2>3, Becomes
<1>3. ASSUME NEW j \in Jobs, NEW s \in Services, CommandFails(j, s) PROVE JobsInForm'
  <2> DEFINE r == [NoJob EXCEPT !.op = "command", !.pc = "fail", !.svc = s]
  <2>1. InForm(r)
    BY <1>3 DEF NoJob, InForm, Job, Subdomain, Ops, Pcs
  <2>2. jobs' = [jobs EXCEPT ![j] = r]
    BY <1>3 DEF CommandFails, Start
  <2>. HIDE DEF r
  <2>. QED
    BY <2>1, <2>2, Becomes
<1>4. ASSUME NEW j \in Jobs, NEW s \in Services, NEW scope \in {"containers", "service"},
             handleDeleteService(j, s, scope)
      PROVE  JobsInForm'
  <2> DEFINE r == [NoJob EXCEPT !.op = "delete", !.pc = "write", !.svc = s, !.scope = scope]
  <2>1. InForm(r)
    BY <1>4 DEF NoJob, InForm, Job, Subdomain, Ops, Pcs
  <2>2. jobs' = [jobs EXCEPT ![j] = r]
    BY <1>4 DEF handleDeleteService, Start
  <2>. HIDE DEF r
  <2>. QED
    BY <2>1, <2>2, Becomes
<1>5. ASSUME NEW j \in Jobs, NEW s \in Services, NEW x \in Subdomain,
             handleUpdateServiceSubdomain(j, s, x)
      PROVE  JobsInForm'
  <2> DEFINE r == [NoJob EXCEPT !.op = "subdomain", !.pc = "taken", !.svc = s, !.sub = x]
  <2>1. InForm(r)
    BY <1>5 DEF NoJob, InForm, Job, Ops, Pcs
  <2>2. jobs' = [jobs EXCEPT ![j] = r]
    BY <1>5 DEF handleUpdateServiceSubdomain, Start
  <2>. HIDE DEF r
  <2>. QED
    BY <2>1, <2>2, Becomes
<1>6. ASSUME NEW j \in Jobs, NEW s \in Services, NEW list \in EndpointLists \cup {<<>>},
             NEW ports \in 1..MaxEndpoints, handleUpdateServiceEndpoints(j, s, list, ports)
      PROVE  JobsInForm'
  <2> DEFINE r == [NoJob EXCEPT !.op = "endpoints", !.pc = "check", !.svc = s,
                      !.list = normalizeEndpoints(list, ports, services[s].subdomain)]
  <2>0. services[s].subdomain \in Subdomain
    BY DEF ServiceTypeOK, Row, Subdomain
  <2>a. normalizeEndpoints(list, ports, services[s].subdomain) \in EndpointLists
    BY <2>0, NormalizedType
  <2>1. InForm(r)
    BY <1>6, <2>a, ListsAreSequences DEF NoJob, InForm, Job, Subdomain, Ops, Pcs
  <2>2. jobs' = [jobs EXCEPT ![j] = r]
    BY <1>6 DEF handleUpdateServiceEndpoints, Start
  <2>. HIDE DEF r
  <2>. QED
    BY <2>1, <2>2, Becomes
<1>7. ASSUME NEW j \in Jobs, NEW s \in Services, NEW list \in EndpointLists \cup {<<>>},
             NEW n \in Names, NEW moves \in BOOLEAN, handleRedeployService(j, s, n, list, moves)
      PROVE  JobsInForm'
  <2> DEFINE r == [NoJob EXCEPT !.op = "redeploy",
                      !.pc = IF moves THEN "stop" ELSE "plan", !.svc = s,
                      !.name = n, !.renames = (n # services[s].name), !.list = list,
                      !.sub = services[s].subdomain]
  <2>0. services[s].subdomain \in Subdomain
    BY DEF ServiceTypeOK, Row, Subdomain
  <2>1. InForm(r)
    BY <1>7, <2>0 DEF NoJob, InForm, Job, Ops, Pcs
  <2>2. jobs' = [jobs EXCEPT ![j] = r]
    BY <1>7 DEF handleRedeployService, Start
  <2>. HIDE DEF r
  <2>. QED
    BY <2>1, <2>2, Becomes
<1>8. ASSUME NEW j \in Jobs, CheckEndpoints(j) PROVE JobsInForm'
  <2>1. CASE Finish(j)
    BY <2>1, Ends
  <2>2. CASE Goto(j, "clear")
    BY <1>8, <2>2, Moves DEF CheckEndpoints, JobsInForm, InForm, Pcs
  <2>. QED
    BY <1>8, <2>1, <2>2 DEF CheckEndpoints
<1>9. ASSUME NEW j \in Jobs, ClearEndpoints(j) PROVE JobsInForm'
  <2>1. InForm([jobs[j] EXCEPT !.pc = "fill"])
    BY <1>9 DEF ClearEndpoints, JobsInForm, InForm, Job, Pcs
  <2>2. ASSUME NEW i \in Jobs, jobs[i].prim = "some"
        PROVE  InForm([jobs[i] EXCEPT !.prim = "gone"])
    BY <2>2 DEF JobsInForm, InForm, Job
  <2>3. \A i \in Jobs : InForm(jobs'[i])
    BY <1>9, <2>1, <2>2 DEF ClearEndpoints, JobsInForm
  <2>. QED
    BY <1>9, <2>3 DEF ClearEndpoints, JobsInForm, InForm
<1>10. ASSUME NEW j \in Jobs, FillEndpoints(j) PROVE JobsInForm'
  <2> DEFINE first == FirstPublic(jobs[j].list, NoSub)
             r == [NoJob EXCEPT !.op = jobs[j].op, !.svc = Svc(j),
                     !.pc = IF jobs[j].op = "endpoints" THEN "mirror" ELSE "send",
                     !.sub = IF jobs[j].op = "endpoints" THEN first ELSE NoSub]
  <2>1. InForm(jobs[j]) /\ jobs[j].pc = "fill"
    BY <1>10 DEF FillEndpoints, JobsInForm
  <2>2. first \in Subdomain
    BY <2>1, ListsAreSequences, FirstPublicType DEF InForm, Job, Subdomain
  <2>3. jobs' = [jobs EXCEPT ![j] = r]
    BY <1>10 DEF FillEndpoints
  <2>4. InForm(r)
    <3>. HIDE DEF first
    <3>. QED
      <4>1. CASE jobs[j].op = "endpoints"
        BY <2>1, <2>2, <4>1 DEF InForm, Job, NoJob, Pcs, Svc
      <4>2. CASE jobs[j].op # "endpoints"
        BY <2>1, <4>2 DEF InForm, Job, NoJob, Pcs, Subdomain, Svc
      <4>. QED
        BY <4>1, <4>2
  <2>. HIDE DEF r
  <2>. QED
    BY <2>3, <2>4, Becomes
<1>11. ASSUME NEW j \in Jobs, SendDeploy(j) PROVE JobsInForm'
  BY <1>11, Ends DEF SendDeploy
<1>12. ASSUME NEW j \in Jobs, SendFails(j) PROVE JobsInForm'
  BY <1>12, Moves DEF SendFails, JobsInForm, InForm, Pcs
<1>13. ASSUME NEW j \in Jobs, MarkFailed(j) PROVE JobsInForm'
  BY <1>13, Ends DEF MarkFailed
<1>14. ASSUME NEW j \in Jobs, NEW sent \in BOOLEAN, RedeployStops(j, sent) PROVE JobsInForm'
  <2>1. CASE Finish(j)
    BY <2>1, Ends
  <2>2. ASSUME Goto(j, IF sent THEN "plan" ELSE "fail") PROVE JobsInForm'
    BY <1>14, <2>2, Moves DEF RedeployStops, At, JobsInForm, InForm, Pcs
  <2>. QED
    BY <1>14, <2>1, <2>2 DEF RedeployStops
<1>15. ASSUME NEW j \in Jobs, NEW ports \in 1..MaxEndpoints, RedeployPlan(j, ports)
       PROVE  JobsInForm'
  <2> DEFINE full == normalizeEndpoints(jobs[j].list, ports,
                                        FirstPublic(endpoints[Svc(j)], jobs[j].sub))
             r == [jobs[j] EXCEPT !.list = full, !.sub = NoSub,
                                  !.pc = IF jobs[j].renames THEN "name" ELSE "update"]
  <2>1. InForm(jobs[j]) /\ jobs[j].pc = "plan" /\ Svc(j) \in Services
    BY <1>15 DEF RedeployPlan, At, JobsInForm, InForm, Svc
  <2>2. jobs[j].sub \in Subdomain /\ jobs[j].list \in EndpointLists \cup {<<>>}
    BY <2>1 DEF InForm, Job
  <2>3. endpoints[Svc(j)] \in Seq(Subdomain)
    BY <2>1 DEF ServiceTypeOK
  <2>4. full \in EndpointLists /\ full # <<>>
    BY <2>2, <2>3, FirstPublicType, NormalizedType, ListsAreSequences
  <2>5. jobs' = [jobs EXCEPT ![j] = r]
    <3>. HIDE DEF full
    <3>. QED
      BY <1>15 DEF RedeployPlan, full
  <2>6. InForm(r)
    <3>. HIDE DEF full
    <3>. QED
      BY <2>1, <2>4 DEF InForm, Job, Pcs, Subdomain
  <2>. HIDE DEF r
  <2>. QED
    BY <2>5, <2>6, Becomes
<1>16. ASSUME NEW j \in Jobs, RedeployName(j) PROVE JobsInForm'
  <2>1. CASE Finish(j)
    BY <2>1, Ends
  <2>2. CASE Goto(j, "update")
    BY <1>16, <2>2, Moves DEF RedeployName, At, JobsInForm, InForm, Pcs
  <2>. QED
    BY <1>16, <2>1, <2>2 DEF RedeployName
<1>17. ASSUME NEW j \in Jobs, RedeployUpdate(j) PROVE JobsInForm'
  <2> DEFINE r == [jobs[j] EXCEPT !.pc = "check", !.name = NoName, !.renames = FALSE]
  <2>1. jobs[j] \in Job /\ InForm(jobs[j]) /\ jobs[j].pc = "update"
    BY <1>17 DEF RedeployUpdate, At, JobsInForm
  <2>2. InForm(r)
    BY <2>1 DEF InForm, Job, Pcs
  <2>3. jobs' = [jobs EXCEPT ![j] = r]
    BY <1>17 DEF RedeployUpdate
  <2>. HIDE DEF r
  <2>. QED
    BY <2>2, <2>3, Becomes
<1>18. ASSUME NEW j \in Jobs, DeleteWrite(j) PROVE JobsInForm'
  BY <1>18, NoJobForm, Becomes DEF DeleteWrite
<1>19. ASSUME NEW j \in Jobs, SubdomainCheck(j) PROVE JobsInForm'
  <2>1. CASE Finish(j)
    BY <2>1, Ends
  <2>2. CASE Goto(j, "primary")
    BY <1>19, <2>2, Moves DEF SubdomainCheck, At, JobsInForm, InForm, Pcs
  <2>. QED
    BY <1>19, <2>1, <2>2 DEF SubdomainCheck
<1>20. ASSUME NEW j \in Jobs, FindPrimary(j) PROVE JobsInForm'
  <2> DEFINE r == [jobs[j] EXCEPT !.pc = "point",
                      !.prim = IF endpoints[Svc(j)] = <<>> THEN "none" ELSE "some"]
  <2>1. jobs[j] \in Job /\ InForm(jobs[j]) /\ jobs[j].pc = "primary"
    BY <1>20 DEF FindPrimary, At, JobsInForm
  <2>2. InForm(r)
    BY <2>1 DEF InForm, Job, Pcs
  <2>3. jobs' = [jobs EXCEPT ![j] = r]
    BY <1>20 DEF FindPrimary
  <2>. HIDE DEF r
  <2>. QED
    BY <2>2, <2>3, Becomes
<1>21. ASSUME NEW j \in Jobs, PointPrimary(j) PROVE JobsInForm'
  <2> DEFINE r == [jobs[j] EXCEPT !.pc = "mirror", !.prim = "none"]
  <2>1. jobs[j] \in Job /\ InForm(jobs[j]) /\ jobs[j].pc = "point"
    BY <1>21 DEF PointPrimary, At, JobsInForm
  <2>2. InForm(r)
    BY <2>1 DEF InForm, Job, Pcs
  <2>3. jobs' = [jobs EXCEPT ![j] = r]
    BY <1>21 DEF PointPrimary
  <2>. HIDE DEF r
  <2>. QED
    BY <2>2, <2>3, Becomes
<1>22. ASSUME NEW j \in Jobs, PrimaryGone(j) PROVE JobsInForm'
  BY <1>22, Ends DEF PrimaryGone
<1>23. ASSUME NEW j \in Jobs, MirrorSubdomain(j) PROVE JobsInForm'
  BY <1>23, Ends DEF MirrorSubdomain
<1>24. ASSUME NEW j \in Jobs, StepFails(j) PROVE JobsInForm'
  BY <1>24, Ends DEF StepFails
<1>25. ASSUME NEW s \in Services, NEW status \in Status, StatusReport(s, status)
       PROVE  JobsInForm'
  BY <1>25 DEF StatusReport, JobsInForm
<1>26. ASSUME UNCHANGED serviceVars PROVE JobsInForm'
  BY <1>26 DEF serviceVars, JobsInForm
<1>. QED
  BY <1>1, <1>2, <1>3, <1>4, <1>5, <1>6, <1>7, <1>8, <1>9, <1>10, <1>11, <1>12, <1>13,
     <1>14, <1>15, <1>16, <1>17, <1>18, <1>19, <1>20, <1>21, <1>22, <1>23, <1>24, <1>25,
     <1>26
  DEF ServiceNext

\* Every handler keeps the rows and the endpoints well typed.
LEMMA TypeStep ==
  JobsInForm /\ JobsInForm' /\ ServiceTypeOK /\ [ServiceNext]_serviceVars
    => ServiceTypeOK'
<1> SUFFICES ASSUME JobsInForm, JobsInForm', ServiceTypeOK, [ServiceNext]_serviceVars
             PROVE  ServiceTypeOK'
  OBVIOUS
<1>0. jobs' \in [Jobs -> Job]
  BY DEF JobsInForm
<1>1. ASSUME NEW j \in Jobs, NEW n \in Names, NEW list \in EndpointLists,
             handleCreateService(j, n, list)
      PROVE  ServiceTypeOK'
  BY <1>1, <1>0, ServiceConstants DEF handleCreateService, Start, ServiceTypeOK
<1>2. ASSUME NEW j \in Jobs, NEW s \in Services, CreateRow(j, s) PROVE ServiceTypeOK'
  <2>1. [NoRow EXCEPT !.state = "live", !.name = jobs[j].name] \in Row
    BY Inside DEF NoRow, Row, Status
  <2>. QED
    BY <1>2, <1>0, <2>1 DEF CreateRow, ServiceTypeOK
<1>3. ASSUME NEW j \in Jobs, NEW s \in Services, CommandFails(j, s) PROVE ServiceTypeOK'
  BY <1>3, <1>0, ServiceConstants DEF CommandFails, Start, ServiceTypeOK
<1>4. ASSUME NEW j \in Jobs, NEW s \in Services, NEW scope \in {"containers", "service"},
             handleDeleteService(j, s, scope)
      PROVE  ServiceTypeOK'
  BY <1>4, <1>0, ServiceConstants DEF handleDeleteService, Start, ServiceTypeOK
<1>5. ASSUME NEW j \in Jobs, NEW s \in Services, NEW x \in Subdomain,
             handleUpdateServiceSubdomain(j, s, x)
      PROVE  ServiceTypeOK'
  BY <1>5, <1>0, ServiceConstants DEF handleUpdateServiceSubdomain, Start, ServiceTypeOK
<1>6. ASSUME NEW j \in Jobs, NEW s \in Services, NEW list \in EndpointLists \cup {<<>>},
             NEW ports \in 1..MaxEndpoints, handleUpdateServiceEndpoints(j, s, list, ports)
      PROVE  ServiceTypeOK'
  BY <1>6, <1>0, ServiceConstants DEF handleUpdateServiceEndpoints, Start, ServiceTypeOK
<1>7. ASSUME NEW j \in Jobs, NEW s \in Services, NEW list \in EndpointLists \cup {<<>>},
             NEW n \in Names, NEW moves \in BOOLEAN, handleRedeployService(j, s, n, list, moves)
      PROVE  ServiceTypeOK'
  BY <1>7, <1>0, ServiceConstants DEF handleRedeployService, Start, ServiceTypeOK
<1>8. ASSUME NEW j \in Jobs, CheckEndpoints(j) PROVE ServiceTypeOK'
  BY <1>8, <1>0, Inside DEF CheckEndpoints, Finish, ServiceTypeOK
<1>9. ASSUME NEW j \in Jobs, ClearEndpoints(j) PROVE ServiceTypeOK'
  BY <1>9, <1>0, EmptySeq DEF ClearEndpoints, ServiceTypeOK
<1>10. ASSUME NEW j \in Jobs, FillEndpoints(j) PROVE ServiceTypeOK'
  <2>1. Svc(j) \in Services /\ jobs[j].list \in Seq(Subdomain)
    BY <1>10, Inside DEF FillEndpoints
  <2>2. endpoints[Svc(j)] \o jobs[j].list \in Seq(Subdomain)
    BY <2>1 DEF ServiceTypeOK
  <2>3. endpoints' \in [Services -> Seq(Subdomain)]
    BY <1>10, <2>2 DEF FillEndpoints, ServiceTypeOK
  <2>4. raced' \in SUBSET Subs /\ overtaken' \in SUBSET Jobs
    BY <1>10, <2>1, PublicType DEF FillEndpoints, Publishes, Checked, ServiceTypeOK
  <2>. QED
    BY <1>10, <1>0, <2>3, <2>4 DEF FillEndpoints, ServiceTypeOK
<1>11. ASSUME NEW j \in Jobs, SendDeploy(j) PROVE ServiceTypeOK'
  BY <1>11, <1>0, Inside DEF SendDeploy, Finish, ServiceTypeOK
<1>12. ASSUME NEW j \in Jobs, SendFails(j) PROVE ServiceTypeOK'
  BY <1>12, <1>0 DEF SendFails, ServiceTypeOK
<1>13. ASSUME NEW j \in Jobs, MarkFailed(j) PROVE ServiceTypeOK'
  <2>1. Svc(j) \in Services
    BY <1>13, Inside DEF MarkFailed
  <2>2. services' \in [Services -> Row]
    BY <1>13, <2>1 DEF MarkFailed, ServiceTypeOK, Row, Status
  <2>. QED
    BY <1>13, <1>0, <2>2 DEF MarkFailed, Finish, ServiceTypeOK
<1>14. ASSUME NEW j \in Jobs, NEW sent \in BOOLEAN, RedeployStops(j, sent)
       PROVE  ServiceTypeOK'
  BY <1>14, <1>0 DEF RedeployStops, Finish, ServiceTypeOK
<1>15. ASSUME NEW j \in Jobs, NEW ports \in 1..MaxEndpoints, RedeployPlan(j, ports)
       PROVE  ServiceTypeOK'
  BY <1>15, <1>0 DEF RedeployPlan, ServiceTypeOK
<1>16. ASSUME NEW j \in Jobs, RedeployName(j) PROVE ServiceTypeOK'
  BY <1>16, <1>0 DEF RedeployName, Finish, ServiceTypeOK
<1>17. ASSUME NEW j \in Jobs, RedeployUpdate(j) PROVE ServiceTypeOK'
  BY <1>17, <1>0, Inside, PublicType DEF RedeployUpdate, ServiceTypeOK, Row
<1>18. ASSUME NEW j \in Jobs, DeleteWrite(j) PROVE ServiceTypeOK'
  <2> DEFINE deleted == [services[Svc(j)] EXCEPT !.status = "removed",
                          !.state = IF jobs[j].scope = "service" THEN "deleted" ELSE "live"]
  <2>1. Svc(j) \in Services
    BY <1>18, Inside DEF DeleteWrite, At
  <2>2. deleted \in Row
    BY <2>1 DEF ServiceTypeOK, Row, Status
  <2>3. services' = [services EXCEPT ![Svc(j)] = deleted]
    BY <1>18 DEF DeleteWrite
  <2>. HIDE DEF deleted
  <2>4. services' \in [Services -> Row]
    BY <2>2, <2>3 DEF ServiceTypeOK
  <2>. QED
    BY <1>18, <1>0, <2>4 DEF DeleteWrite, ServiceTypeOK
<1>19. ASSUME NEW j \in Jobs, SubdomainCheck(j) PROVE ServiceTypeOK'
  BY <1>19, <1>0 DEF SubdomainCheck, Finish, ServiceTypeOK
<1>20. ASSUME NEW j \in Jobs, FindPrimary(j) PROVE ServiceTypeOK'
  BY <1>20, <1>0 DEF FindPrimary, ServiceTypeOK
<1>21. ASSUME NEW j \in Jobs, PointPrimary(j) PROVE ServiceTypeOK'
  <2> DEFINE s == Svc(j)
             x == jobs[j].sub
             new == IF jobs[j].prim = "some" THEN [endpoints[s] EXCEPT ![1] = x]
                    ELSE IF x = NoSub THEN endpoints[s] ELSE Append(endpoints[s], x)
  <2>1. s \in Services /\ x \in Subdomain /\ endpoints[s] \in Seq(Subdomain)
    BY <1>21, Inside DEF PointPrimary, At, ServiceTypeOK
  <2>2. new \in Seq(Subdomain)
    <3>. HIDE DEF s, x
    <3>. QED
      BY <2>1, PointedList
  <2>3. endpoints' = [endpoints EXCEPT ![s] = new]
    BY <1>21 DEF PointPrimary
  <2>4. endpoints' \in [Services -> Seq(Subdomain)]
    BY <2>2, <2>3 DEF ServiceTypeOK
  <2>5. raced' \in SUBSET Subs /\ overtaken' \in SUBSET Jobs /\ bare' \in SUBSET Services
    BY <1>21, <2>1 DEF PointPrimary, Publishes, Checked, ServiceTypeOK, Subdomain
  <2>. QED
    BY <1>21, <1>0, <2>4, <2>5 DEF PointPrimary, ServiceTypeOK
<1>22. ASSUME NEW j \in Jobs, PrimaryGone(j) PROVE ServiceTypeOK'
  BY <1>22, <1>0 DEF PrimaryGone, Finish, ServiceTypeOK
<1>23. ASSUME NEW j \in Jobs, MirrorSubdomain(j) PROVE ServiceTypeOK'
  <2>1. Svc(j) \in Services /\ jobs[j].sub \in Subdomain
    BY <1>23, Inside DEF MirrorSubdomain
  <2>2. services' \in [Services -> Row]
    BY <1>23, <2>1 DEF MirrorSubdomain, ServiceTypeOK, Row, Subdomain
  <2>. QED
    BY <1>23, <1>0, <2>2 DEF MirrorSubdomain, Finish, ServiceTypeOK
<1>24. ASSUME NEW j \in Jobs, StepFails(j) PROVE ServiceTypeOK'
  BY <1>24, <1>0, Inside DEF StepFails, Finish, ServiceTypeOK
<1>25. ASSUME NEW s \in Services, NEW status \in Status, StatusReport(s, status)
       PROVE  ServiceTypeOK'
  BY <1>25, <1>0 DEF StatusReport, ServiceTypeOK, Row
<1>26. ASSUME UNCHANGED serviceVars PROVE ServiceTypeOK'
  BY <1>26 DEF serviceVars, ServiceTypeOK
<1>. QED
  BY <1>1, <1>2, <1>3, <1>4, <1>5, <1>6, <1>7, <1>8, <1>9, <1>10, <1>11, <1>12, <1>13,
     <1>14, <1>15, <1>16, <1>17, <1>18, <1>19, <1>20, <1>21, <1>22, <1>23, <1>24, <1>25,
     <1>26
  DEF ServiceNext

\* Rows are never taken away.
LEMMA RowsStep ==
  JobsInForm /\ JobsInForm' /\ ServiceTypeOK /\ HandledRowsExist /\ [ServiceNext]_serviceVars
    => HandledRowsExist'
<1> SUFFICES ASSUME JobsInForm, JobsInForm', ServiceTypeOK, HandledRowsExist,
                    [ServiceNext]_serviceVars
             PROVE  HandledRowsExist'
  OBVIOUS
<1>1. ASSUME NEW j \in Jobs, NEW n \in Names, NEW list \in EndpointLists,
             handleCreateService(j, n, list)
      PROVE  HandledRowsExist'
  BY <1>1 DEF handleCreateService, Start, HandledRowsExist, NoJob
<1>2. ASSUME NEW j \in Jobs, NEW s \in Services, CreateRow(j, s) PROVE HandledRowsExist'
  <2>1. Created(j, s)
    BY <1>2, RowCreated
  <2>. QED
    BY <2>1 DEF Created, HandledRowsExist
<1>3. ASSUME NEW j \in Jobs, NEW s \in Services, CommandFails(j, s) PROVE HandledRowsExist'
  BY <1>3 DEF CommandFails, Start, Commandable, Found, HandledRowsExist, NoJob
<1>4. ASSUME NEW j \in Jobs, NEW s \in Services, NEW scope \in {"containers", "service"},
             handleDeleteService(j, s, scope)
      PROVE  HandledRowsExist'
  BY <1>4 DEF handleDeleteService, Start, Found, HandledRowsExist, JobsInForm
<1>5. ASSUME NEW j \in Jobs, NEW s \in Services, NEW x \in Subdomain,
             handleUpdateServiceSubdomain(j, s, x)
      PROVE  HandledRowsExist'
  BY <1>5 DEF handleUpdateServiceSubdomain, Start, Found, HandledRowsExist, NoJob
<1>6. ASSUME NEW j \in Jobs, NEW s \in Services, NEW list \in EndpointLists \cup {<<>>},
             NEW ports \in 1..MaxEndpoints, handleUpdateServiceEndpoints(j, s, list, ports)
      PROVE  HandledRowsExist'
  BY <1>6 DEF handleUpdateServiceEndpoints, Start, Found, HandledRowsExist, JobsInForm
<1>7. ASSUME NEW j \in Jobs, NEW s \in Services, NEW list \in EndpointLists \cup {<<>>},
             NEW n \in Names, NEW moves \in BOOLEAN, handleRedeployService(j, s, n, list, moves)
      PROVE  HandledRowsExist'
  BY <1>7 DEF handleRedeployService, Start, Found, HandledRowsExist
<1>8. ASSUME NEW j \in Jobs, CheckEndpoints(j) PROVE HandledRowsExist'
  <2>1. UNCHANGED services
    BY <1>8 DEF CheckEndpoints
  <2>2. CASE Finish(j)
    <3>1. Closes(j)
      BY <2>2, Closed
    <3>. QED
      BY <2>1, <3>1, ServiceConstants DEF Closes, HandledRowsExist, Svc
  <2>3. ASSUME Goto(j, "clear"), UNCHANGED overtaken PROVE HandledRowsExist'
    <3>1. GoesOn(j, "clear")
      BY <2>3, Passes
    <3>. QED
      BY <2>1, <2>3, <3>1 DEF GoesOn, HandledRowsExist
  <2>. QED
    BY <1>8, <2>2, <2>3 DEF CheckEndpoints
<1>9. ASSUME NEW j \in Jobs, ClearEndpoints(j) PROVE HandledRowsExist'
  <2>1. GoesOn(j, "fill") /\ UNCHANGED <<services, overtaken>>
    BY <1>9, Keepers DEF ClearEndpoints
  <2>. QED
    BY <2>1 DEF GoesOn, HandledRowsExist
<1>10. ASSUME NEW j \in Jobs, FillEndpoints(j) PROVE HandledRowsExist'
  BY <1>10 DEF FillEndpoints, HandledRowsExist, NoJob, Svc
<1>11. ASSUME NEW j \in Jobs, SendDeploy(j) PROVE HandledRowsExist'
  BY <1>11, ServiceConstants DEF SendDeploy, Finish, HandledRowsExist, NoJob
<1>12. ASSUME NEW j \in Jobs, SendFails(j) PROVE HandledRowsExist'
  <2>1. GoesOn(j, "fail") /\ UNCHANGED <<services, overtaken>>
    BY <1>12, Passes DEF SendFails
  <2>. QED
    BY <2>1 DEF GoesOn, HandledRowsExist
<1>13. ASSUME NEW j \in Jobs, MarkFailed(j) PROVE HandledRowsExist'
  BY <1>13, ServiceConstants DEF MarkFailed, Finish, HandledRowsExist, NoJob, Row
<1>14. ASSUME NEW j \in Jobs, NEW sent \in BOOLEAN, RedeployStops(j, sent)
       PROVE  HandledRowsExist'
  <2>1. UNCHANGED services
    BY <1>14 DEF RedeployStops
  <2>2. CASE Finish(j)
    <3>1. Closes(j)
      BY <2>2, Closed
    <3>. QED
      BY <2>1, <3>1, ServiceConstants DEF Closes, HandledRowsExist
  <2>3. ASSUME Goto(j, IF sent THEN "plan" ELSE "fail"), UNCHANGED overtaken
        PROVE  HandledRowsExist'
    <3>1. GoesOn(j, IF sent THEN "plan" ELSE "fail")
      BY <2>3, Passes
    <3>. QED
      BY <2>1, <2>3, <3>1 DEF GoesOn, HandledRowsExist, Row
  <2>. QED
    BY <1>14, <2>2, <2>3 DEF RedeployStops
<1>15. ASSUME NEW j \in Jobs, NEW ports \in 1..MaxEndpoints, RedeployPlan(j, ports)
       PROVE  HandledRowsExist'
  BY <1>15 DEF RedeployPlan, HandledRowsExist
<1>16. ASSUME NEW j \in Jobs, RedeployName(j) PROVE HandledRowsExist'
  <2>1. UNCHANGED services
    BY <1>16 DEF RedeployName
  <2>2. CASE Finish(j)
    <3>1. Closes(j)
      BY <2>2, Closed
    <3>. QED
      BY <2>1, <3>1, ServiceConstants DEF Closes, HandledRowsExist, Svc
  <2>3. ASSUME Goto(j, "update"), UNCHANGED overtaken PROVE HandledRowsExist'
    <3>1. GoesOn(j, "update")
      BY <2>3, Passes
    <3>. QED
      BY <2>1, <2>3, <3>1 DEF GoesOn, HandledRowsExist
  <2>. QED
    BY <1>16, <2>2, <2>3 DEF RedeployName
<1>17. ASSUME NEW j \in Jobs, RedeployUpdate(j) PROVE HandledRowsExist'
  <2>1. GoesOn(j, "check")
    BY <1>17, Keepers
  <2>. QED
    BY <1>17, <2>1 DEF RedeployUpdate, HandledRowsExist
<1>18. ASSUME NEW j \in Jobs, DeleteWrite(j) PROVE HandledRowsExist'
  BY <1>18, ServiceConstants DEF DeleteWrite, HandledRowsExist, JobsInForm, NoJob
<1>19. ASSUME NEW j \in Jobs, SubdomainCheck(j) PROVE HandledRowsExist'
  <2>1. UNCHANGED services
    BY <1>19 DEF SubdomainCheck
  <2>2. CASE Finish(j)
    <3>1. Closes(j)
      BY <2>2, Closed
    <3>. QED
      BY <2>1, <3>1, ServiceConstants DEF Closes, HandledRowsExist, Svc
  <2>3. ASSUME Goto(j, "primary"), UNCHANGED overtaken PROVE HandledRowsExist'
    <3>1. GoesOn(j, "primary")
      BY <2>3, Passes
    <3>. QED
      BY <2>1, <2>3, <3>1 DEF GoesOn, HandledRowsExist
  <2>. QED
    BY <1>19, <2>2, <2>3 DEF SubdomainCheck
<1>20. ASSUME NEW j \in Jobs, FindPrimary(j) PROVE HandledRowsExist'
  <2>1. GoesOn(j, "point") /\ UNCHANGED <<services, overtaken>>
    BY <1>20, Keepers DEF FindPrimary
  <2>. QED
    BY <2>1 DEF GoesOn, HandledRowsExist
<1>21. ASSUME NEW j \in Jobs, PointPrimary(j) PROVE HandledRowsExist'
  <2>1. GoesOn(j, "mirror")
    BY <1>21, Keepers
  <2>. QED
    BY <1>21, <2>1 DEF PointPrimary, HandledRowsExist
<1>22. ASSUME NEW j \in Jobs, PrimaryGone(j) PROVE HandledRowsExist'
  BY <1>22, ServiceConstants DEF PrimaryGone, Finish, HandledRowsExist, NoJob
<1>23. ASSUME NEW j \in Jobs, MirrorSubdomain(j) PROVE HandledRowsExist'
  BY <1>23, ServiceConstants DEF MirrorSubdomain, Finish, HandledRowsExist, NoJob, Row
<1>24. ASSUME NEW j \in Jobs, StepFails(j) PROVE HandledRowsExist'
  BY <1>24, ServiceConstants DEF StepFails, Finish, HandledRowsExist, NoJob
<1>25. ASSUME NEW s \in Services, NEW status \in Status, StatusReport(s, status)
       PROVE  HandledRowsExist'
  BY <1>25 DEF StatusReport, HandledRowsExist, Row
<1>26. ASSUME UNCHANGED serviceVars PROVE HandledRowsExist'
  BY <1>26 DEF serviceVars, HandledRowsExist
<1>. QED
  BY <1>1, <1>2, <1>3, <1>4, <1>5, <1>6, <1>7, <1>8, <1>9, <1>10, <1>11, <1>12, <1>13,
     <1>14, <1>15, <1>16, <1>17, <1>18, <1>19, <1>20, <1>21, <1>22, <1>23, <1>24, <1>25,
     <1>26
  DEF ServiceNext

\* findOwnedServiceAndAgent lets nobody begin on a deleted service.
LEMMA ReadsStep ==
  JobsInForm /\ JobsInForm' /\ ServiceTypeOK /\ ReadersAreOvertaken /\ [ServiceNext]_serviceVars
    => ReadersAreOvertaken'
<1> SUFFICES ASSUME JobsInForm, JobsInForm', ServiceTypeOK, ReadersAreOvertaken,
                    [ServiceNext]_serviceVars
             PROVE  ReadersAreOvertaken'
  OBVIOUS
<1>1. ASSUME NEW j \in Jobs, NEW n \in Names, NEW list \in EndpointLists,
             handleCreateService(j, n, list)
      PROVE  ReadersAreOvertaken'
  BY <1>1 DEF handleCreateService, Start, ReadersAreOvertaken, NoJob
<1>2. ASSUME NEW j \in Jobs, NEW s \in Services, CreateRow(j, s) PROVE ReadersAreOvertaken'
  <2>1. Created(j, s)
    BY <1>2, RowCreated
  <2>. QED
    BY <1>2, <2>1 DEF CreateRow, Created, ReadersAreOvertaken
<1>3. ASSUME NEW j \in Jobs, NEW s \in Services, CommandFails(j, s) PROVE ReadersAreOvertaken'
  BY <1>3 DEF CommandFails, Start, Commandable, Found, ReadersAreOvertaken, JobsInForm
<1>4. ASSUME NEW j \in Jobs, NEW s \in Services, NEW scope \in {"containers", "service"},
             handleDeleteService(j, s, scope)
      PROVE  ReadersAreOvertaken'
  BY <1>4 DEF handleDeleteService, Start, Found, ReadersAreOvertaken
<1>5. ASSUME NEW j \in Jobs, NEW s \in Services, NEW x \in Subdomain,
             handleUpdateServiceSubdomain(j, s, x)
      PROVE  ReadersAreOvertaken'
  BY <1>5 DEF handleUpdateServiceSubdomain, Start, Found, ReadersAreOvertaken, NoJob
<1>6. ASSUME NEW j \in Jobs, NEW s \in Services, NEW list \in EndpointLists \cup {<<>>},
             NEW ports \in 1..MaxEndpoints, handleUpdateServiceEndpoints(j, s, list, ports)
      PROVE  ReadersAreOvertaken'
  BY <1>6 DEF handleUpdateServiceEndpoints, Start, Found, ReadersAreOvertaken, NoJob
<1>7. ASSUME NEW j \in Jobs, NEW s \in Services, NEW list \in EndpointLists \cup {<<>>},
             NEW n \in Names, NEW moves \in BOOLEAN, handleRedeployService(j, s, n, list, moves)
      PROVE  ReadersAreOvertaken'
  BY <1>7 DEF handleRedeployService, Start, Found, ReadersAreOvertaken, NoJob
<1>8. ASSUME NEW j \in Jobs, CheckEndpoints(j) PROVE ReadersAreOvertaken'
  <2>1. UNCHANGED services
    BY <1>8 DEF CheckEndpoints
  <2>2. CASE Finish(j)
    <3>1. Closes(j)
      BY <2>2, Closed
    <3>. QED
      BY <2>1, <3>1, ServiceConstants DEF Closes, ReadersAreOvertaken
  <2>3. ASSUME Goto(j, "clear"), UNCHANGED overtaken PROVE ReadersAreOvertaken'
    <3>1. GoesOn(j, "clear")
      BY <2>3, Passes
    <3>. QED
      BY <2>1, <2>3, <3>1 DEF GoesOn, ReadersAreOvertaken
  <2>. QED
    BY <1>8, <2>2, <2>3 DEF CheckEndpoints
<1>9. ASSUME NEW j \in Jobs, ClearEndpoints(j) PROVE ReadersAreOvertaken'
  <2>1. GoesOn(j, "fill") /\ UNCHANGED <<services, overtaken>>
    BY <1>9, Keepers DEF ClearEndpoints
  <2>. QED
    BY <2>1 DEF GoesOn, ReadersAreOvertaken
<1>10. ASSUME NEW j \in Jobs, FillEndpoints(j) PROVE ReadersAreOvertaken'
  BY <1>10 DEF FillEndpoints, Publishes, ReadersAreOvertaken, Svc
<1>11. ASSUME NEW j \in Jobs, SendDeploy(j) PROVE ReadersAreOvertaken'
  BY <1>11, ServiceConstants
  DEF SendDeploy, Finish, ReadersAreOvertaken, ServiceTypeOK, NoJob
<1>12. ASSUME NEW j \in Jobs, SendFails(j) PROVE ReadersAreOvertaken'
  <2>1. GoesOn(j, "fail") /\ UNCHANGED <<services, overtaken>>
    BY <1>12, Passes DEF SendFails
  <2>. QED
    BY <2>1 DEF GoesOn, ReadersAreOvertaken
<1>13. ASSUME NEW j \in Jobs, MarkFailed(j) PROVE ReadersAreOvertaken'
  BY <1>13, ServiceConstants
  DEF MarkFailed, Finish, ReadersAreOvertaken, ServiceTypeOK, NoJob, Row
<1>14. ASSUME NEW j \in Jobs, NEW sent \in BOOLEAN, RedeployStops(j, sent)
       PROVE  ReadersAreOvertaken'
  <2>1. UNCHANGED services
    BY <1>14 DEF RedeployStops
  <2>2. CASE Finish(j)
    <3>1. Closes(j)
      BY <2>2, Closed
    <3>. QED
      BY <2>1, <3>1, ServiceConstants DEF Closes, ReadersAreOvertaken
  <2>3. ASSUME Goto(j, IF sent THEN "plan" ELSE "fail"), UNCHANGED overtaken
        PROVE  ReadersAreOvertaken'
    <3>1. GoesOn(j, IF sent THEN "plan" ELSE "fail")
      BY <2>3, Passes
    <3>. QED
      BY <2>1, <2>3, <3>1 DEF GoesOn, ReadersAreOvertaken
  <2>. QED
    BY <1>14, <2>2, <2>3 DEF RedeployStops
<1>15. ASSUME NEW j \in Jobs, NEW ports \in 1..MaxEndpoints, RedeployPlan(j, ports)
       PROVE  ReadersAreOvertaken'
  BY <1>15 DEF RedeployPlan, ReadersAreOvertaken
<1>16. ASSUME NEW j \in Jobs, RedeployName(j) PROVE ReadersAreOvertaken'
  <2>1. UNCHANGED services
    BY <1>16 DEF RedeployName
  <2>2. CASE Finish(j)
    <3>1. Closes(j)
      BY <2>2, Closed
    <3>. QED
      BY <2>1, <3>1, ServiceConstants DEF Closes, ReadersAreOvertaken
  <2>3. ASSUME Goto(j, "update"), UNCHANGED overtaken PROVE ReadersAreOvertaken'
    <3>1. GoesOn(j, "update")
      BY <2>3, Passes
    <3>. QED
      BY <2>1, <2>3, <3>1 DEF GoesOn, ReadersAreOvertaken
  <2>. QED
    BY <1>16, <2>2, <2>3 DEF RedeployName
<1>17. ASSUME NEW j \in Jobs, RedeployUpdate(j) PROVE ReadersAreOvertaken'
  <2>1. GoesOn(j, "check")
    BY <1>17, Keepers
  <2>. QED
    BY <1>17, <2>1 DEF RedeployUpdate, ReadersAreOvertaken
<1>18. ASSUME NEW j \in Jobs, DeleteWrite(j) PROVE ReadersAreOvertaken'
  BY <1>18, ServiceConstants DEF DeleteWrite, ReadersAreOvertaken, ServiceTypeOK, NoJob, Svc
<1>19. ASSUME NEW j \in Jobs, SubdomainCheck(j) PROVE ReadersAreOvertaken'
  <2>1. UNCHANGED services
    BY <1>19 DEF SubdomainCheck
  <2>2. CASE Finish(j)
    <3>1. Closes(j)
      BY <2>2, Closed
    <3>. QED
      BY <2>1, <3>1, ServiceConstants DEF Closes, ReadersAreOvertaken
  <2>3. ASSUME Goto(j, "primary"), UNCHANGED overtaken PROVE ReadersAreOvertaken'
    <3>1. GoesOn(j, "primary")
      BY <2>3, Passes
    <3>. QED
      BY <2>1, <2>3, <3>1 DEF GoesOn, ReadersAreOvertaken
  <2>. QED
    BY <1>19, <2>2, <2>3 DEF SubdomainCheck
<1>20. ASSUME NEW j \in Jobs, FindPrimary(j) PROVE ReadersAreOvertaken'
  <2>1. GoesOn(j, "point") /\ UNCHANGED <<services, overtaken>>
    BY <1>20, Keepers DEF FindPrimary
  <2>. QED
    BY <2>1 DEF GoesOn, ReadersAreOvertaken
<1>21. ASSUME NEW j \in Jobs, PointPrimary(j) PROVE ReadersAreOvertaken'
  <2>1. GoesOn(j, "mirror")
    BY <1>21, Keepers
  <2>. QED
    BY <1>21, <2>1 DEF PointPrimary, ReadersAreOvertaken, Publishes
<1>22. ASSUME NEW j \in Jobs, PrimaryGone(j) PROVE ReadersAreOvertaken'
  BY <1>22, ServiceConstants
  DEF PrimaryGone, Finish, ReadersAreOvertaken, ServiceTypeOK, NoJob
<1>23. ASSUME NEW j \in Jobs, MirrorSubdomain(j) PROVE ReadersAreOvertaken'
  BY <1>23, ServiceConstants
  DEF MirrorSubdomain, Finish, ReadersAreOvertaken, ServiceTypeOK, NoJob, Row
<1>24. ASSUME NEW j \in Jobs, StepFails(j) PROVE ReadersAreOvertaken'
  BY <1>24, ServiceConstants
  DEF StepFails, Finish, ReadersAreOvertaken, ServiceTypeOK, NoJob
<1>25. ASSUME NEW s \in Services, NEW status \in Status, StatusReport(s, status)
       PROVE  ReadersAreOvertaken'
  BY <1>25 DEF StatusReport, ReadersAreOvertaken
<1>26. ASSUME UNCHANGED serviceVars PROVE ReadersAreOvertaken'
  BY <1>26 DEF serviceVars, ReadersAreOvertaken
<1>. QED
  BY <1>1, <1>2, <1>3, <1>4, <1>5, <1>6, <1>7, <1>8, <1>9, <1>10, <1>11, <1>12, <1>13,
     <1>14, <1>15, <1>16, <1>17, <1>18, <1>19, <1>20, <1>21, <1>22, <1>23, <1>24, <1>25,
     <1>26
  DEF ServiceNext

\* Whoever leaves a service without endpoints goes on to write them, or is noted in bare.
LEMMA KeptStep ==
  /\ JobsInForm /\ JobsInForm' /\ ServiceTypeOK /\ HandledRowsExist /\ EmptiedIsWritten
  /\ [ServiceNext]_serviceVars
  => EmptiedIsWritten'
<1> SUFFICES ASSUME JobsInForm, JobsInForm', ServiceTypeOK, HandledRowsExist,
                    EmptiedIsWritten, [ServiceNext]_serviceVars
             PROVE  EmptiedIsWritten'
  OBVIOUS
<1>1. ASSUME NEW j \in Jobs, NEW n \in Names, NEW list \in EndpointLists,
             handleCreateService(j, n, list)
      PROVE  EmptiedIsWritten'
  <2>1. Opens(j) /\ UNCHANGED <<services, endpoints, history>>
    BY <1>1, Opened
  <2>. QED
    BY <2>1 DEF Opens, EmptiedIsWritten, IsWriting
<1>2. ASSUME NEW j \in Jobs, NEW s \in Services, CreateRow(j, s) PROVE EmptiedIsWritten'
  <2>1. Created(j, s) /\ UNCHANGED <<endpoints, bare>> /\ jobs[j].pc = "insert"
    BY <1>2, RowCreated DEF CreateRow, At
  <2>. QED
    BY <2>1 DEF Created, EmptiedIsWritten, IsWriting
<1>3. ASSUME NEW j \in Jobs, NEW s \in Services, CommandFails(j, s) PROVE EmptiedIsWritten'
  <2>1. Opens(j) /\ UNCHANGED <<services, endpoints, history>>
    BY <1>3, Opened
  <2>. QED
    BY <2>1 DEF Opens, EmptiedIsWritten, IsWriting
<1>4. ASSUME NEW j \in Jobs, NEW s \in Services, NEW scope \in {"containers", "service"},
             handleDeleteService(j, s, scope)
      PROVE  EmptiedIsWritten'
  <2>1. Opens(j) /\ UNCHANGED <<services, endpoints, history>>
    BY <1>4, Opened
  <2>. QED
    BY <2>1 DEF Opens, EmptiedIsWritten, IsWriting
<1>5. ASSUME NEW j \in Jobs, NEW s \in Services, NEW x \in Subdomain,
             handleUpdateServiceSubdomain(j, s, x)
      PROVE  EmptiedIsWritten'
  <2>1. Opens(j) /\ UNCHANGED <<services, endpoints, history>>
    BY <1>5, Opened
  <2>. QED
    BY <2>1 DEF Opens, EmptiedIsWritten, IsWriting
<1>6. ASSUME NEW j \in Jobs, NEW s \in Services, NEW list \in EndpointLists \cup {<<>>},
             NEW ports \in 1..MaxEndpoints, handleUpdateServiceEndpoints(j, s, list, ports)
      PROVE  EmptiedIsWritten'
  <2>1. Opens(j) /\ UNCHANGED <<services, endpoints, history>>
    BY <1>6, Opened
  <2>. QED
    BY <2>1 DEF Opens, EmptiedIsWritten, IsWriting
<1>7. ASSUME NEW j \in Jobs, NEW s \in Services, NEW list \in EndpointLists \cup {<<>>},
             NEW n \in Names, NEW moves \in BOOLEAN, handleRedeployService(j, s, n, list, moves)
      PROVE  EmptiedIsWritten'
  <2>1. Opens(j) /\ UNCHANGED <<services, endpoints, history>>
    BY <1>7, Opened
  <2>. QED
    BY <2>1 DEF Opens, EmptiedIsWritten, IsWriting
<1>8. ASSUME NEW j \in Jobs, CheckEndpoints(j) PROVE EmptiedIsWritten'
  <2>1. UNCHANGED <<services, endpoints>> /\ bare \subseteq bare' /\ jobs[j].pc = "check"
    BY <1>8 DEF CheckEndpoints
  <2>2. ASSUME Finish(j), endpoints[Svc(j)] = <<>> => Svc(j) \in bare' PROVE EmptiedIsWritten'
    <3>1. Closes(j)
      BY <2>2, Closed
    <3>. QED
      BY <2>1, <2>2, <3>1 DEF Closes, Svc, EmptiedIsWritten, IsWriting
  <2>3. ASSUME Goto(j, "clear") PROVE EmptiedIsWritten'
    <3>1. GoesOn(j, "clear")
      BY <2>3, Passes
    <3>. QED
      BY <2>1, <3>1 DEF GoesOn, EmptiedIsWritten, IsWriting
  <2>. QED
    BY <1>8, <2>2, <2>3 DEF CheckEndpoints
<1>9. ASSUME NEW j \in Jobs, ClearEndpoints(j) PROVE EmptiedIsWritten'
  <2>1. GoesOn(j, "fill") /\ UNCHANGED <<services, bare>> /\ jobs[j].pc = "clear"
    BY <1>9, Keepers DEF ClearEndpoints
  <2>2. \A s \in Services : s # jobs[j].svc => endpoints'[s] = endpoints[s]
    BY <1>9 DEF ClearEndpoints, Svc
  <2>. QED
    BY <2>1, <2>2 DEF GoesOn, EmptiedIsWritten, IsWriting
<1>10. ASSUME NEW j \in Jobs, FillEndpoints(j) PROVE EmptiedIsWritten'
  BY <1>10, Inside DEF FillEndpoints, EmptiedIsWritten, IsWriting, ServiceTypeOK, Svc
<1>11. ASSUME NEW j \in Jobs, SendDeploy(j) PROVE EmptiedIsWritten'
  <2>1. Closes(j) /\ jobs[j].pc = "send" /\ UNCHANGED <<endpoints, bare>>
    BY <1>11, Closed DEF SendDeploy
  <2>2. \A s \in Services : services'[s].state = services[s].state
    BY <1>11 DEF SendDeploy
  <2>. QED
    BY <2>1, <2>2 DEF Closes, EmptiedIsWritten, IsWriting
<1>12. ASSUME NEW j \in Jobs, SendFails(j) PROVE EmptiedIsWritten'
  <2>1. GoesOn(j, "fail") /\ UNCHANGED <<services, endpoints, bare>> /\ jobs[j].pc = "send"
    BY <1>12, Passes DEF SendFails
  <2>. QED
    BY <2>1 DEF GoesOn, EmptiedIsWritten, IsWriting
<1>13. ASSUME NEW j \in Jobs, MarkFailed(j) PROVE EmptiedIsWritten'
  <2>1. Closes(j) /\ jobs[j].pc = "fail" /\ UNCHANGED <<endpoints, bare>>
    BY <1>13, Closed DEF MarkFailed
  <2>2. \A s \in Services : services'[s].state = services[s].state
    BY <1>13 DEF MarkFailed
  <2>. QED
    BY <2>1, <2>2 DEF Closes, EmptiedIsWritten, IsWriting
<1>14. ASSUME NEW j \in Jobs, NEW sent \in BOOLEAN, RedeployStops(j, sent)
       PROVE  EmptiedIsWritten'
  <2>1. UNCHANGED <<services, endpoints, bare>> /\ jobs[j].pc = "stop"
    BY <1>14 DEF RedeployStops, At
  <2>2. CASE Finish(j)
    <3>1. Closes(j)
      BY <2>2, Closed
    <3>. QED
      BY <2>1, <3>1 DEF Closes, EmptiedIsWritten, IsWriting
  <2>3. ASSUME Goto(j, IF sent THEN "plan" ELSE "fail"), UNCHANGED overtaken
        PROVE  EmptiedIsWritten'
    <3>1. GoesOn(j, IF sent THEN "plan" ELSE "fail")
      BY <2>3, Passes
    <3>. QED
      BY <2>1, <3>1 DEF GoesOn, EmptiedIsWritten, IsWriting
  <2>. QED
    BY <1>14, <2>2, <2>3 DEF RedeployStops
<1>15. ASSUME NEW j \in Jobs, NEW ports \in 1..MaxEndpoints, RedeployPlan(j, ports)
       PROVE  EmptiedIsWritten'
  BY <1>15 DEF RedeployPlan, At, EmptiedIsWritten, IsWriting
<1>16. ASSUME NEW j \in Jobs, RedeployName(j) PROVE EmptiedIsWritten'
  <2>1. UNCHANGED <<services, endpoints, bare>> /\ jobs[j].pc = "name"
    BY <1>16 DEF RedeployName, At
  <2>2. CASE Finish(j)
    <3>1. Closes(j)
      BY <2>2, Closed
    <3>. QED
      BY <2>1, <3>1 DEF Closes, EmptiedIsWritten, IsWriting
  <2>3. ASSUME Goto(j, "update"), UNCHANGED overtaken PROVE EmptiedIsWritten'
    <3>1. GoesOn(j, "update")
      BY <2>3, Passes
    <3>. QED
      BY <2>1, <3>1 DEF GoesOn, EmptiedIsWritten, IsWriting
  <2>. QED
    BY <1>16, <2>2, <2>3 DEF RedeployName
<1>17. ASSUME NEW j \in Jobs, RedeployUpdate(j) PROVE EmptiedIsWritten'
  <2>1. GoesOn(j, "check")
    BY <1>17, Keepers
  <2>. QED
    BY <1>17, <2>1 DEF RedeployUpdate, At, EmptiedIsWritten, IsWriting
<1>18. ASSUME NEW j \in Jobs, DeleteWrite(j) PROVE EmptiedIsWritten'
  <2>1. jobs[j].pc = "write" /\ UNCHANGED <<endpoints, bare>>
    BY <1>18 DEF DeleteWrite, At
  <2>2. \A i \in Jobs \ {j} : jobs'[i] = jobs[i]
    BY <1>18 DEF DeleteWrite
  <2>3. \A s \in Services : services'[s].state # "none" => services[s].state # "none"
    BY <1>18, <2>1 DEF DeleteWrite, HandledRowsExist, Svc
  <2>. QED
    BY <2>1, <2>2, <2>3 DEF EmptiedIsWritten, IsWriting
<1>19. ASSUME NEW j \in Jobs, SubdomainCheck(j) PROVE EmptiedIsWritten'
  <2>1. UNCHANGED <<services, endpoints, bare>> /\ jobs[j].pc = "taken"
    BY <1>19 DEF SubdomainCheck, At
  <2>2. CASE Finish(j)
    <3>1. Closes(j)
      BY <2>2, Closed
    <3>. QED
      BY <2>1, <3>1 DEF Closes, EmptiedIsWritten, IsWriting
  <2>3. ASSUME Goto(j, "primary"), UNCHANGED overtaken PROVE EmptiedIsWritten'
    <3>1. GoesOn(j, "primary")
      BY <2>3, Passes
    <3>. QED
      BY <2>1, <3>1 DEF GoesOn, EmptiedIsWritten, IsWriting
  <2>. QED
    BY <1>19, <2>2, <2>3 DEF SubdomainCheck
<1>20. ASSUME NEW j \in Jobs, FindPrimary(j) PROVE EmptiedIsWritten'
  <2>1. GoesOn(j, "point") /\ UNCHANGED <<services, endpoints, bare>> /\ jobs[j].pc = "primary"
    BY <1>20, Keepers DEF FindPrimary, At
  <2>. QED
    BY <2>1 DEF GoesOn, EmptiedIsWritten, IsWriting
<1>21. ASSUME NEW j \in Jobs, PointPrimary(j) PROVE EmptiedIsWritten'
  <2>1. GoesOn(j, "mirror")
    BY <1>21, Keepers
  <2>. QED
    BY <1>21, <2>1
    DEF PointPrimary, At, GoesOn, EmptiedIsWritten, IsWriting, Publishes, Checked
<1>22. ASSUME NEW j \in Jobs, PrimaryGone(j) PROVE EmptiedIsWritten'
  <2>1. Closes(j) /\ jobs[j].pc = "point" /\ UNCHANGED <<endpoints, bare>>
    BY <1>22, Closed DEF PrimaryGone, At
  <2>2. \A s \in Services : services'[s].state = services[s].state
    BY <1>22 DEF PrimaryGone
  <2>. QED
    BY <2>1, <2>2 DEF Closes, EmptiedIsWritten, IsWriting
<1>23. ASSUME NEW j \in Jobs, MirrorSubdomain(j) PROVE EmptiedIsWritten'
  <2>1. Closes(j) /\ jobs[j].pc = "mirror" /\ UNCHANGED <<endpoints, bare>>
    BY <1>23, Closed DEF MirrorSubdomain
  <2>2. \A s \in Services : services'[s].state = services[s].state
    BY <1>23 DEF MirrorSubdomain
  <2>. QED
    BY <2>1, <2>2 DEF Closes, EmptiedIsWritten, IsWriting
<1>24. ASSUME NEW j \in Jobs, StepFails(j) PROVE EmptiedIsWritten'
  <2>1. Closes(j) /\ UNCHANGED <<services, endpoints>>
    BY <1>24, Closed DEF StepFails
  <2>2. jobs[j].svc \in Services /\ endpoints[jobs[j].svc] = <<>> => jobs[j].svc \in bare'
    BY <1>24, ServiceConstants DEF StepFails, Svc
  <2>3. bare \subseteq bare'
    BY <1>24 DEF StepFails
  <2>. QED
    BY <2>1, <2>2, <2>3 DEF Closes, EmptiedIsWritten, IsWriting
<1>25. ASSUME NEW s \in Services, NEW status \in Status, StatusReport(s, status)
       PROVE  EmptiedIsWritten'
  BY <1>25 DEF StatusReport, EmptiedIsWritten, IsWriting
<1>26. ASSUME UNCHANGED serviceVars PROVE EmptiedIsWritten'
  BY <1>26 DEF serviceVars, EmptiedIsWritten, IsWriting
<1>. QED
  BY <1>1, <1>2, <1>3, <1>4, <1>5, <1>6, <1>7, <1>8, <1>9, <1>10, <1>11, <1>12, <1>13,
     <1>14, <1>15, <1>16, <1>17, <1>18, <1>19, <1>20, <1>21, <1>22, <1>23, <1>24, <1>25,
     <1>26
  DEF ServiceNext

\* A write overtakes every check it may spoil.
LEMMA FreshStep ==
  JobsInForm /\ JobsInForm' /\ ServiceTypeOK /\ ChecksHold /\ [ServiceNext]_serviceVars
    => ChecksHold'
<1> SUFFICES ASSUME JobsInForm, JobsInForm', ServiceTypeOK, ChecksHold,
                    [ServiceNext]_serviceVars
             PROVE  ChecksHold'
  OBVIOUS
<1>1. ASSUME NEW j \in Jobs, NEW n \in Names, NEW list \in EndpointLists,
             handleCreateService(j, n, list)
      PROVE  ChecksHold'
  <2>1. Opens(j) /\ UNCHANGED <<services, endpoints, history>>
    BY <1>1, Opened
  <2>. QED
    BY <2>1 DEF Opens, ChecksHold, ToWrite, SubdomainTaken, Published, Svc
<1>2. ASSUME NEW j \in Jobs, NEW s \in Services, CreateRow(j, s) PROVE ChecksHold'
  <2>1. Created(j, s)
    BY <1>2, RowCreated
  <2>. QED
    BY <1>2, <2>1 DEF CreateRow, ChecksHold, ToWrite, SubdomainTaken, Published, Svc
<1>3. ASSUME NEW j \in Jobs, NEW s \in Services, CommandFails(j, s) PROVE ChecksHold'
  <2>1. Opens(j) /\ UNCHANGED <<services, endpoints, history>>
    BY <1>3, Opened
  <2>. QED
    BY <2>1 DEF Opens, ChecksHold, ToWrite, SubdomainTaken, Published, Svc
<1>4. ASSUME NEW j \in Jobs, NEW s \in Services, NEW scope \in {"containers", "service"},
             handleDeleteService(j, s, scope)
      PROVE  ChecksHold'
  <2>1. Opens(j) /\ UNCHANGED <<services, endpoints, history>>
    BY <1>4, Opened
  <2>. QED
    BY <2>1 DEF Opens, ChecksHold, ToWrite, SubdomainTaken, Published, Svc
<1>5. ASSUME NEW j \in Jobs, NEW s \in Services, NEW x \in Subdomain,
             handleUpdateServiceSubdomain(j, s, x)
      PROVE  ChecksHold'
  <2>1. Opens(j) /\ UNCHANGED <<services, endpoints, history>>
    BY <1>5, Opened
  <2>. QED
    BY <2>1 DEF Opens, ChecksHold, ToWrite, SubdomainTaken, Published, Svc
<1>6. ASSUME NEW j \in Jobs, NEW s \in Services, NEW list \in EndpointLists \cup {<<>>},
             NEW ports \in 1..MaxEndpoints, handleUpdateServiceEndpoints(j, s, list, ports)
      PROVE  ChecksHold'
  <2>1. Opens(j) /\ UNCHANGED <<services, endpoints, history>>
    BY <1>6, Opened
  <2>. QED
    BY <2>1 DEF Opens, ChecksHold, ToWrite, SubdomainTaken, Published, Svc
<1>7. ASSUME NEW j \in Jobs, NEW s \in Services, NEW list \in EndpointLists \cup {<<>>},
             NEW n \in Names, NEW moves \in BOOLEAN, handleRedeployService(j, s, n, list, moves)
      PROVE  ChecksHold'
  <2>1. Opens(j) /\ UNCHANGED <<services, endpoints, history>>
    BY <1>7, Opened
  <2>. QED
    BY <2>1 DEF Opens, ChecksHold, ToWrite, SubdomainTaken, Published, Svc
<1>8. ASSUME NEW j \in Jobs, CheckEndpoints(j) PROVE ChecksHold'
  <2>1. UNCHANGED endpoints
    BY <1>8 DEF CheckEndpoints
  <2>2. CASE Finish(j)
    <3>1. Closes(j)
      BY <2>2, Closed
    <3>. QED
      BY <2>1, <3>1 DEF Closes, ChecksHold, ToWrite, SubdomainTaken, Published, Svc
  <2>3. ASSUME Goto(j, "clear"), UNCHANGED overtaken, ~SubdomainTaken(Public(jobs[j].list),
               Svc(j))
        PROVE  ChecksHold'
    <3>1. GoesOn(j, "clear")
      BY <2>3, Passes
    <3>. QED
      BY <2>1, <2>3, <3>1 DEF GoesOn, ChecksHold, ToWrite, SubdomainTaken, Published, Svc
  <2>. QED
    BY <1>8, <2>2, <2>3 DEF CheckEndpoints
<1>9. ASSUME NEW j \in Jobs, ClearEndpoints(j) PROVE ChecksHold'
  <2>1. GoesOn(j, "fill") /\ UNCHANGED overtaken /\ jobs[j].pc = "clear"
    BY <1>9, Keepers DEF ClearEndpoints
  <2>2. \A s \in Services : Published(s)' \subseteq Published(s)
    BY <1>9, ClearedLists DEF ClearEndpoints, Published
  <2>3. \A i \in Jobs : ToWrite(i)' = ToWrite(i) /\ Svc(i)' = Svc(i)
    BY <2>1 DEF GoesOn, ToWrite, Svc
  <2>. QED
    BY <2>1, <2>2, <2>3 DEF ChecksHold, SubdomainTaken
<1>10. ASSUME NEW j \in Jobs, FillEndpoints(j) PROVE ChecksHold'
  <2>1. \A i \in Jobs \ {j} : jobs'[i] = jobs[i]
    BY <1>10 DEF FillEndpoints
  <2>2. jobs'[j].pc \in {"mirror", "send"}
    BY <1>10 DEF FillEndpoints, JobsInForm
  <2>3. \A i \in Jobs \ {j} :
           jobs[i].pc \in {"clear", "fill", "primary", "point"} => i \in overtaken'
    BY <1>10 DEF FillEndpoints, Publishes, Checked
  <2>4. \A i \in Jobs \ overtaken' : ToWrite(i)' = {}
    BY <2>1, <2>2, <2>3 DEF ToWrite
  <2>. QED
    BY <2>4 DEF ChecksHold, SubdomainTaken
<1>11. ASSUME NEW j \in Jobs, SendDeploy(j) PROVE ChecksHold'
  <2>1. Closes(j)
    BY <1>11, Closed DEF SendDeploy
  <2>. QED
    BY <1>11, <2>1
    DEF SendDeploy, Closes, ChecksHold, ToWrite, SubdomainTaken, Published, Svc
<1>12. ASSUME NEW j \in Jobs, SendFails(j) PROVE ChecksHold'
  <2>1. GoesOn(j, "fail") /\ UNCHANGED <<endpoints, overtaken>>
    BY <1>12, Passes DEF SendFails
  <2>. QED
    BY <2>1 DEF GoesOn, ChecksHold, ToWrite, SubdomainTaken, Published, Svc
<1>13. ASSUME NEW j \in Jobs, MarkFailed(j) PROVE ChecksHold'
  <2>1. Closes(j)
    BY <1>13, Closed DEF MarkFailed
  <2>. QED
    BY <1>13, <2>1
    DEF MarkFailed, Closes, ChecksHold, ToWrite, SubdomainTaken, Published, Svc
<1>14. ASSUME NEW j \in Jobs, NEW sent \in BOOLEAN, RedeployStops(j, sent) PROVE ChecksHold'
  <2>1. UNCHANGED endpoints
    BY <1>14 DEF RedeployStops
  <2>2. CASE Finish(j)
    <3>1. Closes(j)
      BY <2>2, Closed
    <3>. QED
      BY <2>1, <3>1 DEF Closes, ChecksHold, ToWrite, SubdomainTaken, Published, Svc
  <2>3. ASSUME Goto(j, IF sent THEN "plan" ELSE "fail"), UNCHANGED overtaken PROVE ChecksHold'
    <3>1. GoesOn(j, IF sent THEN "plan" ELSE "fail")
      BY <2>3, Passes
    <3>. QED
      BY <2>1, <2>3, <3>1 DEF GoesOn, ChecksHold, ToWrite, SubdomainTaken, Published, Svc
  <2>. QED
    BY <1>14, <2>2, <2>3 DEF RedeployStops
<1>15. ASSUME NEW j \in Jobs, NEW ports \in 1..MaxEndpoints, RedeployPlan(j, ports)
       PROVE  ChecksHold'
  <2>1. /\ \A i \in Jobs \ {j} : jobs'[i] = jobs[i]
        /\ jobs'[j].pc \in {"name", "update"}
    <3>1. PICK list : jobs' = [jobs EXCEPT ![j] = [@ EXCEPT !.list = list, !.sub = NoSub,
                                   !.pc = IF jobs[j].renames THEN "name" ELSE "update"]]
      BY <1>15 DEF RedeployPlan
    <3>. QED
      BY <3>1 DEF JobsInForm
  <2>2. UNCHANGED <<endpoints, overtaken>>
    BY <1>15 DEF RedeployPlan
  <2>. QED
    BY <2>1, <2>2 DEF ChecksHold, ToWrite, SubdomainTaken, Published, Svc
<1>16. ASSUME NEW j \in Jobs, RedeployName(j) PROVE ChecksHold'
  <2>1. UNCHANGED endpoints
    BY <1>16 DEF RedeployName
  <2>2. CASE Finish(j)
    <3>1. Closes(j)
      BY <2>2, Closed
    <3>. QED
      BY <2>1, <3>1 DEF Closes, ChecksHold, ToWrite, SubdomainTaken, Published, Svc
  <2>3. ASSUME Goto(j, "update"), UNCHANGED overtaken PROVE ChecksHold'
    <3>1. GoesOn(j, "update")
      BY <2>3, Passes
    <3>. QED
      BY <2>1, <2>3, <3>1 DEF GoesOn, ChecksHold, ToWrite, SubdomainTaken, Published, Svc
  <2>. QED
    BY <1>16, <2>2, <2>3 DEF RedeployName
<1>17. ASSUME NEW j \in Jobs, RedeployUpdate(j) PROVE ChecksHold'
  <2>1. GoesOn(j, "check")
    BY <1>17, Keepers
  <2>. QED
    BY <1>17, <2>1 DEF RedeployUpdate, ChecksHold, ToWrite, SubdomainTaken, Published, Svc
<1>18. ASSUME NEW j \in Jobs, DeleteWrite(j) PROVE ChecksHold'
  BY <1>18
  DEF DeleteWrite, ChecksHold, ToWrite, SubdomainTaken, Published, Svc, ServiceTypeOK,
      NoJob
<1>19. ASSUME NEW j \in Jobs, SubdomainCheck(j) PROVE ChecksHold'
  <2>1. UNCHANGED endpoints
    BY <1>19 DEF SubdomainCheck
  <2>2. CASE Finish(j)
    <3>1. Closes(j)
      BY <2>2, Closed
    <3>. QED
      BY <2>1, <3>1 DEF Closes, ChecksHold, ToWrite, SubdomainTaken, Published, Svc
  <2>3. ASSUME Goto(j, "primary"), UNCHANGED overtaken,
               ~SubdomainTaken({jobs[j].sub} \ {NoSub}, Svc(j))
        PROVE  ChecksHold'
    <3>1. GoesOn(j, "primary")
      BY <2>3, Passes
    <3>. QED
      BY <2>1, <2>3, <3>1 DEF GoesOn, ChecksHold, ToWrite, SubdomainTaken, Published, Svc
  <2>. QED
    BY <1>19, <2>2, <2>3 DEF SubdomainCheck
<1>20. ASSUME NEW j \in Jobs, FindPrimary(j) PROVE ChecksHold'
  <2>1. GoesOn(j, "point") /\ UNCHANGED <<endpoints, overtaken>> /\ jobs[j].pc = "primary"
    BY <1>20, Keepers DEF FindPrimary, At
  <2>. QED
    BY <2>1 DEF GoesOn, ChecksHold, ToWrite, SubdomainTaken, Published, Svc
<1>21. ASSUME NEW j \in Jobs, PointPrimary(j) PROVE ChecksHold'
  <2>1. GoesOn(j, "mirror")
    BY <1>21, Keepers
  <2>3. \A i \in Jobs \ {j} :
           jobs[i].pc \in {"clear", "fill", "primary", "point"} => i \in overtaken'
    BY <1>21 DEF PointPrimary, Publishes, Checked
  <2>4. \A i \in Jobs \ overtaken' : ToWrite(i)' = {}
    BY <2>1, <2>3 DEF GoesOn, ToWrite
  <2>. QED
    BY <2>4 DEF ChecksHold, SubdomainTaken
<1>22. ASSUME NEW j \in Jobs, PrimaryGone(j) PROVE ChecksHold'
  <2>1. Closes(j)
    BY <1>22, Closed DEF PrimaryGone
  <2>. QED
    BY <1>22, <2>1
    DEF PrimaryGone, Closes, ChecksHold, ToWrite, SubdomainTaken, Published, Svc
<1>23. ASSUME NEW j \in Jobs, MirrorSubdomain(j) PROVE ChecksHold'
  <2>1. Closes(j)
    BY <1>23, Closed DEF MirrorSubdomain
  <2>. QED
    BY <1>23, <2>1
    DEF MirrorSubdomain, Closes, ChecksHold, ToWrite, SubdomainTaken, Published, Svc
<1>24. ASSUME NEW j \in Jobs, StepFails(j) PROVE ChecksHold'
  <2>1. Closes(j)
    BY <1>24, Closed DEF StepFails
  <2>. QED
    BY <1>24, <2>1
    DEF StepFails, Closes, ChecksHold, ToWrite, SubdomainTaken, Published, Svc
<1>25. ASSUME NEW s \in Services, NEW status \in Status, StatusReport(s, status)
       PROVE  ChecksHold'
  BY <1>25 DEF StatusReport, ChecksHold, ToWrite, SubdomainTaken, Published, Svc
<1>26. ASSUME UNCHANGED serviceVars PROVE ChecksHold'
  BY <1>26 DEF serviceVars, ChecksHold, ToWrite, SubdomainTaken, Published, Svc
<1>. QED
  BY <1>1, <1>2, <1>3, <1>4, <1>5, <1>6, <1>7, <1>8, <1>9, <1>10, <1>11, <1>12, <1>13,
     <1>14, <1>15, <1>16, <1>17, <1>18, <1>19, <1>20, <1>21, <1>22, <1>23, <1>24, <1>25,
     <1>26
  DEF ServiceNext

\* What a handler writes is free, or its check has been overtaken.
LEMMA SharedStep ==
  /\ JobsInForm /\ JobsInForm' /\ ServiceTypeOK /\ ChecksHold /\ SubdomainSharedByRace
  /\ [ServiceNext]_serviceVars
  => SubdomainSharedByRace'
<1> SUFFICES ASSUME JobsInForm, JobsInForm', ServiceTypeOK, ChecksHold,
                    SubdomainSharedByRace, [ServiceNext]_serviceVars
             PROVE  SubdomainSharedByRace'
  OBVIOUS
<1>1. ASSUME NEW j \in Jobs, NEW n \in Names, NEW list \in EndpointLists,
             handleCreateService(j, n, list)
      PROVE  SubdomainSharedByRace'
  BY <1>1 DEF handleCreateService, SubdomainSharedByRace, Published
<1>2. ASSUME NEW j \in Jobs, NEW s \in Services, CreateRow(j, s) PROVE SubdomainSharedByRace'
  BY <1>2 DEF CreateRow, SubdomainSharedByRace, Published
<1>3. ASSUME NEW j \in Jobs, NEW s \in Services, CommandFails(j, s)
      PROVE  SubdomainSharedByRace'
  BY <1>3 DEF CommandFails, SubdomainSharedByRace, Published
<1>4. ASSUME NEW j \in Jobs, NEW s \in Services, NEW scope \in {"containers", "service"},
             handleDeleteService(j, s, scope)
      PROVE  SubdomainSharedByRace'
  BY <1>4 DEF handleDeleteService, SubdomainSharedByRace, Published
<1>5. ASSUME NEW j \in Jobs, NEW s \in Services, NEW x \in Subdomain,
             handleUpdateServiceSubdomain(j, s, x)
      PROVE  SubdomainSharedByRace'
  BY <1>5 DEF handleUpdateServiceSubdomain, SubdomainSharedByRace, Published
<1>6. ASSUME NEW j \in Jobs, NEW s \in Services, NEW list \in EndpointLists \cup {<<>>},
             NEW ports \in 1..MaxEndpoints, handleUpdateServiceEndpoints(j, s, list, ports)
      PROVE  SubdomainSharedByRace'
  BY <1>6 DEF handleUpdateServiceEndpoints, SubdomainSharedByRace, Published
<1>7. ASSUME NEW j \in Jobs, NEW s \in Services, NEW list \in EndpointLists \cup {<<>>},
             NEW n \in Names, NEW moves \in BOOLEAN, handleRedeployService(j, s, n, list, moves)
      PROVE  SubdomainSharedByRace'
  BY <1>7 DEF handleRedeployService, SubdomainSharedByRace, Published
<1>8. ASSUME NEW j \in Jobs, CheckEndpoints(j) PROVE SubdomainSharedByRace'
  BY <1>8 DEF CheckEndpoints, SubdomainSharedByRace, Published
<1>9. ASSUME NEW j \in Jobs, ClearEndpoints(j) PROVE SubdomainSharedByRace'
  <2>1. \A s \in Services : Published(s)' \subseteq Published(s)
    BY <1>9, ClearedLists DEF ClearEndpoints, Published
  <2>. QED
    BY <1>9, <2>1 DEF ClearEndpoints, SubdomainSharedByRace
<1>10. ASSUME NEW j \in Jobs, FillEndpoints(j) PROVE SubdomainSharedByRace'
  <2>1. jobs[j].list \in Seq(Subdomain) /\ Svc(j) \in Services /\ jobs[j].pc = "fill"
    BY <1>10, Inside DEF FillEndpoints
  <2>2. PICK s \in Services, list \in Seq(Subdomain) : s = Svc(j) /\ list = jobs[j].list
    BY <2>1
  <2>3. /\ endpoints[s] \in Seq(Subdomain)
        /\ endpoints'[s] = endpoints[s] \o list
        /\ \A t \in Services \ {s} : endpoints'[t] = endpoints[t]
    BY <1>10, <2>2 DEF FillEndpoints, ServiceTypeOK
  <2>4. /\ Published(s)' \subseteq Published(s) \cup Public(list)
        /\ \A t \in Services \ {s} : Published(t)' = Published(t)
    BY <2>3, JoinedLists DEF Published
  <2>5. raced' = IF j \in overtaken THEN raced \cup Public(list) ELSE raced
    BY <1>10, <2>2 DEF FillEndpoints, Publishes
  <2>6. j \notin overtaken => \A t \in Services \ {s} : Published(t) \cap Public(list) = {}
    BY <2>1, <2>2 DEF ChecksHold, SubdomainTaken, ToWrite
  <2>. QED
    BY <2>4, <2>5, <2>6, StillShared
<1>11. ASSUME NEW j \in Jobs, SendDeploy(j) PROVE SubdomainSharedByRace'
  BY <1>11 DEF SendDeploy, SubdomainSharedByRace, Published
<1>12. ASSUME NEW j \in Jobs, SendFails(j) PROVE SubdomainSharedByRace'
  BY <1>12 DEF SendFails, SubdomainSharedByRace, Published
<1>13. ASSUME NEW j \in Jobs, MarkFailed(j) PROVE SubdomainSharedByRace'
  BY <1>13 DEF MarkFailed, SubdomainSharedByRace, Published
<1>14. ASSUME NEW j \in Jobs, NEW sent \in BOOLEAN, RedeployStops(j, sent)
       PROVE  SubdomainSharedByRace'
  BY <1>14 DEF RedeployStops, SubdomainSharedByRace, Published
<1>15. ASSUME NEW j \in Jobs, NEW ports \in 1..MaxEndpoints, RedeployPlan(j, ports)
       PROVE  SubdomainSharedByRace'
  BY <1>15 DEF RedeployPlan, SubdomainSharedByRace, Published
<1>16. ASSUME NEW j \in Jobs, RedeployName(j) PROVE SubdomainSharedByRace'
  BY <1>16 DEF RedeployName, SubdomainSharedByRace, Published
<1>17. ASSUME NEW j \in Jobs, RedeployUpdate(j) PROVE SubdomainSharedByRace'
  BY <1>17 DEF RedeployUpdate, SubdomainSharedByRace, Published
<1>18. ASSUME NEW j \in Jobs, DeleteWrite(j) PROVE SubdomainSharedByRace'
  BY <1>18 DEF DeleteWrite, SubdomainSharedByRace, Published
<1>19. ASSUME NEW j \in Jobs, SubdomainCheck(j) PROVE SubdomainSharedByRace'
  BY <1>19 DEF SubdomainCheck, SubdomainSharedByRace, Published
<1>20. ASSUME NEW j \in Jobs, FindPrimary(j) PROVE SubdomainSharedByRace'
  BY <1>20 DEF FindPrimary, SubdomainSharedByRace, Published
<1>21. ASSUME NEW j \in Jobs, PointPrimary(j) PROVE SubdomainSharedByRace'
  <2>1. jobs[j].sub \in Subdomain /\ Svc(j) \in Services /\ jobs[j].pc = "point"
    BY <1>21, Inside DEF PointPrimary, At
  <2>2. PICK s \in Services, x \in Subdomain : s = Svc(j) /\ x = jobs[j].sub
    BY <2>1
  <2>3. /\ endpoints[s] \in Seq(Subdomain)
        /\ endpoints'[s] \in {[endpoints[s] EXCEPT ![1] = x], endpoints[s], Append(endpoints[s], x)}
        /\ \A t \in Services \ {s} : endpoints'[t] = endpoints[t]
    BY <1>21, <2>2 DEF PointPrimary, ServiceTypeOK
  <2>4. Public(endpoints'[s]) \subseteq Public(endpoints[s]) \cup ({x} \ {NoSub})
    <3>1. CASE endpoints'[s] = [endpoints[s] EXCEPT ![1] = x]
      BY <2>3, <3>1, PointedList
    <3>2. CASE endpoints'[s] = endpoints[s]
      BY <3>2
    <3>3. CASE endpoints'[s] = Append(endpoints[s], x)
      BY <2>3, <3>3, AppendedList
    <3>. QED
      BY <2>3, <3>1, <3>2, <3>3
  <2>5. /\ Published(s)' \subseteq Published(s) \cup ({x} \ {NoSub})
        /\ \A t \in Services \ {s} : Published(t)' = Published(t)
    BY <2>3, <2>4 DEF Published
  <2>6. raced' = IF j \in overtaken THEN raced \cup ({x} \ {NoSub}) ELSE raced
    BY <1>21, <2>2 DEF PointPrimary, Publishes
  <2>7. j \notin overtaken => \A t \in Services \ {s} : Published(t) \cap ({x} \ {NoSub}) = {}
    BY <2>1, <2>2 DEF ChecksHold, SubdomainTaken, ToWrite
  <2>. QED
    BY <2>5, <2>6, <2>7, StillShared
<1>22. ASSUME NEW j \in Jobs, PrimaryGone(j) PROVE SubdomainSharedByRace'
  BY <1>22 DEF PrimaryGone, SubdomainSharedByRace, Published
<1>23. ASSUME NEW j \in Jobs, MirrorSubdomain(j) PROVE SubdomainSharedByRace'
  BY <1>23 DEF MirrorSubdomain, SubdomainSharedByRace, Published
<1>24. ASSUME NEW j \in Jobs, StepFails(j) PROVE SubdomainSharedByRace'
  BY <1>24 DEF StepFails, SubdomainSharedByRace, Published
<1>25. ASSUME NEW s \in Services, NEW status \in Status, StatusReport(s, status)
       PROVE  SubdomainSharedByRace'
  BY <1>25 DEF StatusReport, SubdomainSharedByRace, Published
<1>26. ASSUME UNCHANGED serviceVars PROVE SubdomainSharedByRace'
  BY <1>26 DEF serviceVars, SubdomainSharedByRace, Published
<1>. QED
  BY <1>1, <1>2, <1>3, <1>4, <1>5, <1>6, <1>7, <1>8, <1>9, <1>10, <1>11, <1>12, <1>13,
     <1>14, <1>15, <1>16, <1>17, <1>18, <1>19, <1>20, <1>21, <1>22, <1>23, <1>24, <1>25,
     <1>26
  DEF ServiceNext

\* A deleted service is touched by its own handlers only.
LEMMA DeletedStep == JobsInForm /\ ServiceTypeOK /\ [ServiceNext]_serviceVars => DeletedUntouched
<1> SUFFICES ASSUME JobsInForm, ServiceTypeOK, [ServiceNext]_serviceVars
             PROVE  DeletedUntouched
  OBVIOUS
<1>1. ASSUME NEW j \in Jobs, NEW n \in Names, NEW list \in EndpointLists,
             handleCreateService(j, n, list)
      PROVE  DeletedUntouched
  <2>1. \A t \in Services : Untouched(t)
    BY <1>1 DEF handleCreateService, Untouched
  <2>. QED
    BY <2>1 DEF DeletedUntouched
<1>2. ASSUME NEW j \in Jobs, NEW s \in Services, CreateRow(j, s) PROVE DeletedUntouched
  <2>1. Created(j, s) /\ UNCHANGED <<endpoints, deployed>>
    BY <1>2, RowCreated DEF CreateRow
  <2>. QED
    BY <2>1 DEF Created, DeletedUntouched, Untouched
<1>3. ASSUME NEW j \in Jobs, NEW s \in Services, CommandFails(j, s) PROVE DeletedUntouched
  <2>1. \A t \in Services : Untouched(t)
    BY <1>3 DEF CommandFails, Untouched
  <2>. QED
    BY <2>1 DEF DeletedUntouched
<1>4. ASSUME NEW j \in Jobs, NEW s \in Services, NEW scope \in {"containers", "service"},
             handleDeleteService(j, s, scope)
      PROVE  DeletedUntouched
  <2>1. \A t \in Services \ {s} : Untouched(t)
    BY <1>4 DEF handleDeleteService, Untouched
  <2>2. services[s].state # "deleted"
    BY <1>4 DEF handleDeleteService, Found
  <2>. QED
    BY <2>1, <2>2 DEF DeletedUntouched
<1>5. ASSUME NEW j \in Jobs, NEW s \in Services, NEW x \in Subdomain,
             handleUpdateServiceSubdomain(j, s, x)
      PROVE  DeletedUntouched
  <2>1. \A t \in Services : Untouched(t)
    BY <1>5 DEF handleUpdateServiceSubdomain, Untouched
  <2>. QED
    BY <2>1 DEF DeletedUntouched
<1>6. ASSUME NEW j \in Jobs, NEW s \in Services, NEW list \in EndpointLists \cup {<<>>},
             NEW ports \in 1..MaxEndpoints, handleUpdateServiceEndpoints(j, s, list, ports)
      PROVE  DeletedUntouched
  <2>1. \A t \in Services : Untouched(t)
    BY <1>6 DEF handleUpdateServiceEndpoints, Untouched
  <2>. QED
    BY <2>1 DEF DeletedUntouched
<1>7. ASSUME NEW j \in Jobs, NEW s \in Services, NEW list \in EndpointLists \cup {<<>>},
             NEW n \in Names, NEW moves \in BOOLEAN, handleRedeployService(j, s, n, list, moves)
      PROVE  DeletedUntouched
  <2>1. \A t \in Services : Untouched(t)
    BY <1>7 DEF handleRedeployService, Untouched
  <2>. QED
    BY <2>1 DEF DeletedUntouched
<1>8. ASSUME NEW j \in Jobs, CheckEndpoints(j) PROVE DeletedUntouched
  <2>1. \A t \in Services : Untouched(t)
    BY <1>8 DEF CheckEndpoints, Untouched
  <2>. QED
    BY <2>1 DEF DeletedUntouched
<1>9. ASSUME NEW j \in Jobs, ClearEndpoints(j) PROVE DeletedUntouched
  <2>1. jobs'[j] # jobs[j]
    <3>1. GoesOn(j, "fill") /\ jobs[j].pc = "clear"
      BY <1>9, Keepers DEF ClearEndpoints
    <3>. QED
      BY <3>1 DEF GoesOn
  <2>2. \A t \in Services : t = jobs[j].svc \/ Untouched(t)
    BY <1>9 DEF ClearEndpoints, Svc, Untouched
  <2>. QED
    BY <2>1, <2>2 DEF DeletedUntouched, ByHandler
<1>10. ASSUME NEW j \in Jobs, FillEndpoints(j) PROVE DeletedUntouched
  <2>1. jobs'[j].pc # jobs[j].pc
    BY <1>10 DEF FillEndpoints, JobsInForm
  <2>2. \A t \in Services : t = jobs[j].svc \/ Untouched(t)
    BY <1>10 DEF FillEndpoints, Svc, Untouched
  <2>. QED
    BY <2>1, <2>2 DEF DeletedUntouched, ByHandler
<1>11. ASSUME NEW j \in Jobs, SendDeploy(j) PROVE DeletedUntouched
  <2>1. jobs'[j] # jobs[j]
    <3>1. Closes(j) /\ jobs[j].pc = "send"
      BY <1>11, Closed DEF SendDeploy
    <3>. QED
      BY <3>1 DEF Closes
  <2>2. \A t \in Services : t = jobs[j].svc \/ Untouched(t)
    BY <1>11 DEF SendDeploy, Svc, Untouched
  <2>. QED
    BY <2>1, <2>2 DEF DeletedUntouched, ByHandler
<1>12. ASSUME NEW j \in Jobs, SendFails(j) PROVE DeletedUntouched
  <2>1. \A t \in Services : Untouched(t)
    BY <1>12 DEF SendFails, Untouched
  <2>. QED
    BY <2>1 DEF DeletedUntouched
<1>13. ASSUME NEW j \in Jobs, MarkFailed(j) PROVE DeletedUntouched
  <2>1. \A t \in Services : Untouched(t)
    BY <1>13 DEF MarkFailed, Untouched
  <2>. QED
    BY <2>1 DEF DeletedUntouched
<1>14. ASSUME NEW j \in Jobs, NEW sent \in BOOLEAN, RedeployStops(j, sent)
       PROVE  DeletedUntouched
  <2>1. \A t \in Services : Untouched(t)
    BY <1>14 DEF RedeployStops, Untouched
  <2>. QED
    BY <2>1 DEF DeletedUntouched
<1>15. ASSUME NEW j \in Jobs, NEW ports \in 1..MaxEndpoints, RedeployPlan(j, ports)
       PROVE  DeletedUntouched
  <2>1. \A t \in Services : Untouched(t)
    BY <1>15 DEF RedeployPlan, Untouched
  <2>. QED
    BY <2>1 DEF DeletedUntouched
<1>16. ASSUME NEW j \in Jobs, RedeployName(j) PROVE DeletedUntouched
  <2>1. \A t \in Services : Untouched(t)
    BY <1>16 DEF RedeployName, Untouched
  <2>. QED
    BY <2>1 DEF DeletedUntouched
<1>17. ASSUME NEW j \in Jobs, RedeployUpdate(j) PROVE DeletedUntouched
  <2>1. jobs'[j] # jobs[j]
    <3>1. GoesOn(j, "check") /\ jobs[j].pc = "update"
      BY <1>17, Keepers DEF RedeployUpdate, At
    <3>. QED
      BY <3>1 DEF GoesOn
  <2>2. \A t \in Services : t = jobs[j].svc \/ Untouched(t)
    BY <1>17 DEF RedeployUpdate, Svc, Untouched
  <2>. QED
    BY <2>1, <2>2 DEF DeletedUntouched, ByHandler
<1>18. ASSUME NEW j \in Jobs, DeleteWrite(j) PROVE DeletedUntouched
  <2>1. jobs'[j].pc # jobs[j].pc
    BY <1>18 DEF DeleteWrite, At, JobsInForm, NoJob
  <2>2. \A t \in Services : t = jobs[j].svc \/ Untouched(t)
    BY <1>18 DEF DeleteWrite, Svc, Untouched
  <2>. QED
    BY <2>1, <2>2 DEF DeletedUntouched, ByHandler
<1>19. ASSUME NEW j \in Jobs, SubdomainCheck(j) PROVE DeletedUntouched
  <2>1. \A t \in Services : Untouched(t)
    BY <1>19 DEF SubdomainCheck, Untouched
  <2>. QED
    BY <2>1 DEF DeletedUntouched
<1>20. ASSUME NEW j \in Jobs, FindPrimary(j) PROVE DeletedUntouched
  <2>1. \A t \in Services : Untouched(t)
    BY <1>20 DEF FindPrimary, Untouched
  <2>. QED
    BY <2>1 DEF DeletedUntouched
<1>21. ASSUME NEW j \in Jobs, PointPrimary(j) PROVE DeletedUntouched
  <2>1. jobs'[j] # jobs[j]
    <3>1. GoesOn(j, "mirror") /\ jobs[j].pc = "point"
      BY <1>21, Keepers DEF PointPrimary, At
    <3>. QED
      BY <3>1 DEF GoesOn
  <2>2. \A t \in Services : t = jobs[j].svc \/ Untouched(t)
    BY <1>21 DEF PointPrimary, Svc, Untouched
  <2>. QED
    BY <2>1, <2>2 DEF DeletedUntouched, ByHandler
<1>22. ASSUME NEW j \in Jobs, PrimaryGone(j) PROVE DeletedUntouched
  <2>1. \A t \in Services : Untouched(t)
    BY <1>22 DEF PrimaryGone, Untouched
  <2>. QED
    BY <2>1 DEF DeletedUntouched
<1>23. ASSUME NEW j \in Jobs, MirrorSubdomain(j) PROVE DeletedUntouched
  <2>1. jobs'[j] # jobs[j]
    <3>1. Closes(j) /\ jobs[j].pc = "mirror"
      BY <1>23, Closed DEF MirrorSubdomain
    <3>. QED
      BY <3>1 DEF Closes
  <2>2. \A t \in Services : t = jobs[j].svc \/ Untouched(t)
    BY <1>23 DEF MirrorSubdomain, Svc, Untouched
  <2>. QED
    BY <2>1, <2>2 DEF DeletedUntouched, ByHandler
<1>24. ASSUME NEW j \in Jobs, StepFails(j) PROVE DeletedUntouched
  <2>1. \A t \in Services : Untouched(t)
    BY <1>24 DEF StepFails, Untouched
  <2>. QED
    BY <2>1 DEF DeletedUntouched
<1>25. ASSUME NEW s \in Services, NEW status \in Status, StatusReport(s, status)
       PROVE  DeletedUntouched
  <2>1. \A t \in Services : Untouched(t)
    BY <1>25 DEF StatusReport, Untouched
  <2>. QED
    BY <2>1 DEF DeletedUntouched
<1>26. ASSUME UNCHANGED serviceVars PROVE DeletedUntouched
  BY <1>26 DEF serviceVars, DeletedUntouched, Untouched
<1>. QED
  BY <1>1, <1>2, <1>3, <1>4, <1>5, <1>6, <1>7, <1>8, <1>9, <1>10, <1>11, <1>12, <1>13,
     <1>14, <1>15, <1>16, <1>17, <1>18, <1>19, <1>20, <1>21, <1>22, <1>23, <1>24, <1>25,
     <1>26
  DEF ServiceNext

-----------------------------------------------------------------------------
(* The theorems *)

\* The inductive invariant.
ServiceInv ==
    /\ ServiceTypeOK
    /\ JobsInForm
    /\ HandledRowsExist
    /\ ReadersAreOvertaken
    /\ EmptiedIsWritten
    /\ ChecksHold
    /\ SubdomainSharedByRace

\* The first services have endpoints and share none.
LEMMA Initially == ServiceInit => ServiceInv
<1> SUFFICES ASSUME ServiceInit PROVE ServiceInv
  OBVIOUS
<1>1. PICK name \in [deployed -> Names],
           list \in [deployed -> {l \in EndpointLists : Distinct(l)}] :
         /\ \A s, t \in deployed :
               s # t => name[s] # name[t] /\ Public(list[s]) \cap Public(list[t]) = {}
         /\ services = [s \in Services |-> IF s \in deployed
                          THEN [NoRow EXCEPT !.state = "live", !.name = name[s]] ELSE NoRow]
         /\ endpoints = [s \in Services |-> IF s \in deployed THEN list[s] ELSE <<>>]
  BY DEF ServiceInit
<1>2. /\ deployed \in SUBSET Services /\ jobs = [j \in Jobs |-> NoJob] /\ started = 0
      /\ overtaken = {} /\ raced = {} /\ bare = {}
  BY DEF ServiceInit
<1>3. JobsInForm /\ \A j \in Jobs : jobs[j].svc = NoService /\ jobs[j].pc = "idle"
  BY <1>2, NoJobForm DEF JobsInForm, InForm, NoJob
<1>4. \A s \in deployed : list[s] \in Seq(Subdomain) /\ list[s] # <<>>
  BY ListsAreSequences
<1>5. ServiceTypeOK
  <2>1. NoRow \in Row /\ \A n \in Names : [NoRow EXCEPT !.state = "live", !.name = n] \in Row
    BY DEF NoRow, Row, Status
  <2>2. services \in [Services -> Row]
    BY <1>1, <1>2, <2>1
  <2>3. endpoints \in [Services -> Seq(Subdomain)]
    BY <1>1, <1>2, <1>4, EmptySeq
  <2>4. jobs \in [Jobs -> Job]
    BY <1>3 DEF JobsInForm
  <2>. QED
    BY <1>2, <2>2, <2>3, <2>4, ServiceConstants DEF ServiceTypeOK
<1>6. HandledRowsExist /\ ReadersAreOvertaken
  BY <1>3, ServiceConstants DEF HandledRowsExist, ReadersAreOvertaken
<1>7. EmptiedIsWritten
  <2>1. \A s \in Services : s \notin deployed => services[s].state = "none"
    BY <1>1 DEF NoRow
  <2>. QED
    BY <1>1, <1>4, <2>1 DEF EmptiedIsWritten
<1>8. ChecksHold
  BY <1>3 DEF ChecksHold, ToWrite, SubdomainTaken
<1>9. SubdomainSharedByRace
  BY <1>1, <1>2, ClearedLists DEF SubdomainSharedByRace, Published
<1>. QED
  BY <1>3, <1>5, <1>6, <1>7, <1>8, <1>9 DEF ServiceInv

\* Every step keeps the invariant.
LEMMA Preserved == ServiceInv /\ [ServiceNext]_serviceVars => ServiceInv'
BY JobsStep, TypeStep, RowsStep, ReadsStep, KeptStep, FreshStep, SharedStep DEF ServiceInv

\* The invariant holds in every reachable state.
LEMMA Invariance == ServiceSpec => []ServiceInv
BY Initially, Preserved, PTL DEF ServiceSpec

\* Every handler of ServiceService keeps the rows, the endpoints and what it carries over
\* its queries well typed.
THEOREM ServiceTypeCorrect == ServiceSpec => []ServiceTypeOK
<1>1. ServiceInv => ServiceTypeOK
  BY DEF ServiceInv
<1>. QED
  BY Invariance, <1>1, PTL

\* replaceServiceEndpoints and handleUpdateServiceSubdomain let two services share a
\* subdomain only if one writes it after the other has overtaken its check.
THEOREM SharingIsARace == ServiceSpec => []SubdomainSharedByRace
<1>1. ServiceInv => SubdomainSharedByRace
  BY DEF ServiceInv
<1>. QED
  BY Invariance, <1>1, PTL

\* A refused or unfinished handler never takes the endpoints of a service away, but for the
\* gap between deleteMany and createMany and for a creation that fails.
THEOREM EndpointsSurvive == ServiceSpec => []EndpointsAreKept
<1>1. ServiceInv => EndpointsAreKept
  BY DEF ServiceInv, EmptiedIsWritten, IsWriting, EndpointsAreKept, Svc
<1>. QED
  BY Invariance, <1>1, PTL

\* Once handleDeleteService has written deleted_at, only handlers that had read the service
\* before still change it.
THEOREM DeletionHolds == ServiceSpec => DeletionIsFinal
<1>1. ServiceInv /\ [ServiceNext]_serviceVars =>
        [\A s \in Services : services[s].state = "deleted" =>
          \/ UNCHANGED <<services[s].state, services[s].name, services[s].subdomain,
                         endpoints[s], s \in deployed>>
          \/ \E j \in overtaken : Svc(j) = s /\ jobs'[j] # jobs[j]]_serviceVars
  <2> SUFFICES ASSUME ServiceInv, [ServiceNext]_serviceVars,
                      NEW s \in Services, services[s].state = "deleted"
               PROVE  \/ UNCHANGED <<services[s].state, services[s].name, services[s].subdomain,
                                     endpoints[s], s \in deployed>>
                      \/ \E j \in overtaken : Svc(j) = s /\ jobs'[j] # jobs[j]
    OBVIOUS
  <2>1. Untouched(s) \/ ByHandler(s)
    BY DeletedStep DEF ServiceInv, DeletedUntouched
  <2>2. CASE Untouched(s)
    <3>1. (s \in deployed)' = (s \in deployed)
      BY <2>2 DEF Untouched
    <3>. QED
      BY <2>2, <3>1 DEF Untouched
  <2>3. CASE ByHandler(s)
    BY <2>3 DEF ByHandler, ServiceInv, ReadersAreOvertaken, Svc
  <2>. QED
    BY <2>1, <2>2, <2>3
<1>. QED
  BY Invariance, <1>1, PTL DEF ServiceSpec, DeletionIsFinal

=============================================================================
