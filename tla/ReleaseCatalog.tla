--------------------------- MODULE ReleaseCatalog ---------------------------
(***************************************************************************)
(* The catalogue of agent releases: the rows of agent_releases, and the    *)
(* synchronisation with GitHub that asks for one page of releases and then *)
(* for the release.json of each.  GitHub changes meanwhile and every       *)
(* request may fail.  Texts and images are left out; a release is its      *)
(* version, a number in the order of compareSemver.                        *)
(***************************************************************************)
EXTENDS Naturals, FiniteSets

CONSTANTS
    Versions,       \* releases that may come to exist, in version order
    Published,      \* per version, when it is published: a fix of an old line comes later
    Edited,         \* bound: versions whose release.json comes to speak against them
    PageSize        \* per_page

\* No two releases are published at the same moment.
ASSUME CatalogConstants ==
    /\ Versions \subseteq Nat /\ Published \in [Versions -> Nat]
    /\ \A v, w \in Versions : Published[v] = Published[w] => v = w
    /\ Edited \subseteq Versions /\ PageSize \in Nat

VARIABLES
    github,         \* external: each release: "none", without its asset ("bare"), "out" or "gone"
    says,           \* external: what release.json says against installing each release
    rows,           \* the rows of agent_releases
    sync            \* the synchronisation that is under way (this.syncing)

catalogVars == <<github, says, rows, sync>>

\* release.json gives a reason to block, or asks for a protocol this Hub does not speak.
Faults == {"blocked", "protocol"}

NoRow == [known |-> FALSE, yanked |-> FALSE, manual |-> FALSE, says |-> {}]

NoSync == [pc |-> "idle", todo |-> {}, seen |-> {}, meta |-> {}, out |-> {}, unread |-> {}]

Row == [known: BOOLEAN, yanked: BOOLEAN, manual: BOOLEAN, says: SUBSET Faults]

CatalogTypeOK ==
    /\ github \in [Versions -> {"none", "bare", "out", "gone"}]
    /\ says \in [Versions -> SUBSET Faults]
    /\ rows \in [Versions -> Row]
    /\ sync \in [pc: {"idle", "list", "each", "store"},
                 todo: SUBSET Versions, seen: SUBSET Versions,
                 meta: SUBSET Faults,       \* the metadata that is about to be stored
                 out: SUBSET Versions,      \* history: what was out when the page was read
                 unread: SUBSET Versions]   \* history: listed, and release.json not read

CatalogInit ==
    /\ github = [v \in Versions |-> "none"]
    /\ says = [v \in Versions |-> {}]
    /\ rows = [v \in Versions |-> NoRow]
    /\ sync = NoSync

-----------------------------------------------------------------------------
(* GitHub *)

\* External: a release is published, in the order of Published, and gets its asset when
\* the image is there.  It may lose the asset, be deleted and come back, and its release.json
\* may be edited; it keeps naming the release it is attached to.
GithubChanges ==
    /\ \E v \in Versions :
          \/ /\ github[v] = "none"
             /\ \A w \in Versions : Published[w] < Published[v] => github[w] # "none"
             /\ github' = [github EXCEPT ![v] = "bare"]
             /\ UNCHANGED says
          \/ /\ github[v] # "none"
             /\ \E state \in {"bare", "out", "gone"} : github' = [github EXCEPT ![v] = state]
             /\ says' = [says EXCEPT ![v] = {}]
          \/ /\ github[v] = "out" /\ v \in Edited
             /\ \E faults \in SUBSET Faults : says' = [says EXCEPT ![v] = faults]
             /\ UNCHANGED github
    /\ UNCHANGED <<rows, sync>>

-----------------------------------------------------------------------------
(* The synchronisation *)

\* sync(), called by onModuleInit, the timer, the operator, and the readers' ensureFresh.
\* It may come at any moment, so the times of the last one are left out; callers that come
\* while one is under way wait for it and start none.
StartSync ==
    /\ sync.pc = "idle"
    /\ sync' = [NoSync EXCEPT !.pc = "list"]
    /\ UNCHANGED <<github, says, rows>>

OnGithub == {v \in Versions : github[v] \in {"bare", "out"}}

\* The newest PageSize releases of those that are on GitHub.
Page == {v \in OnGithub : Cardinality({w \in OnGithub : Published[w] > Published[v]}) < PageSize}

ReadPage ==
    /\ sync.pc = "list"
    /\ sync' = [sync EXCEPT !.pc = "each",
                            !.todo = {v \in Page : github[v] = "out"},
                            !.out = {v \in Versions : github[v] = "out"}]
    /\ UNCHANGED <<github, says, rows>>

Newest(s) == CHOOSE v \in s : \A w \in s : Published[w] <= Published[v]
Oldest(s) == CHOOSE v \in s : \A w \in s : Published[v] <= Published[w]

\* fetchMetadata of the next release: what release.json says by now, or null.
fetchMetadata ==
    /\ sync.pc = "each"
    /\ sync.todo # {}
    /\ LET v == Newest(sync.todo) IN
          \/ /\ github[v] = "out"
             /\ sync' = [sync EXCEPT !.pc = "store", !.meta = says[v]]
          \/ sync' = [sync EXCEPT !.todo = @ \ {v}, !.unread = @ \cup {v}]
    /\ UNCHANGED <<github, says, rows>>

\* The upsert: the protocol and the block that the asset says, and the release is no
\* longer withdrawn.  The operator's block stays.
UpsertRelease ==
    /\ sync.pc = "store"
    /\ LET v == Newest(sync.todo) IN
          /\ rows' = [rows EXCEPT ![v] = [known |-> TRUE, yanked |-> FALSE,
                                          manual |-> @.manual, says |-> sync.meta]]
          /\ sync' = [sync EXCEPT !.pc = "each", !.meta = {},
                                  !.todo = @ \ {v}, !.seen = @ \cup {v}]
    /\ UNCHANGED <<github, says>>

\* Mutant: whatever was not seen counts as withdrawn, however old.
YankUnseen(v) == rows[v].known /\ v \notin sync.seen

\* markYanked: what was not seen and is not older than the oldest that was.
Yanks(v) ==
    /\ rows[v].known
    /\ v \notin sync.seen
    /\ Published[v] >= Published[Oldest(sync.seen)]

markYanked ==
    /\ sync.pc = "each"
    /\ sync.todo = {}
    /\ rows' = IF sync.seen = {} THEN rows
               ELSE [v \in Versions |-> IF Yanks(v) THEN [rows[v] EXCEPT !.yanked = TRUE] ELSE rows[v]]
    /\ sync' = NoSync
    /\ UNCHANGED <<github, says>>

\* The page cannot be read, a write is refused or the Hub stops; what was stored stays.
SyncFails ==
    /\ sync.pc # "idle"
    /\ sync' = NoSync
    /\ UNCHANGED <<github, says, rows>>

-----------------------------------------------------------------------------
(* The operator's blocks and what the catalogue says *)

blockRelease(v) ==
    /\ rows[v].known
    /\ rows' = [rows EXCEPT ![v].manual = TRUE]
    /\ UNCHANGED <<github, says, sync>>

unblockRelease(v) ==
    /\ rows[v].known
    /\ rows' = [rows EXCEPT ![v].manual = FALSE]
    /\ UNCHANGED <<github, says, sync>>

blockedReason(v) ==
    IF rows[v].manual THEN "operator"
    ELSE IF "blocked" \in rows[v].says THEN "release.json"
    ELSE IF rows[v].yanked THEN "withdrawn"
    ELSE IF "protocol" \in rows[v].says THEN "protocol"
    ELSE "none"

\* assertInstallable, and installable in listReleases.
Installable(v) == rows[v].known /\ blockedReason(v) = "none"

CatalogNext ==
    \/ GithubChanges \/ StartSync
    \/ ReadPage \/ fetchMetadata \/ UpsertRelease \/ markYanked \/ SyncFails
    \/ \E v \in Versions : blockRelease(v) \/ unblockRelease(v)

CatalogSpec == CatalogInit /\ [][CatalogNext]_catalogVars

-----------------------------------------------------------------------------
(* Properties *)

\* The operator or release.json speaks against v, or v was not on GitHub, with its
\* release.json, when the page was read.
Forbidden(v) == rows'[v].manual \/ rows'[v].says # {} \/ v \notin sync.out

\* A release that could be installed stops being so only when the operator or its
\* release.json blocks it, when that asks for a protocol the Hub does not speak, when the
\* release or the asset is deleted, or when this synchronisation could not read release.json;
\* neither the end of the page nor a synchronisation that fails half-way withdraws one.
InstallableIsKept ==
    [][\A v \in Versions :
          Installable(v) => Installable(v)' \/ Forbidden(v) \/ v \in sync.unread]_catalogVars

\* What markYanked says of a release that it withdraws: it was deleted from GitHub.
WithdrawnWasDeleted ==
    [][\A v \in Versions : Installable(v) => Installable(v)' \/ Forbidden(v)]_catalogVars

=============================================================================
