---------------------------- MODULE MirrorProofs ----------------------------
(***************************************************************************)
(* Proofs about the two tables that mirror what another service knows: for *)
(* any set of releases and any order of their publication, and for any     *)
(* length of the day, of the retention and of the clock's run.             *)
(***************************************************************************)
EXTENDS MCMirrors, FiniteSetTheorems, WellFoundedInduction, TLAPS

USE CatalogConstants, TrafficConstants

-----------------------------------------------------------------------------
(* ReleaseCatalog: the inductive invariant *)

\* However many releases may come to exist, at any time only finitely many have been
\* published: a page can be counted and a newest release chosen.
CatalogIsFinite == IsFiniteSet(OnGithub) /\ IsFiniteSet(sync.todo)

\* The releases of the page that a synchronisation has not come to, has stored or could not
\* read.
Listed == sync.todo \cup sync.seen \cup sync.unread

\* Every release that was out and is not older than one of the page is on the page, too.
PageHasNoHoles ==
    \A w \in Listed : \A v \in sync.out : Published[w] <= Published[v] => v \in Listed

\* There is a release at hand when one is stored, and none before the page is read.
SyncInForm ==
    /\ sync.pc = "store" => sync.todo # {}
    /\ sync.pc \in {"idle", "list"} => Listed = {}

CatalogInv == CatalogTypeOK /\ CatalogIsFinite /\ PageHasNoHoles /\ SyncInForm

-----------------------------------------------------------------------------
(* TrafficSync: the inductive invariant *)

\* A run has a day with a row, has still to ask for it, or was refused it; the list was made
\* for the days before run.day, which is over by the time they are asked for.
RunCoversDays ==
    run.pc = "each" =>
        /\ \A d \in run.day - Resync..run.day - 1 :
              d \in run.todo \/ d \in stored \/ d \in refused \/ d < Today - Keep
        /\ \A d \in run.todo : d < Today

\* Only a run that asks for its days has a list.
ListsBelongToRuns == run.pc # "each" => run.todo = {}

TrafficInv == TrafficTypeOK /\ RunCoversDays /\ RunLeavesNoGap /\ ListsBelongToRuns

-----------------------------------------------------------------------------
(* Sets of numbers *)

\* A set of natural numbers that is not empty has a least element.
LEMMA HasLeast ==
  ASSUME NEW S \in SUBSET Nat, S # {}
  PROVE  \E i \in S : \A k \in S : i <= k
<1> DEFINE R == {ss \in Nat \X Nat : ss[1] < ss[2]}
<1>1. IsWellFoundedOn(R, Nat)
  BY NatLessThanWellFounded DEF OpToRel
<1>2. PICK i \in S : \A k \in S : <<k, i>> \notin R
  <2>. HIDE DEF R
  <2>. QED
    BY <1>1, WFMin
<1>3. ASSUME NEW k \in S PROVE i <= k
  <2>1. ~(k < i)
    BY <1>2
  <2>. QED
    BY <2>1
<1>. QED
  BY <1>3

\* A set of numbers with an upper bound has a greatest one.
LEMMA HasGreatest ==
  ASSUME NEW S \in SUBSET Int, S # {}, NEW b \in Int, \A x \in S : x <= b
  PROVE  \E m \in S : \A x \in S : x <= m
<1>. DEFINE T == {n \in Nat : \E x \in S : n = b - x}
<1>1. T \in SUBSET Nat /\ T # {}
  <2>1. PICK x \in S : x <= b
    OBVIOUS
  <2>2. b - x \in T
    BY <2>1
  <2>. QED
    BY <2>2
<1>2. PICK i \in T : \A k \in T : i <= k
  <2>. HIDE DEF T
  <2>. QED
    BY <1>1, HasLeast
<1>3. PICK m \in S : i = b - m
  BY <1>2
<1>4. ASSUME NEW x \in S PROVE x <= m
  <2>1. b - x \in T
    BY <1>4
  <2>2. b - m <= b - x
    BY <1>2, <1>3, <2>1
  <2>. QED
    BY <2>2
<1>. QED
  BY <1>4

-----------------------------------------------------------------------------
(* TrafficSync: lemmas about days *)

\* The clock is in one of the parts of today.
LEMMA TodayBounds ==
  ASSUME NEW n \in Nat
  PROVE  /\ n \div DayParts \in Nat
         /\ (n \div DayParts) * DayParts <= n
         /\ n < (n \div DayParts) * DayParts + DayParts
BY SMT

\* More days have more parts.
LEMMA TimesIsMonotonic ==
  ASSUME NEW a \in Int, NEW b \in Int, a <= b
  PROVE  a * DayParts <= b * DayParts
BY SMT

\* Today never goes back, and is within the clock's bound.
LEMMA TodayIsTyped ==
  ASSUME now \in 0..(LastDay + 1) * DayParts - 1, LastDay \in Int
  PROVE  Today \in 0..LastDay
<1>1. now \in Nat
  OBVIOUS
<1>2. Today \in Nat /\ Today * DayParts <= now
  BY <1>1 DEF Today
<1>3. CASE Today >= LastDay + 1
  <2>1. (LastDay + 1) * DayParts <= Today * DayParts
    BY <1>2, <1>3
  <2>. QED
    BY <1>2, <2>1
<1>. QED
  BY <1>2, <1>3

\* The day does not go back while the clock moves on.
LEMMA TodayGrows ==
  ASSUME now \in Nat, now' = now + 1
  PROVE  Today <= Today'
<1>1. ASSUME NEW n \in Nat PROVE n \div DayParts <= (n + 1) \div DayParts
  BY SMT
<1>. QED
  BY <1>1 DEF Today

\* What a list of trailing days contains.
LEMMA TrailingDays ==
  ASSUME now \in Nat, NEW n \in Int
  PROVE  /\ \A d \in Int : d \in trailingDateList(n) <=> Today - n <= d /\ d < Today
         /\ trailingDateList(n) \subseteq Int
<1>1. Today \in Nat
  BY DEF Today
<1>2. ASSUME NEW d \in Int, Today - n <= d, d < Today PROVE d \in trailingDateList(n)
  <2>1. Today - d \in 1..n /\ d = Today - (Today - d)
    BY <1>1, <1>2
  <2>. QED
    BY <2>1 DEF trailingDateList
<1>. QED
  BY <1>1, <1>2 DEF trailingDateList

\* The backfill asks for the days that every run asks for, whatever the retention is, and for
\* none that would be pruned.
LEMMA BackfillCoversResync ==
  ASSUME now \in Nat, NEW retention \in Retentions \cup {Fallback * DayParts}
  PROVE  /\ \A d \in Today - Resync..Today - 1 : d \in backfillDates(retention)
         /\ backfillDates(retention) \subseteq Today - Keep..Today - 1
<1>1. /\ Today \in Nat /\ Today * DayParts <= now
      /\ now < Today * DayParts + DayParts
  BY DEF Today
<1>2. /\ retention \in Nat
      /\ retention >= (Resync + 1) * DayParts + Safety
  OBVIOUS
<1>. DEFINE c == Ceil(retention)
<1>3. c \in Nat /\ c >= Resync
  <2>. DEFINE n == retention + DayParts - 1
  <2>1. n \in Nat /\ c = n \div DayParts
    BY <1>2 DEF Ceil
  <2>2. c \in Nat /\ n < c * DayParts + DayParts
    BY <2>1
  <2>3. CASE c + 1 <= Resync
    <3>1. (c + 1) * DayParts <= Resync * DayParts
      BY <2>2, <2>3
    <3>2. (c + 1) * DayParts = c * DayParts + DayParts
      BY <2>2
    <3>3. (Resync + 1) * DayParts = Resync * DayParts + DayParts
      OBVIOUS
    <3>. QED
      BY <1>2, <2>1, <2>2, <3>1, <3>2, <3>3
  <2>. QED
    BY <2>2, <2>3
<1>. DEFINE span == IF c < Keep THEN c ELSE Keep
<1>4. span \in Nat /\ span >= Resync /\ span <= Keep
  BY <1>3
<1>5. backfillDates(retention)
        = {d \in trailingDateList(span) : d * DayParts >= now - retention + Safety}
  BY DEF backfillDates
<1>. HIDE DEF c, span
<1>6. ASSUME NEW d \in Today - Resync..Today - 1 PROVE d \in backfillDates(retention)
  <2>1. d \in Int /\ Today - Resync <= d /\ d < Today
    BY <1>1, <1>6
  <2>2. d \in trailingDateList(span)
    BY <1>1, <1>4, <2>1, TrailingDays
  <2>3. (Today - Resync) * DayParts <= d * DayParts
    BY <1>1, <2>1
  <2>4. (Today - Resync) * DayParts = Today * DayParts - Resync * DayParts
    BY <1>1
  <2>5. (Resync + 1) * DayParts = Resync * DayParts + DayParts
    OBVIOUS
  <2>6. d * DayParts >= now - retention + Safety
    BY <1>1, <1>2, <2>1, <2>3, <2>4, <2>5
  <2>. QED
    BY <1>5, <2>2, <2>6
<1>7. ASSUME NEW d \in backfillDates(retention) PROVE d \in Today - Keep..Today - 1
  <2>1. d \in trailingDateList(span)
    BY <1>5, <1>7
  <2>2. d \in Int /\ Today - span <= d /\ d < Today
    BY <1>4, <2>1, TrailingDays
  <2>. QED
    BY <1>1, <1>4, <2>2
<1>. QED
  BY <1>6, <1>7

-----------------------------------------------------------------------------
(* TrafficSync: preservation *)

\* What every handler may rely on: the clock is within its bounds and the next day of a list
\* is one of its days.
LEMMA TrafficFacts ==
  ASSUME TrafficTypeOK
  PROVE  /\ now \in Nat /\ Today \in 0..LastDay
         /\ run.todo \subseteq Int /\ stored \subseteq Int
         /\ run.todo # {} => NextDay \in run.todo
<1>1. now \in 0..(LastDay + 1) * DayParts - 1
  BY DEF TrafficTypeOK
<1>2. now \in Nat /\ Today \in 0..LastDay
  BY <1>1, TodayIsTyped
<1>3. run.todo \subseteq Days /\ stored \subseteq Days
  BY DEF TrafficTypeOK
<1>4. run.todo \subseteq Int /\ stored \subseteq Int /\ \A d \in run.todo : d <= LastDay
  BY <1>3 DEF Days
<1>5. ASSUME run.todo # {} PROVE NextDay \in run.todo
  <2>1. \E d \in run.todo : \A e \in run.todo : e <= d
    <3>. DEFINE S == run.todo
    <3>1. S \in SUBSET Int /\ S # {} /\ \A d \in S : d <= LastDay
      BY <1>4, <1>5
    <3>a. LastDay \in Int
      OBVIOUS
    <3>. HIDE DEF S
    <3>2. \E d \in S : \A e \in S : e <= d
      BY <3>1, <3>a, HasGreatest
    <3>. QED
      BY <3>2 DEF S
  <2>. QED
    BY <2>1 DEF NextDay
<1>. QED
  BY <1>2, <1>4, <1>5

\* A list that is made now is for days that are over and within the bounds.
LEMMA ListIsTyped ==
  ASSUME TrafficTypeOK, NEW list \in SUBSET (Today - Keep..Today - 1)
  PROVE  list \in SUBSET Days
BY TrafficFacts DEF Days

\* Every run asks for fewer days than rows are kept.
LEMMA ResyncList ==
  ASSUME TrafficTypeOK
  PROVE  trailingDateList(Resync) \subseteq Today - Keep..Today - 1
<1>1. now \in Nat /\ Today \in Int
  BY TrafficFacts
<1>2. ASSUME NEW d \in trailingDateList(Resync) PROVE d \in Today - Keep..Today - 1
  <2>1. d \in Int /\ Today - Resync <= d /\ d < Today
    BY <1>1, <1>2, TrailingDays
  <2>. QED
    BY <1>1, <2>1
<1>. QED
  BY <1>2

\* No day is asked for that is outside the bounds.
LEMMA TrafficTypeStep == TrafficInv /\ [TrafficNext]_trafficVars => TrafficTypeOK'
<1> SUFFICES ASSUME TrafficInv, [TrafficNext]_trafficVars PROVE TrafficTypeOK'
  OBVIOUS
<1>1. ASSUME TimePasses PROVE TrafficTypeOK'
  <2>1. now' \in 0..(LastDay + 1) * DayParts - 1
    BY <1>1 DEF TimePasses, TrafficInv, TrafficTypeOK
  <2>. QED
    BY <1>1, <2>1 DEF TimePasses, TrafficInv, TrafficTypeOK
<1>2. ASSUME StartRun PROVE TrafficTypeOK'
  <2>3. run' \in [pc: {"idle", "count", "retention", "each"}, todo: SUBSET Days, day: 0..LastDay]
    BY <1>2 DEF StartRun, NoRun
  <2>. QED
    BY <1>2, <2>3 DEF StartRun, TrafficInv, TrafficTypeOK
<1>3. ASSUME CountRows PROVE TrafficTypeOK'
  <2>3. run' \in [pc: {"idle", "count", "retention", "each"}, todo: SUBSET Days, day: 0..LastDay]
    BY <1>3, TrafficFacts, ListIsTyped, ResyncList DEF CountRows, TrafficInv, TrafficTypeOK
  <2>. QED
    BY <1>3, <2>3 DEF CountRows, TrafficInv, TrafficTypeOK
<1>4. ASSUME backfillDateList PROVE TrafficTypeOK'
  <2>1. PICK retention \in Retentions \cup {Fallback * DayParts} :
           run' = [run EXCEPT !.pc = "each", !.todo = backfillDates(retention), !.day = Today]
    BY <1>4 DEF backfillDateList
  <2>2. backfillDates(retention) \in SUBSET Days /\ Today \in 0..LastDay
    BY TrafficFacts, ListIsTyped, BackfillCoversResync DEF TrafficInv
  <2>3. run' \in [pc: {"idle", "count", "retention", "each"}, todo: SUBSET Days, day: 0..LastDay]
    BY <2>1, <2>2 DEF TrafficInv, TrafficTypeOK
  <2>. QED
    BY <1>4, <2>3 DEF backfillDateList, TrafficInv, TrafficTypeOK
<1>5. ASSUME syncOneDay PROVE TrafficTypeOK'
  <2>2. stored' \in SUBSET Days
    BY <1>5, TrafficFacts DEF syncOneDay, TrafficInv, TrafficTypeOK
  <2>3. run' \in [pc: {"idle", "count", "retention", "each"}, todo: SUBSET Days, day: 0..LastDay]
    BY <1>5 DEF syncOneDay, TrafficInv, TrafficTypeOK
  <2>4. refused' \in SUBSET Days
    BY <1>5 DEF syncOneDay, TrafficInv, TrafficTypeOK
  <2>. QED
    BY <1>5, <2>2, <2>3, <2>4 DEF syncOneDay, TrafficInv, TrafficTypeOK
<1>6. ASSUME SyncOneDayFails PROVE TrafficTypeOK'
  <2>2. stored' \in SUBSET Days
    BY <1>6 DEF SyncOneDayFails, TrafficInv, TrafficTypeOK
  <2>3. run' \in [pc: {"idle", "count", "retention", "each"}, todo: SUBSET Days, day: 0..LastDay]
    BY <1>6 DEF SyncOneDayFails, TrafficInv, TrafficTypeOK
  <2>4. refused' \in SUBSET Days
    BY <1>6, TrafficFacts DEF SyncOneDayFails, TrafficInv, TrafficTypeOK
  <2>. QED
    BY <1>6, <2>2, <2>3, <2>4 DEF SyncOneDayFails, TrafficInv, TrafficTypeOK
<1>7. ASSUME pruneOldRows PROVE TrafficTypeOK'
  <2>2. stored' \in SUBSET Days
    BY <1>7 DEF pruneOldRows, TrafficInv, TrafficTypeOK
  <2>3. run' \in [pc: {"idle", "count", "retention", "each"}, todo: SUBSET Days, day: 0..LastDay]
    BY <1>7 DEF pruneOldRows, NoRun
  <2>5. finished' \in SUBSET (0..LastDay)
    BY <1>7 DEF pruneOldRows, TrafficInv, TrafficTypeOK
  <2>. QED
    BY <1>7, <2>2, <2>3, <2>5 DEF pruneOldRows, TrafficInv, TrafficTypeOK
<1>8. ASSUME RunEnds PROVE TrafficTypeOK'
  <2>3. run' \in [pc: {"idle", "count", "retention", "each"}, todo: SUBSET Days, day: 0..LastDay]
    BY <1>8 DEF RunEnds, NoRun
  <2>. QED
    BY <1>8, <2>3 DEF RunEnds, TrafficInv, TrafficTypeOK
<1>9. ASSUME UNCHANGED trafficVars PROVE TrafficTypeOK'
  BY <1>9 DEF trafficVars, TrafficInv, TrafficTypeOK
<1>. QED
  BY <1>1, <1>2, <1>3, <1>4, <1>5, <1>6, <1>7, <1>8, <1>9 DEF TrafficNext

\* The list of a run is made for the days of its first moment, and midnight only lets them age.
LEMMA RunCoversDaysStep == TrafficInv /\ [TrafficNext]_trafficVars => RunCoversDays'
<1> SUFFICES ASSUME TrafficInv, [TrafficNext]_trafficVars PROVE RunCoversDays'
  OBVIOUS
<1>1. ASSUME TimePasses PROVE RunCoversDays'
  <2>1. Today <= Today' /\ Today \in Int /\ Today' \in Int
    BY <1>1, TrafficFacts DEF TimePasses, TrafficInv, Today
  <2>2. run.todo \subseteq Int /\ run.day \in Int
    BY TrafficFacts DEF TrafficInv, TrafficTypeOK
  <2>3. UNCHANGED <<stored, run, refused>>
    BY <1>1 DEF TimePasses
  <2>. SUFFICES ASSUME run.pc = "each"
                PROVE  /\ \A d \in run.day - Resync..run.day - 1 :
                             d \in run.todo \/ d \in stored \/ d \in refused \/ d < Today' - Keep
                       /\ \A d \in run.todo : d < Today'
    BY <2>3 DEF RunCoversDays
  <2>4. ASSUME NEW d \in run.day - Resync..run.day - 1
        PROVE  d \in run.todo \/ d \in stored \/ d \in refused \/ d < Today' - Keep
    <3>1. d \in run.todo \/ d \in stored \/ d \in refused \/ d < Today - Keep
      BY <2>4 DEF TrafficInv, RunCoversDays
    <3>. QED
      BY <2>1, <2>2, <2>4, <3>1
  <2>5. ASSUME NEW d \in run.todo PROVE d < Today'
    BY <2>1, <2>2, <2>5 DEF TrafficInv, RunCoversDays
  <2>. QED
    BY <2>4, <2>5
<1>2. ASSUME StartRun PROVE RunCoversDays'
  <2>1. Today' = Today
    BY <1>2 DEF StartRun, Today
  <2>. QED
    BY <1>2, <2>1 DEF StartRun, RunCoversDays
<1>3. ASSUME CountRows PROVE RunCoversDays'
  <2>1. Today' = Today /\ Today \in 0..LastDay /\ now \in Nat
    BY <1>3, TrafficFacts DEF CountRows, Today, TrafficInv
  <2>2. CASE stored = {}
    BY <1>3, <2>1, <2>2 DEF CountRows, RunCoversDays
  <2>3. CASE stored # {}
    <3>1. run'.todo = trailingDateList(Resync) /\ run'.day = Today
      BY <1>3, <2>3 DEF CountRows
    <3>2. \A d \in Today - Resync..Today - 1 : d \in trailingDateList(Resync)
      BY <2>1, TrailingDays
    <3>3. \A d \in trailingDateList(Resync) : d < Today
      BY <2>1, TrailingDays
    <3>. QED
      BY <2>1, <3>1, <3>2, <3>3 DEF RunCoversDays
  <2>. QED
    BY <2>2, <2>3
<1>4. ASSUME backfillDateList PROVE RunCoversDays'
  <2>1. Today' = Today /\ Today \in 0..LastDay /\ now \in Nat
    BY <1>4, TrafficFacts DEF backfillDateList, Today, TrafficInv
  <2>2. PICK retention \in Retentions \cup {Fallback * DayParts} :
           run' = [run EXCEPT !.pc = "each", !.todo = backfillDates(retention), !.day = Today]
    BY <1>4 DEF backfillDateList
  <2>3. run'.todo = backfillDates(retention) /\ run'.day = Today
    BY <2>2
  <2>4. /\ \A d \in Today - Resync..Today - 1 : d \in backfillDates(retention)
        /\ \A d \in backfillDates(retention) : d < Today
    BY <2>1, BackfillCoversResync
  <2>. QED
    BY <2>1, <2>3, <2>4 DEF RunCoversDays
<1>5. ASSUME syncOneDay PROVE RunCoversDays'
  <2>1. Today' = Today
    BY <1>5 DEF syncOneDay, Today
  <2>. QED
    BY <1>5, <2>1 DEF syncOneDay, TrafficInv, RunCoversDays
<1>6. ASSUME SyncOneDayFails PROVE RunCoversDays'
  <2>1. Today' = Today
    BY <1>6 DEF SyncOneDayFails, Today
  <2>. QED
    BY <1>6, <2>1 DEF SyncOneDayFails, TrafficInv, RunCoversDays
<1>7. ASSUME pruneOldRows PROVE RunCoversDays'
  <2>1. Today' = Today
    BY <1>7 DEF pruneOldRows, Today
  <2>. QED
    BY <1>7, <2>1 DEF pruneOldRows, RunCoversDays, NoRun
<1>8. ASSUME RunEnds PROVE RunCoversDays'
  <2>1. Today' = Today
    BY <1>8 DEF RunEnds, Today
  <2>. QED
    BY <1>8, <2>1 DEF RunEnds, RunCoversDays, NoRun
<1>9. ASSUME UNCHANGED trafficVars PROVE RunCoversDays'
  <2>1. Today' = Today
    BY <1>9 DEF trafficVars, Today
  <2>. QED
    BY <1>9, <2>1 DEF trafficVars, TrafficInv, RunCoversDays
<1>. QED
  BY <1>1, <1>2, <1>3, <1>4, <1>5, <1>6, <1>7, <1>8, <1>9 DEF TrafficNext

\* Only pruning takes a row away, and only one that is past its time.
LEMMA RunLeavesNoGapStep == TrafficInv /\ [TrafficNext]_trafficVars => RunLeavesNoGap'
<1> SUFFICES ASSUME TrafficInv, [TrafficNext]_trafficVars PROVE RunLeavesNoGap'
  OBVIOUS
<1>1. ASSUME TimePasses PROVE RunLeavesNoGap'
  <2>. DEFINE today == Today
              later == Today'
  <2>1. today <= later /\ today \in Int /\ later \in Int
    BY <1>1, TrafficFacts DEF TimePasses, TrafficInv, Today
  <2>2. finished \subseteq Int
    BY DEF TrafficInv, TrafficTypeOK
  <2>3. stored \subseteq Int
    BY TrafficFacts DEF TrafficInv
  <2>4. /\ \A t \in finished : \A d \in t - Resync..t - 1 :
              d \in stored \/ d \in refused \/ d < today - Keep
        /\ \A d \in stored : d < today
    BY DEF TrafficInv, RunLeavesNoGap
  <2>5. SUFFICES /\ \A t \in finished : \A d \in t - Resync..t - 1 :
                       d \in stored \/ d \in refused \/ d < later - Keep
                 /\ \A d \in stored : d < later
    BY <1>1 DEF TimePasses, RunLeavesNoGap
  <2>. HIDE DEF today, later
  <2>. QED
    BY <2>1, <2>2, <2>3, <2>4
<1>2. ASSUME StartRun PROVE RunLeavesNoGap'
  <2>1. Today' = Today
    BY <1>2 DEF StartRun, Today
  <2>. QED
    BY <1>2, <2>1 DEF StartRun, TrafficInv, RunLeavesNoGap
<1>3. ASSUME CountRows PROVE RunLeavesNoGap'
  <2>1. Today' = Today
    BY <1>3 DEF CountRows, Today
  <2>. QED
    BY <1>3, <2>1 DEF CountRows, TrafficInv, RunLeavesNoGap
<1>4. ASSUME backfillDateList PROVE RunLeavesNoGap'
  <2>1. Today' = Today
    BY <1>4 DEF backfillDateList, Today
  <2>. QED
    BY <1>4, <2>1 DEF backfillDateList, TrafficInv, RunLeavesNoGap
<1>5. ASSUME syncOneDay PROVE RunLeavesNoGap'
  <2>1. Today' = Today
    BY <1>5 DEF syncOneDay, Today
  <2>. QED
    BY <1>5, <2>1, TrafficFacts DEF syncOneDay, TrafficInv, RunCoversDays, RunLeavesNoGap
<1>6. ASSUME SyncOneDayFails PROVE RunLeavesNoGap'
  <2>1. Today' = Today
    BY <1>6 DEF SyncOneDayFails, Today
  <2>. QED
    BY <1>6, <2>1 DEF SyncOneDayFails, TrafficInv, RunLeavesNoGap
<1>7. ASSUME pruneOldRows PROVE RunLeavesNoGap'
  <2>1. Today' = Today
    BY <1>7 DEF pruneOldRows, Today
  <2>. QED
    BY <1>7, <2>1, TrafficFacts DEF pruneOldRows, TrafficInv, RunCoversDays, RunLeavesNoGap
<1>8. ASSUME RunEnds PROVE RunLeavesNoGap'
  <2>1. Today' = Today
    BY <1>8 DEF RunEnds, Today
  <2>. QED
    BY <1>8, <2>1 DEF RunEnds, TrafficInv, RunLeavesNoGap
<1>9. ASSUME UNCHANGED trafficVars PROVE RunLeavesNoGap'
  <2>1. Today' = Today
    BY <1>9 DEF trafficVars, Today
  <2>. QED
    BY <1>9, <2>1 DEF trafficVars, TrafficInv, RunLeavesNoGap
<1>. QED
  BY <1>1, <1>2, <1>3, <1>4, <1>5, <1>6, <1>7, <1>8, <1>9 DEF TrafficNext

\* A run that ends forgets its list.
LEMMA ListsBelongToRunsStep == TrafficInv /\ [TrafficNext]_trafficVars => ListsBelongToRuns'
<1> SUFFICES ASSUME TrafficInv, [TrafficNext]_trafficVars PROVE ListsBelongToRuns'
  OBVIOUS
<1>1. ASSUME TimePasses PROVE ListsBelongToRuns'
  BY <1>1 DEF TimePasses, TrafficInv, ListsBelongToRuns
<1>2. ASSUME StartRun PROVE ListsBelongToRuns'
  BY <1>2 DEF StartRun, ListsBelongToRuns, NoRun
<1>3. ASSUME CountRows PROVE ListsBelongToRuns'
  BY <1>3 DEF CountRows, TrafficInv, ListsBelongToRuns
<1>4. ASSUME backfillDateList PROVE ListsBelongToRuns'
  BY <1>4 DEF backfillDateList, ListsBelongToRuns
<1>5. ASSUME syncOneDay PROVE ListsBelongToRuns'
  BY <1>5 DEF syncOneDay, ListsBelongToRuns
<1>6. ASSUME SyncOneDayFails PROVE ListsBelongToRuns'
  BY <1>6 DEF SyncOneDayFails, ListsBelongToRuns
<1>7. ASSUME pruneOldRows PROVE ListsBelongToRuns'
  BY <1>7 DEF pruneOldRows, ListsBelongToRuns, NoRun
<1>8. ASSUME RunEnds PROVE ListsBelongToRuns'
  BY <1>8 DEF RunEnds, ListsBelongToRuns, NoRun
<1>9. ASSUME UNCHANGED trafficVars PROVE ListsBelongToRuns'
  BY <1>9 DEF trafficVars, TrafficInv, ListsBelongToRuns
<1>. QED
  BY <1>1, <1>2, <1>3, <1>4, <1>5, <1>6, <1>7, <1>8, <1>9 DEF TrafficNext

\* At first no day has a row, and no run is under way.
LEMMA TrafficInvInit == TrafficInit => TrafficInv
<1>. SUFFICES ASSUME TrafficInit PROVE TrafficInv
  OBVIOUS
<1>1. now = 0 /\ run.pc = "idle" /\ run.todo = {} /\ run.day = 0
  BY DEF TrafficInit, NoRun
<1>a. (LastDay + 1) * DayParts \in Nat /\ 1 * DayParts <= (LastDay + 1) * DayParts
  BY TimesIsMonotonic
<1>2. now \in 0..(LastDay + 1) * DayParts - 1
  BY <1>1, <1>a
<1>3. TrafficTypeOK
  BY <1>2 DEF TrafficInit, TrafficTypeOK, NoRun
<1>. QED
  BY <1>1, <1>3
  DEF TrafficInit, TrafficInv, RunCoversDays, RunLeavesNoGap, ListsBelongToRuns

\* Every behaviour of TrafficSpec keeps the inductive invariant.
THEOREM TrafficInvariant == TrafficSpec => []TrafficInv
<1>1. TrafficInv /\ [TrafficNext]_trafficVars => TrafficInv'
  BY TrafficTypeStep, RunCoversDaysStep, RunLeavesNoGapStep, ListsBelongToRunsStep
  DEF TrafficInv
<1>. QED
  BY <1>1, TrafficInvInit, PTL DEF TrafficSpec

\* A run that has come to its end leaves no gap, for any length of the day and the retention
\* and any number of days.
THEOREM RunsLeaveNoGap == TrafficSpec => []RunLeavesNoGap
<1>1. TrafficInv => RunLeavesNoGap
  BY DEF TrafficInv
<1>. QED
  BY <1>1, TrafficInvariant, PTL

-----------------------------------------------------------------------------
(* ReleaseCatalog: lemmas about pages *)

\* Among finitely many releases one was published last: the one that fewest come after.
LEMMA NewestIsOne ==
  ASSUME NEW S \in SUBSET Versions, IsFiniteSet(S), S # {}
  PROVE  Newest(S) \in S
<1>. DEFINE Later(v) == {w \in S : Published[w] > Published[v]}
            C == {n \in Nat : \E v \in S : n = Cardinality(Later(v))}
<1>1. ASSUME NEW v \in S PROVE IsFiniteSet(Later(v)) /\ Cardinality(Later(v)) \in Nat
  <2>1. Later(v) \subseteq S
    OBVIOUS
  <2>. HIDE DEF Later
  <2>2. IsFiniteSet(Later(v))
    BY <2>1, FS_Subset
  <2>. QED
    BY <2>2, FS_CardinalityType
<1>2. C \in SUBSET Nat /\ C # {}
  <2>. HIDE DEF Later
  <2>1. PICK v \in S : TRUE
    OBVIOUS
  <2>2. Cardinality(Later(v)) \in C
    BY <1>1
  <2>. QED
    BY <2>2
<1>3. PICK i \in C : \A k \in C : i <= k
  <2>. HIDE DEF C
  <2>. QED
    BY <1>2, HasLeast
<1>4. PICK v \in S : i = Cardinality(Later(v))
  BY <1>3
<1>5. ASSUME NEW w \in S, Published[w] > Published[v] PROVE FALSE
  <2>a. \A x \in S : Published[x] \in Int
    OBVIOUS
  <2>b. ASSUME NEW x \in Later(w) PROVE x \in Later(v)
    <3>1. Published[x] > Published[w] /\ x \in S
      BY <2>b
    <3>2. Published[x] > Published[v]
      BY <1>5, <2>a, <3>1
    <3>. QED
      BY <3>1, <3>2
  <2>c. w \in Later(v)
    BY <1>5
  <2>d. w \notin Later(w)
    BY <2>a
  <2>1. /\ Later(w) \subseteq Later(v) /\ w \in Later(v) /\ w \notin Later(w)
    BY <2>b, <2>c, <2>d
  <2>2. Cardinality(Later(w)) \in C
    <3>. HIDE DEF Later
    <3>. QED
      BY <1>1
  <2>. HIDE DEF Later, C
  <2>3. Cardinality(Later(w)) < Cardinality(Later(v))
    BY <1>1, <2>1, FS_Subset
  <2>. QED
    BY <1>1, <1>3, <1>4, <2>2, <2>3
<1>6. ASSUME NEW w \in S PROVE Published[w] <= Published[v]
  BY <1>5
<1>. QED
  BY <1>6 DEF Newest

\* Among any releases one was published first.
LEMMA OldestIsOne ==
  ASSUME NEW S \in SUBSET Versions, S # {}
  PROVE  Oldest(S) \in S
<1>. DEFINE C == {n \in Nat : \E v \in S : n = Published[v]}
<1>1. C \in SUBSET Nat /\ C # {}
  <2>1. PICK v \in S : TRUE
    OBVIOUS
  <2>2. Published[v] \in C
    OBVIOUS
  <2>. QED
    BY <2>2
<1>2. PICK i \in C : \A k \in C : i <= k
  <2>. HIDE DEF C
  <2>. QED
    BY <1>1, HasLeast
<1>3. PICK v \in S : i = Published[v]
  BY <1>2
<1>4. \A w \in S : Published[v] <= Published[w]
  BY <1>2, <1>3
<1>. QED
  BY <1>4 DEF Oldest

\* A release on GitHub that is not older than one of the page is on the page, too: fewer
\* come after it.
LEMMA PageIsNewest ==
  ASSUME IsFiniteSet(OnGithub), NEW w \in Page, NEW v \in OnGithub, Published[w] <= Published[v]
  PROVE  v \in Page
<1>. DEFINE Later(x) == {y \in OnGithub : Published[y] > Published[x]}
<1>1. w \in Versions /\ v \in Versions /\ OnGithub \subseteq Versions
  BY DEF Page, OnGithub
<1>a. \A x \in Versions : Published[x] \in Int
  OBVIOUS
<1>b. ASSUME NEW x \in Later(v) PROVE x \in Later(w)
  <2>1. Published[x] > Published[v] /\ x \in OnGithub
    BY <1>b
  <2>2. Published[x] > Published[w]
    BY <1>1, <1>a, <2>1
  <2>. QED
    BY <2>1, <2>2
<1>2. Later(v) \subseteq Later(w) /\ Later(w) \subseteq OnGithub
  BY <1>b
<1>3. Cardinality(Later(w)) < PageSize
  BY DEF Page
<1>4. Cardinality(Later(v)) < PageSize
  <2>. HIDE DEF Later
  <2>1. IsFiniteSet(Later(w))
    BY <1>2, FS_Subset
  <2>2. IsFiniteSet(Later(v)) /\ Cardinality(Later(v)) <= Cardinality(Later(w))
    BY <1>2, <2>1, FS_Subset
  <2>3. Cardinality(Later(w)) \in Nat /\ Cardinality(Later(v)) \in Nat
    BY <2>1, <2>2, FS_CardinalityType
  <2>. QED
    BY <1>3, <2>2, <2>3
<1>. QED
  BY <1>4 DEF Page

\* GitHub publishes one release at a time.
LEMMA GithubStaysFinite ==
  ASSUME CatalogTypeOK, IsFiniteSet(OnGithub), GithubChanges
  PROVE  IsFiniteSet(OnGithub)'
<1>1. CASE github' = github
  BY <1>1 DEF OnGithub
<1>2. CASE github' # github
  <2>1. PICK v \in Versions : \A w \in Versions \ {v} : github'[w] = github[w]
    BY <1>2 DEF GithubChanges, CatalogTypeOK
  <2>2. OnGithub' \subseteq OnGithub \cup {v}
    BY <2>1 DEF OnGithub
  <2>3. IsFiniteSet(OnGithub \cup {v})
    BY FS_AddElement
  <2>. QED
    BY <2>2, <2>3, FS_Subset
<1>. QED
  BY <1>1, <1>2

-----------------------------------------------------------------------------
(* ReleaseCatalog: preservation *)

\* The release that a synchronisation is at is one of its list.
LEMMA NextRelease ==
  ASSUME CatalogInv, sync.todo # {}
  PROVE  Newest(sync.todo) \in sync.todo /\ Newest(sync.todo) \in Versions
<1>1. sync.todo \in SUBSET Versions
  BY DEF CatalogInv, CatalogTypeOK
<1>. QED
  BY <1>1, NewestIsOne DEF CatalogInv, CatalogIsFinite

\* A mark in a row leaves it a row.
LEMMA MarkedRow ==
  ASSUME NEW x \in Row, NEW b \in BOOLEAN
  PROVE  [x EXCEPT !.yanked = b] \in Row /\ [x EXCEPT !.manual = b] \in Row
BY DEF Row

\* Every step keeps the catalogue and the synchronisation well typed.
LEMMA CatalogTypeStep == CatalogInv /\ [CatalogNext]_catalogVars => CatalogTypeOK'
<1> SUFFICES ASSUME CatalogInv, [CatalogNext]_catalogVars PROVE CatalogTypeOK'
  OBVIOUS
<1>1. ASSUME GithubChanges PROVE CatalogTypeOK'
  BY <1>1 DEF GithubChanges, CatalogInv, CatalogTypeOK
<1>2. ASSUME StartSync PROVE CatalogTypeOK'
  BY <1>2 DEF StartSync, CatalogInv, CatalogTypeOK, NoSync
<1>3. ASSUME ReadPage PROVE CatalogTypeOK'
  <2>1. Page \subseteq Versions
    BY DEF Page, OnGithub
  <2>. QED
    BY <1>3, <2>1 DEF ReadPage, CatalogInv, CatalogTypeOK
<1>4. ASSUME fetchMetadata PROVE CatalogTypeOK'
  <2>1. Newest(sync.todo) \in Versions
    BY <1>4, NextRelease DEF fetchMetadata
  <2>2. sync' \in [pc: {"idle", "list", "each", "store"}, todo: SUBSET Versions,
                     seen: SUBSET Versions, meta: SUBSET Faults, out: SUBSET Versions,
                     unread: SUBSET Versions]
    <3>1. CASE sync' = [sync EXCEPT !.pc = "store", !.meta = says[Newest(sync.todo)]]
      BY <2>1, <3>1 DEF CatalogInv, CatalogTypeOK
    <3>2. CASE sync' = [sync EXCEPT !.todo = @ \ {Newest(sync.todo)},
                                    !.unread = @ \cup {Newest(sync.todo)}]
      BY <2>1, <3>2 DEF CatalogInv, CatalogTypeOK
    <3>. QED
      BY <1>4, <3>1, <3>2 DEF fetchMetadata
  <2>. QED
    BY <1>4, <2>2 DEF fetchMetadata, CatalogInv, CatalogTypeOK
<1>5. ASSUME UpsertRelease PROVE CatalogTypeOK'
  <2>1. Newest(sync.todo) \in Versions
    BY <1>5, NextRelease DEF UpsertRelease, CatalogInv, SyncInForm
  <2>2. sync' \in [pc: {"idle", "list", "each", "store"}, todo: SUBSET Versions,
                     seen: SUBSET Versions, meta: SUBSET Faults, out: SUBSET Versions,
                     unread: SUBSET Versions]
    BY <1>5, <2>1 DEF UpsertRelease, CatalogInv, CatalogTypeOK
  <2>3. rows' \in [Versions -> Row]
    <3>. DEFINE v == Newest(sync.todo)
    <3>1. rows[v].manual \in BOOLEAN /\ sync.meta \in SUBSET Faults
      BY <2>1 DEF CatalogInv, CatalogTypeOK, Row
    <3>2. rows' = [rows EXCEPT ![v] = [known |-> TRUE, yanked |-> FALSE,
                                       manual |-> rows[v].manual, says |-> sync.meta]]
      BY <1>5 DEF UpsertRelease
    <3>. HIDE DEF v
    <3>. QED
      BY <3>1, <3>2 DEF CatalogInv, CatalogTypeOK, Row
  <2>4. github' = github /\ says' = says
    BY <1>5 DEF UpsertRelease
  <2>. QED
    BY <2>2, <2>3, <2>4 DEF CatalogInv, CatalogTypeOK
<1>6. ASSUME markYanked PROVE CatalogTypeOK'
  <2>1. rows' \in [Versions -> Row]
    BY <1>6, MarkedRow DEF markYanked, CatalogInv, CatalogTypeOK
  <2>. QED
    BY <1>6, <2>1 DEF markYanked, CatalogInv, CatalogTypeOK, NoSync
<1>7. ASSUME SyncFails PROVE CatalogTypeOK'
  BY <1>7 DEF SyncFails, CatalogInv, CatalogTypeOK, NoSync
<1>8. ASSUME NEW v \in Versions, blockRelease(v) PROVE CatalogTypeOK'
  <2>1. rows[v] \in Row /\ rows' = [rows EXCEPT ![v] = [rows[v] EXCEPT !.manual = TRUE]]
    BY <1>8 DEF blockRelease, CatalogInv, CatalogTypeOK
  <2>2. rows' \in [Versions -> Row]
    BY <2>1, MarkedRow DEF CatalogInv, CatalogTypeOK
  <2>. QED
    BY <1>8, <2>2 DEF blockRelease, CatalogInv, CatalogTypeOK
<1>9. ASSUME NEW v \in Versions, unblockRelease(v) PROVE CatalogTypeOK'
  <2>1. rows[v] \in Row /\ rows' = [rows EXCEPT ![v] = [rows[v] EXCEPT !.manual = FALSE]]
    BY <1>9 DEF unblockRelease, CatalogInv, CatalogTypeOK
  <2>2. rows' \in [Versions -> Row]
    BY <2>1, MarkedRow DEF CatalogInv, CatalogTypeOK
  <2>. QED
    BY <1>9, <2>2 DEF unblockRelease, CatalogInv, CatalogTypeOK
<1>10. ASSUME UNCHANGED catalogVars PROVE CatalogTypeOK'
  BY <1>10 DEF catalogVars, CatalogInv, CatalogTypeOK
<1>. QED
  BY <1>1, <1>2, <1>3, <1>4, <1>5, <1>6, <1>7, <1>8, <1>9, <1>10 DEF CatalogNext

\* One release at a time is published, and a list is part of what is on GitHub.
LEMMA CatalogFiniteStep == CatalogInv /\ [CatalogNext]_catalogVars => CatalogIsFinite'
<1> SUFFICES ASSUME CatalogInv, [CatalogNext]_catalogVars PROVE CatalogIsFinite'
  OBVIOUS
<1>1. ASSUME GithubChanges PROVE CatalogIsFinite'
  <2>1. IsFiniteSet(OnGithub)'
    BY <1>1, GithubStaysFinite DEF CatalogInv, CatalogIsFinite
  <2>. QED
    BY <1>1, <2>1 DEF GithubChanges, CatalogInv, CatalogIsFinite
<1>2. ASSUME StartSync PROVE CatalogIsFinite'
  <2>1. IsFiniteSet(OnGithub)'
    BY <1>2 DEF StartSync, CatalogInv, CatalogIsFinite, OnGithub
  <2>2. IsFiniteSet(sync.todo)'
    <3>1. sync'.todo \subseteq sync.todo
      BY <1>2 DEF StartSync, NoSync
    <3>. QED
      BY <3>1, FS_Subset DEF CatalogInv, CatalogIsFinite
  <2>. QED
    BY <2>1, <2>2 DEF CatalogIsFinite
<1>3. ASSUME ReadPage PROVE CatalogIsFinite'
  <2>1. IsFiniteSet(OnGithub)'
    BY <1>3 DEF ReadPage, CatalogInv, CatalogIsFinite, OnGithub
  <2>2. sync'.todo \subseteq OnGithub
    BY <1>3 DEF ReadPage, Page
  <2>. QED
    BY <2>1, <2>2, FS_Subset DEF CatalogInv, CatalogIsFinite
<1>4. ASSUME fetchMetadata PROVE CatalogIsFinite'
  <2>1. IsFiniteSet(OnGithub)'
    BY <1>4 DEF fetchMetadata, CatalogInv, CatalogIsFinite, OnGithub
  <2>2. IsFiniteSet(sync.todo)'
    <3>1. PICK v : sync'.todo = sync.todo \/ sync'.todo = sync.todo \ {v}
      BY <1>4 DEF fetchMetadata, CatalogInv, CatalogTypeOK
    <3>. QED
      BY <3>1, FS_Subset DEF CatalogInv, CatalogIsFinite
  <2>. QED
    BY <2>1, <2>2 DEF CatalogIsFinite
<1>5. ASSUME UpsertRelease PROVE CatalogIsFinite'
  <2>1. IsFiniteSet(OnGithub)'
    BY <1>5 DEF UpsertRelease, CatalogInv, CatalogIsFinite, OnGithub
  <2>2. IsFiniteSet(sync.todo)'
    <3>1. sync'.todo \subseteq sync.todo
      BY <1>5 DEF UpsertRelease
    <3>. QED
      BY <3>1, FS_Subset DEF CatalogInv, CatalogIsFinite
  <2>. QED
    BY <2>1, <2>2 DEF CatalogIsFinite
<1>6. ASSUME markYanked PROVE CatalogIsFinite'
  <2>1. IsFiniteSet(OnGithub)'
    BY <1>6 DEF markYanked, CatalogInv, CatalogIsFinite, OnGithub
  <2>2. IsFiniteSet(sync.todo)'
    <3>1. sync'.todo \subseteq sync.todo
      BY <1>6 DEF markYanked, NoSync
    <3>. QED
      BY <3>1, FS_Subset DEF CatalogInv, CatalogIsFinite
  <2>. QED
    BY <2>1, <2>2 DEF CatalogIsFinite
<1>7. ASSUME SyncFails PROVE CatalogIsFinite'
  <2>1. IsFiniteSet(OnGithub)'
    BY <1>7 DEF SyncFails, CatalogInv, CatalogIsFinite, OnGithub
  <2>2. IsFiniteSet(sync.todo)'
    <3>1. sync'.todo \subseteq sync.todo
      BY <1>7 DEF SyncFails, NoSync
    <3>. QED
      BY <3>1, FS_Subset DEF CatalogInv, CatalogIsFinite
  <2>. QED
    BY <2>1, <2>2 DEF CatalogIsFinite
<1>8. ASSUME NEW v \in Versions, blockRelease(v) PROVE CatalogIsFinite'
  <2>1. IsFiniteSet(OnGithub)'
    BY <1>8 DEF blockRelease, CatalogInv, CatalogIsFinite, OnGithub
  <2>2. IsFiniteSet(sync.todo)'
    <3>1. sync'.todo \subseteq sync.todo
      BY <1>8 DEF blockRelease
    <3>. QED
      BY <3>1, FS_Subset DEF CatalogInv, CatalogIsFinite
  <2>. QED
    BY <2>1, <2>2 DEF CatalogIsFinite
<1>9. ASSUME NEW v \in Versions, unblockRelease(v) PROVE CatalogIsFinite'
  <2>1. IsFiniteSet(OnGithub)'
    BY <1>9 DEF unblockRelease, CatalogInv, CatalogIsFinite, OnGithub
  <2>2. IsFiniteSet(sync.todo)'
    <3>1. sync'.todo \subseteq sync.todo
      BY <1>9 DEF unblockRelease
    <3>. QED
      BY <3>1, FS_Subset DEF CatalogInv, CatalogIsFinite
  <2>. QED
    BY <2>1, <2>2 DEF CatalogIsFinite
<1>10. ASSUME UNCHANGED catalogVars PROVE CatalogIsFinite'
  BY <1>10 DEF catalogVars, CatalogInv, CatalogIsFinite, OnGithub
<1>. QED
  BY <1>1, <1>2, <1>3, <1>4, <1>5, <1>6, <1>7, <1>8, <1>9, <1>10 DEF CatalogNext

\* A release leaves the list only when it is stored or could not be read.
LEMMA PageHasNoHolesStep == CatalogInv /\ [CatalogNext]_catalogVars => PageHasNoHoles'
<1> SUFFICES ASSUME CatalogInv, [CatalogNext]_catalogVars PROVE PageHasNoHoles'
  OBVIOUS
<1>1. ASSUME GithubChanges PROVE PageHasNoHoles'
  BY <1>1 DEF GithubChanges, CatalogInv, PageHasNoHoles, Listed
<1>2. ASSUME StartSync PROVE PageHasNoHoles'
  BY <1>2 DEF StartSync, PageHasNoHoles, NoSync
<1>3. ASSUME ReadPage PROVE PageHasNoHoles'
  <2>1. /\ sync'.todo = {v \in Page : github[v] = "out"} /\ sync'.seen = {} /\ sync'.unread = {}
        /\ sync'.out = {v \in Versions : github[v] = "out"}
    BY <1>3 DEF ReadPage, CatalogInv, SyncInForm, Listed
  <2>2. Listed' = {v \in Page : github[v] = "out"}
    BY <2>1 DEF Listed
  <2>3. \A v \in sync'.out : v \in OnGithub
    BY <2>1 DEF OnGithub
  <2>. QED
    BY <2>1, <2>2, <2>3, PageIsNewest DEF PageHasNoHoles, CatalogInv, CatalogIsFinite
<1>4. ASSUME fetchMetadata PROVE PageHasNoHoles'
  <2>1. sync.todo # {}
    BY <1>4 DEF fetchMetadata
  <2>2. Newest(sync.todo) \in sync.todo
    BY <2>1, NextRelease
  <2>3. Listed' = Listed /\ sync'.out = sync.out
    <3>1. CASE sync' = [sync EXCEPT !.pc = "store", !.meta = says[Newest(sync.todo)]]
      <4>1. /\ sync'.todo = sync.todo /\ sync'.seen = sync.seen
            /\ sync'.unread = sync.unread /\ sync'.out = sync.out
        BY <3>1 DEF CatalogInv, CatalogTypeOK
      <4>. QED
        BY <4>1 DEF Listed
    <3>2. CASE sync' = [sync EXCEPT !.todo = @ \ {Newest(sync.todo)},
                                    !.unread = @ \cup {Newest(sync.todo)}]
      <4>1. /\ sync'.todo = sync.todo \ {Newest(sync.todo)} /\ sync'.seen = sync.seen
            /\ sync'.unread = sync.unread \cup {Newest(sync.todo)} /\ sync'.out = sync.out
        BY <3>2 DEF CatalogInv, CatalogTypeOK
      <4>. QED
        BY <2>2, <4>1 DEF Listed
    <3>. QED
      BY <1>4, <3>1, <3>2 DEF fetchMetadata
  <2>. QED
    BY <2>3 DEF CatalogInv, PageHasNoHoles
<1>5. ASSUME UpsertRelease PROVE PageHasNoHoles'
  <2>1. sync.todo # {}
    BY <1>5 DEF UpsertRelease, CatalogInv, SyncInForm
  <2>2. Newest(sync.todo) \in sync.todo
    BY <2>1, NextRelease
  <2>3. Listed' = Listed /\ sync'.out = sync.out
    BY <1>5, <2>2 DEF UpsertRelease, Listed
  <2>. QED
    BY <2>3 DEF CatalogInv, PageHasNoHoles
<1>6. ASSUME markYanked PROVE PageHasNoHoles'
  BY <1>6 DEF markYanked, PageHasNoHoles, NoSync
<1>7. ASSUME SyncFails PROVE PageHasNoHoles'
  BY <1>7 DEF SyncFails, PageHasNoHoles, NoSync
<1>8. ASSUME NEW v \in Versions, blockRelease(v) PROVE PageHasNoHoles'
  BY <1>8 DEF blockRelease, CatalogInv, PageHasNoHoles, Listed
<1>9. ASSUME NEW v \in Versions, unblockRelease(v) PROVE PageHasNoHoles'
  BY <1>9 DEF unblockRelease, CatalogInv, PageHasNoHoles, Listed
<1>10. ASSUME UNCHANGED catalogVars PROVE PageHasNoHoles'
  BY <1>10 DEF catalogVars, CatalogInv, PageHasNoHoles, Listed
<1>. QED
  BY <1>1, <1>2, <1>3, <1>4, <1>5, <1>6, <1>7, <1>8, <1>9, <1>10 DEF CatalogNext

\* A list is made when the page is read and forgotten at the end.
LEMMA SyncInFormStep == CatalogInv /\ [CatalogNext]_catalogVars => SyncInForm'
<1> SUFFICES ASSUME CatalogInv, [CatalogNext]_catalogVars PROVE SyncInForm'
  OBVIOUS
<1>1. ASSUME GithubChanges PROVE SyncInForm'
  BY <1>1 DEF GithubChanges, CatalogInv, SyncInForm, Listed
<1>2. ASSUME StartSync PROVE SyncInForm'
  BY <1>2 DEF StartSync, SyncInForm, Listed, NoSync
<1>3. ASSUME ReadPage PROVE SyncInForm'
  BY <1>3 DEF ReadPage, SyncInForm
<1>4. ASSUME fetchMetadata PROVE SyncInForm'
  BY <1>4 DEF fetchMetadata, CatalogInv, CatalogTypeOK, SyncInForm
<1>5. ASSUME UpsertRelease PROVE SyncInForm'
  BY <1>5 DEF UpsertRelease, SyncInForm
<1>6. ASSUME markYanked PROVE SyncInForm'
  BY <1>6 DEF markYanked, SyncInForm, Listed, NoSync
<1>7. ASSUME SyncFails PROVE SyncInForm'
  BY <1>7 DEF SyncFails, SyncInForm, Listed, NoSync
<1>8. ASSUME NEW v \in Versions, blockRelease(v) PROVE SyncInForm'
  BY <1>8 DEF blockRelease, CatalogInv, SyncInForm, Listed
<1>9. ASSUME NEW v \in Versions, unblockRelease(v) PROVE SyncInForm'
  BY <1>9 DEF unblockRelease, CatalogInv, SyncInForm, Listed
<1>10. ASSUME UNCHANGED catalogVars PROVE SyncInForm'
  BY <1>10 DEF catalogVars, CatalogInv, SyncInForm, Listed
<1>. QED
  BY <1>1, <1>2, <1>3, <1>4, <1>5, <1>6, <1>7, <1>8, <1>9, <1>10 DEF CatalogNext

\* At first GitHub has no release, and no synchronisation runs.
LEMMA CatalogInvInit == CatalogInit => CatalogInv
<1>. SUFFICES ASSUME CatalogInit PROVE CatalogInv
  OBVIOUS
<1>1. CatalogTypeOK
  BY DEF CatalogInit, CatalogTypeOK, Row, NoRow, NoSync
<1>2. OnGithub = {} /\ sync.todo = {}
  BY DEF CatalogInit, OnGithub, NoSync
<1>3. CatalogIsFinite
  BY <1>2, FS_EmptySet DEF CatalogIsFinite
<1>4. Listed = {} /\ sync.pc = "idle"
  BY DEF CatalogInit, Listed, NoSync
<1>. QED
  BY <1>1, <1>3, <1>4 DEF CatalogInv, PageHasNoHoles, SyncInForm

\* Every behaviour of CatalogSpec keeps the inductive invariant.
THEOREM CatalogInvariant == CatalogSpec => []CatalogInv
<1>1. CatalogInv /\ [CatalogNext]_catalogVars => CatalogInv'
  BY CatalogTypeStep, CatalogFiniteStep, PageHasNoHolesStep, SyncInFormStep DEF CatalogInv
<1>. QED
  BY <1>1, CatalogInvInit, PTL DEF CatalogSpec

\* What one step may do to a release that can be installed.
LEMMA InstallableStep ==
  ASSUME CatalogInv, CatalogNext, NEW v \in Versions, Installable(v)
  PROVE  Installable(v)' \/ Forbidden(v) \/ v \in sync.unread
<1>. SUFFICES ASSUME v \notin sync.unread, ~Forbidden(v) PROVE Installable(v)'
  OBVIOUS
<1>1. rows[v].known /\ ~rows[v].manual /\ ~rows[v].yanked
  BY DEF Installable, blockedReason
<1>2. ~rows'[v].manual /\ rows'[v].says = {} /\ v \in sync.out
  BY DEF Forbidden
<1>3. rows \in [Versions -> Row]
  BY DEF CatalogInv, CatalogTypeOK
<1>4. ASSUME rows'[v].known, ~rows'[v].yanked PROVE Installable(v)'
  BY <1>1, <1>2, <1>4 DEF Installable, blockedReason
<1>5. CASE UNCHANGED rows
  BY <1>1, <1>4, <1>5
<1>6. CASE UpsertRelease
  <2>1. rows'[v].known /\ ~rows'[v].yanked
    BY <1>1, <1>3, <1>6 DEF UpsertRelease, Row
  <2>. QED
    BY <1>4, <2>1
<1>7. CASE markYanked
  <2>1. rows' # rows => sync.seen # {} /\ sync.todo = {}
    BY <1>7 DEF markYanked
  <2>2. ASSUME rows' # rows PROVE ~Yanks(v)
    <3>1. Oldest(sync.seen) \in sync.seen
      BY <2>1, <2>2, OldestIsOne DEF CatalogInv, CatalogTypeOK
    <3>2. ASSUME Yanks(v) PROVE FALSE
      <4>1. Oldest(sync.seen) \in Versions
        BY <3>1 DEF CatalogInv, CatalogTypeOK
      <4>2. Published[Oldest(sync.seen)] <= Published[v] /\ v \notin sync.seen
        BY <3>2, <4>1 DEF Yanks
      <4>3. v \in Listed
        BY <1>2, <3>1, <4>2 DEF CatalogInv, PageHasNoHoles, Listed
      <4>. QED
        BY <2>1, <2>2, <4>2, <4>3 DEF Listed
    <3>. QED
      BY <3>2
  <2>3. rows'[v] = rows[v]
    BY <1>7, <2>2 DEF markYanked
  <2>. QED
    BY <1>1, <1>4, <2>3
<1>8. ASSUME NEW w \in Versions, blockRelease(w) \/ unblockRelease(w) PROVE Installable(v)'
  <2>1. rows'[v].known = rows[v].known /\ rows'[v].yanked = rows[v].yanked
    BY <1>3, <1>8 DEF blockRelease, unblockRelease, Row
  <2>. QED
    BY <1>1, <1>4, <2>1
<1>. QED
  BY <1>5, <1>6, <1>7, <1>8
  DEF CatalogNext, GithubChanges, StartSync, ReadPage, fetchMetadata, SyncFails

\* A release that could be installed stops being so only when it is blocked, asks for a protocol
\* the Hub does not speak, or has left GitHub with or without its asset, or when its
\* release.json could not be read; for any number of releases in any order of publication, any
\* page size and any change of GitHub during a synchronisation.
THEOREM InstallableStays == CatalogSpec => InstallableIsKept
<1>1. CatalogInv /\ [CatalogNext]_catalogVars =>
        [\A v \in Versions : Installable(v) =>
           Installable(v)' \/ Forbidden(v) \/ v \in sync.unread]_catalogVars
  BY InstallableStep
<1>. QED
  BY <1>1, CatalogInvariant, PTL DEF CatalogSpec, InstallableIsKept

-----------------------------------------------------------------------------
(* The two together *)

\* The tables share no state: a behaviour of the whole is a behaviour of each, so that what was
\* proved of one holds of the whole.
LEMMA TablesAreFollowed == MirrorSpec => CatalogSpec /\ TrafficSpec
<1>1. MirrorInit => CatalogInit /\ TrafficInit
  BY DEF MirrorInit
<1>2. ASSUME [MirrorNext]_mirrorVars
      PROVE  [CatalogNext]_catalogVars /\ [TrafficNext]_trafficVars
  <2>1. CASE UNCHANGED mirrorVars
    BY <2>1 DEF mirrorVars
  <2>2. CASE MirrorNext
    BY <2>2 DEF MirrorNext
  <2>. QED
    BY <1>2, <2>1, <2>2
<1>. QED
  BY <1>1, <1>2, PTL DEF MirrorSpec, CatalogSpec, TrafficSpec

\* Both tables and the runs that fill them stay well typed.
THEOREM MirrorsTyped == MirrorSpec => []MirrorTypes
<1>1. CatalogInv => CatalogTypeOK
  BY DEF CatalogInv
<1>2. TrafficInv => TrafficTypeOK
  BY DEF TrafficInv
<1>. QED
  BY <1>1, <1>2, TablesAreFollowed, CatalogInvariant, TrafficInvariant, PTL DEF MirrorTypes

=============================================================================
