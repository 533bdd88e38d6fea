---------------------------- MODULE TrafficSync ----------------------------
(***************************************************************************)
(* The daily traffic figures: the rows of traffic_daily and the hourly run *)
(* that asks Cloudflare for the last few days, or, while there is no row,  *)
(* for all that Cloudflare still has.  Days are numbers, time is counted   *)
(* in parts of a day and goes on during a run.  The bytes are left out: a  *)
(* row is overwritten with what the last answer said.                      *)
(***************************************************************************)
EXTENDS Integers

CONSTANTS
    DayParts,       \* parts of a day that the clock tells apart
    Retentions,     \* lengths of Cloudflare's retention that it may report, in parts of a day
    Safety,         \* RETENTION_SAFETY_MS, in parts of a day
    Fallback,       \* FALLBACK_BACKFILL_DAYS
    Resync,         \* RESYNC_TRAILING_DAYS
    Keep,           \* PRUNE_KEEP_DAYS
    LastDay         \* bound on the clock

\* The retention covers the days that every run asks for.
ASSUME TrafficConstants ==
    /\ DayParts \in Nat \ {0} /\ Safety \in Nat /\ Fallback \in Nat
    /\ Resync \in Nat /\ Keep \in Nat /\ Resync < Keep /\ LastDay \in Nat
    /\ Retentions \subseteq Nat
    /\ \A r \in Retentions \cup {Fallback * DayParts} : r >= (Resync + 1) * DayParts + Safety

VARIABLES
    now,            \* the clock, in parts of a day
    stored,         \* the days that have a row
    run,            \* the run that is under way (this.syncing) and the days it has still to ask for
    refused,        \* history: days whose last question failed
    finished        \* history: days on which a run made its list that has come to its end

trafficVars == <<now, stored, run, refused, finished>>

Today == now \div DayParts

NoRun == [pc |-> "idle", todo |-> {}, day |-> 0]

Days == -Keep..LastDay

TrafficTypeOK ==
    /\ now \in 0..(LastDay + 1) * DayParts - 1
    /\ stored \in SUBSET Days
    /\ run \in [pc: {"idle", "count", "retention", "each"}, todo: SUBSET Days, day: 0..LastDay]
    /\ refused \in SUBSET Days
    /\ finished \in SUBSET (0..LastDay)

TrafficInit ==
    /\ now = 0
    /\ stored = {} /\ refused = {} /\ finished = {}
    /\ run = NoRun

-----------------------------------------------------------------------------

trailingDateList(days) == {Today - i : i \in 1..days}

Ceil(parts) == (parts + DayParts - 1) \div DayParts

\* Mutant: days are asked for whose rows will not be kept.
BackfillAll(retention) ==
    {d \in trailingDateList(Ceil(retention)) : d * DayParts >= now - retention + Safety}

\* The days that are wholly within the retention, with a margin.
backfillDates(retention) ==
    LET span == IF Ceil(retention) < Keep THEN Ceil(retention) ELSE Keep IN
    {d \in trailingDateList(span) : d * DayParts >= now - retention + Safety}

TimePasses ==
    /\ now < (LastDay + 1) * DayParts - 1
    /\ now' = now + 1
    /\ UNCHANGED <<stored, run, refused, finished>>

\* sync(), from onModuleInit and the timer; one run at a time.
StartRun ==
    /\ run.pc = "idle"
    /\ run' = [NoRun EXCEPT !.pc = "count"]
    /\ UNCHANGED <<now, stored, refused, finished>>

CountRows ==
    /\ run.pc = "count"
    /\ run' = IF stored = {} THEN [run EXCEPT !.pc = "retention"]
              ELSE [run EXCEPT !.pc = "each", !.todo = trailingDateList(Resync), !.day = Today]
    /\ UNCHANGED <<now, stored, refused, finished>>

\* Cloudflare tells its retention, or the fallback is taken.
backfillDateList ==
    /\ run.pc = "retention"
    /\ \E retention \in Retentions \cup {Fallback * DayParts} :
          run' = [run EXCEPT !.pc = "each", !.todo = backfillDates(retention), !.day = Today]
    /\ UNCHANGED <<now, stored, refused, finished>>

\* The list runs from yesterday backwards.
NextDay == CHOOSE d \in run.todo : \A e \in run.todo : e <= d

syncOneDay ==
    /\ run.pc = "each"
    /\ run.todo # {}
    /\ stored' = stored \cup {NextDay}
    /\ refused' = refused \ {NextDay}
    /\ run' = [run EXCEPT !.todo = @ \ {NextDay}]
    /\ UNCHANGED <<now, finished>>

\* Mutant: the first day that fails ends the run.
FailureEndsRun ==
    /\ run.pc = "each"
    /\ run.todo # {}
    /\ refused' = refused \cup ({NextDay} \ stored)
    /\ run' = [run EXCEPT !.todo = {}]
    /\ UNCHANGED <<now, stored, finished>>

\* Cloudflare refuses or the write fails: the run goes on with the day before.
SyncOneDayFails ==
    /\ run.pc = "each"
    /\ run.todo # {}
    /\ refused' = refused \cup ({NextDay} \ stored)
    /\ run' = [run EXCEPT !.todo = @ \ {NextDay}]
    /\ UNCHANGED <<now, stored, finished>>

pruneOldRows ==
    /\ run.pc = "each"
    /\ run.todo = {}
    /\ stored' = {d \in stored : d >= Today - Keep}
    /\ finished' = finished \cup {run.day}
    /\ run' = NoRun
    /\ UNCHANGED <<now, refused>>

\* A query to the database throws, which runScheduledSync swallows, or the Hub stops.
RunEnds ==
    /\ run.pc # "idle"
    /\ run' = NoRun
    /\ UNCHANGED <<now, stored, refused, finished>>

TrafficNext ==
    \/ TimePasses \/ StartRun \/ CountRows \/ backfillDateList
    \/ syncOneDay \/ SyncOneDayFails \/ pruneOldRows \/ RunEnds

TrafficSpec == TrafficInit /\ [][TrafficNext]_trafficVars

-----------------------------------------------------------------------------
(* Properties *)

\* Once a run has come to its end, the days it is there for have a row for as long as rows
\* are kept, or Cloudflare refused that day: no failure of another day, no midnight during
\* the run and no later run leaves a gap.  A day that is not over has no row.
RunLeavesNoGap ==
    /\ \A t \in finished : \A d \in t - Resync..t - 1 :
          d \in stored \/ d \in refused \/ d < Today - Keep
    /\ \A d \in stored : d < Today

=============================================================================
