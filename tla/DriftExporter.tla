--------------------------- MODULE DriftExporter ---------------------------
(***************************************************************************)
(* The SuzieQ drift exporter: a loop that collects the assert tables,      *)
(* scores every device and updates three gauges one after the other, and   *)
(* an HTTP thread that serves the gauges at any moment in between.         *)
(*                                                                         *)
(* Polls that succeed are numbered, and every value a gauge holds carries  *)
(* the poll it comes from.  0 is no poll: the value a gauge is registered  *)
(* with, and the value a series is created with.                           *)
(* The HTTP thread copies the series under the gauge's lock, and a cleared *)
(* series is never written again, so reading the scores is one step.       *)
(***************************************************************************)
EXTENDS Integers, FiniteSets, FiniteSetsExt

CONSTANTS Devices,
          MaxPolls,     \* bound on polls that succeed
          MaxFailures   \* bound on polls that fail

ASSUME DriftExporterAssumption ==
  IsFiniteSet(Devices) /\ MaxPolls \in Nat \ {0} /\ MaxFailures \in Nat

VARIABLES loop,      \* what the loop does next
          scores,    \* the scores of the poll in progress
          todo,      \* those whose series is still to be created
          unset,     \* the one whose series exists and holds no score yet
          series,    \* suzieq_drift_score
          aggregate, \* suzieq_drift_score_aggregate
          stamp,     \* suzieq_last_poll_timestamp_seconds, as a poll
          serving,   \* the HTTP server runs
          failures,  \* polls that failed
          scrape     \* the scrape in progress: what it reads next, the polls
                     \* it has read values of, whether the loop fell asleep since

gauges == <<series, aggregate, stamp>>

exporterVars == <<loop, scores, todo, unset, gauges, serving, failures, scrape>>

-----------------------------------------------------------------------------
(* Scores, in units of 1 / Scale.                                          *)

Tables == {"bgp", "interface"}

\* The assert rows of a table: bounded to one of each device it mentions.
RowResults == {"absent", "pass", "fail"}

Scale == Cardinality(Tables)

RowsOf(fetched, d) == {t \in Tables : fetched[t][d] # "absent"}

FailedRowsOf(fetched, d) == {t \in Tables : fetched[t][d] = "fail"}

\* A device that no row mentions has no score.
DriftScores(fetched) ==
  {[device |-> d,
    score |-> (Scale * Cardinality(FailedRowsOf(fetched, d)))
                \div Cardinality(RowsOf(fetched, d))] :
     d \in {e \in Devices : RowsOf(fetched, e) # {}}}

\* The scores a gauge shows, whatever poll they are from.
ScoresIn(samples) == {[device |-> s.device, score |-> s.score] : s \in samples}

ScoresPossible == SUBSET [device : Devices, score : 0 .. Scale]

Sum(scored) == MapThenSumSet(LAMBDA s : s.score, scored)

\* A mean, kept as the sum of the scores and their number.
DriftScoreAggregate(scored) == [sum |-> Sum(scored), count |-> Cardinality(scored)]

-----------------------------------------------------------------------------
Poll == stamp + 1

NoScrape == [next |-> "scores", polls |-> {}, asleep |-> FALSE]

ExporterInit ==
  /\ loop = "collect"
  /\ scores = {} /\ todo = {} /\ unset = {}
  /\ series = {} /\ stamp = 0
  /\ aggregate = [poll |-> 0, mean |-> DriftScoreAggregate({})]
  /\ serving = FALSE
  /\ failures = 0
  /\ scrape = NoScrape

\* The loop sleeps from here; a scrape in progress has seen it fall asleep.
FallAsleep ==
  scrape' = IF scrape = NoScrape THEN scrape ELSE [scrape EXCEPT !.asleep = TRUE]

\* Rows are local to the poll: a table fetched before the next one fails is lost.
Collect ==
  /\ loop = "collect" /\ stamp < MaxPolls
  /\ \E fetched \in [Tables -> [Devices -> RowResults]] :
       scores' = DriftScores(fetched)
  /\ loop' = "clear"
  /\ UNCHANGED <<todo, unset, gauges, serving, failures, scrape>>

\* Mutant: a failed refresh ends the loop.
AfterFailureExit == "exited"

\* The first poll ends the program with 1; a later one is logged.
AfterFailure == IF serving THEN "sleep" ELSE "exited"

\* Mutant: the timestamp is set whether the poll succeeded or not.
CollectFailsStamped ==
  /\ loop = "collect" /\ failures < MaxFailures
  /\ failures' = failures + 1
  /\ stamp' = Poll
  /\ loop' = AfterFailure
  /\ FallAsleep
  /\ UNCHANGED <<scores, todo, unset, series, aggregate, serving>>

CollectFails ==
  /\ loop = "collect" /\ failures < MaxFailures
  /\ failures' = failures + 1
  /\ loop' = AfterFailure
  /\ FallAsleep
  /\ UNCHANGED <<scores, todo, unset, gauges, serving>>

-----------------------------------------------------------------------------
(* update_gauges.                                                          *)

\* Mutant: only the series of the devices scored are written anew.
ClearedOfScored == {s \in series : \A t \in scores : t.device # s.device}

\* What is left of the series once the gauge is cleared.
Cleared == {}

Clear ==
  /\ loop = "clear"
  /\ series' = Cleared
  /\ todo' = scores
  /\ loop' = "set"
  /\ UNCHANGED <<scores, unset, aggregate, stamp, serving, failures, scrape>>

Sample(device, score) == [device |-> device, poll |-> Poll, score |-> score]

\* What labels() creates: a series that reads 0, which no poll collected.
Unset(device) == [device |-> device, poll |-> 0, score |-> 0]

\* The series is created, and is served without a score until set() gives it one.
Label ==
  /\ loop = "set" /\ unset = {}
  /\ \E s \in todo :
       /\ series' = series \union {Unset(s.device)}
       /\ todo' = todo \ {s}
       /\ unset' = {s}
  /\ UNCHANGED <<loop, scores, aggregate, stamp, serving, failures, scrape>>

SetScore ==
  /\ loop = "set"
  /\ \E s \in unset :
       series' = (series \ {Unset(s.device)}) \union {Sample(s.device, s.score)}
  /\ unset' = {}
  /\ UNCHANGED <<loop, scores, todo, aggregate, stamp, serving, failures, scrape>>

\* Mutant: the aggregate is only set when there is something to average.
SetAggregateOfSome ==
  /\ loop = "set" /\ todo = {} /\ unset = {}
  /\ aggregate' = IF scores = {} THEN aggregate
                  ELSE [poll |-> Poll, mean |-> DriftScoreAggregate(scores)]
  /\ loop' = "stamp"
  /\ UNCHANGED <<scores, todo, unset, series, stamp, serving, failures, scrape>>

SetAggregate ==
  /\ loop = "set" /\ todo = {} /\ unset = {}
  /\ aggregate' = [poll |-> Poll, mean |-> DriftScoreAggregate(scores)]
  /\ loop' = "stamp"
  /\ UNCHANGED <<scores, todo, unset, series, stamp, serving, failures, scrape>>

SetTimestamp ==
  /\ loop = "stamp"
  /\ stamp' = Poll
  /\ scores' = {}
  /\ loop' = IF serving THEN "sleep" ELSE "serve"
  /\ FallAsleep
  /\ UNCHANGED <<todo, unset, series, aggregate, serving, failures>>

-----------------------------------------------------------------------------
(* main, and the HTTP thread.                                              *)

\* A port that is taken ends the program: nothing catches it.
StartHttpServer ==
  /\ loop = "serve"
  /\ \/ serving' = TRUE /\ loop' = "sleep"
     \/ loop' = "exited" /\ UNCHANGED serving
  /\ UNCHANGED <<scores, todo, unset, gauges, failures, scrape>>

\* Timing: a scrape takes less than the interval the loop sleeps, so that no
\* scrape lasts through a whole sleep.
Wake ==
  /\ loop = "sleep" /\ ~scrape.asleep
  /\ loop' = "collect"
  /\ UNCHANGED <<scores, todo, unset, gauges, serving, failures, scrape>>

\* The gauges are read in the order they were registered.
Read(what, polls, after) ==
  /\ serving /\ scrape.next = what
  /\ scrape' = [scrape EXCEPT !.next = after, !.polls = @ \union polls]
  /\ UNCHANGED <<loop, scores, todo, unset, gauges, serving, failures>>

ScrapeScores == Read("scores", {s.poll : s \in series}, "aggregate")

ScrapeAggregate == Read("aggregate", {aggregate.poll}, "stamp")

ScrapeTimestamp == Read("stamp", {stamp}, "answered")

ScrapeEnds ==
  /\ scrape.next = "answered"
  /\ scrape' = NoScrape
  /\ UNCHANGED <<loop, scores, todo, unset, gauges, serving, failures>>

UpdateGauges == Clear \/ Label \/ SetScore \/ SetAggregate \/ SetTimestamp

Loop == Collect \/ CollectFails \/ UpdateGauges \/ StartHttpServer \/ Wake

Scrape == ScrapeScores \/ ScrapeAggregate \/ ScrapeTimestamp \/ ScrapeEnds

ExporterNext == Loop \/ Scrape

ExporterSpec == ExporterInit /\ [][ExporterNext]_exporterVars

\* The loop's thread and the HTTP thread are scheduled, and a scrape that
\* began is answered.
ExporterFairSpec == ExporterSpec /\ WF_exporterVars(Loop) /\ WF_exporterVars(ScrapeAggregate \/ ScrapeTimestamp \/ ScrapeEnds)

-----------------------------------------------------------------------------
(* Properties.                                                             *)

\* The type of every variable.
ExporterTypeOK ==
  /\ loop \in {"collect", "clear", "set", "stamp", "serve", "sleep", "exited"}
  /\ scores \in ScoresPossible /\ todo \subseteq scores /\ unset \subseteq scores
  /\ Cardinality(unset) <= 1
  /\ series \subseteq [device : Devices, poll : 0 .. MaxPolls, score : 0 .. Scale]
  /\ \A s, t \in series : s.device = t.device => s = t
  /\ aggregate.poll \in 0 .. MaxPolls
  /\ stamp \in 0 .. MaxPolls
  /\ serving \in BOOLEAN
  /\ failures \in 0 .. MaxFailures
  /\ scrape.next \in {"scores", "aggregate", "stamp", "answered"}
  /\ scrape.polls \subseteq 0 .. MaxPolls
  /\ scrape.asleep \in BOOLEAN

\* Between polls, also after one that failed, the three gauges agree: every
\* score and the aggregate come from the poll the timestamp names, the
\* aggregate is the mean of the very scores served, and a device that SuzieQ
\* no longer reports is served no more (update_gauges, _refresh).
GaugesAgree ==
  loop \in {"serve", "sleep", "collect"} =>
    /\ \A s \in series : s.poll = stamp
    /\ aggregate = [poll |-> stamp, mean |-> DriftScoreAggregate(ScoresIn(series))]

\* The timestamp never claims more than has been published: at any moment, also
\* in the middle of an update, nothing served is older than it, except for the 0
\* of the one device whose series is being written right now.
\* The SuzieQStale alert takes the timestamp for the age of the scores.
FreshAsStamped ==
  /\ \A s \in series :
       s.poll >= stamp \/ (loop = "set" /\ \E t \in unset : s = Unset(t.device))
  /\ \A s, t \in series : s.poll < stamp /\ t.poll < stamp => s = t
  /\ aggregate.poll >= stamp

\* A scrape mixes the scores, the aggregate and the timestamp of at most two
\* polls, one next to the other, however it runs into an update and whichever
\* polls failed (main sleeps between two refreshes), and is never served the
\* zeroes that the aggregate and the timestamp are registered with (main serves
\* after the first refresh).  The 0 of a series just created is of no poll and
\* not excluded here.
ScrapesAreCoherent ==
  /\ scrape.next = "answered" => \A p, q \in scrape.polls \ {0} : p - q <= 1
  /\ serving => aggregate.poll # 0 /\ stamp # 0

\* Once the exporter serves, polls go on whatever failures it meets: the
\* loop logs them and sleeps (main).
PollsGoOn == serving ~> stamp = MaxPolls
=============================================================================
