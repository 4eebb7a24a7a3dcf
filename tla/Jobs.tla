-------------------------------- MODULE Jobs --------------------------------
(***************************************************************************)
(* The batch jobs over the snapshot file: the suggestions worker            *)
(* (worker.py), the snapshot flow (flows.py), the promotion cycle (mlops.py *)
(* with evals.py) and experiment tracking (tracking.py).  The file may be   *)
(* replaced between any two steps of a job; a notifier may raise, and a job *)
(* may be killed.  The jobs share nothing but the file, so a behaviour      *)
(* follows one of them.                                                     *)
(*                                                                         *)
(* A snapshot is [rows, golden, found]: the kinds of its rows, the golden   *)
(* set with the two signals and the label of each item, and what a query    *)
(* finds, best first, as [id, deal].                                        *)
(***************************************************************************)
EXTENDS Rating

CONSTANTS
    Snapshots,    \* contents the snapshot file may have
    Saved,        \* the saved searches, as [user, query, k]
    GateK,        \* the k of precision@k
    HasPrefect,   \* whether the flow runs on Prefect, with retries
    MaxFailures,  \* bound: worker runs that end early
    Maes          \* the errors a training run may have

\* A saved query has a result in every snapshot, perhaps an empty one.  A search names an
\* item once (rrf_fuse fuses places of the catalog) and the ids of a snapshot differ.
ASSUME JobsAssumption ==
    /\ GateK \in Nat \ {0} /\ HasPrefect \in BOOLEAN /\ MaxFailures \in Nat
    /\ Saved \in Seq({Saved[i] : i \in DOMAIN Saved})
    /\ \A s \in Snapshots :
         /\ s.golden \in Seq({s.golden[i] : i \in DOMAIN s.golden})
         /\ \A i \in DOMAIN Saved : Saved[i].query \in DOMAIN s.found
         /\ \A q \in DOMAIN s.found : \A i, j \in DOMAIN s.found[q] :
                s.found[q][i].id = s.found[q][j].id => i = j

VARIABLES
    job,        \* the job this behaviour follows
    file,       \* the snapshot on disk
    seen,       \* worker: the state its caller keeps, (user, query) -> ids
    run,        \* worker: the run in progress
    sent,       \* (user, query) -> id -> how often it was notified
    failures,   \* worker runs that ended early
    flow,       \* the flow run in progress
    csv,        \* good_deals.csv, with the batch it was made from
    cycle,      \* the promotion cycle in progress
    champion,   \* the ranker in service and the golden set it was judged on
    registry    \* the registered model and the runs it was chosen from

jobVars == <<job, file, seen, run, sent, failures, flow, csv, cycle, champion, registry>>

Nothing == "nothing"
SearchKeys == {<<Saved[i].user, Saved[i].query>> : i \in DOMAIN Saved}
Ids == UNION {UNION {{s.found[q][i].id : i \in DOMAIN s.found[q]} : q \in DOMAIN s.found} : s \in Snapshots}

NoRun == [pc |-> "off", found |-> << >>, i |-> 1, new |-> [x \in SearchKeys |-> {}],
          todo |-> {}, fresh |-> {}]
NoFlow == [pc |-> "off", tries |-> 0, rows |-> << >>]
NoCycle == [pc |-> "off", ranker |-> Nothing, golden |-> << >>]

JobsInit ==
    /\ job \in {"worker", "flow", "cycle", "tracking"}
    /\ file \in Snapshots
    /\ seen = [x \in SearchKeys |-> {}] /\ sent = [x \in SearchKeys |-> [d \in Ids |-> 0]]
    /\ failures = 0
    /\ run = NoRun /\ flow = NoFlow /\ cycle = NoCycle
    /\ csv = [made |-> FALSE, of |-> << >>, rows |-> {}]
    /\ registry = [winner |-> Nothing, runs |-> << >>]
    /\ champion = [ranker |-> Nothing, golden |-> << >>]

\* The snapshot file is replaced.
Refresh ==
    /\ file' \in Snapshots
    /\ UNCHANGED <<seen, run, sent, failures, flow, csv, cycle, champion, registry>>

-----------------------------------------------------------------------------
(* run_suggestions                                                         *)

flowVars == <<flow, csv>>
cycleVars == <<cycle, champion, registry>>

\* find_deals: of the top k, the places of those that clear the threshold
FindDeals(found, s) == {j \in DOMAIN found[s.query] : j <= s.k /\ found[s.query][j].deal}

KeyOf(s) == <<s.user, s.query>>

\* load_catalog and state.copy
StartRun ==
    /\ run.pc = "off"
    /\ run' = [NoRun EXCEPT !.pc = "search", !.found = file.found, !.new = seen]
    /\ UNCHANGED <<file, seen, sent, failures, flowVars, cycleVars>>

\* the next saved search is run
Search ==
    /\ run.pc = "search" /\ run.i <= Len(Saved)
    /\ run' = [run EXCEPT !.pc = "notify", !.fresh = {},
                          !.todo = FindDeals(run.found, Saved[run.i])]
    /\ UNCHANGED <<file, seen, sent, failures, flowVars, cycleVars>>

\* Mutant of AlreadySeen: the diff is against the state before the run.
AlreadySeenBefore(x) == seen[x]

\* already_seen, of the copy that the run updates
AlreadySeen(x) == run.new[x]

\* one deal, the best of those left: skipped when the user was told before, else
\* notified
Notify ==
    /\ run.pc = "notify"
    /\ \E j \in run.todo :
         LET x == KeyOf(Saved[run.i])
             d == run.found[Saved[run.i].query][j].id
             known == d \in AlreadySeen(x)
         IN /\ \A k \in run.todo : j <= k
            /\ run' = [run EXCEPT !.todo = @ \ {j}, !.fresh = IF known THEN @ ELSE @ \cup {d}]
            /\ sent' = IF known THEN sent ELSE [sent EXCEPT ![x][d] = @ + 1]
    /\ UNCHANGED <<file, seen, failures, flowVars, cycleVars>>

\* mark_seen, after the deals of one search
MarkSeen ==
    /\ run.pc = "notify" /\ run.todo = {}
    /\ run' = [run EXCEPT !.pc = "search", !.i = @ + 1,
                          !.new[KeyOf(Saved[run.i])] = @ \cup run.fresh]
    /\ UNCHANGED <<file, seen, sent, failures, flowVars, cycleVars>>

\* the new state is returned, and kept by the caller
EndRun ==
    /\ run.pc = "search" /\ run.i > Len(Saved)
    /\ seen' = run.new
    /\ run' = NoRun
    /\ UNCHANGED <<file, sent, failures, flowVars, cycleVars>>

\* notify raises, or the job is killed: the new state is lost
RunFails ==
    /\ run.pc # "off" /\ failures < MaxFailures
    /\ run' = NoRun
    /\ failures' = failures + 1
    /\ UNCHANGED <<file, seen, sent, flowVars, cycleVars>>

-----------------------------------------------------------------------------
(* snapshot_flow and snapshot_pipeline                                     *)

\* A row: good and plain satisfy the contract, cheap does too but is a mislisting;
\* odd has an unknown category or no price; short lacks a column, untitled its title.
Valid(row) == row \in {"good", "plain", "cheap"}

\* Mutant of Passed: one valid row is enough.
PassedSome(rows) == \E i \in DOMAIN rows : Valid(rows[i])

\* ContractReport.passed
Passed(rows) == rows # << >> /\ \A i \in DOMAIN rows : Valid(rows[i])

\* good_deals.sql: 10 to 90 percent under the median; it does not know the contract
GoodDeals(rows) == ToSet(rows) \cap {"good", "odd"}

workerVars == <<seen, run, sent, failures>>
FlowTo(pc) == flow' = [flow EXCEPT !.pc = pc]
FlowFails == flow' = NoFlow

StartFlow ==
    /\ flow.pc = "off"
    /\ FlowTo("ingest")
    /\ UNCHANGED <<file, csv, workerVars, cycleVars>>

\* ingest_snapshot; on Prefect it is retried twice
Ingest ==
    /\ flow.pc = "ingest"
    /\ \/ flow' = [flow EXCEPT !.pc = "normalize", !.rows = file.rows]
       \/ /\ HasPrefect /\ flow.tries < 2
          /\ flow' = [flow EXCEPT !.tries = @ + 1]
       \/ FlowFails
    /\ UNCHANGED <<file, csv, workerVars, cycleVars>>

\* normalize_rows reads every title, before the gate looks for missing columns
Normalize ==
    /\ flow.pc = "normalize"
    /\ IF "untitled" \in ToSet(flow.rows) THEN FlowFails ELSE FlowTo("gate")
    /\ UNCHANGED <<file, csv, workerVars, cycleVars>>

QualityGate ==
    /\ flow.pc = "gate"
    /\ IF Passed(flow.rows) THEN FlowTo("label") ELSE FlowFails
    /\ UNCHANGED <<file, csv, workerVars, cycleVars>>

\* label_rows reads the file again; a row it cannot read fails the flow
LabelRows ==
    /\ flow.pc = "label"
    /\ IF ToSet(file.rows) \cap {"untitled", "short"} # {} THEN FlowFails ELSE FlowTo("model")
    /\ UNCHANGED <<file, csv, workerVars, cycleVars>>

\* run_good_deals_model over the normalized rows, and good_deals.csv
Persist ==
    /\ flow.pc = "model"
    /\ csv' = [made |-> TRUE, of |-> flow.rows, rows |-> GoodDeals(flow.rows)]
    /\ FlowFails
    /\ UNCHANGED <<file, workerVars, cycleVars>>

-----------------------------------------------------------------------------
(* run_mlops_cycle                                                         *)

\* median_only_ranker and two_signal_ranker
Ranked(ranker, golden) ==
    LET trap(g) == g.m >= DealMedian /\ g.rf > SuspiciousResidual
    IN SortedBy(golden, [i \in DOMAIN golden |->
                           IF ranker = "two_signal" /\ trap(golden[i]) THEN golden[i].m - 100
                           ELSE golden[i].m])

\* ranked[:k], as places
Top(golden) == {n \in DOMAIN golden : n <= GateK}

\* precision_at_k, as a fraction; a missing champion has none
Precision(ranker, golden) ==
    [deals |-> IF ranker = Nothing THEN 0
               ELSE Cardinality({n \in Top(golden) : Ranked(ranker, golden)[n].label = "deal"}),
     of |-> IF Top(golden) = {} THEN 1 ELSE Cardinality(Top(golden))]

Gate == 80

PassesGate(p) == 100 * p.deals >= Gate * p.of

Beats(p, q) == p.deals * q.of > q.deals * p.of

\* check_drift and retrain: without drift nothing is promoted.  The gate evaluates the
\* challenger on the golden set of that moment.
StartCycle ==
    /\ cycle.pc = "off"
    /\ \E challenger \in {"two_signal", "median_only"} :
          cycle' = [pc |-> "promote", ranker |-> challenger, golden |-> file.golden]
    /\ UNCHANGED <<file, workerVars, flowVars, champion, registry>>

\* the champion is evaluated anew, perhaps on another file, and the better one serves
Promote ==
    LET p == Precision(cycle.ranker, cycle.golden) IN
    /\ cycle.pc = "promote"
    /\ champion' = IF PassesGate(p) /\ Beats(p, Precision(champion.ranker, file.golden))
                   THEN [ranker |-> cycle.ranker, golden |-> cycle.golden] ELSE champion
    /\ cycle' = NoCycle
    /\ UNCHANGED <<file, workerVars, flowVars, registry>>

-----------------------------------------------------------------------------
(* run_tracking                                                            *)

Selectable(runs) == {n \in DOMAIN runs : n \in {"linear", "gbdt", "torch"}}

\* The runs are logged and the best of the same-features runs is registered, in the
\* registry or, when that fails, by tags.  Without torch there are three runs.
Track ==
    /\ \E torch \in BOOLEAN :
       \E runs \in [{"linear", "gbdt", "linear_baseline"}
                       \cup (IF torch THEN {"torch", "torch_baseline"} ELSE {}) -> Maes] :
          \E w \in Selectable(runs) :
             /\ \A n \in Selectable(runs) : runs[w] <= runs[n]
             /\ registry' = [winner |-> w, runs |-> runs]
    /\ UNCHANGED <<file, workerVars, flowVars, cycle, champion>>

-----------------------------------------------------------------------------
JobsNext ==
    /\ \/ Refresh
       \/ /\ job = "worker"
          /\ StartRun \/ Search \/ Notify \/ MarkSeen \/ EndRun \/ RunFails
       \/ /\ job = "flow"
          /\ StartFlow \/ Ingest \/ Normalize \/ QualityGate \/ LabelRows \/ Persist
       \/ /\ job = "cycle"
          /\ StartCycle \/ Promote
       \/ /\ job = "tracking"
          /\ Track
    /\ UNCHANGED job

JobsSpec == JobsInit /\ [][JobsNext]_jobVars

-----------------------------------------------------------------------------
(* Properties                                                              *)

\* worker.py: "nothing is re-notified".  However the file changed between and during
\* runs, and with two saved searches of the same query, a user hears of an item once for
\* every run that failed, and once more; and no item is marked seen without a message.
NotifiedOnce ==
    \A x \in SearchKeys : \A d \in Ids :
        /\ sent[x][d] <= 1 + failures
        /\ d \in seen[x] => sent[x][d] > 0

\* The three gates: good_deals.csv comes from a batch in which every row met the contract
\* and holds only good rows; the ranker in service put four deals of five on top of the
\* golden set it was judged on; and the registered model is the best of the runs on the
\* same features, never a baseline.
GatesHold ==
    /\ csv.made => /\ \A i \in DOMAIN csv.of : csv.of[i] \in {"good", "plain", "cheap"}
                   /\ csv.rows \subseteq {"good"}
    /\ champion.ranker # Nothing =>
         LET ranked == Ranked(champion.ranker, champion.golden)
             top == {i \in DOMAIN ranked : i <= GateK}
         IN 5 * Cardinality({i \in top : ranked[i].label = "deal"}) >= 4 * Cardinality(top)
    /\ registry.winner # Nothing =>
         /\ registry.winner \in {"linear", "gbdt", "torch"}
         /\ \A n \in {"linear", "gbdt", "torch"} \cap DOMAIN registry.runs :
                registry.runs[registry.winner] <= registry.runs[n]

\* flows.py: the gate stops "the pipeline before bad data reaches the model"; the rows
\* that are labelled passed it.
LabelledWasGated ==
    [][flow.pc = "label" /\ flow'.pc = "model" => Passed(file.rows)]_jobVars

=============================================================================
