------------------------------ MODULE Batches ------------------------------
(***************************************************************************)
(* The processing batches: one click queues many files, and three books    *)
(* are kept of what became of them.                                        *)
(*                                                                         *)
(*   - the manifest on disk (jobqueue/batch-manifest.service.ts): the file *)
(*     list, one outcome per file, and a terminal record when the batch    *)
(*     ended;                                                              *)
(*   - the row of the Processing page, in memory (createBatch,             *)
(*     recordBatchResult in jobqueue.service.ts);                          *)
(*   - the retry budget of the batch, in memory (noteBatchOutcome).        *)
(*                                                                         *)
(* The producers (enqueueTranscribe, enqueueDescribe, enqueueOcr,          *)
(* compressInside, the to-do Apply) write them in two different orders.    *)
(* Which pending job starts is the business of JobQueue; here any may, and *)
(* live is the live set of its journal.                                    *)
(***************************************************************************)
EXTENDS Integers, FiniteSets, Sequences

CONSTANTS
    File,
    Batch,
    Mixes,      \* the producers the batches may have: a set of [Batch -> Kinds]
    Ceiling,    \* liveSetCeiling()
    MinSample,  \* BATCH_CEILING_MIN_SAMPLE
    MaxHealth,  \* the 200 entries batchHealth keeps
    MaxDeaths   \* bound: times the process dies

\* Compress and the to-do Apply seed a batch with the files they ask for; the
\* others (OCR behaves as transcribe) with the files the queue took.
Kinds == {"transcribe", "describe", "compress"}

ASSUME FileAssumption == IsFiniteSet(File)
ASSUME KindAssumption == Mixes \subseteq [Batch -> Kinds]
ASSUME NumberAssumption ==
    Ceiling \in Nat /\ MinSample \in Nat \ {0} /\ MaxHealth \in Nat \ {0} /\ MaxDeaths \in Nat

\* How a job comes back to the queue, and what the row makes of it.
Reason == {"done", "skipped", "rejected", "failed"}
State  == {"ok", "rejected", "failed", "halted"}
Ends   == {"open", "halted", "completed"}

NoOutcome == "none"

VARIABLES
    books,    \* [Batch -> Book]: the manifest, the row and the tally
    live,     \* the tasks the journal holds
    pending,  \* the backlog
    running,  \* the tasks whose runner is in progress
    stage,    \* "down", "idle", or the step of the click being served
    clicked,  \* the batch of that click
    queued,   \* [Batch -> Nat]: what enqueue returned
    health,   \* batchHealth, in insertion order
    deaths    \* bound counter

vars == <<books, live, pending, running, stage, clicked, queued, health, deaths>>

TasksOf(b, files) == {[batch |-> b, file |-> f] : f \in files}
TaskOf            == [batch : Batch, file : File]
Outstanding       == pending \cup running

Book ==
    [ kind     : Kinds,
      written  : BOOLEAN, files : SUBSET File, outcome : [File -> Reason \cup {"halted", NoOutcome}],
      end      : Ends,
      opened   : BOOLEAN, total : Nat, count : [State -> Nat], finished : BOOLEAN,
      tracked  : BOOLEAN, left : Nat, halts : Nat ]

\* What batchHealth keeps of a batch.
Entry == [batch : Batch, settled : Nat, failed : Nat, halted : BOOLEAN]

\* A book nobody opened yet.
Blank(kind) ==
    [ kind     |-> kind,
      written  |-> FALSE, files |-> {}, outcome |-> [f \in File |-> NoOutcome], end |-> "open",
      opened   |-> FALSE, total |-> 0, count |-> [s \in State |-> 0], finished |-> FALSE,
      tracked  |-> FALSE, left |-> 0, halts |-> 0 ]

KindOf(b) == books[b].kind

RowSettled(book) == book.count.ok + book.count.rejected + book.count.failed + book.count.halted

-----------------------------------------------------------------------------
(* The three folds.                                                         *)

StateOf(outcome) ==
    CASE outcome \in {"done", "skipped"} -> "ok"
      [] outcome \in {"rejected", "failed", "halted"} -> outcome

\* Mutant: the row waits for one more result than it was opened for.
RowFoldLate(book, outcome, n) ==
    LET c == [book.count EXCEPT ![StateOf(outcome)] = @ + n]
        r == [book EXCEPT !.count = c]
    IN  IF ~book.opened THEN book
        ELSE [r EXCEPT !.finished = @ \/ RowSettled(r) > book.total]

\* Mutant: and for one less.
RowFoldEarly(book, outcome, n) ==
    LET c == [book.count EXCEPT ![StateOf(outcome)] = @ + n]
        r == [book EXCEPT !.count = c]
    IN  IF ~book.opened THEN book
        ELSE [r EXCEPT !.finished = @ \/ RowSettled(r) + 1 >= book.total]

\* recordBatchResult, n times with one outcome.
RowFold(book, outcome, n) ==
    LET c == [book.count EXCEPT ![StateOf(outcome)] = @ + n]
        r == [book EXCEPT !.count = c]
    IN  IF ~book.opened THEN book
        ELSE [r EXCEPT !.finished = @ \/ RowSettled(r) >= book.total]

\* Mutant: the manifest is closed one file too soon.
TallyFoldEarly(book, outcome, n) ==
    LET left  == book.left - n
        halts == IF outcome = "halted" THEN book.halts + n ELSE book.halts
    IN  IF ~book.tracked THEN book
        ELSE IF left > 1 THEN [book EXCEPT !.left = left, !.halts = halts]
        ELSE [book EXCEPT !.tracked = FALSE, !.left = 0, !.halts = 0,
                          !.end = IF halts > 0 THEN "halted" ELSE "completed"]

\* The tally half of settleOne, n times: the last file closes the manifest.
TallyFold(book, outcome, n) ==
    LET left  == book.left - n
        halts == IF outcome = "halted" THEN book.halts + n ELSE book.halts
    IN  IF ~book.tracked THEN book
        ELSE IF left > 0 THEN [book EXCEPT !.left = left, !.halts = halts]
        ELSE [book EXCEPT !.tracked = FALSE, !.left = 0, !.halts = 0,
                          !.end = IF halts > 0 THEN "halted" ELSE "completed"]

\* Mutant: an op that folds no result into its row, as all but compress once did.
RecordManifestOnly(book, files, outcome) ==
    IF files = {} THEN book
    ELSE TallyFold([book EXCEPT !.outcome = [f \in File |-> IF f \in files THEN outcome ELSE @[f]]],
                   outcome, Cardinality(files))

\* settleOne and recordBatchResult for some files of a batch.
Record(book, files, outcome) ==
    LET noted == [book EXCEPT !.outcome = [f \in File |-> IF f \in files THEN outcome ELSE @[f]]]
    IN  IF files = {} THEN book
        ELSE RowFold(TallyFold(noted, outcome, Cardinality(files)), outcome, Cardinality(files))

\* Mutant: the drain of pending tasks tells no book.
HaltedUnbooked(bs, tasks) == bs

\* haltPending over a set of pending tasks, in all the books.
Halted(bs, tasks) ==
    [b \in Batch |-> Record(bs[b], {t.file : t \in {u \in tasks : u.batch = b}}, "halted")]

\* The batch's entry in batchHealth, and what one more result makes of it.
EntryOf(b) ==
    LET at == {i \in DOMAIN health : health[i].batch = b}
    IN  IF at = {} THEN [batch |-> b, settled |-> 0, failed |-> 0, halted |-> FALSE]
                   ELSE health[CHOOSE i \in at : TRUE]

Counted(b, reason) ==
    LET e == EntryOf(b)
        f == IF reason = "failed" THEN e.failed + 1 ELSE e.failed
    IN  [e EXCEPT !.settled = @ + 1, !.failed = f]

\* More than a fifth of a sample worth trusting has failed.
Grinding(e) == e.settled >= MinSample /\ 5 * e.failed > e.settled

\* batchHealth with the entry put in its place, the oldest evicted if too many.
WithEntry(e) ==
    LET kept == IF \E i \in DOMAIN health : health[i].batch = e.batch
                THEN [i \in DOMAIN health |-> IF health[i].batch = e.batch THEN e ELSE health[i]]
                ELSE Append(health, e)
    IN  IF Len(kept) > MaxHealth /\ Head(kept).batch # e.batch THEN Tail(kept) ELSE kept

-----------------------------------------------------------------------------
(* The producers.                                                           *)

\* writeManifest: before anything is queued.  Compress refuses an empty plan.
Click(b, files) ==
    /\ stage = "idle"
    /\ ~books[b].written
    /\ KindOf(b) = "compress" => files # {}
    /\ books' = [books EXCEPT ![b].written = TRUE, ![b].files = files]
    /\ clicked' = b
    /\ stage' = IF KindOf(b) = "compress" THEN "open" ELSE "enqueue"
    /\ UNCHANGED <<live, pending, running, queued, health, deaths>>

\* The tasks of a pump that finds the provider's circuit open.
Doomed(tasks, tripped) == {t \in tasks : tripped /\ KindOf(t.batch) = "describe"}

Fresh(b) ==
    {f \in books[b].files :
       ~\E t \in Outstanding : t.file = f /\ KindOf(t.batch) = KindOf(b)}

\* enqueue: what is neither in flight nor over the ceiling is journaled and
\* queued, and the pump at its end may halt some of it at once.
Enqueue ==
    /\ stage = "enqueue"
    /\ \E files \in SUBSET Fresh(clicked), tripped \in BOOLEAN :
         LET free  == Ceiling - Cardinality(pending)
             taken == TasksOf(clicked, files)
             gone  == Doomed(pending \cup taken, tripped)
         IN  /\ Cardinality(files) <= IF free > 0 THEN free ELSE 0
             /\ files # Fresh(clicked) => Cardinality(files) >= free
             /\ queued' = [queued EXCEPT ![clicked] = Cardinality(files)]
             /\ pending' = (pending \cup taken) \ gone
             /\ live' = (live \cup taken) \ gone
             /\ books' = Halted(books, gone)
    /\ stage' = IF KindOf(clicked) = "compress" THEN "idle" ELSE "open"
    /\ UNCHANGED <<running, clicked, health, deaths>>

\* createBatch and trackBatch, seeded with total.
Opened(book, total) ==
    [book EXCEPT !.opened = TRUE, !.total = total, !.finished = FALSE,
                 !.count = [s \in State |-> 0],
                 !.tracked = @ \/ total > 0,
                 !.left = IF total > 0 THEN total ELSE @,
                 !.halts = IF total > 0 THEN 0 ELSE @]

Open ==
    /\ stage = "open"
    /\ LET total == IF KindOf(clicked) = "compress" THEN Cardinality(books[clicked].files)
                                                    ELSE queued[clicked]
       IN  books' = [books EXCEPT ![clicked] = Opened(@, total)]
    /\ stage' = IF KindOf(clicked) = "compress" THEN "enqueue" ELSE "idle"
    /\ UNCHANGED <<live, pending, running, clicked, queued, health, deaths>>

-----------------------------------------------------------------------------
(* The jobs.                                                                *)

\* A handler's pump starts jobs too, before a counting producer opens its row.
Start(t) ==
    /\ stage \in {"idle", "open"}
    /\ stage = "open" => KindOf(clicked) # "compress"
    /\ t \in pending
    /\ pending' = pending \ {t}
    /\ running' = running \cup {t}
    /\ UNCHANGED <<books, live, stage, clicked, queued, health, deaths>>

\* Mutant: the halt forgets to drain what it records.
GrindForgets(b, reason) == {}

\* What noteBatchOutcome halts of a batch after one more result.
Exhausted(b, reason) ==
    IF reason # "skipped" /\ ~EntryOf(b).halted /\ Grinding(Counted(b, reason))
    THEN {t \in pending : t.batch = b} ELSE {}

\* The finally of runTask: journal, manifest, row, retry budget.
Settle(t, reason) ==
    /\ stage = "idle"
    /\ t \in running
    /\ reason = "rejected" => KindOf(t.batch) = "describe"
    /\ LET b    == t.batch
           gone == Exhausted(b, reason)
           e    == Counted(b, reason)
       IN  /\ books' = Halted([books EXCEPT ![b] = Record(@, {t.file}, reason)], gone)
           /\ pending' = pending \ gone
           /\ live' = live \ ({t} \cup gone)
           /\ health' = IF reason = "skipped" THEN health
                        ELSE WithEntry([e EXCEPT !.halted = @ \/ Grinding(e)])
    /\ running' = running \ {t}
    /\ UNCHANGED <<stage, clicked, queued, deaths>>

\* A later pump finds the circuit open (haltDoomedTasks).
Trip ==
    /\ stage = "idle"
    /\ LET gone == Doomed(pending, TRUE)
       IN  /\ gone # {}
           /\ books' = Halted(books, gone)
           /\ pending' = pending \ gone
           /\ live' = live \ gone
    /\ UNCHANGED <<running, stage, clicked, queued, health, deaths>>

\* stopBatch, from a Processing page that may have outlived the row.
StopBatch(b) ==
    /\ stage = "idle"
    /\ LET gone == {t \in pending : t.batch = b}
           bs   == Halted(books, gone)
       IN  /\ books' = [bs EXCEPT ![b].finished =
                          @ \/ (bs[b].opened /\ RowSettled(bs[b]) >= bs[b].total)]
           /\ pending' = pending \ gone
           /\ live' = live \ gone
    /\ UNCHANGED <<running, stage, clicked, queued, health, deaths>>

-----------------------------------------------------------------------------
\* The process dies.  Rows, tallies and budgets are memory; manifests are not.
Forgotten(book) ==
    [Blank(book.kind) EXCEPT !.written = book.written, !.files = book.files,
                  !.outcome = book.outcome, !.end = book.end]

Die ==
    /\ stage # "down"
    /\ deaths < MaxDeaths
    /\ deaths' = deaths + 1
    /\ stage' = "down"
    /\ pending' = {} /\ running' = {} /\ health' = <<>>
    /\ UNCHANGED <<clicked, queued>>

Crash ==
    /\ Die
    /\ books' = [b \in Batch |-> Forgotten(books[b])]
    /\ UNCHANGED live

\* The process dies in the one append of a request: some of it is journaled.
CrashInEnqueue ==
    /\ stage = "enqueue"
    /\ Die
    /\ books' = [b \in Batch |-> Forgotten(books[b])]
    /\ \E files \in SUBSET Fresh(clicked) : live' = live \cup TasksOf(clicked, files)

\* Mutant: the manifest is told before the journal.
CrashInSettleSwapped(t, reason) ==
    /\ t \in running
    /\ Die
    /\ books' = [b \in Batch |->
         IF b = t.batch
         THEN [Forgotten(books[b]) EXCEPT !.outcome[t.file] = reason]
         ELSE Forgotten(books[b])]
    /\ UNCHANGED live

\* The process dies in runTask's finally, between the journal and the manifest.
CrashInSettle(t, reason) ==
    /\ t \in running
    /\ Die
    /\ books' = [b \in Batch |-> Forgotten(books[b])]
    /\ live' = live \ {t}

\* The journal is restored.  Poison, vanished and finished files are ended in
\* the journal alone: no book hears of them.
Boot ==
    /\ stage = "down"
    /\ stage' = "idle"
    /\ \E dropped \in SUBSET live :
         /\ live' = live \ dropped
         /\ pending' = live \ dropped
    /\ UNCHANGED <<books, running, clicked, queued, health, deaths>>

-----------------------------------------------------------------------------
Init ==
    /\ \E mix \in Mixes : books = [b \in Batch |-> Blank(mix[b])]
    /\ live = {} /\ pending = {} /\ running = {}
    /\ stage = "down"
    /\ clicked \in Batch
    /\ queued = [b \in Batch |-> 0]
    /\ health = <<>>
    /\ deaths = 0

Next ==
    \/ \E b \in Batch, files \in SUBSET File : Click(b, files)
    \/ Enqueue \/ Open \/ Trip \/ Crash \/ CrashInEnqueue \/ Boot
    \/ \E b \in Batch : StopBatch(b)
    \/ \E t \in TaskOf : Start(t) \/ \E r \in Reason : Settle(t, r) \/ CrashInSettle(t, r)

Spec == Init /\ [][Next]_vars

\* A handler runs to its end, the supervisor boots a dead backend, the queue
\* starts what is pending (EverySettles of JobQueue) and a runner returns.
Fairness ==
    /\ WF_vars(Enqueue \/ Open)
    /\ WF_vars(Boot)
    /\ SF_vars(\E t \in TaskOf : Start(t))
    /\ SF_vars(\E t \in TaskOf, r \in Reason : Settle(t, r))

FairSpec == Spec /\ Fairness

-----------------------------------------------------------------------------
(* Properties.                                                              *)

Of(tasks, b) == {t \in tasks : t.batch = b}

\* The type of every variable.
TypeOK ==
    /\ books \in [Batch -> Book]
    /\ pending \subseteq TaskOf /\ running \subseteq TaskOf /\ live \subseteq TaskOf
    /\ stage \in {"down", "idle", "enqueue", "open"} /\ clicked \in Batch
    /\ queued \in [Batch -> Nat] /\ deaths \in 0..MaxDeaths
    /\ health \in Seq(Entry) /\ Len(health) <= MaxHealth

\* ok + rejected + failed + halted + running + pending = total, the identity
\* that makes the table of the Processing page trustworthy (recordBatchResult,
\* processing_batches.mdx 4.1), for the producers that count what the queue took and
\* have no circuit: compress asks for more than the queue may take, and the pump of
\* describe may halt a batch before its row is there.
RowIdentity ==
    stage = "idle" =>
      \A b \in Batch : books[b].opened /\ KindOf(b) = "transcribe" =>
        RowSettled(books[b]) + Cardinality(Of(Outstanding, b)) = books[b].total

\* A row is finished once every file of it has settled, and not before.
RowFinishedMeansIdle ==
    \A b \in Batch : books[b].finished => Of(Outstanding, b) = {}

\* The terminal record tells the truth for as long as the file exists, over
\* restarts: nothing of the batch can still run, every file the queue took has
\* its outcome, and the batch reads as halted exactly when a file was.
TerminalRecordTrue ==
    \A b \in Batch : books[b].end # "open" =>
      /\ Of(live, b) = {}
      /\ Cardinality({f \in File : books[b].outcome[f] # NoOutcome}) = queued[b]
      /\ books[b].end = "halted" <=> \E f \in File : books[b].outcome[f] = "halted"

\* A file whose outcome is on disk is never work the next boot brings back, so
\* a file has one outcome, and readManifest never re-queues what is queued.
OutcomeIsFinal ==
    \A t \in live : books[t.batch].outcome[t.file] = NoOutcome

\* The row and the manifest never disagree about a file
\* (recordBatchResult: "so the three can never disagree"), when no circuit halts a
\* file before the row is opened.
RowMatchesManifest ==
    stage = "idle" =>
      \A b \in Batch : books[b].opened /\ KindOf(b) # "describe" =>
        \A s \in State :
          books[b].count[s] =
            Cardinality({f \in File : /\ books[b].outcome[f] # NoOutcome
                                      /\ StateOf(books[b].outcome[f]) = s})

\* A batch that went through its retry budget has nothing left to grind.
BudgetStops ==
    \A b \in Batch : EntryOf(b).halted => Of(pending, b) = {}

\* A row opened for the files the queue took is finished in the end, or the process
\* died; the circuit is as for RowIdentity.
RowsFinish ==
    \A b \in Batch : (books[b].opened /\ KindOf(b) = "transcribe" /\ books[b].total > 0) ~> (books[b].finished \/ stage = "down")
=============================================================================
