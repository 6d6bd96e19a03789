---------------------------- MODULE Batches_proofs ----------------------------
(* Whatever files, batches and producers there are: the manifest, the row and *)
(* the retry budget of a batch tell the truth about its tasks.                *)
EXTENDS Batches, FiniteSetTheorems, TLAPS

\* The files of a batch whose outcome is noted, and those it has among some tasks.
Noted(book) == {f \in File : book.outcome[f] # NoOutcome}
FilesIn(tasks, b) == {f \in File : [batch |-> b, file |-> f] \in tasks}
HasHalted(book) == \E f \in File : book.outcome[f] = "halted"
InState(book, s) == {f \in Noted(book) : StateOf(book.outcome[f]) = s}

\* Every file the queue took has its outcome or is still out.
Accounted(book, out, taken) == Cardinality(Noted(book)) + Cardinality(out) = taken

\* The row, of a batch with the files out.
RowTrue(book, out) ==
    /\ book.finished => book.opened /\ RowSettled(book) >= book.total
    /\ book.opened =>
         /\ RowSettled(book) + Cardinality(out) <= book.total
         /\ book.kind = "transcribe" => RowSettled(book) + Cardinality(out) = book.total
         /\ book.kind # "describe" => \A s \in State : book.count[s] = Cardinality(InState(book, s))

\* The tally closes the manifest with the last file, and a tally that has missed a
\* file never does.
TallyTrue(book, out, taken) ==
    book.tracked =>
      /\ book.end = "open" /\ book.left >= 1 /\ book.left >= Cardinality(out)
      /\ Accounted(book, out, taken)
      /\ book.left > Cardinality(out) \/ (book.halts > 0 <=> HasHalted(book))

ManifestTrue(book, out, taken) ==
    /\ \A f \in out : book.outcome[f] = NoOutcome
    /\ book.end # "open" => /\ out = {} /\ Accounted(book, out, taken)
                            /\ book.end = "halted" <=> HasHalted(book)

BookTrue(book, out, taken) ==
    RowTrue(book, out) /\ TallyTrue(book, out, taken) /\ ManifestTrue(book, out, taken)

-----------------------------------------------------------------------------
(* The folds, field by field.                                                 *)

Outcome == Reason \cup {"halted"}

LEMMA StateOfTypes == \A o \in Outcome : StateOf(o) \in State
  BY DEF StateOf, Outcome, Reason, State

LEMMA BookFields ==
    ASSUME NEW book \in Book
    PROVE  /\ book.kind \in Kinds /\ book.written \in BOOLEAN /\ book.files \in SUBSET File
           /\ book.outcome \in [File -> Outcome \cup {NoOutcome}]
           /\ book.end \in Ends
           /\ book.opened \in BOOLEAN /\ book.total \in Nat /\ book.count \in [State -> Nat]
           /\ book.finished \in BOOLEAN
           /\ book.tracked \in BOOLEAN /\ book.left \in Nat /\ book.halts \in Nat
  BY DEF Book, Outcome, Reason

LEMMA RowSettledTypes ==
    ASSUME NEW book \in Book
    PROVE  RowSettled(book) \in Nat
  BY BookFields DEF RowSettled, State

\* One count of the row grows.
LEMMA CountGrows ==
    ASSUME NEW count \in [State -> Nat], NEW s \in State, NEW n \in Nat,
           NEW c, c = [count EXCEPT ![s] = @ + n]
    PROVE  /\ c \in [State -> Nat]
           /\ c.ok + c.rejected + c.failed + c.halted
                = count.ok + count.rejected + count.failed + count.halted + n
           /\ \A x \in State : c[x] = IF x = s THEN count[x] + n ELSE count[x]
  BY DEF State

NoteOf(book, files, outcome) ==
    [book EXCEPT !.outcome = [f \in File |-> IF f \in files THEN outcome ELSE @[f]]]

LEMMA NoteGives ==
    ASSUME NEW book \in Book, NEW files \in SUBSET File, NEW outcome \in Outcome,
           NEW r, r = NoteOf(book, files, outcome)
    PROVE  /\ r \in Book
           /\ r.outcome = [f \in File |-> IF f \in files THEN outcome ELSE book.outcome[f]]
           /\ r.kind = book.kind /\ r.written = book.written /\ r.files = book.files
           /\ r.end = book.end /\ r.opened = book.opened /\ r.total = book.total
           /\ r.count = book.count /\ r.finished = book.finished
           /\ r.tracked = book.tracked /\ r.left = book.left /\ r.halts = book.halts
<1> DEFINE o == [f \in File |-> IF f \in files THEN outcome ELSE book.outcome[f]]
<1>1. o \in [File -> Outcome \cup {NoOutcome}]
  BY BookFields
<1>2. r = [book EXCEPT !.outcome = o]
  BY DEF NoteOf
<1> HIDE DEF o
<1>3. /\ r \in Book /\ r.outcome = o
      /\ r.kind = book.kind /\ r.written = book.written /\ r.files = book.files
      /\ r.end = book.end /\ r.opened = book.opened /\ r.total = book.total
      /\ r.count = book.count /\ r.finished = book.finished
      /\ r.tracked = book.tracked /\ r.left = book.left /\ r.halts = book.halts
  BY <1>1, <1>2 DEF Book, Outcome
<1> QED
  BY <1>3 DEF o

\* A tally that is dropped closes the manifest.
Closed(book, end) == [book EXCEPT !.tracked = FALSE, !.left = 0, !.halts = 0, !.end = end]

LEMMA CloseGives ==
    ASSUME NEW book \in Book, NEW end \in Ends, NEW r, r = Closed(book, end)
    PROVE  /\ r \in Book /\ ~r.tracked /\ r.end = end
           /\ r.kind = book.kind /\ r.written = book.written
           /\ r.files = book.files /\ r.outcome = book.outcome /\ r.opened = book.opened
           /\ r.total = book.total /\ r.count = book.count /\ r.finished = book.finished
<1>1. r \in Book
  BY DEF Book, Closed
<1>2. r.end = end
  BY DEF Book, Closed
<1>3. r.tracked = FALSE
  BY DEF Book, Closed
<1>4. /\ r.kind = book.kind /\ r.written = book.written
      /\ r.files = book.files /\ r.outcome = book.outcome /\ r.opened = book.opened
      /\ r.total = book.total /\ r.count = book.count /\ r.finished = book.finished
  BY DEF Book, Closed
<1> QED
  BY <1>1, <1>2, <1>3, <1>4

LEMMA TallyGives ==
    ASSUME NEW book \in Book, NEW outcome \in Outcome, NEW n \in Nat \ {0},
           NEW r, r = TallyFold(book, outcome, n)
    PROVE  /\ r \in Book
           /\ r.kind = book.kind /\ r.written = book.written /\ r.files = book.files
           /\ r.outcome = book.outcome /\ r.opened = book.opened /\ r.total = book.total
           /\ r.count = book.count /\ r.finished = book.finished
           /\ ~book.tracked => r = book
           /\ book.tracked /\ book.left > n =>
                /\ r.tracked /\ r.left = book.left - n /\ r.end = book.end
                /\ r.halts = IF outcome = "halted" THEN book.halts + n ELSE book.halts
           /\ book.tracked /\ book.left <= n =>
                /\ ~r.tracked
                /\ r.end = IF outcome = "halted" \/ book.halts > 0 THEN "halted" ELSE "completed"
<1> DEFINE left  == book.left - n
           halts == IF outcome = "halted" THEN book.halts + n ELSE book.halts
           ends  == IF halts > 0 THEN "halted" ELSE "completed"
<1>1. left \in Int /\ halts \in Nat /\ ends \in Ends
  BY BookFields DEF Ends
<1>2. r = IF ~book.tracked THEN book
          ELSE IF left > 0 THEN [book EXCEPT !.left = left, !.halts = halts]
          ELSE [book EXCEPT !.tracked = FALSE, !.left = 0, !.halts = 0, !.end = ends]
  BY DEF TallyFold
<1>3. /\ book.left > n <=> left > 0
      /\ ends = IF outcome = "halted" \/ book.halts > 0 THEN "halted" ELSE "completed"
  BY BookFields
<1> HIDE DEF left, halts, ends
<1>4. CASE ~book.tracked
  BY <1>2, <1>4
<1>5. CASE book.tracked /\ left > 0
  <2>1. left \in Nat /\ r = [book EXCEPT !.left = left, !.halts = halts]
    BY <1>1, <1>2, <1>5
  <2>2. /\ r \in Book /\ r.left = left /\ r.halts = halts /\ r.tracked = book.tracked
        /\ r.kind = book.kind /\ r.written = book.written /\ r.files = book.files
        /\ r.outcome = book.outcome /\ r.opened = book.opened /\ r.total = book.total
        /\ r.count = book.count /\ r.finished = book.finished /\ r.end = book.end
    BY <1>1, <2>1 DEF Book
  <2> QED
    BY <1>3, <1>5, <2>2, BookFields DEF left, halts
<1>6. CASE book.tracked /\ ~(left > 0)
  <2>1. r = Closed(book, ends)
    BY <1>2, <1>6 DEF Closed
  <2>2. /\ r \in Book /\ ~r.tracked /\ r.end = ends
        /\ r.kind = book.kind /\ r.written = book.written
        /\ r.files = book.files /\ r.outcome = book.outcome /\ r.opened = book.opened
        /\ r.total = book.total /\ r.count = book.count /\ r.finished = book.finished
    BY <1>1, <2>1, CloseGives
  <2> QED
    BY <1>3, <1>6, <2>2
<1> QED
  BY <1>4, <1>5, <1>6, BookFields

LEMMA RowGives ==
    ASSUME NEW book \in Book, NEW outcome \in Outcome, NEW n \in Nat,
           NEW r, r = RowFold(book, outcome, n)
    PROVE  /\ r \in Book
           /\ r.kind = book.kind /\ r.written = book.written /\ r.files = book.files
           /\ r.outcome = book.outcome /\ r.opened = book.opened /\ r.total = book.total
           /\ r.end = book.end /\ r.tracked = book.tracked /\ r.left = book.left
           /\ r.halts = book.halts
           /\ ~book.opened => r = book
           /\ book.opened =>
                /\ RowSettled(r) = RowSettled(book) + n
                /\ \A s \in State :
                     r.count[s] = IF s = StateOf(outcome) THEN book.count[s] + n ELSE book.count[s]
                /\ r.finished = (book.finished \/ RowSettled(r) >= r.total)
<1>1. CASE ~book.opened
  <2>1. r = book
    BY <1>1 DEF RowFold
  <2> QED
    BY <1>1, <2>1
<1>2. CASE book.opened
  <2> DEFINE c == [book.count EXCEPT ![StateOf(outcome)] = @ + n]
             m == [book EXCEPT !.count = c]
             b == book.finished \/ RowSettled(m) >= book.total
  <2>1. /\ c \in [State -> Nat]
        /\ c.ok + c.rejected + c.failed + c.halted = RowSettled(book) + n
        /\ \A s \in State : c[s] = IF s = StateOf(outcome) THEN book.count[s] + n ELSE book.count[s]
    BY CountGrows, BookFields, StateOfTypes DEF RowSettled
  <2>2. r = [m EXCEPT !.finished = b]
    <3>1. r = [m EXCEPT !.finished = @ \/ RowSettled(m) >= book.total]
      BY <1>2 DEF RowFold
    <3>2. m.finished = book.finished
      BY DEF Book
    <3> QED
      BY <3>1, <3>2
  <2> HIDE DEF c
  <2>3. m \in Book /\ m.count = c
    BY <2>1 DEF Book
  <2>4. b \in BOOLEAN /\ RowSettled(m) = RowSettled(book) + n
    BY <2>1, <2>3, BookFields DEF RowSettled
  <2> HIDE DEF b
  <2>5. /\ r \in Book /\ r.finished = b /\ r.count = c
        /\ r.kind = book.kind /\ r.written = book.written /\ r.files = book.files
        /\ r.outcome = book.outcome /\ r.opened = book.opened /\ r.total = book.total
        /\ r.end = book.end /\ r.tracked = book.tracked /\ r.left = book.left
        /\ r.halts = book.halts
    BY <2>1, <2>2, <2>4 DEF Book
  <2>6. RowSettled(r) = RowSettled(m)
    BY <2>3, <2>5 DEF RowSettled
  <2>7. r.finished = (book.finished \/ RowSettled(r) >= r.total)
    BY <2>5, <2>6 DEF b
  <2> QED
    BY <1>2, <2>1, <2>4, <2>5, <2>6, <2>7
<1> QED
  BY <1>1, <1>2, BookFields

-----------------------------------------------------------------------------
(* Recording some of the files that are out keeps a book true.                *)

LEMMA FilesFinite == \A S \in SUBSET File : IsFiniteSet(S) /\ Cardinality(S) \in Nat
  BY FileAssumption, FS_Subset, FS_CardinalityType

LEMMA NotedFinite ==
    ASSUME NEW book
    PROVE  /\ Noted(book) \in SUBSET File /\ Cardinality(Noted(book)) \in Nat
           /\ \A s : InState(book, s) \in SUBSET File /\ Cardinality(InState(book, s)) \in Nat
<1>1. Noted(book) \in SUBSET File /\ \A s : InState(book, s) \in SUBSET File
  BY DEF Noted, InState
<1> QED
  BY <1>1, FilesFinite

LEMMA CountUnion ==
    ASSUME NEW S \in SUBSET File, NEW T \in SUBSET File, S \cap T = {}
    PROVE  Cardinality(S \cup T) = Cardinality(S) + Cardinality(T)
<1>1. /\ IsFiniteSet(S) /\ IsFiniteSet(T)
      /\ Cardinality(S) \in Nat /\ Cardinality(T) \in Nat
  BY FilesFinite
<1>2. Cardinality(S \cup T) = Cardinality(S) + Cardinality(T) - Cardinality(S \cap T)
  BY <1>1, FS_Union
<1>3. Cardinality(S \cap T) = 0
  BY FS_EmptySet
<1> QED
  BY <1>1, <1>2, <1>3

LEMMA CountDifference ==
    ASSUME NEW S \in SUBSET File, NEW T \in SUBSET S
    PROVE  /\ Cardinality(S) = Cardinality(S \ T) + Cardinality(T)
           /\ Cardinality(T) <= Cardinality(S)
           /\ Cardinality(T) \in Nat /\ Cardinality(S) \in Nat /\ Cardinality(S \ T) \in Nat
<1>1. S = (S \ T) \cup T /\ (S \ T) \cap T = {}
  OBVIOUS
<1>2. Cardinality(S) = Cardinality(S \ T) + Cardinality(T)
  BY <1>1, CountUnion
<1>3. Cardinality(T) \in Nat /\ Cardinality(S) \in Nat /\ Cardinality(S \ T) \in Nat
  BY FilesFinite
<1> QED
  BY <1>2, <1>3

LEMMA NoFiles == \A S \in SUBSET File : Cardinality(S) = 0 <=> S = {}
  BY FilesFinite, FS_EmptySet

LEMMA RecordGives ==
    ASSUME NEW book \in Book, NEW files \in SUBSET File, files # {}, NEW outcome \in Outcome,
           NEW r, r = Record(book, files, outcome), NEW n, n = Cardinality(files)
    PROVE  /\ r \in Book /\ n \in Nat \ {0}
           /\ r.kind = book.kind /\ r.written = book.written /\ r.files = book.files
           /\ r.opened = book.opened /\ r.total = book.total
           /\ r.outcome = [f \in File |-> IF f \in files THEN outcome ELSE book.outcome[f]]
           /\ ~book.opened => r.count = book.count /\ r.finished = book.finished
           /\ book.opened =>
                /\ RowSettled(r) = RowSettled(book) + n
                /\ \A s \in State :
                     r.count[s] = IF s = StateOf(outcome) THEN book.count[s] + n ELSE book.count[s]
                /\ r.finished = (book.finished \/ RowSettled(r) >= r.total)
           /\ ~book.tracked => ~r.tracked /\ r.end = book.end
           /\ book.tracked /\ book.left > n =>
                /\ r.tracked /\ r.left = book.left - n /\ r.end = book.end
                /\ r.halts = IF outcome = "halted" THEN book.halts + n ELSE book.halts
           /\ book.tracked /\ book.left <= n =>
                /\ ~r.tracked
                /\ r.end = IF outcome = "halted" \/ book.halts > 0 THEN "halted" ELSE "completed"
<1>1. n \in Nat \ {0}
  BY FilesFinite, NoFiles
<1> DEFINE m1 == NoteOf(book, files, outcome)
           m2 == TallyFold(m1, outcome, n)
<1>2. r = RowFold(m2, outcome, n)
  BY DEF Record, NoteOf
<1>3. /\ m1 \in Book
      /\ m1.outcome = [f \in File |-> IF f \in files THEN outcome ELSE book.outcome[f]]
      /\ m1.kind = book.kind /\ m1.written = book.written /\ m1.files = book.files
      /\ m1.end = book.end /\ m1.opened = book.opened /\ m1.total = book.total
      /\ m1.count = book.count /\ m1.finished = book.finished
      /\ m1.tracked = book.tracked /\ m1.left = book.left /\ m1.halts = book.halts
  BY NoteGives
<1> HIDE DEF m1
<1>4. /\ m2 \in Book
      /\ m2.kind = m1.kind /\ m2.written = m1.written /\ m2.files = m1.files
      /\ m2.outcome = m1.outcome /\ m2.opened = m1.opened /\ m2.total = m1.total
      /\ m2.count = m1.count /\ m2.finished = m1.finished
      /\ ~m1.tracked => m2 = m1
      /\ m1.tracked /\ m1.left > n =>
           /\ m2.tracked /\ m2.left = m1.left - n /\ m2.end = m1.end
           /\ m2.halts = IF outcome = "halted" THEN m1.halts + n ELSE m1.halts
      /\ m1.tracked /\ m1.left <= n =>
           /\ ~m2.tracked
           /\ m2.end = IF outcome = "halted" \/ m1.halts > 0 THEN "halted" ELSE "completed"
  BY <1>1, <1>3, TallyGives
<1> HIDE DEF m2
<1>5. /\ r \in Book
      /\ r.kind = m2.kind /\ r.written = m2.written /\ r.files = m2.files
      /\ r.outcome = m2.outcome /\ r.opened = m2.opened /\ r.total = m2.total
      /\ r.end = m2.end /\ r.tracked = m2.tracked /\ r.left = m2.left /\ r.halts = m2.halts
      /\ ~m2.opened => r = m2
      /\ m2.opened =>
           /\ RowSettled(r) = RowSettled(m2) + n
           /\ \A s \in State :
                r.count[s] = IF s = StateOf(outcome) THEN m2.count[s] + n ELSE m2.count[s]
           /\ r.finished = (m2.finished \/ RowSettled(r) >= r.total)
  BY <1>1, <1>2, <1>4, RowGives
<1>6. RowSettled(m2) = RowSettled(book)
  BY <1>3, <1>4 DEF RowSettled
<1>7. ~book.tracked => ~r.tracked /\ r.end = book.end
  BY <1>3, <1>4, <1>5
<1>8. /\ book.tracked /\ book.left > n =>
           /\ r.tracked /\ r.left = book.left - n /\ r.end = book.end
           /\ r.halts = IF outcome = "halted" THEN book.halts + n ELSE book.halts
      /\ book.tracked /\ book.left <= n =>
           /\ ~r.tracked
           /\ r.end = IF outcome = "halted" \/ book.halts > 0 THEN "halted" ELSE "completed"
  BY <1>3, <1>4, <1>5
<1>9. /\ ~book.opened => r.count = book.count /\ r.finished = book.finished
      /\ book.opened =>
           /\ RowSettled(r) = RowSettled(book) + n
           /\ \A s \in State :
                r.count[s] = IF s = StateOf(outcome) THEN book.count[s] + n ELSE book.count[s]
           /\ r.finished = (book.finished \/ RowSettled(r) >= r.total)
  BY <1>3, <1>4, <1>5, <1>6
<1> QED
  BY <1>1, <1>3, <1>4, <1>5, <1>7, <1>8, <1>9

\* What becomes of the outcomes.
LEMMA OutcomesGrow ==
    ASSUME NEW book \in Book, NEW files \in SUBSET File, files # {}, NEW outcome \in Outcome,
           \A f \in files : book.outcome[f] = NoOutcome,
           NEW r, r.outcome = [f \in File |-> IF f \in files THEN outcome ELSE book.outcome[f]]
    PROVE  /\ Noted(r) = Noted(book) \cup files /\ Noted(book) \cap files = {}
           /\ Cardinality(Noted(r)) = Cardinality(Noted(book)) + Cardinality(files)
           /\ \A s \in State :
                Cardinality(InState(r, s)) = IF s = StateOf(outcome)
                                             THEN Cardinality(InState(book, s)) + Cardinality(files)
                                             ELSE Cardinality(InState(book, s))
           /\ HasHalted(r) <=> HasHalted(book) \/ outcome = "halted"
<1>1. outcome # NoOutcome
  BY DEF Outcome, Reason, NoOutcome
<1>2. Noted(r) = Noted(book) \cup files /\ Noted(book) \cap files = {}
  BY <1>1 DEF Noted
<1>3. ASSUME NEW s \in State
      PROVE  /\ InState(r, s) = IF s = StateOf(outcome) THEN InState(book, s) \cup files ELSE InState(book, s)
             /\ InState(book, s) \cap files = {}
  BY <1>2 DEF InState, Noted
<1>4. HasHalted(r) <=> HasHalted(book) \/ outcome = "halted"
  <2>1. \A f \in files : book.outcome[f] # "halted"
    BY DEF NoOutcome
  <2> QED
    BY <2>1 DEF HasHalted
<1>5. /\ Noted(book) \in SUBSET File
      /\ \A s \in State : InState(book, s) \in SUBSET File
  BY NotedFinite
<1>6. Cardinality(Noted(r)) = Cardinality(Noted(book)) + Cardinality(files)
  BY <1>2, <1>5, CountUnion
<1>7. ASSUME NEW s \in State
      PROVE  Cardinality(InState(r, s)) = IF s = StateOf(outcome)
                                          THEN Cardinality(InState(book, s)) + Cardinality(files)
                                          ELSE Cardinality(InState(book, s))
  BY <1>3, <1>5, CountUnion
<1> QED
  BY <1>2, <1>4, <1>6, <1>7

\* A book with the files recorded: as true of what is left as it was before.
Recorded(book, out, files, taken, r) ==
    /\ r \in Book /\ r.kind = book.kind /\ r.written = book.written /\ r.files = book.files
    /\ r.opened = book.opened
    /\ ~book.tracked => ~r.tracked /\ r.end = book.end
    /\ Noted(r) = Noted(book) \cup files
    /\ BookTrue(r, out \ files, taken)
    /\ Accounted(book, out, taken) => Accounted(r, out \ files, taken)
    /\ files = {} => r = book

LEMMA RecordKeeps ==
    ASSUME NEW book \in Book, NEW out \in SUBSET File, NEW files \in SUBSET out,
           NEW outcome \in Outcome, NEW taken \in Nat, BookTrue(book, out, taken),
           NEW r, r = Record(book, files, outcome)
    PROVE  Recorded(book, out, files, taken, r)
<1>1. CASE files = {}
  <2>1. r = book /\ out \ files = out
    BY <1>1 DEF Record
  <2> QED
    BY <1>1, <2>1 DEF Recorded
<1>2. CASE files # {}
  <2> DEFINE rest == out \ files
  <2>0. files \in SUBSET File /\ rest \in SUBSET File
    OBVIOUS
  <2> PICK n : n = Cardinality(files)
    OBVIOUS
  <2>1. /\ r \in Book /\ n \in Nat \ {0}
        /\ r.kind = book.kind /\ r.written = book.written /\ r.files = book.files
        /\ r.opened = book.opened /\ r.total = book.total
        /\ r.outcome = [f \in File |-> IF f \in files THEN outcome ELSE book.outcome[f]]
    BY <1>2, <2>0, RecordGives
  <2>2. /\ ~book.opened => r.count = book.count /\ r.finished = book.finished
        /\ book.opened =>
             /\ RowSettled(r) = RowSettled(book) + n
             /\ \A s \in State :
                  r.count[s] = IF s = StateOf(outcome) THEN book.count[s] + n ELSE book.count[s]
             /\ r.finished = (book.finished \/ RowSettled(r) >= r.total)
    BY <1>2, <2>0, <2>1, RecordGives, SMTT(60)
  <2>3. /\ ~book.tracked => ~r.tracked /\ r.end = book.end
        /\ book.tracked /\ book.left > n =>
             /\ r.tracked /\ r.left = book.left - n /\ r.end = book.end
             /\ r.halts = IF outcome = "halted" THEN book.halts + n ELSE book.halts
        /\ book.tracked /\ book.left <= n =>
             /\ ~r.tracked
             /\ r.end = IF outcome = "halted" \/ book.halts > 0 THEN "halted" ELSE "completed"
    BY <1>2, <2>0, <2>1, RecordGives
  <2>4. \A f \in out : book.outcome[f] = NoOutcome
    BY DEF BookTrue, ManifestTrue
  <2>5. /\ Noted(r) = Noted(book) \cup files
        /\ Cardinality(Noted(r)) = Cardinality(Noted(book)) + n
        /\ \A s \in State :
             Cardinality(InState(r, s)) = IF s = StateOf(outcome)
                                          THEN Cardinality(InState(book, s)) + n
                                          ELSE Cardinality(InState(book, s))
        /\ HasHalted(r) <=> HasHalted(book) \/ outcome = "halted"
    BY <1>2, <2>0, <2>1, <2>4, OutcomesGrow
  <2>6. Cardinality(out) = Cardinality(rest) + n /\ Cardinality(rest) \in Nat /\ n <= Cardinality(out)
    BY CountDifference
  <2>7. Cardinality(Noted(book)) \in Nat
    BY NotedFinite
  <2>8. /\ book.total \in Nat /\ book.left \in Nat /\ book.halts \in Nat
        /\ RowSettled(book) \in Nat /\ RowSettled(r) \in Nat
    BY <2>1, BookFields, RowSettledTypes
  <2> HIDE DEF rest
  <2>9. Accounted(book, out, taken) => Accounted(r, rest, taken)
    BY <2>1, <2>5, <2>6, <2>7 DEF Accounted
  <2>10. RowTrue(r, rest)
    <3>0. RowTrue(book, out)
      BY DEF BookTrue
    <3>1. CASE ~book.opened
      BY <2>1, <2>2, <3>0, <3>1 DEF RowTrue
    <3>2. CASE book.opened
      <4>1. r.finished => RowSettled(r) >= r.total
        <5>1. book.finished => RowSettled(book) >= book.total
          BY <3>0 DEF RowTrue
        <5>2. RowSettled(r) = RowSettled(book) + n /\ r.total = book.total
          BY <2>1, <2>2, <3>2
        <5>3. book.finished => RowSettled(r) >= r.total
          BY <2>1, <2>8, <5>1, <5>2
        <5>4. r.finished = (book.finished \/ RowSettled(r) >= r.total)
          BY <2>2, <3>2
        <5> QED
          BY <5>3, <5>4
      <4>2. /\ RowSettled(r) + Cardinality(rest) <= r.total
            /\ r.kind = "transcribe" => RowSettled(r) + Cardinality(rest) = r.total
        BY <2>1, <2>2, <2>6, <2>8, <3>0, <3>2 DEF RowTrue
      <4>3. r.kind # "describe" => \A s \in State : r.count[s] = Cardinality(InState(r, s))
        BY <2>1, <2>2, <2>5, <3>0, <3>2 DEF RowTrue
      <4> QED
        BY <2>1, <3>2, <4>1, <4>2, <4>3 DEF RowTrue
    <3> QED
      BY <3>1, <3>2
  <2>11. TallyTrue(r, rest, taken)
    <3> SUFFICES ASSUME r.tracked PROVE TallyTrue(r, rest, taken)
      BY DEF TallyTrue
    <3>1. book.tracked /\ book.left > n
      BY <2>1, <2>3, <2>8
    <3>2. /\ book.end = "open" /\ book.left >= Cardinality(out) /\ Accounted(book, out, taken)
          /\ book.left > Cardinality(out) \/ (book.halts > 0 <=> HasHalted(book))
      BY <3>1 DEF BookTrue, TallyTrue
    <3>3. /\ r.left = book.left - n /\ r.end = "open"
          /\ r.halts = IF outcome = "halted" THEN book.halts + n ELSE book.halts
      BY <2>3, <3>1, <3>2
    <3>4. r.left >= 1 /\ r.left >= Cardinality(rest)
      BY <2>1, <2>6, <2>8, <3>1, <3>2, <3>3
    <3>5. r.left > Cardinality(rest) \/ (r.halts > 0 <=> HasHalted(r))
      <4>1. book.left > Cardinality(out) => r.left > Cardinality(rest)
        BY <2>1, <2>6, <2>8, <3>3
      <4>2. (book.halts > 0 <=> HasHalted(book)) => (r.halts > 0 <=> HasHalted(r))
        BY <2>1, <2>5, <2>8, <3>3
      <4> QED
        BY <3>2, <4>1, <4>2
    <3> QED
      BY <2>9, <3>2, <3>3, <3>4, <3>5 DEF TallyTrue
  <2>12. ManifestTrue(r, rest, taken)
    <3>1. \A f \in rest : r.outcome[f] = NoOutcome
      BY <2>1, <2>4 DEF rest
    <3>2. out # {} /\ book.end = "open"
      BY <1>2 DEF BookTrue, ManifestTrue
    <3>3. ASSUME r.end # "open"
          PROVE  /\ rest = {} /\ Accounted(r, rest, taken)
                 /\ r.end = "halted" <=> HasHalted(r)
      <4>1. book.tracked /\ book.left <= n
        BY <2>1, <2>3, <2>8, <3>2, <3>3
      <4>2. /\ book.left >= Cardinality(out) /\ Accounted(book, out, taken)
            /\ book.left > Cardinality(out) \/ (book.halts > 0 <=> HasHalted(book))
        BY <4>1 DEF BookTrue, TallyTrue
      <4>3. Cardinality(rest) = 0 /\ ~(book.left > Cardinality(out))
        BY <2>1, <2>6, <2>8, <4>1, <4>2
      <4>4. rest = {}
        BY <2>0, <4>3, NoFiles DEF rest
      <4>5. r.end = "halted" <=> HasHalted(r)
        BY <2>3, <2>5, <4>1, <4>2, <4>3
      <4> QED
        BY <2>9, <4>2, <4>4, <4>5
    <3> QED
      BY <3>1, <3>3 DEF ManifestTrue
  <2> QED
    BY <1>2, <2>1, <2>3, <2>5, <2>9, <2>10, <2>11, <2>12 DEF BookTrue, Recorded, rest
<1> QED
  BY <1>1, <1>2

-----------------------------------------------------------------------------
(* The inductive invariant.                                                   *)

BooksTrue(bs, tasks, taken) == \A b \in Batch : BookTrue(bs[b], FilesIn(tasks, b), taken[b])

\* The row of a batch that asks for its files before it queues them, and no row.
AskedRow(book) ==
    /\ book.opened /\ ~book.finished /\ RowSettled(book) = 0
    /\ book.tracked /\ book.halts = 0
    /\ book.total = Cardinality(book.files) /\ book.left = book.total
NoRow(book) == ~book.opened /\ ~book.finished /\ ~book.tracked

\* The queue has not been asked for the files of the batch yet.
Unasked(b) ==
    \/ ~books[b].written
    \/ b = clicked /\ stage = "enqueue"
    \/ b = clicked /\ stage = "open" /\ KindOf(b) = "compress"

\* So it has no task, no outcome and no retry budget.
Untouched(b) ==
    /\ FilesIn(live, b) = {} /\ Noted(books[b]) = {} /\ queued[b] = 0 /\ books[b].end = "open"
    /\ \A i \in DOMAIN health : health[i].batch # b
    /\ IF books[b].written /\ KindOf(b) = "compress" /\ stage = "enqueue"
       THEN AskedRow(books[b]) ELSE NoRow(books[b])

UnaskedUntouched == \A b \in Batch : Unasked(b) => Untouched(b)

\* What the click of a producer that counts knows between its two steps.
Counting(book, out, taken) ==
    /\ ~book.opened /\ ~book.tracked /\ book.end = "open" /\ Accounted(book, out, taken)
    /\ book.kind # "describe" => Noted(book) = {}
CountsTaken ==
    stage = "open" /\ KindOf(clicked) # "compress" =>
      Counting(books[clicked], FilesIn(live, clicked), queued[clicked])

ClickWritten ==
    /\ stage \in {"enqueue", "open"} => books[clicked].written
    /\ \A b \in Batch : books[b].written /\ KindOf(b) = "compress" => books[b].files # {}

\* Memory dies with the process; while it lives, the journal is the queue.
MemoryTrue ==
    /\ stage = "down" => /\ pending = {} /\ running = {} /\ health = <<>>
                         /\ \A b \in Batch : NoRow(books[b])
    /\ stage # "down" => live = pending \cup running /\ pending \cap running = {}

BudgetsTrue ==
    \A i \in DOMAIN health : health[i].halted => Of(pending, health[i].batch) = {}

BatchesInv ==
    /\ TypeOK /\ BooksTrue(books, live, queued) /\ UnaskedUntouched /\ CountsTaken
    /\ ClickWritten /\ MemoryTrue /\ BudgetsTrue

-----------------------------------------------------------------------------
(* What the steps have in common.                                             *)

LEMMA FilesOfTasks ==
    ASSUME NEW tasks \in SUBSET TaskOf, NEW b \in Batch
    PROVE  {t.file : t \in {u \in tasks : u.batch = b}} = FilesIn(tasks, b)
  BY DEF FilesIn, TaskOf

\* The files of a set of tasks, of the tasks of one batch, and of one task.
LEMMA FilesInSets ==
    ASSUME NEW b
    PROVE  /\ \A L, M : /\ FilesIn(L \ M, b) = FilesIn(L, b) \ FilesIn(M, b)
                        /\ FilesIn(L \cup M, b) = FilesIn(L, b) \cup FilesIn(M, b)
                        /\ L \subseteq M => FilesIn(L, b) \subseteq FilesIn(M, b)
           /\ \A L : FilesIn(L, b) \in SUBSET File
           /\ FilesIn({}, b) = {}
           /\ \A c, files : files \subseteq File =>
                FilesIn(TasksOf(c, files), b) = IF b = c THEN files ELSE {}
           /\ \A t \in TaskOf : FilesIn({t}, b) = IF t.batch = b THEN {t.file} ELSE {}
<1>1. \A L, M : /\ FilesIn(L \ M, b) = FilesIn(L, b) \ FilesIn(M, b)
                /\ FilesIn(L \cup M, b) = FilesIn(L, b) \cup FilesIn(M, b)
                /\ L \subseteq M => FilesIn(L, b) \subseteq FilesIn(M, b)
  BY DEF FilesIn
<1>2. (\A L : FilesIn(L, b) \in SUBSET File) /\ FilesIn({}, b) = {}
  BY DEF FilesIn
<1>3. \A c, files : files \subseteq File =>
        FilesIn(TasksOf(c, files), b) = IF b = c THEN files ELSE {}
  BY DEF FilesIn, TasksOf
<1>4. \A t \in TaskOf : FilesIn({t}, b) = IF t.batch = b THEN {t.file} ELSE {}
  BY DEF FilesIn, TaskOf
<1> QED
  BY <1>1, <1>2, <1>3, <1>4

\* All the books, with some tasks recorded as halted.
Drained(bs, tasks, gone, taken, rs) ==
    /\ rs \in [Batch -> Book]
    /\ BooksTrue(rs, tasks \ gone, taken)
    /\ \A b \in Batch :
         /\ rs[b].kind = bs[b].kind /\ rs[b].written = bs[b].written
         /\ rs[b].files = bs[b].files /\ rs[b].opened = bs[b].opened
         /\ ~bs[b].tracked => ~rs[b].tracked /\ rs[b].end = bs[b].end
         /\ Noted(rs[b]) = Noted(bs[b]) \cup FilesIn(gone, b)
         /\ Accounted(bs[b], FilesIn(tasks, b), taken[b])
              => Accounted(rs[b], FilesIn(tasks \ gone, b), taken[b])
         /\ FilesIn(gone, b) = {} => rs[b] = bs[b]

\* haltPending: the books stay true of the tasks that are left.
LEMMA HaltedKeeps ==
    ASSUME NEW bs \in [Batch -> Book], NEW tasks \in SUBSET TaskOf, NEW gone \in SUBSET tasks,
           NEW taken \in [Batch -> Nat], BooksTrue(bs, tasks, taken),
           NEW rs, rs = Halted(bs, gone)
    PROVE  Drained(bs, tasks, gone, taken, rs)
<1>1. gone \in SUBSET TaskOf
  OBVIOUS
<1>2. rs = [b \in Batch |-> Record(bs[b], FilesIn(gone, b), "halted")]
  BY <1>1, FilesOfTasks DEF Halted
<1>3. ASSUME NEW b \in Batch
      PROVE  /\ rs[b] \in Book
             /\ BookTrue(rs[b], FilesIn(tasks \ gone, b), taken[b])
             /\ rs[b].kind = bs[b].kind /\ rs[b].written = bs[b].written
             /\ rs[b].files = bs[b].files /\ rs[b].opened = bs[b].opened
             /\ ~bs[b].tracked => ~rs[b].tracked /\ rs[b].end = bs[b].end
             /\ Noted(rs[b]) = Noted(bs[b]) \cup FilesIn(gone, b)
             /\ Accounted(bs[b], FilesIn(tasks, b), taken[b])
                  => Accounted(rs[b], FilesIn(tasks \ gone, b), taken[b])
             /\ FilesIn(gone, b) = {} => rs[b] = bs[b]
  <2>1. PICK out, files, q, book, r :
          /\ out = FilesIn(tasks, b) /\ files = FilesIn(gone, b) /\ q = taken[b]
          /\ book = bs[b] /\ r = rs[b]
    OBVIOUS
  <2>2. out \in SUBSET File /\ files \in SUBSET out /\ FilesIn(tasks \ gone, b) = out \ files
    BY <2>1, FilesInSets
  <2>3. q \in Nat /\ book \in Book /\ "halted" \in Outcome
    BY <2>1 DEF Outcome
  <2>4. BookTrue(book, out, q)
    BY <2>1 DEF BooksTrue
  <2>5. r = Record(book, files, "halted")
    BY <1>2, <2>1
  <2>6. Recorded(book, out, files, q, r)
    BY <2>2, <2>3, <2>4, <2>5, RecordKeeps
  <2> QED
    BY <2>1, <2>2, <2>6 DEF Recorded
<1>4. rs \in [Batch -> Book]
  BY <1>2, <1>3
<1> QED
  BY <1>3, <1>4 DEF BooksTrue, Drained

\* A process that lost its memory, or a journal that lost some tasks.
LEMMA ForgottenKeeps ==
    ASSUME NEW book, NEW out, NEW rest \in SUBSET out, NEW taken, BookTrue(book, out, taken),
           NEW r, NoRow(r), r.outcome = book.outcome, r.end = book.end
    PROVE  BookTrue(r, rest, taken)
<1>1. RowTrue(r, rest) /\ TallyTrue(r, rest, taken)
  BY DEF NoRow, RowTrue, TallyTrue
<1>2. /\ \A f \in out : book.outcome[f] = NoOutcome
      /\ book.end # "open" => /\ out = {} /\ Accounted(book, out, taken)
                              /\ book.end = "halted" <=> HasHalted(book)
  BY DEF BookTrue, ManifestTrue
<1>3. Noted(r) = Noted(book) /\ (HasHalted(r) <=> HasHalted(book))
  BY DEF Noted, HasHalted
<1>4. ManifestTrue(r, rest, taken)
  <2>1. \A f \in rest : r.outcome[f] = NoOutcome
    BY <1>2
  <2>2. ASSUME r.end # "open"
        PROVE  /\ rest = {} /\ Accounted(r, rest, taken)
               /\ r.end = "halted" <=> HasHalted(r)
    <3>1. rest = {} /\ rest = out
      BY <1>2, <2>2
    <3> QED
      BY <1>2, <1>3, <2>2, <3>1 DEF Accounted
  <2> QED
    BY <2>1, <2>2 DEF ManifestTrue
<1> QED
  BY <1>1, <1>4 DEF BookTrue

LEMMA ForgottenGives ==
    ASSUME NEW book \in Book, NEW r, r = Forgotten(book)
    PROVE  /\ r \in Book /\ NoRow(r) /\ r.outcome = book.outcome /\ r.end = book.end
           /\ r.kind = book.kind /\ r.written = book.written /\ r.files = book.files
<1>1. r = [ kind     |-> book.kind,
            written  |-> book.written, files |-> book.files, outcome |-> book.outcome, end |-> book.end,
            opened   |-> FALSE, total |-> 0, count |-> [s \in State |-> 0], finished |-> FALSE,
            tracked  |-> FALSE, left |-> 0, halts |-> 0 ]
  BY DEF Forgotten, Blank
<1>2. r.opened = FALSE /\ r.finished = FALSE /\ r.tracked = FALSE
  BY <1>1
<1>3. /\ r.outcome = book.outcome /\ r.end = book.end
      /\ r.kind = book.kind /\ r.written = book.written /\ r.files = book.files
  BY <1>1
<1>4. r \in Book
  BY <1>1, BookFields DEF Book, Outcome, Reason
<1> QED
  BY <1>2, <1>3, <1>4 DEF NoRow

\* A step of the queue between two clicks.
LEMMA IdleStep ==
    ASSUME BatchesInv, stage = "idle", stage' = "idle", clicked' = clicked, queued' = queued,
           TypeOK', BooksTrue(books', live', queued), MemoryTrue', BudgetsTrue', live' \subseteq live,
           \A b \in Batch : /\ books'[b].kind = books[b].kind /\ books'[b].written = books[b].written
                           /\ books'[b].files = books[b].files,
           \A b \in Batch : ~books[b].written =>
             books'[b] = books[b] /\ \A i \in DOMAIN health' : health'[i].batch # b
    PROVE  BatchesInv'
<1>1. BooksTrue(books, live, queued)'
  OBVIOUS
<1>2. UnaskedUntouched'
  <2> SUFFICES ASSUME NEW b \in Batch, Unasked(b)' PROVE Untouched(b)'
    BY DEF UnaskedUntouched
  <2>1. ~books[b].written /\ ~books'[b].written
    BY DEF Unasked
  <2>2. Untouched(b)
    BY <2>1 DEF BatchesInv, UnaskedUntouched, Unasked
  <2>3. FilesIn(live', b) = {}
    BY <2>2, FilesInSets DEF Untouched
  <2>4. /\ books'[b] = books[b] /\ \A i \in DOMAIN health' : health'[i].batch # b
        /\ NoRow(books[b])
    BY <2>1, <2>2 DEF Untouched
  <2> QED
    BY <2>1, <2>2, <2>3, <2>4 DEF Untouched, KindOf
<1>3. CountsTaken'
  BY DEF CountsTaken
<1>4. ClickWritten'
  BY DEF ClickWritten, BatchesInv, KindOf
<1> QED
  BY <1>1, <1>2, <1>3, <1>4 DEF BatchesInv

-----------------------------------------------------------------------------
(* The retry budgets.                                                         *)

LEMMA BudgetTypes ==
    ASSUME health \in Seq(Entry), NEW b \in Batch
    PROVE  /\ EntryOf(b) \in Entry /\ EntryOf(b).batch = b
           /\ EntryOf(b).halted => \E i \in DOMAIN health : health[i] = EntryOf(b)
           /\ \A reason \in Reason : Counted(b, reason) \in Entry /\ Counted(b, reason).batch = b
                                     /\ Counted(b, reason).halted = EntryOf(b).halted
<1>1. /\ EntryOf(b) \in Entry /\ EntryOf(b).batch = b
      /\ EntryOf(b).halted => \E i \in DOMAIN health : health[i] = EntryOf(b)
  <2> DEFINE at == {i \in DOMAIN health : health[i].batch = b}
  <2>1. CASE at = {}
    <3>1. EntryOf(b) = [batch |-> b, settled |-> 0, failed |-> 0, halted |-> FALSE]
      BY <2>1 DEF EntryOf
    <3> QED
      BY <3>1 DEF Entry
  <2>2. CASE at # {}
    <3>1. PICK i \in at : EntryOf(b) = health[i]
      BY <2>2 DEF EntryOf
    <3>2. i \in DOMAIN health /\ health[i] \in Entry /\ health[i].batch = b
      OBVIOUS
    <3> QED
      BY <3>1, <3>2
  <2> QED
    BY <2>1, <2>2
<1>2. ASSUME NEW reason \in Reason
      PROVE  /\ Counted(b, reason) \in Entry /\ Counted(b, reason).batch = b
             /\ Counted(b, reason).halted = EntryOf(b).halted
  <2>0. PICK e, f : e = EntryOf(b) /\ f = IF reason = "failed" THEN e.failed + 1 ELSE e.failed
    OBVIOUS
  <2>1. e \in Entry /\ e.batch = b
    BY <1>1, <2>0
  <2>2. f \in Nat /\ e.settled + 1 \in Nat
    BY <2>0, <2>1 DEF Entry
  <2>3. [e EXCEPT !.settled = @ + 1, !.failed = f] \in Entry
    BY <2>1, <2>2 DEF Entry
  <2>4. /\ [e EXCEPT !.settled = @ + 1, !.failed = f].batch = b
        /\ [e EXCEPT !.settled = @ + 1, !.failed = f].halted = e.halted
    BY <2>1 DEF Entry
  <2>5. Counted(b, reason) = [e EXCEPT !.settled = @ + 1, !.failed = f]
    BY <2>0 DEF Counted
  <2> QED
    BY <2>0, <2>3, <2>4, <2>5
<1> QED
  BY <1>1, <1>2

\* An entry put in its place leaves only old ones beside it.
LEMMA WithEntryGives ==
    ASSUME health \in Seq(Entry), Len(health) <= MaxHealth, NEW e \in Entry,
           NEW new, new = WithEntry(e)
    PROVE  /\ new \in Seq(Entry) /\ Len(new) <= MaxHealth
           /\ \A i \in DOMAIN new : new[i] = e \/ \E j \in DOMAIN health : health[j] = new[i]
<1> DEFINE kept == IF \E i \in DOMAIN health : health[i].batch = e.batch
                   THEN [i \in DOMAIN health |-> IF health[i].batch = e.batch THEN e ELSE health[i]]
                   ELSE Append(health, e)
<1>1. new = IF Len(kept) > MaxHealth /\ Head(kept).batch # e.batch THEN Tail(kept) ELSE kept
  BY DEF WithEntry
<1>2. Len(health) \in Nat /\ MaxHealth \in Nat \ {0}
  BY NumberAssumption
<1>3. /\ kept \in Seq(Entry)
      /\ Len(kept) <= MaxHealth \/ (Len(kept) = MaxHealth + 1 /\ Head(kept).batch # e.batch)
      /\ \A i \in DOMAIN kept : kept[i] = e \/ \E j \in DOMAIN health : health[j] = kept[i]
  <2>1. CASE \E i \in DOMAIN health : health[i].batch = e.batch
    <3>1. kept = [i \in 1..Len(health) |-> IF health[i].batch = e.batch THEN e ELSE health[i]]
      <4>1. DOMAIN health = 1..Len(health)
        OBVIOUS
      <4> QED
        BY <2>1, <4>1
    <3>2. \A i \in 1..Len(health) : health[i] \in Entry
      OBVIOUS
    <3> HIDE DEF kept
    <3>3. kept \in Seq(Entry) /\ Len(kept) = Len(health) /\ DOMAIN kept = 1..Len(health)
      BY <1>2, <3>1, <3>2
    <3> QED
      BY <3>1, <3>3
  <2>2. CASE ~\E i \in DOMAIN health : health[i].batch = e.batch
    <3>1. kept = Append(health, e)
      BY <2>2
    <3> HIDE DEF kept
    <3>2. /\ kept \in Seq(Entry) /\ Len(kept) = Len(health) + 1 /\ DOMAIN kept = 1..(Len(health) + 1)
          /\ \A i \in 1..Len(health) : kept[i] = health[i]
          /\ kept[Len(health) + 1] = e
      BY <1>2, <3>1
    <3>3. \A i \in DOMAIN kept : kept[i] = e \/ \E j \in DOMAIN health : health[j] = kept[i]
      BY <1>2, <3>2
    <3>4. Len(health) = MaxHealth => Head(kept).batch # e.batch
      <4> SUFFICES ASSUME Len(health) = MaxHealth PROVE Head(kept).batch # e.batch
        OBVIOUS
      <4>1. 1 \in DOMAIN health /\ Head(kept) = health[1]
        BY <1>2, <3>2
      <4> QED
        BY <2>2, <4>1
    <3> QED
      BY <1>2, <3>2, <3>3, <3>4
  <2> QED
    BY <2>1, <2>2
<1> HIDE DEF kept
<1>4. CASE Len(kept) <= MaxHealth
  BY <1>1, <1>2, <1>3, <1>4
<1>5. CASE Len(kept) = MaxHealth + 1 /\ Head(kept).batch # e.batch
  <2>1. new = Tail(kept) /\ kept # << >>
    BY <1>1, <1>2, <1>3, <1>5
  <2>2. /\ new \in Seq(Entry) /\ Len(new) = MaxHealth /\ DOMAIN new = 1..MaxHealth
        /\ \A i \in 1..MaxHealth : new[i] = kept[i + 1] /\ i + 1 \in DOMAIN kept
    BY <1>2, <1>3, <1>5, <2>1
  <2> QED
    BY <1>2, <1>3, <2>2
<1> QED
  BY <1>3, <1>4, <1>5

-----------------------------------------------------------------------------
(* The death of the process and its next boot.                                *)

\* No row, no tally and no budget: only the manifest and the journal count, and the
\* journal gains no task but of the request being served.
LEMMA ForgetfulStep ==
    ASSUME BatchesInv, TypeOK', stage' \in {"down", "idle"}, queued' = queued, health' = << >>,
           MemoryTrue',
           \A b \in Batch : b # clicked \/ stage # "enqueue" => FilesIn(live', b) \subseteq FilesIn(live, b),
           \A b \in Batch :
             /\ NoRow(books'[b]) /\ books'[b].outcome = books[b].outcome /\ books'[b].end = books[b].end
             /\ books'[b].kind = books[b].kind /\ books'[b].written = books[b].written
             /\ books'[b].files = books[b].files
    PROVE  BatchesInv'
<1>1. ASSUME NEW b \in Batch
      PROVE  BookTrue(books'[b], FilesIn(live', b), queued[b])
  <2>1. BookTrue(books[b], FilesIn(live, b), queued[b])
    BY DEF BatchesInv, BooksTrue
  <2>2. /\ NoRow(books'[b]) /\ books'[b].outcome = books[b].outcome /\ books'[b].end = books[b].end
    OBVIOUS
  <2>3. CASE b # clicked \/ stage # "enqueue"
    <3>1. FilesIn(live', b) \in SUBSET FilesIn(live, b)
      BY <2>3
    <3> QED
      BY <2>1, <2>2, <3>1, ForgottenKeeps
  <2>4. CASE b = clicked /\ stage = "enqueue"
    <3>1. Noted(books[b]) = {} /\ books[b].end = "open"
      BY <2>4 DEF BatchesInv, UnaskedUntouched, Unasked, Untouched
    <3>2. RowTrue(books'[b], FilesIn(live', b)) /\ TallyTrue(books'[b], FilesIn(live', b), queued[b])
      BY <2>2 DEF NoRow, RowTrue, TallyTrue
    <3>3. \A f \in FilesIn(live', b) : books'[b].outcome[f] = NoOutcome
      <4>1. \A f \in File : books[b].outcome[f] = NoOutcome
        BY <3>1 DEF Noted
      <4> QED
        BY <2>2, <4>1 DEF FilesIn
    <3> QED
      BY <2>2, <3>1, <3>2, <3>3 DEF BookTrue, ManifestTrue
  <2> QED
    BY <2>3, <2>4
<1>2. BooksTrue(books, live, queued)'
  BY <1>1 DEF BooksTrue
<1>3. UnaskedUntouched'
  <2> SUFFICES ASSUME NEW b \in Batch, Unasked(b)' PROVE Untouched(b)'
    BY DEF UnaskedUntouched
  <2>1. ~books[b].written /\ ~books'[b].written
    BY DEF Unasked
  <2>2. b # clicked \/ stage # "enqueue"
    BY <2>1 DEF BatchesInv, ClickWritten
  <2>3. Untouched(b)
    BY <2>1 DEF BatchesInv, UnaskedUntouched, Unasked
  <2>4. FilesIn(live', b) = {}
    BY <2>2, <2>3 DEF Untouched
  <2>5. Noted(books'[b]) = Noted(books[b])
    BY DEF Noted
  <2> QED
    BY <2>1, <2>3, <2>4, <2>5 DEF Untouched, KindOf
<1>4. CountsTaken'
  BY DEF CountsTaken
<1>5. ClickWritten'
  BY DEF ClickWritten, BatchesInv, KindOf
<1>6. BudgetsTrue'
  BY DEF BudgetsTrue
<1> QED
  BY <1>2, <1>3, <1>4, <1>5, <1>6 DEF BatchesInv

LEMMA DieKeeps ==
    ASSUME BatchesInv, Die, books' = [b \in Batch |-> Forgotten(books[b])],
           live' \in SUBSET TaskOf,
           \A b \in Batch : b # clicked \/ stage # "enqueue" => FilesIn(live', b) \subseteq FilesIn(live, b)
    PROVE  BatchesInv'
<1>1. TypeOK
  BY DEF BatchesInv
<1>2. ASSUME NEW b \in Batch
      PROVE  /\ books'[b] \in Book
             /\ NoRow(books'[b]) /\ books'[b].outcome = books[b].outcome /\ books'[b].end = books[b].end
             /\ books'[b].kind = books[b].kind /\ books'[b].written = books[b].written
             /\ books'[b].files = books[b].files
  <2>1. PICK book, r : book = books[b] /\ r = books'[b]
    OBVIOUS
  <2>2. book \in Book /\ r = Forgotten(book)
    BY <1>1, <2>1 DEF TypeOK
  <2>3. /\ r \in Book /\ NoRow(r) /\ r.outcome = book.outcome /\ r.end = book.end
        /\ r.kind = book.kind /\ r.written = book.written /\ r.files = book.files
    BY <2>2, ForgottenGives
  <2> QED
    BY <2>1, <2>3
<1>3. TypeOK'
  <2>1. books' \in [Batch -> Book]
    BY <1>2
  <2>2. << >> \in Seq(Entry) /\ Len(<< >>) <= MaxHealth
    BY NumberAssumption
  <2>3. deaths' \in 0..MaxDeaths
    BY <1>1, NumberAssumption DEF Die, TypeOK
  <2> QED
    BY <1>1, <2>1, <2>2, <2>3 DEF Die, TypeOK
<1>4. MemoryTrue'
  BY <1>2 DEF Die, MemoryTrue
<1> QED
  BY <1>2, <1>3, <1>4, ForgetfulStep DEF Die

LEMMA CrashKeeps == BatchesInv /\ Crash => BatchesInv'
  BY DieKeeps DEF Crash, BatchesInv, TypeOK

LEMMA CrashInSettleKeeps ==
    ASSUME NEW t \in TaskOf, NEW r \in Reason, BatchesInv, CrashInSettle(t, r)
    PROVE  BatchesInv'
<1>1. live' = live \ {t} /\ live \in SUBSET TaskOf
  BY DEF CrashInSettle, BatchesInv, TypeOK
<1>2. \A b \in Batch : FilesIn(live', b) \subseteq FilesIn(live, b)
  BY <1>1, FilesInSets
<1> QED
  BY <1>1, <1>2, DieKeeps DEF CrashInSettle

LEMMA CrashInEnqueueKeeps == BatchesInv /\ CrashInEnqueue => BatchesInv'
<1> SUFFICES ASSUME BatchesInv, CrashInEnqueue PROVE BatchesInv'
  OBVIOUS
<1>1. PICK files \in SUBSET Fresh(clicked) : live' = live \cup TasksOf(clicked, files)
  BY DEF CrashInEnqueue
<1>2. clicked \in Batch /\ books[clicked] \in Book /\ live \in SUBSET TaskOf
  BY DEF BatchesInv, TypeOK
<1>3. files \in SUBSET File
  BY <1>2, BookFields DEF Fresh
<1>4. live' \in SUBSET TaskOf
  BY <1>1, <1>2, <1>3 DEF TasksOf, TaskOf
<1>5. \A b \in Batch : b # clicked => FilesIn(live', b) \subseteq FilesIn(live, b)
  BY <1>1 DEF FilesIn, TasksOf
<1> QED
  BY <1>4, <1>5, DieKeeps DEF CrashInEnqueue

LEMMA BootKeeps == BatchesInv /\ Boot => BatchesInv'
<1> SUFFICES ASSUME BatchesInv, Boot PROVE BatchesInv'
  OBVIOUS
<1>1. PICK dropped \in SUBSET live : live' = live \ dropped /\ pending' = live \ dropped
  BY DEF Boot
<1>2. /\ stage = "down" /\ stage' = "idle"
      /\ UNCHANGED <<books, running, clicked, queued, health, deaths>>
  BY DEF Boot
<1>3. TypeOK /\ running = {} /\ health = << >> /\ \A b \in Batch : NoRow(books[b])
  BY <1>2 DEF BatchesInv, MemoryTrue
<1>4. TypeOK'
  BY <1>1, <1>2, <1>3 DEF TypeOK
<1>5. MemoryTrue'
  BY <1>1, <1>2, <1>3 DEF MemoryTrue
<1>6. \A b \in Batch : FilesIn(live', b) \subseteq FilesIn(live, b)
  BY <1>1, FilesInSets
<1> QED
  BY <1>2, <1>3, <1>4, <1>5, <1>6, ForgetfulStep

-----------------------------------------------------------------------------
(* The steps of the queue.                                                    *)

LEMMA UnwrittenHasNothing ==
    ASSUME BatchesInv, NEW b \in Batch, ~books[b].written
    PROVE  /\ FilesIn(live, b) = {} /\ NoRow(books[b])
           /\ \A i \in DOMAIN health : health[i].batch # b
  BY DEF BatchesInv, UnaskedUntouched, Unasked, Untouched

\* A drain of pending tasks between two clicks.
LEMMA DrainGives ==
    ASSUME BatchesInv, stage = "idle", NEW gone \in SUBSET pending, NEW bs, bs = Halted(books, gone)
    PROVE  /\ bs \in [Batch -> Book] /\ BooksTrue(bs, live \ gone, queued)
           /\ \A b \in Batch :
                /\ bs[b].kind = books[b].kind /\ bs[b].written = books[b].written
                /\ bs[b].files = books[b].files
                /\ ~books[b].written => bs[b] = books[b]
<1>1. /\ books \in [Batch -> Book] /\ live \in SUBSET TaskOf /\ gone \in SUBSET live
      /\ queued \in [Batch -> Nat] /\ BooksTrue(books, live, queued)
  BY DEF BatchesInv, TypeOK, MemoryTrue
<1>2. Drained(books, live, gone, queued, bs)
  BY <1>1, HaltedKeeps
<1>3. ASSUME NEW b \in Batch, ~books[b].written PROVE bs[b] = books[b]
  <2>1. FilesIn(live, b) = {}
    BY <1>3, UnwrittenHasNothing
  <2>2. FilesIn(gone, b) = {}
    BY <1>1, <2>1 DEF FilesIn
  <2> QED
    BY <1>2, <2>2 DEF Drained
<1> QED
  BY <1>2, <1>3 DEF Drained

\* What the drain leaves in memory.
LEMMA DrainMemory ==
    ASSUME BatchesInv, stage = "idle", stage' = "idle", NEW gone \in SUBSET pending,
           pending' = pending \ gone, live' = live \ gone, UNCHANGED <<running, health, deaths>>
    PROVE  /\ pending' \subseteq TaskOf /\ live' \subseteq TaskOf /\ live' \subseteq live
           /\ MemoryTrue' /\ BudgetsTrue'
<1>1. /\ pending \subseteq TaskOf /\ live \subseteq TaskOf
      /\ live = pending \cup running /\ pending \cap running = {}
  BY DEF BatchesInv, TypeOK, MemoryTrue
<1>2. MemoryTrue'
  BY <1>1 DEF MemoryTrue
<1>3. BudgetsTrue'
  BY DEF BatchesInv, BudgetsTrue, Of
<1> QED
  BY <1>1, <1>2, <1>3

LEMMA TripKeeps == BatchesInv /\ Trip => BatchesInv'
<1> SUFFICES ASSUME BatchesInv, Trip PROVE BatchesInv'
  OBVIOUS
<1>1. PICK gone \in SUBSET pending :
        books' = Halted(books, gone) /\ pending' = pending \ gone /\ live' = live \ gone
  BY DEF Trip, Doomed
<1>2. stage = "idle" /\ UNCHANGED <<running, stage, clicked, queued, health, deaths>>
  BY DEF Trip
<1>3. /\ books' \in [Batch -> Book] /\ BooksTrue(books', live', queued)
      /\ \A b \in Batch :
           /\ books'[b].kind = books[b].kind /\ books'[b].written = books[b].written
           /\ books'[b].files = books[b].files
           /\ ~books[b].written => books'[b] = books[b]
  BY <1>1, <1>2, DrainGives
<1>4. /\ pending' \subseteq TaskOf /\ live' \subseteq TaskOf /\ live' \subseteq live
      /\ MemoryTrue' /\ BudgetsTrue'
  BY <1>1, <1>2, DrainMemory
<1>5. TypeOK'
  BY <1>2, <1>3, <1>4 DEF BatchesInv, TypeOK
<1>6. \A b \in Batch : ~books[b].written =>
        books'[b] = books[b] /\ \A i \in DOMAIN health' : health'[i].batch # b
  BY <1>2, <1>3, UnwrittenHasNothing
<1> QED
  BY <1>2, <1>3, <1>4, <1>5, <1>6, IdleStep

\* The stopped row is finished if nothing of it is out.
Stopped(book) ==
    [book EXCEPT !.finished = @ \/ (book.opened /\ RowSettled(book) >= book.total)]

LEMMA StoppedKeeps ==
    ASSUME NEW book \in Book, NEW out, NEW taken, BookTrue(book, out, taken),
           NEW r, r = Stopped(book)
    PROVE  /\ r \in Book /\ BookTrue(r, out, taken)
           /\ r.kind = book.kind /\ r.written = book.written /\ r.files = book.files
           /\ NoRow(book) => r = book
<1> DEFINE d == book.finished \/ (book.opened /\ RowSettled(book) >= book.total)
<1>1. d \in BOOLEAN /\ r = [book EXCEPT !.finished = d]
  BY DEF Stopped
<1>2. NoRow(book) => r = book
  <2>1. ASSUME NoRow(book) PROVE d = book.finished
    BY <2>1, BookFields DEF NoRow
  <2> HIDE DEF d
  <2> QED
    BY <1>1, <2>1 DEF Book
<1>3. d => book.opened /\ RowSettled(book) >= book.total
  BY DEF BookTrue, RowTrue
<1> HIDE DEF d
<1>4. /\ r \in Book /\ r.finished = d
      /\ r.outcome = book.outcome /\ r.end = book.end
      /\ r.opened = book.opened /\ r.total = book.total /\ r.count = book.count
      /\ r.tracked = book.tracked /\ r.left = book.left /\ r.halts = book.halts
      /\ r.kind = book.kind /\ r.written = book.written /\ r.files = book.files
  BY <1>1 DEF Book
<1>5. /\ Noted(r) = Noted(book) /\ (HasHalted(r) <=> HasHalted(book))
      /\ RowSettled(r) = RowSettled(book)
  BY <1>4 DEF Noted, HasHalted, RowSettled
<1>6. \A x \in State : InState(r, x) = InState(book, x)
  BY <1>4, <1>5 DEF InState
<1>7. RowTrue(r, out)
  <2>1. r.finished => r.opened /\ RowSettled(r) >= r.total
    BY <1>3, <1>4, <1>5
  <2>2. ASSUME r.opened
        PROVE  /\ RowSettled(r) + Cardinality(out) <= r.total
               /\ r.kind = "transcribe" => RowSettled(r) + Cardinality(out) = r.total
               /\ r.kind # "describe" => \A x \in State : r.count[x] = Cardinality(InState(r, x))
    <3>1. book.opened
      BY <1>4, <2>2
    <3> QED
      BY <1>4, <1>5, <1>6, <3>1 DEF BookTrue, RowTrue
  <2> QED
    BY <2>1, <2>2 DEF RowTrue
<1>8. TallyTrue(r, out, taken)
  BY <1>4, <1>5 DEF BookTrue, TallyTrue, Accounted
<1>9. ManifestTrue(r, out, taken)
  BY <1>4, <1>5 DEF BookTrue, ManifestTrue, Accounted
<1> QED
  BY <1>2, <1>4, <1>7, <1>8, <1>9 DEF BookTrue

LEMMA StopBatchKeeps ==
    ASSUME NEW b \in Batch, BatchesInv, StopBatch(b)
    PROVE  BatchesInv'
<1>1. PICK gone, bs :
        /\ gone \in SUBSET pending /\ bs = Halted(books, gone)
        /\ books' = [bs EXCEPT ![b].finished = @ \/ (bs[b].opened /\ RowSettled(bs[b]) >= bs[b].total)]
        /\ pending' = pending \ gone /\ live' = live \ gone
  BY DEF StopBatch
<1>2. stage = "idle" /\ UNCHANGED <<running, stage, clicked, queued, health, deaths>>
  BY DEF StopBatch
<1>3. /\ bs \in [Batch -> Book] /\ BooksTrue(bs, live', queued)
      /\ \A c \in Batch :
           /\ bs[c].kind = books[c].kind /\ bs[c].written = books[c].written
           /\ bs[c].files = books[c].files
           /\ ~books[c].written => bs[c] = books[c]
  BY <1>1, <1>2, DrainGives
<1>4. /\ pending' \subseteq TaskOf /\ live' \subseteq TaskOf /\ live' \subseteq live
      /\ MemoryTrue' /\ BudgetsTrue'
  BY <1>1, <1>2, DrainMemory
<1>5. /\ books'[b] = Stopped(bs[b])
      /\ \A c \in Batch : c # b => books'[c] = bs[c]
      /\ DOMAIN books' = Batch
  BY <1>1, <1>3 DEF Stopped
<1>6. ASSUME NEW c \in Batch
      PROVE  /\ books'[c] \in Book /\ BookTrue(books'[c], FilesIn(live', c), queued[c])
             /\ books'[c].kind = books[c].kind /\ books'[c].written = books[c].written
             /\ books'[c].files = books[c].files
             /\ ~books[c].written => books'[c] = books[c]
  <2>1. bs[c] \in Book /\ BookTrue(bs[c], FilesIn(live', c), queued[c])
    BY <1>3 DEF BooksTrue
  <2>2. CASE c # b
    BY <1>3, <1>5, <2>1, <2>2
  <2>3. CASE c = b
    <3>1. PICK book, r, out : book = bs[c] /\ r = books'[c] /\ out = FilesIn(live', c)
      OBVIOUS
    <3>2. /\ r \in Book /\ BookTrue(r, out, queued[c])
          /\ r.kind = book.kind /\ r.written = book.written /\ r.files = book.files
          /\ NoRow(book) => r = book
      BY <1>5, <2>1, <2>3, <3>1, StoppedKeeps
    <3>3. ~books[c].written => NoRow(book)
      BY <1>3, <3>1, UnwrittenHasNothing
    <3> QED
      BY <1>3, <3>1, <3>2, <3>3
  <2> QED
    BY <2>2, <2>3
<1>7. books' \in [Batch -> Book]
  BY <1>1, <1>3, <1>5, <1>6
<1>8. BooksTrue(books', live', queued)
  BY <1>6 DEF BooksTrue
<1>9. TypeOK'
  BY <1>2, <1>4, <1>7 DEF BatchesInv, TypeOK
<1>10. \A c \in Batch : ~books[c].written =>
         books'[c] = books[c] /\ \A i \in DOMAIN health' : health'[i].batch # c
  BY <1>2, <1>6, UnwrittenHasNothing
<1> QED
  BY <1>2, <1>4, <1>6, <1>8, <1>9, <1>10, IdleStep

\* A batch whose budget is spent has lost its pending tasks.
LEMMA SettleBudgets ==
    ASSUME BatchesInv, NEW t \in TaskOf, NEW reason \in Reason, Settle(t, reason)
    PROVE  /\ health' \in Seq(Entry) /\ Len(health') <= MaxHealth
           /\ BudgetsTrue'
           /\ \A i \in DOMAIN health' :
                health'[i].batch = t.batch \/ \E j \in DOMAIN health : health[j] = health'[i]
<1> DEFINE b == t.batch
           gone == Exhausted(b, reason)
<1>1. /\ health \in Seq(Entry) /\ Len(health) <= MaxHealth /\ BudgetsTrue /\ b \in Batch
  BY DEF BatchesInv, TypeOK, TaskOf
<1>2. pending' = pending \ gone
  BY DEF Settle
<1>3. CASE reason = "skipped"
  <2>1. health' = health
    BY <1>3 DEF Settle
  <2> QED
    BY <1>1, <1>2, <2>1 DEF BudgetsTrue, Of
<1>4. CASE reason # "skipped"
  <2>1. PICK e, n : e = Counted(b, reason) /\ n = [e EXCEPT !.halted = @ \/ Grinding(e)]
    OBVIOUS
  <2>2. health' = WithEntry(n)
    BY <1>4, <2>1 DEF Settle
  <2>3. e \in Entry /\ e.batch = b /\ e.halted = EntryOf(b).halted
    BY <1>1, <2>1, BudgetTypes
  <2>4. n \in Entry /\ n.batch = b /\ (n.halted => e.halted \/ Grinding(e))
    <3>1. PICK h \in BOOLEAN : h = (e.halted \/ Grinding(e)) /\ n = [e EXCEPT !.halted = h]
      BY <2>1
    <3>2. n \in Entry /\ n.batch = b /\ n.halted = h
      BY <2>3, <3>1 DEF Entry
    <3> QED
      BY <3>1, <3>2
  <2>5. /\ health' \in Seq(Entry) /\ Len(health') <= MaxHealth
        /\ \A i \in DOMAIN health' : health'[i] = n \/ \E j \in DOMAIN health : health[j] = health'[i]
    BY <1>1, <2>2, <2>4, WithEntryGives
  <2>6. n.halted => Of(pending', b) = {}
    <3>1. CASE EntryOf(b).halted
      <4>1. Of(pending, b) = {}
        <5>1. PICK j \in DOMAIN health : health[j] = EntryOf(b)
          BY <1>1, <3>1, BudgetTypes
        <5>2. health[j].halted /\ health[j].batch = b
          BY <1>1, <3>1, <5>1, BudgetTypes
        <5> QED
          BY <1>1, <5>2 DEF BudgetsTrue
      <4> QED
        BY <1>2, <4>1 DEF Of
    <3>2. CASE ~EntryOf(b).halted
      <4>1. ASSUME n.halted PROVE Grinding(Counted(b, reason))
        BY <2>1, <2>3, <2>4, <3>2, <4>1
      <4>2. n.halted => gone = {u \in pending : u.batch = b}
        BY <1>4, <3>2, <4>1 DEF Exhausted
      <4> QED
        BY <1>2, <4>2 DEF Of
    <3> QED
      BY <3>1, <3>2
  <2>7. BudgetsTrue'
    <3> SUFFICES ASSUME NEW i \in DOMAIN health', health'[i].halted
                 PROVE  Of(pending', health'[i].batch) = {}
      BY DEF BudgetsTrue
    <3>1. CASE health'[i] = n
      BY <2>4, <2>6, <3>1
    <3>2. CASE \E j \in DOMAIN health : health[j] = health'[i]
      BY <1>1, <1>2, <3>2 DEF BudgetsTrue, Of
    <3> QED
      BY <2>5, <3>1, <3>2
  <2> QED
    BY <2>4, <2>5, <2>7
<1> QED
  BY <1>3, <1>4

LEMMA SettleKeeps ==
    ASSUME NEW t \in TaskOf, NEW reason \in Reason, BatchesInv, Settle(t, reason)
    PROVE  BatchesInv'
<1>1. PICK b, gone, one :
        /\ b = t.batch /\ gone = Exhausted(b, reason)
        /\ one = [books EXCEPT ![b] = Record(@, {t.file}, reason)]
        /\ books' = Halted(one, gone)
        /\ pending' = pending \ gone /\ live' = live \ ({t} \cup gone)
  BY DEF Settle
<1>2. /\ stage = "idle" /\ t \in running /\ running' = running \ {t}
      /\ UNCHANGED <<stage, clicked, queued, deaths>>
  BY DEF Settle
<1>3. /\ books \in [Batch -> Book] /\ queued \in [Batch -> Nat] /\ live \in SUBSET TaskOf
      /\ BooksTrue(books, live, queued) /\ live = pending \cup running /\ pending \cap running = {}
      /\ b \in Batch /\ t.file \in File /\ t = [batch |-> b, file |-> t.file]
  BY <1>1, <1>2 DEF BatchesInv, TypeOK, MemoryTrue, TaskOf
<1>4. PICK rest : rest = live \ {t}
  OBVIOUS
<1>5. gone \in SUBSET pending /\ gone \in SUBSET rest /\ live' = rest \ gone /\ rest \in SUBSET TaskOf
  BY <1>1, <1>2, <1>3, <1>4 DEF Exhausted
<1>6. ASSUME NEW c \in Batch
      PROVE  /\ one[c] \in Book /\ BookTrue(one[c], FilesIn(rest, c), queued[c])
             /\ one[c].kind = books[c].kind /\ one[c].written = books[c].written
             /\ one[c].files = books[c].files
             /\ c # b => one[c] = books[c]
  <2>1. PICK book, r, out, q :
          book = books[c] /\ r = one[c] /\ out = FilesIn(live, c) /\ q = queued[c]
    OBVIOUS
  <2>2. book \in Book /\ BookTrue(book, out, q) /\ q \in Nat /\ out \in SUBSET File
    BY <1>3, <2>1, FilesInSets DEF BooksTrue
  <2>3. CASE c # b
    <3>1. r = book /\ FilesIn(rest, c) = out
      BY <1>1, <1>3, <1>4, <2>1, <2>3 DEF FilesIn
    <3> QED
      BY <2>1, <2>2, <3>1
  <2>4. CASE c = b
    <3>1. r = Record(book, {t.file}, reason)
      BY <1>1, <1>3, <2>1, <2>4
    <3>2. FilesIn(rest, c) = out \ {t.file} /\ {t.file} \in SUBSET out
      BY <1>2, <1>3, <1>4, <2>1, <2>4 DEF FilesIn
    <3>3. Recorded(book, out, {t.file}, q, r)
      BY <2>2, <3>1, <3>2, RecordKeeps DEF Outcome
    <3> QED
      BY <2>1, <2>4, <3>2, <3>3 DEF Recorded
  <2> QED
    BY <2>3, <2>4
<1>7. one \in [Batch -> Book] /\ BooksTrue(one, rest, queued)
  BY <1>1, <1>3, <1>6 DEF BooksTrue
<1>8. Drained(one, rest, gone, queued, books')
  BY <1>1, <1>3, <1>5, <1>7, HaltedKeeps
<1>9. /\ books' \in [Batch -> Book] /\ BooksTrue(books', live', queued)
      /\ \A c \in Batch :
           /\ books'[c].kind = books[c].kind /\ books'[c].written = books[c].written
           /\ books'[c].files = books[c].files
  BY <1>5, <1>6, <1>8 DEF Drained
<1>10. /\ health' \in Seq(Entry) /\ Len(health') <= MaxHealth /\ BudgetsTrue'
       /\ \A i \in DOMAIN health' :
            health'[i].batch = b \/ \E j \in DOMAIN health : health[j] = health'[i]
  BY <1>1, SettleBudgets
<1>11. ASSUME NEW c \in Batch, ~books[c].written
       PROVE  books'[c] = books[c] /\ \A i \in DOMAIN health' : health'[i].batch # c
  <2>1. FilesIn(live, c) = {} /\ \A i \in DOMAIN health : health[i].batch # c
    BY <1>11, UnwrittenHasNothing
  <2>2. c # b
    BY <1>2, <1>3, <2>1 DEF FilesIn
  <2>3. FilesIn(gone, c) = {}
    BY <1>3, <1>5, <2>1 DEF FilesIn
  <2>4. books'[c] = one[c] /\ one[c] = books[c]
    BY <1>6, <1>8, <2>2, <2>3 DEF Drained
  <2> QED
    BY <1>10, <2>1, <2>2, <2>4
<1>12. TypeOK'
  BY <1>1, <1>2, <1>5, <1>9, <1>10 DEF BatchesInv, TypeOK
<1>13. MemoryTrue'
  BY <1>1, <1>2, <1>3, <1>5 DEF MemoryTrue
<1>14. live' \subseteq live
  BY <1>1
<1> QED
  BY <1>2, <1>9, <1>10, <1>11, <1>12, <1>13, <1>14, IdleStep

LEMMA StartKeeps ==
    ASSUME NEW t \in TaskOf, BatchesInv, Start(t)
    PROVE  BatchesInv'
<1>1. /\ t \in pending /\ pending' = pending \ {t} /\ running' = running \cup {t}
      /\ stage # "down" /\ UNCHANGED <<books, live, stage, clicked, queued, health, deaths>>
  BY DEF Start
<1>2. TypeOK'
  BY <1>1 DEF BatchesInv, TypeOK
<1>3. BooksTrue(books, live, queued)'
  BY <1>1 DEF BatchesInv
<1>4. UnaskedUntouched'
  BY <1>1 DEF BatchesInv, UnaskedUntouched, Unasked, Untouched, KindOf
<1>5. CountsTaken'
  BY <1>1 DEF BatchesInv, CountsTaken, KindOf
<1>6. ClickWritten'
  BY <1>1 DEF BatchesInv, ClickWritten, KindOf
<1>7. MemoryTrue'
  BY <1>1 DEF BatchesInv, MemoryTrue
<1>8. BudgetsTrue'
  BY <1>1 DEF BatchesInv, BudgetsTrue, Of
<1> QED
  BY <1>2, <1>3, <1>4, <1>5, <1>6, <1>7, <1>8 DEF BatchesInv

-----------------------------------------------------------------------------
(* The producers.                                                             *)

\* The books of the batches a step does not touch, and of the one it does.
LEMMA OneBook ==
    ASSUME BatchesInv, NEW b \in Batch, NEW r \in Book, books' = [books EXCEPT ![b] = r],
           live' = live, queued' = queued, BookTrue(r, FilesIn(live, b), queued[b])
    PROVE  /\ books' \in [Batch -> Book] /\ BooksTrue(books, live, queued)'
           /\ books'[b] = r /\ \A c \in Batch : c # b => books'[c] = books[c]
<1>1. /\ books \in [Batch -> Book] /\ BooksTrue(books, live, queued)
  BY DEF BatchesInv, TypeOK
<1>2. /\ books' \in [Batch -> Book]
      /\ books'[b] = r /\ \A c \in Batch : c # b => books'[c] = books[c]
  BY <1>1
<1>3. ASSUME NEW c \in Batch PROVE BookTrue(books'[c], FilesIn(live', c), queued'[c])
  <2>1. CASE c = b
    BY <1>2, <2>1
  <2>2. CASE c # b
    BY <1>1, <1>2, <2>2 DEF BooksTrue
  <2> QED
    BY <2>1, <2>2
<1> QED
  BY <1>2, <1>3 DEF BooksTrue

\* The manifest is written before anything is queued.
WrittenBook(book, files) == [book EXCEPT !.written = TRUE, !.files = files]

LEMMA WrittenGives ==
    ASSUME NEW book \in Book, NEW files \in SUBSET File, NEW r, r = WrittenBook(book, files)
    PROVE  /\ r \in Book /\ r.written /\ r.files = files
           /\ r.kind = book.kind /\ r.outcome = book.outcome /\ r.end = book.end
           /\ NoRow(book) => NoRow(r)
<1>1. /\ r \in Book /\ r.written = TRUE /\ r.files = files
      /\ r.kind = book.kind /\ r.outcome = book.outcome /\ r.end = book.end
  BY DEF Book, WrittenBook
<1>2. r.opened = book.opened /\ r.finished = book.finished /\ r.tracked = book.tracked
  BY DEF Book, WrittenBook
<1>3. NoRow(book) => NoRow(r)
  BY <1>2 DEF NoRow
<1> QED
  BY <1>1, <1>3

LEMMA ClickKeeps ==
    ASSUME NEW b \in Batch, NEW files \in SUBSET File, BatchesInv, Click(b, files)
    PROVE  BatchesInv'
<1>1. /\ stage = "idle" /\ ~books[b].written /\ (KindOf(b) = "compress" => files # {})
      /\ clicked' = b /\ stage' = IF KindOf(b) = "compress" THEN "open" ELSE "enqueue"
      /\ UNCHANGED <<live, pending, running, queued, health, deaths>>
  BY DEF Click
<1>2. books \in [Batch -> Book] /\ books[b] \in Book
  BY DEF BatchesInv, TypeOK
<1>3. PICK book, r : book = books[b] /\ r = WrittenBook(book, files)
  OBVIOUS
<1>4. books' = [books EXCEPT ![b] = r]
  BY <1>2, <1>3 DEF Click, WrittenBook
<1>5. Untouched(b)
  BY <1>1 DEF BatchesInv, UnaskedUntouched, Unasked
<1>6. NoRow(book)
  BY <1>1, <1>3, <1>5 DEF Untouched
<1>7. /\ r \in Book /\ r.written /\ r.files = files
      /\ r.kind = book.kind /\ r.outcome = book.outcome /\ r.end = book.end /\ NoRow(r)
  BY <1>2, <1>3, <1>6, WrittenGives
<1>8. BookTrue(r, FilesIn(live, b), queued[b])
  <2>1. BookTrue(book, FilesIn(live, b), queued[b]) /\ FilesIn(live, b) \in SUBSET FilesIn(live, b)
    BY <1>3 DEF BatchesInv, BooksTrue
  <2> QED
    BY <1>7, <2>1, ForgottenKeeps
<1>9. /\ books' \in [Batch -> Book] /\ BooksTrue(books, live, queued)'
      /\ books'[b] = r /\ \A c \in Batch : c # b => books'[c] = books[c]
  BY <1>1, <1>4, <1>7, <1>8, OneBook
<1>10. TypeOK'
  BY <1>1, <1>9 DEF BatchesInv, TypeOK
<1>11. UnaskedUntouched'
  <2> SUFFICES ASSUME NEW c \in Batch, Unasked(c)' PROVE Untouched(c)'
    BY DEF UnaskedUntouched
  <2>1. CASE c = b
    <3>1. Noted(r) = Noted(book)
      BY <1>7 DEF Noted
    <3>2. ~(KindOf(b)' = "compress" /\ stage' = "enqueue")
      BY <1>1, <1>3, <1>7, <1>9 DEF KindOf
    <3> QED
      BY <1>1, <1>3, <1>5, <1>7, <1>9, <2>1, <3>1, <3>2 DEF Untouched
  <2>2. CASE c # b
    <3>1. ~books[c].written /\ books'[c] = books[c]
      BY <1>1, <1>9, <2>2 DEF Unasked
    <3>2. Untouched(c)
      BY <3>1 DEF BatchesInv, UnaskedUntouched, Unasked
    <3> QED
      BY <1>1, <3>1, <3>2 DEF Untouched
  <2> QED
    BY <2>1, <2>2
<1>12. CountsTaken'
  <2>1. KindOf(clicked)' = KindOf(b)
    BY <1>1, <1>3, <1>7, <1>9 DEF KindOf
  <2> QED
    BY <1>1, <2>1 DEF CountsTaken
<1>13. ClickWritten'
  <2>1. books'[clicked'].written
    BY <1>1, <1>7, <1>9
  <2>2. ASSUME NEW c \in Batch, books'[c].written, KindOf(c)' = "compress" PROVE books'[c].files # {}
    <3>1. CASE c = b
      BY <1>1, <1>3, <1>7, <1>9, <2>2, <3>1 DEF KindOf
    <3>2. CASE c # b
      BY <1>9, <2>2, <3>2 DEF KindOf, BatchesInv, ClickWritten
    <3> QED
      BY <3>1, <3>2
  <2> QED
    BY <2>1, <2>2 DEF ClickWritten
<1>14. MemoryTrue'
  BY <1>1 DEF BatchesInv, MemoryTrue
<1>15. BudgetsTrue'
  BY <1>1 DEF BatchesInv, BudgetsTrue
<1> QED
  BY <1>9, <1>10, <1>11, <1>12, <1>13, <1>14, <1>15 DEF BatchesInv

\* createBatch and trackBatch, field by field.
LEMMA OpenedGives ==
    ASSUME NEW book \in Book, ~book.tracked, NEW total \in Nat, NEW r, r = Opened(book, total)
    PROVE  /\ r \in Book /\ r.opened /\ ~r.finished /\ r.total = total
           /\ RowSettled(r) = 0 /\ \A s \in State : r.count[s] = 0
           /\ r.tracked => total > 0
           /\ total > 0 => r.tracked /\ r.left = total /\ r.halts = 0
           /\ r.outcome = book.outcome /\ r.end = book.end
           /\ r.kind = book.kind /\ r.written = book.written /\ r.files = book.files
<1>1. PICK zero, tracked, left, halts :
        /\ zero = [s \in State |-> 0]
        /\ tracked = (book.tracked \/ total > 0)
        /\ left = IF total > 0 THEN total ELSE book.left
        /\ halts = IF total > 0 THEN 0 ELSE book.halts
  OBVIOUS
<1>2. /\ zero \in [State -> Nat] /\ \A s \in State : zero[s] = 0
      /\ tracked \in BOOLEAN /\ left \in Nat /\ halts \in Nat
  BY <1>1, BookFields
<1>3. r = [book EXCEPT !.opened = TRUE, !.total = total, !.finished = FALSE, !.count = zero,
                       !.tracked = tracked, !.left = left, !.halts = halts]
  BY <1>1 DEF Opened
<1>4. r \in Book
  BY <1>2, <1>3 DEF Book
<1>5. r.opened = TRUE /\ r.total = total /\ r.finished = FALSE /\ r.count = zero
  BY <1>3 DEF Book
<1>6. r.tracked = tracked /\ r.left = left /\ r.halts = halts
  BY <1>3 DEF Book
<1>7. /\ r.outcome = book.outcome /\ r.end = book.end
      /\ r.kind = book.kind /\ r.written = book.written /\ r.files = book.files
  BY <1>3 DEF Book
<1>8. RowSettled(r) = 0
  BY <1>2, <1>5 DEF RowSettled, State
<1>9. /\ r.tracked => total > 0
      /\ total > 0 => r.tracked /\ r.left = total /\ r.halts = 0
  BY <1>1, <1>6
<1> QED
  BY <1>2, <1>4, <1>5, <1>7, <1>8, <1>9

LEMMA OpenedKeeps ==
    ASSUME NEW book \in Book, ~book.tracked, book.end = "open",
           NEW out \in SUBSET File, NEW taken \in Nat, NEW total \in Nat,
           BookTrue(book, out, taken), Accounted(book, out, taken),
           Cardinality(out) <= total,
           book.kind = "transcribe" => Cardinality(out) = total,
           book.kind # "describe" \/ Cardinality(out) = total => Noted(book) = {},
           NEW r, r = Opened(book, total)
    PROVE  BookTrue(r, out, taken)
<1>1. /\ r \in Book /\ r.opened /\ ~r.finished /\ r.total = total
      /\ RowSettled(r) = 0 /\ \A s \in State : r.count[s] = 0
      /\ r.tracked => total > 0
      /\ total > 0 => r.tracked /\ r.left = total /\ r.halts = 0
      /\ r.outcome = book.outcome /\ r.end = book.end
      /\ r.kind = book.kind
  BY OpenedGives
<1>2. /\ Noted(r) = Noted(book)
      /\ Cardinality(out) \in Nat /\ Cardinality({}) = 0
  BY <1>1, FilesFinite, FS_EmptySet DEF Noted
<1>3. \A s \in State : InState(r, s) \subseteq Noted(r)
  BY DEF InState
<1>4. RowTrue(r, out)
  <2>1. RowSettled(r) + Cardinality(out) <= r.total
    BY <1>1, <1>2
  <2>2. r.kind = "transcribe" => RowSettled(r) + Cardinality(out) = r.total
    BY <1>1, <1>2
  <2>3. ASSUME r.kind # "describe", NEW s \in State PROVE r.count[s] = Cardinality(InState(r, s))
    <3>1. Noted(r) = {}
      BY <1>1, <1>2, <2>3
    <3>2. InState(r, s) = {}
      BY <1>3, <3>1
    <3> QED
      BY <1>1, <1>2, <3>2
  <2> QED
    BY <1>1, <2>1, <2>2, <2>3 DEF RowTrue
<1>5. TallyTrue(r, out, taken)
  <2> SUFFICES ASSUME r.tracked PROVE TallyTrue(r, out, taken)
    BY DEF TallyTrue
  <2>1. r.end = "open" /\ r.left >= 1 /\ r.left >= Cardinality(out) /\ r.left = total /\ r.halts = 0
    BY <1>1, <1>2
  <2>2. Accounted(r, out, taken)
    BY <1>2 DEF Accounted
  <2>3. Cardinality(out) = total => ~HasHalted(r)
    BY <1>1, <1>2 DEF HasHalted, Noted, NoOutcome
  <2>4. r.left > Cardinality(out) \/ (r.halts > 0 <=> HasHalted(r))
    BY <1>2, <2>1, <2>3
  <2> QED
    BY <2>1, <2>2, <2>4 DEF TallyTrue
<1>6. ManifestTrue(r, out, taken)
  BY <1>1 DEF BookTrue, ManifestTrue
<1> QED
  BY <1>4, <1>5, <1>6 DEF BookTrue

LEMMA OpenKeeps == BatchesInv /\ Open => BatchesInv'
<1> SUFFICES ASSUME BatchesInv, Open PROVE BatchesInv'
  OBVIOUS
<1>1. PICK b, book, out, q, total, r :
        /\ b = clicked /\ book = books[b] /\ out = FilesIn(live, b) /\ q = queued[b]
        /\ total = IF KindOf(clicked) = "compress" THEN Cardinality(books[clicked].files)
                                                   ELSE queued[clicked]
        /\ r = Opened(book, total)
  OBVIOUS
<1>2. /\ stage = "open" /\ stage' = IF KindOf(b) = "compress" THEN "enqueue" ELSE "idle"
      /\ UNCHANGED <<live, pending, running, clicked, queued, health, deaths>>
  BY <1>1 DEF Open
<1>3. /\ b \in Batch /\ books \in [Batch -> Book] /\ book \in Book /\ q \in Nat /\ book.kind = KindOf(b)
      /\ BookTrue(book, out, q) /\ book.written /\ (KindOf(b) = "compress" => book.files # {})
  BY <1>1, <1>2 DEF BatchesInv, TypeOK, BooksTrue, ClickWritten, KindOf
<1>4. books' = [books EXCEPT ![b] = r]
  BY <1>1, <1>3 DEF Open
<1>5. out \in SUBSET File /\ Cardinality(out) \in Nat
  BY <1>1, FilesInSets, FilesFinite
<1>6. total \in Nat /\ (KindOf(b) = "compress" => total > 0 /\ total = Cardinality(book.files))
  BY <1>1, <1>3, BookFields, FilesFinite, NoFiles
<1>7. ASSUME KindOf(b) = "compress" PROVE Untouched(b)
  <2>1. Unasked(b)
    BY <1>1, <1>2, <1>7 DEF Unasked
  <2> QED
    BY <1>3, <2>1 DEF BatchesInv, UnaskedUntouched
<1>8. KindOf(b) # "compress" => Counting(book, out, q) /\ total = q
  BY <1>1, <1>2 DEF BatchesInv, CountsTaken
<1>9. ~book.tracked /\ book.end = "open"
  BY <1>1, <1>2, <1>7, <1>8 DEF Untouched, NoRow, Counting
<1>10. /\ Accounted(book, out, q) /\ Cardinality(out) <= total
       /\ book.kind = "transcribe" => Cardinality(out) = total
       /\ book.kind # "describe" \/ Cardinality(out) = total => Noted(book) = {}
  <2>1. CASE KindOf(b) = "compress"
    <3>1. out = {} /\ Noted(book) = {} /\ q = 0
      BY <1>1, <1>7, <2>1 DEF Untouched
    <3>2. Cardinality({}) = 0
      BY FS_EmptySet
    <3> QED
      BY <1>3, <1>6, <2>1, <3>1, <3>2 DEF Accounted
  <2>2. CASE KindOf(b) # "compress"
    <3>1. /\ Cardinality(Noted(book)) + Cardinality(out) = total /\ Accounted(book, out, q)
          /\ book.kind # "describe" => Noted(book) = {}
      BY <1>8, <2>2 DEF Counting, Accounted
    <3>2. Cardinality(Noted(book)) \in Nat /\ (Cardinality(Noted(book)) = 0 <=> Noted(book) = {})
      BY NotedFinite, NoFiles
    <3>3. Cardinality(out) <= total /\ (Cardinality(out) = total <=> Cardinality(Noted(book)) = 0)
      BY <1>5, <3>1, <3>2
    <3> QED
      BY <3>1, <3>2, <3>3
  <2> QED
    BY <2>1, <2>2
<1>11. BookTrue(r, out, q)
  BY <1>1, <1>3, <1>5, <1>6, <1>9, <1>10, OpenedKeeps
<1>12. /\ r \in Book /\ r.opened /\ ~r.finished /\ r.total = total
       /\ RowSettled(r) = 0 /\ \A s \in State : r.count[s] = 0
       /\ r.tracked => total > 0
       /\ total > 0 => r.tracked /\ r.left = total /\ r.halts = 0
       /\ r.outcome = book.outcome /\ r.end = book.end
       /\ r.kind = book.kind /\ r.written = book.written /\ r.files = book.files
  <2>1. r = Opened(book, total) /\ book \in Book /\ ~book.tracked /\ total \in Nat
    BY <1>1, <1>3, <1>6, <1>9
  <2> QED
    BY <2>1, OpenedGives
<1>13. /\ books' \in [Batch -> Book] /\ BooksTrue(books, live, queued)'
       /\ books'[b] = r /\ \A c \in Batch : c # b => books'[c] = books[c]
  BY <1>1, <1>2, <1>3, <1>4, <1>11, <1>12, OneBook
<1>14. TypeOK'
  BY <1>2, <1>13 DEF BatchesInv, TypeOK
<1>15. UnaskedUntouched'
  <2> SUFFICES ASSUME NEW c \in Batch, Unasked(c)' PROVE Untouched(c)'
    BY DEF UnaskedUntouched
  <2>1. CASE c = b
    <3>1. r.written /\ KindOf(b)' = KindOf(b)
      BY <1>3, <1>12, <1>13 DEF KindOf
    <3>2. KindOf(b) = "compress" /\ stage' = "enqueue"
      BY <1>1, <1>2, <1>13, <2>1, <3>1 DEF Unasked
    <3>3. AskedRow(r)
      BY <1>6, <1>12, <3>2 DEF AskedRow
    <3>4. Noted(r) = Noted(book)
      BY <1>12 DEF Noted
    <3>5. Untouched(b)
      BY <1>7, <3>2
    <3> QED
      BY <1>1, <1>2, <1>12, <1>13, <2>1, <3>1, <3>2, <3>3, <3>4, <3>5 DEF Untouched
  <2>2. CASE c # b
    <3>1. ~books[c].written /\ books'[c] = books[c]
      BY <1>1, <1>2, <1>13, <2>2 DEF Unasked
    <3>2. Untouched(c)
      BY <3>1 DEF BatchesInv, UnaskedUntouched, Unasked
    <3> QED
      BY <1>2, <3>1, <3>2 DEF Untouched
  <2> QED
    BY <2>1, <2>2
<1>16. CountsTaken'
  BY <1>2 DEF CountsTaken
<1>17. ClickWritten'
  <2>1. \A c \in Batch : /\ books'[c].kind = books[c].kind /\ books'[c].files = books[c].files
                         /\ books'[c].written = books[c].written
    BY <1>1, <1>12, <1>13
  <2> QED
    BY <1>1, <1>2, <1>3, <2>1 DEF BatchesInv, ClickWritten, KindOf
<1>18. MemoryTrue'
  BY <1>2 DEF BatchesInv, MemoryTrue
<1>19. BudgetsTrue'
  BY <1>2 DEF BatchesInv, BudgetsTrue
<1> QED
  BY <1>13, <1>14, <1>15, <1>16, <1>17, <1>18, <1>19 DEF BatchesInv

\* A batch whose files have just been taken by the queue.
LEMMA TakenKeeps ==
    ASSUME NEW book \in Book, NEW files \in SUBSET File, Noted(book) = {}, book.end = "open",
           NoRow(book) \/ (book.kind = "compress" /\ book.files # {} /\ files \subseteq book.files
                          /\ AskedRow(book))
    PROVE  BookTrue(book, files, Cardinality(files)) /\ Accounted(book, files, Cardinality(files))
<1>1. /\ Cardinality({}) = 0 /\ Cardinality(files) \in Nat
      /\ book.files \in SUBSET File /\ book.count \in [State -> Nat]
  BY FilesFinite, FS_EmptySet, BookFields
<1>2. Accounted(book, files, Cardinality(files))
  BY <1>1 DEF Accounted
<1>3. ~HasHalted(book) /\ (\A f \in File : book.outcome[f] = NoOutcome)
      /\ \A s \in State : Cardinality(InState(book, s)) = 0
  <2>1. \A f \in File : book.outcome[f] = NoOutcome
    BY DEF Noted
  <2>2. \A s \in State : InState(book, s) = {}
    BY DEF InState
  <2> QED
    BY <1>1, <2>1, <2>2 DEF HasHalted, NoOutcome
<1>4. ManifestTrue(book, files, Cardinality(files))
  BY <1>3 DEF ManifestTrue
<1>5. CASE NoRow(book)
  BY <1>2, <1>4, <1>5 DEF NoRow, BookTrue, RowTrue, TallyTrue
<1>6. CASE book.kind = "compress" /\ book.files # {} /\ files \subseteq book.files /\ AskedRow(book)
  <2>1. /\ book.total = Cardinality(book.files) /\ Cardinality(book.files) \in Nat \ {0}
        /\ Cardinality(files) <= Cardinality(book.files)
    <3>1. Cardinality(files) <= Cardinality(book.files) /\ Cardinality(book.files) \in Nat
      BY <1>1, <1>6, CountDifference
    <3> QED
      BY <1>1, <1>6, <3>1, NoFiles DEF AskedRow
  <2>2. \A s \in State : book.count[s] = 0
    <3>1. PICK i, j, k, l :
            /\ i = book.count.ok /\ j = book.count.rejected
            /\ k = book.count.failed /\ l = book.count.halted
      OBVIOUS
    <3>2. i \in Nat /\ j \in Nat /\ k \in Nat /\ l \in Nat
      BY <1>1, <3>1 DEF State
    <3>3. i + j + k + l = 0
      BY <1>6, <3>1 DEF AskedRow, RowSettled
    <3>4. i = 0 /\ j = 0 /\ k = 0 /\ l = 0
      BY <3>2, <3>3
    <3> QED
      BY <3>1, <3>4 DEF State
  <2>3. RowTrue(book, files)
    BY <1>1, <1>3, <1>6, <2>1, <2>2 DEF AskedRow, RowTrue
  <2>4. TallyTrue(book, files, Cardinality(files))
    BY <1>1, <1>2, <1>3, <1>6, <2>1 DEF AskedRow, TallyTrue
  <2> QED
    BY <1>2, <1>4, <2>3, <2>4 DEF BookTrue
<1> QED
  BY <1>5, <1>6

LEMMA EnqueueKeeps == BatchesInv /\ Enqueue => BatchesInv'
<1> SUFFICES ASSUME BatchesInv, Enqueue PROVE BatchesInv'
  OBVIOUS
<1>1. PICK files \in SUBSET Fresh(clicked), tripped \in BOOLEAN :
        LET taken == TasksOf(clicked, files)
            gone  == Doomed(pending \cup taken, tripped)
        IN  /\ queued' = [queued EXCEPT ![clicked] = Cardinality(files)]
            /\ pending' = (pending \cup taken) \ gone
            /\ live' = (live \cup taken) \ gone
            /\ books' = Halted(books, gone)
  BY DEF Enqueue
<1>2. PICK b, taken, gone, tasks :
        /\ b = clicked /\ taken = TasksOf(b, files) /\ gone = Doomed(pending \cup taken, tripped)
        /\ tasks = live \cup taken
  OBVIOUS
<1>3. /\ queued' = [queued EXCEPT ![b] = Cardinality(files)]
      /\ pending' = (pending \cup taken) \ gone
      /\ live' = tasks \ gone /\ books' = Halted(books, gone)
  BY <1>1, <1>2
<1>4. /\ stage = "enqueue" /\ stage' = IF KindOf(b) = "compress" THEN "idle" ELSE "open"
      /\ UNCHANGED <<running, clicked, health, deaths>>
  BY <1>2 DEF Enqueue
<1>5. /\ b \in Batch /\ books \in [Batch -> Book] /\ queued \in [Batch -> Nat]
      /\ live \subseteq TaskOf /\ pending \subseteq TaskOf /\ BooksTrue(books, live, queued)
      /\ live = pending \cup running /\ pending \cap running = {}
      /\ books[b].written /\ (KindOf(b) = "compress" => books[b].files # {})
  BY <1>2, <1>4 DEF BatchesInv, TypeOK, MemoryTrue, ClickWritten
<1>6. files \subseteq books[b].files /\ files \in SUBSET File /\ Cardinality(files) \in Nat
  BY <1>2, <1>5, BookFields, FilesFinite DEF Fresh
<1>7. Untouched(b)
  BY <1>2, <1>4, <1>5 DEF BatchesInv, UnaskedUntouched, Unasked
<1>8. /\ taken \subseteq TaskOf /\ tasks \subseteq TaskOf /\ gone \in SUBSET tasks
      /\ gone \subseteq pending \cup taken
      /\ \A u \in gone : KindOf(u.batch) = "describe"
  <2>1. taken \subseteq TaskOf
    BY <1>2, <1>5, <1>6 DEF TasksOf, TaskOf
  <2>2. gone \subseteq pending \cup taken /\ \A u \in gone : KindOf(u.batch) = "describe"
    BY <1>2 DEF Doomed
  <2> QED
    BY <1>2, <1>5, <2>1, <2>2
<1>9. /\ FilesIn(tasks, b) = files
      /\ \A c \in Batch : c # b => FilesIn(tasks, c) = FilesIn(live, c)
  <2>1. FilesIn(live, b) = {}
    BY <1>7 DEF Untouched
  <2> QED
    BY <1>2, <1>6, <2>1 DEF FilesIn, TasksOf
<1>10. /\ queued' \in [Batch -> Nat] /\ queued'[b] = Cardinality(files)
       /\ \A c \in Batch : c # b => queued'[c] = queued[c]
  BY <1>3, <1>5, <1>6
<1>11. BookTrue(books[b], files, queued'[b]) /\ Accounted(books[b], files, queued'[b])
  <2>1. PICK book : book = books[b]
    OBVIOUS
  <2>2. /\ book \in Book /\ Noted(book) = {} /\ book.end = "open"
        /\ NoRow(book) \/ (book.kind = "compress" /\ book.files # {} /\ files \subseteq book.files
                           /\ AskedRow(book))
    BY <1>5, <1>6, <1>7, <2>1 DEF Untouched, KindOf
  <2>3. /\ BookTrue(book, files, Cardinality(files))
        /\ Accounted(book, files, Cardinality(files))
    BY <1>6, <2>2, TakenKeeps
  <2> QED
    BY <1>10, <2>1, <2>3
<1>12. BooksTrue(books, tasks, queued')
  BY <1>5, <1>9, <1>10, <1>11 DEF BooksTrue
<1>13. Drained(books, tasks, gone, queued', books')
  BY <1>3, <1>5, <1>8, <1>10, <1>12, HaltedKeeps
<1>14. /\ books' \in [Batch -> Book] /\ BooksTrue(books', live', queued')
       /\ \A c \in Batch :
            /\ books'[c].kind = books[c].kind /\ books'[c].written = books[c].written
            /\ books'[c].files = books[c].files /\ books'[c].opened = books[c].opened
            /\ ~books[c].tracked => ~books'[c].tracked /\ books'[c].end = books[c].end
            /\ Noted(books'[c]) = Noted(books[c]) \cup FilesIn(gone, c)
            /\ FilesIn(gone, c) = {} => books'[c] = books[c]
       /\ Accounted(books'[b], FilesIn(live', b), queued'[b])
  BY <1>3, <1>5, <1>9, <1>11, <1>13 DEF Drained
<1>15. TypeOK'
  BY <1>3, <1>4, <1>5, <1>8, <1>10, <1>14 DEF BatchesInv, TypeOK
<1>16. UnaskedUntouched'
  <2> SUFFICES ASSUME NEW c \in Batch, Unasked(c)' PROVE Untouched(c)'
    BY DEF UnaskedUntouched
  <2>0. KindOf(b)' = KindOf(b)
    BY <1>5, <1>14 DEF KindOf
  <2>1. ~books[c].written
    <3>1. ~books'[c].written
      BY <1>2, <1>4, <2>0 DEF Unasked
    <3> QED
      BY <1>14, <3>1
  <2>2. c # b /\ Untouched(c)
    BY <1>5, <2>1 DEF BatchesInv, UnaskedUntouched, Unasked
  <2>3. FilesIn(tasks, c) = {} /\ FilesIn(gone, c) = {} /\ FilesIn(live', c) = {}
    <3>1. FilesIn(tasks, c) = {}
      BY <1>9, <2>2 DEF Untouched
    <3> QED
      BY <1>3, <1>8, <3>1 DEF FilesIn
  <2>4. books'[c] = books[c] /\ queued'[c] = queued[c]
    BY <1>10, <1>14, <2>2, <2>3
  <2> QED
    BY <1>4, <2>1, <2>2, <2>3, <2>4 DEF Untouched
<1>17. CountsTaken'
  <2> SUFFICES ASSUME KindOf(b) # "compress"
               PROVE  Counting(books'[b], FilesIn(live', b), queued'[b])
    BY <1>2, <1>4, <1>5, <1>14 DEF CountsTaken, KindOf
  <2>1. NoRow(books[b]) /\ Noted(books[b]) = {} /\ books[b].end = "open"
    BY <1>7 DEF Untouched
  <2>2. ~books'[b].opened /\ ~books'[b].tracked /\ books'[b].end = "open"
    BY <1>5, <1>14, <2>1 DEF NoRow
  <2>3. ASSUME books'[b].kind # "describe" PROVE Noted(books'[b]) = {}
    <3>1. FilesIn(gone, b) = {}
      BY <1>5, <1>8, <1>14, <2>3 DEF FilesIn, KindOf
    <3> QED
      BY <1>5, <1>14, <2>1, <3>1
  <2> QED
    BY <1>14, <2>2, <2>3 DEF Counting
<1>18. ClickWritten'
  BY <1>4, <1>2, <1>5, <1>14 DEF BatchesInv, ClickWritten, KindOf
<1>19. MemoryTrue'
  <2>1. taken \cap running = {}
    <3> SUFFICES ASSUME NEW u \in taken, u \in running PROVE FALSE
      OBVIOUS
    <3>1. u.file \in files /\ u.batch = b
      BY <1>2 DEF TasksOf
    <3> QED
      BY <1>2, <3>1 DEF Fresh, Outstanding
  <2>2. gone \cap running = {}
    BY <1>5, <1>8, <2>1
  <2>3. live' = pending' \cup running /\ pending' \cap running = {}
    BY <1>2, <1>3, <1>5, <2>1, <2>2
  <2> QED
    BY <1>4, <2>3 DEF MemoryTrue
<1>20. BudgetsTrue'
  <2> SUFFICES ASSUME NEW i \in DOMAIN health, health[i].halted
               PROVE  Of(pending', health[i].batch) = {}
    BY <1>4 DEF BudgetsTrue
  <2>1. Of(pending, health[i].batch) = {} /\ health[i].batch # b
    BY <1>7 DEF BatchesInv, BudgetsTrue, Untouched
  <2>2. \A u \in taken : u.batch = b
    BY <1>2 DEF TasksOf
  <2> QED
    BY <1>3, <2>1, <2>2 DEF Of
<1> QED
  BY <1>14, <1>15, <1>16, <1>17, <1>18, <1>19, <1>20 DEF BatchesInv

-----------------------------------------------------------------------------
(* The specification keeps the invariant.                                     *)

LEMMA InitBatches == Init => BatchesInv
<1> SUFFICES ASSUME Init PROVE BatchesInv
  OBVIOUS
<1>1. PICK mix \in Mixes : books = [b \in Batch |-> Blank(mix[b])]
  BY DEF Init
<1>2. /\ live = {} /\ pending = {} /\ running = {} /\ stage = "down" /\ clicked \in Batch
      /\ queued = [b \in Batch |-> 0] /\ health = << >> /\ deaths = 0
  BY DEF Init
<1>3. ASSUME NEW b \in Batch
      PROVE  /\ books[b] \in Book /\ NoRow(books[b]) /\ books[b].end = "open"
             /\ ~books[b].written /\ \A f \in File : books[b].outcome[f] = NoOutcome
  <2>1. PICK r : r = books[b]
    OBVIOUS
  <2>2. r = Blank(mix[b]) /\ mix[b] \in Kinds
    BY <1>1, <2>1, KindAssumption
  <2>3. r \in Book
    BY <2>2 DEF Blank, Book, Ends
  <2>4. r.opened = FALSE /\ r.finished = FALSE /\ r.tracked = FALSE /\ r.written = FALSE
    BY <2>2 DEF Blank
  <2>5. r.end = "open" /\ r.outcome = [f \in File |-> NoOutcome]
    BY <2>2 DEF Blank
  <2> QED
    BY <2>1, <2>3, <2>4, <2>5 DEF NoRow
<1>4. TypeOK
  <2>1. << >> \in Seq(Entry) /\ Len(<< >>) <= MaxHealth /\ deaths \in 0..MaxDeaths
    BY <1>2, NumberAssumption
  <2>2. books \in [Batch -> Book]
    BY <1>1, <1>3
  <2> QED
    BY <1>2, <2>1, <2>2 DEF TypeOK
<1>5. BooksTrue(books, live, queued)
  <2> SUFFICES ASSUME NEW b \in Batch PROVE BookTrue(books[b], FilesIn(live, b), queued[b])
    BY DEF BooksTrue
  <2>1. RowTrue(books[b], FilesIn(live, b)) /\ TallyTrue(books[b], FilesIn(live, b), queued[b])
    BY <1>3 DEF NoRow, RowTrue, TallyTrue
  <2>2. ManifestTrue(books[b], FilesIn(live, b), queued[b])
    BY <1>3 DEF ManifestTrue, FilesIn
  <2> QED
    BY <2>1, <2>2 DEF BookTrue
<1>6. UnaskedUntouched
  BY <1>2, <1>3 DEF UnaskedUntouched, Untouched, FilesIn, Noted
<1>7. CountsTaken
  BY <1>2 DEF CountsTaken
<1>8. ClickWritten
  BY <1>2, <1>3 DEF ClickWritten
<1>9. MemoryTrue
  BY <1>2, <1>3 DEF MemoryTrue
<1>10. BudgetsTrue
  BY <1>2 DEF BudgetsTrue
<1> QED
  BY <1>4, <1>5, <1>6, <1>7, <1>8, <1>9, <1>10 DEF BatchesInv

LEMMA NextBatches == BatchesInv /\ [Next]_vars => BatchesInv'
<1> SUFFICES ASSUME BatchesInv, [Next]_vars PROVE BatchesInv'
  OBVIOUS
<1>1. ASSUME NEW b \in Batch, NEW files \in SUBSET File, Click(b, files) PROVE BatchesInv'
  BY <1>1, ClickKeeps
<1>2. CASE Enqueue
  BY <1>2, EnqueueKeeps
<1>3. CASE Open
  BY <1>3, OpenKeeps
<1>4. CASE Trip
  BY <1>4, TripKeeps
<1>5. CASE Crash
  BY <1>5, CrashKeeps
<1>6. CASE CrashInEnqueue
  BY <1>6, CrashInEnqueueKeeps
<1>7. CASE Boot
  BY <1>7, BootKeeps
<1>8. ASSUME NEW b \in Batch, StopBatch(b) PROVE BatchesInv'
  BY <1>8, StopBatchKeeps
<1>9. ASSUME NEW t \in TaskOf, Start(t) PROVE BatchesInv'
  BY <1>9, StartKeeps
<1>10. ASSUME NEW t \in TaskOf, NEW r \in Reason, Settle(t, r) PROVE BatchesInv'
  BY <1>10, SettleKeeps
<1>11. ASSUME NEW t \in TaskOf, NEW r \in Reason, CrashInSettle(t, r) PROVE BatchesInv'
  BY <1>11, CrashInSettleKeeps
<1>12. CASE UNCHANGED vars
  <2>1. TypeOK'
    BY <1>12 DEF BatchesInv, TypeOK, vars
  <2>2. BooksTrue(books, live, queued)'
    BY <1>12 DEF BatchesInv, vars
  <2>3. UnaskedUntouched'
    BY <1>12 DEF BatchesInv, UnaskedUntouched, Unasked, Untouched, KindOf, vars
  <2>4. CountsTaken'
    BY <1>12 DEF BatchesInv, CountsTaken, KindOf, vars
  <2>5. ClickWritten'
    BY <1>12 DEF BatchesInv, ClickWritten, KindOf, vars
  <2>6. MemoryTrue'
    BY <1>12 DEF BatchesInv, MemoryTrue, vars
  <2>7. BudgetsTrue'
    BY <1>12 DEF BatchesInv, BudgetsTrue, vars
  <2> QED
    BY <2>1, <2>2, <2>3, <2>4, <2>5, <2>6, <2>7 DEF BatchesInv
<1> QED
  BY <1>1, <1>2, <1>3, <1>4, <1>5, <1>6, <1>7, <1>8, <1>9, <1>10, <1>11, <1>12 DEF Next

\* The books stay true of the tasks: every theorem below follows from it.
THEOREM BatchesAlwaysTrue == Spec => []BatchesInv
  BY InitBatches, NextBatches, PTL DEF Spec

-----------------------------------------------------------------------------
(* What follows from it.                                                      *)

\* The tasks of a batch are as many as their files.
LEMMA TasksAreFiles ==
    ASSUME NEW tasks \in SUBSET TaskOf, NEW b \in Batch
    PROVE  /\ Cardinality(Of(tasks, b)) = Cardinality(FilesIn(tasks, b))
           /\ FilesIn(tasks, b) = {} => Of(tasks, b) = {}
<1>1. \A t \in Of(tasks, b) : t = [batch |-> b, file |-> t.file] /\ t.file \in FilesIn(tasks, b)
  BY DEF Of, FilesIn, TaskOf
<1>2. \A f \in FilesIn(tasks, b) : [batch |-> b, file |-> f] \in Of(tasks, b)
  BY DEF Of, FilesIn
<1> DEFINE g == [f \in FilesIn(tasks, b) |-> [batch |-> b, file |-> f]]
<1>3. g \in Injection(FilesIn(tasks, b), Of(tasks, b))
  BY <1>2 DEF Injection, IsInjective
<1>4. g \in Surjection(FilesIn(tasks, b), Of(tasks, b))
  BY <1>1, <1>2 DEF Surjection
<1>5. ExistsBijection(FilesIn(tasks, b), Of(tasks, b))
  BY <1>3, <1>4 DEF ExistsBijection, Bijection
<1>6. FilesIn(tasks, b) \in SUBSET File
  BY DEF FilesIn
<1> QED
  BY <1>1, <1>5, <1>6, FilesFinite, FS_Bijection

LEMMA OutstandingIsLive ==
    ASSUME BatchesInv
    PROVE  Outstanding \subseteq live /\ (stage = "idle" => Outstanding = live)
  BY DEF BatchesInv, MemoryTrue, Outstanding

\* Every variable keeps its type.
THEOREM TypeCorrect == Spec => []TypeOK
<1>1. BatchesInv => TypeOK
  BY DEF BatchesInv
<1> QED
  BY <1>1, BatchesAlwaysTrue, PTL

\* A file whose outcome is on disk is never again work in the journal.
THEOREM OutcomesAreFinal == Spec => []OutcomeIsFinal
<1>1. BatchesInv => OutcomeIsFinal
  <2> SUFFICES ASSUME BatchesInv, NEW t \in live PROVE books[t.batch].outcome[t.file] = NoOutcome
    BY DEF OutcomeIsFinal
  <2>1. t \in TaskOf
    BY DEF BatchesInv, TypeOK
  <2>2. t.batch \in Batch /\ t.file \in FilesIn(live, t.batch)
    BY <2>1 DEF TaskOf, FilesIn
  <2> QED
    BY <2>2 DEF BatchesInv, BooksTrue, BookTrue, ManifestTrue
<1> QED
  BY <1>1, BatchesAlwaysTrue, PTL

\* The terminal record of a batch tells the truth, over restarts.
THEOREM ManifestTellsTheTruth == Spec => []TerminalRecordTrue
<1>1. BatchesInv => TerminalRecordTrue
  <2> SUFFICES ASSUME BatchesInv, NEW b \in Batch, books[b].end # "open"
               PROVE  /\ Of(live, b) = {}
                      /\ Cardinality({f \in File : books[b].outcome[f] # NoOutcome}) = queued[b]
                      /\ books[b].end = "halted" <=> \E f \in File : books[b].outcome[f] = "halted"
    BY DEF TerminalRecordTrue
  <2>1. /\ FilesIn(live, b) = {} /\ Accounted(books[b], FilesIn(live, b), queued[b])
        /\ books[b].end = "halted" <=> HasHalted(books[b])
    BY DEF BatchesInv, BooksTrue, BookTrue, ManifestTrue
  <2>2. Of(live, b) = {}
    BY <2>1, TasksAreFiles DEF BatchesInv, TypeOK
  <2>3. Cardinality(Noted(books[b])) = queued[b]
    <3>1. Cardinality({}) = 0 /\ Cardinality(Noted(books[b])) \in Nat
      BY FS_EmptySet, NotedFinite
    <3> QED
      BY <2>1, <3>1 DEF Accounted
  <2> QED
    BY <2>1, <2>2, <2>3 DEF Noted, HasHalted
<1> QED
  BY <1>1, BatchesAlwaysTrue, PTL

\* A row is finished only when nothing of its batch is out.
THEOREM FinishedIsIdle == Spec => []RowFinishedMeansIdle
<1>1. BatchesInv => RowFinishedMeansIdle
  <2> SUFFICES ASSUME BatchesInv, NEW b \in Batch, books[b].finished PROVE Of(Outstanding, b) = {}
    BY DEF RowFinishedMeansIdle
  <2>1. /\ RowSettled(books[b]) >= books[b].total
        /\ RowSettled(books[b]) + Cardinality(FilesIn(live, b)) <= books[b].total
    BY DEF BatchesInv, BooksTrue, BookTrue, RowTrue
  <2>2. /\ RowSettled(books[b]) \in Nat /\ books[b].total \in Nat
        /\ FilesIn(live, b) \in SUBSET File
    BY BookFields, RowSettledTypes DEF BatchesInv, TypeOK, FilesIn
  <2>3. FilesIn(live, b) = {}
    BY <2>1, <2>2, FilesFinite, NoFiles
  <2>4. Of(live, b) = {}
    BY <2>3, TasksAreFiles DEF BatchesInv, TypeOK
  <2> QED
    BY <2>4, OutstandingIsLive DEF Of
<1> QED
  BY <1>1, BatchesAlwaysTrue, PTL

\* Settled and outstanding files add up to the total of a row that counts what the
\* queue took.
THEOREM RowsAddUp == Spec => []RowIdentity
<1>1. BatchesInv => RowIdentity
  <2> SUFFICES ASSUME BatchesInv, stage = "idle", NEW b \in Batch, books[b].opened,
                      KindOf(b) = "transcribe"
               PROVE  RowSettled(books[b]) + Cardinality(Of(Outstanding, b)) = books[b].total
    BY DEF RowIdentity
  <2>1. RowSettled(books[b]) + Cardinality(FilesIn(live, b)) = books[b].total
    BY DEF BatchesInv, BooksTrue, BookTrue, RowTrue, KindOf
  <2>2. Outstanding = live /\ live \in SUBSET TaskOf
    BY OutstandingIsLive DEF BatchesInv, TypeOK
  <2> QED
    BY <2>1, <2>2, TasksAreFiles
<1> QED
  BY <1>1, BatchesAlwaysTrue, PTL

\* The row counts exactly the outcomes of the manifest.
THEOREM RowsAgreeWithManifests == Spec => []RowMatchesManifest
<1>1. BatchesInv => RowMatchesManifest
  <2> SUFFICES ASSUME BatchesInv, NEW b \in Batch, books[b].opened, KindOf(b) # "describe",
                      NEW s \in State
               PROVE  books[b].count[s] =
                        Cardinality({f \in File : /\ books[b].outcome[f] # NoOutcome
                                                  /\ StateOf(books[b].outcome[f]) = s})
    BY DEF RowMatchesManifest
  <2>1. books[b].count[s] = Cardinality(InState(books[b], s))
    BY DEF BatchesInv, BooksTrue, BookTrue, RowTrue, KindOf
  <2>2. InState(books[b], s) = {f \in File : /\ books[b].outcome[f] # NoOutcome
                                             /\ StateOf(books[b].outcome[f]) = s}
    BY DEF InState, Noted
  <2> QED
    BY <2>1, <2>2
<1> QED
  BY <1>1, BatchesAlwaysTrue, PTL

\* A batch that spent its retry budget has nothing left to grind.
THEOREM SpentBudgetsStop == Spec => []BudgetStops
<1>1. BatchesInv => BudgetStops
  <2> SUFFICES ASSUME BatchesInv, NEW b \in Batch, EntryOf(b).halted PROVE Of(pending, b) = {}
    BY DEF BudgetStops
  <2>1. health \in Seq(Entry) /\ BudgetsTrue
    BY DEF BatchesInv, TypeOK
  <2>2. PICK i \in DOMAIN health : health[i] = EntryOf(b)
    BY <2>1, BudgetTypes
  <2>3. EntryOf(b).batch = b
    BY <2>1, BudgetTypes
  <2> QED
    BY <2>1, <2>2, <2>3 DEF BudgetsTrue
<1> QED
  BY <1>1, BatchesAlwaysTrue, PTL

=============================================================================
