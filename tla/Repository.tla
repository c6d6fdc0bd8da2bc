----------------------------- MODULE Repository -----------------------------
(***************************************************************************)
(* storage/repository.py: the rows, the coverage and the state of the      *)
(* partitions of one entity in one dataset, and the transactions that      *)
(* write them; with the coverage algebra of storage/coverage.py that       *)
(* readers apply to what they find.                                        *)
(*                                                                         *)
(* A generation stands for the pair of generation and updated_at, which    *)
(* the code always stores and copies together.  Row contents are named by  *)
(* the write they come from.                                               *)
(***************************************************************************)
EXTENDS Integers, FiniteSets, Sequences, SequencesExt

CONSTANTS
    LastDay,       \* days are ordinals 1 .. LastDay (FULL_START .. FULL_END)
    MaxRows,       \* bound: rows of one day in one write
    MaxGeneration  \* bound: writes ever made

ASSUME RepositoryAssumption ==
    LastDay \in Nat /\ MaxRows \in Nat /\ MaxGeneration \in Nat

\* Financial reports have two partitions, everything else has one.
Bases == {"", "report_time", "announce_time"}

VARIABLES
    financial,   \* the dataset is a financial table
    stored,      \* what is committed, seen by every reader
    work,        \* the same with the changes of the open transaction
    write,       \* the write applied last in it, NoWrite if there is none
    generation   \* generations drawn so far

vars == <<financial, stored, work, write, generation>>

\* The intervals that prove a day of a partition: one at most, if they are
\* disjoint.
ProofsOf(coverage, b, d) == {i \in coverage : i.basis = b /\ i.reusable /\ d \in i.lo..i.hi}

\* The proof of every day, as ProvenDays speaks of it.
View(tables) ==
    [b \in Bases |-> [d \in 1..LastDay |->
        IF ProofsOf(tables.coverage, b, d) = {} THEN [generation |-> 0, rows |-> {}]
        ELSE [generation |-> (CHOOSE i \in ProofsOf(tables.coverage, b, d) : TRUE).generation,
              rows |-> {p \in 0..(MaxRows - 1) : tables.rows[b][d][p] # 0}]]]

Promise == INSTANCE ProvenDays WITH proven <- View(stored), draft <- View(work)

Days == Promise!Days
Positions == Promise!Positions
Writes == Promise!Writes
NoWrite == Promise!NoWrite

Intervals == [basis : Bases, lo : Days, hi : Days, reusable : BOOLEAN,
              generation : 1..MaxGeneration]

\* cache_coverage, the business table (0: no row) and cache_state (0: none).
Tables == [coverage : SUBSET Intervals,
           rows : [Bases -> [Days -> [Positions -> 0..MaxGeneration]]],
           state : [Bases -> 0..MaxGeneration]]

Empty == [coverage |-> {},
          rows |-> [b \in Bases |-> [d \in Days |-> [p \in Positions |-> 0]]],
          state |-> [b \in Bases |-> 0]]

Init ==
    /\ financial \in BOOLEAN
    /\ stored = Empty /\ work = Empty
    /\ write = NoWrite
    /\ generation = 0

-----------------------------------------------------------------------------
\* The effect of _write on the three tables.

Overlaps(i, w) == i.basis = w.basis /\ i.lo <= w.end /\ i.hi >= w.start

TailBefore(i, w) ==  \* mutant: the days after the write are forgotten
    {t \in {[i EXCEPT !.hi = w.start - 1]} : t.lo <= t.hi}

\* What is left of an overlapping interval, with its original generation.
Tails(i, w) ==
    {t \in {[i EXCEPT !.hi = w.start - 1], [i EXCEPT !.lo = w.end + 1]} : t.lo <= t.hi}

Whole(w) == [basis |-> w.basis, lo |-> w.start, hi |-> w.end, reusable |-> w.reusable,
             generation |-> w.generation]

CoverageAfter(coverage, w) ==
    {Whole(w)} \cup
    IF w.invalidate_financial THEN {}
    ELSE {i \in coverage : ~Overlaps(i, w)}
         \cup UNION {Tails(i, w) : i \in {j \in coverage : Overlaps(j, w)}}

RowsReplaced(rows, w) ==  \* mutant: nothing is deleted
    [b \in Bases |-> [d \in Days |-> [p \in Positions |->
        IF b = w.basis /\ p < w.rows[d] THEN w.generation ELSE rows[b][d][p]]]]

\* Only a write that proves its days deletes what the source no longer has;
\* rows are numbered within their day and replace those in their positions.
RowsAfter(rows, w) ==
    [b \in Bases |-> [d \in Days |-> [p \in Positions |->
        IF b # w.basis \/ d \notin w.start..w.end THEN rows[b][d][p]
        ELSE IF p < w.rows[d] THEN w.generation
        ELSE IF w.reusable THEN 0 ELSE rows[b][d][p]]]]

StateKept(state, w) ==  \* mutant: a write without a state keeps the old one
    [b \in Bases |->
        IF b = w.basis /\ w.state /\ w.reusable THEN w.generation
        ELSE IF w.invalidate_financial THEN 0 ELSE state[b]]

StateAfter(state, w) ==
    [b \in Bases |->
        IF b = w.basis THEN IF w.state /\ w.reusable THEN w.generation ELSE 0
        ELSE IF w.invalidate_financial THEN 0 ELSE state[b]]

Written(tables, w) ==
    [coverage |-> CoverageAfter(tables.coverage, w),
     rows |-> RowsAfter(tables.rows, w),
     state |-> StateAfter(tables.state, w)]

\* The writes the services ask for: financial reports withdraw every proof of
\* their table, and only writes of the whole range carry a state.
Asked(w) ==
    /\ IF financial THEN w.basis # "" ELSE w.basis = ""
    /\ w.invalidate_financial = financial
    /\ w.start <= w.end
    /\ \A d \in Days : w.rows[d] # 0 => d \in w.start..w.end
    /\ w.state => ~financial /\ w.start = 1 /\ w.end = LastDay

\* A write as the caller gives it, with the generation drawn for it.
Requests ==
    [basis : Bases, start : Days, end : Days, reusable : BOOLEAN,
     rows : [Days -> 0..MaxRows], state : BOOLEAN,
     invalidate_financial : BOOLEAN, generation : {generation + 1}]

\* _write: the next write of the transaction, which the first one opens.
ApplyWrite ==
    /\ generation < MaxGeneration
    /\ \E w \in Requests :
        /\ Asked(w)
        /\ work' = Written(work, w)
        /\ write' = w
    /\ generation' = generation + 1
    /\ UNCHANGED <<financial, stored>>

Commit ==
    /\ write # NoWrite
    /\ stored' = work /\ write' = NoWrite
    /\ UNCHANGED <<financial, work, generation>>

\* A row outside the interval, a value that cannot be encoded, an error of
\* SQLite or the end of the process: nothing of the transaction remains.
Rollback ==
    /\ write # NoWrite
    /\ work' = stored /\ write' = NoWrite
    /\ UNCHANGED <<financial, stored, generation>>

Next == ApplyWrite \/ Commit \/ Rollback

Spec == Init /\ [][Next]_vars

-----------------------------------------------------------------------------
\* What readers compute from the intervals <<lo, hi>> they find.

\* The intervals of a partition that are reusable; those whose age the policy
\* does not accept are left out.
Reusable(tables, b, accepted) ==
    {<<i.lo, i.hi>> : i \in {j \in tables.coverage :
                                j.basis = b /\ j.reusable /\ j.generation \in accepted}}

Before(i, j) == i[1] < j[1] \/ (i[1] = j[1] /\ i[2] <= j[2])

\* sorted(intervals).
Sorted(intervals) ==
    CHOOSE q \in [1..Cardinality(intervals) -> intervals] :
        ToSet(q) = intervals /\ \A m, n \in DOMAIN q : m < n => Before(q[m], q[n])

GapStepOpen(acc, i, end) ==  \* mutant: the cursor stays on the covered end
    IF acc.returned \/ i[2] < acc.cursor \/ i[1] > end THEN acc
    ELSE [cursor |-> i[2],
          missing |-> IF i[1] > acc.cursor
                      THEN Append(acc.missing, <<acc.cursor, i[1] - 1>>) ELSE acc.missing,
          returned |-> i[2] >= end]

\* gaps: one step of its loop, and the loop over the sorted intervals.
GapStep(acc, i, end) ==
    IF acc.returned \/ i[2] < acc.cursor \/ i[1] > end THEN acc
    ELSE [cursor |-> i[2] + 1,
          missing |-> IF i[1] > acc.cursor
                      THEN Append(acc.missing, <<acc.cursor, i[1] - 1>>) ELSE acc.missing,
          returned |-> i[2] >= end]

Gaps(start, end, intervals) ==
    LET acc == FoldLeft(LAMBDA a, i : GapStep(a, i, end),
                        [cursor |-> start, missing |-> <<>>, returned |-> FALSE],
                        Sorted(intervals))
    IN IF ~acc.returned /\ acc.cursor <= end
       THEN Append(acc.missing, <<acc.cursor, end>>) ELSE acc.missing

\* covered_suffix: the earliest day from which all days up to end are covered,
\* 0 (None) if end is not.
SuffixStep(acc, i) ==
    IF acc.returned \/ i[1] > acc.cursor \/ i[2] < acc.cursor THEN acc
    ELSE [cursor |-> i[1] - 1, found |-> TRUE, returned |-> i[1] = 1]

CoveredSuffix(end, intervals) ==
    LET acc == FoldLeft(SuffixStep, [cursor |-> end, found |-> FALSE, returned |-> FALSE],
                        Reverse(Sorted(intervals)))
    IN IF acc.found THEN acc.cursor + 1 ELSE 0

-----------------------------------------------------------------------------
TypeOK ==
    /\ financial \in BOOLEAN
    /\ stored \in Tables /\ work \in Tables
    /\ write \in Writes \cup {NoWrite}
    /\ generation \in 0..MaxGeneration

\* The intervals of a partition are disjoint.
Disjoint(tables) ==
    \A i, j \in tables.coverage :
        i.basis = j.basis /\ i # j => i.hi < j.lo \/ j.hi < i.lo

\* Every row on a proven day comes from the write that proves the day: no row
\* of an earlier or an unproven reading is served as part of verified history.
ProvenRowsExact ==
    \A i \in stored.coverage : i.reusable =>
        \A d \in i.lo..i.hi, p \in Positions :
            stored.rows[i.basis][d][p] \in {0, i.generation}

\* snapshot() and details() return the rows of a partition without looking at
\* its coverage: while it has a state, all of its rows come from the write that
\* set the state, and the whole range is proven by it.
StateIsWhole ==
    \A b \in Bases : stored.state[b] # 0 =>
        /\ \A d \in Days, p \in Positions : stored.rows[b][d][p] \in {0, stored.state[b]}
        /\ \E i \in stored.coverage :
              /\ i.basis = b /\ i.reusable /\ i.lo = 1 /\ i.hi = LastDay
              /\ i.generation = stored.state[b]

\* Of every window, gaps returns the days no accepted interval covers, in order
\* and in as few ranges as there are, and covered_suffix the first day from
\* which the cache reaches the end: a query asks the source for what is missing,
\* for nothing else, and splices a counted answer only onto an unbroken suffix.
DaysOf(ranges) == UNION {r[1]..r[2] : r \in ranges}

MissingIsAskedFor ==
    write = NoWrite =>
    \A b \in Bases, start, end \in Days, accepted \in SUBSET (1..generation) :
        LET intervals == Reusable(stored, b, accepted)
            covered == DaysOf(intervals)
            missing == Gaps(start, end, intervals)
            suffix == CoveredSuffix(end, intervals)
        IN start <= end =>
           /\ DaysOf(ToSet(missing)) = (start..end) \ covered
           /\ \A n \in 1..(Len(missing) - 1) : missing[n][2] + 1 < missing[n + 1][1]
           /\ IF end \in covered
              THEN suffix..end \subseteq covered /\ suffix - 1 \notin covered /\ suffix # 0
              ELSE suffix = 0

\* The tables keep the promise of ProvenDays.
ImplementsProvenDays == Promise!Spec
=============================================================================
