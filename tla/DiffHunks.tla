------------------------------ MODULE DiffHunks ------------------------------
(***************************************************************************)
(* The hunk-by-hunk review of a pending change: the line diff of           *)
(* src/src/services/diff-hunk.ts, its grouping into hunks with context     *)
(* lines, the user's decisions about them and what finalizeHunkReview()    *)
(* (src/src/services/diff-review.service.ts) writes to the file.           *)
(*                                                                         *)
(* A text is the sequence of its lines.  Lines of the old and of the new   *)
(* text are counted as in the code: an operation carries the number of     *)
(* lines before it in either.                                              *)
(***************************************************************************)
EXTENDS Integers, Sequences, FiniteSets, SequencesExt

CONSTANTS
    Lines,          \* what a line may hold
    MaxLines,       \* bound: lines of a text
    CONTEXT_LINES,  \* context around a hunk
    MaxCells,       \* size of the table above which simpleDiff is used
    LookAhead,      \* how far simpleDiff looks for a match
    MaxFailures     \* bound: writes that fail

ASSUME DiffAssumption ==
    /\ {MaxLines, CONTEXT_LINES, MaxCells, LookAhead, MaxFailures} \subseteq Nat

Texts == BoundedSeq(Lines, MaxLines)

\* The r-th smallest member of S.
Nth(S, r) == CHOOSE x \in S : Cardinality({y \in S : y <= x}) = r

\* What s holds at the places in D, in its order.
Picked(s, D) == [r \in 1 .. Cardinality(D) |-> s[Nth(D, r)]]

-----------------------------------------------------------------------------
(* computeEditOps *)

Keep(i, j) == [type |-> "equal", old |-> i, new |-> j]
Insert(i, j) == [type |-> "insert", old |-> i, new |-> j]
Delete(i, j) == [type |-> "delete", old |-> i, new |-> j]

Larger(a, b) == IF a < b THEN b ELSE a

\* Mistake: a match counts on top of the cell above, not of the diagonal one.
CellFromAbove(above, row, line, new, j) ==
    IF line = new[j] THEN above[j] + 1 ELSE Larger(above[j], row[j - 1])

\* Entry j of a row, from the row above and the entries before it.
Cell(above, row, line, new, j) ==
    IF line = new[j] THEN above[j - 1] + 1 ELSE Larger(above[j], row[j - 1])

Zeros(new) == [j \in 0 .. Len(new) |-> 0]

\* A row of the table from the one above; filled[j] has its first entries.
Row(above, line, new) ==
    LET filled[j \in 0 .. Len(new)] ==
            IF j = 0 THEN Zeros(new)
            ELSE LET row == filled[j - 1]
                 IN  [row EXCEPT ![j] = Cell(above, row, line, new, j)]
    IN  filled[Len(new)]

\* The LCS table: dp[i][j] is the length of the longest common subsequence of the
\* first i old and j new lines.
Table(old, new) ==
    LET filled[i \in 0 .. Len(old)] ==
            IF i = 0 THEN [r \in 0 .. Len(old) |-> Zeros(new)]
            ELSE LET dp == filled[i - 1]
                 IN  [dp EXCEPT ![i] = Row(dp[i - 1], old[i], new)]
    IN  filled[Len(old)]

\* The walk back through the table: the operations for the first i old and j new
\* lines, from the walks for fewer lines.
Back(walk, i, j, old, new, dp) ==
    IF i = 0 /\ j = 0 THEN << >>
    ELSE IF i > 0 /\ j > 0 /\ old[i] = new[j]
    THEN Append(walk[<<i - 1, j - 1>>], Keep(i - 1, j - 1))
    ELSE IF j > 0 /\ (i = 0 \/ dp[i][j - 1] >= dp[i - 1][j])
    THEN Append(walk[<<i, j - 1>>], Insert(i, j - 1))
    ELSE Append(walk[<<i - 1, j>>], Delete(i - 1, j))

TableDiff(old, new) ==
    LET dp == Table(old, new)
        walk[p \in (0 .. Len(old)) \X (0 .. Len(new))] ==
            Back(walk, p[1], p[2], old, new, dp)
    IN  walk[<<Len(old), Len(new)>>]

Inserts(i, j, k) == [l \in 1 .. k |-> Insert(i, j + l - 1)]
Deletes(i, j, k) == [l \in 1 .. k |-> Delete(i + l - 1, j)]

\* How far ahead the old line is found in the new text, and the new in the old.
AheadInNew(i, j, old, new) ==
    {k \in 1 .. LookAhead : j + k < Len(new) /\ old[i + 1] = new[j + k + 1]}
AheadInOld(i, j, old, new) ==
    {k \in 1 .. LookAhead : i + k < Len(old) /\ old[i + k + 1] = new[j + 1]}

Nearest(S) == CHOOSE k \in S : \A l \in S : k <= l

\* The loop of simpleDiff: the operations after i old and j new lines, from
\* those after more lines.
Onward(rest, i, j, old, new) ==
    LET inNew == AheadInNew(i, j, old, new)
        near == inNew \cup AheadInOld(i, j, old, new)
        k == Nearest(near)
    IN  IF i = Len(old) THEN Inserts(i, j, Len(new) - j)
        ELSE IF j = Len(new) THEN Deletes(i, j, Len(old) - i)
        ELSE IF old[i + 1] = new[j + 1]
        THEN <<Keep(i, j)>> \o rest[<<i + 1, j + 1>>]
        ELSE IF near = {}
        THEN <<Delete(i, j), Insert(i + 1, j)>> \o rest[<<i + 1, j + 1>>]
        ELSE IF k \in inNew
        THEN Inserts(i, j, k) \o rest[<<i, j + k>>]
        ELSE Deletes(i, j, k) \o rest[<<i + k, j>>]

SimpleDiff(old, new) ==
    LET rest[p \in (0 .. Len(old)) \X (0 .. Len(new))] == Onward(rest, p[1], p[2], old, new)
    IN  rest[<<0, 0>>]

UsesTable(old, new) == Len(old) * Len(new) <= MaxCells

EditOps(old, new) == IF UsesTable(old, new) THEN TableDiff(old, new) ELSE SimpleDiff(old, new)

-----------------------------------------------------------------------------
(* groupIntoHunks and applySelectedHunks *)

\* Two changes are of one hunk when at most this many operations apart.
Merged(d) == d <= 2 * CONTEXT_LINES + 1

\* First and last changes of the regions that are merged, and the regions in order.
Changed(ops) == {i \in DOMAIN ops : ops[i].type # "equal"}
Firsts(ops) ==
    LET changed == Changed(ops) IN
    {i \in changed : ~ \E d \in changed : d < i /\ Merged(i - d)}

Lasts(ops) ==
    LET changed == Changed(ops) IN
    {i \in changed : ~ \E d \in changed : i < d /\ Merged(d - i)}

Regions(ops) ==
    LET firsts == Firsts(ops)
        lasts == Lasts(ops)
    IN  [r \in 1 .. Cardinality(firsts) |->
            LET first == Nth(firsts, r) IN
            [first |-> first, last |-> Nth({l \in lasts : first <= l}, 1)]]

\* The lines the operations are about.
Content(ops, old, new) ==
    [i \in DOMAIN ops |-> IF ops[i].type = "insert" THEN new[ops[i].new + 1]
                          ELSE old[ops[i].old + 1]]

\* A region with the context lines around it.
Start(region) == Larger(1, region.first - CONTEXT_LINES)
End(region, ops) == LET e == region.last + CONTEXT_LINES IN
                    IF e > Len(ops) THEN Len(ops) ELSE e

HunkLines(ops, content, region) ==
    LET before == Start(region) - 1 IN
    [i \in 1 .. End(region, ops) - before |->
        [type |-> ops[i + before].type, content |-> content[i + before]]]

Hunks(ops, old, new) ==
    LET region == Regions(ops)
        content == Content(ops, old, new)
    IN  [r \in DOMAIN region |->
            [oldStart |-> ops[Start(region[r])].old,
             lines |-> HunkLines(ops, content, region[r]),
             status |-> "pending"]]

ContentOf(lines) == [i \in DOMAIN lines |-> lines[i].content]
Without(lines, type) == Picked(lines, {i \in DOMAIN lines : lines[i].type # type})

\* Mistake: the old lines an accepted hunk removes are not skipped.
AddHunkInPlace(done, hunk, old) ==
    LET before == done.result \o SubSeq(old, done.at + 1, hunk.oldStart)
        from == Larger(done.at, hunk.oldStart)
        to == from + Len(Without(hunk.lines, "insert"))
        equals == Without(Without(hunk.lines, "insert"), "delete")
    IN  IF hunk.status = "accepted"
        THEN [at |-> from + Len(equals),
              result |-> before \o ContentOf(Without(hunk.lines, "delete"))]
        ELSE [at |-> to, result |-> before \o SubSeq(old, from + 1, to)]

\* One hunk of applySelectedHunks: done holds the old lines used, and the result.
AddHunk(done, hunk, old) ==
    LET before == done.result \o SubSeq(old, done.at + 1, hunk.oldStart)
        from == Larger(done.at, hunk.oldStart)
        to == from + Len(Without(hunk.lines, "insert"))
    IN  [at |-> to,
         result |-> before \o IF hunk.status = "accepted"
                              THEN ContentOf(Without(hunk.lines, "delete"))
                              ELSE SubSeq(old, from + 1, to)]

ApplySelectedHunks(old, hunks) ==
    LET done[r \in 0 .. Len(hunks)] ==
            IF r = 0 THEN [at |-> 0, result |-> << >>] ELSE AddHunk(done[r - 1], hunks[r], old)
        end == done[Len(hunks)]
    IN  end.result \o SubSeq(old, end.at + 1, Len(old))

-----------------------------------------------------------------------------
VARIABLES
    old,       \* originalContent
    new,       \* newContent as proposed
    hunks,     \* the hunks with the user's decisions
    disk,      \* the file
    status,    \* status of the change
    failures   \* writes that failed

vars == <<old, new, hunks, disk, status, failures>>

\* addPendingChange() and the first getHunks().
Init ==
    /\ old \in Texts /\ new \in Texts
    /\ hunks = Hunks(EditOps(old, new), old, new)
    /\ disk = old
    /\ status = "pending"
    /\ failures = 0

\* acceptHunk() and rejectHunk()
Decide(i, decision) ==
    /\ status = "pending"
    /\ hunks[i].status = "pending"
    /\ hunks' = [hunks EXCEPT ![i].status = decision]
    /\ UNCHANGED <<old, new, disk, status, failures>>

\* Hunks the user said nothing of are rejected.
AutoRejected ==
    [i \in DOMAIN hunks |-> IF hunks[i].status = "pending"
                            THEN [hunks[i] EXCEPT !.status = "rejected"] ELSE hunks[i]]

AnyAccepted == \E i \in DOMAIN hunks : hunks[i].status = "accepted"

\* finalizeHunkReview(): a change without hunks is applied as it is.
Finalize ==
    /\ status = "pending"
    /\ hunks' = AutoRejected
    /\ IF hunks = << >> THEN disk' = new /\ status' = "applied"
       ELSE IF ~AnyAccepted THEN status' = "rejected" /\ UNCHANGED disk
       ELSE disk' = ApplySelectedHunks(old, hunks') /\ status' = "applied"
    /\ UNCHANGED <<old, new, failures>>

\* The same when writeFile() rejects: the hunks stay as they were decided.
FinalizeFails ==
    /\ status = "pending"
    /\ hunks = << >> \/ AnyAccepted
    /\ failures < MaxFailures
    /\ failures' = failures + 1
    /\ hunks' = AutoRejected
    /\ UNCHANGED <<old, new, disk, status>>

Next ==
    \/ \E i \in DOMAIN hunks, decision \in {"accepted", "rejected"} : Decide(i, decision)
    \/ Finalize
    \/ FinalizeFails

Spec == Init /\ [][Next]_vars
-----------------------------------------------------------------------------
(* Reference definitions *)

\* The operations shown when just the changes in the set chosen are made.
Kept(ops, chosen) ==
    {i \in DOMAIN ops : \/ ops[i].type = "equal"
                        \/ ops[i].type = "insert" /\ i \in chosen
                        \/ ops[i].type = "delete" /\ i \notin chosen}

Shown(ops, chosen) == Picked(Content(ops, old, new), Kept(ops, chosen))

Subsequences(s) == {Picked(s, D) : D \in SUBSET DOMAIN s}

CommonLength ==
    LET lengths == {Len(s) : s \in Subsequences(old) \cap Subsequences(new)} IN
    CHOOSE n \in lengths : \A k \in lengths : k <= n

\* The edit turns the old text into the new one, and "a minimal list of edit
\* operations" keeps as many lines as any edit could, unless the texts are so
\* large that simpleDiff was used.
DiffIsMinimal ==
    LET ops == EditOps(old, new) IN
    status = "pending" /\ failures = 0 =>
        /\ Shown(ops, {}) = old
        /\ Shown(ops, DOMAIN ops) = new
        /\ UsesTable(old, new) =>
              Cardinality({i \in DOMAIN ops : ops[i].type = "equal"}) = CommonLength

\* The changes of the hunks that are accepted.
Chosen(ops, decided) ==
    LET region == Regions(ops) IN
    {i \in DOMAIN ops : \E r \in DOMAIN region :
        decided[r].status = "accepted" /\ region[r].first <= i /\ i <= region[r].last}

\* The file that is written is the old text with the changes of the accepted
\* hunks and no other: a hunk neither shifts nor undoes nor repeats what another
\* one, or its context, holds, and no hunk at all leaves a change out.
SelectedHunksApplied ==
    LET ops == EditOps(old, new) IN
    disk = CASE status = "applied" /\ hunks # << >> -> Shown(ops, Chosen(ops, hunks))
             [] status = "applied" /\ hunks = << >> -> new
             [] OTHER -> old
=============================================================================
