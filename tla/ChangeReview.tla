---------------------------- MODULE ChangeReview ----------------------------
(***************************************************************************)
(* Edits of the agent under review: the pending changes of                 *)
(* DiffReviewService (src/src/services/diff-review.service.ts) and the     *)
(* sessions of ComposerService (src/src/services/composer.service.ts) that *)
(* group them.                                                             *)
(*                                                                         *)
(* The content of a file is the set of the changes it shows.  A call is    *)
(* one running applyChange, finalizeHunkReview or applySession; between    *)
(* the start of a write, the file's change and the end of the write every  *)
(* other operation may come in.  The list of recent changes, which is only *)
(* displayed, is left out.                                                 *)
(*                                                                         *)
(* leftBehind is not in the code: it keeps the changes that are not        *)
(* applied though a write of theirs, which failed, put them in the file.   *)
(***************************************************************************)
EXTENDS Integers, Sequences, FiniteSets

CONSTANTS
    Files,     \* paths
    Changes,   \* ids of pending changes
    Sessions,  \* ids of composer sessions
    Calls,     \* calls that may run at a time
    None       \* no file, no content, no change, no session

ASSUME ReviewAssumption ==
    /\ IsFiniteSet(Files) /\ IsFiniteSet(Changes)
    /\ None \notin Files \cup Sessions \cup Changes

VARIABLES
    disk,       \* what each file holds, None if it does not exist
    change,     \* the PendingChange of each id
    waiting,    \* keys of pendingChanges
    session,    \* the composer sessions
    call,       \* the running calls
    tracked,    \* files the checkpoint service was told of
    leftBehind  \* changes not applied that a failed write left in a file

reviewVars == <<disk, change, waiting, session, call, tracked, leftBehind>>

Contents == (SUBSET Changes) \cup {None}
Statuses == {"unknown", "reading", "pending", "applied", "rejected"}

NoChange == [file |-> None, old |-> None, new |-> {}, status |-> "unknown", session |-> None]
NoCall == [change |-> None, content |-> {}, written |-> FALSE, rest |-> << >>,
           session |-> None, failed |-> FALSE]

ReviewInit ==
    /\ disk \in [Files -> {{}, None}]
    /\ change = [c \in Changes |-> NoChange]
    /\ waiting = {}
    /\ session = [s \in Sessions |-> [status |-> "unknown", changes |-> << >>]]
    /\ call = [k \in Calls |-> NoCall]
    /\ tracked = {}
    /\ leftBehind = {}

-----------------------------------------------------------------------------
(* Calls: one write after the other *)

\* What applySession may apply.
Reviewable == {c \in waiting : change[c].status = "pending"}

\* The write of change c with this content begins.
Begin(k, c, content) ==
    /\ call[k] = NoCall
    /\ call' = [call EXCEPT ![k] = [NoCall EXCEPT !.change = c, !.content = content]]

\* Mistake: the status says how the session began, not how its writes went.
SessionDone(s, failed) ==
    session' = [session EXCEPT ![s].status = "applied"]

\* The end of applySession.
SessionApplied(s, failed) ==
    session' = [session EXCEPT ![s].status = IF failed THEN "partial" ELSE "applied"]

\* applySession goes on with the first change of rest that is still pending, or
\* ends.
NextOfSession(k, s, rest, failed, mayApply) ==
    \/ /\ \A i \in 1 .. Len(rest) : rest[i] \notin mayApply
       /\ call' = [call EXCEPT ![k] = NoCall]
       /\ SessionApplied(s, failed)
    \/ \E i \in 1 .. Len(rest) :
          /\ rest[i] \in mayApply /\ \A j \in 1 .. i - 1 : rest[j] \notin mayApply
          /\ call' = [call EXCEPT ![k] =
                         [change |-> rest[i], content |-> change[rest[i]].new,
                          written |-> FALSE, rest |-> SubSeq(rest, i + 1, Len(rest)),
                          session |-> s, failed |-> failed]]
          /\ UNCHANGED session

\* The write of a call ended; a single call returns, a session goes on.
GoOn(k, failed, mayApply) ==
    IF call[k].session = None
    THEN call' = [call EXCEPT ![k] = NoCall] /\ UNCHANGED session
    ELSE NextOfSession(k, call[k].session, call[k].rest, call[k].failed \/ failed, mayApply)

\* The file shows the new text, of which nothing is left to write; writeFile() has
\* not resolved yet.
FileWritten(k) ==
    /\ call[k].change # None /\ ~call[k].written
    /\ disk' = [disk EXCEPT ![change[call[k].change].file] = call[k].content]
    /\ call' = [call EXCEPT ![k].written = TRUE, ![k].content = {}]
    /\ UNCHANGED <<change, waiting, session, tracked, leftBehind>>

\* Mistake: a change that was rejected during its write stays rejected.
WrittenIfPending(k) ==
    /\ call[k].change # None /\ call[k].written
    /\ LET c == call[k].change IN
           /\ change' = [change EXCEPT ![c].status = IF @ = "pending" THEN "applied" ELSE @]
           /\ waiting' = waiting \ {c}
           /\ GoOn(k, FALSE, Reviewable \ {c})
    /\ UNCHANGED <<disk, tracked, leftBehind>>

\* Mistake: the applied change stays in the map.
WrittenAndKept(k) ==
    /\ call[k].change # None /\ call[k].written
    /\ LET c == call[k].change IN
           /\ change' = [change EXCEPT ![c].status = "applied"]
           /\ GoOn(k, FALSE, Reviewable \ {c})
    /\ UNCHANGED <<disk, waiting, tracked, leftBehind>>

\* writeFile() resolves: the change is applied, whatever became of it and of its
\* file meanwhile.  Its newContent, which only the display reads from now on, is
\* left alone.
Written(k) ==
    /\ call[k].change # None /\ call[k].written
    /\ LET c == call[k].change IN
           /\ change' = [change EXCEPT ![c].status = "applied"]
           /\ waiting' = waiting \ {c}
           /\ leftBehind' = leftBehind \ {c}
           /\ GoOn(k, FALSE, Reviewable \ {c})
    /\ UNCHANGED <<disk, tracked>>

\* writeFile() rejects, before the file shows the text or after: the change stays
\* as it is.
WriteFails(k) ==
    /\ call[k].change # None
    /\ GoOn(k, TRUE, Reviewable)
    /\ LET c == call[k].change IN
       leftBehind' = IF call[k].written /\ change[c].status # "applied"
                     THEN leftBehind \cup {c} ELSE leftBehind
    /\ UNCHANGED <<disk, change, waiting, tracked>>

-----------------------------------------------------------------------------
(* New changes *)

\* A tool reads the file and works out the new content: all of it, or the old
\* with one text replaced.  createSession() adds one edit after the other.
Propose(c, f, s) ==
    /\ change[c].status = "unknown"
    /\ \E new \in {{c}} \cup (IF disk[f] = None THEN {} ELSE {disk[f] \cup {c}}) :
          change' = [change EXCEPT ![c] = [file |-> f, old |-> None, new |-> new,
                                           status |-> "reading", session |-> s]]
    /\ s # None => /\ session[s].status \in {"unknown", "creating"}
                   /\ \A d \in Changes : change[d].session = s => change[d].status # "reading"
    /\ session' = IF s = None THEN session ELSE [session EXCEPT ![s].status = "creating"]
    /\ UNCHANGED <<disk, waiting, call, tracked, leftBehind>>

\* addPendingChange() has read the file once more.
Added(c) ==
    /\ change[c].status = "reading"
    /\ change' = [change EXCEPT ![c].old = disk[change[c].file], ![c].status = "pending"]
    /\ waiting' = waiting \cup {c}
    /\ tracked' = tracked \cup {change[c].file}
    /\ LET s == change[c].session IN
       IF s = None
       THEN /\ UNCHANGED session
            /\ \/ UNCHANGED call  \* requireDiffApproval
               \/ \E k \in Calls : Begin(k, c, change[c].new)
       ELSE /\ session' = [session EXCEPT ![s].changes = Append(@, c)]
            /\ UNCHANGED call
    /\ UNCHANGED <<disk, leftBehind>>

\* All edits of the session are added.
SessionCreated(s) ==
    /\ session[s].status = "creating"
    /\ \A c \in Changes : change[c].session = s => change[c].status # "reading"
    /\ session' = [session EXCEPT ![s].status = "active"]
    /\ UNCHANGED <<disk, change, waiting, call, tracked, leftBehind>>

-----------------------------------------------------------------------------
(* The user *)

\* applyChange()
Apply(k, c) ==
    /\ c \in waiting
    /\ Begin(k, c, change[c].new)
    /\ UNCHANGED <<disk, change, waiting, session, tracked, leftBehind>>

\* finalizeHunkReview() with a hunk accepted: all of the change, or part of it.
ApplyHunks(k, c) ==
    /\ c \in waiting /\ change[c].old # None
    /\ \E content \in {change[c].new, change[c].old \cup {c}} : Begin(k, c, content)
    /\ UNCHANGED <<disk, change, waiting, session, tracked, leftBehind>>

\* removePendingChange(), and finalizeHunkReview() with no hunk accepted.
Reject(c) ==
    /\ c \in waiting
    /\ change' = [change EXCEPT ![c].status = "rejected"]
    /\ waiting' = waiting \ {c}
    /\ UNCHANGED <<disk, session, call, tracked, leftBehind>>

Registered(s) == session[s].status \notin {"unknown", "creating"}

\* applySession()
ApplySession(k, s) ==
    /\ Registered(s)
    /\ call[k] = NoCall
    /\ NextOfSession(k, s, session[s].changes, FALSE, Reviewable)
    /\ UNCHANGED <<disk, change, waiting, tracked, leftBehind>>

\* rejectSession()
RejectSession(s) ==
    /\ Registered(s)
    /\ LET gone == {c \in Changes : change[c].session = s /\ c \in Reviewable} IN
       /\ change' = [c \in Changes |-> IF c \in gone THEN [change[c] EXCEPT !.status = "rejected"]
                                                     ELSE change[c]]
       /\ waiting' = waiting \ gone
    /\ session' = [session EXCEPT ![s].status = "rejected"]
    /\ UNCHANGED <<disk, call, tracked, leftBehind>>

-----------------------------------------------------------------------------
ReviewNext ==
    \/ \E c \in Changes :
          \/ \E f \in Files, s \in Sessions \cup {None} : Propose(c, f, s)
          \/ Added(c)
          \/ Reject(c)
          \/ \E k \in Calls : Apply(k, c) \/ ApplyHunks(k, c)
    \/ \E k \in Calls :
          \/ FileWritten(k) \/ Written(k) \/ WriteFails(k)
          \/ \E s \in Sessions : ApplySession(k, s)
    \/ \E s \in Sessions : SessionCreated(s) \/ RejectSession(s)

-----------------------------------------------------------------------------
(* Safety *)

ReviewTypeOK ==
    /\ disk \in [Files -> Contents]
    /\ change \in [Changes -> [file : Files \cup {None}, old : Contents, new : SUBSET Changes,
                              status : Statuses, session : Sessions \cup {None}]]
    /\ waiting = {c \in Changes : change[c].status = "pending"}
    /\ session \in [Sessions -> [status  : {"unknown", "creating", "active", "applied",
                                            "partial", "rejected"},
                                 changes : Seq(Changes)]]
    /\ call \in [Calls -> [change : Changes \cup {None}, content : SUBSET Changes,
                           written : BOOLEAN, rest : Seq(Changes),
                           session : Sessions \cup {None}, failed : BOOLEAN]]
    /\ tracked \subseteq Files /\ leftBehind \subseteq Changes

\* A file may show a change: it is applied, a write under way has put it there, or
\* such a write has failed.
Accepted(c) ==
    \/ change[c].status = "applied"
    \/ \E k \in Calls : call[k].written /\ call[k].change = c
    \/ c \in leftBehind

\* A file shows no change but those: a change still under review, or rejected,
\* whose own text no write put in its file is in no file either by way of a later
\* edit, a hunk review or a checkpoint that saw it; and a change that a write has
\* put in its file is applied when the write succeeds, also if it was rejected
\* meanwhile.
DiskIsReviewed ==
    \A f \in Files : disk[f] # None => \A c \in disk[f] : Accepted(c)

\* A session reported as applied or as rejected leaves nothing to review,
\* however its changes were applied and rejected one by one while it ran.
SessionStatusTrue ==
    \A s \in Sessions : session[s].status \in {"applied", "rejected"} =>
        \A i \in 1 .. Len(session[s].changes) :
            change[session[s].changes[i]].status # "pending"

\* Nothing unreviewed is in a file, but for writes that run or failed, or in a
\* session that is reported to be decided.  Not said: that an applied change is
\* still in its file, which a later write replaces, or that the changes of a
\* session reported rejected are out of the files: rejectSession() sets that
\* status on a session that was applied, too.
NothingUnreviewed == DiskIsReviewed /\ SessionStatusTrue

(* What a step may never do *)

\* An applied change stays applied: nothing reports it rejected or offers it
\* for review again.
AppliedIsFinal ==
    [][\A c \in Changes : change[c].status = "applied" => change'[c].status = "applied"]_reviewVars
=============================================================================
