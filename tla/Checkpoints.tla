----------------------------- MODULE Checkpoints -----------------------------
(***************************************************************************)
(* The workspace with changes under review and its checkpoints             *)
(* (src/src/services/checkpoint.service.ts).  A checkpoint is taken file   *)
(* by file, before a turn of the agent or at the user's wish, and a revert *)
(* writes file by file, while changes go on being applied.                 *)
(*                                                                         *)
(* before is not in the code: it keeps what the files held when the        *)
(* checkpoint was asked for, and is emptied when anything else writes      *)
(* before the checkpoint is taken, or during the revert to it.             *)
(***************************************************************************)
EXTENDS ChangeReview, SequencesExt

CONSTANTS
    MaxCheckpoints,  \* MAX_CHECKPOINTS
    MaxStarted,      \* bound: changes proposed and checkpoints taken, together
    MaxBusy          \* bound: these, the running calls and a revert, together

ASSUME CheckpointAssumption == 
    MaxCheckpoints \in Nat \ {0} /\ MaxStarted \in Nat /\ MaxBusy \in Nat

VARIABLES
    checkpoints,  \* the list of checkpoints
    taking,       \* the checkpoint being taken
    reverting,    \* the revert under way
    taken         \* checkpoints taken so far

checkpointVars == <<checkpoints, taking, reverting, taken>>
vars == <<reviewVars, checkpointVars>>

Init ==
    /\ ReviewInit
    /\ checkpoints = << >>
    /\ taking = None
    /\ reverting = None
    /\ taken = 0

\* What some of the files held.
Snapshots == UNION {[F -> Contents] : F \in SUBSET Files}

ASSUME NoneIsNoRecord ==
    None \notin [to : 1 .. MaxStarted, left : SUBSET Files, files : Snapshots, before : Snapshots]

NoFiles == [f \in {} |-> None]

Disturbed(x) == IF x = None THEN None ELSE [x EXCEPT !.before = NoFiles]

-----------------------------------------------------------------------------
(* Taking a checkpoint *)

\* Mistake: only the files named by the caller are snapshotted.
TakeNamed(named) ==
    /\ taking = None
    /\ taken' = taken + 1
    /\ taking' = [id |-> taken + 1, left |-> named, files |-> NoFiles,
                  before |-> [f \in tracked \cup named |-> disk[f]]]
    /\ UNCHANGED <<reviewVars, checkpoints, reverting>>

\* createCheckpoint(): the tracked files and those the caller names.
Take(named) ==
    /\ taking = None
    /\ taken' = taken + 1
    /\ taking' = [id |-> taken + 1, left |-> tracked \cup named, files |-> NoFiles,
                  before |-> [f \in tracked \cup named |-> disk[f]]]
    /\ UNCHANGED <<reviewVars, checkpoints, reverting>>

With(g, f, x) == [h \in (DOMAIN g) \cup {f} |-> IF h = f THEN x ELSE g[h]]

\* readFile() of one of them; a file that is not there is noted as such.
Snapshot(f) ==
    /\ taking # None /\ f \in taking.left
    /\ taking' = [taking EXCEPT !.left = @ \ {f}, !.files = With(@, f, disk[f])]
    /\ UNCHANGED <<reviewVars, checkpoints, reverting, taken>>

\* It cannot be read: the checkpoint goes without it.
SnapshotFails(f) ==
    /\ taking # None /\ f \in taking.left
    /\ taking' = [taking EXCEPT !.left = @ \ {f},
                                !.before = [h \in (DOMAIN @) \ {f} |-> @[h]]]
    /\ UNCHANGED <<reviewVars, checkpoints, reverting, taken>>

\* Mistake: the list is cut one checkpoint too late.
CappedLate(cs) == IF Len(cs) > MaxCheckpoints + 1 THEN Tail(cs) ELSE cs

\* The list is full: the oldest go.
Capped(cs) == IF Len(cs) > MaxCheckpoints THEN Tail(cs) ELSE cs

\* All are read: the checkpoint is listed.
Taken ==
    /\ taking # None /\ taking.left = {}
    /\ checkpoints' = Capped(Append(checkpoints, [id |-> taking.id, files |-> taking.files,
                                                 before |-> taking.before]))
    /\ taking' = None
    /\ UNCHANGED <<reviewVars, reverting, taken>>

\* deleteCheckpoint()
Delete(i) ==
    /\ i \in 1 .. Len(checkpoints)
    /\ checkpoints' = RemoveAt(checkpoints, i)
    /\ UNCHANGED <<reviewVars, taking, reverting, taken>>

-----------------------------------------------------------------------------
(* Reverting *)

\* revertToCheckpoint()
Revert(i) ==
    /\ reverting = None
    /\ i \in 1 .. Len(checkpoints)
    /\ reverting' = [to |-> checkpoints[i].id, left |-> DOMAIN checkpoints[i].files,
                     files |-> checkpoints[i].files, before |-> checkpoints[i].before]
    /\ UNCHANGED <<reviewVars, checkpoints, taking, taken>>

\* Mistake: a file that was not there is restored as an empty one.
RestoreEmpty(f) ==
    /\ reverting # None /\ f \in reverting.left
    /\ disk' = [disk EXCEPT ![f] = IF reverting.files[f] = None THEN {}
                                   ELSE reverting.files[f]]
    /\ reverting' = [reverting EXCEPT !.left = @ \ {f}]
    /\ taking' = Disturbed(taking)
    /\ UNCHANGED <<change, waiting, session, call, tracked, leftBehind, checkpoints, taken>>

\* One file is written, or deleted if it was not there.
Restore(f) ==
    /\ reverting # None /\ f \in reverting.left
    /\ disk' = [disk EXCEPT ![f] = reverting.files[f]]
    /\ reverting' = [reverting EXCEPT !.left = @ \ {f}]
    /\ taking' = Disturbed(taking)
    /\ UNCHANGED <<change, waiting, session, call, tracked, leftBehind, checkpoints, taken>>

\* It cannot be: an error is noted and the revert goes on.
RestoreFails(f) ==
    /\ reverting # None /\ f \in reverting.left
    /\ reverting' = [Disturbed(reverting) EXCEPT !.left = @ \ {f}]
    /\ UNCHANGED <<reviewVars, checkpoints, taking, taken>>

\* The list ends with the checkpoint reverted to, if it is still there.
Reverted ==
    /\ reverting # None /\ reverting.left = {}
    /\ LET at == {i \in 1 .. Len(checkpoints) : checkpoints[i].id = reverting.to} IN
       checkpoints' = IF at = {} THEN checkpoints
                      ELSE SubSeq(checkpoints, 1, CHOOSE i \in at : TRUE)
    /\ reverting' = None
    /\ UNCHANGED <<reviewVars, taking, taken>>

-----------------------------------------------------------------------------
\* A step of the review; what it writes disturbs a checkpoint or a revert.
Review ==
    /\ ReviewNext
    /\ IF disk' = disk THEN UNCHANGED <<taking, reverting>>
       ELSE taking' = Disturbed(taking) /\ reverting' = Disturbed(reverting)
    /\ UNCHANGED <<checkpoints, taken>>

Started == taken + Cardinality({c \in Changes : change[c].status # "unknown"})
Busy == Started + Cardinality({k \in Calls : call[k] # NoCall}) + IF reverting = None THEN 0 ELSE 1

Next ==
    \/ Review /\ Started' <= MaxStarted /\ Busy' <= MaxBusy
    \/ Started < MaxStarted /\ Busy < MaxBusy /\ \E named \in SUBSET Files : Take(named)
    \/ \E f \in Files : Snapshot(f) \/ SnapshotFails(f) \/ Restore(f) \/ RestoreFails(f)
    \/ Taken \/ Reverted
    \/ \E i \in 1 .. MaxCheckpoints : (Busy < MaxBusy /\ Revert(i)) \/ Delete(i)

Spec == Init /\ [][Next]_vars
-----------------------------------------------------------------------------
\* The type of every variable; the map of the pending changes and their status
\* never diverge.
TypeOK ==
    /\ ReviewTypeOK
    /\ checkpoints \in Seq([id : 1 .. MaxStarted, files : Snapshots, before : Snapshots])
    /\ Len(checkpoints) <= MaxCheckpoints
    /\ taking # None =>
          taking \in [id : 1 .. MaxStarted, left : SUBSET Files,
                     files : Snapshots, before : Snapshots]
    /\ reverting # None =>
          reverting \in [to : 1 .. MaxStarted, left : SUBSET Files,
                        files : Snapshots, before : Snapshots]
    /\ taken \in 0 .. MaxStarted

\* "the user can revert to any previous checkpoint which restores every
\* snapshotted file to its captured state (or deletes it if it didn't exist at
\* checkpoint time)": a revert without errors brings every file the agent had
\* proposed to change before the checkpoint back to what it was when the
\* checkpoint was asked for, if nothing wrote while either ran.
RevertRestores ==
    [][reverting # None /\ reverting' = None =>
          \A f \in DOMAIN reverting.before : disk[f] = reverting.before[f]]_vars
=============================================================================
