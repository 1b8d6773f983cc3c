------------------------------- MODULE Staging -------------------------------
(***************************************************************************)
(* Isolated runs (adapters/src/sandbox/isolate.rs): a command works on a   *)
(* copy of the workspace, what it changed is kept on disk until somebody   *)
(* has reviewed it, and is then merged into the workspace or discarded.    *)
(*                                                                         *)
(* The user and the merges of other calls go on writing to the workspace   *)
(* all the while, also while it is copied and while it is merged into, and *)
(* the process may die between any two writes; the kernel dispatches a     *)
(* merge again until its outcome is in the journal.                        *)
(*                                                                         *)
(* A path holds nothing, a directory, or a file named by who wrote it.     *)
(* Modes, symbolic links, git's object store and the saving of originals   *)
(* before a merge (Shadow has it) are left out.                            *)
(***************************************************************************)
EXTENDS Naturals, FiniteSets, SequencesExt

CONSTANTS
  Calls,       \* calls that run isolated
  Order,       \* the paths of the workspace, directories before their entries
  Folder,      \* the directory each path is in
  Above,       \* the directories around it, but for
  Root,        \* the workspace itself
  MaxStaged,   \* MAX_STAGED
  MaxEdits,    \* bound on what the user does
  MaxCrashes   \* bound on deaths of the process

Paths == Range(Order)
Nothing == "nothing"
Dir     == "dir"
Old     == "old"
User    == "user"
IsFile(entry) == entry \notin {Nothing, Dir}

ASSUME StagingAssumption ==
  /\ Order \in Seq(Paths)
  /\ Root \notin Paths /\ Folder \in [Paths -> Paths \cup {Root}]
  /\ Above \in [Paths -> SUBSET Paths]
  /\ \A p \in Paths :
       /\ p \notin Above[p]
       /\ Above[p] = IF Folder[p] = Root THEN {} ELSE {Folder[p]} \cup Above[Folder[p]]
       /\ \A q \in Above[p] : Above[q] \subseteq Above[p]
  /\ Calls \cap {Nothing, Dir, Old, User, "none"} = {}

VARIABLES
  workspace,   \* what each path holds
  phase,       \* how far each call is
  walk,        \* copy_tree: the next path, and whether its metadata is read
  copy,        \* IsolatedCopy: the scratch copy of each call
  originals,   \* IsolatedCopy::originals, later Manifest::originals
  touched,     \* paths whose metadata is no longer that in `originals'
  changes,     \* Manifest::changes
  kept,        \* calls with a staged run on disk, oldest first
  done,        \* <id>.done.json of each call
  job,         \* the merge that holds Staging::lock
  edits, crashes,
  (* history *)
  foreign,     \* paths that others wrote since the call looked at them
  lost         \* <<call, path>>: known work of others that a merge destroyed

copies  == <<walk, copy, originals>>
vars == <<workspace, phase, copies, touched, changes, kept, done, job, edits, crashes, foreign, lost>>

Empty == [p \in Paths |-> Nothing]
NoJob == [call |-> "none"]

(* What is there is in directories that are there.                         *)
IsTree(tree) == \A p \in Paths : tree[p] # Nothing => \A q \in Above[p] : tree[q] = Dir

Init ==
  /\ workspace \in [Paths -> {Nothing, Dir, Old}]
  /\ IsTree(workspace)
  /\ \A p \in Paths : workspace[p] = Dir <=> p \in Range(Folder)
  /\ phase = [k \in Calls |-> "idle"]
  /\ walk = [k \in Calls |-> [at |-> 1, read |-> FALSE]]
  /\ copy = [k \in Calls |-> Empty] /\ originals = [k \in Calls |-> Empty]
  /\ changes = [k \in Calls |-> {}]
  /\ kept = <<>> /\ done = [k \in Calls |-> "none"] /\ job = NoJob
  /\ edits = 0 /\ crashes = 0
  /\ touched = [k \in Calls |-> {}] /\ foreign = [k \in Calls |-> {}]
  /\ lost = {}

Under(p) == {q \in Paths : q = p \/ p \in Above[q]}
Present(p) == IF p = Root THEN TRUE ELSE workspace[p] = Dir
Without(p) == [q \in Paths |-> IF q \in Under(p) THEN Nothing ELSE workspace[q]]

(* `by' writes `paths' of the workspace, which then is `now'.              *)
Becomes(now, paths, by) ==
  /\ workspace' = now
  /\ touched' = [k \in Calls |-> touched[k] \cup paths]
  /\ foreign' = [k \in Calls |-> IF k = by THEN foreign[k] \ paths ELSE foreign[k] \cup paths]

-----------------------------------------------------------------------------
(* The user, at any time.                                                  *)

Edit(now, paths) ==
  /\ edits < MaxEdits /\ edits' = edits + 1
  /\ Becomes(now, paths, User)
  /\ job' = IF job = NoJob THEN job ELSE [job EXCEPT !.known = @ \ paths]
  /\ UNCHANGED <<phase, copies, changes, kept, done, crashes, lost>>

UserWrites(p) == workspace[p] # Dir /\ Present(Folder[p]) /\ Edit([workspace EXCEPT ![p] = User], {p})
UserMakes(p)  == workspace[p] = Nothing /\ p \in Range(Folder) /\ Present(Folder[p]) /\ Edit([workspace EXCEPT ![p] = Dir], {p})
UserRemoves(p) == workspace[p] # Nothing /\ Edit(Without(p), {q \in Under(p) : workspace[q] # Nothing})

-----------------------------------------------------------------------------
(* IsolatedCopy::create: one path after the other, its metadata first.     *)

Start(k) ==
  /\ phase[k] = "idle"
  /\ phase' = [phase EXCEPT ![k] = "copying"]
  /\ UNCHANGED <<workspace, copies, touched, changes, kept, done, job, edits, crashes, foreign, lost>>

Copying(k) == phase[k] = "copying" /\ walk[k].at <= Len(Order)
Here(k) == Order[walk[k].at]
Past(k) == walk' = [walk EXCEPT ![k] = [at |-> walk[k].at + 1, read |-> FALSE]]
Listed(k, p) == workspace[p] # Nothing /\ (Folder[p] = Root \/ copy[k][Folder[p]] = Dir)

ReadMeta(k) ==
  LET p == Here(k) IN
  /\ Copying(k) /\ ~walk[k].read
  /\ IF ~Listed(k, p) THEN Past(k) /\ UNCHANGED <<copy, originals, touched>>
     ELSE /\ originals' = [originals EXCEPT ![k][p] = workspace[p]]
          /\ touched' = [touched EXCEPT ![k] = @ \ {p}]
          /\ IF workspace[p] = Dir
             THEN Past(k) /\ copy' = [copy EXCEPT ![k][p] = Dir]
             ELSE walk' = [walk EXCEPT ![k].read = TRUE] /\ UNCHANGED copy
  /\ foreign' = [foreign EXCEPT ![k] = @ \ {p}]
  /\ UNCHANGED <<workspace, phase, changes, kept, done, job, edits, crashes, lost>>

(* A file that is gone, or a directory now, fails the whole copy.          *)
CopyFile(k) ==
  LET p == Here(k) IN
  /\ Copying(k) /\ walk[k].read
  /\ IF IsFile(workspace[p])
     THEN /\ copy' = [copy EXCEPT ![k][p] = workspace[p]] /\ Past(k) /\ UNCHANGED phase
     ELSE /\ phase' = [phase EXCEPT ![k] = "over"] /\ UNCHANGED <<walk, copy>>
  /\ UNCHANGED <<workspace, originals, touched, changes, kept, done, job, edits, crashes, foreign, lost>>

-----------------------------------------------------------------------------
(* The command runs; what it changed is staged.                            *)

(* What the command may leave: any tree of its own files, of what it found *)
(* and of directories.                                                     *)
Trees(k) ==
  {t \in [Paths -> {Nothing, Dir, Old, User} \cup Calls] :
     /\ IsTree(t)
     /\ \A p \in Paths : t[p] \in {Nothing, copy[k][p], k} \cup (IF p \in Range(Folder) THEN {Dir} ELSE {})}

(* IsolatedCopy::changes: files rewritten as they were do not count, if    *)
(* the originals are there to tell (same_as_original).                     *)
SameAsOriginal(k, p) == p \notin touched[k] /\ originals[k][p] # Nothing
ChangesIn(k, tree, rewritten) ==
  {p \in Paths : tree[p] # copy[k][p]} \cup {p \in rewritten : ~SameAsOriginal(k, p)}
Unchanged(k, tree) == {p \in Paths : tree[p] = copy[k][p] /\ IsFile(tree[p])}

(* Staging::bound: the oldest go.                                          *)
Bound(s) == IF Len(s) > MaxStaged THEN Tail(s) ELSE s

RunStaged(k) ==
  /\ phase[k] = "copying" /\ walk[k].at > Len(Order)
  /\ \E tree \in Trees(k) : \E rewritten \in {{}, Unchanged(k, tree)} :
       LET found == ChangesIn(k, tree, rewritten) IN
       /\ copy' = [copy EXCEPT ![k] = tree]
       /\ changes' = [changes EXCEPT ![k] = found]
       /\ phase' = [phase EXCEPT ![k] = IF found = {} THEN "over" ELSE "review"]
       /\ kept' = IF found = {} THEN kept ELSE Bound(Append(kept, k))
  /\ UNCHANGED <<workspace, walk, originals, touched, done, job, edits, crashes, foreign, lost>>

(* A hard interrupt drops the call, or the gate that reviews it; a staged  *)
(* run stays until it is the oldest.                                       *)
Abandon(k) ==
  /\ phase[k] \in {"copying", "review"}
  /\ phase' = [phase EXCEPT ![k] = "over"]
  /\ UNCHANGED <<workspace, copies, touched, changes, kept, done, job, edits, crashes, foreign, lost>>

(* The kernel: review_changes, merge_by_verdict; the order is journaled.   *)
Review(k) ==
  /\ phase[k] = "review"
  /\ \E order \in {"apply", "discard"} : phase' = [phase EXCEPT ![k] = order]
  /\ UNCHANGED <<workspace, copies, touched, changes, kept, done, job, edits, crashes, foreign, lost>>

-----------------------------------------------------------------------------
(* Staging::merge, under its lock.                                         *)

Report(k, ok) == phase' = [phase EXCEPT ![k] = IF ok THEN "ok" ELSE "failed"]

(* Mutant: what matters of a file is that it is there.                     *)
UntouchedKind(k, p) == (originals[k][p] = Nothing) = (workspace[p] = Nothing)

(* untouched_since: the entries of a directory are changes of their own.   *)
Untouched(k, p) ==
  LET was == originals[k][p]  now == workspace[p] IN
  \/ was = Nothing /\ now = Nothing
  \/ was = Dir /\ now = Dir
  \/ IsFile(was) /\ IsFile(now) /\ p \notin touched[k]

HoldsStaged(k, p) == workspace[p] = copy[k][p]
Pending(k)   == {p \in changes[k] : ~HoldsStaged(k, p)}
Conflicts(k) == {p \in Pending(k) : ~Untouched(k, p)}

(* apply_isolated_changes: deletions deepest first, then writes.           *)
Place(p) == CHOOSE i \in DOMAIN Order : Order[i] = p
Rank(k, p) == IF copy[k][p] = Nothing THEN Len(Order) - Place(p) ELSE Len(Order) + Place(p)

Job(k, todo, at, ok) == [call |-> k, todo |-> todo, at |-> at, ok |-> ok, known |-> foreign[k]]

Recorded(k) == done[k] # "none"
Merge(k) ==
  /\ phase[k] \in {"apply", "discard"} /\ job = NoJob
  /\ IF Recorded(k) THEN Report(k, done[k] = phase[k]) /\ UNCHANGED job
     ELSE IF ~Contains(kept, k) THEN Report(k, FALSE) /\ UNCHANGED job
     ELSE /\ job' = IF phase[k] = "discard" THEN Job(k, {}, "record", TRUE)
                    ELSE IF Conflicts(k) # {} THEN Job(k, {}, "record", FALSE)
                    ELSE Job(k, Pending(k), "apply", TRUE)
          /\ UNCHANGED phase
  /\ UNCHANGED <<workspace, copies, touched, changes, kept, done, edits, crashes, foreign, lost>>

Applies(p) ==
  /\ job # NoJob /\ job.at = "apply"
  /\ p \in job.todo /\ \A q \in job.todo : Rank(job.call, p) <= Rank(job.call, q)
Wanted(p) == copy[job.call][p]
(* A path that changes between file and directory is emptied first.        *)
Emptied(p) == workspace[p] # Nothing /\ (Wanted(p) = Nothing \/ (workspace[p] = Dir) # (Wanted(p) = Dir))
(* A directory around it is a file by now: an error, and the rest is not   *)
(* applied.                                                                *)
Blocked(p) == \E q \in Above[p] : IsFile(workspace[q])

Writes(now, paths, todo) ==
  LET k == job.call IN
  /\ Becomes(now, paths, k)
  /\ lost' = lost \cup {<<k, q>> : q \in {r \in paths \cap job.known : IsFile(workspace[r])}}
  /\ job' = [job EXCEPT !.todo = todo, !.known = @ \ paths]
  /\ UNCHANGED <<phase, copies, changes, kept, done, edits, crashes>>

(* remove_any                                                              *)
Clear(p) ==
  /\ Applies(p) /\ Emptied(p)
  /\ Writes(Without(p), {q \in Under(p) : workspace[q] # Nothing},
            IF Wanted(p) = Nothing THEN job.todo \ {p} ELSE job.todo)

(* Files are replaced by a rename, and missing directories around made.    *)
Put(p) ==
  LET missing == {q \in Above[p] : workspace[q] = Nothing} IN
  /\ Applies(p) /\ ~Emptied(p) /\ ~Blocked(p)
  /\ IF Wanted(p) = Nothing THEN Writes(workspace, {}, job.todo \ {p})
     ELSE Writes([q \in Paths |-> IF q = p THEN Wanted(p) ELSE IF q \in missing THEN Dir ELSE workspace[q]],
                 {p} \cup missing, job.todo \ {p})

ApplyFails(p) ==
  /\ Applies(p) /\ ~Emptied(p) /\ Blocked(p)
  /\ job' = [job EXCEPT !.at = "record", !.ok = FALSE, !.todo = {}]
  /\ UNCHANGED <<workspace, phase, copies, touched, changes, kept, done, edits, crashes, foreign, lost>>

(* The outcome is recorded before the run is removed.                      *)
Record ==
  LET k == job.call IN
  /\ job # NoJob /\ job.todo = {} /\ job.at \in {"apply", "record"}
  /\ done' = [done EXCEPT ![k] = IF job.ok THEN phase[k] ELSE "error"]
  /\ job' = [job EXCEPT !.at = "remove"]
  /\ UNCHANGED <<workspace, phase, copies, touched, changes, kept, edits, crashes, foreign, lost>>

RemoveRun ==
  /\ job # NoJob /\ job.at = "remove"
  /\ kept' = SelectSeq(kept, LAMBDA k : k # job.call)
  /\ job' = [job EXCEPT !.at = "report"]
  /\ UNCHANGED <<workspace, phase, copies, touched, changes, done, edits, crashes, foreign, lost>>

(* The completion reaches the journal.                                     *)
Reports ==
  /\ job # NoJob /\ job.at = "report"
  /\ Report(job.call, job.ok)
  /\ job' = NoJob
  /\ UNCHANGED <<workspace, copies, touched, changes, kept, done, edits, crashes, foreign, lost>>

(* Copies are in a temporary directory, staged runs and records are not.   *)
Crash ==
  /\ crashes < MaxCrashes /\ crashes' = crashes + 1
  /\ phase' = [k \in Calls |-> IF phase[k] = "copying" THEN "over" ELSE phase[k]]
  /\ job' = NoJob
  /\ UNCHANGED <<workspace, copies, touched, changes, kept, done, edits, foreign, lost>>

Next ==
  \/ \E p \in Paths : UserWrites(p) \/ UserMakes(p) \/ UserRemoves(p)
  \/ \E k \in Calls : Start(k) \/ ReadMeta(k) \/ CopyFile(k) \/ RunStaged(k) \/ Abandon(k) \/ Review(k) \/ Merge(k)
  \/ \E p \in Paths : Clear(p) \/ Put(p) \/ ApplyFails(p)
  \/ Record \/ RemoveRun \/ Reports
  \/ Crash

Spec == Init /\ [][Next]_vars

-----------------------------------------------------------------------------
(* Of the paths it changes, a merge destroys nothing that others wrote     *)
(* between the copy and the merge's look at the workspace, whatever was    *)
(* written while copying, and however often the merge is run again.        *)
EditsKept == \A pair \in lost : pair[2] \notin changes[pair[1]]

(* The same of every path, as the doc of apply_staged has it.  It is false *)
(* of the code: what the user added to a directory goes with it.           *)
OthersKept == lost = {}
=============================================================================
