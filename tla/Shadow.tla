------------------------------- MODULE Shadow -------------------------------
(***************************************************************************)
(* The shadow checkpointer's records and what a rewind does with them:     *)
(* originals saved before a batch, patterns that attribute a change to the *)
(* agent, checkpoints that close one interval and open the next, restores  *)
(* file by file, and crash recovery (runtime/src/shadow.rs, the executors  *)
(* of runtime/src/dispatch.rs that call it, and the background tasks that  *)
(* go on writing between checkpoints, runtime/src/tasks.rs).               *)
(*                                                                         *)
(* A scan is one step here: that it finds every change is the business of  *)
(* the module Detect.  A content is the number of the write that produced  *)
(* it, 0 is a missing file.  The user edits any file at any time.          *)
(***************************************************************************)
EXTENDS Naturals, Sequences, FiniteSets, SequencesExt

CONSTANTS
    Declared,    \* paths a batch with a declared write names exactly
    Background,  \* paths a background task declares
    Staged,      \* paths an isolated call changes
    Overlap,     \* may a batch start while a safe-point checkpoint is pending?
    MaxEdits, MaxWrites,       \* bounds: writes of the user and of the agent,
    MaxRecords, MaxCrashes     \* planned checkpoints, crashes

ASSUME ShadowAssumption ==
    /\ Overlap \in BOOLEAN
    /\ {MaxEdits, MaxWrites, MaxRecords, MaxCrashes} \subseteq Nat

Paths == Declared \cup Background \cup Staged
Absent == 0

VARIABLES
    file,        \* path -> [sha |-> content, at |-> modification time]
    clock,       \* writes so far, of anybody
    written,     \* of these: by the user, by the agent (both are bounded)
    scan,        \* path -> the same, as last scanned
    scannedOnce,
    records,     \* closed intervals: agent |-> path -> [before, after]; and
                 \* for the properties, at its end: snap, the contents, and
                 \* stale, the paths of which the store knows another one;
                 \* user, the paths the user has written since
    pendingPatterns, pendingOriginals,   \* of the current interval
    stagedPatterns, stagedOriginals,     \* for the interval opened next
    batch,       \* the batch in flight and its checkpoint
    safe,        \* the safe-point checkpoint: "idle", "due" once calls have
                 \* run, or in flight
    task,        \* the background task
    restore,     \* the rewind in flight
    crashes,
    branch,      \* records whose checkpoint the journal has, on its branch
    author       \* for the properties: who wrote a content, under a pattern
                 \* or not

kept == <<scan, scannedOnce, records, pendingPatterns, pendingOriginals,
          stagedPatterns, stagedOriginals>>
shadowVars == <<file, clock, written, kept, batch, safe, task, restore, crashes,
                branch, author>>

NoBatch == [phase |-> "none", kind |-> "exact"]
NoRestore == [phase |-> "none", to |-> 0, todo |-> <<>>, undo |-> <<>>,
              conflicts |-> {}]

(* A batch declares exact paths, or the whole workspace (an opaque call,   *)
(* isolated or not).                                                       *)
PatternsOf(kind) == IF kind = "exact" THEN Declared ELSE Paths
\* What it may change itself: an isolated call only its own copy.
WritesOf(kind) == CASE kind = "exact"    -> Declared
                    [] kind = "opaque"   -> Paths
                    [] kind = "isolated" -> {}

(* The originals of exact paths are kept from the first time they are      *)
(* staged until the next checkpoint.                                       *)
Originals(paths) ==
    [p \in paths \cup DOMAIN stagedOriginals |->
        IF p \in DOMAIN stagedOriginals THEN stagedOriginals[p] ELSE file[p].sha]

SaveOriginals(kind) ==
    /\ stagedPatterns' = stagedPatterns \cup PatternsOf(kind)
    /\ stagedOriginals' = IF kind = "exact" THEN Originals(Declared)
                                            ELSE stagedOriginals

\* Mutant: background tasks are not declared.
WriteScopesNone == {}

\* Patterns of the background tasks that have not ended.
WriteScopes == IF task = "none" THEN {} ELSE Background
DeclareWrites ==
    /\ stagedPatterns' = stagedPatterns \cup WriteScopes
    /\ UNCHANGED <<scan, scannedOnce, records, pendingPatterns, pendingOriginals,
                   stagedOriginals>>

(* Only a file whose modification time changed is hashed again.            *)
Scanned == [p \in Paths |-> IF file[p].at = scan[p].at THEN scan[p] ELSE file[p]]

(* Nothing counts as a change at the first scan.                           *)
Changed == {p \in Paths : scannedOnce /\ scan[p].sha # Scanned[p].sha}
\* Mutant: every change is the agent's.
AttributedAll ==
    [p \in Changed |-> [before |-> scan[p].sha, after |-> Scanned[p].sha]]

Attributed ==
    [p \in Changed \cap pendingPatterns |->
        [before |-> IF p \in DOMAIN pendingOriginals THEN pendingOriginals[p]
                                                     ELSE scan[p].sha,
         after |-> Scanned[p].sha]]

\* The store has another content of the path than the workspace.
Mistaken(p) ==
    \/ Scanned[p].sha # file[p].sha
    \/ p \in DOMAIN stagedOriginals /\ stagedOriginals[p] # file[p].sha

NewRecord(agent) ==
    [agent |-> agent,
     snap |-> [p \in Paths |-> file[p].sha], user |-> {},
     stale |-> {p \in Paths : Mistaken(p)}]

(* Close the interval, and open the next one with what has been staged     *)
(* and what the checkpoint's own scope declares.                           *)
Checkpoint(declares) ==
    /\ records' = Append(records, NewRecord(Attributed))
    /\ scan' = Scanned
    /\ scannedOnce' = TRUE
    /\ pendingPatterns' = stagedPatterns \cup declares
    /\ pendingOriginals' = stagedOriginals
    /\ stagedPatterns' = {}
    /\ stagedOriginals' = <<>>

\* Its result is in the journal: a rewind may go to it.
Reported == branch' = branch \cup {Len(records) + 1}

ShadowInit ==
    /\ file = [p \in Paths |-> [sha |-> Absent, at |-> 0]]
    /\ clock = 0
    /\ written = [user |-> 0, agent |-> 0]
    /\ scan = file
    /\ scannedOnce = FALSE
    /\ records = <<>>
    /\ pendingPatterns = {}
    /\ pendingOriginals = <<>>
    /\ stagedPatterns = {}
    /\ stagedOriginals = <<>>
    /\ batch = NoBatch
    /\ safe = "idle"
    /\ task = "none"
    /\ restore = NoRestore
    /\ crashes = 0
    /\ branch = {}
    /\ author = [p \in Paths |-> "agent"]

-----------------------------------------------------------------------------
(* Writes to the workspace.  A content is new, or the file is removed.     *)
Limit == [user |-> MaxEdits, agent |-> MaxWrites]
Write(who, p, content) ==
    /\ written[who] < Limit[who]
    /\ written' = [written EXCEPT ![who] = @ + 1]
    /\ clock' = clock + 1
    /\ content \in {clock + 1, Absent}
    /\ file' = [file EXCEPT ![p] = [sha |-> content, at |-> clock + 1]]

\* The user's own edit: free of the agent's patterns, or under one of them.
UserWrite(p) ==
    /\ Write("user", p, clock + 1)
    /\ author' = [author EXCEPT ![p] =
           IF p \in pendingPatterns \/ restore.phase = "writing" THEN "under" ELSE "user"]
    /\ records' = [i \in DOMAIN records |->
                      [records[i] EXCEPT !.user = @ \cup {p}]]
    /\ UNCHANGED <<scan, scannedOnce, pendingPatterns, pendingOriginals, stagedPatterns,
                   stagedOriginals, batch, safe, task, restore, crashes, branch>>

AgentWrite(p, content) ==
    /\ batch.phase = "running"
    /\ p \in WritesOf(batch.kind)
    /\ Write("agent", p, content)
    /\ author' = [author EXCEPT ![p] = "agent"]
    /\ UNCHANGED <<kept, batch, safe, task, restore, crashes, branch>>

TaskWrite(p) ==
    /\ task # "none"
    /\ p \in Background
    /\ Write("agent", p, clock + 1)
    /\ author' = [author EXCEPT ![p] = "agent"]
    /\ UNCHANGED <<kept, batch, safe, task, restore, crashes, branch>>

-----------------------------------------------------------------------------
(* A batch: its checkpoint effect declares the background tasks' writes,   *)
(* saves originals and closes the interval; then it runs.                  *)
Quiet == restore.phase = "none"
SafePending == safe \in {"declaring", "closing"}
SafeDue == IF safe = "idle" THEN "due" ELSE safe

PlanBatch(kind) ==
    /\ batch.phase = "none"
    /\ Quiet
    /\ Overlap \/ ~ SafePending
    /\ Len(records) < MaxRecords
    /\ batch' = [phase |-> "declaring", kind |-> kind]
    /\ UNCHANGED <<file, clock, written, kept, safe, task, restore, crashes, branch, author>>

BatchDeclare ==
    /\ batch.phase = "declaring"
    /\ DeclareWrites
    /\ batch' = [batch EXCEPT !.phase = "saving"]
    /\ UNCHANGED <<file, clock, written, safe, task, restore, crashes, branch, author>>

BatchSave ==
    /\ batch.phase = "saving"
    /\ SaveOriginals(batch.kind)
    /\ batch' = [batch EXCEPT !.phase = "closing"]
    /\ UNCHANGED <<file, clock, written, scan, scannedOnce, records, pendingPatterns,
                   pendingOriginals, safe, task, restore, crashes, branch, author>>

BatchCheckpoint ==
    /\ batch.phase = "closing"
    /\ Checkpoint(PatternsOf(batch.kind)) /\ Reported
    /\ batch' = [batch EXCEPT !.phase = "running"]
    /\ UNCHANGED <<file, clock, written, safe, task, restore, crashes, author>>

\* An opaque call may leave a command behind as a background task.
StartTask ==
    /\ batch.phase = "running"
    /\ batch.kind = "opaque"
    /\ task = "none"
    /\ task' = "running"
    /\ UNCHANGED <<file, clock, written, kept, batch, safe, restore, crashes, branch, author>>

TaskEnds ==
    /\ task # "none"
    /\ task' = "none"
    /\ UNCHANGED <<file, clock, written, kept, batch, safe, restore, crashes, branch, author>>

\* The batch ends; what an isolated call staged is merged afterwards.
BatchEnds ==
    /\ batch.phase = "running"
    /\ batch' = IF batch.kind = "isolated" /\ Staged # {}
                THEN [batch EXCEPT !.phase = "merging"] ELSE NoBatch
    /\ safe' = SafeDue
    /\ UNCHANGED <<file, clock, written, kept, task, restore, crashes, branch, author>>

\* A hard interrupt cancels a checkpoint or a batch, never a merge.
Cancel ==
    /\ \/ /\ batch.phase \in {"declaring", "saving", "closing", "running"}
          /\ batch' = NoBatch
          /\ UNCHANGED safe
       \/ /\ SafePending
          /\ safe' = "idle"
          /\ UNCHANGED batch
    /\ UNCHANGED <<file, clock, written, kept, task, restore, crashes, branch, author>>

(* The merge saves the originals of the staged paths, then applies them;   *)
(* it takes no checkpoint of its own.                                      *)
MergeSave ==
    /\ batch.phase = "merging"
    /\ stagedPatterns' = stagedPatterns \cup Staged
    /\ stagedOriginals' = Originals(Staged)
    /\ batch' = [batch EXCEPT !.phase = "applying"]
    /\ UNCHANGED <<file, clock, written, scan, scannedOnce, records, pendingPatterns,
                   pendingOriginals, safe, task, restore, crashes, branch, author>>

MergeApply ==
    /\ batch.phase = "applying"
    /\ batch.kind = "isolated"
    /\ written.agent < MaxWrites
    /\ written' = [written EXCEPT !.agent = @ + 1]
    /\ clock' = clock + 1
    /\ file' = [p \in Paths |-> IF p \in Staged
                                THEN [sha |-> clock + 1, at |-> clock + 1] ELSE file[p]]
    /\ author' = [p \in Paths |-> IF p \in Staged THEN "agent" ELSE author[p]]
    /\ batch' = [batch EXCEPT !.phase = "applied"]
    /\ UNCHANGED <<kept, safe, task, restore, crashes, branch>>

\* The merge reports; it fails when the workspace changed meanwhile or a
\* restart lost the staged copy.
MergeEnds ==
    /\ batch.phase \in {"applying", "applied"}
    /\ batch' = NoBatch
    /\ UNCHANGED <<file, clock, written, kept, safe, task, restore, crashes, branch, author>>

(* The checkpoint of a safe point, before the model is asked again: it     *)
(* declares nothing, and nobody waits for it.                              *)
SafePoint ==
    /\ safe = "due"
    /\ batch.phase = "none"
    /\ Quiet
    /\ Len(records) < MaxRecords
    /\ safe' = "declaring"
    /\ UNCHANGED <<file, clock, written, kept, batch, task, restore, crashes, branch, author>>

SafeDeclare ==
    /\ safe = "declaring"
    /\ DeclareWrites
    /\ safe' = "closing"
    /\ UNCHANGED <<file, clock, written, batch, task, restore, crashes, branch, author>>

SafeCheckpoint ==
    /\ safe = "closing"
    /\ Checkpoint({}) /\ Reported
    /\ safe' = "idle"
    /\ UNCHANGED <<file, clock, written, batch, task, restore, crashes, author>>

-----------------------------------------------------------------------------
(* A rewind stops the background writers, captures what has changed since  *)
(* the last checkpoint, and works off the changes of the agent since the   *)
(* target, a file at a time.                                               *)
Targets == {0} \cup branch
Rewind(k) ==
    /\ Quiet
    /\ batch.phase = "none"
    /\ Overlap \/ ~ SafePending
    /\ Len(records) < MaxRecords
    /\ restore' = [NoRestore EXCEPT !.phase = "stopping", !.to = k]
    /\ task' = IF task = "running" THEN "stopping" ELSE task
    /\ UNCHANGED <<file, clock, written, kept, batch, safe, crashes, branch, author>>

(* The first change of a path after the target gives what to put back, the *)
(* last one what the agent left there.                                     *)
Since(recs, k) == {i \in DOMAIN recs : i > k}
PlanOf(recs, k) ==
    LET touched == UNION {DOMAIN recs[i].agent : i \in Since(recs, k)}
        ofPath(p) == {i \in Since(recs, k) : p \in DOMAIN recs[i].agent}
        first(S) == CHOOSE i \in S : \A j \in S : i <= j
        last(S) == CHOOSE i \in S : \A j \in S : j <= i
    IN  [p \in touched |-> [target |-> recs[first(ofPath(p))].agent[p].before,
                            left |-> recs[last(ofPath(p))].agent[p].after]]

RestoreCapture ==
    /\ restore.phase = "stopping"
    /\ task = "none"
    /\ Checkpoint({})
    /\ LET plan == PlanOf(records', restore.to)
           now(p) == scan'[p].sha
           mine == {p \in DOMAIN plan : now(p) # plan[p].target /\ now(p) = plan[p].left}
       IN  restore' = [restore EXCEPT
               !.phase = "writing",
               !.todo = [p \in mine |-> [before |-> now(p), after |-> plan[p].target]],
               !.conflicts = {p \in DOMAIN plan : now(p) \notin {plan[p].target, plan[p].left}}]
    /\ UNCHANGED <<file, clock, written, batch, safe, task, crashes, branch, author>>

Without(f, p) == [q \in DOMAIN f \ {p} |-> f[q]]
With(f, p, e) == [q \in DOMAIN f \cup {p} |-> IF q = p THEN e ELSE f[q]]

RestoreWrite(p) ==
    /\ restore.phase = "writing"
    /\ p \in DOMAIN restore.todo
    /\ clock' = clock + 1
    /\ file' = [file EXCEPT ![p] = [sha |-> restore.todo[p].after, at |-> clock + 1]]
    /\ restore' = [restore EXCEPT !.todo = Without(@, p),
                                  !.undo = With(@, p, restore.todo[p])]
    /\ author' = [author EXCEPT ![p] = "agent"]
    /\ UNCHANGED <<written, kept, batch, safe, task, crashes, branch>>

(* The scan entries of the rewritten files take the metadata found now and *)
(* the hash that was written; the restore is recorded as a change of the   *)
(* agent.                                                                  *)
RestoreFinish ==
    /\ restore.phase = "writing"
    /\ restore.todo = <<>>
    /\ scan' = [p \in Paths |-> IF p \in DOMAIN restore.undo
                                THEN [sha |-> restore.undo[p].after, at |-> file[p].at]
                                ELSE scan[p]]
    /\ records' = IF restore.undo = <<>> THEN records
                  ELSE Append(records, NewRecord(restore.undo))
    /\ restore' = [restore EXCEPT !.phase = "report"]
    /\ UNCHANGED <<file, clock, written, scannedOnce, pendingPatterns, pendingOriginals,
                   stagedPatterns, stagedOriginals, batch, safe, task, crashes, branch, author>>

RestoreReported ==
    /\ restore.phase = "report"
    /\ restore' = NoRestore
    /\ branch' = {i \in branch : i <= restore.to}
    /\ UNCHANGED <<file, clock, written, kept, batch, safe, task, crashes, author>>

-----------------------------------------------------------------------------
(* A crash takes the task and the staged copy with it; what the store      *)
(* holds is what it held after the last operation.  Checkpoints, merges    *)
(* and restores are done again; a batch with declared writes gets its      *)
(* originals back first, an opaque one is not run again.  A file that was  *)
(* being rewritten is left with part of its content.                       *)
AfterCrash(b) ==
    CASE b.phase \in {"saving", "closing"} -> [b EXCEPT !.phase = "declaring"]
      [] b.phase = "running" /\ b.kind = "exact" -> [b EXCEPT !.phase = "recovering"]
      [] b.phase = "running" /\ b.kind # "exact" -> NoBatch
      [] b.phase \in {"merging", "applying", "applied"} -> [phase |-> "merging", kind |-> "lost"]
      [] OTHER -> b

Dies ==
    /\ crashes < MaxCrashes
    /\ crashes' = crashes + 1
    /\ task' = "none"
    /\ batch' = AfterCrash(batch)
    /\ safe' = IF SafePending THEN "declaring" ELSE safe

InFlight == batch.phase # "none" \/ SafePending \/ restore.phase # "none"

ShadowCrash ==
    /\ InFlight
    /\ Dies
    /\ restore' = IF restore.phase = "none" THEN restore
                  ELSE [NoRestore EXCEPT !.phase = "stopping", !.to = restore.to]
    /\ UNCHANGED <<written, kept, branch>>
    /\ \/ UNCHANGED <<file, clock, author>>
       \/ \E p \in DOMAIN restore.todo :
             /\ restore.phase = "writing"
             /\ clock' = clock + 1
             /\ file' = [file EXCEPT ![p] = [sha |-> clock + 1, at |-> clock + 1]]
             /\ author' = [author EXCEPT ![p] = "agent"]

(* A checkpoint the store has and the journal never hears of: the process  *)
(* dies, or a hard interrupt drops the effect, just then.                  *)
Unheard ==
    /\ \/ /\ batch.phase = "closing"
          /\ Checkpoint(PatternsOf(batch.kind))
          /\ Dies \/ (batch' = NoBatch /\ UNCHANGED <<safe, task, crashes>>)
       \/ /\ safe = "closing"
          /\ Checkpoint({})
          /\ Dies \/ (safe' = "idle" /\ UNCHANGED <<batch, task, crashes>>)
    /\ UNCHANGED <<file, clock, written, restore, branch, author>>

\* What restore_originals finds of a path.
Original(p) == IF p \in DOMAIN stagedOriginals THEN stagedOriginals[p]
               ELSE pendingOriginals[p]

Recover ==
    /\ batch.phase = "recovering"
    /\ LET known == Declared \cap (DOMAIN stagedOriginals \cup DOMAIN pendingOriginals)
       IN  /\ file' = [p \in Paths |-> IF p \in known
                                       THEN [sha |-> Original(p), at |-> clock + 1] ELSE file[p]]
           /\ author' = [p \in Paths |-> IF p \in known THEN "agent" ELSE author[p]]
    /\ clock' = clock + 1
    /\ batch' = [batch EXCEPT !.phase = "running"]
    /\ UNCHANGED <<written, kept, safe, task, restore, crashes, branch>>

ShadowNext ==
    \/ \E p \in Paths : UserWrite(p) \/ TaskWrite(p) \/ RestoreWrite(p)
    \/ \E p \in Paths, c \in {clock + 1, Absent} : AgentWrite(p, c)
    \/ \E kind \in {"exact", "opaque", "isolated"} : PlanBatch(kind)
    \/ BatchDeclare \/ BatchSave \/ BatchCheckpoint \/ BatchEnds \/ Cancel
    \/ StartTask \/ TaskEnds
    \/ MergeSave \/ MergeApply \/ MergeEnds
    \/ SafePoint \/ SafeDeclare \/ SafeCheckpoint
    \/ \E k \in Targets : Rewind(k)
    \/ RestoreCapture \/ RestoreFinish \/ RestoreReported
    \/ ShadowCrash \/ Unheard
    \/ Recover

ShadowSpec == ShadowInit /\ [][ShadowNext]_shadowVars

-----------------------------------------------------------------------------
(* A rewind never writes over what the user wrote while no pattern of the  *)
(* agent covered the path and no restore was running, whatever happened    *)
(* to the path before and after: the change is external, in whichever      *)
(* interval it is found.                                                   *)
RewriteOf(p) ==
    /\ restore.phase = "writing" /\ restore'.phase = "writing"
    /\ p \in DOMAIN restore.todo \ DOMAIN restore'.todo
Spared == [][\A p \in Paths : RewriteOf(p) => author[p] # "user"]_shadowVars

(* When a rewind reports, every path the user has left alone since the     *)
(* target checkpoint has the content it had there, whoever of the agent    *)
(* changed it and through however many intervals, earlier rewinds and      *)
(* crashes; only a restore cut short by a crash may leave a conflict.      *)
(* Paths whose saved original was out of date already when the target      *)
(* checkpoint opened its interval are excepted.                            *)
Target == records[IF restore.to = 0 THEN 1 ELSE restore.to]
BackAt(p) ==
    \/ file[p].sha = Target.snap[p]
    \/ p \in restore.conflicts /\ crashes > 0
Undone ==
    restore.phase = "report" =>
        \A p \in Paths \ (Target.user \cup Target.stale) : BackAt(p)

(* Without that exception: what a rewind puts back is the content before   *)
(* the agent's first change after the target checkpoint (the module        *)
(* comment of shadow.rs), also for a path that an isolated call's merge    *)
(* changed before.  It is false of the code: a merge stages its originals  *)
(* for an interval the user may have written in.                           *)
OriginalPutBack ==
    restore.phase = "report" => \A p \in Paths \ Target.user : BackAt(p)
=============================================================================
