----------------------------- MODULE FilesProofs -----------------------------
(***************************************************************************)
(* What Staging and Detect keep, for any calls, files, trees of paths and  *)
(* bounds.                                                                 *)
(***************************************************************************)
EXTENDS Staging, Detect, TLAPS

(***************************************************************************)
(* Part 1: isolated runs and their merges (Staging).                       *)
(***************************************************************************)
Entries == {Nothing, Dir, Old, User} \cup Calls
Phases  == {"idle", "copying", "review", "apply", "discard", "ok", "failed", "over"}
Ordered == {"apply", "discard"}
Staged  == {"review"} \cup Ordered
Jobs    == [call : Calls, todo : SUBSET Paths, at : {"apply", "record", "remove", "report"}, ok : BOOLEAN,
            known : SUBSET Paths]

TypeOK ==
  /\ workspace \in [Paths -> Entries]
  /\ phase \in [Calls -> Phases]
  /\ walk \in [Calls -> [at : Nat \ {0}, read : BOOLEAN]]
  /\ copy \in [Calls -> [Paths -> Entries]] /\ originals \in [Calls -> [Paths -> Entries]]
  /\ touched \in [Calls -> SUBSET Paths] /\ foreign \in [Calls -> SUBSET Paths]
  /\ changes \in [Calls -> SUBSET Paths]
  /\ job = NoJob \/ job \in Jobs
  /\ lost \subseteq Calls \X Paths

(* The workspace is a tree, and so is what a command left in its copy.     *)
TreesStay == IsTree(workspace) /\ \A k \in Calls : phase[k] \in Staged => IsTree(copy[k])

(* What others wrote since the look at it has another modification time.   *)
ForeignTouched == \A k \in Calls : foreign[k] \subseteq touched[k]

(* What a merge found written by others, and still finds as a file, holds  *)
(* what was staged for it already: there is nothing to do for it.          *)
FoundStaged ==
  job # NoJob =>
    /\ phase[job.call] \in Ordered
    /\ job.at # "apply" => job.todo = {}
    /\ job.todo \subseteq changes[job.call]
    /\ job.at = "apply" =>
         \A q \in job.known \cap changes[job.call] :
           IsFile(workspace[q]) => q \notin job.todo /\ copy[job.call][q] # Nothing

(* The changes of a call that has destroyed something are found already.   *)
LostLate == \A pair \in lost : phase[pair[1]] \notin {"idle", "copying"}

StagingInv == TypeOK /\ TreesStay /\ ForeignTouched /\ FoundStaged /\ LostLate /\ EditsKept

-----------------------------------------------------------------------------
(* Trees.                                                                  *)

LEMMA AboveFacts ==
  ASSUME NEW p \in Paths
  PROVE  /\ Above[p] \subseteq Paths /\ p \notin Above[p]
         /\ \A q \in Above[p] : Above[q] \subseteq Above[p] /\ p \notin Above[q]
         /\ Folder[p] # Root => Folder[p] \in Paths /\ Above[p] = {Folder[p]} \cup Above[Folder[p]]
         /\ Folder[p] = Root => Above[p] = {}
BY StagingAssumption

(* Removing a path with all that is under it leaves a tree.                *)
LEMMA WithoutTree ==
  ASSUME TypeOK, IsTree(workspace), NEW p \in Paths
  PROVE  Without(p) \in [Paths -> Entries] /\ IsTree(Without(p))
<1>1. Without(p) \in [Paths -> Entries]
  BY DEF Without, TypeOK, Entries
<1>2. ASSUME NEW q \in Paths, Without(p)[q] # Nothing, NEW r \in Above[q]
      PROVE  Without(p)[r] = Dir
  <2>1. q \notin Under(p) /\ workspace[q] # Nothing
    BY <1>2 DEF Without
  <2>2. r \in Paths /\ Above[r] \subseteq Above[q]
    BY <1>2, AboveFacts
  <2>3. r \notin Under(p)
    BY <2>1, <2>2 DEF Under
  <2>4. workspace[r] = Dir
    BY <2>1 DEF IsTree
  <2> QED BY <2>2, <2>3, <2>4 DEF Without
<1> QED BY <1>1, <1>2 DEF IsTree

(* So does writing a path whose directories are there, and which has       *)
(* nothing under it unless it is a directory and stays one.                *)
LEMMA WrittenTree ==
  ASSUME TypeOK, IsTree(workspace), NEW p \in Paths, NEW entry \in Entries,
         NEW now \in [Paths -> Entries],
         now[p] = entry,
         \A q \in Above[p] : now[q] = Dir,
         \A q \in Paths \ ({p} \cup Above[p]) : now[q] = workspace[q],
         workspace[p] = Dir => entry = Dir
  PROVE  IsTree(now)
<1> SUFFICES ASSUME NEW q \in Paths, now[q] # Nothing, NEW r \in Above[q]
             PROVE  now[r] = Dir
  BY DEF IsTree
<1>1. r \in Paths
  BY AboveFacts
<1>2. CASE q = p
  BY <1>2
<1>3. CASE q \in Above[p]
  BY <1>3, AboveFacts
<1>4. CASE q \notin {p} \cup Above[p]
  <2>1. workspace[q] # Nothing /\ workspace[r] = Dir
    BY <1>4 DEF IsTree
  <2>2. CASE r = p
    BY <2>1, <2>2
  <2>3. CASE r \in Above[p]
    BY <2>3
  <2>4. CASE r \notin {p} \cup Above[p]
    BY <2>1, <2>4, <1>1
  <2> QED BY <2>2, <2>3, <2>4
<1> QED BY <1>2, <1>3, <1>4

-----------------------------------------------------------------------------
(* Others, and merges, write to the workspace.                             *)

LEMMA BecomesKeeps ==
  ASSUME TypeOK, ForeignTouched, NEW now, NEW paths \in SUBSET Paths, NEW by, Becomes(now, paths, by)
  PROVE  /\ ForeignTouched'
         /\ touched' \in [Calls -> SUBSET Paths] /\ foreign' \in [Calls -> SUBSET Paths]
BY DEF Becomes, TypeOK, ForeignTouched

(* What the user does.                                                     *)
LEMMA EditKeeps ==
  ASSUME StagingInv, NEW now \in [Paths -> Entries], IsTree(now), NEW paths \in SUBSET Paths, Edit(now, paths),
         \A q \in Paths \ paths : now[q] = workspace[q]
  PROVE  StagingInv'
<1>1. /\ workspace' = now /\ Becomes(now, paths, User)
      /\ job' = IF job = NoJob THEN job ELSE [job EXCEPT !.known = @ \ paths]
      /\ UNCHANGED <<phase, walk, copy, originals, changes, kept, done, lost>>
  BY DEF Edit, Becomes, copies
<1>2. ForeignTouched' /\ touched' \in [Calls -> SUBSET Paths] /\ foreign' \in [Calls -> SUBSET Paths]
  BY <1>1, BecomesKeeps DEF StagingInv
<1>3. job # NoJob => /\ job' \in Jobs /\ job'.call = job.call /\ job'.todo = job.todo /\ job'.at = job.at
                     /\ job'.known = job.known \ paths
  BY <1>1 DEF StagingInv, TypeOK, Jobs
<1>4. TypeOK'
  BY <1>1, <1>2, <1>3 DEF StagingInv, TypeOK
<1>5. TreesStay'
  BY <1>1 DEF StagingInv, TreesStay, IsTree
<1>6. FoundStaged'
  <2> SUFFICES ASSUME job' # NoJob PROVE FoundStaged'
    BY DEF FoundStaged
  <2>1. job # NoJob /\ job \in Jobs
    BY <1>1 DEF StagingInv, TypeOK
  <2>2. ASSUME job.at = "apply", NEW q \in job'.known \cap changes'[job'.call], IsFile(workspace'[q])
        PROVE  q \notin job'.todo /\ copy'[job'.call][q] # Nothing
    <3>1. q \in Paths \ paths /\ q \in job.known \cap changes[job.call]
      <4>1. q \in job'.known /\ q \in changes'[job'.call]
        BY <2>2
      <4>2. q \in job.known /\ q \notin paths /\ q \in changes[job.call]
        BY <4>1, <2>1, <1>1, <1>3
      <4> QED BY <4>2, <2>1 DEF Jobs
    <3>2. IsFile(workspace[q])
      BY <3>1, <2>2, <1>1 DEF IsFile
    <3> QED BY <3>1, <3>2, <2>1, <2>2, <1>1, <1>3 DEF StagingInv, FoundStaged
  <2> QED BY <2>1, <2>2, <1>1, <1>3 DEF StagingInv, FoundStaged
<1>7. LostLate' /\ EditsKept'
  BY <1>1 DEF StagingInv, LostLate, EditsKept
<1> QED BY <1>2, <1>4, <1>5, <1>6, <1>7 DEF StagingInv

LEMMA UserKeeps ==
  ASSUME StagingInv, NEW p \in Paths, UserWrites(p) \/ UserMakes(p) \/ UserRemoves(p)
  PROVE  StagingInv'
<1>1. TypeOK /\ IsTree(workspace) /\ workspace \in [Paths -> Entries]
  BY DEF StagingInv, TypeOK, TreesStay
<1>2. ASSUME NEW entry \in {User, Dir}, workspace[p] # Dir, Present(Folder[p]),
             Edit([workspace EXCEPT ![p] = entry], {p})
      PROVE  StagingInv'
  <2> DEFINE now == [workspace EXCEPT ![p] = entry]
  <2>1. now \in [Paths -> Entries] /\ now[p] = entry /\ \A q \in Paths \ {p} : now[q] = workspace[q]
    BY <1>1 DEF Entries
  <2>2. ASSUME NEW q \in Above[p] PROVE now[q] = Dir
    <3>1. Folder[p] # Root /\ Folder[p] \in Paths /\ q \in {Folder[p]} \cup Above[Folder[p]]
      BY AboveFacts
    <3>2. workspace[Folder[p]] = Dir
      BY <3>1, <1>2 DEF Present
    <3>3. workspace[q] = Dir
      BY <3>1, <3>2, <1>1 DEF IsTree, Dir, Nothing
    <3>4. q \in Paths \ {p}
      BY AboveFacts
    <3> QED BY <3>3, <3>4, <2>1
  <2>3. entry \in Entries
    BY DEF Entries
  <2> HIDE DEF now
  <2>4. IsTree(now)
    BY <2>1, <2>2, <2>3, <1>1, <1>2, WrittenTree
  <2>5. Edit(now, {p})
    BY <1>2 DEF now
  <2> QED BY <2>1, <2>4, <2>5, EditKeeps
<1>3. CASE UserWrites(p)
  BY <1>2, <1>3 DEF UserWrites
<1>4. CASE UserMakes(p)
  <2>1. workspace[p] # Dir
    BY <1>4 DEF UserMakes, Nothing, Dir
  <2>2. Present(Folder[p]) /\ Edit([workspace EXCEPT ![p] = Dir], {p})
    BY <1>4 DEF UserMakes
  <2> QED BY <1>2, <2>1, <2>2
<1>5. CASE UserRemoves(p)
  <2> DEFINE paths == {q \in Under(p) : workspace[q] # Nothing}
  <2>1. Without(p) \in [Paths -> Entries] /\ IsTree(Without(p))
    BY <1>1, WithoutTree
  <2>2. paths \in SUBSET Paths /\ \A q \in Paths \ paths : Without(p)[q] = workspace[q]
    BY DEF Under, Without
  <2>3. Edit(Without(p), paths)
    BY <1>5 DEF UserRemoves
  <2> HIDE DEF paths
  <2> QED BY <2>1, <2>2, <2>3, EditKeeps
<1> QED BY <1>3, <1>4, <1>5

-----------------------------------------------------------------------------
(* Copying and running: the workspace and the merge stay as they are.      *)

(* A step that leaves alone what StagingInv is about but for the types.    *)
LEMMA QuietKeeps ==
  ASSUME StagingInv, TypeOK', ForeignTouched',
         UNCHANGED <<workspace, changes, job, lost>>,
         \A k \in Calls : copy'[k] = copy[k] \/ phase[k] = "copying",
         \A k \in Calls :
           \/ phase'[k] = phase[k]
           \/ phase'[k] \in Ordered /\ phase[k] \in Staged
           \/ phase'[k] \notin Staged \cup {"idle"} /\ phase[k] \notin Ordered
                /\ (phase'[k] = "copying" => phase[k] = "idle")
  PROVE  StagingInv'
<1>1. TreesStay'
  <2>1. IsTree(workspace)'
    BY DEF StagingInv, TreesStay, IsTree
  <2>2. ASSUME NEW k \in Calls, phase'[k] \in Staged PROVE IsTree(copy'[k])
    <3>1. phase[k] \in Staged
      BY <2>2 DEF Staged, Ordered
    <3>2. IsTree(copy[k]) /\ copy'[k] = copy[k]
      BY <3>1 DEF StagingInv, TreesStay, Staged, Ordered
    <3> QED BY <3>2
  <2> QED BY <2>1, <2>2 DEF TreesStay
<1>2. FoundStaged'
  <2> SUFFICES ASSUME job # NoJob PROVE FoundStaged'
    BY DEF FoundStaged
  <2>1. job.call \in Calls /\ phase[job.call] \in Ordered
    BY DEF StagingInv, TypeOK, Jobs, FoundStaged
  <2>2. copy'[job.call] = copy[job.call] /\ phase'[job.call] \in Ordered
    BY <2>1 DEF Ordered
  <2> QED BY <2>1, <2>2 DEF StagingInv, FoundStaged, IsFile
<1>3. LostLate' /\ EditsKept'
  BY DEF StagingInv, TypeOK, LostLate, EditsKept, Ordered, Staged
<1> QED BY <1>1, <1>2, <1>3 DEF StagingInv

LEMMA HereInPaths ==
  ASSUME TypeOK, NEW k \in Calls, Copying(k)
  PROVE  Here(k) \in Paths
BY StagingAssumption DEF TypeOK, Copying, Here

LEMMA EntrySet ==
  ASSUME NEW f \in [Calls -> [Paths -> Entries]], NEW k \in Calls, NEW p \in Paths, NEW entry \in Entries
  PROVE  /\ [f EXCEPT ![k][p] = entry] \in [Calls -> [Paths -> Entries]]
         /\ \A c \in Calls \ {k} : [f EXCEPT ![k][p] = entry][c] = f[c]
<1> DEFINE g == [f[k] EXCEPT ![p] = entry]
<1>1. g \in [Paths -> Entries]
  OBVIOUS
<1>2. [f EXCEPT ![k][p] = entry] = [f EXCEPT ![k] = g]
  OBVIOUS
<1> HIDE DEF g
<1> QED BY <1>1, <1>2

LEMMA WalkStays ==
  ASSUME TypeOK, NEW k \in Calls, Past(k) \/ walk' = [walk EXCEPT ![k].read = TRUE] \/ walk' = walk
  PROVE  walk' \in [Calls -> [at : Nat \ {0}, read : BOOLEAN]]
<1>1. walk[k] \in [at : Nat \ {0}, read : BOOLEAN] /\ walk[k].at + 1 \in Nat \ {0}
  BY DEF TypeOK
<1>2. CASE Past(k)
  BY <1>1, <1>2 DEF Past, TypeOK
<1>3. CASE walk' = [walk EXCEPT ![k].read = TRUE]
  <2>1. [walk[k] EXCEPT !.read = TRUE] \in [at : Nat \ {0}, read : BOOLEAN]
    BY <1>1
  <2>2. walk' = [walk EXCEPT ![k] = [walk[k] EXCEPT !.read = TRUE]]
    BY <1>3
  <2> HIDE DEF Past
  <2> QED BY <2>1, <2>2 DEF TypeOK
<1> QED BY <1>2, <1>3 DEF TypeOK

LEMMA CopyKeeps ==
  ASSUME StagingInv, NEW k \in Calls, Start(k) \/ ReadMeta(k) \/ CopyFile(k) \/ Abandon(k) \/ Review(k)
  PROVE  StagingInv'
<1>1. TypeOK /\ ForeignTouched
  BY DEF StagingInv
<1>2. CASE Start(k)
  <2>1. TypeOK' /\ ForeignTouched'
    BY <1>1, <1>2 DEF Start, copies, TypeOK, ForeignTouched, Phases
  <2> QED BY <1>1, <1>2, <2>1, QuietKeeps DEF Start, copies, TypeOK, Staged, Ordered
<1>3. CASE ReadMeta(k)
  <2> DEFINE p == Here(k)
  <2>1. p \in Paths /\ phase[k] = "copying"
    BY <1>1, <1>3, HereInPaths DEF ReadMeta, Copying
  <2>2. walk' \in [Calls -> [at : Nat \ {0}, read : BOOLEAN]]
    BY <1>1, <1>3, WalkStays DEF ReadMeta
  <2>3. /\ copy' \in [Calls -> [Paths -> Entries]] /\ originals' \in [Calls -> [Paths -> Entries]]
        /\ \A c \in Calls \ {k} : copy'[c] = copy[c]
    <3>1. workspace[p] \in Entries /\ Dir \in Entries
      BY <1>1, <2>1 DEF TypeOK, Entries
    <3>2. \/ copy' = copy /\ originals' = originals
          \/ originals' = [originals EXCEPT ![k][p] = workspace[p]] /\ copy' = copy
          \/ originals' = [originals EXCEPT ![k][p] = workspace[p]] /\ copy' = [copy EXCEPT ![k][p] = Dir]
      BY <1>3 DEF ReadMeta
    <3> HIDE DEF p
    <3>3. copy \in [Calls -> [Paths -> Entries]] /\ originals \in [Calls -> [Paths -> Entries]]
      BY <1>1 DEF TypeOK
    <3>4. /\ [copy EXCEPT ![k][p] = Dir] \in [Calls -> [Paths -> Entries]]
          /\ \A c \in Calls \ {k} : [copy EXCEPT ![k][p] = Dir][c] = copy[c]
      BY <2>1, <3>1, <3>3, EntrySet
    <3>5. [originals EXCEPT ![k][p] = workspace[p]] \in [Calls -> [Paths -> Entries]]
      BY <2>1, <3>1, <3>3, EntrySet
    <3> QED BY <3>2, <3>3, <3>4, <3>5
  <2>4. /\ foreign' \in [Calls -> SUBSET Paths] /\ touched' \in [Calls -> SUBSET Paths]
        /\ ForeignTouched'
    BY <1>1, <1>3, <2>1 DEF ReadMeta, TypeOK, ForeignTouched
  <2>5. UNCHANGED <<workspace, phase, changes, job, lost>>
    BY <1>3 DEF ReadMeta
  <2>6. TypeOK'
    BY <1>1, <2>2, <2>3, <2>4, <2>5 DEF TypeOK
  <2> QED BY <2>1, <2>3, <2>4, <2>5, <2>6, QuietKeeps
<1>4. CASE CopyFile(k)
  <2> DEFINE p == Here(k)
  <2>1. p \in Paths /\ phase[k] = "copying"
    BY <1>1, <1>4, HereInPaths DEF CopyFile, Copying
  <2>2. walk' \in [Calls -> [at : Nat \ {0}, read : BOOLEAN]]
    BY <1>1, <1>4, WalkStays DEF CopyFile
  <2>3. copy' \in [Calls -> [Paths -> Entries]] /\ \A c \in Calls \ {k} : copy'[c] = copy[c]
    <3>1. workspace[p] \in Entries
      BY <1>1, <2>1 DEF TypeOK
    <3>2. copy' = copy \/ copy' = [copy EXCEPT ![k][p] = workspace[p]]
      BY <1>4 DEF CopyFile
    <3> HIDE DEF p
    <3>3. copy \in [Calls -> [Paths -> Entries]]
      BY <1>1 DEF TypeOK
    <3>4. /\ [copy EXCEPT ![k][p] = workspace[p]] \in [Calls -> [Paths -> Entries]]
          /\ \A c \in Calls \ {k} : [copy EXCEPT ![k][p] = workspace[p]][c] = copy[c]
      BY <2>1, <3>1, <3>3, EntrySet
    <3> QED BY <3>2, <3>3, <3>4
  <2>4. /\ phase' \in [Calls -> Phases] /\ phase'[k] \in {"copying", "over"}
        /\ \A c \in Calls \ {k} : phase'[c] = phase[c]
    BY <1>1, <1>4, <2>1 DEF CopyFile, TypeOK, Phases
  <2>5. UNCHANGED <<workspace, originals, touched, changes, job, foreign, lost>>
    BY <1>4 DEF CopyFile
  <2>6. TypeOK' /\ ForeignTouched'
    BY <1>1, <2>2, <2>3, <2>4, <2>5 DEF TypeOK, ForeignTouched
  <2> QED BY <2>1, <2>3, <2>4, <2>5, <2>6, QuietKeeps DEF Staged, Ordered
<1>5. CASE Abandon(k)
  <2>1. TypeOK' /\ ForeignTouched'
    BY <1>1, <1>5 DEF Abandon, copies, TypeOK, ForeignTouched, Phases
  <2> QED BY <1>1, <1>5, <2>1, QuietKeeps DEF Abandon, copies, TypeOK, Staged, Ordered
<1>6. CASE Review(k)
  <2>1. TypeOK' /\ ForeignTouched'
    BY <1>1, <1>6 DEF Review, copies, TypeOK, ForeignTouched, Phases
  <2> QED BY <1>1, <1>6, <2>1, QuietKeeps DEF Review, copies, TypeOK, Staged, Ordered
<1> QED BY <1>2, <1>3, <1>4, <1>5, <1>6

(* The command leaves a tree, and only now its changes are found.          *)
LEMMA RunKeeps ==
  ASSUME StagingInv, NEW k \in Calls, RunStaged(k)
  PROVE  StagingInv'
<1>1. TypeOK
  BY DEF StagingInv
<1>2. PICK tree \in Trees(k) : \E rewritten \in {{}, Unchanged(k, tree)} :
             /\ copy' = [copy EXCEPT ![k] = tree]
             /\ changes' = [changes EXCEPT ![k] = ChangesIn(k, tree, rewritten)]
             /\ phase' = [phase EXCEPT ![k] = IF ChangesIn(k, tree, rewritten) = {} THEN "over" ELSE "review"]
  BY DEF RunStaged
<1>3. PICK rewritten \in {{}, Unchanged(k, tree)} :
             /\ copy' = [copy EXCEPT ![k] = tree]
             /\ changes' = [changes EXCEPT ![k] = ChangesIn(k, tree, rewritten)]
             /\ phase' = [phase EXCEPT ![k] = IF ChangesIn(k, tree, rewritten) = {} THEN "over" ELSE "review"]
  BY <1>2
<1>4. tree \in [Paths -> Entries] /\ IsTree(tree)
  BY DEF Trees, Entries
<1>5. ChangesIn(k, tree, rewritten) \in SUBSET Paths
  BY DEF ChangesIn, Unchanged
<1>6. /\ phase[k] = "copying"
      /\ UNCHANGED <<workspace, walk, originals, touched, job, foreign, lost>>
  BY DEF RunStaged
<1>7. /\ phase' \in [Calls -> Phases] /\ phase'[k] \in {"over", "review"}
      /\ \A c \in Calls \ {k} : phase'[c] = phase[c] /\ copy'[c] = copy[c] /\ changes'[c] = changes[c]
  BY <1>1, <1>3 DEF TypeOK, Phases
<1>8. TypeOK' /\ ForeignTouched'
  BY <1>1, <1>3, <1>4, <1>5, <1>6, <1>7 DEF StagingInv, TypeOK, ForeignTouched
<1>9. TreesStay'
  BY <1>1, <1>3, <1>4, <1>6, <1>7 DEF StagingInv, TypeOK, TreesStay, IsTree
<1>10. FoundStaged'
  <2> SUFFICES ASSUME job # NoJob PROVE FoundStaged'
    BY <1>6 DEF FoundStaged
  <2>1. job.call \in Calls \ {k}
    BY <1>1, <1>6 DEF StagingInv, TypeOK, Jobs, FoundStaged, Ordered
  <2> QED BY <2>1, <1>6, <1>7 DEF StagingInv, FoundStaged, IsFile
<1>11. LostLate' /\ EditsKept'
  BY <1>1, <1>6, <1>7 DEF StagingInv, TypeOK, LostLate, EditsKept
<1> QED BY <1>8, <1>9, <1>10, <1>11 DEF StagingInv

-----------------------------------------------------------------------------
(* The merge.                                                              *)

(* Nothing is to be done where others wrote a file: it is what was staged, *)
(* or a conflict.                                                          *)
LEMMA MergeKeeps ==
  ASSUME StagingInv, NEW k \in Calls, Merge(k)
  PROVE  StagingInv'
<1>1. TypeOK /\ ForeignTouched /\ job = NoJob /\ phase[k] \in Ordered
  BY DEF StagingInv, Merge, Ordered
<1>2. UNCHANGED <<workspace, walk, copy, originals, touched, changes, kept, done, edits, crashes, foreign, lost>>
  BY DEF Merge, copies
<1>3. CASE \E ok \in BOOLEAN : Report(k, ok) /\ UNCHANGED job
  <2>1. /\ phase' \in [Calls -> Phases] /\ phase'[k] \in {"ok", "failed"}
        /\ \A c \in Calls \ {k} : phase'[c] = phase[c]
    BY <1>1, <1>3 DEF Report, TypeOK, Phases
  <2>2. TypeOK' /\ ForeignTouched'
    BY <1>1, <1>2, <1>3, <2>1 DEF TypeOK, ForeignTouched
  <2>3. TreesStay' /\ FoundStaged'
    BY <1>1, <1>2, <1>3, <2>1 DEF StagingInv, TreesStay, FoundStaged, IsTree, Staged, Ordered
  <2>4. LostLate' /\ EditsKept'
    BY <1>1, <1>2, <2>1 DEF StagingInv, TypeOK, LostLate, EditsKept
  <2> QED BY <2>2, <2>3, <2>4 DEF StagingInv
<1>4. CASE /\ \/ job' = Job(k, {}, "record", TRUE)
              \/ job' = Job(k, {}, "record", FALSE)
              \/ Conflicts(k) = {} /\ job' = Job(k, Pending(k), "apply", TRUE)
           /\ UNCHANGED phase
  <2>1. Pending(k) \in SUBSET Paths /\ Pending(k) \subseteq changes[k] /\ foreign[k] \in SUBSET Paths
    BY <1>1 DEF TypeOK, Pending
  <2>2. job' \in Jobs /\ job'.call = k /\ job'.known = foreign[k]
    <3>1. CASE job' = Job(k, {}, "record", TRUE)
      BY <2>1, <3>1 DEF Job, Jobs
    <3>2. CASE job' = Job(k, {}, "record", FALSE)
      BY <2>1, <3>2 DEF Job, Jobs
    <3>3. CASE job' = Job(k, Pending(k), "apply", TRUE)
      BY <2>1, <3>3 DEF Job, Jobs
    <3> QED BY <1>4, <3>1, <3>2, <3>3
  <2>3. \/ job'.todo = {} /\ job'.at = "record"
        \/ Conflicts(k) = {} /\ job'.todo = Pending(k) /\ job'.at = "apply"
    BY <1>4 DEF Job
  <2>4. TypeOK' /\ ForeignTouched'
    <3>1. job' = NoJob \/ job' \in Jobs
      BY <2>2
    <3> QED BY <1>1, <1>2, <1>4, <3>1 DEF TypeOK, ForeignTouched
  <2>5. TreesStay' /\ LostLate' /\ EditsKept'
    BY <1>2, <1>4 DEF StagingInv, TreesStay, IsTree, LostLate, EditsKept
  <2>6. ASSUME NEW q \in foreign[k] \cap changes[k], IsFile(workspace[q])
        PROVE  Conflicts(k) = {} => q \notin Pending(k) /\ copy[k][q] # Nothing
    <3>1. q \in touched[k]
      BY <1>1, <2>6 DEF ForeignTouched
    <3>2. ~Untouched(k, q)
      BY <2>6, <3>1 DEF Untouched, IsFile
    <3>3. Conflicts(k) = {} => q \notin Pending(k)
      BY <3>2 DEF Conflicts
    <3>4. q \notin Pending(k) => workspace[q] = copy[k][q]
      BY <2>6 DEF Pending, HoldsStaged
    <3> QED BY <2>6, <3>3, <3>4 DEF IsFile
  <2>7. FoundStaged'
    BY <1>1, <1>2, <1>4, <2>1, <2>2, <2>3, <2>6 DEF FoundStaged, IsFile
  <2> QED BY <2>4, <2>5, <2>7 DEF StagingInv
<1> QED BY <1>1, <1>3, <1>4 DEF Merge, Ordered

(* What a merge destroys, it was to change.                                *)
LEMMA WritesKeep ==
  ASSUME StagingInv, job # NoJob, job.at = "apply",
         NEW now \in [Paths -> Entries], IsTree(now), NEW paths \in SUBSET Paths, NEW todo \in SUBSET job.todo,
         Writes(now, paths, todo),
         \A q \in Paths \ paths : now[q] = workspace[q],
         \A q \in paths \cap job.known : IsFile(workspace[q]) => q \notin changes[job.call]
  PROVE  StagingInv'
<1> DEFINE k == job.call
<1>1. TypeOK /\ ForeignTouched /\ job \in Jobs /\ k \in Calls /\ job.todo \subseteq changes[k] /\ phase[k] \in Ordered
  BY DEF StagingInv, TypeOK, Jobs, FoundStaged
<1>2. /\ workspace' = now /\ Becomes(now, paths, k)
      /\ lost' = lost \cup {<<k, q>> : q \in {r \in paths \cap job.known : IsFile(workspace[r])}}
      /\ job' = [job EXCEPT !.todo = todo, !.known = @ \ paths]
      /\ UNCHANGED <<phase, walk, copy, originals, changes>>
  BY DEF Writes, Becomes, copies
<1>3. ForeignTouched' /\ touched' \in [Calls -> SUBSET Paths] /\ foreign' \in [Calls -> SUBSET Paths]
  BY <1>1, <1>2, BecomesKeeps
<1>4. job' \in Jobs /\ job'.call = k /\ job'.todo = todo /\ job'.at = "apply" /\ job'.known = job.known \ paths
  BY <1>1, <1>2 DEF Jobs
<1>5. lost' \subseteq Calls \X Paths
  BY <1>1, <1>2 DEF TypeOK
<1>6. TypeOK'
  <2>1. job' = NoJob \/ job' \in Jobs
    BY <1>4
  <2> QED BY <1>1, <1>2, <1>3, <1>5, <2>1 DEF TypeOK
<1>7. TreesStay'
  BY <1>2 DEF StagingInv, TreesStay, IsTree
<1>8. FoundStaged'
  <2>1. ASSUME NEW q, q \in job'.known, q \in changes'[job'.call], IsFile(workspace'[q])
        PROVE  q \notin job'.todo /\ copy'[job'.call][q] # Nothing
    <3>1. q \in job.known /\ q \in Paths \ paths /\ q \in changes[k]
      BY <2>1, <1>1, <1>2, <1>4 DEF Jobs
    <3>2. IsFile(workspace[q])
      BY <2>1, <3>1, <1>2 DEF IsFile
    <3>3. q \notin job.todo /\ copy[k][q] # Nothing
      BY <3>1, <3>2 DEF StagingInv, FoundStaged
    <3> QED BY <3>3, <1>2, <1>4
  <2> QED BY <2>1, <1>1, <1>2, <1>4 DEF FoundStaged
<1>9. LostLate'
  BY <1>1, <1>2 DEF StagingInv, LostLate, Ordered
<1>10. EditsKept'
  BY <1>2 DEF StagingInv, EditsKept
<1> QED BY <1>3, <1>6, <1>7, <1>8, <1>9, <1>10 DEF StagingInv

(* A file that others wrote, which was staged, is not under a path that is *)
(* emptied for a file, or away.                                            *)
LEMMA ClearKeeps ==
  ASSUME StagingInv, NEW p \in Paths, Clear(p)
  PROVE  StagingInv'
<1> DEFINE k == job.call
           paths == {q \in Under(p) : workspace[q] # Nothing}
           todo == IF Wanted(p) = Nothing THEN job.todo \ {p} ELSE job.todo
<1>1. /\ TypeOK /\ IsTree(workspace) /\ IsTree(copy[k]) /\ job # NoJob /\ job.at = "apply"
      /\ p \in job.todo /\ Emptied(p)
      /\ \A q \in job.known \cap changes[k] : IsFile(workspace[q]) => q \notin job.todo /\ copy[k][q] # Nothing
  BY DEF StagingInv, TypeOK, TreesStay, FoundStaged, Clear, Applies, Jobs, Staged
<1>2. Without(p) \in [Paths -> Entries] /\ IsTree(Without(p))
  BY <1>1, WithoutTree
<1>3. paths \in SUBSET Paths /\ todo \in SUBSET job.todo /\ Writes(Without(p), paths, todo)
  BY DEF Under, Clear
<1>4. \A q \in Paths \ paths : Without(p)[q] = workspace[q]
  BY DEF Under, Without
<1>5. ASSUME NEW q \in paths \cap job.known, IsFile(workspace[q]), q \in changes[k]
      PROVE  FALSE
  <2>1. q # p /\ q \in Paths /\ p \in Above[q]
    BY <1>1, <1>5 DEF Under
  <2>2. copy[k][p] = Dir
    BY <1>1, <1>5, <2>1 DEF IsTree
  <2>3. workspace[p] = Dir
    BY <1>1, <1>5, <2>1 DEF IsTree, IsFile
  <2> QED BY <1>1, <2>2, <2>3 DEF Emptied, Wanted, Nothing, Dir
<1> HIDE DEF paths, todo
<1> QED BY <1>1, <1>2, <1>3, <1>4, <1>5, WritesKeep

(* What is put in place of a file was to be changed.                       *)
LEMMA PutKeeps ==
  ASSUME StagingInv, NEW p \in Paths, Put(p)
  PROVE  StagingInv'
<1> DEFINE k == job.call
           missing == {q \in Above[p] : workspace[q] = Nothing}
           now == [q \in Paths |-> IF q = p THEN Wanted(p) ELSE IF q \in missing THEN Dir ELSE workspace[q]]
<1>1. /\ TypeOK /\ IsTree(workspace) /\ job # NoJob /\ job.at = "apply" /\ p \in job.todo
      /\ \A q \in job.known \cap changes[k] : IsFile(workspace[q]) => q \notin job.todo
      /\ k \in Calls /\ ~Emptied(p) /\ ~Blocked(p) /\ job.todo \subseteq changes[k]
  BY DEF StagingInv, TypeOK, TreesStay, FoundStaged, Put, Applies, Jobs
<1>2. job.todo \ {p} \in SUBSET job.todo
  OBVIOUS
<1>3. CASE Wanted(p) = Nothing
  <2>1. workspace \in [Paths -> Entries] /\ {} \in SUBSET Paths
    BY <1>1 DEF TypeOK
  <2>2. Writes(workspace, {}, job.todo \ {p})
    BY <1>3 DEF Put
  <2> QED BY <1>1, <1>2, <2>1, <2>2, WritesKeep
<1>4. CASE Wanted(p) # Nothing
  <2>1. Wanted(p) \in Entries /\ Dir \in Entries /\ workspace \in [Paths -> Entries]
    BY <1>1 DEF Wanted, TypeOK, Entries
  <2>2. now \in [Paths -> Entries] /\ now[p] = Wanted(p)
    BY <2>1
  <2>3. \A q \in Above[p] : q \in Paths /\ q # p /\ now[q] = Dir
    BY <1>1, AboveFacts DEF Blocked, IsFile
  <2>4. /\ \A q \in Paths \ ({p} \cup Above[p]) : now[q] = workspace[q]
        /\ \A q \in Paths \ ({p} \cup missing) : now[q] = workspace[q]
    OBVIOUS
  <2>5. workspace[p] = Dir => Wanted(p) = Dir
    BY <1>1 DEF Emptied, Dir, Nothing
  <2>6. {p} \cup missing \in SUBSET Paths
    BY <2>3
  <2>7. Writes(now, {p} \cup missing, job.todo \ {p})
    BY <1>4 DEF Put
  <2>8. \A q \in ({p} \cup missing) \cap job.known : IsFile(workspace[q]) => q \notin changes[k]
    BY <1>1 DEF IsFile
  <2> HIDE DEF now, missing
  <2>9. IsTree(now)
    BY <1>1, <2>1, <2>2, <2>3, <2>4, <2>5, WrittenTree
  <2> QED BY <1>1, <1>2, <2>2, <2>4, <2>6, <2>7, <2>8, <2>9, WritesKeep
<1> QED BY <1>3, <1>4

(* The rest of a merge does not touch the workspace.                       *)
LEMMA EndingKeeps ==
  ASSUME StagingInv, (\E p \in Paths : ApplyFails(p)) \/ Record \/ RemoveRun \/ Reports \/ Crash
  PROVE  StagingInv'
<1>1. TypeOK /\ ForeignTouched
  BY DEF StagingInv
<1>2. UNCHANGED <<workspace, walk, copy, originals, touched, changes, foreign, lost>>
  BY DEF ApplyFails, Record, RemoveRun, Reports, Crash, copies
<1>3. job # NoJob => job \in Jobs /\ job.call \in Calls /\ phase[job.call] \in Ordered
  BY DEF StagingInv, TypeOK, FoundStaged, Jobs
<1>4. CASE (\E p \in Paths : ApplyFails(p)) \/ Record \/ RemoveRun
  <2>1. /\ UNCHANGED phase /\ job' \in Jobs /\ job'.call = job.call /\ job'.todo = {} /\ job'.at # "apply"
        /\ job # NoJob
    BY <1>3, <1>4 DEF ApplyFails, Applies, Record, RemoveRun, Jobs, StagingInv, FoundStaged
  <2>2. TypeOK' /\ ForeignTouched'
    <3>1. job' = NoJob \/ job' \in Jobs
      BY <2>1
    <3> QED BY <1>1, <1>2, <2>1, <3>1 DEF TypeOK, ForeignTouched
  <2>3. FoundStaged'
    BY <1>3, <2>1 DEF FoundStaged
  <2> QED BY <1>2, <2>1, <2>2, <2>3 DEF StagingInv, TreesStay, IsTree, LostLate, EditsKept
<1>5. CASE Reports \/ Crash
  <2>1. /\ job' = NoJob /\ phase' \in [Calls -> Phases]
        /\ \A k \in Calls : phase'[k] = phase[k] \/ phase'[k] \in {"ok", "failed", "over"}
    <3>1. CASE Reports
      BY <1>1, <1>3, <3>1 DEF Reports, Report, TypeOK, Phases
    <3>2. CASE Crash
      BY <1>1, <3>2 DEF Crash, TypeOK, Phases
    <3> QED BY <1>5, <3>1, <3>2
  <2>2. TypeOK' /\ ForeignTouched'
    BY <1>1, <1>2, <2>1 DEF TypeOK, ForeignTouched
  <2>3. TreesStay' /\ FoundStaged'
    BY <1>2, <2>1 DEF StagingInv, TreesStay, FoundStaged, IsTree, Staged, Ordered
  <2>4. LostLate' /\ EditsKept'
    BY <1>1, <1>2, <2>1 DEF StagingInv, TypeOK, LostLate, EditsKept
  <2> QED BY <2>2, <2>3, <2>4 DEF StagingInv
<1> QED BY <1>4, <1>5

-----------------------------------------------------------------------------
LEMMA StagingStart ==
  ASSUME Init
  PROVE  StagingInv
<1>1. job = NoJob /\ lost = {} /\ \A k \in Calls : phase[k] = "idle"
  BY DEF Init
<1>2. TypeOK
  BY DEF Init, TypeOK, Empty, Entries, Phases
<1> QED BY <1>1, <1>2 DEF Init, StagingInv, TreesStay, ForeignTouched, FoundStaged, LostLate, EditsKept, Staged, Ordered

LEMMA StagingStep ==
  ASSUME StagingInv, [Next]_vars
  PROVE  StagingInv'
<1>1. CASE Next
  BY <1>1, UserKeeps, CopyKeeps, RunKeeps, MergeKeeps, ClearKeeps, PutKeeps, EndingKeeps DEF Next
<1>2. CASE UNCHANGED vars
  BY <1>2 DEF vars, copies, StagingInv, TypeOK, TreesStay, IsTree, ForeignTouched, FoundStaged, LostLate, EditsKept,
              IsFile
<1> QED BY <1>1, <1>2

(* The invariant behind the theorem below.                                 *)
THEOREM StagingKeeps == Spec => []StagingInv
<1>1. Init => StagingInv
  BY StagingStart
<1>2. StagingInv /\ [Next]_vars => StagingInv'
  BY StagingStep
<1> QED BY <1>1, <1>2, PTL DEF Spec

(* Of the paths it changes, no merge destroys what others wrote between    *)
(* the copy and the merge's look at the workspace: whatever is written     *)
(* while it is copied, merged or recovered, however deep the tree, and     *)
(* however often the process dies (`untouched_since', `holds_staged').     *)
THEOREM MergesSpare == Spec => []EditsKept
<1>1. StagingInv => EditsKept
  BY DEF StagingInv
<1> QED BY <1>1, StagingKeeps, PTL

-----------------------------------------------------------------------------
(***************************************************************************)
(* Part 2: how a checkpoint learns what has changed (Detect).              *)
(***************************************************************************)
(* Tasks of the search, and the files they will look at.                   *)
OfDir(t) == t.op \in {"watch", "list"}
IsTask(t) ==
  /\ t.op \in {"watch", "list", "stat", "read"} /\ t.mtime \in Nat /\ t.mtime <= stamps
  /\ IF OfDir(t) THEN t.at \in Dirs \cup {Base} ELSE t.at \in Files

Covers(t, f) == IF OfDir(t) THEN t.at \in {DirOf[f], Base} ELSE t.at = f
CoveredBy(tasks, f) == \E t \in tasks : Covers(t, f)
ApartIn(tasks) == \A t, u \in tasks, f \in Files : Covers(t, f) /\ Covers(u, f) => t = u

(* A record of a file whose stamp is v is up to date, if it has the stamp. *)
Fresh(meta, v, n) ==
  /\ meta \in [mtime : Nat, content : Nat] /\ meta.mtime <= n /\ meta.content <= n
  /\ meta.mtime = v /\ v # Absent => meta.content = v

(* What the next checkpoint will be told of: files, or their directories.  *)
ToldOf == dirty \cup {e.name : e \in events}
ToBeTold(f) == f \in ToldOf \/ DirOf[f] \in ToldOf \cap Dirs

(* A file is in a directory there is; records are of stamps given out.     *)
Disk ==
  /\ stamps \in Nat /\ dirs \subseteq Dirs
  /\ file \in [Files -> Nat] /\ \A f \in Files : file[f] <= stamps
  /\ \A f \in Files : file[f] # Absent => Exists(DirOf[f])
Scans == DOMAIN scan = Files /\ \A f \in Files : Fresh(scan[f], file[f], stamps)

WalkFields == {"kind", "todo", "found", "unwatched"}
Search ==
  /\ DOMAIN search = WalkFields /\ search.kind \in {"full", "part"} /\ search.unwatched \in BOOLEAN
  /\ \A t \in search.todo : IsTask(t)
  /\ DOMAIN search.found \subseteq Files
  /\ \A f \in DOMAIN search.found : Fresh(search.found[f], file[f], stamps)
  /\ ApartIn(search.todo)
  /\ reliable = FALSE

(* What a file has not been recorded for is still to be looked at.         *)
Looked ==
  \A f \in Files :
    /\ file[f] \in seen[f]
    /\ IF CoveredBy(search.todo, f) THEN Found(f) = Gone ELSE Found(f).content \in seen[f]

(* What the search has found of a file holds, but for what it has yet to   *)
(* look at and what the next checkpoint will be told of.                   *)
ToldWalking ==
  on /\ ~missed /\ ~search.unwatched =>
    /\ \A f \in Files : CoveredBy(search.todo, f) \/ ToBeTold(f) \/ Found(f).content = file[f]
    /\ Base \in watched \/ \E t \in search.todo : t.op = "watch" /\ t.at = Base
    /\ \A d \in dirs : \/ d \in watched \cup ToldOf
                       \/ \E t \in search.todo : (t.at = d /\ t.op = "watch") \/ (t.at = Base /\ OfDir(t))
(* Between checkpoints, the same of what the last one recorded.            *)
ToldIdle ==
  on /\ ~missed /\ once /\ reliable =>
    /\ \A f \in Files : ToBeTold(f) \/ scan[f].content = file[f]
    /\ Base \in watched
    /\ dirs \subseteq watched \cup ToldOf

ScanInv ==
  /\ Disk /\ Scans /\ DOMAIN seen = Files
  /\ on \in BOOLEAN /\ missed \in BOOLEAN /\ reliable \in BOOLEAN /\ once \in BOOLEAN
  /\ IF Walking THEN Search /\ Looked /\ ToldWalking ELSE ToldIdle

-----------------------------------------------------------------------------
LEMMA Places ==
  /\ Base \notin Dirs
  /\ \A f \in Files : DirOf[f] \in Dirs \cup {Base} /\ f \notin Dirs /\ f # Base
BY DetectAssumption DEF Dirs, Range

(* Stamps only grow: a record that is not of this stamp never will be.     *)
LEMMA FreshKept ==
  ASSUME NEW m, NEW v, NEW n \in Nat, Fresh(m, v, n), NEW w, NEW k \in Nat, n <= k,
         w \in {v, Absent} \/ (w = n + 1)
  PROVE  Fresh(m, w, k)
BY DEF Fresh, Absent

LEMMA FreshNow ==
  ASSUME NEW t \in Nat, NEW v \in Nat, NEW n \in Nat, t <= n, v <= n
  PROVE  Fresh(Meta(t, v), v, n)
BY DEF Fresh, Meta

LEMMA FreshGone == ASSUME NEW v, NEW n \in Nat PROVE Fresh(Gone, v, n)
BY DEF Fresh, Gone, Meta, Absent

(* A task hands what it covers on to others.                               *)
LEMMA HandOn ==
  ASSUME NEW T, ApartIn(T), NEW t \in T, NEW by, ApartIn(by),
         \A b \in by, f \in Files : Covers(b, f) => Covers(t, f)
  PROVE  /\ ApartIn((T \ {t}) \cup by)
         /\ \A f \in Files : Covers(t, f) => (CoveredBy((T \ {t}) \cup by, f) <=> CoveredBy(by, f))
         /\ \A f \in Files : ~Covers(t, f) => (CoveredBy((T \ {t}) \cup by, f) <=> CoveredBy(T, f))
         /\ \A f \in Files : Covers(t, f) => CoveredBy(T, f)
BY DEF ApartIn, CoveredBy

(* The operators of the search.                                            *)
LEMMA ReplaceIs ==
  ASSUME Search, NEW t, NEW by, NEW r, r = Replace(t, by)
  PROVE  /\ DOMAIN r = WalkFields /\ r.kind = search.kind /\ r.unwatched = search.unwatched
         /\ r.todo = (search.todo \ {t}) \cup by /\ r.found = search.found
BY DEF Search, WalkFields, Replace

LEMMA RecordsIs ==
  ASSUME Search, NEW t, NEW f, NEW meta, NEW r, r = Records(t, f, meta)
  PROVE  /\ DOMAIN r = WalkFields /\ r.kind = search.kind /\ r.unwatched = search.unwatched
         /\ r.todo = search.todo \ {t}
         /\ DOMAIN r.found = DOMAIN search.found \cup {f}
         /\ r.found[f] = meta
         /\ \A g \in DOMAIN search.found : g # f => r.found[g] = search.found[g]
<1>1. PICK x : x = Replace(t, {})
  OBVIOUS
<1>2. DOMAIN x = WalkFields /\ x.kind = search.kind /\ x.unwatched = search.unwatched
      /\ x.todo = search.todo \ {t} /\ x.found = search.found
  BY <1>1, ReplaceIs
<1>3. r = [x EXCEPT !.found = [g \in DOMAIN x.found \cup {f} |-> IF g = f THEN meta ELSE x.found[g]]]
  BY <1>1 DEF Records
<1> QED BY <1>2, <1>3 DEF WalkFields

-----------------------------------------------------------------------------
(* Others write.  What changes is noticed through the watch of the file's  *)
(* directory or, with the directory, through that of the root.             *)
ToldNext == dirty' \cup {e.name : e \in events'}
Workspace ==
  /\ stamps' \in Nat /\ stamps <= stamps' /\ dirs' \subseteq Dirs /\ file' \in [Files -> Nat]
  /\ \A f \in Files : file'[f] \in {file[f], Absent} \/ (file'[f] = stamps + 1 /\ stamps' = stamps + 1)
  /\ \A f \in Files : file'[f] # Absent => DirOf[f] = Base \/ DirOf[f] \in dirs'
  /\ seen' = IF Walking THEN [f \in Files |-> seen[f] \cup {file'[f]}] ELSE seen
  /\ UNCHANGED <<scan, once, on, missed, reliable, search>>
  /\ ToldOf \subseteq ToldNext
  /\ on => \A f \in Files : file'[f] # file[f] =>
       \/ Exists(DirOf[f]) /\ (DirOf[f] \in watched => f \in ToldNext)
       \/ DirOf[f] \in Dirs /\ (Base \in watched => DirOf[f] \in ToldNext)
  /\ Base \in watched => Base \in watched'
  /\ on => \A d \in dirs' : \/ d \in dirs /\ (d \in watched => d \in watched')
                            \/ Base \in watched => d \in ToldNext

LEMMA WorkspaceFresh ==
  ASSUME Disk, Workspace
  PROVE  /\ Disk'
         /\ \A f \in Files : \A m : Fresh(m, file[f], stamps) => Fresh(m, file'[f], stamps')
<1>1. ASSUME NEW f \in Files PROVE file'[f] <= stamps'
  BY <1>1 DEF Disk, Workspace, Absent
<1>2. Disk'
  BY <1>1 DEF Disk, Workspace, Exists
<1>3. ASSUME NEW f \in Files, NEW m, Fresh(m, file[f], stamps) PROVE Fresh(m, file'[f], stamps')
  <2>1. stamps \in Nat /\ stamps' \in Nat /\ stamps <= stamps'
    BY DEF Disk, Workspace
  <2>2. CASE file'[f] \in {file[f], Absent}
    BY <1>3, <2>1, <2>2, FreshKept
  <2>3. CASE file'[f] = stamps + 1
    BY <1>3, <2>1, <2>3, FreshKept
  <2> QED BY <1>3, <2>2, <2>3 DEF Workspace
<1> QED BY <1>2, <1>3

LEMMA WorkspaceTold ==
  ASSUME Disk, ToldWalking, Walking, Workspace
  PROVE  ToldWalking'
<1> USE DEF OfDir, Covers, CoveredBy
<1> SUFFICES ASSUME on, ~missed, ~search.unwatched
             PROVE  /\ \A f \in Files : \/ CoveredBy(search.todo, f)
                                        \/ f \in ToldNext \/ DirOf[f] \in ToldNext \cap Dirs
                                        \/ Found(f).content = file'[f]
                    /\ Base \in watched' \/ \E t \in search.todo : t.op = "watch" /\ t.at = Base
                    /\ \A d \in dirs' : \/ d \in watched' \cup ToldNext
                          \/ \E t \in search.todo : (t.at = d /\ t.op = "watch") \/ (t.at = Base /\ OfDir(t))
  BY DEF ToldWalking, Workspace, ToldNext, ToBeTold, ToldOf, Found
<1>1. Base \in watched \/ \E t \in search.todo : t.op = "watch" /\ t.at = Base
  BY DEF ToldWalking
<1>2. ASSUME NEW d \in dirs
      PROVE  \/ d \in watched \cup ToldOf
             \/ \E t \in search.todo : (t.at = d /\ t.op = "watch") \/ (t.at = Base /\ OfDir(t))
  BY DEF ToldWalking
<1>3. ToldOf \subseteq ToldNext
  BY DEF Workspace
<1>4. ASSUME NEW f \in Files
      PROVE  CoveredBy(search.todo, f) \/ f \in ToldNext \/ DirOf[f] \in ToldNext \cap Dirs \/ Found(f).content = file'[f]
  <2>1. CASE file'[f] = file[f]
    BY <1>3, <2>1 DEF ToldWalking, ToBeTold
  <2>2. CASE Exists(DirOf[f]) /\ (DirOf[f] \in watched => f \in ToldNext)
    BY <1>1, <1>2, <1>3, <2>2 DEF Exists, Disk
  <2>3. CASE DirOf[f] \in Dirs /\ (Base \in watched => DirOf[f] \in ToldNext)
    BY <1>1, <2>3
  <2> QED BY <2>1, <2>2, <2>3 DEF Workspace
<1>5. ASSUME NEW d \in dirs'
      PROVE  \/ d \in watched' \cup ToldNext
             \/ \E t \in search.todo : (t.at = d /\ t.op = "watch") \/ (t.at = Base /\ OfDir(t))
  <2>1. CASE d \in dirs /\ (d \in watched => d \in watched')
    BY <1>2, <1>3, <2>1
  <2>2. CASE Base \in watched => d \in ToldNext
    BY <1>1, <2>2
  <2> QED BY <1>5, <2>1, <2>2 DEF Workspace
<1> QED BY <1>1, <1>4, <1>5 DEF Workspace

LEMMA WorkspaceStep ==
  ASSUME ScanInv, Workspace
  PROVE  ScanInv'
<1>1. Disk' /\ \A f \in Files : \A m : Fresh(m, file[f], stamps) => Fresh(m, file'[f], stamps')
  BY WorkspaceFresh DEF ScanInv
<1>2. Scans'
  BY <1>1 DEF ScanInv, Scans, Workspace
<1>3. DOMAIN seen' = Files
  BY DEF ScanInv, Workspace
<1>4. ASSUME Walking PROVE Search' /\ Looked' /\ ToldWalking'
  <2>1. Search'
    <3>1. \A t \in search.todo : IsTask(t) => IsTask(t)'
      BY DEF Disk, ScanInv, Workspace, IsTask
    <3> QED BY <1>1, <1>4, <3>1 DEF ScanInv, Search, Workspace, WalkFields
  <2>2. \A f \in Files : Found(f)' = Found(f)
    BY DEF Found, Workspace
  <2>3. Looked'
    BY <1>4, <2>2 DEF ScanInv, Looked, Workspace
  <2>4. ToldWalking'
    BY <1>4, WorkspaceTold DEF ScanInv
  <2> QED BY <2>1, <2>3, <2>4
<1>5. ASSUME ~Walking PROVE ToldIdle'
  <2>1. ToldIdle
    BY <1>5 DEF ScanInv
  <2> SUFFICES ASSUME on, ~missed, once, reliable
               PROVE  /\ \A f \in Files : f \in ToldNext \/ DirOf[f] \in ToldNext \cap Dirs \/ scan[f].content = file'[f]
                      /\ Base \in watched'
                      /\ dirs' \subseteq watched' \cup ToldNext
    BY DEF ToldIdle, Workspace, ToldNext, ToldOf, ToBeTold
  <2>2. Base \in watched /\ dirs \subseteq watched \cup ToldOf /\ ToldOf \subseteq ToldNext
    BY <2>1 DEF ToldIdle, Workspace
  <2>3. ASSUME NEW f \in Files PROVE f \in ToldNext \/ DirOf[f] \in ToldNext \cap Dirs \/ scan[f].content = file'[f]
    <3>1. CASE file'[f] = file[f]
      BY <2>1, <2>2, <3>1 DEF ToldIdle, ToBeTold
    <3>2. CASE Exists(DirOf[f]) /\ (DirOf[f] \in watched => f \in ToldNext)
      BY <2>2, <3>2 DEF Exists, ScanInv, Disk
    <3>3. CASE DirOf[f] \in Dirs /\ (Base \in watched => DirOf[f] \in ToldNext)
      BY <2>2, <3>3
    <3> QED BY <3>1, <3>2, <3>3 DEF Workspace
  <2> QED BY <2>2, <2>3 DEF Workspace
<1>6. Walking' = Walking
  BY DEF Workspace, Walking
<1> QED BY <1>1, <1>2, <1>3, <1>4, <1>5, <1>6 DEF ScanInv, Workspace

(* Events of a watched directory are told of.                              *)
LEMMA Noticed ==
  ASSUME NEW S, Notice(S), dirty' = dirty
  PROVE  /\ ToldOf \subseteq ToldNext
         /\ \A a, b : Entry(a, b) \in S /\ on /\ a \in watched => b \in ToldNext
<1>1. events' = events \cup {e \in S : on /\ e.in \in watched}
  BY DEF Notice
<1>2. ASSUME NEW e \in events' PROVE e.name \in ToldNext
  BY <1>2 DEF ToldNext
<1>3. ASSUME NEW a, NEW b, Entry(a, b) \in S, on, a \in watched PROVE b \in ToldNext
  <2>1. Entry(a, b).in = a /\ Entry(a, b).name = b
    BY DEF Entry
  <2>2. Entry(a, b) \in events'
    BY <1>1, <1>3, <2>1
  <2> QED BY <1>2, <2>1, <2>2
<1> QED BY <1>1, <1>3 DEF ToldOf, ToldNext

LEMMA StepWrite ==
  ASSUME ScanInv, NEW f \in Files, Write(f)
  PROVE  Workspace
<1>1. file' = [file EXCEPT ![f] = stamps + 1] /\ stamps' = stamps + 1 /\ dirs' = dirs /\ Exists(DirOf[f])
  BY DEF Write, FilesBecome
<1>2. file \in [Files -> Nat] /\ stamps \in Nat
  BY DEF ScanInv, Disk
<1>3. ToldOf \subseteq ToldNext /\ (on /\ DirOf[f] \in watched => f \in ToldNext)
  BY Noticed DEF Write
<1>4. seen' = IF Walking THEN [g \in Files |-> seen[g] \cup {file'[g]}] ELSE seen
  BY DEF Write, FilesBecome
<1>5. UNCHANGED <<scan, once, on, missed, reliable, search, watched>>
  BY DEF Write
<1>6. /\ stamps' \in Nat /\ stamps <= stamps' /\ dirs' \subseteq Dirs /\ file' \in [Files -> Nat]
      /\ \A g \in Files : file'[g] \in {file[g], Absent} \/ (file'[g] = stamps + 1 /\ stamps' = stamps + 1)
  BY <1>1, <1>2 DEF ScanInv, Disk
<1>7. \A g \in Files : file'[g] # Absent => DirOf[g] = Base \/ DirOf[g] \in dirs'
  BY <1>1, <1>2 DEF ScanInv, Disk, Exists
<1>8. on => \A g \in Files : file'[g] # file[g] =>
       \/ Exists(DirOf[g]) /\ (DirOf[g] \in watched => g \in ToldNext)
       \/ DirOf[g] \in Dirs /\ (Base \in watched => DirOf[g] \in ToldNext)
  BY <1>1, <1>2, <1>3
<1>9. on => \A d \in dirs' : d \in dirs /\ (d \in watched => d \in watched')
  BY <1>1, <1>5
<1> QED BY <1>3, <1>4, <1>5, <1>6, <1>7, <1>8, <1>9 DEF Workspace

LEMMA StepRemove ==
  ASSUME ScanInv, NEW f \in Files, Erase(f)
  PROVE  Workspace
<1>1. file' = [file EXCEPT ![f] = Absent] /\ stamps' = stamps /\ dirs' = dirs /\ Exists(DirOf[f])
  BY DEF Erase, FilesBecome, ScanInv, Disk
<1>2. file \in [Files -> Nat] /\ stamps \in Nat
  BY DEF ScanInv, Disk
<1>3. ToldOf \subseteq ToldNext /\ (on /\ DirOf[f] \in watched => f \in ToldNext)
  BY Noticed DEF Erase
<1>4. seen' = IF Walking THEN [g \in Files |-> seen[g] \cup {file'[g]}] ELSE seen
  BY DEF Erase, FilesBecome
<1> QED BY <1>1, <1>2, <1>3, <1>4 DEF Workspace, Erase, ScanInv, Disk, Exists, Absent

LEMMA StepMoveIn ==
  ASSUME ScanInv, NEW d \in Dirs, NEW with \in SUBSET InDir(d), MoveIn(d, with)
  PROVE  Workspace
<1>1. /\ file' = [f \in Files |-> IF f \in with THEN stamps + 1 ELSE file[f]]
      /\ stamps' = stamps + 1 /\ dirs' = dirs \cup {d}
  BY DEF MoveIn, FilesBecome
<1>2. file \in [Files -> Nat] /\ stamps \in Nat /\ \A f \in with : DirOf[f] = d
  BY DEF ScanInv, Disk, InDir
<1>3. ToldOf \subseteq ToldNext /\ (on /\ Base \in watched => d \in ToldNext)
  BY Noticed DEF MoveIn
<1>4. seen' = IF Walking THEN [g \in Files |-> seen[g] \cup {file'[g]}] ELSE seen
  BY DEF MoveIn, FilesBecome
<1>5. \A f \in Files : file'[f] # file[f] => f \in with
  BY <1>1
<1> QED BY <1>1, <1>2, <1>3, <1>4, <1>5 DEF Workspace, MoveIn, ScanInv, Disk, Exists

LEMMA StepRemoveDir ==
  ASSUME ScanInv, NEW d \in Dirs, RemoveDir(d)
  PROVE  Workspace
<1>1. /\ file' = [f \in Files |-> IF DirOf[f] = d THEN Absent ELSE file[f]]
      /\ stamps' = stamps /\ dirs' = dirs \ {d}
  BY DEF RemoveDir, FilesBecome
<1>2. file \in [Files -> Nat] /\ stamps \in Nat
  BY DEF ScanInv, Disk
<1>3. ToldOf \subseteq ToldNext /\ (on /\ Base \in watched => d \in ToldNext)
  BY Noticed DEF RemoveDir
<1>4. seen' = IF Walking THEN [g \in Files |-> seen[g] \cup {file'[g]}] ELSE seen
  BY DEF RemoveDir, FilesBecome
<1>5. \A f \in Files : file'[f] # file[f] => DirOf[f] = d
  BY <1>1
<1>6. watched' = watched \ {d} /\ Base # d
  BY Places DEF RemoveDir
<1> QED BY <1>1, <1>2, <1>3, <1>4, <1>5, <1>6 DEF Workspace, RemoveDir, ScanInv, Disk, Exists, Absent

-----------------------------------------------------------------------------
(* The watcher's thread only moves names on, or notes that it lost some.   *)
LEMMA NamesKept ==
  ASSUME ScanInv, UNCHANGED <<onDisk, scan, once, on, watched, reliable, search, seen>>,
         missed' \in BOOLEAN, ~missed' => ~missed /\ ToldOf \subseteq ToldNext
  PROVE  ScanInv'
<1>1. Disk' /\ Scans' /\ DOMAIN seen' = Files
  BY DEF ScanInv, Disk, Scans, onDisk, Exists
<1>2. ASSUME Walking PROVE Search' /\ Looked' /\ ToldWalking'
  <2>1. Search'
    BY <1>2 DEF ScanInv, Search, onDisk, IsTask, WalkFields
  <2>2. \A f \in Files : Found(f)' = Found(f)
    BY DEF Found
  <2>3. Looked'
    BY <1>2, <2>2 DEF ScanInv, Looked, onDisk
  <2>4. ToldWalking'
    <3> SUFFICES ASSUME on, ~missed', ~search.unwatched
                 PROVE  /\ \A f \in Files : \/ CoveredBy(search.todo, f)
                                            \/ f \in ToldNext \/ DirOf[f] \in ToldNext \cap Dirs
                                            \/ Found(f).content = file[f]
                        /\ Base \in watched \/ \E t \in search.todo : t.op = "watch" /\ t.at = Base
                        /\ \A d \in dirs : \/ d \in watched \cup ToldNext
                             \/ \E t \in search.todo : (t.at = d /\ t.op = "watch") \/ (t.at = Base /\ OfDir(t))
      BY <2>2 DEF ToldWalking, onDisk, ToldNext, ToBeTold, ToldOf
    <3> QED BY <1>2 DEF ScanInv, ToldWalking, ToBeTold
  <2> QED BY <2>1, <2>3, <2>4
<1>3. ASSUME ~Walking PROVE ToldIdle'
  <2> SUFFICES ASSUME on, ~missed', once, reliable
               PROVE  /\ \A f \in Files : f \in ToldNext \/ DirOf[f] \in ToldNext \cap Dirs \/ scan[f].content = file[f]
                      /\ Base \in watched
                      /\ dirs \subseteq watched \cup ToldNext
    BY DEF ToldIdle, onDisk, ToldNext, ToldOf, ToBeTold
  <2> QED BY <1>3 DEF ScanInv, ToldIdle, ToBeTold
<1>4. Walking' = Walking
  BY DEF Walking
<1> QED BY <1>1, <1>2, <1>3, <1>4 DEF ScanInv

LEMMA StepHandle ==
  ASSUME ScanInv, NEW e \in events, Handle(e)
  PROVE  ScanInv'
<1>1. ASSUME ~missed' PROVE ~missed /\ ToldOf \subseteq ToldNext
  <2>1. ~missed /\ dirty' = dirty \cup {e.name} /\ events' = events \ {e}
    BY <1>1 DEF Handle, Collected
  <2> QED BY <2>1 DEF ToldOf, ToldNext
<1>2. missed' \in BOOLEAN
  BY DEF Handle, ScanInv, TooMany
<1> QED BY <1>1, <1>2, NamesKept DEF Handle

LEMMA StepOverflow ==
  ASSUME ScanInv, Overflow
  PROVE  ScanInv'
BY NamesKept DEF Overflow

-----------------------------------------------------------------------------
(* A search of everything begins.                                          *)
LEMMA FullStarts ==
  ASSUME ScanInv, UNCHANGED <<onDisk, scan, once, on>>, missed' \in BOOLEAN, reliable' = FALSE,
         Walking', DOMAIN search' = WalkFields, search'.kind = "full", search'.unwatched \in BOOLEAN,
         search'.todo = {Task("watch", Base)}, DOMAIN search'.found = {},
         DOMAIN seen' = Files, \A f \in Files : file[f] \in seen'[f]
  PROVE  ScanInv'
<1>1. Disk' /\ Scans'
  BY DEF ScanInv, Disk, Scans, onDisk, Exists
<1>2. PICK t : t = Task("watch", Base)
  OBVIOUS
<1>3. t.op = "watch" /\ t.at = Base /\ t.mtime = 0 /\ search'.todo = {t}
  BY <1>2 DEF Task, Absent
<1>4. \A f \in Files : CoveredBy(search'.todo, f)
  BY <1>3 DEF CoveredBy, Covers, OfDir
<1>5. Search'
  <2>1. IsTask(t)'
    BY <1>3 DEF IsTask, OfDir, ScanInv, Disk, onDisk
  <2>2. ApartIn(search'.todo)
    BY <1>3 DEF ApartIn
  <2> QED BY <1>3, <2>1, <2>2 DEF Search
<1>6. \A f \in Files : Found(f)' = Gone
  BY DEF Found
<1>7. Looked'
  BY <1>4, <1>6 DEF Looked, onDisk
<1>8. ToldWalking'
  <2>1. \E u \in search'.todo : u.op = "watch" /\ u.at = Base
    BY <1>3
  <2> QED BY <1>4, <2>1 DEF ToldWalking, OfDir
<1> QED BY <1>1, <1>5, <1>7, <1>8 DEF ScanInv

(* A search of what the watcher has told, if it was to be trusted.         *)
FirstTasks(paths) == {FirstTask(x) : x \in Targets(paths)}

LEMMA TargetFacts ==
  ASSUME NEW P, NEW T, T = Targets(P)
  PROVE  /\ T \subseteq Dirs \cup Files
         /\ \A f \in Files : f \in P => f \in T \/ DirOf[f] \in T
         /\ \A f \in Files : f \in T => DirOf[f] \notin T
         /\ P \cap Dirs \subseteq T
<1>1. \A f \in Files : ~Exists(DirOf[f]) => DirOf[f] \in Dirs
  BY Places DEF Exists
<1> QED BY <1>1, Places DEF Targets

LEMMA FirstTaskIs ==
  ASSUME NEW x \in Dirs \cup Files, NEW t, t = FirstTask(x)
  PROVE  /\ t.at = x /\ t.mtime = 0
         /\ x \in Dirs => t.op = "watch"
         /\ x \notin Dirs => t.op = "stat"
BY DEF FirstTask, Task, Absent

LEMMA FirstTasksFacts ==
  ASSUME NEW P, NEW T, T = Targets(P), NEW ts, ts = FirstTasks(P)
  PROVE  /\ \A t \in ts : t.at \in T /\ t.mtime = 0 /\ t.op = (IF t.at \in Dirs THEN "watch" ELSE "stat")
         /\ ApartIn(ts)
         /\ \A f \in Files : CoveredBy(ts, f) <=> f \in T \/ DirOf[f] \in T
<1>1. T \subseteq Dirs \cup Files /\ \A f \in Files : f \in T => DirOf[f] \notin T
  BY TargetFacts
<1>2. ASSUME NEW t \in ts PROVE t.at \in T /\ t.mtime = 0 /\ t.op = (IF t.at \in Dirs THEN "watch" ELSE "stat")
                                /\ t = FirstTask(t.at)
  <2>1. PICK x \in T : t = FirstTask(x)
    BY <1>2 DEF FirstTasks
  <2> QED BY <1>1, <2>1, FirstTaskIs
<1>3. ASSUME NEW x \in T
      PROVE  /\ FirstTask(x) \in ts /\ FirstTask(x).at = x
             /\ FirstTask(x).op = (IF x \in Dirs THEN "watch" ELSE "stat")
  BY <1>1, <1>3, FirstTaskIs DEF FirstTasks
<1>4. ASSUME NEW t \in ts, NEW f \in Files
      PROVE  Covers(t, f) <=> t.at = f \/ t.at = DirOf[f]
  BY <1>1, <1>2, Places DEF Covers, OfDir
<1>5. ApartIn(ts)
  <2> SUFFICES ASSUME NEW t \in ts, NEW u \in ts, NEW f \in Files, Covers(t, f), Covers(u, f) PROVE t = u
    BY DEF ApartIn
  <2>1. t.at = u.at
    BY <1>1, <1>2, <1>4
  <2> QED BY <1>2, <2>1
<1>6. \A f \in Files : CoveredBy(ts, f) <=> f \in T \/ DirOf[f] \in T
  BY <1>2, <1>3, <1>4 DEF CoveredBy
<1> QED BY <1>2, <1>5, <1>6

LEMMA PartStarts ==
  ASSUME ScanInv, ~Walking, Trusted, ~missed, NEW P, P = ToldOf, Began, reliable' = FALSE, search' = PartWalk(P),
         missed' = FALSE
  PROVE  ScanInv'
<1>1. PICK T : T = Targets(P)
  OBVIOUS
<1>2. PICK ts : ts = FirstTasks(P)
  OBVIOUS
<1>3. /\ search' = [kind |-> "part", todo |-> ts, found |-> Cleared(T), unwatched |-> FALSE]
  BY <1>1, <1>2 DEF PartWalk, FirstTasks
<1>4. /\ DOMAIN search' = WalkFields /\ search'.kind = "part" /\ search'.unwatched = FALSE
      /\ search'.todo = ts /\ search'.found = Cleared(T)
  BY <1>3 DEF WalkFields
<1>5. Walking'
  BY <1>4 DEF Walking, NoWalk
<1>6. /\ \A t \in ts : t.at \in T /\ t.mtime = 0 /\ t.op = (IF t.at \in Dirs THEN "watch" ELSE "stat")
      /\ ApartIn(ts)
      /\ \A f \in Files : CoveredBy(ts, f) <=> f \in T \/ DirOf[f] \in T
  BY <1>1, <1>2, FirstTasksFacts
<1>7. /\ T \subseteq Dirs \cup Files
      /\ \A f \in Files : f \in P => f \in T \/ DirOf[f] \in T
      /\ P \cap Dirs \subseteq T
  BY <1>1, TargetFacts
<1>8. UNCHANGED <<file, dirs, stamps, scan, once, on, watched>> /\ \A f \in Files : file[f] \in seen'[f]
  BY DEF Began, onDisk
<1>9. Disk' /\ Scans' /\ DOMAIN seen' = Files
  BY <1>8 DEF ScanInv, Disk, Scans, Exists, Began
<1>10. ASSUME NEW f \in Files
       PROVE  Found(f)' = IF CoveredBy(ts, f) THEN Gone ELSE scan[f]
  <2>1. DOMAIN Cleared(T) = {g \in Files : (g \in T \/ DirOf[g] \in T) /\ scan[g] # Gone}
    BY DEF Cleared, AtOrUnder
  <2>2. \A g \in DOMAIN Cleared(T) : Cleared(T)[g] = Gone
    BY DEF Cleared
  <2> QED BY <1>4, <1>6, <1>8, <2>1, <2>2 DEF Found
<1>11. ASSUME NEW f \in Files, ~CoveredBy(ts, f) PROVE scan[f].content = file[f]
  <2>1. f \notin P /\ DirOf[f] \notin P \cap Dirs
    BY <1>6, <1>7, <1>11
  <2> QED BY <2>1 DEF ScanInv, ToldIdle, Trusted, ToBeTold
<1>12. Search'
  <2>1. ASSUME NEW t \in ts PROVE IsTask(t)'
    BY <1>6, <1>7, <1>8, <2>1 DEF IsTask, OfDir, ScanInv, Disk
  <2>2. DOMAIN Cleared(T) \subseteq Files /\ \A f \in DOMAIN Cleared(T) : Fresh(Cleared(T)[f], file[f], stamps)
    BY FreshGone DEF Cleared, AtOrUnder, ScanInv, Disk
  <2> QED BY <1>4, <1>6, <1>8, <2>1, <2>2 DEF Search
<1>13. Looked'
  <2> SUFFICES ASSUME NEW f \in Files
               PROVE  /\ file[f] \in seen'[f]
                      /\ IF CoveredBy(ts, f) THEN Found(f)' = Gone ELSE Found(f)'.content \in seen'[f]
    BY <1>4, <1>8 DEF Looked
  <2> QED BY <1>8, <1>10, <1>11
<1>14. ToldWalking'
  <2>1. \A f \in Files : CoveredBy(ts, f) \/ Found(f)'.content = file[f]
    BY <1>10, <1>11
  <2>2. Base \in watched /\ dirs \subseteq watched \cup P
    BY DEF ScanInv, ToldIdle, Trusted
  <2>3. ASSUME NEW d \in dirs, d \notin watched PROVE \E t \in ts : t.at = d /\ t.op = "watch"
    <3>1. d \in T /\ d \in Dirs
      BY <1>7, <2>2, <2>3 DEF ScanInv, Disk
    <3> QED BY <1>1, <1>2, <3>1, FirstTaskIs DEF FirstTasks
  <2> QED BY <1>4, <1>8, <2>1, <2>2, <2>3 DEF ToldWalking
<1> QED BY <1>5, <1>8, <1>9, <1>12, <1>13, <1>14 DEF ScanInv

LEMMA StepBegin ==
  ASSUME ScanInv, Begin
  PROVE  ScanInv'
<1>1. ~Walking /\ Began /\ reliable' = FALSE
  BY DEF Begin
<1>2. UNCHANGED <<onDisk, scan, once, on>> /\ DOMAIN seen' = Files /\ \A f \in Files : file[f] \in seen'[f]
  BY <1>1 DEF Began
<1>3. ASSUME search' = FullWalk, missed' = FALSE PROVE ScanInv'
  <2>1. /\ DOMAIN search' = WalkFields /\ search'.kind = "full" /\ search'.unwatched = FALSE
        /\ search'.todo = {Task("watch", Base)} /\ search'.found = <<>>
    BY <1>3 DEF FullWalk, WalkFields, WholeTree
  <2>2. DOMAIN search'.found = {}
    BY <2>1
  <2>3. Walking'
    BY <2>1 DEF Walking, NoWalk
  <2> QED BY <1>1, <1>2, <1>3, <2>1, <2>2, <2>3, FullStarts
<1>4. CASE Plan(FALSE, FALSE)
  BY <1>3, <1>4 DEF Plan
<1>5. CASE Plan(TRUE, Trusted)
  <2>1. missed' = FALSE
    BY <1>5 DEF Plan
  <2>2. CASE search' = FullWalk
    BY <1>3, <2>1, <2>2
  <2>3. CASE search' # FullWalk
    <3>1. Trusted /\ ~missed /\ search' = PartWalk(Collected(events))
      BY <1>5, <2>3 DEF Plan
    <3>2. Collected(events) = ToldOf
      BY <3>1 DEF Collected, ToldOf
    <3>3. PICK P : P = ToldOf
      OBVIOUS
    <3>4. search' = PartWalk(P)
      BY <3>1, <3>2, <3>3
    <3> QED BY <1>1, <2>1, <3>1, <3>3, <3>4, PartStarts
  <2> QED BY <2>2, <2>3
<1> QED BY <1>4, <1>5 DEF Begin

-----------------------------------------------------------------------------
(* The search does one task t, and hands some of it on.  Of each file of   *)
(* the task it has the record it should have, or hands the file on.        *)
Does(t, by) ==
  /\ UNCHANGED <<onDisk, scan, once, reliable, seen>>
  /\ DOMAIN search' = WalkFields /\ search'.kind = search.kind /\ search'.unwatched \in BOOLEAN
  /\ search'.todo = (search.todo \ {t}) \cup by
  /\ DOMAIN search'.found \subseteq Files
  /\ \A f \in DOMAIN search'.found : Fresh(search'.found[f], file[f], stamps)
  /\ \A f \in Files : ~Covers(t, f) => Found(f)' = Found(f)
  /\ \A f \in Files : Covers(t, f) =>
        IF CoveredBy(by, f) THEN Found(f)' = Gone ELSE Found(f)'.content = file[f]
Hands(t, by) == ApartIn(by) /\ \A b \in by : IsTask(b) /\ \A f \in Files : Covers(b, f) => Covers(t, f)

LEMMA TaskDone ==
  ASSUME ScanInv, Walking, NEW t \in search.todo, NEW by, Does(t, by), Hands(t, by),
         on' \in BOOLEAN, missed' \in BOOLEAN,
         on' /\ ~missed' /\ ~search'.unwatched =>
           /\ on /\ ~missed /\ ~search.unwatched /\ dirty' = dirty /\ events' = events
           /\ Base \in watched' \/ \E u \in search'.todo : u.op = "watch" /\ u.at = Base
           /\ \A d \in dirs : \/ d \in watched' \cup ToldOf
                              \/ \E u \in search'.todo : (u.at = d /\ u.op = "watch") \/ (u.at = Base /\ OfDir(u))
  PROVE  ScanInv'
<1>1. Disk' /\ Scans' /\ DOMAIN seen' = Files
  BY DEF ScanInv, Disk, Scans, onDisk, Exists, Does
<1>2. Walking'
  BY DEF Does, Walking, NoWalk, WalkFields
<1>3. PICK T : T = search.todo
  OBVIOUS
<1>4. ApartIn(T) /\ t \in T /\ search'.todo = (T \ {t}) \cup by
  BY <1>3 DEF ScanInv, Search, Does
<1>5. /\ ApartIn(search'.todo)
      /\ \A f \in Files : Covers(t, f) => (CoveredBy(search'.todo, f) <=> CoveredBy(by, f))
      /\ \A f \in Files : ~Covers(t, f) => (CoveredBy(search'.todo, f) <=> CoveredBy(T, f))
      /\ \A f \in Files : Covers(t, f) => CoveredBy(T, f)
  <2>1. ApartIn(by) /\ \A b \in by, f \in Files : Covers(b, f) => Covers(t, f)
    BY DEF Hands
  <2>2. PICK S : S = (T \ {t}) \cup by
    OBVIOUS
  <2>3. /\ ApartIn(S)
        /\ \A f \in Files : Covers(t, f) => (CoveredBy(S, f) <=> CoveredBy(by, f))
        /\ \A f \in Files : ~Covers(t, f) => (CoveredBy(S, f) <=> CoveredBy(T, f))
        /\ \A f \in Files : Covers(t, f) => CoveredBy(T, f)
    BY <1>4, <2>1, <2>2, HandOn
  <2> QED BY <1>4, <2>2, <2>3
<1>6. Search'
  <2>1. ASSUME NEW u \in search'.todo PROVE IsTask(u)'
    <3>1. IsTask(u)
      BY <1>3, <1>4, <2>1 DEF ScanInv, Search, Hands
    <3> QED BY <3>1 DEF IsTask, Does, onDisk
  <2> QED BY <1>5, <2>1 DEF Does, Search, ScanInv, onDisk
<1>7. Looked'
  <2> SUFFICES ASSUME NEW f \in Files
               PROVE  IF CoveredBy(search'.todo, f) THEN Found(f)' = Gone ELSE Found(f)'.content \in seen[f]
    BY DEF ScanInv, Looked, Does, onDisk
  <2> QED BY <1>3, <1>5 DEF ScanInv, Looked, Does
<1>8. ToldWalking'
  <2> SUFFICES ASSUME on', ~missed', ~search'.unwatched
               PROVE  /\ \A f \in Files : CoveredBy(search'.todo, f) \/ ToBeTold(f) \/ Found(f)'.content = file[f]
                      /\ Base \in watched' \/ \E u \in search'.todo : u.op = "watch" /\ u.at = Base
                      /\ \A d \in dirs : \/ d \in watched' \cup ToldOf
                              \/ \E u \in search'.todo : (u.at = d /\ u.op = "watch") \/ (u.at = Base /\ OfDir(u))
    BY DEF ToldWalking, Does, onDisk, ToldOf, ToBeTold
  <2>1. ASSUME NEW f \in Files PROVE CoveredBy(search'.todo, f) \/ ToBeTold(f) \/ Found(f)'.content = file[f]
    <3>1. CASE Covers(t, f)
      BY <1>5, <3>1 DEF Does
    <3>2. CASE ~Covers(t, f)
      BY <1>3, <1>5, <3>2 DEF Does, ScanInv, ToldWalking
    <3> QED BY <3>1, <3>2
  <2> QED BY <2>1
<1> QED BY <1>1, <1>2, <1>6, <1>7, <1>8 DEF ScanInv, Does

LEMMA StepWatchDir ==
  ASSUME ScanInv, Walking, NEW t \in search.todo, WatchDir(t)
  PROVE  ScanInv'
<1>1. PICK b : b = Task("list", t.at)
  OBVIOUS
<1>2. b.op = "list" /\ b.at = t.at /\ b.mtime = 0
  BY <1>1 DEF Task, Absent
<1>3. t.op = "watch" /\ IsTask(t) /\ Search /\ Disk /\ Looked
  BY DEF WatchDir, ScanInv, Search
<1>4. PICK r : r = Replace(t, {Task("list", t.at)})
  OBVIOUS
<1>5. /\ DOMAIN r = WalkFields /\ r.kind = search.kind /\ r.unwatched = search.unwatched
      /\ r.todo = (search.todo \ {t}) \cup {b} /\ r.found = search.found
  BY <1>1, <1>3, <1>4, ReplaceIs
<1>6. search' = r \/ (search' = [r EXCEPT !.unwatched = TRUE])
  BY <1>4 DEF WatchDir
<1>7. /\ DOMAIN search' = WalkFields /\ search'.kind = search.kind
      /\ search'.todo = (search.todo \ {t}) \cup {b} /\ search'.found = search.found
      /\ search'.unwatched \in {search.unwatched, TRUE}
  BY <1>5, <1>6 DEF WalkFields
<1>8. \A f \in Files : Covers(b, f) <=> Covers(t, f)
  BY <1>2, <1>3 DEF Covers, OfDir
<1>9. Hands(t, {b})
  <2>1. IsTask(b)
    BY <1>2, <1>3 DEF IsTask, OfDir, Disk
  <2> QED BY <1>8, <2>1 DEF Hands, ApartIn
<1>10. \A f \in Files : Found(f)' = Found(f)
  BY <1>7 DEF Found, WatchDir
<1>11. Does(t, {b})
  <2>1. \A f \in Files : Covers(t, f) => CoveredBy({b}, f) /\ Found(f) = Gone
    BY <1>3, <1>8 DEF CoveredBy, Looked
  <2> QED BY <1>3, <1>7, <1>10, <2>1 DEF Does, WatchDir, Search
<1>12. ASSUME on', ~missed', ~search'.unwatched
       PROVE  /\ on /\ ~missed /\ ~search.unwatched /\ dirty' = dirty /\ events' = events
              /\ Base \in watched' \/ \E u \in search'.todo : u.op = "watch" /\ u.at = Base
              /\ \A d \in dirs : \/ d \in watched' \cup ToldOf
                                 \/ \E u \in search'.todo : (u.at = d /\ u.op = "watch") \/ (u.at = Base /\ OfDir(u))
  <2>1. search' = r
    BY <1>5, <1>6, <1>12 DEF WalkFields
  <2>2. /\ on /\ ~missed /\ ~search.unwatched /\ dirty' = dirty /\ events' = events
        /\ watched' = IF Exists(t.at) THEN watched \cup {t.at} ELSE watched
    <3>1. ~on' \/ search' = [r EXCEPT !.unwatched = TRUE]
          \/ /\ on = on' /\ events' = events /\ dirty' = dirty /\ missed = missed'
             /\ watched' = IF on /\ Exists(t.at) THEN watched \cup {t.at} ELSE watched
      BY <1>4 DEF WatchDir
    <3>2. search' # [r EXCEPT !.unwatched = TRUE]
      BY <1>5, <1>12 DEF WalkFields
    <3>3. /\ on = on' /\ events' = events /\ dirty' = dirty /\ missed = missed'
          /\ watched' = IF on /\ Exists(t.at) THEN watched \cup {t.at} ELSE watched
      BY <1>12, <3>1, <3>2
    <3>4. on /\ ~missed
      BY <1>12, <3>3
    <3>5. ~search.unwatched
      BY <1>5, <1>12, <2>1
    <3> QED BY <3>3, <3>4, <3>5
  <2>3. /\ Base \in watched \/ \E u \in search.todo : u.op = "watch" /\ u.at = Base
        /\ \A d \in dirs : \/ d \in watched \cup ToldOf
                           \/ \E u \in search.todo : (u.at = d /\ u.op = "watch") \/ (u.at = Base /\ OfDir(u))
    BY <2>2 DEF ScanInv, ToldWalking
  <2>4. Base \in watched' \/ \E u \in search'.todo : u.op = "watch" /\ u.at = Base
    BY <1>7, <2>2, <2>3 DEF Exists
  <2>5. ASSUME NEW d \in dirs, d \notin watched' \cup ToldOf
        PROVE  \E u \in search'.todo : (u.at = d /\ u.op = "watch") \/ (u.at = Base /\ OfDir(u))
    <3>1. PICK u \in search.todo : (u.at = d /\ u.op = "watch") \/ (u.at = Base /\ OfDir(u))
      BY <2>2, <2>3, <2>5
    <3>2. CASE u # t
      BY <1>7, <3>1, <3>2
    <3>3. CASE u = t
      <4>1. t.at = Base
        BY <2>2, <2>5, <3>1, <3>3 DEF Exists
      <4> QED BY <1>2, <1>7, <4>1 DEF OfDir
    <3> QED BY <3>2, <3>3
  <2> QED BY <2>2, <2>4, <2>5
<1>13. on' \in BOOLEAN /\ missed' \in BOOLEAN
  BY DEF ScanInv, WatchDir
<1> QED BY <1>9, <1>11, <1>12, <1>13, TaskDone

LEMMA StepListDir ==
  ASSUME ScanInv, Walking, NEW t \in search.todo, ListDir(t)
  PROVE  ScanInv'
<1>1. PICK by : by = {Task("stat", f) : f \in {g \in InDir(t.at) : file[g] # Absent}}
                     \cup (IF t.at = Base THEN {Task("watch", d) : d \in dirs} ELSE {})
  OBVIOUS
<1>2. t.op = "list" /\ IsTask(t) /\ Search /\ Disk /\ Looked
  BY DEF ListDir, ScanInv, Search
<1>3. search' = Replace(t, by)
  BY <1>1 DEF ListDir
<1>4. /\ DOMAIN search' = WalkFields /\ search'.kind = search.kind /\ search'.unwatched = search.unwatched
      /\ search'.todo = (search.todo \ {t}) \cup by /\ search'.found = search.found
  BY <1>2, <1>3, ReplaceIs
<1>5. ASSUME NEW b \in by
      PROVE  \/ b.op = "stat" /\ b.mtime = 0 /\ b.at \in Files /\ DirOf[b.at] = t.at /\ b = Task("stat", b.at)
             \/ b.op = "watch" /\ b.mtime = 0 /\ b.at \in dirs /\ t.at = Base /\ b = Task("watch", b.at)
  BY <1>1, <1>5 DEF Task, Absent, InDir
<1>6. ASSUME NEW b \in by, NEW f \in Files, Covers(b, f)
      PROVE  Covers(t, f)
  BY <1>2, <1>5, <1>6 DEF Covers, OfDir
<1>7. ASSUME NEW b \in by PROVE IsTask(b)
  BY <1>2, <1>5, <1>7 DEF IsTask, OfDir, Disk
<1>8. ApartIn(by)
  <2> SUFFICES ASSUME NEW b \in by, NEW c \in by, NEW f \in Files, Covers(b, f), Covers(c, f) PROVE b = c
    BY DEF ApartIn
  <2>1. \A d \in dirs : d \in Dirs /\ d # Base
    BY <1>2, Places DEF Disk
  <2>2. (b.op = "stat" /\ b.at = f) \/ (b.op = "watch" /\ b.at = DirOf[f] /\ b.at # Base /\ t.at = Base)
    BY <1>5, <2>1 DEF Covers, OfDir
  <2>3. (c.op = "stat" /\ c.at = f) \/ (c.op = "watch" /\ c.at = DirOf[f] /\ c.at # Base /\ t.at = Base)
    BY <1>5, <2>1 DEF Covers, OfDir
  <2>4. b.op = "stat" /\ b.at = f => DirOf[f] = t.at
    BY <1>5
  <2>5. c.op = "stat" /\ c.at = f => DirOf[f] = t.at
    BY <1>5
  <2>6. b.op = c.op /\ b.at = c.at
    BY <2>2, <2>3, <2>4, <2>5
  <2> QED BY <1>5, <2>6
<1>9. Hands(t, by)
  BY <1>6, <1>7, <1>8 DEF Hands
<1>10. \A f \in Files : Found(f)' = Found(f)
  BY <1>4 DEF Found, ListDir
<1>11. ASSUME NEW f \in Files, Covers(t, f), ~CoveredBy(by, f) PROVE file[f] = Absent
  <2> SUFFICES ASSUME file[f] # Absent PROVE FALSE
    OBVIOUS
  <2>1. CASE DirOf[f] = t.at
    <3>1. Task("stat", f) \in by
      BY <1>1, <2>1 DEF InDir
    <3> QED BY <1>11, <3>1 DEF CoveredBy, Covers, OfDir, Task
  <2>2. CASE DirOf[f] # t.at
    <3>1. t.at = Base /\ DirOf[f] \in dirs
      BY <1>2, <1>11, <2>2 DEF Covers, OfDir, Disk, Exists
    <3>2. Task("watch", DirOf[f]) \in by
      BY <1>1, <3>1
    <3> QED BY <1>11, <3>2 DEF CoveredBy, Covers, OfDir, Task
  <2> QED BY <2>1, <2>2
<1>12. Does(t, by)
  <2>1. ASSUME NEW f \in Files, Covers(t, f)
        PROVE  Found(f) = Gone
    BY <2>1 DEF CoveredBy, ScanInv, Looked
  <2>2. Gone.content = Absent
    BY DEF Gone, Meta
  <2> QED BY <1>2, <1>4, <1>10, <1>11, <2>1, <2>2 DEF Does, ListDir, Search
<1>13. ASSUME on', ~missed', ~search'.unwatched
       PROVE  /\ on /\ ~missed /\ ~search.unwatched /\ dirty' = dirty /\ events' = events
              /\ Base \in watched' \/ \E u \in search'.todo : u.op = "watch" /\ u.at = Base
              /\ \A d \in dirs : \/ d \in watched' \cup ToldOf
                                 \/ \E u \in search'.todo : (u.at = d /\ u.op = "watch") \/ (u.at = Base /\ OfDir(u))
  <2>1. on /\ ~missed /\ ~search.unwatched /\ dirty' = dirty /\ events' = events /\ watched' = watched
    BY <1>4, <1>13 DEF ListDir, watcher
  <2>2. /\ Base \in watched \/ \E u \in search.todo : u.op = "watch" /\ u.at = Base
        /\ \A d \in dirs : \/ d \in watched \cup ToldOf
                           \/ \E u \in search.todo : (u.at = d /\ u.op = "watch") \/ (u.at = Base /\ OfDir(u))
    BY <2>1 DEF ScanInv, ToldWalking
  <2>3. ASSUME NEW d \in dirs, d \notin watched' \cup ToldOf
        PROVE  \E u \in search'.todo : (u.at = d /\ u.op = "watch") \/ (u.at = Base /\ OfDir(u))
    <3>1. PICK u \in search.todo : (u.at = d /\ u.op = "watch") \/ (u.at = Base /\ OfDir(u))
      BY <2>1, <2>2, <2>3
    <3>2. CASE u # t
      BY <1>4, <3>1, <3>2
    <3>3. CASE u = t
      <4>1. t.at = Base
        BY <1>2, <3>1, <3>3
      <4>2. Task("watch", d) \in by
        BY <1>1, <4>1
      <4> QED BY <1>4, <4>2 DEF Task
    <3> QED BY <3>2, <3>3
  <2>4. Base \in watched' \/ \E u \in search'.todo : u.op = "watch" /\ u.at = Base
    BY <1>2, <1>4, <2>1, <2>2
  <2> QED BY <2>1, <2>3, <2>4
<1>14. on' \in BOOLEAN /\ missed' \in BOOLEAN
  BY DEF ScanInv, ListDir, watcher
<1> QED BY <1>9, <1>12, <1>13, <1>14, TaskDone

(* Tasks of one file hand on no directory.                                 *)
LEMMA FileTaskDone ==
  ASSUME ScanInv, Walking, NEW t \in search.todo, ~OfDir(t), NEW by, Does(t, by), Hands(t, by),
         search'.unwatched = search.unwatched, UNCHANGED watcher
  PROVE  ScanInv'
<1>1. ASSUME on', ~missed', ~search'.unwatched
      PROVE  /\ on /\ ~missed /\ ~search.unwatched /\ dirty' = dirty /\ events' = events
             /\ Base \in watched' \/ \E u \in search'.todo : u.op = "watch" /\ u.at = Base
             /\ \A d \in dirs : \/ d \in watched' \cup ToldOf
                                \/ \E u \in search'.todo : (u.at = d /\ u.op = "watch") \/ (u.at = Base /\ OfDir(u))
  <2>1. on /\ ~missed /\ ~search.unwatched /\ dirty' = dirty /\ events' = events /\ watched' = watched
    BY <1>1 DEF watcher
  <2>2. \A u \in search.todo : u.op = "watch" \/ OfDir(u) => u \in search'.todo
    BY DEF Does, OfDir
  <2> QED BY <2>1, <2>2 DEF ScanInv, ToldWalking
<1>2. on' \in BOOLEAN /\ missed' \in BOOLEAN
  BY DEF ScanInv, watcher
<1> QED BY <1>1, <1>2, TaskDone

(* A file is looked at: it is gone, or a record of it is made.             *)
LEMMA FileGone ==
  ASSUME ScanInv, Walking, NEW t \in search.todo, ~OfDir(t), file[t.at] = Absent, search' = Replace(t, {}),
         UNCHANGED <<onDisk, scan, once, watcher, reliable, seen>>
  PROVE  ScanInv'
<1>1. IsTask(t) /\ Search /\ Looked
  BY DEF ScanInv, Search
<1>2. /\ DOMAIN search' = WalkFields /\ search'.kind = search.kind /\ search'.unwatched = search.unwatched
      /\ search'.todo = (search.todo \ {t}) \cup {} /\ search'.found = search.found
  BY <1>1, ReplaceIs
<1>3. \A f \in Files : Found(f)' = Found(f)
  BY <1>2 DEF Found
<1>4. \A f \in Files : Covers(t, f) => f = t.at /\ Found(f) = Gone
  BY <1>1 DEF Covers, CoveredBy, Looked
<1>5. Does(t, {})
  <2>1. Gone.content = Absent
    BY DEF Gone, Meta
  <2>2. \A f \in Files : ~CoveredBy({}, f)
    BY DEF CoveredBy
  <2> QED BY <1>1, <1>2, <1>3, <1>4, <2>1, <2>2 DEF Does, Search
<1>6. Hands(t, {})
  BY DEF Hands, ApartIn
<1> QED BY <1>2, <1>5, <1>6, FileTaskDone

LEMMA FileRecorded ==
  ASSUME ScanInv, Walking, NEW t \in search.todo, ~OfDir(t), NEW meta,
         Fresh(meta, file[t.at], stamps), meta.content = file[t.at], search' = Records(t, t.at, meta),
         UNCHANGED <<onDisk, scan, once, watcher, reliable, seen>>
  PROVE  ScanInv'
<1>1. IsTask(t) /\ Search /\ Looked
  BY DEF ScanInv, Search
<1>2. /\ DOMAIN search' = WalkFields /\ search'.kind = search.kind /\ search'.unwatched = search.unwatched
      /\ search'.todo = search.todo \ {t}
      /\ DOMAIN search'.found = DOMAIN search.found \cup {t.at}
      /\ search'.found[t.at] = meta
      /\ \A g \in DOMAIN search.found : g # t.at => search'.found[g] = search.found[g]
  BY <1>1, RecordsIs
<1>3. \A f \in Files : ~Covers(t, f) => Found(f)' = Found(f)
  BY <1>2 DEF Found, Covers
<1>4. \A f \in Files : Covers(t, f) => Found(f)' = meta
  BY <1>2 DEF Found, Covers
<1>5. t.at \in Files
  BY <1>1 DEF IsTask
<1>6. Does(t, {})
  <2>1. \A f \in Files : ~CoveredBy({}, f)
    BY DEF CoveredBy
  <2>2. ASSUME NEW f \in DOMAIN search'.found PROVE Fresh(search'.found[f], file[f], stamps)
    BY <1>1, <1>2, <2>2 DEF Search
  <2>3. \A f \in Files : Covers(t, f) => f = t.at
    BY DEF Covers
  <2> QED BY <1>1, <1>2, <1>3, <1>4, <1>5, <2>1, <2>2, <2>3 DEF Does, Search
<1>7. Hands(t, {})
  BY DEF Hands, ApartIn
<1> QED BY <1>2, <1>6, <1>7, FileTaskDone

LEMMA StepStat ==
  ASSUME ScanInv, Walking, NEW t \in search.todo, Stat(t)
  PROVE  ScanInv'
<1>1. /\ t.op = "stat" /\ ~OfDir(t) /\ IsTask(t) /\ Search /\ Looked /\ Disk /\ Scans
      /\ UNCHANGED <<onDisk, scan, once, watcher, reliable, seen>>
  BY DEF Stat, ScanInv, Search, OfDir
<1>2. t.at \in Files /\ file[t.at] \in Nat /\ file[t.at] <= stamps /\ stamps \in Nat
  BY <1>1 DEF IsTask, Disk
<1>3. CASE file[t.at] = Absent
  BY <1>1, <1>3, FileGone DEF Stat
<1>4. CASE file[t.at] # Absent /\ file[t.at] = scan[t.at].mtime
  <2>1. PICK meta : meta = scan[t.at]
    OBVIOUS
  <2>2. Fresh(meta, file[t.at], stamps) /\ meta.content = file[t.at]
    BY <1>1, <1>2, <1>4, <2>1 DEF Scans, Fresh
  <2>3. search' = Records(t, t.at, meta)
    BY <1>4, <2>1 DEF Stat
  <2> QED BY <1>1, <2>2, <2>3, FileRecorded
<1>5. CASE file[t.at] # Absent /\ file[t.at] # scan[t.at].mtime
  <2>1. PICK b : b = [op |-> "read", at |-> t.at, mtime |-> file[t.at]]
    OBVIOUS
  <2>2. b.op = "read" /\ b.at = t.at /\ b.mtime = file[t.at]
    BY <2>1
  <2>3. search' = Replace(t, {b})
    BY <1>5, <2>1 DEF Stat
  <2>4. /\ DOMAIN search' = WalkFields /\ search'.kind = search.kind /\ search'.unwatched = search.unwatched
        /\ search'.todo = (search.todo \ {t}) \cup {b} /\ search'.found = search.found
    BY <1>1, <2>3, ReplaceIs
  <2>5. \A f \in Files : Found(f)' = Found(f)
    BY <1>1, <2>4 DEF Found
  <2>6. \A f \in Files : Covers(b, f) <=> Covers(t, f)
    BY <1>1, <2>2 DEF Covers, OfDir
  <2>7. \A f \in Files : Covers(t, f) => CoveredBy({b}, f) /\ Found(f) = Gone
    BY <1>1, <2>6 DEF CoveredBy, Looked
  <2>8. Does(t, {b})
    BY <1>1, <2>4, <2>5, <2>7 DEF Does, Search
  <2>9. Hands(t, {b})
    <3>1. IsTask(b)
      BY <1>2, <2>2 DEF IsTask, OfDir
    <3> QED BY <2>6, <3>1 DEF Hands, ApartIn
  <2> QED BY <1>1, <2>4, <2>8, <2>9, FileTaskDone
<1> QED BY <1>3, <1>4, <1>5

LEMMA StepRead ==
  ASSUME ScanInv, Walking, NEW t \in search.todo, Read(t)
  PROVE  ScanInv'
<1>1. /\ t.op = "read" /\ ~OfDir(t) /\ IsTask(t) /\ Disk
      /\ UNCHANGED <<onDisk, scan, once, watcher, reliable, seen>>
  BY DEF Read, ScanInv, Search, OfDir
<1>2. /\ t.at \in Files /\ file[t.at] \in Nat /\ file[t.at] <= stamps /\ stamps \in Nat
      /\ t.mtime \in Nat /\ t.mtime <= stamps
  BY <1>1 DEF IsTask, Disk
<1>3. CASE file[t.at] = Absent
  BY <1>1, <1>3, FileGone DEF Read
<1>4. CASE file[t.at] # Absent
  <2>1. PICK meta : meta = Meta(t.mtime, file[t.at])
    OBVIOUS
  <2>2. Fresh(meta, file[t.at], stamps) /\ meta.content = file[t.at]
    BY <1>2, <2>1, FreshNow DEF Meta
  <2>3. search' = Records(t, t.at, meta)
    BY <1>4, <2>1 DEF Read
  <2> QED BY <1>1, <2>2, <2>3, FileRecorded
<1> QED BY <1>3, <1>4

-----------------------------------------------------------------------------
(* A search begins anew, fails, is done, or dies with its process.         *)
LEMMA StepNeedFullScan ==
  ASSUME ScanInv, NeedFullScan
  PROVE  ScanInv'
<1>1. PICK u : u = search.unwatched
  OBVIOUS
<1>2. Walking /\ u \in BOOLEAN /\ reliable = FALSE /\ search' = [FullWalk EXCEPT !.unwatched = u]
  BY <1>1 DEF NeedFullScan, ScanInv, Search
<1>3. /\ DOMAIN search' = WalkFields /\ search'.kind = "full" /\ search'.unwatched = u
      /\ search'.todo = {Task("watch", Base)} /\ search'.found = <<>>
  BY <1>2 DEF FullWalk, WalkFields, WholeTree
<1>4. Walking' /\ DOMAIN search'.found = {}
  BY <1>3 DEF Walking, NoWalk
<1>5. \A f \in Files : file[f] \in seen[f]
  BY <1>2 DEF ScanInv, Looked
<1> QED BY <1>2, <1>3, <1>4, <1>5, FullStarts DEF NeedFullScan, ScanInv, watcher

LEMMA StepFail ==
  ASSUME ScanInv, Fail
  PROVE  ScanInv'
<1>1. Disk' /\ Scans' /\ DOMAIN seen' = Files
  BY DEF Fail, ScanInv, Disk, Scans, onDisk, Exists
<1>2. ~Walking' /\ reliable' = FALSE
  BY DEF Fail, Walking, ScanInv, Search
<1> QED BY <1>1, <1>2 DEF ScanInv, Fail, ToldIdle, watcher

LEMMA StepRestart ==
  ASSUME ScanInv, Restart
  PROVE  ScanInv'
<1>1. Disk' /\ Scans' /\ DOMAIN seen' = Files
  BY DEF Restart, ScanInv, Disk, Scans, onDisk, Exists
<1>2. ~Walking' /\ reliable' = FALSE
  BY DEF Restart, Walking
<1> QED BY <1>1, <1>2 DEF ScanInv, Restart, ToldIdle

LEMMA StepFinish ==
  ASSUME ScanInv, Finish
  PROVE  ScanInv' /\ \A f \in Files : scan'[f].content \in seen[f]
<1>1. Walking /\ search.todo = {} /\ Search /\ Looked /\ ToldWalking
  BY DEF Finish, ScanInv
<1>2. \A f \in Files : scan'[f] = Found(f) /\ ~CoveredBy(search.todo, f)
  BY <1>1 DEF Finish, CoveredBy
<1>3. ASSUME NEW f \in Files PROVE Fresh(Found(f), file[f], stamps)
  BY <1>1, FreshGone DEF Found, Search, ScanInv, Scans, Disk
<1>4. Disk' /\ Scans' /\ DOMAIN seen' = Files
  BY <1>2, <1>3 DEF Finish, ScanInv, Disk, Scans, onDisk, Exists
<1>5. ToldIdle'
  <2> SUFFICES ASSUME on, ~missed, ~search.unwatched
               PROVE  /\ \A f \in Files : ToBeTold(f) \/ scan'[f].content = file[f]
                      /\ Base \in watched
                      /\ dirs \subseteq watched \cup ToldOf
    BY DEF ToldIdle, Finish, onDisk, watcher, ToldOf, ToBeTold
  <2> QED BY <1>1, <1>2 DEF ToldWalking
<1>6. ~Walking' /\ once' = TRUE /\ reliable' \in BOOLEAN /\ on' \in BOOLEAN /\ missed' \in BOOLEAN
  BY <1>1 DEF Finish, Walking, ScanInv, watcher, Search
<1>7. \A f \in Files : scan'[f].content \in seen[f]
  BY <1>1, <1>2 DEF Looked
<1> QED BY <1>4, <1>5, <1>6, <1>7 DEF ScanInv

-----------------------------------------------------------------------------
(* The invariant holds at first and is kept by every step.                 *)
LEMMA ScanStarts == ScanInit => ScanInv
<1> SUFFICES ASSUME ScanInit PROVE ScanInv
  OBVIOUS
<1>1. file \in [Files -> {Absent, 1}] /\ stamps = 1
      /\ dirs = {DirOf[f] : f \in {g \in Files : file[g] # Absent}} \ {Base}
  BY DEF ScanInit
<1>2. Disk
  BY <1>1, Places DEF Disk, Absent, Exists
<1>3. Scans
  BY <1>1, FreshGone DEF Scans, ScanInit
<1>4. ~Walking /\ reliable = FALSE
  BY DEF ScanInit, Walking
<1> QED BY <1>2, <1>3, <1>4 DEF ScanInv, ScanInit, ToldIdle

LEMMA ScanStep == ScanInv /\ [ScanNext]_scanVars => ScanInv'
<1> SUFFICES ASSUME ScanInv, [ScanNext]_scanVars PROVE ScanInv'
  OBVIOUS
<1>1. CASE \E f \in Files : Write(f) \/ Erase(f)
  BY <1>1, StepWrite, StepRemove, WorkspaceStep
<1>2. CASE \E d \in Dirs : RemoveDir(d) \/ \E with \in SUBSET InDir(d) : MoveIn(d, with)
  BY <1>2, StepRemoveDir, StepMoveIn, WorkspaceStep
<1>3. CASE \E e \in events : Handle(e)
  BY <1>3, StepHandle
<1>4. CASE Overflow
  BY <1>4, StepOverflow
<1>5. CASE Begin
  BY <1>5, StepBegin
<1>6. CASE Walking /\ \E t \in search.todo : WatchDir(t) \/ ListDir(t) \/ Stat(t) \/ Read(t)
  BY <1>6, StepWatchDir, StepListDir, StepStat, StepRead
<1>7. CASE NeedFullScan
  BY <1>7, StepNeedFullScan
<1>8. CASE Fail
  BY <1>8, StepFail
<1>9. CASE Finish
  BY <1>9, StepFinish
<1>10. CASE Restart
  BY <1>10, StepRestart
<1>11. CASE UNCHANGED scanVars
  <2>1. UNCHANGED <<onDisk, scan, once, on, watched, reliable, search, seen, missed, dirty, events>>
    BY <1>11 DEF scanVars, watcher
  <2>2. ToldOf \subseteq ToldNext
    BY <2>1 DEF ToldOf, ToldNext
  <2> QED BY <2>1, <2>2, NamesKept DEF ScanInv
<1> QED BY <1>1, <1>2, <1>3, <1>4, <1>5, <1>6, <1>7, <1>8, <1>9, <1>10, <1>11 DEF ScanNext

(* The inductive invariant of the scan: what it has recorded of a file, or *)
(* will, is what the file holds, or the next checkpoint will be told.      *)
THEOREM ScanKeeps == ScanSpec => []ScanInv
<1>1. ScanInv /\ [ScanNext]_scanVars => ScanInv'
  BY ScanStep
<1> QED BY ScanStarts, <1>1, PTL DEF ScanSpec

(* A checkpoint records of every file a content the file had while it was  *)
(* being taken, whether it looked at the file or trusted the watcher.      *)
THEOREM NothingIsMissed == ScanSpec => NothingMissed
<1>1. ScanInv => [Finish => \A f \in Files : scan'[f].content \in seen[f]]_scanVars
  BY StepFinish
<1>2. ScanSpec => [][Finish => \A f \in Files : scan'[f].content \in seen[f]]_scanVars
  BY <1>1, ScanKeeps, PTL
<1> QED BY <1>2 DEF NothingMissed
=============================================================================
