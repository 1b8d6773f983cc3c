------------------------------- MODULE Detect -------------------------------
(***************************************************************************)
(* How a checkpoint learns what has changed in the workspace               *)
(* (runtime/src/shadow/watch.rs and the first half of `checkpoint' in      *)
(* runtime/src/shadow.rs).                                                 *)
(*                                                                         *)
(* A watcher collects dirty paths between checkpoints; a checkpoint waits  *)
(* for the events that are under way (the fence), drains them and looks    *)
(* again at those paths only.  Where the events cannot be trusted it walks *)
(* the whole workspace.  Others go on writing all the while, so a walk is  *)
(* a sequence of small steps: watch a directory, list it, stat a file,     *)
(* read it.                                                                *)
(*                                                                         *)
(* A write gives its file a new stamp, which stands for its content and    *)
(* for its size and mtime; 0 is no file.  Files that git ignores, symbolic *)
(* links and the change of an ignore rule are left out.                    *)
(***************************************************************************)
EXTENDS Naturals, FiniteSets, FiniteSetsExt, Functions

CONSTANTS
  Files,       \* files of the workspace
  DirOf,       \* the directory of each file
  Base,        \* the workspace root
  MaxWrites,   \* bound on writes
  MaxDirty,    \* MAX_DIRTY: more pending paths count as lost events
  MaxMishaps   \* bound on overflows, timeouts, errors and restarts

Dirs == Range(DirOf) \ {Base}

ASSUME DetectAssumption ==
  /\ DOMAIN DirOf = Files
  /\ Files \cap (Range(DirOf) \cup {Base}) = {}

VARIABLES
  file,      \* the stamp of each file
  dirs,      \* directories that exist, besides the root
  stamps,    \* stamps given out
  scan,      \* State::scan: what the last checkpoint recorded, by file
  once,      \* State::scanned_once
  on,        \* Live::watch is some watcher
  watched,   \* directories with a watch
  events,    \* events on their way to the watcher's thread
  dirty,     \* Pending::dirty
  missed,    \* Pending::lost
  reliable,  \* Live::reliable
  search,    \* the walk of the checkpoint under way
  seen,      \* the stamps each file has had since that checkpoint began
  mishaps    \* how often something went wrong (bounds the model)

onDisk   == <<file, dirs, stamps>>
watcher  == <<on, watched, events, dirty, missed>>
scanVars == <<onDisk, scan, once, watcher, reliable, search, seen, mishaps>>

Absent == 0
NoWalk == [kind |-> "none"]
Walking == search # NoWalk

Meta(mtime, content) == [mtime |-> mtime, content |-> content]
Gone == Meta(Absent, Absent)

ScanInit ==
  /\ file \in [Files -> {Absent, 1}] /\ dirs = {DirOf[f] : f \in {g \in Files : file[g] # Absent}} \ {Base}
  /\ stamps = 1
  /\ scan = [f \in Files |-> Gone] /\ once = FALSE
  /\ on \in BOOLEAN /\ watched = {} /\ events = {} /\ dirty = {} /\ missed = FALSE
  /\ reliable = FALSE
  /\ search = NoWalk /\ seen = [f \in Files |-> {}]
  /\ mishaps = 0

Mishap == mishaps < MaxMishaps /\ mishaps' = mishaps + 1

-----------------------------------------------------------------------------
(* Whoever writes to the workspace, at any time.                           *)

Exists(d) == d = Base \/ d \in dirs
InDir(d)  == {f \in Files : DirOf[f] = d}

(* An entry of a watched directory changes.                                *)
Notice(entries) == events' = events \cup {e \in entries : on /\ e.in \in watched}
Entry(in, name) == [in |-> in, name |-> name]

FilesBecome(changed) ==
  /\ file' = changed
  /\ seen' = IF Walking THEN [f \in Files |-> seen[f] \cup {changed[f]}] ELSE seen

Write(f) ==
  /\ stamps < MaxWrites /\ Exists(DirOf[f])
  /\ stamps' = stamps + 1
  /\ FilesBecome([file EXCEPT ![f] = stamps + 1])
  /\ Notice({Entry(DirOf[f], f)})
  /\ UNCHANGED <<dirs, scan, once, on, watched, dirty, missed, reliable, search, mishaps>>

Erase(f) ==
  /\ file[f] # Absent
  /\ FilesBecome([file EXCEPT ![f] = Absent])
  /\ Notice({Entry(DirOf[f], f)})
  /\ UNCHANGED <<dirs, stamps, scan, once, on, watched, dirty, missed, reliable, search, mishaps>>

(* A directory is made, or moved in with its files.                        *)
MoveIn(d, with) ==
  /\ stamps < MaxWrites /\ d \notin dirs
  /\ stamps' = stamps + 1
  /\ dirs' = dirs \cup {d}
  /\ FilesBecome([f \in Files |-> IF f \in with THEN stamps + 1 ELSE file[f]])
  /\ Notice({Entry(Base, d)})
  /\ UNCHANGED <<scan, once, on, watched, dirty, missed, reliable, search, mishaps>>

(* A directory goes, and its watch with it.                                *)
RemoveDir(d) ==
  /\ d \in dirs
  /\ dirs' = dirs \ {d}
  /\ FilesBecome([f \in Files |-> IF DirOf[f] = d THEN Absent ELSE file[f]])
  /\ Notice({Entry(Base, d)} \cup {Entry(d, f) : f \in {g \in InDir(d) : file[g] # Absent}})
  /\ watched' = watched \ {d}
  /\ UNCHANGED <<stamps, scan, once, on, dirty, missed, reliable, search, mishaps>>

-----------------------------------------------------------------------------
(* The watcher's thread: watch::handle.                                    *)

Collected(es) == IF missed THEN {} ELSE dirty \cup {e.name : e \in es}
TooMany(es)   == Cardinality(Collected(es)) > MaxDirty

Handle(e) ==
  /\ events' = events \ {e}
  /\ dirty' = IF TooMany({e}) THEN {} ELSE Collected({e})
  /\ missed' = (missed \/ TooMany({e}))
  /\ UNCHANGED <<onDisk, scan, once, on, watched, reliable, search, seen, mishaps>>

(* The event queue overflows, or the watcher reports an error.             *)
Overflow ==
  /\ on /\ Mishap
  /\ events' = {} /\ dirty' = {} /\ missed' = TRUE
  /\ UNCHANGED <<onDisk, scan, once, on, watched, reliable, search, seen>>

-----------------------------------------------------------------------------
(* A checkpoint begins: Inner::plan and the targets of Inner::refresh.     *)

Task(op, at) == [op |-> op, at |-> at, mtime |-> Absent]
WholeTree    == {Task("watch", Base)}

(* A dirty path is looked at again, as part of its directory where that    *)
(* is looked at or is gone.                                                *)
Targets(paths) ==
  LET asked == paths \cap Dirs
      gone  == {DirOf[f] : f \in {g \in paths \cap Files : ~Exists(DirOf[g])}}
  IN asked \cup gone \cup {f \in paths \cap Files : DirOf[f] \notin asked \cup gone}

(* Inner::recheck clears what was recorded at or under a target.           *)
AtOrUnder(targets) == {f \in Files : f \in targets \/ DirOf[f] \in targets}
Cleared(targets) ==
  [f \in {g \in AtOrUnder(targets) : scan[g] # Gone} |-> Gone]

FirstTask(target) == Task(IF target \in Dirs THEN "watch" ELSE "stat", target)

FullWalk == [kind |-> "full", todo |-> WholeTree, found |-> <<>>, unwatched |-> FALSE]
PartWalk(paths) ==
  [kind |-> "part", todo |-> {FirstTask(x) : x \in Targets(paths)},
   found |-> Cleared(Targets(paths)), unwatched |-> FALSE]

Plan(fenced, trusted) ==
  LET all == Collected(IF fenced THEN events ELSE {})
      bad == missed \/ (fenced /\ TooMany(events))
  IN /\ search' = IF trusted /\ ~bad THEN PartWalk(all) ELSE FullWalk
     /\ events' = IF fenced THEN {} ELSE events
     /\ dirty' = {} /\ missed' = FALSE

Trusted == on /\ once /\ reliable

Began == seen' = [f \in Files |-> {file[f]}] /\ UNCHANGED <<onDisk, scan, once, on, watched>>

(* Mutant of Begin: a fence that timed out is trusted.                     *)
BeginUnfenced ==
  /\ ~Walking
  /\ \/ Plan(TRUE, Trusted) /\ UNCHANGED mishaps
     \/ Plan(FALSE, Trusted) /\ Mishap
  /\ reliable' = FALSE
  /\ Began

(* The fence waits until the events under way have been collected, or      *)
(* times out.  Whatever happens now, the drained paths are gone.           *)
Begin ==
  /\ ~Walking
  /\ \/ Plan(TRUE, Trusted) /\ UNCHANGED mishaps
     \/ Plan(FALSE, FALSE) /\ Mishap
  /\ reliable' = FALSE
  /\ Began

-----------------------------------------------------------------------------
(* The walk.                                                               *)

Replace(t, by) == [search EXCEPT !.todo = (@ \ {t}) \cup by]
Records(t, f, meta) ==
  [Replace(t, {}) EXCEPT !.found = [g \in DOMAIN @ \cup {f} |-> IF g = f THEN meta ELSE @[g]]]

(* Live::watch_dir: the directory may have vanished (then its parent's     *)
(* event covers it), the platform's limit may be reached (no watcher from  *)
(* here on), or adding the watch fails.                                    *)
WatchDir(t) ==
  /\ t.op = "watch"
  /\ \/ /\ watched' = IF on /\ Exists(t.at) THEN watched \cup {t.at} ELSE watched
        /\ search' = Replace(t, {Task("list", t.at)})
        /\ UNCHANGED <<on, events, dirty, missed, mishaps>>
     \/ /\ on /\ Mishap
        /\ on' = FALSE /\ watched' = {} /\ events' = {} /\ dirty' = {} /\ missed' = FALSE
        /\ search' = Replace(t, {Task("list", t.at)})
     \/ /\ on /\ Mishap
        /\ search' = [Replace(t, {Task("list", t.at)}) EXCEPT !.unwatched = TRUE]
        /\ UNCHANGED <<on, watched, events, dirty, missed>>
  /\ UNCHANGED <<onDisk, scan, once, reliable, seen>>

ListDir(t) ==
  /\ t.op = "list"
  /\ search' = Replace(t, {Task("stat", f) : f \in {g \in InDir(t.at) : file[g] # Absent}}
                        \cup (IF t.at = Base THEN {Task("watch", d) : d \in dirs} ELSE {}))
  /\ UNCHANGED <<onDisk, scan, once, watcher, reliable, seen, mishaps>>

(* Inner::file_meta: a file whose metadata is as recorded is not read.     *)
Stat(t) ==
  /\ t.op = "stat"
  /\ search' = CASE file[t.at] = Absent -> Replace(t, {})
               [] file[t.at] # Absent /\ file[t.at] = scan[t.at].mtime -> Records(t, t.at, scan[t.at])
               [] OTHER -> Replace(t, {[op |-> "read", at |-> t.at, mtime |-> file[t.at]]})
  /\ UNCHANGED <<onDisk, scan, once, watcher, reliable, seen, mishaps>>

Read(t) ==
  /\ t.op = "read"
  /\ search' = IF file[t.at] = Absent THEN Replace(t, {}) ELSE Records(t, t.at, Meta(t.mtime, file[t.at]))
  /\ UNCHANGED <<onDisk, scan, once, watcher, reliable, seen, mishaps>>

(* An error while looking again at a path: NeedFullScan.                   *)
NeedFullScan ==
  /\ Walking /\ search.kind = "part" /\ Mishap
  /\ search' = [FullWalk EXCEPT !.unwatched = search.unwatched]
  /\ UNCHANGED <<onDisk, scan, once, watcher, reliable, seen>>

(* An error during a full scan: the checkpoint fails.                      *)
Fail ==
  /\ Walking /\ search.kind = "full" /\ Mishap
  /\ search' = NoWalk /\ seen' = [f \in Files |-> {}]
  /\ UNCHANGED <<onDisk, scan, once, watcher, reliable>>

Found(f) ==
  CASE f \in DOMAIN search.found -> search.found[f]
    [] f \notin DOMAIN search.found /\ search.kind = "full" -> Gone
    [] OTHER -> scan[f]

(* The walk is done; the state is updated and persisted.                   *)
Finish ==
  /\ Walking /\ search.todo = {}
  /\ scan' = [f \in Files |-> Found(f)]
  /\ once' = TRUE
  /\ reliable' = (on /\ ~search.unwatched)
  /\ search' = NoWalk /\ seen' = [f \in Files |-> {}]
  /\ UNCHANGED <<onDisk, watcher, mishaps>>

(* The process dies: the next one loads the state and watches afresh.      *)
Restart ==
  /\ Mishap
  /\ on' \in BOOLEAN
  /\ watched' = {} /\ events' = {} /\ dirty' = {} /\ missed' = FALSE /\ reliable' = FALSE
  /\ search' = NoWalk /\ seen' = [f \in Files |-> {}]
  /\ UNCHANGED <<onDisk, scan, once>>

ScanNext ==
  \/ \E f \in Files : Write(f) \/ Erase(f)
  \/ \E d \in Dirs : RemoveDir(d) \/ \E with \in SUBSET InDir(d) : MoveIn(d, with)
  \/ \E e \in events : Handle(e)
  \/ Overflow
  \/ Begin
  \/ Walking /\ \E t \in search.todo : WatchDir(t) \/ ListDir(t) \/ Stat(t) \/ Read(t)
  \/ NeedFullScan
  \/ Fail
  \/ Finish
  \/ Restart

ScanSpec == ScanInit /\ [][ScanNext]_scanVars

-----------------------------------------------------------------------------
(* Properties.                                                             *)

(* A checkpoint records of every file, also of those it did not look at,   *)
(* a content the file had while the checkpoint was being taken: whether it *)
(* trusts the watcher or walks the tree, with directories that come and go *)
(* under it, late and lost events, failed watches and failed checkpoints   *)
(* ("The result is the same as a full scan's", shadow.rs).                 *)
NothingMissed ==
  [][Finish => \A f \in Files : scan'[f].content \in seen[f]]_scanVars
=============================================================================
