------------------------------ MODULE MCFiles ------------------------------
(***************************************************************************)
(* Two parts that read the files of a workspace while others write them,   *)
(* each in behaviours of its own: isolated copies and their merges         *)
(* (Staging), and how a checkpoint learns what has changed (Detect).       *)
(***************************************************************************)
EXTENDS Staging, Detect, TLC

VARIABLE part   \* which of the two a behaviour is about

(* A directory and a file in it.                                           *)
DirAndFile == <<"d", "f">>
FileInDir  == "d" :> "/" @@ "f" :> "d"
DirAbove   == "d" :> {} @@ "f" :> {"d"}

(* A file in the root and one in a directory.                              *)
TwoFiles == "f" :> "/" @@ "g" :> "d"

FilesInit ==
  /\ part \in {"merging", "scanning"}
  /\ Init /\ ScanInit
  /\ part # "scanning" => ~on /\ \A f \in Files : file[f] = Absent
  /\ part # "merging" => workspace["f"] = Nothing

Merging  == part = "merging"  /\ Next     /\ UNCHANGED <<part, scanVars>>
Scanning == part = "scanning" /\ ScanNext /\ UNCHANGED <<part, vars>>

FilesSpec == FilesInit /\ [][Merging \/ Scanning]_<<part, vars, scanVars>>
=============================================================================
