------------------------------ MODULE SchemaUpgrade ------------------------------
(***************************************************************************)
(* The upgrade of the SQLite file when the program starts: the scripts of  *)
(* the versions that are missing, each statement committed by itself, then *)
(* the copy of the video library into tables with a composite key, and     *)
(* last the new version.  The process may die anywhere, and starts over.   *)
(***************************************************************************)
EXTENDS Integers

VARIABLES
    version,    \* PRAGMA user_version
    made,       \* the versions whose own tables are complete
    lib,        \* the tables of the library and their copies
    staged,     \* the rows copied and not yet committed
    at,         \* the next statement of migrate
    known,      \* all that was ever in a table of the library (history)
    torn        \* the process died while the tables were exchanged (history)
upgradeVars == <<version, made, lib, staged, at, known, torn>>

SchemaVersion == 9
TableNames == {"video_registry", "video_reflection"}
Copy(n) == IF n = "video_registry" THEN "video_registry_v9" ELSE "video_reflection_v9"
Tables == TableNames \cup {Copy(n) : n \in TableNames}

(* A table has the old key, the old key and a user_id, or both as its key. *)
Absent == [shape |-> "absent", rows |-> {}]
Empty == [shape |-> "keyed", rows |-> {}]
Exists(n) == lib[n] # Absent
NothingCopied == [n \in TableNames |-> {}]

(* A new file, or one of an earlier version, with or without a library.    *)
UpgradeInit ==
    /\ version \in 0..(SchemaVersion - 1) /\ made = 1..version
    /\ \E old \in {Absent, [shape |-> IF version < 3 THEN "old" ELSE "owned", rows |-> {"old"}]} :
          lib = [n \in Tables |-> IF n \in TableNames THEN old ELSE Absent]
    /\ staged = NothingCopied /\ at = [do |-> "down"]
    /\ known = [n \in TableNames |-> lib[n].rows] /\ torn = FALSE

Does(statement) == at.do = statement
Then(statement) == at' = [do |-> statement]
Puts(n, table) == lib' = [lib EXCEPT ![n] = table]
Library == <<known, torn>>

-----------------------------------------------------------------------------
From(v) == at' = IF v < SchemaVersion THEN [do |-> "script", of |-> v] ELSE [do |-> "own_registry"]
Migrate ==
    /\ Does("down")
    /\ IF version >= SchemaVersion THEN Then("init") ELSE From(version + 1)
    /\ UNCHANGED <<version, made, lib, staged, Library>>

(* The scripts of versions 1 to 8 add what is not there.                   *)
WithUserId(table) == IF table.shape = "old" THEN [table EXCEPT !.shape = "owned"] ELSE table
Script ==
    /\ Does("script")
    /\ made' = made \cup {at.of}
    /\ lib' = IF at.of = 3 THEN [n \in Tables |-> WithUserId(lib[n])] ELSE lib
    /\ From(at.of + 1)
    /\ UNCHANGED <<version, staged, Library>>

(* _migrate_video_registry_user_id                                         *)
Own(n, statement, next) ==
    /\ Does(statement)
    /\ Puts(n, WithUserId(lib[n])) /\ Then(next)
    /\ UNCHANGED <<version, made, staged, Library>>

(* Mutant of Rebuilt: the column would do.                                 *)
RebuiltIfOwned == lib["video_registry"].shape # "old"
Rebuilt == lib["video_registry"].shape = "keyed"
Inspect ==
    /\ Does("inspect")
    /\ Then(IF ~Exists("video_registry") THEN "create_registry"
            ELSE IF Rebuilt THEN "mark" ELSE "make_copies")
    /\ UNCHANGED <<version, made, lib, staged, Library>>

(* Without a registry both tables are made; one that is there is an error, *)
(* and the program does not start.                                         *)
Create(n, statement, next) ==
    /\ Does(statement)
    /\ IF Exists(n) THEN Then("down") /\ UNCHANGED lib ELSE Puts(n, Empty) /\ Then(next)
    /\ UNCHANGED <<version, made, staged, Library>>

MakeCopies ==
    /\ Does("make_copies") /\ Then("copy")
    /\ lib' = [t \in Tables |-> IF t \notin TableNames /\ ~Exists(t) THEN Empty ELSE lib[t]]
    /\ UNCHANGED <<version, made, staged, Library>>

(* INSERT OR IGNORE ... SELECT, committed by the script that comes next:   *)
CopyRows ==
    /\ Does("copy") /\ Then("commit")
    /\ staged' = [n \in TableNames |-> lib[n].rows]
    /\ UNCHANGED <<version, made, lib, Library>>
CommitCopies ==
    /\ Does("commit") /\ Then("drop_registry")
    /\ lib' = [t \in Tables |->
          IF \E n \in TableNames : t = Copy(n)
          THEN [lib[t] EXCEPT !.rows = @ \cup staged[CHOOSE n \in TableNames : t = Copy(n)]] ELSE lib[t]]
    /\ staged' = NothingCopied
    /\ UNCHANGED <<version, made, Library>>

Drop(n, statement, next) ==
    /\ Does(statement)
    /\ Puts(n, Absent) /\ Then(next)
    /\ UNCHANGED <<version, made, staged, Library>>
Rename(n, statement, next) ==
    /\ Does(statement)
    /\ lib' = [lib EXCEPT ![n] = lib[Copy(n)], ![Copy(n)] = Absent] /\ Then(next)
    /\ UNCHANGED <<version, made, staged, Library>>

Mark ==
    /\ Does("mark") /\ Then("init")
    /\ version' = SchemaVersion
    /\ UNCHANGED <<made, lib, staged, Library>>

(* The registry makes what tables it misses; then videos are saved, which  *)
(* tables without the composite key refuse.                                *)
InitSchema ==
    /\ Does("init") /\ Then("up")
    /\ lib' = [t \in Tables |-> IF t \in TableNames /\ ~Exists(t) THEN Empty ELSE lib[t]]
    /\ UNCHANGED <<version, made, staged, Library>>
UpsertVideo ==
    /\ Does("up")
    /\ \A n \in TableNames : lib[n].shape = "keyed"
    /\ lib' = [t \in Tables |-> IF t \in TableNames THEN [lib[t] EXCEPT !.rows = @ \cup {"new"}] ELSE lib[t]]
    /\ known' = [n \in TableNames |-> known[n] \cup {"new"}]
    /\ UNCHANGED <<version, made, staged, at, torn>>

-----------------------------------------------------------------------------
(* A statement that fails, or the end of the process.                      *)
Exchanging == at.do \in {"drop_reflection", "rename_registry", "rename_reflection"}
Die ==
    /\ ~Does("down") /\ Then("down")
    /\ staged' = NothingCopied
    /\ torn' = (torn \/ Exchanging)
    /\ UNCHANGED <<version, made, lib, known>>

UpgradeStep ==
    \/ Migrate \/ Script
    \/ Own("video_registry", "own_registry", "own_reflection")
    \/ Own("video_reflection", "own_reflection", "inspect")
    \/ Inspect
    \/ Create("video_registry", "create_registry", "create_reflection")
    \/ Create("video_reflection", "create_reflection", "mark")
    \/ MakeCopies \/ CopyRows \/ CommitCopies
    \/ Drop("video_registry", "drop_registry", "drop_reflection")
    \/ Drop("video_reflection", "drop_reflection", "rename_registry")
    \/ Rename("video_registry", "rename_registry", "rename_reflection")
    \/ Rename("video_reflection", "rename_reflection", "mark")
    \/ Mark \/ InitSchema \/ UpsertVideo \/ Die
=============================================================================
