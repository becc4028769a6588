----------------------------- MODULE DatabaseFile -----------------------------
(***************************************************************************)
(* The database file between starts of the program: opening it, bringing   *)
(* its schema up to date, its backups, and the restore that a failed start *)
(* offers (app/database/database.py, _offer_database_recovery of main.py). *)
(*                                                                         *)
(* A file is its version row, the schema that it really has, and how far   *)
(* what was written to it goes: "rows" in the file itself, "wal" in the    *)
(* log next to it.                                                         *)
(***************************************************************************)
EXTENDS Integers, Sequences, SequencesExt

CONSTANTS MaxVersion,       \* versions of the schema
          MaxRows,          \* bounds what is written
          BackupRetention,
          MaxRestores       \* bounds the restores

ASSUME RetentionAssumption == MaxVersion \in Nat /\ BackupRetention \in Nat

VARIABLES disk,             \* the files
          program           \* the running copy, and the version that is installed

databaseVars == <<disk, program>>

NoFile == [there |-> FALSE, good |-> TRUE, version |-> 0, schema |-> 0, rows |-> 0, wal |-> 0]
NewFile == [NoFile EXCEPT !.there = TRUE]

\* "kept" counts what has reached the file itself, "restores" how often it was
\* replaced: both for the properties only.
DatabaseIdle ==
    /\ disk = [main |-> NoFile, damaged |-> NoFile, backups |-> <<>>, kept |-> 0, restores |-> 0]
    /\ program = [at |-> "off", version |-> 1, schema |-> 0, restored |-> FALSE]

DatabaseInit == DatabaseIdle

-----------------------------------------------------------------------------
At(phase) == program.at = phase
GoTo(phase) == program' = [program EXCEPT !.at = phase]

\* An upgrade, or a downgrade, of the program.
InstallProgram(v) ==
    /\ At("off")
    /\ program' = [program EXCEPT !.version = v]
    /\ UNCHANGED disk

LaunchProgram ==
    /\ At("off")
    /\ program' = [program EXCEPT !.at = "opening", !.restored = FALSE]
    /\ UNCHANGED disk

\* connection() and current_version(): a file that is not there is created.
OpenDatabase ==
    LET file == IF disk.main.there THEN disk.main ELSE NewFile
    IN  /\ At("opening")
        /\ disk' = [disk EXCEPT !.main = file]
        /\ GoTo(IF ~file.good \/ file.version > program.version THEN "failed"
                ELSE IF file.version = program.version THEN "up"
                ELSE IF file.version > 0 THEN "backup" ELSE "migrate")

\* A backup that fails does not stop the migration; what it has created stays,
\* as the newest of the backups.
BackupBeforeMigration ==
    /\ At("backup")
    /\ \E copy \in {NewFile, [disk.main EXCEPT !.rows = @ + disk.main.wal, !.wal = 0]} :
          disk' = [disk EXCEPT !.backups =
                      SubSeq(<<copy>> \o @, 1, Min({Len(@) + 1, BackupRetention}))]
    /\ GoTo("migrate")

\* _apply: the statements one by one and the version row, in a transaction;
\* program.schema is what the open transaction has made of the schema.
BeginMigration ==
    /\ At("migrate")
    /\ program' = [program EXCEPT !.at = "statements", !.schema = disk.main.schema]
    /\ UNCHANGED disk

RunStatements_Committed ==
    /\ At("statements")
    /\ disk' = [disk EXCEPT !.main.schema = disk.main.version + 1]
    /\ program' = [program EXCEPT !.at = "version", !.schema = disk.main.version + 1]

RunStatements ==
    /\ At("statements")
    /\ \/ program' = [program EXCEPT !.at = "version", !.schema = disk.main.version + 1]
       \/ GoTo("failed")
    /\ UNCHANGED disk

\* The foreign keys are checked after the commit.
CommitMigration ==
    /\ At("version")
    /\ disk' = [disk EXCEPT !.main.version = @ + 1, !.main.schema = program.schema]
    /\ \/ GoTo(IF disk.main.version + 1 = program.version THEN "up" ELSE "migrate")
       \/ GoTo("failed")

-----------------------------------------------------------------------------
(* A start that fails offers the newest backup, whatever the failure was.  *)

OfferBackup ==
    /\ At("failed")
    /\ \/ GoTo("off")
       \/ /\ disk.backups # <<>> /\ ~program.restored /\ disk.restores < MaxRestores
          /\ GoTo("move")
    /\ UNCHANGED disk

\* An earlier damaged file is deleted for this one.
MoveAside_Deleted ==
    /\ At("move")
    /\ disk' = [disk EXCEPT !.main = NoFile, !.restores = @ + 1]
    /\ GoTo("copy")

MoveAside ==
    /\ At("move")
    /\ \/ /\ disk' = [disk EXCEPT !.damaged = [disk.main EXCEPT !.wal = 0], !.main = NoFile,
                                  !.restores = @ + 1]
          /\ GoTo("copy")
       \/ GoTo("off") /\ UNCHANGED disk

\* restore_backup, and AppContext once more; a second failure is final.  A copy
\* that fails half way leaves a part of a file, or an empty one.
CopyBackup ==
    /\ At("copy")
    /\ \/ /\ disk' = [disk EXCEPT !.main = disk.backups[1]]
          /\ program' = [program EXCEPT !.at = "opening", !.restored = TRUE]
       \/ /\ \E good \in BOOLEAN : disk' = [disk EXCEPT !.main = [NewFile EXCEPT !.good = good]]
          /\ GoTo("off")
       \/ GoTo("off") /\ UNCHANGED disk

-----------------------------------------------------------------------------
(* A program that is up, and what happens to it and to its file.           *)

WriteRow ==
    /\ At("up") /\ disk.main.rows + disk.main.wal < MaxRows
    /\ disk' = [disk EXCEPT !.main.wal = @ + 1]
    /\ UNCHANGED program

Checkpointed(d) ==
    [d EXCEPT !.main.rows = @ + d.main.wal, !.main.wal = 0,
              !.kept = IF d.restores > 0 THEN @ ELSE d.main.rows + d.main.wal]

Checkpoint ==
    /\ At("up") /\ disk.main.wal > 0
    /\ disk' = Checkpointed(disk)
    /\ UNCHANGED program

CloseDatabase ==
    /\ At("up")
    /\ disk' = Checkpointed(disk)
    /\ GoTo("off")

\* An open transaction is rolled back by the next program that opens the file.
KillProgram ==
    /\ ~At("off")
    /\ GoTo("off")
    /\ UNCHANGED disk

\* The file is damaged behind the program's back.
DamageFile ==
    /\ At("off") /\ disk.main.there
    /\ disk' = [disk EXCEPT !.main.good = FALSE]
    /\ UNCHANGED program

DatabaseNext ==
    \/ \E v \in 1 .. MaxVersion : InstallProgram(v)
    \/ LaunchProgram \/ OpenDatabase \/ BackupBeforeMigration
    \/ BeginMigration \/ RunStatements \/ CommitMigration
    \/ OfferBackup \/ MoveAside \/ CopyBackup
    \/ WriteRow \/ Checkpoint \/ CloseDatabase \/ KillProgram \/ DamageFile

DatabaseSpec == DatabaseInit /\ [][DatabaseNext]_databaseVars

-----------------------------------------------------------------------------
\* Wherever a migration was stopped - by a failing statement, or by the end of
\* the process between any two statements - a file that is taken up again has
\* the schema that its version row says, and the program only works on the
\* schema it was written for.
SchemaMatchesVersion ==
    /\ disk.main.there => disk.main.schema = disk.main.version
    /\ At("up") => disk.main.version = program.version

\* A first restore destroys nothing that had reached the file: it is in the
\* live file or in the damaged one that was kept, at every point of a restore
\* that may stop half way.  (What is only in the log next to the file is lost,
\* and a second restore replaces the damaged file.)
RestoreKeepsTheOldFile ==
    disk.restores <= 1 /\ disk.kept > 0 =>
        \E file \in {disk.main, disk.damaged} : file.there /\ file.rows >= disk.kept

=============================================================================
