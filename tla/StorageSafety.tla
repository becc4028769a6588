----------------------------- MODULE StorageSafety -----------------------------
(***************************************************************************)
(* What is on the disk stays right for any number of versions, backups,    *)
(* restores, watches, purchases, reports and pieces of news.               *)
(***************************************************************************)
EXTENDS StorageInvariant, SequenceTheorems, FiniteSetTheorems, TLAPS

-----------------------------------------------------------------------------
(* The database file.                                                        *)

LEMMA SoundFiles ==
  /\ NoFile \in Sound /\ NewFile \in Sound
  /\ \A file \in Sound : /\ file \in Files /\ [file EXCEPT !.good = FALSE] \in Sound
                         /\ [file EXCEPT !.wal = 0] \in Sound
                         /\ [file EXCEPT !.wal = @ + 1] \in Sound
                         /\ [file EXCEPT !.rows = @ + file.wal, !.wal = 0] \in Sound
<1>1. NoFile \in Sound
  BY DEF Sound, Files, NoFile
<1>2. NewFile \in Sound
  BY <1>1 DEF Sound, Files, NewFile
<1>3. ASSUME NEW file \in Sound
      PROVE  /\ file \in Files /\ [file EXCEPT !.good = FALSE] \in Sound
             /\ [file EXCEPT !.wal = 0] \in Sound
             /\ [file EXCEPT !.wal = @ + 1] \in Sound
  <2>1. file \in Files /\ file.schema = file.version /\ file.wal + 1 \in Nat
    BY DEF Sound, Files
  <2>2. [file EXCEPT !.good = FALSE] \in Sound
    BY <2>1 DEF Sound, Files
  <2>3. [file EXCEPT !.wal = 0] \in Sound
    BY <2>1 DEF Sound, Files
  <2>4. [file EXCEPT !.wal = @ + 1] \in Sound
    BY <2>1 DEF Sound, Files
  <2> QED
    BY <2>1, <2>2, <2>3, <2>4
<1>4. ASSUME NEW file \in Sound
      PROVE  [file EXCEPT !.rows = @ + file.wal, !.wal = 0] \in Sound
  <2>1. file.rows + file.wal \in Nat
    BY DEF Sound, Files
  <2> QED
    BY <2>1 DEF Sound, Files
<1> QED
  BY <1>1, <1>2, <1>3, <1>4

(* The newest backups that are kept.                                         *)
LEMMA BackupsKept ==
  ASSUME NEW copy \in Sound, NEW backups \in Seq(Sound)
  PROVE  SubSeq(<<copy>> \o backups, 1, Min({Len(backups) + 1, BackupRetention})) \in Seq(Sound)
<1> DEFINE all == <<copy>> \o backups
           m == Min({Len(backups) + 1, BackupRetention})
<1>1. all \in Seq(Sound) /\ Len(all) = Len(backups) + 1
  <2>1. <<copy>> \in Seq(Sound) /\ Len(<<copy>>) = 1
    OBVIOUS
  <2> QED
    BY <2>1, ConcatProperties
<1>2. m \in Nat /\ m <= Len(all)
  <2>1. \A a, b \in Nat : Min({a, b}) \in Nat /\ Min({a, b}) <= a
    <3> TAKE a, b \in Nat
    <3>1. \E x \in {a, b} : \A y \in {a, b} : x <= y
      OBVIOUS
    <3>2. Min({a, b}) \in {a, b} /\ \A y \in {a, b} : Min({a, b}) <= y
      BY <3>1 DEF Min
    <3> QED
      BY <3>2
  <2> QED
    BY <1>1, <2>1, RetentionAssumption
<1> HIDE DEF all, m
<1>3. \A i \in 1 .. m : all[i] \in Sound
  BY <1>1, <1>2
<1>4. SubSeq(all, 1, m) \in Seq(Sound)
  BY <1>1, <1>2, <1>3, SubSeqProperties
<1> QED
  BY <1>4 DEF all, m

LEMMA DatabaseStarts == DatabaseInit => DatabaseInv
<1> SUFFICES ASSUME DatabaseInit
             PROVE  DatabaseInv
  OBVIOUS
<1>1. DatabaseTypes
  <2>1. NoFile \in Sound /\ "off" \in Phases
    BY SoundFiles DEF Phases
  <2>2. <<>> \in Seq(Sound)
    OBVIOUS
  <2> QED
    BY <2>1, <2>2 DEF DatabaseInit, DatabaseIdle, DatabaseTypes
<1> QED
  BY <1>1 DEF DatabaseInit, DatabaseIdle, DatabaseInv, KeptSomewhere, At, NoFile

LEMMA DatabaseTypesStep ==
  ASSUME DatabaseInv, [DatabaseNext]_databaseVars
  PROVE  DatabaseTypes'
<1> USE DEF DatabaseInv, DatabaseTypes, Phases, At, GoTo
<1>1. ASSUME NEW v \in 1 .. MaxVersion, InstallProgram(v)
      PROVE  DatabaseTypes'
  BY <1>1, RetentionAssumption DEF InstallProgram
<1>2. CASE LaunchProgram \/ KillProgram
  BY <1>2 DEF LaunchProgram, KillProgram
<1>3. CASE OpenDatabase
  <2>1. (IF disk.main.there THEN disk.main ELSE NewFile) \in Sound
    BY SoundFiles
  <2> QED
    BY <1>3, <2>1 DEF OpenDatabase
<1>4. CASE BackupBeforeMigration
  <2> PICK copy \in {NewFile, [disk.main EXCEPT !.rows = @ + disk.main.wal, !.wal = 0]} :
        disk' = [disk EXCEPT !.backups =
                    SubSeq(<<copy>> \o @, 1, Min({Len(@) + 1, BackupRetention}))]
    BY <1>4 DEF BackupBeforeMigration
  <2>1. copy \in Sound
    BY SoundFiles
  <2>2. SubSeq(<<copy>> \o disk.backups, 1, Min({Len(disk.backups) + 1, BackupRetention})) \in Seq(Sound)
    BY <2>1, BackupsKept
  <2> QED
    BY <1>4, <2>2 DEF BackupBeforeMigration
<1>5. CASE BeginMigration
  BY <1>5 DEF BeginMigration, Sound, Files
<1>6. CASE RunStatements
  <2>1. disk.main.version + 1 \in Nat
    BY DEF Sound, Files
  <2>2. CASE program' = [program EXCEPT !.at = "version", !.schema = disk.main.version + 1]
    BY <1>6, <2>1, <2>2 DEF RunStatements
  <2>3. CASE GoTo("failed")
    BY <1>6, <2>3 DEF RunStatements
  <2> QED
    BY <1>6, <2>2, <2>3 DEF RunStatements
<1>7. CASE CommitMigration
  <2>1. program.schema = disk.main.version + 1
    BY <1>7 DEF CommitMigration
  <2>2. [disk.main EXCEPT !.version = @ + 1, !.schema = program.schema] \in Sound
    BY <2>1 DEF Sound, Files
  <2>3. disk' = [disk EXCEPT !.main = [disk.main EXCEPT !.version = @ + 1, !.schema = program.schema]]
    BY <1>7 DEF CommitMigration
  <2> QED
    BY <1>7, <2>2, <2>3 DEF CommitMigration
<1>8. CASE OfferBackup
  BY <1>8 DEF OfferBackup
<1>9. CASE MoveAside
  <2>1. CASE UNCHANGED disk /\ GoTo("off")
    BY <2>1
  <2>2. CASE /\ disk' = [disk EXCEPT !.damaged = [disk.main EXCEPT !.wal = 0], !.main = NoFile,
                                     !.restores = @ + 1]
             /\ GoTo("copy")
    <3>1. [disk.main EXCEPT !.wal = 0] \in Sound /\ NoFile \in Sound
      BY SoundFiles
    <3>2. disk.restores + 1 \in Nat
      OBVIOUS
    <3>3. disk' \in [main : Sound, damaged : Sound, backups : Seq(Sound), kept : Nat,
                     restores : Nat]
      BY <2>2, <3>1, <3>2
    <3> QED
      BY <2>2, <3>3
  <2> QED
    BY <1>9, <2>1, <2>2 DEF MoveAside
<1>10. CASE CopyBackup
  <2>0. \A good \in BOOLEAN : [NewFile EXCEPT !.good = good] \in Sound
    BY DEF NewFile, NoFile, Sound, Files
  <2>1. disk.backups[1] \in Sound
    <3>1. disk.backups # <<>> /\ disk.backups \in Seq(Sound)
      BY <1>10 DEF CopyBackup
    <3> QED
      BY <3>1, EmptySeq
  <2> QED
    BY <1>10, <2>0, <2>1 DEF CopyBackup
<1>11. CASE WriteRow
  <2>1. disk' = [disk EXCEPT !.main = [disk.main EXCEPT !.wal = @ + 1]]
    BY <1>11 DEF WriteRow
  <2> QED
    BY <1>11, <2>1, SoundFiles DEF WriteRow
<1>12. CASE Checkpoint \/ CloseDatabase
  <2>1. disk' = Checkpointed(disk) /\ program' \in {program, [program EXCEPT !.at = "off"]}
    BY <1>12 DEF Checkpoint, CloseDatabase
  <2>2. [disk.main EXCEPT !.rows = @ + disk.main.wal, !.wal = 0] \in Sound
    BY SoundFiles
  <2>3. (IF disk.restores > 0 THEN disk.kept ELSE disk.main.rows + disk.main.wal) \in Nat
    BY DEF Sound, Files
  <2>4. disk' = [disk EXCEPT !.main = [disk.main EXCEPT !.rows = @ + disk.main.wal, !.wal = 0],
                             !.kept = IF disk.restores > 0 THEN disk.kept
                                      ELSE disk.main.rows + disk.main.wal]
    BY <2>1 DEF Checkpointed
  <2> QED
    BY <2>1, <2>2, <2>3, <2>4
<1>13. CASE DamageFile
  <2>1. disk' = [disk EXCEPT !.main = [disk.main EXCEPT !.good = FALSE]]
    BY <1>13 DEF DamageFile
  <2> QED
    BY <1>13, <2>1, SoundFiles DEF DamageFile
<1>14. CASE UNCHANGED databaseVars
  BY <1>14 DEF databaseVars
<1> QED
  BY <1>1, <1>2, <1>3, <1>4, <1>5, <1>6, <1>7, <1>8, <1>9, <1>10, <1>11, <1>12, <1>13, <1>14
     DEF DatabaseNext

LEMMA DatabaseStep ==
  ASSUME DatabaseInv, [DatabaseNext]_databaseVars
  PROVE  DatabaseInv'
<1> USE DEF DatabaseInv, DatabaseTypes, At, GoTo, KeptSomewhere
<1>0. DatabaseTypes'
  BY DatabaseTypesStep
<1>1. ASSUME NEW v \in 1 .. MaxVersion, InstallProgram(v)
      PROVE  DatabaseInv'
  BY <1>0, <1>1 DEF InstallProgram
<1>2. CASE LaunchProgram \/ KillProgram \/ BeginMigration \/ RunStatements \/ OfferBackup
  <2>1. CASE LaunchProgram
    BY <1>0, <2>1 DEF LaunchProgram
  <2>2. CASE KillProgram
    BY <1>0, <2>2 DEF KillProgram
  <2>3. CASE BeginMigration
    BY <1>0, <2>3 DEF BeginMigration
  <2>4. CASE RunStatements
    BY <1>0, <2>4 DEF RunStatements
  <2>5. CASE OfferBackup
    BY <1>0, <2>5 DEF OfferBackup
  <2> QED
    BY <1>2, <2>1, <2>2, <2>3, <2>4, <2>5
<1>3. CASE OpenDatabase
  BY <1>0, <1>3 DEF OpenDatabase, NewFile, NoFile
<1>4. CASE BackupBeforeMigration
  BY <1>0, <1>4 DEF BackupBeforeMigration
<1>7. CASE CommitMigration
  <2>1. disk' = [disk EXCEPT !.main.version = @ + 1, !.main.schema = program.schema]
    BY <1>7 DEF CommitMigration
  <2>2. /\ UNCHANGED <<disk.restores, disk.kept, disk.damaged, disk.backups>>
        /\ UNCHANGED <<disk.main.rows, disk.main.there>>
        /\ disk'.main.version = disk.main.version + 1
    BY <2>1 DEF Sound, Files
  <2>3. /\ disk.main.there /\ UNCHANGED program.version
        /\ program'.at \in {"up", "migrate", "failed"}
        /\ program'.at = "up" => disk.main.version + 1 = program.version
    BY <1>7 DEF CommitMigration
  <2> QED
    BY <1>0, <2>2, <2>3
<1>9. CASE MoveAside
  <2>1. CASE UNCHANGED disk /\ GoTo("off")
    BY <1>0, <2>1
  <2>2. CASE /\ disk' = [disk EXCEPT !.damaged = [disk.main EXCEPT !.wal = 0], !.main = NoFile,
                                     !.restores = @ + 1]
             /\ GoTo("copy")
    <3>1. /\ disk'.restores = disk.restores + 1 /\ UNCHANGED <<disk.kept, disk.backups>>
          /\ disk'.damaged.there = disk.main.there /\ disk'.damaged.rows = disk.main.rows
          /\ program'.at = "copy"
      BY <2>2 DEF Sound, Files
    <3>2. disk.restores \in Nat /\ disk.kept \in Nat
      OBVIOUS
    <3>3. disk.backups # <<>>
      BY <1>9 DEF MoveAside
    <3> QED
      BY <1>0, <3>1, <3>2, <3>3
  <2> QED
    BY <1>9, <2>1, <2>2 DEF MoveAside
<1>10. CASE CopyBackup
  <2>1. CASE UNCHANGED disk /\ GoTo("off")
    BY <1>0, <2>1
  <2>2. CASE /\ disk' = [disk EXCEPT !.main = disk.backups[1]]
             /\ program' = [program EXCEPT !.at = "opening", !.restored = TRUE]
    <3>1. /\ UNCHANGED <<disk.restores, disk.kept, disk.damaged, disk.backups>>
          /\ disk.restores > 0 /\ program'.at = "opening"
      BY <1>10, <2>2 DEF CopyBackup
    <3> QED
      BY <1>0, <3>1
  <2>3. ASSUME NEW good \in BOOLEAN, disk' = [disk EXCEPT !.main = [NewFile EXCEPT !.good = good]], GoTo("off")
        PROVE  DatabaseInv'
    <3>1. /\ UNCHANGED <<disk.restores, disk.kept, disk.damaged, disk.backups>>
          /\ disk.restores > 0 /\ program'.at = "off"
      BY <1>10, <2>3 DEF CopyBackup
    <3> QED
      BY <1>0, <3>1
  <2> QED
    BY <1>10, <2>1, <2>2, <2>3 DEF CopyBackup
<1>11. CASE WriteRow \/ DamageFile
  <2>1. /\ UNCHANGED <<disk.restores, disk.kept, disk.damaged, disk.backups, program>>
        /\ UNCHANGED <<disk.main.rows, disk.main.there, disk.main.version>>
    <3>1. /\ UNCHANGED program
          /\ \/ disk' = [disk EXCEPT !.main.wal = @ + 1]
             \/ disk' = [disk EXCEPT !.main.good = FALSE]
      BY <1>11 DEF WriteRow, DamageFile
    <3>2. CASE disk' = [disk EXCEPT !.main.wal = @ + 1]
      BY <3>1, <3>2 DEF Sound, Files
    <3>3. CASE disk' = [disk EXCEPT !.main.good = FALSE]
      BY <3>1, <3>3 DEF Sound, Files
    <3> QED
      BY <3>1, <3>2, <3>3
  <2> QED
    BY <1>0, <2>1
<1>12. CASE Checkpoint \/ CloseDatabase
  <2>1. /\ disk' = Checkpointed(disk) /\ At("up")
        /\ program' \in {program, [program EXCEPT !.at = "off"]}
    BY <1>12 DEF Checkpoint, CloseDatabase
  <2>2. /\ UNCHANGED <<disk.restores, disk.damaged, disk.backups>>
        /\ UNCHANGED <<disk.main.there, disk.main.version>>
        /\ disk'.main.rows = disk.main.rows + disk.main.wal
        /\ disk'.kept = IF disk.restores > 0 THEN disk.kept ELSE disk.main.rows + disk.main.wal
    BY <2>1 DEF Checkpointed, Sound, Files
  <2>3. disk.main.rows \in Nat /\ disk.main.wal \in Nat /\ disk.restores \in Nat
    BY DEF Sound, Files
  <2>4. disk.restores = 0 /\ disk'.kept > 0 => disk.main.there
    BY <2>1
  <2>5. KeptSomewhere'
    BY <2>1, <2>2, <2>3, <2>4
  <2> QED
    BY <1>0, <2>1, <2>2, <2>5
<1>14. CASE UNCHANGED databaseVars
  BY <1>14 DEF databaseVars
<1> QED
  BY <1>1, <1>2, <1>3, <1>4, <1>7, <1>9, <1>10, <1>11, <1>12, <1>14 DEF DatabaseNext

(* DatabaseInv is an inductive invariant of the file and its programs.       *)
THEOREM DatabaseInvariance == DatabaseSpec => []DatabaseInv
<1>1. DatabaseInv /\ [DatabaseNext]_databaseVars => DatabaseInv'
  BY DatabaseStep
<1> QED
  BY <1>1, DatabaseStarts, PTL DEF DatabaseSpec

(* Whatever stops a migration, a file has the schema that its version row    *)
(* says, and the program works on its own version of it (_apply, migrate).   *)
THEOREM VersionIsTrue == DatabaseSpec => []SchemaMatchesVersion
<1>1. DatabaseInv => SchemaMatchesVersion
  BY DEF DatabaseInv, DatabaseTypes, SchemaMatchesVersion, Sound
<1> QED
  BY <1>1, DatabaseInvariance, PTL

(* A first restore destroys nothing that had reached the file: it is moved   *)
(* aside before a backup takes its place (_offer_database_recovery).         *)
THEOREM OldFileIsKept == DatabaseSpec => []RestoreKeepsTheOldFile
<1>1. DatabaseInv => RestoreKeepsTheOldFile
  BY DEF DatabaseInv, DatabaseTypes, KeptSomewhere, RestoreKeepsTheOldFile
<1> QED
  BY <1>1, DatabaseInvariance, PTL

-----------------------------------------------------------------------------
(* Notifications.                                                            *)

(* News of one key is of one kind, and the same unless it is about an error  *)
(* in watching products of one title.                                        *)
LEMMA KeysTellNewsApart ==
  /\ Nothing \notin News
  /\ \A n \in News : DedupeKey(n) \in Keys
  /\ \A n, m \in News : DedupeKey(n) = DedupeKey(m)
        => n.kind = m.kind /\ (n.kind \notin AlwaysOn => SilencedBy(n, m))
<1>1. Nothing \notin News
  BY NewsAssumption DEF Nothing, AlwaysOn, OtherKinds
<1>2. ASSUME NEW n \in News, NEW m \in News, DedupeKey(n) = DedupeKey(m)
      PROVE  n.kind = m.kind
  BY <1>2 DEF DedupeKey
<1>3. ASSUME NEW n \in News, NEW m \in News, DedupeKey(n) = DedupeKey(m), n.kind \notin AlwaysOn
      PROVE  SilencedBy(n, m)
  <2>1. n.kind = m.kind /\ n.kind \in OtherKinds
    BY <1>2, <1>3, NewsAssumption
  <2>2. CASE n.kind = "monitoring_error"
    BY <1>3, <2>1, <2>2 DEF DedupeKey, SilencedBy
  <2>3. CASE n.kind \in {"target_price_reached", "seller_changed"}
    <3>1. n.subject = m.subject /\ n.detail = m.detail
      BY <1>3, <2>1, <2>3 DEF DedupeKey
    <3> QED
      BY <2>1, <3>1, NewsAssumption DEF SilencedBy
  <2>4. CASE n.kind \in {"login_expired", "verification_needed"}
    <3>1. n.subject = m.subject /\ n.detail = m.detail
      BY <2>1, <2>4, NewsAssumption
    <3> QED
      BY <2>1, <3>1, NewsAssumption DEF SilencedBy
  <2>5. CASE n.kind = "back_in_stock"
    <3>1. n.subject = m.subject
      BY <1>3, <2>1, <2>5 DEF DedupeKey
    <3>2. n.detail = m.detail
      BY <2>1, <2>5, NewsAssumption
    <3> QED
      BY <2>1, <3>1, <3>2, NewsAssumption DEF SilencedBy
  <2> QED
    BY <2>1, <2>2, <2>3, <2>4, <2>5 DEF OtherKinds
<1> QED
  BY <1>1, <1>2, <1>3 DEF Keys

LEMMA NoticeStarts == NoticeInit => NoticeInv
<1> SUFFICES ASSUME NoticeInit
             PROVE  NoticeInv
  OBVIOUS
<1> USE WindowAssumption DEF NoticeInit, NoticeIdle, Never
<1>1. NoticeTypes
  <2>1. [k \in Keys |-> Window] \in [Keys -> 0 .. Window] /\ [n \in News |-> Window] \in [News -> 0 .. Window]
    OBVIOUS
  <2> QED
    BY <2>1 DEF NoticeTypes
<1>2. LogIsTold
  BY KeysTellNewsApart DEF LogIsTold
<1> QED
  BY <1>1, <1>2 DEF NoticeInv

(* News that is sent was not sent lately, unless it is about money.          *)
LEMMA WhatIsSent ==
  ASSUME NoticeInv, NEW n \in News, Notify(n), notices' # notices
  PROVE  /\ notices.pending = Nothing
         /\ n.kind \notin AlwaysOn => notices.log[DedupeKey(n)] = Window /\ told[n] = Window
         /\ \E method \in {"toast", "tray"} : Delivered(n, method)
<1>1. /\ notices.pending = Nothing
      /\ n.kind \notin AlwaysOn => ~WasNotifiedRecently(n)
      /\ \E method \in {"toast", "tray"} : Delivered(n, method)
  BY DEF Notify
<1>2. notices.log[DedupeKey(n)] \in 0 .. Window
  BY KeysTellNewsApart DEF NoticeInv, NoticeTypes
<1>3. n.kind \notin AlwaysOn => notices.log[DedupeKey(n)] = Window
  <2>1. n.kind \notin AlwaysOn => ~(notices.log[DedupeKey(n)] < Window)
    BY <1>1 DEF WasNotifiedRecently
  <2>2. \A a \in 0 .. Window : ~(a < Window) => a = Window
    BY WindowAssumption
  <2> QED
    BY <1>2, <2>1, <2>2
<1>4. n.kind \notin AlwaysOn => told[n] >= notices.log[DedupeKey(n)]
  BY <1>1, KeysTellNewsApart DEF NoticeInv, LogIsTold
<1>5. n.kind \notin AlwaysOn => told[n] = Window
  <2>1. \A a \in 0 .. Window : a >= Window => a = Window
    BY WindowAssumption
  <2> QED
    BY <1>3, <1>4, <2>1 DEF NoticeInv, NoticeTypes
<1> QED
  BY <1>1, <1>3, <1>5

LEMMA NoticeStep == NoticeInv /\ [NoticeNext]_noticeVars => NoticeInv'
<1> SUFFICES ASSUME NoticeInv, [NoticeNext]_noticeVars
             PROVE  NoticeInv'
  OBVIOUS
<1> USE DEF NoticeInv, NoticeTypes
<1>0. /\ Window \in Nat /\ 0 \in 0 .. Window /\ Window \in 0 .. Window
      /\ Nothing \notin News
      /\ \A n \in News : DedupeKey(n) \in Keys
      /\ \A n, m \in News : DedupeKey(n) = DedupeKey(m) => n.kind = m.kind
  BY WindowAssumption, KeysTellNewsApart
<1>1. ASSUME UNCHANGED <<notices.log, notices.pending, told>>, NoticeTypes'
      PROVE  NoticeInv'
  BY <1>1 DEF LogIsTold
<1>2. ASSUME NEW n \in News, Notify(n)
      PROVE  NoticeInv'
  <2>1. CASE UNCHANGED notices
    <3>1. UNCHANGED told
      <4>1. Nothing # n
        BY <1>0
      <4> QED
        BY <1>2, <2>1, <4>1 DEF Notify, Delivered, KeptBack
    <3> QED
      BY <1>1, <2>1, <3>1
  <2>2. ASSUME NEW method \in {"toast", "tray"}, Delivered(n, method), notices' # notices
        PROVE  NoticeInv'
    <3>1. /\ notices' = [notices EXCEPT !.pending = n, !.method = method]
          /\ told' = [told EXCEPT ![n] = 0]
      BY <2>2 DEF Delivered
    <3>2. told' \in [News -> 0 .. Window]
      BY <1>0, <3>1
    <3>4. NoticeTypes'
      BY <3>1, <3>2
    <3>5. n.kind \notin AlwaysOn => notices.log[DedupeKey(n)] = Window
      BY <1>2, <2>2, WhatIsSent
    <3>6. notices'.log = notices.log /\ notices'.pending = n
      BY <3>1
    <3>7. notices.pending = Nothing
      BY <1>2 DEF Notify
    <3>8. ASSUME NEW m \in News, m.kind \notin AlwaysOn
          PROVE  /\ IF notices'.pending = m THEN told'[m] = 0 /\ notices'.log[DedupeKey(m)] = Window
                                            ELSE told'[m] >= notices'.log[DedupeKey(m)]
                 /\ notices'.log[DedupeKey(m)] < Window =>
                       \E l \in News : DedupeKey(l) = DedupeKey(m) /\ told'[l] = notices'.log[DedupeKey(m)]
      <4>1. m = n => told'[m] = 0 /\ notices.log[DedupeKey(m)] = Window
        BY <3>1, <3>5, <3>8
      <4>2. m # n => told'[m] = told[m] /\ told[m] >= notices.log[DedupeKey(m)]
        BY <1>0, <3>1, <3>7, <3>8 DEF LogIsTold
      <4>3. ASSUME notices.log[DedupeKey(m)] < Window
            PROVE  \E l \in News : DedupeKey(l) = DedupeKey(m) /\ told'[l] = notices.log[DedupeKey(m)]
        <5>1. PICK l \in News : DedupeKey(l) = DedupeKey(m) /\ told[l] = notices.log[DedupeKey(m)]
          BY <3>8, <4>3 DEF LogIsTold
        <5>2. l # n
          <6>1. l.kind \notin AlwaysOn /\ notices.log[DedupeKey(l)] < Window
            BY <1>0, <3>8, <4>3, <5>1
          <6>2. l = n => notices.log[DedupeKey(l)] = Window
            BY <3>5, <6>1
          <6>3. ~(Window < Window)
            BY <1>0
          <6> QED
            BY <6>1, <6>2, <6>3
        <5>3. told'[l] = told[l]
          BY <3>1, <5>2
        <5> QED
          BY <5>1, <5>3
      <4> QED
        BY <3>6, <4>1, <4>2, <4>3
    <3>9. LogIsTold'
      BY <3>8 DEF LogIsTold
    <3> QED
      BY <3>4, <3>9
  <2> QED
    BY <1>2, <2>1, <2>2, WhatIsSent
<1>3. CASE Record
  <2> DEFINE n == notices.pending
             k == DedupeKey(notices.pending)
  <2>1. /\ n \in News /\ k \in Keys /\ UNCHANGED told
        /\ notices' = [notices EXCEPT !.log = [notices.log EXCEPT ![k] = 0],
                                      !.pending = Nothing, !.method = "none"]
    BY <1>0, <1>3 DEF Record
  <2>2. [notices.log EXCEPT ![k] = 0] \in [Keys -> 0 .. Window]
    BY <1>0
  <2>3. NoticeTypes'
    BY <2>1, <2>2
  <2>4. notices'.pending = Nothing /\ notices'.log = [notices.log EXCEPT ![k] = 0]
    BY <2>1
  <2>5. ASSUME NEW m \in News, m.kind \notin AlwaysOn
        PROVE  /\ told'[m] >= notices'.log[DedupeKey(m)]
               /\ notices'.log[DedupeKey(m)] < Window =>
                     \E l \in News : DedupeKey(l) = DedupeKey(m) /\ told'[l] = notices'.log[DedupeKey(m)]
    <3>1. CASE DedupeKey(m) = k
      <4>1. n.kind \notin AlwaysOn
        BY <1>0, <2>1, <2>5, <3>1
      <4>2. told'[n] = 0 /\ notices'.log[DedupeKey(m)] = 0 /\ told'[m] \in 0 .. Window
        BY <2>1, <2>4, <3>1, <4>1 DEF LogIsTold
      <4>3. \A a \in 0 .. Window : a >= 0
        BY <1>0
      <4> QED
        BY <2>1, <3>1, <4>2, <4>3
    <3>2. CASE DedupeKey(m) # k
      <4>1. m # n
        BY <3>2
      <4>2. notices'.log[DedupeKey(m)] = notices.log[DedupeKey(m)]
        BY <1>0, <2>4, <3>2
      <4> QED
        BY <2>1, <2>5, <4>1, <4>2 DEF LogIsTold
    <3> QED
      BY <3>1, <3>2
  <2>6. LogIsTold'
    BY <1>0, <2>4, <2>5 DEF LogIsTold
  <2> QED
    BY <2>3, <2>6
<1>5. ASSUME NEW kind \in {n.kind : n \in News}, NEW on \in BOOLEAN, SetNotification(kind, on)
      PROVE  NoticeInv'
  <2>1. kind \in AlwaysOn \union OtherKinds
    BY NewsAssumption
  <2>2. UNCHANGED <<notices.log, notices.pending, told>> /\ NoticeTypes'
    BY <1>5, <2>1 DEF SetNotification
  <2> QED
    BY <1>1, <2>2
<1>6. ASSUME NEW on \in BOOLEAN, SetNotificationsEnabled(on)
      PROVE  NoticeInv'
  <2>1. UNCHANGED <<notices.log, notices.pending, told>> /\ NoticeTypes'
    BY <1>6 DEF SetNotificationsEnabled
  <2> QED
    BY <1>1, <2>1
<1>7. CASE ResetToDefaults
  <2>1. UNCHANGED <<notices.log, notices.pending, told>> /\ NoticeTypes'
    BY <1>7 DEF ResetToDefaults
  <2> QED
    BY <1>1, <2>1
<1>8. CASE NoticesAge
  <2>1. \A a \in 0 .. Window : Age(a) \in 0 .. Window
    BY <1>0 DEF Age
  <2>2. /\ notices.pending = Nothing
        /\ notices' = [notices EXCEPT !.log = [k \in Keys |-> Age(notices.log[k])]]
        /\ told' = [n \in News |-> Age(told[n])]
    BY <1>8 DEF NoticesAge
  <2>3. /\ [k \in Keys |-> Age(notices.log[k])] \in [Keys -> 0 .. Window]
        /\ told' \in [News -> 0 .. Window]
    BY <2>1, <2>2
  <2>4. NoticeTypes'
    BY <2>2, <2>3
  <2>5. /\ notices'.pending = Nothing
        /\ \A k \in Keys : notices'.log[k] = Age(notices.log[k])
    BY <2>2
  <2>6. ASSUME NEW m \in News, m.kind \notin AlwaysOn
        PROVE  /\ told'[m] >= notices'.log[DedupeKey(m)]
               /\ notices'.log[DedupeKey(m)] < Window =>
                     \E l \in News : DedupeKey(l) = DedupeKey(m) /\ told'[l] = notices'.log[DedupeKey(m)]
    <3> DEFINE age == notices.log[DedupeKey(m)]
    <3>1. /\ told[m] >= age /\ age \in 0 .. Window
          /\ age < Window => \E l \in News : DedupeKey(l) = DedupeKey(m) /\ told[l] = age
      BY <1>0, <2>2, <2>6 DEF LogIsTold
    <3>2. notices'.log[DedupeKey(m)] = Age(age) /\ told'[m] = Age(told[m])
      BY <1>0, <2>2, <2>5
    <3> HIDE DEF age
    <3>3. \A a, b \in 0 .. Window : (a >= b => Age(a) >= Age(b)) /\ (Age(b) < Window => b < Window)
      BY <1>0 DEF Age
    <3>4. told'[m] >= notices'.log[DedupeKey(m)]
      BY <3>1, <3>2, <3>3
    <3>5. ASSUME Age(age) < Window
          PROVE  \E l \in News : DedupeKey(l) = DedupeKey(m) /\ told'[l] = Age(age)
      <4>1. PICK l \in News : DedupeKey(l) = DedupeKey(m) /\ told[l] = age
        BY <3>1, <3>3, <3>5
      <4> QED
        BY <2>2, <4>1
    <3> QED
      BY <3>2, <3>4, <3>5
  <2>7. LogIsTold'
    BY <1>0, <2>5, <2>6 DEF LogIsTold
  <2> QED
    BY <2>4, <2>7
<1>9. CASE NotifierRestarts
  <2>1. /\ notices' = [notices EXCEPT !.pending = Nothing, !.method = "none"]
        /\ told' = IF notices.pending = Nothing THEN told
                                               ELSE [told EXCEPT ![notices.pending] = Window]
    BY <1>9 DEF NotifierRestarts, Never
  <2>2. told' \in [News -> 0 .. Window]
    BY <1>0, <2>1
  <2>3. NoticeTypes'
    BY <2>1, <2>2
  <2>4. notices'.pending = Nothing /\ notices'.log = notices.log
    BY <2>1
  <2>5. ASSUME NEW m \in News, m.kind \notin AlwaysOn
        PROVE  /\ told'[m] >= notices'.log[DedupeKey(m)]
               /\ notices'.log[DedupeKey(m)] < Window =>
                     \E l \in News : DedupeKey(l) = DedupeKey(m) /\ told'[l] = notices'.log[DedupeKey(m)]
    <3>1. told'[m] >= notices.log[DedupeKey(m)]
      <4>1. CASE notices.pending = m
        <5>1. told'[m] = Window /\ notices.log[DedupeKey(m)] = Window
          BY <1>0, <2>1, <2>5, <4>1 DEF LogIsTold
        <5> QED
          BY <1>0, <5>1
      <4>2. CASE notices.pending # m
        BY <1>0, <2>1, <2>5, <4>2 DEF LogIsTold
      <4> QED
        BY <4>1, <4>2
    <3>2. ASSUME notices.log[DedupeKey(m)] < Window
          PROVE  \E l \in News : DedupeKey(l) = DedupeKey(m) /\ told'[l] = notices.log[DedupeKey(m)]
      <4>1. PICK l \in News : DedupeKey(l) = DedupeKey(m) /\ told[l] = notices.log[DedupeKey(m)]
        BY <2>5, <3>2 DEF LogIsTold
      <4>2. l.kind \notin AlwaysOn /\ notices.log[DedupeKey(l)] < Window
        BY <1>0, <2>5, <3>2, <4>1
      <4>3. notices.pending # l
        <5>1. ~(Window < Window)
          BY <1>0
        <5> QED
          BY <4>2, <5>1 DEF LogIsTold
      <4>4. told'[l] = told[l]
        BY <2>1, <4>3
      <4> QED
        BY <4>1, <4>4
    <3> QED
      BY <2>4, <3>1, <3>2
  <2>6. LogIsTold'
    BY <1>0, <2>4, <2>5 DEF LogIsTold
  <2> QED
    BY <2>3, <2>6
<1>10. CASE UNCHANGED noticeVars
  BY <1>1, <1>10 DEF noticeVars
<1> QED
  BY <1>2, <1>3, <1>5, <1>6, <1>7, <1>8, <1>9, <1>10 DEF NoticeNext

(* NoticeInv is an inductive invariant of the log and what the user saw.     *)
THEOREM NoticeInvariance == NoticeSpec => []NoticeInv
<1> QED
  BY NoticeStarts, NoticeStep, PTL DEF NoticeSpec

(* Only news that the user was shown lately is held back as already sent,    *)
(* whatever else was sent in between (notify, was_notified_recently); news   *)
(* of an error in watching also when an error was shown lately of a product  *)
(* of the same title.                                                        *)
THEOREM OnlyToldIsSilenced == NoticeSpec => SilencedOnlyIfTold
<1>1. ASSUME NoticeInv, [NoticeNext]_noticeVars, outcome' # outcome, outcome'.what = "already sent"
      PROVE  /\ outcome'.news.kind \notin AlwaysOn
             /\ \E n \in News : SilencedBy(outcome'.news, n) /\ told[n] < Window
  <2>1. ~Record
    <3>1. notices.method \in {"none", "toast", "tray"}
      BY <1>1 DEF NoticeInv, NoticeTypes
    <3>2. Record => outcome'.what = notices.method
      BY DEF Record
    <3> QED
      BY <1>1, <3>1, <3>2
  <2>2. PICK n \in News : Notify(n)
    BY <1>1, <2>1 DEF NoticeNext, noticeVars, ResetToDefaults, NoticesAge,
                      NotifierRestarts, SetNotification, SetNotificationsEnabled
  <2>3. /\ notices.pending = Nothing
        /\ outcome' = [news |-> n, what |-> "already sent"]
        /\ n.kind \notin AlwaysOn /\ WasNotifiedRecently(n)
    <3>1. \A method : ~Delivered(n, method)
      BY <1>1 DEF Delivered
    <3>2. \A why : KeptBack(n, why) => outcome' = [news |-> n, what |-> why] /\ outcome'.what = why
      BY DEF KeptBack
    <3>3. ~KeptBack(n, "turned off") /\ ~KeptBack(n, "no channel")
      <4>1. ASSUME KeptBack(n, "turned off")
            PROVE  FALSE
        BY <1>1, <4>1 DEF KeptBack
      <4>2. ASSUME KeptBack(n, "no channel")
            PROVE  FALSE
        BY <1>1, <4>2 DEF KeptBack
      <4> QED
        BY <4>1, <4>2
    <3>4. NotificationAllowed(n.kind)
      BY <2>2, <3>3 DEF Notify
    <3>5. n.kind \notin AlwaysOn /\ WasNotifiedRecently(n) /\ KeptBack(n, "already sent")
      BY <2>2, <3>1, <3>3, <3>4 DEF Notify
    <3> QED
      BY <2>2, <3>2, <3>5 DEF Notify
  <2>4. PICK m \in News : DedupeKey(m) = DedupeKey(n) /\ told[m] = notices.log[DedupeKey(n)]
    BY <1>1, <2>3 DEF NoticeInv, LogIsTold, WasNotifiedRecently
  <2>5. SilencedBy(n, m) /\ told[m] < Window
    BY <2>3, <2>4, KeysTellNewsApart DEF WasNotifiedRecently
  <2> QED
    BY <2>3, <2>5
<1>2. NoticeInv /\ [NoticeNext]_noticeVars
        => [outcome' # outcome /\ outcome'.what = "already sent"
              => /\ outcome'.news.kind \notin AlwaysOn
                 /\ \E n \in News : SilencedBy(outcome'.news, n) /\ told[n] < Window]_noticeVars
  BY <1>1
<1> QED
  BY <1>2, NoticeInvariance, PTL DEF NoticeSpec, SilencedOnlyIfTold

(* Within its quiet period nothing but money is shown twice, by toast or by  *)
(* tray, over restarts and changed settings (notify, record_notification).   *)
THEOREM ToldOnce == NoticeSpec => NotToldTwice
<1>1. ASSUME NoticeInv, [NoticeNext]_noticeVars, NEW n \in News,
             notices.pending = Nothing, notices'.pending = n, n.kind \notin AlwaysOn
      PROVE  told[n] = Never
  <2>1. Nothing # n
    BY KeysTellNewsApart
  <2>2. PICK m \in News : Notify(m)
    BY <1>1, <2>1 DEF NoticeNext, noticeVars, Record, ResetToDefaults, NoticesAge,
                      NotifierRestarts, SetNotification, SetNotificationsEnabled, NoticeInv, NoticeTypes
  <2>3. notices' # notices
    BY <1>1, <2>1
  <2>4. m = n
    <3>1. \E method \in {"toast", "tray"} : Delivered(m, method)
      BY <1>1, <2>2, <2>3, WhatIsSent
    <3>2. \A method : Delivered(m, method) => notices'.pending = m
      BY <1>1 DEF Delivered, NoticeInv, NoticeTypes
    <3> QED
      BY <1>1, <3>1, <3>2
  <2> QED
    BY <1>1, <2>2, <2>3, <2>4, WhatIsSent DEF Never
<1>2. NoticeInv /\ [NoticeNext]_noticeVars
        => [\A n \in News : notices.pending = Nothing /\ notices'.pending = n /\ n.kind \notin AlwaysOn
              => told[n] = Never]_noticeVars
  BY <1>1
<1> QED
  BY <1>2, NoticeInvariance, PTL DEF NoticeSpec, NotToldTwice

-----------------------------------------------------------------------------
(* Rows.                                                                     *)

LEMMA FunctionsAreSequences ==
  ASSUME NEW S, NEW n \in Nat, NEW f \in [1 .. n -> S]
  PROVE  f \in Seq(S) /\ Len(f) = n
<1>1. f \in Seq(S)
  BY SeqDef
<1>2. 1 .. Len(f) = 1 .. n /\ Len(f) \in Nat
  BY <1>1, LenProperties
<1> QED
  BY <1>1, <1>2

LEMMA RecordsStart == RecordsInit => RecordsInv
<1> SUFFICES ASSUME RecordsInit
             PROVE  RecordsInv
  OBVIOUS
<1>1. /\ rows = [rules |-> <<>>, watches |-> [w \in WatchRows |-> 0],
                 purchases |-> <<>>, latest |-> "never"]
      /\ look = NoLook /\ reports = <<>>
      /\ news = [told |-> {}, spells |-> 0]
  BY DEF RecordsInit, RecordsIdle
<1>2. <<>> \in Seq(RuleTexts) /\ <<>> \in Seq(Purchases)
  OBVIOUS
<1>3. <<>> \in Seq([by : WatchRows, raised : SUBSET Kinds])
  OBVIOUS
<1>4. RowTypes
  BY <1>1, <1>2 DEF RowTypes
<1>5. OwnRules
  BY <1>1 DEF OwnRules
<1>6. Returns = {} /\ OpenSpell = 0
  BY <1>1 DEF Returns, OpenSpell
<1>7. ReturnsInv
  BY <1>1, <1>3, <1>6, FS_EmptySet, RowsAssumption DEF ReturnsInv
<1> QED
  BY <1>4, <1>5, <1>7 DEF RecordsInv

(* What the user and the purchases write.                                    *)
WritesRows ==
    \/ \E w \in WatchRows, text \in RuleTexts : CreateWatch(w, text) \/ EditRules(w, text)
    \/ \E w \in WatchRows : DeleteWatch(w)
    \/ \E w \in WatchRows \union {"none"}, text \in RuleTexts : StartPurchase(w, text)
    \/ EndPurchase

(* A new rule set is nobody's yet, and leaves the others as they were.       *)
LEMMA RulesGrow ==
  ASSUME RowTypes, OwnRules, NEW text \in RuleTexts
  PROVE  LET r == NewRules(rows, text)
         IN  /\ r = [rows EXCEPT !.rules = r.rules]
             /\ r.rules \in Seq(RuleTexts) /\ Len(r.rules) = Len(rows.rules) + 1
             /\ r.rules[Len(r.rules)] = text
             /\ \A k \in DOMAIN rows.rules : k \in DOMAIN r.rules /\ r.rules[k] = rows.rules[k]
<1> DEFINE r == NewRules(rows, text)
<1>1. r = [rows EXCEPT !.rules = Append(rows.rules, text)] /\ r.rules = Append(rows.rules, text)
  BY DEF NewRules, RowTypes
<1>2. rows.rules \in Seq(RuleTexts)
  BY DEF RowTypes
<1> HIDE DEF r
<1>3. /\ r.rules \in Seq(RuleTexts) /\ Len(r.rules) = Len(rows.rules) + 1
      /\ r.rules[Len(r.rules)] = text
      /\ \A k \in 1 .. Len(rows.rules) : r.rules[k] = rows.rules[k]
      /\ DOMAIN r.rules = 1 .. Len(r.rules)
  BY <1>1, <1>2, AppendProperties
<1>4. DOMAIN rows.rules = 1 .. Len(rows.rules) /\ Len(rows.rules) \in Nat
  BY <1>2
<1>5. \A k \in DOMAIN rows.rules : k \in DOMAIN r.rules /\ r.rules[k] = rows.rules[k]
  BY <1>3, <1>4
<1> QED
  BY <1>1, <1>3, <1>5 DEF r

LEMMA RowsStep ==
  ASSUME RowTypes, OwnRules, WritesRows
  PROVE  /\ RowTypes' /\ OwnRules' /\ rows'.latest = rows.latest
         /\ Len(rows'.purchases) >= Len(rows.purchases)
<1> USE DEF RowTypes
<1>0. /\ DOMAIN rows.rules = 1 .. Len(rows.rules) /\ Len(rows.rules) \in Nat
      /\ rows.purchases \in Seq(Purchases)
      /\ DOMAIN rows.purchases = 1 .. Len(rows.purchases) /\ Len(rows.purchases) \in Nat
      /\ \A i \in DOMAIN rows.purchases : rows.purchases[i] \in Purchases
  OBVIOUS
<1>1. ASSUME NEW w \in WatchRows, NEW text \in RuleTexts, CreateWatch(w, text)
      PROVE  /\ RowTypes' /\ OwnRules' /\ rows'.latest = rows.latest
             /\ Len(rows'.purchases) >= Len(rows.purchases)
  <2> DEFINE r == NewRules(rows, text)
  <2>1. rows' \in {[r EXCEPT !.watches[w] = Len(r.rules)], r}
    BY <1>1 DEF CreateWatch
  <2>2. /\ r = [rows EXCEPT !.rules = r.rules]
        /\ r.rules \in Seq(RuleTexts) /\ Len(r.rules) = Len(rows.rules) + 1
        /\ \A k \in DOMAIN rows.rules : k \in DOMAIN r.rules /\ r.rules[k] = rows.rules[k]
    BY RulesGrow
  <2> HIDE DEF r
  <2>3. [rows.watches EXCEPT ![w] = Len(r.rules)] \in [WatchRows -> Nat]
    BY <1>0, <2>2
  <2>4. /\ rows' \in {[rows EXCEPT !.rules = r.rules, !.watches = [rows.watches EXCEPT ![w] = Len(r.rules)]],
                      [rows EXCEPT !.rules = r.rules]}
    BY <2>1, <2>2
  <2>5. /\ UNCHANGED <<rows.purchases, rows.latest>> /\ rows'.rules = r.rules
        /\ rows'.watches \in {rows.watches, [rows.watches EXCEPT ![w] = Len(r.rules)]}
    BY <2>4
  <2>6. \A v \in WatchRows : rows'.watches[v] \in {rows.watches[v], Len(rows.rules) + 1}
    BY <2>2, <2>5
  <2>7. RowTypes'
    <3>1. rows' \in [rules : Seq(RuleTexts), watches : [WatchRows -> Nat], purchases : Seq(Purchases),
                     latest : {"never", "in", "out", "unknown"}]
      BY <2>2, <2>3, <2>4
    <3>2. \A v \in WatchRows : rows'.watches[v] <= Len(rows'.rules)
      BY <1>0, <2>2, <2>5, <2>6
    <3> QED
      BY <3>1, <3>2
  <2>8. OwnRules'
    <3>1. ASSUME NEW i \in DOMAIN rows'.purchases
          PROVE  /\ rows'.purchases[i].rules \in DOMAIN rows'.rules
                 /\ rows'.rules[rows'.purchases[i].rules] = rows'.purchases[i].judged
                 /\ \A v \in WatchRows : rows'.watches[v] # rows'.purchases[i].rules
      <4>1. i \in DOMAIN rows.purchases /\ rows'.purchases[i] = rows.purchases[i]
        BY <2>5
      <4>2. /\ rows.purchases[i].rules \in DOMAIN rows.rules
            /\ rows.rules[rows.purchases[i].rules] = rows.purchases[i].judged
            /\ \A v \in WatchRows : rows.watches[v] # rows.purchases[i].rules
        BY <4>1 DEF OwnRules
      <4>3. \A v \in WatchRows : rows'.watches[v] # rows.purchases[i].rules
        BY <1>0, <2>6, <4>2
      <4> QED
        BY <2>2, <2>5, <4>1, <4>2, <4>3
    <3> QED
      BY <3>1 DEF OwnRules
  <2> QED
    BY <1>0, <2>5, <2>7, <2>8
<1>2. ASSUME NEW w \in WatchRows, NEW text \in RuleTexts, EditRules(w, text)
      PROVE  /\ RowTypes' /\ OwnRules' /\ rows'.latest = rows.latest
             /\ Len(rows'.purchases) >= Len(rows.purchases)
  <2> DEFINE k == rows.watches[w]
             edited == [rows.rules EXCEPT ![k] = text]
  <2>1. k \in DOMAIN rows.rules
    BY <1>0, <1>2 DEF EditRules
  <2>2. edited \in Seq(RuleTexts) /\ Len(edited) = Len(rows.rules)
    <3>1. edited \in [1 .. Len(rows.rules) -> RuleTexts]
      BY <1>0, <2>1
    <3> QED
      BY <1>0, <3>1, FunctionsAreSequences
  <2>3. rows' = [rows EXCEPT !.rules = edited]
    BY <1>2 DEF EditRules
  <2>4. /\ UNCHANGED <<rows.purchases, rows.latest, rows.watches>> /\ rows'.rules = edited
        /\ DOMAIN edited = DOMAIN rows.rules
        /\ \A j \in DOMAIN rows.rules : j # k => edited[j] = rows.rules[j]
    BY <2>3
  <2>5. RowTypes'
    BY <2>2, <2>3, <2>4
  <2>6. OwnRules'
    <3>1. \A i \in DOMAIN rows.purchases : k # rows.purchases[i].rules
      BY DEF OwnRules
    <3> HIDE DEF edited, k
    <3> QED
      BY <2>4, <3>1 DEF OwnRules
  <2> QED
    BY <1>0, <2>4, <2>5, <2>6
<1>3. ASSUME NEW purchases \in [1 .. Len(rows.purchases) -> Purchases],
             NEW watches \in [WatchRows -> Nat],
             rows' = [rows EXCEPT !.purchases = purchases, !.watches = watches],
             \A v \in WatchRows : watches[v] \in {0, rows.watches[v]},
             \A i \in DOMAIN rows.purchases : /\ purchases[i].rules = rows.purchases[i].rules
                                              /\ purchases[i].judged = rows.purchases[i].judged
      PROVE  /\ RowTypes' /\ OwnRules' /\ rows'.latest = rows.latest
             /\ Len(rows'.purchases) >= Len(rows.purchases)
  <2>1. purchases \in Seq(Purchases) /\ Len(purchases) = Len(rows.purchases)
    BY <1>0, FunctionsAreSequences
  <2>2. /\ rows'.purchases = purchases /\ rows'.watches = watches
        /\ UNCHANGED <<rows.rules, rows.latest>>
    BY <1>3
  <2>3. RowTypes'
    <3>1. \A v \in WatchRows : rows'.watches[v] <= Len(rows'.rules)
      BY <1>0, <1>3, <2>2
    <3> QED
      BY <1>3, <2>1, <3>1
  <2>4. OwnRules'
    BY <1>0, <1>3, <2>2 DEF OwnRules
  <2> QED
    BY <1>0, <2>1, <2>2, <2>3, <2>4
<1>4. ASSUME NEW w \in WatchRows, DeleteWatch(w)
      PROVE  /\ RowTypes' /\ OwnRules' /\ rows'.latest = rows.latest
             /\ Len(rows'.purchases) >= Len(rows.purchases)
  <2> DEFINE purchases == [i \in DOMAIN rows.purchases |->
                             IF rows.purchases[i].watch = w THEN [rows.purchases[i] EXCEPT !.watch = "none"]
                                                            ELSE rows.purchases[i]]
             watches == [rows.watches EXCEPT ![w] = 0]
  <2>1. \A p \in Purchases : /\ [p EXCEPT !.watch = "none"] \in Purchases
                             /\ [p EXCEPT !.watch = "none"].rules = p.rules
                             /\ [p EXCEPT !.watch = "none"].judged = p.judged
    BY DEF Purchases
  <2>2. purchases \in [1 .. Len(rows.purchases) -> Purchases]
    BY <1>0, <2>1
  <2>3. \A i \in DOMAIN rows.purchases : /\ purchases[i].rules = rows.purchases[i].rules
                                         /\ purchases[i].judged = rows.purchases[i].judged
    BY <1>0, <2>1
  <2>4. watches \in [WatchRows -> Nat] /\ \A v \in WatchRows : watches[v] \in {0, rows.watches[v]}
    OBVIOUS
  <2>5. rows' = [rows EXCEPT !.purchases = purchases, !.watches = watches]
    BY <1>4 DEF DeleteWatch
  <2> HIDE DEF purchases, watches
  <2> QED
    BY <1>3, <2>2, <2>3, <2>4, <2>5
<1>5. CASE EndPurchase
  <2> DEFINE purchases == [i \in DOMAIN rows.purchases |-> [rows.purchases[i] EXCEPT !.live = FALSE]]
  <2>1. \A p \in Purchases : /\ [p EXCEPT !.live = FALSE] \in Purchases
                             /\ [p EXCEPT !.live = FALSE].rules = p.rules
                             /\ [p EXCEPT !.live = FALSE].judged = p.judged
    BY DEF Purchases
  <2>2. purchases \in [1 .. Len(rows.purchases) -> Purchases]
    BY <1>0, <2>1
  <2>3. \A i \in DOMAIN rows.purchases : /\ purchases[i].rules = rows.purchases[i].rules
                                         /\ purchases[i].judged = rows.purchases[i].judged
    BY <1>0, <2>1
  <2>4. rows' = [rows EXCEPT !.purchases = purchases]
    BY <1>5 DEF EndPurchase
  <2> HIDE DEF purchases
  <2>5. rows' = [rows EXCEPT !.purchases = purchases, !.watches = rows.watches]
    BY <2>4
  <2>6. rows.watches \in [WatchRows -> Nat]
    OBVIOUS
  <2> QED
    BY <1>3, <2>2, <2>3, <2>5, <2>6
<1>6. ASSUME NEW w \in WatchRows \union {"none"}, NEW text \in RuleTexts, StartPurchase(w, text)
      PROVE  /\ RowTypes' /\ OwnRules' /\ rows'.latest = rows.latest
             /\ Len(rows'.purchases) >= Len(rows.purchases)
  <2> DEFINE r == NewRules(rows, text)
             p == PurchaseOf(w, Len(r.rules), text)
             more == Append(rows.purchases, p)
  <2>1. rows' = IF HasLive THEN r ELSE [r EXCEPT !.purchases = Append(@, p)]
    BY <1>6 DEF StartPurchase
  <2>2. /\ r = [rows EXCEPT !.rules = r.rules]
        /\ r.rules \in Seq(RuleTexts) /\ Len(r.rules) = Len(rows.rules) + 1
        /\ r.rules[Len(r.rules)] = text
        /\ \A k \in DOMAIN rows.rules : k \in DOMAIN r.rules /\ r.rules[k] = rows.rules[k]
    BY RulesGrow
  <2> HIDE DEF r
  <2>3. p = [rules |-> Len(r.rules), watch |-> w, live |-> TRUE, judged |-> text]
    BY DEF PurchaseOf
  <2>4. p \in Purchases /\ p.rules = Len(r.rules) /\ p.judged = text
    <3>1. Len(r.rules) \in Nat
      BY <1>0, <2>2
    <3> QED
      BY <2>3, <3>1 DEF Purchases
  <2> HIDE DEF p
  <2>5. /\ more \in Seq(Purchases) /\ Len(more) = Len(rows.purchases) + 1
        /\ DOMAIN more = 1 .. Len(more)
        /\ \A i \in 1 .. Len(rows.purchases) : more[i] = rows.purchases[i]
        /\ more[Len(rows.purchases) + 1] = p
    BY <1>0, <2>4, AppendProperties
  <2> HIDE DEF more
  <2>6. rows' \in {[rows EXCEPT !.rules = r.rules], [rows EXCEPT !.rules = r.rules, !.purchases = more]}
    <3>1. more = Append(rows.purchases, p)
      BY DEF more
    <3>2. [r EXCEPT !.purchases = Append(@, p)] = [r EXCEPT !.purchases = Append(r.purchases, p)]
      OBVIOUS
    <3>3. r.purchases = rows.purchases
      BY <2>2
    <3> QED
      BY <2>1, <2>2, <3>1, <3>2, <3>3
  <2>7. /\ UNCHANGED <<rows.watches, rows.latest>> /\ rows'.rules = r.rules
        /\ rows'.purchases \in {rows.purchases, more}
    BY <2>6
  <2>8. RowTypes'
    <3>1. \A v \in WatchRows : rows'.watches[v] <= Len(rows'.rules)
      BY <1>0, <2>2, <2>7
    <3> QED
      BY <2>2, <2>5, <2>6, <3>1
  <2>9. ASSUME NEW i \in DOMAIN rows'.purchases
        PROVE  /\ rows'.purchases[i].rules \in DOMAIN rows'.rules
               /\ rows'.rules[rows'.purchases[i].rules] = rows'.purchases[i].judged
               /\ \A v \in WatchRows : rows'.watches[v] # rows'.purchases[i].rules
    <3>1. CASE i \in DOMAIN rows.purchases
      <4>1. rows'.purchases[i] = rows.purchases[i]
        BY <1>0, <2>5, <2>7, <3>1
      <4> QED
        BY <2>2, <2>7, <3>1, <4>1 DEF OwnRules
    <3>2. CASE i \notin DOMAIN rows.purchases
      <4>1. rows'.purchases[i] = p
        BY <1>0, <2>5, <2>7, <3>2
      <4>2. Len(r.rules) \in DOMAIN r.rules
        BY <1>0, <2>2
      <4>3. \A v \in WatchRows : rows'.watches[v] # Len(r.rules)
        BY <1>0, <2>2, <2>7
      <4> QED
        BY <2>2, <2>4, <2>7, <4>1, <4>2, <4>3
    <3> QED
      BY <3>1, <3>2
  <2>10. OwnRules'
    BY <2>9 DEF OwnRules
  <2> QED
    BY <1>0, <2>5, <2>7, <2>8, <2>10
<1> QED
  BY <1>1, <1>2, <1>4, <1>5, <1>6 DEF WritesRows

(* Places in a queue are finitely many, and no more than its length.         *)
LEMMA ReturnsAreCounted ==
  ASSUME ReturnsInv
  PROVE  /\ IsFiniteSet(Returns) /\ Cardinality(Returns) \in Nat
         /\ Cardinality(Returns) <= Len(reports)
<1>1. Len(reports) \in Nat /\ DOMAIN reports = 1 .. Len(reports)
  BY DEF ReturnsInv
<1>2. IsFiniteSet(1 .. Len(reports)) /\ Cardinality(1 .. Len(reports)) = Len(reports)
  <2>1. \A n \in Nat : IsFiniteSet(1 .. n) /\ Cardinality(1 .. n) = IF 1 > n THEN 0 ELSE n - 1 + 1
    BY FS_Interval
  <2>2. \A n \in Nat : n = IF 1 > n THEN 0 ELSE n - 1 + 1
    OBVIOUS
  <2> QED
    BY <1>1, <2>1, <2>2
<1>3. Returns \in SUBSET (1 .. Len(reports))
  BY <1>1 DEF Returns
<1>4. IsFiniteSet(Returns) /\ Cardinality(Returns) <= Len(reports)
  BY <1>2, <1>3, FS_Subset
<1> QED
  BY <1>4, FS_CardinalityType

(* The queue of reports without its first.                                   *)
LEMMA ReturnsOfTail ==
  ASSUME ReturnsInv, reports # <<>>, reports' = Tail(reports)
  PROVE  /\ IsFiniteSet(Returns') /\ Cardinality(Returns') \in Nat
         /\ Cardinality(Returns') <= IF "back_in_stock" \in Head(reports).raised
                                    THEN Cardinality(Returns) - 1 ELSE Cardinality(Returns)
<1>1. /\ Len(reports) \in Nat \ {0} /\ DOMAIN reports = 1 .. Len(reports)
      /\ Len(reports') = Len(reports) - 1 /\ DOMAIN reports' = 1 .. Len(reports')
      /\ \A i \in 1 .. Len(reports') : reports'[i] = reports[i + 1]
      /\ Head(reports) = reports[1]
  <2>1. reports \in Seq([by : WatchRows, raised : SUBSET Kinds])
    BY DEF ReturnsInv
  <2>2. /\ Tail(reports) \in Seq([by : WatchRows, raised : SUBSET Kinds])
        /\ Len(Tail(reports)) = Len(reports) - 1
        /\ \A i \in 1 .. Len(Tail(reports)) : Tail(reports)[i] = reports[i + 1]
    BY <2>1, HeadTailProperties
  <2>3. Len(reports) \in Nat \ {0}
    BY <2>1, EmptySeq
  <2>4. Head(reports) = reports[1]
    BY <2>1
  <2> QED
    BY <2>1, <2>2, <2>3, <2>4, LenProperties
<1> DEFINE rest == Returns \ {1}
           next == [i \in Returns' |-> i + 1]
<1>2. next \in Injection(Returns', rest)
  <2>1. \A i \in Returns' : i \in 1 .. Len(reports') /\ i + 1 \in rest
    BY <1>1 DEF Returns
  <2>2. \A i, j \in Returns' : i + 1 = j + 1 => i = j
    BY <2>1
  <2> QED
    BY <2>1, <2>2 DEF Injection, IsInjective
<1>3. /\ IsFiniteSet(rest)
      /\ Cardinality(rest) = IF 1 \in Returns THEN Cardinality(Returns) - 1 ELSE Cardinality(Returns)
  BY ReturnsAreCounted, FS_RemoveElement
<1>4. 1 \in Returns <=> "back_in_stock" \in Head(reports).raised
  BY <1>1 DEF Returns
<1> HIDE DEF rest, next
<1>5. IsFiniteSet(Returns') /\ Cardinality(Returns') <= Cardinality(rest)
  BY <1>2, <1>3, FS_Injection
<1> QED
  BY <1>3, <1>4, <1>5, FS_CardinalityType

(* The queue of reports with one more.                                       *)
LEMMA ReturnsOfAppend ==
  ASSUME ReturnsInv, NEW report \in [by : WatchRows, raised : SUBSET Kinds],
         reports' = Append(reports, report)
  PROVE  Cardinality(Returns') = IF "back_in_stock" \in report.raised
                                 THEN Cardinality(Returns) + 1 ELSE Cardinality(Returns)
<1>1. /\ Len(reports) \in Nat /\ DOMAIN reports = 1 .. Len(reports)
      /\ Len(reports') = Len(reports) + 1 /\ DOMAIN reports' = 1 .. Len(reports')
      /\ \A i \in 1 .. Len(reports) : reports'[i] = reports[i]
      /\ reports'[Len(reports) + 1] = report
  <2>1. reports \in Seq([by : WatchRows, raised : SUBSET Kinds])
    BY DEF ReturnsInv
  <2> QED
    BY <2>1, AppendProperties, LenProperties
<1>2. CASE "back_in_stock" \in report.raised
  <2>1. Returns' = Returns \union {Len(reports) + 1} /\ Len(reports) + 1 \notin Returns
    BY <1>1, <1>2 DEF Returns
  <2> QED
    BY <1>2, <2>1, ReturnsAreCounted, FS_AddElement
<1>3. CASE "back_in_stock" \notin report.raised
  <2>1. Returns' = Returns
    BY <1>1, <1>3 DEF Returns
  <2> QED
    BY <1>3, <2>1
<1> QED
  BY <1>2, <1>3

LEMMA RecordLookStep ==
  ASSUME RecordsInv, RecordLook
  PROVE  RecordsInv'
<1> USE DEF RecordsInv, RowTypes
<1>0. /\ look \in [by : WatchRows \union {"user"}, page : Looks]
      /\ look.page.stock \in {"in", "out", "unknown"} /\ look' = NoLook
      /\ Len(reports) \in Nat /\ Len(reports) < MaxReports
      /\ MaxReports \in Nat /\ news.spells \in Nat
  BY LooksAssumption, RowsAssumption DEF RecordLook, ReturnsInv
<1>1. CASE look.by \in WatchRows /\ rows.watches[look.by] = 0
  <2>1. UNCHANGED <<rows, reports, news>>
    BY <1>1 DEF RecordLook
  <2>2. ReturnsInv'
    BY <1>0, <2>1 DEF ReturnsInv, Returns, OpenSpell
  <2> QED
    BY <2>1, <2>2 DEF OwnRules
<1>2. CASE ~(look.by \in WatchRows /\ rows.watches[look.by] = 0)
  <2> DEFINE raised == Notifications(Terms, InStock(look.page), NoMoney, rows.latest, look.page.seller)
             spells == IF look.page.stock = "out" /\ rows.latest # "out"
                       THEN Min({news.spells + 1, MaxReports + 1}) ELSE news.spells
  <2>1. /\ rows' = [rows EXCEPT !.latest = look.page.stock]
        /\ reports' = IF look.by \notin WatchRows THEN reports
                      ELSE Append(reports, [by |-> look.by, raised |-> raised])
        /\ news' = [news EXCEPT !.spells = spells]
    BY <1>2 DEF RecordLook
  <2>2. raised \in SUBSET Kinds
    BY DEF Notifications, Kinds
  <2>3. "back_in_stock" \in raised <=> look.page.stock = "in" /\ rows.latest = "out"
    BY DEF Notifications, BackInStock, InStock
  <2>4. /\ spells \in Nat
        /\ \/ ~(look.page.stock = "out" /\ rows.latest # "out") /\ spells = news.spells
           \/ /\ look.page.stock = "out" /\ rows.latest # "out"
              /\ spells \in {news.spells + 1, MaxReports + 1}
    <3>1. \A a, b \in Nat : Min({a, b}) \in {a, b}
      <4> TAKE a, b \in Nat
      <4>1. \E x \in {a, b} : \A y \in {a, b} : x <= y
        OBVIOUS
      <4> QED
        BY <4>1 DEF Min
    <3>2. news.spells + 1 \in Nat /\ MaxReports + 1 \in Nat
      BY <1>0
    <3>3. /\ Min({news.spells + 1, MaxReports + 1}) \in {news.spells + 1, MaxReports + 1}
          /\ Min({news.spells + 1, MaxReports + 1}) \in Nat
      BY <3>1, <3>2
    <3> QED
      BY <1>0, <3>3
  <2> HIDE DEF raised, spells
  <2>5. RowTypes' /\ OwnRules'
    <3>1. rows'.rules = rows.rules /\ rows'.watches = rows.watches /\ rows'.purchases = rows.purchases
      BY <2>1
    <3>2. RowTypes'
      BY <1>0, <2>1, <3>1
    <3>3. OwnRules'
      BY <3>1 DEF OwnRules
    <3> QED
      BY <3>2, <3>3
  <2>6. rows'.latest = look.page.stock /\ news'.spells = spells
    BY <2>1 DEF ReturnsInv
  <2>7. /\ news' \in [told : SUBSET Kinds, spells : Nat]
        /\ look' \in [by : WatchRows \union {"user"}, page : Looks] \union {NoLook}
    BY <1>0, <2>1, <2>4 DEF ReturnsInv
  <2>8. /\ Cardinality(Returns) \in Nat /\ Cardinality(Returns) <= Len(reports)
        /\ Cardinality(Returns) + OpenSpell <= news.spells
    BY ReturnsAreCounted DEF ReturnsInv
  <2>9. CASE look.by \notin WatchRows
    <3>1. reports' = reports /\ Returns' = Returns
      BY <2>1, <2>9 DEF Returns
    <3>2. Cardinality(Returns) + OpenSpell' <= spells
      BY <1>0, <2>4, <2>6, <2>8 DEF OpenSpell
    <3>3. ReturnsInv'
      BY <1>0, <2>6, <2>7, <3>1, <3>2 DEF ReturnsInv
    <3> QED
      BY <2>5, <3>3
  <2>10. CASE look.by \in WatchRows
    <3> DEFINE report == [by |-> look.by, raised |-> raised]
    <3>1. report \in [by : WatchRows, raised : SUBSET Kinds] /\ report.raised = raised
      BY <2>2, <2>10
    <3>2. reports' = Append(reports, report)
      BY <2>1, <2>10
    <3> HIDE DEF report
    <3>3. Cardinality(Returns') = IF "back_in_stock" \in raised
                                  THEN Cardinality(Returns) + 1 ELSE Cardinality(Returns)
      BY <3>1, <3>2, ReturnsOfAppend
    <3>4. Cardinality(Returns') + OpenSpell' <= spells
      BY <1>0, <2>3, <2>4, <2>6, <2>8, <3>3 DEF OpenSpell
    <3>5. /\ reports' \in Seq([by : WatchRows, raised : SUBSET Kinds])
          /\ Len(reports') = Len(reports) + 1
      <4>1. reports \in Seq([by : WatchRows, raised : SUBSET Kinds])
        BY DEF ReturnsInv
      <4> QED
        BY <3>1, <3>2, <4>1, AppendProperties
    <3>6. ReturnsInv'
      BY <1>0, <2>6, <2>7, <3>4, <3>5 DEF ReturnsInv
    <3> QED
      BY <2>5, <3>6
  <2> QED
    BY <2>9, <2>10
<1> QED
  BY <1>1, <1>2

LEMMA HandleReportStep ==
  ASSUME RecordsInv, HandleReport
  PROVE  /\ RecordsInv'
         /\ "back_in_stock" \in news'.told => news.spells > 0
<1> DEFINE raised == IF rows.watches[Head(reports).by] = 0 THEN {} ELSE Head(reports).raised
<1>1. /\ reports # <<>> /\ reports' = Tail(reports) /\ UNCHANGED <<rows, look>>
      /\ news' = [told |-> raised, spells |-> IF "back_in_stock" \in raised /\ news.spells > 0
                                             THEN news.spells - 1 ELSE news.spells]
  BY DEF HandleReport
<1>2. /\ Head(reports) \in [by : WatchRows, raised : SUBSET Kinds]
      /\ reports' \in Seq([by : WatchRows, raised : SUBSET Kinds])
      /\ Len(reports') = Len(reports) - 1 /\ Len(reports) \in Nat
  <2>1. reports \in Seq([by : WatchRows, raised : SUBSET Kinds])
    BY DEF RecordsInv, ReturnsInv
  <2> QED
    BY <1>1, <2>1, HeadTailProperties, LenProperties
<1>3. raised \in SUBSET Kinds /\ raised \subseteq Head(reports).raised
  BY <1>2
<1> HIDE DEF raised
<1>4. /\ Cardinality(Returns) \in Nat /\ Cardinality(Returns') \in Nat
      /\ Cardinality(Returns') <= IF "back_in_stock" \in Head(reports).raised
                                 THEN Cardinality(Returns) - 1 ELSE Cardinality(Returns)
      /\ Cardinality(Returns) + OpenSpell <= news.spells /\ news.spells \in Nat
      /\ OpenSpell' = OpenSpell /\ OpenSpell \in {0, 1}
  BY <1>1, ReturnsAreCounted, ReturnsOfTail DEF RecordsInv, ReturnsInv, OpenSpell
<1>5. /\ news'.told = raised
      /\ news'.spells = IF "back_in_stock" \in raised /\ news.spells > 0
                        THEN news.spells - 1 ELSE news.spells
  BY <1>1
<1>6. "back_in_stock" \in raised => news.spells > 0
  BY <1>3, <1>4
<1>7. Cardinality(Returns') + OpenSpell' <= news'.spells
  BY <1>3, <1>4, <1>5
<1>8. ReturnsInv'
  <2>1. news'.spells \in Nat
    BY <1>4, <1>5
  <2>2. news' \in [told : SUBSET Kinds, spells : Nat]
    BY <1>1, <1>3, <1>5, <2>1
  <2>3. Len(reports') <= MaxReports /\ (look' # NoLook => Len(reports') < MaxReports)
    BY <1>1, <1>2, RowsAssumption DEF RecordsInv, ReturnsInv
  <2>4. look' \in [by : WatchRows \union {"user"}, page : Looks] \union {NoLook}
    BY <1>1 DEF RecordsInv, ReturnsInv
  <2> QED
    BY <1>2, <1>7, <2>2, <2>3, <2>4 DEF ReturnsInv
<1>9. RowTypes' /\ OwnRules'
  BY <1>1 DEF RecordsInv, RowTypes, OwnRules
<1> QED
  BY <1>5, <1>6, <1>8, <1>9 DEF RecordsInv

LEMMA RecordsStep == RecordsInv /\ [RecordsNext]_recordVars => RecordsInv'
<1> SUFFICES ASSUME RecordsInv, [RecordsNext]_recordVars
             PROVE  RecordsInv'
  OBVIOUS
<1>1. CASE WritesRows
  <2>1. RowTypes' /\ OwnRules' /\ rows'.latest = rows.latest
    BY <1>1, RowsStep DEF RecordsInv
  <2>2. UNCHANGED <<look, reports, news>>
    BY <1>1 DEF WritesRows, CreateWatch, EditRules, DeleteWatch, StartPurchase, EndPurchase
  <2>3. ReturnsInv'
    BY <2>1, <2>2 DEF RecordsInv, ReturnsInv, Returns, OpenSpell
  <2> QED
    BY <2>1, <2>3 DEF RecordsInv
<1>2. ASSUME UNCHANGED <<rows, reports, news>>,
             look' \in [by : WatchRows \union {"user"}, page : Looks] \union {NoLook},
             look' # NoLook => Len(reports) < MaxReports
      PROVE  RecordsInv'
  BY <1>2 DEF RecordsInv, RowTypes, OwnRules, ReturnsInv, Returns, OpenSpell
<1>3. ASSUME NEW by \in WatchRows \union {"user"}, BeginLook(by)
      PROVE  RecordsInv'
  BY <1>2, <1>3 DEF BeginLook
<1>4. CASE FailLook
  BY <1>2, <1>4 DEF FailLook
<1>5. CASE LoseLooks
  <2>1. /\ look' = NoLook /\ reports' = <<>> /\ UNCHANGED rows
        /\ news' = [news EXCEPT !.told = {}]
    BY <1>5 DEF LoseLooks
  <2>2. <<>> \in Seq([by : WatchRows, raised : SUBSET Kinds]) /\ Len(<<>>) = 0
    BY EmptySeq
  <2>3. Returns' = {} /\ OpenSpell' = OpenSpell /\ OpenSpell \in {0, 1}
    BY <2>1 DEF Returns, OpenSpell
  <2>4. Cardinality(Returns) \in Nat
    BY ReturnsAreCounted DEF RecordsInv
  <2>5. news'.spells = news.spells /\ news' \in [told : SUBSET Kinds, spells : Nat]
    BY <2>1 DEF RecordsInv, ReturnsInv
  <2>6. Cardinality(Returns') + OpenSpell' <= news'.spells
    BY <2>3, <2>4, <2>5, FS_EmptySet DEF RecordsInv, ReturnsInv
  <2>7. ReturnsInv'
    BY <2>1, <2>2, <2>5, <2>6, RowsAssumption DEF ReturnsInv
  <2> QED
    BY <2>1, <2>7 DEF RecordsInv, RowTypes, OwnRules
<1>6. CASE UNCHANGED recordVars
  BY <1>2, <1>6 DEF recordVars, RecordsInv, ReturnsInv
<1> QED
  BY <1>1, <1>3, <1>4, <1>5, <1>6, RecordLookStep, HandleReportStep DEF RecordsNext, WritesRows

(* RecordsInv is an inductive invariant of the rows and the reports.         *)
THEOREM RecordsInvariance == RecordsSpec => []RecordsInv
<1> QED
  BY RecordsStart, RecordsStep, PTL DEF RecordsSpec

(* No edit and no removal of a watch, and no purchase that is refused, takes *)
(* a purchase or its rules off the record (start, ON DELETE SET NULL).       *)
THEOREM RulesStayOnRecord == RecordsSpec => PurchasesKeepTheirRules
<1>1. ASSUME RecordsInv, RecordsInv', [RecordsNext]_recordVars
      PROVE  /\ Len(rows'.purchases) >= Len(rows.purchases)
             /\ \A i \in DOMAIN rows'.purchases :
                   rows'.rules[rows'.purchases[i].rules] = rows'.purchases[i].judged
  <2>1. Len(rows.purchases) \in Nat
    BY <1>1 DEF RecordsInv, RowTypes
  <2>4. \A i \in DOMAIN rows'.purchases :
           rows'.rules[rows'.purchases[i].rules] = rows'.purchases[i].judged
    BY <1>1 DEF RecordsInv, OwnRules
  <2>2. CASE WritesRows
    <3>1. RowTypes /\ OwnRules
      BY <1>1 DEF RecordsInv
    <3>2. Len(rows'.purchases) >= Len(rows.purchases)
      BY <2>2, <3>1, RowsStep
    <3> QED
      BY <2>4, <3>2
  <2>3. CASE ~WritesRows
    <3>1. UNCHANGED rows \/ \E stock : rows' = [rows EXCEPT !.latest = stock]
      BY <1>1, <2>3 DEF RecordsNext, WritesRows, BeginLook, RecordLook, FailLook, HandleReport,
                        LoseLooks, recordVars
    <3>2. rows'.purchases = rows.purchases
      BY <1>1, <3>1 DEF RecordsInv, RowTypes
    <3> QED
      BY <2>1, <2>4, <3>2
  <2> QED
    BY <2>2, <2>3
<1>2. RecordsInv /\ RecordsInv' /\ [RecordsNext]_recordVars
        => [/\ Len(rows'.purchases) >= Len(rows.purchases)
            /\ \A i \in DOMAIN rows'.purchases :
                  rows'.rules[rows'.purchases[i].rules] = rows'.purchases[i].judged]_recordVars
  BY <1>1
<1> QED
  BY <1>2, RecordsInvariance, PTL DEF RecordsSpec, PurchasesKeepTheirRules

(* One alert for one return to stock, whichever watch looks and however many *)
(* reports wait (latest_observation, evaluate_check).                        *)
THEOREM ReturnIsToldOnce == RecordsSpec => OneAlertPerReturn
<1>1. ASSUME RecordsInv, [RecordsNext]_recordVars,
             reports # <<>>, reports' = Tail(reports), "back_in_stock" \in news'.told
      PROVE  news.spells > 0
  <2>1. /\ Len(reports) \in Nat /\ Len(reports') = Len(reports) - 1
        /\ \A report \in [by : WatchRows, raised : SUBSET Kinds] :
              Len(Append(reports, report)) = Len(reports) + 1
    <3>1. reports \in Seq([by : WatchRows, raised : SUBSET Kinds])
      BY <1>1 DEF RecordsInv, ReturnsInv
    <3> QED
      BY <1>1, <3>1, HeadTailProperties, AppendProperties, LenProperties
  <2>2. reports' # reports
    BY <2>1
  <2>3. ~RecordLook
    <3> SUFFICES ASSUME RecordLook
                 PROVE  FALSE
      OBVIOUS
    <3> DEFINE raised == Notifications(Terms, InStock(look.page), NoMoney, rows.latest, look.page.seller)
    <3>1. look.by \in WatchRows /\ reports' = Append(reports, [by |-> look.by, raised |-> raised])
      BY <2>2 DEF RecordLook
    <3>2. raised \in SUBSET Kinds
      BY DEF Notifications, Kinds
    <3> HIDE DEF raised
    <3>3. [by |-> look.by, raised |-> raised] \in [by : WatchRows, raised : SUBSET Kinds]
      BY <3>1, <3>2
    <3> QED
      BY <2>1, <3>1, <3>3
  <2>4. ~LoseLooks
    BY <1>1 DEF LoseLooks, RecordsInv, ReturnsInv
  <2>5. HandleReport
    BY <1>1, <2>2, <2>3, <2>4 DEF RecordsNext, CreateWatch, EditRules, DeleteWatch, BeginLook,
                                  FailLook, StartPurchase, EndPurchase, recordVars
  <2> QED
    BY <1>1, <2>5, HandleReportStep
<1>2. RecordsInv /\ [RecordsNext]_recordVars
        => [reports # <<>> /\ reports' = Tail(reports) /\ "back_in_stock" \in news'.told
              => news.spells > 0]_recordVars
  BY <1>1
<1> QED
  BY <1>2, RecordsInvariance, PTL DEF RecordsSpec, OneAlertPerReturn
=============================================================================
