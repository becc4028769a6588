--------------------------- MODULE StorageInvariant ---------------------------
(***************************************************************************)
(* The inductive invariants of what is on the disk: the database file, its *)
(* rows, and the log of notifications.                                     *)
(***************************************************************************)
EXTENDS DatabaseFile, Records, Notifier

-----------------------------------------------------------------------------
(* The database file.                                                        *)

Files == [there : BOOLEAN, good : BOOLEAN, version : Nat, schema : Nat, rows : Nat, wal : Nat]
Sound == {file \in Files : file.schema = file.version}
Phases == {"off", "opening", "failed", "up", "backup", "migrate", "statements", "version",
           "move", "copy"}

DatabaseTypes ==
    /\ disk \in [main : Sound, damaged : Sound, backups : Seq(Sound), kept : Nat, restores : Nat]
    /\ program \in [at : Phases, version : Nat, schema : Nat, restored : BOOLEAN]

(* What was kept is in the live file before the first restore, and in the    *)
(* damaged one after it.                                                     *)
KeptSomewhere ==
    /\ disk.restores = 0 => disk.main.rows >= disk.kept /\ (disk.kept > 0 => disk.main.there)
    /\ disk.restores = 1 /\ disk.kept > 0 => disk.damaged.there /\ disk.damaged.rows >= disk.kept
    /\ At("copy") => disk.restores > 0

DatabaseInv ==
    /\ DatabaseTypes /\ KeptSomewhere
    /\ program.at \in {"backup", "migrate", "statements", "version", "up"} => disk.main.there
    /\ At("up") => disk.main.version = program.version
    /\ At("version") => program.schema = disk.main.version + 1
    /\ At("move") \/ At("copy") => disk.backups # <<>>

-----------------------------------------------------------------------------
(* Rows.                                                                     *)

Purchases == [rules : Nat, watch : WatchRows \union {"none"}, live : BOOLEAN, judged : RuleTexts]

RowTypes ==
    /\ rows \in [rules : Seq(RuleTexts), watches : [WatchRows -> Nat], purchases : Seq(Purchases),
                 latest : {"never", "in", "out", "unknown"}]
    /\ \A w \in WatchRows : rows.watches[w] <= Len(rows.rules)

(* A purchase has rules of its own.                                          *)
OwnRules ==
    \A i \in DOMAIN rows.purchases :
        /\ rows.purchases[i].rules \in DOMAIN rows.rules
        /\ rows.rules[rows.purchases[i].rules] = rows.purchases[i].judged
        /\ \A w \in WatchRows : rows.watches[w] # rows.purchases[i].rules

(* The reports that bring news of a return, and the spells that allow it.    *)
Returns == {i \in DOMAIN reports : "back_in_stock" \in reports[i].raised}
OpenSpell == IF rows.latest = "out" THEN 1 ELSE 0

Kinds == {"seller_changed", "back_in_stock", "target_price_reached"}

ReturnsInv ==
    /\ reports \in Seq([by : WatchRows, raised : SUBSET Kinds])
    /\ look \in [by : WatchRows \union {"user"}, page : Looks] \union {NoLook}
    /\ news \in [told : SUBSET Kinds, spells : Nat]
    /\ Len(reports) <= MaxReports
    /\ look # NoLook => Len(reports) < MaxReports
    /\ Cardinality(Returns) + OpenSpell <= news.spells

RecordsInv == RowTypes /\ OwnRules /\ ReturnsInv

-----------------------------------------------------------------------------
(* Notifications.                                                            *)

NoticeTypes ==
    /\ notices \in [log : [Keys -> 0 .. Window], off : SUBSET (AlwaysOn \union OtherKinds),
                    enabled : BOOLEAN,
                    pending : News \union {Nothing}, method : {"none", "toast", "tray"}]
    /\ told \in [News -> 0 .. Window]

(* The log has the age of the latest of the news of its key that the user    *)
(* was told, but for what is on screen and not in the log yet.               *)
LogIsTold ==
    \A n \in News : n.kind \notin AlwaysOn =>
        /\ IF notices.pending = n THEN told[n] = 0 /\ notices.log[DedupeKey(n)] = Window
                                  ELSE told[n] >= notices.log[DedupeKey(n)]
        /\ notices.log[DedupeKey(n)] < Window =>
              \E m \in News : DedupeKey(m) = DedupeKey(n) /\ told[m] = notices.log[DedupeKey(n)]

NoticeInv == NoticeTypes /\ LogIsTold
=============================================================================
