-------------------------------- MODULE Records --------------------------------
(***************************************************************************)
(* The rows behind the watch list of one product: rule sets, watches,      *)
(* observations and purchases, with the references between them            *)
(* (database/migrations/m0001_initial.py, the repositories of watches,     *)
(* rules, products and purchases), and the steps that write them: the      *)
(* user's, those of a look at the product's page, and those of its report  *)
(* (monitor_service.py, product_service.py, main_window.py).               *)
(***************************************************************************)
EXTENDS CheckDecision

CONSTANTS WatchRows,        \* names for watches
          RuleTexts,        \* what a rule set may say
          Looks,            \* what a page may say: stock, price, seller
          MaxRules,         \* bounds the rule sets
          MaxPurchases,     \* bounds the purchases
          MaxReports        \* bounds the reports that wait for the GUI thread

ASSUME RowsAssumption == "none" \notin WatchRows /\ MaxReports \in Nat
ASSUME LooksAssumption == \A page \in Looks : page.stock \in {"in", "out", "unknown"}

VARIABLES rows,             \* the tables
          look,             \* the look at the page that is under way
          reports,          \* looks of watches that the GUI thread has not handled yet
          news              \* what the last report raised

recordVars == <<rows, look, reports, news>>

NoLook == [by |-> "none", page |-> [stock |-> "unknown"]]

\* A rule set is known by its place in the table, and 0 is none.
\* "latest" is the stock of the newest row of price_history; "spells" counts,
\* for the properties only, the times that the shelf was found empty and that
\* no news of a return has answered yet.
RecordsIdle ==
    /\ rows = [rules |-> <<>>, watches |-> [w \in WatchRows |-> 0],
               purchases |-> <<>>, latest |-> "never"]
    /\ look = NoLook /\ reports = <<>>
    /\ news = [told |-> {}, spells |-> 0]

RecordsInit == RecordsIdle

-----------------------------------------------------------------------------
RoomForRules == Len(rows.rules) < MaxRules
NewRules(r, text) == [r EXCEPT !.rules = Append(@, text)]

HasLive == \E i \in DOMAIN rows.purchases : rows.purchases[i].live

-----------------------------------------------------------------------------
(* The user and the watches.                                               *)

\* A rule set of its own, then the watch that refers to it.
CreateWatch(w, text) ==
    /\ rows.watches[w] = 0 /\ RoomForRules
    /\ w \notin {look.by} \union {r.by : r \in Range(reports)}
    /\ \A i \in DOMAIN rows.purchases : rows.purchases[i].watch # w
    /\ LET r == NewRules(rows, text)
       IN  rows' \in {[r EXCEPT !.watches[w] = Len(r.rules)], r}
    /\ UNCHANGED <<look, reports, news>>

\* In place.
EditRules(w, text) ==
    /\ rows.watches[w] # 0
    /\ rows' = [rows EXCEPT !.rules[rows.watches[w]] = text]
    /\ UNCHANGED <<look, reports, news>>

\* The references of purchases and observations to the watch become NULL; its
\* rule set stays behind.
DeleteWatch_Cascades(w) ==
    /\ rows.watches[w] # 0
    /\ rows' = [rows EXCEPT !.watches[w] = 0,
                            !.purchases = SelectSeq(@, LAMBDA p : p.watch # w)]
    /\ UNCHANGED <<look, reports, news>>

DeleteWatch(w) ==
    /\ rows.watches[w] # 0
    /\ rows' = [rows EXCEPT !.watches[w] = 0,
                            !.purchases = [i \in DOMAIN @ |->
                                IF @[i].watch = w THEN [@[i] EXCEPT !.watch = "none"] ELSE @[i]]]
    /\ UNCHANGED <<look, reports, news>>

-----------------------------------------------------------------------------
(* A look at the page, by the check of a watch, or for the user.           *)

BeginLook(by) ==
    /\ look = NoLook /\ Len(reports) < MaxReports
    /\ by \in WatchRows => rows.watches[by] # 0
    /\ \E page \in Looks : look' = [by |-> by, page |-> page]
    /\ UNCHANGED <<rows, reports, news>>

InStock(page) == page.stock = "in"
Terms == [action |-> "notify", target |-> NoMoney, seller |-> "Amazon.com"]

\* The latest observation is read, and the new one written: it refers to the
\* watch, and cannot be written when the watch has been removed meanwhile.
RecordLook ==
    /\ look # NoLook
    /\ look' = NoLook
    /\ IF look.by \in WatchRows /\ rows.watches[look.by] = 0
       THEN UNCHANGED <<rows, reports, news>>
       ELSE /\ rows' = [rows EXCEPT !.latest = look.page.stock]
            /\ reports' = IF look.by \notin WatchRows THEN reports
                          ELSE Append(reports, [by |-> look.by,
                                   raised |-> Notifications(Terms, InStock(look.page), NoMoney,
                                                            rows.latest, look.page.seller)])
            /\ news' = [news EXCEPT !.spells = IF look.page.stock = "out" /\ rows.latest # "out"
                                               THEN Min({@ + 1, MaxReports + 1}) ELSE @]

FailLook ==
    /\ look # NoLook
    /\ look' = NoLook
    /\ UNCHANGED <<rows, reports, news>>

\* The report is dropped when the watch is gone.
HandleReport ==
    /\ reports # <<>>
    /\ reports' = Tail(reports)
    /\ LET raised == IF rows.watches[Head(reports).by] = 0 THEN {} ELSE Head(reports).raised
       IN  news' = [told |-> raised, spells |-> IF "back_in_stock" \in raised /\ news.spells > 0
                                                THEN news.spells - 1 ELSE news.spells]
    /\ UNCHANGED <<rows, look>>

\* The program stops.
LoseLooks ==
    /\ look' = NoLook /\ reports' = <<>>
    /\ news' = [news EXCEPT !.told = {}]
    /\ UNCHANGED rows

-----------------------------------------------------------------------------
(* Purchases.                                                              *)

\* It remembers, for the properties only, what the rules said that it was
\* started with.
PurchaseOf(w, id, text) == [rules |-> id, watch |-> w, live |-> TRUE, judged |-> text]

\* A purchase gets a copy of the rules of its watch, or those the user made
\* for it.  While another is live the row is refused, and the copy stays.
StartPurchase_SharedRules(w, text) ==
    /\ RoomForRules /\ Len(rows.purchases) < MaxPurchases /\ ~HasLive
    /\ w \in WatchRows /\ rows.watches[w] # 0
    /\ text = rows.rules[rows.watches[w]]
    /\ rows' = [rows EXCEPT !.purchases = Append(@, PurchaseOf(w, rows.watches[w], text))]
    /\ UNCHANGED <<look, reports, news>>

StartPurchase(w, text) ==
    /\ RoomForRules /\ Len(rows.purchases) < MaxPurchases
    /\ w \in WatchRows => rows.watches[w] # 0 /\ text = rows.rules[rows.watches[w]]
    /\ LET r == NewRules(rows, text)
       IN  rows' = IF HasLive THEN r
                   ELSE [r EXCEPT !.purchases = Append(@, PurchaseOf(w, Len(r.rules), text))]
    /\ UNCHANGED <<look, reports, news>>

EndPurchase ==
    /\ HasLive
    /\ rows' = [rows EXCEPT !.purchases = [i \in DOMAIN @ |-> [@[i] EXCEPT !.live = FALSE]]]
    /\ UNCHANGED <<look, reports, news>>

RecordsNext ==
    \/ \E w \in WatchRows, text \in RuleTexts : CreateWatch(w, text) \/ EditRules(w, text)
    \/ \E w \in WatchRows : DeleteWatch(w)
    \/ \E by \in WatchRows \union {"user"} : BeginLook(by)
    \/ RecordLook \/ FailLook \/ HandleReport \/ LoseLooks
    \/ \E w \in WatchRows \union {"none"}, text \in RuleTexts : StartPurchase(w, text)
    \/ EndPurchase

RecordsSpec == RecordsInit /\ [][RecordsNext]_recordVars

-----------------------------------------------------------------------------
\* A return to stock is news at most once: after "back in stock" an empty
\* shelf must be seen again before there is more such news, whichever watch of
\* the product looks, whoever looks in between, and however often a look
\* cannot tell (latest_observation, record_observation, evaluate_check).
OneAlertPerReturn ==
    [][reports # <<>> /\ reports' = Tail(reports) /\ "back_in_stock" \in news'.told
          => news.spells > 0]_recordVars

\* What was bought and under which rules stays on record: neither editing nor
\* removing a watch, nor a purchase that is refused, takes a purchase away or
\* changes the rules it was judged by (the copy of start, and ON DELETE SET
\* NULL).
PurchasesKeepTheirRules ==
    [][/\ Len(rows'.purchases) >= Len(rows.purchases)
       /\ \A i \in DOMAIN rows'.purchases :
             rows'.rules[rows'.purchases[i].rules] = rows'.purchases[i].judged]_recordVars

=============================================================================
