------------------------------- MODULE MCProgram -------------------------------
(***************************************************************************)
(* The components around the purchase workflow, for TLC.  They share no    *)
(* state that these models keep, so TLC takes the program one part at a    *)
(* time: "part" says which one moves, and the others rest.                 *)
(***************************************************************************)
EXTENDS WatchRefinement, MCPages, Records, SignIn, BrowserProfile, Notifier, DatabaseFile, Launch

CONSTANTS w1, p1, v1, v2

VARIABLE part

-----------------------------------------------------------------------------
(* The instances.                                                          *)

OneProduct == [w \in Watches |-> p1]
Cheap == [inStock |-> TRUE, price |-> USD(5), passed |-> TRUE]
SoldOut == [inStock |-> FALSE, price |-> NoMoney, passed |-> FALSE]
BuyOrNot == {Cheap, SoldOut}

Seen == {[stock |-> stock, seller |-> "Amazon.com"] : stock \in {"in", "out", "unknown"}}

TheNews == {[kind |-> "target_price_reached", subject |-> "w1", detail |-> "10"],
            [kind |-> "target_price_reached", subject |-> "w1", detail |-> "9"],
            [kind |-> "purchase_blocked", subject |-> "p1", detail |-> "none"],
            [kind |-> "monitoring_error", subject |-> "w1", detail |-> "no price"],
            [kind |-> "monitoring_error", subject |-> "w2", detail |-> "rate limited"]}
OneTitle == [w \in {"w1", "w2"} |-> "Drill"]

-----------------------------------------------------------------------------
(* One part at a time.                                                     *)

offPage == <<inspectionVars, checkoutVars>>
programVars == <<part, vars, offPage, recordVars, signInVars, browserVars, noticeVars,
                 databaseVars, copies>>

WatchIdle == Init /\ enabled = FALSE

ProgramInit ==
    \/ /\ part = "watch" /\ Init
       /\ InspectionIdle /\ CheckoutIdle /\ RecordsIdle /\ SignInIdle
       /\ BrowserIdle /\ NoticeIdle /\ DatabaseIdle /\ LaunchIdle
    \/ /\ part = "inspection" /\ InspectionInit
       /\ WatchIdle /\ CheckoutIdle /\ RecordsIdle /\ SignInIdle
       /\ BrowserIdle /\ NoticeIdle /\ DatabaseIdle /\ LaunchIdle
    \/ /\ part = "checkout" /\ CheckoutInit
       /\ WatchIdle /\ InspectionIdle /\ RecordsIdle /\ SignInIdle
       /\ BrowserIdle /\ NoticeIdle /\ DatabaseIdle /\ LaunchIdle
    \/ /\ part = "signIn" /\ SignInInit
       /\ WatchIdle /\ InspectionIdle /\ CheckoutIdle /\ RecordsIdle
       /\ BrowserIdle /\ NoticeIdle /\ DatabaseIdle /\ LaunchIdle
    \/ /\ part = "browser" /\ BrowserInit
       /\ WatchIdle /\ InspectionIdle /\ CheckoutIdle /\ RecordsIdle
       /\ SignInIdle /\ NoticeIdle /\ DatabaseIdle /\ LaunchIdle
    \/ /\ part \in {"records", "notices", "database", "launch"}
       /\ RecordsInit /\ NoticeInit /\ DatabaseInit /\ LaunchInit
       /\ WatchIdle /\ InspectionIdle /\ CheckoutIdle /\ SignInIdle /\ BrowserIdle

WatchPart == part = "watch" /\ Next
    /\ UNCHANGED <<part, offPage, recordVars, signInVars, browserVars, noticeVars, databaseVars, copies>>
InspectionPart == part = "inspection" /\ InspectionNext
    /\ UNCHANGED <<part, vars, checkoutVars, recordVars, signInVars, browserVars, noticeVars, databaseVars, copies>>
CheckoutPart == part = "checkout" /\ CheckoutNext
    /\ UNCHANGED <<part, vars, inspectionVars, recordVars, signInVars, browserVars, noticeVars, databaseVars, copies>>
RecordsPart == part = "records" /\ RecordsNext
    /\ UNCHANGED <<part, vars, offPage, signInVars, browserVars, noticeVars, databaseVars, copies>>
SignInPart == part = "signIn" /\ SignInNext
    /\ UNCHANGED <<part, vars, offPage, recordVars, browserVars, noticeVars, databaseVars, copies>>
BrowserPart == part = "browser" /\ BrowserNext
    /\ UNCHANGED <<part, vars, offPage, recordVars, signInVars, noticeVars, databaseVars, copies>>
NoticesPart == part = "notices" /\ NoticeNext
    /\ UNCHANGED <<part, vars, offPage, recordVars, signInVars, browserVars, databaseVars, copies>>
DatabasePart == part = "database" /\ DatabaseNext
    /\ UNCHANGED <<part, vars, offPage, recordVars, signInVars, browserVars, noticeVars, copies>>
LaunchPart == part = "launch" /\ LaunchNext
    /\ UNCHANGED <<part, vars, offPage, recordVars, signInVars, browserVars, noticeVars, databaseVars>>

ProgramNext ==
    \/ WatchPart \/ InspectionPart \/ CheckoutPart \/ RecordsPart \/ SignInPart
    \/ BrowserPart \/ NoticesPart \/ DatabasePart \/ LaunchPart

ProgramSpec == ProgramInit /\ [][ProgramNext]_programVars

=============================================================================
