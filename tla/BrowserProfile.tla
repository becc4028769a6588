---------------------------- MODULE BrowserProfile ----------------------------
(***************************************************************************)
(* The app's own browser and its profile (app/automation/                  *)
(* browser_manager.py) and what the worker thread does around each task    *)
(* (run, _execute, _wrap_unexpected and _tidy_up of browser_worker.py).    *)
(*                                                                         *)
(* A process is a browser: "own" is the one behind the context, "orphan"   *)
(* one that a killed run of the program left, "stranger" the user's own    *)
(* Chrome, which uses another profile.  Chromium lets one process hold a   *)
(* profile.                                                                *)
(***************************************************************************)
EXTENDS FiniteSets

VARIABLES browser,          \* what is on the disk, and what runs
          manager           \* BrowserManager, and the worker thread that owns it

browserVars == <<browser, manager>>

Tasks == {"work", "clear", "repair"}

\* "memory" is a sign-in that the process behind the profile has not yet
\* written to it; "cleared" is for the properties only.
NoBrowser == [installed |-> FALSE, procs |-> {}, stored |-> FALSE, memory |-> FALSE,
              crashed |-> FALSE, cleared |-> FALSE]

\* "held" is _context, "driver" _playwright; "at" is where the thread is in
\* start(), "task" what it starts the browser for.  "closed" is for the
\* properties only: the user has closed the window during this task.
Stopped == [held |-> FALSE, driver |-> FALSE, at |-> "stopped", task |-> "none",
            error |-> "none", closed |-> FALSE]

BrowserIdle == browser = NoBrowser /\ manager = Stopped

BrowserInit ==
    /\ \E installed \in BOOLEAN, others \in SUBSET {"stranger"} :
          browser = [NoBrowser EXCEPT !.installed = installed, !.procs = others]
    /\ manager = Stopped

-----------------------------------------------------------------------------
OfProfile == {"own", "orphan"}
InUse == browser.procs \intersect OfProfile # {}

\* Has the browser behind the context gone?
Dead == "own" \notin browser.procs

\* A browser that closes by itself writes what it knows to its profile; one
\* that is killed does not, and leaves the crash flag.
ClosedIn(b, p) ==
    [b EXCEPT !.procs = @ \ {p},
              !.stored = @ \/ b.memory, !.memory = FALSE, !.crashed = FALSE]
KilledIn(b, victims) ==
    [b EXCEPT !.procs = @ \ victims,
              !.memory = @ /\ victims \intersect OfProfile = {},
              !.crashed = @ \/ victims \intersect b.procs \intersect OfProfile # {}]

\* BrowserManager.stop: a context whose browser has gone fails to close.
StoppedIn(b) == IF manager.held /\ "own" \in b.procs THEN ClosedIn(b, "own") ELSE b

\* _terminate_processes_using_profile: by the profile on the command line,
\* of the processes that it can list and end.
Victims_AnyBrowser == SUBSET browser.procs
Victims == SUBSET (browser.procs \intersect OfProfile)

-----------------------------------------------------------------------------
(* The thread, its tasks and start().                                      *)

Finish(error) == manager' = [manager EXCEPT !.at = "idle", !.task = "none", !.error = error]

Run ==
    /\ manager.at = "stopped"
    /\ manager' = [manager EXCEPT !.at = "ensure", !.task = "none", !.closed = FALSE]
    /\ UNCHANGED browser

Execute(task) ==
    /\ manager.at = "idle"
    /\ manager' = [manager EXCEPT !.at = "ensure", !.task = task, !.error = "none", !.closed = FALSE]
    /\ UNCHANGED browser

Install ==
    /\ manager.at \in {"ensure", "repairing"}
    /\ manager.at = "ensure" => ~browser.installed
    /\ \/ /\ browser' = [browser EXCEPT !.installed = TRUE]
          /\ IF manager.at = "ensure" THEN manager' = [manager EXCEPT !.at = "start"] ELSE Finish("none")
       \/ Finish("browser_unavailable") /\ UNCHANGED browser

\* A context that is held is returned as it is.
StartBrowser ==
    /\ \/ manager.at = "ensure" /\ browser.installed
       \/ manager.at = "start"
    /\ manager' = IF manager.held THEN [manager EXCEPT !.at = "ready"]
                  ELSE [manager EXCEPT !.at = "launch", !.driver = TRUE]
    /\ UNCHANGED browser

Launched ==
    /\ browser' = [browser EXCEPT !.procs = @ \union {"own"}]
    /\ manager' = [manager EXCEPT !.at = "ready", !.held = TRUE]

LaunchFails(error) ==
    /\ manager' = [manager EXCEPT !.at = "idle", !.task = "none", !.error = error, !.driver = FALSE]
    /\ UNCHANGED browser

Launch ==
    /\ manager.at = "launch"
    /\ IF InUse THEN manager' = [manager EXCEPT !.at = "recover"] /\ UNCHANGED browser
       ELSE Launched \/ LaunchFails("browser_unavailable")

\* _recover_profile_lock; the crash flags are cleared whether or not it ended
\* a process.
Recover ==
    /\ manager.at = "recover"
    /\ \E victims \in Victims : browser' = [KilledIn(browser, victims) EXCEPT !.crashed = FALSE]
    /\ manager' = [manager EXCEPT !.at = "relaunch"]

\* Whatever goes wrong the second time counts as a locked profile.
Relaunch ==
    /\ manager.at = "relaunch"
    /\ \/ ~InUse /\ Launched
       \/ LaunchFails("browser_profile_locked")

\* A task that works on the page: page() opens one when there is none, and
\* raises when there is no browser.  The tabs that the task leaves open are
\* closed at its end, and not counted here.
UsePage ==
    /\ manager.at = "ready" /\ manager.task = "work"
    /\ IF Dead THEN Finish("browser_closed_by_user") /\ UNCHANGED browser
       ELSE /\ Finish("none")
            /\ \E signsIn \in BOOLEAN :
                  browser' = [browser EXCEPT !.memory = @ \/ signsIn, !.cleared = @ /\ ~signsIn]

\* The thread has prepared its browser.
BrowserReady ==
    /\ manager.at = "ready" /\ manager.task = "none"
    /\ Finish("none")
    /\ UNCHANGED browser

StartRepair ==
    /\ manager.at = "ready" /\ manager.task = "repair"
    /\ manager' = [manager EXCEPT !.at = "repairing"]
    /\ UNCHANGED browser

\* clear_profile: stop, end what is left, delete the directory, as far as its
\* files can be deleted.
Cleared(b, deleted) ==
    [b EXCEPT !.stored = @ /\ ~deleted, !.crashed = @ /\ ~deleted, !.cleared = @ \/ deleted]

ClearProfile_BrowserKept ==
    /\ manager.at = "ready" /\ manager.task = "clear"
    /\ \E deleted \in BOOLEAN : browser' = Cleared(browser, deleted)
    /\ Finish("none")

ClearProfile ==
    /\ manager.at = "ready" /\ manager.task = "clear"
    /\ \E victims \in Victims, deleted \in BOOLEAN :
          LET ended == KilledIn(StoppedIn(browser), victims)
          IN  browser' = Cleared(ended, deleted)
    /\ manager' = [manager EXCEPT !.at = "idle", !.task = "none", !.error = "none",
                                  !.held = FALSE, !.driver = FALSE]

\* The end of the thread.
StopBrowser ==
    /\ manager.at = "idle"
    /\ browser' = StoppedIn(browser)
    /\ manager' = Stopped

-----------------------------------------------------------------------------
(* The world.                                                              *)

\* The user closes a window: the app's browser, or one that was left over.
CloseWindow(p) ==
    /\ p \in browser.procs
    /\ browser' = IF p = "stranger" THEN [browser EXCEPT !.procs = @ \ {p}] ELSE ClosedIn(browser, p)
    /\ manager' = IF p = "own" THEN [manager EXCEPT !.closed = TRUE] ELSE manager

OpenStranger ==
    /\ browser' = [browser EXCEPT !.procs = @ \union {"stranger"}]
    /\ UNCHANGED manager

\* The program is killed; its browser may go on without it.
ProgramDies ==
    /\ manager.at # "stopped"
    /\ manager' = Stopped
    /\ browser' \in {KilledIn(browser, {"own"}),
                     [browser EXCEPT !.procs = {IF p = "own" THEN "orphan" ELSE p : p \in @}]}

BrowserNext ==
    \/ Run \/ Install \/ StartBrowser \/ Launch \/ Recover \/ Relaunch \/ UsePage
    \/ BrowserReady \/ StartRepair \/ ClearProfile \/ StopBrowser
    \/ OpenStranger \/ ProgramDies
    \/ \E task \in Tasks : Execute(task)
    \/ \E p \in OfProfile \union {"stranger"} : CloseWindow(p)

BrowserSpec == BrowserInit /\ [][BrowserNext]_browserVars

-----------------------------------------------------------------------------
\* The user's own Chrome is never ended by the app, whatever the app does to
\* free its profile (_terminate_processes_using_profile).
StrangersAreLeftAlone ==
    [][CloseWindow("stranger") \/ browser.procs \ OfProfile \subseteq browser'.procs]_browserVars

\* Once Clear session has deleted the profile, no sign-in is stored in it
\* until the user signs in again: no browser that was still running writes it
\* back when it closes, be it of this run or of one that was killed.
ClearedStaysCleared == browser.cleared => ~browser.stored

\* A task fails because "the browser was closed" only if the user closed it
\* during that task: closing the window after "Signed in. You can close the
\* browser window" does not break the next one.
RetryAfterClosingWorks ==
    manager.error = "browser_closed_by_user" => manager.closed

=============================================================================
