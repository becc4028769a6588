-------------------------------- MODULE Launch --------------------------------
(***************************************************************************)
(* Copies of the program: who may run, what a second launch does, and the  *)
(* order of starting and stopping (main of app/main.py, SingleInstance of  *)
(* winint/single_instance.py, AppContext of ui/app_context.py, and the     *)
(* window and tray parts of ui/main_window.py).                            *)
(*                                                                         *)
(* The copies are processes of one Windows session, and Windows grants the *)
(* lock that is asked for: when it cannot, the pipe alone decides, and two *)
(* pipes of one name may exist.                                            *)
(***************************************************************************)
EXTENDS FiniteSets, Integers

CONSTANT Copies

VARIABLE copies             \* what each copy is doing, and what it holds

\* "lock" and "server" are the guard's, "db" and "thread" those of the
\* context; "asked" is a message in the pipe.
NoCopy == [at |-> "off", lock |-> FALSE, server |-> FALSE, db |-> FALSE, thread |-> FALSE,
           shown |-> FALSE, tray |-> FALSE, startInTray |-> FALSE, asked |-> FALSE]

LaunchIdle == copies = [c \in Copies |-> NoCopy]
LaunchInit == LaunchIdle

Becomes(c, copy) == copies' = [copies EXCEPT ![c] = copy]
Moves(c, from, copy) == copies[c].at = from /\ Becomes(c, copy)

-----------------------------------------------------------------------------
(* The guard.                                                              *)

StartCopy(c) ==
    \E startInTray \in BOOLEAN, tray \in BOOLEAN :
        Moves(c, "off", [NoCopy EXCEPT !.at = "locking", !.startInTray = startInTray, !.tray = tray])

TakeMutex(c) ==
    Moves(c, "locking", IF \E d \in Copies : copies[d].lock
                        THEN [copies[c] EXCEPT !.at = "notifying"]
                        ELSE [copies[c] EXCEPT !.at = "listening", !.lock = TRUE])

StartServer(c) ==
    \/ Moves(c, "listening", [copies[c] EXCEPT !.at = "building", !.server = TRUE])
    \/ Moves(c, "listening", [copies[c] EXCEPT !.at = "notifying", !.lock = FALSE])

\* The message waits in the pipe; without an answer the user is told so.
\* Either way this copy ends.
NotifyExisting(c) ==
    /\ copies[c].at = "notifying"
    /\ \/ \E d \in Copies :
             /\ copies[d].server
             /\ copies' = [copies EXCEPT ![c] = NoCopy, ![d].asked = TRUE]
       \/ Becomes(c, NoCopy)

-----------------------------------------------------------------------------
(* The context, the window, and the services.                              *)

\* AppContext closes its database again when it cannot be used.
BuildContext(c) ==
    \/ Moves(c, "building", [copies[c] EXCEPT !.at = "showing", !.db = TRUE])
    \/ Moves(c, "building", [copies[c] EXCEPT !.at = "offering"])
    \/ Moves(c, "building", NoCopy)

AnswerOffer(c) ==
    \/ Moves(c, "offering", [copies[c] EXCEPT !.at = "showing", !.db = TRUE])
    \/ Moves(c, "offering", NoCopy)

PrepareWindow(c) ==
    Moves(c, "showing", [copies[c] EXCEPT !.at = "starting",
                                          !.shown = ~(copies[c].startInTray /\ copies[c].tray)])

StartContext(c) == Moves(c, "starting", [copies[c] EXCEPT !.at = "running", !.thread = TRUE])

\* The event loop turns while a message box is open too, but then nothing is
\* connected to the signal: the request is dropped.
HandleActivation(c) ==
    /\ copies[c].asked
    /\ \/ Moves(c, "running", [copies[c] EXCEPT !.asked = FALSE, !.shown = TRUE])
       \/ Moves(c, "offering", [copies[c] EXCEPT !.asked = FALSE])

\* _on_exit, once the user has agreed to stop what is in progress.
ExitApplication(c) == Moves(c, "running", [copies[c] EXCEPT !.at = "closing"])

\* closeEvent: hide to the tray; or exit; or stay, when the user declines.
CloseWindow_NoTrayNeeded(c) ==
    /\ copies[c].shown
    /\ \/ Moves(c, "running", [copies[c] EXCEPT !.shown = FALSE])
       \/ ExitApplication(c)

CloseMainWindow(c) ==
    /\ copies[c].shown
    /\ \/ copies[c].tray /\ Moves(c, "running", [copies[c] EXCEPT !.shown = FALSE])
       \/ ExitApplication(c)

OpenFromTray(c) ==
    /\ copies[c].tray
    /\ Moves(c, "running", [copies[c] EXCEPT !.shown = TRUE])

ExitFromTray(c) == copies[c].tray /\ ExitApplication(c)

\* shutdown(): the thread is waited for, then terminated; then the database
\* is closed.  A thread that outlives both waits ends with the process.
StopThreadOf(c) ==
    \E outlives \in BOOLEAN :
        Moves(c, "closing", [copies[c] EXCEPT !.at = "stopped", !.thread = outlives])

CloseDatabaseOf_Released(c) ==
    Moves(c, "stopped", [copies[c] EXCEPT !.at = "ending", !.lock = FALSE, !.server = FALSE])

CloseDatabaseOf(c) == Moves(c, "stopped", [copies[c] EXCEPT !.at = "ending", !.db = FALSE])

\* The lock and the pipe go with the process, not before.
EndProcess(c) == Moves(c, "ending", NoCopy)

KillCopy(c) == copies[c].at # "off" /\ Becomes(c, NoCopy)

LaunchNext ==
    \E c \in Copies :
        \/ StartCopy(c) \/ TakeMutex(c) \/ StartServer(c) \/ NotifyExisting(c)
        \/ BuildContext(c) \/ AnswerOffer(c) \/ PrepareWindow(c) \/ StartContext(c)
        \/ HandleActivation(c) \/ CloseMainWindow(c) \/ OpenFromTray(c) \/ ExitFromTray(c)
        \/ StopThreadOf(c) \/ CloseDatabaseOf(c) \/ EndProcess(c) \/ KillCopy(c)

LaunchSpec == LaunchInit /\ [][LaunchNext]_copies

-----------------------------------------------------------------------------
\* Two copies never work on the same database, browser profile and purchases,
\* however launches, crashes and exits fall together: in particular a copy
\* that is on its way out keeps others away until its thread and its database
\* are closed.
OneCopyAtWork ==
    Cardinality({c \in Copies : copies[c].db \/ copies[c].thread}) <= 1

\* A copy without a window on screen can be brought back: it has its icon in
\* the tray (closeEvent, prepare).
HiddenIsReachable ==
    \A c \in Copies : copies[c].at = "running" /\ ~copies[c].shown => copies[c].tray

=============================================================================
