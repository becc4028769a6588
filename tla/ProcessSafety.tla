----------------------------- MODULE ProcessSafety -----------------------------
(***************************************************************************)
(* What runs stays right for any number of copies of the program, and for  *)
(* any number of tasks of the browser and the account.                     *)
(***************************************************************************)
EXTENDS ProcessInvariant, FiniteSetTheorems, SequenceTheorems, WellFoundedInduction, TLAPS

-----------------------------------------------------------------------------
(* Copies of the program.                                                    *)

LEMMA LaunchStarts == LaunchInit => LaunchInv
<1> SUFFICES ASSUME LaunchInit
             PROVE  LaunchInv
  OBVIOUS
<1>1. copies = [c \in Copies |-> NoCopy]
  BY DEF LaunchInit, LaunchIdle
<1>2. Sane(NoCopy) /\ ~NoCopy.lock
  BY DEF Sane, NoCopy, CopyRecords, Holding
<1> QED
  BY <1>1, <1>2 DEF LaunchInv, OneHolder

(* One copy moves, and takes the lock only when no copy has it.              *)
LEMMA OneMoves ==
  ASSUME LaunchInv, NEW c \in Copies, NEW copy, Sane(copy), Becomes(c, copy),
         copy.lock => copies[c].lock \/ \A d \in Copies : ~copies[d].lock
  PROVE  LaunchInv'
<1>1. /\ DOMAIN copies' = Copies /\ copies' = [d \in Copies |-> copies'[d]]
      /\ \A d \in Copies : copies'[d] = IF d = c THEN copy ELSE copies[d]
  BY DEF LaunchInv, Becomes
<1>2. \A d \in Copies : Sane(copies'[d])
  BY <1>1 DEF LaunchInv
<1>3. OneHolder'
  BY <1>1 DEF LaunchInv, OneHolder
<1> QED
  BY <1>1, <1>2, <1>3 DEF LaunchInv

(* What a copy may become by itself, and still hold what it should.          *)
LEMMA OwnMoves ==
  ASSUME NEW c, Sane(copies[c])
  PROVE  LET copy == copies[c]
         IN  /\ Sane(NoCopy) /\ ~NoCopy.lock
             /\ copy.at = "locking" => /\ Sane([copy EXCEPT !.at = "notifying"])
                                       /\ Sane([copy EXCEPT !.at = "listening", !.lock = TRUE])
             /\ copy.at = "listening" => /\ Sane([copy EXCEPT !.at = "building", !.server = TRUE])
                                         /\ Sane([copy EXCEPT !.at = "notifying", !.lock = FALSE])
             /\ copy.at = "building" => Sane([copy EXCEPT !.at = "offering"])
             /\ copy.at \in {"building", "offering"} => Sane([copy EXCEPT !.at = "showing", !.db = TRUE])
             /\ copy.at = "showing" => Sane([copy EXCEPT !.at = "starting",
                                                         !.shown = ~(copy.startInTray /\ copy.tray)])
             /\ copy.at = "starting" => Sane([copy EXCEPT !.at = "running", !.thread = TRUE])
             /\ copy.at = "running" => /\ Sane([copy EXCEPT !.asked = FALSE, !.shown = TRUE])
                                       /\ Sane([copy EXCEPT !.at = "closing"])
                                       /\ copy.tray => Sane([copy EXCEPT !.shown = FALSE])
                                       /\ Sane([copy EXCEPT !.shown = TRUE])
             /\ Sane([copy EXCEPT !.asked = FALSE]) /\ Sane([copy EXCEPT !.asked = TRUE])
             /\ copy.at = "closing" =>
                   \A outlives \in BOOLEAN : Sane([copy EXCEPT !.at = "stopped", !.thread = outlives])
             /\ copy.at = "stopped" => Sane([copy EXCEPT !.at = "ending", !.db = FALSE])
<1> DEFINE copy == copies[c]
<1>0. copy \in CopyRecords /\ Sane(copy)
  BY DEF Sane
<1> HIDE DEF copy
<1> USE <1>0 DEF Sane, CopyRecords, Holding
<1>1. Sane(NoCopy) /\ ~NoCopy.lock
  BY DEF NoCopy
<1>2. copy.at = "locking" => /\ Sane([copy EXCEPT !.at = "notifying"])
                             /\ Sane([copy EXCEPT !.at = "listening", !.lock = TRUE])
  OBVIOUS
<1>3. copy.at = "listening" => /\ Sane([copy EXCEPT !.at = "building", !.server = TRUE])
                               /\ Sane([copy EXCEPT !.at = "notifying", !.lock = FALSE])
  OBVIOUS
<1>4. /\ copy.at = "building" => Sane([copy EXCEPT !.at = "offering"])
      /\ copy.at \in {"building", "offering"} => Sane([copy EXCEPT !.at = "showing", !.db = TRUE])
  OBVIOUS
<1>5. copy.at = "showing" => Sane([copy EXCEPT !.at = "starting",
                                               !.shown = ~(copy.startInTray /\ copy.tray)])
  OBVIOUS
<1>6. copy.at = "starting" => Sane([copy EXCEPT !.at = "running", !.thread = TRUE])
  OBVIOUS
<1>7. copy.at = "running" => /\ Sane([copy EXCEPT !.asked = FALSE, !.shown = TRUE])
                             /\ Sane([copy EXCEPT !.at = "closing"])
                             /\ copy.tray => Sane([copy EXCEPT !.shown = FALSE])
                             /\ Sane([copy EXCEPT !.shown = TRUE])
  OBVIOUS
<1>8. Sane([copy EXCEPT !.asked = FALSE]) /\ Sane([copy EXCEPT !.asked = TRUE])
  OBVIOUS
<1>9. copy.at = "closing" =>
         \A outlives \in BOOLEAN : Sane([copy EXCEPT !.at = "stopped", !.thread = outlives])
  OBVIOUS
<1>10. copy.at = "stopped" => Sane([copy EXCEPT !.at = "ending", !.db = FALSE])
  OBVIOUS
<1> QED
  BY <1>1, <1>2, <1>3, <1>4, <1>5, <1>6, <1>7, <1>8, <1>9, <1>10 DEF copy

LEMMA LaunchStep == LaunchInv /\ [LaunchNext]_copies => LaunchInv'
<1> SUFFICES ASSUME LaunchInv, [LaunchNext]_copies
             PROVE  LaunchInv'
  OBVIOUS
<1>1. CASE UNCHANGED copies
  BY <1>1 DEF LaunchInv, OneHolder
<1>2. ASSUME NEW c \in Copies,
             \/ StartCopy(c) \/ TakeMutex(c) \/ StartServer(c) \/ NotifyExisting(c)
             \/ BuildContext(c) \/ AnswerOffer(c) \/ PrepareWindow(c) \/ StartContext(c)
             \/ HandleActivation(c) \/ CloseMainWindow(c) \/ OpenFromTray(c) \/ ExitFromTray(c)
             \/ StopThreadOf(c) \/ CloseDatabaseOf(c) \/ EndProcess(c) \/ KillCopy(c)
      PROVE  LaunchInv'
  <2> DEFINE copy == copies[c]
  <2>0. Sane(copy) /\ copy \in CopyRecords /\ Sane(NoCopy) /\ ~NoCopy.lock
    BY OwnMoves DEF LaunchInv, Sane
  <2>1. ASSUME NEW next, Sane(next), Becomes(c, next),
               next.lock => copy.lock \/ \A d \in Copies : ~copies[d].lock
        PROVE  LaunchInv'
    BY <2>1, OneMoves
  <2>2. CASE StartCopy(c)
    <3>1. PICK startInTray \in BOOLEAN, tray \in BOOLEAN :
             Becomes(c, [NoCopy EXCEPT !.at = "locking", !.startInTray = startInTray, !.tray = tray])
      BY <2>2 DEF StartCopy, Moves
    <3> DEFINE next == [NoCopy EXCEPT !.at = "locking", !.startInTray = startInTray, !.tray = tray]
    <3>2. Sane(next) /\ ~next.lock
      BY DEF Sane, CopyRecords, Holding, NoCopy
    <3> HIDE DEF next
    <3> QED
      BY <2>1, <3>1, <3>2 DEF next
  <2>3. CASE TakeMutex(c)
    <3>1. copy.at = "locking"
      BY <2>3 DEF TakeMutex, Moves
    <3>2. CASE \E d \in Copies : copies[d].lock
      <4>1. Becomes(c, [copy EXCEPT !.at = "notifying"])
        BY <2>3, <3>2 DEF TakeMutex, Moves
      <4>2. [copy EXCEPT !.at = "notifying"].lock = copy.lock
        BY <2>0 DEF CopyRecords
      <4> QED
        BY <2>0, <2>1, <3>1, <4>1, <4>2, OwnMoves
    <3>3. CASE ~ \E d \in Copies : copies[d].lock
      <4>1. Becomes(c, [copy EXCEPT !.at = "listening", !.lock = TRUE])
        BY <2>3, <3>3 DEF TakeMutex, Moves
      <4> QED
        BY <2>0, <2>1, <3>1, <3>3, <4>1, OwnMoves
    <3> QED
      BY <3>2, <3>3
  <2>4. CASE NotifyExisting(c)
    <3>1. CASE Becomes(c, NoCopy)
      BY <2>0, <2>1, <3>1
    <3>2. ASSUME NEW d \in Copies, copies[d].server,
                 copies' = [copies EXCEPT ![c] = NoCopy, ![d].asked = TRUE]
          PROVE  LaunchInv'
      <4>1. c # d
        BY <2>0, <2>4, <3>2 DEF NotifyExisting, Sane, Holding
      <4> DEFINE other == [copies[d] EXCEPT !.asked = TRUE]
      <4>2. Sane(other) /\ other.lock = copies[d].lock
        <5>1. Sane(copies[d]) /\ copies[d] \in CopyRecords
          BY DEF LaunchInv, Sane
        <5>2. other.lock = copies[d].lock
          BY <5>1 DEF CopyRecords
        <5> QED
          BY <5>1, <5>2, OwnMoves
      <4>3. copies' = [copies EXCEPT ![c] = NoCopy, ![d] = other]
        BY <3>2, <4>1 DEF LaunchInv
      <4> HIDE DEF other
      <4>4. /\ DOMAIN copies' = Copies /\ copies' = [e \in Copies |-> copies'[e]]
            /\ copies'[c] = NoCopy /\ copies'[d] = other
            /\ \A e \in Copies : e \notin {c, d} => copies'[e] = copies[e]
        BY <4>1, <4>3 DEF LaunchInv
      <4>5. \A e \in Copies : Sane(copies'[e])
        BY <2>0, <4>2, <4>4 DEF LaunchInv
      <4>6. \A e \in Copies : copies'[e].lock => copies[e].lock
        BY <2>0, <4>2, <4>4
      <4>7. OneHolder'
        BY <4>6 DEF LaunchInv, OneHolder
      <4> QED
        BY <4>4, <4>5, <4>7 DEF LaunchInv
    <3> QED
      BY <2>4, <3>1, <3>2 DEF NotifyExisting
  <2>5. ASSUME NEW next, Becomes(c, next), Sane(next), next.lock => copy.lock
        PROVE  LaunchInv'
    BY <2>1, <2>5
  <2>6. CASE StartServer(c) \/ BuildContext(c) \/ AnswerOffer(c)
    <3>1. \/ copy.at = "listening" /\ Becomes(c, [copy EXCEPT !.at = "building", !.server = TRUE])
          \/ copy.at = "listening" /\ Becomes(c, [copy EXCEPT !.at = "notifying", !.lock = FALSE])
          \/ /\ copy.at \in {"building", "offering"}
             /\ Becomes(c, [copy EXCEPT !.at = "showing", !.db = TRUE])
          \/ copy.at = "building" /\ Becomes(c, [copy EXCEPT !.at = "offering"])
          \/ Becomes(c, NoCopy)
      BY <2>6 DEF StartServer, BuildContext, AnswerOffer, Moves
    <3>2. /\ [copy EXCEPT !.at = "building", !.server = TRUE].lock = copy.lock
          /\ ~[copy EXCEPT !.at = "notifying", !.lock = FALSE].lock
          /\ [copy EXCEPT !.at = "showing", !.db = TRUE].lock = copy.lock
          /\ [copy EXCEPT !.at = "offering"].lock = copy.lock
      BY <2>0 DEF CopyRecords
    <3> QED
      BY <2>0, <2>5, <3>1, <3>2, OwnMoves
  <2>7. CASE PrepareWindow(c) \/ StartContext(c) \/ HandleActivation(c)
    <3> DEFINE open == [copy EXCEPT !.at = "starting", !.shown = ~(copy.startInTray /\ copy.tray)]
    <3>1. \/ copy.at = "showing" /\ Becomes(c, open)
          \/ copy.at = "starting" /\ Becomes(c, [copy EXCEPT !.at = "running", !.thread = TRUE])
          \/ copy.at = "running" /\ Becomes(c, [copy EXCEPT !.asked = FALSE, !.shown = TRUE])
          \/ Becomes(c, [copy EXCEPT !.asked = FALSE])
      BY <2>7 DEF PrepareWindow, StartContext, HandleActivation, Moves
    <3>2. /\ open.lock = copy.lock
          /\ [copy EXCEPT !.at = "running", !.thread = TRUE].lock = copy.lock
          /\ [copy EXCEPT !.asked = FALSE, !.shown = TRUE].lock = copy.lock
          /\ [copy EXCEPT !.asked = FALSE].lock = copy.lock
      BY <2>0 DEF CopyRecords
    <3>3. copy.at = "showing" => Sane(open)
      BY <2>0, OwnMoves
    <3> HIDE DEF open
    <3> QED
      BY <2>0, <2>5, <3>1, <3>2, <3>3, OwnMoves
  <2>8. CASE CloseMainWindow(c) \/ OpenFromTray(c) \/ ExitFromTray(c)
    <3>1. /\ copy.at = "running"
          /\ \/ copy.tray /\ Becomes(c, [copy EXCEPT !.shown = FALSE])
             \/ Becomes(c, [copy EXCEPT !.at = "closing"])
             \/ Becomes(c, [copy EXCEPT !.shown = TRUE])
      BY <2>8 DEF CloseMainWindow, OpenFromTray, ExitFromTray, ExitApplication, Moves
    <3>2. /\ [copy EXCEPT !.shown = FALSE].lock = copy.lock
          /\ [copy EXCEPT !.at = "closing"].lock = copy.lock
          /\ [copy EXCEPT !.shown = TRUE].lock = copy.lock
      BY <2>0 DEF CopyRecords
    <3> QED
      BY <2>0, <2>5, <3>1, <3>2, OwnMoves
  <2>9. CASE StopThreadOf(c) \/ CloseDatabaseOf(c) \/ EndProcess(c) \/ KillCopy(c)
    <3>1. \/ copy.at = "closing" /\ \E outlives \in BOOLEAN :
                Becomes(c, [copy EXCEPT !.at = "stopped", !.thread = outlives])
          \/ copy.at = "stopped" /\ Becomes(c, [copy EXCEPT !.at = "ending", !.db = FALSE])
          \/ Becomes(c, NoCopy)
      BY <2>9 DEF StopThreadOf, CloseDatabaseOf, EndProcess, KillCopy, Moves
    <3>2. /\ \A outlives \in BOOLEAN : [copy EXCEPT !.at = "stopped", !.thread = outlives].lock = copy.lock
          /\ [copy EXCEPT !.at = "ending", !.db = FALSE].lock = copy.lock
      BY <2>0 DEF CopyRecords
    <3> QED
      BY <2>0, <2>5, <3>1, <3>2, OwnMoves
  <2> QED
    BY <1>2, <2>2, <2>3, <2>4, <2>6, <2>7, <2>8, <2>9
<1> QED
  BY <1>1, <1>2 DEF LaunchNext

(* LaunchInv is an inductive invariant of the copies.                        *)
THEOREM LaunchInvariance == LaunchSpec => []LaunchInv
<1> QED
  BY LaunchStarts, LaunchStep, PTL DEF LaunchSpec

(* However many copies are launched, killed and closed, at most one has a    *)
(* database open or a worker thread (SingleInstance, main, shutdown).        *)
THEOREM OneWorks == LaunchSpec => []OneCopyAtWork
<1>1. ASSUME LaunchInv
      PROVE  OneCopyAtWork
  <2> DEFINE working == {c \in Copies : copies[c].db \/ copies[c].thread}
  <2>1. \A c, d \in working : c = d
    BY <1>1 DEF LaunchInv, Sane, OneHolder
  <2>2. Cardinality(working) <= 1
    <3>1. CASE working = {}
      BY <3>1, FS_EmptySet
    <3>2. CASE working # {}
      <4>1. PICK c \in working : TRUE
        BY <3>2
      <4>2. working = {c}
        BY <2>1, <4>1
      <4> HIDE DEF working
      <4> QED
        BY <4>2, FS_Singleton
    <3> QED
      BY <3>1, <3>2
  <2> QED
    BY <2>2 DEF OneCopyAtWork
<1> QED
  BY <1>1, LaunchInvariance, PTL

(* A copy that runs without a window has its icon in the tray (prepare,      *)
(* closeEvent).                                                              *)
THEOREM HiddenHasTray == LaunchSpec => []HiddenIsReachable
<1>1. LaunchInv => HiddenIsReachable
  BY DEF LaunchInv, Sane, HiddenIsReachable
<1> QED
  BY <1>1, LaunchInvariance, PTL

-----------------------------------------------------------------------------
(* The browser.                                                              *)

BrowserRecords == [installed : BOOLEAN, procs : SUBSET {"own", "orphan", "stranger"},
                   stored : BOOLEAN, memory : BOOLEAN, crashed : BOOLEAN, cleared : BOOLEAN]

(* What closing and killing do to a browser and its profile.                 *)
LEMMA EndsOfBrowsers ==
  ASSUME NEW b \in BrowserRecords
  PROVE  /\ \A p \in {"own", "orphan", "stranger"} :
               /\ ClosedIn(b, p) \in BrowserRecords
               /\ ClosedIn(b, p).procs = b.procs \ {p}
               /\ ~ClosedIn(b, p).memory /\ ClosedIn(b, p).cleared = b.cleared
               /\ ClosedIn(b, p).stored = (b.stored \/ b.memory)
         /\ \A victims \in SUBSET {"own", "orphan", "stranger"} :
               /\ KilledIn(b, victims) \in BrowserRecords
               /\ KilledIn(b, victims).procs = b.procs \ victims
               /\ KilledIn(b, victims).memory = (b.memory /\ victims \intersect OfProfile = {})
               /\ KilledIn(b, victims).cleared = b.cleared
               /\ KilledIn(b, victims).stored = b.stored
<1>1. ASSUME NEW p \in {"own", "orphan", "stranger"}
      PROVE  /\ ClosedIn(b, p) \in BrowserRecords
             /\ ClosedIn(b, p).procs = b.procs \ {p}
             /\ ~ClosedIn(b, p).memory /\ ClosedIn(b, p).cleared = b.cleared
             /\ ClosedIn(b, p).stored = (b.stored \/ b.memory)
  <2>1. (b.stored \/ b.memory) \in BOOLEAN /\ b.procs \ {p} \in SUBSET {"own", "orphan", "stranger"}
    BY DEF BrowserRecords
  <2>2. ClosedIn(b, p) = [b EXCEPT !.procs = b.procs \ {p}, !.stored = (b.stored \/ b.memory),
                                   !.memory = FALSE, !.crashed = FALSE]
    BY DEF ClosedIn, BrowserRecords
  <2> QED
    BY <2>1, <2>2 DEF BrowserRecords
<1>2. ASSUME NEW victims \in SUBSET {"own", "orphan", "stranger"}
      PROVE  /\ KilledIn(b, victims) \in BrowserRecords
             /\ KilledIn(b, victims).procs = b.procs \ victims
             /\ KilledIn(b, victims).memory = (b.memory /\ victims \intersect OfProfile = {})
             /\ KilledIn(b, victims).cleared = b.cleared
             /\ KilledIn(b, victims).stored = b.stored
  <2> DEFINE memory == b.memory /\ victims \intersect OfProfile = {}
             crashed == b.crashed \/ victims \intersect b.procs \intersect OfProfile # {}
  <2>1. memory \in BOOLEAN /\ crashed \in BOOLEAN
        /\ b.procs \ victims \in SUBSET {"own", "orphan", "stranger"}
    BY DEF BrowserRecords
  <2>2. KilledIn(b, victims) = [b EXCEPT !.procs = b.procs \ victims, !.memory = memory, !.crashed = crashed]
    BY DEF KilledIn, BrowserRecords
  <2> HIDE DEF memory, crashed
  <2>3. /\ KilledIn(b, victims) \in BrowserRecords
        /\ KilledIn(b, victims).procs = b.procs \ victims
        /\ KilledIn(b, victims).memory = memory
        /\ KilledIn(b, victims).cleared = b.cleared
        /\ KilledIn(b, victims).stored = b.stored
    BY <2>1, <2>2 DEF BrowserRecords
  <2> QED
    BY <2>3 DEF memory
<1> QED
  BY <1>1, <1>2

(* The invariant, apart from its types, of a browser and its manager.        *)
Kept(b, m) ==
    /\ "own" \in b.procs => m.held
    /\ m.held => "orphan" \notin b.procs
    /\ m.at \in {"ready", "repairing"} => m.held
    /\ m.at \in {"launch", "recover", "relaunch"} => ~m.held
    /\ b.procs \intersect OfProfile = {} => ~b.memory
    /\ b.cleared => ~b.stored /\ ~b.memory

ManagerRecords == [held : BOOLEAN, driver : BOOLEAN, at : Steps, task : Tasks \union {"none"},
                   error : {"none", "browser_unavailable", "browser_profile_locked",
                            "browser_closed_by_user"}, closed : BOOLEAN]

LEMMA BrowserParts ==
  /\ BrowserInv <=> /\ browser \in BrowserRecords /\ manager \in ManagerRecords
                    /\ Kept(browser, manager)
  /\ BrowserInv' <=> /\ browser' \in BrowserRecords /\ manager' \in ManagerRecords
                     /\ Kept(browser', manager')
BY DEF BrowserInv, BrowserTypes, BrowserRecords, ManagerRecords, Kept, InUse

LEMMA BrowserStarts == BrowserInit => BrowserInv
<1> SUFFICES ASSUME BrowserInit
             PROVE  BrowserInv
  OBVIOUS
<1>1. PICK installed \in BOOLEAN, others \in SUBSET {"stranger"} :
         browser = [NoBrowser EXCEPT !.installed = installed, !.procs = others]
  BY DEF BrowserInit
<1>2. browser \in BrowserRecords
  BY <1>1 DEF NoBrowser, BrowserRecords
<1>3. manager \in ManagerRecords
  BY DEF BrowserInit, Stopped, ManagerRecords, Steps
<1>4. Kept(browser, manager)
  BY <1>1 DEF BrowserInit, NoBrowser, Stopped, Kept
<1> QED
  BY <1>2, <1>3, <1>4, BrowserParts

(* What closing the context leaves: no browser of this run.                  *)
LEMMA StoppedBrowser ==
  ASSUME BrowserInv
  PROVE  /\ StoppedIn(browser) \in BrowserRecords
         /\ StoppedIn(browser).procs = browser.procs \ {"own"}
         /\ StoppedIn(browser).cleared = browser.cleared
         /\ StoppedIn(browser).cleared => ~StoppedIn(browser).stored /\ ~StoppedIn(browser).memory
         /\ StoppedIn(browser).memory => "own" \notin browser.procs /\ browser.memory
<1>1. browser \in BrowserRecords /\ manager \in ManagerRecords /\ Kept(browser, manager)
  BY BrowserParts
<1>2. CASE "own" \in browser.procs
  <2>1. StoppedIn(browser) = ClosedIn(browser, "own")
    BY <1>1, <1>2 DEF StoppedIn, Kept
  <2> DEFINE closed == ClosedIn(browser, "own")
  <2>2. /\ closed \in BrowserRecords /\ closed.procs = browser.procs \ {"own"}
        /\ ~closed.memory /\ closed.cleared = browser.cleared
        /\ closed.stored = (browser.stored \/ browser.memory)
    BY <1>1, EndsOfBrowsers
  <2>3. StoppedIn(browser) = closed
    BY <2>1
  <2> HIDE DEF closed
  <2> QED
    BY <1>1, <2>2, <2>3 DEF Kept
<1>3. CASE "own" \notin browser.procs
  <2>1. StoppedIn(browser) = browser
    BY <1>3 DEF StoppedIn
  <2> QED
    BY <1>1, <1>3, <2>1 DEF Kept
<1> QED
  BY <1>2, <1>3

LEMMA BrowserStep == BrowserInv /\ [BrowserNext]_browserVars => BrowserInv'
<1> SUFFICES ASSUME BrowserInv, [BrowserNext]_browserVars
             PROVE  BrowserInv'
  OBVIOUS
<1>0. browser \in BrowserRecords /\ manager \in ManagerRecords /\ Kept(browser, manager)
  BY BrowserParts
<1>1. ASSUME browser' \in BrowserRecords, manager' \in ManagerRecords, Kept(browser', manager')
      PROVE  BrowserInv'
  BY <1>1, BrowserParts
<1>2. ASSUME NEW error \in {"none", "browser_unavailable", "browser_profile_locked",
                            "browser_closed_by_user"}, Finish(error)
      PROVE  /\ manager' \in ManagerRecords /\ manager'.held = manager.held
             /\ manager'.at = "idle"
  BY <1>0, <1>2 DEF Finish, ManagerRecords, Steps
<1>3. CASE Run \/ \E task \in Tasks : Execute(task)
  <2>1. /\ manager' \in ManagerRecords /\ manager'.held = manager.held
        /\ manager'.at = "ensure" /\ UNCHANGED browser
    BY <1>0, <1>3 DEF Run, Execute, ManagerRecords, Steps
  <2> QED
    BY <1>0, <1>1, <2>1 DEF Kept
<1>4. CASE Install
  <2>1. browser' \in {browser, [browser EXCEPT !.installed = TRUE]}
    BY <1>4 DEF Install
  <2>2. /\ browser' \in BrowserRecords
        /\ UNCHANGED <<browser.procs, browser.stored, browser.memory, browser.cleared>>
    BY <1>0, <2>1 DEF BrowserRecords
  <2>3. /\ manager' \in ManagerRecords /\ manager'.held = manager.held
        /\ manager'.at \in {"start", "idle"}
    <3>1. CASE manager' = [manager EXCEPT !.at = "start"]
      BY <1>0, <3>1 DEF ManagerRecords, Steps
    <3> QED
      BY <1>2, <1>4, <3>1 DEF Install
  <2> QED
    BY <1>0, <1>1, <2>2, <2>3 DEF Kept
<1>5. CASE StartBrowser
  <2>1. /\ UNCHANGED browser /\ manager' \in ManagerRecords /\ manager'.held = manager.held
        /\ manager'.at = IF manager.held THEN "ready" ELSE "launch"
    BY <1>0, <1>5 DEF StartBrowser, ManagerRecords, Steps
  <2> QED
    BY <1>0, <1>1, <2>1 DEF Kept
<1>6. ASSUME Launched, ~InUse
      PROVE  BrowserInv'
  <2>1. /\ browser' \in BrowserRecords /\ browser'.procs = browser.procs \union {"own"}
        /\ UNCHANGED <<browser.stored, browser.memory, browser.cleared>>
    BY <1>0, <1>6 DEF Launched, BrowserRecords
  <2>2. manager' \in ManagerRecords /\ manager'.held /\ manager'.at = "ready"
    BY <1>0, <1>6 DEF Launched, ManagerRecords, Steps
  <2> QED
    BY <1>0, <1>1, <1>6, <2>1, <2>2 DEF Kept, InUse, OfProfile
<1>7. ASSUME NEW error \in {"browser_unavailable", "browser_profile_locked"}, LaunchFails(error)
      PROVE  BrowserInv'
  <2>1. /\ manager' \in ManagerRecords /\ manager'.held = manager.held
        /\ manager'.at = "idle" /\ UNCHANGED browser
    BY <1>0, <1>7 DEF LaunchFails, ManagerRecords, Steps
  <2> QED
    BY <1>0, <1>1, <2>1 DEF Kept
<1>8. CASE Launch
  <2>1. CASE InUse
    <3>1. /\ manager' \in ManagerRecords /\ manager'.held = manager.held
          /\ manager'.at = "recover" /\ UNCHANGED browser /\ manager.at = "launch"
      BY <1>0, <1>8, <2>1 DEF Launch, ManagerRecords, Steps
    <3> QED
      BY <1>0, <1>1, <3>1 DEF Kept
  <2> QED
    BY <1>6, <1>7, <1>8, <2>1 DEF Launch
<1>9. CASE Recover
  <2>1. PICK victims \in Victims : browser' = [KilledIn(browser, victims) EXCEPT !.crashed = FALSE]
    BY <1>9 DEF Recover
  <2>2. /\ victims \in SUBSET {"own", "orphan", "stranger"}
        /\ victims \subseteq browser.procs \intersect OfProfile
    BY <1>0 DEF Victims, BrowserRecords
  <2>3. /\ browser' \in BrowserRecords /\ browser'.procs = browser.procs \ victims
        /\ browser'.memory = (browser.memory /\ victims \intersect OfProfile = {})
        /\ UNCHANGED <<browser.stored, browser.cleared>>
    <3> DEFINE killed == KilledIn(browser, victims)
    <3>1. /\ killed \in BrowserRecords /\ killed.procs = browser.procs \ victims
          /\ killed.memory = (browser.memory /\ victims \intersect OfProfile = {})
          /\ killed.stored = browser.stored /\ killed.cleared = browser.cleared
      BY <1>0, <2>2, EndsOfBrowsers
    <3>2. browser' = [killed EXCEPT !.crashed = FALSE]
      BY <2>1
    <3> HIDE DEF killed
    <3>3. /\ browser' \in BrowserRecords
          /\ browser'.procs = killed.procs /\ browser'.memory = killed.memory
          /\ browser'.stored = killed.stored /\ browser'.cleared = killed.cleared
      BY <3>1, <3>2 DEF BrowserRecords
    <3> QED
      BY <3>1, <3>3
  <2>4. /\ manager' \in ManagerRecords /\ manager'.held = manager.held
        /\ manager'.at = "relaunch" /\ manager.at = "recover"
    BY <1>0, <1>9 DEF Recover, ManagerRecords, Steps
  <2> QED
    BY <1>0, <1>1, <2>2, <2>3, <2>4 DEF Kept, OfProfile
<1>10. CASE Relaunch
  BY <1>6, <1>7, <1>10 DEF Relaunch
<1>11. CASE UsePage
  <2>1. CASE Dead
    <3>1. UNCHANGED browser /\ Finish("browser_closed_by_user")
      BY <1>11, <2>1 DEF UsePage
    <3> QED
      BY <1>0, <1>1, <1>2, <3>1 DEF Kept
  <2>2. CASE ~Dead
    <3>1. PICK signsIn \in BOOLEAN : browser' = [browser EXCEPT !.memory = @ \/ signsIn,
                                                             !.cleared = @ /\ ~signsIn]
      BY <1>11, <2>2 DEF UsePage
    <3>2. (browser.memory \/ signsIn) \in BOOLEAN /\ (browser.cleared /\ ~signsIn) \in BOOLEAN
      BY <1>0 DEF BrowserRecords
    <3>3. /\ browser' \in BrowserRecords /\ UNCHANGED <<browser.procs, browser.stored>>
          /\ browser'.memory = (browser.memory \/ signsIn)
          /\ browser'.cleared = (browser.cleared /\ ~signsIn)
      BY <1>0, <3>1, <3>2 DEF BrowserRecords
    <3>4. manager' \in ManagerRecords /\ manager'.held = manager.held /\ manager'.at = "idle"
      BY <1>2, <1>11, <2>2 DEF UsePage
    <3> QED
      BY <1>0, <1>1, <2>2, <3>3, <3>4 DEF Kept, Dead, OfProfile
  <2> QED
    BY <2>1, <2>2
<1>12. CASE BrowserReady \/ StartRepair
  <2>1. /\ UNCHANGED browser /\ manager' \in ManagerRecords /\ manager'.held = manager.held
        /\ manager'.at \in {"idle", "repairing"} /\ manager.at = "ready"
    <3>1. CASE manager' = [manager EXCEPT !.at = "repairing"]
      BY <1>0, <1>12, <3>1 DEF BrowserReady, StartRepair, ManagerRecords, Steps
    <3> QED
      BY <1>2, <1>12, <3>1 DEF BrowserReady, StartRepair
  <2> QED
    BY <1>0, <1>1, <2>1 DEF Kept
<1>13. CASE ClearProfile
  <2> DEFINE closed == StoppedIn(browser)
  <2>1. PICK victims \in Victims, deleted \in BOOLEAN :
           browser' = Cleared(KilledIn(closed, victims), deleted)
    BY <1>13 DEF ClearProfile
  <2>2. /\ victims \in SUBSET {"own", "orphan", "stranger"}
        /\ closed \in BrowserRecords /\ closed.procs = browser.procs \ {"own"}
        /\ closed.cleared => ~closed.stored /\ ~closed.memory
        /\ closed.memory => "own" \notin browser.procs /\ browser.memory
    BY <1>0, StoppedBrowser DEF Victims, BrowserRecords
  <2> HIDE DEF closed
  <2> DEFINE killed == KilledIn(closed, victims)
  <2>3. /\ killed \in BrowserRecords /\ killed.procs = closed.procs \ victims
        /\ killed.memory = (closed.memory /\ victims \intersect OfProfile = {})
        /\ killed.stored = closed.stored /\ killed.cleared = closed.cleared
    BY <2>2, EndsOfBrowsers
  <2>4. browser' = Cleared(killed, deleted)
    BY <2>1
  <2> HIDE DEF killed
  <2>5. /\ (killed.stored /\ ~deleted) \in BOOLEAN /\ (killed.crashed /\ ~deleted) \in BOOLEAN
        /\ (killed.cleared \/ deleted) \in BOOLEAN
    BY <2>3 DEF BrowserRecords
  <2>6. /\ browser' \in BrowserRecords /\ browser'.procs = killed.procs
        /\ browser'.memory = killed.memory
        /\ browser'.stored = (killed.stored /\ ~deleted)
        /\ browser'.cleared = (killed.cleared \/ deleted)
    BY <2>3, <2>4, <2>5 DEF Cleared, BrowserRecords
  <2>7. manager' \in ManagerRecords /\ ~manager'.held /\ manager'.at = "idle"
    BY <1>0, <1>13 DEF ClearProfile, ManagerRecords, Steps
  <2>8. ~closed.memory
    <3>1. manager.held /\ "orphan" \notin browser.procs
      BY <1>0, <1>13 DEF ClearProfile, Kept
    <3> QED
      BY <1>0, <2>2, <3>1 DEF Kept, OfProfile
  <2> QED
    BY <1>1, <2>2, <2>3, <2>6, <2>7, <2>8 DEF Kept
<1>14. CASE StopBrowser
  <2>1. /\ browser' \in BrowserRecords /\ browser'.procs = browser.procs \ {"own"}
        /\ browser'.cleared => ~browser'.stored /\ ~browser'.memory
        /\ browser'.memory => "own" \notin browser.procs /\ browser.memory
    BY <1>14, StoppedBrowser DEF StopBrowser
  <2>2. manager' \in ManagerRecords /\ ~manager'.held /\ manager'.at = "stopped"
    BY <1>14 DEF StopBrowser, Stopped, ManagerRecords, Steps
  <2> QED
    BY <1>0, <1>1, <2>1, <2>2 DEF Kept, OfProfile
<1>15. ASSUME NEW p \in OfProfile \union {"stranger"}, CloseWindow(p)
       PROVE  BrowserInv'
  <2>1. manager' \in {manager, [manager EXCEPT !.closed = TRUE]}
    BY <1>15 DEF CloseWindow
  <2>2. manager' \in ManagerRecords /\ UNCHANGED <<manager.held, manager.at>>
    BY <1>0, <2>1 DEF ManagerRecords
  <2>3. CASE p = "stranger"
    <3>1. /\ browser' \in BrowserRecords /\ browser'.procs = browser.procs \ {"stranger"}
          /\ UNCHANGED <<browser.stored, browser.memory, browser.cleared>>
      BY <1>0, <1>15, <2>3 DEF CloseWindow, BrowserRecords
    <3> QED
      BY <1>0, <1>1, <2>2, <3>1 DEF Kept, OfProfile
  <2>4. CASE p # "stranger"
    <3>1. browser' = ClosedIn(browser, p) /\ p \in {"own", "orphan", "stranger"}
      BY <1>15, <2>4 DEF CloseWindow, OfProfile
    <3>2. /\ browser' \in BrowserRecords /\ browser'.procs = browser.procs \ {p}
          /\ ~browser'.memory /\ browser'.cleared = browser.cleared
          /\ browser'.stored = (browser.stored \/ browser.memory)
      BY <1>0, <3>1, EndsOfBrowsers
    <3> QED
      BY <1>0, <1>1, <2>2, <3>2 DEF Kept
  <2> QED
    BY <2>3, <2>4
<1>16. CASE OpenStranger
  <2>1. /\ browser' \in BrowserRecords /\ browser'.procs = browser.procs \union {"stranger"}
        /\ UNCHANGED <<browser.stored, browser.memory, browser.cleared, manager>>
    BY <1>0, <1>16 DEF OpenStranger, BrowserRecords
  <2> QED
    BY <1>0, <1>1, <2>1 DEF Kept, OfProfile
<1>17. CASE ProgramDies
  <2>1. manager' \in ManagerRecords /\ ~manager'.held /\ manager'.at = "stopped"
    BY <1>17 DEF ProgramDies, Stopped, ManagerRecords, Steps
  <2>2. CASE browser' = KilledIn(browser, {"own"})
    <3>1. {"own"} \in SUBSET {"own", "orphan", "stranger"} /\ {"own"} \intersect OfProfile # {}
      BY DEF OfProfile
    <3>2. /\ browser' \in BrowserRecords /\ browser'.procs = browser.procs \ {"own"}
          /\ ~browser'.memory /\ UNCHANGED <<browser.stored, browser.cleared>>
      BY <1>0, <2>2, <3>1, EndsOfBrowsers
    <3> QED
      BY <1>0, <1>1, <2>1, <3>2 DEF Kept
  <2>3. CASE browser' = [browser EXCEPT !.procs = {IF p = "own" THEN "orphan" ELSE p : p \in @}]
    <3> DEFINE procs == {IF p = "own" THEN "orphan" ELSE p : p \in browser.procs}
    <3>1. /\ procs \in SUBSET {"own", "orphan", "stranger"} /\ "own" \notin procs
          /\ procs \intersect OfProfile = {} => browser.procs \intersect OfProfile = {}
      BY <1>0 DEF BrowserRecords, OfProfile
    <3>2. browser' = [browser EXCEPT !.procs = procs]
      BY <2>3
    <3> HIDE DEF procs
    <3>3. /\ browser' \in BrowserRecords /\ browser'.procs = procs
          /\ UNCHANGED <<browser.stored, browser.memory, browser.cleared>>
      BY <1>0, <3>1, <3>2 DEF BrowserRecords
    <3> QED
      BY <1>0, <1>1, <2>1, <3>1, <3>3 DEF Kept
  <2> QED
    BY <1>17, <2>2, <2>3 DEF ProgramDies
<1>18. CASE UNCHANGED browserVars
  BY <1>0, <1>1, <1>18 DEF browserVars
<1> QED
  BY <1>3, <1>4, <1>5, <1>8, <1>9, <1>10, <1>11, <1>12, <1>13, <1>14, <1>15, <1>16, <1>17, <1>18
     DEF BrowserNext

(* BrowserInv is an inductive invariant of the browser and its manager.      *)
THEOREM BrowserInvariance == BrowserSpec => []BrowserInv
<1> QED
  BY BrowserStarts, BrowserStep, PTL DEF BrowserSpec

(* Nothing that still runs, of this run or of a killed one, writes a sign-in *)
(* back into a profile that was cleared (clear_profile, stop).               *)
THEOREM ClearedForGood == BrowserSpec => []ClearedStaysCleared
<1>1. BrowserInv => ClearedStaysCleared
  BY DEF BrowserInv, ClearedStaysCleared
<1> QED
  BY <1>1, BrowserInvariance, PTL

(* Whatever the app ends to free its profile, it is none of the user's own   *)
(* browsers (_terminate_processes_using_profile).                            *)
THEOREM StrangersLive == BrowserSpec => StrangersAreLeftAlone
<1>1. ASSUME BrowserInv, [BrowserNext]_browserVars
      PROVE  CloseWindow("stranger") \/ browser.procs \ OfProfile \subseteq browser'.procs
  <2> SUFFICES ASSUME ~CloseWindow("stranger"), "stranger" \in browser.procs
               PROVE  "stranger" \in browser'.procs
    BY <1>1 DEF BrowserInv, BrowserTypes, OfProfile
  <2>0. browser \in BrowserRecords
    BY <1>1, BrowserParts
  <2>1. CASE UNCHANGED browser
    BY <2>1
  <2>2. CASE Install \/ Launched \/ UsePage \/ OpenStranger
    <3>1. \/ UNCHANGED browser
          \/ browser' = [browser EXCEPT !.installed = TRUE]
          \/ browser' = [browser EXCEPT !.procs = @ \union {"own"}]
          \/ \E signsIn \in BOOLEAN : browser' = [browser EXCEPT !.memory = @ \/ signsIn, !.cleared = @ /\ ~signsIn]
          \/ browser' = [browser EXCEPT !.procs = @ \union {"stranger"}]
      BY <2>2 DEF Install, Launched, UsePage, OpenStranger
    <3> QED
      BY <2>0, <3>1 DEF BrowserRecords
  <2>3. ASSUME NEW victims \in Victims, NEW b \in BrowserRecords, "stranger" \in b.procs
        PROVE  "stranger" \in KilledIn(b, victims).procs
    <3>1. "stranger" \notin victims /\ victims \in SUBSET {"own", "orphan", "stranger"}
      BY <2>0 DEF Victims, OfProfile, BrowserRecords
    <3> QED
      BY <2>3, <3>1, EndsOfBrowsers
  <2>4. CASE Recover
    <3>1. PICK victims \in Victims : browser' = [KilledIn(browser, victims) EXCEPT !.crashed = FALSE]
      BY <2>4 DEF Recover
    <3>2. KilledIn(browser, victims) \in BrowserRecords
      <4>1. victims \in SUBSET {"own", "orphan", "stranger"}
        BY <2>0 DEF Victims, BrowserRecords
      <4> QED
        BY <2>0, <4>1, EndsOfBrowsers
    <3>3. browser'.procs = KilledIn(browser, victims).procs
      BY <3>1, <3>2 DEF BrowserRecords
    <3> QED
      BY <2>0, <2>3, <3>3
  <2>5. CASE ClearProfile
    <3>1. PICK victims \in Victims, deleted \in BOOLEAN :
             browser' = Cleared(KilledIn(StoppedIn(browser), victims), deleted)
      BY <2>5 DEF ClearProfile
    <3>2. StoppedIn(browser) \in BrowserRecords /\ "stranger" \in StoppedIn(browser).procs
      BY <1>1, StoppedBrowser
    <3>3. KilledIn(StoppedIn(browser), victims) \in BrowserRecords
      <4>1. victims \in SUBSET {"own", "orphan", "stranger"}
        BY <2>0 DEF Victims, BrowserRecords
      <4> QED
        BY <3>2, <4>1, EndsOfBrowsers
    <3>4. browser'.procs = KilledIn(StoppedIn(browser), victims).procs
      BY <3>1, <3>3 DEF Cleared, BrowserRecords
    <3> QED
      BY <2>3, <3>2, <3>4
  <2>6. CASE StopBrowser
    BY <1>1, <2>6, StoppedBrowser DEF StopBrowser
  <2>7. ASSUME NEW p \in OfProfile \union {"stranger"}, CloseWindow(p)
        PROVE  "stranger" \in browser'.procs
    <3>1. p # "stranger"
      BY <2>7
    <3>2. browser' = ClosedIn(browser, p) /\ p \in {"own", "orphan", "stranger"}
      BY <2>7, <3>1 DEF CloseWindow, OfProfile
    <3> QED
      BY <2>0, <3>1, <3>2, EndsOfBrowsers
  <2>8. CASE ProgramDies
    <3>1. CASE browser' = KilledIn(browser, {"own"})
      BY <2>0, <3>1, EndsOfBrowsers
    <3>2. CASE browser' = [browser EXCEPT !.procs = {IF p = "own" THEN "orphan" ELSE p : p \in @}]
      BY <2>0, <3>2 DEF BrowserRecords
    <3> QED
      BY <2>8, <3>1, <3>2 DEF ProgramDies
  <2> QED
    BY <1>1, <2>1, <2>2, <2>4, <2>5, <2>6, <2>7, <2>8
       DEF BrowserNext, Run, Execute, StartBrowser, Launch, LaunchFails, Relaunch, BrowserReady,
           StartRepair, browserVars
<1>2. BrowserInv /\ [BrowserNext]_browserVars
        => [CloseWindow("stranger") \/ browser.procs \ OfProfile \subseteq browser'.procs]_browserVars
  BY <1>1
<1> QED
  BY <1>2, BrowserInvariance, PTL DEF BrowserSpec, StrangersAreLeftAlone

-----------------------------------------------------------------------------
(* The account.                                                              *)

(* A set of numbers has a least one.                                         *)
LEMMA LeastNatural ==
  ASSUME NEW S \in SUBSET Nat, S # {}
  PROVE  \E n \in S : \A m \in S : n <= m
<1> DEFINE T == {1 .. n : n \in S}
           R == StrictSubsetOrdering(Nat)
<1>1. T \subseteq FiniteSubsetsOf(Nat)
  BY FS_Interval DEF FiniteSubsetsOf
<1>2. \E t \in T : \A u \in T : ~ (<<u, t>> \in R)
  <2>1. T # {}
    OBVIOUS
  <2>2. IsWellFoundedOn(R, FiniteSubsetsOf(Nat))
    BY FS_StrictSubsetOrderingWellFounded
  <2> HIDE DEF T, R
  <2> QED
    BY <1>1, <2>1, <2>2, WFMin
<1>3. PICK n \in S : \A m \in S : ~ (<<1 .. m, 1 .. n>> \in R)
  BY <1>2
<1>4. ASSUME NEW m \in S, m < n
      PROVE  FALSE
  <2>1. 1 .. m \subseteq 1 .. n /\ n \in 1 .. n /\ n \notin 1 .. m
    BY <1>4
  <2>2. <<1 .. m, 1 .. n>> \in R
    BY <2>1 DEF StrictSubsetOrdering
  <2> QED
    BY <2>2, <1>3
<1> QED
  BY <1>4

LEMMA LeastOf ==
  ASSUME NEW S \in SUBSET Nat, S # {}
  PROVE  Min(S) \in S /\ \A i \in S : Min(S) <= i
<1>1. \E n \in S : \A m \in S : n <= m
  BY LeastNatural
<1> QED
  BY <1>1 DEF Min

(* The table of signs, by its rows: the first nine are interruptions.        *)
SignTable == InterruptionSigns \o ContentSigns

LEMMA RowsOfSigns ==
  /\ DOMAIN SignTable = 1 .. 19
  /\ SignTable[1] = <<"captcha_url", "captcha">> /\ SignTable[2] = <<"mfa_url", "mfa">>
  /\ SignTable[3] = <<"sign_in_url", "sign_in">> /\ SignTable[4] = <<"captcha_marker", "captcha">>
  /\ SignTable[5] = <<"mfa_marker", "mfa">> /\ SignTable[6] = <<"sorry_text", "service_error">>
  /\ SignTable[7] = <<"characters_text", "captcha">> /\ SignTable[8] = <<"sign_in_form", "sign_in">>
  /\ SignTable[9] = <<"not_found_title", "not_found">>
<1> DEFINE Rows == {InterruptionSigns[i] : i \in 1 .. 9} \union {ContentSigns[i] : i \in 1 .. 10}
<1>1. InterruptionSigns \in Seq(Rows) /\ Len(InterruptionSigns) = 9
  <2>1. /\ InterruptionSigns = [i \in 1 .. 9 |-> InterruptionSigns[i]]
        /\ Len(InterruptionSigns) = 9
    BY DEF InterruptionSigns
  <2>2. InterruptionSigns \in [1 .. 9 -> Rows]
    BY <2>1
  <2> HIDE DEF Rows
  <2> QED
    BY <2>1, <2>2, SeqDef
<1>2. ContentSigns \in Seq(Rows) /\ Len(ContentSigns) = 10
  <2>1. /\ ContentSigns = [i \in 1 .. 10 |-> ContentSigns[i]]
        /\ Len(ContentSigns) = 10
    BY DEF ContentSigns
  <2>2. ContentSigns \in [1 .. 10 -> Rows]
    BY <2>1
  <2> HIDE DEF Rows
  <2> QED
    BY <2>1, <2>2, SeqDef
<1> HIDE DEF Rows
<1>3. /\ SignTable \in Seq(Rows) /\ Len(SignTable) = 19
      /\ \A i \in 1 .. 9 : SignTable[i] = InterruptionSigns[i]
  <2>1. /\ InterruptionSigns \o ContentSigns \in Seq(Rows)
        /\ Len(InterruptionSigns \o ContentSigns) = Len(InterruptionSigns) + Len(ContentSigns)
        /\ \A i \in 1 .. Len(InterruptionSigns) + Len(ContentSigns) :
              (InterruptionSigns \o ContentSigns)[i] =
                 IF i <= Len(InterruptionSigns) THEN InterruptionSigns[i]
                                                ELSE ContentSigns[i - Len(InterruptionSigns)]
    BY <1>1, <1>2, ConcatProperties
  <2> DEFINE table == InterruptionSigns \o ContentSigns
  <2>2. table \in Seq(Rows) /\ Len(table) = 19
    BY <1>1, <1>2, <2>1
  <2>3. ASSUME NEW i \in 1 .. 9
        PROVE  table[i] = InterruptionSigns[i]
    <3>1. i \in 1 .. Len(InterruptionSigns) + Len(ContentSigns) /\ i <= Len(InterruptionSigns)
      BY <1>1, <1>2
    <3> QED
      BY <2>1, <3>1
  <2> QED
    BY <2>2, <2>3 DEF SignTable
<1>4. DOMAIN SignTable = 1 .. 19
  BY <1>3
<1>5. /\ SignTable[1] = InterruptionSigns[1] /\ SignTable[2] = InterruptionSigns[2]
      /\ SignTable[3] = InterruptionSigns[3] /\ SignTable[4] = InterruptionSigns[4]
      /\ SignTable[5] = InterruptionSigns[5] /\ SignTable[6] = InterruptionSigns[6]
      /\ SignTable[7] = InterruptionSigns[7] /\ SignTable[8] = InterruptionSigns[8]
      /\ SignTable[9] = InterruptionSigns[9]
  BY <1>3
<1> QED
  BY <1>4, <1>5 DEF InterruptionSigns

(* A page is what its first sign says.                                       *)
LEMMA FirstSign ==
  ASSUME NEW signs, NEW i \in 1 .. 19, SignTable[i][1] \in signs
  PROVE  \E k \in 1 .. i : /\ SignTable[k][1] \in signs
                           /\ \A j \in 1 .. 19 : SignTable[j][1] \in signs => k <= j
                           /\ Classify(signs) = SignTable[k][2]
<1> DEFINE there == {j \in DOMAIN SignTable : SignTable[j][1] \in signs}
<1>1. there \in SUBSET Nat /\ i \in there /\ DOMAIN SignTable = 1 .. 19
  BY RowsOfSigns
<1>2. Min(there) \in there /\ \A j \in there : Min(there) <= j
  <2> HIDE DEF there
  <2> QED
    BY <1>1, LeastOf
<1>3. Classify(signs) = SignTable[Min(there)][2]
  BY <1>1 DEF Classify, KindBy, SignTable
<1>4. Min(there) \in 1 .. i
  BY <1>1, <1>2
<1> QED
  BY <1>1, <1>2, <1>3, <1>4

(* A page with a sign of an interruption is none of a product.               *)
LEMMA InterruptionsShow ==
  ASSUME NEW signs, NEW demand \in Demands, signs \intersect SignsOf(demand) # {}
  PROVE  Classify(signs) # "product"
<1>1. SignsOf(demand) \subseteq {"captcha_url", "captcha_marker", "characters_text", "mfa_url",
                                 "mfa_marker", "sign_in_url", "sign_in_form", "sorry_text"}
  BY DEF SignsOf, Demands
<1>2. PICK sign \in signs : sign \in {"captcha_url", "captcha_marker", "characters_text", "mfa_url",
                                      "mfa_marker", "sign_in_url", "sign_in_form", "sorry_text"}
  BY <1>1
<1>3. PICK i \in 1 .. 9 : SignTable[i][1] = sign
  <2>1. /\ SignTable[1][1] = "captcha_url" /\ SignTable[2][1] = "mfa_url"
        /\ SignTable[3][1] = "sign_in_url" /\ SignTable[4][1] = "captcha_marker"
        /\ SignTable[5][1] = "mfa_marker" /\ SignTable[6][1] = "sorry_text"
        /\ SignTable[7][1] = "characters_text" /\ SignTable[8][1] = "sign_in_form"
    BY RowsOfSigns
  <2> QED
    BY <1>2, <2>1
<1>4. PICK k \in 1 .. i : Classify(signs) = SignTable[k][2]
  BY <1>2, <1>3, FirstSign
<1>5. \A j \in 1 .. 9 : SignTable[j][2] # "product"
  <2>1. \A j \in 1 .. 9 : j = 1 \/ j = 2 \/ j = 3 \/ j = 4 \/ j = 5 \/ j = 6 \/ j = 7 \/ j = 8 \/ j = 9
    OBVIOUS
  <2> QED
    BY <2>1, RowsOfSigns
<1> QED
  BY <1>3, <1>4, <1>5

(* A page that demands a challenge or a sign-in, and nothing else, is known  *)
(* for it by any of its signs.                                               *)
LEMMA DemandsShow ==
  ASSUME NEW signs, NEW demand \in {"captcha", "mfa", "sign_in"},
         signs \intersect SignsOf(demand) # {}, signs \subseteq SignsOf(demand) \union Marks
  PROVE  Classify(signs) = demand
<1>1. /\ SignTable[1][1] = "captcha_url" /\ SignTable[2][1] = "mfa_url"
      /\ SignTable[3][1] = "sign_in_url" /\ SignTable[4][1] = "captcha_marker"
      /\ SignTable[5][1] = "mfa_marker" /\ SignTable[6][1] = "sorry_text"
      /\ SignTable[7][1] = "characters_text" /\ SignTable[8][1] = "sign_in_form"
  BY RowsOfSigns
<1>2. /\ SignTable[1][2] = "captcha" /\ SignTable[2][2] = "mfa"
      /\ SignTable[3][2] = "sign_in" /\ SignTable[4][2] = "captcha"
      /\ SignTable[5][2] = "mfa" /\ SignTable[7][2] = "captcha" /\ SignTable[8][2] = "sign_in"
  BY RowsOfSigns
<1>3. PICK i \in 1 .. 8 : SignTable[i][1] \in signs
  <2>1. PICK sign \in signs : sign \in SignsOf(demand)
    OBVIOUS
  <2>2. sign \in {"captcha_url", "captcha_marker", "characters_text", "mfa_url", "mfa_marker",
                  "sign_in_url", "sign_in_form"}
    BY <2>1 DEF SignsOf
  <2> QED
    BY <1>1, <2>2
<1>4. PICK k \in 1 .. i : SignTable[k][1] \in signs /\ Classify(signs) = SignTable[k][2]
  BY <1>3, FirstSign
<1>5. SignTable[k][1] \in SignsOf(demand) \union Marks
  BY <1>4
<1>6. k = 1 \/ k = 2 \/ k = 3 \/ k = 4 \/ k = 5 \/ k = 6 \/ k = 7 \/ k = 8
  BY <1>4
<1>7. CASE demand = "captcha"
  BY <1>1, <1>2, <1>4, <1>5, <1>6, <1>7 DEF SignsOf, Marks
<1>8. CASE demand = "mfa"
  BY <1>1, <1>2, <1>4, <1>5, <1>6, <1>8 DEF SignsOf, Marks
<1>9. CASE demand = "sign_in"
  BY <1>1, <1>2, <1>4, <1>5, <1>6, <1>9 DEF SignsOf, Marks
<1> QED
  BY <1>7, <1>8, <1>9

LEMMA SignInStarts == SignInInit => SignInInv
<1> SUFFICES ASSUME SignInInit
             PROVE  SignInInv
  OBVIOUS
<1>1. /\ amazon \in [demand : Demands, signedIn : BOOLEAN]
      /\ page = NoPage /\ jobs = <<>> /\ job = NoJob
      /\ account = [results |-> <<>>, connected |-> FALSE, handoff |-> FALSE]
  BY DEF SignInInit
<1>2. /\ <<>> \in Seq(Kinds)
      /\ <<>> \in Seq([kind : Kinds \union {"none"}, outcome : Outcomes])
  OBVIOUS
<1>3. PageIsServed
  BY <1>1 DEF PageIsServed, NoPage, Demands, Shows, SignsOf
<1> QED
  BY <1>1, <1>2, <1>3 DEF SignInInv, NoJob

(* Whatever is served shows what it demands.                                 *)
LEMMA ServedShows ==
  ASSUME NEW address, NEW a \in [demand : Demands, signedIn : BOOLEAN], page' \in Served(address, a)
  PROVE  PageIsServed'
<1> DEFINE demand == IF a.demand = "none" /\ address = "account" /\ ~a.signedIn THEN "sign_in"
                     ELSE a.demand
<1>1. PICK signs \in SUBSET SignsOf(demand), content \in Contents(address), greeting \in Greetings :
         /\ page' = [signs |-> signs \union content, greeting |-> greeting,
                     demand |-> demand, signedIn |-> a.signedIn]
         /\ Shows(page')
  BY DEF Served
<1>2. demand \in Demands
  BY DEF Demands
<1>3. content \subseteq Marks
  BY DEF Contents, Marks
<1> HIDE DEF demand
<1> QED
  BY <1>1, <1>2, <1>3 DEF PageIsServed, Shows

LEMMA NoPageIsServed == page' = NoPage => PageIsServed'
BY DEF PageIsServed, NoPage, Demands, Shows, SignsOf

(* The end of a job.                                                         *)
LEMMA JobEnds ==
  ASSUME SignInInv, NEW outcome \in Outcomes, EndJob(outcome)
  PROVE  SignInInv'
<1>1. /\ job' = NoJob /\ page' = NoPage /\ UNCHANGED <<amazon, jobs>>
      /\ account' = [account EXCEPT !.results = Append(account.results, [kind |-> job.kind, outcome |-> outcome])]
  BY DEF EndJob
<1>2. Append(account.results, [kind |-> job.kind, outcome |-> outcome])
         \in Seq([kind : Kinds \union {"none"}, outcome : Outcomes])
  <2>1. [kind |-> job.kind, outcome |-> outcome] \in [kind : Kinds \union {"none"}, outcome : Outcomes]
    BY DEF SignInInv
  <2>2. account.results \in Seq([kind : Kinds \union {"none"}, outcome : Outcomes])
    BY DEF SignInInv
  <2> QED
    BY <2>1, <2>2, AppendProperties
<1>3. account' \in [results : Seq([kind : Kinds \union {"none"}, outcome : Outcomes]),
                    connected : BOOLEAN, handoff : BOOLEAN]
  BY <1>1, <1>2 DEF SignInInv
<1>4. NoJob \in [kind : Kinds \union {"none"},
                 at : {"idle", "loading", "looking", "waiting", "reading"}, polls : Int]
  BY DEF NoJob
<1>5. job'.at # "reading"
  BY <1>1 DEF NoJob
<1> QED
  BY <1>1, <1>3, <1>4, <1>5, NoPageIsServed DEF SignInInv

LEMMA VisitConcludes ==
  ASSUME SignInInv, Conclude(Classify(page.signs))
  PROVE  SignInInv'
<1> DEFINE kind == Classify(page.signs)
<1>1. CASE kind = "product"
  <2>1. job' = [job EXCEPT !.at = "reading"] /\ UNCHANGED <<amazon, page, jobs, account>>
    BY <1>1 DEF Conclude
  <2>2. job' \in [kind : Kinds \union {"none"},
                  at : {"idle", "loading", "looking", "waiting", "reading"}, polls : Int]
    BY <2>1 DEF SignInInv
  <2>3. UNCHANGED Classify(page.signs) /\ PageIsServed'
    BY <2>1 DEF SignInInv, PageIsServed
  <2> QED
    BY <1>1, <2>1, <2>2, <2>3 DEF SignInInv
<1>2. CASE kind # "product"
  <2> DEFINE outcome == IF IsInterruption(kind) \/ kind = "not_found" THEN ErrorOf(kind) ELSE "unexpected_page"
  <2>1. EndJob(outcome)
    BY <1>2 DEF Conclude
  <2>2. outcome \in Outcomes
    BY DEF Outcomes, ErrorOf, IsInterruption, NeedsHuman
  <2> HIDE DEF outcome
  <2> QED
    BY <2>1, <2>2, JobEnds
<1> QED
  BY <1>1, <1>2

LEMMA SignInStep == SignInInv /\ [SignInNext]_signInVars => SignInInv'
<1> SUFFICES ASSUME SignInInv, [SignInNext]_signInVars
             PROVE  SignInInv'
  OBVIOUS
<1> DEFINE Results == Seq([kind : Kinds \union {"none"}, outcome : Outcomes])
           Accounts == [results : Results, connected : BOOLEAN, handoff : BOOLEAN]
           Jobs == [kind : Kinds \union {"none"},
                    at : {"idle", "loading", "looking", "waiting", "reading"}, polls : Int]
<1>0. /\ account \in Accounts /\ jobs \in Seq(Kinds) /\ job \in Jobs
      /\ amazon \in [demand : Demands, signedIn : BOOLEAN]
      /\ PageIsServed
      /\ job.at = "reading" => Classify(page.signs) = "product"
  BY DEF SignInInv
<1>1. ASSUME account' \in Accounts, jobs' \in Seq(Kinds), job' \in Jobs, UNCHANGED <<amazon, page>>,
             job'.at = "reading" => job.at = "reading"
      PROVE  SignInInv'
  <2>1. PageIsServed' /\ UNCHANGED Classify(page.signs)
    BY <1>0, <1>1 DEF PageIsServed
  <2> QED
    BY <1>0, <1>1, <2>1 DEF SignInInv
<1>2. ASSUME NEW kind \in Kinds, Ask(kind)
      PROVE  SignInInv'
  <2>1. jobs' \in Seq(Kinds)
    BY <1>0, <1>2, AppendProperties DEF Ask
  <2>2. account' \in Accounts
    <3>1. account' \in {account, [account EXCEPT !.connected = FALSE]}
      BY <1>2 DEF Ask
    <3> HIDE DEF Results
    <3> QED
      BY <1>0, <3>1
  <2> HIDE DEF Accounts, Jobs
  <2> QED
    BY <1>0, <1>1, <1>2, <2>1, <2>2 DEF Ask
<1>3. CASE Begin
  <2>1. Head(jobs) \in Kinds /\ jobs' \in Seq(Kinds)
    BY <1>0, <1>3, HeadTailProperties DEF Begin
  <2>2. job' \in Jobs /\ job'.at = "loading"
    <3>1. job' = [kind |-> Head(jobs), at |-> "loading", polls |-> 0]
      BY <1>3 DEF Begin, NoJob
    <3> QED
      BY <2>1, <3>1
  <2> HIDE DEF Accounts, Jobs
  <2> QED
    BY <1>0, <1>1, <1>3, <2>1, <2>2 DEF Begin
<1>4. CASE Load
  <2>1. PageIsServed'
    BY <1>0, <1>4, ServedShows DEF Load
  <2>2. job' \in Jobs /\ job'.at = "looking" /\ UNCHANGED <<amazon, jobs, account>>
    BY <1>0, <1>4 DEF Load
  <2> QED
    BY <1>0, <2>1, <2>2 DEF SignInInv
<1>5. CASE FailToLoad
  BY <1>5, JobEnds DEF FailToLoad, Outcomes
<1>6. CASE ClearSession
  <2>1. /\ job' = NoJob /\ page' = NoPage /\ UNCHANGED jobs
        /\ amazon' = [amazon EXCEPT !.signedIn = FALSE]
        /\ account' = [account EXCEPT !.results = Append(account.results, [kind |-> "clear", outcome |-> "done"])]
    BY <1>6 DEF ClearSession
  <2>2. Append(account.results, [kind |-> "clear", outcome |-> "done"]) \in Results
    <3>1. [kind |-> "clear", outcome |-> "done"] \in [kind : Kinds \union {"none"}, outcome : Outcomes]
      BY DEF Kinds, Outcomes
    <3> QED
      BY <1>0, <3>1, AppendProperties
  <2>3. account' \in Accounts
    <3> HIDE DEF Results
    <3> QED
      BY <1>0, <2>1, <2>2
  <2>4. amazon' \in [demand : Demands, signedIn : BOOLEAN]
    BY <1>0, <2>1
  <2>5. job' \in Jobs /\ job'.at # "reading"
    BY <2>1 DEF NoJob
  <2> QED
    BY <1>0, <2>1, <2>3, <2>4, <2>5, NoPageIsServed DEF SignInInv
<1>7. ASSUME Wait
      PROVE  SignInInv'
  <2>1. job' \in Jobs /\ job'.at = "waiting" /\ UNCHANGED <<amazon, page, jobs, account>>
    BY <1>0, <1>7 DEF Wait
  <2> HIDE DEF Accounts, Jobs
  <2> QED
    BY <1>0, <1>1, <2>1
<1>8. CASE LookAtPage
  BY <1>7, <1>8, VisitConcludes DEF LookAtPage
<1>9. CASE LookAtAccount
  BY <1>7, <1>9, JobEnds DEF LookAtAccount, Outcomes
<1>10. CASE ActInBrowser
  <2>1. PageIsServed'
    <3>1. /\ amazon' \in [demand : Demands, signedIn : BOOLEAN]
          /\ page' \in Served(Address, amazon')
      BY <1>10 DEF ActInBrowser
    <3> QED
      BY <3>1, ServedShows
  <2> QED
    BY <1>0, <1>10, <2>1 DEF ActInBrowser, SignInInv
<1>11. CASE Poll
  <2>1. CASE job' = [job EXCEPT !.polls = @ + 1] /\ UNCHANGED <<amazon, page, jobs, account>>
    <3>1. job.polls + 1 \in Int
      BY <1>0
    <3>2. job' \in Jobs /\ job'.at = job.at
      BY <1>0, <2>1, <3>1
    <3> HIDE DEF Accounts, Jobs
    <3> QED
      BY <1>0, <1>1, <2>1, <3>2
  <2>2. CASE Conclude(Classify(page.signs))
    BY <2>2, VisitConcludes
  <2>3. CASE EndJob("signed_in") \/ EndJob("not_connected")
    BY <2>3, JobEnds DEF Outcomes
  <2> QED
    BY <1>11, <2>1, <2>2, <2>3 DEF Poll
<1>12. CASE ReadProduct
  BY <1>12, JobEnds DEF ReadProduct, Outcomes
<1>13. CASE CancelJob
  <2>1. job' = NoJob /\ page' = NoPage /\ UNCHANGED <<amazon, jobs, account>>
    BY <1>13 DEF CancelJob
  <2>2. job' \in Jobs /\ job'.at # "reading"
    BY <2>1 DEF NoJob
  <2> QED
    BY <1>0, <2>1, <2>2, NoPageIsServed DEF SignInInv
<1>14. CASE HandleResult
  <2> DEFINE r == Head(account.results)
  <2>1. r \in [kind : Kinds \union {"none"}, outcome : Outcomes] /\ Tail(account.results) \in Results
    BY <1>0, <1>14, HeadTailProperties DEF HandleResult
  <2>2. account' \in Accounts
    <3> DEFINE connected == IF r.kind \in {"connect", "test"} /\ r.outcome \in {"signed_in", "signed_out"}
                            THEN r.outcome = "signed_in" ELSE account.connected
               handoff == account.handoff \/ r.outcome = "verification_required"
    <3>1. connected \in BOOLEAN /\ handoff \in BOOLEAN
      <4> HIDE DEF Results
      <4> QED
        BY <1>0
    <3>2. account' = [results |-> Tail(account.results), connected |-> connected, handoff |-> handoff]
      BY <1>14 DEF HandleResult
    <3> HIDE DEF connected, handoff, Results
    <3> QED
      BY <2>1, <3>1, <3>2
  <2> HIDE DEF Accounts, Jobs
  <2> QED
    BY <1>0, <1>1, <1>14, <2>2 DEF HandleResult
<1>15. CASE CloseHandoff
  <2>1. account' \in Accounts
    <3> HIDE DEF Results
    <3> QED
      BY <1>0, <1>15 DEF CloseHandoff
  <2> HIDE DEF Accounts, Jobs
  <2> QED
    BY <1>0, <1>1, <1>15, <2>1 DEF CloseHandoff
<1>16. CASE UNCHANGED signInVars
  <2> HIDE DEF Accounts, Jobs
  <2> QED
    BY <1>0, <1>1, <1>16 DEF signInVars
<1> QED
  BY <1>2, <1>3, <1>4, <1>5, <1>6, <1>8, <1>9, <1>10, <1>11, <1>12, <1>13, <1>14, <1>15, <1>16
     DEF SignInNext

(* SignInInv is an inductive invariant of the pages, jobs and results.       *)
THEOREM SignInInvariance == SignInSpec => []SignInInv
<1> QED
  BY SignInStarts, SignInStep, PTL DEF SignInSpec

(* Whatever Amazon serves and however often the page changes under the       *)
(* user's hands, no product is read off a challenge, a throttle page, or a   *)
(* sign-in page that is known by a sign (classify, _wait_for_human).         *)
THEOREM ChallengesAreNotRead == SignInSpec => []ChallengeIsNeverRead
<1>1. ASSUME SignInInv
      PROVE  ChallengeIsNeverRead
  <2> SUFFICES ASSUME job.at = "reading", page.demand # "none"
               PROVE  page.demand = "sign_in" /\ page.signs \intersect SignsOf("sign_in") = {}
    BY DEF ChallengeIsNeverRead
  <2>1. page.demand \in Demands /\ Shows(page) /\ Classify(page.signs) = "product"
    BY <1>1 DEF SignInInv, PageIsServed
  <2>2. page.signs \intersect SignsOf(page.demand) = {}
    BY <2>1, InterruptionsShow
  <2> QED
    BY <2>1, <2>2 DEF Shows
<1> QED
  BY <1>1, SignInInvariance, PTL

(* Connect reports a sign-in only of a profile that is signed in, although a *)
(* greeting, an address and a form may each mislead (session_state).         *)
THEOREM ConnectedIsTrue == SignInSpec => ConnectedIsSignedIn
<1>1. ASSUME SignInInv, Usable(page)
      PROVE  page.signedIn \/ page.demand = "throttle"
  <2>1. /\ page.demand \in Demands /\ Shows(page)
        /\ page.signs \subseteq SignsOf(page.demand) \union Marks
    BY <1>1 DEF SignInInv, PageIsServed
  <2>2. page.greeting = "name" /\ Classify(page.signs) \notin {"captcha", "mfa", "sign_in"}
    BY <1>1 DEF Usable, SaysSignedIn, SignedIn
  <2>3. CASE page.demand \in {"captcha", "mfa", "sign_in"}
    <3>1. page.signs \intersect SignsOf(page.demand) # {}
      BY <2>1, <2>2, <2>3 DEF Shows
    <3> QED
      BY <2>1, <2>2, <2>3, <3>1, DemandsShow
  <2>4. CASE page.demand = "none"
    BY <2>1, <2>2, <2>4 DEF Shows, SignsOf
  <2> QED
    BY <2>1, <2>3, <2>4 DEF Demands
<1>2. ASSUME SignInInv, [SignInNext]_signInVars, job.kind = "connect",
             Len(account'.results) > Len(account.results),
             Last(account'.results) = [kind |-> "connect", outcome |-> "signed_in"]
      PROVE  page.signedIn \/ page.demand = "throttle"
  <2> DEFINE Result == [kind : Kinds \union {"none"}, outcome : Outcomes]
  <2>1. account.results \in Seq(Result) /\ Len(account.results) \in Nat
    BY <1>2 DEF SignInInv
  <2>2. ASSUME NEW outcome \in Outcomes, EndJob(outcome)
        PROVE  outcome = "signed_in"
    <3> DEFINE result == [kind |-> job.kind, outcome |-> outcome]
    <3>1. result \in Result
      BY <1>2 DEF SignInInv
    <3>2. account'.results = Append(account.results, result)
      BY <1>2, <2>2 DEF EndJob, SignInInv
    <3> HIDE DEF Result
    <3>3. Last(account'.results) = result
      <4> HIDE DEF result
      <4> QED
        BY <2>1, <3>1, <3>2, AppendProperties DEF Last
    <3> QED
      BY <1>2, <3>3
  <2>3. ~(account'.results = account.results)
    BY <1>2, <2>1
  <2>4. CASE LookAtAccount
    BY <1>1, <1>2, <2>2, <2>4, <2>3 DEF LookAtAccount, Wait
  <2>5. CASE Poll
    <3>1. CASE Usable(page)
      BY <1>1, <1>2, <3>1
    <3>2. CASE ~Usable(page)
      <4>1. EndJob("not_connected")
        BY <1>2, <2>3, <2>5, <3>2 DEF Poll
      <4> QED
        BY <2>2, <4>1 DEF Outcomes
    <3> QED
      BY <3>1, <3>2
  <2>6. CASE FailToLoad
    BY <2>2, <2>6 DEF FailToLoad, Outcomes
  <2>7. ~HandleResult
    <3> SUFFICES ASSUME HandleResult
                 PROVE  FALSE
      OBVIOUS
    <3>1. account.results # <<>> /\ account'.results = Tail(account.results)
      BY DEF HandleResult
    <3> HIDE DEF Result
    <3>2. Len(account'.results) = Len(account.results) - 1
      BY <2>1, <3>1, HeadTailProperties
    <3> QED
      BY <1>2, <2>1, <3>2
  <2>8. ~LookAtPage /\ ~ReadProduct /\ ~ClearSession
    <3>1. ~LookAtPage /\ ~ClearSession
      BY <1>2 DEF LookAtPage, ClearSession
    <3>2. ~ReadProduct
      BY <2>2 DEF ReadProduct, Outcomes
    <3> QED
      BY <3>1, <3>2
  <2>9. ~(UNCHANGED account)
    BY <2>3
  <2>10. ASSUME NEW kind \in Kinds
         PROVE  ~Ask(kind)
    <3>1. [account EXCEPT !.connected = FALSE].results = account.results
      BY <1>2 DEF SignInInv
    <3> QED
      BY <2>3, <3>1 DEF Ask
  <2>11. ~CloseHandoff
    <3>1. [account EXCEPT !.handoff = FALSE].results = account.results
      BY <1>2 DEF SignInInv
    <3> QED
      BY <2>3, <3>1 DEF CloseHandoff
  <2> QED
    BY <1>2, <2>4, <2>5, <2>6, <2>7, <2>8, <2>9, <2>10, <2>11
       DEF SignInNext, Begin, Load, ActInBrowser, CancelJob, signInVars
<1>3. SignInInv /\ [SignInNext]_signInVars
        => [job.kind = "connect" /\ Len(account'.results) > Len(account.results)
                 /\ Last(account'.results) = [kind |-> "connect", outcome |-> "signed_in"]
              => page.signedIn \/ page.demand = "throttle"]_signInVars
  BY <1>2
<1> QED
  BY <1>3, SignInInvariance, PTL DEF SignInSpec, ConnectedIsSignedIn
=============================================================================
