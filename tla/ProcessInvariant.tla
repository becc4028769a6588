--------------------------- MODULE ProcessInvariant ---------------------------
(***************************************************************************)
(* The inductive invariants of what runs: the copies of the program, its   *)
(* browser, and the pages and results of the account.                      *)
(***************************************************************************)
EXTENDS Launch, BrowserProfile, SignIn

-----------------------------------------------------------------------------
(* Copies of the program.                                                    *)

Holding == {"building", "offering", "showing", "starting", "running", "closing", "stopped", "ending"}
CopyRecords == [at : Holding \union {"off", "locking", "notifying", "listening"},
                lock : BOOLEAN, server : BOOLEAN, db : BOOLEAN, thread : BOOLEAN,
                shown : BOOLEAN, tray : BOOLEAN, startInTray : BOOLEAN, asked : BOOLEAN]

(* The lock is held from before the pipe is opened until the process ends;   *)
(* nothing else is held without it.                                          *)
Sane(copy) ==
    /\ copy \in CopyRecords
    /\ copy.at \in Holding \union {"listening"} => copy.lock
    /\ copy.server \/ copy.db \/ copy.thread => copy.at \in Holding
    /\ copy.at \in {"starting", "running"} /\ ~copy.shown => copy.tray

OneHolder == \A c, d \in Copies : copies[c].lock /\ copies[d].lock => c = d

LaunchInv ==
    /\ DOMAIN copies = Copies /\ copies = [c \in Copies |-> copies[c]]
    /\ \A c \in Copies : Sane(copies[c])
    /\ OneHolder

-----------------------------------------------------------------------------
(* The browser.                                                              *)

Steps == {"stopped", "idle", "ensure", "start", "launch", "recover", "relaunch", "ready", "repairing"}
BrowserTypes ==
    /\ browser \in [installed : BOOLEAN, procs : SUBSET {"own", "orphan", "stranger"},
                    stored : BOOLEAN, memory : BOOLEAN, crashed : BOOLEAN, cleared : BOOLEAN]
    /\ manager \in [held : BOOLEAN, driver : BOOLEAN, at : Steps, task : Tasks \union {"none"},
                    error : {"none", "browser_unavailable", "browser_profile_locked",
                             "browser_closed_by_user"}, closed : BOOLEAN]

(* A browser of the app is behind a context, and then no other is left over; *)
(* what a browser remembers goes with it.                                    *)
BrowserInv ==
    /\ BrowserTypes
    /\ "own" \in browser.procs => manager.held
    /\ manager.held => "orphan" \notin browser.procs
    /\ manager.at \in {"ready", "repairing"} => manager.held
    /\ manager.at \in {"launch", "recover", "relaunch"} => ~manager.held
    /\ ~InUse => ~browser.memory
    /\ browser.cleared => ~browser.stored /\ ~browser.memory

-----------------------------------------------------------------------------
(* The account.                                                              *)

Outcomes == {"network_unavailable", "timeout", "browser_closed", "done", "signed_in", "signed_out",
             "not_connected", "read", "login_expired", "verification_required", "rate_limited",
             "product_not_found", "unexpected_page"}

Marks == {"account_url", "product_marker", "not_found_title"}

(* What a page demands shows on it, and it has no signs of other demands.    *)
PageIsServed ==
    /\ page.demand \in Demands /\ Shows(page)
    /\ page.signs \subseteq SignsOf(page.demand) \union Marks

SignInInv ==
    /\ account \in [results : Seq([kind : Kinds \union {"none"}, outcome : Outcomes]),
                    connected : BOOLEAN, handoff : BOOLEAN]
    /\ jobs \in Seq(Kinds)
    /\ job \in [kind : Kinds \union {"none"}, at : {"idle", "loading", "looking", "waiting", "reading"},
                polls : Int]
    /\ amazon \in [demand : Demands, signedIn : BOOLEAN]
    /\ PageIsServed
    /\ job.at = "reading" => Classify(page.signs) = "product"
=============================================================================
