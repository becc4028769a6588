-------------------------------- MODULE SignIn --------------------------------
(***************************************************************************)
(* What Amazon served, whether it is the page that was asked for, and the  *)
(* hand-off to the user when it is not (app/automation/login_detector.py,  *)
(* the navigation and account parts of amazon_adapter.py, the account      *)
(* handlers of app/ui/main_window.py).                                     *)
(*                                                                         *)
(* A page is the set of signs found on it: parts of its address, markers   *)
(* of its selectors, wording of its text and title.  What Amazon meant by  *)
(* it - "demand" and "signedIn" - is on the page for the properties only.  *)
(***************************************************************************)
EXTENDS Integers, Sequences, SequencesExt

CONSTANTS Patience,         \* polls before a wait for the user times out
          MaxAccountJobs    \* bounds what is queued for the browser at one time

VARIABLES amazon,           \* what Amazon demands, and whether the profile is signed in
          page,             \* the page on screen
          jobs,             \* what the user has asked of the browser, oldest first
          job,              \* what the browser is doing
          account           \* results to be handled, and what the window knows

signInVars == <<amazon, page, jobs, job, account>>

-----------------------------------------------------------------------------
(* LoginDetector.                                                          *)

\* Interruptions, in the order they are looked for.  "We couldn't find that
\* page" is not among them: the phrase looked for has no apostrophe, and the
\* text of the page keeps its own.
InterruptionSigns ==
    << <<"captcha_url", "captcha">>, <<"mfa_url", "mfa">>, <<"sign_in_url", "sign_in">>,
       <<"captcha_marker", "captcha">>, <<"mfa_marker", "mfa">>,
       <<"sorry_text", "service_error">>, <<"characters_text", "captcha">>,
       <<"sign_in_form", "sign_in">>, <<"not_found_title", "not_found">> >>

ContentSigns ==
    << <<"thank_you_url", "confirmation">>, <<"confirmation_marker", "confirmation">>,
       <<"addon_sheet", "addon_sheet">>,
       <<"checkout_url", "checkout">>, <<"checkout_marker", "checkout">>,
       <<"cart_url", "cart">>, <<"cart_marker", "cart">>, <<"orders_url", "orders">>,
       <<"product_marker", "product">>, <<"account_url", "account">> >>

\* The kind of the first sign that is there.
KindBy(table, signs) ==
    LET there == {i \in DOMAIN table : table[i][1] \in signs}
    IN  IF there = {} THEN "unknown" ELSE table[Min(there)][2]

Classify_ContentFirst(signs) == KindBy(ContentSigns \o InterruptionSigns, signs)
Classify(signs) == KindBy(InterruptionSigns \o ContentSigns, signs)

NeedsHuman(kind) == kind \in {"sign_in", "mfa", "captcha"}
IsInterruption(kind) == NeedsHuman(kind) \/ kind = "service_error"

ErrorOf(kind) ==
    CASE kind = "sign_in" -> "login_expired"
      [] kind \in {"mfa", "captcha"} -> "verification_required"
      [] kind = "service_error" -> "rate_limited"
      [] kind = "not_found" -> "product_not_found"

\* classify: a greeting that is not a known "sign in" counts as a name.
SignedIn(pg) ==
    pg.greeting = "name" /\ Classify(pg.signs) \notin {"sign_in", "mfa"}

\* session_state, and SessionState.usable.
SaysSignedIn(pg) ==
    /\ SignedIn(pg)
    /\ Classify(pg.signs) # "captcha" => "sign_in_form" \notin pg.signs
Usable_Greeting(pg) == pg.greeting = "name"
Usable(pg) == SaysSignedIn(pg) /\ Classify(pg.signs) \notin {"captcha", "mfa"}

-----------------------------------------------------------------------------
(* Amazon: a page that demands something shows it by at least one sign; it *)
(* may carry the marks of the page that was asked for as well, and a       *)
(* greeting from a cache.                                                  *)

SignsOf(demand) ==
    CASE demand = "captcha" -> {"captcha_url", "captcha_marker", "characters_text"}
      [] demand = "mfa" -> {"mfa_url", "mfa_marker"}
      [] demand = "sign_in" -> {"sign_in_url", "sign_in_form"}
      [] demand = "throttle" -> {"sorry_text"}
      [] demand = "none" -> {}

Demands == {"none", "captcha", "mfa", "sign_in", "throttle"}
Greetings == {"unread", "sign_in", "name"}

\* A link to an item may end nowhere, or somewhere unexpected.
Contents(address) == IF address = "account" THEN {{"account_url"}}
                     ELSE {{"product_marker"}, {"not_found_title"}, {}}

Shows(pg) ==
    \/ pg.signs \intersect SignsOf(pg.demand) # {}
    \/ pg.demand = "sign_in" /\ pg.greeting = "sign_in"
    \/ pg.demand = "none" /\ pg.greeting \in {"unread", IF pg.signedIn THEN "name" ELSE "sign_in"}

Served(address, a) ==
    LET demand == IF a.demand = "none" /\ address = "account" /\ ~a.signedIn THEN "sign_in"
                  ELSE a.demand
    IN  {pg \in {[signs |-> signs \union content, greeting |-> greeting,
                  demand |-> demand, signedIn |-> a.signedIn] :
                    signs \in SUBSET SignsOf(demand), content \in Contents(address),
                    greeting \in Greetings} : Shows(pg)}

-----------------------------------------------------------------------------
NoPage == [signs |-> {}, greeting |-> "unread", demand |-> "none", signedIn |-> FALSE]
NoJob == [kind |-> "none", at |-> "idle", polls |-> 0]
Kinds == {"visit", "connect", "test", "clear"}

SignInIdle ==
    /\ amazon = [demand |-> "none", signedIn |-> FALSE]
    /\ page = NoPage /\ jobs = <<>> /\ job = NoJob
    /\ account = [results |-> <<>>, connected |-> FALSE, handoff |-> FALSE]

SignInInit ==
    /\ amazon \in [demand : Demands, signedIn : BOOLEAN]
    /\ page = NoPage /\ jobs = <<>> /\ job = NoJob
    /\ account = [results |-> <<>>, connected |-> FALSE, handoff |-> FALSE]

\* The window submits a task; Clear session writes the settings at once.
Ask(kind) ==
    /\ Len(jobs) + Len(account.results) + (IF job = NoJob THEN 0 ELSE 1) < MaxAccountJobs
    /\ jobs' = Append(jobs, kind)
    /\ account' = IF kind = "clear" THEN [account EXCEPT !.connected = FALSE] ELSE account
    /\ UNCHANGED <<amazon, page, job>>

Begin ==
    /\ job = NoJob /\ jobs # <<>>
    /\ job' = [NoJob EXCEPT !.kind = Head(jobs), !.at = "loading"]
    /\ jobs' = Tail(jobs)
    /\ UNCHANGED <<amazon, page, account>>

\* What is left on screen is of no use to the next task.
EndJob(outcome) ==
    /\ job' = NoJob
    /\ account' = [account EXCEPT !.results = Append(@, [kind |-> job.kind, outcome |-> outcome])]
    /\ page' = NoPage
    /\ UNCHANGED <<amazon, jobs>>

Address == IF job.kind = "visit" THEN "product" ELSE "account"

Load ==
    /\ job.at = "loading" /\ job.kind # "clear"
    /\ page' \in Served(Address, amazon)
    /\ job' = [job EXCEPT !.at = "looking"]
    /\ UNCHANGED <<amazon, jobs, account>>

\* check_session calls every failure a network failure.
FailToLoad ==
    /\ job.at = "loading" /\ job.kind # "clear"
    /\ \/ EndJob("network_unavailable")
       \/ job.kind # "test" /\ (EndJob("timeout") \/ EndJob("browser_closed"))

ClearSession ==
    /\ job.at = "loading" /\ job.kind = "clear"
    /\ job' = NoJob
    /\ amazon' = [amazon EXCEPT !.signedIn = FALSE] /\ page' = NoPage
    /\ account' = [account EXCEPT !.results = Append(@, [kind |-> "clear", outcome |-> "done"])]
    /\ UNCHANGED jobs

\* The end of navigate, which expects a product.
Conclude(kind) ==
    IF kind = "product"
    THEN job' = [job EXCEPT !.at = "reading"] /\ UNCHANGED <<amazon, page, jobs, account>>
    ELSE EndJob(IF IsInterruption(kind) \/ kind = "not_found" THEN ErrorOf(kind) ELSE "unexpected_page")

Wait == job' = [job EXCEPT !.at = "waiting"] /\ UNCHANGED <<amazon, page, jobs, account>>

LookAtPage ==
    /\ job.at = "looking" /\ job.kind = "visit"
    /\ LET kind == Classify(page.signs)
       IN  IF NeedsHuman(kind) THEN Wait ELSE Conclude(kind)

LookAtAccount ==
    /\ job.at = "looking"
    /\ \/ job.kind = "connect" /\ IF Usable(page) THEN EndJob("signed_in") ELSE Wait
       \/ job.kind = "test" /\ EndJob(IF SaysSignedIn(page) THEN "signed_in" ELSE "signed_out")

\* What the user does in the browser window, between two polls.
ActInBrowser ==
    /\ job.at = "waiting"
    /\ amazon' \in [demand : Demands, signedIn : BOOLEAN]
    /\ page' \in Served(Address, amazon')
    /\ UNCHANGED <<jobs, job, account>>

Poll ==
    /\ job.at = "waiting"
    /\ LET kind == Classify(page.signs)
           over == IF job.kind = "visit" THEN ~NeedsHuman(kind) ELSE Usable(page)
       IN  IF ~over /\ job.polls < Patience - 1
           THEN job' = [job EXCEPT !.polls = @ + 1] /\ UNCHANGED <<amazon, page, jobs, account>>
           ELSE IF job.kind = "visit" THEN Conclude(kind)
           ELSE EndJob(IF over THEN "signed_in" ELSE "not_connected")

ReadProduct ==
    /\ job.at = "reading"
    /\ EndJob("read")

\* session.step and session.sleep look at the flag.
CancelJob ==
    /\ job.at = "waiting"
    /\ job' = NoJob /\ page' = NoPage
    /\ UNCHANGED <<amazon, jobs, account>>

\* _on_account_result, _on_account_failed; the results of visits and of
\* Clear session are not theirs.  The dialog of the hand-off opens for a
\* challenge that was met on a visit.
HandleResult ==
    /\ account.results # <<>>
    /\ LET r == Head(account.results)
       IN  account' = [results |-> Tail(account.results),
                       connected |-> IF r.kind \in {"connect", "test"} /\ r.outcome \in {"signed_in", "signed_out"}
                                     THEN r.outcome = "signed_in" ELSE account.connected,
                       handoff |-> account.handoff \/ r.outcome = "verification_required"]
    /\ UNCHANGED <<amazon, page, jobs, job>>

CloseHandoff ==
    /\ account.handoff
    /\ account' = [account EXCEPT !.handoff = FALSE]
    /\ UNCHANGED <<amazon, page, jobs, job>>

SignInNext ==
    \/ \E kind \in Kinds : Ask(kind)
    \/ Begin \/ Load \/ FailToLoad \/ ClearSession \/ LookAtPage \/ LookAtAccount
    \/ ActInBrowser \/ Poll \/ ReadProduct \/ CancelJob
    \/ HandleResult \/ CloseHandoff

SignInSpec == SignInInit /\ [][SignInNext]_signInVars

-----------------------------------------------------------------------------
\* No price is ever read out of a challenge, a sign-in or a throttle page,
\* although Amazon serves them at a product's address and with its marks, and
\* although the page may change many times while the user deals with it: one
\* sign is enough (classify, _wait_for_human, _raise_for_interruption).  A
\* sign-in page known only by its greeting is not told from a product page.
ChallengeIsNeverRead ==
    job.at = "reading" =>
        \/ page.demand = "none"
        \/ page.demand = "sign_in" /\ page.signs \intersect SignsOf("sign_in") = {}

\* Connect says "Signed in" only when the profile is, however many times the
\* page changes meanwhile: the greeting, the address and the form are three
\* signs, and two of them may mislead (session_state).  A throttle page that
\* greets by name passes for an account page.
ConnectedIsSignedIn ==
    [][job.kind = "connect" /\ Len(account'.results) > Len(account.results)
            /\ Last(account'.results) = [kind |-> "connect", outcome |-> "signed_in"]
       => page.signedIn \/ page.demand = "throttle"]_signInVars

=============================================================================
