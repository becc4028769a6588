------------------------------- MODULE Notifier -------------------------------
(***************************************************************************)
(* Notifications: what is sent, what is kept back and why, and what the    *)
(* next one is compared with (app/notifications/notifier.py, the           *)
(* notification log of database/repositories/activity.py, the notification *)
(* settings of app/config.py and the callers in monitor_service.py).       *)
(*                                                                         *)
(* A piece of news has a kind, a subject - a watch, a purchase, the        *)
(* account - and a detail: a price, a seller, what went wrong.  The log    *)
(* knows it by its key only, and a key may be that of several pieces of    *)
(* news.  An age counts units of time; from Window on it no longer         *)
(* matters.  A toast is tried each time; whether the last one failed is    *)
(* only shown in the settings, and left out with the self test.            *)
(***************************************************************************)
EXTENDS Integers

CONSTANTS News,             \* what may happen: [kind, subject, detail]
          Title,            \* the title of the product a watch is about
          Window            \* the quiet period, in units of time

VARIABLES notices,          \* the settings and the log in the database, and the Notifier
          told,             \* age of what the user was last shown of each piece of news
          outcome           \* what became of the last piece of news

noticeVars == <<notices, told, outcome>>

\* NotificationKind.always_on
AlwaysOn == {"purchase_completed", "purchase_blocked", "purchase_ready"}
OtherKinds == {"target_price_reached", "back_in_stock", "seller_changed",
               "login_expired", "verification_needed", "monitoring_error"}

DedupeKey_NoDetail(n) == <<n.kind, n.subject, "none">>
DedupeKey(n) ==
    CASE n.kind \in {"target_price_reached", "seller_changed"} -> <<n.kind, n.subject, n.detail>>
      [] n.kind \in {"login_expired", "verification_needed"} -> <<n.kind, "account", "none">>
      [] n.kind = "monitoring_error" -> <<n.kind, Title[n.subject], "none">>
      [] OTHER -> <<n.kind, n.subject, "none">>

\* News of these kinds says no more than its kind and its subject.
ASSUME NewsAssumption ==
    \A n \in News :
        /\ n = [kind |-> n.kind, subject |-> n.subject, detail |-> n.detail]
        /\ n.kind \in AlwaysOn \union OtherKinds
        /\ n.kind \in {"back_in_stock", "login_expired", "verification_needed"} => n.detail = "none"
        /\ n.kind \in {"login_expired", "verification_needed"} => n.subject = "account"
ASSUME WindowAssumption == Window \in Nat

Keys == {DedupeKey(n) : n \in News}
Never == Window
Nothing == [kind |-> "none", subject |-> "none", detail |-> "none"]

\* "log" is the age of the latest delivery of each key, "pending" what is on
\* screen and not yet in the log, "method" how it got there.
NoticeIdle ==
    /\ notices = [log |-> [k \in Keys |-> Never], off |-> {}, enabled |-> TRUE,
                  pending |-> Nothing, method |-> "none"]
    /\ told = [n \in News |-> Never]
    /\ outcome = [news |-> Nothing, what |-> "none"]

NoticeInit == NoticeIdle

-----------------------------------------------------------------------------
NotificationAllowed(kind) ==
    kind \in AlwaysOn \/ (notices.enabled /\ kind \notin notices.off)

WasNotifiedRecently(n) == notices.log[DedupeKey(n)] < Window

\* What the news comes to, when the settings and the log let it through:
\* a toast, or a message of the tray when there is a tray.
Delivered(n, method) ==
    /\ notices' = [notices EXCEPT !.pending = n, !.method = method]
    /\ told' = [told EXCEPT ![n] = 0]
    /\ UNCHANGED outcome

KeptBack(n, why) ==
    /\ outcome' = [news |-> n, what |-> why]
    /\ UNCHANGED told

\* Notifier.notify
Notify(n) ==
    /\ notices.pending = Nothing
    /\ IF ~NotificationAllowed(n.kind)
       THEN KeptBack(n, "turned off") /\ UNCHANGED notices
       ELSE IF n.kind \notin AlwaysOn /\ WasNotifiedRecently(n)
       THEN KeptBack(n, "already sent") /\ UNCHANGED notices
       ELSE \/ \E method \in {"toast", "tray"} : Delivered(n, method)
            \/ KeptBack(n, "no channel") /\ UNCHANGED notices

\* record_notification, once the toast has been accepted or the balloon shown.
Record_ToastsOnly ==
    /\ notices.pending # Nothing
    /\ notices' = [notices EXCEPT !.log[DedupeKey(notices.pending)] =
                                      IF notices.method = "toast" THEN 0 ELSE @,
                                  !.pending = Nothing, !.method = "none"]
    /\ outcome' = [news |-> notices.pending, what |-> notices.method]
    /\ UNCHANGED told

Record ==
    /\ notices.pending # Nothing
    /\ notices' = [notices EXCEPT !.log[DedupeKey(notices.pending)] = 0,
                                  !.pending = Nothing, !.method = "none"]
    /\ outcome' = [news |-> notices.pending, what |-> notices.method]
    /\ UNCHANGED told

SetNotification(kind, on) ==
    /\ kind \notin AlwaysOn
    /\ notices' = [notices EXCEPT !.off = IF on THEN @ \ {kind} ELSE @ \union {kind}]
    /\ UNCHANGED <<told, outcome>>

SetNotificationsEnabled(on) ==
    /\ notices' = [notices EXCEPT !.enabled = on]
    /\ UNCHANGED <<told, outcome>>

ResetToDefaults ==
    /\ notices' = [notices EXCEPT !.off = {}, !.enabled = TRUE]
    /\ UNCHANGED <<told, outcome>>

\* One more unit of time.
Age(a) == IF a < Window THEN a + 1 ELSE a
NoticesAge ==
    /\ notices.pending = Nothing
    /\ notices' = [notices EXCEPT !.log = [k \in Keys |-> Age(notices.log[k])]]
    /\ told' = [n \in News |-> Age(told[n])]
    /\ UNCHANGED outcome

\* The program stops and starts again.  What was on screen and not yet in the
\* log has not been told, as far as anyone knows.
NotifierRestarts ==
    /\ notices' = [notices EXCEPT !.pending = Nothing, !.method = "none"]
    /\ told' = IF notices.pending = Nothing THEN told ELSE [told EXCEPT ![notices.pending] = Never]
    /\ UNCHANGED outcome

NoticeNext ==
    \/ \E n \in News : Notify(n)
    \/ Record \/ ResetToDefaults \/ NoticesAge \/ NotifierRestarts
    \/ \E kind \in {n.kind : n \in News}, on \in BOOLEAN : SetNotification(kind, on)
    \/ \E on \in BOOLEAN : SetNotificationsEnabled(on)

NoticeSpec == NoticeInit /\ [][NoticeNext]_noticeVars

-----------------------------------------------------------------------------
\* News that may silence other news: the same, or an error in watching a product
\* of the same title.
SilencedBy(n, m) ==
    n = m \/ /\ n.kind = "monitoring_error" /\ m.kind = "monitoring_error"
             /\ Title[n.subject] = Title[m.subject]

\* News is kept back as "already sent" only when the user was shown that very
\* news within the quiet period: no other watch, no earlier and higher price,
\* and no other seller silences it - and nothing silences news of money spent.
\* News of an error in watching is the exception: it is silenced by any error of
\* any product of the same title (monitoring_error).
SilencedOnlyIfTold ==
    [][outcome' # outcome /\ outcome'.what = "already sent"
          => /\ outcome'.news.kind \notin AlwaysOn
             /\ \E n \in News : SilencedBy(outcome'.news, n) /\ told[n] < Window]_noticeVars

\* What is not about money is not shown twice within its quiet period, by
\* toast or by tray, across restarts and changes of the settings, unless the
\* program stopped between showing it and logging it.
NotToldTwice ==
    [][\A n \in News : notices.pending = Nothing /\ notices'.pending = n /\ n.kind \notin AlwaysOn
          => told[n] = Never]_noticeVars

=============================================================================
