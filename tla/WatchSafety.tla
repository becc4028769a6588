---------------------------- MODULE WatchSafety ----------------------------
(***************************************************************************)
(* The watch list keeps its promises for any number of watches, products   *)
(* and tasks: the inductive invariant WatchInv, what follows from it, and  *)
(* that the purchases which the watch list sees are those of PurchaseSlots.*)
(***************************************************************************)
EXTENDS WatchInvariant, WatchRefinement, SequenceTheorems, FiniteSetTheorems, TLAPS

USE MaxTasksAssumption, WatchesAssumption, ProductsAssumption, TimesAssumption,
    ActionsAssumption, OrdersAssumption

-----------------------------------------------------------------------------
(* Numbers and sequences.                                                    *)

(* Induction over the naturals, as a fact about sets: the initial segments   *)
(* of a set of numbers are well-founded.                                     *)
LEMMA LeastNatural ==
  ASSUME NEW S \in SUBSET Nat, S # {}
  PROVE  \E n \in S : \A m \in S : n <= m
<1> DEFINE T == {1 .. n : n \in S}
           R == StrictSubsetOrdering(Nat)
<1>1. T \subseteq FiniteSubsetsOf(Nat)
  BY FS_Interval DEF FiniteSubsetsOf
<1>2. \E t \in T : \A u \in T : ~ (<<u, t>> \in R)
  <2>1. T # {}
    OBVIOUS
  <2>2. IsWellFoundedOn(R, FiniteSubsetsOf(Nat))
    BY FS_StrictSubsetOrderingWellFounded
  <2> HIDE DEF T, R
  <2> QED
    BY <1>1, <2>1, <2>2, WFMin
<1>3. PICK n \in S : \A m \in S : ~ (<<1 .. m, 1 .. n>> \in R)
  BY <1>2
<1>4. ASSUME NEW m \in S, m < n
      PROVE  FALSE
  <2>1. 1 .. m \subseteq 1 .. n /\ n \in 1 .. n /\ n \notin 1 .. m
    BY <1>4
  <2>2. <<1 .. m, 1 .. n>> \in R
    BY <2>1 DEF StrictSubsetOrdering
  <2> QED
    BY <2>2, <1>3
<1> QED
  BY <1>4

LEMMA AppendRange ==
  ASSUME NEW S, NEW s \in Seq(S), NEW e \in S
  PROVE  /\ Append(s, e) \in Seq(S)
         /\ Range(Append(s, e)) = Range(s) \union {e}
         /\ DOMAIN Append(s, e) = DOMAIN s \union {Len(s) + 1}
         /\ Append(s, e)[Len(s) + 1] = e
         /\ \A i \in DOMAIN s : Append(s, e)[i] = s[i] /\ i # Len(s) + 1
  BY AppendProperties DEF Range

LEMMA ConcatRange ==
  ASSUME NEW S, NEW s \in Seq(S), NEW t \in Seq(S)
  PROVE  /\ s \o t \in Seq(S)
         /\ Range(s \o t) = Range(s) \union Range(t)
<1>1. /\ s \o t \in Seq(S) /\ Len(s \o t) = Len(s) + Len(t)
      /\ \A i \in 1 .. Len(s) + Len(t) : (s \o t)[i] = IF i <= Len(s) THEN s[i] ELSE t[i - Len(s)]
  BY ConcatProperties
<1>2. ASSUME NEW i \in DOMAIN (s \o t)
      PROVE  (s \o t)[i] \in Range(s) \union Range(t)
  <2>1. i <= Len(s) => i \in DOMAIN s
    BY <1>1
  <2>2. i > Len(s) => i - Len(s) \in DOMAIN t
    BY <1>1
  <2> QED
    BY <1>1, <2>1, <2>2 DEF Range
<1>3. ASSUME NEW i \in DOMAIN s
      PROVE  s[i] \in Range(s \o t)
  BY <1>1 DEF Range
<1>4. ASSUME NEW i \in DOMAIN t
      PROVE  t[i] \in Range(s \o t)
  <2>1. /\ Len(s) + i \in DOMAIN (s \o t) /\ ~(Len(s) + i <= Len(s))
        /\ (Len(s) + i) - Len(s) = i
    BY <1>1
  <2> QED
    BY <1>1, <2>1 DEF Range
<1>5. Range(s \o t) = Range(s) \union Range(t)
  BY <1>2, <1>3, <1>4, Zenon DEF Range
<1> QED
  BY <1>1, <1>5

LEMMA TailRange ==
  ASSUME NEW S, NEW s \in Seq(S), s # <<>>
  PROVE  /\ Tail(s) \in Seq(S) /\ Head(s) \in Range(s) /\ Head(s) \in S
         /\ Range(s) = Range(Tail(s)) \union {Head(s)}
         /\ \A i \in DOMAIN Tail(s) : i + 1 \in DOMAIN s /\ Tail(s)[i] = s[i + 1]
<1>1. /\ Tail(s) \in Seq(S) /\ Len(Tail(s)) = Len(s) - 1 /\ Len(s) >= 1
      /\ \A i \in 1 .. Len(Tail(s)) : Tail(s)[i] = s[i + 1]
  BY HeadTailProperties, EmptySeq
<1>2. Head(s) = s[1] /\ 1 \in DOMAIN s
  BY <1>1
<1>3. \A i \in DOMAIN Tail(s) : i + 1 \in DOMAIN s /\ Tail(s)[i] = s[i + 1]
  BY <1>1
<1>4. \A i \in DOMAIN s : i = 1 \/ (i - 1 \in DOMAIN Tail(s) /\ Tail(s)[i - 1] = s[i])
  BY <1>1
<1>5. \A i \in DOMAIN s : s[i] \in Range(Tail(s)) \union {Head(s)}
  BY <1>2, <1>4 DEF Range
<1>6. \A i \in DOMAIN Tail(s) : Tail(s)[i] \in Range(s)
  BY <1>3 DEF Range
<1>7. Head(s) \in Range(s) /\ Head(s) \in S
  BY <1>2 DEF Range
<1>8. Range(s) = Range(Tail(s)) \union {Head(s)}
  BY <1>5, <1>6, <1>7, Zenon DEF Range
<1> QED
  BY <1>1, <1>3, <1>7, <1>8

(* Where the elements of a sequence are, when one is taken out.              *)
LEMMA RemoveAtProperties ==
  ASSUME NEW S, NEW s \in Seq(S), NEW k \in DOMAIN s
  PROVE  /\ RemoveAt(s, k) \in Seq(S)
         /\ DOMAIN RemoveAt(s, k) = 1 .. Len(s) - 1
         /\ \A i \in 1 .. Len(s) - 1 : RemoveAt(s, k)[i] = IF i < k THEN s[i] ELSE s[i + 1]
         /\ Range(s) = Range(RemoveAt(s, k)) \union {s[k]}
<1> DEFINE a == SubSeq(s, 1, k - 1)
           b == SubSeq(s, k + 1, Len(s))
<1>1. k \in 1 .. Len(s) /\ Len(s) \in Nat /\ DOMAIN s = 1 .. Len(s)
  OBVIOUS
<1>2. a \in Seq(S) /\ Len(a) = k - 1 /\ \A i \in 1 .. k - 1 : a[i] = s[i]
  <2>1. /\ a \in Seq(S) /\ Len(a) = IF 1 <= k - 1 THEN (k - 1) - 1 + 1 ELSE 0
        /\ \A i \in 1 .. (k - 1) - 1 + 1 : a[i] = s[1 + i - 1]
    <3>1. \A i \in 1 .. k - 1 : s[i] \in S
      BY <1>1
    <3> QED
      BY <1>1, <3>1, SubSeqProperties
  <2> QED
    BY <1>1, <2>1
<1>3. b \in Seq(S) /\ Len(b) = Len(s) - k /\ \A i \in 1 .. Len(s) - k : b[i] = s[k + i]
  <2>1. /\ b \in Seq(S) /\ Len(b) = IF k + 1 <= Len(s) THEN Len(s) - (k + 1) + 1 ELSE 0
        /\ \A i \in 1 .. Len(s) - (k + 1) + 1 : b[i] = s[(k + 1) + i - 1]
    <3>1. \A i \in k + 1 .. Len(s) : s[i] \in S
      BY <1>1
    <3> QED
      BY <1>1, <3>1, SubSeqProperties
  <2> QED
    BY <1>1, <2>1
<1>4. RemoveAt(s, k) = a \o b
  BY DEF RemoveAt
<1> HIDE DEF a, b
<1>5. /\ RemoveAt(s, k) \in Seq(S) /\ Len(RemoveAt(s, k)) = Len(s) - 1
      /\ \A i \in 1 .. Len(s) - 1 :
             RemoveAt(s, k)[i] = IF i <= k - 1 THEN a[i] ELSE b[i - (k - 1)]
  <2>1. /\ a \o b \in Seq(S) /\ Len(a \o b) = Len(a) + Len(b)
        /\ \A i \in 1 .. Len(a) + Len(b) :
               (a \o b)[i] = IF i <= Len(a) THEN a[i] ELSE b[i - Len(a)]
    BY <1>2, <1>3, ConcatProperties
  <2>2. Len(a) = k - 1 /\ Len(a) + Len(b) = Len(s) - 1
    BY <1>1, <1>2, <1>3
  <2> QED
    BY <1>4, <2>1, <2>2
<1>6. ASSUME NEW i \in 1 .. Len(s) - 1
      PROVE  RemoveAt(s, k)[i] = IF i < k THEN s[i] ELSE s[i + 1]
  <2>1. CASE i < k
    <3>1. i <= k - 1 /\ i \in 1 .. k - 1
      BY <1>1, <2>1
    <3> QED
      BY <1>2, <1>5, <2>1, <3>1
  <2>2. CASE ~(i < k)
    <3>1. /\ ~(i <= k - 1) /\ i - (k - 1) \in 1 .. Len(s) - k
          /\ k + (i - (k - 1)) = i + 1
      BY <1>1, <2>2
    <3> QED
      BY <1>3, <1>5, <2>2, <3>1
  <2> QED
    BY <2>1, <2>2
<1>7. DOMAIN RemoveAt(s, k) = 1 .. Len(s) - 1
  BY <1>5
<1>8. ASSUME NEW i \in DOMAIN s, i # k
      PROVE  s[i] \in Range(RemoveAt(s, k))
  <2>1. CASE i < k
    BY <1>1, <1>6, <1>7, <2>1 DEF Range
  <2>2. CASE i > k
    <3>1. i - 1 \in 1 .. Len(s) - 1 /\ ~(i - 1 < k) /\ (i - 1) + 1 = i
      BY <1>1, <2>2
    <3> QED
      BY <1>6, <1>7, <3>1 DEF Range
  <2> QED
    BY <1>1, <1>8, <2>1, <2>2
<1>9. ASSUME NEW i \in DOMAIN RemoveAt(s, k)
      PROVE  RemoveAt(s, k)[i] \in Range(s)
  <2>1. i \in DOMAIN s /\ i + 1 \in DOMAIN s
    BY <1>1, <1>7
  <2> QED
    BY <1>6, <1>7, <2>1 DEF Range
<1>10. s[k] \in Range(s)
  BY DEF Range
<1>11. Range(s) = Range(RemoveAt(s, k)) \union {s[k]}
  BY <1>8, <1>9, <1>10, Zenon DEF Range
<1> QED
  BY <1>5, <1>6, <1>7, <1>11

-----------------------------------------------------------------------------
(* The worker's queue.                                                       *)

(* There are as many new ids as there is room for.                           *)
LEMMA NewIdsProperties ==
  ASSUME NEW n \in Nat, RoomFor(n)
  PROVE  NewIds(n, InFlightIds) \in [1 .. n -> FreeIds(InFlightIds)]
<1> DEFINE F == FreeIds(InFlightIds)
<1>1. IsFiniteSet(F)
  <2>1. F \in SUBSET (1 .. MaxTasks)
    BY DEF FreeIds
  <2>2. IsFiniteSet(1 .. MaxTasks)
    BY FS_Interval
  <2> HIDE DEF F
  <2> QED
    BY <2>1, <2>2, FS_Subset
<1>2. PICK g : g \in Bijection(1 .. Cardinality(F), F)
  BY <1>1, FS_CardinalityType DEF ExistsBijection
<1>3. Cardinality(F) \in Nat /\ Cardinality(F) >= n
  BY <1>1, FS_CardinalityType DEF RoomFor
<1> DEFINE f == [i \in 1 .. n |-> g[i]]
<1> HIDE DEF F
<1>4. f \in Injection(1 .. n, F)
  <2>1. g \in [1 .. Cardinality(F) -> F] /\ \A i, j \in 1 .. Cardinality(F) : g[i] = g[j] => i = j
    BY <1>2 DEF Bijection, Injection, IsInjective
  <2>2. 1 .. n \subseteq 1 .. Cardinality(F)
    BY <1>3
  <2> QED
    BY <2>1, <2>2 DEF Injection, IsInjective
<1>5. NewIds(n, InFlightIds) \in Injection(1 .. n, F)
  BY <1>4 DEF NewIds, F
<1> QED
  BY <1>5 DEF Injection, F

(* The head of the queue is in it.                                           *)
LEMMA NextUpProperties ==
  ASSUME WorkerInv, queue # <<>>
  PROVE  NextUp \in DOMAIN queue
<1>1. /\ \A i \in DOMAIN queue : queue[i].priority \in Nat
      /\ DOMAIN queue = 1 .. Len(queue) /\ Len(queue) \in Nat /\ Len(queue) # 0
  <2>1. \A i \in DOMAIN queue : queue[i] \in Tasks
    BY DEF WorkerInv
  <2>2. Len(queue) \in Nat /\ Len(queue) # 0 /\ DOMAIN queue = 1 .. Len(queue)
    BY EmptySeq DEF WorkerInv
  <2> QED
    BY <2>1, <2>2 DEF Tasks, Priorities, Interactive, Purchasing, Monitoring
<1> DEFINE P == {queue[i].priority : i \in DOMAIN queue}
<1>2. PICK p \in P : \A q \in P : p <= q
  <2>1. P \in SUBSET Nat /\ P # {}
    BY <1>1
  <2> HIDE DEF P
  <2> QED
    BY <2>1, LeastNatural
<1> DEFINE I == {i \in DOMAIN queue : queue[i].priority = p}
<1>3. PICK k \in I : \A i \in I : k <= i
  <2>1. I \in SUBSET Nat /\ I # {}
    BY <1>1, <1>2
  <2> HIDE DEF I, P
  <2> QED
    BY <2>1, LeastNatural
<1>4. ASSUME NEW j \in DOMAIN queue, ~(queue[k].priority < queue[j].priority)
      PROVE  queue[k].priority = queue[j].priority /\ k <= j
  <2>1. queue[k].priority = p /\ p <= queue[j].priority
    BY <1>2, <1>3
  <2>2. queue[j].priority = p
    BY <1>1, <1>4, <2>1
  <2> QED
    BY <1>3, <2>1, <2>2
<1> QED
  BY <1>3, <1>4 DEF NextUp

(* Flags change nothing else about the tasks.                                *)
LEMMA FlagTasksProperties ==
  ASSUME WorkerInv, NEW tasks, FlagTasks(tasks)
  PROVE  /\ queue' \in Seq(Tasks) /\ DOMAIN queue' = DOMAIN queue
         /\ running' \in Tasks \union {NoTask} /\ (running' = NoTask <=> running = NoTask)
         /\ \A i \in DOMAIN queue : /\ queue'[i].id = queue[i].id
                                    /\ queue'[i].priority = queue[i].priority
                                    /\ queue'[i].context = queue[i].context
                                    /\ queue[i].cancel => queue'[i].cancel
                                    /\ queue[i] \in tasks => queue'[i].cancel
         /\ running'.id = running.id /\ running'.priority = running.priority
         /\ running'.context = running.context
         /\ running.cancel => running'.cancel
         /\ running # NoTask /\ running \in tasks => running'.cancel
<1> USE DEF FlagTasks
<1>1. ASSUME NEW t \in Tasks
      PROVE  /\ Flag(t, tasks) \in Tasks /\ Flag(t, tasks).id = t.id
             /\ Flag(t, tasks).priority = t.priority /\ Flag(t, tasks).context = t.context
             /\ t.cancel => Flag(t, tasks).cancel
             /\ t \in tasks => Flag(t, tasks).cancel
             /\ Flag(t, tasks) # NoTask /\ t # NoTask
  <2>1. t.id # 0 /\ NoTask.id = 0
    BY DEF Tasks, NoTask
  <2>2. CASE t \in tasks
    <3>1. Flag(t, tasks) = [t EXCEPT !.cancel = TRUE]
      BY <2>1, <2>2 DEF Flag
    <3>2. /\ [t EXCEPT !.cancel = TRUE] \in Tasks /\ [t EXCEPT !.cancel = TRUE].id = t.id
          /\ [t EXCEPT !.cancel = TRUE].priority = t.priority
          /\ [t EXCEPT !.cancel = TRUE].context = t.context
          /\ [t EXCEPT !.cancel = TRUE].cancel
      BY DEF Tasks
    <3> QED
      BY <2>1, <3>1, <3>2
  <2>3. CASE t \notin tasks
    BY <2>1, <2>3 DEF Flag
  <2> QED
    BY <2>2, <2>3
<1>2. Flag(NoTask, tasks) = NoTask
  BY DEF Flag, NoTask
<1>3. \A i \in DOMAIN queue : queue[i] \in Tasks
  BY DEF WorkerInv
<1>4. queue' = [i \in DOMAIN queue |-> Flag(queue[i], tasks)] /\ running' = Flag(running, tasks)
  OBVIOUS
<1>5. queue' \in Seq(Tasks) /\ DOMAIN queue' = DOMAIN queue
  BY <1>1, <1>3, <1>4 DEF WorkerInv
<1>6. CASE running = NoTask
  BY <1>1, <1>2, <1>3, <1>4, <1>5, <1>6
<1>7. CASE running \in Tasks
  BY <1>1, <1>3, <1>4, <1>5, <1>7
<1> QED
  BY <1>6, <1>7 DEF WorkerInv

(* What a task is submitted with.                                            *)
LEMMA SubmissionProperties ==
  ASSUME NEW c \in Submissions
  PROVE  /\ c.kind \in {"check", "purchase"} /\ c.watch \in Watches
         /\ c.kind = "check" => c.action \in {"notify", "buy"}
  BY DEF Submissions

LEMMA RunningTask ==
  ASSUME WorkerInv, running.id # 0
  PROVE  running \in Tasks /\ running.context.watch \in Watches
  BY SubmissionProperties DEF WorkerInv, NoTask, Tasks

(* The report of a task that ends.                                           *)
LEMMA FinishProperties ==
  ASSUME WorkerInv, running.id # 0, NEW result \in Results,
         NEW kind \in {"finished", "failed", "cancelled"}, FinishTask(kind, result)
  PROVE  /\ signals' \in Seq(TaskReports)
         /\ Range(signals') = Range(signals) \union {Report(kind, running, result)}
         /\ Report(kind, running, result).kind = kind
         /\ Report(kind, running, result).id = running.id
         /\ Report(kind, running, result).context = running.context
         /\ running' = NoTask /\ UNCHANGED <<queue, stopping>>
         /\ workerState' \in {workerState, "idle"}
<1>1. Report(kind, running, result) \in TaskReports
  BY RunningTask DEF Report, TaskReports, Tasks
<1>2. signals' = Append(signals, Report(kind, running, result))
  BY DEF FinishTask
<1>3. /\ signals' \in Seq(TaskReports)
      /\ Range(signals') = Range(signals) \union {Report(kind, running, result)}
  BY <1>1, <1>2, AppendRange DEF WorkerInv
<1> QED
  BY <1>3 DEF FinishTask, Report

(* A report that is handled.                                                 *)
LEMMA HandlingProperties ==
  ASSUME WorkerInv, NEW kind, NEW of, Handling(kind, of)
  PROVE  /\ signals' \in Seq(TaskReports) /\ Head(signals) \in TaskReports
         /\ Range(signals) = Range(signals') \union {Head(signals)}
         /\ Head(signals) \in Range(signals) /\ Head(signals).kind = kind
         /\ Head(signals).context.kind = of /\ Reported \in Watches /\ ~stopping
<1>1. signals \in Seq(TaskReports) /\ signals # <<>> /\ signals' = Tail(signals)
  BY DEF Handling, WorkerInv
<1>2. /\ signals' \in Seq(TaskReports) /\ Head(signals) \in TaskReports
      /\ Range(signals) = Range(signals') \union {Head(signals)}
      /\ Head(signals) \in Range(signals)
  BY <1>1, TailRange
<1> QED
  BY <1>2, SubmissionProperties DEF Handling, Reported, TaskReports

(* The tasks that are taken off the queue, one or all of them.               *)
LEMMA TakeProperties ==
  ASSUME WorkerInv, TakeTask
  PROVE  /\ NextUp \in DOMAIN queue /\ running' = queue[NextUp]
         /\ queue' \in Seq(Tasks) /\ running' \in Tasks /\ found = NothingFound
         /\ DOMAIN queue' = 1 .. Len(queue) - 1
         /\ \A i \in 1 .. Len(queue) - 1 :
                queue'[i] = IF i < NextUp THEN queue[i] ELSE queue[i + 1]
         /\ Range(queue) = Range(queue') \union {running'}
<1>1. NextUp \in DOMAIN queue /\ queue \in Seq(Tasks)
  BY NextUpProperties DEF TakeTask, WorkerInv
<1>2. queue' = RemoveAt(queue, NextUp) /\ running' = queue[NextUp] /\ found = NothingFound
  BY DEF TakeTask, WorkerInv
<1> QED
  BY <1>1, <1>2, RemoveAtProperties

LEMMA StopProperties ==
  ASSUME WorkerInv, StopThread
  PROVE  /\ signals' \in Seq(TaskReports) /\ Range(signals) \subseteq Range(signals')
         /\ \A t \in Range(queue) : \E s \in Range(signals') :
                s.id = t.id /\ s.context = t.context
         /\ queue' = <<>> /\ running = NoTask /\ running' = NoTask
         /\ stopping /\ stopping' = stopping
<1> DEFINE abandoned == [i \in DOMAIN queue |-> Report("cancelled", queue[i], "none")]
<1>1. \A i \in DOMAIN queue : queue[i] \in Tasks
  BY DEF WorkerInv
<1>2. abandoned \in Seq(TaskReports)
  <2>1. \A i \in DOMAIN queue : abandoned[i] \in TaskReports
    BY <1>1 DEF Report, TaskReports, Tasks, Results
  <2>2. DOMAIN queue = 1 .. Len(queue) /\ Len(queue) \in Nat
    BY DEF WorkerInv
  <2> QED
    BY <2>1, <2>2
<1>3. signals' = signals \o abandoned \o abandoned
  BY DEF StopThread
<1> HIDE DEF abandoned
<1>4. /\ signals' \in Seq(TaskReports)
      /\ Range(signals') = Range(signals) \union Range(abandoned) \union Range(abandoned)
  <2>1. signals \in Seq(TaskReports)
    BY DEF WorkerInv
  <2>2. \A s, a \in Seq(TaskReports) :
            s \o a \in Seq(TaskReports) /\ Range(s \o a) = Range(s) \union Range(a)
    BY ConcatRange
  <2>3. /\ signals \o abandoned \in Seq(TaskReports)
        /\ Range(signals \o abandoned) = Range(signals) \union Range(abandoned)
    BY <1>2, <2>1, <2>2
  <2> QED
    BY <1>2, <1>3, <2>2, <2>3
<1>5. ASSUME NEW t \in Range(queue)
      PROVE  \E s \in Range(signals') : s.id = t.id /\ s.context = t.context
  <2>1. PICK i \in DOMAIN queue : t = queue[i]
    BY DEF Range
  <2>2. abandoned[i] \in Range(abandoned)
    BY DEF Range, abandoned
  <2>3. abandoned[i].id = t.id /\ abandoned[i].context = t.context
    BY <2>1 DEF abandoned, Report
  <2> QED
    BY <1>4, <2>2, <2>3
<1> QED
  BY <1>4, <1>5 DEF StopThread

(* The checks that are queued, and the watches that are in flight with them. *)
LEMMA DispatchProperties ==
  ASSUME TypeOK, WorkerInv, NEW order \in Seq(Watches), RoomFor(Len(order)),
         NEW priority \in Priorities, DispatchAll(order, priority)
  PROVE  /\ queue' \in Seq(Tasks) /\ DOMAIN queue \subseteq DOMAIN queue'
         /\ \A i \in DOMAIN queue : queue'[i] = queue[i]
         /\ \A i \in DOMAIN queue' \ DOMAIN queue :
                queue'[i].priority = priority /\ queue'[i].context.kind = "check"
         /\ inFlight' \in [Watches -> 0 .. MaxTasks]
         /\ \A w \in Watches : \/ inFlight'[w] = inFlight[w]
                               \/ \E t \in Range(queue') : /\ t.id = inFlight'[w]
                                                           /\ t.context.kind = "check"
                                                           /\ t.context.watch = w
         /\ gap' = Gap
<1> DEFINE ids == NewIds(Len(order), InFlightIds)
           place(w) == CHOOSE i \in DOMAIN order : order[i] = w
           new == [i \in DOMAIN order |-> Task(ids[i], priority, Check(order[i]))]
<1>1. /\ queue' = queue \o new /\ gap' = Gap
      /\ inFlight' = [w \in Watches |-> IF w \in Range(order) THEN ids[place(w)] ELSE inFlight[w]]
  BY DEF DispatchAll
<1>2. Len(order) \in Nat /\ DOMAIN order = 1 .. Len(order)
  OBVIOUS
<1>3. \A i \in DOMAIN order : ids[i] \in 1 .. MaxTasks
  BY <1>2, NewIdsProperties DEF FreeIds
<1> HIDE DEF ids
<1>4. ASSUME NEW i \in DOMAIN order
      PROVE  /\ new[i] \in Tasks /\ new[i].id = ids[i] /\ new[i].priority = priority
             /\ new[i].context.kind = "check" /\ new[i].context.watch = order[i]
  <2>1. Check(order[i]) \in Submissions
    <3>1. watches[order[i]].action \in {"notify", "buy"} /\ order[i] \in Watches
      BY DEF TypeOK
    <3> QED
      BY <3>1 DEF Check, Submissions
  <2>2. Check(order[i]).kind = "check" /\ Check(order[i]).watch = order[i]
    BY DEF Check
  <2> QED
    BY <1>3, <2>1, <2>2 DEF Task, Tasks
<1>5. new \in Seq(Tasks) /\ DOMAIN new = DOMAIN order /\ Len(new) = Len(order)
  BY <1>2, <1>4
<1> HIDE DEF new
<1>6. queue \in Seq(Tasks) /\ Len(queue) \in Nat /\ DOMAIN queue = 1 .. Len(queue)
  BY DEF WorkerInv
<1>7. /\ queue' \in Seq(Tasks) /\ Len(queue') = Len(queue) + Len(new)
      /\ \A i \in 1 .. Len(queue) + Len(new) :
             queue'[i] = IF i <= Len(queue) THEN queue[i] ELSE new[i - Len(queue)]
      /\ Range(queue') = Range(queue) \union Range(new)
  <2>1. /\ queue \o new \in Seq(Tasks) /\ Len(queue \o new) = Len(queue) + Len(new)
        /\ \A i \in 1 .. Len(queue) + Len(new) :
               (queue \o new)[i] = IF i <= Len(queue) THEN queue[i] ELSE new[i - Len(queue)]
    <3>1. \A q, n \in Seq(Tasks) :
              /\ q \o n \in Seq(Tasks) /\ Len(q \o n) = Len(q) + Len(n)
              /\ \A i \in 1 .. Len(q) + Len(n) :
                     (q \o n)[i] = IF i <= Len(q) THEN q[i] ELSE n[i - Len(q)]
      BY ConcatProperties
    <3> QED
      BY <1>5, <1>6, <3>1
  <2>2. Range(queue \o new) = Range(queue) \union Range(new)
    BY <1>5, <1>6, ConcatRange
  <2> QED
    BY <1>1, <2>1, <2>2
<1>8. DOMAIN queue \subseteq DOMAIN queue' /\ \A i \in DOMAIN queue : queue'[i] = queue[i]
  BY <1>2, <1>5, <1>6, <1>7
<1>9. ASSUME NEW i \in DOMAIN queue' \ DOMAIN queue
      PROVE  queue'[i].priority = priority /\ queue'[i].context.kind = "check"
  <2>1. i - Len(queue) \in DOMAIN order /\ queue'[i] = new[i - Len(queue)]
    BY <1>2, <1>5, <1>6, <1>7
  <2> QED
    BY <1>4, <2>1
<1>10. ASSUME NEW w \in Range(order)
       PROVE  place(w) \in DOMAIN order /\ order[place(w)] = w
  BY DEF Range
<1> HIDE DEF place
<1>11. inFlight' \in [Watches -> 0 .. MaxTasks]
  BY <1>1, <1>3, <1>10 DEF TypeOK
<1>12. ASSUME NEW w \in Watches, w \in Range(order)
       PROVE  \E t \in Range(queue') : /\ t.id = inFlight'[w] /\ t.context.kind = "check"
                                       /\ t.context.watch = w
  <2>1. new[place(w)] \in Range(queue')
    BY <1>5, <1>7, <1>10, <1>12 DEF Range
  <2>2. inFlight'[w] = ids[place(w)]
    BY <1>1, <1>12
  <2> QED
    BY <1>4, <1>10, <1>12, <2>1, <2>2
<1>13. \A w \in Watches : w \notin Range(order) => inFlight'[w] = inFlight[w]
  BY <1>1
<1> QED
  BY <1>1, <1>7, <1>8, <1>9, <1>11, <1>12, <1>13

-----------------------------------------------------------------------------
(* What the steps that dispatch have in common.                              *)

(* A tick dispatches one background check, or none.                          *)
LEMMA TickProperties ==
  ASSUME TypeOK, OnTick \/ OnTickAfterSleep
  PROVE  /\ scheduling /\ watches' \in [Watches -> [status : Statuses,
                                              action : {"notify", "buy"}, wait : Nat]]
         /\ UNCHANGED <<running, signals, stopping, workerState, scheduling, enabled, found,
                        taken, bought>>
         /\ \/ UNCHANGED <<queue, inFlight>> /\ gap' \in 0 .. Gap
            \/ \E w \in Watches : RoomFor(1) /\ DispatchAll(<<w>>, Monitoring)
<1> DEFINE Rows == [Watches -> [status : Statuses, action : {"notify", "buy"}, wait : Nat]]
<1>1. ASSUME NEW t \in Rows, NEW ended \in SUBSET MayEnd(t)
      PROVE  Expired(t, ended) \in Rows
  BY DEF Expired, Statuses, Finished
<1>2. ASSUME NEW t \in Rows, NEW pacing \in 0 .. Gap, Tick(t, pacing), RoomFor(1)
      PROVE  /\ watches' \in Rows
             /\ \/ UNCHANGED <<queue, inFlight>> /\ gap' \in 0 .. Gap
                \/ \E w \in Watches : RoomFor(1) /\ DispatchAll(<<w>>, Monitoring)
  <2> PICK ended \in SUBSET MayEnd(t) :
        LET rows == Expired(t, ended)
            due == {w \in Watches : rows[w].status \in Active /\ rows[w].wait = 0}
        IN  /\ watches' = rows
            /\ IF pacing > 0 \/ \A w \in due : inFlight[w] # 0
               THEN gap' = pacing /\ UNCHANGED <<queue, inFlight>>
               ELSE \E claimed \in SUBSET due :
                      /\ Cardinality(claimed) = Min({MaxJobsPerTick, Cardinality(due)})
                      /\ IF \A w \in claimed : inFlight[w] # 0
                         THEN gap' = pacing /\ UNCHANGED <<queue, inFlight>>
                         ELSE \E w \in claimed : inFlight[w] = 0 /\ DispatchAll(<<w>>, Monitoring)
    BY <1>2 DEF Tick
  <2>1. watches' \in Rows
    BY <1>1
  <2>2. \/ gap' = pacing /\ UNCHANGED <<queue, inFlight>>
        \/ \E w \in Watches : DispatchAll(<<w>>, Monitoring)
    OBVIOUS
  <2> QED
    BY <1>2, <2>1, <2>2
<1>3. ASSUME NEW order \in SetToSeqs({w \in Watches : IsActive(w)})
      PROVE  Staggered(order) \in Rows
  <2>1. /\ DOMAIN order \subseteq Nat
        /\ \A w \in Range(order) : (CHOOSE i \in DOMAIN order : order[i] = w) \in DOMAIN order
    BY DEF SetToSeqs, Range
  <2>2. ASSUME NEW w \in Watches, NEW n \in Nat
        PROVE  [watches[w] EXCEPT !.wait = n] \in [status : Statuses, action : {"notify", "buy"},
                                                   wait : Nat]
    BY DEF TypeOK
  <2>3. \A w \in Range(order) : (CHOOSE i \in DOMAIN order : order[i] = w) \in Nat
    BY <2>1
  <2>4. watches \in Rows
    BY DEF TypeOK
  <2> QED
    BY <2>2, <2>3, <2>4 DEF Staggered
<1>4. watches \in Rows /\ gap \in 0 .. Gap /\ 0 \in 0 .. Gap
  BY DEF TypeOK
<1> HIDE DEF Rows
<1>5. CASE OnTick
  BY <1>2, <1>4, <1>5 DEF OnTick, Rows
<1>6. CASE OnTickAfterSleep
  BY <1>2, <1>3, <1>4, <1>6 DEF OnTickAfterSleep, Rows
<1> QED
  BY <1>5, <1>6

(* The user's request is for one watch, or for all that are idle.            *)
LEMMA RequestProperties ==
  ASSUME CheckAllNow \/ \E w \in Watches : CheckNow(w)
  PROVE  /\ \E order \in Seq(Watches) : RoomFor(Len(order)) /\ DispatchAll(order, Interactive)
         /\ UNCHANGED <<running, signals, stopping, workerState, watches, scheduling, enabled,
                        found, taken, bought>>
<1>1. CASE CheckAllNow
  <2> DEFINE idle == {w \in Watches : IsActive(w) /\ inFlight[w] = 0}
  <2>1. Cardinality(idle) \in Nat
    <3>1. IsFiniteSet(idle)
      BY FS_Subset
    <3> HIDE DEF idle
    <3> QED
      BY <3>1, FS_CardinalityType
  <2>2. PICK order \in SetToSeqs(idle) :
          DispatchAll(order, Interactive) /\ RoomFor(Cardinality(idle))
    BY <1>1 DEF CheckAllNow
  <2>3. order \in [1 .. Cardinality(idle) -> idle]
    BY DEF SetToSeqs
  <2>4. order \in Seq(Watches) /\ Len(order) = Cardinality(idle)
    <3>1. idle \subseteq Watches
      OBVIOUS
    <3> HIDE DEF idle
    <3> QED
      BY <2>1, <2>3, <3>1
  <2> QED
    BY <1>1, <2>2, <2>4 DEF CheckAllNow
<1>2. CASE \E w \in Watches : CheckNow(w)
  <2> PICK w \in Watches : CheckNow(w)
    BY <1>2
  <2>1. <<w>> \in Seq(Watches) /\ Len(<<w>>) = 1
    OBVIOUS
  <2> QED
    BY <2>1 DEF CheckNow
<1> QED
  BY <1>1, <1>2

-----------------------------------------------------------------------------
(* Types.                                                                    *)

LEMMA ReportsTypes ==
  ASSUME TypeOK, WorkerInv, Reports
  PROVE  WorkerInv'
<1> USE DEF WorkerInv
<1>1. CASE OnFinished
  <2>1. signals' \in Seq(TaskReports) /\ Reported \in Watches
    BY <1>1, HandlingProperties DEF OnFinished
  <2>2. queue' \in Seq(Tasks)
    <3>1. CASE UNCHANGED queue
      BY <3>1
    <3>2. CASE RoomFor(1) /\ queue' = Append(queue, Task(NewIds(1, InFlightIds)[1], Purchasing, Purchase(Reported)))
      <4>1. NewIds(1, InFlightIds)[1] \in 1 .. MaxTasks
        BY <3>2, NewIdsProperties DEF FreeIds
      <4>2. Purchase(Reported) \in Submissions
        BY <2>1 DEF Purchase, Submissions
      <4>3. Task(NewIds(1, InFlightIds)[1], Purchasing, Purchase(Reported)) \in Tasks
        BY <4>1, <4>2 DEF Task, Tasks, Priorities
      <4> QED
        BY <3>2, <4>3, AppendRange
    <3> QED
      BY <1>1, <3>1, <3>2 DEF OnFinished, AskForPurchase, NoLivePurchase
  <2> QED
    BY <1>1, <2>1, <2>2 DEF OnFinished
<1>2. CASE OnFailed
  <2>1. signals' \in Seq(TaskReports)
    BY <1>2, HandlingProperties DEF OnFailed
  <2>2. \/ UNCHANGED <<queue, running>>
        \/ FlagTasks({t \in Outstanding : t.priority = Monitoring})
    BY <1>2 DEF OnFailed, StopMonitoring
  <2> QED
    BY <1>2, <2>1, <2>2, FlagTasksProperties DEF OnFailed
<1>3. CASE OnCancelled
  BY <1>3, HandlingProperties DEF OnCancelled
<1>4. CASE OnPurchaseReport
  <2>1. signals' \in Seq(TaskReports)
    BY <1>4, HandlingProperties DEF OnPurchaseReport
  <2> QED
    BY <1>4, <2>1 DEF OnPurchaseReport
<1> QED
  BY <1>1, <1>2, <1>3, <1>4 DEF Reports

LEMMA NothingFoundType == NothingFound \in [status : Statuses, buy : BOOLEAN]
  BY DEF NothingFound, Statuses

LEMMA WorkerStepsTypes ==
  ASSUME TypeOK, WorkerInv, WorkerSteps
  PROVE  WorkerInv'
<1> USE DEF WorkerInv
<1>1. CASE (StartThread \/ PrepareBrowser) /\ UNCHANGED watchVars
  BY <1>1 DEF StartThread, PrepareBrowser, watchVars
<1>2. CASE TakeTask /\ UNCHANGED watchVars
  BY <1>2, TakeProperties DEF TakeTask, watchVars
<1>3. CASE StopThread /\ UNCHANGED watchVars
  <2>1. UNCHANGED found
    BY <1>3 DEF watchVars
  <2>2. <<>> \in Seq(Tasks)
    OBVIOUS
  <2> QED
    BY <1>3, <2>1, <2>2, StopProperties
<1>4. CASE ReadPage
  <2>1. running.id # 0 /\ UNCHANGED <<queue, running, signals>>
    BY <1>4 DEF ReadPage, Checking, workerVars
  <2>2. PICK page \in Pages : found' = Decision(running.context.action, page)
    BY <1>4 DEF ReadPage
  <2>3. \A a, b : ShouldBuy(a, b.inStock, b.price, b.passed) \in BOOLEAN
    BY DEF ShouldBuy
  <2>4. \A b : StatusAfter(b.inStock, b.price, Target) \in Statuses
    BY DEF StatusAfter, Statuses, Active
  <2>5. found' \in [status : Statuses, buy : BOOLEAN]
    BY <2>2, <2>3, <2>4 DEF Decision
  <2> QED
    BY <2>1, <2>5, RunningTask DEF NoTask
<1>5. CASE FailCheck
  <2> PICK e \in Errors : FinishTask("failed", e)
    BY <1>5 DEF FailCheck
  <2>1. running.id # 0 /\ e \in Results /\ found = NothingFound /\ found' = found
    BY <1>5 DEF FailCheck, Checking, Results, watchVars
  <2> QED
    BY <2>1, FinishProperties
<1>6. CASE CancelCheck
  <2>1. /\ running.id # 0 /\ "none" \in Results /\ found = NothingFound /\ found' = found
        /\ FinishTask("cancelled", "none")
    BY <1>6 DEF CancelCheck, ObserveCancel, Checking, Results, watchVars
  <2> QED
    BY <2>1, FinishProperties
<1>7. CASE RecordCheck
  <2>1. /\ running.id # 0 /\ found' = NothingFound
        /\ \E kind \in {"finished", "failed"}, result \in Results : FinishTask(kind, result)
    BY <1>7 DEF RecordCheck, Checking, Results
  <2> QED
    BY <2>1, FinishProperties, NothingFoundType
<1>8. CASE ConfirmOrder
  <2>1. [NothingFound EXCEPT !.status = "purchase_completed"] \in [status : Statuses, buy : BOOLEAN]
    BY DEF NothingFound, Statuses, Finished
  <2> QED
    BY <1>8, <2>1, RunningTask DEF ConfirmOrder, Buying, workerVars, NoTask
<1>9. CASE CompleteWatch \/ EndWithoutOrder \/ EndInDoubt \/ EndNeedingUser
  <2>1. /\ running.id # 0 /\ found' = NothingFound /\ "none" \in Results
        /\ FinishTask("finished", "none")
    BY <1>9 DEF CompleteWatch, EndWithoutOrder, EndInDoubt, EndNeedingUser, Buying, Results,
       watchVars
  <2> QED
    BY <2>1, FinishProperties, NothingFoundType
<1> QED
  BY <1>1, <1>2, <1>3, <1>4, <1>5, <1>6, <1>7, <1>8, <1>9 DEF WorkerSteps

LEMMA OtherTypes ==
  ASSUME TypeOK, WorkerInv,
         WatchListSteps \/ OtherSteps \/ Clock \/ Exit \/ Restart \/ UNCHANGED vars
  PROVE  WorkerInv'
<1> USE DEF WorkerInv
<1>1. CASE Clock
  <2>1. CASE Elapse
    BY <2>1 DEF Elapse, workerVars
  <2>2. CASE OnTick \/ OnTickAfterSleep
    <3>1. /\ UNCHANGED <<running, signals, found>>
          /\ \/ UNCHANGED queue
             \/ \E w \in Watches : RoomFor(1) /\ DispatchAll(<<w>>, Monitoring)
      BY <2>2, TickProperties
    <3>2. ASSUME NEW w \in Watches, RoomFor(1), DispatchAll(<<w>>, Monitoring)
          PROVE  queue' \in Seq(Tasks)
      <4>1. <<w>> \in Seq(Watches) /\ Len(<<w>>) = 1 /\ Monitoring \in Priorities
        BY DEF Priorities
      <4> QED
        BY <3>2, <4>1, DispatchProperties
    <3> QED
      BY <3>1, <3>2
  <2> QED
    BY <1>1, <2>1, <2>2 DEF Clock
<1>2. CASE CheckAllNow \/ \E w \in Watches : CheckNow(w)
  <2> PICK order \in Seq(Watches) : RoomFor(Len(order)) /\ DispatchAll(order, Interactive)
    BY <1>2, RequestProperties
  <2>1. queue' \in Seq(Tasks)
    <3>1. Interactive \in Priorities
      BY DEF Priorities
    <3> QED
      BY <3>1, DispatchProperties
  <2> QED
    BY <1>2, <2>1, RequestProperties
<1>3. ASSUME NEW tasks, FlagTasks(tasks), UNCHANGED <<signals, found>>
      PROVE  WorkerInv'
  BY <1>3, FlagTasksProperties
<1>4. CASE \E w \in Watches : PauseWatch(w) \/ RemoveWatch(w)
  BY <1>3, <1>4 DEF PauseWatch, RemoveWatch, ForgetInFlight
<1>5. CASE \E on \in BOOLEAN : SetEnabled(on)
  BY <1>3, <1>5 DEF SetEnabled, StopMonitoring
<1>6. CASE Exit
  BY <1>3, <1>6 DEF Exit, Shutdown
<1>7. CASE Restart
  BY <1>7, NothingFoundType DEF Restart
<1>8. CASE UNCHANGED <<queue, running, signals, found>>
  BY <1>8
<1>9. CASE \/ \E on \in BOOLEAN : SetKeepWatching(on)
           \/ \E w \in Watches : \/ \E action \in Actions : Create(w, action) \/ Edit(w, action)
                                 \/ ResumeWatch(w)
  BY <1>8, <1>9 DEF SetKeepWatching, Create, Edit, ResumeWatch, workerVars
<1>10. CASE OtherSteps
  BY <1>8, <1>10 DEF OtherSteps, UserBuys, UserIsDone, SettleDoubt, workerVars
<1>11. CASE UNCHANGED vars
  BY <1>8, <1>11 DEF vars, workerVars, watchVars
<1>12. CASE WatchListSteps
  BY <1>2, <1>4, <1>5, <1>9, <1>12 DEF WatchListSteps
<1> QED
  BY <1>1, <1>6, <1>7, <1>10, <1>11, <1>12

(* The worker's own flags, and the settings.                                 *)
LEMMA FlagTypes ==
  ASSUME TypeOK, [Next]_vars
  PROVE  /\ stopping' \in BOOLEAN /\ workerState' \in WorkerStates
         /\ scheduling' \in BOOLEAN /\ enabled' \in BOOLEAN
<1> USE DEF TypeOK, WorkerTypeOK, WorkerStates
<1>1. CASE WorkerSteps
  BY <1>1 DEF WorkerSteps, StartThread, PrepareBrowser, TakeTask, StopThread, ReadPage, FailCheck,
     CancelCheck, ObserveCancel, RecordCheck, ConfirmOrder, CompleteWatch, EndWithoutOrder,
     EndInDoubt, EndNeedingUser, FinishTask, watchVars, workerVars
<1>2. CASE Reports
  BY <1>2 DEF Reports, OnFinished, OnFailed, OnCancelled, OnPurchaseReport, StopMonitoring
<1>3. CASE WatchListSteps
  <2>1. CASE CheckAllNow \/ \E w \in Watches : CheckNow(w)
    BY <2>1, RequestProperties
  <2>2. CASE \E on \in BOOLEAN : SetEnabled(on) \/ SetKeepWatching(on)
    BY <2>2 DEF SetEnabled, SetKeepWatching, StopMonitoring, workerVars
  <2>3. CASE \E w \in Watches : \/ \E action \in Actions : Create(w, action) \/ Edit(w, action)
                                \/ PauseWatch(w) \/ ResumeWatch(w) \/ RemoveWatch(w)
    BY <2>3 DEF Create, Edit, PauseWatch, ResumeWatch, RemoveWatch, StartMonitoring, workerVars
  <2> QED
    BY <1>3, <2>1, <2>2, <2>3 DEF WatchListSteps
<1>4. CASE OtherSteps
  BY <1>4 DEF OtherSteps, UserBuys, UserIsDone, SettleDoubt, workerVars
<1>5. CASE Clock
  <2>1. CASE OnTick \/ OnTickAfterSleep
    BY <2>1, TickProperties
  <2>2. CASE Elapse
    BY <2>2 DEF Elapse, workerVars
  <2> QED
    BY <1>5, <2>1, <2>2 DEF Clock
<1>6. CASE Exit \/ Restart
  BY <1>6 DEF Exit, Shutdown, Restart
<1>7. CASE UNCHANGED vars
  BY <1>7 DEF vars, workerVars, watchVars
<1> QED
  BY <1>1, <1>2, <1>3, <1>4, <1>5, <1>6, <1>7 DEF Next

(* The rows of the table.                                                    *)
Rows == [Watches -> [status : Statuses, action : {"notify", "buy"}, wait : Nat]]

LEMMA RowsTypes ==
  ASSUME TypeOK, WorkerInv, HoldersHaveNoOrder, [Next]_vars
  PROVE  watches' \in Rows
<1> USE DEF Statuses, Active, Finished
<1>1. watches \in Rows
  BY DEF TypeOK, Rows
<1>2. ASSUME NEW t \in Rows, NEW w \in Watches, NEW st \in Statuses
      PROVE  [t EXCEPT ![w].status = st] \in Rows
  BY DEF Rows
<1>3. NoWatch \in [status : Statuses, action : {"notify", "buy"}, wait : Nat]
  BY DEF NoWatch
<1>4. CASE WorkerSteps
  <2>1. CASE RecordCheck
    <3>1. running.context.watch \in Watches /\ found.status \in Statuses /\ Interval \in Nat
      BY <2>1, RunningTask DEF RecordCheck, Checking, WorkerInv
    <3> QED
      BY <1>1, <2>1, <3>1 DEF RecordCheck, Rows
  <2>2. CASE CompleteWatch
    <3>1. running.context.watch \in Watches
      BY <2>2, RunningTask DEF CompleteWatch, Buying
    <3> QED
      BY <1>1, <2>2, <3>1 DEF CompleteWatch, MarkPurchased, Rows
  <2>3. CASE UNCHANGED watches
    BY <1>1, <2>3
  <2> QED
    BY <1>4, <2>1, <2>2, <2>3 DEF WorkerSteps, ReadPage, FailCheck, CancelCheck, ConfirmOrder,
       EndWithoutOrder, EndInDoubt, EndNeedingUser, watchVars
<1>5. CASE Reports
  <2>1. CASE OnFinished
    <3>1. Reported \in Watches
      BY <2>1, HandlingProperties DEF OnFinished
    <3>2. [watches EXCEPT ![Reported].status = "purchase_completed"] \in Rows
      BY <1>1, <1>2, <3>1
    <3> QED
      BY <1>1, <2>1, <3>2 DEF OnFinished, AskForPurchase, NoLivePurchase
  <2>2. CASE OnFailed
    <3> PICK delay \in Delays :
          LET e == Head(signals).result
              rows == Failed(watches, Reported, e, delay)
          IN  watches' = IF e = "rate_limited" THEN Deferred(rows) ELSE rows
      BY <2>2 DEF OnFailed
    <3> DEFINE rows == Failed(watches, Reported, Head(signals).result, delay)
    <3>1. \A m, n \in Nat : Max({m, n}) \in {m, n}
      <4> TAKE m, n \in Nat
      <4>1. \E x \in {m, n} : \A y \in {m, n} : x >= y
        OBVIOUS
      <4> QED
        BY <4>1 DEF Max
    <3>2. rows \in Rows
      <4>1. StatusForError(Head(signals).result) \in Statuses
        BY DEF StatusForError
      <4>2. Max({delay, Interval}) \in Nat
        BY <3>1
      <4>3. Reported \in Watches
        BY <2>2, HandlingProperties DEF OnFailed
      <4> QED
        BY <1>1, <4>1, <4>2, <4>3 DEF Failed, Rows
    <3>3. Deferred(rows) \in Rows
      <4> HIDE DEF rows
      <4>1. ASSUME NEW w \in Watches
            PROVE  [rows[w] EXCEPT !.wait = Max({@, Throttle})]
                     \in [status : Statuses, action : {"notify", "buy"}, wait : Nat]
        <5>1. rows[w].wait \in Nat /\ Throttle \in Nat
          BY <3>2 DEF Rows
        <5>2. Max({rows[w].wait, Throttle}) \in Nat
          BY <3>1, <5>1
        <5> QED
          BY <3>2, <5>2 DEF Rows
      <4> QED
        BY <3>2, <4>1 DEF Deferred, Rows
    <3> QED
      BY <3>2, <3>3
  <2>3. CASE OnCancelled \/ OnPurchaseReport
    BY <1>1, <2>3 DEF OnCancelled, OnPurchaseReport
  <2> QED
    BY <1>5, <2>1, <2>2, <2>3 DEF Reports
<1>6. CASE WatchListSteps
  <2>1. CASE CheckAllNow \/ \E w \in Watches : CheckNow(w)
    BY <1>1, <2>1, RequestProperties
  <2>2. CASE \E on \in BOOLEAN : SetEnabled(on) \/ SetKeepWatching(on)
    BY <1>1, <2>2 DEF SetEnabled, SetKeepWatching
  <2>3. ASSUME NEW w \in Watches, NEW action \in Actions, Create(w, action) \/ Edit(w, action)
        PROVE  watches' \in Rows
    <3>1. [NoWatch EXCEPT !.status = "watching", !.action = action]
            \in [status : Statuses, action : {"notify", "buy"}, wait : Nat]
      BY DEF NoWatch
    <3>2. CASE Create(w, action)
      BY <1>1, <3>1, <3>2 DEF Create, Rows
    <3>3. CASE Edit(w, action)
      BY <1>1, <3>3 DEF Edit, Rows
    <3> QED
      BY <2>3, <3>2, <3>3
  <2>4. ASSUME NEW w \in Watches, PauseWatch(w) \/ ResumeWatch(w)
        PROVE  watches' \in Rows
    BY <1>1, <2>4 DEF PauseWatch, ResumeWatch, Rows
  <2>5. ASSUME NEW w \in Watches, RemoveWatch(w)
        PROVE  watches' \in Rows
    BY <1>1, <1>3, <2>5 DEF RemoveWatch, Rows
  <2> QED
    BY <1>6, <2>1, <2>2, <2>3, <2>4, <2>5 DEF WatchListSteps
<1>7. CASE OtherSteps
  <2>1. ASSUME NEW p \in Products, NEW placed \in BOOLEAN, SettleDoubt(p, placed)
        PROVE  watches' \in Rows
    <3>1. taken[p].by \in Watches => MarkPurchased(watches, taken[p].by) \in Rows
      BY <1>1 DEF MarkPurchased, Rows
    <3> QED
      BY <1>1, <2>1, <3>1 DEF SettleDoubt, HoldersHaveNoOrder
  <2>2. CASE \E p \in Products : UserBuys(p) \/ UserIsDone(p)
    BY <1>1, <2>2 DEF UserBuys, UserIsDone
  <2> QED
    BY <1>7, <2>1, <2>2 DEF OtherSteps
<1>8. CASE Clock
  <2>1. CASE OnTick \/ OnTickAfterSleep
    BY <2>1, TickProperties DEF Rows
  <2>2. CASE Elapse
    <3>1. ASSUME NEW w \in Watches
          PROVE  [watches[w] EXCEPT !.wait = IF @ = 0 THEN 0 ELSE @ - 1]
                   \in [status : Statuses, action : {"notify", "buy"}, wait : Nat]
      <4>1. (IF watches[w].wait = 0 THEN 0 ELSE watches[w].wait - 1) \in Nat
        BY <1>1 DEF Rows
      <4> QED
        BY <1>1, <4>1 DEF Rows
    <3> QED
      BY <2>2, <3>1 DEF Elapse, Rows
  <2> QED
    BY <1>8, <2>1, <2>2 DEF Clock
<1>9. CASE Exit \/ Restart \/ UNCHANGED vars
  BY <1>1, <1>9 DEF Exit, Restart, vars, watchVars
<1> QED
  BY <1>4, <1>5, <1>6, <1>7, <1>8, <1>9 DEF Next

(* Which steps touch the in-flight table, and how.                           *)
LEMMA InFlightTypes ==
  ASSUME TypeOK, WorkerInv, [Next]_vars
  PROVE  inFlight' \in [Watches -> 0 .. MaxTasks] /\ gap' \in 0 .. Gap
<1> USE DEF TypeOK
<1>1. 0 \in 0 .. MaxTasks /\ 0 \in 0 .. Gap /\ Gap \in 0 .. Gap
  <2>1. Gap \in Nat /\ MaxTasks \in Nat
    BY SMT
  <2> QED
    BY <2>1
<1>2. CASE WorkerSteps
  BY <1>2 DEF WorkerSteps, ReadPage, FailCheck, CancelCheck, RecordCheck, ConfirmOrder,
     CompleteWatch, EndWithoutOrder, EndInDoubt, EndNeedingUser, watchVars
<1>3. CASE Reports
  <2>1. ASSUME NEW w \in Watches
        PROVE  [inFlight EXCEPT ![w] = 0] \in [Watches -> 0 .. MaxTasks]
    BY <1>1
  <2>2. CASE OnFinished
    BY <2>1, <2>2, HandlingProperties DEF OnFinished, Landed
  <2>3. CASE OnFailed
    BY <2>1, <2>3, HandlingProperties DEF OnFailed, Landed
  <2>4. CASE OnCancelled
    BY <2>1, <2>4, HandlingProperties DEF OnCancelled, Landed
  <2>5. CASE OnPurchaseReport
    BY <2>5 DEF OnPurchaseReport
  <2> QED
    BY <1>3, <2>2, <2>3, <2>4, <2>5 DEF Reports
<1>4. CASE WatchListSteps
  <2>1. CASE CheckAllNow \/ \E w \in Watches : CheckNow(w)
    <3> PICK order \in Seq(Watches) : RoomFor(Len(order)) /\ DispatchAll(order, Interactive)
      BY <2>1, RequestProperties
    <3>1. Interactive \in Priorities
      BY DEF Priorities
    <3>2. inFlight' \in [Watches -> 0 .. MaxTasks] /\ gap' = Gap
      BY <3>1, DispatchProperties
    <3> QED
      BY <1>1, <3>2
  <2>2. CASE \E on \in BOOLEAN : SetEnabled(on) \/ SetKeepWatching(on)
    BY <2>2 DEF SetEnabled, SetKeepWatching
  <2>3. CASE \E w \in Watches : PauseWatch(w) \/ RemoveWatch(w)
    BY <1>1, <2>3 DEF PauseWatch, RemoveWatch, ForgetInFlight
  <2>4. CASE \E w \in Watches : \/ \E action \in Actions : Create(w, action) \/ Edit(w, action)
                                \/ ResumeWatch(w)
    BY <2>4 DEF Create, Edit, ResumeWatch
  <2> QED
    BY <1>4, <2>1, <2>2, <2>3, <2>4 DEF WatchListSteps
<1>5. CASE OtherSteps
  BY <1>5 DEF OtherSteps, UserBuys, UserIsDone, SettleDoubt
<1>6. CASE Clock
  <2>1. CASE Elapse
    <3>1. \A n \in 0 .. Gap : (IF n = 0 THEN 0 ELSE n - 1) \in 0 .. Gap
      <4>1. Gap \in Nat
        BY SMT
      <4> QED
        BY <4>1
    <3>2. gap \in 0 .. Gap /\ gap' = (IF gap = 0 THEN 0 ELSE gap - 1) /\ UNCHANGED inFlight
      BY <2>1 DEF Elapse
    <3> QED
      BY <3>1, <3>2
  <2>2. CASE OnTick \/ OnTickAfterSleep
    <3>1. \/ UNCHANGED inFlight /\ gap' \in 0 .. Gap
          \/ \E w \in Watches : RoomFor(1) /\ DispatchAll(<<w>>, Monitoring)
      BY <2>2, TickProperties
    <3>2. ASSUME NEW w \in Watches, RoomFor(1), DispatchAll(<<w>>, Monitoring)
          PROVE  inFlight' \in [Watches -> 0 .. MaxTasks] /\ gap' = Gap
      <4>1. <<w>> \in Seq(Watches) /\ Len(<<w>>) = 1 /\ Monitoring \in Priorities
        BY DEF Priorities
      <4> QED
        BY <3>2, <4>1, DispatchProperties
    <3> QED
      BY <1>1, <3>1, <3>2
  <2> QED
    BY <1>6, <2>1, <2>2 DEF Clock
<1>7. CASE Exit \/ Restart \/ UNCHANGED vars
  BY <1>1, <1>7 DEF Exit, Restart, vars, watchVars
<1> QED
  BY <1>2, <1>3, <1>4, <1>5, <1>6, <1>7 DEF Next

(* Who holds a product, and the count of orders.                             *)
LEMMA OrderTypes ==
  ASSUME TypeOK, WorkerInv, HoldersHaveNoOrder, [Next]_vars
  PROVE  /\ taken' \in [Products -> [by : Watches \union {"nobody", "user"}, doubt : BOOLEAN]]
         /\ bought' \in [Watches -> 0 .. MaxOrders]
<1> USE DEF TypeOK
<1>1. 0 \in 0 .. MaxOrders
  OBVIOUS
<1>2. Free \in [by : Watches \union {"nobody", "user"}, doubt : BOOLEAN]
  BY DEF Free
<1>3. ASSUME NEW w \in Watches, bought[w] < MaxOrders, CountOrder(w)
      PROVE  bought' \in [Watches -> 0 .. MaxOrders]
  <2>1. bought[w] + 1 \in 0 .. MaxOrders
    BY <1>3
  <2> QED
    BY <1>3, <2>1 DEF CountOrder
<1>4. CASE WorkerSteps
  <2>1. CASE ConfirmOrder \/ EndWithoutOrder \/ EndInDoubt
    <3>1. running.context.watch \in Watches
      BY <2>1, RunningTask DEF ConfirmOrder, EndWithoutOrder, EndInDoubt, Buying
    <3>2. CASE ConfirmOrder
      BY <1>2, <1>3, <3>1, <3>2 DEF ConfirmOrder, Release
    <3>3. CASE EndWithoutOrder
      BY <1>2, <3>1, <3>3 DEF EndWithoutOrder, Release
    <3>4. CASE EndInDoubt
      <4>1. ASSUME NEW p \in Products
            PROVE  [taken EXCEPT ![p].doubt = TRUE]
                     \in [Products -> [by : Watches \union {"nobody", "user"}, doubt : BOOLEAN]]
        OBVIOUS
      <4>2. ProductOf[running.context.watch] \in Products
        BY <3>1
      <4>3. UNCHANGED bought
            /\ taken' = [taken EXCEPT ![ProductOf[running.context.watch]].doubt = TRUE]
        BY <3>4 DEF EndInDoubt
      <4> QED
        BY <4>1, <4>2, <4>3
    <3> QED
      BY <2>1, <3>2, <3>3, <3>4
  <2>2. CASE UNCHANGED <<taken, bought>>
    BY <2>2
  <2> QED
    BY <1>4, <2>1, <2>2 DEF WorkerSteps, ReadPage, FailCheck, CancelCheck, RecordCheck,
       CompleteWatch, EndNeedingUser, watchVars
<1>5. CASE Reports
  <2>1. CASE OnFinished
    <3>1. Reported \in Watches /\ ProductOf[Reported] \in Products
      BY <2>1, HandlingProperties DEF OnFinished
    <3>2. [taken EXCEPT ![ProductOf[Reported]].by = Reported]
            \in [Products -> [by : Watches \union {"nobody", "user"}, doubt : BOOLEAN]]
      BY <3>1
    <3> QED
      BY <2>1, <3>2 DEF OnFinished, AskForPurchase, NoLivePurchase
  <2>2. CASE OnPurchaseReport
    BY <1>2, <2>2 DEF OnPurchaseReport
  <2>3. CASE OnFailed \/ OnCancelled
    BY <2>3 DEF OnFailed, OnCancelled
  <2> QED
    BY <1>5, <2>1, <2>2, <2>3 DEF Reports
<1>6. CASE WatchListSteps
  <2>1. CASE CheckAllNow \/ \E w \in Watches : CheckNow(w)
    BY <2>1, RequestProperties
  <2>2. CASE \E on \in BOOLEAN : SetEnabled(on) \/ SetKeepWatching(on)
    BY <2>2 DEF SetEnabled, SetKeepWatching
  <2>3. CASE \E w \in Watches : \/ \E action \in Actions : Create(w, action) \/ Edit(w, action)
                                \/ PauseWatch(w) \/ ResumeWatch(w) \/ RemoveWatch(w)
    <3>1. \A w \in Watches : [bought EXCEPT ![w] = 0] \in [Watches -> 0 .. MaxOrders]
      BY <1>1
    <3>2. UNCHANGED taken /\ (UNCHANGED bought \/ \E w \in Watches : bought' = [bought EXCEPT ![w] = 0])
      BY <2>3 DEF Create, Edit, PauseWatch, ResumeWatch, RemoveWatch
    <3> QED
      BY <3>1, <3>2
  <2> QED
    BY <1>6, <2>1, <2>2, <2>3 DEF WatchListSteps
<1>7. CASE OtherSteps
  <2>1. ASSUME NEW p \in Products, NEW placed \in BOOLEAN, SettleDoubt(p, placed)
        PROVE  /\ taken' \in [Products -> [by : Watches \union {"nobody", "user"}, doubt : BOOLEAN]]
               /\ bought' \in [Watches -> 0 .. MaxOrders]
    <3>1. taken[p].by \in Watches
      BY <2>1 DEF SettleDoubt, HoldersHaveNoOrder
    <3> QED
      BY <1>2, <1>3, <2>1, <3>1 DEF SettleDoubt
  <2>2. ASSUME NEW p \in Products, UserBuys(p) \/ UserIsDone(p)
        PROVE  /\ taken' \in [Products -> [by : Watches \union {"nobody", "user"}, doubt : BOOLEAN]]
               /\ bought' \in [Watches -> 0 .. MaxOrders]
    <3>1. [taken EXCEPT ![p].by = "user"]
            \in [Products -> [by : Watches \union {"nobody", "user"}, doubt : BOOLEAN]]
      OBVIOUS
    <3>2. [taken EXCEPT ![p] = Free]
            \in [Products -> [by : Watches \union {"nobody", "user"}, doubt : BOOLEAN]]
      BY <1>2
    <3> QED
      BY <2>2, <3>1, <3>2 DEF UserBuys, UserIsDone
  <2> QED
    BY <1>7, <2>1, <2>2 DEF OtherSteps
<1>8. CASE Clock
  <2>1. CASE OnTick \/ OnTickAfterSleep
    BY <2>1, TickProperties
  <2>2. CASE Elapse
    BY <2>2 DEF Elapse
  <2> QED
    BY <1>8, <2>1, <2>2 DEF Clock
<1>9. CASE Restart
  <2>1. ASSUME NEW p \in Products
        PROVE  [taken[p] EXCEPT !.doubt = TRUE]
                 \in [by : Watches \union {"nobody", "user"}, doubt : BOOLEAN]
    OBVIOUS
  <2> QED
    BY <1>2, <1>9, <2>1 DEF Restart, Recovered
<1>10. CASE Exit \/ UNCHANGED vars
  BY <1>10 DEF Exit, vars, watchVars
<1> QED
  BY <1>4, <1>5, <1>6, <1>7, <1>8, <1>9, <1>10 DEF Next

LEMMA TypeStep ==
  ASSUME TypeOK, WorkerInv, HoldersHaveNoOrder, [Next]_vars
  PROVE  TypeOK' /\ WorkerInv'
<1>1. WorkerInv'
  BY ReportsTypes, WorkerStepsTypes, OtherTypes DEF Next
<1>2. WorkerTypeOK'
  <2>1. ASSUME NEW t \in Outstanding'
        PROVE  t.id \in 0 .. MaxTasks /\ t.priority \in Priorities
    <3>1. t \in Tasks \union {NoTask}
      BY <1>1, <2>1 DEF Outstanding, Range, WorkerInv
    <3>2. NoTask.id = 0 /\ NoTask.priority \in Priorities /\ 0 \in 0 .. MaxTasks
      BY DEF NoTask, Priorities
    <3> QED
      BY <3>1, <3>2 DEF Tasks
  <2> QED
    BY <2>1, FlagTypes DEF WorkerTypeOK
<1> QED
  BY <1>1, <1>2, FlagTypes, RowsTypes, InFlightTypes, OrderTypes DEF TypeOK, Rows

-----------------------------------------------------------------------------
(* A watch in flight is on its way.                                          *)

(* What the worker has, and what it has reported.                            *)
OnItsWay == Outstanding \union Range(signals)

(* No step loses a task, but for those that forget the watch.                *)
KeptBut(lost) ==
    \A t \in OnItsWay : t.id # 0 =>
        \/ t.context.kind = "check" /\ t.context.watch \in lost
        \/ \E u \in OnItsWay' : u.id = t.id /\ u.context = t.context

LEMMA KeptInFlight ==
  ASSUME InFlightIsOutstanding, NEW lost, KeptBut(lost),
         \A w \in Watches :
             \/ inFlight'[w] = 0
             \/ inFlight'[w] = inFlight[w] /\ w \notin lost
             \/ \E t \in OnItsWay' : /\ t.id = inFlight'[w] /\ t.context.kind = "check"
                                     /\ t.context.watch = w
  PROVE  InFlightIsOutstanding'
<1> SUFFICES ASSUME NEW w \in Watches, inFlight'[w] # 0, inFlight'[w] = inFlight[w], w \notin lost
             PROVE  \E t \in OnItsWay' : /\ t.id = inFlight'[w] /\ t.context.kind = "check"
                                         /\ t.context.watch = w
  BY DEF InFlightIsOutstanding, OnItsWay
<1>1. PICK t \in OnItsWay : t.id = inFlight[w] /\ t.context.kind = "check" /\ t.context.watch = w
  BY DEF InFlightIsOutstanding, OnItsWay
<1>2. \E u \in OnItsWay' : u.id = t.id /\ u.context = t.context
  BY <1>1 DEF KeptBut
<1> QED
  BY <1>1, <1>2

LEMMA FlagsKeep ==
  ASSUME WorkerInv, NEW tasks, FlagTasks(tasks), NEW lost,
         \A t \in Range(signals) : \/ t.context.kind = "check" /\ t.context.watch \in lost
                                   \/ t \in Range(signals')
  PROVE  KeptBut(lost)
<1> SUFFICES ASSUME NEW t \in Outstanding
             PROVE  \E u \in OnItsWay' : u.id = t.id /\ u.context = t.context
  BY DEF KeptBut, OnItsWay
<1>1. CASE t = running
  BY <1>1, FlagTasksProperties DEF OnItsWay, Outstanding
<1>2. CASE t \in Range(queue)
  <2>1. PICK i \in DOMAIN queue : t = queue[i]
    BY <1>2 DEF Range
  <2>2. /\ DOMAIN queue' = DOMAIN queue /\ queue'[i].id = queue[i].id
        /\ queue'[i].context = queue[i].context
    BY <2>1, FlagTasksProperties
  <2>3. queue'[i] \in Range(queue')
    BY <2>1, <2>2 DEF Range
  <2> QED
    BY <2>1, <2>2, <2>3 DEF OnItsWay, Outstanding
<1> QED
  BY <1>1, <1>2 DEF Outstanding

(* The queue may grow, and reports that forget their watch be handled.       *)
LEMMA GrowthKeeps ==
  ASSUME WorkerInv, UNCHANGED running, NEW lost,
         DOMAIN queue \subseteq DOMAIN queue', \A i \in DOMAIN queue : queue'[i] = queue[i],
         \A t \in Range(signals) : \/ t.context.kind = "check" /\ t.context.watch \in lost
                                   \/ t \in Range(signals')
  PROVE  KeptBut(lost)
<1>1. Range(queue) \subseteq Range(queue')
  BY DEF Range
<1> QED
  BY <1>1 DEF KeptBut, OnItsWay, Outstanding

LEMMA WorkerKeeps ==
  ASSUME WorkerInv, WorkerSteps
  PROVE  KeptBut({}) /\ UNCHANGED inFlight
<1>1. UNCHANGED inFlight
  BY DEF WorkerSteps, ReadPage, FailCheck, CancelCheck, RecordCheck, ConfirmOrder, CompleteWatch,
     EndWithoutOrder, EndInDoubt, EndNeedingUser, watchVars
<1> SUFFICES ASSUME NEW t \in OnItsWay, t.id # 0
             PROVE  \E u \in OnItsWay' : u.id = t.id /\ u.context = t.context
  BY <1>1 DEF KeptBut
<1>2. CASE UNCHANGED <<queue, running, signals>>
  BY <1>2 DEF OnItsWay, Outstanding
<1>3. CASE TakeTask
  <2>1. Range(queue) = Range(queue') \union {running'} /\ UNCHANGED signals /\ t # running
    BY <1>3, TakeProperties DEF TakeTask, NoTask
  <2>2. t \in OnItsWay'
    BY <2>1 DEF OnItsWay, Outstanding
  <2> QED
    BY <2>2
<1>4. CASE StopThread
  <2>1. /\ Range(signals) \subseteq Range(signals') /\ running = NoTask /\ NoTask.id = 0
        /\ \A u \in Range(queue) : \E s \in Range(signals') :
               s.id = u.id /\ s.context = u.context
    BY <1>4, StopProperties DEF NoTask
  <2> QED
    BY <2>1 DEF OnItsWay, Outstanding
<1>5. ASSUME running.id # 0, NEW kind \in {"finished", "failed", "cancelled"},
             NEW result \in Results, FinishTask(kind, result)
      PROVE  \E u \in OnItsWay' : u.id = t.id /\ u.context = t.context
  <2>1. /\ Report(kind, running, result) \in Range(signals')
        /\ Report(kind, running, result).id = running.id
        /\ Report(kind, running, result).context = running.context
        /\ Range(signals) \subseteq Range(signals') /\ UNCHANGED queue
    BY <1>5, FinishProperties
  <2> QED
    BY <2>1 DEF OnItsWay, Outstanding
<1>6. CASE \E kind \in {"finished", "failed", "cancelled"}, result \in Results :
              running.id # 0 /\ FinishTask(kind, result)
  BY <1>5, <1>6
<1>7. CASE FailCheck \/ CancelCheck \/ RecordCheck
  <2>1. \E kind \in {"finished", "failed", "cancelled"}, result \in Results :
              running.id # 0 /\ FinishTask(kind, result)
    BY <1>7 DEF FailCheck, CancelCheck, RecordCheck, Checking, Results, ObserveCancel
  <2> QED
    BY <1>6, <2>1
<1>8. CASE CompleteWatch \/ EndWithoutOrder \/ EndInDoubt \/ EndNeedingUser
  <2>1. running.id # 0 /\ FinishTask("finished", "none") /\ "none" \in Results
    BY <1>8 DEF CompleteWatch, EndWithoutOrder, EndInDoubt, EndNeedingUser, Buying, Results
  <2> QED
    BY <1>5, <2>1
<1>9. CASE StartThread \/ PrepareBrowser \/ ReadPage \/ ConfirmOrder
  BY <1>2, <1>9 DEF StartThread, PrepareBrowser, ReadPage, ConfirmOrder, workerVars
<1> QED
  BY <1>1, <1>3, <1>4, <1>7, <1>8, <1>9 DEF WorkerSteps

LEMMA InFlightStep ==
  ASSUME TypeOK, WorkerInv, InFlightIsOutstanding, [Next]_vars
  PROVE  InFlightIsOutstanding'
<1> USE DEF TypeOK
<1>1. ASSUME NEW order \in Seq(Watches), RoomFor(Len(order)), NEW priority \in Priorities,
             DispatchAll(order, priority), UNCHANGED <<running, signals>>
      PROVE  InFlightIsOutstanding'
  <2>1. KeptBut({})
    BY <1>1, DispatchProperties, GrowthKeeps
  <2>2. \A w \in Watches :
            \/ inFlight'[w] = inFlight[w]
            \/ \E t \in OnItsWay' : /\ t.id = inFlight'[w] /\ t.context.kind = "check"
                                    /\ t.context.watch = w
    BY <1>1, DispatchProperties DEF OnItsWay, Outstanding
  <2> QED
    BY <2>1, <2>2, KeptInFlight
<1>2. CASE WorkerSteps
  BY <1>2, WorkerKeeps, KeptInFlight
<1>3. CASE Reports
  <2>1. ASSUME NEW kind, Handling(kind, "check"), Landed(Reported), KeptBut({Reported})
        PROVE  InFlightIsOutstanding'
    <3>1. \A w \in Watches : inFlight'[w] = 0 \/ (inFlight'[w] = inFlight[w] /\ w \notin {Reported})
      BY <2>1 DEF Landed
    <3> QED
      BY <2>1, <3>1, KeptInFlight
  <2>2. ASSUME NEW kind, Handling(kind, "check")
        PROVE  \A t \in Range(signals) : \/ t.context.kind = "check" /\ t.context.watch \in {Reported}
                                         \/ t \in Range(signals')
    BY <2>2, HandlingProperties DEF Reported
  <2>3. CASE OnFinished
    <3>1. DOMAIN queue \subseteq DOMAIN queue' /\ \A i \in DOMAIN queue : queue'[i] = queue[i]
      <4>1. CASE UNCHANGED queue
        BY <4>1
      <4>2. CASE ~UNCHANGED queue
        <5>1. Reported \in Watches
          BY <2>3, HandlingProperties DEF OnFinished
        <5> DEFINE e == Task(NewIds(1, InFlightIds)[1], Purchasing, Purchase(Reported))
        <5>2. queue' = Append(queue, e) /\ RoomFor(1)
          BY <2>3, <4>2 DEF OnFinished, AskForPurchase, NoLivePurchase
        <5>3. queue \in Seq(Tasks \union {e}) /\ e \in Tasks \union {e}
          BY DEF WorkerInv
        <5> HIDE DEF e
        <5> QED
          BY <5>2, <5>3, AppendRange
      <4> QED
        BY <4>1, <4>2
    <3> QED
      BY <2>1, <2>2, <2>3, <3>1, GrowthKeeps DEF OnFinished
  <2>4. CASE OnFailed
    <3>1. \/ UNCHANGED <<queue, running>>
          \/ FlagTasks({t \in Outstanding : t.priority = Monitoring})
      BY <2>4 DEF OnFailed, StopMonitoring
    <3>2. KeptBut({Reported})
      BY <2>2, <2>4, <3>1, FlagsKeep, GrowthKeeps DEF OnFailed
    <3> QED
      BY <2>1, <2>4, <3>2 DEF OnFailed
  <2>5. CASE OnCancelled
    BY <2>1, <2>2, <2>5, GrowthKeeps DEF OnCancelled
  <2>6. CASE OnPurchaseReport
    <3>1. PICK kind \in {"finished", "cancelled"} : Handling(kind, "purchase")
      BY <2>6 DEF OnPurchaseReport
    <3>2. Range(signals) = Range(signals') \union {Head(signals)} /\ Head(signals).context.kind = "purchase"
      BY <3>1, HandlingProperties
    <3>3. \A t \in OnItsWay : t.context.kind = "check" => t \in OnItsWay'
      BY <2>6, <3>2 DEF OnItsWay, Outstanding, OnPurchaseReport
    <3> QED
      BY <2>6, <3>3 DEF InFlightIsOutstanding, OnItsWay, OnPurchaseReport
  <2> QED
    BY <1>3, <2>3, <2>4, <2>5, <2>6 DEF Reports
<1>4. ASSUME NEW tasks, FlagTasks(tasks), UNCHANGED signals,
             \A w \in Watches : inFlight'[w] \in {0, inFlight[w]}
      PROVE  InFlightIsOutstanding'
  <2>1. KeptBut({})
    BY <1>4, FlagsKeep
  <2> QED
    BY <1>4, <2>1, KeptInFlight
<1>5. CASE UNCHANGED <<queue, running, signals, inFlight>>
  BY <1>5 DEF InFlightIsOutstanding, Outstanding
<1>6. CASE WatchListSteps
  <2>1. CASE CheckAllNow \/ \E w \in Watches : CheckNow(w)
    <3> PICK order \in Seq(Watches) : RoomFor(Len(order)) /\ DispatchAll(order, Interactive)
      BY <2>1, RequestProperties
    <3>1. Interactive \in Priorities
      BY DEF Priorities
    <3> QED
      BY <1>1, <2>1, <3>1, RequestProperties
  <2>2. CASE \E on \in BOOLEAN : SetEnabled(on) \/ SetKeepWatching(on)
    BY <1>4, <1>5, <2>2 DEF SetEnabled, SetKeepWatching, StopMonitoring, workerVars
  <2>3. ASSUME NEW w \in Watches, PauseWatch(w) \/ RemoveWatch(w)
        PROVE  InFlightIsOutstanding'
    BY <1>4, <2>3 DEF PauseWatch, RemoveWatch, ForgetInFlight
  <2>4. CASE \E w \in Watches : \/ \E action \in Actions : Create(w, action) \/ Edit(w, action)
                                \/ ResumeWatch(w)
    BY <1>5, <2>4 DEF Create, Edit, ResumeWatch, workerVars
  <2> QED
    BY <1>6, <2>1, <2>2, <2>3, <2>4 DEF WatchListSteps
<1>7. CASE OtherSteps
  BY <1>5, <1>7 DEF OtherSteps, UserBuys, UserIsDone, SettleDoubt, workerVars
<1>8. CASE Clock
  <2>1. CASE Elapse
    BY <1>5, <2>1 DEF Elapse, workerVars
  <2>2. CASE OnTick \/ OnTickAfterSleep
    <3>1. /\ UNCHANGED <<running, signals>>
          /\ \/ UNCHANGED <<queue, inFlight>>
             \/ \E w \in Watches : RoomFor(1) /\ DispatchAll(<<w>>, Monitoring)
      BY <2>2, TickProperties
    <3>2. ASSUME NEW w \in Watches
          PROVE  <<w>> \in Seq(Watches) /\ Len(<<w>>) = 1 /\ Monitoring \in Priorities
      BY DEF Priorities
    <3> QED
      BY <1>1, <1>5, <3>1, <3>2
  <2> QED
    BY <1>8, <2>1, <2>2 DEF Clock
<1>9. CASE Exit
  BY <1>4, <1>9 DEF Exit, Shutdown
<1>10. CASE Restart
  BY <1>10 DEF Restart, InFlightIsOutstanding
<1>11. CASE UNCHANGED vars
  BY <1>5, <1>11 DEF vars, workerVars, watchVars
<1> QED
  BY <1>2, <1>3, <1>6, <1>7, <1>8, <1>9, <1>10, <1>11 DEF Next

-----------------------------------------------------------------------------
(* Quiet once stopped.                                                       *)

(* Every task is one that was there, no less cancelled, or no background     *)
(* check at all.                                                             *)
NothingStarted ==
    \A u \in Outstanding' : u.priority = Monitoring =>
        u.cancel \/ \E t \in Outstanding : t.priority = Monitoring /\ (t.cancel => u.cancel)

LEMMA QuietKept ==
  ASSUME StoppedIsQuiet, NothingStarted, ~scheduling' => ~scheduling
  PROVE  StoppedIsQuiet'
  BY DEF StoppedIsQuiet, NothingStarted

LEMMA FlagsAreQuiet ==
  ASSUME WorkerInv, NEW tasks, FlagTasks(tasks)
  PROVE  /\ NothingStarted
         /\ {t \in Outstanding : t.priority = Monitoring} \subseteq tasks =>
                \A u \in Outstanding' : u.priority = Monitoring => u.cancel
<1>1. \A t \in Outstanding : t.priority = Monitoring => t # NoTask
  BY DEF NoTask, Monitoring, Interactive
<1>2. ASSUME NEW u \in Outstanding', u.priority = Monitoring
      PROVE  \E t \in Outstanding : /\ t.priority = Monitoring /\ (t.cancel => u.cancel)
                                    /\ t \in tasks => u.cancel
  <2>1. CASE u = running'
    <3>1. /\ running'.priority = running.priority /\ (running.cancel => running'.cancel)
          /\ (running # NoTask /\ running \in tasks => running'.cancel)
      BY FlagTasksProperties
    <3>2. running \in Outstanding
      BY DEF Outstanding
    <3> QED
      BY <1>1, <1>2, <2>1, <3>1, <3>2
  <2>2. CASE u \in Range(queue')
    <3>1. /\ DOMAIN queue' = DOMAIN queue
          /\ \A k \in DOMAIN queue : /\ queue'[k].priority = queue[k].priority
                                     /\ queue[k].cancel => queue'[k].cancel
                                     /\ queue[k] \in tasks => queue'[k].cancel
      BY FlagTasksProperties
    <3>2. PICK i \in DOMAIN queue : u = queue'[i]
      BY <2>2, <3>1 DEF Range
    <3>3. queue[i] \in Outstanding
      BY DEF Outstanding, Range
    <3>4. /\ queue[i].priority = Monitoring /\ (queue[i].cancel => u.cancel)
          /\ queue[i] \in tasks => u.cancel
      BY <1>2, <3>1, <3>2
    <3> QED
      BY <3>3, <3>4
  <2> QED
    BY <1>2, <2>1, <2>2 DEF Outstanding
<1> QED
  BY <1>2 DEF NothingStarted

LEMMA GrowthIsQuiet ==
  ASSUME UNCHANGED running, \A i \in DOMAIN queue : queue'[i] = queue[i],
         \A i \in DOMAIN queue' \ DOMAIN queue : queue'[i].priority # Monitoring
  PROVE  NothingStarted
<1> SUFFICES ASSUME NEW u \in Outstanding', u.priority = Monitoring
             PROVE  u \in Outstanding
  BY DEF NothingStarted
<1>1. u \in Range(queue') => u \in Range(queue)
  BY DEF Range
<1> QED
  BY <1>1 DEF Outstanding

LEMMA WorkerIsQuiet ==
  ASSUME WorkerInv, WorkerSteps
  PROVE  NothingStarted /\ UNCHANGED scheduling
<1>1. UNCHANGED scheduling
  BY DEF WorkerSteps, ReadPage, FailCheck, CancelCheck, RecordCheck, ConfirmOrder, CompleteWatch,
     EndWithoutOrder, EndInDoubt, EndNeedingUser, watchVars
<1> SUFFICES ASSUME NEW u \in Outstanding', u # NoTask
             PROVE  u \in Outstanding
  BY <1>1 DEF NothingStarted, NoTask, Monitoring, Interactive
<1>2. CASE TakeTask
  BY <1>2, TakeProperties DEF Outstanding
<1>3. CASE StopThread
  <2>1. queue' = <<>> /\ running' = NoTask
    BY <1>3, StopProperties
  <2>2. Range(<<>>) = {}
    BY DEF Range
  <2> QED
    BY <2>1, <2>2 DEF Outstanding
<1>4. CASE UNCHANGED queue /\ running' \in {running, NoTask}
  BY <1>4 DEF Outstanding
<1>5. CASE WorkerSteps /\ ~TakeTask /\ ~StopThread
  BY <1>4, <1>5 DEF WorkerSteps, StartThread, PrepareBrowser, ReadPage, FailCheck, CancelCheck,
     RecordCheck, ConfirmOrder, CompleteWatch, EndWithoutOrder, EndInDoubt, EndNeedingUser,
     ObserveCancel,
     FinishTask, workerVars
<1> QED
  BY <1>2, <1>3, <1>5

LEMMA QuietStep ==
  ASSUME TypeOK, WorkerInv, StoppedIsQuiet, [Next]_vars
  PROVE  StoppedIsQuiet'
<1>1. CASE UNCHANGED <<queue, running>> /\ (~scheduling' => ~scheduling)
  <2>1. NothingStarted
    BY <1>1, GrowthIsQuiet
  <2> QED
    BY <1>1, <2>1, QuietKept
<1>2. CASE StopMonitoring
  BY <1>2, FlagsAreQuiet DEF StopMonitoring, StoppedIsQuiet
<1>3. CASE WorkerSteps
  BY <1>3, WorkerIsQuiet, QuietKept
<1>4. CASE Reports
  <2>1. CASE OnFinished
    <3>1. CASE UNCHANGED queue
      BY <1>1, <2>1, <3>1 DEF OnFinished
    <3>2. CASE ~UNCHANGED queue
      <4> DEFINE e == Task(NewIds(1, InFlightIds)[1], Purchasing, Purchase(Reported))
      <4>1. queue' = Append(queue, e)
        BY <2>1, <3>2 DEF OnFinished, AskForPurchase, NoLivePurchase
      <4>2. e.priority # Monitoring
        BY DEF Task, Purchasing, Monitoring
      <4>3. queue \in Seq(Tasks \union {e}) /\ e \in Tasks \union {e}
        BY DEF WorkerInv
      <4> HIDE DEF e
      <4>4. /\ \A i \in DOMAIN queue : queue'[i] = queue[i]
            /\ \A i \in DOMAIN queue' \ DOMAIN queue : queue'[i].priority # Monitoring
        BY <4>1, <4>2, <4>3, AppendRange
      <4>5. NothingStarted
        BY <2>1, <4>4, GrowthIsQuiet DEF OnFinished
      <4> QED
        BY <2>1, <4>5, QuietKept DEF OnFinished
    <3> QED
      BY <3>1, <3>2
  <2>2. CASE OnFailed
    BY <1>1, <1>2, <2>2 DEF OnFailed
  <2>3. CASE OnCancelled \/ OnPurchaseReport
    BY <1>1, <2>3 DEF OnCancelled, OnPurchaseReport
  <2> QED
    BY <1>4, <2>1, <2>2, <2>3 DEF Reports
<1>5. CASE WatchListSteps
  <2>1. CASE CheckAllNow \/ \E w \in Watches : CheckNow(w)
    <3> PICK order \in Seq(Watches) : RoomFor(Len(order)) /\ DispatchAll(order, Interactive)
      BY <2>1, RequestProperties
    <3>1. Interactive \in Priorities /\ Interactive # Monitoring
      BY DEF Priorities, Interactive, Monitoring
    <3>2. NothingStarted
      BY <2>1, <3>1, DispatchProperties, RequestProperties, GrowthIsQuiet
    <3> QED
      BY <2>1, <3>2, RequestProperties, QuietKept
  <2>2. CASE \E on \in BOOLEAN : SetEnabled(on) \/ SetKeepWatching(on)
    BY <1>1, <1>2, <2>2 DEF SetEnabled, SetKeepWatching, workerVars
  <2>3. ASSUME NEW w \in Watches, PauseWatch(w) \/ RemoveWatch(w)
        PROVE  StoppedIsQuiet'
    <3>1. NothingStarted
      BY <2>3, FlagsAreQuiet DEF PauseWatch, RemoveWatch, ForgetInFlight
    <3> QED
      BY <2>3, <3>1, QuietKept DEF PauseWatch, RemoveWatch
  <2>4. CASE \E w \in Watches : \/ \E action \in Actions : Create(w, action) \/ Edit(w, action)
                                \/ ResumeWatch(w)
    <3>1. UNCHANGED <<queue, running>> /\ (UNCHANGED scheduling \/ StartMonitoring)
      BY <2>4 DEF Create, Edit, ResumeWatch, workerVars
    <3> QED
      BY <1>1, <3>1 DEF StartMonitoring
  <2> QED
    BY <1>5, <2>1, <2>2, <2>3, <2>4 DEF WatchListSteps
<1>6. CASE OtherSteps
  BY <1>1, <1>6 DEF OtherSteps, UserBuys, UserIsDone, SettleDoubt, workerVars
<1>7. CASE Clock
  <2>1. CASE Elapse
    BY <1>1, <2>1 DEF Elapse, workerVars
  <2>2. CASE OnTick \/ OnTickAfterSleep
    BY <2>2, TickProperties DEF StoppedIsQuiet
  <2> QED
    BY <1>7, <2>1, <2>2 DEF Clock
<1>8. CASE Exit
  <2>1. NothingStarted /\ {t \in Outstanding : t.priority = Monitoring} \subseteq Outstanding
    BY <1>8, FlagsAreQuiet DEF Exit, Shutdown
  <2> QED
    BY <1>8, <2>1, FlagsAreQuiet DEF Exit, Shutdown, StoppedIsQuiet
<1>9. CASE Restart
  <2>1. queue' = <<>> /\ running' = NoTask /\ Range(<<>>) = {}
    BY <1>9 DEF Restart, Range
  <2> QED
    BY <2>1 DEF StoppedIsQuiet, Outstanding, NoTask, Monitoring, Interactive
<1>10. CASE UNCHANGED vars
  BY <1>1, <1>10 DEF vars, workerVars, watchVars
<1> QED
  BY <1>3, <1>4, <1>5, <1>6, <1>7, <1>8, <1>9, <1>10 DEF Next

-----------------------------------------------------------------------------
(* Purchases, and the products they hold.                                    *)

LEMMA AbandonedStep ==
  ASSUME WorkerInv, NoneAbandoned, [Next]_vars
  PROVE  NoneAbandoned'
<1>1. CASE Range(signals') \subseteq Range(signals) /\ (~stopping' => ~stopping)
  BY <1>1 DEF NoneAbandoned
<1>2. CASE stopping'
  BY <1>2 DEF NoneAbandoned
<1>3. CASE WorkerSteps
  <2>1. ASSUME running.id # 0, NEW kind \in {"finished", "failed", "cancelled"},
               NEW result \in Results, FinishTask(kind, result),
               running.context.kind = "check" \/ kind = "finished"
        PROVE  NoneAbandoned'
    <3>1. /\ Range(signals') = Range(signals) \union {Report(kind, running, result)}
          /\ Report(kind, running, result).kind = kind
          /\ Report(kind, running, result).context = running.context
          /\ UNCHANGED stopping
      BY <2>1, FinishProperties
    <3> QED
      BY <2>1, <3>1 DEF NoneAbandoned
  <2>2. CASE StopThread
    BY <1>2, <2>2, StopProperties
  <2>3. CASE FailCheck
    BY <2>1, <2>3 DEF FailCheck, Checking, Results
  <2>4. CASE CancelCheck
    <3>1. "none" \in Results
      BY DEF Results
    <3> QED
      BY <2>1, <2>4, <3>1 DEF CancelCheck, ObserveCancel, Checking
  <2>5. CASE RecordCheck
    <3>1. \E kind \in {"finished", "failed"}, result \in Results :
              FinishTask(kind, result) /\ running.id # 0 /\ running.context.kind = "check"
      BY <2>5 DEF RecordCheck, Checking, Results
    <3> QED
      BY <2>1, <3>1
  <2>6. CASE CompleteWatch \/ EndWithoutOrder \/ EndInDoubt \/ EndNeedingUser
    <3>1. running.id # 0 /\ FinishTask("finished", "none") /\ "none" \in Results
      BY <2>6 DEF CompleteWatch, EndWithoutOrder, EndInDoubt, EndNeedingUser, Buying, Results
    <3> QED
      BY <2>1, <3>1
  <2>7. CASE StartThread \/ PrepareBrowser \/ TakeTask \/ ReadPage \/ ConfirmOrder
    BY <1>1, <2>7 DEF StartThread, PrepareBrowser, TakeTask, ReadPage, ConfirmOrder, workerVars
  <2> QED
    BY <1>3, <2>2, <2>3, <2>4, <2>5, <2>6, <2>7 DEF WorkerSteps
<1>4. CASE Reports
  <2>1. /\ \E kind, of : Handling(kind, of)
        /\ UNCHANGED stopping
    BY <1>4 DEF Reports, OnFinished, OnFailed, OnCancelled, OnPurchaseReport
  <2> QED
    BY <1>1, <2>1, HandlingProperties
<1>5. CASE WatchListSteps
  <2>1. CASE CheckAllNow \/ \E w \in Watches : CheckNow(w)
    BY <1>1, <2>1, RequestProperties
  <2>2. CASE \E on \in BOOLEAN : SetEnabled(on) \/ SetKeepWatching(on)
    BY <1>1, <2>2 DEF SetEnabled, SetKeepWatching, workerVars
  <2>3. CASE \E w \in Watches : \/ \E action \in Actions : Create(w, action) \/ Edit(w, action)
                                \/ PauseWatch(w) \/ ResumeWatch(w) \/ RemoveWatch(w)
    <3>1. UNCHANGED <<signals, stopping>>
      BY <2>3 DEF Create, Edit, PauseWatch, ResumeWatch, RemoveWatch, workerVars
    <3> QED
      BY <1>1, <3>1
  <2> QED
    BY <1>5, <2>1, <2>2, <2>3 DEF WatchListSteps
<1>6. CASE OtherSteps
  BY <1>1, <1>6 DEF OtherSteps, UserBuys, UserIsDone, SettleDoubt, workerVars
<1>7. CASE Clock
  BY <1>1, <1>7 DEF Clock, Elapse, OnTick, OnTickAfterSleep, workerVars
<1>8. CASE Exit
  BY <1>2, <1>8 DEF Exit, Shutdown
<1>9. CASE Restart
  BY <1>9 DEF Restart, NoneAbandoned, Range
<1>10. CASE UNCHANGED vars
  BY <1>1, <1>10 DEF vars, workerVars
<1> QED
  BY <1>3, <1>4, <1>5, <1>6, <1>7, <1>8, <1>9, <1>10 DEF Next

(* A purchase of the watch is queued, or runs and has no order yet.          *)
Live(w) == \/ \E i \in DOMAIN queue : BuysFor(queue[i], w)
           \/ BuysFor(running, w) /\ found = NothingFound

LEMMA SameView ==
  ASSUME PurchasesHold,
         \A w \in Watches : \A i \in DOMAIN queue' :
             BuysFor(queue'[i], w) => i \in DOMAIN queue /\ BuysFor(queue[i], w),
         \A w \in Watches : BuysFor(running', w) /\ found' = NothingFound =>
             BuysFor(running, w) /\ found = NothingFound,
         \A w \in Watches : Holds(w) /\ Live(w)' =>
             taken'[ProductOf[w]] = taken[ProductOf[w]]
  PROVE  PurchasesHold'
<1>1. ASSUME NEW w \in Watches, Live(w)'
      PROVE  Holds(w)'
  <2>1. Holds(w)
    BY <1>1 DEF Live, PurchasesHold
  <2> QED
    BY <1>1, <2>1 DEF Holds
<1> QED
  BY <1>1 DEF PurchasesHold, Live

LEMMA NoTaskBuys ==
  ASSUME NEW w
  PROVE  ~BuysFor(NoTask, w)
  BY DEF BuysFor, NoTask

(* The steps that change flags, reports and the queue of checks only.        *)
LEMMA OtherTasksOnly ==
  ASSUME PurchasesHold, UNCHANGED <<taken, found>>,
         \A w \in Watches : BuysFor(running', w) => BuysFor(running, w),
         \A w \in Watches : \A i \in DOMAIN queue' :
             BuysFor(queue'[i], w) => i \in DOMAIN queue /\ BuysFor(queue[i], w)
  PROVE  PurchasesHold'
  BY SameView

LEMMA FlagsHold ==
  ASSUME WorkerInv, PurchasesHold, NEW tasks, FlagTasks(tasks), UNCHANGED <<taken, found>>
  PROVE  PurchasesHold'
<1>1. \A w \in Watches : BuysFor(running', w) => BuysFor(running, w)
  BY FlagTasksProperties DEF BuysFor
<1>2. \A w \in Watches : \A i \in DOMAIN queue' :
          BuysFor(queue'[i], w) => i \in DOMAIN queue /\ BuysFor(queue[i], w)
  BY FlagTasksProperties DEF BuysFor
<1> QED
  BY <1>1, <1>2, OtherTasksOnly

LEMMA DispatchHolds ==
  ASSUME TypeOK, WorkerInv, PurchasesHold, UNCHANGED <<running, taken, found>>,
         NEW order \in Seq(Watches), RoomFor(Len(order)), NEW priority \in Priorities,
         DispatchAll(order, priority)
  PROVE  PurchasesHold'
<1>1. /\ \A i \in DOMAIN queue : queue'[i] = queue[i]
      /\ \A i \in DOMAIN queue' \ DOMAIN queue : queue'[i].context.kind = "check"
  BY DispatchProperties
<1>2. \A w \in Watches : \A i \in DOMAIN queue' :
          BuysFor(queue'[i], w) => i \in DOMAIN queue /\ BuysFor(queue[i], w)
  BY <1>1 DEF BuysFor
<1> QED
  BY <1>2, OtherTasksOnly

(* The purchase that runs, before it has an order.                           *)
LEMMA RunningPurchase ==
  ASSUME WorkerInv, PurchasesHold, HoldersHaveNoOrder, Buying, found = NothingFound,
         NEW w, w = running.context.watch
  PROVE  /\ w \in Watches /\ ProductOf[w] \in Products /\ Holds(w) /\ bought[w] = 0
         /\ \A i \in DOMAIN queue : ~BuysFor(queue[i], w)
         /\ \A v \in Watches : Holds(v) /\ v # w => ProductOf[v] # ProductOf[w]
         /\ \A v \in Watches : BuysFor(running, v) => v = w
<1>1. w \in Watches /\ ProductOf[w] \in Products
  BY RunningTask DEF Buying
<1>2. BuysFor(running, w)
  BY DEF BuysFor, Buying
<1>3. Holds(w) /\ \A i \in DOMAIN queue : ~BuysFor(queue[i], w)
  BY <1>1, <1>2 DEF PurchasesHold
<1>4. taken[ProductOf[w]].by = w /\ bought[w] = 0
  BY <1>1, <1>3 DEF Holds, HoldersHaveNoOrder
<1>5. \A v \in Watches : Holds(v) /\ v # w => ProductOf[v] # ProductOf[w]
  BY <1>4 DEF Holds
<1> QED
  BY <1>1, <1>3, <1>4, <1>5 DEF BuysFor

LEMMA WorkerHolds ==
  ASSUME TypeOK, WorkerInv, PurchasesHold, HoldersHaveNoOrder, WorkerSteps
  PROVE  PurchasesHold'
<1>1. CASE UNCHANGED <<queue, taken>> /\ running' = NoTask /\ (found' = found \/ found' = NothingFound)
  BY <1>1, SameView, NoTaskBuys
<1>2. CASE (StartThread \/ PrepareBrowser) /\ UNCHANGED watchVars
  <2>1. UNCHANGED <<queue, running, taken, found>>
    BY <1>2 DEF StartThread, PrepareBrowser, watchVars
  <2> QED
    BY <2>1, OtherTasksOnly
<1>3. CASE TakeTask /\ UNCHANGED watchVars
  <2> DEFINE old(i) == IF i < NextUp THEN i ELSE i + 1
  <2>1. /\ running' = queue[NextUp] /\ UNCHANGED <<found, taken>> /\ running = NoTask
        /\ \A i \in DOMAIN queue' : queue'[i] = queue[old(i)]
    BY <1>3, TakeProperties DEF TakeTask, watchVars
  <2>2. /\ NextUp \in DOMAIN queue
        /\ \A i \in DOMAIN queue' : old(i) \in DOMAIN queue /\ old(i) # NextUp
        /\ \A i, j \in DOMAIN queue' : old(i) = old(j) => i = j
    <3>1. /\ DOMAIN queue' = 1 .. Len(queue) - 1 /\ DOMAIN queue = 1 .. Len(queue)
          /\ Len(queue) \in Nat /\ NextUp \in DOMAIN queue
      BY <1>3, TakeProperties DEF WorkerInv
    <3> QED
      BY <3>1
  <2> HIDE DEF old
  <2>3. ASSUME NEW w \in Watches, NEW i \in DOMAIN queue', BuysFor(queue'[i], w)
        PROVE  /\ Holds(w)'
               /\ \A j \in DOMAIN queue' : BuysFor(queue'[j], w) => j = i
               /\ ~BuysFor(running', w)
    <3>1. BuysFor(queue[old(i)], w)
      BY <2>1, <2>3
    <3>2. Holds(w) /\ \A j \in DOMAIN queue : BuysFor(queue[j], w) => j = old(i)
      BY <2>2, <3>1 DEF PurchasesHold
    <3>3. Holds(w)'
      BY <2>1, <3>2 DEF Holds
    <3>4. ~BuysFor(running', w)
      BY <2>1, <2>2, <3>2
    <3>5. ASSUME NEW j \in DOMAIN queue', BuysFor(queue'[j], w)
          PROVE  j = i
      <4>1. old(j) = old(i)
        BY <2>1, <2>2, <3>2, <3>5
      <4> QED
        BY <2>2, <4>1
    <3> QED
      BY <3>3, <3>4, <3>5
  <2>4. ASSUME NEW w \in Watches, BuysFor(running', w)
        PROVE  Holds(w)'
    <3>1. Holds(w)
      BY <2>1, <2>2, <2>4 DEF PurchasesHold
    <3> QED
      BY <2>1, <3>1 DEF Holds
  <2> QED
    BY <2>3, <2>4 DEF PurchasesHold
<1>4. CASE StopThread /\ UNCHANGED watchVars
  <2>1. queue' = <<>> /\ running' = NoTask /\ UNCHANGED <<found, taken>>
    BY <1>4, StopProperties DEF watchVars
  <2> QED
    BY <2>1, SameView, NoTaskBuys
<1>5. CASE ReadPage
  <2>1. UNCHANGED <<queue, running, taken>> /\ \A w : ~BuysFor(running, w)
    BY <1>5 DEF ReadPage, Checking, BuysFor, workerVars
  <2> QED
    BY <2>1, SameView
<1>6. CASE FailCheck \/ CancelCheck
  BY <1>1, <1>6 DEF FailCheck, CancelCheck, ObserveCancel, FinishTask, watchVars
<1>7. CASE RecordCheck \/ CompleteWatch
  BY <1>1, <1>7 DEF RecordCheck, CompleteWatch, FinishTask
<1>8. CASE ConfirmOrder \/ EndWithoutOrder \/ EndInDoubt \/ EndNeedingUser
  <2> DEFINE w == running.context.watch
  <2>1. /\ Buying /\ found = NothingFound /\ UNCHANGED queue
        /\ running' = NoTask \/ (running' = running /\ found' # NothingFound)
    <3>1. [NothingFound EXCEPT !.status = "purchase_completed"] # NothingFound
      BY DEF NothingFound
    <3> QED
      BY <1>8, <3>1 DEF ConfirmOrder, EndWithoutOrder, EndInDoubt, EndNeedingUser, FinishTask,
         workerVars, watchVars
  <2>2. \A p \in Products : p # ProductOf[w] => taken'[p] = taken[p]
    BY <1>8 DEF ConfirmOrder, EndWithoutOrder, EndInDoubt, EndNeedingUser, Release, TypeOK,
       watchVars
  <2>3. /\ \A i \in DOMAIN queue : ~BuysFor(queue[i], w)
        /\ \A v \in Watches : Holds(v) /\ v # w => ProductOf[v] # ProductOf[w]
        /\ \A v \in Watches : BuysFor(running, v) => v = w
    BY <2>1, RunningPurchase
  <2>4. \A v \in Watches : ~(BuysFor(running', v) /\ found' = NothingFound)
    BY <2>1, NoTaskBuys
  <2>5. ASSUME NEW v \in Watches, Holds(v), Live(v)'
        PROVE  taken'[ProductOf[v]] = taken[ProductOf[v]]
    <3>1. v # w
      BY <2>1, <2>3, <2>4, <2>5 DEF Live
    <3> QED
      BY <2>2, <2>3, <2>5, <3>1
  <2> QED
    BY <2>1, <2>4, <2>5, SameView
<1> QED
  BY <1>2, <1>3, <1>4, <1>5, <1>6, <1>7, <1>8 DEF WorkerSteps

LEMMA ReportsHold ==
  ASSUME TypeOK, WorkerInv, PurchasesHold, HoldersHaveNoOrder, NoneAbandoned, Reports
  PROVE  PurchasesHold'
<1>1. CASE UNCHANGED <<queue, running, taken, found>>
  BY <1>1, OtherTasksOnly
<1>2. CASE OnFinished
  <2> PICK w \in Watches : w = Reported
    BY <1>2, HandlingProperties DEF OnFinished
  <2> DEFINE e == Task(NewIds(1, InFlightIds)[1], Purchasing, Purchase(w))
  <2>1. CASE UNCHANGED <<queue, taken>>
    BY <1>1, <1>2, <2>1 DEF OnFinished
  <2>2. CASE ~UNCHANGED <<queue, taken>>
    <3>1. ProductOf[w] \in Products
      OBVIOUS
    <3>2. /\ queue' = Append(queue, e) /\ taken[ProductOf[w]] = Free
          /\ taken' = [taken EXCEPT ![ProductOf[w]].by = w]
          /\ UNCHANGED <<running, found>>
      BY <1>2, <2>2 DEF OnFinished, AskForPurchase, NoLivePurchase
    <3>3. \A v \in Watches : BuysFor(e, v) => v = w
      BY DEF BuysFor, Task, Purchase
    <3>4. /\ DOMAIN queue' = DOMAIN queue \union {Len(queue) + 1} /\ queue'[Len(queue) + 1] = e
          /\ \A i \in DOMAIN queue : queue'[i] = queue[i] /\ i # Len(queue) + 1
      <4>1. queue \in Seq(Tasks \union {e}) /\ e \in Tasks \union {e}
        BY DEF WorkerInv
      <4> HIDE DEF e
      <4> QED
        BY <3>2, <4>1, AppendRange
    <3> HIDE DEF e
    <3>5. ASSUME NEW v \in Watches
          PROVE  Holds(v) => v # w /\ ProductOf[v] # ProductOf[w]
      BY <3>2 DEF Holds, Free
    <3>6. ~Live(w)
      BY <3>1, <3>5 DEF PurchasesHold, Live
    <3>7. Holds(w)'
      <4>1. taken'[ProductOf[w]] = [Free EXCEPT !.by = w]
        BY <3>1, <3>2 DEF TypeOK
      <4> QED
        BY <4>1 DEF Holds, Free
    <3>8. ASSUME NEW v \in Watches, Holds(v)
          PROVE  Holds(v)'
      BY <3>2, <3>5, <3>8 DEF Holds, TypeOK
    <3>9. ASSUME NEW v \in Watches, NEW i \in DOMAIN queue', BuysFor(queue'[i], v)
          PROVE  /\ Holds(v)'
                 /\ \A j \in DOMAIN queue' : BuysFor(queue'[j], v) => j = i
                 /\ ~(BuysFor(running, v) /\ found = NothingFound)
      <4>1. CASE i = Len(queue) + 1
        <5>1. v = w
          BY <3>3, <3>4, <3>9, <4>1
        <5>2. ASSUME NEW j \in DOMAIN queue', BuysFor(queue'[j], w)
              PROVE  j = i
          BY <3>4, <3>6, <4>1, <5>2 DEF Live
        <5> QED
          BY <3>6, <3>7, <5>1, <5>2 DEF Live
      <4>2. CASE i \in DOMAIN queue
        <5>1. BuysFor(queue[i], v) /\ v # w
          BY <3>4, <3>6, <3>9, <4>2 DEF Live
        <5>2. /\ Holds(v) /\ ~(BuysFor(running, v) /\ found = NothingFound)
              /\ \A j \in DOMAIN queue : BuysFor(queue[j], v) => j = i
          BY <4>2, <5>1 DEF PurchasesHold
        <5> QED
          BY <3>3, <3>4, <3>8, <5>1, <5>2
      <4> QED
        BY <3>4, <3>9, <4>1, <4>2
    <3>10. ASSUME NEW v \in Watches, BuysFor(running, v), found = NothingFound
           PROVE  Holds(v)'
      BY <3>8, <3>10 DEF PurchasesHold
    <3> QED
      BY <3>2, <3>9, <3>10 DEF PurchasesHold
  <2> QED
    BY <2>1, <2>2
<1>3. CASE OnFailed
  <2>1. \/ UNCHANGED <<queue, running>>
        \/ FlagTasks({t \in Outstanding : t.priority = Monitoring})
    BY <1>3 DEF OnFailed, StopMonitoring
  <2> QED
    BY <1>1, <1>3, <2>1, FlagsHold DEF OnFailed
<1>4. CASE OnCancelled
  BY <1>1, <1>4 DEF OnCancelled
<1>5. CASE OnPurchaseReport
  <2>1. PICK kind \in {"finished", "cancelled"} : Handling(kind, "purchase")
    BY <1>5 DEF OnPurchaseReport
  <2>2. Head(signals).kind = "finished"
    BY <2>1, HandlingProperties DEF NoneAbandoned
  <2> QED
    BY <1>1, <1>5, <2>2 DEF OnPurchaseReport
<1> QED
  BY <1>2, <1>3, <1>4, <1>5 DEF Reports

LEMMA HoldStep ==
  ASSUME TypeOK, WorkerInv, PurchasesHold, HoldersHaveNoOrder, NoneAbandoned, [Next]_vars
  PROVE  PurchasesHold'
<1>1. CASE UNCHANGED <<queue, running, taken, found>>
  BY <1>1, OtherTasksOnly
<1>2. CASE WatchListSteps
  <2>1. CASE CheckAllNow \/ \E w \in Watches : CheckNow(w)
    <3> PICK order \in Seq(Watches) : RoomFor(Len(order)) /\ DispatchAll(order, Interactive)
      BY <2>1, RequestProperties
    <3>1. Interactive \in Priorities
      BY DEF Priorities
    <3> QED
      BY <2>1, <3>1, RequestProperties, DispatchHolds
  <2>2. CASE \E on \in BOOLEAN : SetEnabled(on) \/ SetKeepWatching(on)
    BY <1>1, <2>2, FlagsHold DEF SetEnabled, SetKeepWatching, StopMonitoring, workerVars
  <2>3. ASSUME NEW w \in Watches, PauseWatch(w) \/ RemoveWatch(w)
        PROVE  PurchasesHold'
    BY <2>3, FlagsHold DEF PauseWatch, RemoveWatch, ForgetInFlight
  <2>4. CASE \E w \in Watches : \/ \E action \in Actions : Create(w, action) \/ Edit(w, action)
                                \/ ResumeWatch(w)
    BY <1>1, <2>4 DEF Create, Edit, ResumeWatch, workerVars
  <2> QED
    BY <1>2, <2>1, <2>2, <2>3, <2>4 DEF WatchListSteps
<1>3. CASE OtherSteps
  <2> PICK p \in Products : UserBuys(p) \/ UserIsDone(p) \/ \E placed \in BOOLEAN : SettleDoubt(p, placed)
    BY <1>3 DEF OtherSteps
  <2>1. /\ UNCHANGED <<queue, running, found>>
        /\ \A q \in Products : q # p => taken'[q] = taken[q]
    BY DEF UserBuys, UserIsDone, SettleDoubt, workerVars, TypeOK
  <2>2. \A w \in Watches : Holds(w) => ProductOf[w] # p
    BY DEF UserBuys, UserIsDone, SettleDoubt, Holds, Free
  <2> QED
    BY <2>1, <2>2, SameView
<1>4. CASE Clock
  <2>1. CASE Elapse
    BY <1>1, <2>1 DEF Elapse, workerVars
  <2>2. CASE OnTick \/ OnTickAfterSleep
    <3>1. /\ UNCHANGED <<running, taken, found>>
          /\ \/ UNCHANGED queue
             \/ \E w \in Watches : RoomFor(1) /\ DispatchAll(<<w>>, Monitoring)
      BY <2>2, TickProperties
    <3>2. ASSUME NEW w \in Watches
          PROVE  <<w>> \in Seq(Watches) /\ Len(<<w>>) = 1 /\ Monitoring \in Priorities
      BY DEF Priorities
    <3> QED
      BY <1>1, <3>1, <3>2, DispatchHolds
  <2> QED
    BY <1>4, <2>1, <2>2 DEF Clock
<1>5. CASE Exit
  BY <1>5, FlagsHold DEF Exit, Shutdown
<1>6. CASE Restart
  <2>1. queue' = <<>> /\ running' = NoTask
    BY <1>6 DEF Restart
  <2> QED
    BY <2>1, NoTaskBuys DEF PurchasesHold
<1>7. CASE UNCHANGED vars
  BY <1>1, <1>7 DEF vars, workerVars, watchVars
<1> QED
  BY <1>2, <1>3, <1>4, <1>5, <1>6, <1>7, WorkerHolds, ReportsHold DEF Next

(* The count of orders of a watch, and the products that watches hold.       *)
LEMMA OrderStep ==
  ASSUME TypeOK, WorkerInv, PurchasesHold, HoldersHaveNoOrder, NoneAbandoned, OneOrderPerWatch,
         [Next]_vars
  PROVE  HoldersHaveNoOrder' /\ OneOrderPerWatch'
<1>1. CASE UNCHANGED <<taken, bought>>
  BY <1>1 DEF HoldersHaveNoOrder, OneOrderPerWatch
<1>2. ASSUME UNCHANGED bought,
             \A p \in Products : \/ taken'[p] \in {taken[p], Free}
                                 \/ /\ taken'[p].by \in Watches
                                    /\ ProductOf[taken'[p].by] = p /\ bought[taken'[p].by] = 0
                                 \/ taken'[p].by = "user" /\ ~taken'[p].doubt
      PROVE  HoldersHaveNoOrder' /\ OneOrderPerWatch'
  <2>1. Free.by \notin Watches /\ "user" \notin Watches /\ ~Free.doubt
    BY DEF Free
  <2> QED
    BY <1>2, <2>1 DEF HoldersHaveNoOrder, OneOrderPerWatch
<1>3. ASSUME NEW w \in Watches, NEW p \in Products, taken[p].by = w,
             taken' = [taken EXCEPT ![p] = Free], CountOrder(w)
      PROVE  HoldersHaveNoOrder' /\ OneOrderPerWatch'
  <2>1. ProductOf[w] = p /\ bought[w] = 0
    BY <1>3 DEF HoldersHaveNoOrder
  <2>2. \A v \in Watches : bought'[v] = bought[v] \/ (v = w /\ bought'[v] = 1)
    BY <1>3, <2>1 DEF CountOrder, TypeOK
  <2>3. \A q \in Products : taken'[q] = IF q = p THEN Free ELSE taken[q]
    BY <1>3 DEF TypeOK
  <2>4. Free.by \notin Watches /\ ~Free.doubt
    BY DEF Free
  <2>5. OneOrderPerWatch'
    BY <2>2 DEF OneOrderPerWatch
  <2>6. ASSUME NEW q \in Products
        PROVE  /\ taken'[q].by \in Watches => /\ ProductOf[taken'[q].by] = q
                                              /\ bought'[taken'[q].by] = 0
               /\ taken'[q].doubt => taken'[q].by \in Watches
    <3>1. CASE q = p
      BY <2>3, <2>4, <3>1
    <3>2. CASE q # p
      BY <2>1, <2>2, <2>3, <3>2 DEF HoldersHaveNoOrder
    <3> QED
      BY <3>1, <3>2
  <2> QED
    BY <2>5, <2>6 DEF HoldersHaveNoOrder
<1>4. CASE WorkerSteps
  <2>1. CASE ConfirmOrder \/ EndWithoutOrder \/ EndInDoubt
    <3> DEFINE w == running.context.watch
    <3>1. /\ w \in Watches /\ ProductOf[w] \in Products /\ taken[ProductOf[w]].by = w
          /\ bought[w] = 0
      <4>1. Buying /\ found = NothingFound
        BY <2>1 DEF ConfirmOrder, EndWithoutOrder, EndInDoubt
      <4>2. w \in Watches /\ ProductOf[w] \in Products /\ Holds(w) /\ bought[w] = 0
        BY <4>1, RunningPurchase
      <4> QED
        BY <4>2 DEF Holds
    <3>2. CASE ConfirmOrder
      BY <1>3, <3>1, <3>2 DEF ConfirmOrder, Release
    <3>3. CASE EndWithoutOrder
      BY <1>2, <3>1, <3>3 DEF EndWithoutOrder, Release, TypeOK
    <3>4. CASE EndInDoubt
      <4> HIDE DEF w
      <4>1. taken' = [taken EXCEPT ![ProductOf[w]].doubt = TRUE] /\ UNCHANGED bought
        BY <3>4 DEF EndInDoubt, w
      <4>2. \A p \in Products : taken'[p] = IF p = ProductOf[w] THEN [taken[p] EXCEPT !.doubt = TRUE]
                                                               ELSE taken[p]
        BY <3>1, <4>1 DEF TypeOK
      <4>3. taken'[ProductOf[w]].by = w
        BY <3>1, <4>2 DEF TypeOK
      <4> QED
        BY <1>2, <3>1, <4>1, <4>2, <4>3
    <3> QED
      BY <2>1, <3>2, <3>3, <3>4
  <2>2. CASE UNCHANGED <<taken, bought>>
    BY <1>1, <2>2
  <2> QED
    BY <1>4, <2>1, <2>2 DEF WorkerSteps, ReadPage, FailCheck, CancelCheck, RecordCheck,
       CompleteWatch, EndNeedingUser, watchVars
<1>5. CASE Reports
  <2>1. CASE OnFinished
    <3> DEFINE w == Reported
    <3>1. w \in Watches /\ ProductOf[w] \in Products
      BY <2>1, HandlingProperties DEF OnFinished
    <3>2. CASE UNCHANGED taken
      BY <1>1, <2>1, <3>2 DEF OnFinished
    <3>3. CASE ~UNCHANGED taken
      <4>1. /\ taken' = [taken EXCEPT ![ProductOf[w]].by = w] /\ bought[w] = 0
            /\ UNCHANGED bought
        BY <2>1, <3>3 DEF OnFinished, AskForPurchase, NoLivePurchase, NoOrderYet
      <4> HIDE DEF w
      <4>2. /\ \A p \in Products : p # ProductOf[w] => taken'[p] = taken[p]
            /\ taken'[ProductOf[w]].by = w
        BY <3>1, <4>1 DEF TypeOK
      <4> QED
        BY <1>2, <3>1, <4>1, <4>2
    <3> QED
      BY <3>2, <3>3
  <2>2. CASE OnPurchaseReport
    <3>1. \A p \in Products : taken'[p] \in {taken[p], Free}
      BY <2>2 DEF OnPurchaseReport, TypeOK
    <3> QED
      BY <1>2, <2>2, <3>1 DEF OnPurchaseReport
  <2>3. CASE OnFailed \/ OnCancelled
    BY <1>1, <2>3 DEF OnFailed, OnCancelled
  <2> QED
    BY <1>5, <2>1, <2>2, <2>3 DEF Reports
<1>6. CASE WatchListSteps
  <2>1. CASE CheckAllNow \/ \E w \in Watches : CheckNow(w)
    BY <1>1, <2>1, RequestProperties
  <2>2. CASE \E on \in BOOLEAN : SetEnabled(on) \/ SetKeepWatching(on)
    BY <1>1, <2>2 DEF SetEnabled, SetKeepWatching
  <2>3. CASE \E w \in Watches : \/ \E action \in Actions : Create(w, action) \/ Edit(w, action)
                                \/ PauseWatch(w) \/ ResumeWatch(w) \/ RemoveWatch(w)
    <3>1. UNCHANGED taken /\ (UNCHANGED bought \/ \E w \in Watches : bought' = [bought EXCEPT ![w] = 0])
      BY <2>3 DEF Create, Edit, PauseWatch, ResumeWatch, RemoveWatch
    <3>2. \A v \in Watches : bought'[v] \in {0, bought[v]}
      BY <3>1 DEF TypeOK
    <3> QED
      BY <3>1, <3>2 DEF HoldersHaveNoOrder, OneOrderPerWatch
  <2> QED
    BY <1>6, <2>1, <2>2, <2>3 DEF WatchListSteps
<1>7. CASE OtherSteps
  <2>1. ASSUME NEW p \in Products, NEW placed \in BOOLEAN, SettleDoubt(p, placed)
        PROVE  HoldersHaveNoOrder' /\ OneOrderPerWatch'
    <3>1. taken[p].by \in Watches /\ taken' = [taken EXCEPT ![p] = Free]
      BY <2>1 DEF SettleDoubt, HoldersHaveNoOrder
    <3>2. CASE UNCHANGED bought
      BY <1>2, <3>1, <3>2 DEF TypeOK
    <3>3. CASE CountOrder(taken[p].by)
      BY <1>3, <3>1, <3>3
    <3> QED
      BY <2>1, <3>2, <3>3 DEF SettleDoubt
  <2>2. ASSUME NEW p \in Products, UserBuys(p)
        PROVE  HoldersHaveNoOrder' /\ OneOrderPerWatch'
    <3>1. taken' = [taken EXCEPT ![p].by = "user"] /\ UNCHANGED bought /\ ~taken[p].doubt
      BY <2>2 DEF UserBuys, Free
    <3>2. /\ \A q \in Products : q # p => taken'[q] = taken[q]
          /\ taken'[p].by = "user" /\ ~taken'[p].doubt
      BY <3>1 DEF TypeOK
    <3> QED
      BY <1>2, <3>1, <3>2
  <2>3. ASSUME NEW p \in Products, UserIsDone(p)
        PROVE  HoldersHaveNoOrder' /\ OneOrderPerWatch'
    BY <1>2, <2>3 DEF UserIsDone, TypeOK
  <2> QED
    BY <1>7, <2>1, <2>2, <2>3 DEF OtherSteps
<1>8. CASE Clock
  <2>1. CASE OnTick \/ OnTickAfterSleep
    BY <1>1, <2>1, TickProperties
  <2>2. CASE Elapse
    BY <1>1, <2>2 DEF Elapse
  <2> QED
    BY <1>8, <2>1, <2>2 DEF Clock
<1>9. CASE Restart
  <2>1. ASSUME NEW p \in Products
        PROVE  \/ taken'[p] \in {taken[p], Free}
               \/ taken[p].by \in Watches /\ taken'[p] = [taken[p] EXCEPT !.doubt = TRUE]
    BY <1>9 DEF Restart, Recovered
  <2>2. ASSUME NEW p \in Products, taken[p].by \in Watches, taken'[p] = [taken[p] EXCEPT !.doubt = TRUE]
        PROVE  /\ taken'[p].by \in Watches
               /\ ProductOf[taken'[p].by] = p /\ bought[taken'[p].by] = 0
    <3>1. taken'[p].by = taken[p].by
      BY <2>2 DEF TypeOK
    <3> QED
      BY <2>2, <3>1 DEF HoldersHaveNoOrder
  <2> QED
    BY <1>2, <1>9, <2>1, <2>2 DEF Restart
<1>10. CASE Exit \/ UNCHANGED vars
  BY <1>1, <1>10 DEF Exit, vars, watchVars
<1> QED
  BY <1>4, <1>5, <1>6, <1>7, <1>8, <1>9, <1>10 DEF Next

-----------------------------------------------------------------------------
(* The invariant, and what the watch list guarantees.                        *)

LEMMA StartsRight ==
  ASSUME Init
  PROVE  WatchInv
<1> USE DEF Init, WorkerInit
<1>1. WorkerInv
  BY NothingFoundType DEF WorkerInv
<1>2. Range(<<>>) = {} /\ Outstanding = {NoTask}
  BY DEF Range, Outstanding
<1>3. WorkerTypeOK
  <2>1. NoTask.id = 0 /\ NoTask.priority \in Priorities /\ 0 \in 0 .. MaxTasks
    BY DEF NoTask, Priorities
  <2> QED
    BY <1>2, <2>1 DEF WorkerTypeOK, WorkerStates
<1>4. TypeOK
  <2>1. /\ NoWatch \in [status : Statuses, action : {"notify", "buy"}, wait : Nat]
        /\ Free \in [by : Watches \union {"nobody", "user"}, doubt : BOOLEAN]
    BY DEF NoWatch, Statuses, Free
  <2>2. 0 \in 0 .. MaxTasks /\ 0 \in 0 .. MaxOrders /\ 0 \in 0 .. Gap
    <3>1. Gap \in Nat
      BY SMT
    <3> QED
      BY <3>1
  <2> QED
    BY <1>3, <2>1, <2>2 DEF TypeOK
<1>5. PurchasesHold
  BY NoTaskBuys DEF PurchasesHold
<1>6. HoldersHaveNoOrder /\ OneOrderPerWatch
  BY DEF HoldersHaveNoOrder, OneOrderPerWatch, Free
<1>7. NoneAbandoned /\ InFlightIsOutstanding /\ StoppedIsQuiet
  BY <1>2 DEF NoneAbandoned, InFlightIsOutstanding, StoppedIsQuiet, NoTask, Monitoring, Interactive
<1> QED
  BY <1>1, <1>4, <1>5, <1>6, <1>7 DEF WatchInv

(* WatchInv is an inductive invariant of the watch list, the worker and the  *)
(* purchases that its checks lead to.                                        *)
THEOREM WatchInvariance == Spec => []WatchInv
<1>1. WatchInv /\ [Next]_vars => WatchInv'
  BY TypeStep, InFlightStep, QuietStep, AbandonedStep, HoldStep, OrderStep DEF WatchInv
<1> QED
  BY <1>1, StartsRight, PTL DEF Spec

(* Every variable of the watch list keeps its type, for any number of        *)
(* watches, tasks, products and orders.                                      *)
THEOREM WatchTypes == Spec => []TypeOK
<1>1. WatchInv => TypeOK
  BY DEF WatchInv
<1> QED
  BY <1>1, WatchInvariance, PTL

(* No watch leads to two confirmed orders: a purchase is asked for only when *)
(* its watch has none, keeps the product taken until it ends, and the one    *)
(* that ends with an order releases it (has_completed_purchase).             *)
THEOREM WatchOrdersOnce == Spec => []OneOrderPerWatch
<1>1. WatchInv => OneOrderPerWatch
  BY DEF WatchInv
<1> QED
  BY <1>1, WatchInvariance, PTL

(* No watch counts as in flight without a check that will still be reported, *)
(* so that none is passed over for ever (_in_flight).                        *)
THEOREM NoneForgotten == Spec => []InFlightIsOutstanding
<1>1. WatchInv => InFlightIsOutstanding
  BY DEF WatchInv
<1> QED
  BY <1>1, WatchInvariance, PTL

(* Once monitoring has stopped, whatever background check is still queued or *)
(* running carries its cancel flag (stop, cancel_all).                       *)
THEOREM QuietAfterStop == Spec => []StoppedIsQuiet
<1>1. WatchInv => StoppedIsQuiet
  BY DEF WatchInv
<1> QED
  BY <1>1, WatchInvariance, PTL

-----------------------------------------------------------------------------
(* The watch list and the promise of the workflow.                           *)

(* What a step of the watch list may do to the slots and the orders.         *)
Gives(p) == taken[p].by # "nobody" /\ taken' = [taken EXCEPT ![p] = Free]
Buys(p) == LET w == taken[p].by
           IN  Gives(p) /\ w \in Watches /\ bought[w] = 0 /\ bought' = [bought EXCEPT ![w] = 1]
TakesUp(p, b) ==
    /\ taken[p] = Free /\ (b \in Watches => bought[b] = 0)
    /\ taken' = [taken EXCEPT ![p].by = b] /\ UNCHANGED bought
Doubts(p) ==
    /\ taken[p].by # "nobody"
    /\ taken' = [taken EXCEPT ![p].doubt = TRUE] /\ UNCHANGED bought
Recovers ==
    /\ taken' \in [Products -> [by : Watches \union {"nobody", "user"}, doubt : BOOLEAN]]
    /\ UNCHANGED bought
    /\ \A p \in Products :
          \/ taken'[p] = taken[p]
          \/ /\ taken[p].by # "nobody" /\ ~taken[p].doubt
             /\ taken'[p] \in {Free, [taken[p] EXCEPT !.doubt = TRUE]}

SlotShape ==
    \/ UNCHANGED <<taken, bought>>
    \/ \E p \in Products : Gives(p) /\ UNCHANGED bought
    \/ \E p \in Products : Buys(p) \/ Doubts(p)
    \/ \E p \in Products, b \in Watches \union {"user"} : TakesUp(p, b)
    \/ \E w \in Watches : UNCHANGED taken /\ bought' = [bought EXCEPT ![w] = 0]
    \/ Recovers

(* An order that is counted is the first of a watch that holds its product.  *)
LEMMA CountShape ==
  ASSUME TypeOK, NEW p \in Products, NEW w \in Watches, taken[p].by = w, bought[w] = 0,
         taken' = [taken EXCEPT ![p] = Free], CountOrder(w) \/ UNCHANGED bought
  PROVE  SlotShape
<1>1. w # "nobody"
  OBVIOUS
<1>2. UNCHANGED bought \/ bought' = [bought EXCEPT ![w] = 1]
  BY DEF CountOrder, TypeOK
<1> QED
  BY <1>1, <1>2 DEF SlotShape, Gives, Buys

LEMMA WatchShape ==
  ASSUME WatchInv, [Next]_vars
  PROVE  SlotShape
<1>0. TypeOK /\ WorkerInv /\ PurchasesHold /\ HoldersHaveNoOrder /\ NoneAbandoned
  BY DEF WatchInv
<1>1. CASE UNCHANGED <<taken, bought>>
  BY <1>1 DEF SlotShape
<1>2. CASE WorkerSteps
  <2>1. CASE ConfirmOrder \/ EndWithoutOrder \/ EndInDoubt
    <3> PICK w : w = running.context.watch
      OBVIOUS
    <3>1. w \in Watches /\ ProductOf[w] \in Products /\ taken[ProductOf[w]].by = w
          /\ bought[w] = 0
      <4>1. Buying /\ found = NothingFound
        BY <2>1 DEF ConfirmOrder, EndWithoutOrder, EndInDoubt
      <4>2. w \in Watches /\ ProductOf[w] \in Products /\ Holds(w) /\ bought[w] = 0
        BY <1>0, <4>1, RunningPurchase
      <4> QED
        BY <4>2 DEF Holds
    <3>2. CASE ConfirmOrder \/ EndWithoutOrder
      BY <1>0, <3>1, <3>2, CountShape DEF ConfirmOrder, EndWithoutOrder, Release
    <3>3. CASE EndInDoubt
      <4>1. Doubts(ProductOf[w])
        BY <3>1, <3>3 DEF EndInDoubt, Doubts
      <4> QED
        BY <3>1, <4>1 DEF SlotShape
    <3> QED
      BY <2>1, <3>2, <3>3
  <2> QED
    BY <1>1, <1>2, <2>1 DEF WorkerSteps, ReadPage, FailCheck, CancelCheck, RecordCheck,
       CompleteWatch, EndNeedingUser, watchVars
<1>3. CASE Reports
  <2>1. CASE OnFinished
    <3> PICK w \in Watches : w = Reported
      BY <1>0, <2>1, HandlingProperties DEF OnFinished
    <3>1. UNCHANGED bought /\ (UNCHANGED taken \/ TakesUp(ProductOf[w], w))
      BY <2>1 DEF OnFinished, AskForPurchase, NoLivePurchase, NoOrderYet, TakesUp
    <3> QED
      BY <3>1 DEF SlotShape
  <2>2. CASE OnPurchaseReport
    <3>1. UNCHANGED bought
          /\ (UNCHANGED taken \/ \E p \in Products : Gives(p))
      <4>1. Reported \in Watches /\ ProductOf[Reported] \in Products
        BY <1>0, <2>2, HandlingProperties DEF OnPurchaseReport
      <4>2. UNCHANGED bought /\ (UNCHANGED taken \/ Gives(ProductOf[Reported]))
        BY <2>2, <4>1 DEF OnPurchaseReport, Gives
      <4> QED
        BY <4>1, <4>2
    <3> QED
      BY <3>1 DEF SlotShape
  <2> QED
    BY <1>1, <1>3, <2>1, <2>2 DEF Reports, OnFailed, OnCancelled
<1>4. CASE WatchListSteps
  <2>1. CASE \E w \in Watches : RemoveWatch(w) \/ \E action \in Actions : Create(w, action)
    BY <2>1 DEF RemoveWatch, Create, SlotShape
  <2> QED
    BY <1>1, <1>4, <2>1 DEF WatchListSteps, CheckAllNow, SetEnabled, SetKeepWatching, Edit,
       PauseWatch, ResumeWatch, CheckNow
<1>5. CASE OtherSteps
  <2> PICK p \in Products : UserBuys(p) \/ UserIsDone(p) \/ \E placed \in BOOLEAN : SettleDoubt(p, placed)
    BY <1>5 DEF OtherSteps
  <2>1. CASE UserBuys(p)
    <3>1. TakesUp(p, "user")
      BY <2>1 DEF UserBuys, TakesUp
    <3> QED
      BY <3>1 DEF SlotShape
  <2>2. CASE UserIsDone(p)
    BY <2>2 DEF UserIsDone, SlotShape, Gives
  <2>3. CASE \E placed \in BOOLEAN : SettleDoubt(p, placed)
    <3> PICK w : w = taken[p].by
      OBVIOUS
    <3>1. w \in Watches /\ bought[w] = 0
      BY <1>0, <2>3 DEF SettleDoubt, HoldersHaveNoOrder
    <3> QED
      BY <1>0, <2>3, <3>1, CountShape DEF SettleDoubt
  <2> QED
    BY <2>1, <2>2, <2>3
<1>6. CASE Clock
  BY <1>1, <1>6 DEF Clock, Elapse, OnTick, OnTickAfterSleep
<1>7. CASE Restart
  <2>1. TypeOK'
    BY TypeStep DEF WatchInv
  <2>2. ASSUME NEW p \in Products
        PROVE  \/ taken'[p] = taken[p]
               \/ /\ taken[p].by # "nobody" /\ ~taken[p].doubt
                  /\ taken'[p] \in {Free, [taken[p] EXCEPT !.doubt = TRUE]}
    <3>1. taken[p] = [by |-> taken[p].by, doubt |-> taken[p].doubt]
          /\ taken[p].by \in Watches \union {"nobody", "user"} /\ taken[p].doubt \in BOOLEAN
      BY <1>0 DEF TypeOK
    <3>2. taken[p].by \notin Watches => ~taken[p].doubt
      BY <1>0 DEF HoldersHaveNoOrder
    <3>3. taken[p].by = "nobody" => taken[p] = Free
      BY <3>1, <3>2 DEF Free
    <3>4. \/ taken'[p] = taken[p]
          \/ taken[p].by \notin Watches /\ taken'[p] = Free
          \/ /\ taken[p].by \in Watches /\ ~taken[p].doubt
             /\ taken'[p] \in {Free, [taken[p] EXCEPT !.doubt = TRUE]}
      BY <1>7 DEF Restart, Recovered
    <3> QED
      BY <3>1, <3>2, <3>3, <3>4
  <2>3. Recovers
    BY <1>7, <2>1, <2>2 DEF Recovers, TypeOK, Restart
  <2> QED
    BY <2>3 DEF SlotShape
<1>8. CASE Exit \/ UNCHANGED vars
  BY <1>1, <1>8 DEF Exit, vars, watchVars
<1> QED
  BY <1>2, <1>3, <1>4, <1>5, <1>6, <1>7, <1>8 DEF Next

(* Each of them is a step of the promise.                                    *)
LEMMA ShapeIsPromised ==
  ASSUME TypeOK, SlotShape, \A p \in Products : taken[p].by = "nobody" => taken[p] = Free
  PROVE  [Slots!Next]_(Slots!slotVars)
<1> DEFINE Buyers == Watches \union {"user"}
           holder == [p \in Products |-> taken[p].by]
           doubts == {p \in Products : taken[p].doubt}
           orders == [b \in Buyers |-> IF b \in Watches THEN bought[b] ELSE 0]
<1> USE DEF Slots!slotVars, Slots!Taken
<1>a. UNCHANGED bought => UNCHANGED orders
  OBVIOUS
<1>b. /\ taken \in [Products -> [by : Buyers \union {"nobody"}, doubt : BOOLEAN]]
      /\ bought \in [Watches -> Nat]
  BY DEF TypeOK
<1>c. ASSUME NEW p \in Products, Gives(p)
      PROVE  Slots!GiveUp(p)
  <2>1. /\ \A q \in Products \ {p} : taken'[q] = taken[q]
        /\ taken'[p].by = "nobody" /\ taken'[p].doubt = FALSE
    BY <1>b, <1>c DEF Gives, Free
  <2>2. holder' = [holder EXCEPT ![p] = "nobody"]
    BY <2>1
  <2>3. doubts' = doubts \ {p}
    BY <2>1
  <2> QED
    BY <1>c, <2>2, <2>3 DEF Slots!GiveUp, Gives
<1>1. CASE UNCHANGED <<taken, bought>>
  BY <1>1
<1>2. CASE \E p \in Products : Gives(p) /\ UNCHANGED bought
  <2> PICK p \in Products : Gives(p) /\ UNCHANGED bought
    BY <1>2
  <2>1. Slots!Release(p)
    BY <1>a, <1>c DEF Slots!Release
  <2> QED
    BY <2>1 DEF Slots!Next
<1>3. ASSUME NEW p \in Products, Buys(p)
      PROVE  Slots!Next
  <2> PICK w \in Watches : w = taken[p].by
    BY <1>3 DEF Buys
  <2>1. bought[w] = 0 /\ bought' = [bought EXCEPT ![w] = 1]
    BY <1>3 DEF Buys
  <2>2. orders[w] = 0 /\ orders' = [orders EXCEPT ![w] = 1] /\ holder[p] = w
    BY <1>b, <2>1
  <2>3. Slots!GiveUp(p)
    BY <1>3, <1>c DEF Buys
  <2>4. Slots!Order(p)
    <3> HIDE DEF orders, holder
    <3>1. orders[holder[p]] = 0 /\ orders' = [orders EXCEPT ![holder[p]] = 1]
      BY <2>2
    <3> QED
      BY <2>3, <3>1 DEF Slots!Order, orders, holder
  <2> QED
    BY <2>4 DEF Slots!Next
<1>4. ASSUME NEW p \in Products, Doubts(p)
      PROVE  Slots!Next
  <2>1. /\ \A q \in Products \ {p} : taken'[q] = taken[q]
        /\ taken'[p].by = taken[p].by /\ taken'[p].doubt = TRUE
    BY <1>4, <1>b DEF Doubts
  <2>2. UNCHANGED holder /\ doubts' = doubts \union {p}
    BY <2>1
  <2>3. Slots!Doubt(p)
    BY <1>4, <1>a, <2>2 DEF Slots!Doubt, Doubts
  <2> QED
    BY <2>3 DEF Slots!Next
<1>5. ASSUME NEW p \in Products, NEW b \in Buyers, TakesUp(p, b)
      PROVE  Slots!Next
  <2>1. orders[b] = 0
    BY <1>5 DEF TakesUp
  <2>2. /\ \A q \in Products \ {p} : taken'[q] = taken[q]
        /\ taken'[p].by = b /\ taken'[p].doubt = taken[p].doubt
    BY <1>5, <1>b DEF TakesUp
  <2>3. holder' = [holder EXCEPT ![p] = b] /\ UNCHANGED doubts
    BY <2>2
  <2>4. Slots!Take(p, b)
    BY <1>5, <1>a, <2>1, <2>3 DEF Slots!Take, TakesUp, Free
  <2> QED
    BY <2>4 DEF Slots!Next
<1>6. ASSUME NEW w \in Watches, UNCHANGED taken, bought' = [bought EXCEPT ![w] = 0]
      PROVE  Slots!Next
  <2>1. orders' = [orders EXCEPT ![w] = 0]
    BY <1>6, <1>b
  <2>2. Slots!Forget(w)
    BY <1>6, <2>1 DEF Slots!Forget
  <2> QED
    BY <2>2 DEF Slots!Next
<1>7. CASE Recovers
  <2> DEFINE ended == {p \in Slots!UnderWay : taken'[p] = Free}
             doubted == {p \in Slots!UnderWay \ ended :
                           taken'[p] = [taken[p] EXCEPT !.doubt = TRUE]}
  <2>1. ASSUME NEW p \in Products
        PROVE  /\ p \in ended => taken'[p].by = "nobody" /\ ~taken'[p].doubt /\ ~taken[p].doubt
               /\ p \notin ended => taken'[p].by = taken[p].by
               /\ p \in doubted => taken'[p].doubt
               /\ p \notin ended /\ p \notin doubted => taken'[p].doubt = taken[p].doubt
    BY <1>7, <1>b DEF Recovers, Slots!UnderWay, Free
  <2>2. Slots!Recover(ended, doubted)
    <3> ended \subseteq Products /\ doubted \subseteq Products
      BY DEF Slots!UnderWay
    <3> HIDE DEF ended, doubted
    <3>1. holder' = [p \in Products |-> IF p \in ended THEN "nobody" ELSE holder[p]]
      BY <2>1
    <3>2. doubts' = doubts \union doubted
      <4>1. ASSUME NEW p \in Products
            PROVE  p \in doubts' <=> p \in doubts \union doubted
        BY <2>1, <1>b DEF ended, doubted
      <4> QED
        BY <4>1
    <3> QED
      BY <1>7, <1>a, <3>1, <3>2 DEF Slots!Recover, Recovers
  <2>3. ended \in SUBSET Slots!UnderWay /\ doubted \in SUBSET (Slots!UnderWay \ ended)
    OBVIOUS
  <2>4. \E e \in SUBSET Slots!UnderWay : \E d \in SUBSET (Slots!UnderWay \ e) :
           Slots!Recover(e, d)
    <3> HIDE DEF ended, doubted, holder, doubts, orders
    <3> QED
      BY <2>2, <2>3, Zenon DEF Slots!Recover
  <2> QED
    BY <2>4 DEF Slots!Next
<1> QED
  BY <1>1, <1>2, <1>3, <1>4, <1>5, <1>6, <1>7 DEF SlotShape

(* The purchases that the watch list sees are those that the workflow        *)
(* promises: no product is taken from another buyer, no watch buys twice,    *)
(* and a doubt outlasts every restart.                                       *)
THEOREM WatchSlotsKept == Spec => WatchKeepsSlots
<1>1. Init => Slots!Init
  BY DEF Init, Slots!Init, Free
<1>2. WatchInv /\ [Next]_vars => [Slots!Next]_(Slots!slotVars)
  <2> SUFFICES ASSUME WatchInv, [Next]_vars PROVE [Slots!Next]_(Slots!slotVars)
    OBVIOUS
  <2>1. \A p \in Products : taken[p].by = "nobody" => taken[p] = Free
    BY DEF WatchInv, TypeOK, HoldersHaveNoOrder, Free
  <2> QED
    BY <2>1, WatchShape, ShapeIsPromised DEF WatchInv
<1> QED
  BY <1>1, <1>2, WatchInvariance, PTL DEF Spec, WatchKeepsSlots, Slots!Spec
=============================================================================
