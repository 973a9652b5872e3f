-------------------------- MODULE PeriodicPolling --------------------------
(***************************************************************************)
(* Ex6/TaskA.c: three periodic tasks of priority 99 on one CPU poll a line *)
(* each, answer with a pulse, and delete themselves when their time is up. *)
(*                                                                         *)
(* io_read and io_write are Linux calls, in which a task leaves Xenomai's  *)
(* scheduler, so any of the tasks that are ready may go on next, whoever   *)
(* has yielded.  The disturbance threads have no priority and get what the *)
(* tasks leave.  Calls take no time, except that up to Slack units of a    *)
(* run pass while somebody is ready.                                       *)
(***************************************************************************)
EXTENDS SmallParameters

VARIABLES
  at,           \* the statement of the task of each line
  left,         \* endTime less the time, -1 when it is past
  due,          \* the time to the next release point, 0 before set_periodic
  overrun,      \* the tasks that had a release point since they last waited
  test,         \* the lines that are low
  pending,      \* those of them that have not seen an answer since they are
  waited,       \* for how long
  since,        \* left when the line became low
  overhead,     \* the units of slack its task has been kept since
  afterPoll,    \* the lines that became low after the poll of that turn
  spent         \* the units that have passed with work to do

tester == <<test, pending, waited, since, overhead, afterPoll>>
polling == <<at, left, due, overrun, tester, spent>>

\* Longer waits are not told apart.
MaxWait == TASK_PERIOD + Slack + 1

Init ==
  /\ at = [l \in Line |-> "created"]
  /\ left = [l \in Line |-> Duration]
  /\ due = [l \in Line |-> 0]
  /\ overrun = {} /\ test = {} /\ pending = {}
  /\ waited = [l \in Line |-> 0] /\ since = [l \in Line |-> 0]
  /\ overhead = [l \in Line |-> 0] /\ afterPoll = {}
  /\ spent = 0

-----------------------------------------------------------------------------

Goto(l, s) == at' = [at EXCEPT ![l] = s]

\* rt_task_start, in the order of the lines
Start(l) ==
  /\ at[l] = "created" /\ \A m \in Line : m < l => at[m] # "created"
  /\ Goto(l, "begin")
  /\ UNCHANGED <<left, due, overrun, tester, spent>>

\* endTime = rt_timer_read() + duration
Begin(l) ==
  /\ at[l] = "begin"
  /\ Goto(l, "setPeriodic")
  /\ left' = [left EXCEPT ![l] = Duration]
  /\ UNCHANGED <<due, overrun, tester, spent>>

\* rt_task_set_periodic(curtask, TM_NOW, TASK_PERIOD)
SetPeriodic(l) ==
  /\ at[l] = "setPeriodic"
  /\ Goto(l, "poll")
  /\ due' = [due EXCEPT ![l] = TASK_PERIOD]
  /\ UNCHANGED <<left, overrun, tester, spent>>

\* if (io_read(l) == 0)
Poll(l) ==
  /\ at[l] = "poll"
  /\ Goto(l, IF l \in test THEN "writeLow" ELSE "check")
  /\ UNCHANGED <<left, due, overrun, tester, spent>>

\* io_write(l, 0), which the tester sees
WriteLow(l) ==
  /\ at[l] = "writeLow"
  /\ Goto(l, "writeHigh")
  /\ pending' = pending \ {l}
  /\ waited' = [waited EXCEPT ![l] = 0] /\ since' = [since EXCEPT ![l] = 0]
  /\ overhead' = [overhead EXCEPT ![l] = 0] /\ afterPoll' = afterPoll \ {l}
  /\ UNCHANGED <<left, due, overrun, test, spent>>

WriteHigh(l) ==
  /\ at[l] = "writeHigh"
  /\ Goto(l, "check")
  /\ UNCHANGED <<left, due, overrun, tester, spent>>

\* A faulty variant: the time that is just over counts as past.
Check_early(l) ==
  /\ at[l] = "check"
  /\ Goto(l, IF left[l] <= 0 THEN "deleted" ELSE "yield")
  /\ UNCHANGED <<left, due, overrun, tester, spent>>

\* if (rt_timer_read() > endTime) rt_task_delete(NULL)
Check(l) ==
  /\ at[l] = "check"
  /\ Goto(l, IF left[l] < 0 THEN "deleted" ELSE "yield")
  /\ UNCHANGED <<left, due, overrun, tester, spent>>

\* rt_task_yield(), which does not fail for a task that is running
Yield(l) ==
  /\ at[l] = "yield"
  /\ Goto(l, "waitPeriod")
  /\ UNCHANGED <<left, due, overrun, tester, spent>>

\* rt_task_wait_period(NULL): at once, and for all of them, if release points
\* have been missed.
WaitPeriod(l) ==
  /\ at[l] = "waitPeriod"
  /\ Goto(l, IF l \in overrun THEN "poll" ELSE "waiting")
  /\ overrun' = overrun \ {l}
  /\ UNCHANGED <<left, due, tester, spent>>

Work(l) ==
  \/ Begin(l) \/ SetPeriodic(l) \/ Poll(l) \/ WriteLow(l) \/ WriteHigh(l)
  \/ Check(l) \/ Yield(l) \/ WaitPeriod(l)

Ready == {l \in Line : at[l] \notin {"created", "waiting", "deleted"}}

\* One unit passes; a task whose release point comes is woken or overrun.
Tick ==
  LET released == {l \in Line : due[l] = 1 /\ at[l] # "deleted"}
  IN  /\ IF Ready = {} THEN UNCHANGED spent ELSE spent < Slack /\ spent' = spent + 1
      /\ at' = [l \in Line |-> IF l \in released /\ at[l] = "waiting" THEN "poll" ELSE at[l]]
      /\ overrun' = overrun \cup {l \in released : at[l] # "waiting"}
      /\ due' = [l \in Line |-> CASE due[l] = 0 -> 0 [] due[l] = 1 -> TASK_PERIOD
                                  [] OTHER -> due[l] - 1]
      /\ left' = [l \in Line |-> IF at[l] \in {"created", "begin"} \/ left[l] < 0
                                 THEN left[l] ELSE left[l] - 1]
      /\ waited' = [l \in Line |-> IF l \in pending /\ waited[l] < MaxWait
                                   THEN waited[l] + 1 ELSE waited[l]]
      /\ overhead' = [l \in Line |->
                        IF l \in pending /\ Ready # {} /\ at[l] # "deleted"
                        THEN overhead[l] + 1 ELSE overhead[l]]
      /\ UNCHANGED <<test, pending, since, afterPoll>>

\* The tester asks a task that polls, and holds its line until it is answered.
Ask(l) ==
  /\ l \notin test /\ at[l] \notin {"created", "begin", "setPeriodic", "deleted"}
  /\ test' = test \cup {l} /\ pending' = pending \cup {l}
  /\ since' = [since EXCEPT ![l] = left[l]]
  /\ afterPoll' = IF at[l] \in {"writeHigh", "check"} THEN afterPoll \cup {l} ELSE afterPoll
  /\ UNCHANGED <<at, left, due, overrun, waited, overhead, spent>>

Release(l) ==
  /\ l \in test \ pending
  /\ test' = test \ {l}
  /\ UNCHANGED <<at, left, due, overrun, pending, waited, since, overhead, afterPoll, spent>>

Next == Tick \/ \E l \in Line : Start(l) \/ Work(l) \/ Ask(l) \/ Release(l)

Spec == Init /\ [][Next]_polling

-----------------------------------------------------------------------------

\* A line is answered within a period and the overhead since it went low, also
\* when the time of its task is up, because a task that has waited polls before
\* it looks at the time.  The one line that is never answered went low between
\* that poll and that look, while the overhead between the two used up what was
\* left (TaskA.c:41-57).
AnsweredUntilExpiry ==
  \A l \in pending :
    IF at[l] = "deleted" THEN l \in afterPoll /\ since[l] < overhead[l]
    ELSE waited[l] <= TASK_PERIOD + overhead[l]
=============================================================================
