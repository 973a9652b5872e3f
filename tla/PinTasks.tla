------------------------------ MODULE PinTasks ------------------------------
(***************************************************************************)
(* Ex4/main.c on FreeRTOS: pinA, pinB and pinC poll a test line each and   *)
(* answer on a response line; pinC shares its priority with the idle task  *)
(* and spends 3 ms in a busy wait before it answers.                       *)
(*                                                                         *)
(* A tick is 1 ms.  The calls take no time, except that up to Slack ticks  *)
(* of a run come wherever they like, between any two steps of a call.      *)
(***************************************************************************)
EXTENDS PinNames

VARIABLES
  kernel,
  pc,           \* the statement of t
  call,         \* where t is in vTaskDelay: "none", "resume" or "yield"
  spun,         \* the ms of its busy wait C has done
  test,         \* TEST_A, ...: "low" asks for an answer
  response,     \* RESPONSE_A, ...
  asked,        \* the lines that wait for their answer
  wait,         \* the ticks a line in asked has waited
  late          \* the ticks of this run that came too early

vars == <<kernel, pc, call, spun, test, response, asked, wait, late>>

Init ==
  /\ kernel = StartScheduler(Create(Create(Create(BootKernel, A, 2), B, 1), C, 0))
  /\ pc = [t \in Task |-> "poll"]
  /\ call = [t \in Task |-> "none"]
  /\ spun = 0
  /\ test = [t \in Task |-> "high"] /\ response = [t \in Task |-> "high"]
  /\ asked = {} /\ wait = [t \in Task |-> 0]
  /\ late = 0

-----------------------------------------------------------------------------

Goto(t, l) == pc' = [pc EXCEPT ![t] = l]
Runs(t) == kernel.current = t /\ call[t] = "none"

\* vTaskDelay(1) up to its xTaskResumeAll
Delay(t) ==
  /\ kernel' = AddCurrentTaskToDelayedList(SuspendAll(kernel), Ticks(kernel.tickCount + 1))
  /\ call' = [call EXCEPT ![t] = "resume"]

EndDelay(t) ==
  /\ kernel.current = t /\ call[t] = "resume"
  /\ kernel' = ResumeAll(kernel)
  /\ call' = [call EXCEPT ![t] = IF AlreadyYields(kernel) THEN "none" ELSE "yield"]
  /\ UNCHANGED <<pc, spun, test, response, asked, wait, late>>

Yield(t) ==
  /\ kernel.current = t /\ call[t] = "yield"
  /\ kernel' = SwitchContext(kernel)
  /\ call' = [call EXCEPT ![t] = "none"]
  /\ UNCHANGED <<pc, spun, test, response, asked, wait, late>>

\* if (gpio_get_pin_value(TEST) == 0) ... else vTaskDelay(1);
Poll(t) ==
  /\ Runs(t) /\ pc[t] = "poll"
  /\ IF test[t] = "low"
     THEN /\ Goto(t, IF t = C THEN "spin" ELSE "answer")
          /\ spun' = IF t = C THEN 0 ELSE spun
          /\ UNCHANGED <<kernel, call>>
     ELSE Delay(t) /\ UNCHANGED <<pc, spun>>
  /\ UNCHANGED <<test, response, asked, wait, late>>

\* The end of busy_delay_ms(3), which is CPU time and not time.
SpinEnd ==
  /\ Runs(C) /\ pc[C] = "spin" /\ spun = 3
  /\ Goto(C, "answer")
  /\ UNCHANGED <<kernel, call, spun, test, response, asked, wait, late>>

\* gpio_set_pin_low(RESPONSE); vTaskDelay(1);
Answer(t) ==
  /\ Runs(t) /\ pc[t] = "answer"
  /\ response' = [response EXCEPT ![t] = "low"]
  /\ asked' = asked \ {t} /\ wait' = [wait EXCEPT ![t] = 0]
  /\ Goto(t, "done") /\ Delay(t)
  /\ UNCHANGED <<spun, test, late>>

\* gpio_set_pin_high(RESPONSE); vTaskDelay(1);
Done(t) ==
  /\ Runs(t) /\ pc[t] = "done"
  /\ response' = [response EXCEPT ![t] = "high"]
  /\ Goto(t, "poll") /\ Delay(t)
  /\ UNCHANGED <<spun, test, asked, wait, late>>

\* configIDLE_SHOULD_YIELD: the idle task gives way to C.
IdleYield ==
  /\ kernel.current = Idle /\ Len(kernel.ready[0]) > 1
  /\ kernel' = SwitchContext(kernel)
  /\ UNCHANGED <<pc, call, spun, test, response, asked, wait, late>>

Spinning == Runs(C) /\ pc[C] = "spin" /\ spun < 3

\* vTick: on time if the CPU is idle or in the busy wait.
TickInterrupt ==
  /\ IF Spinning \/ (kernel.current = Idle /\ Len(kernel.ready[0]) = 1)
     THEN UNCHANGED late ELSE late < Slack /\ late' = late + 1
  /\ kernel' = SwitchContext(IncrementTick(kernel))
  /\ spun' = IF Spinning THEN spun + 1 ELSE spun
  /\ wait' = [t \in Task |-> IF t \in asked THEN wait[t] + 1 ELSE wait[t]]
  /\ UNCHANGED <<pc, call, test, response, asked>>

\* The tester asks, and holds its line until it sees the answer.
Ask(t) ==
  /\ test[t] = "high" /\ response[t] = "high"
  /\ test' = [test EXCEPT ![t] = "low"]
  /\ asked' = asked \cup {t}
  /\ UNCHANGED <<kernel, pc, call, spun, response, wait, late>>

Release(t) ==
  /\ test[t] = "low" /\ response[t] = "low"
  /\ test' = [test EXCEPT ![t] = "high"]
  /\ UNCHANGED <<kernel, pc, call, spun, response, asked, wait, late>>

CPU ==
  \/ \E t \in Task : Poll(t) \/ Answer(t) \/ Done(t) \/ EndDelay(t) \/ Yield(t)
  \/ SpinEnd \/ IdleYield

Next == CPU \/ TickInterrupt \/ \E t \in Task : Ask(t) \/ Release(t)

Spec == Init /\ [][Next]_vars

-----------------------------------------------------------------------------

\* pinA and pinB answer within one tick, whatever pinC does; pinC answers within
\* the tick of its delay and the 3 ms of its busy wait, although it shares its
\* priority with the idle task and is preempted by the others (main.c:112-123).
AnsweredInTime ==
  \A t \in Task : wait[t] <= (IF t = C THEN 1 + 3 ELSE 1) + late
=============================================================================
