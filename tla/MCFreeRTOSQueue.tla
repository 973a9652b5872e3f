--------------------------- MODULE MCFreeRTOSQueue ---------------------------
(* Two data queues, a semaphore and a mutex, and up to three tasks in four kinds  *)
(* of run: with a sender, with two receivers, with a mutex, and with a longer     *)
(* queue of different items.                                                      *)
EXTENDS FreeRTOSQueue

CONSTANTS data, letters, semaphore, mutex, low, mid, high, x, y

MCEvent == Queue \X {"send", "receive"}
MCKind == (data :> "data") @@ (letters :> "data") @@ (semaphore :> "semaphore") @@ (mutex :> "mutex")
MCLength == (data :> 2) @@ (letters :> 3) @@ (semaphore :> 1) @@ (mutex :> 1)
MCItem == (data :> {x}) @@ (letters :> {x, y}) @@ (semaphore :> {NoItem}) @@ (mutex :> {NoItem})
MCBase == (low :> 1) @@ (mid :> 2) @@ (high :> 3)

Nothing == [t \in Task |-> {}]
SenderAndReceiver == [Nothing EXCEPT
  ![low] = {<<"send", data, 2>>},
  ![high] = {<<"receive", data, 1>>, <<"peek", data, MaxDelay>>}]
Receivers == [Nothing EXCEPT
  ![mid] = {<<"receive", data, 1>>},
  ![high] = {<<"peek", data, MaxDelay>>}]
Mutexes == [Nothing EXCEPT
  ![low] = {<<"receive", mutex, MaxDelay>>, <<"send", mutex, 0>>},
  ![high] = {<<"receive", mutex, 2>>, <<"send", mutex, 0>>, <<"receive", semaphore, 1>>}]
Ordering == [Nothing EXCEPT
  ![low] = {<<"send", letters, 0>>, <<"sendFront", letters, 0>>, <<"receive", letters, 1>>,
            <<"peek", letters, 0>>, <<"setPriority", low, 2>>}]
MCScenario == {SenderAndReceiver, Receivers, Mutexes, Ordering}

Raised == [Nothing EXCEPT
  ![low] = {<<"setPriority", high, 1>>},
  ![mid] = {<<"receive", data, 2>>},
  ![high] = {<<"receive", data, MaxDelay>>}]
MCRaised == {Raised}
=============================================================================
