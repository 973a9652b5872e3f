------------------------- MODULE Ex2Programs_proofs -------------------------
(***************************************************************************)
(* The programs of Ex2: an inductive invariant of each, for any number of  *)
(* threads, iterations, fields and philosophers, and what follows for the  *)
(* specification that runs any of them.                                    *)
(***************************************************************************)
EXTENDS Ex2Programs, TLAPS

-----------------------------------------------------------------------------
(* Task1.c: two of the racing increments survive, for any number of threads *)

LEMMA RacingInitIInv == Task1!Init => Task1!IInv
  BY CounterAssumption
  DEF Task1!Init, Task1!IInv, Task1!TypeOK, Task1!DoneMeansNoneLeft, Task1!ZeroMeansFirst,
      Task1!OneMeansMore

LEMMA RacingNextIInv == Task1!IInv /\ [Task1!Next]_(Task1!vars) => Task1!IInv'
<1> SUFFICES ASSUME Task1!IInv, [Task1!Next]_(Task1!vars) PROVE Task1!IInv'
  OBVIOUS
<1> USE CounterAssumption
<1>1. ASSUME NEW t \in Thread, Task1!Load(t) PROVE Task1!IInv'
  <2>1. Task1!TypeOK'
    BY <1>1 DEF Task1!Load, Task1!IInv, Task1!TypeOK
  <2>2. Task1!DoneMeansNoneLeft' /\ Task1!OneMeansMore'
    BY <1>1 DEF Task1!Load, Task1!IInv, Task1!TypeOK, Task1!DoneMeansNoneLeft,
       Task1!OneMeansMore
  <2>3. Task1!ZeroMeansFirst'
    BY <1>1 DEF Task1!Load, Task1!IInv, Task1!TypeOK, Task1!ZeroMeansFirst
  <2>4. QED
    BY <2>1, <2>2, <2>3 DEF Task1!IInv
<1>2. ASSUME NEW t \in Thread, Task1!Store(t) PROVE Task1!IInv'
  <2>1. PICK batch \in 1 .. left[t] :
          /\ counter' = register[t] + batch
          /\ left' = [left EXCEPT ![t] = @ - batch]
          /\ place' = [place EXCEPT ![t] = IF batch = left[t] THEN "done" ELSE "load"]
    BY <1>2 DEF Task1!Store
  <2>2. place[t] = "store" /\ register' = register
    BY <1>2 DEF Task1!Store
  <2>3. left[t] \in 0 .. Loops + 1 /\ register[t] \in Nat
    BY DEF Task1!IInv, Task1!TypeOK
  <2>4. Task1!TypeOK'
    BY <2>1, <2>2, <2>3 DEF Task1!IInv, Task1!TypeOK
  <2>5. Task1!DoneMeansNoneLeft'
    BY <2>1, <2>2, <2>3 DEF Task1!IInv, Task1!TypeOK, Task1!DoneMeansNoneLeft
  \* The value stored is zero for nobody, and one only for a first increment.
  <2>6. Task1!ZeroMeansFirst'
    BY <2>1, <2>2, <2>3 DEF Task1!IInv, Task1!TypeOK, Task1!ZeroMeansFirst
  <2>7. Task1!OneMeansMore'
    <3> SUFFICES ASSUME counter' <= 1 PROVE left'[t] > 0
      BY DEF Task1!OneMeansMore
    <3>1. register[t] = 0 /\ batch = 1
      BY <2>1, <2>3
    <3>2. left[t] = Loops + 1
      BY <2>2, <3>1 DEF Task1!IInv, Task1!ZeroMeansFirst
    <3>3. left'[t] = Loops
      BY <2>1, <3>1, <3>2 DEF Task1!IInv, Task1!TypeOK
    <3>4. QED
      BY <3>3
  <2>8. QED
    BY <2>4, <2>5, <2>6, <2>7 DEF Task1!IInv
<1>3. CASE UNCHANGED Task1!vars
  BY <1>3 DEF Task1!vars, Task1!IInv, Task1!TypeOK, Task1!DoneMeansNoneLeft,
     Task1!ZeroMeansFirst, Task1!OneMeansMore
<1>4. QED
  BY <1>1, <1>2, <1>3 DEF Task1!Next, Task1!Joined

LEMMA RacingSurvivors == Task1!IInv => Task1!TwoSurvive
<1> SUFFICES ASSUME Task1!IInv, \A t \in Thread : place[t] = "done" PROVE counter >= 2
  BY DEF Task1!TwoSurvive
<1>1. \A t \in Thread : left[t] = 0
  BY DEF Task1!IInv, Task1!DoneMeansNoneLeft
<1>2. QED
  BY <1>1 DEF Task1!IInv, Task1!TypeOK, Task1!OneMeansMore

-----------------------------------------------------------------------------
(* Task2.c: one whole loop survives what the unguarded increments lose *)

LEMMA GuardedInitIInv == Task2!Init => Task2!IInv
  BY CounterAssumption
  DEF Task2!Init, Task2!IInv, Task2!TypeOK, Task2!OneGuarded, Task2!Guarded, Task2!LeftFits,
      Task2!NoLoopIsLost, Task2!Iterations

LEMMA GuardedIterationsBound ==
  ASSUME Task2!IInv, NEW t \in Thread
  PROVE  Task2!Iterations(t) \in 0 .. Loops
  BY CounterAssumption DEF Task2!IInv, Task2!TypeOK, Task2!Iterations

LEMMA GuardedNextIInv == Task2!IInv /\ [Task2!Next]_(Task2!vars) => Task2!IInv'
<1> SUFFICES ASSUME Task2!IInv, [Task2!Next]_(Task2!vars) PROVE Task2!IInv'
  OBVIOUS
<1> USE CounterAssumption
<1> USE DEF Task2!IInv, Task2!TypeOK
<1>1. ASSUME NEW t \in Thread, Task2!SemWait(t) PROVE Task2!IInv'
  <2>1. Task2!TypeOK' /\ Task2!LeftFits' /\ Task2!NoLoopIsLost'
    BY <1>1 DEF Task2!SemWait, Task2!Go, Task2!LeftFits, Task2!NoLoopIsLost, Task2!Iterations
  <2>2. Task2!OneGuarded'
    BY <1>1 DEF Task2!SemWait, Task2!Go, Task2!OneGuarded, Task2!Guarded
  <2>3. QED
    BY <2>1, <2>2
<1>2. ASSUME NEW t \in Thread, Task2!Load(t) PROVE Task2!IInv'
  <2>1. Task2!TypeOK' /\ Task2!LeftFits' /\ Task2!OneGuarded'
    BY <1>2 DEF Task2!Load, Task2!LoadCounter, Task2!Go, Task2!LeftFits, Task2!OneGuarded,
       Task2!Guarded
  <2>2. Task2!NoLoopIsLost'
    BY <1>2 DEF Task2!Load, Task2!LoadCounter, Task2!Go, Task2!NoLoopIsLost, Task2!Iterations
  <2>3. QED
    BY <2>1, <2>2
<1>3. ASSUME NEW t \in Thread, Task2!Store(t) PROVE Task2!IInv'
  <2>1. /\ place[t] = "store" /\ place' = [place EXCEPT ![t] = "post"]
        /\ counter' = register[t] + 1 /\ left' = [left EXCEPT ![t] = @ - 1]
        /\ UNCHANGED <<semaphore, register>>
    BY <1>3 DEF Task2!Store, Task2!StoreCounter, Task2!Go
  <2>2. left[t] > 1 /\ left[t] \in 0 .. Loops + 1 /\ register[t] \in Nat
    BY <2>1 DEF Task2!LeftFits
  <2>3. Task2!TypeOK' /\ Task2!LeftFits' /\ Task2!OneGuarded'
    BY <2>1, <2>2 DEF Task2!LeftFits, Task2!OneGuarded, Task2!Guarded
  <2>4. /\ Task2!Iterations(t)' = Task2!Iterations(t) + 1
        /\ \A u \in Thread : u # t => Task2!Iterations(u)' = Task2!Iterations(u)
    BY <2>1, <2>2 DEF Task2!Iterations
  <2>5. \A u \in Thread : register[t] >= Task2!Iterations(u) /\ Task2!Iterations(u) \in 0 .. Loops
    BY <2>1, GuardedIterationsBound DEF Task2!NoLoopIsLost
  <2>6. ASSUME NEW u \in Thread
        PROVE  /\ counter' >= Task2!Iterations(u)'
               /\ place'[u] = "lastStore" => register'[u] >= Loops
    BY <2>1, <2>2, <2>4, <2>5 DEF Task2!NoLoopIsLost
  \* Nobody else is inside the semaphore to hold an older value.
  <2>7. ASSUME NEW u \in Thread PROVE place'[u] # "store"
    BY <2>1 DEF Task2!OneGuarded, Task2!Guarded
  <2>8. ASSUME NEW u \in Thread, left'[u] = 0 PROVE counter' > Loops
    <3>1. u # t /\ left[u] = 0
      BY <2>1, <2>2, <2>8
    <3>2. Task2!Iterations(u) = Loops
      BY <3>1 DEF Task2!Iterations
    <3>3. QED
      BY <2>1, <2>2, <2>5, <3>2
  <2>9. Task2!NoLoopIsLost'
    BY <2>6, <2>7, <2>8 DEF Task2!NoLoopIsLost
  <2>10. QED
    BY <2>3, <2>9
<1>4. ASSUME NEW t \in Thread, Task2!SemPost(t) PROVE Task2!IInv'
  <2>1. semaphore = 0
    BY <1>4 DEF Task2!SemPost, Task2!Go, Task2!OneGuarded, Task2!Guarded
  <2>2. Task2!TypeOK'
    BY <1>4, <2>1 DEF Task2!SemPost, Task2!Go
  <2>3. Task2!LeftFits' /\ Task2!NoLoopIsLost'
    BY <1>4 DEF Task2!SemPost, Task2!Go, Task2!LeftFits, Task2!NoLoopIsLost, Task2!Iterations
  <2>4. Task2!OneGuarded'
    BY <1>4 DEF Task2!SemPost, Task2!Go, Task2!OneGuarded, Task2!Guarded
  <2>5. QED
    BY <2>2, <2>3, <2>4
<1>5. ASSUME NEW t \in Thread, Task2!LastLoad(t) PROVE Task2!IInv'
  <2>1. Task2!TypeOK' /\ Task2!LeftFits' /\ Task2!OneGuarded'
    BY <1>5 DEF Task2!LastLoad, Task2!LoadCounter, Task2!Go, Task2!LeftFits, Task2!OneGuarded,
       Task2!Guarded
  <2>2. left[t] = 1
    BY <1>5 DEF Task2!LastLoad, Task2!Go, Task2!LeftFits
  <2>3. counter >= Loops
    BY <2>2 DEF Task2!NoLoopIsLost, Task2!Iterations
  <2>4. Task2!NoLoopIsLost'
    BY <1>5, <2>3 DEF Task2!LastLoad, Task2!LoadCounter, Task2!Go, Task2!NoLoopIsLost,
       Task2!Iterations
  <2>5. QED
    BY <2>1, <2>4
<1>6. ASSUME NEW t \in Thread, Task2!LastStore(t) PROVE Task2!IInv'
  <2>1. /\ place[t] = "lastStore" /\ place' = [place EXCEPT ![t] = "done"]
        /\ counter' = register[t] + 1 /\ left' = [left EXCEPT ![t] = @ - 1]
        /\ UNCHANGED <<semaphore, register>>
    BY <1>6 DEF Task2!LastStore, Task2!StoreCounter, Task2!Go
  <2>2. left[t] = 1 /\ register[t] \in Nat /\ register[t] >= Loops
    BY <2>1 DEF Task2!LeftFits, Task2!NoLoopIsLost
  <2>3. Task2!TypeOK' /\ Task2!LeftFits' /\ Task2!OneGuarded'
    BY <2>1, <2>2 DEF Task2!LeftFits, Task2!OneGuarded, Task2!Guarded
  <2>4. \A u \in Thread : /\ Task2!Iterations(u)' = Task2!Iterations(u)
                          /\ Task2!Iterations(u) \in 0 .. Loops
    BY <2>1, <2>2, GuardedIterationsBound DEF Task2!Iterations
  <2>5. Task2!NoLoopIsLost'
    BY <2>1, <2>2, <2>4 DEF Task2!NoLoopIsLost
  <2>6. QED
    BY <2>3, <2>5
<1>7. CASE UNCHANGED Task2!vars
  BY <1>7 DEF Task2!vars, Task2!OneGuarded, Task2!Guarded, Task2!LeftFits, Task2!NoLoopIsLost,
     Task2!Iterations
<1>8. QED
  BY <1>1, <1>2, <1>3, <1>4, <1>5, <1>6, <1>7 DEF Task2!Next, Task2!Run, Task2!Joined

LEMMA GuardedSurvivors == Task2!IInv => Task2!OneLoopSurvives
<1> SUFFICES ASSUME Task2!IInv, \A t \in Thread : place[t] = "done"
             PROVE  counter >= Loops + 1
  BY DEF Task2!OneLoopSurvives
<1>1. PICK t \in Thread : left[t] = 0
  BY CounterAssumption DEF Task2!IInv, Task2!LeftFits
<1>2. QED
  BY <1>1, CounterAssumption DEF Task2!IInv, Task2!TypeOK, Task2!NoLoopIsLost

LEMMA GuardedInitRefines == Task2!Init => Task2!Racing!Init
  BY DEF Task2!Init, Task2!Racing!Init

\* Seen without the semaphore every step is a step of the racing counter.
LEMMA GuardedStepRefines ==
  ASSUME Task2!IInv, [Task2!Next]_(Task2!vars)
  PROVE  Task2!Racing!Next \/ UNCHANGED (Task2!Racing!vars)
<1> DEFINE seen == [t \in Thread |->
                      IF place[t] \in {"store", "lastStore"} THEN "store"
                      ELSE IF place[t] = "done" THEN "done" ELSE "load"]
<1>1. ASSUME NEW t \in Thread, Task2!Load(t) \/ Task2!LastLoad(t) PROVE Task2!Racing!Load(t)
  BY <1>1 DEF Task2!Load, Task2!LastLoad, Task2!LoadCounter, Task2!Go, Task2!Racing!Load,
     Task2!IInv, Task2!TypeOK
<1>2. ASSUME NEW t \in Thread, Task2!Store(t) \/ Task2!LastStore(t) PROVE Task2!Racing!Store(t)
  <2>1. /\ place[t] \in {"store", "lastStore"}
        /\ counter' = register[t] + 1 /\ left' = [left EXCEPT ![t] = @ - 1]
        /\ UNCHANGED register /\ left[t] \in 1 .. Loops + 1
        /\ place' = [place EXCEPT ![t] = IF left[t] = 1 THEN "done" ELSE "post"]
    BY <1>2, CounterAssumption
    DEF Task2!Store, Task2!LastStore, Task2!StoreCounter, Task2!Go, Task2!IInv, Task2!TypeOK,
        Task2!LeftFits
  <2>2. seen' = [seen EXCEPT ![t] = IF left[t] = 1 THEN "done" ELSE "load"]
    BY <2>1 DEF Task2!IInv, Task2!TypeOK
  <2>3. 1 \in 1 .. left[t] /\ (1 = left[t] <=> left[t] = 1)
    BY <2>1
  <2>4. QED
    BY <2>1, <2>2, <2>3 DEF Task2!Racing!Store
<1>3. ASSUME NEW t \in Thread, Task2!SemWait(t) \/ Task2!SemPost(t)
      PROVE  UNCHANGED (Task2!Racing!vars)
  BY <1>3 DEF Task2!SemWait, Task2!SemPost, Task2!Go, Task2!Racing!vars, Task2!IInv,
     Task2!TypeOK
<1>4. CASE UNCHANGED Task2!vars
  BY <1>4 DEF Task2!vars, Task2!Racing!vars
<1>5. QED
  BY <1>1, <1>2, <1>3, <1>4 DEF Task2!Next, Task2!Run, Task2!Joined, Task2!Racing!Next

-----------------------------------------------------------------------------
(* Task3.c: one object is allocated and set before the semaphore is posted *)

LEMMA SingletonInitIInv == Task3!Init => Task3!IInv
  BY SingletonAssumption
  DEF Task3!Init, Task3!IInv, Task3!TypeOK, Task3!OneInside, Task3!Inside, Task3!Initialising,
      Task3!SameObject, Task3!PostedComplete

LEMMA SingletonNextIInv == Task3!IInv /\ [Task3!Next]_(Task3!vars) => Task3!IInv'
<1> SUFFICES ASSUME Task3!IInv, [Task3!Next]_(Task3!vars) PROVE Task3!IInv'
  OBVIOUS
<1> USE SingletonAssumption DEF Task3!IInv, Task3!TypeOK
<1>1. ASSUME NEW t \in User, Task3!Create(t) PROVE Task3!IInv'
  BY <1>1 DEF Task3!Create, Task3!OneInside, Task3!Inside, Task3!Initialising, Task3!SameObject,
     Task3!PostedComplete
<1>2. ASSUME NEW t \in User, Task3!Check(t) PROVE Task3!IInv'
  <2>1. Task3!TypeOK'
    BY <1>2 DEF Task3!Check, Task3!Go
  <2>2. Task3!OneInside'
    BY <1>2 DEF Task3!Check, Task3!Go, Task3!OneInside, Task3!Inside
  <2>3. Task3!Initialising' /\ Task3!SameObject' /\ Task3!PostedComplete'
    BY <1>2 DEF Task3!Check, Task3!Go, Task3!Initialising, Task3!SameObject,
       Task3!PostedComplete
  <2>4. QED
    BY <2>1, <2>2, <2>3
<1>3. ASSUME NEW t \in User, Task3!SemWait(t) PROVE Task3!IInv'
  <2>1. initSem = 1 /\ initSem' = 0
    BY <1>3 DEF Task3!SemWait
  <2>2. Task3!TypeOK'
    BY <1>3, <2>1 DEF Task3!SemWait, Task3!Go
  <2>3. Task3!OneInside'
    BY <1>3, <2>1 DEF Task3!SemWait, Task3!Go, Task3!OneInside, Task3!Inside
  <2>4. Task3!Initialising' /\ Task3!SameObject' /\ Task3!PostedComplete'
    BY <1>3 DEF Task3!SemWait, Task3!Go, Task3!Initialising, Task3!SameObject,
       Task3!PostedComplete
  <2>5. QED
    BY <2>2, <2>3, <2>4
<1>4. ASSUME NEW t \in User, Task3!CheckAgain(t) PROVE Task3!IInv'
  <2>1. Task3!TypeOK'
    BY <1>4 DEF Task3!CheckAgain, Task3!Go
  <2>2. Task3!OneInside'
    BY <1>4 DEF Task3!CheckAgain, Task3!Go, Task3!OneInside, Task3!Inside
  <2>3. Task3!Initialising' /\ Task3!SameObject' /\ Task3!PostedComplete'
    BY <1>4 DEF Task3!CheckAgain, Task3!Go, Task3!Initialising, Task3!SameObject,
       Task3!PostedComplete
  <2>4. QED
    BY <2>1, <2>2, <2>3
<1>5. ASSUME NEW t \in User, Task3!Malloc(t) PROVE Task3!IInv'
  <2>1. singleton = None /\ set[t] = 0 /\ Task3!Inside(t)
    BY <1>5 DEF Task3!Malloc, Task3!Go, Task3!Initialising, Task3!Inside
  <2>2. Task3!TypeOK'
    BY <1>5 DEF Task3!Malloc, Task3!Go
  <2>3. Task3!OneInside'
    BY <1>5 DEF Task3!Malloc, Task3!Go, Task3!OneInside, Task3!Inside
  <2>4. Task3!Initialising'
    BY <1>5, <2>1 DEF Task3!Malloc, Task3!Go, Task3!Initialising, Task3!OneInside, Task3!Inside
  <2>5. Task3!SameObject' /\ Task3!PostedComplete'
    BY <1>5, <2>1 DEF Task3!Malloc, Task3!Go, Task3!SameObject, Task3!PostedComplete,
       Task3!Initialising
  <2>6. QED
    BY <2>2, <2>3, <2>4, <2>5
<1>6. ASSUME NEW t \in User, Task3!SetField(t) PROVE Task3!IInv'
  <2>1. singleton = t /\ set[t] \in 0 .. Fields - 1
    BY <1>6 DEF Task3!SetField, Task3!Go, Task3!Initialising
  <2>2. Task3!TypeOK'
    BY <1>6, <2>1 DEF Task3!SetField, Task3!Go
  <2>3. Task3!OneInside'
    BY <1>6 DEF Task3!SetField, Task3!Go, Task3!OneInside, Task3!Inside
  <2>4. Task3!Initialising'
    BY <1>6, <2>1 DEF Task3!SetField, Task3!Go, Task3!Initialising, Task3!OneInside,
       Task3!Inside
  <2>5. Task3!SameObject'
    BY <1>6, <2>1 DEF Task3!SetField, Task3!Go, Task3!SameObject
  <2>6. Task3!PostedComplete'
    BY <1>6, <2>1 DEF Task3!SetField, Task3!Go, Task3!PostedComplete
  <2>7. QED
    BY <2>2, <2>3, <2>4, <2>5, <2>6
<1>7. ASSUME NEW t \in User, Task3!SemPost(t) PROVE Task3!IInv'
  <2>1. initSem = 0 /\ initSem' = 1
    BY <1>7 DEF Task3!SemPost, Task3!Go, Task3!OneInside, Task3!Inside
  <2>2. Task3!TypeOK'
    BY <1>7, <2>1 DEF Task3!SemPost, Task3!Go
  <2>3. Task3!OneInside'
    BY <1>7, <2>1 DEF Task3!SemPost, Task3!Go, Task3!OneInside, Task3!Inside
  <2>4. Task3!Initialising' /\ Task3!SameObject' /\ Task3!PostedComplete'
    BY <1>7 DEF Task3!SemPost, Task3!Go, Task3!Initialising, Task3!SameObject,
       Task3!PostedComplete
  <2>5. QED
    BY <2>2, <2>3, <2>4
<1>8. ASSUME NEW t \in User, Task3!Return(t) PROVE Task3!IInv'
  <2>1. Task3!TypeOK'
    BY <1>8 DEF Task3!Return, Task3!Go
  <2>2. Task3!OneInside'
    BY <1>8 DEF Task3!Return, Task3!Go, Task3!OneInside, Task3!Inside
  <2>3. Task3!Initialising' /\ Task3!SameObject' /\ Task3!PostedComplete'
    BY <1>8 DEF Task3!Return, Task3!Go, Task3!Initialising, Task3!SameObject,
       Task3!PostedComplete
  <2>4. QED
    BY <2>1, <2>2, <2>3
<1>9. ASSUME NEW t \in User, Task3!ReadField(t) PROVE Task3!IInv'
  <2>1. PICK f \in toRead[t] :
          /\ Task3!Go(t, "print", IF toRead[t] = {f} THEN "done" ELSE "print")
          /\ toRead' = [toRead EXCEPT ![t] = @ \ {f}]
          /\ garbage' = [garbage EXCEPT ![t] =
                           IF f <= set[object[t]] THEN @ ELSE @ \cup {f}]
          /\ UNCHANGED <<singleton, set, initSem, object>>
    BY <1>9 DEF Task3!ReadField
  <2>2. Task3!TypeOK'
    BY <2>1 DEF Task3!Go
  <2>3. Task3!OneInside'
    BY <2>1 DEF Task3!Go, Task3!OneInside, Task3!Inside
  <2>4. Task3!Initialising' /\ Task3!SameObject' /\ Task3!PostedComplete'
    BY <2>1 DEF Task3!Go, Task3!Initialising, Task3!SameObject, Task3!PostedComplete
  <2>5. QED
    BY <2>2, <2>3, <2>4
<1>10. CASE UNCHANGED Task3!vars
  BY <1>10 DEF Task3!vars, Task3!OneInside, Task3!Inside, Task3!Initialising, Task3!SameObject,
     Task3!PostedComplete
<1>11. QED
  BY <1>1, <1>2, <1>3, <1>4, <1>5, <1>6, <1>7, <1>8, <1>9, <1>10 DEF Task3!Next, Task3!Use,
     Task3!Joined

LEMMA SingletonPointerStays ==
  Task3!IInv /\ [Task3!Next]_(Task3!vars)
    => [singleton # None => singleton' = singleton]_(Task3!vars)
<1> SUFFICES ASSUME Task3!IInv, Task3!Next, singleton # None PROVE singleton' = singleton
  BY DEF Task3!vars
<1>1. ASSUME NEW t \in User, Task3!Create(t) \/ Task3!Use(t) PROVE singleton' = singleton
  BY <1>1 DEF Task3!IInv, Task3!Initialising, Task3!Create, Task3!Use, Task3!Check,
     Task3!SemWait, Task3!CheckAgain, Task3!Malloc, Task3!SetField, Task3!SemPost, Task3!Return,
     Task3!ReadField, Task3!Go
<1>2. QED
  BY <1>1 DEF Task3!Next, Task3!Joined, Task3!vars

LEMMA SingletonOnlyWhileSetting ==
  Task3!IInv /\ [Task3!Next]_(Task3!vars)
    => [\A t \in User : garbage'[t] # garbage[t] => at[object[t]] = "set"]_(Task3!vars)
<1> SUFFICES ASSUME Task3!IInv, Task3!Next, NEW t \in User, garbage'[t] # garbage[t]
             PROVE  at[object[t]] = "set"
  BY DEF Task3!vars
<1>1. Task3!ReadField(t)
  BY DEF Task3!Next, Task3!Joined, Task3!vars, Task3!Create, Task3!Use, Task3!Check,
     Task3!SemWait, Task3!CheckAgain, Task3!Malloc, Task3!SetField, Task3!SemPost, Task3!Return,
     Task3!ReadField, Task3!IInv, Task3!TypeOK
<1>2. PICK f \in toRead[t] : at[t] = "print" /\ ~(f <= set[object[t]])
  BY <1>1 DEF Task3!ReadField, Task3!Go, Task3!IInv, Task3!TypeOK
<1>3. object[t] = singleton /\ singleton # None
  BY <1>2 DEF Task3!IInv, Task3!SameObject
<1>4. set[singleton] # Fields
  BY <1>2, <1>3, SingletonAssumption DEF Task3!IInv, Task3!TypeOK
<1>5. PICK u \in User : at[u] = "set"
  BY <1>3, <1>4 DEF Task3!IInv, Task3!PostedComplete
<1>6. QED
  BY <1>3, <1>5 DEF Task3!IInv, Task3!Initialising

-----------------------------------------------------------------------------
(* Task4_deadlock.c: neighbours exclude each other; the one deadlock is the circle *)

DiningIInv == Task4!TypeOK /\ Task4!ForksHeld

LEMMA DiningForks ==
  /\ Task4!Fork = Task4!Philosopher /\ Task4!Nobody \notin Task4!Philosopher
  /\ \A p \in Task4!Philosopher : /\ Task4!First(p) = p /\ Task4!Second(p) # p
                                  /\ Task4!Second(p) \in Task4!Philosopher
  /\ \A p, q \in Task4!Philosopher : Task4!Second(p) = Task4!Second(q) => p = q
  BY TableAssumption DEF Task4!First, Task4!Second, Task4!Philosopher, Task4!Fork, Task4!Nobody

LEMMA DiningInitIInv == Task4!Init => DiningIInv
  BY DiningForks, TableAssumption DEF Task4!Init, DiningIInv, Task4!TypeOK, Task4!ForksHeld,
     Task4!HoldsFirst, Task4!HoldsSecond

LEMMA DiningNextIInv == DiningIInv /\ [Task4!Next]_(Task4!vars) => DiningIInv'
<1> SUFFICES ASSUME DiningIInv, [Task4!Next]_(Task4!vars) PROVE DiningIInv'
  OBVIOUS
<1> USE DiningForks
<1>1. CASE Task4!Create
  BY <1>1, TableAssumption DEF Task4!Create, DiningIInv, Task4!TypeOK, Task4!ForksHeld,
     Task4!HoldsFirst, Task4!HoldsSecond
<1>2. ASSUME NEW p \in Task4!Philosopher, Task4!LockFirst(p) PROVE DiningIInv'
  <2>1. Task4!TypeOK'
    BY <1>2 DEF Task4!LockFirst, Task4!Step, Task4!Lock, DiningIInv, Task4!TypeOK
  <2>2. Task4!ForksHeld'
    <3> SUFFICES ASSUME NEW q \in Task4!Philosopher, NEW f \in Task4!Fork
                 PROVE  owner'[f] = q <=> \/ f = Task4!First(q) /\ Task4!HoldsFirst(q)'
                                          \/ f = Task4!Second(q) /\ Task4!HoldsSecond(q)'
      BY DEF Task4!ForksHeld
    <3>1. CASE q = p
      BY <1>2, <3>1 DEF Task4!LockFirst, Task4!Step, Task4!Lock, DiningIInv, Task4!TypeOK,
         Task4!ForksHeld, Task4!HoldsFirst, Task4!HoldsSecond
    <3>2. CASE q # p
      BY <1>2, <3>2 DEF Task4!LockFirst, Task4!Step, Task4!Lock, DiningIInv, Task4!TypeOK,
         Task4!ForksHeld, Task4!HoldsFirst, Task4!HoldsSecond
    <3>3. QED
      BY <3>1, <3>2
  <2>3. QED
    BY <2>1, <2>2 DEF DiningIInv
<1>3. ASSUME NEW p \in Task4!Philosopher, Task4!LockSecond(p) PROVE DiningIInv'
  <2>1. Task4!TypeOK'
    BY <1>3 DEF Task4!LockSecond, Task4!Step, Task4!Lock, DiningIInv, Task4!TypeOK
  <2>2. Task4!ForksHeld'
    <3> SUFFICES ASSUME NEW q \in Task4!Philosopher, NEW f \in Task4!Fork
                 PROVE  owner'[f] = q <=> \/ f = Task4!First(q) /\ Task4!HoldsFirst(q)'
                                          \/ f = Task4!Second(q) /\ Task4!HoldsSecond(q)'
      BY DEF Task4!ForksHeld
    <3>1. CASE q = p
      BY <1>3, <3>1 DEF Task4!LockSecond, Task4!Step, Task4!Lock, DiningIInv, Task4!TypeOK,
         Task4!ForksHeld, Task4!HoldsFirst, Task4!HoldsSecond
    <3>2. CASE q # p
      BY <1>3, <3>2 DEF Task4!LockSecond, Task4!Step, Task4!Lock, DiningIInv, Task4!TypeOK,
         Task4!ForksHeld, Task4!HoldsFirst, Task4!HoldsSecond
    <3>3. QED
      BY <3>1, <3>2
  <2>3. QED
    BY <2>1, <2>2 DEF DiningIInv
<1>4. ASSUME NEW p \in Task4!Philosopher, Task4!Eat(p) PROVE DiningIInv'
  <2>1. Task4!TypeOK'
    BY <1>4 DEF Task4!Eat, Task4!Step, DiningIInv, Task4!TypeOK
  <2>2. Task4!ForksHeld'
    <3> SUFFICES ASSUME NEW q \in Task4!Philosopher, NEW f \in Task4!Fork
                 PROVE  owner'[f] = q <=> \/ f = Task4!First(q) /\ Task4!HoldsFirst(q)'
                                          \/ f = Task4!Second(q) /\ Task4!HoldsSecond(q)'
      BY DEF Task4!ForksHeld
    <3>1. CASE q = p
      BY <1>4, <3>1 DEF Task4!Eat, Task4!Step, DiningIInv, Task4!TypeOK, Task4!ForksHeld,
         Task4!HoldsFirst, Task4!HoldsSecond
    <3>2. CASE q # p
      BY <1>4, <3>2 DEF Task4!Eat, Task4!Step, DiningIInv, Task4!TypeOK, Task4!ForksHeld,
         Task4!HoldsFirst, Task4!HoldsSecond
    <3>3. QED
      BY <3>1, <3>2
  <2>3. QED
    BY <2>1, <2>2 DEF DiningIInv
<1>5. ASSUME NEW p \in Task4!Philosopher, Task4!UnlockSecond(p) PROVE DiningIInv'
  <2>1. Task4!TypeOK'
    BY <1>5 DEF Task4!UnlockSecond, Task4!Step, Task4!Unlock, DiningIInv, Task4!TypeOK
  <2>2. Task4!ForksHeld'
    <3> SUFFICES ASSUME NEW q \in Task4!Philosopher, NEW f \in Task4!Fork
                 PROVE  owner'[f] = q <=> \/ f = Task4!First(q) /\ Task4!HoldsFirst(q)'
                                          \/ f = Task4!Second(q) /\ Task4!HoldsSecond(q)'
      BY DEF Task4!ForksHeld
    <3>1. CASE q = p
      BY <1>5, <3>1 DEF Task4!UnlockSecond, Task4!Step, Task4!Unlock, DiningIInv, Task4!TypeOK,
         Task4!ForksHeld, Task4!HoldsFirst, Task4!HoldsSecond
    <3>2. CASE q # p
      BY <1>5, <3>2 DEF Task4!UnlockSecond, Task4!Step, Task4!Unlock, DiningIInv, Task4!TypeOK,
         Task4!ForksHeld, Task4!HoldsFirst, Task4!HoldsSecond
    <3>3. QED
      BY <3>1, <3>2
  <2>3. QED
    BY <2>1, <2>2 DEF DiningIInv
<1>6. ASSUME NEW p \in Task4!Philosopher, Task4!UnlockFirst(p) PROVE DiningIInv'
  <2>1. Task4!TypeOK'
    BY <1>6 DEF Task4!UnlockFirst, Task4!Step, Task4!Unlock, DiningIInv, Task4!TypeOK
  <2>2. Task4!ForksHeld'
    <3> SUFFICES ASSUME NEW q \in Task4!Philosopher, NEW f \in Task4!Fork
                 PROVE  owner'[f] = q <=> \/ f = Task4!First(q) /\ Task4!HoldsFirst(q)'
                                          \/ f = Task4!Second(q) /\ Task4!HoldsSecond(q)'
      BY DEF Task4!ForksHeld
    <3>1. CASE q = p
      BY <1>6, <3>1 DEF Task4!UnlockFirst, Task4!Step, Task4!Unlock, DiningIInv, Task4!TypeOK,
         Task4!ForksHeld, Task4!HoldsFirst, Task4!HoldsSecond
    <3>2. CASE q # p
      BY <1>6, <3>2 DEF Task4!UnlockFirst, Task4!Step, Task4!Unlock, DiningIInv, Task4!TypeOK,
         Task4!ForksHeld, Task4!HoldsFirst, Task4!HoldsSecond
    <3>3. QED
      BY <3>1, <3>2
  <2>3. QED
    BY <2>1, <2>2 DEF DiningIInv
<1>7. CASE UNCHANGED Task4!vars
  BY <1>7 DEF Task4!vars, DiningIInv, Task4!TypeOK, Task4!ForksHeld, Task4!HoldsFirst,
     Task4!HoldsSecond
<1>8. QED
  BY <1>1, <1>2, <1>3, <1>4, <1>5, <1>6, <1>7 DEF Task4!Next, Task4!Dine

LEMMA DiningSharedForks == DiningIInv => Task4!NeighboursExclude
<1> SUFFICES ASSUME DiningIInv, NEW p \in Task4!Philosopher,
                    pc[p] = "eat", pc[Task4!Second(p)] = "eat"
             PROVE  FALSE
  BY DEF Task4!NeighboursExclude
<1>1. owner[Task4!Second(p)] = p
  BY DiningForks DEF DiningIInv, Task4!ForksHeld, Task4!HoldsSecond
<1>2. owner[Task4!Second(p)] = Task4!Second(p)
  BY DiningForks DEF DiningIInv, Task4!ForksHeld, Task4!HoldsFirst
<1>3. QED
  BY DiningForks, <1>1, <1>2

LEMMA DiningCircle == DiningIInv => Task4!StuckOnlyInCircle
<1> SUFFICES ASSUME DiningIInv, Task4!Stuck, NEW p \in Task4!Philosopher
             PROVE  owner[Task4!First(p)] = p /\ pc[p] = "lockSecond"
  BY DEF Task4!StuckOnlyInCircle
<1>1. \A q \in Task4!Philosopher :
        \/ pc[q] = "lockFirst" /\ owner[Task4!First(q)] # Task4!Nobody
        \/ pc[q] = "lockSecond"
  <2> SUFFICES ASSUME NEW q \in Task4!Philosopher
               PROVE  \/ pc[q] = "lockFirst" /\ owner[Task4!First(q)] # Task4!Nobody
                      \/ pc[q] = "lockSecond"
    OBVIOUS
  <2>1. q <= created
    BY TableAssumption DEF Task4!Stuck, Task4!Philosopher
  <2>2. QED
    BY <2>1 DEF Task4!Stuck, Task4!CanMove
<1>2. pc[p] # "lockFirst"
  <2> SUFFICES ASSUME pc[p] = "lockFirst" PROVE FALSE
    OBVIOUS
  <2>1. PICK q \in Task4!Philosopher : owner[Task4!First(p)] = q
    BY <1>1, DiningForks DEF DiningIInv, Task4!TypeOK
  <2>2. Task4!HoldsSecond(q) \/ (q = p /\ Task4!HoldsFirst(q))
    BY <2>1, DiningForks DEF DiningIInv, Task4!ForksHeld
  <2>3. QED
    BY <2>2, <1>1 DEF Task4!HoldsFirst, Task4!HoldsSecond
<1>3. QED
  BY <1>1, <1>2, DiningForks DEF DiningIInv, Task4!ForksHeld, Task4!HoldsFirst

-----------------------------------------------------------------------------
(* Task4_fixed_deadlock.c: the waiter leaves no deadlock and only removes runs *)

LEMMA WaiterForks ==
  /\ Task4Fixed!Fork = Task4Fixed!Philosopher /\ Task4Fixed!Nobody \notin Task4Fixed!Philosopher
  /\ \A p \in Task4Fixed!Philosopher : /\ Task4Fixed!First(p) = p /\ Task4Fixed!Second(p) # p
                                       /\ Task4Fixed!Second(p) \in Task4Fixed!Philosopher
  /\ \A p, q \in Task4Fixed!Philosopher : Task4Fixed!Second(p) = Task4Fixed!Second(q) => p = q
  BY TableAssumption DEF Task4Fixed!First, Task4Fixed!Second, Task4Fixed!Philosopher,
     Task4Fixed!Fork, Task4Fixed!Nobody

LEMMA WaiterInitIInv == Task4Fixed!Init => Task4Fixed!IInv
  BY WaiterForks, TableAssumption
  DEF Task4Fixed!Init, Task4Fixed!IInv, Task4Fixed!TypeOK, Task4Fixed!ForksHeld,
      Task4Fixed!WaiterHeld, Task4Fixed!CreatedOnly, Task4Fixed!HoldsFirst,
      Task4Fixed!HoldsSecond

LEMMA WaiterNextIInv == Task4Fixed!IInv /\ [Task4Fixed!Next]_(Task4Fixed!vars) => Task4Fixed!IInv'
<1> SUFFICES ASSUME Task4Fixed!IInv, [Task4Fixed!Next]_(Task4Fixed!vars) PROVE Task4Fixed!IInv'
  OBVIOUS
<1> USE WaiterForks
<1>1. CASE Task4Fixed!Create
  BY <1>1, TableAssumption
  DEF Task4Fixed!Create, Task4Fixed!IInv, Task4Fixed!TypeOK, Task4Fixed!ForksHeld,
      Task4Fixed!WaiterHeld, Task4Fixed!CreatedOnly, Task4Fixed!HoldsFirst,
      Task4Fixed!HoldsSecond, Task4Fixed!Philosopher
<1>2. ASSUME NEW p \in Task4Fixed!Philosopher, Task4Fixed!LockWaiter(p) PROVE Task4Fixed!IInv'
  <2>1. Task4Fixed!TypeOK'
    BY <1>2 DEF Task4Fixed!LockWaiter, Task4Fixed!Step, Task4Fixed!IInv, Task4Fixed!TypeOK
  <2>2. Task4Fixed!ForksHeld'
    <3> SUFFICES ASSUME NEW q \in Task4Fixed!Philosopher, NEW f \in Task4Fixed!Fork
                 PROVE  owner'[f] = q <=> \/ f = Task4Fixed!First(q) /\ Task4Fixed!HoldsFirst(q)'
                                          \/ f = Task4Fixed!Second(q) /\ Task4Fixed!HoldsSecond(q)'
      BY DEF Task4Fixed!ForksHeld
    <3>1. CASE q = p
      BY <1>2, <3>1 DEF Task4Fixed!LockWaiter, Task4Fixed!Step, Task4Fixed!IInv,
         Task4Fixed!TypeOK, Task4Fixed!ForksHeld, Task4Fixed!HoldsFirst, Task4Fixed!HoldsSecond
    <3>2. CASE q # p
      BY <1>2, <3>2 DEF Task4Fixed!LockWaiter, Task4Fixed!Step, Task4Fixed!IInv,
         Task4Fixed!TypeOK, Task4Fixed!ForksHeld, Task4Fixed!HoldsFirst, Task4Fixed!HoldsSecond
    <3>3. QED
      BY <3>1, <3>2
  <2>3. Task4Fixed!WaiterHeld'
    <3>1. pc'[p] = "lockFirst" /\ \A q \in Task4Fixed!Philosopher : q # p => pc'[q] = pc[q]
      BY <1>2 DEF Task4Fixed!LockWaiter, Task4Fixed!Step, Task4Fixed!IInv, Task4Fixed!TypeOK
    <3>2. waiter' = p /\ \A q \in Task4Fixed!Philosopher : pc[q] = "lockWaiter"
      BY <1>2 DEF Task4Fixed!LockWaiter, Task4Fixed!IInv, Task4Fixed!WaiterHeld
    <3>3. QED
      BY <3>1, <3>2 DEF Task4Fixed!WaiterHeld
  <2>4. Task4Fixed!CreatedOnly'
    BY <1>2, TableAssumption DEF Task4Fixed!LockWaiter, Task4Fixed!Step, Task4Fixed!IInv,
       Task4Fixed!TypeOK, Task4Fixed!CreatedOnly, Task4Fixed!Philosopher
  <2>5. QED
    BY <2>1, <2>2, <2>3, <2>4 DEF Task4Fixed!IInv
<1>3. ASSUME NEW p \in Task4Fixed!Philosopher, Task4Fixed!LockFirst(p) PROVE Task4Fixed!IInv'
  <2>1. Task4Fixed!TypeOK'
    BY <1>3 DEF Task4Fixed!LockFirst, Task4Fixed!Step, Task4Fixed!LockFork, Task4Fixed!IInv,
       Task4Fixed!TypeOK
  <2>2. Task4Fixed!ForksHeld'
    <3> SUFFICES ASSUME NEW q \in Task4Fixed!Philosopher, NEW f \in Task4Fixed!Fork
                 PROVE  owner'[f] = q <=> \/ f = Task4Fixed!First(q) /\ Task4Fixed!HoldsFirst(q)'
                                          \/ f = Task4Fixed!Second(q) /\ Task4Fixed!HoldsSecond(q)'
      BY DEF Task4Fixed!ForksHeld
    <3>1. CASE q = p
      BY <1>3, <3>1 DEF Task4Fixed!LockFirst, Task4Fixed!Step, Task4Fixed!LockFork,
         Task4Fixed!IInv, Task4Fixed!TypeOK, Task4Fixed!ForksHeld, Task4Fixed!HoldsFirst,
         Task4Fixed!HoldsSecond
    <3>2. CASE q # p
      BY <1>3, <3>2 DEF Task4Fixed!LockFirst, Task4Fixed!Step, Task4Fixed!LockFork,
         Task4Fixed!IInv, Task4Fixed!TypeOK, Task4Fixed!ForksHeld, Task4Fixed!HoldsFirst,
         Task4Fixed!HoldsSecond
    <3>3. QED
      BY <3>1, <3>2
  <2>3. Task4Fixed!WaiterHeld' /\ Task4Fixed!CreatedOnly'
    BY <1>3 DEF Task4Fixed!LockFirst, Task4Fixed!Step, Task4Fixed!LockFork, Task4Fixed!IInv,
       Task4Fixed!TypeOK, Task4Fixed!WaiterHeld, Task4Fixed!CreatedOnly
  <2>4. QED
    BY <2>1, <2>2, <2>3 DEF Task4Fixed!IInv
<1>4. ASSUME NEW p \in Task4Fixed!Philosopher, Task4Fixed!LockSecond(p) PROVE Task4Fixed!IInv'
  <2>1. Task4Fixed!TypeOK'
    BY <1>4 DEF Task4Fixed!LockSecond, Task4Fixed!Step, Task4Fixed!LockFork, Task4Fixed!IInv,
       Task4Fixed!TypeOK
  <2>2. Task4Fixed!ForksHeld'
    <3> SUFFICES ASSUME NEW q \in Task4Fixed!Philosopher, NEW f \in Task4Fixed!Fork
                 PROVE  owner'[f] = q <=> \/ f = Task4Fixed!First(q) /\ Task4Fixed!HoldsFirst(q)'
                                          \/ f = Task4Fixed!Second(q) /\ Task4Fixed!HoldsSecond(q)'
      BY DEF Task4Fixed!ForksHeld
    <3>1. CASE q = p
      BY <1>4, <3>1 DEF Task4Fixed!LockSecond, Task4Fixed!Step, Task4Fixed!LockFork,
         Task4Fixed!IInv, Task4Fixed!TypeOK, Task4Fixed!ForksHeld, Task4Fixed!HoldsFirst,
         Task4Fixed!HoldsSecond
    <3>2. CASE q # p
      BY <1>4, <3>2 DEF Task4Fixed!LockSecond, Task4Fixed!Step, Task4Fixed!LockFork,
         Task4Fixed!IInv, Task4Fixed!TypeOK, Task4Fixed!ForksHeld, Task4Fixed!HoldsFirst,
         Task4Fixed!HoldsSecond
    <3>3. QED
      BY <3>1, <3>2
  <2>3. Task4Fixed!WaiterHeld' /\ Task4Fixed!CreatedOnly'
    BY <1>4 DEF Task4Fixed!LockSecond, Task4Fixed!Step, Task4Fixed!LockFork, Task4Fixed!IInv,
       Task4Fixed!TypeOK, Task4Fixed!WaiterHeld, Task4Fixed!CreatedOnly
  <2>4. QED
    BY <2>1, <2>2, <2>3 DEF Task4Fixed!IInv
<1>5. ASSUME NEW p \in Task4Fixed!Philosopher, Task4Fixed!Eat(p) PROVE Task4Fixed!IInv'
  <2>1. Task4Fixed!TypeOK'
    BY <1>5 DEF Task4Fixed!Eat, Task4Fixed!Step, Task4Fixed!IInv, Task4Fixed!TypeOK
  <2>2. Task4Fixed!ForksHeld'
    <3> SUFFICES ASSUME NEW q \in Task4Fixed!Philosopher, NEW f \in Task4Fixed!Fork
                 PROVE  owner'[f] = q <=> \/ f = Task4Fixed!First(q) /\ Task4Fixed!HoldsFirst(q)'
                                          \/ f = Task4Fixed!Second(q) /\ Task4Fixed!HoldsSecond(q)'
      BY DEF Task4Fixed!ForksHeld
    <3>1. CASE q = p
      BY <1>5, <3>1 DEF Task4Fixed!Eat, Task4Fixed!Step, Task4Fixed!IInv, Task4Fixed!TypeOK,
         Task4Fixed!ForksHeld, Task4Fixed!HoldsFirst, Task4Fixed!HoldsSecond
    <3>2. CASE q # p
      BY <1>5, <3>2 DEF Task4Fixed!Eat, Task4Fixed!Step, Task4Fixed!IInv, Task4Fixed!TypeOK,
         Task4Fixed!ForksHeld, Task4Fixed!HoldsFirst, Task4Fixed!HoldsSecond
    <3>3. QED
      BY <3>1, <3>2
  <2>3. Task4Fixed!WaiterHeld' /\ Task4Fixed!CreatedOnly'
    BY <1>5 DEF Task4Fixed!Eat, Task4Fixed!Step, Task4Fixed!IInv, Task4Fixed!TypeOK,
       Task4Fixed!WaiterHeld, Task4Fixed!CreatedOnly
  <2>4. QED
    BY <2>1, <2>2, <2>3 DEF Task4Fixed!IInv
<1>6. ASSUME NEW p \in Task4Fixed!Philosopher, Task4Fixed!UnlockSecond(p) PROVE Task4Fixed!IInv'
  <2>1. Task4Fixed!TypeOK'
    BY <1>6 DEF Task4Fixed!UnlockSecond, Task4Fixed!Step, Task4Fixed!UnlockFork,
       Task4Fixed!IInv, Task4Fixed!TypeOK
  <2>2. Task4Fixed!ForksHeld'
    <3> SUFFICES ASSUME NEW q \in Task4Fixed!Philosopher, NEW f \in Task4Fixed!Fork
                 PROVE  owner'[f] = q <=> \/ f = Task4Fixed!First(q) /\ Task4Fixed!HoldsFirst(q)'
                                          \/ f = Task4Fixed!Second(q) /\ Task4Fixed!HoldsSecond(q)'
      BY DEF Task4Fixed!ForksHeld
    <3>1. CASE q = p
      BY <1>6, <3>1 DEF Task4Fixed!UnlockSecond, Task4Fixed!Step, Task4Fixed!UnlockFork,
         Task4Fixed!IInv, Task4Fixed!TypeOK, Task4Fixed!ForksHeld, Task4Fixed!HoldsFirst,
         Task4Fixed!HoldsSecond
    <3>2. CASE q # p
      BY <1>6, <3>2 DEF Task4Fixed!UnlockSecond, Task4Fixed!Step, Task4Fixed!UnlockFork,
         Task4Fixed!IInv, Task4Fixed!TypeOK, Task4Fixed!ForksHeld, Task4Fixed!HoldsFirst,
         Task4Fixed!HoldsSecond
    <3>3. QED
      BY <3>1, <3>2
  <2>3. Task4Fixed!WaiterHeld' /\ Task4Fixed!CreatedOnly'
    BY <1>6 DEF Task4Fixed!UnlockSecond, Task4Fixed!Step, Task4Fixed!UnlockFork,
       Task4Fixed!IInv, Task4Fixed!TypeOK, Task4Fixed!WaiterHeld, Task4Fixed!CreatedOnly
  <2>4. QED
    BY <2>1, <2>2, <2>3 DEF Task4Fixed!IInv
<1>7. ASSUME NEW p \in Task4Fixed!Philosopher, Task4Fixed!UnlockFirst(p) PROVE Task4Fixed!IInv'
  <2>1. Task4Fixed!TypeOK'
    BY <1>7 DEF Task4Fixed!UnlockFirst, Task4Fixed!Step, Task4Fixed!UnlockFork, Task4Fixed!IInv,
       Task4Fixed!TypeOK
  <2>2. Task4Fixed!ForksHeld'
    <3> SUFFICES ASSUME NEW q \in Task4Fixed!Philosopher, NEW f \in Task4Fixed!Fork
                 PROVE  owner'[f] = q <=> \/ f = Task4Fixed!First(q) /\ Task4Fixed!HoldsFirst(q)'
                                          \/ f = Task4Fixed!Second(q) /\ Task4Fixed!HoldsSecond(q)'
      BY DEF Task4Fixed!ForksHeld
    <3>1. CASE q = p
      BY <1>7, <3>1 DEF Task4Fixed!UnlockFirst, Task4Fixed!Step, Task4Fixed!UnlockFork,
         Task4Fixed!IInv, Task4Fixed!TypeOK, Task4Fixed!ForksHeld, Task4Fixed!HoldsFirst,
         Task4Fixed!HoldsSecond
    <3>2. CASE q # p
      BY <1>7, <3>2 DEF Task4Fixed!UnlockFirst, Task4Fixed!Step, Task4Fixed!UnlockFork,
         Task4Fixed!IInv, Task4Fixed!TypeOK, Task4Fixed!ForksHeld, Task4Fixed!HoldsFirst,
         Task4Fixed!HoldsSecond
    <3>3. QED
      BY <3>1, <3>2
  <2>3. Task4Fixed!WaiterHeld' /\ Task4Fixed!CreatedOnly'
    BY <1>7 DEF Task4Fixed!UnlockFirst, Task4Fixed!Step, Task4Fixed!UnlockFork, Task4Fixed!IInv,
       Task4Fixed!TypeOK, Task4Fixed!WaiterHeld, Task4Fixed!CreatedOnly
  <2>4. QED
    BY <2>1, <2>2, <2>3 DEF Task4Fixed!IInv
<1>8. ASSUME NEW p \in Task4Fixed!Philosopher, Task4Fixed!UnlockWaiter(p) PROVE Task4Fixed!IInv'
  <2>1. Task4Fixed!TypeOK'
    BY <1>8 DEF Task4Fixed!UnlockWaiter, Task4Fixed!Step, Task4Fixed!IInv, Task4Fixed!TypeOK
  <2>2. Task4Fixed!ForksHeld'
    <3> SUFFICES ASSUME NEW q \in Task4Fixed!Philosopher, NEW f \in Task4Fixed!Fork
                 PROVE  owner'[f] = q <=> \/ f = Task4Fixed!First(q) /\ Task4Fixed!HoldsFirst(q)'
                                          \/ f = Task4Fixed!Second(q) /\ Task4Fixed!HoldsSecond(q)'
      BY DEF Task4Fixed!ForksHeld
    <3>1. CASE q = p
      BY <1>8, <3>1 DEF Task4Fixed!UnlockWaiter, Task4Fixed!Step, Task4Fixed!IInv,
         Task4Fixed!TypeOK, Task4Fixed!ForksHeld, Task4Fixed!HoldsFirst, Task4Fixed!HoldsSecond
    <3>2. CASE q # p
      BY <1>8, <3>2 DEF Task4Fixed!UnlockWaiter, Task4Fixed!Step, Task4Fixed!IInv,
         Task4Fixed!TypeOK, Task4Fixed!ForksHeld, Task4Fixed!HoldsFirst, Task4Fixed!HoldsSecond
    <3>3. QED
      BY <3>1, <3>2
  <2>3. Task4Fixed!WaiterHeld' /\ Task4Fixed!CreatedOnly'
    BY <1>8 DEF Task4Fixed!UnlockWaiter, Task4Fixed!Step, Task4Fixed!IInv, Task4Fixed!TypeOK,
       Task4Fixed!WaiterHeld, Task4Fixed!CreatedOnly
  <2>4. QED
    BY <2>1, <2>2, <2>3 DEF Task4Fixed!IInv
<1>9. CASE UNCHANGED Task4Fixed!vars
  BY <1>9 DEF Task4Fixed!vars, Task4Fixed!IInv, Task4Fixed!TypeOK, Task4Fixed!ForksHeld,
     Task4Fixed!WaiterHeld, Task4Fixed!CreatedOnly, Task4Fixed!HoldsFirst,
     Task4Fixed!HoldsSecond
<1>10. QED
  BY <1>1, <1>2, <1>3, <1>4, <1>5, <1>6, <1>7, <1>8, <1>9 DEF Task4Fixed!Next, Task4Fixed!Dine

\* Whoever is not at the waiter is the only one who is not.
LEMMA WaiterOneServed ==
  ASSUME Task4Fixed!IInv, NEW p \in Task4Fixed!Philosopher, NEW q \in Task4Fixed!Philosopher,
         pc[p] # "lockWaiter", pc[q] # "lockWaiter"
  PROVE  p = q
  BY DEF Task4Fixed!IInv, Task4Fixed!WaiterHeld

LEMMA WaiterFreeForks == Task4Fixed!IInv => Task4Fixed!ForksWaitForNobody
<1> SUFFICES ASSUME Task4Fixed!IInv, NEW p \in Task4Fixed!Philosopher
             PROVE  /\ pc[p] = "lockFirst" => owner[Task4Fixed!First(p)] = Task4Fixed!Nobody
                    /\ pc[p] = "lockSecond" => owner[Task4Fixed!Second(p)] = Task4Fixed!Nobody
  BY DEF Task4Fixed!ForksWaitForNobody
<1>1. ASSUME NEW f \in Task4Fixed!Fork, owner[f] # Task4Fixed!Nobody, pc[p] # "lockWaiter"
      PROVE  owner[f] = p
  <2>1. owner[f] \in Task4Fixed!Philosopher
    BY <1>1 DEF Task4Fixed!IInv, Task4Fixed!TypeOK
  <2>2. pc[owner[f]] # "lockWaiter"
    BY <2>1 DEF Task4Fixed!IInv, Task4Fixed!ForksHeld, Task4Fixed!HoldsFirst,
       Task4Fixed!HoldsSecond
  <2>3. QED
    BY <1>1, <2>1, <2>2, WaiterOneServed
<1>2. pc[p] = "lockFirst" => owner[Task4Fixed!First(p)] # p
  BY WaiterForks DEF Task4Fixed!IInv, Task4Fixed!ForksHeld, Task4Fixed!HoldsFirst,
     Task4Fixed!HoldsSecond
<1>3. pc[p] = "lockSecond" => owner[Task4Fixed!Second(p)] # p
  BY WaiterForks DEF Task4Fixed!IInv, Task4Fixed!ForksHeld, Task4Fixed!HoldsFirst,
     Task4Fixed!HoldsSecond
<1>4. QED
  BY <1>1, <1>2, <1>3, WaiterForks

LEMMA WaiterSomebodyMoves == Task4Fixed!IInv => Task4Fixed!SomebodyCanMove
<1> SUFFICES ASSUME Task4Fixed!IInv PROVE Task4Fixed!SomebodyCanMove
  OBVIOUS
<1>1. CASE \A p \in Task4Fixed!Philosopher : pc[p] = "lockWaiter"
  <2>1. waiter = Task4Fixed!Nobody
    BY <1>1 DEF Task4Fixed!IInv, Task4Fixed!TypeOK, Task4Fixed!WaiterHeld
  <2>2. 1 \in Task4Fixed!Philosopher
    BY TableAssumption DEF Task4Fixed!Philosopher
  <2>3. QED
    BY <1>1, <2>1, <2>2 DEF Task4Fixed!SomebodyCanMove
<1>2. CASE \E p \in Task4Fixed!Philosopher : pc[p] # "lockWaiter"
  <2>1. PICK p \in Task4Fixed!Philosopher : pc[p] # "lockWaiter"
    BY <1>2
  <2>2. /\ pc[p] = "lockFirst" => owner[Task4Fixed!First(p)] = Task4Fixed!Nobody
        /\ pc[p] = "lockSecond" => owner[Task4Fixed!Second(p)] = Task4Fixed!Nobody
    BY WaiterFreeForks DEF Task4Fixed!ForksWaitForNobody
  <2>3. QED
    BY <2>1, <2>2 DEF Task4Fixed!SomebodyCanMove
<1>3. QED
  BY <1>1, <1>2

\* Where the philosophers are in the program without a waiter.
WaiterPlace == [p \in Task4Fixed!Philosopher |->
            IF pc[p] \in {"lockWaiter", "unlockWaiter"} THEN "lockFirst" ELSE pc[p]]

LEMMA WaiterShared ==
  /\ Task4Fixed!Dinner!Philosopher = Task4Fixed!Philosopher
  /\ Task4Fixed!Dinner!Fork = Task4Fixed!Fork
  /\ Task4Fixed!Dinner!Nobody = Task4Fixed!Nobody
  /\ \A p : /\ Task4Fixed!Dinner!First(p) = Task4Fixed!First(p)
            /\ Task4Fixed!Dinner!Second(p) = Task4Fixed!Second(p)
  BY DEF Task4Fixed!Dinner!Philosopher, Task4Fixed!Dinner!Fork, Task4Fixed!Dinner!Nobody,
     Task4Fixed!Dinner!First, Task4Fixed!Dinner!Second, Task4Fixed!Philosopher, Task4Fixed!Fork,
     Task4Fixed!Nobody, Task4Fixed!First, Task4Fixed!Second

\* A step of one philosopher moves him alone in the dinner.
LEMMA WaiterPlaceStep ==
  ASSUME Task4Fixed!IInv, NEW p \in Task4Fixed!Philosopher,
         NEW from, NEW to, Task4Fixed!Step(p, from, to)
  PROVE  WaiterPlace' = [WaiterPlace EXCEPT ![p] =
                     IF to \in {"lockWaiter", "unlockWaiter"} THEN "lockFirst" ELSE to]
  BY DEF Task4Fixed!Step, WaiterPlace, Task4Fixed!IInv, Task4Fixed!TypeOK

\* Seen without the waiter, a step is a step of the deadlocking program or
\* changes nothing.
LEMMA WaiterStepRefines ==
  ASSUME Task4Fixed!IInv, [Task4Fixed!Next]_(Task4Fixed!vars)
  PROVE  Task4Fixed!Dinner!Next \/ UNCHANGED (Task4Fixed!Dinner!vars)
<1> USE WaiterShared
<1>1. CASE Task4Fixed!Create
  <2>1. Task4Fixed!Dinner!Create
    BY <1>1 DEF Task4Fixed!Create, Task4Fixed!Dinner!Create
  <2>2. QED
    BY <2>1 DEF Task4Fixed!Dinner!Next
<1>2. ASSUME NEW p \in Task4Fixed!Philosopher, Task4Fixed!Dine(p)
      PROVE  Task4Fixed!Dinner!Dine(p) \/ UNCHANGED (Task4Fixed!Dinner!vars)
  <2>1. CASE Task4Fixed!LockWaiter(p)
    <3>1. WaiterPlace' = WaiterPlace
      BY <2>1, WaiterPlaceStep DEF Task4Fixed!LockWaiter, Task4Fixed!Step, WaiterPlace,
         Task4Fixed!IInv, Task4Fixed!TypeOK
    <3>2. QED
      BY <2>1, <3>1 DEF Task4Fixed!LockWaiter, Task4Fixed!Step, WaiterPlace,
         Task4Fixed!Dinner!vars
  <2>2. CASE Task4Fixed!LockFirst(p)
    <3>1. Task4Fixed!Dinner!LockFirst(p)
      BY <2>2, WaiterPlaceStep
      DEF Task4Fixed!LockFirst, Task4Fixed!Step, Task4Fixed!LockFork, WaiterPlace,
          Task4Fixed!Dinner!LockFirst, Task4Fixed!Dinner!Step, Task4Fixed!Dinner!Lock
    <3>2. QED
      BY <3>1 DEF Task4Fixed!Dinner!Dine
  <2>3. CASE Task4Fixed!LockSecond(p)
    <3>1. Task4Fixed!Dinner!LockSecond(p)
      BY <2>3, WaiterPlaceStep
      DEF Task4Fixed!LockSecond, Task4Fixed!Step, Task4Fixed!LockFork, WaiterPlace,
          Task4Fixed!Dinner!LockSecond, Task4Fixed!Dinner!Step, Task4Fixed!Dinner!Lock
    <3>2. QED
      BY <3>1 DEF Task4Fixed!Dinner!Dine
  <2>4. CASE Task4Fixed!Eat(p)
    <3>1. Task4Fixed!Dinner!Eat(p)
      BY <2>4, WaiterPlaceStep DEF Task4Fixed!Eat, Task4Fixed!Step, WaiterPlace,
         Task4Fixed!Dinner!Eat, Task4Fixed!Dinner!Step
    <3>2. QED
      BY <3>1 DEF Task4Fixed!Dinner!Dine
  <2>5. CASE Task4Fixed!UnlockSecond(p)
    <3>1. Task4Fixed!Dinner!UnlockSecond(p)
      BY <2>5, WaiterPlaceStep
      DEF Task4Fixed!UnlockSecond, Task4Fixed!Step, Task4Fixed!UnlockFork, WaiterPlace,
          Task4Fixed!Dinner!UnlockSecond, Task4Fixed!Dinner!Step, Task4Fixed!Dinner!Unlock
    <3>2. QED
      BY <3>1 DEF Task4Fixed!Dinner!Dine
  <2>6. CASE Task4Fixed!UnlockFirst(p)
    <3>1. Task4Fixed!Dinner!UnlockFirst(p)
      BY <2>6, WaiterPlaceStep
      DEF Task4Fixed!UnlockFirst, Task4Fixed!Step, Task4Fixed!UnlockFork, WaiterPlace,
          Task4Fixed!Dinner!UnlockFirst, Task4Fixed!Dinner!Step, Task4Fixed!Dinner!Unlock
    <3>2. QED
      BY <3>1 DEF Task4Fixed!Dinner!Dine
  <2>7. CASE Task4Fixed!UnlockWaiter(p)
    <3>1. WaiterPlace' = WaiterPlace
      BY <2>7, WaiterPlaceStep DEF Task4Fixed!UnlockWaiter, Task4Fixed!Step, WaiterPlace,
         Task4Fixed!IInv, Task4Fixed!TypeOK
    <3>2. QED
      BY <2>7, <3>1 DEF Task4Fixed!UnlockWaiter, Task4Fixed!Step, WaiterPlace,
         Task4Fixed!Dinner!vars
  <2>8. QED
    BY <1>2, <2>1, <2>2, <2>3, <2>4, <2>5, <2>6, <2>7 DEF Task4Fixed!Dine
<1>3. CASE UNCHANGED Task4Fixed!vars
  BY <1>3 DEF Task4Fixed!vars, Task4Fixed!Dinner!vars
<1>4. QED
  BY <1>1, <1>2, <1>3 DEF Task4Fixed!Next, Task4Fixed!Dinner!Next

LEMMA WaiterInitRefines == Task4Fixed!Init => Task4Fixed!Dinner!Init
  BY WaiterShared DEF Task4Fixed!Init, Task4Fixed!Dinner!Init

-----------------------------------------------------------------------------
(* The specification that runs any of the programs *)

\* The invariants of the programs, each while its variables are in use.
IInv ==
  /\ program \in {"Task1", "Task2", "Task3", "Task4_deadlock", "Task4_fixed_deadlock"}
  /\ program = "Task1" => Task1!IInv
  /\ program # "Task1" => Task2!IInv
  /\ Task3!IInv
  /\ program = "Task4_deadlock" => DiningIInv
  /\ program # "Task4_deadlock" => Task4Fixed!IInv
  /\ program \in {"Task1", "Task2", "Task3"} => created = 0

-----------------------------------------------------------------------------

\* A run starts in an initial state of every program whose variables are in use.
LEMMA Starts ==
  ASSUME Init
  PROVE  /\ program \in {"Task1", "Task2", "Task3", "Task4_deadlock", "Task4_fixed_deadlock"}
         /\ program = "Task1" => Task1!Init
         /\ program # "Task1" => Task2!Init
         /\ Task3!Init
         /\ program = "Task4_deadlock" => Task4!Init
         /\ program # "Task4_deadlock" => Task4Fixed!Init
         /\ program \in {"Task1", "Task2", "Task3"} => created = 0
  BY DEF Init, Task4Fixed!Init

\* A step is one of the program that runs; nothing else changes.
LEMMA Steps ==
  ASSUME [Next]_vars
  PROVE  /\ program' = program
         /\ program = "Task1" => [Task1!Next]_(Task1!vars)
         /\ program # "Task1" => [Task2!Next]_(Task2!vars)
         /\ [Task3!Next]_(Task3!vars)
         /\ program = "Task4_deadlock" => [Task4!Next]_(Task4!vars)
         /\ program # "Task4_deadlock" => [Task4Fixed!Next]_(Task4Fixed!vars)
         /\ program \in {"Task1", "Task2", "Task3"} => created' = created
<1>1. CASE UNCHANGED vars
  BY <1>1 DEF vars, counters, users, dinner, Task1!vars, Task2!vars, Task3!vars,
     Task4!vars, Task4Fixed!vars
<1>2. CASE Next
  BY <1>2 DEF Next, counters, users, dinner, Task1!vars, Task2!vars, Task3!vars,
     Task4!vars, Task4Fixed!vars
<1>3. QED
  BY <1>1, <1>2

LEMMA InitIInv == Init => IInv
<1> SUFFICES ASSUME Init PROVE IInv
  OBVIOUS
<1> USE Starts
<1>1. program = "Task1" => Task1!IInv
  BY RacingInitIInv, CounterAssumption
<1>2. program # "Task1" => Task2!IInv
  BY GuardedInitIInv, CounterAssumption
<1>3. Task3!IInv
  BY SingletonInitIInv, SingletonAssumption
<1>4. program = "Task4_deadlock" => DiningIInv
  BY DiningInitIInv, TableAssumption
<1>5. program # "Task4_deadlock" => Task4Fixed!IInv
  BY WaiterInitIInv, TableAssumption
<1>6. QED
  BY <1>1, <1>2, <1>3, <1>4, <1>5 DEF IInv

LEMMA NextIInv == IInv /\ [Next]_vars => IInv'
<1> SUFFICES ASSUME IInv, [Next]_vars PROVE IInv'
  OBVIOUS
<1> USE Steps
<1>1. program = "Task1" => Task1!IInv'
  BY RacingNextIInv, CounterAssumption DEF IInv
<1>2. program # "Task1" => Task2!IInv'
  BY GuardedNextIInv, CounterAssumption DEF IInv
<1>3. Task3!IInv'
  BY SingletonNextIInv, SingletonAssumption DEF IInv
<1>4. program = "Task4_deadlock" => DiningIInv'
  BY DiningNextIInv, TableAssumption DEF IInv
<1>5. program # "Task4_deadlock" => Task4Fixed!IInv'
  BY WaiterNextIInv, TableAssumption DEF IInv
<1>6. QED
  BY <1>1, <1>2, <1>3, <1>4, <1>5 DEF IInv

\* Whatever program of Ex2 runs, its inductive invariant holds.
LEMMA Invariance == Spec => []IInv
  BY InitIInv, NextIInv, PTL DEF Spec

-----------------------------------------------------------------------------
(* What follows from the invariants in every state *)

LEMMA TwoAtLeast == IInv => TwoSurvive
  BY RacingSurvivors, CounterAssumption
  DEF IInv, TwoSurvive, Task1!TwoSurvive

LEMMA OneLoopAtLeast == IInv => OneLoopSurvives
  BY GuardedSurvivors, CounterAssumption
  DEF IInv, OneLoopSurvives, Task2!OneLoopSurvives

LEMMA ForksFree == IInv => ForksWaitForNobody
  BY WaiterFreeForks, TableAssumption
  DEF IInv, ForksWaitForNobody, Task4Fixed!ForksWaitForNobody, Task4Fixed!Philosopher,
      Task4Fixed!Nobody, Task4Fixed!First, Task4Fixed!Second

LEMMA NeighboursWait == IInv => NeighboursExclude
<1> SUFFICES ASSUME IInv PROVE Task4!NeighboursExclude
  BY DEF NeighboursExclude
<1>1. CASE program = "Task4_deadlock"
  BY <1>1, DiningSharedForks, TableAssumption
  DEF IInv, Task4!NeighboursExclude, Task4!Philosopher, Task4!Second
<1>2. CASE program # "Task4_deadlock"
  <2> SUFFICES ASSUME NEW p \in Task4Fixed!Philosopher,
                      pc[p] = "eat", pc[Task4Fixed!Second(p)] = "eat"
               PROVE  FALSE
    BY DEF Task4!NeighboursExclude, Task4!Philosopher, Task4Fixed!Philosopher, Task4!Second,
       Task4Fixed!Second
  <2>1. Task4Fixed!Second(p) \in Task4Fixed!Philosopher /\ Task4Fixed!Second(p) # p
    BY WaiterForks, TableAssumption
  <2>2. Task4Fixed!IInv
    BY <1>2 DEF IInv
  <2>3. QED
    BY <2>1, <2>2 DEF Task4Fixed!IInv, Task4Fixed!WaiterHeld
<1>3. QED
  BY <1>1, <1>2

LEMMA StuckInCircle == IInv => StuckOnlyInCircle
<1>1. ASSUME IInv, program = "Task4_fixed_deadlock" PROVE Task4Fixed!SomebodyCanMove
  BY <1>1, WaiterSomebodyMoves, TableAssumption
  DEF IInv, Task4Fixed!SomebodyCanMove, Task4Fixed!Philosopher, Task4Fixed!Nobody,
      Task4Fixed!First, Task4Fixed!Second
<1>2. ASSUME IInv, program = "Task4_deadlock" PROVE Task4!StuckOnlyInCircle
  BY <1>2, DiningCircle, TableAssumption
  DEF IInv, Task4!StuckOnlyInCircle, Task4!Stuck, Task4!CanMove, Task4!Philosopher,
      Task4!Nobody, Task4!First, Task4!Second
<1>3. ASSUME IInv, program \in {"Task1", "Task2", "Task3"} PROVE Task4!StuckOnlyInCircle
  BY <1>3, TableAssumption DEF IInv, Task4!StuckOnlyInCircle, Task4!Stuck
<1>4. QED
  BY <1>1, <1>2, <1>3 DEF StuckOnlyInCircle, IInv

-----------------------------------------------------------------------------
(* Every run of one program is a run of the freer one *)

\* Where the threads of the guarded counter are in the racing one; a thread of the
\* racing counter is where it is.
RacingPlace == [t \in Thread |->
                  IF place[t] \in {"store", "lastStore"} THEN "store"
                  ELSE IF place[t] = "done" THEN "done" ELSE "load"]

LEMMA RacingStart == Init => Task2!Racing!Init
<1>1. ASSUME Init, program = "Task1" PROVE Task2!Racing!Init
  BY <1>1 DEF Init, Task1!Init, Task2!Racing!Init
<1>2. ASSUME Init, program # "Task1" PROVE Task2!Racing!Init
  BY <1>2, Starts, GuardedInitRefines, CounterAssumption DEF Task2!Racing!Init
<1>3. QED
  BY <1>1, <1>2

LEMMA RacingStep == IInv /\ [Next]_vars => [Task2!Racing!Next]_(Task2!Racing!vars)
<1> SUFFICES ASSUME IInv, [Next]_vars PROVE [Task2!Racing!Next]_(Task2!Racing!vars)
  OBVIOUS
<1>1. CASE program = "Task1"
  <2>1. RacingPlace = place /\ RacingPlace' = place'
    BY <1>1, NextIInv, Steps DEF RacingPlace, IInv, Task1!IInv, Task1!TypeOK
  <2>2. [Task1!Next]_(Task1!vars)
    BY <1>1, Steps
  <2>3. QED
    BY <2>1, <2>2
    DEF RacingPlace, Task1!Next, Task1!Load, Task1!Store, Task1!Joined, Task1!vars,
        Task2!Racing!Next, Task2!Racing!Load, Task2!Racing!Store, Task2!Racing!Joined,
        Task2!Racing!vars
<1>2. CASE program # "Task1"
  BY <1>2, Steps, GuardedStepRefines, CounterAssumption
  DEF IInv, Task2!Racing!Next, Task2!Racing!Load, Task2!Racing!Store, Task2!Racing!Joined,
      Task2!Racing!vars
<1>3. QED
  BY <1>1, <1>2

\* The same for the dinner with the waiter and the one without.
DinnerPlace == [p \in Task4!Philosopher |->
                  IF pc[p] \in {"lockWaiter", "unlockWaiter"} THEN "lockFirst" ELSE pc[p]]

LEMMA DinnerStart == Init => Task4Fixed!Dinner!Init
<1>1. ASSUME Init, program = "Task4_deadlock" PROVE Task4Fixed!Dinner!Init
  BY <1>1 DEF Init, Task4!Init, Task4Fixed!Dinner!Init, Task4!Philosopher,
     Task4Fixed!Philosopher, Task4Fixed!Dinner!Philosopher, Task4!Fork, Task4Fixed!Dinner!Fork,
     Task4!Nobody, Task4Fixed!Dinner!Nobody
<1>2. ASSUME Init, program # "Task4_deadlock" PROVE Task4Fixed!Dinner!Init
  BY <1>2, Starts, WaiterInitRefines, TableAssumption
  DEF Task4Fixed!Dinner!Init, Task4Fixed!Philosopher, Task4Fixed!Dinner!Philosopher,
      Task4Fixed!Dinner!Fork, Task4Fixed!Dinner!Nobody
<1>3. QED
  BY <1>1, <1>2

LEMMA DinnerStep == IInv /\ [Next]_vars => [Task4Fixed!Dinner!Next]_(Task4Fixed!Dinner!vars)
<1> SUFFICES ASSUME IInv, [Next]_vars PROVE [Task4Fixed!Dinner!Next]_(Task4Fixed!Dinner!vars)
  OBVIOUS
<1> USE DEF Task4Fixed!Dinner!Next, Task4Fixed!Dinner!Create, Task4Fixed!Dinner!Step,
   Task4Fixed!Dinner!Lock, Task4Fixed!Dinner!Unlock, Task4Fixed!Dinner!LockFirst,
   Task4Fixed!Dinner!LockSecond, Task4Fixed!Dinner!Eat, Task4Fixed!Dinner!UnlockSecond,
   Task4Fixed!Dinner!UnlockFirst, Task4Fixed!Dinner!Dine, Task4Fixed!Dinner!First,
   Task4Fixed!Dinner!Second, Task4Fixed!Dinner!Philosopher, Task4Fixed!Dinner!Nobody,
   Task4Fixed!Dinner!vars, Task4Fixed!Philosopher
<1>1. CASE program = "Task4_deadlock"
  <2>1. DinnerPlace = pc /\ DinnerPlace' = pc'
    BY <1>1, NextIInv, Steps
    DEF DinnerPlace, IInv, DiningIInv, Task4!TypeOK, Task4!Philosopher
  <2>2. [Task4!Next]_(Task4!vars)
    BY <1>1, Steps
  <2>3. QED
    BY <2>1, <2>2
    DEF DinnerPlace, Task4!Philosopher, Task4!Next, Task4!Create, Task4!Step, Task4!Lock,
        Task4!Unlock, Task4!LockFirst, Task4!LockSecond, Task4!Eat, Task4!UnlockSecond,
        Task4!UnlockFirst, Task4!Dine, Task4!First, Task4!Second, Task4!Nobody, Task4!vars
<1>2. CASE program # "Task4_deadlock"
  BY <1>2, Steps, WaiterStepRefines, TableAssumption
  DEF IInv, Task4Fixed!Philosopher, Task4Fixed!Dinner!Next, Task4Fixed!Dinner!Create,
      Task4Fixed!Dinner!Step, Task4Fixed!Dinner!Lock, Task4Fixed!Dinner!Unlock,
      Task4Fixed!Dinner!LockFirst, Task4Fixed!Dinner!LockSecond, Task4Fixed!Dinner!Eat,
      Task4Fixed!Dinner!UnlockSecond, Task4Fixed!Dinner!UnlockFirst, Task4Fixed!Dinner!Dine,
      Task4Fixed!Dinner!First, Task4Fixed!Dinner!Second, Task4Fixed!Dinner!Philosopher,
      Task4Fixed!Dinner!Nobody, Task4Fixed!Dinner!vars
<1>3. QED
  BY <1>1, <1>2

-----------------------------------------------------------------------------

\* Task1.c:28: whatever the build makes of the data race, two increments survive,
\* for any number of threads and iterations.
THEOREM TwoIncrementsSurvive == Spec => []TwoSurvive
  BY TwoAtLeast, Invariance, PTL

\* Task2.c:29: the unguarded increment never costs the loop of the thread that
\* stores last, for any number of threads and iterations.
THEOREM OneLoopAlwaysSurvives == Spec => []OneLoopSurvives
  BY OneLoopAtLeast, Invariance, PTL

\* Task3.c:34-42: the pointer to the singleton is assigned once.
THEOREM AllocatedOnce == Spec => OnlyOneSingleton
<1>1. IInv /\ [Next]_vars => [singleton # None => singleton' = singleton]_(Task3!vars)
  BY Steps, SingletonPointerStays, SingletonAssumption DEF IInv, Task3!vars
<1>2. QED
  BY <1>1, Invariance, PTL DEF Spec, OnlyOneSingleton, Task3!OnlyOneSingleton

\* Task3.c:63-64: an unset field is read only while the thread that allocated the
\* object is still setting the fields.
THEOREM WindowCloses == Spec => GarbageOnlyInWindow
<1>1. IInv /\ [Next]_vars
        => [\A t \in User : garbage'[t] # garbage[t] => at[object[t]] = "set"]_(Task3!vars)
  BY Steps, SingletonOnlyWhileSetting, SingletonAssumption DEF IInv, Task3!vars
<1>2. QED
  BY <1>1, Invariance, PTL DEF Spec, GarbageOnlyInWindow, Task3!GarbageOnlyInWindow

\* Task4_deadlock.c and Task4_fixed_deadlock.c, lines 14-19: neighbours never eat
\* together, however many sit at the table.
THEOREM NeighboursNeverBothEat == Spec => []NeighboursExclude
  BY NeighboursWait, Invariance, PTL

\* Task4_fixed_deadlock.c:15-16: whom the waiter serves finds both forks free.
THEOREM ForksNeverBlock == Spec => []ForksWaitForNobody
  BY ForksFree, Invariance, PTL

\* Task4_deadlock.c and Task4_fixed_deadlock.c: the only deadlock is the full
\* circle of the program without the waiter; the one with it has none.
THEOREM DeadlockIsTheCircle == Spec => []StuckOnlyInCircle
  BY StuckInCircle, Invariance, PTL

\* Task2.c:21-24: seen without the semaphore, every run is a run of Task1.c.
THEOREM GuardedRefines == Spec => RacingSteps
  BY RacingStart, RacingStep, Invariance, PTL DEF Spec, RacingSteps, Task2!RacingSteps

\* Task4_fixed_deadlock.c:14,21: seen without the waiter, every run is a run of
\* Task4_deadlock.c.
THEOREM WaiterRefines == Spec => DinnerSteps
  BY DinnerStart, DinnerStep, Invariance, PTL DEF Spec, DinnerSteps, Task4Fixed!DinnerSteps
=============================================================================
