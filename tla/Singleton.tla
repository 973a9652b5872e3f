----------------------------- MODULE Singleton -----------------------------
(***************************************************************************)
(* Ex2/Task3.c: the double-checked locking of getSingleton.  The pointer   *)
(* is published before the fields are written, so a user that takes the    *)
(* fast path may read fields that are not set yet.                         *)
(*                                                                         *)
(* The busy waits between the stores clobber memory, so the compiler keeps *)
(* the stores in program order; the processor (x86) does too.  The reads   *)
(* of the four fields are arguments of one printf: any order.              *)
(***************************************************************************)
EXTENDS SingletonUsers

VARIABLES
  pc,
  singleton,    \* g_singleton: the thread that allocated the object, or None
  set,          \* set[o]: how many fields of o's object are set
  semaphore,    \* the value of g_singletonInitSem
  started,      \* the threads main has created
  object,       \* the object a user got
  toRead,       \* the fields a user has not read yet
  garbage       \* the fields a user read before they were set

vars == <<pc, singleton, set, semaphore, started, object, toRead, garbage>>

Init ==
  /\ pc = [t \in User |-> "check"]
  /\ singleton = None
  /\ set = [t \in User |-> 0]
  /\ semaphore = 1
  /\ started = {}
  /\ object = [t \in User |-> None]
  /\ toRead = [t \in User |-> 1 .. Fields]
  /\ garbage = [t \in User |-> {}]

-----------------------------------------------------------------------------

\* main: the loop around pthread_create.
Create(t) ==
  /\ t \notin started
  /\ started' = started \cup {t}
  /\ UNCHANGED <<pc, singleton, set, semaphore, object, toRead, garbage>>

Go(t, from, to) ==
  /\ t \in started
  /\ pc[t] = from
  /\ pc' = [pc EXCEPT ![t] = to]
  /\ UNCHANGED started

\* if(!g_singleton), outside the semaphore.
Check(t) ==
  /\ Go(t, "check", IF singleton = None THEN "wait" ELSE "return")
  /\ UNCHANGED <<singleton, set, semaphore, object, toRead, garbage>>

SemWait(t) ==
  /\ Go(t, "wait", "checkAgain")
  /\ semaphore > 0
  /\ semaphore' = semaphore - 1
  /\ UNCHANGED <<singleton, set, object, toRead, garbage>>

\* Faulty variant: only one check.
CheckAgain_not(t) ==
  /\ Go(t, "checkAgain", "malloc")
  /\ UNCHANGED <<singleton, set, semaphore, object, toRead, garbage>>

CheckAgain(t) ==
  /\ Go(t, "checkAgain", IF singleton = None THEN "malloc" ELSE "post")
  /\ UNCHANGED <<singleton, set, semaphore, object, toRead, garbage>>

Malloc(t) ==
  /\ Go(t, "malloc", "set")
  /\ singleton' = t
  /\ UNCHANGED <<set, semaphore, object, toRead, garbage>>

\* Faulty variant: the last field is forgotten.
SetField_allButLast(t) ==
  /\ Go(t, "set", IF set[singleton] + 2 >= Fields THEN "post" ELSE "set")
  /\ set' = [set EXCEPT ![singleton] = @ + 1]
  /\ UNCHANGED <<singleton, semaphore, object, toRead, garbage>>

\* g_singleton->a = 1; and so on: the pointer is read again each time.
SetField(t) ==
  /\ Go(t, "set", IF set[singleton] + 1 >= Fields THEN "post" ELSE "set")
  /\ set' = [set EXCEPT ![singleton] = @ + 1]
  /\ UNCHANGED <<singleton, semaphore, object, toRead, garbage>>

SemPost(t) ==
  /\ Go(t, "post", "return")
  /\ semaphore' = semaphore + 1
  /\ UNCHANGED <<singleton, set, object, toRead, garbage>>

\* return g_singleton;
Return(t) ==
  /\ Go(t, "return", "print")
  /\ object' = [object EXCEPT ![t] = singleton]
  /\ UNCHANGED <<singleton, set, semaphore, toRead, garbage>>

\* The arguments of printf, read one by one.
ReadField(t) ==
  \E f \in toRead[t] :
    /\ Go(t, "print", IF toRead[t] = {f} THEN "done" ELSE "print")
    /\ toRead' = [toRead EXCEPT ![t] = @ \ {f}]
    /\ garbage' = [garbage EXCEPT ![t] = IF f <= set[object[t]] THEN @ ELSE @ \cup {f}]
    /\ UNCHANGED <<singleton, set, semaphore, object>>

Use(t) ==
  \/ Check(t) \/ SemWait(t) \/ CheckAgain(t) \/ Malloc(t) \/ SetField(t)
  \/ SemPost(t) \/ Return(t) \/ ReadField(t)

\* main joins the threads.
Joined == (\A t \in User : pc[t] = "done") /\ UNCHANGED vars

Next == (\E t \in User : Create(t) \/ Use(t)) \/ Joined

\* main and the threads are scheduled.
Spec == /\ Init /\ [][Next]_vars
        /\ WF_vars(\E t \in User : Create(t))
        /\ \A t \in User : WF_vars(Use(t))

-----------------------------------------------------------------------------

TypeOK ==
  /\ pc \in [User -> {"check", "wait", "checkAgain", "malloc", "set", "post",
                        "return", "print", "done"}]
  /\ singleton \in User \cup {None}
  /\ set \in [User -> 0 .. Fields]
  /\ semaphore \in 0 .. 1
  /\ started \subseteq User
  /\ object \in [User -> User \cup {None}]
  /\ toRead \in [User -> SUBSET (1 .. Fields)]
  /\ garbage \in [User -> SUBSET (1 .. Fields)]

Inside(t) == pc[t] \in {"checkAgain", "malloc", "set", "post"}

\* The semaphore is taken exactly while a thread is between wait and post.
OneInside ==
  /\ \A t, u \in User : Inside(t) /\ Inside(u) => t = u
  /\ semaphore = 0 <=> \E t \in User : Inside(t)

\* Only a thread that found no singleton inside the semaphore allocates one,
\* and only the one that allocated it sets the fields.
Initialising ==
  \A t \in User :
    /\ pc[t] = "malloc" => singleton = None
    /\ pc[t] = "set" => singleton = t /\ set[t] < Fields
    /\ pc[t] \in {"post", "return", "print", "done"} => singleton # None
    /\ set[t] # 0 => singleton = t

\* Every user got the one object there is, and there is only one: the second
\* check (Task3.c:36) and the semaphore keep a later thread from allocating
\* another (line 40).
SameObject ==
  /\ \A t \in User : object[t] \in {None, singleton}
  /\ \A t \in User : pc[t] \in {"print", "done"} => object[t] # None

\* Once the semaphore has been posted the object is complete.
PostedComplete ==
  singleton # None /\ (\A t \in User : pc[t] # "set") => set[singleton] = Fields

\* The strengthening the proof is inductive on.
IInv ==
  TypeOK /\ OneInside /\ Initialising /\ SameObject /\ PostedComplete

\* The singleton never changes once it is there.
OnlyOneSingleton == [][singleton # None => singleton' = singleton]_vars

\* A user reads a field that is not set (Task3.c:63-64) only while the thread
\* that allocated the object is still inside the semaphore: the window of the
\* anti-pattern (line 34) closes with sem_post (line 51).
GarbageOnlyInWindow ==
  [][\A t \in User : garbage'[t] # garbage[t]
       => pc[object[t]] = "set"]_vars
=============================================================================
