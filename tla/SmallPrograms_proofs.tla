------------------------ MODULE SmallPrograms_proofs ------------------------
(***************************************************************************)
(* What is proved of the programs of Ex1, Ex4 and Ex6: an inductive        *)
(* invariant of each, for all values of their parameters, and what follows *)
(* for the specification that runs any of them.                            *)
(***************************************************************************)
EXTENDS SmallPrograms, FreeRTOSKernel_proofs

\* A step is one of the program that runs, and leaves the others alone.
LEMMA Steps ==
  ASSUME [Next]_vars
  PROVE  /\ [Arrays!Next]_arrays /\ [Timing!Next]_timing /\ [Polling!Next]_polling
         /\ [Pins!Next]_pins
  BY DEF Next, vars, arrays, timing, polling, pins

-----------------------------------------------------------------------------
(* Ex6: the polling tasks *)

Polls == {"poll", "writeLow"}
Finishes == {"writeHigh", "check", "yield", "waitPeriod"}
Starts == {"created", "begin", "setPeriodic"}

PollingTypes ==
  /\ at \in [Line -> Polls \cup Finishes \cup Starts \cup {"waiting", "deleted"}]
  /\ left \in [Line -> Int] /\ due \in [Line -> 0 .. TASK_PERIOD]
  /\ waited \in [Line -> Nat] /\ since \in [Line -> Int] /\ overhead \in [Line -> Nat]
  /\ pending \subseteq test /\ test \subseteq Line /\ overrun \subseteq Line
  /\ afterPoll \subseteq Line

\* How long the line of l may have waited, by where its task is: before its poll
\* a period and the overhead; after it the overhead, with the rest of the period
\* before it unless a release point has come already.  A line that went low after
\* the poll has lost no more of the time of its task than the overhead since.
OnTime(l) ==
  /\ at[l] \in Starts <=> due[l] = 0
  /\ l \notin pending => waited[l] = 0 /\ overhead[l] = 0
  /\ l \in pending =>
       /\ at[l] \notin Starts
       /\ at[l] \in Polls => waited[l] <= TASK_PERIOD + overhead[l]
       /\ at[l] = "waiting" => waited[l] + due[l] <= TASK_PERIOD + overhead[l]
       /\ at[l] \in Finishes =>
            /\ waited[l] <= overhead[l] /\ since[l] <= left[l] + overhead[l]
            /\ at[l] \in {"writeHigh", "check"} => l \in afterPoll
            /\ l \notin overrun => waited[l] + due[l] <= TASK_PERIOD + overhead[l]
       /\ at[l] = "deleted" => l \in afterPoll /\ since[l] < overhead[l]

PollingInv == PollingTypes /\ \A l \in Line : OnTime(l)

LEMMA PollingStarts == Polling!Init => PollingInv
  BY PollingAssumption
  DEF Polling!Init, PollingInv, PollingTypes, OnTime, Polls, Finishes, Starts

LEMMA PollingSteps == PollingInv /\ [Polling!Next]_polling => PollingInv'
<1> SUFFICES ASSUME PollingInv, [Polling!Next]_polling PROVE PollingInv'
  OBVIOUS
<1> USE PollingAssumption
<1>1. PollingTypes /\ \A l \in Line : OnTime(l)
  BY DEF PollingInv
<1>2. ASSUME NEW l \in Line, Polling!Start(l) PROVE PollingInv'
  BY <1>1, <1>2
  DEF Polling!Start, Polling!tester, Polling!Goto, PollingInv, PollingTypes, OnTime, Polls,
      Finishes, Starts
<1>3. ASSUME NEW l \in Line, Polling!Begin(l) PROVE PollingInv'
  BY <1>1, <1>3
  DEF Polling!Begin, Polling!tester, Polling!Goto, PollingInv, PollingTypes, OnTime, Polls,
      Finishes, Starts
<1>4. ASSUME NEW l \in Line, Polling!SetPeriodic(l) PROVE PollingInv'
  BY <1>1, <1>4
  DEF Polling!SetPeriodic, Polling!tester, Polling!Goto, PollingInv, PollingTypes, OnTime, Polls,
      Finishes, Starts
<1>5. ASSUME NEW l \in Line, Polling!Poll(l) PROVE PollingInv'
  BY <1>1, <1>5
  DEF Polling!Poll, Polling!tester, Polling!Goto, PollingInv, PollingTypes, OnTime, Polls,
      Finishes, Starts
<1>6. ASSUME NEW l \in Line, Polling!WriteLow(l) PROVE PollingInv'
  BY <1>1, <1>6
  DEF Polling!WriteLow, Polling!Goto, PollingInv, PollingTypes, OnTime, Polls, Finishes,
      Starts
<1>7. ASSUME NEW l \in Line, Polling!WriteHigh(l) PROVE PollingInv'
  BY <1>1, <1>7
  DEF Polling!WriteHigh, Polling!tester, Polling!Goto, PollingInv, PollingTypes, OnTime, Polls,
      Finishes, Starts
<1>8. ASSUME NEW l \in Line, Polling!Check(l) PROVE PollingInv'
  BY <1>1, <1>8
  DEF Polling!Check, Polling!tester, Polling!Goto, PollingInv, PollingTypes, OnTime, Polls,
      Finishes, Starts
<1>9. ASSUME NEW l \in Line, Polling!Yield(l) PROVE PollingInv'
  BY <1>1, <1>9
  DEF Polling!Yield, Polling!tester, Polling!Goto, PollingInv, PollingTypes, OnTime, Polls,
      Finishes, Starts
<1>10. ASSUME NEW l \in Line, Polling!WaitPeriod(l) PROVE PollingInv'
  BY <1>1, <1>10
  DEF Polling!WaitPeriod, Polling!tester, Polling!Goto, PollingInv, PollingTypes, OnTime, Polls,
      Finishes, Starts
<1>11. ASSUME NEW l \in Line, Polling!Ask(l) PROVE PollingInv'
  BY <1>1, <1>11
  DEF Polling!Ask, PollingInv, PollingTypes, OnTime, Polls, Finishes, Starts
<1>12. ASSUME NEW l \in Line, Polling!Release(l) PROVE PollingInv'
  BY <1>1, <1>12
  DEF Polling!Release, PollingInv, PollingTypes, OnTime, Polls, Finishes, Starts
<1>13. ASSUME Polling!Tick PROVE PollingInv'
  <2>1. PollingTypes'
    BY <1>1, <1>13
    DEF Polling!Tick, Polling!Ready, PollingTypes, Polls, Finishes, Starts
  <2>2. ASSUME NEW l \in Line PROVE OnTime(l)'
    <3>1. /\ OnTime(l) /\ overhead[l] \in Nat /\ overhead'[l] \in Nat
          /\ waited[l] \in Nat /\ due[l] \in 0 .. TASK_PERIOD /\ left[l] \in Int
          /\ since[l] \in Int /\ at[l] \in Polls \cup Finishes \cup Starts \cup {"waiting", "deleted"}
      BY <1>1, <1>13, <2>1, <2>2 DEF PollingTypes
    <3>2. /\ overhead'[l] \in {overhead[l], overhead[l] + 1}
          /\ at[l] \in Polls \cup Finishes /\ l \in pending => overhead'[l] = overhead[l] + 1
          /\ l \notin pending => overhead'[l] = overhead[l]
      BY <1>1, <1>13, <2>2 DEF Polling!Tick, Polling!Ready, PollingTypes, Polls, Finishes
    <3>3. /\ pending' = pending /\ since' = since /\ afterPoll' = afterPoll
          /\ at'[l] = IF due[l] = 1 /\ at[l] = "waiting" THEN "poll" ELSE at[l]
          /\ due'[l] = CASE due[l] = 0 -> 0 [] due[l] = 1 -> TASK_PERIOD
                         [] OTHER -> due[l] - 1
          /\ left'[l] = IF at[l] \in {"created", "begin"} \/ left[l] < 0
                        THEN left[l] ELSE left[l] - 1
          /\ waited'[l] = IF l \in pending /\ waited[l] < Polling!MaxWait
                          THEN waited[l] + 1 ELSE waited[l]
          /\ due[l] = 1 /\ at[l] \in Finishes => l \in overrun'
          /\ l \in overrun => l \in overrun'
      BY <1>1, <1>13, <2>2 DEF Polling!Tick, PollingTypes, Finishes
    <3>4. QED
      BY <3>1, <3>2, <3>3
      DEF OnTime, Polling!MaxWait, Polls, Finishes, Starts
  <2>3. QED
    BY <2>1, <2>2 DEF PollingInv
<1>14. CASE UNCHANGED polling
  BY <1>1, <1>14 DEF polling, PollingInv, PollingTypes, OnTime
<1>15. QED
  BY <1>2, <1>3, <1>4, <1>5, <1>6, <1>7, <1>8, <1>9, <1>10, <1>11, <1>12, <1>13, <1>14
  DEF Polling!Next, Polling!Work

LEMMA PollingInTime == PollingInv => AnsweredUntilExpiry
  BY PollingAssumption
  DEF PollingInv, PollingTypes, OnTime, AnsweredUntilExpiry, Polling!AnsweredUntilExpiry,
      Polls, Finishes, Starts

-----------------------------------------------------------------------------
(* Ex1a: the busy wait *)

Timespec == [sec : Int, nsec : 0 .. Second - 1]

LEMMA Seconds ==
  ASSUME NEW n \in Int
  PROVE  /\ n \div Second \in Int /\ n % Second \in 0 .. Second - 1
         /\ (n \div Second) * Second + (n % Second) = n
  BY ClockAssumption

LEMMA MoreSeconds ==
  ASSUME NEW a \in Int, NEW b \in Int, a < b
  PROVE  a * Second + Second <= b * Second
<1>1. (b - a - 1) * Second >= 0
  BY ClockAssumption
<1>2. (b - a - 1) * Second = b * Second - a * Second - Second
  BY ClockAssumption
<1>3. a * Second \in Int /\ b * Second \in Int /\ Second \in Int
  BY ClockAssumption
<1>4. QED
  BY <1>1, <1>2, <1>3

\* timespec_normalized keeps the time, however often it carries or borrows.
LEMMA NormalizedTotal ==
  ASSUME NEW sec \in Int, NEW nsec \in Int
  PROVE  /\ Timing!Normalized(sec, nsec) \in Timespec
         /\ Timing!Total(Timing!Normalized(sec, nsec)) = sec * Second + nsec
<1>1. /\ nsec \div Second \in Int /\ nsec % Second \in 0 .. Second - 1
      /\ (nsec \div Second) * Second + (nsec % Second) = nsec
  BY Seconds
<1>2. (sec + nsec \div Second) * Second = sec * Second + (nsec \div Second) * Second
  BY <1>1, ClockAssumption
<1>3. QED
  BY <1>1, <1>2, ClockAssumption DEF Timing!Normalized, Timing!Total, Timespec

\* timespec_cmp orders times, its int being wide enough for what is left.
LEMMA CmpOrders ==
  ASSUME NEW t \in Timespec, NEW u \in Timespec
  PROVE  Timing!Cmp(t, u) < 0 <=> Timing!Total(t) < Timing!Total(u)
<1>1. /\ t.sec \in Int /\ u.sec \in Int
      /\ t.nsec \in 0 .. Second - 1 /\ u.nsec \in 0 .. Second - 1
      /\ t.sec * Second \in Int /\ u.sec * Second \in Int
  BY ClockAssumption DEF Timespec
<1>2. CASE t.sec < u.sec
  <2>1. t.sec * Second + Second <= u.sec * Second
    BY <1>1, <1>2, MoreSeconds
  <2>2. QED
    BY <1>1, <1>2, <2>1, ClockAssumption DEF Timing!Cmp, Timing!Total
<1>3. CASE u.sec < t.sec
  <2>1. u.sec * Second + Second <= t.sec * Second
    BY <1>1, <1>3, MoreSeconds
  <2>2. QED
    BY <1>1, <1>3, <2>1, ClockAssumption DEF Timing!Cmp, Timing!Total
<1>4. CASE t.sec = u.sec
  <2>1. (t.nsec - u.nsec + IntHalf) % (2 * IntHalf) = t.nsec - u.nsec + IntHalf
    <3>1. PICK n \in Int : n = t.nsec - u.nsec + IntHalf
      BY <1>1, ClockAssumption
    <3>2. 0 < n /\ n < 2 * IntHalf /\ IntHalf \in Nat
      BY <1>1, <3>1, ClockAssumption
    <3>3. n % (2 * IntHalf) = n
      BY <3>2
    <3>4. QED
      BY <3>1, <3>3
  <2>2. Timing!Cmp(t, u) = t.nsec - u.nsec
    BY <1>1, <1>4, <2>1, ClockAssumption DEF Timing!Cmp
  <2>3. QED
    BY <1>1, <1>4, <2>2, ClockAssumption DEF Timing!Total
<1>5. QED
  BY <1>1, <1>2, <1>3, <1>4

LEMMA TimeRead ==
  ASSUME clock \in Int
  PROVE  Timing!GetTime \in Timespec /\ Timing!Total(Timing!GetTime) = clock
<1>1. /\ clock \div Second \in Int /\ clock % Second \in 0 .. Second - 1
      /\ (clock \div Second) * Second + (clock % Second) = clock
  BY Seconds
<1>2. QED
  BY <1>1 DEF Timing!GetTime, Timing!Total, Timespec

\* In the loop, then is what was asked for from the beginning on, and every read
\* but the last one is before it.
TimingInv ==
  /\ clock \in Int /\ cpu \in Int /\ now \in Timespec /\ then \in Timespec
  /\ began \in Int /\ asked \in Int /\ before \in Int
  /\ doing = "loop" =>
       /\ Timing!Total(then) = began + asked
       /\ before < began + asked \/ before = began

LEMMA TimingStarts == Timing!Init => TimingInv
  BY ClockAssumption DEF Timing!Init, Timing!Zero, TimingInv, Timespec

LEMMA TimingSteps == TimingInv /\ [Timing!Next]_timing => TimingInv'
<1> SUFFICES ASSUME TimingInv, [Timing!Next]_timing PROVE TimingInv'
  OBVIOUS
<1> USE ClockAssumption
<1>1. ASSUME Timing!Begin PROVE TimingInv'
  <2>1. PICK nsec \in Garbage :
          /\ then' = Timing!Add(Timing!GetTime, [sec |-> 1, nsec |-> nsec])
          /\ asked' = Second + nsec
    BY <1>1 DEF Timing!Begin
  <2>2. /\ now' = Timing!GetTime /\ began' = clock /\ before' = clock /\ clock' = clock
        /\ cpu' = cpu
        /\ clock \in Int /\ nsec \in Int
    BY <1>1 DEF Timing!Begin, TimingInv
  <2>3. Timing!GetTime \in Timespec /\ Timing!Total(Timing!GetTime) = clock
    BY <2>2, TimeRead
  <2>4. PICK g \in Timespec : g = Timing!GetTime
    BY <2>3
  <2>5. /\ then' = Timing!Normalized(g.sec + 1, g.nsec + nsec)
        /\ g.sec \in Int /\ g.nsec \in Int /\ g.sec * Second \in Int
        /\ g.sec * Second + g.nsec = clock
    BY <2>1, <2>3, <2>4 DEF Timing!Add, Timing!Total, Timespec
  <2>6. then' \in Timespec /\ Timing!Total(then') = (g.sec + 1) * Second + (g.nsec + nsec)
    <3>1. PICK sec \in Int, n \in Int : sec = g.sec + 1 /\ n = g.nsec + nsec
      BY <2>2, <2>5
    <3>2. /\ Timing!Normalized(sec, n) \in Timespec
          /\ Timing!Total(Timing!Normalized(sec, n)) = sec * Second + n
      BY NormalizedTotal
    <3>3. QED
      BY <2>5, <3>1, <3>2
  <2>7. (g.sec + 1) * Second = g.sec * Second + Second
    BY <2>5
  <2>8. Timing!Total(then') = began' + asked'
    <3>1. (g.sec + 1) * Second + (g.nsec + nsec) = clock + (Second + nsec)
      <4>1. PICK x \in Int, n \in Int : x = g.sec * Second /\ n = g.nsec
        BY <2>5
      <4>2. x + n = clock /\ (g.sec + 1) * Second = x + Second
        BY <2>5, <2>7, <4>1
      <4>3. QED
        BY <2>2, <4>1, <4>2, ClockAssumption
    <3>2. QED
      BY <2>1, <2>2, <2>6, <3>1
  <2>9. QED
    BY <2>1, <2>2, <2>3, <2>6, <2>8 DEF TimingInv
<1>2. ASSUME Timing!Read PROVE TimingInv'
  <2>1. Timing!Total(now) < Timing!Total(then)
    BY <1>2, CmpOrders DEF Timing!Read, TimingInv
  <2>2. now' \in Timespec
    BY <1>2, TimeRead DEF Timing!Read, TimingInv
  <2>3. Timing!Total(now) \in Int
    BY DEF TimingInv, Timespec, Timing!Total
  <2>4. then' = then => Timing!Total(then') = Timing!Total(then)
    BY DEF Timing!Total
  <2>5. QED
    BY <1>2, <2>1, <2>2, <2>3, <2>4 DEF Timing!Read, TimingInv
<1>3. ASSUME Timing!Slept \/ Timing!Waited \/ Timing!Timed \/ Timing!Pass \/ UNCHANGED timing
      PROVE  TimingInv'
  <2>1. /\ now' = now /\ then' = then /\ asked' = asked /\ before' = before
        /\ clock' \in Int /\ cpu' \in Int /\ began' \in Int
        /\ doing' = "loop" => doing = "loop" /\ began' = began
    BY <1>3 DEF Timing!Slept, Timing!Waited, Timing!Timed, Timing!Pass, timing, TimingInv
  <2>2. QED
    BY <2>1 DEF TimingInv, Timing!Total
<1>4. QED
  BY <1>1, <1>2, <1>3 DEF Timing!Next

LEMMA TimingEnds ==
  ASSUME TimingInv, Timing!Waited
  PROVE  /\ Timing!Total(now) >= began + asked
         /\ before < began + asked \/ before = began
<1>1. ~(Timing!Total(now) < Timing!Total(then))
  <2>1. ~(Timing!Cmp(now, then) < 0)
    BY ClockAssumption DEF Timing!Waited, Timing!Cmp, TimingInv, Timespec
  <2>2. QED
    BY <2>1, CmpOrders DEF TimingInv
<1>2. Timing!Total(now) \in Int
  BY ClockAssumption DEF TimingInv, Timespec, Timing!Total
<1>3. QED
  BY <1>1, <1>2 DEF Timing!Waited, TimingInv

-----------------------------------------------------------------------------
(* Ex1b: the growing array *)

Stored == Value \cup {Junk}
Struct == [data : Arrays!Buffer, front : Nat, back : Nat, capacity : Nat]

\* Array a has the elements of s, in a buffer of its capacity, which any factor
\* makes longer.
Represents(mem, a, s) ==
  /\ a.front <= a.back /\ a.back <= a.capacity
  /\ a.capacity # 0 /\ \A f \in Factor : Arrays!Grown(a.capacity, f) > a.capacity
  /\ Len(mem[a.data]) = a.capacity
  /\ Len(s) = a.back - a.front
  /\ \A i \in 1 .. Len(s) : mem[a.data][a.front + i] = s[i]

\* Every buffer in use is that of a variable: there is always one left.
ArraysInv ==
  /\ array \in [Name -> Struct] /\ memory \in [Arrays!Buffer -> Seq(Stored)]
  /\ fresh \subseteq Name /\ content \in [Name -> Seq(Value)]
  /\ \A b \in Arrays!Buffer : memory[b] = <<>> \/ \E n \in fresh : array[n].data = b
  /\ \A n \in fresh : Represents(memory, array[n], content[n])

LEMMA Buffers ==
  /\ IsFiniteSet(Arrays!Buffer) /\ Cardinality(Name) < Cardinality(Arrays!Buffer)
  /\ 1 \in Arrays!Buffer
<1>1. Cardinality(Name) \in Nat
  BY ArrayAssumption, FS_CardinalityType
<1>2. PICK n \in Nat : n = Cardinality(Name)
  BY <1>1
<1>3. IsFiniteSet(1 .. n + 1) /\ Cardinality(1 .. n + 1) = n + 1
  BY FS_Interval
<1>4. Arrays!Cardinality(Name) = Cardinality(Name)
  BY DEF Arrays!Cardinality, Cardinality
<1>5. Arrays!Buffer = 1 .. n + 1
  BY <1>2, <1>4 DEF Arrays!Buffer
<1>6. QED
  BY <1>2, <1>3, <1>5

\* malloc finds a buffer.
LEMMA BufferLeft ==
  ASSUME ArraysInv
  PROVE  Arrays!Allocated \in Arrays!Buffer /\ memory[Arrays!Allocated] = <<>>
<1>1. SUFFICES ASSUME \A b \in Arrays!Buffer : memory[b] # <<>> PROVE FALSE
  BY DEF Arrays!Allocated
<1> DEFINE user == [b \in Arrays!Buffer |-> CHOOSE n \in fresh : array[n].data = b]
<1>2. \A b \in Arrays!Buffer : user[b] \in fresh /\ array[user[b]].data = b
  BY <1>1 DEF ArraysInv
<1>3. user \in [Arrays!Buffer -> Name]
  BY <1>2 DEF ArraysInv
<1> HIDE DEF user
<1>4. PICK b \in Arrays!Buffer, c \in Arrays!Buffer : b # c /\ user[b] = user[c]
  BY <1>3, Buffers, ArrayAssumption, FS_PigeonHole
<1>5. QED
  BY <1>2, <1>4

LEMMA ArraysStart == Arrays!Init => ArraysInv
  BY Buffers DEF Arrays!Init, Arrays!NoArray, ArraysInv, Struct

LEMMA AssignedTo ==
  ASSUME ArraysInv, NEW keep, keep \subseteq fresh, NEW n \in Name, NEW a \in Struct,
         NEW s \in Seq(Value), Arrays!Assign(keep, n, a, s)
  PROVE  /\ array' \in [Name -> Struct] /\ content' \in [Name -> Seq(Value)]
         /\ fresh' = keep \cup {n} /\ fresh' \subseteq Name
         /\ array'[n] = a /\ content'[n] = s
         /\ \A m \in keep \ {n} : array'[m] = array[m] /\ content'[m] = content[m]
<1>1. Arrays!NoArray \in Struct /\ <<>> \in Seq(Value)
  BY Buffers DEF Arrays!NoArray, Struct
<1>2. QED
  BY <1>1 DEF Arrays!Assign, ArraysInv

\* The arrays of keep have their elements in mem.
AllThere(mem, keep) == \A m \in keep : Represents(mem, array[m], content[m])

\* The buffers of mem in use are those of a and of the arrays of keep.
AllUsed(mem, keep, a) ==
  \A b \in Arrays!Buffer :
    mem[b] = <<>> \/ b = a.data \/ \E m \in keep : array[m].data = b

\* An assignment that keeps whose elements are where they were.
LEMMA AssignKeeps ==
  ASSUME ArraysInv, NEW keep, keep \subseteq fresh, NEW n \in Name, NEW a \in Struct,
         NEW s \in Seq(Value), Arrays!Assign(keep, n, a, s),
         memory' \in [Arrays!Buffer -> Seq(Stored)], Represents(memory', a, s),
         AllThere(memory', keep \ {n}), AllUsed(memory', keep \ {n}, a)
  PROVE  ArraysInv'
<1>1. /\ array' \in [Name -> Struct] /\ content' \in [Name -> Seq(Value)]
      /\ fresh' = keep \cup {n} /\ fresh' \subseteq Name
      /\ array'[n] = a /\ content'[n] = s
      /\ \A m \in keep \ {n} : array'[m] = array[m] /\ content'[m] = content[m]
  BY AssignedTo
<1>2. ASSUME NEW b \in Arrays!Buffer, memory'[b] # <<>>
      PROVE  \E m \in fresh' : array'[m].data = b
  BY <1>1, <1>2 DEF AllUsed
<1>3. ASSUME NEW m \in fresh' PROVE Represents(memory', array'[m], content'[m])
  BY <1>1, <1>3 DEF AllThere
<1>4. QED
  BY <1>1, <1>2, <1>3 DEF ArraysInv

LEMMA NewStep ==
  ASSUME ArraysInv, NEW n \in Name, NEW c \in Capacity, Arrays!New(n, c)
  PROVE  ArraysInv'
<1>1. PICK b \in Arrays!Buffer : b = Arrays!Allocated /\ memory[b] = <<>>
  BY BufferLeft
<1>2. c \in Nat \ {0} /\ \A f \in Factor : Arrays!Grown(c, f) > c
  BY ArrayAssumption DEF Arrays!Grown
<1>3. PICK room \in Seq(Stored) : room = [i \in 1 .. c |-> Junk] /\ Len(room) = c
  <2>1. [i \in 1 .. c |-> Junk] \in Seq(Stored) /\ Len([i \in 1 .. c |-> Junk]) = c
    BY <1>2 DEF Stored
  <2>2. QED
    BY <2>1
<1>4. PICK a \in Struct : a = [data |-> b, front |-> 0, back |-> 0, capacity |-> c]
  BY <1>2 DEF Struct
<1>5. Arrays!Assign(fresh, n, a, <<>>) /\ memory' = [memory EXCEPT ![b] = room]
  BY <1>1, <1>3, <1>4 DEF Arrays!New
<1>6. /\ memory' \in [Arrays!Buffer -> Seq(Stored)] /\ memory'[b] = room
      /\ \A d \in Arrays!Buffer \ {b} : memory'[d] = memory[d]
  BY <1>5 DEF ArraysInv
<1>7. Represents(memory', a, <<>>)
  BY <1>2, <1>3, <1>4, <1>6 DEF Represents
<1>8. ASSUME NEW m \in fresh PROVE Represents(memory', array[m], content[m])
  <2>1. Represents(memory, array[m], content[m]) /\ array[m].data \in Arrays!Buffer
        /\ array[m].capacity \in Nat /\ memory[array[m].data] # <<>>
    BY DEF ArraysInv, Struct, Represents
  <2>2. memory'[array[m].data] = memory[array[m].data]
    BY <1>1, <1>6, <2>1
  <2>3. QED
    BY <2>1, <2>2 DEF Represents
<1>9. ASSUME NEW d \in Arrays!Buffer, memory'[d] # <<>>, d # a.data
      PROVE  \E m \in fresh \ {n} : array[m].data = d
  <2>1. memory[d] # <<>>
    BY <1>4, <1>6, <1>9
  <2>2. QED
    BY <2>1 DEF ArraysInv, Arrays!New
<1>10. PICK keep : keep = fresh /\ keep \subseteq fresh
  OBVIOUS
<1>11. PICK s \in Seq(Value) : s = <<>>
  BY EmptySeq
<1>12. /\ Arrays!Assign(keep, n, a, s) /\ Represents(memory', a, s)
       /\ AllThere(memory', keep \ {n}) /\ AllUsed(memory', keep \ {n}, a)
  BY <1>5, <1>7, <1>8, <1>9, <1>10, <1>11, Zenon DEF AllThere, AllUsed
<1>13. QED
  BY <1>6, <1>10, <1>12, AssignKeeps

LEMMA Here ==
  ASSUME ArraysInv, NEW n \in fresh
  PROVE  /\ n \in Name /\ array[n] \in Struct /\ content[n] \in Seq(Value)
         /\ Represents(memory, array[n], content[n])
         /\ array[n].data \in Arrays!Buffer /\ memory[array[n].data] # <<>>
         /\ memory[array[n].data] \in Seq(Stored)
<1>1. /\ n \in Name /\ array[n] \in Struct /\ content[n] \in Seq(Value)
      /\ Represents(memory, array[n], content[n])
  BY DEF ArraysInv
<1>2. array[n].data \in Arrays!Buffer /\ Len(memory[array[n].data]) # 0
  BY <1>1 DEF Struct, Represents
<1>3. QED
  BY <1>1, <1>2 DEF ArraysInv

LEMMA SaveStep ==
  ASSUME ArraysInv, NEW n \in Name, NEW m \in Name, Arrays!Save(n, m)
  PROVE  ArraysInv'
<1>1. n \in fresh /\ m \notin fresh /\ memory' = memory
  BY DEF Arrays!Save
<1>2. PICK a \in Struct, s \in Seq(Value) :
        a = array[n] /\ s = content[n] /\ Represents(memory, a, s)
  BY <1>1, Here
<1>3. PICK keep : keep = fresh /\ keep \subseteq fresh /\ Arrays!Assign(keep, m, a, s)
  BY <1>2, Zenon DEF Arrays!Save
<1>4. /\ memory' \in [Arrays!Buffer -> Seq(Stored)] /\ Represents(memory', a, s)
      /\ AllThere(memory', keep \ {m}) /\ AllUsed(memory', keep \ {m}, a)
  BY <1>1, <1>2, <1>3, Zenon DEF ArraysInv, AllThere, AllUsed
<1>5. QED
  BY <1>2, <1>3, <1>4, AssignKeeps

LEMMA DestroyStep ==
  ASSUME ArraysInv, NEW n \in Name, Arrays!Destroy(n)
  PROVE  ArraysInv'
<1>1. n \in fresh /\ array[n].data \in Arrays!Buffer
  BY Here DEF Arrays!Destroy
<1>2. PICK b \in Arrays!Buffer : b = array[n].data
  BY <1>1
<1> DEFINE given == Arrays!Sharing(n)
<1>3. /\ memory' = [memory EXCEPT ![b] = <<>>] /\ fresh' = fresh \ given
      /\ \A m \in Name \ given : array'[m] = array[m] /\ content'[m] = content[m]
  BY <1>2 DEF Arrays!Destroy, Arrays!GiveUp
<1>4. /\ array' \in [Name -> Struct] /\ content' \in [Name -> Seq(Value)]
      /\ memory' \in [Arrays!Buffer -> Seq(Stored)] /\ fresh' \subseteq Name
  <2>1. Arrays!NoArray \in Struct /\ <<>> \in Seq(Value) /\ <<>> \in Seq(Stored)
    BY Buffers DEF Arrays!NoArray, Struct
  <2>2. QED
    BY <1>2, <1>3, <2>1 DEF Arrays!Destroy, Arrays!GiveUp, ArraysInv
<1>5. \A m \in fresh : m \in given <=> array[m].data = b
  BY <1>2 DEF Arrays!Sharing
<1> HIDE DEF given
<1>6. ASSUME NEW d \in Arrays!Buffer, memory'[d] # <<>>
      PROVE  \E m \in fresh' : array'[m].data = d
  <2>1. d # b /\ memory[d] # <<>>
    BY <1>2, <1>3, <1>6 DEF ArraysInv
  <2>2. PICK m \in fresh : array[m].data = d
    BY <2>1 DEF ArraysInv
  <2>3. QED
    BY <1>3, <1>5, <2>1, <2>2 DEF ArraysInv
<1>7. ASSUME NEW m \in fresh' PROVE Represents(memory', array'[m], content'[m])
  <2>1. m \in fresh /\ m \notin given /\ array[m].data # b
    BY <1>3, <1>5, <1>7
  <2>2. /\ Represents(memory, array[m], content[m]) /\ array[m].data \in Arrays!Buffer
        /\ m \in Name
    BY <2>1, Here
  <2>3. /\ array'[m] = array[m] /\ content'[m] = content[m]
        /\ memory'[array[m].data] = memory[array[m].data]
    BY <1>3, <2>1, <2>2 DEF ArraysInv
  <2>4. QED
    BY <2>2, <2>3 DEF Represents
<1>8. QED
  BY <1>4, <1>6, <1>7 DEF ArraysInv

\* What becomes of a struct.
LEMMA PoppedFront ==
  ASSUME NEW a \in Struct
  PROVE  LET b == Arrays!WithoutFront(a)
         IN  /\ b \in Struct /\ b.data = a.data /\ b.front = a.front + 1
             /\ b.back = a.back /\ b.capacity = a.capacity
  BY DEF Arrays!WithoutFront, Struct

LEMMA PoppedBack ==
  ASSUME NEW a \in Struct, a.back > 0
  PROVE  LET b == Arrays!WithoutBack(a)
         IN  /\ b \in Struct /\ b.data = a.data /\ b.front = a.front
             /\ b.back = a.back - 1 /\ b.capacity = a.capacity
  BY DEF Arrays!WithoutBack, Struct

LEMMA Lengthened ==
  ASSUME NEW a \in Struct
  PROVE  LET b == Arrays!Longer(a)
         IN  /\ b \in Struct /\ b.data = a.data /\ b.front = a.front
             /\ b.back = a.back + 1 /\ b.capacity = a.capacity
  BY DEF Arrays!Longer, Struct

LEMMA Rehoused ==
  ASSUME ArraysInv, NEW a \in Struct, NEW c \in Nat
  PROVE  LET b == Arrays!InNewBuffer(a, c)
         IN  /\ b \in Struct /\ b.data = Arrays!Allocated /\ b.front = a.front
             /\ b.back = a.back /\ b.capacity = c
  BY BufferLeft DEF Arrays!InNewBuffer, Struct

\* A change of n that leaves memory alone, and n in its buffer.
LEMMA SameMemory ==
  ASSUME ArraysInv, NEW n \in fresh, NEW a \in Struct, NEW s \in Seq(Value),
         Arrays!Assign(fresh, n, a, s), memory' = memory,
         a.data = array[n].data, Represents(memory, a, s)
  PROVE  ArraysInv'
<1>1. PICK keep : keep = fresh /\ keep \subseteq fresh
  OBVIOUS
<1>2. n \in Name /\ Arrays!Assign(keep, n, a, s)
  BY <1>1, Zenon DEF ArraysInv
<1>3. /\ memory' \in [Arrays!Buffer -> Seq(Stored)] /\ Represents(memory', a, s)
      /\ AllThere(memory', keep \ {n}) /\ AllUsed(memory', keep \ {n}, a)
  BY <1>1, Zenon DEF ArraysInv, AllThere, AllUsed
<1>4. QED
  BY <1>1, <1>2, <1>3, AssignKeeps

LEMMA PopFrontStep ==
  ASSUME ArraysInv, NEW n \in Name, Arrays!PopFront(n)
  PROVE  ArraysInv'
<1>1. n \in fresh
  BY DEF Arrays!PopFront
<1>2. PICK a \in Struct : a = array[n]
  BY <1>1, Here
<1>3. PICK s \in Seq(Value) : s = content[n] /\ Represents(memory, a, s)
  BY <1>1, <1>2, Here
<1>4. a.front \in Nat /\ a.back \in Nat /\ a.capacity \in Nat /\ a.front < a.back
  BY <1>2 DEF Arrays!PopFront, Arrays!Empty, Struct
<1>5. PICK b \in Struct :
        /\ b = Arrays!WithoutFront(a) /\ b.data = a.data /\ b.front = a.front + 1
        /\ b.back = a.back /\ b.capacity = a.capacity
  BY PoppedFront
<1>6. Len(s) = a.back - a.front /\ s # <<>>
  BY <1>3, <1>4 DEF Represents
<1>7. PICK r \in Seq(Value) : r = Tail(s) /\ Len(r) = Len(s) - 1
                              /\ \A i \in 1 .. Len(r) : r[i] = s[i + 1]
  BY <1>6, HeadTailProperties
<1>8. \A i \in 1 .. Len(r) : memory[b.data][b.front + i] = r[i]
  <2>1. TAKE i \in 1 .. Len(r)
  <2>2. i \in Nat /\ i + 1 \in 1 .. Len(s)
    <3>1. Len(s) \in Nat /\ Len(r) = Len(s) - 1
      BY <1>7
    <3>2. QED
      BY <3>1
  <2>3. b.front + i = a.front + (i + 1)
    <3>1. b.front = a.front + 1 /\ a.front \in Nat
      BY <1>4, <1>5
    <3>2. QED
      BY <2>2, <3>1
  <2>4. QED
    BY <1>3, <1>5, <1>7, <2>2, <2>3 DEF Represents
<1>9. Represents(memory, b, r)
  BY <1>3, <1>4, <1>5, <1>6, <1>7, <1>8 DEF Represents
<1>10. Arrays!Assign(fresh, n, b, r) /\ memory' = memory
  BY <1>2, <1>3, <1>5, <1>7, Zenon DEF Arrays!PopFront
<1>11. QED
  BY <1>1, <1>2, <1>5, <1>9, <1>10, SameMemory

LEMMA PopBackStep ==
  ASSUME ArraysInv, NEW n \in Name, Arrays!PopBack(n)
  PROVE  ArraysInv'
<1>1. n \in fresh
  BY DEF Arrays!PopBack
<1>2. PICK a \in Struct : a = array[n]
  BY <1>1, Here
<1>3. PICK s \in Seq(Value) : s = content[n] /\ Represents(memory, a, s)
  BY <1>1, <1>2, Here
<1>4. a.front \in Nat /\ a.back \in Nat /\ a.capacity \in Nat /\ a.front < a.back
  BY <1>2 DEF Arrays!PopBack, Arrays!Empty, Struct
<1>5. PICK b \in Struct :
        /\ b = Arrays!WithoutBack(a) /\ b.data = a.data /\ b.front = a.front
        /\ b.back = a.back - 1 /\ b.capacity = a.capacity
  BY <1>4, PoppedBack
<1>6. Len(s) = a.back - a.front /\ Len(s) > 0
  BY <1>3, <1>4 DEF Represents
<1>7. PICK r \in Seq(Value) : r = Arrays!Front(s) /\ Len(r) = Len(s) - 1
                              /\ \A i \in 1 .. Len(r) : r[i] = s[i]
  <2>1. /\ SubSeq(s, 1, Len(s) - 1) \in Seq(Value)
        /\ Len(SubSeq(s, 1, Len(s) - 1)) = Len(s) - 1
        /\ \A i \in 1 .. Len(s) - 1 : SubSeq(s, 1, Len(s) - 1)[i] = s[i]
    BY <1>6
  <2>2. QED
    BY <2>1 DEF Arrays!Front
<1>8. \A i \in 1 .. Len(r) : memory[b.data][b.front + i] = r[i]
  BY <1>3, <1>5, <1>6, <1>7 DEF Represents
<1>9. Represents(memory, b, r)
  BY <1>3, <1>4, <1>5, <1>6, <1>7, <1>8 DEF Represents
<1>10. Arrays!Assign(fresh, n, b, r) /\ memory' = memory
  BY <1>2, <1>3, <1>5, <1>7, Zenon DEF Arrays!PopBack
<1>11. QED
  BY <1>1, <1>2, <1>5, <1>9, <1>10, SameMemory

LEMMA GrownGrows ==
  ASSUME NEW c \in Nat \ {0}, NEW d \in Nat, d >= c, NEW f \in Nat, Arrays!Grown(c, f) > c
  PROVE  Arrays!Grown(d, f) > d
<1>1. (c * f) \div 2 > c
  BY DEF Arrays!Grown
<1>2. f > 2
  <2>1. f = 0 \/ f = 1 \/ f = 2 \/ f > 2
    OBVIOUS
  <2>2. QED
    BY <1>1, <2>1
<1>3. CASE f = 3
  BY <1>1, <1>3 DEF Arrays!Grown
<1>4. CASE f > 3
  <2>1. d * f >= d * 4
    BY <1>4
  <2>2. d * f \in Nat
    OBVIOUS
  <2>3. QED
    BY <2>1, <2>2 DEF Arrays!Grown
<1>5. QED
  BY <1>2, <1>3, <1>4

\* Nobody is in the buffer that malloc hands out.
LEMMA AllocatedApart ==
  ASSUME ArraysInv, NEW m \in fresh
  PROVE  array[m].data # Arrays!Allocated
  BY Here, BufferLeft

\* The arrays of keep and the buffers do not notice what is done elsewhere.
LEMMA Elsewhere ==
  ASSUME ArraysInv, NEW mem, NEW b \in Arrays!Buffer, NEW n \in fresh, NEW keep,
         keep = fresh \ Arrays!Sharing(n),
         \A d \in Arrays!Buffer \ {b, array[n].data} : mem[d] = memory[d],
         \A m \in keep : array[m].data # b,
         mem[array[n].data] = <<>> \/ b = array[n].data
  PROVE  /\ AllThere(mem, keep)
         /\ \A d \in Arrays!Buffer :
              mem[d] = <<>> \/ d = b \/ \E m \in keep : array[m].data = d
<1>1. \A m \in fresh : m \in keep <=> array[m].data # array[n].data
  BY DEF Arrays!Sharing
<1>2. ASSUME NEW m \in keep PROVE Represents(mem, array[m], content[m])
  <2>1. m \in fresh /\ array[m].data # array[n].data /\ array[m].data # b
    BY <1>1
  <2>2. Represents(memory, array[m], content[m]) /\ array[m].data \in Arrays!Buffer
    BY <2>1, Here
  <2>3. mem[array[m].data] = memory[array[m].data]
    BY <2>1, <2>2
  <2>4. QED
    BY <2>2, <2>3 DEF Represents
<1>3. ASSUME NEW d \in Arrays!Buffer, mem[d] # <<>>, d # b
      PROVE  \E m \in keep : array[m].data = d
  <2>1. d # array[n].data
    BY <1>3
  <2>2. memory[d] # <<>>
    BY <1>3, <2>1
  <2>3. PICK m \in fresh : array[m].data = d
    BY <2>2 DEF ArraysInv
  <2>4. QED
    BY <1>1, <2>1, <2>3
<1>4. QED
  BY <1>2, <1>3 DEF AllThere

\* What a move leaves.
LEMMA MovedTo ==
  ASSUME ArraysInv, NEW n \in fresh, NEW c \in Nat, c >= array[n].capacity
  PROVE  LET mem == Arrays!Moved(array[n], c)
             b == Arrays!Allocated
         IN  /\ mem \in [Arrays!Buffer -> Seq(Stored)] /\ Len(mem[b]) = c
             /\ mem[array[n].data] = <<>>
             /\ \A i \in 1 .. array[n].capacity : mem[b][i] = memory[array[n].data][i]
             /\ \A d \in Arrays!Buffer \ {b, array[n].data} : mem[d] = memory[d]
<1> DEFINE mem == Arrays!Moved(array[n], c)
<1>1. PICK a \in Struct : a = array[n]
  BY Here
<1>2. PICK old \in Seq(Stored) : old = memory[a.data] /\ Len(old) = a.capacity
  BY <1>1, Here DEF Represents
<1>3. a.capacity \in Nat /\ a.data \in Arrays!Buffer
  BY DEF Struct
<1>4. \A i \in 1 .. a.capacity : old[i] \in Stored
  BY <1>2, <1>3
<1>5. Arrays!Copy(a, c) = [i \in 1 .. c |-> IF i <= a.capacity THEN old[i] ELSE Junk]
  BY <1>2 DEF Arrays!Copy
<1>6. PICK new \in Seq(Stored) : /\ new = Arrays!Copy(a, c) /\ Len(new) = c
                                 /\ \A i \in 1 .. a.capacity : new[i] = old[i]
  <2>1. \A i \in 1 .. c : (IF i <= a.capacity THEN old[i] ELSE Junk) \in Stored
    BY <1>3, <1>4 DEF Stored
  <2>2. Arrays!Copy(a, c) \in [1 .. c -> Stored]
    BY <1>5, <2>1
  <2>3. \A i \in 1 .. a.capacity : Arrays!Copy(a, c)[i] = old[i]
    BY <1>1, <1>3, <1>5
  <2>4. PICK f \in [1 .. c -> Stored] : f = Arrays!Copy(a, c)
    BY <2>2
  <2>5. f \in Seq(Stored) /\ Len(f) = c
    OBVIOUS
  <2>6. QED
    BY <2>3, <2>4, <2>5
<1>7. PICK b \in Arrays!Buffer : b = Arrays!Allocated /\ b # a.data
  BY <1>1, BufferLeft, AllocatedApart
<1>8. mem = [memory EXCEPT ![b] = new, ![a.data] = <<>>]
  BY <1>1, <1>6, <1>7, Zenon DEF Arrays!Moved
<1>9. memory \in [Arrays!Buffer -> Seq(Stored)] /\ <<>> \in Seq(Stored)
  BY DEF ArraysInv
<1> HIDE DEF mem
<1>10. /\ mem \in [Arrays!Buffer -> Seq(Stored)] /\ mem[b] = new /\ mem[a.data] = <<>>
       /\ \A d \in Arrays!Buffer \ {b, a.data} : mem[d] = memory[d]
  BY <1>3, <1>7, <1>8, <1>9
<1>11. QED
  BY <1>1, <1>2, <1>6, <1>7, <1>10 DEF mem

LEMMA MovedRepresents ==
  ASSUME ArraysInv, NEW n \in fresh, NEW c \in Nat, c >= array[n].capacity,
         \A f \in Factor : Arrays!Grown(c, f) > c
  PROVE  Represents(Arrays!Moved(array[n], c), Arrays!InNewBuffer(array[n], c), content[n])
<1>1. PICK a \in Struct : a = array[n]
  BY Here
<1>2. PICK s \in Seq(Value) : s = content[n] /\ Represents(memory, a, s)
  BY <1>1, Here
<1>3. PICK b \in Struct :
        /\ b = Arrays!InNewBuffer(a, c) /\ b.data = Arrays!Allocated
        /\ b.front = a.front /\ b.back = a.back /\ b.capacity = c
  BY Rehoused
<1>4. PICK mem : mem = Arrays!Moved(a, c)
  OBVIOUS
<1>5. /\ Len(mem[b.data]) = c
      /\ \A i \in 1 .. a.capacity : mem[b.data][i] = memory[a.data][i]
  BY <1>1, <1>3, <1>4, MovedTo
<1>6. a.front \in Nat /\ a.back \in Nat /\ a.capacity \in Nat
  BY DEF Struct
<1>7. /\ a.front <= a.back /\ a.back <= a.capacity /\ a.capacity # 0
      /\ Len(s) = a.back - a.front
      /\ \A i \in 1 .. Len(s) : memory[a.data][a.front + i] = s[i]
  BY <1>2 DEF Represents
<1>8. ASSUME NEW i \in 1 .. Len(s) PROVE mem[b.data][b.front + i] = s[i]
  <2>1. a.front + i \in 1 .. a.capacity
    BY <1>6, <1>7
  <2>2. QED
    BY <1>3, <1>5, <1>7, <2>1
<1>9. Represents(mem, b, s)
  BY <1>1, <1>3, <1>5, <1>6, <1>7, <1>8 DEF Represents
<1>10. QED
  BY <1>1, <1>2, <1>3, <1>4, <1>9

LEMMA ReserveStep ==
  ASSUME ArraysInv, NEW n \in Name, NEW c \in Capacity, Arrays!Reserve(n, c)
  PROVE  ArraysInv'
<1>1. n \in fresh /\ c \in Nat /\ c >= array[n].capacity
  BY ArrayAssumption DEF Arrays!Reserve
<1>2. PICK a \in Struct : a = Arrays!InNewBuffer(array[n], c) /\ a.data = Arrays!Allocated
  BY <1>1, Here, Rehoused
<1>3. PICK keep : keep = fresh \ Arrays!Sharing(n)
  OBVIOUS
<1>4. PICK s \in Seq(Value) : s = content[n]
  BY <1>1, Here
<1>5. memory' = Arrays!Moved(array[n], c) /\ Arrays!Assign(keep, n, a, s)
  BY <1>2, <1>3, <1>4, Zenon DEF Arrays!Reserve
<1>6. Represents(memory', a, s)
  <2>1. \A f \in Factor : Arrays!Grown(c, f) > c
    BY ArrayAssumption DEF Arrays!Grown
  <2>2. QED
    BY <1>1, <1>2, <1>4, <1>5, <2>1, MovedRepresents
<1>7. /\ memory' \in [Arrays!Buffer -> Seq(Stored)] /\ memory'[array[n].data] = <<>>
      /\ \A d \in Arrays!Buffer \ {a.data, array[n].data} : memory'[d] = memory[d]
  BY <1>1, <1>2, <1>5, MovedTo
<1>8. n \notin keep /\ keep \subseteq fresh /\ \A m \in keep : array[m].data # a.data
  BY <1>1, <1>2, <1>3, AllocatedApart DEF Arrays!Sharing
<1>9. AllThere(memory', keep) /\ AllUsed(memory', keep, a)
  <2>1. PICK b \in Arrays!Buffer : b = a.data
    BY DEF Struct
  <2>2. /\ AllThere(memory', keep)
        /\ \A d \in Arrays!Buffer :
             memory'[d] = <<>> \/ d = b \/ \E m \in keep : array[m].data = d
    <3>1. \A d \in Arrays!Buffer \ {b, array[n].data} : memory'[d] = memory[d]
      BY <1>7, <2>1
    <3>2. \A m \in keep : array[m].data # b
      BY <1>8, <2>1
    <3>3. n \in fresh /\ memory'[array[n].data] = <<>>
      BY <1>1, <1>7
    <3>4. QED
      BY <1>3, <3>1, <3>2, <3>3, Elsewhere
  <2>3. QED
    BY <2>1, <2>2 DEF AllUsed
<1>10. keep \ {n} = keep
  BY <1>8
<1>11. QED
  BY <1>5, <1>6, <1>7, <1>8, <1>9, <1>10, AssignKeeps

\* A store at the back.
LEMMA StoreAtBack ==
  ASSUME NEW mem \in [Arrays!Buffer -> Seq(Stored)], NEW a \in Struct,
         NEW s \in Seq(Value), NEW v \in Value,
         Represents(mem, a, s), a.back < a.capacity
  PROVE  LET new == Arrays!Stored(mem, a, v)
         IN  /\ new \in [Arrays!Buffer -> Seq(Stored)]
             /\ Represents(new, Arrays!Longer(a), Append(s, v))
             /\ \A d \in Arrays!Buffer \ {a.data} : new[d] = mem[d]
             /\ Len(new[a.data]) = Len(mem[a.data])
             /\ \A i \in 1 .. a.back : new[a.data][i] = mem[a.data][i]
<1>1. a.data \in Arrays!Buffer /\ a.front \in Nat /\ a.back \in Nat /\ a.capacity \in Nat
  BY DEF Struct
<1>2. PICK old \in Seq(Stored) : old = mem[a.data] /\ Len(old) = a.capacity
  BY <1>1 DEF Represents
<1>3. PICK new : new = Arrays!Stored(mem, a, v)
  OBVIOUS
<1>4. new = [mem EXCEPT ![a.data] = [old EXCEPT ![a.back + 1] = v]]
  BY <1>2, <1>3 DEF Arrays!Stored
<1>5. PICK room \in Seq(Stored) :
        /\ room = [old EXCEPT ![a.back + 1] = v] /\ Len(room) = a.capacity
        /\ room[a.back + 1] = v /\ \A i \in 1 .. a.back : room[i] = old[i]
  <2>1. a.back + 1 \in 1 .. Len(old) /\ v \in Stored
    BY <1>1, <1>2 DEF Stored
  <2>2. PICK i \in 1 .. Len(old) : i = a.back + 1
    BY <2>1
  <2>3. PICK room \in Seq(Stored) : room = [old EXCEPT ![i] = v]
    BY <2>1, <2>2, ExceptSeq
  <2>4. /\ Len(room) = Len(old) /\ room[i] = v
        /\ \A j \in 1 .. Len(old) : j # i => room[j] = old[j]
    BY <2>1, <2>2, <2>3, ExceptSeq
  <2>5. \A j \in 1 .. a.back : j \in 1 .. Len(old) /\ j # i
    BY <1>1, <1>2, <2>1, <2>2
  <2>6. QED
    BY <1>2, <2>2, <2>3, <2>4, <2>5, ZenonT(60)
<1>6. /\ new \in [Arrays!Buffer -> Seq(Stored)] /\ new[a.data] = room
      /\ \A d \in Arrays!Buffer \ {a.data} : new[d] = mem[d]
  BY <1>1, <1>4, <1>5
<1>7. PICK b \in Struct :
        /\ b = Arrays!Longer(a) /\ b.data = a.data /\ b.front = a.front
        /\ b.back = a.back + 1 /\ b.capacity = a.capacity
  BY Lengthened
<1>8. /\ a.front <= a.back /\ a.capacity # 0 /\ Len(s) = a.back - a.front
      /\ \A f \in Factor : Arrays!Grown(a.capacity, f) > a.capacity
      /\ \A i \in 1 .. Len(s) : old[a.front + i] = s[i]
  BY <1>2 DEF Represents
<1>9. PICK t \in Seq(Value) : /\ t = Append(s, v) /\ Len(t) = Len(s) + 1
                              /\ t[Len(s) + 1] = v /\ \A i \in 1 .. Len(s) : t[i] = s[i]
  <2>1. PICK t \in Seq(Value) : t = Append(s, v)
    BY AppendProperties
  <2>2. /\ Len(t) = Len(s) + 1 /\ t[Len(s) + 1] = v
        /\ \A i \in 1 .. Len(s) : t[i] = s[i]
    BY <2>1, AppendProperties
  <2>3. QED
    BY <2>1, <2>2
<1>10. ASSUME NEW i \in 1 .. Len(t) PROVE room[a.front + i] = t[i]
  <2>1. CASE i = Len(s) + 1
    <3>1. a.front + i = a.back + 1
      BY <1>1, <1>8, <2>1
    <3>2. QED
      BY <1>5, <1>9, <2>1, <3>1
  <2>2. CASE i # Len(s) + 1
    <3>1. i \in 1 .. Len(s) /\ a.front + i \in 1 .. a.back
      BY <1>1, <1>8, <1>9, <2>2, SMTT(60)
    <3>2. QED
      BY <1>5, <1>8, <1>9, <3>1
  <2>3. QED
    BY <2>1, <2>2
<1>11. Represents(new, b, t)
  <2>1. new[b.data] = room
    BY <1>6, <1>7
  <2>2. /\ b.front <= b.back /\ b.back <= b.capacity /\ Len(t) = b.back - b.front
        /\ Len(room) = b.capacity /\ \A i \in 1 .. Len(t) : room[b.front + i] = t[i]
    BY <1>1, <1>5, <1>7, <1>8, <1>9, <1>10
  <2>3. QED
    BY <1>7, <1>8, <2>1, <2>2 DEF Represents
<1>12. QED
  BY <1>2, <1>3, <1>5, <1>6, <1>7, <1>9, <1>11

LEMMA InsertInPlaceStep ==
  ASSUME ArraysInv, NEW n \in Name, NEW v \in Value, Arrays!InsertInPlace(n, v)
  PROVE  ArraysInv'
<1>1. n \in fresh
  BY DEF Arrays!InsertInPlace
<1>2. PICK a \in Struct : a = array[n]
  BY <1>1, Here
<1>3. PICK s \in Seq(Value) : s = content[n] /\ Represents(memory, a, s)
  BY <1>1, <1>2, Here
<1>4. /\ a.data \in Arrays!Buffer /\ a.back \in Nat /\ a.back < a.capacity
      /\ memory \in [Arrays!Buffer -> Seq(Stored)]
  BY <1>2 DEF Arrays!InsertInPlace, Struct, ArraysInv
<1>5. PICK keep : keep = fresh \ {m \in Arrays!Sharing(n) : array[m].back > a.back}
  OBVIOUS
<1>6. PICK b \in Struct : b = Arrays!Longer(a) /\ b.data = a.data
  BY Lengthened
<1>7. PICK t \in Seq(Value) : t = Append(s, v)
  BY AppendProperties
<1>8. Arrays!Assign(keep, n, b, t) /\ memory' = Arrays!Stored(memory, a, v)
  BY <1>2, <1>3, <1>5, <1>6, <1>7, Zenon DEF Arrays!InsertInPlace
<1>9. /\ memory' \in [Arrays!Buffer -> Seq(Stored)] /\ Represents(memory', b, t)
      /\ \A d \in Arrays!Buffer \ {a.data} : memory'[d] = memory[d]
      /\ Len(memory'[a.data]) = Len(memory[a.data])
      /\ \A i \in 1 .. a.back : memory'[a.data][i] = memory[a.data][i]
  BY <1>3, <1>4, <1>6, <1>7, <1>8, StoreAtBack
<1>10. /\ keep \subseteq fresh
       /\ \A m \in fresh : m \in keep <=> array[m].data # a.data \/ ~(array[m].back > a.back)
  BY <1>2, <1>5 DEF Arrays!Sharing
<1>11. ASSUME NEW m \in keep \ {n} PROVE Represents(memory', array[m], content[m])
  <2>1. PICK o \in Struct : o = array[m]
    BY <1>10, Here
  <2>2. PICK u \in Seq(Value) : u = content[m] /\ Represents(memory, o, u)
    BY <1>10, <2>1, Here
  <2>3. o.data \in Arrays!Buffer /\ o.front \in Nat /\ o.back \in Nat
    BY DEF Struct
  <2>4. CASE o.data # a.data
    <3>1. memory'[o.data] = memory[o.data]
      BY <1>9, <2>3, <2>4
    <3>2. QED
      BY <2>1, <2>2, <3>1 DEF Represents
  <2>5. CASE o.data = a.data
    <3>1. o.back <= a.back
      BY <1>4, <1>10, <2>1, <2>3, <2>5
    <3>2. ASSUME NEW i \in 1 .. Len(u) PROVE memory'[o.data][o.front + i] = u[i]
      <4>1. o.front + i \in 1 .. a.back /\ memory[o.data][o.front + i] = u[i]
        <5>1. o.front + i \in 1 .. o.back
          BY <1>4, <2>2, <2>3 DEF Represents
        <5>2. o.front + i \in 1 .. a.back
          BY <1>4, <2>3, <3>1, <5>1
        <5>3. memory[o.data][o.front + i] = u[i]
          BY <2>2 DEF Represents
        <5>4. QED
          BY <5>2, <5>3
      <4>2. QED
        BY <1>9, <2>5, <4>1
    <3>3. Len(memory'[o.data]) = Len(memory[o.data])
      BY <1>9, <2>5
    <3>4. QED
      BY <2>1, <2>2, <3>2, <3>3 DEF Represents
  <2>6. QED
    BY <2>4, <2>5
<1>12. ASSUME NEW d \in Arrays!Buffer, memory'[d] # <<>>, d # b.data
       PROVE  \E m \in keep \ {n} : array[m].data = d
  <2>1. memory[d] # <<>> /\ d # a.data
    BY <1>6, <1>9, <1>12
  <2>2. PICK m \in fresh : array[m].data = d
    BY <2>1 DEF ArraysInv
  <2>3. m \in keep \ {n}
    BY <1>2, <1>10, <2>1, <2>2
  <2>4. QED
    BY <2>2, <2>3
<1>13. AllThere(memory', keep \ {n}) /\ AllUsed(memory', keep \ {n}, b)
  BY <1>11, <1>12 DEF AllThere, AllUsed
<1>14. QED
  BY <1>8, <1>9, <1>10, <1>13, AssignKeeps

LEMMA InsertGrownStep ==
  ASSUME ArraysInv, NEW n \in Name, NEW v \in Value, NEW f \in Factor,
         Arrays!InsertGrown(n, v, f)
  PROVE  ArraysInv'
<1>1. n \in fresh
  BY DEF Arrays!InsertGrown
<1>2. PICK old \in Struct : old = array[n]
  BY <1>1, Here
<1>3. PICK s \in Seq(Value) : s = content[n] /\ Represents(memory, old, s)
  BY <1>1, <1>2, Here
<1>4. PICK c : c = Arrays!Grown(old.capacity, f)
  OBVIOUS
<1>5. old.capacity \in Nat /\ old.back \in Nat /\ old.capacity # 0
  BY <1>3 DEF Struct, Represents
<1>6. c \in Nat /\ c > old.capacity
  <2>1. f \in Nat
    BY ArrayAssumption
  <2>2. old.capacity * f \in Nat
    BY <1>5, <2>1
  <2>3. Arrays!Grown(old.capacity, f) \in Nat
    BY <2>2 DEF Arrays!Grown
  <2>4. QED
    BY <1>3, <1>4, <2>3 DEF Represents
<1>7. \A g \in Factor : Arrays!Grown(c, g) > c
  <2>1. TAKE g \in Factor
  <2>2. g \in Nat /\ Arrays!Grown(old.capacity, g) > old.capacity
    BY <1>3, ArrayAssumption DEF Represents
  <2>3. QED
    BY <1>5, <1>6, <2>2, GrownGrows
<1>8. PICK a \in Struct : /\ a = Arrays!InNewBuffer(old, c) /\ a.data = Arrays!Allocated
                          /\ a.back = old.back /\ a.capacity = c
  BY <1>6, Rehoused
<1>9. PICK mem : mem = Arrays!Moved(old, c)
  OBVIOUS
<1>10. /\ mem \in [Arrays!Buffer -> Seq(Stored)] /\ mem[old.data] = <<>>
       /\ \A d \in Arrays!Buffer \ {a.data, old.data} : mem[d] = memory[d]
  BY <1>1, <1>2, <1>5, <1>6, <1>8, <1>9, MovedTo
<1>11. Represents(mem, a, s)
  BY <1>1, <1>2, <1>3, <1>5, <1>6, <1>7, <1>8, <1>9, MovedRepresents
<1>12. PICK b \in Struct : b = Arrays!Longer(a) /\ b.data = a.data
  BY Lengthened
<1>13. PICK t \in Seq(Value) : t = Append(s, v)
  BY AppendProperties
<1>14. PICK keep : keep = fresh \ Arrays!Sharing(n)
  OBVIOUS
<1>15. Arrays!Assign(keep, n, b, t) /\ memory' = Arrays!Stored(mem, a, v)
  BY <1>2, <1>3, <1>4, <1>8, <1>9, <1>12, <1>13, <1>14, Zenon DEF Arrays!InsertGrown
<1>16. a.back < a.capacity
  BY <1>3, <1>5, <1>6, <1>8 DEF Represents
<1>17. /\ memory' \in [Arrays!Buffer -> Seq(Stored)] /\ Represents(memory', b, t)
       /\ \A d \in Arrays!Buffer \ {a.data} : memory'[d] = mem[d]
  BY <1>10, <1>11, <1>12, <1>13, <1>15, <1>16, StoreAtBack
<1>18. /\ a.data \in Arrays!Buffer /\ old.data \in Arrays!Buffer /\ old.data # a.data
  BY <1>1, <1>2, <1>8, AllocatedApart DEF Struct
<1>19. /\ memory'[old.data] = <<>>
       /\ \A d \in Arrays!Buffer \ {a.data, old.data} : memory'[d] = memory[d]
  BY <1>10, <1>17, <1>18
<1>20. n \notin keep /\ keep \subseteq fresh /\ \A m \in keep : array[m].data # a.data
  BY <1>1, <1>8, <1>14, AllocatedApart DEF Arrays!Sharing
<1>21. AllThere(memory', keep) /\ AllUsed(memory', keep, b)
  <2>1. PICK d \in Arrays!Buffer : d = a.data
    BY <1>18
  <2>2. /\ AllThere(memory', keep)
        /\ \A e \in Arrays!Buffer :
             memory'[e] = <<>> \/ e = d \/ \E m \in keep : array[m].data = e
    <3>1. \A e \in Arrays!Buffer \ {d, array[n].data} : memory'[e] = memory[e]
      BY <1>2, <1>19, <2>1
    <3>2. \A m \in keep : array[m].data # d
      BY <1>20, <2>1
    <3>3. n \in fresh /\ memory'[array[n].data] = <<>>
      BY <1>1, <1>2, <1>19
    <3>4. QED
      BY <1>14, <3>1, <3>2, <3>3, Elsewhere
  <2>3. QED
    BY <1>12, <2>1, <2>2 DEF AllUsed
<1>22. keep \ {n} = keep
  BY <1>20
<1>23. QED
  BY <1>15, <1>17, <1>20, <1>21, <1>22, AssignKeeps

LEMMA ArraysSteps == ArraysInv /\ [Arrays!Next]_arrays => ArraysInv'
<1> SUFFICES ASSUME ArraysInv, [Arrays!Next]_arrays PROVE ArraysInv'
  OBVIOUS
<1>1. ASSUME NEW n \in Name, NEW c \in Capacity, Arrays!New(n, c) \/ Arrays!Reserve(n, c)
      PROVE  ArraysInv'
  BY <1>1, NewStep, ReserveStep
<1>2. ASSUME NEW n \in Name, Arrays!Destroy(n) \/ Arrays!PopFront(n) \/ Arrays!PopBack(n)
      PROVE  ArraysInv'
  BY <1>2, DestroyStep, PopFrontStep, PopBackStep
<1>3. ASSUME NEW n \in Name, NEW m \in Name, Arrays!Save(n, m) PROVE ArraysInv'
  BY <1>3, SaveStep
<1>4. ASSUME NEW n \in Name, NEW v \in Value, NEW f \in Factor, Arrays!InsertBack(n, v, f)
      PROVE  ArraysInv'
  BY <1>4, InsertInPlaceStep, InsertGrownStep DEF Arrays!InsertBack
<1>5. CASE UNCHANGED arrays
  BY <1>5 DEF arrays, ArraysInv, Represents
<1>6. QED
  BY <1>1, <1>2, <1>3, <1>4, <1>5 DEF Arrays!Next

LEMMA ArraysAreSequences == ArraysInv => Arrays!IsSequence
<1> SUFFICES ASSUME ArraysInv, NEW n \in fresh
             PROVE  /\ Len(memory[array[n].data]) = array[n].capacity
                    /\ array[n].back <= array[n].capacity
                    /\ Arrays!Foreach(array[n]) = content[n]
                    /\ Arrays!ForeachReverse(array[n]) = Arrays!Reverse(content[n])
  BY DEF Arrays!IsSequence
<1>1. PICK a \in Struct : a = array[n]
  BY Here
<1>2. PICK s \in Seq(Value) : s = content[n] /\ Represents(memory, a, s)
  BY <1>1, Here
<1>3. PICK room : room = memory[a.data]
  OBVIOUS
<1>4. /\ a.front \in Nat /\ a.back \in Nat /\ a.front <= a.back /\ Len(s) = a.back - a.front
      /\ \A i \in 1 .. Len(s) : room[a.front + i] = s[i]
  BY <1>2, <1>3 DEF Represents, Struct
<1>5. Arrays!Foreach(a) = s
  <2>1. ASSUME NEW i \in 1 .. a.back - a.front
        PROVE  Arrays!FrontOf([a EXCEPT !.front = @ + (i - 1)]) = s[i]
    <3>1. PICK b : b = [a EXCEPT !.front = @ + (i - 1)]
      OBVIOUS
    <3>2. b.data = a.data /\ b.front = a.front + (i - 1)
      BY <3>1 DEF Struct
    <3>3. b.front + 1 = a.front + i
      BY <1>4, <3>2
    <3>4. QED
      BY <1>3, <1>4, <3>1, <3>2, <3>3 DEF Arrays!FrontOf
  <2>2. s = [i \in 1 .. a.back - a.front |-> s[i]]
    BY <1>4
  <2>3. QED
    BY <2>1, <2>2, Zenon DEF Arrays!Foreach
<1>6. Arrays!ForeachReverse(a) = Arrays!Reverse(s)
  <2>1. ASSUME NEW i \in 1 .. a.back - a.front
        PROVE  Arrays!BackOf([a EXCEPT !.back = @ - (i - 1)]) = s[(Len(s) - i) + 1]
    <3>1. PICK b : b = [a EXCEPT !.back = @ - (i - 1)]
      OBVIOUS
    <3>2. b.data = a.data /\ b.back = a.back - (i - 1)
      BY <3>1 DEF Struct
    <3>3. (Len(s) - i) + 1 \in 1 .. Len(s) /\ b.back = a.front + ((Len(s) - i) + 1)
      BY <1>4, <3>2
    <3>4. QED
      BY <1>3, <1>4, <3>1, <3>2, <3>3 DEF Arrays!BackOf
  <2>2. 1 .. a.back - a.front = 1 .. Len(s)
    BY <1>4
  <2>3. QED
    BY <2>1, <2>2, Zenon DEF Arrays!ForeachReverse, Arrays!Reverse
<1>7. QED
  BY <1>1, <1>2, <1>5, <1>6 DEF Represents

-----------------------------------------------------------------------------
(* Ex4: the tasks that poll a test line each *)

\* The kernel of tasks that only ever delay, for a tick.
Steady(k) ==
  /\ Good(k) /\ k.running /\ AnyTask \subseteq Present(k)
  /\ \A t \in AnyTask : Left(k, t) \in {0, 1}
  /\ k.priority[A] > 0 /\ k.priority[B] > 0 /\ k.priority[C] = 0 /\ k.priority[Idle] = 0

\* How the times that are left and the running task may change.
Advances(k, l) ==
  /\ Steady(l) /\ \A t \in AnyTask : Left(l, t) <= Left(k, t)
  /\ l.current = k.current \/ Left(l, l.current) = 0

LEMMA SteadyTask ==
  ASSUME NEW k, Steady(k)
  PROVE  /\ k.current \in AnyTask /\ k.tickCount \in Tick /\ IsKernel(k)
         /\ k.suspendDepth \in Nat /\ (k.suspendDepth = 0 => k.missedTicks = 0)
         /\ k.suspendDepth = 0 => Foremost(k, k.current)
         /\ \A t \in AnyTask : Left(k, t) = 0 <=> t \in ReadyTasks(k)
<1>1. /\ Kept(k) /\ Tidy(k) /\ CountsAgree(k) /\ Chosen(k) /\ k.running
  BY DEF Steady, Good, Sound, Kept
<1>2. k.current \in AnyTask /\ k.tickCount \in Tick /\ IsKernel(k)
  BY <1>1 DEF Kept, Ahead, Tidy, Chosen
<1>3. k.suspendDepth \in Nat /\ (k.suspendDepth = 0 => k.missedTicks = 0)
  BY <1>1 DEF CountsAgree
<1>4. k.suspendDepth = 0 => Foremost(k, k.current)
  BY <1>1, <1>2, KernelAssumption DEF CountsAgree, Chosen, AnyTask
<1>5. ASSUME NEW t \in AnyTask PROVE Left(k, t) = 0 <=> t \in ReadyTasks(k)
  <2>1. Left(k, t) \in Nat /\ (t \in Blocked(k) <=> Left(k, t) > 0)
    BY <1>1, TimeLeft
  <2>2. t \in ReadyTasks(k) \/ t \in Blocked(k)
    BY DEF Steady, Present
  <2>3. t \in ReadyTasks(k) => t \notin Blocked(k)
    BY <1>1 DEF Tidy, Apart, ReadyTasks, Asleep
  <2>4. QED
    BY <2>1, <2>2, <2>3
<1>6. QED
  BY <1>2, <1>3, <1>4, <1>5

\* A tick, which ends every delay unless the scheduler is suspended.
LEMMA SteadyTick ==
  ASSUME NEW k, Steady(k), NEW l, l = SwitchContext(IncrementTick(k))
  PROVE  /\ Advances(k, l) /\ l.suspendDepth = k.suspendDepth
         /\ k.suspendDepth > 0 => l.current = k.current
         /\ k.suspendDepth = 0 => \A t \in AnyTask : Left(l, t) = 0
<1>1. /\ Good(l) /\ l.running = k.running /\ Switched(k, l) /\ Present(k) \subseteq Present(l)
      /\ \/ k.suspendDepth > 0 /\ \A t \in AnyTask : Left(l, t) = Left(k, t)
         \/ ~ (k.suspendDepth > 0) /\ Passed(k, l, 1)
  BY TickIs DEF Steady, Called
<1>2. k.suspendDepth \in Nat /\ IsKernel(k)
  BY SteadyTask
<1>3. l.priority = k.priority
  BY <1>2, IncrementTickPreserves, SwitchContextPreserves DEF Preserves
<1>4. \A t \in AnyTask : Left(k, t) \in {0, 1}
  BY DEF Steady
<1>5. /\ \A t \in AnyTask : Left(l, t) \in {0, 1} /\ Left(l, t) <= Left(k, t)
      /\ k.suspendDepth = 0 => \A t \in AnyTask : Left(l, t) = 0
  BY <1>1, <1>2, <1>4 DEF Passed
<1>6. Steady(l)
  BY <1>1, <1>3, <1>5 DEF Steady
<1>7. l.current = k.current \/ Left(l, l.current) = 0
  BY <1>1, <1>6, SteadyTask DEF Switched
<1>8. QED
  BY <1>1, <1>5, <1>6, <1>7 DEF Advances, Switched

LEMMA SteadySwitch ==
  ASSUME NEW k, Steady(k), k.suspendDepth = 0, NEW l, l = SwitchContext(k)
  PROVE  Advances(k, l) /\ l.suspendDepth = 0 /\ Left(l, l.current) = 0
<1>1. /\ Called(k, YieldIf(TRUE, k)) /\ SameWaits(k, YieldIf(TRUE, k))
      /\ TRUE /\ k.suspendDepth = 0 => YieldIf(TRUE, k).current \in ReadyTasks(YieldIf(TRUE, k))
  BY YieldIs DEF Steady
<1>2. l = YieldIf(TRUE, k)
  BY DEF YieldIf
<1>3. /\ Good(l) /\ l.running = k.running /\ Switched(k, l) /\ l.current \in ReadyTasks(l)
      /\ ReadyTasks(k) \subseteq ReadyTasks(l) /\ \A t \in AnyTask : Left(l, t) = Left(k, t)
  BY <1>1, <1>2 DEF Called, SameWaits
<1>4. l.priority = k.priority
  BY SteadyTask, SwitchContextPreserves DEF Preserves
<1>5. Present(k) \subseteq Present(l)
  BY <1>3, StillPresent DEF Steady, Good, Sound
<1>6. Steady(l)
  BY <1>3, <1>4, <1>5 DEF Steady
<1>7. Left(l, l.current) = 0
  BY <1>3, <1>6, SteadyTask
<1>8. \A t \in AnyTask : Left(l, t) <= Left(k, t)
  BY <1>3 DEF Steady
<1>9. QED
  BY <1>3, <1>6, <1>7, <1>8 DEF Advances, Switched

LEMMA SteadyResume ==
  ASSUME NEW k, Steady(k), k.suspendDepth = 1, NEW l, l = ResumeAll(k)
  PROVE  /\ Advances(k, l) /\ l.suspendDepth = 0
         /\ AlreadyYields(k) => Left(l, l.current) = 0
<1>1. /\ Good(l) /\ l.running = k.running /\ Present(k) \subseteq Present(l)
      /\ l.suspendDepth = 0
      /\ l.current # k.current \/ AlreadyYields(k) => l.current \in ReadyTasks(l)
      /\ Passed(k, l, k.missedTicks)
  <2>1. /\ Good(k) /\ k.running /\ k.suspendDepth > 0 /\ k.suspendDepth - 1 = 0
        /\ ~ (k.suspendDepth # 1)
    BY DEF Steady
  <2>2. /\ Good(l) /\ l.running = k.running /\ Present(k) \subseteq Present(l)
        /\ l.suspendDepth = k.suspendDepth - 1
        /\ l.current # k.current \/ (k.suspendDepth = 1 /\ AlreadyYields(k)) =>
             k.suspendDepth = 1 /\ l.current \in ReadyTasks(l)
        /\ k.suspendDepth # 1 \/ Passed(k, l, k.missedTicks)
    BY <2>1, ResumeAllIs
  <2>3. QED
    BY <2>1, <2>2
<1>2. l.priority = k.priority /\ k.missedTicks \in Nat
  BY SteadyTask, ResumeAllPreserves DEF IsKernel
<1>3. \A t \in AnyTask : Left(k, t) \in {0, 1}
  BY DEF Steady
<1>4. \A t \in AnyTask : Left(l, t) \in {0, 1} /\ Left(l, t) <= Left(k, t)
  BY <1>1, <1>2, <1>3 DEF Passed
<1>5. Steady(l)
  BY <1>1, <1>2, <1>4 DEF Steady
<1>6. l.current \in ReadyTasks(l) => Left(l, l.current) = 0
  BY <1>5, SteadyTask
<1>7. QED
  BY <1>1, <1>4, <1>5, <1>6 DEF Advances

LEMMA SteadyDelay ==
  ASSUME NEW k, Steady(k), k.suspendDepth = 0, Left(k, k.current) = 0, k.current # Idle,
         NEW l, l = AddCurrentTaskToDelayedList(SuspendAll(k), Ticks(k.tickCount + 1))
  PROVE  /\ Steady(l) /\ l.suspendDepth = 1 /\ l.current = k.current
         /\ Left(l, k.current) = 1
         /\ \A t \in AnyTask \ {k.current} : Left(l, t) = Left(k, t)
<1>1. /\ k.current \in AnyTask /\ k.tickCount \in Tick /\ IsKernel(k)
      /\ k.current \in ReadyTasks(k)
  BY SteadyTask
<1>2. PICK time : time = Ticks(k.tickCount + 1)
  OBVIOUS
<1>3. time = IF k.tickCount = MaxDelay THEN 0 ELSE k.tickCount + 1
  BY <1>1, <1>2, NextTick
<1>4. time \in Tick /\ time # k.tickCount
  BY <1>1, <1>3, KernelAssumption DEF Tick
<1>5. /\ Good(l) /\ l.running = k.running /\ l.current = k.current /\ l.suspendDepth = 1
      /\ Present(k) \subseteq Present(l)
      /\ \A u \in AnyTask \ {k.current} : Left(l, u) = Left(k, u)
      /\ Left(l, k.current) = IF time > k.tickCount THEN time - k.tickCount
                              ELSE time + Turn - k.tickCount
  BY <1>1, <1>2, <1>4, DelayIs DEF Steady
<1>6. Left(l, k.current) = 1
  BY <1>1, <1>3, <1>5, KernelAssumption DEF Tick, Turn
<1>7. l.priority = k.priority
  <2>1. IsKernel(SuspendAll(k)) /\ SuspendAll(k).priority = k.priority
    BY <1>1, SuspendAllPreserves
  <2>2. QED
    BY <2>1, AddCurrentTaskPreserves DEF Preserves
<1>8. Steady(l)
  BY <1>5, <1>6, <1>7 DEF Steady
<1>9. QED
  BY <1>5, <1>6, <1>8

-----------------------------------------------------------------------------
\* PinTasks is an instance, and so are the operators of the kernel it uses: they are
\* the operators the lemmas about the kernel speak of.
LEMMA SameNames ==
  /\ Pins!Priority = Priority /\ Pins!AnyTask = AnyTask
  /\ \A s, t : Pins!ListRemove(s, t) = ListRemove(s, t)
  /\ \A s, t, after : Pins!ListInsert(s, t, after) = ListInsert(s, t, after)
<1>1. \A s, t : Pins!ListRemove(s, t) = ListRemove(s, t)
  BY DEF Pins!ListRemove, ListRemove, Pins!ToSet, ToSet, Pins!RemoveAt, RemoveAt
<1>2. \A s, t, after : Pins!ListInsert(s, t, after) = ListInsert(s, t, after)
  BY DEF Pins!ListInsert, ListInsert, Pins!InsertAt, InsertAt, Pins!Cardinality, Cardinality
<1>3. QED
  BY <1>1, <1>2 DEF Pins!Priority, Priority, Pins!AnyTask, AnyTask

LEMMA SameGeneric == \A k, t : Pins!RemoveGeneric(k, t) = RemoveGeneric(k, t)
<1> TAKE k, t
<1>1. [p \in Priority |-> Pins!ListRemove(k.ready[p], t)] = [p \in Priority |-> ListRemove(k.ready[p], t)]
  BY SameNames
<1>2. QED
  BY <1>1, SameNames, Zenon DEF Pins!RemoveGeneric, RemoveGeneric

LEMMA SameEvent == \A k, t : Pins!RemoveEvent(k, t) = RemoveEvent(k, t)
<1> TAKE k, t
<1>1. [e \in Event |-> Pins!ListRemove(k.event[e], t)] = [e \in Event |-> ListRemove(k.event[e], t)]
  BY SameNames
<1>2. QED
  BY <1>1, SameNames, Zenon DEF Pins!RemoveEvent, RemoveEvent

LEMMA SameAdd == \A k, t : Pins!AddTaskToReadyQueue(k, t) = AddTaskToReadyQueue(k, t)
  BY DEF Pins!AddTaskToReadyQueue, AddTaskToReadyQueue

LEMMA SameMake == \A k, s : Pins!MakeReady(k, s) = MakeReady(k, s)
  BY SameGeneric, SameEvent, SameAdd DEF Pins!MakeReady, MakeReady
LEMMA SameSwitch == \A k : Pins!SwitchContext(k) = SwitchContext(k)
  BY DEF Pins!SwitchContext, SwitchContext, Pins!Max, Max

LEMMA SameCheck == \A k : Pins!CheckDelayedTasks(k) = CheckDelayedTasks(k)
<1> TAKE k
<1>1. \A S : Pins!Cardinality(S) = Cardinality(S)
  BY DEF Pins!Cardinality, Cardinality
<1>2. QED
  BY <1>1, SameMake, Zenon DEF Pins!CheckDelayedTasks, CheckDelayedTasks

LEMMA SameTick ==
  /\ \A n : Pins!Ticks(n) = Ticks(n)
  /\ \A k : Pins!IncrementTick(k) = IncrementTick(k)
<1>1. \A n : Pins!Ticks(n) = Ticks(n)
  BY DEF Pins!Ticks, Ticks
<1>2. \A k : Pins!IncrementTick(k) = IncrementTick(k)
  <2> TAKE k
  <2> DEFINE l == [k EXCEPT !.tickCount = Ticks(@ + 1)]
             m == [l EXCEPT !.delayed = l.overflow, !.overflow = l.delayed,
                            !.numOfOverflows = (@ + 1) % Wraps,
                            !.nextUnblock = IF l.overflow = <<>> THEN MaxDelay
                                            ELSE l.wake[Head(l.overflow)]]
             n == IF l.tickCount = 0 THEN m ELSE l
             missed == [k EXCEPT !.missedTicks = @ + 1]
  <2>1. Pins!IncrementTick(k) = IF k.suspendDepth > 0 THEN missed ELSE Pins!CheckDelayedTasks(n)
    BY DEF Pins!IncrementTick, Pins!Ticks, Ticks
  <2>2. IncrementTick(k) = IF k.suspendDepth > 0 THEN missed ELSE CheckDelayedTasks(n)
    BY DEF IncrementTick
  <2>3. Pins!CheckDelayedTasks(n) = CheckDelayedTasks(n)
    BY SameCheck
  <2> HIDE DEF l, m, n, missed
  <2>4. QED
    BY <2>1, <2>2, <2>3
<1>3. QED
  BY <1>1, <1>2

LEMMA SameMissed == \A k : Pins!MissedTicks(k) = MissedTicks(k)
  BY SameTick DEF Pins!MissedTicks, MissedTicks

LEMMA SameResume ==
  /\ \A k : Pins!AlreadyYields(k) <=> AlreadyYields(k)
  /\ \A k : Pins!ResumeAll(k) = ResumeAll(k)
<1>1. \A k : Pins!AlreadyYields(k) <=> AlreadyYields(k)
  BY DEF Pins!AlreadyYields, AlreadyYields, Pins!ToSet, ToSet
<1>2. \A k : Pins!ResumeAll(k) = ResumeAll(k)
  <2> TAKE k
  <2> DEFINE l == [k EXCEPT !.suspendDepth = @ - 1]
             m == MissedTicks(MakeReady(l, l.pending))
             n == [m EXCEPT !.missedYield = FALSE]
  <2>1. Pins!MissedTicks(Pins!MakeReady(l, l.pending)) = m
    BY SameMissed, SameMake
  <2>2. ResumeAll(k) = IF l.suspendDepth > 0 \/ l.numberOfTasks = 0 THEN l
                       ELSE IF AlreadyYields(k) THEN SwitchContext(n) ELSE m
    BY Zenon DEF ResumeAll
  <2>3. Pins!ResumeAll(k) = IF l.suspendDepth > 0 \/ l.numberOfTasks = 0 THEN l
                            ELSE IF Pins!AlreadyYields(k) THEN Pins!SwitchContext(n) ELSE m
    <3> DEFINE o == Pins!MissedTicks(Pins!MakeReady(l, l.pending))
               p == [o EXCEPT !.missedYield = FALSE]
    <3>1. Pins!ResumeAll(k) = IF l.suspendDepth > 0 \/ l.numberOfTasks = 0 THEN l
                              ELSE IF Pins!AlreadyYields(k) THEN Pins!SwitchContext(p) ELSE o
      BY Zenon DEF Pins!ResumeAll
    <3>2. o = m
      BY <2>1
    <3> HIDE DEF o, m
    <3>3. QED
      BY <3>1, <3>2
  <2> HIDE DEF l, m, n
  <2>4. QED
    BY <1>1, <2>2, <2>3, SameSwitch
<1>3. QED
  BY <1>1, <1>2

LEMMA SameDelay ==
  \A k, time :
    Pins!AddCurrentTaskToDelayedList(Pins!SuspendAll(k), time)
      = AddCurrentTaskToDelayedList(SuspendAll(k), time)
<1> TAKE k, time
<1> DEFINE s == SuspendAll(k)
           t == s.current
           l == [RemoveGeneric(s, t) EXCEPT !.wake[t] = time]
           later == {u \in DOMAIN l.wake : l.wake[u] > time}
           over == ListInsert(l.overflow, t, later)
           delay == ListInsert(l.delayed, t, later)
           added == IF time < l.tickCount THEN [l EXCEPT !.overflow = over]
                    ELSE [l EXCEPT !.delayed = delay,
                                   !.nextUnblock = IF time < @ THEN time ELSE @]
<1>1. Pins!SuspendAll(k) = s
  BY DEF Pins!SuspendAll, SuspendAll
<1>2. AddCurrentTaskToDelayedList(s, time) = added
  BY DEF AddCurrentTaskToDelayedList
<1> DEFINE pl == [Pins!RemoveGeneric(s, t) EXCEPT !.wake[t] = time]
           plater == {u \in DOMAIN pl.wake : pl.wake[u] > time}
           pover == Pins!ListInsert(pl.overflow, t, plater)
           pdelay == Pins!ListInsert(pl.delayed, t, plater)
<1>3. Pins!AddCurrentTaskToDelayedList(s, time) =
        IF time < pl.tickCount THEN [pl EXCEPT !.overflow = pover]
        ELSE [pl EXCEPT !.delayed = pdelay, !.nextUnblock = IF time < @ THEN time ELSE @]
  BY DEF Pins!AddCurrentTaskToDelayedList
<1>4. pl = l
  BY SameGeneric, Zenon
<1>5. plater = later
  BY <1>4, Zenon
<1>6. pover = over /\ pdelay = delay
  BY <1>4, <1>5, SameNames, Zenon
<1> HIDE DEF s, t, l, pl, later, plater, over, pover, delay, pdelay
<1>7. Pins!AddCurrentTaskToDelayedList(s, time) = added
  BY <1>3, <1>4, <1>6
<1> HIDE DEF added
<1>8. QED
  BY <1>1, <1>2, <1>7 DEF s

LEMMA SameStart ==
  /\ Pins!BootKernel = BootKernel
  /\ \A k, t, p : Pins!Create(k, t, p) = Create(k, t, p)
  /\ \A k : Pins!StartScheduler(k) = StartScheduler(k)
<1>1. Pins!BootKernel = BootKernel
  BY SameNames DEF Pins!BootKernel, BootKernel
<1>2. \A k, t, p : Pins!Create(k, t, p) = Create(k, t, p)
  BY SameAdd, SameSwitch, SMTT(60) DEF Pins!Create, Create, Pins!YieldIf, YieldIf
<1>3. \A k : Pins!StartScheduler(k) = StartScheduler(k)
  BY <1>2, Zenon DEF Pins!StartScheduler, StartScheduler
<1>4. QED
  BY <1>1, <1>2, <1>3

-----------------------------------------------------------------------------
\* What pinC has done of its busy wait.
Busy(t) ==
  IF t # C THEN 0 ELSE IF pc[t] = "spin" THEN spun ELSE IF pc[t] = "answer" THEN 3 ELSE 0

PinTypes ==
  /\ pc \in [Task -> {"poll", "spin", "answer", "done"}]
  /\ call \in [Task -> {"none", "resume", "yield"}]
  /\ spun \in 0 .. 3 /\ late \in Nat /\ wait \in [Task -> Nat]
  /\ level \in [Task -> {"low", "high"}] /\ response \in [Task -> {"low", "high"}]
  /\ waiting \subseteq Task

\* Who is between the two halves of vTaskDelay keeps the scheduler suspended, and
\* the running task is in none of the delayed lists, or in that call.
InCall ==
  /\ \A t \in Task : call[t] = "resume" => kernel.current = t /\ kernel.suspendDepth = 1
  /\ kernel.suspendDepth # 0 => \E t \in Task : call[t] = "resume"
  /\ Left(kernel, kernel.current) # 0 =>
       kernel.current \in Task /\ call[kernel.current] # "none"

\* While its task is delayed a line has waited for late ticks only; then there is the
\* tick of the delay, and with pinC what it has done of its busy wait.
LineInTime(t) ==
  /\ t \notin waiting => wait[t] = 0
  /\ t \in waiting => level[t] = "low" /\ pc[t] # "done"
  /\ response[t] = "low" <=> pc[t] = "done"
  /\ pc[t] \in {"spin", "answer"} => Left(kernel, t) = 0 /\ call[t] = "none"
  /\ pc[t] = "spin" => t = C
  /\ Left(kernel, t) = 1 => wait[t] <= late
  /\ wait[t] <= late + 1 + Busy(t)

PinInv == Steady(kernel) /\ PinTypes /\ InCall /\ \A t \in Task : LineInTime(t)

LEMMA ReadyNow ==
  ASSUME NEW k, Good(k), NEW t \in ReadyTasks(k)
  PROVE  Left(k, t) = 0
<1>1. Kept(k) /\ Tidy(k) /\ t \in AnyTask
  BY DEF Good, Sound, Kept, ReadyTasks
<1>2. Left(k, t) \in Nat /\ (t \in Blocked(k) <=> Left(k, t) > 0)
  BY <1>1, TimeLeft
<1>3. t \notin Blocked(k)
  BY <1>1 DEF Tidy, Apart, ReadyTasks, Asleep
<1>4. QED
  BY <1>2, <1>3

LEMMA PinsStart == Pins!Init => PinInv
<1> SUFFICES ASSUME Pins!Init PROVE PinInv
  OBVIOUS
<1>1. /\ A \in Task /\ B \in Task /\ C \in Task /\ A # B /\ A # C /\ B # C
      /\ Task = {A, B, C} /\ Idle \notin Task
  BY PinAssumption, KernelAssumption
<1>2. 0 \in Priority /\ 1 \in Priority /\ 2 \in Priority
  BY PinAssumption, KernelAssumption DEF Priority
<1>3. PICK b : b = BootKernel
  OBVIOUS
<1>4. Good(b) /\ ~b.running /\ ReadyTasks(b) = {} /\ All(b) = {}
  BY <1>3, BootIsGood
<1>5. b.priority = [t \in AnyTask |-> 0]
  BY <1>3 DEF BootKernel
<1>6. PICK k : k = Create(b, A, 2)
  OBVIOUS
<1>7. /\ Good(k) /\ ~k.running /\ All(k) = {A} /\ ReadyTasks(k) = {A}
      /\ k.priority = [b.priority EXCEPT ![A] = 2]
  BY <1>1, <1>2, <1>4, <1>6, BootCreates
<1>8. PICK l : l = Create(k, B, 1)
  OBVIOUS
<1>9. /\ Good(l) /\ ~l.running /\ All(l) = {A, B} /\ ReadyTasks(l) = {A, B}
      /\ l.priority = [k.priority EXCEPT ![B] = 1]
  BY <1>1, <1>2, <1>7, <1>8, BootCreates
<1>10. PICK m : m = Create(l, C, 0)
  OBVIOUS
<1>11. /\ Good(m) /\ ~m.running /\ ReadyTasks(m) = {A, B, C}
       /\ m.priority = [l.priority EXCEPT ![C] = 0]
  BY <1>1, <1>2, <1>9, <1>10, BootCreates
<1>12. PICK n : n = StartScheduler(m)
  OBVIOUS
<1>13. /\ Good(n) /\ n.running /\ n.suspendDepth = 0 /\ n.current \in ReadyTasks(n)
       /\ ReadyTasks(n) = AnyTask /\ n.priority = [m.priority EXCEPT ![Idle] = 0]
  BY <1>1, <1>11, <1>12, StartIs DEF AnyTask
<1>14. kernel = n
  BY <1>3, <1>6, <1>8, <1>10, <1>12, SameStart DEF Pins!Init
<1>15. /\ n.priority[A] = 2 /\ n.priority[B] = 1 /\ n.priority[C] = 0
       /\ n.priority[Idle] = 0
  BY <1>1, <1>5, <1>7, <1>9, <1>11, <1>13 DEF AnyTask
<1>16. \A t \in AnyTask : Left(n, t) = 0
  BY <1>13, ReadyNow
<1>17. AnyTask \subseteq Present(n)
  BY <1>13 DEF Present
<1>18. Steady(n)
  BY <1>13, <1>15, <1>16, <1>17 DEF Steady
<1>19. PinTypes
  BY DEF Pins!Init, PinTypes
<1>20. InCall
  BY <1>13, <1>14, <1>16 DEF Pins!Init, InCall
<1>21. ASSUME NEW t \in Task PROVE LineInTime(t)
  BY <1>14, <1>16 DEF Pins!Init, LineInTime, Busy, AnyTask
<1>22. QED
  BY <1>14, <1>18, <1>19, <1>20, <1>21 DEF PinInv

-----------------------------------------------------------------------------

\* A task that runs has the scheduler not suspended, and is not delayed.
LEMMA RunsNow ==
  ASSUME PinInv, NEW t \in Task, Pins!Runs(t)
  PROVE  /\ kernel.current = t /\ call[t] = "none" /\ kernel.suspendDepth = 0
         /\ Left(kernel, t) = 0
  BY DEF PinInv, InCall, Pins!Runs

LEMMA DelayLeaves ==
  ASSUME PinInv, NEW t \in Task, Pins!Runs(t), Pins!Delay(t)
  PROVE  /\ Steady(kernel') /\ InCall'
         /\ call' \in [Task -> {"none", "resume", "yield"}]
         /\ Left(kernel', t) = 1
         /\ \A u \in Task \ {t} : Left(kernel', u) = Left(kernel, u) /\ call'[u] = call[u]
<1>1. kernel.current = t /\ kernel.suspendDepth = 0 /\ Left(kernel, t) = 0
  BY RunsNow
<1>2. t \in AnyTask /\ t # Idle
  BY KernelAssumption DEF AnyTask
<1>3. kernel' = AddCurrentTaskToDelayedList(SuspendAll(kernel), Ticks(kernel.tickCount + 1))
  BY SameDelay, SameTick DEF Pins!Delay
<1>4. /\ Steady(kernel') /\ kernel'.suspendDepth = 1 /\ kernel'.current = t
      /\ Left(kernel', t) = 1
      /\ \A u \in AnyTask \ {t} : Left(kernel', u) = Left(kernel, u)
  BY <1>1, <1>2, <1>3, SteadyDelay DEF PinInv
<1>5. /\ call \in [Task -> {"none", "resume", "yield"}]
      /\ call' = [call EXCEPT ![t] = "resume"]
  BY DEF PinInv, PinTypes, Pins!Delay
<1>6. \A u \in Task : call[u] # "resume"
  BY <1>1 DEF PinInv, InCall
<1>7. InCall'
  BY <1>4, <1>5, <1>6 DEF InCall
<1>8. QED
  BY <1>4, <1>5, <1>7 DEF AnyTask

LEMMA PollStep ==
  ASSUME PinInv, NEW t \in Task, Pins!Poll(t)
  PROVE  PinInv'
<1>1. PinTypes /\ \A u \in Task : LineInTime(u)
  BY DEF PinInv
<1>2. Pins!Runs(t) /\ pc[t] = "poll" /\ UNCHANGED <<level, response, waiting, wait, late>>
  BY DEF Pins!Poll
<1>3. CASE level[t] = "low"
  <2>1. UNCHANGED <<kernel, call>> /\ pc' = [pc EXCEPT ![t] = IF t = C THEN "spin" ELSE "answer"]
        /\ spun' = IF t = C THEN 0 ELSE spun
    BY <1>3 DEF Pins!Poll, Pins!Goto
  <2>2. Left(kernel, t) = 0 /\ call[t] = "none"
    BY <1>2, RunsNow
  <2>3. PinTypes'
    BY <1>1, <1>2, <2>1 DEF PinTypes
  <2>4. ASSUME NEW u \in Task PROVE LineInTime(u)'
    <3>1. LineInTime(u) /\ LineInTime(t) /\ wait[u] \in Nat /\ late \in Nat /\ spun \in Nat
      BY <1>1 DEF PinTypes
    <3>2. CASE u = t
      <4>1. pc'[t] = IF t = C THEN "spin" ELSE "answer"
        BY <1>1, <2>1 DEF PinTypes
      <4>2. Busy(t) = 0 /\ Busy(t)' = 0
        BY <1>2, <2>1, <4>1 DEF Busy
      <4>3. QED
        BY <1>2, <2>1, <2>2, <3>1, <3>2, <4>1, <4>2 DEF LineInTime
    <3>3. CASE u # t
      <4>1. pc'[u] = pc[u] /\ Busy(u)' = Busy(u)
        BY <1>1, <2>1, <3>3 DEF PinTypes, Busy
      <4>2. QED
        BY <1>2, <2>1, <3>1, <4>1 DEF LineInTime
    <3>4. QED
      BY <3>2, <3>3
  <2>5. InCall'
    BY <2>1 DEF PinInv, InCall
  <2>6. QED
    BY <2>1, <2>3, <2>4, <2>5 DEF PinInv
<1>4. CASE level[t] # "low"
  <2>1. Pins!Delay(t) /\ UNCHANGED <<pc, spun>>
    BY <1>4 DEF Pins!Poll
  <2>2. /\ Steady(kernel') /\ InCall' /\ call' \in [Task -> {"none", "resume", "yield"}]
        /\ \A u \in Task \ {t} : Left(kernel', u) = Left(kernel, u) /\ call'[u] = call[u]
    BY <1>2, <2>1, DelayLeaves
  <2>3. PinTypes'
    BY <1>1, <1>2, <2>1, <2>2 DEF PinTypes
  <2>4. ASSUME NEW u \in Task PROVE LineInTime(u)'
    <3>1. LineInTime(u) /\ LineInTime(t) /\ wait[u] \in Nat /\ late \in Nat
      BY <1>1 DEF PinTypes
    <3>2. Busy(u)' = Busy(u)
      BY <2>1 DEF Busy
    <3>3. u = t => u \notin waiting
      BY <1>4, <3>1 DEF LineInTime
    <3>4. QED
      BY <1>2, <2>1, <2>2, <3>1, <3>2, <3>3 DEF LineInTime
  <2>5. QED
    BY <2>2, <2>3, <2>4 DEF PinInv
<1>5. QED
  BY <1>3, <1>4

LEMMA AnswerStep ==
  ASSUME PinInv, NEW t \in Task, Pins!Answer(t)
  PROVE  PinInv'
<1>1. PinTypes /\ \A u \in Task : LineInTime(u)
  BY DEF PinInv
<1>2. /\ Pins!Runs(t) /\ Pins!Delay(t) /\ pc' = [pc EXCEPT ![t] = "done"]
      /\ response' = [response EXCEPT ![t] = "low"]
      /\ waiting' = waiting \ {t} /\ wait' = [wait EXCEPT ![t] = 0]
      /\ UNCHANGED <<spun, level, late>>
  BY DEF Pins!Answer, Pins!Goto
<1>3. /\ Steady(kernel') /\ InCall' /\ call' \in [Task -> {"none", "resume", "yield"}]
      /\ \A u \in Task \ {t} : Left(kernel', u) = Left(kernel, u) /\ call'[u] = call[u]
  BY <1>2, DelayLeaves
<1>4. PinTypes'
  BY <1>1, <1>2, <1>3 DEF PinTypes
<1>5. ASSUME NEW u \in Task PROVE LineInTime(u)'
  <2>1. LineInTime(u) /\ late \in Nat /\ spun \in Nat
    BY <1>1 DEF PinTypes
  <2>2. CASE u = t
    <3>1. pc'[t] = "done" /\ response'[t] = "low" /\ wait'[t] = 0 /\ t \notin waiting'
      BY <1>1, <1>2 DEF PinTypes
    <3>2. Busy(t)' = 0
      BY <3>1 DEF Busy
    <3>3. QED
      BY <1>2, <2>1, <2>2, <3>1, <3>2 DEF LineInTime
  <2>3. CASE u # t
    <3>1. /\ pc'[u] = pc[u] /\ response'[u] = response[u] /\ wait'[u] = wait[u]
          /\ u \in waiting' <=> u \in waiting
      BY <1>1, <1>2, <2>3 DEF PinTypes
    <3>2. Busy(u)' = Busy(u)
      BY <1>2, <3>1 DEF Busy
    <3>3. QED
      BY <1>2, <1>3, <2>1, <2>3, <3>1, <3>2 DEF LineInTime
  <2>4. QED
    BY <2>2, <2>3
<1>6. QED
  BY <1>3, <1>4, <1>5 DEF PinInv

LEMMA DoneStep ==
  ASSUME PinInv, NEW t \in Task, Pins!Done(t)
  PROVE  PinInv'
<1>1. PinTypes /\ \A u \in Task : LineInTime(u)
  BY DEF PinInv
<1>2. /\ Pins!Runs(t) /\ Pins!Delay(t) /\ pc[t] = "done" /\ pc' = [pc EXCEPT ![t] = "poll"]
      /\ response' = [response EXCEPT ![t] = "high"]
      /\ UNCHANGED <<spun, level, waiting, wait, late>>
  BY DEF Pins!Done, Pins!Goto
<1>3. /\ Steady(kernel') /\ InCall' /\ call' \in [Task -> {"none", "resume", "yield"}]
      /\ \A u \in Task \ {t} : Left(kernel', u) = Left(kernel, u) /\ call'[u] = call[u]
  BY <1>2, DelayLeaves
<1>4. PinTypes'
  BY <1>1, <1>2, <1>3 DEF PinTypes
<1>5. ASSUME NEW u \in Task PROVE LineInTime(u)'
  <2>1. LineInTime(u) /\ late \in Nat /\ spun \in Nat
    BY <1>1 DEF PinTypes
  <2>2. CASE u = t
    <3>1. pc'[t] = "poll" /\ response'[t] = "high" /\ wait[t] = 0 /\ t \notin waiting
      BY <1>1, <1>2, <2>1, <2>2 DEF PinTypes, LineInTime
    <3>2. Busy(t)' = 0
      BY <3>1 DEF Busy
    <3>3. QED
      BY <1>2, <2>1, <2>2, <3>1, <3>2 DEF LineInTime
  <2>3. CASE u # t
    <3>1. pc'[u] = pc[u] /\ response'[u] = response[u]
      BY <1>1, <1>2, <2>3 DEF PinTypes
    <3>2. Busy(u)' = Busy(u)
      BY <1>2, <3>1 DEF Busy
    <3>3. QED
      BY <1>2, <1>3, <2>1, <2>3, <3>1, <3>2 DEF LineInTime
  <2>4. QED
    BY <2>2, <2>3
<1>6. QED
  BY <1>3, <1>4, <1>5 DEF PinInv

\* Where only the kernel and the call of the running task change, and nobody's
\* delay becomes longer, lines stay in time.
LEMMA KernelStep ==
  ASSUME PinInv, Advances(kernel, kernel'), InCall',
         call' \in [Task -> {"none", "resume", "yield"}],
         \A t \in Task : call'[t] = call[t] \/ call[t] # "none",
         UNCHANGED <<pc, spun, level, response, waiting, wait, late>>
  PROVE  PinInv'
<1>1. PinTypes /\ \A t \in Task : LineInTime(t)
  BY DEF PinInv
<1>2. /\ Steady(kernel') /\ \A t \in AnyTask : Left(kernel', t) <= Left(kernel, t)
      /\ \A t \in AnyTask : Left(kernel', t) \in {0, 1} /\ Left(kernel, t) \in {0, 1}
  BY DEF Advances, Steady, PinInv
<1>3. PinTypes'
  BY <1>1 DEF PinTypes
<1>4. ASSUME NEW t \in Task PROVE LineInTime(t)'
  <2>1. LineInTime(t) /\ t \in AnyTask
    BY <1>1 DEF AnyTask
  <2>2. /\ Left(kernel', t) = 1 => Left(kernel, t) = 1
        /\ Left(kernel, t) = 0 => Left(kernel', t) = 0
    BY <1>2, <2>1
  <2>3. Busy(t)' = Busy(t)
    BY DEF Busy
  <2>4. QED
    BY <2>1, <2>2, <2>3 DEF LineInTime
<1>5. QED
  BY <1>2, <1>3, <1>4 DEF PinInv

LEMMA EndDelayStep ==
  ASSUME PinInv, NEW t \in Task, Pins!EndDelay(t)
  PROVE  PinInv'
<1>1. /\ kernel.current = t /\ call[t] = "resume" /\ kernel' = ResumeAll(kernel)
      /\ call' = [call EXCEPT ![t] = IF AlreadyYields(kernel) THEN "none" ELSE "yield"]
      /\ UNCHANGED <<pc, spun, level, response, waiting, wait, late>>
  BY SameResume DEF Pins!EndDelay
<1>2. kernel.suspendDepth = 1 /\ Steady(kernel)
  BY <1>1 DEF PinInv, InCall
<1>3. /\ Advances(kernel, kernel') /\ kernel'.suspendDepth = 0
      /\ AlreadyYields(kernel) => Left(kernel', kernel'.current) = 0
  BY <1>1, <1>2, SteadyResume
<1>4. call \in [Task -> {"none", "resume", "yield"}]
  BY DEF PinInv, PinTypes
<1>5. \A u \in Task \ {t} : call'[u] = call[u] /\ call[u] # "resume"
  BY <1>1, <1>4 DEF PinInv, InCall
<1>6. call'[t] = IF AlreadyYields(kernel) THEN "none" ELSE "yield"
  BY <1>1, <1>4
<1>7. InCall'
  <2>1. \A u \in Task : call'[u] # "resume"
    BY <1>5, <1>6
  <2>2. ASSUME Left(kernel', kernel'.current) # 0
        PROVE  kernel'.current \in Task /\ call'[kernel'.current] # "none"
    <3>1. ~AlreadyYields(kernel)
      BY <1>3, <2>2
    <3>2. kernel'.current = t
      BY <1>1, <1>3, <2>2 DEF Advances
    <3>3. QED
      BY <1>6, <3>1, <3>2
  <2>3. QED
    BY <1>3, <2>1, <2>2 DEF InCall
<1>8. call' \in [Task -> {"none", "resume", "yield"}]
  BY <1>1, <1>4
<1>9. \A u \in Task : call'[u] = call[u] \/ call[u] # "none"
  BY <1>1, <1>5
<1>10. QED
  BY <1>1, <1>3, <1>7, <1>8, <1>9, KernelStep

LEMMA YieldStep ==
  ASSUME PinInv, NEW t \in Task, Pins!Yield(t)
  PROVE  PinInv'
<1>1. /\ kernel.current = t /\ call[t] = "yield" /\ kernel' = SwitchContext(kernel)
      /\ call' = [call EXCEPT ![t] = "none"]
      /\ UNCHANGED <<pc, spun, level, response, waiting, wait, late>>
  BY SameSwitch DEF Pins!Yield
<1>2. kernel.suspendDepth = 0 /\ \A u \in Task : call[u] # "resume"
  BY <1>1 DEF PinInv, InCall
<1>3. /\ Advances(kernel, kernel') /\ kernel'.suspendDepth = 0
      /\ Left(kernel', kernel'.current) = 0
  BY <1>1, <1>2, SteadySwitch DEF PinInv
<1>4. call \in [Task -> {"none", "resume", "yield"}]
  BY DEF PinInv, PinTypes
<1>5. \A u \in Task : call'[u] = IF u = t THEN "none" ELSE call[u]
  BY <1>1, <1>4
<1>6. InCall'
  BY <1>2, <1>3, <1>5 DEF InCall
<1>7. call' \in [Task -> {"none", "resume", "yield"}]
  BY <1>1, <1>4
<1>8. \A u \in Task : call'[u] = call[u] \/ call[u] # "none"
  BY <1>1, <1>5
<1>9. QED
  BY <1>1, <1>3, <1>6, <1>7, <1>8, KernelStep

LEMMA IdleYieldStep == PinInv /\ Pins!IdleYield => PinInv'
<1> SUFFICES ASSUME PinInv, Pins!IdleYield PROVE PinInv'
  OBVIOUS
<1>1. /\ kernel.current = Idle /\ kernel' = SwitchContext(kernel)
      /\ UNCHANGED <<pc, call, spun, level, response, waiting, wait, late>>
  BY SameSwitch DEF Pins!IdleYield
<1>2. kernel.suspendDepth = 0 /\ \A u \in Task : call[u] # "resume"
  BY <1>1, KernelAssumption DEF PinInv, InCall
<1>3. /\ Advances(kernel, kernel') /\ kernel'.suspendDepth = 0
      /\ Left(kernel', kernel'.current) = 0
  BY <1>1, <1>2, SteadySwitch DEF PinInv
<1>4. InCall'
  BY <1>1, <1>2, <1>3 DEF InCall
<1>5. call' \in [Task -> {"none", "resume", "yield"}]
  BY <1>1 DEF PinInv, PinTypes
<1>6. QED
  BY <1>1, <1>3, <1>4, <1>5, KernelStep

\* A tick is on time only if nobody but pinC in its busy wait has anything to do.
LEMMA NobodyElse ==
  ASSUME PinInv,
         Pins!Spinning \/ (kernel.current = Idle /\ Len(kernel.ready[0]) = 1)
  PROVE  /\ kernel.suspendDepth = 0
         /\ \A t \in Task : Left(kernel, t) = 0 => t = C /\ Pins!Spinning
<1>1. /\ Task = {A, B, C} /\ A # B /\ A # C /\ B # C /\ Idle \notin Task
  BY PinAssumption, KernelAssumption
<1>2. kernel.suspendDepth = 0
  BY <1>1 DEF PinInv, InCall, Pins!Spinning, Pins!Runs
<1>3. kernel.current \in {C, Idle} /\ (kernel.current = C => Pins!Spinning)
  BY <1>1 DEF Pins!Spinning, Pins!Runs
<1>4. /\ Foremost(kernel, kernel.current) /\ Good(kernel) /\ kernel.running
      /\ \A t \in AnyTask : Left(kernel, t) = 0 <=> t \in ReadyTasks(kernel)
  BY <1>2, SteadyTask DEF PinInv, Steady
<1>5. /\ kernel.priority[A] > 0 /\ kernel.priority[B] > 0
      /\ kernel.priority[C] = 0 /\ kernel.priority[Idle] = 0
  BY DEF PinInv, Steady
<1>6. \A t \in ReadyTasks(kernel) : kernel.priority[t] <= 0
  BY <1>3, <1>4, <1>5 DEF Foremost
<1>7. A \notin ReadyTasks(kernel) /\ B \notin ReadyTasks(kernel)
  <2>1. kernel.priority[A] \in Int /\ kernel.priority[B] \in Int
    BY <1>1, <1>4 DEF Good, Sound, Kept, Tidy, Priority, AnyTask
  <2>2. QED
    BY <1>5, <1>6, <2>1
<1>8. ASSUME C \in ReadyTasks(kernel) PROVE Pins!Spinning
  <2>1. CASE kernel.current = C
    BY <1>3, <2>1
  <2>2. CASE kernel.current = Idle
    <3>1. SUFFICES ASSUME Len(kernel.ready[0]) = 1 PROVE FALSE
      BY <1>1, <2>2 DEF Pins!Spinning, Pins!Runs
    <3>2. Idle \in ReadyTasks(kernel)
      BY <1>4 DEF Good, Started
    <3>3. C \in ToSet(kernel.ready[0]) /\ Idle \in ToSet(kernel.ready[0])
      BY <1>5, <1>8, <3>2 DEF ReadyTasks, InReady
    <3>4. PICK s \in Seq(AnyTask) : s = kernel.ready[0]
      <4>1. 0 \in Priority
        BY KernelAssumption DEF Priority
      <4>2. Once(kernel.ready[0])
        BY <1>4, <4>1 DEF Good, Sound, Kept, Tidy, ReadyListsInv
      <4>3. QED
        BY <4>2 DEF Once
    <3>5. DOMAIN s = {1}
      BY <3>1, <3>4
    <3>6. C = s[1] /\ Idle = s[1]
      BY <3>3, <3>4, <3>5 DEF ToSet
    <3>7. QED
      BY <1>1, <3>6
  <2>3. QED
    BY <1>3, <2>1, <2>2
<1>9. QED
  BY <1>1, <1>2, <1>4, <1>7, <1>8 DEF AnyTask

LEMMA TickStep == PinInv /\ Pins!TickInterrupt => PinInv'
<1> SUFFICES ASSUME PinInv, Pins!TickInterrupt PROVE PinInv'
  OBVIOUS
<1>1. PinTypes /\ InCall /\ Steady(kernel) /\ \A t \in Task : LineInTime(t)
  BY DEF PinInv
<1>2. /\ kernel' = SwitchContext(IncrementTick(kernel))
      /\ spun' = IF Pins!Spinning THEN spun + 1 ELSE spun
      /\ wait' = [t \in Task |-> IF t \in waiting THEN wait[t] + 1 ELSE wait[t]]
      /\ UNCHANGED <<pc, call, level, response, waiting>>
  BY SameSwitch, SameTick DEF Pins!TickInterrupt
<1>3. /\ Advances(kernel, kernel') /\ kernel'.suspendDepth = kernel.suspendDepth
      /\ kernel.suspendDepth > 0 => kernel'.current = kernel.current
      /\ kernel.suspendDepth = 0 => \A t \in AnyTask : Left(kernel', t) = 0
  BY <1>1, <1>2, SteadyTick
<1>4. /\ Steady(kernel') /\ kernel'.current \in AnyTask /\ kernel.suspendDepth \in Nat
      /\ \A t \in AnyTask : /\ Left(kernel', t) <= Left(kernel, t)
                            /\ Left(kernel', t) \in {0, 1} /\ Left(kernel, t) \in {0, 1}
  BY <1>1, <1>3, SteadyTask DEF Advances, Steady
<1>5. InCall'
  <2>1. \A t \in Task : call[t] = "resume" =>
          kernel'.current = t /\ kernel'.suspendDepth = 1
    BY <1>1, <1>3 DEF InCall
  <2>2. kernel'.suspendDepth # 0 => \E t \in Task : call[t] = "resume"
    BY <1>1, <1>3 DEF InCall
  <2>3. ASSUME Left(kernel', kernel'.current) # 0
        PROVE  kernel'.current \in Task /\ call[kernel'.current] # "none"
    BY <1>3, <1>4, <2>1, <2>2, <2>3
  <2>4. QED
    BY <1>2, <2>1, <2>2, <2>3 DEF InCall
<1>6. late' \in Nat /\ late' >= late /\ late \in Nat
  BY <1>1 DEF Pins!TickInterrupt, PinTypes
<1>7. PinTypes'
  BY <1>1, <1>2, <1>6 DEF PinTypes, Pins!Spinning
<1>8. ASSUME NEW t \in Task PROVE LineInTime(t)'
  <2>1. LineInTime(t) /\ t \in AnyTask /\ wait[t] \in Nat /\ spun \in Nat
    BY <1>1 DEF AnyTask, PinTypes
  <2>2. /\ Left(kernel', t) = 1 => Left(kernel, t) = 1
        /\ Left(kernel, t) = 0 => Left(kernel', t) = 0
    BY <1>4, <2>1
  <2>3. Busy(t) \in Nat /\ Busy(t)' \in Nat /\ Busy(t)' >= Busy(t)
    BY <1>2, <2>1 DEF Busy
  <2>4. wait'[t] = IF t \in waiting THEN wait[t] + 1 ELSE wait[t]
    BY <1>2
  <2>5. CASE t \notin waiting
    BY <1>2, <1>6, <2>1, <2>2, <2>3, <2>4, <2>5 DEF LineInTime
  <2>6. CASE t \in waiting /\ late' = late + 1
    BY <1>2, <1>6, <2>1, <2>2, <2>3, <2>4, <2>6 DEF LineInTime
  <2>7. CASE t \in waiting /\ late' # late + 1
    <3>1. /\ late' = late
          /\ Pins!Spinning \/ (kernel.current = Idle /\ Len(kernel.ready[0]) = 1)
      BY <1>1, <2>7 DEF Pins!TickInterrupt, PinTypes
    <3>2. /\ kernel.suspendDepth = 0
          /\ Left(kernel, t) = 0 => t = C /\ Pins!Spinning
      BY <3>1, NobodyElse
    <3>3. Left(kernel', t) = 0
      BY <1>3, <2>1, <3>2
    <3>4. wait[t] <= late + Busy(t)'
      <4>1. CASE Left(kernel, t) = 1
        BY <1>6, <2>1, <2>3, <2>7, <4>1 DEF LineInTime
      <4>2. CASE Left(kernel, t) = 0
        <5>1. t = C /\ pc[t] = "spin" /\ spun' = spun + 1
          BY <1>2, <3>2, <4>2 DEF Pins!Spinning
        <5>2. Busy(t)' = Busy(t) + 1
          BY <1>2, <2>1, <5>1 DEF Busy
        <5>3. QED
          BY <1>6, <2>1, <2>3, <5>2 DEF LineInTime
      <4>3. QED
        BY <1>4, <2>1, <4>1, <4>2
    <3>5. wait'[t] <= late' + 1 + Busy(t)'
      BY <1>6, <2>1, <2>3, <2>4, <2>7, <3>1, <3>4
    <3>6. QED
      BY <1>2, <2>1, <2>2, <2>7, <3>3, <3>5 DEF LineInTime
  <2>8. QED
    BY <2>5, <2>6, <2>7
<1>9. QED
  BY <1>4, <1>5, <1>7, <1>8 DEF PinInv

LEMMA LineStep ==
  ASSUME PinInv, NEW t \in Task, Pins!Ask(t) \/ Pins!Release(t)
  PROVE  PinInv'
<1>1. PinTypes /\ \A u \in Task : LineInTime(u)
  BY DEF PinInv
<1>2. /\ UNCHANGED <<kernel, pc, call, spun, response, wait, late>>
      /\ \/ /\ level[t] = "high" /\ response[t] = "high"
            /\ level' = [level EXCEPT ![t] = "low"] /\ waiting' = waiting \cup {t}
         \/ /\ response[t] = "low" /\ level' = [level EXCEPT ![t] = "high"]
            /\ waiting' = waiting
  BY DEF Pins!Ask, Pins!Release
<1>3. PinTypes'
  BY <1>1, <1>2 DEF PinTypes
<1>4. ASSUME NEW u \in Task PROVE LineInTime(u)'
  <2>1. LineInTime(u) /\ level \in [Task -> {"low", "high"}] /\ late \in Nat
    BY <1>1 DEF PinTypes
  <2>2. Busy(u)' = Busy(u)
    BY <1>2 DEF Busy
  <2>3. QED
    BY <1>2, <2>1, <2>2 DEF LineInTime
<1>5. InCall' /\ Steady(kernel')
  BY <1>2 DEF PinInv, InCall
<1>6. QED
  BY <1>3, <1>4, <1>5 DEF PinInv

LEMMA PinsSteps == PinInv /\ [Pins!Next]_pins => PinInv'
<1> SUFFICES ASSUME PinInv, [Pins!Next]_pins PROVE PinInv'
  OBVIOUS
<1>1. CASE Pins!SpinEnd
  <2>1. PinTypes /\ \A u \in Task : LineInTime(u)
    BY DEF PinInv
  <2>2. /\ pc[C] = "spin" /\ spun = 3 /\ pc' = [pc EXCEPT ![C] = "answer"]
        /\ UNCHANGED <<kernel, call, spun, level, response, waiting, wait, late>>
    BY <1>1 DEF Pins!SpinEnd, Pins!Goto
  <2>3. PinTypes'
    BY <2>1, <2>2 DEF PinTypes
  <2>4. ASSUME NEW u \in Task PROVE LineInTime(u)'
    <3>1. LineInTime(u) /\ pc'[u] = IF u = C THEN "answer" ELSE pc[u]
      BY <2>1, <2>2 DEF PinTypes
    <3>2. Busy(u)' = Busy(u)
      BY <2>2, <3>1 DEF Busy
    <3>3. QED
      BY <2>2, <3>1, <3>2 DEF LineInTime
  <2>5. InCall' /\ Steady(kernel')
    BY <2>2 DEF PinInv, InCall
  <2>6. QED
    BY <2>3, <2>4, <2>5 DEF PinInv
<1>2. CASE UNCHANGED pins
  BY <1>2 DEF pins, PinInv, PinTypes, InCall, LineInTime, Busy
<1>3. QED
  BY <1>1, <1>2, PollStep, AnswerStep, DoneStep, EndDelayStep, YieldStep, IdleYieldStep,
     TickStep, LineStep DEF Pins!Next, Pins!CPU

LEMMA PinsAnswer == PinInv => Pins!AnsweredInTime
<1> SUFFICES ASSUME PinInv, NEW t \in Task
             PROVE  wait[t] <= (IF t = C THEN 1 + 3 ELSE 1) + late
  BY DEF Pins!AnsweredInTime
<1>1. LineInTime(t) /\ wait[t] \in Nat /\ late \in Nat /\ spun \in 0 .. 3
  BY DEF PinInv, PinTypes
<1>2. Busy(t) <= IF t = C THEN 3 ELSE 0
  BY <1>1 DEF Busy
<1>3. Busy(t) \in Nat
  BY <1>1 DEF Busy
<1>4. QED
  BY <1>1, <1>2, <1>3 DEF LineInTime

-----------------------------------------------------------------------------
(* The specification that runs any of them *)

ProgramsInv == ArraysInv /\ TimingInv /\ PollingInv /\ PinInv

\* The invariants of the three programs hold in every state, for any variables,
\* factors and capacities, any second and any lines.
THEOREM SmallInvariance == Spec => []ProgramsInv
<1>1. Init => ProgramsInv
  BY ArraysStart, TimingStarts, PollingStarts, PinsStart DEF Init, ProgramsInv
<1>2. ProgramsInv /\ [Next]_vars => ProgramsInv'
  BY Steps, ArraysSteps, TimingSteps, PollingSteps, PinsSteps DEF ProgramsInv
<1>3. QED
  BY <1>1, <1>2, PTL DEF Spec

\* array.c:86-90, 96-106: every array and every copy is the sequence of what was
\* inserted and not popped, in both directions and across every growth, as long
\* as nobody has freed its buffer or written over its elements.
THEOREM ArraysStaySequences == Spec => []IsSequence
<1>1. ProgramsInv => IsSequence
  BY ArraysAreSequences DEF ProgramsInv, IsSequence
<1>2. QED
  BY <1>1, SmallInvariance, PTL

\* ex1_time.c:44-54: the busy wait ends at the first reading that is not
\* before the time it was given, whatever garbage the nanoseconds held.
THEOREM BusyWaitEndsInTime == Spec => WaitsWhatItWasGiven
<1>1. ProgramsInv /\ [Next]_vars
        => [Timing!Waited => /\ Timing!Total(now) >= began + asked
                             /\ before < began + asked \/ before = began]_(Timing!timing)
  BY TimingEnds DEF ProgramsInv
<1>2. QED
  BY <1>1, SmallInvariance, PTL DEF Spec, WaitsWhatItWasGiven, Timing!WaitsWhatItWasGiven

\* TaskA.c:41-57: a line is answered within a period and the overhead since it
\* went low, unless its task is deleted first; and that happens only to a line
\* that went low after the last poll, with less time left than the overhead from
\* there to the check took.  For any number of lines and any period.
THEOREM PollingAnswers == Spec => []AnsweredUntilExpiry
<1>1. ProgramsInv => AnsweredUntilExpiry
  BY PollingInTime DEF ProgramsInv
<1>2. QED
  BY <1>1, SmallInvariance, PTL

\* main.c:112-123: pinA and pinB answer within one tick and pinC within that of its
\* delay and the three of its busy wait, beyond the ticks that came too early, at
\* any phase of the tick count and for any length of its turn.
THEOREM PinsAnswerInTime == Spec => []AnsweredInTime
<1>1. ProgramsInv => AnsweredInTime
  BY PinsAnswer DEF ProgramsInv, AnsweredInTime
<1>2. QED
  BY <1>1, SmallInvariance, PTL
=============================================================================
