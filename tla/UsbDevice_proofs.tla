--------------------------- MODULE UsbDevice_proofs ---------------------------
(***************************************************************************)
(* The serial line keeps the bytes in order in both directions, whatever   *)
(* the interrupt does in the middle of a call.  Each direction has an      *)
(* invariant of its own, which says where in the two buffers the bytes     *)
(* are that the history counts.                                            *)
(*                                                                         *)
(* The control endpoint serves the host whatever request it breaks off.    *)
(* Its invariant says, for every state of the driver's machine, what the   *)
(* host has got by then and what it may be waiting for.                    *)
(***************************************************************************)
EXTENDS UsbDevice, SequenceTheorems, TLAPS

Selected(b) == b.buf[b.sel]
Second(b) == b.buf[1 - b.sel]

-----------------------------------------------------------------------------
(* Types *)

Buffer == [0 .. 1 -> Seq(Nat)]
Jobs == [busy : BOOLEAN, buf : Nat, size : Nat, sendZlp : BOOLEAN, sent : BOOLEAN]
Receiver == [buf : Buffer, sel : 0 .. 1, pos : Nat, ongoing : BOOLEAN]
Sender == [buf : Buffer, sel : 0 .. 1, both : BOOLEAN, ongoing : BOOLEAN, sof : Nat]
Signals == SUBSET {"DCD", "OVERRUN"}

Devices ==
  [enabled : SUBSET Line!Endpoint, job : [Line!Endpoint -> Jobs],
   halt : [Line!Endpoint -> {"no", "requested", "on"}], running : BOOLEAN,
   rx : Receiver, tx : Sender, state : Signals, message : Signals, messageOngoing : BOOLEAN]

Typed ==
  /\ device \in Devices /\ frame \in Nat /\ register \in Nat /\ operand \in Nat
  /\ at \in {"selected", "count"} => operand \in 0 .. 1    \* which buffer to count
  /\ stale \in Seq(Nat) /\ unread \in Seq(Nat) /\ unsent \in Seq(Nat) /\ misled \in BOOLEAN

\* The steps of udi_cdc_getc behind its comparison, or in it with a count in
\* hand: a configuration then comes too late.
Past == {"counted", "read", "readSelect", "readPosition", "byte", "increment", "store", "run"}

Getting == Past \cup {"compare", "positioned", "selected", "count", "empty", "start"}
Putting == {"ready", "both", "switch", "select", "again", "full", "retry", "write"}

-----------------------------------------------------------------------------
(* Parts of the device that an operator leaves alone *)

SameReceiver(d, e) ==
  /\ e.rx = d.rx /\ e.job["OUT"] = d.job["OUT"]

SameSender(d, e) ==
  /\ e.tx = d.tx /\ e.job["IN"] = d.job["IN"]
  /\ "IN" \in e.enabled <=> "IN" \in d.enabled

\* What a job is made of.
LEMMA JobsAreTyped ==
  /\ Line!NoJob \in Jobs /\ ~Line!NoJob.busy /\ ~Line!NoJob.sent
  /\ \A buf \in Nat : Line!ReceiveJob(buf) \in Jobs
  /\ \A buf, size \in Nat, short \in BOOLEAN :
       LET job == Line!SendJob(buf, size, short)
       IN  job \in Jobs /\ job.busy /\ ~job.sent /\ job.buf = buf /\ job.size = size
  BY UsbAssumption DEF Line!NoJob, Line!ReceiveJob, Line!SendJob, Jobs

\* A job is accepted or refused, and nothing else changes.
LEMMA EpRunChanges ==
  ASSUME NEW d \in Devices, NEW ep \in Line!Endpoint, NEW job \in Jobs
  PROVE  LET e == Line!EpRun(d, ep, job)
         IN  /\ e \in Devices /\ e.rx = d.rx /\ e.tx = d.tx /\ e.enabled = d.enabled
             /\ e.job[ep] = IF Line!Runs(d, ep) THEN job ELSE d.job[ep]
             /\ \A other \in Line!Endpoint \ {ep} : e.job[other] = d.job[other]
  BY DEF Line!EpRun, Devices

LEMMA EpFreeChanges ==
  ASSUME NEW d \in Devices, NEW eps \in SUBSET Line!Endpoint
  PROVE  LET e == Line!EpFree(d, eps)
         IN  /\ e \in Devices /\ e.rx = d.rx /\ e.tx = d.tx /\ e.enabled = d.enabled \ eps
             /\ \A ep \in Line!Endpoint :
                  e.job[ep] = IF ep \in eps THEN Line!NoJob ELSE d.job[ep]
  BY JobsAreTyped DEF Line!EpFree, Devices

LEMMA EpAllocChanges ==
  ASSUME NEW d \in Devices, NEW eps \in SUBSET Line!Endpoint
  PROVE  LET e == Line!EpAlloc(d, eps)
         IN  /\ e \in Devices /\ e.rx = d.rx /\ e.tx = d.tx /\ e.job = d.job
             /\ e.enabled = d.enabled \cup eps
  BY DEF Line!EpAlloc, Devices

\* Halts concern neither jobs nor buffers.
LEMMA HaltsChange ==
  ASSUME NEW d \in Devices, NEW ep \in Line!Endpoint, NEW banksBusy \in BOOLEAN,
         NEW e, e \in {Line!EpSetHalt(d, ep, banksBusy), Line!EpStall(d, ep), Line!EpClearHalt(d, ep)}
  PROVE  e \in Devices /\ SameReceiver(d, e) /\ SameSender(d, e)
  BY DEF Line!EpSetHalt, Line!EpStall, Line!EpClearHalt, Devices, SameReceiver, SameSender

\* Notifications concern neither direction.
LEMMA NotifyChanges ==
  ASSUME NEW d \in Devices
  PROVE  LET e == Line!Notify(d)
         IN  e \in Devices /\ SameReceiver(d, e) /\ SameSender(d, e)
<1> DEFINE told == [d EXCEPT !.message = d.state, !.messageOngoing = Line!Runs(d, "COMM")]
           job == Line!SendJob(0, 1, FALSE)
<1>1. /\ told \in Devices /\ told.rx = d.rx /\ told.tx = d.tx /\ told.job = d.job
      /\ told.enabled = d.enabled
  BY DEF Devices, Line!Runs
<1>2. job \in Jobs
  BY JobsAreTyped
<1>3. "COMM" \in Line!Endpoint /\ {"IN", "OUT"} \subseteq Line!Endpoint \ {"COMM"}
  BY DEF Line!Endpoint
<1>4. Line!Notify(d) \in {d, Line!EpRun(told, "COMM", job)}
  BY DEF Line!Notify
<1> HIDE DEF told, job
<1>5. LET e == Line!EpRun(told, "COMM", job)
      IN  e \in Devices /\ SameReceiver(d, e) /\ SameSender(d, e)
  BY <1>1, <1>2, <1>3, EpRunChanges DEF SameReceiver, SameSender
<1> QED
  BY <1>4, <1>5 DEF SameReceiver, SameSender

LEMMA MessageSentChanges ==
  ASSUME NEW d \in Devices
  PROVE  LET e == Line!MessageSent(d)
         IN  e \in Devices /\ SameReceiver(d, e) /\ SameSender(d, e)
<1> DEFINE sent == [d EXCEPT !.messageOngoing = FALSE, !.state = @ \ {"OVERRUN"},
                             !.message = @ \ {"OVERRUN"}]
<1>1. sent \in Devices /\ SameReceiver(d, sent) /\ SameSender(d, sent)
  BY DEF Devices, Signals, SameReceiver, SameSender
<1>2. Line!MessageSent(d) = Line!Notify(sent)
  BY DEF Line!MessageSent
<1> HIDE DEF sent
<1> QED
  BY <1>1, <1>2, NotifyChanges DEF SameReceiver, SameSender

-----------------------------------------------------------------------------
(* What starts and ends transfers of data *)

LEMMA TxSendChanges ==
  ASSUME NEW d \in Devices, NEW now \in Nat
  PROVE  LET e == Line!TxSend(d, now)
         IN  e \in Devices /\ SameReceiver(d, e) /\ e.enabled = d.enabled
<1> DEFINE buf == Line!TxBuffer(d.tx)
           size == Len(d.tx.buf[buf])
           short == size # Buffers
           started == [d EXCEPT !.tx.sel = Line!Other(buf), !.tx.ongoing = TRUE,
                                !.tx.sof = IF short THEN now ELSE 0]
           job == Line!SendJob(buf, size, short)
<1>1. buf \in 0 .. 1 /\ Line!Other(buf) \in 0 .. 1
  BY DEF Line!TxBuffer, Line!Other, Devices, Sender
<1>2. size \in Nat /\ short \in BOOLEAN
  BY <1>1 DEF Devices, Sender, Buffer
<1> HIDE DEF buf, size, short
<1>3. started \in Devices /\ SameReceiver(d, started) /\ started.enabled = d.enabled
  BY <1>1, <1>2 DEF Devices, Sender, SameReceiver
<1>4. job \in Jobs
  BY <1>1, <1>2, JobsAreTyped
<1>5. "IN" \in Line!Endpoint /\ "OUT" \in Line!Endpoint \ {"IN"}
  BY DEF Line!Endpoint
<1>6. Line!TxSend(d, now) \in {d, Line!EpRun(started, "IN", job)}
  BY DEF Line!TxSend, buf, size, short
<1> HIDE DEF started, job
<1>7. LET e == Line!EpRun(started, "IN", job)
      IN  e \in Devices /\ SameReceiver(d, e) /\ e.enabled = d.enabled
  BY <1>3, <1>4, <1>5, EpRunChanges DEF SameReceiver
<1> QED
  BY <1>6, <1>7 DEF SameReceiver

LEMMA DataSentChanges ==
  ASSUME NEW d \in Devices, NEW now \in Nat
  PROVE  LET e == Line!DataSent(d, now)
         IN  e \in Devices /\ SameReceiver(d, e) /\ e.enabled = d.enabled
<1> DEFINE sent == [d EXCEPT !.tx.buf[Line!Other(d.tx.sel)] = <<>>,
                             !.tx.both = FALSE, !.tx.ongoing = FALSE]
<1>1. sent \in Devices /\ SameReceiver(d, sent) /\ sent.enabled = d.enabled
  <2>1. Line!Other(d.tx.sel) \in 0 .. 1 /\ <<>> \in Seq(Nat)
    BY DEF Line!Other, Devices, Sender
  <2> QED
    BY <2>1 DEF Devices, Sender, Buffer, SameReceiver
<1>2. Line!DataSent(d, now) = Line!TxSend(sent, now)
  BY DEF Line!DataSent
<1> HIDE DEF sent
<1> QED
  BY <1>1, <1>2, TxSendChanges DEF SameReceiver

LEMMA RxSwitchChanges ==
  ASSUME NEW d \in Devices
  PROVE  LET e == Line!RxSwitch(d)
         IN  /\ e \in Devices /\ SameSender(d, e) /\ e.job = d.job /\ e.enabled = d.enabled
             /\ e.rx = [buf |-> d.rx.buf, sel |-> 1 - d.rx.sel, pos |-> 0, ongoing |-> TRUE]
<1> DEFINE e == Line!RxSwitch(d)
           new == [buf |-> d.rx.buf, sel |-> 1 - d.rx.sel, pos |-> 0, ongoing |-> TRUE]
<1>1. new \in Receiver
  BY DEF Devices, Receiver
<1>2. e.rx = new
  BY DEF Line!RxSwitch, Line!Other, Devices, Receiver
<1>3. e = [d EXCEPT !.rx = new]
  BY <1>2 DEF Line!RxSwitch, Devices
<1> HIDE DEF e, new
<1>4. e \in Devices /\ SameSender(d, e) /\ e.job = d.job /\ e.enabled = d.enabled
  BY <1>1, <1>3 DEF Devices, SameSender
<1> QED
  BY <1>2, <1>4 DEF e, new

LEMMA RxRunChanges ==
  ASSUME NEW d \in Devices, NEW buf \in Nat
  PROVE  LET e == Line!RxRun(d, buf)
         IN  e \in Devices /\ SameSender(d, e) /\ e.rx = d.rx /\ e.enabled = d.enabled
<1>1. "OUT" \in Line!Endpoint /\ "IN" \in Line!Endpoint \ {"OUT"}
  BY DEF Line!Endpoint
<1> QED
  BY <1>1, JobsAreTyped, EpRunChanges DEF Line!RxRun, SameSender

\* Starting to receive: either the device stays as it is, or it reads the
\* second buffer next and receives into the other.
LEMMA RxStartChanges ==
  ASSUME NEW d \in Devices
  PROVE  LET e == Line!RxStart(d)
         IN  /\ e \in Devices /\ SameSender(d, e) /\ e.enabled = d.enabled
             /\ ~Line!RxMayStart(d) => e = d
             /\ Line!RxMayStart(d) =>
                  e.rx = [buf |-> d.rx.buf, sel |-> 1 - d.rx.sel, pos |-> 0, ongoing |-> TRUE]
<1>1. d.rx.sel \in Nat
  BY DEF Devices, Receiver
<1>2. Line!RxStart(d) = IF Line!RxMayStart(d) THEN Line!RxRun(Line!RxSwitch(d), d.rx.sel) ELSE d
  BY DEF Line!RxStart
<1>3. LET s == Line!RxSwitch(d)
      IN  /\ s \in Devices /\ SameSender(d, s) /\ s.enabled = d.enabled
          /\ s.rx = [buf |-> d.rx.buf, sel |-> 1 - d.rx.sel, pos |-> 0, ongoing |-> TRUE]
  BY RxSwitchChanges
<1>4. LET e == Line!RxRun(Line!RxSwitch(d), d.rx.sel)
      IN  /\ e \in Devices /\ SameSender(d, e) /\ e.enabled = d.enabled
          /\ e.rx = [buf |-> d.rx.buf, sel |-> 1 - d.rx.sel, pos |-> 0, ongoing |-> TRUE]
  BY <1>1, <1>3, RxRunChanges DEF SameSender
<1> QED
  BY <1>2, <1>4 DEF SameSender

LEMMA DataReceivedChanges ==
  ASSUME NEW d \in Devices, NEW data \in Seq(Nat)
  PROVE  LET filled == [d EXCEPT !.rx.buf[Line!Other(d.rx.sel)] = data, !.rx.ongoing = FALSE]
             e == Line!DataReceived(d, data)
         IN  /\ e \in Devices /\ SameSender(d, e)
             /\ filled \in Devices /\ filled.job = d.job /\ e = Line!RxStart(filled)
             /\ filled.rx = [buf |-> [d.rx.buf EXCEPT ![1 - d.rx.sel] = data],
                             sel |-> d.rx.sel, pos |-> d.rx.pos, ongoing |-> FALSE]
<1> DEFINE filled == [d EXCEPT !.rx.buf[Line!Other(d.rx.sel)] = data, !.rx.ongoing = FALSE]
<1>1. filled \in Devices /\ filled.job = d.job /\ SameSender(d, filled)
  <2>1. Line!Other(d.rx.sel) \in 0 .. 1
    BY DEF Line!Other, Devices, Receiver
  <2> QED
    BY <2>1 DEF Devices, Receiver, Buffer, SameSender
<1>2. filled.rx = [buf |-> [d.rx.buf EXCEPT ![1 - d.rx.sel] = data],
                   sel |-> d.rx.sel, pos |-> d.rx.pos, ongoing |-> FALSE]
  BY DEF Line!Other, Devices, Receiver
<1>3. Line!DataReceived(d, data) = Line!RxStart(filled)
  BY DEF Line!DataReceived
<1> HIDE DEF filled
<1>4. LET e == Line!RxStart(filled) IN e \in Devices /\ SameSender(d, e)
  BY <1>1, RxStartChanges DEF SameSender
<1> QED
  BY <1>1, <1>2, <1>3, <1>4 DEF filled

-----------------------------------------------------------------------------
(* Sending *)

\* Where the bytes u are that have been written and not yet sent: the second
\* buffer goes first, unless it has been sent and only an empty packet, or the
\* next configuration, is left to come.  A job sends the whole second buffer,
\* and nobody writes into it: it is empty unless a transfer is under way, or
\* the writer has switched the buffers itself.
Sending(d, u) ==
  LET tx == d.tx
      job == d.job["IN"]
  IN  /\ \A i \in 0 .. 1 : Len(tx.buf[i]) <= Buffers
      /\ job.busy => /\ "IN" \in d.enabled /\ tx.ongoing
                     /\ job.buf = 1 - tx.sel /\ job.size = Len(Second(tx))
      /\ job.sent => job.busy
      /\ \/ u = Second(tx) \o Selected(tx) /\ ~job.sent
         \/ u = Selected(tx) /\ tx.ongoing /\ (job.sent \/ "IN" \notin d.enabled)
      /\ ~tx.ongoing /\ ~tx.both => Second(tx) = <<>>

\* What the interrupt may do to the buffer that is being written: nothing, or
\* give the writer an empty one.
Spares(d, e) ==
  /\ e.tx.both => d.tx.both
  /\ \/ e.tx.sel = d.tx.sel /\ Selected(e.tx) = Selected(d.tx)
     \/ Selected(e.tx) = <<>>

\* The writer has room where it goes on.
Writing(d) ==
  LET tx == d.tx
  IN  /\ at = "switch" => ~tx.both
      /\ at \in {"ready", "again"} => register = tx.sel \/ Len(Selected(tx)) < Buffers
      /\ at = "write" => Len(Selected(tx)) < Buffers

SendInv == Sending(device, unsent) /\ Writing(device)

LEMMA SenderParts ==
  ASSUME NEW d \in Devices
  PROVE  /\ d.tx.sel \in 0 .. 1 /\ 1 - d.tx.sel \in 0 .. 1
         /\ d.tx.buf[0] \in Seq(Nat) /\ d.tx.buf[1] \in Seq(Nat)
         /\ Selected(d.tx) \in Seq(Nat) /\ Second(d.tx) \in Seq(Nat)
         /\ d.tx.both \in BOOLEAN /\ d.tx.ongoing \in BOOLEAN
  BY DEF Devices, Sender, Buffer, Selected, Second

LEMMA SameSending ==
  ASSUME NEW d \in Devices, NEW e \in Devices, NEW u \in Seq(Nat), Sending(d, u), SameSender(d, e)
  PROVE  Sending(e, u) /\ Spares(d, e)
  BY DEF Sending, Spares, SameSender

\* Starting to send a buffer, if it is started at all.
LEMMA TxSendSends ==
  ASSUME NEW d \in Devices, NEW now \in Nat, NEW u \in Seq(Nat), Sending(d, u)
  PROVE  LET e == Line!TxSend(d, now) IN Sending(e, u) /\ Spares(d, e)
<1> DEFINE e == Line!TxSend(d, now)
<1>1. CASE d.tx.ongoing \/ d.tx.sof = now
  BY <1>1 DEF Line!TxSend, Spares
<1>2. CASE ~(d.tx.ongoing \/ d.tx.sof = now)
  <2> DEFINE buf == Line!TxBuffer(d.tx)
             size == Len(d.tx.buf[buf])
             short == size # Buffers
             new == [buf |-> d.tx.buf, sel |-> 1 - buf, both |-> d.tx.both, ongoing |-> TRUE,
                     sof |-> IF short THEN now ELSE 0]
             started == [d EXCEPT !.tx.sel = Line!Other(buf), !.tx.ongoing = TRUE,
                                  !.tx.sof = IF short THEN now ELSE 0]
             job == Line!SendJob(buf, size, short)
  <2>1. buf \in 0 .. 1 /\ 1 - buf \in 0 .. 1 /\ buf \in Nat
    BY DEF Line!TxBuffer, Line!Other, Devices, Sender
  <2>2. size \in Nat /\ short \in BOOLEAN
    BY <2>1 DEF Devices, Sender, Buffer
  <2>3. /\ d.tx.both => buf = 1 - d.tx.sel /\ 1 - buf = d.tx.sel
        /\ ~d.tx.both => buf = d.tx.sel
    <3>1. buf = IF d.tx.both THEN 1 - d.tx.sel ELSE d.tx.sel
      BY DEF Line!TxBuffer, Line!Other
    <3>2. 1 - (1 - d.tx.sel) = d.tx.sel
      <4>1. d.tx.sel \in 0 .. 1
        BY SenderParts
      <4> QED
        BY <4>1
    <3> HIDE DEF buf
    <3> QED
      BY <3>1, <3>2
  <2>4. e = Line!EpRun(started, "IN", job)
    BY <1>2 DEF Line!TxSend
  <2>5. size = Len(d.tx.buf[buf])
    OBVIOUS
  <2> HIDE DEF buf, size, short
  <2>6. new \in Sender
    BY <2>1, <2>2 DEF Devices, Sender
  <2>7. started.tx = new
    BY DEF Devices, Sender, Line!Other
  <2>8. started = [d EXCEPT !.tx = new]
    BY <2>7 DEF Devices
  <2> HIDE DEF started
  <2>9. started \in Devices /\ started.tx = new /\ started.job = d.job /\ started.enabled = d.enabled
    BY <2>6, <2>8 DEF Devices
  <2>10. /\ job \in Jobs /\ job.busy /\ ~job.sent /\ job.buf = buf /\ job.size = size
    BY <2>1, <2>2, JobsAreTyped
  <2> HIDE DEF job
  <2>11. "IN" \in Line!Endpoint
    BY DEF Line!Endpoint
  <2>12. /\ e.tx = new /\ e.enabled = d.enabled
         /\ e.job["IN"] = IF Line!Runs(started, "IN") THEN job ELSE d.job["IN"]
    BY <2>4, <2>9, <2>10, <2>11, EpRunChanges
  <2>13. Line!Runs(started, "IN") => "IN" \in d.enabled
    BY <2>9 DEF Line!Runs
  <2>14. Selected(new) = d.tx.buf[1 - buf] /\ Second(new) = d.tx.buf[buf]
    BY <2>1 DEF Selected, Second
  <2>15. ~d.job["IN"].busy /\ ~d.job["IN"].sent /\ u = Second(d.tx) \o Selected(d.tx)
    BY <1>2 DEF Sending
  <2>16. ~d.tx.both => Second(d.tx) = <<>>
    BY <1>2, SenderParts DEF Sending
  <2>17. u = d.tx.buf[buf] \o d.tx.buf[1 - buf]
    <3>1. CASE d.tx.both
      BY <2>3, <2>15, <3>1 DEF Selected, Second
    <3>2. CASE ~d.tx.both
      <4>1. u = <<>> \o Selected(d.tx) /\ d.tx.buf[1 - buf] = <<>>
        BY <2>3, <2>15, <2>16, <3>2 DEF Second
      <4>2. Selected(d.tx) = d.tx.buf[buf] /\ Selected(d.tx) \in Seq(Nat)
        BY <2>3, <3>2, SenderParts DEF Selected
      <4> QED
        BY <4>1, <4>2, ConcatEmptySeq, Zenon
    <3> QED
      BY <3>1, <3>2
  <2> HIDE DEF e
  <2>18. Sending(e, u)
    <3>1. \A i \in 0 .. 1 : Len(e.tx.buf[i]) <= Buffers
      BY <2>12 DEF Sending
    <3>2. /\ e.job["IN"].busy => /\ "IN" \in e.enabled /\ e.tx.ongoing /\ e.job["IN"].buf = 1 - e.tx.sel
                                 /\ e.job["IN"].size = Len(Second(e.tx))
          /\ ~e.job["IN"].sent
      BY <2>1, <2>5, <2>10, <2>12, <2>13, <2>14, <2>15
    <3>3. u = Second(e.tx) \o Selected(e.tx)
      BY <2>12, <2>14, <2>17
    <3>4. e.tx.ongoing
      BY <2>12
    <3> QED
      BY <3>1, <3>2, <3>3, <3>4 DEF Sending
  <2>19. Spares(d, e)
    <3>1. e.tx.both = d.tx.both /\ e.tx.sel = 1 - buf /\ Selected(e.tx) = d.tx.buf[1 - buf]
      BY <2>12, <2>14
    <3>2. CASE d.tx.both
      BY <2>3, <3>1, <3>2 DEF Spares, Selected
    <3>3. CASE ~d.tx.both
      BY <2>3, <2>16, <3>1, <3>3 DEF Spares, Second
    <3> QED
      BY <3>2, <3>3, SenderParts
  <2> QED
    BY <2>18, <2>19 DEF e
<1> QED
  BY <1>1, <1>2

\* A buffer has been sent: it is empty, and the other may go next.
LEMMA DataSentSends ==
  ASSUME NEW d \in Devices, NEW now \in Nat,
         \A i \in 0 .. 1 : Len(d.tx.buf[i]) <= Buffers,
         ~d.job["IN"].busy, ~d.job["IN"].sent
  PROVE  LET e == Line!DataSent(d, now) IN Sending(e, Selected(d.tx)) /\ Spares(d, e)
<1> DEFINE u == Selected(d.tx)
           new == [buf |-> [d.tx.buf EXCEPT ![1 - d.tx.sel] = <<>>], sel |-> d.tx.sel,
                   both |-> FALSE, ongoing |-> FALSE, sof |-> d.tx.sof]
           sent == [d EXCEPT !.tx.buf[Line!Other(d.tx.sel)] = <<>>,
                             !.tx.both = FALSE, !.tx.ongoing = FALSE]
<1>1. new \in Sender
  <2>1. <<>> \in Seq(Nat)
    OBVIOUS
  <2> QED
    BY <2>1, SenderParts DEF Devices, Sender, Buffer
<1>2. sent.tx = new
  BY DEF Devices, Sender, Line!Other
<1>3. sent = [d EXCEPT !.tx = new]
  BY <1>2 DEF Devices
<1>4. /\ \A i \in 0 .. 1 : Len(new.buf[i]) <= Buffers
      /\ Second(new) = <<>> /\ Selected(new) = u
  <2>1. new.buf[1 - d.tx.sel] = <<>> /\ new.buf[d.tx.sel] = d.tx.buf[d.tx.sel] /\ new.sel = d.tx.sel
    BY SenderParts DEF Devices, Sender, Buffer
  <2>2. Len(d.tx.buf[d.tx.sel]) <= Buffers /\ Len(<<>>) <= Buffers
    <3>1. d.tx.sel \in 0 .. 1 /\ Len(<<>>) = 0 /\ Buffers \in Nat
      BY SenderParts, UsbAssumption
    <3> QED
      BY <3>1
  <2>3. \A i \in 0 .. 1 : i = d.tx.sel \/ i = 1 - d.tx.sel
    BY SenderParts
  <2> HIDE DEF new
  <2> QED
    BY <2>1, <2>2, <2>3 DEF Selected, Second
<1> HIDE DEF sent
<1>5. sent \in Devices /\ sent.tx = new /\ sent.job = d.job /\ ~new.ongoing /\ ~new.both
  BY <1>1, <1>3 DEF Devices
<1> HIDE DEF new
<1>6. u = Second(sent.tx) \o Selected(sent.tx)
  <2>1. u \in Seq(Nat)
    BY SenderParts
  <2> QED
    BY <1>4, <1>5, <2>1, ConcatEmptySeq, Zenon
<1>7. Sending(sent, u)
  BY <1>4, <1>5, <1>6 DEF Sending
<1>8. Line!DataSent(d, now) = Line!TxSend(sent, now)
  BY DEF Line!DataSent, sent
<1>9. u \in Seq(Nat)
  BY SenderParts
<1>10. Sending(Line!DataSent(d, now), u) /\ Spares(sent, Line!DataSent(d, now))
  BY <1>5, <1>7, <1>8, <1>9, TxSendSends
<1>11. sent.tx.sel = d.tx.sel /\ Selected(sent.tx) = Selected(d.tx) /\ ~sent.tx.both
  BY <1>4, <1>5 DEF new
<1> QED
  BY <1>10, <1>11 DEF Spares

-----------------------------------------------------------------------------
(* Enabling and disabling the interfaces *)

LEMMA FreeChanges ==
  ASSUME NEW d \in Devices, NEW eps \in SUBSET Line!Endpoint
  PROVE  LET e == Line!Free(d, eps)
         IN  /\ e \in Devices /\ e.rx = d.rx /\ e.tx = d.tx
             /\ \A ep \in {"IN", "OUT"} : e.job[ep] = IF ep \in eps THEN Line!NoJob ELSE d.job[ep]
             /\ "IN" \in e.enabled <=> "IN" \in d.enabled \ eps
<1> DEFINE freed == Line!EpFree(d, eps)
<1>1. {"IN", "OUT"} \subseteq Line!Endpoint
  BY DEF Line!Endpoint
<1>2. /\ freed \in Devices /\ freed.rx = d.rx /\ freed.tx = d.tx /\ freed.enabled = d.enabled \ eps
      /\ \A ep \in {"IN", "OUT"} : freed.job[ep] = IF ep \in eps THEN Line!NoJob ELSE d.job[ep]
  BY <1>1, EpFreeChanges
<1>3. Line!Free(d, eps) \in {freed, Line!MessageSent(freed)}
  BY DEF Line!Free
<1> HIDE DEF freed
<1>4. LET e == Line!MessageSent(freed)
      IN  e \in Devices /\ SameReceiver(freed, e) /\ SameSender(freed, e)
  BY <1>2, MessageSentChanges
<1> QED
  BY <1>2, <1>3, <1>4 DEF SameReceiver, SameSender

LEMMA CommDisableChanges ==
  ASSUME NEW d \in Devices
  PROVE  LET e == Line!CommDisable(d)
         IN  e \in Devices /\ SameReceiver(d, e) /\ SameSender(d, e)
<1> DEFINE freed == Line!Free(d, {"COMM"})
<1>1. {"COMM"} \in SUBSET Line!Endpoint
  BY DEF Line!Endpoint
<1>2. freed \in Devices /\ SameReceiver(d, freed) /\ SameSender(d, freed)
  BY <1>1, FreeChanges DEF SameReceiver, SameSender
<1>3. Line!CommDisable(d) = [freed EXCEPT !.running = FALSE]
  BY DEF Line!CommDisable
<1> HIDE DEF freed
<1> QED
  BY <1>2, <1>3 DEF Devices, SameReceiver, SameSender

LEMMA CommEnableChanges ==
  ASSUME NEW d \in Devices
  PROVE  LET e == Line!CommEnable(d)
         IN  e \in Devices /\ SameReceiver(d, e) /\ SameSender(d, e)
<1> DEFINE alloc == Line!EpAlloc(d, {"COMM"})
<1>1. {"COMM"} \in SUBSET Line!Endpoint
  BY DEF Line!Endpoint
<1>2. alloc \in Devices /\ SameReceiver(d, alloc) /\ SameSender(d, alloc)
  BY <1>1, EpAllocChanges DEF SameReceiver, SameSender
<1>3. Line!CommEnable(d) = [alloc EXCEPT !.state = {}, !.message = {}]
  BY DEF Line!CommEnable
<1> HIDE DEF alloc
<1> QED
  BY <1>2, <1>3 DEF Devices, Signals, SameReceiver, SameSender

LEMMA DataDisableChanges ==
  ASSUME NEW d \in Devices
  PROVE  LET e == Line!DataDisable(d)
         IN  /\ e \in Devices /\ e.rx = d.rx /\ e.tx = d.tx /\ "IN" \notin e.enabled
             /\ e.job["IN"] = Line!NoJob /\ e.job["OUT"] = Line!NoJob
<1>1. {"IN", "OUT"} \in SUBSET Line!Endpoint
  BY DEF Line!Endpoint
<1> QED
  BY <1>1, FreeChanges DEF Line!DataDisable

\* What the application finds when the line has just been enabled.
LEMMA DataEnableChanges ==
  ASSUME NEW d \in Devices, NEW now \in Nat, d.job["IN"] = Line!NoJob
  PROVE  LET e == Line!DataEnable(d, now)
         IN  /\ e \in Devices
             /\ Sending(e, <<>>) /\ ~e.tx.both /\ Selected(e.tx) = <<>>
             /\ e.rx = [buf |-> [d.rx.buf EXCEPT ![0] = <<>>], sel |-> 1, pos |-> 0,
                        ongoing |-> TRUE]
<1> DEFINE new == [buf |-> [i \in 0 .. 1 |-> <<>>], sel |-> 0,
                   both |-> FALSE, ongoing |-> FALSE, sof |-> 0]
           alloc == Line!EpAlloc(d, {"IN", "OUT"})
           cleared == [alloc EXCEPT !.tx = new]
           tx == Line!TxSend(cleared, now)
           empty == [buf |-> [d.rx.buf EXCEPT ![0] = <<>>], sel |-> 0, pos |-> 0, ongoing |-> FALSE]
           rx == [tx EXCEPT !.rx.ongoing = FALSE, !.rx.sel = 0, !.rx.buf[0] = <<>>, !.rx.pos = 0]
           started == Line!RxStart(rx)
<1>1. {"IN", "OUT"} \in SUBSET Line!Endpoint /\ <<>> \in Seq(Nat)
  BY DEF Line!Endpoint
<1>2. alloc \in Devices /\ alloc.rx = d.rx /\ alloc.job = d.job
  BY <1>1, EpAllocChanges
<1>3. new \in Sender
  BY <1>1 DEF Sender, Buffer
<1> HIDE DEF alloc
<1>4. cleared \in Devices /\ cleared.tx = new /\ cleared.rx = d.rx /\ cleared.job = d.job
  BY <1>2, <1>3 DEF Devices
<1>5. Sending(cleared, <<>>)
  <2>1. Second(new) = <<>> /\ Selected(new) = <<>> /\ ~new.both /\ ~new.ongoing
    BY DEF Second, Selected
  <2>2. \A i \in 0 .. 1 : Len(new.buf[i]) <= Buffers
    BY UsbAssumption
  <2>3. <<>> = <<>> \o <<>>
    BY <1>1, ConcatEmptySeq, Zenon
  <2> HIDE DEF new, cleared
  <2> QED
    BY <1>4, <2>1, <2>2, <2>3, JobsAreTyped DEF Sending
<1>6. ~cleared.tx.both /\ Selected(cleared.tx) = <<>>
  BY <1>4 DEF Selected
<1> HIDE DEF new, cleared
<1>7. tx \in Devices /\ tx.rx = d.rx
  BY <1>4, TxSendChanges DEF SameReceiver
<1>8. Sending(tx, <<>>) /\ ~tx.tx.both /\ Selected(tx.tx) = <<>>
  BY <1>1, <1>4, <1>5, <1>6, TxSendSends DEF Spares
<1> HIDE DEF tx
<1>9. empty \in Receiver
  BY <1>1, <1>7 DEF Devices, Receiver, Buffer
<1>10. rx.rx = empty
  BY <1>7 DEF Devices, Receiver
<1>11. rx = [tx EXCEPT !.rx = empty]
  BY <1>7, <1>10 DEF Devices
<1> HIDE DEF rx
<1>12. rx \in Devices /\ rx.rx = empty /\ SameSender(tx, rx)
  BY <1>7, <1>9, <1>11 DEF Devices, SameSender
<1>13. Line!RxMayStart(rx)
  <2>1. rx.rx.buf[rx.rx.sel] = <<>> /\ rx.rx.pos = 0 /\ ~rx.rx.ongoing
    BY <1>7, <1>12 DEF Devices, Receiver, Buffer
  <2> HIDE DEF empty
  <2> QED
    BY <2>1 DEF Line!RxMayStart, Line!RxReady
<1>14. /\ started \in Devices /\ SameSender(rx, started)
       /\ started.rx = [buf |-> rx.rx.buf, sel |-> 1 - rx.rx.sel, pos |-> 0, ongoing |-> TRUE]
  BY <1>12, <1>13, RxStartChanges
<1>15. started.rx = [buf |-> [d.rx.buf EXCEPT ![0] = <<>>], sel |-> 1, pos |-> 0, ongoing |-> TRUE]
  BY <1>12, <1>14
<1>16. Line!DataEnable(d, now) =
         [started EXCEPT !.running = Line!RxMayStart(rx) /\ Line!Runs(rx, "OUT")]
  BY DEF Line!DataEnable, rx, tx, cleared, alloc, new
<1> HIDE DEF started
<1>17. LET e == Line!DataEnable(d, now)
       IN  e \in Devices /\ SameSender(started, e) /\ e.rx = started.rx
  BY <1>14, <1>16 DEF Devices, SameSender, Line!Runs, Line!RxMayStart
<1>18. LET e == Line!DataEnable(d, now) IN SameSender(tx, e)
  BY <1>12, <1>14, <1>17 DEF SameSender
<1>19. LET e == Line!DataEnable(d, now) IN Sending(e, <<>>) /\ ~e.tx.both /\ Selected(e.tx) = <<>>
  <2>1. Sending(Line!DataEnable(d, now), <<>>)
    BY <1>1, <1>7, <1>8, <1>17, <1>18, SameSending
  <2> QED
    BY <1>8, <1>18, <2>1 DEF SameSender
<1> QED
  BY <1>15, <1>17, <1>19

-----------------------------------------------------------------------------
(* Types are kept *)

LEMMA SuccessorIsByte ==
  ASSUME NEW s \in Seq(Nat)
  PROVE  Line!Successor(s) \in Nat
<1>1. \A a \in Nat : a % Values \in Nat
  BY UsbAssumption
<1>2. CASE s = <<>>
  BY <1>2 DEF Line!Successor
<1>3. CASE s # <<>>
  <2>1. s[Len(s)] \in Nat
    BY <1>3, EmptySeq
  <2> QED
    <3>1. Line!Successor(s) = (s[Len(s)] + 1) % Values
      BY <1>3 DEF Line!Successor, Line!Last
    <3>2. s[Len(s)] + 1 \in Nat
      BY <2>1
    <3> QED
      BY <1>1, <3>1, <3>2
<1> QED
  BY <1>2, <1>3

\* A device whose job has just ended.
LEMMA JobEnds ==
  ASSUME NEW d \in Devices, NEW ep \in Line!Endpoint
  PROVE  LET e == [d EXCEPT !.job[ep] = Line!NoJob]
         IN  /\ e \in Devices /\ e.rx = d.rx /\ e.tx = d.tx /\ e.enabled = d.enabled
             /\ e.job[ep] = Line!NoJob
             /\ \A other \in Line!Endpoint \ {ep} : e.job[other] = d.job[other]
  BY JobsAreTyped DEF Devices

LEMMA JobIsSent ==
  ASSUME NEW d \in Devices
  PROVE  LET e == [d EXCEPT !.job["IN"].sent = TRUE]
         IN  /\ e \in Devices /\ SameReceiver(d, e) /\ e.tx = d.tx /\ e.enabled = d.enabled
             /\ e.job["IN"] = [d.job["IN"] EXCEPT !.sent = TRUE]
<1> DEFINE job == [d.job["IN"] EXCEPT !.sent = TRUE]
           e == [d EXCEPT !.job["IN"].sent = TRUE]
<1>1. "IN" \in Line!Endpoint /\ "OUT" \in Line!Endpoint /\ d.job["IN"] \in Jobs
  BY DEF Line!Endpoint, Devices
<1>2. job \in Jobs
  BY <1>1 DEF Jobs
<1>3. e = [d EXCEPT !.job["IN"] = job]
  BY <1>1 DEF Devices
<1> HIDE DEF job, e
<1>4. e \in Devices /\ SameReceiver(d, e) /\ e.tx = d.tx /\ e.enabled = d.enabled /\ e.job["IN"] = job
  BY <1>1, <1>2, <1>3 DEF Devices, SameReceiver
<1> QED
  BY <1>4 DEF job, e

LEMMA InitIsTyped == Line!Init => Typed
<1> SUFFICES ASSUME Line!Init PROVE Typed
  OBVIOUS
<1>1. <<>> \in Seq(Nat) /\ 0 \in Nat
  OBVIOUS
<1>2. [i \in 0 .. 1 |-> <<>>] \in Buffer
  BY <1>1 DEF Buffer
<1>3. Line!NewDevice \in Devices
  BY <1>1, <1>2, JobsAreTyped
  DEF Line!NewDevice, Line!NewJobs, Devices, Receiver, Sender, Signals
<1> QED
  BY <1>1, <1>3 DEF Line!Init, Typed

LEMMA DueIsTyped == Typed => Line!Due \in Seq(Nat)
  BY ConcatProperties, Zenon DEF Typed, Line!Due

LEMMA OwedIsTyped ==
  ASSUME NEW left \in Seq(Nat), NEW new \in Seq(Nat), NEW wrong \in BOOLEAN,
         Line!Owes(left, new, wrong)
  PROVE  stale' \in Seq(Nat) /\ unread' \in Seq(Nat) /\ misled' \in BOOLEAN
<1>1. <<>> \in Seq(Nat)
  OBVIOUS
<1> QED
  BY <1>1 DEF Line!Owes

LEMMA ReceptionIsTyped ==
  ASSUME Typed, NEW n \in 0 .. Buffers, Line!OutDone(n)
  PROVE  Typed'
<1> DEFINE data == [i \in 1 .. n |-> (Line!Successor(Line!Due) + i - 1) % Values]
           ended == [device EXCEPT !.job["OUT"] = Line!NoJob]
<1>1. data \in Seq(Nat)
  <2>1. n \in Nat
    BY UsbAssumption
  <2>2. \A i \in 1 .. n : (Line!Successor(Line!Due) + i - 1) % Values \in Nat
    BY UsbAssumption, DueIsTyped, SuccessorIsByte
  <2>3. data \in [1 .. n -> Nat]
    BY <2>2
  <2> QED
    BY <2>1, <2>3
<1>2. ended \in Devices
  BY JobEnds DEF Typed, Line!Endpoint
<1> DEFINE wrong == misled \/ (n = 0 /\ at \in {"selected", "counted"} /\ ~Line!RxReady(device))
<1>3. /\ device' = Line!DataReceived(ended, data) /\ Line!Owes(stale, unread \o data, wrong)
      /\ UNCHANGED <<at, register, operand, frame, unsent>>
  BY DEF Line!OutDone, Line!Handle
<1>6. wrong \in BOOLEAN
  BY DEF Typed
<1> HIDE DEF data, ended, wrong
<1>4. device' \in Devices
  BY <1>1, <1>2, <1>3, DataReceivedChanges
<1>5. unread \o data \in Seq(Nat)
  BY <1>1, ConcatProperties, Zenon DEF Typed
<1>7. stale' \in Seq(Nat) /\ unread' \in Seq(Nat) /\ misled' \in BOOLEAN
  BY <1>3, <1>5, <1>6, OwedIsTyped DEF Typed
<1> QED
  BY <1>3, <1>4, <1>7 DEF Typed

LEMMA SendingIsTyped ==
  ASSUME Typed, Line!InDone \/ Line!InZlp \/ Line!Sof
  PROVE  Typed'
<1>1. "IN" \in Line!Endpoint
  BY DEF Line!Endpoint
<1> DEFINE ended == [device EXCEPT !.job["IN"] = Line!NoJob]
           sent == [device EXCEPT !.job["IN"].sent = TRUE]
<1>2. ended \in Devices /\ sent \in Devices
  BY <1>1, JobEnds, JobIsSent DEF Typed
<1>3. CASE Line!InDone
  <2>1. /\ device' \in {sent, Line!DataSent(ended, frame)}
        /\ unsent' = SubSeq(unsent, device.job["IN"].size + 1, Len(unsent))
        /\ UNCHANGED <<at, register, operand, frame, stale, unread, misled>>
    BY <1>3 DEF Line!InDone, Line!Handle
  <2>2. unsent' \in Seq(Nat)
    <3>1. device.job["IN"].size \in Nat /\ Len(unsent) \in Nat
      BY <1>1 DEF Typed, Devices, Jobs
    <3>2. \A i \in device.job["IN"].size + 1 .. Len(unsent) : unsent[i] \in Nat
      BY <3>1 DEF Typed
    <3> QED
      BY <2>1, <3>1, <3>2, SubSeqProperties
  <2> HIDE DEF ended, sent
  <2> QED
    BY <1>2, <2>1, <2>2, DataSentChanges DEF Typed
<1>4. CASE Line!InZlp
  <2>1. device' = Line!DataSent(ended, frame) /\ UNCHANGED <<at, register, operand, frame, stale, unread, unsent, misled>>
    BY <1>4 DEF Line!InZlp, Line!Handle, Line!Histories
  <2> HIDE DEF ended
  <2> QED
    BY <1>2, <2>1, DataSentChanges DEF Typed
<1>5. CASE Line!Sof
  <2>1. device' = Line!TxSend(device, frame') /\ frame' = (frame + 1) % Frames
        /\ UNCHANGED <<at, register, operand, stale, unread, unsent, misled>>
    BY <1>5 DEF Line!Sof, Line!Handle, Line!Histories
  <2>2. frame' \in Nat
    BY <2>1, UsbAssumption DEF Typed
  <2> QED
    BY <2>1, <2>2, TxSendChanges DEF Typed
<1> QED
  BY <1>3, <1>4, <1>5

-----------------------------------------------------------------------------
(* What the host's requests leave *)

LEMMA ConfiguredAnew ==
  ASSUME Typed, Line!SetConfiguration \/ Line!SetDataInterface
  PROVE  /\ device' \in Devices
         /\ Sending(device', <<>>) /\ ~device'.tx.both /\ Selected(device'.tx) = <<>>
         /\ device'.rx = [buf |-> [device.rx.buf EXCEPT ![0] = <<>>], sel |-> 1, pos |-> 0,
                          ongoing |-> TRUE]
         /\ Line!Owes(device.rx.buf[1], <<>>, at \in Past) /\ unsent' = <<>>
         /\ UNCHANGED <<at, register, operand, frame>>
<1>1. PICK d \in Devices : /\ d.rx = device.rx /\ d.job["IN"] = Line!NoJob
                           /\ Line!Enabled(Line!DataEnable(d, frame))
  <2>1. CASE Line!SetConfiguration
    <3> DEFINE off == Line!DataDisable(Line!CommDisable(device))
               on == Line!CommEnable(off)
    <3>1. /\ Line!CommDisable(device) \in Devices
          /\ SameReceiver(device, Line!CommDisable(device))
      BY CommDisableChanges DEF Typed
    <3>2. off \in Devices /\ off.rx = device.rx /\ off.job["IN"] = Line!NoJob
      BY <3>1, DataDisableChanges DEF SameReceiver
    <3>3. Line!Enabled(Line!DataEnable(on, frame))
      BY <2>1 DEF Line!SetConfiguration
    <3> HIDE DEF off
    <3>4. on \in Devices /\ on.rx = device.rx /\ on.job["IN"] = Line!NoJob
      BY <3>2, CommEnableChanges DEF SameReceiver, SameSender
    <3> QED
      BY <3>3, <3>4
  <2>2. CASE Line!SetDataInterface
    <3>1. LET off == Line!DataDisable(device)
          IN  off \in Devices /\ off.rx = device.rx /\ off.job["IN"] = Line!NoJob
      BY DataDisableChanges DEF Typed
    <3> QED
      BY <2>2, <3>1 DEF Line!SetDataInterface
  <2> QED
    BY <2>1, <2>2
<1>2. /\ device' = Line!DataEnable(d, frame) /\ Line!Owes(device'.rx.buf[1], <<>>, at \in Past)
      /\ unsent' = <<>> /\ UNCHANGED <<at, register, operand, frame>>
  BY <1>1 DEF Line!Enabled, Line!Handle, Past
<1>3. /\ device' \in Devices
      /\ Sending(device', <<>>) /\ ~device'.tx.both /\ Selected(device'.tx) = <<>>
      /\ device'.rx = [buf |-> [device.rx.buf EXCEPT ![0] = <<>>], sel |-> 1, pos |-> 0,
                       ongoing |-> TRUE]
  BY <1>1, <1>2, DataEnableChanges DEF Typed
<1>4. device'.rx.buf[1] = device.rx.buf[1]
  BY <1>3 DEF Typed, Devices, Receiver, Buffer
<1> QED
  BY <1>2, <1>3, <1>4

LEMMA DeviceIsReset ==
  ASSUME Typed, Line!Reset
  PROVE  /\ device' \in Devices /\ device'.rx = device.rx /\ device'.tx = device.tx
         /\ "IN" \notin device'.enabled
         /\ device'.job["IN"] = Line!NoJob /\ device'.job["OUT"] = Line!NoJob
         /\ UNCHANGED <<at, register, operand, frame, stale, unread, unsent, misled>>
<1> DEFINE off == Line!CommDisable(device)
<1>1. off \in Devices /\ SameReceiver(device, off) /\ SameSender(device, off)
  BY CommDisableChanges DEF Typed
<1>2. /\ device' = Line!DataDisable(off)
      /\ UNCHANGED <<at, register, operand, frame, stale, unread, unsent, misled>>
  BY DEF Line!Reset, Line!Handle, Line!Histories
<1> HIDE DEF off
<1> QED
  BY <1>1, <1>2, DataDisableChanges DEF SameReceiver, SameSender

\* Interrupts that concern neither direction.
LEMMA NeitherDirection ==
  ASSUME Typed, Line!MessageDone \/ Line!SetCommInterface \/ \E ep \in Line!Endpoint : Line!Halt(ep)
  PROVE  /\ device' \in Devices /\ SameReceiver(device, device') /\ SameSender(device, device')
         /\ UNCHANGED <<at, register, operand, frame, stale, unread, unsent, misled>>
<1>1. CASE Line!MessageDone
  <2> DEFINE ended == [device EXCEPT !.job["COMM"] = Line!NoJob]
  <2>1. ended \in Devices /\ SameReceiver(device, ended) /\ SameSender(device, ended)
    <3>1. "COMM" \in Line!Endpoint /\ {"IN", "OUT"} \subseteq Line!Endpoint \ {"COMM"}
      BY DEF Line!Endpoint
    <3> QED
      BY <3>1, JobEnds DEF Typed, SameReceiver, SameSender
  <2>2. /\ device' = Line!MessageSent(ended)
        /\ UNCHANGED <<at, register, operand, frame, stale, unread, unsent, misled>>
    BY <1>1 DEF Line!MessageDone, Line!Handle, Line!Histories
  <2> HIDE DEF ended
  <2> QED
    BY <2>1, <2>2, MessageSentChanges DEF SameReceiver, SameSender
<1>2. CASE Line!SetCommInterface
  <2> DEFINE off == Line!CommDisable(device)
  <2>1. off \in Devices /\ SameReceiver(device, off) /\ SameSender(device, off)
    BY CommDisableChanges DEF Typed
  <2>2. /\ device' = Line!CommEnable(off)
        /\ UNCHANGED <<at, register, operand, frame, stale, unread, unsent, misled>>
    BY <1>2 DEF Line!SetCommInterface, Line!Handle, Line!Histories
  <2> HIDE DEF off
  <2> QED
    BY <2>1, <2>2, CommEnableChanges DEF SameReceiver, SameSender
<1>3. ASSUME NEW ep \in Line!Endpoint, Line!Halt(ep)
      PROVE  /\ device' \in Devices /\ SameReceiver(device, device') /\ SameSender(device, device')
             /\ UNCHANGED <<at, register, operand, frame, stale, unread, unsent, misled>>
  <2>1. UNCHANGED <<at, register, operand, frame, stale, unread, unsent, misled>>
    BY <1>3 DEF Line!Halt, Line!Handle, Line!Histories
  <2>2. PICK banksBusy \in BOOLEAN :
          device' \in {Line!EpSetHalt(device, ep, banksBusy), Line!EpStall(device, ep),
                       Line!EpClearHalt(device, ep)}
    BY <1>3 DEF Line!Halt, Line!Handle
  <2>3. device \in Devices
    BY DEF Typed
  <2>4. device' \in Devices /\ SameReceiver(device, device') /\ SameSender(device, device')
    BY <2>2, <2>3, HaltsChange
  <2> QED
    BY <2>1, <2>4
<1> QED
  BY <1>1, <1>2, <1>3

LEMMA InterruptIsTyped ==
  ASSUME Typed, Line!Interrupt
  PROVE  Typed'
<1>1. ASSUME NEW n \in 0 .. Buffers, Line!OutDone(n) PROVE Typed'
  BY <1>1, ReceptionIsTyped
<1>2. CASE Line!InDone \/ Line!InZlp \/ Line!Sof
  BY <1>2, SendingIsTyped
<1>3. CASE Line!SetConfiguration \/ Line!SetDataInterface
  <2>1. device.rx.buf[1] \in Seq(Nat) /\ <<>> \in Seq(Nat)
    BY DEF Typed, Devices, Receiver, Buffer
  <2>2. /\ device' \in Devices /\ Line!Owes(device.rx.buf[1], <<>>, at \in Past) /\ unsent' = <<>>
        /\ UNCHANGED <<at, register, operand, frame>>
    BY <1>3, ConfiguredAnew
  <2>3. (at \in Past) \in BOOLEAN
    OBVIOUS
  <2>4. stale' \in Seq(Nat) /\ unread' \in Seq(Nat) /\ misled' \in BOOLEAN
    BY <2>1, <2>2, <2>3, OwedIsTyped
  <2> QED
    BY <2>1, <2>2, <2>4 DEF Typed
<1>4. CASE Line!Reset
  BY <1>4, DeviceIsReset DEF Typed
<1>5. CASE Line!MessageDone \/ Line!SetCommInterface \/ \E ep \in Line!Endpoint : Line!Halt(ep)
  BY <1>5, NeitherDirection DEF Typed
<1> QED
  BY <1>1, <1>2, <1>3, <1>4, <1>5 DEF Line!Interrupt

\* Reading takes no part in sending.
LEMMA GetByteIsTyped ==
  ASSUME Typed, Line!GetByte
  PROVE  /\ Typed' /\ SameSender(device, device')
         /\ at \notin Putting /\ at' \notin Putting
         /\ UNCHANGED unsent
<1> USE DEF Line!Do, Line!Load, Line!LoadOperand, Line!Test, Line!Change, Line!Forget, Line!Bytes
<1>1. device.rx.pos \in Nat /\ device.rx.sel \in 0 .. 1 /\ device.rx \in Receiver
  BY DEF Typed, Devices, Receiver
<1>2. UNCHANGED <<frame, misled, unsent>> /\ at \notin Putting /\ at' \notin Putting
  BY DEF Line!GetByte, Line!Compare, Line!Read, Putting
<1>3. register' \in Nat
  BY <1>1 DEF Line!GetByte, Line!Compare, Line!Read, Typed
<1>4. operand' \in Nat /\ (at' \in {"selected", "count"} => operand' \in 0 .. 1)
  <2>1. at = "selected" => Len(device.rx.buf[operand]) \in Nat
    BY DEF Typed, Devices, Receiver, Buffer
  <2>2. CASE Line!Compare
    BY <1>1, <2>1, <2>2 DEF Line!Compare, Typed
  <2>3. CASE ~Line!Compare
    BY <1>1, <2>3 DEF Line!GetByte, Line!Read, Typed
  <2> QED
    BY <2>2, <2>3
<1>5. stale' \in Seq(Nat) /\ unread' \in Seq(Nat)
  <2>1. /\ stale' = stale \/ (stale # <<>> /\ stale' = Tail(stale))
        /\ unread' = unread \/ (unread # <<>> /\ unread' = Tail(unread))
    BY DEF Line!GetByte, Line!Compare, Line!Read
  <2>2. stale \in Seq(Nat) /\ unread \in Seq(Nat)
    BY DEF Typed
  <2>3. /\ stale # <<>> => Tail(stale) \in Seq(Nat)
        /\ unread # <<>> => Tail(unread) \in Seq(Nat)
    BY <2>2, HeadTailProperties
  <2> QED
    BY <2>1, <2>2, <2>3
<1>6. device' \in Devices /\ SameSender(device, device')
  <2>1. \/ device' = device
        \/ device' = [device EXCEPT !.rx.pos = register + 1]
        \/ device' = Line!RxSwitch(device)
        \/ device' = Line!RxRun(device, register)
    BY DEF Line!GetByte, Line!Compare, Line!Read
  <2>2. device \in Devices /\ register \in Nat /\ SameSender(device, device)
    BY DEF Typed, SameSender
  <2>3. CASE device' = [device EXCEPT !.rx.pos = register + 1]
    <3>1. [device.rx EXCEPT !.pos = register + 1] \in Receiver
      BY <1>1, <2>2 DEF Receiver
    <3>2. device' = [device EXCEPT !.rx = [device.rx EXCEPT !.pos = register + 1]]
      BY <2>2, <2>3 DEF Devices
    <3> QED
      BY <2>2, <3>1, <3>2 DEF Devices, SameSender
  <2>4. CASE device' = Line!RxSwitch(device)
    BY <2>2, <2>4, RxSwitchChanges
  <2>5. CASE device' = Line!RxRun(device, register)
    BY <2>2, <2>5, RxRunChanges
  <2> QED
    BY <2>1, <2>2, <2>3, <2>4, <2>5
<1> QED
  BY <1>2, <1>3, <1>4, <1>5, <1>6 DEF Typed

\* Writing takes no part in receiving.
LEMMA PutByteIsTyped ==
  ASSUME Typed, Line!PutByte
  PROVE  /\ Typed' /\ SameReceiver(device, device') /\ device'.job = device.job
         /\ device'.enabled = device.enabled
         /\ at \notin Getting /\ at' \notin Getting
         /\ UNCHANGED <<stale, unread, misled>>
<1> USE DEF Line!Do, Line!Load, Line!Test, Line!Change, Line!Forget, Line!Bytes
<1>1. device.tx.sel \in Nat /\ device.tx \in Sender /\ device \in Devices
  BY DEF Typed, Devices, Sender
<1>2. UNCHANGED <<frame, misled, stale, unread>> /\ at \notin Getting /\ at' \notin Getting
  BY DEF Line!PutByte, Getting, Past
<1>3. register' \in Nat /\ operand' \in Nat
  BY <1>1 DEF Line!PutByte, Typed
<1>4. Line!Successor(unsent) \in Nat
  BY SuccessorIsByte DEF Typed
<1>5. unsent' \in Seq(Nat)
  <2>1. unsent' \in {unsent, Append(unsent, Line!Successor(unsent))}
    BY DEF Line!PutByte
  <2>2. unsent \in Seq(Nat)
    BY DEF Typed
  <2>3. Append(unsent, Line!Successor(unsent)) \in Seq(Nat)
    BY <1>4, <2>2, AppendProperties
  <2> QED
    BY <2>1, <2>2, <2>3
<1>6. /\ device' \in Devices /\ SameReceiver(device, device') /\ device'.job = device.job
      /\ device'.enabled = device.enabled
  <2>1. \/ device' = device
        \/ device' = [device EXCEPT !.tx.both = TRUE, !.tx.sel = Line!Other(@)]
        \/ device' = [device EXCEPT !.tx.buf[device.tx.sel] = Append(@, Line!Successor(unsent))]
    BY DEF Line!PutByte
  <2>2. CASE device' = [device EXCEPT !.tx.both = TRUE, !.tx.sel = Line!Other(@)]
    <3>1. 1 - device.tx.sel \in 0 .. 1
      BY <1>1, SenderParts
    <3> QED
      BY <1>1, <2>2, <3>1 DEF Line!Other, Devices, Sender, SameReceiver
  <2>3. CASE device' = [device EXCEPT !.tx.buf[device.tx.sel] = Append(@, Line!Successor(unsent))]
    <3>1. Append(device.tx.buf[device.tx.sel], Line!Successor(unsent)) \in Seq(Nat)
      <4>1. device.tx.buf[device.tx.sel] \in Seq(Nat)
        BY <1>1 DEF Sender, Buffer
      <4> QED
        BY <1>4, <4>1, AppendProperties
    <3> QED
      BY <1>1, <2>3, <3>1 DEF Devices, Sender, Buffer, SameReceiver
  <2> QED
    BY <1>1, <2>1, <2>2, <2>3 DEF SameReceiver
<1> QED
  BY <1>2, <1>3, <1>5, <1>6 DEF Typed, Getting

\* Signals take no part in either.
LEMMA SignalIsTyped ==
  ASSUME Typed, Line!Signal
  PROVE  /\ Typed' /\ SameReceiver(device, device') /\ SameSender(device, device')
         /\ {at, at'} \subseteq {"idle", "notify", "fill", "submit", "assign"}
         /\ at' = "idle" => at # "idle"
         /\ UNCHANGED <<stale, unread, unsent, misled>>
<1> USE DEF Line!Do, Line!Test, Line!Change, Line!Forget, Line!Bytes
<1>1. /\ UNCHANGED <<frame, misled, stale, unread, unsent>>
      /\ {at, at'} \subseteq {"idle", "notify", "fill", "submit", "assign"}
      /\ at' = "idle" => at # "idle"
  BY DEF Line!Signal
<1>2. register' \in Nat /\ operand' \in Nat
  <2>1. register' \in {register, 0, 1} /\ operand' \in {operand, 0}
    BY DEF Line!Signal
  <2> QED
    BY <2>1 DEF Typed
<1>3. device \in Devices
  BY DEF Typed
<1>4. device' \in Devices /\ SameReceiver(device, device') /\ SameSender(device, device')
  <2>1. \/ device' = device
        \/ \E state \in Signals : device' = [device EXCEPT !.state = state]
        \/ device' = [device EXCEPT !.message = device.state]
        \/ device' = [device EXCEPT !.messageOngoing = register = 1]
        \/ device' = Line!EpRun(device, "COMM", Line!SendJob(0, 1, FALSE))
    <3>1. device.state \in Signals
      BY <1>3 DEF Devices
    <3>2. \A state \in {device.state \cup {"DCD"}, device.state \ {"DCD"}, device.state \cup {"OVERRUN"}} :
            state \in Signals
      BY <3>1 DEF Signals
    <3> QED
      BY <3>2 DEF Line!Signal
  <2>2. Line!SendJob(0, 1, FALSE) \in Jobs
    BY JobsAreTyped
  <2>3. "COMM" \in Line!Endpoint /\ {"IN", "OUT"} \subseteq Line!Endpoint \ {"COMM"}
    BY DEF Line!Endpoint
  <2>4. CASE device' = Line!EpRun(device, "COMM", Line!SendJob(0, 1, FALSE))
    BY <1>3, <2>2, <2>3, <2>4, EpRunChanges, ZenonT(30) DEF SameReceiver, SameSender
  <2>5. CASE \E state \in Signals : device' = [device EXCEPT !.state = state]
    BY <1>3, <2>5 DEF Devices, SameReceiver, SameSender
  <2>6. CASE device' = [device EXCEPT !.message = device.state]
    BY <1>3, <2>6 DEF Devices, SameReceiver, SameSender
  <2>7. CASE device' = [device EXCEPT !.messageOngoing = register = 1]
    BY <1>3, <2>7 DEF Devices, SameReceiver, SameSender
  <2> QED
    BY <1>3, <2>1, <2>4, <2>5, <2>6, <2>7 DEF SameReceiver, SameSender
<1> QED
  BY <1>1, <1>2, <1>4 DEF Typed

-----------------------------------------------------------------------------
(* Sending goes on as it should *)

LEMMA BothParts ==
  ASSUME NEW s \in Seq(Nat), NEW t \in Seq(Nat)
  PROVE  /\ s \o t \in Seq(Nat)
         /\ Len(s \o t) = Len(s) + Len(t)
         /\ SubSeq(s \o t, 1, Len(s)) = s
         /\ SubSeq(s \o t, Len(s) + 1, Len(s \o t)) = t
<1>1. s \o t \in Seq(Nat) /\ Len(s \o t) = Len(s) + Len(t) /\ Len(s) \in Nat /\ Len(t) \in Nat
  <2>1. s \o t \in Seq(Nat) /\ Len(s \o t) = Len(s) + Len(t)
    BY ConcatProperties, Zenon
  <2> QED
    BY <2>1
<1>2. SubSeq(s \o t, 1, Len(s)) = s
  <2>1. CASE Len(s) = 0
    BY <2>1, <1>1, SubSeqEmpty, EmptySeq
  <2>2. CASE Len(s) # 0
    <3>1. 1 \in 1 .. Len(s) /\ Len(s) \in 1 .. Len(s)
      BY <1>1, <2>2
    <3>2. SubSeq(s \o t, 1, Len(s)) = SubSeq(s, 1, Len(s))
      BY <3>1, SubSeqOfConcat1, Zenon
    <3> QED
      BY <3>2, SubSeqFull
  <2> QED
    BY <2>1, <2>2
<1>3. SubSeq(s \o t, Len(s) + 1, Len(s \o t)) = t
  <2> DEFINE m == Len(s) + 1
             n == Len(s) + Len(t)
  <2>1. CASE Len(t) = 0
    BY <2>1, <1>1, SubSeqEmpty, EmptySeq
  <2>2. CASE Len(t) # 0
    <3>1. m \in Len(s) + 1 .. Len(s) + Len(t) /\ n \in Len(s) + 1 .. Len(s) + Len(t)
      BY <1>1, <2>2
    <3>2. m - Len(s) = 1 /\ n - Len(s) = Len(t)
      BY <1>1
    <3> HIDE DEF m, n
    <3>3. SubSeq(s \o t, m, n) = SubSeq(t, m - Len(s), n - Len(s))
      BY <3>1, SubSeqOfConcat2, Zenon
    <3>4. SubSeq(s \o t, m, n) = t
      BY <3>2, <3>3, SubSeqFull
    <3> QED
      BY <3>4, <1>1 DEF m, n
  <2> QED
    BY <2>1, <2>2
<1> QED
  BY <1>1, <1>2, <1>3

\* What the writer has seen stays true when the interrupt spares his buffer.
LEMMA SparedWriting ==
  ASSUME Typed, Writing(device), device' \in Devices, Spares(device, device'),
         UNCHANGED <<at, register>>
  PROVE  Writing(device)'
<1>1. Len(Selected(device'.tx)) = Len(Selected(device.tx)) \/ Len(Selected(device'.tx)) = 0
  BY DEF Spares
<1>2. Buffers \in Nat /\ 0 < Buffers
  BY UsbAssumption
<1> QED
  BY <1>1, <1>2 DEF Writing, Spares

LEMMA InterruptSends ==
  ASSUME Typed, SendInv, Line!Interrupt
  PROVE  SendInv'
<1> USE DEF Line!Handle, Line!Histories
<1>1. device \in Devices /\ unsent \in Seq(Nat) /\ frame \in Nat /\ Sending(device, unsent)
  BY DEF Typed, SendInv
<1>2. /\ "IN" \in Line!Endpoint /\ "OUT" \in Line!Endpoint
      /\ Selected(device.tx) \in Seq(Nat) /\ Second(device.tx) \in Seq(Nat)
  BY <1>1, SenderParts DEF Line!Endpoint
<1>3. UNCHANGED <<at, register>>
  BY DEF Line!Interrupt, Line!OutDone, Line!InDone, Line!InZlp, Line!MessageDone, Line!Sof,
         Line!Reset, Line!SetConfiguration, Line!SetDataInterface, Line!SetCommInterface,
         Line!Halt, Line!Enabled
<1>4. Sending(device', unsent') /\ Spares(device, device')
  <2> DEFINE ended == [device EXCEPT !.job["IN"] = Line!NoJob]
             sent == [device EXCEPT !.job["IN"].sent = TRUE]
  <2>1. /\ ended \in Devices /\ ended.tx = device.tx /\ ended.job["IN"] = Line!NoJob
        /\ sent \in Devices /\ sent.tx = device.tx /\ sent.enabled = device.enabled
        /\ sent.job["IN"] = [device.job["IN"] EXCEPT !.sent = TRUE]
    BY <1>1, <1>2, JobEnds, JobIsSent
  <2>2. LET e == Line!DataSent(ended, frame) IN Sending(e, Selected(device.tx)) /\ Spares(device, e)
    <3> DEFINE e == Line!DataSent(ended, frame)
    <3>1. \A i \in 0 .. 1 : Len(ended.tx.buf[i]) <= Buffers
      BY <1>1, <2>1 DEF Sending
    <3> HIDE DEF ended
    <3>2. Sending(e, Selected(ended.tx)) /\ Spares(ended, e)
      BY <1>1, <2>1, <3>1, JobsAreTyped, DataSentSends
    <3> QED
      BY <2>1, <3>2 DEF Spares
  <2>3. ASSUME NEW n \in 0 .. Buffers, Line!OutDone(n)
        PROVE  Sending(device', unsent') /\ Spares(device, device')
    <3> DEFINE data == [i \in 1 .. n |-> (Line!Successor(Line!Due) + i - 1) % Values]
               done == [device EXCEPT !.job["OUT"] = Line!NoJob]
    <3>1. data \in Seq(Nat)
      <4>1. n \in Nat
        BY UsbAssumption
      <4>2. \A i \in 1 .. n : (Line!Successor(Line!Due) + i - 1) % Values \in Nat
        BY UsbAssumption, DueIsTyped, SuccessorIsByte
      <4>3. data \in [1 .. n -> Nat]
        BY <4>2
      <4> QED
        BY <4>1, <4>3
    <3>2. done \in Devices /\ SameSender(device, done)
      <4>1. "IN" \in Line!Endpoint \ {"OUT"}
        BY DEF Line!Endpoint
      <4> QED
        BY <1>1, <1>2, <4>1, JobEnds DEF SameSender
    <3>3. device' = Line!DataReceived(done, data) /\ unsent' = unsent
      BY <2>3 DEF Line!OutDone
    <3> HIDE DEF data, done
    <3>4. device' \in Devices /\ SameSender(done, device')
      BY <3>1, <3>2, <3>3, DataReceivedChanges
    <3>5. SameSender(device, device')
      BY <3>2, <3>4 DEF SameSender
    <3> QED
      BY <1>1, <3>3, <3>4, <3>5, SameSending
  <2>4. CASE Line!InDone
    <3> DEFINE job == device.job["IN"]
    <3>1. job.busy /\ ~job.sent /\ unsent' = SubSeq(unsent, job.size + 1, Len(unsent))
          /\ device' = IF job.sendZlp THEN sent ELSE Line!DataSent(ended, frame)
      BY <2>4 DEF Line!InDone
    <3>2. /\ unsent = Second(device.tx) \o Selected(device.tx)
          /\ "IN" \in device.enabled /\ device.tx.ongoing
          /\ job.buf = 1 - device.tx.sel /\ job.size = Len(Second(device.tx))
      BY <1>1, <3>1 DEF Sending
    <3>3. unsent' = Selected(device.tx)
      BY <1>2, <3>1, <3>2, BothParts
    <3>4. CASE job.sendZlp
      <4>1. /\ sent.job["IN"].sent /\ sent.job["IN"].busy
            /\ sent.job["IN"].buf = job.buf /\ sent.job["IN"].size = job.size
        BY <1>1, <1>2, <2>1, <3>1 DEF Devices, Jobs
      <4> HIDE DEF sent
      <4>2. Sending(sent, Selected(device.tx))
        BY <1>1, <2>1, <3>2, <4>1 DEF Sending
      <4>3. Spares(device, sent)
        BY <2>1 DEF Spares
      <4> QED
        BY <3>1, <3>3, <3>4, <4>2, <4>3
    <3>5. CASE ~job.sendZlp
      BY <2>2, <3>1, <3>3, <3>5
    <3> QED
      BY <3>4, <3>5
  <2>5. CASE Line!InZlp
    <3>1. device' = Line!DataSent(ended, frame) /\ unsent' = unsent /\ device.job["IN"].sent
      BY <2>5 DEF Line!InZlp
    <3>2. unsent = Selected(device.tx)
      BY <1>1, <3>1 DEF Sending
    <3> QED
      BY <2>2, <3>1, <3>2
  <2>6. CASE Line!Sof
    <3>1. /\ device' = Line!TxSend(device, frame') /\ frame' = (frame + 1) % Frames
          /\ unsent' = unsent
      BY <2>6 DEF Line!Sof
    <3>2. frame' \in Nat
      BY <1>1, <3>1, UsbAssumption
    <3> QED
      BY <1>1, <3>1, <3>2, TxSendSends
  <2>7. CASE Line!SetConfiguration \/ Line!SetDataInterface
    BY <2>7, ConfiguredAnew DEF Spares
  <2>8. CASE Line!Reset
    <3>1. /\ device'.tx = device.tx /\ "IN" \notin device'.enabled /\ unsent' = unsent
          /\ ~device'.job["IN"].busy /\ ~device'.job["IN"].sent
      BY <2>8, DeviceIsReset, JobsAreTyped
    <3>2. Sending(device', unsent')
      BY <1>1, <3>1 DEF Sending
    <3>3. Spares(device, device')
      BY <3>1 DEF Spares
    <3> QED
      BY <3>2, <3>3
  <2>9. CASE Line!MessageDone \/ Line!SetCommInterface \/ \E ep \in Line!Endpoint : Line!Halt(ep)
    BY <1>1, <2>9, NeitherDirection, SameSending
  <2> QED
    BY <2>3, <2>4, <2>5, <2>6, <2>7, <2>8, <2>9 DEF Line!Interrupt
<1>5. Typed'
  BY InterruptIsTyped
<1>6. Writing(device)'
  BY <1>3, <1>4, <1>5, SparedWriting DEF Typed, SendInv
<1> QED
  BY <1>4, <1>6 DEF SendInv

LEMMA OthersSend ==
  ASSUME Typed, SendInv, Line!GetByte \/ Line!Signal
  PROVE  SendInv'
<1>1. /\ Typed' /\ SameSender(device, device') /\ UNCHANGED unsent
      /\ at' \notin {"switch", "ready", "again", "write"}
  <2>1. CASE Line!GetByte
    BY <2>1, GetByteIsTyped DEF Putting
  <2>2. CASE Line!Signal
    <3>1. at' \in {"idle", "notify", "fill", "submit", "assign"}
      BY <2>2, SignalIsTyped
    <3> QED
      BY <2>2, <3>1, SignalIsTyped
  <2> QED
    BY <2>1, <2>2
<1>2. Sending(device', unsent')
  BY <1>1, SameSending DEF Typed, SendInv
<1>3. Writing(device)'
  BY <1>1 DEF Writing
<1> QED
  BY <1>2, <1>3 DEF SendInv

LEMMA PutByteSends ==
  ASSUME Typed, SendInv, Line!PutByte
  PROVE  SendInv'
<1> DEFINE tx == device.tx
<1>1. device \in Devices /\ unsent \in Seq(Nat) /\ Sending(device, unsent) /\ Writing(device)
  BY DEF Typed, SendInv
<1>2. /\ tx \in Sender /\ tx.sel \in 0 .. 1 /\ 1 - tx.sel \in 0 .. 1
      /\ Selected(tx) \in Seq(Nat) /\ Second(tx) \in Seq(Nat) /\ Buffers \in Nat
  BY <1>1, SenderParts, UsbAssumption DEF Devices
<1>3. Len(Selected(tx)) <= Buffers /\ Selected(tx) = tx.buf[tx.sel]
  BY <1>1, <1>2 DEF Sending, Selected
<1>4. ASSUME UNCHANGED <<device, unsent>>
      PROVE  Sending(device', unsent')
  BY <1>1, <1>4
<1>5. CASE Line!Load("idle", "ready", tx.sel) \/ Line!Load("select", "again", tx.sel)
           \/ Line!Load("retry", "ready", tx.sel)
  <2>1. UNCHANGED <<device, unsent>> /\ at' \in {"ready", "again"} /\ register' = tx.sel
    BY <1>5 DEF Line!Load, Line!Bytes, Line!Do
  <2>2. Writing(device)'
    BY <2>1 DEF Writing
  <2> QED
    BY <1>4, <2>1, <2>2 DEF SendInv
<1>6. CASE \/ Line!Test("ready", "both", "write", Line!TxFull(device, register))
           \/ Line!Test("again", "full", "write", Line!TxFull(device, register))
  <2>1. /\ UNCHANGED <<device, unsent>> /\ at \in {"ready", "again"}
        /\ at' \in {"both", "full"} \/ (at' = "write" /\ Len(tx.buf[register]) # Buffers)
    BY <1>6 DEF Line!Test, Line!Change, Line!Bytes, Line!Do, Line!TxFull
  <2>2. register = tx.sel \/ Len(Selected(tx)) < Buffers
    BY <1>1, <2>1 DEF Writing
  <2>3. at' = "write" => Len(Selected(tx)) < Buffers
    BY <1>2, <1>3, <2>1, <2>2
  <2>4. Writing(device)'
    BY <2>1, <2>3 DEF Writing
  <2> QED
    BY <1>4, <2>1, <2>4 DEF SendInv
<1>7. CASE Line!Test("both", "select", "switch", tx.both)
  <2>1. /\ UNCHANGED <<device, unsent>>
        /\ at' = "select" \/ (at' = "switch" /\ ~tx.both)
    BY <1>7 DEF Line!Test, Line!Change, Line!Bytes, Line!Do
  <2>2. Writing(device)'
    BY <2>1 DEF Writing
  <2> QED
    BY <1>4, <2>1, <2>2 DEF SendInv
<1>8. CASE Line!Test("full", "retry", "idle", device.running)
  <2>1. UNCHANGED <<device, unsent>> /\ at' \in {"retry", "idle"}
    BY <1>8 DEF Line!Test, Line!Change, Line!Bytes, Line!Do
  <2>2. Writing(device)'
    BY <2>1 DEF Writing
  <2> QED
    BY <1>4, <2>1, <2>2 DEF SendInv
<1>9. CASE Line!Change("switch", "select",
             IF ~tx.ongoing THEN [device EXCEPT !.tx.both = TRUE, !.tx.sel = Line!Other(@)] ELSE device)
  <2>1. /\ at = "switch" /\ at' = "select" /\ unsent' = unsent
        /\ device' = IF ~tx.ongoing THEN [device EXCEPT !.tx.both = TRUE, !.tx.sel = Line!Other(@)] ELSE device
    BY <1>9 DEF Line!Change, Line!Bytes, Line!Do
  <2>2. CASE tx.ongoing
    BY <1>4, <2>1, <2>2 DEF SendInv, Writing
  <2>3. CASE ~tx.ongoing
    <3> DEFINE new == [buf |-> tx.buf, sel |-> 1 - tx.sel, both |-> TRUE, ongoing |-> tx.ongoing,
                       sof |-> tx.sof]
    <3>1. device'.tx = new /\ device'.job = device.job /\ device'.enabled = device.enabled
      BY <1>1, <2>1, <2>3 DEF Line!Other, Devices, Sender
    <3>2. 1 - (1 - tx.sel) = tx.sel
      BY <1>2
    <3>3. Selected(new) = Second(tx) /\ Second(new) = Selected(tx)
      BY <3>2 DEF Selected, Second
    <3>4. ~tx.both
      BY <1>1, <2>1 DEF Writing
    <3>5. /\ Second(tx) = <<>> /\ unsent = Second(tx) \o Selected(tx)
          /\ ~device.job["IN"].sent /\ ~device.job["IN"].busy
      BY <1>1, <2>3, <3>4 DEF Sending
    <3>6. unsent = Second(new) \o Selected(new)
      BY <1>2, <3>3, <3>5, ConcatEmptySeq, Zenon
    <3>7. new.both /\ new.buf = tx.buf
      OBVIOUS
    <3> HIDE DEF new
    <3>8. Sending(device', unsent')
      <4>1. \A i \in 0 .. 1 : Len(device'.tx.buf[i]) <= Buffers
        BY <1>1, <3>1, <3>7 DEF Sending
      <4>2. ~device'.job["IN"].sent /\ ~device'.job["IN"].busy /\ device'.tx.both
        BY <3>1, <3>5, <3>7
      <4>3. unsent' = Second(device'.tx) \o Selected(device'.tx)
        BY <2>1, <3>1, <3>6
      <4> QED
        BY <4>1, <4>2, <4>3 DEF Sending
    <3> QED
      BY <2>1, <3>8 DEF SendInv, Writing
  <2> QED
    BY <2>2, <2>3
<1>10. CASE LET byte == Line!Successor(unsent)
            IN  /\ Line!Do("write", "idle", [device EXCEPT !.tx.buf[tx.sel] = Append(@, byte)])
                /\ unsent' = Append(unsent, byte)
                /\ Line!Forget /\ UNCHANGED <<stale, unread>>
  <2> DEFINE byte == Line!Successor(unsent)
             longer == Append(Selected(tx), byte)
             new == [buf |-> [tx.buf EXCEPT ![tx.sel] = longer], sel |-> tx.sel, both |-> tx.both,
                     ongoing |-> tx.ongoing, sof |-> tx.sof]
  <2>1. /\ at = "write" /\ at' = "idle" /\ unsent' = Append(unsent, byte)
        /\ device' = [device EXCEPT !.tx.buf[tx.sel] = Append(@, byte)]
    BY <1>10 DEF Line!Do
  <2>2. device'.tx = new /\ device'.job = device.job /\ device'.enabled = device.enabled
    BY <1>1, <2>1 DEF Devices, Sender, Selected
  <2>3. byte \in Nat
    BY <1>1, SuccessorIsByte
  <2> HIDE DEF byte
  <2>4. longer \in Seq(Nat) /\ Len(longer) = Len(Selected(tx)) + 1 /\ Len(Selected(tx)) < Buffers
    BY <1>1, <1>2, <2>1, <2>3, AppendProperties DEF Writing
  <2>5. Selected(new) = longer /\ Second(new) = Second(tx)
    BY <1>2 DEF Selected, Second, Sender, Buffer
  <2>6. \A i \in 0 .. 1 : Len(new.buf[i]) <= Buffers
    <3>1. new.buf[tx.sel] = longer /\ new.buf[1 - tx.sel] = tx.buf[1 - tx.sel]
      BY <1>2 DEF Sender, Buffer
    <3>2. Len(tx.buf[1 - tx.sel]) <= Buffers
      BY <1>1, <1>2 DEF Sending
    <3>3. \A i \in 0 .. 1 : i = tx.sel \/ i = 1 - tx.sel
      BY <1>2
    <3>4. Len(longer) <= Buffers
      BY <1>2, <2>4
    <3> HIDE DEF new, longer
    <3> QED
      BY <3>1, <3>2, <3>3, <3>4
  <2>7. (Second(tx) \o Selected(tx)) \o <<byte>> = Second(tx) \o longer
    <3>1. longer = Selected(tx) \o <<byte>> /\ <<byte>> \in Seq(Nat)
      BY <1>2, <2>3, AppendIsConcat
    <3>2. \A s, t, v \in Seq(Nat) : (s \o t) \o v = s \o (t \o v)
      OBVIOUS
    <3> QED
      BY <1>2, <3>1, <3>2, SMTT(30)
  <2>8. Append(unsent, byte) = unsent \o <<byte>>
    BY <1>1, <2>3, AppendIsConcat
  <2>9. \/ unsent = Second(tx) \o Selected(tx) /\ unsent' = Second(tx) \o longer /\ ~device.job["IN"].sent
        \/ /\ unsent = Selected(tx) /\ unsent' = longer /\ tx.ongoing
           /\ device.job["IN"].sent \/ "IN" \notin device.enabled
    BY <1>1, <2>1, <2>7, <2>8 DEF Sending
  <2>10. new.ongoing = tx.ongoing /\ new.both = tx.both /\ new.sel = tx.sel
    OBVIOUS
  <2> HIDE DEF longer, new
  <2>11. Sending(device', unsent')
    <3>1. \A i \in 0 .. 1 : Len(device'.tx.buf[i]) <= Buffers
      BY <2>2, <2>6
    <3>2. LET job == device'.job["IN"]
          IN  /\ job.busy => /\ "IN" \in device'.enabled /\ device'.tx.ongoing
                             /\ job.buf = 1 - device'.tx.sel /\ job.size = Len(Second(device'.tx))
              /\ job.sent => job.busy
              /\ ~device'.tx.ongoing /\ ~device'.tx.both => Second(device'.tx) = <<>>
      BY <1>1, <2>2, <2>5, <2>10 DEF Sending
    <3>3. LET job == device'.job["IN"]
          IN  \/ unsent' = Second(device'.tx) \o Selected(device'.tx) /\ ~job.sent
              \/ /\ unsent' = Selected(device'.tx) /\ device'.tx.ongoing
                 /\ job.sent \/ "IN" \notin device'.enabled
      BY <2>2, <2>5, <2>9, <2>10
    <3> QED
      BY <3>1, <3>2, <3>3 DEF Sending
  <2> QED
    BY <2>1, <2>11 DEF SendInv, Writing
<1> QED
  BY <1>5, <1>6, <1>7, <1>8, <1>9, <1>10 DEF Line!PutByte

LEMMA InitSends == Line!Init => SendInv
<1> SUFFICES ASSUME Line!Init PROVE SendInv
  OBVIOUS
<1> DEFINE new == [buf |-> [i \in 0 .. 1 |-> <<>>], sel |-> 0, both |-> FALSE, ongoing |-> FALSE,
                   sof |-> 0]
<1>1. device.tx = new /\ device.job["IN"] = Line!NoJob /\ at = "idle" /\ unsent = <<>>
  BY DEF Line!Init, Line!NewDevice, Line!NewJobs, Line!Endpoint
<1>2. Second(new) = <<>> /\ Selected(new) = <<>> /\ ~new.both /\ ~new.ongoing
  BY DEF Second, Selected
<1>3. \A i \in 0 .. 1 : Len(new.buf[i]) <= Buffers
  BY UsbAssumption
<1>4. <<>> = <<>> \o <<>>
  <2>1. <<>> \in Seq(Nat)
    OBVIOUS
  <2> QED
    BY <2>1, ConcatEmptySeq, Zenon
<1> HIDE DEF new
<1> QED
  BY <1>1, <1>2, <1>3, <1>4, JobsAreTyped DEF SendInv, Sending, Writing

\* The bytes leave in the order in which they were written.
LEMMA SendInvSuffices == Typed /\ SendInv => SentInOrder
<1> SUFFICES ASSUME Typed, SendInv PROVE SentInOrder
  OBVIOUS
<1> DEFINE tx == device.tx
           job == device.job["IN"]
<1>1. device \in Devices /\ unsent \in Seq(Nat) /\ Sending(device, unsent)
  BY DEF Typed, SendInv
<1>2. /\ tx.sel \in 0 .. 1 /\ 1 - tx.sel \in 0 .. 1
      /\ Selected(tx) \in Seq(Nat) /\ Second(tx) \in Seq(Nat)
  BY <1>1, SenderParts
<1>3. ASSUME job.busy, ~job.sent
      PROVE  Line!IsPrefix(SubSeq(tx.buf[job.buf], 1, job.size), unsent)
  <2>1. tx.buf[job.buf] = Second(tx) /\ job.size = Len(Second(tx))
        /\ unsent = Second(tx) \o Selected(tx)
    BY <1>1, <1>3 DEF Sending, Second
  <2>2. SubSeq(tx.buf[job.buf], 1, job.size) = Second(tx)
    BY <1>2, <2>1, SubSeqFull
  <2>3. SubSeq(Second(tx), 1, Len(Second(tx))) = Second(tx)
    BY <1>2, SubSeqFull
  <2>4. Len(Second(tx)) <= Len(unsent) /\ SubSeq(unsent, 1, Len(Second(tx))) = Second(tx)
    BY <1>2, <2>1, BothParts
  <2> QED
    BY <2>2, <2>3, <2>4 DEF Line!IsPrefix
<1>4. tx.buf[0] = <<>> /\ tx.buf[1] = <<>> => unsent = <<>>
  <2> SUFFICES ASSUME tx.buf[0] = <<>>, tx.buf[1] = <<>> PROVE unsent = <<>>
    OBVIOUS
  <2>1. Selected(tx) = <<>> /\ Second(tx) = <<>>
    BY <1>2 DEF Selected, Second
  <2>2. unsent = Second(tx) \o Selected(tx) \/ unsent = Selected(tx)
    BY <1>1 DEF Sending
  <2> QED
    BY <1>2, <2>1, <2>2, ConcatEmptySeq, Zenon
<1>5. \A i \in 0 .. 1 : Len(tx.buf[i]) <= Buffers
  BY <1>1 DEF Sending
<1> QED
  BY <1>3, <1>4, <1>5 DEF SentInOrder, Line!SentInOrder

-----------------------------------------------------------------------------
(* Receiving *)

\* Where the bytes are that are due: behind the position in the selected
\* buffer, and in the second one when it is full.  The reader takes a byte
\* before it moves the position.
Received(d, u) ==
  LET rx == d.rx
      next == rx.pos + (IF at \in {"increment", "store"} THEN 2 ELSE 1)
  IN  /\ u = SubSeq(Selected(rx), next, Len(Selected(rx))) \o (IF rx.ongoing THEN <<>> ELSE Second(rx))
      /\ d.job["OUT"].busy => rx.ongoing

\* What the comparison has loaded finds no byte where there is none, whichever
\* buffer the interrupt has selected since.
Comparing(d) ==
  LET rx == d.rx
      ready == rx.pos < Len(Selected(rx))
  IN  /\ at = "positioned" => rx.pos <= register
      /\ at = "count" => ready \/ Len(rx.buf[operand]) <= register
      /\ at = "selected" => ready \/ Len(rx.buf[operand]) <= rx.pos
      /\ at = "counted" => ready \/ operand <= rx.pos

\* The steps with a byte in sight.
TakesByte == {"read", "readSelect", "readPosition", "byte", "increment", "store"}

\* What the reader may rely on where it goes on.  Between the last byte of a
\* buffer and the next start, the second buffer may wait to be switched to.
Reading(d) ==
  LET rx == d.rx
  IN  /\ at = "run" => rx.ongoing /\ ~d.job["OUT"].busy
      /\ at \in TakesByte => rx.pos < Len(Selected(rx))
      /\ at \in {"readSelect", "byte", "store"} => register = rx.pos
      /\ at \in {"readPosition", "byte"} => operand = rx.sel
      /\ at # "start" /\ rx.pos >= Len(Selected(rx)) /\ ~rx.ongoing => Second(rx) = <<>>

Receiving(d, u) == Received(d, u) /\ Comparing(d) /\ Reading(d)

ReceiveInv == ~misled => Receiving(device, Line!Due)

LEMMA ReceiverParts ==
  ASSUME NEW d \in Devices
  PROVE  /\ d.rx \in Receiver
         /\ d.rx.sel \in 0 .. 1 /\ 1 - d.rx.sel \in 0 .. 1 /\ d.rx.pos \in Nat
         /\ Selected(d.rx) \in Seq(Nat) /\ Second(d.rx) \in Seq(Nat)
         /\ Len(Selected(d.rx)) \in Nat /\ d.rx.ongoing \in BOOLEAN
  BY DEF Devices, Receiver, Buffer, Selected, Second

\* What is left of a sequence when its first element is taken.
LEMMA RestOfRest ==
  ASSUME NEW r \in Seq(Nat), NEW x \in Seq(Nat), NEW p \in Nat, p < Len(r)
  PROVE  LET u == SubSeq(r, p + 1, Len(r)) \o x
         IN  /\ u # <<>> /\ Head(u) = r[p + 1]
             /\ Tail(u) = SubSeq(r, p + 2, Len(r)) \o x
<1> DEFINE s == SubSeq(r, p + 1, Len(r))
           t == SubSeq(r, p + 2, Len(r))
<1>1. s = <<r[p + 1]>> \o t
  <2>1. p + 1 \in 1 .. Len(r) /\ Len(r) \in p + 1 .. Len(r) /\ (p + 1) + 1 = p + 2
    OBVIOUS
  <2> QED
    BY <2>1, SubSeqRecursiveFirst
<1>2. t \in Seq(Nat) /\ r[p + 1] \in Nat
  <2>1. \A i \in p + 2 .. Len(r) : r[i] \in Nat
    OBVIOUS
  <2> QED
    BY <2>1, SubSeqProperties
<1> HIDE DEF s, t
<1>3. s \o x = <<r[p + 1]>> \o (t \o x)
  <2>1. <<r[p + 1]>> \in Seq(Nat)
    BY <1>2
  <2> QED
    BY <1>1, <1>2, <2>1, SMTT(30)
<1>4. t \o x \in Seq(Nat)
  BY <1>2
<1>5. \A w \in Seq(Nat), e \in Nat : /\ <<e>> \o w # <<>> /\ Head(<<e>> \o w) = e
                                     /\ Tail(<<e>> \o w) = w
  BY SMTT(60)
<1>6. s \o x # <<>> /\ Head(s \o x) = r[p + 1] /\ Tail(s \o x) = t \o x
  BY <1>2, <1>3, <1>4, <1>5
<1> QED
  BY <1>6 DEF s, t

\* All of a sequence is left, or nothing.
LEMMA AllOrNothing ==
  ASSUME NEW r \in Seq(Nat), NEW x \in Seq(Nat)
  PROVE  /\ SubSeq(r, 1, Len(r)) \o <<>> = r
         /\ \A m \in Nat : m > Len(r) => SubSeq(r, m, Len(r)) \o x = x
<1>1. r \o <<>> = r /\ <<>> \o x = x
  BY ConcatEmptySeq, Zenon
<1>2. SubSeq(r, 1, Len(r)) = r
  BY SubSeqFull
<1>3. \A m \in Nat : m > Len(r) => SubSeq(r, m, Len(r)) = <<>>
  BY SubSeqEmpty
<1> QED
  BY <1>1, <1>2, <1>3

\* A receiver that has just begun to read a buffer.
LEMMA FreshReceived ==
  ASSUME NEW d \in Devices, d.rx.pos = 0, d.rx.ongoing, at \notin TakesByte \cup {"run"}
  PROVE  Received(d, Selected(d.rx)) /\ Reading(d)
<1>1. Selected(d.rx) \in Seq(Nat) /\ <<>> \in Seq(Nat)
  BY ReceiverParts
<1>2. SubSeq(Selected(d.rx), 1, Len(Selected(d.rx))) \o <<>> = Selected(d.rx)
  BY <1>1, AllOrNothing
<1>3. Received(d, Selected(d.rx))
  BY <1>2 DEF Received, TakesByte
<1>4. Reading(d)
  BY DEF Reading, TakesByte
<1> QED
  BY <1>3, <1>4

-----------------------------------------------------------------------------
(* Receiving goes on as it should *)

\* A step that leaves the receiver and the reader alone.
LEMMA SameReceiving ==
  ASSUME Typed, ReceiveInv, SameReceiver(device, device'),
         UNCHANGED <<at, register, operand, stale, unread, misled>>
  PROVE  ReceiveInv'
  BY DEF ReceiveInv, Receiving, Received, Comparing, Reading, SameReceiver, Line!Due

LEMMA SenderReceives ==
  ASSUME Typed, ReceiveInv, Line!InDone \/ Line!InZlp \/ Line!Sof
  PROVE  ReceiveInv'
<1> DEFINE ended == [device EXCEPT !.job["IN"] = Line!NoJob]
           sent == [device EXCEPT !.job["IN"].sent = TRUE]
<1>1. device \in Devices /\ frame \in Nat
  BY DEF Typed
<1>2. /\ ended \in Devices /\ SameReceiver(device, ended)
      /\ SameReceiver(device, sent)
  <2>1. "IN" \in Line!Endpoint /\ "OUT" \in Line!Endpoint \ {"IN"}
    BY DEF Line!Endpoint
  <2> QED
    BY <1>1, <2>1, JobEnds, JobIsSent DEF SameReceiver
<1>3. /\ UNCHANGED <<at, register, operand, stale, unread, misled>>
      /\ \/ device' \in {sent, Line!DataSent(ended, frame)}
         \/ device' = Line!TxSend(device, frame') /\ frame' = (frame + 1) % Frames
  BY DEF Line!InDone, Line!InZlp, Line!Sof, Line!Handle, Line!Histories
<1> HIDE DEF ended, sent
<1>4. frame' = (frame + 1) % Frames => frame' \in Nat
  BY <1>1, UsbAssumption
<1>5. SameReceiver(device, device')
  <2>1. SameReceiver(ended, Line!DataSent(ended, frame))
    BY <1>1, <1>2, DataSentChanges
  <2>2. frame' \in Nat => SameReceiver(device, Line!TxSend(device, frame'))
    BY <1>1, TxSendChanges
  <2> QED
    BY <1>2, <1>3, <1>4, <2>1, <2>2 DEF SameReceiver
<1> QED
  BY <1>3, <1>5, SameReceiving

LEMMA ReceptionReceives ==
  ASSUME Typed, ReceiveInv, ~misled', NEW n \in 0 .. Buffers, Line!OutDone(n)
  PROVE  Receiving(device', Line!Due')
<1> DEFINE rx == device.rx
           data == [i \in 1 .. n |-> (Line!Successor(Line!Due) + i - 1) % Values]
           ended == [device EXCEPT !.job["OUT"] = Line!NoJob]
           filled == [ended EXCEPT !.rx.buf[Line!Other(ended.rx.sel)] = data, !.rx.ongoing = FALSE]
           new == [buf |-> [rx.buf EXCEPT ![1 - rx.sel] = data],
                   sel |-> rx.sel, pos |-> rx.pos, ongoing |-> FALSE]
           due == Line!Due
<1>1. /\ device \in Devices /\ register \in Nat /\ operand \in Nat
      /\ at \in {"selected", "count"} => operand \in 0 .. 1
      /\ stale \in Seq(Nat) /\ unread \in Seq(Nat) /\ due \in Seq(Nat)
  BY DueIsTyped DEF Typed
<1>2. data \in Seq(Nat)
  <2>1. n \in Nat
    BY UsbAssumption
  <2>2. \A i \in 1 .. n : (Line!Successor(Line!Due) + i - 1) % Values \in Nat
    BY <1>1, UsbAssumption, SuccessorIsByte
  <2>3. data \in [1 .. n -> Nat]
    BY <2>2
  <2> QED
    BY <2>1, <2>3
<1>3. ended \in Devices /\ ended.rx = rx /\ ended.job["OUT"] = Line!NoJob
  BY <1>1, JobEnds DEF Line!Endpoint
<1>4. /\ device' = Line!DataReceived(ended, data) /\ stale' = stale /\ unread' = unread \o data
      /\ device.job["OUT"].busy /\ ~misled
      /\ n = 0 /\ at \in {"selected", "counted"} => Line!RxReady(device)
  BY DEF Line!OutDone, Line!Handle, Line!Owes
<1>13. n = 0 => data = <<>>
  OBVIOUS
<1>14. n # 0 => Len(data) > 0
  <2>1. n \in Nat /\ Len(data) = n
    BY UsbAssumption
  <2> QED
    BY <2>1
<1> HIDE DEF data, ended
<1>15. Line!Due' = due \o data
  <2>1. \A s, t, v \in Seq(Nat) : (s \o t) \o v = s \o (t \o v)
    BY SMTT(30)
  <2> QED
    BY <1>1, <1>2, <1>4, <2>1 DEF Line!Due
<1> HIDE DEF due
<1>5. /\ filled \in Devices /\ filled.job["OUT"] = Line!NoJob /\ device' \in Devices
      /\ filled.rx = new /\ device' = Line!RxStart(filled)
  BY <1>2, <1>3, <1>4, DataReceivedChanges, ZenonT(30)
<1> HIDE DEF filled
<1>6. rx \in Receiver /\ rx.sel \in 0 .. 1 /\ 1 - rx.sel \in 0 .. 1 /\ rx.pos \in Nat
  BY <1>1, ReceiverParts
<1>7. Selected(new) = Selected(rx) /\ Second(new) = data /\ new.pos = rx.pos /\ ~new.ongoing
  BY <1>2, <1>6 DEF Selected, Second, Receiver, Buffer
<1> DEFINE step == IF at \in {"increment", "store"} THEN 2 ELSE 1
<1>8. /\ rx.ongoing /\ Reading(device) /\ Comparing(device)
      /\ due = SubSeq(Selected(rx), rx.pos + step, Len(Selected(rx))) \o <<>>
  BY <1>4 DEF ReceiveInv, Receiving, Received, due
<1>9. at # "run"
  BY <1>4, <1>8 DEF Reading
<1>10. Selected(rx) \in Seq(Nat) /\ Len(Selected(rx)) \in Nat /\ <<>> \in Seq(Nat)
  BY <1>1, ReceiverParts
<1>11. CASE rx.pos < Len(Selected(rx))
  <2>1. ~Line!RxMayStart(filled)
    BY <1>5, <1>7, <1>11 DEF Line!RxMayStart, Line!RxReady, Selected, new
  <2>2. device' = filled
    BY <1>5, <2>1, RxStartChanges
  <2> DEFINE rest == SubSeq(Selected(rx), rx.pos + step, Len(Selected(rx)))
  <2>3. rest \in Seq(Nat)
    <3>1. \A i \in rx.pos + step .. Len(Selected(rx)) : Selected(rx)[i] \in Nat
      BY <1>6, <1>10
    <3> QED
      BY <1>6, <1>10, <3>1, SubSeqProperties
  <2> HIDE DEF rest
  <2>4. Line!Due' = rest \o data
    <3>1. due = rest
      BY <1>8, <2>3, ConcatEmptySeq, Zenon DEF rest
    <3> QED
      BY <1>15, <3>1
  <2>5. /\ device'.rx.pos = rx.pos /\ Selected(device'.rx) = Selected(rx)
        /\ Second(device'.rx) = data /\ ~device'.rx.ongoing
    BY <1>5, <1>7, <2>2
  <2>6. ~device'.job["OUT"].busy
    BY <1>5, <2>2, JobsAreTyped
  <2> HIDE DEF rx
  <2>7. Received(device', Line!Due')
    BY <2>4, <2>5, <2>6 DEF Received, rest
  <2>8. Reading(device')
    <3>1. device'.rx.sel = device.rx.sel
      BY <1>5, <2>2 DEF new, rx
    <3> QED
      BY <1>6, <1>8, <1>9, <1>10, <1>11, <2>5, <3>1 DEF Reading, rx
  <2>9. Comparing(device')
    BY <1>6, <1>8, <1>10, <1>11, <2>5 DEF Comparing, rx
  <2> QED
    BY <2>7, <2>8, <2>9 DEF Receiving
<1>12. CASE ~(rx.pos < Len(Selected(rx)))
  <2>1. Line!RxMayStart(filled)
    BY <1>5, <1>7, <1>12 DEF Line!RxMayStart, Line!RxReady, Selected, new
  <2>2. device'.rx = [buf |-> new.buf, sel |-> 1 - new.sel, pos |-> 0, ongoing |-> TRUE]
    BY <1>5, <2>1, RxStartChanges
  <2>3. Selected(device'.rx) = data /\ device'.rx.pos = 0 /\ device'.rx.ongoing
    BY <1>7, <2>2 DEF Selected, Second, new
  <2>4. at \notin TakesByte \cup {"run"}
    BY <1>8, <1>9, <1>12 DEF Reading
  <2>5. Line!Due' = data
    <3>1. rx.pos + 1 \in Nat /\ rx.pos + 1 > Len(Selected(rx))
      BY <1>6, <1>10, <1>12
    <3>2. step = 1
      BY <2>4 DEF TakesByte
    <3>3. due = <<>>
      BY <1>8, <1>10, <3>1, <3>2, AllOrNothing
    <3> QED
      BY <1>2, <1>15, <3>3, ConcatEmptySeq, Zenon
  <2>6. Comparing(device')
    <3>1. at = "positioned" => device'.rx.pos <= register
      BY <1>1, <2>3
    <3>2. CASE n # 0
      <4>1. device'.rx.pos < Len(Selected(device'.rx))
        BY <1>14, <2>3, <3>2
      <4> QED
        BY <3>1, <4>1 DEF Comparing
    <3>3. CASE n = 0
      <4>1. at \notin {"selected", "counted"}
        BY <1>4, <1>12, <3>3 DEF Line!RxReady, Selected
      <4>2. CASE at = "count"
        <5>1. operand \in 0 .. 1 /\ Len(rx.buf[operand]) <= register
          BY <1>1, <1>8, <1>12, <4>2 DEF Comparing
        <5>2. device'.rx.buf[operand] \in {<<>>, rx.buf[operand]}
          BY <1>6, <1>13, <2>2, <3>3, <5>1 DEF new, Receiver, Buffer
        <5>3. Len(device'.rx.buf[operand]) <= register
          BY <1>1, <5>1, <5>2
        <5> QED
          BY <4>2, <5>3 DEF Comparing
      <4> QED
        BY <3>1, <4>1, <4>2 DEF Comparing
    <3> QED
      BY <3>2, <3>3
  <2> QED
    BY <1>5, <2>3, <2>4, <2>5, <2>6, FreshReceived DEF Receiving
<1> QED
  BY <1>11, <1>12

LEMMA InterruptReceives ==
  ASSUME Typed, ReceiveInv, Line!Interrupt
  PROVE  ReceiveInv'
<1>1. ASSUME NEW n \in 0 .. Buffers, Line!OutDone(n)
      PROVE  ReceiveInv'
  <2>1. UNCHANGED <<at, register, operand>>
    BY <1>1 DEF Line!OutDone, Line!Handle
  <2>2. ~misled' => Receiving(device', Line!Due')
    BY <1>1, ReceptionReceives
  <2> QED
    BY <2>1, <2>2 DEF ReceiveInv, Receiving, Received, Comparing, Reading
<1>2. CASE Line!InDone \/ Line!InZlp \/ Line!Sof
  BY <1>2, SenderReceives
<1>3. CASE Line!SetConfiguration \/ Line!SetDataInterface
  <2>1. /\ device' \in Devices /\ Line!Owes(device.rx.buf[1], <<>>, at \in Past)
        /\ device'.rx = [buf |-> [device.rx.buf EXCEPT ![0] = <<>>], sel |-> 1, pos |-> 0, ongoing |-> TRUE]
        /\ UNCHANGED <<at, register, operand>>
    BY <1>3, ConfiguredAnew
  <2> SUFFICES ASSUME ~misled' PROVE Receiving(device', Line!Due')
    BY <2>1 DEF ReceiveInv, Receiving, Received, Comparing, Reading
  <2>2. at \notin Past /\ stale' = device.rx.buf[1] /\ unread' = <<>>
    BY <2>1 DEF Line!Owes
  <2>3. device.rx.buf[1] \in Seq(Nat) /\ device.rx.buf \in Buffer
    BY DEF Typed, Devices, Receiver, Buffer
  <2>4. Line!Due' = device.rx.buf[1]
    BY <2>2, <2>3, ConcatEmptySeq, Zenon DEF Line!Due
  <2>5. /\ Selected(device'.rx) = device.rx.buf[1] /\ device'.rx.pos = 0 /\ device'.rx.ongoing
        /\ device'.rx.buf[0] = <<>> /\ device'.rx.buf[1] = device.rx.buf[1]
    BY <2>1, <2>3 DEF Buffer, Selected
  <2>6. Received(device', Line!Due') /\ Reading(device')
    BY <2>1, <2>2, <2>4, <2>5, FreshReceived DEF Past, TakesByte
  <2>7. Comparing(device')
    <3>1. register \in Nat /\ (at \in {"selected", "count"} => operand \in 0 .. 1)
          /\ Len(device.rx.buf[1]) \in Nat
      BY <2>3 DEF Typed
    <3>2. 0 < Len(device.rx.buf[1]) \/ \A i \in 0 .. 1 : Len(device'.rx.buf[i]) = 0
      BY <2>5, <3>1
    <3> QED
      BY <2>2, <2>5, <3>1, <3>2 DEF Comparing, Past
  <2> QED
    BY <2>6, <2>7 DEF Receiving
<1>4. CASE Line!Reset
  BY <1>4, DeviceIsReset, JobsAreTyped DEF ReceiveInv, Receiving, Received, Comparing, Reading, Line!Due
<1>5. CASE Line!MessageDone \/ Line!SetCommInterface \/ \E ep \in Line!Endpoint : Line!Halt(ep)
  BY <1>5, NeitherDirection, SameReceiving
<1> QED
  BY <1>1, <1>2, <1>3, <1>4, <1>5 DEF Line!Interrupt

LEMMA OthersReceive ==
  ASSUME Typed, ReceiveInv, Line!PutByte \/ Line!Signal
  PROVE  ReceiveInv'
<1>1. /\ SameReceiver(device, device') /\ UNCHANGED <<stale, unread, misled>>
      /\ at \notin Getting /\ at' \notin Getting
  <2>1. CASE Line!PutByte
    BY <2>1, PutByteIsTyped
  <2>2. CASE Line!Signal
    <3>1. at \in {"idle", "notify", "fill", "submit", "assign"} /\ at' \in {"idle", "notify", "fill", "submit", "assign"}
      BY <2>2, SignalIsTyped
    <3> QED
      BY <2>2, <3>1, SignalIsTyped DEF Getting, Past
  <2> QED
    BY <2>1, <2>2
<1>2. at \notin TakesByte /\ at' \notin TakesByte
  BY <1>1 DEF Getting, Past, TakesByte
<1> QED
  BY <1>1, <1>2
  DEF ReceiveInv, Receiving, Received, Comparing, Reading, SameReceiver, Line!Due, Getting, Past

\* TakesByte a byte takes the first that is due.
LEMMA FirstIsGiven ==
  ASSUME Typed,
         \/ stale # <<>> /\ stale' = Tail(stale) /\ unread' = unread
         \/ stale = <<>> /\ unread # <<>> /\ unread' = Tail(unread) /\ stale' = stale
  PROVE  Line!Due' = Tail(Line!Due)
<1>1. stale \in Seq(Nat) /\ unread \in Seq(Nat)
  BY DEF Typed
<1>2. CASE stale # <<>>
  <2>1. \A r, x \in Seq(Nat) : r # <<>> => Tail(r \o x) = Tail(r) \o x
    <3> SUFFICES ASSUME NEW r \in Seq(Nat), NEW x \in Seq(Nat), r # <<>>
                 PROVE  Tail(r \o x) = Tail(r) \o x
      OBVIOUS
    <3>1. 0 < Len(r) /\ 0 \in Nat /\ <<>> \in Seq(Nat) /\ 0 + 1 = 1 /\ 0 + 2 = 2
      BY EmptySeq
    <3>2. SubSeq(r, 1, Len(r)) = r
      BY SubSeqFull
    <3>3. Tail(r \o x) = SubSeq(r, 2, Len(r)) \o x /\ Tail(r \o <<>>) = SubSeq(r, 2, Len(r)) \o <<>>
      <4>1. \A p \in Nat, w \in Seq(Nat) : p < Len(r) =>
              Tail(SubSeq(r, p + 1, Len(r)) \o w) = SubSeq(r, p + 2, Len(r)) \o w
        BY RestOfRest, Zenon
      <4>2. \A w \in Seq(Nat) : Tail(SubSeq(r, 0 + 1, Len(r)) \o w) = SubSeq(r, 0 + 2, Len(r)) \o w
        BY <3>1, <4>1, Zenon
      <4>3. \A w \in Seq(Nat) : Tail(SubSeq(r, 1, Len(r)) \o w) = SubSeq(r, 2, Len(r)) \o w
        BY <3>1, <4>2, Zenon
      <4> QED
        BY <3>1, <3>2, <4>3, Zenon
    <3>4. SubSeq(r, 2, Len(r)) \in Seq(Nat)
      <4>1. \A k \in 2 .. Len(r) : r[k] \in Nat
        OBVIOUS
      <4> QED
        BY <4>1, SubSeqProperties
    <3>5. Tail(r) = SubSeq(r, 2, Len(r))
      BY <3>3, <3>4, ConcatEmptySeq, Zenon
    <3> QED
      BY <3>3, <3>5
  <2> QED
    BY <1>1, <1>2, <2>1 DEF Line!Due
<1>3. CASE stale = <<>>
  <2>1. unread # <<>> => Tail(unread) \in Seq(Nat)
    BY <1>1, HeadTailProperties
  <2>2. Line!Due = unread /\ Line!Due' = Tail(unread)
    BY <1>1, <1>3, <2>1, ConcatEmptySeq, Zenon DEF Line!Due
  <2> QED
    BY <2>2
<1> QED
  BY <1>2, <1>3

LEMMA GetByteReceives ==
  ASSUME Typed, ReceiveInv, ~misled, Line!GetByte
  PROVE  Receiving(device, Line!Due)'
<1> USE DEF Line!Do, Line!Load, Line!LoadOperand, Line!Test, Line!Change, Line!Forget, Line!Bytes
<1> DEFINE rx == device.rx
           due == Line!Due
<1>1. /\ device \in Devices /\ register \in Nat /\ operand \in Nat
      /\ at \in {"selected", "count"} => operand \in 0 .. 1
      /\ due \in Seq(Nat)
  BY DueIsTyped DEF Typed
<1>2. /\ rx.sel \in 0 .. 1 /\ 1 - rx.sel \in 0 .. 1 /\ rx.pos \in Nat /\ rx \in Receiver
      /\ Selected(rx) \in Seq(Nat) /\ Second(rx) \in Seq(Nat) /\ Len(Selected(rx)) \in Nat
      /\ Selected(rx) = rx.buf[rx.sel]
  BY <1>1, ReceiverParts DEF Selected
<1>3. Received(device, due) /\ Comparing(device) /\ Reading(device)
  BY DEF ReceiveInv, Receiving
<1>4. ASSUME UNCHANGED <<device, stale, unread>>,
             at \in {"increment", "store"} <=> at' \in {"increment", "store"}
      PROVE  Received(device, Line!Due)'
  BY <1>3, <1>4 DEF Received, Line!Due
<1>5. CASE Line!Compare \/ Line!Change("idle", "compare", device)
           \/ Line!Test("empty", "compare", "idle", device.running)
  <2>1. /\ UNCHANGED <<device, stale, unread>>
        /\ at \in {"idle", "empty", "compare", "positioned", "selected", "count", "counted"}
        /\ at' \in {"idle", "empty", "compare", "positioned", "selected", "count", "counted", "read"}
    BY <1>5 DEF Line!Compare
  <2>2. Received(device, Line!Due)'
    BY <1>4, <2>1
  <2>3. at' = "read" => rx.pos < Len(Selected(rx))
    <3> SUFFICES ASSUME at' = "read" PROVE rx.pos < Len(Selected(rx))
      OBVIOUS
    <3>1. \/ at = "count" /\ register < Len(rx.buf[operand])
          \/ at = "counted" /\ rx.pos < operand
      BY <1>5 DEF Line!Compare
    <3>2. Len(rx.buf[operand]) \in Nat \/ at = "counted"
      BY <1>1, <1>2, <3>1 DEF Receiver, Buffer
    <3> QED
      BY <1>1, <1>2, <1>3, <3>1, <3>2 DEF Comparing
  <2>4. Reading(device)'
    BY <1>3, <2>1, <2>3 DEF Reading, TakesByte
  <2>5. Comparing(device)'
    <3>1. \/ at' \notin {"positioned", "selected", "count", "counted"}
          \/ at' = "positioned" /\ register' = rx.pos
          \/ at = "positioned" /\ at' = "count" /\ operand' = rx.sel /\ register' = register
          \/ at' = "selected" /\ operand' = rx.sel
          \/ at = "selected" /\ at' = "count" /\ register' = rx.pos /\ operand' = operand
          \/ at = "selected" /\ at' = "counted" /\ operand' = Len(rx.buf[operand])
      BY <1>5 DEF Line!Compare
    <3>2. CASE at' \notin {"positioned", "selected", "count", "counted"}
      BY <3>2 DEF Comparing
    <3>3. CASE at' = "positioned" /\ register' = rx.pos
      BY <1>2, <2>1, <3>3 DEF Comparing
    <3>4. CASE at = "positioned" /\ at' = "count" /\ operand' = rx.sel /\ register' = register
      BY <1>1, <1>2, <1>3, <2>1, <3>4 DEF Comparing
    <3>5. CASE at' = "selected" /\ operand' = rx.sel
      BY <1>2, <2>1, <3>5 DEF Comparing
    <3>6. CASE at = "selected" /\ at' = "count" /\ register' = rx.pos /\ operand' = operand
      BY <1>3, <2>1, <3>6 DEF Comparing
    <3>7. CASE at = "selected" /\ at' = "counted" /\ operand' = Len(rx.buf[operand])
      BY <1>3, <2>1, <3>7 DEF Comparing
    <3> QED
      BY <3>1, <3>2, <3>3, <3>4, <3>5, <3>6, <3>7
  <2> QED
    BY <2>2, <2>4, <2>5 DEF Receiving
<1>6. ASSUME at' \notin {"positioned", "selected", "count", "counted"}
      PROVE  Comparing(device)'
  BY <1>6 DEF Comparing
<1>7. CASE \/ Line!Load("read", "readSelect", rx.pos) \/ Line!LoadOperand("readSelect", "byte", rx.sel)
           \/ Line!LoadOperand("read", "readPosition", rx.sel) \/ Line!Load("readPosition", "byte", rx.pos)
           \/ Line!Load("increment", "store", rx.pos)
  <2>1. /\ UNCHANGED <<device, stale, unread>> /\ at \in TakesByte /\ at' \in TakesByte
        /\ at \in {"increment", "store"} <=> at' \in {"increment", "store"}
        /\ at' \in {"readSelect", "byte", "store"} =>
             register' = rx.pos \/ (at = "readSelect" /\ register' = register)
        /\ at' \in {"readPosition", "byte"} =>
             operand' = rx.sel \/ (at = "readPosition" /\ operand' = operand)
    BY <1>7 DEF TakesByte
  <2>2. Reading(device)'
    BY <1>2, <1>3, <2>1 DEF Reading, TakesByte
  <2>3. at' \notin {"positioned", "selected", "count", "counted"}
    BY <2>1 DEF TakesByte
  <2> QED
    BY <1>4, <1>6, <2>1, <2>2, <2>3 DEF Receiving
<1>8. CASE /\ Line!Do("byte", "increment", device)
           /\ \/ stale # <<>> /\ stale' = Tail(stale) /\ UNCHANGED unread
              \/ stale = <<>> /\ unread # <<>> /\ unread' = Tail(unread) /\ UNCHANGED stale
              \/ due = <<>> /\ UNCHANGED <<stale, unread>>
  <2> DEFINE behind == IF rx.ongoing THEN <<>> ELSE Second(rx)
  <2>1. UNCHANGED device /\ at = "byte" /\ at' = "increment"
    BY <1>8
  <2>2. rx.pos < Len(Selected(rx))
    BY <1>3, <2>1 DEF Reading, TakesByte
  <2>3. due = SubSeq(Selected(rx), rx.pos + 1, Len(Selected(rx))) \o behind
    BY <1>3, <2>1 DEF Received
  <2>4. behind \in Seq(Nat)
    BY <1>2
  <2> HIDE DEF behind
  <2>5. due # <<>> /\ Tail(due) = SubSeq(Selected(rx), rx.pos + 2, Len(Selected(rx))) \o behind
    BY <1>2, <2>2, <2>3, <2>4, RestOfRest
  <2>6. Line!Due' = Tail(due)
    BY <1>8, <2>5, FirstIsGiven
  <2> HIDE DEF due
  <2>7. Received(device, Line!Due)'
    BY <1>3, <2>1, <2>5, <2>6 DEF Received, behind
  <2>8. Reading(device)'
    BY <1>2, <2>1, <2>2 DEF Reading, TakesByte
  <2> QED
    BY <1>6, <2>1, <2>7, <2>8 DEF Receiving
<1>9. CASE Line!Change("store", "start", [device EXCEPT !.rx.pos = register + 1])
  <2> DEFINE new == [buf |-> rx.buf, sel |-> rx.sel, pos |-> rx.pos + 1, ongoing |-> rx.ongoing]
  <2>1. /\ at = "store" /\ at' = "start" /\ UNCHANGED <<stale, unread>>
        /\ device' = [device EXCEPT !.rx.pos = register + 1]
    BY <1>9
  <2>2. register = rx.pos
    BY <1>3, <2>1 DEF Reading
  <2>3. device'.rx = new /\ device'.job = device.job
    BY <1>1, <1>2, <2>1, <2>2 DEF Devices, Receiver
  <2>4. Selected(new) = Selected(rx) /\ Second(new) = Second(rx) /\ new.pos + 1 = rx.pos + 2
        /\ new.ongoing = rx.ongoing
    BY <1>2 DEF Selected, Second
  <2> HIDE DEF new
  <2>5. Received(device, Line!Due)'
    BY <1>3, <2>1, <2>3, <2>4 DEF Received, Line!Due
  <2>6. Reading(device)'
    BY <2>1 DEF Reading, TakesByte
  <2> QED
    BY <1>6, <2>1, <2>5, <2>6 DEF Receiving
<1>10. CASE /\ Line!Do("start", IF Line!RxMayStart(device) THEN "run" ELSE "idle",
                 IF Line!RxMayStart(device) THEN Line!RxSwitch(device) ELSE device)
            /\ register' = rx.sel /\ operand' = 0 /\ UNCHANGED <<stale, unread, unsent>>
  <2>1. /\ at = "start" /\ at' = (IF Line!RxMayStart(device) THEN "run" ELSE "idle") /\ UNCHANGED <<stale, unread>>
        /\ device' = IF Line!RxMayStart(device) THEN Line!RxSwitch(device) ELSE device
    BY <1>10
  <2>2. CASE Line!RxMayStart(device)
    <3> DEFINE new == [buf |-> rx.buf, sel |-> 1 - rx.sel, pos |-> 0, ongoing |-> TRUE]
    <3>1. device'.rx = new /\ device'.job = device.job
      BY <1>1, <2>1, <2>2, RxSwitchChanges
    <3>2. Selected(new) = Second(rx) /\ new.pos = 0 /\ new.ongoing
      BY DEF Selected, Second
    <3>3. ~rx.ongoing /\ ~(rx.pos < Len(Selected(rx)))
      BY <2>2 DEF Line!RxMayStart, Line!RxReady, Selected
    <3> HIDE DEF new
    <3>4. due = SubSeq(Selected(rx), rx.pos + 1, Len(Selected(rx))) \o Second(rx)
          /\ ~device.job["OUT"].busy
      BY <1>3, <2>1, <3>3 DEF Received
    <3>5. rx.pos + 1 \in Nat /\ rx.pos + 1 > Len(Selected(rx))
      BY <1>2, <3>3
    <3>6. due = Second(rx)
      BY <1>2, <3>4, <3>5, AllOrNothing
    <3>7. SubSeq(Second(rx), 1, Len(Second(rx))) \o <<>> = Second(rx)
      BY <1>2, AllOrNothing
    <3>8. Received(device, Line!Due)'
      <4>1. Line!Due' = due
        BY <2>1 DEF Line!Due
      <4> HIDE DEF due
      <4> QED
        BY <2>1, <2>2, <3>1, <3>2, <3>6, <3>7, <4>1 DEF Received
    <3>9. Reading(device)'
      BY <2>1, <2>2, <3>1, <3>2, <3>4 DEF Reading, TakesByte
    <3> QED
      BY <1>6, <2>1, <3>8, <3>9 DEF Receiving
  <2>3. CASE ~Line!RxMayStart(device)
    <3>1. UNCHANGED <<device, stale, unread>> /\ at' = "idle"
      BY <2>1, <2>3
    <3>2. rx.ongoing \/ rx.pos < Len(Selected(rx))
      BY <2>3 DEF Line!RxMayStart, Line!RxReady, Selected
    <3>3. Reading(device)'
      BY <1>2, <3>1, <3>2 DEF Reading, TakesByte
    <3> QED
      BY <1>4, <1>6, <2>1, <3>1, <3>3 DEF Receiving
  <2> QED
    BY <2>2, <2>3
<1>11. CASE Line!Change("run", "idle", Line!RxRun(device, register))
  <2>1. /\ at = "run" /\ at' = "idle" /\ UNCHANGED <<stale, unread>>
        /\ device' = Line!RxRun(device, register)
    BY <1>11
  <2>2. device'.rx = device.rx
    BY <1>1, <2>1, RxRunChanges
  <2>3. rx.ongoing
    BY <1>3, <2>1 DEF Reading
  <2>4. Received(device, Line!Due)'
    BY <1>3, <2>1, <2>2, <2>3 DEF Received, Line!Due
  <2>5. Reading(device)'
    BY <2>1, <2>2, <2>3 DEF Reading, TakesByte
  <2> QED
    BY <1>6, <2>1, <2>4, <2>5 DEF Receiving
<1> QED
  BY <1>5, <1>7, <1>8, <1>9, <1>10, <1>11 DEF Line!GetByte, Line!Read

LEMMA InitReceives == Line!Init => ReceiveInv
<1> SUFFICES ASSUME Line!Init PROVE ReceiveInv
  OBVIOUS
<1> DEFINE new == [buf |-> [i \in 0 .. 1 |-> <<>>], sel |-> 0, pos |-> 0, ongoing |-> FALSE]
<1>1. device.rx = new /\ device.job["OUT"] = Line!NoJob /\ at = "idle"
      /\ stale = <<>> /\ unread = <<>>
  BY DEF Line!Init, Line!NewDevice, Line!NewJobs, Line!Endpoint
<1>2. Second(new) = <<>> /\ Selected(new) = <<>> /\ ~new.ongoing /\ new.pos = 0
  BY DEF Second, Selected
<1>3. SubSeq(<<>>, 1, Len(<<>>)) \o <<>> = <<>>
  <2>1. <<>> \in Seq(Nat)
    OBVIOUS
  <2> QED
    BY <2>1, AllOrNothing
<1>4. Line!Due = <<>>
  <2>1. <<>> \in Seq(Nat)
    OBVIOUS
  <2> QED
    BY <1>1, <2>1, ConcatEmptySeq, Zenon DEF Line!Due
<1> HIDE DEF new
<1> QED
  BY <1>1, <1>2, <1>3, <1>4, JobsAreTyped DEF ReceiveInv, Receiving, Received, Comparing, Reading, TakesByte

\* The bytes are given in the order in which they came.
LEMMA ReceiveInvSuffices == Typed /\ ReceiveInv => ReceivedInOrder
<1> DEFINE rx == device.rx
           due == Line!Due
           behind == IF rx.ongoing THEN <<>> ELSE Second(rx)
<1> SUFFICES ASSUME Typed, ReceiveInv, ~misled
             PROVE  /\ at = "byte" => /\ due # <<>> /\ register < Len(rx.buf[operand])
                                      /\ rx.buf[operand][register + 1] = Head(due)
                    /\ at = "idle" /\ due # <<>> => Line!RxReady(device)
  BY DEF ReceivedInOrder, Line!ReceivedInOrder
<1>1. /\ rx.pos \in Nat /\ Selected(rx) \in Seq(Nat) /\ Second(rx) \in Seq(Nat)
      /\ Len(Selected(rx)) \in Nat /\ Selected(rx) = rx.buf[rx.sel]
  BY ReceiverParts DEF Typed, Selected
<1>2. Received(device, due) /\ Reading(device)
  BY DEF ReceiveInv, Receiving
<1> HIDE DEF due
<1>3. at \in {"byte", "idle"} =>
        due = SubSeq(Selected(rx), rx.pos + 1, Len(Selected(rx))) \o behind
  BY <1>2 DEF Received
<1>4. behind \in Seq(Nat)
  BY <1>1
<1>5. Line!RxReady(device) <=> rx.pos < Len(Selected(rx))
  BY <1>1 DEF Line!RxReady
<1>6. CASE at = "byte"
  <2>1. rx.pos < Len(Selected(rx)) /\ register = rx.pos /\ operand = rx.sel
    BY <1>2, <1>6 DEF Reading, TakesByte
  <2>2. due = SubSeq(Selected(rx), rx.pos + 1, Len(Selected(rx))) \o behind
    BY <1>3, <1>6
  <2> HIDE DEF behind
  <2>3. due # <<>> /\ Head(due) = Selected(rx)[rx.pos + 1]
    BY <1>1, <1>4, <2>1, <2>2, RestOfRest
  <2> QED
    BY <1>1, <1>6, <2>1, <2>3
<1>7. CASE at = "idle"
  <2> SUFFICES ASSUME ~(rx.pos < Len(Selected(rx))) PROVE due = <<>>
    BY <1>5, <1>7
  <2>1. rx.pos + 1 \in Nat /\ rx.pos + 1 > Len(Selected(rx))
    BY <1>1
  <2>2. behind = <<>>
    BY <1>1, <1>2, <1>7 DEF Reading
  <2>3. due = SubSeq(Selected(rx), rx.pos + 1, Len(Selected(rx))) \o <<>>
    BY <1>3, <1>7, <2>2
  <2>4. <<>> \in Seq(Nat)
    OBVIOUS
  <2> QED
    BY <1>1, <2>1, <2>3, <2>4, AllOrNothing
<1> QED
  BY <1>6, <1>7

----------------------------------------------------------------
(* The control endpoint: types *)

Requests == Control!Request \cup {Control!NoRequest}

Controls ==
  [state : {"SETUP", "DATA_IN", "DATA_OUT", "HANDSHAKE_WAIT_IN_ZLP",
            "HANDSHAKE_WAIT_OUT_ZLP", "STALL_REQ"},
   request : Requests, callback : {"none", "address", "line"},
   size : Nat, sent : Nat, needZlp : BOOLEAN, setup : BOOLEAN, packet : Requests,
   out : BOOLEAN, count : Nat, free : BOOLEAN, from : Nat, filled : Nat,
   nakIn : BOOLEAN, nakOut : BOOLEAN, on : SUBSET {"in", "nakIn", "nakOut"}, stall : BOOLEAN,
   address : Nat, configuration : Nat]

Hosts ==
  [stage : {"idle", "data", "status"}, request : Requests, got : Nat, early : BOOLEAN,
   result : {"none", "done", "stalled"}, address : Nat, broken : Nat]

-----------------------------------------------------------------------------
(* The invariant of the control endpoint c and the host h *)

AllData(r) == Control!Least(r.length, r.value)

\* What the host knows of its request.
Asking(h) ==
  /\ h.stage = "data" => h.request.length # 0 /\ ~h.early
  /\ h.stage # "idle" => h.result = "none" /\ h.request # Control!NoRequest
  /\ h.result = "done" /\ ~h.early /\ Control!IsIn(h.request) => h.got = AllData(h.request)

\* Between two requests no packet of an earlier one is expected.
Quiet(c) ==
  /\ c.state \in {"SETUP", "STALL_REQ"} => "in" \notin c.on
  /\ c.state = "SETUP" => ~c.out

\* A request has come that the handler has not seen.
Pending(c, h) ==
  /\ c.packet = h.request /\ h.stage # "idle" /\ h.got = 0
  /\ c.free /\ c.filled = 0 /\ ~c.stall
  /\ h.stage = "status" => h.early \/ h.request.length = 0

\* STALL_REQ
Stalling(c) ==
  ~Control!Known(c, c.request) /\ c.filled = 0 /\ ~c.out

\* HANDSHAKE_WAIT_IN_ZLP
Acknowledging(c, h) ==
  /\ ~Control!IsIn(c.request) /\ h.stage # "data"
  /\ "in" \in c.on /\ ~c.nakOut /\ ~c.out
  /\ c.free => h.stage = "idle"

\* HANDSHAKE_WAIT_OUT_ZLP
Awaiting(c, h) ==
  /\ Control!IsIn(c.request) /\ h.stage # "data" /\ "in" \notin c.on
  /\ c.out => h.stage = "idle"
  /\ c.out \/ ~c.nakIn
  /\ h.stage = "status" => h.early \/ h.got = AllData(c.request)

\* DATA_OUT: the host has sent what the device has taken, and one packet more
\* if one is waiting.
Taking(c, h) ==
  /\ c.request.kind = "line" /\ c.size = c.request.length
  /\ h.stage # "idle" /\ "in" \notin c.on /\ c.free /\ c.filled = 0
  /\ c.nakIn => h.stage # "data"
  /\ c.out => /\ c.sent <= c.size /\ c.count = Control!Least(ControlSize, c.size - c.sent)
              /\ h.got = c.sent + c.count
              /\ h.stage = "data" => h.got < c.size
              /\ h.stage = "status" => h.early \/ h.got = c.size
  /\ ~c.out => /\ c.sent < c.size /\ h.got = c.sent
               /\ h.stage = "status" => h.early

\* DATA_IN: all packets but the last are full, and a full last one is followed
\* by an empty one, whether or not the host waits for it.
Giving(c, h) ==
  /\ Control!IsIn(c.request) /\ c.size = AllData(c.request) /\ c.sent <= c.size
  /\ "in" \in c.on
  /\ c.out <=> h.stage = "idle"
  /\ h.stage = "status" => h.early \/ h.got = c.size
  /\ c.sent < c.size => /\ c.sent % ControlSize = 0
                        /\ c.needZlp <=> c.size % ControlSize = 0
  /\ c.free => /\ c.filled = 0
               /\ h.stage = "data" => h.got = c.sent /\ (c.needZlp \/ c.sent < c.size)
  /\ ~c.free => /\ c.sent = c.from + c.filled /\ c.filled <= ControlSize
                /\ c.filled < ControlSize => c.sent = c.size
                /\ c.sent = c.size /\ ~c.needZlp => c.filled < ControlSize
                /\ h.stage = "data" => h.got = c.from

Serving(c, h) ==
  /\ c.request = h.request
  /\ c.stall <=> c.state = "STALL_REQ"
  /\ h.result = "stalled" => c.state = "STALL_REQ"
  /\ c.state = "SETUP" => h.stage = "idle"
  /\ c.state = "STALL_REQ" => Stalling(c)
  /\ c.state = "HANDSHAKE_WAIT_IN_ZLP" => Acknowledging(c, h)
  /\ c.state = "HANDSHAKE_WAIT_OUT_ZLP" => Awaiting(c, h)
  /\ c.state = "DATA_OUT" => Taking(c, h)
  /\ c.state = "DATA_IN" => Giving(c, h)

Serves(c, h) ==
  /\ c \in Controls /\ h \in Hosts
  /\ Asking(h) /\ Quiet(c)
  /\ c.setup => Pending(c, h)
  /\ ~c.setup => Serving(c, h)

ControlInv == Serves(control, host)

-----------------------------------------------------------------------------
(* What the host does *)

LEMMA RequestParts ==
  ASSUME NEW r \in Requests
  PROVE  /\ r.length \in Nat /\ r.value \in Nat
         /\ r.kind \in {"none", "descriptor", "address", "configuration", "line", "unknown"}
         /\ r.kind = "none" <=> r = Control!NoRequest
         /\ r.kind = "descriptor" => r.length # 0 /\ r.value # 0
         /\ r.kind \in {"address", "configuration"} => r.length = 0
         /\ r.kind = "line" => r.length = LineLength /\ LineLength # 0
         /\ AllData(r) \in Nat /\ AllData(r) <= r.length
<1>1. Asked \subseteq Nat \ {0} /\ Total \subseteq Nat \ {0} /\ LineLength \in Nat \ {0}
  BY UsbAssumption
<1>2. /\ r.length \in Nat /\ r.value \in Nat
      /\ r.kind \in {"none", "descriptor", "address", "configuration", "line", "unknown"}
      /\ r.kind = "none" <=> r = Control!NoRequest
      /\ r.kind = "descriptor" => r.length # 0 /\ r.value # 0
      /\ r.kind \in {"address", "configuration"} => r.length = 0
      /\ r.kind = "line" => r.length = LineLength /\ LineLength # 0
  <2>1. CASE r = Control!NoRequest
    BY <2>1 DEF Control!NoRequest
  <2>2. CASE r \in [kind : {"descriptor"}, length : Asked, value : Total]
    <3>1. r.kind = "descriptor" /\ r.length \in Asked /\ r.value \in Total
      BY <2>2
    <3>2. r.length \in Nat \ {0} /\ r.value \in Nat \ {0}
      BY <1>1, <3>1
    <3> QED
      BY <3>1, <3>2 DEF Control!NoRequest
  <2>3. CASE r \in [kind : {"address", "configuration"}, length : {0}, value : 0 .. 1]
    BY <1>1, <2>3 DEF Control!NoRequest
  <2>4. CASE r \in [kind : {"line"}, length : {LineLength}, value : {0}]
    BY <1>1, <2>4 DEF Control!NoRequest
  <2>5. CASE r \in [kind : {"unknown"}, length : {0, 1}, value : {0}]
    BY <1>1, <2>5 DEF Control!NoRequest
  <2> QED
    BY <2>1, <2>2, <2>3, <2>4, <2>5 DEF Requests, Control!Request
<1> QED
  BY <1>2 DEF AllData, Control!Least

LEMMA InitServes == Control!Init => ControlInv
<1> SUFFICES ASSUME Control!Init PROVE ControlInv
  OBVIOUS
<1>1. Control!NoRequest \in Requests /\ Control!NoRequest.kind = "none"
  BY DEF Requests, Control!NoRequest
<1>2. control \in Controls /\ host \in Hosts
  BY <1>1 DEF Control!Init, Control!NewControl, Control!NewHost, Controls, Hosts
<1> QED
  BY <1>1, <1>2 DEF Control!Init, Control!NewControl, Control!NewHost,
    ControlInv, Serves, Asking, Quiet, Serving

LEMMA SetupServes ==
  ASSUME ControlInv, NEW r \in Control!Request, Control!Setup(r)
  PROVE  ControlInv'
<1>1. control \in Controls /\ host \in Hosts /\ r \in Requests
  BY DEF ControlInv, Serves, Requests
<1>2. r # Control!NoRequest /\ r.length \in Nat
  BY <1>1, RequestParts DEF Control!Request, Control!NoRequest
<1>3. /\ control' = [control EXCEPT !.setup = TRUE, !.packet = r, !.stall = FALSE,
                                    !.free = TRUE, !.from = 0, !.filled = 0]
      /\ host' = [host EXCEPT
                    !.stage = IF r.length = 0 THEN "status" ELSE "data",
                    !.request = r, !.got = 0, !.early = FALSE, !.result = "none",
                    !.broken = IF host.stage = "idle" THEN @ ELSE @ + 1]
  BY DEF Control!Setup
<1>4. /\ control' \in Controls /\ control'.setup /\ control'.packet = r /\ ~control'.stall
      /\ control'.free /\ control'.filled = 0 /\ control'.state = control.state
      /\ control'.on = control.on /\ control'.out = control.out
  BY <1>1, <1>3 DEF Controls
<1>5. /\ host' \in Hosts /\ host'.request = r /\ host'.got = 0 /\ ~host'.early /\ host'.result = "none"
      /\ host'.stage = IF r.length = 0 THEN "status" ELSE "data"
  <2> DEFINE stage == IF r.length = 0 THEN "status" ELSE "data"
             broken == IF host.stage = "idle" THEN host.broken ELSE host.broken + 1
  <2>1. stage \in {"data", "status"} /\ broken \in Nat
    BY <1>1 DEF Hosts
  <2>2. host' = [host EXCEPT !.stage = stage, !.request = r, !.got = 0, !.early = FALSE,
                             !.result = "none", !.broken = broken]
    BY <1>1, <1>3 DEF Hosts
  <2> HIDE DEF stage, broken
  <2>3. /\ host' \in Hosts /\ host'.request = r /\ host'.got = 0 /\ ~host'.early
        /\ host'.result = "none" /\ host'.stage = stage
    BY <1>1, <2>1, <2>2 DEF Hosts
  <2> QED
    BY <2>3 DEF stage
<1>6. Quiet(control')
  BY <1>4 DEF ControlInv, Serves, Quiet
<1>7. Asking(host') /\ Pending(control', host')
  BY <1>2, <1>4, <1>5 DEF Asking, Pending
<1> QED
  BY <1>4, <1>5, <1>6, <1>7 DEF ControlInv, Serves

\* The end of a request for the host.
LEMMA EndsIs ==
  ASSUME NEW h \in Hosts, NEW result \in {"done", "stalled"}
  PROVE  LET e == Control!Ends(h, result)
         IN  /\ e \in Hosts /\ e.stage = "idle" /\ e.result = result /\ e.request = h.request
             /\ e.got = h.got /\ e.early = h.early
<1>1. h.request.value \in Nat
  BY RequestParts DEF Hosts
<1> QED
  BY <1>1 DEF Control!Ends, Hosts

\* A stalled token ends the request.
LEMMA StallServes ==
  ASSUME ControlInv, control.stall, host.stage # "idle",
         host' = Control!Ends(host, "stalled"), UNCHANGED control
  PROVE  ControlInv'
<1>1. control \in Controls /\ host \in Hosts /\ Asking(host) /\ Quiet(control)
  BY DEF ControlInv, Serves
<1>2. ~control.setup /\ Serving(control, host) /\ control.state = "STALL_REQ"
  BY DEF ControlInv, Serves, Pending, Serving
<1>3. /\ host' \in Hosts /\ host'.stage = "idle" /\ host'.result = "stalled"
      /\ host'.request = host.request
  BY <1>1, EndsIs
<1>4. Asking(host') /\ Serving(control, host')
  BY <1>2, <1>3 DEF Asking, Serving
<1> QED
  BY <1>1, <1>2, <1>3, <1>4 DEF ControlInv, Serves

\* A token that is refused is only flagged.
LEMMA NakServes ==
  ASSUME ControlInv, UNCHANGED host,
         \/ /\ control' = [control EXCEPT !.nakIn = TRUE]
            /\ control.setup \/ host.stage # "idle"
            /\ IF Control!IsIn(host.request) THEN host.stage = "data" ELSE host.stage # "data"
         \/ /\ control' = [control EXCEPT !.nakOut = TRUE]
            /\ IF Control!IsIn(host.request) THEN host.stage = "status" ELSE host.stage = "data"
  PROVE  ControlInv'
<1> DEFINE c == control
           h == host
<1>1. c \in Controls /\ h \in Hosts /\ Asking(h) /\ Quiet(c)
  BY DEF ControlInv, Serves
<1>2. /\ control' \in Controls
      /\ control'.state = c.state /\ control'.request = c.request /\ control'.size = c.size
      /\ control'.sent = c.sent /\ control'.needZlp = c.needZlp /\ control'.setup = c.setup
      /\ control'.packet = c.packet /\ control'.out = c.out /\ control'.count = c.count
      /\ control'.free = c.free /\ control'.from = c.from /\ control'.filled = c.filled
      /\ control'.on = c.on /\ control'.stall = c.stall /\ control'.address = c.address
      /\ control'.configuration = c.configuration
  BY <1>1, ZenonT(30) DEF Controls
<1>3. \/ control'.nakIn = TRUE /\ control'.nakOut = c.nakOut
      \/ control'.nakIn = c.nakIn /\ control'.nakOut = TRUE
  BY <1>1 DEF Controls
<1>4. Quiet(control')
  BY <1>1, <1>2 DEF Quiet
<1>5. CASE c.setup
  <2>1. Pending(c, h)
    BY <1>5 DEF ControlInv, Serves
  <2>2. Pending(control', h)
    BY <1>2, <2>1 DEF Pending
  <2> QED
    BY <1>1, <1>2, <1>4, <1>5, <2>2 DEF ControlInv, Serves
<1>6. CASE ~c.setup
  <2>1. Serving(c, h) /\ c.request = h.request
    BY <1>6 DEF ControlInv, Serves, Serving
  <2>2. c.state = "STALL_REQ" => Stalling(control')
    BY <1>2, <2>1 DEF Serving, Stalling, Control!Known
  <2>3. c.state = "HANDSHAKE_WAIT_IN_ZLP" => Acknowledging(control', h)
    <3> SUFFICES ASSUME c.state = "HANDSHAKE_WAIT_IN_ZLP" PROVE Acknowledging(control', h)
      OBVIOUS
    <3>1. Acknowledging(c, h)
      BY <2>1 DEF Serving
    <3>2. control'.nakOut = c.nakOut
      BY <1>1, <2>1, <3>1 DEF Acknowledging, Controls
    <3> QED
      BY <1>2, <3>1, <3>2 DEF Acknowledging
  <2>4. c.state = "HANDSHAKE_WAIT_OUT_ZLP" => Awaiting(control', h)
    <3> SUFFICES ASSUME c.state = "HANDSHAKE_WAIT_OUT_ZLP" PROVE Awaiting(control', h)
      OBVIOUS
    <3>1. Awaiting(c, h)
      BY <2>1 DEF Serving
    <3>2. control'.nakIn = c.nakIn
      BY <1>1, <1>6, <2>1, <3>1 DEF Awaiting, Controls
    <3> QED
      BY <1>2, <3>1, <3>2 DEF Awaiting
  <2>5. c.state = "DATA_OUT" => Taking(control', h)
    <3> SUFFICES ASSUME c.state = "DATA_OUT" PROVE Taking(control', h)
      OBVIOUS
    <3>1. Taking(c, h)
      BY <2>1 DEF Serving
    <3>2. ~Control!IsIn(h.request)
      BY <2>1, <3>1 DEF Taking, Control!IsIn
    <3>3. control'.nakIn => h.stage # "data"
      BY <1>1, <3>1, <3>2 DEF Taking, Controls
    <3> QED
      BY <1>2, <3>1, <3>3 DEF Taking
  <2>6. c.state = "DATA_IN" => Giving(control', h)
    BY <1>2, <2>1 DEF Serving, Giving
  <2>7. Serving(control', h)
    BY <1>2, <2>1, <2>2, <2>3, <2>4, <2>5, <2>6 DEF Serving
  <2> QED
    BY <1>1, <1>2, <1>4, <1>6, <2>7 DEF ControlInv, Serves
<1> QED
  BY <1>5, <1>6

\* A token IN that is answered: the host takes the packet.
LEMMA TakenServes ==
  ASSUME ControlInv, host.stage # "idle", ~control.stall, ~control.setup, ~control.free,
         IF Control!IsIn(host.request) THEN host.stage = "data" ELSE host.stage = "status",
         control' = [control EXCEPT !.free = TRUE, !.from = 0, !.filled = 0],
         host' = Control!Moved(host, control.filled)
  PROVE  ControlInv'
<1> DEFINE c == control
           h == host
<1>1. c \in Controls /\ h \in Hosts /\ Asking(h) /\ Quiet(c) /\ Serving(c, h) /\ c.request = h.request
  BY DEF ControlInv, Serves, Serving
<1>2. /\ control' \in Controls
      /\ control'.state = c.state /\ control'.request = c.request /\ control'.size = c.size
      /\ control'.sent = c.sent /\ control'.needZlp = c.needZlp /\ ~control'.setup
      /\ control'.out = c.out /\ control'.nakIn = c.nakIn /\ control'.nakOut = c.nakOut
      /\ control'.on = c.on /\ control'.stall = c.stall
      /\ control'.free /\ control'.filled = 0
  BY <1>1 DEF Controls
<1>3. Quiet(control')
  BY <1>1, <1>2 DEF Quiet
<1>4. c.state \notin {"SETUP", "STALL_REQ", "DATA_OUT"}
  BY <1>1 DEF Serving, Taking
<1>5. CASE ~Control!IsIn(h.request)
  <2>1. Acknowledging(c, h) /\ c.state = "HANDSHAKE_WAIT_IN_ZLP" /\ h.stage = "status"
    BY <1>1, <1>4, <1>5 DEF Serving, Awaiting, Giving, Controls
  <2>2. host' = Control!Ends(h, "done")
    BY <2>1 DEF Control!Moved
  <2>3. /\ host' \in Hosts /\ host'.stage = "idle" /\ host'.result = "done" /\ host'.request = h.request
        /\ host'.got = h.got /\ host'.early = h.early
    BY <1>1, <2>2, EndsIs
  <2>4. Asking(host')
    BY <1>5, <2>3 DEF Asking
  <2>5. Acknowledging(control', host')
    BY <1>2, <2>1, <2>3 DEF Acknowledging
  <2>6. Serving(control', host')
    BY <1>1, <1>2, <2>1, <2>3, <2>5 DEF Serving
  <2> QED
    BY <1>2, <1>3, <2>3, <2>4, <2>6 DEF ControlInv, Serves
<1>6. CASE Control!IsIn(h.request)
  <2> DEFINE got == h.got + c.filled
             stage == IF c.filled < ControlSize \/ got >= h.request.length THEN "status" ELSE "data"
  <2>1. Giving(c, h) /\ c.state = "DATA_IN" /\ h.stage = "data"
    BY <1>1, <1>4, <1>6 DEF Serving, Awaiting, Acknowledging, Controls
  <2>2. /\ c.filled \in Nat /\ h.got \in Nat /\ c.sent \in Nat /\ c.size \in Nat /\ c.from \in Nat
        /\ h.request \in Requests /\ ControlSize \in Nat
    BY <1>1, UsbAssumption DEF Controls, Hosts
  <2>3. h.request.length \in Nat /\ AllData(h.request) <= h.request.length
    BY <2>2, RequestParts
  <2>4. host' = [h EXCEPT !.got = got, !.stage = stage]
    BY <2>1 DEF Control!Moved
  <2>5. got = c.sent /\ c.sent <= c.size /\ c.size = AllData(h.request)
    BY <1>1, <2>1, <2>2 DEF Giving
  <2>6. stage = "status" => c.sent = c.size
    BY <2>1, <2>2, <2>3, <2>5 DEF Giving
  <2>7. stage = "data" => c.needZlp \/ c.sent < c.size
    BY <2>1, <2>2, <2>5 DEF Giving
  <2>8. stage \in {"data", "status"} /\ got \in Nat
    BY <2>2
  <2> HIDE DEF got, stage
  <2>9. /\ host' \in Hosts /\ host'.got = got /\ host'.stage = stage /\ host'.request = h.request
        /\ host'.result = h.result /\ host'.early = h.early
    BY <1>1, <2>4, <2>8 DEF Hosts
  <2>10. Asking(host')
    BY <1>1, <2>1, <2>9, <2>8 DEF Asking
  <2>11. Giving(control', host')
    BY <1>2, <2>1, <2>5, <2>6, <2>7, <2>8, <2>9, ZenonT(30) DEF Giving
  <2>12. Serving(control', host')
    BY <1>1, <1>2, <2>1, <2>9, <2>11 DEF Serving
  <2> QED
    BY <1>2, <1>3, <2>9, <2>10, <2>12 DEF ControlInv, Serves
<1> QED
  BY <1>5, <1>6

\* The handshake of the host after the data of the device.
LEMMA HandshakeServes ==
  ASSUME ControlInv, Control!IsIn(host.request), host.stage = "status",
         ~control.stall, ~control.setup, ~control.out,
         control' = [control EXCEPT !.out = TRUE, !.count = 0],
         host' = Control!Moved(host, 0)
  PROVE  ControlInv'
<1> DEFINE c == control
           h == host
<1>1. c \in Controls /\ h \in Hosts /\ Asking(h) /\ Quiet(c) /\ Serving(c, h) /\ c.request = h.request
  BY DEF ControlInv, Serves, Serving
<1>2. /\ control' \in Controls
      /\ control'.state = c.state /\ control'.request = c.request /\ control'.size = c.size
      /\ control'.sent = c.sent /\ control'.needZlp = c.needZlp /\ ~control'.setup
      /\ control'.nakIn = c.nakIn /\ control'.nakOut = c.nakOut
      /\ control'.on = c.on /\ control'.stall = c.stall
      /\ control'.free = c.free /\ control'.filled = c.filled /\ control'.from = c.from
      /\ control'.out
  BY <1>1 DEF Controls
<1>3. host' = Control!Ends(h, "done")
  BY DEF Control!Moved
<1>4. /\ host' \in Hosts /\ host'.stage = "idle" /\ host'.result = "done" /\ host'.request = h.request
      /\ host'.got = h.got /\ host'.early = h.early
  BY <1>1, <1>3, EndsIs
<1>5. h.request.kind # "line"
  BY DEF Control!IsIn
<1>6. c.state \in {"DATA_IN", "HANDSHAKE_WAIT_OUT_ZLP"}
  BY <1>1, <1>5 DEF Serving, Taking, Acknowledging, Controls
<1>7. Quiet(control')
  BY <1>2, <1>6 DEF Quiet
<1>8. h.early \/ h.got = AllData(h.request)
  BY <1>1, <1>6 DEF Serving, Giving, Awaiting
<1>9. Asking(host')
  BY <1>4, <1>8 DEF Asking
<1>10. CASE c.state = "DATA_IN"
  <2>1. Giving(control', host')
    BY <1>1, <1>2, <1>4, <1>10 DEF Serving, Giving
  <2>2. Serving(control', host')
    BY <1>1, <1>2, <1>4, <1>10, <2>1 DEF Serving
  <2> QED
    BY <1>2, <1>4, <1>7, <1>9, <2>2 DEF ControlInv, Serves
<1>11. CASE c.state = "HANDSHAKE_WAIT_OUT_ZLP"
  <2>1. Awaiting(control', host')
    BY <1>1, <1>2, <1>4, <1>11 DEF Serving, Awaiting
  <2>2. Serving(control', host')
    BY <1>1, <1>2, <1>4, <1>11, <2>1 DEF Serving
  <2> QED
    BY <1>2, <1>4, <1>7, <1>9, <2>2 DEF ControlInv, Serves
<1> QED
  BY <1>6, <1>10, <1>11

\* A packet of the host's data.
LEMMA GivenServes ==
  ASSUME ControlInv, ~Control!IsIn(host.request), host.stage = "data",
         ~control.stall, ~control.setup, ~control.out,
         NEW n, n = Control!Least(ControlSize, host.request.length - host.got),
         control' = [control EXCEPT !.out = TRUE, !.count = n],
         host' = Control!Moved(host, n)
  PROVE  ControlInv'
<1> DEFINE c == control
           h == host
           got == h.got + n
           stage == IF n < ControlSize \/ got >= h.request.length THEN "status" ELSE "data"
<1>1. c \in Controls /\ h \in Hosts /\ Asking(h) /\ Quiet(c) /\ Serving(c, h) /\ c.request = h.request
  BY DEF ControlInv, Serves, Serving
<1>2. c.state = "DATA_OUT" /\ Taking(c, h)
  BY <1>1 DEF Serving, Acknowledging, Awaiting, Giving, Controls
<1>3. /\ c.sent \in Nat /\ c.size \in Nat /\ h.got \in Nat /\ ControlSize \in Nat
      /\ c.size = h.request.length /\ h.got = c.sent /\ c.sent < c.size
  BY <1>1, <1>2, UsbAssumption DEF Taking, Controls, Hosts
<1>4. /\ n \in Nat /\ n <= c.size - c.sent /\ n <= ControlSize
      /\ n = ControlSize \/ n = c.size - c.sent
  BY <1>3 DEF Control!Least
<1>5. n = Control!Least(ControlSize, c.size - c.sent)
  BY <1>3
<1>6. /\ control' \in Controls
      /\ control'.state = c.state /\ control'.request = c.request /\ control'.size = c.size
      /\ control'.sent = c.sent /\ ~control'.setup /\ control'.nakIn = c.nakIn
      /\ control'.on = c.on /\ control'.stall = c.stall
      /\ control'.free = c.free /\ control'.filled = c.filled
      /\ control'.out /\ control'.count = n
  BY <1>1, <1>4 DEF Controls
<1>7. host' = [h EXCEPT !.got = got, !.stage = stage]
  BY DEF Control!Moved
<1>8. /\ stage \in {"data", "status"} /\ got \in Nat /\ got = c.sent + n
      /\ stage = "data" => got < c.size
      /\ stage = "status" => got = c.size
  BY <1>3, <1>4
<1> HIDE DEF got, stage
<1>9. /\ host' \in Hosts /\ host'.got = got /\ host'.stage = stage /\ host'.request = h.request
      /\ host'.result = h.result /\ host'.early = h.early
  BY <1>1, <1>7, <1>8 DEF Hosts
<1>10. Asking(host')
  BY <1>1, <1>8, <1>9 DEF Asking
<1>11. Taking(control', host')
  <2>1. control'.nakIn => host'.stage # "data"
    BY <1>2, <1>6 DEF Taking
  <2>2. control'.out => /\ control'.sent <= control'.size
                        /\ control'.count = Control!Least(ControlSize, control'.size - control'.sent)
                        /\ host'.got = control'.sent + control'.count
                        /\ host'.stage = "data" => host'.got < control'.size
                        /\ host'.stage = "status" => host'.early \/ host'.got = control'.size
    BY <1>3, <1>5, <1>6, <1>8, <1>9
  <2> QED
    BY <1>2, <1>6, <1>8, <1>9, <2>1, <2>2 DEF Taking
<1>12. Serving(control', host') /\ Quiet(control')
  BY <1>1, <1>2, <1>6, <1>9, <1>11 DEF Serving, Quiet
<1> QED
  BY <1>6, <1>9, <1>10, <1>12 DEF ControlInv, Serves

LEMMA TokenServes ==
  ASSUME ControlInv, Control!Token
  PROVE  ControlInv'
<1>1. control \in Controls /\ host \in Hosts /\ Asking(host)
  BY DEF ControlInv, Serves
<1>2. CASE /\ IF Control!IsIn(host.request) THEN host.stage = "data" ELSE host.stage = "status"
           /\ Control!InToken
  BY <1>1, <1>2, StallServes, NakServes, TakenServes DEF Control!InToken
<1>3. CASE /\ Control!IsIn(host.request) /\ host.stage = "status"
           /\ Control!OutToken(0)
  BY <1>1, <1>3, StallServes, NakServes, HandshakeServes DEF Control!OutToken
<1>4. CASE /\ ~Control!IsIn(host.request) /\ host.stage = "data"
           /\ Control!OutToken(Control!Least(ControlSize, host.request.length - host.got))
  <2> DEFINE n == Control!Least(ControlSize, host.request.length - host.got)
  <2>1. Control!OutToken(n)
    BY <1>4
  <2> HIDE DEF n
  <2>2. \/ control.stall /\ host' = Control!Ends(host, "stalled") /\ UNCHANGED control
        \/ control' = [control EXCEPT !.nakOut = TRUE] /\ UNCHANGED host
        \/ /\ ~control.stall /\ ~control.setup /\ ~control.out
           /\ control' = [control EXCEPT !.out = TRUE, !.count = n] /\ host' = Control!Moved(host, n)
    BY <2>1 DEF Control!OutToken
  <2>3. n = Control!Least(ControlSize, host.request.length - host.got)
    BY DEF n
  <2> QED
    BY <1>4, <2>2, <2>3, StallServes, NakServes, GivenServes
<1> QED
  BY <1>2, <1>3, <1>4 DEF Control!Token

LEMMA GoOnServes ==
  ASSUME ControlInv, Control!GoOn
  PROVE  ControlInv'
<1> DEFINE c == control
           h == host
<1>1. c \in Controls /\ h \in Hosts /\ Asking(h) /\ Quiet(c) /\ UNCHANGED control
  BY DEF ControlInv, Serves, Control!GoOn
<1>2. /\ host' = [h EXCEPT !.stage = "status", !.early = TRUE, !.broken = @ + 1] /\ h.stage = "data"
  BY DEF Control!GoOn
<1>3. /\ host' \in Hosts /\ host'.stage = "status" /\ host'.early /\ host'.request = h.request
      /\ host'.got = h.got /\ host'.result = h.result
  <2>1. h.broken + 1 \in Nat
    BY <1>1 DEF Hosts
  <2> QED
    BY <1>1, <1>2, <2>1 DEF Hosts
<1>4. Asking(host')
  BY <1>1, <1>2, <1>3 DEF Asking
<1>5. c.setup => Pending(c, host')
  BY <1>1, <1>2, <1>3 DEF ControlInv, Serves, Pending
<1>6. ASSUME ~c.setup PROVE Serving(c, host')
  <2>1. Serving(c, h)
    BY <1>6 DEF ControlInv, Serves
  <2>2. c.state \notin {"SETUP", "HANDSHAKE_WAIT_IN_ZLP", "HANDSHAKE_WAIT_OUT_ZLP"}
    BY <1>2, <2>1 DEF Serving, Acknowledging, Awaiting
  <2>3. c.state = "DATA_OUT" => Taking(c, host')
    BY <1>2, <1>3, <2>1 DEF Serving, Taking
  <2>4. c.state = "DATA_IN" => Giving(c, host')
    BY <1>2, <1>3, <2>1 DEF Serving, Giving
  <2> QED
    BY <1>3, <2>1, <2>2, <2>3, <2>4 DEF Serving
<1> QED
  BY <1>1, <1>3, <1>4, <1>5, <1>6 DEF ControlInv, Serves

LEMMA ResetServes ==
  ASSUME ControlInv, NEW broken \in Nat, Control!Reset(broken)
  PROVE  ControlInv'
<1>1. Control!NoRequest \in Requests /\ Control!NoRequest.kind = "none"
  BY DEF Requests, Control!NoRequest
<1>2. /\ control' = Control!NewControl /\ host' = [Control!NewHost EXCEPT !.broken = broken]
  BY DEF Control!Reset
<1>3. control' \in Controls /\ host' \in Hosts
  BY <1>1, <1>2 DEF Control!NewControl, Control!NewHost, Controls, Hosts
<1> QED
  BY <1>1, <1>2, <1>3 DEF Control!NewControl, Control!NewHost, ControlInv, Serves, Asking, Quiet,
    Serving

LEMMA HostServes ==
  ASSUME ControlInv, Control!Host
  PROVE  ControlInv'
<1>1. host.broken \in Nat /\ host.broken + 1 \in Nat
  BY DEF ControlInv, Serves, Hosts
<1>2. CASE Control!GiveUp \/ Control!NoAnswer
  BY <1>1, <1>2, ResetServes DEF Control!GiveUp, Control!NoAnswer
<1> QED
  BY <1>2, SetupServes, TokenServes, GoOnServes DEF Control!Host

-----------------------------------------------------------------------------
(* What the interrupt handler does *)

LEMMA CtrlEnds ==
  ASSUME NEW c \in Controls
  PROVE  LET e == Control!CtrlInit(Control!EndOfRequest(c))
         IN  /\ e \in Controls /\ e.state = "SETUP" /\ e.on = c.on \ {"in"} /\ ~e.out
             /\ e.request = c.request /\ e.setup = c.setup /\ e.packet = c.packet
             /\ e.free = c.free /\ e.filled = c.filled /\ e.stall = c.stall
<1> DEFINE f == Control!EndOfRequest(c)
<1>1. /\ f \in Controls /\ f.on = c.on /\ f.request = c.request /\ f.setup = c.setup
      /\ f.packet = c.packet /\ f.free = c.free /\ f.filled = c.filled /\ f.stall = c.stall
  <2>1. c.request.value \in Nat
    BY RequestParts DEF Controls
  <2> QED
    BY <2>1 DEF Control!EndOfRequest, Controls
<1> HIDE DEF f
<1>2. LET e == Control!CtrlInit(f)
      IN  /\ e \in Controls /\ e.state = "SETUP" /\ e.on = f.on \ {"in"} /\ ~e.out
          /\ e.request = f.request /\ e.setup = f.setup /\ e.packet = f.packet
          /\ e.free = f.free /\ e.filled = f.filled /\ e.stall = f.stall
  BY <1>1 DEF Control!CtrlInit, Controls
<1> QED
  BY <1>1, <1>2 DEF f

\* The request has ended for both sides.
LEMMA EndServes ==
  ASSUME NEW c \in Controls, NEW h \in Hosts, Asking(h), ~c.setup, ~c.stall,
         c.request = h.request, h.stage = "idle", h.result # "stalled"
  PROVE  Serves(Control!CtrlInit(Control!EndOfRequest(c)), h)
  BY CtrlEnds DEF Serves, Quiet, Serving

LEMMA SendZlpInIs ==
  ASSUME NEW c \in Controls
  PROVE  LET e == Control!SendZlpIn(c)
         IN  /\ e \in Controls /\ e.state = "HANDSHAKE_WAIT_IN_ZLP" /\ ~e.nakOut /\ ~e.free
             /\ "in" \in e.on /\ e.out = c.out /\ e.request = c.request /\ e.setup = c.setup
             /\ e.stall = c.stall
  BY DEF Control!SendZlpIn, Control!Send, Controls

\* The device acknowledges a request without data, or with data from the host.
LEMMA SendZlpInServes ==
  ASSUME NEW c \in Controls, NEW h \in Hosts, Asking(h), ~c.setup, ~c.stall, ~c.out,
         c.request = h.request, ~Control!IsIn(c.request), h.stage = "status"
  PROVE  Serves(Control!SendZlpIn(c), h)
<1>1. h.result = "none"
  BY DEF Asking
<1> QED
  BY <1>1, SendZlpInIs DEF Serves, Quiet, Serving, Acknowledging

LEMMA SendZlpOutServes ==
  ASSUME NEW c \in Controls, NEW h \in Hosts, Asking(h), ~c.setup, ~c.stall,
         c.request = h.request, Control!IsIn(c.request), "in" \notin c.on,
         h.stage # "data", h.result # "stalled",
         c.out => h.stage = "idle",
         h.stage = "status" => h.early \/ h.got = AllData(c.request)
  PROVE  Serves(Control!SendZlpOut(c), h)
<1> DEFINE e == Control!SendZlpOut(c)
<1>1. /\ e \in Controls /\ e.state = "HANDSHAKE_WAIT_OUT_ZLP" /\ ~e.nakIn /\ "in" \notin e.on
      /\ e.out = c.out /\ e.request = c.request /\ e.setup = c.setup /\ e.stall = c.stall
  BY DEF Control!SendZlpOut, Control!WatchNakIn, Controls
<1> HIDE DEF e
<1>2. Serves(e, h)
  BY <1>1 DEF Serves, Quiet, Serving, Awaiting
<1> QED
  BY <1>2 DEF e

\* One packet more does not change what the sizes say of full packets.
LEMMA PacketMore ==
  ASSUME NEW a \in Nat
  PROVE  (a + ControlSize) % ControlSize = a % ControlSize
<1>1. PICK m \in Nat \ {0} : m = ControlSize
  BY UsbAssumption
<1>2. \A x \in Nat : \E q \in Int, r \in 0 .. m - 1 : x = m * q + r /\ r = x % m
  BY SMTT(30)
<1>3. PICK q \in Int, r \in 0 .. m - 1 : a = m * q + r /\ r = a % m
  BY <1>2
<1>4. PICK p \in Int, s \in 0 .. m - 1 : a + m = m * p + s /\ s = (a + m) % m
  <2>1. a + m \in Nat
    OBVIOUS
  <2> QED
    BY <1>2, <2>1
<1>5. PICK z \in Int : z = p - q - 1
  OBVIOUS
<1>6. m * z = m * p - m * q - m
  BY <1>5
<1>7. PICK e \in Int, f \in Int, g \in Int : e = m * q /\ f = m * p /\ g = m * z
  OBVIOUS
<1>8. g = r - s
  BY <1>3, <1>4, <1>6, <1>7
<1>9. z = 0
  <2>1. z >= 1 => m * z >= m
    OBVIOUS
  <2>2. z <= -1 => m * z <= -m
    OBVIOUS
  <2> QED
    BY <1>7, <1>8, <2>1, <2>2
<1>10. g = 0
  BY <1>7, <1>9
<1>11. r = s
  BY <1>8, <1>10
<1> QED
  BY <1>1, <1>3, <1>4, <1>11

\* The device hands over the next packet of its data.
LEMMA NextPacketServes ==
  ASSUME NEW c \in Controls, NEW h \in Hosts, Asking(h), ~c.setup, ~c.stall, ~c.out,
         c.state = "DATA_IN", c.request = h.request, Control!IsIn(c.request),
         h.result # "stalled", h.stage # "idle",
         c.size = AllData(c.request), c.sent <= c.size,
         c.sent < c.size => /\ c.sent % ControlSize = 0
                            /\ c.needZlp <=> c.size % ControlSize = 0,
         c.sent < c.size \/ c.needZlp,
         h.stage = "data" => h.got = c.sent,
         h.stage = "status" => h.early \/ h.got = c.size
  PROVE  LET n == Control!Least(c.size - c.sent, ControlSize)
             last == [c EXCEPT !.needZlp = @ /\ c.size - c.sent # 0]
         IN  Serves([Control!Send(last, c.sent, n) EXCEPT !.sent = @ + n], h)
<1> DEFINE n == Control!Least(c.size - c.sent, ControlSize)
           last == [c EXCEPT !.needZlp = @ /\ c.size - c.sent # 0]
           e == [Control!Send(last, c.sent, n) EXCEPT !.sent = @ + n]
<1>1. c.size \in Nat /\ c.sent \in Nat /\ ControlSize \in Nat \ {0} /\ c.needZlp \in BOOLEAN
  BY UsbAssumption DEF Controls
<1>2. /\ n \in Nat /\ n <= ControlSize /\ n <= c.size - c.sent
      /\ n = ControlSize \/ n = c.size - c.sent
  BY <1>1 DEF Control!Least
<1>3. PICK zlp \in BOOLEAN : zlp <=> c.needZlp /\ c.size - c.sent # 0
  OBVIOUS
<1>4. last = [c EXCEPT !.needZlp = zlp]
  <2>1. zlp = (c.needZlp /\ c.size - c.sent # 0)
    BY <1>1, <1>3
  <2> QED
    BY <2>1
<1> HIDE DEF n, last
<1>5. /\ e \in Controls /\ e.state = "DATA_IN" /\ e.request = c.request /\ e.setup = c.setup
      /\ e.stall = c.stall /\ e.size = c.size /\ e.out = c.out /\ "in" \in e.on /\ ~e.free
      /\ e.from = c.sent /\ e.filled = n /\ e.sent = c.sent + n /\ e.needZlp = zlp
  <2> DEFINE s == Control!Send(last, c.sent, n)
  <2>1. /\ last \in Controls /\ last.state = "DATA_IN" /\ last.request = c.request
        /\ last.setup = c.setup /\ last.stall = c.stall /\ last.size = c.size /\ last.out = c.out
        /\ last.sent = c.sent /\ last.needZlp = zlp
    BY <1>4 DEF Controls
  <2>2. /\ s \in Controls /\ s.state = "DATA_IN" /\ s.request = c.request
        /\ s.setup = c.setup /\ s.stall = c.stall /\ s.size = c.size /\ s.out = c.out
        /\ s.sent = c.sent /\ s.needZlp = zlp /\ "in" \in s.on /\ ~s.free
        /\ s.from = c.sent /\ s.filled = n
    BY <1>1, <1>2, <2>1 DEF Controls, Control!Send
  <2>3. e = [s EXCEPT !.sent = @ + n]
    OBVIOUS
  <2>4. s.sent + n \in Nat
    BY <1>1, <1>2, <2>2
  <2> HIDE DEF s, e
  <2> QED
    BY <2>2, <2>3, <2>4 DEF Controls
<1> HIDE DEF e
<1>6. e.sent < e.size => e.sent % ControlSize = 0 /\ (e.needZlp <=> e.size % ControlSize = 0)
  <2> SUFFICES ASSUME e.sent < e.size
               PROVE  e.sent % ControlSize = 0 /\ (e.needZlp <=> e.size % ControlSize = 0)
    OBVIOUS
  <2>1. n = ControlSize /\ c.sent < c.size /\ c.size - c.sent # 0
    BY <1>1, <1>2, <1>5
  <2>2. e.sent % ControlSize = 0
    BY <1>1, <1>5, <2>1, PacketMore
  <2> QED
    BY <1>3, <1>5, <2>1, <2>2
<1>7. e.sent = e.size /\ ~e.needZlp => e.filled < ControlSize
  <2> SUFFICES ASSUME e.sent = e.size, ~e.needZlp, ~(n < ControlSize) PROVE FALSE
    BY <1>5
  <2>1. n = ControlSize /\ c.sent < c.size /\ c.size - c.sent # 0 /\ c.size = c.sent + ControlSize
    BY <1>1, <1>2, <1>5
  <2>2. ~c.needZlp
    BY <1>3, <1>5, <2>1
  <2>3. c.size % ControlSize = 0
    BY <1>1, <2>1, PacketMore
  <2> QED
    BY <2>1, <2>2, <2>3
<1>8. Giving(e, h)
  <2>1. e.filled < ControlSize => e.sent = e.size
    BY <1>1, <1>2, <1>5
  <2>2. e.sent <= e.size /\ e.sent = e.from + e.filled /\ e.filled <= ControlSize
    BY <1>1, <1>2, <1>5
  <2> QED
    BY <1>5, <1>6, <1>7, <2>1, <2>2 DEF Giving
<1>9. Serves(e, h)
  BY <1>5, <1>8 DEF Serves, Quiet, Serving
<1> QED
  BY <1>9 DEF e, last, n

\* The data of the device: what udd_ctrl_in_sent makes of a packet that the
\* host has taken.
LEMMA InSentServes ==
  ASSUME NEW c \in Controls, NEW h \in Hosts, Serves(c, h), ~c.setup, c.free, "in" \in c.on
  PROVE  Serves(Control!InSent(c), h)
<1> DEFINE d == [c EXCEPT !.on = @ \ {"in"}]
           remain == d.size - d.sent
           n == Control!Least(remain, ControlSize)
           last == [d EXCEPT !.needZlp = @ /\ remain # 0]
<1>1. Asking(h) /\ Serving(c, h) /\ c.request = h.request
  BY DEF Serves, Serving
<1>2. c.state \in {"HANDSHAKE_WAIT_IN_ZLP", "DATA_IN"}
  BY <1>1 DEF Serves, Quiet, Serving, Awaiting, Taking, Controls
<1>3. ~c.stall /\ h.result # "stalled"
  BY <1>1, <1>2 DEF Serving
<1>4. /\ d \in Controls /\ "in" \notin d.on /\ d.state = c.state /\ d.request = c.request
      /\ d.size = c.size /\ d.sent = c.sent /\ d.needZlp = c.needZlp /\ d.setup = c.setup
      /\ d.out = c.out /\ d.stall = c.stall /\ d.free = c.free
  BY DEF Controls
<1>5. CASE c.state = "HANDSHAKE_WAIT_IN_ZLP"
  <2>1. h.stage = "idle"
    BY <1>1, <1>5 DEF Serving, Acknowledging
  <2>2. Control!InSent(c) = Control!CtrlInit(Control!EndOfRequest(d))
    BY <1>4, <1>5 DEF Control!InSent
  <2> HIDE DEF d
  <2> QED
    BY <1>1, <1>3, <1>4, <2>1, <2>2, EndServes
<1>6. CASE c.state = "DATA_IN"
  <2>1. Giving(c, h)
    BY <1>1, <1>6 DEF Serving
  <2>2. c.size \in Nat /\ c.sent \in Nat /\ c.needZlp \in BOOLEAN /\ c.sent <= c.size
    BY <2>1 DEF Controls, Giving
  <2>3. h.stage = "data" => h.got = c.sent /\ (c.needZlp \/ c.sent < c.size)
    BY <2>1 DEF Giving
  <2>4. CASE remain = 0 /\ ~d.needZlp
    <3>1. Control!InSent(c) = Control!SendZlpOut(d)
      BY <1>4, <1>6, <2>4 DEF Control!InSent
    <3>2. h.stage # "data"
      BY <1>4, <2>2, <2>3, <2>4
    <3>3. /\ Control!IsIn(d.request) /\ (d.out => h.stage = "idle")
          /\ h.stage = "status" => h.early \/ h.got = AllData(d.request)
      BY <1>4, <2>1 DEF Giving
    <3> HIDE DEF d
    <3> QED
      BY <1>1, <1>3, <1>4, <3>1, <3>2, <3>3, SendZlpOutServes
  <2>5. CASE ~(remain = 0 /\ ~d.needZlp) /\ d.out
    <3> DEFINE e == [last EXCEPT !.state = "HANDSHAKE_WAIT_OUT_ZLP"]
    <3>1. Control!InSent(c) = e
      BY <1>4, <1>6, <2>5 DEF Control!InSent
    <3>2. (d.needZlp /\ remain # 0) \in BOOLEAN
      OBVIOUS
    <3>3. /\ e \in Controls /\ e.state = "HANDSHAKE_WAIT_OUT_ZLP" /\ "in" \notin e.on /\ e.out
          /\ e.request = c.request /\ e.setup = c.setup /\ e.stall = c.stall
      BY <1>4, <2>5, <3>2, ZenonT(30) DEF Controls
    <3> HIDE DEF e
    <3>4. Awaiting(e, h)
      BY <2>1, <2>5, <1>4, <3>3 DEF Giving, Awaiting
    <3> QED
      BY <1>1, <1>3, <3>1, <3>3, <3>4 DEF Serves, Quiet, Serving
  <2>6. CASE ~(remain = 0 /\ ~d.needZlp) /\ ~d.out
    <3>1. Control!InSent(c) = [Control!Send(last, d.sent, n) EXCEPT !.sent = @ + n]
      BY <1>4, <1>6, <2>6 DEF Control!InSent
    <3>2. /\ Control!IsIn(d.request) /\ d.size = AllData(d.request)
          /\ d.sent < d.size => d.sent % ControlSize = 0 /\ (d.needZlp <=> d.size % ControlSize = 0)
          /\ h.stage = "status" => h.early \/ h.got = d.size
          /\ h.stage # "idle" /\ d.sent <= d.size
      BY <1>4, <2>1, <2>6 DEF Giving
    <3>3. (d.sent < d.size \/ d.needZlp) /\ (h.stage = "data" => h.got = d.sent)
      BY <1>4, <2>2, <2>3, <2>6
    <3> HIDE DEF d
    <3> QED
      BY <1>1, <1>3, <1>4, <1>6, <2>6, <3>1, <3>2, <3>3, NextPacketServes
  <2> QED
    BY <2>4, <2>5, <2>6
<1> QED
  BY <1>2, <1>5, <1>6

\* A request has come: what udd_ctrl_setup_received makes of it.
LEMMA SetupReceivedServes ==
  ASSUME NEW before \in Controls, NEW h \in Hosts, Serves(before, h), before.setup
  PROVE  Serves(Control!SetupReceived(before), h)
<1> DEFINE c == IF before.state # "SETUP" THEN Control!CtrlInit(Control!EndOfRequest(before))
                ELSE before
           r == c.packet
           acked == [Control!ProcessSetup(c, r) EXCEPT !.setup = FALSE,
                                                       !.packet = Control!NoRequest]
           size == CASE r.kind = "descriptor" -> Control!Least(r.length, r.value)
                     [] r.kind = "line" -> LineLength
                     [] OTHER -> 0
           configuration == IF r.kind = "configuration" /\ Control!Known(c, r) THEN r.value
                            ELSE c.configuration
           callback == IF r.kind \in {"address", "line"} THEN r.kind ELSE "none"
<1>1. /\ Asking(h) /\ before.packet = h.request /\ h.stage # "idle" /\ h.got = 0
      /\ before.free /\ before.filled = 0 /\ ~before.stall
      /\ h.stage = "status" => h.early \/ h.request.length = 0
  BY DEF Serves, Pending
<1>2. /\ c \in Controls /\ c.state = "SETUP" /\ "in" \notin c.on /\ ~c.out /\ c.packet = h.request
      /\ c.free /\ c.filled = 0 /\ ~c.stall
  <2>1. CASE before.state = "SETUP"
    BY <1>1, <2>1 DEF Serves, Quiet
  <2>2. CASE before.state # "SETUP"
    BY <1>1, <2>2, CtrlEnds
  <2> QED
    BY <2>1, <2>2
<1>3. Control!SetupReceived(before) =
        CASE ~Control!Known(c, r) -> Control!StallData(acked)
          [] Control!Known(c, r) /\ Control!IsIn(r) ->
               Control!InSent([acked EXCEPT !.needZlp = Control!NeedsZlp(acked.size),
                                            !.sent = 0, !.state = "DATA_IN"])
          [] OTHER -> IF r.length = 0 THEN Control!SendZlpIn(acked)
                      ELSE Control!WatchNakIn([acked EXCEPT !.sent = 0, !.state = "DATA_OUT"])
  BY DEF Control!SetupReceived
<1> HIDE DEF c
<1>4. /\ r = h.request /\ r \in Requests /\ r.kind # "none" /\ r.length \in Nat /\ r.value \in Nat
      /\ h.result = "none"
      /\ h.stage = "data" => r.length # 0 /\ ~h.early
  <2>1. r = h.request /\ r \in Requests /\ r # Control!NoRequest
    BY <1>1, <1>2 DEF Asking, Hosts
  <2>2. r.kind # "none" /\ r.length \in Nat /\ r.value \in Nat
    BY <2>1, RequestParts
  <2> QED
    BY <1>1, <2>1, <2>2 DEF Asking
<1> HIDE DEF r
<1>5. size \in Nat /\ configuration \in Nat /\ callback \in {"none", "address", "line"}
  <2>1. size \in Nat
    BY <1>4, UsbAssumption DEF Control!Least
  <2>2. configuration \in Nat
    BY <1>2, <1>4 DEF Controls
  <2> QED
    BY <2>1, <2>2
<1>6. acked = [c EXCEPT !.request = r, !.callback = callback, !.size = size,
                        !.configuration = configuration, !.setup = FALSE,
                        !.packet = Control!NoRequest]
  BY <1>2 DEF Control!ProcessSetup, Controls
<1>7. Control!NoRequest \in Requests
  BY DEF Requests
<1> HIDE DEF size, configuration, callback, acked
<1>8. /\ acked \in Controls /\ acked.request = r /\ acked.size = size /\ ~acked.setup
      /\ acked.configuration = configuration /\ acked.address = c.address
      /\ acked.state = "SETUP" /\ acked.on = c.on /\ ~acked.out /\ acked.free
      /\ acked.filled = 0 /\ ~acked.stall
  BY <1>2, <1>4, <1>5, <1>6, <1>7, ZenonT(30) DEF Controls
<1>9. CASE ~Control!Known(c, r)
  <2> DEFINE e == Control!StallData(acked)
  <2>1. /\ e \in Controls /\ e.request = r /\ ~e.setup /\ e.state = "STALL_REQ" /\ "in" \notin e.on
        /\ ~e.out /\ e.filled = 0 /\ e.stall
        /\ e.configuration = acked.configuration /\ e.address = acked.address
    BY <1>2, <1>8 DEF Control!StallData, Controls
  <2> HIDE DEF e
  <2>2. e.configuration = c.configuration /\ e.address = c.address
    BY <1>8, <1>9, <2>1 DEF configuration
  <2>3. ~Control!Known(e, r)
    BY <1>9, <2>2 DEF Control!Known
  <2>4. Serves(e, h)
    BY <1>1, <1>4, <2>1, <2>3 DEF Serves, Quiet, Serving, Stalling
  <2> QED
    BY <1>3, <1>9, <2>4 DEF e
<1>10. CASE Control!Known(c, r) /\ Control!IsIn(r)
  <2> DEFINE zlp == Control!NeedsZlp(acked.size)
             d == [acked EXCEPT !.needZlp = zlp, !.sent = 0, !.state = "DATA_IN"]
             off == [d EXCEPT !.on = @ \ {"in"}]
             n == Control!Least(off.size - off.sent, ControlSize)
             last == [off EXCEPT !.needZlp = @ /\ off.size - off.sent # 0]
  <2>1. Control!SetupReceived(before) = Control!InSent(d)
    BY <1>3, <1>10
  <2>2. size = AllData(r) /\ size \in Nat /\ size # 0
    <3>1. r.kind = "descriptor"
      BY <1>10 DEF Control!IsIn
    <3>2. size = AllData(r)
      BY <3>1 DEF size, AllData
    <3>3. r.length # 0 /\ r.value # 0
      BY <1>4, <3>1, RequestParts
    <3> QED
      BY <1>4, <3>2, <3>3 DEF AllData, Control!Least
  <2>3. zlp \in BOOLEAN /\ (zlp <=> size % ControlSize = 0)
    BY <1>8 DEF Control!NeedsZlp
  <2> HIDE DEF zlp
  <2>4. /\ d \in Controls /\ d.state = "DATA_IN" /\ d.request = r /\ ~d.setup /\ ~d.stall /\ ~d.out
        /\ d.size = size /\ d.sent = 0 /\ d.needZlp = zlp
    BY <1>8, <2>3, ZenonT(30) DEF Controls
  <2> HIDE DEF d
  <2>5. /\ off \in Controls /\ off.state = "DATA_IN" /\ off.request = r /\ ~off.setup /\ ~off.stall
        /\ ~off.out /\ off.size = size /\ off.sent = 0 /\ off.needZlp = zlp
    BY <2>4 DEF Controls
  <2>6. Control!InSent(d) = [Control!Send(last, off.sent, n) EXCEPT !.sent = @ + n]
    BY <2>2, <2>4, <2>5 DEF Control!InSent
  <2> HIDE DEF off
  <2>7. /\ off.sent <= off.size /\ off.sent < off.size
        /\ off.sent % ControlSize = 0 /\ (off.needZlp <=> off.size % ControlSize = 0)
    BY <2>2, <2>3, <2>5, UsbAssumption
  <2>8. /\ Control!IsIn(off.request) /\ off.request = h.request /\ off.size = AllData(off.request)
        /\ h.result # "stalled" /\ h.stage # "idle"
        /\ h.stage = "data" => h.got = off.sent
        /\ h.stage = "status" => h.early \/ h.got = off.size
    <3>1. h.stage = "status" => h.early
      <4>1. r.length # 0
        BY <1>4, <1>10, RequestParts DEF Control!IsIn
      <4> QED
        BY <1>1, <1>4, <4>1
    <3> QED
      BY <1>1, <1>4, <1>10, <2>2, <2>5, <3>1
  <2>9. Serves(Control!InSent(d), h)
    BY <1>1, <2>5, <2>6, <2>7, <2>8, NextPacketServes DEF n, last
  <2> QED
    BY <2>1, <2>9
<1>11. CASE Control!Known(c, r) /\ ~Control!IsIn(r) /\ r.length = 0
  <2>1. Control!SetupReceived(before) = Control!SendZlpIn(acked)
    BY <1>3, <1>11
  <2>2. h.stage = "status"
    BY <1>1, <1>4, <1>11 DEF Hosts
  <2> QED
    BY <1>1, <1>4, <1>8, <1>11, <2>1, <2>2, SendZlpInServes
<1>12. CASE Control!Known(c, r) /\ ~Control!IsIn(r) /\ r.length # 0
  <2> DEFINE e == Control!WatchNakIn([acked EXCEPT !.sent = 0, !.state = "DATA_OUT"])
  <2>1. Control!SetupReceived(before) = e
    BY <1>3, <1>12
  <2>2. r.kind = "line" /\ r.length = LineLength
    BY <1>4, <1>12, RequestParts DEF Control!Known, Control!IsIn
  <2>3. size = r.length
    BY <2>2 DEF size
  <2>4. /\ e \in Controls /\ e.state = "DATA_OUT" /\ e.request = r /\ ~e.setup /\ ~e.stall /\ ~e.out
        /\ e.size = size /\ e.sent = 0 /\ ~e.nakIn /\ "in" \notin e.on /\ e.free /\ e.filled = 0
    BY <1>2, <1>8 DEF Control!WatchNakIn, Controls
  <2> HIDE DEF e
  <2>5. Taking(e, h)
    BY <1>1, <1>4, <1>12, <2>2, <2>3, <2>4 DEF Taking
  <2>6. Serves(e, h)
    BY <1>1, <1>4, <2>4, <2>5 DEF Serves, Quiet, Serving
  <2> QED
    BY <2>1, <2>6
<1> QED
  BY <1>9, <1>10, <1>11, <1>12

\* The data of the host: what udd_ctrl_out_received makes of a packet.
LEMMA OutReceivedServes ==
  ASSUME NEW c \in Controls, NEW h \in Hosts, Serves(c, h), ~c.setup, c.out
  PROVE  Serves(Control!OutReceived(c), h)
<1> DEFINE n == Control!Least(c.count, c.size - c.sent)
           read == [c EXCEPT !.sent = @ + n, !.out = FALSE, !.count = 0]
<1>1. Asking(h) /\ Quiet(c) /\ Serving(c, h) /\ c.request = h.request
  BY DEF Serves, Serving
<1>2. c.state \in {"DATA_IN", "HANDSHAKE_WAIT_OUT_ZLP", "DATA_OUT"}
  BY <1>1 DEF Quiet, Serving, Stalling, Acknowledging, Controls
<1>3. ~c.stall /\ h.result # "stalled"
  BY <1>1, <1>2 DEF Serving
<1>4. CASE c.state \in {"DATA_IN", "HANDSHAKE_WAIT_OUT_ZLP"}
  <2>1. h.stage = "idle"
    BY <1>1, <1>4 DEF Serving, Giving, Awaiting
  <2>2. Control!OutReceived(c) = Control!CtrlInit(Control!EndOfRequest(c))
    BY <1>4 DEF Control!OutReceived
  <2> QED
    BY <1>1, <1>3, <2>1, <2>2, EndServes
<1>5. CASE c.state = "DATA_OUT"
  <2>1. /\ c.request.kind = "line" /\ c.size = c.request.length
        /\ h.stage # "idle" /\ "in" \notin c.on /\ c.free /\ c.filled = 0
        /\ c.sent <= c.size /\ c.count = Control!Least(ControlSize, c.size - c.sent)
        /\ h.got = c.sent + c.count
        /\ h.stage = "data" => h.got < c.size
        /\ h.stage = "status" => h.early \/ h.got = c.size
    BY <1>1, <1>5 DEF Serving, Taking
  <2>2. c.size \in Nat /\ c.sent \in Nat /\ ControlSize \in Nat \ {0}
    BY UsbAssumption DEF Controls
  <2>3. /\ n = c.count /\ n \in Nat /\ c.sent + n <= c.size
        /\ n # ControlSize => c.sent + n = c.size
    BY <2>1, <2>2 DEF Control!Least
  <2> HIDE DEF n
  <2>4. /\ read \in Controls /\ read.state = "DATA_OUT" /\ read.request = c.request
        /\ ~read.setup /\ ~read.stall /\ ~read.out /\ read.on = c.on /\ read.free
        /\ read.filled = 0 /\ read.size = c.size /\ read.sent = c.sent + n
    <3>1. PICK t \in Nat : t = c.sent + n
      BY <2>2, <2>3
    <3>2. read = [c EXCEPT !.sent = t, !.out = FALSE, !.count = 0]
      BY <3>1
    <3> HIDE DEF read
    <3> QED
      BY <1>3, <1>5, <2>1, <3>1, <3>2 DEF Controls
  <2>5. Control!OutReceived(c) =
          IF n # ControlSize \/ c.request.length <= read.sent
            THEN Control!SendZlpIn([read EXCEPT !.size = read.sent])
          ELSE IF read.size = read.sent THEN Control!StallData(read)
          ELSE Control!WatchNakIn(read)
    BY <1>5 DEF Control!OutReceived, n
  <2>6. ~Control!IsIn(c.request)
    BY <2>1 DEF Control!IsIn
  <2> HIDE DEF read
  <2>7. CASE n # ControlSize \/ c.request.length <= read.sent
    <3> DEFINE e == [read EXCEPT !.size = read.sent]
    <3>1. c.sent + n = c.size
      BY <2>1, <2>2, <2>3, <2>4, <2>7
    <3>2. h.stage = "status"
      BY <2>1, <2>2, <2>3, <3>1 DEF Hosts
    <3>3. e \in Controls /\ ~e.setup /\ ~e.stall /\ ~e.out /\ e.request = c.request
      BY <2>4 DEF Controls
    <3> HIDE DEF e
    <3>4. Serves(Control!SendZlpIn(e), h)
      BY <1>1, <2>6, <3>2, <3>3, SendZlpInServes
    <3> QED
      BY <2>5, <2>7, <3>4 DEF e
  <2>8. CASE ~(n # ControlSize \/ c.request.length <= read.sent)
    <3> DEFINE e == Control!WatchNakIn(read)
    <3>1. read.sent \in Nat /\ read.sent < read.size
      BY <2>1, <2>2, <2>3, <2>4, <2>8
    <3>2. Control!OutReceived(c) = e
      BY <2>5, <2>8, <3>1
    <3>3. /\ e \in Controls /\ e.state = "DATA_OUT" /\ e.request = c.request
          /\ ~e.setup /\ ~e.stall /\ ~e.out /\ "in" \notin e.on /\ e.free
          /\ e.filled = 0 /\ e.size = c.size /\ e.sent = read.sent /\ ~e.nakIn
      BY <2>1, <2>4 DEF Control!WatchNakIn, Controls
    <3> HIDE DEF e
    <3>4. h.stage = "status" => h.early
      BY <2>1, <2>2, <2>3, <2>4, <3>1
    <3>5. h.got = e.sent /\ e.sent < e.size
      BY <2>1, <2>3, <2>4, <3>1, <3>3
    <3>6. Taking(e, h)
      BY <2>1, <3>3, <3>4, <3>5 DEF Taking
    <3>7. Serves(e, h)
      BY <1>1, <1>3, <3>3, <3>6 DEF Serves, Quiet, Serving
    <3> QED
      BY <3>2, <3>7
  <2> QED
    BY <2>7, <2>8
<1> QED
  BY <1>2, <1>4, <1>5

\* The flags of a NAK that the handler clears, and the events it no longer
\* watches, make no difference to the request.
LEMMA LessFlaggedServes ==
  ASSUME NEW c \in Controls, NEW e \in Controls, NEW h \in Hosts, Serves(c, h),
         "in" \in e.on <=> "in" \in c.on, e.nakIn => c.nakIn, e.nakOut => c.nakOut,
         e.state = c.state, e.request = c.request, e.size = c.size, e.sent = c.sent,
         e.needZlp = c.needZlp, e.setup = c.setup, e.packet = c.packet, e.out = c.out,
         e.count = c.count, e.free = c.free, e.from = c.from, e.filled = c.filled,
         e.stall = c.stall, e.address = c.address, e.configuration = c.configuration
  PROVE  Serves(e, h)
<1>1. Asking(h) /\ Quiet(e)
  BY DEF Serves, Quiet
<1>2. e.setup => Pending(e, h)
  BY DEF Serves, Pending
<1>3. ~e.setup => Serving(e, h)
  <2> SUFFICES ASSUME ~e.setup PROVE Serving(e, h)
    OBVIOUS
  <2>1. Serving(c, h)
    BY DEF Serves
  <2>2. e.state = "STALL_REQ" => Stalling(e)
    BY <2>1 DEF Serving, Stalling, Control!Known
  <2>3. e.state = "HANDSHAKE_WAIT_IN_ZLP" => Acknowledging(e, h)
    BY <2>1 DEF Serving, Acknowledging
  <2>4. e.state = "HANDSHAKE_WAIT_OUT_ZLP" => Awaiting(e, h)
    BY <2>1 DEF Serving, Awaiting
  <2>5. e.state = "DATA_OUT" => Taking(e, h)
    BY <2>1 DEF Serving, Taking
  <2>6. e.state = "DATA_IN" => Giving(e, h)
    BY <2>1 DEF Serving, Giving
  <2> QED
    BY <2>1, <2>2, <2>3, <2>4, <2>5, <2>6 DEF Serving
<1> QED
  BY <1>1, <1>2, <1>3 DEF Serves

\* A NAK of the host's data: nobody watches for it in vain.
LEMMA OverflowServes ==
  ASSUME NEW c \in Controls, NEW h \in Hosts, Serves(c, h), ~c.setup, c.nakOut
  PROVE  Serves(Control!Overflow([c EXCEPT !.nakOut = FALSE]), h)
<1> DEFINE d == [c EXCEPT !.nakOut = FALSE]
<1>1. /\ d \in Controls /\ d.on = c.on /\ d.nakIn = c.nakIn /\ ~d.nakOut
      /\ d.state = c.state /\ d.request = c.request /\ d.size = c.size /\ d.sent = c.sent
      /\ d.needZlp = c.needZlp /\ d.setup = c.setup /\ d.packet = c.packet /\ d.out = c.out
      /\ d.count = c.count /\ d.free = c.free /\ d.from = c.from /\ d.filled = c.filled
      /\ d.stall = c.stall /\ d.address = c.address /\ d.configuration = c.configuration
  BY DEF Controls
<1>2. c.state # "HANDSHAKE_WAIT_IN_ZLP"
  BY DEF Serves, Serving, Acknowledging
<1> HIDE DEF d
<1>3. Control!Overflow(d) = d
  BY <1>1, <1>2 DEF Control!Overflow
<1>4. Serves(d, h)
  BY <1>1, LessFlaggedServes
<1> QED
  BY <1>3, <1>4 DEF d

\* A NAK of a request for data: the host has gone on to the handshake, if the
\* device is still waiting for its data.
LEMMA UnderflowServes ==
  ASSUME NEW c \in Controls, NEW h \in Hosts, Serves(c, h), ~c.setup, ~c.out, c.nakIn
  PROVE  Serves(Control!Underflow([c EXCEPT !.nakIn = FALSE]), h)
<1> DEFINE d == [c EXCEPT !.nakIn = FALSE]
<1>1. /\ d \in Controls /\ d.on = c.on /\ ~d.nakIn /\ d.nakOut = c.nakOut
      /\ d.state = c.state /\ d.request = c.request /\ d.size = c.size /\ d.sent = c.sent
      /\ d.needZlp = c.needZlp /\ d.setup = c.setup /\ d.packet = c.packet /\ d.out = c.out
      /\ d.count = c.count /\ d.free = c.free /\ d.from = c.from /\ d.filled = c.filled
      /\ d.stall = c.stall /\ d.address = c.address /\ d.configuration = c.configuration
  BY DEF Controls
<1>2. Asking(h) /\ Serving(c, h) /\ c.request = h.request
  BY DEF Serves, Serving
<1>3. c.state # "HANDSHAKE_WAIT_OUT_ZLP"
  BY <1>2 DEF Serving, Awaiting
<1> HIDE DEF d
<1>4. Serves(d, h)
  BY <1>1, LessFlaggedServes
<1>5. CASE c.state = "DATA_OUT"
  <2>1. Control!Underflow(d) = Control!SendZlpIn(d)
    BY <1>1, <1>5 DEF Control!Underflow
  <2>2. h.stage = "status" /\ ~Control!IsIn(d.request) /\ ~d.stall
    BY <1>1, <1>2, <1>5 DEF Serving, Taking, Control!IsIn, Hosts
  <2>3. Serves(Control!SendZlpIn(d), h)
    BY <1>1, <1>2, <2>2, SendZlpInServes
  <2> QED
    BY <2>1, <2>3 DEF d
<1>6. CASE c.state # "DATA_OUT"
  <2>1. Control!Underflow(d) = d
    BY <1>1, <1>3, <1>6 DEF Control!Underflow
  <2> QED
    BY <1>4, <2>1 DEF d
<1> QED
  BY <1>5, <1>6

\* udd_ctrl_interrupt serves the first event it finds.
LEMMA InterruptServes ==
  ASSUME NEW before \in Controls, NEW h \in Hosts, Serves(before, h), Control!Raised(before)
  PROVE  Serves(Control!CtrlInterrupt(before), h)
<1> DEFINE c == [before EXCEPT !.on = @ \ {"nakIn", "nakOut"}]
<1>1. /\ c \in Controls /\ ("in" \in c.on <=> "in" \in before.on)
      /\ c.nakIn = before.nakIn /\ c.nakOut = before.nakOut
      /\ c.state = before.state /\ c.request = before.request /\ c.size = before.size
      /\ c.sent = before.sent /\ c.needZlp = before.needZlp /\ c.setup = before.setup
      /\ c.packet = before.packet /\ c.out = before.out /\ c.count = before.count
      /\ c.free = before.free /\ c.from = before.from /\ c.filled = before.filled
      /\ c.stall = before.stall /\ c.address = before.address
      /\ c.configuration = before.configuration
  BY DEF Controls
<1>2. Control!CtrlInterrupt(before) =
        IF c.setup THEN Control!SetupReceived(c)
        ELSE IF c.free /\ "in" \in c.on THEN Control!InSent(c)
        ELSE IF c.out THEN Control!OutReceived(c)
        ELSE IF c.nakOut THEN Control!Overflow([c EXCEPT !.nakOut = FALSE])
        ELSE Control!Underflow([c EXCEPT !.nakIn = FALSE])
  BY DEF Control!CtrlInterrupt
<1> HIDE DEF c
<1>3. Serves(c, h)
  BY <1>1, LessFlaggedServes
<1>4. c.setup \/ (c.free /\ "in" \in c.on) \/ c.out \/ c.nakOut \/ c.nakIn
  BY <1>1 DEF Control!Raised
<1>5. CASE c.setup
  BY <1>1, <1>2, <1>3, <1>5, SetupReceivedServes
<1>6. CASE ~c.setup /\ c.free /\ "in" \in c.on
  BY <1>1, <1>2, <1>3, <1>6, InSentServes
<1>7. CASE ~c.setup /\ ~(c.free /\ "in" \in c.on) /\ c.out
  BY <1>1, <1>2, <1>3, <1>7, OutReceivedServes
<1>8. CASE ~c.setup /\ ~(c.free /\ "in" \in c.on) /\ ~c.out /\ c.nakOut
  BY <1>1, <1>2, <1>3, <1>8, OverflowServes
<1>9. CASE ~c.setup /\ ~(c.free /\ "in" \in c.on) /\ ~c.out /\ ~c.nakOut
  BY <1>1, <1>2, <1>3, <1>4, <1>9, UnderflowServes
<1> QED
  BY <1>5, <1>6, <1>7, <1>8, <1>9

-----------------------------------------------------------------------------
(* Every step *)

LEMMA ControlStep == ControlInv /\ [Next]_vars => ControlInv'
<1> SUFFICES ASSUME ControlInv, [Next]_vars PROVE ControlInv'
  OBVIOUS
<1> USE DEF ControlInv
<1>1. control \in Controls /\ host \in Hosts
  BY DEF Serves
<1>2. CASE Control!Next
  <2>1. CASE Control!Interrupt
    BY <1>1, <2>1, InterruptServes DEF Control!Interrupt
  <2>2. CASE Control!Host
    BY <2>2, HostServes
  <2> QED
    BY <1>2, <2>1, <2>2 DEF Control!Next
<1>3. CASE UNCHANGED endpoint
  BY <1>3 DEF endpoint, Control!vars
<1> QED
  BY <1>2, <1>3 DEF Next, vars, endpoint, Control!vars

\* What the host sees is what the invariant says of its request.
LEMMA ServesSuffices == ControlInv => HostIsServed
<1> SUFFICES ASSUME ControlInv PROVE HostIsServed
  OBVIOUS
<1>1. control \in Controls /\ host \in Hosts /\ Asking(host)
  BY DEF ControlInv, Serves
<1>2. ~control.setup => Serving(control, host)
  BY DEF ControlInv, Serves
<1>3. host.stage = "data" /\ ~control.setup /\ control.filled # 0 => control.from = host.got
  BY <1>1, <1>2 DEF Serving, Stalling, Acknowledging, Awaiting, Taking, Giving, Controls
<1>4. host.result = "done" /\ ~host.early /\ Control!IsIn(host.request)
        => host.got = Control!Least(host.request.length, host.request.value)
  BY <1>1 DEF Asking, AllData
<1>5. host.result = "stalled" /\ ~host.early => ~Control!Known(control, host.request)
  BY DEF ControlInv, Serves, Pending, Asking, Serving, Stalling
<1> QED
  BY <1>3, <1>4, <1>5 DEF HostIsServed, Control!HostIsServed

-----------------------------------------------------------------------------
(* The theorems *)

LEMMA LineStep == Typed /\ SendInv /\ ReceiveInv /\ [Next]_vars => (Typed /\ SendInv /\ ReceiveInv)'
<1> SUFFICES ASSUME Typed, SendInv, ReceiveInv, [Next]_vars
             PROVE  Typed' /\ SendInv' /\ ReceiveInv'
  OBVIOUS
<1>1. CASE UNCHANGED line
  <2>1. Typed' /\ SendInv'
    BY <1>1 DEF line, Typed, SendInv, Writing
  <2>2. ReceiveInv'
    BY <1>1, SameReceiving DEF line, SameReceiver
  <2> QED
    BY <2>1, <2>2
<1>2. CASE Line!Interrupt
  BY <1>2, InterruptIsTyped, InterruptSends, InterruptReceives
<1>3. CASE Line!GetByte
  <2>1. UNCHANGED misled
    BY <1>3 DEF Line!GetByte, Line!Compare, Line!Read, Line!Do, Line!Load, Line!LoadOperand,
                Line!Test, Line!Change
  <2>2. ReceiveInv'
    BY <1>3, <2>1, GetByteReceives DEF ReceiveInv
  <2> QED
    BY <1>3, <2>2, GetByteIsTyped, OthersSend
<1>4. CASE Line!PutByte
  BY <1>4, PutByteIsTyped, PutByteSends, OthersReceive
<1>5. CASE Line!Signal
  BY <1>5, SignalIsTyped, OthersSend, OthersReceive
<1> QED
  BY <1>1, <1>2, <1>3, <1>4, <1>5 DEF Next, vars, line, Line!Next

LEMMA LineInvariant == Spec => [](Typed /\ SendInv /\ ReceiveInv)
<1>1. Init => Typed /\ SendInv /\ ReceiveInv
  BY InitIsTyped, InitSends, InitReceives DEF Init
<1> QED
  BY <1>1, LineStep, PTL DEF Spec

\* Whatever the interrupt does in the middle of udi_cdc_putc, what the host
\* gets next is what the application has put first.
THEOREM BytesLeaveInOrder == Spec => []SentInOrder
  BY LineInvariant, SendInvSuffices, PTL

\* Whatever the interrupt does in the middle of udi_cdc_getc, what it gives
\* since the line was enabled is what the second buffer still counted then, and
\* after it every byte that has been received, once and in order; unless the
\* line is enabled under a call that has gone past its comparison, or an empty
\* packet ends a transfer within a comparison that loads the position last.
THEOREM BytesArriveInOrder == Spec => []ReceivedInOrder
  BY LineInvariant, ReceiveInvSuffices, PTL

LEMMA ControlInvariant == Spec => []ControlInv
<1>1. Init => ControlInv
  BY InitServes DEF Init
<1> QED
  BY <1>1, ControlStep, PTL DEF Spec

\* Wherever a request is broken off and whatever comes next, the host gets the
\* data it asked for, whole and in order, and no request that the device knows
\* is stalled unless the host has ended its data early.
THEOREM RequestsAreServed == Spec => []HostIsServed
  BY ControlInvariant, ServesSuffices, PTL

=============================================================================
