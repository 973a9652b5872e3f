------------------------------- MODULE UsbCdc -------------------------------
(***************************************************************************)
(* The serial line over USB (udi_cdc.c) on the endpoint jobs of the        *)
(* driver, as the programs of Ex3 and Ex4 use it for stdio.  The handler   *)
(* of the USB interrupt runs between any two steps of a call of the        *)
(* application, and is one step itself.                                    *)
(*                                                                         *)
(* Bytes are numbered modulo Values, so that the line never has to end.    *)
(***************************************************************************)
EXTENDS UsbJobs, SequencesExt

VARIABLES
  application,  \* one of Application
  device,       \* the variables of udi_cdc.c and of the driver
  frame,        \* the frame number of the bus
  at,           \* the next step of the call the application is in
  register, operand,  \* what the steps before have loaded
  stale,        \* history: bytes that the buffer which is not emptied still
                \* counted when the line was enabled, and that are not yet given
  unread,       \* history: bytes received since then and not yet given
  unsent,       \* history: bytes written and not yet sent
  misled        \* history: a call to get compares or gives what has gone

vars == <<application, device, frame, at, register, operand, stale, unread, unsent, misled>>

Other(sel) == 1 - sel
Successor(s) == IF s = <<>> THEN 0 ELSE (Last(s) + 1) % Values

NewDevice ==
  [enabled |-> {}, job |-> NewJobs, halt |-> [ep \in Endpoint |-> "no"],
   running |-> FALSE,                   \* udi_cdc_running
   rx |-> [buf |-> [i \in 0 .. 1 |-> <<>>], sel |-> 0, pos |-> 0, ongoing |-> FALSE],
   tx |-> [buf |-> [i \in 0 .. 1 |-> <<>>], sel |-> 0, both |-> FALSE, ongoing |-> FALSE, sof |-> 0],
   state |-> {}, message |-> {}, messageOngoing |-> FALSE]

Init ==
  /\ application \in Application
  /\ device = NewDevice
  /\ frame = 0 /\ at = "idle" /\ register = 0 /\ operand = 0
  /\ stale = <<>> /\ unread = <<>> /\ unsent = <<>> /\ misled = FALSE

-----------------------------------------------------------------------------
(* Receiving: while one buffer is read, the other is being filled *)

RxReady(d) == d.rx.pos < Len(d.rx.buf[d.rx.sel])       \* udi_cdc_is_rx_ready

\* Faulty variant: does not wait for the buffer to be read.
RxMayStart_early(d) == ~d.rx.ongoing

RxMayStart(d) == ~d.rx.ongoing /\ ~RxReady(d)

\* The critical section of udi_cdc_rx_start, and the job after it.
RxSwitch(d) == [d EXCEPT !.rx.pos = 0, !.rx.sel = Other(@), !.rx.ongoing = TRUE]
RxRun(d, buf) == EpRun(d, "OUT", ReceiveJob(buf))

RxStart(d) == IF RxMayStart(d) THEN RxRun(RxSwitch(d), d.rx.sel) ELSE d

\* udi_cdc_data_recevied, with UDD_EP_TRANSFER_OK
DataReceived(d, data) ==
  RxStart([d EXCEPT !.rx.buf[Other(d.rx.sel)] = data, !.rx.ongoing = FALSE])

-----------------------------------------------------------------------------
(* Sending: while one buffer is written, the other is being sent *)

TxFull(d, sel) == Len(d.tx.buf[sel]) = Buffers

\* Faulty variant: sends the buffer written last.
TxBuffer_selected(tx) == tx.sel

\* The buffer to send: the older one, when both have something to send.
TxBuffer(tx) == IF tx.both THEN Other(tx.sel) ELSE tx.sel

\* udi_cdc_tx_send
TxSend(d, now) ==
  LET buf == TxBuffer(d.tx)
      size == Len(d.tx.buf[buf])
      short == size # Buffers
      d1 == [d EXCEPT !.tx.sel = Other(buf), !.tx.ongoing = TRUE,
                      !.tx.sof = IF short THEN now ELSE 0]
  IN  IF d.tx.ongoing \/ d.tx.sof = now THEN d
      ELSE EpRun(d1, "IN", SendJob(buf, size, short))

\* udi_cdc_data_sent, with UDD_EP_TRANSFER_OK
DataSent(d, now) ==
  TxSend([d EXCEPT !.tx.buf[Other(d.tx.sel)] = <<>>,
                   !.tx.both = FALSE, !.tx.ongoing = FALSE], now)

-----------------------------------------------------------------------------
(* The state of the line: DCD, and OVERRUN for the irregular signals *)

\* udi_cdc_ctrl_state_notify, when the interrupt handler calls it
Notify(d) ==
  IF d.messageOngoing \/ d.state = d.message THEN d
  ELSE EpRun([d EXCEPT !.message = d.state, !.messageOngoing = Runs(d, "COMM")],
             "COMM", SendJob(0, 1, FALSE))

\* udi_cdc_serial_state_msg_sent, whether the transfer was aborted or not
MessageSent(d) ==
  Notify([d EXCEPT !.messageOngoing = FALSE, !.state = @ \ {"OVERRUN"},
                   !.message = @ \ {"OVERRUN"}])

-----------------------------------------------------------------------------
(* udc.c enables and disables the two interfaces *)

\* A job that ends by being aborted still calls back; that of the data
\* endpoints does nothing.
Free(d, eps) ==
  LET freed == EpFree(d, eps)
  IN  IF "COMM" \in eps /\ d.job["COMM"].busy THEN MessageSent(freed) ELSE freed

CommDisable(d) == [Free(d, {"COMM"}) EXCEPT !.running = FALSE]
CommEnable(d) == [EpAlloc(d, {"COMM"}) EXCEPT !.state = {}, !.message = {}]

DataDisable(d) == Free(d, {"IN", "OUT"})
DataEnable(d, now) ==
  LET tx == TxSend([EpAlloc(d, {"IN", "OUT"}) EXCEPT
                      !.tx = [buf |-> [i \in 0 .. 1 |-> <<>>], sel |-> 0,
                              both |-> FALSE, ongoing |-> FALSE, sof |-> 0]], now)
      rx == [tx EXCEPT !.rx.ongoing = FALSE, !.rx.sel = 0, !.rx.buf[0] = <<>>, !.rx.pos = 0]
  IN  [RxStart(rx) EXCEPT !.running = RxMayStart(rx) /\ Runs(rx, "OUT")]

Configured == device.enabled # {}

\* Bound: the host uses only the endpoint that the application uses; the three
\* share no more than their configuration.
Used(ep) == ep = CASE application = "get" -> "OUT"
                   [] application = "put" -> "IN"
                   [] application = "signal" -> "COMM"

-----------------------------------------------------------------------------
(* The USB interrupt, while the application is anywhere *)

Handle(d) == device' = d /\ UNCHANGED <<application, at, register, operand>>
Histories == <<stale, unread, unsent, misled>>

\* What udi_cdc_getc has to give.
Due == stale \o unread
Owes(left, new, wrong) ==    \* nothing is counted for a call that was misled
  /\ misled' = wrong
  /\ stale' = (IF wrong THEN <<>> ELSE left) /\ unread' = (IF wrong THEN <<>> ELSE new)

\* The DMA has filled a buffer, or a short packet ended it: udd_ep_interrupt.
OutDone(n) ==
  LET data == [i \in 1 .. n |-> (Successor(Due) + i - 1) % Values]
  IN  /\ Used("OUT") /\ device.job["OUT"].busy
      /\ Handle(DataReceived([device EXCEPT !.job["OUT"] = NoJob], data))
      /\ Owes(stale, unread \o data,
              misled \/ (n = 0 /\ at \in {"selected", "counted"} /\ ~RxReady(device)))
      /\ UNCHANGED <<frame, unsent>>

\* The DMA has sent a buffer; a packet of length zero may have to follow.
InDone ==
  LET job == device.job["IN"]
  IN  /\ job.busy /\ ~job.sent
      /\ Handle(IF job.sendZlp THEN [device EXCEPT !.job["IN"].sent = TRUE]
                ELSE DataSent([device EXCEPT !.job["IN"] = NoJob], frame))
      /\ unsent' = SubSeq(unsent, job.size + 1, Len(unsent))
      /\ UNCHANGED <<frame, stale, unread, misled>>

InZlp ==
  /\ device.job["IN"].sent
  /\ Handle(DataSent([device EXCEPT !.job["IN"] = NoJob], frame))
  /\ UNCHANGED <<frame, Histories>>

MessageDone ==
  /\ device.job["COMM"].busy
  /\ Handle(MessageSent([device EXCEPT !.job["COMM"] = NoJob]))
  /\ UNCHANGED <<frame, Histories>>

\* udc_sof_notify, udi_cdc_data_sof_notify
Sof ==
  /\ Configured /\ Used("IN")
  /\ frame' = (frame + 1) % Frames
  /\ Handle(TxSend(device, frame'))
  /\ UNCHANGED Histories

\* A reset of the bus, or SET_CONFIGURATION 0: udc_reset.
Reset ==
  /\ Configured
  /\ Handle(DataDisable(CommDisable(device)))
  /\ UNCHANGED <<frame, Histories>>

Enabled(d) ==
  /\ Handle(d)
  /\ Owes(d.rx.buf[1], <<>>, at \in {"counted", "read", "readSelect", "readPosition", "byte",
                                     "increment", "store", "run"})
  /\ unsent' = <<>> /\ UNCHANGED frame

\* udc_req_std_dev_set_configuration
SetConfiguration ==
  Enabled(DataEnable(CommEnable(DataDisable(CommDisable(device))), frame))

\* udc_req_std_iface_set_setting
SetDataInterface == Configured /\ Enabled(DataEnable(DataDisable(device), frame))
SetCommInterface ==
  /\ Configured /\ Handle(CommEnable(CommDisable(device)))
  /\ UNCHANGED <<frame, Histories>>

\* The host halts an endpoint and clears the halt.
Halt(ep) ==
  /\ Configured /\ Used(ep)
  /\ \/ \E banksBusy \in BOOLEAN : Handle(EpSetHalt(device, ep, banksBusy))
     \/ ep # "OUT" /\ device.halt[ep] = "requested" /\ Handle(EpStall(device, ep))
     \/ Handle(EpClearHalt(device, ep))
  /\ UNCHANGED <<frame, Histories>>

Interrupt ==
  \/ \E n \in 0 .. Buffers : OutDone(n)
  \/ InDone \/ InZlp \/ MessageDone \/ Sof
  \/ Reset \/ SetConfiguration \/ SetDataInterface \/ SetCommInterface
  \/ \E ep \in Endpoint : Halt(ep)

-----------------------------------------------------------------------------
(* The calls of the application *)

Do(from, to, d) ==
  /\ at = from /\ at' = to /\ device' = d
  /\ UNCHANGED <<application, frame, misled>>
Bytes == <<stale, unread, unsent>>
Load(from, to, value) == Do(from, to, device) /\ register' = value /\ UNCHANGED <<operand, Bytes>>
LoadOperand(from, to, value) ==
  Do(from, to, device) /\ operand' = value /\ UNCHANGED <<register, Bytes>>
Forget == register' = 0 /\ operand' = 0    \* nothing loaded is used again
Change(from, to, d) == Do(from, to, d) /\ Forget /\ UNCHANGED Bytes
Test(from, then, else, condition) == Change(from, IF condition THEN then ELSE else, device)

\* "position < count[selection]", the operands loaded in either order
Compare ==
  LET rx == device.rx
  IN  \/ Load("compare", "positioned", rx.pos)
      \/ LoadOperand("positioned", "count", rx.sel)
      \/ LoadOperand("compare", "selected", rx.sel)
      \/ Load("selected", "count", rx.pos)
      \/ LoadOperand("selected", "counted", Len(rx.buf[operand]))
      \/ Test("count", "read", "empty", register < Len(rx.buf[operand]))
      \/ Test("counted", "read", "empty", rx.pos < operand)

\* "buffer[selection][position]", the subscripts loaded in either order
Read ==
  LET rx == device.rx
  IN  \/ Load("read", "readSelect", rx.pos)
      \/ LoadOperand("readSelect", "byte", rx.sel)
      \/ LoadOperand("read", "readPosition", rx.sel)
      \/ Load("readPosition", "byte", rx.pos)
      \/ /\ Do("byte", "increment", device)
         /\ \/ stale # <<>> /\ stale' = Tail(stale) /\ UNCHANGED unread
            \/ stale = <<>> /\ unread # <<>> /\ unread' = Tail(unread) /\ UNCHANGED stale
            \/ Due = <<>> /\ UNCHANGED <<stale, unread>>
         /\ Forget /\ UNCHANGED unsent

\* stdio_usb_getchar, udi_cdc_getc: wait for a byte, take it, and start the
\* reception again when the buffer is empty.
GetByte ==
  LET rx == device.rx
  IN  \/ Configured /\ application = "get" /\ Change("idle", "compare", device)
      \/ Compare
      \/ Test("empty", "compare", "idle", device.running)
      \/ Read
      \/ Load("increment", "store", rx.pos)
      \/ Change("store", "start", [device EXCEPT !.rx.pos = register + 1])
      \/ /\ Do("start", IF RxMayStart(device) THEN "run" ELSE "idle",
               IF RxMayStart(device) THEN RxSwitch(device) ELSE device)
         /\ register' = rx.sel /\ operand' = 0 /\ UNCHANGED Bytes
      \/ Change("run", "idle", RxRun(device, register))

\* stdio_usb_putchar, udi_cdc_putc and udi_cdc_is_tx_ready: wait for space,
\* in the other buffer when this one is full and none is being sent.
PutByte ==
  LET tx == device.tx
      switch == ~tx.ongoing
  IN  \/ Configured /\ application = "put" /\ Load("idle", "ready", tx.sel)
      \/ Test("ready", "both", "write", TxFull(device, register))
      \/ Test("both", "select", "switch", tx.both)
      \/ Change("switch", "select",
                IF switch THEN [device EXCEPT !.tx.both = TRUE, !.tx.sel = Other(@)] ELSE device)
      \/ Load("select", "again", tx.sel)
      \/ Test("again", "full", "write", TxFull(device, register))
      \/ Test("full", "retry", "idle", device.running)
      \/ Load("retry", "ready", tx.sel)
      \/ LET byte == Successor(unsent)
         IN  /\ Do("write", "idle", [device EXCEPT !.tx.buf[tx.sel] = Append(@, byte)])
             /\ unsent' = Append(unsent, byte)
             /\ Forget /\ UNCHANGED <<stale, unread>>

\* udi_cdc_ctrl_signal_dcd, udi_cdc_signal_overrun: change the state, and
\* notify the host unless a notification is under way.
Signal ==
  \/ /\ application = "signal" /\ Configured
     /\ \E state \in {device.state \cup {"DCD"}, device.state \ {"DCD"}, device.state \cup {"OVERRUN"}} :
          Change("idle", "notify", [device EXCEPT !.state = state])
  \/ Test("notify", "idle", "fill", device.messageOngoing \/ device.state = device.message)
  \/ Change("fill", "submit", [device EXCEPT !.message = device.state])
  \/ /\ Do("submit", "assign", EpRun(device, "COMM", SendJob(0, 1, FALSE)))
     /\ register' = (IF Runs(device, "COMM") THEN 1 ELSE 0)
     /\ UNCHANGED <<operand, Bytes>>
  \/ Change("assign", "idle", [device EXCEPT !.messageOngoing = register = 1])

Next == Interrupt \/ GetByte \/ PutByte \/ Signal

Spec == Init /\ [][Next]_vars

-----------------------------------------------------------------------------
(* Properties *)

\* Since the line was enabled, udi_cdc_getc gives first what the second buffer
\* still counted then, given before or not (see ReadyMeansReceived), and after
\* it every byte received, once and in order; it finds none left only when
\* there is none.  The two buffers and the unlocked loads of position,
\* selection and count lose nothing to the interrupt.
\* Not promised when the line is enabled under a call that has gone past its
\* comparison; nor, in a build that loads the position last, when an empty
\* packet ends a transfer between the loads of one comparison.
ReceivedInOrder ==
  ~misled =>
    /\ at = "byte" => /\ Due # <<>> /\ register < Len(device.rx.buf[operand])
                      /\ device.rx.buf[operand][register + 1] = Head(Due)
    /\ at = "idle" /\ Due # <<>> => RxReady(device)

\* What is sent next is what udi_cdc_putc has put first: switching the buffers
\* in the middle of a call neither reorders nor drops bytes nor runs over.
SentInOrder ==
  LET tx == device.tx
      job == device.job["IN"]
  IN  /\ \A i \in 0 .. 1 : Len(tx.buf[i]) <= Buffers
      /\ job.busy /\ ~job.sent => IsPrefix(SubSeq(tx.buf[job.buf], 1, job.size), unsent)
      /\ tx.buf[0] = <<>> /\ tx.buf[1] = <<>> => unsent = <<>>

\* udi_cdc.h: udi_cdc_is_rx_ready "checks if a character has been received on
\* the CDC line".  None has been when the line has just been enabled; but the
\* count of the second buffer survives from before.
ReadyMeansReceived == [][SetConfiguration => ~RxReady(device')]_vars

\* udi_cdc.h: udi_cdc_ctrl_signal_dcd "Notify a state change of DCD signal".
\* When the call has returned and no notification is under way, the host has
\* been told of the present state.
StateNotified ==
  at = "idle" /\ Configured /\ ~device.job["COMM"].busy => device.state = device.message
=============================================================================
