----------------------------- MODULE UsbControl -----------------------------
(***************************************************************************)
(* The control endpoint of the USB device: the driver's state machine      *)
(* (usbb_device.c), the requests that udc.c and udi_cdc.c decode, and a    *)
(* host that makes requests, breaks them off and starts others.  The host  *)
(* moves between any two runs of the interrupt handler, and sees NAK as    *)
(* long as the handler has not answered.                                   *)
(***************************************************************************)
EXTENDS UsbConfiguration

VARIABLES
  control,      \* udd_g_ctrlreq, the state of the endpoint, and the flags of the USBB
  host,         \* what the host is doing
  handled       \* history: flips whenever the interrupt handler runs

vars == <<control, host, handled>>

Least(a, b) == IF a < b THEN a ELSE b

\* A request has a kind, wLength and one more value.
Request ==
  [kind : {"descriptor"}, length : Asked, value : Total]
    \cup [kind : {"address", "configuration"}, length : {0}, value : 0 .. 1]
    \cup [kind : {"line"}, length : {LineLength}, value : {0}]
    \cup [kind : {"unknown"}, length : {0, 1}, value : {0}]

IsIn(request) == request.kind = "descriptor"

NoRequest == [kind |-> "none", length |-> 0, value |-> 0]

\* After udd_reset_ep_ctrl and udd_ctrl_init.
NewControl ==
  [state |-> "SETUP", request |-> NoRequest, callback |-> "none",
   size |-> 0, sent |-> 0, needZlp |-> FALSE,   \* payload_size, payload_nb_trans
   setup |-> FALSE, packet |-> NoRequest,       \* RXSTPI and what came with it
   out |-> FALSE, count |-> 0,                  \* RXOUTI and the bytes received
   free |-> TRUE, from |-> 0, filled |-> 0,     \* TXINI and the bytes to send
   nakIn |-> FALSE, nakOut |-> FALSE, on |-> {}, stall |-> FALSE,
   address |-> 0, configuration |-> 0]          \* of the device

NewHost ==
  [stage |-> "idle", request |-> NoRequest, got |-> 0, early |-> FALSE,
   result |-> "none", address |-> 0, broken |-> 0]

Init == control = NewControl /\ host = NewHost /\ handled = FALSE

-----------------------------------------------------------------------------
(* The driver.  No request has an over_under_run callback. *)

EndOfRequest(c) ==                              \* udc_valid_address
  IF c.callback = "address" THEN [c EXCEPT !.address = c.request.value] ELSE c

CtrlInit(c) ==
  [c EXCEPT !.on = @ \ {"in"}, !.out = FALSE, !.count = 0,
            !.callback = "none", !.size = 0, !.state = "SETUP"]

StallData(c) == [c EXCEPT !.state = "STALL_REQ", !.stall = TRUE]

Send(c, from, n) ==
  [c EXCEPT !.free = FALSE, !.from = from, !.filled = n, !.on = @ \cup {"in"}]

\* Faulty variant: the empty packet is not handed over.
SendZlpIn_unsent(c) ==
  [c EXCEPT !.state = "HANDSHAKE_WAIT_IN_ZLP", !.nakOut = FALSE, !.on = @ \cup {"nakOut"}]

SendZlpIn(c) ==
  [Send(c, 0, 0) EXCEPT !.state = "HANDSHAKE_WAIT_IN_ZLP",
                        !.nakOut = FALSE, !.on = @ \cup {"nakOut"}]

WatchNakIn(c) == [c EXCEPT !.nakIn = FALSE, !.on = @ \cup {"nakIn"}]

SendZlpOut(c) == [WatchNakIn(c) EXCEPT !.state = "HANDSHAKE_WAIT_OUT_ZLP"]

\* The next packet of the data, the one of length zero after the last full
\* one, or the end; no packet once the host has gone on to the handshake.
InSent(before) ==
  LET c == [before EXCEPT !.on = @ \ {"in"}]
      remain == c.size - c.sent
      n == Least(remain, ControlSize)
      last == [c EXCEPT !.needZlp = @ /\ remain # 0]
  IN  CASE c.state = "HANDSHAKE_WAIT_IN_ZLP" -> CtrlInit(EndOfRequest(c))
        [] c.state # "HANDSHAKE_WAIT_IN_ZLP" /\ remain = 0 /\ ~c.needZlp -> SendZlpOut(c)
        [] OTHER -> IF c.out THEN [last EXCEPT !.state = "HANDSHAKE_WAIT_OUT_ZLP"]
                    ELSE [Send(last, c.sent, n) EXCEPT !.sent = @ + n]

OutReceived(c) ==
  LET n == Least(c.count, c.size - c.sent)
      read == [c EXCEPT !.sent = @ + n, !.out = FALSE, !.count = 0]
  IN  CASE c.state \in {"DATA_IN", "HANDSHAKE_WAIT_OUT_ZLP"} -> CtrlInit(EndOfRequest(c))
        [] c.state \notin {"DATA_IN", "HANDSHAKE_WAIT_OUT_ZLP", "DATA_OUT"} -> CtrlInit(StallData(c))
        [] OTHER -> IF n # ControlSize \/ c.request.length <= read.sent
                      THEN SendZlpIn([read EXCEPT !.size = read.sent])
                    ELSE IF read.size = read.sent THEN StallData(read)
                    ELSE WatchNakIn(read)

\* Faulty variant: a full packet ends the data.
NeedsZlp_never(size) == FALSE

\* A full packet does not tell the host that it is the last.
NeedsZlp(size) == size % ControlSize = 0

\* Whether udc_process_setup knows the request, and what it does.
Known(c, r) ==
  CASE r.kind = "unknown" -> FALSE
    [] r.kind = "configuration" -> c.address # 0
    [] r.kind \in {"descriptor", "address"} -> TRUE
    [] r.kind = "line" -> c.configuration # 0

ProcessSetup(c, r) ==
  [c EXCEPT !.request = r,
     !.callback = IF r.kind \in {"address", "line"} THEN r.kind ELSE "none",
     !.size = CASE r.kind = "descriptor" -> Least(r.length, r.value)
                [] r.kind = "line" -> LineLength
                [] OTHER -> 0,
     !.configuration = IF r.kind = "configuration" /\ Known(c, r) THEN r.value ELSE @]

SetupReceived(before) ==
  LET c == IF before.state # "SETUP" THEN CtrlInit(EndOfRequest(before)) ELSE before
      r == c.packet
      acked == [ProcessSetup(c, r) EXCEPT !.setup = FALSE, !.packet = NoRequest]
  IN  CASE ~Known(c, r) -> StallData(acked)
        [] Known(c, r) /\ IsIn(r) ->
             InSent([acked EXCEPT !.needZlp = NeedsZlp(acked.size),
                                  !.sent = 0, !.state = "DATA_IN"])
        [] OTHER -> IF r.length = 0 THEN SendZlpIn(acked)
                    ELSE WatchNakIn([acked EXCEPT !.sent = 0, !.state = "DATA_OUT"])

Underflow(c) ==
  CASE ~c.out /\ c.state = "DATA_OUT" -> SendZlpIn(c)
    [] ~c.out /\ c.state = "HANDSHAKE_WAIT_OUT_ZLP" -> [c EXCEPT !.stall = TRUE]
    [] OTHER -> c

Overflow(c) ==
  IF ~c.free /\ c.state = "HANDSHAKE_WAIT_IN_ZLP" THEN [c EXCEPT !.stall = TRUE] ELSE c

Raised(c) ==
  \/ c.setup \/ c.out
  \/ c.free /\ "in" \in c.on
  \/ c.nakIn /\ "nakIn" \in c.on
  \/ c.nakOut /\ "nakOut" \in c.on

\* udd_ctrl_interrupt serves the first event it finds.
CtrlInterrupt(before) ==
  LET c == [before EXCEPT !.on = @ \ {"nakIn", "nakOut"}]
  IN  IF c.setup THEN SetupReceived(c)
      ELSE IF c.free /\ "in" \in c.on THEN InSent(c)
      ELSE IF c.out THEN OutReceived(c)
      ELSE IF c.nakOut THEN Overflow([c EXCEPT !.nakOut = FALSE])
      ELSE Underflow([c EXCEPT !.nakIn = FALSE])

Interrupt ==
  /\ Raised(control) /\ control' = CtrlInterrupt(control)
  /\ handled' = ~handled /\ UNCHANGED host

-----------------------------------------------------------------------------
(* The host *)

Heard == host.address = control.address

\* A new request, perhaps instead of the one under way.  The USBB takes any
\* SETUP packet, ends a stall and drops what was to be sent.
Setup(r) ==
  /\ Heard
  /\ host.stage = "idle" \/ host.broken < MaxBroken
  /\ control' = [control EXCEPT !.setup = TRUE, !.packet = r, !.stall = FALSE,
                              !.free = TRUE, !.from = 0, !.filled = 0]
  /\ host' = [host EXCEPT
                !.stage = IF r.length = 0 THEN "status" ELSE "data",
                !.request = r, !.got = 0, !.early = FALSE, !.result = "none",
                !.broken = IF host.stage = "idle" THEN @ ELSE @ + 1]

Ends(h, result) ==
  [h EXCEPT !.stage = "idle", !.result = result,
            !.address = IF result = "done" /\ h.request.kind = "address"
                          THEN h.request.value ELSE @]

\* What the host makes of n bytes, in the stage it is in.
Moved(h, n) ==
  LET got == h.got + n
  IN  IF h.stage = "status" THEN Ends(h, "done")
      ELSE [h EXCEPT !.got = got,
                     !.stage = IF n < ControlSize \/ got >= h.request.length
                                 THEN "status" ELSE "data"]

InToken ==
  /\ Heard
  /\ IF control.stall THEN host' = Ends(host, "stalled") /\ UNCHANGED control
     ELSE IF control.setup \/ control.free
       THEN control' = [control EXCEPT !.nakIn = TRUE] /\ UNCHANGED host
     ELSE /\ control' = [control EXCEPT !.free = TRUE, !.from = 0, !.filled = 0]
          /\ host' = Moved(host, control.filled)

OutToken(n) ==
  /\ Heard
  /\ IF control.stall THEN host' = Ends(host, "stalled") /\ UNCHANGED control
     ELSE IF control.setup \/ control.out
       THEN control' = [control EXCEPT !.nakOut = TRUE] /\ UNCHANGED host
     ELSE control' = [control EXCEPT !.out = TRUE, !.count = n] /\ host' = Moved(host, n)

Token ==
  \/ /\ IF IsIn(host.request) THEN host.stage = "data" ELSE host.stage = "status"
     /\ InToken
  \/ /\ IsIn(host.request) /\ host.stage = "status"
     /\ OutToken(0)
  \/ /\ ~IsIn(host.request) /\ host.stage = "data"
     /\ OutToken(Least(ControlSize, host.request.length - host.got))

\* The host is satisfied with less data and goes on to the handshake.
GoOn ==
  /\ host.stage = "data" /\ (IsIn(host.request) \/ StopsOut) /\ host.broken < MaxBroken
  /\ host' = [host EXCEPT !.stage = "status", !.early = TRUE, !.broken = @ + 1]
  /\ UNCHANGED control

\* The host resets the bus when the device does not answer, or in the middle
\* of a request.
Reset(broken) == control' = NewControl /\ host' = [NewHost EXCEPT !.broken = broken]
NoAnswer == ~Heard /\ ~Raised(control) /\ Reset(host.broken)
GiveUp == host.stage # "idle" /\ host.broken < MaxBroken /\ Reset(host.broken + 1)

Host ==
  \/ \E r \in Request : Setup(r)
  \/ Token \/ GoOn \/ GiveUp \/ NoAnswer

Next ==
  \/ Interrupt
  \/ Host /\ UNCHANGED handled

\* The processor serves the interrupt, which is the step that flips handled;
\* the host goes on with a request and gives up on a device without an answer.
Fairness ==
  /\ WF_handled(Raised(control) /\ handled' = ~handled)
  /\ WF_<<control, host>>(Token) /\ WF_<<control, host>>(NoAnswer)

Spec == Init /\ [][Next]_vars /\ Fairness

-----------------------------------------------------------------------------
(* Properties *)

\* The data of a request come whole and in order, and a packet of length zero
\* ends them exactly when the host waits for one, whatever request the host has
\* broken off before, and wherever.  A request that the device knows is not
\* stalled, unless the host has ended its data early.
HostIsServed ==
  LET r == host.request
  IN  /\ host.stage = "data" /\ ~control.setup /\ control.filled # 0 => control.from = host.got
      /\ host.result = "done" /\ ~host.early /\ IsIn(r) => host.got = Least(r.length, r.value)
      /\ host.result = "stalled" /\ ~host.early => ~Known(control, r)

\* Every request ends for the host: the handler never leaves it with NAK for
\* ever.  A host that stops sending its data must not count on that.
EveryRequestEnds == host.stage # "idle" ~> host.stage = "idle"

\* udd_ctrl_underflow: "Host want to stop OUT transaction then stop to wait OUT
\* data phase and wait IN ZLP handshake".  But a NAK for data that came too
\* early is still flagged, hides the one that tells of the handshake, and has
\* its interrupt switched off: the host waits for ever.
StoppedDataEnd == host.early /\ host.stage # "idle" ~> host.stage = "idle"
=============================================================================
