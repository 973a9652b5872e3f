------------------------------ MODULE UsbJobs ------------------------------
(***************************************************************************)
(* The jobs of the bulk and interrupt endpoints in the driver of the USBB  *)
(* (usbb_device.c) as operators on a device d: d.enabled is the set of the *)
(* enabled endpoints, d.halt[ep] says whether a stall is requested or on,  *)
(* and d.job[ep] is udd_ep_job[ep - 1], with what its DMA has left to do.  *)
(***************************************************************************)
EXTENDS UsbConfiguration

Endpoint == {"IN", "OUT", "COMM"}

NoJob == [busy |-> FALSE, buf |-> 0, size |-> 0, sendZlp |-> FALSE, sent |-> FALSE]

NewJobs == [ep \in Endpoint |-> NoJob]

\* A job that receives ends with a short packet or with its buffer full.
ReceiveJob(buf) == [NoJob EXCEPT !.busy = TRUE, !.buf = buf]

\* A job that sends: a packet of length zero is for a job without data, and
\* after full packets only if the caller allows a short packet at the end.
SendJob(buf, size, shortPacket) ==
  [NoJob EXCEPT !.busy = TRUE, !.buf = buf, !.size = size,
     !.sendZlp = size = 0 \/ (size % PacketSize = 0 /\ shortPacket)]

\* udd_ep_run accepts a job.
Runs(d, ep) == ep \in d.enabled /\ d.halt[ep] = "no" /\ ~d.job[ep].busy

EpRun(d, ep, job) == IF Runs(d, ep) THEN [d EXCEPT !.job[ep] = job] ELSE d

\* udd_ep_free and udd_ep_alloc.  A stall that was only requested stays so.
EpFree(d, eps) ==
  [d EXCEPT !.enabled = @ \ eps,
            !.job = [ep \in Endpoint |-> IF ep \in eps THEN NoJob ELSE @[ep]],
            !.halt = [ep \in Endpoint |-> IF ep \in eps /\ @[ep] = "on" THEN "no" ELSE @[ep]]]

EpAlloc(d, eps) == [d EXCEPT !.enabled = @ \cup eps]

\* udd_ep_set_halt: refused during a job; with data in the banks, a request.
EpSetHalt(d, ep, banksBusy) ==
  IF d.job[ep].busy THEN d
  ELSE [d EXCEPT !.halt[ep] = IF banksBusy THEN "requested" ELSE "on"]

\* The end of the transfer in the background that a requested stall waits for.
EpStall(d, ep) == [d EXCEPT !.halt[ep] = "on"]

\* udd_ep_clear_halt.  Nobody uses udd_ep_wait_stall_clear.
EpClearHalt(d, ep) == [d EXCEPT !.halt[ep] = "no"]
=============================================================================
