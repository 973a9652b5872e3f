------------------------------ MODULE UsbDevice ------------------------------
(***************************************************************************)
(* The USB device of Ex3 and Ex4: its control endpoint, and the serial     *)
(* line on its other endpoints.  A run is a run of one of the two; what    *)
(* requests do to the line are actions of UsbCdc.                          *)
(***************************************************************************)
EXTENDS UsbConfiguration

VARIABLES
  part,
  application, device, frame, at, register, operand, stale, unread, unsent, misled,
  control, host, handled

line == <<application, device, frame, at, register, operand, stale, unread, unsent, misled>>
endpoint == <<control, host, handled>>
vars == <<part, line, endpoint>>

Line == INSTANCE UsbCdc
Control == INSTANCE UsbControl

Init ==
  \/ part = "control" /\ Control!Init /\ Line!Init /\ application = "signal"
  \/ part = "line" /\ Control!Init /\ Line!Init

Next ==
  /\ \/ part = "control" /\ Control!Next /\ UNCHANGED line
     \/ part = "line" /\ Line!Next /\ UNCHANGED endpoint
  /\ UNCHANGED part

\* As for each part on its own; an unused control endpoint has nothing to do.
Spec == Init /\ [][Next]_vars /\ Control!Fairness

-----------------------------------------------------------------------------
(* What the parts promise, each stated in its own module *)

\* Since the line was enabled, bytes are given in the order in which they were
\* received, after those that the second buffer still counted then.
ReceivedInOrder == Line!ReceivedInOrder

\* Bytes are sent in the order in which they were written.
SentInOrder == Line!SentInOrder

\* The host gets all the data of a request that the device knows.
HostIsServed == Control!HostIsServed

\* The control endpoint lets every request end.
EveryRequestEnds == Control!EveryRequestEnds
=============================================================================
