-------------------------- MODULE UsbConfiguration --------------------------
(* The configuration of the USB device, and the bounds of its environment. *)
EXTENDS Naturals

CONSTANTS
  PacketSize,   \* wMaxPacketSize of the data endpoints
  Buffers,      \* UDI_CDC_RX_BUFFERS and UDI_CDC_TX_BUFFERS
  ControlSize,  \* USB_DEVICE_EP_CTRL_SIZE
  LineLength,   \* sizeof(usb_cdc_line_coding_t)
  Application,  \* what the application may do: "get", "put" or "signal"
  Values,       \* bound: bytes are numbered modulo this
  Frames,       \* bound: frame numbers are modulo this
  Total,        \* the lengths of descriptors
  Asked,        \* the values of wLength in requests for them
  StopsOut,     \* whether the host may stop sending the data of a request
  MaxBroken     \* bound on the requests that the host does not let end

ASSUME UsbAssumption ==
  /\ PacketSize \in Nat \ {0} /\ Buffers \in Nat \ {0} /\ Buffers % PacketSize = 0
  /\ ControlSize \in Nat \ {0} /\ LineLength \in Nat \ {0}
  /\ Application \subseteq {"get", "put", "signal"}
  /\ Values \in Nat \ {0} /\ Frames \in Nat \ {0}
  /\ Total \subseteq Nat \ {0} /\ Asked \subseteq Nat \ {0}
  /\ StopsOut \in BOOLEAN /\ MaxBroken \in Nat
=============================================================================
