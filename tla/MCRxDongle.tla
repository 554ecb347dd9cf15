----------------------------- MODULE MCRxDongle -----------------------------
(***************************************************************************)
(* TLC instances of RxDongle.  The requests are those of an enumeration:   *)
(* together their answers have every length that makes a difference.       *)
(***************************************************************************)
EXTENDS RxDongle, Descriptors

Request(kind, wLength) == [kind |-> kind, len |-> 0, wLength |-> wLength]

SetAddress       == Request("set_address", 0)
SetConfiguration == Request("set_configuration", 0)
SetIdle          == Request("class", 0)
\* HID's SET_REPORT(Output) has the report type 2 where GET_DESCRIPTOR has the type of
\* the descriptor, and get_descriptor looks at nothing else: its status stage carries
\* the first byte of the configuration descriptor.
SetReport        == [kind |-> "class_out", len |-> DescriptorLength("configuration", 0),
                     wLength |-> 1]
GetDevice        == GetDescriptor("device", 0, 64)         \* 8 + 8 + 4
GetDeviceHead    == GetDescriptor("device", 0, 8)          \* one packet, no more
GetConfigHead    == GetDescriptor("configuration", 0, 9)   \* cut off by wLength
GetManufacturer  == GetDescriptor("string", 3, 255)        \* four packets and an empty one
GetUnknown       == GetDescriptor("device_qualifier", 0, 255)  \* there is none

Enumerate == {SetAddress, SetConfiguration}
AllExceptExact == Enumerate \cup
    {SetIdle, SetReport, GetDevice, GetConfigHead, GetManufacturer, GetUnknown}
EnumerateAndUse == Enumerate \cup {SetReport, GetDeviceHead, GetConfigHead}

=============================================================================
