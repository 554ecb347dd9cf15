----------------------------- MODULE Descriptors -----------------------------
(***************************************************************************)
(* What get_descriptor of src/src/hidusb.c answers.  The state machine     *)
(* only looks at how long an answer is.                                    *)
(***************************************************************************)
EXTENDS Integers

\* Every structure of grainuum.h is packed and aligned(4): sizeof rounds the
\* sum of its fields up to a word.
SizeOf(fields) == 4 * ((fields + 3) \div 4)

\* Eighteen bytes of fields, and two of padding that get_device_descriptor
\* counts in: it answers sizeof(device_descriptor), not its bLength.
DeviceDescriptor == SizeOf(18)
\* The configuration, its interface, the HID descriptor and two endpoints.
ConfigurationDescriptor == 9 + 9 + 9 + 7 + 7
\* 29 items of two bytes and END_COLLECTION.
HidReportDescriptor == 29 * 2 + 1

USB_STR_BUF_LEN == 64

\* Two bytes of header and two for each character that fits the buffer.
StringDescriptor(chars) ==
    LET max_len == (USB_STR_BUF_LEN \div 2) - 2
    IN  2 + 2 * (IF chars > max_len THEN max_len ELSE chars)

\* "Palawan Keyboard", "0203040203040", "Kosagi PTE Ltd.", "Default Keyboard"
\* and "Default configuration".
Characters == <<16, 13, 15, 16, 21>>

\* The length of the answer: 0 when the device has no such descriptor.
DescriptorLength(type, num) ==
    CASE type = "device"        /\ num = 0       -> DeviceDescriptor
      [] type = "configuration" /\ num = 0       -> ConfigurationDescriptor
      [] type = "hid_report"    /\ num = 0       -> HidReportDescriptor
      [] type = "string"        /\ num = 0       -> 4
      [] type = "string"        /\ num \in 1 .. 5 -> StringDescriptor(Characters[num])
      [] OTHER                                   -> 0

\* GET_DESCRIPTOR by a host that takes wLength bytes at most.
GetDescriptor(type, num, wLength) ==
    [kind |-> "get", len |-> DescriptorLength(type, num), wLength |-> wLength]
=============================================================================
