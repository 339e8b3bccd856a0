--------------------------- MODULE MCCommissioning ---------------------------
(* TLC's instances of Commissioning. *)
EXTENDS Commissioning

CONSTANTS Old, New

AllOf(v) == [f \in Fields |-> v]

\* Every field with one value, so that a mixture shows: lines that fit, that
\* the buffer takes and the adapter does not, and that the buffer cuts off; and
\* ports that are none.
FieldLines ==
  [field : Fields, value : {New}, length : 1..kMaxBufferedBytes + 1]
    \cup [field : {"jmri_port"}, value : {NotAPort, HugePort}, length : {kMaxLineLength}]

\* Two complete forms, and forms without a JMRI host or a port.
SomeForms ==
  {AllOf(Old), AllOf(New), [AllOf(Old) EXCEPT !["jmri_host"] = Empty]}
    \cup {[AllOf(Old) EXCEPT !["jmri_port"] = port] : port \in {NotAPort, HugePort}}

\* A board from before the JMRI fields existed.
WifiOnly ==
  {[f \in Fields |-> IF f \in {"ssid", "password"} THEN Old ELSE Empty]}
JmriLines == [field : {"jmri_host", "jmri_port"}, value : {New}, length : {1}]
=============================================================================
