--------------------------- MODULE MCHTTPTransport ---------------------------
(* Two batches that share an event, and one with a payload that cannot be   *)
(* encoded.                                                                 *)
EXTENDS HTTPTransportInv

CONSTANTS e1, e2, e3, e4, s1, s2, s3

MCIdOf == [e \in Events |-> CASE e = e1 -> "uuid"
                              [] e = e2 -> "absent"
                              [] e = e3 -> "blank"
                              [] OTHER -> "number"]

MCItems == [s \in Senders |-> CASE s = s1 -> {e1, e2}
                                [] s = s2 -> {e2, e3}
                                [] OTHER -> {e1, e4}]
=============================================================================
