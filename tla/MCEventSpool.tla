---------------------------- MODULE MCEventSpool ----------------------------
(* Instances of EventSpool: events over one or two days.                    *)
EXTENDS EventSpool

CONSTANTS n1, n2, raw, refused

\* Events that differ in nothing but their order.
TwoPlain == {n1, n2}
\* A plain event, one whose raw content cannot be decrypted any more and whose
\* retention can lapse, and one the sidecar rejects.
OneOfEach == {n1, raw, refused}
=============================================================================
