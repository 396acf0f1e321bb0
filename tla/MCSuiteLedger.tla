--------------------------- MODULE MCSuiteLedger ---------------------------
(* Instances of SuiteLedger: the statuses a run may have in each mode. *)
EXTENDS SuiteLedger

AllSucceed   == [m \in Mode |-> {"OK"}]
\* A run may also exceed a limit; only a memory run has a cap.
SomeFail     == [time |-> {"OK", "TO"}, memory |-> {"OK", "TO"}]
CapExceeded  == [time |-> {"OK"}, memory |-> {"OK", "MEMORY-CAP-EXCEEDED"}]
=============================================================================
