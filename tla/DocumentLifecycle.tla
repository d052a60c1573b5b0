-------------------------- MODULE DocumentLifecycle --------------------------
(***************************************************************************)
(* What a client that polls GET .../documents/{id}/status may see: the     *)
(* abstract specification of document ingestion.  A document is queued,    *)
(* claimed once, and settled once; only reindexing starts it over.         *)
(***************************************************************************)
CONSTANT Documents

VARIABLE status

Reported == {"none", "queued", "processing", "ready", "failed"}

TypeOK == status \in [Documents -> Reported]

Init == status = [d \in Documents |-> "none"]

Becomes(d, from, to) ==
    /\ status[d] \in from
    /\ status' = [status EXCEPT ![d] = to]

Accept(d) == Becomes(d, {"none"}, "queued")
Withdraw(d) == Becomes(d, {"queued"}, "none")
Process(d) == Becomes(d, {"queued"}, "processing")
Complete(d) == Becomes(d, {"processing"}, "ready")
Fail(d) == Becomes(d, {"queued", "processing"}, "failed")
Reindex(d) == Becomes(d, {"ready"}, "queued")

Next ==
    \E d \in Documents :
       Accept(d) \/ Withdraw(d) \/ Process(d) \/ Complete(d) \/ Fail(d) \/ Reindex(d)

Spec == Init /\ [][Next]_status

=============================================================================
