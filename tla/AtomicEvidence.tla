--------------------------- MODULE AtomicEvidence ---------------------------
(***************************************************************************)
(* What the evidence store promises its users: a step changes the record   *)
(* of one company, by one operation on the value that record has at that   *)
(* moment.  There are no processes, no lock and no copies.                 *)
(***************************************************************************)
CONSTANTS Companies,
          Operations,
          EmptyRecord,
          Apply(_, _)   \* the record an operation makes of a record

VARIABLE records

Init == records = [c \in Companies |-> EmptyRecord]

Update(c, op) == records' = [records EXCEPT ![c] = Apply(op, @)]

Next == \E c \in Companies, op \in Operations : Update(c, op)

Spec == Init /\ [][Next]_records
=============================================================================
