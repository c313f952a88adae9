----------------------------- MODULE InMemStore -----------------------------
(***************************************************************************)
(* The audit store as its callers think of it: every operation of the Store *)
(* interface is one atomic step on a map, as in internal/store/inmem.go.    *)
(* The map never forgets a row; that rows go is the DynamoDB table's doing.  *)
(* DynamoStore.tla implements this specification.                           *)
(***************************************************************************)
EXTENDS Integers

CONSTANTS Time,         \* requested_at of a row, a set of natural numbers
          Id,           \* operation ids; every row ever made has its own
          Writer,       \* those who resolve rows
          Nobody        \* nobody has resolved the row

VARIABLE ops            \* ops[i]: the row of operation i

Status == {"none", "running", "denied", "resolved", "expired"}

\* A row: when it was requested and, once resolved, whose update it holds.
Row == [status : Status, at : Time, by : Writer \cup {Nobody}]
NoRow == [status |-> "none", at |-> 0, by |-> Nobody]
Requested(s, t) == [status |-> s, at |-> t, by |-> Nobody]
Resolved(r, w) == [status |-> "resolved", at |-> r.at, by |-> w]
Gone == [status |-> "expired", at |-> 0, by |-> Nobody]

Present(r) == r.status \notin {"none", "expired"}

Init == ops = [i \in Id |-> NoRow]

PutOperation(i, s, t) ==
    /\ ops[i].status = "none"
    /\ ops' = [ops EXCEPT ![i] = Requested(s, t)]

\* Of several terminal updates of a row the first one counts.
UpdateTerminal(i, w) ==
    /\ ops[i].status = "running"
    /\ ops' = [ops EXCEPT ![i] = Resolved(ops[i], w)]

\* Rows go: one at the end of its life, or all of them with their table.
Expire(I) ==
    /\ \A i \in I : Present(ops[i])
    /\ ops' = [i \in Id |-> IF i \in I THEN Gone ELSE ops[i]]

\* What ListRunningPastDeadline returns.
RunningPastDeadline(olderThan) ==
    {i \in Id : ops[i].status = "running" /\ ops[i].at < olderThan}

Next == \/ \E i \in Id, s \in {"running", "denied"}, t \in Time : PutOperation(i, s, t)
        \/ \E i \in Id, w \in Writer : UpdateTerminal(i, w)
        \/ \E I \in SUBSET Id : Expire(I)

Spec == Init /\ [][Next]_ops
=============================================================================
