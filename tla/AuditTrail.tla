----------------------------- MODULE AuditTrail -----------------------------
(***************************************************************************)
(* What the gateway promises about one audit row and the chat messages that *)
(* go with it, whoever does the writing: a row is recorded once, as running *)
(* or as denied; a running row is resolved at most once, to one of the three *)
(* terminal statuses; and the chat channel is told at most that it started  *)
(* and then how it ended, never a verdict other than the recorded one.      *)
(* Operations.tla implements this specification.                            *)
(***************************************************************************)
EXTENDS Sequences

CONSTANT Op                  \* operation identifiers

VARIABLES status,            \* status[o]: the recorded status of o
          told               \* told[o]: the messages handed to the notifier

trail == <<status, told>>

Terminal == {"succeeded", "failed", "timeout"}

Init == /\ status = [o \in Op |-> "none"]
        /\ told = [o \in Op |-> << >>]

(* The row is created: an accepted request, or a refused one. *)
Record(o, s) == /\ status[o] = "none"
                /\ s \in {"running", "denied"}
                /\ status' = [status EXCEPT ![o] = s]
                /\ UNCHANGED told

(* The channel hears that the rollout of a running operation started. *)
Announce(o) == /\ status[o] = "running"
               /\ told[o] = << >>
               /\ told' = [told EXCEPT ![o] = <<"running">>]
               /\ UNCHANGED status

(* The one terminal write; the writer may die before it tells the channel. *)
Resolve(o, s) == /\ status[o] = "running"
                 /\ s \in Terminal
                 /\ status' = [status EXCEPT ![o] = s]
                 /\ \/ told' = [told EXCEPT ![o] = Append(@, s)]
                    \/ UNCHANGED told

Next == \E o \in Op : \/ \E s \in {"running", "denied"} : Record(o, s)
                      \/ Announce(o)
                      \/ \E s \in Terminal : Resolve(o, s)

Spec == Init /\ [][Next]_trail

=============================================================================
