---------------------------- MODULE DynamoStore ----------------------------
(***************************************************************************)
(* The audit store on DynamoDB: reads are paged, eventually consistent     *)
(* Scans that other writers overtake, times are compared as text, and an   *)
(* update is tried with one key after the other because the key schema of  *)
(* the table is not known.                                                 *)
(*                                                                         *)
(* internal/store/dynamo.go; the table and the SDK are external.           *)
(***************************************************************************)
EXTENDS Integers, FiniteSets, Sequences

CONSTANTS
    Rows,               \* bound: how many operations are ever recorded
    Caller,             \* goroutines that use the store
    Others,             \* goroutines of which only what they do to the table is modelled
    Nobody,             \* none of them
    PageLimit,          \* Limit of a Scan (100)
    Radix, Digits,      \* a second has Radix^Digits units (10 and 9)
    StaleAfter,         \* staleAfter, in units
    PutDelay,           \* how long after its stamp a PutItem may take effect
    Lag,                \* how long a Scan may show an item as it was before a write
    Lifetime,           \* expires_at - requested_at (365 days)
    Start, MaxNow       \* bounds on the clock

Second == Radix ^ Digits

\* Operation ids, numbered in the order in which a Scan meets their items.
Id == 1 .. Rows

ASSUME CallerAssumption == Nobody \notin Caller \cup {Others} /\ Others \notin Caller
ASSUME PageAssumption == Rows \in Nat \ {0} /\ PageLimit \in Nat \ {0}
ASSUME TextAssumption == Radix \in Nat \ {0, 1} /\ Digits \in Nat
\* A power of a positive number: for every Radix and Digits, but the provers know
\* no powers.
ASSUME SecondAssumption == Second \in Nat \ {0}
\* A row counts as stale (2 hours) only when its PutItem is over (the request's
\* context ends after 30 seconds) and every replica has it, and long before it expires.
ASSUME LifeAssumption ==
    /\ {StaleAfter, PutDelay, Lag, Lifetime, Start, MaxNow} \subseteq Nat
    /\ Start <= MaxNow
    /\ 0 < Lag /\ PutDelay + Lag <= StaleAfter /\ StaleAfter < Lifetime

VARIABLES
    schema,             \* the table's key, how a misfit is worded, or "none": no table
    now,                \* the clock
    row,                \* row[i]: the item of operation i
    past,               \* past[i]: the versions of it that a Scan may still show
    call                \* call[c]: the store operation that c is in, or its answer

vars == <<schema, now, row, past, call>>

Store == INSTANCE InMemStore WITH ops <- row, Time <- 0 .. MaxNow, Writer <- Caller \cup {Others}

\* A call: the operation it is about, when it was made, the ExclusiveStartKey of
\* the next page (0 for none), the ids it has collected, and the update's key.
Answer == {"listed", "got", "ok", "already", "notfound", "error", "mismatch"}
Call == [pc : {"idle", "list", "find", "update"} \cup Answer,
         id : Id, begun : Nat, start : Nat, ops : SUBSET Id, key : 1 .. 2]
NoCall == [pc |-> "idle", id |-> 1, begun |-> 0, start |-> 0, ops |-> {}, key |-> 1]

\* The key is operation_id, alone or with requested_at; "reworded" is the former in
\* an environment that reports a key that does not fit in words of its own.
Schema == {"composite", "hash", "reworded"}

\* What an item was like until it was written.
Version == [item : Store!Row, until : Nat]

Init ==
    /\ schema \in Schema
    /\ now = Start
    /\ row = [i \in Id |-> Store!NoRow]
    /\ past = [i \in Id |-> {}]
    /\ call = [c \in Caller |-> NoCall]

-----------------------------------------------------------------------------
(* Times as text: time.RFC3339Nano in UTC. The whole seconds have a fixed    *)
(* width and sort like numbers; the fraction loses its trailing zeros, and   *)
(* a fraction of zero its point. In ASCII "." comes before the digits and "Z" *)
(* after them.                                                               *)

Point == -1
Zulu == Radix

\* The digits of t's fraction that are printed: all but the zeros at its end.
Precision(t) == Digits - Cardinality({k \in 1 .. Digits : t % Radix ^ k = 0})

Digit(t, k) == (t \div Radix ^ (Digits - k)) % Radix

\* Mutant: time.RFC3339, which has no fraction at all.
FormatSeconds(t) == <<t \div Second, Zulu>>

Format(t) ==
    IF Precision(t) = 0 THEN <<t \div Second, Zulu>>
    ELSE <<t \div Second, Point>> \o [k \in 1 .. Precision(t) |-> Digit(t, k)] \o <<Zulu>>

\* The order of strings. (No text is the beginning of another: "Z" ends each.)
Before(s, t) == \E n \in 1 .. Len(s) : /\ n <= Len(t)
                                       /\ s[n] < t[n]
                                       /\ \A k \in 1 .. n - 1 : s[k] = t[k]

-----------------------------------------------------------------------------
(* Scan.                                                                     *)

\* A write to item i leaves its old version for Scans to show.
Supersede(i) == past' = [past EXCEPT ![i] = @ \cup {[item |-> row[i], until |-> now]}]

\* The reads are eventually consistent: an item is seen as it is or as it was until
\* less than Lag ago, whatever is seen of the others.
Shows(i) == {row[i]} \cup {v.item : v \in past[i]}

\* One page after the key `start`: the first items E, at most PageLimit of them
\* whatever the filter makes of them, and LastEvaluatedKey (0 for nil), which may
\* be set even if nothing is left.
Page(start, E, last) ==
    /\ schema # "none"
    /\ Cardinality(E) <= PageLimit
    /\ last = 0 \/ (last \in E /\ \A i \in E : i <= last)
    /\ \A i \in E : start < i /\ \E r \in Shows(i) : Store!Present(r)
    /\ \A j \in Id \ E : start < j /\ (last = 0 \/ j < last) => \E r \in Shows(j) : ~Store!Present(r)

\* What is left of call c once it has its answer.
Answered(c, a) ==
    IF a \in {"got", "error", "mismatch"} THEN [NoCall EXCEPT !.pc = a]
    ELSE [NoCall EXCEPT !.pc = a, !.id = call[c].id,
                        !.begun = IF a = "notfound" THEN call[c].begun ELSE 0]

Return(c, a) == call' = [call EXCEPT ![c] = Answered(c, a)]

olderThan(c) == call[c].begun - StaleAfter

\* Mutant: the filter leaves the deadline out.
MatchesRunning(c, r) == r.status = "running"

\* FilterExpression "#st = :running AND requested_at < :t".
Matches(c, r) == r.status = "running" /\ Before(Format(r.at), Format(olderThan(c)))

\* The items of E that it lets pass, each in the version that was seen.
Filtered(c, E, items) ==
    /\ items \subseteq E
    /\ \A i \in E : \E r \in Shows(i) : Store!Present(r) /\ (i \in items <=> Matches(c, r))

\* Mutant: only the first page is read.
ListFirstPage(c) ==
    /\ call[c].pc = "list"
    /\ UNCHANGED <<schema, now, row, past>>
    /\ \/ Return(c, "error")
       \/ \E E, items \in SUBSET Id, last \in Id \cup {0} :
             /\ Page(call[c].start, E, last) /\ Filtered(c, E, items)
             /\ call' = [call EXCEPT ![c] = [call[c] EXCEPT
                   !.pc = "listed", !.ops = items]]

\* Mutant: the next page starts where this one did (and no accident ends the loop).
ListSamePage(c) ==
    /\ call[c].pc = "list"
    /\ UNCHANGED <<schema, now, row, past>>
    /\ \/ schema = "none" /\ Return(c, "error")
       \/ \E E, items \in SUBSET Id, last \in Id \cup {0} :
             /\ Page(call[c].start, E, last) /\ Filtered(c, E, items)
             /\ call' = [call EXCEPT ![c] = [call[c] EXCEPT
                   !.pc = IF last = 0 THEN "listed" ELSE "list",
                   !.ops = @ \cup items]]

\* One page of ListRunningPastDeadline; an error ends it without a list.
ListRunningPastDeadline(c) ==
    /\ call[c].pc = "list"
    /\ UNCHANGED <<schema, now, row, past>>
    /\ \/ Return(c, "error")
       \/ \E E, items \in SUBSET Id, last \in Id \cup {0} :
             /\ Page(call[c].start, E, last) /\ Filtered(c, E, items)
             /\ call' = [call EXCEPT ![c] = [call[c] EXCEPT
                   !.pc = IF last = 0 THEN "listed" ELSE "list",
                   !.start = last,     \* nil when it is the last page
                   !.ops = @ \cup items]]

\* One page of findOperation: all pages are read even if the item has been found.
\* (Ids are unique, so the branch for a second item with the id is never taken.)
\* GetOperation returns what was found, UpdateTerminal goes on to update it.
FindOperation(c) ==
    /\ call[c].pc = "find"
    /\ UNCHANGED <<schema, now, row, past>>
    /\ \/ Return(c, "error")
       \/ \E E \in SUBSET Id, last \in Id \cup {0} :
             /\ Page(call[c].start, E, last)
             /\ LET found == call[c].ops \cup (E \cap {call[c].id})
                IN \/ /\ last # 0
                      /\ call' = [call EXCEPT ![c] = [call[c] EXCEPT !.start = last, !.ops = found]]
                   \/ /\ last = 0 /\ found = {}
                      /\ Return(c, "notfound")
                   \/ /\ last = 0 /\ found # {}
                      /\ \E a \in {"got", "update"} : Return(c, a)

-----------------------------------------------------------------------------
(* UpdateItem.                                                               *)

\* updateKeysFor: the composite key first. (RequestedAt of a row that
\* PutOperation wrote is never zero.)
updateKeysFor == <<"composite", "hash">>

\* Mutant: the sort key is formatted without the fraction.
SortKeySeconds(i) == FormatSeconds(row[i].at)

\* The sort key that an update of operation i names: its requested_at, parsed
\* when the item was read and formatted again.
SortKey(i) == Format(row[i].at)

\* The item that the key finds: with a sort key, only one with that very text.
Finds(i) == Store!Present(row[i]) /\ (schema = "composite" => SortKey(i) = Format(row[i].at))

\* isKeySchemaMismatch, of the error that a key which does not fit is answered with:
\* it looks for the words that DynamoDB uses today.
isKeySchemaMismatch == schema # "reworded"

\* Mutant: no ConditionExpression. An update of an item that is gone makes one.
WriteAnyway(c, i) ==
    /\ row' = [row EXCEPT ![i] = Store!Resolved(row[i], c)]
    /\ Supersede(i)
    /\ Return(c, "ok")

\* An update with a key that fits the schema. The condition "#st = :running"
\* fails for an item that is terminal or that the key does not find. An answer
\* that is lost is an error, unless the SDK tries again and meets its own write.
Write(c, i) ==
    \/ /\ Finds(i) /\ row[i].status = "running"
       /\ row' = [row EXCEPT ![i] = Store!Resolved(row[i], c)]
       /\ Supersede(i)
       /\ \E a \in {"ok", "error", "already"} : Return(c, a)
    \/ /\ ~(Finds(i) /\ row[i].status = "running")
       /\ Return(c, "already")
       /\ UNCHANGED <<row, past>>

\* An update with a key that does not fit: the next key, if there is one and the
\* error is understood. Otherwise UpdateTerminal fails.
NextKey(c) ==
    IF isKeySchemaMismatch /\ call[c].key < Len(updateKeysFor)
    THEN call' = [call EXCEPT ![c].key = @ + 1]
    ELSE Return(c, "mismatch")

\* UpdateTerminal after findOperation: one UpdateItem. It fits, or it does not, or
\* it finds no table, which is ErrNotFound, or it fails in another way.
UpdateItem(c) ==
    /\ call[c].pc = "update"
    /\ \/ /\ Return(c, "error")
          /\ UNCHANGED <<row, past>>
       \/ /\ updateKeysFor[call[c].key] = schema
          /\ Write(c, call[c].id)
       \/ /\ schema # "none" /\ updateKeysFor[call[c].key] # schema
          /\ NextKey(c)
          /\ UNCHANGED <<row, past>>
       \/ /\ schema = "none"
          /\ Return(c, "notfound")
          /\ UNCHANGED <<row, past>>
    /\ UNCHANGED <<schema, now>>

-----------------------------------------------------------------------------
(* The callers, the table and the clock.                                     *)

\* The sweeper lists; watcher, handler, sweeper and GET look up and resolve.
Begin(c) ==
    /\ call[c].pc \notin {"list", "find", "update"}
    /\ \/ /\ now >= StaleAfter
          /\ call' = [call EXCEPT ![c] = [NoCall EXCEPT !.pc = "list", !.begun = now]]
       \/ \E i \in Id :
             /\ row[i].status # "none"
             /\ call' = [call EXCEPT ![c] = [NoCall EXCEPT !.pc = "find", !.id = i, !.begun = now]]
    /\ UNCHANGED <<schema, now, row, past>>

\* PutItem takes effect on a row that was stamped at most PutDelay before. One that
\* fails changes nothing here.
PutOperation(i) ==
    /\ schema # "none"
    /\ \E s \in {"running", "denied"}, d \in 0 .. PutDelay :
          now >= d /\ Store!PutOperation(i, s, now - d)
    /\ Supersede(i)
    /\ UNCHANGED <<schema, now, call>>

\* The UpdateTerminal of another goroutine takes effect.
OtherUpdate(i) ==
    /\ Store!UpdateTerminal(i, Others)
    /\ Supersede(i)
    /\ UNCHANGED <<schema, now, call>>

Expire(i) ==
    /\ now - row[i].at >= Lifetime
    /\ Store!Expire({i})
    /\ Supersede(i)
    /\ UNCHANGED <<schema, now, call>>

\* Somebody deletes the table.
DropTable ==
    /\ schema # "none"
    /\ schema' = "none"
    /\ Store!Expire({i \in Id : Store!Present(row[i])})
    /\ past' = [i \in Id |-> {}]
    /\ UNCHANGED <<now, call>>

\* Time passes, and the replicas catch up with what is Lag old.
Tick ==
    /\ now < MaxNow
    /\ now' = now + 1
    /\ past' = [i \in Id |-> {v \in past[i] : now' < v.until + Lag}]
    /\ UNCHANGED <<schema, row, call>>

Step(c) == ListRunningPastDeadline(c) \/ FindOperation(c) \/ UpdateItem(c)

Next == \/ \E c \in Caller : Begin(c) \/ Step(c)
        \/ \E i \in Id : PutOperation(i) \/ OtherUpdate(i) \/ Expire(i)
        \/ DropTable \/ Tick

\* A request to DynamoDB comes back. That is assumed of the environment: where the
\* context has no deadline, the SDK waits for an answer for as long as it takes.
Fairness == \A c \in Caller : WF_vars(Step(c))

Spec == Init /\ [][Next]_vars /\ Fairness

-----------------------------------------------------------------------------
(* Properties.                                                             *)

(* Every variable has its type. *)
TypeOK ==
    /\ schema \in Schema \cup {"none"}
    /\ now \in Nat
    /\ row \in [Id -> Store!Row]
    /\ past \in [Id -> SUBSET Version]
    /\ call \in [Caller -> Call]

(* "or orphaned running ops past page one are never swept": the list has every
   row that was requested in an earlier second than olderThan and that nobody has
   resolved meanwhile, on whatever page and between whichever writes it lay. *)
ListComplete ==
    \A c \in Caller : call[c].pc = "listed" =>
        Store!RunningPastDeadline(olderThan(c) - (olderThan(c) % Second)) \subseteq call[c].ops

(* The comparison of requested_at as text takes a row for stale less than a
   second too early, and never a younger one. *)
ListSound ==
    \A c \in Caller : \A i \in call[c].ops :
        call[c].pc = "listed" => row[i].at < olderThan(c) + Second

(* What a call is told is so: nil only to the one whose update the row holds (until
   it goes), ErrAlreadyTerminal only about a row that is not running any more,
   ErrNotFound only about one that is gone, or that was stamped less than
   PutDelay + Lag before the call began: no lookup misses an older row, on whatever
   page and in whatever versions the Scan saw the others. And an update fails for
   its key only where the error is not worded as isKeySchemaMismatch expects. *)
AnswerIsTrue ==
    \A c \in Caller : LET r == row[call[c].id] IN
        /\ call[c].pc = "ok" => r.by = c \/ ~Store!Present(r)
        /\ call[c].pc = "already" => r.status # "running"
        /\ call[c].pc = "notfound" =>
              ~Store!Present(r) \/ call[c].begun < r.at + PutDelay + Lag
        /\ call[c].pc = "mismatch" => schema \notin {"composite", "hash"}

-----------------------------------------------------------------------------
(* Why the properties hold: what a call k has found out so far stays so,     *)
(* whatever becomes of the rows meanwhile.                                   *)

\* A list: every row found so far was put long ago, and of the rows up to the key
\* where the next page starts none is missing that is still running and stale.
ListHolds(k, rows) ==
    LET deadline == k.begun - StaleAfter IN
    k.pc \in {"list", "listed"} =>
        /\ deadline >= 0
        /\ \A i \in k.ops : rows[i].status # "none" /\ rows[i].at < deadline + Second
        /\ \A i \in Id : /\ k.pc = "listed" \/ i <= k.start
                         /\ rows[i].status = "running"
                         /\ rows[i].at < deadline - (deadline % Second)
                         => i \in k.ops

\* A lookup, and the update after it, by caller c.
LookupHolds(c, k, rows) ==
    LET r == rows[k.id]
        unseen == ~Store!Present(r) \/ k.begun < r.at + PutDelay + Lag
    IN /\ k.pc \in {"find", "update", "ok", "already", "notfound"} => r.status # "none"
       /\ k.pc = "find" /\ k.ops = {} /\ k.id <= k.start => unseen
       /\ k.pc = "update" /\ k.key = 2 => schema \in {"hash", "none"}
       /\ k.pc = "ok" => r.status = "expired" \/ (r.status = "resolved" /\ r.by = c)
       /\ k.pc = "already" => r.status # "running"
       /\ k.pc = "notfound" => unseen
       /\ k.pc = "mismatch" => schema \in {"reworded", "none"}

\* What a Scan at time t may show of a row r besides its last version: an earlier
\* one with the same stamp, or no item at all, and that only until Lag after it was
\* put.
PastHolds(r, versions, t) ==
    \A v \in versions :
        /\ r.status # "none" /\ v.item.status # "expired"
        /\ t < v.until + Lag
        /\ v.item.status = "none" /\ r.status # "expired" => v.until <= r.at + PutDelay
        /\ v.item.status # "none" => r.status # "running"
                                     /\ (r.status # "expired" => v.item.at = r.at)

(* The inductive invariant: the type, the clock, the versions, and what every call
   knows. *)
IndInv ==
    /\ TypeOK
    /\ now <= MaxNow
    /\ \A i \in Id : /\ PastHolds(row[i], past[i], now)
                     /\ schema = "none" => ~Store!Present(row[i])
                     /\ row[i].status = "expired" => row[i] = Store!Gone
    /\ \A c \in Caller : /\ call[c].begun <= now
                          /\ ListHolds(call[c], row) /\ LookupHolds(c, call[c], row)

(* Lookup and update are separate requests, and still every step of the table is
   one of inmem.go's atomic map: one terminal update per row, none after its
   expiry. *)
ImplementsInMemStore == Store!Spec

(* Every call comes to its answer: the loops over the pages of a Scan end
   although rows keep coming, and the loop over the keys does. *)
CallsEnd ==
    \A c \in Caller :
        call[c].pc \in {"list", "find", "update"} ~> call[c].pc \in Answer
=============================================================================
