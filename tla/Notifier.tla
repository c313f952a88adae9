------------------------------ MODULE Notifier ------------------------------
(***************************************************************************)
(* The chat messages of one operation: the goroutine of Started that posts  *)
(* "running", the goroutine of Resolved that waits for its message id and   *)
(* edits the message or posts a new one, and a Bot API whose answers get    *)
(* lost. That Resolved is called at most once per operation, and never      *)
(* before Started, is what Operations shows.                                *)
(*                                                                          *)
(* internal/notify/{notify,telegram}.go; the Bot API is external.           *)
(***************************************************************************)
EXTENDS Integers, Sequences

CONSTANTS
    CallTimeout,        \* callTimeout, for a call with all its retries (30 s)
    HandleWait,         \* handleWait, what Resolved waits for the id (31 s)
    MaxAttempts,        \* maxAttempts (3)
    RequestTimeout,     \* when the request, and so Started, is over at the latest (30 s)
    StaleAfter,         \* staleAfter: no sweep or GET resolves sooner (2 h)
    MaxNow,             \* bound on the clock
    MaxCrashes          \* bound on process deaths

ASSUME NotifierTimes ==
    /\ {CallTimeout, HandleWait, RequestTimeout, StaleAfter, MaxNow, MaxCrashes} \subseteq Nat
    /\ MaxAttempts \in Nat \ {0}
\* handleWait is callTimeout + 1 s; staleAfter is hours, the others seconds
ASSUME WaitIsLonger == CallTimeout < HandleWait /\ RequestTimeout + CallTimeout < StaleAfter

VARIABLES
    now,                \* the clock, since the request came in
    caller,             \* caller[w]: the goroutine that sends message w
    handle,             \* the Message: whether it is settled, and its id (0 for none)
    chat,               \* the messages in the chat, in order; an id is a position
    late,               \* late[w]: requests for w on their way that no client waits for
    crashes             \* how often the process has died

vars == <<now, caller, handle, chat, late, crashes>>

Text == {"running", "terminal"}
NoHandle == [settled |-> FALSE, id |-> 0]

\* A goroutine: where it is, since when its present context or wait runs, the
\* number of its attempt, and the message it edits (0 to post a new one).
Goroutine == [pc : {"off", "wait", "call", "backoff", "done"},
              since : Nat, attempt : 0 .. MaxAttempts, edits : Nat]
Off == [pc |-> "off", since |-> 0, attempt |-> 0, edits |-> 0]
Done == [pc |-> "done", since |-> 0, attempt |-> 0, edits |-> 0]

Init ==
    /\ now = 0
    /\ caller = [w \in Text |-> Off]
    /\ handle = NoHandle
    /\ chat = << >>
    /\ late = [w \in Text |-> 0]
    /\ crashes = 0

-----------------------------------------------------------------------------
(* transport.call.                                                         *)

\* The first attempt of a call that edits message id, or posts for id 0.
Calls(id) == [pc |-> "call", since |-> now, attempt |-> 1, edits |-> id]

Alive(w) == now <= caller[w].since + CallTimeout

\* The call of w returned: Started settles its handle with the id, 0 for an
\* error; Resolved has nothing left to do.
Returns(w, id) ==
    /\ caller' = [caller EXCEPT ![w] = Done]
    /\ handle' = IF w = "running" THEN [settled |-> TRUE, id |-> id] ELSE handle

\* Mutant: one attempt too many.
RetriesOnceMore(w) ==
    IF caller[w].attempt <= MaxAttempts
    THEN /\ caller' = [caller EXCEPT ![w].pc = "backoff"]
         /\ UNCHANGED handle
    ELSE Returns(w, 0)

\* The attempt came to nothing that the client knows of: back off, or give up
\* after the last one.
Retries(w) ==
    IF caller[w].attempt < MaxAttempts
    THEN /\ caller' = [caller EXCEPT ![w].pc = "backoff"]
         /\ UNCHANGED handle
    ELSE Returns(w, 0)

\* What the chat looks like once the request of w has arrived.
Arrives(w) == IF caller[w].edits = 0 THEN Append(chat, w)
              ELSE [chat EXCEPT ![caller[w].edits] = w]

\* An attempt that Telegram answers with ok.
AttemptOK(w) ==
    /\ caller[w].pc = "call"
    /\ Alive(w)
    /\ chat' = Arrives(w)
    /\ Returns(w, Len(chat'))
    /\ UNCHANGED <<now, late, crashes>>

\* An attempt that is carried out and whose answer is lost, or does not decode;
\* or one that is not carried out: no connection, 429, 5xx. Both are retried.
AttemptFails(w) ==
    /\ caller[w].pc = "call"
    /\ chat' = chat \/ (Alive(w) /\ chat' = Arrives(w))
    /\ Retries(w)
    /\ UNCHANGED <<now, late, crashes>>

\* An attempt that the client gives up on while the request is still on its way
\* (a late edit would only repeat what the chat already says).
AttemptLingers(w) ==
    /\ caller[w].pc = "call"
    /\ Alive(w)
    /\ caller[w].edits = 0
    /\ late' = [late EXCEPT ![w] = @ + 1]
    /\ Retries(w)
    /\ UNCHANGED <<now, chat, crashes>>

\* Any other status is an error at once.
AttemptRefused(w) ==
    /\ caller[w].pc = "call"
    /\ Returns(w, 0)
    /\ UNCHANGED <<now, chat, late, crashes>>

\* sleepCtx: the next attempt, or the end of the context.
Backoff(w) ==
    /\ caller[w].pc = "backoff"
    /\ \/ /\ Alive(w)
          /\ caller' = [caller EXCEPT ![w].pc = "call", ![w].attempt = @ + 1]
          /\ UNCHANGED handle
       \/ /\ now >= caller[w].since + CallTimeout
          /\ Returns(w, 0)
    /\ UNCHANGED <<now, chat, late, crashes>>

\* A request that nobody waits for any more arrives after all.
Land ==
    /\ \E w \in Text : /\ late[w] > 0
                        /\ late' = [late EXCEPT ![w] = @ - 1]
                        /\ chat' = Append(chat, w)
    /\ UNCHANGED <<now, caller, handle, crashes>>

-----------------------------------------------------------------------------
(* Started and Resolved.                                                   *)

Started ==
    /\ caller["running"].pc = "off" /\ caller["terminal"].pc = "off"
    /\ crashes = 0
    /\ now <= RequestTimeout
    /\ caller' = [caller EXCEPT !["running"] = Calls(0)]
    /\ UNCHANGED <<now, handle, chat, late, crashes>>

\* By the watcher, with the handle; or without one: the patch failed and nothing
\* was announced, or the sweeper or a GET found a stale row.
Resolved ==
    /\ caller["terminal"].pc = "off"
    /\ \/ /\ caller["running"].pc # "off"
          /\ crashes = 0
          /\ caller' = [caller EXCEPT !["terminal"] =
                [pc |-> "wait", since |-> now, attempt |-> 0, edits |-> 0]]
       \/ /\ (caller["running"].pc = "off" /\ crashes = 0) \/ now > StaleAfter
          /\ caller' = [caller EXCEPT !["terminal"] = Calls(0)]
    /\ UNCHANGED <<now, handle, chat, late, crashes>>

\* Mutant: Resolved does not wait out the call that sends the start message.
WaitTooShort ==
    /\ caller["terminal"].pc = "wait"
    /\ \E id \in IF handle.settled THEN {handle.id} ELSE {0} :
          caller' = [caller EXCEPT !["terminal"] = Calls(id)]
    /\ UNCHANGED <<now, handle, chat, late, crashes>>

\* Mutant: the settled handle's id is dropped.
WaitDropsID ==
    /\ caller["terminal"].pc = "wait"
    /\ handle.settled
    /\ caller' = [caller EXCEPT !["terminal"] = Calls(0)]
    /\ UNCHANGED <<now, handle, chat, late, crashes>>

\* Mutant: Resolved waits for an id, not for the handle to be settled.
WaitForID ==
    /\ caller["terminal"].pc = "wait"
    /\ handle.id # 0
    /\ caller' = [caller EXCEPT !["terminal"] = Calls(handle.id)]
    /\ UNCHANGED <<now, handle, chat, late, crashes>>

\* Message.wait: the id once it is settled, 0 when the timer fires.
Wait ==
    /\ caller["terminal"].pc = "wait"
    /\ \/ /\ handle.settled
          /\ caller' = [caller EXCEPT !["terminal"] = Calls(handle.id)]
       \/ /\ now >= caller["terminal"].since + HandleWait
          /\ caller' = [caller EXCEPT !["terminal"] = Calls(0)]
    /\ UNCHANGED <<now, handle, chat, late, crashes>>

-----------------------------------------------------------------------------
(* The process and the clock.                                              *)

Crash ==
    /\ crashes < MaxCrashes
    /\ crashes' = crashes + 1
    /\ caller' = [w \in Text |-> IF caller[w].pc = "off" THEN Off ELSE Done]
    /\ UNCHANGED <<now, handle, chat, late>>

\* A call ends with its context, and a wait with its handle or its timer.
Tick ==
    /\ now < MaxNow
    /\ \A w \in Text : caller[w].pc \in {"call", "backoff"} => now < caller[w].since + CallTimeout
    /\ caller["terminal"].pc = "wait" =>
          ~handle.settled /\ now < caller["terminal"].since + HandleWait
    /\ now' = now + 1
    /\ UNCHANGED <<caller, handle, chat, late, crashes>>

Call(w) == AttemptOK(w) \/ AttemptFails(w) \/ AttemptLingers(w) \/ AttemptRefused(w) \/ Backoff(w)

Next == Started \/ Resolved \/ Wait \/ (\E w \in Text : Call(w)) \/ Land \/ Crash \/ Tick

Spec == Init /\ [][Next]_vars

(* Goroutines run and attempts come back: the HTTP client has a timeout. *)
FairSpec == Spec /\ WF_vars(Wait) /\ WF_vars(Tick) /\ \A w \in Text : WF_vars(Call(w))

-----------------------------------------------------------------------------
(* Properties.                                                             *)

(* Every variable has its type, and a message to edit is one in the chat. *)
TypeOK ==
    /\ now \in Nat
    /\ caller \in [Text -> Goroutine]
    /\ handle \in [settled : BOOLEAN, id : 0 .. Len(chat)]
    /\ chat \in Seq(Text)
    /\ late \in [Text -> Nat]
    /\ crashes \in Nat
    /\ \A w \in Text : caller[w].edits \in 0 .. Len(chat)

(* handleWait exceeds callTimeout, so that "a terminal notification that gave up
   waiting" cannot post before the start message: after the outcome is in the
   chat, "running" is posted only by a request that its client had given up on. *)
NoOvertaking ==
    [][\A i \in DOMAIN chat : chat[i] = "terminal" =>
          \/ chat' = chat
          \/ chat'[Len(chat')] = "terminal"
          \/ late["running"] > late'["running"]]_vars

(* Resolved "edits the started message in place": once the chat holds the id of
   the start message, a Resolved that was given the handle posts no second one. *)
EditsInPlace ==
    caller["terminal"].pc \in {"call", "backoff"} /\ caller["terminal"].edits = 0 =>
        \/ handle.id = 0
        \/ now > StaleAfter

(* A Resolved goroutine ends: it neither waits for a Started that died nor
   retries for ever. *)
ResolvedEnds == caller["terminal"].pc = "wait" ~> caller["terminal"].pc = "done"

-----------------------------------------------------------------------------
(* Why the properties hold.                                                *)

Sending(w) == caller[w].pc \in {"call", "backoff"}

\* The context of a call is never overrun, and a back-off is followed by an
\* attempt that the call still has.
ContextsHold ==
    \A w \in Text :
        /\ Sending(w) => caller[w].since <= now /\ Alive(w)
        /\ caller[w].pc = "backoff" => caller[w].attempt < MaxAttempts

\* The goroutine of Started starts early, posts and never edits, and settles the
\* handle when it ends, unless the process dies.
HandleSettles ==
    /\ caller["running"].pc # "wait" /\ caller["running"].edits = 0
    /\ Sending("running") =>
          ~handle.settled /\ crashes = 0 /\ caller["running"].since <= RequestTimeout
    /\ caller["running"].pc = "off" => ~handle.settled
    /\ caller["running"].pc = "done" /\ crashes = 0 => handle.settled
    /\ ~handle.settled => handle.id = 0

\* Resolved waits for a call that began before it: one that ends before the timer.
WaitsForCall ==
    caller["terminal"].pc = "wait" =>
        /\ crashes = 0 /\ caller["running"].pc # "off"
        /\ Sending("running") => caller["running"].since <= caller["terminal"].since
        /\ caller["terminal"].since <= now
        /\ now <= caller["terminal"].since + CallTimeout

\* No outcome is sent, is on its way or in the chat while Started sends; and one
\* that is edited in is in one place.
OutcomeComesLast ==
    /\ caller["terminal"].pc \in {"off", "wait"} =>
          late["terminal"] = 0 /\ \A i \in DOMAIN chat : chat[i] # "terminal"
    /\ caller["terminal"].pc \notin {"off", "wait"} => ~Sending("running")
    /\ Sending("terminal") /\ caller["terminal"].edits # 0 =>
          /\ late["terminal"] = 0
          /\ \A i \in DOMAIN chat : chat[i] = "terminal" => i = caller["terminal"].edits

(* The inductive invariant: the type, the contexts, and the order in which the
   handle is settled, waited for and used. *)
IndInv == TypeOK /\ ContextsHold /\ HandleSettles /\ WaitsForCall /\ OutcomeComesLast /\ EditsInPlace

(* notify.go: waiting longer than a call can take "removes the inversion by
   construction". *)
NoInversion ==
    \A i, j \in DOMAIN chat : i < j => ~(chat[i] = "terminal" /\ chat[j] = "running")
=============================================================================
