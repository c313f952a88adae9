--------------------------- MODULE NotifierProofs ---------------------------
(***************************************************************************)
(* What Notifier.tla guarantees for every value of the timeouts, checked by *)
(* TLAPS: the outcome of an operation is sent after its start message.      *)
(***************************************************************************)
EXTENDS Notifier, SequenceTheorems, TLAPS

-----------------------------------------------------------------------------
(* Goroutines and the chat.                                                *)

\* The states that the constructors of goroutines build.
LEMMA GoroutineFacts ==
    /\ Off \in Goroutine /\ Done \in Goroutine
    /\ \A t, id \in Nat :
          /\ [pc |-> "call", since |-> t, attempt |-> 1, edits |-> id] \in Goroutine
          /\ [pc |-> "wait", since |-> t, attempt |-> 0, edits |-> id] \in Goroutine
BY NotifierTimes DEF Goroutine, Off, Done

\* What a request does to the chat: it is one message longer, or one message of
\* it says something else.
LEMMA ArrivesFacts ==
    ASSUME TypeOK, NEW w \in Text
    PROVE  /\ Arrives(w) \in Seq(Text)
           /\ caller[w].edits = 0 =>
                 /\ Len(Arrives(w)) = Len(chat) + 1 /\ Arrives(w)[Len(chat) + 1] = w
                 /\ \A i \in 1 .. Len(chat) : Arrives(w)[i] = chat[i]
           /\ caller[w].edits # 0 =>
                 /\ Len(Arrives(w)) = Len(chat)
                 /\ \A i \in 1 .. Len(chat) :
                       Arrives(w)[i] = IF i = caller[w].edits THEN w ELSE chat[i]
<1>1. CASE caller[w].edits = 0
  <2>1. Arrives(w) = Append(chat, w)
    BY <1>1 DEF Arrives
  <2>2. chat \in Seq(Text)
    BY DEF TypeOK
  <2> QED
    BY <1>1, <2>1, <2>2, AppendProperties
<1>2. CASE caller[w].edits # 0
  <2>1. caller[w].edits \in 1 .. Len(chat)
    BY <1>2 DEF TypeOK
  <2>2. chat \in Seq(Text)
    BY DEF TypeOK
  <2>3. Arrives(w) = [chat EXCEPT ![caller[w].edits] = w]
    BY <1>2 DEF Arrives
  <2> QED
    BY <1>2, <2>1, <2>2, <2>3, ExceptSeq
<1> QED
  BY <1>1, <1>2

-----------------------------------------------------------------------------
(* What a step of a call does, whichever it is.                            *)

\* The call of w is over: for the goroutine of Started, with the id of a message.
Ends(w) == \E id \in 0 .. Len(chat') : Returns(w, id)

\* It goes on, with the same context and the same message to edit.
GoesOn(w) ==
    /\ \E d \in Goroutine :
          /\ d.pc \in {"call", "backoff"}
          /\ d.since = caller[w].since /\ d.edits = caller[w].edits
          /\ d.pc = "backoff" => d.attempt < MaxAttempts
          /\ caller' = [caller EXCEPT ![w] = d]
    /\ handle' = handle

\* One of its requests arrives, at most, or becomes one that nobody waits for.
Requests(w) ==
    /\ chat' = chat \/ chat' = Arrives(w)
    /\ \/ late' = late
       \/ caller[w].edits = 0 /\ late' = [late EXCEPT ![w] = @ + 1]
    /\ UNCHANGED <<now, crashes>>

CallEffect(w) == (Ends(w) \/ GoesOn(w)) /\ Requests(w)

\* A failed attempt is followed by a back-off, or it was the last one.
LEMMA RetriesFacts ==
    ASSUME TypeOK, NEW w \in Text, Retries(w), Len(chat') \in Nat
    PROVE  Ends(w) \/ GoesOn(w)
<1>1. CASE caller[w].attempt < MaxAttempts
  <2> DEFINE d == [caller[w] EXCEPT !.pc = "backoff"]
  <2>1. caller[w] \in Goroutine /\ caller \in [Text -> Goroutine]
    BY DEF TypeOK
  <2>2. d \in Goroutine /\ d.pc = "backoff" /\ d.since = caller[w].since
           /\ d.edits = caller[w].edits /\ d.attempt = caller[w].attempt
    BY <2>1 DEF Goroutine
  <2>3. caller' = [caller EXCEPT ![w] = d] /\ handle' = handle
    BY <1>1, <2>1 DEF Retries
  <2> HIDE DEF d
  <2> QED
    BY <1>1, <2>2, <2>3 DEF GoesOn
<1>2. CASE ~(caller[w].attempt < MaxAttempts)
  <2>1. Returns(w, 0)
    BY <1>2 DEF Retries
  <2> QED
    BY <2>1 DEF Ends
<1> QED
  BY <1>1, <1>2

\* The five steps of a call have that effect, and only a call takes them.
LEMMA CallStep ==
    ASSUME IndInv, NEW w \in Text, Call(w)
    PROVE  Sending(w) /\ CallEffect(w)
<1> USE DEF IndInv
<1>1. chat \in Seq(Text) /\ Len(chat) \in Nat /\ Arrives(w) \in Seq(Text) /\ Len(Arrives(w)) \in Nat
  BY ArrivesFacts, LenProperties DEF TypeOK
<1>2. CASE AttemptOK(w)
  <2>1. chat' = Arrives(w) /\ Returns(w, Len(chat'))
    BY <1>2 DEF AttemptOK
  <2>2. Ends(w)
    BY <1>1, <2>1 DEF Ends
  <2> QED
    BY <1>2, <2>1, <2>2 DEF AttemptOK, CallEffect, Requests, Sending
<1>3. CASE AttemptFails(w)
  <2>1. (chat' = chat \/ chat' = Arrives(w)) /\ Retries(w)
    BY <1>3 DEF AttemptFails
  <2>2. Ends(w) \/ GoesOn(w)
    BY <1>1, <2>1, RetriesFacts
  <2> QED
    BY <1>3, <2>1, <2>2 DEF AttemptFails, CallEffect, Requests, Sending
<1>4. CASE AttemptLingers(w)
  <2>1. chat' = chat /\ Retries(w)
    BY <1>4 DEF AttemptLingers
  <2>2. Ends(w) \/ GoesOn(w)
    BY <1>1, <2>1, RetriesFacts
  <2> QED
    BY <1>4, <2>1, <2>2 DEF AttemptLingers, CallEffect, Requests, Sending
<1>5. CASE AttemptRefused(w)
  <2>1. chat' = chat /\ Returns(w, 0)
    BY <1>5 DEF AttemptRefused
  <2>2. Ends(w)
    BY <1>1, <2>1 DEF Ends
  <2> QED
    BY <1>5, <2>1, <2>2 DEF AttemptRefused, CallEffect, Requests, Sending
<1>6. CASE Backoff(w)
  <2>1. Sending(w) /\ Requests(w) /\ chat' = chat
    BY <1>6 DEF Backoff, Requests, Sending
  <2>2. CASE Returns(w, 0)
    BY <1>1, <2>1, <2>2 DEF Ends, CallEffect
  <2>3. CASE ~Returns(w, 0)
    <3> DEFINE d == [caller[w] EXCEPT !.pc = "call", !.attempt = caller[w].attempt + 1]
    <3>1. caller[w] \in Goroutine /\ caller \in [Text -> Goroutine]
      BY DEF TypeOK
    <3>2. caller[w].attempt < MaxAttempts
      BY <1>6 DEF Backoff, ContextsHold
    <3>3. caller[w].attempt + 1 \in 0 .. MaxAttempts
      BY <3>1, <3>2, NotifierTimes DEF Goroutine
    <3>6. d \in Goroutine /\ d.pc = "call" /\ d.since = caller[w].since /\ d.edits = caller[w].edits
      BY <3>1, <3>3 DEF Goroutine
    <3>4. caller' = [caller EXCEPT ![w] = d] /\ handle' = handle
      BY <1>6, <2>3, <3>1 DEF Backoff
    <3> HIDE DEF d
    <3>5. GoesOn(w)
      BY <3>4, <3>6 DEF GoesOn
    <3> QED
      BY <2>1, <3>5 DEF CallEffect
  <2> QED
    BY <2>2, <2>3
<1> QED
  BY <1>2, <1>3, <1>4, <1>5, <1>6 DEF Call

-----------------------------------------------------------------------------
(* Every step keeps the invariant.                                         *)

\* A step of a call: while Started sends, no outcome is; and an outcome that is
\* edited in twice is in the same place.
LEMMA CallPreserves ==
    ASSUME IndInv, NEW w \in Text, Call(w)
    PROVE  IndInv'
<1> USE DEF IndInv
<1>1. Sending(w) /\ CallEffect(w)
  BY CallStep
<1>2. PICK d \in Goroutine :
        /\ caller' = [caller EXCEPT ![w] = d]
        /\ \/ /\ d = Done
              /\ \E id \in 0 .. Len(chat') :
                    handle' = IF w = "running" THEN [settled |-> TRUE, id |-> id] ELSE handle
           \/ /\ d.pc \in {"call", "backoff"}
              /\ d.since = caller[w].since /\ d.edits = caller[w].edits
              /\ d.pc = "backoff" => d.attempt < MaxAttempts
              /\ handle' = handle
  BY <1>1, GoroutineFacts DEF CallEffect, Ends, GoesOn, Returns
<1>3. caller' \in [Text -> Goroutine] /\ caller'[w] = d
        /\ \A v \in Text : v # w => caller'[v] = caller[v]
  BY <1>2 DEF TypeOK
<1>4. /\ now' = now /\ crashes' = crashes
      /\ chat' = chat \/ chat' = Arrives(w)
      /\ late' \in [Text -> Nat] /\ (\A v \in Text : v # w => late'[v] = late[v])
      /\ caller[w].edits # 0 => late' = late
  BY <1>1 DEF CallEffect, Requests, TypeOK
<1>5. /\ chat' \in Seq(Text) /\ Len(chat) \in Nat /\ Len(chat') \in Nat /\ Len(chat) <= Len(chat')
      /\ \A i \in 1 .. Len(chat') : (i \in 1 .. Len(chat) /\ chat'[i] = chat[i]) \/ chat'[i] = w
      /\ caller[w].edits # 0 => Len(chat') = Len(chat)
            /\ \A i \in 1 .. Len(chat) : chat'[i] = chat[i] \/ i = caller[w].edits
  <2>1. chat \in Seq(Text) /\ Len(chat) \in Nat /\ caller[w].edits \in 0 .. Len(chat)
    BY LenProperties DEF TypeOK
  <2>2. CASE chat' = chat
    BY <2>1, <2>2
  <2>3. CASE chat' = Arrives(w) /\ caller[w].edits = 0
    <3>1. chat' \in Seq(Text) /\ Len(chat') = Len(chat) + 1 /\ chat'[Len(chat) + 1] = w
             /\ \A i \in 1 .. Len(chat) : chat'[i] = chat[i]
      BY <2>3, ArrivesFacts
    <3>2. \A i \in 1 .. Len(chat') : i \in 1 .. Len(chat) \/ i = Len(chat) + 1
      BY <2>1, <3>1
    <3> QED
      BY <2>1, <2>3, <3>1, <3>2
  <2>4. CASE chat' = Arrives(w) /\ caller[w].edits # 0
    <3>1. chat' \in Seq(Text) /\ Len(chat') = Len(chat)
             /\ \A i \in 1 .. Len(chat) : chat'[i] = IF i = caller[w].edits THEN w ELSE chat[i]
      BY <2>4, ArrivesFacts
    <3> QED
      BY <2>1, <2>4, <3>1
  <2> QED
    BY <1>4, <2>2, <2>3, <2>4
<1>6. DOMAIN chat = 1 .. Len(chat) /\ DOMAIN chat' = 1 .. Len(chat')
  BY <1>5 DEF TypeOK
<1>7. d = Done => d.pc = "done" /\ d.edits = 0 /\ d.since = 0 /\ d.attempt = 0
  BY DEF Done
<1>8. handle' \in [settled : BOOLEAN, id : 0 .. Len(chat')]
  <2>1. handle \in [settled : BOOLEAN, id : 0 .. Len(chat')]
    BY <1>5 DEF TypeOK
  <2>2. \A id \in 0 .. Len(chat') :
          [settled |-> TRUE, id |-> id] \in [settled : BOOLEAN, id : 0 .. Len(chat')]
    OBVIOUS
  <2> QED
    BY <1>2, <2>1, <2>2
<1>9. \A v \in Text : caller'[v].edits \in 0 .. Len(chat')
  BY <1>2, <1>3, <1>5, <1>7 DEF TypeOK
<1>10. TypeOK'
  BY <1>3, <1>4, <1>5, <1>8, <1>9 DEF TypeOK
<1>11. ContextsHold'
  BY <1>1, <1>2, <1>3, <1>4, <1>7 DEF ContextsHold, Sending, Alive
<1>12. CASE w = "running"
  <2>1. caller'["terminal"] = caller["terminal"] /\ caller["terminal"].pc \in {"off", "wait"}
    BY <1>1, <1>3, <1>12 DEF OutcomeComesLast, Text, TypeOK, Goroutine
  <2>2. late'["terminal"] = late["terminal"] /\ caller'["running"] = d
    BY <1>3, <1>4, <1>12 DEF Text
  <2>3. caller["running"].edits = 0 /\ crashes = 0 /\ ~handle.settled
    BY <1>1, <1>12 DEF HandleSettles
  <2>4. HandleSettles'
    BY <1>1, <1>2, <1>4, <1>7, <1>12, <2>2 DEF HandleSettles, Sending
  <2>5. WaitsForCall'
    BY <1>1, <1>2, <1>4, <1>7, <1>12, <2>1, <2>2 DEF WaitsForCall, Sending
  <2>6. OutcomeComesLast'
    BY <1>5, <1>6, <1>12, <2>1, <2>2 DEF OutcomeComesLast, Sending
  <2>7. EditsInPlace'
    BY <2>1 DEF EditsInPlace
  <2> QED
    BY <1>10, <1>11, <2>4, <2>5, <2>6, <2>7
<1>13. CASE w = "terminal"
  <2>1. caller'["running"] = caller["running"] /\ ~Sending("running") /\ handle' = handle
    BY <1>1, <1>2, <1>3, <1>13 DEF OutcomeComesLast, Text, Sending
  <2>2. caller'["terminal"] = d
    BY <1>3, <1>13
  <2>3. HandleSettles'
    BY <1>4, <2>1 DEF HandleSettles, Sending
  <2>4. WaitsForCall'
    BY <1>2, <1>7, <2>2 DEF WaitsForCall
  <2>5. OutcomeComesLast'
    BY <1>1, <1>2, <1>4, <1>5, <1>6, <1>7, <1>13, <2>1, <2>2 DEF OutcomeComesLast, Sending
  <2>6. EditsInPlace'
    BY <1>1, <1>2, <1>4, <1>7, <1>13, <2>1, <2>2 DEF EditsInPlace, Sending
  <2> QED
    BY <1>10, <1>11, <2>3, <2>4, <2>5, <2>6
<1> QED
  BY <1>12, <1>13 DEF Text

\* Started: nothing has been sent yet.
LEMMA StartedPreserves ==
    ASSUME IndInv, Started
    PROVE  IndInv'
<1> USE DEF IndInv
<1> DEFINE d == Calls(0)
<1>1. caller' = [caller EXCEPT !["running"] = d] /\ UNCHANGED <<now, handle, chat, late, crashes>>
        /\ caller["running"].pc = "off" /\ caller["terminal"].pc = "off"
        /\ crashes = 0 /\ now <= RequestTimeout
  BY DEF Started
<1>2. d \in Goroutine /\ d.pc = "call" /\ d.since = now /\ d.edits = 0 /\ d.attempt = 1
  BY GoroutineFacts DEF Calls, TypeOK
<1> HIDE DEF d
<1>3. caller' \in [Text -> Goroutine] /\ caller'["running"] = d /\ caller'["terminal"] = caller["terminal"]
  BY <1>1, <1>2 DEF TypeOK, Text
<1>4. TypeOK'
  BY <1>1, <1>2, <1>3 DEF TypeOK, Text
<1>5. ContextsHold'
  BY <1>1, <1>2, <1>3, NotifierTimes DEF ContextsHold, Sending, Alive, Text, TypeOK
<1>6. HandleSettles'
  BY <1>1, <1>2, <1>3 DEF HandleSettles, Sending
<1>7. WaitsForCall' /\ OutcomeComesLast' /\ EditsInPlace'
  BY <1>1, <1>3 DEF WaitsForCall, OutcomeComesLast, EditsInPlace, Sending
<1> QED
  BY <1>4, <1>5, <1>6, <1>7

\* Resolved: with a handle it waits for a call that began before; without one it
\* finds nothing that is being sent, or is too late to find it.
LEMMA ResolvedPreserves ==
    ASSUME IndInv, Resolved
    PROVE  IndInv'
<1> USE DEF IndInv
<1>1. PICK d :
        /\ caller' = [caller EXCEPT !["terminal"] = d]
        /\ \/ /\ caller["running"].pc # "off" /\ crashes = 0
              /\ d = [pc |-> "wait", since |-> now, attempt |-> 0, edits |-> 0]
           \/ /\ (caller["running"].pc = "off" /\ crashes = 0) \/ now > StaleAfter
              /\ d = Calls(0)
  BY DEF Resolved
<1>2. d \in Goroutine /\ d.since = now /\ d.edits = 0 /\ d.pc \in {"wait", "call"}
  <2>1. now \in Nat /\ 0 \in Nat
    BY DEF TypeOK
  <2>2. [pc |-> "wait", since |-> now, attempt |-> 0, edits |-> 0] \in Goroutine
          /\ [pc |-> "call", since |-> now, attempt |-> 1, edits |-> 0] \in Goroutine
    BY <2>1, GoroutineFacts
  <2>3. Calls(0) = [pc |-> "call", since |-> now, attempt |-> 1, edits |-> 0]
    BY DEF Calls
  <2> QED
    BY <1>1, <2>2, <2>3
<1>3. caller' \in [Text -> Goroutine] /\ caller'["terminal"] = d /\ caller'["running"] = caller["running"]
  BY <1>1, <1>2 DEF TypeOK, Text
<1>4. UNCHANGED <<now, handle, chat, late, crashes>> /\ caller["terminal"].pc = "off"
  BY DEF Resolved
<1>5. TypeOK'
  BY <1>2, <1>3, <1>4 DEF TypeOK, Text
<1>6. ContextsHold'
  BY <1>2, <1>3, <1>4, NotifierTimes DEF ContextsHold, Sending, Alive, Text, TypeOK
<1>7. HandleSettles'
  BY <1>3, <1>4 DEF HandleSettles, Sending
<1>8. d.pc = "wait" => caller["running"].pc # "off" /\ crashes = 0
  BY <1>1 DEF Calls
<1>9. d.pc = "call" => (caller["running"].pc = "off" /\ crashes = 0) \/ now > StaleAfter
  BY <1>1
<1>10. caller["running"].since \in Nat /\ now \in Nat
  BY DEF TypeOK, Goroutine, Text
<1>11. WaitsForCall'
  BY <1>2, <1>3, <1>4, <1>8, <1>10, NotifierTimes DEF WaitsForCall, ContextsHold, Sending, Text
<1>12. now > StaleAfter => ~Sending("running")
  BY <1>10, NotifierTimes, WaitIsLonger DEF HandleSettles, ContextsHold, Alive, Text
<1>13. OutcomeComesLast'
  BY <1>2, <1>3, <1>4, <1>9, <1>12 DEF OutcomeComesLast, Sending
<1>14. EditsInPlace'
  BY <1>2, <1>3, <1>4, <1>9 DEF EditsInPlace, HandleSettles
<1> QED
  BY <1>5, <1>6, <1>7, <1>11, <1>13, <1>14

\* Message.wait returns because the handle is settled: its timer is longer than
\* the call that settles it.
LEMMA WaitIsSettled ==
    ASSUME IndInv, caller["terminal"].pc = "wait"
    PROVE  now < caller["terminal"].since + HandleWait
<1>1. now <= caller["terminal"].since + CallTimeout
  BY DEF IndInv, WaitsForCall
<1>2. now \in Nat /\ caller["terminal"].since \in Nat
  BY DEF IndInv, TypeOK, Goroutine, Text
<1> QED
  BY <1>1, <1>2, NotifierTimes, WaitIsLonger

LEMMA WaitPreserves ==
    ASSUME IndInv, Wait
    PROVE  IndInv'
<1> USE DEF IndInv
<1> DEFINE d == Calls(handle.id)
<1>1. caller["terminal"].pc = "wait" /\ UNCHANGED <<now, handle, chat, late, crashes>>
  BY DEF Wait
<1>2. caller["terminal"].since \in Nat /\ now \in Nat /\ Len(chat) \in Nat /\ handle.id \in 0 .. Len(chat)
  BY LenProperties DEF TypeOK, Goroutine, Text
<1>3. handle.settled /\ caller' = [caller EXCEPT !["terminal"] = d]
  BY <1>1, <1>2, WaitIsSettled, NotifierTimes DEF Wait
<1>4. d \in Goroutine /\ d.pc = "call" /\ d.since = now /\ d.edits = handle.id
  <2>1. handle.id \in Nat /\ now \in Nat
    BY <1>2
  <2>2. d = [pc |-> "call", since |-> now, attempt |-> 1, edits |-> handle.id]
    BY DEF Calls
  <2>3. [pc |-> "call", since |-> now, attempt |-> 1, edits |-> handle.id] \in Goroutine
    BY <2>1, GoroutineFacts
  <2> HIDE DEF d
  <2> QED
    BY <2>2, <2>3
<1> HIDE DEF d
<1>5. caller' \in [Text -> Goroutine] /\ caller'["terminal"] = d /\ caller'["running"] = caller["running"]
  BY <1>3, <1>4 DEF TypeOK, Text
<1>6. TypeOK'
  BY <1>1, <1>2, <1>4, <1>5 DEF TypeOK, Text
<1>7. ContextsHold'
  BY <1>1, <1>2, <1>4, <1>5, NotifierTimes DEF ContextsHold, Sending, Alive, Text
<1>8. HandleSettles' /\ WaitsForCall'
  BY <1>1, <1>4, <1>5 DEF HandleSettles, WaitsForCall, Sending
<1>9. OutcomeComesLast'
  BY <1>1, <1>3, <1>4, <1>5 DEF OutcomeComesLast, HandleSettles, Sending
<1>10. EditsInPlace'
  BY <1>1, <1>4, <1>5 DEF EditsInPlace
<1> QED
  BY <1>6, <1>7, <1>8, <1>9, <1>10

\* A late request lands: an outcome's only once outcomes are being posted.
LEMMA LandPreserves ==
    ASSUME IndInv, Land
    PROVE  IndInv'
<1> USE DEF IndInv
<1>1. PICK w \in Text : late[w] > 0 /\ late' = [late EXCEPT ![w] = @ - 1] /\ chat' = Append(chat, w)
  BY DEF Land
<1>2. UNCHANGED <<now, caller, handle, crashes>>
  BY DEF Land
<1>3. chat' \in Seq(Text) /\ Len(chat) \in Nat /\ Len(chat') = Len(chat) + 1 /\ chat'[Len(chat) + 1] = w
        /\ \A i \in 1 .. Len(chat) : chat'[i] = chat[i]
  BY <1>1, AppendProperties, LenProperties DEF TypeOK
<1>4. DOMAIN chat = 1 .. Len(chat) /\ \A i \in DOMAIN chat' : i \in DOMAIN chat \/ chat'[i] = w
  BY <1>3 DEF TypeOK
<1>5. late' \in [Text -> Nat] /\ \A v \in Text : v # w => late'[v] = late[v]
  BY <1>1 DEF TypeOK
<1>6. TypeOK'
  BY <1>2, <1>3, <1>5 DEF TypeOK
<1>7. ContextsHold' /\ HandleSettles' /\ WaitsForCall' /\ EditsInPlace'
  BY <1>2 DEF ContextsHold, HandleSettles, WaitsForCall, EditsInPlace, Sending, Alive
<1>8. w = "terminal" => caller["terminal"].pc \notin {"off", "wait"}
        /\ ~(Sending("terminal") /\ caller["terminal"].edits # 0)
  BY <1>1 DEF OutcomeComesLast
<1>9. w # "terminal" => late'["terminal"] = late["terminal"]
        /\ \A i \in DOMAIN chat' : chat'[i] = "terminal" => i \in DOMAIN chat /\ chat[i] = "terminal"
  BY <1>3, <1>4, <1>5 DEF Text
<1>10. OutcomeComesLast'
  BY <1>2, <1>8, <1>9 DEF OutcomeComesLast, Sending
<1> QED
  BY <1>6, <1>7, <1>10

\* The process dies: nobody sends or waits any more.
LEMMA CrashPreserves ==
    ASSUME IndInv, Crash
    PROVE  IndInv'
<1> USE DEF IndInv
<1>1. UNCHANGED <<now, handle, chat, late>> /\ crashes' = crashes + 1
        /\ caller' = [w \in Text |-> IF caller[w].pc = "off" THEN Off ELSE Done]
  BY DEF Crash
<1>2. caller' \in [Text -> Goroutine]
        /\ \A w \in Text : /\ caller'[w].pc = IF caller[w].pc = "off" THEN "off" ELSE "done"
                           /\ caller'[w].edits = 0
  BY <1>1, GoroutineFacts DEF Off, Done
<1>3. crashes' \in Nat /\ crashes' # 0
  BY <1>1 DEF TypeOK
<1>4. TypeOK'
  BY <1>1, <1>2, <1>3, LenProperties DEF TypeOK
<1>5. ContextsHold' /\ EditsInPlace' /\ WaitsForCall'
  BY <1>2 DEF ContextsHold, EditsInPlace, WaitsForCall, Sending, Text
<1>6. HandleSettles'
  BY <1>1, <1>2, <1>3 DEF HandleSettles, Sending, Text
<1>7. OutcomeComesLast'
  BY <1>1, <1>2 DEF OutcomeComesLast, Sending, Text
<1> QED
  BY <1>4, <1>5, <1>6, <1>7

\* Time passes: no context is overrun, and Resolved waits only while a call that
\* began before it has not ended.
LEMMA TickPreserves ==
    ASSUME IndInv, Tick
    PROVE  IndInv'
<1> USE DEF IndInv
<1>1. UNCHANGED <<caller, handle, chat, late, crashes>> /\ now' = now + 1 /\ now \in Nat
  BY DEF Tick, TypeOK
<1>2. \A w \in Text : Sending(w) => now < caller[w].since + CallTimeout
  BY DEF Tick, Sending
<1>3. \A w \in Text : caller[w].since \in Nat
  BY DEF TypeOK, Goroutine
<1>4. TypeOK'
  BY <1>1 DEF TypeOK
<1>5. ContextsHold'
  BY <1>1, <1>2, <1>3, NotifierTimes DEF ContextsHold, Sending, Alive
<1>6. HandleSettles' /\ OutcomeComesLast'
  BY <1>1 DEF HandleSettles, OutcomeComesLast, Sending
<1>7. WaitsForCall'
  <2>1. SUFFICES ASSUME caller["terminal"].pc = "wait"
                 PROVE  now + 1 <= caller["terminal"].since + CallTimeout
    BY <1>1, <1>3 DEF WaitsForCall, Sending, Text
  <2>2. ~handle.settled
    BY <2>1 DEF Tick
  <2>3. Sending("running")
    BY <2>1, <2>2 DEF WaitsForCall, HandleSettles, Sending, TypeOK, Goroutine, Text
  <2>4. caller["running"].since <= caller["terminal"].since
    BY <2>1, <2>3 DEF WaitsForCall
  <2> QED
    BY <1>1, <1>2, <1>3, <2>3, <2>4, NotifierTimes DEF Text
<1>8. EditsInPlace'
  BY <1>1, NotifierTimes DEF EditsInPlace
<1> QED
  BY <1>4, <1>5, <1>6, <1>7, <1>8

-----------------------------------------------------------------------------
(* The theorems.                                                           *)

LEMMA InitHolds == Init => IndInv
<1> SUFFICES ASSUME Init PROVE IndInv
  OBVIOUS
<1>1. chat = << >> /\ chat \in Seq(Text) /\ Len(chat) = 0 /\ DOMAIN chat = {}
  BY DEF Init
<1>2. caller \in [Text -> Goroutine] /\ \A w \in Text : caller[w].pc = "off" /\ caller[w].edits = 0
  BY GoroutineFacts DEF Init, Off
<1>3. TypeOK
  BY <1>1, <1>2, NotifierTimes DEF Init, TypeOK, NoHandle
<1>4. "running" \in Text /\ "terminal" \in Text
  BY DEF Text
<1> QED
  BY <1>1, <1>2, <1>3, <1>4 DEF Init, IndInv, ContextsHold, HandleSettles, WaitsForCall,
     OutcomeComesLast, EditsInPlace, Sending, NoHandle

LEMMA StepHolds ==
    ASSUME IndInv, [Next]_vars
    PROVE  IndInv'
<1>1. CASE UNCHANGED vars
  BY <1>1 DEF vars, IndInv, TypeOK, ContextsHold, HandleSettles, WaitsForCall,
     OutcomeComesLast, EditsInPlace, Sending, Alive
<1> QED
  BY <1>1, StartedPreserves, ResolvedPreserves, WaitPreserves, CallPreserves, LandPreserves,
     CrashPreserves, TickPreserves DEF Next

\* The inductive invariant of the notifier holds in every reachable state.
THEOREM IndInvHolds == Spec => []IndInv
BY InitHolds, StepHolds, PTL DEF Spec

\* Every variable keeps its type: no goroutine makes more attempts than
\* maxAttempts, and no message is edited that is not in the chat.
THEOREM TypeCorrect == Spec => []TypeOK
<1>1. IndInv => TypeOK
  BY DEF IndInv
<1> QED
  BY <1>1, IndInvHolds, PTL

\* Resolved edits the start message in place once it has an id.
THEOREM EditsHold == Spec => []EditsInPlace
<1>1. IndInv => EditsInPlace
  BY DEF IndInv
<1> QED
  BY <1>1, IndInvHolds, PTL

\* The timer of Message.wait never fires: handleWait outlasts the call that
\* settles the handle, which began before the wait.
THEOREM TimerNeverFires ==
    Spec => [](caller["terminal"].pc = "wait" => now < caller["terminal"].since + HandleWait)
<1>1. IndInv => (caller["terminal"].pc = "wait" => now < caller["terminal"].since + HandleWait)
  BY WaitIsSettled
<1> QED
  BY <1>1, IndInvHolds, PTL

\* After the outcome is in the chat, only a request that its client had given up
\* on can add the start message.
THEOREM OvertakingNever == Spec => NoOvertaking
<1> DEFINE A == \A i \in DOMAIN chat : chat[i] = "terminal" =>
                   \/ chat' = chat
                   \/ chat'[Len(chat')] = "terminal"
                   \/ late["running"] > late'["running"]
<1>1. ASSUME IndInv, [Next]_vars
      PROVE  [A]_vars
  <2> SUFFICES ASSUME NEW i \in DOMAIN chat, chat[i] = "terminal", chat' # chat
               PROVE  chat'[Len(chat')] = "terminal" \/ late["running"] > late'["running"]
    OBVIOUS
  <2>1. ~Sending("running")
    BY <1>1 DEF IndInv, OutcomeComesLast
  <2>2. TypeOK /\ chat \in Seq(Text)
    BY <1>1 DEF IndInv, TypeOK
  <2>3. (\E w \in Text : Call(w)) \/ Land
    BY <1>1 DEF Next, vars, Started, Resolved, Wait, Crash, Tick
  <2>4. CASE \E w \in Text : Call(w)
    <3>1. Sending("terminal") /\ chat' = Arrives("terminal")
      BY <1>1, <2>1, <2>4, CallStep DEF CallEffect, Requests, Text
    <3>2. CASE caller["terminal"].edits = 0
      BY <2>2, <3>1, <3>2, ArrivesFacts DEF Text
    <3>3. CASE caller["terminal"].edits # 0
      <4>1. i = caller["terminal"].edits /\ i \in 1 .. Len(chat)
        BY <1>1, <2>2, <3>1, <3>3 DEF IndInv, OutcomeComesLast
      <4>2. chat' \in Seq(Text) /\ Len(chat') = Len(chat)
              /\ \A k \in 1 .. Len(chat) : chat'[k] = chat[k]
        BY <2>2, <3>1, <3>3, <4>1, ArrivesFacts DEF Text
      <4>3. chat' = chat
        BY <2>2, <4>2, SeqEqual
      <4> QED
        BY <4>3
    <3> QED
      BY <3>2, <3>3
  <2>5. CASE Land
    <3>1. PICK w \in Text : late' = [late EXCEPT ![w] = @ - 1] /\ chat' = Append(chat, w)
      BY <2>5 DEF Land
    <3>2. Len(chat') = Len(chat) + 1 /\ chat'[Len(chat) + 1] = w
      BY <2>2, <3>1, AppendProperties
    <3>3. w = "running" => late["running"] > late'["running"]
      BY <2>2, <3>1 DEF TypeOK, Text
    <3> QED
      BY <3>2, <3>3 DEF Text
  <2> QED
    BY <2>3, <2>4, <2>5
<1> QED
  BY <1>1, IndInvHolds, PTL DEF Spec, NoOvertaking
=============================================================================
