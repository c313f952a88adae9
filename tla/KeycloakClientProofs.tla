------------------------ MODULE KeycloakClientProofs ------------------------
(***************************************************************************)
(* What KeycloakClient.tla guarantees for every set of goroutines and every *)
(* value of the timeouts, checked by TLAPS: the order of the locks, that a   *)
(* retry carries a new token, and that no token expires while it is used.   *)
(***************************************************************************)
EXTENDS KeycloakClient, SequenceTheorems, TLAPS

-----------------------------------------------------------------------------
(* The queue of a mutex.                                                   *)

\* The queue q becomes r by a step of p alone: p is in r if `in` says so, the
\* others keep their places, and whoever else held the mutex still does.
OnlyMoves(q, r, p, in) ==
    /\ r \in Seq(Proc) /\ Distinct(r)
    /\ InQueue(r, p) <=> in
    /\ \A x \in Proc \ {p} : (InQueue(r, x) <=> InQueue(q, x)) /\ (Holds(q, x) => Holds(r, x))

\* One who is in no queue has its place at the end.
LEMMA Enters ==
    ASSUME NEW q \in Seq(Proc), Distinct(q), NEW p \in Proc, ~InQueue(q, p)
    PROVE  OnlyMoves(q, Append(q, p), p, TRUE)
<1> DEFINE r == Append(q, p)
<1>1. r \in Seq(Proc) /\ Len(r) = Len(q) + 1 /\ r[Len(q) + 1] = p /\ r # << >>
        /\ \A i \in 1 .. Len(q) : r[i] = q[i]
  BY AppendProperties
<1>2. Len(q) \in Nat /\ DOMAIN q = 1 .. Len(q) /\ DOMAIN r = 1 .. Len(q) + 1
  BY <1>1, LenProperties
<1> HIDE DEF r
<1>3. \A i \in DOMAIN r : (i \in DOMAIN q /\ r[i] = q[i]) \/ (i = Len(q) + 1 /\ r[i] = p)
  BY <1>1, <1>2
<1>4. \A i \in DOMAIN q : i \in DOMAIN r /\ r[i] = q[i] /\ q[i] # p
  BY <1>1, <1>2 DEF InQueue
<1>5. Distinct(r)
  BY <1>3, <1>4 DEF Distinct
<1>6. InQueue(r, p)
  BY <1>1, <1>2 DEF InQueue
<1>7. ASSUME NEW x \in Proc \ {p}
      PROVE  InQueue(r, x) <=> InQueue(q, x)
  BY <1>3, <1>4 DEF InQueue
<1>8. ASSUME NEW x \in Proc \ {p}, Holds(q, x)
      PROVE  Holds(r, x)
  <2>1. q # << >> /\ Head(q) = x
    BY <1>8 DEF Holds
  <2>2. Len(q) # 0 /\ Head(q) = q[1] /\ Head(r) = r[1]
    BY <1>1, <2>1, HeadTailProperties, EmptySeq
  <2> QED
    BY <1>1, <1>2, <2>1, <2>2 DEF Holds
<1> QED
  BY <1>1, <1>5, <1>6, <1>7, <1>8 DEF OnlyMoves, r

\* The holder is the first, and leaves.
LEMMA Leaves ==
    ASSUME NEW q \in Seq(Proc), Distinct(q), NEW p \in Proc, Holds(q, p)
    PROVE  OnlyMoves(q, Tail(q), p, FALSE)
<1> DEFINE r == Tail(q)
<1>1. q # << >> /\ Head(q) = p
  BY DEF Holds
<1>2. r \in Seq(Proc) /\ Len(r) = Len(q) - 1 /\ q[1] = p /\ \A i \in 1 .. Len(r) : r[i] = q[i + 1]
  BY <1>1, HeadTailProperties
<1>3. Len(q) \in Nat /\ Len(r) \in Nat /\ DOMAIN q = 1 .. Len(q) /\ DOMAIN r = 1 .. Len(r)
  BY <1>2, LenProperties
<1> HIDE DEF r
<1>4. \A i \in DOMAIN r : i + 1 \in DOMAIN q /\ r[i] = q[i + 1] /\ i + 1 # 1
  BY <1>2, <1>3
<1>5. \A i \in DOMAIN q : i = 1 \/ (i - 1 \in DOMAIN r /\ r[i - 1] = q[i])
  BY <1>2, <1>3
<1>6. Distinct(r)
  <2>1. SUFFICES ASSUME NEW i \in DOMAIN r, NEW j \in DOMAIN r, r[i] = r[j]
                 PROVE  i = j
    BY DEF Distinct
  <2>2. q[i + 1] = q[j + 1] /\ i + 1 \in DOMAIN q /\ j + 1 \in DOMAIN q
    BY <1>4, <2>1
  <2>3. i + 1 = j + 1
    BY <2>2 DEF Distinct
  <2> QED
    BY <1>3, <2>3
<1>7. 1 \in DOMAIN q
  BY <1>1, <1>2, <1>3
<1>8. ~InQueue(r, p)
  <2>1. SUFFICES ASSUME NEW i \in DOMAIN r, r[i] = p
                 PROVE  FALSE
    BY DEF InQueue
  <2>2. q[i + 1] = q[1] /\ i + 1 \in DOMAIN q /\ i + 1 # 1
    BY <1>2, <1>4, <2>1
  <2> QED
    BY <1>7, <2>2 DEF Distinct
<1>9. ASSUME NEW x \in Proc \ {p}
      PROVE  (InQueue(r, x) <=> InQueue(q, x)) /\ ~Holds(q, x)
  BY <1>1, <1>2, <1>4, <1>5 DEF InQueue, Holds
<1> QED
  BY <1>2, <1>6, <1>8, <1>9 DEF OnlyMoves, r

\* The holder leaves and queues up again.
LEMMA Returns ==
    ASSUME NEW q \in Seq(Proc), Distinct(q), NEW p \in Proc, Holds(q, p)
    PROVE  OnlyMoves(q, Append(Tail(q), p), p, TRUE)
<1>1. OnlyMoves(q, Tail(q), p, FALSE)
  BY Leaves
<1>2. Tail(q) \in Seq(Proc) /\ Distinct(Tail(q)) /\ ~InQueue(Tail(q), p)
  BY <1>1 DEF OnlyMoves
<1>3. OnlyMoves(Tail(q), Append(Tail(q), p), p, TRUE)
  BY <1>2, Enters
<1> QED
  BY <1>1, <1>3 DEF OnlyMoves

\* Two moves of p are one.
LEMMA MovesTwice ==
    ASSUME NEW q, NEW r, NEW s, NEW p \in Proc, NEW in, NEW in2,
           OnlyMoves(q, r, p, in), OnlyMoves(r, s, p, in2)
    PROVE  OnlyMoves(q, s, p, in2)
BY DEF OnlyMoves

-----------------------------------------------------------------------------
(* What a step of one call does, whichever it is.                          *)

\* The call of p becomes c, and p is in the queues of the mutexes that c wants.
Becomes(p, c) ==
    /\ c \in Call /\ call' = [call EXCEPT ![p] = c]
    /\ OnlyMoves(mu, mu', p, WantsMu(c)) /\ OnlyMoves(uuidMu, uuidMu', p, WantsUUID(c))
    /\ c.pc = "token" => Holds(mu', p)
    /\ c.pc \notin Resting /\ c.inner => Holds(uuidMu', p)
    /\ now' = now

\* The token that is cached afterwards is the same, none, or a new one.
Renews ==
    /\ token' \in Cached /\ uuid' \in BOOLEAN
    /\ issued' \in Nat /\ issued <= issued' /\ token'.tok.n <= issued'
    /\ token'.tok = token.tok \/ token'.tok.n = 0 \/ token'.tok.n > issued
    /\ token'.tok.life > Skew => token'.expiresAt + Skew <= token'.tok.until + HTTPTimeout

\* What c knows of tokens is so.
Knows(c) ==
    /\ c.tok.n <= issued' /\ c.rejected <= issued'
    /\ c.pc \in {"mu"} \cup InFlight => token'.tok.n = 0 \/ token'.tok.n > c.rejected
    /\ c.pc \in InFlight => c.since = now
    /\ c.pc = "admin" =>
          /\ c.tok.n > c.rejected
          /\ c.tok.life > Skew => c.since + HTTPTimeout <= c.tok.until

\* Every step of that kind keeps the invariant.
LEMMA BecomesPreserves ==
    ASSUME IndInv, NEW p \in Proc, NEW c, Becomes(p, c), Renews, Knows(c)
    PROVE  IndInv'
<1> USE DEF IndInv
<1>1. c \in Call /\ call' \in [Proc -> Call] /\ call'[p] = c
        /\ \A x \in Proc : x # p => call'[x] = call[x]
  BY DEF Becomes, TypeOK
<1>2. mu' \in Seq(Proc) /\ uuidMu' \in Seq(Proc)
  BY DEF Becomes, OnlyMoves
<1>3. TypeOK'
  BY <1>1, <1>2 DEF TypeOK, Becomes, Renews
<1>4. LocksInOrder'
  <2>1. Distinct(mu') /\ Distinct(uuidMu')
    BY DEF Becomes, OnlyMoves
  <2>2. ASSUME NEW x \in Proc
        PROVE  /\ InQueue(mu', x) <=> WantsMu(call'[x])
               /\ InQueue(uuidMu', x) <=> WantsUUID(call'[x])
               /\ call'[x].pc = "token" => Holds(mu', x)
               /\ call'[x].pc \notin Resting /\ call'[x].inner => Holds(uuidMu', x)
    <3>1. CASE x = p
      BY <1>1, <3>1 DEF Becomes, OnlyMoves
    <3>2. CASE x # p
      BY <1>1, <2>2, <3>2 DEF Becomes, OnlyMoves, LocksInOrder
    <3> QED
      BY <3>1, <3>2
  <2> QED
    BY <2>1, <2>2 DEF LocksInOrder, Distinct, InQueue, WantsMu, WantsUUID, Holds
<1>5. issued \in Nat /\ issued' \in Nat /\ issued <= issued' /\ token.tok.n \in Nat /\ token'.tok.n \in Nat
  BY DEF TypeOK, Renews, Cached, AccessToken
<1>6. \A x \in Proc : call[x].tok.n \in Nat /\ call[x].rejected \in Nat
  BY DEF TypeOK, Call, AccessToken
<1>7. TokensInOrder'
  <2>1. ASSUME NEW x \in Proc
        PROVE  /\ call'[x].tok.n <= issued' /\ call'[x].rejected <= issued'
               /\ call'[x].pc \in {"mu"} \cup InFlight =>
                     token'.tok.n = 0 \/ token'.tok.n > call'[x].rejected
    <3>1. CASE x = p
      BY <1>1, <3>1 DEF Knows
    <3>2. CASE x # p
      BY <1>1, <1>5, <1>6, <2>1, <3>2 DEF Renews, TokensInOrder
    <3> QED
      BY <3>1, <3>2
  <2> QED
    BY <2>1 DEF TokensInOrder, Renews
<1>8. TokensLast'
  <2>1. ASSUME NEW x \in Proc
        PROVE  /\ call'[x].pc \in InFlight =>
                     call'[x].since <= now /\ now <= call'[x].since + HTTPTimeout
               /\ call'[x].pc = "admin" /\ call'[x].tok.life > Skew =>
                     call'[x].since + HTTPTimeout <= call'[x].tok.until
    <3>1. CASE x = p
      BY <1>1, <3>1, TimesAssumption DEF Knows, TypeOK
    <3>2. CASE x # p
      BY <1>1, <2>1, <3>2 DEF TokensLast
    <3> QED
      BY <3>1, <3>2
  <2>2. now' = now
    BY DEF Becomes
  <2> QED
    BY <2>1, <2>2 DEF TokensLast, Renews
<1>9. RetryCarriesNewToken'
  <2>1. ASSUME NEW x \in Proc, call'[x].pc = "admin"
        PROVE  call'[x].tok.n > call'[x].rejected
    BY <1>1, <2>1 DEF RetryCarriesNewToken, Knows
  <2> QED
    BY <2>1 DEF RetryCarriesNewToken
<1> QED
  BY <1>3, <1>4, <1>7, <1>8, <1>9

\* A step that does not concern the tokens.
LEMMA TokenUnchanged ==
    ASSUME IndInv, UNCHANGED <<token, issued>>, uuid' \in BOOLEAN
    PROVE  Renews
BY DEF IndInv, TypeOK, TokensInOrder, TokensLast, Renews

-----------------------------------------------------------------------------
(* Calls that end, and second attempts.                                    *)

LEMMA EndFacts ==
    ASSUME NEW pc \in Resting
    PROVE  /\ End(pc) \in Call /\ End(pc).pc = pc /\ End(pc).tok.n = 0
           /\ End(pc).rejected = 0 /\ ~End(pc).inner
<1>1. NoCall \in Call
  BY DEF NoCall, Call, NoToken, AccessToken, Resting, Kind
<1>2. NoCall.tok.n = 0 /\ NoCall.rejected = 0 /\ ~NoCall.inner
  BY DEF NoCall, NoToken
<1>3. ASSUME NEW r \in Call
      PROVE  /\ [r EXCEPT !.pc = pc] \in Call /\ [r EXCEPT !.pc = pc].pc = pc
             /\ [r EXCEPT !.pc = pc].tok = r.tok /\ [r EXCEPT !.pc = pc].rejected = r.rejected
             /\ [r EXCEPT !.pc = pc].inner = r.inner
  BY <1>3 DEF Call
<1> QED
  BY <1>1, <1>2, <1>3 DEF End

\* Whoever is past uuidMu leaves it, if it is in it at all.
LEMMA LeavesUUID ==
    ASSUME IndInv, NEW p \in Proc, call[p].pc # "uuidMu"
    PROVE  OnlyMoves(uuidMu, Leave(uuidMu, p), p, FALSE)
<1>1. uuidMu \in Seq(Proc) /\ Distinct(uuidMu)
  BY DEF IndInv, TypeOK, LocksInOrder
<1>2. CASE Holds(uuidMu, p)
  BY <1>1, <1>2, Leaves DEF Leave
<1>3. CASE ~Holds(uuidMu, p)
  <2>1. ~InQueue(uuidMu, p)
    BY <1>3 DEF IndInv, LocksInOrder, WantsUUID
  <2> QED
    BY <1>1, <1>3, <2>1 DEF Leave, OnlyMoves
<1> QED
  BY <1>2, <1>3

-----------------------------------------------------------------------------
(* The calls that the steps of `do` make of a call r.                      *)

LEMMA NoTokenFacts == NoToken \in AccessToken /\ NoToken.n = 0
BY DEF NoToken, AccessToken

LEMMA DoFacts ==
    ASSUME NEW p \in Proc, call[p] \in Call, NEW inner \in BOOLEAN
    PROVE  /\ Do(p, inner) \in Call /\ Do(p, inner).pc = "mu" /\ Do(p, inner).inner = inner
           /\ Do(p, inner).tok.n = 0 /\ Do(p, inner).rejected = 0
<1>1. 0 \in Nat /\ 0 \in 0 .. 1 /\ "mu" \in Resting \cup Waiting \cup InFlight
  BY DEF Waiting
<1>2. ASSUME NEW r \in Call
      PROVE LET d == [r EXCEPT !.pc = "mu", !.inner = inner, !.since = 0,
                                !.attempt = 0, !.tok = NoToken, !.rejected = 0]
            IN /\ d \in Call /\ d.pc = "mu" /\ d.inner = inner /\ d.tok.n = 0 /\ d.rejected = 0
  BY <1>1, <1>2, NoTokenFacts, Zenon DEF Call
<1> QED
  BY <1>2 DEF Do

-----------------------------------------------------------------------------
(* The moves that the steps make in the two queues.                        *)

LEMMA MuMoves ==
    ASSUME IndInv, NEW p \in Proc, NEW c,
           \/ mu' = mu /\ (WantsMu(c) <=> WantsMu(call[p]))
           \/ mu' = Append(mu, p) /\ WantsMu(c) /\ ~WantsMu(call[p])
           \/ mu' = Tail(mu) /\ ~WantsMu(c) /\ Holds(mu, p)
           \/ mu' = Append(Tail(mu), p) /\ WantsMu(c) /\ Holds(mu, p)
    PROVE  OnlyMoves(mu, mu', p, WantsMu(c))
<1>1. mu \in Seq(Proc) /\ Distinct(mu) /\ (InQueue(mu, p) <=> WantsMu(call[p]))
  BY DEF IndInv, TypeOK, LocksInOrder
<1>2. CASE mu' = mu /\ (WantsMu(c) <=> WantsMu(call[p]))
  BY <1>1, <1>2 DEF OnlyMoves
<1>3. CASE mu' = Append(mu, p) /\ WantsMu(c) /\ ~WantsMu(call[p])
  <2>1. OnlyMoves(mu, Append(mu, p), p, TRUE)
    BY <1>1, <1>3, Enters
  <2> QED
    BY <1>3, <2>1 DEF OnlyMoves
<1>4. CASE mu' = Tail(mu) /\ ~WantsMu(c) /\ Holds(mu, p)
  <2>1. OnlyMoves(mu, Tail(mu), p, FALSE)
    BY <1>1, <1>4, Leaves
  <2> QED
    BY <1>4, <2>1 DEF OnlyMoves
<1>5. CASE mu' = Append(Tail(mu), p) /\ WantsMu(c) /\ Holds(mu, p)
  <2>1. OnlyMoves(mu, Append(Tail(mu), p), p, TRUE)
    BY <1>1, <1>5, Returns
  <2> QED
    BY <1>5, <2>1 DEF OnlyMoves
<1> QED
  BY <1>2, <1>3, <1>4, <1>5

LEMMA UUIDMoves ==
    ASSUME IndInv, NEW p \in Proc, NEW c,
           \/ uuidMu' = uuidMu /\ (WantsUUID(c) <=> WantsUUID(call[p]))
           \/ uuidMu' = Append(uuidMu, p) /\ WantsUUID(c) /\ ~WantsUUID(call[p])
           \/ uuidMu' = Tail(uuidMu) /\ ~WantsUUID(c) /\ Holds(uuidMu, p)
    PROVE  OnlyMoves(uuidMu, uuidMu', p, WantsUUID(c))
<1>1. uuidMu \in Seq(Proc) /\ Distinct(uuidMu) /\ (InQueue(uuidMu, p) <=> WantsUUID(call[p]))
  BY DEF IndInv, TypeOK, LocksInOrder
<1>2. CASE uuidMu' = uuidMu /\ (WantsUUID(c) <=> WantsUUID(call[p]))
  BY <1>1, <1>2 DEF OnlyMoves
<1>3. CASE uuidMu' = Append(uuidMu, p) /\ WantsUUID(c) /\ ~WantsUUID(call[p])
  <2>1. OnlyMoves(uuidMu, Append(uuidMu, p), p, TRUE)
    BY <1>1, <1>3, Enters
  <2> QED
    BY <1>3, <2>1 DEF OnlyMoves
<1>4. CASE uuidMu' = Tail(uuidMu) /\ ~WantsUUID(c) /\ Holds(uuidMu, p)
  <2>1. OnlyMoves(uuidMu, Tail(uuidMu), p, FALSE)
    BY <1>1, <1>4, Leaves
  <2> QED
    BY <1>4, <2>1 DEF OnlyMoves
<1> QED
  BY <1>2, <1>3, <1>4

-----------------------------------------------------------------------------
(* Calls that end, or go on to their next request.                         *)

\* A call that rests wants no mutex and knows of no token.
LEMMA EndBecomes ==
    ASSUME IndInv, NEW p \in Proc, NEW pc \in Resting, Renews, now' = now,
           call' = [call EXCEPT ![p] = End(pc)],
           OnlyMoves(mu, mu', p, FALSE), OnlyMoves(uuidMu, uuidMu', p, FALSE)
    PROVE  Becomes(p, End(pc)) /\ Knows(End(pc))
<1> DEFINE c == End(pc)
<1>1. c \in Call /\ c.pc = pc /\ c.tok.n = 0 /\ c.rejected = 0 /\ ~c.inner
  BY EndFacts
<1>2. issued' \in Nat
  BY DEF Renews
<1>3. call' = [call EXCEPT ![p] = c]
  OBVIOUS
<1> HIDE DEF c
<1>4. ~WantsMu(c) /\ ~WantsUUID(c) /\ c.pc \in Resting /\ c.pc \notin {"mu"} \cup InFlight
  BY <1>1 DEF WantsMu, WantsUUID, Resting, InFlight
<1>5. OnlyMoves(mu, mu', p, WantsMu(c)) /\ OnlyMoves(uuidMu, uuidMu', p, WantsUUID(c))
  BY <1>4 DEF OnlyMoves
<1> QED
  BY <1>1, <1>2, <1>3, <1>4, <1>5 DEF Becomes, Knows, InFlight, Resting, c

\* An error, by one who has left mu.
LEMMA FailBecomes ==
    ASSUME IndInv, NEW p \in Proc, NEW q, call[p].pc # "uuidMu",
           OnlyMoves(mu, q, p, FALSE), Fail(p, q), now' = now, Renews
    PROVE  Becomes(p, End("failed")) /\ Knows(End("failed"))
<1>1. OnlyMoves(uuidMu, uuidMu', p, FALSE) /\ mu' = q /\ call' = [call EXCEPT ![p] = End("failed")]
  BY LeavesUUID DEF Fail
<1>2. "failed" \in Resting
  BY DEF Resting
<1> QED
  BY <1>1, <1>2, EndBecomes

\* The second attempt of one who has left mu, or an error.
LEMMA RetryBecomes ==
    ASSUME IndInv, NEW p \in Proc, NEW q, call[p].pc \in InFlight \cup {"invalidate"},
           OnlyMoves(mu, q, p, FALSE), Retry(p, q), now' = now, Renews,
           token'.tok.n = 0 \/ token'.tok.n > call[p].rejected
    PROVE  \E c : Becomes(p, c) /\ Knows(c)
<1>1. call[p].pc \notin Resting /\ call[p].pc # "uuidMu" /\ call[p] \in Call
  BY DEF InFlight, Resting, IndInv, TypeOK
<1>2. CASE Fail(p, q)
  BY <1>1, <1>2, FailBecomes
<1>3. CASE ~Fail(p, q)
  <2> DEFINE d == [call[p] EXCEPT !.pc = "mu", !.attempt = 1, !.since = 0, !.tok = NoToken]
  <2>1. call' = [call EXCEPT ![p] = d] /\ mu' = Append(q, p) /\ uuidMu' = uuidMu
    BY <1>3 DEF Retry
  <2>2. d \in Call /\ d.pc = "mu" /\ d.inner = call[p].inner /\ d.tok.n = 0
          /\ d.rejected = call[p].rejected
    <3>1. 0 \in Nat /\ 1 \in 0 .. 1 /\ "mu" \in Resting \cup Waiting \cup InFlight
      BY DEF Waiting
    <3> QED
      BY <1>1, <3>1, NoTokenFacts, Zenon DEF Call
  <2> HIDE DEF d
  <2>3. WantsMu(d) /\ (WantsUUID(d) <=> WantsUUID(call[p])) /\ d.pc \notin InFlight /\ d.pc \notin Resting
    BY <1>1, <2>2 DEF WantsMu, WantsUUID, Resting, InFlight
  <2>4. OnlyMoves(mu, mu', p, TRUE)
    <3>1. q \in Seq(Proc) /\ Distinct(q) /\ ~InQueue(q, p)
      BY DEF OnlyMoves
    <3>2. OnlyMoves(q, Append(q, p), p, TRUE)
      BY <3>1, Enters
    <3> QED
      BY <2>1, <3>2, MovesTwice
  <2>5. OnlyMoves(mu, mu', p, WantsMu(d))
    BY <2>3, <2>4 DEF OnlyMoves
  <2>6. OnlyMoves(uuidMu, uuidMu', p, WantsUUID(d))
    BY <2>1, <2>3, UUIDMoves
  <2>7. d.inner => Holds(uuidMu', p)
    BY <1>1, <2>1, <2>2 DEF IndInv, LocksInOrder
  <2>8. Becomes(p, d)
    BY <2>1, <2>2, <2>5, <2>6, <2>7 DEF Becomes
  <2>9. Knows(d)
    <3>1. call[p].rejected <= issued /\ call[p].rejected \in Nat /\ issued \in Nat
             /\ issued' \in Nat /\ issued <= issued'
      BY DEF IndInv, TokensInOrder, TypeOK, Call, Renews
    <3> QED
      BY <2>2, <2>3, <3>1 DEF Knows, InFlight
  <2> QED
    BY <2>8, <2>9
<1> QED
  BY <1>2, <1>3

\* With the UUID, Ready is done and the others make their own request.
LEMMA WithUUIDBecomes ==
    ASSUME IndInv, NEW p \in Proc, WithUUID(p), Holds(uuidMu, p), ~WantsMu(call[p]),
           now' = now, Renews
    PROVE  \E c : Becomes(p, c) /\ Knows(c)
<1>1. uuidMu' = Tail(uuidMu) /\ OnlyMoves(uuidMu, uuidMu', p, FALSE)
  BY Leaves DEF WithUUID, IndInv, TypeOK, LocksInOrder
<1>2. CASE call' = [call EXCEPT ![p] = End("done")] /\ mu' = mu
  <2>1. OnlyMoves(mu, mu', p, FALSE)
    BY <1>2 DEF OnlyMoves, IndInv, TypeOK, LocksInOrder
  <2>2. "done" \in Resting
    BY DEF Resting
  <2> QED
    BY <1>1, <1>2, <2>1, <2>2, EndBecomes
<1>3. CASE call' = [call EXCEPT ![p] = [Do(p, FALSE) EXCEPT !.kind = "request"]]
            /\ mu' = Append(mu, p)
  <2> DEFINE d == [Do(p, FALSE) EXCEPT !.kind = "request"]
  <2>1. d \in Call /\ d.pc = "mu" /\ d.inner = FALSE /\ d.tok.n = 0 /\ d.rejected = 0
    <3>1. Do(p, FALSE) \in Call /\ Do(p, FALSE).pc = "mu" /\ Do(p, FALSE).inner = FALSE
             /\ Do(p, FALSE).tok.n = 0 /\ Do(p, FALSE).rejected = 0
      BY DoFacts DEF IndInv, TypeOK
    <3>2. ASSUME NEW r \in Call
          PROVE LET e == [r EXCEPT !.kind = "request"]
                IN e \in Call /\ e.pc = r.pc /\ e.inner = r.inner /\ e.tok = r.tok
                     /\ e.rejected = r.rejected
      BY <3>2 DEF Call, Kind
    <3> QED
      BY <3>1, <3>2
  <2>2. call' = [call EXCEPT ![p] = d]
    BY <1>3
  <2> HIDE DEF d
  <2>3. WantsMu(d) /\ ~WantsUUID(d)
    BY <2>1 DEF WantsMu, WantsUUID
  <2>4. OnlyMoves(mu, mu', p, WantsMu(d))
    BY <1>3, <2>3, MuMoves
  <2>5. OnlyMoves(uuidMu, uuidMu', p, WantsUUID(d))
    BY <1>1, <2>3 DEF OnlyMoves
  <2>6. Becomes(p, d)
    BY <2>1, <2>2, <2>4, <2>5 DEF Becomes
  <2>7. Knows(d)
    BY <2>1 DEF Knows, InFlight, Renews, Cached, AccessToken
  <2> QED
    BY <2>6, <2>7
<1> QED
  BY <1>2, <1>3 DEF WithUUID

-----------------------------------------------------------------------------
(* Every step keeps the invariant.                                         *)

LEMMA BeginPreserves ==
    ASSUME IndInv, NEW p \in Proc, Begin(p)
    PROVE  IndInv'
<1>1. PICK k \in Kind :
        LET c == [NoCall EXCEPT !.kind = k, !.begun = now]
        IN \/ /\ call' = [call EXCEPT ![p] = [c EXCEPT !.pc = "mu"]]
              /\ mu' = Append(mu, p) /\ uuidMu' = uuidMu
           \/ /\ call' = [call EXCEPT ![p] = [c EXCEPT !.pc = "uuidMu"]]
              /\ uuidMu' = Append(uuidMu, p) /\ mu' = mu
  BY DEF Begin
<1>2. ASSUME NEW pc \in {"mu", "uuidMu"}
      PROVE  LET d == [[NoCall EXCEPT !.kind = k, !.begun = now] EXCEPT !.pc = pc]
             IN d \in Call /\ d.pc = pc /\ d.inner = FALSE /\ d.tok.n = 0 /\ d.rejected = 0
  <2>1. now \in Nat /\ pc \in Resting \cup Waiting \cup InFlight
    BY <1>2 DEF IndInv, TypeOK, Waiting
  <2>2. NoCall \in Call /\ NoCall.inner = FALSE /\ NoCall.tok.n = 0 /\ NoCall.rejected = 0
    BY NoTokenFacts DEF NoCall, Call, Resting, Kind
  <2>3. ASSUME NEW r \in Call
        PROVE  LET d == [[r EXCEPT !.kind = k, !.begun = now] EXCEPT !.pc = pc]
               IN d \in Call /\ d.pc = pc /\ d.inner = r.inner /\ d.tok = r.tok /\ d.rejected = r.rejected
    BY <2>1, <2>3, Zenon DEF Call
  <2> QED
    BY <2>2, <2>3
<1>3. PICK d \in Call :
        /\ call' = [call EXCEPT ![p] = d] /\ d.inner = FALSE /\ d.tok.n = 0 /\ d.rejected = 0
        /\ \/ d.pc = "mu" /\ mu' = Append(mu, p) /\ uuidMu' = uuidMu
           \/ d.pc = "uuidMu" /\ uuidMu' = Append(uuidMu, p) /\ mu' = mu
  BY <1>1, <1>2
<1>4. call[p].pc \in Resting /\ UNCHANGED <<now, token, uuid, issued>>
  BY DEF Begin
<1>5. ~WantsMu(call[p]) /\ ~WantsUUID(call[p])
  BY <1>4 DEF WantsMu, WantsUUID, Resting
<1>6. WantsMu(d) <=> d.pc = "mu"
  BY <1>3 DEF WantsMu
<1>7. WantsUUID(d) <=> d.pc = "uuidMu"
  BY <1>3 DEF WantsUUID
<1>8. OnlyMoves(mu, mu', p, WantsMu(d)) /\ OnlyMoves(uuidMu, uuidMu', p, WantsUUID(d))
  BY <1>3, <1>5, <1>6, <1>7, MuMoves, UUIDMoves
<1>9. Becomes(p, d)
  BY <1>3, <1>4, <1>8 DEF Becomes
<1>10. Renews
  BY <1>4, TokenUnchanged DEF IndInv, TypeOK
<1>11. token'.tok.n \in Nat /\ issued' \in Nat
  BY <1>4 DEF IndInv, TypeOK, Cached, AccessToken
<1>12. Knows(d)
  BY <1>3, <1>11 DEF Knows, InFlight
<1> QED
  BY <1>9, <1>10, <1>12, BecomesPreserves

LEMMA ResourceServerUUIDPreserves ==
    ASSUME IndInv, NEW p \in Proc, ResourceServerUUID(p)
    PROVE  IndInv'
<1>1. call[p].pc = "uuidMu" /\ Holds(uuidMu, p) /\ UNCHANGED <<now, token, uuid, issued>>
  BY DEF ResourceServerUUID
<1>2. ~WantsMu(call[p]) /\ WantsUUID(call[p])
  BY <1>1 DEF WantsMu, WantsUUID
<1>3. Renews
  BY <1>1, TokenUnchanged DEF IndInv, TypeOK
<1>4. CASE WithUUID(p)
  BY <1>1, <1>2, <1>3, <1>4, WithUUIDBecomes, BecomesPreserves
<1>5. CASE call' = [call EXCEPT ![p] = Do(p, TRUE)] /\ mu' = Append(mu, p) /\ uuidMu' = uuidMu
  <2> DEFINE d == Do(p, TRUE)
  <2>1. d \in Call /\ d.pc = "mu" /\ d.inner = TRUE /\ d.tok.n = 0 /\ d.rejected = 0
    BY DoFacts DEF IndInv, TypeOK
  <2>2. call' = [call EXCEPT ![p] = d]
    BY <1>5
  <2> HIDE DEF d
  <2>3. WantsMu(d) /\ WantsUUID(d)
    BY <2>1 DEF WantsMu, WantsUUID, Resting
  <2>4. OnlyMoves(mu, mu', p, WantsMu(d)) /\ OnlyMoves(uuidMu, uuidMu', p, WantsUUID(d))
    BY <1>2, <1>5, <2>3, MuMoves, UUIDMoves
  <2>5. Becomes(p, d)
    BY <1>1, <1>5, <2>1, <2>2, <2>4 DEF Becomes
  <2>6. Knows(d)
    BY <1>3, <2>1 DEF Knows, InFlight, Renews, Cached, AccessToken
  <2> QED
    BY <1>3, <2>5, <2>6, BecomesPreserves
<1> QED
  BY <1>4, <1>5 DEF ResourceServerUUID

\* A request goes out with token t: it is newer than the one rejected before, and
\* lasts as long as the request may take.
LEMMA SendPreserves ==
    ASSUME IndInv, NEW p \in Proc, NEW t \in AccessToken, Send(p, t), Renews,
           call[p].pc \in {"mu", "token"}, Holds(mu, p), mu' = Tail(mu), uuidMu' = uuidMu, now' = now,
           t.n <= issued', t.n > call[p].rejected,
           token'.tok.n = 0 \/ token'.tok.n > call[p].rejected,
           t.life > Skew => now + HTTPTimeout <= t.until
    PROVE  IndInv'
<1> DEFINE d == [call[p] EXCEPT !.pc = "admin", !.since = now, !.tok = t]
<1>1. call[p] \in Call /\ now \in Nat /\ issued \in Nat
  BY DEF IndInv, TypeOK
<1>2. d \in Call /\ d.pc = "admin" /\ d.since = now /\ d.tok = t
        /\ d.rejected = call[p].rejected /\ d.inner = call[p].inner
  <2>1. "admin" \in Resting \cup Waiting \cup InFlight
    BY DEF InFlight
  <2> QED
    BY <1>1, <2>1, Zenon DEF Call
<1>3. call' = [call EXCEPT ![p] = d]
  BY DEF Send
<1> HIDE DEF d
<1>4. ~WantsMu(d) /\ (WantsUUID(d) <=> WantsUUID(call[p])) /\ d.pc \in InFlight /\ d.pc \notin Resting
        /\ call[p].pc \notin Resting
  BY <1>2 DEF WantsMu, WantsUUID, Resting, InFlight
<1>5. OnlyMoves(mu, mu', p, WantsMu(d)) /\ OnlyMoves(uuidMu, uuidMu', p, WantsUUID(d))
  BY <1>4, MuMoves, UUIDMoves
<1>6. d.inner => Holds(uuidMu', p)
  BY <1>2, <1>4 DEF IndInv, LocksInOrder
<1>7. Becomes(p, d)
  BY <1>2, <1>3, <1>5, <1>6 DEF Becomes
<1>8. call[p].rejected <= issued /\ call[p].rejected \in Nat /\ issued' \in Nat /\ issued <= issued'
  BY <1>1 DEF IndInv, TokensInOrder, Call, Renews
<1>9. Knows(d)
  BY <1>1, <1>2, <1>8 DEF Knows
<1> QED
  BY <1>7, <1>9, BecomesPreserves

\* The cached token is used, or a new one asked for under the mutex.
LEMMA TokenPreserves ==
    ASSUME IndInv, NEW p \in Proc, Token(p)
    PROVE  IndInv'
<1>1. call[p].pc = "mu" /\ Holds(mu, p) /\ UNCHANGED <<now, token, uuidMu, uuid, issued>>
  BY DEF Token
<1>2. Renews
  BY <1>1, TokenUnchanged DEF IndInv, TypeOK
<1>3. /\ now \in Nat /\ issued \in Nat /\ token.tok \in AccessToken /\ token.expiresAt \in Nat
      /\ token.tok.n \in Nat /\ token.tok.life \in Nat /\ token.tok.until \in Nat
  BY DEF IndInv, TypeOK, Cached, AccessToken
<1>4. token.tok.n <= issued /\ (token.tok.n = 0 \/ token.tok.n > call[p].rejected)
  BY <1>1 DEF IndInv, TokensInOrder
<1>5. CASE token.tok.n # 0 /\ now < token.expiresAt /\ Send(p, token.tok) /\ mu' = Tail(mu)
  <2>1. token.tok.life > Skew => now + HTTPTimeout <= token.tok.until
    <3>1. token.tok.life > Skew => token.expiresAt + Skew <= token.tok.until + HTTPTimeout
      BY DEF IndInv, TokensLast
    <3>2. {HTTPTimeout, Skew} \subseteq Nat /\ 2 * HTTPTimeout <= Skew
      BY SkewAssumption, TimesAssumption
    <3>3. now < token.expiresAt
      BY <1>5
    <3>4. now \in Nat /\ token.expiresAt \in Nat /\ token.tok.until \in Nat
      BY <1>3
    <3> QED
      BY <3>1, <3>2, <3>3, <3>4
  <2> QED
    BY <1>1, <1>2, <1>3, <1>4, <1>5, <2>1, SendPreserves
<1>6. CASE call' = [call EXCEPT ![p] = [call[p] EXCEPT !.pc = "token", !.since = now]] /\ mu' = mu
  <2> DEFINE d == [call[p] EXCEPT !.pc = "token", !.since = now]
  <2>1. call[p] \in Call
    BY DEF IndInv, TypeOK
  <2>2. d \in Call /\ d.pc = "token" /\ d.since = now /\ d.tok = call[p].tok
          /\ d.rejected = call[p].rejected /\ d.inner = call[p].inner
    BY <1>3, <2>1 DEF Call, InFlight
  <2>3. call' = [call EXCEPT ![p] = d]
    BY <1>6
  <2> HIDE DEF d
  <2>4. WantsMu(d) /\ WantsMu(call[p]) /\ (WantsUUID(d) <=> WantsUUID(call[p]))
          /\ d.pc \in InFlight /\ call[p].pc \notin Resting
    BY <1>1, <2>2 DEF WantsMu, WantsUUID, Resting, InFlight
  <2>5. OnlyMoves(mu, mu', p, WantsMu(d)) /\ OnlyMoves(uuidMu, uuidMu', p, WantsUUID(d))
    BY <1>1, <1>6, <2>4, MuMoves, UUIDMoves
  <2>6. d.inner => Holds(uuidMu', p)
    BY <1>1, <2>2, <2>4 DEF IndInv, LocksInOrder
  <2>7. Becomes(p, d)
    BY <1>1, <1>6, <2>2, <2>3, <2>5, <2>6 DEF Becomes
  <2>8. Knows(d)
    BY <1>1, <1>4, <2>2 DEF Knows, IndInv, TokensInOrder
  <2> QED
    BY <1>2, <2>7, <2>8, BecomesPreserves
<1> QED
  BY <1>5, <1>6 DEF Token

\* A new token: no other call has been told of it, and its lifetime is counted
\* from at most HTTPTimeout after it was issued.
LEMMA TokenAnswerPreserves ==
    ASSUME IndInv, NEW p \in Proc, TokenAnswer(p)
    PROVE  IndInv'
<1>1. call[p].pc = "token" /\ InTime(p) /\ issued' = issued + 1 /\ mu' = Tail(mu)
        /\ UNCHANGED <<now, uuidMu, uuid>>
  BY DEF TokenAnswer
<1>2. PICK life \in Lifetime, at \in call[p].since .. now :
        /\ token' = [tok |-> [n |-> issued + 1, life |-> life, until |-> at + life],
                     expiresAt |-> now + Keep(life)]
        /\ Send(p, [n |-> issued + 1, life |-> life, until |-> at + life])
  BY DEF TokenAnswer
<1> DEFINE t == [n |-> issued + 1, life |-> life, until |-> at + life]
<1>3. now \in Nat /\ issued \in Nat /\ call[p].since \in Nat /\ call[p].rejected \in Nat
        /\ call[p].rejected <= issued
  BY DEF IndInv, TypeOK, Call, TokensInOrder
<1>4. life \in Nat /\ at \in Nat /\ at <= now /\ call[p].since <= at
  BY <1>2, <1>3, TimesAssumption
<1>5. now <= call[p].since + HTTPTimeout
  BY <1>1 DEF IndInv, TokensLast, InFlight
<1>6. Keep(life) \in Nat /\ (life > Skew => Keep(life) = life - Skew)
  BY <1>4, TimesAssumption DEF Keep
<1>7. t \in AccessToken /\ t.n = issued + 1 /\ t.life = life /\ t.until = at + life
  BY <1>3, <1>4 DEF AccessToken
<1>8. token'.tok = t /\ token'.expiresAt = now + Keep(life) /\ Send(p, t)
  BY <1>2
<1>9. token' \in Cached
  BY <1>2, <1>3, <1>4, <1>6 DEF Cached, AccessToken
<1> HIDE DEF t
<1>10. life > Skew => now + HTTPTimeout <= at + life
  BY <1>3, <1>4, <1>5, SkewAssumption, TimesAssumption
<1>11. life > Skew => now + Keep(life) + Skew <= at + life + HTTPTimeout
  BY <1>3, <1>4, <1>5, <1>6, TimesAssumption
<1>12. Renews
  BY <1>1, <1>3, <1>7, <1>8, <1>9, <1>11 DEF Renews, IndInv, TypeOK
<1>13. Holds(mu, p)
  BY <1>1 DEF IndInv, LocksInOrder
<1> QED
  BY <1>1, <1>3, <1>7, <1>8, <1>10, <1>12, <1>13, SendPreserves

\* The token's holder leaves the mutex on its way to the second attempt too.
LEMMA TokenFailsPreserves ==
    ASSUME IndInv, NEW p \in Proc, TokenFails(p)
    PROVE  IndInv'
<1>1. call[p].pc = "token" /\ Retry(p, Tail(mu)) /\ UNCHANGED <<now, token, uuid, issued>>
  BY DEF TokenFails
<1>2. Renews
  BY <1>1, TokenUnchanged DEF IndInv, TypeOK
<1>3. Holds(mu, p) /\ mu \in Seq(Proc) /\ Distinct(mu)
  BY <1>1 DEF IndInv, LocksInOrder, TypeOK
<1>4. OnlyMoves(mu, Tail(mu), p, FALSE)
  BY <1>3, Leaves
<1>5. token'.tok.n = 0 \/ token'.tok.n > call[p].rejected
  BY <1>1 DEF IndInv, TokensInOrder, InFlight
<1>6. call[p].pc \in InFlight \cup {"invalidate"}
  BY <1>1 DEF InFlight
<1> QED
  BY <1>1, <1>2, <1>4, <1>5, <1>6, RetryBecomes, BecomesPreserves

\* One whose admin request is in flight is not in the queue of mu.
LEMMA AdminHasLeft ==
    ASSUME IndInv, NEW p \in Proc, call[p].pc = "admin"
    PROVE  OnlyMoves(mu, mu, p, FALSE) /\ ~WantsMu(call[p])
<1>1. ~WantsMu(call[p])
  BY DEF WantsMu
<1> QED
  BY <1>1 DEF OnlyMoves, IndInv, TypeOK, LocksInOrder

LEMMA SuccessPreserves ==
    ASSUME IndInv, NEW p \in Proc, Success(p)
    PROVE  IndInv'
<1>1. call[p].pc = "admin" /\ UNCHANGED <<now, token, issued>>
  BY DEF Success
<1>2. uuid' \in BOOLEAN
  BY DEF Success, IndInv, TypeOK
<1>3. Renews
  BY <1>1, <1>2, TokenUnchanged
<1>4. OnlyMoves(mu, mu, p, FALSE) /\ ~WantsMu(call[p])
  BY <1>1, AdminHasLeft
<1>5. call[p].pc \notin Resting /\ call[p].pc # "uuidMu"
  BY <1>1 DEF Resting
<1>6. CASE call[p].inner /\ WithUUID(p)
  <2>1. Holds(uuidMu, p)
    BY <1>5, <1>6 DEF IndInv, LocksInOrder
  <2> QED
    BY <1>1, <1>3, <1>4, <1>6, <2>1, WithUUIDBecomes, BecomesPreserves
<1>7. CASE ~call[p].inner /\ call' = [call EXCEPT ![p] = End("done")] /\ UNCHANGED <<mu, uuidMu>>
  <2>1. OnlyMoves(uuidMu, uuidMu', p, FALSE)
    BY <1>5, <1>7 DEF OnlyMoves, IndInv, TypeOK, LocksInOrder, WantsUUID
  <2>2. "done" \in Resting
    BY DEF Resting
  <2>3. OnlyMoves(mu, mu', p, FALSE)
    BY <1>4, <1>7
  <2> QED
    BY <1>1, <1>3, <1>7, <2>1, <2>2, <2>3, EndBecomes, BecomesPreserves
<1>8. CASE Fail(p, mu)
  BY <1>1, <1>3, <1>4, <1>5, <1>8, FailBecomes, BecomesPreserves
<1> QED
  BY <1>6, <1>7, <1>8 DEF Success

\* The rejected token is one that Keycloak issued.
LEMMA UnauthorizedPreserves ==
    ASSUME IndInv, NEW p \in Proc, Unauthorized(p)
    PROVE  IndInv'
<1> DEFINE d == [call[p] EXCEPT !.pc = "invalidate", !.since = 0,
                                !.tok = NoToken, !.rejected = call[p].tok.n]
<1>1. call[p].pc = "admin" /\ call' = [call EXCEPT ![p] = d] /\ mu' = Append(mu, p)
        /\ UNCHANGED <<now, token, uuidMu, uuid, issued>>
  BY DEF Unauthorized
<1>2. call[p] \in Call /\ call[p].tok.n \in Nat /\ call[p].tok.n <= issued /\ issued \in Nat
  BY DEF IndInv, TypeOK, Call, AccessToken, TokensInOrder
<1>3. d \in Call /\ d.pc = "invalidate" /\ d.tok.n = 0 /\ d.rejected = call[p].tok.n
        /\ d.inner = call[p].inner
  <2>1. 0 \in Nat /\ "invalidate" \in Resting \cup Waiting \cup InFlight
    BY DEF Waiting
  <2> QED
    BY <1>2, <2>1, NoTokenFacts, Zenon DEF Call
<1> HIDE DEF d
<1>4. WantsMu(d) /\ (WantsUUID(d) <=> WantsUUID(call[p])) /\ d.pc \notin {"mu"} \cup InFlight
        /\ call[p].pc \notin Resting
  BY <1>1, <1>3 DEF WantsMu, WantsUUID, Resting, InFlight
<1>5. ~WantsMu(call[p])
  BY <1>1, AdminHasLeft
<1>6. OnlyMoves(mu, mu', p, WantsMu(d)) /\ OnlyMoves(uuidMu, uuidMu', p, WantsUUID(d))
  BY <1>1, <1>4, <1>5, MuMoves, UUIDMoves
<1>7. d.inner => Holds(uuidMu', p)
  BY <1>1, <1>3, <1>4 DEF IndInv, LocksInOrder
<1>8. Becomes(p, d)
  BY <1>1, <1>3, <1>6, <1>7 DEF Becomes
<1>9. Renews
  BY <1>1, TokenUnchanged DEF IndInv, TypeOK
<1>10. Knows(d)
  BY <1>1, <1>2, <1>3, <1>4 DEF Knows, InFlight
<1> QED
  BY <1>8, <1>9, <1>10, BecomesPreserves

\* No token is cached any more, so the retry finds a later one or asks for it.
LEMMA InvalidatePreserves ==
    ASSUME IndInv, NEW p \in Proc, Invalidate(p)
    PROVE  IndInv'
<1>1. call[p].pc = "invalidate" /\ Holds(mu, p) /\ token' = NotCached /\ Retry(p, Tail(mu))
        /\ UNCHANGED <<now, uuid, issued>>
  BY DEF Invalidate
<1>2. NotCached \in Cached /\ NotCached.tok.n = 0 /\ NotCached.tok.life = 0
  BY DEF NotCached, Cached, NoToken, AccessToken
<1>3. Renews
  BY <1>1, <1>2, TimesAssumption DEF Renews, IndInv, TypeOK
<1>4. OnlyMoves(mu, Tail(mu), p, FALSE)
  BY <1>1, Leaves DEF IndInv, TypeOK, LocksInOrder
<1>5. call[p].pc \in InFlight \cup {"invalidate"} /\ token'.tok.n = 0
  BY <1>1, <1>2
<1> QED
  BY <1>1, <1>3, <1>4, <1>5, RetryBecomes, BecomesPreserves

LEMMA RequestFailsPreserves ==
    ASSUME IndInv, NEW p \in Proc, RequestFails(p)
    PROVE  IndInv'
<1>1. call[p].pc = "admin" /\ (Retry(p, mu) \/ Fail(p, mu)) /\ UNCHANGED <<now, token, uuid, issued>>
  BY DEF RequestFails
<1>2. Renews
  BY <1>1, TokenUnchanged DEF IndInv, TypeOK
<1>3. OnlyMoves(mu, mu, p, FALSE) /\ call[p].pc # "uuidMu"
  BY <1>1, AdminHasLeft
<1>4. call[p].pc \in InFlight \cup {"invalidate"}
  BY <1>1 DEF InFlight
<1>5. token'.tok.n = 0 \/ token'.tok.n > call[p].rejected
  BY <1>1 DEF IndInv, TokensInOrder, InFlight
<1> QED
  BY <1>1, <1>2, <1>3, <1>4, <1>5, RetryBecomes, FailBecomes, BecomesPreserves

\* Time passes only while every request is within its limit.
LEMMA TickPreserves ==
    ASSUME IndInv, Tick
    PROVE  IndInv'
<1>1. UNCHANGED <<mu, token, uuidMu, uuid, call, issued>> /\ now' = now + 1 /\ now \in Nat
  BY DEF Tick, IndInv, TypeOK
<1>2. TypeOK' /\ LocksInOrder' /\ TokensInOrder' /\ RetryCarriesNewToken'
  BY <1>1 DEF IndInv, TypeOK, LocksInOrder, TokensInOrder, RetryCarriesNewToken,
     Distinct, InQueue, Holds, WantsMu, WantsUUID
<1>3. TokensLast'
  <2>1. ASSUME NEW p \in Proc, call[p].pc \in InFlight
        PROVE  now + 1 <= call[p].since + HTTPTimeout /\ call[p].since <= now + 1
    <3>1. now < Limit(p)
      BY <2>1 DEF Tick
    <3>2. call[p].since \in Nat /\ call[p].begun \in Nat /\ call[p].since <= now
      BY <2>1 DEF IndInv, TypeOK, Call, TokensLast
    <3>3. Deadline(p) \in Nat
      BY <3>2, TimesAssumption DEF Deadline
    <3>4. Limit(p) <= call[p].since + HTTPTimeout /\ Limit(p) \in Nat
      BY <3>2, <3>3, TimesAssumption DEF Limit
    <3> QED
      BY <1>1, <3>1, <3>2, <3>4, TimesAssumption
  <2> QED
    BY <1>1, <2>1 DEF IndInv, TokensLast
<1> QED
  BY <1>2, <1>3 DEF IndInv

-----------------------------------------------------------------------------
(* The theorems.                                                           *)

LEMMA InitHolds == Init => IndInv
<1> SUFFICES ASSUME Init PROVE IndInv
  OBVIOUS
<1>1. NoCall \in Call /\ NoCall.pc = "idle" /\ NoCall.inner = FALSE /\ NoCall.tok.n = 0
        /\ NoCall.rejected = 0
  BY NoTokenFacts DEF NoCall, Call, Resting, Kind
<1>2. \A p \in Proc : call[p] = NoCall
  BY DEF Init
<1>3. NotCached \in Cached /\ NotCached.tok.n = 0 /\ NotCached.tok.life = 0
  BY DEF NotCached, Cached, NoToken, AccessToken
<1>4. TypeOK
  <2>1. call \in [Proc -> Call] /\ mu \in Seq(Proc) /\ uuidMu \in Seq(Proc)
    BY <1>1 DEF Init
  <2> QED
    BY <1>3, <2>1 DEF Init, TypeOK
<1>5. LocksInOrder
  BY <1>1, <1>2 DEF Init, LocksInOrder, Distinct, InQueue, WantsMu, WantsUUID, Resting
<1>6. TokensInOrder
  BY <1>1, <1>2, <1>3 DEF Init, TokensInOrder
<1>7. TokensLast
  BY <1>1, <1>2, <1>3, TimesAssumption DEF Init, TokensLast, InFlight
<1>8. RetryCarriesNewToken
  BY <1>1, <1>2 DEF RetryCarriesNewToken
<1> QED
  BY <1>4, <1>5, <1>6, <1>7, <1>8 DEF IndInv

LEMMA StepHolds ==
    ASSUME IndInv, [Next]_vars
    PROVE  IndInv'
<1>1. CASE UNCHANGED vars
  BY <1>1 DEF vars, IndInv, TypeOK, LocksInOrder, TokensInOrder, TokensLast, RetryCarriesNewToken,
     Distinct, InQueue, Holds, WantsMu, WantsUUID
<1> QED
  BY <1>1, BeginPreserves, ResourceServerUUIDPreserves, TokenPreserves, TokenAnswerPreserves,
     TokenFailsPreserves, SuccessPreserves, UnauthorizedPreserves, InvalidatePreserves,
     RequestFailsPreserves, TickPreserves DEF Next, Step

\* The inductive invariant holds in every reachable state, whatever the number of
\* goroutines and the times.
THEOREM IndInvHolds == Spec => []IndInv
BY InitHolds, StepHolds, PTL DEF Spec

\* Every variable keeps its type.
THEOREM TypeCorrect == Spec => []TypeOK
<1>1. IndInv => TypeOK
  BY DEF IndInv
<1> QED
  BY <1>1, IndInvHolds, PTL

\* Each of the two mutexes is held or waited for by exactly the calls that want
\* it, also after an error: none is leaked, and none is unlocked twice.
THEOREM LocksHold == Spec => []LocksInOrder
<1>1. IndInv => LocksInOrder
  BY DEF IndInv
<1> QED
  BY <1>1, IndInvHolds, PTL

\* The retry after a 401 carries a token that was issued after the rejected one.
THEOREM RetryHolds == Spec => []RetryCarriesNewToken
<1>1. IndInv => RetryCarriesNewToken
  BY DEF IndInv
<1> QED
  BY <1>1, IndInvHolds, PTL

\* A token that lives longer than refreshSkew does not expire in flight, as long
\* as two requests fit into the skew.
THEOREM InFlightHolds == Spec => []InFlightTokenValid
<1>1. IndInv => InFlightTokenValid
  <2>1. SUFFICES ASSUME IndInv, NEW p \in Proc, call[p].pc = "admin", call[p].tok.life > Skew
                 PROVE  now <= call[p].tok.until
    BY DEF InFlightTokenValid
  <2>2. now <= call[p].since + HTTPTimeout /\ call[p].since + HTTPTimeout <= call[p].tok.until
    BY <2>1 DEF IndInv, TokensLast, InFlight
  <2>3. now \in Nat /\ call[p].since \in Nat /\ call[p].tok.until \in Nat
    BY <2>1 DEF IndInv, TypeOK, Call, AccessToken
  <2> QED
    BY <2>2, <2>3, TimesAssumption
<1> QED
  BY <1>1, IndInvHolds, PTL
=============================================================================
