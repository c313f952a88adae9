-------------------------- MODULE DynamoStoreProofs --------------------------
(***************************************************************************)
(* What DynamoStore.tla guarantees for every number of rows and callers,    *)
(* every page limit and every resolution of the clock, checked by TLAPS:     *)
(* the answers of its calls are true, and every step of the table is one of  *)
(* InMemStore.tla.                                                           *)
(***************************************************************************)
EXTENDS DynamoStore, FiniteSetTheorems, SequenceTheorems, TLAPS

-----------------------------------------------------------------------------
(* Times as text.                                                          *)

\* What a sequence is continued with does not change its beginning.
LEMMA ConcatBegins ==
    ASSUME NEW C, NEW s \in Seq(C), NEW t \in Seq(C), Len(s) >= 1
    PROVE  /\ s \o t \in Seq(C) /\ Len(s \o t) = Len(s) + Len(t) /\ Len(s \o t) >= 1
           /\ (s \o t)[1] = s[1]
<1>1. Len(s) \in Nat /\ Len(t) \in Nat
  BY LenProperties
<1>2. s \o t \in Seq(C) /\ Len(s \o t) = Len(s) + Len(t)
        /\ \A i \in 1 .. Len(s) + Len(t) : (s \o t)[i] = IF i <= Len(s) THEN s[i] ELSE t[i - Len(s)]
  BY ConcatProperties
<1>3. 1 \in 1 .. Len(s) + Len(t)
  BY <1>1
<1> QED
  BY <1>1, <1>2, <1>3

LEMMA PrecisionType ==
    ASSUME NEW t
    PROVE  Precision(t) \in 0 .. Digits
<1> DEFINE Z == {k \in 1 .. Digits : t % Radix ^ k = 0}
<1>1. IsFiniteSet(1 .. Digits) /\ Cardinality(1 .. Digits) = Digits
  BY FS_Interval, TextAssumption
<1>2. Z \in SUBSET (1 .. Digits)
  OBVIOUS
<1> HIDE DEF Z
<1>3. IsFiniteSet(Z) /\ Cardinality(Z) <= Digits
  BY <1>1, <1>2, FS_Subset
<1>4. Cardinality(Z) \in Nat
  BY <1>3, FS_CardinalityType
<1>5. Precision(t) = Digits - Cardinality(Z)
  BY DEF Precision, Z
<1> QED
  BY <1>3, <1>4, <1>5, TextAssumption

\* Every text begins with the whole seconds.
LEMMA FormatBegins ==
    ASSUME NEW t
    PROVE  Len(Format(t)) \in Nat /\ Len(Format(t)) >= 1 /\ Format(t)[1] = t \div Second
<1>1. CASE Precision(t) = 0
  BY <1>1 DEF Format
<1>2. CASE Precision(t) # 0
  <2> DEFINE D == [k \in 1 .. Precision(t) |-> Digit(t, k)]
             C == {t \div Second, Point, Zulu} \cup {Digit(t, k) : k \in 1 .. Precision(t)}
             h == <<t \div Second, Point>>
             z == <<Zulu>>
  <2>1. Precision(t) \in Nat
    BY PrecisionType, TextAssumption
  <2>2. h \in Seq(C) /\ z \in Seq(C) /\ Len(h) >= 1 /\ h[1] = t \div Second /\ Len(z) = 1
    OBVIOUS
  <2>3. D \in Seq(C)
    BY <2>1
  <2>4. Format(t) = (h \o D) \o z
    BY <1>2 DEF Format
  <2> HIDE DEF D, C, h, z
  <2>5. h \o D \in Seq(C) /\ Len(h \o D) >= 1 /\ (h \o D)[1] = h[1]
    BY <2>2, <2>3, ConcatBegins, Zenon
  <2>6. (h \o D) \o z \in Seq(C) /\ Len((h \o D) \o z) >= 1 /\ ((h \o D) \o z)[1] = (h \o D)[1]
    BY <2>2, <2>5, ConcatBegins
  <2> QED
    BY <2>2, <2>4, <2>5, <2>6, LenProperties
<1> QED
  BY <1>1, <1>2

\* A time in an earlier second comes before, as text too.
LEMMA EarlierSecondBefore ==
    ASSUME NEW a \in Nat, NEW b \in Nat, a < b - (b % Second)
    PROVE  Before(Format(a), Format(b))
<1>1. a \div Second < b \div Second
  BY SecondAssumption
<1> DEFINE s == Format(a)
           t == Format(b)
<1>2. s[1] < t[1] /\ 1 \in 1 .. Len(s) /\ 1 <= Len(t)
  BY <1>1, FormatBegins
<1> HIDE DEF s, t
<1>3. \A k \in 1 .. 1 - 1 : s[k] = t[k]
  OBVIOUS
<1>4. Before(s, t)
  BY <1>2, <1>3 DEF Before
<1> QED
  BY <1>4 DEF s, t

\* What comes before as text is less than a second later as a time.
LEMMA BeforeSound ==
    ASSUME NEW a \in Nat, NEW b \in Nat, Before(Format(a), Format(b))
    PROVE  a < b + Second
<1> DEFINE s == Format(a)
           t == Format(b)
<1>1. PICK n \in 1 .. Len(s) : n <= Len(t) /\ s[n] < t[n] /\ \A k \in 1 .. n - 1 : s[k] = t[k]
  BY DEF Before
<1>2. s[1] = a \div Second /\ t[1] = b \div Second /\ Len(s) \in Nat
  BY FormatBegins
<1> HIDE DEF s, t
<1>3. a \div Second \in Nat /\ b \div Second \in Nat
  BY SecondAssumption
<1>4. CASE n = 1
  <2>1. a \div Second <= b \div Second
    BY <1>1, <1>2, <1>3, <1>4
  <2> QED
    BY <2>1, SecondAssumption
<1>5. CASE n # 1
  <2>1. 1 \in 1 .. n - 1
    BY <1>1, <1>2, <1>5
  <2>2. a \div Second <= b \div Second
    BY <1>1, <1>2, <1>3, <2>1
  <2> QED
    BY <2>2, SecondAssumption
<1> QED
  BY <1>4, <1>5

-----------------------------------------------------------------------------
(* The rows.                                                               *)

\* What a row r may become in a step at time t: it is put, resolved or goes.
Evolves(r, q, t) ==
    \/ q = r
    \/ r.status = "none" /\ q.status \in {"running", "denied"} /\ t <= q.at + PutDelay
    \/ r.status = "running" /\ q.status = "resolved" /\ q.at = r.at
    \/ Store!Present(r) /\ q = Store!Gone

LEMMA RowFacts ==
    /\ Store!NoRow \in Store!Row /\ Store!Gone \in Store!Row
    /\ \A s \in {"running", "denied"}, t \in 0 .. MaxNow : Store!Requested(s, t) \in Store!Row
    /\ \A r \in Store!Row, w \in Caller \cup {Others} : Store!Resolved(r, w) \in Store!Row
    /\ \A r \in Store!Row : r.at \in Nat
BY LifeAssumption
   DEF Store!NoRow, Store!Gone, Store!Requested, Store!Resolved, Store!Row, Store!Status

\* What Scans may show of a row stays within its bounds when the row evolves.
LEMMA PastEvolves ==
    ASSUME NEW r \in Store!Row, NEW q \in Store!Row, NEW t \in Nat, Evolves(r, q, t), q # r,
           NEW V \in SUBSET Version, PastHolds(r, V, t)
    PROVE  LET w == [item |-> r, until |-> t]
           IN V \cup {w} \in SUBSET Version /\ PastHolds(q, V \cup {w}, t)
<1> DEFINE w == [item |-> r, until |-> t]
<1>1. w \in Version /\ w.item = r /\ w.until = t
  BY DEF Version
<1> HIDE DEF w
<1>2. Store!Gone.status = "expired"
  BY DEF Store!Gone
<1>3. ASSUME NEW v \in V \cup {w}
      PROVE  /\ q.status # "none" /\ v.item.status # "expired"
             /\ t < v.until + Lag
             /\ v.item.status = "none" /\ q.status # "expired" => v.until <= q.at + PutDelay
             /\ v.item.status # "none" => q.status # "running"
                                          /\ (q.status # "expired" => v.item.at = q.at)
  <2>1. CASE v \in V
    <3>1. /\ r.status # "none" /\ v.item.status # "expired"
          /\ t < v.until + Lag
          /\ v.item.status = "none" /\ r.status # "expired" => v.until <= r.at + PutDelay
          /\ v.item.status # "none" => r.status # "running"
                                       /\ (r.status # "expired" => v.item.at = r.at)
      BY <2>1 DEF PastHolds
    <3> QED
      BY <1>2, <3>1 DEF Evolves
  <2>2. CASE v = w
    BY <1>1, <1>2, <2>2, LifeAssumption DEF Evolves, Store!Present
  <2> QED
    BY <2>1, <2>2
<1>4. PastHolds(q, V \cup {w}, t)
  BY <1>3 DEF PastHolds
<1> QED
  BY <1>1, <1>4 DEF w

\* What every step at one moment does to the table and its versions, but for its
\* being deleted.
RowsStep ==
    /\ row' \in [Id -> Store!Row] /\ past' \in [Id -> SUBSET Version]
    /\ \A j \in Id : /\ Evolves(row[j], row'[j], now)
                     /\ PastHolds(row'[j], past'[j], now)
                     /\ schema = "none" => ~Store!Present(row'[j])
                     /\ row'[j].status = "expired" => row'[j] = Store!Gone

LEMMA OneRow ==
    ASSUME IndInv, schema # "none", NEW i \in Id, NEW q \in Store!Row,
           row' = [row EXCEPT ![i] = q], Supersede(i), q # row[i], Evolves(row[i], q, now)
    PROVE  RowsStep
<1> DEFINE w == [item |-> row[i], until |-> now]
<1>1. /\ row \in [Id -> Store!Row] /\ past \in [Id -> SUBSET Version] /\ now \in Nat
      /\ \A j \in Id : /\ PastHolds(row[j], past[j], now)
                       /\ row[j].status = "expired" => row[j] = Store!Gone
  BY DEF IndInv, TypeOK
<1>2. past' = [past EXCEPT ![i] = past[i] \cup {w}]
  BY <1>1 DEF Supersede
<1>3. past[i] \cup {w} \in SUBSET Version /\ PastHolds(q, past[i] \cup {w}, now)
  BY <1>1, PastEvolves
<1> HIDE DEF w
<1>4. row' \in [Id -> Store!Row] /\ past' \in [Id -> SUBSET Version]
  BY <1>1, <1>2, <1>3
<1>5. row'[i] = q /\ past'[i] = past[i] \cup {w}
  BY <1>1, <1>2
<1>6. \A j \in Id : j # i => row'[j] = row[j] /\ past'[j] = past[j]
  BY <1>1, <1>2
<1>7. ASSUME NEW j \in Id
      PROVE  /\ Evolves(row[j], row'[j], now) /\ PastHolds(row'[j], past'[j], now)
             /\ row'[j].status = "expired" => row'[j] = Store!Gone
  <2>1. CASE j = i
    BY <1>3, <1>5, <2>1 DEF Evolves
  <2>2. CASE j # i
    <3>1. row'[j] = row[j] /\ past'[j] = past[j] /\ PastHolds(row[j], past[j], now)
      BY <1>1, <1>6, <2>2
    <3> QED
      BY <1>1, <3>1 DEF Evolves
  <2> QED
    BY <2>1, <2>2
<1> QED
  BY <1>4, <1>7 DEF RowsStep

\* A Scan that shows a row as it is not any more has its stamp; one that misses a
\* row has not waited for the row's put and for the replicas.
LEMMA ShownFacts ==
    ASSUME IndInv, NEW i \in Id, NEW r \in Shows(i)
    PROVE  /\ r.at \in Nat
           /\ Store!Present(r) => row[i].status # "none" /\ (row[i].status # "expired" => row[i].at = r.at)
           /\ ~Store!Present(r) /\ Store!Present(row[i]) => now < row[i].at + PutDelay + Lag
           /\ row[i].status = "running" => r = row[i] \/ now < row[i].at + PutDelay + Lag
<1>1. row[i] \in Store!Row /\ past[i] \in SUBSET Version /\ now \in Nat /\ PastHolds(row[i], past[i], now)
  BY DEF IndInv, TypeOK
<1>2. row[i].at \in Nat
  BY <1>1, RowFacts
<1>3. CASE r = row[i]
  BY <1>2, <1>3 DEF Store!Present
<1>4. CASE r # row[i]
  <2>1. PICK v \in past[i] : r = v.item
    BY <1>4 DEF Shows
  <2>2. v.item \in Store!Row /\ v.until \in Nat
    BY <1>1, <2>1 DEF Version
  <2>3. /\ row[i].status # "none" /\ r.status # "expired"
        /\ now < v.until + Lag
        /\ r.status = "none" /\ row[i].status # "expired" => v.until <= row[i].at + PutDelay
        /\ r.status # "none" => row[i].status # "running"
                                /\ (row[i].status # "expired" => r.at = row[i].at)
    BY <1>1, <2>1 DEF PastHolds
  <2>4. v.until <= row[i].at + PutDelay => now < row[i].at + PutDelay + Lag
    BY <1>1, <1>2, <2>2, <2>3, LifeAssumption
  <2>5. r.at \in Nat
    BY <2>1, <2>2, RowFacts
  <2> QED
    BY <2>3, <2>4, <2>5 DEF Store!Present
<1> QED
  BY <1>3, <1>4

\* An update resolves a running row, whoever sends it.
LEMMA UpdateStep ==
    ASSUME IndInv, NEW i \in Id, NEW w \in Caller \cup {Others}, Store!UpdateTerminal(i, w), Supersede(i)
    PROVE  RowsStep
<1> DEFINE q == Store!Resolved(row[i], w)
<1>1. row[i].status = "running" /\ row' = [row EXCEPT ![i] = q] /\ row[i] \in Store!Row
  BY DEF Store!UpdateTerminal, IndInv, TypeOK
<1>2. q \in Store!Row /\ q.status = "resolved" /\ q.at = row[i].at
  BY <1>1, RowFacts DEF Store!Resolved
<1>3. schema # "none"
  BY <1>1 DEF IndInv, Store!Present
<1> HIDE DEF q
<1> QED
  BY <1>1, <1>2, <1>3, OneRow DEF Evolves

LEMMA PutStep ==
    ASSUME IndInv, NEW i \in Id, PutOperation(i)
    PROVE  RowsStep
<1>1. PICK s \in {"running", "denied"}, d \in 0 .. PutDelay :
        now >= d /\ Store!PutOperation(i, s, now - d)
  BY DEF PutOperation
<1> DEFINE q == Store!Requested(s, now - d)
<1>2. row[i].status = "none" /\ row' = [row EXCEPT ![i] = q]
  BY <1>1 DEF Store!PutOperation
<1>3. now \in Nat /\ now <= MaxNow /\ d \in Nat /\ d <= PutDelay
  BY LifeAssumption DEF IndInv, TypeOK
<1>4. now - d \in 0 .. MaxNow /\ now <= (now - d) + PutDelay
  BY <1>1, <1>3, LifeAssumption
<1>5. q \in Store!Row /\ q.status = s /\ q.at = now - d
  BY <1>4, RowFacts DEF Store!Requested
<1> HIDE DEF q
<1>6. schema # "none" /\ Supersede(i)
  BY DEF PutOperation
<1> QED
  BY <1>2, <1>4, <1>5, <1>6, OneRow DEF Evolves

LEMMA ExpireStep ==
    ASSUME IndInv, NEW i \in Id, Expire(i)
    PROVE  RowsStep
<1>1. Store!Present(row[i]) /\ row' = [j \in Id |-> IF j \in {i} THEN Store!Gone ELSE row[j]] /\ Supersede(i)
  BY DEF Expire, Store!Expire
<1>2. row \in [Id -> Store!Row]
  BY DEF IndInv, TypeOK
<1>3. row' = [row EXCEPT ![i] = Store!Gone]
  BY <1>1, <1>2
<1>4. Store!Gone.status = "expired" /\ schema # "none"
  BY <1>1 DEF Store!Gone, IndInv
<1> QED
  BY <1>1, <1>3, <1>4, RowFacts, OneRow DEF Evolves, Store!Present

\* A list is not made wrong by what becomes of the rows.
LEMMA EvolvesKeepsList ==
    ASSUME NEW k \in Call, NEW R \in [Id -> Store!Row], NEW S \in [Id -> Store!Row],
           NEW t \in Nat, k.begun <= t, ListHolds(k, R), \A j \in Id : Evolves(R[j], S[j], t)
    PROVE  ListHolds(k, S)
<1> DEFINE deadline == k.begun - StaleAfter
<1>1. SUFFICES ASSUME k.pc \in {"list", "listed"}
               PROVE  /\ deadline >= 0
                      /\ \A i \in k.ops : S[i].status # "none" /\ S[i].at < deadline + Second
                      /\ \A i \in Id : /\ k.pc = "listed" \/ i <= k.start
                                       /\ S[i].status = "running"
                                       /\ S[i].at < deadline - (deadline % Second)
                                       => i \in k.ops
  BY DEF ListHolds
<1>2. /\ deadline >= 0
      /\ \A i \in k.ops : R[i].status # "none" /\ R[i].at < deadline + Second
      /\ \A i \in Id : /\ k.pc = "listed" \/ i <= k.start
                       /\ R[i].status = "running"
                       /\ R[i].at < deadline - (deadline % Second)
                       => i \in k.ops
  BY <1>1 DEF ListHolds
<1>3. k.begun \in Nat /\ k.ops \subseteq Id
  BY DEF Call
<1>4. deadline \in Nat /\ deadline % Second \in Nat /\ deadline < t
  BY <1>2, <1>3, SecondAssumption, LifeAssumption
<1>5. Store!Gone.status = "expired" /\ Store!Gone.at = 0
  BY DEF Store!Gone
<1> HIDE DEF deadline
<1>6. ASSUME NEW i \in k.ops
      PROVE  S[i].status # "none" /\ S[i].at < deadline + Second
  <2>1. i \in Id /\ Evolves(R[i], S[i], t) /\ R[i].status # "none" /\ R[i].at < deadline + Second
    BY <1>2, <1>3, <1>6
  <2> QED
    BY <1>4, <1>5, <2>1, SecondAssumption DEF Evolves
<1>7. ASSUME NEW i \in Id, k.pc = "listed" \/ i <= k.start, S[i].status = "running",
             S[i].at < deadline - (deadline % Second)
      PROVE  i \in k.ops
  <2>1. Evolves(R[i], S[i], t) /\ S[i].at \in Nat /\ k.begun = deadline + StaleAfter
    BY <1>3, <1>7, RowFacts, LifeAssumption DEF deadline
  <2> HIDE DEF deadline
  <2>2. ~(t <= S[i].at + PutDelay)
    BY <1>4, <1>7, <2>1, LifeAssumption
  <2>3. S[i] = R[i]
    BY <1>5, <1>7, <2>1, <2>2 DEF Evolves
  <2> QED
    BY <1>2, <1>7, <2>3
<1> QED
  BY <1>2, <1>6, <1>7 DEF deadline

\* Nor is what a lookup or an update has been told.
LEMMA EvolvesKeepsLookup ==
    ASSUME NEW c, NEW k \in Call, NEW R \in [Id -> Store!Row], NEW S \in [Id -> Store!Row],
           NEW t \in Nat, k.begun <= t, LookupHolds(c, k, R), \A j \in Id : Evolves(R[j], S[j], t)
    PROVE  LookupHolds(c, k, S)
<1>1. k.id \in Id /\ Evolves(R[k.id], S[k.id], t)
  BY DEF Call
<1>2. Store!Gone.status = "expired" /\ ~Store!Present(Store!Gone)
  BY DEF Store!Gone, Store!Present
<1> QED
  BY <1>1, <1>2 DEF LookupHolds, Evolves, Store!Present

\* Nothing happens to the rows.
LEMMA SameRows ==
    ASSUME IndInv, UNCHANGED <<row, past>>
    PROVE  RowsStep
BY DEF IndInv, TypeOK, RowsStep, Evolves

\* A step of the table that no call has part in.
LEMMA TablePreserves ==
    ASSUME IndInv, RowsStep, UNCHANGED <<schema, now, call>>
    PROVE  IndInv'
<1>1. now \in Nat /\ row \in [Id -> Store!Row] /\ call \in [Caller -> Call]
  BY DEF IndInv, TypeOK
<1>2. row' \in [Id -> Store!Row] /\ \A j \in Id : Evolves(row[j], row'[j], now)
  BY DEF RowsStep
<1>3. ASSUME NEW c \in Caller
      PROVE  /\ call[c].begun <= now
             /\ ListHolds(call[c], row') /\ LookupHolds(c, call[c], row')
  <2>1. call[c] \in Call /\ call[c].begun <= now /\ ListHolds(call[c], row) /\ LookupHolds(c, call[c], row)
    BY <1>1 DEF IndInv
  <2> QED
    BY <1>1, <1>2, <2>1, EvolvesKeepsList, EvolvesKeepsLookup
<1>4. TypeOK' /\ now' <= MaxNow
  BY DEF IndInv, TypeOK, RowsStep
<1>5. \A i \in Id : /\ PastHolds(row'[i], past'[i], now')
                      /\ (schema' = "none" => ~Store!Present(row'[i]))
                      /\ (row'[i].status = "expired" => row'[i] = Store!Gone)
  BY DEF RowsStep
<1> QED
  BY <1>3, <1>4, <1>5 DEF IndInv, LookupHolds, ListHolds, PastHolds, Store!Present, Store!Gone

-----------------------------------------------------------------------------
(* The calls.                                                              *)

\* A step of call c that leaves it at k, with the rows as they evolve.
LEMMA CallPreserves ==
    ASSUME IndInv, NEW c \in Caller, NEW k \in Call, call' = [call EXCEPT ![c] = k],
           UNCHANGED <<schema, now>>, RowsStep,
           k.begun <= now, ListHolds(k, row'), LookupHolds(c, k, row')
    PROVE  IndInv'
<1>1. now \in Nat /\ row \in [Id -> Store!Row] /\ call \in [Caller -> Call]
  BY DEF IndInv, TypeOK
<1>2. call' \in [Caller -> Call] /\ call'[c] = k /\ \A d \in Caller : d # c => call'[d] = call[d]
  BY <1>1
<1>3. row' \in [Id -> Store!Row] /\ \A j \in Id : Evolves(row[j], row'[j], now)
  BY DEF RowsStep
<1>4. ASSUME NEW d \in Caller
      PROVE  /\ call'[d].begun <= now
             /\ ListHolds(call'[d], row') /\ LookupHolds(d, call'[d], row')
  <2>1. CASE d = c
    BY <1>2, <2>1
  <2>2. CASE d # c
    <3>1. call[d] \in Call /\ call[d].begun <= now /\ ListHolds(call[d], row) /\ LookupHolds(d, call[d], row)
      BY <1>1 DEF IndInv
    <3>2. ListHolds(call[d], row') /\ LookupHolds(d, call[d], row')
      BY <1>1, <1>3, <3>1, EvolvesKeepsList, EvolvesKeepsLookup
    <3> QED
      BY <1>2, <2>2, <3>1, <3>2
  <2> QED
    BY <2>1, <2>2
<1>5. TypeOK' /\ now' <= MaxNow
  BY <1>2 DEF IndInv, TypeOK, RowsStep
<1>6. \A i \in Id : /\ PastHolds(row'[i], past'[i], now')
                      /\ (schema' = "none" => ~Store!Present(row'[i]))
                      /\ (row'[i].status = "expired" => row'[i] = Store!Gone)
  BY DEF RowsStep
<1> QED
  BY <1>4, <1>5, <1>6 DEF IndInv, LookupHolds, ListHolds, PastHolds, Store!Present, Store!Gone

LEMMA NoCallFacts ==
    /\ NoCall \in Call /\ NoCall.begun = 0 /\ NoCall.start = 0 /\ NoCall.ops = {} /\ NoCall.key = 1
    /\ NoCall.id = 1 /\ 1 \in Id
<1>1. 1 \in Id
  BY PageAssumption DEF Id
<1> QED
  BY <1>1 DEF NoCall, Call

LEMMA AnsweredFacts ==
    ASSUME IndInv, NEW c \in Caller, NEW a \in (Answer \cup {"update"}) \ {"listed"}
    PROVE  /\ Answered(c, a) \in Call /\ Answered(c, a).pc = a /\ Answered(c, a).key = 1
           /\ Answered(c, a).begun <= now
           /\ a \notin {"got", "error", "mismatch"} => Answered(c, a).id = call[c].id
           /\ a = "notfound" => Answered(c, a).begun = call[c].begun
<1>1. call[c] \in Call /\ call[c].id \in Id /\ call[c].begun \in Nat /\ call[c].begun <= now /\ now \in Nat
  BY DEF IndInv, TypeOK, Call
<1>2. a \in {"idle", "list", "find", "update"} \cup Answer /\ 0 \in Nat
  OBVIOUS
<1>3. ASSUME NEW r \in Call
      PROVE  LET d == [r EXCEPT !.pc = a]
             IN d \in Call /\ d.pc = a /\ d.key = r.key /\ d.begun = r.begun
  BY <1>2, <1>3, Zenon DEF Call
<1>4. ASSUME NEW r \in Call, NEW b \in Nat
      PROVE  LET d == [r EXCEPT !.pc = a, !.id = call[c].id, !.begun = b]
             IN d \in Call /\ d.pc = a /\ d.key = r.key /\ d.begun = b /\ d.id = call[c].id
  BY <1>1, <1>2, <1>4, Zenon DEF Call
<1>5. CASE a \in {"got", "error", "mismatch"}
  <2> DEFINE d == [NoCall EXCEPT !.pc = a]
  <2>1. Answered(c, a) = d
    BY <1>5 DEF Answered
  <2>2. d \in Call /\ d.pc = a /\ d.key = 1 /\ d.begun = 0
    BY <1>3, NoCallFacts, Zenon
  <2> HIDE DEF d
  <2> QED
    BY <1>1, <1>5, <2>1, <2>2
<1>6. CASE a \notin {"got", "error", "mismatch"}
  <2> DEFINE b == IF a = "notfound" THEN call[c].begun ELSE 0
             d == [NoCall EXCEPT !.pc = a, !.id = call[c].id, !.begun = b]
  <2>1. Answered(c, a) = d
    BY <1>6 DEF Answered
  <2>2. b \in Nat /\ b <= now /\ (a = "notfound" => b = call[c].begun)
    BY <1>1
  <2> HIDE DEF b
  <2>3. d \in Call /\ d.pc = a /\ d.key = 1 /\ d.begun = b /\ d.id = call[c].id
    BY <1>4, <2>2, NoCallFacts, Zenon
  <2> HIDE DEF d
  <2> QED
    BY <2>1, <2>2, <2>3
<1> QED
  BY <1>5, <1>6

\* An answer that is true of the rows as they are now.
LEMMA ReturnPreserves ==
    ASSUME IndInv, NEW c \in Caller, NEW a \in (Answer \cup {"update"}) \ {"listed"},
           Return(c, a), UNCHANGED <<schema, now>>, RowsStep,
           a = "mismatch" => schema = "reworded",
           LET r == row'[call[c].id] IN
           /\ a \notin {"got", "error", "mismatch"} => r.status # "none"
           /\ a = "ok" => r.status = "resolved" /\ r.by = c
           /\ a = "already" => r.status # "running"
           /\ a = "notfound" => ~Store!Present(r) \/ call[c].begun < r.at + PutDelay + Lag
    PROVE  IndInv'
<1> DEFINE k == Answered(c, a)
<1>1. /\ k \in Call /\ k.pc = a /\ k.key = 1 /\ k.begun <= now
      /\ a \notin {"got", "error", "mismatch"} => k.id = call[c].id
      /\ a = "notfound" => k.begun = call[c].begun
  BY AnsweredFacts
<1>2. call' = [call EXCEPT ![c] = k]
  BY DEF Return
<1> HIDE DEF k
<1>3. ListHolds(k, row')
  BY <1>1 DEF ListHolds, Answer
<1>4. LookupHolds(c, k, row')
  <2>1. CASE a \in {"got", "error", "mismatch"}
    BY <1>1, <2>1 DEF LookupHolds
  <2>2. CASE a \notin {"got", "error", "mismatch"}
    <3> DEFINE r == row'[k.id]
    <3>1. k.id = call[c].id
      BY <1>1, <2>2
    <3>2. /\ r.status # "none"
          /\ a = "ok" => r.status = "resolved" /\ r.by = c
          /\ a = "already" => r.status # "running"
          /\ a = "notfound" => ~Store!Present(r) \/ k.begun < r.at + PutDelay + Lag
      BY <1>1, <2>2, <3>1
    <3> HIDE DEF r
    <3> QED
      BY <1>1, <3>2 DEF LookupHolds, Answer, r
  <2> QED
    BY <2>1, <2>2
<1> QED
  BY <1>1, <1>2, <1>3, <1>4, CallPreserves

LEMMA ErrorPreserves ==
    ASSUME IndInv, NEW c \in Caller, Return(c, "error"), UNCHANGED <<schema, now, row, past>>
    PROVE  IndInv'
BY SameRows, ReturnPreserves DEF Answer

LEMMA BeginPreserves ==
    ASSUME IndInv, NEW c \in Caller, Begin(c)
    PROVE  IndInv'
<1>1. UNCHANGED <<schema, now, row, past>> /\ now \in Nat
  BY DEF Begin, IndInv, TypeOK
<1>2. ASSUME NEW r \in Call
      PROVE  LET d == [r EXCEPT !.pc = "list", !.begun = now]
             IN d \in Call /\ d.pc = "list" /\ d.begun = now /\ d.start = r.start /\ d.ops = r.ops
  <2>1. "list" \in {"idle", "list", "find", "update"} \cup Answer
    OBVIOUS
  <2> QED
    BY <1>1, <1>2, <2>1, Zenon DEF Call
<1>3. CASE now >= StaleAfter /\ call' = [call EXCEPT ![c] = [NoCall EXCEPT !.pc = "list", !.begun = now]]
  <2> DEFINE d == [NoCall EXCEPT !.pc = "list", !.begun = now]
  <2>1. d \in Call /\ d.pc = "list" /\ d.begun = now /\ d.start = 0 /\ d.ops = {}
    BY <1>2, NoCallFacts, Zenon
  <2>2. call' = [call EXCEPT ![c] = d]
    BY <1>3
  <2> HIDE DEF d
  <2>3. \A i \in Id : ~(i <= 0)
    BY PageAssumption DEF Id
  <2>4. ListHolds(d, row')
    BY <1>1, <1>3, <2>1, <2>3, LifeAssumption DEF ListHolds
  <2>5. LookupHolds(c, d, row')
    BY <2>1 DEF LookupHolds
  <2>6. RowsStep
    BY <1>1, SameRows
  <2>7. d.begun <= now
    BY <1>1, <2>1
  <2> QED
    BY <1>1, <2>1, <2>2, <2>4, <2>5, <2>6, <2>7, CallPreserves
<1>4. CASE \E i \in Id :
             /\ row[i].status # "none"
             /\ call' = [call EXCEPT ![c] = [NoCall EXCEPT !.pc = "find", !.id = i, !.begun = now]]
  <2>1. PICK i \in Id :
             /\ row[i].status # "none"
             /\ call' = [call EXCEPT ![c] = [NoCall EXCEPT !.pc = "find", !.id = i, !.begun = now]]
    BY <1>4
  <2> DEFINE d == [NoCall EXCEPT !.pc = "find", !.id = i, !.begun = now]
  <2>2. d \in Call /\ d.pc = "find" /\ d.begun = now /\ d.start = 0 /\ d.ops = {} /\ d.id = i
    <3>1. "find" \in {"idle", "list", "find", "update"} \cup Answer
      OBVIOUS
    <3>2. ASSUME NEW r \in Call
          PROVE  LET e == [r EXCEPT !.pc = "find", !.id = i, !.begun = now]
                 IN e \in Call /\ e.pc = "find" /\ e.begun = now /\ e.start = r.start
                      /\ e.ops = r.ops /\ e.id = i
      BY <1>1, <3>1, <3>2, Zenon DEF Call
    <3> QED
      BY <3>2, NoCallFacts, Zenon
  <2>3. call' = [call EXCEPT ![c] = d]
    BY <2>1
  <2> HIDE DEF d
  <2>4. ~(i <= 0)
    BY PageAssumption DEF Id
  <2>5. ListHolds(d, row')
    BY <2>2 DEF ListHolds
  <2>6. LookupHolds(c, d, row')
    BY <1>1, <2>1, <2>2, <2>4 DEF LookupHolds
  <2>7. RowsStep
    BY <1>1, SameRows
  <2>8. d.begun <= now
    BY <1>1, <2>2
  <2> QED
    BY <1>1, <2>2, <2>3, <2>5, <2>6, <2>7, <2>8, CallPreserves
<1> QED
  BY <1>3, <1>4 DEF Begin

\* One page of a list: what it skips is not stale, and what it adds is not young.
LEMMA ListPreserves ==
    ASSUME IndInv, NEW c \in Caller, ListRunningPastDeadline(c)
    PROVE  IndInv'
<1>1. call[c].pc = "list" /\ UNCHANGED <<schema, now, row, past>>
  BY DEF ListRunningPastDeadline
<1>2. CASE Return(c, "error")
  BY <1>1, <1>2, ErrorPreserves
<1>3. CASE ~Return(c, "error")
  <2>1. PICK E \in SUBSET Id, items \in SUBSET Id, last \in Id \cup {0} :
          /\ Page(call[c].start, E, last) /\ Filtered(c, E, items)
          /\ call' = [call EXCEPT ![c] = [call[c] EXCEPT
                !.pc = IF last = 0 THEN "listed" ELSE "list",
                !.start = last,
                !.ops = call[c].ops \cup items]]
    BY <1>3 DEF ListRunningPastDeadline
  <2> DEFINE new == call[c].ops \cup items
             npc == IF last = 0 THEN "listed" ELSE "list"
             k == [call[c] EXCEPT !.pc = npc, !.start = last, !.ops = new]
             deadline == call[c].begun - StaleAfter
  <2>2. call[c] \in Call /\ row \in [Id -> Store!Row] /\ now \in Nat /\ call[c].begun <= now
          /\ ListHolds(call[c], row)
    BY DEF IndInv, TypeOK
  <2>3. call[c].ops \subseteq Id /\ call[c].begun \in Nat /\ call[c].start \in Nat
    BY <2>2 DEF Call
  <2>4. k \in Call /\ k.pc = npc /\ k.start = last /\ k.ops = new /\ k.begun = call[c].begun
    <3>1. npc \in {"idle", "list", "find", "update"} \cup Answer /\ new \in SUBSET Id
      BY <2>3 DEF Answer
    <3>2. last \in Nat
      BY PageAssumption DEF Id
    <3> HIDE DEF npc, new
    <3> QED
      BY <2>2, <3>1, <3>2, Zenon DEF Call
  <2>5. call' = [call EXCEPT ![c] = k]
    BY <2>1
  <2> HIDE DEF k
  <2>6. /\ deadline >= 0
        /\ \A i \in call[c].ops : row[i].status # "none" /\ row[i].at < deadline + Second
        /\ \A i \in Id : /\ i <= call[c].start
                         /\ row[i].status = "running"
                         /\ row[i].at < deadline - (deadline % Second)
                         => i \in call[c].ops
    BY <1>1, <2>2 DEF ListHolds
  <2>7. deadline \in Nat /\ deadline % Second \in Nat /\ deadline + StaleAfter <= now /\ deadline = olderThan(c)
    BY <2>2, <2>3, <2>6, SecondAssumption, LifeAssumption DEF olderThan
  <2>8. \A i \in Id : row[i].at \in Nat
    BY <2>2, RowFacts
  <2> HIDE DEF deadline
  <2>9. ASSUME NEW i \in new
        PROVE  row[i].status # "none" /\ row[i].at < deadline + Second
    <3>1. CASE i \in call[c].ops
      BY <2>6, <3>1
    <3>2. CASE i \in items
      <4>1. i \in E /\ i \in Id
        BY <2>1, <3>2 DEF Filtered
      <4>2. PICK r \in Shows(i) : Store!Present(r) /\ Matches(c, r)
        BY <2>1, <3>2, <4>1 DEF Filtered
      <4>3. r.status = "running" /\ Before(Format(r.at), Format(deadline))
        BY <2>7, <4>2 DEF Matches
      <4>4. row[i].status # "none" /\ r.at \in Nat /\ (row[i].status # "expired" => row[i].at = r.at)
        BY <4>1, <4>2, <4>3, ShownFacts
      <4>5. r.at < deadline + Second
        BY <2>7, <4>3, <4>4, BeforeSound
      <4>6. row[i].status = "expired" => row[i].at = 0
        BY <4>1 DEF IndInv, Store!Gone
      <4> QED
        BY <2>7, <4>4, <4>5, <4>6, SecondAssumption
    <3> QED
      BY <2>9, <3>1, <3>2
  <2>10. ASSUME NEW i \in Id, npc = "listed" \/ i <= last, row[i].status = "running",
                row[i].at < deadline - (deadline % Second)
         PROVE  i \in new
    <3>1. CASE i <= call[c].start
      BY <2>6, <2>10, <3>1
    <3>2. CASE ~(i <= call[c].start)
      <4>1. i \in Nat /\ i > call[c].start /\ last \in Nat
        BY <2>3, <3>2, PageAssumption DEF Id
      <4>2. ASSUME NEW r \in Shows(i)
            PROVE  r = row[i]
        <5>1. ~(now < row[i].at + PutDelay + Lag)
          BY <2>2, <2>7, <2>8, <2>10, LifeAssumption
        <5> QED
          BY <2>10, <4>2, <5>1, ShownFacts
      <4>3. i \in E
        <5>1. ~(\E r \in Shows(i) : ~Store!Present(r))
          BY <2>10, <4>2 DEF Store!Present
        <5>2. i # last => last = 0 \/ i < last
          BY <2>10, <4>1
        <5>3. i = last => i \in E
          BY <2>1, <4>1, PageAssumption DEF Page, Id
        <5> QED
          BY <2>1, <4>1, <5>1, <5>2, <5>3 DEF Page
      <4>4. Before(Format(row[i].at), Format(deadline))
        BY <2>7, <2>8, <2>10, EarlierSecondBefore
      <4>5. Matches(c, row[i])
        BY <2>7, <2>10, <4>4 DEF Matches
      <4> QED
        BY <2>1, <4>2, <4>3, <4>5 DEF Filtered
    <3> QED
      BY <3>1, <3>2
  <2>11. ListHolds(k, row')
    <3>1. k.begun - StaleAfter = deadline
      BY <2>4 DEF deadline
    <3> HIDE DEF new, npc
    <3> QED
      BY <1>1, <2>4, <2>6, <2>9, <2>10, <3>1 DEF ListHolds
  <2>12. LookupHolds(c, k, row')
    BY <2>4 DEF LookupHolds
  <2>13. RowsStep
    BY <1>1, SameRows
  <2> QED
    BY <1>1, <2>2, <2>4, <2>5, <2>11, <2>12, <2>13, CallPreserves
<1> QED
  BY <1>2, <1>3

\* One page of a lookup: a row that it misses is gone or was put a short time before
\* the call.
LEMMA FindPreserves ==
    ASSUME IndInv, NEW c \in Caller, FindOperation(c)
    PROVE  IndInv'
<1>1. call[c].pc = "find" /\ UNCHANGED <<schema, now, row, past>>
  BY DEF FindOperation
<1>2. CASE Return(c, "error")
  BY <1>1, <1>2, ErrorPreserves
<1>3. CASE ~Return(c, "error")
  <2> DEFINE r == row[call[c].id]
             unseen == ~Store!Present(r) \/ call[c].begun < r.at + PutDelay + Lag
  <2>1. PICK E \in SUBSET Id, last \in Id \cup {0} :
          /\ Page(call[c].start, E, last)
          /\ LET found == call[c].ops \cup (E \cap {call[c].id})
             IN \/ /\ last # 0
                   /\ call' = [call EXCEPT ![c] = [call[c] EXCEPT !.start = last, !.ops = found]]
                \/ /\ last = 0 /\ found = {}
                   /\ Return(c, "notfound")
                \/ /\ last = 0 /\ found # {}
                   /\ \E a \in {"got", "update"} : Return(c, a)
    BY <1>3 DEF FindOperation
  <2> DEFINE found == call[c].ops \cup (E \cap {call[c].id})
  <2>2. call[c] \in Call /\ row \in [Id -> Store!Row] /\ now \in Nat /\ call[c].begun <= now
          /\ LookupHolds(c, call[c], row)
    BY DEF IndInv, TypeOK
  <2>3. call[c].ops \subseteq Id /\ call[c].begun \in Nat /\ call[c].start \in Nat /\ call[c].id \in Id
    BY <2>2 DEF Call
  <2>4. r.status # "none" /\ (call[c].ops = {} /\ call[c].id <= call[c].start => unseen)
    BY <1>1, <2>2 DEF LookupHolds
  <2>5. r.at \in Nat /\ call[c].id \in Nat /\ last \in Nat
    BY <2>2, <2>3, LifeAssumption, PageAssumption DEF Store!Row, Id
  <2>6. found = {} /\ (last = 0 \/ call[c].id <= last) => unseen
    <3>1. SUFFICES ASSUME found = {}, last = 0 \/ call[c].id <= last, ~(call[c].id <= call[c].start),
                          Store!Present(r)
                   PROVE  call[c].begun < r.at + PutDelay + Lag
      BY <2>4
    <3>2. call[c].id \notin E /\ call[c].start < call[c].id
      BY <2>3, <2>5, <3>1
    <3>3. last = 0 \/ call[c].id < last
      BY <2>1, <2>5, <3>1, <3>2 DEF Page
    <3>4. PICK s \in Shows(call[c].id) : ~Store!Present(s)
      BY <2>1, <2>3, <3>2, <3>3 DEF Page
    <3>5. now < r.at + PutDelay + Lag
      BY <2>3, <3>1, <3>4, ShownFacts DEF Store!Present
    <3> QED
      BY <2>2, <2>3, <2>5, <3>5, LifeAssumption
  <2>7. RowsStep
    BY <1>1, SameRows
  <2> HIDE DEF r, unseen, found
  <2>8. CASE last # 0 /\ call' = [call EXCEPT ![c] = [call[c] EXCEPT !.start = last, !.ops = found]]
    <3> DEFINE k == [call[c] EXCEPT !.start = last, !.ops = found]
    <3>1. k \in Call /\ k.pc = call[c].pc /\ k.start = last /\ k.ops = found
            /\ k.begun = call[c].begun /\ k.id = call[c].id
      <4>1. found \in SUBSET Id
        BY <2>3 DEF found
      <4> QED
        BY <2>2, <2>5, <4>1, Zenon DEF Call
    <3>2. call' = [call EXCEPT ![c] = k]
      BY <2>8
    <3> HIDE DEF k
    <3>3. ListHolds(k, row')
      BY <1>1, <3>1 DEF ListHolds
    <3>4. LookupHolds(c, k, row')
      BY <1>1, <2>4, <2>6, <3>1 DEF LookupHolds, r, unseen
    <3> QED
      BY <1>1, <2>2, <2>7, <3>1, <3>2, <3>3, <3>4, CallPreserves
  <2>9. CASE last = 0 /\ found = {} /\ Return(c, "notfound")
    <3>1. row'[call[c].id].status # "none"
            /\ (~Store!Present(row'[call[c].id]) \/ call[c].begun < row'[call[c].id].at + PutDelay + Lag)
      BY <1>1, <2>4, <2>6, <2>9 DEF r, unseen
    <3>2. "notfound" \in (Answer \cup {"update"}) \ {"listed"}
      BY DEF Answer
    <3> QED
      BY <1>1, <2>7, <2>9, <3>1, <3>2, ReturnPreserves
  <2>10. CASE last = 0 /\ \E a \in {"got", "update"} : Return(c, a)
    <3>1. row'[call[c].id].status # "none"
      BY <1>1, <2>4 DEF r
    <3>2. PICK a \in {"got", "update"} : Return(c, a)
      BY <2>10
    <3>3. a \in (Answer \cup {"update"}) \ {"listed"} /\ a \notin {"ok", "already", "notfound", "mismatch"}
      BY DEF Answer
    <3> QED
      BY <1>1, <2>7, <3>1, <3>2, <3>3, ReturnPreserves
  <2> QED
    BY <2>1, <2>8, <2>9, <2>10 DEF found
<1> QED
  BY <1>2, <1>3

\* An update with the key that fits: it resolves the row, or the row is not
\* running any more.
LEMMA WritePreserves ==
    ASSUME IndInv, NEW c \in Caller, call[c].pc = "update", Write(c, call[c].id), UNCHANGED <<schema, now>>
    PROVE  IndInv'
<1> DEFINE i == call[c].id
<1>1. i \in Id /\ row \in [Id -> Store!Row] /\ now \in 0 .. MaxNow /\ row[i].status # "none"
  BY LifeAssumption DEF IndInv, TypeOK, Call, LookupHolds
<1>2. {"ok", "error", "already"} \subseteq (Answer \cup {"update"}) \ {"listed"}
  BY DEF Answer
<1>3. CASE row[i].status = "running" /\ row' = [row EXCEPT ![i] = Store!Resolved(row[i], c)]
             /\ Supersede(i) /\ \E a \in {"ok", "error", "already"} : Return(c, a)
  <2>1. Store!UpdateTerminal(i, c)
    BY <1>3 DEF Store!UpdateTerminal
  <2>2. RowsStep
    BY <1>1, <1>3, <2>1, UpdateStep
  <2>3. row'[i].status = "resolved" /\ row'[i].by = c
    BY <1>1, <1>3 DEF Store!Resolved
  <2>4. PICK a \in {"ok", "error", "already"} : Return(c, a)
    BY <1>3
  <2> QED
    BY <1>2, <2>2, <2>3, <2>4, ReturnPreserves
<1>4. CASE ~(Finds(i) /\ row[i].status = "running") /\ Return(c, "already") /\ UNCHANGED <<row, past>>
  <2>1. row[i].status # "running"
    BY <1>4 DEF Finds, SortKey, Store!Present
  <2>2. RowsStep
    BY <1>4, SameRows
  <2> QED
    BY <1>1, <1>2, <1>4, <2>1, <2>2, ReturnPreserves
<1> QED
  BY <1>3, <1>4 DEF Write

\* One UpdateItem: with a key that fits, or with one that does not, or without a
\* table.
LEMMA UpdatePreserves ==
    ASSUME IndInv, NEW c \in Caller, UpdateItem(c)
    PROVE  IndInv'
<1>1. call[c].pc = "update" /\ UNCHANGED <<schema, now>>
  BY DEF UpdateItem
<1>2. call[c] \in Call /\ call[c].key \in 1 .. 2 /\ call[c].id \in Id /\ schema \in Schema \cup {"none"}
        /\ call[c].begun <= now /\ LookupHolds(c, call[c], row)
  BY DEF IndInv, TypeOK, Call
<1>3. CASE Write(c, call[c].id)
  BY <1>1, <1>3, WritePreserves
<1>4. CASE Return(c, "error") /\ UNCHANGED <<row, past>>
  BY <1>1, <1>4, ErrorPreserves
<1>5. CASE schema = "none" /\ Return(c, "notfound") /\ UNCHANGED <<row, past>>
  <2>1. RowsStep
    BY <1>5, SameRows
  <2>2. row'[call[c].id].status # "none" /\ ~Store!Present(row'[call[c].id])
    BY <1>1, <1>2, <1>5 DEF LookupHolds, IndInv
  <2>3. "notfound" \in (Answer \cup {"update"}) \ {"listed"}
    BY DEF Answer
  <2> QED
    BY <1>1, <1>5, <2>1, <2>2, <2>3, ReturnPreserves
<1>6. CASE schema # "none" /\ updateKeysFor[call[c].key] # schema /\ NextKey(c) /\ UNCHANGED <<row, past>>
  <2>1. call[c].key = 2 => schema = "hash"
    BY <1>1, <1>2, <1>6 DEF LookupHolds
  <2>2. call[c].key = 1 /\ schema \in {"hash", "reworded"}
    BY <1>2, <1>6, <2>1 DEF updateKeysFor, Schema
  <2>3. RowsStep
    BY <1>6, SameRows
  <2>4. CASE schema = "reworded"
    <3>1. Return(c, "mismatch")
      BY <1>6, <2>4 DEF NextKey, isKeySchemaMismatch
    <3>2. "mismatch" \in (Answer \cup {"update"}) \ {"listed"}
      BY DEF Answer
    <3> QED
      BY <1>1, <2>3, <2>4, <3>1, <3>2, ReturnPreserves
  <2>5. CASE schema = "hash"
    <3> DEFINE k == [call[c] EXCEPT !.key = 2]
    <3>1. call' = [call EXCEPT ![c] = k]
      BY <1>6, <2>2, <2>5 DEF NextKey, isKeySchemaMismatch, updateKeysFor, IndInv, TypeOK
    <3>2. k \in Call /\ k.pc = "update" /\ k.begun = call[c].begun /\ k.id = call[c].id
      BY <1>1, <1>2 DEF Call
    <3> HIDE DEF k
    <3>3. ListHolds(k, row')
      BY <3>2 DEF ListHolds
    <3>4. LookupHolds(c, k, row')
      BY <1>1, <1>2, <1>6, <2>5, <3>2 DEF LookupHolds
    <3> QED
      BY <1>1, <1>2, <2>3, <3>1, <3>2, <3>3, <3>4, CallPreserves
  <2> QED
    BY <2>2, <2>4, <2>5
<1> QED
  BY <1>3, <1>4, <1>5, <1>6 DEF UpdateItem

\* Without its table every row is gone, and what was known of it holds.
LEMMA DropPreserves ==
    ASSUME IndInv, DropTable
    PROVE  IndInv'
<1>1. schema' = "none" /\ UNCHANGED <<now, call>> /\ past' = [i \in Id |-> {}]
        /\ row' = [i \in Id |-> IF i \in {j \in Id : Store!Present(row[j])} THEN Store!Gone ELSE row[i]]
  BY DEF DropTable, Store!Expire
<1>2. now \in Nat /\ row \in [Id -> Store!Row] /\ call \in [Caller -> Call]
  BY DEF IndInv, TypeOK
<1>3. row' \in [Id -> Store!Row] /\ \A j \in Id : Evolves(row[j], row'[j], now)
  BY <1>1, <1>2, RowFacts DEF Evolves
<1>4. \A i \in Id : ~Store!Present(row'[i]) /\ (row'[i].status = "expired" => row'[i] = Store!Gone)
  BY <1>1 DEF Store!Gone, Store!Present, IndInv
<1>5. ASSUME NEW c \in Caller
      PROVE  /\ call'[c].begun <= now'
             /\ ListHolds(call[c], row)' /\ LookupHolds(c, call[c], row)'
  <2>1. call[c] \in Call /\ call[c].begun <= now /\ ListHolds(call[c], row) /\ LookupHolds(c, call[c], row)
    BY <1>2 DEF IndInv
  <2>2. ListHolds(call[c], row') /\ LookupHolds(c, call[c], row')
    BY <1>2, <1>3, <2>1, EvolvesKeepsList, EvolvesKeepsLookup
  <2> QED
    BY <1>1, <2>1, <2>2 DEF ListHolds, LookupHolds, Store!Present
<1>6. TypeOK' /\ now' <= MaxNow
  BY <1>1, <1>3 DEF IndInv, TypeOK
<1>7. \A i \in Id : PastHolds(row'[i], past'[i], now')
  BY <1>1 DEF PastHolds
<1> QED
  BY <1>1, <1>4, <1>5, <1>6, <1>7 DEF IndInv, ListHolds, LookupHolds, PastHolds, Store!Present, Store!Gone

-----------------------------------------------------------------------------
(* The theorems.                                                           *)

LEMMA InitHolds == Init => IndInv
<1> SUFFICES ASSUME Init PROVE IndInv
  OBVIOUS
<1>1. TypeOK /\ now <= MaxNow
  BY RowFacts, NoCallFacts, LifeAssumption DEF Init, TypeOK
<1>2. \A i \in Id : past[i] = {} /\ row[i].status = "none"
  BY DEF Init, Store!NoRow
<1>3. \A c \in Caller : call[c] = NoCall
  BY DEF Init
<1>4. NoCall.pc = "idle" /\ NoCall.begun <= now
  BY NoCallFacts, LifeAssumption DEF Init, NoCall
<1> QED
  BY <1>1, <1>3, <1>4, <1>2 DEF IndInv, ListHolds, LookupHolds, PastHolds, Store!Present

LEMMA TickPreserves ==
    ASSUME IndInv, Tick
    PROVE  IndInv'
<1>1. now' = now + 1 /\ now < MaxNow /\ UNCHANGED <<schema, row, call>> /\ now \in Nat
  BY DEF Tick, IndInv, TypeOK
<1>2. past \in [Id -> SUBSET Version] /\ past' = [i \in Id |-> {v \in past[i] : now' < v.until + Lag}]
  BY DEF Tick, IndInv, TypeOK
<1>3. past' \in [Id -> SUBSET Version]
  BY <1>2
<1>4. \A i \in Id : PastHolds(row[i], past'[i], now')
  <2>1. ASSUME NEW i \in Id, NEW v \in past'[i]
        PROVE  v \in past[i] /\ now' < v.until + Lag
    BY <1>2, <2>1
  <2>2. \A i \in Id : PastHolds(row[i], past[i], now)
    BY DEF IndInv
  <2> QED
    BY <2>1, <2>2 DEF PastHolds
<1>5. \A c \in Caller : call[c].begun \in Nat
  BY DEF IndInv, TypeOK, Call
<1>6. TypeOK' /\ now' <= MaxNow
  BY <1>1, <1>3, LifeAssumption DEF IndInv, TypeOK
<1> QED
  BY <1>1, <1>5, <1>6, <1>4 DEF IndInv, ListHolds, LookupHolds, PastHolds

LEMMA StepHolds ==
    ASSUME IndInv, [Next]_vars
    PROVE  IndInv'
<1>1. CASE UNCHANGED vars
  BY <1>1 DEF vars, IndInv, TypeOK, ListHolds, LookupHolds, PastHolds
<1>2. ASSUME NEW i \in Id, PutOperation(i) \/ OtherUpdate(i) \/ Expire(i)
      PROVE  IndInv'
  <2>1. RowsStep
    BY <1>2, PutStep, UpdateStep, ExpireStep DEF OtherUpdate
  <2> QED
    BY <1>2, <2>1, TablePreserves DEF PutOperation, OtherUpdate, Expire
<1> QED
  BY <1>1, <1>2, BeginPreserves, ListPreserves, FindPreserves, UpdatePreserves, DropPreserves, TickPreserves
     DEF Next, Step

\* The inductive invariant holds in every reachable state.
THEOREM IndInvHolds == Spec => []IndInv
BY InitHolds, StepHolds, PTL DEF Spec

\* Every variable keeps its type.
THEOREM TypeCorrect == Spec => []TypeOK
<1>1. IndInv => TypeOK
  BY DEF IndInv
<1> QED
  BY <1>1, IndInvHolds, PTL

\* A list has every row that was requested in a second before the deadline's and
\* is still running, on whatever page it lies.
THEOREM ListCompleteHolds == Spec => []ListComplete
<1>1. IndInv => ListComplete
  BY DEF IndInv, ListHolds, ListComplete, olderThan, Store!RunningPastDeadline
<1> QED
  BY <1>1, IndInvHolds, PTL

\* No row that is a second or more younger than the deadline is in a list.
THEOREM ListSoundHolds == Spec => []ListSound
<1>1. IndInv => ListSound
  BY DEF IndInv, ListHolds, ListSound, olderThan
<1> QED
  BY <1>1, IndInvHolds, PTL

\* What a call is told about a row is so; a lookup misses no row that was stamped
\* PutDelay + Lag or longer before it, and no update fails for its key while the
\* error is worded as expected.
THEOREM AnswersHold == Spec => []AnswerIsTrue
<1>1. IndInv => AnswerIsTrue
  BY DEF IndInv, LookupHolds, AnswerIsTrue, Store!Present
<1> QED
  BY <1>1, IndInvHolds, PTL

\* The paged, retried, conditional requests to DynamoDB implement the atomic map
\* of inmem.go: of several terminal updates of a row the first one counts.
THEOREM Refinement == Spec => ImplementsInMemStore
<1>1. Init => Store!Init
  BY DEF Init, Store!Init
<1>2. ASSUME IndInv, [Next]_vars
      PROVE  [Store!Next]_row
  <2>1. CASE UNCHANGED vars
    BY <2>1 DEF vars
  <2>2. ASSUME NEW i \in Id, PutOperation(i)
        PROVE  Store!Next
    <3>1. PICK s \in {"running", "denied"}, d \in 0 .. PutDelay :
            now >= d /\ Store!PutOperation(i, s, now - d)
      BY <2>2 DEF PutOperation
    <3>2. now - d \in 0 .. MaxNow
      BY <1>2, <3>1, LifeAssumption DEF IndInv, TypeOK
    <3> QED
      BY <3>1, <3>2 DEF Store!Next
  <2>3. ASSUME NEW i \in Id, OtherUpdate(i) \/ Expire(i)
        PROVE  Store!Next
    <3>1. CASE OtherUpdate(i)
      BY <3>1 DEF OtherUpdate, Store!Next
    <3>2. CASE Expire(i)
      <4>1. Store!Expire({i}) /\ {i} \in SUBSET Id
        BY <3>2 DEF Expire
      <4> QED
        BY <4>1 DEF Store!Next
    <3> QED
      BY <2>3, <3>1, <3>2
  <2>4. ASSUME DropTable
        PROVE  Store!Next
    <3> DEFINE I == {i \in Id : Store!Present(row[i])}
    <3>1. Store!Expire(I) /\ I \in SUBSET Id
      BY <2>4 DEF DropTable
    <3> HIDE DEF I
    <3> QED
      BY <3>1 DEF Store!Next
  <2>5. ASSUME NEW c \in Caller, UpdateItem(c), row' # row
        PROVE  Store!Next
    <3>1. Write(c, call[c].id) /\ call[c].id \in Id
      BY <1>2, <2>5 DEF UpdateItem, NextKey, IndInv, TypeOK, Call
    <3>2. Store!UpdateTerminal(call[c].id, c)
      BY <2>5, <3>1 DEF Write, Store!UpdateTerminal
    <3> QED
      BY <3>1, <3>2 DEF Store!Next
  <2>6. ASSUME NEW c \in Caller, Begin(c) \/ ListRunningPastDeadline(c) \/ FindOperation(c)
        PROVE  row' = row
    BY <2>6 DEF Begin, ListRunningPastDeadline, FindOperation
  <2>7. Tick => row' = row
    BY DEF Tick
  <2> QED
    BY <1>2, <2>1, <2>2, <2>3, <2>5, <2>6, <2>7, <2>4 DEF Next, Step
<1> QED
  BY <1>1, <1>2, IndInvHolds, PTL DEF Spec, ImplementsInMemStore, Store!Spec
=============================================================================
