--------------------------- MODULE PoliciesProofs ---------------------------
(***************************************************************************)
(* Proofs about Policies.tla, for all alphabets, lists of any length and    *)
(* any number of edits: a list of patterns denotes what its comment says,   *)
(* edits are monotone, actions are apart and permissions add up.            *)
(***************************************************************************)
EXTENDS Policies, SequenceTheorems, TLAPS

-----------------------------------------------------------------------------
(* Sequences.                                                              *)

(* A bounded sequence is a sequence, and a bound on its length. *)
LEMMA BoundedSeqs ==
  ASSUME NEW S, NEW n \in Nat, NEW s
  PROVE  s \in BoundedSeq(S, n) <=> s \in Seq(S) /\ Len(s) <= n
<1>1. ASSUME s \in BoundedSeq(S, n) PROVE s \in Seq(S) /\ Len(s) <= n
  <2>1. PICK m \in 0 .. n : s \in [1 .. m -> S]
    BY <1>1 DEF BoundedSeq, SeqOf
  <2>2. s \in Seq(S)
    BY <2>1, SeqDef
  <2>3. 1 .. m = 1 .. Len(s) /\ Len(s) \in Nat
    BY <2>1, <2>2, LenProperties
  <2>4. m = Len(s)
    BY <2>3
  <2> QED BY <2>2, <2>4
<1>2. ASSUME s \in Seq(S), Len(s) <= n PROVE s \in BoundedSeq(S, n)
  <2>1. Len(s) \in 0 .. n /\ s \in [1 .. Len(s) -> S]
    BY <1>2, LenProperties
  <2> QED BY <2>1 DEF BoundedSeq, SeqOf
<1> QED BY <1>1, <1>2

(* Front drops the last element and nothing else. *)
LEMMA FrontProperties ==
  ASSUME NEW S, NEW s \in Seq(S), s # << >>
  PROVE  /\ Front(s) \in Seq(S)
         /\ Len(Front(s)) = Len(s) - 1
         /\ \A i \in 1 .. Len(s) - 1 : Front(s)[i] = s[i]
<1>1. Len(s) \in Nat /\ Len(s) > 0
  BY EmptySeq
<1>2. \A i \in 1 .. Len(s) - 1 : s[i] \in S
  BY <1>1, ElementOfSeq
<1> DEFINE f == SubSeq(s, 1, Len(s) - 1)
<1>3. /\ f \in Seq(S)
      /\ Len(f) = IF 1 <= Len(s) - 1 THEN Len(s) - 1 - 1 + 1 ELSE 0
      /\ \A i \in 1 .. Len(s) - 1 - 1 + 1 : f[i] = s[1 + i - 1]
  BY <1>1, <1>2, SubSeqProperties
<1>4. Front(s) = f
  BY DEF Front
<1> HIDE DEF f
<1>5. ASSUME NEW i \in 1 .. Len(s) - 1 PROVE f[i] = s[i]
  <2>1. i \in 1 .. Len(s) - 1 - 1 + 1 /\ 1 + i - 1 = i
    BY <1>1
  <2> QED BY <1>3, <2>1
<1>6. Len(f) = Len(s) - 1
  <2>1. Len(f) = IF 1 <= Len(s) - 1 THEN Len(s) - 1 - 1 + 1 ELSE 0
    BY <1>3
  <2>2. CASE 1 <= Len(s) - 1
    BY <1>1, <2>1, <2>2
  <2>3. CASE ~(1 <= Len(s) - 1)
    BY <1>1, <2>1, <2>3
  <2> QED BY <2>2, <2>3
<1> QED BY <1>3, <1>4, <1>5, <1>6

(* A prefix agrees with the sequence as far as it goes. *)
LEMMA PrefixAgrees ==
  ASSUME NEW S, NEW s \in Seq(S), NEW t \in Seq(S)
  PROVE  IsPrefix(s, t) <=> Len(s) <= Len(t) /\ \A i \in 1 .. Len(s) : s[i] = t[i]
<1>1. Len(s) \in Nat /\ Len(t) \in Nat
  BY LenProperties
<1>2. SubSeq(s, 1, Len(s)) = s
  BY SubSeqFull
<1> SUFFICES ASSUME Len(s) <= Len(t)
             PROVE  s = SubSeq(t, 1, Len(s)) <=> \A i \in 1 .. Len(s) : s[i] = t[i]
  BY <1>2 DEF IsPrefix
<1>3. \A i \in 1 .. Len(s) : t[i] \in S
  BY <1>1, ElementOfSeq
<1> DEFINE u == SubSeq(t, 1, Len(s))
<1>4. /\ u \in Seq(S)
      /\ Len(u) = IF 1 <= Len(s) THEN Len(s) - 1 + 1 ELSE 0
      /\ \A i \in 1 .. Len(s) - 1 + 1 : u[i] = t[1 + i - 1]
  BY <1>1, <1>3, SubSeqProperties
<1> HIDE DEF u
<1>5. u \in Seq(S) /\ Len(u) = Len(s) /\ \A i \in 1 .. Len(s) : u[i] = t[i]
  BY <1>1, <1>4
<1>6. ASSUME \A i \in 1 .. Len(s) : s[i] = t[i] PROVE s = u
  <2>1. \A i \in 1 .. Len(s) : s[i] = u[i]
    BY <1>5, <1>6
  <2> QED BY <1>5, <2>1, SeqEqual
<1>7. s = u <=> \A i \in 1 .. Len(s) : s[i] = t[i]
  BY <1>5, <1>6
<1> QED BY <1>7 DEF u

\* t is s with some text over T after it.
Continues(t, s, T) == \E text \in Seq(T) : Len(text) <= Len(t) /\ t = s \o text

(* A sequence with a given prefix is the prefix with some text after it. *)
LEMMA PrefixSplits ==
  ASSUME NEW S, NEW T \in SUBSET S, NEW s \in Seq(S), NEW t \in Seq(T)
  PROVE  IsPrefix(s, t) <=> Continues(t, s, T)
<1>1. Len(s) \in Nat /\ Len(t) \in Nat /\ t \in Seq(S)
  BY LenProperties, SeqMonotonic
<1>2. ASSUME NEW text \in Seq(T), t = s \o text PROVE IsPrefix(s, t)
  <2> text \in Seq(S)
    BY SeqMonotonic
  <2>1. /\ Len(text) \in Nat
        /\ Len(t) = Len(s) + Len(text)
        /\ \A i \in 1 .. Len(s) + Len(text) : t[i] = IF i <= Len(s) THEN s[i] ELSE text[i - Len(s)]
    BY <1>2, LenProperties, ConcatProperties
  <2>2. Len(s) <= Len(t) /\ \A i \in 1 .. Len(s) : s[i] = t[i]
    BY <1>1, <2>1
  <2> QED BY <1>1, <2>2, PrefixAgrees
<1>3. ASSUME IsPrefix(s, t)
      PROVE  Continues(t, s, T)
  <2> DEFINE u == SubSeq(t, Len(s) + 1, Len(t))
  <2>1. Len(s) <= Len(t) /\ \A i \in 1 .. Len(s) : s[i] = t[i]
    BY <1>1, <1>3, PrefixAgrees
  <2>2. \A i \in Len(s) + 1 .. Len(t) : t[i] \in T
    BY <1>1, ElementOfSeq
  <2>3. /\ u \in Seq(T)
        /\ Len(u) = IF Len(s) + 1 <= Len(t) THEN Len(t) - (Len(s) + 1) + 1 ELSE 0
        /\ \A i \in 1 .. Len(t) - (Len(s) + 1) + 1 : u[i] = t[Len(s) + 1 + i - 1]
    BY <1>1, <2>2, SubSeqProperties
  <2> HIDE DEF u
  <2>4. /\ Len(u) = Len(t) - Len(s)
        /\ \A i \in 1 .. Len(t) - Len(s) : u[i] = t[Len(s) + i]
    BY <1>1, <2>1, <2>3
  <2> u \in Seq(S)
    BY <2>3, SeqMonotonic
  <2> DEFINE v == s \o u
  <2>5. /\ v \in Seq(S)
        /\ Len(v) = Len(s) + Len(u)
        /\ \A i \in 1 .. Len(s) + Len(u) : v[i] = IF i <= Len(s) THEN s[i] ELSE u[i - Len(s)]
    BY ConcatProperties
  <2> HIDE DEF v
  <2>6. Len(t) = Len(v)
    BY <1>1, <2>4, <2>5
  <2>7. ASSUME NEW i \in 1 .. Len(t) PROVE t[i] = v[i]
    <3>1. CASE i <= Len(s)
      BY <1>1, <2>1, <2>4, <2>5, <3>1
    <3>2. CASE i > Len(s)
      <4>1. i - Len(s) \in 1 .. Len(t) - Len(s) /\ Len(s) + (i - Len(s)) = i
        BY <1>1, <3>2
      <4>2. u[i - Len(s)] = t[i]
        BY <2>4, <4>1
      <4> QED BY <1>1, <2>4, <2>5, <3>2, <4>2
    <3> QED BY <1>1, <3>1, <3>2
  <2>8. t = v
    BY <1>1, <2>5, <2>6, <2>7, SeqEqual
  <2>9. Len(u) <= Len(t)
    BY <1>1, <2>4
  <2> QED BY <2>3, <2>8, <2>9 DEF v, Continues
<1> QED BY <1>2, <1>3 DEF Continues

(* RemoveAt shortens the sequence by one, and leaves only elements of it. *)
LEMMA RemoveAtProperties ==
  ASSUME NEW S, NEW s \in Seq(S), NEW k \in 1 .. Len(s)
  PROVE  /\ RemoveAt(s, k) \in Seq(S)
         /\ Len(RemoveAt(s, k)) = Len(s) - 1
         /\ \A i \in 1 .. Len(s) - 1 :
               \E j \in 1 .. Len(s) : RemoveAt(s, k)[i] = s[j]
<1>1. Len(s) \in Nat /\ k - 1 \in Int /\ k + 1 \in Int
  BY LenProperties
<1> DEFINE u == SubSeq(s, 1, k - 1)
           v == SubSeq(s, k + 1, Len(s))
<1>2. /\ \A i \in 1 .. k - 1 : s[i] \in S
      /\ \A i \in k + 1 .. Len(s) : s[i] \in S
  BY <1>1, ElementOfSeq
<1>3. /\ u \in Seq(S)
      /\ Len(u) = IF 1 <= k - 1 THEN k - 1 - 1 + 1 ELSE 0
      /\ \A i \in 1 .. k - 1 - 1 + 1 : u[i] = s[1 + i - 1]
  BY <1>1, <1>2, SubSeqProperties
<1>4. /\ v \in Seq(S)
      /\ Len(v) = IF k + 1 <= Len(s) THEN Len(s) - (k + 1) + 1 ELSE 0
      /\ \A i \in 1 .. Len(s) - (k + 1) + 1 : v[i] = s[k + 1 + i - 1]
  BY <1>1, <1>2, SubSeqProperties
<1> DEFINE w == u \o v
<1>5. RemoveAt(s, k) = w
  BY DEF RemoveAt
<1> HIDE DEF u, v
<1>6. /\ Len(u) = k - 1 /\ \A i \in 1 .. k - 1 : u[i] = s[i]
      /\ Len(v) = Len(s) - k /\ \A i \in 1 .. Len(s) - k : v[i] = s[k + i]
  BY <1>1, <1>3, <1>4
<1>7. /\ w \in Seq(S)
      /\ Len(w) = Len(u) + Len(v)
      /\ \A i \in 1 .. Len(u) + Len(v) : w[i] = IF i <= Len(u) THEN u[i] ELSE v[i - Len(u)]
  BY <1>3, <1>4, ConcatProperties
<1> HIDE DEF w
<1>8. Len(w) = Len(s) - 1
  BY <1>1, <1>6, <1>7
<1>9. ASSUME NEW i \in 1 .. Len(s) - 1 PROVE \E j \in 1 .. Len(s) : w[i] = s[j]
  <2>1. CASE i <= k - 1
    <3>1. i \in 1 .. k - 1 /\ i \in 1 .. Len(s)
      BY <1>1, <2>1
    <3>2. i \in 1 .. Len(u) + Len(v) /\ i <= Len(u)
      BY <1>1, <1>6, <2>1
    <3>3. w[i] = u[i]
      BY <1>7, <3>2
    <3>4. w[i] = s[i]
      BY <1>6, <3>1, <3>3
    <3> QED BY <3>1, <3>4
  <2>2. CASE i > k - 1
    <3>1. i - (k - 1) \in 1 .. Len(s) - k /\ i + 1 \in 1 .. Len(s) /\ k + (i - (k - 1)) = i + 1
      BY <1>1, <2>2
    <3>2. v[i - (k - 1)] = s[i + 1]
      BY <1>6, <3>1
    <3>3. w[i] = v[i - (k - 1)]
      BY <1>1, <1>6, <1>7, <2>2
    <3> QED BY <3>1, <3>2, <3>3
  <2> QED BY <1>1, <2>1, <2>2
<1> QED BY <1>5, <1>7, <1>8, <1>9

-----------------------------------------------------------------------------
(* Patterns.                                                               *)

(* Refs and patterns are sequences, of letters and of letters and the star. *)
LEMMA RefsArePatterns ==
  /\ \A r : r \in Ref <=> r \in Seq(Letter) /\ Len(r) <= MaxLength
  /\ \A p \in Pattern : p \in Seq(Letter \cup {Star})
  /\ Ref \subseteq Pattern
<1>1. MaxLength \in Nat
  BY LengthAssumption
<1>2. \A r : r \in Ref <=> r \in Seq(Letter) /\ Len(r) <= MaxLength
  BY <1>1, BoundedSeqs DEF Ref
<1>3. \A p : p \in Pattern <=> p \in Seq(Letter \cup {Star}) /\ Len(p) <= MaxLength
  BY <1>1, BoundedSeqs DEF Pattern
<1>4. \A r \in Seq(Letter) : r \in Seq(Letter \cup {Star})
  BY SeqMonotonic
<1> QED BY <1>2, <1>3, <1>4

(* The validation of MatchRef refuses exactly the patterns that are empty or
   have a star before their last character. *)
LEMMA MalformedIsNotWellFormed ==
  ASSUME NEW p \in Pattern
  PROVE  Malformed(p) <=> ~WellFormed(p)
<1>1. p \in Seq(Letter \cup {Star})
  BY RefsArePatterns
<1>2. CASE p = << >>
  BY <1>2 DEF Malformed, WellFormed
<1>3. CASE p # << >>
  <2>1. /\ Front(p) \in Seq(Letter \cup {Star})
        /\ Len(Front(p)) = Len(p) - 1
        /\ \A i \in 1 .. Len(p) - 1 : Front(p)[i] = p[i]
    BY <1>1, <1>3, FrontProperties
  <2>2. Range(Front(p)) = {Front(p)[i] : i \in 1 .. Len(p) - 1}
    BY <2>1, RangeEquality
  <2>3. Star \in Range(Front(p)) <=> \E i \in 1 .. Len(p) - 1 : p[i] = Star
    BY <2>1, <2>2
  <2> QED BY <1>3, <2>3 DEF Malformed, WellFormed
<1> QED BY <1>2, <1>3

(* A pattern that MatchRef has let through matches the refs it stands for. *)
LEMMA MatchesIsDenotes ==
  ASSUME NEW p \in Pattern, p # << >>, NEW r \in Ref, r # << >>
  PROVE  Matches(p, r) <=> r \in Denotes(p)
<1>1. p \in Seq(Letter \cup {Star}) /\ r \in Seq(Letter)
  BY RefsArePatterns
<1>2. Len(p) \in Nat /\ Len(p) > 0 /\ Len(r) \in Nat /\ Len(r) <= MaxLength /\ MaxLength \in Nat
  BY <1>1, EmptySeq, LenProperties, RefsArePatterns, LengthAssumption
<1>3. Front(p) \in Seq(Letter \cup {Star})
  BY <1>1, FrontProperties
<1>4. CASE p[Len(p)] = Star
  <2>1. p # r
    <3>1. SUFFICES ASSUME p = r PROVE FALSE
      OBVIOUS
    <3>2. p[Len(p)] \in Letter
      BY <1>1, <1>2, <3>1, ElementOfSeq
    <3> QED BY <1>4, <3>2, CharacterAssumption
  <2>2. IsPrefix(Front(p), r) <=> Continues(r, Front(p), Letter)
    <3> DEFINE S == Letter \cup {Star}
    <3>1. Letter \in SUBSET S /\ Front(p) \in Seq(S)
      BY <1>3
    <3> HIDE DEF S
    <3> QED BY <1>1, <3>1, PrefixSplits
  <2>3. Continues(r, Front(p), Letter) <=> \E text \in Ref : r = Front(p) \o text
    <3>1. ASSUME NEW text \in Seq(Letter), Len(text) <= Len(r) PROVE text \in Ref
      <4>1. Len(text) \in Nat
        BY LenProperties
      <4>2. Len(text) <= MaxLength
        BY <1>2, <3>1, <4>1
      <4> QED BY <4>2, RefsArePatterns
    <3>2. ASSUME NEW text \in Ref, r = Front(p) \o text
          PROVE  text \in Seq(Letter) /\ Len(text) <= Len(r)
      <4>1. text \in Seq(Letter) /\ text \in Seq(Letter \cup {Star})
        BY RefsArePatterns
      <4>2. Len(r) = Len(Front(p)) + Len(text) /\ Len(Front(p)) \in Nat /\ Len(text) \in Nat
        BY <1>3, <3>2, <4>1, ConcatProperties, LenProperties
      <4> QED BY <4>1, <4>2
    <3> QED BY <3>1, <3>2 DEF Continues
  <2> QED BY <1>4, <2>1, <2>2, <2>3 DEF Matches, HasSuffixStar, Denotes, Last
<1>5. CASE p[Len(p)] # Star
  BY <1>5 DEF Matches, HasSuffixStar, Denotes, Last
<1> QED BY <1>4, <1>5

-----------------------------------------------------------------------------
(* Lists.                                                                  *)

(* What MatchRef answers for a list of patterns. *)
LEMMA MatchRefDenotes ==
  ASSUME NEW l \in Seq(Pattern)
  PROVE  {r \in Ref : MatchRef(l, r) = "yes"} =
           IF l = << >> THEN Ref
           ELSE IF \E i \in DOMAIN l : ~WellFormed(l[i]) THEN {}
           ELSE UNION {Denotes(l[i]) : i \in DOMAIN l}
<1>1. CASE l = << >>
  BY <1>1 DEF MatchRef
<1>2. \A i \in DOMAIN l : l[i] \in Pattern
  BY LenProperties, ElementOfSeq
<1>3. \A i \in DOMAIN l : Malformed(l[i]) <=> ~WellFormed(l[i])
  BY <1>2, MalformedIsNotWellFormed
<1>4. CASE l # << >> /\ \E i \in DOMAIN l : ~WellFormed(l[i])
  BY <1>3, <1>4 DEF MatchRef
<1>5. CASE l # << >> /\ ~\E i \in DOMAIN l : ~WellFormed(l[i])
  <2>1. \A i \in DOMAIN l : WellFormed(l[i]) /\ l[i] # << >> /\ ~Malformed(l[i])
    BY <1>3, <1>5 DEF WellFormed
  <2>2. ASSUME NEW r \in Ref
        PROVE  MatchRef(l, r) = "yes" <=> \E i \in DOMAIN l : r \in Denotes(l[i])
    <3>1. MatchRef(l, r) = "yes" <=> r # << >> /\ \E i \in DOMAIN l : Matches(l[i], r)
      BY <1>5, <2>1 DEF MatchRef
    <3>2. ASSUME r # << >>, NEW i \in DOMAIN l PROVE Matches(l[i], r) <=> r \in Denotes(l[i])
      BY <1>2, <2>1, <3>2, MatchesIsDenotes
    <3>3. \A i \in DOMAIN l : r \in Denotes(l[i]) => r # << >>
      BY DEF Denotes
    <3> QED BY <3>1, <3>2, <3>3
  <2>3. \A i \in DOMAIN l : Denotes(l[i]) \subseteq Ref
    BY DEF Denotes
  <2> HIDE DEF MatchRef
  <2>4. {r \in Ref : MatchRef(l, r) = "yes"} = UNION {Denotes(l[i]) : i \in DOMAIN l}
    BY <2>2, <2>3
  <2> QED BY <1>5, <2>4
<1> QED BY <1>1, <1>4, <1>5

(* The more patterns a constraint has, the more refs it admits: the order of its
   list does not matter. *)
LEMMA MorePatternsAdmitMore ==
  ASSUME NEW l \in Seq(Pattern), NEW m \in Seq(Pattern),
         Constrained(l), Constrained(m),
         \A i \in DOMAIN l : \E j \in DOMAIN m : l[i] = m[j]
  PROVE  {r \in Ref : MatchRef(l, r) = "yes"} \subseteq {r \in Ref : MatchRef(m, r) = "yes"}
<1>1. {r \in Ref : MatchRef(l, r) = "yes"} = UNION {Denotes(l[i]) : i \in DOMAIN l}
  BY MatchRefDenotes DEF Constrained
<1>2. {r \in Ref : MatchRef(m, r) = "yes"} = UNION {Denotes(m[i]) : i \in DOMAIN m}
  BY MatchRefDenotes DEF Constrained
<1>3. UNION {Denotes(l[i]) : i \in DOMAIN l} \subseteq UNION {Denotes(m[i]) : i \in DOMAIN m}
  OBVIOUS
<1> QED BY <1>1, <1>2, <1>3

-----------------------------------------------------------------------------
(* The policy as it is edited.                                             *)

\* Before the first edit there are no attributes and no permissions.
LEMMA InitType == Init => TypeOK
<1> SUFFICES ASSUME Init PROVE TypeOK
  OBVIOUS
<1>1. policy \in Seq(Permission)
  BY EmptySeq DEF Init
<1> QED BY <1>1 DEF Init, TypeOK

\* Every edit leaves lists.
LEMMA NextType == TypeOK /\ [Next]_vars => TypeOK'
<1> SUFFICES ASSUME TypeOK, [Next]_vars PROVE TypeOK'
  OBVIOUS
<1>1. ASSUME NEW t \in Attribute, SetAttribute(t) PROVE TypeOK'
  <2>1. << >> \in Seq(Pattern)
    BY EmptySeq
  <2>2. PICK v \in {<< >>, Absent} : attributes' = [attributes EXCEPT ![t] = v]
    BY <1>1 DEF SetAttribute
  <2>3. v \in Seq(Pattern) \cup {Absent}
    BY <2>1
  <2>4. attributes' \in [Attribute -> Seq(Pattern) \cup {Absent}]
    BY <2>2, <2>3 DEF TypeOK
  <2> QED BY <1>1, <2>4 DEF TypeOK, SetAttribute, Edited
<1>2. ASSUME NEW t \in Attribute, NEW p \in Pattern, AddPattern(t, p) PROVE TypeOK'
  <2>1. attributes[t] \in Seq(Pattern)
    BY <1>2 DEF TypeOK, AddPattern
  <2>2. Append(attributes[t], p) \in Seq(Pattern)
    BY <2>1, AppendProperties
  <2> QED BY <1>2, <2>2 DEF TypeOK, AddPattern, Edited
<1>3. ASSUME NEW t \in Attribute, NEW i \in 1 .. MaxPatterns, RemovePattern(t, i) PROVE TypeOK'
  <2>1. attributes[t] \in Seq(Pattern) /\ i \in DOMAIN attributes[t]
    BY <1>3 DEF TypeOK, RemovePattern
  <2>2. i \in 1 .. Len(attributes[t])
    BY <2>1, LenProperties
  <2>3. RemoveAt(attributes[t], i) \in Seq(Pattern)
    BY <2>1, <2>2, RemoveAtProperties
  <2> QED BY <1>3, <2>3 DEF TypeOK, RemovePattern, Edited
<1>4. CASE RenameResource
  BY <1>4 DEF TypeOK, RenameResource, Edited
<1>5. ASSUME NEW e \in Permission, AddPermission(e) PROVE TypeOK'
  <2>1. Append(policy, e) \in Seq(Permission)
    BY AppendProperties DEF TypeOK
  <2> QED BY <1>5, <2>1 DEF TypeOK, AddPermission, Edited
<1>6. CASE UNCHANGED vars
  BY <1>6 DEF TypeOK, vars
<1> QED BY <1>1, <1>2, <1>3, <1>4, <1>5, <1>6 DEF Next

(* An attribute is absent or a list of patterns, and the file a list of
   permissions, whatever the edits. *)
THEOREM TypeCorrect == Spec => []TypeOK
BY InitType, NextType, PTL DEF Spec

(* The list that decides about an action is a list of patterns. *)
LEMMA AllowedRefsType ==
  ASSUME TypeOK, NEW a \in Action
  PROVE  AllowedRefs(a) \in Seq(Pattern)
<1>1. << >> \in Seq(Pattern) /\ a \in Attribute /\ Bare \in Attribute
  BY EmptySeq DEF Attribute
<1>2. /\ attributes[a] # Absent => attributes[a] \in Seq(Pattern)
      /\ attributes[Bare] # Absent => attributes[Bare] \in Seq(Pattern)
  BY <1>1 DEF TypeOK
<1> QED BY <1>1, <1>2 DEF AllowedRefs

(* MatchRef admits, for every list that edits can leave, exactly the refs that
   the list denotes: everything for none, nothing when a pattern is malformed,
   and otherwise what some pattern stands for. *)
THEOREM ListDenotesHolds == Spec => []ListDenotes
<1>1. TypeOK => ListDenotes
  <2> SUFFICES ASSUME TypeOK, NEW a \in Action
               PROVE  Admitted(a) =
                        IF AllowedRefs(a) = << >> THEN Ref
                        ELSE IF \E i \in DOMAIN AllowedRefs(a) : ~WellFormed(AllowedRefs(a)[i]) THEN {}
                        ELSE UNION {Denotes(AllowedRefs(a)[i]) : i \in DOMAIN AllowedRefs(a)}
    BY DEF ListDenotes
  <2>1. AllowedRefs(a) \in Seq(Pattern)
    BY AllowedRefsType
  <2> QED BY <2>1, MatchRefDenotes DEF Admitted
<1> QED BY <1>1, TypeCorrect, PTL

(* Two states in which the same list decides admit the same refs. *)
LEMMA SameListAdmitsSame ==
  ASSUME NEW a \in Action, AllowedRefs(a)' = AllowedRefs(a)
  PROVE  Admitted(a)' = Admitted(a)
BY DEF Admitted

(* Between two states that differ in one attribute, which both have, an action
   is decided by that attribute in both of them or by the same list. *)
LEMMA SameAttributeDecides ==
  ASSUME NEW a \in Action, NEW t \in Attribute, found, found',
         attributes[t] # Absent, attributes'[t] # Absent,
         \A u \in Attribute \ {t} : attributes'[u] = attributes[u]
  PROVE  \/ AllowedRefs(a)' = AllowedRefs(a)
         \/ AllowedRefs(a) = attributes[t] /\ AllowedRefs(a)' = attributes'[t]
<1>1. a \in Attribute /\ Bare \in Attribute /\ a # Bare
  BY AttributeAssumption DEF Attribute
<1>2. CASE t = a
  BY <1>2 DEF AllowedRefs
<1>3. CASE t # a /\ attributes[a] # Absent
  BY <1>1, <1>3 DEF AllowedRefs
<1>4. CASE t # a /\ attributes[a] = Absent /\ t = Bare
  BY <1>1, <1>4 DEF AllowedRefs
<1>5. CASE t # a /\ attributes[a] = Absent /\ t # Bare
  BY <1>1, <1>5 DEF AllowedRefs
<1> QED BY <1>2, <1>3, <1>4, <1>5

(* What a step does to the attribute it changes: it is removed, emptied, or
   loses or gets one pattern. *)
LEMMA StepEditsOne ==
  ASSUME TypeOK, [Next]_vars, NEW t \in Attribute,
         attributes[t] # Absent, attributes'[t] # Absent
  PROVE  \/ attributes'[t] = attributes[t]
         \/ attributes'[t] = << >>
         \/ /\ Len(attributes'[t]) = Len(attributes[t]) + 1
            /\ \A i \in DOMAIN attributes[t] : \E j \in DOMAIN attributes'[t] :
                  attributes[t][i] = attributes'[t][j]
         \/ /\ Len(attributes'[t]) = Len(attributes[t]) - 1
            /\ \A i \in DOMAIN attributes'[t] : \E j \in DOMAIN attributes[t] :
                  attributes'[t][i] = attributes[t][j]
<1> DEFINE l == attributes[t]
           Goal == \/ attributes'[t] = l
                   \/ attributes'[t] = << >>
                   \/ /\ Len(attributes'[t]) = Len(l) + 1
                      /\ \A i \in DOMAIN l : \E j \in DOMAIN attributes'[t] :
                            l[i] = attributes'[t][j]
                   \/ /\ Len(attributes'[t]) = Len(l) - 1
                      /\ \A i \in DOMAIN attributes'[t] : \E j \in DOMAIN l :
                            attributes'[t][i] = l[j]
<1>0. l \in Seq(Pattern) /\ Len(l) \in Nat /\ DOMAIN l = 1 .. Len(l)
  <2>1. l \in Seq(Pattern)
    BY DEF TypeOK
  <2> QED BY <2>1, LenProperties
<1>1. ASSUME NEW u \in Attribute, SetAttribute(u) PROVE Goal
  <2>1. PICK v \in {<< >>, Absent} : attributes' = [attributes EXCEPT ![u] = v]
    BY <1>1 DEF SetAttribute
  <2>2. attributes'[t] = IF t = u THEN v ELSE l
    BY <2>1 DEF TypeOK
  <2>3. attributes'[t] = l \/ attributes'[t] = << >>
    BY <2>2
  <2> QED BY <2>3
<1>2. ASSUME NEW u \in Attribute, NEW p \in Pattern, AddPattern(u, p) PROVE Goal
  <2>1. CASE t # u
    BY <1>2, <2>1 DEF AddPattern, TypeOK
  <2>2. CASE t = u
    <3> DEFINE m == Append(l, p)
    <3>1. attributes'[t] = m
      BY <1>2, <2>2 DEF AddPattern, TypeOK
    <3>2. m \in Seq(Pattern) /\ Len(m) = Len(l) + 1 /\ \A i \in 1 .. Len(l) : m[i] = l[i]
      BY <1>0, AppendProperties
    <3>3. DOMAIN m = 1 .. Len(l) + 1
      BY <3>2, LenProperties
    <3> HIDE DEF m, l
    <3>4. \A i \in DOMAIN l : i \in DOMAIN m /\ l[i] = m[i]
      BY <1>0, <3>2, <3>3
    <3> QED BY <3>1, <3>2, <3>4
  <2> QED BY <2>1, <2>2
<1>3. ASSUME NEW u \in Attribute, NEW k \in 1 .. MaxPatterns, RemovePattern(u, k) PROVE Goal
  <2>1. CASE t # u
    BY <1>3, <2>1 DEF RemovePattern, TypeOK
  <2>2. CASE t = u
    <3> DEFINE m == RemoveAt(l, k)
    <3>1. attributes'[t] = m /\ k \in DOMAIN l
      BY <1>3, <2>2 DEF RemovePattern, TypeOK
    <3> HIDE DEF l
    <3>k. l \in Seq(Pattern) /\ k \in 1 .. Len(l)
      BY <1>0, <3>1
    <3>2. /\ m \in Seq(Pattern) /\ Len(m) = Len(l) - 1
          /\ \A i \in 1 .. Len(l) - 1 : \E j \in 1 .. Len(l) : m[i] = l[j]
      BY <3>k, RemoveAtProperties
    <3>3. DOMAIN m = 1 .. Len(l) - 1
      BY <3>2, LenProperties
    <3> HIDE DEF m, l
    <3>4. \A i \in DOMAIN m : \E j \in DOMAIN l : m[i] = l[j]
      BY <1>0, <3>2, <3>3
    <3> QED BY <3>1, <3>2, <3>4
  <2> QED BY <2>1, <2>2
<1>4. CASE RenameResource
  BY <1>4 DEF RenameResource
<1>5. ASSUME NEW e \in Permission, AddPermission(e) PROVE Goal
  BY <1>5 DEF AddPermission
<1>6. CASE UNCHANGED vars
  BY <1>6 DEF vars
<1>7. Goal
  BY <1>1, <1>2, <1>3, <1>4, <1>5, <1>6 DEF Next
<1> QED BY <1>7

(* Between constraints, taking a pattern away lets no ref in, and adding one
   locks none out. *)
THEOREM MonotoneHolds == Spec => EditsAreMonotone
<1> DEFINE Monotone ==
      \A a \in Action :
          Constrained(AllowedRefs(a)) /\ Constrained(AllowedRefs(a)') /\ found /\ found' =>
              \A t \in Attribute :
                  attributes[t] # Absent /\ attributes'[t] # Absent
                    /\ (\A u \in Attribute \ {t} : attributes'[u] = attributes[u]) =>
                  IF Len(attributes'[t]) <= Len(attributes[t])
                  THEN Admitted(a)' \subseteq Admitted(a)
                  ELSE Admitted(a) \subseteq Admitted(a)'
<1>1. TypeOK /\ TypeOK' /\ [Next]_vars => Monotone
  <2> SUFFICES ASSUME TypeOK, TypeOK', [Next]_vars, NEW a \in Action,
                      Constrained(AllowedRefs(a)), Constrained(AllowedRefs(a)'), found, found',
                      NEW t \in Attribute, attributes[t] # Absent, attributes'[t] # Absent,
                      \A u \in Attribute \ {t} : attributes'[u] = attributes[u]
               PROVE  IF Len(attributes'[t]) <= Len(attributes[t])
                      THEN Admitted(a)' \subseteq Admitted(a)
                      ELSE Admitted(a) \subseteq Admitted(a)'
    OBVIOUS
  <2>1. CASE AllowedRefs(a)' = AllowedRefs(a)
    BY <2>1, SameListAdmitsSame
  <2>2. CASE AllowedRefs(a) = attributes[t] /\ AllowedRefs(a)' = attributes'[t]
    <3> DEFINE l == attributes[t]
               m == attributes'[t]
               In(k) == {r \in Ref : MatchRef(k, r) = "yes"}
    <3>1. Admitted(a) = In(l) /\ Admitted(a)' = In(m)
      BY <2>2 DEF Admitted
    <3>2. l \in Seq(Pattern) /\ m \in Seq(Pattern) /\ Constrained(l) /\ Constrained(m)
      BY <2>2 DEF TypeOK
    <3>3. Len(l) \in Nat /\ Len(m) \in Nat
      BY <3>2, LenProperties
    <3>4. m # << >>
      BY <3>2 DEF Constrained
    <3>5. \/ m = l
          \/ Len(m) = Len(l) + 1 /\ \A i \in DOMAIN l : \E j \in DOMAIN m : l[i] = m[j]
          \/ Len(m) = Len(l) - 1 /\ \A i \in DOMAIN m : \E j \in DOMAIN l : m[i] = l[j]
      BY <3>4, StepEditsOne
    <3> HIDE DEF l, m
    <3>6. /\ (\A i \in DOMAIN l : \E j \in DOMAIN m : l[i] = m[j]) => In(l) \subseteq In(m)
          /\ (\A i \in DOMAIN m : \E j \in DOMAIN l : m[i] = l[j]) => In(m) \subseteq In(l)
      BY <3>2, MorePatternsAdmitMore
    <3> HIDE DEF In
    <3>7. IF Len(m) <= Len(l) THEN In(m) \subseteq In(l) ELSE In(l) \subseteq In(m)
      BY <3>3, <3>5, <3>6
    <3> QED BY <3>1, <3>7 DEF l, m
  <2> QED BY <2>1, <2>2, SameAttributeDecides
<1>2. TypeOK /\ TypeOK' /\ [Next]_vars => [Monotone]_vars
  BY <1>1
<1> QED BY <1>2, TypeCorrect, PTL DEF Spec, EditsAreMonotone

(* The attribute of one action has no influence on another, nor has allowed_refs
   on an action with an attribute of its own. *)
THEOREM ActionsApartHold == Spec => ActionsAreApart
<1> DEFINE Apart ==
      \A a \in Action :
          found' = found /\ attributes'[a] = attributes[a]
            /\ (attributes[a] = Absent => attributes'[Bare] = attributes[Bare]) =>
          Admitted(a)' = Admitted(a)
<1>1. Apart
  <2> SUFFICES ASSUME NEW a \in Action, found' = found, attributes'[a] = attributes[a],
                      attributes[a] = Absent => attributes'[Bare] = attributes[Bare]
               PROVE  Admitted(a)' = Admitted(a)
    OBVIOUS
  <2>1. AllowedRefs(a)' = AllowedRefs(a)
    BY DEF AllowedRefs
  <2> QED BY <2>1, SameListAdmitsSame
<1>2. [Next]_vars => [Apart]_vars
  BY <1>1
<1> QED BY <1>2, PTL DEF Spec, ActionsAreApart

(* A permission added to the file lets through exactly what it covers, and takes
   nothing away. *)
THEOREM PermissionsHold == Spec => PermissionsAddUp
<1> DEFINE AddUp ==
      \A q \in Request : FileAuthorize(q)' =
          (FileAuthorize(q) \/ (Len(policy') > Len(policy) /\ Allows(Last(policy'), q)))
<1>1. TypeOK /\ [Next]_vars => AddUp
  <2> SUFFICES ASSUME TypeOK, [Next]_vars, NEW q \in Request
               PROVE  FileAuthorize(q)' <=>
                        (FileAuthorize(q) \/ (Len(policy') > Len(policy) /\ Allows(Last(policy'), q)))
    BY DEF FileAuthorize, Allows, matchList
  <2>1. policy \in Seq(Permission) /\ Len(policy) \in Nat /\ DOMAIN policy = 1 .. Len(policy)
    <3>1. policy \in Seq(Permission)
      BY DEF TypeOK
    <3> QED BY <3>1, LenProperties
  <2>2. CASE policy' = policy
    BY <2>1, <2>2 DEF FileAuthorize
  <2>3. ASSUME NEW e \in Permission, AddPermission(e)
        PROVE  FileAuthorize(q)' <=>
                 (FileAuthorize(q) \/ (Len(policy') > Len(policy) /\ Allows(Last(policy'), q)))
    <3> DEFINE n == policy'
    <3>1. n = Append(policy, e)
      BY <2>3 DEF AddPermission
    <3>2. /\ n \in Seq(Permission) /\ Len(n) = Len(policy) + 1
          /\ \A i \in 1 .. Len(policy) : n[i] = policy[i]
          /\ n[Len(policy) + 1] = e
      BY <2>1, <3>1, AppendProperties
    <3>3. DOMAIN n = 1 .. Len(policy) + 1
      BY <3>2, LenProperties
    <3>4. Last(n) = e
      BY <3>2 DEF Last
    <3> HIDE DEF n
    <3>5. (\E i \in DOMAIN n : Allows(n[i], q)) <=>
            ((\E i \in DOMAIN policy : Allows(policy[i], q)) \/ Allows(e, q))
      <4>1. \A i \in DOMAIN n : n[i] = IF i = Len(policy) + 1 THEN e ELSE policy[i]
        BY <2>1, <3>2, <3>3
      <4>2. \A i \in DOMAIN n : i = Len(policy) + 1 \/ i \in DOMAIN policy
        BY <2>1, <3>3
      <4>3. Len(policy) + 1 \in DOMAIN n /\ DOMAIN policy \subseteq DOMAIN n
        BY <2>1, <3>3
      <4>4. \A i \in DOMAIN policy : n[i] = policy[i]
        BY <2>1, <3>2
      <4> QED BY <3>2, <4>1, <4>2, <4>3, <4>4
    <3>6. Len(n) > Len(policy)
      BY <2>1, <3>2
    <3>7. FileAuthorize(q)' <=> \E i \in DOMAIN n : Allows(n[i], q)
      BY DEF FileAuthorize, n
    <3>8. FileAuthorize(q) <=> \E i \in DOMAIN policy : Allows(policy[i], q)
      BY DEF FileAuthorize
    <3>9. FileAuthorize(q)' <=> (FileAuthorize(q) \/ (Len(n) > Len(policy) /\ Allows(Last(n), q)))
      BY <3>4, <3>5, <3>6, <3>7, <3>8
    <3> QED BY <3>9 DEF n
  <2>4. policy' = policy \/ \E e \in Permission : AddPermission(e)
    BY DEF Next, vars, SetAttribute, AddPattern, RemovePattern, RenameResource
  <2> QED BY <2>2, <2>3, <2>4
<1>2. TypeOK /\ [Next]_vars => [AddUp]_vars
  BY <1>1
<1> QED BY <1>2, TypeCorrect, PTL DEF Spec, PermissionsAddUp

=============================================================================
