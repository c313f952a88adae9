------------------------------ MODULE Policies ------------------------------
(***************************************************************************)
(* What a policy says, as it is edited: the ref constraints in the          *)
(* attributes of a Keycloak resource, and the permissions of the policy     *)
(* file. Authorizer.tla takes the set of the refs that a constraint admits  *)
(* for granted; here is how the lists of patterns come to denote it.        *)
(*                                                                          *)
(* internal/authz/{ref,policy,file}.go, AllowedRefs of                      *)
(* internal/keycloak/client.go; Keycloak's administration is external.      *)
(***************************************************************************)
EXTENDS Integers, Sequences, SequencesExt

CONSTANTS
    Letter,             \* the characters of refs
    Star,               \* the character "*"
    MaxLength,          \* bound on the length of refs and patterns
    MaxPatterns,        \* bound on the length of a list of patterns
    Action,             \* deployment.restart, deployment.rollout
    Bare,               \* the attribute allowed_refs
    Absent,             \* an attribute that is not set
    Repository, Namespace, Deployment,
    MaxPermissions,     \* bound on the permissions of the policy file
    MaxEdits            \* bound on the edits

\* The attributes: allowed_refs.<action>, named by its action, and allowed_refs.
Attribute == Action \cup {Bare}

ASSUME CharacterAssumption == Star \notin Letter
ASSUME AttributeAssumption == Bare \notin Action
ASSUME LengthAssumption ==
    {MaxLength, MaxPatterns, MaxPermissions, MaxEdits} \subseteq Nat

Ref == BoundedSeq(Letter, MaxLength)
Pattern == BoundedSeq(Letter \cup {Star}, MaxLength)

Permission == [repository : Repository, action : Action,
               namespace : Namespace \cup {Star}, deployment : Deployment \cup {Star}]
Request == [repository : Repository, action : Action,
            namespace : Namespace, deployment : Deployment]

VARIABLES
    found,              \* Keycloak lists a resource of the name asked for
    attributes,         \* attributes[t]: its list of patterns
    policy,             \* the permissions of the file, in order
    edits               \* how often somebody has edited one of them

vars == <<found, attributes, policy, edits>>

Init ==
    /\ found = TRUE
    /\ attributes = [t \in Attribute |-> Absent]
    /\ policy = << >>
    /\ edits = 0

-----------------------------------------------------------------------------
(* Ref constraints.                                                        *)

\* Mutant: allowed_refs wins over allowed_refs.<action>.
BareAllowedRefs(a) ==
    IF ~found THEN << >>
    ELSE IF attributes[Bare] # Absent THEN attributes[Bare]
    ELSE IF attributes[a] # Absent THEN attributes[a] ELSE << >>

\* The most specific attribute that is set. No resource of that name, or no
\* attribute, is the empty list.
AllowedRefs(a) ==
    IF ~found THEN << >>
    ELSE IF attributes[a] # Absent THEN attributes[a]
    ELSE IF attributes[Bare] # Absent THEN attributes[Bare] ELSE << >>

\* An empty pattern, or one whose first "*" is not its last character.
Malformed(p) == p = << >> \/ \E i \in 1 .. Len(p) - 1 : p[i] = Star

HasSuffixStar(p) == p[Len(p)] = Star

Matches(p, ref) ==
    IF HasSuffixStar(p) THEN IsPrefix(Front(p), ref) ELSE p = ref

\* Mutant: patterns are validated and matched in one loop.
MatchRefMasked(allowed, ref) ==
    IF allowed = << >> THEN "yes"
    ELSE IF ref = << >> THEN "no"
    ELSE IF \E i \in DOMAIN allowed :
              /\ \A j \in 1 .. i : ~Malformed(allowed[j])
              /\ Matches(allowed[i], ref)
    THEN "yes" ELSE IF \E i \in DOMAIN allowed : Malformed(allowed[i]) THEN "malformed" ELSE "no"

\* Mutant: a pattern that does not match ends the loop.
MatchRefFirst(allowed, ref) ==
    IF allowed = << >> THEN "yes"
    ELSE IF \E i \in DOMAIN allowed : Malformed(allowed[i]) THEN "malformed"
    ELSE IF ref # << >> /\ Matches(allowed[1], ref) THEN "yes" ELSE "no"

\* MatchRef: every pattern is validated before any is matched; "*" alone matches
\* every ref but the empty one.
MatchRef(allowed, ref) ==
    IF allowed = << >> THEN "yes"
    ELSE IF \E i \in DOMAIN allowed : Malformed(allowed[i]) THEN "malformed"
    ELSE IF ref # << >> /\ \E i \in DOMAIN allowed : Matches(allowed[i], ref)
    THEN "yes" ELSE "no"

\* The refs from which action a is let through; "malformed" denies as "no" does.
Admitted(a) == {r \in Ref : MatchRef(AllowedRefs(a), r) = "yes"}

-----------------------------------------------------------------------------
(* The policy file.                                                        *)

matchList(pattern, value) == pattern = Star \/ pattern = value

Allows(e, q) == /\ e.repository = q.repository /\ e.action = q.action
                /\ matchList(e.namespace, q.namespace)
                /\ matchList(e.deployment, q.deployment)

\* Mutant: the first entry of the repository decides.
FileAuthorizeFirst(q) ==
    \E i \in DOMAIN policy :
        /\ Allows(policy[i], q)
        /\ \A j \in 1 .. i - 1 : policy[j].repository # q.repository

\* Policy.Authorize: some permission of the repository covers the request. (A
\* permission with lists stands for one with every pair of their elements.)
FileAuthorize(q) == \E i \in DOMAIN policy : Allows(policy[i], q)

-----------------------------------------------------------------------------
(* Edits.                                                                  *)

Edited == edits < MaxEdits /\ edits' = edits + 1

\* An attribute is set to a list (which may be empty) or removed.
SetAttribute(t) ==
    /\ Edited
    /\ \E v \in {<< >>, Absent} : attributes' = [attributes EXCEPT ![t] = v]
    /\ UNCHANGED <<found, policy>>

AddPattern(t, p) ==
    /\ Edited
    /\ attributes[t] # Absent /\ Len(attributes[t]) < MaxPatterns
    /\ attributes' = [attributes EXCEPT ![t] = Append(@, p)]
    /\ UNCHANGED <<found, policy>>

RemovePattern(t, i) ==
    /\ Edited
    /\ attributes[t] # Absent /\ i \in DOMAIN attributes[t]
    /\ attributes' = [attributes EXCEPT ![t] = RemoveAt(@, i)]
    /\ UNCHANGED <<found, policy>>

\* The resource is renamed, or a misspelt name is put right.
RenameResource ==
    /\ Edited
    /\ found' = ~found
    /\ UNCHANGED <<attributes, policy>>

AddPermission(e) ==
    /\ Edited
    /\ Len(policy) < MaxPermissions
    /\ policy' = Append(policy, e)
    /\ UNCHANGED <<found, attributes>>

Next == \/ \E t \in Attribute : \/ SetAttribute(t)
                                \/ \E p \in Pattern : AddPattern(t, p)
                                \/ \E i \in 1 .. MaxPatterns : RemovePattern(t, i)
        \/ RenameResource
        \/ \E e \in Permission : AddPermission(e)

Spec == Init /\ [][Next]_vars

-----------------------------------------------------------------------------
(* Properties.                                                             *)

(* What the edits leave: an attribute is absent or a list of patterns, and the
   file a list of permissions. *)
TypeOK == /\ found \in BOOLEAN
          /\ attributes \in [Attribute -> Seq(Pattern) \cup {Absent}]
          /\ policy \in Seq(Permission)
          /\ edits \in Nat

WellFormed(p) == p # << >> /\ Star \notin Range(Front(p))

\* The refs that a well-formed pattern stands for: it with its star replaced by
\* some text.
Denotes(p) == {r \in Ref \ {<< >>} :
    \/ r = p
    \/ \E text \in Ref : Last(p) = Star /\ r = Front(p) \o text}

(* MatchRef against what its comment says a list of patterns means: "a malformed
   entry cannot be masked by an earlier successful match", an empty list or none
   admits everything, and otherwise the patterns add up. *)
ListDenotes ==
    \A a \in Action : LET l == AllowedRefs(a) IN
        Admitted(a) = IF l = << >> THEN Ref
                      ELSE IF \E i \in DOMAIN l : ~WellFormed(l[i]) THEN {}
                      ELSE UNION {Denotes(l[i]) : i \in DOMAIN l}

\* The lists of action a before and after a step are constraints, and well-formed.
Constrained(l) == l # << >> /\ \A i \in DOMAIN l : WellFormed(l[i])

(* Tightening tightens: between lists that are neither empty nor malformed,
   removing a pattern never lets a ref in, and adding one never locks a ref out,
   whatever the order of the list. *)
EditsAreMonotone ==
    [][\A a \in Action :
          Constrained(AllowedRefs(a)) /\ Constrained(AllowedRefs(a)') /\ found /\ found' =>
              \A t \in Attribute :
                  attributes[t] # Absent /\ attributes'[t] # Absent
                    /\ (\A u \in Attribute \ {t} : attributes'[u] = attributes[u]) =>
                  IF Len(attributes'[t]) <= Len(attributes[t])
                  THEN Admitted(a)' \subseteq Admitted(a)
                  ELSE Admitted(a) \subseteq Admitted(a)']_vars

(* README, "fallback when no action-specific key is set": the attribute of one
   action has no influence on another, and allowed_refs none on an action that
   has an attribute of its own. *)
ActionsAreApart ==
    [][\A a \in Action :
          found' = found /\ attributes'[a] = attributes[a]
            /\ (attributes[a] = Absent => attributes'[Bare] = attributes[Bare]) =>
          Admitted(a)' = Admitted(a)]_vars

(* A permission that is added to the file lets through exactly what it covers,
   and takes nothing away that another one covers. *)
PermissionsAddUp ==
    [][\A q \in Request : FileAuthorize(q)' =
          (FileAuthorize(q) \/ (Len(policy') > Len(policy) /\ Allows(Last(policy'), q)))]_vars
=============================================================================
