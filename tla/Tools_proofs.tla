---------------------------- MODULE Tools_proofs ----------------------------
(***************************************************************************)
(* Proofs about Tools, for any number of tools, capabilities,              *)
(* contributions and overlapping validations.                              *)
(*                                                                         *)
(* The argument: a tool that has had a verdict is not "registered" again,  *)
(* so no validation of it begins; a verdict that comes on top of another   *)
(* is that of a validation which was under way already, next to the first. *)
(* The two indices of the registry grow at their ends, by a tool neither   *)
(* has; and until the callers are hasty, at most one contribution is still *)
(* to be registered, and no tool of it is.                                 *)
(***************************************************************************)
EXTENDS ToolsProps, SequenceTheorems, TLAPS

-----------------------------------------------------------------------------
(* The inductive invariant, in named parts                                 *)

\* A tool without a verdict is in its first state, and nowhere else.
VerdictInv ==
  \A t \in ToolIds : state[t] = "registered" => t \notin accepted \cup refused

\* Whoever waits for a validator next to another call, or to a verdict that
\* was given meanwhile, is known to overlap.
WaitingInv ==
  \A t \in ToolIds :
    /\ validating[t] > 1 => t \in overlapped
    /\ validating[t] > 0 /\ t \in accepted \cup refused => t \in overlapped

\* What is still to be registered, as long as nobody was hasty: tools of one
\* contribution, each once, and none the registry has.
ReservedInv ==
  ~hasty => \A c \in Contributions :
    /\ Distinct(outstanding[c])
    /\ Elements(outstanding[c]) \cap Registered = {}
    /\ \A d \in Contributions \ {c} : outstanding[c] = <<>> \/ outstanding[d] = <<>>

IInv ==
  /\ TypeOK /\ VerdictInv /\ WaitingInv /\ StatesAreEarned
  /\ ReservedInv /\ RegistrationIsSound

-----------------------------------------------------------------------------
(* Types                                                                   *)

LEMMA TypeInit == Init => TypeOK
<1>. SUFFICES ASSUME Init PROVE TypeOK
  OBVIOUS
<1>1. tools \in [Contributions -> Seq(ToolIds)]
  <2>1. UNION { [1 .. n -> ToolIds] : n \in 1 .. MaxTools } \subseteq Seq(ToolIds)
    BY ToolsAssumption
  <2>. QED
    BY <2>1 DEF Init
<1>2. /\ byId \in Seq(ToolIds) /\ byCapability \in [Capabilities -> Seq(ToolIds)]
      /\ outstanding \in [Contributions -> Seq(ToolIds)]
  BY DEF Init
<1>3. validating \in [ToolIds -> 0 .. MaxValidating]
  BY ToolsAssumption DEF Init
<1>. QED
  BY <1>1, <1>2, <1>3 DEF Init, TypeOK, LifecycleStates

\* What the registry does with a tool.
LEMMA StoreType ==
  ASSUME TypeOK, NEW t \in ToolIds, Store(t)
  PROVE  /\ byId' \in Seq(ToolIds) /\ byCapability' \in [Capabilities -> Seq(ToolIds)]
         /\ frozen' \in BOOLEAN
<1>1. CASE t \in Registered
  BY <1>1 DEF Store, TypeOK, registryVars
<1>2. CASE t \notin Registered
  <2>1. Append(byId, t) \in Seq(ToolIds)
    BY DEF TypeOK
  <2>2. capability[t] \in Capabilities
    BY DEF TypeOK
  <2>3. Append(byCapability[capability[t]], t) \in Seq(ToolIds)
    BY <2>2 DEF TypeOK
  <2>. QED
    BY <1>2, <2>1, <2>2, <2>3 DEF Store, TypeOK
<1>. QED
  BY <1>1, <1>2

LEMMA TransitionType ==
  ASSUME TypeOK, NEW t \in ToolIds, NEW new \in LifecycleStates, NEW allowed,
         Transition(t, new, allowed)
  PROVE  TypeOK'
BY DEF Transition, TypeOK, fixed, registryVars, ecosystemVars

LEMMA TypeInductive == TypeOK /\ [Next]_vars => TypeOK'
<1>. SUFFICES ASSUME TypeOK, [Next]_vars PROVE TypeOK'
  OBVIOUS
<1>. USE DEF TypeOK, fixed, registryVars, ecosystemVars, lifecycleVars
<1>1. CASE Register
  <2>1. PICK t \in ToolIds : Store(t)
    BY <1>1 DEF Register
  <2>2. /\ byId' \in Seq(ToolIds) /\ byCapability' \in [Capabilities -> Seq(ToolIds)]
        /\ frozen' \in BOOLEAN
    BY <2>1, StoreType
  <2>3. hasty' \in BOOLEAN
    BY <1>1 DEF Register
  <2>. QED
    BY <1>1, <2>2, <2>3 DEF Register
<1>2. CASE RegisterAdmitted
  <2>1. PICK c \in Contributions :
          /\ outstanding[c] # <<>>
          /\ IF frozen THEN UNCHANGED registryVars ELSE Store(Head(outstanding[c]))
          /\ clash' = (clash \/ Head(outstanding[c]) \in Registered)
          /\ outstanding' = [outstanding EXCEPT ![c] = Tail(@)]
          /\ UNCHANGED <<fixed, admitted, hasty, lifecycleVars>>
    BY <1>2 DEF RegisterAdmitted
  <2>2. Head(outstanding[c]) \in ToolIds /\ Tail(outstanding[c]) \in Seq(ToolIds)
    BY <2>1
  <2>3. /\ byId' \in Seq(ToolIds) /\ byCapability' \in [Capabilities -> Seq(ToolIds)]
        /\ frozen' \in BOOLEAN
    <3>1. CASE frozen
      BY <2>1, <3>1
    <3>2. CASE ~frozen
      BY <2>1, <2>2, <3>2, StoreType
    <3>. QED
      BY <3>1, <3>2
  <2>4. outstanding' \in [Contributions -> Seq(ToolIds)]
    BY <2>1, <2>2
  <2>5. clash' \in BOOLEAN
    BY <2>1
  <2>. QED
    BY <2>1, <2>3, <2>4, <2>5
<1>3. CASE Freeze
  BY <1>3 DEF Freeze
<1>4. CASE Admit
  <2>1. hasty' \in BOOLEAN
    BY <1>4 DEF Admit
  <2>. QED
    BY <1>4, <2>1 DEF Admit
<1>5. CASE BeginValidate
  BY <1>5, ToolsAssumption DEF BeginValidate
<1>6. CASE EndValidate
  <2>1. PICK t \in ToolIds :
          /\ validating[t] > 0
          /\ validating' = [validating EXCEPT ![t] = @ - 1]
    BY <1>6 DEF EndValidate
  <2>2. validating' \in [ToolIds -> 0 .. MaxValidating]
    BY <2>1, ToolsAssumption
  <2>3. /\ state' \in [ToolIds -> LifecycleStates]
        /\ accepted' \in SUBSET ToolIds /\ refused' \in SUBSET ToolIds
    BY <1>6 DEF EndValidate, LifecycleStates
  <2>. QED
    BY <1>6, <2>2, <2>3 DEF EndValidate
<1>7. CASE Enable \/ Disable \/ Deprecate
  BY <1>7, TransitionType DEF Enable, Disable, Deprecate, LifecycleStates
<1>8. CASE UNCHANGED vars
  BY <1>8 DEF vars
<1>. QED
  BY <1>1, <1>2, <1>3, <1>4, <1>5, <1>6, <1>7, <1>8 DEF Next, Finished

-----------------------------------------------------------------------------
(* Safety                                                                  *)

\* Only the three operations of the lifecycle manager, and the two halves of
\* its validate, touch what the lifecycle is about.
LEMMA LifecycleSteps ==
  ASSUME [Next]_vars
  PROVE  \/ UNCHANGED lifecycleVars
         \/ BeginValidate
         \/ EndValidate
         \/ \E t \in ToolIds, new \in {"enabled", "disabled", "deprecated"} :
              Transition(t, new, {"validated", "enabled", "disabled"})
<1>1. ASSUME NEW t \in ToolIds, NEW new, NEW allowed \in SUBSET {"validated", "enabled", "disabled"},
             Transition(t, new, allowed)
      PROVE  Transition(t, new, {"validated", "enabled", "disabled"})
  BY <1>1 DEF Transition
<1>2. CASE Enable \/ Disable \/ Deprecate
  BY <1>1, <1>2 DEF Enable, Disable, Deprecate
<1>3. CASE Register \/ RegisterAdmitted \/ Freeze \/ Admit \/ UNCHANGED vars
  BY <1>3 DEF Register, RegisterAdmitted, Freeze, Admit, vars
<1>. QED
  BY <1>2, <1>3 DEF Next, Finished

LEMMA SafetyInductive == IInv /\ [Next]_vars => VerdictInv' /\ WaitingInv' /\ StatesAreEarned'
<1>. SUFFICES ASSUME IInv, [Next]_vars
              PROVE  VerdictInv' /\ WaitingInv' /\ StatesAreEarned'
  OBVIOUS
<1>. USE ToolsAssumption DEF IInv, VerdictInv, WaitingInv, StatesAreEarned, TypeOK
<1>1. CASE UNCHANGED lifecycleVars
  BY <1>1 DEF lifecycleVars
<1>2. CASE BeginValidate
  BY <1>2 DEF BeginValidate, MayValidate
<1>3. CASE EndValidate
  <2>1. PICK t \in ToolIds :
          /\ validating[t] > 0
          /\ validating' = [validating EXCEPT ![t] = @ - 1]
          /\ \/ /\ state' = [state EXCEPT ![t] = "validated"]
                /\ accepted' = accepted \cup {t} /\ UNCHANGED refused
             \/ /\ state' = [state EXCEPT ![t] = "failed"]
                /\ refused' = refused \cup {t} /\ UNCHANGED accepted
          /\ UNCHANGED overlapped
    BY <1>3 DEF EndValidate
  <2>2. VerdictInv'
    BY <2>1
  <2>3. WaitingInv'
    BY <2>1
  <2>4. StatesAreEarned'
    BY <2>1
  <2>. QED
    BY <2>2, <2>3, <2>4
<1>4. ASSUME NEW t \in ToolIds, NEW new \in {"enabled", "disabled", "deprecated"},
             Transition(t, new, {"validated", "enabled", "disabled"})
      PROVE  VerdictInv' /\ WaitingInv' /\ StatesAreEarned'
  BY <1>4 DEF Transition
<1>. QED
  BY <1>1, <1>2, <1>3, <1>4, LifecycleSteps

-----------------------------------------------------------------------------
(* The registry                                                            *)

\* Two sequences in the same order still are when one that is in neither is
\* added at the end of both, or of the longer one.
LEMMA SameOrderAppend ==
  ASSUME NEW S, NEW s \in Seq(S), NEW q \in Seq(S), NEW t \in S,
         t \notin Elements(s), Elements(q) \subseteq Elements(s), SameOrder(s, q)
  PROVE  SameOrder(Append(s, t), Append(q, t)) /\ SameOrder(Append(s, t), q)
<1>1. /\ \A i \in DOMAIN s : s[i] # t /\ Append(s, t)[i] = s[i]
      /\ \A m \in DOMAIN q : q[m] # t /\ Append(q, t)[m] = q[m]
  BY DEF Elements
<1>2. /\ Len(s) \in Nat /\ DOMAIN s = 1 .. Len(s) /\ DOMAIN Append(s, t) = 1 .. Len(s) + 1
      /\ Len(q) \in Nat /\ DOMAIN q = 1 .. Len(q) /\ DOMAIN Append(q, t) = 1 .. Len(q) + 1
      /\ Append(s, t)[Len(s) + 1] = t /\ Append(q, t)[Len(q) + 1] = t
  OBVIOUS
<1>. DEFINE s1 == Append(s, t)
            q1 == Append(q, t)
<1>3. \A i \in DOMAIN s1, m \in DOMAIN q :
        s1[i] = q[m] => i \in DOMAIN s /\ s[i] = q[m]
  BY <1>1, <1>2
<1>4. \A i \in DOMAIN s1, m \in DOMAIN q1 :
        s1[i] = q1[m] => \/ i \in DOMAIN s /\ m \in DOMAIN q /\ s[i] = q[m]
                         \/ i = Len(s) + 1 /\ m = Len(q) + 1
  BY <1>1, <1>2
<1>5. \A i, j \in DOMAIN s, m, n \in DOMAIN q :
        s[i] = q[m] /\ s[j] = q[n] => (i < j <=> m < n)
  BY DEF SameOrder
<1>. HIDE DEF s1, q1
<1>6. \A i, j \in DOMAIN s1, m, n \in DOMAIN q :
        s1[i] = q[m] /\ s1[j] = q[n] => (i < j <=> m < n)
  BY <1>3, <1>5
<1>7. \A i, j \in DOMAIN s1, m, n \in DOMAIN q1 :
        s1[i] = q1[m] /\ s1[j] = q1[n] => (i < j <=> m < n)
  <2>. SUFFICES ASSUME NEW i \in DOMAIN s1, NEW j \in DOMAIN s1,
                       NEW m \in DOMAIN q1, NEW n \in DOMAIN q1,
                       s1[i] = q1[m], s1[j] = q1[n]
                PROVE  i < j <=> m < n
    OBVIOUS
  <2>1. /\ \/ i \in DOMAIN s /\ m \in DOMAIN q /\ s[i] = q[m]
           \/ i = Len(s) + 1 /\ m = Len(q) + 1
        /\ \/ j \in DOMAIN s /\ n \in DOMAIN q /\ s[j] = q[n]
           \/ j = Len(s) + 1 /\ n = Len(q) + 1
    BY <1>4
  <2>. QED
    BY <1>2, <1>5, <2>1
<1>. QED
  BY <1>6, <1>7 DEF SameOrder, s1, q1

LEMMA ElementsAppend ==
  ASSUME NEW S, NEW s \in Seq(S), NEW t \in S
  PROVE  Elements(Append(s, t)) = Elements(s) \cup {t}
<1>1. \A i \in DOMAIN s : i \in DOMAIN Append(s, t) /\ Append(s, t)[i] = s[i]
  OBVIOUS
<1>2. /\ Len(s) + 1 \in DOMAIN Append(s, t) /\ Append(s, t)[Len(s) + 1] = t
      /\ \A i \in DOMAIN Append(s, t) : i \in DOMAIN s \/ i = Len(s) + 1
  OBVIOUS
<1>. QED
  BY <1>1, <1>2 DEF Elements

\* The first part of RegistrationIsSound.
IndexInv ==
  \A k \in Capabilities :
    /\ Elements(byCapability[k]) = { t \in Registered : capability[t] = k }
    /\ SameOrder(byId, byCapability[k])

\* A tool goes into both indices or into neither.
LEMMA StoreKeepsIndices ==
  ASSUME TypeOK, IndexInv, NEW t \in ToolIds, Store(t), UNCHANGED capability
  PROVE  IndexInv' /\ Registered' \subseteq Registered \cup {t}
<1>1. CASE t \in Registered
  BY <1>1 DEF Store, registryVars, IndexInv, Registered
<1>2. CASE t \notin Registered
  <2>1. /\ byId' = Append(byId, t)
        /\ byCapability' = [byCapability EXCEPT ![capability[t]] = Append(@, t)]
    BY <1>2 DEF Store
  <2>2. /\ byId \in Seq(ToolIds) /\ capability[t] \in Capabilities
        /\ \A k \in Capabilities : byCapability[k] \in Seq(ToolIds)
    BY DEF TypeOK
  <2>3. Registered' = Registered \cup {t}
    BY <2>1, <2>2, ElementsAppend DEF Registered
  <2>4. ASSUME NEW k \in Capabilities
        PROVE  /\ Elements(byCapability'[k]) = { u \in Registered' : capability'[u] = k }
               /\ SameOrder(byId', byCapability'[k])
    <3>1. /\ Elements(byCapability[k]) = { u \in Registered : capability[u] = k }
          /\ SameOrder(byId, byCapability[k])
      BY DEF IndexInv
    <3>2. /\ SameOrder(Append(byId, t), Append(byCapability[k], t))
          /\ SameOrder(Append(byId, t), byCapability[k])
      BY <1>2, <2>2, <3>1, SameOrderAppend DEF Registered
    <3>3. Elements(Append(byCapability[k], t)) = Elements(byCapability[k]) \cup {t}
      BY <2>2, ElementsAppend
    <3>4. CASE k = capability[t]
      <4>1. byCapability'[k] = Append(byCapability[k], t)
        BY <2>1, <3>4 DEF TypeOK
      <4>. QED
        BY <2>1, <2>3, <3>1, <3>2, <3>3, <3>4, <4>1
    <3>5. CASE k # capability[t]
      <4>1. byCapability'[k] = byCapability[k]
        BY <2>1, <3>5 DEF TypeOK
      <4>. QED
        BY <2>1, <2>3, <3>1, <3>2, <3>5, <4>1
    <3>. QED
      BY <3>4, <3>5
  <2>. QED
    BY <2>3, <2>4 DEF IndexInv
<1>. QED
  BY <1>1, <1>2

\* What Tail leaves of a sequence without repetitions, and without its head.
LEMMA TailDistinct ==
  ASSUME NEW S, NEW s \in Seq(S), s # <<>>, Distinct(s)
  PROVE  /\ Distinct(Tail(s)) /\ Head(s) \in Elements(s)
         /\ Elements(Tail(s)) \subseteq Elements(s) \ {Head(s)}
<1>1. /\ DOMAIN Tail(s) = 1 .. Len(s) - 1 /\ DOMAIN s = 1 .. Len(s) /\ Len(s) \in Nat
      /\ 1 \in DOMAIN s /\ Head(s) = s[1]
      /\ \A i \in 1 .. Len(s) - 1 : Tail(s)[i] = s[i + 1]
  OBVIOUS
<1>2. \A i, j \in DOMAIN s : s[i] = s[j] => i = j
  BY DEF Distinct
<1>3. \A i \in DOMAIN Tail(s) : i + 1 \in DOMAIN s /\ i + 1 # 1
  BY <1>1
<1>4. Distinct(Tail(s))
  BY <1>1, <1>2, <1>3 DEF Distinct
<1>5. \A i \in DOMAIN Tail(s) : Tail(s)[i] \in Elements(s) /\ Tail(s)[i] # Head(s)
  BY <1>1, <1>2, <1>3 DEF Elements
<1>. QED
  BY <1>1, <1>4, <1>5 DEF Elements

LEMMA EmptyReserved == Distinct(<<>>) /\ Elements(<<>>) = {}
BY DEF Distinct, Elements

LEMMA NothingOutstanding ==
  ASSUME TypeOK, Outstanding = {}
  PROVE  \A c \in Contributions : outstanding[c] = <<>>
<1>. SUFFICES ASSUME NEW c \in Contributions, outstanding[c] # <<>> PROVE FALSE
  OBVIOUS
<1>1. outstanding[c] \in Seq(ToolIds)
  BY DEF TypeOK
<1>2. outstanding[c][1] \in Elements(outstanding[c])
  BY <1>1 DEF Elements
<1>. QED
  BY <1>2 DEF Outstanding

\* Both indices, and what is promised to a contribution.
LEMMA RegistryInductive ==
  IInv /\ [Next]_vars => ReservedInv' /\ RegistrationIsSound'
<1>. SUFFICES ASSUME IInv, [Next]_vars PROVE ReservedInv' /\ RegistrationIsSound'
  OBVIOUS
<1>0. /\ RegistrationIsSound <=> IndexInv /\ (clash => hasty)
      /\ (RegistrationIsSound <=> IndexInv /\ (clash => hasty))'
  BY DEF RegistrationIsSound, IndexInv
<1>1. TypeOK /\ ReservedInv /\ IndexInv /\ (clash => hasty)
  BY <1>0 DEF IInv
<1>2. CASE Register
  <2>1. PICK t \in ToolIds : Store(t)
    BY <1>2 DEF Register
  <2>2. IndexInv'
    BY <1>1, <1>2, <2>1, StoreKeepsIndices DEF Register, fixed
  <2>3. /\ hasty' = (hasty \/ Outstanding # {})
        /\ UNCHANGED <<outstanding, clash>>
    BY <1>2 DEF Register
  <2>4. Outstanding = {} => \A c \in Contributions : outstanding[c] = <<>>
    BY <1>1, NothingOutstanding
  <2>5. ReservedInv'
    BY <2>3, <2>4, EmptyReserved DEF ReservedInv
  <2>. QED
    BY <1>0, <1>1, <2>2, <2>3, <2>5
<1>3. CASE RegisterAdmitted
  <2>1. PICK c \in Contributions :
          /\ outstanding[c] # <<>>
          /\ IF frozen THEN UNCHANGED registryVars ELSE Store(Head(outstanding[c]))
          /\ clash' = (clash \/ Head(outstanding[c]) \in Registered)
          /\ outstanding' = [outstanding EXCEPT ![c] = Tail(@)]
          /\ UNCHANGED <<fixed, admitted, hasty, lifecycleVars>>
    BY <1>3 DEF RegisterAdmitted
  <2>. DEFINE t == Head(outstanding[c])
  <2>2. outstanding[c] \in Seq(ToolIds) /\ t \in ToolIds
    BY <1>1, <2>1 DEF TypeOK
  <2>3. IndexInv' /\ Registered' \subseteq Registered \cup {t}
    <3>1. CASE frozen
      BY <1>1, <2>1, <3>1 DEF registryVars, fixed, IndexInv, Registered
    <3>2. CASE ~frozen
      BY <1>1, <2>1, <2>2, <3>2, StoreKeepsIndices DEF fixed
    <3>. QED
      BY <3>1, <3>2
  <2>4. CASE hasty
    BY <1>0, <2>1, <2>3, <2>4 DEF ReservedInv
  <2>5. CASE ~hasty
    <3>1. /\ Distinct(outstanding[c]) /\ Elements(outstanding[c]) \cap Registered = {}
          /\ \A d \in Contributions \ {c} : outstanding[d] = <<>>
      BY <1>1, <2>1, <2>5 DEF ReservedInv
    <3>2. /\ Distinct(Tail(outstanding[c])) /\ t \in Elements(outstanding[c])
          /\ Elements(Tail(outstanding[c])) \subseteq Elements(outstanding[c]) \ {t}
      BY <2>1, <2>2, <3>1, TailDistinct
    <3>3. ~clash'
      BY <1>1, <2>1, <2>5, <3>1, <3>2
    <3>4. /\ outstanding'[c] = Tail(outstanding[c])
          /\ \A d \in Contributions \ {c} : outstanding'[d] = <<>>
      BY <1>1, <2>1, <3>1 DEF TypeOK
    <3>5. Elements(outstanding'[c]) \cap Registered' = {}
      BY <2>3, <3>1, <3>2, <3>4
    <3>6. ASSUME NEW d \in Contributions
          PROVE  /\ Distinct(outstanding'[d]) /\ Elements(outstanding'[d]) \cap Registered' = {}
                 /\ \A e \in Contributions \ {d} : outstanding'[d] = <<>> \/ outstanding'[e] = <<>>
      <4>1. CASE d = c
        BY <3>2, <3>4, <3>5, <4>1
      <4>2. CASE d # c
        BY <3>4, <4>2, EmptyReserved
      <4>. QED
        BY <4>1, <4>2
    <3>. QED
      BY <1>0, <2>3, <3>3, <3>6 DEF ReservedInv
  <2>. QED
    BY <2>4, <2>5
<1>4. CASE Admit
  <2>1. PICK c \in Contributions :
          /\ Distinct(tools[c]) /\ ~Conflict(c)
          /\ outstanding' = [outstanding EXCEPT ![c] = tools[c]]
          /\ hasty' = (hasty \/ Outstanding # {})
          /\ UNCHANGED <<fixed, registryVars, clash>>
    BY <1>4 DEF Admit
  <2>2. IndexInv' /\ Registered' = Registered
    BY <1>1, <2>1 DEF IndexInv, Registered, registryVars, fixed
  <2>3. Outstanding = {} => \A d \in Contributions : outstanding[d] = <<>>
    BY <1>1, NothingOutstanding
  <2>4. /\ outstanding'[c] = tools[c]
        /\ \A d \in Contributions \ {c} : outstanding'[d] = outstanding[d]
    BY <1>1, <2>1 DEF TypeOK
  <2>5. Elements(tools[c]) \cap Registered' = {}
    BY <2>1, <2>2 DEF Conflict
  <2>6. ASSUME ~hasty', NEW d \in Contributions
        PROVE  /\ Distinct(outstanding'[d]) /\ Elements(outstanding'[d]) \cap Registered' = {}
               /\ \A e \in Contributions \ {d} : outstanding'[d] = <<>> \/ outstanding'[e] = <<>>
    <3>1. \A e \in Contributions \ {c} : outstanding'[e] = <<>>
      BY <2>1, <2>3, <2>4, <2>6
    <3>2. CASE d = c
      BY <2>1, <2>4, <2>5, <3>1, <3>2
    <3>3. CASE d # c
      BY <3>1, <3>3, EmptyReserved
    <3>. QED
      BY <3>2, <3>3
  <2>. QED
    BY <1>0, <1>1, <2>1, <2>2, <2>6 DEF ReservedInv
<1>5. CASE UNCHANGED <<capability, byId, byCapability, outstanding, hasty, clash>>
  BY <1>0, <1>1, <1>5 DEF ReservedInv, IndexInv, Registered
<1>6. CASE \/ Freeze \/ BeginValidate \/ EndValidate \/ Enable \/ Disable \/ Deprecate
           \/ UNCHANGED vars
  BY <1>5, <1>6 DEF Freeze, BeginValidate, EndValidate, Enable, Disable, Deprecate, Transition,
     vars, fixed, registryVars, ecosystemVars
<1>. QED
  BY <1>2, <1>3, <1>4, <1>6 DEF Next, Finished

LEMMA Initially == Init => IInv
<1>. SUFFICES ASSUME Init PROVE IInv
  OBVIOUS
<1>1. TypeOK /\ VerdictInv /\ WaitingInv /\ StatesAreEarned
  BY TypeInit DEF Init, VerdictInv, WaitingInv, StatesAreEarned
<1>2. ReservedInv
  BY EmptyReserved DEF Init, ReservedInv
<1>3. RegistrationIsSound
  BY EmptyReserved DEF Init, RegistrationIsSound, Registered, SameOrder
<1>. QED
  BY <1>1, <1>2, <1>3 DEF IInv

LEMMA Inductive == IInv /\ [Next]_vars => IInv'
BY TypeInductive, SafetyInductive, RegistryInductive DEF IInv

\* The invariant of the three managers holds throughout.
THEOREM Invariance == Spec => []IInv
BY Initially, Inductive, PTL DEF Spec

\* Every variable keeps its type, whatever the bounds.
THEOREM TypeCorrect == Spec => []TypeOK
<1>1. IInv => TypeOK
  BY DEF IInv
<1>. QED
  BY <1>1, Invariance, PTL

\* Every state of a tool was earned by a verdict, and two different verdicts
\* come from overlapping validations only.
THEOREM EarnedStates == Spec => []StatesAreEarned
<1>1. IInv => StatesAreEarned
  BY DEF IInv
<1>. QED
  BY <1>1, Invariance, PTL

\* The two indices of the registry agree, and a contribution that is admitted
\* goes in completely unless something was admitted or registered before it had.
THEOREM SoundRegistration == Spec => []RegistrationIsSound
<1>1. IInv => RegistrationIsSound
  BY DEF IInv
<1>. QED
  BY <1>1, Invariance, PTL

\* Nothing but a validation that is already under way gets a tool out of
\* deprecated or failed.
THEOREM FinalStatesHold == Spec => FinalStates
<1>1. IInv /\ [Next]_vars =>
        [\A t \in ToolIds :
           state[t] \in {"deprecated", "failed"} /\ state'[t] # state[t] => validating[t] > 0]_vars
  <2>. SUFFICES ASSUME IInv, [Next]_vars, NEW t \in ToolIds,
                       state[t] \in {"deprecated", "failed"}, state'[t] # state[t]
                PROVE  validating[t] > 0
    OBVIOUS
  <2>. USE DEF IInv, TypeOK
  <2>1. CASE UNCHANGED lifecycleVars
    BY <2>1 DEF lifecycleVars
  <2>2. CASE BeginValidate
    BY <2>2 DEF BeginValidate
  <2>3. CASE EndValidate
    BY <2>3 DEF EndValidate
  <2>4. ASSUME NEW u \in ToolIds, NEW new \in {"enabled", "disabled", "deprecated"},
               Transition(u, new, {"validated", "enabled", "disabled"})
        PROVE  FALSE
    BY <2>4 DEF Transition
  <2>. QED
    BY <2>1, <2>2, <2>3, <2>4, LifecycleSteps
<1>. QED
  BY <1>1, Invariance, PTL DEF Spec, FinalStates
=============================================================================
