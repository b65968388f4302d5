-------------------------- MODULE Boundary_proofs ---------------------------
(***************************************************************************)
(* Proofs about the two components at the boundary of the system: what     *)
(* comes in as Configuration, for any number of callers, keys and values,  *)
(* and what clients see of their requests in ClientSessions, for any       *)
(* number of requests, events, sends and events in a batch.                *)
(*                                                                         *)
(* The argument for Configuration: what a caller is about to make visible  *)
(* is the candidate the validator let pass, since nothing touches a        *)
(* candidate after it was validated; and the candidate of a caller that    *)
(* read the snapshot that is still visible is that snapshot with the       *)
(* caller's changes.  The one for ClientSessions is at its section.        *)
(***************************************************************************)
EXTENDS ConfigurationProps, ClientSessionsProps, WellFoundedInduction, TLAPS

\* The calls that have read a snapshot.
Building ==
  [at : {"number", "validate", "replace"}, change : Changes, candidate : Snapshots, seen : Nat]

-----------------------------------------------------------------------------
(* The inductive invariant, in named parts                                 *)

\* A candidate that is about to become visible was validated as it is.
CandidateInv ==
  \A u \in Callers : call[u].at = "replace" => call[u].candidate \in accepted

\* What a caller read is the visible snapshot as long as nothing else became
\* visible, and the candidate is built on it.
Fits(c, visible, made) ==
  /\ c.seen <= made
  /\ c.seen = made =>
       /\ c.candidate.values = Apply(c.change, visible.values)
       /\ c.at # "number" => c.candidate.version = visible.version + 1

ReadInv == \A u \in Callers : call[u] \in Building => Fits(call[u], snapshot, commits)

ConfigurationInv == ConfigurationTypeOK /\ CandidateInv /\ ReadInv /\ VisibleIsValidated

-----------------------------------------------------------------------------
(* Types                                                                   *)

\* Which shape a call has is told by where it is.
LEMMA Shapes ==
  ASSUME NEW c \in Calls
  PROVE  /\ c.at \in {"number", "validate", "replace"} => c \in Building
         /\ c.at = "read" => c.change \in Changes
BY DEF Calls, Idle, Building

\* The changed values are values again.
LEMMA ApplyType ==
  ASSUME NEW change \in Changes, NEW values \in Contents
  PROVE  Apply(change, values) \in Contents
<1>1. CASE change \in [set : SUBSET Keys, value : Values]
  BY <1>1 DEF Apply, Contents
<1>2. CASE change \in [remove : SUBSET Keys]
  BY <1>2 DEF Apply, Contents
<1>. QED
  BY <1>1, <1>2 DEF Changes

\* A call that goes on keeps what it has built.
LEMMA BuildingStep ==
  ASSUME NEW c \in Building
  PROVE  \A a \in {"number", "validate", "replace"} :
              /\ [c EXCEPT !.at = a] \in Building
              /\ [c EXCEPT !.at = a].at = a
              /\ [c EXCEPT !.at = a].change = c.change
              /\ [c EXCEPT !.at = a].candidate = c.candidate
              /\ [c EXCEPT !.at = a].seen = c.seen
BY DEF Building, Snapshots

\* And one that gets its version keeps the rest.
LEMMA NumberedStep ==
  ASSUME NEW c \in Building, NEW n \in Nat
  PROVE  /\ [c EXCEPT !.at = "validate", !.candidate.version = n] \in Building
         /\ [c EXCEPT !.at = "validate", !.candidate.version = n].at = "validate"
         /\ [c EXCEPT !.at = "validate", !.candidate.version = n].change = c.change
         /\ [c EXCEPT !.at = "validate", !.candidate.version = n].seen = c.seen
         /\ [c EXCEPT !.at = "validate", !.candidate.version = n].candidate.version = n
         /\ [c EXCEPT !.at = "validate", !.candidate.version = n].candidate.values
              = c.candidate.values
BY DEF Building, Snapshots

\* Calls of the three kinds are calls.
LEMMA CallKinds == Building \subseteq Calls /\ Idle \in Calls /\ Idle.at = "idle"
BY DEF Building, Calls, Idle

LEMMA TypeInit == ConfigurationInit => ConfigurationTypeOK
<1>. SUFFICES ASSUME ConfigurationInit PROVE ConfigurationTypeOK
  OBVIOUS
<1>1. PICK values \in Contents : snapshot = [version |-> 0, values |-> values]
  BY DEF ConfigurationInit
<1>2. snapshot \in Snapshots
  BY <1>1 DEF Snapshots
<1>3. call \in [Callers -> Calls]
  BY CallKinds DEF ConfigurationInit
<1>. QED
  BY <1>2, <1>3, ConfigurationAssumption DEF ConfigurationInit, ConfigurationTypeOK

\* One step of one caller: every other call stays what it is, and this one
\* becomes a call.
LEMMA TypeInductive ==
  ConfigurationTypeOK /\ [ConfigurationNext]_configurationVars => ConfigurationTypeOK'
<1>. SUFFICES ASSUME ConfigurationTypeOK, [ConfigurationNext]_configurationVars
              PROVE  ConfigurationTypeOK'
  OBVIOUS
<1>. USE ConfigurationAssumption DEF ConfigurationTypeOK
<1>1. ASSUME NEW u \in Callers, Begin(u) PROVE ConfigurationTypeOK'
  <2>1. PICK change \in Changes :
          call' = [call EXCEPT ![u] = [at |-> "read", change |-> change]]
    BY <1>1 DEF Begin
  <2>2. [at |-> "read", change |-> change] \in Calls
    BY DEF Calls
  <2>. QED
    BY <1>1, <2>1, <2>2 DEF Begin
<1>2. ASSUME NEW u \in Callers, Read(u) PROVE ConfigurationTypeOK'
  <2>1. call[u].change \in Changes /\ call[u] \in Calls
    BY <1>2, Shapes DEF Read
  <2>2. Apply(call[u].change, snapshot.values) \in Contents
    BY <2>1, ApplyType DEF Snapshots
  <2>. DEFINE next == [at |-> "number", change |-> call[u].change, seen |-> commits,
                       candidate |-> [version |-> 0,
                                      values |-> Apply(call[u].change, snapshot.values)]]
  <2>3. next \in Building
    BY <2>1, <2>2 DEF Building, Snapshots
  <2>4. call' = [call EXCEPT ![u] = next]
    BY <1>2 DEF Read
  <2>5. call' \in [Callers -> Calls]
    BY <2>3, <2>4, CallKinds
  <2>. QED
    BY <1>2, <2>5 DEF Read
<1>3. ASSUME NEW u \in Callers, Number(u) PROVE ConfigurationTypeOK'
  <2>1. call[u] \in Building
    BY <1>3, Shapes DEF Number
  <2>2. snapshot.version + 1 \in Nat
    BY DEF Snapshots
  <2>3. [call[u] EXCEPT !.at = "validate", !.candidate.version = snapshot.version + 1] \in Building
    BY <2>1, <2>2, NumberedStep
  <2>4. call' = [call EXCEPT ![u] =
          [call[u] EXCEPT !.at = "validate", !.candidate.version = snapshot.version + 1]]
    BY <1>3 DEF Number
  <2>5. call' \in [Callers -> Calls]
    BY <2>3, <2>4, CallKinds
  <2>. QED
    BY <1>3, <2>5 DEF Number
<1>4. ASSUME NEW u \in Callers, Validate(u) PROVE ConfigurationTypeOK'
  <2>1. call[u] \in Building
    BY <1>4, Shapes DEF Validate
  <2>2. [call[u] EXCEPT !.at = "replace"] \in Building
    BY <2>1, BuildingStep
  <2>3. call' \in [Callers -> Calls]
    BY <1>4, <2>2, CallKinds DEF Validate
  <2>4. call[u].candidate \in Snapshots
    BY <2>1 DEF Building
  <2>. QED
    BY <1>4, <2>3, <2>4 DEF Validate
<1>5. ASSUME NEW u \in Callers, Replace(u) PROVE ConfigurationTypeOK'
  <2>1. call[u] \in Building
    BY <1>5, Shapes DEF Replace
  <2>2. call[u].candidate \in Snapshots
    BY <2>1 DEF Building
  <2>3. call' \in [Callers -> Calls]
    BY <1>5, CallKinds DEF Replace
  <2>4. commits' \in 0 .. MaxCommits
    BY <1>5 DEF Replace
  <2>. QED
    BY <1>5, <2>2, <2>3, <2>4 DEF Replace
<1>6. CASE UNCHANGED configurationVars
  BY <1>6 DEF configurationVars
<1>. QED
  BY <1>1, <1>2, <1>3, <1>4, <1>5, <1>6 DEF ConfigurationNext, Finished

-----------------------------------------------------------------------------
(* Safety                                                                  *)

\* Nothing is changed in a candidate between its validation and the moment it
\* becomes visible.
LEMMA CandidateInductive ==
  ConfigurationTypeOK /\ CandidateInv /\ VisibleIsValidated /\ [ConfigurationNext]_configurationVars
    => CandidateInv' /\ VisibleIsValidated'
<1>. SUFFICES ASSUME ConfigurationTypeOK, CandidateInv, VisibleIsValidated,
                     [ConfigurationNext]_configurationVars
              PROVE  CandidateInv' /\ VisibleIsValidated'
  OBVIOUS
<1>. USE DEF ConfigurationTypeOK, CandidateInv, VisibleIsValidated
<1>1. ASSUME NEW u \in Callers, Begin(u) PROVE CandidateInv' /\ VisibleIsValidated'
  BY <1>1 DEF Begin
<1>2. ASSUME NEW u \in Callers, Read(u) PROVE CandidateInv' /\ VisibleIsValidated'
  BY <1>2 DEF Read
<1>3. ASSUME NEW u \in Callers, Number(u) PROVE CandidateInv' /\ VisibleIsValidated'
  <2>1. call[u] \in Building /\ snapshot.version + 1 \in Nat
    BY <1>3, Shapes DEF Number, Snapshots
  <2>2. [call[u] EXCEPT !.at = "validate", !.candidate.version = snapshot.version + 1].at
          = "validate"
    BY <2>1, NumberedStep
  <2>3. call'[u].at = "validate"
    BY <1>3, <2>2 DEF Number
  <2>4. \A v \in Callers \ {u} : call'[v] = call[v]
    BY <1>3 DEF Number
  <2>. QED
    BY <1>3, <2>3, <2>4 DEF Number
<1>4. ASSUME NEW u \in Callers, Validate(u) PROVE CandidateInv' /\ VisibleIsValidated'
  <2>1. call[u] \in Building
    BY <1>4, Shapes DEF Validate
  <2>2. [call[u] EXCEPT !.at = "replace"].candidate = call[u].candidate
    BY <2>1, BuildingStep
  <2>3. \/ call'[u] = Idle /\ accepted' = accepted
        \/ call'[u].candidate \in accepted' /\ accepted \subseteq accepted'
    BY <1>4, <2>2 DEF Validate
  <2>4. \A v \in Callers \ {u} : call'[v] = call[v]
    BY <1>4 DEF Validate
  <2>. QED
    BY <1>4, <2>3, <2>4, CallKinds DEF Validate
<1>5. ASSUME NEW u \in Callers, Replace(u) PROVE CandidateInv' /\ VisibleIsValidated'
  <2>1. call[u].candidate \in accepted /\ UNCHANGED accepted
    BY <1>5 DEF Replace
  <2>2. call'[u] = Idle /\ \A v \in Callers \ {u} : call'[v] = call[v]
    BY <1>5 DEF Replace
  <2>. QED
    BY <1>5, <2>1, <2>2, CallKinds DEF Replace
<1>6. CASE UNCHANGED configurationVars
  BY <1>6 DEF configurationVars
<1>. QED
  BY <1>1, <1>2, <1>3, <1>4, <1>5, <1>6 DEF ConfigurationNext, Finished

\* A snapshot that becomes visible makes every candidate that was read before
\* it an old one.
LEMMA ReadInductive ==
  ConfigurationTypeOK /\ ReadInv /\ [ConfigurationNext]_configurationVars => ReadInv'
<1>. SUFFICES ASSUME ConfigurationTypeOK, ReadInv, [ConfigurationNext]_configurationVars,
                     NEW v \in Callers, call'[v] \in Building
              PROVE  Fits(call'[v], snapshot', commits')
  BY DEF ReadInv
<1>. USE DEF ConfigurationTypeOK, ReadInv
<1>0. Idle \notin Building /\ \A c \in Building : c.at \in {"number", "validate", "replace"}
  BY CallKinds DEF Building
<1>1. CASE call'[v] = call[v] /\ snapshot' = snapshot /\ commits' = commits
  BY <1>1
<1>2. ASSUME NEW u \in Callers, Begin(u) PROVE Fits(call'[v], snapshot', commits')
  <2>1. v = u => call'[v].at = "read"
    BY <1>2 DEF Begin
  <2>2. v # u => call'[v] = call[v]
    BY <1>2 DEF Begin
  <2>. QED
    BY <1>0, <1>1, <1>2, <2>1, <2>2 DEF Begin
<1>3. ASSUME NEW u \in Callers, Read(u) PROVE Fits(call'[v], snapshot', commits')
  <2>1. CASE v = u
    <3>1. call'[v] = [at |-> "number", change |-> call[u].change, seen |-> commits,
                      candidate |-> [version |-> 0,
                                     values |-> Apply(call[u].change, snapshot.values)]]
      BY <1>3, <2>1 DEF Read
    <3>2. snapshot' = snapshot /\ commits' = commits
      BY <1>3 DEF Read
    <3>. QED
      BY <3>1, <3>2 DEF Fits
  <2>2. CASE v # u
    BY <1>1, <1>3, <2>2 DEF Read
  <2>. QED
    BY <2>1, <2>2
<1>4. ASSUME NEW u \in Callers, Number(u) PROVE Fits(call'[v], snapshot', commits')
  <2>1. CASE v = u
    <3>. DEFINE new == [call[u] EXCEPT !.at = "validate",
                                       !.candidate.version = snapshot.version + 1]
    <3>1. call[u] \in Building /\ snapshot.version + 1 \in Nat
      BY <1>4, Shapes DEF Number, Snapshots
    <3>2. /\ new.at = "validate" /\ new.change = call[u].change /\ new.seen = call[u].seen
          /\ new.candidate.version = snapshot.version + 1
          /\ new.candidate.values = call[u].candidate.values
      BY <3>1, NumberedStep
    <3>3. call'[v] = new /\ snapshot' = snapshot /\ commits' = commits
      BY <1>4, <2>1 DEF Number
    <3>4. Fits(call[u], snapshot, commits)
      BY <3>1
    <3>. HIDE DEF new
    <3>. QED
      BY <3>2, <3>3, <3>4 DEF Fits
  <2>2. CASE v # u
    BY <1>1, <1>4, <2>2 DEF Number
  <2>. QED
    BY <2>1, <2>2
<1>5. ASSUME NEW u \in Callers, Validate(u) PROVE Fits(call'[v], snapshot', commits')
  <2>1. CASE v = u
    <3>. DEFINE new == [call[u] EXCEPT !.at = "replace"]
    <3>1. call[u] \in Building /\ call[u].at = "validate"
      BY <1>5, Shapes DEF Validate
    <3>2. /\ new.at = "replace" /\ new.change = call[u].change /\ new.seen = call[u].seen
          /\ new.candidate = call[u].candidate
      BY <3>1, BuildingStep
    <3>3. call'[v] = new /\ snapshot' = snapshot /\ commits' = commits
      BY <1>0, <1>5, <2>1 DEF Validate
    <3>4. Fits(call[u], snapshot, commits)
      BY <3>1
    <3>. HIDE DEF new
    <3>. QED
      BY <3>1, <3>2, <3>3, <3>4 DEF Fits
  <2>2. CASE v # u
    BY <1>1, <1>5, <2>2 DEF Validate
  <2>. QED
    BY <2>1, <2>2
<1>6. ASSUME NEW u \in Callers, Replace(u) PROVE Fits(call'[v], snapshot', commits')
  <2>1. v # u /\ call'[v] = call[v] /\ commits' = commits + 1
    BY <1>0, <1>6 DEF Replace
  <2>2. call[v].seen \in Nat /\ call[v].seen <= commits
    BY <2>1 DEF Fits, Building
  <2>. QED
    BY <2>1, <2>2 DEF Fits
<1>7. CASE UNCHANGED configurationVars
  BY <1>1, <1>7 DEF configurationVars
<1>. QED
  BY <1>2, <1>3, <1>4, <1>5, <1>6, <1>7 DEF ConfigurationNext, Finished

LEMMA Initially == ConfigurationInit => ConfigurationInv
<1>. SUFFICES ASSUME ConfigurationInit PROVE ConfigurationInv
  OBVIOUS
<1>1. ConfigurationTypeOK
  BY TypeInit
<1>2. \A u \in Callers : call[u] = Idle
  BY DEF ConfigurationInit
<1>3. CandidateInv /\ ReadInv
  BY <1>2, CallKinds DEF CandidateInv, ReadInv, Building
<1>4. VisibleIsValidated
  BY DEF ConfigurationInit, VisibleIsValidated
<1>. QED
  BY <1>1, <1>3, <1>4 DEF ConfigurationInv

LEMMA Inductive == ConfigurationInv /\ [ConfigurationNext]_configurationVars => ConfigurationInv'
BY TypeInductive, CandidateInductive, ReadInductive DEF ConfigurationInv

\* The invariant of the configuration manager holds throughout.
THEOREM ConfigurationInvariance == ConfigurationSpec => []ConfigurationInv
BY Initially, Inductive, PTL DEF ConfigurationSpec

\* Every variable keeps its type, for any number of callers, keys and values.
THEOREM ConfigurationTypeCorrect == ConfigurationSpec => []ConfigurationTypeOK
<1>1. ConfigurationInv => ConfigurationTypeOK
  BY DEF ConfigurationInv
<1>. QED
  BY <1>1, ConfigurationInvariance, PTL

\* What is visible passed the validator as it is, however many updates are
\* under way.
THEOREM OnlyValidatedIsVisible == ConfigurationSpec => []VisibleIsValidated
<1>1. ConfigurationInv => VisibleIsValidated
  BY DEF ConfigurationInv
<1>. QED
  BY <1>1, ConfigurationInvariance, PTL

\* The effect of an update on each key.
LEMMA ApplyEffect ==
  ASSUME NEW change \in Changes, NEW values \in Contents, NEW k \in Keys
  PROVE  Apply(change, values)[k] =
           IF Sets(change, k) THEN change.value
           ELSE IF Removes(change, k) THEN NoValue
           ELSE values[k]
<1>1. CASE change \in [set : SUBSET Keys, value : Values]
  <2>1. DOMAIN change = {"set", "value"}
    BY <1>1
  <2>. QED
    BY <2>1 DEF Apply, Sets, Removes
<1>2. CASE change \in [remove : SUBSET Keys]
  <2>1. DOMAIN change = {"remove"}
    BY <1>2
  <2>. QED
    BY <2>1 DEF Apply, Sets, Removes
<1>. QED
  BY <1>1, <1>2 DEF Changes

\* An update that overlaps with no other that became visible adds its own
\* changes, and nothing else, to what is visible.
THEOREM UpdatesAddUp == ConfigurationSpec => UpdatesCompose
<1>. DEFINE Composes(u) ==
       call[u].at = "replace" /\ call[u].seen = commits /\ call'[u] = Idle =>
         /\ snapshot'.version = snapshot.version + 1
         /\ \A k \in Keys :
              snapshot'.values[k] =
                IF Sets(call[u].change, k) THEN call[u].change.value
                ELSE IF Removes(call[u].change, k) THEN NoValue
                ELSE snapshot.values[k]
<1>1. ConfigurationInv /\ [ConfigurationNext]_configurationVars
        => [\A u \in Callers : Composes(u)]_configurationVars
  <2>. SUFFICES ASSUME ConfigurationInv, ConfigurationNext, NEW u \in Callers, call[u].at = "replace",
                       call[u].seen = commits, call'[u] = Idle
                PROVE  /\ snapshot'.version = snapshot.version + 1
                       /\ \A k \in Keys :
                            snapshot'.values[k] =
                              IF Sets(call[u].change, k) THEN call[u].change.value
                              ELSE IF Removes(call[u].change, k) THEN NoValue
                              ELSE snapshot.values[k]
    OBVIOUS
  <2>1. ConfigurationTypeOK /\ ReadInv
    BY DEF ConfigurationInv
  <2>2. call[u] \in Building
    BY <2>1, Shapes DEF ConfigurationTypeOK
  <2>3. call'[u] # call[u]
    BY CallKinds
  <2>4. ASSUME NEW v \in Callers, Begin(v) \/ Read(v) \/ Number(v) \/ Validate(v)
        PROVE  FALSE
    <3>1. v # u
      BY <2>1, <2>4, CallKinds DEF Begin, Read, Number, Validate
    <3>. QED
      BY <2>1, <2>3, <2>4, <3>1 DEF Begin, Read, Number, Validate, ConfigurationTypeOK
  <2>5. ASSUME NEW v \in Callers, Replace(v) PROVE v = u
    BY <2>1, <2>3, <2>5 DEF Replace, ConfigurationTypeOK
  <2>6. Replace(u)
    BY <2>3, <2>4, <2>5 DEF ConfigurationNext, Finished, configurationVars
  <2>7. snapshot' = call[u].candidate
    BY <2>6 DEF Replace
  <2>8. Fits(call[u], snapshot, commits)
    BY <2>1, <2>2 DEF ReadInv
  <2>9. /\ snapshot'.version = snapshot.version + 1
        /\ snapshot'.values = Apply(call[u].change, snapshot.values)
    BY <2>7, <2>8 DEF Fits
  <2>10. call[u].change \in Changes /\ snapshot.values \in Contents
    BY <2>1, <2>2 DEF Building, ConfigurationTypeOK, Snapshots
  <2>. QED
    BY <2>9, <2>10, ApplyEffect
<1>2. ConfigurationSpec => [][\A u \in Callers : Composes(u)]_configurationVars
  BY <1>1, ConfigurationInvariance, PTL DEF ConfigurationSpec
<1>. QED
  BY <1>2 DEF UpdatesCompose

-----------------------------------------------------------------------------
(* ClientSessions                                                          *)
(*                                                                         *)
(* The argument: an event that was published belongs to one request for    *)
(* good; a batch is merged event by event, and each keeps the events of    *)
(* the view without repetitions and its output as it was; and whatever     *)
(* reaches the handler from a voice client was made of final speech.       *)

\* A set of natural numbers has a least element: the form of induction in
\* which loops over a batch are reasoned about.
LEMMA LeastNumber ==
  ASSUME NEW T, T \subseteq Nat, T # {}
  PROVE  \E n \in T : \A m \in T : n <= m
<1>1. IsWellFoundedOn(OpToRel(<, Nat), Nat)
  BY NatLessThanWellFounded
<1>2. PICK n \in T : \A m \in T : ~(<<m, n>> \in OpToRel(<, Nat))
  BY <1>1, WFMin
<1>3. \A m \in T : ~(m < n)
  BY <1>2 DEF OpToRel
<1>4. \A m \in T : n <= m
  BY <1>3
<1>. QED
  BY <1>4

\* The views after 0, 1, ..., N events of a batch.
Loop(after, v, list, N) ==
  after = [n \in 0 .. N |-> IF n = 0 THEN v ELSE WithEvent(after[n - 1], list[n])]

LEMMA LoopExists ==
  ASSUME NEW v, NEW list, NEW N \in Nat
  PROVE  \E after : Loop(after, v, list, N)
<1>. DEFINE T == { n \in Nat : ~\E after : Loop(after, v, list, n) }
<1>. SUFFICES ASSUME T # {} PROVE FALSE
  OBVIOUS
<1>1. PICK n \in T : \A m \in T : n <= m
  <2>1. T \subseteq Nat
    OBVIOUS
  <2>. HIDE DEF T
  <2>. QED
    BY <2>1, LeastNumber
<1>2. n # 0
  <2>. SUFFICES ASSUME n = 0 PROVE FALSE
    OBVIOUS
  <2>1. Loop([i \in 0 .. 0 |-> v], v, list, 0)
    BY DEF Loop
  <2>. QED
    BY <2>1
<1>3. n \in Nat /\ n - 1 \in Nat
  BY <1>2
<1>4. n - 1 \notin T
  BY <1>1, <1>3
<1>5. PICK before : Loop(before, v, list, n - 1)
  BY <1>3, <1>4
<1>. DEFINE after == [i \in 0 .. n |-> IF i < n THEN before[i]
                                       ELSE WithEvent(before[n - 1], list[n])]
<1>6. \A i \in 0 .. n :
        after[i] = IF i = 0 THEN v ELSE WithEvent(after[i - 1], list[i])
  <2>. TAKE i \in 0 .. n
  <2>1. CASE i = 0
    BY <1>2, <1>3, <1>5, <2>1 DEF Loop
  <2>2. CASE i # 0 /\ i < n
    <3>1. i \in 0 .. n - 1 /\ i - 1 \in 0 .. n /\ i - 1 < n
      BY <1>3, <2>2
    <3>2. before[i] = WithEvent(before[i - 1], list[i])
      BY <1>5, <2>2, <3>1 DEF Loop
    <3>. QED
      BY <2>2, <3>1, <3>2
  <2>3. CASE i = n
    BY <1>2, <1>3, <2>3
  <2>. QED
    BY <1>3, <2>1, <2>2, <2>3
<1>7. Loop(after, v, list, n)
  <2>1. after = [i \in 0 .. n |-> after[i]]
    OBVIOUS
  <2>. HIDE DEF after
  <2>. QED
    BY <1>6, <2>1 DEF Loop
<1>. QED
  BY <1>7

\* What the loop over a batch computes: its last view, each being made from
\* the one before.
LEMMA MergedMeaning ==
  ASSUME NEW v, NEW list, Len(list) \in Nat
  PROVE  \E after : /\ Loop(after, v, list, Len(list))
                    /\ Merged(v, list) = after[Len(list)]
<1>. DEFINE after == CHOOSE f : Loop(f, v, list, Len(list))
<1>1. Loop(after, v, list, Len(list))
  BY LoopExists
<1>2. Merged(v, list) = after[Len(list)]
  BY DEF Merged, Loop
<1>. QED
  BY <1>1, <1>2

\* What with_event does to a view whose events are each there once.
LEMMA WithEventEffect ==
  ASSUME NEW v \in View, NEW e \in Events, IsInjective(v.events)
  PROVE  LET w == WithEvent(v, e) IN
         /\ w \in View /\ w.output = v.output
         /\ w.state \in {"pending", v.state}
         /\ IsInjective(w.events)
         /\ Range(w.events) = Range(v.events) \cup {e}
<1>. DEFINE w == WithEvent(v, e)
<1>1. v.events \in Seq(Events)
  BY DEF View
<1>2. e \in Range(v.events) <=> Contains(v.events, e)
  BY <1>1 DEF Range, Contains
<1>3. CASE Contains(v.events, e)
  BY <1>2, <1>3 DEF WithEvent
<1>4. CASE ~Contains(v.events, e)
  <2>1. w = [v EXCEPT !.state = "pending", !.events = Append(@, e)]
    BY <1>4 DEF WithEvent
  <2>. HIDE DEF w
  <2>2. /\ w.state = "pending" /\ w.output = v.output /\ w.connectivity = v.connectivity
        /\ w.events = Append(v.events, e)
    BY <2>1 DEF View
  <2>3. w \in View
    <3>1. Append(v.events, e) \in Seq(Events) /\ "pending" \in OperationStates
      BY <1>1 DEF OperationStates
    <3>2. w = [state |-> "pending", connectivity |-> v.connectivity,
               output |-> v.output, events |-> Append(v.events, e)]
      BY <2>1 DEF View
    <3>3. v.connectivity \in Connectivity /\ v.output \in Statuses \cup {None}
      BY DEF View
    <3>. QED
      BY <3>1, <3>2, <3>3, Zenon DEF View
  <2>4. /\ \A i \in DOMAIN v.events : Append(v.events, e)[i] = v.events[i] /\ v.events[i] # e
        /\ Append(v.events, e)[Len(v.events) + 1] = e
        /\ \A i \in DOMAIN Append(v.events, e) : i \in DOMAIN v.events \/ i = Len(v.events) + 1
        /\ \A i \in DOMAIN v.events : i \in DOMAIN Append(v.events, e)
        /\ Len(v.events) + 1 \in DOMAIN Append(v.events, e)
    BY <1>1, <1>4 DEF Contains
  <2>5. IsInjective(w.events)
    BY <2>2, <2>4 DEF IsInjective
  <2>6. Range(w.events) = Range(v.events) \cup {e}
    BY <2>2, <2>4 DEF Range
  <2>. QED
    BY <2>2, <2>3, <2>5, <2>6 DEF w
<1>. QED
  BY <1>3, <1>4

\* And what the loop over a batch does to it: the induction over the batch.
LEMMA MergedEffect ==
  ASSUME NEW v \in View, IsInjective(v.events), NEW list \in Seq(Events)
  PROVE  LET w == Merged(v, list) IN
         /\ w \in View /\ w.output = v.output
         /\ w.state \in {"pending", v.state}
         /\ IsInjective(w.events)
         /\ Range(w.events) = Range(v.events) \cup Range(list)
         /\ Range(list) = {} => w = v
<1>0. Len(list) \in Nat /\ \A n \in 1 .. Len(list) : list[n] \in Events
  OBVIOUS
<1>1. PICK after : Loop(after, v, list, Len(list)) /\ Merged(v, list) = after[Len(list)]
  BY <1>0, MergedMeaning
<1>2. /\ after[0] = v
      /\ \A n \in 1 .. Len(list) : after[n] = WithEvent(after[n - 1], list[n])
  BY <1>0, <1>1 DEF Loop
<1>. DEFINE Met(n)  == { list[m] : m \in 1 .. n }
            Good(n) == /\ after[n] \in View /\ after[n].output = v.output
                       /\ after[n].state \in {"pending", v.state}
                       /\ IsInjective(after[n].events)
                       /\ Range(after[n].events) = Range(v.events) \cup Met(n)
            T == { n \in 0 .. Len(list) : ~Good(n) }
<1>3. Good(0)
  <2>1. Met(0) = {}
    OBVIOUS
  <2>. QED
    BY <1>2, <2>1
<1>4. ASSUME NEW n \in 1 .. Len(list), Good(n - 1)
      PROVE  Good(n)
  <2>1. list[n] \in Events /\ after[n] = WithEvent(after[n - 1], list[n])
    BY <1>0, <1>2
  <2>2. Met(n) = Met(n - 1) \cup {list[n]}
    <3>1. \A m \in 1 .. n : m \in 1 .. n - 1 \/ m = n
      BY <1>0
    <3>2. \A m \in 1 .. n - 1 : m \in 1 .. n
      BY <1>0
    <3>3. n \in 1 .. n
      BY <1>0
    <3>. QED
      BY <3>1, <3>2, <3>3
  <2>. HIDE DEF Met
  <2>3. /\ after[n - 1] \in View /\ after[n - 1].output = v.output
        /\ after[n - 1].state \in {"pending", v.state}
        /\ IsInjective(after[n - 1].events)
        /\ Range(after[n - 1].events) = Range(v.events) \cup Met(n - 1)
    BY <1>4
  <2>4. /\ after[n] \in View /\ after[n].output = after[n - 1].output
        /\ after[n].state \in {"pending", after[n - 1].state}
        /\ IsInjective(after[n].events)
        /\ Range(after[n].events) = Range(after[n - 1].events) \cup {list[n]}
    <3>. DEFINE u == after[n - 1]
                w == WithEvent(u, list[n])
    <3>1. u \in View /\ IsInjective(u.events)
      BY <2>3
    <3>. HIDE DEF u
    <3>2. /\ w \in View /\ w.output = u.output
          /\ w.state \in {"pending", u.state}
          /\ IsInjective(w.events)
          /\ Range(w.events) = Range(u.events) \cup {list[n]}
      BY <2>1, <3>1, WithEventEffect
    <3>. HIDE DEF w
    <3>3. after[n] = w
      BY <2>1 DEF u, w
    <3>. QED
      BY <3>2, <3>3 DEF u
  <2>. QED
    BY <2>2, <2>3, <2>4
<1>5. Good(Len(list))
  <2>. HIDE DEF Good
  <2>. SUFFICES ASSUME T # {} PROVE FALSE
    BY <1>0
  <2>1. PICK n \in T : \A m \in T : n <= m
    <3>1. T \subseteq Nat
      BY <1>0
    <3>. HIDE DEF T
    <3>. QED
      BY <3>1, LeastNumber
  <2>2. n \in 1 .. Len(list)
    BY <1>0, <1>3, <2>1
  <2>3. n - 1 \in 0 .. Len(list) /\ n - 1 \notin T
    BY <1>0, <2>1, <2>2
  <2>. QED
    BY <1>4, <2>1, <2>2, <2>3
<1>6. Met(Len(list)) = Range(list)
  BY <1>0 DEF Range
<1>7. ASSUME Range(list) = {} PROVE Merged(v, list) = v
  <2>1. Len(list) = 0
    BY <1>0, <1>7 DEF Range
  <2>. QED
    BY <1>1, <1>2, <2>1
<1>. HIDE DEF Met
<1>. QED
  BY <1>1, <1>5, <1>6, <1>7

-----------------------------------------------------------------------------
(* The inductive invariant of ClientSessions                               *)

\* A request without a view has neither a response nor events.
UnseenInv ==
  \A r \in Requests : view[r] = None => response[r] = None /\ delivered[r] = {}

\* What the core publishes is about a request it was given, and what a voice
\* client can send was made of final speech.
SpokenInv ==
  /\ \A e \in Events : owner[e] # None => owner[e] \in handled
  /\ \A r \in Requests : utterance[r] => "final" \in heard[r]

ClientsInv ==
  /\ TypeOK /\ UnseenInv /\ SpokenInv
  /\ EventsAreKeptOnce /\ OutcomeIsKept /\ OnlyFinalSpeechIsHandled

\* What one step may do to the view of a request, and to what is known of it.
ViewStep(r) ==
  \/ view'[r] = view[r] /\ response'[r] = response[r] /\ delivered'[r] = delivered[r]
  \/ \E status \in Statuses :
       view'[r] = FromResponse(status) /\ response'[r] = status /\ delivered'[r] = {}
  \/ \E list \in Seq(Events) :
       /\ \A i \in DOMAIN list : owner[list[i]] = r
       /\ view'[r] = Merged(Current(r), list)
       /\ response'[r] = response[r] /\ delivered'[r] = delivered[r] \cup Range(list)
  \/ \E c \in Connectivity, s \in {view[r].state, "background", "disconnected"} :
       /\ view[r] # None
       /\ view'[r] = [view[r] EXCEPT !.state = s, !.connectivity = c]
       /\ response'[r] = response[r] /\ delivered'[r] = delivered[r]

LEMMA BatchesAreSequences ==
  ASSUME NEW list \in Batches
  PROVE  list \in Seq(Events)
<1>1. PICK n \in 0 .. MaxBatch : list \in [1 .. n -> Published]
  BY DEF Batches
<1>2. n \in Nat /\ Published \subseteq Events
  BY DEF Published
<1>. QED
  BY <1>1, <1>2

LEMMA ViewSteps ==
  ASSUME TypeOK, [Next]_vars, NEW r \in Requests
  PROVE  ViewStep(r)
<1>. USE DEF ViewStep
<1>0. /\ view \in [Requests -> View \cup {None}]
      /\ response \in [Requests -> Statuses \cup {None}]
      /\ delivered \in [Requests -> SUBSET Events]
  BY DEF TypeOK
<1>1. CASE UNCHANGED <<view, response, delivered>>
  BY <1>1
<1>2. CASE Send
  <2>1. PICK q \in Requests, status \in Statuses :
          /\ view' = [view EXCEPT ![q] = FromResponse(status)]
          /\ response' = [response EXCEPT ![q] = status]
          /\ delivered' = [delivered EXCEPT ![q] = {}]
    BY <1>2 DEF Send, Screens
  <2>. QED
    BY <1>0, <2>1
<1>3. CASE Synchronize
  <2>1. PICK q \in Requests, list \in Batches :
          /\ \A i \in DOMAIN list : owner[list[i]] = q
          /\ view' = [view EXCEPT ![q] = Merged(Current(q), list)]
          /\ delivered' = [delivered EXCEPT ![q] = @ \cup Range(list)]
          /\ response' = response
    BY <1>3 DEF Synchronize, Screens
  <2>2. list \in Seq(Events)
    BY <2>1, BatchesAreSequences
  <2>3. CASE q = r
    <3>1. /\ view'[r] = Merged(Current(r), list)
          /\ delivered'[r] = delivered[r] \cup Range(list)
      BY <1>0, <2>1, <2>3
    <3>. QED
      BY <2>1, <2>2, <2>3, <3>1
  <2>4. CASE q # r
    BY <1>0, <2>1, <2>4
  <2>. QED
    BY <2>3, <2>4
<1>4. CASE MarkBackground \/ MarkDisconnected \/ UpdateConnectivity
  <2>1. view[r] # None =>
          /\ view[r].connectivity \in Connectivity
          /\ view[r] = [view[r] EXCEPT !.state = @, !.connectivity = @]
    BY <1>0 DEF View
  <2>2. UNCHANGED <<response, delivered>>
    BY <1>4 DEF MarkBackground, MarkDisconnected, UpdateConnectivity
  <2>3. \/ view'[r] = view[r]
        \/ /\ view[r] # None
           /\ \E c \in Connectivity, s \in {view[r].state, "background", "disconnected"} :
                view'[r] = [view[r] EXCEPT !.state = s, !.connectivity = c]
    <3>1. CASE MarkBackground
      <4>1. PICK q \in Requests :
              /\ view[q] # None
              /\ view' = [view EXCEPT ![q] = [view[q] EXCEPT !.state = "background"]]
        BY <1>0, <3>1 DEF MarkBackground, Shown
      <4>2. CASE q = r
        <5>1. view'[r] = [view[r] EXCEPT !.state = "background", !.connectivity = view[r].connectivity]
          BY <1>0, <4>1, <4>2 DEF View
        <5>. QED
          BY <2>1, <4>1, <4>2, <5>1
      <4>3. CASE q # r
        BY <1>0, <4>1, <4>3
      <4>. QED
        BY <4>2, <4>3
    <3>2. CASE MarkDisconnected
      <4>1. PICK q \in Requests :
              /\ view[q] # None
              /\ \/ view' = [view EXCEPT ![q] = [view[q] EXCEPT !.state = "disconnected"]]
                 \/ view' = [view EXCEPT ![q] = [view[q] EXCEPT !.state = "disconnected",
                                                              !.connectivity = "disconnected"]]
        BY <1>0, <3>2 DEF MarkDisconnected, Shown, Screens
      <4>2. CASE q = r
        <5>1. view[r] \in View /\ r \in DOMAIN view
          BY <1>0, <4>1, <4>2
        <5>2. CASE view' = [view EXCEPT ![q] = [view[q] EXCEPT !.state = "disconnected"]]
          <6>1. view'[r] = [view[r] EXCEPT !.state = "disconnected"]
            BY <4>2, <5>1, <5>2
          <6>2. view'[r] = [view[r] EXCEPT !.state = "disconnected",
                                           !.connectivity = view[r].connectivity]
            BY <5>1, <6>1 DEF View
          <6>. QED
            BY <2>1, <4>1, <4>2, <6>2
        <5>3. CASE view' = [view EXCEPT ![q] = [view[q] EXCEPT !.state = "disconnected",
                                                             !.connectivity = "disconnected"]]
          <6>1. view'[r] = [view[r] EXCEPT !.state = "disconnected", !.connectivity = "disconnected"]
            BY <4>2, <5>1, <5>3
          <6>2. "disconnected" \in Connectivity
            BY DEF Connectivity
          <6>. QED
            BY <4>1, <4>2, <6>1, <6>2
        <5>. QED
          BY <4>1, <5>2, <5>3
      <4>3. CASE q # r
        BY <1>0, <4>1, <4>3
      <4>. QED
        BY <4>2, <4>3
    <3>3. CASE UpdateConnectivity
      <4>1. PICK q \in Requests, c \in Connectivity :
              /\ view[q] # None
              /\ view' = [view EXCEPT ![q] = [view[q] EXCEPT !.connectivity = c]]
        BY <1>0, <3>3 DEF UpdateConnectivity
      <4>2. CASE q = r
        <5>1. view'[r] = [view[r] EXCEPT !.state = view[r].state, !.connectivity = c]
          BY <1>0, <4>1, <4>2 DEF View
        <5>. QED
          BY <4>1, <4>2, <5>1
      <4>3. CASE q # r
        BY <1>0, <4>1, <4>3
      <4>. QED
        BY <4>2, <4>3
    <3>. QED
      BY <1>4, <3>1, <3>2, <3>3
  <2>. QED
    BY <2>2, <2>3
<1>5. CASE \/ SendFails \/ Publish \/ SynchronizeRaises
           \/ SubmitRecognition \/ HandleRequest \/ StopOutput
           \/ CancelRequest \/ ApplyEvent \/ UNCHANGED vars
  BY <1>1, <1>5 DEF SendFails, Publish, SynchronizeRaises,
     SubmitRecognition, HandleRequest, StopOutput,
     CancelRequest, ApplyEvent, vars
<1>. QED
  BY <1>2, <1>3, <1>4, <1>5 DEF Next

\* An event that was published keeps its request.
LEMMA OwnersStay ==
  ASSUME TypeOK, [Next]_vars, NEW e \in Events, owner[e] # None
  PROVE  owner'[e] = owner[e]
<1>1. CASE Publish
  BY <1>1 DEF Publish, TypeOK
<1>2. CASE UNCHANGED owner
  BY <1>2
<1>3. CASE \/ Send \/ SendFails \/ Synchronize \/ SynchronizeRaises
           \/ MarkBackground \/ MarkDisconnected \/ UpdateConnectivity
           \/ SubmitRecognition \/ HandleRequest \/ StopOutput
           \/ CancelRequest \/ ApplyEvent \/ UNCHANGED vars
  BY <1>2, <1>3 DEF Send, SendFails, Synchronize, SynchronizeRaises,
     MarkBackground, MarkDisconnected, UpdateConnectivity,
     SubmitRecognition, HandleRequest, StopOutput,
     CancelRequest, ApplyEvent, vars
<1>. QED
  BY <1>1, <1>3 DEF Next

\* A view made of a response, of type View and without events.
LEMMA ResponseView ==
  ASSUME NEW status \in Statuses
  PROVE  LET w == FromResponse(status) IN
         /\ w \in View /\ w.output = status /\ w.events = <<>>
         /\ w.state \in {"pending", status}
<1>. DEFINE s == IF status = "accepted" THEN "pending" ELSE status
<1>1. FromResponse(status) =
        [state |-> s, connectivity |-> "online", output |-> status, events |-> <<>>]
  <2>1. FromResponse(status) = [Fresh EXCEPT !.state = s, !.output = status]
    BY DEF FromResponse
  <2>. HIDE DEF s
  <2>. QED
    BY <2>1 DEF Fresh
<1>2. s \in OperationStates /\ s \in {"pending", status} /\ "online" \in Connectivity
  BY DEF Statuses, OperationStates, Connectivity
<1>3. <<>> \in Seq(Events)
  OBVIOUS
<1>. QED
  BY <1>1, <1>2, <1>3 DEF View

\* A view with another state and another connectivity.
LEMMA ChangedView ==
  ASSUME NEW v \in View, NEW s \in OperationStates, NEW c \in Connectivity,
         NEW w, w = [v EXCEPT !.state = s, !.connectivity = c]
  PROVE  w \in View
<1>1. v.output \in Statuses \cup {None} /\ v.events \in Seq(Events)
  BY DEF View
<1>2. w = [state |-> s, connectivity |-> c, output |-> v.output, events |-> v.events]
  BY DEF View
<1>. QED
  BY <1>1, <1>2, Zenon DEF View

LEMMA FreshView ==
  /\ Fresh \in View /\ Fresh.events = <<>>
  /\ Fresh.output = None /\ Fresh.state = "pending"
<1>1. "pending" \in OperationStates /\ "online" \in Connectivity
  BY DEF OperationStates, Connectivity
<1>2. <<>> \in Seq(Events)
  OBVIOUS
<1>. QED
  BY <1>1, <1>2 DEF Fresh, View

LEMMA NoEvents == Range(<<>>) = {} /\ IsInjective(<<>>)
BY DEF Range, IsInjective

\* What is true of the view of a request, as one formula.
Shows(v, answer, got) ==
  /\ v \in View
  /\ Range(v.events) = got /\ IsInjective(v.events)
  /\ v.output = answer
  /\ v.state \in {"pending", "disconnected", "background", answer}
  /\ got = {} /\ answer # None =>
       v.state \in {"disconnected", "background", FromResponse(answer).state}

\* Whatever a step does to a view, it keeps what it shows and of whom.
LEMMA ViewKept ==
  ASSUME ClientsInv, [Next]_vars,
         NEW r \in Requests, view'[r] # None
  PROVE  /\ Shows(view'[r], response'[r], delivered'[r])
         /\ \A e \in delivered'[r] : e \in Events /\ owner'[e] = r
<1>0. /\ view[r] \in View \cup {None} /\ response[r] \in Statuses \cup {None}
      /\ delivered[r] \in SUBSET Events /\ None \notin View /\ r # None
      /\ owner \in [Events -> Requests \cup {None}]
  BY ClientsAssumption DEF ClientsInv, TypeOK
<1>1. view[r] # None => /\ Shows(view[r], response[r], delivered[r])
                        /\ \A e \in delivered[r] : e \in Events /\ owner[e] = r
  BY <1>0 DEF ClientsInv, EventsAreKeptOnce, OutcomeIsKept, Shows
<1>2. view[r] = None => response[r] = None /\ delivered[r] = {}
  BY DEF ClientsInv, UnseenInv
<1>3. \A e \in Events : owner[e] = r => owner'[e] = r
  BY <1>0, OwnersStay DEF ClientsInv
<1>4. CASE view'[r] = view[r] /\ response'[r] = response[r] /\ delivered'[r] = delivered[r]
  BY <1>1, <1>3, <1>4
<1>5. ASSUME NEW status \in Statuses, view'[r] = FromResponse(status),
             response'[r] = status, delivered'[r] = {}
      PROVE  /\ Shows(view'[r], response'[r], delivered'[r])
             /\ \A e \in delivered'[r] : e \in Events /\ owner'[e] = r
  BY <1>5, ResponseView, NoEvents DEF Shows
<1>6. ASSUME NEW list \in Seq(Events), \A i \in DOMAIN list : owner[list[i]] = r,
             view'[r] = Merged(Current(r), list),
             response'[r] = response[r], delivered'[r] = delivered[r] \cup Range(list)
      PROVE  /\ Shows(view'[r], response'[r], delivered'[r])
             /\ \A e \in delivered'[r] : e \in Events /\ owner'[e] = r
  <2>. DEFINE v == Current(r)
              w == Merged(v, list)
  <2>1. /\ v \in View
        /\ Range(v.events) = delivered[r] /\ IsInjective(v.events)
        /\ v.output = response[r]
        /\ v.state \in {"pending", "disconnected", "background", response[r]}
        /\ delivered[r] = {} /\ response[r] # None =>
             v.state \in {"disconnected", "background", FromResponse(response[r]).state}
    <3>1. CASE view[r] = None
      BY <1>2, <3>1, FreshView, NoEvents DEF Current
    <3>2. CASE view[r] # None
      BY <1>1, <3>2 DEF Current, Shows
    <3>. QED
      BY <3>1, <3>2
  <2>. HIDE DEF v
  <2>2. /\ w \in View /\ w.output = v.output
        /\ w.state \in {"pending", v.state}
        /\ IsInjective(w.events)
        /\ Range(w.events) = Range(v.events) \cup Range(list)
        /\ Range(list) = {} => w = v
    BY <2>1, MergedEffect
  <2>3. view'[r] = w
    BY <1>6 DEF v
  <2>. HIDE DEF w
  <2>4. Shows(view'[r], response'[r], delivered'[r])
    BY <1>6, <2>1, <2>2, <2>3 DEF Shows
  <2>5. \A e \in Range(list) : e \in Events /\ owner[e] = r
    BY <1>6 DEF Range
  <2>6. \A e \in delivered[r] : e \in Events /\ owner[e] = r
    BY <1>1, <1>2
  <2>. QED
    BY <1>3, <1>6, <2>4, <2>5, <2>6
<1>7. ASSUME NEW c \in Connectivity, view[r] # None,
             NEW s \in {view[r].state, "background", "disconnected"},
             view'[r] = [view[r] EXCEPT !.state = s, !.connectivity = c],
             response'[r] = response[r], delivered'[r] = delivered[r]
      PROVE  /\ Shows(view'[r], response'[r], delivered'[r])
             /\ \A e \in delivered'[r] : e \in Events /\ owner'[e] = r
  <2>1. view[r] \in View /\ s \in OperationStates
    BY <1>0, <1>7 DEF View, OperationStates
  <2>2. /\ view'[r] \in View
        /\ view'[r].state = s /\ view'[r].output = view[r].output
        /\ view'[r].events = view[r].events
    <3>. DEFINE v == view[r]
                w == [v EXCEPT !.state = s, !.connectivity = c]
    <3>1. v \in View
      BY <2>1
    <3>. HIDE DEF v
    <3>2. w \in View
      BY <2>1, <3>1, ChangedView
    <3>3. w.state = s /\ w.output = v.output /\ w.events = v.events
      BY <3>1 DEF View
    <3>4. view'[r] = w
      BY <1>7 DEF v
    <3>. HIDE DEF w
    <3>. QED
      BY <3>2, <3>3, <3>4 DEF v
  <2>. QED
    BY <1>1, <1>3, <1>7, <2>2 DEF Shows
<1>8. ViewStep(r)
  BY ViewSteps DEF ClientsInv
<1>. QED
  BY <1>4, <1>5, <1>6, <1>7, <1>8 DEF ViewStep

\* A view that is None is one nothing has happened to.
LEMMA UnseenKept ==
  ASSUME ClientsInv, [Next]_vars,
         NEW r \in Requests, view'[r] = None
  PROVE  response'[r] = None /\ delivered'[r] = {}
<1>0. /\ view[r] \in View \cup {None} /\ None \notin View
      /\ view[r] = None => response[r] = None /\ delivered[r] = {}
  BY ClientsAssumption DEF ClientsInv, TypeOK, UnseenInv
<1>1. ASSUME NEW status \in Statuses PROVE FromResponse(status) # None
  BY <1>0, ResponseView
<1>2. ASSUME NEW list \in Seq(Events) PROVE Merged(Current(r), list) # None
  <2>. DEFINE v == Current(r)
  <2>1. v \in View /\ IsInjective(v.events)
    <3>1. CASE view[r] = None
      BY <3>1, FreshView, NoEvents DEF Current
    <3>2. CASE view[r] # None
      BY <1>0, <3>2 DEF Current, ClientsInv, EventsAreKeptOnce
    <3>. QED
      BY <3>1, <3>2
  <2>. HIDE DEF v
  <2>2. Merged(v, list) \in View
    BY <2>1, MergedEffect
  <2>. QED
    BY <1>0, <2>2 DEF v
<1>3. ASSUME NEW c \in Connectivity, view[r] # None,
             NEW s \in {view[r].state, "background", "disconnected"}
      PROVE  [view[r] EXCEPT !.state = s, !.connectivity = c] # None
  <2>1. view[r] \in View /\ s \in OperationStates
    BY <1>0, <1>3 DEF View, OperationStates
  <2>. QED
    <3>. DEFINE v == view[r]
                w == [v EXCEPT !.state = s, !.connectivity = c]
    <3>1. v \in View
      BY <2>1
    <3>. HIDE DEF v
    <3>2. w \in View
      BY <2>1, <3>1, ChangedView
    <3>. QED
      BY <1>0, <3>2 DEF v
<1>4. ViewStep(r)
  BY ViewSteps DEF ClientsInv
<1>. QED
  BY <1>0, <1>1, <1>2, <1>3, <1>4 DEF ViewStep

\* The types of what is not shown.
LEMMA ClientsTypeInductive ==
  ASSUME ClientsInv, [Next]_vars
  PROVE  TypeOK'
<1>. USE DEF TypeOK
<1>0. TypeOK
  BY DEF ClientsInv
<1>1. /\ view' = [r \in Requests |-> view'[r]] /\ response' = [r \in Requests |-> response'[r]]
      /\ delivered' = [r \in Requests |-> delivered'[r]]
  <2>1. CASE Send
    BY <1>0, <2>1 DEF Send
  <2>2. CASE Synchronize
    BY <1>0, <2>2 DEF Synchronize
  <2>3. CASE MarkBackground
    BY <1>0, <2>3 DEF MarkBackground, Shown
  <2>4. CASE MarkDisconnected
    BY <1>0, <2>4 DEF MarkDisconnected, Shown
  <2>5. CASE UpdateConnectivity
    BY <1>0, <2>5 DEF UpdateConnectivity
  <2>6. CASE UNCHANGED <<view, response, delivered>>
    BY <1>0, <2>6
  <2>7. CASE \/ SendFails \/ Publish \/ SynchronizeRaises
             \/ SubmitRecognition \/ HandleRequest \/ StopOutput
             \/ CancelRequest \/ ApplyEvent \/ UNCHANGED vars
    BY <2>6, <2>7 DEF SendFails, Publish, SynchronizeRaises,
       SubmitRecognition, HandleRequest, StopOutput,
       CancelRequest, ApplyEvent, vars
  <2>. QED
    BY <2>1, <2>2, <2>3, <2>4, <2>5, <2>7 DEF Next
<1>2. ASSUME NEW r \in Requests
      PROVE  /\ view'[r] \in View \cup {None} /\ response'[r] \in Statuses \cup {None}
             /\ delivered'[r] \in SUBSET Events
  <2>1. CASE view'[r] = None
    BY <2>1, UnseenKept
  <2>2. CASE view'[r] # None
    <3>1. Shows(view'[r], response'[r], delivered'[r]) /\ delivered'[r] \subseteq Events
      BY <2>2, ViewKept
    <3>. QED
      BY <3>1 DEF Shows, View
  <2>. QED
    BY <2>1, <2>2
<1>3. /\ view' \in [Requests -> View \cup {None}]
      /\ response' \in [Requests -> Statuses \cup {None}]
      /\ delivered' \in [Requests -> SUBSET Events]
  BY <1>1, <1>2
<1>4. /\ client' \in [Requests -> {"mobile", "web", "voice"}]
      /\ session' \in [Requests -> {"listening", "processing", "interrupted", "cancelled"}]
      /\ utterance' \in [Requests -> BOOLEAN]
      /\ sends' \in [Requests -> 0 .. MaxSends]
      /\ owner' \in [Events -> Requests \cup {None}]
      /\ heard' \in [Requests -> SUBSET Recognitions]
      /\ handled' \in SUBSET Requests
  <2>. USE ClientsAssumption
  <2>1. CASE Send
    BY <1>0, <2>1 DEF Send, Screens
  <2>2. CASE SendFails
    BY <1>0, <2>2 DEF SendFails
  <2>3. CASE Publish
    BY <1>0, <2>3 DEF Publish
  <2>4. CASE SubmitRecognition
    <3>1. PICK q \in Requests, recognized \in Recognitions :
            /\ heard' = [heard EXCEPT ![q] = @ \cup {recognized}]
            /\ utterance' = [utterance EXCEPT ![q] = @ \/ MakesRequest(recognized)]
            /\ UNCHANGED <<client, session, sends, owner, handled>>
      BY <2>4 DEF SubmitRecognition
    <3>2. heard' \in [Requests -> SUBSET Recognitions]
      BY <1>0, <3>1
    <3>3. (utterance[q] \/ MakesRequest(recognized)) \in BOOLEAN
      OBVIOUS
    <3>4. utterance' \in [Requests -> BOOLEAN]
      BY <1>0, <3>1, <3>3, Zenon
    <3>. QED
      BY <1>0, <3>1, <3>2, <3>4
  <2>5. CASE HandleRequest
    BY <1>0, <2>5 DEF HandleRequest
  <2>6. CASE StopOutput \/ CancelRequest \/ ApplyEvent
    BY <1>0, <2>6 DEF StopOutput, CancelRequest, ApplyEvent
  <2>7. CASE \/ Synchronize \/ SynchronizeRaises \/ MarkBackground
             \/ MarkDisconnected \/ UpdateConnectivity \/ UNCHANGED vars
    BY <1>0, <2>7 DEF Synchronize, SynchronizeRaises, MarkBackground,
       MarkDisconnected, UpdateConnectivity, vars
  <2>. QED
    BY <2>1, <2>2, <2>3, <2>4, <2>5, <2>6, <2>7 DEF Next
<1>. QED
  BY <1>3, <1>4

LEMMA SpokenInductive ==
  ASSUME ClientsInv, [Next]_vars
  PROVE  SpokenInv' /\ OnlyFinalSpeechIsHandled'
<1>. USE DEF SpokenInv, OnlyFinalSpeechIsHandled
<1>0. /\ TypeOK
      /\ \A e \in Events : owner[e] # None => owner[e] \in handled
      /\ \A r \in Requests : utterance[r] => "final" \in heard[r]
      /\ \A r \in Requests : client[r] = "voice" =>
           /\ r \in handled => "final" \in heard[r]
           /\ session[r] = "processing" => r \in handled
  BY DEF ClientsInv
<1>. USE DEF TypeOK
<1>1. CASE Send
  BY <1>0, <1>1 DEF Send, Screens
<1>2. CASE SendFails
  BY <1>0, <1>2 DEF SendFails
<1>3. CASE Publish
  BY <1>0, <1>3 DEF Publish
<1>4. CASE SubmitRecognition
  <2>1. PICK q \in Requests, recognized \in Recognitions :
          /\ heard' = [heard EXCEPT ![q] = @ \cup {recognized}]
          /\ utterance' = [utterance EXCEPT ![q] = @ \/ MakesRequest(recognized)]
          /\ UNCHANGED <<client, session, owner, handled>>
    BY <1>4 DEF SubmitRecognition
  <2>2. \A r \in Requests : heard[r] \subseteq heard'[r]
    BY <1>0, <2>1
  <2>3. ASSUME NEW r \in Requests, utterance'[r] PROVE "final" \in heard'[r]
    <3>1. CASE r = q
      <4>1. utterance'[r] = (utterance[r] \/ MakesRequest(recognized))
        BY <1>0, <2>1, <3>1
      <4>2. heard'[r] = heard[r] \cup {recognized}
        BY <1>0, <2>1, <3>1
      <4>3. MakesRequest(recognized) => recognized = "final"
        BY DEF MakesRequest
      <4>. QED
        BY <1>0, <2>3, <4>1, <4>2, <4>3
    <3>2. CASE r # q
      <4>1. utterance'[r] = utterance[r]
        BY <1>0, <2>1, <3>2
      <4>. QED
        BY <1>0, <2>2, <2>3, <4>1
    <3>. QED
      BY <3>1, <3>2
  <2>. QED
    BY <1>0, <2>1, <2>2, <2>3
<1>5. CASE HandleRequest
  BY <1>0, <1>5 DEF HandleRequest
<1>6. CASE StopOutput \/ CancelRequest
  BY <1>0, <1>6 DEF StopOutput, CancelRequest
<1>7. CASE ApplyEvent
  BY <1>0, <1>7 DEF ApplyEvent, Published
<1>8. CASE \/ Synchronize \/ SynchronizeRaises \/ MarkBackground
           \/ MarkDisconnected \/ UpdateConnectivity \/ UNCHANGED vars
  BY <1>0, <1>8 DEF Synchronize, SynchronizeRaises, MarkBackground,
     MarkDisconnected, UpdateConnectivity, vars
<1>. QED
  BY <1>1, <1>2, <1>3, <1>4, <1>5, <1>6, <1>7, <1>8 DEF Next

LEMMA ClientsInductive == ClientsInv /\ [Next]_vars => ClientsInv'
<1>. SUFFICES ASSUME ClientsInv, [Next]_vars PROVE ClientsInv'
  OBVIOUS
<1>1. TypeOK'
  BY ClientsTypeInductive
<1>2. UnseenInv'
  BY UnseenKept DEF UnseenInv
<1>3. EventsAreKeptOnce'
  BY ViewKept DEF Shows, EventsAreKeptOnce
<1>4. OutcomeIsKept'
  BY ViewKept DEF Shows, OutcomeIsKept
<1>5. SpokenInv' /\ OnlyFinalSpeechIsHandled'
  BY SpokenInductive
<1>. QED
  BY <1>1, <1>2, <1>3, <1>4, <1>5 DEF ClientsInv

LEMMA ClientsInitially == Init => ClientsInv
<1>. SUFFICES ASSUME Init PROVE ClientsInv
  OBVIOUS
<1>1. TypeOK
  BY ClientsAssumption DEF Init, TypeOK
<1>2. UnseenInv /\ SpokenInv /\ OnlyFinalSpeechIsHandled
  BY DEF Init, UnseenInv, SpokenInv, OnlyFinalSpeechIsHandled
<1>3. EventsAreKeptOnce /\ OutcomeIsKept
  BY DEF Init, EventsAreKeptOnce, OutcomeIsKept
<1>. QED
  BY <1>1, <1>2, <1>3 DEF ClientsInv

\* The invariant of the clients holds throughout, for any transport.
THEOREM ClientsInvariance == Spec => []ClientsInv
<1>. QED
  BY ClientsInitially, ClientsInductive, PTL DEF Spec

\* Every variable of the clients keeps its type: a view is a View, whatever
\* the transport makes of a batch.
THEOREM ClientsTypeCorrect == Spec => []TypeOK
<1>1. ClientsInv => TypeOK
  BY DEF ClientsInv
<1>. QED
  BY <1>1, ClientsInvariance, PTL

\* Batches of any length, with any repetitions and in any order, leave in a
\* view each event that was delivered for its request, once.
THEOREM EventsKept == Spec => []EventsAreKeptOnce
<1>1. ClientsInv => EventsAreKeptOnce
  BY DEF ClientsInv
<1>. QED
  BY <1>1, ClientsInvariance, PTL

\* The output of the latest response stays in the view, and its state until an
\* event, the background or a disconnection replaces it.
THEOREM OutcomeKept == Spec => []OutcomeIsKept
<1>1. ClientsInv => OutcomeIsKept
  BY DEF ClientsInv
<1>. QED
  BY <1>1, ClientsInvariance, PTL

\* What the core works on for a voice client goes back to final speech.
THEOREM FinalSpeechOnly == Spec => []OnlyFinalSpeechIsHandled
<1>1. ClientsInv => OnlyFinalSpeechIsHandled
  BY DEF ClientsInv
<1>. QED
  BY <1>1, ClientsInvariance, PTL
=============================================================================
