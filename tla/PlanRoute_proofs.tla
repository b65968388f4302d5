-------------------------- MODULE PlanRoute_proofs --------------------------
(***************************************************************************)
(* Proofs about PlanRoute, for any number of plans, workflows, attempts    *)
(* and requests, and any validator and selector.                           *)
(*                                                                         *)
(* The argument: a result the caller holds is about the plan it is after,  *)
(* since the pipelines compare objects and a new plan drops the results    *)
(* about the old one; and the number of a request is the number of the     *)
(* calls of the replanner as long as the limit is not reached.             *)
(***************************************************************************)
EXTENDS PlanRouteProps, FiniteSetTheorems, TLAPS

-----------------------------------------------------------------------------
(* The inductive invariant, in named parts                                 *)

\* The results the caller holds are about the current plan, which was cleared
\* before it came to be selected for.
HeldInv ==
  /\ pc \in {"validate", "select"} => selection = None
  /\ pc = "select" =>
       validation.plan = current /\ (validation.status = "valid" => current \in cleared)
  /\ pc \in {"run", "done"} => selection.plan = current /\ current \in cleared
  /\ "validator" \notin custom => \A p \in cleared : plans[p].sound

\* Every request up to the limit has called the replanner.
CountInv ==
  /\ pc # "given up" => attempt = replans /\ replans <= MaxAttempts
  /\ pc = "given up" => replans = MaxAttempts

IInv == TypeOK /\ HeldInv /\ CountInv /\ ChoiceIsForced

-----------------------------------------------------------------------------
(* What validators and selectors answer                                    *)

LEMMA ValidatorAnswers ==
  ASSUME TypeOK, NEW answer \in Validators(current), answer # None
  PROVE  /\ answer \in [plan : Objects, status : {"valid", "rejected"}]
         /\ "validator" \notin custom /\ answer.status = "valid" =>
              answer.plan = current /\ plans[current].sound
<1>1. CASE "validator" \in custom
  BY <1>1 DEF Validators
<1>2. CASE "validator" \notin custom
  <2>1. answer = [plan |-> current,
                  status |-> IF plans[current].sound THEN "valid" ELSE "rejected"]
    BY <1>2 DEF Validators, DefaultValidate
  <2>2. current \in Objects
    BY DEF TypeOK
  <2>3. CASE plans[current].sound
    BY <2>1, <2>2, <2>3
  <2>4. CASE ~plans[current].sound
    BY <2>1, <2>2, <2>4
  <2>. QED
    BY <2>3, <2>4
<1>. QED
  BY <1>1, <1>2

LEMMA CandidateLists ==
  ASSUME NEW cands \in Candidates
  PROVE  /\ cands \in Seq(WorkflowIds)
         /\ DOMAIN cands = 1 .. Len(cands)
         /\ cands = <<>> <=> Len(cands) = 0
BY RouteAssumption DEF Candidates

\* The workflows that have the id that is asked for are finitely many, and
\* one of them is the first when there is just one.
LEMMA MatchCount ==
  ASSUME NEW cands \in Candidates, NEW id
  PROVE  /\ Cardinality(Matches(cands, id)) \in Nat
         /\ Matches(cands, id) \subseteq Nat
         /\ Matches(cands, id) # {} /\ ~(Cardinality(Matches(cands, id)) > 1) =>
              Matches(cands, id) = {First(Matches(cands, id))}
<1>. DEFINE S == Matches(cands, id)
<1>1. S \subseteq 1 .. Len(cands) /\ Len(cands) \in Nat
  BY CandidateLists DEF Matches
<1>2. IsFiniteSet(S)
  <2>1. IsFiniteSet(1 .. Len(cands))
    BY <1>1, FS_Interval
  <2>. HIDE DEF S
  <2>. QED
    BY <1>1, <2>1, FS_Subset
<1>3. Cardinality(S) \in Nat
  BY <1>2, FS_CardinalityType
<1>4. ASSUME S # {}, ~(Cardinality(S) > 1) PROVE S = {First(S)}
  <2>1. Cardinality(S) # 0
    BY <1>2, <1>4, FS_EmptySet
  <2>2. Cardinality(S) = 1
    BY <1>3, <1>4, <2>1
  <2>3. PICK i : S = {i}
    BY <1>2, <2>2, FS_Singleton
  <2>4. i \in Nat
    BY <1>1, <2>3
  <2>. HIDE DEF S
  <2>5. First(S) = i
    BY <2>3, <2>4 DEF First
  <2>. QED
    BY <2>3, <2>5
<1>. QED
  BY <1>1, <1>3, <1>4

LEMMA SeveralPlaces ==
  ASSUME NEW n \in Nat \ {0}, n # 1
  PROVE  Cardinality(1 .. n) > 1
<1>1. n > 1
  OBVIOUS
<1>2. Cardinality(1 .. n) = IF 1 > n THEN 0 ELSE n - 1 + 1
  BY FS_Interval
<1>3. Cardinality(1 .. n) = n
  BY <1>1, <1>2
<1>. QED
  BY <1>1, <1>3

\* What the default selector answers is about the plan, and it is forced.
LEMMA DefaultAnswers ==
  ASSUME NEW p \in Nat \ {0}, NEW cands \in Candidates, NEW requested,
         DefaultSelect(p, cands, requested) # None
  PROVE  LET answer   == DefaultSelect(p, cands, requested)
             id       == RequestedId(p, requested)
             eligible == { i \in DOMAIN cands : id = None \/ cands[i] = id }
         IN  /\ answer \in SelectionResult /\ answer.plan = p
             /\ answer.status = "selected"  => eligible = {answer.workflow}
             /\ answer.status = "not_found" => eligible = {}
             /\ answer.status = "ambiguous" => Cardinality(eligible) > 1
<1>. DEFINE answer   == DefaultSelect(p, cands, requested)
            id       == RequestedId(p, requested)
            eligible == { i \in DOMAIN cands : id = None \/ cands[i] = id }
            Right    == /\ answer \in SelectionResult /\ answer.plan = p
                        /\ answer.status = "selected"  => eligible = {answer.workflow}
                        /\ answer.status = "not_found" => eligible = {}
                        /\ answer.status = "ambiguous" => Cardinality(eligible) > 1
<1>. SUFFICES Right
  OBVIOUS
<1>0. id # Blank
  BY DEF DefaultSelect
<1>1. CASE cands = <<>>
  <2>1. answer = [plan |-> p, status |-> "not_found", workflow |-> 0]
    BY <1>0, <1>1 DEF DefaultSelect, Answer
  <2>2. eligible = {}
    BY <1>1, CandidateLists
  <2>. HIDE DEF answer, eligible
  <2>. QED
    BY <2>1, <2>2 DEF SelectionResult
<1>2. CASE cands # <<>> /\ id # None
  <2>. DEFINE found == Matches(cands, id)
  <2>1. eligible = found
    BY <1>2 DEF Matches
  <2>2. CASE found = {}
    <3>1. answer = [plan |-> p, status |-> "not_found", workflow |-> 0]
      BY <1>0, <1>2, <2>2 DEF DefaultSelect, Answer
    <3>. HIDE DEF answer, eligible, found
    <3>. QED
      BY <2>1, <2>2, <3>1 DEF SelectionResult
  <2>3. CASE found # {} /\ Cardinality(found) > 1
    <3>1. answer = [plan |-> p, status |-> "ambiguous", workflow |-> 0]
      BY <1>0, <1>2, <2>3 DEF DefaultSelect, Answer
    <3>. HIDE DEF answer, eligible, found
    <3>. QED
      BY <2>1, <2>3, <3>1 DEF SelectionResult
  <2>4. CASE found # {} /\ ~(Cardinality(found) > 1)
    <3>1. answer = [plan |-> p, status |-> "selected", workflow |-> First(found)]
      BY <1>0, <1>2, <2>4 DEF DefaultSelect, Answer
    <3>2. found = {First(found)} /\ First(found) \in Nat
      BY <2>4, MatchCount
    <3>. HIDE DEF answer, eligible, found
    <3>. QED
      BY <2>1, <3>1, <3>2 DEF SelectionResult
  <2>. QED
    BY <2>2, <2>3, <2>4
<1>3. CASE cands # <<>> /\ id = None
  <2>1. eligible = 1 .. Len(cands) /\ Len(cands) \in Nat \ {0}
    BY <1>3, CandidateLists
  <2>2. CASE Len(cands) = 1
    <3>1. answer = [plan |-> p, status |-> "selected", workflow |-> 1]
      BY <1>0, <1>3, <2>2 DEF DefaultSelect, Answer
    <3>2. eligible = {1}
      BY <2>1, <2>2
    <3>. HIDE DEF answer, eligible
    <3>. QED
      BY <3>1, <3>2 DEF SelectionResult
  <2>3. CASE Len(cands) # 1
    <3>1. answer = [plan |-> p, status |-> "ambiguous", workflow |-> 0]
      BY <1>0, <1>3, <2>3 DEF DefaultSelect, Answer
    <3>. HIDE DEF answer, eligible
    <3>2. Cardinality(1 .. Len(cands)) > 1
      BY <2>1, <2>3, SeveralPlaces
    <3>3. Cardinality(eligible) > 1
      BY <2>1, <3>2
    <3>. QED
      BY <3>1, <3>3 DEF SelectionResult
  <2>. QED
    BY <2>2, <2>3
<1>. QED
  BY <1>1, <1>2, <1>3

LEMMA Counters == TypeOK => attempt \in Nat /\ replans \in Nat
<1>1. TypeOK => attempt \in 0 .. Requests /\ replans \in 0 .. Requests
  BY DEF TypeOK
<1>. QED
  BY <1>1, RouteAssumption

LEMMA PlanCount == TypeOK => Len(plans) \in Nat
<1>1. TypeOK => plans \in Seq(Plan)
  BY DEF TypeOK
<1>. QED
  BY <1>1

\* What comes back from the selection of a workflow.
LEMMA SelectorAnswers ==
  ASSUME TypeOK, NEW p \in Objects, NEW cands \in Candidates, NEW requested,
         NEW answer \in Selectors(p, cands, requested), answer # None
  PROVE  answer \in SelectionResult
<1>1. p \in Nat \ {0} /\ Objects \subseteq Nat \ {0}
  BY PlanCount DEF Objects
<1>2. CASE "selector" \in custom
  BY <1>1, <1>2 DEF Selectors, Answer, SelectionResult
<1>3. CASE "selector" \notin custom
  <2>1. answer = DefaultSelect(p, cands, requested)
    BY <1>3 DEF Selectors
  <2>. QED
    BY <1>1, <2>1, DefaultAnswers
<1>. QED
  BY <1>2, <1>3

-----------------------------------------------------------------------------
(* Types                                                                   *)

LEMMA TypeInit == Init => TypeOK
<1>. SUFFICES ASSUME Init PROVE TypeOK
  OBVIOUS
<1>1. PICK p \in Plan : plans = <<p>>
  BY DEF Init
<1>2. plans \in Seq(Plan) /\ current \in Objects
  BY <1>1 DEF Init, Objects
<1>. QED
  BY <1>2, RouteAssumption DEF Init, TypeOK

\* A plan that is adopted is one of the objects.
LEMMA AdoptType ==
  ASSUME TypeOK, plans' \in Seq(Plan), NEW p \in Objects', Adopt(p)
  PROVE  /\ current' \in Objects' /\ pc' = "validate"
         /\ validation' = None /\ selection' = None
BY DEF Adopt

\* One request for a replacement: the plans there were are still there.
LEMMA ReplanStep ==
  ASSUME TypeOK, Replan
  PROVE  /\ plans' \in Seq(Plan) /\ Len(plans) <= Len(plans')
         /\ \A p \in Objects : p \in Objects' /\ plans'[p] = plans[p]
         /\ \/ /\ current' \in Objects' /\ pc' = "validate"
               /\ validation' = None /\ selection' = None
            \/ Raise
<1>0. plans \in Seq(Plan) /\ Len(plans) \in Nat
  BY PlanCount DEF TypeOK
<1>1. ASSUME UNCHANGED plans, (\E p \in Objects : Adopt(p)) \/ Raise
      PROVE  /\ plans' \in Seq(Plan) /\ Len(plans) <= Len(plans')
             /\ \A q \in Objects : q \in Objects' /\ plans'[q] = plans[q]
             /\ \/ /\ current' \in Objects' /\ pc' = "validate"
                   /\ validation' = None /\ selection' = None
                \/ Raise
  <2>1. ASSUME NEW p \in Objects, Adopt(p)
        PROVE  /\ current' \in Objects' /\ pc' = "validate"
               /\ validation' = None /\ selection' = None
    BY <1>1, <2>1 DEF Adopt, Objects
  <2>2. plans' \in Seq(Plan) /\ Len(plans) <= Len(plans')
    BY <1>0, <1>1
  <2>3. \A q \in Objects : q \in Objects' /\ plans'[q] = plans[q]
    BY <1>1 DEF Objects
  <2>. QED
    BY <1>1, <2>1, <2>2, <2>3
<1>2. ASSUME NEW p \in Plan, plans' = Append(plans, p),
             IF p.id # plans[current].id THEN Adopt(Len(plans) + 1) ELSE Raise
      PROVE  /\ plans' \in Seq(Plan) /\ Len(plans) <= Len(plans')
             /\ \A q \in Objects : q \in Objects' /\ plans'[q] = plans[q]
             /\ \/ /\ current' \in Objects' /\ pc' = "validate"
                   /\ validation' = None /\ selection' = None
                \/ Raise
  <2>1. plans' \in Seq(Plan) /\ Len(plans') = Len(plans) + 1 /\ Len(plans) \in Nat
    BY <1>0, <1>2
  <2>2. \A q \in Objects : q \in Objects' /\ plans'[q] = plans[q]
    BY <1>0, <1>2, <2>1 DEF Objects
  <2>3. Len(plans) + 1 \in Objects'
    BY <2>1 DEF Objects
  <2>4. CASE Adopt(Len(plans) + 1)
    BY <2>1, <2>2, <2>3, <2>4, AdoptType
  <2>5. CASE Raise
    BY <2>1, <2>2, <2>5
  <2>. QED
    BY <1>2, <2>4, <2>5
<1>. QED
  BY <1>1, <1>2 DEF Replan

LEMMA TypeInductive == TypeOK /\ HeldInv /\ CountInv /\ [Next]_vars => TypeOK'
<1>. SUFFICES ASSUME TypeOK, HeldInv, CountInv, [Next]_vars PROVE TypeOK'
  OBVIOUS
<1>. USE RouteAssumption
<1>1. CASE Validate
  <2>1. PICK answer \in Validators(current) :
          /\ cleared' = IF answer # None /\ answer.status = "valid"
                          THEN cleared \cup {answer.plan} ELSE cleared
          /\ IF answer = None \/ answer.plan # current
               THEN pc' = "failed" /\ UNCHANGED validation
               ELSE validation' = answer /\ pc' = "select"
    BY <1>1 DEF Validate
  <2>2. UNCHANGED <<plans, current, selection, attempt, custom, asked, replans>>
    BY <1>1 DEF Validate
  <2>3. answer # None => answer \in [plan : Objects, status : {"valid", "rejected"}]
    BY ValidatorAnswers
  <2>4. answer # None => /\ answer \in ValidationResult /\ answer.plan \in Objects
    BY <2>3, PlanCount DEF ValidationResult, Objects
  <2>5. cleared' \in SUBSET Objects
    BY <2>1, <2>4 DEF TypeOK
  <2>6. /\ pc' \in {"failed", "select"}
        /\ validation' = None \/ validation' \in ValidationResult
    BY <2>1, <2>4 DEF TypeOK
  <2>. QED
    BY <2>2, <2>5, <2>6 DEF TypeOK, Objects
<1>2. CASE Select
  <2>1. validation.plan \in Objects
    BY <1>2 DEF Select, HeldInv, TypeOK
  <2>2. PICK cands \in Candidates, requested \in WorkflowIds \cup {None, Blank} :
          \E answer \in Selectors(validation.plan, cands, requested) :
            IF answer = None \/ answer.plan # validation.plan
              THEN pc' = "failed" /\ UNCHANGED selection
              ELSE /\ selection' = answer
                   /\ pc' = IF answer.status = "selected" THEN "run" ELSE "failed"
    BY <1>2 DEF Select
  <2>3. PICK answer \in Selectors(validation.plan, cands, requested) :
          IF answer = None \/ answer.plan # validation.plan
            THEN pc' = "failed" /\ UNCHANGED selection
            ELSE /\ selection' = answer
                 /\ pc' = IF answer.status = "selected" THEN "run" ELSE "failed"
    BY <2>2
  <2>4. answer # None => answer \in SelectionResult
    BY <2>1, SelectorAnswers
  <2>5. /\ pc' \in {"failed", "run"}
        /\ selection' = None \/ selection' \in SelectionResult
    BY <2>3, <2>4 DEF TypeOK
  <2>6. UNCHANGED <<plans, current, validation, attempt, custom, cleared, replans>>
    BY <1>2 DEF Select
  <2>. QED
    BY <2>5, <2>6 DEF TypeOK, Objects
<1>3. CASE SelectRefuses
  BY <1>3 DEF SelectRefuses, TypeOK, Objects
<1>4. CASE Run
  BY <1>4 DEF Run, TypeOK, Objects
<1>5. CASE ReplanLimit
  <2>1. attempt' \in 0 .. Requests
    <3>1. attempt \in Nat /\ attempt < Requests /\ attempt' = attempt + 1
      BY <1>5, Counters DEF ReplanLimit
    <3>. QED
      BY <3>1
  <2>. QED
    BY <1>5, <2>1 DEF ReplanLimit, TypeOK, Objects
<1>6. CASE Replan
  <2>1. /\ attempt' \in 0 .. Requests /\ replans' \in 0 .. Requests
    <3>1. attempt \in Nat /\ attempt < Requests /\ attempt' = attempt + 1 /\ replans' = replans + 1
      BY <1>6, Counters DEF Replan
    <3>2. replans = attempt
      BY <1>6 DEF Replan, CountInv
    <3>. QED
      BY <3>1, <3>2
  <2>2. UNCHANGED <<custom, cleared, asked>>
    BY <1>6 DEF Replan
  <2>3. plans' \in Seq(Plan) /\ cleared' \in SUBSET Objects'
    BY <1>6, <2>2, ReplanStep DEF TypeOK
  <2>4. /\ current' \in Objects' /\ pc' \in {"validate", "failed"}
        /\ validation' = None \/ validation' \in ValidationResult
        /\ selection' = None \/ selection' \in SelectionResult
    BY <1>6, ReplanStep DEF Raise, TypeOK
  <2>. QED
    BY <2>1, <2>2, <2>3, <2>4 DEF TypeOK
<1>7. CASE UNCHANGED vars
  BY <1>7 DEF vars, TypeOK, Objects
<1>. QED
  BY <1>1, <1>2, <1>3, <1>4, <1>5, <1>6, <1>7 DEF Next, Finished
-----------------------------------------------------------------------------
(* Safety                                                                  *)

LEMMA HeldInductive == TypeOK /\ HeldInv /\ [Next]_vars => HeldInv'
<1>. SUFFICES ASSUME TypeOK, HeldInv, [Next]_vars PROVE HeldInv'
  OBVIOUS
<1>1. CASE Validate
  <2>1. PICK answer \in Validators(current) :
          /\ cleared' = IF answer # None /\ answer.status = "valid"
                          THEN cleared \cup {answer.plan} ELSE cleared
          /\ IF answer = None \/ answer.plan # current
               THEN pc' = "failed" /\ UNCHANGED validation
               ELSE validation' = answer /\ pc' = "select"
    BY <1>1 DEF Validate
  <2>2. UNCHANGED <<plans, current, selection, custom>> /\ selection = None
    BY <1>1 DEF Validate, HeldInv
  <2>3. answer # None /\ "validator" \notin custom /\ answer.status = "valid" =>
          answer.plan = current /\ plans[current].sound
    BY ValidatorAnswers
  <2>4. "validator" \notin custom' => \A p \in cleared' : plans'[p].sound
    BY <2>1, <2>2, <2>3 DEF HeldInv
  <2>5. CASE answer = None \/ answer.plan # current
    BY <2>1, <2>4, <2>5 DEF HeldInv
  <2>6. CASE answer # None /\ answer.plan = current
    BY <2>1, <2>2, <2>4, <2>6 DEF HeldInv
  <2>. QED
    BY <2>5, <2>6
<1>2. CASE Select
  <2>1. validation.plan = current /\ current \in cleared /\ selection = None
    BY <1>2 DEF Select, HeldInv
  <2>2. \/ pc' = "failed"
        \/ pc' = "run" /\ selection'.plan = validation.plan
    BY <1>2 DEF Select
  <2>3. UNCHANGED <<plans, current, custom, cleared>>
    BY <1>2 DEF Select
  <2>. QED
    BY <2>1, <2>2, <2>3 DEF HeldInv
<1>3. CASE SelectRefuses
  BY <1>3 DEF SelectRefuses, HeldInv
<1>4. CASE Run
  BY <1>4 DEF Run, HeldInv
<1>5. CASE ReplanLimit
  BY <1>5 DEF ReplanLimit, HeldInv
<1>6. CASE Replan
  <2>1. UNCHANGED <<custom, cleared>>
    BY <1>6 DEF Replan
  <2>2. \A p \in cleared : plans'[p] = plans[p]
    BY <1>6, ReplanStep DEF TypeOK
  <2>3. \/ pc' = "failed"
        \/ pc' = "validate" /\ selection' = None
    BY <1>6, ReplanStep DEF Raise
  <2>. QED
    BY <2>1, <2>2, <2>3 DEF HeldInv
<1>7. CASE UNCHANGED vars
  BY <1>7 DEF vars, HeldInv
<1>. QED
  BY <1>1, <1>2, <1>3, <1>4, <1>5, <1>6, <1>7 DEF Next, Finished

LEMMA CountInductive == TypeOK /\ CountInv /\ [Next]_vars => CountInv'
<1>. SUFFICES ASSUME TypeOK, CountInv, [Next]_vars PROVE CountInv'
  OBVIOUS
<1>0. attempt \in Nat /\ replans \in Nat /\ MaxAttempts \in Nat \ {0}
  BY Counters, RouteAssumption
<1>1. CASE Validate \/ Select \/ SelectRefuses \/ Run
  <2>1. pc \notin {"given up"} /\ pc' # "given up" /\ UNCHANGED <<attempt, replans>>
    BY <1>1 DEF Validate, Select, SelectRefuses, Run
  <2>. QED
    BY <2>1 DEF CountInv
<1>2. CASE ReplanLimit
  <2>1. /\ pc = "failed" /\ attempt' = attempt + 1 /\ attempt' > MaxAttempts
        /\ pc' = "given up" /\ replans' = replans
    BY <1>2 DEF ReplanLimit, LimitReached
  <2>2. attempt = replans /\ replans <= MaxAttempts
    BY <2>1 DEF CountInv
  <2>3. replans = MaxAttempts
    <3>1. attempt + 1 > MaxAttempts
      BY <2>1
    <3>. QED
      BY <1>0, <2>2, <3>1
  <2>. QED
    BY <2>1, <2>3 DEF CountInv
<1>3. CASE Replan
  <2>1. /\ pc = "failed" /\ attempt' = attempt + 1 /\ ~(attempt' > MaxAttempts)
        /\ replans' = replans + 1
    BY <1>3 DEF Replan, LimitReached
  <2>2. pc' # "given up"
    BY <1>3, ReplanStep DEF Raise
  <2>3. attempt' = replans' /\ replans' <= MaxAttempts
    BY <1>0, <2>1, RouteAssumption DEF CountInv
  <2>. QED
    BY <2>2, <2>3 DEF CountInv
<1>4. CASE UNCHANGED vars
  BY <1>4 DEF vars, CountInv
<1>. QED
  BY <1>1, <1>2, <1>3, <1>4 DEF Next, Finished

LEMMA ChoiceInductive == TypeOK /\ HeldInv /\ ChoiceIsForced /\ [Next]_vars => ChoiceIsForced'
<1>. SUFFICES ASSUME TypeOK, HeldInv, ChoiceIsForced, [Next]_vars PROVE ChoiceIsForced'
  OBVIOUS
<1>1. CASE UNCHANGED <<selection, custom, asked>>
  BY <1>1 DEF ChoiceIsForced, Eligible
<1>2. CASE Select
  <2>1. validation.plan \in Nat \ {0} /\ selection = None
    BY <1>2, PlanCount DEF Select, HeldInv, TypeOK, Objects
  <2>2. PICK cands \in Candidates, requested \in WorkflowIds \cup {None, Blank} :
          \E answer \in Selectors(validation.plan, cands, requested) :
            /\ asked' = [cands |-> cands, id |-> RequestedId(validation.plan, requested)]
            /\ selection' = selection \/ (answer # None /\ selection' = answer)
    BY <1>2 DEF Select
  <2>3. PICK answer \in Selectors(validation.plan, cands, requested) :
            /\ asked' = [cands |-> cands, id |-> RequestedId(validation.plan, requested)]
            /\ selection' = selection \/ (answer # None /\ selection' = answer)
    BY <2>2
  <2>4. custom' = custom
    BY <1>2 DEF Select
  <2>5. CASE selection' = None \/ "selector" \in custom
    BY <2>4, <2>5 DEF ChoiceIsForced
  <2>6. CASE selection' # None /\ "selector" \notin custom
    <3>1. /\ answer = DefaultSelect(validation.plan, cands, requested)
          /\ answer # None /\ selection' = answer
      BY <2>1, <2>3, <2>6 DEF Selectors
    <3>2. /\ answer \in SelectionResult
          /\ answer.status = "selected"  => Eligible' = {answer.workflow}
          /\ answer.status = "not_found" => Eligible' = {}
          /\ answer.status = "ambiguous" => Cardinality(Eligible') > 1
      <4>. DEFINE p  == validation.plan
                  id == RequestedId(p, requested)
                  eligible == { i \in DOMAIN cands : id = None \/ cands[i] = id }
      <4>1. Eligible' = eligible
        BY <2>3 DEF Eligible
      <4>2. /\ answer \in SelectionResult
            /\ answer.status = "selected"  => eligible = {answer.workflow}
            /\ answer.status = "not_found" => eligible = {}
            /\ answer.status = "ambiguous" => Cardinality(eligible) > 1
        <5>1. p \in Nat \ {0} /\ DefaultSelect(p, cands, requested) # None
          BY <2>1, <3>1
        <5>2. DefaultSelect(p, cands, requested) = answer
          BY <3>1
        <5>. HIDE DEF p
        <5>. QED
          BY <5>1, <5>2, DefaultAnswers
      <4>. QED
        BY <4>1, <4>2
    <3>. QED
      BY <3>1, <3>2 DEF ChoiceIsForced, SelectionResult
  <2>. QED
    BY <2>5, <2>6
<1>3. CASE Replan
  <2>1. UNCHANGED <<custom, asked>>
    BY <1>3 DEF Replan
  <2>2. selection' = None \/ selection' = selection
    BY <1>3, ReplanStep DEF Raise
  <2>. QED
    BY <1>1, <2>1, <2>2 DEF ChoiceIsForced
<1>4. CASE Validate \/ SelectRefuses \/ Run \/ ReplanLimit \/ UNCHANGED vars
  BY <1>1, <1>4 DEF Validate, SelectRefuses, Run, ReplanLimit, vars
<1>. QED
  BY <1>2, <1>3, <1>4 DEF Next, Finished

LEMMA Initially == Init => IInv
<1>. SUFFICES ASSUME Init PROVE IInv
  OBVIOUS
<1>1. TypeOK
  BY TypeInit
<1>2. HeldInv /\ CountInv /\ ChoiceIsForced
  BY RouteAssumption DEF Init, HeldInv, CountInv, ChoiceIsForced
<1>. QED
  BY <1>1, <1>2 DEF IInv

LEMMA Inductive == IInv /\ [Next]_vars => IInv'
BY TypeInductive, HeldInductive, CountInductive, ChoiceInductive DEF IInv

\* The invariant of the route holds throughout.
THEOREM Invariance == Spec => []IInv
BY Initially, Inductive, PTL DEF Spec

\* Every variable keeps its type, whatever is plugged in.
THEOREM TypeCorrect == Spec => []TypeOK
<1>1. IInv => TypeOK
  BY DEF IInv
<1>. QED
  BY <1>1, Invariance, PTL

\* Only a plan that was itself cleared runs.
THEOREM ClearedRuns == Spec => []RunIsCleared
<1>1. IInv => RunIsCleared
  BY DEF IInv, HeldInv, RunIsCleared
<1>. QED
  BY <1>1, Invariance, PTL

\* The default selector never chooses, among any number of workflows.
THEOREM ForcedChoices == Spec => []ChoiceIsForced
<1>1. IInv => ChoiceIsForced
  BY DEF IInv
<1>. QED
  BY <1>1, Invariance, PTL

\* The replanner is called at most as often as the limit says.
THEOREM BoundedReplanning == Spec => []ReplannerBounded
<1>1. ASSUME IInv PROVE ReplannerBounded
  <2>1. replans \in Nat /\ MaxAttempts \in Nat
    BY <1>1, Counters, RouteAssumption DEF IInv
  <2>2. /\ pc # "given up" => replans <= MaxAttempts
        /\ pc = "given up" => replans = MaxAttempts
    BY <1>1 DEF IInv, CountInv
  <2>3. replans <= MaxAttempts
    <3>1. CASE pc # "given up"
      BY <2>2, <3>1
    <3>2. CASE replans = MaxAttempts
      BY <2>1, <3>2
    <3>. QED
      BY <2>2, <3>1, <3>2
  <2>. QED
    BY <2>2, <2>3 DEF ReplannerBounded
<1>. QED
  BY <1>1, Invariance, PTL
=============================================================================
