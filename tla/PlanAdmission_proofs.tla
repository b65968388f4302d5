------------------------ MODULE PlanAdmission_proofs ------------------------
(***************************************************************************)
(* Proofs about PlanAdmission, for plans of every size over any ids.       *)
(*                                                                         *)
(* The argument: the stack is a path of the graph without repetitions, and *)
(* visiting its ids; so a dependency that is met in visiting closes a      *)
(* cycle.  visited is closed under dependencies and holds no steps that    *)
(* wait for each other, since a step enters it after all it depends on;    *)
(* at the end every step is in it.                                         *)
(***************************************************************************)
EXTENDS PlanAdmissionProps, SequenceTheorems, FiniteSetTheorems, TLAPS

-----------------------------------------------------------------------------
(* The inductive invariant, in named parts                                 *)

\* The steps of S wait for each other.
Waiting(S) == S # {} /\ \A s \in S : Needs(s) \cap S # {}

\* Only a plan that passed the checks before it is searched.
GuardInv ==
  searching =>
    /\ stage \in {"construct", "validate"}
    /\ ~Unknown
    /\ stage = "construct" => ~(StepsRefused \/ PlanRefused)
    /\ stage = "validate" => ~Issues

\* What each checker has said, and why.
OutcomeInv ==
  /\ stage = "construct" <=> built = "unknown"
  /\ stage = "done" <=> valid # "unknown"
  /\ built = "yes" => ~(StepsRefused \/ PlanRefused)
  /\ valid = "yes" => ~Issues

\* The visits in progress are a path of the graph, each id once.
PathInv ==
  /\ \A i \in 1 .. Depth : stack[i].id \in StepIds /\ stack[i].todo \subseteq Needs(stack[i].id)
  /\ \A i \in 1 .. Depth : i + 1 \in 1 .. Depth => stack[i + 1].id \in Needs(stack[i].id)
  /\ \A i, j \in 1 .. Depth : stack[i].id = stack[j].id => i = j
  /\ visiting = { stack[i].id : i \in 1 .. Depth }
  /\ visiting \cap visited = {}

\* What a visit has behind it was visited, or is being visited on top of it.
DoneInv ==
  \A i \in 1 .. Depth : \A d \in Needs(stack[i].id) \ stack[i].todo :
    d \in visited \/ (i + 1 \in 1 .. Depth /\ d = stack[i + 1].id)

\* No steps that were visited wait for each other, or for any other step.
VisitedInv ==
  /\ visited \subseteq StepIds
  /\ \A v \in visited : Needs(v) \subseteq visited
  /\ \A S \in SUBSET visited : ~Waiting(S)

\* The steps the outer loop has gone through.
RootInv ==
  /\ root \in 1 .. Len(plan.steps) + 1
  /\ \A i \in Positions : i < root => plan.steps[i].id \in visited \cup visiting

SearchInv == searching => PathInv /\ DoneInv /\ VisitedInv /\ RootInv

IInv == TypeOK /\ GuardInv /\ OutcomeInv /\ SearchInv /\ SearchIsExact

-----------------------------------------------------------------------------
(* The graph does not change                                               *)

LEMMA PlanFixed == [Next]_vars => plan' = plan
BY DEF Next, Construct, Validate, VisitRoot, VisitDependency, Leave, EndSearch, Finished, vars

LEMMA GraphFixed ==
  ASSUME plan' = plan
  PROVE  /\ Positions' = Positions /\ StepIds' = StepIds
         /\ \A id : Needs(id)' = Needs(id)
         /\ Unknown' = Unknown /\ Issues' = Issues /\ Cyclic' = Cyclic
         /\ StepsRefused' = StepsRefused /\ PlanRefused' = PlanRefused
<1>1. Positions' = Positions
  BY DEF Positions
<1>2. StepIds' = StepIds
  BY <1>1 DEF StepIds
<1>3. \A id : Needs(id)' = Needs(id)
  BY <1>1 DEF Needs
<1>4. Unknown' = Unknown /\ Cyclic' = Cyclic
  BY <1>1, <1>2, <1>3 DEF Unknown, Cyclic
<1>5. Issues' = Issues
  BY <1>1, <1>4 DEF Issues, IdentityIssue, StepIdIssue, CapabilityIssue, DependencyIssue,
       ReferenceIssue, Has, Repeated, SelfDependent
<1>6. StepsRefused' = StepsRefused
  BY <1>1 DEF StepsRefused, Has, SelfDependent
<1>7. PlanRefused' = PlanRefused
  BY <1>1, <1>2, <1>4 DEF PlanRefused, ReferencesRefused, Repeated, Has
<1>. QED
  BY <1>1, <1>2, <1>3, <1>4, <1>5, <1>6, <1>7

\* A plan is a sequence of steps over Ids.
LEMMA PlanShape ==
  ASSUME TypeOK
  PROVE  /\ plan.steps \in Seq(Step) /\ Len(plan.steps) \in 0 .. MaxSteps
         /\ StepIds \subseteq Ids
         /\ \A id : Needs(id) \subseteq Ids
<1>1. plan \in Descriptions
  BY DEF TypeOK
<1>2. PICK n \in 0 .. MaxSteps : plan.steps \in [1 .. n -> Step]
  BY <1>1 DEF Descriptions, StepLists
<1>3. n \in Nat
  BY <1>2, AdmissionAssumption
<1>4. plan.steps \in Seq(Step) /\ Len(plan.steps) = n
  BY <1>2, <1>3
<1>5. \A i \in Positions : plan.steps[i] \in Step
  BY <1>4 DEF Positions
<1>6. StepIds \subseteq Ids
  BY <1>5 DEF StepIds, Step
<1>7. ASSUME NEW id PROVE Needs(id) \subseteq Ids
  BY <1>5 DEF Needs, Step
<1>. QED
  BY <1>2, <1>4, <1>6, <1>7

\* What the steps depend on are steps, when nothing is unknown.
LEMMA Closed ==
  ASSUME ~Unknown
  PROVE  \A id : Needs(id) \subseteq StepIds
BY DEF Unknown, Needs

LEMMA CyclicIsWaiting == Cyclic <=> \E S \in SUBSET StepIds : Waiting(S)
BY DEF Cyclic, Waiting

-----------------------------------------------------------------------------
(* One visit                                                               *)

Frame == [id : Ids, todo : SUBSET Ids]

\* The visits in progress when the loop of the innermost has come to id.
Reaching(outer, id) ==
  /\ outer \in Seq(Frame) /\ Len(outer) = Depth
  /\ \A i \in 1 .. Depth :
       /\ outer[i].id = stack[i].id /\ outer[i].todo \subseteq stack[i].todo
       /\ \A d \in stack[i].todo \ outer[i].todo : i = Depth /\ d = id
  /\ Depth # 0 => id \in Needs(Top.id)

LEMMA StackShape ==
  ASSUME TypeOK
  PROVE  stack \in Seq(Frame) /\ Depth \in Nat
<1>1. stack \in Seq(Frame)
  BY DEF TypeOK, Frame
<1>. QED
  BY <1>1 DEF Depth

LEMMA ReachingRoot ==
  ASSUME TypeOK, stack = <<>>, NEW id
  PROVE  Reaching(<<>>, id)
BY DEF Reaching, Depth

LEMMA ReachingDependency ==
  ASSUME TypeOK, PathInv, stack # <<>>, NEW d \in Top.todo
  PROVE  Reaching([stack EXCEPT ![Depth].todo = @ \ {d}], d)
<1>. DEFINE outer == [stack EXCEPT ![Depth].todo = @ \ {d}]
<1>1. stack \in Seq(Frame) /\ Depth \in Nat /\ Depth # 0 /\ Depth = Len(stack)
  BY StackShape DEF Depth
<1>2. Depth \in 1 .. Depth /\ stack[Depth] \in Frame
  BY <1>1
<1>3. outer \in Seq(Frame) /\ Len(outer) = Depth
  BY <1>1, <1>2 DEF Frame
<1>4. ASSUME NEW i \in 1 .. Depth
      PROVE  /\ outer[i].id = stack[i].id /\ outer[i].todo \subseteq stack[i].todo
             /\ \A e \in stack[i].todo \ outer[i].todo : i = Depth /\ e = d
  <2>1. i \in DOMAIN stack /\ stack[i] \in Frame
    BY <1>1
  <2>2. CASE i = Depth
    BY <1>1, <2>1, <2>2 DEF Frame
  <2>3. CASE i # Depth
    BY <1>1, <2>1, <2>3
  <2>. QED
    BY <2>2, <2>3
<1>5. d \in Needs(Top.id)
  BY <1>2 DEF PathInv, Top
<1>. QED
  BY <1>3, <1>4, <1>5 DEF Reaching

\* A step that was visited before leaves only the loop's progress behind.
LEMMA SkipKeeps ==
  ASSUME TypeOK, PathInv, DoneInv, VisitedInv, plan' = plan,
         NEW id \in visited, NEW outer, Reaching(outer, id),
         stack' = outer, visiting' = visiting, visited' = visited
  PROVE  PathInv' /\ DoneInv' /\ VisitedInv'
<1>1. stack \in Seq(Frame) /\ Depth \in Nat /\ Depth' = Depth
  BY StackShape DEF Reaching, Depth
<1>2. /\ StepIds' = StepIds /\ \A x : Needs(x)' = Needs(x)
  BY GraphFixed
<1>3. \A i \in 1 .. Depth :
        /\ stack'[i].id = stack[i].id /\ stack'[i].todo \subseteq stack[i].todo
        /\ \A d \in stack[i].todo \ stack'[i].todo : i = Depth /\ d = id
  BY DEF Reaching
<1>4. PathInv'
  <2>1. \A i \in 1 .. Depth :
          stack'[i].id \in StepIds /\ stack'[i].todo \subseteq Needs(stack'[i].id)
    BY <1>3 DEF PathInv
  <2>2. \A i \in 1 .. Depth : i + 1 \in 1 .. Depth => stack'[i + 1].id \in Needs(stack'[i].id)
    BY <1>3 DEF PathInv
  <2>3. \A i, j \in 1 .. Depth : stack'[i].id = stack'[j].id => i = j
    BY <1>3 DEF PathInv
  <2>4. visiting = { stack'[i].id : i \in 1 .. Depth }
    BY <1>3 DEF PathInv
  <2>. QED
    BY <1>1, <1>2, <2>1, <2>2, <2>3, <2>4 DEF PathInv
<1>5. DoneInv'
  <2>. SUFFICES ASSUME NEW i \in 1 .. Depth, NEW d \in Needs(stack[i].id) \ stack'[i].todo
                PROVE  d \in visited \/ (i + 1 \in 1 .. Depth /\ d = stack'[i + 1].id)
    BY <1>1, <1>2, <1>3 DEF DoneInv
  <2>1. CASE d \in stack[i].todo
    BY <1>3, <2>1
  <2>2. CASE d \notin stack[i].todo
    BY <1>3, <2>2 DEF DoneInv
  <2>. QED
    BY <2>1, <2>2
<1>6. VisitedInv'
  BY <1>2 DEF VisitedInv, Waiting
<1>. QED
  BY <1>4, <1>5, <1>6

\* A step that is visited for the first time goes on top of the path.
LEMMA PushKeeps ==
  ASSUME TypeOK, PathInv, DoneInv, VisitedInv, plan' = plan,
         NEW id \in StepIds, id \notin visiting, id \notin visited,
         NEW outer, Reaching(outer, id),
         stack' = Append(outer, [id |-> id, todo |-> Needs(id)]),
         visiting' = visiting \cup {id}, visited' = visited
  PROVE  PathInv' /\ DoneInv' /\ VisitedInv'
<1>1. stack \in Seq(Frame) /\ Depth \in Nat /\ Depth' = Depth + 1
  BY StackShape DEF Reaching, Depth
<1>2. StepIds' = StepIds /\ \A x : Needs(x)' = Needs(x)
  BY GraphFixed
<1>3. outer \in Seq(Frame) /\ Len(outer) = Depth
  BY DEF Reaching
<1>4. \A i \in 1 .. Depth :
        /\ stack'[i].id = stack[i].id /\ stack'[i].todo \subseteq stack[i].todo
        /\ \A d \in stack[i].todo \ stack'[i].todo : i = Depth /\ d = id
  BY <1>1, <1>3 DEF Reaching
<1>5. stack'[Depth + 1].id = id /\ stack'[Depth + 1].todo = Needs(id)
  BY <1>1, <1>3
<1>6. \A i \in 1 .. Depth + 1 : i \in 1 .. Depth \/ i = Depth + 1
  BY <1>1
<1>7. \A i \in 1 .. Depth : stack[i].id # id
  BY DEF PathInv
<1>8. Depth # 0 => id \in Needs(stack[Depth].id)
  BY DEF Reaching, Top
<1>9. PathInv'
  <2>1. ASSUME NEW i \in 1 .. Depth + 1
        PROVE  stack'[i].id \in StepIds /\ stack'[i].todo \subseteq Needs(stack'[i].id)
    <3>1. CASE i \in 1 .. Depth
      <4>1. stack[i].id \in StepIds /\ stack[i].todo \subseteq Needs(stack[i].id)
        BY <3>1 DEF PathInv
      <4>2. stack'[i].id = stack[i].id /\ stack'[i].todo \subseteq stack[i].todo
        BY <1>4, <3>1
      <4>. QED
        BY <4>1, <4>2
    <3>2. CASE i = Depth + 1
      BY <1>5, <3>2
    <3>. QED
      BY <1>6, <3>1, <3>2
  <2>2. ASSUME NEW i \in 1 .. Depth + 1, i + 1 \in 1 .. Depth + 1
        PROVE  stack'[i + 1].id \in Needs(stack'[i].id)
    <3>1. CASE i + 1 \in 1 .. Depth
      <4>1. i \in 1 .. Depth
        BY <1>1, <3>1
      <4>2. stack[i + 1].id \in Needs(stack[i].id)
        BY <3>1, <4>1 DEF PathInv
      <4>3. stack'[i].id = stack[i].id /\ stack'[i + 1].id = stack[i + 1].id
        BY <1>4, <3>1, <4>1
      <4>. QED
        BY <4>2, <4>3
    <3>2. CASE i = Depth
      <4>1. Depth \in 1 .. Depth /\ Depth # 0
        BY <1>1, <3>2
      <4>. QED
        BY <1>4, <1>5, <1>8, <3>2, <4>1
    <3>3. i + 1 \in 1 .. Depth \/ i = Depth
      BY <1>1, <2>2
    <3>. QED
      BY <3>1, <3>2, <3>3
  <2>3. ASSUME NEW i \in 1 .. Depth + 1, NEW j \in 1 .. Depth + 1,
               stack'[i].id = stack'[j].id
        PROVE  i = j
    <3>1. CASE i \in 1 .. Depth /\ j \in 1 .. Depth
      <4>1. stack[i].id = stack[j].id
        BY <1>4, <2>3, <3>1
      <4>. QED
        BY <3>1, <4>1 DEF PathInv
    <3>2. CASE i = Depth + 1 /\ j = Depth + 1
      BY <3>2
    <3>3. ASSUME NEW k \in 1 .. Depth PROVE stack'[k].id # stack'[Depth + 1].id
      BY <1>4, <1>5, <1>7
    <3>. QED
      BY <1>6, <2>3, <3>1, <3>2, <3>3
  <2>4. visiting' = { stack'[i].id : i \in 1 .. Depth + 1 }
    <3>0. { stack'[i].id : i \in 1 .. Depth } = { stack[i].id : i \in 1 .. Depth }
      BY <1>4
    <3>1. visiting = { stack'[i].id : i \in 1 .. Depth }
      BY <3>0 DEF PathInv
    <3>2. 1 .. Depth + 1 = (1 .. Depth) \cup {Depth + 1}
      BY <1>1
    <3>3. { stack'[i].id : i \in 1 .. Depth + 1 } = visiting \cup {stack'[Depth + 1].id}
      BY <3>1, <3>2
    <3>. QED
      BY <1>5, <3>3
  <2>5. visiting' \cap visited = {}
    BY DEF PathInv
  <2>. QED
    BY <1>1, <1>2, <2>1, <2>2, <2>3, <2>4, <2>5 DEF PathInv
<1>10. DoneInv'
  <2>. SUFFICES ASSUME NEW i \in 1 .. Depth + 1, NEW d \in Needs(stack'[i].id) \ stack'[i].todo
                PROVE  d \in visited \/ (i + 1 \in 1 .. Depth + 1 /\ d = stack'[i + 1].id)
    BY <1>1, <1>2 DEF DoneInv
  <2>1. CASE i = Depth + 1
    BY <1>5, <2>1
  <2>2. CASE i \in 1 .. Depth /\ d \in stack[i].todo
    <3>1. i = Depth /\ d = id
      BY <1>4, <2>2
    <3>2. i + 1 \in 1 .. Depth + 1 /\ i + 1 = Depth + 1
      BY <1>1, <3>1
    <3>3. d = stack'[i + 1].id
      BY <1>5, <3>1, <3>2
    <3>. QED
      BY <3>2, <3>3
  <2>3. CASE i \in 1 .. Depth /\ d \notin stack[i].todo
    <3>1. d \in visited \/ (i + 1 \in 1 .. Depth /\ d = stack[i + 1].id)
      BY <1>4, <2>3 DEF DoneInv
    <3>2. i + 1 \in 1 .. Depth => i + 1 \in 1 .. Depth + 1
      BY <1>1
    <3>3. i + 1 \in 1 .. Depth => stack'[i + 1].id = stack[i + 1].id
      BY <1>4
    <3>. QED
      BY <3>1, <3>2, <3>3
  <2>. QED
    BY <1>6, <2>1, <2>2, <2>3
<1>11. VisitedInv'
  BY <1>2 DEF VisitedInv, Waiting
<1>. QED
  BY <1>9, <1>10, <1>11

\* A step met again while it is being visited closes a cycle: the visits from
\* it to the innermost wait for each other.
LEMMA MetAgainIsCyclic ==
  ASSUME TypeOK, PathInv, stack # <<>>, NEW d \in Top.todo, d \in visiting
  PROVE  Cyclic
<1>1. stack \in Seq(Frame) /\ Depth \in Nat /\ Depth \in 1 .. Depth
  BY StackShape DEF Depth
<1>2. PICK k \in 1 .. Depth : d = stack[k].id
  BY DEF PathInv
<1>. DEFINE S == { stack[i].id : i \in k .. Depth }
<1>3. S \in SUBSET StepIds /\ d \in S
  BY <1>1, <1>2 DEF PathInv
<1>4. ASSUME NEW i \in k .. Depth PROVE Needs(stack[i].id) \cap S # {}
  <2>1. CASE i = Depth
    BY <1>1, <1>3, <2>1 DEF PathInv, Top
  <2>2. CASE i # Depth
    <3>1. i \in 1 .. Depth /\ i + 1 \in 1 .. Depth /\ i + 1 \in k .. Depth
      BY <1>1, <1>2, <2>2
    <3>. QED
      BY <3>1 DEF PathInv
  <2>. QED
    BY <2>1, <2>2
<1>5. \A s \in S : Needs(s) \cap S # {}
  BY <1>4
<1>. HIDE DEF S
<1>. QED
  BY <1>3, <1>5 DEF Cyclic

\* The innermost visit ends: what it is about waits for nothing that is left.
LEMMA LeaveKeeps ==
  ASSUME TypeOK, PathInv, DoneInv, VisitedInv, Leave
  PROVE  PathInv' /\ DoneInv' /\ VisitedInv' /\ visited' \cup visiting' = visited \cup visiting
<1>. DEFINE t == Top.id
<1>1. stack \in Seq(Frame) /\ Depth \in Nat /\ Depth \in 1 .. Depth /\ Depth = Len(stack)
  BY StackShape DEF Depth, Leave
<1>2. /\ plan' = plan /\ visiting' = visiting \ {t} /\ visited' = visited \cup {t}
      /\ stack' = SubSeq(stack, 1, Depth - 1) /\ stack[Depth].todo = {}
  BY DEF Leave, Pop, Top
<1>3. StepIds' = StepIds /\ \A x : Needs(x)' = Needs(x)
  BY <1>2, GraphFixed
<1>4. Depth' = Depth - 1 /\ \A i \in 1 .. Depth - 1 : stack'[i] = stack[i] /\ i \in 1 .. Depth
  <2>1. Len(SubSeq(stack, 1, Depth - 1)) = Depth - 1
    BY <1>1
  <2>. QED
    BY <1>1, <1>2, <2>1 DEF Depth
<1>5. t = stack[Depth].id /\ t \in visiting /\ t \in StepIds /\ t \notin visited
  BY <1>1 DEF PathInv, Top
<1>6. Needs(t) \subseteq visited
  <2>1. Depth + 1 \notin 1 .. Depth
    BY <1>1
  <2>. QED
    BY <1>1, <1>2, <1>5, <2>1 DEF DoneInv
<1>7. PathInv'
  <2>1. \A i \in 1 .. Depth - 1 :
          stack'[i].id \in StepIds /\ stack'[i].todo \subseteq Needs(stack'[i].id)
    BY <1>4 DEF PathInv
  <2>2. \A i \in 1 .. Depth - 1 :
          i + 1 \in 1 .. Depth - 1 => stack'[i + 1].id \in Needs(stack'[i].id)
    BY <1>4 DEF PathInv
  <2>3. \A i, j \in 1 .. Depth - 1 : stack'[i].id = stack'[j].id => i = j
    BY <1>4 DEF PathInv
  <2>4. visiting' = { stack'[i].id : i \in 1 .. Depth - 1 }
    <3>1. 1 .. Depth = (1 .. Depth - 1) \cup {Depth} /\ Depth \notin 1 .. Depth - 1
      BY <1>1
    <3>2. \A i \in 1 .. Depth - 1 : stack[i].id # t
      BY <1>1, <1>4, <1>5, <3>1 DEF PathInv
    <3>3. visiting = { stack[i].id : i \in 1 .. Depth - 1 } \cup {t}
      BY <1>5, <3>1 DEF PathInv
    <3>4. { stack'[i].id : i \in 1 .. Depth - 1 } = { stack[i].id : i \in 1 .. Depth - 1 }
      BY <1>4
    <3>. QED
      BY <1>2, <3>2, <3>3, <3>4
  <2>5. visiting' \cap visited' = {}
    BY <1>2 DEF PathInv
  <2>. QED
    BY <1>3, <1>4, <2>1, <2>2, <2>3, <2>4, <2>5 DEF PathInv
<1>8. DoneInv'
  <2>. SUFFICES ASSUME NEW i \in 1 .. Depth - 1, NEW d \in Needs(stack'[i].id) \ stack'[i].todo
                PROVE  d \in visited' \/ (i + 1 \in 1 .. Depth - 1 /\ d = stack'[i + 1].id)
    BY <1>3, <1>4 DEF DoneInv
  <2>1. d \in visited \/ (i + 1 \in 1 .. Depth /\ d = stack[i + 1].id)
    BY <1>4 DEF DoneInv
  <2>2. i + 1 \in 1 .. Depth => i + 1 \in 1 .. Depth - 1 \/ i + 1 = Depth
    BY <1>1
  <2>. QED
    BY <1>2, <1>4, <1>5, <2>1, <2>2
<1>9. VisitedInv'
  <2>1. visited' \subseteq StepIds /\ \A v \in visited' : Needs(v) \subseteq visited'
    BY <1>2, <1>5, <1>6 DEF VisitedInv
  <2>2. ASSUME NEW S \in SUBSET visited', Waiting(S) PROVE FALSE
    <3>. DEFINE R == S \cap visited
    <3>1. R # {}
      <4>1. CASE t \in S
        <5>1. PICK d : d \in Needs(t) /\ d \in S
          BY <2>2, <4>1 DEF Waiting
        <5>. QED
          BY <1>6, <5>1
      <4>2. CASE t \notin S
        BY <1>2, <2>2, <4>2 DEF Waiting
      <4>. QED
        BY <4>1, <4>2
    <3>2. \A s \in R : Needs(s) \cap R # {}
      BY <2>2 DEF VisitedInv, Waiting
    <3>. QED
      BY <3>1, <3>2 DEF VisitedInv, Waiting
  <2>. QED
    BY <1>3, <2>1, <2>2 DEF VisitedInv, Waiting
<1>. QED
  BY <1>2, <1>5, <1>7, <1>8, <1>9

-----------------------------------------------------------------------------
(* What the steps do to the parts                                          *)

\* What a checker says at its end, if it is right.
LEMMA Concluded ==
  ASSUME TypeOK, GuardInv, OutcomeInv, SearchIsExact, plan' = plan, NEW ok \in BOOLEAN,
         stage \in {"construct", "validate"},
         stage = "construct" =>
           ok = (~(StepsRefused \/ PlanRefused) /\ ~Cyclic),
         stage = "validate" => ok = (~Issues /\ ~Cyclic),
         Conclude(ok)
  PROVE  GuardInv' /\ OutcomeInv' /\ SearchInv' /\ SearchIsExact'
<1>1. ~searching' /\ GuardInv' /\ SearchInv'
  BY DEF Conclude, GuardInv, SearchInv
<1>2. /\ Issues' = Issues /\ Cyclic' = Cyclic
      /\ StepsRefused' = StepsRefused /\ PlanRefused' = PlanRefused
  BY GraphFixed
<1>3. CASE stage = "construct"
  BY <1>1, <1>2, <1>3 DEF Conclude, OutcomeInv, SearchIsExact
<1>4. CASE stage = "validate"
  BY <1>1, <1>2, <1>4 DEF Conclude, OutcomeInv, SearchIsExact
<1>. QED
  BY <1>3, <1>4

\* A search that goes on.
LEMMA Continued ==
  ASSUME GuardInv, OutcomeInv, SearchIsExact, UNCHANGED <<plan, stage, searching, built, valid>>
  PROVE  GuardInv' /\ OutcomeInv' /\ SearchIsExact'
<1>1. /\ Unknown' = Unknown /\ Issues' = Issues /\ Cyclic' = Cyclic
      /\ StepsRefused' = StepsRefused /\ PlanRefused' = PlanRefused
  BY GraphFixed
<1>. QED
  BY <1>1 DEF GuardInv, OutcomeInv, SearchIsExact

\* One visit, up to its loop.
LEMMA VisitKeeps ==
  ASSUME TypeOK, GuardInv, OutcomeInv, SearchIsExact, PathInv, DoneInv, VisitedInv,
         searching, plan' = plan, NEW id \in StepIds, NEW outer, Reaching(outer, id),
         id \in visiting => Cyclic,
         Visit(id, outer)
  PROVE  /\ GuardInv' /\ OutcomeInv' /\ SearchIsExact'
         /\ searching' => /\ PathInv' /\ DoneInv' /\ VisitedInv'
                          /\ visited' \cup visiting' = visited \cup visiting \cup {id}
<1>1. CASE id \in visiting
  <2>1. Conclude(FALSE)
    BY <1>1 DEF Visit
  <2>2. Cyclic /\ stage \in {"construct", "validate"}
    BY <1>1 DEF GuardInv
  <2>3. GuardInv' /\ OutcomeInv' /\ SearchIsExact'
    BY <2>1, <2>2, Concluded
  <2>. QED
    BY <2>1, <2>3 DEF Conclude
<1>2. CASE id \notin visiting /\ id \in visited
  <2>1. stack' = outer /\ UNCHANGED <<visiting, visited, searching, stage, built, valid>>
    BY <1>2 DEF Visit
  <2>2. GuardInv' /\ OutcomeInv' /\ SearchIsExact'
    BY <2>1, Continued
  <2>3. PathInv' /\ DoneInv' /\ VisitedInv'
    BY <1>2, <2>1, SkipKeeps
  <2>. QED
    BY <1>2, <2>1, <2>2, <2>3
<1>3. CASE id \notin visiting /\ id \notin visited
  <2>1. /\ stack' = Append(outer, [id |-> id, todo |-> Needs(id)])
        /\ visiting' = visiting \cup {id}
        /\ UNCHANGED <<visited, searching, stage, built, valid>>
    BY <1>3 DEF Visit
  <2>2. GuardInv' /\ OutcomeInv' /\ SearchIsExact'
    BY <2>1, Continued
  <2>3. PathInv' /\ DoneInv' /\ VisitedInv'
    BY <1>3, <2>1, PushKeeps
  <2>. QED
    BY <2>1, <2>2, <2>3
<1>. QED
  BY <1>1, <1>2, <1>3

\* The stack keeps its type through a visit.
LEMMA VisitType ==
  ASSUME TypeOK, NEW id \in Ids, NEW outer \in Seq(Frame), Visit(id, outer),
         stage \in {"construct", "validate"}
  PROVE  /\ stack' \in Seq(Frame) /\ visiting' \in SUBSET Ids /\ visited' = visited
         /\ searching' \in BOOLEAN /\ stage' \in {"construct", "validate", "done"}
         /\ built' \in {"unknown", "yes", "no"} /\ valid' \in {"unknown", "yes", "no"}
<1>1. [id |-> id, todo |-> Needs(id)] \in Frame
  BY PlanShape DEF Frame
<1>2. stack \in Seq(Frame)
  BY StackShape
<1>3. visiting' \in SUBSET Ids /\ visited' = visited
  BY DEF Visit, TypeOK
<1>4. stack' \in Seq(Frame)
  <2>1. stack' \in {stack, outer, Append(outer, [id |-> id, todo |-> Needs(id)])}
    BY DEF Visit
  <2>. DEFINE top == [id |-> id, todo |-> Needs(id)]
  <2>2. Append(outer, top) \in Seq(Frame)
    <3>. HIDE DEF top
    <3>. QED
      BY <1>1 DEF top
  <2>. QED
    BY <1>2, <2>1, <2>2
<1>5. /\ searching' \in BOOLEAN /\ stage' \in {"construct", "validate", "done"}
      /\ built' \in {"unknown", "yes", "no"} /\ valid' \in {"unknown", "yes", "no"}
  BY DEF Visit, Conclude, TypeOK
<1>. QED
  BY <1>3, <1>4, <1>5

\* At the beginning of a search nothing was visited.
LEMMA StartKeeps ==
  ASSUME TypeOK, GuardInv, OutcomeInv, SearchIsExact, UNCHANGED <<plan, stage, built, valid>>,
         StartSearch, stage \in {"construct", "validate"}, ~Unknown,
         stage = "construct" => ~(StepsRefused \/ PlanRefused), stage = "validate" => ~Issues
  PROVE  TypeOK' /\ GuardInv' /\ OutcomeInv' /\ SearchInv' /\ SearchIsExact'
<1>1. /\ Unknown' = Unknown /\ Issues' = Issues /\ Cyclic' = Cyclic
      /\ StepsRefused' = StepsRefused /\ PlanRefused' = PlanRefused
  BY GraphFixed
<1>2. GuardInv' /\ OutcomeInv' /\ SearchIsExact'
  BY <1>1 DEF GuardInv, OutcomeInv, SearchIsExact, StartSearch
<1>3. Depth' = 0 /\ 1 .. 0 = {}
  BY DEF StartSearch, Depth
<1>4. PathInv' /\ DoneInv'
  BY <1>3 DEF StartSearch, PathInv, DoneInv
<1>5. VisitedInv'
  BY DEF StartSearch, VisitedInv, Waiting
<1>6. RootInv'
  <2>1. Len(plan.steps) \in Nat
    BY PlanShape, AdmissionAssumption
  <2>2. \A i \in Positions' : ~(i < root')
    BY DEF StartSearch, Positions
  <2>3. root' \in 1 .. Len(plan'.steps) + 1
    BY <2>1 DEF StartSearch
  <2>. QED
    BY <2>2, <2>3 DEF RootInv
<1>7. TypeOK'
  BY AdmissionAssumption DEF StartSearch, TypeOK
<1>. QED
  BY <1>2, <1>4, <1>5, <1>6, <1>7 DEF SearchInv

-----------------------------------------------------------------------------
(* Every step keeps the invariant                                          *)

LEMMA Initially == Init => IInv
<1>. SUFFICES ASSUME Init PROVE IInv
  OBVIOUS
<1>1. TypeOK
  <2>1. root \in 1 .. MaxSteps + 1
    BY AdmissionAssumption DEF Init
  <2>2. stack \in Seq([id : Ids, todo : SUBSET Ids])
    BY DEF Init
  <2>. QED
    BY <2>1, <2>2 DEF Init, TypeOK
<1>2. GuardInv /\ OutcomeInv /\ SearchInv /\ SearchIsExact
  BY DEF Init, GuardInv, OutcomeInv, SearchInv, SearchIsExact
<1>. QED
  BY <1>1, <1>2 DEF IInv

LEMMA ConstructKeeps == IInv /\ Construct => IInv'
<1>. SUFFICES ASSUME IInv, Construct PROVE IInv'
  OBVIOUS
<1>. USE DEF IInv
<1>1. stage = "construct" /\ plan' = plan /\ ~searching
  BY DEF Construct
<1>2. CASE StepsRefused \/ PlanRefused
  <2>1. Conclude(FALSE) /\ UNCHANGED searchVars
    BY <1>2 DEF Construct
  <2>2. GuardInv' /\ OutcomeInv' /\ SearchInv' /\ SearchIsExact'
    BY <1>1, <1>2, <2>1, Concluded
  <2>3. TypeOK'
    BY <1>1, <2>1 DEF Conclude, searchVars, TypeOK
  <2>. QED
    BY <2>2, <2>3
<1>3. CASE ~(StepsRefused \/ PlanRefused)
  <2>1. StartSearch /\ UNCHANGED <<stage, built, valid>>
    BY <1>3 DEF Construct
  <2>2. ~Unknown
    BY <1>3 DEF PlanRefused
  <2>. QED
    BY <1>1, <1>3, <2>1, <2>2, StartKeeps
<1>. QED
  BY <1>2, <1>3

LEMMA ValidateKeeps == IInv /\ Validate => IInv'
<1>. SUFFICES ASSUME IInv, Validate PROVE IInv'
  OBVIOUS
<1>. USE DEF IInv
<1>1. stage = "validate" /\ plan' = plan /\ ~searching
  BY DEF Validate
<1>2. CASE Issues
  <2>1. Conclude(FALSE) /\ UNCHANGED searchVars
    BY <1>2 DEF Validate
  <2>2. GuardInv' /\ OutcomeInv' /\ SearchInv' /\ SearchIsExact'
    BY <1>1, <1>2, <2>1, Concluded
  <2>3. TypeOK'
    BY <1>1, <2>1 DEF Conclude, searchVars, TypeOK
  <2>. QED
    BY <2>2, <2>3
<1>3. CASE ~Issues
  <2>1. StartSearch /\ UNCHANGED <<stage, built, valid>>
    BY <1>3 DEF Validate
  <2>2. ~Unknown
    BY <1>3 DEF Issues, ReferenceIssue
  <2>. QED
    BY <1>1, <1>3, <2>1, <2>2, StartKeeps
<1>. QED
  BY <1>2, <1>3

LEMMA VisitRootKeeps == IInv /\ VisitRoot => IInv'
<1>. SUFFICES ASSUME IInv, VisitRoot PROVE IInv'
  OBVIOUS
<1>. DEFINE id == plan.steps[root].id
<1>1. /\ searching /\ stack = <<>> /\ root \in Positions /\ Visit(id, <<>>)
      /\ root' = root + 1 /\ plan' = plan
  BY DEF VisitRoot
<1>2. /\ TypeOK /\ GuardInv /\ OutcomeInv /\ SearchIsExact
      /\ PathInv /\ DoneInv /\ VisitedInv /\ RootInv
  BY <1>1 DEF IInv, SearchInv
<1>3. id \in StepIds /\ id \in Ids /\ <<>> \in Seq(Frame)
  BY <1>1, <1>2, PlanShape DEF StepIds
<1>4. visiting = {}
  <2>1. 1 .. Depth = {}
    BY <1>1 DEF Depth
  <2>. QED
    BY <1>2, <2>1 DEF PathInv
<1>5. /\ GuardInv' /\ OutcomeInv' /\ SearchIsExact'
      /\ searching' => /\ PathInv' /\ DoneInv' /\ VisitedInv'
                       /\ visited' \cup visiting' = visited \cup visiting \cup {id}
  BY <1>1, <1>2, <1>3, <1>4, ReachingRoot, VisitKeeps
<1>6. Len(plan.steps) \in 0 .. MaxSteps /\ MaxSteps \in Nat
  BY <1>2, PlanShape, AdmissionAssumption
<1>7. RootInv' \/ ~searching'
  <2>1. root' \in 1 .. Len(plan'.steps) + 1
    BY <1>1, <1>6 DEF Positions
  <2>2. ASSUME searching', NEW i \in Positions, i < root'
        PROVE  plan.steps[i].id \in visited' \cup visiting'
    <3>1. i < root \/ i = root
      BY <1>1, <2>2 DEF Positions
    <3>2. i < root => plan.steps[i].id \in visited \cup visiting
      BY <1>2 DEF RootInv
    <3>. QED
      BY <1>5, <2>2, <3>1, <3>2
  <2>3. Positions' = Positions
    BY <1>1, GraphFixed
  <2>. QED
    BY <1>1, <2>1, <2>2, <2>3 DEF RootInv
<1>8. TypeOK'
  <2>1. /\ stack' \in Seq(Frame) /\ visiting' \in SUBSET Ids /\ visited' = visited
        /\ searching' \in BOOLEAN /\ stage' \in {"construct", "validate", "done"}
        /\ built' \in {"unknown", "yes", "no"} /\ valid' \in {"unknown", "yes", "no"}
    BY <1>1, <1>2, <1>3, VisitType DEF GuardInv
  <2>2. root' \in 1 .. MaxSteps + 1
    BY <1>1, <1>6 DEF Positions
  <2>. QED
    BY <1>1, <1>2, <2>1, <2>2 DEF TypeOK, Frame
<1>. QED
  BY <1>5, <1>7, <1>8 DEF IInv, SearchInv

LEMMA VisitDependencyKeeps == IInv /\ VisitDependency => IInv'
<1>. SUFFICES ASSUME IInv, VisitDependency PROVE IInv'
  OBVIOUS
<1>1. /\ searching /\ stack # <<>> /\ UNCHANGED <<plan, root>>
  BY DEF VisitDependency
<1>2. PICK d \in Top.todo : Visit(d, [stack EXCEPT ![Depth].todo = @ \ {d}])
  BY DEF VisitDependency
<1>. DEFINE outer == [stack EXCEPT ![Depth].todo = @ \ {d}]
<1>3. /\ TypeOK /\ GuardInv /\ OutcomeInv /\ SearchIsExact
      /\ PathInv /\ DoneInv /\ VisitedInv /\ RootInv
  BY <1>1 DEF IInv, SearchInv
<1>4. Reaching(outer, d)
  BY <1>1, <1>3, ReachingDependency
<1>. HIDE DEF outer
<1>5. outer \in Seq(Frame)
  BY <1>4 DEF Reaching
<1>6. d \in StepIds /\ d \in Ids
  <2>1. Depth \in 1 .. Depth
    BY <1>1, <1>3, StackShape DEF Depth
  <2>2. d \in Needs(Top.id)
    BY <1>3, <2>1 DEF PathInv, Top
  <2>3. d \in StepIds
    BY <1>1, <1>3, <2>2, Closed DEF GuardInv
  <2>. QED
    BY <1>3, <2>3, PlanShape
<1>7. d \in visiting => Cyclic
  BY <1>1, <1>3, MetAgainIsCyclic
<1>8. Visit(d, outer)
  BY <1>2 DEF outer
<1>9. /\ GuardInv' /\ OutcomeInv' /\ SearchIsExact'
      /\ searching' => /\ PathInv' /\ DoneInv' /\ VisitedInv'
                       /\ visited' \cup visiting' = visited \cup visiting \cup {d}
  BY <1>1, <1>3, <1>4, <1>6, <1>7, <1>8, VisitKeeps
<1>10. RootInv' \/ ~searching'
  <2>1. Positions' = Positions
    BY <1>1, GraphFixed
  <2>. QED
    BY <1>1, <1>3, <1>9, <2>1 DEF RootInv
<1>11. TypeOK'
  <2>1. /\ stack' \in Seq(Frame) /\ visiting' \in SUBSET Ids /\ visited' = visited
        /\ searching' \in BOOLEAN /\ stage' \in {"construct", "validate", "done"}
        /\ built' \in {"unknown", "yes", "no"} /\ valid' \in {"unknown", "yes", "no"}
    BY <1>1, <1>3, <1>5, <1>6, <1>8, VisitType DEF GuardInv
  <2>. QED
    BY <1>1, <1>3, <2>1 DEF TypeOK, Frame
<1>. QED
  BY <1>9, <1>10, <1>11 DEF IInv, SearchInv

LEMMA LeaveStepKeeps == IInv /\ Leave => IInv'
<1>. SUFFICES ASSUME IInv, Leave PROVE IInv'
  OBVIOUS
<1>1. searching /\ UNCHANGED <<plan, stage, searching, root, built, valid>>
  BY DEF Leave
<1>2. /\ TypeOK /\ GuardInv /\ OutcomeInv /\ SearchIsExact
      /\ PathInv /\ DoneInv /\ VisitedInv /\ RootInv
  BY <1>1 DEF IInv, SearchInv
<1>3. /\ PathInv' /\ DoneInv' /\ VisitedInv'
      /\ visited' \cup visiting' = visited \cup visiting
  BY <1>2, LeaveKeeps
<1>4. GuardInv' /\ OutcomeInv' /\ SearchIsExact'
  BY <1>1, <1>2, Continued
<1>5. RootInv'
  <2>1. Positions' = Positions
    BY <1>1, GraphFixed
  <2>. QED
    BY <1>1, <1>2, <1>3, <2>1 DEF RootInv
<1>6. TypeOK'
  <2>1. stack \in Seq(Frame) /\ Depth \in Nat /\ Depth = Len(stack) /\ Depth # 0
    BY <1>2, StackShape DEF Depth, Leave
  <2>2. stack' \in Seq(Frame)
    BY <2>1 DEF Leave, Pop
  <2>3. Top.id \in Ids
    <3>1. stack[Depth] \in Frame
      BY <2>1
    <3>. QED
      BY <3>1 DEF Top, Frame
  <2>4. visiting' \in SUBSET Ids /\ visited' \in SUBSET Ids
    BY <1>2, <2>3 DEF Leave, TypeOK
  <2>. QED
    BY <1>1, <1>2, <2>2, <2>4 DEF TypeOK, Frame
<1>. QED
  BY <1>3, <1>4, <1>5, <1>6 DEF IInv, SearchInv

LEMMA EndSearchKeeps == IInv /\ EndSearch => IInv'
<1>. SUFFICES ASSUME IInv, EndSearch PROVE IInv'
  OBVIOUS
<1>1. /\ searching /\ stack = <<>> /\ root \notin Positions /\ Conclude(TRUE)
      /\ UNCHANGED <<plan, searchVars>>
  BY DEF EndSearch
<1>2. /\ TypeOK /\ GuardInv /\ OutcomeInv /\ SearchIsExact
      /\ PathInv /\ DoneInv /\ VisitedInv /\ RootInv
  BY <1>1 DEF IInv, SearchInv
<1>3. visiting = {}
  <2>1. 1 .. Depth = {}
    BY <1>1 DEF Depth
  <2>. QED
    BY <1>2, <2>1 DEF PathInv
<1>4. StepIds \subseteq visited
  <2>1. \A i \in Positions : i < root
    <3>1. Len(plan.steps) \in Nat
      BY <1>2, PlanShape, AdmissionAssumption
    <3>2. root \in 1 .. Len(plan.steps) + 1
      BY <1>2 DEF RootInv
    <3>. QED
      BY <1>1, <3>1, <3>2 DEF Positions
  <2>. QED
    BY <1>2, <1>3, <2>1 DEF RootInv, StepIds
<1>5. ~Cyclic
  BY <1>2, <1>4, CyclicIsWaiting DEF VisitedInv
<1>6. GuardInv' /\ OutcomeInv' /\ SearchInv' /\ SearchIsExact'
  <2>1. /\ stage \in {"construct", "validate"}
        /\ stage = "construct" => ~(StepsRefused \/ PlanRefused)
        /\ stage = "validate" => ~Issues
    BY <1>1, <1>2 DEF GuardInv
  <2>. QED
    BY <1>1, <1>2, <1>5, <2>1, Concluded
<1>7. TypeOK'
  BY <1>1, <1>2 DEF Conclude, searchVars, TypeOK
<1>. QED
  BY <1>6, <1>7 DEF IInv

LEMMA StutterKeeps == IInv /\ UNCHANGED vars => IInv'
<1>. SUFFICES ASSUME IInv, UNCHANGED vars PROVE IInv'
  OBVIOUS
<1>. USE DEF vars
<1>1. /\ Positions' = Positions /\ StepIds' = StepIds
      /\ \A id : Needs(id)' = Needs(id)
      /\ GuardInv' /\ OutcomeInv' /\ SearchIsExact'
  BY GraphFixed, Continued DEF IInv
<1>2. Depth' = Depth
  BY DEF Depth
<1>3. SearchInv'
  BY <1>1, <1>2 DEF IInv, SearchInv, PathInv, DoneInv, VisitedInv, Waiting, RootInv
<1>4. TypeOK'
  BY DEF IInv, TypeOK
<1>. QED
  BY <1>1, <1>3, <1>4 DEF IInv

LEMMA Inductive == IInv /\ [Next]_vars => IInv'
BY ConstructKeeps, ValidateKeeps, VisitRootKeeps, VisitDependencyKeeps, LeaveStepKeeps,
   EndSearchKeeps, StutterKeeps DEF Next, Finished

-----------------------------------------------------------------------------
(* Theorems                                                                *)

\* The invariant of the search holds throughout.
THEOREM Invariance == Spec => []IInv
BY Initially, Inductive, PTL DEF Spec

\* Every variable keeps its type, for plans of every size.
THEOREM TypeCorrect == Spec => []TypeOK
<1>1. IInv => TypeOK
  BY DEF IInv
<1>. QED
  BY <1>1, Invariance, PTL

\* The depth-first search of the constructor and that of the validator refuse
\* exactly the plans some steps of which wait for each other, for every graph
\* and whatever order the dependencies are visited in.
THEOREM ExactSearch == Spec => []SearchIsExact
<1>1. IInv => SearchIsExact
  BY DEF IInv
<1>. QED
  BY <1>1, Invariance, PTL

\* How far the proposal, the constructor and the validator agree: what is built
\* is VALID and could have been proposed, and what is VALID is built unless one
\* of the conditions is hurt that the validator does not look at.
THEOREM Agreement == Spec => []CheckersAgree
<1>1. ASSUME IInv, stage = "done" PROVE CheckersAgree
  <2>1. /\ built # "unknown" /\ valid # "unknown" /\ SearchIsExact
        /\ built = "yes" => ~(StepsRefused \/ PlanRefused)
        /\ valid = "yes" => ~Issues
    BY <1>1 DEF IInv, OutcomeInv
  <2>2. built \in {"unknown", "yes", "no"} /\ plan \in Descriptions
    BY <1>1 DEF IInv, TypeOK
  <2>3. ASSUME built = "yes" PROVE valid = "yes" /\ Proposable
    <3>1. ~Issues /\ Proposable
      BY <2>1, <2>3 DEF StepsRefused, PlanRefused, Issues, IdentityIssue, StepIdIssue,
           CapabilityIssue, DependencyIssue, ReferenceIssue, Proposable
    <3>. QED
      BY <2>1, <2>3, <3>1 DEF SearchIsExact
  <2>4. ASSUME valid = "yes", plan.steps # <<>>,
               plan.flaw \notin {"loose", "badref", "stepdata", "plandata"},
               plan.reads = NoReference \/ (plan.reads.of \notin Dotted /\ plan.reads.of \in StepIds)
        PROVE  built = "yes"
    <3>1. ~Cyclic /\ ~Issues
      BY <2>1, <2>4 DEF SearchIsExact
    <3>2. Positions # {}
      <4>1. plan.steps \in Seq(Step) /\ Len(plan.steps) \in Nat
        BY <1>1, PlanShape, AdmissionAssumption DEF IInv
      <4>2. Len(plan.steps) # 0
        BY <2>4, <4>1
      <4>3. 1 \in 1 .. Len(plan.steps)
        BY <4>1, <4>2
      <4>. QED
        BY <4>3 DEF Positions
    <3>3. plan.reads = NoReference \/ plan.reads.as \in StepIds
      <4>1. CASE plan.reads \in References
        <5>1. plan.reads.of \notin Dotted => plan.reads.as = plan.reads.of
          BY <4>1 DEF References
        <5>. QED
          BY <2>4, <5>1
      <4>2. plan.reads \in References \cup {NoReference}
        BY <2>2 DEF Descriptions
      <4>. QED
        BY <4>1, <4>2
    <3>4. ~(StepsRefused \/ PlanRefused)
      BY <2>4, <3>1, <3>2, <3>3 DEF StepsRefused, PlanRefused, ReferencesRefused, Issues, IdentityIssue,
           StepIdIssue, CapabilityIssue, DependencyIssue, ReferenceIssue, Has
    <3>. QED
      BY <2>1, <3>1, <3>4 DEF SearchIsExact
  <2>. QED
    BY <2>3, <2>4 DEF CheckersAgree
<1>2. IInv => CheckersAgree
  BY <1>1 DEF CheckersAgree
<1>. QED
  BY <1>2, Invariance, PTL

-----------------------------------------------------------------------------
(* The recursion: how deep it goes, and that it ends                       *)

\* visit is never nested deeper than the plan has ids.
DepthIsBounded == searching => Len(stack) <= Cardinality(StepIds)

\* What a step of the search makes progress on, in this order: the ids that
\* were visited, those that were or are being visited, the loop over the
\* steps, the innermost loop over dependencies.
Advances ==
  /\ visited \subseteq visited' /\ visiting \cup visited \subseteq visiting' \cup visited'
  /\ \/ visited' # visited
     \/ visiting' \cup visited' # visiting \cup visited
     \/ stack' = stack /\ root' = root + 1
     \/ root' = root /\ Depth' = Depth /\ Top'.todo \subseteq Top.todo /\ Top'.todo # Top.todo

EveryVisitCounts == [][searching /\ searching' => Advances]_vars

\* The ids of a plan are finitely many.
LEMMA FiniteGraph == ASSUME TypeOK PROVE IsFiniteSet(StepIds)
<1>1. Len(plan.steps) \in Nat
  BY PlanShape, AdmissionAssumption
<1>2. IsFiniteSet(Positions)
  BY <1>1, FS_Interval DEF Positions
<1>. DEFINE name == [i \in Positions |-> plan.steps[i].id]
<1>3. name \in Surjection(Positions, StepIds)
  BY DEF Surjection, StepIds
<1>. QED
  BY <1>2, <1>3, FS_Surjection

\* The visits in progress are visits of different steps of the plan: a chain
\* of dependencies is gone down once, and a cycle does not deepen it.
THEOREM BoundedDepth == Spec => []DepthIsBounded
<1>1. ASSUME IInv, searching PROVE Len(stack) <= Cardinality(StepIds)
  <2>1. stack \in Seq(Frame) /\ Depth \in Nat /\ Depth = Len(stack)
    BY <1>1, StackShape DEF IInv, Depth
  <2>2. /\ \A i \in 1 .. Depth : stack[i].id \in StepIds
        /\ \A i, j \in 1 .. Depth : stack[i].id = stack[j].id => i = j
    BY <1>1 DEF IInv, SearchInv, PathInv
  <2>. DEFINE f == [i \in 1 .. Depth |-> stack[i].id]
  <2>3. f \in [1 .. Depth -> StepIds]
    BY <2>2
  <2>4. f \in Injection(1 .. Depth, StepIds)
    BY <2>2, <2>3 DEF Injection, IsInjective
  <2>5. IsFiniteSet(StepIds)
    BY <1>1, FiniteGraph DEF IInv
  <2>6. Cardinality(1 .. Depth) = Depth
    <3>1. ASSUME NEW n \in Nat PROVE Cardinality(1 .. n) = n
      <4>1. Cardinality(1 .. n) = IF 1 > n THEN 0 ELSE n - 1 + 1
        BY FS_Interval
      <4>. QED
        BY <4>1
    <3>. QED
      BY <2>1, <3>1
  <2>. QED
    BY <2>1, <2>4, <2>5, <2>6, FS_Injection
<1>2. IInv => DepthIsBounded
  BY <1>1 DEF DepthIsBounded
<1>. QED
  BY <1>2, Invariance, PTL

\* Every step of a search brings it nearer to its end: the recursion ends in
\* a plan of every size, whether or not the steps wait for each other.
THEOREM SearchEnds == Spec => EveryVisitCounts
<1>1. ASSUME IInv, searching, searching', Leave PROVE Advances
  <2>1. Top.id \in visiting /\ Top.id \notin visited
    <3>1. stack \in Seq(Frame) /\ Depth \in Nat /\ Depth \in 1 .. Depth
      BY <1>1, StackShape DEF IInv, Leave, Depth
    <3>. QED
      BY <1>1, <3>1 DEF IInv, SearchInv, PathInv, Top
  <2>. QED
    BY <1>1, <2>1 DEF Leave, Advances
<1>2. ASSUME IInv, searching, searching', VisitRoot PROVE Advances
  <2>1. CASE plan.steps[root].id \in visited
    BY <1>1, <1>2, <2>1 DEF VisitRoot, Visit, Conclude, Advances
  <2>2. CASE plan.steps[root].id \notin visited
    BY <1>2, <2>2 DEF VisitRoot, Visit, Conclude, Advances
  <2>. QED
    BY <2>1, <2>2
<1>3. ASSUME IInv, searching, searching', VisitDependency PROVE Advances
  <2>. DEFINE outer(d) == [stack EXCEPT ![Depth].todo = @ \ {d}]
  <2>1. PICK d \in Top.todo : Visit(d, outer(d))
    BY <1>3 DEF VisitDependency
  <2>2. stack \in Seq(Frame) /\ Depth \in Nat /\ Depth \in 1 .. Depth
    BY <1>3, StackShape DEF IInv, VisitDependency, Depth
  <2>3. root' = root
    BY <1>3 DEF VisitDependency
  <2>4. CASE d \in visited /\ d \notin visiting
    <3>1. stack' = outer(d) /\ visiting' = visiting /\ visited' = visited
      BY <2>1, <2>4 DEF Visit
    <3>2. Depth' = Depth
      BY <2>2, <3>1 DEF Depth
    <3>3. Top' = stack'[Depth] /\ Top'.todo = Top.todo \ {d}
      BY <2>2, <3>1, <3>2 DEF Top, Frame, Depth
    <3>. QED
      BY <2>1, <2>3, <3>1, <3>2, <3>3 DEF Advances
  <2>5. CASE d \notin visited /\ d \notin visiting
    BY <2>1, <2>5 DEF Visit, Advances
  <2>6. CASE d \in visiting
    BY <1>3, <2>1, <2>6 DEF Visit, Conclude
  <2>. QED
    BY <2>4, <2>5, <2>6
<1>4. ASSUME IInv, searching, searching', Next PROVE Advances \/ UNCHANGED vars
  BY <1>1, <1>2, <1>3, <1>4
  DEF Next, Construct, Validate, EndSearch, Conclude, Finished
<1>5. IInv /\ [Next]_vars => [searching /\ searching' => Advances]_vars
  BY <1>4
<1>. QED
  BY <1>5, Invariance, PTL DEF Spec, EveryVisitCounts
=============================================================================
