---------------------- MODULE DependencyContainer_proofs --------------------
(***************************************************************************)
(* Proofs about DependencyContainer, for every set of services, every      *)
(* dependency graph and any number of calls.                               *)
(*                                                                         *)
(* The argument: _resolution_stack follows the calls in progress and no    *)
(* service is on it twice, so nothing that is under construction has been  *)
(* built; what a provider declares is had before it provides.  While no    *)
(* provider strays, each service on the stack is a declared dependency of  *)
(* the one before it, so a service found on the stack again would close a  *)
(* cycle of the registry, which freeze has ruled out.                      *)
(***************************************************************************)
EXTENDS DependencyContainerProps, SequenceTheorems, FiniteSetTheorems, TLAPS

FrameSet == [contract : Services, todo : SUBSET Services,
             place : {"dependencies", "providing"}, nested : 0 .. MaxNested]

-----------------------------------------------------------------------------
(* The inductive invariant, in named parts                                 *)

\* The service is registered, and built if it is a singleton.
Had(d) == d \in Registered /\ (lifetime[d] = "singleton" => d \in singletons)

\* What is under construction is registered, and not built if it is a
\* singleton; what is not registered has no instance.
ConstructionInv ==
  /\ \A i \in 1 .. Len(frames) :
       /\ frames[i].contract \in Registered
       /\ frames[i].contract \notin singletons
       /\ frames[i].todo \subseteq deps[frames[i].contract]
  /\ \A c \in singletons : lifetime[c] = "singleton"
  /\ \A c \in Services : lifetime[c] = "none" => built[c] = 0

\* A dependency the loop has gone through is had, unless it is the one being
\* resolved or its exception is on its way.
LoopInv ==
  \A i \in 1 .. Len(frames) : frames[i].place = "dependencies" =>
    \A d \in deps[frames[i].contract] \ frames[i].todo :
      \/ Had(d)
      \/ i < Len(frames) /\ frames[i + 1].contract = d
      \/ i = Len(frames) /\ raised # "none"

\* While nothing strays, the services under construction are a path of the
\* registry, which has no cycle once it is frozen.
PathInv ==
  /\ frozen => Complete /\ ~Cyclic
  /\ ~strayed => \A i \in 1 .. Len(frames) :
                   i < Len(frames) => frames[i + 1].contract \in deps[frames[i].contract]

IInv ==
  /\ TypeOK /\ StackFollowsCalls /\ NoServiceInsideItself
  /\ ConstructionInv /\ SingletonBuiltOnce
  /\ LoopInv /\ DependenciesFirst
  /\ PathInv /\ FrozenResolves

-----------------------------------------------------------------------------
(* Sequences                                                               *)

\* What is known of the frames from their type.
LEMMA FrameTypes ==
  ASSUME TypeOK
  PROVE  /\ Depth \in Nat /\ frames \in Seq(FrameSet)
         /\ \A i \in 1 .. Depth : frames[i] \in FrameSet
         /\ frames # <<>> => Depth \in 1 .. Depth /\ Top = frames[Depth] /\ Top \in FrameSet
         /\ frames = <<>> => Depth = 0
         /\ Len(resolving) \in Nat
         /\ \A i \in 1 .. Len(resolving) : resolving[i] \in Services
<1>1. frames \in Seq(FrameSet) /\ resolving \in Seq(Services)
  BY DEF TypeOK, FrameSet
<1>2. Depth \in Nat /\ Len(resolving) \in Nat
  BY <1>1 DEF Depth
<1>3. \A i \in 1 .. Depth : frames[i] \in FrameSet
  BY <1>1 DEF Depth
<1>4. frames = <<>> => Depth = 0
  BY DEF Depth
<1>5. frames # <<>> => Depth # 0
  BY <1>1, EmptySeq DEF Depth
<1>6. \A i \in 1 .. Len(resolving) : resolving[i] \in Services
  BY <1>1
<1>7. frames # <<>> => Depth \in 1 .. Depth /\ Top = frames[Depth] /\ Top \in FrameSet
  BY <1>2, <1>3, <1>5 DEF Top
<1>. QED
  BY <1>1, <1>2, <1>3, <1>4, <1>6, <1>7

\* A new frame is on top of the others.
LEMMA PushFacts ==
  ASSUME NEW S, NEW s \in Seq(S), NEW x \in S
  PROVE  /\ Append(s, x) \in Seq(S) /\ Len(Append(s, x)) = Len(s) + 1
         /\ \A i \in 1 .. Len(s) : Append(s, x)[i] = s[i]
         /\ Append(s, x)[Len(s) + 1] = x
OBVIOUS

\* Without its last element a sequence is shorter by one.
LEMMA DropFacts ==
  ASSUME NEW S, NEW s \in Seq(S), Len(s) # 0
  PROVE  /\ DropLast(s) \in Seq(S) /\ Len(DropLast(s)) = Len(s) - 1
         /\ \A i \in 1 .. Len(s) - 1 : DropLast(s)[i] = s[i]
<1>1. Len(s) \in Nat \ {0} /\ \A i \in 1 .. Len(s) : s[i] \in S
  OBVIOUS
<1>. DEFINE n == Len(s) - 1
<1>2. n \in Nat /\ \A i \in 1 .. n : s[i] \in S
  BY <1>1
<1>. HIDE DEF n
<1>3. /\ SubSeq(s, 1, n) \in Seq(S)
      /\ Len(SubSeq(s, 1, n)) = IF 1 <= n THEN n - 1 + 1 ELSE 0
      /\ \A i \in 1 .. n - 1 + 1 : SubSeq(s, 1, n)[i] = s[1 + i - 1]
  BY <1>2, SubSeqProperties
<1>4. DropLast(s) = SubSeq(s, 1, n)
  BY DEF DropLast, n
<1>5. Len(DropLast(s)) = n /\ \A i \in 1 .. n : DropLast(s)[i] = s[i]
  BY <1>2, <1>3, <1>4
<1>. QED
  BY <1>3, <1>4, <1>5 DEF n

\* A frame starts with all dependencies to do.
LEMMA FrameType ==
  ASSUME TypeOK, NEW c \in Services
  PROVE  /\ Frame(c) \in FrameSet
         /\ Frame(c).contract = c /\ Frame(c).todo = deps[c] /\ Frame(c).place = "dependencies"
BY ContainerAssumption DEF Frame, FrameSet, TypeOK

-----------------------------------------------------------------------------
(* The cycle that a declared dependency on the stack would close           *)

LEMMA NoCycle ==
  ASSUME TypeOK, StackFollowsCalls, ConstructionInv, PathInv, frozen, ~strayed,
         frames # <<>>, NEW d \in deps[Top.contract]
  PROVE  ~OnStack(d)
<1>. SUFFICES ASSUME OnStack(d) PROVE FALSE
  OBVIOUS
<1>1. PICK i \in 1 .. Depth : frames[i].contract = d
  BY FrameTypes DEF OnStack, StackFollowsCalls, Depth
<1>. DEFINE S == { frames[k].contract : k \in i .. Depth }
<1>2. S \in (SUBSET Registered) \ {{}}
  <2>1. \A k \in i .. Depth : frames[k].contract \in Registered
    BY FrameTypes DEF ConstructionInv, Depth
  <2>2. d \in S
    BY <1>1, FrameTypes
  <2>3. S \subseteq Registered
    BY <2>1
  <2>. HIDE DEF S
  <2>. QED
    BY <2>2, <2>3
<1>3. ASSUME NEW c \in S PROVE deps[c] \cap S # {}
  <2>1. PICK k \in i .. Depth : c = frames[k].contract
    OBVIOUS
  <2>2. CASE k = Depth
    <3>1. d \in deps[c]
      BY <2>1, <2>2, FrameTypes
    <3>2. d \in S
      BY <1>1, FrameTypes
    <3>. QED
      BY <3>1, <3>2
  <2>3. CASE k # Depth
    <3>1. k \in 1 .. Depth /\ k < Depth /\ k + 1 \in i .. Depth
      BY <2>3, FrameTypes
    <3>2. frames[k + 1].contract \in deps[c]
      BY <2>1, <3>1 DEF PathInv, Depth
    <3>3. frames[k + 1].contract \in S
      BY <3>1
    <3>. QED
      BY <3>2, <3>3
  <2>. QED
    BY <2>2, <2>3
<1>4. Cyclic
  BY <1>2, <1>3 DEF Cyclic
<1>. QED
  BY <1>4 DEF PathInv

-----------------------------------------------------------------------------
(* A call of resolve                                                       *)

\* What the caller's frames are when the call begins: only the innermost has
\* changed, and only the service that is called may be done with.
Calling(c, outer) ==
  /\ outer \in Seq(FrameSet) /\ Len(outer) = Depth
  /\ \A i \in 1 .. Depth :
       /\ outer[i].contract = frames[i].contract
       /\ outer[i].place = frames[i].place
       /\ outer[i].todo \subseteq frames[i].todo
       /\ i < Depth => outer[i].todo = frames[i].todo
       /\ frames[i].todo \subseteq outer[i].todo \cup {c}

\* A call that does not stray is of a registered service if the program makes
\* it, and of a declared dependency if a provider or the loop does.
Declared(c) ==
  ~strayed' => IF frames = <<>> THEN c \in Registered ELSE ~strayed /\ c \in deps[Top.contract]

\* The call raises or returns a stored instance: no frame is added.
LEMMA CallEnds ==
  ASSUME IInv, raised = "none", NEW c \in Services, NEW outer, Calling(c, outer),
         frames' = outer, UNCHANGED <<registry, singletons, built, resolving>>,
         calls' \in 0 .. MaxCalls, strayed' \in BOOLEAN, Declared(c),
         \/ raised' \in {"missing", "circular"} /\ (frozen => strayed')
         \/ raised' = "none" /\ Had(c)
  PROVE  IInv'
<1>. USE DEF IInv
<1>1. /\ Depth \in Nat /\ Len(frames) = Depth /\ Len(frames') = Depth /\ frames' \in Seq(FrameSet)
      /\ lifetime' = lifetime /\ deps' = deps /\ frozen' = frozen /\ singletons' = singletons
      /\ built' = built /\ resolving' = resolving
  BY FrameTypes DEF Calling, registry, Depth
<1>2. \A i \in 1 .. Depth :
        /\ frames'[i].contract = frames[i].contract
        /\ frames'[i].place = frames[i].place
        /\ frames'[i].todo \subseteq frames[i].todo
        /\ i < Depth => frames'[i].todo = frames[i].todo
        /\ frames[i].todo \subseteq frames'[i].todo \cup {c}
  BY DEF Calling
<1>3. TypeOK'
  BY <1>1 DEF TypeOK, Registered, FrameSet
<1>4. StackFollowsCalls'
  BY <1>1, <1>2 DEF StackFollowsCalls
<1>5. NoServiceInsideItself'
  BY <1>1, <1>2 DEF NoServiceInsideItself
<1>6. ConstructionInv'
  <2>1. \A i \in 1 .. Depth : /\ frames'[i].contract \in Registered'
                              /\ frames'[i].contract \notin singletons'
                              /\ frames'[i].todo \subseteq deps'[frames'[i].contract]
    BY <1>1, <1>2 DEF ConstructionInv, Registered
  <2>. QED
    BY <1>1, <2>1 DEF ConstructionInv
<1>7. SingletonBuiltOnce'
  BY <1>1 DEF SingletonBuiltOnce
<1>8. LoopInv'
  <2>. SUFFICES ASSUME NEW i \in 1 .. Depth, frames'[i].place = "dependencies",
                       NEW d \in deps[frames[i].contract], d \notin frames'[i].todo
                PROVE  \/ Had(d)
                       \/ i < Depth /\ frames'[i + 1].contract = d
                       \/ i = Depth /\ raised' # "none"
    BY <1>1, <1>2 DEF LoopInv, Had, Registered
  <2>1. CASE d \in frames[i].todo
    <3>1. d = c /\ i = Depth
      BY <1>1, <1>2, <2>1
    <3>. QED
      BY <3>1
  <2>2. CASE d \notin frames[i].todo
    <3>1. Had(d) \/ (i < Depth /\ frames[i + 1].contract = d)
      BY <1>1, <1>2, <2>2 DEF LoopInv
    <3>2. i < Depth => i + 1 \in 1 .. Depth
      BY <1>1
    <3>. QED
      BY <1>2, <3>1, <3>2
  <2>. QED
    BY <2>1, <2>2
<1>9. DependenciesFirst'
  BY <1>1, <1>2 DEF DependenciesFirst, Registered
<1>10. PathInv'
  <2>1. (frozen => Complete /\ ~Cyclic)'
    BY <1>1 DEF PathInv, Complete, Cyclic, Registered
  <2>2. ASSUME ~strayed', NEW i \in 1 .. Depth, i < Depth
        PROVE  frames'[i + 1].contract \in deps[frames'[i].contract]
    <3>1. i + 1 \in 1 .. Depth /\ frames # <<>>
      BY <1>1, <2>2, FrameTypes
    <3>2. ~strayed
      BY <2>2, <3>1 DEF Declared
    <3>. QED
      BY <1>1, <1>2, <2>2, <3>1, <3>2 DEF PathInv
  <2>. QED
    BY <1>1, <2>1, <2>2 DEF PathInv
<1>11. FrozenResolves'
  BY <1>1 DEF FrozenResolves
<1>. QED
  BY <1>3, <1>4, <1>5, <1>6, <1>7, <1>8, <1>9, <1>10, <1>11

\* The call goes on to the dependencies of the service: a frame is added.
LEMMA CallGoesOn ==
  ASSUME IInv, raised = "none", NEW c \in Registered, NEW outer, Calling(c, outer),
         c \notin singletons, ~OnStack(c),
         frames' = Append(outer, Frame(c)), resolving' = Append(resolving, c),
         UNCHANGED <<registry, singletons, built, raised>>,
         calls' \in 0 .. MaxCalls, strayed' \in BOOLEAN, Declared(c)
  PROVE  IInv'
<1>. USE DEF IInv
<1>. DEFINE n == Depth
<1>0. c \in Services
  BY DEF Registered
<1>1. /\ n \in Nat /\ Len(frames) = n /\ Len(resolving) = n
      /\ resolving \in Seq(Services) /\ outer \in Seq(FrameSet) /\ Len(outer) = n
      /\ lifetime' = lifetime /\ deps' = deps /\ frozen' = frozen /\ singletons' = singletons
      /\ built' = built /\ raised' = raised
      /\ frames = <<>> => n = 0
  BY FrameTypes DEF Calling, registry, Depth, StackFollowsCalls, TypeOK
<1>. HIDE DEF n
<1>2. /\ frames' \in Seq(FrameSet) /\ Len(frames') = n + 1
      /\ \A i \in 1 .. n : frames'[i] = outer[i]
      /\ frames'[n + 1] = Frame(c)
  BY <1>0, <1>1, FrameType, PushFacts
<1>3. /\ resolving' \in Seq(Services) /\ Len(resolving') = n + 1
      /\ \A i \in 1 .. n : resolving'[i] = resolving[i]
      /\ resolving'[n + 1] = c
  BY <1>0, <1>1, PushFacts
<1>4. \A i \in 1 .. n :
        /\ frames'[i].contract = frames[i].contract
        /\ frames'[i].place = frames[i].place
        /\ frames'[i].todo \subseteq frames[i].todo
        /\ i < n => frames'[i].todo = frames[i].todo
        /\ frames[i].todo \subseteq frames'[i].todo \cup {c}
  BY <1>2 DEF Calling, n
<1>5. /\ frames'[n + 1].contract = c /\ frames'[n + 1].todo = deps[c]
      /\ frames'[n + 1].place = "dependencies"
  BY <1>0, <1>2, FrameType
<1>6. \A i \in 1 .. n + 1 : i \in 1 .. n \/ i = n + 1
  BY <1>1
<1>7. \A i \in 1 .. n : frames[i].contract # c
  BY <1>1 DEF OnStack, StackFollowsCalls
<1>11. TypeOK'
  BY <1>1, <1>2, <1>3 DEF TypeOK, Registered, FrameSet
<1>12. StackFollowsCalls'
  BY <1>1, <1>2, <1>3, <1>4, <1>5, <1>6 DEF StackFollowsCalls
<1>13. NoServiceInsideItself'
  <2>. SUFFICES ASSUME NEW i \in 1 .. n + 1, NEW j \in 1 .. n + 1,
                       frames'[i].contract = frames'[j].contract
                PROVE  i = j
    BY <1>2 DEF NoServiceInsideItself
  <2>. QED
    BY <1>1, <1>4, <1>5, <1>6, <1>7 DEF NoServiceInsideItself
<1>14. ConstructionInv'
  <2>1. \A i \in 1 .. n : /\ frames'[i].contract \in Registered
                          /\ frames'[i].contract \notin singletons
                          /\ frames'[i].todo \subseteq deps[frames'[i].contract]
    BY <1>1, <1>4 DEF ConstructionInv
  <2>2. \A i \in 1 .. n + 1 : /\ frames'[i].contract \in Registered
                              /\ frames'[i].contract \notin singletons
                              /\ frames'[i].todo \subseteq deps[frames'[i].contract]
    BY <1>5, <1>6, <2>1
  <2>. QED
    BY <1>1, <1>2, <2>2 DEF ConstructionInv, Registered
<1>15. SingletonBuiltOnce'
  BY <1>1 DEF SingletonBuiltOnce
<1>16. LoopInv'
  <2>. SUFFICES ASSUME NEW i \in 1 .. n + 1, frames'[i].place = "dependencies",
                       NEW d \in deps[frames'[i].contract], d \notin frames'[i].todo
                PROVE  Had(d) \/ (i < n + 1 /\ frames'[i + 1].contract = d)
    BY <1>1, <1>2 DEF LoopInv, Had, Registered
  <2>1. i \in 1 .. n
    BY <1>5, <1>6
  <2>2. CASE d \in frames[i].todo
    <3>1. d = c /\ i = n
      BY <1>1, <1>4, <2>1, <2>2
    <3>. QED
      BY <1>1, <1>5, <3>1
  <2>3. CASE d \notin frames[i].todo
    <3>0. frames[i].place = "dependencies" /\ d \in deps[frames[i].contract]
      BY <1>1, <1>4, <2>1
    <3>1. Had(d) \/ (i < n /\ frames[i + 1].contract = d)
      BY <1>1, <2>1, <2>3, <3>0 DEF LoopInv
    <3>2. CASE Had(d)
      BY <3>2
    <3>3. CASE i < n /\ frames[i + 1].contract = d
      <4>1. i + 1 \in 1 .. n /\ i < n + 1
        BY <1>1, <2>1, <3>3
      <4>2. frames'[i + 1].contract = frames[i + 1].contract
        BY <1>4, <4>1
      <4>. QED
        BY <3>3, <4>1, <4>2
    <3>. QED
      BY <3>1, <3>2, <3>3
  <2>. QED
    BY <2>2, <2>3
<1>17. DependenciesFirst'
  <2>. SUFFICES ASSUME NEW i \in 1 .. n + 1, frames'[i].place = "providing",
                       NEW d \in deps[frames'[i].contract]
                PROVE  d \in Registered /\ (lifetime[d] = "singleton" => d \in singletons)
    BY <1>1, <1>2 DEF DependenciesFirst, Registered
  <2>1. i \in 1 .. n
    BY <1>5, <1>6
  <2>. QED
    BY <1>1, <1>4, <2>1 DEF DependenciesFirst
<1>18. PathInv'
  <2>1. (frozen => Complete /\ ~Cyclic)'
    BY <1>1 DEF PathInv, Complete, Cyclic, Registered
  <2>2. ASSUME ~strayed', NEW i \in 1 .. n + 1, i < n + 1
        PROVE  frames'[i + 1].contract \in deps[frames'[i].contract]
    <3>1. i \in 1 .. n /\ frames # <<>>
      BY <1>1, <2>2
    <3>2. ~strayed /\ c \in deps[Top.contract]
      BY <2>2, <3>1 DEF Declared
    <3>3. CASE i = n
      BY <1>4, <1>5, <3>1, <3>2, <3>3 DEF Top, n
    <3>4. CASE i # n
      <4>1. i < n /\ i + 1 \in 1 .. n
        BY <1>1, <3>1, <3>4
      <4>. QED
        BY <1>1, <1>4, <3>1, <3>2, <4>1 DEF PathInv
    <3>. QED
      BY <3>3, <3>4
  <2>. QED
    BY <1>1, <1>2, <2>1, <2>2 DEF PathInv
<1>19. FrozenResolves'
  BY <1>1 DEF FrozenResolves
<1>. QED
  BY <1>11, <1>12, <1>13, <1>14, <1>15, <1>16, <1>17, <1>18, <1>19

\* Whatever a call of resolve meets.
LEMMA EnterInductive ==
  ASSUME IInv, raised = "none", NEW c \in Services, NEW outer, Calling(c, outer),
         Enter(c, outer), UNCHANGED <<registry, singletons, built>>,
         calls' \in 0 .. MaxCalls, strayed' \in BOOLEAN, Declared(c)
  PROVE  IInv'
<1>1. CASE c \notin Registered
  <2>1. raised' = "missing" /\ frames' = outer /\ resolving' = resolving
    BY <1>1 DEF Enter
  <2>2. frozen => strayed'
    <3>. SUFFICES ASSUME frozen, ~strayed' PROVE FALSE
      OBVIOUS
    <3>1. frames # <<>> /\ c \in deps[Top.contract] /\ Complete
      BY <1>1 DEF Declared, IInv, PathInv
    <3>2. Top.contract \in Registered
      BY <3>1, FrameTypes DEF IInv, ConstructionInv, Depth
    <3>. QED
      BY <1>1, <3>1, <3>2 DEF Complete
  <2>. QED
    BY <2>1, <2>2, CallEnds
<1>2. CASE c \in Registered /\ c \in singletons
  BY <1>2, CallEnds DEF Enter, Had
<1>3. CASE c \in Registered /\ c \notin singletons /\ OnStack(c)
  <2>1. raised' = "circular" /\ frames' = outer /\ resolving' = resolving
    BY <1>3 DEF Enter
  <2>2. frozen => strayed'
    <3>. SUFFICES ASSUME frozen, ~strayed' PROVE FALSE
      OBVIOUS
    <3>1. CASE frames = <<>>
      <4>1. Len(resolving) = 0
        BY <3>1, FrameTypes DEF IInv, StackFollowsCalls, Depth
      <4>. QED
        BY <1>3, <4>1 DEF OnStack
    <3>2. CASE frames # <<>>
      <4>1. ~strayed /\ c \in deps[Top.contract]
        BY <3>2 DEF Declared
      <4>. QED
        BY <1>3, <3>2, <4>1, NoCycle DEF IInv
    <3>. QED
      BY <3>1, <3>2
  <2>. QED
    BY <2>1, <2>2, CallEnds
<1>4. CASE c \in Registered /\ c \notin singletons /\ ~OnStack(c)
  BY <1>4, CallGoesOn DEF Enter
<1>. QED
  BY <1>1, <1>2, <1>3, <1>4

-----------------------------------------------------------------------------
(* The end of a call of resolve                                            *)

\* The innermost call ends: its caller has the service, or an exception.
LEMMA LeaveInductive ==
  ASSUME IInv, frames # <<>>, Leave, UNCHANGED <<registry, calls>>,
         raised' \in {"none", "missing", "circular", "construction", "invalid"},
         strayed' \in BOOLEAN, strayed => strayed',
         singletons' = singletons \/ singletons' = singletons \cup {Top.contract},
         built' \in [Services -> 0 .. MaxBuilt],
         \A c \in singletons' : lifetime[c] = "singleton",
         \A c \in Services : lifetime[c] = "none" => built'[c] = 0,
         SingletonBuiltOnce', FrozenResolves',
         raised' = "none" /\ lifetime[Top.contract] = "singleton" => Top.contract \in singletons'
  PROVE  IInv'
<1>. USE DEF IInv
<1>. DEFINE n == Depth - 1
<1>0. /\ resolving \in Seq(Services) /\ Len(resolving) = Depth /\ Len(frames) = Depth
      /\ lifetime' = lifetime /\ deps' = deps /\ frozen' = frozen /\ calls' = calls
  BY DEF registry, Depth, StackFollowsCalls, TypeOK
<1>1. /\ n \in Nat /\ Depth = n + 1 /\ Len(frames) = n + 1 /\ Len(resolving) = n + 1
      /\ resolving \in Seq(Services) /\ frames \in Seq(FrameSet)
      /\ lifetime' = lifetime /\ deps' = deps /\ frozen' = frozen /\ calls' = calls
      /\ Top = frames[n + 1] /\ frames[n + 1] \in FrameSet
  <2>1. TypeOK
    OBVIOUS
  <2>2. /\ Depth \in Nat /\ frames \in Seq(FrameSet)
        /\ Depth \in 1 .. Depth /\ Top = frames[Depth] /\ Top \in FrameSet
    BY ONLY <2>1, frames # <<>>, FrameTypes
  <2>3. n \in Nat /\ Depth = n + 1
    BY ONLY <2>2 DEF n
  <2>. QED
    BY ONLY <1>0, <2>2, <2>3
<1>. HIDE DEF n
<1>2. /\ frames' \in Seq(FrameSet) /\ Len(frames') = n
      /\ \A i \in 1 .. n : frames'[i] = frames[i]
  <2>1. Len(frames) # 0 /\ Len(frames) - 1 = n
    BY <1>1
  <2>. QED
    BY <1>1, <2>1, DropFacts DEF Leave
<1>3. /\ resolving' \in Seq(Services) /\ Len(resolving') = n
      /\ \A i \in 1 .. n : resolving'[i] = resolving[i]
  <2>1. Len(resolving) # 0 /\ Len(resolving) - 1 = n
    BY <1>1
  <2>. QED
    BY <1>1, <2>1, DropFacts DEF Leave
<1>4. 1 .. n \subseteq 1 .. n + 1 /\ n + 1 \in 1 .. n + 1
  BY <1>1
<1>5. /\ singletons \subseteq singletons' /\ Registered' = Registered
      /\ singletons' \subseteq singletons \cup {Top.contract}
      /\ Top.contract \in Registered
  BY <1>1, <1>4 DEF Registered, ConstructionInv
<1>6. \A d : Had(d) => Had(d)'
  BY <1>1, <1>5 DEF Had
<1>11. TypeOK'
  BY <1>1, <1>2, <1>3, <1>5 DEF TypeOK, FrameSet
<1>12. StackFollowsCalls'
  BY <1>1, <1>2, <1>3, <1>4 DEF StackFollowsCalls
<1>13. NoServiceInsideItself'
  BY <1>1, <1>2, <1>4 DEF NoServiceInsideItself
<1>14. ConstructionInv'
  <2>1. \A i \in 1 .. n : frames[i].contract # Top.contract
    <3>. SUFFICES ASSUME NEW i \in 1 .. n, frames[i].contract = frames[n + 1].contract
                  PROVE  FALSE
      BY <1>1
    <3>1. i = n + 1
      BY <1>1, <1>4 DEF NoServiceInsideItself
    <3>. QED
      BY <1>1, <3>1
  <2>2. \A i \in 1 .. n : /\ frames[i].contract \in Registered
                          /\ frames[i].contract \notin singletons
                          /\ frames[i].todo \subseteq deps[frames[i].contract]
    BY <1>1, <1>4 DEF ConstructionInv
  <2>3. \A i \in 1 .. n : frames[i].contract \notin singletons'
    BY <1>5, <2>1, <2>2
  <2>. QED
    BY <1>1, <1>2, <1>5, <2>2, <2>3 DEF ConstructionInv
<1>16. LoopInv'
  <2>. SUFFICES ASSUME NEW i \in 1 .. n, frames[i].place = "dependencies",
                       NEW d \in deps[frames[i].contract], d \notin frames[i].todo
                PROVE  \/ Had(d)'
                       \/ i < n /\ frames[i + 1].contract = d
                       \/ i = n /\ raised' # "none"
    <3>1. \A i \in 1 .. n : i < n => i + 1 \in 1 .. n
      BY <1>1
    <3>. QED
      BY <1>1, <1>2, <3>1 DEF LoopInv
  <2>1. Had(d) \/ frames[i + 1].contract = d
    BY <1>1, <1>4 DEF LoopInv
  <2>2. CASE Had(d)
    BY <1>6, <2>2
  <2>3. CASE frames[i + 1].contract = d /\ i = n
    <3>1. d = Top.contract
      BY <1>1, <2>3
    <3>. QED
      BY <1>1, <1>5, <2>3, <3>1 DEF Had
  <2>4. CASE frames[i + 1].contract = d /\ i # n
    BY <1>1, <2>4
  <2>. QED
    BY <2>1, <2>2, <2>3, <2>4
<1>17. DependenciesFirst'
  <2>1. \A i \in 1 .. n : frames[i].place = "providing" =>
          \A d \in deps[frames[i].contract] : d \in Registered /\ (lifetime[d] = "singleton" => d \in singletons)
    BY <1>1, <1>4 DEF DependenciesFirst
  <2>. QED
    BY <1>1, <1>2, <1>5, <2>1 DEF DependenciesFirst
<1>18. PathInv'
  <2>1. (frozen => Complete /\ ~Cyclic)'
    BY <1>1, <1>5 DEF PathInv, Complete, Cyclic
  <2>2. ASSUME ~strayed', NEW i \in 1 .. n, i < n
        PROVE  frames'[i + 1].contract \in deps[frames'[i].contract]
    <3>1. i + 1 \in 1 .. n /\ i < n + 1 /\ i \in 1 .. n + 1
      BY <1>1, <2>2
    <3>. QED
      BY <1>1, <1>2, <2>2, <3>1 DEF PathInv
  <2>. QED
    BY <1>1, <1>2, <2>1, <2>2 DEF PathInv
<1>. QED
  BY <1>11, <1>12, <1>13, <1>14, <1>16, <1>17, <1>18

-----------------------------------------------------------------------------
(* The actions                                                             *)

LEMMA InitIInv == Init => IInv
<1>. SUFFICES ASSUME Init PROVE IInv
  OBVIOUS
<1>. USE DEF Init
<1>1. frames = <<>> /\ Len(frames) = 0 /\ Len(resolving) = 0
  OBVIOUS
<1>2. TypeOK
  <2>1. /\ 0 \in 0 .. MaxCalls /\ 0 \in 0 .. MaxBuilt
        /\ lifetime \in [Services -> {"none", "transient", "singleton"}]
        /\ deps \in [Services -> SUBSET Services]
    BY ContainerAssumption DEF MaxBuilt
  <2>2. resolving \in Seq(Services) /\ frames \in Seq(FrameSet)
    OBVIOUS
  <2>. QED
    BY <2>1, <2>2 DEF TypeOK, FrameSet
<1>3. StackFollowsCalls /\ NoServiceInsideItself /\ LoopInv /\ DependenciesFirst /\ FrozenResolves
  BY <1>1 DEF StackFollowsCalls, NoServiceInsideItself, LoopInv, DependenciesFirst, FrozenResolves
<1>4. ConstructionInv /\ SingletonBuiltOnce /\ PathInv
  BY <1>1 DEF ConstructionInv, SingletonBuiltOnce, PathInv
<1>. QED
  BY <1>2, <1>3, <1>4 DEF IInv

LEMMA RegisterInductive == IInv /\ Register => IInv'
<1>. SUFFICES ASSUME IInv, Register PROVE IInv'
  OBVIOUS
<1>1. PICK c \in Services \ Registered :
        /\ \E ds \in SUBSET (Services \ {c}) : deps' = [deps EXCEPT ![c] = ds]
        /\ \E l \in {"transient", "singleton"} : lifetime' = [lifetime EXCEPT ![c] = l]
  BY DEF Register
<1>2. /\ frames = <<>> /\ raised = "none" /\ ~frozen
      /\ frozen' = frozen /\ singletons' = singletons /\ resolving' = resolving /\ frames' = frames
      /\ raised' = raised /\ calls' = calls /\ built' = built /\ strayed' = strayed
  BY DEF Register, Quiet
<1>3. Len(frames) = 0 /\ Len(resolving) = 0
  BY <1>2 DEF IInv, StackFollowsCalls
<1>4. lifetime[c] = "none" /\ c \notin singletons /\ built[c] = 0
  BY <1>1 DEF Registered, IInv, TypeOK, ConstructionInv
<1>5. /\ lifetime' \in [Services -> {"none", "transient", "singleton"}]
      /\ deps' \in [Services -> SUBSET Services]
      /\ \A d \in Services : d # c => lifetime'[d] = lifetime[d]
      /\ lifetime'[c] # "none"
  BY <1>1 DEF IInv, TypeOK
<1>6. singletons \subseteq { d \in Services : lifetime'[d] = "singleton" }
  BY <1>4, <1>5 DEF IInv, TypeOK
<1>7. TypeOK'
  BY <1>2, <1>5, <1>6 DEF IInv, TypeOK
<1>8. StackFollowsCalls' /\ NoServiceInsideItself' /\ LoopInv' /\ DependenciesFirst' /\ FrozenResolves'
  BY <1>2, <1>3 DEF StackFollowsCalls, NoServiceInsideItself, LoopInv, DependenciesFirst, FrozenResolves
<1>9. ConstructionInv'
  <2>1. \A d \in singletons : d # c /\ d \in Services /\ lifetime[d] = "singleton"
    BY <1>4 DEF IInv, TypeOK, ConstructionInv, Registered
  <2>2. \A d \in Services : lifetime'[d] = "none" => built[d] = 0
    BY <1>5 DEF IInv, ConstructionInv
  <2>. QED
    BY <1>2, <1>3, <1>5, <2>1, <2>2 DEF ConstructionInv
<1>10. SingletonBuiltOnce'
  BY <1>2, <1>4, <1>5 DEF IInv, SingletonBuiltOnce
<1>11. PathInv'
  BY <1>2, <1>3 DEF PathInv
<1>. QED
  BY <1>7, <1>8, <1>9, <1>10, <1>11 DEF IInv

LEMMA FreezeInductive == IInv /\ Freeze => IInv'
<1>. SUFFICES ASSUME IInv, Freeze PROVE IInv'
  OBVIOUS
<1>1. /\ frames = <<>> /\ raised = "none" /\ Complete /\ ~Cyclic /\ frozen' = TRUE
      /\ lifetime' = lifetime /\ deps' = deps /\ singletons' = singletons
      /\ resolving' = resolving /\ frames' = frames /\ raised' = raised
      /\ calls' = calls /\ built' = built /\ strayed' = strayed
  BY DEF Freeze, Quiet
<1>2. Registered' = Registered /\ Len(frames) = 0
  BY <1>1 DEF Registered
<1>3. TypeOK' /\ StackFollowsCalls' /\ NoServiceInsideItself'
  BY <1>1, <1>2 DEF IInv, TypeOK, StackFollowsCalls, NoServiceInsideItself
<1>4. ConstructionInv' /\ SingletonBuiltOnce'
  BY <1>1, <1>2 DEF IInv, ConstructionInv, SingletonBuiltOnce
<1>5. LoopInv' /\ DependenciesFirst' /\ FrozenResolves'
  BY <1>1, <1>2 DEF LoopInv, DependenciesFirst, FrozenResolves
<1>6. PathInv'
  BY <1>1, <1>2 DEF PathInv, Complete, Cyclic
<1>. QED
  BY <1>3, <1>4, <1>5, <1>6 DEF IInv

LEMMA ResolveInductive == IInv /\ Resolve => IInv'
<1>. SUFFICES ASSUME IInv, Resolve PROVE IInv'
  OBVIOUS
<1>1. PICK c \in Services : Enter(c, <<>>) /\ strayed' = (c \notin Registered)
  BY DEF Resolve
<1>2. frames = <<>> /\ raised = "none" /\ Depth = 0
  BY FrameTypes DEF Resolve, Quiet, IInv
<1>3. Calling(c, <<>>) /\ Declared(c)
  <2>1. <<>> \in Seq(FrameSet) /\ Len(<<>>) = 0 /\ 1 .. 0 = {}
    OBVIOUS
  <2>2. Calling(c, <<>>)
    BY <1>2, <2>1 DEF Calling
  <2>. QED
    BY <1>1, <1>2, <2>2 DEF Declared
<1>4. calls' \in 0 .. MaxCalls
  BY ContainerAssumption DEF Resolve, IInv, TypeOK
<1>5. UNCHANGED <<registry, singletons, built>> /\ strayed' \in BOOLEAN
  BY <1>1 DEF Resolve
<1>. QED
  BY <1>1, <1>2, <1>3, <1>4, <1>5, EnterInductive

LEMMA ResolveDependencyInductive == IInv /\ ResolveDependency => IInv'
<1>. SUFFICES ASSUME IInv, ResolveDependency PROVE IInv'
  OBVIOUS
<1>. DEFINE outer(d) == [frames EXCEPT ![Depth].todo = @ \ {d}]
<1>1. PICK d \in Top.todo : Enter(d, outer(d))
  BY DEF ResolveDependency
<1>2. /\ frames # <<>> /\ raised = "none" /\ Depth \in Nat /\ frames \in Seq(FrameSet)
      /\ Depth \in 1 .. Depth /\ Top = frames[Depth] /\ Top \in FrameSet
      /\ \A i \in 1 .. Depth : frames[i] \in FrameSet
      /\ Len(frames) = Depth
  BY FrameTypes DEF ResolveDependency, IInv, Depth
<1>3. d \in deps[Top.contract] /\ d \in Services
  BY <1>2 DEF IInv, ConstructionInv, FrameSet
<1>4. Calling(d, outer(d))
  <2>1. [Top EXCEPT !.todo = @ \ {d}] \in FrameSet
    BY <1>2 DEF FrameSet
  <2>2. outer(d) = [frames EXCEPT ![Depth] = [Top EXCEPT !.todo = @ \ {d}]]
    BY <1>2
  <2>3. outer(d) \in Seq(FrameSet) /\ Len(outer(d)) = Depth
    BY <1>2, <2>1, <2>2
  <2>4. \A i \in 1 .. Depth : i < Depth => outer(d)[i] = frames[i]
    BY <1>2, <2>2
  <2>5. outer(d)[Depth] = [Top EXCEPT !.todo = @ \ {d}]
    BY <1>2, <2>2
  <2>6. /\ outer(d)[Depth].contract = Top.contract /\ outer(d)[Depth].place = Top.place
        /\ outer(d)[Depth].todo = Top.todo \ {d}
    BY <1>2, <2>5 DEF FrameSet
  <2>7. \A i \in 1 .. Depth : i < Depth \/ i = Depth
    BY <1>2
  <2>. HIDE DEF outer
  <2>. QED
    BY <1>2, <2>3, <2>4, <2>6, <2>7 DEF Calling
<1>5. UNCHANGED <<registry, singletons, built>> /\ calls' = calls /\ strayed' = strayed
  BY DEF ResolveDependency
<1>6. calls' \in 0 .. MaxCalls /\ strayed' \in BOOLEAN
  BY <1>5 DEF IInv, TypeOK
<1>7. Declared(d)
  BY <1>2, <1>3, <1>5 DEF Declared
<1>. HIDE DEF outer
<1>. QED
  BY <1>1, <1>2, <1>3, <1>4, <1>5, <1>6, <1>7, EnterInductive

LEMMA ProviderResolvesInductive == IInv /\ ProviderResolves => IInv'
<1>. SUFFICES ASSUME IInv, ProviderResolves PROVE IInv'
  OBVIOUS
<1>. DEFINE outer == [frames EXCEPT ![Depth].nested = @ + 1]
<1>1. PICK c \in Services : Enter(c, outer) /\ strayed' = (strayed \/ c \notin deps[Top.contract])
  BY DEF ProviderResolves
<1>2. /\ frames # <<>> /\ raised = "none" /\ Depth \in Nat /\ frames \in Seq(FrameSet)
      /\ Depth \in 1 .. Depth /\ Top = frames[Depth] /\ Top \in FrameSet
      /\ \A i \in 1 .. Depth : frames[i] \in FrameSet
      /\ Len(frames) = Depth /\ Top.nested < MaxNested
  BY FrameTypes DEF ProviderResolves, Providing, IInv, Depth
<1>3. Calling(c, outer)
  <2>1. [Top EXCEPT !.nested = @ + 1] \in FrameSet
    <3>1. Top.nested + 1 \in 0 .. MaxNested
      BY <1>2, ContainerAssumption DEF FrameSet
    <3>. QED
      BY <1>2, <3>1 DEF FrameSet
  <2>2. outer = [frames EXCEPT ![Depth] = [Top EXCEPT !.nested = @ + 1]]
    BY <1>2
  <2>3. outer \in Seq(FrameSet) /\ Len(outer) = Depth
    BY <1>2, <2>1, <2>2
  <2>4. \A i \in 1 .. Depth : i < Depth => outer[i] = frames[i]
    BY <1>2, <2>2
  <2>5. outer[Depth] = [Top EXCEPT !.nested = @ + 1]
    BY <1>2, <2>2
  <2>6. /\ outer[Depth].contract = Top.contract /\ outer[Depth].place = Top.place
        /\ outer[Depth].todo = Top.todo
    BY <1>2, <2>5 DEF FrameSet
  <2>7. \A i \in 1 .. Depth : i < Depth \/ i = Depth
    BY <1>2
  <2>. HIDE DEF outer
  <2>. QED
    BY <1>2, <2>3, <2>4, <2>6, <2>7 DEF Calling
<1>4. UNCHANGED <<registry, singletons, built>> /\ calls' = calls
  BY DEF ProviderResolves
<1>5. calls' \in 0 .. MaxCalls /\ strayed' \in BOOLEAN
  <2>1. calls' \in 0 .. MaxCalls
    BY <1>4 DEF IInv, TypeOK
  <2>. QED
    BY <1>1, <2>1
<1>6. Declared(c)
  BY <1>1, <1>2 DEF Declared
<1>. HIDE DEF outer
<1>. QED
  BY <1>1, <1>2, <1>3, <1>4, <1>5, <1>6, EnterInductive

LEMMA ProvideInductive == IInv /\ Provide => IInv'
<1>. SUFFICES ASSUME IInv, Provide PROVE IInv'
  OBVIOUS
<1>. DEFINE n == Depth
<1>1. /\ frames # <<>> /\ raised = "none" /\ n \in Nat /\ frames \in Seq(FrameSet)
      /\ n \in 1 .. n /\ Top = frames[n] /\ frames[n] \in FrameSet
      /\ Len(frames) = n /\ Top.place = "dependencies" /\ Top.todo = {}
      /\ frames' = [frames EXCEPT ![n] = [Top EXCEPT !.place = "providing"]]
      /\ lifetime' = lifetime /\ deps' = deps /\ frozen' = frozen /\ singletons' = singletons
      /\ resolving' = resolving /\ raised' = raised
      /\ calls' = calls /\ built' = built /\ strayed' = strayed
  BY FrameTypes DEF Provide, IInv, Depth, registry
<1>. HIDE DEF n
<1>2. [Top EXCEPT !.place = "providing"] \in FrameSet
  BY <1>1 DEF FrameSet
<1>3. /\ frames' \in Seq(FrameSet) /\ Len(frames') = n
      /\ \A i \in 1 .. n : i # n => frames'[i] = frames[i]
      /\ frames'[n] = [Top EXCEPT !.place = "providing"]
  BY <1>1, <1>2
<1>4. /\ frames'[n].contract = frames[n].contract /\ frames'[n].todo = {}
      /\ frames'[n].place = "providing" /\ frames[n].todo = {}
  BY <1>1, <1>3 DEF FrameSet
<1>5. \A i \in 1 .. n : /\ frames'[i].contract = frames[i].contract
                        /\ frames'[i].todo = frames[i].todo
                        /\ i # n => frames'[i].place = frames[i].place
  BY <1>3, <1>4
<1>6. TypeOK'
  BY <1>1, <1>3 DEF IInv, TypeOK, FrameSet, Registered
<1>7. StackFollowsCalls' /\ NoServiceInsideItself'
  BY <1>1, <1>3, <1>5 DEF IInv, StackFollowsCalls, NoServiceInsideItself
<1>8. ConstructionInv' /\ SingletonBuiltOnce' /\ FrozenResolves'
  BY <1>1, <1>3, <1>5 DEF IInv, ConstructionInv, SingletonBuiltOnce, FrozenResolves, Registered
<1>9. LoopInv'
  <2>. SUFFICES ASSUME NEW i \in 1 .. n, frames'[i].place = "dependencies",
                       NEW d \in deps[frames[i].contract], d \notin frames[i].todo
                PROVE  Had(d) \/ (i < n /\ frames'[i + 1].contract = d)
    BY <1>1, <1>3, <1>5 DEF LoopInv, Had, Registered
  <2>1. i # n /\ i < n /\ i + 1 \in 1 .. n
    BY <1>1, <1>4
  <2>2. Had(d) \/ frames[i + 1].contract = d
    BY <1>1, <1>5, <2>1 DEF IInv, LoopInv
  <2>. QED
    BY <1>5, <2>1, <2>2
<1>10. DependenciesFirst'
  <2>. SUFFICES ASSUME NEW i \in 1 .. n, frames'[i].place = "providing",
                       NEW d \in deps[frames[i].contract]
                PROVE  d \in Registered /\ (lifetime[d] = "singleton" => d \in singletons)
    BY <1>1, <1>3, <1>5 DEF DependenciesFirst, Registered
  <2>1. CASE i = n
    <3>1. Had(d)
      BY <1>1, <2>1 DEF IInv, LoopInv
    <3>. QED
      BY <3>1 DEF Had
  <2>2. CASE i # n
    BY <1>1, <1>5, <2>2 DEF IInv, DependenciesFirst
  <2>. QED
    BY <2>1, <2>2
<1>11. PathInv'
  <2>1. (frozen => Complete /\ ~Cyclic)'
    BY <1>1 DEF IInv, PathInv, Complete, Cyclic, Registered
  <2>2. ASSUME ~strayed, NEW i \in 1 .. n, i < n
        PROVE  frames'[i + 1].contract \in deps[frames'[i].contract]
    <3>1. i + 1 \in 1 .. n
      BY <1>1, <2>2
    <3>. QED
      BY <1>1, <1>5, <2>2, <3>1 DEF IInv, PathInv
  <2>. QED
    BY <1>1, <1>3, <2>1, <2>2 DEF PathInv
<1>. QED
  BY <1>6, <1>7, <1>8, <1>9, <1>10, <1>11 DEF IInv

\* What the innermost frame is while a call is served.
LEMMA TopFacts ==
  ASSUME IInv, frames # <<>>
  PROVE  /\ Top.contract \in Registered /\ Top.contract \in Services
         /\ Top.contract \notin singletons
<1>1. Depth \in 1 .. Depth /\ Top = frames[Depth] /\ Len(frames) = Depth
  BY FrameTypes DEF IInv, Depth
<1>. QED
  BY <1>1 DEF IInv, ConstructionInv, Registered

LEMMA ProviderReturnsInductive == IInv /\ ProviderReturns => IInv'
<1>. SUFFICES ASSUME IInv, ProviderReturns PROVE IInv'
  OBVIOUS
<1>. DEFINE c == Top.contract
<1>1. /\ frames # <<>> /\ raised = "none" /\ Leave
      /\ built' = [built EXCEPT ![c] = IF @ < MaxBuilt THEN @ + 1 ELSE @]
      /\ singletons' = IF lifetime[c] = "singleton" THEN singletons \cup {c} ELSE singletons
      /\ lifetime' = lifetime /\ deps' = deps /\ frozen' = frozen
      /\ raised' = raised /\ calls' = calls /\ strayed' = strayed
  BY DEF ProviderReturns, Providing, registry
<1>2. c \in Services /\ c \notin singletons /\ lifetime[c] # "none"
  BY <1>1, TopFacts DEF Registered
<1>. HIDE DEF c
<1>3. built \in [Services -> 0 .. MaxBuilt] /\ MaxBuilt = 2
  BY DEF IInv, TypeOK, MaxBuilt
<1>4. /\ built' \in [Services -> 0 .. MaxBuilt]
      /\ \A d \in Services : d # c => built'[d] = built[d]
      /\ built[c] = 0 => built'[c] = 1
  BY <1>1, <1>2, <1>3
<1>5. \A d \in singletons' : lifetime[d] = "singleton"
  BY <1>1 DEF IInv, ConstructionInv
<1>6. \A d \in Services : lifetime[d] = "none" => built'[d] = 0
  BY <1>2, <1>4 DEF IInv, ConstructionInv
<1>7. SingletonBuiltOnce'
  <2>. SUFFICES ASSUME NEW d \in Services, lifetime[d] = "singleton"
                PROVE  built'[d] = IF d \in singletons' THEN 1 ELSE 0
    BY <1>1 DEF SingletonBuiltOnce
  <2>1. built[d] = IF d \in singletons THEN 1 ELSE 0
    BY DEF IInv, SingletonBuiltOnce
  <2>2. CASE d = c
    <3>1. d \in singletons' /\ built[c] = 0
      BY <1>1, <1>2, <2>1, <2>2
    <3>. QED
      BY <1>4, <2>2, <3>1
  <2>3. CASE d # c
    <3>1. d \in singletons' <=> d \in singletons
      BY <1>1, <2>3
    <3>. QED
      BY <1>4, <2>1, <2>3, <3>1
  <2>. QED
    BY <2>2, <2>3
<1>8. FrozenResolves'
  BY <1>1 DEF FrozenResolves
<1>9. UNCHANGED <<registry, calls>> /\ strayed' \in BOOLEAN
  BY <1>1 DEF registry, IInv, TypeOK
<1>10. singletons' = singletons \/ singletons' = singletons \cup {Top.contract}
  BY <1>1 DEF c
<1>11. lifetime[Top.contract] = "singleton" => Top.contract \in singletons'
  BY <1>1 DEF c
<1>. QED
  BY <1>1, <1>4, <1>5, <1>6, <1>7, <1>8, <1>9, <1>10, <1>11, LeaveInductive

LEMMA CallFails ==
  ASSUME IInv, frames # <<>>, Leave, UNCHANGED <<registry, singletons, calls, built>>,
         raised' \in {"missing", "circular", "construction", "invalid"},
         strayed' \in BOOLEAN, strayed => strayed', FrozenResolves'
  PROVE  IInv'
<1>1. built' \in [Services -> 0 .. MaxBuilt] /\ built' = built /\ singletons' = singletons
  BY DEF IInv, TypeOK
<1>2. \A d \in singletons' : lifetime[d] = "singleton"
  BY <1>1 DEF IInv, ConstructionInv
<1>3. \A d \in Services : lifetime[d] = "none" => built'[d] = 0
  BY <1>1 DEF IInv, ConstructionInv
<1>4. SingletonBuiltOnce'
  BY <1>1 DEF IInv, SingletonBuiltOnce, registry
<1>. QED
  BY <1>1, <1>2, <1>3, <1>4, LeaveInductive

LEMMA ProviderFailsInductive == IInv /\ ProviderFails => IInv'
<1>. SUFFICES ASSUME IInv, ProviderFails PROVE IInv'
  OBVIOUS
<1>1. /\ frames # <<>> /\ Leave /\ UNCHANGED <<registry, singletons, calls, built>>
      /\ raised' \in {"construction", "invalid"} /\ strayed' = TRUE
  BY DEF ProviderFails, Providing
<1>2. FrozenResolves'
  BY <1>1 DEF FrozenResolves
<1>. QED
  BY <1>1, <1>2, CallFails

LEMMA UnwindInductive == IInv /\ Unwind => IInv'
<1>. SUFFICES ASSUME IInv, Unwind PROVE IInv'
  OBVIOUS
<1>1. /\ frames # <<>> /\ Leave /\ UNCHANGED <<registry, singletons, calls, built>>
      /\ raised # "none" /\ raised' = raised /\ strayed' = strayed /\ frozen' = frozen
  BY DEF Unwind, registry
<1>2. raised \in {"missing", "circular", "construction", "invalid"} /\ strayed \in BOOLEAN
  BY <1>1 DEF IInv, TypeOK
<1>3. FrozenResolves'
  BY <1>1 DEF IInv, FrozenResolves
<1>. QED
  BY <1>1, <1>2, <1>3, CallFails

\* An exception is caught: nothing else changes.
LEMMA CatchInductive == IInv /\ (ProviderCatches \/ ProgramCatches) => IInv'
<1>. SUFFICES ASSUME IInv, ProviderCatches \/ ProgramCatches PROVE IInv'
  OBVIOUS
<1>1. /\ lifetime' = lifetime /\ deps' = deps /\ frozen' = frozen /\ singletons' = singletons
      /\ resolving' = resolving /\ frames' = frames /\ raised' = "none"
      /\ calls' = calls /\ built' = built /\ strayed' = strayed
      /\ frames # <<>> => Top.place = "providing"
  BY DEF ProviderCatches, ProgramCatches, registry
<1>2. Registered' = Registered
  BY <1>1 DEF Registered
<1>3. TypeOK' /\ StackFollowsCalls' /\ NoServiceInsideItself'
  BY <1>1, <1>2 DEF IInv, TypeOK, StackFollowsCalls, NoServiceInsideItself
<1>4. ConstructionInv' /\ SingletonBuiltOnce' /\ DependenciesFirst' /\ FrozenResolves'
  BY <1>1, <1>2 DEF IInv, ConstructionInv, SingletonBuiltOnce, DependenciesFirst, FrozenResolves
<1>5. PathInv'
  BY <1>1, <1>2 DEF IInv, PathInv, Complete, Cyclic
<1>6. LoopInv'
  <2>. SUFFICES ASSUME NEW i \in 1 .. Len(frames), frames[i].place = "dependencies",
                       NEW d \in deps[frames[i].contract], d \notin frames[i].todo
                PROVE  Had(d) \/ (i < Len(frames) /\ frames[i + 1].contract = d)
    BY <1>1, <1>2 DEF LoopInv, Had
  <2>1. frames # <<>> /\ Top = frames[Len(frames)]
    BY FrameTypes DEF IInv, Top, Depth
  <2>2. i # Len(frames)
    BY <1>1, <2>1
  <2>. QED
    BY <2>2 DEF IInv, LoopInv
<1>. QED
  BY <1>3, <1>4, <1>5, <1>6 DEF IInv

LEMMA StutterInductive == IInv /\ UNCHANGED vars => IInv'
<1>. SUFFICES ASSUME IInv, UNCHANGED vars PROVE IInv'
  OBVIOUS
<1>1. /\ lifetime' = lifetime /\ deps' = deps /\ frozen' = frozen /\ singletons' = singletons
      /\ resolving' = resolving /\ frames' = frames /\ raised' = raised
      /\ calls' = calls /\ built' = built /\ strayed' = strayed
  BY DEF vars, registry
<1>2. TypeOK' /\ StackFollowsCalls' /\ NoServiceInsideItself'
  BY <1>1 DEF IInv, TypeOK, Registered, StackFollowsCalls, NoServiceInsideItself
<1>3. ConstructionInv' /\ SingletonBuiltOnce' /\ DependenciesFirst' /\ FrozenResolves'
  BY <1>1 DEF IInv, ConstructionInv, Registered, SingletonBuiltOnce, DependenciesFirst, FrozenResolves
<1>4. LoopInv' /\ PathInv'
  BY <1>1 DEF IInv, LoopInv, Had, PathInv, Complete, Cyclic, Registered
<1>. QED
  BY <1>2, <1>3, <1>4 DEF IInv

-----------------------------------------------------------------------------
(* The theorems                                                            *)

LEMMA StepIInv == IInv /\ [Next]_vars => IInv'
<1>. SUFFICES ASSUME IInv, [Next]_vars PROVE IInv'
  OBVIOUS
<1>1. CASE Register \/ Freeze
  BY <1>1, RegisterInductive, FreezeInductive
<1>2. CASE Resolve \/ ResolveDependency \/ ProviderResolves
  BY <1>2, ResolveInductive, ResolveDependencyInductive, ProviderResolvesInductive
<1>3. CASE Provide
  BY <1>3, ProvideInductive
<1>4. CASE ProviderReturns \/ ProviderFails \/ Unwind
  BY <1>4, ProviderReturnsInductive, ProviderFailsInductive, UnwindInductive
<1>5. CASE ProviderCatches \/ ProgramCatches
  BY <1>5, CatchInductive
<1>6. CASE Finished \/ UNCHANGED vars
  BY <1>6, StutterInductive DEF Finished
<1>. QED
  BY <1>1, <1>2, <1>3, <1>4, <1>5, <1>6 DEF Next

\* The inductive invariant holds of every state of the container: what is being
\* resolved, what is built and what is still to do fit together.
THEOREM Invariance == Spec => []IInv
<1>. QED
  BY InitIInv, StepIInv, PTL DEF Spec

\* Every variable of the container has its type, and what is stored in
\* _singletons is registered.
THEOREM TypeCorrect == Spec => []TypeOK
<1>1. IInv => TypeOK
  BY DEF IInv
<1>. QED
  BY <1>1, Invariance, PTL

\* _resolution_stack names the services under construction, in their order and
\* each once, whatever resolve and the providers raise and catch.
THEOREM StackExact == Spec => [](StackFollowsCalls /\ NoServiceInsideItself)
<1>1. IInv => StackFollowsCalls /\ NoServiceInsideItself
  BY DEF IInv
<1>. QED
  BY <1>1, Invariance, PTL

\* No service is built inside its own construction: a cycle, whatever calls
\* close it and whatever was raised and caught before, is found when it closes.
THEOREM CyclesFound == Spec => []NoServiceInsideItself
<1>. QED
  BY StackExact, PTL

\* So the recursion of resolve, through providers that call it again, through
\* failures and caught exceptions, is never deeper than there are services.
THEOREM BoundedNesting ==
  ASSUME IsFiniteSet(Services)
  PROVE  Spec => [](Len(frames) <= Cardinality(Services))
<1>1. ASSUME IInv PROVE Len(frames) <= Cardinality(Services)
  <2>1. /\ Depth \in Nat /\ Depth = Len(frames)
        /\ \A i \in 1 .. Depth : frames[i].contract \in Services
    BY <1>1, FrameTypes DEF IInv, Depth, FrameSet
  <2>2. \A i, j \in 1 .. Depth : frames[i].contract = frames[j].contract => i = j
    BY <1>1, <2>1 DEF IInv, NoServiceInsideItself
  <2>. DEFINE under == [i \in 1 .. Depth |-> frames[i].contract]
  <2>3. under \in Injection(1 .. Depth, Services)
    BY <2>1, <2>2 DEF Injection, IsInjective
  <2>4. ASSUME NEW n \in Nat PROVE Cardinality(1 .. n) = n
    <3>1. Cardinality(1 .. n) = IF 1 > n THEN 0 ELSE n - 1 + 1
      BY FS_Interval
    <3>. QED
      BY <3>1
  <2>5. Cardinality(1 .. Depth) <= Cardinality(Services)
    BY <2>3, FS_Injection
  <2>. QED
    BY <2>1, <2>4, <2>5
<1>. QED
  BY <1>1, Invariance, PTL

\* No registration order, dependency graph or failure makes resolve build a
\* singleton twice or lose the one it built.
THEOREM SingletonsUnique == Spec => []SingletonBuiltOnce
<1>1. IInv => SingletonBuiltOnce
  BY DEF IInv
<1>. QED
  BY <1>1, Invariance, PTL

\* When provide is called, all declared dependencies of the service are
\* registered, and the singletons among them are built.
THEOREM ProvidesAfterDependencies == Spec => []DependenciesFirst
<1>1. IInv => DependenciesFirst
  BY DEF IInv
<1>. QED
  BY <1>1, Invariance, PTL

\* After freeze, resolve raises nothing as long as providers neither fail nor
\* ask for what they do not declare: its checks find all that the walk of
\* resolve could run into.
THEOREM FreezeSuffices == Spec => []FrozenResolves
<1>1. IInv => FrozenResolves
  BY DEF IInv
<1>. QED
  BY <1>1, Invariance, PTL
=============================================================================
