----------------------- MODULE DependencyContainerProps ---------------------
(***************************************************************************)
(* What must be true of DefaultDependencyContainer.                        *)
(***************************************************************************)
EXTENDS DependencyContainer

\* Every variable holds a value of its type.
TypeOK ==
  /\ lifetime \in [Services -> {"none", "transient", "singleton"}]
  /\ deps \in [Services -> SUBSET Services]
  /\ frozen \in BOOLEAN
  /\ singletons \subseteq { c \in Services : lifetime[c] = "singleton" }
  /\ resolving \in Seq(Services)
  /\ frames \in Seq([contract : Services, todo : SUBSET Services,
                     place : {"dependencies", "providing"}, nested : 0 .. MaxNested])
  /\ raised \in {"none", "missing", "circular", "construction", "invalid"}
  /\ calls \in 0 .. MaxCalls
  /\ built \in [Services -> 0 .. MaxBuilt]
  /\ strayed \in BOOLEAN

\* _resolution_stack names exactly the services under construction, innermost
\* last, through every exception and every exception that is caught: what one
\* call leaves on it would be a circular dependency to all later ones.
StackFollowsCalls ==
  /\ Len(resolving) = Len(frames)
  /\ \A i \in 1 .. Len(frames) : resolving[i] = frames[i].contract

\* A singleton has one instance: however providers resolve one another and
\* whatever fails in between, no singleton is built twice, and one that was
\* built is kept.
SingletonBuiltOnce ==
  \A c \in Services : lifetime[c] = "singleton" =>
    built[c] = IF c \in singletons THEN 1 ELSE 0

\* A provider runs only when everything it declares as a dependency can be
\* had: each is registered, and each singleton among them is built.
DependenciesFirst ==
  \A i \in 1 .. Len(frames) : frames[i].place = "providing" =>
    \A d \in deps[frames[i].contract] :
      /\ d \in Registered
      /\ lifetime[d] = "singleton" => d \in singletons

\* No service is under construction inside its own construction, so calls of
\* resolve are never deeper than there are services.
NoServiceInsideItself ==
  \A i, j \in 1 .. Len(frames) : frames[i].contract = frames[j].contract => i = j

\* What freeze promises: in a frozen container a service is resolved, unless a
\* provider fails or something is asked for that was not declared.
FrozenResolves == frozen /\ ~strayed => raised = "none"
=============================================================================
