------------------------- MODULE DependencyContainer ------------------------
(***************************************************************************)
(* DefaultDependencyContainer (foundation/dependencies/container.py):      *)
(* services are registered with the contracts they depend on, the registry *)
(* may be frozen, and resolve builds a service after its dependencies.     *)
(* resolve is recursive, and calls a provider that may call resolve again: *)
(* frames is the stack of the calls in progress, resolving the attribute   *)
(* _resolution_stack that is meant to follow it through every exception.   *)
(*                                                                         *)
(* Providers are external: while it provides, one may resolve any service, *)
(* declared as a dependency or not, catch what that raises, raise, or      *)
(* return something that is not the service.                               *)
(***************************************************************************)
EXTENDS Naturals, Sequences, FiniteSets

CONSTANTS
  Services,     \* contracts
  MaxCalls,     \* bound on the calls of resolve by the program
  MaxNested     \* bound on the calls of resolve by one provide

ASSUME ContainerAssumption == MaxCalls \in Nat /\ MaxNested \in Nat

\* Builds are counted up to this.
MaxBuilt == 2

VARIABLES
  lifetime,     \* contract -> ServiceLifetime, "none" if not registered
  deps,         \* contract -> the dependencies of its provider
  frozen,       \* _frozen
  singletons,   \* the keys of _singletons
  resolving,    \* _resolution_stack
  frames,       \* the calls of resolve that are being served, outermost first
  raised,       \* the exception that is on its way to the innermost of them
  calls,        \* calls of resolve by the program
  built,        \* history: contract -> instances its provider built
  strayed       \* history: in this call of the program a provider failed or
                \* something undeclared was resolved

registry == <<lifetime, deps, frozen>>
vars == <<registry, singletons, resolving, frames, raised, calls, built, strayed>>

Registered == { c \in Services : lifetime[c] # "none" }

\* A call of resolve that goes through the dependencies of its provider, in
\* the order of the tuple, whatever that is, and then calls provide.
Frame(c) == [contract |-> c, todo |-> deps[c], place |-> "dependencies", nested |-> 0]

Depth    == Len(frames)
Top      == frames[Depth]
DropLast(s) == SubSeq(s, 1, Len(s) - 1)
OnStack(c)  == \E i \in 1 .. Len(resolving) : resolving[i] = c

Quiet == frames = <<>> /\ raised = "none"

-----------------------------------------------------------------------------
(* register and freeze                                                     *)

\* Anything else is refused: a frozen container, a contract registered
\* already, a provider that depends on its own contract.
Register ==
  /\ Quiet /\ ~frozen
  /\ \E c \in Services \ Registered :
       /\ \E ds \in SUBSET (Services \ {c}) : deps' = [deps EXCEPT ![c] = ds]
       /\ \E l \in {"transient", "singleton"} : lifetime' = [lifetime EXCEPT ![c] = l]
  /\ UNCHANGED <<frozen, singletons, resolving, frames, raised, calls, built, strayed>>

Complete == \A c \in Registered : deps[c] \subseteq Registered

\* _validate_all_cycles finds a service that can reach itself.
Cyclic == \E S \in (SUBSET Registered) \ {{}} : \A c \in S : deps[c] \cap S # {}

\* Wrong on purpose: missing dependencies are looked for, cycles are not.
Freeze_NoCycleCheck ==
  /\ Quiet /\ ~frozen
  /\ Complete
  /\ frozen' = TRUE
  /\ UNCHANGED <<lifetime, deps, singletons, resolving, frames, raised, calls, built, strayed>>

\* A registry with a missing dependency or a cycle is refused and stays open.
Freeze ==
  /\ Quiet /\ ~frozen
  /\ Complete /\ ~Cyclic
  /\ frozen' = TRUE
  /\ UNCHANGED <<lifetime, deps, singletons, resolving, frames, raised, calls, built, strayed>>

-----------------------------------------------------------------------------
(* resolve                                                                 *)

\* Wrong on purpose: what is being resolved is not looked for on the stack.
Enter_NoStackCheck(c, outer) ==
  IF c \notin Registered THEN
    raised' = "missing" /\ frames' = outer /\ UNCHANGED resolving
  ELSE IF c \in singletons THEN
    frames' = outer /\ UNCHANGED <<raised, resolving>>
  ELSE frames' = Append(outer, Frame(c)) /\ resolving' = Append(resolving, c) /\ UNCHANGED raised

\* The call of resolve(c) from the frames outer, up to the loop over the
\* dependencies: it raises, or returns the stored instance, or goes on.
Enter(c, outer) ==
  IF c \notin Registered THEN
    raised' = "missing" /\ frames' = outer /\ UNCHANGED resolving
  ELSE IF c \in singletons THEN
    frames' = outer /\ UNCHANGED <<raised, resolving>>
  ELSE IF OnStack(c) THEN
    raised' = "circular" /\ frames' = outer /\ UNCHANGED resolving
  ELSE frames' = Append(outer, Frame(c)) /\ resolving' = Append(resolving, c) /\ UNCHANGED raised

\* The program resolves a service.
Resolve ==
  /\ Quiet /\ calls < MaxCalls
  /\ calls' = calls + 1
  /\ \E c \in Services : Enter(c, <<>>) /\ strayed' = (c \notin Registered)
  /\ UNCHANGED <<registry, singletons, built>>

\* The loop over the dependencies: an unregistered one raises here.
ResolveDependency ==
  /\ frames # <<>> /\ raised = "none" /\ Top.place = "dependencies"
  /\ \E d \in Top.todo : Enter(d, [frames EXCEPT ![Depth].todo = @ \ {d}])
  /\ UNCHANGED <<registry, singletons, calls, built, strayed>>

\* Wrong on purpose: the rest of the dependencies is left to the provider.
Provide_Early ==
  /\ frames # <<>> /\ raised = "none" /\ Top.place = "dependencies"
  /\ frames' = [frames EXCEPT ![Depth].place = "providing"]
  /\ UNCHANGED <<registry, singletons, resolving, raised, calls, built, strayed>>

\* All dependencies were resolved once, and provide is called.
Provide ==
  /\ frames # <<>> /\ raised = "none" /\ Top.place = "dependencies"
  /\ Top.todo = {}
  /\ frames' = [frames EXCEPT ![Depth].place = "providing"]
  /\ UNCHANGED <<registry, singletons, resolving, raised, calls, built, strayed>>

Providing == frames # <<>> /\ raised = "none" /\ Top.place = "providing"

\* The provider resolves a service itself.
ProviderResolves ==
  /\ Providing /\ Top.nested < MaxNested
  /\ \E c \in Services :
       /\ Enter(c, [frames EXCEPT ![Depth].nested = @ + 1])
       /\ strayed' = (strayed \/ c \notin deps[Top.contract])
  /\ UNCHANGED <<registry, singletons, calls, built>>

\* The finally clause: this call of resolve is over.
Leave == frames' = DropLast(frames) /\ resolving' = DropLast(resolving)

\* Wrong on purpose: a transient instance is kept too.
ProviderReturns_KeepsAll ==
  /\ Providing
  /\ LET c == Top.contract
     IN  /\ built' = [built EXCEPT ![c] = IF @ < MaxBuilt THEN @ + 1 ELSE @]
         /\ singletons' = singletons \cup {c}
  /\ Leave
  /\ UNCHANGED <<registry, raised, calls, strayed>>

\* Wrong on purpose: only what the program asked for is kept.
ProviderReturns_KeepsOutermost ==
  /\ Providing
  /\ LET c == Top.contract
     IN  /\ built' = [built EXCEPT ![c] = IF @ < MaxBuilt THEN @ + 1 ELSE @]
         /\ singletons' = IF lifetime[c] = "singleton" /\ Depth = 1
                          THEN singletons \cup {c} ELSE singletons
  /\ Leave
  /\ UNCHANGED <<registry, raised, calls, strayed>>

\* provide returns the service; a singleton is kept.
ProviderReturns ==
  /\ Providing
  /\ LET c == Top.contract
     IN  /\ built' = [built EXCEPT ![c] = IF @ < MaxBuilt THEN @ + 1 ELSE @]
         /\ singletons' = IF lifetime[c] = "singleton" THEN singletons \cup {c} ELSE singletons
  /\ Leave
  /\ UNCHANGED <<registry, raised, calls, strayed>>

\* provide raises, or returns something else.
ProviderFails ==
  /\ Providing
  /\ raised' \in {"construction", "invalid"}
  /\ strayed' = TRUE
  /\ Leave
  /\ UNCHANGED <<registry, singletons, calls, built>>

\* Wrong on purpose: an exception leaves the contract on the stack.
Unwind_NoFinally ==
  /\ frames # <<>> /\ raised # "none"
  /\ frames' = DropLast(frames)
  /\ UNCHANGED <<registry, singletons, resolving, raised, calls, built, strayed>>

\* An exception of an inner call goes on to the outer one; provide lets it
\* pass, because it is a DependencyContainerError.
Unwind ==
  /\ frames # <<>> /\ raised # "none"
  /\ Leave
  /\ UNCHANGED <<registry, singletons, raised, calls, built, strayed>>

\* The provider catches what its own call of resolve raised.
ProviderCatches ==
  /\ frames # <<>> /\ raised # "none" /\ Top.place = "providing"
  /\ raised' = "none"
  /\ UNCHANGED <<registry, singletons, resolving, frames, calls, built, strayed>>

\* The program catches it.
ProgramCatches ==
  /\ frames = <<>> /\ raised # "none"
  /\ raised' = "none"
  /\ UNCHANGED <<registry, singletons, resolving, frames, calls, built, strayed>>

\* The program makes no more calls.
Finished == Quiet /\ calls = MaxCalls /\ UNCHANGED vars

-----------------------------------------------------------------------------

Init ==
  /\ lifetime = [c \in Services |-> "none"] /\ deps = [c \in Services |-> {}]
  /\ frozen = FALSE /\ singletons = {} /\ resolving = <<>>
  /\ frames = <<>> /\ raised = "none"
  /\ calls = 0 /\ built = [c \in Services |-> 0] /\ strayed = FALSE

Next ==
  \/ Register \/ Freeze
  \/ Resolve \/ ResolveDependency \/ Provide
  \/ ProviderResolves \/ ProviderReturns \/ ProviderFails \/ ProviderCatches
  \/ Unwind \/ ProgramCatches
  \/ Finished

Spec == Init /\ [][Next]_vars
=============================================================================
