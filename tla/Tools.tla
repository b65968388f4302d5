-------------------------------- MODULE Tools --------------------------------
(***************************************************************************)
(* How tools come into the system: the DefaultToolRegistry, the            *)
(* ToolEcosystemManager that admits contributions but registers nothing,   *)
(* and the ToolLifecycleManager that keeps a state for every registered    *)
(* tool.  The three share the registry and nothing else.                   *)
(*                                                                         *)
(* Nothing is locked.  A ToolLifecycleValidator is external: while it is   *)
(* at work any operation may be called, by it or by another thread, a      *)
(* second validate of the same tool included.  The caller registers the    *)
(* tools of an admitted contribution one after the other, when it likes.   *)
(***************************************************************************)
EXTENDS Naturals, Sequences

CONSTANTS
  ToolIds,
  Capabilities,
  Contributions,  \* contribution ids
  MaxTools,       \* bound on the tools of a contribution
  MaxValidating   \* bound on the validations of one tool at the same time

ASSUME ToolsAssumption == MaxTools \in Nat /\ MaxValidating \in Nat

VARIABLES
  capability,   \* tool id -> tool.capability; fixed
  tools,        \* contribution -> the ids of its tools, in order; fixed
  byId,         \* the keys of _tools_by_id, in the order of registration
  byCapability, \* _tools_by_capability: capability -> tool ids
  frozen,       \* _frozen
  admitted,     \* _admitted
  outstanding,  \* contribution -> its tools the caller has yet to register
  state,        \* _states, "registered" where there is no entry
  validating,   \* tool id -> calls of validate that wait for the validator
  accepted,     \* history: tools a validator let pass
  refused,      \* history: tools a validator raised for
  overlapped,   \* history: tools validated twice at a time
  hasty,        \* history: something was admitted or registered while tools
                \* of another contribution were still to be registered
  clash         \* history: a tool of an admitted contribution was a duplicate

fixed         == <<capability, tools>>
registryVars  == <<byId, byCapability, frozen>>
ecosystemVars == <<admitted, outstanding, hasty, clash>>
lifecycleVars == <<state, validating, accepted, refused, overlapped>>
vars == <<fixed, registryVars, ecosystemVars, lifecycleVars>>

LifecycleStates ==
  {"registered", "validated", "enabled", "disabled", "deprecated", "failed"}

Elements(s)  == { s[i] : i \in DOMAIN s }
Registered   == Elements(byId)
Outstanding  == UNION { Elements(outstanding[c]) : c \in Contributions }
Distinct(s)  == \A i, j \in DOMAIN s : s[i] = s[j] => i = j

-----------------------------------------------------------------------------
(* DefaultToolRegistry                                                     *)

\* register, for a registry that is not frozen: DuplicateToolError leaves
\* everything as it was.
Store(t) ==
  IF t \in Registered
    THEN UNCHANGED registryVars
    ELSE /\ byId' = Append(byId, t)
         /\ byCapability' = [byCapability EXCEPT ![capability[t]] = Append(@, t)]
         /\ UNCHANGED frozen

\* A tool that is part of no contribution.
Register ==
  /\ ~frozen
  /\ \E t \in ToolIds : Store(t)
  /\ hasty' = (hasty \/ Outstanding # {})
  /\ UNCHANGED <<fixed, admitted, outstanding, clash, lifecycleVars>>

\* The caller registers the next tool of an admitted contribution; one that
\* is refused does not keep it from the rest.
RegisterAdmitted ==
  \E c \in Contributions :
    /\ outstanding[c] # <<>>
    /\ LET t == Head(outstanding[c]) IN
         /\ IF frozen THEN UNCHANGED registryVars ELSE Store(t)
         /\ clash' = (clash \/ t \in Registered)
    /\ outstanding' = [outstanding EXCEPT ![c] = Tail(@)]
    /\ UNCHANGED <<fixed, admitted, hasty, lifecycleVars>>

Freeze ==
  /\ ~frozen /\ frozen' = TRUE
  /\ UNCHANGED <<fixed, byId, byCapability, ecosystemVars, lifecycleVars>>

-----------------------------------------------------------------------------
(* ToolEcosystemManager                                                    *)

\* Wrong on purpose: only the first tool is looked up in the registry.
Conflict_FirstOnly(c) == tools[c][1] \in Registered

\* The preflight: some tool id is registered already.
Conflict(c) == Elements(tools[c]) \cap Registered # {}

\* admit: a contribution admitted before, one the validator raises for, and
\* one in conflict are turned down and leave no trace.  The validator is
\* DefaultToolContributionValidator, which wants the ids to be distinct.
\* Nothing is registered and no tool id is reserved.
Admit ==
  \E c \in Contributions \ admitted :
    /\ Distinct(tools[c]) /\ ~Conflict(c)
    /\ admitted' = admitted \cup {c}
    /\ outstanding' = [outstanding EXCEPT ![c] = tools[c]]
    /\ hasty' = (hasty \/ Outstanding # {})
    /\ UNCHANGED <<fixed, registryVars, clash, lifecycleVars>>

-----------------------------------------------------------------------------
(* ToolLifecycleManager                                                    *)

\* Wrong on purpose: a tool may be validated again.
MayValidate_Again(t) == t \in Registered /\ state[t] # "deprecated"

\* What validate finds before it calls the validator.
MayValidate(t) == t \in Registered /\ state[t] = "registered"

BeginValidate ==
  \E t \in ToolIds :
    /\ MayValidate(t) /\ validating[t] < MaxValidating
    /\ validating' = [validating EXCEPT ![t] = @ + 1]
    /\ overlapped' = IF validating[t] > 0 THEN overlapped \cup {t} ELSE overlapped
    /\ UNCHANGED <<fixed, registryVars, ecosystemVars, state, accepted, refused>>

\* The validator answers, and the state is written whatever it is by now.
EndValidate ==
  \E t \in ToolIds :
    /\ validating[t] > 0
    /\ validating' = [validating EXCEPT ![t] = @ - 1]
    /\ \/ /\ state' = [state EXCEPT ![t] = "validated"]
          /\ accepted' = accepted \cup {t} /\ UNCHANGED refused
       \/ /\ state' = [state EXCEPT ![t] = "failed"]
          /\ refused' = refused \cup {t} /\ UNCHANGED accepted
    /\ UNCHANGED <<fixed, registryVars, ecosystemVars, overlapped>>

\* Wrong on purpose: the current state is not compared with the allowed ones.
Transition_Any(t, new, allowed) ==
  /\ t \in Registered
  /\ state' = [state EXCEPT ![t] = new]
  /\ UNCHANGED <<fixed, registryVars, ecosystemVars, validating, accepted, refused, overlapped>>

\* _transition
Transition(t, new, allowed) ==
  /\ t \in Registered /\ state[t] \in allowed
  /\ state' = [state EXCEPT ![t] = new]
  /\ UNCHANGED <<fixed, registryVars, ecosystemVars, validating, accepted, refused, overlapped>>

Enable    == \E t \in ToolIds : Transition(t, "enabled", {"validated", "disabled"})
Disable   == \E t \in ToolIds : Transition(t, "disabled", {"validated", "enabled"})
Deprecate == \E t \in ToolIds : Transition(t, "deprecated", {"validated", "enabled", "disabled"})

-----------------------------------------------------------------------------

\* Everything may have been said and done.
Finished ==
  /\ frozen /\ Outstanding = {}
  /\ \A t \in Registered : state[t] \in {"deprecated", "failed"}
  /\ UNCHANGED vars

Init ==
  /\ capability \in [ToolIds -> Capabilities]
  /\ tools \in [Contributions -> UNION { [1 .. n -> ToolIds] : n \in 1 .. MaxTools }]
  /\ byId = <<>> /\ byCapability = [k \in Capabilities |-> <<>>] /\ frozen = FALSE
  /\ admitted = {} /\ outstanding = [c \in Contributions |-> <<>>]
  /\ hasty = FALSE /\ clash = FALSE
  /\ state = [t \in ToolIds |-> "registered"] /\ validating = [t \in ToolIds |-> 0]
  /\ accepted = {} /\ refused = {} /\ overlapped = {}

Next ==
  \/ Register \/ RegisterAdmitted \/ Freeze
  \/ Admit
  \/ BeginValidate \/ EndValidate
  \/ Enable \/ Disable \/ Deprecate
  \/ Finished

Spec == Init /\ [][Next]_vars
=============================================================================
