----------------------------- MODULE ToolsProps ------------------------------
(***************************************************************************)
(* What the registry, the ecosystem and the lifecycle of tools promise.    *)
(***************************************************************************)
EXTENDS Tools

TypeOK ==
  /\ capability \in [ToolIds -> Capabilities]
  /\ tools \in [Contributions -> Seq(ToolIds)]
  /\ byId \in Seq(ToolIds) /\ byCapability \in [Capabilities -> Seq(ToolIds)]
  /\ frozen \in BOOLEAN
  /\ admitted \in SUBSET Contributions /\ outstanding \in [Contributions -> Seq(ToolIds)]
  /\ state \in [ToolIds -> LifecycleStates] /\ validating \in [ToolIds -> 0 .. MaxValidating]
  /\ accepted \in SUBSET ToolIds /\ refused \in SUBSET ToolIds /\ overlapped \in SUBSET ToolIds
  /\ hasty \in BOOLEAN /\ clash \in BOOLEAN

\* Only a tool a validator let pass is ever validated, enabled, disabled or
\* deprecated, and only one a validator raised for has failed, though states
\* are written after the validator answered.  A tool that was not validated
\* twice at a time has had one verdict and keeps it: it cannot fail after it
\* was enabled.
StatesAreEarned ==
  \A t \in ToolIds :
    /\ state[t] \in {"validated", "enabled", "disabled", "deprecated"} => t \in accepted
    /\ state[t] = "failed" => t \in refused
    /\ t \in accepted \cap refused => t \in overlapped

\* Deprecated and failed are final (test_tool_lifecycle.py, deprecated_terminal
\* and failed_cannot_revalidate): no operation begun then gets a tool out of
\* them.  Only a validate that was already waiting for its validator can.
FinalStates ==
  [][\A t \in ToolIds :
       state[t] \in {"deprecated", "failed"} /\ state'[t] # state[t] => validating[t] > 0]_vars

\* What two sequences share stands in the same order in both.
SameOrder(s, q) ==
  \A i, j \in DOMAIN s, m, n \in DOMAIN q :
    s[i] = q[m] /\ s[j] = q[n] => (i < j <=> m < n)

\* The two indices of the registry tell the same story after any mixture of
\* registrations, refused ones included: the lists by capability hold what is
\* registered, once, in the order of registration.  And admission is a promise
\* the registry keeps: as long as the tools of one contribution are registered
\* before anything else is admitted or registered, none of them turns out to
\* be a duplicate, and the contribution goes in completely.
RegistrationIsSound ==
  /\ \A k \in Capabilities :
       /\ Elements(byCapability[k]) = { t \in Registered : capability[t] = k }
       /\ SameOrder(byId, byCapability[k])
  /\ clash => hasty
=============================================================================
