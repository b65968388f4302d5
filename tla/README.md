# A TLA+ model of JARVIS

JARVIS (`src/src/ai_os/`, Python, about 15,000 lines) is an assistant runtime:
an *intelligence* layer turns a request into a decision, an *agent* layer turns
the decision into a workflow, and a *runtime* executes the workflow's plan of
dependent steps. Around them are tools, a small foundation (configuration,
events, dependency injection, plugins, lifecycles), platform services, and the
interfaces a user talks to.

This directory holds TLA+ modules of the parts whose correctness depends on the
order of things: what may run when, what a cancellation from another thread
stops and what it leaves, what an answer still says when a request fails half
way, what survives an exception in a recursion, which of several overlapping
calls wins, what late and repeated events do to a finished request. TLC checks them on small
instances; TLAPS proves the main properties for every value of the constants.
`PROJECT.json` maps each definition to the lines it models and lists the runs,
the hazards, the theorems, and for every checked property a broken variant of
the code (an operator marked "Wrong on purpose") that violates it.

Paths below are relative to `src/src/ai_os/`.

## 1. Inventory

| Component | State it keeps | Operations | What makes it correct |
|---|---|---|---|
| Executor `runtime/executor_impl.py` | `results_by_step`, `completed_steps`, the batch of a loop iteration | `execute` | dependencies first, each step once, results final, exact causes, always an answer |
| Schedulers `runtime/scheduling/`, `scheduler_impl.py` | none | `get_ready_steps` | offers exactly the uncompleted steps whose dependencies completed |
| Cancellation `runtime/cancellation.py` | one `threading.Event` | `cancel`, `is_cancelled` | one-way; at most one task starts after it |
| Execution contracts `runtime/contracts/` | none (frozen values) | constructors that validate | plans are acyclic, references resolve, outputs are JSON |
| Tasks `runtime/tasks/` | `task_type -> Task` | `register`, `get`, `execute_step` | no task replaced, the named one runs |
| Workflow runner, agent `runtime/workflows/`, `runtime/agents/` | none | `handle`, `execute` | the answer reports the work that was done |
| Workflow jobs `application/workflows.py` | `_jobs` | `register`, `run` | a run's status is earned by its steps |
| Intelligence `intelligence/` | none between calls; a call accumulates results | `run`, `orchestrate` | only consistent commands, none after cancellation, complete and honest answers |
| Plan validation `intelligence/plan_validation.py`, `decision/plan_proposal.py` | none; a search has a stack and two sets | `validate`, constructors | the search is exact; validator, proposal and contract agree |
| Selection and replanning `intelligence/workflow_selection.py`, `replanning.py` | none (immutable results) | `run` of three pipelines | a plan runs only if it was itself validated; nothing is chosen by order; bounded attempts |
| Dependency container `foundation/dependencies/container.py` | `_registrations`, `_singletons`, `_resolution_stack`, `_frozen` | `register`, `freeze`, `resolve` | singletons once, stack exact, freeze sufficient |
| Tools `tools/` | tools by id and by capability, lifecycle state per tool, admitted contributions | `register`, `freeze`, `validate`, `enable`, `disable`, `deprecate`, `admit`, `authorize` | deprecated and failed are terminal; only validated tools are enabled; both indexes agree |
| Plugins `foundation/plugins/`, `platform/plugins/` | `plugin -> state`, contributions, per manager | `register`/`install`, `validate`, `load`, `initialize`, `pause`, `unload`, `remove` | state and plugin agree after a failure; one plugin's failure stays its own |
| Configuration `foundation/config/configuration.py` | `_snapshot` (values and version) | `update`, `remove`, `snapshot` | versions grow by one, no update is lost, only validated snapshots are visible |
| Event bus `foundation/events/bus.py` | `type -> handlers` | `subscribe`, `unsubscribe`, `publish` | who is notified when handlers change the list |
| Lifecycles `foundation/lifecycle/`, `application/product.py` | one state each | `start`, `run`, `stop` | the state says what the application was told last |
| Mobile, web, voice `interfaces/` | view models, voice session (held by the caller) | `send`, `synchronize`, `mark_*`, `update_connectivity`; `submit_recognition`, `handle_request`, `stop_output`, `cancel_request`, `apply_event` | every event once, the outcome survives late events, only final speech becomes a request |
| API, desktop, CLI `interfaces/` | none (copies of what the caller holds) | `handle`, `publish`, field updates | an exception of the core becomes FAILED |
| Application `application/` | stores, triggers | `handle`, reliability guard, proactive service | no blind retry of side effects |
| Cognition, engines, platform services, identity | small registries or none | look-ups | duplicates refused |

How they interact. `DefaultAgent.handle` asks the intelligence for a decision
and calls `DefaultWorkflowRunner.execute`; so does
`LongRunningWorkflowManager.run` for a job. The runner builds an
`ExecutionPlan` and calls `DefaultRuntimeExecutor.execute`, which asks a
scheduler for ready steps and a task executor to run each of them. A
`CancellationToken` is handed all the way down; its source is in the hands of
another thread. `FullIntelligenceIntegration.run` calls the five stages of the
orchestrator, a response pipeline and the agent's command channel one after the
other, each inside a failure boundary, and is called again by the caller when
there is feedback. A plan made outside of this passes through
`PlanValidationPipeline`, `WorkflowSelectionPipeline` and, on failure,
`BoundedReplanningPipeline`, led by a caller who holds their results. Container,
tools, plugins, configuration and event bus call *back* into user code
(providers, validators, plugins, listeners, handlers), which may call them again
before they are done. Mobile, web and voice clients reach
`DefaultAPIApplication.handle` through a transport given to them, and fetch the
events published for a request through it.

Hard behaviours, therefore: cancellation racing with every step of every loop;
partial failure of one stage, one step or one provider and what is kept;
reentrancy; ordering of plan steps and of late feedback; termination of loops
with pluggable parts; calls that read, let a validator look, and write; events
that are lost, repeated, late or another request's. All stores are in memory and
the code has no worker threads: there are no crashes to recover from. `hazards` in `PROJECT.json` has each of them at its line.

## 2. Modules

`X.tla` is the model, `XProps.tla` its properties, `MCX.tla` and its `.cfg`s
the TLC instances, `X_proofs.tla` the proofs. `Boundary_proofs.tla` has the proofs
about two small modules, ClientSessions and Configuration; the specification and
the type invariant of the latter have its name in theirs (`ConfigurationSpec`),
because that module extends both.

### PlanExecution: the promise

What a client may rely on: steps go from pending to running to completed or
failed, one at a time, on completed dependencies only; a step below a failed or
cancelled one may be cancelled; after a request to cancel the rest may be
cancelled, all at once and never while a task runs; the caller is answered when
everything is terminal, or gets an exception for a step that was running. It
says nothing about loops, batches, passes or result objects. It is used twice:
RuntimeExecutor implements it, and WorkflowRuns builds on it.

### RuntimeExecutor: `DefaultRuntimeExecutor.execute`

One execution of one plan. A step is its position in `plan.steps`, so "plan
order" is the order of numbers. `pc` is the place in `execute` between two looks
at shared state (the event, a task); `results`, `reason` and `blocking` are
`results_by_step` with the metadata of CANCELLED results; `batch` is the rest of
`executable_steps`; `cursor` and `changed` are the loop variables of
`_propagate_dependency_cancellation`, one step of which is one action, so that
recording during a pass is visible to the rest of the pass as in the code.
`Cancel` is another thread's and may come between any two actions; a task is
two actions (it starts, it ends) so that `Cancel` can come while it runs.
`Plans` is the set of all acyclic dependency graphs; a dependency may come
later in plan order than the step that needs it. `LazyScheduler = TRUE` is any
implementation of the `Scheduler` protocol that offers some of the ready steps
or none; `FALSE` is the shipped one.

### WorkflowRuns: agent, runner, jobs

Requests through `DefaultAgent.handle` and `LongRunningWorkflowManager.run`,
one after the other, each with a new plan, with no token, a fresh one or one
already set; a job that is run may not be registered. The execution inside is the abstract one (`INSTANCE
PlanExecution`): what is shown here holds for anything that keeps that promise.

### Intelligence: `FullIntelligenceIntegration.run`

A session: calls of `run` for one request, each through the five orchestrator
stages, response, handoff to the agent, and (if the call has feedback) feedback,
interpretation and memory. Every stage is `EnterStage` (the failure boundary
looks at the token) followed by the stage's result, `StageCancelled` or
`StageRaises`; `produced` is a history of what the call has made so far and
`answer.carries` what its result object holds, which is how the twenty or so
return statements of the code are compared with one idea. Data is reduced to
what the properties distinguish: a decision is its kind and whether it belongs
to the intent; a proposal its class and whether it belongs to the decision. Any
call may have feedback, the first one too. Three returns of `run` are left out,
because `DefaultIntelligenceOrchestrator` never gives cause for them: the
orchestrator raises (full_integration.py:347), returns something else than its
result type (:362), or reports COMPLETED without an `AgentDecision` (:444).

### DependencyContainer: `DefaultDependencyContainer`

`resolve` is recursive and calls providers, which call `resolve` again, so its
Python call stack is state: `frames` has for each active call the dependencies
the loop has not reached, and whether `provide` is running. `raised` is the
exception in flight. The attribute `_resolution_stack` is modelled beside it
(`resolving`), because whether the two agree is the question. A provider may
resolve anything, catch what that raises, fail, or return something that is not
the service. The dependencies of a provider are a set: the model resolves them
in any order, the code in the tuple's. Registration happens between calls of
`resolve`, as `ServiceResolver`, the type under which providers get the
container, has no `register`.

### PlanAdmission: three checks of one plan

The conditions of `PlanProposal`, of the `ExecutionPlan` constructor and of
`DefaultPlanValidator.validate`, each translated from its own code, over one
description of a plan: steps with ids and dependency sets (unknown ids, repeated
steps and self-dependencies included), and one more thing that may be the matter
with it: a flaw in a name or a reference, data that is not JSON (in a step's
`input`, `constraints` or `metadata`, or in the plan's), or a reference made by
`step_output_ref`. That one has the step it was made for and the step it is read
as, because a reference is written with the id in it and read by splitting at the
dots. The constructor goes first, then the validator. Both look for cycles with a recursive `visit`; its calls are `stack`,
its sets `visiting` and `visited`, and dependencies are visited in any order, as
the iteration over a set does. A plan the constructor refuses still goes through
the validator, which is written to distrust what it is given.

### PlanRoute: validation, selection, replanning

The way of a plan to its run, as a sequence of requests of one caller. `plans`
are the plan objects, `current` the one the caller wants to run; `validation`
and `selection` are the result objects it holds. Pipelines compare objects by
identity where the code says `is not`, so a result about an earlier plan of the
same id can be told apart. `custom` says which of validator and selector are not
the default ones: those answer anything. A replacement goes through everything
again.

### Tools: registry, ecosystem, lifecycle

Three managers around one registry. `validate` is two actions, because the
lifecycle validator is called in between; any operation may come there, a second
`validate` of the same tool included. `Admit` checks against the registry but
registers nothing; `RegisterAdmitted` is the caller, who registers the tools of
an admitted contribution when it likes.

### ClientSessions: mobile, web, voice

Every request has a client. The transport is external: `Send` may fail before or
after the handler ran, `Synchronize` gets any batch of published events, in any
order, again or never, and an event of another request in it makes the client
raise without a change. The client's own look at the connectivity is not modelled:
a `Send` it refuses is one that fails before the handler ran. The caller hands to
`handle_request` what `submit_recognition` returned; the method itself takes any
`VoiceRequest`. A view is the immutable object the caller holds. The web
client is the mobile one without background and connectivity. A voice session has
its own small state machine.

### Configuration: `ConfigurationManager`

Calls of `update` and `remove` that overlap at every point: the snapshot is read
for the values (`Read`), read again for the version (`Number`), shown to the
validator (`Validate`) and replaced (`Replace`). A caller is a thread or a call
a validator makes.

## 3. Runs

| Run | Instance | Shows |
|---|---|---|
| `executor_safety` | all acyclic plans of 4 steps, shipped scheduler | dependencies first, each step at most once, results final and earned, exact causes, one late start, exact answers, no stall; `RuntimeExecutor` implements `PlanExecution` |
| `executor_liveness` | 3 steps, any scheduler, fairness | `execute` ends |
| `executor_output_escapes` | 3 steps | expected violation: see section 6 |
| `workflow_runs` | 2 jobs, 2 requests, plans of 3 steps | statuses earned, work reported, failures that explain what is missing |
| `intelligence_call` | 2 calls, 2 candidates, feedback of 2 steps, any validator | what reaches the agent; what the caller is told |
| `dependency_container` | 3 services, every graph, 2 calls, 1 nested call per provide, symmetric services | stack, singletons, order, freeze |
| `plan_admission` | plans of up to 3 steps over 3 ids, one with a dot; every dependency relation | both searches are exact; how far the three checks agree |
| `plan_reference_refused` | the same | expected violation: see section 6 |
| `plan_route` | 2 plan ids, 2 workflow ids, 2 candidates, 2 attempts, 3 requests | only a cleared plan runs; a choice is forced; attempts are bounded |
| `tools` | 2 tools, 2 capabilities, 2 contributions, 2 validations at a time | states are earned, final states, what admission promises |
| `client_sessions` | 2 requests, 2 events, 2 sends, batches of 2 | events once, the outcome is kept, only final speech is handled |
| `configuration` | 2 callers, 2 keys, 3 changes | only validated snapshots; updates that do not overlap compose |

The properties, in words, stand before their definitions in the `Props`
modules.

Why the bounds suffice. *Four steps*: a diamond, a chain of three with an
independent branch, and a descendant that stands before its ancestors in plan
order all need at most four; propagation needs three levels for a pass that
leaves something to a second and a third pass. *Three steps* for liveness: the
loop's measure (results that are missing) is the same at every size, and a lazy
scheduler multiplies the states. *Two calls* of `run`: the property over calls
(at most one late command in a session) needs two, and a second call starts
from the same state as any later one. *Two candidates*: none, one, and an
ambiguity. *Three services*: a cycle of three, a diamond's side, an undeclared
cycle through a nested call, and a provider that catches an exception from two
levels below; *two calls* so that what the first leaves behind meets the
second; the theorems then remove all of these bounds. *Three plan steps*: a cycle of
three, a diamond's two ways to a step visited before, a repeated id. *Three
requests with two attempts*: one more than is allowed, and the replacement of a
replacement, which may have the first plan's id. *Two tools, two validations*: a
capability that is shared or not, a contribution that conflicts in its second
tool only, and a validation that ends after another one's tool was deprecated.
*Two requests, two events*: an event of the other request, a repetition, a second
response after an event. *Two callers, three changes*: one update inside another
and a third after both; values are not compared with each other, so one besides
"no value" is enough. `MaxBuilt` caps the
history counter of instances at 2, one more than a singleton may have.

Deadlock is checked in every run. Models that legitimately end have an explicit
last step (`Ended`, `Done`, `Finished`), whose guard says where stopping is right,
so TLC reports any other state without a successor.

The `TypeOK` of PlanAdmission, PlanRoute, Tools, ClientSessions and Configuration
holds in the instances above but is not among the properties of a run; it is a
theorem about each of them (section 5).

## 4. Fairness

`RuntimeExecutor!FairSpec`, the one specification with fairness, assumes weak
fairness of one disjunction: the steps of the thread that made the call. It is a plain
synchronous call: the interpreter executes it as long as the process lives. It
includes that a task which was started returns or raises, which the code takes
for granted (there are no timeouts). Nothing is assumed about the other
thread: `Cancel` is under no fairness, nor is any particular outcome of a task. A lazy scheduler is under none: if it offers
nothing and propagation adds nothing, `execute` raises `ExecutionStalledError`,
which is an end.

## 5. Proofs

All theorems are about `Spec` of the module, for every value of the constants
that satisfies the module's `ASSUME`s (`NumSteps` a positive number, bounds
natural numbers, flags booleans, values apart from the constants that stand for
"none"); TLC evaluates those in the runs. Each module's
proof defines an inductive invariant `IInv` out of named parts, proves
`Init => IInv` and `IInv /\ [Next]_vars => IInv'`, and derives the properties. Every
safety invariant and every action property of the passing runs is a theorem; so
is the refinement.

*RuntimeExecutor.* `IInv` says what the batch and the current step are (no
result, dependencies completed), that a started step has its task's result
unless it is running, and that everything behind the cursor of a pass that has
changed nothing is unblocked. The first is needed because the loop trusts a
batch computed before its steps ran; the last is what makes propagation a
fixpoint. Proved: type correctness, `DependencyOrder`, `OutcomesAreEarned`,
`OneLateStart`, `CancelledForCause`, and as action properties `RunAtMostOnce`
and `ResultsFinal`. With the shipped scheduler also `NeverStuck` (after a
fixpoint the steps without a result, if there are any, form a set in which
acyclicity gives one whose dependencies have all completed) and the refinement
`ImplementsPlanExecution`: every step of the loop is a step of `PlanExecution`
or a stutter under the mapping in `RuntimeExecutorProps`.

`AnswerIsExact` needs no scheduler in particular either. What stands above a step is
the smallest set that holds its dependencies and theirs (`Ancestors`: no recursion,
so it can be reasoned about). Among the cancelled steps from a given one upwards,
acyclicity gives one that depends on none of the others; the cause it names is above
it and not cancelled, so it failed. In the other direction, a step that ran had
completed dependencies, and the completed steps are closed under dependencies.

`NoStepInVain` is the part of termination that does not need fairness: every step
of the executor's thread makes the set of missing results smaller, or leaves it
and decreases a natural number (`Left`, a bound by place in the code; `BoundIsNatural`),
with any scheduler and for plans of every size. So no sequence of passes and batches
goes round in a circle; that the thread takes its next step is left to TLC.

*WorkflowRuns.* Without a request to cancel, a cancelled step implies a failed
one (`CauseInv`); so "no step FAILED" and "token not set" together do mean
COMPLETED, which is all the manager looks at. Proved: type correctness,
`JobStatusIsEarned`, `WorkIsReported`. `FailureExplainsRun` is about runs with
`cancel()` at any time: unless a cancellation was asked for, a cancelled step depends
on one that failed or was cancelled (`ExplainedInv`), and the manager reads the token
after the last step. `NoServiceInVain`: each step of the thread
that serves a request brings the request to a later place, ends the execution of its
plan, or moves a step of the plan and none backwards; so the thread takes finitely
many steps per request.

*Intelligence.* `produced` is a function of the stage (`ProducedInv`); a token
set inside a stage was set in that stage, since no stage is entered afterwards
(`LateInv`); a completed orchestration passed the adapter's own validation
(`ConsistentInv`). No command of a call reached the agent before its handoff, and
what comes later carries the receipt (`DeliveredInv`). After the handoff there is an
accepted receipt and the caller's feedback, from which the interpretation was made
(`EarnedInv`). Proved: type correctness, `CommandsAreConsistent` for *any*
validator, `OneLateCommand`, `NothingIsLost`, `DeliveryIsVisible`, `StatusIsEarned`.

*DependencyContainer.* The stack follows the calls and has no duplicates, so
nothing under construction is built (`ConstructionInv`); what the loop has gone
through is had, or is the call in progress, or its exception is on its way
(`LoopInv`); while nothing strays, the stack is a path of the registry
(`PathInv`), so that a service met again would close a set of services each of
which depends on one of the set, which `freeze` excludes. Proved: type
correctness, `StackFollowsCalls` and `NoServiceInsideItself`,
`SingletonBuiltOnce`, `DependenciesFirst`, `FrozenResolves`. As the stack has no
repetitions, the recursion is never deeper than there are services, if those are
finitely many (`BoundedNesting`).

*PlanAdmission.* The visits in progress are a path of the dependency graph without
repetitions, and `visiting` is the set of their ids (`PathInv`): a dependency met in
`visiting` closes a cycle. What a visit has behind it was visited or is being visited
on top of it (`DoneInv`), so `visited` is closed under dependencies, and it holds no
set of steps that wait for each other, since a step that enters it depends on
nothing outside (`VisitedInv`). At the end everything is visited (`RootInv`).
Proved: type correctness, `SearchIsExact`, and case by case from it `CheckersAgree`;
the recursion is never deeper than the plan has ids (`BoundedDepth`: a path without
repetitions is an injection into the ids), and each of its steps brings it nearer to
its end, in cyclic plans too (`SearchEnds`).

*PlanRoute.* A result the caller holds is about the plan it is after, because the
pipelines compare objects and the caller drops the results about an old plan with
that plan; so what runs was cleared itself (`HeldInv`). The number of a request is
the number of calls of the replanner until the limit is reached (`CountInv`). That
the default selector never chooses rests on a lemma about its answers
(`DefaultAnswers`): the matches are finitely many, and not more than one and not
none means the first of them is the only one. Proved: type correctness,
`RunIsCleared` for *any* validator, selector and replanner, `ChoiceIsForced`,
`ReplannerBounded`.

*Tools.* A tool that has had a verdict is not "registered" again, so no validation
of it begins (`VerdictInv`); a validation that waits next to another, or to a
verdict given meanwhile, overlapped it (`WaitingInv`). The registry's lists grow at
their ends, and only by tools that were not in them. As long as nobody acts between
an admission and the registrations that follow it, what an admitted contribution
still has to register is not registered, has no repetitions, and is the only one
outstanding (`ReservedInv`). Proved: type correctness, `StatesAreEarned`,
`RegistrationIsSound`, and as an action property `FinalStates`.

*Configuration.* What is about to become visible is what the validator saw, since
nothing touches a candidate afterwards (`CandidateInv`); the candidate of a caller
that read the snapshot which is still visible is that snapshot with the caller's
changes, under the next version (`ReadInv`). Proved: type correctness,
`VisibleIsValidated`, and as an action property `UpdatesCompose`.

*ClientSessions.* A view shows only what happened to its own request, since events
keep the request they were published for and a batch that mixes requests changes
nothing. What one event does to a view is a lemma; that a batch of any length adds
exactly its events, once each and after those the view had (`MergedEffect`), is an
induction over the batch. It is done in set form: the positions at which the claim
fails would have a least one (`LeastNumber`), which is not 0 and not the successor
of one at which it holds. The loop is a recursive function in the model, whose
existence has to be proved first (`LoopExists`). Proved: type correctness,
`EventsAreKeptOnce`, `OutcomeIsKept`, `OnlyFinalSpeechIsHandled`.

Only model-checked: `Terminates`. It is liveness under fairness, which needs ENABLED
and is out of the prover's reach. The part of it that is about single steps is the
theorem `NoStepInVain`; that the thread has a next step until it is done is what TLC
adds, on the instance of section 3. The two runs that expect a violation show a behaviour, and there is
nothing to prove about them.

## 6. Disagreements between code and comments, and observations

*Unrecordable outputs.* The comment in `execute` (executor_impl.py:136) says that
a task-level execution failure becomes a terminal FAILED result. The COMPLETED
`ExecutionResult` is however constructed outside of the `try` around the task,
so a task that returns a value the contract cannot hold makes `execute` raise,
and the results of all steps that ran, its own work included, are lost to the
caller. Run `executor_output_escapes` shows it; `Abort` in `PlanExecution` and
`ExecutionRaises` in `WorkflowRuns` carry the consequence upwards.

*References to dotted steps.* `step_output_ref` (runtime/contracts/models.py:27)
says it creates a reference to a previous step's output, and takes every id the
contract allows, dots included. The reference is then read by splitting it at the
dots (models.py:107), so a plan that refers to a step with a dot in its id is
refused as malformed. Run `plan_reference_refused` shows it. If the id is that of
another step followed by `.output`, the reference is instead taken for one to the
output of that other step, and the plan is built; the model has this too
(`References`).

Behaviour the models have because the code has it, and that nothing in the
repository says is wrong:

- The validator finds no issue in a plan without steps, in names that are not
  blank but match no pattern, in data that is not JSON, and in references: it does
  not look at any of these, and the constructor refuses them. `CheckersAgree` names
  them one by one and says that there are no others.
- A `validate` that was waiting for its validator writes its verdict over
  whatever state the tool has by then, so two overlapping validations can bring a
  deprecated tool back (tests/test_tool_lifecycle.py says deprecated is
  terminal; its tests make one call at a time). `FinalStates` says that nothing
  else can.
- Two contributions with a tool in common are both admitted if neither is
  registered in between.
- Of two overlapping configuration updates the later replacement takes back
  what the other changed, and both snapshots may have the same version.
- `AgentFeedbackReceipt.accepted` is never looked at: feedback the agent refused is
  interpreted all the same (full_integration.py:561).
- An event that arrives after the response makes a finished, failed or
  cancelled request PENDING again in the view, and PROCESSING in a voice
  session. The output of the response stays.
- `MobileApplicationClient.send` refuses to send unless the connectivity it is
  given is ONLINE, its default; `DefaultMobileApplication.send` gives it none, so
  a view that is offline sends all the same.
- `IntegratedIntelligence.decide` (intelligence/integration.py) returns a
  `ReasoningPipelineOutcome`, which `DefaultAgent.handle` does not accept as a
  decision (runtime/agents/agent_impl.py:92); `integration_impl.py` imports
  `IntelligenceOrchestrator` from a module that does not define it.

## 7. Plan

To be proved next:

1. **Intelligence**: that a call of `run` visits its stages in order and ends, as
   `NoServiceInVain` says it of WorkflowRuns.
2. **PlanExecution**: invariants of the promise itself (a step that is not pending
   had completed dependencies or a blocked one), so that WorkflowRuns and the executor
   can cite them.

To be modelled, most important first:

1. **Plugins**: the foundation's and the platform's manager and the lifecycle
   managers. The recorded state and what the plugin was told last, through
   failures and calls of the manager from within a plugin.
2. **EventBus**: handlers that subscribe, unsubscribe and publish while they are
   notified; who is notified of an event, and how often.
3. **ReliabilityGuard**: bounded retries, cancellation between them, what may be
   retried; the proactive service, which notifies before it looks for a trigger.

### Not modelled

- Cognition, engines, packages, deployment, multitenancy, SDK, observability:
  look-ups in dictionaries and immutable values, with no order of steps to get
  wrong.
- Tool security and identity: pure functions of their arguments, of which a
  model would be a copy.
- Desktop and CLI: a field of a copy is replaced, or a line is translated; no
  call depends on an earlier one.
- The rules and parsers inside the reasoners and the recursive freezing of JSON
  values: data, not control. Models use what they may return.
- `IntegratedIntelligence` and its pipeline: an earlier composition of the stages
  that Intelligence models, used by tests only (section 6).
- The wording of responses, formatting, rendering and logging.
