---------------------------- MODULE Configuration ----------------------------
(***************************************************************************)
(* ConfigurationManager (foundation/config/configuration.py): one visible  *)
(* snapshot, replaced by update and remove after a validator has seen the  *)
(* next one.  Nothing is locked, and the validator is external: it may     *)
(* call update itself, and other threads may be in the middle of theirs.   *)
(* A caller is a thread, or a call made by a validator of another one.     *)
(***************************************************************************)
EXTENDS Naturals

CONSTANTS
  Callers,
  Keys,
  Values,
  MaxCommits,  \* bound on the snapshots that become visible
  NoValue      \* no value for the key

ASSUME ConfigurationAssumption == MaxCommits \in Nat /\ NoValue \notin Values

VARIABLES
  snapshot,    \* _snapshot: the number in its version, and its values
  call,        \* caller -> its update or remove
  commits,     \* history: snapshots that became visible after the first
  accepted     \* history: snapshots the validator let pass

configurationVars == <<snapshot, call, commits, accepted>>

Contents  == [Keys -> Values \cup {NoValue}]
Snapshots == [version : Nat, values : Contents]

\* update(changes) sets keys, remove(keys) takes keys out.  A call knows which
\* by "set", and the keys it is about.
Changes == [set : SUBSET Keys, value : Values] \cup [remove : SUBSET Keys]

\* A call: what it is to change, where it is, the candidate as far as it is
\* built, and how many snapshots had become visible when it read one.
Idle == [at |-> "idle"]
Calls ==
  {Idle} \cup [at : {"read"}, change : Changes]
  \cup [at : {"number", "validate", "replace"}, change : Changes,
        candidate : Snapshots, seen : Nat]

\* Wrong on purpose: the candidate starts from nothing.
Apply_Fresh(change, values) ==
  IF "set" \in DOMAIN change
    THEN [k \in Keys |-> IF k \in change.set THEN change.value ELSE NoValue]
    ELSE [k \in Keys |-> IF k \in change.remove THEN NoValue ELSE values[k]]

\* candidate_values, of update and of remove.
Apply(change, values) ==
  IF "set" \in DOMAIN change
    THEN [k \in Keys |-> IF k \in change.set THEN change.value ELSE values[k]]
    ELSE [k \in Keys |-> IF k \in change.remove THEN NoValue ELSE values[k]]

Begin(u) ==
  /\ call[u] = Idle
  /\ \E change \in Changes : call' = [call EXCEPT ![u] = [at |-> "read", change |-> change]]
  /\ UNCHANGED <<snapshot, commits, accepted>>

\* current = self._snapshot, and the candidate's values.
Read(u) ==
  /\ call[u].at = "read"
  /\ call' = [call EXCEPT ![u] =
       [at |-> "number", change |-> @.change, seen |-> commits,
        candidate |-> [version |-> 0, values |-> Apply(@.change, snapshot.values)]]]
  /\ UNCHANGED <<snapshot, commits, accepted>>

\* _next_version reads self._snapshot once more.
Number(u) ==
  /\ call[u].at = "number"
  /\ call' = [call EXCEPT ![u].at = "validate",
                          ![u].candidate.version = snapshot.version + 1]
  /\ UNCHANGED <<snapshot, commits, accepted>>

\* Wrong on purpose: the candidate is made visible, then validated.
Validate_TooLate(u) ==
  /\ call[u].at = "validate"
  /\ call' = [call EXCEPT ![u].at = "replace"]
  /\ snapshot' = call[u].candidate
  /\ UNCHANGED <<commits, accepted>>

\* _validate: the validator raises, whatever it raises, or returns.
Validate(u) ==
  /\ call[u].at = "validate"
  /\ \/ /\ call' = [call EXCEPT ![u] = Idle]
        /\ UNCHANGED accepted
     \/ /\ call' = [call EXCEPT ![u].at = "replace"]
        /\ accepted' = accepted \cup {call[u].candidate}
  /\ UNCHANGED <<snapshot, commits>>

\* Whatever is visible by now is replaced.
Replace(u) ==
  /\ call[u].at = "replace" /\ commits < MaxCommits
  /\ snapshot' = call[u].candidate
  /\ commits' = commits + 1
  /\ call' = [call EXCEPT ![u] = Idle]
  /\ UNCHANGED accepted

\* The bound is reached: no call is begun or completed any more.
Finished == commits = MaxCommits /\ UNCHANGED configurationVars

\* __init__: what the sources and the caller gave, merged and validated; a
\* manager whose first snapshot is refused does not exist.
ConfigurationInit ==
  /\ \E values \in Contents : snapshot = [version |-> 0, values |-> values]
  /\ accepted = {snapshot}
  /\ call = [u \in Callers |-> Idle]
  /\ commits = 0

ConfigurationNext ==
  \/ \E u \in Callers : Begin(u) \/ Read(u) \/ Number(u) \/ Validate(u) \/ Replace(u)
  \/ Finished

ConfigurationSpec == ConfigurationInit /\ [][ConfigurationNext]_configurationVars
=============================================================================
