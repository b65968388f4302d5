------------------------- MODULE ConfigurationProps --------------------------
(***************************************************************************)
(* What the readers and the writers of the configuration may rely on.      *)
(***************************************************************************)
EXTENDS Configuration

ConfigurationTypeOK ==
  /\ snapshot \in Snapshots /\ call \in [Callers -> Calls]
  /\ commits \in 0 .. MaxCommits
  /\ accepted \in SUBSET Snapshots

\* "Candidate becomes visible only after complete construction and
\* validation" (configuration.py:334): whoever reads the configuration, in
\* the middle of any number of updates, sees a snapshot that the validator
\* let pass as it is, version and values together.
VisibleIsValidated == snapshot \in accepted

Sets(change, k)    == "set" \in DOMAIN change /\ k \in change.set
Removes(change, k) == "remove" \in DOMAIN change /\ k \in change.remove

\* Updates build on each other as long as they do not overlap: one that
\* becomes visible while nothing else did since it read the configuration has
\* the next version, its own changes and everything else as it was.  (One
\* that read an older snapshot takes back what became visible in between.)
UpdatesCompose ==
  [][\A u \in Callers :
       call[u].at = "replace" /\ call[u].seen = commits /\ call'[u] = Idle =>
         /\ snapshot'.version = snapshot.version + 1
         /\ \A k \in Keys :
              snapshot'.values[k] =
                IF Sets(call[u].change, k) THEN call[u].change.value
                ELSE IF Removes(call[u].change, k) THEN NoValue
                ELSE snapshot.values[k]]_configurationVars
=============================================================================
