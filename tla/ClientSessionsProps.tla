------------------------- MODULE ClientSessionsProps -------------------------
(***************************************************************************)
(* What a user sees of a request, however bad the connection is.           *)
(***************************************************************************)
EXTENDS ClientSessions

TypeOK ==
  /\ client \in [Requests -> {"mobile", "web", "voice"}]
  /\ view \in [Requests -> View \cup {None}]
  /\ session \in [Requests -> {"listening", "processing", "interrupted", "cancelled"}]
  /\ utterance \in [Requests -> BOOLEAN]
  /\ sends \in [Requests -> 0 .. MaxSends]
  /\ owner \in [Events -> Requests \cup {None}]
  /\ heard \in [Requests -> SUBSET Recognitions]
  /\ handled \in SUBSET Requests
  /\ response \in [Requests -> Statuses \cup {None}]
  /\ delivered \in [Requests -> SUBSET Events]

\* A view that is synchronized over an unreliable transport holds every event
\* that was delivered for its request since the response, once each, and none
\* of another request, whatever is repeated, reordered or mixed in.
EventsAreKeptOnce ==
  \A r \in Requests : view[r] # None =>
    /\ Range(view[r].events) = delivered[r]
    /\ IsInjective(view[r].events)
    /\ \A e \in delivered[r] : owner[e] = r

\* The output of the latest response stays in the view through late events,
\* the background, lost connections and requests that failed; and the state
\* of the view is that of the response unless an event, the background or a
\* disconnection has replaced it.
OutcomeIsKept ==
  \A r \in Requests : view[r] # None =>
    /\ view[r].output = response[r]
    /\ view[r].state \in {"pending", "disconnected", "background", response[r]}
    /\ delivered[r] = {} /\ response[r] # None =>
         view[r].state \in {"disconnected", "background", FromResponse(response[r]).state}

\* "Partial transcripts never become API requests" (voice/application.py:63):
\* given a caller that makes no VoiceRequest of its own, a voice request the
\* core works on, and a session that shows its progress,
\* goes back to a final transcript that was not blank, through lost calls and
\* repetitions, whatever was stopped or cancelled in between.
OnlyFinalSpeechIsHandled ==
  \A r \in Requests : client[r] = "voice" =>
    /\ r \in handled => "final" \in heard[r]
    /\ session[r] = "processing" => r \in handled
=============================================================================
