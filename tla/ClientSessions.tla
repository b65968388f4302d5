--------------------------- MODULE ClientSessions ----------------------------
(***************************************************************************)
(* The clients of the API: mobile and web views of a request               *)
(* (interfaces/mobile, interfaces/web) and voice sessions                  *)
(* (interfaces/voice), in front of DefaultAPIApplication (interfaces/api). *)
(*                                                                         *)
(* The transport is external: a call may be lost before or after the       *)
(* handler ran, subscribe returns what was published in any order, again   *)
(* and again or not at all, and mixed with what belongs to other requests. *)
(* A view is immutable; here it is the one the caller holds, and passes as *)
(* current to every call.  The caller sends again when a call raised.      *)
(***************************************************************************)
EXTENDS Naturals, Sequences, SequencesExt

CONSTANTS
  Requests,   \* request ids
  Events,     \* event ids
  MaxSends,   \* bound on the times a request is sent
  MaxBatch,   \* bound on the events one subscribe returns
  None        \* Python's None

VARIABLES
  client,     \* request -> "mobile", "web" or "voice"; fixed
  view,       \* request -> MobileViewModel or WebViewModel, or None
  session,    \* request -> VoiceSession.state
  utterance,  \* request -> the VoiceRequest made of speech: BOOLEAN
  sends,      \* request -> times it was sent
  owner,      \* event -> its correlation_id, None until it is published
  heard,      \* history: request -> what the recognizer returned for it
  handled,    \* history: request -> the handler was called for it
  response,   \* history: request -> status of the response the view shows
  delivered   \* history: request -> events synchronized into the view

vars == <<client, view, session, utterance, sends, owner, heard, handled, response, delivered>>

Statuses == {"success", "accepted", "blocked", "failed", "cancelled", "incomplete"}
OperationStates ==
  {"pending", "success", "blocked", "failed", "cancelled", "incomplete",
   "disconnected", "background"}
Connectivity == {"online", "offline", "connecting", "disconnected"}

\* What of a view the operations tell apart; output stands for the output,
\* the error and the metadata of a response, by its status.
View == [state : OperationStates, connectivity : Connectivity,
         output : Statuses \cup {None}, events : Seq(Events)]

\* None is neither an id nor a view.
ASSUME ClientsAssumption ==
  /\ MaxSends \in Nat /\ MaxBatch \in Nat
  /\ None \notin Requests /\ None \notin View

\* What the recognizer heard: something not final, silence, or speech.
Recognitions == {"partial", "blank", "final"}

-----------------------------------------------------------------------------
(* The view models                                                         *)

Fresh == [state |-> "pending", connectivity |-> "online", output |-> None, events |-> <<>>]

\* from_response; the view starts without events.
FromResponse(status) ==
  [Fresh EXCEPT !.state = IF status = "accepted" THEN "pending" ELSE status,
                !.output = status]

\* Wrong on purpose: only the latest event is compared.
WithEvent_Latest(v, e) ==
  IF v.events # <<>> /\ Last(v.events) = e THEN v
  ELSE [v EXCEPT !.state = "pending", !.events = Append(@, e)]

\* with_event: one with a known id changes nothing, any other makes the
\* operation pending, finished or not.
WithEvent(v, e) ==
  IF Contains(v.events, e) THEN v
  ELSE [v EXCEPT !.state = "pending", !.events = Append(@, e)]

\* The loop over a batch: the view after its events, one after the other.
Merged(v, batch) ==
  LET after[n \in 0 .. Len(batch)] ==
        IF n = 0 THEN v ELSE WithEvent(after[n - 1], batch[n])
  IN  after[Len(batch)]

Current(r) == IF view[r] = None THEN Fresh ELSE view[r]

-----------------------------------------------------------------------------
(* Mobile and web                                                          *)

Screens == { r \in Requests : client[r] # "voice" }

\* MobileApplicationClient.send and WebApplicationClient.send, through
\* DefaultAPIApplication.handle.  Neither looks at the connectivity of the
\* view: DefaultMobileApplication always passes ONLINE.
Send ==
  \E r \in Screens :
    /\ sends[r] < MaxSends
    /\ sends' = [sends EXCEPT ![r] = @ + 1]
    /\ handled' = handled \cup {r}
    /\ \E status \in Statuses :
         /\ view' = [view EXCEPT ![r] = FromResponse(status)]
         /\ response' = [response EXCEPT ![r] = status]
         /\ delivered' = [delivered EXCEPT ![r] = {}]
    /\ UNCHANGED <<client, session, utterance, owner, heard>>

\* The call is lost, or the handler raises or answers for another request:
\* the caller keeps the view it has.
SendFails ==
  \E r \in Requests :
    /\ sends[r] < MaxSends
    /\ client[r] = "voice" => utterance[r]
    /\ sends' = [sends EXCEPT ![r] = @ + 1]
    /\ handled' \in {handled, handled \cup {r}}
    /\ UNCHANGED <<client, view, session, utterance, owner, heard, response, delivered>>

\* The core publishes an event about a request it was given.
Publish ==
  \E e \in Events, r \in handled :
    /\ owner[e] = None
    /\ owner' = [owner EXCEPT ![e] = r]
    /\ UNCHANGED <<client, view, session, utterance, sends, heard, handled, response, delivered>>

Published == { e \in Events : owner[e] # None }
Batches   == UNION { [1 .. n -> Published] : n \in 0 .. MaxBatch }

\* synchronize of the mobile client, receive_events of the web client.
Synchronize ==
  \E r \in Screens, batch \in Batches :
    /\ \A i \in DOMAIN batch : owner[batch[i]] = r
    /\ view' = [view EXCEPT ![r] = Merged(Current(r), batch)]
    /\ delivered' = [delivered EXCEPT ![r] = @ \cup Range(batch)]
    /\ UNCHANGED <<client, session, utterance, sends, owner, heard, handled, response>>

\* An event of another request raises in the middle of the batch: what was
\* taken from it so far is lost with the local variable.
SynchronizeRaises ==
  /\ \E r \in Screens, batch \in Batches : \E i \in DOMAIN batch : owner[batch[i]] # r
  /\ UNCHANGED vars

\* Wrong on purpose: the new view is made from the id and the state alone.
Shown_StateOnly(r, s) == view' = [view EXCEPT ![r] = [Fresh EXCEPT !.state = s, !.connectivity = view[r].connectivity]]

\* The view with another state and everything else as it was.
Shown(r, s) == view' = [view EXCEPT ![r].state = s]

MarkBackground ==
  \E r \in Requests :
    /\ client[r] = "mobile" /\ view[r] # None
    /\ Shown(r, "background")
    /\ UNCHANGED <<client, session, utterance, sends, owner, heard, handled, response, delivered>>

\* The mobile view has its connectivity set as well.
MarkDisconnected ==
  \E r \in Screens :
    /\ view[r] # None
    /\ IF client[r] = "web" THEN Shown(r, "disconnected")
       ELSE view' = [view EXCEPT ![r].state = "disconnected", ![r].connectivity = "disconnected"]
    /\ UNCHANGED <<client, session, utterance, sends, owner, heard, handled, response, delivered>>

UpdateConnectivity ==
  \E r \in Requests, c \in Connectivity :
    /\ client[r] = "mobile" /\ view[r] # None
    /\ view' = [view EXCEPT ![r].connectivity = c]
    /\ UNCHANGED <<client, session, utterance, sends, owner, heard, handled, response, delivered>>

-----------------------------------------------------------------------------
(* Voice                                                                   *)

\* Wrong on purpose: any transcript makes a request.
MakesRequest_Partial(recognized) == recognized # "blank"

\* submit_recognition: what is not final, and silence, make no request.
MakesRequest(recognized) == recognized = "final"

SubmitRecognition ==
  \E r \in Requests, recognized \in Recognitions :
    /\ client[r] = "voice"
    /\ heard' = [heard EXCEPT ![r] = @ \cup {recognized}]
    /\ utterance' = [utterance EXCEPT ![r] = @ \/ MakesRequest(recognized)]
    /\ UNCHANGED <<client, view, session, sends, owner, handled, response, delivered>>

\* handle_request: to_api_request, the core, and a VoiceResponse to speak.  It
\* takes any VoiceRequest; that of our caller is what submit_recognition
\* returned, which it may hand over again.
HandleRequest ==
  \E r \in Requests :
    /\ client[r] = "voice" /\ utterance[r] /\ sends[r] < MaxSends
    /\ sends' = [sends EXCEPT ![r] = @ + 1]
    /\ handled' = handled \cup {r}
    /\ UNCHANGED <<client, view, session, utterance, owner, heard, response, delivered>>

\* stop_output, cancel_request: neither tells the core.
StopOutput ==
  \E r \in Requests :
    /\ client[r] = "voice" /\ session' = [session EXCEPT ![r] = "interrupted"]
    /\ UNCHANGED <<client, view, utterance, sends, owner, heard, handled, response, delivered>>

CancelRequest ==
  \E r \in Requests :
    /\ client[r] = "voice" /\ session' = [session EXCEPT ![r] = "cancelled"]
    /\ UNCHANGED <<client, view, utterance, sends, owner, heard, handled, response, delivered>>

\* apply_event: one of another request raises; any other makes the session
\* processing, cancelled or not.
ApplyEvent ==
  \E r \in Requests, e \in Published :
    /\ client[r] = "voice" /\ owner[e] = r
    /\ session' = [session EXCEPT ![r] = "processing"]
    /\ UNCHANGED <<client, view, utterance, sends, owner, heard, handled, response, delivered>>

-----------------------------------------------------------------------------

Init ==
  /\ client \in [Requests -> {"mobile", "web", "voice"}]
  /\ view = [r \in Requests |-> None]
  /\ session = [r \in Requests |-> "listening"]
  /\ utterance = [r \in Requests |-> FALSE]
  /\ sends = [r \in Requests |-> 0]
  /\ owner = [e \in Events |-> None]
  /\ heard = [r \in Requests |-> {}]
  /\ handled = {}
  /\ response = [r \in Requests |-> None]
  /\ delivered = [r \in Requests |-> {}]

Next ==
  \/ Send \/ SendFails \/ Publish
  \/ Synchronize \/ SynchronizeRaises
  \/ MarkBackground \/ MarkDisconnected \/ UpdateConnectivity
  \/ SubmitRecognition \/ HandleRequest
  \/ StopOutput \/ CancelRequest \/ ApplyEvent

Spec == Init /\ [][Next]_vars
=============================================================================
