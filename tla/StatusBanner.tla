---------------------------- MODULE StatusBanner ----------------------------
(***************************************************************************)
(* The one banner of the web UI: NotificationService, which decides what   *)
(* it shows, the root component, which keeps it in step with the server    *)
(* status, and the status requests, whose answers arrive in any order.     *)
(***************************************************************************)
CONSTANTS
    Request,   \* the status requests that can be under way at the same time
    Overlap    \* whether plain feedback arrives while an email failure is shown

ASSUME OverlapAssumption == Overlap \in BOOLEAN

VARIABLES
    server,        \* what get_server_status would answer, "down": nothing would
    request,       \* request[r]: "free", "sent" or the answer on its way
    serverStatus,  \* the last status pushed to the root component
    loggedIn,      \* userSessionInfo.is_logged_in
    lastKey,       \* lastStatusBannerKey
    banner,        \* the fields of NotificationService
    applying       \* the step that applyConfiguration waits for

vars == <<server, request, serverStatus, loggedIn, lastKey, banner, applying>>

\* Notifications of the status synchronizer are persistent; the others are
\* transient.  Of these only the email failure has a source.
Persistent == {"error", "regenerate"}
Transient == {"email failure", "feedback"}

Init ==
    /\ server \in {"ok", "changed", "down"}
    /\ request = [r \in Request |-> "free"]
    /\ serverStatus = "none"
    /\ loggedIn = FALSE
    /\ lastKey = "none"
    /\ banner = [current |-> "none", status |-> "none", email |-> FALSE, timer |-> FALSE]
    /\ applying = "idle"

-----------------------------------------------------------------------------
(* NotificationService, as functions of its fields b: current, status for  *)
(* statusNotification, email for emailFailureVisible, timer                *)

\* Mutant: feedback replaces a persistent notification as well.
ShowAnything(b, n, replacePersistent) ==
    [b EXCEPT !.current = n, !.timer = n \in Transient]

Show(b, n, replacePersistent) ==
    IF b.current \in Persistent /\ n \in Transient /\ ~replacePersistent
    THEN b
    ELSE [b EXCEPT !.current = n, !.timer = n \in Transient]

\* Mutant: the displaced status is not shown again.
ClearOnly(b) == [b EXCEPT !.email = FALSE, !.timer = FALSE, !.current = "none"]

Clear(b) ==
    LET failure == b.email /\ b.current = "email failure"
        done == [b EXCEPT !.email = @ /\ ~failure, !.timer = FALSE]
    IN IF failure /\ b.status # "none"
       THEN Show(done, b.status, FALSE)
       ELSE [done EXCEPT !.current = "none"]

ShowEmailDeliveryFailure(b) ==
    Show([b EXCEPT !.status = IF b.current \in Persistent THEN b.current ELSE @,
                   !.email = TRUE],
         "email failure", TRUE)

\* Mutant: a status that comes while an email failure is shown is dropped.
ShowStatusOrDrop(b, n) ==
    IF b.email THEN b ELSE Show([b EXCEPT !.status = n], n, FALSE)

ShowStatus(b, n) ==
    LET kept == [b EXCEPT !.status = n]
    IN IF b.email THEN kept ELSE Show(kept, n, FALSE)

ClearStatus(b) ==
    LET kept == [b EXCEPT !.status = "none"]
    IN IF b.current \in Persistent THEN Clear(kept) ELSE kept

-----------------------------------------------------------------------------
(* The root component *)

StatusBannerKey(status, in) ==
    CASE status = "down" -> "error"
      [] status = "changed" /\ in -> "regenerate"
      [] OTHER -> "none"

SyncStatusBanner(b, last, key) ==
    IF key = last /\ ~b.email THEN b
    ELSE IF key = "none" THEN ClearStatus(b)
    ELSE ShowStatus(b, key)

\* The component hears of a status or of a session.
Hear(status, in) ==
    LET key == StatusBannerKey(status, in)
    IN /\ serverStatus' = status
       /\ loggedIn' = in
       /\ lastKey' = key
       /\ banner' = SyncStatusBanner(banner, lastKey, key)

\* checkServerStatus: every 10 seconds and after every change or restart.
CheckServerStatus ==
    /\ \E r \in Request : request[r] = "free" /\ request' = [request EXCEPT ![r] = "sent"]
    /\ UNCHANGED <<server, serverStatus, loggedIn, lastKey, banner, applying>>

Answer(r) ==
    /\ request[r] = "sent"
    /\ request' = [request EXCEPT ![r] = server]
    /\ UNCHANGED <<server, serverStatus, loggedIn, lastKey, banner, applying>>

\* Mutant: an answer does not replace an error.
ReceiveUnlessError(r) ==
    /\ request[r] \notin {"free", "sent"}
    /\ request' = [request EXCEPT ![r] = "free"]
    /\ IF serverStatus = "down" THEN UNCHANGED <<serverStatus, loggedIn, lastKey, banner>>
       ELSE Hear(request[r], loggedIn)
    /\ UNCHANGED <<server, applying>>

\* The interceptor pushes an error status for a request that got no answer.
Receive(r) ==
    /\ request[r] \notin {"free", "sent"}
    /\ request' = [request EXCEPT ![r] = "free"]
    /\ Hear(request[r], loggedIn)
    /\ UNCHANGED <<server, applying>>

\* It does so for any other request that fails, email requests excepted.
RequestFails ==
    /\ Hear("down", loggedIn)
    /\ UNCHANGED <<server, request, applying>>

\* LoginService passes every answer about the session on, news or not.
HearSession(in) ==
    /\ server # "down"
    /\ Hear(serverStatus, in)
    /\ UNCHANGED <<server, request, applying>>

\* Wrong credentials leave a session as it is, as does the question at the start.
LogIn == \E in \in {loggedIn, TRUE} : HearSession(in)

LogOut == HearSession(FALSE)

-----------------------------------------------------------------------------
(* What the pages show *)

FeedbackAllowed == Overlap \/ banner.current # "email failure"

Feedback ==
    /\ FeedbackAllowed
    /\ banner' = Show(banner, "feedback", FALSE)
    /\ UNCHANGED <<server, request, serverStatus, loggedIn, lastKey, applying>>

EmailFails ==
    /\ banner' = ShowEmailDeliveryFailure(banner)
    /\ UNCHANGED <<server, request, serverStatus, loggedIn, lastKey, applying>>

TimerFires ==
    /\ banner.timer
    /\ banner' = Clear(banner)
    /\ UNCHANGED <<server, request, serverStatus, loggedIn, lastKey, applying>>

\* The email failure is the only notification with a dismiss button.
Dismiss ==
    /\ banner.current = "email failure"
    /\ banner' = Clear(banner)
    /\ UNCHANGED <<server, request, serverStatus, loggedIn, lastKey, applying>>

\* applyConfiguration: from the banner's button or the server page.
ApplyConfiguration ==
    /\ applying = "idle"
    /\ applying' = "generate"
    /\ UNCHANGED <<server, request, serverStatus, loggedIn, lastKey, banner>>

Generated ==
    /\ applying = "generate"
    /\ FeedbackAllowed
    /\ server' = IF server = "changed" THEN "ok" ELSE server
    /\ banner' = Show(banner, "feedback", FALSE)
    /\ applying' = "restart"
    /\ UNCHANGED <<request, serverStatus, loggedIn, lastKey>>

Restarted ==
    /\ applying = "restart"
    /\ FeedbackAllowed
    /\ \E r \in Request :
          request[r] = "free" /\ request' = [request EXCEPT ![r] = "sent"]
    /\ banner' = Show(banner, "feedback", FALSE)
    /\ applying' = "idle"
    /\ UNCHANGED <<server, serverStatus, loggedIn, lastKey>>

ApplyFails ==
    /\ applying # "idle"
    /\ applying' = "idle"
    /\ Hear("down", loggedIn)
    /\ UNCHANGED <<server, request>>

\* Edits, generations by others, outages.
ServerChanges ==
    /\ server' \in {"ok", "changed", "down"} \ {server}
    /\ UNCHANGED <<request, serverStatus, loggedIn, lastKey, banner, applying>>

-----------------------------------------------------------------------------

Next ==
    \/ CheckServerStatus
    \/ \E r \in Request : Answer(r) \/ Receive(r)
    \/ RequestFails \/ LogIn \/ LogOut \/ ServerChanges
    \/ Feedback \/ EmailFails \/ TimerFires \/ Dismiss
    \/ ApplyConfiguration \/ Generated \/ Restarted \/ ApplyFails

Spec == Init /\ [][Next]_vars

\* The interval timer never stops, a request is answered or fails and its
\* outcome is delivered; users and the network owe nothing else.
Polled == WF_vars(CheckServerStatus)

Delivered(r) == WF_vars(Answer(r)) /\ WF_vars(Receive(r))

Deliveries == \A r \in Request : Delivered(r)

FairSpec ==
    /\ Spec
    /\ Polled
    /\ Deliveries

-----------------------------------------------------------------------------

TypeOK ==
    /\ server \in {"ok", "changed", "down"}
    /\ request \in [Request -> {"free", "sent", "ok", "changed", "down"}]
    /\ serverStatus \in {"none", "ok", "changed", "down"}
    /\ loggedIn \in BOOLEAN
    /\ lastKey \in Persistent \cup {"none"}
    /\ banner \in [current : Persistent \cup Transient \cup {"none"},
                   status : Persistent \cup {"none"}, email : BOOLEAN, timer : BOOLEAN]
    /\ applying \in {"idle", "generate", "restart"}

\* Whatever the order of answers, failures and clicks, the status the service
\* keeps is the one the component computed last, and a status banner on screen
\* is that one; only transient messages run a timer.
StatusIsLatest ==
    /\ banner.status = lastKey
    /\ lastKey = StatusBannerKey(serverStatus, loggedIn)
    /\ banner.current \in Persistent => banner.current = lastKey /\ ~banner.email
    /\ banner.timer <=> banner.current \in Transient

\* A status banner that a message displaced is back when nothing else is shown:
\* "The displaced status is retained and restored when this message ends."
DisplacedStatusReturns ==
    banner.current = "none" => banner.status = "none"

\* Where feedback does not interrupt an email failure, the fields of the service,
\* its timer and the component's key come to two layers of which the screen shows
\* the upper one: every operation is one step of BannerLayers, or none.
Layers ==
    INSTANCE BannerLayers
    WITH status  <- lastKey,
         message <- IF banner.current \in Transient THEN banner.current ELSE "none",
         screen  <- banner.current

ImplementsLayers == Layers!Spec

Converges(s, in) ==
    <>[](server = s /\ loggedIn = in) => []<>(lastKey = StatusBannerKey(s, in))

\* Once the server keeps its state and the user the session, the status computed
\* is right again and again, however late old answers come: each wrong one (a
\* failed request) is corrected by a later poll.
StatusConverges == \A s \in {"ok", "changed", "down"}, in \in BOOLEAN : Converges(s, in)

=============================================================================
