---------------------------- MODULE BannerLayers ----------------------------
(***************************************************************************)
(* What the banner of the web UI promises: there is a status and there may *)
(* be a message, and the screen shows the message as long as it lasts, then *)
(* the status.  Feedback never hides a status or an email failure; an email *)
(* failure hides both, for a while.                                        *)
(***************************************************************************)
VARIABLES
    status,    \* the status to show, "none" when all is well
    message,   \* the message on top of it, if any
    screen     \* what is shown

vars == <<status, message, screen>>

Statuses == {"error", "regenerate", "none"}

Init ==
    /\ status = "none"
    /\ message = "none"
    /\ screen = "none"

Shown == screen' = IF message' # "none" THEN message' ELSE status'

\* A status ends feedback; an email failure outlasts it.
SetStatus ==
    /\ status' \in Statuses
    /\ message' = IF message = "feedback" /\ status' # "none" THEN "none" ELSE message
    /\ Shown

ShowFeedback ==
    /\ status = "none" /\ message # "email failure"
    /\ message' = "feedback"
    /\ UNCHANGED status
    /\ Shown

ShowEmailFailure ==
    /\ message' = "email failure"
    /\ UNCHANGED status
    /\ Shown

\* The message is dismissed or its time is up.
EndMessage ==
    /\ message # "none"
    /\ message' = "none"
    /\ UNCHANGED status
    /\ Shown

Next == SetStatus \/ ShowFeedback \/ ShowEmailFailure \/ EndMessage

Spec == Init /\ [][Next]_vars

=============================================================================
