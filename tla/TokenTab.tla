------------------------------ MODULE TokenTab ------------------------------
(***************************************************************************)
(* The MCP card of the server page: the switch that is saved by a click,   *)
(* the token that is shown for a minute, copied or replaced, and the REST  *)
(* views behind it.  A request may get no answer, before or after the      *)
(* server carried it out; the page may be closed at any time; other        *)
(* sessions and commands change the same row.  Nothing in the environment  *)
(* sets the switch, which would disable it in the card.                    *)
(***************************************************************************)
EXTENDS Naturals

CONSTANTS
    MaxClicks,  \* bound on what the user does
    MaxOthers   \* bound on the changes made elsewhere

ASSUME BoundsAssumption == MaxClicks \in Nat /\ MaxOthers \in Nat

NoToken == 0

VARIABLES
    server,  \* enabled, the token, and how many tokens were ever issued
    card,    \* the component: the fields of Card
    step,    \* what its subscription waits for
    call,    \* the request under way or its answer; the token to copy
    left,    \* writes of a closed page that the server may still receive
    clicks, others,
    told     \* history: has nothing changed but what the page was told of?

vars == <<server, card, step, call, left, clicks, others, told>>

Steps == {"none", "load", "patch", "confirm", "rotate", "show", "copy", "clipboard"}
Asks == {"load", "patch", "rotate", "show", "copy"}
Write == [step : {"patch", "rotate"}, enabled : BOOLEAN]

Card == [load     : {"closed", "loading", "ready", "failed"},
         shown    : BOOLEAN,  \* mcpConfiguration.mcp_enabled
         saved    : BOOLEAN,  \* savedMCPEnabled
         has      : BOOLEAN,  \* is there a token to mask?
         revealed : Nat,      \* revealedMCPToken while mcpTokenVisible
         handle   : BOOLEAN,  \* mcpTokenHideTimer # null
         timers   : Nat,      \* the timers that will fire
         updating : BOOLEAN]  \* mcpUpdating

NewCard(load) ==
    [load |-> load, shown |-> FALSE, saved |-> FALSE, has |-> FALSE, revealed |-> NoToken,
     handle |-> FALSE, timers |-> 0, updating |-> FALSE]

NoCall == [at |-> "none", enabled |-> FALSE, token |-> NoToken]

Init ==
    /\ \E e, t \in BOOLEAN :
          /\ e => t
          /\ server = [enabled |-> e, token  |-> IF t THEN 1 ELSE NoToken,
                                      issued |-> IF t THEN 1 ELSE 0]
    /\ card = NewCard("closed")
    /\ step = "none" /\ call = NoCall /\ left = {}
    /\ clicks = 0 /\ others = 0
    /\ told = FALSE

-----------------------------------------------------------------------------
(* The views *)

Rotated(s) == [s EXCEPT !.token = s.issued + 1, !.issued = @ + 1]

\* The PATCH of the switch makes a token if there is none.
Patched(s, on) ==
    LET row == IF on /\ s.token = NoToken THEN Rotated(s) ELSE s
    IN [row EXCEPT !.enabled = on]

Done(w) == IF w.step = "patch" THEN Patched(server, w.enabled)
           ELSE IF w.step = "rotate" THEN Rotated(server)
           ELSE server

\* Without a token there is none to read.
Refused == step \in {"show", "copy"} /\ server.token = NoToken

\* The server carries out the request; the answer arrives or is lost.
Serve ==
    /\ call.at = "sent"
    /\ server' = Done([step |-> step, enabled |-> call.enabled])
    /\ \E at \in {"answered", "failed"} :
          /\ Refused => at = "failed"
          /\ call' = [at |-> at, enabled |-> server'.enabled, token |-> server'.token]
          /\ told' = IF at = "failed" THEN told /\ server' = server
                     ELSE told \/ step \in {"load", "patch"}
    /\ UNCHANGED <<card, step, left, clicks, others>>

\* The request does not get there.
Lose ==
    /\ call.at = "sent"
    /\ call' = [call EXCEPT !.at = "failed"]
    /\ UNCHANGED <<server, card, step, left, clicks, others, told>>

\* A request of a page closed meanwhile arrives after all.
ServeLeft ==
    /\ \E w \in left : server' = Done(w) /\ left' = left \ {w}
    /\ told' = FALSE
    /\ UNCHANGED <<card, step, call, clicks, others>>

\* Another session, a command, or a save of the whole row as it was before.
Elsewhere ==
    /\ others < MaxOthers
    /\ others' = others + 1
    /\ \E e \in BOOLEAN, t \in 0 .. server.issued + 1 :
          server' = [enabled |-> e, token |-> t,
                     issued |-> IF t > server.issued THEN t ELSE server.issued]
    /\ told' = FALSE
    /\ UNCHANGED <<card, step, call, left, clicks>>

-----------------------------------------------------------------------------
(* The component, as functions of its fields c *)

ClearHideTimer(c) ==
    IF c.handle THEN [c EXCEPT !.handle = FALSE, !.timers = @ - 1] ELSE c

ResetRevealed(c) == [ClearHideTimer(c) EXCEPT !.revealed = NoToken]

ScheduleHide(c) == [ClearHideTimer(c) EXCEPT !.handle = TRUE, !.timers = @ + 1]

Reveal(c, token) == ScheduleHide([c EXCEPT !.revealed = token])

Idle(c) == [c EXCEPT !.updating = FALSE]

\* A configuration in the card, as the server has saved it.
Fill(c, answer) ==
    ResetRevealed([c EXCEPT !.shown = answer.enabled, !.saved = answer.enabled,
                            !.has = answer.token # NoToken])

-----------------------------------------------------------------------------
(* The user and the answers *)

CanAct == card.load = "ready" /\ ~card.updating

Click ==
    /\ clicks < MaxClicks
    /\ clicks' = clicks + 1
    /\ UNCHANGED <<server, others, told>>

Ask(kind, on) ==
    /\ step' = kind
    /\ call' = [at |-> "sent", enabled |-> on, token |-> NoToken]

\* ngOnInit of a new component.
Open ==
    /\ card.load = "closed"
    /\ Click
    /\ card' = NewCard("loading")
    /\ Ask("load", FALSE)
    /\ UNCHANGED left

\* ngOnDestroy: the subscriptions end, but a promise does not, and a request
\* that was sent may still reach the server.
Close ==
    /\ card.load # "closed"
    /\ Click
    /\ card' = Idle(ResetRevealed([card EXCEPT !.load = "closed"]))
    /\ step' = IF step = "clipboard" THEN step ELSE "none"
    /\ call' = IF step = "clipboard" THEN call ELSE NoCall
    /\ left' = IF call.at = "sent" /\ step \in {"patch", "rotate"}
               THEN left \cup {[step |-> step, enabled |-> call.enabled]} ELSE left

\* updateMCPConfiguration, after ngModel has set the field.
Toggle ==
    /\ CanAct
    /\ Click
    /\ card' = [card EXCEPT !.shown = ~@, !.updating = TRUE]
    /\ Ask("patch", ~card.shown)
    /\ UNCHANGED left

\* generateMCPToken asks first.
GenerateToken ==
    /\ CanAct
    /\ Click
    /\ card' = [card EXCEPT !.updating = TRUE]
    /\ step' = "confirm"
    /\ UNCHANGED <<call, left>>

Confirm ==
    /\ step = "confirm"
    /\ Click
    /\ Ask("rotate", FALSE)
    /\ UNCHANGED <<card, left>>

Decline ==
    /\ step = "confirm"
    /\ Click
    /\ card' = Idle(card)
    /\ step' = "none"
    /\ UNCHANGED <<call, left>>

\* toggleMCPTokenVisibility
HideToken ==
    /\ CanAct /\ card.has /\ card.revealed # NoToken
    /\ Click
    /\ card' = ResetRevealed(card)
    /\ UNCHANGED <<step, call, left>>

\* toggleMCPTokenVisibility, copyMCPToken
ReadToken(kind) ==
    /\ CanAct /\ card.has
    /\ kind = "show" => card.revealed = NoToken
    /\ Click
    /\ card' = [card EXCEPT !.updating = TRUE]
    /\ Ask(kind, FALSE)
    /\ UNCHANGED left

\* An answer arrives, or the news that there will be none.
Hear(kind, at) ==
    /\ step = kind /\ call.at = at
    /\ UNCHANGED <<server, left, clicks, others, told>>

End == step' = "none" /\ call' = NoCall

HearLoad ==
    /\ Hear("load", "answered")
    /\ card' = [Fill(card, call) EXCEPT !.load = "ready"]
    /\ End

LoadFails ==
    /\ Hear("load", "failed")
    /\ card' = NewCard("failed")
    /\ End

HearPatch ==
    /\ Hear("patch", "answered")
    /\ card' = Idle(Fill(card, call))
    /\ End

PatchFails ==
    /\ Hear("patch", "failed")
    /\ card' = Idle([card EXCEPT !.shown = card.saved])
    /\ End

\* Mutant: the token that was replaced stays on the screen.
HearRotateOnly ==
    /\ Hear("rotate", "answered")
    /\ card' = Idle([card EXCEPT !.shown = call.enabled, !.has = TRUE])
    /\ End

\* The answer is merged into the configuration, without savedMCPEnabled.
HearRotate ==
    /\ Hear("rotate", "answered")
    /\ card' = Idle(ResetRevealed([card EXCEPT !.shown = call.enabled, !.has = TRUE]))
    /\ End

HearShow ==
    /\ Hear("show", "answered")
    /\ card' = Idle(Reveal(card, call.token))
    /\ End

HearCopy ==
    /\ Hear("copy", "answered")
    /\ step' = "clipboard"
    /\ UNCHANGED <<card, call>>

\* Mutant: nobody hears of a copy that fails.
AskFailsButCopy ==
    /\ \E kind \in {"rotate", "show"} : Hear(kind, "failed")
    /\ card' = Idle(card)
    /\ End

\* rotate, show and copy change nothing but mcpUpdating.
AskFails ==
    /\ \E kind \in {"rotate", "show", "copy"} : Hear(kind, "failed")
    /\ card' = Idle(card)
    /\ End

\* Mutant: the promise does not look at destroyed.
ClipboardEndsAnyway ==
    /\ Hear("clipboard", "answered")
    /\ card' \in {Idle(card), Idle(Reveal(card, call.token))}
    /\ End

\* The promise of copyTextToClipboard: copied, or blocked by the browser, and
\* then revealMCPTokenForManualCopy.  Nothing is left to do on a closed page.
ClipboardEnds ==
    /\ Hear("clipboard", "answered")
    /\ card' \in IF card.load = "closed" THEN {card}
                 ELSE {Idle(card), Idle(Reveal(card, call.token))}
    /\ End

\* Mutant: only the handle is forgotten.
HideTimerFiresOnly ==
    /\ card.timers > 0
    /\ card' = [card EXCEPT !.handle = FALSE, !.timers = @ - 1]
    /\ UNCHANGED <<server, step, call, left, clicks, others, told>>

\* A minute after the token was revealed.
HideTimerFires ==
    /\ card.timers > 0
    /\ card' = LET fired == [card EXCEPT !.handle = FALSE, !.timers = @ - 1]
               IN IF card.load = "closed" THEN fired ELSE ResetRevealed(fired)
    /\ UNCHANGED <<server, step, call, left, clicks, others, told>>

-----------------------------------------------------------------------------

User ==
    \/ Open \/ Close \/ Toggle \/ GenerateToken \/ Confirm \/ Decline
    \/ HideToken \/ ReadToken("show") \/ ReadToken("copy")

Component ==
    \/ HearLoad \/ LoadFails \/ HearPatch \/ PatchFails \/ HearRotate \/ HearShow \/ HearCopy
    \/ AskFails \/ ClipboardEnds

Next == User \/ Component \/ HideTimerFires \/ Serve \/ Lose \/ ServeLeft \/ Elsewhere

Spec == Init /\ [][Next]_vars

\* A request is answered or fails in the end, and the browser runs its
\* callbacks.  The user does as he likes, and so do the others.
FairSpec ==
    /\ Spec
    /\ WF_vars(Serve \/ Lose) /\ WF_vars(Component) /\ WF_vars(HideTimerFires)

-----------------------------------------------------------------------------

TypeOK ==
    /\ server \in [enabled : BOOLEAN, token : Nat, issued : Nat]
    /\ server.token <= server.issued
    /\ card \in Card
    /\ step \in Steps
    /\ call \in [at : {"none", "sent", "answered", "failed"}, enabled : BOOLEAN, token : Nat]
    /\ left \subseteq Write
    /\ clicks \in 0 .. MaxClicks /\ others \in 0 .. MaxOthers
    /\ told \in BOOLEAN

\* As long as the page was told of every change at the server, the card that
\* waits for nothing shows the switch as it is stored, would restore it as it is
\* stored when a PATCH fails, knows whether there is a token, and shows no other
\* token than the one that is accepted: "the display never becomes a stale raw
\* token".
InStep ==
    told /\ CanAct
        => /\ card.shown = server.enabled
           /\ card.saved = server.enabled
           /\ card.has <=> server.token # NoToken
           /\ card.revealed \in {NoToken, server.token}

\* A revealed token has one timer that will hide it, and without one no timer is
\* left to cut a later reveal short; on a closed page, whose promise may still be
\* pending, nothing is revealed any more.
OneHideTimer ==
    /\ card.timers = (IF card.revealed # NoToken THEN 1 ELSE 0)
    /\ card.load = "closed" => card.revealed = NoToken

\* Every answer and every failure, of any request, has a callback that can run; a
\* request that was sent comes back somehow, and a timer that was set can fire.
NeverStuck ==
    /\ call.at = "sent" => ENABLED <<Serve \/ Lose>>_vars
    /\ call.at \in {"answered", "failed"} => ENABLED <<Component>>_vars
    /\ card.timers > 0 => ENABLED <<HideTimerFires>>_vars

\* Whatever fails or is lost, the card takes clicks again, but for the dialog
\* that waits for the user; and once the user asks for it no more, a revealed
\* token is hidden.
CardRecovers ==
    /\ card.updating ~> ~card.updating \/ step = "confirm"
    /\ card.revealed # NoToken ~> card.revealed = NoToken

=============================================================================
