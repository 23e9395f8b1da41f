--------------------------- MODULE TokenTabProofs ---------------------------
(***************************************************************************)
(* InStep and OneHideTimer hold, and the card recovers, for any number of  *)
(* clicks and of changes made elsewhere.                                   *)
(***************************************************************************)
EXTENDS TokenTab, TLAPS

\* What every function on the card keeps of its fields.
Timed(c) == c \in Card /\ c.timers = (IF c.handle THEN 1 ELSE 0)

Sound(c) == Timed(c) /\ (c.handle <=> c.revealed # NoToken)

WithTimer(c, h, n) == [c EXCEPT !.handle = h, !.timers = n]

LEMMA TimerFields ==
    ASSUME NEW c \in Card, NEW h \in BOOLEAN, NEW n \in Nat
    PROVE  /\ WithTimer(c, h, n) \in Card
           /\ WithTimer(c, h, n).handle <=> h
           /\ WithTimer(c, h, n).timers = n
           /\ WithTimer(c, h, n).load = c.load
           /\ WithTimer(c, h, n).shown = c.shown
           /\ WithTimer(c, h, n).saved = c.saved
           /\ WithTimer(c, h, n).has = c.has
           /\ WithTimer(c, h, n).revealed = c.revealed
           /\ WithTimer(c, h, n).updating = c.updating
  BY DEF WithTimer, Card

LEMMA ClearHideTimerFields ==
    ASSUME NEW c, Timed(c)
    PROVE  /\ ClearHideTimer(c) \in Card
           /\ ~ClearHideTimer(c).handle
           /\ ClearHideTimer(c).timers = 0
           /\ ClearHideTimer(c).load = c.load
           /\ ClearHideTimer(c).shown = c.shown
           /\ ClearHideTimer(c).saved = c.saved
           /\ ClearHideTimer(c).has = c.has
           /\ ClearHideTimer(c).revealed = c.revealed
           /\ ClearHideTimer(c).updating = c.updating
<1>1. CASE c.handle
  <2>1. c \in Card /\ c.timers - 1 = 0
    BY <1>1 DEF Timed
  <2>2. ClearHideTimer(c) = WithTimer(c, FALSE, 0)
    BY <1>1, <2>1 DEF ClearHideTimer, WithTimer
  <2>3. FALSE \in BOOLEAN /\ 0 \in Nat
    OBVIOUS
  <2>4. /\ WithTimer(c, FALSE, 0) \in Card
        /\ (WithTimer(c, FALSE, 0).handle <=> FALSE)
        /\ WithTimer(c, FALSE, 0).timers = 0
        /\ WithTimer(c, FALSE, 0).load = c.load
        /\ WithTimer(c, FALSE, 0).shown = c.shown
        /\ WithTimer(c, FALSE, 0).saved = c.saved
        /\ WithTimer(c, FALSE, 0).has = c.has
        /\ WithTimer(c, FALSE, 0).revealed = c.revealed
        /\ WithTimer(c, FALSE, 0).updating = c.updating
    <3>1. c \in Card
      BY <2>1
    <3> QED
      BY <2>3, <3>1, TimerFields, Zenon
  <2> QED
    BY <2>2, <2>4, Zenon
<1>2. CASE ~c.handle
  BY <1>2 DEF ClearHideTimer, Timed, Card
<1> QED
  BY <1>1, <1>2

LEMMA ResetFields ==
    ASSUME NEW c, Timed(c)
    PROVE  /\ Sound(ResetRevealed(c))
           /\ ResetRevealed(c).revealed = NoToken
           /\ ResetRevealed(c).load = c.load
           /\ ResetRevealed(c).shown = c.shown
           /\ ResetRevealed(c).saved = c.saved
           /\ ResetRevealed(c).has = c.has
           /\ ResetRevealed(c).updating = c.updating
<1> DEFINE d == ClearHideTimer(c)
<1>1. d \in Card /\ ~d.handle /\ d.timers = 0
  BY ClearHideTimerFields, Zenon
<1>2. ResetRevealed(c) = [d EXCEPT !.revealed = NoToken]
  BY DEF ResetRevealed
<1>3. /\ d.load = c.load /\ d.shown = c.shown /\ d.saved = c.saved
      /\ d.has = c.has /\ d.updating = c.updating
  BY ClearHideTimerFields, Zenon
<1> HIDE DEF d
<1> QED
  BY <1>1, <1>2, <1>3 DEF Sound, Timed, Card, NoToken

LEMMA RevealFields ==
    ASSUME NEW c, Timed(c), NEW t \in Nat \ {NoToken}
    PROVE  /\ Sound(Reveal(c, t))
           /\ Reveal(c, t).revealed = t
           /\ Reveal(c, t).load = c.load
           /\ Reveal(c, t).shown = c.shown
           /\ Reveal(c, t).saved = c.saved
           /\ Reveal(c, t).has = c.has
           /\ Reveal(c, t).updating = c.updating
<1> DEFINE e == [c EXCEPT !.revealed = t]
           d == ClearHideTimer(e)
<1>1. Timed(e)
  BY DEF Timed, Card
<1>2. /\ e.load = c.load /\ e.shown = c.shown /\ e.saved = c.saved
      /\ e.has = c.has /\ e.updating = c.updating /\ e.revealed = t
  BY DEF Timed, Card
<1>3. Reveal(c, t) = [d EXCEPT !.handle = TRUE, !.timers = @ + 1]
  BY DEF Reveal, ScheduleHide
<1> HIDE DEF e
<1>4. /\ d \in Card /\ d.timers = 0
      /\ d.load = e.load /\ d.shown = e.shown /\ d.saved = e.saved
      /\ d.has = e.has /\ d.updating = e.updating /\ d.revealed = e.revealed
  BY <1>1, ClearHideTimerFields, Zenon
<1>5. Reveal(c, t) = WithTimer(d, TRUE, 1)
  BY <1>3, <1>4 DEF WithTimer
<1>7. TRUE \in BOOLEAN /\ 1 \in Nat
  OBVIOUS
<1> HIDE DEF d
<1>8. /\ WithTimer(d, TRUE, 1) \in Card
      /\ (WithTimer(d, TRUE, 1).handle <=> TRUE)
      /\ WithTimer(d, TRUE, 1).timers = 1
      /\ WithTimer(d, TRUE, 1).load = d.load
      /\ WithTimer(d, TRUE, 1).shown = d.shown
      /\ WithTimer(d, TRUE, 1).saved = d.saved
      /\ WithTimer(d, TRUE, 1).has = d.has
      /\ WithTimer(d, TRUE, 1).revealed = d.revealed
      /\ WithTimer(d, TRUE, 1).updating = d.updating
  <2>1. d \in Card
    BY <1>4
  <2> QED
    BY <1>7, <2>1, TimerFields, Zenon
<1>6. /\ Reveal(c, t) \in Card
      /\ Reveal(c, t).handle /\ Reveal(c, t).timers = 1
      /\ Reveal(c, t).load = d.load /\ Reveal(c, t).shown = d.shown
      /\ Reveal(c, t).saved = d.saved /\ Reveal(c, t).has = d.has
      /\ Reveal(c, t).updating = d.updating /\ Reveal(c, t).revealed = d.revealed
  BY <1>5, <1>8, Zenon
<1> QED
  BY <1>2, <1>4, <1>6 DEF Sound, Timed

LEMMA IdleFields ==
    ASSUME NEW c, Sound(c)
    PROVE  /\ Sound(Idle(c))
           /\ ~Idle(c).updating
           /\ Idle(c).revealed = c.revealed
           /\ Idle(c).load = c.load
           /\ Idle(c).shown = c.shown
           /\ Idle(c).saved = c.saved
           /\ Idle(c).has = c.has
  BY DEF Idle, Sound, Timed, Card

LEMMA FillFields ==
    ASSUME NEW c, Sound(c), NEW k, k.enabled \in BOOLEAN
    PROVE  /\ Sound(Fill(c, k))
           /\ Fill(c, k).revealed = NoToken
           /\ Fill(c, k).load = c.load
           /\ Fill(c, k).shown = k.enabled
           /\ Fill(c, k).saved = k.enabled
           /\ Fill(c, k).has = (k.token # NoToken)
           /\ Fill(c, k).updating = c.updating
<1> DEFINE h == k.token # NoToken
           e == [c EXCEPT !.shown = k.enabled, !.saved = k.enabled, !.has = h]
<1>1. h \in BOOLEAN
  OBVIOUS
<1>2. Fill(c, k) = ResetRevealed(e)
  BY DEF Fill
<1> HIDE DEF h
<1>3. /\ Timed(e)
      /\ e.load = c.load /\ e.shown = k.enabled /\ e.saved = k.enabled
      /\ e.has = h /\ e.updating = c.updating
  BY <1>1 DEF Sound, Timed, Card
<1> HIDE DEF e
<1>4. /\ Sound(ResetRevealed(e))
      /\ ResetRevealed(e).revealed = NoToken
      /\ ResetRevealed(e).load = e.load
      /\ ResetRevealed(e).shown = e.shown
      /\ ResetRevealed(e).saved = e.saved
      /\ ResetRevealed(e).has = e.has
      /\ ResetRevealed(e).updating = e.updating
  BY <1>3, ResetFields, Zenon
<1> QED
  BY <1>2, <1>3, <1>4, Zenon DEF h

-----------------------------------------------------------------------------
(* The inductive invariant: how the card, the step and the request go        *)
(* together, and what an informed page knows of the server s.                *)

Flow(c, st, k) ==
    /\ c.load = "closed" => st \in {"none", "clipboard"} /\ ~c.updating /\ c.revealed = NoToken
    /\ c.load = "loading" => st = "load" /\ ~c.updating
    /\ c.load = "failed" => st = "none" /\ ~c.updating
    /\ c.load = "ready" => st # "load" /\ (c.updating <=> st # "none")
    /\ st \in {"none", "confirm"} => k.at = "none"
    /\ st \in Asks => k.at \in {"sent", "answered", "failed"}
    /\ st = "clipboard" => k.at = "answered"
    /\ k.at = "answered" /\ st \in {"rotate", "show", "copy", "clipboard"} => k.token # NoToken

Informed(s, c, st, k) ==
    /\ k.at = "answered" => k.enabled = s.enabled /\ k.token = s.token
    /\ c.load = "ready" =>
          /\ st # "patch" => c.shown = s.enabled
          /\ k.at # "answered" \/ st # "patch" => c.saved = s.enabled
          /\ k.at # "answered" \/ st \notin {"patch", "rotate"}
                => (c.has <=> s.token # NoToken) /\ c.revealed \in {NoToken, s.token}

IInv ==
    /\ TypeOK
    /\ Sound(card)
    /\ Flow(card, step, call)
    /\ told => Informed(server, card, step, call)

LEMMA InvInStep ==
    ASSUME IInv
    PROVE  InStep
  BY DEF IInv, Flow, Informed, InStep, CanAct

LEMMA InvOneHideTimer ==
    ASSUME IInv
    PROVE  OneHideTimer
  BY DEF IInv, Sound, Timed, Flow, OneHideTimer

-----------------------------------------------------------------------------
(* The server *)

Row == [enabled : BOOLEAN, token : Nat, issued : Nat]

LEMMA RotatedFields ==
    ASSUME NEW s \in Row
    PROVE  /\ Rotated(s) \in Row
           /\ Rotated(s).enabled = s.enabled
           /\ Rotated(s).token = Rotated(s).issued
           /\ Rotated(s).token # NoToken
<1> DEFINE n == s.issued + 1
<1>1. n \in Nat /\ n # 0
  BY DEF Row
<1>2. Rotated(s) = [s EXCEPT !.token = n, !.issued = n]
  BY DEF Rotated
<1> HIDE DEF n
<1> QED
  BY <1>1, <1>2 DEF Row, NoToken

LEMMA PatchedFields ==
    ASSUME NEW s \in Row, s.token <= s.issued, NEW on \in BOOLEAN
    PROVE  Patched(s, on) \in Row /\ Patched(s, on).token <= Patched(s, on).issued
<1> DEFINE row == IF on /\ s.token = NoToken THEN Rotated(s) ELSE s
<1>1. row \in Row /\ row.token <= row.issued
  BY RotatedFields DEF Row
<1>2. Patched(s, on) = [row EXCEPT !.enabled = on]
  BY DEF Patched
<1> HIDE DEF row
<1> QED
  BY <1>1, <1>2 DEF Row

LEMMA DoneFields ==
    ASSUME NEW w \in [step : Steps, enabled : BOOLEAN],
           server \in Row, server.token <= server.issued
    PROVE  /\ Done(w) \in Row
           /\ Done(w).token <= Done(w).issued
           /\ w.step \notin {"patch", "rotate"} => Done(w) = server
           /\ w.step = "rotate" => Done(w).enabled = server.enabled /\ Done(w).token # NoToken
<1>1. CASE w.step = "patch"
  <2>1. Done(w) = Patched(server, w.enabled) /\ w.enabled \in BOOLEAN
    BY <1>1 DEF Done
  <2> QED
    BY <1>1, <2>1, PatchedFields
<1>2. CASE w.step = "rotate"
  <2>1. Done(w) = Rotated(server)
    BY <1>2 DEF Done
  <2>2. Rotated(server).issued \in Nat
    BY RotatedFields DEF Row
  <2> QED
    BY <1>2, <2>1, <2>2, RotatedFields
<1>3. CASE w.step \notin {"patch", "rotate"}
  BY <1>3 DEF Done
<1> QED
  BY <1>1, <1>2, <1>3

\* A step that leaves the card and what it waits for alone, and whose page
\* knows what it knew, or nothing.
LEMMA ServerSteps ==
    ASSUME IInv, UNCHANGED <<card, step, call, clicks>>, told' = FALSE,
           server' \in Row,
           server'.token <= server'.issued, left' \subseteq Write, others' \in 0 .. MaxOthers
    PROVE  IInv'
  BY DEF IInv, TypeOK, Row, Sound, Timed, Flow, Informed

LEMMA ServeKeeps ==
    ASSUME IInv, Serve
    PROVE  IInv'
<1> DEFINE w == [step |-> step, enabled |-> call.enabled]
<1>1. w \in [step : Steps, enabled : BOOLEAN] /\ w.step = step
  BY DEF IInv, TypeOK
<1>2. /\ server \in Row
      /\ server.token <= server.issued
  BY DEF IInv, TypeOK, Row
<1>3. server' = Done(w)
  BY DEF Serve
<1> HIDE DEF w
<1>4. /\ server' \in Row
      /\ server'.token <= server'.issued
      /\ step \notin {"patch", "rotate"} => server' = server
      /\ step = "rotate" => server'.enabled = server.enabled /\ server'.token # NoToken
  BY <1>1, <1>2, <1>3, DoneFields
<1>5. PICK at \in {"answered", "failed"} :
          /\ Refused => at = "failed"
          /\ call' = [at |-> at, enabled |-> server'.enabled, token |-> server'.token]
          /\ told' = IF at = "failed" THEN told /\ server' = server
                     ELSE told \/ step \in {"load", "patch"}
  BY DEF Serve
<1>6. UNCHANGED <<card, step, left, clicks, others>> /\ call.at = "sent"
  BY DEF Serve
<1>7. step \in Asks
  BY <1>6 DEF IInv, TypeOK, Flow, Steps, Asks
<1>8. /\ call' \in [at : {"none", "sent", "answered", "failed"}, enabled : BOOLEAN, token : Nat]
      /\ call'.at = at /\ call'.enabled = server'.enabled /\ call'.token = server'.token
  BY <1>4, <1>5 DEF Row
<1>9. TypeOK'
  <2>1. told' \in BOOLEAN
    BY <1>5 DEF IInv, TypeOK
  <2> QED
    BY <1>4, <1>6, <1>8, <2>1 DEF IInv, TypeOK, Row
<1>10. Sound(card)'
  BY <1>6 DEF IInv, Sound, Timed
<1>11. Flow(card, step, call)'
  <2>1. step \in {"show", "copy"} /\ at = "answered" => server'.token # NoToken
    BY <1>4, <1>5 DEF Refused
  <2> QED
    BY <1>4, <1>6, <1>7, <1>8, <2>1 DEF IInv, Flow, Asks
<1>12. ASSUME told'
       PROVE  Informed(server, card, step, call)'
  <2>1. CASE at = "failed"
    <3>1. told /\ server' = server
      BY <1>5, <1>12, <2>1
    <3> QED
      BY <1>6, <1>8, <2>1, <3>1 DEF IInv, Informed
  <2>2. CASE at = "answered" /\ step \in {"load", "patch"}
    BY <1>6, <1>8, <2>2 DEF IInv, Flow, Informed
  <2>3. CASE at = "answered" /\ step \notin {"load", "patch"}
    <3>1. told
      BY <1>5, <1>12, <2>3
    <3> QED
      BY <1>4, <1>6, <1>7, <1>8, <2>3, <3>1 DEF IInv, Flow, Informed, Asks
  <2> QED
    BY <2>1, <2>2, <2>3
<1> QED
  BY <1>9, <1>10, <1>11, <1>12 DEF IInv

LEMMA ServeLeftKeeps ==
    ASSUME IInv, ServeLeft
    PROVE  IInv'
<1>1. PICK w \in left : server' = Done(w) /\ left' = left \ {w}
  BY DEF ServeLeft
<1>2. w \in [step : Steps, enabled : BOOLEAN]
  BY <1>1 DEF IInv, TypeOK, Write, Steps
<1>3. /\ server' \in Row
      /\ server'.token <= server'.issued
  BY <1>1, <1>2, DoneFields DEF IInv, TypeOK, Row
<1> QED
  BY <1>1, <1>3, ServerSteps DEF ServeLeft, IInv, TypeOK

LEMMA ElsewhereKeeps ==
    ASSUME IInv, Elsewhere
    PROVE  IInv'
<1>1. /\ server' \in Row
      /\ server'.token <= server'.issued
  BY DEF Elsewhere, IInv, TypeOK, Row
<1>2. others' \in 0 .. MaxOthers
  BY BoundsAssumption DEF Elsewhere, IInv, TypeOK
<1> QED
  BY <1>1, <1>2, ServerSteps DEF Elsewhere, IInv, TypeOK

LEMMA LoseKeeps ==
    ASSUME IInv, Lose
    PROVE  IInv'
<1>1. UNCHANGED <<server, card, step, left, clicks, others, told>> /\ call.at = "sent"
  BY DEF Lose
<1>2. /\ call' \in [at : {"none", "sent", "answered", "failed"}, enabled : BOOLEAN, token : Nat]
      /\ call'.at = "failed"
  BY DEF Lose, IInv, TypeOK
<1>3. step \in Asks
  BY <1>1 DEF IInv, TypeOK, Flow, Steps, Asks
<1> QED
  BY <1>1, <1>2, <1>3 DEF IInv, TypeOK, Sound, Timed, Flow, Informed, Asks

-----------------------------------------------------------------------------
(* The component.  What a step does with the card is given field by field.   *)

\* The type of a click, and of everything else.
LEMMA ClickType ==
    ASSUME IInv, Click
    PROVE  UNCHANGED <<server, others, told>> /\ clicks' \in 0 .. MaxClicks
  BY BoundsAssumption DEF Click, IInv, TypeOK

\* The steps that leave the server alone: what is left to show of them.
LEMMA CardSteps ==
    ASSUME IInv, UNCHANGED <<server, others, told>>, clicks' \in 0 .. MaxClicks,
           Sound(card)', Flow(card, step, call)', told => Informed(server, card, step, call)',
           step' \in Steps, left' \subseteq Write,
           call' \in [at : {"none", "sent", "answered", "failed"}, enabled : BOOLEAN, token : Nat]
    PROVE  IInv'
  BY DEF IInv, TypeOK, Sound, Timed

LEMMA AskFields ==
    ASSUME NEW kind, NEW on \in BOOLEAN, Ask(kind, on)
    PROVE  /\ step' = kind
           /\ call' \in [at : {"none", "sent", "answered", "failed"}, enabled : BOOLEAN, token : Nat]
           /\ call'.at = "sent"
  BY DEF Ask, NoToken

LEMMA EndFields ==
    ASSUME End
    PROVE  /\ step' = "none"
           /\ call' \in [at : {"none", "sent", "answered", "failed"}, enabled : BOOLEAN, token : Nat]
           /\ call'.at = "none"
  BY DEF End, NoCall, NoToken

LEMMA NewCardFields ==
    ASSUME NEW load \in {"closed", "loading", "failed"}
    PROVE  /\ Sound(NewCard(load)) /\ NewCard(load).load = load
           /\ NewCard(load).revealed = NoToken /\ ~NewCard(load).updating
  BY DEF NewCard, Sound, Timed, Card, NoToken

LEMMA OpenKeeps ==
    ASSUME IInv, Open
    PROVE  IInv'
<1>1. UNCHANGED <<server, others, told>> /\ clicks' \in 0 .. MaxClicks
  BY ClickType DEF Open
<1>2. /\ step' = "load" /\ call'.at = "sent"
      /\ call' \in [at : {"none", "sent", "answered", "failed"}, enabled : BOOLEAN, token : Nat]
  BY AskFields DEF Open
<1>3. card' = NewCard("loading")
  BY DEF Open
<1>4. Sound(card') /\ card'.load = "loading" /\ card'.revealed = NoToken /\ ~card'.updating
  BY <1>3, NewCardFields
<1>5. Flow(card, step, call)'
  BY <1>2, <1>4 DEF Flow, Asks
<1>6. Informed(server, card, step, call)'
  BY <1>2, <1>4 DEF Informed
<1>7. left' \subseteq Write /\ step' \in Steps
  BY <1>2 DEF Open, IInv, TypeOK, Steps
<1> QED
  BY <1>1, <1>2, <1>4, <1>5, <1>6, <1>7, CardSteps DEF Sound, Timed

LEMMA CloseKeeps ==
    ASSUME IInv, Close
    PROVE  IInv'
<1> DEFINE c == [card EXCEPT !.load = "closed"]
<1>1. UNCHANGED <<server, others, told>> /\ clicks' \in 0 .. MaxClicks
  BY ClickType DEF Close
<1>2. Timed(c) /\ c.load = "closed"
  BY DEF IInv, Sound, Timed, Card
<1>3. card' = Idle(ResetRevealed(c))
  BY DEF Close
<1> HIDE DEF c
<1>4. Sound(card') /\ card'.load = "closed" /\ card'.revealed = NoToken /\ ~card'.updating
  BY <1>2, <1>3, ResetFields, IdleFields
<1>5. CASE step = "clipboard"
  <2>1. step' = step /\ call' = call
    BY <1>5 DEF Close
  <2>2. Flow(card, step, call)'
    BY <1>4, <1>5, <2>1 DEF Flow, Asks, IInv
  <2>3. told => Informed(server, card, step, call)'
    BY <1>1, <1>4, <2>1 DEF Informed, IInv
  <2>4. step' \in Steps /\ left' \subseteq Write /\ call' \in [at : {"none", "sent", "answered", "failed"}, enabled : BOOLEAN, token : Nat]
    BY <1>5, <2>1 DEF Close, IInv, TypeOK
  <2> QED
    BY <1>1, <1>4, <2>2, <2>3, <2>4, CardSteps DEF Sound, Timed
<1>6. CASE step # "clipboard"
  <2>1. step' = "none" /\ call' = NoCall
    BY <1>6 DEF Close
  <2>2. /\ call'.at = "none"
        /\ call' \in [at : {"none", "sent", "answered", "failed"}, enabled : BOOLEAN, token : Nat]
    BY <2>1 DEF NoCall, NoToken
  <2>3. Flow(card, step, call)'
    BY <1>4, <2>1, <2>2 DEF Flow, Asks
  <2>4. Informed(server, card, step, call)'
    BY <1>4, <2>2 DEF Informed
  <2>5. left' \subseteq Write
    BY DEF Close, IInv, TypeOK, Write
  <2> QED
    BY <1>1, <1>4, <2>1, <2>2, <2>3, <2>4, <2>5, CardSteps DEF Sound, Timed, Steps
<1> QED
  BY <1>5, <1>6

\* The card while it waits.
Busy(c) == [c EXCEPT !.updating = TRUE]

LEMMA BusyFields ==
    ASSUME NEW c, Sound(c)
    PROVE  /\ Sound(Busy(c))
           /\ Busy(c).updating
           /\ Busy(c).revealed = c.revealed
           /\ Busy(c).load = c.load
           /\ Busy(c).shown = c.shown
           /\ Busy(c).saved = c.saved
           /\ Busy(c).has = c.has
  BY DEF Busy, Sound, Timed, Card

LEMMA ToggleKeeps ==
    ASSUME IInv, Toggle
    PROVE  IInv'
<1> DEFINE c == [card EXCEPT !.shown = ~@]
<1>1. UNCHANGED <<server, others, told>> /\ clicks' \in 0 .. MaxClicks
  BY ClickType DEF Toggle
<1>2. (~card.shown) \in BOOLEAN
  OBVIOUS
<1>3. /\ step' = "patch" /\ call'.at = "sent"
      /\ call' \in [at : {"none", "sent", "answered", "failed"}, enabled : BOOLEAN, token : Nat]
  BY <1>2, AskFields DEF Toggle
<1>4. Sound(c) /\ c.load = card.load /\ c.saved = card.saved /\ c.has = card.has
      /\ c.revealed = card.revealed
  BY DEF IInv, Sound, Timed, Card
<1>5. card' = Busy(c)
  BY DEF Toggle, Busy
<1> HIDE DEF c
<1>6. /\ Sound(card') /\ card'.updating /\ card'.load = card.load
      /\ card'.saved = card.saved /\ card'.has = card.has /\ card'.revealed = card.revealed
  BY <1>4, <1>5, BusyFields
<1>7. card.load = "ready" /\ step = "none" /\ call.at = "none"
  BY DEF Toggle, CanAct, IInv, Flow
<1>8. Flow(card, step, call)'
  BY <1>3, <1>6, <1>7 DEF Flow, Asks
<1>9. told => Informed(server, card, step, call)'
  BY <1>1, <1>3, <1>6, <1>7 DEF IInv, Informed
<1>10. left' \subseteq Write /\ step' \in Steps
  BY <1>3 DEF Toggle, IInv, TypeOK, Steps
<1> QED
  BY <1>1, <1>3, <1>6, <1>8, <1>9, <1>10, CardSteps DEF Sound, Timed

\* The card waits, and for nothing that it shows.
LEMMA WaitingKeeps ==
    ASSUME IInv, UNCHANGED <<server, others, told, left>>, clicks' \in 0 .. MaxClicks,
           card' \in {card, Busy(card)}, card'.updating, card.load = "ready",
           step \in {"none", "confirm"},
           step' \in {"confirm", "rotate", "show", "copy"},
           call' \in [at : {"none", "sent", "answered", "failed"}, enabled : BOOLEAN, token : Nat],
           call'.at = (IF step' = "confirm" THEN "none" ELSE "sent")
    PROVE  IInv'
<1>1. Sound(card)
  BY DEF IInv
<1>2. /\ Sound(card') /\ card'.load = card.load /\ card'.shown = card.shown
      /\ card'.saved = card.saved /\ card'.revealed = card.revealed
      /\ card'.has = card.has
  BY <1>1, BusyFields
<1>3. Flow(card, step, call)'
  BY <1>2 DEF Flow, Asks
<1>4. call.at = "none" /\ call'.at # "answered"
  BY DEF IInv, Flow
<1>5. told => Informed(server, card, step, call)'
  BY <1>2, <1>4 DEF IInv, Informed
<1>6. left' \subseteq Write /\ step' \in Steps
  BY DEF IInv, TypeOK, Steps
<1> QED
  BY <1>2, <1>3, <1>5, <1>6, CardSteps DEF Sound, Timed

LEMMA GenerateTokenKeeps ==
    ASSUME IInv, GenerateToken
    PROVE  IInv'
<1>1. UNCHANGED <<server, others, told, left>> /\ clicks' \in 0 .. MaxClicks
  BY ClickType DEF GenerateToken
<1>2. card.load = "ready" /\ step = "none" /\ call.at = "none"
  BY DEF GenerateToken, CanAct, IInv, Flow
<1>3. card' = Busy(card) /\ step' = "confirm" /\ call' = call
  BY DEF GenerateToken, Busy
<1>4. call' \in [at : {"none", "sent", "answered", "failed"}, enabled : BOOLEAN, token : Nat] /\ card'.updating
  BY <1>3, BusyFields DEF IInv, TypeOK
<1> QED
  BY <1>1, <1>2, <1>3, <1>4, WaitingKeeps

LEMMA ConfirmKeeps ==
    ASSUME IInv, Confirm
    PROVE  IInv'
<1>1. UNCHANGED <<server, others, told, left>> /\ clicks' \in 0 .. MaxClicks
  BY ClickType DEF Confirm
<1>2. step = "confirm" /\ card' = card
  BY DEF Confirm
<1>3. card.load = "ready" /\ card'.updating
  BY <1>2 DEF IInv, TypeOK, Card, Flow
<1>4. /\ step' = "rotate" /\ call'.at = "sent"
      /\ call' \in [at : {"none", "sent", "answered", "failed"}, enabled : BOOLEAN, token : Nat]
  BY AskFields DEF Confirm
<1> QED
  BY <1>1, <1>2, <1>3, <1>4, WaitingKeeps

LEMMA ReadTokenKeeps ==
    ASSUME IInv, NEW kind \in {"show", "copy"}, ReadToken(kind)
    PROVE  IInv'
<1>1. UNCHANGED <<server, others, told, left>> /\ clicks' \in 0 .. MaxClicks
  BY ClickType DEF ReadToken
<1>2. card.load = "ready" /\ step = "none" /\ card' = Busy(card)
  BY DEF ReadToken, CanAct, IInv, Flow, Busy
<1>3. /\ step' = kind /\ call'.at = "sent"
      /\ call' \in [at : {"none", "sent", "answered", "failed"}, enabled : BOOLEAN, token : Nat]
  BY AskFields DEF ReadToken
<1>4. card'.updating
  BY <1>2, BusyFields DEF IInv
<1> QED
  BY <1>1, <1>2, <1>3, <1>4, WaitingKeeps

\* The card waits for nothing any more and knows what it may be asked.
LEMMA RestingKeeps ==
    ASSUME IInv, UNCHANGED <<server, others, told, left>>, clicks' \in 0 .. MaxClicks,
           step' = "none", call'.at = "none",
           call' \in [at : {"none", "sent", "answered", "failed"}, enabled : BOOLEAN, token : Nat],
           Sound(card'), card'.load = "ready", ~card'.updating,
           told => /\ card'.shown = server.enabled
                   /\ card'.saved = server.enabled
                   /\ card'.has <=> server.token # NoToken
                   /\ card'.revealed \in {NoToken, server.token}
    PROVE  IInv'
<1>1. Flow(card, step, call)'
  BY DEF Flow, Asks
<1>2. told => Informed(server, card, step, call)'
  BY DEF Informed
<1>3. left' \subseteq Write /\ step' \in Steps
  BY DEF IInv, TypeOK, Steps
<1> QED
  BY <1>1, <1>2, <1>3, CardSteps DEF Sound, Timed

\* What an answer finds.
LEMMA HearFinds ==
    ASSUME IInv, NEW kind \in Steps \ {"none", "load"}, NEW at, Hear(kind, at),
           kind = "clipboard" => card.load # "closed"
    PROVE  /\ UNCHANGED <<server, others, told, left>> /\ clicks' \in 0 .. MaxClicks
           /\ step = kind /\ call.at = at
           /\ card.load = "ready" /\ Sound(card)
           /\ at = "answered" /\ kind \in {"rotate", "show", "copy", "clipboard"}
                 => call.token \in Nat \ {NoToken}
           /\ call.enabled \in BOOLEAN
           /\ told => Informed(server, card, kind, call)
<1>1. step = kind /\ call.at = at /\ UNCHANGED <<server, others, told, left, clicks>>
  BY DEF Hear
<1>2. card.load \in {"closed", "loading", "ready", "failed"}
  BY DEF IInv, TypeOK, Card
<1>3. call.token \in Nat /\ call.enabled \in BOOLEAN
  BY DEF IInv, TypeOK
<1> QED
  BY <1>1, <1>2, <1>3 DEF IInv, TypeOK, Flow

LEMMA DeclineKeeps ==
    ASSUME IInv, Decline
    PROVE  IInv'
<1>1. UNCHANGED <<server, others, told, left>> /\ clicks' \in 0 .. MaxClicks
  BY ClickType DEF Decline
<1>2. step = "confirm" /\ card' = Idle(card) /\ step' = "none" /\ call' = call
  BY DEF Decline
<1>3. card.load = "ready" /\ Sound(card) /\ call.at = "none"
  BY <1>2 DEF IInv, TypeOK, Card, Flow
<1>4. call' \in [at : {"none", "sent", "answered", "failed"}, enabled : BOOLEAN, token : Nat]
  BY <1>2 DEF IInv, TypeOK
<1>5. told => /\ card.shown = server.enabled /\ card.saved = server.enabled
              /\ card.has <=> server.token # NoToken
              /\ card.revealed \in {NoToken, server.token}
  BY <1>2, <1>3 DEF IInv, Informed
<1> QED
  BY <1>1, <1>2, <1>3, <1>4, <1>5, IdleFields, RestingKeeps

LEMMA HideTokenKeeps ==
    ASSUME IInv, HideToken
    PROVE  IInv'
<1>1. UNCHANGED <<server, others, told, left>> /\ clicks' \in 0 .. MaxClicks
  BY ClickType DEF HideToken
<1>2. /\ card.load = "ready" /\ ~card.updating /\ step = "none" /\ call.at = "none"
      /\ card' = ResetRevealed(card) /\ step' = step /\ call' = call
  BY DEF HideToken, CanAct, IInv, Flow
<1>3. call' \in [at : {"none", "sent", "answered", "failed"}, enabled : BOOLEAN, token : Nat]
  BY <1>2 DEF IInv, TypeOK
<1>4. Timed(card)
  BY DEF IInv, Sound
<1>5. told => /\ card.shown = server.enabled /\ card.saved = server.enabled
              /\ card.has <=> server.token # NoToken
  BY <1>2 DEF IInv, Informed
<1> QED
  BY <1>1, <1>2, <1>3, <1>4, <1>5, ResetFields, RestingKeeps

LEMMA HearLoadKeeps ==
    ASSUME IInv, HearLoad
    PROVE  IInv'
<1> DEFINE c == Fill(card, call)
<1>1. /\ UNCHANGED <<server, others, told, left, clicks>> /\ step = "load"
      /\ call.at = "answered"
  BY DEF HearLoad, Hear
<1>2. card' = [c EXCEPT !.load = "ready"] /\ End
  BY DEF HearLoad
<1>3. clicks' \in 0 .. MaxClicks /\ call.enabled \in BOOLEAN /\ Sound(card)
  BY <1>1 DEF IInv, TypeOK
<1>4. ~card.updating
  BY <1>1 DEF IInv, TypeOK, Card, Flow
<1>5. /\ Sound(c) /\ c.shown = call.enabled /\ c.saved = call.enabled
      /\ c.has = (call.token # NoToken) /\ c.revealed = NoToken /\ c.updating = card.updating
  BY <1>3, FillFields
<1> HIDE DEF c
<1>6. /\ Sound(card') /\ card'.load = "ready"
      /\ card'.shown = call.enabled /\ card'.saved = call.enabled
      /\ card'.has <=> call.token # NoToken
      /\ card'.revealed = NoToken /\ ~card'.updating
  BY <1>2, <1>4, <1>5 DEF Sound, Timed, Card
<1>7. told => call.enabled = server.enabled /\ call.token = server.token
  BY <1>1 DEF IInv, Informed
<1> QED
  BY <1>1, <1>2, <1>3, <1>6, <1>7, EndFields, RestingKeeps

LEMMA LoadFailsKeeps ==
    ASSUME IInv, LoadFails
    PROVE  IInv'
<1>1. UNCHANGED <<server, others, told, left, clicks>> /\ card' = NewCard("failed") /\ End
  BY DEF LoadFails, Hear
<1>2. clicks' \in 0 .. MaxClicks /\ left' \subseteq Write
  BY <1>1 DEF IInv, TypeOK
<1>3. Sound(card') /\ card'.load = "failed" /\ ~card'.updating
  BY <1>1, NewCardFields
<1>4. /\ step' = "none" /\ call'.at = "none"
      /\ call' \in [at : {"none", "sent", "answered", "failed"}, enabled : BOOLEAN, token : Nat]
  BY <1>1, EndFields
<1>5. Flow(card, step, call)' /\ Informed(server, card, step, call)'
  BY <1>3, <1>4 DEF Flow, Asks, Informed
<1> QED
  BY <1>1, <1>2, <1>3, <1>4, <1>5, CardSteps DEF Sound, Timed, Steps

LEMMA HearPatchKeeps ==
    ASSUME IInv, HearPatch
    PROVE  IInv'
<1> DEFINE c == Fill(card, call)
<1>1. /\ UNCHANGED <<server, others, told, left>> /\ clicks' \in 0 .. MaxClicks
      /\ card.load = "ready" /\ Sound(card) /\ call.at = "answered" /\ step = "patch"
      /\ call.enabled \in BOOLEAN
  BY HearFinds DEF HearPatch, Steps
<1>2. card' = Idle(c) /\ End
  BY DEF HearPatch
<1>3. /\ Sound(c) /\ c.shown = call.enabled /\ c.saved = call.enabled
      /\ c.has = (call.token # NoToken) /\ c.revealed = NoToken /\ c.load = card.load
  BY <1>1, FillFields
<1> HIDE DEF c
<1>4. /\ Sound(card') /\ card'.load = "ready" /\ ~card'.updating
      /\ card'.shown = call.enabled /\ card'.saved = call.enabled
      /\ card'.has = (call.token # NoToken) /\ card'.revealed = NoToken
  BY <1>1, <1>2, <1>3, IdleFields, Zenon
<1>5. told => call.enabled = server.enabled /\ call.token = server.token
  BY <1>1 DEF IInv, Informed
<1> QED
  BY <1>1, <1>2, <1>4, <1>5, EndFields, RestingKeeps

LEMMA PatchFailsKeeps ==
    ASSUME IInv, PatchFails
    PROVE  IInv'
<1> DEFINE c == [card EXCEPT !.shown = card.saved]
<1>1. /\ UNCHANGED <<server, others, told, left>> /\ clicks' \in 0 .. MaxClicks
      /\ card.load = "ready" /\ Sound(card) /\ call.at = "failed" /\ step = "patch"
  BY HearFinds DEF PatchFails, Steps
<1>2. card' = Idle(c) /\ End
  BY DEF PatchFails
<1>3. /\ Sound(c) /\ c.shown = card.saved /\ c.saved = card.saved
      /\ c.has = card.has /\ c.revealed = card.revealed /\ c.load = card.load
  BY <1>1 DEF Sound, Timed, Card
<1> HIDE DEF c
<1>4. /\ Sound(card') /\ card'.load = "ready" /\ ~card'.updating
      /\ card'.shown = card.saved /\ card'.saved = card.saved
      /\ card'.has = card.has /\ card'.revealed = card.revealed
  BY <1>1, <1>2, <1>3, IdleFields, Zenon
<1>5. told => /\ card.saved = server.enabled
              /\ card.has <=> server.token # NoToken
              /\ card.revealed \in {NoToken, server.token}
  BY <1>1 DEF IInv, Informed
<1> QED
  BY <1>1, <1>2, <1>4, <1>5, EndFields, RestingKeeps

LEMMA HearRotateKeeps ==
    ASSUME IInv, HearRotate
    PROVE  IInv'
<1> DEFINE c == [card EXCEPT !.shown = call.enabled, !.has = TRUE]
<1>1. /\ UNCHANGED <<server, others, told, left>> /\ clicks' \in 0 .. MaxClicks
      /\ card.load = "ready" /\ Sound(card) /\ call.at = "answered" /\ step = "rotate"
      /\ call.enabled \in BOOLEAN /\ call.token # NoToken
  BY HearFinds DEF HearRotate, Steps
<1>2. card' = Idle(ResetRevealed(c)) /\ End
  BY DEF HearRotate
<1>3. /\ Timed(c) /\ c.shown = call.enabled /\ c.saved = card.saved
      /\ c.has /\ c.load = card.load
  BY <1>1 DEF Sound, Timed, Card
<1> HIDE DEF c
<1>4. /\ Sound(ResetRevealed(c)) /\ ResetRevealed(c).load = "ready"
      /\ ResetRevealed(c).shown = call.enabled /\ ResetRevealed(c).saved = card.saved
      /\ ResetRevealed(c).has /\ ResetRevealed(c).revealed = NoToken
  BY <1>1, <1>3, ResetFields
<1>5. /\ Sound(card') /\ card'.load = "ready" /\ ~card'.updating
      /\ card'.shown = call.enabled /\ card'.saved = card.saved
      /\ card'.has /\ card'.revealed = NoToken
  BY <1>2, <1>4, IdleFields
<1>6. told => /\ call.enabled = server.enabled /\ card.saved = server.enabled
              /\ server.token # NoToken
  BY <1>1 DEF IInv, Informed
<1> QED
  BY <1>1, <1>2, <1>5, <1>6, EndFields, RestingKeeps

\* An informed page that has just revealed the token it was sent.
LEMMA RevealedKeeps ==
    ASSUME IInv, NEW kind \in {"show", "clipboard"}, Hear(kind, "answered"),
           card.load # "closed", card' = Idle(Reveal(card, call.token)), End
    PROVE  IInv'
<1>1. /\ UNCHANGED <<server, others, told, left>> /\ clicks' \in 0 .. MaxClicks
      /\ card.load = "ready" /\ Sound(card) /\ step = kind /\ call.at = "answered"
      /\ call.token \in Nat \ {NoToken}
  BY HearFinds DEF Steps
<1>2. /\ Sound(Reveal(card, call.token))
      /\ Reveal(card, call.token).revealed = call.token
      /\ Reveal(card, call.token).load = "ready"
      /\ Reveal(card, call.token).shown = card.shown
      /\ Reveal(card, call.token).saved = card.saved
      /\ Reveal(card, call.token).has = card.has
  BY <1>1, RevealFields DEF Sound
<1>3. /\ Sound(card') /\ card'.load = "ready" /\ ~card'.updating
      /\ card'.shown = card.shown /\ card'.saved = card.saved
      /\ card'.has = card.has /\ card'.revealed = call.token
  BY <1>2, IdleFields
<1>4. told => /\ card.shown = server.enabled /\ card.saved = server.enabled
              /\ card.has <=> server.token # NoToken
              /\ call.token = server.token
  BY <1>1 DEF IInv, Informed
<1> QED
  BY <1>1, <1>3, <1>4, EndFields, RestingKeeps

\* An answer that leaves the card as it was before the click.
LEMMA IdleKeeps ==
    ASSUME IInv, NEW kind \in {"rotate", "show", "copy", "clipboard"}, NEW at, Hear(kind, at),
           at = "failed" \/ kind = "clipboard", card.load # "closed", card' = Idle(card), End
    PROVE  IInv'
<1>1. /\ UNCHANGED <<server, others, told, left>> /\ clicks' \in 0 .. MaxClicks
      /\ card.load = "ready" /\ Sound(card) /\ step = kind /\ call.at = at
  BY HearFinds DEF Steps
<1>2. /\ Sound(card') /\ card'.load = "ready" /\ ~card'.updating
      /\ card'.shown = card.shown /\ card'.saved = card.saved
      /\ card'.has = card.has /\ card'.revealed = card.revealed
  BY <1>1, IdleFields
<1>3. told => /\ card.shown = server.enabled /\ card.saved = server.enabled
              /\ card.has <=> server.token # NoToken
              /\ card.revealed \in {NoToken, server.token}
  BY <1>1 DEF IInv, Informed
<1> QED
  BY <1>1, <1>2, <1>3, EndFields, RestingKeeps

LEMMA HearShowKeeps ==
    ASSUME IInv, HearShow
    PROVE  IInv'
<1>1. card.load # "closed"
  BY DEF HearShow, Hear, IInv, Flow
<1> QED
  BY <1>1, RevealedKeeps DEF HearShow

LEMMA HearCopyKeeps ==
    ASSUME IInv, HearCopy
    PROVE  IInv'
<1>1. /\ UNCHANGED <<server, others, told, left>> /\ clicks' \in 0 .. MaxClicks
      /\ card.load = "ready" /\ Sound(card) /\ call.at = "answered" /\ step = "copy"
  BY HearFinds DEF HearCopy, Steps
<1>2. step' = "clipboard" /\ UNCHANGED <<card, call>>
  BY DEF HearCopy
<1>3. Flow(card, step, call)'
  BY <1>1, <1>2 DEF IInv, Flow, Asks
<1>4. told => Informed(server, card, step, call)'
  BY <1>1, <1>2 DEF IInv, Informed
<1> QED
  BY <1>1, <1>2, <1>3, <1>4, CardSteps DEF IInv, TypeOK, Steps, Sound, Timed

LEMMA AskFailsKeeps ==
    ASSUME IInv, AskFails
    PROVE  IInv'
<1>1. PICK kind \in {"rotate", "show", "copy"} : Hear(kind, "failed")
  BY DEF AskFails
<1>2. card.load # "closed"
  BY <1>1 DEF Hear, IInv, Flow
<1> QED
  BY <1>1, <1>2, IdleKeeps DEF AskFails

LEMMA ClipboardEndsKeeps ==
    ASSUME IInv, ClipboardEnds
    PROVE  IInv'
<1>1. Hear("clipboard", "answered") /\ End
  BY DEF ClipboardEnds
<1>2. CASE card.load = "closed"
  <2>1. card' = card /\ UNCHANGED <<server, others, told, left, clicks>>
    BY <1>1, <1>2 DEF ClipboardEnds, Hear
  <2>2. /\ step' = "none" /\ call'.at = "none"
        /\ call' \in [at : {"none", "sent", "answered", "failed"}, enabled : BOOLEAN, token : Nat]
    BY <1>1, EndFields
  <2>3. Flow(card, step, call)'
    BY <1>2, <2>1, <2>2 DEF IInv, Flow, Asks
  <2>4. Informed(server, card, step, call)'
    BY <1>2, <2>1, <2>2 DEF Informed
  <2> QED
    BY <2>1, <2>2, <2>3, <2>4, CardSteps DEF IInv, TypeOK, Sound, Timed, Steps
<1>3. CASE card.load # "closed"
  <2>1. card' = Idle(card) \/ card' = Idle(Reveal(card, call.token))
    BY <1>3 DEF ClipboardEnds
  <2> QED
    BY <1>1, <1>3, <2>1, IdleKeeps, RevealedKeeps
<1> QED
  BY <1>2, <1>3

\* The timer hides the token and changes nothing else on the card.
LEMMA TimerHides ==
    ASSUME IInv, HideTimerFires
    PROVE  /\ UNCHANGED <<server, step, call, left, clicks, others, told>>
           /\ Sound(card') /\ card'.revealed = NoToken
           /\ card'.load = card.load /\ card'.shown = card.shown /\ card'.saved = card.saved
           /\ card'.has = card.has /\ card'.updating = card.updating
<1> DEFINE fired == [card EXCEPT !.handle = FALSE, !.timers = @ - 1]
<1>1. UNCHANGED <<server, step, call, left, clicks, others, told>> /\ card.timers > 0
  BY DEF HideTimerFires
<1>2. Sound(card)
  BY DEF IInv
<1>3. card.handle /\ card.timers = 1 /\ card \in Card
  BY <1>1, <1>2 DEF Sound, Timed, Card
<1>4. card.load # "closed"
  BY <1>2, <1>3 DEF IInv, Sound, Flow
<1>5. fired = WithTimer(card, FALSE, 0)
  BY <1>3 DEF WithTimer
<1>6. card' = ResetRevealed(fired)
  BY <1>4 DEF HideTimerFires
<1> HIDE DEF fired
<1>7. FALSE \in BOOLEAN /\ 0 \in Nat
  OBVIOUS
<1>8. /\ fired \in Card /\ ~fired.handle /\ fired.timers = 0
      /\ fired.load = card.load /\ fired.shown = card.shown /\ fired.saved = card.saved
      /\ fired.has = card.has /\ fired.updating = card.updating
  <2>1. /\ WithTimer(card, FALSE, 0) \in Card /\ (WithTimer(card, FALSE, 0).handle <=> FALSE)
        /\ WithTimer(card, FALSE, 0).timers = 0
        /\ WithTimer(card, FALSE, 0).load = card.load
        /\ WithTimer(card, FALSE, 0).shown = card.shown
        /\ WithTimer(card, FALSE, 0).saved = card.saved
        /\ WithTimer(card, FALSE, 0).has = card.has
        /\ WithTimer(card, FALSE, 0).updating = card.updating
    <3>1. card \in Card
      BY <1>3
    <3> QED
      BY <1>7, <3>1, TimerFields, Zenon
  <2> QED
    BY <1>5, <2>1, Zenon
<1>9. /\ Sound(card') /\ card'.revealed = NoToken
      /\ card'.load = card.load /\ card'.shown = card.shown /\ card'.saved = card.saved
      /\ card'.has = card.has /\ card'.updating = card.updating
  <2>1. Timed(fired)
    BY <1>8 DEF Timed
  <2> QED
    BY <1>6, <1>8, <2>1, ResetFields
<1> QED
  BY <1>1, <1>9

LEMMA HideTimerFiresKeeps ==
    ASSUME IInv, HideTimerFires
    PROVE  IInv'
<1>1. /\ UNCHANGED <<server, step, call, left, clicks, others, told>>
      /\ Sound(card') /\ card'.revealed = NoToken
      /\ card'.load = card.load /\ card'.shown = card.shown /\ card'.saved = card.saved
      /\ card'.has = card.has /\ card'.updating = card.updating
  BY TimerHides
<1>2. Flow(card, step, call)'
  BY <1>1 DEF IInv, Flow
<1>3. told => Informed(server, card, step, call)'
  BY <1>1 DEF IInv, Informed
<1> QED
  BY <1>1, <1>2, <1>3, CardSteps DEF IInv, TypeOK, Sound, Timed

-----------------------------------------------------------------------------

LEMMA InitInv ==
    ASSUME Init
    PROVE  IInv
<1>1. PICK e, t \in BOOLEAN :
          server = [enabled |-> e, token  |-> IF t THEN 1 ELSE NoToken,
                                   issued |-> IF t THEN 1 ELSE 0]
  BY DEF Init
<1>2. server \in Row /\ server.token <= server.issued
  BY <1>1 DEF Row, NoToken
<1>3. /\ Sound(card) /\ card.load = "closed"
      /\ card.revealed = NoToken /\ ~card.updating
  BY NewCardFields DEF Init
<1>4. /\ step = "none" /\ call.at = "none"
      /\ call \in [at : {"none", "sent", "answered", "failed"}, enabled : BOOLEAN, token : Nat]
  BY DEF Init, NoCall, NoToken
<1>5. Flow(card, step, call)
  BY <1>3, <1>4 DEF Flow, Asks
<1>6. left \subseteq Write /\ clicks \in 0 .. MaxClicks /\ others \in 0 .. MaxOthers
  BY BoundsAssumption DEF Init
<1>7. told = FALSE
  BY DEF Init
<1> QED
  BY <1>2, <1>3, <1>4, <1>5, <1>6, <1>7 DEF IInv, TypeOK, Row, Sound, Timed, Steps

LEMMA NextKeeps ==
    ASSUME IInv, [Next]_vars
    PROVE  IInv'
<1>1. CASE User
  BY <1>1, OpenKeeps, CloseKeeps, ToggleKeeps, GenerateTokenKeeps, ConfirmKeeps, DeclineKeeps,
     HideTokenKeeps, ReadTokenKeeps DEF User
<1>2. CASE Component
  BY <1>2, HearLoadKeeps, LoadFailsKeeps, HearPatchKeeps, PatchFailsKeeps, HearRotateKeeps,
     HearShowKeeps, HearCopyKeeps, AskFailsKeeps, ClipboardEndsKeeps DEF Component
<1>3. CASE HideTimerFires
  BY <1>3, HideTimerFiresKeeps
<1>4. CASE Serve \/ Lose \/ ServeLeft \/ Elsewhere
  BY <1>4, ServeKeeps, LoseKeeps, ServeLeftKeeps, ElsewhereKeeps
<1>5. CASE UNCHANGED vars
  BY <1>5 DEF vars, IInv, TypeOK, Sound, Timed, Flow, Informed
<1> QED
  BY <1>1, <1>2, <1>3, <1>4, <1>5 DEF Next

\* Every state of TokenTab has its type.
THEOREM TypeCorrect == Spec => []TypeOK
<1>1. IInv => TypeOK
  BY DEF IInv
<1> QED
  BY InitInv, NextKeeps, <1>1, PTL DEF Spec

\* A card that was told of every change shows the switch as it is stored and no
\* token but the one that is accepted, however many requests fail or are lost.
THEOREM CardStaysInStep == Spec => []InStep
  BY InitInv, NextKeeps, InvInStep, PTL DEF Spec

\* A revealed token always has the one timer that hides it, a closed page none.
THEOREM OneHideTimerOnly == Spec => []OneHideTimer
  BY InitInv, NextKeeps, InvOneHideTimer, PTL DEF Spec

-----------------------------------------------------------------------------
(* Nothing is stuck.  ENABLED <<A>>_vars says that there are next values of    *)
(* the variables with which <<A>>_vars holds; the prover does not expand       *)
(* ENABLED, so LostAs, HeardAs and FiredAs name such values of the variables   *)
(* that change, the LeadsTo lemmas show that they are a step, and              *)
(* EverythingGoesOn that they exist.                                           *)

\* A request that was sent gets lost...
LostAs(k) == call.at = "sent" /\ k = [call EXCEPT !.at = "failed"]

\* ...an answer or a failure has its callback...
HeardAs(c, st, k) ==
    \/ /\ call.at = "answered" /\ step \in {"load", "patch", "rotate", "show"}
       /\ <<st, k>> = <<"none", NoCall>>
       /\ c = CASE step = "load" -> [Fill(card, call) EXCEPT !.load = "ready"]
                [] step = "patch" -> Idle(Fill(card, call))
                [] step = "rotate" -> Idle(ResetRevealed([card EXCEPT !.shown = call.enabled,
                                                                      !.has = TRUE]))
                [] step = "show" -> Idle(Reveal(card, call.token))
    \/ call.at = "answered" /\ step = "copy" /\ <<c, st, k>> = <<card, "clipboard", call>>
    \/ /\ call.at = "answered" /\ step = "clipboard" /\ <<st, k>> = <<"none", NoCall>>
       /\ c = IF card.load = "closed" THEN card ELSE Idle(card)
    \/ /\ call.at = "failed" /\ <<st, k>> = <<"none", NoCall>>
       /\ \/ step = "load" /\ c = NewCard("failed")
          \/ step = "patch" /\ c = Idle([card EXCEPT !.shown = card.saved])
          \/ step \in {"rotate", "show", "copy"} /\ c = Idle(card)

\* ...and a timer that was set fires.
FiredAs(c) ==
    LET fired == [card EXCEPT !.handle = FALSE, !.timers = @ - 1]
    IN card.timers > 0 /\ c = IF card.load = "closed" THEN fired ELSE ResetRevealed(fired)

LEMMA LostLeadsTo ==
    ASSUME IInv, LostAs(call'), UNCHANGED <<server, card, step, left, clicks, others, told>>
    PROVE  <<Serve \/ Lose>>_vars
<1>1. call'.at = "failed" /\ call.at = "sent"
  BY DEF LostAs, IInv, TypeOK
<1> QED
  BY <1>1 DEF LostAs, Lose, vars

LEMMA HeardLeadsTo ==
    ASSUME IInv, HeardAs(card', step', call'), UNCHANGED <<server, left, clicks, others, told>>
    PROVE  <<Component>>_vars
<1> USE DEF Hear, End
<1>1. call' = NoCall => call' # call
  BY DEF HeardAs, NoCall
<1>2. CASE step = "load"
  BY <1>1, <1>2 DEF HeardAs, Component, HearLoad, LoadFails, vars
<1>3. CASE step = "patch"
  BY <1>1, <1>3 DEF HeardAs, Component, HearPatch, PatchFails, vars
<1>4. CASE step = "rotate"
  BY <1>1, <1>4 DEF HeardAs, Component, HearRotate, AskFails, vars
<1>5. CASE step = "show"
  BY <1>1, <1>5 DEF HeardAs, Component, HearShow, AskFails, vars
<1>6. CASE step = "copy"
  BY <1>1, <1>6 DEF HeardAs, Component, HearCopy, AskFails, vars
<1>7. CASE step = "clipboard"
  BY <1>1, <1>7 DEF HeardAs, Component, ClipboardEnds, vars
<1> QED
  BY <1>2, <1>3, <1>4, <1>5, <1>6, <1>7 DEF HeardAs

LEMMA FiredLeadsTo ==
    ASSUME IInv, FiredAs(card'), UNCHANGED <<server, step, call, left, clicks, others, told>>
    PROVE  <<HideTimerFires>>_vars
<1>1. HideTimerFires
  BY DEF FiredAs, HideTimerFires
<1>2. card'.revealed = NoToken
  BY <1>1, TimerHides
<1>3. card.revealed # NoToken
  BY DEF FiredAs, IInv, Sound, Timed
<1> QED
  BY <1>1, <1>2, <1>3 DEF vars

GoesOn ==
    /\ call.at = "sent" => \E k : LostAs(k)
    /\ call.at \in {"answered", "failed"} => \E c, st, k : HeardAs(c, st, k)
    /\ card.timers > 0 => \E c : FiredAs(c)

\* What the meaning of ENABLED makes of the LeadsTo lemmas.
StepsCan ==
    IInv => /\ (\E k : LostAs(k)) => ENABLED <<Serve \/ Lose>>_vars
            /\ (\E c, st, k : HeardAs(c, st, k)) => ENABLED <<Component>>_vars
            /\ (\E c : FiredAs(c)) => ENABLED <<HideTimerFires>>_vars

\* Every answer and every failure finds the step that its callback is for, whatever
\* was clicked, closed or changed elsewhere meanwhile (mcp-tab.ts).
THEOREM EverythingGoesOn == Spec => []GoesOn
<1>1. IInv => GoesOn
  <2> SUFFICES ASSUME IInv
               PROVE  GoesOn
    OBVIOUS
  <2>1. call.at \in {"answered", "failed"} => \E c, st, k : HeardAs(c, st, k)
    <3>1. CASE call.at = "answered"
      <4>1. step \in {"load", "patch", "rotate", "show", "copy", "clipboard"}
        BY <3>1 DEF IInv, TypeOK, Flow, Steps
      <4> QED
        BY <3>1, <4>1 DEF HeardAs
    <3>2. CASE call.at = "failed"
      <4>1. step \in {"load", "patch", "rotate", "show", "copy"}
        BY <3>2 DEF IInv, TypeOK, Flow, Steps
      <4> QED
        BY <3>2, <4>1 DEF HeardAs
    <3> QED
      BY <3>1, <3>2
  <2> QED
    BY <2>1 DEF GoesOn, LostAs, FiredAs
<1> QED
  BY <1>1, InitInv, NextKeeps, PTL DEF Spec

\* No request, answer or timer of the card is ever stuck.
THEOREM CardNeverStuck == Spec /\ []StepsCan => []NeverStuck
<1>1. IInv /\ GoesOn /\ StepsCan => NeverStuck
  BY DEF GoesOn, StepsCan, NeverStuck
<1> QED
  BY <1>1, InitInv, NextKeeps, EverythingGoesOn, PTL DEF Spec

-----------------------------------------------------------------------------
(* The card recovers.                                                          *)

Free == ~card.updating \/ step = "confirm"

\* What a card that is not free waits for: the server, its callback, the promise.
Sent == ~Free /\ call.at = "sent"
Heard == ~Free /\ step # "clipboard" /\ call.at \in {"answered", "failed"}
Copying == ~Free /\ step = "clipboard" /\ call.at = "answered"

LEMMA NotFree ==
    ASSUME IInv, ~Free
    PROVE  (Sent \/ Heard \/ Copying) /\ card.load = "ready" /\ step \in Asks \cup {"clipboard"}
<1>1. card.load = "ready"
  BY DEF IInv, TypeOK, Card, Flow, Free
<1> QED
  BY <1>1 DEF IInv, TypeOK, Flow, Free, Sent, Heard, Copying, Steps, Asks

\* A callback, and the end of the promise, free the card; but a token to copy goes
\* on to the clipboard.
LEMMA ComponentFrees ==
    ASSUME IInv, ~Free, Component
    PROVE  /\ Heard \/ Copying
           /\ Heard => Free' \/ Copying'
           /\ Copying => Free'
<1>1. step \notin {"none", "load", "confirm"} /\ card.load = "ready"
  BY NotFree DEF IInv, Flow, Free, Asks
<1>2. CASE HearLoad \/ LoadFails
  BY <1>1, <1>2 DEF HearLoad, LoadFails, Hear
<1>3. CASE HearPatch \/ PatchFails \/ HearRotate \/ HearShow \/ AskFails \/ ClipboardEnds
  <2>1. \E c : Sound(c) /\ card' = Idle(c)
    <3>1. Sound(card)
      BY DEF IInv
    <3>2. CASE HearPatch
      <4>1. card' = Idle(Fill(card, call)) /\ call.enabled \in BOOLEAN
        BY <3>2 DEF HearPatch, IInv, TypeOK
      <4> QED
        BY <3>1, <4>1, FillFields
    <3>3. CASE PatchFails
      BY <3>1, <3>3 DEF PatchFails, Sound, Timed, Card
    <3>4. CASE HearRotate
      <4> DEFINE c == [card EXCEPT !.shown = call.enabled, !.has = TRUE]
      <4>1. card' = Idle(ResetRevealed(c)) /\ call.enabled \in BOOLEAN
        BY <3>4 DEF HearRotate, IInv, TypeOK
      <4>2. Timed(c)
        BY <3>1, <4>1 DEF Sound, Timed, Card
      <4> QED
        BY <4>1, <4>2, ResetFields
    <3>5. ASSUME card' = Idle(Reveal(card, call.token)), Hear("show", "answered") \/ Hear("clipboard", "answered")
          PROVE  Sound(Reveal(card, call.token))
      <4>1. call.token \in Nat \ {NoToken}
        BY <1>1, <3>5, HearFinds DEF Steps
      <4> QED
        BY <3>1, <4>1, RevealFields DEF Sound
    <3>6. CASE HearShow
      BY <3>5, <3>6 DEF HearShow
    <3>7. CASE AskFails
      BY <3>1, <3>7 DEF AskFails
    <3>8. CASE ClipboardEnds
      BY <1>1, <3>1, <3>5, <3>8 DEF ClipboardEnds
    <3> QED
      BY <1>3, <3>2, <3>3, <3>4, <3>6, <3>7, <3>8
  <2>2. Free'
    BY <2>1, IdleFields DEF Free
  <2>3. Heard \/ Copying
    BY <1>3 DEF HearPatch, PatchFails, HearRotate, HearShow, AskFails, ClipboardEnds, Hear,
       Heard, Copying
  <2> QED
    BY <2>2, <2>3
<1>4. CASE HearCopy
  <2>1. step = "copy" /\ step' = "clipboard" /\ card' = card /\ call' = call /\ call.at = "answered"
    BY <1>4 DEF HearCopy, Hear
  <2> QED
    BY <2>1 DEF Free, Heard, Copying
<1> QED
  BY <1>2, <1>3, <1>4 DEF Component

\* Nothing else makes the card wait for something else, but a page that is closed.
LEMMA CardWaits ==
    ASSUME IInv, ~Free, [Next]_vars, ~Component
    PROVE  \/ Free'
           \/ /\ Heard => Heard'
              /\ Copying => Copying'
              /\ Sent => Sent' \/ Heard'
              /\ Serve \/ Lose => Heard'
<1>1. CASE User
  <2>1. card.updating /\ step # "confirm" /\ card.load = "ready" /\ Sound(card)
    BY NotFree DEF Free, IInv
  <2>2. Close
    BY <1>1, <2>1 DEF User, Open, Toggle, GenerateToken, Confirm, Decline, HideToken, ReadToken,
       CanAct
  <2> DEFINE c == [card EXCEPT !.load = "closed"]
  <2>3. Timed(c)
    BY <2>1 DEF Sound, Timed, Card
  <2>4. card' = Idle(ResetRevealed(c))
    BY <2>2 DEF Close
  <2> HIDE DEF c
  <2> QED
    BY <2>3, <2>4, ResetFields, IdleFields DEF Free
<1>2. CASE HideTimerFires /\ ~Serve /\ ~Lose
  BY <1>2, TimerHides DEF Free, Heard, Copying, Sent
<1>3. CASE Serve \/ Lose
  <2>1. UNCHANGED <<card, step>> /\ call.at = "sent" /\ call'.at \in {"answered", "failed"}
    BY <1>3 DEF Serve, Lose, IInv, TypeOK
  <2>2. step # "clipboard"
    BY <2>1 DEF IInv, Flow
  <2> QED
    BY <2>1, <2>2 DEF Free, Heard, Copying, Sent
<1>4. CASE (ServeLeft \/ Elsewhere \/ UNCHANGED vars) /\ ~Serve /\ ~Lose
  BY <1>4 DEF ServeLeft, Elsewhere, vars, Free, Heard, Copying, Sent
<1> QED
  BY <1>1, <1>2, <1>3, <1>4 DEF Next

\* Whatever fails or is lost, the card takes clicks again, and a token that was
\* revealed is hidden, for any number of clicks and of changes made elsewhere.
THEOREM TheCardRecovers == FairSpec /\ []StepsCan => CardRecovers
<1>1. FairSpec => []IInv /\ [][Next]_vars
  BY InitInv, NextKeeps, PTL DEF FairSpec, Spec
<1>2. []IInv /\ [][Next]_vars /\ []NeverStuck /\ WF_vars(Serve \/ Lose) => (Sent ~> Heard \/ Free)
  <2>1. IInv /\ Sent /\ [Next]_vars => Sent' \/ Heard' \/ Free'
    BY CardWaits, ComponentFrees DEF Sent, Heard, Copying
  <2>2. IInv /\ Sent /\ <<(Serve \/ Lose) /\ Next>>_vars => Heard' \/ Free'
    BY CardWaits, ComponentFrees DEF Sent, Heard, Copying
  <2>3. Serve \/ Lose => Next
    BY DEF Next
  <2>4. NeverStuck /\ Sent => ENABLED <<Serve \/ Lose>>_vars
    BY DEF NeverStuck, Sent
  <2> QED
    BY <2>1, <2>2, <2>3, <2>4, PTL
<1>3. []IInv /\ [][Next]_vars /\ []NeverStuck /\ WF_vars(Component) => (Heard ~> Copying \/ Free)
  <2>1. IInv /\ Heard /\ [Next]_vars => Heard' \/ Copying' \/ Free'
    BY CardWaits, ComponentFrees DEF Heard
  <2>2. IInv /\ Heard /\ <<Component>>_vars => Copying' \/ Free'
    BY ComponentFrees DEF Heard
  <2>3. NeverStuck /\ Heard => ENABLED <<Component>>_vars
    BY DEF NeverStuck, Heard
  <2> QED
    BY <2>1, <2>2, <2>3, PTL
<1>4. []IInv /\ [][Next]_vars /\ []NeverStuck /\ WF_vars(Component) => (Copying ~> Free)
  <2>1. IInv /\ Copying /\ [Next]_vars => Copying' \/ Free'
    BY CardWaits, ComponentFrees DEF Copying
  <2>2. IInv /\ Copying /\ <<Component>>_vars => Free'
    BY ComponentFrees DEF Copying
  <2>3. NeverStuck /\ Copying => ENABLED <<Component>>_vars
    BY DEF NeverStuck, Copying
  <2> QED
    BY <2>1, <2>2, <2>3, PTL
<1>5. FairSpec /\ []NeverStuck => (card.updating ~> Free)
  <2>1. IInv /\ card.updating => Sent \/ Heard \/ Copying \/ Free
    BY NotFree
  <2> QED
    BY <1>1, <1>2, <1>3, <1>4, <2>1, PTL DEF FairSpec
<1>6. FairSpec /\ []NeverStuck => (card.revealed # NoToken ~> card.revealed = NoToken)
  <2>1. IInv /\ <<HideTimerFires>>_vars => (card.revealed = NoToken)'
    BY TimerHides
  <2>2. IInv /\ NeverStuck /\ card.revealed # NoToken => ENABLED <<HideTimerFires>>_vars
    BY DEF IInv, Sound, Timed, NeverStuck
  <2>3. card.revealed # NoToken \/ card.revealed = NoToken
    OBVIOUS
  <2> QED
    BY <1>1, <2>1, <2>2, <2>3, PTL DEF FairSpec
<1>7. FairSpec /\ []StepsCan => []NeverStuck
  BY CardNeverStuck, PTL DEF FairSpec
<1> QED
  BY <1>5, <1>6, <1>7, PTL DEF CardRecovers, Free

==============================================================================
