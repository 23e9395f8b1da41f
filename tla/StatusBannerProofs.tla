------------------------- MODULE StatusBannerProofs -------------------------
(***************************************************************************)
(* StatusIsLatest holds for every number of status requests under way and  *)
(* whether or not feedback interrupts an email failure, and the computed   *)
(* status converges to that of the server; a displaced status returns, and *)
(* the abstract layers are implemented, when feedback does not interrupt.  *)
(***************************************************************************)
EXTENDS StatusBanner, TLAPS

Banner == [current : Persistent \cup Transient \cup {"none"},
           status : Persistent \cup {"none"}, email : BOOLEAN, timer : BOOLEAN]

\* What every operation of the service keeps of its fields.
Sound(b) ==
    /\ b \in Banner
    /\ b.current \in Persistent => b.current = b.status /\ ~b.email
    /\ b.timer <=> b.current \in Transient

Inv ==
    /\ TypeOK
    /\ StatusIsLatest

\* The fields of a sound banner, named one by one.
LEMMA BannerFields ==
    ASSUME NEW b \in Banner
    PROVE  /\ b.current \in {"error", "regenerate", "email failure", "feedback", "none"}
           /\ b.status \in {"error", "regenerate", "none"}
           /\ b.email \in BOOLEAN
           /\ b.timer \in BOOLEAN
           /\ b = [current |-> b.current, status |-> b.status, email |-> b.email,
                   timer |-> b.timer]
  BY DEF Banner, Persistent, Transient

\* Transient messages shown on top of it leave a sound banner sound.
LEMMA FeedbackSound ==
    ASSUME NEW b, Sound(b)
    PROVE  Sound(Show(b, "feedback", FALSE)) /\ Show(b, "feedback", FALSE).status = b.status
  BY DEF Sound, Banner, Show, Persistent, Transient

LEMMA EmailFailureSound ==
    ASSUME NEW b, Sound(b)
    PROVE  /\ Sound(ShowEmailDeliveryFailure(b))
           /\ ShowEmailDeliveryFailure(b).status = b.status
  BY DEF Sound, Banner, Show, ShowEmailDeliveryFailure, Persistent, Transient

\* Shown where it may be shown, a notification takes the banner and the timer.
LEMMA ShowFields ==
    ASSUME NEW b \in Banner, NEW n \in Persistent \cup Transient,
           b.current \notin Persistent \/ n \in Persistent
    PROVE  /\ Show(b, n, FALSE) \in Banner
           /\ Show(b, n, FALSE).current = n
           /\ Show(b, n, FALSE).status = b.status
           /\ Show(b, n, FALSE).email = b.email
           /\ Show(b, n, FALSE).timer = (n \in Transient)
<1> DEFINE t == n \in Transient
<1>1. Show(b, n, FALSE) = [b EXCEPT !.current = n, !.timer = t]
  BY DEF Show, Persistent, Transient
<1>2. t \in BOOLEAN
  OBVIOUS
<1> HIDE DEF t
<1>3. /\ [b EXCEPT !.current = n, !.timer = t] \in Banner
      /\ [b EXCEPT !.current = n, !.timer = t].current = n
      /\ [b EXCEPT !.current = n, !.timer = t].status = b.status
      /\ [b EXCEPT !.current = n, !.timer = t].email = b.email
      /\ [b EXCEPT !.current = n, !.timer = t].timer = t
  BY <1>2 DEF Banner
<1> QED
  BY <1>1, <1>3, Zenon DEF t

\* What a transient message leaves behind when it ends: the status kept for it,
\* or nothing.
LEMMA ClearSound ==
    ASSUME NEW b, Sound(b), b.current \notin Persistent
    PROVE  Sound(Clear(b)) /\ Clear(b).status = b.status
<1> DEFINE failure == b.email /\ b.current = "email failure"
           done == [b EXCEPT !.email = @ /\ ~failure, !.timer = FALSE]
<1>1. /\ done \in Banner
      /\ done.current = b.current /\ done.status = b.status
      /\ ~done.timer
      /\ done.email <=> b.email /\ ~failure
  BY DEF Sound, Banner
<1>2. CASE failure /\ b.status # "none"
  <2>1. b.status \in Persistent
    BY <1>2 DEF Sound, Banner
  <2>2. Clear(b) = Show(done, b.status, FALSE)
    BY <1>2 DEF Clear
  <2> HIDE DEF done
  <2>3. ~done.email
    BY <1>1, <1>2
  <2>4. b.status \notin Transient
    BY <2>1 DEF Persistent, Transient
  <2>5. /\ Clear(b) \in Banner
        /\ Clear(b).current = b.status /\ Clear(b).status = b.status
        /\ Clear(b).email = done.email
        /\ Clear(b).timer = (b.status \in Transient)
    <3>1. b.status \in Persistent \cup Transient /\ done.current \notin Persistent
      BY <1>1, <2>1
    <3>2. done \in Banner /\ (done.current \notin Persistent \/ b.status \in Persistent)
      BY <1>1, <3>1
    <3>3. /\ Show(done, b.status, FALSE) \in Banner
          /\ Show(done, b.status, FALSE).current = b.status
          /\ Show(done, b.status, FALSE).status = done.status
          /\ Show(done, b.status, FALSE).email = done.email
          /\ Show(done, b.status, FALSE).timer = (b.status \in Transient)
      BY <3>1, <3>2, ShowFields, Zenon
    <3> QED
      BY <1>1, <2>2, <3>3, Zenon
  <2> QED
    BY <2>1, <2>3, <2>4, <2>5, Zenon DEF Sound
<1>3. CASE ~(failure /\ b.status # "none")
  <2>1. Clear(b) = [done EXCEPT !.current = "none"]
    BY <1>3 DEF Clear
  <2> HIDE DEF done
  <2> QED
    BY <1>1, <2>1 DEF Sound, Banner, Persistent, Transient
<1> QED
  BY <1>2, <1>3

\* A status or its end, wherever the banner stands.
LEMMA ShowStatusSound ==
    ASSUME NEW b, Sound(b), NEW n \in Persistent
    PROVE  Sound(ShowStatus(b, n)) /\ ShowStatus(b, n).status = n
<1> DEFINE kept == [b EXCEPT !.status = n]
<1>1. /\ kept \in Banner
      /\ kept.current = b.current /\ kept.status = n
      /\ kept.email = b.email /\ kept.timer = b.timer
  BY DEF Sound, Banner
<1>2. n \notin Transient
  BY DEF Persistent, Transient
<1>3. ShowStatus(b, n) = IF b.email THEN kept ELSE Show(kept, n, FALSE)
  BY DEF ShowStatus
<1> HIDE DEF kept
<1>4. CASE b.email
  BY <1>1, <1>3, <1>4 DEF Sound
<1>5. CASE ~b.email
  <2>1. /\ Show(kept, n, FALSE) \in Banner
        /\ Show(kept, n, FALSE).current = n /\ Show(kept, n, FALSE).status = n
        /\ Show(kept, n, FALSE).email = b.email
        /\ Show(kept, n, FALSE).timer = (n \in Transient)
    BY <1>1, ShowFields, Zenon
  <2> QED
    BY <1>2, <1>3, <1>5, <2>1, Zenon DEF Sound
<1> QED
  BY <1>4, <1>5

LEMMA ClearStatusSound ==
    ASSUME NEW b, Sound(b)
    PROVE  Sound(ClearStatus(b)) /\ ClearStatus(b).status = "none"
  BY DEF Sound, Banner, Show, Clear, ClearStatus, Persistent, Transient

\* The synchronisation leaves the status it was given.
LEMMA SyncSound ==
    ASSUME NEW b, Sound(b), NEW key \in Persistent \cup {"none"}
    PROVE  /\ Sound(SyncStatusBanner(b, b.status, key))
           /\ SyncStatusBanner(b, b.status, key).status = key
  BY ShowStatusSound, ClearStatusSound DEF SyncStatusBanner

-----------------------------------------------------------------------------

LEMMA InvSound ==
    ASSUME Inv
    PROVE  Sound(banner)
  BY DEF Inv, TypeOK, StatusIsLatest, Sound, Banner

\* The key is one of the statuses that have a banner.
LEMMA KeyType ==
    ASSUME NEW status, NEW in
    PROVE  StatusBannerKey(status, in) \in Persistent \cup {"none"}
  BY DEF StatusBannerKey, Persistent

\* Whatever the component hears, banner and key agree with it.
LEMMA HearKeeps ==
    ASSUME Inv, NEW status \in {"none", "ok", "changed", "down"}, NEW in \in BOOLEAN,
           Hear(status, in)
    PROVE  /\ serverStatus' \in {"none", "ok", "changed", "down"} /\ loggedIn' \in BOOLEAN
           /\ lastKey' \in Persistent \cup {"none"}
           /\ banner' \in Banner
           /\ StatusIsLatest'
<1> DEFINE key == StatusBannerKey(status, in)
<1>1. key \in Persistent \cup {"none"}
  BY KeyType
<1>2. Sound(banner) /\ banner.status = lastKey
  BY InvSound DEF Inv, StatusIsLatest
<1>3. /\ serverStatus' = status /\ loggedIn' = in /\ lastKey' = key
      /\ banner' = SyncStatusBanner(banner, banner.status, key)
  BY <1>2 DEF Hear
<1> HIDE DEF key
<1>4. Sound(banner') /\ banner'.status = key
  BY <1>1, <1>2, <1>3, SyncSound
<1>5. key = StatusBannerKey(serverStatus', loggedIn')
  BY <1>3 DEF key
<1> QED
  BY <1>1, <1>3, <1>4, <1>5 DEF Sound, StatusIsLatest

\* A step that leaves the service and the component alone.
LEMMA OtherKeeps ==
    ASSUME Inv, UNCHANGED <<serverStatus, loggedIn, lastKey, banner>>
    PROVE  /\ serverStatus' \in {"none", "ok", "changed", "down"} /\ loggedIn' \in BOOLEAN
           /\ lastKey' \in Persistent \cup {"none"}
           /\ banner' \in Banner
           /\ StatusIsLatest'
  BY DEF Inv, TypeOK, StatusIsLatest, Banner

\* A page that replaces the banner by a sound one with the same status leaves
\* the component out of it.
LEMMA PageKeeps ==
    ASSUME Inv, Sound(banner'), banner'.status = banner.status,
           UNCHANGED <<serverStatus, loggedIn, lastKey>>
    PROVE  /\ serverStatus' \in {"none", "ok", "changed", "down"} /\ loggedIn' \in BOOLEAN
           /\ lastKey' \in Persistent \cup {"none"}
           /\ banner' \in Banner
           /\ StatusIsLatest'
  BY DEF Inv, TypeOK, Sound, StatusIsLatest

\* The requests, the server and applyConfiguration keep their types.
LEMMA RestTyped ==
    ASSUME TypeOK, [Next]_vars
    PROVE  /\ server' \in {"ok", "changed", "down"}
           /\ request' \in [Request -> {"free", "sent", "ok", "changed", "down"}]
           /\ applying' \in {"idle", "generate", "restart"}
  BY DEF TypeOK, Next, vars, CheckServerStatus, Answer, Receive, RequestFails,
         LogIn, LogOut, HearSession, ServerChanges, Feedback, EmailFails, TimerFires, Dismiss,
         ApplyConfiguration, Generated, Restarted, ApplyFails, Hear

LEMMA InvStep ==
    ASSUME Inv, [Next]_vars
    PROVE  Inv'
<1> SUFFICES
        /\ serverStatus' \in {"none", "ok", "changed", "down"} /\ loggedIn' \in BOOLEAN
        /\ lastKey' \in Persistent \cup {"none"}
        /\ banner' \in Banner
        /\ StatusIsLatest'
  BY RestTyped DEF Inv, TypeOK, Banner
<1>s. Sound(banner)
  BY InvSound
<1>1. CASE CheckServerStatus
  BY <1>1, OtherKeeps DEF CheckServerStatus
<1>2. ASSUME NEW r \in Request, Answer(r)
      PROVE  UNCHANGED <<serverStatus, loggedIn, lastKey, banner>>
  BY <1>2 DEF Answer
<1>3. ASSUME NEW r \in Request, Receive(r)
      PROVE  request[r] \in {"ok", "changed", "down"} /\ Hear(request[r], loggedIn)
  BY <1>3 DEF Receive, Inv, TypeOK
<1>4. CASE RequestFails \/ ApplyFails
  BY <1>4, HearKeeps DEF RequestFails, ApplyFails, Inv, TypeOK
<1>5. CASE LogIn \/ LogOut
  BY <1>5, HearKeeps DEF LogIn, LogOut, HearSession, Inv, TypeOK
<1>6. CASE Feedback \/ Generated \/ Restarted
  BY <1>6, <1>s, FeedbackSound, PageKeeps DEF Feedback, Generated, Restarted
<1>7. CASE EmailFails
  BY <1>7, <1>s, EmailFailureSound, PageKeeps DEF EmailFails
\* Only a transient message has a timer or a button.
<1>8. CASE TimerFires \/ Dismiss
  <2>1. banner.current \notin Persistent
    BY <1>8, <1>s DEF TimerFires, Dismiss, Sound, Persistent, Transient
  <2> QED
    BY <1>8, <2>1, <1>s, ClearSound, PageKeeps DEF TimerFires, Dismiss
<1>9. CASE ApplyConfiguration \/ ServerChanges \/ UNCHANGED vars
  BY <1>9, OtherKeeps DEF ApplyConfiguration, ServerChanges, vars
<1>10. CASE \E r \in Request : Answer(r)
  BY <1>2, <1>10, OtherKeeps
<1>11. CASE \E r \in Request : Receive(r)
  BY <1>3, <1>11, HearKeeps DEF Inv, TypeOK
<1> QED
  BY <1>1, <1>4, <1>5, <1>6, <1>7, <1>8, <1>9, <1>10, <1>11 DEF Next

LEMMA InitInv == Init => Inv
<1> SUFFICES ASSUME Init PROVE Inv
  OBVIOUS
<1>1. /\ banner.current = "none" /\ banner.status = "none"
      /\ ~banner.email /\ ~banner.timer
  BY DEF Init
<1>2. StatusBannerKey(serverStatus, loggedIn) = "none"
  BY DEF Init, StatusBannerKey
<1>3. StatusIsLatest
  BY <1>1, <1>2 DEF Init, StatusIsLatest, Persistent, Transient
<1>4. TypeOK
  BY DEF Init, TypeOK
<1> QED
  BY <1>3, <1>4 DEF Inv

\* Every state has its type, however many requests are under way.
THEOREM TypeCorrect == Spec => []TypeOK
<1>1. Inv /\ [Next]_vars => Inv'
  BY InvStep
<1>2. Inv => TypeOK
  BY DEF Inv
<1> QED
  BY <1>1, <1>2, InitInv, PTL DEF Spec

\* However answers, failures, sessions and clicks follow each other, the banner
\* and the status it may return to are what the component computed last
\* (NotificationService and syncStatusBanner).
THEOREM StatusStaysLatest == Spec => []StatusIsLatest
<1>1. Init => Inv
  BY InitInv
<1>2. Inv /\ [Next]_vars => Inv'
  BY InvStep
<1>3. Inv => StatusIsLatest
  BY DEF Inv
<1> QED
  BY <1>1, <1>2, <1>3, PTL DEF Spec

-----------------------------------------------------------------------------
(* The displaced status: the strengthening says where a status can hide     *)

\* A status is off the screen only behind an email failure, and the flag that
\* suppresses status banners is set only while that failure is on it.
Kept(b) ==
    /\ b.email <=> b.current = "email failure"
    /\ b.current \notin Persistent \cup {"email failure"} => b.status = "none"

LEMMA FeedbackKept ==
    ASSUME NEW b, Sound(b), Kept(b), b.current # "email failure"
    PROVE  Kept(Show(b, "feedback", FALSE))
<1>1. CASE b.current \in Persistent
  <2>1. Show(b, "feedback", FALSE) = b
    BY <1>1 DEF Show, Transient
  <2> QED
    BY <2>1
<1>2. CASE b.current \notin Persistent
  <2>1. /\ Show(b, "feedback", FALSE).current = "feedback"
        /\ Show(b, "feedback", FALSE).status = b.status
        /\ Show(b, "feedback", FALSE).email = b.email
    BY <1>2 DEF Show, Sound, Banner
  <2>2. b.status = "none" /\ ~b.email
    BY <1>2 DEF Kept, Sound, Banner
  <2> QED
    BY <2>1, <2>2 DEF Kept, Persistent
<1> QED
  BY <1>1, <1>2

LEMMA EmailFailureKept ==
    ASSUME NEW b, Sound(b)
    PROVE  Kept(ShowEmailDeliveryFailure(b))
<1>1. /\ ShowEmailDeliveryFailure(b).current = "email failure"
      /\ ShowEmailDeliveryFailure(b).email = TRUE
  BY DEF ShowEmailDeliveryFailure, Show, Sound, Banner, Persistent, Transient
<1> QED
  BY <1>1 DEF Kept

LEMMA ClearKept ==
    ASSUME NEW b, Sound(b), Kept(b), b.current \notin Persistent
    PROVE  Kept(Clear(b))
<1> DEFINE failure == b.email /\ b.current = "email failure"
           done == [b EXCEPT !.email = @ /\ ~failure, !.timer = FALSE]
<1>1. /\ done \in Banner
      /\ done.current = b.current /\ done.status = b.status /\ ~done.email
  BY DEF Sound, Banner, Kept
<1>2. CASE failure /\ b.status # "none"
  <2>1. Clear(b) = Show(done, b.status, FALSE)
    BY <1>2 DEF Clear
  <2>2. b.status \in Persistent /\ b.status \in Persistent \cup Transient
    BY <1>2 DEF Sound, Banner
  <2> HIDE DEF done
  <2>3. done.current \notin Persistent \/ b.status \in Persistent
    BY <2>2
  <2>4. /\ Show(done, b.status, FALSE).current = b.status
        /\ Show(done, b.status, FALSE).email = done.email
    BY <1>1, <2>2, <2>3, ShowFields, Zenon
  <2>5. b.status # "email failure"
    BY <2>2 DEF Persistent
  <2> QED
    BY <1>1, <2>1, <2>2, <2>4, <2>5 DEF Kept
<1>3. CASE ~(failure /\ b.status # "none")
  <2>1. Clear(b) = [done EXCEPT !.current = "none"]
    BY <1>3 DEF Clear
  <2>2. b.status = "none"
    BY <1>3 DEF Kept
  <2> HIDE DEF done
  <2>3. /\ Clear(b).current = "none" /\ Clear(b).status = "none" /\ ~Clear(b).email
    BY <1>1, <2>1, <2>2 DEF Banner
  <2> QED
    BY <2>3 DEF Kept
<1> QED
  BY <1>2, <1>3

LEMMA ShowStatusKept ==
    ASSUME NEW b, Sound(b), Kept(b), NEW n \in Persistent
    PROVE  Kept(ShowStatus(b, n))
<1> DEFINE kept == [b EXCEPT !.status = n]
<1>1. /\ kept \in Banner
      /\ kept.current = b.current /\ kept.status = n /\ kept.email = b.email
  BY DEF Sound, Banner
<1>2. ShowStatus(b, n) = IF b.email THEN kept ELSE Show(kept, n, FALSE)
  BY DEF ShowStatus
<1> HIDE DEF kept
<1>3. CASE b.email
  BY <1>1, <1>2, <1>3 DEF Kept
<1>4. CASE ~b.email
  <2>1. /\ Show(kept, n, FALSE).current = n
        /\ Show(kept, n, FALSE).email = b.email
    BY <1>1, ShowFields, Zenon
  <2>2. n # "email failure"
    BY DEF Persistent
  <2> QED
    BY <1>2, <1>4, <2>1, <2>2 DEF Kept
<1> QED
  BY <1>3, <1>4

LEMMA ClearStatusKept ==
    ASSUME NEW b, Sound(b), Kept(b)
    PROVE  Kept(ClearStatus(b))
<1>1. ClearStatus(b).status = "none"
  BY ClearStatusSound
<1>2. CASE b.current \in Persistent
  <2>1. ClearStatus(b).current = "none" /\ ~ClearStatus(b).email
    BY <1>2 DEF ClearStatus, Clear, Sound, Banner, Persistent
  <2> QED
    BY <1>1, <2>1 DEF Kept
<1>3. CASE b.current \notin Persistent
  <2>1. ClearStatus(b).current = b.current /\ ClearStatus(b).email = b.email
    BY <1>3 DEF ClearStatus, Sound, Banner
  <2> QED
    BY <1>1, <2>1 DEF Kept
<1> QED
  BY <1>2, <1>3

LEMMA SyncKept ==
    ASSUME NEW b, Sound(b), Kept(b), NEW key \in Persistent \cup {"none"}
    PROVE  Kept(SyncStatusBanner(b, b.status, key))
  BY ShowStatusKept, ClearStatusKept DEF SyncStatusBanner

LEMMA KeptStep ==
    ASSUME ~Overlap, Inv, Kept(banner), [Next]_vars
    PROVE  Kept(banner')
<1>s. Sound(banner)
  BY InvSound
<1>1. ASSUME NEW status, NEW in, Hear(status, in)
      PROVE  Kept(banner')
  <2> DEFINE key == StatusBannerKey(status, in)
  <2>1. key \in Persistent \cup {"none"}
    BY KeyType
  <2>2. banner' = SyncStatusBanner(banner, banner.status, key)
    BY <1>1 DEF Hear, Inv, StatusIsLatest
  <2> HIDE DEF key
  <2> QED
    BY <1>s, <2>1, <2>2, SyncKept
<1>2. CASE \/ RequestFails \/ ApplyFails \/ LogIn \/ LogOut
           \/ \E r \in Request : Receive(r)
  BY <1>1, <1>2 DEF RequestFails, ApplyFails, LogIn, LogOut, HearSession, Receive
\* The only step that needs the assumption.
<1>3. CASE Feedback \/ Generated \/ Restarted
  BY <1>3, <1>s, FeedbackKept
     DEF Feedback, Generated, Restarted, FeedbackAllowed
<1>4. CASE EmailFails
  BY <1>4, <1>s, EmailFailureKept DEF EmailFails
<1>5. CASE TimerFires \/ Dismiss
  <2>1. banner.current \notin Persistent
    BY <1>5, <1>s DEF TimerFires, Dismiss, Sound, Persistent, Transient
  <2> QED
    BY <1>5, <2>1, <1>s, ClearKept DEF TimerFires, Dismiss
<1>6. CASE \/ CheckServerStatus \/ ApplyConfiguration \/ ServerChanges
           \/ UNCHANGED vars \/ \E r \in Request : Answer(r)
  BY <1>6 DEF CheckServerStatus, ApplyConfiguration, ServerChanges, vars, Answer
<1> QED
  BY <1>2, <1>3, <1>4, <1>5, <1>6 DEF Next

\* While no other message replaces an email failure, the status it displaced is
\* never lost: an empty banner means there is no status to show (clear()).
THEOREM DisplacedStatusComesBack ==
    ASSUME ~Overlap
    PROVE  Spec => []DisplacedStatusReturns
<1> DEFINE KInv == Inv /\ Kept(banner)
<1>1. Init => KInv
  BY InitInv DEF Init, Kept
<1>2. KInv /\ [Next]_vars => KInv'
  BY InvStep, KeptStep
<1>3. KInv => DisplacedStatusReturns
  BY DEF Kept, DisplacedStatusReturns, Persistent
<1> QED
  BY <1>1, <1>2, <1>3, PTL DEF Spec

-----------------------------------------------------------------------------
(* The service and the component as two layers                              *)

Message(b) == IF b.current \in Transient THEN b.current ELSE "none"

\* The screen shows the upper layer.
LEMMA ScreenLayers ==
    ASSUME NEW b, Sound(b), Kept(b)
    PROVE  b.current = IF Message(b) # "none" THEN Message(b) ELSE b.status
  BY DEF Sound, Kept, Message, Banner, Persistent, Transient

\* What a status does to the message on top of it.
LEMMA SyncMessage ==
    ASSUME NEW b, Sound(b), Kept(b), NEW key \in Persistent \cup {"none"}
    PROVE  Message(SyncStatusBanner(b, b.status, key))
             = IF Message(b) = "feedback" /\ key # "none" THEN "none" ELSE Message(b)
<1> DEFINE kept == [b EXCEPT !.status = key]
           next == SyncStatusBanner(b, b.status, key)
<1>1. /\ kept \in Banner
      /\ kept.current = b.current /\ kept.status = key
      /\ kept.email = b.email /\ kept.timer = b.timer
  BY DEF Sound, Banner, Persistent, Transient
<1>2. CASE key = b.status /\ ~b.email
  <2>1. next = b
    BY <1>2 DEF SyncStatusBanner
  <2>2. Message(b) = "feedback" => key = "none"
    BY <1>2 DEF Kept, Message, Persistent
  <2> QED
    BY <2>1, <2>2
<1>3. CASE ~(key = b.status /\ ~b.email) /\ key = "none"
  <2>1. next = ClearStatus(b)
    BY <1>3 DEF SyncStatusBanner
  <2>2. CASE b.current \in Persistent
    <3>1. next.current = "none"
      BY <2>1, <2>2 DEF ClearStatus, Clear, Sound, Banner, Persistent
    <3> QED
      BY <1>3, <2>2, <3>1 DEF Message, Persistent, Transient
  <2>3. CASE b.current \notin Persistent
    <3>1. next = kept
      BY <1>3, <2>1, <2>3 DEF ClearStatus
    <3> HIDE DEF kept
    <3> QED
      BY <1>1, <1>3, <3>1 DEF Message
  <2> QED
    BY <2>2, <2>3
<1>4. CASE ~(key = b.status /\ ~b.email) /\ key # "none"
  <2>1. next = IF b.email THEN kept ELSE Show(kept, key, FALSE)
    BY <1>4 DEF SyncStatusBanner, ShowStatus
  <2>2. CASE b.email
    <3>1. next = kept /\ b.current = "email failure"
      BY <2>1, <2>2 DEF Kept
    <3> HIDE DEF kept
    <3> QED
      BY <1>1, <3>1 DEF Message
  <2>3. CASE ~b.email
    <3>1. next = Show(kept, key, FALSE) /\ key \in Persistent
      BY <1>4, <2>1, <2>3
    <3> HIDE DEF kept
    <3>2. next.current = key
      <4>1. key \in Persistent \cup Transient /\ (kept.current \notin Persistent \/ key \in Persistent)
        BY <3>1
      <4>2. Show(kept, key, FALSE).current = key
        BY <1>1, <4>1, ShowFields, Zenon
      <4> QED
        BY <3>1, <4>2
    <3>3. b.current # "email failure"
      BY <2>3 DEF Kept
    <3> QED
      BY <3>1, <3>2, <3>3, <1>4 DEF Message, Persistent, Transient
  <2> QED
    BY <2>2, <2>3
<1> QED
  BY <1>2, <1>3, <1>4

\* Clearing a message leaves none.
LEMMA ClearMessage ==
    ASSUME NEW b, Sound(b), b.current \notin Persistent
    PROVE  Message(Clear(b)) = "none"
<1> DEFINE failure == b.email /\ b.current = "email failure"
           done == [b EXCEPT !.email = @ /\ ~failure, !.timer = FALSE]
<1>1. done \in Banner /\ done.current = b.current
  BY DEF Sound, Banner
<1>2. CASE failure /\ b.status # "none"
  <2>1. Clear(b) = Show(done, b.status, FALSE)
    BY <1>2 DEF Clear
  <2>2. b.status \in Persistent /\ b.status \in Persistent \cup Transient
    BY <1>2 DEF Sound, Banner
  <2> HIDE DEF done
  <2>3. done.current \notin Persistent \/ b.status \in Persistent
    BY <2>2
  <2>4. Show(done, b.status, FALSE).current = b.status
    BY <1>1, <2>2, <2>3, ShowFields, Zenon
  <2> QED
    BY <2>1, <2>2, <2>4 DEF Message, Persistent, Transient
<1>3. CASE ~(failure /\ b.status # "none")
  <2>1. Clear(b) = [done EXCEPT !.current = "none"]
    BY <1>3 DEF Clear
  <2> HIDE DEF done
  <2>2. Clear(b).current = "none"
    BY <1>1, <2>1 DEF Banner
  <2> QED
    BY <2>2 DEF Message, Transient
<1> QED
  BY <1>2, <1>3

LEMMA LayersStep ==
    ASSUME ~Overlap, Inv, Kept(banner), Inv', Kept(banner'), [Next]_vars
    PROVE  [Layers!Next]_Layers!vars
<1>s. Sound(banner) /\ banner.status = lastKey /\ Sound(banner') /\ banner'.status = lastKey'
  <2>1. Sound(banner)
    BY InvSound
  <2>2. Sound(banner')
    BY DEF Inv, TypeOK, StatusIsLatest, Sound, Banner
  <2> QED
    BY <2>1, <2>2 DEF Inv, StatusIsLatest
<1>m. (Message(banner))' = Message(banner')
  BY DEF Message, Transient
<1>n. banner'.current = IF Message(banner') # "none" THEN Message(banner') ELSE lastKey'
  BY <1>s, ScreenLayers
<1>k. lastKey' \in {"error", "regenerate", "none"}
  BY DEF Inv, TypeOK, Persistent
<1>1. ASSUME NEW st, NEW in, Hear(st, in)
      PROVE  Layers!Next
  <2>1. banner' = SyncStatusBanner(banner, banner.status, lastKey')
    BY <1>1, <1>s DEF Hear
  <2>2. lastKey' \in Persistent \cup {"none"}
    BY DEF Inv, TypeOK
  <2>3. Message(banner') = IF Message(banner) = "feedback" /\ lastKey' # "none" THEN "none"
                           ELSE Message(banner)
    BY <1>s, <2>1, <2>2, SyncMessage
  <2> QED
    BY <1>n, <1>k, <2>3
       DEF Layers!Next, Layers!SetStatus, Layers!Shown, Layers!Statuses, Message
<1>2. CASE \/ RequestFails \/ ApplyFails \/ LogIn \/ LogOut
           \/ \E r \in Request : Receive(r)
  BY <1>1, <1>2 DEF RequestFails, ApplyFails, LogIn, LogOut, HearSession, Receive
<1>3. CASE Feedback \/ Generated \/ Restarted
  <2>1. banner' = Show(banner, "feedback", FALSE) /\ lastKey' = lastKey
        /\ banner.current # "email failure"
    BY <1>3 DEF Feedback, Generated, Restarted, FeedbackAllowed
  <2>2. CASE banner.current \in Persistent
    <3>1. banner' = banner
      BY <2>1, <2>2 DEF Show, Transient
    <3> QED
      BY <2>1, <3>1 DEF Layers!vars
  <2>3. CASE banner.current \notin Persistent
    <3>1. banner'.current = "feedback"
      BY <1>s, <2>1, <2>3 DEF Show, Sound, Banner
    <3>2. lastKey = "none"
      BY <1>s, <2>1, <2>3 DEF Kept
    <3>3. Message(banner') = "feedback" /\ Message(banner) # "email failure"
      BY <2>1, <3>1 DEF Message, Transient
    <3> QED
      BY <1>n, <2>1, <3>2, <3>3 DEF Layers!Next, Layers!ShowFeedback, Layers!Shown, Message
  <2> QED
    BY <2>2, <2>3
<1>4. CASE EmailFails
  <2>1. lastKey' = lastKey /\ banner'.current = "email failure"
    BY <1>4, <1>s DEF EmailFails, ShowEmailDeliveryFailure, Show, Sound, Banner, Persistent,
       Transient
  <2>2. Message(banner') = "email failure"
    BY <2>1 DEF Message, Transient
  <2> QED
    BY <1>n, <2>1, <2>2 DEF Layers!Next, Layers!ShowEmailFailure, Layers!Shown, Message
<1>5. CASE TimerFires \/ Dismiss
  <2>1. banner.current \in Transient /\ banner.current \notin Persistent
    BY <1>5, <1>s DEF TimerFires, Dismiss, Sound, Persistent, Transient
  <2>2. banner' = Clear(banner) /\ lastKey' = lastKey
    BY <1>5 DEF TimerFires, Dismiss
  <2>3. Message(banner') = "none" /\ Message(banner) # "none"
    BY <1>s, <2>1, <2>2, ClearMessage DEF Message, Transient
  <2> QED
    BY <1>n, <2>2, <2>3 DEF Layers!Next, Layers!EndMessage, Layers!Shown, Message
<1>6. CASE \/ CheckServerStatus \/ ApplyConfiguration \/ ServerChanges
           \/ UNCHANGED vars \/ \E r \in Request : Answer(r)
  <2>1. UNCHANGED <<banner, lastKey>>
    BY <1>6 DEF CheckServerStatus, ApplyConfiguration, ServerChanges, vars, Answer
  <2> QED
    BY <2>1 DEF Layers!vars
<1> QED
  BY <1>2, <1>3, <1>4, <1>5, <1>6 DEF Next

\* While feedback does not interrupt an email failure, the banner is the two
\* layers that BannerLayers describes, for any number of status requests under
\* way (NotificationService, syncStatusBanner).
THEOREM BannerImplementsLayers ==
    ASSUME ~Overlap
    PROVE  Spec => ImplementsLayers
<1> DEFINE KInv == Inv /\ Kept(banner)
<1>1. Init => KInv
  BY InitInv DEF Init, Kept
<1>2. KInv /\ [Next]_vars => KInv'
  BY InvStep, KeptStep
<1>3. Init => Layers!Init
  BY DEF Init, Layers!Init, Transient
<1>4. KInv /\ KInv' /\ [Next]_vars => [Layers!Next]_Layers!vars
  BY LayersStep
<1> QED
  BY <1>1, <1>2, <1>3, <1>4, PTL DEF Spec, ImplementsLayers, Layers!Spec

-----------------------------------------------------------------------------
(* No poll is stuck.  ENABLED <<A>>_vars says that there are next values of    *)
(* the variables with which <<A>>_vars holds; the prover does not expand       *)
(* ENABLED, so SentAs, AnsweredAs and ReceivedAs name such values of the       *)
(* variables that change, the LeadsTo lemmas show that they are a step, and    *)
(* PollsNeverStuck that they exist.                                            *)

SentAs(r, q) == request[r] = "free" /\ q = [request EXCEPT ![r] = "sent"]

AnsweredAs(r, q) == request[r] = "sent" /\ q = [request EXCEPT ![r] = server]

ReceivedAs(r, q, status, key, b) ==
    /\ request[r] \notin {"free", "sent"}
    /\ q = [request EXCEPT ![r] = "free"]
    /\ status = request[r]
    /\ key = StatusBannerKey(status, loggedIn)
    /\ b = SyncStatusBanner(banner, lastKey, key)

LEMMA SentLeadsTo ==
    ASSUME TypeOK, NEW r \in Request, SentAs(r, request'),
           UNCHANGED <<server, serverStatus, loggedIn, lastKey, banner, applying>>
    PROVE  <<CheckServerStatus>>_vars
<1>1. CheckServerStatus
  BY DEF SentAs, CheckServerStatus
<1>2. request'[r] # request[r]
  BY DEF SentAs, TypeOK
<1> QED
  BY <1>1, <1>2 DEF vars

LEMMA AnsweredLeadsTo ==
    ASSUME TypeOK, NEW r \in Request, AnsweredAs(r, request'),
           UNCHANGED <<server, serverStatus, loggedIn, lastKey, banner, applying>>
    PROVE  <<Answer(r)>>_vars
<1>1. request'[r] # request[r]
  BY DEF AnsweredAs, TypeOK
<1> QED
  BY <1>1 DEF AnsweredAs, Answer, vars

LEMMA ReceivedLeadsTo ==
    ASSUME TypeOK, NEW r \in Request,
           ReceivedAs(r, request', serverStatus', lastKey', banner'),
           UNCHANGED <<server, loggedIn, applying>>
    PROVE  <<Receive(r)>>_vars
<1>1. Receive(r)
  BY DEF ReceivedAs, Receive, Hear
<1>2. request'[r] # request[r]
  BY DEF ReceivedAs, TypeOK
<1> QED
  BY <1>1, <1>2 DEF vars

CanAnswer(r) == ENABLED <<Answer(r)>>_vars

CanReceive(r) == ENABLED <<Receive(r)>>_vars

NeverStuck ==
    /\ (\E r \in Request : request[r] = "free") => ENABLED <<CheckServerStatus>>_vars
    /\ \A r \in Request : request[r] = "sent" => CanAnswer(r)
    /\ \A r \in Request : request[r] \notin {"free", "sent"} => CanReceive(r)

\* What the meaning of ENABLED makes of the LeadsTo lemmas.
PollsCan ==
    TypeOK => /\ (\E r \in Request : \E q : SentAs(r, q)) => ENABLED <<CheckServerStatus>>_vars
              /\ \A r \in Request :
                    /\ (\E q : AnsweredAs(r, q)) => CanAnswer(r)
                    /\ (\E q, status, key, b : ReceivedAs(r, q, status, key, b)) => CanReceive(r)

\* Whatever is on screen and whoever is logged in, a free request is sent, a sent
\* one answered and every answer taken (app.ts, webapi.service.ts).
LEMMA PollsNeverStuck == Spec /\ []PollsCan => []NeverStuck
<1>1. TypeOK /\ PollsCan => NeverStuck
  <2> SUFFICES ASSUME TypeOK, PollsCan
               PROVE  NeverStuck
    OBVIOUS
  <2>1. (\E r \in Request : request[r] = "free") => \E r \in Request : \E q : SentAs(r, q)
    BY DEF SentAs
  <2>2. ASSUME NEW r \in Request
        PROVE  /\ request[r] = "sent" => \E q : AnsweredAs(r, q)
               /\ request[r] \notin {"free", "sent"}
                     => \E q, status, key, b : ReceivedAs(r, q, status, key, b)
    BY DEF AnsweredAs, ReceivedAs
  <2> QED
    BY <2>1, <2>2 DEF PollsCan, NeverStuck
<1> QED
  BY <1>1, TypeCorrect, PTL

-----------------------------------------------------------------------------
(* The status converges.  []Deliveries is Deliveries, but the prover cannot    *)
(* exchange [] and the \A of Deliveries.                                       *)

SomeFree == \E r \in Request : request[r] = "free"
SomeSent == \E r \in Request : request[r] = "sent"

Polls == SomeFree ~> SomeSent

\* From some time on: the server keeps its state, the user the session.
Quiet(s, in) == server = s /\ loggedIn = in

Settled(s, in) ==
    /\ []TypeOK /\ []NeverStuck /\ [][Next]_vars
    /\ []Quiet(s, in)

\* What FairSpec says of the polls, from any time on.
Scheduled == Polled /\ []Deliveries

Comes(s, in) == <>(lastKey = StatusBannerKey(s, in))

\* What a step does to one request.
LEMMA RequestStep ==
    ASSUME TypeOK, [Next]_vars, NEW r \in Request
    PROVE  /\ request[r] = "free" => request'[r] \in {"free", "sent"}
           /\ request[r] = "sent" => request'[r] \in {"sent", server}
           /\ request[r] \notin {"free", "sent"}
                => request'[r] = request[r] \/ (Receive(r) /\ request'[r] = "free")
<1>1. ASSUME NEW q \in Request, NEW v, request' = [request EXCEPT ![q] = v]
      PROVE  request'[r] = IF q = r THEN v ELSE request[r]
  BY <1>1 DEF TypeOK
<1>2. CASE CheckServerStatus \/ Restarted
  <2>1. PICK q \in Request : request[q] = "free" /\ request' = [request EXCEPT ![q] = "sent"]
    BY <1>2 DEF CheckServerStatus, Restarted
  <2> QED
    BY <1>1, <2>1
<1>3. CASE \E q \in Request : Answer(q)
  <2>1. PICK q \in Request : request[q] = "sent" /\ request' = [request EXCEPT ![q] = server]
    BY <1>3 DEF Answer
  <2> QED
    BY <1>1, <2>1
<1>4. CASE \E q \in Request : Receive(q)
  <2>1. PICK q \in Request : Receive(q)
    BY <1>4
  <2>2. request[q] \notin {"free", "sent"} /\ request' = [request EXCEPT ![q] = "free"]
    BY <2>1 DEF Receive
  <2> QED
    BY <1>1, <2>1, <2>2
<1>5. CASE request' = request
  BY <1>5
<1> QED
  BY <1>2, <1>3, <1>4, <1>5
     DEF Next, RequestFails, LogIn, LogOut, HearSession, ServerChanges, Feedback, EmailFails,
         TimerFires, Dismiss, ApplyConfiguration, Generated, ApplyFails, vars

\* A request that is sent while the server keeps its state brings that state.
LEMMA SentBringsStatus ==
    ASSUME NEW s \in {"ok", "changed", "down"}, NEW in \in BOOLEAN, NEW r \in Request
    PROVE  Settled(s, in) /\ Delivered(r)
           => (request[r] = "sent" => <>(lastKey = StatusBannerKey(s, in)))
<1> DEFINE Right == lastKey = StatusBannerKey(s, in)
<1>1. TypeOK /\ Quiet(s, in) /\ request[r] = "sent" /\ [Next]_vars
      => (request[r] = "sent")' \/ (request[r] = s)'
  BY RequestStep DEF Quiet
<1>2. TypeOK /\ Quiet(s, in) /\ <<Answer(r)>>_vars => (request[r] = s)'
  BY DEF Answer, TypeOK, Quiet
<1>3. NeverStuck /\ request[r] = "sent" => ENABLED <<Answer(r)>>_vars
  BY DEF NeverStuck, CanAnswer
<1>4. TypeOK /\ Quiet(s, in) /\ request[r] = s /\ [Next]_vars
      => (request[r] = s)' \/ Right'
  BY RequestStep DEF Receive, Hear, Quiet
<1>5. TypeOK /\ Quiet(s, in) /\ request[r] = s /\ <<Receive(r)>>_vars => Right'
  BY DEF Receive, Hear, Quiet
<1>6. NeverStuck /\ request[r] = s => ENABLED <<Receive(r)>>_vars
  BY DEF NeverStuck, CanReceive
<1> HIDE DEF Right
<1>7. Settled(s, in) /\ Delivered(r) => (request[r] = "sent" ~> request[r] = s)
  BY <1>1, <1>2, <1>3, PTL DEF Settled, Delivered
<1>8. Settled(s, in) /\ Delivered(r) => (request[r] = s ~> Right)
  BY <1>4, <1>5, <1>6, PTL DEF Settled, Delivered
<1> QED
  BY <1>7, <1>8, PTL DEF Right

\* The component takes every answer, however old, and the request is free again.
LEMMA AnswerTaken ==
    ASSUME NEW s, NEW in, NEW r \in Request
    PROVE  Settled(s, in) /\ Delivered(r)
           => (request[r] \notin {"free", "sent"} => <>SomeFree)
<1> DEFINE Answered == request[r] \notin {"free", "sent"}
<1>1. TypeOK /\ Answered /\ [Next]_vars => Answered' \/ SomeFree'
  BY RequestStep DEF SomeFree
<1>2. TypeOK /\ Answered /\ <<Receive(r)>>_vars => SomeFree'
  BY DEF Receive, TypeOK, SomeFree
<1>3. NeverStuck /\ Answered => ENABLED <<Receive(r)>>_vars
  BY DEF NeverStuck, CanReceive
<1> HIDE DEF Answered
<1>4. Settled(s, in) /\ Delivered(r) => (Answered => <>SomeFree)
  BY <1>1, <1>2, <1>3, PTL DEF Settled, Delivered
<1> QED
  BY <1>4 DEF Answered

\* The interval timer sends a free request.
LEMMA FreeIsSent ==
    ASSUME NEW s, NEW in
    PROVE  Settled(s, in) /\ Polled => Polls
<1>1. TypeOK /\ SomeFree /\ [Next]_vars => SomeFree' \/ SomeSent'
  <2> SUFFICES ASSUME TypeOK, SomeFree, [Next]_vars
               PROVE  SomeFree' \/ SomeSent'
    OBVIOUS
  <2>1. PICK r \in Request : request[r] = "free"
    BY DEF SomeFree
  <2>2. request'[r] \in {"free", "sent"}
    BY <2>1, RequestStep
  <2> QED
    BY <2>2 DEF SomeFree, SomeSent
<1>2. TypeOK /\ <<CheckServerStatus>>_vars => SomeSent'
  BY DEF CheckServerStatus, TypeOK, SomeSent
<1>3. NeverStuck /\ SomeFree => ENABLED <<CheckServerStatus>>_vars
  BY DEF NeverStuck, SomeFree
<1> QED
  BY <1>1, <1>2, <1>3, PTL DEF Settled, Polls, Polled

\* Whatever the requests are doing: there is one that will bring the status.
LEMMA StatusComes ==
    ASSUME NEW s \in {"ok", "changed", "down"}, NEW in \in BOOLEAN, Request # {}
    PROVE  Settled(s, in) /\ Scheduled
           => Comes(s, in)
<1> DEFINE Right == lastKey = StatusBannerKey(s, in)
<1>1. Settled(s, in) /\ []Deliveries => (SomeSent => <>Right)
  <2> SUFFICES ASSUME Settled(s, in), []Deliveries, SomeSent
               PROVE  <>Right
    OBVIOUS
  <2>1. Deliveries
    BY PTL
  <2>2. PICK r \in Request : request[r] = "sent"
    BY DEF SomeSent
  <2>3. Delivered(r)
    BY <2>1 DEF Deliveries
  <2>4. Settled(s, in) /\ Delivered(r) => (request[r] = "sent" => <>Right)
    BY SentBringsStatus
  <2> QED
    BY <2>2, <2>3, <2>4, PTL
<1>2. Settled(s, in) /\ []Deliveries => <>(SomeFree \/ SomeSent)
  <2> SUFFICES ASSUME Settled(s, in), []Deliveries, ~SomeFree, ~SomeSent
               PROVE  <>SomeFree
    BY PTL
  <2>1. Deliveries
    BY PTL
  <2>2. PICK r \in Request : request[r] \notin {"free", "sent"}
    BY DEF SomeFree, SomeSent
  <2>3. Delivered(r)
    BY <2>1 DEF Deliveries
  <2>4. Settled(s, in) /\ Delivered(r) => (request[r] \notin {"free", "sent"} => <>SomeFree)
    BY AnswerTaken
  <2> QED
    BY <2>2, <2>3, <2>4, PTL
<1>3. Settled(s, in) /\ Polled => Polls
  BY FreeIsSent
<1> HIDE DEF Right
<1>4. Settled(s, in) /\ Scheduled => <>Right
  BY <1>1, <1>2, <1>3, PTL DEF Settled, Polls, Scheduled
<1> QED
  BY <1>4, PTL DEF Right, Comes

\* Once the server keeps its state and the user the session, the computed status
\* is right again and again, for any number of requests under way and whatever
\* else fails or is clicked.
THEOREM TheStatusConverges ==
    ASSUME Request # {}
    PROVE  FairSpec /\ []Deliveries /\ []PollsCan => StatusConverges
<1>1. FairSpec /\ []PollsCan => []TypeOK /\ []NeverStuck
  BY TypeCorrect, PollsNeverStuck, PTL DEF FairSpec
<1>2. ASSUME NEW s \in {"ok", "changed", "down"}, NEW in \in BOOLEAN
      PROVE  FairSpec /\ []Deliveries /\ []PollsCan => Converges(s, in)
  <2>1. Settled(s, in) /\ Scheduled
        => Comes(s, in)
    BY StatusComes
  <2> QED
    BY <1>1, <2>1, PTL DEF FairSpec, Spec, Settled, Converges, Quiet, Comes,
       Scheduled, Polled
<1> QED
  BY <1>2 DEF StatusConverges

==============================================================================
