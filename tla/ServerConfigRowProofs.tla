------------------------ MODULE ServerConfigRowProofs ------------------------
(***************************************************************************)
(* What interleaved saves of the whole row cannot break, for any number of *)
(* threads, pages and tokens: the row written is one that some request     *)
(* checked as a whole.  With one thread, a revoked token stays revoked.    *)
(***************************************************************************)
EXTENDS ServerConfigRow, TLAPS

\* The instances in which user and password are kept together.
Paired ==
    /\ ~PasswordAlone
    /\ \A o \in Overrides : "user" \in o <=> "password" \in o

\* The instances in which no environment turns on a security mode.
Unsecured == \A o \in Overrides : o \cap {"tls", "ssl"} = {}

\* What is true of the row in the database and of each row in memory.  top bounds
\* the tokens; with up, a row that is switched on, or forced on by the
\* environment, has a token.
Sound(r, top, up, forced) ==
    /\ r \in Rows
    /\ r.token <= top
    /\ Unsecured => ~(r.email.tls /\ r.email.ssl)
    /\ Paired => (r.email.user = "name" <=> r.email.password)
    /\ up /\ (forced \/ r.enabled) => r.token # NoToken

Forced == env.switch = "true"
Closed == \A p \in Page : page[p] = "closed"
Up == phase = "up" /\ Closed

Inv ==
    /\ issued \in 0 .. MaxTokens
    /\ page \in [Page -> {"closed", "on", "off"}]
    /\ env \in Environment
    /\ phase \in {"config", "switch", "token", "up"}
    /\ job \in [Worker -> [pc : {"idle", "loaded", "again"}, copy : Rows]]
    /\ Sound(row, issued, Up, Forced)
    /\ \A w \in Worker : job[w] = Idle \/ Sound(job[w].copy, issued, Up, Forced)
    /\ phase # "up" => \A w \in Worker : job[w] = Idle
    /\ phase = "token" /\ env.switch # "unset" => row.enabled = Forced

-----------------------------------------------------------------------------
(* Rows *)

LEMMA FreshIsSound == FreshRow \in Rows /\ Idle.copy = FreshRow /\ Idle.pc = "idle"
  BY TokensAssumption DEF FreshRow, FreshEmail, Rows, Email, NoToken, Idle

\* A changed column, and the others.
LEMMA SwitchColumn ==
    ASSUME NEW r \in Rows, NEW on \in BOOLEAN
    PROVE  /\ [r EXCEPT !.enabled = on] \in Rows
           /\ [r EXCEPT !.enabled = on].enabled = on
           /\ [r EXCEPT !.enabled = on].token = r.token
           /\ [r EXCEPT !.enabled = on].email = r.email
  BY DEF Rows

LEMMA TokenColumn ==
    ASSUME NEW r \in Rows, issued \in 0 .. MaxTokens, issued < MaxTokens
    PROVE  /\ WithNewToken(r) \in Rows
           /\ WithNewToken(r).enabled = r.enabled
           /\ WithNewToken(r).token = issued + 1
           /\ WithNewToken(r).email = r.email
  BY TokensAssumption DEF Rows, WithNewToken

LEMMA EmailColumn ==
    ASSUME NEW r \in Rows, NEW e \in Email
    PROVE  /\ [r EXCEPT !.email = e] \in Rows
           /\ [r EXCEPT !.email = e].enabled = r.enabled
           /\ [r EXCEPT !.email = e].token = r.token
           /\ [r EXCEPT !.email = e].email = e
  BY DEF Rows

\* More tokens, or less that is demanded, leave a row sound.
LEMMA SoundStays ==
    ASSUME NEW r, NEW t \in Nat, NEW t2 \in Nat, NEW u \in BOOLEAN, NEW u2 \in BOOLEAN,
           NEW f \in BOOLEAN, Sound(r, t, u, f), t <= t2, u2 => u
    PROVE  Sound(r, t2, u2, f)
  BY DEF Sound, Rows

\* One request switches, or puts a new token into, a sound row.
LEMMA SoundSwitchedOff ==
    ASSUME NEW r, NEW t \in Nat, NEW u \in BOOLEAN, NEW f \in BOOLEAN, Sound(r, t, u, f)
    PROVE  Sound([r EXCEPT !.enabled = FALSE], t, u, f)
<1> DEFINE q == [r EXCEPT !.enabled = FALSE]
<1>1. q \in Rows /\ ~q.enabled /\ q.token = r.token /\ q.email = r.email
  BY SwitchColumn, r \in Rows DEF Sound
<1> HIDE DEF q
<1>2. Sound(q, t, u, f)
  BY <1>1 DEF Sound
<1> QED
  BY <1>2 DEF q

LEMMA SoundSwitchedOn ==
    ASSUME NEW r, NEW t \in Nat, NEW u \in BOOLEAN, NEW f \in BOOLEAN, Sound(r, t, u, f),
           r.token # NoToken
    PROVE  Sound([r EXCEPT !.enabled = TRUE], t, u, f)
<1> DEFINE q == [r EXCEPT !.enabled = TRUE]
<1>1. q \in Rows /\ q.token = r.token /\ q.email = r.email
  BY SwitchColumn, r \in Rows DEF Sound
<1> HIDE DEF q
<1>2. Sound(q, t, u, f)
  BY <1>1 DEF Sound
<1> QED
  BY <1>2 DEF q

LEMMA SoundWithToken ==
    ASSUME NEW r \in Rows, NEW u \in BOOLEAN, NEW f \in BOOLEAN,
           issued \in 0 .. MaxTokens, issued < MaxTokens,
           Unsecured => ~(r.email.tls /\ r.email.ssl),
           Paired => (r.email.user = "name" <=> r.email.password)
    PROVE  Sound(WithNewToken(r), issued + 1, u, f) /\ WithNewToken(r).token # NoToken
<1> DEFINE q == WithNewToken(r)
<1>1. q \in Rows /\ q.token = issued + 1 /\ q.email = r.email
  BY TokenColumn
<1> HIDE DEF q
<1>2. issued + 1 # NoToken /\ issued + 1 <= issued + 1
  BY TokensAssumption DEF NoToken
<1>3. Sound(q, issued + 1, u, f) /\ q.token # NoToken
  BY <1>1, <1>2 DEF Sound
<1> QED
  BY <1>3 DEF q

-----------------------------------------------------------------------------
(* Saves *)

\* Tokens only grow in number, and what is served stays.
Later ==
    /\ phase = "up"
    /\ issued' \in issued .. MaxTokens
    /\ UNCHANGED <<page, env, phase>>

LEMMA FlagsBoolean ==
    ASSUME Inv
    PROVE  Up \in BOOLEAN /\ Forced \in BOOLEAN /\ issued \in Nat /\ env.switch \in Switch
  BY TokensAssumption DEF Inv, Up, Forced, Environment, Switch

LEMMA OthersStay ==
    ASSUME Inv, Later, NEW v \in Worker
    PROVE  /\ job[v] = Idle \/ Sound(job[v].copy, issued', Up, Forced)
           /\ Sound(row, issued', Up, Forced)
           /\ Up' = Up /\ Forced' = Forced
<1>1. Up \in BOOLEAN /\ Forced \in BOOLEAN /\ issued \in Nat
  BY FlagsBoolean
<1>2. issued' \in Nat /\ issued <= issued'
  BY <1>1, TokensAssumption DEF Later
<1>3. job[v] = Idle \/ Sound(job[v].copy, issued, Up, Forced)
  BY DEF Inv
<1>4. Sound(row, issued, Up, Forced)
  BY DEF Inv
<1>5. Up' = Up /\ Forced' = Forced
  BY DEF Later, Up, Forced, Closed
<1> QED
  BY <1>1, <1>2, <1>3, <1>4, <1>5, SoundStays

\* A sound row is saved and the request is over, or goes on with a sound one.
LEMMA Saved ==
    ASSUME Inv, Later, NEW w \in Worker, NEW r, NEW j,
           Sound(r, issued', Up, Forced), row' = r,
           j \in [pc : {"idle", "loaded", "again"}, copy : Rows],
           j = Idle \/ Sound(j.copy, issued', Up, Forced),
           job' = [job EXCEPT ![w] = j]
    PROVE  Inv'
<1>1. /\ issued' \in 0 .. MaxTokens
      /\ (page \in [Page -> {"closed", "on", "off"}])'
      /\ (env \in Environment)'
      /\ phase' = "up"
  <2>1. issued \in 0 .. MaxTokens /\ issued' \in issued .. MaxTokens
    BY DEF Inv, Later
  <2> QED
    BY <2>1, TokensAssumption DEF Inv, Later
<1>2. (job \in [Worker -> [pc : {"idle", "loaded", "again"}, copy : Rows]])'
  BY DEF Inv
<1>3. Sound(r, issued', Up', Forced')
  BY OthersStay
<1>4. ASSUME NEW v \in Worker
      PROVE  job'[v] = Idle \/ Sound(job'[v].copy, issued', Up', Forced')
  <2>1. Up' = Up /\ Forced' = Forced
    BY OthersStay
  <2>2. CASE v = w
    <3>1. job'[v] = j
      BY <2>2 DEF Inv
    <3> QED
      BY <3>1, <2>1
  <2>3. CASE v # w
    <3>1. job'[v] = job[v]
      BY <2>3 DEF Inv
    <3> QED
      BY <3>1, <2>1, OthersStay
  <2> QED
    BY <2>2, <2>3
<1> QED
  BY <1>1, <1>2, <1>3, <1>4 DEF Inv

LEMMA StoredSound ==
    ASSUME Inv, Later, NEW w \in Worker, NEW r,
           Sound(r, issued', Up, Forced), Store(w, r)
    PROVE  Inv'
<1>1. Idle \in [pc : {"idle", "loaded", "again"}, copy : Rows]
  BY FreshIsSound DEF Idle
<1> QED
  BY <1>1, Saved DEF Store

LEMMA StoredAndGoingOn ==
    ASSUME Inv, Later, NEW w \in Worker, NEW r, NEW next,
           Sound(r, issued', Up, Forced), Sound(next, issued', Up, Forced),
           StoreAndGoOn(w, r, next)
    PROVE  Inv'
<1> DEFINE j == [pc |-> "again", copy |-> next]
<1>1. j \in [pc : {"idle", "loaded", "again"}, copy : Rows] /\ j.copy = next
  BY DEF Sound
<1>2. row' = r /\ job' = [job EXCEPT ![w] = j]
  BY DEF StoreAndGoOn
<1> HIDE DEF j
<1> QED
  BY <1>1, <1>2, Saved

\* What a thread that goes on holds.
LEMMA InHand ==
    ASSUME Inv, NEW w \in Worker, job[w].pc # "idle"
    PROVE  /\ phase = "up"
           /\ job[w].copy \in Rows
           /\ Sound(job[w].copy, issued, Up, Forced)
<1>1. job[w] # Idle
  BY FreshIsSound
<1> QED
  BY <1>1 DEF Inv

-----------------------------------------------------------------------------
(* One step for each action *)

LEMMA SavingSteps ==
    ASSUME Inv, NEW w \in Worker
    PROVE  /\ SaveAgain(w) => Inv'
           /\ CommandDisable(w) => Inv'
           /\ SaveOtherColumns(w) => Inv'
<1> DEFINE c == job[w].copy
<1>1. ASSUME job[w].pc # "idle", UNCHANGED <<issued, page, env, phase>>
      PROVE  Later /\ Sound(c, issued', Up, Forced)
  BY <1>1, InHand, TokensAssumption DEF Later, Inv
<1> HIDE DEF c
<1>2. ASSUME job[w].pc # "idle", UNCHANGED <<issued, page, env, phase>>, Store(w, c)
      PROVE  Inv'
  BY <1>1, <1>2, StoredSound
<1>3. ASSUME job[w].pc # "idle", UNCHANGED <<issued, page, env, phase>>,
             Store(w, [c EXCEPT !.enabled = FALSE])
      PROVE  Inv'
  <2>1. Sound([c EXCEPT !.enabled = FALSE], issued, Up, Forced)
    BY <1>1, <1>3, FlagsBoolean, SoundSwitchedOff
  <2>2. issued' = issued
    BY <1>3
  <2> QED
    BY <1>1, <1>3, <2>1, <2>2, StoredSound
<1> QED
  BY <1>2, <1>3 DEF SaveAgain, CommandDisable, SaveOtherColumns, c

\* A token is generated for a sound row, or one that is sound but for it.
LEMMA Issuing ==
    ASSUME Inv, phase = "up", Issue, UNCHANGED <<page, env, phase>>,
           NEW w \in Worker, NEW r \in Rows, Unsecured => ~(r.email.tls /\ r.email.ssl),
           Paired => (r.email.user = "name" <=> r.email.password)
    PROVE  /\ Later
           /\ Sound(WithNewToken(r), issued', Up, Forced)
           /\ WithNewToken(r).token # NoToken
<1>1. issued \in 0 .. MaxTokens /\ issued < MaxTokens /\ issued' = issued + 1
  BY DEF Inv, Issue
<1>2. Later
  BY <1>1, TokensAssumption DEF Later
<1>3. Sound(WithNewToken(r), issued + 1, Up, Forced) /\ WithNewToken(r).token # NoToken
  BY <1>1, FlagsBoolean, SoundWithToken
<1> QED
  BY <1>1, <1>2, <1>3

LEMMA PatchSwitchStep ==
    ASSUME Inv, NEW w \in Worker, NEW on \in BOOLEAN, PatchSwitch(w, on)
    PROVE  Inv'
<1> DEFINE c == job[w].copy
           r == [c EXCEPT !.enabled = on]
<1>1. phase = "up" /\ c \in Rows /\ Sound(c, issued, Up, Forced)
  BY InHand DEF PatchSwitch
<1>2. r \in Rows /\ r.token = c.token /\ r.email = c.email
  BY <1>1, SwitchColumn
<1>3. /\ Unsecured => ~(r.email.tls /\ r.email.ssl)
      /\ Paired => (r.email.user = "name" <=> r.email.password)
  BY <1>1, <1>2 DEF Sound
<1>4. UNCHANGED <<page, env, phase>>
  BY DEF PatchSwitch
<1>5. CASE on /\ r.token = NoToken
  <2>1. Issue /\ StoreAndGoOn(w, WithNewToken(r), WithNewToken(r))
    BY <1>5 DEF PatchSwitch
  <2>2. Later /\ Sound(WithNewToken(r), issued', Up, Forced)
    BY <1>1, <1>2, <1>3, <1>4, <2>1, Issuing
  <2> QED
    BY <2>1, <2>2, StoredAndGoingOn
<1>6. CASE ~(on /\ r.token = NoToken)
  <2>1. Store(w, r) /\ issued' = issued
    BY <1>6 DEF PatchSwitch
  <2>2. Sound(r, issued, Up, Forced)
    <3>1. CASE on
      <4>1. r = [c EXCEPT !.enabled = TRUE] /\ c.token # NoToken
        BY <1>2, <1>6, <3>1
      <4> QED
        BY <1>1, <4>1, FlagsBoolean, SoundSwitchedOn
    <3>2. CASE ~on
      <4>1. r = [c EXCEPT !.enabled = FALSE]
        BY <3>2
      <4> QED
        BY <1>1, <4>1, FlagsBoolean, SoundSwitchedOff
    <3> QED
      BY <3>1, <3>2
  <2>3. Later
    BY <1>1, <1>4, <2>1, TokensAssumption DEF Later, Inv
  <2> HIDE DEF r
  <2> QED
    BY <2>1, <2>2, <2>3, StoredSound
<1> QED
  BY <1>5, <1>6

LEMMA CommandEnableStep ==
    ASSUME Inv, NEW w \in Worker, CommandEnable(w)
    PROVE  Inv'
<1> DEFINE c == job[w].copy
<1>1. phase = "up" /\ c \in Rows /\ Sound(c, issued, Up, Forced)
  BY InHand DEF CommandEnable
<1>2. UNCHANGED <<page, env, phase>>
  BY DEF CommandEnable
<1>3. CASE c.token = NoToken
  <2> DEFINE t == WithNewToken(c)
             n == [t EXCEPT !.enabled = TRUE]
  <2>1. Issue /\ StoreAndGoOn(w, t, n)
    BY <1>3 DEF CommandEnable
  <2>2. Later /\ Sound(t, issued', Up, Forced) /\ t.token # NoToken
    BY <1>1, <1>2, <2>1, Issuing DEF Sound
  <2>3. issued' \in Nat
    BY <2>2, FlagsBoolean, TokensAssumption DEF Later
  <2>4. Sound(n, issued', Up, Forced)
    BY <2>2, <2>3, FlagsBoolean, SoundSwitchedOn
  <2> HIDE DEF t, n
  <2> QED
    BY <2>1, <2>2, <2>4, StoredAndGoingOn
<1>4. CASE c.token # NoToken
  <2> DEFINE n == [c EXCEPT !.enabled = TRUE]
  <2>1. Store(w, n) /\ issued' = issued
    BY <1>4 DEF CommandEnable
  <2>2. Sound(n, issued, Up, Forced)
    BY <1>1, <1>4, FlagsBoolean, SoundSwitchedOn
  <2>3. Later
    BY <1>1, <1>2, <2>1, TokensAssumption DEF Later, Inv
  <2> HIDE DEF n
  <2> QED
    BY <2>1, <2>2, <2>3, StoredSound
<1> QED
  BY <1>3, <1>4

LEMMA RotateTokenStep ==
    ASSUME Inv, NEW w \in Worker, RotateToken(w)
    PROVE  Inv'
<1> DEFINE c == job[w].copy
<1>1. phase = "up" /\ c \in Rows /\ Sound(c, issued, Up, Forced)
  BY InHand DEF RotateToken
<1>2. Later /\ Sound(WithNewToken(c), issued', Up, Forced)
  BY <1>1, Issuing DEF Sound, RotateToken
<1>3. Store(w, WithNewToken(c))
  BY DEF RotateToken
<1> QED
  BY <1>2, <1>3, StoredSound

\* The form's switch may be an old one, but then nothing is promised of tokens.
LEMMA SubmitFormStep ==
    ASSUME Inv, NEW w \in Worker, NEW p \in Page, SubmitForm(w, p)
    PROVE  Inv'
<1> DEFINE c == job[w].copy
           r == [c EXCEPT !.enabled = page[p] = "on"]
<1>1. phase = "up" /\ c \in Rows /\ Sound(c, issued, Up, Forced)
  BY InHand DEF SubmitForm
<1>2. r \in Rows /\ r.token = c.token /\ r.email = c.email
  <2>1. (page[p] = "on") \in BOOLEAN
    OBVIOUS
  <2> QED
    BY <1>1, <2>1, SwitchColumn, Zenon
<1>3. ~Up
  BY DEF SubmitForm, Up, Closed
<1>4. issued' = issued /\ StoreAndGoOn(w, r, r)
  BY DEF SubmitForm
<1>5. Later
  BY <1>1, <1>4, TokensAssumption DEF Later, Inv, SubmitForm
<1> HIDE DEF r
<1>6. Sound(r, issued', Up, Forced)
  BY <1>1, <1>2, <1>3, <1>4 DEF Sound
<1> QED
  BY <1>4, <1>5, <1>6, StoredAndGoingOn

\* What a request stores has passed the checks as a whole.
LEMMA PatchEmailStep ==
    ASSUME Inv, NEW w \in Worker, NEW e \in Email, PatchEmail(w, e)
    PROVE  Inv'
<1> DEFINE c == job[w].copy
           old == c.email
           r == [c EXCEPT !.email = e]
<1>1. phase = "up" /\ c \in Rows /\ Sound(c, issued, Up, Forced)
  BY InHand DEF PatchEmail
<1>2. r \in Rows /\ r.enabled = c.enabled /\ r.token = c.token /\ r.email = e
  BY <1>1, EmailColumn
<1>3. ~(e.tls /\ e.ssl)
  BY DEF PatchEmail
<1>4. ASSUME Paired
      PROVE  e.user = "name" <=> e.password
  <2>1. env.email \in Overrides /\ ("user" \in env.email <=> "password" \in env.email)
    BY <1>4 DEF Inv, Environment, Paired
  <2>2. old.user = "name" <=> old.password
    BY <1>1, <1>4 DEF Sound
  <2>3. Updates(old, e) \cap env.email = {}
    BY DEF PatchEmail
  <2>4. CASE "user" \in Updates(old, e)
    <3>1. env.email \cap {"user", "password"} = {}
      BY <2>1, <2>3, <2>4
    <3> QED
      BY <2>4, <3>1 DEF PatchEmail, PairAccepted
  <2>5. CASE "user" \notin Updates(old, e)
    <3>1. "password" \notin Updates(old, e)
      BY <1>4, <2>5 DEF PatchEmail, Paired
    <3>2. e.user = old.user /\ e.password = old.password
      BY <2>5, <3>1 DEF Updates, EmailField
    <3> QED
      BY <2>2, <3>2
  <2> QED
    BY <2>4, <2>5
<1>5. issued' = issued /\ Store(w, r)
  BY DEF PatchEmail
<1>6. Later
  BY <1>1, <1>5, TokensAssumption DEF Later, Inv, PatchEmail
<1> HIDE DEF r
<1>7. Sound(r, issued', Up, Forced)
  BY <1>1, <1>2, <1>3, <1>4, <1>5 DEF Sound
<1> QED
  BY <1>5, <1>6, <1>7, StoredSound

\* A request begins with the row as it is, or ends without a save.
LEMMA RequestSteps ==
    ASSUME Inv, NEW w \in Worker
    PROVE  /\ Load(w) => Inv'
           /\ Leave(w) => Inv'
<1>1. Sound(row, issued, Up, Forced) /\ row \in Rows
  BY DEF Inv, Sound
<1>2. ASSUME phase = "up", UNCHANGED <<row, issued, page, env, phase>>
      PROVE  Later
  BY <1>2, TokensAssumption DEF Later, Inv
<1>3. ASSUME Load(w) PROVE Inv'
  <2> DEFINE j == [pc |-> "loaded", copy |-> row]
  <2>1. job' = [job EXCEPT ![w] = j] /\ UNCHANGED <<row, issued, page, env, phase>> /\ Later
    BY <1>2, <1>3 DEF Load
  <2>2. j \in [pc : {"idle", "loaded", "again"}, copy : Rows] /\ j.copy = row
    BY <1>1
  <2> HIDE DEF j
  <2> QED
    BY <1>1, <2>1, <2>2, Saved
<1>4. ASSUME Leave(w) PROVE Inv'
  <2>1. phase = "up"
    BY <1>4, InHand DEF Leave
  <2>2. Later /\ Store(w, row) /\ issued' = issued
    BY <1>2, <1>4, <2>1 DEF Leave, Store
  <2> QED
    BY <1>1, <2>2, StoredSound
<1> QED
  BY <1>3, <1>4

LEMMA LoadPageStep ==
    ASSUME Inv, NEW p \in Page, LoadPage(p)
    PROVE  Inv'
<1>1. UNCHANGED <<row, issued, job, env, phase>> /\ phase = "up"
  BY DEF LoadPage
<1>2. (page \in [Page -> {"closed", "on", "off"}])'
  BY DEF LoadPage, Inv
<1>3. ~Up'
  <2>1. page'[p] # "closed"
    BY DEF LoadPage, Inv
  <2> QED
    BY <2>1 DEF Up, Closed
<1>4. Forced' = Forced /\ Idle' = Idle
  BY <1>1 DEF Forced, Idle
<1>5. ASSUME NEW r, Sound(r, issued, Up, Forced)
      PROVE  Sound(r, issued', Up', Forced')
  BY <1>1, <1>3, <1>4, <1>5 DEF Sound
<1>6. Sound(row', issued', Up', Forced')
  BY <1>1, <1>5 DEF Inv
<1>7. ASSUME NEW v \in Worker
      PROVE  job'[v] = Idle \/ Sound(job'[v].copy, issued', Up', Forced')
  <2>1. job'[v] = job[v] /\ (job[v] = Idle \/ Sound(job[v].copy, issued, Up, Forced))
    BY <1>1 DEF Inv
  <2> QED
    BY <1>5, <2>1
<1> QED
  BY <1>1, <1>2, <1>6, <1>7 DEF Inv

\* Start-up: the email settings of the environment.
LEMMA BootConfigStep ==
    ASSUME Inv, BootConfig
    PROVE  Inv' /\ row'.token = row.token
<1> DEFINE e == [user |-> ResolvedUser, password |-> ResolvedPassword,
                 tls |-> ResolvedTls, ssl |-> ResolvedSsl]
           q == [row EXCEPT !.email = e]
<1>1. /\ phase = "config" /\ phase' = "switch" /\ row' = q
      /\ UNCHANGED <<issued, job, page, env>>
      /\ \A w \in Worker : job[w] = Idle
  BY DEF BootConfig, Inv
<1>2. ~Up /\ ~Up' /\ Forced' = Forced
  BY <1>1 DEF Up, Forced
<1>3. Sound(row, issued, Up, Forced) /\ row \in Rows /\ row.email \in Email
  BY DEF Inv, Sound, Rows
<1>4. ResolvedUser \in {"null", "blank", "name"}
  BY <1>3 DEF ResolvedUser, Email
<1>5. ResolvedPassword \in BOOLEAN /\ ResolvedTls \in BOOLEAN /\ ResolvedSsl \in BOOLEAN
  BY <1>3 DEF ResolvedPassword, ResolvedTls, ResolvedSsl, Email
<1>6. e \in Email
  BY <1>4, <1>5 DEF Email
<1>7. /\ e.user = ResolvedUser /\ e.password = ResolvedPassword
      /\ e.tls = ResolvedTls /\ e.ssl = ResolvedSsl
  OBVIOUS
<1>8. env.email \in Overrides
  BY DEF Inv, Environment
<1>9. Unsecured => ~(e.tls /\ e.ssl)
  BY <1>3, <1>7, <1>8 DEF Unsecured, Sound, ResolvedTls, ResolvedSsl
<1>10. Paired => (e.user = "name" <=> e.password)
  <2> SUFFICES ASSUME Paired PROVE e.user = "name" <=> e.password
    OBVIOUS
  <2>1. "user" \in env.email <=> "password" \in env.email
    BY <1>8 DEF Paired
  <2>2. row.email.user = "name" <=> row.email.password
    BY <1>3 DEF Sound
  <2> QED
    BY <1>7, <2>1, <2>2 DEF ResolvedUser, ResolvedPassword
<1> HIDE DEF e
<1>11. q \in Rows /\ q.token = row.token /\ q.enabled = row.enabled /\ q.email = e
  BY <1>3, <1>6, EmailColumn
<1> HIDE DEF q
<1>12. Sound(q, issued', Up', Forced')
  BY <1>1, <1>2, <1>3, <1>9, <1>10, <1>11 DEF Sound
<1> QED
  BY <1>1, <1>2, <1>11, <1>12 DEF Inv

\* Start-up: the switch of the environment, then the token it may need.
LEMMA BootSwitchStep ==
    ASSUME Inv, BootSwitch
    PROVE  Inv'
<1>1. /\ phase = "switch" /\ phase' = "token"
      /\ UNCHANGED <<issued, job, page, env>>
      /\ \A w \in Worker : job[w] = Idle
  BY DEF BootSwitch, Inv
<1>2. ~Up /\ ~Up' /\ Forced' = Forced /\ Forced \in BOOLEAN
  BY <1>1 DEF Up, Forced
<1>3. Sound(row, issued, Up, Forced) /\ row \in Rows
  BY DEF Inv, Sound
<1>4. Sound(row', issued', Up', Forced')
      /\ (env.switch # "unset" => row'.enabled = Forced)
  <2>1. CASE env.switch = "unset"
    <3>1. row' = row
      BY <2>1 DEF BootSwitch
    <3> QED
      BY <1>1, <1>2, <1>3, <2>1, <3>1 DEF Sound
  <2>2. CASE env.switch # "unset"
    <3> DEFINE q == [row EXCEPT !.enabled = Forced]
    <3>1. row' = q
      BY <2>2 DEF BootSwitch, Forced
    <3>2. q \in Rows /\ q.enabled = Forced /\ q.token = row.token /\ q.email = row.email
      BY <1>2, <1>3, SwitchColumn, Zenon
    <3> HIDE DEF q
    <3>3. Sound(q, issued', Up', Forced')
      BY <1>1, <1>2, <1>3, <3>2 DEF Sound
    <3> QED
      BY <3>1, <3>2, <3>3
  <2> QED
    BY <2>1, <2>2
<1> QED
  BY <1>1, <1>2, <1>4 DEF Inv

LEMMA BootTokenStep ==
    ASSUME Inv, BootToken
    PROVE  Inv'
<1>1. /\ phase = "token" /\ phase' = "up"
      /\ UNCHANGED <<job, page, env>>
      /\ \A w \in Worker : job[w] = Idle
      /\ env.switch # "unset" => row.enabled = Forced
  BY DEF BootToken, Inv
<1>2. ~Up /\ Up' \in BOOLEAN /\ Forced' = Forced /\ Forced \in BOOLEAN
  BY <1>1 DEF Up, Forced
<1>3. Sound(row, issued, Up, Forced) /\ row \in Rows
  BY DEF Inv, Sound
<1>4. Sound(row', issued', Up', Forced') /\ issued' \in 0 .. MaxTokens
  <2>1. CASE IsEnabled /\ row.token = NoToken
    <3>1. /\ issued \in 0 .. MaxTokens /\ issued < MaxTokens /\ issued' = issued + 1
          /\ row' = WithNewToken(row)
      BY <2>1 DEF BootToken, Issue, Inv
    <3>2. Sound(WithNewToken(row), issued + 1, Up', Forced)
      BY <1>2, <1>3, <3>1, SoundWithToken DEF Sound
    <3>3. issued + 1 \in 0 .. MaxTokens
      BY <3>1, TokensAssumption
    <3> QED
      BY <1>2, <3>1, <3>2, <3>3
  <2>2. CASE ~(IsEnabled /\ row.token = NoToken)
    <3>1. UNCHANGED <<row, issued>> /\ issued \in 0 .. MaxTokens
      BY <2>2 DEF BootToken, Inv
    <3>2. Forced \/ row.enabled => IsEnabled
      BY <1>1 DEF IsEnabled, Forced
    <3> QED
      BY <1>2, <1>3, <2>2, <3>1, <3>2 DEF Sound
  <2> QED
    BY <2>1, <2>2
<1> QED
  BY <1>1, <1>4 DEF Inv

LEMMA RestartStep ==
    ASSUME Inv, Restart
    PROVE  Inv'
<1>1. /\ phase' = "config" /\ env' \in Environment
      /\ UNCHANGED <<row, issued, page>>
      /\ job' = [w \in Worker |-> Idle]
  BY DEF Restart
<1>2. ~Up'
  BY <1>1 DEF Up
<1>3. (job \in [Worker -> [pc : {"idle", "loaded", "again"}, copy : Rows]])'
  BY <1>1, FreshIsSound DEF Idle
<1>4. Sound(row', issued', Up', Forced')
  BY <1>1, <1>2 DEF Sound, Inv
<1> QED
  BY <1>1, <1>3, <1>4 DEF Inv

LEMMA InitSound ==
    ASSUME Init
    PROVE  Inv
<1>1. /\ row = FreshRow /\ issued = 0 /\ phase = "config" /\ env \in Environment
      /\ job = [w \in Worker |-> Idle]
      /\ page = [p \in Page |-> "closed"]
  BY DEF Init
<1>2. /\ FreshRow.token = NoToken
      /\ FreshRow.email.user = "null" /\ ~FreshRow.email.password
      /\ ~FreshRow.email.tls
  BY DEF FreshRow, FreshEmail
<1>3. Sound(row, issued, Up, Forced)
  BY <1>1, <1>2, FreshIsSound DEF Sound, Up, NoToken
<1>4. job \in [Worker -> [pc : {"idle", "loaded", "again"}, copy : Rows]]
  BY <1>1, FreshIsSound DEF Idle
<1> QED
  BY <1>1, <1>3, <1>4, TokensAssumption DEF Inv

LEMMA Step ==
    ASSUME Inv, [Next]_vars
    PROVE  Inv'
<1>1. ASSUME NEW w \in Worker, Work(w)
      PROVE  Inv'
  BY <1>1, RequestSteps, SavingSteps, PatchSwitchStep, CommandEnableStep, RotateTokenStep,
     SubmitFormStep, PatchEmailStep DEF Work
<1>2. CASE UNCHANGED vars
  BY <1>2 DEF vars, Inv, Up, Closed, Forced
<1> QED
  BY <1>1, <1>2, LoadPageStep, BootConfigStep, BootSwitchStep, BootTokenStep, RestartStep DEF Next

LEMMA Invariance == Spec => []Inv
  BY InitSound, Step, PTL DEF Spec

-----------------------------------------------------------------------------
(* Theorems *)

\* Every state has its type.
THEOREM TypeCorrect == Spec => []TypeOK
<1>1. Inv => TypeOK
  <2> SUFFICES ASSUME Inv PROVE TypeOK
    OBVIOUS
  <2>1. row \in Rows /\ row.token <= issued
    BY DEF Inv, Sound
  <2>2. ASSUME NEW w \in Worker
        PROVE  job[w].copy.token <= issued
    <3>1. CASE job[w] = Idle
      <4>1. job[w].copy.token = 0 /\ issued \in 0 .. MaxTokens
        BY <3>1 DEF Idle, FreshRow, NoToken, Inv
      <4> QED
        BY <4>1, TokensAssumption
    <3>2. CASE job[w] # Idle
      BY <3>2 DEF Inv, Sound
    <3> QED
      BY <3>1, <3>2
  <2> QED
    BY <2>1, <2>2 DEF Inv, TypeOK
<1> QED
  BY <1>1, Invariance, PTL

\* Whatever requests interleave, TLS and SSL are never both stored, if no
\* environment turns on one of them.
THEOREM SecurityStaysExclusive ==
    ASSUME \A o \in Overrides : o \cap {"tls", "ssl"} = {}
    PROVE  Spec => []SecurityExclusive
<1>1. Inv => SecurityExclusive
  BY DEF Inv, Sound, SecurityExclusive, Unsecured
<1> QED
  BY <1>1, Invariance, PTL

\* Whatever requests interleave and wherever a start was stopped, MCP is not
\* served without a token before a form has been opened.
THEOREM EnabledKeepsToken == Spec => []EnabledHasToken
<1>1. Inv => EnabledHasToken
  BY DEF Inv, Sound, EnabledHasToken, IsEnabled, Up, Closed, Forced
<1> QED
  BY <1>1, Invariance, PTL

\* If no password is given alone, and no environment sets one of the two alone
\* or a security mode,
\* whatever accepted settings are stored one after the other can be used.
THEOREM AcceptedEmailKeepsWorking ==
    ASSUME ~PasswordAlone,
           \A o \in Overrides : "user" \in o <=> "password" \in o,
           \A o \in Overrides : o \cap {"tls", "ssl"} = {}
    PROVE  Spec => []AcceptedEmailWorks
<1>1. Inv => AcceptedEmailWorks
  <2> SUFFICES ASSUME Inv PROVE EmailStatus = "configured"
    BY DEF AcceptedEmailWorks
  <2>1. Paired /\ Unsecured
    BY DEF Paired, Unsecured
  <2>2. (row.email.user = "name" <=> row.email.password) /\ ~(row.email.tls /\ row.email.ssl)
    BY <2>1 DEF Inv, Sound
  <2>3. /\ "user" \in env.email <=> "password" \in env.email
        /\ env.email \cap {"tls", "ssl"} = {}
    BY DEF Inv, Environment
  <2>4. ResolvedUser = "name" <=> ResolvedPassword
    BY <2>2, <2>3 DEF ResolvedUser, ResolvedPassword
  <2>5. ~(ResolvedTls /\ ResolvedSsl)
    BY <2>2, <2>3 DEF ResolvedTls, ResolvedSsl
  <2> QED
    BY <2>4, <2>5 DEF EmailStatus
<1> QED
  BY <1>1, Invariance, PTL

-----------------------------------------------------------------------------
(* Tokens *)

\* The tokens that a thread can leave in the row.
Own(w, t) ==
    t \in {row.token, issued + 1} \/ (job[w] # Idle /\ t = job[w].copy.token)

\* A thread takes a step: the row has one of those tokens, the thread's copy has
\* the same, and the other threads are where they were.
Moved(w) ==
    /\ Own(w, row'.token)
    /\ job'[w] = Idle \/ job'[w].copy.token = row'.token
    /\ \A v \in Worker \ {w} : job'[v] = job[v]

LEMMA StoreMoves ==
    ASSUME Inv, NEW w \in Worker, NEW r, Own(w, r.token), Store(w, r)
    PROVE  Moved(w)
<1>1. job'[w] = Idle /\ row' = r /\ \A v \in Worker \ {w} : job'[v] = job[v]
  BY DEF Store, Inv
<1> QED
  BY <1>1 DEF Moved

LEMMA StoreAndGoOnMoves ==
    ASSUME Inv, NEW w \in Worker, NEW r, NEW n, Own(w, r.token), n.token = r.token,
           StoreAndGoOn(w, r, n)
    PROVE  Moved(w)
<1>1. job'[w].copy = n /\ row' = r /\ \A v \in Worker \ {w} : job'[v] = job[v]
  BY DEF StoreAndGoOn, Inv
<1> QED
  BY <1>1 DEF Moved

LEMMA InMemory ==
    ASSUME Inv, NEW w \in Worker, job[w].pc # "idle"
    PROVE  job[w].copy \in Rows /\ Own(w, job[w].copy.token)
  BY InHand, FreshIsSound DEF Own

LEMMA WorkMoves ==
    ASSUME Inv, NEW w \in Worker, Work(w)
    PROVE  Moved(w)
<1> DEFINE c == job[w].copy
<1>1. CASE Load(w)
  <2>1. job'[w].copy = row /\ row' = row /\ \A v \in Worker \ {w} : job'[v] = job[v]
    BY <1>1 DEF Load, Inv
  <2> QED
    BY <2>1 DEF Own, Moved
<1>2. CASE Leave(w)
  <2>1. job'[w] = Idle /\ row' = row /\ \A v \in Worker \ {w} : job'[v] = job[v]
    BY <1>2 DEF Leave, Inv
  <2> QED
    BY <2>1 DEF Own, Moved
<1>3. CASE SaveAgain(w) \/ SaveOtherColumns(w)
  BY StoreMoves, InMemory, <1>3 DEF SaveAgain, SaveOtherColumns
<1>4. ASSUME NEW on \in BOOLEAN, PatchSwitch(w, on)
      PROVE  Moved(w)
  <2> DEFINE r == [c EXCEPT !.enabled = on]
             t == WithNewToken(r)
  <2>1. r \in Rows /\ Own(w, r.token)
    BY InMemory, <1>4, SwitchColumn DEF PatchSwitch
  <2>2. Store(w, r) \/ (Issue /\ StoreAndGoOn(w, t, t))
    BY <1>4 DEF PatchSwitch
  <2>3. Issue => Own(w, t.token)
    BY <2>1, TokenColumn DEF Own, Issue, Inv
  <2> HIDE DEF r, t
  <2> QED
    BY StoreMoves, StoreAndGoOnMoves, <2>1, <2>2, <2>3
<1>5. CASE CommandEnable(w)
  <2> DEFINE r == [c EXCEPT !.enabled = TRUE]
             t == WithNewToken(c)
             n == [t EXCEPT !.enabled = TRUE]
  <2>1. c \in Rows /\ Own(w, r.token)
    BY InMemory, <1>5, SwitchColumn DEF CommandEnable
  <2>2. Store(w, r) \/ (Issue /\ StoreAndGoOn(w, t, n))
    BY <1>5 DEF CommandEnable
  <2>3. Issue => Own(w, t.token) /\ t \in Rows
    BY <2>1, TokenColumn DEF Own, Issue, Inv
  <2>4. Issue => n.token = t.token
    BY <2>3, SwitchColumn
  <2> HIDE DEF r, t, n
  <2> QED
    BY StoreMoves, StoreAndGoOnMoves, <2>1, <2>2, <2>3, <2>4
<1>6. CASE CommandDisable(w)
  <2> DEFINE r == [c EXCEPT !.enabled = FALSE]
  <2>1. Own(w, r.token) /\ Store(w, r)
    BY InMemory, <1>6, SwitchColumn DEF CommandDisable
  <2> HIDE DEF r
  <2> QED
    BY StoreMoves, <2>1
<1>7. CASE RotateToken(w)
  <2> DEFINE t == WithNewToken(c)
  <2>1. Own(w, t.token) /\ Store(w, t)
    BY InMemory, <1>7, TokenColumn DEF Own, RotateToken, Issue, Inv
  <2> HIDE DEF t
  <2> QED
    BY StoreMoves, <2>1
<1>8. ASSUME NEW p \in Page, SubmitForm(w, p)
      PROVE  Moved(w)
  <2> DEFINE r == [c EXCEPT !.enabled = page[p] = "on"]
  <2>1. c \in Rows /\ Own(w, c.token) /\ (page[p] = "on") \in BOOLEAN
    BY InMemory, <1>8 DEF SubmitForm
  <2>2. r.token = c.token
    BY <2>1, SwitchColumn, Zenon
  <2>3. StoreAndGoOn(w, r, r)
    BY <1>8 DEF SubmitForm
  <2> HIDE DEF r
  <2> QED
    BY StoreAndGoOnMoves, <2>1, <2>2, <2>3
<1>9. ASSUME NEW e \in Email, PatchEmail(w, e)
      PROVE  Moved(w)
  <2> DEFINE r == [c EXCEPT !.email = e]
  <2>1. Own(w, r.token) /\ Store(w, r)
    BY InMemory, <1>9, EmailColumn DEF PatchEmail
  <2> HIDE DEF r
  <2> QED
    BY StoreMoves, <2>1
<1> QED
  BY <1>1, <1>2, <1>3, <1>4, <1>5, <1>6, <1>7, <1>8, <1>9 DEF Work

\* The steps of the start-up and of the pages.
LEMMA OtherMoves ==
    ASSUME Inv, BootConfig \/ BootSwitch \/ BootToken \/ Restart \/ UNCHANGED <<row, job>>
    PROVE  /\ row'.token \in {row.token, issued + 1}
           /\ UNCHANGED job \/ \A w \in Worker : job'[w] = Idle
<1>1. CASE BootConfig
  BY <1>1, BootConfigStep DEF BootConfig
<1>2. CASE BootSwitch
  <2> DEFINE q == [row EXCEPT !.enabled = Forced]
  <2>1. Forced \in BOOLEAN /\ row \in Rows
    BY DEF Forced, Inv, Sound
  <2>2. q.token = row.token
    BY <2>1, SwitchColumn, Zenon
  <2>3. (row' = row \/ row' = q) /\ UNCHANGED job
    BY <1>2 DEF BootSwitch, Forced
  <2> QED
    BY <2>2, <2>3
<1>3. CASE BootToken
  <2>1. row \in Rows
    BY DEF Inv, Sound
  <2>2. (row' = row \/ row'.token = issued + 1) /\ UNCHANGED job
    BY <1>3, <2>1, TokenColumn DEF BootToken, Issue, Inv
  <2> QED
    BY <2>2
<1>4. CASE Restart
  BY <1>4 DEF Restart
<1> QED
  BY <1>1, <1>2, <1>3, <1>4

\* A token that nobody holds is held by nobody after a step, for any number of
\* threads: what a stale save can revive was in the memory of a request.
THEOREM ForgottenStayRevoked == Spec => ForgottenStaysRevoked
<1>1. Inv /\ [Next]_vars => [\A key \in 1 .. issued : ~Alive(key) => ~Alive(key)']_vars
  <2> SUFFICES ASSUME Inv, [Next]_vars, NEW key \in 1 .. issued, ~Alive(key)
               PROVE  ~Alive(key)'
    OBVIOUS
  <2>1. /\ issued \in 0 .. MaxTokens
        /\ key # row.token /\ key # issued + 1
        /\ \A w \in Worker : job[w] = Idle \/ job[w].copy.token # key
    <3>1. issued \in 0 .. MaxTokens
      BY DEF Inv
    <3>2. key # NoToken /\ key # issued + 1
      BY <3>1, TokensAssumption DEF NoToken
    <3> QED
      BY <3>1, <3>2 DEF Alive, Accepts
  <2>2. \A w \in Worker : ~Own(w, key)
    BY <2>1 DEF Own
  <2>3. row'.token # key /\ \A w \in Worker : job'[w] = Idle \/ job'[w].copy.token # key
    <3>1. ASSUME NEW w \in Worker, Work(w)
          PROVE  row'.token # key /\ \A v \in Worker : job'[v] = Idle \/ job'[v].copy.token # key
      <4>1. Moved(w)
        BY <3>1, WorkMoves
      <4> QED
        BY <2>1, <2>2, <4>1 DEF Moved
    <3>2. CASE BootConfig \/ BootSwitch \/ BootToken \/ Restart \/ UNCHANGED <<row, job>>
      BY <2>1, <3>2, OtherMoves
    <3> QED
      BY <3>1, <3>2 DEF Next, LoadPage, vars
  <2>4. Idle' = Idle
    BY DEF Idle
  <2> QED
    BY <2>3, <2>4 DEF Alive, Accepts
<1> QED
  BY <1>1, Invariance, PTL DEF Spec, ForgottenStaysRevoked

-----------------------------------------------------------------------------
(* One thread *)

\* A thread at work holds the token that the row has.
TokenInHand == \A w \in Worker : job[w] = Idle \/ job[w].copy.token = row.token

\* A step leaves the token or puts a new one.
TokenOrNew == row'.token \in {row.token, issued + 1}

LEMMA AloneStep ==
    ASSUME Inv, TokenInHand, [Next]_vars, \A v, w \in Worker : v = w
    PROVE  TokenInHand' /\ TokenOrNew
<1>1. Idle' = Idle
  BY DEF Idle
<1>2. ASSUME NEW w \in Worker, Work(w)
      PROVE  TokenInHand' /\ TokenOrNew
  <2>1. Moved(w)
    BY <1>2, WorkMoves
  <2> QED
    BY <1>1, <2>1 DEF Moved, Own, TokenInHand, TokenOrNew
<1>3. CASE BootConfig \/ BootSwitch \/ BootToken \/ Restart
  <2>1. TokenOrNew
    BY <1>3, OtherMoves DEF TokenOrNew
  <2>2. \A w \in Worker : job'[w] = Idle
    BY <1>3 DEF BootConfig, BootSwitch, BootToken, Restart, Inv
  <2> QED
    BY <1>1, <2>1, <2>2 DEF TokenInHand
<1>4. CASE UNCHANGED <<row, job>>
  BY <1>1, <1>4 DEF TokenInHand, TokenOrNew
<1> QED
  BY <1>2, <1>3, <1>4 DEF Next, LoadPage, vars

\* With one thread, rotating the token invalidates the one before for good.
THEOREM RevokedStayRevoked ==
    ASSUME \A v, w \in Worker : v = w
    PROVE  Spec => RevokedStaysRevoked
<1>1. Init => TokenInHand
  BY DEF Init, TokenInHand
<1>2. Inv /\ TokenInHand /\ [Next]_vars => TokenInHand'
  BY AloneStep
<1>3. Inv /\ TokenInHand /\ [Next]_vars
        => [\A key \in 1 .. issued : ~Accepts(key) => ~Accepts(key)']_vars
  <2> SUFFICES ASSUME Inv, TokenInHand, [Next]_vars, NEW key \in 1 .. issued, ~Accepts(key)
               PROVE  ~Accepts(key)'
    OBVIOUS
  <2>1. TokenOrNew
    BY AloneStep
  <2>2. issued \in 0 .. MaxTokens /\ row.token \in 0 .. MaxTokens
    BY DEF Inv, Sound, Rows
  <2> QED
    BY <2>1, <2>2, TokensAssumption DEF Accepts, TokenOrNew, NoToken
<1> QED
  BY <1>1, <1>2, <1>3, Invariance, PTL DEF Spec, RevokedStaysRevoked

=============================================================================
