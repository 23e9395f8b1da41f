--------------------------- MODULE ServerConfigRow ---------------------------
(***************************************************************************)
(* The one row of ServerConfiguration as far as the MCP switch, the MCP    *)
(* token and the email settings go.  Every operation loads the row, changes *)
(* its own columns in memory and saves: save() takes no update_fields, so  *)
(* whatever the callers ask for, all columns are written as they were      *)
(* loaded.  The other columns are those of PeerAddresses and ApplyChanges; *)
(* here a save of one of them is only one that rewrites these.             *)
(***************************************************************************)
EXTENDS Naturals

CONSTANTS
    Worker,         \* threads of the server, commands run beside it
    Page,           \* open server configuration pages
    MaxTokens,      \* bound on the number of tokens ever generated
    Overrides,      \* the sets of email fields an environment may govern
    PasswordAlone   \* may a request set or blank the password and not the user?

EmailField == {"user", "password", "tls", "ssl"}

ASSUME TokensAssumption == MaxTokens \in Nat
ASSUME OverridesAssumption == Overrides \subseteq SUBSET EmailField
ASSUME PasswordAloneAssumption == PasswordAlone \in BOOLEAN

\* Host, port and sender are taken to be there.  The password counts as given
\* when it is more than white space, the user likewise.
Email == [user : {"null", "blank", "name"}, password : BOOLEAN, tls : BOOLEAN, ssl : BOOLEAN]

NoToken == 0

Rows == [enabled : BOOLEAN, token : 0 .. MaxTokens, email : Email]

Switch == {"unset", "true", "false"}    \* WG_MCP_SERVER_ENABLED

VARIABLES
    row,      \* the row in the database
    issued,   \* how many tokens were generated so far: tokens are 1 .. issued
    job,      \* job[w]: what thread w does next and the row it has in memory
    page,     \* page[p]: mcp_enabled as the form of page p loaded it, or "closed"
    env,      \* the environment of the running container
    phase     \* the next step of the start-up, or "up"

vars == <<row, issued, job, page, env, phase>>

FreshEmail == [user |-> "null", password |-> FALSE, tls |-> FALSE, ssl |-> FALSE]

FreshRow == [enabled |-> FALSE, token |-> NoToken, email |-> FreshEmail]

Idle == [pc |-> "idle", copy |-> FreshRow]

Environment == [switch : Switch, email : Overrides]

Init ==
    /\ row = FreshRow
    /\ issued = 0
    /\ job = [w \in Worker |-> Idle]
    /\ page = [p \in Page |-> "closed"]
    /\ env \in Environment
    /\ phase = "config"

-----------------------------------------------------------------------------
(* What the settings amount to *)

\* The endpoint exists only while this holds.
IsEnabled ==
    IF env.switch = "unset" THEN row.enabled ELSE env.switch = "true"

\* Authentication compares the key of a request with the token of the row.
Accepts(key) == key = row.token /\ row.token # NoToken

\* The fields that the environment sets, over those of the row.
ResolvedUser == IF "user" \in env.email THEN "name" ELSE row.email.user
ResolvedPassword == "password" \in env.email \/ row.email.password
ResolvedTls == "tls" \in env.email \/ row.email.tls
ResolvedSsl == "ssl" \in env.email \/ row.email.ssl

\* What the pages show, and what sending an email would meet.
EmailStatus ==
    IF (ResolvedUser = "name" <=> ResolvedPassword) /\ ~(ResolvedTls /\ ResolvedSsl)
    THEN "configured" ELSE "invalid"

-----------------------------------------------------------------------------
(* One save of the whole row, after which the request is over, or after     *)
(* which the instance is saved once more                                    *)

Store(w, r) ==
    /\ row' = r
    /\ job' = [job EXCEPT ![w] = Idle]

StoreAndGoOn(w, r, next) ==
    /\ row' = r
    /\ job' = [job EXCEPT ![w] = [pc |-> "again", copy |-> next]]

\* As if a token were derived from what is always the same.
WithSameToken(r) == [r EXCEPT !.token = 1]

WithNewToken(r) == [r EXCEPT !.token = issued + 1]

Issue ==
    /\ issued < MaxTokens
    /\ issued' = issued + 1

-----------------------------------------------------------------------------
(* Requests and commands.  What is asked is chosen when it is carried out.  *)

Load(w) ==
    /\ phase = "up"
    /\ job[w] = Idle
    /\ job' = [job EXCEPT ![w] = [pc |-> "loaded", copy |-> row]]
    /\ UNCHANGED <<row, issued, page, env, phase>>

\* Validation fails, or nothing is to be changed.
Leave(w) ==
    /\ job[w].pc = "loaded"
    /\ job' = [job EXCEPT ![w] = Idle]
    /\ UNCHANGED <<row, issued, page, env, phase>>

SaveAgain(w) ==
    /\ job[w].pc = "again"
    /\ Store(w, job[w].copy)
    /\ UNCHANGED <<issued, page, env, phase>>

\* The switch without the token that it needs.
PatchSwitchOnly(w, on) ==
    /\ job[w].pc = "loaded"
    /\ Store(w, [job[w].copy EXCEPT !.enabled = on])
    /\ UNCHANGED <<issued, page, env, phase>>

\* The switch of the MCP page.  rotate() saves the row with the switch already on.
PatchSwitch(w, on) ==
    LET r == [job[w].copy EXCEPT !.enabled = on] IN
    /\ job[w].pc = "loaded"
    /\ IF on /\ r.token = NoToken
       THEN Issue /\ StoreAndGoOn(w, WithNewToken(r), WithNewToken(r))
       ELSE Store(w, r) /\ UNCHANGED issued
    /\ UNCHANGED <<page, env, phase>>

\* The command mcp_enable: the token first, then the switch.
CommandEnable(w) ==
    LET r == job[w].copy IN
    /\ job[w].pc = "loaded"
    /\ IF r.token = NoToken
       THEN /\ Issue
            /\ StoreAndGoOn(w, WithNewToken(r), [WithNewToken(r) EXCEPT !.enabled = TRUE])
       ELSE Store(w, [r EXCEPT !.enabled = TRUE]) /\ UNCHANGED issued
    /\ UNCHANGED <<page, env, phase>>

CommandDisable(w) ==
    /\ job[w].pc = "loaded"
    /\ Store(w, [job[w].copy EXCEPT !.enabled = FALSE])
    /\ UNCHANGED <<issued, page, env, phase>>

\* The button of the MCP page, and the command mcp_generate_token.
RotateToken(w) ==
    /\ job[w].pc = "loaded"
    /\ Issue
    /\ Store(w, WithNewToken(job[w].copy))
    /\ UNCHANGED <<page, env, phase>>

\* A generation, and the MCP tool, which ignores the switch.
SaveOtherColumns(w) ==
    /\ job[w].pc = "loaded"
    /\ Store(w, job[w].copy)
    /\ UNCHANGED <<issued, page, env, phase>>

\* The form is loaded when the page opens, after a save, and when a status
\* shows a later change; a change of the switch is none.
LoadPage(p) ==
    /\ phase = "up"
    /\ page' = [page EXCEPT ![p] = IF row.enabled THEN "on" ELSE "off"]
    /\ UNCHANGED <<row, issued, job, env, phase>>

\* The form PUTs all that it loaded but the token and the email settings, which
\* the serializer excludes; perform_update saves twice.
SubmitForm(w, p) ==
    LET r == [job[w].copy EXCEPT !.enabled = page[p] = "on"] IN
    /\ page[p] # "closed"
    /\ job[w].pc = "loaded"
    /\ StoreAndGoOn(w, r, r)
    /\ UNCHANGED <<issued, page, env, phase>>

\* The settings a request can ask for.  Fields it leaves out, and an empty
\* password, stay as they are; null is not accepted for a user.
CanAsk(old, e) == e.user = "null" => old.user = "null"

Updates(old, e) == {f \in EmailField : e[f] # old[f]}

\* As if only setting a user could separate the pair.
PairAcceptedOneWay(old, e) ==
    "user" \in Updates(old, e) => (e.user = "name" => e.password)

\* User and password are compared only if the user changes and both are the
\* database's.
PairAccepted(old, e) ==
    "user" \in Updates(old, e) /\ env.email \cap {"user", "password"} = {}
        => (e.user = "name" <=> e.password)

\* Only the columns that a request asks to change are written, as the caller of
\* save() means it.
PatchEmailColumns(w, e) ==
    LET old == job[w].copy.email IN
    /\ job[w].pc = "loaded"
    /\ CanAsk(old, e) /\ Updates(old, e) \cap env.email = {}
    /\ ~(e.tls /\ e.ssl) /\ PairAccepted(old, e)
    /\ PasswordAlone \/ ("password" \in Updates(old, e) => "user" \in Updates(old, e))
    /\ Store(w, [row EXCEPT !.email = [f \in EmailField |->
                    IF f \in Updates(old, e) THEN e[f] ELSE row.email[f]]])
    /\ UNCHANGED <<issued, page, env, phase>>

PatchEmail(w, e) ==
    LET old == job[w].copy.email IN
    /\ job[w].pc = "loaded"
    /\ CanAsk(old, e)
    /\ Updates(old, e) # {}
    /\ Updates(old, e) \cap env.email = {}
    /\ ~(e.tls /\ e.ssl)
    /\ PairAccepted(old, e)
    /\ PasswordAlone \/ ("password" \in Updates(old, e) => "user" \in Updates(old, e))
    /\ Store(w, [job[w].copy EXCEPT !.email = e])
    /\ UNCHANGED <<issued, page, env, phase>>

-----------------------------------------------------------------------------
(* The container starts: db_init_db_on_start and mcp_initialize run before  *)
(* the server.                                                              *)

\* The variables that are set are copied into the row, whatever it holds.
BootConfig ==
    /\ phase = "config"
    /\ phase' = "switch"
    /\ row' = [row EXCEPT !.email =
                  [user |-> ResolvedUser, password |-> ResolvedPassword,
                   tls |-> ResolvedTls, ssl |-> ResolvedSsl]]
    /\ UNCHANGED <<issued, job, page, env>>

BootSwitch ==
    /\ phase = "switch"
    /\ phase' = "token"
    /\ row' = IF env.switch = "unset" THEN row ELSE [row EXCEPT !.enabled = env.switch = "true"]
    /\ UNCHANGED <<issued, job, page, env>>

BootToken ==
    /\ phase = "token"
    /\ phase' = "up"
    /\ IF IsEnabled /\ row.token = NoToken
       THEN Issue /\ row' = WithNewToken(row)
       ELSE UNCHANGED <<row, issued>>
    /\ UNCHANGED <<job, page, env>>

\* The container stops at any point and starts, perhaps with other variables.
Restart ==
    /\ phase' = "config"
    /\ job' = [w \in Worker |-> Idle]
    /\ env' \in Environment
    /\ UNCHANGED <<row, issued, page>>

-----------------------------------------------------------------------------

Work(w) ==
    \/ Load(w) \/ Leave(w) \/ SaveAgain(w)
    \/ \E on \in BOOLEAN : PatchSwitch(w, on)
    \/ CommandEnable(w) \/ CommandDisable(w) \/ RotateToken(w) \/ SaveOtherColumns(w)
    \/ \E p \in Page : SubmitForm(w, p)
    \/ \E e \in Email : PatchEmail(w, e)

Next ==
    \/ \E w \in Worker : Work(w)
    \/ \E p \in Page : LoadPage(p)
    \/ BootConfig \/ BootSwitch \/ BootToken \/ Restart

Spec == Init /\ [][Next]_vars

-----------------------------------------------------------------------------

TypeOK ==
    /\ row \in Rows
    /\ row.token <= issued
    /\ issued \in 0 .. MaxTokens
    /\ job \in [Worker -> [pc : {"idle", "loaded", "again"}, copy : Rows]]
    /\ \A w \in Worker : job[w].copy.token <= issued
    /\ page \in [Page -> {"closed", "on", "off"}]
    /\ env \in Environment
    /\ phase \in {"config", "switch", "token", "up"}

\* While MCP is served there is a token, whatever saves interleave and at
\* whatever step an earlier start was stopped, as long as no form has loaded the
\* switch: its value may belong to a row that another save has replaced.
EnabledHasToken ==
    phase = "up" /\ IsEnabled /\ (\A p \in Page : page[p] = "closed")
        => row.token # NoToken

\* No sequence and no interleaving of accepted requests, and no start, stores
\* both TLS and SSL, as long as no environment turns on one of them: a start would
\* copy it beside the one that is stored.
SecurityExclusive ==
    ~(row.email.tls /\ row.email.ssl)

\* Settings of which each was accepted, and variables copied over them at a start,
\* never add up to ones that cannot be used: the user and the password in effect
\* are a pair and at most one security mode is on.
AcceptedEmailWorks ==
    EmailStatus = "configured"

\* A key that was issued and is not accepted any more never is again: "rotate it
\* to invalidate the previous token".
RevokedStaysRevoked ==
    [][\A key \in 1 .. issued : ~Accepts(key) => ~Accepts(key)']_vars

\* A token that is neither in the row nor loaded by a request under way is dead
\* for good, however many threads save and wherever a start stops: the reach of
\* a stale save ends with the requests that were under way at the rotation.
Alive(key) == Accepts(key) \/ \E w \in Worker : job[w] # Idle /\ job[w].copy.token = key

ForgottenStaysRevoked ==
    [][\A key \in 1 .. issued : ~Alive(key) => ~Alive(key)']_vars

=============================================================================
