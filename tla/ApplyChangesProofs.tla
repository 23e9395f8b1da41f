------------------------- MODULE ApplyChangesProofs -------------------------
(***************************************************************************)
(* What ApplyChanges promises for all rows, values and scenarios: with any *)
(* number of clients its type, where DNS goes, that no file stays          *)
(* truncated, no thread is stuck and a tunnel that is down comes back;     *)
(* with one client that changes are noticed, that device and rules agree,  *)
(* that generations and restarts do what they say, and that every step is  *)
(* one of the abstract deployment's.                                       *)
(***************************************************************************)
EXTENDS ApplyChanges, TLAPS

PCs == {"idle", "links", "config", "peers", "open", "write", "rules", "mark", "down", "up"}

\* The steps of a generation that have read something.
Copying == {"peers", "open", "write", "rules", "mark"}

Jobs == [pc : PCs, file : File, copy : Contents \cup {Empty}]

JobOK(j) == j \in Jobs /\ (j.pc \in Copying => j.copy \in Contents)

TypeInv ==
    /\ TypeOK
    /\ file = [f \in File |-> file[f]]
    /\ job = [w \in Proc |-> job[w]]
    /\ \A w \in Proc : JobOK(job[w])

-----------------------------------------------------------------------------

LEMMA InputTypes ==
    /\ Row \subseteq Input /\ Config \cup {Links} \subseteq Input
    /\ \A f \in File : Feeds(f) \subseteq Input
    /\ Server \in Row /\ Server \in Config /\ Links \notin Row
    /\ \A r \in Row : r # Server => r \notin Config
    /\ Plain \notin Row
  BY RowAssumption DEF Row, Config, Uncompared, Input, Feeds, File

LEMMA ContentsFields ==
    ASSUME NEW c
    PROVE  c \in Contents <=> /\ c \in [Input -> Value \cup {Absent}]
                              /\ \A i \in Config \cup {Links} : c[i] # Absent
  BY DEF Contents

LEMMA ServerFeedsAll == \A f \in File : Server \in Feeds(f)
  BY InputTypes DEF Feeds, File

LEMMA PartType ==
    ASSUME NEW c \in Contents, NEW f \in File
    PROVE  Part(c, f) \in Content(f) /\ Part(c, f) # Empty
<1>1. \A i \in Feeds(f) : c[i] \in Value \cup {Absent}
  BY InputTypes, ContentsFields
<1>2. Part(c, f) \in [Feeds(f) -> Value \cup {Absent}] /\ Part(c, f)[Server] = c[Server]
  BY <1>1, ServerFeedsAll DEF Part
<1> QED
  BY <1>2, EmptyAssumption, InputTypes, ContentsFields DEF Content

LEMMA IdleOK == JobOK(Idle) /\ Idle.pc = "idle"
  BY DEF Idle, JobOK, Jobs, PCs, File, Copying

\* A job goes on to another step that asks no more of its copy.
LEMMA NextPc ==
    ASSUME NEW j, JobOK(j), NEW pc \in PCs, pc \in Copying => j.pc \in Copying
    PROVE  JobOK([j EXCEPT !.pc = pc]) /\ [j EXCEPT !.pc = pc].pc = pc
           /\ [j EXCEPT !.pc = pc].copy = j.copy /\ [j EXCEPT !.pc = pc].file = j.file
  BY DEF JobOK, Jobs

\* One thread's next step; the others stay where they are.
LEMMA JobStep ==
    ASSUME TypeInv, NEW w \in Proc, NEW j, JobOK(j), job' = [job EXCEPT ![w] = j]
    PROVE  /\ job'[w] = j
           /\ \A u \in Proc \ {w} : job'[u] = job[u]
           /\ job' = [u \in Proc |-> job'[u]]
           /\ \A u \in Proc : JobOK(job'[u])
  BY DEF TypeInv


\* The type, given that of what a step changes.
LEMMA TypeStep ==
    ASSUME TypeInv, events' = events,
           db' \in Contents, newer' \subseteq {r \in Row : db'[r] # Absent},
           \A f \in File : file'[f] \in Content(f), file' = [f \in File |-> file'[f]],
           device' \in Content("wg0.conf") \cup {Down}, firewall' \in Content("post-up"),
           nat' \subseteq Value \X Value,
           job' = [u \in Proc |-> job'[u]], \A u \in Proc : JobOK(job'[u])
    PROVE  TypeInv'
  BY DEF TypeInv, TypeOK, Exists, JobOK, Jobs, PCs

\* The same for steps that change nothing but a job.
LEMMA JobOnly ==
    ASSUME TypeInv, UNCHANGED <<events, db, newer, file, device, firewall, nat>>,
           NEW w \in Proc, NEW j, JobOK(j), job' = [job EXCEPT ![w] = j]
    PROVE  TypeInv'
<1>1. job' = [u \in Proc |-> job'[u]] /\ \A u \in Proc : JobOK(job'[u])
  BY JobStep
<1> QED
  BY <1>1, TypeStep DEF TypeInv, TypeOK, Exists

-----------------------------------------------------------------------------
(* Edits *)

LEMMA EditRow ==
    ASSUME TypeInv, NEW r \in Input, NEW v \in Value \cup {Absent},
           v = Absent => r \notin Config \cup {Links},
           db' = [db EXCEPT ![r] = v]
    PROVE  /\ db' \in Contents
           /\ db'[r] = v
           /\ \A i \in Input \ {r} : db'[i] = db[i]
<1>1. db \in [Input -> Value \cup {Absent}]
  BY ContentsFields DEF TypeInv, TypeOK
<1>2. db' \in [Input -> Value \cup {Absent}] /\ db'[r] = v
      /\ \A i \in Input \ {r} : db'[i] = db[i]
  BY <1>1
<1>3. \A i \in Config \cup {Links} : db'[i] # Absent
  BY <1>2, InputTypes, ContentsFields DEF TypeInv, TypeOK
<1> QED
  BY <1>2, <1>3, ContentsFields

LEMMA SaveRowType ==
    ASSUME TypeInv, NEW w \in Worker, NEW r \in Row, NEW v \in Value, SaveRow(w, r, v)
    PROVE  TypeInv'
<1>1. db' = [db EXCEPT ![r] = v] /\ r \in Input /\ newer' = newer \cup {r}
      /\ UNCHANGED <<events, file, device, firewall, nat>> /\ w \in Proc
  BY InputTypes DEF SaveRow, Proc
<1>2. db' \in Contents /\ db'[r] = v /\ \A i \in Input \ {r} : db'[i] = db[i]
  BY <1>1, EditRow, RowAssumption
<1>3. newer' \subseteq {x \in Row : db'[x] # Absent}
  BY <1>1, <1>2, InputTypes, RowAssumption DEF TypeInv, TypeOK, Exists
<1>4. job' = [u \in Proc |-> job'[u]] /\ \A u \in Proc : JobOK(job'[u])
  <2>1. CASE UNCHANGED job
    BY <2>1 DEF TypeInv
  <2>2. CASE job' = [job EXCEPT ![w] = [@ EXCEPT !.pc = "links"]]
    <3>1. JobOK([job[w] EXCEPT !.pc = "links"])
      <4>1. JobOK(job[w])
        BY <1>1 DEF TypeInv
      <4>2. "links" \in PCs /\ "links" \notin Copying
        BY DEF PCs, Copying
      <4> QED
        BY <4>1, <4>2, NextPc
    <3> QED
      BY <1>1, <2>2, <3>1, JobStep
  <2> QED
    BY <2>1, <2>2 DEF SaveRow
<1> QED
  BY <1>1, <1>2, <1>3, <1>4, TypeStep DEF TypeInv, TypeOK

LEMMA SaveServerType ==
    ASSUME TypeInv, NEW w \in Worker, NEW c \in [Config -> Value], SaveServer(w, c)
    PROVE  TypeInv'
<1>1. /\ db' = [i \in Input |-> IF i \in Config THEN c[i] ELSE db[i]]
      /\ newer' \subseteq newer \cup {Server}
      /\ UNCHANGED <<events, file, device, firewall, nat, job>>
  BY DEF SaveServer
<1>2. /\ db' \in [Input -> Value \cup {Absent}]
      /\ \A i \in Config : db'[i] \in Value
      /\ \A i \in Input \ Config : db'[i] = db[i]
  BY <1>1, InputTypes, ContentsFields DEF TypeInv, TypeOK
<1>3. db' \in Contents
  BY <1>2, InputTypes, ContentsFields, RowAssumption DEF TypeInv, TypeOK
<1>4. newer' \subseteq {x \in Row : db'[x] # Absent}
  BY <1>1, <1>2, InputTypes, RowAssumption DEF TypeInv, TypeOK, Exists, Row
<1> QED
  BY <1>1, <1>3, <1>4, TypeStep DEF TypeInv, TypeOK

LEMMA DeleteRowType ==
    ASSUME TypeInv, NEW w \in Worker, NEW r \in Row, DeleteRow(w, r)
    PROVE  TypeInv'
<1>1. /\ db' = [db EXCEPT ![r] = Absent] /\ newer' = newer \ {r} /\ r # Server
      /\ UNCHANGED <<events, file, device, firewall, nat, job>>
  BY DEF DeleteRow
<1>2. r \in Input /\ r \notin Config \cup {Links}
  BY <1>1, InputTypes, RowAssumption
<1>3. db' \in Contents /\ \A i \in Input \ {r} : db'[i] = db[i]
  BY <1>1, <1>2, EditRow
<1>4. newer' \subseteq {x \in Row : db'[x] # Absent}
  BY <1>1, <1>3, InputTypes DEF TypeInv, TypeOK, Exists
<1> QED
  BY <1>1, <1>3, <1>4, TypeStep DEF TypeInv, TypeOK

LEMMA SetLinksType ==
    ASSUME TypeInv, NEW w \in Proc, SetLinks(w)
    PROVE  TypeInv'
<1>1. PICK v \in Value : db' = [db EXCEPT ![Links] = v]
  BY DEF SetLinks
<1>2. UNCHANGED <<events, newer, file, device, firewall, nat>> /\ job' = [job EXCEPT ![w] = Idle]
  BY DEF SetLinks
<1>3. db' \in Contents /\ \A i \in Input \ {Links} : db'[i] = db[i]
  BY <1>1, EditRow, InputTypes, RowAssumption
<1>4. newer' \subseteq {x \in Row : db'[x] # Absent}
  BY <1>2, <1>3, InputTypes, RowAssumption DEF TypeInv, TypeOK, Exists
<1>5. job' = [u \in Proc |-> job'[u]] /\ \A u \in Proc : JobOK(job'[u])
  BY <1>2, IdleOK, JobStep
<1> QED
  BY <1>2, <1>3, <1>4, <1>5, TypeStep DEF TypeInv, TypeOK

-----------------------------------------------------------------------------
(* The generation and the tunnel *)

LEMMA ReadType ==
    ASSUME TypeInv, NEW w \in Proc, NEW inputs, NEW f \in File,
           NEW next \in {"peers", "open"}, Read(w, inputs, f, next),
           inputs = Input \/ job[w].pc \in Copying
    PROVE  /\ TypeInv'
           /\ UNCHANGED <<events, db, newer, file, device, firewall, nat>>
           /\ job'[w].pc = next /\ job'[w].file = f
           /\ job'[w].copy = [i \in Input |-> IF i \in inputs THEN db[i] ELSE job[w].copy[i]]
           /\ \A u \in Proc \ {w} : job'[u] = job[u]
<1> DEFINE c == [i \in Input |-> IF i \in inputs THEN db[i] ELSE job[w].copy[i]]
           j == [pc |-> next, file |-> f, copy |-> c]
<1>1. job' = [job EXCEPT ![w] = j] /\ UNCHANGED <<events, db, newer, file, device, firewall, nat>>
  BY DEF Read
<1>2. db \in Contents /\ (inputs # Input => job[w].copy \in Contents)
  BY DEF TypeInv, TypeOK, JobOK
<1>3. c \in Contents
  <2>1. \A i \in Input : c[i] = IF i \in inputs THEN db[i] ELSE job[w].copy[i]
    OBVIOUS
  <2>2. \A i \in Input : c[i] \in Value \cup {Absent}
    BY <1>2, <2>1, ContentsFields
  <2>3. c \in [Input -> Value \cup {Absent}]
    BY <2>2
  <2>4. \A i \in Config \cup {Links} : c[i] # Absent
    BY <1>2, <2>1, InputTypes, ContentsFields
  <2> HIDE DEF c
  <2> QED
    BY <2>3, <2>4, ContentsFields
<1> HIDE DEF c
<1>4. JobOK(j) /\ j.pc = next /\ j.file = f /\ j.copy = c
  BY <1>3 DEF JobOK, Jobs, PCs
<1> HIDE DEF j
<1>5. TypeInv' /\ job'[w] = j /\ \A u \in Proc \ {w} : job'[u] = job[u]
  BY <1>1, <1>4, JobOnly, JobStep
<1> QED
  BY <1>1, <1>4, <1>5 DEF c

\* A file is opened or written.
LEMMA FileStep ==
    ASSUME TypeInv, NEW w \in Proc, NEW x \in Content(job[w].file),
           file' = [file EXCEPT ![job[w].file] = x]
    PROVE  /\ \A f \in File : file'[f] \in Content(f)
           /\ file' = [f \in File |-> file'[f]]
           /\ file'[job[w].file] = x
           /\ \A f \in File \ {job[w].file} : file'[f] = file[f]
<1>1. job[w].file \in File
  BY DEF TypeInv, TypeOK
<1> QED
  BY <1>1 DEF TypeInv, TypeOK

LEMMA OpenFileType ==
    ASSUME TypeInv, NEW w \in Proc, OpenFile(w)
    PROVE  TypeInv'
<1>1. /\ file' = [file EXCEPT ![job[w].file] = Empty] /\ newer' = {}
      /\ UNCHANGED <<events, db, device, firewall, nat>>
      /\ job' = [job EXCEPT ![w] = [@ EXCEPT !.pc = "write"]] /\ job[w].pc = "open"
  BY DEF OpenFile
<1>2. JobOK([job[w] EXCEPT !.pc = "write"])
  <2>1. JobOK(job[w]) /\ "write" \in PCs /\ "open" \in Copying
    BY DEF TypeInv, PCs, Copying
  <2> QED
    BY <1>1, <2>1, NextPc
<1>3. job' = [u \in Proc |-> job'[u]] /\ \A u \in Proc : JobOK(job'[u])
  BY <1>1, <1>2, JobStep
<1>4. Empty \in Content(job[w].file)
  BY DEF Content
<1> QED
  BY <1>1, <1>3, <1>4, FileStep, TypeStep DEF TypeInv, TypeOK

LEMMA AfterWriteFields ==
    ASSUME NEW w \in Proc, JobOK(job[w]), job[w].pc = "write",
           NEW f, f = job[w].file, NEW j, j = AfterWrite(w, f)
    PROVE  /\ JobOK(j)
           /\ j.pc = IF f = "wg0.conf" THEN "rules" ELSE
                     IF f = "post-up" THEN "open" ELSE
                     IF w = Boot THEN "up" ELSE "mark"
           /\ f = "post-up" => j.file = "post-down"
           /\ j.pc # "up" => j.copy = job[w].copy
<1>1. f \in File
  BY DEF JobOK, Jobs
<1>2. CASE f = "wg0.conf"
  <2>1. j = [job[w] EXCEPT !.pc = "rules"]
    BY <1>2 DEF AfterWrite
  <2>2. "rules" \in PCs /\ ("rules" \in Copying => job[w].pc \in Copying)
    BY DEF PCs, Copying
  <2>3. JobOK(j) /\ j.pc = "rules" /\ j.copy = job[w].copy
    BY <2>1, <2>2, NextPc
  <2> QED
    BY <1>2, <2>3
<1>3. CASE f = "post-up"
  <2>1. j = [job[w] EXCEPT !.pc = "open", !.file = "post-down"]
    BY <1>3 DEF AfterWrite
  <2>2. JobOK(j) /\ j.pc = "open" /\ j.file = "post-down" /\ j.copy = job[w].copy
    BY <2>1 DEF JobOK, Jobs, PCs, Copying, File
  <2> QED
    BY <1>3, <2>2
<1>4. CASE f = "post-down" /\ w = Boot
  <2>1. j = [Idle EXCEPT !.pc = "up"]
    BY <1>4 DEF AfterWrite
  <2>2. JobOK(j) /\ j.pc = "up"
    BY <2>1 DEF Idle, JobOK, Jobs, PCs, Copying, File
  <2> QED
    BY <1>4, <2>2
<1>5. CASE f = "post-down" /\ w # Boot
  <2>1. j = [job[w] EXCEPT !.pc = "mark"]
    BY <1>5 DEF AfterWrite
  <2>2. "mark" \in PCs /\ ("mark" \in Copying => job[w].pc \in Copying)
    BY DEF PCs, Copying
  <2>3. JobOK(j) /\ j.pc = "mark" /\ j.copy = job[w].copy
    BY <2>1, <2>2, NextPc
  <2> QED
    BY <1>5, <2>3
<1> QED
  BY <1>1, <1>2, <1>3, <1>4, <1>5 DEF File

LEMMA WriteFileType ==
    ASSUME TypeInv, NEW w \in Proc, WriteFile(w)
    PROVE  TypeInv'
<1>1. /\ file' = [file EXCEPT ![job[w].file] = Part(job[w].copy, job[w].file)]
      /\ newer' = {} /\ UNCHANGED <<events, db, device, firewall, nat>>
      /\ job' = [job EXCEPT ![w] = AfterWrite(w, job[w].file)] /\ job[w].pc = "write"
  BY DEF WriteFile
<1>2. JobOK(AfterWrite(w, job[w].file))
  BY <1>1, AfterWriteFields DEF TypeInv
<1>3. job' = [u \in Proc |-> job'[u]] /\ \A u \in Proc : JobOK(job'[u])
  BY <1>1, <1>2, JobStep
<1>4. job[w].copy \in Contents /\ job[w].file \in File
  BY <1>1 DEF TypeInv, JobOK, Jobs, Copying
<1>5. Part(job[w].copy, job[w].file) \in Content(job[w].file)
  BY <1>4, PartType
<1> QED
  BY <1>1, <1>3, <1>5, FileStep, TypeStep DEF TypeInv, TypeOK

LEMMA MarkGeneratedType ==
    ASSUME TypeInv, NEW w \in Proc, MarkGenerated(w)
    PROVE  TypeInv'
<1>1. /\ db' = [i \in Input |-> IF i \in Config THEN job[w].copy[i] ELSE db[i]]
      /\ newer' = newer \ {Server} /\ UNCHANGED <<events, file, device, firewall, nat>>
      /\ job' = [job EXCEPT ![w] = Idle] /\ job[w].pc = "mark"
  BY DEF MarkGenerated
<1>2. job[w].copy \in Contents /\ db \in Contents
  BY <1>1 DEF TypeInv, TypeOK, JobOK, Copying
<1>3. \A i \in Input : db'[i] = IF i \in Config THEN job[w].copy[i] ELSE db[i]
  BY <1>1
<1>4. db' \in [Input -> Value \cup {Absent}]
  BY <1>1, <1>2, ContentsFields
<1>5. db' \in Contents
  BY <1>2, <1>3, <1>4, InputTypes, ContentsFields
<1>6. newer' \subseteq {x \in Row : db'[x] # Absent}
  BY <1>1, <1>3, InputTypes, RowAssumption DEF TypeInv, TypeOK, Exists, Row
<1>7. job' = [u \in Proc |-> job'[u]] /\ \A u \in Proc : JobOK(job'[u])
  BY <1>1, IdleOK, JobStep
<1> QED
  BY <1>1, <1>5, <1>6, <1>7, TypeStep DEF TypeInv, TypeOK

LEMMA ContentServer ==
    ASSUME NEW f \in File, NEW x \in Content(f), x # Empty
    PROVE  x[Server] \in Value
  BY ServerFeedsAll DEF Content

LEMMA TunnelDownType ==
    ASSUME TypeInv, NEW w \in Proc, TunnelDown(w)
    PROVE  TypeInv'
<1>1. /\ device' = Down /\ firewall' \in {Empty, firewall} /\ nat' \subseteq nat
      /\ UNCHANGED <<events, db, newer, file>>
      /\ job' = [job EXCEPT ![w] = [@ EXCEPT !.pc = "up"]] /\ job[w].pc = "down"
  BY DEF TunnelDown, PostDown, Without
<1>2. firewall' \in Content("post-up") /\ nat' \subseteq Value \X Value
  BY <1>1 DEF Content, TypeInv, TypeOK
<1>3. JobOK([job[w] EXCEPT !.pc = "up"])
  BY NextPc DEF TypeInv, PCs, Copying
<1>4. job' = [u \in Proc |-> job'[u]] /\ \A u \in Proc : JobOK(job'[u])
  BY <1>1, <1>3, JobStep
<1> QED
  BY <1>1, <1>2, <1>4, TypeStep DEF TypeInv, TypeOK, Exists

LEMMA NatType ==
    ASSUME TypeInv, PostUp
    PROVE  nat' \subseteq Value \X Value
<1>1. CASE file["post-up"] = Empty
  BY <1>1 DEF PostUp, TypeInv, TypeOK
<1>2. CASE file["post-up"] # Empty
  <2>1. "post-up" \in File
    BY DEF File
  <2>2. file["post-up"][Server] \in Value
    BY <1>2, <2>1, ContentServer DEF TypeInv, TypeOK
  <2>3. nat' = InsertFirst(file["post-up"][Server])
    BY <1>2 DEF PostUp
  <2> QED
    BY <2>2, <2>3 DEF InsertFirst, Without, TypeInv, TypeOK
<1> QED
  BY <1>1, <1>2

LEMMA TunnelUpType ==
    ASSUME TypeInv, NEW w \in Proc, TunnelUp(w)
    PROVE  TypeInv'
<1>1. /\ device' \in {device, file["wg0.conf"]} /\ firewall' \in {firewall, file["post-up"]}
      /\ UNCHANGED <<events, db, newer, file>> /\ job' = [job EXCEPT ![w] = Idle]
  BY DEF TunnelUp, PostUp
<1>2. /\ device' \in Content("wg0.conf") \cup {Down}
      /\ firewall' \in Content("post-up")
  BY <1>1 DEF TypeInv, TypeOK, File
<1>3. job' = [u \in Proc |-> job'[u]] /\ \A u \in Proc : JobOK(job'[u])
  BY <1>1, IdleOK, JobStep
<1>4. nat' \subseteq Value \X Value
  BY NatType DEF TunnelUp, TypeInv, TypeOK
<1> QED
  BY <1>1, <1>2, <1>3, <1>4, TypeStep DEF TypeInv, TypeOK, Exists

\* A request or the script goes on without touching anything else.
LEMMA SwitchType ==
    ASSUME TypeInv, NEW w \in Proc, UNCHANGED <<events, db, newer, file, device, firewall, nat>>,
           NEW j, j \in {Idle} \cup {[job[w] EXCEPT !.pc = pc] : pc \in {"config", "down"}},
           job' = [job EXCEPT ![w] = j]
    PROVE  /\ TypeInv' /\ job'[w] = j
           /\ \A u \in Proc \ {w} : job'[u] = job[u]
           /\ j = Idle \/ j.pc \in {"config", "down"}
<1>1. CASE j = Idle
  BY <1>1, IdleOK, JobOnly, JobStep
<1>2. CASE j # Idle
  <2>1. PICK pc \in {"config", "down"} : j = [job[w] EXCEPT !.pc = pc]
    BY <1>2
  <2>2. JobOK(job[w]) /\ pc \in PCs /\ pc \notin Copying
    BY <2>1 DEF TypeInv, PCs, Copying
  <2>3. JobOK(j) /\ j.pc = pc
    BY <2>1, <2>2, NextPc
  <2> QED
    BY <2>1, <2>3, JobOnly, JobStep
<1> QED
  BY <1>1, <1>2

LEMMA RestartType ==
    ASSUME TypeInv, ContainerRestarts
    PROVE  /\ TypeInv'
           /\ job'[Boot].pc = "config" /\ \A w \in Proc \ {Boot} : job'[w] = Idle
<1> DEFINE boot == [Idle EXCEPT !.pc = "config"]
<1>1. JobOK(boot) /\ boot.pc = "config"
  BY IdleOK, NextPc DEF PCs, Copying
<1>2. job' = [w \in Proc |-> IF w = Boot THEN boot ELSE Idle]
  BY DEF ContainerRestarts
<1> HIDE DEF boot
<1>3. /\ \A w \in Proc : job'[w] = IF w = Boot THEN boot ELSE Idle
      /\ job' = [w \in Proc |-> job'[w]]
  BY <1>2
<1>4. \A w \in Proc : JobOK(job'[w])
  BY <1>1, <1>3, IdleOK
<1>5. /\ UNCHANGED <<events, db, newer, file>> /\ device' = Down /\ firewall' = Empty
      /\ nat' = {}
  BY DEF ContainerRestarts
<1>6. TypeInv'
  BY <1>3, <1>4, <1>5, TypeStep DEF TypeInv, TypeOK, Exists, Content
<1> QED
  BY <1>1, <1>3, <1>6 DEF Proc

LEMMA InitType ==
    ASSUME Init
    PROVE  TypeInv
<1> DEFINE boot == [Idle EXCEPT !.pc = "config"]
<1>1. JobOK(boot)
  BY IdleOK, NextPc DEF PCs, Copying
<1>2. job = [w \in Proc |-> IF w = Boot THEN boot ELSE Idle]
  BY DEF Init
<1> HIDE DEF boot
<1>3. \A w \in Proc : JobOK(job[w])
  BY <1>1, <1>2, IdleOK
<1>4. /\ db \in Contents /\ newer = {Server} /\ file = [f \in File |-> Empty]
      /\ device = Down /\ firewall = Empty /\ nat = {} /\ events \in Scenarios
  BY InstalledAssumption DEF Init, DeployInit
<1>5. newer \subseteq {r \in Row : Exists(r)}
  BY <1>4, InputTypes, ContentsFields DEF Exists
<1>6. TypeOK
  BY <1>3, <1>4, <1>5 DEF TypeOK, Content, JobOK, Jobs, PCs
<1> QED
  BY <1>2, <1>3, <1>4, <1>6 DEF TypeInv

\* Reading, of each kind.
LEMMA ReadingType ==
    ASSUME TypeInv, NEW w \in Proc, ReadServer(w) \/ ReadPeers(w) \/ ReadRules(w)
    PROVE  TypeInv'
<1>1. CASE ReadServer(w)
  BY <1>1, ReadType DEF ReadServer, File
<1>2. CASE ReadPeers(w)
  BY <1>2, ReadType DEF ReadPeers, File, Copying
<1>3. CASE ReadRules(w)
  BY <1>3, ReadType DEF ReadRules, File, Copying
<1> QED
  BY <1>1, <1>2, <1>3

LEMMA NextType ==
    ASSUME TypeInv, [Next]_vars
    PROVE  TypeInv'
<1>1. ASSUME NEW w \in Worker, Edit(w)
      PROVE  TypeInv'
  BY <1>1, SaveRowType, SaveServerType, DeleteRowType DEF Edit
<1>2. ASSUME NEW w \in Worker, Generate(w) \/ RestartTunnel(w)
      PROVE  TypeInv'
  <2>1. w \in Proc /\ UNCHANGED <<events, db, newer, file, device, firewall, nat>>
    BY <1>2 DEF Proc, Generate, RestartTunnel
  <2>2. PICK pc \in {"config", "down"} : job' = [job EXCEPT ![w] = [job[w] EXCEPT !.pc = pc]]
    BY <1>2 DEF Generate, RestartTunnel
  <2> QED
    BY <2>1, <2>2, SwitchType
<1>3. ASSUME NEW w \in Proc, Step(w)
      PROVE  TypeInv'
  BY <1>3, SetLinksType, ReadingType, OpenFileType, WriteFileType, MarkGeneratedType,
     TunnelDownType, TunnelUpType DEF Step
<1>4. ASSUME NEW w \in Proc, GenerateFails(w) \/ RestartTimesOut(w)
      PROVE  TypeInv'
  <2>1. /\ UNCHANGED <<events, db, newer, file, device, firewall, nat>>
        /\ job' = [job EXCEPT ![w] = Idle]
    BY <1>4 DEF GenerateFails, RestartTimesOut
  <2> QED
    BY <2>1, SwitchType
<1>5. CASE ContainerRestarts
  BY <1>5, RestartType
<1>6. CASE UNCHANGED vars
  BY <1>6 DEF vars, TypeInv, TypeOK, Exists
<1> QED
  BY <1>1, <1>2, <1>3, <1>4, <1>5, <1>6 DEF Next

\* Every state has its type, for all rows, values, scenarios and clients.
THEOREM TypeCorrect == Spec => []TypeOK
<1>1. TypeInv => TypeOK
  BY DEF TypeInv
<1> QED
  BY InitType, NextType, <1>1, PTL DEF Spec

-----------------------------------------------------------------------------
(* One client: nothing is read that is not the database's.                   *)

Generating == {"config", "peers", "open", "write", "rules"}

\* A generation knows the whole database, and what it has written so far is
\* made from it.
Progress(j) ==
    /\ j.pc \in Copying => j.copy = db
    /\ j.pc = "links" => newer # {}
    /\ j.pc = "rules" \/ (j.pc \in {"open", "write"} /\ j.file \in {"post-up", "post-down"})
         => file["wg0.conf"] = Part(db, "wg0.conf")
    /\ j.pc \in {"open", "write"} /\ j.file = "post-down"
         => file["post-up"] = Part(db, "post-up")
    /\ j.pc = "mark" => newer = {} /\ \A f \in File : file[f] = Part(db, f)
    /\ j.pc = "up" => device = Down

Agree(conf, rules) ==
    /\ conf # Empty /\ rules # Empty
    /\ \A p \in PeerRow : conf[p] = rules[p]

FilesAgree == "failure" \in events \/ Agree(file["wg0.conf"], file["post-up"])

FilesNoticed == events \cap {"delete", "uncompared", "failure"} # {} \/ Noticed

TunnelAgrees == "failure" \in events \/ device = Down \/ Agree(device, firewall)

Solo ==
    /\ \A u, v \in Proc : job[u] = Idle \/ job[v] = Idle \/ u = v
    /\ \A u \in Proc : Progress(job[u])
    /\ job[Boot] # Idle => device = Down
    /\ (\A u \in Proc : job[u].pc \notin Generating) => FilesAgree /\ FilesNoticed
    /\ TunnelAgrees

IInv == TypeInv /\ Solo

LEMMA IdleProgress == Progress(Idle) /\ Idle.pc \notin Generating
  BY IdleOK DEF Progress, Copying, Generating

\* All that is left to show of a step, when no other thread is at work.
LEMMA SoloStep ==
    ASSUME NEW w \in Proc, \A u \in Proc \ {w} : job'[u] = Idle,
           Progress(job[w])', job'[Boot] # Idle => device' = Down,
           job'[w].pc \notin Generating => FilesAgree' /\ FilesNoticed', TunnelAgrees'
    PROVE  Solo'
<1>1. ASSUME NEW u \in Proc
      PROVE  Progress(job[u])'
  <2>1. CASE u = w
    BY <2>1
  <2>2. CASE u # w
    <3>1. job'[u] = Idle
      BY <2>2
    <3>2. Progress(Idle)'
      BY IdleOK DEF Progress, Copying, Idle
    <3> QED
      BY <3>1, <3>2
  <2> QED
    BY <2>1, <2>2
<1> QED
  BY <1>1 DEF Solo

OneClient == \A u, v \in Worker : u = v

LEMMA ServingAlone ==
    ASSUME OneClient, NEW w \in Worker, Serving(w)
    PROVE  \A u \in Proc : job[u] = Idle
  BY DEF OneClient, Serving, Proc

LEMMA BusyAlone ==
    ASSUME IInv, NEW w \in Proc, job[w].pc # "idle"
    PROVE  \A u \in Proc \ {w} : job[u] = Idle
  BY IdleOK DEF IInv, Solo

\* With every thread idle, the files are as they should be.
LEMMA QuietFiles ==
    ASSUME IInv, NEW w \in Proc, job[w].pc \notin Generating,
           \A u \in Proc \ {w} : job[u] = Idle
    PROVE  FilesAgree /\ FilesNoticed
<1>1. \A u \in Proc : job[u].pc \notin Generating
  BY IdleProgress
<1> QED
  BY <1>1 DEF IInv, Solo

LEMMA SaveRowSolo ==
    ASSUME IInv, OneClient, NEW w \in Worker, NEW r \in Row, NEW v \in Value, SaveRow(w, r, v)
    PROVE  Solo'
<1>1. w \in Proc /\ w # Boot /\ Boot \in Proc /\ \A u \in Proc : job[u] = Idle
  BY ServingAlone, ProcAssumption DEF SaveRow, Proc
<1>2. UNCHANGED <<events, file, device, firewall, nat>> /\ newer' # {}
  BY DEF SaveRow
<1>3. /\ job'[w].pc \in {"idle", "links"}
      /\ \A u \in Proc \ {w} : job'[u] = Idle
  <2>1. CASE UNCHANGED job
    BY <1>1, <2>1, IdleOK
  <2>2. CASE job' = [job EXCEPT ![w] = [@ EXCEPT !.pc = "links"]]
    <3>1. JobOK([job[w] EXCEPT !.pc = "links"]) /\ [job[w] EXCEPT !.pc = "links"].pc = "links"
      <4>1. JobOK(job[w])
        BY <1>1 DEF IInv, TypeInv
      <4>2. "links" \in PCs /\ "links" \notin Copying
        BY DEF PCs, Copying
      <4> QED
        BY <4>1, <4>2, NextPc
    <3>2. job'[w].pc = "links" /\ \A u \in Proc \ {w} : job'[u] = job[u]
      BY <1>1, <2>2, <3>1, JobStep DEF IInv
    <3> QED
      BY <1>1, <3>2
  <2> QED
    BY <2>1, <2>2 DEF SaveRow
<1>4. FilesAgree /\ FilesNoticed
  BY <1>1, IdleProgress, QuietFiles
<1>5. FilesAgree' /\ FilesNoticed' /\ TunnelAgrees'
  BY <1>2, <1>4 DEF IInv, Solo, FilesAgree, FilesNoticed, Noticed, NeedRegenerate, TunnelAgrees,
     Agree
<1>6. Progress(job[w])'
  BY <1>2, <1>3 DEF Progress, Copying
<1> QED
  BY <1>1, <1>3, <1>5, <1>6, SoloStep

LEMMA SaveServerSolo ==
    ASSUME IInv, OneClient, NEW w \in Worker, NEW c \in [Config -> Value], SaveServer(w, c)
    PROVE  Solo'
<1>1. w \in Proc /\ w # Boot /\ Boot \in Proc /\ \A u \in Proc : job[u] = Idle
  BY ServingAlone, ProcAssumption DEF SaveServer, Proc
<1>2. UNCHANGED <<events, file, device, firewall, nat, job>>
  BY DEF SaveServer
<1>3. newer' # {} \/ "uncompared" \in events
  <2>1. \A i \in Config : i = Server \/ i \in Uncompared
    BY DEF Config
  <2> QED
    BY <2>1 DEF SaveServer
<1>4. FilesAgree
  BY <1>1, IdleProgress, QuietFiles
<1>5. FilesAgree' /\ FilesNoticed' /\ TunnelAgrees'
  BY <1>2, <1>3, <1>4 DEF IInv, Solo, FilesAgree, FilesNoticed, Noticed, NeedRegenerate,
     TunnelAgrees, Agree
<1>6. Progress(job[w])'
  BY <1>1, <1>2, IdleOK DEF Progress, Copying
<1> QED
  BY <1>1, <1>2, <1>5, <1>6, SoloStep

LEMMA DeleteRowSolo ==
    ASSUME IInv, OneClient, NEW w \in Worker, NEW r \in Row, DeleteRow(w, r)
    PROVE  Solo'
<1>1. w \in Proc /\ w # Boot /\ Boot \in Proc /\ \A u \in Proc : job[u] = Idle
  BY ServingAlone, ProcAssumption DEF DeleteRow, Proc
<1>2. UNCHANGED <<events, file, device, firewall, nat, job>> /\ "delete" \in events
  BY DEF DeleteRow
<1>3. FilesAgree
  BY <1>1, IdleProgress, QuietFiles
<1>4. FilesAgree' /\ FilesNoticed' /\ TunnelAgrees'
  BY <1>2, <1>3 DEF IInv, Solo, FilesAgree, FilesNoticed, TunnelAgrees, Agree
<1>5. Progress(job[w])'
  BY <1>1, <1>2, IdleOK DEF Progress, Copying
<1> QED
  BY <1>1, <1>2, <1>4, <1>5, SoloStep

LEMMA SetLinksSolo ==
    ASSUME IInv, NEW w \in Proc, SetLinks(w)
    PROVE  Solo'
<1>1. /\ UNCHANGED <<events, newer, file, device, firewall, nat>>
      /\ job' = [job EXCEPT ![w] = Idle] /\ job[w].pc = "links"
  BY DEF SetLinks
<1>2. newer # {} /\ \A u \in Proc \ {w} : job[u] = Idle
  BY <1>1, BusyAlone DEF IInv, Solo, Progress
<1>3. job'[w] = Idle /\ \A u \in Proc \ {w} : job'[u] = Idle
  BY <1>1, <1>2, IdleOK, JobStep DEF IInv
<1>4. FilesAgree
  BY <1>1, <1>2, QuietFiles DEF Generating
<1>5. FilesAgree' /\ FilesNoticed' /\ TunnelAgrees'
  BY <1>1, <1>2, <1>4 DEF IInv, Solo, FilesAgree, FilesNoticed, Noticed, NeedRegenerate,
     TunnelAgrees, Agree
<1>6. Progress(job[w])'
  BY <1>3, IdleOK DEF Progress, Copying
<1> QED
  BY <1>3, <1>5, <1>6, SoloStep DEF Proc

\* A thread goes on, or stops, with nothing but its job changed.
LEMMA SwitchSolo ==
    ASSUME IInv, NEW w \in Proc, UNCHANGED <<events, db, newer, file, device, firewall, nat>>,
           \A u \in Proc \ {w} : job[u] = Idle /\ job'[u] = Idle,
           job'[w] = Idle \/ (job'[w].pc \in {"config", "down"} /\ w # Boot),
           job[w].pc \notin Generating \/ "failure" \in events \/ job'[w].pc \in Generating
    PROVE  Solo'
<1>1. Progress(job[w])' /\ (job'[Boot] # Idle => device' = Down)
  BY IdleOK DEF Progress, Copying, Proc
<1>2. TunnelAgrees'
  BY DEF IInv, Solo, TunnelAgrees, Agree
<1>3. job'[w].pc \notin Generating => FilesAgree' /\ FilesNoticed'
  <2>1. CASE "failure" \in events
    BY <2>1 DEF FilesAgree, FilesNoticed
  <2>2. CASE job[w].pc \notin Generating
    <3>1. FilesAgree /\ FilesNoticed
      BY <2>2, QuietFiles
    <3> QED
      BY <3>1 DEF FilesAgree, FilesNoticed, Noticed, NeedRegenerate, Agree, Part
  <2> QED
    BY <2>1, <2>2
<1> QED
  BY <1>1, <1>2, <1>3, SoloStep

\* After a query the copy is still the database.
LEMMA ReadSolo ==
    ASSUME IInv, NEW w \in Proc, NEW inputs, NEW f \in File,
           NEW next \in {"peers", "open"}, Read(w, inputs, f, next),
           job[w].pc # "idle", inputs = Input \/ job[w].pc \in Copying,
           next = "open" /\ f = "post-up" => file["wg0.conf"] = Part(db, "wg0.conf"),
           f \in {"wg0.conf", "post-up"}
    PROVE  Solo'
<1>1. /\ UNCHANGED <<events, db, newer, file, device, firewall, nat>>
      /\ job'[w].pc = next /\ job'[w].file = f
      /\ job'[w].copy = [i \in Input |-> IF i \in inputs THEN db[i] ELSE job[w].copy[i]]
      /\ \A u \in Proc \ {w} : job'[u] = job[u]
  BY ReadType DEF IInv
<1>2. inputs = Input \/ job[w].copy = db
  BY DEF IInv, Solo, Progress
<1>3. db = [i \in Input |-> db[i]]
  BY ContentsFields DEF IInv, TypeInv, TypeOK
<1>4. job'[w].copy = db'
  BY <1>1, <1>2, <1>3
<1>5. \A u \in Proc \ {w} : job'[u] = Idle
  BY <1>1, BusyAlone
<1>6. Progress(job[w])'
  BY <1>1, <1>4 DEF Progress
<1>7. job'[Boot] # Idle => device' = Down
  <2>1. job[Boot] # Idle \/ w # Boot
    BY IdleOK
  <2> QED
    BY <1>1, <2>1 DEF IInv, Solo, Proc
<1>8. TunnelAgrees' /\ job'[w].pc \in Generating
  BY <1>1 DEF IInv, Solo, TunnelAgrees, Agree, Generating
<1> QED
  BY <1>5, <1>6, <1>7, <1>8, SoloStep

LEMMA ReadingSolo ==
    ASSUME IInv, NEW w \in Proc, ReadServer(w) \/ ReadPeers(w) \/ ReadRules(w)
    PROVE  Solo'
<1>1. CASE ReadServer(w)
  BY <1>1, ReadSolo DEF ReadServer, File
<1>2. CASE ReadPeers(w)
  BY <1>2, ReadSolo DEF ReadPeers, File, Copying
<1>3. CASE ReadRules(w)
  <2>1. file["wg0.conf"] = Part(db, "wg0.conf")
    BY <1>3 DEF ReadRules, IInv, Solo, Progress
  <2> QED
    BY <1>3, <2>1, ReadSolo DEF ReadRules, File, Copying
<1> QED
  BY <1>1, <1>2, <1>3

LEMMA OpenFileSolo ==
    ASSUME IInv, NEW w \in Proc, OpenFile(w)
    PROVE  Solo'
<1>1. /\ file' = [file EXCEPT ![job[w].file] = Empty]
      /\ UNCHANGED <<events, db, device, firewall, nat>>
      /\ job' = [job EXCEPT ![w] = [@ EXCEPT !.pc = "write"]] /\ job[w].pc = "open"
  BY DEF OpenFile
<1>2. /\ JobOK([job[w] EXCEPT !.pc = "write"]) /\ [job[w] EXCEPT !.pc = "write"].pc = "write"
      /\ [job[w] EXCEPT !.pc = "write"].copy = job[w].copy
      /\ [job[w] EXCEPT !.pc = "write"].file = job[w].file
  <2>1. JobOK(job[w]) /\ "write" \in PCs /\ "open" \in Copying
    BY DEF IInv, TypeInv, PCs, Copying
  <2>2. JobOK([job[w] EXCEPT !.pc = "write"]) /\ [job[w] EXCEPT !.pc = "write"].pc = "write"
    BY <1>1, <2>1, NextPc
  <2> QED
    BY <2>1, <2>2 DEF JobOK, Jobs
<1>3. /\ job'[w].pc = "write" /\ job'[w].copy = job[w].copy /\ job'[w].file = job[w].file
      /\ \A u \in Proc \ {w} : job'[u] = job[u]
  BY <1>1, <1>2, JobStep DEF IInv
<1>4. \A u \in Proc \ {w} : job'[u] = Idle
  BY <1>1, <1>3, BusyAlone
<1>5. Empty \in Content(job[w].file) /\ job[w].file \in File
  BY DEF Content, IInv, TypeInv, TypeOK
<1>6. \A f \in File \ {job[w].file} : file'[f] = file[f]
  BY <1>1, <1>5, FileStep DEF IInv
<1>7. Progress(job[w])
  BY DEF IInv, Solo
<1>8. Progress(job[w])'
  <2>1. job[w].file \in {"post-up", "post-down"} => file'["wg0.conf"] = Part(db, "wg0.conf")
    BY <1>1, <1>6, <1>7 DEF Progress, File
  <2>2. job[w].file = "post-down" => file'["post-up"] = Part(db, "post-up")
    BY <1>1, <1>6, <1>7 DEF Progress, File
  <2>3. job[w].copy = db
    BY <1>1, <1>7 DEF Progress, Copying
  <2> QED
    BY <1>1, <1>3, <2>1, <2>2, <2>3 DEF Progress, Part
<1>9. job'[Boot] # Idle => device' = Down
  <2>1. job[Boot] # Idle \/ w # Boot
    BY <1>1, IdleOK
  <2> QED
    BY <1>1, <1>3, <2>1 DEF IInv, Solo, Proc
<1>10. TunnelAgrees' /\ job'[w].pc \in Generating
  BY <1>1, <1>3 DEF IInv, Solo, TunnelAgrees, Agree, Generating
<1> QED
  BY <1>4, <1>8, <1>9, <1>10, SoloStep

\* What the files made from one database have in common.
LEMMA SameDatabase ==
    ASSUME NEW c \in Contents, NEW conf, NEW rules,
           conf = Part(c, "wg0.conf"), rules = Part(c, "post-up")
    PROVE  Agree(conf, rules)
<1>1. conf # Empty /\ rules # Empty
  BY PartType DEF File
<1>2. ASSUME NEW p \in PeerRow
      PROVE  conf[p] = rules[p]
  <2>1. p \in Feeds("wg0.conf") /\ p \in Feeds("post-up")
    BY InputTypes DEF Feeds, Row, Input
  <2>2. conf[p] = c[p] /\ rules[p] = c[p]
    BY <2>1 DEF Part
  <2> QED
    BY <2>2
<1> QED
  BY <1>1, <1>2 DEF Agree

LEMMA WriteFileSolo ==
    ASSUME IInv, NEW w \in Proc, WriteFile(w)
    PROVE  Solo'
<1> DEFINE j == AfterWrite(w, job[w].file)
<1>1. /\ file' = [file EXCEPT ![job[w].file] = Part(job[w].copy, job[w].file)]
      /\ newer' = {} /\ UNCHANGED <<events, db, device, firewall, nat>>
      /\ job' = [job EXCEPT ![w] = j] /\ job[w].pc = "write"
  BY DEF WriteFile
<1>2. JobOK(job[w]) /\ Progress(job[w])
  BY DEF IInv, TypeInv, Solo
<1>3. job[w].copy = db /\ db \in Contents /\ job[w].file \in File
  BY <1>1, <1>2 DEF Progress, Copying, JobOK, Jobs
<1>4. /\ JobOK(j)
      /\ j.pc = IF job[w].file = "wg0.conf" THEN "rules" ELSE
                IF job[w].file = "post-up" THEN "open" ELSE
                IF w = Boot THEN "up" ELSE "mark"
      /\ job[w].file = "post-up" => j.file = "post-down"
      /\ j.pc # "up" => j.copy = job[w].copy
  BY <1>1, <1>2, AfterWriteFields
<1> HIDE DEF j
<1>5. job'[w] = j /\ \A u \in Proc \ {w} : job'[u] = job[u]
  BY <1>1, <1>4, JobStep DEF IInv
<1>6. \A u \in Proc \ {w} : job'[u] = Idle
  BY <1>1, <1>5, BusyAlone
<1>7. /\ file'[job[w].file] = Part(db, job[w].file)
      /\ \A f \in File \ {job[w].file} : file'[f] = file[f]
  BY <1>1, <1>3, PartType, FileStep DEF IInv
<1>8. w = Boot => device = Down
  BY <1>1, IdleOK DEF IInv, Solo
<1>9. job'[Boot] # Idle => device' = Down
  BY <1>1, <1>6, <1>8 DEF Proc
<1>10. TunnelAgrees'
  BY <1>1 DEF IInv, Solo, TunnelAgrees, Agree
<1>11. CASE job[w].file = "wg0.conf"
  <2>1. j.pc = "rules" /\ j.copy = db /\ file'["wg0.conf"] = Part(db, "wg0.conf")
    BY <1>3, <1>4, <1>7, <1>11
  <2>2. Progress(job[w])' /\ job'[w].pc \in Generating
    BY <1>1, <1>5, <2>1 DEF Progress, Generating, Part
  <2> QED
    BY <1>6, <1>9, <1>10, <2>2, SoloStep
<1>12. CASE job[w].file = "post-up"
  <2>1. j.pc = "open" /\ j.file = "post-down" /\ j.copy = db
    BY <1>3, <1>4, <1>12
  <2>2. file["wg0.conf"] = Part(db, "wg0.conf")
    BY <1>1, <1>2, <1>12 DEF Progress
  <2>3. file'["wg0.conf"] = Part(db, "wg0.conf") /\ file'["post-up"] = Part(db, "post-up")
    BY <1>7, <1>12, <2>2 DEF File
  <2>4. Progress(job[w])' /\ job'[w].pc \in Generating
    BY <1>1, <1>5, <2>1, <2>3 DEF Progress, Generating, Part
  <2> QED
    BY <1>6, <1>9, <1>10, <2>4, SoloStep
<1>13. CASE job[w].file = "post-down"
  <2>1. file["wg0.conf"] = Part(db, "wg0.conf") /\ file["post-up"] = Part(db, "post-up")
    BY <1>1, <1>2, <1>13 DEF Progress
  <2>2. \A f \in File : file'[f] = Part(db, f)
    BY <1>7, <1>13, <2>1 DEF File
  <2>3. \A f \in File : file'[f] = Part(db', f)
    BY <1>1, <2>2
  <2>4. db' \in Contents
    BY <1>1, <1>3
  <2>5. FilesAgree' /\ FilesNoticed'
    <3>1. Agree(file'["wg0.conf"], file'["post-up"])
      BY <2>3, <2>4, SameDatabase DEF File
    <3> QED
      BY <2>3, <3>1 DEF FilesAgree, FilesNoticed, Noticed, Agree, Part
  <2>6. j.pc = IF w = Boot THEN "up" ELSE "mark"
    BY <1>4, <1>13
  <2>7. j.pc = "mark" => j.copy = db'
    BY <1>1, <1>3, <1>4
  <2>8. j.pc = "up" => device' = Down
    BY <1>1, <1>8, <2>6
  <2>9. Progress(job[w])'
    BY <1>1, <1>5, <2>3, <2>6, <2>7, <2>8 DEF Progress, Copying, Part
  <2> QED
    BY <1>6, <1>9, <1>10, <2>5, <2>9, SoloStep
<1> QED
  BY <1>3, <1>11, <1>12, <1>13 DEF File

\* The row that a generation writes back is the row that is there.
LEMMA MarkFaithful ==
    ASSUME IInv, NEW w \in Proc, MarkGenerated(w)
    PROVE  db' = db /\ \A f \in File : file'[f] = Part(db', f)
<1>1. /\ db' = [i \in Input |-> IF i \in Config THEN job[w].copy[i] ELSE db[i]]
      /\ file' = file /\ job[w].pc = "mark"
  BY DEF MarkGenerated
<1>2. job[w].copy = db /\ \A f \in File : file[f] = Part(db, f)
  BY <1>1 DEF IInv, Solo, Progress, Copying
<1>3. db = [i \in Input |-> db[i]]
  BY ContentsFields DEF IInv, TypeInv, TypeOK
<1>4. db' = db
  BY <1>1, <1>2, <1>3
<1> QED
  BY <1>1, <1>2, <1>4

LEMMA MarkGeneratedSolo ==
    ASSUME IInv, NEW w \in Proc, MarkGenerated(w)
    PROVE  Solo'
<1>1. /\ UNCHANGED <<events, file, device, firewall, nat>>
      /\ job' = [job EXCEPT ![w] = Idle] /\ job[w].pc = "mark"
  BY DEF MarkGenerated
<1>2. db' = db /\ \A f \in File : file'[f] = Part(db', f)
  BY MarkFaithful
<1>3. job'[w] = Idle /\ \A u \in Proc \ {w} : job'[u] = Idle
  BY <1>1, BusyAlone, IdleOK, JobStep DEF IInv
<1>4. FilesAgree
  BY <1>1, BusyAlone, QuietFiles DEF Generating
<1>5. FilesAgree' /\ FilesNoticed' /\ TunnelAgrees'
  BY <1>1, <1>2, <1>4 DEF IInv, Solo, FilesAgree, FilesNoticed, Noticed, TunnelAgrees, Agree, Part
<1>6. Progress(job[w])'
  BY <1>3, IdleOK DEF Progress, Copying
<1> QED
  BY <1>3, <1>5, <1>6, SoloStep DEF Proc

LEMMA TunnelDownSolo ==
    ASSUME IInv, NEW w \in Proc, TunnelDown(w)
    PROVE  Solo'
<1>1. /\ UNCHANGED <<events, db, newer, file>> /\ device' = Down
      /\ job' = [job EXCEPT ![w] = [@ EXCEPT !.pc = "up"]] /\ job[w].pc = "down"
  BY DEF TunnelDown
<1>2. /\ JobOK([job[w] EXCEPT !.pc = "up"]) /\ [job[w] EXCEPT !.pc = "up"].pc = "up"
  BY NextPc DEF IInv, TypeInv, PCs, Copying
<1>3. job'[w].pc = "up" /\ \A u \in Proc \ {w} : job'[u] = Idle
  BY <1>1, <1>2, BusyAlone, JobStep DEF IInv
<1>4. FilesAgree /\ FilesNoticed
  BY <1>1, BusyAlone, QuietFiles DEF Generating
<1>5. FilesAgree' /\ FilesNoticed' /\ TunnelAgrees'
  BY <1>1, <1>4 DEF FilesAgree, FilesNoticed, Noticed, NeedRegenerate, TunnelAgrees, Agree, Part
<1>6. Progress(job[w])'
  BY <1>1, <1>3 DEF Progress, Copying
<1> QED
  BY <1>1, <1>3, <1>5, <1>6, SoloStep

\* wg-quick up finds no device.
LEMMA TunnelUpInstalls ==
    ASSUME IInv, NEW w \in Proc, TunnelUp(w)
    PROVE  /\ device = Down /\ device' = file["wg0.conf"]
           /\ file["wg0.conf"] # Empty /\ file["post-up"] # Empty => firewall' = file["post-up"]
<1>1. device = Down
  BY DEF TunnelUp, IInv, Solo, Progress
<1> QED
  BY <1>1 DEF TunnelUp, PostUp

LEMMA TunnelUpSolo ==
    ASSUME IInv, NEW w \in Proc, TunnelUp(w)
    PROVE  Solo'
<1>1. /\ UNCHANGED <<events, db, newer, file>>
      /\ job' = [job EXCEPT ![w] = Idle] /\ job[w].pc = "up"
  BY DEF TunnelUp
<1>2. job'[w] = Idle /\ \A u \in Proc \ {w} : job'[u] = Idle
  BY <1>1, BusyAlone, IdleOK, JobStep DEF IInv
<1>3. FilesAgree /\ FilesNoticed
  BY <1>1, BusyAlone, QuietFiles DEF Generating
<1>4. FilesAgree' /\ FilesNoticed'
  BY <1>1, <1>3 DEF FilesAgree, FilesNoticed, Noticed, NeedRegenerate, Agree, Part
<1>5. TunnelAgrees'
  BY <1>1, <1>3, TunnelUpInstalls DEF FilesAgree, TunnelAgrees, Agree
<1>6. Progress(job[w])'
  BY <1>2, IdleOK DEF Progress, Copying
<1> QED
  BY <1>2, <1>4, <1>5, <1>6, SoloStep DEF Proc

LEMMA RestartSolo ==
    ASSUME IInv, ContainerRestarts
    PROVE  Solo'
<1>1. job'[Boot].pc = "config" /\ \A w \in Proc \ {Boot} : job'[w] = Idle
  BY RestartType DEF IInv
<1>2. Boot \in Proc /\ device' = Down
  BY DEF Proc, ContainerRestarts
<1>3. Progress(job[Boot])'
  BY <1>1 DEF Progress, Copying
<1> QED
  BY <1>1, <1>2, <1>3, SoloStep DEF TunnelAgrees, Generating

LEMMA InitSolo ==
    ASSUME Init
    PROVE  Solo
<1> DEFINE boot == [Idle EXCEPT !.pc = "config"]
<1>1. boot.pc = "config"
  BY IdleOK, NextPc DEF PCs, Copying
<1>2. job = [w \in Proc |-> IF w = Boot THEN boot ELSE Idle] /\ device = Down
  BY DEF Init, DeployInit
<1> HIDE DEF boot
<1>3. Boot \in Proc /\ job[Boot] = boot /\ \A w \in Proc \ {Boot} : job[w] = Idle
  BY <1>2 DEF Proc
<1>4. \A u \in Proc : Progress(job[u])
  BY <1>1, <1>3, IdleProgress DEF Progress, Copying
<1> QED
  BY <1>1, <1>2, <1>3, <1>4 DEF Solo, TunnelAgrees, Generating

LEMMA NextSolo ==
    ASSUME IInv, OneClient, [Next]_vars
    PROVE  Solo'
<1>1. ASSUME NEW w \in Worker, Edit(w)
      PROVE  Solo'
  BY <1>1, SaveRowSolo, SaveServerSolo, DeleteRowSolo DEF Edit
<1>2. ASSUME NEW w \in Worker, Generate(w) \/ RestartTunnel(w)
      PROVE  Solo'
  <2>1. /\ w \in Proc /\ w # Boot /\ UNCHANGED <<events, db, newer, file, device, firewall, nat>>
        /\ Serving(w)
    BY <1>2, ProcAssumption DEF Proc, Generate, RestartTunnel
  <2>2. PICK pc \in {"config", "down"} : job' = [job EXCEPT ![w] = [job[w] EXCEPT !.pc = pc]]
    BY <1>2 DEF Generate, RestartTunnel
  <2>3. \A u \in Proc : job[u] = Idle
    BY <2>1, ServingAlone
  <2>4. /\ \A u \in Proc \ {w} : job'[u] = Idle
        /\ job'[w] = Idle \/ job'[w].pc \in {"config", "down"}
    BY <2>1, <2>2, <2>3, SwitchType DEF IInv
  <2> QED
    BY <2>1, <2>3, <2>4, IdleProgress, SwitchSolo
<1>3. ASSUME NEW w \in Proc, Step(w)
      PROVE  Solo'
  BY <1>3, SetLinksSolo, ReadingSolo, OpenFileSolo, WriteFileSolo, MarkGeneratedSolo,
     TunnelDownSolo, TunnelUpSolo DEF Step
<1>4. ASSUME NEW w \in Proc, GenerateFails(w) \/ RestartTimesOut(w)
      PROVE  Solo'
  <2>1. /\ UNCHANGED <<events, db, newer, file, device, firewall, nat>>
        /\ job' = [job EXCEPT ![w] = Idle]
        /\ job[w].pc # "idle" /\ (job[w].pc \notin Generating \/ "failure" \in events)
    BY <1>4 DEF GenerateFails, RestartTimesOut, Generating
  <2>2. job'[w] = Idle /\ \A u \in Proc \ {w} : job'[u] = Idle /\ job[u] = Idle
    BY <2>1, BusyAlone, SwitchType DEF IInv
  <2> QED
    BY <2>1, <2>2, SwitchSolo
<1>5. CASE ContainerRestarts
  BY <1>5, RestartSolo
<1>6. CASE UNCHANGED vars
  <2>1. UNCHANGED <<db, newer, file, device, firewall, nat, events, job>>
    BY <1>6 DEF vars
  <2>2. \A u \in Proc : Progress(job[u])'
    BY <2>1 DEF IInv, Solo, Progress, Part
  <2>3. /\ FilesAgree => FilesAgree'
        /\ FilesNoticed => FilesNoticed'
        /\ TunnelAgrees => TunnelAgrees'
    BY <2>1 DEF FilesAgree, FilesNoticed, TunnelAgrees, Noticed, NeedRegenerate, Agree, Part
  <2> QED
    BY <2>1, <2>2, <2>3 DEF IInv, Solo
<1> QED
  BY <1>1, <1>2, <1>3, <1>4, <1>5, <1>6 DEF Next

LEMMA InvIsInvariant ==
    ASSUME OneClient
    PROVE  Spec => []IInv
<1>1. Init => IInv
  BY InitType, InitSolo DEF IInv
<1>2. IInv /\ [Next]_vars => IInv'
  BY NextType, NextSolo DEF IInv
<1> QED
  BY <1>1, <1>2, PTL DEF Spec

-----------------------------------------------------------------------------
(* What one client is promised *)

LEMMA SettledFiles ==
    ASSUME IInv, Settled
    PROVE  FilesAgree /\ FilesNoticed
  BY IdleProgress DEF IInv, Solo, Settled

\* With one client, whatever it edits, restarts or stops, files that are not
\* what the database asks for make get_server_status offer "Apply Changes".
THEOREM FilesStayNoticed ==
    ASSUME OneClient
    PROVE  Spec => []StaleFilesAreNoticed
<1>1. IInv => StaleFilesAreNoticed
  BY SettledFiles DEF StaleFilesAreNoticed, ChangesAreNoticed, FilesNoticed
<1> QED
  BY <1>1, InvIsInvariant, PTL

\* With one client, a tunnel that is up and its FORWARD chain know the same
\* peers at the same addresses.
THEOREM SamePeersStayInForce ==
    ASSUME OneClient
    PROVE  Spec => []SamePeersInForce
<1>1. IInv => SamePeersInForce
  BY DEF IInv, Solo, TunnelAgrees, Agree, SamePeersInForce
<1> QED
  BY <1>1, InvIsInvariant, PTL

\* A request of the one client ends by a step of its own or with the container.
LEMMA OwnStep ==
    ASSUME IInv, OneClient, [Next]_vars, NEW w \in Worker, job[w].pc # "idle", job'[w] = Idle
    PROVE  Step(w) \/ GenerateFails(w) \/ RestartTimesOut(w) \/ ContainerRestarts
<1>1. job[w] # Idle /\ w \in Proc
  BY IdleOK DEF Proc
<1>2. ASSUME NEW u \in Worker, Serving(u)
      PROVE  FALSE
  BY <1>1, <1>2, ServingAlone
<1>3. ASSUME NEW u \in Worker, Edit(u) \/ Generate(u) \/ RestartTunnel(u)
      PROVE  FALSE
  BY <1>2, <1>3 DEF Edit, SaveRow, SaveServer, DeleteRow, Generate, RestartTunnel
<1>4. ASSUME NEW u \in Proc, Step(u) \/ GenerateFails(u) \/ RestartTimesOut(u)
      PROVE  u = w
  <2>1. job[u].pc # "idle"
    BY <1>4 DEF Step, GenerateFails, RestartTimesOut, SetLinks, ReadServer, ReadPeers, ReadRules,
       OpenFile, WriteFile, MarkGenerated, TunnelDown, TunnelUp
  <2> QED
    BY <1>1, <2>1, BusyAlone
<1>5. ~ UNCHANGED vars
  BY <1>1 DEF vars
<1> QED
  BY <1>3, <1>4, <1>5 DEF Next

\* With one client, a generation that returns leaves files made from the
\* database that its save leaves.
THEOREM GenerationsAreFaithful ==
    ASSUME OneClient
    PROVE  Spec => GenerationFaithful
<1> DEFINE Faithful ==
        \A w \in Worker :
           job[w].pc = "mark" /\ job'[w] = Idle /\ job'[Boot] = Idle
           => \A f \in File : file'[f] = Part(db', f)
<1>1. IInv /\ [Next]_vars => Faithful
  <2> SUFFICES ASSUME IInv, [Next]_vars, NEW w \in Worker,
                      job[w].pc = "mark", job'[w] = Idle, job'[Boot] = Idle
               PROVE  \A f \in File : file'[f] = Part(db', f)
    OBVIOUS
  <2>1. ~ ContainerRestarts
    BY RestartType, IdleOK DEF IInv
  <2>2. Step(w) \/ GenerateFails(w) \/ RestartTimesOut(w)
    BY <2>1, OwnStep
  <2>3. MarkGenerated(w)
    BY <2>2 DEF Step, GenerateFails, RestartTimesOut, SetLinks, ReadServer, ReadPeers, ReadRules,
       OpenFile, WriteFile, TunnelDown, TunnelUp
  <2> QED
    BY <2>3, MarkFaithful DEF Proc
<1>2. IInv /\ [Next]_vars => [Faithful]_vars
  BY <1>1
<1> QED
  BY <1>2, InvIsInvariant, PTL DEF Spec, GenerationFaithful

\* With one client, a restart that runs to its end puts the generated files in
\* force: wg-quick up never meets the device of somebody else.
THEOREM RestartsInstallFiles ==
    ASSUME OneClient
    PROVE  Spec => RestartInstallsFiles
<1> DEFINE Installs ==
        \A w \in Worker :
           /\ job[w].pc = "up" /\ job'[w] = Idle /\ device' # Down
           /\ \A f \in File : file[f] # Empty
           => device' = file["wg0.conf"] /\ firewall' = file["post-up"]
<1>1. IInv /\ [Next]_vars => Installs
  <2> SUFFICES ASSUME IInv, [Next]_vars, NEW w \in Worker,
                      job[w].pc = "up", job'[w] = Idle, device' # Down,
                      \A f \in File : file[f] # Empty
               PROVE  device' = file["wg0.conf"] /\ firewall' = file["post-up"]
    OBVIOUS
  <2>1. device = Down
    BY DEF IInv, Solo, Progress, Proc
  <2>2. ~ ContainerRestarts /\ ~ GenerateFails(w) /\ ~ RestartTimesOut(w)
    BY <2>1 DEF ContainerRestarts, GenerateFails, RestartTimesOut
  <2>3. Step(w)
    BY <2>2, OwnStep
  <2>4. TunnelUp(w)
    BY <2>3 DEF Step, SetLinks, ReadServer, ReadPeers, ReadRules,
       OpenFile, WriteFile, MarkGenerated, TunnelDown
  <2> QED
    BY <2>4, TunnelUpInstalls DEF Proc, File
<1>2. IInv /\ [Next]_vars => [Installs]_vars
  BY <1>1
<1> QED
  BY <1>2, InvIsInvariant, PTL DEF Spec, RestartInstallsFiles

-----------------------------------------------------------------------------
(* One client: every step is one of the abstract deployment's. *)

\* What a thread reads or waits for, and what ends it early, is no step there.
LEMMA QuietDeploy ==
    ASSUME UNCHANGED <<db, newer, file, device, firewall>>
    PROVE  [DeployNext]_deployVars
  BY DEF deployVars

LEMMA EditDeploys ==
    ASSUME NEW w \in Proc, Edit(w)
    PROVE  DeployNext
<1>1. ASSUME NEW r \in Row, NEW v \in Value, SaveRow(w, r, v)
      PROVE  Save(r) /\ r \in Row \ {Server}
  BY <1>1, RowAssumption DEF SaveRow, Save
<1>2. ASSUME NEW c \in [Config -> Value], SaveServer(w, c)
      PROVE  Reconfigure
  BY <1>2 DEF SaveServer, Reconfigure
<1>3. ASSUME NEW r \in Row, DeleteRow(w, r)
      PROVE  Remove(r) /\ r \in Row \ {Server}
  BY <1>3 DEF DeleteRow, Remove
<1> QED
  BY <1>1, <1>2, <1>3 DEF Edit, DeployNext

\* A file is made from what the thread has read; with one client, that is the database.
LEMMA FileDeploys ==
    ASSUME IInv, NEW w \in Proc, OpenFile(w) \/ WriteFile(w)
    PROVE  DeployNext
<1>1. JobOK(job[w]) /\ Progress(job[w])
  BY DEF IInv, TypeInv, Solo
<1>2. job[w].file \in File
  BY <1>1 DEF JobOK, Jobs
<1>3. WriteFile(w) => job[w].copy = db
  BY <1>1 DEF WriteFile, Progress, Copying
<1>4. Make(job[w].file)
  BY <1>3 DEF OpenFile, WriteFile, Make
<1> QED
  BY <1>2, <1>4 DEF DeployNext

\* Nothing has been noted since the generation wrote its last file, so what it
\* writes back is nothing new.
LEMMA MarkDeploys ==
    ASSUME IInv, NEW w \in Proc, MarkGenerated(w)
    PROVE  UNCHANGED <<db, newer, file, device, firewall>>
<1>1. db' = db
  BY MarkFaithful
<1>2. newer = {}
  BY DEF MarkGenerated, IInv, Solo, Progress
<1> QED
  BY <1>1, <1>2 DEF MarkGenerated

LEMMA TunnelDeploys ==
    ASSUME IInv, NEW w \in Proc, TunnelDown(w) \/ TunnelUp(w)
    PROVE  TakeDown \/ BringUp
<1>1. CASE TunnelDown(w)
  BY <1>1 DEF TunnelDown, PostDown, TakeDown
<1>2. CASE TunnelUp(w)
  BY <1>2, TunnelUpInstalls DEF TunnelUp, PostUp, BringUp
<1> QED
  BY <1>1, <1>2

LEMMA NextDeploys ==
    ASSUME IInv, OneClient, [Next]_vars
    PROVE  [DeployNext]_deployVars
<1>1. ASSUME NEW w \in Worker, Edit(w)
      PROVE  DeployNext
  BY <1>1, EditDeploys DEF Proc
<1>2. ASSUME NEW w \in Worker, Generate(w) \/ RestartTunnel(w)
      PROVE  UNCHANGED <<db, newer, file, device, firewall>>
  BY <1>2 DEF Generate, RestartTunnel
<1>3. ASSUME NEW w \in Proc, Step(w)
      PROVE  [DeployNext]_deployVars
  <2>1. CASE SetLinks(w)
    <3>1. newer # {}
      BY <2>1 DEF SetLinks, IInv, Solo, Progress
    <3>2. Relate
      BY <2>1, <3>1 DEF SetLinks, Relate
    <3> QED
      BY <3>2 DEF DeployNext
  <2>2. CASE ReadServer(w) \/ ReadPeers(w) \/ ReadRules(w)
    BY <2>2, QuietDeploy DEF ReadServer, ReadPeers, ReadRules, Read
  <2>3. CASE OpenFile(w) \/ WriteFile(w)
    BY <2>3, FileDeploys
  <2>4. CASE MarkGenerated(w)
    BY <2>4, MarkDeploys, QuietDeploy
  <2>5. CASE TunnelDown(w) \/ TunnelUp(w)
    BY <2>5, TunnelDeploys DEF DeployNext
  <2> QED
    BY <1>3, <2>1, <2>2, <2>3, <2>4, <2>5 DEF Step
<1>4. ASSUME NEW w \in Proc, GenerateFails(w) \/ RestartTimesOut(w)
      PROVE  UNCHANGED <<db, newer, file, device, firewall>>
  BY <1>4 DEF GenerateFails, RestartTimesOut
<1>5. ContainerRestarts => Stop
  BY DEF ContainerRestarts, Stop
<1>6. UNCHANGED vars => UNCHANGED <<db, newer, file, device, firewall>>
  BY DEF vars
<1> QED
  BY <1>1, <1>2, <1>3, <1>4, <1>5, <1>6, QuietDeploy DEF Next, DeployNext

\* With one client, the pipeline implements the abstract deployment, through every
\* failure, timeout and stop of the container: no copy that a thread has taken is
\* out of date when it is used, and device and rules are made from the files together.
THEOREM ApplyChangesImplementsDeployment ==
    ASSUME OneClient
    PROVE  Spec => ImplementsDeployment
<1>1. Init => DeployInit
  BY DEF Init
<1>2. IInv /\ [Next]_vars => [DeployNext]_deployVars
  BY NextDeploys
<1> QED
  BY <1>1, <1>2, InvIsInvariant, PTL DEF Spec, ImplementsDeployment, DeploySpec

-----------------------------------------------------------------------------
(* Any number of clients: the redirection of DNS, which only wg-quick and the *)
(* container touch.                                                          *)

LEMMA InsertedIsFirst ==
    ASSUME NEW v
    PROVE  <<v, v>> \in InsertFirst(v) /\ \A r \in InsertFirst(v) : <<v, r[1]>> \in InsertFirst(v)
<1> DEFINE Left == {r[1] : r \in nat} \cup {v}
<1>1. v \in Left /\ \A r \in Without(v) : r[1] \in Left
  BY DEF Without
<1>2. \A r \in {<<v, u>> : u \in Left} : r[1] = v
  OBVIOUS
<1> QED
  BY <1>1, <1>2 DEF InsertFirst

LEMMA NextDns ==
    ASSUME DnsReachesUpstream, [Next]_vars
    PROVE  DnsReachesUpstream'
<1>1. CASE UNCHANGED <<firewall, nat>>
  BY <1>1 DEF DnsReachesUpstream
<1>2. CASE firewall' = Empty
  BY <1>2 DEF DnsReachesUpstream
<1>3. ASSUME NEW w \in Proc, TunnelDown(w)
      PROVE  DnsReachesUpstream'
  BY <1>1, <1>2, <1>3 DEF TunnelDown, PostDown
<1>4. ASSUME NEW w \in Proc, TunnelUp(w)
      PROVE  DnsReachesUpstream'
  <2>1. CASE PostUp /\ file["post-up"] # Empty
    BY <2>1, InsertedIsFirst DEF PostUp, DnsReachesUpstream
  <2> QED
    BY <1>1, <1>4, <2>1 DEF TunnelUp, PostUp
<1>5. CASE ContainerRestarts
  BY <1>2, <1>5 DEF ContainerRestarts
<1>6. ASSUME NEW w \in Worker, Edit(w) \/ Generate(w) \/ RestartTunnel(w)
      PROVE  UNCHANGED <<firewall, nat>>
  BY <1>6 DEF Edit, SaveRow, SaveServer, DeleteRow, Generate, RestartTunnel
<1>7. ASSUME NEW w \in Proc, SetLinks(w) \/ ReadServer(w) \/ ReadPeers(w) \/ ReadRules(w)
                             \/ OpenFile(w) \/ WriteFile(w) \/ MarkGenerated(w)
                             \/ GenerateFails(w) \/ RestartTimesOut(w)
      PROVE  UNCHANGED <<firewall, nat>>
  BY <1>7 DEF SetLinks, ReadServer, ReadPeers, ReadRules, Read, OpenFile, WriteFile,
     MarkGenerated, GenerateFails, RestartTimesOut
<1>8. CASE UNCHANGED vars
  BY <1>1, <1>8 DEF vars
<1> QED
  BY <1>1, <1>3, <1>4, <1>5, <1>6, <1>7, <1>8 DEF Next, Step

\* Whoever generates and restarts, and however much an earlier configuration
\* left in the nat table, DNS goes where the rules in force send it.
THEOREM DnsAlwaysReachesUpstream == Spec => []DnsReachesUpstream
<1>1. Init => DnsReachesUpstream
  BY DEF Init, DeployInit, DnsReachesUpstream
<1> QED
  BY <1>1, NextDns, PTL DEF Spec

-----------------------------------------------------------------------------
(* Any number of clients: no file stays truncated.                           *)

\* The files that a job has yet to write.
Pending(j) ==
    {f \in File :
        \/ j.pc \in {"config", "peers"}
        \/ j.pc = "rules" /\ f # "wg0.conf"
        \/ /\ j.pc \in {"open", "write"}
           /\ j.file \in {"wg0.conf", f} \/ (j.file = "post-up" /\ f = "post-down")}

Whole == \A f \in File : file[f] = Empty => \E u \in Proc : f \in Pending(job[u])

NoFailures == \A e \in Scenarios : "failure" \notin e

LEMMA IdlePending == Pending(Idle) = {}
  BY IdleOK DEF Pending

\* One thread's step: it leaves pending, or had not pending, what is empty.
LEMMA WholeStep ==
    ASSUME Whole, NEW w \in Proc, \A u \in Proc \ {w} : job'[u] = job[u],
           \A f \in File : file'[f] = Empty =>
              f \in Pending(job'[w]) \/ (file[f] = Empty /\ f \notin Pending(job[w]))
    PROVE  Whole'
<1> SUFFICES ASSUME NEW f \in File, file'[f] = Empty
             PROVE  \E u \in Proc : f \in Pending(job'[u])
  BY DEF Whole, Pending
<1>1. CASE f \in Pending(job'[w])
  BY <1>1
<1>2. CASE file[f] = Empty /\ f \notin Pending(job[w])
  <2>1. PICK u \in Proc : f \in Pending(job[u])
    BY <1>2 DEF Whole
  <2>2. job'[u] = job[u]
    BY <1>2, <2>1
  <2> QED
    BY <2>1, <2>2
<1> QED
  BY <1>1, <1>2

\* A step of a thread that has nothing pending.
LEMMA OtherStep ==
    ASSUME Whole, NEW w \in Proc, file' = file, \A u \in Proc \ {w} : job'[u] = job[u],
           Pending(job[w]) = {}
    PROVE  Whole'
  BY WholeStep

LEMMA EditWhole ==
    ASSUME TypeInv, Whole, NEW w \in Worker, Edit(w)
    PROVE  Whole'
<1>1. w \in Proc /\ file' = file /\ job[w] = Idle
  BY DEF Proc, Edit, SaveRow, SaveServer, DeleteRow, Serving
<1>2. \A u \in Proc \ {w} : job'[u] = job[u]
  <2>1. CASE UNCHANGED job
    BY <2>1
  <2>2. CASE job' = [job EXCEPT ![w] = [@ EXCEPT !.pc = "links"]]
    BY <2>2 DEF TypeInv
  <2> QED
    BY <2>1, <2>2 DEF Edit, SaveRow, SaveServer, DeleteRow
<1> QED
  BY <1>1, <1>2, IdlePending, OtherStep

LEMMA ReadingWhole ==
    ASSUME TypeInv, Whole, NEW w \in Proc, ReadServer(w) \/ ReadPeers(w) \/ ReadRules(w)
    PROVE  Whole'
<1>1. CASE ReadServer(w)
  <2>1. /\ file' = file /\ \A u \in Proc \ {w} : job'[u] = job[u]
        /\ job'[w].pc = "peers"
    BY <1>1, ReadType DEF ReadServer, File
  <2> QED
    BY <2>1, WholeStep DEF Whole, Pending
<1>2. CASE ReadPeers(w)
  <2>1. /\ file' = file /\ \A u \in Proc \ {w} : job'[u] = job[u]
        /\ job'[w].pc = "open" /\ job'[w].file = "wg0.conf"
    BY <1>2, ReadType DEF ReadPeers, File, Copying
  <2> QED
    BY <2>1, WholeStep DEF Whole, Pending
<1>3. CASE ReadRules(w)
  <2>1. /\ file' = file /\ \A u \in Proc \ {w} : job'[u] = job[u]
        /\ job'[w].pc = "open" /\ job'[w].file = "post-up" /\ job[w].pc = "rules"
    BY <1>3, ReadType DEF ReadRules, File, Copying
  <2>2. \A f \in File : f \in Pending(job'[w]) \/ f \notin Pending(job[w])
    BY <2>1 DEF Pending, File
  <2> QED
    BY <2>1, <2>2, WholeStep
<1> QED
  BY <1>1, <1>2, <1>3

LEMMA OpenFileWhole ==
    ASSUME TypeInv, Whole, NEW w \in Proc, OpenFile(w)
    PROVE  Whole'
<1>1. /\ file' = [file EXCEPT ![job[w].file] = Empty] /\ job[w].pc = "open"
      /\ job' = [job EXCEPT ![w] = [@ EXCEPT !.pc = "write"]]
  BY DEF OpenFile
<1>2. JobOK(job[w]) /\ job[w].file \in File /\ "write" \in PCs
  BY DEF TypeInv, TypeOK, PCs
<1> DEFINE j == [job[w] EXCEPT !.pc = "write"]
<1>3. JobOK(j) /\ j.pc = "write" /\ j.file = job[w].file
  BY <1>1, <1>2, NextPc DEF Copying
<1> HIDE DEF j
<1>4. job'[w] = j /\ \A u \in Proc \ {w} : job'[u] = job[u]
  BY <1>1, <1>3, JobStep DEF j
<1>5. \A f \in File \ {job[w].file} : file'[f] = file[f]
  BY <1>1 DEF TypeInv
<1>6. Pending(j) = Pending(job[w]) /\ job[w].file \in Pending(j)
  BY <1>1, <1>2, <1>3 DEF Pending
<1> QED
  BY <1>4, <1>5, <1>6, WholeStep

LEMMA WriteFileWhole ==
    ASSUME TypeInv, Whole, NEW w \in Proc, WriteFile(w)
    PROVE  Whole'
<1>1. /\ file' = [file EXCEPT ![job[w].file] = Part(job[w].copy, job[w].file)]
      /\ job' = [job EXCEPT ![w] = AfterWrite(w, job[w].file)] /\ job[w].pc = "write"
  BY DEF WriteFile
<1> DEFINE f == job[w].file
           j == AfterWrite(w, f)
<1>2. JobOK(job[w]) /\ f \in File /\ job[w].copy \in Contents
  BY <1>1 DEF TypeInv, TypeOK, JobOK, Copying
<1>3. Part(job[w].copy, f) \in Content(f) /\ Part(job[w].copy, f) # Empty
  BY <1>2, PartType
<1>4. /\ file'[f] # Empty
      /\ \A g \in File \ {f} : file'[g] = file[g]
  BY <1>1, <1>3, FileStep
<1>5. /\ JobOK(j)
      /\ j.pc = IF f = "wg0.conf" THEN "rules" ELSE
                IF f = "post-up" THEN "open" ELSE
                IF w = Boot THEN "up" ELSE "mark"
      /\ f = "post-up" => j.file = "post-down"
  BY <1>1, <1>2, AfterWriteFields
<1> HIDE DEF j
<1>6. job'[w] = j /\ \A u \in Proc \ {w} : job'[u] = job[u]
  BY <1>1, <1>5, JobStep DEF j
<1>7. \A g \in File \ {f} : g \in Pending(j) \/ g \notin Pending(job[w])
  BY <1>1, <1>2, <1>5 DEF Pending, File
<1> QED
  BY <1>4, <1>6, <1>7, WholeStep

LEMMA RestartWhole ==
    ASSUME TypeInv, ContainerRestarts
    PROVE  Whole'
<1>1. job'[Boot].pc = "config" /\ Boot \in Proc
  BY RestartType DEF Proc
<1> QED
  BY <1>1 DEF Whole, Pending

LEMMA NextWhole ==
    ASSUME TypeInv, Whole, NoFailures, [Next]_vars
    PROVE  Whole'
<1>1. ASSUME NEW w \in Worker, Generate(w) \/ RestartTunnel(w)
      PROVE  Whole'
  <2>1. w \in Proc /\ job[w] = Idle /\ UNCHANGED <<events, db, newer, file, device, firewall, nat>>
    BY <1>1 DEF Proc, Generate, RestartTunnel, Serving
  <2>2. PICK pc \in {"config", "down"} : job' = [job EXCEPT ![w] = [job[w] EXCEPT !.pc = pc]]
    BY <1>1 DEF Generate, RestartTunnel
  <2>3. \A u \in Proc \ {w} : job'[u] = job[u]
    BY <2>1, <2>2, SwitchType
  <2> QED
    BY <2>1, <2>3, IdlePending, OtherStep
<1>2. ASSUME NEW w \in Proc, SetLinks(w) \/ MarkGenerated(w) \/ TunnelDown(w) \/ TunnelUp(w)
      PROVE  Whole'
  <2>1. file' = file /\ job[w].pc \in {"links", "mark", "down", "up"}
    BY <1>2 DEF SetLinks, MarkGenerated, TunnelDown, TunnelUp
  <2>2. \/ job' = [job EXCEPT ![w] = Idle]
        \/ job' = [job EXCEPT ![w] = [@ EXCEPT !.pc = "up"]]
    BY <1>2 DEF SetLinks, MarkGenerated, TunnelDown, TunnelUp
  <2>3. \A u \in Proc \ {w} : job'[u] = job[u]
    BY <2>2 DEF TypeInv
  <2>4. Pending(job[w]) = {}
    BY <2>1 DEF Pending
  <2> QED
    BY <2>1, <2>3, <2>4, OtherStep
<1>3. ASSUME NEW w \in Proc, Step(w)
      PROVE  Whole'
  BY <1>2, <1>3, ReadingWhole, OpenFileWhole, WriteFileWhole DEF Step
<1>4. ASSUME NEW w \in Proc, RestartTimesOut(w)
      PROVE  Whole'
  <2>1. file' = file /\ job[w].pc = "up" /\ job' = [job EXCEPT ![w] = Idle]
    BY <1>4 DEF RestartTimesOut
  <2>2. \A u \in Proc \ {w} : job'[u] = job[u]
    BY <2>1 DEF TypeInv
  <2>3. Pending(job[w]) = {}
    BY <2>1 DEF Pending
  <2> QED
    BY <2>1, <2>2, <2>3, OtherStep
<1>5. ASSUME NEW w \in Proc, GenerateFails(w)
      PROVE  FALSE
  BY <1>5 DEF GenerateFails, NoFailures, TypeInv, TypeOK
<1>6. CASE UNCHANGED vars
  <2>1. file' = file /\ job' = job
    BY <1>6 DEF vars
  <2> QED
    BY <2>1 DEF Whole, Pending
<1> QED
  BY <1>1, <1>3, <1>4, <1>5, <1>6, EditWhole, RestartWhole DEF Next

\* Whatever generations of any number of clients overlap, restart or stop with
\* the container, nothing is left truncated once all are done, unless an error
\* ends one of them in the middle.
THEOREM NoFileStaysTruncated ==
    ASSUME NoFailures
    PROVE  Spec => []FilesComplete
<1>1. Init => Whole
  <2> SUFFICES ASSUME Init
               PROVE  Whole
    OBVIOUS
  <2>1. Boot \in Proc /\ job[Boot] = [Idle EXCEPT !.pc = "config"]
    BY DEF Init, Proc
  <2>2. job[Boot].pc = "config"
    BY <2>1, IdleOK, NextPc DEF PCs, Copying
  <2> QED
    BY <2>1, <2>2 DEF Whole, Pending
<1>2. TypeInv /\ Whole /\ [Next]_vars => TypeInv' /\ Whole'
  BY NextType, NextWhole
<1>3. Init => TypeInv
  BY InitType
<1>4. TypeInv /\ Whole => FilesComplete
  BY IdlePending DEF Whole, FilesComplete, Settled
<1> QED
  BY <1>1, <1>2, <1>3, <1>4, PTL DEF Spec

-----------------------------------------------------------------------------
(* Any number of clients: no thread is stuck.  CanStep(w) says that there are  *)
(* next values of the variables with which <<Step(w)>>_vars holds; the prover  *)
(* does not expand ENABLED, so LeadsTo names such values, StepLeadsTo shows    *)
(* that they are a step, and ThreadsNeverStuck that they exist.                *)

CanStep(w) == ENABLED <<Step(w)>>_vars

NeverStuck == \A w \in Proc : job[w] # Idle => CanStep(w)

Kernel == <<device, firewall, nat>>

AfterDown ==
    IF device # Down /\ file["wg0.conf"] # Empty /\ file["post-down"] # Empty
    THEN <<Down, Empty, Without(file["post-down"][Server])>>
    ELSE <<Down, firewall, nat>>

AfterUp ==
    IF device # Down THEN Kernel
    ELSE IF file["wg0.conf"] # Empty /\ file["post-up"] # Empty
    THEN <<file["wg0.conf"], file["post-up"], InsertFirst(file["post-up"][Server])>>
    ELSE <<file["wg0.conf"], firewall, nat>>

Loaded(w, inputs, f, next) ==
    [pc |-> next, file |-> f,
     copy |-> [i \in Input |-> IF i \in inputs THEN db[i] ELSE job[w].copy[i]]]

\* From this state, thread w can go on to the one with these values.
LeadsTo(w, d, n, f, k, j) ==
    \/ /\ job[w].pc = "links" /\ j = Idle /\ <<n, f, k>> = <<newer, file, Kernel>>
       /\ \E v \in Value : d = [db EXCEPT ![Links] = v]
    \/ /\ job[w].pc \in {"config", "peers", "rules"} /\ <<d, n, f, k>> = <<db, newer, file, Kernel>>
       /\ j = CASE job[w].pc = "config" -> Loaded(w, Input, "wg0.conf", "peers")
                [] job[w].pc = "peers" -> Loaded(w, PeerRow \cup GroupRow, "wg0.conf", "open")
                [] job[w].pc = "rules" ->
                      Loaded(w, PeerRow \cup GroupRow \cup TargetRow \cup {Links}, "post-up", "open")
    \/ /\ job[w].pc = "open" /\ <<d, n, k>> = <<db, {}, Kernel>>
       /\ f = [file EXCEPT ![job[w].file] = Empty] /\ j = [job[w] EXCEPT !.pc = "write"]
    \/ /\ job[w].pc = "write" /\ <<d, n, k>> = <<db, {}, Kernel>>
       /\ f = [file EXCEPT ![job[w].file] = Part(job[w].copy, job[w].file)]
       /\ j = AfterWrite(w, job[w].file)
    \/ /\ job[w].pc = "mark" /\ j = Idle /\ <<n, f, k>> = <<newer \ {Server}, file, Kernel>>
       /\ d = [i \in Input |-> IF i \in Config THEN job[w].copy[i] ELSE db[i]]
    \/ /\ job[w].pc = "down" /\ j = [job[w] EXCEPT !.pc = "up"]
       /\ <<d, n, f, k>> = <<db, newer, file, AfterDown>>
    \/ /\ job[w].pc = "up" /\ j = Idle
       /\ <<d, n, f, k>> = <<db, newer, file, AfterUp>>

LEMMA LeadsOn ==
    ASSUME TypeInv, NEW w \in Proc, NEW d, NEW n, NEW f, NEW k, NEW j, LeadsTo(w, d, n, f, k, j)
    PROVE  j.pc # job[w].pc
<1>1. CASE job[w].pc \in {"links", "mark", "up"}
  BY <1>1, IdleOK DEF LeadsTo
<1>2. CASE job[w].pc \in {"config", "peers", "rules"}
  BY <1>2 DEF LeadsTo, Loaded
<1>3. CASE job[w].pc \in {"open", "down"}
  <2>1. \E pc \in {"write", "up"} : j = [job[w] EXCEPT !.pc = pc]
    BY <1>3 DEF LeadsTo
  <2> QED
    BY <1>3, <2>1 DEF TypeInv, JobOK, Jobs
<1>4. CASE job[w].pc = "write"
  BY <1>4, AfterWriteFields DEF LeadsTo, TypeInv
<1> QED
  BY <1>1, <1>2, <1>3, <1>4 DEF LeadsTo

LEMMA StepLeadsTo ==
    ASSUME TypeInv, NEW w \in Proc, NEW j, LeadsTo(w, db', newer', file', <<device', firewall', nat'>>, j),
           job' = [job EXCEPT ![w] = j], UNCHANGED events
    PROVE  <<Step(w)>>_vars
<1> SUFFICES Step(w)
  <2>1. job' # job
    BY LeadsOn DEF TypeInv
  <2> QED
    BY <2>1 DEF vars
<1>2. CASE job[w].pc = "links"
  BY <1>2 DEF LeadsTo, Kernel, Step, SetLinks
<1>3. CASE job[w].pc \in {"config", "peers", "rules"}
  BY <1>3 DEF LeadsTo, Kernel, Loaded, Step, ReadServer, ReadPeers, ReadRules, Read
<1>4. CASE job[w].pc = "open"
  BY <1>4 DEF LeadsTo, Kernel, Step, OpenFile
<1>5. CASE job[w].pc = "write"
  BY <1>5 DEF LeadsTo, Kernel, Step, WriteFile
<1>6. CASE job[w].pc = "mark"
  BY <1>6 DEF LeadsTo, Kernel, Step, MarkGenerated
<1>7. CASE job[w].pc = "down"
  BY <1>7 DEF LeadsTo, Kernel, AfterDown, Step, TunnelDown, PostDown
<1>8. CASE job[w].pc = "up"
  BY <1>8 DEF LeadsTo, Kernel, AfterUp, Step, TunnelUp, PostUp
<1> QED
  BY <1>2, <1>3, <1>4, <1>5, <1>6, <1>7, <1>8 DEF LeadsTo

\* A thread without a request holds nothing.
Parked == \A w \in Proc : job[w].pc = "idle" => job[w] = Idle

LEMMA ParkedStep ==
    ASSUME TypeInv, Parked, [Next]_vars
    PROVE  Parked'
<1>1. ASSUME NEW w \in Proc, NEW j, job' = [job EXCEPT ![w] = j], j = Idle \/ j.pc # "idle"
      PROVE  Parked'
  BY <1>1 DEF TypeInv, Parked
<1>2. ASSUME NEW w \in Proc, NEW pc \in PCs \ {"idle"},
             job' = [job EXCEPT ![w] = [@ EXCEPT !.pc = pc]]
      PROVE  Parked'
  <2>1. [job[w] EXCEPT !.pc = pc].pc = pc
    BY DEF TypeInv, JobOK, Jobs
  <2> QED
    BY <1>1, <1>2, <2>1
<1>3. ASSUME NEW w \in Worker, Edit(w) \/ Generate(w) \/ RestartTunnel(w)
      PROVE  Parked'
  <2>1. \/ job' = job
        \/ \E pc \in PCs \ {"idle"} : job' = [job EXCEPT ![w] = [@ EXCEPT !.pc = pc]]
    BY <1>3 DEF Edit, SaveRow, SaveServer, DeleteRow, Generate, RestartTunnel, PCs
  <2> QED
    BY <1>2, <2>1 DEF Proc, Parked
<1>4. ASSUME NEW w \in Proc, Step(w) \/ GenerateFails(w) \/ RestartTimesOut(w)
      PROVE  Parked'
  <2>1. CASE SetLinks(w) \/ MarkGenerated(w) \/ TunnelUp(w) \/ GenerateFails(w) \/ RestartTimesOut(w)
    <3>1. job' = [job EXCEPT ![w] = Idle]
      BY <2>1 DEF SetLinks, MarkGenerated, TunnelUp, GenerateFails, RestartTimesOut
    <3> QED
      BY <1>1, <3>1
  <2>2. CASE OpenFile(w) \/ TunnelDown(w)
    BY <1>2, <2>2 DEF OpenFile, TunnelDown, PCs
  <2>3. CASE ReadServer(w) \/ ReadPeers(w) \/ ReadRules(w)
    BY <1>1, <2>3 DEF ReadServer, ReadPeers, ReadRules, Read
  <2>4. CASE WriteFile(w)
    <3>1. JobOK(job[w]) /\ job[w].pc = "write" /\ job' = [job EXCEPT ![w] = AfterWrite(w, job[w].file)]
      BY <2>4 DEF WriteFile, TypeInv
    <3>2. AfterWrite(w, job[w].file).pc # "idle"
      BY <3>1, AfterWriteFields
    <3> QED
      BY <1>1, <3>1, <3>2
  <2> QED
    BY <1>4, <2>1, <2>2, <2>3, <2>4 DEF Step
<1>5. CASE ContainerRestarts
  <2>1. \A w \in Proc : job'[w] = Idle \/ job'[w] = [Idle EXCEPT !.pc = "config"]
    BY <1>5 DEF ContainerRestarts
  <2>2. [Idle EXCEPT !.pc = "config"].pc = "config"
    BY DEF Idle
  <2> QED
    BY <2>1, <2>2 DEF Parked
<1>6. CASE UNCHANGED vars
  BY <1>6 DEF vars, Parked
<1> QED
  BY <1>3, <1>4, <1>5, <1>6 DEF Next

\* What the meaning of ENABLED makes of StepLeadsTo.
StepsCan ==
    TypeInv => \A w \in Proc : (\E d, n, f, k, j : LeadsTo(w, d, n, f, k, j)) => CanStep(w)

\* However many generations and restarts overlap, each has its next query, file or
\* command: none waits for another (wireguard_helper.py).
LEMMA ThreadsNeverStuck == Spec /\ []StepsCan => []NeverStuck
<1>1. TypeInv /\ Parked /\ StepsCan => NeverStuck
  <2> SUFFICES ASSUME TypeInv, Parked, StepsCan, NEW w \in Proc, job[w] # Idle
               PROVE  \E d, n, f, k, j : LeadsTo(w, d, n, f, k, j)
    BY DEF StepsCan, NeverStuck
  <2>1. PICK v \in Value : TRUE
    BY ContentsFields, InputTypes DEF TypeInv, TypeOK
  <2>2. job[w].pc \in PCs \ {"idle"}
    BY DEF TypeInv, TypeOK, Parked, PCs
  <2> QED
    BY <2>1, <2>2 DEF LeadsTo, PCs
<1>2. Init => Parked
  <2>1. [Idle EXCEPT !.pc = "config"].pc = "config"
    BY DEF Idle
  <2> QED
    BY <2>1 DEF Init, Parked
<1>3. Spec => []TypeInv /\ []Parked
  BY <1>2, InitType, NextType, ParkedStep, PTL DEF Spec
<1> QED
  BY <1>1, <1>3, PTL

-----------------------------------------------------------------------------
(* Any number of clients: the tunnel comes back.  One hypothesis is []Fairness, *)
(* which is Fairness, but the prover cannot exchange [] and the \A of Fairness. *)

NoTimeouts == \A e \in Scenarios : "timeout" \notin e

\* Where the start is that is still to bring the tunnel up.
On(pc) == job[Boot].pc = pc

At(pc, f) == job[Boot].pc = pc /\ job[Boot].file = f

Boots == On("config") \/ On("peers") \/ On("rules") \/ \E f \in File : At("open", f) \/ At("write", f)

Rises(w) == device = Down /\ job[w].pc = "up"

Rising == device = Down => Boots \/ \E w \in Proc : Rises(w)

LEMMA StepJob ==
    ASSUME NEW u \in Proc, Step(u) \/ GenerateFails(u) \/ RestartTimesOut(u)
    PROVE  \E j : job' = [job EXCEPT ![u] = j]
<1>1. CASE SetLinks(u) \/ OpenFile(u) \/ WriteFile(u) \/ MarkGenerated(u)
  BY <1>1 DEF SetLinks, OpenFile, WriteFile, MarkGenerated
<1>2. CASE ReadServer(u) \/ ReadPeers(u) \/ ReadRules(u)
  BY <1>2 DEF ReadServer, ReadPeers, ReadRules, Read
<1>3. CASE TunnelDown(u) \/ TunnelUp(u)
  BY <1>3 DEF TunnelDown, TunnelUp
<1>4. CASE GenerateFails(u) \/ RestartTimesOut(u)
  BY <1>4 DEF GenerateFails, RestartTimesOut
<1> QED
  BY <1>1, <1>2, <1>3, <1>4 DEF Step

LEMMA RequestJob ==
    ASSUME NEW u \in Worker, Edit(u) \/ Generate(u) \/ RestartTunnel(u)
    PROVE  Serving(u) /\ (job' = job \/ \E j : job' = [job EXCEPT ![u] = j])
<1>1. CASE Edit(u)
  BY <1>1 DEF Edit, SaveRow, SaveServer, DeleteRow
<1>2. CASE Generate(u) \/ RestartTunnel(u)
  BY <1>2 DEF Generate, RestartTunnel
<1> QED
  BY <1>1, <1>2

\* A restart at wg-quick up, and the start, are only ever moved by themselves.
LEMMA OwnSteps ==
    ASSUME TypeInv, NoTimeouts, [Next]_vars, [~ContainerRestarts]_vars, NEW w \in Proc,
           job[w].pc = "up" \/ (w = Boot /\ job[w].pc # "idle")
    PROVE  Step(w) \/ job'[w] = job[w]
<1>1. ASSUME NEW u \in Proc \ {w}, NEW j, job' = [job EXCEPT ![u] = j]
      PROVE  job'[w] = job[w]
  BY <1>1 DEF TypeInv
<1>2. ASSUME NEW u \in Worker, Edit(u) \/ Generate(u) \/ RestartTunnel(u)
      PROVE  job'[w] = job[w]
  <2>1. u \in Proc /\ u # w
    BY <1>2, RequestJob, IdleOK DEF Serving, Proc
  <2> QED
    BY <1>1, <1>2, <2>1, RequestJob
<1>3. ASSUME NEW u \in Proc, Step(u) \/ GenerateFails(u) \/ RestartTimesOut(u)
      PROVE  Step(w) \/ job'[w] = job[w]
  <2>1. CASE u # w
    BY <1>1, <1>3, <2>1, StepJob
  <2>2. CASE u = w
    BY <1>3, <2>2 DEF GenerateFails, RestartTimesOut, NoTimeouts, TypeInv, TypeOK
  <2> QED
    BY <2>1, <2>2
<1>4. CASE UNCHANGED vars
  BY <1>4 DEF vars
<1>5. CASE Next /\ ~ContainerRestarts
  BY <1>2, <1>3, <1>5 DEF Next
<1> QED
  BY <1>4, <1>5

\* wg-quick up leaves a device.
LEMMA UpLeavesDevice ==
    ASSUME TypeInv, NEW w \in Proc, Step(w), job[w].pc = "up"
    PROVE  device' # Down
<1>1. TunnelUp(w)
  BY DEF Step, SetLinks, ReadServer, ReadPeers, ReadRules, OpenFile, WriteFile, MarkGenerated,
     TunnelDown
<1>2. file["wg0.conf"] # Down
  BY DownAssumption DEF TypeInv, TypeOK, Content, File
<1> QED
  BY <1>1, <1>2 DEF TunnelUp

\* The start takes one step after the other.
LEMMA BootAdvances ==
    ASSUME TypeInv, Step(Boot)
    PROVE  /\ On("config") => On("peers")'
           /\ On("peers") => At("open", "wg0.conf")'
           /\ At("open", "wg0.conf") => At("write", "wg0.conf")'
           /\ At("write", "wg0.conf") => On("rules")'
           /\ On("rules") => At("open", "post-up")'
           /\ At("open", "post-up") => At("write", "post-up")'
           /\ At("write", "post-up") => At("open", "post-down")'
           /\ At("open", "post-down") => At("write", "post-down")'
           /\ At("write", "post-down") => On("up")'
<1> Boot \in Proc
  BY DEF Proc
<1>1. ASSUME On("config") \/ On("peers") \/ On("rules")
      PROVE  /\ On("config") => On("peers")'
             /\ On("peers") => At("open", "wg0.conf")'
             /\ On("rules") => At("open", "post-up")'
  <2>1. /\ On("config") => ReadServer(Boot)
        /\ On("peers") => ReadPeers(Boot)
        /\ On("rules") => ReadRules(Boot)
    BY <1>1 DEF On, Step, SetLinks, ReadServer, ReadPeers, ReadRules, OpenFile, WriteFile,
       MarkGenerated, TunnelDown, TunnelUp
  <2> QED
    BY <1>1, <2>1, ReadType DEF On, At, ReadServer, ReadPeers, ReadRules, File, Copying
<1>2. ASSUME On("open")
      PROVE  \A f \in File : At("open", f) => At("write", f)'
  <2>1. OpenFile(Boot)
    BY <1>2 DEF On, Step, SetLinks, ReadServer, ReadPeers, ReadRules, WriteFile,
       MarkGenerated, TunnelDown, TunnelUp
  <2>2. JobOK([job[Boot] EXCEPT !.pc = "write"])
        /\ [job[Boot] EXCEPT !.pc = "write"].pc = "write"
        /\ [job[Boot] EXCEPT !.pc = "write"].file = job[Boot].file
    BY <1>2, NextPc DEF TypeInv, On, PCs, Copying
  <2>3. job'[Boot] = [job[Boot] EXCEPT !.pc = "write"]
    BY <2>1, <2>2, JobStep DEF OpenFile
  <2> QED
    BY <2>2, <2>3 DEF At
<1>3. ASSUME On("write")
      PROVE  /\ At("write", "wg0.conf") => On("rules")'
             /\ At("write", "post-up") => At("open", "post-down")'
             /\ At("write", "post-down") => On("up")'
  <2>1. WriteFile(Boot)
    BY <1>3 DEF On, Step, SetLinks, ReadServer, ReadPeers, ReadRules, OpenFile,
       MarkGenerated, TunnelDown, TunnelUp
  <2> DEFINE j == AfterWrite(Boot, job[Boot].file)
  <2>2. /\ JobOK(j)
        /\ j.pc = IF job[Boot].file = "wg0.conf" THEN "rules" ELSE
                  IF job[Boot].file = "post-up" THEN "open" ELSE "up"
        /\ job[Boot].file = "post-up" => j.file = "post-down"
    BY <1>3, AfterWriteFields DEF TypeInv, On
  <2> HIDE DEF j
  <2>3. job'[Boot] = j
    BY <2>1, <2>2, JobStep DEF WriteFile, j
  <2> QED
    BY <2>2, <2>3 DEF At, On
<1> QED
  BY <1>1, <1>2, <1>3 DEF On, At, File

\* Whenever the device is gone, somebody is about to bring it back.
LEMMA RisingStep ==
    ASSUME TypeInv, NoTimeouts, Rising, [Next]_vars
    PROVE  Rising'
<1> SUFFICES ASSUME device' = Down
             PROVE  Boots' \/ \E w \in Proc : job'[w].pc = "up"
  BY DEF Rising, Rises
<1>1. CASE ContainerRestarts
  BY <1>1, RestartType DEF Boots, On
<1>2. CASE ~ContainerRestarts /\ device = Down
  <2>1. ASSUME NEW w \in Proc, job[w].pc = "up"
        PROVE  job'[w].pc = "up"
    BY <1>2, <2>1, OwnSteps, UpLeavesDevice
  <2>2. ASSUME Boots
        PROVE  Boots' \/ On("up")'
    <3>1. CASE job'[Boot] = job[Boot]
      BY <2>2, <3>1 DEF Boots, On, At
    <3>2. CASE Step(Boot)
      BY <2>2, <3>2, BootAdvances DEF Boots, File
    <3> QED
      BY <1>2, <2>2, <3>1, <3>2, OwnSteps DEF Boots, On, At, Proc
  <2> QED
    BY <1>2, <2>1, <2>2 DEF Rising, Rises, On, Proc
<1>3. CASE ~ContainerRestarts /\ device # Down
  <2>1. PICK w \in Proc : TunnelDown(w)
    <3>1. ASSUME NEW w \in Worker, Edit(w) \/ Generate(w) \/ RestartTunnel(w)
          PROVE  device' = device
      BY <3>1 DEF Edit, SaveRow, SaveServer, DeleteRow, Generate, RestartTunnel
    <3>2. ASSUME NEW w \in Proc, Step(w), ~TunnelDown(w), ~TunnelUp(w)
          PROVE  device' = device
      BY <3>2 DEF Step, SetLinks, ReadServer, ReadPeers, ReadRules, Read, OpenFile, WriteFile,
         MarkGenerated
    <3>3. ASSUME NEW w \in Proc, GenerateFails(w) \/ RestartTimesOut(w)
          PROVE  device' = device
      BY <3>3 DEF GenerateFails, RestartTimesOut
    <3>4. ASSUME NEW w \in Proc, TunnelUp(w)
          PROVE  FALSE
      BY <1>3, <3>4 DEF TunnelUp
    <3>5. ~ UNCHANGED vars
      BY <1>3 DEF vars
    <3> QED
      BY <1>3, <3>1, <3>2, <3>3, <3>4, <3>5 DEF Next
  <2>2. job' = [job EXCEPT ![w] = [@ EXCEPT !.pc = "up"]]
    BY <2>1 DEF TunnelDown
  <2>3. JobOK([job[w] EXCEPT !.pc = "up"]) /\ [job[w] EXCEPT !.pc = "up"].pc = "up"
    BY NextPc DEF TypeInv, PCs, Copying
  <2> QED
    BY <2>2, <2>3, JobStep
<1> QED
  BY <1>1, <1>2, <1>3

\* No thread is stuck, and the container stops no more.
StaysUp == []TypeInv /\ []NeverStuck /\ [][Next]_vars /\ [][~ContainerRestarts]_vars

\* A start that has reached one step then reaches the next.
LEMMA BootStages ==
    ASSUME NoTimeouts
    PROVE  StaysUp /\ Fair(Boot)
           => /\ On("config") ~> On("peers")
              /\ On("peers") ~> At("open", "wg0.conf")
              /\ At("open", "wg0.conf") ~> At("write", "wg0.conf")
              /\ At("write", "wg0.conf") ~> On("rules")
              /\ On("rules") ~> At("open", "post-up")
              /\ At("open", "post-up") ~> At("write", "post-up")
              /\ At("write", "post-up") ~> At("open", "post-down")
              /\ At("open", "post-down") ~> At("write", "post-down")
              /\ At("write", "post-down") ~> On("up")
<1> Boot \in Proc
  BY DEF Proc
<1>1. StaysUp /\ Fair(Boot) => (On("config") ~> On("peers"))
  <2>1. TypeInv /\ On("config") /\ [Next]_vars /\ [~ContainerRestarts]_vars
        => On("config")' \/ On("peers")'
    BY OwnSteps, BootAdvances DEF On, At
  <2>2. TypeInv /\ On("config") /\ <<Step(Boot)>>_vars => On("peers")'
    BY BootAdvances
  <2>3. NeverStuck /\ On("config") => CanStep(Boot)
    BY IdleOK DEF NeverStuck, On, At
  <2> QED
    BY <2>1, <2>2, <2>3, PTL DEF StaysUp, Fair, CanStep
<1>2. StaysUp /\ Fair(Boot) => (On("peers") ~> At("open", "wg0.conf"))
  <2>1. TypeInv /\ On("peers") /\ [Next]_vars /\ [~ContainerRestarts]_vars
        => On("peers")' \/ At("open", "wg0.conf")'
    BY OwnSteps, BootAdvances DEF On, At
  <2>2. TypeInv /\ On("peers") /\ <<Step(Boot)>>_vars => At("open", "wg0.conf")'
    BY BootAdvances
  <2>3. NeverStuck /\ On("peers") => CanStep(Boot)
    BY IdleOK DEF NeverStuck, On, At
  <2> QED
    BY <2>1, <2>2, <2>3, PTL DEF StaysUp, Fair, CanStep
<1>3. StaysUp /\ Fair(Boot) => (At("open", "wg0.conf") ~> At("write", "wg0.conf"))
  <2>1. TypeInv /\ At("open", "wg0.conf") /\ [Next]_vars /\ [~ContainerRestarts]_vars
        => At("open", "wg0.conf")' \/ At("write", "wg0.conf")'
    BY OwnSteps, BootAdvances DEF On, At
  <2>2. TypeInv /\ At("open", "wg0.conf") /\ <<Step(Boot)>>_vars => At("write", "wg0.conf")'
    BY BootAdvances
  <2>3. NeverStuck /\ At("open", "wg0.conf") => CanStep(Boot)
    BY IdleOK DEF NeverStuck, On, At
  <2> QED
    BY <2>1, <2>2, <2>3, PTL DEF StaysUp, Fair, CanStep
<1>4. StaysUp /\ Fair(Boot) => (At("write", "wg0.conf") ~> On("rules"))
  <2>1. TypeInv /\ At("write", "wg0.conf") /\ [Next]_vars /\ [~ContainerRestarts]_vars
        => At("write", "wg0.conf")' \/ On("rules")'
    BY OwnSteps, BootAdvances DEF On, At
  <2>2. TypeInv /\ At("write", "wg0.conf") /\ <<Step(Boot)>>_vars => On("rules")'
    BY BootAdvances
  <2>3. NeverStuck /\ At("write", "wg0.conf") => CanStep(Boot)
    BY IdleOK DEF NeverStuck, On, At
  <2> QED
    BY <2>1, <2>2, <2>3, PTL DEF StaysUp, Fair, CanStep
<1>5. StaysUp /\ Fair(Boot) => (On("rules") ~> At("open", "post-up"))
  <2>1. TypeInv /\ On("rules") /\ [Next]_vars /\ [~ContainerRestarts]_vars
        => On("rules")' \/ At("open", "post-up")'
    BY OwnSteps, BootAdvances DEF On, At
  <2>2. TypeInv /\ On("rules") /\ <<Step(Boot)>>_vars => At("open", "post-up")'
    BY BootAdvances
  <2>3. NeverStuck /\ On("rules") => CanStep(Boot)
    BY IdleOK DEF NeverStuck, On, At
  <2> QED
    BY <2>1, <2>2, <2>3, PTL DEF StaysUp, Fair, CanStep
<1>6. StaysUp /\ Fair(Boot) => (At("open", "post-up") ~> At("write", "post-up"))
  <2>1. TypeInv /\ At("open", "post-up") /\ [Next]_vars /\ [~ContainerRestarts]_vars
        => At("open", "post-up")' \/ At("write", "post-up")'
    BY OwnSteps, BootAdvances DEF On, At
  <2>2. TypeInv /\ At("open", "post-up") /\ <<Step(Boot)>>_vars => At("write", "post-up")'
    BY BootAdvances
  <2>3. NeverStuck /\ At("open", "post-up") => CanStep(Boot)
    BY IdleOK DEF NeverStuck, On, At
  <2> QED
    BY <2>1, <2>2, <2>3, PTL DEF StaysUp, Fair, CanStep
<1>7. StaysUp /\ Fair(Boot) => (At("write", "post-up") ~> At("open", "post-down"))
  <2>1. TypeInv /\ At("write", "post-up") /\ [Next]_vars /\ [~ContainerRestarts]_vars
        => At("write", "post-up")' \/ At("open", "post-down")'
    BY OwnSteps, BootAdvances DEF On, At
  <2>2. TypeInv /\ At("write", "post-up") /\ <<Step(Boot)>>_vars => At("open", "post-down")'
    BY BootAdvances
  <2>3. NeverStuck /\ At("write", "post-up") => CanStep(Boot)
    BY IdleOK DEF NeverStuck, On, At
  <2> QED
    BY <2>1, <2>2, <2>3, PTL DEF StaysUp, Fair, CanStep
<1>8. StaysUp /\ Fair(Boot) => (At("open", "post-down") ~> At("write", "post-down"))
  <2>1. TypeInv /\ At("open", "post-down") /\ [Next]_vars /\ [~ContainerRestarts]_vars
        => At("open", "post-down")' \/ At("write", "post-down")'
    BY OwnSteps, BootAdvances DEF On, At
  <2>2. TypeInv /\ At("open", "post-down") /\ <<Step(Boot)>>_vars => At("write", "post-down")'
    BY BootAdvances
  <2>3. NeverStuck /\ At("open", "post-down") => CanStep(Boot)
    BY IdleOK DEF NeverStuck, On, At
  <2> QED
    BY <2>1, <2>2, <2>3, PTL DEF StaysUp, Fair, CanStep
<1>9. StaysUp /\ Fair(Boot) => (At("write", "post-down") ~> On("up"))
  <2>1. TypeInv /\ At("write", "post-down") /\ [Next]_vars /\ [~ContainerRestarts]_vars
        => At("write", "post-down")' \/ On("up")'
    BY OwnSteps, BootAdvances DEF On, At
  <2>2. TypeInv /\ At("write", "post-down") /\ <<Step(Boot)>>_vars => On("up")'
    BY BootAdvances
  <2>3. NeverStuck /\ At("write", "post-down") => CanStep(Boot)
    BY IdleOK DEF NeverStuck, On, At
  <2> QED
    BY <2>1, <2>2, <2>3, PTL DEF StaysUp, Fair, CanStep
<1> QED
  BY <1>1, <1>2, <1>3, <1>4, <1>5, <1>6, <1>7, <1>8, <1>9, PTL

Recovers(w) == Rises(w) ~> device # Down

\* wg-quick up runs, and leaves a device.
LEMMA UpRuns ==
    ASSUME NoTimeouts, NEW w \in Proc
    PROVE  StaysUp /\ Fair(w) => Recovers(w)
<1>1. TypeInv /\ Rises(w) /\ [Next]_vars /\ [~ContainerRestarts]_vars
      => Rises(w)' \/ (device # Down)'
  BY OwnSteps, UpLeavesDevice DEF Rises
<1>2. TypeInv /\ Rises(w) /\ <<Step(w)>>_vars => (device # Down)'
  BY UpLeavesDevice DEF Rises
<1>3. NeverStuck /\ Rises(w) => CanStep(w)
  BY IdleOK DEF NeverStuck, Rises
<1> QED
  BY <1>1, <1>2, <1>3, PTL DEF StaysUp, Fair, CanStep, Recovers

\* Wherever the start is, it comes to wg-quick up, and wg-quick up leaves a
\* device (when it finds one, that will do as well).
LEMMA BootEnds ==
    ASSUME NoTimeouts
    PROVE  StaysUp /\ Fair(Boot) => (Boots ~> device # Down)
<1>1. Boots => \/ On("config") \/ On("peers") \/ On("rules")
               \/ At("open", "wg0.conf") \/ At("write", "wg0.conf")
               \/ At("open", "post-up") \/ At("write", "post-up")
               \/ At("open", "post-down") \/ At("write", "post-down")
  BY DEF Boots, File
<1>2. StaysUp /\ Fair(Boot) => (Boots ~> On("up"))
  BY <1>1, BootStages, PTL
<1>3. On("up") => device # Down \/ Rises(Boot)
  BY DEF On, Rises
<1>4. StaysUp /\ Fair(Boot) => Recovers(Boot)
  <2>1. Boot \in Proc
    BY DEF Proc
  <2> QED
    BY <2>1, UpRuns
<1> QED
  BY <1>2, <1>3, <1>4, PTL DEF Recovers

\* From any state without a device.
LEMMA DeviceReturns ==
    ASSUME NoTimeouts
    PROVE  StaysUp /\ []Rising /\ []Fairness => (device = Down => <>(device # Down))
<1>1. StaysUp /\ []Fairness => (Boots => <>(device # Down))
  <2>1. Fairness => Fair(Boot)
    BY DEF Fairness, Proc
  <2> QED
    BY <2>1, BootEnds, PTL
<1>2. ASSUME NEW w \in Proc
      PROVE  StaysUp /\ []Fairness => (Rises(w) => <>(device # Down))
  <2>1. Fairness => Fair(w)
    BY DEF Fairness
  <2>2. StaysUp /\ Fair(w) => Recovers(w)
    BY UpRuns
  <2> QED
    BY <2>1, <2>2, PTL DEF Recovers
<1>3. StaysUp /\ []Fairness => ((\E w \in Proc : Rises(w)) => <>(device # Down))
  BY <1>2
<1>4. Rising /\ device = Down => Boots \/ \E w \in Proc : Rises(w)
  BY DEF Rising
<1> QED
  BY <1>1, <1>3, <1>4, PTL

\* Whatever edits, generations and restarts of any number of clients overlap,
\* a tunnel that is down comes back, once the container stops no more and as
\* long as no restart is killed for its time.
THEOREM TheTunnelComesBack ==
    ASSUME NoTimeouts
    PROVE  /\ Spec /\ []Fairness /\ []StepsCan
           /\ <>[][~ContainerRestarts]_vars
           => TunnelComesBack
<1>1. Init => TypeInv /\ Rising
  <2> SUFFICES ASSUME Init
               PROVE  Boots
    BY InitType DEF Rising
  <2>1. Boot \in Proc /\ job[Boot] = [Idle EXCEPT !.pc = "config"]
    BY DEF Init, Proc
  <2> QED
    BY <2>1, IdleOK, NextPc DEF Boots, On, PCs, Copying
<1>2. TypeInv /\ Rising /\ [Next]_vars => TypeInv' /\ Rising'
  BY NextType, RisingStep
<1>3. StaysUp /\ []Rising /\ []Fairness => (device = Down => <>(device # Down))
  BY DeviceReturns
<1>4. device = Down \/ device # Down
  OBVIOUS
<1>5. Spec => []TypeInv /\ []Rising
  BY <1>1, <1>2, PTL DEF Spec
<1> QED
  BY <1>3, <1>4, <1>5, ThreadsNeverStuck, PTL DEF Spec, StaysUp, TunnelComesBack

=============================================================================
