------------------------ MODULE OperatorFilesProofs ------------------------
(***************************************************************************)
(* Proofs about OperatorFiles, for any requests, names, bars and bounds:   *)
(* a file that no two requests wrote at once is never torn and holds what  *)
(* was decided, and a halt that was answered is in force.                  *)
(***************************************************************************)
EXTENDS OperatorFiles, TLAPS

Target == {"paper", "live"}
Words == {"operator", "drawdown", "first", "second", "refill", "import", "replace"}
Value(f) == CASE f = "stages" -> SUBSET Names [] f = "bars" -> Nat [] OTHER -> Words
Op(f) == IF f = "stages" THEN Names \X Target ELSE Words
Content(f) == {None, Torn} \cup {Whole(v) : v \in Value(f)}
Steps(f) == {"opening", "writing", "renaming", "clearing"} \cup IF f = "bars" THEN {"asking"} ELSE {}
Request(f) ==
  [at : Steps(f), file : {f}, op : Op(f), arg : Value(f),
   seen : Nat, resumed : BOOLEAN]

FilesTypeOK ==
  /\ DOMAIN disk = Files /\ DOMAIN tmp = Files
  /\ \A f \in Files : disk[f] \in Content(f) /\ tmp[f] \in Content(f)
  /\ renames \in [Files -> Nat]
  /\ DOMAIN request = Requests
  /\ \A r \in Requests : request[r] = Idle \/ \E f \in Files : request[r] \in Request(f)
  /\ decided \subseteq Names
  /\ overlapped \subseteq Files

\* The request that writes a file knows how often it was renamed when it opened
\* its temporary file, and leaves there what it was asked to write; that was
\* made of what the file still holds.
WriterKnows(f, q) ==
  /\ q.at = "writing" => q.seen = renames[f]
  /\ q.at = "renaming" => tmp[f] = Whole(q.arg)
  /\ f = "stages" => q.arg = Changed(Promotions, q.op[1], q.op[2])
  /\ f = "bars" /\ Readable(disk[f]) => q.arg >= disk[f].value

\* A file no two requests wrote at once has one writer, and is whole.
InOrder(f) ==
  /\ disk[f] # Torn
  /\ f = "stages" => Promotions = decided
  /\ \A r, q \in Writers(f) : r = q
  /\ \A r \in Writers(f) : WriterKnows(f, request[r])

FilesInv ==
  /\ FilesTypeOK
  /\ \A f \in Files \ overlapped : InOrder(f)

-----------------------------------------------------------------------------
(* What the files hold can be told apart. *)
LEMMA Contents ==
  /\ None # Torn /\ ~Readable(None) /\ ~Readable(Torn)
  /\ \A v : Whole(v) # None /\ Whole(v) # Torn /\ Readable(Whole(v)) /\ Whole(v).value = v
BY DEF None, Torn, Whole, Readable

(* A busy request is not an idle one; a new stage leaves the rest as it was. *)
LEMMA NewStage ==
  ASSUME NEW f \in Files, NEW q \in Request(f), NEW s \in Steps(f)
  PROVE  LET p == [q EXCEPT !.at = s]
         IN /\ p \in Request(f)
            /\ p.at = s /\ p.file = f /\ q.file = f /\ p.op = q.op /\ p.arg = q.arg /\ p.seen = q.seen
BY DEF Request

LEMMA BusyIsNotIdle ==
  ASSUME NEW f \in Files, NEW q \in Request(f)
  PROVE  q # Idle /\ q.file = f /\ q.at \in Writing \cup {"clearing"}
<1>1. q.at \in Writing \cup {"clearing"} /\ q.file = f
  BY DEF Request, Steps, Writing
<1>2. Idle.at = "idle"
  BY DEF Idle
<1> QED BY <1>1, <1>2 DEF Writing

-----------------------------------------------------------------------------
(* One request's step: the others are where they were. *)
LEMMA OneMoves ==
  ASSUME FilesTypeOK, NEW r \in Requests, NEW p, Become(r, p), NEW f
  PROVE  /\ DOMAIN request' = Requests
         /\ request'[r] = p
         /\ \A q \in Requests : q # r => request'[q] = request[q]
         /\ \A q \in Requests : q # r => (q \in Writers(f)' <=> q \in Writers(f))
         /\ r \in Writers(f)' <=> p.at \in Writing /\ p.file = f
         /\ Writers(f)' \subseteq Requests
<1>1. DOMAIN request = Requests
  BY DEF FilesTypeOK
<1>2. DOMAIN request' = Requests /\ request'[r] = p
      /\ \A q \in Requests : q # r => request'[q] = request[q]
  BY <1>1 DEF Become
<1> QED BY <1>2 DEF Writers

(* A file keeps its order when the step of a request on another one leaves it
   alone.                                                                   *)
LEMMA Aside ==
  ASSUME FilesInv, NEW r \in Requests, NEW p, Become(r, p),
         NEW f \in Files, InOrder(f), r \notin Writers(f), ~(p.at \in Writing /\ p.file = f),
         disk'[f] # Torn, f \in {"stages", "bars"} => disk'[f] = disk[f],
         tmp'[f] = tmp[f], renames'[f] = renames[f], f = "stages" => decided' = decided
  PROVE  InOrder(f)'
<1>1. Writers(f)' = Writers(f) /\ \A q \in Writers(f) : request'[q] = request[q]
  BY OneMoves DEF FilesInv, Writers
<1>2. f = "stages" => Promotions' = Promotions
  BY DEF Promotions
<1>3. disk'[f] # Torn /\ (f = "stages" => Promotions' = decided')
  BY <1>2 DEF InOrder
<1>4. \A q \in Writers(f)' : WriterKnows(f, request[q])
  BY <1>1 DEF InOrder
<1>5. ASSUME NEW q \in Writers(f)'
      PROVE  WriterKnows(f, request[q])'
  <2>1. WriterKnows(f, request[q]) /\ request'[q] = request[q]
    BY <1>1, <1>4
  <2> QED BY <2>1, <1>2 DEF WriterKnows, Readable
<1>6. \A q, s \in Writers(f)' : q = s
  BY <1>1 DEF InOrder
<1> QED BY <1>3, <1>5, <1>6 DEF InOrder

(* And when the one request that writes it makes a step that keeps what it
   knows.                                                                   *)
LEMMA Alone ==
  ASSUME FilesTypeOK, NEW r \in Requests, NEW p, Become(r, p),
         NEW f \in Files, \A q \in Writers(f) : q = r,
         disk'[f] # Torn, f = "stages" => Promotions' = decided',
         p.at \in Writing /\ p.file = f => WriterKnows(f, p)'
  PROVE  InOrder(f)'
<1>1. \A q \in Writers(f)' : q = r
  BY OneMoves DEF Writers
<1>2. ASSUME NEW q \in Writers(f)'
      PROVE  WriterKnows(f, request[q])'
  <2>1. q = r /\ request'[q] = p /\ p.at \in Writing /\ p.file = f
    BY <1>1, OneMoves
  <2> QED BY <2>1 DEF WriterKnows
<1> QED BY <1>1, <1>2 DEF InOrder

(* A request that begins: when another writes the file it has overlapped,
   and when none does it is the one writer.                                 *)
LEMMA Beginning ==
  ASSUME FilesInv, NEW r \in Requests, request[r] = Idle, NEW g \in Files,
         NEW op \in Op(g), NEW arg \in Value(g), NEW at \in Steps(g), at \in {"asking", "opening"},
         Begins(r, g, op, arg, at), UNCHANGED <<disk, tmp, renames, decided>>,
         g = "stages" => arg = Changed(Promotions, op[1], op[2]),
         g = "bars" /\ Readable(disk[g]) => arg >= disk[g].value
  PROVE  FilesInv'
<1> PICK p : p = [at |-> at, file |-> g, op |-> op, arg |-> arg, seen |-> 0, resumed |-> FALSE]
  OBVIOUS
<1>1. Become(r, p) /\ p \in Request(g) /\ p.at = at /\ p.file = g /\ p.op = op /\ p.arg = arg
  BY DEF Begins, Request
<1>2. p.at \in Writing /\ p.at # "writing" /\ p.at # "renaming"
  BY <1>1 DEF Writing
<1>3. r \notin Writers(g)
  BY DEF Writers, Idle, Writing
<1>4. FilesTypeOK'
  <2>1. DOMAIN request' = Requests
        /\ \A q \in Requests : request'[q] = Idle \/ \E f \in Files : request'[q] \in Request(f)
    BY <1>1, OneMoves DEF FilesInv, FilesTypeOK
  <2>2. overlapped' \subseteq Files
    BY DEF Begins, FilesInv, FilesTypeOK
  <2>3. \A f \in Files : disk'[f] \in Content(f) /\ tmp'[f] \in Content(f)
    BY DEF FilesInv, FilesTypeOK
  <2>4. DOMAIN disk' = Files /\ DOMAIN tmp' = Files /\ renames' \in [Files -> Nat] /\ decided' \subseteq Names
    BY DEF FilesInv, FilesTypeOK
  <2> QED BY <2>1, <2>2, <2>3, <2>4 DEF FilesTypeOK
<1>5. ASSUME NEW f \in Files \ overlapped'
      PROVE  InOrder(f)'
  <2>1. f \notin overlapped /\ InOrder(f)
    BY DEF Begins, FilesInv
  <2>2. CASE f # g
    <3>1. r \notin Writers(f)
      BY DEF Writers, Idle, Writing
    <3> QED BY <2>1, <2>2, <3>1, <1>1, Aside DEF InOrder
  <2>3. CASE f = g
    <3>1. Writers(g) = {}
      BY <2>3, <1>1, <1>2 DEF Begins
    <3>2. disk'[f] # Torn /\ (f = "stages" => Promotions' = decided')
      BY <2>1 DEF InOrder, Promotions
    <3>3. WriterKnows(f, p)'
      BY <1>1, <1>2, <2>3 DEF WriterKnows, Promotions, Readable
    <3> QED BY <1>1, <2>3, <3>1, <3>2, <3>3, Alone DEF FilesInv
  <2> QED BY <2>2, <2>3
<1> QED BY <1>4, <1>5 DEF FilesInv

(* A step of the request that writes a file, which touches no other file. *)
LEMMA Progress ==
  ASSUME FilesInv, NEW r \in Requests, NEW g \in Files, request[r] \in Request(g),
         request[r].at \in Writing, NEW p, Become(r, p), p = Idle \/ p \in Request(g),
         DOMAIN disk' = Files, DOMAIN tmp' = Files, renames' \in [Files -> Nat],
         \A f \in Files : f # g => disk'[f] = disk[f] /\ tmp'[f] = tmp[f] /\ renames'[f] = renames[f],
         disk'[g] \in Content(g), tmp'[g] \in Content(g),
         decided' \subseteq Names, g # "stages" => decided' = decided, overlapped' = overlapped,
         g \notin overlapped =>
           /\ disk'[g] # Torn
           /\ g = "stages" => Promotions' = decided'
           /\ p.at \in Writing => WriterKnows(g, p)'
  PROVE  FilesInv'
<1>1. p = Idle => p.at \notin Writing
  BY DEF Idle, Writing
<1>2. p # Idle => p.file = g
  BY BusyIsNotIdle
<1>3. r \in Writers(g) /\ \A f \in Files : f # g => r \notin Writers(f)
  BY DEF Writers, Request
<1>4. FilesTypeOK'
  <2>1. DOMAIN request' = Requests
        /\ \A q \in Requests : request'[q] = Idle \/ \E f \in Files : request'[q] \in Request(f)
    BY OneMoves DEF FilesInv, FilesTypeOK
  <2>2. \A f \in Files : disk'[f] \in Content(f) /\ tmp'[f] \in Content(f)
    BY DEF FilesInv, FilesTypeOK
  <2>3. overlapped' \subseteq Files
    BY DEF FilesInv, FilesTypeOK
  <2> QED BY <2>1, <2>2, <2>3 DEF FilesTypeOK
<1>5. ASSUME NEW f \in Files \ overlapped'
      PROVE  InOrder(f)'
  <2>1. f \notin overlapped /\ InOrder(f)
    BY DEF FilesInv
  <2>2. CASE f # g
    <3>1. disk'[f] # Torn /\ r \notin Writers(f) /\ ~(p.at \in Writing /\ p.file = f)
      BY <1>1, <1>2, <1>3, <2>1, <2>2 DEF InOrder
    <3> QED BY <2>1, <2>2, <3>1, Aside
  <2>3. CASE f = g
    <3>1. \A q \in Writers(g) : q = r
      BY <1>3, <2>1, <2>3 DEF InOrder
    <3>2. disk'[f] # Torn /\ (f = "stages" => Promotions' = decided')
          /\ (p.at \in Writing /\ p.file = f => WriterKnows(f, p)')
      BY <2>1, <2>3
    <3> QED BY <2>3, <3>1, <3>2, Alone DEF FilesInv
  <2> QED BY <2>2, <2>3
<1> QED BY <1>4, <1>5 DEF FilesInv

(* When a request has begun to write, what it knows of its file holds. *)
LEMMA Knows ==
  ASSUME FilesInv, NEW r \in Requests, NEW g \in Files, request[r] \in Request(g),
         request[r].at \in Writing, g \notin overlapped
  PROVE  WriterKnows(g, request[r]) /\ InOrder(g)
<1>1. r \in Writers(g)
  BY DEF Writers, Request
<1> QED BY <1>1 DEF FilesInv, InOrder

(* A busy request writes one of the files. *)
LEMMA Busy ==
  ASSUME FilesTypeOK, NEW r \in Requests, request[r].at # "idle"
  PROVE  \E g \in Files : request[r] \in Request(g) /\ request[r].file = g
<1>1. request[r] # Idle
  BY DEF Idle
<1> QED BY <1>1, BusyIsNotIdle DEF FilesTypeOK

-----------------------------------------------------------------------------
(* The requests that begin. *)
LEMMA PromotionsType == FilesTypeOK /\ disk["stages"] # Torn => Promotions \subseteq Names
<1> SUFFICES ASSUME FilesTypeOK, disk["stages"] # Torn PROVE Promotions \subseteq Names
  OBVIOUS
<1>1. disk["stages"] = None \/ \E v \in SUBSET Names : disk["stages"] = Whole(v)
  <2>1. disk["stages"] \in Content("stages")
    BY DEF FilesTypeOK, Files
  <2> QED BY <2>1 DEF Content, Value
<1> QED BY <1>1, Contents DEF Promotions

LEMMA SetStageSafe ==
  ASSUME FilesInv, NEW r \in Requests, request[r] = Idle, SetStage(r) PROVE FilesInv'
<1> PICK name \in Names, to \in {"paper", "live"} :
      /\ disk["stages"] # Torn
      /\ Begins(r, "stages", <<name, to>>, Changed(Promotions, name, to), "opening")
      /\ UNCHANGED <<disk, tmp, renames, decided, promised>>
  BY DEF SetStage
<1> DEFINE op == <<name, to>>
<1>1. op \in Op("stages") /\ op[1] = name /\ op[2] = to
  BY DEF Op, Target
<1>2. Changed(Promotions, name, to) \in Value("stages")
  BY PromotionsType DEF FilesInv, Changed, Value
<1>3. "stages" \in Files /\ "opening" \in Steps("stages")
  BY DEF Files, Steps
<1> QED BY <1>1, <1>2, <1>3, Beginning

LEMMA SameFiles ==
  ASSUME FilesInv, UNCHANGED <<disk, tmp, renames, request, decided, overlapped>>
  PROVE  FilesInv'
<1>1. FilesTypeOK'
  BY DEF FilesInv, FilesTypeOK
<1>2. ASSUME NEW f \in Files \ overlapped' PROVE InOrder(f)'
  <2>1. InOrder(f)
    BY DEF FilesInv
  <2> QED BY <2>1 DEF InOrder, Writers, WriterKnows, Promotions, Readable
<1> QED BY <1>1, <1>2 DEF FilesInv

LEMMA HaltSafe ==
  ASSUME FilesInv, NEW r \in Requests, request[r] = Idle, Halt(r) PROVE FilesInv'
<1> PICK reason \in {"operator", "drawdown"} :
      /\ IF disk["HALT"] # None
         THEN /\ promised' = TRUE
              /\ started' = started + 1
              /\ UNCHANGED <<request, overlapped>>
         ELSE Begins(r, "HALT", reason, reason, "opening") /\ UNCHANGED promised
      /\ UNCHANGED <<disk, tmp, renames, decided>>
  BY DEF Halt
<1>1. CASE disk["HALT"] # None
  BY <1>1, SameFiles
<1>2. CASE disk["HALT"] = None
  <2>1. reason \in Op("HALT") /\ reason \in Value("HALT") /\ "HALT" \in Files /\ "opening" \in Steps("HALT")
    BY DEF Op, Value, Files, Words, Steps
  <2> QED BY <1>2, <2>1, Beginning
<1> QED BY <1>1, <1>2

LEMMA RefillSafe ==
  ASSUME FilesInv, NEW r \in Requests, request[r] = Idle, Refill(r) PROVE FilesInv'
<1> DEFINE floor == IF Readable(disk["bars"]) THEN disk["bars"].value ELSE 0
<1>1. "bars" \in Files /\ "refill" \in Op("bars") /\ "asking" \in Steps("bars")
  BY DEF Files, Op, Words, Steps
<1>2. disk["bars"] \in Content("bars")
  BY <1>1 DEF FilesInv, FilesTypeOK
<1>3. floor \in Nat /\ floor \in Value("bars")
  <2>1. disk["bars"] = None \/ disk["bars"] = Torn \/ \E v \in Nat : disk["bars"] = Whole(v)
    BY <1>2 DEF Content, Value
  <2>2. floor \in Nat
    BY <2>1, Contents
  <2> QED BY <2>2 DEF Value
<1>4. Readable(disk["bars"]) => floor >= disk["bars"].value
  BY <1>3
<1>5. Begins(r, "bars", "refill", floor, "asking") /\ UNCHANGED <<disk, tmp, renames, decided>>
  BY DEF Refill
<1> HIDE DEF floor
<1> QED BY <1>1, <1>3, <1>4, <1>5, Beginning

LEMMA InstallSafe ==
  ASSUME FilesInv, NEW r \in Requests, request[r] = Idle, Install(r) PROVE FilesInv'
<1> PICK version \in {"first", "second"}, replace \in BOOLEAN :
      /\ Begins(r, "spec.yaml", IF replace THEN "replace" ELSE "import", version, "opening")
      /\ UNCHANGED <<disk, tmp, renames, decided, promised>>
  BY DEF Install
<1> DEFINE op == IF replace THEN "replace" ELSE "import"
<1>1. "spec.yaml" \in Files /\ op \in Op("spec.yaml") /\ version \in Value("spec.yaml")
  BY DEF Files, Op, Value, Words
<1>2. Begins(r, "spec.yaml", op, version, "opening") /\ "opening" \in Steps("spec.yaml")
  BY DEF Steps
<1> HIDE DEF op
<1> QED BY <1>1, <1>2, Beginning

-----------------------------------------------------------------------------
(* The requests that are under way. *)
LEMMA FetchedSafe ==
  ASSUME FilesInv, NEW r \in Requests, Fetched(r) PROVE FilesInv'
<1>1. PICK g \in Files : request[r] \in Request(g) /\ request[r].file = g
  BY Busy DEF FilesInv, Fetched
<1> PICK answer \in 0..MaxBars :
      IF Accepts(answer, request[r].arg)
      THEN Become(r, [request[r] EXCEPT !.at = "opening", !.arg = answer])
      ELSE Leave(r)
  BY DEF Fetched
<1>2. request[r].at = "asking" /\ request[r].at \in Writing
  BY DEF Fetched, Writing
<1>3. UNCHANGED <<disk, tmp, renames, started, decided, promised, overlapped>>
  BY DEF Fetched
<1>4. /\ DOMAIN disk' = Files /\ DOMAIN tmp' = Files /\ renames' \in [Files -> Nat]
      /\ \A f \in Files : f # g => disk'[f] = disk[f] /\ tmp'[f] = tmp[f] /\ renames'[f] = renames[f]
      /\ disk'[g] \in Content(g) /\ tmp'[g] \in Content(g)
      /\ decided' \subseteq Names
  BY <1>3 DEF FilesInv, FilesTypeOK
<1>5. ASSUME g \notin overlapped
      PROVE  disk'[g] # Torn /\ (g = "stages" => Promotions' = decided')
  BY <1>1, <1>2, <1>3, <1>5, Knows DEF InOrder, Promotions
<1>6. ASSUME NEW p, p = Idle, Become(r, p) PROVE FilesInv'
  <2>1. p.at \notin Writing /\ (p = Idle \/ p \in Request(g))
    BY <1>6 DEF Writing, Idle
  <2> QED BY <1>1, <1>2, <1>3, <1>4, <1>5, <1>6, <2>1, Progress
<1>7. ASSUME NEW p, p = [request[r] EXCEPT !.at = "opening", !.arg = answer],
             Become(r, p), Accepts(answer, request[r].arg)
      PROVE  FilesInv'
  <2>1. g = "bars"
    BY <1>1, <1>2 DEF Request, Steps
  <2>2. answer \in Nat /\ answer >= request[r].arg
    BY <1>7 DEF Accepts
  <2>3. p \in Request(g) /\ p.at = "opening" /\ p.arg = answer
    BY <1>1, <1>7, <2>1, <2>2 DEF Request, Steps, Value
  <2>4. ASSUME g \notin overlapped PROVE WriterKnows(g, p)'
    <3>1. WriterKnows(g, request[r]) /\ InOrder(g)
      BY <1>1, <1>2, <2>4, Knows
    <3>2. disk[g] \in Content(g) /\ request[r].arg \in Nat
      BY <1>1, <2>1 DEF FilesInv, FilesTypeOK, Request, Value
    <3>3. Readable(disk[g]) => disk[g].value \in Nat
      BY <2>1, <3>2, Contents DEF Content, Value
    <3>4. Readable(disk[g]) => answer >= disk[g].value
      BY <2>1, <2>2, <3>1, <3>2, <3>3 DEF WriterKnows
    <3> QED BY <1>3, <2>1, <2>3, <3>4 DEF WriterKnows, Readable
  <2> QED BY <1>1, <1>2, <1>3, <1>4, <1>5, <1>7, <2>3, <2>4, Progress
<1> QED BY <1>6, <1>7 DEF Leave

LEMMA OpenTmpSafe ==
  ASSUME FilesInv, NEW r \in Requests, OpenTmp(r) PROVE FilesInv'
<1>1. PICK g \in Files : request[r] \in Request(g) /\ request[r].file = g
  BY Busy DEF FilesInv, OpenTmp
<1>2. request[r].at \in Writing
  BY DEF OpenTmp, Writing
<1> PICK p : p = [request[r] EXCEPT !.at = "writing", !.seen = renames[g]]
  OBVIOUS
<1>3. Become(r, p) /\ tmp' = [tmp EXCEPT ![g] = Torn]
      /\ UNCHANGED <<disk, renames, started, decided, promised, overlapped>>
  BY <1>1 DEF OpenTmp
<1>4. renames[g] \in Nat
  BY DEF FilesInv, FilesTypeOK
<1>5. p \in Request(g) /\ p.at = "writing" /\ p.seen = renames[g] /\ p.op = request[r].op /\ p.arg = request[r].arg
  BY <1>1, <1>4 DEF Request, Steps
<1>6. /\ DOMAIN disk' = Files /\ DOMAIN tmp' = Files /\ renames' \in [Files -> Nat]
      /\ \A f \in Files : f # g => disk'[f] = disk[f] /\ tmp'[f] = tmp[f] /\ renames'[f] = renames[f]
      /\ disk'[g] \in Content(g) /\ tmp'[g] \in Content(g)
      /\ decided' \subseteq Names
  BY <1>3 DEF FilesInv, FilesTypeOK, Content
<1>7. ASSUME g \notin overlapped
      PROVE  disk'[g] # Torn /\ (g = "stages" => Promotions' = decided') /\ WriterKnows(g, p)'
  <2>1. WriterKnows(g, request[r]) /\ InOrder(g)
    BY <1>1, <1>2, <1>7, Knows
  <2> QED BY <2>1, <1>3, <1>5 DEF WriterKnows, InOrder, Promotions, Readable
<1> QED BY <1>1, <1>2, <1>3, <1>5, <1>6, <1>7, Progress

LEMMA WriteSafe ==
  ASSUME FilesInv, NEW r \in Requests, Write(r) PROVE FilesInv'
<1>1. PICK g \in Files : request[r] \in Request(g) /\ request[r].file = g
  BY Busy DEF FilesInv, Write
<1>2. request[r].at = "writing" /\ request[r].at \in Writing
  BY DEF Write, Writing
<1> PICK p : p = [request[r] EXCEPT !.at = "renaming"]
  OBVIOUS
<1> PICK content : content = Whole(request[r].arg)
  OBVIOUS
<1>3. /\ Become(r, p)
      /\ \/ renames[g] = request[r].seen /\ tmp' = [tmp EXCEPT ![g] = content] /\ disk' = disk
         \/ renames[g] # request[r].seen /\ disk' = [disk EXCEPT ![g] = content] /\ tmp' = tmp
         \/ renames[g] # request[r].seen /\ disk' = disk /\ tmp' = tmp
      /\ UNCHANGED <<renames, started, decided, promised, overlapped>>
  <2>1. request[r].seen \in Nat
    BY <1>1 DEF Request
  <2> QED BY <1>1, <2>1 DEF Write, Goes
<1>4. content \in Content(g)
  <2>1. request[r].arg \in Value(g)
    BY <1>1 DEF Request
  <2> QED BY <2>1 DEF Content
<1>5. p \in Request(g) /\ p.at = "renaming" /\ p.op = request[r].op /\ p.arg = request[r].arg
  BY <1>1 DEF Request, Steps
<1>6. /\ DOMAIN disk' = Files /\ DOMAIN tmp' = Files /\ renames' \in [Files -> Nat]
      /\ \A f \in Files : f # g => disk'[f] = disk[f] /\ tmp'[f] = tmp[f] /\ renames'[f] = renames[f]
      /\ disk'[g] \in Content(g) /\ tmp'[g] \in Content(g)
      /\ decided' \subseteq Names
  BY <1>3, <1>4 DEF FilesInv, FilesTypeOK
<1>7. ASSUME g \notin overlapped
      PROVE  disk'[g] # Torn /\ (g = "stages" => Promotions' = decided') /\ WriterKnows(g, p)'
  <2>1. WriterKnows(g, request[r]) /\ InOrder(g)
    BY <1>1, <1>2, <1>7, Knows
  <2>2. tmp' = [tmp EXCEPT ![g] = content] /\ disk' = disk /\ decided' = decided
    BY <1>2, <1>3, <2>1 DEF WriterKnows
  <2>3. tmp'[g] = Whole(p.arg)
    BY <2>2, <1>5 DEF FilesInv, FilesTypeOK
  <2> QED BY <2>1, <2>2, <2>3, <1>5 DEF WriterKnows, InOrder, Promotions, Readable
<1> QED BY <1>1, <1>2, <1>3, <1>5, <1>6, <1>7, Progress

LEMMA WriteFailsSafe ==
  ASSUME FilesInv, NEW r \in Requests, WriteFails(r) PROVE FilesInv'
<1>1. PICK g \in Files : request[r] \in Request(g) /\ request[r].file = g
  BY Busy DEF FilesInv, WriteFails
<1>2. request[r].at \in Writing /\ Become(r, Idle) /\ Idle.at \notin Writing
  BY DEF WriteFails, Writing, Leave, Idle
<1>3. /\ tmp' = tmp \/ (g = "bars" /\ tmp' = [tmp EXCEPT !["bars"] = None])
      /\ UNCHANGED <<disk, renames, decided, overlapped>>
  BY <1>1 DEF WriteFails
<1>4. /\ DOMAIN disk' = Files /\ DOMAIN tmp' = Files /\ renames' \in [Files -> Nat]
      /\ \A f \in Files : f # g => disk'[f] = disk[f] /\ tmp'[f] = tmp[f] /\ renames'[f] = renames[f]
      /\ disk'[g] \in Content(g) /\ tmp'[g] \in Content(g)
      /\ decided' \subseteq Names
  BY <1>3 DEF FilesInv, FilesTypeOK, Content
<1>5. ASSUME g \notin overlapped
      PROVE  disk'[g] # Torn /\ (g = "stages" => Promotions' = decided')
  BY <1>1, <1>2, <1>3, <1>5, Knows DEF InOrder, Promotions
<1>6. ASSUME NEW p, p = Idle, Become(r, p) PROVE FilesInv'
  <2>1. p.at \notin Writing /\ (p = Idle \/ p \in Request(g))
    BY <1>2, <1>6
  <2> QED BY <1>1, <1>2, <1>3, <1>4, <1>5, <1>6, <2>1, Progress
<1> QED BY <1>2, <1>6

LEMMA RenameSafe ==
  ASSUME FilesInv, NEW r \in Requests, Rename(r) PROVE FilesInv'
<1>1. PICK g \in Files : request[r] \in Request(g) /\ request[r].file = g
  BY Busy DEF FilesInv, Rename
<1>2. request[r].at = "renaming" /\ request[r].at \in Writing
  BY DEF Rename, Writing
<1> PICK op : op = request[r].op
  OBVIOUS
<1>3. /\ \/ tmp[g] = None /\ UNCHANGED <<disk, tmp, renames, decided>>
         \/ /\ tmp[g] # None
            /\ disk' = [disk EXCEPT ![g] = tmp[g]]
            /\ tmp' = [tmp EXCEPT ![g] = None]
            /\ renames' = [renames EXCEPT ![g] = @ + 1]
            /\ decided' = IF g = "stages"
                          THEN {n \in Names : IF n = op[1] THEN op[2] = "live" ELSE n \in decided}
                          ELSE decided
      /\ overlapped' = overlapped
  BY <1>1, Zenon DEF Rename
<1>4. PICK p : Become(r, p) /\ p.at \notin Writing /\ (p = Idle \/ p \in Request(g))
  <2>1. CASE Leave(r)
    BY <2>1 DEF Leave, Idle, Writing
  <2>2. CASE Goes(r, "clearing")
    <3>1. PICK p : p = [request[r] EXCEPT !.at = "clearing"]
      OBVIOUS
    <3>2. p.at = "clearing" /\ p \in Request(g)
      BY <1>1, <3>1 DEF Request, Steps
    <3> QED BY <2>2, <3>1, <3>2 DEF Goes, Writing
  <2> QED BY <2>1, <2>2 DEF Rename
<1>5. /\ DOMAIN disk' = Files /\ DOMAIN tmp' = Files
      /\ \A f \in Files : f # g => disk'[f] = disk[f] /\ tmp'[f] = tmp[f] /\ renames'[f] = renames[f]
      /\ disk'[g] \in Content(g) /\ tmp'[g] \in Content(g)
  BY <1>3 DEF FilesInv, FilesTypeOK, Content
<1>6. renames' \in [Files -> Nat] /\ decided' \subseteq Names /\ (g # "stages" => decided' = decided)
  BY <1>3 DEF FilesInv, FilesTypeOK
<1>7. ASSUME g \notin overlapped
      PROVE  disk'[g] # Torn /\ (g = "stages" => Promotions' = decided')
  <2>1. WriterKnows(g, request[r]) /\ InOrder(g)
    BY <1>1, <1>2, <1>7, Knows
  <2>2. tmp[g] = Whole(request[r].arg)
    BY <1>2, <2>1 DEF WriterKnows
  <2>3. disk'[g] = Whole(request[r].arg)
        /\ (g = "stages" =>
              decided' = {n \in Names : IF n = op[1] THEN op[2] = "live" ELSE n \in decided})
    BY <1>3, <2>2, Contents DEF FilesInv, FilesTypeOK
  <2>4. ASSUME g = "stages" PROVE Promotions' = decided'
    <3>1. Promotions' = request[r].arg
      BY <2>3, <2>4, Contents DEF Promotions
    <3>2. request[r].arg = Changed(decided, op[1], op[2])
      BY <2>1, <2>4 DEF WriterKnows, InOrder
    <3>3. op \in Names \X Target
      BY <1>1, <2>4 DEF Request, Op
    <3>4. decided \subseteq Names
      BY DEF FilesInv, FilesTypeOK
    <3>5. Changed(decided, op[1], op[2])
          = {n \in Names : IF n = op[1] THEN op[2] = "live" ELSE n \in decided}
      BY <3>3, <3>4 DEF Changed, Target
    <3> QED BY <2>3, <2>4, <3>1, <3>2, <3>5
  <2> QED BY <2>3, <2>4, Contents
<1> QED BY <1>1, <1>2, <1>3, <1>4, <1>5, <1>6, <1>7, Progress

LEMMA ClearYmlSafe ==
  ASSUME FilesInv, NEW r \in Requests, ClearYml(r) PROVE FilesInv'
<1>1. Become(r, Idle) /\ disk' = [disk EXCEPT !["spec.yml"] = None]
      /\ UNCHANGED <<tmp, renames, decided, overlapped>>
  BY DEF ClearYml, Leave
<1>2. \A f : r \notin Writers(f)
  BY DEF ClearYml, Writers, Writing
<1>3. ASSUME NEW p, p = Idle, Become(r, p) PROVE FilesInv'
  <2>1. p.at \notin Writing
    BY <1>3 DEF Idle, Writing
  <2>2. FilesTypeOK'
    <3>1. DOMAIN request' = Requests
          /\ \A q \in Requests : request'[q] = Idle \/ \E f \in Files : request'[q] \in Request(f)
      BY <1>3, OneMoves DEF FilesInv, FilesTypeOK
    <3>2. \A f \in Files : disk'[f] \in Content(f) /\ tmp'[f] \in Content(f)
      BY <1>1 DEF FilesInv, FilesTypeOK, Content
    <3>3. DOMAIN disk' = Files /\ DOMAIN tmp' = Files /\ renames' \in [Files -> Nat]
          /\ decided' \subseteq Names /\ overlapped' \subseteq Files
      BY <1>1 DEF FilesInv, FilesTypeOK
    <3> QED BY <3>1, <3>2, <3>3 DEF FilesTypeOK
  <2>3. ASSUME NEW f \in Files \ overlapped' PROVE InOrder(f)'
    <3>1. InOrder(f)
      BY <1>1 DEF FilesInv
    <3>2. disk'[f] # Torn /\ (f \in {"stages", "bars"} => disk'[f] = disk[f])
      BY <1>1, <3>1, Contents DEF InOrder, FilesInv, FilesTypeOK
    <3> QED BY <1>1, <1>2, <1>3, <2>1, <3>1, <3>2, Aside
  <2> QED BY <2>2, <2>3 DEF FilesInv
<1> QED BY <1>1, <1>3

-----------------------------------------------------------------------------
(* What is not one request's step. *)
LEMMA OneFileGone ==
  ASSUME FilesInv, NEW g \in {"HALT", "spec.yaml", "spec.yml"},
         disk' = [disk EXCEPT ![g] = None], UNCHANGED <<tmp, renames, decided, overlapped>>,
         DOMAIN request' = Requests,
         \A r \in Requests : request'[r] = request[r]
            \/ \E f \in Files : /\ request[r] \in Request(f) /\ request'[r] \in Request(f)
                              /\ request'[r].at = request[r].at /\ request'[r].seen = request[r].seen
                              /\ request'[r].arg = request[r].arg /\ request'[r].op = request[r].op
  PROVE  FilesInv'
<1>1. FilesTypeOK'
  <2>1. \A f \in Files : disk'[f] \in Content(f) /\ tmp'[f] \in Content(f)
    BY DEF FilesInv, FilesTypeOK, Content
  <2>2. \A r \in Requests : request'[r] = Idle \/ \E f \in Files : request'[r] \in Request(f)
    BY DEF FilesInv, FilesTypeOK
  <2>3. DOMAIN disk' = Files /\ DOMAIN tmp' = Files /\ renames' \in [Files -> Nat]
        /\ decided' \subseteq Names /\ overlapped' \subseteq Files
    BY DEF FilesInv, FilesTypeOK
  <2> QED BY <2>1, <2>2, <2>3 DEF FilesTypeOK
<1>2. ASSUME NEW f \in Files \ overlapped' PROVE InOrder(f)'
  <2>1. InOrder(f)
    BY DEF FilesInv
  <2>2. Writers(f)' = Writers(f)
    BY BusyIsNotIdle DEF Writers
  <2>3. \A r \in Writers(f) : /\ request'[r].at = request[r].at /\ request'[r].seen = request[r].seen
                              /\ request'[r].arg = request[r].arg /\ request'[r].op = request[r].op
    BY DEF Writers
  <2>4. disk'[f] # Torn /\ (f \in {"stages", "bars"} => disk'[f] = disk[f])
    BY <2>1, Contents DEF InOrder, FilesInv, FilesTypeOK
  <2>5. f = "stages" => Promotions' = Promotions
    BY <2>4 DEF Promotions
  <2>6. ASSUME NEW r \in Writers(f)' PROVE WriterKnows(f, request[r])'
    <3>1. WriterKnows(f, request[r])
      BY <2>1, <2>2 DEF InOrder
    <3> QED BY <2>2, <2>3, <2>4, <2>5, <3>1 DEF WriterKnows, Readable
  <2>7. (f = "stages" => Promotions' = decided') /\ \A r, q \in Writers(f)' : r = q
    BY <2>1, <2>2, <2>5 DEF InOrder
  <2> QED BY <2>4, <2>6, <2>7 DEF InOrder
<1> QED BY <1>1, <1>2 DEF FilesInv

LEMMA ResumeSafe == ASSUME FilesInv, Resume PROVE FilesInv'
<1>1. disk' = [disk EXCEPT !["HALT"] = None] /\ UNCHANGED <<tmp, renames, decided, overlapped>>
  BY DEF Resume
<1>2. request' = [r \in Requests |->
       IF request[r] # Idle THEN [request[r] EXCEPT !.resumed = TRUE] ELSE Idle]
  BY DEF Resume
<1>3. ASSUME NEW f \in Files, NEW q \in Request(f), NEW p, p = [q EXCEPT !.resumed = TRUE]
      PROVE  p \in Request(f) /\ p.at = q.at /\ p.seen = q.seen /\ p.arg = q.arg /\ p.op = q.op
  BY <1>3 DEF Request
<1>4. ASSUME NEW r \in Requests
      PROVE  request'[r] = request[r]
            \/ \E f \in Files : /\ request[r] \in Request(f) /\ request'[r] \in Request(f)
                              /\ request'[r].at = request[r].at /\ request'[r].seen = request[r].seen
                              /\ request'[r].arg = request[r].arg /\ request'[r].op = request[r].op
  <2>1. CASE request[r] = Idle
    BY <1>2, <2>1
  <2>2. CASE request[r] # Idle
    <3>1. PICK f \in Files : request[r] \in Request(f)
      BY <2>2 DEF FilesInv, FilesTypeOK
    <3>2. request'[r] = [request[r] EXCEPT !.resumed = TRUE]
      BY <1>2, <2>2
    <3> QED BY <1>3, <3>1, <3>2
  <2> QED BY <2>1, <2>2
<1>5. DOMAIN request' = Requests
  BY <1>2
<1> QED BY <1>1, <1>4, <1>5, OneFileGone

LEMMA RemoveSafe == ASSUME FilesInv, Remove PROVE FilesInv'
<1>1. PICK g \in {"spec.yaml", "spec.yml"} :
        disk' = [disk EXCEPT ![g] = None] /\ UNCHANGED <<tmp, renames, request, decided, overlapped>>
  BY DEF Remove
<1> QED BY <1>1, OneFileGone DEF FilesInv, FilesTypeOK

LEMMA CrashSafe == ASSUME FilesInv, Crash PROVE FilesInv'
<1>1. request' = [r \in Requests |-> Idle] /\ UNCHANGED <<disk, tmp, renames, decided, overlapped>>
  BY DEF Crash
<1>2. \A f : Writers(f)' = {}
  BY <1>1 DEF Writers, Idle, Writing
<1>3. FilesTypeOK'
  BY <1>1 DEF FilesInv, FilesTypeOK
<1>4. ASSUME NEW f \in Files \ overlapped' PROVE InOrder(f)'
  BY <1>1, <1>2 DEF FilesInv, InOrder, Promotions
<1> QED BY <1>3, <1>4 DEF FilesInv

-----------------------------------------------------------------------------
(* What every step keeps. *)
LEMMA Starts == Init => FilesInv
<1> SUFFICES ASSUME Init PROVE FilesInv
  OBVIOUS
<1>1. \A f : Writers(f) = {}
  BY DEF Init, Writers, Idle, Writing
<1>2. \A f \in Files : disk[f] = None \/ (f \in {"spec.yaml", "spec.yml"} /\ disk[f] = Whole("first"))
  BY DEF Init, Files
<1>3. \A f \in Files : disk[f] \in Content(f)
  BY <1>2 DEF Content, Value, Words
<1>4. FilesTypeOK
  BY <1>3 DEF Init, FilesTypeOK, Content
<1>5. ASSUME NEW f \in Files PROVE InOrder(f)
  <2>1. disk[f] # Torn
    BY <1>2, Contents
  <2>2. f = "stages" => Promotions = decided
    BY <1>2 DEF Init, Promotions
  <2> QED BY <1>1, <2>1, <2>2 DEF InOrder
<1> QED BY <1>4, <1>5 DEF FilesInv

LEMMA Kept == FilesInv /\ [Next]_vars => FilesInv'
<1> SUFFICES ASSUME FilesInv, [Next]_vars PROVE FilesInv'
  OBVIOUS
<1>1. CASE \E r \in Requests : request[r] = Idle /\ (SetStage(r) \/ Halt(r) \/ Refill(r) \/ Install(r))
  BY <1>1, SetStageSafe, HaltSafe, RefillSafe, InstallSafe
<1>2. CASE \E r \in Requests : Fetched(r) \/ OpenTmp(r) \/ Write(r)
  BY <1>2, FetchedSafe, OpenTmpSafe, WriteSafe
<1>3. CASE \E r \in Requests : WriteFails(r) \/ Rename(r) \/ ClearYml(r)
  BY <1>3, WriteFailsSafe, RenameSafe, ClearYmlSafe
<1>4. CASE Resume \/ Remove \/ Crash
  BY <1>4, ResumeSafe, RemoveSafe, CrashSafe
<1>5. CASE UNCHANGED vars
  BY <1>5, SameFiles DEF vars
<1> QED BY <1>1, <1>2, <1>3, <1>4, <1>5 DEF Next

(* The types of the files and of the requests, and that each file which no two
   requests wrote at once has one writer, is whole and is what was decided. *)
THEOREM FilesInOrder == Spec => []FilesInv
<1> QED BY Starts, Kept, PTL DEF Spec

(* A reader never finds half a file: bars.Write, Halt and Set write a temporary
   file and rename it, so what stops a writer leaves the old file whole.    *)
THEOREM FilesAreWhole == Spec => []NoTornFile
<1>1. FilesInv => NoTornFile
  BY DEF FilesInv, InOrder, NoTornFile
<1> QED BY <1>1, FilesInOrder, PTL

(* The promotions on disk are the operator's decisions (Set, handleSetStage),
   whatever fails, and whatever else is written meanwhile.                   *)
THEOREM PromotionsStand == Spec => []DecisionsStand
<1>1. FilesInv => DecisionsStand
  BY DEF FilesInv, InOrder, DecisionsStand, Files
<1> QED BY <1>1, FilesInOrder, PTL

(* A refill replaces a symbol's bars by at least as many (refill.one). *)
THEOREM RefillsKeepHistory == Spec => HistoryKept
<1> DEFINE Kept2 == Readable(disk["bars"]) /\ "bars" \notin overlapped' =>
       /\ Readable(disk'["bars"])
       /\ disk'["bars"].value >= disk["bars"].value
<1>1. ASSUME FilesInv, FilesInv', [Next]_vars, Readable(disk["bars"]), "bars" \notin overlapped'
      PROVE  Readable(disk'["bars"]) /\ disk'["bars"].value >= disk["bars"].value
  <2> DEFINE Same == disk'["bars"] = disk["bars"]
  <2>1. "bars" \in Files /\ disk["bars"] \in Content("bars")
    BY <1>1 DEF FilesInv, FilesTypeOK, Files
  <2>2. disk["bars"].value \in Nat
    <3>1. disk["bars"] = None \/ disk["bars"] = Torn \/ \E v \in Nat : disk["bars"] = Whole(v)
      BY <2>1 DEF Content, Value
    <3> QED BY <1>1, <3>1, Contents
  <2>3. Same => Readable(disk'["bars"]) /\ disk'["bars"].value >= disk["bars"].value
    BY <1>1, <2>2
  <2>4. ASSUME NEW r \in Requests, Write(r) \/ Rename(r), request[r].file = "bars"
        PROVE  Readable(disk'["bars"]) /\ disk'["bars"].value >= disk["bars"].value
    <3>1. request[r] \in Request("bars")
      <4>1. request[r].at # "idle"
        BY <2>4 DEF Write, Rename
      <4> QED BY <1>1, <2>4, <4>1, Busy DEF FilesInv
    <3>2. request[r].at \in Writing /\ overlapped' = overlapped
      BY <2>4 DEF Write, Rename, Writing
    <3>3. WriterKnows("bars", request[r])
      BY <1>1, <2>1, <3>1, <3>2, Knows
    <3>4. CASE Write(r)
      <4>1. request[r].seen = renames["bars"]
        BY <3>3, <3>4 DEF Write, WriterKnows
      <4>2. renames["bars"] \in Nat
        BY <1>1, <2>1 DEF FilesInv, FilesTypeOK
      <4>3. disk' = disk
        BY <2>4, <3>4, <4>1, <4>2 DEF Write
      <4> QED BY <2>3, <4>3
    <3>5. CASE Rename(r)
      <4>1. tmp["bars"] = Whole(request[r].arg) /\ request[r].arg >= disk["bars"].value
        BY <1>1, <3>3, <3>5 DEF Rename, WriterKnows
      <4>2. disk' = [disk EXCEPT !["bars"] = tmp["bars"]]
        BY <2>4, <3>5, <4>1, Contents DEF Rename
      <4>3. disk'["bars"] = Whole(request[r].arg)
        BY <1>1, <2>1, <4>1, <4>2 DEF FilesInv, FilesTypeOK
      <4> QED BY <4>1, <4>3, Contents
    <3> QED BY <2>4, <3>4, <3>5
  <2>5. ASSUME NEW r \in Requests, Write(r) \/ Rename(r), request[r].file # "bars"
        PROVE  Same
    BY <1>1, <2>1, <2>5 DEF Write, Rename, FilesInv, FilesTypeOK
  <2>6. ASSUME NEW r \in Requests,
               SetStage(r) \/ Halt(r) \/ Refill(r) \/ Install(r) \/ Fetched(r) \/ OpenTmp(r)
                 \/ WriteFails(r)
        PROVE  Same
    BY <2>6 DEF SetStage, Halt, Refill, Install, Fetched, OpenTmp, WriteFails
  <2>7. CASE Crash \/ UNCHANGED vars
    BY <2>3, <2>7 DEF Crash, vars
  <2>8. CASE Resume \/ Remove \/ \E r \in Requests : ClearYml(r)
    <3>1. \E g \in {"HALT", "spec.yaml", "spec.yml"} : disk' = [disk EXCEPT ![g] = None]
      BY <2>8 DEF Resume, Remove, ClearYml
    <3>2. DOMAIN disk = Files
      BY <1>1 DEF FilesInv, FilesTypeOK
    <3>3. Same
      BY <2>1, <3>1, <3>2
    <3> QED BY <2>3, <3>3
  <2> QED BY <1>1, <2>3, <2>4, <2>5, <2>6, <2>7, <2>8 DEF Next
<1>2. FilesInv /\ FilesInv' /\ [Next]_vars => [Kept2]_vars
  BY <1>1
<1> QED BY <1>2, FilesInOrder, PTL DEF Spec, HistoryKept

(* A halt that was answered is in force until it is resumed (Halt, Resume,
   Status): of two halts at once the later one to be renamed leaves a marker,
   and a halt that found nothing to rename answers an error.                *)
THEOREM HaltStands == Spec => []HaltIsInForce
<1>1. Init => HaltIsInForce
  BY DEF Init, HaltIsInForce
<1>2. ASSUME FilesInv, HaltIsInForce, [Next]_vars PROVE HaltIsInForce'
  <2>1. "HALT" \in DOMAIN disk /\ DOMAIN disk = Files
    BY <1>2 DEF FilesInv, FilesTypeOK, Files
  <2>2. ASSUME NEW r \in Requests, Rename(r) PROVE HaltIsInForce'
    <3>1. disk'["HALT"] = disk["HALT"] \/ disk'["HALT"] # None
      BY <2>1, <2>2 DEF Rename
    <3>2. promised' => promised \/ disk'["HALT"] # None
      BY <2>1, <2>2 DEF Rename
    <3> QED BY <1>2, <3>1, <3>2 DEF HaltIsInForce
  <2>3. ASSUME NEW r \in Requests, Halt(r) PROVE HaltIsInForce'
    BY <1>2, <2>3 DEF Halt, HaltIsInForce
  <2>4. ASSUME NEW r \in Requests, Write(r) PROVE HaltIsInForce'
    <3>1. disk'["HALT"] = disk["HALT"] \/ disk'["HALT"] # None
      BY <2>1, <2>4, Contents DEF Write
    <3> QED BY <1>2, <2>4, <3>1 DEF HaltIsInForce, Write
  <2>5. ASSUME NEW r \in Requests,
               SetStage(r) \/ Refill(r) \/ Install(r) \/ Fetched(r) \/ OpenTmp(r) \/ WriteFails(r)
        PROVE  HaltIsInForce'
    BY <1>2, <2>5 DEF SetStage, Refill, Install, Fetched, OpenTmp, WriteFails, HaltIsInForce
  <2>6. ASSUME NEW r \in Requests, ClearYml(r) PROVE HaltIsInForce'
    BY <1>2, <2>1, <2>6 DEF ClearYml, HaltIsInForce
  <2>7. CASE Resume
    BY <2>7 DEF Resume, HaltIsInForce
  <2>8. CASE Remove
    BY <1>2, <2>1, <2>8 DEF Remove, HaltIsInForce
  <2>9. CASE Crash \/ UNCHANGED vars
    BY <1>2, <2>9 DEF Crash, vars, HaltIsInForce
  <2> QED BY <1>2, <2>2, <2>3, <2>4, <2>5, <2>6, <2>7, <2>8, <2>9 DEF Next
<1> QED BY <1>1, <1>2, FilesInOrder, PTL DEF Spec

=============================================================================
