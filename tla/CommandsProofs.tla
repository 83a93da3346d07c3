--------------------------- MODULE CommandsProofs ---------------------------
(***************************************************************************)
(* What a broker hands on keeps its commands with it, for every set of     *)
(* directories, brokers and shells (CellResolution); an agent's id and     *)
(* boot prompt belong together, and what it gets for its id is its own     *)
(* prompt, for every file whose agents have different names (AgentLaunch); *)
(* a client takes an answer for what it is (ClientSession).                *)
(***************************************************************************)
EXTENDS MCCommands, SequenceTheorems, TLAPS

(* Which broker a command reaches: CellResolution.                         *)

BrokerState ==
    [up: BOOLEAN, at: Resolution, home: Dirs \cup {None}, env: Env,
     file: Files \cup {Absent}, chosen: BOOLEAN]

\* A cell that was chosen is not derived from a directory, and a derived one
\* says from which.
LEMMA CellsDiffer ==
    /\ \A id, root : Chosen(id) # Derived(root)
    /\ \A r1, r2 : Derived(r1) = Derived(r2) => r1 = r2
BY DEF Chosen, Derived

\* The kinds of files are told apart by what they say.
LEMMA FileFacts ==
    /\ \A f \in Files : /\ f.kind = "valid" /\ f.cwd \in BOOLEAN
                        /\ f.cell = None \/ \E id \in Ids : f.cell = Chosen(id)
    /\ Plain \in Files /\ Plain.cell = None /\ Plain.kind = "valid"
    /\ Absent.kind = "absent" /\ Absent.cell = None /\ Absent.cwd = FALSE
    /\ Broken.kind = "broken" /\ Broken.cell = None /\ Broken.cwd = FALSE
    /\ Absent \notin Files
<1>1. /\ Plain.cell = None /\ Plain.kind = "valid" /\ Plain.cwd = FALSE /\ Plain \in Files
      /\ Absent.kind = "absent" /\ Absent.cell = None /\ Absent.cwd = FALSE
      /\ Broken.kind = "broken" /\ Broken.cell = None /\ Broken.cwd = FALSE
  BY DEF Plain, Absent, Broken, Files
<1>2. [Plain EXCEPT !.cwd = TRUE].kind = "valid" /\ [Plain EXCEPT !.cwd = TRUE].cwd = TRUE
      /\ [Plain EXCEPT !.cwd = TRUE].cell = None
  BY DEF Plain
<1>3. ASSUME NEW id \in Ids
      PROVE  LET f == [Plain EXCEPT !.cell = Chosen(id)]
             IN  f.kind = "valid" /\ f.cwd = FALSE /\ f.cell = Chosen(id)
  BY DEF Plain
<1>4. ASSUME NEW f \in Files
      PROVE  /\ f.kind = "valid" /\ f.cwd \in BOOLEAN
             /\ f.cell = None \/ \E id \in Ids : f.cell = Chosen(id)
  <2>1. \/ f = Plain \/ f = [Plain EXCEPT !.cwd = TRUE]
        \/ \E id \in Ids : f = [Plain EXCEPT !.cell = Chosen(id)]
    BY DEF Files
  <2> QED
    BY <1>1, <1>2, <1>3, <2>1
<1> QED
  BY <1>1, <1>4

\* What commands and slots start with.
LEMMA EnvFacts ==
    /\ NoEnv \in Env /\ NoEnv.cell = None /\ NoEnv.socket = None /\ NoEnv.config = None
    /\ NoFlags \in Flags /\ NoFlags.cell = None /\ NoFlags.config = None
    /\ Free \in Shell /\ Free.kind = "free" /\ Free.env = NoEnv /\ Free.of = None
    /\ Failed \in Resolution /\ Failed.ok = FALSE
    /\ Down \in BrokerState /\ Down.up = FALSE /\ Down.chosen = FALSE
<1>1. NoEnv \in Env /\ NoEnv.cell = None /\ NoEnv.socket = None /\ NoEnv.config = None
  BY DEF NoEnv, Env
<1>2. NoFlags \in Flags /\ NoFlags.cell = None /\ NoFlags.config = None
  BY DEF NoFlags, Flags
<1>3. Free \in Shell /\ Free.kind = "free" /\ Free.env = NoEnv /\ Free.of = None
  BY <1>1 DEF Free, Shell
<1>4. Failed \in Resolution /\ Failed.ok = FALSE
  BY DEF Failed, Resolution
<1>5. Down \in BrokerState /\ Down.up = FALSE /\ Down.chosen = FALSE
  BY <1>1, <1>4 DEF Down, BrokerState
<1> QED
  BY <1>1, <1>2, <1>3, <1>4, <1>5

\* What a resolution that succeeds consists of.
LEMMA ResolveFacts ==
    ASSUME TypeOK, NEW d \in Dirs, NEW flags \in Flags, NEW env \in Env
    PROVE  LET r    == Resolve(d, flags, env)
               dir  == ConfigDir(d, flags, env)
               source == FileOf(dir)
           IN  /\ dir \in Dirs \cup {None} /\ source \in Files \cup {Absent, Broken}
               /\ r \in Resolution
               /\ r.ok <=> (dir = None \/ source.kind = "valid")
               /\ r.ok => /\ r.cell = CellId(flags, env, source, Root(d, flags, env))
                          /\ r.cell \in Cells
                          /\ r.config = dir /\ r.root = Root(d, flags, env)
                          /\ source \in Files \cup {Absent}
<1> DEFINE dir == ConfigDir(d, flags, env)
           source == FileOf(dir)
           root == Root(d, flags, env)
<1>1. /\ flags.cell = None \/ \E id \in Ids : flags.cell = Chosen(id)
      /\ flags.config \in Dirs \cup {Bare, None}
      /\ env.cell \in Cells \cup {None} /\ env.config \in Dirs \cup {None}
  BY ResolutionAssumption DEF Flags, Env
<1>2. dir \in Dirs \cup {None}
  BY <1>1 DEF ConfigDir
<1>3. source \in Files \cup {Absent, Broken}
  BY <1>2 DEF FileOf, TypeOK
<1>4. root \in Dirs \cup {Nowhere}
  BY <1>2 DEF Root
<1>5. CellId(flags, env, source, root) \in Cells
  <2>1. source.cell = None \/ \E id \in Ids : source.cell = Chosen(id)
    BY <1>3, FileFacts
  <2> HIDE DEF source, root
  <2> QED
    BY <1>1, <1>4, <2>1 DEF CellId, Cells
<1>6. source.cwd \in BOOLEAN
  BY <1>3, FileFacts
<1>7. CASE dir # None /\ source.kind # "valid"
  <2>1. Resolve(d, flags, env) = Failed
    BY <1>7 DEF Resolve
  <2> QED
    BY <1>2, <1>3, <1>7, <2>1, EnvFacts
<1>8. CASE ~(dir # None /\ source.kind # "valid")
  <2> DEFINE r == [ok |-> TRUE, cell |-> CellId(flags, env, source, root), config |-> dir,
                   root |-> root, hasCwd |-> source.cwd \/ root # Nowhere]
  <2>1. Resolve(d, flags, env) = r
    BY <1>8 DEF Resolve
  <2>2. source \in Files \cup {Absent}
    BY <1>3, <1>8, FileFacts DEF FileOf
  <2>3. r \in Resolution
    <3> HIDE DEF dir, source, root
    <3> QED
      BY <1>2, <1>4, <1>5, <1>6 DEF Resolution
  <2>4. r.ok = TRUE /\ r.cell = CellId(flags, env, source, root) /\ r.config = dir /\ r.root = root
    OBVIOUS
  <2> HIDE DEF r
  <2> QED
    BY <1>2, <1>3, <1>5, <1>8, <2>1, <2>2, <2>3, <2>4
<1> QED
  BY <1>7, <1>8

\* The environments that a broker hands on are environments.
LEMMA EnvTypes ==
    ASSUME TypeOK, NEW b \in Brokers, NEW env \in Env
    PROVE  AgentEnv(b) \in Env /\ HeartbeatEnv(b) \in Env /\ PastedEnv(b, env) \in Env
<1>1. broker[b].at \in Resolution /\ broker[b].env \in Env
  BY DEF TypeOK
<1>2. /\ broker[b].at.cell \in Cells \cup {None} /\ broker[b].at.config \in Dirs \cup {None}
      /\ broker[b].env.config \in Dirs \cup {None}
      /\ env.socket \in Cells \cup {None} /\ env.config \in Dirs \cup {None}
  BY <1>1 DEF Resolution, Env
<1>3. \A x, y \in Dirs \cup {None} : Override(x, y) \in Dirs \cup {None}
  BY DEF Override
<1> QED
  BY <1>2, <1>3 DEF AgentEnv, HeartbeatEnv, PastedEnv, Env

\* What serve records of its own resolution.
Served(s, d, flags) ==
    LET r == Resolve(d, flags, shell[s].env)
    IN  [up |-> TRUE, at |-> r, env |-> shell[s].env, file |-> FileOf(r.config),
         home |-> Home(d, r), chosen |-> flags.cell # None \/ shell[s].env.cell # None]

\* The fields of that record.
LEMMA ServedFields ==
    ASSUME NEW s \in Shells, NEW d \in Dirs, NEW flags \in Flags
    PROVE  LET r   == Resolve(d, flags, shell[s].env)
               new == Served(s, d, flags)
           IN  /\ new.up = TRUE
               /\ new.at = r
               /\ new.home = Home(d, r)
               /\ new.file = FileOf(r.config)
               /\ ~ new.chosen => flags.cell = None /\ shell[s].env.cell = None
BY DEF Served

\* A broker that starts has resolved a cell, and is recorded with it.
LEMMA ServeFacts ==
    ASSUME TypeOK, NEW s \in Shells, NEW b \in Brokers, NEW d \in Dirs, NEW flags \in Flags,
           Serve(s, b, d, flags)
    PROVE  LET r == Resolve(d, flags, shell[s].env)
           IN  /\ shell[s].env \in Env /\ r.ok /\ r.cell \in Cells /\ Home(d, r) \in Dirs
               /\ broker'[b] = Served(s, d, flags)
               /\ \A c \in Brokers \ {b} : broker'[c] = broker[c]
               /\ broker' \in [Brokers -> BrokerState]
               /\ ~ broker[b].up
               /\ conf' = conf /\ shell' = shell /\ edits' = edits
<1> DEFINE r == Resolve(d, flags, shell[s].env)
<1>1. shell[s].env \in Env
  BY DEF TypeOK, Shell
<1>2. /\ r \in Resolution /\ r.ok /\ r.cell \in Cells
      /\ r.config \in Dirs \cup {None} /\ FileOf(r.config) \in Files \cup {Absent}
  BY <1>1, ResolveFacts DEF Serve
<1>3. Home(d, r) \in Dirs
  BY <1>2 DEF Home
<1>4. broker \in [Brokers -> BrokerState]
  BY DEF TypeOK, BrokerState
<1>5. broker' = [broker EXCEPT ![b] = Served(s, d, flags)]
  BY DEF Serve, Served
<1>6. Served(s, d, flags) \in BrokerState
  BY <1>1, <1>2, <1>3 DEF Served, BrokerState
<1>7. /\ broker'[b] = Served(s, d, flags) /\ broker' \in [Brokers -> BrokerState]
      /\ \A c \in Brokers \ {b} : broker'[c] = broker[c]
  BY <1>4, <1>5, <1>6
<1> QED
  BY <1>1, <1>2, <1>3, <1>7 DEF Serve

\* What runs in a slot that was free.
LEMMA RunFacts ==
    ASSUME TypeOK, NEW s \in Shells, NEW kind \in {"agent", "pasted", "heartbeat"},
           NEW env \in Env, NEW b \in Brokers, Run(s, kind, env, b)
    PROVE  /\ shell' \in [Shells -> Shell]
           /\ shell'[s].kind = kind /\ shell'[s].env = env /\ shell'[s].of = b
           /\ \A t \in Shells \ {s} : shell'[t] = shell[t]
<1> DEFINE new == [kind |-> kind, env |-> env, of |-> b]
<1>1. new \in Shell /\ new.kind = kind /\ new.env = env /\ new.of = b
  BY DEF Shell
<1>2. shell \in [Shells -> Shell] /\ shell' = [shell EXCEPT ![s] = new]
  BY DEF TypeOK, Run
<1> HIDE DEF new
<1> QED
  BY <1>1, <1>2

\* Every variable keeps its type.
LEMMA CellTypes == TypeOK /\ [Next]_vars => TypeOK'
<1> SUFFICES ASSUME TypeOK, [Next]_vars PROVE TypeOK'
  OBVIOUS
<1>1. /\ conf \in [Dirs -> Files \cup {Absent, Broken}] /\ shell \in [Shells -> Shell]
      /\ broker \in [Brokers -> BrokerState] /\ edits \in 0 .. MaxEdits
  BY DEF TypeOK, BrokerState
<1> DEFINE Typed == /\ conf' \in [Dirs -> Files \cup {Absent, Broken}]
                    /\ shell' \in [Shells -> Shell]
                    /\ broker' \in [Brokers -> BrokerState] /\ edits' \in 0 .. MaxEdits
<1>2. Typed => TypeOK'
  BY DEF TypeOK, BrokerState
<1>3. ASSUME NEW s \in Shells, NEW b \in Brokers, NEW d \in Dirs, NEW flags \in Flags,
             Serve(s, b, d, flags)
      PROVE  Typed
  BY <1>1, <1>3, ServeFacts
<1>4. ASSUME NEW s \in Shells, NEW b \in Brokers,
             SpawnAgent(b, s) \/ Heartbeat(b, s) \/ \E t \in Shells : Paste(b, t, s)
      PROVE  Typed
  <2>1. \A t \in Shells : shell[t].env \in Env
    BY <1>1 DEF Shell
  <2>2. \E kind \in {"agent", "pasted", "heartbeat"} : \E env \in Env : Run(s, kind, env, b)
    BY <1>4, <2>1, EnvTypes, EnvFacts DEF SpawnAgent, Heartbeat, Paste
  <2>3. conf' = conf /\ broker' = broker /\ edits' = edits
    BY <1>4 DEF SpawnAgent, Heartbeat, Paste
  <2> QED
    BY <1>1, <2>2, <2>3, RunFacts
<1>5. ASSUME NEW b \in Brokers, Shutdown(b)
      PROVE  Typed
  BY <1>1, <1>5, EnvFacts DEF Shutdown
<1>6. ASSUME NEW d \in Dirs, InitConfig(d) \/ EditConfig(d)
      PROVE  Typed
  BY <1>1, <1>6, FileFacts, ResolutionAssumption DEF InitConfig, EditConfig
<1>7. ASSUME UNCHANGED vars
      PROVE  Typed
  BY <1>1, <1>7 DEF vars
<1> QED
  BY <1>2, <1>3, <1>4, <1>5, <1>6, <1>7 DEF Next

\* What runs below a broker has the broker's cell in its environment, and its
\* configuration and socket as far as the broker hands them on.
Below(s, b) ==
    /\ broker[b].up
    /\ shell[s].env.cell = broker[b].at.cell
    /\ shell[s].kind = "agent" => shell[s].env.socket = broker[b].at.cell
    /\ shell[s].kind \in {"agent", "pasted"} /\ broker[b].at.config # None =>
            shell[s].env.config = broker[b].at.config

\* A broker that nobody gave a cell id has the cell of its file or of its root,
\* which is its own directory or, for a bare file name, nowhere.
AtHome(b) ==
    LET bk == broker[b]
    IN  /\ bk.home \in Dirs
        /\ bk.at.config = None => bk.file = Absent
        /\ bk.at.config # None => bk.at.config = bk.home /\ bk.file \in Files
        /\ bk.at.root \in {bk.home, Nowhere}
        /\ bk.at.cell = IF bk.file.cell = None THEN Derived(bk.at.root) ELSE bk.file.cell

CellInv ==
    /\ \A b \in Brokers : broker[b].up => broker[b].at.cell \in Cells
    /\ \A s \in Shells :
        /\ shell[s].kind \in {"agent", "pasted", "heartbeat"} => shell[s].of # None
        /\ shell[s].of # None => Below(s, shell[s].of)
    /\ \A b \in Brokers : broker[b].up /\ ~ broker[b].chosen => AtHome(b)

\* A command below a broker is started with that broker's cell.
LEMMA RunBelow ==
    ASSUME TypeOK, CellInv, NEW s \in Shells, NEW b \in Brokers,
           NEW kind \in {"agent", "pasted", "heartbeat"}, NEW env \in Env,
           Run(s, kind, env, b), broker' = broker, broker[b].up,
           env.cell = broker[b].at.cell,
           kind = "agent" => env.socket = broker[b].at.cell,
           kind \in {"agent", "pasted"} /\ broker[b].at.config # None =>
                env.config = broker[b].at.config
    PROVE  CellInv'
<1>1. /\ shell'[s].kind = kind /\ shell'[s].env = env /\ shell'[s].of = b
      /\ \A t \in Shells \ {s} : shell'[t] = shell[t]
  BY RunFacts
<1>2. b # None
  BY ResolutionAssumption
<1>3. ASSUME NEW t \in Shells
      PROVE  /\ shell'[t].kind \in {"agent", "pasted", "heartbeat"} => shell'[t].of # None
             /\ shell'[t].of # None => Below(t, shell[t].of)'
  <2>1. CASE t = s
    BY <1>1, <1>2, <2>1 DEF Below
  <2>2. CASE t # s
    BY <1>1, <2>2 DEF CellInv, Below
  <2> QED
    BY <2>1, <2>2
<1>4. \A c \in Brokers : AtHome(c)' <=> AtHome(c)
  BY DEF AtHome
<1> QED
  BY <1>3, <1>4 DEF CellInv

\* A broker that starts has nothing below it yet, and is at home if nobody
\* gave it a cell id.
LEMMA ServeCell ==
    ASSUME TypeOK, CellInv, NEW s \in Shells, NEW b \in Brokers, NEW d \in Dirs,
           NEW flags \in Flags, Serve(s, b, d, flags)
    PROVE  CellInv'
<1> DEFINE r == Resolve(d, flags, shell[s].env)
<1>1. /\ shell[s].env \in Env /\ r.ok /\ r.cell \in Cells /\ Home(d, r) \in Dirs
      /\ broker'[b] = Served(s, d, flags)
      /\ \A c \in Brokers \ {b} : broker'[c] = broker[c]
      /\ ~ broker[b].up /\ shell' = shell
  BY ServeFacts
<1>2. /\ Served(s, d, flags).at = r
      /\ Served(s, d, flags).home = Home(d, r)
      /\ Served(s, d, flags).file = FileOf(r.config)
      /\ ~ Served(s, d, flags).chosen => flags.cell = None /\ shell[s].env.cell = None
  BY ServedFields
<1>3. r = Resolve(d, flags, shell[s].env)
  OBVIOUS
<1> HIDE DEF r
<1>4. /\ broker'[b].at = r /\ broker'[b].home = Home(d, r) /\ broker'[b].file = FileOf(r.config)
      /\ ~ broker'[b].chosen => flags.cell = None /\ shell[s].env.cell = None
  BY <1>1, <1>2
<1>5. \A t \in Shells : shell[t].of # b
  BY <1>1, ResolutionAssumption DEF CellInv, Below
<1>6. ASSUME NEW t \in Shells, shell[t].of # None
      PROVE  Below(t, shell[t].of)'
  <2>1. shell[t].of \in Brokers \ {b}
    BY <1>5, <1>6 DEF TypeOK, Shell
  <2>2. broker'[shell[t].of] = broker[shell[t].of] /\ Below(t, shell[t].of)
    BY <1>1, <1>6, <2>1 DEF CellInv
  <2> QED
    BY <1>1, <2>2 DEF Below
<1>7. ASSUME ~ broker'[b].chosen
      PROVE  AtHome(b)'
  <2> DEFINE dir == ConfigDir(d, flags, shell[s].env)
             root == Root(d, flags, shell[s].env)
  <2>1. /\ r.cell = CellId(flags, shell[s].env, FileOf(dir), root)
        /\ r.config = dir /\ FileOf(dir) \in Files \cup {Absent} /\ r.root = root
        /\ dir \in Dirs \cup {None}
    BY <1>1, <1>3, ResolveFacts
  <2>2. flags.cell = None /\ shell[s].env.cell = None
    BY <1>4, <1>7
  <2>3. flags.config # Bare => root = Home(d, r)
    BY <2>1 DEF Root, Home
  <2>4. root \in {Home(d, r), Nowhere}
    <3>1. flags.config = Bare => dir # None
      BY ResolutionAssumption DEF ConfigDir
    <3>2. flags.config = Bare => root = Nowhere
      BY <3>1 DEF Root
    <3> QED
      BY <2>3, <3>2
  <2>5. r.cell = IF FileOf(dir).cell = None THEN Derived(root) ELSE FileOf(dir).cell
    BY <2>1, <2>2 DEF CellId
  <2>6. dir = None => FileOf(dir) = Absent
    BY DEF FileOf
  <2>7. dir # None => FileOf(dir) \in Files
    <3> SUFFICES ASSUME dir # None PROVE FileOf(dir) \in Files
      OBVIOUS
    <3>1. FileOf(dir).kind = "valid"
      BY <1>1, <1>3, ResolveFacts
    <3> QED
      BY <2>1, <3>1, FileFacts
  <2>8. dir # None => Home(d, r) = dir
    BY <2>1 DEF Home
  <2> HIDE DEF dir, root
  <2> QED
    BY <1>1, <1>4, <2>1, <2>4, <2>5, <2>6, <2>7, <2>8 DEF AtHome
<1>8. \A c \in Brokers \ {b} : AtHome(c)' <=> AtHome(c)
  BY <1>1 DEF AtHome
<1> QED
  BY <1>1, <1>4, <1>6, <1>7, <1>8 DEF CellInv

\* Every step keeps what runs below a broker with that broker.
LEMMA NextCell == TypeOK /\ CellInv /\ [Next]_vars => CellInv'
<1> SUFFICES ASSUME TypeOK, CellInv, [Next]_vars PROVE CellInv'
  OBVIOUS
<1>1. ASSUME NEW s \in Shells, NEW b \in Brokers, NEW d \in Dirs, NEW flags \in Flags,
             Serve(s, b, d, flags)
      PROVE  CellInv'
  BY <1>1, ServeCell
<1>2. ASSUME NEW s \in Shells, NEW b \in Brokers, SpawnAgent(b, s)
      PROVE  CellInv'
  <2>1. AgentEnv(b) \in Env
    BY EnvTypes, EnvFacts
  <2>2. /\ AgentEnv(b).cell = broker[b].at.cell /\ AgentEnv(b).socket = broker[b].at.cell
        /\ broker[b].at.config # None => AgentEnv(b).config = broker[b].at.config
    BY DEF AgentEnv, Override
  <2> QED
    BY <1>2, <2>1, <2>2, RunBelow DEF SpawnAgent
<1>3. ASSUME NEW s \in Shells, NEW b \in Brokers, Heartbeat(b, s)
      PROVE  CellInv'
  <2>1. HeartbeatEnv(b) \in Env
    BY EnvTypes, EnvFacts
  <2>2. HeartbeatEnv(b).cell = broker[b].at.cell
    BY DEF HeartbeatEnv
  <2> QED
    BY <1>3, <2>1, <2>2, RunBelow DEF Heartbeat
<1>4. ASSUME NEW s \in Shells, NEW t \in Shells, NEW b \in Brokers, Paste(b, t, s)
      PROVE  CellInv'
  <2>1. PastedEnv(b, shell[t].env) \in Env
    BY EnvTypes DEF TypeOK, Shell
  <2>2. /\ PastedEnv(b, shell[t].env).cell = broker[b].at.cell
        /\ broker[b].at.config # None =>
                PastedEnv(b, shell[t].env).config = broker[b].at.config
    BY DEF PastedEnv, Override
  <2> QED
    BY <1>4, <2>1, <2>2, RunBelow DEF Paste
<1>5. ASSUME NEW b \in Brokers, Shutdown(b)
      PROVE  CellInv'
  <2>1. /\ broker'[b] = Down /\ \A c \in Brokers \ {b} : broker'[c] = broker[c]
        /\ \A t \in Shells : shell'[t] = IF shell[t].of = b THEN Free ELSE shell[t]
    BY <1>5 DEF Shutdown, TypeOK
  <2>2. ASSUME NEW t \in Shells
        PROVE  /\ shell'[t].kind \in {"agent", "pasted", "heartbeat"} => shell'[t].of # None
               /\ shell'[t].of # None => Below(t, shell[t].of)'
    <3>1. CASE shell[t].of = b
      BY <2>1, <3>1, EnvFacts
    <3>2. CASE shell[t].of # b
      <4>1. shell'[t] = shell[t] /\ (shell[t].of # None => shell[t].of \in Brokers \ {b})
        BY <2>1, <3>2 DEF TypeOK, Shell
      <4> QED
        BY <2>1, <4>1 DEF CellInv, Below
    <3> QED
      BY <3>1, <3>2
  <2>3. \A c \in Brokers \ {b} : AtHome(c)' <=> AtHome(c)
    BY <2>1 DEF AtHome
  <2> QED
    BY <2>1, <2>2, <2>3, EnvFacts DEF CellInv
<1>6. ASSUME shell' = shell, broker' = broker
      PROVE  CellInv'
  BY <1>6 DEF CellInv, Below, AtHome
<1>7. ASSUME NEW d \in Dirs, InitConfig(d) \/ EditConfig(d)
      PROVE  CellInv'
  BY <1>6, <1>7 DEF InitConfig, EditConfig
<1>8. CASE UNCHANGED vars
  BY <1>6, <1>8 DEF vars
<1> QED
  BY <1>1, <1>2, <1>3, <1>4, <1>5, <1>7, <1>8 DEF Next

\* At first no broker runs and nothing runs below one.
LEMMA InitCell == Init => TypeOK /\ CellInv
<1> SUFFICES ASSUME Init PROVE TypeOK /\ CellInv
  OBVIOUS
<1>1. ASSUME NEW s \in Shells
      PROVE  /\ shell[s] \in Shell /\ shell[s].of = None
             /\ shell[s].kind \notin {"agent", "pasted", "heartbeat"}
  <2>1. CASE shell[s] = Free
    BY <2>1, EnvFacts
  <2>2. ASSUME NEW env \in {NoEnv} \cup {[NoEnv EXCEPT !.cell = Chosen(id)] : id \in Ids},
               shell[s] = [kind |-> "terminal", env |-> env, of |-> None]
        PROVE  shell[s] \in Shell /\ shell[s].of = None /\ shell[s].kind = "terminal"
    <3>1. env \in Env
      BY EnvFacts DEF NoEnv, Env, Cells
    <3> QED
      BY <2>2, <3>1 DEF Shell
  <2> QED
    BY <2>1, <2>2 DEF Init
<1>2. TypeOK
  BY <1>1, EnvFacts, ResolutionAssumption DEF Init, TypeOK, BrokerState
<1>3. CellInv
  BY <1>1, EnvFacts DEF Init, CellInv
<1> QED
  BY <1>2, <1>3

\* What runs below a broker stays with it.
LEMMA CellInvariant == Spec => [](TypeOK /\ CellInv)
<1>1. TypeOK /\ CellInv /\ [Next]_vars => (TypeOK /\ CellInv)'
  BY CellTypes, NextCell
<1> QED
  BY InitCell, <1>1, PTL DEF Spec

\* What a broker starts or prints stays its own: a command below it reaches
\* that broker or none, reads that broker's configuration, and so does the
\* stop hook, in every directory and after every edit of a file.
THEOREM ChildrenBoundHolds == Spec => []ChildrenBound
<1>1. TypeOK /\ CellInv => ChildrenBound
  <2> SUFFICES ASSUME TypeOK, CellInv PROVE ChildrenBound
    OBVIOUS
  <2>1. \A s \in Shells : shell[s].env \in Env /\ shell[s].of \in Brokers \cup {None}
    BY DEF TypeOK, Shell
  <2>2. None \notin Cells /\ None # Bare
    BY ResolutionAssumption
  <2>3. ASSUME NEW s \in Shells, NEW d \in Dirs, shell[s].of # None, At(s, d).ok
        PROVE  At(s, d).cell = broker[shell[s].of].at.cell
    <3> DEFINE env == shell[s].env
    <3>1. env.cell = broker[shell[s].of].at.cell /\ env.cell \in Cells
      BY <2>1, <2>3 DEF CellInv, Below
    <3>2. At(s, d).cell = CellId(NoFlags, env, FileOf(ConfigDir(d, NoFlags, env)),
                                 Root(d, NoFlags, env))
      BY <2>1, <2>3, EnvFacts, ResolveFacts DEF At
    <3>3. NoFlags.cell = None /\ env.cell # None
      BY <2>2, <3>1, EnvFacts
    <3>4. At(s, d).cell = env.cell
      BY <3>2, <3>3 DEF CellId
    <3> QED
      BY <3>1, <3>4
  <2>4. ASSUME NEW s \in Shells, NEW d \in Dirs, shell[s].kind \in {"agent", "pasted"},
               broker[shell[s].of].at.config # None,
               conf[broker[shell[s].of].at.config].kind = "valid"
        PROVE  At(s, d).config = broker[shell[s].of].at.config
    <3> DEFINE env == shell[s].env
    <3>1. env.config = broker[shell[s].of].at.config
      BY <2>4 DEF CellInv, Below
    <3>2. ConfigDir(d, NoFlags, env) = env.config
      BY <2>2, <2>4, <3>1, EnvFacts DEF ConfigDir
    <3>3. FileOf(env.config).kind = "valid"
      BY <2>4, <3>1 DEF FileOf
    <3> QED
      BY <2>1, <3>1, <3>2, <3>3, EnvFacts, ResolveFacts DEF At
  <2>5. ASSUME NEW s \in Shells, NEW d \in Dirs, shell[s].kind = "agent"
        PROVE  HookCell(d, shell[s].env) = broker[shell[s].of].at.cell
    <3>1. /\ shell[s].of \in Brokers /\ broker[shell[s].of].at.cell \in Cells
          /\ shell[s].env.socket = broker[shell[s].of].at.cell
      BY <2>1, <2>5 DEF CellInv, Below
    <3> QED
      BY <2>2, <3>1 DEF HookCell
  <2> QED
    BY <2>3, <2>4, <2>5 DEF ChildrenBound, ChildReachesBroker, ChildKeepsConfig, HookAsksOwnBroker
<1> QED
  BY CellInvariant, <1>1, PTL

\* Unless a file is named without its directory, a resolution's root is its
\* project.
LEMMA RootIsHome ==
    ASSUME TypeOK, NEW d \in Dirs, NEW flags \in Flags, flags.config # Bare, NEW env \in Env,
           Resolve(d, flags, env).ok
    PROVE  /\ Root(d, flags, env) = Home(d, Resolve(d, flags, env))
           /\ Root(d, flags, env) \in Dirs
<1>1. Resolve(d, flags, env).config = ConfigDir(d, flags, env) /\ ConfigDir(d, flags, env) \in Dirs \cup {None}
  BY ResolveFacts
<1> QED
  BY <1>1 DEF Root, Home

\* Projects are apart: if nobody chose a cell id, a command that is not given a
\* bare file name does not meet the broker of another project, and a command in
\* the project finds it.
THEOREM ProjectsApartHolds == Spec => []ProjectsApart
<1>1. TypeOK /\ CellInv => ProjectsApart
  <2> SUFFICES ASSUME TypeOK, CellInv PROVE ProjectsApart
    OBVIOUS
  <2>1. \A s \in Shells : shell[s].env \in Env
    BY DEF TypeOK, Shell
  <2>2. ASSUME NEW s \in Shells, NEW d \in Dirs, NEW b \in Brokers, NEW flags \in Flags,
               Resolve(d, flags, shell[s].env).ok, broker[b].up, ~ broker[b].chosen,
               Resolve(d, flags, shell[s].env).cell \in {Derived(root) : root \in Dirs \cup {Nowhere}},
               shell[s].env.cell = None, flags.config # Bare,
               Resolve(d, flags, shell[s].env).cell = broker[b].at.cell
        PROVE  broker[b].home = Home(d, Resolve(d, flags, shell[s].env))
    <3> DEFINE env    == shell[s].env
               source == FileOf(ConfigDir(d, flags, env))
               root   == Root(d, flags, env)
               cell   == Resolve(d, flags, env).cell
    <3>1. cell = CellId(flags, env, source, root) /\ source \in Files \cup {Absent}
      BY <2>1, <2>2, ResolveFacts
    <3>2. /\ flags.cell = None \/ \E id \in Ids : flags.cell = Chosen(id)
          /\ source.cell = None \/ \E id \in Ids : source.cell = Chosen(id)
      BY <3>1, FileFacts DEF Flags
    <3>3. \A id \in Ids : cell # Chosen(id)
      BY <2>2, CellsDiffer
    <3>4. root = Home(d, Resolve(d, flags, env)) /\ root \in Dirs
      BY <2>1, <2>2, RootIsHome
    <3>5. AtHome(b)
      BY <2>2 DEF CellInv
    <3>6. broker[b].file.cell = None \/ \E id \in Ids : broker[b].file.cell = Chosen(id)
      BY <3>5, FileFacts DEF AtHome
    <3>7. cell = Derived(broker[b].at.root) /\ broker[b].at.root \in {broker[b].home, Nowhere}
      BY <2>2, <3>3, <3>5, <3>6 DEF AtHome
    <3> HIDE DEF source, root, cell
    <3>8. cell = Derived(root)
      BY <2>2, <3>1, <3>2, <3>3 DEF CellId
    <3> QED
      BY <3>4, <3>7, <3>8, CellsDiffer, ResolutionAssumption
  <2>3. ASSUME NEW s \in Shells, NEW b \in Brokers, broker[b].up, ~ broker[b].chosen,
               broker[b].at.root # Nowhere, shell[s].env = NoEnv, conf[broker[b].home] = broker[b].file
        PROVE  At(s, broker[b].home).cell = broker[b].at.cell
    <3> DEFINE d    == broker[b].home
               dir  == ConfigDir(d, NoFlags, NoEnv)
               r    == Resolve(d, NoFlags, NoEnv)
    <3>1. AtHome(b) /\ d \in Dirs
      BY <2>3 DEF CellInv, AtHome
    <3>2. broker[b].file \in Files \cup {Absent}
      BY <2>3 DEF TypeOK
    <3>3. dir = IF conf[d].kind = "absent" THEN None ELSE d
      BY EnvFacts, ResolutionAssumption DEF ConfigDir
    <3>4. Root(d, NoFlags, NoEnv) = d
      BY <3>3, EnvFacts, ResolutionAssumption DEF Root
    <3>5. FileOf(dir) = broker[b].file /\ (dir = None \/ FileOf(dir).kind = "valid")
      <4>1. CASE broker[b].file = Absent
        BY <2>3, <3>3, <4>1, FileFacts DEF FileOf
      <4>2. CASE broker[b].file \in Files
        <5>1. conf[d].kind = "valid"
          BY <2>3, <4>2, FileFacts
        <5>2. dir = d /\ d # None
          BY <3>1, <3>3, <5>1, ResolutionAssumption
        <5> QED
          BY <2>3, <5>1, <5>2 DEF FileOf
      <4> QED
        BY <3>2, <4>1, <4>2
    <3>6. r.cell = CellId(NoFlags, NoEnv, broker[b].file, d)
      BY <3>1, <3>4, <3>5, EnvFacts, ResolveFacts
    <3>7. r.cell = IF broker[b].file.cell = None THEN Derived(d) ELSE broker[b].file.cell
      BY <3>6, EnvFacts DEF CellId
    <3>8. At(s, d) = r
      BY <2>3 DEF At
    <3> HIDE DEF r
    <3> QED
      BY <2>3, <3>1, <3>7, <3>8 DEF AtHome
  <2> QED
    BY <2>2, <2>3 DEF ProjectsApart, NotInTheWay, CellShared, ProjectFound
<1> QED
  BY CellInvariant, <1>1, PTL

-----------------------------------------------------------------------------
(* How agents are launched: AgentLaunch, as Agent.                         *)

\* The agents of a file have different names.
DistinctNames ==
    \A c \in Configs : \A i, j \in DOMAIN c : c[i].name = c[j].name => i = j

BootName(i) == Agent!SanitizeName(agents[i].name)

\* The agents are resolved: their names are safe and different, and a prompt
\* file that is named had a text.
Ready ==
    /\ DOMAIN agents = Agent!Agents
    /\ \A i \in Agent!Agents :
        /\ agents[i].prompt_file \in {"prompt", None}
        /\ agents[i].prompt_file # None => agents[i].prompt # None
        /\ agents[i].interactive \in BOOLEAN
    /\ \A i, j \in Agent!Agents :
        agents[i].name = agents[j].name \/ BootName(i) = BootName(j) => i = j

\* What agent i was given, or was printed for it, is its own and complete.
Own(i, p) ==
    /\ p \in Agent!Given
    /\ p.id \in {i, None}
    /\ Agent!Vendor(i) => ((p.id # None) <=> (p.stdin = "boot"))
    /\ p.stdin = "boot" => BootName(i) \in DOMAIN boot /\ boot[BootName(i)] = i
    /\ p.id # None => registered[i] \in {None, 0, p.prompt}

Owned(i) ==
    /\ process[i] # None => Own(i, process[i])
    /\ printed[i] # None =>
            Own(i, printed[i]) /\ printed[i].how = "pasted" /\ ~ agents[i].launch
    /\ process[i] # None /\ process[i].id # None /\ process[i].how = "supervised" =>
            agents[i].launch
    /\ got[i] # None =>
            process[i] # None /\ process[i].id # None /\ got[i] \in {0, process[i].prompt}

\* What launch_all and the banner have not come to yet.
Ahead(i) ==
    /\ phase = "launching" => printed[i] = None /\ (i >= cursor => process[i] = None)
    /\ phase = "banner" => (i >= cursor => printed[i] = None)
    /\ phase \in {"launching", "banner"} /\ process[i] # None => process[i].how = "supervised"

Untouched ==
    /\ phase \in {"configured", "failed"}
    /\ \A i \in Agent!Agents : process[i] = None /\ printed[i] = None /\ got[i] = None

Underway ==
    /\ phase \in {"launching", "banner", "serving", "failed"}
    /\ Ready
    /\ \A i \in Agent!Agents : Owned(i) /\ Ahead(i)

LaunchTypes ==
    /\ config \in Configs
    /\ file \in [Agent!Agents -> Nat]
    /\ cursor \in Nat
    /\ DOMAIN registered = Agent!Agents
    /\ DOMAIN process = Agent!Agents
    /\ DOMAIN got = Agent!Agents
    /\ DOMAIN printed = Agent!Agents

LaunchInv == LaunchTypes /\ (Untouched \/ Underway)

\* The invariant is as strong as the properties.
LEMMA LaunchProperties == LaunchInv => IdComplete /\ PromptReceived
<1> SUFFICES ASSUME LaunchInv PROVE IdComplete /\ PromptReceived
  OBVIOUS
<1>1. CASE Untouched
  BY <1>1 DEF Untouched, IdComplete, PromptReceived, Agent!IdComplete, Agent!PromptReceived,
       Agent!BootstrapComplete, Agent!BootIsOwn
<1>2. CASE Underway
  <2>1. ASSUME NEW i \in Agent!Agents
        PROVE  Owned(i)
    BY <1>2 DEF Underway
  <2>2. Agent!BootstrapComplete
    BY <2>1 DEF Agent!BootstrapComplete, Owned, Own
  <2>3. Agent!BootIsOwn
    BY <2>1 DEF Agent!BootIsOwn, Owned, Own, BootName
  <2>4. Agent!PromptReceived
    BY <2>1 DEF Agent!PromptReceived, Owned
  <2> QED
    BY <2>2, <2>3, <2>4 DEF IdComplete, PromptReceived, Agent!IdComplete
<1> QED
  BY <1>1, <1>2 DEF LaunchInv

\* Agents are numbered by the file, and their tables are what a user writes.
LEMMA TableFacts ==
    ASSUME LaunchTypes
    PROVE  /\ \A i \in Agent!Agents : i \in Nat /\ config[i] \in Agent!AgentConfig
           /\ None \notin Nat /\ None \notin Agent!Given
           /\ None # "boot" /\ None # "prompt" /\ None # "inline" /\ None # "name"
<1>1. config \in Seq(Agent!AgentConfig)
  BY AgentAssumption DEF Agent!LaunchAssumption, LaunchTypes
<1>2. \A i \in Agent!Agents : i \in Nat /\ config[i] \in Agent!AgentConfig
  BY <1>1 DEF Agent!Agents
<1>3. /\ None \notin Nat /\ None \notin Agent!Given
      /\ None # "boot" /\ None # "prompt" /\ None # "inline" /\ None # "name"
  BY AgentAssumption DEF Agent!LaunchAssumption
<1> QED
  BY <1>2, <1>3

\* What an agent is given: its id exactly with a boot prompt, if it reads one.
LEMMA GivenFacts ==
    ASSUME LaunchTypes, Ready, NEW i \in Agent!Agents, NEW b \in BOOLEAN,
           NEW how \in {"supervised", "pasted"}
    PROVE  LET p == Agent!Process(i, b, how)
           IN  /\ p \in Agent!Given /\ p # None
               /\ p.how = how
               /\ p.id = IF b THEN i ELSE None
               /\ b => p.id # None /\ p.prompt = file[i]
               /\ ~ b => p.stdin # "boot"
               /\ Agent!Vendor(i) => ((p.id # None) <=> (p.stdin = "boot"))
<1> DEFINE a == Agent!SpawnConfig(agents[i], b)
           launch == Agent!Launch(a)
           p == Agent!Process(i, b, how)
<1>1. /\ i \in Nat /\ None \notin Nat /\ None \notin Agent!Given
      /\ None # "boot" /\ file[i] \in Nat
  BY TableFacts DEF LaunchTypes
<1>2. /\ agents[i].prompt_file \in {"prompt", None} /\ agents[i].interactive \in BOOLEAN
  BY DEF Ready
<1>3. /\ a.adapter = agents[i].adapter /\ a.interactive = agents[i].interactive
      /\ a.prompt_file = IF b THEN "boot" ELSE agents[i].prompt_file
  BY DEF Agent!SpawnConfig
<1>4. /\ launch.headless \in BOOLEAN
      /\ launch.stdin = IF Agent!Vendor(i) THEN IF b THEN "boot" ELSE agents[i].prompt_file
                        ELSE None
  <2> HIDE DEF a
  <2> QED
    BY <1>2, <1>3 DEF Agent!Launch, Agent!Vendor
<1> HIDE DEF launch
<1>5. p = [how |-> how, headless |-> launch.headless, stdin |-> launch.stdin,
           id |-> IF b THEN i ELSE None, prompt |-> IF b THEN file[i] ELSE None]
  BY DEF Agent!Process, Agent!PromptText, launch
<1>6. p \in Agent!Given
  BY <1>1, <1>2, <1>4, <1>5 DEF Agent!Given
<1>7. /\ p.how = how /\ p.stdin = launch.stdin
      /\ p.id = IF b THEN i ELSE None
      /\ p.prompt = IF b THEN file[i] ELSE None
  BY <1>5
<1> QED
  BY <1>1, <1>2, <1>4, <1>6, <1>7

\* A launch touches the record and the boot prompt of its own agent only.
LEMMA LaunchTouches ==
    ASSUME LaunchTypes, Ready, NEW i \in Agent!Agents, NEW version
    PROVE  /\ DOMAIN Agent!RecordOf(i, version) = Agent!Agents
           /\ Agent!RecordOf(i, version)[i] = version
           /\ \A j \in Agent!Agents \ {i} : Agent!RecordOf(i, version)[j] = registered[j]
           /\ BootName(i) \in DOMAIN Agent!WithBoot(i)
           /\ Agent!WithBoot(i)[BootName(i)] = i
           /\ \A j \in Agent!Agents \ {i} : BootName(j) \in DOMAIN boot =>
                /\ BootName(j) \in DOMAIN Agent!WithBoot(i)
                /\ Agent!WithBoot(i)[BootName(j)] = boot[BootName(j)]
<1>1. \A j \in Agent!Agents \ {i} :
        agents[j].name # agents[i].name /\ BootName(j) # BootName(i)
  BY DEF Ready
<1>2. Agent!WithBoot(i) = [g \in DOMAIN boot \cup {BootName(i)} |->
                            IF g = BootName(i) THEN i ELSE boot[g]]
  BY DEF Agent!WithBoot, BootName
<1> QED
  BY <1>1, <1>2 DEF Agent!RecordOf

\* A prompt file that is named is all that a script's command may ask for.
LEMMA PromptFileSuffices ==
    ASSUME Ready, NEW i \in Agent!Agents, agents[i].prompt_file # None
    PROVE  Agent!Launch(agents[i]).error = None
<1>1. agents[i].prompt # None
  BY DEF Ready
<1> QED
  BY <1>1 DEF Agent!Launch

\* Names that are safe are the names of their boot prompts.
LEMMA SafeNamesKept ==
    ASSUME NEW n, Agent!IsSafeName(n)
    PROVE  Agent!SanitizeName(n) = n
BY AgentAssumption DEF Agent!IsSafeName, Agent!SanitizeName, Agent!LaunchAssumption

\* Agents are resolved all or none.
LEMMA ResolveLaunch ==
    ASSUME DistinctNames, LaunchInv, Agent!Resolve
    PROVE  LaunchInv'
<1>1. Untouched
  BY DEF LaunchInv, Underway, Agent!Resolve
<1>2. LaunchTypes'
  BY DEF LaunchInv, LaunchTypes, Agent!Resolve, Agent!Agents
<1>3. LaunchTypes /\ Agent!Agents' = Agent!Agents
  BY DEF LaunchInv, Agent!Resolve, Agent!Agents
<1>4. \A i \in Agent!Agents : process'[i] = None /\ printed'[i] = None /\ got'[i] = None
  BY <1>1 DEF Untouched, Agent!Resolve
<1>5. CASE \E i \in Agent!Agents : Agent!ErrorOf(i) # None
  <2>1. phase' = "failed"
    BY <1>5 DEF Agent!Resolve
  <2> QED
    BY <1>2, <1>3, <1>4, <2>1 DEF LaunchInv, Untouched
<1>6. CASE ~ \E i \in Agent!Agents : Agent!ErrorOf(i) # None
  <2>1. /\ phase' = "launching"
        /\ agents' = [i \in Agent!Agents |-> Agent!Resolved(config[i], file[i])]
    BY <1>6 DEF Agent!Resolve
  <2>2. ASSUME NEW i \in Agent!Agents
        PROVE  /\ agents'[i].prompt_file \in {"prompt", None}
               /\ agents'[i].prompt_file # None => agents'[i].prompt # None
               /\ agents'[i].interactive \in BOOLEAN
               /\ agents'[i].name = config[i].name
               /\ Agent!SanitizeName(agents'[i].name) = config[i].name
    <3> DEFINE a == config[i]
               r == Agent!Resolved(a, file[i])
    <3>1. /\ a.interactive \in BOOLEAN /\ a.launch \in BOOLEAN
          /\ file[i] \in Nat /\ None \notin Nat
          /\ None # "prompt" /\ None # "inline" /\ None # "name"
      BY <1>3, TableFacts DEF Agent!AgentConfig, LaunchTypes
    <3>2. Agent!IsSafeName(a.name)
      BY <1>6, <3>1 DEF Agent!ErrorOf, Agent!ConfigError
    <3>3. Agent!SanitizeName(a.name) = a.name
      BY <3>2, SafeNamesKept
    <3>4. agents'[i] = r
      BY <2>1
    <3>5. /\ r.name = a.name /\ r.interactive = (a.interactive /\ ~ a.launch)
          /\ r.prompt_file = IF a.prompt_file THEN "prompt" ELSE None
          /\ r.prompt = IF a.prompt THEN "inline" ELSE IF a.prompt_file THEN file[i] ELSE None
      BY DEF Agent!Resolved, Agent!Interactive
    <3> HIDE DEF r
    <3> QED
      BY <3>1, <3>3, <3>4, <3>5
  <2>3. \A i, j \in Agent!Agents : config[i].name = config[j].name => i = j
    BY <1>3 DEF DistinctNames, LaunchTypes, Agent!Agents
  <2>4. Ready'
    BY <1>3, <2>1, <2>2, <2>3 DEF Ready, BootName
  <2>5. \A i \in Agent!Agents : Owned(i)' /\ Ahead(i)'
    BY <1>4, <2>1 DEF Owned, Ahead
  <2> QED
    BY <1>2, <1>3, <2>1, <2>4, <2>5 DEF LaunchInv, Underway
<1> QED
  BY <1>5, <1>6

\* A step that touches the record and the boot prompt of agent i only.
Touches(i) ==
    /\ DOMAIN registered' = Agent!Agents
    /\ \A j \in Agent!Agents \ {i} : registered'[j] = registered[j]
    /\ boot' = boot \/ boot' = Agent!WithBoot(i)
    /\ config' = config /\ agents' = agents

\* However the record of an agent is made, renewed or removed, the records of
\* the others stay.
LEMMA RecordTouches ==
    ASSUME LaunchTypes, Ready, NEW i \in Agent!Agents, NEW version, NEW records,
           \/ records = registered
           \/ records = Agent!Removed(registered, i)
           \/ records = Agent!RecordOf(i, version)
           \/ records = Agent!Removed(Agent!RecordOf(i, version), i)
           \/ records = Agent!Renewed(i, version)
           \/ records = Agent!Removed(Agent!Renewed(i, version), i)
    PROVE  /\ DOMAIN records = Agent!Agents
           /\ \A j \in Agent!Agents \ {i} : records[j] = registered[j]
<1>1. /\ DOMAIN Agent!Renewed(i, version) = Agent!Agents
      /\ \A j \in Agent!Agents \ {i} : Agent!Renewed(i, version)[j] = registered[j]
  BY LaunchTouches DEF Agent!Renewed, LaunchTypes
<1>2. ASSUME NEW f, DOMAIN f = Agent!Agents
      PROVE  /\ DOMAIN Agent!Removed(f, i) = Agent!Agents
             /\ \A j \in Agent!Agents \ {i} : Agent!Removed(f, i)[j] = f[j]
  BY <1>2 DEF Agent!Removed
<1>3. /\ DOMAIN registered = Agent!Agents
      /\ DOMAIN Agent!RecordOf(i, version) = Agent!Agents
      /\ \A j \in Agent!Agents \ {i} : Agent!RecordOf(i, version)[j] = registered[j]
  BY LaunchTouches DEF LaunchTypes
<1> QED
  BY <1>1, <1>2, <1>3

\* The record itself, renewed or removed.
LEMMA RenewedFacts ==
    ASSUME LaunchTypes, Ready, NEW i \in Agent!Agents, NEW version
    PROVE  /\ Agent!Renewed(i, version)[i] = version
           /\ Agent!Removed(Agent!Renewed(i, version), i)[i] = None
           /\ Agent!Removed(Agent!RecordOf(i, version), i)[i] = None
           /\ Agent!Removed(registered, i)[i] = None
<1>1. Agent!Renewed(i, version)[i] = version
  BY LaunchTouches DEF Agent!Renewed, LaunchTypes
<1>2. /\ DOMAIN Agent!Renewed(i, version) = Agent!Agents /\ DOMAIN registered = Agent!Agents
      /\ DOMAIN Agent!RecordOf(i, version) = Agent!Agents
  BY RecordTouches, LaunchTouches DEF LaunchTypes
<1> QED
  BY <1>1, <1>2 DEF Agent!Removed

\* What another agent was given and has got is still its own.
LEMMA OthersKept ==
    ASSUME LaunchTypes, Ready, NEW i \in Agent!Agents, NEW j \in Agent!Agents \ {i},
           Owned(j), Touches(i), process'[j] = process[j], printed'[j] = printed[j],
           got'[j] = got[j]
    PROVE  Owned(j)'
<1>1. registered'[j] = registered[j]
  BY DEF Touches
<1>2. BootName(j) \in DOMAIN boot =>
        BootName(j) \in DOMAIN boot' /\ boot'[BootName(j)] = boot[BootName(j)]
  BY LaunchTouches DEF Touches
<1>3. BootName(j)' = BootName(j) /\ Agent!Vendor(j)' = Agent!Vendor(j) /\ agents' = agents
  BY DEF BootName, Agent!Vendor, Touches
<1>4. ASSUME NEW p, Own(j, p)
      PROVE  Own(j, p)'
  BY <1>1, <1>2, <1>3, <1>4 DEF Own
<1> QED
  BY <1>1, <1>3, <1>4 DEF Owned

\* What agent i itself was given stays its own if its record and boot prompt do.
LEMMA OwnKept ==
    ASSUME NEW i \in Agent!Agents, NEW p, Own(i, p), agents' = agents,
           p.id # None => registered'[i] \in {registered[i], None, 0, p.prompt},
           boot' = boot \/ boot' = Agent!WithBoot(i), LaunchTypes, Ready
    PROVE  Own(i, p)'
<1>1. BootName(i)' = BootName(i) /\ (Agent!Vendor(i)' <=> Agent!Vendor(i))
  BY DEF BootName, Agent!Vendor
<1>2. BootName(i) \in DOMAIN boot /\ boot[BootName(i)] = i =>
        BootName(i) \in DOMAIN boot' /\ boot'[BootName(i)] = i
  BY LaunchTouches
<1> QED
  BY <1>1, <1>2 DEF Own

\* What a process is given at its start is its own.
LEMMA GivenIsOwn ==
    ASSUME LaunchTypes, Ready, NEW i \in Agent!Agents, NEW b \in BOOLEAN,
           NEW how \in {"supervised", "pasted"}, agents' = agents,
           b => registered' = Agent!RecordOf(i, file[i]) /\ boot' = Agent!WithBoot(i),
           NEW p, p = Agent!Process(i, b, how)
    PROVE  Own(i, p)'
<1>1. BootName(i)' = BootName(i) /\ (Agent!Vendor(i)' <=> Agent!Vendor(i))
  BY DEF BootName, Agent!Vendor
<1>2. b => /\ registered'[i] = file[i]
           /\ BootName(i) \in DOMAIN boot' /\ boot'[BootName(i)] = i
  BY LaunchTouches
<1>3. /\ p \in Agent!Given
      /\ p.id = IF b THEN i ELSE None
      /\ b => p.prompt = file[i]
      /\ ~ b => p.stdin # "boot"
      /\ Agent!Vendor(i) => ((p.id # None) <=> (p.stdin = "boot"))
  BY GivenFacts
<1> QED
  BY <1>1, <1>2, <1>3 DEF Own

\* An agent that is launched by serve or by a request.
LEMMA BuiltOwned ==
    ASSUME LaunchTypes, Ready, NEW i \in Agent!Agents, Owned(i), process[i] = None,
           Agent!Built(i), agents' = agents, printed' = printed, got' = got
    PROVE  Owned(i)'
<1> DEFINE b == Agent!PreRegisters(agents[i])
<1> PICK p : p = Agent!Process(i, b, "supervised")
  OBVIOUS
<1>1. process'[i] = p
  BY DEF Agent!Built, LaunchTypes
<1>2. b \in BOOLEAN /\ (b => agents[i].launch)
  BY DEF Agent!PreRegisters
<1>3. /\ b => registered' = Agent!RecordOf(i, file[i]) /\ boot' = Agent!WithBoot(i)
      /\ ~ b => registered' = registered /\ boot' = boot
  BY DEF Agent!Built, Agent!PromptText
<1>4. p # None /\ p.id = (IF b THEN i ELSE None) /\ (b => p.id = i /\ p.id # None)
  BY <1>2, GivenFacts
<1> HIDE DEF b
<1>5. Own(i, p)'
  BY <1>2, <1>3, GivenIsOwn DEF b
<1>6. printed[i] # None =>
        ~ b /\ Own(i, printed[i]) /\ printed[i].how = "pasted" /\ ~ agents[i].launch
  BY <1>2 DEF Owned
<1>7. ASSUME NEW q, Own(i, q), ~ b
      PROVE  Own(i, q)'
  BY <1>3, <1>7, OwnKept
<1>8. printed'[i] # None =>
        Own(i, printed[i])' /\ printed'[i].how = "pasted" /\ ~ agents'[i].launch
  BY <1>6, <1>7
<1>9. got'[i] = None
  BY DEF Owned
<1> QED
  BY <1>1, <1>2, <1>4, <1>5, <1>8, <1>9 DEF Owned

\* A launch that fails, at whichever point.
LEMMA UnbuiltOwned ==
    ASSUME LaunchTypes, Ready, NEW i \in Agent!Agents, Owned(i), process[i] = None,
           Agent!BuildFails(i), agents' = agents, printed' = printed, got' = got
    PROVE  Owned(i)'
<1>1. /\ process' = process /\ process'[i] = None /\ got'[i] = None
      /\ Agent!PreRegisters(agents[i]) => agents[i].launch
  BY DEF Agent!BuildFails, Agent!PreRegisters, Owned
<1>2. CASE registered' = registered /\ boot' = boot
  <2>1. ASSUME NEW q, Own(i, q) PROVE Own(i, q)'
    BY <1>2, <2>1, OwnKept
  <2> QED
    BY <1>1, <1>2, <2>1 DEF Owned
<1>3. CASE /\ agents[i].launch /\ boot' = Agent!WithBoot(i)
           /\ registered' = Agent!Removed(Agent!RecordOf(i, Agent!PromptText(i)), i)
  <2>1. printed'[i] = None
    BY <1>3 DEF Owned
  <2> QED
    BY <1>1, <2>1 DEF Owned
<1> QED
  BY <1>1, <1>2, <1>3 DEF Agent!BuildFails

\* The command that the banner prints for an agent that is not launched.
LEMMA PrintedOwned ==
    ASSUME LaunchTypes, Ready, NEW i \in Agent!Agents, Owned(i),
           process[i] # None => process[i].how = "supervised",
           printed[i] = None, ~ agents[i].launch, NEW b \in BOOLEAN, Agent!PrintCommand(i, b),
           IF b THEN /\ agents[i].prompt_file # None
                     /\ registered' = Agent!RecordOf(i, Agent!PromptText(i))
                     /\ boot' = Agent!WithBoot(i)
                ELSE registered' = registered /\ boot' = boot,
           agents' = agents, process' = process, got' = got
    PROVE  Owned(i)'
<1> PICK p : p = Agent!Process(i, b, "pasted")
  OBVIOUS
<1>1. printed'[i] = IF Agent!Launch(agents[i]).error # None THEN None ELSE p
  BY DEF Agent!PrintCommand, LaunchTypes
<1>2. b => printed'[i] = p
  BY <1>1, PromptFileSuffices
<1>3. p.id = (IF b THEN i ELSE None) /\ p.how = "pasted"
  BY GivenFacts
<1>4. Own(i, p)'
  BY GivenIsOwn DEF Agent!PromptText
<1>5. printed'[i] # None =>
        Own(i, printed[i])' /\ printed'[i].how = "pasted" /\ ~ agents'[i].launch
  BY <1>1, <1>3, <1>4
<1>6. (process[i] # None => process[i].id = None) /\ got'[i] = None
  BY DEF Owned
<1>7. process[i] # None => Own(i, process[i])'
  BY <1>6, OwnKept DEF Owned
<1> QED
  BY <1>5, <1>6, <1>7 DEF Owned

\* A step that is about agent i and no other.
LEMMA OneAgent ==
    ASSUME LaunchInv, Underway, NEW i \in Agent!Agents, Touches(i), Owned(i)',
           file' = file, cursor' \in Nat,
           DOMAIN process' = Agent!Agents, DOMAIN printed' = Agent!Agents,
           DOMAIN got' = Agent!Agents,
           \A j \in Agent!Agents \ {i} :
                process'[j] = process[j] /\ printed'[j] = printed[j] /\ got'[j] = got[j],
           phase' \in {"launching", "banner", "serving", "failed"},
           \A j \in Agent!Agents : Ahead(j)'
    PROVE  LaunchInv'
<1>1. LaunchTypes /\ Ready /\ \A j \in Agent!Agents : Owned(j)
  BY DEF LaunchInv, Underway
<1>2. agents' = agents /\ config' = config /\ Agent!Agents' = Agent!Agents
  BY DEF Touches, Agent!Agents
<1>3. DOMAIN registered' = Agent!Agents
  BY DEF Touches
<1>4. LaunchTypes'
  BY <1>1, <1>2, <1>3 DEF LaunchTypes
<1>5. Ready'
  BY <1>1, <1>2 DEF Ready, BootName
<1>6. \A j \in Agent!Agents \ {i} : Owned(j)'
  BY <1>1, OthersKept
<1> QED
  BY <1>2, <1>4, <1>5, <1>6 DEF LaunchInv, Underway

\* A step that is about no agent.
LEMMA NoAgent ==
    ASSUME LaunchInv, Underway, UNCHANGED <<config, agents, registered, boot, process, got, printed>>,
           file' \in [Agent!Agents -> Nat], cursor' \in Nat,
           phase' \in {"launching", "banner", "serving", "failed"},
           \A j \in Agent!Agents : Ahead(j)'
    PROVE  LaunchInv'
<1>1. Agent!Agents' = Agent!Agents
  BY DEF Agent!Agents
<1>2. LaunchTypes' /\ Ready'
  BY <1>1 DEF LaunchInv, Underway, LaunchTypes, Ready, BootName
<1>3. \A j \in Agent!Agents : Owned(j)'
  <2>1. ASSUME NEW j \in Agent!Agents, NEW q
        PROVE  Own(j, q)' <=> Own(j, q)
    BY DEF Own, BootName, Agent!Vendor
  <2> QED
    BY <2>1 DEF Underway, Owned
<1> QED
  BY <1>1, <1>2, <1>3 DEF LaunchInv, Underway

\* launch_all comes to the next agent.
LEMMA LaunchStep ==
    ASSUME LaunchInv, Underway, Agent!LaunchNext
    PROVE  LaunchInv'
<1> PICK i : i = cursor
  OBVIOUS
<1>1. /\ i \in Agent!Agents /\ i \in Nat /\ phase = "launching"
      /\ config' = config /\ agents' = agents /\ file' = file /\ printed' = printed /\ got' = got
      /\ LaunchTypes /\ Ready /\ Owned(i) /\ process[i] = None
      /\ \A j \in Agent!Agents : Ahead(j) /\ j \in Nat
  BY TableFacts DEF Agent!LaunchNext, LaunchInv, Underway, Ahead
<1>2. CASE /\ ~ agents[i].launch /\ cursor' = cursor + 1
           /\ UNCHANGED <<registered, boot, process, phase, rejected>>
  <2>1. \A j \in Agent!Agents : Ahead(j)'
    BY <1>1, <1>2 DEF Ahead
  <2> QED
    BY <1>1, <1>2, <2>1, NoAgent DEF LaunchTypes
<1>3. CASE agents[i].launch /\ Agent!Built(i) /\ cursor' = cursor + 1 /\ phase' = phase
  <2>1. /\ DOMAIN process' = Agent!Agents
        /\ \A j \in Agent!Agents \ {i} : process'[j] = process[j]
    BY <1>1, <1>3 DEF Agent!Built, LaunchTypes
  <2>2. Touches(i)
    BY <1>1, <1>3, RecordTouches DEF Agent!Built, Touches
  <2>3. Owned(i)'
    BY <1>1, <1>3, BuiltOwned
  <2>4. \A j \in Agent!Agents : Ahead(j)'
    <3>1. process'[i].how = "supervised"
      BY <1>1, <1>3, GivenFacts DEF Agent!Built, Agent!PreRegisters, LaunchTypes
    <3> QED
      BY <1>1, <1>3, <2>1, <3>1 DEF Ahead
  <2>5. cursor' \in Nat /\ DOMAIN printed' = Agent!Agents /\ DOMAIN got' = Agent!Agents
    BY <1>1, <1>3 DEF LaunchTypes
  <2> QED
    BY <1>1, <1>3, <2>1, <2>2, <2>3, <2>4, <2>5, OneAgent
<1>4. CASE agents[i].launch /\ Agent!BuildFails(i) /\ cursor' = cursor /\ phase' = "failed"
  <2>1. process' = process
    BY <1>4 DEF Agent!BuildFails
  <2>2. Touches(i)
    BY <1>1, <1>4, RecordTouches DEF Agent!BuildFails, Touches
  <2>3. Owned(i)'
    BY <1>1, <1>4, UnbuiltOwned
  <2>4. \A j \in Agent!Agents : Ahead(j)'
    BY <1>4 DEF Ahead
  <2> QED
    BY <1>1, <1>4, <2>1, <2>2, <2>3, <2>4, OneAgent DEF LaunchTypes
<1> QED
  BY <1>2, <1>3, <1>4 DEF Agent!LaunchNext

\* The banner comes to the next agent.
LEMMA PrintStep ==
    ASSUME LaunchInv, Underway, Agent!PrintNext
    PROVE  LaunchInv'
<1> PICK i : i = cursor
  OBVIOUS
<1>1. /\ i \in Agent!Agents /\ i \in Nat /\ phase = "banner" /\ phase' = phase
      /\ config' = config /\ agents' = agents /\ file' = file /\ process' = process
      /\ got' = got /\ cursor' = i + 1
      /\ LaunchTypes /\ Ready /\ Owned(i) /\ printed[i] = None
      /\ process[i] # None => process[i].how = "supervised"
      /\ \A j \in Agent!Agents : Ahead(j) /\ j \in Nat
  BY TableFacts DEF Agent!PrintNext, LaunchInv, Underway, Ahead
<1>2. CASE UNCHANGED <<registered, boot, printed>>
  <2>1. \A j \in Agent!Agents : Ahead(j)'
    BY <1>1, <1>2 DEF Ahead
  <2> QED
    BY <1>1, <1>2, <2>1, NoAgent DEF LaunchTypes
<1>3. ASSUME NEW b \in BOOLEAN, ~ agents[i].launch, Agent!PrintCommand(i, b),
             IF b THEN /\ agents[i].prompt_file # None
                       /\ registered' = Agent!RecordOf(i, Agent!PromptText(i))
                       /\ boot' = Agent!WithBoot(i)
                  ELSE registered' = registered /\ boot' = boot
      PROVE  LaunchInv'
  <2>1. /\ DOMAIN printed' = Agent!Agents
        /\ \A j \in Agent!Agents \ {i} : printed'[j] = printed[j]
    BY <1>1, <1>3 DEF Agent!PrintCommand, LaunchTypes
  <2>2. Touches(i)
    BY <1>1, <1>3, RecordTouches DEF Touches
  <2>3. Owned(i)'
    BY <1>1, <1>3, PrintedOwned
  <2>4. \A j \in Agent!Agents : Ahead(j)'
    BY <1>1, <2>1 DEF Ahead
  <2>5. DOMAIN process' = Agent!Agents /\ DOMAIN got' = Agent!Agents
    BY <1>1 DEF LaunchTypes
  <2> QED
    BY <1>1, <2>1, <2>2, <2>3, <2>4, <2>5, OneAgent
<1> QED
  BY <1>2, <1>3 DEF Agent!PrintNext

\* What is left of agent i after its process has ended is its own.
LEMMA GoneOwned ==
    ASSUME LaunchTypes, Ready, NEW i \in Agent!Agents, Owned(i), Agent!Gone(i),
           agents' = agents, boot' = boot, printed' = printed,
           printed[i] # None => registered'[i] \in {registered[i], None}
    PROVE  Owned(i)'
<1>1. process'[i] = None /\ got'[i] = None
  BY DEF Agent!Gone, LaunchTypes
<1>2. printed[i] # None => Own(i, printed[i])'
  BY OwnKept DEF Owned
<1> QED
  BY <1>1, <1>2 DEF Owned

\* Agent i keeps its process: its record may go, or be renewed for it.
LEMMA StillOwned ==
    ASSUME LaunchTypes, Ready, NEW i \in Agent!Agents, Owned(i),
           agents' = agents, boot' = boot, printed' = printed, process' = process,
           \/ registered'[i] \in {registered[i], None}
           \/ registered'[i] = 0 /\ process[i] # None /\ process[i].id # None
           \/ registered'[i] = process[i].prompt /\ process[i] # None /\ process[i].id # None /\ agents[i].launch,
           got'[i] # None =>
                process[i] # None /\ process[i].id # None /\ got'[i] \in {0, process[i].prompt}
    PROVE  Owned(i)'
<1>1. process[i] # None => Own(i, process[i])'
  BY OwnKept DEF Owned
<1>2. printed[i] # None => ~ agents[i].launch /\ Own(i, printed[i])
  BY DEF Owned
<1>3. printed[i] # None => Own(i, printed[i])'
  BY <1>2, OwnKept
<1> QED
  BY <1>1, <1>2, <1>3 DEF Owned

\* Requests, supervisors, agents and users, when the agents are resolved.
LEMMA RequestStep ==
    ASSUME LaunchInv, Underway, NEW i \in Agent!Agents,
           \/ Agent!StartAgent(i) \/ Agent!Respawn(i) \/ Agent!RespawnFails(i) \/ Agent!GiveUp(i)
           \/ Agent!StopAgent(i) \/ Agent!Expire(i) \/ Agent!Claim(i) \/ Agent!Paste(i)
           \/ Agent!Quit(i)
    PROVE  LaunchInv'
<1>1. /\ phase \in {"launching", "banner", "serving", "failed"} /\ phase' = phase
      /\ cursor' = cursor /\ file' = file
      /\ config' = config /\ agents' = agents /\ printed' = printed
  BY DEF Underway, Agent!StartAgent, Agent!Respawn, Agent!RespawnFails, Agent!GiveUp,
       Agent!StopAgent, Agent!Expire, Agent!Claim, Agent!Paste, Agent!Quit
<1>2. LaunchTypes /\ Ready /\ Owned(i) /\ i \in Nat /\ None \notin Nat
  BY TableFacts DEF LaunchInv, Underway
<1>3. ASSUME Touches(i), Owned(i)', DOMAIN process' = Agent!Agents, DOMAIN got' = Agent!Agents,
             \A j \in Agent!Agents \ {i} : process'[j] = process[j] /\ got'[j] = got[j],
             \/ process'[i] \in {process[i], None}
             \/ phase = "serving"
             \/ phase = "banner" /\ process'[i].how = "supervised"
      PROVE  LaunchInv'
  <2>1. \A j \in Agent!Agents : Ahead(j)'
    BY <1>1, <1>3 DEF Underway, Ahead
  <2>2. DOMAIN printed' = Agent!Agents /\ cursor' \in Nat
    BY <1>1, <1>2 DEF LaunchTypes
  <2> QED
    BY <1>1, <1>2, <1>3, <2>1, <2>2, OneAgent
<1>4. Agent!Gone(i) => /\ DOMAIN process' = Agent!Agents /\ DOMAIN got' = Agent!Agents
                       /\ process'[i] = None
                       /\ \A j \in Agent!Agents \ {i} : process'[j] = process[j] /\ got'[j] = got[j]
  BY <1>2 DEF Agent!Gone, LaunchTypes
<1>5. CASE Agent!StartAgent(i)
  <2>1. /\ process[i] = None /\ (Agent!Built(i) \/ Agent!BuildFails(i)) /\ got' = got
        /\ phase \in {"banner", "serving"}
    BY <1>5 DEF Agent!StartAgent, Agent!Answering
  <2>2. Touches(i)
    BY <1>1, <1>2, <2>1, RecordTouches DEF Agent!Built, Agent!BuildFails, Touches
  <2>3. Owned(i)'
    BY <1>1, <1>2, <2>1, BuiltOwned, UnbuiltOwned
  <2>4. /\ DOMAIN process' = Agent!Agents
        /\ \A j \in Agent!Agents \ {i} : process'[j] = process[j]
    BY <1>2, <2>1 DEF Agent!Built, Agent!BuildFails, LaunchTypes
  <2>5. process'[i] = process[i] \/ process'[i].how = "supervised"
    <3>1. ASSUME Agent!Built(i)
          PROVE  process'[i].how = "supervised"
      BY <1>2, <3>1, GivenFacts DEF Agent!Built, Agent!PreRegisters, LaunchTypes
    <3> QED
      BY <2>1, <3>1 DEF Agent!BuildFails
  <2>6. DOMAIN got' = Agent!Agents
    BY <1>2, <2>1 DEF LaunchTypes
  <2> QED
    BY <1>3, <2>1, <2>2, <2>3, <2>4, <2>5, <2>6
<1>6. CASE Agent!Respawn(i)
  <2>1. /\ process[i] # None /\ process[i].how = "supervised" /\ process' = process /\ boot' = boot
        /\ registered' = IF process[i].id = None THEN registered
                         ELSE Agent!Renewed(i, process[i].prompt)
        /\ got' = [got EXCEPT ![i] = None]
    BY <1>6 DEF Agent!Respawn, Agent!Supervised
  <2>2. Touches(i)
    BY <1>1, <1>2, <2>1, RecordTouches DEF Touches
  <2>3. process[i].id # None => registered'[i] = process[i].prompt /\ agents[i].launch
    BY <1>2, <2>1, RenewedFacts DEF Owned
  <2>4. /\ got'[i] = None /\ DOMAIN process' = Agent!Agents /\ DOMAIN got' = Agent!Agents
        /\ \A j \in Agent!Agents \ {i} : process'[j] = process[j] /\ got'[j] = got[j]
    BY <1>2, <2>1 DEF LaunchTypes
  <2>5. Owned(i)'
    BY <1>1, <1>2, <2>1, <2>3, <2>4, StillOwned
  <2> QED
    BY <1>3, <2>1, <2>2, <2>4, <2>5
<1>7. CASE Agent!RespawnFails(i)
  <2>1. /\ process[i] # None /\ process[i].how = "supervised" /\ boot' = boot /\ Agent!Gone(i)
        /\ registered' = IF process[i].id = None THEN registered
                         ELSE Agent!Removed(Agent!Renewed(i, process[i].prompt), i)
    BY <1>7 DEF Agent!RespawnFails, Agent!Supervised
  <2>2. Touches(i)
    BY <1>1, <1>2, <2>1, RecordTouches DEF Touches
  <2>3. registered'[i] \in {registered[i], None}
    BY <1>2, <2>1, RenewedFacts
  <2>4. Owned(i)'
    BY <1>1, <1>2, <2>1, <2>3, GoneOwned
  <2> QED
    BY <1>3, <1>4, <2>1, <2>2, <2>4
<1>8. CASE Agent!GiveUp(i) \/ Agent!StopAgent(i) \/ Agent!Quit(i)
  <2>1. Agent!Gone(i) /\ boot' = boot /\ registered' = registered
    BY <1>8 DEF Agent!GiveUp, Agent!StopAgent, Agent!Quit
  <2>2. Touches(i)
    BY <1>1, <1>2, <2>1, RecordTouches DEF Touches
  <2>3. Owned(i)'
    BY <1>1, <1>2, <2>1, GoneOwned
  <2> QED
    BY <1>3, <1>4, <2>1, <2>2, <2>3
<1>9. CASE Agent!Expire(i)
  <2>1. /\ registered' = Agent!Removed(registered, i) /\ boot' = boot
        /\ process' = process /\ got' = got
    BY <1>9 DEF Agent!Expire
  <2>2. Touches(i)
    BY <1>1, <1>2, <2>1, RecordTouches DEF Touches
  <2>3. registered'[i] = None
    BY <1>2, <2>1, RenewedFacts
  <2>4. Owned(i)'
    BY <1>1, <1>2, <2>1, <2>3, StillOwned DEF Owned
  <2> QED
    BY <1>2, <1>3, <2>1, <2>2, <2>4 DEF LaunchTypes
<1>10. CASE Agent!Claim(i)
  <2>1. /\ process[i] # None /\ process[i].id # None /\ boot' = boot /\ process' = process
        /\ got' = [got EXCEPT ![i] = IF registered[i] = None THEN 0 ELSE registered[i]]
        /\ registered' = [registered EXCEPT ![i] = IF @ = None THEN 0 ELSE @]
    BY <1>10 DEF Agent!Claim
  <2>2. /\ DOMAIN registered' = Agent!Agents
        /\ \A j \in Agent!Agents \ {i} : registered'[j] = registered[j]
        /\ registered'[i] \in {registered[i], 0}
    BY <1>2, <2>1 DEF LaunchTypes
  <2>3. Touches(i)
    BY <1>1, <2>1, <2>2 DEF Touches
  <2>4. /\ DOMAIN process' = Agent!Agents /\ DOMAIN got' = Agent!Agents
        /\ \A j \in Agent!Agents \ {i} : process'[j] = process[j] /\ got'[j] = got[j]
        /\ got'[i] = IF registered[i] = None THEN 0 ELSE registered[i]
    BY <1>2, <2>1 DEF LaunchTypes
  <2>5. got'[i] \in {0, process[i].prompt}
    BY <1>2, <2>1, <2>4 DEF Owned, Own
  <2>6. Owned(i)'
    BY <1>1, <1>2, <2>1, <2>2, <2>5, StillOwned
  <2> QED
    BY <1>3, <2>1, <2>3, <2>4, <2>6
<1>11. CASE Agent!Paste(i)
  <2>1. /\ process[i] = None /\ printed[i] # None /\ phase = "serving"
        /\ process' = [process EXCEPT ![i] = printed[i]]
        /\ registered' = registered /\ boot' = boot /\ got' = got
    BY <1>11 DEF Agent!Paste, Agent!Serving
  <2>2. Touches(i)
    BY <1>1, <1>2, <2>1, RecordTouches DEF Touches
  <2>3. /\ process'[i] = printed[i] /\ DOMAIN process' = Agent!Agents
        /\ DOMAIN got' = Agent!Agents
        /\ \A j \in Agent!Agents \ {i} : process'[j] = process[j] /\ got'[j] = got[j]
    BY <1>2, <2>1 DEF LaunchTypes
  <2>4. Own(i, printed[i])'
    BY <1>1, <1>2, <2>1, OwnKept DEF Owned
  <2>5. Owned(i)'
    BY <1>1, <1>2, <2>1, <2>3, <2>4 DEF Owned
  <2> QED
    BY <1>3, <2>1, <2>2, <2>3, <2>5
<1> QED
  BY <1>5, <1>6, <1>7, <1>8, <1>9, <1>10, <1>11

\* Every step keeps what agents are given their own.
LEMMA NextLaunch == DistinctNames /\ LaunchInv /\ [Agent!Next]_launchVars => LaunchInv'
<1> SUFFICES ASSUME DistinctNames, LaunchInv, [Agent!Next]_launchVars PROVE LaunchInv'
  OBVIOUS
<1>1. CASE Agent!Resolve
  BY <1>1, ResolveLaunch
<1>2. ASSUME UNCHANGED launchVars
      PROVE  LaunchInv'
  <2>1. Agent!Agents' = Agent!Agents
    BY <1>2 DEF launchVars, Agent!Agents
  <2>2. LaunchTypes'
    BY <1>2, <2>1 DEF launchVars, LaunchInv, LaunchTypes
  <2>3. CASE Untouched
    BY <1>2, <2>1, <2>2, <2>3 DEF launchVars, Untouched, LaunchInv
  <2>4. CASE Underway
    <3>1. phase \in {"launching", "banner", "serving", "failed"}
      BY <2>4 DEF Underway
    <3>2. \A j \in Agent!Agents : Ahead(j)'
      BY <1>2, <2>4 DEF launchVars, Underway, Ahead
    <3> QED
      BY <1>2, <2>4, <3>1, <3>2, NoAgent DEF launchVars, LaunchInv, LaunchTypes
  <2> QED
    BY <2>3, <2>4 DEF LaunchInv
<1>3. CASE Underway /\ Agent!LaunchNext
  BY <1>3, LaunchStep
<1>4. CASE Underway /\ Agent!EndLaunch
  <2>1. /\ phase = "launching" /\ phase' = "banner" /\ cursor' = 1
        /\ UNCHANGED <<config, file, agents, registered, boot, process, got, printed>>
    BY <1>4 DEF Agent!EndLaunch
  <2>2. \A j \in Agent!Agents : Ahead(j)'
    BY <1>4, <2>1 DEF Underway, Ahead
  <2> QED
    BY <1>4, <2>1, <2>2, NoAgent DEF LaunchInv, LaunchTypes
<1>5. CASE Underway /\ Agent!PrintNext
  BY <1>5, PrintStep
<1>6. CASE Underway /\ Agent!EndBanner
  <2>1. /\ phase' = "serving" /\ cursor' = cursor
        /\ UNCHANGED <<config, file, agents, registered, boot, process, got, printed>>
    BY <1>6 DEF Agent!EndBanner
  <2>2. \A j \in Agent!Agents : Ahead(j)'
    BY <2>1 DEF Ahead
  <2> QED
    BY <1>6, <2>1, <2>2, NoAgent DEF LaunchInv, LaunchTypes
<1>7. ASSUME NEW i \in Agent!Agents, Underway, Agent!EditPrompt(i)
      PROVE  LaunchInv'
  <2>1. /\ phase \in {"launching", "banner", "serving"} /\ phase' = phase /\ cursor' = cursor
        /\ UNCHANGED <<config, agents, registered, boot, process, got, printed>>
        /\ file' = [file EXCEPT ![i] = @ + 1] \/ file' = [file EXCEPT ![i] = 0]
    BY <1>7 DEF Agent!EditPrompt
  <2>2. file' \in [Agent!Agents -> Nat] /\ cursor' \in Nat
    BY <2>1 DEF LaunchInv, LaunchTypes
  <2>3. \A j \in Agent!Agents : Ahead(j)'
    BY <1>7, <2>1 DEF Underway, Ahead
  <2> QED
    BY <1>7, <2>1, <2>2, <2>3, NoAgent
<1>8. ASSUME Untouched, ~ Agent!Resolve, Agent!Next
      PROVE  UNCHANGED launchVars
  BY <1>8 DEF Untouched, Agent!Next, Agent!LaunchNext, Agent!EndLaunch, Agent!PrintNext,
       Agent!EndBanner, Agent!EditPrompt, Agent!StartAgent, Agent!Respawn, Agent!RespawnFails,
       Agent!GiveUp, Agent!StopAgent, Agent!Expire, Agent!Claim, Agent!Paste, Agent!Quit,
       Agent!Answering, Agent!Up, Agent!Supervised, Agent!Serving, Agent!Idle, Agent!vars,
       launchVars
<1>9. CASE Underway /\ Agent!Next
  <2>1. Agent!Idle => UNCHANGED launchVars
    BY DEF Agent!Idle, Agent!vars, launchVars
  <2> QED
    BY <1>1, <1>2, <1>3, <1>4, <1>5, <1>6, <1>7, <1>9, <2>1, RequestStep DEF Agent!Next
<1> QED
  BY <1>1, <1>2, <1>8, <1>9 DEF LaunchInv

\* At first no agent has anything.
LEMMA InitLaunch == Agent!Init => LaunchInv
<1> SUFFICES ASSUME Agent!Init PROVE LaunchInv
  OBVIOUS
<1>1. /\ config \in Configs /\ file \in [Agent!Agents -> {0, 1}] /\ cursor = 1
      /\ phase = "configured"
      /\ registered = [i \in Agent!Agents |-> None] /\ process = [i \in Agent!Agents |-> None]
      /\ got = [i \in Agent!Agents |-> None]
      /\ printed = [i \in Agent!Agents |-> None]
  BY DEF Agent!Init, Agent!Agents
<1>2. LaunchTypes
  BY <1>1 DEF LaunchTypes
<1>3. Untouched
  BY <1>1 DEF Untouched
<1> QED
  BY <1>2, <1>3 DEF LaunchInv

\* What agents are given stays their own.
LEMMA LaunchInvariant == DistinctNames /\ Agent!Spec => []LaunchInv
<1> SUFFICES ASSUME DistinctNames PROVE Agent!Spec => []LaunchInv
  OBVIOUS
<1>1. LaunchInv /\ [Agent!Next]_(Agent!vars) => LaunchInv'
  BY NextLaunch DEF Agent!vars, launchVars
<1> QED
  BY InitLaunch, <1>1, PTL DEF Agent!Spec

\* However an agent was started, it has an id exactly if it reads a boot prompt,
\* and the boot prompt it reads is its own, as long as no two agents have a name.
THEOREM IdCompleteHolds == DistinctNames /\ Agent!Spec => []IdComplete
BY LaunchInvariant, LaunchProperties, PTL

\* An agent that registers with the id it was given gets the prompt it was
\* started for or none, as long as no two agents have a name.
THEOREM PromptReceivedHolds == DistinctNames /\ Agent!Spec => []PromptReceived
BY LaunchInvariant, LaunchProperties, PTL

-----------------------------------------------------------------------------
(* What a client takes from an answer: ClientSession.                      *)

\* The kinds of payload in the order in which they are tried.
LEMMA PayloadOrder ==
    /\ DOMAIN Client!ResponsePayload = 1 .. 12
    /\ Client!ResponsePayload[1] = Client!Message
    /\ Client!ResponsePayload[2] = Client!HeartbeatAck
    /\ Client!ResponsePayload[3] = Client!WorkerList
    /\ Client!ResponsePayload[4] = Client!Timeout
    /\ Client!ResponsePayload[5] = Client!WorkerRegistered
    /\ Client!ResponsePayload[6] = Client!AckConfirm
    /\ Client!ResponsePayload[7] = Client!MessageAck
    /\ Client!ResponsePayload[8] = Client!StatusResult
    /\ Client!ResponsePayload[9] = Client!EventList
    /\ Client!ResponsePayload[10] = Client!MessageList
    /\ Client!ResponsePayload[11] = Client!Data
    /\ Client!ResponsePayload[12] = Client!Ack
BY DEF Client!ResponsePayload

\* The fields of each kind.
LEMMA PayloadFields ==
    /\ DOMAIN Client!Message.fields = {"message_id", "from", "to", "body"}
    /\ DOMAIN Client!HeartbeatAck.fields = {"worker_id", "expires_at"}
    /\ DOMAIN Client!WorkerList.fields = {"workers"}
    /\ DOMAIN Client!Timeout.fields = {"worker_id"} /\ Client!Timeout.strict = TRUE
    /\ DOMAIN Client!WorkerRegistered.fields = {"worker_id", "role_prompt"}
    /\ DOMAIN Client!AckConfirm.fields = {"message_id", "ack_confirmed"}
    /\ DOMAIN Client!MessageAck.fields = {"message_id"}
    /\ DOMAIN Client!StatusResult.fields = {"workers"}
    /\ DOMAIN Client!EventList.fields = {"events"}
    /\ DOMAIN Client!MessageList.fields = {"messages"}
    /\ DOMAIN Client!Data.fields = {"data"}
    /\ DOMAIN Client!Ack.fields = {}
BY DEF Client!Variant, Client!Message, Client!HeartbeatAck, Client!WorkerList, Client!Timeout,
       Client!WorkerRegistered, Client!AckConfirm, Client!MessageAck, Client!StatusResult,
       Client!EventList, Client!MessageList, Client!Data, Client!Ack

\* A field that an object of each kind must have.
LEMMA PayloadNeeds ==
    ASSUME NEW json
    PROVE  /\ Client!Fits(json, Client!Message) => "to" \in DOMAIN json
           /\ Client!Fits(json, Client!HeartbeatAck) => "expires_at" \in DOMAIN json
           /\ Client!Fits(json, Client!WorkerList) =>
                "workers" \in DOMAIN json /\ json["workers"] \in {"[]", "[worker]"}
           /\ Client!Fits(json, Client!Timeout) =>
                "worker_id" \in DOMAIN json /\ "role_prompt" \notin DOMAIN json
           /\ Client!Fits(json, Client!WorkerRegistered) => "worker_id" \in DOMAIN json
           /\ Client!Fits(json, Client!AckConfirm) => "ack_confirmed" \in DOMAIN json
           /\ Client!Fits(json, Client!MessageAck) => "message_id" \in DOMAIN json
           /\ Client!Fits(json, Client!StatusResult) => "workers" \in DOMAIN json
           /\ Client!Fits(json, Client!EventList) => "events" \in DOMAIN json
           /\ Client!Fits(json, Client!MessageList) => "messages" \in DOMAIN json
           /\ Client!Fits(json, Client!Data) => "data" \in DOMAIN json
<1>1. ASSUME NEW v, NEW f \in DOMAIN v.fields, v.fields[f] # "Option<String>", Client!Fits(json, v)
      PROVE  f \in DOMAIN json /\ json[f] \in Client!Holds(v.fields[f])
  BY <1>1 DEF Client!Fits, Client!Optional
<1>2. /\ "to" \in DOMAIN Client!Message.fields
      /\ Client!Message.fields["to"] # "Option<String>"
      /\ "expires_at" \in DOMAIN Client!HeartbeatAck.fields
      /\ Client!HeartbeatAck.fields["expires_at"] # "Option<String>"
      /\ "workers" \in DOMAIN Client!WorkerList.fields
      /\ Client!WorkerList.fields["workers"] # "Option<String>"
      /\ "worker_id" \in DOMAIN Client!Timeout.fields
      /\ Client!Timeout.fields["worker_id"] # "Option<String>"
      /\ "worker_id" \in DOMAIN Client!WorkerRegistered.fields
      /\ Client!WorkerRegistered.fields["worker_id"] # "Option<String>"
      /\ "ack_confirmed" \in DOMAIN Client!AckConfirm.fields
      /\ Client!AckConfirm.fields["ack_confirmed"] # "Option<String>"
  BY DEF Client!Variant, Client!Message, Client!HeartbeatAck, Client!WorkerList, Client!Timeout,
       Client!WorkerRegistered, Client!AckConfirm
<1>3. /\ "message_id" \in DOMAIN Client!MessageAck.fields
      /\ Client!MessageAck.fields["message_id"] # "Option<String>"
      /\ "workers" \in DOMAIN Client!StatusResult.fields
      /\ Client!StatusResult.fields["workers"] # "Option<String>"
      /\ "events" \in DOMAIN Client!EventList.fields
      /\ Client!EventList.fields["events"] # "Option<String>"
      /\ "messages" \in DOMAIN Client!MessageList.fields
      /\ Client!MessageList.fields["messages"] # "Option<String>"
      /\ "data" \in DOMAIN Client!Data.fields
      /\ Client!Data.fields["data"] # "Option<String>"
  BY DEF Client!Variant, Client!MessageAck, Client!StatusResult,
       Client!EventList, Client!MessageList, Client!Data
<1>4. Client!Fits(json, Client!WorkerList) => json["workers"] \in {"[]", "[worker]"}
  <2>1. Client!WorkerList.fields["workers"] = "Vec<Worker>"
    BY DEF Client!WorkerList, Client!Variant
  <2>2. Client!Holds("Vec<Worker>") = {"[]", "[worker]"}
    BY Zenon DEF Client!Holds
  <2> QED
    BY <1>1, <1>2, <2>1, <2>2
<1>5. Client!Fits(json, Client!Timeout) => "role_prompt" \notin DOMAIN json
  BY PayloadFields DEF Client!Fits
<1> QED
  BY <1>1, <1>2, <1>3, <1>4, <1>5

\* What is decoded is the first kind that fits; of an object with its fields,
\* nothing is lost.
LEMMA DecodesAs ==
    ASSUME NEW k \in 1 .. 12, NEW v, v = Client!ResponsePayload[k],
           NEW json, json = [f \in DOMAIN json |-> json[f]], DOMAIN json = DOMAIN v.fields,
           Client!Fits(json, v),
           \A i \in 1 .. k - 1 : ~ Client!Fits(json, Client!ResponsePayload[i])
    PROVE  Client!Decode(json) = [name |-> v.name, json |-> json]
<1> DEFINE fitting == {i \in DOMAIN Client!ResponsePayload : Client!Fits(json, Client!ResponsePayload[i])}
<1>1. k \in fitting /\ \A j \in fitting : k <= j
  BY PayloadOrder
<1>2. \A i \in fitting : (\A j \in fitting : i <= j) => i = k
  BY <1>1, PayloadOrder
<1>3. (CHOOSE i \in fitting : \A j \in fitting : i <= j) = k
  <2>1. PICK c : c = CHOOSE i \in fitting : \A j \in fitting : i <= j
    OBVIOUS
  <2>2. c \in fitting /\ \A j \in fitting : c <= j
    BY <1>1, <2>1
  <2> HIDE DEF fitting
  <2> QED
    BY <1>2, <2>1, <2>2
<1>4. Client!Decode(json) =
        [name |-> v.name,
         json |-> [f \in DOMAIN v.fields |-> IF f \in DOMAIN json THEN json[f] ELSE "null"]]
  BY <1>3, Zenon DEF Client!Decode
<1>5. [f \in DOMAIN v.fields |-> IF f \in DOMAIN json THEN json[f] ELSE "null"] = json
  OBVIOUS
<1> QED
  BY <1>4, <1>5

\* A value of a kind has its fields, and fits it.
LEMMA ValueFacts ==
    ASSUME NEW v, NEW p \in Client!ValuesOf(v)
    PROVE  /\ p = [name |-> v.name, json |-> p.json]
           /\ p.json = [f \in DOMAIN p.json |-> p.json[f]]
           /\ DOMAIN p.json = DOMAIN v.fields
           /\ \A f \in DOMAIN v.fields : p.json[f] \in Client!Holds(v.fields[f])
           /\ Client!Fits(p.json, v)
<1>1. PICK j : /\ p = [name |-> v.name, json |-> j]
               /\ j \in [DOMAIN v.fields -> UNION {Client!Holds(v.fields[f]) : f \in DOMAIN v.fields}]
               /\ \A f \in DOMAIN v.fields : j[f] \in Client!Holds(v.fields[f])
  BY Zenon DEF Client!ValuesOf
<1> QED
  BY <1>1 DEF Client!Fits

\* The kinds that handlers answer with.
Sent == {Client!Message, Client!HeartbeatAck, Client!WorkerList, Client!Timeout,
         Client!WorkerRegistered, Client!AckConfirm, Client!MessageAck, Client!StatusResult,
         Client!EventList, Client!MessageList, Client!Ack}
\* A list of no statuses, which looks like an empty team.
EmptyStatus == [name |-> "StatusResult", json |-> [workers |-> "[]"]]

\* The kind of a payload, if it is one that the handler of a request answers with.
KindOf(v, r, p) ==
    /\ p \in Client!ValuesOf(v)
    /\ v = Client!StatusResult => p.json["workers"] # "[worker]"
    /\ r = "register" => v = Client!WorkerRegistered

\* Every answer is of one of these kinds.
LEMMA AnswersAre ==
    ASSUME NEW r \in Client!Requests, NEW p \in Client!Answers(r)
    PROVE  \E v \in Sent : KindOf(v, r, p)
<1>0. Client!StatusResult.name = "StatusResult" /\ Client!WorkerList.name # "StatusResult"
  BY DEF Client!StatusResult, Client!WorkerList, Client!Variant
<1>1. /\ r = "register"  => p \in Client!ValuesOf(Client!WorkerRegistered)
      /\ r = "team"      => p \in Client!ValuesOf(Client!WorkerList)
      /\ r = "send"      => p \in Client!ValuesOf(Client!MessageAck)
      /\ r = "listen"    => p \in Client!ValuesOf(Client!Message) \cup Client!ValuesOf(Client!Timeout)
      /\ r = "events"    => p \in Client!ValuesOf(Client!EventList)
      /\ r = "messages"  => p \in Client!ValuesOf(Client!MessageList)
      /\ r = "status"    => p \in {q \in Client!ValuesOf(Client!StatusResult) : q.json.workers # "[worker]"}
      /\ r = "ack"       => p \in Client!ValuesOf(Client!AckConfirm)
      /\ r = "heartbeat" => p \in Client!ValuesOf(Client!HeartbeatAck)
      /\ r \in {"clear", "agent"} => p \in Client!ValuesOf(Client!Ack)
  BY DEF Client!Answers
<1>2. r \in {"register", "team", "send", "listen", "events", "messages", "status",
             "clear", "ack", "heartbeat", "agent"}
  BY DEF Client!Requests
<1>3. \/ r = "status"
      \/ \E v \in Sent : KindOf(v, r, p)
  <2>0. ASSUME NEW v \in {Client!Message, Client!HeartbeatAck, Client!WorkerList, Client!Timeout,
                          Client!AckConfirm, Client!MessageAck, Client!EventList,
                          Client!MessageList, Client!Ack},
               p \in Client!ValuesOf(v), r # "register"
        PROVE  \E u \in Sent : KindOf(u, r, p)
    <3>1. v.name # "StatusResult"
      BY DEF Client!Variant, Client!Message, Client!HeartbeatAck, Client!WorkerList,
           Client!Timeout, Client!AckConfirm, Client!MessageAck, Client!EventList,
           Client!MessageList, Client!Ack
    <3> QED
      BY <1>0, <2>0, <3>1 DEF KindOf, Sent
  <2>1. CASE r = "register"
    <3>1. Client!WorkerRegistered.name # "StatusResult"
      BY DEF Client!WorkerRegistered, Client!Variant
    <3> QED
      BY <1>0, <1>1, <2>1, <3>1 DEF KindOf, Sent
  <2>2. CASE r = "team"
    BY <1>1, <2>0, <2>2
  <2>3. CASE r = "send"
    BY <1>1, <2>0, <2>3
  <2>4. CASE r = "events"
    BY <1>1, <2>0, <2>4
  <2>5. CASE r = "messages"
    BY <1>1, <2>0, <2>5
  <2>6. CASE r = "ack"
    BY <1>1, <2>0, <2>6
  <2>7. CASE r = "heartbeat"
    BY <1>1, <2>0, <2>7
  <2>8. CASE r = "listen"
    BY <1>1, <2>0, <2>8
  <2>9. CASE r \in {"clear", "agent"}
    BY <1>1, <2>0, <2>9
  <2> QED
    BY <1>2, <2>1, <2>2, <2>3, <2>4, <2>5, <2>6, <2>7, <2>8, <2>9
<1> QED
  BY <1>0, <1>1, <1>3 DEF Sent, KindOf

\* The client takes each answer for what it is, but for an empty list of statuses.
LEMMA DecodedAnswer ==
    ASSUME NEW r \in Client!Requests, NEW p \in Client!Answers(r)
    PROVE  /\ Client!Decode(p.json) = p \/ p = EmptyStatus
           /\ Client!Decode(p.json).json = p.json
           /\ Client!Decode(p.json).name \in {v.name : v \in Sent}
<1>0. PICK v \in Sent : KindOf(v, r, p)
  BY AnswersAre
<1>1. p \in Client!ValuesOf(v) /\ (v = Client!StatusResult => p.json["workers"] # "[worker]")
  BY <1>0 DEF KindOf
<1> PICK json : json = p.json
  OBVIOUS
<1>2. /\ p = [name |-> v.name, json |-> json]
      /\ json = [f \in DOMAIN json |-> json[f]]
      /\ DOMAIN json = DOMAIN v.fields
      /\ \A f \in DOMAIN v.fields : json[f] \in Client!Holds(v.fields[f])
      /\ Client!Fits(json, v)
  BY <1>1, ValueFacts
<1>3. SUFFICES ASSUME p # EmptyStatus PROVE Client!Decode(json) = [name |-> v.name, json |-> json]
  <2>1. CASE p = EmptyStatus
    <3>1. json = [workers |-> "[]"] /\ DOMAIN json = {"workers"}
      BY <2>1 DEF EmptyStatus
    <3>2. /\ Client!Fits(json, Client!WorkerList)
          /\ \A i \in 1 .. 2 : ~ Client!Fits(json, Client!ResponsePayload[i])
      <4>1. Client!WorkerList.fields = [workers |-> "Vec<Worker>"] /\ Client!WorkerList.strict = FALSE
        BY DEF Client!WorkerList, Client!Variant
      <4>2. Client!Holds("Vec<Worker>") = {"[]", "[worker]"}
        BY Zenon DEF Client!Holds
      <4>3. Client!Fits(json, Client!WorkerList)
        BY <3>1, <4>1, <4>2 DEF Client!Fits
      <4>4. ~ Client!Fits(json, Client!Message) /\ ~ Client!Fits(json, Client!HeartbeatAck)
        BY <3>1, PayloadNeeds
      <4>5. \A i \in 1 .. 2 : i = 1 \/ i = 2
        OBVIOUS
      <4> QED
        BY <4>3, <4>4, <4>5, PayloadOrder
    <3>3. Client!Decode(json) = [name |-> Client!WorkerList.name, json |-> json]
      <4>1. Client!WorkerList = Client!ResponsePayload[3] /\ 3 \in 1 .. 12 /\ 3 - 1 = 2
        BY PayloadOrder
      <4>2. DOMAIN json = DOMAIN Client!WorkerList.fields
        BY <3>1, PayloadFields
      <4> QED
        BY <1>2, <3>2, <4>1, <4>2, DecodesAs
    <3>4. Client!WorkerList \in Sent
      BY DEF Sent
    <3> QED
      BY <2>1, <3>3, <3>4
  <2>2. CASE p # EmptyStatus
    BY <1>2, <1>3, <2>2
  <2> QED
    BY <2>1, <2>2
<1>4. ASSUME NEW k \in 1 .. 12, v = Client!ResponsePayload[k],
             \A i \in 1 .. k - 1 : ~ Client!Fits(json, Client!ResponsePayload[i])
      PROVE  Client!Decode(json) = [name |-> v.name, json |-> json]
  BY <1>2, <1>4, DecodesAs
<1>5. CASE v = Client!Message
  <2>1. \A i \in 1 .. 1 - 1 : ~ Client!Fits(json, Client!ResponsePayload[i])
    BY <1>2, <1>5, PayloadNeeds, PayloadFields, PayloadOrder
  <2> QED
    BY <1>4, <1>5, <2>1, PayloadOrder
<1>6. CASE v = Client!HeartbeatAck
  <2>1. \A i \in 1 .. 2 - 1 : ~ Client!Fits(json, Client!ResponsePayload[i])
    BY <1>2, <1>6, PayloadNeeds, PayloadFields, PayloadOrder
  <2> QED
    BY <1>4, <1>6, <2>1, PayloadOrder
<1>7. CASE v = Client!WorkerList
  <2>1. \A i \in 1 .. 3 - 1 : ~ Client!Fits(json, Client!ResponsePayload[i])
    BY <1>2, <1>7, PayloadNeeds, PayloadFields, PayloadOrder
  <2> QED
    BY <1>4, <1>7, <2>1, PayloadOrder
<1>8. CASE v = Client!Timeout
  <2>1. \A i \in 1 .. 4 - 1 : ~ Client!Fits(json, Client!ResponsePayload[i])
    BY <1>2, <1>8, PayloadNeeds, PayloadFields, PayloadOrder
  <2> QED
    BY <1>4, <1>8, <2>1, PayloadOrder
<1>9. CASE v = Client!WorkerRegistered
  <2>1. \A i \in 1 .. 5 - 1 : ~ Client!Fits(json, Client!ResponsePayload[i])
    BY <1>2, <1>9, PayloadNeeds, PayloadFields, PayloadOrder
  <2> QED
    BY <1>4, <1>9, <2>1, PayloadOrder
<1>10. CASE v = Client!AckConfirm
  <2>1. \A i \in 1 .. 6 - 1 : ~ Client!Fits(json, Client!ResponsePayload[i])
    BY <1>2, <1>10, PayloadNeeds, PayloadFields, PayloadOrder
  <2> QED
    BY <1>4, <1>10, <2>1, PayloadOrder
<1>11. CASE v = Client!MessageAck
  <2>1. \A i \in 1 .. 7 - 1 : ~ Client!Fits(json, Client!ResponsePayload[i])
    BY <1>2, <1>11, PayloadNeeds, PayloadFields, PayloadOrder
  <2> QED
    BY <1>4, <1>11, <2>1, PayloadOrder
<1>12. CASE v = Client!StatusResult
  <2>1. DOMAIN json = {"workers"} /\ json["workers"] # "[worker]"
    BY <1>1, <1>2, <1>12, PayloadFields
  <2>2. json["workers"] # "[]"
    <3> SUFFICES ASSUME json["workers"] = "[]" PROVE p = EmptyStatus
      BY <1>3
    <3>1. json = [workers |-> "[]"]
      BY <1>2, <2>1
    <3>2. v.name = "StatusResult"
      BY <1>12 DEF Client!StatusResult, Client!Variant
    <3> QED
      BY <1>2, <3>1, <3>2 DEF EmptyStatus
  <2>3. \A i \in 1 .. 8 - 1 : ~ Client!Fits(json, Client!ResponsePayload[i])
    BY <2>1, <2>2, PayloadNeeds, PayloadOrder
  <2> QED
    BY <1>4, <1>12, <2>3, PayloadOrder
<1>13. CASE v = Client!EventList
  <2>1. \A i \in 1 .. 9 - 1 : ~ Client!Fits(json, Client!ResponsePayload[i])
    BY <1>2, <1>13, PayloadNeeds, PayloadFields, PayloadOrder
  <2> QED
    BY <1>4, <1>13, <2>1, PayloadOrder
<1>14. CASE v = Client!MessageList
  <2>1. \A i \in 1 .. 10 - 1 : ~ Client!Fits(json, Client!ResponsePayload[i])
    BY <1>2, <1>14, PayloadNeeds, PayloadFields, PayloadOrder
  <2> QED
    BY <1>4, <1>14, <2>1, PayloadOrder
<1>15. CASE v = Client!Ack
  <2>1. \A i \in 1 .. 12 - 1 : ~ Client!Fits(json, Client!ResponsePayload[i])
    BY <1>2, <1>15, PayloadNeeds, PayloadFields, PayloadOrder
  <2> QED
    BY <1>4, <1>15, <2>1, PayloadOrder
<1> QED
  BY <1>5, <1>6, <1>7, <1>8, <1>9, <1>10, <1>11, <1>12, <1>13, <1>14, <1>15 DEF Sent

\* What the client decoded is what the broker sent, read once.
Taken ==
    /\ sent \in Client!Answers(Client!Request) \cup {Client!Failure}
    /\ decoded = IF sent.name = "Error" THEN sent ELSE Client!Decode(sent.json)

\* Before its end a command has printed nothing and failed at nothing.
Asking ==
    /\ pc \in {"idle", "started", "connecting", "requested", "answered"}
    /\ decoded = Client!NoPayload /\ stdout = None /\ error = None /\ code = 0
    /\ pc # "idle" => command \in Client!Commands
    /\ pc \notin {"idle", "started"} => Client!Request \in Client!Requests
    /\ pc = "answered" =>
        /\ sent \in Client!Answers(Client!Request) \cup {Client!Failure}
        /\ line \in {"whole", "cut", "closed"}

\* At its end it has printed what it decoded, or nothing and says so.
Reported ==
    /\ Taken /\ Client!Request \in Client!Requests
    /\ command # "for_agent" => stdout = [name |-> decoded.name, json |-> decoded.json]
    /\ command = "for_agent" => decoded.name # "Error" /\ Client!PromptOf(decoded) # None
Ended ==
    /\ pc = "done"
    /\ decoded = Client!NoPayload \/ (Taken /\ Client!Request \in Client!Requests)
    /\ error = None => code = 0
    /\ error # None => code # 0 /\ stdout = None
    /\ error = None /\ command # "init" => Reported

SessionInv == Asking \/ Ended

\* What does not depend on the state.
LEMMA Constants ==
    /\ Client!NoPayload' = Client!NoPayload /\ Client!Requests' = Client!Requests
    /\ Client!Commands' = Client!Commands /\ Client!Failure' = Client!Failure
    /\ \A r : Client!Answers(r)' = Client!Answers(r)
BY DEF Client!NoPayload, Client!Requests, Client!Commands, Client!Failure, Client!Answers

\* A command that fails exits with an error and its code.
LEMMA FailFacts ==
    ASSUME NEW e \in Client!Errors, Client!Fail(e)
    PROVE  pc' = "done" /\ error' # None /\ code' # 0
BY ClientAssumption DEF Client!SessionAssumption, Client!Fail, Client!ExitCode

\* A command that fails prints nothing.
LEMMA FailsEnded ==
    ASSUME Asking, decoded' = decoded, stdout' = stdout, pc' = "done", error' # None, code' # 0
    PROVE  SessionInv'
<1>1. decoded' = Client!NoPayload' /\ stdout' = None
  BY Constants DEF Asking
<1>2. Ended'
  BY <1>1 DEF Ended
<1> QED
  BY <1>2 DEF SessionInv

\* A command that goes on has printed nothing yet.
LEMMA GoesOn ==
    ASSUME Asking, UNCHANGED <<decoded, stdout, error, code>>,
           pc' \in {"idle", "started", "connecting", "requested", "answered"},
           pc' # "idle" => command' \in Client!Commands,
           pc' \notin {"idle", "started"} => Client!Request' \in Client!Requests,
           pc' = "answered" =>
                /\ sent' \in Client!Answers(Client!Request') \cup {Client!Failure}
                /\ line' \in {"whole", "cut", "closed"}
    PROVE  SessionInv'
<1>1. decoded' = Client!NoPayload' /\ stdout' = None /\ error' = None /\ code' = 0
  BY Constants DEF Asking
<1>2. Asking'
  BY <1>1, Constants DEF Asking
<1> QED
  BY <1>2 DEF SessionInv

\* The steps up to the request.
LEMMA AskingSteps ==
    ASSUME SessionInv,
           \/ \E c \in Client!Commands : Client!Start(c)
           \/ Client!InitConfig \/ Client!ResolveConfig \/ Client!BadTimestamp \/ Client!Connect
    PROVE  SessionInv'
<1>0. Asking
  BY DEF SessionInv, Ended, Client!Start, Client!InitConfig, Client!ResolveConfig,
         Client!BadTimestamp, Client!Connect
<1>1. CASE \E c \in Client!Commands : Client!Start(c)
  BY <1>0, <1>1, GoesOn DEF Client!Start
<1>2. ASSUME UNCHANGED <<decoded, stdout>>, NEW e \in Client!Errors, Client!Fail(e)
      PROVE  SessionInv'
  BY <1>0, <1>2, FailFacts, FailsEnded
<1>3. CASE Client!InitConfig
  <2>1. CASE pc' = "done" /\ stdout' = "path" /\ UNCHANGED <<code, error>>
    <3>1. decoded' = Client!NoPayload' /\ error' = None /\ code' = 0 /\ command' = "init"
      BY <1>0, <1>3, <2>1, Constants DEF Asking, Client!InitConfig
    <3>2. Ended'
      BY <2>1, <3>1 DEF Ended
    <3> QED
      BY <3>2 DEF SessionInv
  <2>2. CASE \E e \in {"ConfigAlreadyExists", "Io"} : Client!Fail(e) /\ UNCHANGED stdout
    BY <1>2, <1>3, <2>2 DEF Client!InitConfig, Client!Errors, Client!ConfigErrors
  <2> QED
    BY <1>3, <2>1, <2>2 DEF Client!InitConfig
<1>4. CASE Client!ResolveConfig
  <2>1. CASE pc' = "connecting" /\ UNCHANGED <<code, error>>
    <3>1. command \in Client!Commands /\ Client!Request \in Client!Requests
      <4>1. pc = "started" /\ command # "init"
        BY <1>4 DEF Client!ResolveConfig
      <4>2. command \in Client!Commands
        BY <1>0, <4>1 DEF Asking
      <4> QED
        BY <4>1, <4>2 DEF Client!Request, Client!Commands, Client!Requests
    <3> QED
      BY <1>0, <1>4, <2>1, <3>1, GoesOn DEF Client!ResolveConfig, Client!Request
  <2>2. CASE \E e \in Client!ConfigErrors \ {"ConfigAlreadyExists"} : Client!Fail(e)
    BY <1>2, <1>4, <2>2 DEF Client!ResolveConfig, Client!Errors
  <2> QED
    BY <1>4, <2>1, <2>2 DEF Client!ResolveConfig
<1>5. CASE Client!BadTimestamp
  <2>1. "timestamp" # None
    BY ClientAssumption DEF Client!SessionAssumption, Client!Errors
  <2> QED
    BY <1>0, <1>5, <2>1, FailsEnded DEF Client!BadTimestamp
<1>6. CASE Client!Connect
  <2>1. CASE pc' = "requested" /\ UNCHANGED <<code, error>>
    <3>1. command \in Client!Commands /\ Client!Request \in Client!Requests
      BY <1>0, <1>6 DEF Asking, Client!Connect
    <3> QED
      BY <1>0, <1>6, <2>1, <3>1, GoesOn DEF Client!Connect, Client!Request
  <2>2. CASE \E e \in {"BrokerNotRunning", "ConnectionFailed"} : Client!Fail(e)
    BY <1>2, <1>6, <2>2 DEF Client!Connect, Client!Errors
  <2> QED
    BY <1>6, <2>1, <2>2 DEF Client!Connect
<1> QED
  BY <1>1, <1>3, <1>4, <1>5, <1>6

\* What arrives is read once, and printed or reported.
LEMMA ReadStepHolds == SessionInv /\ Client!ReadResponse => SessionInv'
<1> SUFFICES ASSUME SessionInv, Client!ReadResponse PROVE SessionInv'
  OBVIOUS
<1>0. Asking /\ pc = "answered" /\ Client!Request \in Client!Requests
  BY DEF SessionInv, Asking, Ended, Reported, Client!ReadResponse
<1>1. CASE Client!Unreadable[line] # None
  <2>1. Client!Unreadable[line] \in Client!Errors
    BY <1>0, <1>1 DEF Asking, Client!Unreadable, Client!Errors
  <2>2. Client!Fail(Client!Unreadable[line]) /\ UNCHANGED <<decoded, stdout>>
    BY <1>1 DEF Client!ReadResponse
  <2> QED
    BY <1>0, <2>1, <2>2, FailFacts, FailsEnded
<1>2. CASE Client!Unreadable[line] = None
  <2> PICK d : d = decoded'
    OBVIOUS
  <2>1. /\ d = IF sent.name = "Error" THEN sent ELSE Client!Decode(sent.json)
        /\ Client!PrintAnswer(d) /\ UNCHANGED <<command, sent, line>>
    BY <1>2 DEF Client!ReadResponse
  <2>2. Taken' /\ Client!Request' \in Client!Requests
    BY <1>0, <2>1 DEF Asking, Taken, Client!Request
  <2>3. CASE /\ command # "for_agent"
             /\ stdout' = [name |-> d.name, json |-> d.json]
             /\ pc' = "done" /\ UNCHANGED <<code, error>>
    BY <1>0, <2>1, <2>2, <2>3, Constants DEF Asking, SessionInv, Ended, Reported
  <2>4. CASE command = "for_agent"
    <3>1. \/ \E e \in {"RegisterForAgentFailed", "NoRolePromptReturned"} :
                Client!Fail(e) /\ UNCHANGED stdout
          \/ /\ d.name # "Error" /\ Client!PromptOf(d) # None
             /\ pc' = "done" /\ UNCHANGED <<code, error>>
      BY <2>1, <2>4 DEF Client!PrintAnswer
    <3>2. ASSUME NEW e \in Client!Errors, Client!Fail(e), UNCHANGED stdout
          PROVE  SessionInv'
      BY <1>0, <2>2, <3>2, FailFacts, Constants DEF Asking, SessionInv, Ended, Reported
    <3>3. CASE /\ d.name # "Error" /\ Client!PromptOf(d) # None
               /\ pc' = "done" /\ UNCHANGED <<code, error>>
      BY <1>0, <2>1, <2>2, <2>4, <3>3, Constants DEF Asking, SessionInv, Ended, Reported
    <3> QED
      BY <3>1, <3>2, <3>3 DEF Client!Errors
  <2> QED
    BY <2>1, <2>3, <2>4 DEF Client!PrintAnswer
<1> QED
  BY <1>1, <1>2

\* The invariant is inductive.
LEMMA SessionInvariant == Client!Spec => []SessionInv
<1>1. Client!Init => SessionInv
  BY DEF Client!Init, SessionInv, Asking
<1>2. ASSUME SessionInv, [Client!Next]_(Client!vars)
      PROVE  SessionInv'
  <2>1. CASE Client!HandleConnection
    <3>1. Asking /\ command \in Client!Commands /\ Client!Request \in Client!Requests
      <4>1. pc = "requested"
        BY <2>1 DEF Client!HandleConnection
      <4>2. Asking
        BY <1>2, <4>1 DEF SessionInv, Ended
      <4> QED
        BY <4>1, <4>2 DEF Asking
    <3>2. Client!Request' = Client!Request
      BY <2>1 DEF Client!HandleConnection, Client!Request
    <3>3. sent' \in Client!Answers(Client!Request) \cup {Client!Failure}
      BY <2>1 DEF Client!HandleConnection
    <3> QED
      BY <2>1, <3>1, <3>2, <3>3, GoesOn DEF Client!HandleConnection
  <2>2. CASE Client!Done \/ UNCHANGED Client!vars
    <3>1. /\ command' = command /\ pc' = pc /\ sent' = sent /\ line' = line
          /\ decoded' = decoded /\ stdout' = stdout /\ code' = code /\ error' = error
      BY <2>2 DEF Client!Done, Client!vars
    <3>2. Client!Request' = Client!Request
      BY <3>1 DEF Client!Request
    <3>3. CASE Asking
      <4>1. /\ pc \in {"idle", "started", "connecting", "requested", "answered"}
            /\ pc # "idle" => command \in Client!Commands
            /\ pc \notin {"idle", "started"} => Client!Request \in Client!Requests
            /\ pc = "answered" =>
                /\ sent \in Client!Answers(Client!Request) \cup {Client!Failure}
                /\ line \in {"whole", "cut", "closed"}
        BY <3>3 DEF Asking
      <4> QED
        BY <3>1, <3>2, <3>3, <4>1, GoesOn
    <3>4. CASE Ended
      <4>1. Taken => Taken'
        BY <3>1, <3>2, Constants DEF Taken
      <4>2. Reported => Reported'
        BY <3>1, <3>2, <4>1, Constants DEF Reported
      <4>3. Ended'
        BY <3>1, <3>2, <3>4, <4>1, <4>2, Constants DEF Ended
      <4> QED
        BY <4>3 DEF SessionInv
    <3> QED
      BY <1>2, <3>3, <3>4 DEF SessionInv
  <2> QED
    BY <1>2, <2>1, <2>2, AskingSteps, ReadStepHolds DEF Client!Next
<1> QED
  BY <1>1, <1>2, PTL DEF Client!Spec

\* What the broker says arrives: decoded as what it is, printed as it was sent;
\* the order of ResponsePayload in protocol.rs keeps its kinds apart.
THEOREM AnswerKeptHolds == Client!Spec => []AnswerKept
<1>1. ASSUME Taken, Client!Request \in Client!Requests
      PROVE  /\ decoded.name = sent.name \/ sent = EmptyStatus
             /\ decoded.json = sent.json
  BY <1>1, DecodedAnswer DEF Taken, Client!Failure
<1>2. SessionInv => Client!DecodedAsSent
  BY <1>1, Constants DEF SessionInv, Asking, Ended, Reported, Client!NoPayload, EmptyStatus, Client!DecodedAsSent
<1>3. SessionInv => Client!PrintedAsSent
  <2> SUFFICES ASSUME SessionInv, pc = "done", command \in Client!Requests, error = None
               PROVE  stdout.json = sent.json
    BY DEF Client!PrintedAsSent
  <2>1. command # "init" /\ command # "for_agent"
    BY DEF Client!Requests
  <2> QED
    BY <1>1, <2>1, Constants DEF SessionInv, Asking, Ended, Reported
<1>4. SessionInv => AnswerKept
  BY <1>2, <1>3 DEF AnswerKept, Client!AnswerKept
<1> QED
  BY <1>4, SessionInvariant, PTL

\* An agent that registers gets its prompt and exit code 0, or nothing on
\* stdout and another exit code: run_register_for_agent.
THEOREM PromptOrFailureHolds == Client!Spec => []PromptOrFailure
<1>1. SessionInv => PromptOrFailure
  <2> SUFFICES ASSUME SessionInv, pc = "done", command = "for_agent"
               PROVE  IF code = 0 THEN sent.json.role_prompt \in Client!Text ELSE stdout = None
    BY DEF PromptOrFailure, Client!PromptOrFailure
  <2>1. Ended
    BY DEF SessionInv, Asking
  <2>2. CASE error = None
    <3>1. /\ Taken /\ decoded.name # "Error" /\ Client!PromptOf(decoded) # None
          /\ code = 0 /\ Client!Request = "register"
      BY <2>1, <2>2 DEF Ended, Reported, Client!Request
    <3>2. sent \in Client!Answers("register") /\ decoded = Client!Decode(sent.json)
      BY <3>1 DEF Taken, Client!Failure
    <3>3. "register" \in Client!Requests
      BY DEF Client!Requests
    <3>4. sent \in Client!ValuesOf(Client!WorkerRegistered)
      BY <3>2, <3>3, AnswersAre DEF KindOf
    <3>5. /\ Client!WorkerRegistered.name = "WorkerRegistered"
          /\ Client!WorkerRegistered.fields["role_prompt"] = "Option<String>"
          /\ "role_prompt" \in DOMAIN Client!WorkerRegistered.fields
      BY DEF Client!WorkerRegistered, Client!Variant
    <3>6. /\ sent.name = "WorkerRegistered"
          /\ sent.json["role_prompt"] \in Client!Holds("Option<String>")
      <4>1. /\ sent = [name |-> Client!WorkerRegistered.name, json |-> sent.json]
            /\ \A f \in DOMAIN Client!WorkerRegistered.fields :
                  sent.json[f] \in Client!Holds(Client!WorkerRegistered.fields[f])
        BY <3>4, ValueFacts
      <4> QED
        BY <3>5, <4>1
    <3>7. decoded = sent
      BY <3>2, <3>3, <3>6, DecodedAnswer DEF EmptyStatus
    <3>8. sent.json["role_prompt"] # "null"
      BY <3>1, <3>6, <3>7 DEF Client!PromptOf
    <3>9. Client!Holds("Option<String>") = Client!Text \cup {"null"}
      BY Zenon DEF Client!Holds
    <3> QED
      BY <3>1, <3>6, <3>8, <3>9
  <2>3. CASE error # None
    BY <2>1, <2>3 DEF Ended, Reported
  <2> QED
    BY <2>2, <2>3
<1> QED
  BY <1>1, SessionInvariant, PTL
=============================================================================
