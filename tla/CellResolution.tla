--------------------------- MODULE CellResolution ---------------------------
(***************************************************************************)
(* Which broker a `dispatch` command talks to.  A command resolves its     *)
(* configuration and with it the cell, whose socket it uses, from flags,   *)
(* environment, directory and files; a broker hands parts of its own       *)
(* resolution to its agents, to its heartbeat commands and to the user,    *)
(* as a command line to paste.  A command may run in any directory, and    *)
(* files are edited meanwhile.                                             *)
(*                                                                         *)
(* A definition called Mutant... is a mistake the code could have made in  *)
(* the definition after it; no specification uses it.                      *)
(***************************************************************************)
EXTENDS Naturals

CONSTANTS
    Dirs,        \* directories, each a project or not
    Ids,         \* cell ids that users choose
    Shells,      \* slots for terminals and processes that run commands
    Brokers,     \* slots for brokers
    None,
    Bare,        \* --config dispatch.config.toml, without a directory part
    ConfigFlags, \* the values of --config that users give, besides none
    MaxEdits     \* bound: edits of configuration files

VARIABLES
    conf,     \* dispatch.config.toml of each directory
    shell,    \* what runs in each slot: its environment and origin
    broker,   \* the brokers: their own resolution
    edits

vars == <<conf, shell, broker, edits>>

\* The root that the parent of a bare file name is: the empty path.
Nowhere == "nowhere"

Chosen(id)    == <<"chosen", id>>
Derived(root) == <<"derived", root>>
Cells == {Chosen(id) : id \in Ids} \cup {Derived(root) : root \in Dirs \cup {Nowhere}}

ASSUME ResolutionAssumption ==
    /\ Bare \notin Dirs /\ Nowhere \notin Dirs
    /\ None \notin Dirs \cup Ids \cup Brokers \cup Cells \cup {Bare, Nowhere}
    /\ ConfigFlags \subseteq Dirs \cup {Bare}
    /\ MaxEdits \in Nat

\* A file sets a cell id or the agents' directory, or neither.
Plain  == [kind |-> "valid", cell |-> None, cwd |-> FALSE]
Absent == [kind |-> "absent", cell |-> None, cwd |-> FALSE]
Broken == [kind |-> "broken", cell |-> None, cwd |-> FALSE]
Files  == {Plain, [Plain EXCEPT !.cwd = TRUE]} \cup {[Plain EXCEPT !.cell = Chosen(id)] : id \in Ids}

\* DISPATCH_CELL_ID, DISPATCH_SOCKET_PATH (as the cell it belongs to) and
\* DISPATCH_CONFIG_PATH (as the directory of the file).
Env == [cell: Cells \cup {None}, socket: Cells \cup {None}, config: Dirs \cup {None}]
Flags == [cell: {Chosen(id) : id \in Ids} \cup {None}, config: ConfigFlags \cup {None}]
NoFlags == [cell |-> None, config |-> None]
NoEnv == [cell |-> None, socket |-> None, config |-> None]

Shell == [kind: {"free", "terminal", "agent", "pasted", "heartbeat"},
          env: Env, of: Brokers \cup {None}]

Resolution == [ok: BOOLEAN, cell: Cells \cup {None}, config: Dirs \cup {None},
               root: Dirs \cup {Nowhere, None}, hasCwd: BOOLEAN]

TypeOK ==
    /\ conf \in [Dirs -> Files \cup {Absent, Broken}]
    /\ shell \in [Shells -> Shell]
    /\ broker \in [Brokers ->
            [up: BOOLEAN, at: Resolution, home: Dirs \cup {None}, env: Env,
             file: Files \cup {Absent}, chosen: BOOLEAN]]
    /\ edits \in 0 .. MaxEdits

-----------------------------------------------------------------------------
(* resolve_config.                                                         *)

Failed == [ok |-> FALSE, cell |-> None, config |-> None, root |-> None, hasCwd |-> FALSE]

\* The directory of the file: --config, then DISPATCH_CONFIG_PATH, then a
\* file in the current directory.
ConfigDir(cwd, flags, env) ==
    CASE flags.config = Bare             -> cwd
      [] flags.config \notin {Bare, None} -> flags.config
      [] flags.config = None /\ env.config # None -> env.config
      [] OTHER -> IF conf[cwd].kind = "absent" THEN None ELSE cwd

MutantCwd(cwd, flags, env) == cwd
\* The parent of the path as it was given.
Root(cwd, flags, env) ==
    CASE flags.config = Bare -> Nowhere
      [] ConfigDir(cwd, flags, env) = None -> cwd
      [] OTHER -> ConfigDir(cwd, flags, env)

MutantFileFirst(flags, env, file, root) ==
    CASE flags.cell # None -> flags.cell
      [] flags.cell = None /\ file.cell # None -> file.cell
      [] flags.cell = None /\ file.cell = None /\ env.cell # None -> env.cell
      [] OTHER -> Derived(root)
CellId(flags, env, file, root) ==
    CASE flags.cell # None -> flags.cell
      [] flags.cell = None /\ env.cell # None -> env.cell
      [] flags.cell = None /\ env.cell = None /\ file.cell # None -> file.cell
      [] OTHER -> Derived(root)

FileOf(dir) == IF dir = None THEN Absent ELSE conf[dir]

\* A file that is named or found must exist and parse.
Resolve(cwd, flags, env) ==
    LET dir  == ConfigDir(cwd, flags, env)
        file == FileOf(dir)
        root == Root(cwd, flags, env)
    IN  IF dir # None /\ file.kind # "valid"
        THEN Failed
        ELSE [ok |-> TRUE,
              cell |-> CellId(flags, env, file, root),
              config |-> dir,
              root |-> root,
              hasCwd |-> file.cwd \/ root # Nowhere]

\* The project of a resolution: where its file is, or the current directory.
Home(cwd, r) == IF r.config = None THEN cwd ELSE r.config

\* The stop hook's socket: DISPATCH_SOCKET_PATH, or as a command without flags.
HookCell(cwd, env) ==
    IF env.socket # None THEN env.socket ELSE Resolve(cwd, NoFlags, env).cell

-----------------------------------------------------------------------------

Free == [kind |-> "free", env |-> NoEnv, of |-> None]
Down == [up |-> FALSE, at |-> Failed, home |-> None, env |-> NoEnv, file |-> Absent,
         chosen |-> FALSE]

Init ==
    /\ conf \in [Dirs -> Files \cup {Absent}]
    /\ shell \in [Shells -> {Free} \cup
            [kind: {"terminal"}, of: {None},
             env: {NoEnv} \cup {[NoEnv EXCEPT !.cell = Chosen(id)] : id \in Ids}]]
    /\ \E s \in Shells : shell[s] # Free
    /\ broker = [b \in Brokers |-> Down]
    /\ edits = 0

\* What serve does with its resolution: the socket of the cell is taken, or not.
Serve(s, b, d, flags) ==
    LET r == Resolve(d, flags, shell[s].env)
    IN  /\ shell[s].kind # "free"
        /\ ~ broker[b].up
        /\ r.ok
        /\ \A c \in Brokers : broker[c].up => broker[c].at.cell # r.cell
        /\ broker' = [broker EXCEPT ![b] =
                [up |-> TRUE, at |-> r, env |-> shell[s].env, file |-> FileOf(r.config),
                 home |-> Home(d, r),
                 chosen |-> flags.cell # None \/ shell[s].env.cell # None]]
        /\ UNCHANGED <<conf, shell, edits>>

\* The broker ends, and what it started with it.
Shutdown(b) ==
    /\ broker[b].up
    /\ broker' = [broker EXCEPT ![b] = Down]
    /\ shell' = [s \in Shells |-> IF shell[s].of = b THEN Free ELSE shell[s]]
    /\ UNCHANGED <<conf, edits>>

Override(new, old) == IF new = None THEN old ELSE new

\* SpawnContext::env_vars, on top of the broker's own environment.
AgentEnv(b) ==
    [cell   |-> broker[b].at.cell,
     socket |-> broker[b].at.cell,
     config |-> Override(broker[b].at.config, broker[b].env.config)]

HeartbeatEnv(b) ==
    [cell   |-> broker[b].at.cell,
     socket |-> broker[b].at.cell,
     config |-> broker[b].env.config]

\* build_agent_command sets no socket path.
PastedEnv(b, env) ==
    [cell   |-> broker[b].at.cell,
     socket |-> env.socket,
     config |-> Override(broker[b].at.config, env.config)]

Run(s, kind, env, b) ==
    /\ shell[s].kind = "free"
    /\ shell' = [shell EXCEPT ![s] = [kind |-> kind, env |-> env, of |-> b]]

\* A child cannot be spawned in the empty path.
SpawnAgent(b, s) ==
    /\ broker[b].up
    /\ broker[b].at.hasCwd
    /\ Run(s, "agent", AgentEnv(b), b)
    /\ UNCHANGED <<conf, broker, edits>>

Heartbeat(b, s) ==
    /\ broker[b].up
    /\ broker[b].at.hasCwd
    /\ Run(s, "heartbeat", HeartbeatEnv(b), b)
    /\ UNCHANGED <<conf, broker, edits>>

\* The user pastes the printed command wherever a shell is open.
Paste(b, t, s) ==
    /\ broker[b].up
    /\ shell[t].kind # "free"
    /\ Run(s, "pasted", PastedEnv(b, shell[t].env), b)
    /\ UNCHANGED <<conf, broker, edits>>

\* dispatch init.
InitConfig(d) ==
    /\ edits < MaxEdits /\ edits' = edits + 1
    /\ conf[d].kind = "absent"
    /\ conf' = [conf EXCEPT ![d] = Plain]
    /\ UNCHANGED <<shell, broker>>

\* The user edits or breaks a file.
EditConfig(d) ==
    /\ edits < MaxEdits /\ edits' = edits + 1
    /\ conf' \in {[conf EXCEPT ![d] = f] : f \in Files \cup {Absent, Broken}}
    /\ UNCHANGED <<shell, broker>>

Next ==
    \/ \E s \in Shells, b \in Brokers :
        \/ \E d \in Dirs, flags \in Flags : Serve(s, b, d, flags)
        \/ SpawnAgent(b, s) \/ Heartbeat(b, s)
        \/ \E t \in Shells : Paste(b, t, s)
    \/ \E b \in Brokers : Shutdown(b)
    \/ \E d \in Dirs : InitConfig(d) \/ EditConfig(d)

Spec == Init /\ [][Next]_vars

-----------------------------------------------------------------------------
(* Properties: what a command in slot s resolves in directory d.           *)

At(s, d) == Resolve(d, NoFlags, shell[s].env)

\* A command of an agent, a heartbeat or a pasted agent reaches the broker it
\* came from or fails, but never reaches another one: in no directory, after
\* no change of any file, and not below another broker's agent.
ChildReachesBroker ==
    \A s \in Shells, d \in Dirs :
        shell[s].of # None /\ At(s, d).ok => At(s, d).cell = broker[shell[s].of].at.cell

\* "Child dispatch calls resolve the same config even when their cwd doesn't
\* contain it": an agent's commands use the broker's own file from anywhere.
ChildKeepsConfig ==
    \A s \in Shells, d \in Dirs :
        /\ shell[s].kind \in {"agent", "pasted"}
        /\ broker[shell[s].of].at.config # None
        /\ conf[broker[shell[s].of].at.config].kind = "valid"
        => At(s, d).config = broker[shell[s].of].at.config

\* The stop hook of an agent asks the broker that the agent's commands reach.
HookAsksOwnBroker ==
    \A s \in Shells, d \in Dirs :
        shell[s].kind = "agent" => HookCell(d, shell[s].env) = broker[shell[s].of].at.cell

\* "Using the same precedence the regular client uses": wherever a hook and a
\* command run, they look for the same socket.
HookAgreesWithClient ==
    \A s \in Shells, d \in Dirs :
        shell[s].kind # "free" /\ At(s, d).ok => HookCell(d, shell[s].env) = At(s, d).cell

\* A running broker has the derived cell that a command of another project
\* resolves, though nobody has chosen a cell id.
CellShared(s, d, b, flags) ==
    LET r == Resolve(d, flags, shell[s].env)
    IN  /\ broker[b].up /\ ~ broker[b].chosen
        /\ shell[s].kind # "free" /\ shell[s].env.cell = None
        /\ r.ok /\ r.cell = broker[b].at.cell
        /\ r.cell \in {Derived(root) : root \in Dirs \cup {Nowhere}}
        /\ broker[b].home # Home(d, r)

\* "The cell_id already encodes the project identity": projects whose cell ids
\* nobody chose have different cells.  Bare file names refute it: the cell that
\* is derived from the empty path is the same one in every directory.
OwnCell ==
    \A s \in Shells, d \in Dirs, b \in Brokers, flags \in Flags : ~ CellShared(s, d, b, flags)

\* Without a bare file name on its own command line, a command never meets the
\* broker of another project, not even one that was started with a bare one.
NotInTheWay ==
    \A s \in Shells, d \in Dirs, b \in Brokers, flags \in Flags :
        CellShared(s, d, b, flags) => flags.config = Bare

\* A command in a project's directory finds the project's broker, however the
\* broker was told about the file, short of a bare name, as long as nobody
\* changes the file.
ProjectFound ==
    \A s \in Shells, b \in Brokers :
        LET d == broker[b].home
        IN  /\ broker[b].up /\ ~ broker[b].chosen /\ broker[b].at.root # Nowhere
            /\ shell[s].kind = "terminal" /\ shell[s].env = NoEnv
            /\ conf[d] = broker[b].file
            => At(s, d).cell = broker[b].at.cell

\* What a broker starts or prints stays its own: its commands and its stop
\* hook ask that broker, with that broker's configuration.
ChildrenBound == ChildReachesBroker /\ ChildKeepsConfig /\ HookAsksOwnBroker

\* Bare file names apart, a project has its own cell, and its commands find
\* the broker of that cell.
ProjectsApart == NotInTheWay /\ ProjectFound
=============================================================================
