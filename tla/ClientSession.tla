--------------------------- MODULE ClientSession ---------------------------
(***************************************************************************)
(* One client command from its arguments to its exit code: the request,    *)
(* the broker's answer on the wire, what the client decodes from it, what  *)
(* it prints.  A response is one JSON line whose payload carries no tag:   *)
(* the client takes the first kind of payload that fits the fields.        *)
(*                                                                         *)
(* A definition called Mutant... is a mistake the code could have made in  *)
(* the definition after it; no specification uses it.                      *)
(***************************************************************************)
EXTENDS Naturals, Sequences, FiniteSets

CONSTANTS
    None,
    EmptyPrompts   \* whether prompt files may be empty

VARIABLES
    command,   \* what the user runs
    pc,        \* where the client is
    sent,      \* the broker's response
    line,      \* what arrives of it
    decoded,   \* what the client takes it for
    stdout,    \* what the client prints
    code,      \* its exit code
    error      \* the DispatchError it ends with

vars == <<command, pc, sent, line, decoded, stdout, code, error>>

Requests == {"register", "team", "send", "listen", "events", "messages", "status",
             "clear", "ack", "heartbeat", "agent"}
Commands == Requests \cup {"init", "for_agent"}

-----------------------------------------------------------------------------
(* ResponsePayload.  A JSON object is a function from its fields to the     *)
(* kinds of their values.                                                  *)

Text == {"text", "empty"}

\* The values that a field of a type can hold.
Holds(type) ==
    CASE type = "String"         -> Text
      [] type = "Option<String>" -> Text \cup {"null"}
      [] type = "u64"            -> {"number"}
      [] type = "bool"           -> {"true"}
      [] type = "HashMap"         -> {"{}"}
      [] type = "Vec<Worker>"    -> {"[]", "[worker]"}
      [] type = "Vec<WorkerStatus>" -> {"[]", "[status]", "[worker]"}
      [] type = "Vec<Value>"     -> {"[]", "[event]"}
      [] type = "Vec<Message>"   -> {"[]", "[message]"}

Variant(name, fields, strict) == [name |-> name, fields |-> fields, strict |-> strict]

Message == Variant("Message",
    [message_id |-> "String", from |-> "Option<String>", to |-> "String", body |-> "String"], FALSE)
HeartbeatAck == Variant("HeartbeatAck", [worker_id |-> "String", expires_at |-> "u64"], FALSE)
WorkerList == Variant("WorkerList", [workers |-> "Vec<Worker>"], FALSE)
Timeout == Variant("Timeout", [worker_id |-> "String"], TRUE)
WorkerRegistered == Variant("WorkerRegistered",
    [worker_id |-> "String", role_prompt |-> "Option<String>"], FALSE)
AckConfirm == Variant("AckConfirm", [message_id |-> "String", ack_confirmed |-> "bool"], FALSE)
MessageAck == Variant("MessageAck", [message_id |-> "String"], FALSE)
StatusResult == Variant("StatusResult", [workers |-> "Vec<WorkerStatus>"], FALSE)
EventList == Variant("EventList", [events |-> "Vec<Value>"], FALSE)
MessageList == Variant("MessageList", [messages |-> "Vec<Message>"], FALSE)
Data == Variant("Data", [data |-> "HashMap"], FALSE)
Ack == Variant("Ack", [x \in {} |-> {}], FALSE)

\* "Variant order matters": Timeout after WorkerRegistered.
MutantRegisteredFirst ==
    <<Message, HeartbeatAck, WorkerList, WorkerRegistered, Timeout, AckConfirm,
      MessageAck, StatusResult, EventList, MessageList, Data, Ack>>
ResponsePayload ==
    <<Message, HeartbeatAck, WorkerList, Timeout, WorkerRegistered, AckConfirm,
      MessageAck, StatusResult, EventList, MessageList, Data, Ack>>

Optional(v) == {f \in DOMAIN v.fields : v.fields[f] = "Option<String>"}

\* Missing optional fields are None, unknown fields are ignored unless denied.
Fits(json, v) ==
    /\ \A f \in DOMAIN v.fields :
        IF f \in DOMAIN json THEN json[f] \in Holds(v.fields[f]) ELSE f \in Optional(v)
    /\ v.strict => DOMAIN json \subseteq DOMAIN v.fields

Decode(json) ==
    LET fitting == {i \in DOMAIN ResponsePayload : Fits(json, ResponsePayload[i])}
        v == ResponsePayload[CHOOSE i \in fitting : \A j \in fitting : i <= j]
    IN  [name |-> v.name,
         json |-> [f \in DOMAIN v.fields |-> IF f \in DOMAIN json THEN json[f] ELSE "null"]]

\* Every value of a variant; role_prompt and from are written even if None.
ValuesOf(v) ==
    {[name |-> v.name, json |-> j] :
        j \in {g \in [DOMAIN v.fields -> UNION {Holds(v.fields[f]) : f \in DOMAIN v.fields}] :
                  \A f \in DOMAIN v.fields :
                      g[f] \in Holds(v.fields[f]) \ (IF EmptyPrompts THEN {} ELSE {"empty"})}}

\* What the handler of each request may answer.
Answers(r) ==
    CASE r = "register"  -> ValuesOf(WorkerRegistered)
      [] r = "team"      -> ValuesOf(WorkerList)
      [] r = "send"      -> ValuesOf(MessageAck)
      [] r = "listen"    -> ValuesOf(Message) \cup ValuesOf(Timeout)
      [] r = "events"    -> ValuesOf(EventList)
      [] r = "messages"  -> ValuesOf(MessageList)
      [] r = "status"    -> {p \in ValuesOf(StatusResult) : p.json.workers # "[worker]"}
      [] r = "ack"       -> ValuesOf(AckConfirm)
      [] r = "heartbeat" -> ValuesOf(HeartbeatAck)
      [] r \in {"clear", "agent"} -> ValuesOf(Ack)

CanFail(r) == r \in {"register", "send", "listen", "clear", "ack", "heartbeat", "agent"}

Failure == [name |-> "Error", json |-> [message |-> "text"]]
NoPayload == [name |-> None, json |-> [x \in {} |-> {}]]

-----------------------------------------------------------------------------

ConfigErrors == {"ConfigNotFound", "ConfigInvalid", "ConfigAlreadyExists",
                 "AgentConfigError", "PromptFileNotFound", "UnknownBackend"}
\* What a command may end with.
Errors == ConfigErrors \cup {"Io", "timestamp", "BrokerNotRunning", "ConnectionFailed",
    "Serialization", "RegisterForAgentFailed", "NoRolePromptReturned"}

SessionAssumption == EmptyPrompts \in BOOLEAN /\ None \notin Errors

Request == IF command = "for_agent" THEN "register" ELSE command

TypeOK ==
    /\ command \in Commands \cup {None}
    /\ pc \in {"idle", "started", "connecting", "requested", "answered", "done"}
    /\ pc \in {"answered", "done"} /\ sent.name \notin {None, "Error"} =>
            sent \in Answers(Request)
    /\ decoded.name # None => decoded.name \in {v.name : v \in {ResponsePayload[i] :
            i \in DOMAIN ResponsePayload}} \cup {"Error"}
    /\ line \in {None, "whole", "cut", "closed"}
    /\ code \in 0 .. 2
    /\ error \in Errors \cup {None}
    /\ error # None => code # 0

Init ==
    /\ command = None /\ pc = "idle"
    /\ sent = NoPayload /\ line = None /\ decoded = NoPayload
    /\ stdout = None /\ code = 0 /\ error = None

Start(c) ==
    /\ pc = "idle"
    /\ command' = c
    /\ pc' = "started"
    /\ UNCHANGED <<sent, line, decoded, stdout, code, error>>

\* Only a configuration error is told to the shell.
ExitCode(e) ==
    IF e \in {"ConfigAlreadyExists", "ConfigNotFound", "ConfigInvalid"} THEN 2 ELSE 1

Fail(e) ==
    /\ pc' = "done"
    /\ error' = e
    /\ code' = ExitCode(e)

InitConfig ==
    /\ pc = "started"
    /\ command = "init"
    /\ \/ /\ pc' = "done" /\ stdout' = "path"
          /\ UNCHANGED <<code, error>>
       \/ \E e \in {"ConfigAlreadyExists", "Io"} : Fail(e) /\ UNCHANGED stdout
    /\ UNCHANGED <<command, sent, line, decoded>>

\* The configuration is resolved before any request, agents included.
ResolveConfig ==
    /\ pc = "started"
    /\ command # "init"
    /\ \/ pc' = "connecting" /\ UNCHANGED <<code, error>>
       \/ \E e \in ConfigErrors \ {"ConfigAlreadyExists"} : Fail(e)
    /\ UNCHANGED <<command, sent, line, decoded, stdout>>

\* A time that does not parse ends the process at once.
BadTimestamp ==
    /\ pc = "connecting"
    /\ command \in {"events", "messages"}
    /\ pc' = "done" /\ code' = 2 /\ error' = "timestamp"
    /\ UNCHANGED <<command, sent, line, decoded, stdout>>

Connect ==
    /\ pc = "connecting"
    /\ \/ pc' = "requested" /\ UNCHANGED <<code, error>>
       \/ \E e \in {"BrokerNotRunning", "ConnectionFailed"} : Fail(e)
    /\ UNCHANGED <<command, sent, line, decoded, stdout>>

\* The connection's handler answers; the broker may end before or meanwhile.
HandleConnection ==
    /\ pc = "requested"
    /\ sent' \in Answers(Request) \cup (IF CanFail(Request) THEN {Failure} ELSE {})
    /\ line' \in {"whole", "cut", "closed"}
    /\ pc' = "answered"
    /\ UNCHANGED <<command, decoded, stdout, code, error>>

MutantPrintsAnything(p) ==
    IF "role_prompt" \in DOMAIN p.json THEN "prompt" ELSE "json"
\* The role prompt goes to stdout verbatim.
PromptOf(p) ==
    IF p.name # "WorkerRegistered" THEN None
    ELSE CASE p.json.role_prompt = "null"  -> None
           [] p.json.role_prompt = "empty" -> "nothing"
           [] OTHER -> "prompt"

PrintAnswer(p) ==
    \/ /\ command # "for_agent"
       /\ stdout' = [name |-> p.name, json |-> p.json]
       /\ pc' = "done"
       /\ UNCHANGED <<code, error>>
    \/ /\ command = "for_agent"
       /\ CASE p.name = "Error" -> Fail("RegisterForAgentFailed") /\ UNCHANGED stdout
            [] p.name # "Error" /\ PromptOf(p) = None ->
                    Fail("NoRolePromptReturned") /\ UNCHANGED stdout
            [] OTHER -> stdout' = PromptOf(p) /\ pc' = "done" /\ UNCHANGED <<code, error>>

\* read_line: nothing is an error, and so is what does not parse.
Unreadable == [closed |-> "ConnectionFailed", cut |-> "Serialization", whole |-> None]

ReadResponse ==
    /\ pc = "answered"
    /\ \/ /\ Unreadable[line] # None
          /\ Fail(Unreadable[line])
          /\ UNCHANGED <<decoded, stdout>>
       \/ /\ Unreadable[line] = None
          /\ decoded' = IF sent.name = "Error" THEN sent ELSE Decode(sent.json)
          /\ PrintAnswer(decoded')
    /\ UNCHANGED <<command, sent, line>>

Done == pc = "done" /\ UNCHANGED vars

Next ==
    \/ \E c \in Commands : Start(c)
    \/ InitConfig \/ ResolveConfig \/ BadTimestamp \/ Connect
    \/ HandleConnection \/ ReadResponse \/ Done

Spec == Init /\ [][Next]_vars

-----------------------------------------------------------------------------
(* Properties.                                                             *)

\* The client takes each response for what the broker meant: a timeout is
\* never a registration, a confirmation never a plain acknowledgement.  Only
\* an empty list of statuses looks like an empty team.
DecodedAsSent ==
    decoded.name # None =>
        \/ decoded.name = sent.name
        \/ sent = [name |-> "StatusResult", json |-> [workers |-> "[]"]]

\* The client prints every field that the broker sent, and no other.
PrintedAsSent ==
    pc = "done" /\ command \in Requests /\ error = None => stdout.json = sent.json

\* An agent that registers gets its prompt and exit code 0, or nothing on
\* stdout and another exit code.
PromptOrFailure ==
    pc = "done" /\ command = "for_agent" =>
        IF code = 0 THEN sent.json.role_prompt \in Text ELSE stdout = None

\* What the broker says arrives: decoded as what it is, printed as it was sent.
AnswerKept == DecodedAsSent /\ PrintedAsSent
=============================================================================
