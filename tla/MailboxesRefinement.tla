------------------------ MODULE MailboxesRefinement ------------------------
(***************************************************************************)
(* The broker implements Mailboxes: where each message is, read off the    *)
(* broker's mailboxes, the tasks of its connections and what these wrote.  *)
(***************************************************************************)
EXTENDS Broker

Places(m) ==
    (IF m \in Queued THEN {<<"queued">>} ELSE {})
    \cup {<<"held", c>> : c \in {d \in Clients : m \in Held(d)}}
    \cup {<<"delivered", c>> : c \in {d \in Clients : m \in Written(d)}}

\* A message in two places is nowhere that Mailboxes knows of.
MailPlace(m) ==
    LET places == Places(m)
    IN  IF places = {} THEN <<"lost">>
        ELSE IF \E p \in places : places = {p} THEN CHOOSE p \in places : TRUE
        ELSE <<"duplicated">>

mailWhere == [m \in MsgIds |-> MailPlace(m)]

Mail == INSTANCE Mailboxes WITH posted <- sent, where <- mailWhere

\* The broker implements at-most-once mail in order: every step of a request,
\* a handler, an eviction or a timer changes the whereabouts of messages as
\* one step of Mailboxes does, or not at all.
ImplementsMailboxes == Mail!Spec
=============================================================================
