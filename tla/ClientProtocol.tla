--------------------------- MODULE ClientProtocol ----------------------------
(***************************************************************************)
(* The control connection: taskmasterctl (Client, ServerConnection) talks  *)
(* to the daemon (Taskmaster, ClientConnection) over a UNIX stream socket. *)
(* A command is a line that ends in a newline, an answer a text that ends  *)
(* in an empty line.  The stream keeps neither boundary: each side buffers *)
(* what it read and looks for the end by itself.                           *)
(*                                                                         *)
(* The socket carries tokens: NL is a newline, anything else the text of a *)
(* line or of an answer, named by the request it belongs to.  What the     *)
(* commands do is the subject of Taskmaster; here only the kinds that the  *)
(* protocol tells apart remain.                                            *)
(***************************************************************************)
EXTENDS Naturals, Sequences, FiniteSets

CONSTANTS
    Clients,        \* clients that may connect
    NL,             \* a newline
    Nobody,         \* no connection is being served
    MaxRequests,    \* bound: lines each client types
    Typed           \* bound: the kinds of line it types

ASSUME RequestsAssumption == MaxRequests \in [Clients -> Nat]

\* "status" and "help" answer with a text that already ends in a newline, and
\* "status" with nothing at all when there is no program; "blank" is a line of
\* blanks, which the client does not filter out.  "shutdown." has blanks or
\* arguments around the word: the daemon's parser looks at the word alone, the
\* client at the whole line.
Kinds == {"order", "status", "blank", "shutdown", "shutdown."}

ASSUME KindsAssumption == Typed \in [Clients -> SUBSET Kinds]

Requests == UNION {[n : 1 .. MaxRequests[c], kind : Kinds] : c \in Clients}
Tokens == Requests \cup {NL}

ASSUME TokensAssumption == NL \notin Requests /\ Nobody \notin Clients

VARIABLES
    daemon,         \* the daemon process
    conn,           \* the daemon's end of each connection
    inbox,          \* ClientConnection::m_buffer
    serving,        \* the connection handleClientMessage is called for
    lines,          \* the lines it has read and not yet executed
    client,         \* the client process: its place in Client::run
    request,        \* the last line the client typed
    unsent,         \* what sendCommand has still to write
    outbox,         \* ServerConnection::m_buffer
    shown,          \* the text of the last answer shown, without newlines
    up, down        \* what the socket holds in each direction

daemonVars == <<daemon, conn, inbox, serving, lines>>
clientVars == <<client, request, unsent, outbox, shown>>
vars == <<daemon, conn, inbox, serving, lines,
          client, request, unsent, outbox, shown, up, down>>

NoRequest == [n |-> 0, kind |-> "blank"]

(* Type invariant. *)
TypeOK ==
    /\ daemon \in {"up", "leaving", "left", "killed"}
    /\ conn \in [Clients -> {"none", "queued", "open", "closed", "removed"}]
    /\ inbox \in [Clients -> Seq(Tokens)]
    /\ serving \in Clients \cup {Nobody}
    /\ lines \in Seq(Requests)
    /\ client \in [Clients -> {"off", "prompt", "sending", "waiting", "gone"}]
    /\ request \in [Clients -> Requests \cup {NoRequest}]
    /\ unsent \in [Clients -> Seq(Tokens)]
    /\ outbox \in [Clients -> Seq(Tokens)]
    /\ shown \in [Clients -> Seq(Requests)]
    /\ up \in [Clients -> Seq(Tokens)]
    /\ down \in [Clients -> Seq(Tokens)]

Init ==
    /\ daemon = "up"
    /\ conn = [c \in Clients |-> "none"]
    /\ inbox = [c \in Clients |-> <<>>]
    /\ serving = Nobody
    /\ lines = <<>>
    /\ client = [c \in Clients |-> "off"]
    /\ request = [c \in Clients |-> NoRequest]
    /\ unsent = [c \in Clients |-> <<>>]
    /\ outbox = [c \in Clients |-> <<>>]
    /\ shown = [c \in Clients |-> <<>>]
    /\ up = [c \in Clients |-> <<>>]
    /\ down = [c \in Clients |-> <<>>]

Running == daemon \in {"up", "leaving"}

\* The daemon's end of the connection is closed.
HungUp(c) == ~Running \/ conn[c] = "removed"

\* What s holds besides newlines, in order.
Nth(at, k) == CHOOSE i \in at : Cardinality({j \in at : j < i}) = k - 1
TextAt(s) == {i \in DOMAIN s : s[i] # NL}
Text(s) == [k \in 1 .. Cardinality(TextAt(s)) |-> s[Nth(TextAt(s), k)]]

Skip(s, k) == SubSeq(s, k + 1, Len(s))

-----------------------------------------------------------------------------
(* The client *)

Connect(c) ==
    /\ client[c] = "off" /\ Running
    /\ client' = [client EXCEPT ![c] = "prompt"]
    /\ conn' = [conn EXCEPT ![c] = "queued"]
    /\ UNCHANGED <<daemon, inbox, serving, lines, request, unsent, outbox,
                   shown, up, down>>

Type(c) ==
    /\ client[c] = "prompt" /\ request[c].n < MaxRequests[c]
    /\ \E k \in Typed[c] :
        LET r == [n |-> request[c].n + 1, kind |-> k]
        IN  /\ request' = [request EXCEPT ![c] = r]
            /\ unsent' = [unsent EXCEPT ![c] = <<r, NL>>]
    /\ client' = [client EXCEPT ![c] = "sending"]
    /\ UNCHANGED <<daemonVars, outbox, shown, up, down>>

\* One write of sendCommand: the kernel takes any non-empty part.  When the
\* daemon has hung up the write raises SIGPIPE, which the client does not handle.
sendCommand(c) ==
    /\ client[c] = "sending"
    /\ \/ /\ HungUp(c)
          /\ client' = [client EXCEPT ![c] = "gone"]
          /\ UNCHANGED <<unsent, up>>
       \/ /\ ~HungUp(c)
          /\ \E k \in 1 .. Len(unsent[c]) :
              /\ up' = [up EXCEPT ![c] = @ \o SubSeq(unsent[c], 1, k)]
              /\ unsent' = [unsent EXCEPT ![c] = Skip(@, k)]
              /\ client' = [client EXCEPT
                    ![c] = IF k = Len(unsent[c]) THEN "waiting" ELSE "sending"]
    /\ UNCHANGED <<daemonVars, request, outbox, shown, down>>

\* The positions at which an empty line begins.
Ends(s) == {i \in 1 .. Len(s) - 1 : s[i] = NL /\ s[i + 1] = NL}
FirstEnd(s) == CHOOSE i \in Ends(s) : \A j \in Ends(s) : i <= j

\* Seeded bug: one newline of the empty line stays in the buffer.
takeResponse_LeavesOne(c, s) ==
    /\ shown' = [shown EXCEPT ![c] = Text(SubSeq(s, 1, FirstEnd(s)))]
    /\ outbox' = [outbox EXCEPT ![c] = Skip(s, FirstEnd(s))]

\* The end of readResponse: the answer is cut off the buffer and shown.
takeResponse(c, s) ==
    /\ shown' = [shown EXCEPT ![c] = Text(SubSeq(s, 1, FirstEnd(s)))]
    /\ outbox' = [outbox EXCEPT ![c] = Skip(s, FirstEnd(s) + 1)]

\* One read of readResponse, and its return once the buffer holds an answer.
readResponse(c) ==
    /\ client[c] = "waiting"
    /\ \E k \in 0 .. Len(down[c]) :
        LET s == outbox[c] \o SubSeq(down[c], 1, k)
        IN  /\ (k = 0) <=> (Ends(outbox[c]) # {})
            /\ down' = [down EXCEPT ![c] = Skip(@, k)]
            /\ IF Ends(s) # {}
               THEN /\ takeResponse(c, s)
                    /\ client' = [client EXCEPT ![c] =
                          IF request[c].kind = "shutdown" THEN "gone" ELSE "prompt"]
               ELSE /\ outbox' = [outbox EXCEPT ![c] = s]
                    /\ UNCHANGED <<client, shown>>
    /\ UNCHANGED <<daemonVars, request, unsent, up>>

\* read returns 0: what came is shown and the client ends.
readHangup(c) ==
    /\ client[c] = "waiting" /\ HungUp(c)
    /\ down[c] = <<>> /\ Ends(outbox[c]) = {}
    /\ shown' = [shown EXCEPT ![c] = Text(outbox[c])]
    /\ outbox' = [outbox EXCEPT ![c] = <<>>]
    /\ client' = [client EXCEPT ![c] = "gone"]
    /\ UNCHANGED <<daemonVars, request, unsent, up, down>>

\* exit or Ctrl-D at the prompt, or the process is killed wherever it is.
Leave(c) ==
    /\ client[c] \in {"prompt", "sending", "waiting"}
    /\ client' = [client EXCEPT ![c] = "gone"]
    /\ UNCHANGED <<daemonVars, request, unsent, outbox, shown, up, down>>

-----------------------------------------------------------------------------
(* The daemon *)

handleNewConnection(c) ==
    /\ Running /\ serving = Nobody /\ conn[c] = "queued"
    /\ conn' = [conn EXCEPT ![c] = "open"]
    /\ UNCHANGED <<daemon, inbox, serving, lines, clientVars, up, down>>

LastNL(s) == CHOOSE i \in 0 .. Len(s) :
    /\ i = 0 \/ s[i] = NL
    /\ \A j \in i + 1 .. Len(s) : s[j] # NL

\* Seeded bug: the newline stays at the end of the line.
takeLines_KeepsNewline(c, s) ==
    /\ lines' = SubSeq(s, 1, LastNL(s))
    /\ inbox' = [inbox EXCEPT ![c] = Skip(s, LastNL(s))]

\* Seeded bug: the unfinished line at the end of the buffer is thrown away.
takeLines_DropsRest(c, s) ==
    /\ lines' = Text(SubSeq(s, 1, LastNL(s)))
    /\ inbox' = [inbox EXCEPT ![c] = <<>>]

\* The complete lines of the buffer are returned, the rest stays in it.
takeLines(c, s) ==
    /\ lines' = Text(SubSeq(s, 1, LastNL(s)))
    /\ inbox' = [inbox EXCEPT ![c] = Skip(s, LastNL(s))]

\* Seeded bug: the end of the stream is taken for "nothing more for now".
noticeEnd_Never(c) == UNCHANGED <<conn, down>>

\* What read returns when the data is used up: EAGAIN, or 0 when the client has
\* gone, and then the connection is marked closed.  A client that goes without
\* reading its answer makes one read fail before: that error is not told from
\* EAGAIN, and the end is found by the next call.
noticeEnd(c) ==
    \/ client[c] # "gone" /\ UNCHANGED <<conn, down>>
    \/ /\ client[c] = "gone" /\ down[c] # <<>>
       /\ down' = [down EXCEPT ![c] = <<>>]
       /\ UNCHANGED conn
    \/ /\ client[c] = "gone" /\ down[c] = <<>>
       /\ conn' = [conn EXCEPT ![c] = "closed"]
       /\ UNCHANGED down

readLines(c) ==
    /\ takeLines(c, inbox[c] \o up[c])
    /\ up' = [up EXCEPT ![c] = <<>>]
    /\ noticeEnd(c)

handleClientMessage(c) ==
    /\ Running /\ serving = Nobody /\ conn[c] = "open"
    /\ up[c] # <<>> \/ client[c] = "gone"
    /\ readLines(c)
    /\ serving' = c
    /\ UNCHANGED <<daemon, clientVars>>

\* executeCommand's text and the "\n\n" that handleClientMessage appends.
Answers(r) ==
    IF r.kind = "status" THEN {<<r, NL, NL, NL>>, <<NL, NL>>}
                         ELSE {<<r, NL, NL>>}

\* send: the socket does not block, so an answer longer than the room in it is
\* cut and the connection given up.  A write to a client that has gone raises
\* SIGPIPE, whose default action ends the daemon.
send(c, answer) ==
    \/ /\ client[c] = "gone"
       /\ daemon' = "killed"
       /\ UNCHANGED <<conn, down>>
    \/ /\ client[c] # "gone"
       /\ down' = [down EXCEPT ![c] = @ \o answer]
       /\ UNCHANGED conn
       /\ daemon' = IF Head(lines).kind \in {"shutdown", "shutdown."}
                    THEN "leaving" ELSE daemon
    \/ /\ client[c] # "gone" /\ Head(lines).kind = "status"
       /\ \E k \in 0 .. Len(answer) - 1 :
            down' = [down EXCEPT ![c] = @ \o SubSeq(answer, 1, k)]
       /\ conn' = [conn EXCEPT ![c] = "closed"]
       /\ UNCHANGED daemon

\* One turn of the loop over the lines; a line without a word is skipped.
executeLine ==
    /\ Running /\ serving # Nobody /\ lines # <<>>
    /\ lines' = Tail(lines)
    /\ \/ /\ Head(lines).kind = "blank"
          /\ UNCHANGED <<daemon, conn, down>>
       \/ /\ Head(lines).kind # "blank"
          /\ \E answer \in Answers(Head(lines)) : send(serving, answer)
    /\ UNCHANGED <<inbox, serving, clientVars, up>>

messageDone ==
    /\ Running /\ serving # Nobody /\ lines = <<>>
    /\ serving' = Nobody
    /\ UNCHANGED <<daemon, conn, inbox, lines, clientVars, up, down>>

removeClosedConnections ==
    /\ Running /\ serving = Nobody
    /\ \E c \in Clients : conn[c] = "closed"
    /\ conn' = [c \in Clients |-> IF conn[c] = "closed" THEN "removed" ELSE conn[c]]
    /\ UNCHANGED <<daemon, inbox, serving, lines, clientVars, up, down>>

\* run() ends; Taskmaster says when.
exitDaemon ==
    /\ daemon = "leaving" /\ serving = Nobody
    /\ daemon' = "left"
    /\ UNCHANGED <<conn, inbox, serving, lines, clientVars, up, down>>

Stopped ==
    /\ \A c \in Clients : client[c] \in {"off", "waiting", "prompt", "gone"}
    /\ UNCHANGED vars

-----------------------------------------------------------------------------

DaemonStep ==
    \/ \E c \in Clients : handleNewConnection(c) \/ handleClientMessage(c)
    \/ executeLine \/ messageDone \/ removeClosedConnections \/ exitDaemon

ClientStep(c) == sendCommand(c) \/ readResponse(c) \/ readHangup(c)

Next ==
    \/ DaemonStep
    \/ \E c \in Clients : Connect(c) \/ Type(c) \/ ClientStep(c) \/ Leave(c)
    \/ Stopped

Spec == Init /\ [][Next]_vars

\* The daemon and the clients are scheduled.  Nobody has to type or to leave.
FairSpec ==
    /\ Spec
    /\ WF_vars(DaemonStep)
    /\ \A c \in Clients : WF_vars(ClientStep(c))

-----------------------------------------------------------------------------

(* The answer a client shows is the answer to the command it sent last, in     *)
(* spite of reads that end anywhere and of answers that end in one newline     *)
(* more than the protocol needs (readResponse, handleClientMessage).           *)
ShowsOwnAnswer ==
    \A c \in Clients :
        client[c] = "prompt" /\ request[c].n > 0 =>
            \/ shown[c] = <<request[c]>>
            \/ shown[c] = <<>> /\ request[c].kind = "status"

(* At the prompt at most one newline is left over, never an empty line: the    *)
(* next readResponse cannot return before its answer has arrived.              *)
PromptIsClean ==
    \A c \in Clients :
        client[c] = "prompt" => outbox[c] \o down[c] \in {<<>>, <<NL>>}

(* A client that sent a command with a word in it gets an answer or learns     *)
(* that the daemon is gone.                                                    *)
AnswersArrive ==
    \A c \in Clients :
        (client[c] = "waiting" /\ request[c].kind # "blank")
            ~> client[c] # "waiting"

(* The daemon does not keep the connection of a client that has left.          *)
LeftIsRemoved ==
    \A c \in Clients :
        (client[c] = "gone" /\ conn[c] # "none")
            ~> conn[c] = "removed" \/ ~Running

(* ClientConnection.cpp, in send: "the client is gone or the socket broke" is  *)
(* a reason to give up the connection; the daemon goes on.                     *)
SurvivesClients == daemon # "killed"
=============================================================================
