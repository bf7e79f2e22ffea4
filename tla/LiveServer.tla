----------------------------- MODULE LiveServer -----------------------------
(***************************************************************************)
(* The channel through which an assistant works on the open project         *)
(* (scripting/liveserver.cpp).  Everything runs on one thread, but a step   *)
(* is one callback of its event loop: while a request asks the user or      *)
(* shows a dialog, a nested event loop runs the callbacks of the others.    *)
(***************************************************************************)
EXTENDS Naturals, Sequences, FiniteSets

CONSTANTS
    Conn,         \* connections assistants make, each once
    Trusted,      \* those that send the token of this channel
    MaxRequests,  \* bound: how many requests a connection may send
    NoConn, NoRequest

ASSUME ConstantsAssumption ==
    /\ MaxRequests \in Nat \ {0}
    /\ Trusted \subseteq Conn
    /\ NoConn \notin Conn
    /\ \A r \in [conn : Conn, n : 1 .. MaxRequests] : r # NoRequest

Request == [conn : Conn, n : 1 .. MaxRequests]

VARIABLES
    polite,    \* whether assistants send one request and wait for the answer
    asked,     \* m_asked
    listening, \* m_server is there
    state,     \* m_state
    askFirst,  \* m_ask_first
    client,    \* m_client
    busy,      \* the request handle() is working on while m_busy is set
    asking,    \* its confirm() is on the screen
    queue,     \* handle() calls queued to the event loop
    link,      \* the sockets, as this program sees them
    sent,      \* how many requests the assistant has written
    unread,    \* those not read yet
    answers,   \* history: what was sent on each connection
    ran,       \* history: the requests that were carried out
    stopped    \* history: stop() was called

server == <<asked, listening, state, askFirst>>
work == <<client, busy, asking, queue>>
sockets == <<link, sent, unread>>
vars == <<polite, server, work, sockets, answers, ran, stopped>>

Answer == [about : Request \union {NoRequest},
           says : {"done", "refused by the user", "busy", "bad token", "another assistant"}]

Links == {"idle", "pending", "up", "closing", "gone"}

TypeOK ==
    /\ polite \in BOOLEAN
    /\ asked \in BOOLEAN
    /\ listening \in BOOLEAN
    /\ askFirst \in BOOLEAN
    /\ asking \in BOOLEAN
    /\ stopped \in BOOLEAN
    /\ state \in {"Off", "Waiting", "Connected"}
    /\ client \in Conn \union {NoConn}
    /\ busy \in Request \union {NoRequest}
    /\ queue \in Seq(Request)
    /\ link \in [Conn -> Links]
    /\ sent \in [Conn -> 0 .. MaxRequests]
    /\ unread \in [Conn -> 0 .. MaxRequests]
    /\ answers \in [Conn -> SUBSET Answer]
    /\ ran \in SUBSET Request

Init ==
    /\ polite \in BOOLEAN
    /\ asked = FALSE
    /\ listening = FALSE
    /\ state = "Off"
    /\ askFirst \in BOOLEAN
    /\ client = NoConn
    /\ busy = NoRequest
    /\ asking = FALSE
    /\ queue = <<>>
    /\ link = [c \in Conn |-> "idle"]
    /\ sent = [c \in Conn |-> 0]
    /\ unread = [c \in Conn |-> 0]
    /\ answers = [c \in Conn |-> {}]
    /\ ran = {}
    /\ stopped = FALSE

-----------------------------------------------------------------------------
(* The user opens and closes the channel.                                   *)

\* askAndStart(), once per run: the user continues, or declines.
AskAndStart ==
    /\ ~asked
    /\ asked' = TRUE
    /\ \/ listening' = TRUE /\ state' = "Waiting"
       \/ UNCHANGED <<listening, state>>
    /\ UNCHANGED <<askFirst, work, sockets, answers, ran, stopped>>

\* stop(): the button is out of reach while the modal confirm() is open.
\* Connections nobody accepted yet end with the server; m_client is a
\* QPointer, cleared only when its socket is deleted.
Stop ==
    /\ listening /\ ~asking
    /\ listening' = FALSE
    /\ state' = "Off"
    /\ link' = [c \in Conn |-> IF link[c] = "pending" THEN "gone"
                             ELSE IF c = client /\ link[c] = "up" THEN "closing"
                             ELSE link[c]]
    /\ stopped' = TRUE
    /\ UNCHANGED <<asked, askFirst, work, sent, unread, answers, ran>>

\* The "ask first" box of the assistant's dock.
SetAskFirst ==
    /\ ~asking
    /\ askFirst' = ~askFirst
    /\ UNCHANGED <<asked, listening, state, work, sockets, answers, ran, stopped>>

-----------------------------------------------------------------------------
(* The assistants.                                                          *)

Connect(c) ==
    /\ listening
    /\ link[c] = "idle"
    /\ link' = [link EXCEPT ![c] = "pending"]
    /\ UNCHANGED <<server, work, sent, unread, answers, ran, stopped>>

Write(c) ==
    /\ link[c] \in {"pending", "up"}
    /\ sent[c] < IF polite THEN 1 ELSE MaxRequests
    /\ sent' = [sent EXCEPT ![c] = @ + 1]
    /\ unread' = [unread EXCEPT ![c] = @ + 1]
    /\ UNCHANGED <<server, work, link, answers, ran, stopped>>

HangUp(c) ==
    /\ ~polite
    /\ link[c] = "up"
    /\ link' = [link EXCEPT ![c] = "closing"]
    /\ UNCHANGED <<server, work, sent, unread, answers, ran, stopped>>

-----------------------------------------------------------------------------
(* The callbacks of the sockets.                                            *)

Says(about, says) == [about |-> about, says |-> says]

\* send() to m_client: lost when its socket is closing.
SentToClient(answer) ==
    IF client # NoConn /\ link[client] = "up"
    THEN [answers EXCEPT ![client] = @ \union {answer}]
    ELSE answers

\* A slip: the newest connection becomes the client.
NewConnectionReplaces(c) ==
    /\ listening
    /\ link[c] = "pending"
    /\ client' = c
    /\ link' = [link EXCEPT ![c] = "up"]
    /\ UNCHANGED <<server, busy, asking, queue, sent, unread, answers, ran, stopped>>

\* newConnection(): one assistant at a time.
NewConnection(c) ==
    /\ listening
    /\ link[c] = "pending"
    /\ IF client # NoConn
       THEN /\ answers' = [answers EXCEPT ![c] = @ \union {Says(NoRequest, "another assistant")}]
            /\ link' = [link EXCEPT ![c] = "closing"]
            /\ UNCHANGED client
       ELSE /\ client' = c
            /\ link' = [link EXCEPT ![c] = "up"]
            /\ UNCHANGED answers
    /\ UNCHANGED <<server, busy, asking, queue, sent, unread, ran, stopped>>

\* The requests in what the client has written since it was last read.
Lines(c) == [i \in 1 .. unread[c] |-> [conn |-> c, n |-> sent[c] - unread[c] + i]]

\* readClient(): each request is queued to the event loop.
ReadClient(c) ==
    /\ c = client /\ link[c] = "up" /\ unread[c] > 0
    /\ unread' = [unread EXCEPT ![c] = 0]
    /\ IF c \in Trusted
       THEN /\ queue' = queue \o Lines(c)
            /\ state' = "Connected"
            /\ UNCHANGED <<link, answers>>
       ELSE /\ answers' = SentToClient(Says(NoRequest, "bad token"))
            /\ link' = [link EXCEPT ![c] = "closing"]
            /\ UNCHANGED <<queue, state>>
    /\ UNCHANGED <<asked, listening, askFirst, client, busy, asking, sent, ran, stopped>>

\* deleteLater() of a socket that was disconnected.
Deleted(c) ==
    /\ link[c] = "closing"
    /\ link' = [link EXCEPT ![c] = "gone"]
    /\ client' = IF client = c THEN NoConn ELSE client
    /\ UNCHANGED <<server, busy, asking, queue, sent, unread, answers, ran, stopped>>

-----------------------------------------------------------------------------
(* handle(): a request is carried out.                                      *)

\* A slip: the connection is left to its other end.
ReplyKeepsOpen(answer) ==
    /\ answers' = SentToClient(answer)
    /\ UNCHANGED <<link, client>>

\* The end of handle(): the answer is sent and the connection closed.
Reply(answer) ==
    /\ answers' = SentToClient(answer)
    /\ link' = IF client # NoConn THEN [link EXCEPT ![client] = "closing"] ELSE link
    /\ client' = NoConn

\* A run_script is confirmed first unless the user turned that off.
Begin ==
    /\ queue # <<>> /\ busy = NoRequest
    /\ busy' = Head(queue)
    /\ asking' \in {FALSE, askFirst}
    /\ queue' = Tail(queue)
    /\ UNCHANGED <<server, client, sockets, answers, ran, stopped>>

RefuseBusy ==
    /\ queue # <<>> /\ busy # NoRequest
    /\ queue' = Tail(queue)
    /\ Reply(Says(Head(queue), "busy"))
    /\ UNCHANGED <<server, busy, asking, sent, unread, ran, stopped>>

\* The user's answers to confirm().
Confirm ==
    /\ asking
    /\ asking' = FALSE
    /\ askFirst' \in {askFirst, FALSE}
    /\ UNCHANGED <<asked, listening, state, client, busy, queue, sockets, answers, ran, stopped>>

\* A slip: a declined request returns early.
DeclineReturns ==
    /\ asking
    /\ asking' = FALSE
    /\ busy' = NoRequest
    /\ UNCHANGED <<server, client, queue, sockets, answers, ran, stopped>>

Decline ==
    /\ asking
    /\ asking' = FALSE
    /\ busy' = NoRequest
    /\ Reply(Says(busy, "refused by the user"))
    /\ UNCHANGED <<server, queue, sent, unread, ran, stopped>>

\* A slip: the client is kept until it hangs up by itself.
FinishKeepsClient ==
    /\ busy # NoRequest /\ ~asking
    /\ busy' = NoRequest
    /\ ran' = ran \union {busy}
    /\ answers' = SentToClient(Says(busy, "done"))
    /\ link' = IF client # NoConn THEN [link EXCEPT ![client] = "closing"] ELSE link
    /\ UNCHANGED <<server, client, asking, queue, sent, unread, stopped>>

Finish ==
    /\ busy # NoRequest /\ ~asking
    /\ busy' = NoRequest
    /\ ran' = ran \union {busy}
    /\ Reply(Says(busy, "done"))
    /\ UNCHANGED <<server, asking, queue, sent, unread, stopped>>

-----------------------------------------------------------------------------

Handling == Begin \/ RefuseBusy \/ Confirm \/ Decline \/ Finish

Step ==
    \/ AskAndStart \/ Stop \/ SetAskFirst
    \/ \E c \in Conn : Connect(c) \/ Write(c) \/ HangUp(c)
    \/ \E c \in Conn : NewConnection(c) \/ ReadClient(c) \/ Deleted(c)
    \/ Handling

Next == Step /\ UNCHANGED polite

Spec == Init /\ [][Next]_vars

\* The event loop runs, and the user answers confirm() one way or another.
Fairness ==
    /\ \A c \in Conn : /\ WF_vars(NewConnection(c) /\ UNCHANGED polite)
                       /\ WF_vars(ReadClient(c) /\ UNCHANGED polite)
                       /\ WF_vars(Deleted(c) /\ UNCHANGED polite)
    /\ WF_vars(Handling /\ UNCHANGED polite)

FairSpec == Spec /\ Fairness

-----------------------------------------------------------------------------

(* "One JSON request per connection, one JSON answer back" (the comment of  *)
(* the class): what a connection is sent is the answer to its own request.  *)
AnswersTheAsker ==
    \A c \in Conn : \A a \in answers[c] : a.about # NoRequest => a.about.conn = c

(* At most one answer is sent on a connection, so that an assistant never   *)
(* takes a second one for the answer to a later request.                    *)
OneAnswer == \A c \in Conn : Cardinality(answers[c]) <= 1

(* Who has written a request and waits is answered, whatever the user and   *)
(* the other assistants do, unless the user stops the channel.              *)
Answered == \A c \in Conn : polite /\ sent[c] > 0 ~> answers[c] # {} \/ stopped

(* A connection is turned away only while another one waits for its answer, *)
(* or did not know the token: "the second call of a quick pair was turned   *)
(* away" is not to happen.                                                  *)
TurnedAwayOnlyIfTaken ==
    [][\A c \in Conn : NewConnection(c) /\ client # NoConn /\ client \in Trusted
                          => answers[client] = {}]_vars

(* "Drop the assistant and close the channel for the rest of the session"   *)
(* (stop()): no request starts to be carried out after that.                *)
NothingBeginsAfterStop == [][Begin => ~stopped]_vars

(* With assistants that send one request per connection and wait for the    *)
(* answer, these hold together: at most one request is under way, and as    *)
(* long as the channel is open its asker is the client.                     *)
UnderWay(r) == busy = r \/ queue = <<r>>

OneUnderWay ==
    /\ queue = <<>> \/ (busy = NoRequest /\ \E r \in Request : queue = <<r>>)
    /\ \A c \in Conn : sent[c] <= 1

AskerIsClient ==
    \A r \in Request : UnderWay(r) =>
        /\ sent[r.conn] = 1 /\ unread[r.conn] = 0
        /\ \/ client = r.conn /\ link[r.conn] = "up"
           \/ ~listening /\ asked /\ client \in {NoConn, r.conn}

Settled ==
    /\ listening => asked
    /\ asking => busy # NoRequest
    /\ \A c \in Conn : unread[c] <= sent[c]
    /\ client # NoConn => link[client] \in {"up", "closing"}

Orderly == OneUnderWay /\ AskerIsClient /\ Settled /\ AnswersTheAsker

OneAsker == polite => Orderly
=============================================================================
