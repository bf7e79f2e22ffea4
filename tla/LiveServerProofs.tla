-------------------------- MODULE LiveServerProofs --------------------------
(***************************************************************************)
(* Proofs about LiveServer, for any number of assistants and requests.      *)
(***************************************************************************)
EXTENDS LiveServer, SequenceTheorems, FiniteSetTheorems, TLAPS

USE ConstantsAssumption

(* What is unread has been written: with it the numbers of the requests     *)
(* that readClient() queues are in their range.                             *)
UnreadWasSent == \A c \in Conn : unread[c] <= sent[c]

LEMMA LinesAreRequests ==
    ASSUME TypeOK, UnreadWasSent, NEW c \in Conn
    PROVE  Lines(c) \in Seq(Request)
<1> DEFINE Line(i) == [conn |-> c, n |-> sent[c] - unread[c] + i]
<1>1. unread[c] \in Nat /\ sent[c] \in Nat /\ sent[c] <= MaxRequests /\ unread[c] <= sent[c]
  BY DEF TypeOK, UnreadWasSent
<1>2. \A i \in 1 .. unread[c] : Line(i) \in Request
  BY <1>1 DEF Request
<1> HIDE DEF Line
<1>3. [i \in 1 .. unread[c] |-> Line(i)] \in Seq(Request)
  BY <1>1, <1>2, IsASeq
<1> QED
  BY <1>3 DEF Lines, Line

LEMMA OneMoreAnswer ==
    ASSUME TypeOK, NEW c \in Conn, NEW answer \in Answer
    PROVE  [answers EXCEPT ![c] = @ \union {answer}] \in [Conn -> SUBSET Answer]
<1>1. answers[c] \union {answer} \in SUBSET Answer
  BY DEF TypeOK
<1>2. answers \in [Conn -> SUBSET Answer]
  BY DEF TypeOK
<1> QED
  BY <1>1, <1>2

LEMMA SentIsTyped ==
    ASSUME TypeOK, NEW answer \in Answer
    PROVE  SentToClient(answer) \in [Conn -> SUBSET Answer]
<1>1. CASE client # NoConn /\ link[client] = "up"
  <2>1. client \in Conn
    BY <1>1 DEF TypeOK
  <2> QED
    BY <1>1, <2>1, OneMoreAnswer DEF SentToClient
<1>2. CASE ~(client # NoConn /\ link[client] = "up")
  BY <1>2 DEF SentToClient, TypeOK
<1> QED
  BY <1>1, <1>2

(* Every variable keeps its type (the members of LiveServer, liveserver.h). *)
THEOREM TypeCorrect == Spec => [](TypeOK /\ UnreadWasSent)
<1>1. Init => TypeOK /\ UnreadWasSent
  <2> SUFFICES ASSUME Init PROVE TypeOK /\ UnreadWasSent
    OBVIOUS
  <2> USE DEF Init
  <2>1. queue \in Seq(Request)
    BY EmptySeq
  <2>2. link \in [Conn -> Links]
    BY DEF Links
  <2>3. sent \in [Conn -> 0 .. MaxRequests] /\ unread \in [Conn -> 0 .. MaxRequests]
    OBVIOUS
  <2>4. answers \in [Conn -> SUBSET Answer]
    OBVIOUS
  <2>5. UnreadWasSent
    BY DEF UnreadWasSent
  <2> HIDE DEF Init
  <2>6. TypeOK
    BY <2>1, <2>2, <2>3, <2>4, Init DEF TypeOK, Init
  <2> QED
    BY <2>5, <2>6
<1>2. TypeOK /\ UnreadWasSent /\ [Next]_vars => TypeOK' /\ UnreadWasSent'
  <2> SUFFICES ASSUME TypeOK, UnreadWasSent, [Next]_vars PROVE TypeOK' /\ UnreadWasSent'
    OBVIOUS
  <2>0. polite' = polite
    BY DEF Next, vars
  <2> USE <2>0
  <2> USE DEF TypeOK, UnreadWasSent, Links, server, work, sockets
  <2>1. CASE UNCHANGED vars
    BY <2>1 DEF vars
  <2>2. CASE AskAndStart
    BY <2>2 DEF AskAndStart
  <2>3. CASE Stop
    BY <2>3 DEF Stop
  <2>4. CASE SetAskFirst
    BY <2>4 DEF SetAskFirst
  <2>5. ASSUME NEW c \in Conn, Connect(c) PROVE TypeOK' /\ UnreadWasSent'
    BY <2>5 DEF Connect
  <2>6. ASSUME NEW c \in Conn, Write(c) PROVE TypeOK' /\ UnreadWasSent'
    BY <2>6 DEF Write
  <2>7. ASSUME NEW c \in Conn, HangUp(c) PROVE TypeOK' /\ UnreadWasSent'
    BY <2>7 DEF HangUp
  <2>8. ASSUME NEW c \in Conn, NewConnection(c) PROVE TypeOK' /\ UnreadWasSent'
    <3>1. Says(NoRequest, "another assistant") \in Answer
      BY DEF Says, Answer
    <3>2. CASE client # NoConn
      <4>1. answers' \in [Conn -> SUBSET Answer]
        <5> DEFINE refusal == Says(NoRequest, "another assistant")
        <5>1. answers' = [answers EXCEPT ![c] = @ \union {refusal}]
          BY <2>8, <3>2 DEF NewConnection
        <5>2. [answers EXCEPT ![c] = @ \union {refusal}] \in [Conn -> SUBSET Answer]
          BY <3>1, OneMoreAnswer
        <5> QED
          BY <5>1, <5>2
      <4>2. UnreadWasSent'
        BY <2>8, <3>2 DEF NewConnection
      <4>3. link' \in [Conn -> Links]
        BY <2>8, <3>2 DEF NewConnection
      <4> QED
        BY <2>8, <3>2, <4>1, <4>2, <4>3 DEF NewConnection
    <3>3. CASE client = NoConn
      BY <2>8, <3>3 DEF NewConnection
    <3> QED
      BY <3>2, <3>3
  <2>9. ASSUME NEW c \in Conn, ReadClient(c) PROVE TypeOK' /\ UnreadWasSent'
    <3>1. CASE c \in Trusted
      <4>1. queue \o Lines(c) \in Seq(Request)
        BY LinesAreRequests, ConcatProperties
      <4>2. [unread EXCEPT ![c] = 0] \in [Conn -> 0 .. MaxRequests]
        OBVIOUS
      <4>3. UnreadWasSent'
        BY <2>9, <3>1 DEF ReadClient
      <4> QED
        BY <2>9, <3>1, <4>1, <4>2, <4>3 DEF ReadClient
    <3>2. CASE c \notin Trusted
      <4>1. Says(NoRequest, "bad token") \in Answer
        BY DEF Says, Answer
      <4>2. [unread EXCEPT ![c] = 0] \in [Conn -> 0 .. MaxRequests]
        OBVIOUS
      <4>3. UnreadWasSent'
        <5>1. unread' = [unread EXCEPT ![c] = 0] /\ sent' = sent
          BY <2>9, <3>2 DEF ReadClient
        <5> QED
          BY <5>1
      <4>4. answers' \in [Conn -> SUBSET Answer]
        BY <2>9, <3>2, <4>1, SentIsTyped DEF ReadClient
      <4>5. link' \in [Conn -> Links]
        BY <2>9, <3>2 DEF ReadClient
      <4> QED
        BY <2>9, <3>2, <4>2, <4>3, <4>4, <4>5 DEF ReadClient
    <3> QED
      BY <3>1, <3>2
  <2>10. ASSUME NEW c \in Conn, Deleted(c) PROVE TypeOK' /\ UnreadWasSent'
    BY <2>10 DEF Deleted
  <2>11. CASE Handling
    <3>1. queue # <<>> => Head(queue) \in Request /\ Tail(queue) \in Seq(Request)
      BY HeadTailProperties
    <3>2. ASSUME NEW answer \in Answer, Reply(answer)
          PROVE  /\ answers' \in [Conn -> SUBSET Answer]
                 /\ link' \in [Conn -> Links]
                 /\ client' \in Conn \union {NoConn}
      BY <3>2, SentIsTyped DEF Reply
    <3>3. CASE Begin
      BY <3>1, <3>3 DEF Begin
    <3>4. CASE RefuseBusy
      <4>1. Says(Head(queue), "busy") \in Answer
        BY <3>1, <3>4 DEF RefuseBusy, Says, Answer
      <4> QED
        BY <3>1, <3>2, <3>4, <4>1 DEF RefuseBusy
    <3>5. CASE Confirm
      BY <3>5 DEF Confirm
    <3>6. CASE Decline
      <4>1. Says(busy, "refused by the user") \in Answer
        BY DEF Says, Answer
      <4> QED
        BY <3>2, <3>6, <4>1 DEF Decline
    <3>7. CASE Finish
      <4>1. Says(busy, "done") \in Answer
        BY DEF Says, Answer
      <4> QED
        BY <3>2, <3>7, <4>1 DEF Finish
    <3> QED
      BY <2>11, <3>3, <3>4, <3>5, <3>6, <3>7 DEF Handling
  <2> QED
    BY <2>1, <2>2, <2>3, <2>4, <2>5, <2>6, <2>7, <2>8, <2>9, <2>10, <2>11 DEF Next, Step
<1> QED
  BY <1>1, <1>2, PTL DEF Spec

-----------------------------------------------------------------------------
(* One step of polite assistants, the user or the event loop keeps Orderly *)
(* (typed before and after it).                                             *)
LEMMA EmptyQueue == ASSUME TypeOK, OneUnderWay, busy # NoRequest PROVE queue = <<>>
  BY DEF OneUnderWay

\* An answer about the request under way goes to its asker or to nobody.
LEMMA ReplyReachesTheAsker ==
    ASSUME TypeOK, AskerIsClient, AnswersTheAsker, NEW r \in Request, UnderWay(r),
           NEW says, Reply(Says(r, says))
    PROVE  AnswersTheAsker'
<1>1. client \in {NoConn, r.conn}
  BY DEF AskerIsClient
<1>2. CASE client # NoConn /\ link[client] = "up"
  <2>1. client = r.conn /\ client \in Conn
    BY <1>1, <1>2 DEF TypeOK
  <2>2. answers' = [answers EXCEPT ![client] = @ \union {Says(r, says)}]
    BY <1>2 DEF Reply, SentToClient
  <2>3. Says(r, says).about = r
    BY DEF Says
  <2> HIDE DEF Says
  <2> SUFFICES ASSUME NEW c \in Conn, NEW a \in answers'[c], a.about # NoRequest
               PROVE  a.about.conn = c
    BY DEF AnswersTheAsker
  <2> QED
    BY <2>1, <2>2, <2>3 DEF AnswersTheAsker, TypeOK
<1>3. CASE ~(client # NoConn /\ link[client] = "up")
  BY <1>3 DEF Reply, SentToClient, AnswersTheAsker
<1> QED
  BY <1>2, <1>3

\* The end of handle(), after which no request is under way.
LEMMA ReplyKeepsOrder ==
    ASSUME TypeOK, Orderly, busy # NoRequest, busy' = NoRequest, NEW says,
           Reply(Says(busy, says)), ~asking', UNCHANGED <<asked, listening, queue, sent, unread>>
    PROVE  Orderly'
<1>1. busy \in Request /\ UnderWay(busy)
  BY DEF TypeOK, UnderWay
<1>2. AnswersTheAsker'
  BY <1>1, ReplyReachesTheAsker DEF Orderly
<1>3. queue' = <<>>
  BY EmptyQueue DEF Orderly
<1>4. \A r \in Request : ~UnderWay(r)'
  BY <1>3 DEF UnderWay, Request
<1>5. Settled'
  BY DEF Reply, Orderly, Settled
<1> QED
  BY <1>2, <1>3, <1>4, <1>5 DEF Orderly, OneUnderWay, AskerIsClient

LEMMA StepKeepsOrder ==
    ASSUME polite, TypeOK, TypeOK', Orderly, [Next]_vars
    PROVE  Orderly'
<1> USE DEF Orderly, OneUnderWay, AskerIsClient, Settled, AnswersTheAsker, UnderWay,
            server, work, sockets
<1>1. CASE UNCHANGED vars
  BY <1>1 DEF vars
<1>2. CASE AskAndStart
  BY <1>2 DEF AskAndStart
<1>3. CASE Stop
  BY <1>3 DEF Stop, TypeOK
<1>4. CASE SetAskFirst
  BY <1>4 DEF SetAskFirst
<1>5. ASSUME NEW c \in Conn, Connect(c) PROVE Orderly'
  BY <1>5 DEF Connect, TypeOK
<1>6. ASSUME NEW c \in Conn, Write(c) PROVE Orderly'
  BY <1>6 DEF Write, TypeOK, Request
<1>7. ASSUME NEW c \in Conn, HangUp(c) PROVE Orderly'
  BY <1>7 DEF HangUp
<1>8. ASSUME NEW c \in Conn, NewConnection(c) PROVE Orderly'
  <2>1. CASE client # NoConn
    <3> DEFINE refusal == Says(NoRequest, "another assistant")
    <3>1. answers' = [answers EXCEPT ![c] = @ \union {refusal}] /\ refusal.about = NoRequest
      BY <1>8, <2>1 DEF NewConnection, Says
    <3> HIDE DEF refusal
    <3>2. AnswersTheAsker'
      BY <3>1 DEF TypeOK
    <3>3. /\ link' = [link EXCEPT ![c] = "closing"] /\ link[c] = "pending"
          /\ UNCHANGED <<asked, listening, client, busy, asking, queue, sent, unread>>
      BY <1>8, <2>1 DEF NewConnection
    <3>4. OneUnderWay' /\ AskerIsClient' /\ Settled'
      BY <3>3 DEF TypeOK
    <3> QED
      BY <3>2, <3>4
  <2>2. CASE client = NoConn
    <3>1. /\ link' = [link EXCEPT ![c] = "up"] /\ client' = c /\ listening
          /\ UNCHANGED <<asked, listening, busy, asking, queue, sent, unread, answers>>
      BY <1>8, <2>2 DEF NewConnection
    <3>2. \A r \in Request : ~UnderWay(r)
      BY <2>2, <3>1 DEF Request
    <3>3. OneUnderWay' /\ Settled' /\ AnswersTheAsker'
      BY <3>1 DEF TypeOK
    <3>4. AskerIsClient'
      BY <3>1, <3>2
    <3> QED
      BY <3>3, <3>4
  <2> QED
    BY <2>1, <2>2
<1>9. ASSUME NEW c \in Conn, ReadClient(c) PROVE Orderly'
  <2>1. c = client /\ link[c] = "up" /\ unread' = [unread EXCEPT ![c] = 0]
    BY <1>9 DEF ReadClient
  <2>0. unread[c] = 1 /\ sent[c] = 1
    <3>1. unread[c] \in 0 .. 1 /\ sent[c] \in 0 .. 1
      BY DEF TypeOK
    <3>2. unread[c] > 0 /\ unread[c] <= sent[c]
      BY <1>9 DEF ReadClient
    <3> QED
      BY <3>1, <3>2
  <2>2. \A r \in Request : ~UnderWay(r)
    BY <2>0, <2>1 DEF Request
  <2>3. queue = <<>>
    BY <2>2
  <2>4. busy = NoRequest
    BY <2>2 DEF TypeOK
  <2>5. CASE c \in Trusted
    <3> DEFINE r0 == [conn |-> c, n |-> 1]
    <3>1. r0 \in Request /\ r0.conn = c
      BY DEF Request
    <3>2. Lines(c) = <<r0>>
      BY <2>0, <2>1 DEF Lines
    <3>3. queue' = <<r0>>
      BY <1>9, <2>3, <2>5, <3>1, <3>2 DEF ReadClient
    <3>4. UNCHANGED <<asked, listening, client, busy, asking, sent, link, answers>>
      BY <1>9, <2>5 DEF ReadClient
    <3> HIDE DEF r0
    <3>5. \A r \in Request : UnderWay(r)' => r = r0
      BY <3>3, <3>4, <2>4 DEF Request
    <3>6. AskerIsClient'
      BY <3>1, <3>4, <3>5, <2>0, <2>1 DEF TypeOK
    <3>7. OneUnderWay' /\ Settled' /\ AnswersTheAsker'
      BY <2>0, <2>1, <2>4, <3>1, <3>3, <3>4 DEF TypeOK
    <3> QED
      BY <3>6, <3>7
  <2>6. CASE c \notin Trusted
    <3> DEFINE refusal == Says(NoRequest, "bad token")
    <3>1. answers' = [answers EXCEPT ![c] = @ \union {refusal}] /\ refusal.about = NoRequest
      BY <1>9, <2>1, <2>6 DEF ReadClient, SentToClient, Says
    <3> HIDE DEF refusal
    <3>2. AnswersTheAsker'
      BY <3>1 DEF TypeOK
    <3>3. link' = [link EXCEPT ![c] = "closing"] /\ UNCHANGED <<asked, listening, client, busy, asking, sent, queue>>
      BY <1>9, <2>6 DEF ReadClient
    <3>4. OneUnderWay' /\ AskerIsClient' /\ Settled'
      BY <2>0, <2>1, <2>2, <3>3 DEF TypeOK
    <3> QED
      BY <3>2, <3>4
  <2> QED
    BY <2>5, <2>6
<1>10. ASSUME NEW c \in Conn, Deleted(c) PROVE Orderly'
  BY <1>10 DEF Deleted, TypeOK
<1>11. CASE Begin
  <2>1. PICK r \in Request : queue = <<r>>
    BY <1>11 DEF Begin
  <2>2. busy' = r /\ queue' = <<>> /\ busy = NoRequest
    BY <1>11, <2>1 DEF Begin, OneUnderWay
  <2>3. \A q \in Request : UnderWay(q)' => UnderWay(q)
    BY <2>1, <2>2
  <2>4. UNCHANGED <<asked, listening, client, sent, unread, link, answers>>
    BY <1>11 DEF Begin
  <2>5. r # NoRequest
    BY DEF Request
  <2> QED
    BY <2>2, <2>3, <2>4, <2>5
<1>12. CASE RefuseBusy
  BY <1>12 DEF RefuseBusy
<1>13. CASE Confirm
  BY <1>13 DEF Confirm
<1>14. CASE Decline
  BY <1>14, ReplyKeepsOrder DEF Decline
<1>15. CASE Finish
  BY <1>15, ReplyKeepsOrder DEF Finish
<1> QED
  BY <1>1, <1>2, <1>3, <1>4, <1>5, <1>6, <1>7, <1>8, <1>9, <1>10, <1>11, <1>12, <1>13,
     <1>14, <1>15 DEF Next, Step, Handling

(* "One JSON request per connection, one JSON answer back" (the comment of  *)
(* LiveServer): with assistants that send one request per connection and    *)
(* wait for its answer, whoever is sent an answer asked for it, whatever    *)
(* the user does, and one request at most is under way.                     *)
THEOREM TheAskerIsAnswered == Spec => []OneAsker
<1>1. Init => OneAsker
  <2> SUFFICES ASSUME Init PROVE Orderly
    BY DEF OneAsker
  <2>1. \A r \in Request : ~UnderWay(r)
    BY DEF Init, UnderWay, Request
  <2>2. AnswersTheAsker /\ Settled /\ OneUnderWay
    BY DEF Init, AnswersTheAsker, Settled, OneUnderWay
  <2> QED
    BY <2>1, <2>2 DEF Orderly, AskerIsClient
<1>2. TypeOK /\ TypeOK' /\ OneAsker /\ [Next]_vars => OneAsker'
  <2>1. [Next]_vars => polite' = polite
    BY DEF Next, vars
  <2> QED
    BY <2>1, StepKeepsOrder DEF OneAsker
<1> QED
  BY <1>1, <1>2, TypeCorrect, PTL DEF Spec

-----------------------------------------------------------------------------
(* Whatever the assistants do: what is answered is closed in the same step, *)
(* and a closed connection is sent nothing.                                 *)
Closed(c) == link[c] \in {"closing", "gone"}

AnsweredOnce ==
    \A c \in Conn : answers[c] = {} \/ (Closed(c) /\ \E a \in Answer : answers[c] = {a})

\* What a step may do to a connection: leave its answers and not open it
\* again, or answer it while it is open and close it.
Left(c) == answers'[c] = answers[c] /\ (Closed(c) => Closed(c)')
AnsweredNow(c) ==
    ~Closed(c) /\ Closed(c)' /\ \E a \in Answer : answers'[c] = answers[c] \union {a}

LEMMA ReplyAnswersOnce ==
    ASSUME TypeOK, NEW answer \in Answer, Reply(answer), NEW c \in Conn
    PROVE  Left(c) \/ AnsweredNow(c)
<1> USE DEF Reply, SentToClient, Left, AnsweredNow, Closed, TypeOK
<1>1. CASE client = NoConn
  BY <1>1
<1>2. CASE client # NoConn /\ link[client] # "up"
  BY <1>2
<1>3. CASE client # NoConn /\ link[client] = "up"
  BY <1>3
<1> QED
  BY <1>1, <1>2, <1>3

LEMMA StepAnswersOnce ==
    ASSUME TypeOK, [Next]_vars, NEW c \in Conn
    PROVE  Left(c) \/ AnsweredNow(c)
<1> DEFINE Fine == Left(c) \/ AnsweredNow(c)
<1> USE DEF Left, Closed, TypeOK, server, work, sockets
<1>1. CASE UNCHANGED vars
  BY <1>1 DEF vars
<1>2. CASE AskAndStart \/ SetAskFirst \/ Begin \/ Confirm
  BY <1>2 DEF AskAndStart, SetAskFirst, Begin, Confirm
<1>3. CASE Stop
  BY <1>3 DEF Stop
<1>4. ASSUME NEW d \in Conn, Connect(d) \/ Write(d) \/ HangUp(d) \/ Deleted(d) PROVE Fine
  BY <1>4 DEF Connect, Write, HangUp, Deleted
<1>5. ASSUME NEW d \in Conn, NewConnection(d) PROVE Fine
  <2>1. Says(NoRequest, "another assistant") \in Answer
    BY DEF Says, Answer
  <2> QED
    BY <1>5, <2>1 DEF NewConnection, AnsweredNow
<1>6. ASSUME NEW d \in Conn, ReadClient(d) PROVE Fine
  <2>1. Says(NoRequest, "bad token") \in Answer
    BY DEF Says, Answer
  <2> QED
    BY <1>6, <2>1 DEF ReadClient, SentToClient, AnsweredNow
<1>7. CASE RefuseBusy
  <2>1. Says(Head(queue), "busy") \in Answer
    BY <1>7, HeadTailProperties DEF RefuseBusy, Says, Answer
  <2> QED
    BY <1>7, <2>1, ReplyAnswersOnce DEF RefuseBusy
<1>8. CASE Decline
  <2>1. Says(busy, "refused by the user") \in Answer
    BY DEF Says, Answer
  <2> QED
    BY <1>8, <2>1, ReplyAnswersOnce DEF Decline
<1>9. CASE Finish
  <2>1. Says(busy, "done") \in Answer
    BY DEF Says, Answer
  <2> QED
    BY <1>9, <2>1, ReplyAnswersOnce DEF Finish
<1> QED
  BY <1>1, <1>2, <1>3, <1>4, <1>5, <1>6, <1>7, <1>8, <1>9 DEF Next, Step, Handling

LEMMA AnsweredOnceStep == TypeOK /\ AnsweredOnce /\ [Next]_vars => AnsweredOnce'
<1> SUFFICES ASSUME TypeOK, AnsweredOnce, [Next]_vars, NEW c \in Conn
             PROVE  answers'[c] = {} \/ (Closed(c)' /\ \E a \in Answer : answers'[c] = {a})
  BY DEF AnsweredOnce, Closed, Answer, Request
<1>1. CASE Left(c)
  BY <1>1 DEF Left, AnsweredOnce
<1>2. CASE AnsweredNow(c)
  BY <1>2 DEF AnsweredNow, AnsweredOnce
<1> QED
  BY <1>1, <1>2, StepAnswersOnce

(* "One JSON answer back" (the comment of LiveServer), for any number of    *)
(* assistants, whether they wait, hang up or write on: a connection is      *)
(* never sent a second answer.                                              *)
THEOREM AtMostOneAnswer == Spec => []OneAnswer
<1>1. Init => AnsweredOnce
  BY DEF Init, AnsweredOnce
<1>2. TypeOK /\ AnsweredOnce /\ [Next]_vars => AnsweredOnce'
  BY AnsweredOnceStep
<1>3. AnsweredOnce => OneAnswer
  <2> SUFFICES ASSUME AnsweredOnce, NEW c \in Conn PROVE Cardinality(answers[c]) <= 1
    BY DEF OneAnswer
  <2>1. CASE answers[c] = {}
    BY <2>1, FS_EmptySet
  <2>2. ASSUME NEW a, answers[c] = {a} PROVE Cardinality(answers[c]) <= 1
    <3>1. Cardinality({a}) = 1
      BY FS_Singleton
    <3> QED
      BY <2>2, <3>1
  <2> QED
    BY <2>1, <2>2 DEF AnsweredOnce
<1> QED
  BY <1>1, <1>2, <1>3, TypeCorrect, PTL DEF Spec

-----------------------------------------------------------------------------
(* The client is a connection that was accepted and is not yet deleted; if  *)
(* it knew the token it was not answered, as the answer lets go of it.      *)
ClientWaits ==
    client # NoConn =>
        /\ link[client] \in {"up", "closing"}
        /\ client \in Trusted => answers[client] = {}

LEMMA StepKeepsClient ==
    ASSUME TypeOK, AnsweredOnce, ClientWaits, [Next]_vars
    PROVE  ClientWaits'
<1> USE DEF ClientWaits, TypeOK, server, work, sockets
<1>1. CASE UNCHANGED vars
  BY <1>1 DEF vars
<1>2. CASE AskAndStart \/ SetAskFirst \/ Begin \/ Confirm
  BY <1>2 DEF AskAndStart, SetAskFirst, Begin, Confirm
<1>3. CASE Stop
  BY <1>3 DEF Stop
<1>4. ASSUME NEW c \in Conn, Connect(c) \/ Write(c) \/ HangUp(c) \/ Deleted(c) PROVE ClientWaits'
  BY <1>4 DEF Connect, Write, HangUp, Deleted
<1>5. ASSUME NEW c \in Conn, NewConnection(c) PROVE ClientWaits'
  <2>1. CASE client # NoConn
    <3>1. c # client /\ client' = client
      BY <1>5, <2>1 DEF NewConnection
    <3>2. link'[client] = link[client] /\ answers'[client] = answers[client]
      BY <1>5, <2>1, <3>1 DEF NewConnection
    <3> QED
      BY <2>1, <3>1, <3>2
  <2>2. CASE client = NoConn
    BY <1>5, <2>2 DEF NewConnection, AnsweredOnce, Closed
  <2> QED
    BY <2>1, <2>2
<1>6. ASSUME NEW c \in Conn, ReadClient(c) PROVE ClientWaits'
  BY <1>6 DEF ReadClient
<1>7. CASE RefuseBusy \/ Decline \/ Finish
  BY <1>7 DEF RefuseBusy, Decline, Finish, Reply
<1> QED
  BY <1>1, <1>2, <1>3, <1>4, <1>5, <1>6, <1>7 DEF Next, Step, Handling

(* "The second call of a quick pair was turned away" (newConnection()) does *)
(* not happen, for any number of assistants, whether they wait, hang up or  *)
(* write on: who is turned away meets one that is still to be answered, or  *)
(* one that did not know the token.                                         *)
THEOREM NotTurnedAwayForNothing == Spec => TurnedAwayOnlyIfTaken
<1>1. Init => AnsweredOnce /\ ClientWaits
  BY DEF Init, AnsweredOnce, ClientWaits
<1>2. TypeOK /\ AnsweredOnce /\ ClientWaits /\ [Next]_vars => AnsweredOnce' /\ ClientWaits'
  BY AnsweredOnceStep, StepKeepsClient
<1>3. ClientWaits /\ [Next]_vars
      => [\A c \in Conn : NewConnection(c) /\ client # NoConn /\ client \in Trusted
              => answers[client] = {}]_vars
  BY DEF ClientWaits
<1> QED
  BY <1>1, <1>2, <1>3, TypeCorrect, PTL DEF Spec, TurnedAwayOnlyIfTaken
=============================================================================
