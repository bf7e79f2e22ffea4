------------------------- MODULE ProjectLockProofs -------------------------
(***************************************************************************)
(* Proofs about the lock file of a project, for any number of sessions,     *)
(* machines and paths: the type invariant, what a session may be doing at   *)
(* each step (Control), and that exclusion is lost only by a replacement.   *)
(***************************************************************************)
EXTENDS ProjectLock, TLAPS

\* The steps of acquire() and of createExclusive().
Acquiring == {"create", "write", "undo", "readBack", "check", "look", "judge", "remove"}

\* Where in its code a session can be, and what it believes there.
Control ==
    \A s \in Session :
        /\ pc[s] \in {"idle", "closed", "crashed"} => op[s] = "none"
        /\ pc[s] \in {"closed", "crashed"} => ~held[s]
        /\ pc[s] \in {"readOwn", "removeOwn"} => op[s] \in {"moveTo", "release"}
        /\ pc[s] \in {"refreshRead", "truncate", "rewrite"} => op[s] = "refresh"
        /\ pc[s] \in Acquiring => op[s] \in {"open", "openAnyway", "moveTo", "refresh"}
        /\ pc[s] \in Acquiring \ {"create", "write", "undo"} => op[s] # "refresh"
        /\ pc[s] \in Acquiring /\ op[s] # "refresh" => ~held[s]
        /\ op[s] = "refresh" => held[s] /\ target[s] = path[s]
        /\ op[s] = "moveTo" /\ pc[s] \in Acquiring => path[s] = old[s] /\ target[s] # old[s]
        /\ op[s] = "moveTo" /\ pc[s] \notin Acquiring => path[s] # old[s]
        /\ op[s] = "release" => ~held[s]

\* The session has made the lock file of p and has not let it go: it holds the
\* lock, is about to, is moving away from p, or is about to remove the file.
Owns(s, p) ==
    \/ Holds(s, p)
    \/ pc[s] \in {"write", "undo", "readBack"} /\ op[s] # "refresh" /\ target[s] = p
    \/ op[s] = "moveTo" /\ old[s] = p
    \/ pc[s] \in {"readOwn", "removeOwn"} /\ OwnPath(s) = p

\* While nothing was replaced, the file of p is there and its owner made it.
OwnerMadeIt ==
    \A p \in Path : \A s \in Session :
        Owns(s, p) /\ ~replaced[p] => Exists(p) /\ lock[p].maker = s

\* A heartbeat makes the file anew only where it was lost.
AnewWhereLost ==
    \A s \in Session :
        op[s] = "refresh" /\ pc[s] \in {"create", "write", "undo"} /\ path[s] \in Path
            => replaced[path[s]]

IInv == TypeOK /\ Control /\ OwnerMadeIt /\ AnewWhereLost

-----------------------------------------------------------------------------
USE DEF At, Goto, call

\* Every variable keeps its type, whatever the sessions, machines and paths.
THEOREM TypeCorrect == Spec => []TypeOK
<1>1. Init => TypeOK
  BY DEF Init, TypeOK, Labels, Operations, Attempts
<1>2. TypeOK /\ [Next]_vars => TypeOK'
  <2> SUFFICES ASSUME TypeOK, [Next]_vars PROVE TypeOK'
    OBVIOUS
  <2> USE DEF TypeOK
  <2>a. \A s \in Session : Fresh(s) \in File
    BY DEF Fresh, File
  <2>b. ASSUME NEW s \in Session, NEW p, NEW text \in Session \union {Blank}
        PROVE  Written(s, p, text) \in [Path -> File \union {NoFile}]
    BY DEF Written, Exists, File
  <2>c. \A p : Exists(p) => [lock EXCEPT ![p].stuck = TRUE] \in [Path -> File \union {NoFile}]
    BY DEF Exists, File
  <2>1. ASSUME NEW s \in Session, Return(s) PROVE
          /\ pc' \in [Session -> Labels]
          /\ op' \in [Session -> Operations]
          /\ target' \in [Session -> Path \union {NoPath}]
          /\ old' \in [Session -> Path \union {NoPath}]
          /\ tries' \in [Session -> 0 .. Attempts - 1]
    BY <2>1 DEF Return, Labels, Operations, Attempts
  <2>2. ASSUME NEW s \in Session, NEW b \in Path \union {NoPath}, GiveUp(s, b) PROVE
          /\ pc' \in [Session -> Labels]
          /\ op' \in [Session -> Operations]
          /\ target' \in [Session -> Path \union {NoPath}]
          /\ old' \in [Session -> Path \union {NoPath}]
          /\ tries' \in [Session -> 0 .. Attempts - 1]
          /\ held' \in [Session -> BOOLEAN]
          /\ path' \in [Session -> Path \union {NoPath}]
          /\ blocking' \in [Session -> Path \union {NoPath}]
    <3>1. Return(s)
      BY <2>2 DEF GiveUp
    <3>2. (op[s] = "moveTo") \in BOOLEAN
      OBVIOUS
    <3>3. held' \in [Session -> BOOLEAN]
      BY <2>2, <3>2, Zenon DEF GiveUp
    <3> QED
      BY <2>1, <2>2, <3>1, <3>3 DEF GiveUp
  <2>3. ASSUME NEW s \in Session, Retry(s) PROVE
          /\ pc' \in [Session -> Labels]
          /\ op' \in [Session -> Operations]
          /\ target' \in [Session -> Path \union {NoPath}]
          /\ old' \in [Session -> Path \union {NoPath}]
          /\ tries' \in [Session -> 0 .. Attempts - 1]
          /\ held' \in [Session -> BOOLEAN]
          /\ path' \in [Session -> Path \union {NoPath}]
          /\ blocking' \in [Session -> Path \union {NoPath}]
    BY <2>2, <2>3 DEF Retry, Unavailable, Labels, Attempts
  <2>4. ASSUME NEW s \in Session, NEW how \in {"closed", "crashed"}, Gone(s, how) PROVE
          /\ pc' \in [Session -> Labels]
          /\ op' \in [Session -> Operations]
          /\ target' \in [Session -> Path \union {NoPath}]
          /\ old' \in [Session -> Path \union {NoPath}]
          /\ tries' \in [Session -> 0 .. Attempts - 1]
          /\ held' \in [Session -> BOOLEAN]
          /\ path' \in [Session -> Path \union {NoPath}]
          /\ blocking' \in [Session -> Path \union {NoPath}]
    BY <2>4 DEF Gone, Labels, Operations, Attempts
  <2>5. ASSUME NEW s \in Session, NEW o \in {"open", "openAnyway", "moveTo"},
               NEW p \in Path \union {NoPath}, Start(s, o, p) PROVE
          /\ pc' \in [Session -> Labels]
          /\ op' \in [Session -> Operations]
          /\ target' \in [Session -> Path \union {NoPath}]
          /\ tries' \in [Session -> 0 .. Attempts - 1]
          /\ blocking' \in [Session -> Path \union {NoPath}]
          /\ UNCHANGED <<lock, path, replaced>>
    BY <2>5 DEF Start, Labels, Operations, Attempts
  <2>6. ASSUME NEW s \in Session, OwnDone(s) PROVE
          /\ pc' \in [Session -> Labels]
          /\ op' \in [Session -> Operations]
          /\ target' \in [Session -> Path \union {NoPath}]
          /\ old' \in [Session -> Path \union {NoPath}]
          /\ tries' \in [Session -> 0 .. Attempts - 1]
          /\ held' \in [Session -> BOOLEAN]
          /\ path' \in [Session -> Path \union {NoPath}]
          /\ blocking' \in [Session -> Path \union {NoPath}]
    BY <2>1, <2>4, <2>6 DEF OwnDone
  <2>7. CASE UNCHANGED vars
    BY <2>7 DEF vars
  <2>8. ASSUME NEW s \in Session, Step(s) PROVE TypeOK'
    <3>1. CASE Create(s)
      BY <3>1, <2>1, <2>a DEF Create, Labels
    <3>2. CASE Write(s)
      BY <3>2, <2>1, <2>b DEF Write, Labels
    <3>3. CASE WriteFails(s)
      BY <3>3, <2>b DEF WriteFails, Labels
    <3>4. CASE Undo(s)
      BY <3>4, <2>1 DEF Undo, Labels
    <3>5. CASE ReadBack(s)
      BY <3>5, <2>1, <2>3 DEF ReadBack, Labels
    <3>6. CASE Check(s)
      BY <3>6, <2>2, <2>3 DEF Check, Unavailable, Labels
    <3>7. CASE Look(s)
      BY <3>7 DEF Look, Labels
    <3>8. CASE Judge(s)
      BY <3>8, <2>2 DEF Judge, Held, Labels
    <3>9. CASE Remove(s)
      <4>1. CASE UNCHANGED <<lock, replaced>>
        BY <3>9, <4>1, <2>2, <2>3 DEF Remove, Unavailable
      <4>2. CASE replaced' = [replaced EXCEPT ![target[s]] = @ \/ Exists(target[s])]
        <5>1. (replaced[target[s]] \/ Exists(target[s])) \in BOOLEAN
          OBVIOUS
        <5>2. replaced' \in [Path -> BOOLEAN]
          BY <4>2, <5>1, Zenon
        <5>3. lock' \in [Path -> File \union {NoFile}]
          BY <3>9 DEF Remove
        <5> QED
          BY <3>9, <5>2, <5>3, <2>2, <2>3 DEF Remove, Unavailable
      <4> QED
        BY <3>9, <4>1, <4>2 DEF Remove
    <3>10. CASE ReadOwn(s)
      BY <3>10, <2>6 DEF ReadOwn, Labels
    <3>11. CASE RemoveOwn(s)
      <4>1. lock' \in [Path -> File \union {NoFile}]
        BY <3>11, <2>c DEF RemoveOwn, Names
      <4> QED
        BY <3>11, <4>1, <2>6 DEF RemoveOwn
    <3>12. CASE RefreshRead(s)
      BY <3>12, <2>1 DEF RefreshRead, Labels
    <3>13. CASE Truncate(s)
      <4>1. lock' \in [Path -> File \union {NoFile}]
        BY <3>13, <2>a DEF Truncate, Exists, File
      <4> QED
        BY <3>13, <4>1 DEF Truncate, Labels
    <3>16. CASE TruncateFails(s)
      BY <3>16, <2>1 DEF TruncateFails
    <3>14. CASE Rewrite(s)
      BY <3>14, <2>1, <2>b DEF Rewrite
    <3>15. CASE RewriteFails(s)
      BY <3>15, <2>1, <2>b DEF RewriteFails
    <3> QED
      BY <2>8, <3>1, <3>2, <3>3, <3>4, <3>5, <3>6, <3>7, <3>8, <3>9, <3>10,
         <3>11, <3>12, <3>13, <3>14, <3>15, <3>16 DEF Step
  <2>9. ASSUME NEW s \in Session, NEW p \in Path, Open(s, p) PROVE TypeOK'
    BY <2>9, <2>5 DEF Open
  <2>10. ASSUME NEW s \in Session, NEW p \in Path, MoveTo(s, p) PROVE TypeOK'
    BY <2>10, <2>5 DEF MoveTo
  <2>11. ASSUME NEW s \in Session, OpenAnyway(s) PROVE TypeOK'
    BY <2>11, <2>5 DEF OpenAnyway
  <2>12. ASSUME NEW s \in Session, Refresh(s) PROVE TypeOK'
    BY <2>12 DEF Refresh, Labels, Operations
  <2>13. ASSUME NEW s \in Session, Release(s) PROVE TypeOK'
    BY <2>13 DEF Release, Labels, Operations
  <2>14. ASSUME NEW s \in Session, Close(s) PROVE TypeOK'
    BY <2>14, <2>4 DEF Close
  <2>15. ASSUME NEW s \in Session, Crash(s) PROVE TypeOK'
    <3>1. lock' \in [Path -> File \union {NoFile}]
      BY <2>15 DEF Crash, Exists, File
    <3> QED
      BY <2>15, <2>4, <3>1 DEF Crash
  <2>16. ASSUME NEW p \in Path, Age(p) PROVE TypeOK'
    <3>1. lock[p] \in File /\ [lock[p] EXCEPT !.old = TRUE] \in File
      BY <2>16 DEF Age, Exists, File
    <3>2. lock' \in [Path -> File \union {NoFile}]
      BY <2>16, <3>1 DEF Age
    <3> QED
      BY <2>16, <3>2 DEF Age
  <2>17. ASSUME NEW p \in Path, Drop(p) PROVE TypeOK'
    BY <2>17 DEF Drop
  <2> QED
    BY <2>7, <2>8, <2>9, <2>10, <2>11, <2>12, <2>13, <2>14, <2>15, <2>16, <2>17
    DEF Next
<1> QED
  BY <1>1, <1>2, PTL DEF Spec


-----------------------------------------------------------------------------
\* A step keeps Control: each action only moves its own session, and the label
\* it moves to allows what the action leaves.
LEMMA ControlStep == TypeOK /\ Control /\ [Next]_vars => Control'
<1> SUFFICES ASSUME TypeOK, Control, [Next]_vars PROVE Control'
  OBVIOUS
<1> USE DEF TypeOK, Control, Acquiring
<1>1. CASE UNCHANGED vars
  BY <1>1 DEF vars
<1>2. ASSUME NEW s \in Session, Step(s) PROVE Control'
  <2>1. CASE Create(s)
    BY <2>1 DEF Create, Return
  <2>2. CASE Write(s)
    BY <2>2 DEF Write, Return
  <2>3. CASE WriteFails(s)
    BY <2>3 DEF WriteFails
  <2>4. CASE Undo(s)
    BY <2>4 DEF Undo, Return
  <2>5. CASE ReadBack(s)
    BY <2>5 DEF ReadBack, Return, Retry, Unavailable, GiveUp
  <2>6. CASE Check(s)
    BY <2>6 DEF Check, Return, Retry, Unavailable, GiveUp
  <2>7. CASE Look(s)
    BY <2>7 DEF Look
  <2>8. CASE Judge(s)
    BY <2>8 DEF Judge, Held, GiveUp, Return
  <2>9. CASE Remove(s)
    BY <2>9 DEF Remove, Return, Retry, Unavailable, GiveUp
  <2>10. CASE ReadOwn(s)
    BY <2>10 DEF ReadOwn, OwnDone, Return, Gone
  <2>11. CASE RemoveOwn(s)
    BY <2>11 DEF RemoveOwn, OwnDone, Return, Gone
  <2>12. CASE RefreshRead(s)
    BY <2>12 DEF RefreshRead, Return
  <2>13. CASE Truncate(s)
    BY <2>13 DEF Truncate
  <2>16. CASE TruncateFails(s)
    BY <2>16 DEF TruncateFails, Return
  <2>14. CASE Rewrite(s)
    BY <2>14 DEF Rewrite, Return
  <2>15. CASE RewriteFails(s)
    BY <2>15 DEF RewriteFails, Return
  <2> QED
    BY <1>2, <2>1, <2>2, <2>3, <2>4, <2>5, <2>6, <2>7, <2>8, <2>9, <2>10,
       <2>11, <2>12, <2>13, <2>14, <2>15, <2>16 DEF Step
<1>3. ASSUME NEW s \in Session, NEW p \in Path, Open(s, p) PROVE Control'
  BY <1>3 DEF Open, Start
<1>4. ASSUME NEW s \in Session, NEW p \in Path, MoveTo(s, p) PROVE Control'
  BY <1>4 DEF MoveTo, Start
<1>5. ASSUME NEW s \in Session, OpenAnyway(s) PROVE Control'
  BY <1>5 DEF OpenAnyway, Start
<1>6. ASSUME NEW s \in Session, Refresh(s) PROVE Control'
  BY <1>6 DEF Refresh
<1>7. ASSUME NEW s \in Session, Release(s) PROVE Control'
  BY <1>7 DEF Release
<1>8. ASSUME NEW s \in Session, Close(s) PROVE Control'
  BY <1>8 DEF Close, Gone
<1>9. ASSUME NEW s \in Session, Crash(s) PROVE Control'
  BY <1>9 DEF Crash, Gone
<1>10. ASSUME NEW p \in Path, Age(p) PROVE Control'
  BY <1>10 DEF Age
<1>11. ASSUME NEW p \in Path, Drop(p) PROVE Control'
  BY <1>11 DEF Drop
<1> QED
  BY <1>1, <1>2, <1>3, <1>4, <1>5, <1>6, <1>7, <1>8, <1>9, <1>10, <1>11 DEF Next


-----------------------------------------------------------------------------
\* A file just made is a file, and its maker's.
LEMMA FreshFile == \A s \in Session : Fresh(s) # NoFile /\ Fresh(s).maker = s
<1> TAKE s \in Session
<1>1. Fresh(s) \in File
  BY DEF Fresh, File
<1>2. Fresh(s) # NoFile
  BY <1>1, ConstantsAssumption
<1>3. Fresh(s).maker = s
  BY DEF Fresh
<1> QED
  BY <1>2, <1>3

\* Truncating, losing a writer or ageing leave a file a file, and its maker.
LEMMA SameMaker ==
  ASSUME TypeOK, NEW q \in Path, Exists(q)
  PROVE  /\ \A s \in Session :
               LET f == [text |-> Blank, old |-> FALSE,
                         writers |-> lock[q].writers \union {s},
                         maker |-> lock[q].maker, stuck |-> FALSE]
               IN  f # NoFile /\ f.maker = lock[q].maker
         /\ \A s \in Session :
               LET f == [lock[q] EXCEPT !.writers = @ \ {s}]
               IN  f # NoFile /\ f.maker = lock[q].maker
         /\ LET f == [lock[q] EXCEPT !.old = TRUE]
            IN  f # NoFile /\ f.maker = lock[q].maker
<1>1. NoFile \notin File /\ lock[q] \in File
  BY ConstantsAssumption DEF TypeOK, Exists
<1>2. \A s \in Session :
        /\ [text |-> Blank, old |-> FALSE,
            writers |-> lock[q].writers \union {s},
            maker |-> lock[q].maker, stuck |-> FALSE] \in File
        /\ [lock[q] EXCEPT !.writers = @ \ {s}] \in File
        /\ [lock[q] EXCEPT !.writers = @ \ {s}].maker = lock[q].maker
  BY <1>1 DEF File
<1>3. [lock[q] EXCEPT !.old = TRUE] \in File /\ [lock[q] EXCEPT !.old = TRUE].maker = lock[q].maker
  BY <1>1 DEF File
<1> QED
  BY <1>1, <1>2, <1>3

\* So does writing: it reaches the file that is there, or none.
LEMMA WrittenSameMaker ==
  ASSUME TypeOK, NEW s \in Session, NEW p, NEW text \in Session \union {Blank},
         lock' = Written(s, p, text)
  PROVE  \A q \in Path : Exists(q) => lock'[q] # NoFile /\ lock'[q].maker = lock[q].maker
<1> DEFINE f == [text |-> text, old |-> lock[p].old, writers |-> lock[p].writers \ {s},
                 maker |-> lock[p].maker, stuck |-> FALSE]
<1> SUFFICES ASSUME NEW q \in Path, Exists(q)
             PROVE  lock'[q] # NoFile /\ lock'[q].maker = lock[q].maker
  OBVIOUS
<1>1. CASE lock' = lock \/ q # p
  BY <1>1 DEF Written, Exists, TypeOK
<1>2. CASE lock' # lock /\ q = p
  <2>1. lock' = [lock EXCEPT ![p] = f]
    BY <1>2 DEF Written
  <2>2. lock[q] \in File /\ NoFile \notin File
    BY ConstantsAssumption DEF TypeOK, Exists
  <2>3. f \in File /\ f.maker = lock[q].maker
    BY <2>2, <1>2 DEF File
  <2>4. lock'[q] = f
    BY <2>1, <1>2 DEF TypeOK
  <2> QED
    BY <2>2, <2>3, <2>4
<1> QED
  BY <1>1, <1>2

\* A step keeps the owner's file in place.  Only Remove and Drop take a file
\* away from its owner, and they record it; Undo and RemoveOwn take away the
\* session's own file, which by OwnerMadeIt is nobody else's.
LEMMA OwnerStep ==
  TypeOK /\ Control /\ OwnerMadeIt /\ AnewWhereLost /\ [Next]_vars
      => OwnerMadeIt' /\ AnewWhereLost'
<1> SUFFICES ASSUME TypeOK, Control, OwnerMadeIt, AnewWhereLost, [Next]_vars
             PROVE  OwnerMadeIt' /\ AnewWhereLost'
  OBVIOUS
<1> USE DEF TypeOK, Control, OwnerMadeIt, AnewWhereLost, Owns, Holds, OwnPath, Exists, Acquiring
<1>a. NoFile \notin File /\ NoPath \notin Path
  BY ConstantsAssumption
<1>b. \A s \in Session : Fresh(s) # NoFile /\ Fresh(s).maker = s
  BY FreshFile
<1>1. CASE UNCHANGED vars
  BY <1>1 DEF vars
<1>2. ASSUME NEW s \in Session, Step(s) PROVE OwnerMadeIt' /\ AnewWhereLost'
  <2>1. CASE Create(s)
    <3>1. CASE (Exists(target[s]) \/ target[s] \notin Writable) /\ UNCHANGED lock
      BY <2>1, <3>1, <1>a DEF Create, Return
    <3>2. CASE /\ ~Exists(target[s]) /\ lock' = [lock EXCEPT ![target[s]] = Fresh(s)]
               /\ pc' = [pc EXCEPT ![s] = "write"] /\ UNCHANGED call
      BY <2>1, <3>2, <1>a, <1>b DEF Create
    <3> QED
      BY <2>1, <3>1, <3>2 DEF Create
  <2>2. CASE Write(s)
    <3>1. \A q \in Path : Exists(q) => lock'[q] # NoFile /\ lock'[q].maker = lock[q].maker
      <4>1. lock' = Written(s, target[s], s)
        BY <2>2 DEF Write
      <4> QED
        BY <4>1, WrittenSameMaker
    <3>2. \A q \in Path, t \in Session : Owns(t, q)' => Owns(t, q)
      BY <2>2 DEF Write, Return
    <3>3. OwnerMadeIt'
      BY <2>2, <3>1, <3>2 DEF Write
    <3>4. AnewWhereLost'
      BY <2>2 DEF Write, Return
    <3> QED
      BY <3>3, <3>4
  <2>3. CASE WriteFails(s)
    <3>1. \A q \in Path : Exists(q) => lock'[q] # NoFile /\ lock'[q].maker = lock[q].maker
      <4>1. lock' = Written(s, target[s], Blank)
        BY <2>3 DEF WriteFails
      <4> QED
        BY <4>1, WrittenSameMaker
    <3>2. \A q \in Path, t \in Session : Owns(t, q)' => Owns(t, q)
      BY <2>3 DEF WriteFails
    <3>3. OwnerMadeIt'
      BY <2>3, <3>1, <3>2 DEF WriteFails
    <3>4. AnewWhereLost'
      BY <2>3 DEF WriteFails
    <3> QED
      BY <3>3, <3>4
  <2>4. CASE Undo(s)
    BY <2>4, <1>a DEF Undo, Return, File
  <2>5. CASE ReadBack(s)
    BY <2>5, <1>a DEF ReadBack, Return, Retry, Unavailable, GiveUp, File
  <2>6. CASE Check(s)
    BY <2>6, <1>a DEF Check, Return, Retry, Unavailable, GiveUp, File
  <2>7. CASE Look(s)
    BY <2>7, <1>a DEF Look, File
  <2>8. CASE Judge(s)
    BY <2>8, <1>a DEF Judge, Held, GiveUp, Return, File
  <2>9. CASE Remove(s)
    <3>1. CASE UNCHANGED <<lock, replaced>>
      BY <2>9, <3>1, <1>a DEF Remove, Return, Retry, Unavailable, GiveUp
    <3>2. CASE /\ lock' = [lock EXCEPT ![target[s]] = NoFile]
               /\ replaced' = [replaced EXCEPT ![target[s]] = @ \/ Exists(target[s])]
               /\ Retry(s)
      <4>1. \A q \in Path : ~replaced'[q] =>
               ~replaced[q] /\ (Exists(q) => lock'[q] = lock[q])
        BY <3>2
      <4>2. \A q \in Path : replaced[q] => replaced'[q]
        BY <3>2
      <4>3. \A q \in Path, t \in Session : Owns(t, q)' => Owns(t, q)
        BY <2>9, <3>2 DEF Remove, Return, Retry, Unavailable, GiveUp
      <4>4. OwnerMadeIt'
        BY <4>1, <4>3
      <4>5. AnewWhereLost'
        BY <2>9, <3>2, <4>2 DEF Remove, Return, Retry, Unavailable, GiveUp
      <4> QED
        BY <4>4, <4>5
    <3> QED
      BY <2>9, <3>1, <3>2 DEF Remove
  <2>10. CASE ReadOwn(s)
    BY <2>10, <1>a DEF ReadOwn, OwnDone, Return, Gone, File
  <2>11. CASE RemoveOwn(s)
    BY <2>11, <1>a DEF RemoveOwn, OwnDone, Return, Gone, File
  <2>12. CASE RefreshRead(s)
    BY <2>12, <1>a DEF RefreshRead, Return, File
  <2>13. CASE Truncate(s)
    <3>1. \A q \in Path : Exists(q) => lock'[q] # NoFile /\ lock'[q].maker = lock[q].maker
      BY <2>13, SameMaker DEF Truncate
    <3>2. \A q \in Path, t \in Session : Owns(t, q)' => Owns(t, q)
      BY <2>13 DEF Truncate
    <3>3. UNCHANGED replaced
      BY <2>13 DEF Truncate
    <3>4. OwnerMadeIt'
      BY <3>1, <3>2, <3>3
    <3>5. AnewWhereLost'
      BY <2>13 DEF Truncate
    <3> QED
      BY <3>4, <3>5
  <2>16. CASE TruncateFails(s)
    BY <2>16, <1>a DEF TruncateFails, Return
  <2>14. CASE Rewrite(s)
    <3>1. \A q \in Path : Exists(q) => lock'[q] # NoFile /\ lock'[q].maker = lock[q].maker
      <4>1. lock' = Written(s, path[s], s)
        BY <2>14 DEF Rewrite
      <4> QED
        BY <4>1, WrittenSameMaker
    <3>2. \A q \in Path, t \in Session : Owns(t, q)' => Owns(t, q)
      BY <2>14 DEF Rewrite, Return
    <3>3. OwnerMadeIt'
      BY <2>14, <3>1, <3>2 DEF Rewrite
    <3>4. AnewWhereLost'
      BY <2>14 DEF Rewrite, Return
    <3> QED
      BY <3>3, <3>4
  <2>15. CASE RewriteFails(s)
    <3>1. \A q \in Path : Exists(q) => lock'[q] # NoFile /\ lock'[q].maker = lock[q].maker
      <4>1. lock' = Written(s, path[s], Blank)
        BY <2>15 DEF RewriteFails
      <4> QED
        BY <4>1, WrittenSameMaker
    <3>2. \A q \in Path, t \in Session : Owns(t, q)' => Owns(t, q)
      BY <2>15 DEF RewriteFails, Return
    <3>3. OwnerMadeIt'
      BY <2>15, <3>1, <3>2 DEF RewriteFails
    <3>4. AnewWhereLost'
      BY <2>15 DEF RewriteFails, Return
    <3> QED
      BY <3>3, <3>4
  <2> QED
    BY <1>2, <2>1, <2>2, <2>3, <2>4, <2>5, <2>6, <2>7, <2>8, <2>9, <2>10, <2>11, <2>12, <2>13, <2>14, <2>15, <2>16 DEF Step
<1>3. ASSUME NEW s \in Session, NEW p \in Path, Open(s, p) PROVE OwnerMadeIt' /\ AnewWhereLost'
  BY <1>3, <1>a DEF Open, Start
<1>4. ASSUME NEW s \in Session, NEW p \in Path, MoveTo(s, p) PROVE OwnerMadeIt' /\ AnewWhereLost'
  BY <1>4, <1>a DEF MoveTo, Start
<1>5. ASSUME NEW s \in Session, OpenAnyway(s) PROVE OwnerMadeIt' /\ AnewWhereLost'
  BY <1>5, <1>a DEF OpenAnyway, Start
<1>6. ASSUME NEW s \in Session, Refresh(s) PROVE OwnerMadeIt' /\ AnewWhereLost'
  BY <1>6, <1>a DEF Refresh
<1>7. ASSUME NEW s \in Session, Release(s) PROVE OwnerMadeIt' /\ AnewWhereLost'
  BY <1>7, <1>a DEF Release
<1>8. ASSUME NEW s \in Session, Close(s) PROVE OwnerMadeIt' /\ AnewWhereLost'
  BY <1>8, <1>a DEF Close, Gone
<1>9. ASSUME NEW s \in Session, Crash(s) PROVE OwnerMadeIt' /\ AnewWhereLost'
  <2>1. \A q \in Path : Exists(q) => lock'[q] # NoFile /\ lock'[q].maker = lock[q].maker
    <3> SUFFICES ASSUME NEW q \in Path, Exists(q)
                 PROVE  lock'[q] # NoFile /\ lock'[q].maker = lock[q].maker
      BY DEF Exists
    <3>1. lock'[q] = [lock[q] EXCEPT !.writers = @ \ {s}]
      BY <1>9 DEF Crash
    <3> QED
      BY <3>1, SameMaker
  <2>2. \A q \in Path, t \in Session : Owns(t, q)' => Owns(t, q)
    BY <1>9, <1>a DEF Crash, Gone
  <2>3. OwnerMadeIt'
    BY <1>9, <2>1, <2>2 DEF Crash
  <2>4. AnewWhereLost'
    BY <1>9 DEF Crash, Gone
  <2> QED
    BY <2>3, <2>4
<1>10. ASSUME NEW p \in Path, Age(p) PROVE OwnerMadeIt' /\ AnewWhereLost'
  <2>1. \A q \in Path : Exists(q) => lock'[q] # NoFile /\ lock'[q].maker = lock[q].maker
    BY <1>10, SameMaker DEF Age
  <2>2. OwnerMadeIt'
    BY <1>10, <2>1 DEF Age
  <2>3. AnewWhereLost'
    BY <1>10 DEF Age
  <2> QED
    BY <2>2, <2>3
<1>11. ASSUME NEW p \in Path, Drop(p) PROVE OwnerMadeIt' /\ AnewWhereLost'
  BY <1>11, <1>a DEF Drop
<1> QED
  BY <1>1, <1>2, <1>3, <1>4, <1>5, <1>6, <1>7, <1>8, <1>9, <1>10, <1>11 DEF Next

-----------------------------------------------------------------------------
\* The inductive invariant, and what follows from it: as long as no lock file of
\* a project was replaced or dropped, no two sessions hold its lock.
THEOREM Invariant == Spec => []IInv
<1>1. Init => IInv
  BY ConstantsAssumption DEF Init, IInv, TypeOK, Control, OwnerMadeIt, AnewWhereLost,
     Owns, Holds, OwnPath, Exists, Labels, Operations, Attempts, Acquiring
<1>2. TypeOK /\ TypeOK' /\ IInv /\ [Next]_vars => IInv'
  BY ControlStep, OwnerStep DEF IInv
<1> QED
  BY <1>1, <1>2, TypeCorrect, PTL DEF Spec

THEOREM Exclusive == Spec => []ExclusiveUntilReplaced
<1>1. IInv => ExclusiveUntilReplaced
  <2> SUFFICES ASSUME IInv, NEW p \in Path, ~replaced[p],
                      NEW s \in Session, NEW t \in Session, Holds(s, p), Holds(t, p)
               PROVE  s = t
    BY DEF ExclusiveUntilReplaced
  <2>1. Owns(s, p) /\ Owns(t, p)
    BY DEF Owns
  <2> QED
    BY <2>1 DEF IInv, OwnerMadeIt
<1> QED
  BY <1>1, Invariant, PTL

-----------------------------------------------------------------------------
\* What a session works on is a path.
Pathed ==
    \A s \in Session :
        /\ held[s] \/ op[s] = "moveTo" => path[s] \in Path
        /\ pc[s] \in Acquiring => target[s] \in Path

\* A session that gives up a new path has its old lock again.
LEMMA GiveUpGoesBack ==
    ASSUME TypeOK, NEW s \in Session, NEW b, GiveUp(s, b)
    PROVE  /\ \A t \in Session \ {s} : held'[t] = held[t]
           /\ op[s] = "moveTo" => held'[s]
           /\ held'[s] => op[s] = "moveTo"
           /\ Return(s) /\ UNCHANGED path
<1>1. held' = [held EXCEPT ![s] = op[s] = "moveTo"]
  BY DEF GiveUp
<1>2. held \in [Session -> BOOLEAN]
  BY DEF TypeOK
<1>3. held'[s] = (op[s] = "moveTo")
  BY <1>1, <1>2, Zenon
<1>4. \A t \in Session \ {s} : held'[t] = held[t]
  BY <1>1, <1>2
<1>5. op[s] = "moveTo" => held'[s]
  BY <1>3, Zenon
<1>6. held'[s] => op[s] = "moveTo"
  BY <1>3, Zenon
<1> QED
  BY <1>4, <1>5, <1>6 DEF GiveUp

\* What ends the loop of acquire() gives up, or goes round once more.
LEMMA RetryGivesUp ==
    ASSUME NEW s \in Session, Retry(s)
    PROVE  \/ GiveUp(s, NoPath)
           \/ /\ pc' = [pc EXCEPT ![s] = "create"]
              /\ UNCHANGED <<held, path, op, target, old>>
BY DEF Retry, Unavailable

LEMMA PathedStep ==
  TypeOK /\ Control /\ Pathed /\ [Next]_vars => Pathed'
<1> SUFFICES ASSUME TypeOK, Control, Pathed, [Next]_vars PROVE Pathed'
  OBVIOUS
<1> USE DEF TypeOK, Control, Pathed, Acquiring
<1>a. NoPath \notin Path
  BY ConstantsAssumption
<1>b. ASSUME NEW s \in Session, pc[s] \in Acquiring, op[s] # "refresh", NEW b, GiveUp(s, b)
      PROVE  Pathed'
  BY <1>b, GiveUpGoesBack DEF Return
<1>c. ASSUME NEW s \in Session, pc[s] \in Acquiring, op[s] # "refresh", Retry(s) PROVE Pathed'
  <2>1. CASE GiveUp(s, NoPath)
    BY <2>1, <1>b, <1>c
  <2>2. CASE /\ pc' = [pc EXCEPT ![s] = "create"]
             /\ UNCHANGED <<held, path, op, target, old>>
    BY <2>2, <1>c
  <2> QED
    BY <1>c, <2>1, <2>2, RetryGivesUp
<1>1. CASE UNCHANGED vars
  BY <1>1 DEF vars
<1>2. ASSUME NEW s \in Session, Step(s) PROVE Pathed'
  <2>1. CASE Create(s)
    BY <2>1 DEF Create, Return
  <2>2. CASE Write(s)
    BY <2>2 DEF Write, Return
  <2>3. CASE WriteFails(s)
    BY <2>3 DEF WriteFails
  <2>4. CASE Undo(s)
    BY <2>4 DEF Undo, Return
  <2>5. CASE ReadBack(s)
    BY <2>5, <1>c DEF ReadBack, Return
  <2>6. CASE Check(s)
    BY <2>6, <1>b, <1>c DEF Check, Unavailable
  <2>7. CASE Look(s)
    BY <2>7 DEF Look
  <2>8. CASE Judge(s)
    BY <2>8, <1>b DEF Judge, Held
  <2>9. CASE Remove(s)
    BY <2>9, <1>b, <1>c DEF Remove, Unavailable
  <2>10. CASE ReadOwn(s)
    BY <2>10 DEF ReadOwn, OwnDone, Return, Gone
  <2>11. CASE RemoveOwn(s)
    BY <2>11 DEF RemoveOwn, OwnDone, Return, Gone
  <2>12. CASE RefreshRead(s)
    BY <2>12 DEF RefreshRead, Return
  <2>13. CASE Truncate(s)
    BY <2>13 DEF Truncate
  <2>16. CASE TruncateFails(s)
    BY <2>16 DEF TruncateFails, Return
  <2>14. CASE Rewrite(s)
    BY <2>14 DEF Rewrite, Return
  <2>15. CASE RewriteFails(s)
    BY <2>15 DEF RewriteFails, Return
  <2> QED
    BY <1>2, <2>1, <2>2, <2>3, <2>4, <2>5, <2>6, <2>7, <2>8, <2>9, <2>10, <2>11, <2>12, <2>13, <2>14, <2>15, <2>16 DEF Step
<1>3. ASSUME NEW s \in Session, NEW p \in Path, Open(s, p) PROVE Pathed'
  BY <1>3 DEF Open, Start
<1>4. ASSUME NEW s \in Session, NEW p \in Path, MoveTo(s, p) PROVE Pathed'
  BY <1>4 DEF MoveTo, Start
<1>5. ASSUME NEW s \in Session, OpenAnyway(s) PROVE Pathed'
  BY <1>5 DEF OpenAnyway, Start
<1>6. ASSUME NEW s \in Session, Refresh(s) PROVE Pathed'
  BY <1>6 DEF Refresh
<1>7. ASSUME NEW s \in Session, Release(s) PROVE Pathed'
  BY <1>7 DEF Release
<1>8. ASSUME NEW s \in Session, Close(s) PROVE Pathed'
  BY <1>8 DEF Close, Gone
<1>9. ASSUME NEW s \in Session, Crash(s) PROVE Pathed'
  BY <1>9 DEF Crash, Gone
<1>10. ASSUME NEW p \in Path, Age(p) PROVE Pathed'
  BY <1>10 DEF Age
<1>11. ASSUME NEW p \in Path, Drop(p) PROVE Pathed'
  BY <1>11 DEF Drop
<1> QED
  BY <1>1, <1>2, <1>3, <1>4, <1>5, <1>6, <1>7, <1>8, <1>9, <1>10, <1>11 DEF Next

\* A name is written into a lock file only by its session, which then has the
\* lock or is about to find that it does; and no session but a crashed one
\* turns away from a file that names it without trying to remove it.
LEMMA GhostStep ==
  TypeOK /\ Control /\ NoGhostLock /\ [Next]_vars => NoGhostLock'
<1> SUFFICES ASSUME TypeOK, Control, NoGhostLock, [Next]_vars
             PROVE  NoGhostLock'
  OBVIOUS
<1> USE DEF TypeOK, Control, NoGhostLock, Answers, Names, Crashed, Holds, OwnPath, Exists, Acquiring
<1>a. NoFile \notin File /\ NoPath \notin Path /\ Blank \notin Session
  BY ConstantsAssumption
<1>b. \A s \in Session : Fresh(s).text = Blank
  BY DEF Fresh
\* Giving up leaves the lock files alone; the session has its old lock again.
<1>c. ASSUME NEW s \in Session, pc[s] \in Acquiring \ {"readBack"}, op[s] # "refresh",
             NEW b, GiveUp(s, b), lock' = lock
      PROVE  NoGhostLock'
  BY <1>a, <1>c, GiveUpGoesBack DEF Return
<1>d. ASSUME NEW s \in Session, pc[s] \in Acquiring \ {"readBack"}, op[s] # "refresh",
             Retry(s), lock' = lock
      PROVE  NoGhostLock'
  <2>1. CASE GiveUp(s, NoPath)
    BY <2>1, <1>c, <1>d
  <2>2. CASE /\ pc' = [pc EXCEPT ![s] = "create"]
             /\ UNCHANGED <<held, path, op, target, old>>
    BY <2>2, <1>d
  <2> QED
    BY <1>d, <2>1, <2>2, RetryGivesUp
<1>1. CASE UNCHANGED vars
  BY <1>1 DEF vars
<1>2. ASSUME NEW s \in Session, Step(s) PROVE NoGhostLock'
  <2>1. CASE Create(s)
    <3>1. CASE (Exists(target[s]) \/ target[s] \notin Writable) /\ UNCHANGED lock
      BY <2>1, <3>1, <1>a DEF Create, Return
    <3>2. CASE /\ ~Exists(target[s]) /\ lock' = [lock EXCEPT ![target[s]] = Fresh(s)]
               /\ pc' = [pc EXCEPT ![s] = "write"] /\ UNCHANGED call
      BY <2>1, <3>2, <1>a, <1>b DEF Create
    <3> QED
      BY <2>1, <3>1, <3>2 DEF Create
  <2>2. CASE Write(s)
    BY <2>2, <1>a DEF Write, Return, Written, File
  <2>3. CASE WriteFails(s)
    BY <2>3, <1>a DEF WriteFails, Written, File
  <2>4. CASE Undo(s)
    BY <2>4, <1>a DEF Undo, Return, File
  <2>5. CASE ReadBack(s)
    <3>1. CASE Names(target[s], s)
      BY <2>5, <3>1, <1>a DEF ReadBack, Return
    <3>2. CASE ~Names(target[s], s)
      <4>1. Retry(s) /\ lock' = lock /\ pc[s] = "readBack" /\ op[s] # "refresh"
        BY <2>5, <3>2 DEF ReadBack
      <4>2. CASE GiveUp(s, NoPath)
        BY <3>2, <4>1, <4>2, <1>a, GiveUpGoesBack DEF Return
      <4>3. CASE /\ pc' = [pc EXCEPT ![s] = "create"]
                 /\ UNCHANGED <<held, path, op, target, old>>
        BY <3>2, <4>1, <4>3
      <4> QED
        BY <4>1, <4>2, <4>3, RetryGivesUp
    <3> QED
      BY <3>1, <3>2
  <2>6. CASE Check(s)
    BY <2>6, <1>c, <1>d DEF Check, Unavailable
  <2>7. CASE Look(s)
    BY <2>7, <1>a DEF Look
  <2>8. CASE Judge(s)
    BY <2>8, <1>c DEF Judge, Held
  <2>9. CASE Remove(s)
    <3>1. pc[s] = "remove" /\ op[s] # "refresh"
      BY <2>9 DEF Remove
    <3>2. CASE UNCHANGED lock
      BY <2>9, <3>1, <3>2, <1>c, <1>d DEF Remove, Unavailable
    <3>3. CASE lock' = [lock EXCEPT ![target[s]] = NoFile] /\ Retry(s)
      <4>1. CASE GiveUp(s, NoPath)
        BY <3>1, <3>3, <4>1, <1>a, GiveUpGoesBack DEF Return
      <4>2. CASE /\ pc' = [pc EXCEPT ![s] = "create"]
                 /\ UNCHANGED <<held, path, op, target, old>>
        BY <3>1, <3>3, <4>2
      <4> QED
        BY <3>3, <4>1, <4>2, RetryGivesUp
    <3> QED
      BY <2>9, <3>2, <3>3 DEF Remove
  <2>10. CASE ReadOwn(s)
    BY <2>10, <1>a DEF ReadOwn, OwnDone, Return, Gone
  <2>11. CASE RemoveOwn(s)
    <3>1. pc[s] = "removeOwn" /\ OwnDone(s)
      BY <2>11 DEF RemoveOwn
    <3>2. CASE lock' = [lock EXCEPT ![OwnPath(s)] = NoFile]
      BY <3>1, <3>2, <1>a DEF OwnDone, Return, Gone
    <3>3. CASE Names(OwnPath(s), s) /\ lock' = [lock EXCEPT ![OwnPath(s)].stuck = TRUE]
      <4>1. \A p \in Path : Exists(p)' => Exists(p) /\ lock'[p].text = lock[p].text
        BY <3>3, <1>a DEF File
      <4>2. \A p \in Path : lock[p] \in File /\ (p = OwnPath(s) \/ lock[p].stuck) => lock'[p].stuck
        BY <3>3 DEF File
      <4>3. \A p \in Path, t \in Session \ {s} : Answers(t, p) => Answers(t, p)'
        BY <3>1 DEF OwnDone, Return, Gone
      <4>4. \A p \in Path : Answers(s, p) => Answers(s, p)' \/ p = OwnPath(s)
        BY <3>1 DEF OwnDone, Return, Gone
      <4>5. \A t \in Session : pc'[t] # "crashed" => pc[t] # "crashed"
        BY <3>1 DEF OwnDone, Return, Gone
      <4> SUFFICES ASSUME NEW p \in Path, NEW t \in Session, Names(p, t)', ~Crashed(t)'
                   PROVE  Answers(t, p)' \/ lock'[p].stuck
        BY DEF NoGhostLock
      <4>6. Names(p, t) /\ ~Crashed(t) /\ lock[p] \in File
        BY <4>1, <4>5
      <4>7. Answers(t, p) \/ lock[p].stuck
        BY <4>6
      <4> QED
        BY <4>2, <4>3, <4>4, <4>6, <4>7
    <3>4. CASE ~Names(OwnPath(s), s) /\ UNCHANGED lock
      BY <3>1, <3>4, <1>a DEF OwnDone, Return, Gone
    <3> QED
      BY <2>11, <3>2, <3>3, <3>4 DEF RemoveOwn
  <2>12. CASE RefreshRead(s)
    BY <2>12, <1>a DEF RefreshRead, Return
  <2>13. CASE Truncate(s)
    BY <2>13, <1>a, <1>b DEF Truncate
  <2>16. CASE TruncateFails(s)
    BY <2>16, <1>a DEF TruncateFails, Return
  <2>14. CASE Rewrite(s)
    BY <2>14, <1>a DEF Rewrite, Return, Written, File
  <2>15. CASE RewriteFails(s)
    BY <2>15, <1>a DEF RewriteFails, Return, Written, File
  <2> QED
    BY <1>2, <2>1, <2>2, <2>3, <2>4, <2>5, <2>6, <2>7, <2>8, <2>9, <2>10, <2>11, <2>12, <2>13, <2>14, <2>15, <2>16 DEF Step
<1>3. ASSUME NEW s \in Session, NEW p \in Path, Open(s, p) PROVE NoGhostLock'
  BY <1>3, <1>a DEF Open, Start
<1>4. ASSUME NEW s \in Session, NEW p \in Path, MoveTo(s, p) PROVE NoGhostLock'
  BY <1>4, <1>a DEF MoveTo, Start
<1>5. ASSUME NEW s \in Session, OpenAnyway(s) PROVE NoGhostLock'
  BY <1>5, <1>a DEF OpenAnyway, Start
<1>6. ASSUME NEW s \in Session, Refresh(s) PROVE NoGhostLock'
  BY <1>6, <1>a DEF Refresh
<1>7. ASSUME NEW s \in Session, Release(s) PROVE NoGhostLock'
  BY <1>7, <1>a DEF Release
<1>8. ASSUME NEW s \in Session, Close(s) PROVE NoGhostLock'
  BY <1>8, <1>a DEF Close, Gone
<1>9. ASSUME NEW s \in Session, Crash(s) PROVE NoGhostLock'
  BY <1>9, <1>a DEF Crash, Gone, File
<1>10. ASSUME NEW p \in Path, Age(p) PROVE NoGhostLock'
  BY <1>10, <1>a DEF Age, File
<1>11. ASSUME NEW p \in Path, Drop(p) PROVE NoGhostLock'
  BY <1>11, <1>a DEF Drop
<1> QED
  BY <1>1, <1>2, <1>3, <1>4, <1>5, <1>6, <1>7, <1>8, <1>9, <1>10, <1>11 DEF Next

\* Nobody is kept out by a lock file that names a session which let the lock
\* go: only a crash leaves such a file behind, or a removal the session tried
\* and that failed.
THEOREM NobodyKeptOutByGhosts == Spec => []NoGhostLock
<1>1. Init => NoGhostLock
  BY DEF Init, NoGhostLock, Names, Exists
<1> QED
  BY <1>1, GhostStep, Invariant, PTL DEF Spec, IInv

\* A session that learns at its heartbeat that its lock was taken lets it go
\* to one that answers for it, crashed, or could not remove it.
THEOREM TakenIsAnswered == Spec => TakenBySomeone
<1>1. IInv /\ Pathed /\ NoGhostLock /\ [Next]_vars =>
        [\A s, t \in Session :
            RefreshRead(s) /\ ~held'[s] /\ Names(path[s], t)
                => Crashed(t) \/ Answers(t, path[s]) \/ lock[path[s]].stuck]_vars
  <2> SUFFICES ASSUME IInv, Pathed, NoGhostLock, NEW s \in Session, NEW t \in Session,
                      RefreshRead(s), Names(path[s], t)
               PROVE  Crashed(t) \/ Answers(t, path[s]) \/ lock[path[s]].stuck
    OBVIOUS
  <2>1. path[s] \in Path
    <3>1. held[s]
      BY DEF IInv, Control, RefreshRead
    <3> QED
      BY <3>1 DEF Pathed
  <2> QED
    BY <2>1 DEF NoGhostLock
<1>2. Init => Pathed
  BY DEF Init, Pathed, Acquiring
<1>3. IInv /\ Pathed /\ [Next]_vars => Pathed'
  BY PathedStep DEF IInv
<1> QED
  BY <1>1, <1>2, <1>3, NobodyKeptOutByGhosts, Invariant, PTL DEF Spec, TakenBySomeone

=============================================================================
