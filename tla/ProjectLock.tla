---------------------------- MODULE ProjectLock ----------------------------
(***************************************************************************)
(* The sidecar lock file of a project (projectlock.cpp): sessions of        *)
(* QElectroTech on several machines take, refresh, move and release it      *)
(* through a file system on which only single calls are atomic.             *)
(*                                                                          *)
(* A step is one call of the file system together with the tests the code   *)
(* makes on what it returned.  A session is one ProjectLock object, known   *)
(* by the uuid it writes into its lock files; its process runs one          *)
(* operation at a time and may crash between any two steps.                 *)
(***************************************************************************)
EXTENDS Naturals

CONSTANTS
    Session,    \* the ProjectLock objects
    Path,       \* the project files they open or save as
    Writable,   \* the paths whose folder lets a file be made in it
    HostOf,     \* the machine each session runs on
    MayTakeOver,\* whether a user ever answers "Open anyway"
    MayDrop,    \* whether the share ever loses a lock file by itself
    MayFail,    \* whether a lock file ever fails to be written, truncated or
                \* removed: no space, a share out of reach, or a file that
                \* some other program has open
    BeatsApart, \* whether the heartbeats of two sessions never fall together
    NoFile, Blank, NoPath

Attempts == 3   \* the bound of acquire()'s loop

(* A lock file: the session its text names, or Blank while it has no        *)
(* readable text; whether it is past the grace of an unreadable file; the   *)
(* sessions that still have this very file open for writing; and two        *)
(* histories no step reads: who created it, and whether the session its     *)
(* text names tried to remove it and could not.                             *)
File == [text : Session \union {Blank}, old : BOOLEAN,
         writers : SUBSET Session, maker : Session, stuck : BOOLEAN]

ASSUME ConstantsAssumption ==
    /\ Writable \subseteq Path
    /\ {MayTakeOver, MayDrop, MayFail, BeatsApart} \subseteq BOOLEAN
    /\ NoFile \notin File
    /\ Blank \notin Session
    /\ NoPath \notin Path

VARIABLES
    lock,      \* lock[p]: the lock file beside project p, or NoFile
    held,      \* m_held
    path,      \* m_project_path
    blocking,  \* the path whose lock acquire() last found held (m_blocking)
    pc,        \* the next call of the session
    op,        \* the operation the session is in
    target,    \* the path acquire() is working on
    old,       \* old_path in moveTo()
    tries,     \* attempt in acquire()
    replaced   \* history: a lock file of p was removed by a session that
               \* found it there, or dropped by the share

call == <<op, target, old, tries>>
vars == <<lock, held, path, blocking, pc, call, replaced>>

Labels == {"idle", "create", "write", "undo", "readBack", "check", "look",
           "judge", "remove", "readOwn", "removeOwn", "refreshRead",
           "truncate", "rewrite", "closed", "crashed"}
Operations == {"none", "open", "openAnyway", "moveTo", "refresh", "release"}

TypeOK ==
    /\ lock \in [Path -> File \union {NoFile}]
    /\ held \in [Session -> BOOLEAN]
    /\ path \in [Session -> Path \union {NoPath}]
    /\ blocking \in [Session -> Path \union {NoPath}]
    /\ pc \in [Session -> Labels]
    /\ op \in [Session -> Operations]
    /\ target \in [Session -> Path \union {NoPath}]
    /\ old \in [Session -> Path \union {NoPath}]
    /\ tries \in [Session -> 0 .. Attempts - 1]
    /\ replaced \in [Path -> BOOLEAN]

Init ==
    /\ lock = [p \in Path |-> NoFile]
    /\ held = [s \in Session |-> FALSE]
    /\ path = [s \in Session |-> NoPath]
    /\ blocking = [s \in Session |-> NoPath]
    /\ pc = [s \in Session |-> "idle"]
    /\ op = [s \in Session |-> "none"]
    /\ target = [s \in Session |-> NoPath]
    /\ old = [s \in Session |-> NoPath]
    /\ tries = [s \in Session |-> 0]
    /\ replaced = [p \in Path |-> FALSE]

-----------------------------------------------------------------------------
(* What the file system and the lock file say.                              *)

Exists(p) == lock[p] # NoFile

\* readHolder(): valid only for a file with readable text.
Names(p, s) == Exists(p) /\ lock[p].text = s

Fresh(s) ==
    [text |-> Blank, old |-> FALSE, writers |-> {s}, maker |-> s, stuck |-> FALSE]

\* write() and close() on a handle: they reach the file at p only if it is
\* still the file the handle was opened on.
Written(s, p, text) ==
    IF Exists(p) /\ s \in lock[p].writers
    THEN [lock EXCEPT ![p] = [text |-> text, old |-> lock[p].old,
                              writers |-> lock[p].writers \ {s},
                              maker |-> lock[p].maker, stuck |-> FALSE]]
    ELSE lock

Crashed(s) == pc[s] = "crashed"

\* isStale(): on the reader's own machine, by a process that is gone.
IsStale(reader, holder) == HostOf[reader] = HostOf[holder] /\ Crashed(holder)

\* liveHolder() after its test that the file exists: somebody counts as the
\* holder.  A file gone by the time it is read has no modification time,
\* which makes it as young as can be.
LiveHolder(s, p) ==
    IF ~Exists(p) THEN TRUE
    ELSE IF lock[p].text = Blank THEN ~lock[p].old
    ELSE ~IsStale(s, lock[p].text)

-----------------------------------------------------------------------------
(* acquire(): open a project, open it anyway, or save it under a new name.  *)

At(s, label) == pc[s] = label
Goto(s, to) == pc' = [pc EXCEPT ![s] = to]

Start(s, o, p) ==
    /\ At(s, "idle")
    /\ Goto(s, "create")
    /\ op' = [op EXCEPT ![s] = o]
    /\ target' = [target EXCEPT ![s] = p]
    /\ tries' = [tries EXCEPT ![s] = 0]
    /\ blocking' = [blocking EXCEPT ![s] = NoPath]
    /\ UNCHANGED <<lock, path, replaced>>

Open(s, p) ==
    /\ ~held[s]
    /\ Start(s, "open", p)
    /\ UNCHANGED <<held, old>>

OpenAnyway(s) ==
    /\ MayTakeOver
    /\ ~held[s]
    /\ blocking[s] # NoPath /\ path[s] = NoPath
    /\ Start(s, "openAnyway", blocking[s])
    /\ UNCHANGED <<held, old>>

MoveTo(s, p) ==
    /\ held[s] /\ p # path[s]
    /\ Start(s, "moveTo", p)
    /\ held' = [held EXCEPT ![s] = FALSE]
    /\ old' = [old EXCEPT ![s] = path[s]]

\* The operation is over: its locals are gone.
Return(s) ==
    /\ Goto(s, "idle")
    /\ op' = [op EXCEPT ![s] = "none"]
    /\ target' = [target EXCEPT ![s] = NoPath]
    /\ old' = [old EXCEPT ![s] = NoPath]
    /\ tries' = [tries EXCEPT ![s] = 0]

\* acquire() does not get the lock; moveTo() goes back to the old one.
GiveUp(s, blocked) ==
    /\ Return(s)
    /\ blocking' = [blocking EXCEPT ![s] = blocked]
    /\ held' = [held EXCEPT ![s] = op[s] = "moveTo"]
    /\ UNCHANGED path

Held(s) == GiveUp(s, target[s])
Unavailable(s) == GiveUp(s, NoPath)

\* Mutant of Retry: one attempt too many.
RetryOnceMore(s) ==
    \/ /\ tries[s] < Attempts
       /\ Goto(s, "create")
       /\ tries' = [tries EXCEPT ![s] = @ + 1]
       /\ UNCHANGED <<held, path, blocking, op, target, old>>
    \/ /\ tries[s] = Attempts
       /\ Unavailable(s)

\* continue in acquire()'s loop
Retry(s) ==
    \/ /\ tries[s] + 1 < Attempts
       /\ Goto(s, "create")
       /\ tries' = [tries EXCEPT ![s] = @ + 1]
       /\ UNCHANGED <<held, path, blocking, op, target, old>>
    \/ /\ tries[s] + 1 = Attempts
       /\ Unavailable(s)

\* Mutant of Create: the file is opened without NewOnly.
CreateNotExclusive(s) ==
    /\ At(s, "create")
    /\ target[s] \in Writable
    /\ Goto(s, "write")
    /\ lock' = [lock EXCEPT ![target[s]] = Fresh(s)]
    /\ UNCHANGED <<held, path, blocking, call, replaced>>

\* createExclusive(): the open that makes the file
Create(s) ==
    LET p == target[s] IN
    /\ At(s, "create")
    /\ UNCHANGED <<held, path, blocking, replaced>>
    /\ \/ /\ ~Exists(p) /\ p \in Writable
          /\ Goto(s, "write")
          /\ lock' = [lock EXCEPT ![p] = Fresh(s)]
          /\ UNCHANGED call
       \/ /\ Exists(p) \/ p \notin Writable
          /\ op[s] # "refresh"
          /\ Goto(s, "check")
          /\ UNCHANGED <<lock, call>>
       \/ /\ Exists(p) \/ p \notin Writable
          /\ op[s] = "refresh"
          /\ Return(s)
          /\ UNCHANGED lock

\* createExclusive(): the write succeeds ...
Write(s) ==
    /\ At(s, "write")
    /\ lock' = Written(s, target[s], s)
    /\ UNCHANGED <<held, path, blocking, replaced>>
    /\ \/ op[s] # "refresh" /\ Goto(s, "readBack") /\ UNCHANGED call
       \/ op[s] = "refresh" /\ Return(s)

\* ... or it does not (no space), and what is at that path is removed, if it
\* can be.
WriteFails(s) ==
    /\ At(s, "write") /\ MayFail
    /\ Goto(s, "undo")
    /\ lock' = Written(s, target[s], Blank)
    /\ UNCHANGED <<held, path, blocking, call, replaced>>

Undo(s) ==
    /\ At(s, "undo")
    /\ \/ lock' = [lock EXCEPT ![target[s]] = NoFile]
       \/ MayFail /\ UNCHANGED lock
    /\ UNCHANGED <<held, path, blocking, replaced>>
    /\ \/ op[s] # "refresh" /\ Goto(s, "check") /\ UNCHANGED call
       \/ op[s] = "refresh" /\ Return(s)

\* Mutant of ReadBack: moveTo() leaves the old lock file behind.
ReadBackOnly(s) ==
    /\ At(s, "readBack")
    /\ UNCHANGED <<lock, replaced>>
    /\ \/ /\ Names(target[s], s)
          /\ held' = [held EXCEPT ![s] = TRUE]
          /\ path' = [path EXCEPT ![s] = target[s]]
          /\ UNCHANGED blocking
          /\ Return(s)
       \/ ~Names(target[s], s) /\ Retry(s)

ReadBack(s) ==
    /\ At(s, "readBack")
    /\ UNCHANGED <<lock, replaced>>
    /\ \/ /\ Names(target[s], s)
          /\ held' = [held EXCEPT ![s] = TRUE]
          /\ path' = [path EXCEPT ![s] = target[s]]
          /\ UNCHANGED blocking
          /\ \/ /\ op[s] = "moveTo"
                /\ Goto(s, "readOwn")
                /\ UNCHANGED call
             \/ op[s] # "moveTo" /\ Return(s)
       \/ ~Names(target[s], s) /\ Retry(s)

\* acquire(): the file could not be made; is one there?
Check(s) ==
    /\ At(s, "check")
    /\ UNCHANGED <<lock, replaced>>
    /\ \/ /\ Exists(target[s])
          /\ Goto(s, "look")
          /\ UNCHANGED <<held, path, blocking, call>>
       \/ /\ ~Exists(target[s]) /\ target[s] \notin Writable
          /\ Unavailable(s)
       \/ /\ ~Exists(target[s]) /\ target[s] \in Writable
          /\ Retry(s)

\* liveHolder(): its own test that the file is there
Look(s) ==
    /\ At(s, "look")
    /\ Goto(s, IF Exists(target[s]) THEN "judge" ELSE "remove")
    /\ UNCHANGED <<lock, held, path, blocking, call, replaced>>

Judge(s) ==
    /\ At(s, "judge")
    /\ UNCHANGED <<lock, replaced>>
    /\ IF LiveHolder(s, target[s]) /\ op[s] # "openAnyway"
       THEN Held(s)
       ELSE /\ Goto(s, "remove")
            /\ UNCHANGED <<held, path, blocking, call>>

\* The lock file judged stale, or taken over, is replaced: whatever file is
\* there by now goes.  Where it cannot be removed (on Windows, because
\* another session has it open), the lock is not to be had.
Remove(s) ==
    LET p == target[s] IN
    /\ At(s, "remove")
    /\ \/ /\ lock' = [lock EXCEPT ![p] = NoFile]
          /\ replaced' = [replaced EXCEPT ![p] = @ \/ Exists(p)]
          /\ Retry(s)
       \/ /\ Exists(p) /\ (lock[p].writers # {} \/ MayFail)
          /\ Unavailable(s)
          /\ UNCHANGED <<lock, replaced>>

-----------------------------------------------------------------------------
(* release(), and the end of moveTo(): remove the lock file if it is ours.  *)

\* The object is gone, and all that it knew.
Gone(s, how) ==
    /\ Goto(s, how)
    /\ held' = [held EXCEPT ![s] = FALSE]
    /\ path' = [path EXCEPT ![s] = NoPath]
    /\ blocking' = [blocking EXCEPT ![s] = NoPath]
    /\ op' = [op EXCEPT ![s] = "none"]
    /\ target' = [target EXCEPT ![s] = NoPath]
    /\ old' = [old EXCEPT ![s] = NoPath]
    /\ tries' = [tries EXCEPT ![s] = 0]

\* Mutant of Release: the session goes without a look at its lock file.
ReleaseForgets(s) ==
    /\ At(s, "idle")
    /\ held[s]
    /\ Gone(s, "closed")
    /\ UNCHANGED <<lock, replaced>>

Release(s) ==
    /\ At(s, "idle")
    /\ Goto(s, "readOwn")
    /\ held[s]
    /\ held' = [held EXCEPT ![s] = FALSE]
    /\ op' = [op EXCEPT ![s] = "release"]
    /\ UNCHANGED <<lock, path, blocking, target, old, tries, replaced>>

\* release() without a lock does nothing.
Close(s) ==
    /\ At(s, "idle")
    /\ ~held[s]
    /\ Gone(s, "closed")
    /\ UNCHANGED <<lock, replaced>>

OwnPath(s) == IF op[s] = "moveTo" THEN old[s] ELSE path[s]

OwnDone(s) ==
    \/ op[s] = "moveTo" /\ Return(s) /\ UNCHANGED <<held, path, blocking>>
    \/ op[s] # "moveTo" /\ Gone(s, "closed")

ReadOwn(s) ==
    /\ At(s, "readOwn")
    /\ \/ /\ Names(OwnPath(s), s)
          /\ Goto(s, "removeOwn")
          /\ UNCHANGED <<held, path, blocking, call>>
       \/ ~Names(OwnPath(s), s) /\ OwnDone(s)
    /\ UNCHANGED <<lock, replaced>>

\* Whether the file could be removed is not asked: the lock is let go.
RemoveOwn(s) ==
    LET p == OwnPath(s) IN
    /\ At(s, "removeOwn")
    /\ OwnDone(s)
    /\ \/ lock' = [lock EXCEPT ![p] = NoFile]
       \/ MayFail /\ Names(p, s) /\ lock' = [lock EXCEPT ![p].stuck = TRUE]
       \/ MayFail /\ ~Names(p, s) /\ UNCHANGED lock
    /\ UNCHANGED replaced

-----------------------------------------------------------------------------
(* refresh(), the heartbeat.                                                *)

\* A heartbeat takes milliseconds and comes once a minute: what must happen
\* "eventually" is asked of BeatsApart, everything else of any overlap.
Refresh(s) ==
    /\ At(s, "idle")
    /\ held[s]
    /\ BeatsApart => \A t \in Session : op[t] # "refresh"
    /\ Goto(s, IF Exists(path[s]) THEN "refreshRead" ELSE "create")
    /\ op' = [op EXCEPT ![s] = "refresh"]
    /\ target' = [target EXCEPT ![s] = path[s]]
    /\ UNCHANGED <<lock, held, path, blocking, old, tries, replaced>>

\* Mutant of RefreshRead: whatever is there counts as ours.
RefreshReadBlind(s) ==
    /\ At(s, "refreshRead")
    /\ Goto(s, "truncate")
    /\ UNCHANGED <<lock, held, path, blocking, call, replaced>>

\* Another session's lock there is a take-over; an unreadable one is not.
RefreshRead(s) ==
    /\ At(s, "refreshRead")
    /\ \/ /\ \E t \in Session \ {s} : Names(path[s], t)
          /\ held' = [held EXCEPT ![s] = FALSE]
          /\ Return(s)
       \/ /\ ~ \E t \in Session \ {s} : Names(path[s], t)
          /\ Goto(s, "truncate")
          /\ UNCHANGED <<held, call>>
    /\ UNCHANGED <<lock, path, blocking, replaced>>

\* QFile::open(WriteOnly | Truncate) makes the file if it is gone (the folder
\* lets a file be made: this session's lock was made there).
Truncate(s) ==
    LET p == path[s] IN
    /\ At(s, "truncate")
    /\ Goto(s, "rewrite")
    /\ lock' = [lock EXCEPT ![p] =
          IF Exists(p)
          THEN [text |-> Blank, old |-> FALSE,
                writers |-> lock[p].writers \union {s},
                maker |-> lock[p].maker, stuck |-> FALSE]
          ELSE Fresh(s)]
    /\ UNCHANGED <<held, path, blocking, call, replaced>>

\* The file does not open: the lock still counts as ours.
TruncateFails(s) ==
    /\ At(s, "truncate") /\ MayFail
    /\ Return(s)
    /\ UNCHANGED <<lock, held, path, blocking, replaced>>

Rewrite(s) ==
    /\ At(s, "rewrite")
    /\ Return(s)
    /\ lock' = Written(s, path[s], s)
    /\ UNCHANGED <<held, path, blocking, replaced>>

\* No space: only the close, and nobody tests it.
RewriteFails(s) ==
    /\ At(s, "rewrite") /\ MayFail
    /\ Return(s)
    /\ lock' = Written(s, path[s], Blank)
    /\ UNCHANGED <<held, path, blocking, replaced>>

-----------------------------------------------------------------------------
(* The machines and the share.                                              *)

\* A process dies: the system closes what it had open.
Crash(s) ==
    /\ pc[s] \notin {"closed", "crashed"}
    /\ Gone(s, "crashed")
    /\ lock' = [p \in Path |-> IF Exists(p)
                               THEN [lock[p] EXCEPT !.writers = @ \ {s}]
                               ELSE NoFile]
    /\ UNCHANGED replaced

\* unreadable_grace_s pass.  A write follows its open well within them, so
\* only a file nobody has open any more gets that old without text.
Age(p) ==
    /\ Exists(p) /\ lock[p].text = Blank /\ lock[p].writers = {}
    /\ lock' = [lock EXCEPT ![p] = [@ EXCEPT !.old = TRUE]]
    /\ UNCHANGED <<held, path, blocking, pc, call, replaced>>

Drop(p) ==
    /\ MayDrop
    /\ Exists(p)
    /\ lock' = [lock EXCEPT ![p] = NoFile]
    /\ replaced' = [replaced EXCEPT ![p] = TRUE]
    /\ UNCHANGED <<held, path, blocking, pc, call>>

Step(s) ==
    \/ Create(s) \/ Write(s) \/ WriteFails(s) \/ Undo(s) \/ ReadBack(s)
    \/ Check(s) \/ Look(s) \/ Judge(s) \/ Remove(s)
    \/ ReadOwn(s) \/ RemoveOwn(s)
    \/ RefreshRead(s) \/ Truncate(s) \/ TruncateFails(s) \/ Rewrite(s) \/ RewriteFails(s)

Next ==
    \/ \E s \in Session :
          \/ Step(s)
          \/ \E p \in Path : Open(s, p) \/ MoveTo(s, p)
          \/ OpenAnyway(s) \/ Refresh(s) \/ Release(s) \/ Close(s) \/ Crash(s)
    \/ \E p \in Path : Age(p) \/ Drop(p)

Spec == Init /\ [][Next]_vars

\* Every process runs on, and the timer of a held lock keeps firing.
Fairness == \A s \in Session : WF_vars(Step(s)) /\ SF_vars(Refresh(s))

FairSpec == Spec /\ Fairness

-----------------------------------------------------------------------------
(* What the lock promises.                                                  *)

Holds(s, p) == held[s] /\ path[s] = p

\* The class comment: a second session opening the file is told, instead of
\* both editing.  Two sessions never both believe they have the lock of p.
MutualExclusion ==
    \A p \in Path : \A s, t \in Session : Holds(s, p) /\ Holds(t, p) => s = t

\* Exclusion is only ever lost through a replacement: as long as no lock file
\* of p was removed by a session that found it there (acquire(), stale or taken
\* over) or dropped by the share, at most one session has the lock of p,
\* whatever opens, saves, heartbeats, failed writes and crashes happen.
ExclusiveUntilReplaced ==
    \A p \in Path : ~replaced[p] =>
        \A s, t \in Session : Holds(s, p) /\ Holds(t, p) => s = t

\* The session is still going to use, move or remove the file that names it.
Answers(s, p) ==
    \/ Holds(s, p)
    \/ pc[s] = "readBack" /\ target[s] = p
    \/ op[s] = "moveTo" /\ old[s] = p
    \/ pc[s] \in {"readOwn", "removeOwn"} /\ OwnPath(s) = p

\* A lock file that names a session outlives its use only by a crash, or where
\* the session itself tried to remove it and could not (release() and moveTo()
\* do not test that): otherwise nobody is kept out, with that session's name,
\* by one that no longer holds the lock - not after a Save As that got no lock
\* for its new path, nor after a lost race, a take-over or a full disk.
NoGhostLock ==
    \A p \in Path : \A s \in Session :
        Names(p, s) /\ ~Crashed(s) => Answers(s, p) \/ lock[p].stuck

\* The same without that exception: a lock is gone once it was released
\* (release(), "Delete the lock file, if it is ours").
ReleasedIsGone ==
    \A p \in Path : \A s \in Session :
        Names(p, s) /\ ~Crashed(s) => Answers(s, p)

\* Result::Held, "a live lock of another session is there": when acquire()
\* answers Held there is a lock file.
HeldMeansThere ==
    [][\A s \in Session : Judge(s) /\ At(s, "idle")' => Exists(target[s])]_vars

\* release(): "a lock another session took over is left to it".
ReleaseLeavesOthers ==
    [][\A s, t \in Session :
        RemoveOwn(s) /\ Names(OwnPath(s), t) => t = s]_vars

\* refresh(): "if another session's lock is there, ours was taken over [...] and
\* the lock is let go" - a heartbeat does not write over it.
HeartbeatLeavesOthers ==
    [][\A s, t \in Session : Truncate(s) /\ Names(path[s], t) => t = s]_vars

\* When a session is told that its lock was taken, the session named in the
\* file does answer for it, crashed, or could not remove the file when it let
\* the lock go: the two never both let go of a lock that is still there.
TakenBySomeone ==
    [][\A s, t \in Session :
        RefreshRead(s) /\ ~held'[s] /\ Names(path[s], t)
            => Crashed(t) \/ Answers(t, path[s]) \/ lock[path[s]].stuck]_vars

\* acquire(): the session that lost its lock "learns of it at its next
\* heartbeat": two sessions do not go on believing that they have it.
Learns ==
    \A p \in Path : \A s, t \in Session :
        s # t => (Holds(s, p) /\ Holds(t, p) ~> ~(Holds(s, p) /\ Holds(t, p)))

=============================================================================
