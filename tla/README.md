# A verification of QElectroTech's shared state in TLA+

QElectroTech draws electrical diagrams. Most of its code edits one drawing on
one thread, where a unit test reaches what matters. What a test hardly reaches
is what several programs do to one project file, what the callbacks of one
event loop do to each other, and what a crash leaves behind. This project
models those parts, and the data structures whose undo commands hold on to each
other's objects, checks them with TLC on small instances and proves the central
facts with TLAPS for every value of the constants. All paths below are relative
to `src/sources/`.

- [1 The system](#1-the-system)
- [2 The modules](#2-the-modules)
- [3 What each run checks](#3-what-each-run-checks)
- [4 What is proved](#4-what-is-proved)
- [5 Where the code does not keep what it
  says](#5-where-the-code-does-not-keep-what-it-says)
- [6 What is not modelled, and the plan](#6-what-is-not-modelled-and-the-plan)

## 1 The system

### Components, their state and how they interact

| Component | State | Operations | Talks to |
|---|---|---|---|
| **Project lock** (`projectlock.cpp`) | `m_held`, `m_project_path`, `m_blocking`, a 60 s timer; on disk `.~lock.<name>#` | `acquire()`, `moveTo()`, `refresh()`, `release()`, `liveHolder()` | other programs, through the file system only |
| **Project file** (`qetproject.cpp` `openFile()`, `write()`, `changedOnDisk()`, `rememberDiskState()`; `projectview.cpp` saves; `qetdiagrameditor.cpp` opens) | `m_file_path`, `m_disk_hash`/`_size`/`_mtime`, `m_locked_out_path`, `m_lock`; on disk the file | open (read-only, anyway), save, Save As, autosave, the dialog about a changed file, close | the lock; other programs through the file |
| **Live server** (`scripting/liveserver.cpp`) | `m_server`, `m_client`, `m_busy`, `m_state`, token | connections, one request and one answer each, the user's consent, stop | assistants over a local socket; the script API |
| **Crash recovery** (`qetproject.cpp` `writeBackup()`, `dataBase/projectdatabase.cpp` `commitWorkingCopy()`, `dataBase/workingcopyrecovery.cpp`, `ui/nokde/kautosavefile.cpp`, `ui/backuprestoredialog.cpp`, `qetapp.cpp`) | `m_backup_files`, `m_next_backup_slot`, `m_backup_needed`, `m_modified`, the undo stack's index and clean index; on disk snapshots and the working copy | a snapshot every two minutes on a worker thread, a commit per edit, save, close, the dialog at the next start | the project file; the undo stack |
| **.qetdb** (`dataBase/qetdbfile.cpp`, with `projectdatabasewriter.cpp` and `projectdatabaseadopt.cpp`) | the rows, digest, history and limit of one SQLite file; `m_saved_digests`, `qet_written`, `m_copy_reuse` in the program | save (copy, finish, record, flush, replace), open, history on and off, limit, go back, delivery | project file; previous versions; other programs through the file |
| **Previous versions** (`utils/previousversions.cpp`) | the copies in `<name>-backups`, some of them second names of the file | keep one before a save, trim | project file |
| **Terminal strips** (`TerminalStrip/`) | real terminals in physical ones, in order, with levels and bridges; the objects twelve undo commands keep | add, remove, move, level, sort, group, bridge, spares, strips, and undo and redo of each | undo stack, project database |
| **Element links** (`undocommand/linkelementcommand.cpp`, `undocommand/deleteqgraphicsitemcommand.cpp`, `qetgraphicsitem/`, the link widgets) | `connected_elements`, `m_group_index_map`, a timer for chained reports | link, unlink, delete, undo, redo, merge, link automatically | undo stack; scripts |
| **Start, single instance and modal windows** (`main.cpp`, `qetapp.cpp`, `qetmainwindow.cpp`, `qetdiagrameditor.cpp`, `ui/dialogwaiting.cpp`) | windows, open projects, calls half way under nested event loops, `m_files_received`, the static `sleep`, `projects/open_at_quit` | files handed over, opened, restored, reopened; tabs, windows and the program closed | a second start; crash recovery; project file |
| **Project database** (`dataBase/projectdatabase*.cpp`) | the tables of the project and which rows are dirty | sync on an event, query, adopt | undo commands, lists, .qetdb |
| **Lazy folios** (`qetproject.cpp`, `diagram.cpp`) | folios parked as XML or built | build, park, add, remove, move | undo, saving |
| **Automatic numbering** (`autoNum/`, `conductorautonumerotation.cpp`) | a numbering context per kind | next, apply to a potential, renumber | undo |

The rest (routing, title blocks, element editor, collections, imports, exports,
printing, settings, widgets, input devices, vendored code) is listed in
`PROJECT.json` with the reason it is left out: geometry over the reals, one
pass over data, user interface, or third-party. So are the `.ts` files under
`src/lang`: they are translation catalogues of Qt Linguist (a message and its
translation, compiled into data), not programs, although they are most of the
repository's lines.

### What is hard

- **Several programs, one share.** The lock is a protocol over a file system in
  which only single calls are atomic: exists, read, remove and make may all be
  separated by another program's calls, or by a crash. The save is a check, a
  replace and a look at the result, with other programs' saves in between.
- **One thread, nested event loops.** A question to the user, and the waiting
  dialog of a load, run the timers and sockets of everything else underneath them
  (`liveserver.cpp` 322, `dialogwaiting.cpp` 57, the dialogs of an open,
  `projectview.cpp` 842). What was begun inside finishes first.
- **A worker thread and a crash.** Snapshots are written elsewhere while edits go
  on; a crash may cut one short.
- **A save in steps.** A .qetdb is copied, finished, recorded in its history,
  flushed and put in place; any step may fail, the power may go, and the marks of
  what was written must fit the file that is there afterwards.
- **Undo commands that share objects.** An undo makes new physical terminals and
  bridges, takes a deleted element back to partners that may be gone, or is merged
  with the command before; other commands of the stack hold the old objects.
- **Flags for one fact.** "There is something to save" is kept by the undo
  stack's clean index, `m_modified`, `m_backup_needed` and the working copy's
  own flag, each set on a path of its own.

What makes each component correct: *lock*: no two programs believe they have it,
no lock without an owner; *file*: no save drops what another one saved, unless
its user was asked; *server*: who asked is answered, once; *recovery*: work that
is nowhere else is never taken for saved, and a crash leaves a copy that can be
read; *.qetdb*: a path names one whole file or another, which opens as it was
saved and whose history goes back to what was saved; *previous versions*: what is
kept stays what it was; *strips*: a terminal is in one place, a bridge joins
terminals of its strip; *links*: both ends agree, and whoever may have one partner
has one; *undo*: what is taken back and made again is what it was; *start*: what is
asked to be opened is opened once, no window goes with a call or an edit in it, and
the program ends when it has no window left.

## 2 The modules

| Module | Models | Extended by |
|---|---|---|
| `ProjectLock` | the lock, one file system call a step | `MCProjectLock`, `ProjectLockProofs` |
| `ProjectFile` | opening and saving one file by several sessions; uses the lock as single steps | `MCProjectFile`, `ProjectFileProofs` |
| `FileTurns` | the abstract promise: people work on a file in turns | instantiated by `ProjectFile` |
| `LiveServer` | the channel, one callback a step | `MCLiveServer`, `LiveServerProofs` |
| `Recovery` | snapshots, working copy, flags, save, close, crash, restore | `MCRecovery`, `RecoveryProofs` |
| `QetDbFile` | a save as a database, step by step, its history, and the previous versions | `MCQetDbFile`, `QetDbFileProofs` |
| `WholeSaves` | the abstract promise: a save is whole or not at all | instantiated by `QetDbFile` |
| `TerminalStrip` | terminal strips under their undo commands | `MCTerminalStrip`, `TerminalStripProofs` |
| `ElementLinks` | links between elements under undo, deletion, scripts and a timer | `MCElementLinks`, `ElementLinksProofs` |
| `UndoHistory` | the abstract promise: undo and redo bring the document back | instantiated by `TerminalStrip` and `ElementLinks` |
| `SingleInstance` | windows, projects and the calls under way of one process, and what a second start hands over | `MCSingleInstance`, `SingleInstanceProofs` |

The modules share no variables: each takes from the others what their properties
say. `ProjectFile` uses the lock as single steps (`ProjectLock` shows when that is
so); `QetDbFile` and `Recovery` each take one project and one program;
`SingleInstance` takes a load, a save and a restored snapshot as it finds them.

### ProjectLock

A session is one `ProjectLock` object, known by the uuid it writes. `pc` is its
next file system call. `acquire()` is `Create` (the exclusive open), `Write` or
`WriteFails` and `Undo`, `ReadBack`, and, when the file was there, `Check`,
`Look`, `Judge` (`liveHolder()`), `Remove`, with `Retry` for the three attempts.
`moveTo()` runs the same steps and then `ReadOwn`, `RemoveOwn` on the old path, as
`release()` does. `refresh()` is `RefreshRead`, then `Truncate` and `Rewrite`, or
`Create` when the file is gone. `Crash` ends a process between any two steps.

A lock file is the session its text names (`Blank` when there is no readable
text), whether it is past the grace of an unreadable file, and who still has
*this* file open: a write through a handle opened before the file was removed
reaches nothing. `maker`, `replaced` and `stuck` are histories; `stuck` is of a lock whose
holder let it go and could not remove or empty it. `release()` and `moveTo()` do not
look at what `QFile::remove()` returns: the session has then forgotten a lock that still
names it. A later save as onto that path finds its own name and is told `Held`, by itself.

Assumptions. *Time*: a lock with a name is stale only when its process is gone, on
the reader's own machine (`isStale()`: of a lock from another machine nothing is
known, whatever its age); an unreadable one gets old (`Age`) only once nobody has it
open, i.e. a write follows its open within the 10 s of grace, and the share's clock
does not run away from the reader's. *Processes*: a process id is not reused, so a crashed
session is seen as crashed on its machine. *Failures*: with `MayFail` any removal
(`Remove`, `Undo`, `RemoveOwn`), any truncation of a heartbeat and any write may fail; a
file somebody has open may refuse to be removed in any case (Windows). A lock file that
is there can be read.

### ProjectFile

Content is a set of edits; each edit is made once, so "an edit is lost" is "a set
shrank". A step is one access to the file system or one answer of the user. Every
call on the lock is atomic here: what interleaved calls do to it is
`ProjectLock`'s subject, and its result (exclusion as long as no lock file was
replaced) is what `ProjectFile` uses as `Free`, `TakeLock`, `LackLock`, `LetGo`. `LackLock`
is the answer `Unavailable` of `acquire()`: no lock file can be made, or a stale one not
removed, and the project is opened all the same, "as without locking". With `LockFails`
this may happen at each call, and `LetGo` may leave the file behind. `Heartbeat` runs
wherever the code runs an event loop.

`known` and `sameStat` are what `rememberDiskState()` remembers. `sameStat[s]` says
that size and time are still the file's: any save by another session clears it (two
saves differ in time), `Settle` clears it without a save (a network share settles a
time late, #1579). `hash` is the hash that is passed from the read or write to
`rememberDiskState()` later. `base`, `shown`, `taken`, `told`, `unlocked` and `crossed` are
histories: `unlocked[s]` says that the project of `s` was let in without the lock,
`crossed[s]` that since `s` last read or wrote the file another session wrote it, and one of
the two was let in so (`PassedBy`).

`Overlap = FALSE` keeps one session's open or save from meeting another's half way
(`Alone`): it separates what the protocol itself promises from the windows of section 5.

### FileTurns, the abstract specification

Whoever has the turn starts from the file, changes a draft and puts back at least
what was there. `ProjectFile` implements it (`InTurns`) with the refinement mapping
`file <- disk`, `writer <- Turn` (who has the lock once its project was read),
`draft <-` that session's project. `ProjectFile` then cannot lose an edit because
`FileTurns` cannot. Who is let in without a lock has no turn: `FileTurns` knows such
people as `guests` (`Admit`, `Barge`, `Dismiss`), and promises nothing to those whom a
guest's save, or as a guest any save, has `crossed`. Both are mapped to the histories.

### LiveServer

A step is one callback: `NewConnection`, `ReadClient`, the queued `handle()`
(`Begin`, or `RefuseBusy` when another request is under way), the question to the user
and its refusal (`Confirm`, `Decline`), the end of the command (`Finish`), `Stop`,
`Deleted` (the socket's deferred deletion). While a
request asks or works, any other callback may run. What a command does to the
project is one step. `polite`, chosen at the start, says whether assistants send one
request and wait for its answer.

### Recovery

The drawing is the sequence of undo steps it is made of; what is changed without an undo
entry are counts: `options`, which set `m_modified`, and `collections`, the embedded
symbols and title block templates. A change of these asks for a backup and queues the
tables of the working copy, and sets nothing else (`EditCollection`); a symbol the
element editor saves over itself is not signalled at all (`OverwriteSymbol`). `snaps` is
what each slot's file holds, `Torn` while it is being written. `copy` is the working
copy as last committed. A save is atomic (write, commit and `setClean()` run in one
event). `Autosave` stands for every `write()` without `doSave()`: the timer, scripts
(`scripting/qetscriptapi.cpp` 471), the live server (638, 763). `may` is what may happen
in a behaviour, one of the sets `Circumstances`: changes outside the undo stack
(`"options"`, `"collections"`, `"symbol overwritten"`), `"autosave"`, `"save fails"`,
`"snapshot fails"`, `"snapshot restored"`. A crash is one of the process, not of the
power supply. At the next start `left` is the set of snapshots found, of which the user
may pick any, and `leftCopy` the newest working copy that says it is modified; older
ones are deleted when the dialog opens.

### QetDbFile and WholeSaves

`QETProject::write()` and `QetDbFile::save()` are the steps `Begin` (with
`PreviousVersions::keep()`, `Keep`), `Copy` (`copyTo()` and `markCopy()`), `Finish`
(normalized rows and their digest), `Record` (`recordRevision()` and `keepLimit()`),
`Flush`, `Replace`; `GiveUp` is the failure of any of them, `Crash` the end of the
program or of the power between any two: what was not flushed is then torn. Content
is a value per table, the digest of a table is the value it was worked out from, so
that "the digest is right" is an equation. `tracked` and `written` are the triggers
that mark a table and the marks, `cache` the digests of the last file, `reuse` those
the save under way takes over instead of reading a table again. A file another
program writes to (`OutsideEdit`) is no longer the program's `own`. `SetHistory`,
`SetHistoryLimit`, `ExportDelivery` and `WriteRevision` write a new file as a save
does and are one step each. `WindBack` undoes recorded changes from the newest back.
A version that is a hard link (`linked`) is the file itself under a second name.

`WholeSaves` says that a path goes from one whole file to the next, and a save puts
there what the project holds, as a file holds it. `QetDbFile` implements it
(`WholeOrNothing`) with `held <- db`, `home <- at`, `there <-` the content of each
file that is not torn, `Saved <- Normalized`.

### TerminalStrip and UndoHistory

A document is a record: the strips the project lists, the physical terminals of each
in `order`, the `levels` of each physical terminal, and the owners the objects know
themselves (`phys`, `strip`, `on`, `home`). Twelve commands change it; each is a
record with what its object keeps (a list of terminals, the physical terminal it
groups into, a bridge), `Push` makes it, `Redo1` and `Undo1` are the `redo()` and
`undo()` of its class. Commands keep objects, not values, so a command further up
the stack may hold a physical terminal that another one's undo has replaced:
`Collected` is the reference counting of `QSharedPointer` and what the destructor of a
physical terminal does to the terminals it had (`physicalterminal.cpp` 151). A habit
says which commands a user gives and how many. The careless ones give any of them but
the deletion of a strip, and not both Group and the spares. The three careful ones keep
clear of what section 5 lists, Group and Remove among it: one keeps the physical
terminals as they are (moves, sorts, levels, bridges, spares, strips), one makes some
(Add, Ungroup) and one deletes strips.

`UndoHistory` is the promise of an undo stack over any document: a change is taken
back and made again, and the document is what it was then. `TerminalStrip` implements
it for careful users, `ElementLinks` (with commands that merge) as long as no timer
links reports behind the stack's back.

### ElementLinks

`linked` is what each end holds, `row` the I/O or contact group a master remembers of
each slave, `drawn` what is on a folio. Commands are links (`LinkElementCommand`,
with the I/O and `mergeWith()`) and deletions (`DeleteQGraphicsItemCommand`, which
keeps the links it broke). They come from the widgets (`LinkTo`, `LinkToRow`,
`SetSlaves`, `Unlink`) and from scripts (`ScriptLink`, `ScriptUnlink`). The widgets
choose a partner from lists made a while ago, and no part of making a link asks whether
it is on a folio: `Listed` is what is drawn and what a command on the stack has deleted.
Deleted masters are not in it: `MasterElement::linkToElement()` goes on to
`CrossRefItem::propertiesFor()`, which reads the folio of the master (`crossrefitem.cpp`
337) and ends the program if there is none. In a project with chained reports the zero
timer of `scheduleAutoLink()` links reports of one label without a command (`AutoLink`).
`past` and `future` are histories of documents.

### SingleInstance

Everything runs on one thread, and any question or load runs the event loop, which
may begin another call: `calls` is the stack of those that have not returned, and
only the innermost goes on. A call is the opening of a file
(`openAndAddProject()`: `"asks"`, `"loads"`, `"tells"`), the recovery dialog and what it
restores, the reopening of the last projects, the closing of a tab, of a window, of
all. `HandOver` is a second start's message taken from the socket, `TakeMessage` its
zero timer, `Pumping` where an event loop can run. `CloseAccepted` marks a window for
deletion, which only the outermost loop does (`DeleteClosed`); `HalfASecond` is the
timer of `checkRemainingWindows()`, whose static `sleep` says which of its calls is
the second one. `RefuseCloseWhileModal` is the guard of issue #904. `Circumstances`
are sets of things that may happen together: a file handed over while the program
starts (`"starting"`), while another one is loaded (`"loading"`), while a close asks
(`"closing"`), and one that is being opened already (`"again"`).

Assumptions. The setting `projects/reopen_at_start` is on. A zero timer fires before
the user answers or commands anything (`Prompt`). Closed windows are deleted before
the outermost loop does anything else. A sub-window that is closed leaves the list of
its window at once. `SingleApplication` and Qt are external.

## 3 What each run checks

Two cores finish each run in about three and a half minutes or less. Symmetry is
declared only in runs without liveness properties and only over identifiers no action
tells apart. Deadlock is not checked where the model may stop for good: every session
closed or crashed, every edit made, every connection used, every command given.
`Recovery` and `ElementLinks` never stop and are checked.

| Run | Bounds | States | Shows |
|---|---|---|---|
| `lock_all` | 2 sessions on one machine, 3 paths of which one is in a folder nothing can be made in; take-overs, lost lock files, full disks, lock files that cannot be removed, crashes | 2,511,283 | `TypeOK` (with the bound on attempts), `NoGhostLock`, `ExclusiveUntilReplaced`, `TakenBySomeone` |
| `lock_learns` | 2 sessions on two machines, 1 path, take-overs, fairness | 3,140 | `Learns`: both do not go on believing |
| `save_locked` | 2 sessions, 3 edits, every overlap, failed writes, locks that cannot be made or removed, crashes | 529,326 | `OneWriter`, `NoLostEdit`, `InTurns` (the refinement of `FileTurns`) |
| `save_takeover` | 2 sessions, 3 edits, take-overs, Save As, late times, locks that cannot be made or removed, .qetdb | 3,498,118 | `ChangeIsSeen`, `NoFalseAlarm`: the check on disk finds every foreign save and nothing else |
| `live` | 3 connections, 2 with the token, 2 requests each, assistants that wait and assistants that hang up, fairness | 1,456,094 | `OneAsker`, `OneAnswer`, `TurnedAwayOnlyIfTaken`, `Answered` |
| `backup` | 2 slots, 2 edits, 1 change of options or of the embedded collections, 1 crash; failed snapshots with changes of options, or the collections changed, or a symbol saved over itself, or autosaves, failed saves and restored snapshots; fairness | 2,662,454 | `TypeOK`, `UnsavedIsKnown`, `CopyKeepsEdits`, `SnapshotIsCurrent`, `SnapshotKept`, `EditReachesASnapshot` |
| `qetdb_saves` | 2 paths, 1 table with 3 values, 1 previous version, 2 revisions over both files, a limit of 2, 1 write of another program; failures and crashes at every step | 8,031,598 | `TypeOK`, `OpensAgain`, `HistoryGoesBack`, `VersionsStay`, `WholeOrNothing` (the refinement of `WholeSaves`) |
| `strip_undo` | 2 strips, 3 drawn terminals and a spare one, 4 layouts; 3 commands of two careless habits, or 5 of three careful ones, with every undo and redo | 1,378,513 | `OnePlace`, `BridgesOnStrip`, `UndoRestores` (the refinement of `UndoHistory`) |
| `links` | scenes of a coil and 2 contacts, 2 coils and a contact, 2 PLC masters and a slave, 3 reports; up to 2 commands on the stack, chained or not | 57,290 | `TypeOK`, `LinksMutual`, `OnePartner`, `OnlyDrawn`, `RowsOfLinked`, `UndoRestores` |
| `start` | 2 files, 2 windows, 3 projects, 4 files handed over or commands, 2 starts with a crash or a quit between them, fairness | 577,754 | `AskedBeforeGone`, `OneProjectPerFile`, `WindowsOutlive`, `ReopensWhatWasOpen`, `HandedOverIsOpened`, `EndsWithoutWindows` |
| `lock_race`, `qetdb_kept` | | | section 5 |

### Why the bounds are enough

- *Lock.* A conflict is between two sessions; a third adds a bystander, and the one
  race that needs three (`lock_race`) has them. Three paths let a Save As go to a
  path another one left while the old one is taken. Exclusion for any number of
  sessions, paths and machines is proved. `Attempts` is the code's 3.
- *File.* Two sessions overwrite each other; an edit each, and one more for the answer
  to a dialog, or for a save after the other's. A third session adds a second one let
  in without a lock, and its saves are those of the first; the proofs are for any number.
- *Server.* One connection is served, one is turned away, one takes the place of
  either; two requests of one connection may be under way together.
- *Recovery.* Two edits give undo, redo and a history that branches; slots go round
  after two snapshots; a second crash finds nothing a first one does not, since a
  restart forgets all but what is on disk.
- *.qetdb.* Tables do not touch each other in a save, so that one is enough for the
  digests (one path with two tables was checked too: 1.8 million states). Three values
  tell a row that normalizing changes, one it leaves, and another program's. Two
  revisions are the fewest a limit of 2 cuts from, since `Record` adds one before it
  trims. The two paths are the file and the one of a Save As, a copy or a delivery.
- *Strips.* Undo goes wrong when a command holds an object that another one
  replaces: one command makes it, one replaces it, one uses it. Two physical
  terminals of two levels and three terminals in a row are the smallest strips on
  which bridges, levels and order differ. `OnePlace` was checked once with four
  commands of each careless habit (3.0 and 1.0 million states). The bridges are
  bounded for a reason: with five commands of a careless user `InItsStrip` fails
  (section 5), so `BridgesOnStrip` names three.
- *Links.* A link is stolen by a third element; each scene has one. Two commands, one
  of them deleted, merged or undone under the other, and the timer between them.
  `OnlyDrawn` was checked with three too, one that links, one that deletes and one that
  takes its partner from the list of what is deleted (`links_deleted.cfg`: 2 coils and a
  contact, or 2 reports; 244,080 states).
- *Start.* A call interrupts another (two files), a window outlives another (two
  windows), a file has two projects or a restored one beside them (three projects); a
  quit that is cancelled and another one that is not take four commands.

### Fairness

- `lock_learns`: a process that has begun an operation goes on (`WF` of `Step`), and
  the timer of a held lock keeps firing (`SF` of `Refresh`: an operation may be
  running each time, but not for ever). `BeatsApart` keeps two heartbeats from
  running through each other for ever, as two timers of a minute do not. `MayFail`
  is off, because a disk that is full for ever writes no name anybody could learn
  from. With three sessions, one that takes the lock over and gives it up again
  endlessly can keep the other two from finding each other's name; no timer of the
  code excludes that user, so the property is stated for two.
- `live`: the event loop runs every callback that is due, and the user answers the
  question one way or the other. `Answered` is of assistants that wait (`polite`);
  one that hangs up is owed nothing.
- `backup`: the backup timer repeats (`WriteBackup`) and the thread pool gets to run
  (`WorkerOpens`, `WorkerWrites`). `EditReachesASnapshot` is of behaviours in which
  snapshots can be written: section 5.
- `start`: the event loop runs what is due (`WF` of `Work`) and the user answers what
  is asked (`WF` of `Answer`); no command of the user is owed.

## 4 What is proved

| Module | Theorem | For every | Says |
|---|---|---|---|
| `ProjectLockProofs` | `TypeCorrect`, `Invariant` | session, path, machine, setting | types; the inductive invariant |
| | `Exclusive` | " | `Spec => []ExclusiveUntilReplaced` |
| | `NobodyKeptOutByGhosts`, `TakenIsAnswered` | " | `[]NoGhostLock`, `TakenBySomeone` |
| `ProjectFileProofs` | `TypeCorrect` | session, edit, setting | types |
| | `WritesInTurns`, `NothingIsLost`, `ImplementsTurns` | the same, if `Cautious` | `[]OneWriter`, `NoLostEdit`, `InTurns` |
| | `TurnsInvariant`, `TurnsLoseNothing` | the same, if `InTurns` | who works in turns loses nothing |
| | `FileOnlyGrows` | the same, if `Cautious` | `Turns!FileGrows`: what `FileTurns` promises |
| | `ChangesAreSeen`, `AlarmsAreTrue` | the same, if not `Overlap` | `[]ChangeIsSeen`, `[]NoFalseAlarm` |
| `LiveServerProofs` | `TypeCorrect` | number of connections and requests | types |
| | `TheAskerIsAnswered` | " | `[]OneAsker` (which is of `polite` assistants) |
| | `AtMostOneAnswer` | " | `[]OneAnswer`, whatever assistants do |
| | `NotTurnedAwayForNothing` | " | `TurnedAwayOnlyIfTaken`, whatever they do |
| `RecoveryProofs` | `TypeCorrect` | number of slots, edits, crashes; circumstances | types |
| | `UnsavedWorkIsKnown`, `TheCopyKeepsEdits` | " | `[]UnsavedIsKnown`, `[]CopyKeepsEdits` (which are of a `Careful` user) |
| | `SkippedIsTheSame` | " | `[]SnapshotIsCurrent` |
| | `OneIsKept` | the same, if there is more than one slot | `SnapshotKept` |
| `QetDbFileProofs` | `TypeCorrect` | path, table, value, limit | types, and no history longer than its limit |
| | `SavesAreWhole` | " | `WholeOrNothing`: a save implements `WholeSaves` |
| | `VersionsAreKept` | " | `VersionsStay` |
| | `OpensAsSaved` | the same, if `Tidy` | `[]OpensAgain` |
| | `RevisionsComeBack` | " | `[]HistoryGoesBack` |
| `TerminalStripProofs` | `PlaceInvariant`, `EachInOnePlace` | strip, terminal, project file, habit | the inductive invariant; `[]OnePlace` |
| | `HistoryInvariant` | the same, if `KeepsTerminals` | the inductive invariant of the undo history |
| | `BridgesStayOnStrip` | " | `[]BridgesOnStrip` |
| | `UndoTakesBack` | " | `UndoRestores`: the strips implement `UndoHistory` |
| `ElementLinksProofs` | `TypeCorrect` | element, kind, I/O, scene | types |
| | `LinksAgree`, `PartnersSuit`, `RowsAreOfLinked` | " | `[]LinksMutual`, `[]OnePartner`, `[]RowsOfLinked` |
| | `LinksStayOnFolios` | " | `[]OnlyDrawn` |
| | `UndoBringsLinksBack` | " | `UndoRestores`: links implement `UndoHistory` |
| `SingleInstanceProofs` | `Invariant`, `TypeCorrect` | file, window, project, start, request | the inductive invariant; types |
| | `NothingLostUnasked`, `ReopensTheSame` | " | `[]AskedBeforeGone`, `[]ReopensWhatWasOpen` |
| | `OneProject`, `WindowsStay` | " | `[]OneProjectPerFile`, `[]WindowsOutlive` |

**The lock.** Exclusion is not inductive: it says nothing of a session that has made
its file and not yet read it back. `IInv` adds `Control` (what `pc`, `op`, `held`,
`path` and `target` can be together), `OwnerMadeIt` (a session that holds a path, or
is about to find that it does, made the file that is there, as long as nothing was
replaced) and `AnewWhereLost` (a heartbeat makes a file only where the old one is
gone, and then `replaced` says so). One file has one maker, so two holders of a path
that was never replaced are one.

`NoGhostLock` is inductive given that invariant: a session gives a lock up by the step
that removes its file, or that finds another's name in it, and a name is written only by
the session it is of; a removal that fails leaves a name, and then `stuck` says so. That
a heartbeat which finds another name (`TakenBySomeone`) finds one that answers is then a
matter of one step, once `Pathed` says that whoever works on a lock works on some path.

**The file.** `Cautious` says: everybody asks for locks, nobody takes one over, and no
other project is saved as the file. `OneWriter` has three parts, each needed for the
others: `HoldersOwn` (who believes to have the lock is named in it), `WritersHold` (who
is writing believes so or was let in without one, and who was opened read-only never
writes) and `WritersAreUpToDate` (the project of who can write has all that is in the
file, unless it is crossed). Then a replace of a session nobody crossed can only add,
and each step is a step of `FileTurns` or leaves it alone, so that what is proved of
working in turns (`TurnsLoseNothing`) is so of the file. Where every lock that is asked
for can be made, nobody is ever a guest or crossed, and the theorems are of one writer
and no loss. That crashes can be told (`SeesDead`) is not needed: a lock that stays for
ever harms nobody's work.

The check of a save (`changedOnDisk()`) is right because of what a project remembers:
`RemembersBase` says that the hash it keeps is of what it last read or wrote (`base`), and
that size and time vouch for the file only while the file is that; `HashInHand` says
the same of the hash an open or a save has worked out and not yet stored. Other
sessions may do as they like, without locks too, but not while one is half way: then a
hash is stored with the size and time of another one's save, as `save_overlap.cfg`
shows (section 5), and both theorems are of `~Overlap`.

**The server.** `OneAsker` says that with assistants that send one request and wait at
most one request is under way, and its asker is the client as long as the channel is
open. `Settled` carries the facts about a closing socket that the step of `Deleted`
needs. `OneAnswer` needs no such assumption: what is sent an answer is closed in the
same step (`AnsweredOnce`), so nothing is sent to it again. Who is turned away, is so
because there is a client; `ClientWaits` says that a client which knew the token is
still owed its answer, since an answer ends it being the client.

**Recovery.** `Careful` says that saves are those of the save command and succeed, and
that recovery is from the working copy; section 5 has what each of the three is for.
`UnsavedIsKnown` is of the drawing and the options: a change of the embedded collections is
not known to be unsaved (`backup_collections.cfg`), and `SkippedIsTheSame` leaves out the
symbols saved over themselves (`AllCounted`, `backup_symbol.cfg`).
`CleanIsSaved` is the fact behind both theorems: while nothing but the undo stack
moves, the drawing at the clean index and the options are the file's. The snapshots
have an invariant of their own, `BInv`: `WorkerBehind` ties the slot being written to
the next one, `LastIsCurrent` says of what the worker is about to write what
`SnapshotIsCurrent` says of what it has written. `Spared` adds that the slot the next
backup overwrites (`Doomed`) is not the only one that can be read; that, and so
`OneIsKept`, fails with a single slot. `BackupGenerations` is 3.

**.qetdb.** The refinement needs `InSave` (what the file being made holds at each
stage) and `FilesWhole` (what has a name is flushed, so that a failing power tears
nothing): `IInv`. Digests need a second invariant, `RInv`: `DigestsRight` says that
a table without a mark is in the project as its digest says, up to normalizing, and
that the digests a save reuses are those of the copy it has made; `FilesRight` that
this reaches every file the program wrote alone. `Tidy` assumes that other programs
leave rows as a save would; `qetdb_kept` shows that it is needed.

Going back is recursion over a history. `WindBack` is a recursive function, which
exists for a history of any length (`WindsBackExists`) and is followed from the newest
revision to the one asked for by the least number at which it would be wrong: there is
none (`LeastOf`, from the library's `WFMin`). That needs no induction
theorem with an operator for a parameter. The invariant is `Traced`: the newest digest is
of the content there is, and each recorded change leads from the digest before it to its
own. `HInv` says so of every file
nobody else wrote into and of the file a save is making.

**Strips.** A document is `Sound` when each object is in one place and knows its owner.
That is not inductive: a command undone or redone finds a document other than the one it
was made for, and may, for instance, add a terminal that is in a physical terminal which
only another command still holds. `StripInv` says what the document must be for *all*
commands of the stack, done and undone: `Fits(d, W, K, N)`. The physical terminals a
command groups into (`N`, `Growing`) are in a strip. Those made for a spare (`K`, `Made`)
have that spare and nothing else; the two are `Apart`. A terminal whose physical terminal
is in no strip is a spare that waits (`W`, `Waiting`): its first command is undone, and
no command before that one has to do with it (`InTurn`), as a spare is only made when
nothing that a command or a strip can reach has it (`SparesNowhere`). Undo and redo move
the number of commands done, and with it `Waiting`; a push forgets what was undone.

Each operation of `terminalstrip.cpp` has a lemma that it leads from `Good` documents to
such, for any `W`, `K` and `N`. A loop over terminals is a recursive function
(`Through`): that there is one for a list of any length is `LoopExists`, and that it
ends in a good document `LoopLands`, both by the least number at which they would be
wrong. What the operations on lists do (inserting, changing places, the table of all
terminals of a strip) is shown once (`Inserted`, `Swapped`, `FlattenIs`).
`StripAssumption` says that `None` is no object, that drawn terminals are not spare and
that physical terminals and bridges are numbered; `LayoutAssumption` that a project file
has each physical and real terminal once, as a save writes it of a document in which all
are in one place. `OnePlace` is of a user who deletes no strip and does not both make
spares and group (`Plain`): section 5 has the others.

`BridgesOnStrip` and `UndoRestores` need to know which document an operation makes, and
that the inverse command leads back. `KeepsTerminals` is the careful user who gives seven
of the commands (`Keeping`), those that leave real terminals in the physical terminals
they are in. His documents are `Tidy`: each bridge joins a row (`InRow`: one level,
neighbouring physical terminals) of its strip, and no terminal is on two. The document
after an undo is not the one before the command: an unused bridge keeps its strip, a
spare its physical terminal. So `LooksLike` compares what is shown, and `Leads(c, x, y)`
says for each kind of command what y is, given x. `RedoBecomes` and `UndoBecomes` are the
core: in any document that looks like x, redo makes one that looks like y, and in any that
looks like y, undo makes one that looks like x, if what the command made is as it was made
(`Prepared`: the spare's physical terminal, the bridge). The inductive invariant
`HistInv` says that there are documents, one before the first command of the stack and one
after each, such that each command leads from one to the next, and the document looks like
the one at the number of commands done (`Remembers`). Undo and redo move that number
(`BackOne`, `ForthOne`), a push forgets what comes after it (`PushOne`). That a new
command leads somewhere is shown for each as the user gives it (`MovePush` to
`UnbridgePush`). It needs what carefulness says: where a bridge is (`Loose`), a sort or a
change of levels may part its row, and then undo does not find it again (section 5). For
bridges, `UnBridgeable` is the key: of terminals in a row, `canUnBridge()` lets through
exactly those at an end, so that what is left is a row.

**Links.** `LinksMutual`, `OnePartner` and the rows are inductive together with what
the commands on the stack may ask for: a command names partners that suit, a deletion
keeps links of which each element but a master has one. Each way of changing links
(freeing, unlinking, joining) has a lemma of its own that it keeps both ends agreed.

That nothing deleted stays linked, but by who chose it then, needs the history: a
command that is undone is undone in the document that was there after it. `History(R)`
says that each command on the stack leads, by the relation `R`, from the document before
it in `past` to the one after it, and likewise in `future`; push, merge, undo and redo
have a lemma each about it, for any `R`. `LinksStayOnFolios` uses it with `DrawnSteps`
(the element a link command is given to is on a folio, a deletion takes away just its
items). Commands done and undone are there one line, `CmdAt` with the folios before
each, `SceneAt`; `CInv` says of each link to an absent element, one there is
(`LinksChosen`) or one a command would bring back (`CommandChosen`), that an earlier
command of the line chose it so. For `UndoBringsLinksBack` `R` is `LinkSteps`, which
says exactly what a command makes of the links (`Replaced`, `Freed`). Undo is its
inverse as long as nobody loses a partner to a new link unless the command frees it
(`Loose`, which `isLinkable()` is for). The timer of chained reports links behind the
stack's back: with it `UndoRestores` promises nothing.

**Start.** A step changes the innermost calls only, so that each lemma is about what
`Alike` calls share: `Topped` is a stack of which one call is new, `Cut` one that
was cut off. `Nesting` is what makes the rest inductive: inside a call only files are
opened, but for the windows a quit closes, and while a close asks nothing is opened in
behaviours without `"closing"`. `AskedFor` says of a window being closed that the
projects with edits in it are still to be asked about, or being asked about; with
`"closing"` a project may be opened in it meanwhile and is not, but then has no edits, so
that `NothingLostUnasked` is of all behaviours. `Leaving` ties the list a quit or the
last close carries to what was open when it began. For `OneProject` no two of the files
on their way (messages, calls that open, files to restore or reopen, projects) are one
(`Apart`). That is of a `Patient` user, who asks for no file again while it is on its
way: section 5 has the others. `NoneAssumption` says that no file, window or project is
`None`.

**Model-checked only.** Everything under fairness (`Learns`, `Answered`,
`EditReachesASnapshot`, `HandedOverIsOpened`, `EndsWithoutWindows`): liveness is out of
the prover's reach. `BridgesOnStrip` and the `UndoRestores` of `TerminalStrip` for the two
careful habits whose redo makes new physical terminals (Add, Ungroup, the deletion of a
strip), so that the documents compared no longer have the same objects; and
`BridgesOnStrip` for the first three commands of a careless user, which is so because the
commands are few and by no invariant (section 5 has the fifth).

## 5 Where the code does not keep what it says

Two runs end in a violation, each with its line in `PROJECT.json`:

- `lock_race`: `acquire()` removes whatever lock file is there when it gets to
  `QFile::remove()` (`projectlock.cpp` 308), after it judged an earlier one. One
  session closing and two opening: both openers are told `Acquired`.
- `qetdb_kept`: after "Open it with its changes" the digests of the tables another
  program wrote are taken over as they are (`qetproject.cpp` 659), a save normalizes
  the rows and reuses these digests (`projectdatabasewriter.cpp` 895). The saved file
  then says that another program changed it, although `qetdiagrameditor.cpp` 2634 has
  it "marked changed, so that saving writes a sound file".

The modules state more properties that the repository's comments claim and the code
does not keep. They are checked by no run; TLC finds each violated with the module's
MC module, the property and these constants (others `FALSE`; a set in braces is the one
member of `Circumstances`). Where a `.cfg` is named,
it is kept beside the modules:

| Property | Constants | What happens | The claim |
|---|---|---|---|
| `ReleasedIsGone` | 2 sessions, 2 paths, `MayFail` | a lock file that cannot be removed is forgotten (`projectlock.cpp` 355, 332) and goes on naming a session that does not hold it | `projectlock.cpp` 347 "Delete the lock file, if it is ours" |
| `HeldMeansThere` | 3 sessions, two machines, 1 path | the holder closes between `exists()` and the read (`projectlock.cpp` 209): the open is told that "?" has the project | `projectlock.h` 66 "a live lock of another session is there" |
| `ReleaseLeavesOthers` | 2 sessions, `MayTakeOver` | a take-over between the read and the remove of `release()` (355) loses its file | `projectlock.cpp` 346 "a lock another session took over is left to it" |
| `HeartbeatLeavesOthers` | 2 sessions, `MayTakeOver` | the same in `refresh()` (379), which writes over it | `projectlock.cpp` 361 "If another session took the lock over, it is no longer ours" |
| `ChangeIsSeen` | `save_overlap.cfg` | `rememberDiskState()` (`qetproject.cpp` 3184) takes size and time of the file that is there when it is called; a save between the read and this look is never noticed | `qetproject.cpp` 3193 "the file write() would replace is not the one this QET last read or wrote" |
| `NotOntoAnothers` | 2 sessions, 2 edits, `LocksOn`, `MaySaveAs`, `Overlap` | Save As asks for the lock before the write and takes it after (`qetproject.cpp` 3378) | `projectview.cpp` 398 "Not onto a file someone else has open" |
| `NotOntoAnothers` | the same without `Overlap` | a Save As that failed leaves the project its new path, and the next save asks nobody (`projectview.cpp` 860) | the same |
| `OverwritesWhatWasShown` | 2 sessions, 3 edits | what is saved while the question is open is overwritten by its answer (`projectview.cpp` 842) | `qetproject.cpp` 3249 "the interactive save asks the user first" |
| `TakenMeansTold` | 2 sessions, 2 edits, `LocksOn`, `MayTakeOver`, `MaySaveAs` | a heartbeat during the load finds the lock gone before the window listens (`qetdiagrameditor.cpp` 2875) | `projectlock.cpp` 270 "that session learns of it at its next heartbeat" |
| `AnswersTheAsker` | `live_hangup.cfg` | `send()` writes to whoever is the client now (`liveserver.cpp` 322): an assistant that hangs up while the user is asked leaves its answer to the next | the comment of the class, "One JSON request per connection, one JSON answer back" |
| `TurnedAwayOnlyIfTaken` with every client, not only those with the token | 2 connections, one without the token | after a wrong token the channel is taken until the socket is deleted (`liveserver.cpp` 309) | `liveserver.cpp` 393, of the same after an answer, where it was mended |
| `NothingBeginsAfterStop` | 2 connections, 1 request | a queued request is carried out after `stop()` (315) | `liveserver.cpp` 251 "close the channel for the rest of the session" |
| `CloseAsks` | `backup_savefails.cfg` | `doSave()` calls `setClean()` whatever the save returned (`projectview.cpp` 878); the close then asks nothing | `projectview.cpp` 319 "everything was already saved" |
| `CloseAsks` | `backup_collections.cfg` | a changed title block template or an added or removed symbol asks for a backup and nothing else (`qetproject.cpp` 470 to 491): the project is closed without a question | `projectview.cpp` 318 "nothing was modified" |
| `CloseAsks` | `{"autosave", "options"}`, 1 option | an autosave leaves the clean index; undoing to it makes the project look saved (`qetproject.cpp` 516) | the same |
| `CopyKeepsEdits` without `Careful` | `{"snapshot restored"}` | a project restored from a snapshot counts as saved (`qetproject.cpp` 245) | `qetproject.cpp` 272 "it has to be saved, as a project reopened from a recovery file" |
| `EarlierOnesStay` | `{"snapshot restored"}` | the other snapshots are deleted before the picked one turns out to be cut short (`qetapp.cpp` 3390) | `qetproject.cpp` 5662 "the earlier ones are still there to recover from" |
| `CopyMatchesFile` | `{}` | `write()` commits the copy before the undo stack is clean (`qetproject.cpp` 3393) | 3392 "The working copy now says it matches the file" |
| `LastIsTheProject` | `backup_symbol.cfg` | a symbol saved over itself is replaced without a signal (`elementslocation.cpp` 785): no snapshot gets it before the next other change | `qetproject.cpp` 461 "What counts as a change for writeBackup(): ... and the embedded collections" |
| `LastIsTheProject` | `{"snapshot fails"}` | a snapshot that failed is not tried again until the next edit (`qetproject.cpp` 5679) | 5675 "A backup of an unchanged project would be identical to the last one" |
| `NoTerminalLost` | `strip_lost.cfg` | after Ungroup, Remove, Undo, Undo the first command groups into a physical terminal that is in no strip any more (`terminalstrip.cpp` 599); the terminal is in no list and is not saved | `terminalstrip.cpp` 602, which refuses only terminals of no strip |
| `InOnePlace` without `Plain` | `strip_twice.cfg` | a drawn terminal is grouped into the physical terminal of a spare; undone three times, it is still in there, out of the strip, and counts as free. Added again it gets another one; the undone command goes, its physical terminal is destroyed and tells the terminal that it has none (`physicalterminal.cpp` 151), which the strip goes on listing | `terminalstrip.cpp` 316 "A terminal can't be added is already belong to another terminal strip" |
| `InItsStrip` with five commands | `strip_bridges.cfg` | Bridge, Unbridge and Bridge make two bridges; undone after a Remove they share a terminal, which the next Remove takes off one of them only (`terminalstrip.cpp` 236) | `terminalstrip.cpp` 691, "each real terminal must belong to this terminal strip" of what is bridged |
| `LinkingKeepsContacts` | `links_script.cfg` | `linkElements()` of a coil hands the command the new contact alone, which replaces the others (`qetscriptapi.cpp` 1841) | `src/misc/qet-mcp/README.md` 375 "links a folio report arrow, or a coil and its contacts" |
| `NothingDropped` | `start_dropped.cfg` | the constructor of `QETApp` opens its own files, with their questions, and lets the splash screen run the event loop (`qetapp.cpp` 180, 2851) before `main.cpp` 331 listens: a file handed over meanwhile reaches nobody | `qetapp.cpp` 196, which defers other dialogs so that none is "dropped on the floor" |
| `LoadsResumeUnharmed` | `start_loading.cfg` | a load inside a load drops the one waiting dialog (`qetdiagrameditor.cpp` 2886), to which the outer one keeps a pointer (`qetproject.cpp` 4446, 4543) | `qetdiagrameditor.cpp` 2817 "this one resumes unharmed" |
| `OneProjectPerFile` with `"again"` allowed | `{"again"}` | a file handed over again while its open asks, or while the recovery dialog offers it, gets two projects (`qetdiagrameditor.cpp` 2714, `qetapp.cpp` 3275) | 2714 "Check if project is not open in another editor" |
| `WindowsOutlive` with `"closing"` allowed | `{"closing"}` | a file opened in the window whose close is asking is closed with it unasked, its project stays registered and locked | `qetdiagrameditor.cpp` 2297, which asks "la permission de fermer chaque projet" |

Further divergences the models or the reading turned up, without a property:

- *Strips.* After an undone and redone Add or Ungroup, the redo of a Sort, Move or Group
  above it does nothing or uses physical terminals of no strip. The undo of Remove
  brings back neither order nor bridges; that of a bridge that was made longer unbridges
  what was on it before; that of Unbridge after a Sort that parted its terminals does
  nothing; that of Ungroup scrambles the levels of three or more; a level changed and
  then unbridged does not get its bridge back; RemoveStrip loses grouping and leaves
  members on its bridges; the undo of AddSpares after an undone Remove leaves the spare.
- *Links.* A partner that was deleted may still be chosen from the list of a widget, as
  `isLinkable()` (`linkelementcommand.cpp` 123) asks no folio: a report or a slave that
  is gone is then linked to, a master that is gone ends the program. Taking an I/O of
  another master only unlinks a slave that has one; a slave moved to another I/O of its
  master and undone keeps the new one; a merged unlink and link keeps the first
  command's I/O; `MasterPropertiesWidget` may offer one group to two new slaves; a PLC
  master deleted and brought back has lost its I/Os.
- *.qetdb.* Two programs that save one path share `<path>.saving`; a program that
  writes into the file also changes a previous version that is a hard link; a new
  project saved over an existing file goes on with that file's history.
- *File.* A session let in without a lock may overwrite what one with a lock saved, and the
  other way round, if its user says so in the dialog about a changed file, or between the
  check and the replace. That is by design ("Never blocks opening",
  `qetdiagrameditor.cpp` 2778).
- *Recovery.* A .qetdb is saved from the tables (`projectdatabasewriter.cpp` 905), so
  that a symbol saved over itself is missing from the saved file too until another
  change of the collections (the file of `Recovery` is a .qet, written from the
  document). `openWorkingCopies()` deletes a copy it could not open
  (`qetdiagrameditor.cpp` 4443), and drops the waiting dialog before the tabs are built,
  so that a window can close under a project that is nowhere else any more.
- *Lock.* Whether an unreadable lock is left over is told by the share's time and this
  machine's clock (`projectlock.cpp` 209).

## 6 What is not modelled, and the plan

Left out of the modelled parts:

- **Project file**: the stamp and permission bits.
- **Live server**: what a command does to the project, timeouts inside the assistant.
- **Recovery**: projects never saved, several projects in one dialog, a working copy
  that cannot be written out again, and that a restored project takes no lock.
- **.qetdb**: the repair data (sealing, repairing pages, going back to the save), the
  checks in SQL, the reports on a history. **Previous versions** of a .qet and .qetz are
  kept by the same code; their writer is not modelled.
- **Terminal strips**: bridges that come from the drawing, names, colours, grooves.
- **Element links**: links of pasted and loaded elements, edited labels, the data a PLC
  master gives its slaves, the limit on slaves, folios removed.
- **Start**: hidden windows and the tray, the element and title block editors, several
  files in one message, the open events of macOS, the import of settings, working copies.

Not modelled at all, with the reason in `PROJECT.json`: routing, title blocks and other
geometry and layout; parsers, exporters and containers, whose difficulty is data, which
the repository's tests cover; preferences and widgets; vendored code; and the
translation catalogues under `src/lang`, which hold text and no behaviour.

Done: `ProjectLock`, `ProjectFile` with `FileTurns`, `LiveServer`, `Recovery`,
`QetDbFile` with `WholeSaves`, `TerminalStrip` and `ElementLinks` with `UndoHistory`,
`SingleInstance`, and the proofs of section 4. What is left, most important first:

1. `LazyFolios`: parked and built folios under add, remove, move, undo and save; which
   folios a save may write as they were read (`qetproject.cpp` 2721 to 2960). Abstract: a
   list of folios.
2. `Recovery` joined with `ProjectFile` and `SingleInstance`: restored projects without
   a lock.
3. `UndoTakesBack` for careful users who add, ungroup and delete strips: `LooksLike` up to
   a renaming of the physical terminals, and `Leads` for these commands.
4. `ProjectRows`: dirty rows and syncs against the drawing; after a sync the tables are
   the drawing's.
5. `AutoNumbering`: the next number as operators against a reference definition.
