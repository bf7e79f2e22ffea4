--------------------------- MODULE SingleInstance ---------------------------
(***************************************************************************)
(* One running QElectroTech that opens what is asked of it: the files of    *)
(* its own start, those a second start hands over (QETApp::receiveMessage), *)
(* what a crash left (checkBackupFiles), what was open at the last quit     *)
(* (reopenLastProjects), and what its user opens and closes.                *)
(*                                                                          *)
(* All of it runs on one thread, yet not one after the other: a question to *)
(* the user and the waiting dialog of a load run the event loop, which may  *)
(* begin another call while the first is half way.  The calls that are      *)
(* under way are a stack, and only the innermost goes on.  A step is what   *)
(* runs from one turn of an event loop to the next.                         *)
(***************************************************************************)
EXTENDS Naturals, FiniteSets, SequencesExt

CONSTANTS
    Files,          \* the project files somebody may open
    Windows,        \* bound: QETDiagramEditor objects at one time
    Projects,       \* bound: QETProject objects at one time
    None,           \* no file, no window, no project
    Circumstances,  \* the sets of things that may happen together
    MaxRequests,    \* bound: files handed over and commands of the user
    MaxStarts       \* bound

ASSUME BoundsAssumption == {MaxRequests, MaxStarts} \subseteq Nat

ASSUME NoneAssumption == None \notin Files \union Windows \union Projects

(* "starting": a file is handed over while QETApp is constructed.           *)
(* "again": one that is being opened already.  "closing": while a close     *)
(* asks.  "loading": while a project is loaded.                             *)
ASSUME CircumstancesAssumption ==
    Circumstances \subseteq SUBSET {"starting", "again", "closing", "loading"}

VARIABLES
    may,          \* what may happen
    phase,        \* of the process: "off", "starting" (the constructor of
                  \* QETApp), "running", "ended", "crashed"
    calls,        \* the calls under way, the innermost last
    windows,      \* "closed": accepted, and to be deleted by the event loop
    views,        \* the projects open, and the window of their view
    messages,     \* files received whose zero timer has not fired yet
    received,     \* m_files_received
    queued,       \* the call the constructor deferred is still to come
    reopen,       \* whether it is to reopen the last projects
    sleep,        \* of checkRemainingWindows()
    timers,       \* its timers of half a second
    openAtQuit,   \* the setting projects/open_at_quit
    snapshots,    \* the files a crash left a snapshot of
    asked, starts,   \* counters, for the bounds
    refused,      \* history: files whose user cancelled their opening
    dropped,      \* history: files handed over that nobody received
    unasked,      \* history: files whose edits went without a question
    leaving       \* history: the files open when the last close began

closing == <<sleep, timers, openAtQuit, leaving>>
requests == <<messages, received, queued, reopen>>
program == <<windows, views, requests>>
counters == <<asked, starts>>
histories == <<refused, dropped, unasked>>
vars == <<may, phase, calls, program, closing, snapshots, counters, histories>>

View == [file : Files, window : Windows \union {None}, edited : BOOLEAN]

Call == [call : {"open", "restore", "reopen", "close tab", "close", "quit"},
         at : {"next", "asks", "loads", "tells"},
         file : Files \union {None}, window : Windows \union {None},
         project : Projects \union {None},
         left : SUBSET (Files \union Windows \union Projects), files : SUBSET Files,
         interactive : BOOLEAN, waiting : BOOLEAN]

TypeOK ==
    /\ may \in Circumstances
    /\ phase \in {"off", "starting", "running", "ended", "crashed"}
    /\ calls \in Seq(Call)
    /\ windows \in [Windows -> {"none", "shown", "closed"}]
    /\ views \in [Projects -> View \union {None}]
    /\ messages \in Seq(Files)
    /\ {received, queued, reopen, sleep} \subseteq BOOLEAN
    /\ timers \in Nat
    /\ openAtQuit \subseteq Files /\ snapshots \subseteq Files
    /\ asked \in 0 .. MaxRequests
    /\ starts \in 0 .. MaxStarts
    /\ refused \subseteq Files /\ dropped \subseteq Files
    /\ unasked \subseteq Files /\ leaving \subseteq Files

Init ==
    /\ may \in Circumstances
    /\ phase = "off" /\ calls = <<>>
    /\ windows = [w \in Windows |-> "none"] /\ views = [p \in Projects |-> None]
    /\ messages = <<>> /\ received = FALSE /\ queued = FALSE /\ reopen = FALSE
    /\ sleep = TRUE /\ timers = 0 /\ openAtQuit = {} /\ leaving = {}
    /\ snapshots = {}
    /\ asked = 0 /\ starts = 0
    /\ refused = {} /\ dropped = {} /\ unasked = {}

-----------------------------------------------------------------------------
(* Windows, projects and the stack of calls.                                *)

Shown == {w \in Windows : windows[w] = "shown"}
Closed == {w \in Windows : windows[w] = "closed"}
diagramEditors == Shown \union Closed
Unused == {w \in Windows : windows[w] = "none"}

Opened == {p \in Projects : views[p] # None}
openedProjects(ws) == {p \in Opened : views[p].window \in ws}
FilesOf(ps) == {views[p].file : p \in ps}
FilesIn(ws) == FilesOf(openedProjects(ws))
EditedFiles(ps) == FilesOf({p \in ps : views[p].edited})

Top == Last(calls)
Push(c) == calls' = Append(calls, c)
Become(c) == calls' = [calls EXCEPT ![Len(calls)] = c]
Return == calls' = Front(calls)
Within(kinds) == \E i \in DOMAIN calls : calls[i].call \in kinds
Innermost(kind, at) == calls # <<>> /\ Top.call = kind /\ Top.at = at

Start(kind, at) ==
    [call |-> kind, at |-> at, file |-> None, window |-> None,
     project |-> None, left |-> {}, files |-> {}, interactive |-> TRUE,
     waiting |-> TRUE]

(* What an event loop is running under.  The objects of closed windows are   *)
(* deleted before the outermost loop looks for anything else.               *)
Pumping ==
    /\ phase = "running"
    /\ IF calls = <<>> THEN Closed = {} /\ ~queued ELSE Top.at # "next"

(* A zero timer is due before the user can answer or command anything.       *)
Prompt == messages = <<>>

(* DialogWaiting::dropInstance(): one dialog for all loads under way.       *)
dropInstance(s) == [i \in DOMAIN s |-> [s[i] EXCEPT !.waiting = FALSE]]

(* Mutant: windows close as before issue #904.                              *)
RefuseCloseNever == FALSE

(* Every loop but the outermost runs under a dialog, and a window refuses to *)
(* close then, also when a menu or the system tray asks for it.             *)
RefuseCloseWhileModal == calls # <<>>

-----------------------------------------------------------------------------
(* Opening a file.                                                          *)

OpenCall(f, w, interactive) ==
    [Start("open", IF interactive THEN "asks" ELSE "loads") EXCEPT
        !.file = f, !.window = w, !.interactive = interactive]

(* QETApp::diagramEditorForFile(): in any window, also a closed one.        *)
OpenInAWindow(f) == f \in FilesIn(diagramEditors)

(* A file that is open already is shown where it is.                        *)
OpenAndAddProject(f, w, interactive) ==
    IF OpenInAWindow(f)
        THEN UNCHANGED calls
        ELSE Push(OpenCall(f, w, interactive))

(* Whatever is asked before the load: that the file is not writable, who    *)
(* has it open, what another program did to it.  Also no question at all.   *)
AnswerOpen ==
    /\ phase \in {"starting", "running"} /\ Innermost("open", "asks") /\ Prompt
    /\ \/ Become([Top EXCEPT !.at = "loads", !.waiting = TRUE]) /\ UNCHANGED refused
       \/ Return /\ refused' = refused \union {Top.file}
    /\ UNCHANGED <<may, phase, program, closing, snapshots, counters, dropped, unasked>>

AddProject(f, w, edited) ==
    \E p \in Projects \ Opened :
        /\ p = CHOOSE q \in Projects \ Opened : TRUE
        /\ views' = [views EXCEPT ![p] = [file |-> f, window |-> w, edited |-> edited]]

(* What follows the load is told when the project is shown: sections left    *)
(* out, fonts, the offer to keep a copy.                                    *)
LoadEnds ==
    /\ phase \in {"starting", "running"} /\ Innermost("open", "loads")
    /\ \/ AddProject(Top.file, Top.window, FALSE) /\ UNCHANGED refused
       \/ UNCHANGED views /\ refused' = refused \union {Top.file}
    /\ LET told == [Top EXCEPT !.at = "tells"] IN
       calls' = dropInstance(IF Top.interactive THEN Append(Front(calls), told) ELSE Front(calls))
    /\ UNCHANGED <<may, phase, windows, requests, closing, snapshots, counters, dropped,
                   unasked>>

AnswerTold ==
    /\ phase \in {"starting", "running"} /\ Innermost("open", "tells") /\ Prompt /\ Return
    /\ UNCHANGED <<may, phase, program, closing, snapshots, counters, histories>>

(* A load goes on with its waiting dialog, which another load drops and the  *)
(* event loop then deletes.                                                 *)
Dangling(c) == c.at = "loads" /\ ~c.waiting

(* Mutant: the new window is not given the file.                            *)
OpenProjectFilesInShown(f) ==
    \/ \E w \in Shown : OpenAndAddProject(f, w, TRUE) /\ UNCHANGED windows
    \/ /\ Shown = {}
       /\ \E w \in Unused : windows' = [windows EXCEPT ![w] = "shown"]
       /\ UNCHANGED calls

(* QETApp::openProjectFiles(): a window that is shown, or else a new one.   *)
OpenProjectFiles(f) ==
    \/ \E w \in Shown : OpenAndAddProject(f, w, TRUE) /\ UNCHANGED windows
    \/ /\ Shown = {}
       /\ \E w \in Unused :
            /\ windows' = [windows EXCEPT ![w] = "shown"]
            /\ OpenAndAddProject(f, w, TRUE)

-----------------------------------------------------------------------------
(* A second start hands a file over.                                        *)

OnItsWay(f) ==
    \/ f \in Range(messages)
    \/ \E i \in DOMAIN calls :
          \/ calls[i].file = f /\ calls[i].at \in {"asks", "loads"}
          \/ calls[i].call \in {"restore", "reopen"} /\ f \in calls[i].left
    \/ queued /\ f \in snapshots

(* In the constructor nobody listens yet: its dialogs and its splash screen *)
(* run the loop that takes the message from the socket.                     *)
HandOver(f) ==
    /\ phase = "starting" \/ Pumping
    /\ asked < MaxRequests /\ asked' = asked + 1
    /\ "starting" \in may \/ phase = "running"
    /\ "again" \in may \/ ~OnItsWay(f)
    /\ "closing" \in may \/ ~Within({"close tab", "close", "quit"})
    /\ "loading" \in may \/ (messages = <<>> /\ \A i \in DOMAIN calls : calls[i].at # "loads")
    /\ refused' = refused \ {f}
    /\ IF phase = "starting"
           THEN dropped' = dropped \union {f} /\ UNCHANGED <<messages, received>>
           ELSE messages' = Append(messages, f) /\ received' = TRUE /\ UNCHANGED dropped
    /\ UNCHANGED <<may, phase, calls, windows, views, queued, reopen, closing, snapshots,
                   starts, unasked>>

(* The zero timer of receiveMessage().                                      *)
TakeMessage ==
    /\ Pumping /\ messages # <<>>
    /\ messages' = Tail(messages)
    /\ OpenProjectFiles(Head(messages))
    /\ UNCHANGED <<may, phase, views, received, queued, reopen, closing, snapshots,
                   counters, histories>>

-----------------------------------------------------------------------------
(* The start of the process, and what it opens by itself.                   *)

(* Started with a file, or without: then a window is opened in any case.    *)
StartProgram ==
    /\ phase \in {"off", "ended", "crashed"} /\ starts < MaxStarts
    /\ starts' = starts + 1 /\ phase' = "starting"
    /\ \E w \in Windows, f \in Files \union {None} :
         /\ w = CHOOSE v \in Windows : TRUE
         /\ windows' = [v \in Windows |-> IF v = w THEN "shown" ELSE "none"]
         /\ calls' = IF f = None THEN <<>> ELSE <<OpenCall(f, w, TRUE)>>
         /\ reopen' = (f = None)
    /\ queued' = TRUE
    /\ UNCHANGED <<may, views, messages, received, closing, snapshots, asked, histories>>

(* main() connects receivedMessage() and runs the event loop.               *)
Connect ==
    /\ phase = "starting" /\ calls = <<>>
    /\ phase' = "running"
    /\ UNCHANGED <<may, calls, program, closing, snapshots, counters, histories>>

(* Mutant: what was opened meanwhile is offered all the same.              *)
StaleFilesAll == snapshots

(* checkBackupFiles() leaves out what was opened meanwhile.                 *)
StaleFiles == snapshots \ FilesOf(Opened)

CheckBackupFiles ==
    /\ phase = "running" /\ queued /\ calls = <<>>
    /\ queued' = FALSE
    /\ Push([Start("restore", IF StaleFiles = {} THEN "next" ELSE "asks") EXCEPT
                !.left = StaleFiles])
    /\ UNCHANGED <<may, phase, windows, views, messages, received, reopen, closing,
                   snapshots, counters, histories>>

(* The user picks what to restore; the rest is deleted.  There is a window:  *)
(* none can be closed while the dialog is open.                             *)
AnswerRestore ==
    /\ phase = "running" /\ Innermost("restore", "asks") /\ Prompt
    /\ \E picked \in SUBSET Top.left, w \in Shown :
         /\ Become([Top EXCEPT !.at = "next", !.left = picked, !.window = w])
         /\ snapshots' = snapshots \ (Top.left \ picked)
    /\ UNCHANGED <<may, phase, program, closing, counters, histories>>

(* openBackupFiles(): what is restored has to be saved.                      *)
RestoreNext ==
    /\ phase = "running" /\ Innermost("restore", "next")
    /\ \E f \in Top.left :
         Become([Top EXCEPT !.at = "loads", !.file = f, !.left = @ \ {f}, !.waiting = TRUE])
    /\ UNCHANGED <<may, phase, program, closing, snapshots, counters, histories>>

RestoreEnds ==
    /\ phase = "running" /\ Innermost("restore", "loads")
    /\ snapshots' = snapshots \ {Top.file}
    /\ AddProject(Top.file, Top.window, TRUE) \/ UNCHANGED views
    /\ calls' = dropInstance(Append(Front(calls), [Top EXCEPT !.at = "next"]))
    /\ UNCHANGED <<may, phase, windows, requests, closing, counters, histories>>

(* reopenLastProjects(), unless a file was handed over meanwhile.            *)
Restored ==
    /\ phase = "running" /\ Innermost("restore", "next") /\ Top.left = {}
    /\ IF reopen /\ ~received
           THEN \E w \in diagramEditors :
                  Become([Start("reopen", "next") EXCEPT
                             !.window = w, !.left = openAtQuit \ FilesIn(diagramEditors)])
           ELSE Return
    /\ UNCHANGED <<may, phase, program, closing, snapshots, counters, histories>>

ReopenNext ==
    /\ phase = "running" /\ Innermost("reopen", "next")
    /\ IF Top.left = {}
           THEN Return
           ELSE \E f \in Top.left :
                  LET on == Append(Front(calls), [Top EXCEPT !.left = @ \ {f}]) IN
                  calls' = IF OpenInAWindow(f) THEN on ELSE Append(on, OpenCall(f, Top.window, FALSE))
    /\ UNCHANGED <<may, phase, program, closing, snapshots, counters, histories>>

-----------------------------------------------------------------------------
(* Closing.                                                                 *)

(* The event loop deletes closed windows with the views they still have;     *)
(* the projects of these views stay registered, and locked.                 *)
DeleteClosed ==
    /\ phase = "running" /\ calls = <<>> /\ Closed # {}
    /\ windows' = [w \in Windows |-> IF w \in Closed THEN "none" ELSE windows[w]]
    /\ LET strays == {p \in Opened : views[p].window \in Closed} IN
       /\ views' = [p \in Projects |->
                        IF p \in strays THEN [views[p] EXCEPT !.window = None] ELSE views[p]]
       /\ unasked' = unasked \union EditedFiles(strays)
    /\ UNCHANGED <<may, phase, calls, requests, closing, snapshots, counters, refused,
                   dropped>>

Command == phase = "running" /\ Prompt /\ asked < MaxRequests /\ asked' = asked + 1

(* closeEvent() lists the projects of the window before it asks for any.    *)
CloseCall(w) ==
    [Start("close", "next") EXCEPT
        !.window = w, !.left = openedProjects({w}), !.files = FilesIn({w})]

CloseWindow ==
    /\ Pumping /\ ~RefuseCloseWhileModal /\ Command
    /\ \E w \in Shown : Push(CloseCall(w))
    /\ leaving' = FilesIn(diagramEditors)
    /\ UNCHANGED <<may, phase, program, sleep, timers, openAtQuit, snapshots, starts,
                   histories>>

CloseTab ==
    /\ Pumping /\ calls = <<>> /\ Command
    /\ \E p \in Opened :
         /\ views[p].window \in Shown
         /\ Push([Start("close tab", "next") EXCEPT !.window = views[p].window, !.left = {p}])
    /\ UNCHANGED <<may, phase, program, closing, snapshots, starts, histories>>

(* quitQET(): closeEveryEditor() lists the files and the windows first.     *)
Quit ==
    /\ Pumping /\ ~RefuseCloseWhileModal /\ Command
    /\ Push([Start("quit", "next") EXCEPT
                !.left = diagramEditors, !.files = FilesIn(diagramEditors)])
    /\ leaving' = FilesIn(diagramEditors)
    /\ UNCHANGED <<may, phase, program, sleep, timers, openAtQuit, snapshots, starts,
                   histories>>

Closes(c) == c.call \in {"close tab", "close"}

(* ProjectView::tryClosing() asks if the project has changed.                *)
CloseNext ==
    /\ phase = "running" /\ calls # <<>> /\ Closes(Top) /\ Top.at = "next"
    /\ \E p \in Top.left :
         IF views[p].edited
             THEN Become([Top EXCEPT !.at = "asks", !.left = @ \ {p}, !.project = p])
                  /\ UNCHANGED views
             ELSE Become([Top EXCEPT !.left = @ \ {p}]) /\ views' = [views EXCEPT ![p] = None]
    /\ UNCHANGED <<may, phase, windows, requests, closing, snapshots, counters, histories>>

(* Mutant: closeEveryEditor() goes on with the next window.                 *)
CloseRefusedOnce == Return

(* A close that is refused ends the closing of its window and of the others. *)
CloseRefused ==
    LET below == Front(calls) IN
    calls' = IF below # <<>> /\ Last(below).call = "quit" THEN Front(below) ELSE below

(* Saved or discarded, or else (cancelled, not saved) it is refused.         *)
AnswerClose ==
    /\ phase = "running" /\ calls # <<>> /\ Closes(Top) /\ Top.at = "asks" /\ Prompt
    /\ \/ /\ Become([Top EXCEPT !.at = "next", !.project = None])
          /\ views' = [views EXCEPT ![Top.project] = None]
       \/ CloseRefused /\ UNCHANGED views
    /\ UNCHANGED <<may, phase, windows, requests, closing, snapshots, counters, histories>>

TabClosed ==
    /\ phase = "running" /\ Innermost("close tab", "next") /\ Top.left = {} /\ Return
    /\ UNCHANGED <<may, phase, program, closing, snapshots, counters, histories>>

(* Mutant: the window that closes is taken to count no longer.              *)
IsLastEditorEarly == Cardinality(diagramEditors) < 1

IsLastEditor == Cardinality(diagramEditors) <= 1

(* Qt emits lastWindowClosed(): the first call of checkRemainingWindows()    *)
(* only starts its timer, as this window still counts.                      *)
CloseAccepted ==
    /\ phase = "running" /\ Innermost("close", "next") /\ Top.left = {} /\ Return
    /\ openAtQuit' = IF IsLastEditor THEN Top.files ELSE openAtQuit
    /\ windows' = [windows EXCEPT ![Top.window] = "closed"]
    /\ IF Shown = {Top.window}
           THEN sleep' = ~sleep /\ timers' = (IF sleep THEN timers + 1 ELSE timers)
           ELSE UNCHANGED <<sleep, timers>>
    /\ UNCHANGED <<may, phase, views, requests, leaving, snapshots, counters, histories>>

-----------------------------------------------------------------------------
(* The end of the process.                                                  *)

Over(how) ==
    /\ phase' = how
    /\ calls' = <<>> /\ messages' = <<>>
    /\ windows' = [w \in Windows |-> "none"] /\ views' = [p \in Projects |-> None]
    /\ received' = FALSE /\ queued' = FALSE /\ reopen' = FALSE
    /\ sleep' = TRUE /\ timers' = 0

(* Mutant: only a closed window starts the timer.                           *)
TimersRunOut == timers - 1

(* The timer of checkRemainingWindows(): every other call starts it again.   *)
TimersLeft == IF sleep THEN timers ELSE timers - 1

HalfASecond ==
    /\ Pumping /\ timers > 0
    /\ IF ~sleep /\ diagramEditors = {}
           THEN Over("ended") /\ unasked' = unasked \union EditedFiles(Opened)
           ELSE /\ sleep' = ~sleep /\ timers' = TimersLeft
                /\ UNCHANGED <<phase, calls, program, unasked>>
    /\ UNCHANGED <<may, openAtQuit, leaving, snapshots, counters, refused, dropped>>

QuitNext ==
    /\ phase = "running" /\ Innermost("quit", "next")
    /\ \/ \E w \in Top.left :
            /\ calls' = Append(Front(calls), [Top EXCEPT !.left = @ \ {w}])
                        \o <<CloseCall(w)>>
            /\ UNCHANGED <<phase, program, sleep, timers, openAtQuit, unasked>>
       \/ /\ Top.left = {}
          /\ openAtQuit' = Top.files
          /\ Over("ended") /\ unasked' = unasked \union EditedFiles(Opened)
    /\ UNCHANGED <<may, leaving, snapshots, counters, refused, dropped>>

Breakdown ==
    /\ Over("crashed")
    /\ snapshots' = snapshots \union EditedFiles(Opened)
    /\ UNCHANGED <<may, openAtQuit, leaving, counters, histories>>

Crash == phase \in {"starting", "running"} /\ starts < MaxStarts /\ Breakdown

UseDangling == phase \in {"starting", "running"} /\ calls # <<>> /\ Dangling(Top) /\ Breakdown

-----------------------------------------------------------------------------
(* What the user does while nothing is open on top of the windows.           *)

NewWindow ==
    /\ Pumping /\ calls = <<>> /\ Command
    /\ \E w \in Unused : windows' = [windows EXCEPT ![w] = "shown"]
    /\ UNCHANGED <<may, phase, calls, views, requests, closing, snapshots, starts,
                   histories>>

OpenProject ==
    /\ Pumping /\ calls = <<>> /\ Command
    /\ \E w \in Shown, f \in Files :
         /\ "again" \in may \/ ~OnItsWay(f)
         /\ OpenAndAddProject(f, w, TRUE)
    /\ UNCHANGED <<may, phase, program, closing, snapshots, starts, histories>>

Edit ==
    /\ Pumping /\ calls = <<>> /\ Command
    /\ \E p \in Opened :
         /\ views[p].window \in Shown
         /\ views' = [views EXCEPT ![p].edited = ~@]
    /\ UNCHANGED <<may, phase, calls, windows, requests, closing, snapshots, starts,
                   histories>>

Work ==
    \/ Connect \/ TakeMessage \/ CheckBackupFiles \/ RestoreNext \/ RestoreEnds \/ Restored
    \/ ReopenNext \/ LoadEnds \/ DeleteClosed \/ CloseNext \/ TabClosed \/ CloseAccepted
    \/ HalfASecond \/ QuitNext

Answer == AnswerOpen \/ AnswerTold \/ AnswerRestore \/ AnswerClose

Next ==
    \/ Work \/ Answer
    \/ StartProgram \/ Crash \/ UseDangling
    \/ \E f \in Files : HandOver(f)
    \/ NewWindow \/ OpenProject \/ Edit \/ CloseWindow \/ CloseTab \/ Quit

Spec == Init /\ [][Next]_vars

(* The event loop runs what is due, and the user answers what is asked.      *)
FairSpec == Spec /\ WF_vars(Work) /\ WF_vars(Answer)

-----------------------------------------------------------------------------
(* Properties.                                                              *)

(* Unsaved edits never go with a window or with the program unless their     *)
(* user was asked about that project (closeEvent(), "demande la permission  *)
(* de fermer chaque projet").                                               *)
AskedBeforeGone == unasked = {}

(* A file has one project at a time (openAndAddProject(), "Check if project  *)
(* is not open in another editor"), if nobody asks for a file again that is *)
(* being opened.                                                            *)
OneProjectPerFile ==
    may \intersect {"again", "closing"} = {} =>
        \A p, q \in Opened : views[p].file = views[q].file => p = q

(* A window outlives the calls that were begun in it (issue #904), and the   *)
(* projects in it.                                                          *)
WindowsOutlive ==
    "closing" \notin may =>
        /\ \A i \in DOMAIN calls : calls[i].window # None => calls[i].window \in Shown
        /\ \A p \in Opened : views[p].window \in Shown

(* What the next start reopens is what was open when the user last began to  *)
(* leave: closing one of several windows in mid-session keeps nothing, a    *)
(* quit that was cancelled is forgotten (QETApp::reopenLastProjects()).     *)
ReopensWhatWasOpen == phase = "ended" => openAtQuit = leaving

(* A file handed over to a program that listens is opened, or its user       *)
(* cancelled it (receiveMessage()).                                         *)
HandedOverIsOpened ==
    \A f \in Files :
        f \in Range(messages) ~> f \in FilesIn(Windows) \/ f \in refused \/ phase # "running"

(* A program whose last window was closed ends (checkRemainingWindows()).    *)
EndsWithoutWindows ==
    (phase = "running" /\ calls = <<>> /\ messages = <<>> /\ Shown = {}) ~>
        (phase # "running" \/ Shown # {})

(* The constructor of QETApp defers its dialogs so that no file is "dropped   *)
(* on the floor".                                                           *)
NothingDropped == dropped = {}

(* "a nested openAndAddProject() gets its own window and this one resumes    *)
(* unharmed".                                                               *)
LoadsResumeUnharmed == calls # <<>> => ~Dangling(Top)
=============================================================================
