------------------------ MODULE SingleInstanceProofs ------------------------
(***************************************************************************)
(* Proofs about SingleInstance, for any files, windows and projects, and    *)
(* any number of starts and requests.                                       *)
(***************************************************************************)
EXTENDS SingleInstance, SequenceTheorems, FiniteSetTheorems, TLAPS

USE BoundsAssumption

-----------------------------------------------------------------------------
(* The stack of calls.  All that is said of a call here is what Alike calls *)
(* have in common: dropInstance() changes nothing of it.                    *)

Alike(c, d) ==
    /\ c.call = d.call /\ c.at = d.at /\ c.file = d.file /\ c.window = d.window
    /\ c.project = d.project /\ c.left = d.left /\ c.files = d.files

(* The stack is as it was below its m-th call, and that one is c; it is the  *)
(* first m calls of what it was.                                            *)
Topped(m, c) ==
    /\ calls' \in Seq(Call) /\ m \in Nat \ {0} /\ Len(calls') = m
    /\ \A i \in 1 .. m : i # m => i \in 1 .. Len(calls) /\ Alike(calls'[i], calls[i])
    /\ Alike(calls'[m], c)

Cut(m) ==
    /\ calls' \in Seq(Call) /\ m \in 0 .. Len(calls) /\ Len(calls') = m
    /\ \A i \in 1 .. m : Alike(calls'[i], calls[i])

LEMMA SeqOfCalls ==
    ASSUME NEW s \in Seq(Call)
    PROVE  Len(s) \in Nat /\ DOMAIN s = 1 .. Len(s) /\ (s # <<>> <=> Len(s) > 0)
<1>1. Len(s) \in Nat /\ DOMAIN s = 1 .. Len(s)
  BY LenProperties
<1> QED
  BY <1>1, EmptySeq

LEMMA CallsAreCalls ==
    ASSUME calls \in Seq(Call)
    PROVE  /\ Len(calls) \in Nat
           /\ DOMAIN calls = 1 .. Len(calls)
           /\ \A i \in 1 .. Len(calls) : calls[i] \in Call
           /\ calls # <<>> <=> Len(calls) > 0
           /\ calls # <<>> => Top = calls[Len(calls)] /\ Top \in Call
<1>1. Len(calls) \in Nat /\ DOMAIN calls = 1 .. Len(calls)
  BY LenProperties
<1>2. \A i \in 1 .. Len(calls) : calls[i] \in Call
  BY ElementOfSeq
<1>3. calls # <<>> <=> Len(calls) > 0
  BY <1>1, EmptySeq
<1> QED
  BY <1>1, <1>2, <1>3 DEF Top, Last

LEMMA FrontOfCalls ==
    ASSUME NEW s \in Seq(Call), s # <<>>
    PROVE  /\ Front(s) \in Seq(Call)
           /\ Len(Front(s)) = Len(s) - 1
           /\ \A i \in 1 .. Len(s) - 1 : Front(s)[i] = s[i]
<1>1. Len(s) \in Nat /\ Len(s) > 0 /\ \A i \in 1 .. Len(s) : s[i] \in Call
  BY LenProperties, EmptySeq, ElementOfSeq
<1> DEFINE n == Len(s) - 1
<1>2. n \in Int /\ 1 \in Int /\ \A i \in 1 .. n : s[i] \in Call
  BY <1>1
<1>3. /\ SubSeq(s, 1, n) \in Seq(Call)
      /\ Len(SubSeq(s, 1, n)) = IF 1 <= n THEN n - 1 + 1 ELSE 0
      /\ \A i \in 1 .. n - 1 + 1 : SubSeq(s, 1, n)[i] = s[1 + i - 1]
  BY <1>2, SubSeqProperties
<1>4. Front(s) = SubSeq(s, 1, n)
  BY DEF Front
<1> DEFINE f == SubSeq(s, 1, n)
<1> HIDE DEF n, f
<1>5. n = Len(s) - 1
  BY DEF n
<1>6. f \in Seq(Call) /\ Len(f) = n /\ \A i \in 1 .. n : f[i] = s[i]
  BY <1>1, <1>3, <1>5 DEF f
<1> QED
  BY <1>4, <1>5, <1>6 DEF f

LEMMA DroppedIsAlike ==
    ASSUME NEW s \in Seq(Call)
    PROVE  /\ dropInstance(s) \in Seq(Call)
           /\ Len(dropInstance(s)) = Len(s)
           /\ \A i \in 1 .. Len(s) : Alike(dropInstance(s)[i], s[i])
<1> DEFINE d == [i \in 1 .. Len(s) |-> [s[i] EXCEPT !.waiting = FALSE]]
<1>1. Len(s) \in Nat /\ DOMAIN s = 1 .. Len(s)
  BY LenProperties
<1>2. \A i \in 1 .. Len(s) : s[i] \in Call
  BY ElementOfSeq
<1>3. \A i \in 1 .. Len(s) : [s[i] EXCEPT !.waiting = FALSE] \in Call
  BY <1>2 DEF Call
<1>4. d \in [1 .. Len(s) -> Call]
  BY <1>3
<1>5. d \in Seq(Call)
  BY <1>1, <1>4, SeqDef
<1>6. Len(d) = Len(s)
  BY <1>1, <1>5, LenProperties
<1>7. \A i \in 1 .. Len(s) : Alike(d[i], s[i])
  BY <1>2 DEF Call, Alike
<1>8. dropInstance(s) = d
  BY <1>1 DEF dropInstance
<1> QED
  BY <1>5, <1>6, <1>7, <1>8

LEMMA AlikeItself == ASSUME NEW c PROVE Alike(c, c)
BY DEF Alike

LEMMA PushIs ==
    ASSUME calls \in Seq(Call), NEW c \in Call, Push(c) PROVE Topped(Len(calls) + 1, c)
<1> DEFINE n == Len(calls)
<1>1. n \in Nat
  BY CallsAreCalls
<1>2. /\ calls' \in Seq(Call) /\ Len(calls') = n + 1 /\ calls'[n + 1] = c
      /\ \A i \in 1 .. n : calls'[i] = calls[i]
  BY AppendProperties DEF Push
<1> HIDE DEF n
<1>3. \A i \in 1 .. n + 1 : i # n + 1 => i \in 1 .. n
  BY <1>1
<1> QED
  BY <1>1, <1>2, <1>3, AlikeItself DEF Topped, n

LEMMA BecomeIs ==
    ASSUME calls \in Seq(Call), calls # <<>>, NEW c \in Call, Become(c)
    PROVE  Topped(Len(calls), c)
<1> DEFINE n == Len(calls)
<1>1. n \in Nat /\ n \in 1 .. n
  BY CallsAreCalls
<1>2. /\ calls' \in Seq(Call) /\ Len(calls') = n
      /\ \A i \in 1 .. n : calls'[i] = IF i = n THEN c ELSE calls[i]
  BY <1>1, ExceptSeq DEF Become
<1> HIDE DEF n
<1>3. calls'[n] = c /\ \A i \in 1 .. n : i # n => calls'[i] = calls[i]
  BY <1>1, <1>2
<1> QED
  BY <1>1, <1>2, <1>3, AlikeItself DEF Topped, n

(* Other ways to write what takes the place of the innermost call.          *)
LEMMA SwapIs ==
    ASSUME calls \in Seq(Call), calls # <<>>, NEW c \in Call, NEW d \in Call
    PROVE  /\ calls' = Append(Front(calls), c) => Topped(Len(calls), c)
           /\ calls' = dropInstance(Append(Front(calls), c)) => Topped(Len(calls), c)
           /\ calls' = Front(calls) => Cut(Len(calls) - 1)
           /\ calls' = dropInstance(Front(calls)) => Cut(Len(calls) - 1)
           /\ \/ calls' = Append(Append(Front(calls), c), d)
              \/ calls' = Append(Front(calls), c) \o <<d>>
              => /\ calls' \in Seq(Call) /\ Len(calls') = Len(calls) + 1
                 /\ Alike(calls'[Len(calls)], c) /\ Alike(calls'[Len(calls) + 1], d)
<1> DEFINE f == Front(calls)
           a == Append(f, c)
           b == Append(a, d)
           n == Len(calls)
<1>1. n \in Nat /\ n > 0
  BY CallsAreCalls
<1>2. f \in Seq(Call) /\ Len(f) = n - 1 /\ \A i \in 1 .. n - 1 : f[i] = calls[i]
  BY FrontOfCalls
<1> HIDE DEF f, n
<1>3. a \in Seq(Call) /\ Len(a) = n /\ a[n] = c /\ \A i \in 1 .. n - 1 : a[i] = calls[i]
  BY <1>1, <1>2, AppendProperties
<1> HIDE DEF a
<1>4. b \in Seq(Call) /\ Len(b) = n + 1 /\ b[n + 1] = d /\ \A i \in 1 .. n : b[i] = a[i]
  BY <1>1, <1>3, AppendProperties
<1>5. a \o <<d>> = b
  BY <1>3, AppendIsConcat
<1> HIDE DEF b
<1>6. \A i \in 1 .. n : i # n => i \in 1 .. n - 1
  BY <1>1
<1>7. ASSUME calls' = a PROVE Topped(n, c)
  BY <1>1, <1>3, <1>6, <1>7, AlikeItself DEF Topped, n
<1>8. ASSUME calls' = dropInstance(a) PROVE Topped(n, c)
  <2>1. /\ calls' \in Seq(Call) /\ Len(calls') = n
        /\ \A i \in 1 .. n : Alike(calls'[i], a[i])
    BY <1>3, <1>8, DroppedIsAlike
  <2>2. Alike(calls'[n], c)
    BY <1>1, <1>3, <2>1
  <2>3. \A i \in 1 .. n : i # n => Alike(calls'[i], calls[i])
    BY <1>3, <1>6, <2>1
  <2> QED
    BY <1>1, <2>1, <2>2, <2>3 DEF Topped, n
<1>9. ASSUME calls' = f PROVE Cut(n - 1)
  BY <1>1, <1>2, <1>9, AlikeItself DEF Cut, n
<1>10. ASSUME calls' = dropInstance(f) PROVE Cut(n - 1)
  <2>1. /\ calls' \in Seq(Call) /\ Len(calls') = n - 1
        /\ \A i \in 1 .. n - 1 : Alike(calls'[i], f[i])
    BY <1>2, <1>10, DroppedIsAlike
  <2> QED
    BY <1>1, <1>2, <2>1 DEF Cut, n
<1>11. ASSUME calls' = b
       PROVE  /\ calls' \in Seq(Call) /\ Len(calls') = n + 1
              /\ Alike(calls'[n], c) /\ Alike(calls'[n + 1], d)
  <2>1. b[n] = c
    BY <1>1, <1>3, <1>4
  <2> QED
    BY <1>4, <1>11, <2>1, AlikeItself
<1> QED
  BY <1>5, <1>7, <1>8, <1>9, <1>10, <1>11 DEF f, a, b, n

-----------------------------------------------------------------------------
(* The invariant.                                                           *)

Closing == {"close tab", "close", "quit"}

(* What a call of each kind is about.                                       *)
CallOK(c) ==
    /\ c.call = "open" =>
        c.at \in {"asks", "loads", "tells"} /\ c.file \in Files /\ c.window \in Windows
    /\ c.call = "restore" =>
        /\ c.at \in {"next", "asks", "loads"} /\ c.left \subseteq Files
        /\ c.at = "loads" => c.file \in Files /\ c.window \in Windows
        /\ c.at = "next" => c.left = {} \/ c.window \in Windows
    /\ c.call = "reopen" => c.at = "next" /\ c.left \subseteq Files /\ c.window \in Windows
    /\ c.call \in {"close tab", "close"} =>
        /\ c.left \subseteq Projects /\ c.window \in Windows
        /\ \/ c.at = "next" /\ c.project = None
           \/ c.at = "asks" /\ c.project \in Projects
    /\ c.call = "quit" => c.at = "next" /\ c.left \subseteq Windows /\ c.window = None

CallsOK == \A i \in 1 .. Len(calls) : CallOK(calls[i])

(* Nothing is left of a process that is not there; nothing is handed over   *)
(* to one that is being constructed, or is about to check what is left.     *)
Life ==
    /\ phase \notin {"starting", "running"} =>
        calls = <<>> /\ Opened = {} /\ Shown = {} /\ Closed = {} /\ ~queued
    /\ phase = "starting" => queued /\ Shown # {}
    /\ queued => /\ messages = <<>> /\ Closed = {} /\ Len(calls) <= 1
                 /\ \A i \in 1 .. Len(calls) : calls[i].call = "open"
    /\ queued /\ phase = "running" => calls = <<>>
    /\ messages # <<>> => received /\ phase = "running"

(* What may run inside what: only files are opened inside other calls, and  *)
(* windows closed inside a quit.                                            *)
Nesting ==
    /\ \A i \in 2 .. Len(calls) :
          calls[i].call = IF i = 2 /\ calls[1].call = "quit" THEN "close" ELSE "open"
    /\ "closing" \notin may /\ calls # <<>> /\ calls[1].call \in Closing =>
        messages = <<>> /\ \A i \in 1 .. Len(calls) : calls[i].call \in Closing

(* The windows of all calls are shown; a quit has every window still to     *)
(* close, but for that it is closing.                                       *)
InShown ==
    /\ \A i \in 1 .. Len(calls) : calls[i].window # None => calls[i].window \in Shown
    /\ calls # <<>> /\ calls[1].call # "quit" => Closed = {}
    /\ calls # <<>> /\ calls[1].call = "quit" =>
        calls[1].left = Shown \ (IF Len(calls) = 1 THEN {} ELSE {calls[2].window})

(* The projects no window may take with it unasked: those with edits, and   *)
(* all of them if nothing can be opened while a close asks.                 *)
Kept(p) == views[p].edited \/ "closing" \notin may

AskedFor ==
    /\ unasked = {}
    /\ \A p \in Opened : Kept(p) => views[p].window \in Shown
    /\ \A i \in 1 .. Len(calls) : calls[i].call = "close" =>
        \A p \in Opened : Kept(p) /\ views[p].window = calls[i].window =>
            p \in calls[i].left \union {calls[i].project}

(* What a quit, or the close of the last window, will leave open.           *)
Leaving ==
    /\ phase = "ended" => openAtQuit = leaving
    /\ phase = "running" /\ Shown = {} /\ (calls = <<>> \/ calls[1].call # "quit") =>
        openAtQuit = leaving
    /\ calls # <<>> /\ calls[1].call = "quit" => calls[1].files = leaving
    /\ calls # <<>> /\ calls[1].call = "close" /\ Shown = {calls[1].window} =>
        calls[1].files = leaving

(* The files on their way to a project are different from each other, and   *)
(* where nobody looks again, from those that are open.                      *)
Patient == may \intersect {"again", "closing"} = {}

Opening(c) ==
    \/ c.call = "open" /\ c.at \in {"asks", "loads"}
    \/ c.call = "restore" /\ c.at = "loads"

Listing(c) == c.call \in {"restore", "reopen"}

Apart ==
    /\ \A p, q \in Opened : views[p].file = views[q].file => p = q
    /\ \A i, j \in 1 .. Len(messages) : messages[i] = messages[j] => i = j
    /\ \A i \in 1 .. Len(calls) : Opening(calls[i]) =>
        /\ calls[i].file \notin Range(messages)
        /\ \A p \in Opened : views[p].file # calls[i].file
        /\ \A j \in 1 .. Len(calls) : Opening(calls[j]) /\ calls[j].file = calls[i].file => i = j
        /\ Listing(calls[1]) => calls[i].file \notin calls[1].left
    /\ calls # <<>> /\ Listing(calls[1]) => calls[1].left \intersect Range(messages) = {}
    /\ calls # <<>> /\ calls[1].call = "restore" =>
        \A p \in Opened : views[p].file \notin calls[1].left

IInv ==
    /\ TypeOK /\ CallsOK /\ Life /\ Nesting /\ InShown /\ AskedFor /\ Leaving
    /\ Patient => Apart

-----------------------------------------------------------------------------
(* What a change of the stack keeps.                                        *)

LEMMA AlikeIsOK == ASSUME NEW c, NEW d, Alike(c, d), CallOK(d) PROVE CallOK(c)
BY DEF Alike, CallOK

LEMMA ToppedIsOK ==
    ASSUME CallsOK, NEW m, NEW c, CallOK(c), Topped(m, c) PROVE CallsOK'
BY AlikeIsOK DEF CallsOK, Topped

LEMMA CutIsOK ==
    ASSUME calls \in Seq(Call), CallsOK, NEW m, Cut(m) PROVE CallsOK'
<1>1. \A i \in 1 .. m : i \in 1 .. Len(calls)
  BY CallsAreCalls DEF Cut
<1> QED
  BY <1>1, AlikeIsOK DEF CallsOK, Cut

(* The bottom of the stack.                                                 *)
LEMMA BottomOf ==
    ASSUME calls \in Seq(Call), NEW m, NEW c, Topped(m, c)
    PROVE  /\ calls' # <<>>
           /\ m = 1 => Alike(calls'[1], c)
           /\ m # 1 => calls # <<>> /\ Alike(calls'[1], calls[1])
           /\ m \notin {1, 2} => Len(calls) > 1 /\ Alike(calls'[2], calls[2])
<1>1. calls' # <<>>
  BY SeqOfCalls DEF Topped
<1>2. m # 1 => 1 \in 1 .. m /\ 1 # m
  BY DEF Topped
<1>3. m \notin {1, 2} => 2 \in 1 .. m /\ 2 # m
  BY DEF Topped
<1>4. Len(calls) \in Nat
  BY CallsAreCalls
<1> QED
  BY <1>1, <1>2, <1>3, <1>4, CallsAreCalls DEF Topped

LEMMA BottomOfCut ==
    ASSUME calls \in Seq(Call), NEW m, Cut(m)
    PROVE  /\ calls' # <<>> <=> m > 0
           /\ m > 0 => calls # <<>> /\ Alike(calls'[1], calls[1])
           /\ m > 1 => Alike(calls'[2], calls[2]) /\ Len(calls) > 1
<1>1. m \in Nat /\ Len(calls) \in Nat /\ m <= Len(calls)
  BY CallsAreCalls DEF Cut
<1> QED
  BY <1>1, SeqOfCalls, CallsAreCalls DEF Cut

LEMMA ToppedNesting ==
    ASSUME calls \in Seq(Call), Nesting, NEW m, NEW c, Topped(m, c), may' = may,
           m # 1 => c.call = IF m = 2 /\ calls[1].call = "quit" THEN "close" ELSE "open",
           "closing" \notin may /\ (IF m = 1 THEN c ELSE calls[1]).call \in Closing
               => messages' = <<>> /\ c.call \in Closing
    PROVE  Nesting'
<1>1. /\ calls' # <<>>
      /\ m = 1 => calls'[1].call = c.call
      /\ m # 1 => calls # <<>> /\ calls'[1].call = calls[1].call
  BY BottomOf DEF Alike
<1>2. /\ Len(calls') = m /\ m \in Nat /\ calls'[m].call = c.call
      /\ \A i \in 1 .. m : i # m => i \in 1 .. Len(calls) /\ calls'[i].call = calls[i].call
  BY DEF Topped, Alike
<1>3. ASSUME NEW i \in 2 .. m
      PROVE  calls'[i].call = IF i = 2 /\ calls'[1].call = "quit" THEN "close" ELSE "open"
  <2>1. m # 1 /\ i \in 1 .. m
    BY <1>2
  <2>2. CASE i = m
    BY <1>1, <1>2, <2>1, <2>2
  <2>3. CASE i # m
    <3>1. i \in 2 .. Len(calls)
      BY <1>2, <2>1, <2>3, CallsAreCalls
    <3> QED
      BY <1>1, <1>2, <2>1, <2>3, <3>1 DEF Nesting
  <2> QED
    BY <2>2, <2>3
<1>4. ASSUME "closing" \notin may, calls'[1].call \in Closing
      PROVE  messages' = <<>> /\ \A i \in 1 .. m : calls'[i].call \in Closing
  <2>1. messages' = <<>> /\ c.call \in Closing
    BY <1>1, <1>4
  <2>2. ASSUME NEW i \in 1 .. m, i # m PROVE calls'[i].call \in Closing
    <3>1. m # 1
      BY <1>2, <2>2
    <3> QED
      BY <1>1, <1>2, <1>4, <2>2, <3>1 DEF Nesting
  <2> QED
    BY <1>2, <2>1, <2>2
<1> QED
  BY <1>1, <1>2, <1>3, <1>4 DEF Nesting

LEMMA CutNesting ==
    ASSUME calls \in Seq(Call), Nesting, NEW m, Cut(m), may' = may, messages' = messages
    PROVE  Nesting'
<1>1. m \in Nat /\ Len(calls) \in Nat /\ m <= Len(calls) /\ Len(calls') = m
      /\ \A i \in 1 .. m : i \in 1 .. Len(calls) /\ calls'[i].call = calls[i].call
  BY CallsAreCalls DEF Cut, Alike
<1>2. calls' # <<>> => 1 \in 1 .. m /\ calls # <<>>
  BY <1>1, BottomOfCut
<1>3. ASSUME NEW i \in 2 .. m
      PROVE  calls'[i].call = IF i = 2 /\ calls'[1].call = "quit" THEN "close" ELSE "open"
  <2>1. 1 \in 1 .. m /\ i \in 1 .. m /\ i \in 2 .. Len(calls)
    BY <1>1
  <2> QED
    BY <1>1, <2>1 DEF Nesting
<1> QED
  BY <1>1, <1>2, <1>3 DEF Nesting

(* Whether there is a process does not change.                              *)
LEMMA ToppedLife ==
    ASSUME calls \in Seq(Call), Life, NEW m, NEW c, Topped(m, c),
           UNCHANGED <<phase, messages, received, queued>>, Shown \subseteq Shown', Closed' = Closed,
           phase \in {"starting", "running"},
           queued => phase = "starting" /\ m = 1 /\ c.call = "open"
    PROVE  Life'
BY BottomOf DEF Life, Topped, Alike

LEMMA CutLife ==
    ASSUME calls \in Seq(Call), Life, NEW m, Cut(m),
           UNCHANGED <<phase, messages, received, queued, windows>>, phase \in {"starting", "running"}
    PROVE  Life'
<1>1. m \in Nat /\ Len(calls) \in Nat /\ m <= Len(calls) /\ Len(calls') = m
      /\ \A i \in 1 .. m : i \in 1 .. Len(calls) /\ calls'[i].call = calls[i].call
  BY CallsAreCalls DEF Cut, Alike
<1>2. calls = <<>> => calls' = <<>>
  BY <1>1, BottomOfCut
<1> QED
  BY <1>1, <1>2 DEF Life, Shown, Closed

LEMMA ToppedInShown ==
    ASSUME calls \in Seq(Call), InShown, NEW m, NEW c, Topped(m, c), UNCHANGED windows,
           c.window # None => c.window \in Shown,
           m = 1 => IF c.call = "quit" THEN c.left = Shown ELSE Closed = {},
           m = 2 /\ calls[1].call = "quit" => Len(calls) > 1 /\ c.window = calls[2].window
    PROVE  InShown'
<1>1. Shown' = Shown /\ Closed' = Closed
  BY DEF Shown, Closed
<1>2. /\ Len(calls') = m /\ m \in Nat \ {0}
      /\ \A i \in 1 .. m : i # m => i \in 1 .. Len(calls) /\ calls'[i].window = calls[i].window
      /\ calls'[m].window = c.window
  BY DEF Topped, Alike
<1>3. \A i \in 1 .. m : calls'[i].window # None => calls'[i].window \in Shown
  BY <1>2 DEF InShown
<1>4. CASE m = 1
  BY <1>1, <1>2, <1>3, <1>4, BottomOf DEF InShown, Alike
<1>5. CASE m # 1
  <2>1. calls # <<>> /\ Alike(calls'[1], calls[1])
    BY <1>5, BottomOf
  <2>2. calls[1].call = "quit" => Len(calls) > 1 /\ calls'[2].window = calls[2].window
    <3>1. CASE m = 2
      BY <1>2, <3>1
    <3>2. CASE m # 2
      BY <1>5, <3>2, BottomOf DEF Alike
    <3> QED
      BY <3>1, <3>2
  <2> QED
    BY <1>1, <1>2, <1>3, <1>5, <2>1, <2>2, CallsAreCalls DEF InShown, Alike
<1> QED
  BY <1>4, <1>5

LEMMA CutInShown ==
    ASSUME calls \in Seq(Call), InShown, NEW m, Cut(m), UNCHANGED windows,
           m = 1 => calls[1].call # "quit"
    PROVE  InShown'
<1>1. Shown' = Shown /\ Closed' = Closed
  BY DEF Shown, Closed
<1>2. m \in Nat /\ Len(calls) \in Nat /\ m <= Len(calls) /\ Len(calls') = m
      /\ \A i \in 1 .. m : i \in 1 .. Len(calls) /\ calls'[i].window = calls[i].window
  BY CallsAreCalls DEF Cut, Alike
<1>3. CASE m = 0
  BY <1>2, <1>3, BottomOfCut DEF InShown
<1>4. CASE m = 1
  BY <1>1, <1>2, <1>4, BottomOfCut DEF InShown, Alike
<1>5. CASE m > 1
  BY <1>1, <1>2, <1>5, BottomOfCut DEF InShown, Alike
<1> QED
  BY <1>2, <1>3, <1>4, <1>5

LEMMA ToppedLeaving ==
    ASSUME calls \in Seq(Call), Leaving, NEW m, NEW c, Topped(m, c), UNCHANGED <<windows, phase, openAtQuit, leaving>>,
           m = 1 => /\ calls # <<>> => calls[1].call # "quit"
                    /\ c.call # "quit"
                    /\ c.call = "close" => /\ calls # <<>> /\ calls[1].call = "close"
                                           /\ c.window = calls[1].window /\ c.files = calls[1].files
    PROVE  Leaving'
<1>1. Shown' = Shown
  BY DEF Shown
<1>2. CASE m = 1
  BY <1>1, <1>2, BottomOf DEF Leaving, Alike
<1>3. CASE m # 1
  BY <1>1, <1>3, BottomOf DEF Leaving, Alike
<1> QED
  BY <1>2, <1>3

LEMMA CutLeaving ==
    ASSUME calls \in Seq(Call), Leaving, NEW m, Cut(m), UNCHANGED <<windows, phase, openAtQuit, leaving>>,
           m = 0 /\ calls # <<>> => Shown # {} \/ calls[1].call # "quit"
    PROVE  Leaving'
<1>1. Shown' = Shown
  BY DEF Shown
<1>2. m \in Nat
  BY DEF Cut
<1>3. CASE m = 0
  BY <1>1, <1>2, <1>3, BottomOfCut DEF Leaving
<1>4. CASE m > 0
  BY <1>1, <1>2, <1>4, BottomOfCut DEF Leaving, Alike
<1> QED
  BY <1>2, <1>3, <1>4

(* The calls that close windows are those there were, and no project is     *)
(* added that they would have to ask about.                                 *)
OldCloses ==
    \A i \in 1 .. Len(calls') : calls'[i].call = "close" =>
        /\ i \in 1 .. Len(calls) /\ calls[i].call = "close" /\ calls'[i].window = calls[i].window
        /\ calls'[i].left = calls[i].left /\ calls'[i].project = calls[i].project

LEMMA OldClosesAsked ==
    ASSUME AskedFor, OldCloses, UNCHANGED <<may, unasked>>, Shown \subseteq Shown',
           \A p \in Opened' : p \in Opened /\ views'[p] = views[p]
    PROVE  AskedFor'
BY DEF AskedFor, OldCloses, Kept

LEMMA ToppedOldCloses ==
    ASSUME NEW m, NEW c, Topped(m, c), c.call # "close" PROVE OldCloses
BY DEF Topped, OldCloses, Alike

LEMMA CutOldCloses ==
    ASSUME calls \in Seq(Call), NEW m, Cut(m) PROVE OldCloses
<1>1. m \in Nat /\ Len(calls) \in Nat /\ m <= Len(calls)
  BY CallsAreCalls DEF Cut
<1> QED
  BY <1>1 DEF Cut, OldCloses, Alike

(* No file is on a new way to a project.                                    *)
OldOpenings ==
    \A i \in 1 .. Len(calls') : Opening(calls'[i]) =>
        i \in 1 .. Len(calls) /\ Opening(calls[i]) /\ calls'[i].file = calls[i].file

OldList ==
    calls' # <<>> /\ Listing(calls'[1]) =>
        /\ calls # <<>> /\ calls'[1].call = calls[1].call
        /\ calls'[1].left \subseteq calls[1].left

OldMessages ==
    /\ \A i, j \in 1 .. Len(messages') : messages'[i] = messages'[j] => i = j
    /\ Range(messages') \subseteq Range(messages)

OldProjects == \A p \in Opened' : p \in Opened /\ views'[p].file = views[p].file

LEMMA ApartKept ==
    ASSUME Apart, OldOpenings, OldList, OldMessages, OldProjects, calls \in Seq(Call),
           calls' \in Seq(Call)
    PROVE  Apart'
<1>1. \A i \in 1 .. Len(calls') : calls' # <<>>
  BY SeqOfCalls
<1> QED
  BY <1>1 DEF Apart, OldOpenings, OldList, OldMessages, OldProjects, Listing

(* The file of a call that is no longer opening it has a project.           *)
LEMMA ApartOpened ==
    ASSUME Apart, OldOpenings, OldList, OldMessages, NEW k \in 1 .. Len(calls), Opening(calls[k]),
           NEW q, \A p \in Opened' : \/ p = q /\ views'[p].file = calls[k].file
                                     \/ p \in Opened /\ views'[p].file = views[p].file,
           ~(k \in 1 .. Len(calls') /\ Opening(calls'[k])), calls \in Seq(Call), calls' \in Seq(Call)
    PROVE  Apart'
<1>1. \A i \in 1 .. Len(calls') : calls' # <<>>
  BY SeqOfCalls
<1>2. \A p \in Opened : views[p].file # calls[k].file
  BY DEF Apart
<1>3. \A i \in 1 .. Len(calls') : Opening(calls'[i]) => calls'[i].file # calls[k].file
  BY DEF Apart, OldOpenings
<1>4. \A p, r \in Opened' : views'[p].file = views'[r].file => p = r
  BY <1>2 DEF Apart
<1>5. calls' # <<>> /\ Listing(calls'[1]) => calls[k].file \notin calls'[1].left
  BY DEF Apart, OldList, Listing
<1> QED
  BY <1>1, <1>2, <1>3, <1>4, <1>5 DEF Apart, OldOpenings, OldList, OldMessages, Listing

LEMMA ToppedOldOpenings ==
    ASSUME calls \in Seq(Call), NEW m, NEW c, Topped(m, c),
           Opening(c) => m \in 1 .. Len(calls) /\ Opening(calls[m]) /\ c.file = calls[m].file
    PROVE  OldOpenings
BY DEF Topped, OldOpenings, Opening, Alike

LEMMA CutOldOpenings ==
    ASSUME calls \in Seq(Call), NEW m, Cut(m) PROVE OldOpenings /\ OldList
<1>1. m \in Nat /\ Len(calls) \in Nat /\ m <= Len(calls)
  BY CallsAreCalls DEF Cut
<1>2. calls' # <<>> => calls # <<>> /\ Alike(calls'[1], calls[1])
  BY <1>1, BottomOfCut
<1> QED
  BY <1>1, <1>2 DEF Cut, OldOpenings, OldList, Opening, Listing, Alike

LEMMA ToppedOldList ==
    ASSUME calls \in Seq(Call), NEW m, NEW c, Topped(m, c),
           m = 1 /\ Listing(c) => /\ calls # <<>> /\ c.call = calls[1].call
                                  /\ c.left \subseteq calls[1].left
    PROVE  OldList
BY BottomOf DEF OldList, Listing, Alike

(* One more file is on its way.                                             *)
LEMMA ApartTopped ==
    ASSUME calls \in Seq(Call), Apart, NEW m, NEW c, Topped(m, c), Opening(c), OldList, OldMessages,
           OldProjects, c.file \notin Range(messages'),
           \A p \in Opened : views[p].file # c.file,
           \A j \in 1 .. Len(calls) : Opening(calls[j]) /\ j # m => calls[j].file # c.file,
           Listing(calls'[1]) => c.file \notin calls'[1].left
    PROVE  Apart'
<1>1. \A i \in 1 .. Len(calls') : calls' # <<>>
  BY SeqOfCalls DEF Topped
<1>2. Len(calls') = m /\ Opening(calls'[m]) /\ calls'[m].file = c.file
  BY DEF Topped, Opening, Alike
<1>3. \A i \in 1 .. m : i # m /\ Opening(calls'[i]) =>
        i \in 1 .. Len(calls) /\ Opening(calls[i]) /\ calls'[i].file = calls[i].file
  BY DEF Topped, Opening, Alike
<1> QED
  BY <1>1, <1>2, <1>3 DEF Apart, OldList, OldMessages, OldProjects, Listing

LEMMA OpenCallIsOK ==
    ASSUME NEW f \in Files, NEW w \in Windows, NEW c,
           c = OpenCall(f, w, TRUE) \/ c = OpenCall(f, w, FALSE)
    PROVE  /\ c \in Call /\ CallOK(c) /\ c.call = "open" /\ c.file = f /\ c.window = w
           /\ Opening(c) /\ ~Listing(c)
BY DEF OpenCall, Start, Call, CallOK, Opening, Listing

LEMMA CloseCallIsOK ==
    ASSUME NEW w \in Windows, views \in [Projects -> View \union {None}]
    PROVE  LET c == CloseCall(w) IN
           /\ c \in Call /\ CallOK(c) /\ c.call = "close" /\ c.at = "next" /\ c.window = w
           /\ c.project = None /\ c.left = openedProjects({w}) /\ c.files = FilesIn({w})
<1>1. openedProjects({w}) \subseteq Projects
  BY DEF openedProjects, Opened
<1>2. FilesIn({w}) \subseteq Files
  BY DEF FilesIn, FilesOf, openedProjects, Opened, View
<1> QED
  BY <1>1, <1>2 DEF CloseCall, Start, Call, CallOK

(* What every step starts from.                                             *)
LEMMA Typed ==
    ASSUME IInv
    PROVE  /\ calls \in Seq(Call) /\ messages \in Seq(Files)
           /\ windows \in [Windows -> {"none", "shown", "closed"}]
           /\ views \in [Projects -> View \union {None}]
           /\ Len(calls) \in Nat /\ DOMAIN calls = 1 .. Len(calls)
           /\ calls # <<>> <=> Len(calls) > 0
           /\ calls # <<>> => 1 \in 1 .. Len(calls) /\ Len(calls) \in 1 .. Len(calls)
           /\ calls # <<>> => Top = calls[Len(calls)] /\ Top \in Call /\ CallOK(Top)
           /\ \A i \in 1 .. Len(calls) : calls[i] \in Call /\ CallOK(calls[i])
<1>1. calls \in Seq(Call) /\ messages \in Seq(Files)
      /\ windows \in [Windows -> {"none", "shown", "closed"}]
      /\ views \in [Projects -> View \union {None}]
  BY DEF IInv, TypeOK
<1>2. Len(calls) \in Nat /\ DOMAIN calls = 1 .. Len(calls) /\ (calls # <<>> <=> Len(calls) > 0)
      /\ (calls # <<>> => Top = calls[Len(calls)] /\ Top \in Call)
      /\ \A i \in 1 .. Len(calls) : calls[i] \in Call
  BY <1>1, CallsAreCalls
<1>3. calls # <<>> => 1 \in 1 .. Len(calls) /\ Len(calls) \in 1 .. Len(calls)
  BY <1>2
<1> QED
  BY <1>1, <1>2, <1>3 DEF IInv, CallsOK

LEMMA Counted ==
    ASSUME IInv
    PROVE  /\ asked < MaxRequests /\ asked' = asked + 1 => asked' \in 0 .. MaxRequests
           /\ starts < MaxStarts /\ starts' = starts + 1 => starts' \in 0 .. MaxStarts
<1>1. asked \in 0 .. MaxRequests /\ starts \in 0 .. MaxStarts
  BY DEF IInv, TypeOK
<1>2. MaxRequests \in Nat /\ MaxStarts \in Nat
  OBVIOUS
<1> QED
  BY <1>1, <1>2

(* A file is handed over, and taken.                                        *)
LEMMA MessageAdded ==
    ASSUME messages \in Seq(Files), NEW f \in Files, messages' = Append(messages, f)
    PROVE  /\ messages' \in Seq(Files) /\ messages' # <<>>
           /\ Range(messages') = Range(messages) \union {f}
           /\ /\ f \notin Range(messages)
              /\ \A i, j \in 1 .. Len(messages) : messages[i] = messages[j] => i = j
              => \A i, j \in 1 .. Len(messages') : messages'[i] = messages'[j] => i = j
<1> DEFINE n == Len(messages)
<1>1. n \in Nat /\ DOMAIN messages = 1 .. n
  BY LenProperties
<1>2. /\ messages' \in Seq(Files) /\ Len(messages') = n + 1
      /\ \A i \in 1 .. n : messages'[i] = messages[i]
      /\ messages'[n + 1] = f
  BY AppendProperties
<1>3. DOMAIN messages' = 1 .. n + 1
  BY <1>2, LenProperties
<1> HIDE DEF n
<1>4. n + 1 \in 1 .. n + 1 /\ 1 .. n \subseteq 1 .. n + 1
      /\ \A k \in 1 .. n + 1 : k = n + 1 \/ k \in 1 .. n
  BY <1>1
<1>5. Range(messages') = Range(messages) \union {f}
  <2>1. Range(messages') \subseteq Range(messages) \union {f}
    BY <1>1, <1>2, <1>3, <1>4 DEF Range
  <2>2. Range(messages) \subseteq Range(messages') /\ f \in Range(messages')
    BY <1>1, <1>2, <1>3, <1>4 DEF Range
  <2> QED
    BY <2>1, <2>2
<1>6. ASSUME f \notin Range(messages),
             \A i, j \in 1 .. n : messages[i] = messages[j] => i = j,
             NEW i \in 1 .. n + 1, NEW j \in 1 .. n + 1, messages'[i] = messages'[j]
      PROVE  i = j
  <2>1. \A k \in 1 .. n : messages[k] # f
    BY <1>1, <1>6 DEF Range
  <2> QED
    BY <1>2, <1>4, <1>6, <2>1
<1>7. messages' # <<>>
  BY <1>1, <1>2, EmptySeq
<1> QED
  BY <1>2, <1>5, <1>6, <1>7 DEF n

LEMMA MessageTaken ==
    ASSUME messages \in Seq(Files), messages # <<>>, messages' = Tail(messages)
    PROVE  /\ messages' \in Seq(Files) /\ Head(messages) \in Files
           /\ Head(messages) \in Range(messages)
           /\ Range(messages') \subseteq Range(messages)
           /\ (\A i, j \in 1 .. Len(messages) : messages[i] = messages[j] => i = j) =>
                 /\ \A i, j \in 1 .. Len(messages') : messages'[i] = messages'[j] => i = j
                 /\ Head(messages) \notin Range(messages')
<1>1. /\ Len(messages) \in Nat /\ Len(messages) > 0
      /\ DOMAIN messages = 1 .. Len(messages)
  BY EmptySeq, LenProperties
<1>2. /\ messages' \in Seq(Files) /\ Len(messages') = Len(messages) - 1
      /\ \A i \in 1 .. Len(messages') : messages'[i] = messages[i + 1]
  BY HeadTailProperties
<1>3. DOMAIN messages' = 1 .. Len(messages')
  BY <1>2, LenProperties
<1>4. Head(messages) = messages[1]
  BY <1>1
<1> QED
  BY <1>1, <1>2, <1>3, <1>4, ElementOfSeq DEF Range

-----------------------------------------------------------------------------
(* Each action keeps the invariant.  First those that leave the stack alone. *)

LEMMA ConnectKeeps == ASSUME IInv, Connect PROVE IInv'
<1> USE DEF Connect, program, requests, closing, counters, histories
<1>1. TypeOK'
  BY DEF IInv, TypeOK
<1>2. CallsOK' /\ Nesting' /\ InShown'
  BY DEF IInv, CallsOK, Nesting, InShown, Shown, Closed
<1>3. Life'
  BY DEF IInv, Life, Shown, Closed, Opened
<1>4. AskedFor'
  BY DEF IInv, AskedFor, Kept, Opened, Shown
<1>5. Leaving'
  BY DEF IInv, Leaving, Life, Shown
<1>6. (Patient => Apart)'
  BY DEF IInv, Patient, Apart, Opened
<1> QED
  BY <1>1, <1>2, <1>3, <1>4, <1>5, <1>6 DEF IInv

(* Nothing new is on its way to a program that may be asked only once.      *)
LEMMA HandOverKeeps == ASSUME IInv, NEW f \in Files, HandOver(f) PROVE IInv'
<1>1. /\ UNCHANGED <<may, phase, calls, windows, views, queued, reopen, closing, snapshots, starts,
                     unasked>>
      /\ phase = "starting" \/ Pumping
      /\ asked < MaxRequests /\ asked' = asked + 1
      /\ "again" \in may \/ ~OnItsWay(f)
      /\ "closing" \in may \/ ~Within({"close tab", "close", "quit"})
      /\ refused' \subseteq refused
  BY DEF HandOver
<1>2. \/ phase = "starting" /\ dropped' = dropped \union {f} /\ UNCHANGED <<messages, received>>
      \/ /\ phase # "starting" /\ messages' = Append(messages, f) /\ received' = TRUE
         /\ UNCHANGED dropped
  BY DEF HandOver
<1>3. phase \in {"starting", "running"} /\ messages' \in Seq(Files)
  BY <1>1, <1>2, Typed, MessageAdded DEF Pumping
<1>4. TypeOK'
  <2>1. asked' \in 0 .. MaxRequests
    BY <1>1, Counted
  <2> QED
    BY <1>1, <1>2, <1>3, <2>1 DEF IInv, TypeOK, closing
<1>5. CallsOK' /\ InShown'
  BY <1>1 DEF IInv, CallsOK, InShown, Shown, Closed
<1>6. Life'
  <2>1. phase = "running" => ~queued
    BY <1>1 DEF Pumping, IInv, Life
  <2>2. messages' # messages => received' /\ ~queued' /\ phase' = "running"
    BY <1>1, <1>2, <1>3, <2>1
  <2> QED
    BY <1>1, <1>2, <1>3, <2>2 DEF IInv, Life, Shown, Closed, Opened
<1>7. Nesting'
  <2>1. "closing" \notin may /\ calls # <<>> => calls[1].call \notin Closing
    BY <1>1, Typed DEF Within, Closing
  <2> QED
    BY <1>1, <2>1 DEF IInv, Nesting
<1>8. AskedFor'
  BY <1>1 DEF IInv, AskedFor, Kept, Opened, Shown
<1>9. Leaving'
  BY <1>1 DEF IInv, Leaving, Shown, closing
<1>10. ASSUME Patient, Apart PROVE Apart'
  <2>1. CASE messages' = messages
    BY <1>1, <1>10, <2>1 DEF Apart, Opened
  <2>2. CASE messages' # messages
    <3>1. messages' = Append(messages, f) /\ ~OnItsWay(f)
      BY <1>1, <1>2, <1>10, <2>2 DEF Patient
    <3>2. f \notin Range(messages)
      BY <3>1 DEF OnItsWay
    <3>3. Range(messages') = Range(messages) \union {f}
          /\ \A i, j \in 1 .. Len(messages') : messages'[i] = messages'[j] => i = j
      BY <1>10, <3>1, <3>2, Typed, MessageAdded DEF Apart
    <3>4. \A i \in 1 .. Len(calls) : Opening(calls[i]) => calls[i].file # f
      BY <3>1, Typed DEF OnItsWay, Opening
    <3>5. calls # <<>> /\ Listing(calls[1]) => f \notin calls[1].left
      BY <3>1, Typed DEF OnItsWay, Listing
    <3> QED
      BY <1>1, <1>10, <3>3, <3>4, <3>5 DEF Apart, Opened
  <2> QED
    BY <2>1, <2>2
<1> QED
  BY <1>1, <1>4, <1>5, <1>6, <1>7, <1>8, <1>9, <1>10 DEF IInv, Patient

LEMMA NewWindowKeeps == ASSUME IInv, NewWindow PROVE IInv'
<1>1. /\ UNCHANGED <<may, phase, calls, views, requests, closing, snapshots, starts, histories>>
      /\ Pumping /\ calls = <<>> /\ asked < MaxRequests /\ asked' = asked + 1
  BY DEF NewWindow, Command
<1>2. PICK w \in Unused : windows' = [windows EXCEPT ![w] = "shown"]
  BY DEF NewWindow
<1>3. w \in Windows /\ windows[w] = "none" /\ Shown' = Shown \union {w} /\ Closed' = Closed
  BY <1>2, Typed DEF Unused, Shown, Closed
<1>4. asked' \in 0 .. MaxRequests
  BY <1>1, Counted
<1>5. TypeOK'
  BY <1>1, <1>2, <1>4 DEF IInv, TypeOK, requests, closing, histories
<1>6. CallsOK' /\ Nesting' /\ InShown'
  BY <1>1, <1>3 DEF IInv, CallsOK, Nesting, InShown, requests
<1>7. Life'
  BY <1>1, <1>3 DEF IInv, Life, Opened, requests, Pumping
<1>8. AskedFor'
  BY <1>1, <1>3 DEF IInv, AskedFor, Kept, Opened, histories
<1>9. Leaving'
  BY <1>1, <1>3 DEF IInv, Leaving, closing, Pumping
<1>10. (Patient => Apart)'
  BY <1>1 DEF IInv, Patient, Apart, Opened, requests
<1> QED
  BY <1>5, <1>6, <1>7, <1>8, <1>9, <1>10 DEF IInv

LEMMA EditKeeps == ASSUME IInv, Edit PROVE IInv'
<1>1. /\ UNCHANGED <<may, phase, calls, windows, requests, closing, snapshots, starts, histories>>
      /\ Pumping /\ calls = <<>> /\ asked < MaxRequests /\ asked' = asked + 1
  BY DEF Edit, Command
<1>2. PICK p \in Opened : /\ views[p].window \in Shown
                          /\ views' = [views EXCEPT ![p].edited = ~@]
  BY DEF Edit
<1>3. p \in Projects /\ views[p] \in View
  BY <1>2, Typed DEF Opened
<1>4. /\ views'[p].window = views[p].window /\ views'[p].file = views[p].file
      /\ \A q \in Projects : q # p => views'[q] = views[q]
      /\ [views[p] EXCEPT !.edited = ~@] \in View
  BY <1>2, <1>3, Typed DEF View
<1>5. \A q \in Opened' : q \in Opened
  BY <1>2, <1>4 DEF Opened
<1>6. asked' \in 0 .. MaxRequests
  BY <1>1, Counted
<1>7. TypeOK'
  <2>1. views' \in [Projects -> View \union {None}]
    BY <1>2, <1>3, <1>4, Typed
  <2> QED
    BY <1>1, <1>6, <2>1 DEF IInv, TypeOK, requests, closing, histories
<1>8. CallsOK' /\ Nesting' /\ InShown'
  BY <1>1 DEF IInv, CallsOK, Nesting, InShown, Shown, Closed, requests
<1>9. Life'
  BY <1>1, <1>5 DEF IInv, Life, Shown, Closed, requests, Pumping
<1>10. AskedFor'
  <2>1. \A q \in Opened' : Kept(q)' => views'[q].window \in Shown'
    <3> TAKE q \in Opened'
    <3> QED
      BY <1>1, <1>2, <1>4, <1>5 DEF IInv, AskedFor, Kept, Shown, Opened
  <2>2. Len(calls') = 0
    BY <1>1, Typed
  <2> QED
    BY <1>1, <2>1, <2>2 DEF IInv, AskedFor, histories
<1>11. Leaving'
  BY <1>1 DEF IInv, Leaving, Shown, closing
<1>12. ASSUME Patient, Apart PROVE Apart'
  <2>1. OldProjects
    <3> SUFFICES ASSUME NEW q \in Opened' PROVE q \in Opened /\ views'[q].file = views[q].file
      BY DEF OldProjects
    <3> QED
      BY <1>4, <1>5 DEF Opened
  <2>2. OldOpenings /\ OldList /\ OldMessages /\ calls' \in Seq(Call)
    BY <1>1, <1>12, Typed DEF OldOpenings, OldList, OldMessages, Apart, requests
  <2> QED
    BY <1>12, <2>1, <2>2, Typed, ApartKept
<1> QED
  BY <1>1, <1>7, <1>8, <1>9, <1>10, <1>11, <1>12 DEF IInv, Patient

(* What the deleted windows take with them has no edits.                    *)
LEMMA DeleteClosedKeeps == ASSUME IInv, DeleteClosed PROVE IInv'
<1> DEFINE strays == {p \in Opened : views[p].window \in Closed}
<1>1. /\ UNCHANGED <<may, phase, calls, requests, closing, snapshots, counters, refused, dropped>>
      /\ phase = "running" /\ calls = <<>> /\ Closed # {}
      /\ windows' = [w \in Windows |-> IF w \in Closed THEN "none" ELSE windows[w]]
      /\ views' = [p \in Projects |->
                      IF p \in strays THEN [views[p] EXCEPT !.window = None] ELSE views[p]]
      /\ unasked' = unasked \union EditedFiles(strays)
  BY DEF DeleteClosed
<1>2. Shown' = Shown /\ Closed' = {} /\ Shown \intersect Closed = {}
  BY <1>1, Typed DEF Shown, Closed
<1>3. \A p \in strays : p \in Projects /\ p \in Opened /\ views[p] \in View /\ ~Kept(p)
  BY <1>2, Typed DEF IInv, AskedFor, Opened
<1>4. EditedFiles(strays) = {}
  BY <1>3 DEF EditedFiles, FilesOf, Kept
<1> HIDE DEF strays
<1>5. \A p \in Projects : /\ p \notin strays => views'[p] = views[p]
                          /\ p \in strays => /\ views'[p] \in View
                                             /\ views'[p].file = views[p].file
                                             /\ views'[p].edited = views[p].edited
  BY <1>1, <1>3 DEF View
<1>6. \A p \in Opened' : p \in Opened /\ views'[p].file = views[p].file
                         /\ (Kept(p)' => Kept(p) /\ views'[p] = views[p])
  <2> TAKE p \in Opened'
  <2>1. p \in Projects
    BY DEF Opened
  <2>2. CASE p \in strays
    BY <1>1, <1>3, <1>5, <2>1, <2>2 DEF Kept
  <2>3. CASE p \notin strays
    BY <1>1, <1>5, <2>1, <2>3 DEF Opened, Kept
  <2> QED
    BY <2>2, <2>3
<1>7. TypeOK'
  <2>1. views' \in [Projects -> View \union {None}]
    BY <1>1, <1>5, Typed
  <2>2. windows' \in [Windows -> {"none", "shown", "closed"}]
    BY <1>1, Typed
  <2>3. unasked' = unasked
    BY <1>1, <1>4
  <2> QED
    BY <1>1, <2>1, <2>2, <2>3 DEF IInv, TypeOK, requests, closing, counters
<1>8. CallsOK' /\ Nesting' /\ InShown'
  BY <1>1, <1>2 DEF IInv, CallsOK, Nesting, InShown, requests
<1>9. Life'
  BY <1>1, <1>2 DEF IInv, Life, requests
<1>10. AskedFor'
  <2>1. \A p \in Opened' : Kept(p)' => views'[p].window \in Shown'
    BY <1>2, <1>6 DEF IInv, AskedFor
  <2>2. Len(calls') = 0
    BY <1>1, Typed
  <2> QED
    BY <1>1, <1>4, <2>1, <2>2 DEF IInv, AskedFor
<1>11. Leaving'
  BY <1>1, <1>2 DEF IInv, Leaving, closing
<1>12. ASSUME Patient, Apart PROVE Apart'
  <2>1. OldProjects
    BY <1>6 DEF OldProjects
  <2>2. OldOpenings /\ OldList /\ OldMessages /\ calls' \in Seq(Call)
    BY <1>1, <1>12, Typed DEF OldOpenings, OldList, OldMessages, Apart, requests
  <2> QED
    BY <1>12, <2>1, <2>2, Typed, ApartKept
<1> QED
  BY <1>1, <1>7, <1>8, <1>9, <1>10, <1>11, <1>12 DEF IInv, Patient

-----------------------------------------------------------------------------
(* The process ends, and another starts.                                    *)

LEMMA Emptied ==
    ASSUME calls' = <<>>
    PROVE  calls' \in Seq(Call) /\ Len(calls') = 0 /\ CallsOK' /\ Nesting'
           /\ OldOpenings /\ OldList
<1>1. calls' \in Seq(Call) /\ Len(calls') = 0
  BY EmptySeq
<1> QED
  BY <1>1 DEF CallsOK, Nesting, OldOpenings, OldList

LEMMA OverKeeps ==
    ASSUME IInv, NEW how \in {"ended", "crashed"}, Over(how), UNCHANGED <<may, counters, leaving>>,
           how = "ended" => openAtQuit' = leaving',
           openAtQuit' \subseteq Files /\ snapshots' \subseteq Files,
           UNCHANGED <<refused, dropped>>, unasked' = {}
    PROVE  IInv'
<1>1. /\ phase' = how /\ calls' = <<>> /\ messages' = <<>>
      /\ windows' = [w \in Windows |-> "none"] /\ views' = [p \in Projects |-> None]
      /\ received' = FALSE /\ queued' = FALSE /\ reopen' = FALSE /\ sleep' = TRUE /\ timers' = 0
  BY DEF Over
<1>2. Shown' = {} /\ Closed' = {} /\ Opened' = {}
  BY <1>1 DEF Shown, Closed, Opened
<1>3. calls' \in Seq(Call) /\ Len(calls') = 0 /\ CallsOK' /\ Nesting'
  BY <1>1, Emptied
<1>4. messages' \in Seq(Files) /\ Len(messages') = 0 /\ Range(messages') = {}
  BY <1>1, EmptySeq DEF Range
<1>5. TypeOK'
  BY <1>1, <1>3, <1>4 DEF IInv, TypeOK, counters
<1>6. Life' /\ InShown' /\ AskedFor' /\ Leaving' /\ Apart'
  BY <1>1, <1>2, <1>3, <1>4 DEF Life, InShown, AskedFor, Leaving, Apart
<1> QED
  BY <1>3, <1>5, <1>6 DEF IInv

LEMMA EditedAreFiles ==
    ASSUME IInv PROVE EditedFiles(Opened) \subseteq Files
BY Typed DEF EditedFiles, FilesOf, Opened, View

LEMMA BreakdownKeeps == ASSUME IInv, Breakdown PROVE IInv'
<1>1. openAtQuit \subseteq Files /\ snapshots \subseteq Files /\ unasked = {}
  BY DEF IInv, TypeOK, AskedFor
<1> QED
  BY <1>1, OverKeeps, EditedAreFiles DEF Breakdown, histories

(* Edits are only in windows that are shown.                                *)
LEMMA NoneShown ==
    ASSUME IInv, Shown = {} PROVE EditedFiles(Opened) = {}
BY DEF IInv, AskedFor, Kept, EditedFiles, FilesOf

LEMMA HalfASecondKeeps == ASSUME IInv, HalfASecond PROVE IInv'
<1>1. /\ Pumping /\ timers > 0
      /\ UNCHANGED <<may, openAtQuit, leaving, snapshots, counters, refused, dropped>>
  BY DEF HalfASecond
<1>2. CASE ~sleep /\ diagramEditors = {}
  <2>1. Over("ended") /\ unasked' = unasked \union EditedFiles(Opened)
    BY <1>2 DEF HalfASecond
  <2>2. Shown = {}
    BY <1>2 DEF diagramEditors
  <2>3. unasked' = {}
    BY <2>1, <2>2, NoneShown DEF IInv, AskedFor
  <2>4. ASSUME calls # <<>>, calls[1].call = "quit" PROVE FALSE
    <3>1. Len(calls) # 1
      BY <1>1, <2>4, Typed DEF Pumping, CallOK
    <3>2. 2 \in 2 .. Len(calls) /\ 2 \in 1 .. Len(calls)
      BY <2>4, <3>1, Typed
    <3>3. calls[2].call = "close"
      BY <2>4, <3>2 DEF IInv, Nesting
    <3>4. calls[2].window \in Windows
      BY <3>2, <3>3, Typed DEF CallOK
    <3> QED
      BY <2>2, <3>2, <3>4, NoneAssumption DEF IInv, InShown
  <2> QED
    BY <1>1, <2>1, <2>2, <2>3, <2>4, OverKeeps DEF IInv, Leaving, TypeOK, Pumping
<1>3. CASE ~(~sleep /\ diagramEditors = {})
  <2>1. sleep' = ~sleep /\ timers' = TimersLeft /\ UNCHANGED <<phase, calls, program, unasked>>
    BY <1>3 DEF HalfASecond
  <2>2. sleep' \in BOOLEAN /\ timers' \in Nat
    <3>1. sleep \in BOOLEAN /\ timers \in Nat
      BY DEF IInv, TypeOK
    <3> QED
      BY <1>1, <2>1, <3>1 DEF TimersLeft
  <2>3. TypeOK'
    BY <1>1, <2>1, <2>2 DEF IInv, TypeOK, program, requests, counters
  <2>4. CallsOK' /\ Nesting' /\ InShown'
    BY <1>1, <2>1 DEF IInv, CallsOK, Nesting, InShown, Shown, Closed, program, requests
  <2>5. Life' /\ AskedFor' /\ Leaving'
    BY <1>1, <2>1 DEF IInv, Life, AskedFor, Leaving, Kept, Opened, Shown, Closed, program, requests
  <2>6. (Patient => Apart)'
    BY <1>1, <2>1 DEF IInv, Patient, Apart, Opened, program, requests
  <2> QED
    BY <2>3, <2>4, <2>5, <2>6 DEF IInv
<1> QED
  BY <1>2, <1>3

LEMMA StartProgramKeeps == ASSUME IInv, StartProgram PROVE IInv'
<1>1. /\ UNCHANGED <<may, views, messages, received, closing, snapshots, asked, histories>>
      /\ phase \notin {"starting", "running"} /\ phase' = "starting" /\ queued' = TRUE
      /\ starts < MaxStarts /\ starts' = starts + 1
  BY DEF StartProgram
<1>2. PICK w \in Windows, f \in Files \union {None} :
        /\ windows' = [v \in Windows |-> IF v = w THEN "shown" ELSE "none"]
        /\ calls' = IF f = None THEN <<>> ELSE <<OpenCall(f, w, TRUE)>>
        /\ reopen' = (f = None)
  BY DEF StartProgram
<1>3. Shown' = {w} /\ Closed' = {}
  BY <1>2 DEF Shown, Closed
<1>4. Opened = {} /\ Opened' = {} /\ messages = <<>> /\ calls = <<>>
  BY <1>1 DEF IInv, Life, Opened
<1>5. /\ calls' \in Seq(Call) /\ Len(calls') \in {0, 1}
      /\ calls' # <<>> => Len(calls') = 1
      /\ \A i \in 1 .. Len(calls') : /\ i = 1 /\ CallOK(calls'[i]) /\ calls'[i].call = "open"
                                     /\ calls'[i].window = w
  <2>1. CASE f = None
    BY <1>2, <2>1, Emptied
  <2>2. CASE f # None
    <3>1. f \in Files
      BY <2>2
    <3> DEFINE c == OpenCall(f, w, TRUE)
    <3>2. c \in Call /\ CallOK(c) /\ c.call = "open" /\ c.window = w
      BY <3>1, OpenCallIsOK
    <3> HIDE DEF c
    <3>3. calls' = <<c>>
      BY <1>2, <2>2 DEF c
    <3> QED
      BY <3>2, <3>3
  <2> QED
    BY <2>1, <2>2
<1>6. TypeOK'
  <2>1. starts' \in 0 .. MaxStarts
    BY <1>1, Counted
  <2>2. windows' \in [Windows -> {"none", "shown", "closed"}] /\ reopen' \in BOOLEAN
    BY <1>2
  <2> QED
    BY <1>1, <1>5, <2>1, <2>2 DEF IInv, TypeOK, closing, histories
<1>7. CallsOK' /\ Nesting' /\ InShown'
  <2>1. calls' # <<>> => calls'[1].call = "open"
    BY <1>5
  <2>2. \A i \in 2 .. Len(calls') : FALSE
    BY <1>5
  <2> QED
    BY <1>3, <1>5, <2>1, <2>2 DEF CallsOK, Nesting, InShown, Closing
<1>8. Life'
  BY <1>1, <1>3, <1>4, <1>5 DEF Life
<1>9. AskedFor'
  BY <1>1, <1>4, <1>5 DEF IInv, AskedFor, histories
<1>10. Leaving'
  BY <1>1, <1>5 DEF Leaving
<1>11. Apart'
  <2>1. messages' = <<>> /\ Len(messages') = 0 /\ Range(messages') = {}
    BY <1>1, <1>4, EmptySeq DEF Range
  <2>2. calls' # <<>> => ~Listing(calls'[1])
    BY <1>5 DEF Listing
  <2>3. \A i \in 1 .. Len(calls') : calls' # <<>>
    BY <1>5
  <2> QED
    BY <1>4, <1>5, <2>1, <2>2, <2>3 DEF Apart, Listing
<1> QED
  BY <1>6, <1>7, <1>8, <1>9, <1>10, <1>11 DEF IInv

-----------------------------------------------------------------------------
(* A file is opened from an event loop.                                     *)

LEMMA PumpingMeans ==
    ASSUME IInv, Pumping
    PROVE  /\ phase = "running" /\ ~queued
           /\ calls # <<>> /\ calls[1].call = "quit" => Shown # {}
<1>1. phase = "running" /\ ~queued
  BY DEF Pumping, IInv, Life
<1>2. ASSUME calls # <<>>, calls[1].call = "quit" PROVE Shown # {}
  <2>1. Len(calls) # 1
    BY <1>2, Typed DEF Pumping, CallOK
  <2>2. 2 \in 2 .. Len(calls) /\ 2 \in 1 .. Len(calls)
    BY <1>2, <2>1, Typed
  <2>3. calls[2].call = "close"
    BY <1>2, <2>2 DEF IInv, Nesting
  <2>4. calls[2].window \in Windows
    BY <2>2, <2>3, Typed DEF CallOK
  <2> QED
    BY <2>2, <2>4, NoneAssumption DEF IInv, InShown
<1> QED
  BY <1>1, <1>2

LEMMA OpeningKeeps ==
    ASSUME IInv, Pumping, NEW f \in Files, NEW w \in Windows, w \in Shown',
           NEW c \in Call, CallOK(c), c.call = "open" /\ c.file = f /\ c.window = w,
           Opening(c) /\ ~Listing(c),
           calls' = calls \/ (~OpenInAWindow(f) /\ Push(c)),
           UNCHANGED <<may, phase, views, received, queued, reopen, closing, snapshots, starts, histories>>,
           asked' \in 0 .. MaxRequests, Closed' = Closed,
           windows' \in [Windows -> {"none", "shown", "closed"}],
           Shown' = Shown \/ Shown = {},
           messages' \in Seq(Files), messages' # <<>> => messages # <<>>,
           "closing" \notin may /\ calls # <<>> => calls[1].call \notin Closing,
           Patient /\ Apart =>
              /\ OldMessages /\ f \notin Range(messages')
              /\ \A i \in 1 .. Len(calls) : Opening(calls[i]) => calls[i].file # f
              /\ calls # <<>> /\ Listing(calls[1]) => f \notin calls[1].left
    PROVE  IInv'
<1> DEFINE n == Len(calls)
<1>2. phase = "running" /\ ~queued /\ (calls # <<>> /\ calls[1].call = "quit" => Shown # {})
  BY PumpingMeans
<1>4. n \in Nat /\ calls \in Seq(Call) /\ (calls # <<>> <=> n > 0)
  BY Typed
<1> HIDE DEF n
<1>5. calls' = calls \/ (~OpenInAWindow(f) /\ Topped(n + 1, c))
  BY <1>4, PushIs DEF n
<1>6. n + 1 = 2 => calls[1].call # "quit"
  <2>1. Len(calls) = 1 => Top = calls[1] /\ calls # <<>> /\ CallOK(Top)
    BY Typed
  <2>2. Len(calls) = 1 => calls[1].call # "quit"
    BY <2>1 DEF Pumping, CallOK
  <2>3. n + 1 = 2 => n = 1
    BY <1>4
  <2> QED
    BY <2>2, <2>3 DEF n
<1>7. TypeOK'
  <2>1. calls' \in Seq(Call)
    BY <1>4, <1>5 DEF Topped
  <2> QED
    BY <2>1 DEF IInv, TypeOK, closing, histories
<1>8. CallsOK'
  BY <1>5, ToppedIsOK DEF IInv, CallsOK
<1>9. Life'
  BY <1>2 DEF IInv, Life
<1>10. Nesting'
  <2>1. CASE calls' = calls
    BY <2>1 DEF IInv, Nesting
  <2>2. CASE Topped(n + 1, c)
    <3>1. n + 1 # 1 => calls # <<>>
      BY <1>4
    <3>2. c.call \notin Closing
      BY DEF Closing
    <3>3. "closing" \notin may => (IF n + 1 = 1 THEN c ELSE calls[1]).call \notin Closing
      BY <3>1, <3>2
    <3> QED
      BY <1>4, <1>6, <2>2, <3>3, ToppedNesting DEF IInv
  <2> QED
    BY <1>5, <2>1, <2>2
<1>11. /\ calls' # <<>> /\ calls # <<>> => Alike(calls'[1], calls[1])
       /\ calls' # <<>> /\ calls = <<>> => Alike(calls'[1], c)
       /\ \A i \in 1 .. Len(calls') : \/ i \in 1 .. n /\ calls'[i].window = calls[i].window
                                      \/ calls'[i].window = w
       /\ calls' # <<>> /\ Len(calls') = 1 => Len(calls) = 1 \/ calls = <<>>
       /\ calls # <<>> => calls' # <<>>
  <2>1. CASE calls' = calls
    BY <2>1, AlikeItself DEF n
  <2>2. CASE Topped(n + 1, c)
    BY <1>4, <2>2, BottomOf DEF Topped, Alike, n
  <2> QED
    BY <1>5, <2>1, <2>2
<1>12. InShown' /\ Leaving'
  <2>1. CASE Shown' = Shown /\ calls' = calls
    BY <2>1 DEF IInv, InShown, Leaving, closing
  <2>2. CASE Shown' = Shown /\ Topped(n + 1, c)
    <3>1. calls # <<>> => n + 1 # 1 /\ 1 \in 1 .. n
      BY <1>4
    <3>2. calls # <<>> /\ calls[1].call = "quit" => Len(calls') # 1 /\ Len(calls) # 1 /\ calls'[2].window = calls[2].window
      <4>1. ASSUME calls # <<>>, calls[1].call = "quit"
            PROVE  n + 1 \notin {1, 2}
        BY <1>4, <1>6, <4>1
      <4>2. Len(calls') = n + 1
        BY <2>2 DEF Topped
      <4> QED
        BY <1>4, <2>2, <4>1, <4>2, BottomOf DEF Alike, n
    <3>3. \A i \in 1 .. Len(calls') : calls'[i].window # None => calls'[i].window \in Shown'
      BY <1>11, <2>2 DEF IInv, InShown, n
    <3>4. calls = <<>> => Closed = {}
      BY DEF Pumping
    <3>5. InShown'
      BY <1>11, <2>2, <3>2, <3>3, <3>4 DEF IInv, InShown, Alike
    <3>6. Leaving'
      BY <1>2, <1>11, <2>2 DEF IInv, Leaving, Alike, closing
    <3> QED
      BY <3>5, <3>6
  <2>3. CASE Shown = {}
    <3>1. calls # <<>> => calls[1].call \notin {"quit", "close"}
      BY <1>2, <2>3, NoneAssumption, Typed DEF IInv, InShown, CallOK
    <3>2. calls' # <<>> => calls'[1].call \notin {"quit", "close"}
      BY <1>11, <3>1 DEF Alike
    <3>3. Closed' = {}
      BY <3>1 DEF IInv, InShown, Pumping
    <3>4. \A i \in 1 .. Len(calls') : calls'[i].window # None => calls'[i].window \in Shown'
      BY <1>11, <2>3 DEF IInv, InShown, n
    <3> QED
      BY <1>2, <3>2, <3>3, <3>4 DEF InShown, Leaving
  <2> QED
    BY <1>5, <2>1, <2>2, <2>3
<1>13. AskedFor'
  <2>1. OldCloses
    BY <1>5, ToppedOldCloses DEF OldCloses
  <2>2. Shown \subseteq Shown' /\ \A p \in Opened' : p \in Opened /\ views'[p] = views[p]
    BY DEF Opened
  <2> QED
    BY <2>1, <2>2, OldClosesAsked DEF IInv, histories
<1>14. ASSUME Patient, Apart PROVE Apart'
  <2>1. OldProjects /\ OldMessages
    BY <1>14 DEF OldProjects, Opened
  <2>2. CASE calls' = calls
    <3>1. OldOpenings /\ OldList
      BY <2>2 DEF OldOpenings, OldList
    <3> QED
      BY <1>4, <1>14, <2>1, <2>2, <3>1, ApartKept
  <2>3. CASE ~OpenInAWindow(f) /\ Topped(n + 1, c)
    <3>1. \A p \in Opened : views[p].file # f
      <4>1. \A p \in Opened : views[p].window \in Shown
        BY <1>14 DEF Patient, IInv, AskedFor, Kept
      <4> QED
        BY <2>3, <4>1 DEF OpenInAWindow, FilesIn, FilesOf, openedProjects, diagramEditors
    <3>2. OldList
      BY <1>4, <2>3, ToppedOldList
    <3>3. Listing(calls'[1]) => f \notin calls'[1].left
      BY <1>4, <1>14, <2>3, BottomOf DEF Alike, Listing
    <3> QED
      BY <1>4, <1>14, <2>1, <2>3, <3>1, <3>2, <3>3, ApartTopped
  <2> QED
    BY <1>5, <2>2, <2>3
<1> QED
  BY <1>7, <1>8, <1>9, <1>10, <1>12, <1>13, <1>14 DEF IInv, Patient

LEMMA TakeMessageKeeps == ASSUME IInv, TakeMessage PROVE IInv'
<1> DEFINE f == Head(messages)
<1>1. /\ Pumping /\ messages # <<>> /\ messages' = Tail(messages) /\ OpenProjectFiles(f)
      /\ UNCHANGED <<may, phase, views, received, queued, reopen, closing, snapshots, counters,
                     histories>>
  BY DEF TakeMessage
<1>2. /\ messages' \in Seq(Files) /\ f \in Files /\ f \in Range(messages)
      /\ Range(messages') \subseteq Range(messages)
      /\ (\A i, j \in 1 .. Len(messages) : messages[i] = messages[j] => i = j) =>
            /\ \A i, j \in 1 .. Len(messages') : messages'[i] = messages'[j] => i = j
            /\ f \notin Range(messages')
  BY <1>1, Typed, MessageTaken
<1> HIDE DEF f
<1>3. PICK w \in Windows :
        /\ w \in Shown' /\ Closed' = Closed /\ (Shown' = Shown \/ Shown = {})
        /\ windows' \in [Windows -> {"none", "shown", "closed"}]
        /\ OpenAndAddProject(f, w, TRUE)
  <2>1. CASE \E w \in Shown : OpenAndAddProject(f, w, TRUE) /\ UNCHANGED windows
    BY <2>1, Typed DEF Shown, Closed
  <2>2. CASE /\ Shown = {}
             /\ \E w \in Unused : /\ windows' = [windows EXCEPT ![w] = "shown"]
                                  /\ OpenAndAddProject(f, w, TRUE)
    <3>1. PICK w \in Unused : /\ windows' = [windows EXCEPT ![w] = "shown"]
                              /\ OpenAndAddProject(f, w, TRUE)
      BY <2>2
    <3>2. w \in Windows /\ w \in Shown' /\ Closed' = Closed
          /\ windows' \in [Windows -> {"none", "shown", "closed"}]
      BY <3>1, Typed DEF Unused, Shown, Closed
    <3> QED
      BY <2>2, <3>1, <3>2
  <2> QED
    BY <1>1, <2>1, <2>2 DEF OpenProjectFiles
<1> DEFINE c == OpenCall(f, w, TRUE)
<1>4. /\ c \in Call /\ CallOK(c) /\ c.call = "open" /\ c.file = f /\ c.window = w
      /\ Opening(c) /\ ~Listing(c)
  BY <1>2, <1>3, OpenCallIsOK
<1>5. calls' = calls \/ (~OpenInAWindow(f) /\ Push(c))
  BY <1>3 DEF OpenAndAddProject
<1> HIDE DEF c
<1>6. asked' \in 0 .. MaxRequests /\ starts' = starts
  BY <1>1 DEF counters, IInv, TypeOK
<1>7. "closing" \notin may /\ calls # <<>> => calls[1].call \notin Closing
  BY <1>1 DEF IInv, Nesting
<1>8. Patient /\ Apart =>
        /\ OldMessages /\ f \notin Range(messages')
        /\ \A i \in 1 .. Len(calls) : Opening(calls[i]) => calls[i].file # f
        /\ calls # <<>> /\ Listing(calls[1]) => f \notin calls[1].left
  BY <1>2 DEF Apart, OldMessages
<1> QED
  BY <1>1, <1>2, <1>3, <1>4, <1>5, <1>6, <1>7, <1>8, OpeningKeeps

LEMMA OpenProjectKeeps == ASSUME IInv, OpenProject PROVE IInv'
<1>1. /\ Pumping /\ calls = <<>> /\ messages = <<>> /\ asked < MaxRequests /\ asked' = asked + 1
      /\ UNCHANGED <<may, phase, program, closing, snapshots, starts, histories>>
  BY DEF OpenProject, Command, Prompt
<1>2. PICK w \in Shown, f \in Files : OpenAndAddProject(f, w, TRUE)
  BY DEF OpenProject
<1>3. w \in Windows /\ w \in Shown' /\ Closed' = Closed /\ Shown' = Shown
      /\ windows' \in [Windows -> {"none", "shown", "closed"}]
  BY <1>1, Typed DEF Shown, Closed, program
<1> DEFINE c == OpenCall(f, w, TRUE)
<1>4. /\ c \in Call /\ CallOK(c) /\ c.call = "open" /\ c.file = f /\ c.window = w
      /\ Opening(c) /\ ~Listing(c)
  BY <1>2, <1>3, OpenCallIsOK
<1>5. calls' = calls \/ (~OpenInAWindow(f) /\ Push(c))
  BY <1>2 DEF OpenAndAddProject
<1> HIDE DEF c
<1>6. asked' \in 0 .. MaxRequests
  BY <1>1, Counted
<1>7. messages' = <<>> /\ messages' \in Seq(Files) /\ Len(messages') = 0 /\ Range(messages') = {}
  BY <1>1, EmptySeq DEF program, requests, Range
<1>8. Len(calls) = 0
  BY <1>1, EmptySeq
<1>9. OldMessages
  BY <1>7 DEF OldMessages
<1> QED
  BY <1>1, <1>3, <1>4, <1>5, <1>6, <1>7, <1>8, <1>9, OpeningKeeps DEF program, requests

-----------------------------------------------------------------------------
(* A call is put on the stack, replaced, or returns; no window and no       *)
(* message is touched.                                                      *)

LEMMA QueuedMeans ==
    ASSUME IInv
    PROVE  /\ phase = "starting" => queued
           /\ queued /\ calls # <<>> =>
                /\ phase = "starting" /\ Len(calls) = 1
                /\ calls[1].call = "open" /\ Top = calls[1] /\ Top.call = "open"
<1>1. phase = "starting" => queued
  BY DEF IInv, Life
<1>2. ASSUME queued, calls # <<>> PROVE Len(calls) = 1
  <2> DEFINE n == Len(calls)
  <2>1. n \in Nat /\ n > 0 /\ n <= 1
    BY <1>2, Typed DEF IInv, Life
  <2> HIDE DEF n
  <2>2. n = 1
    BY <2>1
  <2> QED
    BY <2>2 DEF n
<1>3. ASSUME queued, calls # <<>> PROVE phase = "starting" /\ calls[1].call = "open"
  BY <1>3, Typed DEF IInv, Life
<1> QED
  BY <1>1, <1>2, <1>3, Typed

LEMMA ToppedKeeps ==
    ASSUME IInv, NEW m, NEW c \in Call, CallOK(c), Topped(m, c), phase \in {"starting", "running"},
           UNCHANGED <<may, phase, windows, messages, received, reopen, closing, starts>>,
           views' \in [Projects -> View \union {None}], asked' \in 0 .. MaxRequests,
           snapshots' \subseteq Files, refused' \subseteq Files, dropped' \subseteq Files,
           unasked' \subseteq Files,
           \/ queued' = FALSE /\ phase = "running"
           \/ queued' = queued /\ (queued => phase = "starting" /\ m = 1 /\ c.call = "open"),
           m # 1 => c.call = IF m = 2 /\ calls[1].call = "quit" THEN "close" ELSE "open",
           "closing" \notin may /\ (IF m = 1 THEN c ELSE calls[1]).call \in Closing
               => messages = <<>> /\ c.call \in Closing,
           c.window # None => c.window \in Shown,
           m = 1 => /\ Closed = {} /\ c.call # "quit"
                    /\ calls # <<>> => calls[1].call # "quit"
                    /\ c.call = "close" => /\ calls # <<>> /\ calls[1].call = "close"
                                           /\ c.window = calls[1].window /\ c.files = calls[1].files,
           m = 2 /\ calls[1].call = "quit" => Len(calls) > 1 /\ c.window = calls[2].window,
           AskedFor', Patient /\ Apart => Apart'
    PROVE  IInv'
<1>1. calls \in Seq(Call) /\ CallsOK'
  BY Typed, ToppedIsOK DEF IInv
<1>2. TypeOK'
  <2>1. calls' \in Seq(Call) /\ queued' \in BOOLEAN
    BY DEF Topped, IInv, TypeOK
  <2> QED
    BY <2>1 DEF IInv, TypeOK, closing
<1>3. Life'
  <2>1. Shown' = Shown /\ Closed' = Closed
    BY DEF Shown, Closed
  <2>2. CASE queued' = FALSE /\ phase = "running"
    BY <2>2 DEF IInv, Life
  <2>3. CASE queued' = queued /\ (queued => phase = "starting" /\ m = 1 /\ c.call = "open")
    BY <1>1, <2>1, <2>3, ToppedLife DEF IInv
  <2> QED
    BY <2>2, <2>3
<1>4. Nesting'
  BY <1>1, ToppedNesting DEF IInv
<1>5. InShown'
  <2>1. m = 1 => IF c.call = "quit" THEN c.left = Shown ELSE Closed = {}
    OBVIOUS
  <2> QED
    BY <1>1, <2>1, ToppedInShown DEF IInv
<1>6. Leaving'
  BY <1>1, ToppedLeaving DEF IInv, closing
<1> QED
  BY <1>1, <1>2, <1>3, <1>4, <1>5, <1>6 DEF IInv, Patient

LEMMA BecomeKeeps ==
    ASSUME IInv, NEW c \in Call, CallOK(c), Topped(Len(calls), c), calls # <<>>,
           phase \in {"starting", "running"},
           UNCHANGED <<may, phase, windows, requests, closing, counters>>,
           views' \in [Projects -> View \union {None}],
           snapshots' \subseteq Files, refused' \subseteq Files, UNCHANGED <<dropped, unasked>>,
           Top.call # "quit", c.call = Top.call, c.files = Top.files,
           c.window = Top.window \/ (c.window \in Shown /\ c.call \notin Closing),
           AskedFor', Patient /\ Apart => Apart'
    PROVE  IInv'
<1> DEFINE n == Len(calls)
<1>1. n \in Nat /\ n > 0 /\ Top = calls[n] /\ 1 \in 1 .. n /\ n \in 1 .. n
  BY Typed
<1> HIDE DEF n
<1>2. n # 1 => n \in 2 .. n
  BY <1>1
<1>3. Top.call = calls[n].call /\ Top.window = calls[n].window /\ Top.files = calls[n].files
  BY <1>1
<1>4. n # 1 => c.call = IF n = 2 /\ calls[1].call = "quit" THEN "close" ELSE "open"
  BY <1>2, <1>3 DEF IInv, Nesting, n
<1>5. "closing" \notin may /\ (IF n = 1 THEN c ELSE calls[1]).call \in Closing
        => messages = <<>> /\ c.call \in Closing
  <2>1. (IF n = 1 THEN c ELSE calls[1]).call = calls[1].call
    BY <1>3
  <2> QED
    BY <1>1, <1>3, <2>1 DEF IInv, Nesting, n
<1>6. c.window # None => c.window \in Shown
  BY <1>1, <1>3 DEF IInv, InShown, n
<1>7. n = 1 => /\ Closed = {} /\ c.call # "quit"
               /\ calls # <<>> => calls[1].call # "quit"
               /\ c.call = "close" => /\ calls # <<>> /\ calls[1].call = "close"
                                      /\ c.window = calls[1].window /\ c.files = calls[1].files
  BY <1>3 DEF IInv, InShown, Closing, n
<1>8. n = 2 /\ calls[1].call = "quit" => Len(calls) > 1 /\ c.window = calls[2].window
  <2>1. ASSUME n = 2, calls[1].call = "quit"
        PROVE  Top.call = "close" /\ Top.window = calls[2].window
    BY <1>3, <1>4, <2>1
  <2>2. n = 2 => Len(calls) > 1
    BY DEF n
  <2> QED
    BY <2>1, <2>2 DEF Closing
<1>9. \/ queued' = FALSE /\ phase = "running"
      \/ queued' = queued /\ (queued => phase = "starting" /\ n = 1 /\ c.call = "open")
  BY QueuedMeans DEF requests, n
<1>10. asked' \in 0 .. MaxRequests /\ dropped' \subseteq Files /\ unasked' \subseteq Files
  BY DEF IInv, TypeOK, counters
<1>11. Topped(n, c)
  BY DEF n
<1> QED
  BY <1>4, <1>5, <1>6, <1>7, <1>8, <1>9, <1>10, <1>11, ToppedKeeps DEF requests, counters

LEMMA CutKeeps ==
    ASSUME IInv, NEW m, Cut(m), calls # <<>>, m # Len(calls), phase \in {"starting", "running"},
           UNCHANGED <<may, phase, windows, requests, closing, counters>>,
           views' \in [Projects -> View \union {None}], snapshots' \subseteq Files,
           refused' \subseteq Files, UNCHANGED <<dropped, unasked>>,
           m = 1 => calls[1].call # "quit",
           m = 0 => Shown # {} \/ calls[1].call # "quit",
           AskedFor', Patient /\ Apart => Apart'
    PROVE  IInv'
<1>1. calls \in Seq(Call) /\ CallsOK'
  BY Typed, CutIsOK DEF IInv
<1>2. TypeOK'
  <2>1. calls' \in Seq(Call)
    BY DEF Cut
  <2> QED
    BY <2>1 DEF IInv, TypeOK, requests, closing, counters
<1>3. Life'
  BY <1>1, CutLife DEF IInv, requests
<1>4. Nesting'
  BY <1>1, CutNesting DEF IInv, requests
<1>5. InShown'
  BY <1>1, CutInShown DEF IInv
<1>6. Leaving'
  BY <1>1, CutLeaving DEF IInv, closing
<1> QED
  BY <1>1, <1>2, <1>3, <1>4, <1>5, <1>6 DEF IInv, Patient

(* A call other than a close returns.                                       *)
LEMMA ReturnKeeps ==
    ASSUME IInv, Cut(Len(calls) - 1), calls # <<>>, phase \in {"starting", "running"},
           UNCHANGED <<may, phase, windows, requests, closing, counters>>,
           views' \in [Projects -> View \union {None}], snapshots' \subseteq Files,
           refused' \subseteq Files, UNCHANGED <<dropped, unasked>>,
           Top.call \notin {"close", "quit"},
           AskedFor', Patient /\ Apart => Apart'
    PROVE  IInv'
<1> DEFINE n == Len(calls)
<1>1. n \in Nat /\ n > 0 /\ Top = calls[n]
  BY Typed
<1>2. Cut(n - 1)
  OBVIOUS
<1> HIDE DEF n
<1>3. n - 1 = 1 => calls[1].call # "quit"
  <2>1. n - 1 = 1 => n = 2 /\ 2 \in 2 .. n
    BY <1>1
  <2>2. 2 \in 2 .. n /\ calls[1].call = "quit" => calls[2].call = "close"
    BY DEF IInv, Nesting, n
  <2> QED
    BY <1>1, <2>1, <2>2
<1>4. n - 1 = 0 => calls[1].call # "quit"
  <2>1. n - 1 = 0 => n = 1
    BY <1>1
  <2> QED
    BY <1>1, <2>1
<1>5. n - 1 # Len(calls)
  BY <1>1 DEF n
<1> QED
  BY <1>2, <1>3, <1>4, <1>5, CutKeeps

LEMMA UntouchedTopped ==
    ASSUME IInv, NEW m, NEW c, Topped(m, c), UNCHANGED <<may, windows, views, messages, unasked>>,
           c.call # "close"
    PROVE  AskedFor' /\ (Apart => OldMessages /\ OldProjects) /\ calls' \in Seq(Call)
<1>1. OldCloses
  BY ToppedOldCloses
<1>2. Shown' = Shown /\ \A p \in Opened' : p \in Opened /\ views'[p] = views[p]
  BY DEF Shown, Opened
<1>3. AskedFor'
  BY <1>1, <1>2, OldClosesAsked DEF IInv
<1>4. Apart => OldMessages /\ OldProjects
  BY <1>2 DEF OldMessages, OldProjects, Apart
<1> QED
  BY <1>3, <1>4 DEF Topped

LEMMA UntouchedCut ==
    ASSUME IInv, NEW m, Cut(m), UNCHANGED <<may, windows, views, messages, unasked>>
    PROVE  AskedFor' /\ (Apart => Apart')
<1>1. OldCloses /\ OldOpenings /\ OldList /\ calls' \in Seq(Call)
  BY Typed, CutOldCloses, CutOldOpenings DEF Cut
<1>2. Shown' = Shown /\ \A p \in Opened' : p \in Opened /\ views'[p] = views[p]
  BY DEF Shown, Opened
<1>3. AskedFor'
  BY <1>1, <1>2, OldClosesAsked DEF IInv
<1>4. Apart => OldMessages /\ OldProjects
  BY <1>2 DEF OldMessages, OldProjects, Apart
<1> QED
  BY <1>1, <1>3, <1>4, ApartKept, Typed

LEMMA AnswerOpenKeeps == ASSUME IInv, AnswerOpen PROVE IInv'
<1>1. /\ phase \in {"starting", "running"} /\ calls # <<>> /\ Top.call = "open" /\ Top.at = "asks"
      /\ UNCHANGED <<may, phase, program, closing, snapshots, counters, dropped, unasked>>
  BY DEF AnswerOpen, Innermost
<1>2. /\ views' = views /\ views \in [Projects -> View \union {None}]
      /\ UNCHANGED <<windows, messages, requests>>
      /\ snapshots' \subseteq Files /\ refused \subseteq Files
  BY <1>1 DEF program, requests, IInv, TypeOK
<1>3. Top \in Call /\ CallOK(Top) /\ Top = calls[Len(calls)] /\ Len(calls) \in 1 .. Len(calls)
      /\ calls \in Seq(Call)
  BY <1>1, Typed
<1>4. CASE Become([Top EXCEPT !.at = "loads", !.waiting = TRUE]) /\ UNCHANGED refused
  <2> DEFINE c == [Top EXCEPT !.at = "loads", !.waiting = TRUE]
  <2>1. /\ c \in Call /\ CallOK(c) /\ c.call = Top.call /\ c.window = Top.window
        /\ c.files = Top.files /\ c.file = Top.file /\ ~Listing(c) /\ Opening(Top)
    BY <1>1, <1>3 DEF Call, CallOK, Listing, Opening
  <2>2. Become(c)
    BY <1>4
  <2> HIDE DEF c
  <2>3. Topped(Len(calls), c)
    BY <1>1, <1>3, <2>1, <2>2, BecomeIs
  <2>4. AskedFor' /\ (Apart => OldMessages /\ OldProjects) /\ calls' \in Seq(Call)
    BY <1>1, <1>2, <2>1, <2>3, UntouchedTopped
  <2>5. OldOpenings /\ OldList
    BY <1>3, <2>1, <2>3, ToppedOldOpenings, ToppedOldList
  <2>6. Apart => Apart'
    BY <1>3, <2>4, <2>5, ApartKept
  <2> QED
    BY <1>1, <1>2, <1>4, <2>1, <2>3, <2>4, <2>6, BecomeKeeps
<1>5. CASE Return /\ refused' = refused \union {Top.file}
  <2>1. refused' \subseteq Files
    BY <1>1, <1>2, <1>3, <1>5 DEF CallOK
  <2>2. Cut(Len(calls) - 1)
    BY <1>1, <1>3, <1>5, SwapIs DEF Return
  <2>3. AskedFor' /\ (Apart => Apart')
    BY <1>1, <1>2, <2>2, UntouchedCut
  <2> QED
    BY <1>1, <1>2, <2>1, <2>2, <2>3, ReturnKeeps
<1> QED
  BY <1>4, <1>5 DEF AnswerOpen

LEMMA AnswerToldKeeps == ASSUME IInv, AnswerTold PROVE IInv'
<1>1. /\ phase \in {"starting", "running"} /\ calls # <<>> /\ Top.call = "open" /\ Return
      /\ UNCHANGED <<may, phase, program, closing, snapshots, counters, histories>>
  BY DEF AnswerTold, Innermost
<1>2. /\ views' \in [Projects -> View \union {None}] /\ snapshots' \subseteq Files
      /\ refused' \subseteq Files
      /\ UNCHANGED <<windows, views, messages, requests, refused, dropped, unasked>>
  BY <1>1 DEF program, requests, histories, IInv, TypeOK
<1>3. Cut(Len(calls) - 1)
  BY <1>1, Typed, SwapIs DEF Return
<1>4. AskedFor' /\ (Apart => Apart')
  BY <1>1, <1>2, <1>3, UntouchedCut
<1> QED
  BY <1>1, <1>2, <1>3, <1>4, ReturnKeeps

LEMMA TabClosedKeeps == ASSUME IInv, TabClosed PROVE IInv'
<1>1. /\ phase = "running" /\ calls # <<>> /\ Top.call = "close tab" /\ Return
      /\ UNCHANGED <<may, phase, program, closing, snapshots, counters, histories>>
  BY DEF TabClosed, Innermost
<1>2. /\ views' \in [Projects -> View \union {None}] /\ snapshots' \subseteq Files
      /\ refused' \subseteq Files
      /\ UNCHANGED <<windows, views, messages, requests, refused, dropped, unasked>>
  BY <1>1 DEF program, requests, histories, IInv, TypeOK
<1>3. Cut(Len(calls) - 1)
  BY <1>1, Typed, SwapIs DEF Return
<1>4. AskedFor' /\ (Apart => Apart')
  BY <1>1, <1>2, <1>3, UntouchedCut
<1> QED
  BY <1>1, <1>2, <1>3, <1>4, ReturnKeeps

(* A listing call is at the bottom of the stack.                            *)
LEMMA AtBottom ==
    ASSUME IInv, calls # <<>>, Top.call \notin {"open", "close"}
    PROVE  Len(calls) = 1 /\ Top = calls[1]
<1> DEFINE n == Len(calls)
<1>1. n \in Nat /\ n > 0 /\ Top = calls[n]
  BY Typed
<1> HIDE DEF n
<1>2. n # 1 => n \in 2 .. n
  BY <1>1
<1>3. n \in 2 .. n => calls[n].call \in {"open", "close"}
  BY DEF IInv, Nesting, n
<1> QED
  BY <1>1, <1>2, <1>3 DEF n

LEMMA AnswerRestoreKeeps == ASSUME IInv, AnswerRestore PROVE IInv'
<1>1. /\ phase = "running" /\ calls # <<>> /\ Top.call = "restore" /\ Top.at = "asks"
      /\ UNCHANGED <<may, phase, program, closing, counters, histories>>
  BY DEF AnswerRestore, Innermost
<1>2. PICK picked \in SUBSET Top.left, w \in Shown :
        /\ Become([Top EXCEPT !.at = "next", !.left = picked, !.window = w])
        /\ snapshots' = snapshots \ (Top.left \ picked)
  BY DEF AnswerRestore
<1>3. /\ views' \in [Projects -> View \union {None}] /\ snapshots' \subseteq Files
      /\ refused' \subseteq Files
      /\ UNCHANGED <<windows, views, messages, requests, refused, dropped, unasked>>
  BY <1>1, <1>2 DEF program, requests, histories, IInv, TypeOK
<1> DEFINE c == [Top EXCEPT !.at = "next", !.left = picked, !.window = w]
<1>4. /\ Top \in Call /\ CallOK(Top) /\ calls \in Seq(Call) /\ w \in Windows
      /\ Len(calls) = 1 /\ Top = calls[1]
  BY <1>1, Typed, AtBottom DEF Shown
<1>5. /\ c \in Call /\ CallOK(c) /\ c.call = Top.call /\ c.window = w
      /\ c.files = Top.files /\ c.left \subseteq calls[1].left /\ ~Opening(c)
  BY <1>1, <1>4 DEF Call, CallOK, Opening
<1>6. Become(c)
  BY <1>2
<1> HIDE DEF c
<1>7. Topped(Len(calls), c)
  BY <1>1, <1>4, <1>5, <1>6, BecomeIs
<1>8. AskedFor' /\ (Apart => OldMessages /\ OldProjects) /\ calls' \in Seq(Call)
  BY <1>1, <1>3, <1>5, <1>7, UntouchedTopped
<1>9. OldOpenings /\ OldList
  BY <1>1, <1>4, <1>5, <1>7, ToppedOldOpenings, ToppedOldList
<1>10. Apart => Apart'
  BY <1>4, <1>8, <1>9, ApartKept
<1>11. c.call \notin Closing
  BY <1>1, <1>5 DEF Closing
<1> QED
  BY <1>1, <1>2, <1>3, <1>5, <1>7, <1>8, <1>10, <1>11, BecomeKeeps

LEMMA RestoreNextKeeps == ASSUME IInv, RestoreNext PROVE IInv'
<1>1. /\ phase = "running" /\ calls # <<>> /\ Top.call = "restore" /\ Top.at = "next"
      /\ UNCHANGED <<may, phase, program, closing, snapshots, counters, histories>>
  BY DEF RestoreNext, Innermost
<1>2. PICK f \in Top.left :
        Become([Top EXCEPT !.at = "loads", !.file = f, !.left = @ \ {f}, !.waiting = TRUE])
  BY DEF RestoreNext
<1>3. /\ views' \in [Projects -> View \union {None}] /\ snapshots' \subseteq Files
      /\ refused' \subseteq Files
      /\ UNCHANGED <<windows, views, messages, requests, refused, dropped, unasked>>
  BY <1>1, <1>2 DEF program, requests, histories, IInv, TypeOK
<1> DEFINE c == [Top EXCEPT !.at = "loads", !.file = f, !.left = @ \ {f}, !.waiting = TRUE]
<1>4. /\ Top \in Call /\ CallOK(Top) /\ calls \in Seq(Call)
      /\ Len(calls) = 1 /\ Top = calls[1]
  BY <1>1, Typed, AtBottom
<1>5. /\ c \in Call /\ CallOK(c) /\ c.call = Top.call /\ c.window = Top.window
      /\ c.files = Top.files /\ c.left = calls[1].left \ {f} /\ c.file = f /\ Opening(c)
  BY <1>1, <1>2, <1>4 DEF Call, CallOK, Opening
<1>6. Become(c)
  BY <1>2
<1> HIDE DEF c
<1>7. Topped(1, c)
  BY <1>1, <1>4, <1>5, <1>6, BecomeIs
<1>8. AskedFor' /\ (Apart => OldMessages /\ OldProjects) /\ calls' \in Seq(Call)
  BY <1>1, <1>3, <1>5, <1>7, UntouchedTopped
<1>9. ASSUME Apart PROVE Apart'
  <2>1. OldList
    BY <1>1, <1>4, <1>5, <1>7, ToppedOldList
  <2>2. f \notin Range(messages') /\ \A p \in Opened : views[p].file # f
    BY <1>1, <1>2, <1>3, <1>4, <1>9 DEF Apart, Listing
  <2>3. calls'[1].left = c.left
    BY <1>7 DEF Topped, Alike
  <2>4. \A j \in 1 .. Len(calls) : j = 1
    BY <1>4
  <2> QED
    BY <1>4, <1>5, <1>7, <1>8, <1>9, <2>1, <2>2, <2>3, <2>4, ApartTopped
<1> QED
  BY <1>1, <1>3, <1>4, <1>5, <1>7, <1>8, <1>9, BecomeKeeps

(* The projects after AddProject().                                         *)
LEMMA AddProjectIs ==
    ASSUME IInv, NEW v \in View, NEW q \in Projects \ Opened, views' = [views EXCEPT ![q] = v]
    PROVE  /\ views' \in [Projects -> View \union {None}]
           /\ \A p \in Opened' : \/ p = q /\ views'[p] = v
                                 \/ p \in Opened /\ views'[p] = views[p]
<1>1. views' \in [Projects -> View \union {None}]
  BY Typed
<1>2. \A p \in Projects : views'[p] = IF p = q THEN v ELSE views[p]
  BY Typed
<1>3. ASSUME NEW p \in Opened'
      PROVE  \/ p = q /\ views'[p] = v
             \/ p \in Opened /\ views'[p] = views[p]
  <2>1. p \in Projects /\ views'[p] # None
    BY DEF Opened
  <2> QED
    BY <1>2, <2>1 DEF Opened
<1> QED
  BY <1>1, <1>3

(* Nobody is closing the window of a new project that must be kept.         *)
LEMMA AddedAsked ==
    ASSUME IInv, OldCloses, UNCHANGED <<may, windows, unasked>>, NEW q,
           \A p \in Opened' : \/ p = q /\ views'[p].window \in Shown
                              \/ p \in Opened /\ views'[p] = views[p],
           q \in Opened' /\ Kept(q)' => \A i \in 1 .. Len(calls) : calls[i].call # "close"
    PROVE  AskedFor'
<1>1. Shown' = Shown /\ unasked' = {}
  BY DEF IInv, AskedFor, Shown
<1>2. \A p \in Opened' : Kept(p)' => views'[p].window \in Shown'
  BY <1>1 DEF IInv, AskedFor, Kept
<1>3. ASSUME NEW i \in 1 .. Len(calls'), calls'[i].call = "close", NEW p \in Opened', Kept(p)',
             views'[p].window = calls'[i].window
      PROVE  p \in calls'[i].left \union {calls'[i].project}
  <2>1. /\ i \in 1 .. Len(calls) /\ calls[i].call = "close" /\ calls'[i].window = calls[i].window
        /\ calls'[i].left = calls[i].left /\ calls'[i].project = calls[i].project
    BY <1>3 DEF OldCloses
  <2>2. p # q
    BY <1>3, <2>1
  <2>3. p \in Opened /\ views'[p] = views[p] /\ Kept(p)
    BY <1>3, <2>2 DEF Kept
  <2> QED
    BY <1>3, <2>1, <2>3 DEF IInv, AskedFor
<1> QED
  BY <1>1, <1>2, <1>3 DEF AskedFor

LEMMA RestoreEndsKeeps == ASSUME IInv, RestoreEnds PROVE IInv'
<1> DEFINE c == [Top EXCEPT !.at = "next"]
<1>1. /\ phase = "running" /\ calls # <<>> /\ Top.call = "restore" /\ Top.at = "loads"
      /\ UNCHANGED <<may, phase, windows, requests, closing, counters, histories>>
      /\ snapshots' = snapshots \ {Top.file}
      /\ AddProject(Top.file, Top.window, TRUE) \/ UNCHANGED views
      /\ calls' = dropInstance(Append(Front(calls), c))
  BY DEF RestoreEnds, Innermost
<1>2. /\ Top \in Call /\ CallOK(Top) /\ calls \in Seq(Call) /\ 1 \in 1 .. Len(calls)
      /\ Len(calls) = 1 /\ Top = calls[1] /\ Top.file \in Files /\ Top.window \in Windows
  BY <1>1, Typed, AtBottom DEF CallOK
<1>3. /\ c \in Call /\ CallOK(c) /\ c.call = Top.call /\ c.window = Top.window
      /\ c.files = Top.files /\ c.left = calls[1].left /\ ~Opening(c) /\ Opening(calls[1])
  BY <1>1, <1>2 DEF Call, CallOK, Opening
<1> HIDE DEF c
<1>4. Topped(1, c)
  BY <1>1, <1>2, <1>3, SwapIs
<1>5. /\ snapshots' \subseteq Files /\ refused' \subseteq Files
      /\ UNCHANGED <<messages, requests, refused, dropped, unasked>>
  BY <1>1 DEF requests, histories, IInv, TypeOK
<1>6. Top.window \in Shown
  BY <1>2, NoneAssumption DEF IInv, InShown
<1> DEFINE v == [file |-> Top.file, window |-> Top.window, edited |-> TRUE]
<1>7. v \in View /\ v.file = Top.file /\ v.window = Top.window /\ v.edited = TRUE
  BY <1>2 DEF View
<1>8. /\ views' \in [Projects -> View \union {None}]
      /\ \E q : /\ q \notin Opened
                /\ \A p \in Opened' : \/ p = q /\ views'[p] = v
                                      \/ p \in Opened /\ views'[p] = views[p]
  <2>1. CASE AddProject(Top.file, Top.window, TRUE)
    <3>1. PICK q \in Projects \ Opened : views' = [views EXCEPT ![q] = v]
      BY <2>1 DEF AddProject
    <3> HIDE DEF v
    <3> QED
      BY <1>7, <3>1, AddProjectIs
  <2>2. CASE UNCHANGED views
    <3> HIDE DEF v
    <3>1. None \notin Opened
      BY NoneAssumption DEF Opened
    <3> QED
      BY <2>2, <3>1, Typed DEF Opened
  <2> QED
    BY <1>1, <2>1, <2>2
<1> HIDE DEF v
<1>9. PICK q : /\ q \notin Opened
               /\ \A p \in Opened' : \/ p = q /\ views'[p] = v
                                     \/ p \in Opened /\ views'[p] = views[p]
  BY <1>8
<1>10. AskedFor'
  <2>1. OldCloses
    BY <1>1, <1>3, <1>4, ToppedOldCloses
  <2>2. \A i \in 1 .. Len(calls) : calls[i].call # "close"
    BY <1>1, <1>2
  <2> QED
    BY <1>1, <1>5, <1>6, <1>7, <1>9, <2>1, <2>2, AddedAsked
<1>11. ASSUME Apart PROVE Apart'
  <2>1. OldOpenings /\ OldList /\ calls' \in Seq(Call)
    BY <1>1, <1>2, <1>3, <1>4, ToppedOldOpenings, ToppedOldList DEF Topped
  <2>2. OldMessages
    BY <1>5, <1>11 DEF OldMessages, Apart
  <2>3. ~Opening(calls'[1])
    BY <1>3, <1>4 DEF Topped, Alike, Opening
  <2> QED
    BY <1>2, <1>3, <1>7, <1>9, <1>11, <2>1, <2>2, <2>3, ApartOpened
<1> QED
  BY <1>1, <1>2, <1>3, <1>4, <1>5, <1>8, <1>10, <1>11, BecomeKeeps

LEMMA LoadEndsKeeps == ASSUME IInv, LoadEnds PROVE IInv'
<1> DEFINE c == [Top EXCEPT !.at = "tells"]
           n == Len(calls)
<1>1. /\ phase \in {"starting", "running"} /\ calls # <<>> /\ Top.call = "open" /\ Top.at = "loads"
      /\ UNCHANGED <<may, phase, windows, requests, closing, snapshots, counters, dropped, unasked>>
      /\ \/ AddProject(Top.file, Top.window, FALSE) /\ UNCHANGED refused
         \/ UNCHANGED views /\ refused' = refused \union {Top.file}
      /\ calls' = dropInstance(IF Top.interactive THEN Append(Front(calls), c) ELSE Front(calls))
  BY DEF LoadEnds, Innermost
<1>2. /\ Top \in Call /\ CallOK(Top) /\ calls \in Seq(Call) /\ n \in Nat /\ n \in 1 .. n
      /\ Top = calls[n] /\ Top.file \in Files /\ Top.window \in Windows /\ 1 \in 1 .. n
  BY <1>1, Typed DEF CallOK
<1>3. /\ c \in Call /\ CallOK(c) /\ c.call = Top.call /\ c.window = Top.window
      /\ c.files = Top.files /\ ~Opening(c) /\ ~Listing(c) /\ Opening(calls[n])
  BY <1>1, <1>2 DEF Call, CallOK, Opening, Listing
<1> HIDE DEF c, n
<1>4. Topped(n, c) \/ Cut(n - 1)
  BY <1>1, <1>2, <1>3, SwapIs DEF n
<1>5. /\ snapshots' \subseteq Files /\ refused' \subseteq Files
      /\ UNCHANGED <<messages, requests, dropped, unasked>>
  BY <1>1, <1>2 DEF requests, IInv, TypeOK
<1>6. Top.window \in Shown
  BY <1>2, NoneAssumption DEF IInv, InShown, n
<1> DEFINE v == [file |-> Top.file, window |-> Top.window, edited |-> FALSE]
<1>7. v \in View /\ v.file = Top.file /\ v.window = Top.window /\ v.edited = FALSE
  BY <1>2 DEF View
<1>8. /\ views' \in [Projects -> View \union {None}]
      /\ \E q : /\ q \notin Opened
                /\ \A p \in Opened' : \/ p = q /\ views'[p] = v
                                      \/ p \in Opened /\ views'[p] = views[p]
  <2>1. CASE AddProject(Top.file, Top.window, FALSE)
    <3>1. PICK q \in Projects \ Opened : views' = [views EXCEPT ![q] = v]
      BY <2>1 DEF AddProject
    <3> HIDE DEF v
    <3> QED
      BY <1>7, <3>1, AddProjectIs
  <2>2. CASE UNCHANGED views
    <3> HIDE DEF v
    <3>1. None \notin Opened
      BY NoneAssumption DEF Opened
    <3> QED
      BY <2>2, <3>1, Typed DEF Opened
  <2> QED
    BY <1>1, <2>1, <2>2
<1> HIDE DEF v
<1>9. PICK q : /\ q \notin Opened
               /\ \A p \in Opened' : \/ p = q /\ views'[p] = v
                                     \/ p \in Opened /\ views'[p] = views[p]
  BY <1>8
<1>10. OldCloses /\ OldOpenings /\ OldList /\ calls' \in Seq(Call)
      /\ ~(n \in 1 .. Len(calls') /\ Opening(calls'[n]))
  <2>1. CASE Topped(n, c)
    <3>1. OldCloses /\ OldOpenings /\ OldList
      BY <1>1, <1>2, <1>3, <2>1, ToppedOldCloses, ToppedOldOpenings, ToppedOldList
    <3> QED
      BY <1>3, <2>1, <3>1 DEF Topped, Alike, Opening
  <2>2. CASE Cut(n - 1)
    <3>1. n \notin 1 .. n - 1
      BY <1>2
    <3> QED
      BY <1>2, <2>2, <3>1, CutOldCloses, CutOldOpenings DEF Cut
  <2> QED
    BY <1>4, <2>1, <2>2
<1>11. AskedFor'
  <2>1. "closing" \notin may => \A i \in 1 .. n : calls[i].call # "close"
    <3>1. "closing" \notin may => calls[1].call \notin Closing
      BY <1>1, <1>2 DEF IInv, Nesting, Closing, n
    <3>2. \A i \in 1 .. n : i = 1 \/ i \in 2 .. n
      BY <1>2
    <3> QED
      BY <3>1, <3>2 DEF IInv, Nesting, Closing, n
  <2>2. q \in Opened' /\ Kept(q)' => "closing" \notin may
    BY <1>1, <1>7, <1>9 DEF Kept
  <2> QED
    BY <1>1, <1>5, <1>6, <1>7, <1>9, <1>10, <2>1, <2>2, AddedAsked DEF n
<1>12. ASSUME Apart PROVE Apart'
  <2>1. OldMessages
    BY <1>5, <1>12 DEF OldMessages, Apart
  <2> QED
    BY <1>2, <1>3, <1>7, <1>9, <1>10, <1>12, <2>1, ApartOpened DEF n
<1>13. CASE Topped(n, c)
  BY <1>1, <1>2, <1>3, <1>5, <1>8, <1>11, <1>12, <1>13, BecomeKeeps DEF n
<1>14. CASE Cut(n - 1)
  BY <1>1, <1>5, <1>8, <1>11, <1>12, <1>14, ReturnKeeps DEF n
<1> QED
  BY <1>4, <1>13, <1>14

LEMMA RestoredKeeps == ASSUME IInv, Restored PROVE IInv'
<1>1. /\ phase = "running" /\ calls # <<>> /\ Top.call = "restore" /\ Top.at = "next"
      /\ UNCHANGED <<may, phase, program, closing, snapshots, counters, histories>>
  BY DEF Restored, Innermost
<1>2. /\ Top \in Call /\ calls \in Seq(Call) /\ Len(calls) = 1 /\ Top = calls[1]
  BY <1>1, Typed, AtBottom
<1>3. /\ views' \in [Projects -> View \union {None}]
      /\ snapshots' \subseteq Files /\ refused' \subseteq Files /\ dropped' \subseteq Files
      /\ unasked' \subseteq Files /\ asked' \in 0 .. MaxRequests
      /\ UNCHANGED <<windows, views, messages, requests, refused, dropped, unasked, received,
                     reopen, queued, starts>>
  BY <1>1 DEF program, requests, histories, counters, IInv, TypeOK
<1>4. CASE reopen /\ ~received
  <2>1. PICK w \in diagramEditors :
          Become([Start("reopen", "next") EXCEPT
                     !.window = w, !.left = openAtQuit \ FilesIn(diagramEditors)])
    BY <1>4 DEF Restored
  <2> DEFINE c == [Start("reopen", "next") EXCEPT
                      !.window = w, !.left = openAtQuit \ FilesIn(diagramEditors)]
  <2>2. Closed = {} /\ w \in Shown /\ w \in Windows
    BY <1>1, <1>2, <2>1 DEF IInv, InShown, diagramEditors, Shown
  <2>3. openAtQuit \subseteq Files
    BY DEF IInv, TypeOK
  <2>4. c \in Call /\ CallOK(c) /\ c.call = "reopen" /\ c.window = w /\ ~Opening(c)
    BY <2>2, <2>3 DEF Start, Call, CallOK, Opening
  <2>5. Become(c)
    BY <2>1
  <2> HIDE DEF c
  <2>6. Topped(1, c)
    BY <1>1, <1>2, <2>4, <2>5, BecomeIs
  <2>7. AskedFor' /\ (Apart => OldMessages /\ OldProjects) /\ calls' \in Seq(Call)
    BY <1>1, <1>3, <2>4, <2>6, UntouchedTopped
  <2>8. ASSUME Apart PROVE Apart'
    <3>1. /\ Len(calls') = 1 /\ calls'[1].call = "reopen" /\ ~Opening(calls'[1])
      BY <2>4, <2>6 DEF Topped, Alike, Opening
    <3>2. messages' = <<>> /\ Range(messages') = {}
      BY <1>3, <1>4, EmptySeq DEF IInv, Life, Range
    <3>3. \A i \in 1 .. Len(calls') : ~Opening(calls'[i])
      BY <3>1
    <3> QED
      BY <2>7, <2>8, <3>1, <3>2, <3>3 DEF Apart, OldMessages, OldProjects
  <2>9. c.call \notin Closing
    BY <2>4 DEF Closing
  <2>10. \/ queued' = FALSE /\ phase = "running"
         \/ queued' = queued /\ (queued => phase = "starting" /\ 1 = 1 /\ c.call = "open")
    BY <1>1, <1>3, QueuedMeans
  <2>11. c.call # "close" /\ c.call # "quit" /\ (c.window # None => c.window \in Shown)
         /\ (1 = 1 => c.call \notin Closing)
    BY <2>2, <2>4, <2>9
  <2> QED
    BY <1>1, <1>2, <1>3, <2>2, <2>4, <2>6, <2>7, <2>8, <2>9, <2>10, <2>11, ToppedKeeps
<1>5. CASE ~(reopen /\ ~received)
  <2>1. Cut(Len(calls) - 1)
    BY <1>1, <1>2, <1>5, SwapIs DEF Restored, Return
  <2>2. AskedFor' /\ (Apart => Apart')
    BY <1>1, <1>3, <2>1, UntouchedCut
  <2> QED
    BY <1>1, <1>3, <2>1, <2>2, ReturnKeeps
<1> QED
  BY <1>4, <1>5

(* A call begins while none is under way.                                   *)
LEMMA BeginKeeps ==
    ASSUME IInv, calls = <<>>, NEW c \in Call, CallOK(c), Push(c), phase = "running",
           UNCHANGED <<may, phase, windows, views, messages, received, reopen, closing, starts,
                       histories>>,
           asked' \in 0 .. MaxRequests, snapshots' = snapshots, queued' = FALSE,
           messages = <<>>, Closed = {}, c.window # None => c.window \in Shown,
           c.call \notin {"close", "quit"}, Topped(1, c) /\ Apart => Apart'
    PROVE  IInv'
<1>1. calls \in Seq(Call) /\ Len(calls) = 0
  BY Typed, EmptySeq
<1>2. Len(calls) + 1 = 1
  BY <1>1
<1>3. Topped(1, c)
  BY <1>1, <1>2, PushIs
<1>4. AskedFor'
  BY <1>3, UntouchedTopped DEF histories
<1>5. /\ snapshots' \subseteq Files /\ refused' \subseteq Files /\ dropped' \subseteq Files
      /\ unasked' \subseteq Files /\ views' \in [Projects -> View \union {None}]
  BY DEF histories, IInv, TypeOK
<1> DEFINE m == 1
<1>6. m = 1 /\ Topped(m, c)
  BY <1>3
<1> HIDE DEF m
<1>7. "closing" \notin may /\ (IF m = 1 THEN c ELSE calls[1]).call \in Closing
        => messages = <<>> /\ c.call \in Closing
  BY <1>6
<1>8. \/ queued' = FALSE /\ phase = "running"
      \/ queued' = queued /\ (queued => phase = "starting" /\ m = 1 /\ c.call = "open")
  OBVIOUS
<1>9. m = 1 => /\ Closed = {} /\ c.call # "quit"
               /\ calls # <<>> => calls[1].call # "quit"
               /\ c.call = "close" => /\ calls # <<>> /\ calls[1].call = "close"
                                      /\ c.window = calls[1].window /\ c.files = calls[1].files
  OBVIOUS
<1>10. /\ m # 1 => c.call = IF m = 2 /\ calls[1].call = "quit" THEN "close" ELSE "open"
       /\ m = 2 /\ calls[1].call = "quit" => Len(calls) > 1 /\ c.window = calls[2].window
  BY <1>6
<1>11. Patient /\ Apart => Apart'
  BY <1>3
<1> QED
  BY <1>4, <1>5, <1>6, <1>7, <1>8, <1>9, <1>10, <1>11, ToppedKeeps

LEMMA CheckBackupFilesKeeps == ASSUME IInv, CheckBackupFiles PROVE IInv'
<1> DEFINE c == [Start("restore", IF StaleFiles = {} THEN "next" ELSE "asks") EXCEPT
                    !.left = StaleFiles]
<1>1. /\ phase = "running" /\ queued /\ calls = <<>> /\ queued' = FALSE /\ Push(c)
      /\ UNCHANGED <<may, phase, windows, views, messages, received, reopen, closing,
                     snapshots, counters, histories>>
  BY DEF CheckBackupFiles
<1>2. StaleFiles \subseteq Files
  BY DEF StaleFiles, IInv, TypeOK
<1>3. /\ c \in Call /\ CallOK(c) /\ c.call = "restore" /\ c.window = None /\ ~Opening(c)
      /\ c.left = StaleFiles
  BY <1>2 DEF Start, Call, CallOK, Opening
<1> HIDE DEF c
<1>5. Closed = {} /\ messages = <<>>
  BY <1>1 DEF IInv, Life
<1>6. ASSUME Topped(1, c), Apart PROVE Apart'
  <2>1. AskedFor' /\ (Apart => OldMessages /\ OldProjects) /\ calls' \in Seq(Call)
    BY <1>1, <1>3, <1>6, UntouchedTopped DEF histories
  <2>2. /\ Len(calls') = 1 /\ ~Opening(calls'[1]) /\ calls'[1].left = StaleFiles
    BY <1>3, <1>6 DEF Topped, Alike, Opening
  <2>3. Range(messages') = {}
    BY <1>1, <1>5, EmptySeq DEF Range
  <2>4. \A i \in 1 .. Len(calls') : ~Opening(calls'[i])
    BY <2>2
  <2>5. \A p \in Opened' : views'[p].file \notin calls'[1].left
    BY <1>1, <2>2 DEF StaleFiles, FilesOf, Opened
  <2> QED
    BY <1>6, <2>1, <2>2, <2>3, <2>4, <2>5 DEF Apart, OldMessages, OldProjects
<1>7. asked' \in 0 .. MaxRequests /\ starts' = starts
  BY <1>1 DEF counters, IInv, TypeOK
<1> QED
  BY <1>1, <1>3, <1>5, <1>6, <1>7, BeginKeeps

LEMMA CloseTabKeeps == ASSUME IInv, CloseTab PROVE IInv'
<1>1. /\ Pumping /\ calls = <<>> /\ messages = <<>> /\ asked < MaxRequests /\ asked' = asked + 1
      /\ UNCHANGED <<may, phase, program, closing, snapshots, starts, histories>>
  BY DEF CloseTab, Command, Prompt
<1>2. PICK p \in Opened :
        /\ views[p].window \in Shown
        /\ Push([Start("close tab", "next") EXCEPT !.window = views[p].window, !.left = {p}])
  BY DEF CloseTab
<1> DEFINE c == [Start("close tab", "next") EXCEPT !.window = views[p].window, !.left = {p}]
<1>3. views[p].window \in Windows /\ p \in Projects
  BY <1>2 DEF Shown, Opened
<1>4. /\ c \in Call /\ CallOK(c) /\ c.call = "close tab" /\ c.window \in Shown /\ ~Opening(c)
      /\ ~Listing(c)
  BY <1>2, <1>3 DEF Start, Call, CallOK, Opening, Listing
<1>5. Push(c)
  BY <1>2
<1> HIDE DEF c
<1>6. calls \in Seq(Call) /\ Len(calls) = 0 /\ phase = "running" /\ ~queued
  BY <1>1, Typed, EmptySeq, PumpingMeans
<1>7. /\ snapshots' = snapshots /\ asked' \in 0 .. MaxRequests /\ queued' = FALSE
      /\ UNCHANGED <<windows, views, messages, received, reopen, queued, unasked>>
  BY <1>1, <1>6, Counted DEF program, requests, histories, IInv, TypeOK
<1>8. Closed = {}
  BY <1>1 DEF Pumping
<1>9. ASSUME Topped(1, c), Apart PROVE Apart'
  <2>1. AskedFor' /\ (Apart => OldMessages /\ OldProjects) /\ calls' \in Seq(Call)
    BY <1>1, <1>4, <1>7, <1>9, UntouchedTopped
  <2>2. OldOpenings /\ OldList
    BY <1>4, <1>6, <1>9, ToppedOldOpenings, ToppedOldList
  <2> QED
    BY <1>6, <1>9, <2>1, <2>2, ApartKept
<1> QED
  BY <1>1, <1>4, <1>5, <1>6, <1>7, <1>8, <1>9, BeginKeeps

(* From one call to two.                                                    *)
LEMMA TwoCalls ==
    ASSUME IInv, phase = "running", ~queued, calls' \in Seq(Call), Len(calls') = 2,
           NEW c \in Call, NEW d \in Call, CallOK(c), CallOK(d),
           Alike(calls'[1], c), Alike(calls'[2], d),
           UNCHANGED <<may, phase, program, closing, snapshots, counters, unasked, refused, dropped>>,
           d.call = IF c.call = "quit" THEN "close" ELSE "open",
           c.call \in Closing => c.call = "quit" /\ ("closing" \in may \/ messages = <<>>),
           d.window \in Shown, c.window # None => c.window \in Shown,
           IF c.call = "quit" THEN c.left = Shown \ {d.window} /\ c.files = leaving
                              ELSE Closed = {},
           AskedFor', Patient /\ Apart => Apart'
    PROVE  IInv'
<1>1. \A i \in 1 .. Len(calls') : i = 1 \/ i = 2
  OBVIOUS
<1>2. calls' # <<>> /\ 1 \in 1 .. Len(calls') /\ 2 \in 1 .. Len(calls')
  <2>1. 1 \in 1 .. 2 /\ 2 \in 1 .. 2 /\ 2 > 0
    OBVIOUS
  <2>2. calls' # <<>> <=> Len(calls') > 0
    BY SeqOfCalls
  <2> QED
    BY <2>1, <2>2
<1>3. TypeOK'
  BY DEF IInv, TypeOK, program, requests, closing, counters
<1>4. CallsOK'
  BY <1>1, AlikeIsOK DEF CallsOK
<1>5. Shown' = Shown /\ Closed' = Closed /\ UNCHANGED <<messages, received, queued>>
  BY DEF Shown, Closed, program, requests
<1>6. Life'
  BY <1>5 DEF IInv, Life
<1>7. Nesting'
  <2>1. \A i \in 2 .. Len(calls') : i = 2
    OBVIOUS
  <2>2. calls'[1].call = c.call /\ calls'[2].call = d.call
    BY DEF Alike
  <2> QED
    BY <1>1, <1>5, <2>1, <2>2 DEF Nesting, Closing
<1>8. InShown'
  <2>1. \A i \in 1 .. Len(calls') : calls'[i].window # None => calls'[i].window \in Shown
    BY <1>1 DEF Alike
  <2> QED
    BY <1>5, <2>1 DEF InShown, Alike
<1>9. Leaving'
  BY <1>5 DEF IInv, Leaving, closing, Closing, Alike
<1> QED
  BY <1>3, <1>4, <1>6, <1>7, <1>8, <1>9 DEF IInv, Patient

LEMMA ReopenNextKeeps == ASSUME IInv, ReopenNext PROVE IInv'
<1>1. /\ phase = "running" /\ calls # <<>> /\ Top.call = "reopen" /\ Top.at = "next"
      /\ UNCHANGED <<may, phase, program, closing, snapshots, counters, histories>>
  BY DEF ReopenNext, Innermost
<1>2. /\ Top \in Call /\ CallOK(Top) /\ calls \in Seq(Call) /\ Len(calls) = 1 /\ Top = calls[1]
      /\ Top.window \in Windows /\ 1 \in 1 .. Len(calls)
  BY <1>1, Typed, AtBottom DEF CallOK
<1>3. /\ views' \in [Projects -> View \union {None}] /\ snapshots' \subseteq Files
      /\ refused' \subseteq Files
      /\ UNCHANGED <<windows, views, messages, requests, refused, dropped, unasked>>
  BY <1>1 DEF program, requests, histories, IInv, TypeOK
<1>4. CASE Top.left = {}
  <2>1. Cut(Len(calls) - 1)
    BY <1>1, <1>2, <1>4, SwapIs DEF ReopenNext, Return
  <2>2. AskedFor' /\ (Apart => Apart')
    BY <1>1, <1>3, <2>1, UntouchedCut
  <2> QED
    BY <1>1, <1>3, <2>1, <2>2, ReturnKeeps
<1>5. CASE Top.left # {}
  <2>1. PICK f \in Top.left :
          LET on == Append(Front(calls), [Top EXCEPT !.left = @ \ {f}]) IN
          calls' = IF OpenInAWindow(f) THEN on ELSE Append(on, OpenCall(f, Top.window, FALSE))
    BY <1>5 DEF ReopenNext
  <2>2. f \in Files
    BY <1>1, <1>2, <2>1 DEF CallOK
  <2> DEFINE c == [Top EXCEPT !.left = @ \ {f}]
             d == OpenCall(f, Top.window, FALSE)
  <2>3. /\ c \in Call /\ CallOK(c) /\ c.call = Top.call /\ c.window = Top.window
        /\ c.files = Top.files /\ c.left = calls[1].left \ {f} /\ ~Opening(c)
    BY <1>1, <1>2 DEF Call, CallOK, Opening
  <2>4. /\ d \in Call /\ CallOK(d) /\ d.call = "open" /\ d.file = f /\ d.window = Top.window
        /\ Opening(d) /\ ~Listing(d)
    BY <1>2, <2>2, OpenCallIsOK
  <2>5. calls' = IF OpenInAWindow(f) THEN Append(Front(calls), c)
                                     ELSE Append(Append(Front(calls), c), d)
    BY <2>1
  <2> HIDE DEF c, d
  <2>6. CASE OpenInAWindow(f)
    <3>1. Topped(1, c)
      BY <1>1, <1>2, <2>3, <2>5, <2>6, SwapIs
    <3>2. AskedFor' /\ (Apart => OldMessages /\ OldProjects) /\ calls' \in Seq(Call)
      BY <1>1, <1>3, <2>3, <3>1, UntouchedTopped
    <3>3. OldOpenings /\ OldList
      BY <1>1, <1>2, <2>3, <3>1, ToppedOldOpenings, ToppedOldList
    <3>4. Apart => Apart'
      BY <1>2, <3>2, <3>3, ApartKept
    <3> QED
      BY <1>1, <1>2, <1>3, <2>3, <3>1, <3>2, <3>4, BecomeKeeps
  <2>7. CASE ~OpenInAWindow(f)
    <3>1. calls' = Append(Append(Front(calls), c), d)
      BY <2>5, <2>7
    <3>2. /\ calls' \in Seq(Call) /\ Len(calls') = 2
          /\ Alike(calls'[1], c) /\ Alike(calls'[2], d)
      <4>1. /\ calls' \in Seq(Call) /\ Len(calls') = Len(calls) + 1
            /\ Alike(calls'[Len(calls)], c) /\ Alike(calls'[Len(calls) + 1], d)
        BY <1>1, <1>2, <2>3, <2>4, <3>1, SwapIs
      <4>2. Len(calls) = 1 /\ Len(calls) + 1 = 2
        BY <1>2
      <4> QED
        BY <4>1, <4>2
    <3>3. \A i \in 1 .. Len(calls') : i = 1 \/ i = 2
      BY <3>2
    <3>4. AskedFor'
      <4>1. OldCloses
        BY <1>1, <2>3, <2>4, <3>2, <3>3 DEF OldCloses, Alike
      <4>2. Shown' = Shown /\ \A p \in Opened' : p \in Opened /\ views'[p] = views[p]
        BY <1>3 DEF Shown, Opened
      <4> QED
        BY <1>1, <1>3, <4>1, <4>2, OldClosesAsked DEF IInv
    <3>5. ASSUME Patient, Apart PROVE Apart'
      <4>1. \A p \in Opened : views[p].file # f
        <5>1. \A p \in Opened : views[p].window \in Shown
          BY <3>5 DEF Patient, IInv, AskedFor, Kept
        <5> QED
          BY <2>7, <5>1 DEF OpenInAWindow, FilesIn, FilesOf, openedProjects, diagramEditors
      <4>2. f \notin Range(messages)
        BY <1>1, <1>2, <2>1, <3>5 DEF Apart, Listing
      <4>3. ~Opening(calls'[1]) /\ calls'[2].file = f /\ f \notin calls'[1].left
        BY <2>3, <2>4, <3>2 DEF Opening, Alike
      <4>4. calls'[1].left \subseteq calls[1].left /\ calls'[1].call = "reopen"
        BY <1>1, <2>3, <3>2 DEF Alike
      <4>5. \A i, j \in 1 .. Len(calls') : Opening(calls'[i]) /\ Opening(calls'[j]) => i = j
        BY <3>3, <4>3
      <4>6. \A i \in 1 .. Len(calls') : Opening(calls'[i]) => i = 2
        BY <3>3, <4>3
      <4>7. calls[1].left \intersect Range(messages) = {}
        BY <1>1, <1>2, <3>5 DEF Apart, Listing
      <4> QED
        BY <1>3, <3>5, <4>1, <4>2, <4>3, <4>4, <4>5, <4>6, <4>7 DEF Apart, Opened
    <3>6. ~queued
      BY <1>1, QueuedMeans
    <3>7. Closed = {} /\ Top.window \in Shown
      BY <1>1, <1>2, NoneAssumption DEF IInv, InShown
    <3>8. c.call \notin Closing /\ c.call # "quit"
      BY <1>1, <2>3 DEF Closing
    <3> QED
      BY <1>1, <1>3, <2>3, <2>4, <3>2, <3>4, <3>5, <3>6, <3>7, <3>8, TwoCalls
  <2> QED
    BY <2>6, <2>7
<1> QED
  BY <1>4, <1>5

-----------------------------------------------------------------------------
(* Closing.                                                                 *)

(* A close takes one of its projects, which is closed or asked about.       *)
LEMMA ClosesKeeps ==
    ASSUME IInv, phase = "running", calls # <<>>, Closes(Top), NEW c \in Call, CallOK(c), Become(c),
           c.call = Top.call, c.window = Top.window, c.files = Top.files,
           UNCHANGED <<may, phase, windows, requests, closing, snapshots, counters, histories>>,
           views' \in [Projects -> View \union {None}],
           \A p \in Opened' : p \in Opened /\ views'[p] = views[p],
           \A p \in Opened' : p \in Top.left \union {Top.project} => p \in c.left \union {c.project}
    PROVE  IInv'
<1> DEFINE n == Len(calls)
<1>1. /\ Top \in Call /\ CallOK(Top) /\ calls \in Seq(Call) /\ n \in Nat /\ n \in 1 .. n
      /\ Top = calls[n] /\ Top.call \in {"close tab", "close"} /\ Top.call # "quit"
  BY Typed DEF Closes
<1>2. ~Opening(c) /\ ~Listing(c) /\ ~Opening(Top) /\ c.call \in Closing
  BY <1>1 DEF Opening, Listing, Closing
<1>3. Topped(n, c)
  BY <1>1, BecomeIs
<1> HIDE DEF n
<1>4. Shown' = Shown /\ UNCHANGED <<messages, unasked, dropped>> /\ refused' \subseteq Files
      /\ snapshots' \subseteq Files
  BY DEF Shown, requests, histories, IInv, TypeOK
<1>5. AskedFor'
  <2>1. \A p \in Opened' : Kept(p)' => Kept(p) /\ p \in Opened
    BY DEF Kept
  <2>2. ASSUME NEW i \in 1 .. Len(calls'), calls'[i].call = "close", NEW p \in Opened', Kept(p)',
               views'[p].window = calls'[i].window
        PROVE  p \in calls'[i].left \union {calls'[i].project}
    <3>1. CASE i = n
      <4>1. /\ calls'[i].call = c.call /\ calls'[i].window = c.window /\ calls'[i].left = c.left
            /\ calls'[i].project = c.project
        BY <1>3, <3>1 DEF Topped, Alike
      <4>2. p \in calls[n].left \union {calls[n].project}
        <5>1. p \in Opened /\ Kept(p) /\ views[p].window = calls[n].window
          BY <1>1, <2>1, <2>2, <4>1
        <5>2. calls[n].call = "close" /\ n \in 1 .. Len(calls)
          BY <1>1, <2>2, <4>1 DEF n
        <5> QED
          BY <5>1, <5>2 DEF IInv, AskedFor
      <4> QED
        BY <1>1, <4>1, <4>2
    <3>2. CASE i # n
      <4>1. /\ i \in 1 .. Len(calls) /\ calls'[i].call = calls[i].call
            /\ calls'[i].window = calls[i].window /\ calls'[i].left = calls[i].left
            /\ calls'[i].project = calls[i].project
        BY <1>3, <2>2, <3>2 DEF Topped, Alike
      <4> QED
        BY <2>1, <2>2, <4>1 DEF IInv, AskedFor
    <3> QED
      BY <3>1, <3>2
  <2> QED
    BY <1>4, <2>1, <2>2 DEF IInv, AskedFor
<1>6. ASSUME Apart PROVE Apart'
  <2>1. OldOpenings /\ OldList /\ calls' \in Seq(Call)
    BY <1>1, <1>2, <1>3, ToppedOldOpenings, ToppedOldList DEF Topped
  <2>2. OldMessages /\ OldProjects
    BY <1>4, <1>6 DEF OldMessages, OldProjects, Apart
  <2> QED
    BY <1>1, <1>6, <2>1, <2>2, ApartKept
<1> QED
  BY <1>1, <1>3, <1>4, <1>5, <1>6, BecomeKeeps DEF n

LEMMA CloseNextKeeps == ASSUME IInv, CloseNext PROVE IInv'
<1>1. /\ phase = "running" /\ calls # <<>> /\ Closes(Top) /\ Top.at = "next"
      /\ UNCHANGED <<may, phase, windows, requests, closing, snapshots, counters, histories>>
  BY DEF CloseNext
<1>2. PICK p \in Top.left :
        IF views[p].edited
            THEN Become([Top EXCEPT !.at = "asks", !.left = @ \ {p}, !.project = p])
                 /\ UNCHANGED views
            ELSE Become([Top EXCEPT !.left = @ \ {p}]) /\ views' = [views EXCEPT ![p] = None]
  BY DEF CloseNext
<1>3. /\ Top \in Call /\ CallOK(Top) /\ Top.call \in {"close tab", "close"} /\ p \in Projects
      /\ Top.project = None
  BY <1>1, <1>2, Typed DEF Closes, CallOK
<1>4. None \notin Opened'
  BY NoneAssumption DEF Opened
<1>5. CASE views[p].edited
  <2> DEFINE c == [Top EXCEPT !.at = "asks", !.left = @ \ {p}, !.project = p]
  <2>1. /\ c \in Call /\ CallOK(c) /\ c.call = Top.call /\ c.window = Top.window
        /\ c.files = Top.files /\ c.left = Top.left \ {p} /\ c.project = p
    BY <1>2, <1>3 DEF Call, CallOK
  <2>2. Become(c) /\ views' = views
    BY <1>2, <1>5
  <2> HIDE DEF c
  <2>3. \A q \in Opened' : q \in Opened /\ views'[q] = views[q]
    BY <2>2 DEF Opened
  <2>4. \A q \in Opened' : q \in Top.left \union {Top.project} => q \in c.left \union {c.project}
    BY <1>3, <1>4, <2>1
  <2> QED
    BY <1>1, <2>1, <2>2, <2>3, <2>4, ClosesKeeps, Typed
<1>6. CASE ~views[p].edited
  <2> DEFINE c == [Top EXCEPT !.left = @ \ {p}]
  <2>1. /\ c \in Call /\ CallOK(c) /\ c.call = Top.call /\ c.window = Top.window
        /\ c.files = Top.files /\ c.left = Top.left \ {p} /\ c.project = None
    BY <1>1, <1>2, <1>3 DEF Call, CallOK
  <2>2. Become(c) /\ views' = [views EXCEPT ![p] = None]
    BY <1>2, <1>6
  <2> HIDE DEF c
  <2>3. views' \in [Projects -> View \union {None}]
    BY <2>2, Typed
  <2>4. \A q \in Opened' : q \in Opened /\ views'[q] = views[q] /\ q # p
    BY <1>3, <2>2, Typed DEF Opened
  <2>5. \A q \in Opened' : q \in Top.left \union {Top.project} => q \in c.left \union {c.project}
    BY <1>3, <2>1, <2>4
  <2> QED
    BY <1>1, <2>1, <2>2, <2>3, <2>4, <2>5, ClosesKeeps
<1> QED
  BY <1>5, <1>6

LEMMA AnswerCloseKeeps == ASSUME IInv, AnswerClose PROVE IInv'
<1>1. /\ phase = "running" /\ calls # <<>> /\ Closes(Top) /\ Top.at = "asks"
      /\ UNCHANGED <<may, phase, windows, requests, closing, snapshots, counters, histories>>
  BY DEF AnswerClose
<1>2. /\ Top \in Call /\ CallOK(Top) /\ Top.call \in {"close tab", "close"}
      /\ Top.project \in Projects
  BY <1>1, Typed DEF Closes, CallOK
<1>3. CASE /\ Become([Top EXCEPT !.at = "next", !.project = None])
           /\ views' = [views EXCEPT ![Top.project] = None]
  <2> DEFINE c == [Top EXCEPT !.at = "next", !.project = None]
  <2>1. /\ c \in Call /\ CallOK(c) /\ c.call = Top.call /\ c.window = Top.window
        /\ c.files = Top.files /\ c.left = Top.left
    BY <1>2 DEF Call, CallOK
  <2>2. Become(c)
    BY <1>3
  <2> HIDE DEF c
  <2>3. views' \in [Projects -> View \union {None}]
    BY <1>3, Typed
  <2>4. \A q \in Opened' : q \in Opened /\ views'[q] = views[q] /\ q # Top.project
    BY <1>2, <1>3, Typed DEF Opened
  <2>5. \A q \in Opened' : q \in Top.left \union {Top.project} => q \in c.left \union {c.project}
    BY <2>1, <2>4
  <2> QED
    BY <1>1, <2>1, <2>2, <2>3, <2>4, <2>5, ClosesKeeps
<1>4. CASE CloseRefused /\ UNCHANGED views
  <2> DEFINE n == Len(calls)
             below == Front(calls)
  <2>1. /\ calls \in Seq(Call) /\ n \in Nat /\ n > 0 /\ Top = calls[n] /\ n \in 1 .. n
    BY <1>1, Typed
  <2>2. below \in Seq(Call) /\ Len(below) = n - 1 /\ \A i \in 1 .. n - 1 : below[i] = calls[i]
    BY <1>1, <2>1, FrontOfCalls
  <2>3. below # <<>> <=> n - 1 > 0
    BY <2>2, SeqOfCalls
  <2>4. calls' = IF below # <<>> /\ Last(below).call = "quit" THEN Front(below) ELSE below
    BY <1>4 DEF CloseRefused
  <2> HIDE DEF n, below
  <2>5. below # <<>> => Last(below) = calls[n - 1]
    <3>1. n - 1 > 0 => n - 1 \in 1 .. n - 1
      BY <2>1
    <3> QED
      BY <2>2, <2>3, <3>1 DEF Last
  <2>6. /\ views' \in [Projects -> View \union {None}] /\ snapshots' \subseteq Files
        /\ refused' \subseteq Files
        /\ UNCHANGED <<windows, views, messages, requests, refused, dropped, unasked>>
    BY <1>1, <1>4 DEF requests, histories, IInv, TypeOK
  <2>7. CASE below # <<>> /\ Last(below).call = "quit"
    <3>1. n = 2
      <4>1. n - 1 # 1 => n - 1 \in 2 .. n
        BY <2>1, <2>3, <2>7
      <4>2. n - 1 \in 2 .. n => calls[n - 1].call # "quit"
        BY DEF IInv, Nesting, n
      <4>3. n - 1 = 1 => n = 2
        BY <2>1
      <4> QED
        BY <2>5, <2>7, <4>1, <4>2, <4>3
    <3>2. Front(below) \in Seq(Call) /\ Len(Front(below)) = 0
      <4>1. Len(below) = 1
        BY <2>2, <3>1
      <4> QED
        BY <2>2, <2>7, <4>1, FrontOfCalls
    <3>3. Cut(0)
      <4>1. calls' \in Seq(Call) /\ Len(calls') = 0 /\ 0 \in 0 .. n
        BY <2>1, <2>4, <2>7, <3>2
      <4> QED
        BY <4>1 DEF Cut, n
    <3>4. AskedFor' /\ (Apart => Apart')
      BY <1>1, <2>6, <3>3, UntouchedCut
    <3>5. Shown # {}
      <4>1. Top.window \in Windows
        BY <1>2 DEF CallOK
      <4> QED
        BY <2>1, <4>1, NoneAssumption DEF IInv, InShown, n
    <3>6. 0 # Len(calls)
      BY <2>1 DEF n
    <3> QED
      BY <1>1, <2>6, <3>3, <3>4, <3>5, <3>6, CutKeeps
  <2>8. CASE ~(below # <<>> /\ Last(below).call = "quit")
    <3>1. Cut(n - 1)
      BY <1>1, <1>2, <2>1, <2>4, <2>8, SwapIs DEF n, below
    <3>2. AskedFor' /\ (Apart => Apart')
      BY <1>1, <2>6, <3>1, UntouchedCut
    <3>3. n - 1 = 1 => calls[1].call # "quit"
      BY <2>3, <2>5, <2>8
    <3>4. n - 1 = 0 => calls[1].call # "quit"
      <4>1. n - 1 = 0 => n = 1
        BY <2>1
      <4> QED
        BY <1>2, <2>1, <4>1
    <3>5. n - 1 # Len(calls)
      BY <2>1 DEF n
    <3> QED
      BY <1>1, <2>6, <3>1, <3>2, <3>3, <3>4, <3>5, CutKeeps
  <2> QED
    BY <2>7, <2>8
<1> QED
  BY <1>3, <1>4 DEF AnswerClose

LEMMA CloseAcceptedKeeps == ASSUME IInv, CloseAccepted PROVE IInv'
<1> DEFINE n == Len(calls)
           w == Top.window
<1>1. /\ phase = "running" /\ calls # <<>> /\ Top.call = "close" /\ Top.at = "next"
      /\ Top.left = {} /\ calls' = Front(calls)
      /\ openAtQuit' = IF IsLastEditor THEN Top.files ELSE openAtQuit
      /\ windows' = [windows EXCEPT ![w] = "closed"]
      /\ IF Shown = {w}
             THEN sleep' = ~sleep /\ timers' = (IF sleep THEN timers + 1 ELSE timers)
             ELSE UNCHANGED <<sleep, timers>>
      /\ UNCHANGED <<may, phase, views, requests, leaving, snapshots, counters, histories>>
  BY DEF CloseAccepted, Innermost, Return
<1>2. /\ Top \in Call /\ CallOK(Top) /\ calls \in Seq(Call) /\ n \in Nat /\ n \in 1 .. n
      /\ Top = calls[n] /\ w \in Windows /\ Top.project = None
  BY <1>1, Typed DEF CallOK
<1>3. n = 1 \/ (n = 2 /\ calls[1].call = "quit")
  <2> HIDE DEF n
  <2>1. n # 1 => n \in 2 .. n
    BY <1>2
  <2>2. n \in 2 .. n => calls[n].call = IF n = 2 /\ calls[1].call = "quit" THEN "close" ELSE "open"
    BY DEF IInv, Nesting, n
  <2> QED
    BY <1>1, <1>2, <2>1, <2>2
<1>4. Cut(n - 1)
  BY <1>1, <1>2, SwapIs
<1> HIDE DEF n
<1>5. w \in Shown
  BY <1>2, NoneAssumption DEF IInv, InShown, n
<1>6. Shown' = Shown \ {w} /\ Closed' = Closed \union {w}
  BY <1>1, <1>2, <1>5, Typed DEF Shown, Closed
<1> HIDE DEF w
<1>7. TypeOK'
  <2>1. calls' \in Seq(Call)
    BY <1>4 DEF Cut
  <2>2. sleep' \in BOOLEAN /\ timers' \in Nat
    <3>1. sleep \in BOOLEAN /\ timers \in Nat
      BY DEF IInv, TypeOK
    <3>2. CASE Shown = {w}
      <4>1. sleep' = ~sleep /\ timers' \in {timers + 1, timers}
        BY <1>1, <3>2
      <4> QED
        BY <3>1, <4>1
    <3>3. CASE Shown # {w}
      BY <1>1, <3>1, <3>3
    <3> QED
      BY <3>2, <3>3
  <2>3. openAtQuit' \subseteq Files
    BY <1>1, <1>2 DEF Call, IInv, TypeOK
  <2>4. windows' \in [Windows -> {"none", "shown", "closed"}]
    BY <1>1, Typed
  <2> QED
    BY <1>1, <2>1, <2>2, <2>3, <2>4 DEF IInv, TypeOK, requests, counters, histories
<1>8. CallsOK'
  BY <1>2, <1>4, CutIsOK DEF IInv
<1>9. Life'
  <2>1. ~queued
    BY <1>1, QueuedMeans
  <2> QED
    BY <1>1, <2>1 DEF IInv, Life, requests
<1>10. Nesting'
  BY <1>1, <1>2, <1>4, CutNesting DEF IInv, requests
<1>11. /\ n = 1 => calls' = <<>> /\ Len(calls') = 0 /\ calls[1] = Top
       /\ n = 2 => /\ calls' # <<>> /\ Len(calls') = 1 /\ Alike(calls'[1], calls[1])
                   /\ Len(calls) = 2 /\ calls[2] = Top
  <2>1. CASE n = 1
    <3>1. n - 1 = 0 /\ Cut(0)
      BY <1>4, <2>1
    <3> QED
      BY <1>2, <2>1, <3>1, BottomOfCut DEF Cut
  <2>2. CASE n = 2
    <3>1. n - 1 = 1 /\ Cut(1)
      BY <1>4, <2>2
    <3>2. n = 2 => calls[2] = Top /\ Len(calls) = 2
      BY <1>2 DEF n
    <3> QED
      BY <1>2, <2>2, <3>1, <3>2, BottomOfCut DEF Cut
  <2> QED
    BY <1>3, <2>1, <2>2
<1>12. InShown'
  <2>1. CASE n = 1
    BY <1>11, <2>1 DEF InShown
  <2>2. CASE n = 2
    <3>1. calls[1].call = "quit" /\ calls[1].window = None
      <4>1. calls[1].call = "quit" /\ 1 \in 1 .. Len(calls)
        BY <1>1, <1>3, <2>2, Typed
      <4> QED
        BY <4>1, Typed DEF CallOK
    <3>2. calls[1].left = Shown \ {w}
      <4>1. calls # <<>> /\ Len(calls) # 1 /\ calls[2].window = w
        BY <1>1, <1>11, <2>2 DEF w
      <4> QED
        BY <3>1, <4>1 DEF IInv, InShown
    <3>3. \A i \in 1 .. Len(calls') : i = 1
      <4>1. Len(calls') = 1
        BY <1>11, <2>2
      <4> QED
        BY <4>1
    <3> QED
      BY <1>6, <1>11, <2>2, <3>1, <3>2, <3>3 DEF InShown, Alike
  <2> QED
    BY <1>3, <2>1, <2>2
<1>13. AskedFor'
  <2>1. \A p \in Opened' : p \in Opened /\ p \in Projects /\ views'[p] = views[p]
    BY <1>1 DEF Opened
  <2>2. ASSUME NEW p \in Opened', Kept(p)' PROVE views'[p].window \in Shown'
    <3>1. Kept(p) /\ p \in Opened /\ views[p].window \in Shown
      BY <1>1, <2>1, <2>2 DEF Kept, IInv, AskedFor
    <3>2. views[p].window # w
      <4>1. calls[n].call = "close" /\ n \in 1 .. Len(calls) /\ calls[n].window = w
        BY <1>1, <1>2 DEF n, w
      <4>2. p # None /\ p \notin Top.left \union {Top.project}
        BY <1>1, <1>2, <2>1, NoneAssumption
      <4> QED
        BY <1>2, <3>1, <4>1, <4>2 DEF IInv, AskedFor
    <3> QED
      BY <1>6, <2>1, <3>1, <3>2
  <2>3. \A i \in 1 .. Len(calls') : calls'[i].call # "close"
    <3>1. \A i \in 1 .. Len(calls') : i = 1 /\ n = 2
      <4>1. (Len(calls') = 0 /\ n = 1) \/ (Len(calls') = 1 /\ n = 2)
        BY <1>3, <1>11
      <4> QED
        BY <4>1
    <3> QED
      BY <1>3, <1>11, <3>1 DEF Alike
  <2> QED
    BY <1>1, <2>2, <2>3 DEF IInv, AskedFor, histories
<1>14. Leaving'
  <2>1. CASE n = 1
    <3>1. Shown' = {} => openAtQuit' = leaving'
      <4> SUFFICES ASSUME Shown' = {} PROVE openAtQuit' = leaving
        BY <1>1
      <4>1. Shown = {w} /\ Closed = {}
        BY <1>1, <1>5, <1>6, <1>11, <2>1 DEF IInv, InShown
      <4>2. diagramEditors = {w} /\ Cardinality({w}) = 1
        BY <4>1, FS_Singleton DEF diagramEditors
      <4>3. IsLastEditor
        BY <4>2 DEF IsLastEditor
      <4> QED
        BY <1>1, <1>11, <2>1, <4>1, <4>3 DEF IInv, Leaving, w
    <3> QED
      BY <1>1, <1>11, <2>1, <3>1 DEF Leaving
  <2>2. CASE n = 2
    BY <1>1, <1>3, <1>11, <2>2 DEF IInv, Leaving, Alike
  <2> QED
    BY <1>3, <2>1, <2>2
<1>15. ASSUME Apart PROVE Apart'
  <2>1. OldOpenings /\ OldList /\ calls' \in Seq(Call)
    BY <1>2, <1>4, CutOldOpenings DEF Cut
  <2>2. OldMessages /\ OldProjects
    BY <1>1, <1>15 DEF OldMessages, OldProjects, Apart, Opened, requests
  <2> QED
    BY <1>2, <1>15, <2>1, <2>2, ApartKept
<1> QED
  BY <1>1, <1>7, <1>8, <1>9, <1>10, <1>12, <1>13, <1>14, <1>15 DEF IInv, Patient

(* The user begins to close a window, or to quit.                           *)
LEMMA LeaveKeeps ==
    ASSUME IInv, Pumping, calls = <<>>, messages = <<>>, NEW c \in Call, CallOK(c), Push(c),
           asked' \in 0 .. MaxRequests,
           UNCHANGED <<may, phase, program, sleep, timers, openAtQuit, snapshots, starts, histories>>,
           leaving' = FilesIn(diagramEditors),
           \/ c.call = "quit" /\ c.left = diagramEditors /\ c.files = FilesIn(diagramEditors)
           \/ \E w \in Shown : /\ c.call = "close" /\ c.window = w
                               /\ c.left = openedProjects({w}) /\ c.files = FilesIn({w})
    PROVE  IInv'
<1>1. /\ calls \in Seq(Call) /\ Len(calls) = 0 /\ phase = "running" /\ ~queued /\ Closed = {}
  BY Typed, EmptySeq, PumpingMeans DEF Pumping
<1>2. Topped(1, c)
  <2>1. Len(calls) + 1 = 1
    BY <1>1
  <2> QED
    BY <1>1, <2>1, PushIs
<1>3. /\ calls' # <<>> /\ calls' \in Seq(Call) /\ Len(calls') = 1 /\ Alike(calls'[1], c)
      /\ \A i \in 1 .. Len(calls') : i = 1
  BY <1>1, <1>2, BottomOf DEF Topped
<1>4. /\ UNCHANGED <<windows, views, messages, received, queued, unasked>>
      /\ Shown' = Shown /\ Closed' = Closed /\ diagramEditors = Shown
  BY <1>1 DEF program, requests, histories, Shown, Closed, diagramEditors
<1>5. TypeOK'
  <2>1. FilesIn(diagramEditors) \subseteq Files
    BY Typed DEF FilesIn, FilesOf, openedProjects, Opened, View
  <2> QED
    BY <1>3, <2>1 DEF IInv, TypeOK, program, requests, histories
<1>6. CallsOK'
  BY <1>2, ToppedIsOK DEF IInv
<1>7. Life'
  BY <1>1, <1>4 DEF IInv, Life
<1>8. Nesting'
  <2>1. \A i \in 2 .. Len(calls') : FALSE
    BY <1>3
  <2>2. \A i \in 1 .. Len(calls') : calls'[i].call \in Closing
    BY <1>3 DEF Alike, Closing
  <2> QED
    BY <1>4, <2>1, <2>2 DEF Nesting
<1>9. c.window # None => c.window \in Shown
  BY DEF CallOK
<1>10. InShown'
  BY <1>1, <1>3, <1>4, <1>9 DEF InShown, Alike
<1>11. AskedFor'
  <2>1. \A p \in Opened' : Kept(p)' => Kept(p) /\ p \in Opened /\ views'[p] = views[p]
    BY <1>4 DEF Opened, Kept
  <2>2. c.call = "close" => \A p \in Opened : views[p].window = c.window => p \in c.left
    BY DEF openedProjects
  <2> QED
    BY <1>3, <1>4, <2>1, <2>2 DEF IInv, AskedFor, Alike
<1>12. Leaving'
  BY <1>1, <1>3, <1>4 DEF Leaving, Alike
<1>13. ASSUME Apart PROVE Apart'
  <2>1. ~Opening(c) /\ ~Listing(c)
    BY DEF Opening, Listing
  <2>2. OldOpenings /\ OldList
    BY <1>1, <1>2, <2>1, ToppedOldOpenings, ToppedOldList
  <2>3. OldMessages /\ OldProjects
    BY <1>4, <1>13 DEF OldMessages, OldProjects, Apart, Opened
  <2> QED
    BY <1>1, <1>3, <1>13, <2>2, <2>3, ApartKept
<1> QED
  BY <1>5, <1>6, <1>7, <1>8, <1>10, <1>11, <1>12, <1>13 DEF IInv, Patient

LEMMA CloseWindowKeeps == ASSUME IInv, CloseWindow PROVE IInv'
<1>1. /\ Pumping /\ calls = <<>> /\ messages = <<>> /\ asked < MaxRequests /\ asked' = asked + 1
      /\ UNCHANGED <<may, phase, program, sleep, timers, openAtQuit, snapshots, starts, histories>>
      /\ leaving' = FilesIn(diagramEditors)
  BY DEF CloseWindow, Command, Prompt, RefuseCloseWhileModal
<1>2. PICK w \in Shown : Push(CloseCall(w))
  BY DEF CloseWindow
<1>3. w \in Windows
  BY DEF Shown
<1> DEFINE c == CloseCall(w)
<1>4. /\ c \in Call /\ CallOK(c) /\ c.call = "close" /\ c.window = w
      /\ c.left = openedProjects({w}) /\ c.files = FilesIn({w})
  BY <1>3, CloseCallIsOK, Typed
<1>5. Push(c)
  BY <1>2
<1>6. asked' \in 0 .. MaxRequests
  BY <1>1, Counted
<1> HIDE DEF c
<1> QED
  BY <1>1, <1>2, <1>4, <1>5, <1>6, LeaveKeeps

LEMMA QuitKeeps == ASSUME IInv, Quit PROVE IInv'
<1> DEFINE c == [Start("quit", "next") EXCEPT
                    !.left = diagramEditors, !.files = FilesIn(diagramEditors)]
<1>1. /\ Pumping /\ calls = <<>> /\ messages = <<>> /\ asked < MaxRequests /\ asked' = asked + 1
      /\ UNCHANGED <<may, phase, program, sleep, timers, openAtQuit, snapshots, starts, histories>>
      /\ leaving' = FilesIn(diagramEditors) /\ Push(c)
  BY DEF Quit, Command, Prompt, RefuseCloseWhileModal
<1>2. diagramEditors \subseteq Windows
  BY DEF diagramEditors, Shown, Closed
<1>3. FilesIn(diagramEditors) \subseteq Files
  BY Typed DEF FilesIn, FilesOf, openedProjects, Opened, View
<1>4. /\ c \in Call /\ CallOK(c) /\ c.call = "quit" /\ c.left = diagramEditors
      /\ c.files = FilesIn(diagramEditors)
  BY <1>2, <1>3 DEF Start, Call, CallOK
<1>5. asked' \in 0 .. MaxRequests
  BY <1>1, Counted
<1> HIDE DEF c
<1> QED
  BY <1>1, <1>4, <1>5, LeaveKeeps

LEMMA QuitNextKeeps == ASSUME IInv, QuitNext PROVE IInv'
<1>1. /\ phase = "running" /\ calls # <<>> /\ Top.call = "quit" /\ Top.at = "next"
      /\ UNCHANGED <<may, leaving, snapshots, counters, refused, dropped>>
  BY DEF QuitNext, Innermost
<1>2. /\ Top \in Call /\ CallOK(Top) /\ calls \in Seq(Call) /\ Len(calls) = 1 /\ Top = calls[1]
      /\ Top.window = None
  BY <1>1, Typed, AtBottom DEF CallOK
<1>3. Top.left = Shown /\ Top.files = leaving
  BY <1>1, <1>2 DEF IInv, InShown, Leaving
<1>4. ASSUME NEW w \in Top.left,
             calls' = Append(Front(calls), [Top EXCEPT !.left = @ \ {w}]) \o <<CloseCall(w)>>,
             UNCHANGED <<phase, program, sleep, timers, openAtQuit, unasked>>
      PROVE  IInv'
  <2> DEFINE c == [Top EXCEPT !.left = @ \ {w}]
             d == CloseCall(w)
  <2>1. w \in Windows /\ w \in Shown
    BY <1>3 DEF Shown
  <2>2. /\ c \in Call /\ CallOK(c) /\ c.call = "quit" /\ c.window = None
        /\ c.files = leaving /\ c.left = Shown \ {w}
    BY <1>1, <1>2, <1>3 DEF Call, CallOK
  <2>3. /\ d \in Call /\ CallOK(d) /\ d.call = "close" /\ d.window = w
        /\ d.left = openedProjects({w})
    BY <2>1, CloseCallIsOK, Typed
  <2>4. calls' = Append(Front(calls), c) \o <<d>>
    BY <1>4
  <2> HIDE DEF c, d
  <2>5. /\ calls' \in Seq(Call) /\ Len(calls') = 2
        /\ Alike(calls'[1], c) /\ Alike(calls'[2], d)
    <3>1. /\ calls' \in Seq(Call) /\ Len(calls') = Len(calls) + 1
          /\ Alike(calls'[Len(calls)], c) /\ Alike(calls'[Len(calls) + 1], d)
      BY <1>1, <1>2, <2>2, <2>3, <2>4, SwapIs
    <3>2. Len(calls) = 1 /\ Len(calls) + 1 = 2
      BY <1>2
    <3> QED
      BY <3>1, <3>2
  <2>6. \A i \in 1 .. Len(calls') : i = 1 \/ i = 2
    BY <2>5
  <2>7. ~queued
    BY <1>1, QueuedMeans
  <2>8. "closing" \notin may => messages = <<>>
    BY <1>1, <1>2 DEF IInv, Nesting, Closing
  <2>9. UNCHANGED <<windows, views, messages>>
    BY <1>4 DEF program, requests
  <2>10. AskedFor'
    <3>1. \A p \in Opened' : Kept(p)' => /\ Kept(p) /\ p \in Opened /\ views'[p] = views[p]
                                         /\ views'[p].window \in Shown'
      BY <1>1, <2>9 DEF Opened, Shown, Kept, IInv, AskedFor
    <3>2. \A p \in Opened : views[p].window = w => p \in d.left
      BY <2>3 DEF openedProjects
    <3>3. \A i \in 1 .. Len(calls') : calls'[i].call = "close" =>
             calls'[i].window = w /\ calls'[i].left = d.left
      BY <2>2, <2>3, <2>5, <2>6 DEF Alike
    <3>4. unasked' = {}
      BY <1>4 DEF IInv, AskedFor
    <3> QED
      BY <3>1, <3>2, <3>3, <3>4 DEF AskedFor
  <2>11. ASSUME Patient, Apart PROVE Apart'
    <3>1. \A i \in 1 .. Len(calls') : ~Opening(calls'[i])
      BY <2>2, <2>3, <2>5, <2>6 DEF Opening, Alike
    <3>2. ~Listing(calls'[1])
      BY <2>2, <2>5 DEF Listing, Alike
    <3>3. OldOpenings /\ OldList
      BY <3>1, <3>2 DEF OldOpenings, OldList
    <3>4. OldMessages /\ OldProjects
      BY <2>9, <2>11 DEF OldMessages, OldProjects, Apart, Opened
    <3> QED
      BY <1>2, <2>5, <2>11, <3>3, <3>4, ApartKept
  <2>12. UNCHANGED <<may, phase, program, closing, snapshots, counters, unasked, refused, dropped>>
    BY <1>1, <1>4 DEF closing
  <2>13. c.call \in Closing => c.call = "quit" /\ ("closing" \in may \/ messages = <<>>)
    BY <2>2, <2>8
  <2> QED
    BY <1>1, <2>1, <2>2, <2>3, <2>5, <2>7, <2>10, <2>11, <2>12, <2>13, TwoCalls
<1>5. CASE /\ Top.left = {}
           /\ openAtQuit' = Top.files
           /\ Over("ended") /\ unasked' = unasked \union EditedFiles(Opened)
  <2>1. Shown = {} /\ openAtQuit' = leaving'
    BY <1>1, <1>3, <1>5
  <2>2. unasked' = {}
    BY <1>5, <2>1, NoneShown DEF IInv, AskedFor
  <2>3. openAtQuit' \subseteq Files /\ snapshots' \subseteq Files
    BY <1>1, <1>2, <1>5 DEF Call, IInv, TypeOK
  <2> QED
    BY <1>1, <1>5, <2>1, <2>2, <2>3, OverKeeps
<1> QED
  BY <1>4, <1>5 DEF QuitNext

-----------------------------------------------------------------------------
(* The theorems.                                                            *)

LEMMA Starts == ASSUME Init PROVE IInv
<1>1. /\ phase = "off" /\ calls = <<>> /\ messages = <<>> /\ ~queued /\ unasked = {}
      /\ windows = [w \in Windows |-> "none"] /\ views = [p \in Projects |-> None]
  BY DEF Init
<1>2. /\ calls \in Seq(Call) /\ Len(calls) = 0 /\ messages \in Seq(Files) /\ Len(messages) = 0
  BY <1>1, EmptySeq
<1>3. Shown = {} /\ Closed = {} /\ Opened = {}
  BY <1>1 DEF Shown, Closed, Opened
<1>4. TypeOK
  <2>1. 0 \in 0 .. MaxRequests /\ 0 \in 0 .. MaxStarts
    <3>1. MaxRequests \in Nat /\ MaxStarts \in Nat
      OBVIOUS
    <3> QED
      BY <3>1
  <2>2. windows \in [Windows -> {"none", "shown", "closed"}]
        /\ views \in [Projects -> View \union {None}]
    BY <1>1
  <2> QED
    BY <1>2, <2>1, <2>2 DEF Init, TypeOK
<1>5. CallsOK /\ Nesting /\ InShown /\ Leaving
  BY <1>1, <1>2 DEF CallsOK, Nesting, InShown, Leaving
<1>6. Life /\ AskedFor /\ Apart
  BY <1>1, <1>2, <1>3 DEF Life, AskedFor, Apart
<1> QED
  BY <1>4, <1>5, <1>6 DEF IInv

LEMMA Steps == ASSUME IInv, [Next]_vars PROVE IInv'
<1>1. CASE Work
  BY <1>1, ConnectKeeps, TakeMessageKeeps, CheckBackupFilesKeeps, RestoreNextKeeps,
     RestoreEndsKeeps, RestoredKeeps, ReopenNextKeeps, LoadEndsKeeps, DeleteClosedKeeps,
     CloseNextKeeps, TabClosedKeeps, CloseAcceptedKeeps, HalfASecondKeeps, QuitNextKeeps DEF Work
<1>2. CASE Answer
  BY <1>2, AnswerOpenKeeps, AnswerToldKeeps, AnswerRestoreKeeps, AnswerCloseKeeps DEF Answer
<1>3. CASE StartProgram \/ Crash \/ UseDangling
  BY <1>3, StartProgramKeeps, BreakdownKeeps DEF Crash, UseDangling
<1>4. CASE \E f \in Files : HandOver(f)
  BY <1>4, HandOverKeeps
<1>5. CASE NewWindow \/ OpenProject \/ Edit \/ CloseWindow \/ CloseTab \/ Quit
  BY <1>5, NewWindowKeeps, OpenProjectKeeps, EditKeeps, CloseWindowKeeps, CloseTabKeeps, QuitKeeps
<1>6. CASE UNCHANGED vars
  <2>1. UNCHANGED <<may, phase, calls, windows, views, messages, received, queued, reopen,
                    sleep, timers, openAtQuit, leaving, snapshots, asked, starts,
                    refused, dropped, unasked>>
    BY <1>6 DEF vars, program, requests, closing, counters, histories
  <2>2. TypeOK' /\ CallsOK' /\ Nesting'
    BY <2>1 DEF IInv, TypeOK, CallsOK, Nesting
  <2>3. Life' /\ InShown' /\ AskedFor' /\ Leaving'
    BY <2>1 DEF IInv, Life, InShown, AskedFor, Leaving, Shown, Closed, Opened, Kept
  <2>4. (Patient => Apart)'
    BY <2>1 DEF IInv, Patient, Apart, Opened
  <2> QED
    BY <2>2, <2>3, <2>4 DEF IInv
<1> QED
  BY <1>1, <1>2, <1>3, <1>4, <1>5, <1>6 DEF Next

(* What holds of every state of a program that opens what is asked of it.   *)
THEOREM Invariant == Spec => []IInv
BY Starts, Steps, PTL DEF Spec

(* Every variable has its type, whatever is begun inside of what.           *)
THEOREM TypeCorrect == Spec => []TypeOK
<1>1. IInv => TypeOK
  BY DEF IInv
<1> QED
  BY <1>1, Invariant, PTL

(* No edit goes with a window (closeEvent()) or with the program (quitQET(), *)
(* checkRemainingWindows()) unless its user was asked about the project,    *)
(* however many files arrive while a close asks.                            *)
THEOREM NothingLostUnasked == Spec => []AskedBeforeGone
<1>1. IInv => AskedBeforeGone
  BY DEF IInv, AskedFor, AskedBeforeGone
<1> QED
  BY <1>1, Invariant, PTL

(* A file has one project at a time (openAndAddProject()), if nobody asks    *)
(* for a file again that is being opened, or while a close asks.            *)
THEOREM OneProject == Spec => []OneProjectPerFile
<1>1. IInv => OneProjectPerFile
  BY DEF IInv, Patient, Apart, OneProjectPerFile
<1> QED
  BY <1>1, Invariant, PTL

(* A window is shown as long as a call that was begun in it is under way, or *)
(* a project is in it (closeEvent(), issue #904), if no file is handed over *)
(* while a close asks.                                                      *)
THEOREM WindowsStay == Spec => []WindowsOutlive
<1>1. ASSUME IInv PROVE WindowsOutlive
  <2>1. DOMAIN calls = 1 .. Len(calls)
    BY <1>1, Typed
  <2> QED
    BY <1>1, <2>1 DEF IInv, InShown, AskedFor, Kept, WindowsOutlive
<1> QED
  BY <1>1, Invariant, PTL

(* What the next start reopens is what was open when the user last began to  *)
(* leave (QETApp::reopenLastProjects()), whether the program ended with its  *)
(* last window or was told to quit.                                         *)
THEOREM ReopensTheSame == Spec => []ReopensWhatWasOpen
<1>1. IInv => ReopensWhatWasOpen
  BY DEF IInv, Leaving, ReopensWhatWasOpen
<1> QED
  BY <1>1, Invariant, PTL
=============================================================================
