------------------------ MODULE TerminalStripProofs ------------------------
(****************************************************************************)
(* Proofs about TerminalStrip, for any strips, terminals, project files and *)
(* users, and any length of the undo stack: each terminal is in one place,  *)
(* what a bridge joins is in its strip, and undo takes commands back.       *)
(*                                                                          *)
(* The first argument: a command of the stack may be made or undone only    *)
(* long after what it was made for has changed, so the document must fit    *)
(* all the commands there are.  Each operation keeps the documents that do  *)
(* (Good), for any set W of what may be in no strip; the stack says which W *)
(* that is when n of its commands are done (Waiting), and undo and redo     *)
(* move n.                                                                  *)
(*                                                                          *)
(* The second, for careful users who keep the physical terminals: what such *)
(* a command does, it does the same to all documents that look alike        *)
(* (LooksLike).  So there is a document for each place in the stack, each   *)
(* command leads from one to the next, and the document looks like the one  *)
(* at the place where the stack is (Remembers).                             *)
(****************************************************************************)
EXTENDS TerminalStrip, FiniteSetTheorems, FunctionTheorems, SequenceTheorems,
        NaturalsInduction, WellFoundedInduction, TLAPS

----------------------------------------------------------------------------
(****************************************************************************)
(* Loops, as the recursive functions of the model, and sequences.           *)
(****************************************************************************)

\* A step at a time from 0 to m.
LEMMA Ladder ==
    ASSUME NEW m \in Nat, NEW Q, 0 \in Q,
           \A n \in 1 .. m : n - 1 \in Q => n \in Q
    PROVE  \A n \in 0 .. m : n \in Q
<1> DEFINE R == OpToRel(<, Nat)
           T == {n \in 0 .. m : n \notin Q}
<1>1. SUFFICES ASSUME T # {} PROVE FALSE
  OBVIOUS
<1>2. IsWellFoundedOn(R, Nat)
  BY NatLessThanWellFounded
<1>3. \A x, y \in Nat : y < x => <<y, x>> \in R
  BY DEF OpToRel
<1>4. T \subseteq Nat
  OBVIOUS
<1> HIDE DEF R
<1>5. PICK n \in T : \A k \in T : ~ (<<k, n>> \in R)
  BY <1>1, <1>2, <1>4, WFMin
<1>6. n \in 0 .. m /\ n \notin Q
  OBVIOUS
<1>7. n \in 1 .. m /\ n - 1 \in 0 .. m /\ n - 1 < n /\ n \in Nat /\ n - 1 \in Nat
  BY <1>6
<1>8. n - 1 \notin T
  BY <1>3, <1>5, <1>7
<1> QED
  BY <1>6, <1>7, <1>8

\* A loop over m elements that begins with d, takes the steps of G and stays
\* in D, has f[n] after n of them.
Loops(D, d, m, G, f) ==
    /\ f \in [0 .. m -> D]
    /\ f[0] = d /\ \A n \in 1 .. m : f[n] = G[<<f[n - 1], n>>]

\* There is such a function, whatever the steps, the loop's length and where
\* it begins.
LEMMA LoopExists ==
    ASSUME NEW D, NEW d \in D, NEW m \in Nat, NEW G \in [D \X (1 .. m) -> D]
    PROVE  \E f : Loops(D, d, m, G, f)
<1> DEFINE Is(f, k) == \A n \in 0 .. k : f[n] = IF n = 0 THEN d ELSE G[<<f[n - 1], n>>]
           Q == {k \in 0 .. m : \E f \in [0 .. k -> D] : Is(f, k)}
<1>1. 0 \in Q
  <2> DEFINE f == [n \in 0 .. 0 |-> d]
  <2>1. f \in [0 .. 0 -> D] /\ Is(f, 0)
    OBVIOUS
  <2> HIDE DEF f, Is
  <2> QED
    BY <2>1
<1>2. ASSUME NEW k \in 1 .. m, k - 1 \in Q PROVE k \in Q
  <2>1. PICK a \in [0 .. k - 1 -> D] : Is(a, k - 1)
    BY <1>2
  <2> DEFINE f == [n \in 0 .. k |-> IF n = k THEN G[<<a[k - 1], k>>] ELSE a[n]]
  <2>2. k - 1 \in 0 .. k - 1 /\ a[k - 1] \in D /\ G[<<a[k - 1], k>>] \in D
    BY <2>1
  <2>3. f \in [0 .. k -> D]
    BY <2>1, <2>2
  <2>4. \A n \in 0 .. k - 1 : f[n] = a[n]
    BY <2>1
  <2>5. f[k] = G[<<a[k - 1], k>>]
    BY <2>1
  <2>6. ASSUME NEW n \in 0 .. k PROVE f[n] = IF n = 0 THEN d ELSE G[<<f[n - 1], n>>]
    <3>1. CASE n = k
      <4>1. k # 0 /\ f[k - 1] = a[k - 1]
        BY <2>2, <2>4
      <4> HIDE DEF f
      <4> QED
        BY <2>5, <3>1, <4>1
    <3>2. CASE n # k
      <4>1. n \in 0 .. k - 1 /\ (n # 0 => n - 1 \in 0 .. k - 1)
        BY <3>2
      <4> HIDE DEF f
      <4> QED
        BY <2>1, <2>4, <4>1
    <3> QED
      BY <3>1, <3>2
  <2> HIDE DEF f
  <2> QED
    BY <2>3, <2>6
<1>3. m \in Q
  <2> HIDE DEF Q
  <2> QED
    BY <1>1, <1>2, Ladder
<1>4. PICK f \in [0 .. m -> D] : Is(f, m)
  BY <1>3
<1>5. 0 \in 0 .. m /\ \A n \in 1 .. m : n \in 0 .. m /\ n # 0
  OBVIOUS
<1> QED
  BY <1>4, <1>5 DEF Loops

\* A loop is in D before each of its steps.
LEMMA LoopStays ==
    ASSUME NEW D, NEW d, NEW m \in Nat, NEW G, NEW f, Loops(D, d, m, G, f)
    PROVE  \A n \in 1 .. m : f[n - 1] \in D
<1>1. \A n \in 1 .. m : n - 1 \in 0 .. m
  OBVIOUS
<1> QED
  BY <1>1 DEF Loops

\* A loop each step of which stays in D leads to something in D.
LEMMA LoopLands ==
    ASSUME NEW D, NEW m \in Nat, NEW f, f[0] \in D,
           \A n \in 1 .. m : f[n - 1] \in D => f[n] \in D
    PROVE  f[m] \in D
<1> DEFINE Q == {n \in 0 .. m : f[n] \in D}
<1>1. 0 \in Q /\ \A n \in 1 .. m : n - 1 \in Q => n \in Q
  OBVIOUS
<1> HIDE DEF Q
<1>2. \A n \in 0 .. m : n \in Q
  BY <1>1, Ladder
<1>3. m \in 0 .. m
  OBVIOUS
<1> QED
  BY <1>2, <1>3 DEF Q

\* What is selected is what is in the set, in the order it was in.
LEMMA SelectedIs ==
    ASSUME NEW T, NEW seq \in Seq(T), NEW S
    PROVE  /\ Selected(seq, S) \in Seq(T)
           /\ Range(Selected(seq, S)) = Range(seq) \cap S
           /\ IsInjective(seq) => IsInjective(Selected(seq, S))
<1> DEFINE m == Len(seq)
           Step(k, n) == IF seq[n] \in S THEN Append(k, seq[n]) ELSE k
           F(f) == [n \in 0 .. m |-> IF n = 0 THEN << >> ELSE Step(f[n - 1], n)]
           kept == CHOOSE f : f = F(f)
           D == Seq(T)
           G == [x \in D \X (1 .. m) |-> Step(x[1], x[2])]
<1>1. Selected(seq, S) = kept[m]
  BY DEF Selected
<1>2. m \in Nat /\ DOMAIN seq = 1 .. m /\ \A n \in 1 .. m : seq[n] \in T
  OBVIOUS
<1> HIDE DEF m
<1>3. \A k \in Seq(T), n \in 1 .. m : Step(k, n) \in Seq(T)
  BY <1>2
<1>5. << >> \in D
  OBVIOUS
<1> HIDE DEF Step, D
<1>4. G \in [D \X (1 .. m) -> D]
  BY <1>3 DEF D
<1>6. PICK g : Loops(D, << >>, m, G, g)
  <2> HIDE DEF G
  <2> QED
    BY <1>2, <1>4, <1>5, LoopExists
<1>7. g = F(g)
  <2>1. \A n \in 1 .. m : G[<<g[n - 1], n>>] = Step(g[n - 1], n)
    <3>1. \A n \in 1 .. m : g[n - 1] \in D
      BY <1>2, <1>6, LoopStays
    <3> QED
      BY <3>1
  <2> HIDE DEF G
  <2>2. g = [n \in 0 .. m |-> g[n]]
    BY <1>6 DEF Loops
  <2>4. \A n \in 1 .. m : g[n] = G[<<g[n - 1], n>>]
    BY <1>6 DEF Loops
  <2>5. g[0] = << >>
    BY <1>6 DEF Loops
  <2>3. \A n \in 0 .. m : n # 0 => n \in 1 .. m
    BY <1>2
  <2> QED
    BY <2>1, <2>2, <2>3, <2>4, <2>5
<1>8. kept = F(kept)
  <2> HIDE DEF F
  <2> QED
    BY <1>7
<1> HIDE DEF kept
<1>9. kept[0] = << >> /\ \A n \in 1 .. m : kept[n] = Step(kept[n - 1], n)
  <2> QED
    BY <1>2, <1>8
<1> DEFINE Q == {n \in 0 .. m :
                   /\ kept[n] \in Seq(T)
                   /\ Range(kept[n]) = {seq[i] : i \in 1 .. n} \cap S
                   /\ IsInjective(seq) => IsInjective(kept[n])}
<1>10. 0 \in Q
  <2>1. kept[0] \in Seq(T) /\ DOMAIN kept[0] = {}
    BY <1>9
  <2>2. Range(kept[0]) = {} /\ IsInjective(kept[0])
    BY <2>1 DEF Range, IsInjective
  <2>3. {seq[i] : i \in 1 .. 0} = {}
    OBVIOUS
  <2> QED
    BY <1>2, <2>1, <2>2, <2>3
<1>11. ASSUME NEW n \in 1 .. m, n - 1 \in Q PROVE n \in Q
  <2> DEFINE k == kept[n - 1]
  <2>1. /\ k \in Seq(T)
        /\ Range(k) = {seq[i] : i \in 1 .. (n - 1)} \cap S
        /\ IsInjective(seq) => IsInjective(k)
    BY <1>11
  <2>2. kept[n] = Step(k, n)
    BY <1>9
  <2>3. {seq[i] : i \in 1 .. n} = {seq[i] : i \in 1 .. (n - 1)} \cup {seq[n]}
    BY <1>2
  <2>4. CASE seq[n] \notin S
    <3>1. kept[n] = k
      BY <2>2, <2>4 DEF Step
    <3>2. {seq[i] : i \in 1 .. n} \cap S = {seq[i] : i \in 1 .. (n - 1)} \cap S
      BY <2>3, <2>4
    <3> HIDE DEF k
    <3> QED
      BY <2>1, <3>1, <3>2
  <2>5. CASE seq[n] \in S
    <3> HIDE DEF k
    <3>1. kept[n] = Append(k, seq[n])
      BY <2>2, <2>5 DEF Step
    <3>2. seq[n] \in T
      BY <1>2
    <3> DEFINE a == Append(k, seq[n])
    <3>3. /\ a \in Seq(T) /\ DOMAIN a = 1 .. (Len(k) + 1) /\ DOMAIN k = 1 .. Len(k)
          /\ Len(k) \in Nat
          /\ a[Len(k) + 1] = seq[n] /\ \A i \in 1 .. Len(k) : a[i] = k[i]
      BY <2>1, <3>2
    <3> HIDE DEF a
    <3>4. Range(a) = Range(k) \cup {seq[n]}
      BY <3>3 DEF Range
    <3>5. ASSUME IsInjective(seq) PROVE IsInjective(a)
      <4>1. seq[n] \notin Range(k)
        <5>1. SUFFICES ASSUME seq[n] \in Range(k) PROVE FALSE
          OBVIOUS
        <5>2. PICK i \in 1 .. (n - 1) : seq[n] = seq[i]
          BY <2>1, <5>1
        <5>3. i \in 1 .. m /\ i # n
          BY <1>2, <5>2
        <5> QED
          BY <1>2, <3>5, <5>2, <5>3 DEF IsInjective
      <4>2. IsInjective(k)
        BY <2>1, <3>5
      <4> QED
        BY <3>3, <4>1, <4>2 DEF IsInjective, Range
    <3> QED
      <4>1. kept[n] = a
        BY <3>1 DEF a
      <4>2. {seq[i] : i \in 1 .. n} \cap S = ({seq[i] : i \in 1 .. (n - 1)} \cap S) \cup {seq[n]}
        BY <2>3, <2>5
      <4> QED
        BY <2>1, <3>3, <3>4, <3>5, <4>1, <4>2
  <2> QED
    BY <2>4, <2>5
<1>12. m \in Q
  <2> HIDE DEF Q
  <2>1. \A n \in 0 .. m : n \in Q
    BY <1>2, <1>10, <1>11, Ladder
  <2> QED
    BY <1>2, <2>1
<1>13. Range(seq) = {seq[i] : i \in 1 .. m}
  BY <1>2 DEF Range
<1> QED
  BY <1>1, <1>12, <1>13

----------------------------------------------------------------------------
(****************************************************************************)
(* A document in which all is in its place, and what makes or drops a       *)
(* physical terminal.                                                       *)
(****************************************************************************)

\* What a document is: the strips with their physical terminals in order,
\* those with their levels, and who each of the objects belongs to.
Docs == [listed : SUBSET Strips, order : [Strips -> Seq(Phys)], levels : [Phys -> Seq(Reals)],
         strip : [Phys -> Strips \cup {None}], phys : [Reals -> Phys \cup {None}],
         on : [Bridges -> SUBSET Reals], home : [Bridges -> Strips \cup {None}]]

\* A sequence that has nothing twice.
Plains(T) == {q \in Seq(T) : IsInjective(q)}

\* Each object is in one place and knows its owner: this is InOnePlace, for
\* the physical terminals that only a command still holds as well.
Sound(d) ==
    /\ \A s \in Strips : IsInjective(d.order[s])
    /\ \A s \in Strips : \A p \in Range(d.order[s]) : d.strip[p] = s
    /\ \A p \in Phys : IsInjective(d.levels[p])
    /\ \A p \in Phys : \A r \in Range(d.levels[p]) : d.phys[r] = p

\* What the commands of the stack rely on. A real terminal in a physical
\* terminal that is in no strip is one of W, those still waiting to be put
\* back; the physical terminal made for a spare has nothing but that spare
\* (K); and what a command groups into is in a strip (N).
Fits(d, W, K, N) ==
    /\ \A p \in Phys : \A r \in Range(d.levels[p]) : d.strip[p] = None => <<p, r>> \in W
    /\ \A x \in K : Range(d.levels[x[1]]) \subseteq {x[2]}
    /\ \A p \in N : d.strip[p] # None

\* The documents all operations lead from and to.
Good(W, K, N) == {d \in Docs : Sound(d) /\ Fits(d, W, K, N)}

\* K and N are about objects that commands hold
Keeps(K, N) == /\ K \subseteq Phys \X Spare /\ N \subseteq Phys
               /\ \A x \in K : x[1] \in Held /\ x[1] \notin N

\* No physical terminal has the real terminal r.
Nowhere(d, r) == \A p \in Phys : r \notin Range(d.levels[p])

\* What the parts of a document are.
LEMMA DocParts ==
    ASSUME NEW d \in Docs
    PROVE  /\ d.listed \in SUBSET Strips
           /\ d.order \in [Strips -> Seq(Phys)]
           /\ d.levels \in [Phys -> Seq(Reals)]
           /\ d.strip \in [Phys -> Strips \cup {None}]
           /\ d.phys \in [Reals -> Phys \cup {None}]
           /\ d.on \in [Bridges -> SUBSET Reals]
           /\ d.home \in [Bridges -> Strips \cup {None}]
BY DEF Docs

\* What a sequence has.
LEMMA RangeOf ==
    ASSUME NEW T, NEW q \in Seq(T)
    PROVE  /\ Range(q) \subseteq T
           /\ \A x : x \in Range(q) <=> \E i \in 1 .. Len(q) : q[i] = x
           /\ Len(q) \in Nat /\ DOMAIN q = 1 .. Len(q)
           /\ \A i \in 1 .. Len(q) : q[i] \in Range(q) /\ q[i] \in T
BY DEF Range

\* What a sequence has when one more is appended.
LEMMA Appended ==
    ASSUME NEW T, NEW q \in Seq(T), NEW x \in T
    PROVE  /\ Append(q, x) \in Seq(T)
           /\ Range(Append(q, x)) = Range(q) \cup {x}
           /\ IsInjective(q) /\ x \notin Range(q) => IsInjective(Append(q, x))
<1> DEFINE a == Append(q, x)
<1>1. /\ a \in Seq(T) /\ DOMAIN a = 1 .. (Len(q) + 1) /\ DOMAIN q = 1 .. Len(q)
      /\ Len(q) \in Nat
      /\ a[Len(q) + 1] = x /\ \A i \in 1 .. Len(q) : a[i] = q[i]
  OBVIOUS
<1> HIDE DEF a
<1>2. Range(a) = Range(q) \cup {x}
  BY <1>1 DEF Range
<1>3. IsInjective(q) /\ x \notin Range(q) => IsInjective(a)
  BY <1>1 DEF IsInjective, Range
<1> QED
  BY <1>1, <1>2, <1>3 DEF a

\* A sequence without one of its elements.
LEMMA WithoutIs ==
    ASSUME NEW T, NEW q \in Seq(T), NEW x
    PROVE  /\ Without(q, x) \in Seq(T)
           /\ Range(Without(q, x)) = Range(q) \ {x}
           /\ IsInjective(q) => IsInjective(Without(q, x))
BY SelectedIs DEF Without

\* The physical terminal that is made is one that nothing refers to.
LEMMA FreshIs ==
    ASSUME NEW d, FreePhys(d) # {}
    PROVE  FreshPhys(d) \in FreePhys(d)
<1> DEFINE F == FreePhys(d)
           R == OpToRel(<, Nat)
<1>1. F \subseteq Nat
  BY StripAssumption DEF FreePhys
<1>2. IsWellFoundedOn(R, Nat)
  BY NatLessThanWellFounded
<1>3. \A x, y \in Nat : y < x => <<y, x>> \in R
  BY DEF OpToRel
<1> HIDE DEF R, F
<1>4. PICK p \in F : \A q \in F : ~ (<<q, p>> \in R)
  BY <1>1, <1>2, WFMin DEF F
<1>5. ASSUME NEW q \in F PROVE p <= q
  <2>1. p \in Nat /\ q \in Nat
    BY <1>1
  <2>2. ~ (q < p)
    BY <1>3, <1>4, <2>1
  <2> QED
    BY <2>1, <2>2
<1>6. FreshPhys(d) \in F
  BY <1>4, <1>5 DEF FreshPhys, F
<1> QED
  BY <1>6 DEF F

\* A new physical terminal has what was nowhere.
LEMMA AppendNewGood ==
    ASSUME NEW W, NEW K, NEW N, Keeps(K, N), NEW d \in Good(W, K, N),
           NEW s \in Strips, NEW rs \in Plains(Reals),
           \A r \in Range(rs) : Nowhere(d, r)
    PROVE  AppendNew(d, s, rs) \in Good(W, K, N)
<1>1. CASE FreePhys(d) = {}
  BY <1>1 DEF AppendNew
<1>2. CASE FreePhys(d) # {}
  <2> DEFINE p == FreshPhys(d)
  <2>1. p \in FreePhys(d)
    BY <1>2, FreshIs
  <2> HIDE DEF p
  <2>2. /\ d \in Docs /\ Sound(d) /\ Fits(d, W, K, N)
    BY DEF Good
  <2>3. /\ p \in Phys /\ p \notin Held
        /\ \A r \in Reals : d.phys[r] # p
        /\ \A t \in Strips : p \notin Range(d.order[t])
    <3>1. d.phys \in [Reals -> Phys \cup {None}]
      BY <2>2, DocParts
    <3>2. p \in Phys /\ p \notin Held /\ p \notin Range(d.phys) /\ \A t \in Strips : p \notin Range(d.order[t])
      BY <2>1 DEF FreePhys, Live
    <3> QED
      BY <3>1, <3>2 DEF Range
  <2> DEFINE newphys == [r \in Reals |-> IF r \in Range(rs) THEN p ELSE d.phys[r]]
             e == [d EXCEPT !.order[s] = Append(@, p), !.levels[p] = rs, !.strip[p] = s,
                            !.phys = newphys]
  <2>4. AppendNew(d, s, rs) = e
    BY <1>2 DEF AppendNew, p
  <2>5. /\ rs \in Seq(Reals) /\ IsInjective(rs)
    BY DEF Plains
  <2>6. /\ d.order[s] \in Seq(Phys) /\ IsInjective(d.order[s])
    BY <2>2, DocParts DEF Sound
  <2>7. /\ Append(d.order[s], p) \in Seq(Phys)
        /\ Range(Append(d.order[s], p)) = Range(d.order[s]) \cup {p}
        /\ IsInjective(Append(d.order[s], p))
    BY <2>3, <2>6, Appended
  <2>8. newphys \in [Reals -> Phys \cup {None}]
    BY <2>2, <2>3, DocParts
  <2>9. /\ e.order = [d.order EXCEPT ![s] = Append(@, p)]
        /\ e.levels = [d.levels EXCEPT ![p] = rs]
        /\ e.strip = [d.strip EXCEPT ![p] = s]
        /\ e.phys = newphys
    BY <2>2 DEF Docs
  <2>10. e \in Docs
    BY <2>2, <2>3, <2>5, <2>7, <2>8 DEF Docs
  <2> HIDE DEF e
  <2>11. /\ \A t \in Strips : e.order[t] = IF t = s THEN Append(d.order[s], p) ELSE d.order[t]
         /\ \A q \in Phys : e.levels[q] = IF q = p THEN rs ELSE d.levels[q]
         /\ \A q \in Phys : e.strip[q] = IF q = p THEN s ELSE d.strip[q]
    BY <2>2, <2>3, <2>9, DocParts
  <2>12. Sound(e)
    <3>1. \A t \in Strips : IsInjective(e.order[t])
      BY <2>2, <2>7, <2>11 DEF Sound
    <3>2. \A t \in Strips : \A q \in Range(e.order[t]) : q \in Phys /\ e.strip[q] = t
      <4>1. \A t \in Strips : \A q \in Range(d.order[t]) : q \in Phys
        BY <2>2, DocParts, RangeOf
      <4> QED
        BY <2>2, <2>3, <2>7, <2>11, <4>1 DEF Sound
    <3>3. \A q \in Phys : IsInjective(e.levels[q])
      BY <2>2, <2>5, <2>11 DEF Sound
    <3>4. ASSUME NEW q \in Phys, NEW r \in Range(e.levels[q]) PROVE e.phys[r] = q
      <4>1. r \in Reals
        BY <2>10, DocParts, RangeOf
      <4>2. CASE q = p
        BY <2>9, <2>11, <3>4, <4>1, <4>2
      <4>3. CASE q # p
        <5>1. r \in Range(d.levels[q])
          BY <2>11, <4>3
        <5>2. r \notin Range(rs)
          BY <5>1 DEF Nowhere
        <5>3. d.phys[r] = q
          BY <2>2, <5>1 DEF Sound
        <5> QED
          BY <2>9, <4>1, <5>2, <5>3
      <4> QED
        BY <4>2, <4>3
    <3> QED
      BY <3>1, <3>2, <3>3, <3>4 DEF Sound
  <2>13. Fits(e, W, K, N)
    <3>1. ASSUME NEW q \in Phys, NEW r \in Range(e.levels[q]), e.strip[q] = None
          PROVE  <<q, r>> \in W
      <4>1. q # p
        BY <2>11, <3>1, StripAssumption
      <4> QED
        BY <2>2, <2>11, <3>1, <4>1 DEF Fits
    <3>2. \A x \in K : Range(e.levels[x[1]]) \subseteq {x[2]}
      BY <2>2, <2>3, <2>11 DEF Fits, Keeps
    <3>3. \A q \in N : e.strip[q] # None
      BY <2>2, <2>11, StripAssumption DEF Fits, Keeps
    <3> QED
      BY <3>1, <3>2, <3>3 DEF Fits
  <2> QED
    BY <2>4, <2>10, <2>12, <2>13 DEF Good
<1> QED
  BY <1>1, <1>2

\* What is taken out of its physical terminal is nowhere.
LEMMA TakenOut ==
    ASSUME NEW W, NEW K, NEW N, NEW d \in Good(W, K, N), NEW r \in Reals, NEW e,
           e = TakeOut(d, d.phys[r], r)
    PROVE  /\ e \in Good(W, K, N) /\ Nowhere(e, r)
           /\ e.order = d.order /\ e.strip = d.strip
<1> DEFINE p == d.phys[r]
<1>1. /\ d \in Docs /\ Sound(d) /\ Fits(d, W, K, N)
  BY DEF Good
<1>2. CASE p = None \/ r \notin Range(d.levels[p])
  <2>1. e = d
    BY <1>2 DEF TakeOut
  <2>2. Nowhere(d, r)
    BY <1>1, <1>2, StripAssumption DEF Sound, Nowhere
  <2> QED
    BY <2>1, <2>2
<1>3. CASE p # None /\ r \in Range(d.levels[p])
  <2>1. p \in Phys
    BY <1>1, <1>3, DocParts
  <2> DEFINE left == Without(d.levels[p], r)
  <2>2. e = [d EXCEPT !.levels[p] = left, !.phys[r] = None]
    BY <1>3 DEF TakeOut
  <2>3. /\ d.levels[p] \in Seq(Reals) /\ IsInjective(d.levels[p])
    BY <1>1, <2>1, DocParts DEF Sound
  <2>4. /\ left \in Seq(Reals) /\ Range(left) = Range(d.levels[p]) \ {r} /\ IsInjective(left)
    BY <2>3, WithoutIs
  <2> HIDE DEF left, p
  <2>5. /\ e.order = d.order /\ e.strip = d.strip
        /\ e.levels = [d.levels EXCEPT ![p] = left]
        /\ e.phys = [d.phys EXCEPT ![r] = None]
    BY <1>1, <2>2 DEF Docs
  <2>6. e \in Docs
    <3>1. /\ [d.levels EXCEPT ![p] = left] \in [Phys -> Seq(Reals)]
          /\ [d.phys EXCEPT ![r] = None] \in [Reals -> Phys \cup {None}]
      BY <1>1, <2>4, DocParts
    <3> QED
      BY <1>1, <2>2, <3>1 DEF Docs
  <2>7. /\ \A q \in Phys : e.levels[q] = IF q = p THEN left ELSE d.levels[q]
        /\ \A x \in Reals : e.phys[x] = IF x = r THEN None ELSE d.phys[x]
    BY <1>1, <2>1, <2>5, DocParts
  <2>8. \A q \in Phys : Range(e.levels[q]) \subseteq Range(d.levels[q])
    BY <2>4, <2>7
  <2>9. Nowhere(e, r)
    BY <1>1, <2>4, <2>7 DEF Nowhere, Sound, p
  <2>10. Sound(e)
    <3>1. \A q \in Phys : IsInjective(e.levels[q])
      BY <1>1, <2>4, <2>7 DEF Sound
    <3>2. ASSUME NEW q \in Phys, NEW x \in Range(e.levels[q]) PROVE e.phys[x] = q
      <4>1. x \in Reals /\ x # r
        BY <2>6, <2>9, DocParts, RangeOf DEF Nowhere
      <4>2. d.phys[x] = q
        BY <1>1, <2>8 DEF Sound
      <4> QED
        BY <2>7, <4>1, <4>2
    <3> QED
      BY <1>1, <2>5, <3>1, <3>2 DEF Sound
  <2>11. Fits(e, W, K, N)
    <3>1. \A x \in K : x[1] \in Phys => Range(e.levels[x[1]]) \subseteq {x[2]}
      BY <1>1, <2>8 DEF Fits
    <3>2. \A x \in K : x[1] \notin Phys => e.levels[x[1]] = d.levels[x[1]]
      BY <1>1, <2>1, <2>5, DocParts
    <3>3. \A x \in K : Range(e.levels[x[1]]) \subseteq {x[2]}
      BY <1>1, <3>1, <3>2 DEF Fits
    <3>4. \A q \in Phys : \A x \in Range(e.levels[q]) : e.strip[q] = None => <<q, x>> \in W
      BY <1>1, <2>5, <2>8 DEF Fits
    <3>5. \A q \in N : e.strip[q] # None
      BY <1>1, <2>5 DEF Fits
    <3> QED
      BY <3>3, <3>4, <3>5 DEF Fits
  <2> QED
    BY <2>5, <2>6, <2>9, <2>10, <2>11 DEF Good
<1> QED
  BY <1>2, <1>3

\* Bridges are of no concern.
LEMMA BridgesAside ==
    ASSUME NEW W, NEW K, NEW N, NEW d \in Good(W, K, N), NEW e \in Docs,
           e.order = d.order, e.levels = d.levels, e.strip = d.strip, e.phys = d.phys
    PROVE  e \in Good(W, K, N)
BY DEF Good, Sound, Fits

\* TerminalStripBridge::removeTerminal() takes no terminal from its place.
LEMMA OffBridgeIs ==
    ASSUME NEW d \in Docs, NEW r
    PROVE  /\ OffBridge(d, r) \in Docs
           /\ OffBridge(d, r).order = d.order /\ OffBridge(d, r).levels = d.levels
           /\ OffBridge(d, r).strip = d.strip /\ OffBridge(d, r).phys = d.phys
<1> DEFINE b == BridgeOf(d, ParentStrip(d, r), r)
           e == [d EXCEPT !.on[b] = @ \ {r}]
<1>1. OffBridge(d, r) = d \/ OffBridge(d, r) = e
  BY DEF OffBridge
<1> HIDE DEF b
<1>2. e.order = d.order /\ e.levels = d.levels /\ e.strip = d.strip /\ e.phys = d.phys
  BY DEF Docs
<1>3. [d.on EXCEPT ![b] = @ \ {r}] \in [Bridges -> SUBSET Reals]
  BY DocParts
<1>4. e \in Docs
  BY <1>3 DEF Docs
<1> QED
  BY <1>1, <1>2, <1>4

\* A strip that drops a physical terminal without a level keeps the others.
LEMMA DropIfEmptyGood ==
    ASSUME NEW W, NEW K, NEW N, NEW d \in Good(W, K, N), NEW s \in Strips, NEW p
    PROVE  DropIfEmpty(d, s, p) \in Good(W, K, N)
<1> DEFINE e == [d EXCEPT !.order[s] = Without(@, p)]
<1>1. DropIfEmpty(d, s, p) = d \/ DropIfEmpty(d, s, p) = e
  BY DEF DropIfEmpty
<1>2. /\ d \in Docs /\ Sound(d) /\ Fits(d, W, K, N)
  BY DEF Good
<1> DEFINE left == Without(d.order[s], p)
<1>3. left \in Seq(Phys) /\ Range(left) \subseteq Range(d.order[s]) /\ IsInjective(left)
  <2>1. d.order[s] \in Seq(Phys) /\ IsInjective(d.order[s])
    BY <1>2, DocParts DEF Sound
  <2> QED
    BY <2>1, WithoutIs
<1>4. e = [d EXCEPT !.order[s] = left]
  OBVIOUS
<1> HIDE DEF left, e
<1>5. /\ e \in Docs /\ e.levels = d.levels /\ e.strip = d.strip /\ e.phys = d.phys
      /\ e.order = [d.order EXCEPT ![s] = left]
  BY <1>2, <1>3, <1>4 DEF Docs
<1>6. \A t \in Strips : e.order[t] = IF t = s THEN left ELSE d.order[t]
  BY <1>2, <1>5, DocParts
<1>7. Sound(e)
  <2>1. \A t \in Strips : IsInjective(e.order[t])
    BY <1>2, <1>3, <1>6 DEF Sound
  <2>2. \A t \in Strips : \A q \in Range(e.order[t]) : e.strip[q] = t
    BY <1>2, <1>3, <1>5, <1>6 DEF Sound
  <2> QED
    BY <1>2, <1>5, <2>1, <2>2 DEF Sound
<1>8. Fits(e, W, K, N)
  BY <1>2, <1>5 DEF Fits
<1> QED
  BY <1>1, <1>5, <1>7, <1>8 DEF Good

----------------------------------------------------------------------------
(****************************************************************************)
(* What TerminalStrip does with real terminals, one after the other.        *)
(****************************************************************************)

\* A terminal in no strip is nowhere, unless it waits in a physical terminal
LEMMA LooseIsNowhere ==
    ASSUME NEW W, NEW K, NEW N, NEW d \in Good(W, K, N), NEW r \in Reals,
           ParentStrip(d, r) = None, \A p \in Phys : <<p, r>> \notin W
    PROVE  Nowhere(d, r)
<1>1. /\ d \in Docs /\ Sound(d) /\ Fits(d, W, K, N)
  BY DEF Good
<1>2. ASSUME NEW p \in Phys, r \in Range(d.levels[p]) PROVE FALSE
  <2>1. d.phys[r] = p /\ p # None
    BY <1>1, <1>2, StripAssumption DEF Sound
  <2>2. d.strip[p] = None
    BY <2>1 DEF ParentStrip
  <2> QED
    BY <1>1, <1>2, <2>2 DEF Fits
<1> QED
  BY <1>2 DEF Nowhere

\* TerminalStrip::addTerminals() of real terminals.
LEMMA AddTerminalsGood ==
    ASSUME NEW W, NEW K, NEW N, Keeps(K, N), NEW d \in Good(W, K, N),
           NEW s \in Strips, NEW rs \in Seq(Reals),
           \A r \in Range(rs) : \A p \in Phys : <<p, r>> \notin W
    PROVE  AddTerminals(d, s, rs) \in Good(W, K, N)
<1> DEFINE m == Len(rs)
           D == Good(W, K, N)
           Step(e, n) == IF ParentStrip(e, rs[n]) # None THEN e ELSE AppendNew(e, s, <<rs[n]>>)
           F(f) == [n \in 0 .. m |-> IF n = 0 THEN d ELSE Step(f[n - 1], n)]
           after == CHOOSE f : f = F(f)
           G == [x \in D \X (1 .. m) |-> Step(x[1], x[2])]
<1>1. AddTerminals(d, s, rs) = after[m]
  BY DEF AddTerminals, Through
<1>2. m \in Nat /\ \A n \in 1 .. m : rs[n] \in Reals /\ rs[n] \in Range(rs)
  BY RangeOf
<1>3. ASSUME NEW e \in D, NEW n \in 1 .. m PROVE Step(e, n) \in D
  <2>1. rs[n] \in Reals /\ \A p \in Phys : <<p, rs[n]>> \notin W
    BY <1>2
  <2>2. CASE ParentStrip(e, rs[n]) # None
    BY <2>2
  <2>3. CASE ParentStrip(e, rs[n]) = None
    <3> DEFINE r == rs[n]
    <3>1. Nowhere(e, r)
      BY <2>1, <2>3, LooseIsNowhere
    <3> HIDE DEF r
    <3>2. <<r>> \in Plains(Reals) /\ Range(<<r>>) = {r}
      BY <2>1 DEF Plains, IsInjective, Range, r
    <3>3. AppendNew(e, s, <<r>>) \in D
      BY <3>1, <3>2, AppendNewGood
    <3> QED
      BY <2>3, <3>3 DEF r
  <2> QED
    BY <2>2, <2>3
<1>4. d \in D
  OBVIOUS
<1> HIDE DEF m, D, Step
<1>5. G \in [D \X (1 .. m) -> D]
  BY <1>3
<1>6. PICK g : Loops(D, d, m, G, g)
  <2> HIDE DEF G
  <2> QED
    BY <1>2, <1>4, <1>5, LoopExists
<1>7. \A n \in 1 .. m : g[n] = Step(g[n - 1], n)
  <2>1. \A n \in 1 .. m : g[n - 1] \in D
    BY <1>2, <1>6, LoopStays
  <2>2. \A n \in 1 .. m : G[<<g[n - 1], n>>] = Step(g[n - 1], n)
    BY <2>1
  <2> HIDE DEF G
  <2> QED
    BY <1>6, <2>2 DEF Loops
<1>8. g = F(g)
  <2>1. g[0] = d /\ g = [n \in 0 .. m |-> g[n]]
    BY <1>6 DEF Loops
  <2>2. \A n \in 0 .. m : n # 0 => n \in 1 .. m
    BY <1>2
  <2> HIDE DEF G
  <2> QED
    BY <1>7, <2>1, <2>2
<1>9. after = F(after)
  <2> HIDE DEF F
  <2> QED
    BY <1>8
<1> HIDE DEF after
<1>10. after[0] = d /\ \A n \in 1 .. m : after[n] = Step(after[n - 1], n)
  BY <1>2, <1>9
<1>11. after[m] \in D
  <2>1. after[0] \in D /\ \A n \in 1 .. m : after[n - 1] \in D => after[n] \in D
    BY <1>3, <1>4, <1>10
  <2>2. m \in Nat
    BY <1>2
  <2> QED
    BY <2>1, <2>2, LoopLands
<1> QED
  BY <1>1, <1>11 DEF D

\* TerminalStrip::addAndGroupTerminals().
LEMMA AddAndGroupTerminalsGood ==
    ASSUME NEW W, NEW K, NEW N, Keeps(K, N), NEW d \in Good(W, K, N),
           NEW s \in Strips, NEW groups \in Seq(Plains(Reals)),
           \A i \in 1 .. Len(groups) : \A r \in Range(groups[i]) :
               \A p \in Phys : <<p, r>> \notin W
    PROVE  AddAndGroupTerminals(d, s, groups) \in Good(W, K, N)
<1> DEFINE m == Len(groups)
           D == Good(W, K, N)
           Step(e, n) == AppendNew(e, s, Selected(groups[n], Unplaced(e)))
           F(f) == [n \in 0 .. m |-> IF n = 0 THEN d ELSE Step(f[n - 1], n)]
           after == CHOOSE f : f = F(f)
           G == [x \in D \X (1 .. m) |-> Step(x[1], x[2])]
<1>1. AddAndGroupTerminals(d, s, groups) = after[m]
  BY DEF AddAndGroupTerminals, Through
<1>2. m \in Nat /\ \A n \in 1 .. m : groups[n] \in Plains(Reals) /\ groups[n] \in Range(groups)
  BY RangeOf
<1>3. ASSUME NEW e \in D, NEW n \in 1 .. m PROVE Step(e, n) \in D
  <2> DEFINE rs == Selected(groups[n], Unplaced(e))
  <2>1. groups[n] \in Seq(Reals) /\ IsInjective(groups[n])
    BY <1>2 DEF Plains
  <2>2. rs \in Plains(Reals) /\ Range(rs) = Range(groups[n]) \cap Unplaced(e)
    BY <2>1, SelectedIs DEF Plains
  <2> HIDE DEF rs
  <2>3. \A r \in Range(rs) : Nowhere(e, r)
    BY <2>2, LooseIsNowhere DEF Unplaced
  <2>4. AppendNew(e, s, rs) \in D
    BY <2>2, <2>3, AppendNewGood
  <2> QED
    BY <2>4 DEF rs
<1>4. d \in D
  OBVIOUS
<1> HIDE DEF m, D, Step
<1>5. G \in [D \X (1 .. m) -> D]
  BY <1>3
<1>6. PICK g : Loops(D, d, m, G, g)
  <2> HIDE DEF G
  <2> QED
    BY <1>2, <1>4, <1>5, LoopExists
<1>7. \A n \in 1 .. m : g[n] = Step(g[n - 1], n)
  <2>1. \A n \in 1 .. m : g[n - 1] \in D
    BY <1>2, <1>6, LoopStays
  <2>2. \A n \in 1 .. m : G[<<g[n - 1], n>>] = Step(g[n - 1], n)
    BY <2>1
  <2> HIDE DEF G
  <2> QED
    BY <1>6, <2>2 DEF Loops
<1>8. g = F(g)
  <2>1. g[0] = d /\ g = [n \in 0 .. m |-> g[n]]
    BY <1>6 DEF Loops
  <2>2. \A n \in 0 .. m : n # 0 => n \in 1 .. m
    BY <1>2
  <2> HIDE DEF G
  <2> QED
    BY <1>7, <2>1, <2>2
<1>9. after = F(after)
  <2> HIDE DEF F
  <2> QED
    BY <1>8
<1> HIDE DEF after
<1>10. after[0] = d /\ \A n \in 1 .. m : after[n] = Step(after[n - 1], n)
  BY <1>2, <1>9
<1>11. after[m] \in D
  <2>1. after[0] \in D /\ \A n \in 1 .. m : after[n - 1] \in D => after[n] \in D
    BY <1>3, <1>4, <1>10
  <2>2. m \in Nat
    BY <1>2
  <2> QED
    BY <2>1, <2>2, LoopLands
<1> QED
  BY <1>1, <1>11 DEF D

\* TerminalStrip::removeTerminals() of real terminals.
LEMMA RemoveTerminalsGood ==
    ASSUME NEW W, NEW K, NEW N, Keeps(K, N), NEW d \in Good(W, K, N),
           NEW s \in Strips, NEW rs \in Seq(Reals)
    PROVE  RemoveTerminals(d, s, rs) \in Good(W, K, N)
<1> DEFINE m == Len(rs)
           D == Good(W, K, N)
           Step(e, n) == IF ParentStrip(e, rs[n]) # s THEN e
                         ELSE DropIfEmpty(TakeOut(OffBridge(e, rs[n]), e.phys[rs[n]], rs[n]),
                                          s, e.phys[rs[n]])
           F(f) == [n \in 0 .. m |-> IF n = 0 THEN d ELSE Step(f[n - 1], n)]
           after == CHOOSE f : f = F(f)
           G == [x \in D \X (1 .. m) |-> Step(x[1], x[2])]
<1>1. RemoveTerminals(d, s, rs) = after[m]
  BY DEF RemoveTerminals, Through
<1>2. m \in Nat /\ \A n \in 1 .. m : rs[n] \in Reals /\ rs[n] \in Range(rs)
  BY RangeOf
<1>3. ASSUME NEW e \in D, NEW n \in 1 .. m PROVE Step(e, n) \in D
  <2> DEFINE r == rs[n]
             off == OffBridge(e, r)
             out == TakeOut(off, e.phys[r], r)
  <2>1. r \in Reals
    BY <1>2
  <2>2. e \in Docs
    BY DEF Good
  <2>3. off \in Good(W, K, N) /\ off.phys = e.phys
    BY <2>2, OffBridgeIs, BridgesAside
  <2>4. out = TakeOut(off, off.phys[r], r)
    BY <2>3
  <2> HIDE DEF r, off, out
  <2>5. out \in Good(W, K, N)
    BY <2>1, <2>3, <2>4, TakenOut
  <2>6. DropIfEmpty(out, s, e.phys[r]) \in Good(W, K, N)
    BY <2>5, DropIfEmptyGood
  <2> QED
    BY <2>6 DEF r, off, out
<1>4. d \in D
  OBVIOUS
<1> HIDE DEF m, D, Step
<1>5. G \in [D \X (1 .. m) -> D]
  BY <1>3
<1>6. PICK g : Loops(D, d, m, G, g)
  <2> HIDE DEF G
  <2> QED
    BY <1>2, <1>4, <1>5, LoopExists
<1>7. \A n \in 1 .. m : g[n] = Step(g[n - 1], n)
  <2>1. \A n \in 1 .. m : g[n - 1] \in D
    BY <1>2, <1>6, LoopStays
  <2>2. \A n \in 1 .. m : G[<<g[n - 1], n>>] = Step(g[n - 1], n)
    BY <2>1
  <2> HIDE DEF G
  <2> QED
    BY <1>6, <2>2 DEF Loops
<1>8. g = F(g)
  <2>1. g[0] = d /\ g = [n \in 0 .. m |-> g[n]]
    BY <1>6 DEF Loops
  <2>2. \A n \in 0 .. m : n # 0 => n \in 1 .. m
    BY <1>2
  <2> HIDE DEF G
  <2> QED
    BY <1>7, <2>1, <2>2
<1>9. after = F(after)
  <2> HIDE DEF F
  <2> QED
    BY <1>8
<1> HIDE DEF after
<1>10. after[0] = d /\ \A n \in 1 .. m : after[n] = Step(after[n - 1], n)
  BY <1>2, <1>9
<1>11. after[m] \in D
  <2>1. after[0] \in D /\ \A n \in 1 .. m : after[n - 1] \in D => after[n] \in D
    BY <1>3, <1>4, <1>10
  <2>2. m \in Nat
    BY <1>2
  <2> QED
    BY <2>1, <2>2, LoopLands
<1> QED
  BY <1>1, <1>11 DEF D

\* TerminalStrip::unGroupTerminals().
LEMMA UnGroupTerminalsGood ==
    ASSUME NEW W, NEW K, NEW N, Keeps(K, N), NEW d \in Good(W, K, N),
           NEW s \in Strips, NEW rs \in Seq(Reals)
    PROVE  UnGroupTerminals(d, s, rs) \in Good(W, K, N)
<1> DEFINE m == Len(rs)
           D == Good(W, K, N)
           Step(e, n) == IF e.phys[rs[n]] = None \/ Len(e.levels[e.phys[rs[n]]]) <= 1 THEN e
                         ELSE AppendNew(TakeOut(e, e.phys[rs[n]], rs[n]), s, <<rs[n]>>)
           F(f) == [n \in 0 .. m |-> IF n = 0 THEN d ELSE Step(f[n - 1], n)]
           after == CHOOSE f : f = F(f)
           G == [x \in D \X (1 .. m) |-> Step(x[1], x[2])]
<1>1. UnGroupTerminals(d, s, rs) = after[m]
  BY DEF UnGroupTerminals, Through
<1>2. m \in Nat /\ \A n \in 1 .. m : rs[n] \in Reals /\ rs[n] \in Range(rs)
  BY RangeOf
<1>3. ASSUME NEW e \in D, NEW n \in 1 .. m PROVE Step(e, n) \in D
  <2> DEFINE r == rs[n]
             out == TakeOut(e, e.phys[r], r)
  <2>1. r \in Reals
    BY <1>2
  <2> HIDE DEF r
  <2>2. out \in Good(W, K, N) /\ Nowhere(out, r)
    BY <2>1, TakenOut
  <2> HIDE DEF out
  <2>3. <<r>> \in Plains(Reals) /\ Range(<<r>>) = {r}
    BY <2>1 DEF Plains, IsInjective, Range
  <2>4. AppendNew(out, s, <<r>>) \in Good(W, K, N)
    BY <2>2, <2>3, AppendNewGood
  <2> QED
    BY <2>4 DEF r, out
<1>4. d \in D
  OBVIOUS
<1> HIDE DEF m, D, Step
<1>5. G \in [D \X (1 .. m) -> D]
  BY <1>3
<1>6. PICK g : Loops(D, d, m, G, g)
  <2> HIDE DEF G
  <2> QED
    BY <1>2, <1>4, <1>5, LoopExists
<1>7. \A n \in 1 .. m : g[n] = Step(g[n - 1], n)
  <2>1. \A n \in 1 .. m : g[n - 1] \in D
    BY <1>2, <1>6, LoopStays
  <2>2. \A n \in 1 .. m : G[<<g[n - 1], n>>] = Step(g[n - 1], n)
    BY <2>1
  <2> HIDE DEF G
  <2> QED
    BY <1>6, <2>2 DEF Loops
<1>8. g = F(g)
  <2>1. g[0] = d /\ g = [n \in 0 .. m |-> g[n]]
    BY <1>6 DEF Loops
  <2>2. \A n \in 0 .. m : n # 0 => n \in 1 .. m
    BY <1>2
  <2> HIDE DEF G
  <2> QED
    BY <1>7, <2>1, <2>2
<1>9. after = F(after)
  <2> HIDE DEF F
  <2> QED
    BY <1>8
<1> HIDE DEF after
<1>10. after[0] = d /\ \A n \in 1 .. m : after[n] = Step(after[n - 1], n)
  BY <1>2, <1>9
<1>11. after[m] \in D
  <2>1. after[0] \in D /\ \A n \in 1 .. m : after[n - 1] \in D => after[n] \in D
    BY <1>3, <1>4, <1>10
  <2>2. m \in Nat
    BY <1>2
  <2> QED
    BY <2>1, <2>2, LoopLands
<1> QED
  BY <1>1, <1>11 DEF D

----------------------------------------------------------------------------
(****************************************************************************)
(* Orders and levels.                                                       *)
(****************************************************************************)

\* A strip may be given an order of some of what it has.
LEMMA OrderGood ==
    ASSUME NEW W, NEW K, NEW N, NEW d \in Good(W, K, N), NEW s \in Strips,
           NEW q \in Plains(Phys), Range(q) \subseteq Range(d.order[s])
    PROVE  [d EXCEPT !.order[s] = q] \in Good(W, K, N)
<1> DEFINE e == [d EXCEPT !.order[s] = q]
<1>1. /\ d \in Docs /\ Sound(d) /\ Fits(d, W, K, N)
  BY DEF Good
<1>2. q \in Seq(Phys) /\ IsInjective(q)
  BY DEF Plains
<1>3. /\ e \in Docs /\ e.levels = d.levels /\ e.strip = d.strip /\ e.phys = d.phys
      /\ e.order = [d.order EXCEPT ![s] = q]
  BY <1>1, <1>2 DEF Docs
<1> HIDE DEF e
<1>4. \A t \in Strips : e.order[t] = IF t = s THEN q ELSE d.order[t]
  BY <1>1, <1>3, DocParts
<1>5. Sound(e)
  <2>1. \A t \in Strips : IsInjective(e.order[t])
    BY <1>1, <1>2, <1>4 DEF Sound
  <2>2. \A t \in Strips : \A p \in Range(e.order[t]) : e.strip[p] = t
    BY <1>1, <1>3, <1>4 DEF Sound
  <2> QED
    BY <1>1, <1>3, <2>1, <2>2 DEF Sound
<1>6. Fits(e, W, K, N)
  BY <1>1, <1>3 DEF Fits
<1> QED
  BY <1>3, <1>5, <1>6 DEF Good, e

\* A physical terminal may be given its levels in another order.
LEMMA LevelsGood ==
    ASSUME NEW W, NEW K, NEW N, NEW d \in Good(W, K, N), NEW p \in Phys,
           NEW q \in Plains(Reals), Range(q) \subseteq Range(d.levels[p])
    PROVE  [d EXCEPT !.levels[p] = q] \in Good(W, K, N)
<1> DEFINE e == [d EXCEPT !.levels[p] = q]
<1>1. /\ d \in Docs /\ Sound(d) /\ Fits(d, W, K, N)
  BY DEF Good
<1>2. q \in Seq(Reals) /\ IsInjective(q)
  BY DEF Plains
<1>3. /\ e \in Docs /\ e.order = d.order /\ e.strip = d.strip /\ e.phys = d.phys
      /\ e.levels = [d.levels EXCEPT ![p] = q]
  BY <1>1, <1>2 DEF Docs
<1> HIDE DEF e
<1>4. \A t \in Phys : e.levels[t] = IF t = p THEN q ELSE d.levels[t]
  BY <1>1, <1>3, DocParts
<1>5. Sound(e)
  <2>1. \A t \in Phys : IsInjective(e.levels[t])
    BY <1>1, <1>2, <1>4 DEF Sound
  <2>2. \A t \in Phys : \A r \in Range(e.levels[t]) : e.phys[r] = t
    BY <1>1, <1>3, <1>4 DEF Sound
  <2> QED
    BY <1>1, <1>3, <2>1, <2>2 DEF Sound
<1>6. Fits(e, W, K, N)
  <2>1. \A t \in Phys : \A r \in Range(e.levels[t]) : e.strip[t] = None => <<t, r>> \in W
    BY <1>1, <1>3, <1>4 DEF Fits
  <2>2. \A x \in K : x[1] \in Phys => Range(e.levels[x[1]]) \subseteq {x[2]}
    BY <1>1, <1>4 DEF Fits
  <2>3. \A x \in K : x[1] \notin Phys => e.levels[x[1]] = d.levels[x[1]]
    BY <1>1, <1>3, DocParts
  <2>4. \A x \in K : Range(e.levels[x[1]]) \subseteq {x[2]}
    BY <1>1, <2>2, <2>3 DEF Fits
  <2> QED
    BY <1>1, <1>3, <2>1, <2>4 DEF Fits
<1> QED
  BY <1>3, <1>5, <1>6 DEF Good, e

\* TerminalStrip::setOrderTo() keeps each terminal in its place.
LEMMA SetOrderToGood ==
    ASSUME NEW W, NEW K, NEW N, NEW d \in Good(W, K, N), NEW s \in Strips,
           NEW ps \in Plains(Phys)
    PROVE  SetOrderTo(d, s, ps) \in Good(W, K, N)
BY OrderGood DEF SetOrderTo

\* a is q with two elements that have changed places.
Swaps(T, q, i, j, a) ==
    /\ a \in [1 .. Len(q) -> T]
    /\ \A k \in 1 .. Len(q) : a[k] = IF k = j THEN q[i] ELSE IF k = i THEN q[j] ELSE q[k]

\* Two elements of a sequence that change places leave it with what it had.
LEMMA Swapped ==
    ASSUME NEW T, NEW q \in Plains(T), NEW i \in 1 .. Len(q), NEW j \in 1 .. Len(q), NEW a,
           Swaps(T, q, i, j, a)
    PROVE  a \in Plains(T) /\ Range(a) = Range(q)
<1>1. q \in Seq(T) /\ IsInjective(q) /\ Len(q) \in Nat /\ DOMAIN q = 1 .. Len(q)
  BY DEF Plains
<1> DEFINE m == Len(q)
<1>2. /\ DOMAIN a = 1 .. m /\ i \in 1 .. m /\ j \in 1 .. m /\ m \in Nat /\ DOMAIN q = 1 .. m
      /\ \A k \in 1 .. m : a[k] = IF k = j THEN q[i] ELSE IF k = i THEN q[j] ELSE q[k]
      /\ a \in [1 .. m -> T]
  BY <1>1 DEF Swaps
<1> HIDE DEF m
<1>5. a \in Seq(T)
  BY <1>2, SeqDef
<1>6. IsInjective(a)
  BY <1>1, <1>2 DEF IsInjective
<1>7. Range(a) = Range(q)
  <2>1. \A k \in 1 .. m : a[k] \in Range(q)
    BY <1>2 DEF Range
  <2>2. ASSUME NEW k \in 1 .. m PROVE q[k] \in Range(a)
    <3>1. q[k] = a[IF k = i THEN j ELSE IF k = j THEN i ELSE k]
      BY <1>2
    <3> QED
      BY <1>2, <3>1 DEF Range
  <2> QED
    BY <1>2, <2>1, <2>2 DEF Range
<1> QED
  BY <1>5, <1>6, <1>7 DEF Plains

\* RealTerminal::setLevel() keeps each terminal in its physical terminal.
LEMMA SetLevelGood ==
    ASSUME NEW W, NEW K, NEW N, NEW d \in Good(W, K, N), NEW r \in Reals,
           NEW level \in Nat \ {0}
    PROVE  SetLevel(d, r, level) \in Good(W, K, N)
<1> DEFINE p == d.phys[r]
           from == Level(d, r)
           size == Len(d.levels[p])
           to == IF level < size THEN level ELSE size
           q == d.levels[p]
           a == [[q EXCEPT ![from] = q[to]] EXCEPT ![to] = q[from]]
<1>1. /\ d \in Docs /\ Sound(d) /\ Fits(d, W, K, N)
  BY DEF Good
<1>2. CASE from = 0
  BY <1>2 DEF SetLevel
<1>3. CASE from # 0
  <2>1. p # None /\ from = IndexIn(q, r) /\ from \in DOMAIN q
    BY <1>3 DEF Level, IndexIn
  <2>2. p \in Phys
    BY <1>1, <2>1, DocParts
  <2>3. q \in Plains(Reals) /\ DOMAIN q = 1 .. Len(q) /\ Len(q) \in Nat
    BY <1>1, <2>2, DocParts DEF Sound, Plains
  <2>4. from \in 1 .. Len(q) /\ to \in 1 .. Len(q)
    BY <2>1, <2>3
  <2> DEFINE e == [d EXCEPT !.levels[p][from] = q[to], !.levels[p][to] = q[from]]
  <2>5. SetLevel(d, r, level) = e
    BY <1>3 DEF SetLevel
  <2> HIDE DEF p, from, size, to
  <2>6. e = [d EXCEPT !.levels[p] = a]
    BY <1>1, <2>2 DEF Docs
  <2> HIDE DEF q, e
  <2>8. Swaps(Reals, q, from, to, a)
    BY <2>3, <2>4 DEF Plains, Swaps
  <2> HIDE DEF a
  <2>7. a \in Plains(Reals) /\ Range(a) = Range(q)
    BY <2>3, <2>4, <2>8, Swapped
  <2> QED
    BY <2>2, <2>5, <2>6, <2>7, LevelsGood DEF q
<1> QED
  BY <1>2, <1>3

----------------------------------------------------------------------------
(****************************************************************************)
(* What TerminalStrip does with physical terminals.                         *)
(****************************************************************************)

\* x in q, after the first k elements of q.
Inserts(q, k, x) == SubSeq(q, 1, k) \o x \o SubSeq(q, k + 1, Len(q))

\* What is inserted is in the sequence, and what was there still is.
LEMMA Inserted ==
    ASSUME NEW T, NEW q \in Plains(T), NEW x \in Plains(T), NEW k \in 0 .. Len(q),
           Range(q) \cap Range(x) = {}
    PROVE  /\ Inserts(q, k, x) \in Plains(T)
           /\ Range(Inserts(q, k, x)) = Range(q) \cup Range(x)
<1>1. /\ q \in Seq(T) /\ IsInjective(q) /\ Len(q) \in Nat /\ DOMAIN q = 1 .. Len(q)
      /\ x \in Seq(T) /\ IsInjective(x) /\ Len(x) \in Nat /\ DOMAIN x = 1 .. Len(x)
  BY DEF Plains
<1> DEFINE a == SubSeq(q, 1, k)
           b == a \o x
           c == SubSeq(q, k + 1, Len(q))
           z == b \o c
           m == Len(q)
           n == Len(x)
<1>2. /\ a \in Seq(T) /\ Len(a) = k /\ \A i \in 1 .. k : a[i] = q[i]
      /\ c \in Seq(T) /\ Len(c) = m - k /\ \A i \in 1 .. (m - k) : c[i] = q[k + i]
  BY <1>1
<1> HIDE DEF a, c
<1>3. /\ b \in Seq(T) /\ Len(b) = k + n
      /\ \A i \in 1 .. (k + n) : b[i] = IF i <= k THEN q[i] ELSE x[i - k]
  <2>1. /\ b \in Seq(T) /\ Len(b) = Len(a) + Len(x)
        /\ \A i \in 1 .. (Len(a) + Len(x)) : b[i] = IF i <= Len(a) THEN a[i] ELSE x[i - Len(a)]
    BY <1>1, <1>2, ConcatProperties
  <2> HIDE DEF b, n
  <2>2. \A i \in 1 .. (k + n) : i <= k => i \in 1 .. k
    BY <1>1 DEF n
  <2> QED
    BY <1>2, <2>1, <2>2 DEF n
<1> HIDE DEF b
<1>4. /\ z \in Seq(T) /\ Len(z) = m + n /\ DOMAIN z = 1 .. (m + n)
      /\ \A i \in 1 .. (k + n) : z[i] = b[i]
      /\ \A i \in (k + n + 1) .. (m + n) : z[i] = c[i - (k + n)]
  <2>1. /\ z \in Seq(T) /\ Len(z) = Len(b) + Len(c)
        /\ \A i \in 1 .. (Len(b) + Len(c)) : z[i] = IF i <= Len(b) THEN b[i] ELSE c[i - Len(b)]
    <3>1. b \in Seq(T) /\ c \in Seq(T)
      BY <1>2, <1>3
    <3> QED
      BY <3>1, ConcatProperties
  <2> HIDE DEF z, m, n
  <2>2. m \in Nat /\ n \in Nat /\ k \in 0 .. m
    BY <1>1 DEF m, n
  <2>3. Len(z) = m + n /\ DOMAIN z = 1 .. (m + n)
    BY <1>2, <1>3, <2>1, <2>2
  <2>4. \A i \in 1 .. (m + n) : z[i] = IF i <= k + n THEN b[i] ELSE c[i - (k + n)]
    BY <1>2, <1>3, <2>1, <2>2
  <2>5. \A i \in 1 .. (k + n) : i \in 1 .. (m + n) /\ i <= k + n
    BY <2>2
  <2>6. \A i \in (k + n + 1) .. (m + n) : i \in 1 .. (m + n) /\ ~ (i <= k + n)
    BY <2>2
  <2> QED
    BY <2>1, <2>3, <2>4, <2>5, <2>6
<1> HIDE DEF z
<1>5. \A i \in (k + n + 1) .. (m + n) : z[i] = q[i - n]
  <2>1. ASSUME NEW i \in (k + n + 1) .. (m + n) PROVE z[i] = q[i - n]
    <3>1. i - (k + n) \in 1 .. (m - k) /\ k + (i - (k + n)) = i - n
      BY <1>1
    <3> QED
      BY <1>2, <1>4, <3>1
  <2> QED
    BY <2>1
<1>6. \A i \in 1 .. (m + n) : z[i] = IF i <= k THEN q[i]
                                     ELSE IF i <= k + n THEN x[i - k] ELSE q[i - n]
  <2> HIDE DEF m, n
  <2>1. m \in Nat /\ n \in Nat /\ k \in 0 .. m
    BY <1>1 DEF m, n
  <2>2. ASSUME NEW i \in 1 .. (m + n)
        PROVE  z[i] = IF i <= k THEN q[i] ELSE IF i <= k + n THEN x[i - k] ELSE q[i - n]
    <3>1. CASE i <= k + n
      <4>1. i \in 1 .. (k + n)
        BY <2>1, <3>1
      <4> QED
        BY <1>3, <1>4, <3>1, <4>1
    <3>2. CASE ~ (i <= k + n)
      <4>1. i \in (k + n + 1) .. (m + n) /\ ~ (i <= k)
        BY <2>1, <3>2
      <4> QED
        BY <1>5, <3>2, <4>1
    <3> QED
      BY <3>1, <3>2
  <2> QED
    BY <2>2
<1>7. DOMAIN q = 1 .. m /\ DOMAIN x = 1 .. n /\ m \in Nat /\ n \in Nat /\ k \in 0 .. m
  BY <1>1
<1> HIDE DEF m, n
<1>8. \A i \in 1 .. m : q[i] \in Range(q)
  BY <1>7 DEF Range
<1>9. \A i \in 1 .. n : x[i] \in Range(x)
  BY <1>7 DEF Range
<1>10. IsInjective(z)
  <2>1. ASSUME NEW i \in 1 .. (m + n), NEW j \in 1 .. (m + n), i < j PROVE z[i] # z[j]
    <3>1. \A g, h \in 1 .. m : g # h => q[g] # q[h]
      BY <1>1, <1>7 DEF IsInjective
    <3>2. \A g, h \in 1 .. n : g # h => x[g] # x[h]
      BY <1>1, <1>7 DEF IsInjective
    <3>3. \A g \in 1 .. m, h \in 1 .. n : q[g] # x[h]
      BY <1>8, <1>9
    <3>4. CASE i <= k
      <4>1. z[i] = q[i] /\ i \in 1 .. m
        BY <1>6, <1>7, <3>4
      <4>2. \/ j <= k /\ z[j] = q[j] /\ j \in 1 .. m
            \/ j <= k + n /\ z[j] = x[j - k] /\ j - k \in 1 .. n
            \/ z[j] = q[j - n] /\ j - n \in 1 .. m /\ j - n # i
        BY <1>6, <1>7, <3>4
      <4> QED
        BY <2>1, <3>1, <3>3, <4>1, <4>2
    <3>5. CASE i > k /\ i <= k + n
      <4>1. z[i] = x[i - k] /\ i - k \in 1 .. n
        BY <1>6, <1>7, <3>5
      <4>2. \/ z[j] = x[j - k] /\ j - k \in 1 .. n /\ j - k # i - k
            \/ z[j] = q[j - n] /\ j - n \in 1 .. m
        BY <1>6, <1>7, <2>1, <3>5
      <4> QED
        BY <3>2, <3>3, <4>1, <4>2
    <3>6. CASE i > k + n
      <4>1. z[i] = q[i - n] /\ i - n \in 1 .. m /\ z[j] = q[j - n] /\ j - n \in 1 .. m /\ i - n # j - n
        BY <1>6, <1>7, <2>1, <3>6
      <4> QED
        BY <3>1, <4>1
    <3> QED
      BY <1>7, <3>4, <3>5, <3>6
  <2>2. ASSUME NEW i \in DOMAIN z, NEW j \in DOMAIN z, z[i] = z[j] PROVE i = j
    <3>1. i \in 1 .. (m + n) /\ j \in 1 .. (m + n) /\ DOMAIN z = 1 .. (m + n)
      BY <1>4 DEF m, n
    <3>2. ~ (i < j) /\ ~ (j < i)
      BY <2>1, <2>2, <3>1
    <3> QED
      BY <1>7, <3>1, <3>2
  <2> QED
    BY <2>2 DEF IsInjective
<1>11. Range(z) = Range(q) \cup Range(x)
  <2>1. DOMAIN z = 1 .. (m + n)
    BY <1>4 DEF m, n
  <2>2. \A i \in 1 .. (m + n) : z[i] \in Range(q) \cup Range(x)
    <3>1. ASSUME NEW i \in 1 .. (m + n) PROVE z[i] \in Range(q) \cup Range(x)
      <4>1. \/ z[i] = q[i] /\ i \in 1 .. m
            \/ z[i] = x[i - k] /\ i - k \in 1 .. n
            \/ z[i] = q[i - n] /\ i - n \in 1 .. m
        BY <1>6, <1>7
      <4> QED
        BY <1>8, <1>9, <4>1
    <3> QED
      BY <3>1
  <2>3. ASSUME NEW i \in 1 .. m PROVE q[i] \in Range(z)
    <3>1. CASE i <= k
      BY <1>6, <1>7, <2>1, <3>1 DEF Range
    <3>2. CASE i > k
      <4>1. i + n \in 1 .. (m + n) /\ z[i + n] = q[(i + n) - n] /\ (i + n) - n = i
        BY <1>6, <1>7, <3>2
      <4> QED
        BY <2>1, <4>1 DEF Range
    <3> QED
      BY <1>7, <3>1, <3>2
  <2>4. ASSUME NEW i \in 1 .. n PROVE x[i] \in Range(z)
    <3>1. i + k \in 1 .. (m + n) /\ z[i + k] = x[(i + k) - k] /\ (i + k) - k = i
      BY <1>6, <1>7
    <3> QED
      BY <2>1, <3>1 DEF Range
  <2> QED
    BY <1>7, <2>1, <2>2, <2>3, <2>4 DEF Range
<1> QED
  BY <1>4, <1>10, <1>11 DEF Plains, Inserts, z, a, b, c

\* The physical terminals ps may hold anything while they are in no strip.
Outside(ps, W) == W \cup (Range(ps) \X Reals)

\* TerminalStrip::insertTerminals() of physical terminals that are in no
\* strip, or of such as are in one already, which it leaves alone.
LEMMA InsertTerminalsGood ==
    ASSUME NEW W, NEW K, NEW N, N \subseteq Phys, NEW s \in Strips, NEW at, NEW ps \in Plains(Phys),
           NEW d \in Good(Outside(ps, W), K, N \ Range(ps))
    PROVE  InsertTerminals(d, s, at, ps) \in Good(W, K, N)
<1> DEFINE free == Selected(ps, {p \in Phys : d.strip[p] = None})
           from == IF at \in 0 .. Len(d.order[s]) THEN at ELSE Len(d.order[s])
           order == Inserts(d.order[s], from, free)
           strip == [p \in Phys |-> IF p \in Range(free) THEN s ELSE d.strip[p]]
           e == [d EXCEPT !.order[s] = order, !.strip = strip]
<1>1. /\ d \in Docs /\ Sound(d) /\ Fits(d, Outside(ps, W), K, N \ Range(ps))
  BY DEF Good
<1>2. InsertTerminals(d, s, at, ps) = e
  BY DEF InsertTerminals, Inserts
<1>3. ps \in Seq(Phys) /\ IsInjective(ps) /\ Range(ps) \subseteq Phys
  BY RangeOf DEF Plains
<1>4. /\ free \in Plains(Phys)
      /\ Range(free) = {p \in Range(ps) : d.strip[p] = None}
  BY <1>3, SelectedIs DEF Plains
<1>5. d.order[s] \in Plains(Phys) /\ from \in 0 .. Len(d.order[s])
  BY <1>1, DocParts, RangeOf DEF Sound, Plains
<1> HIDE DEF free, from
<1>6. \A t \in Strips : Range(d.order[t]) \cap Range(free) = {}
  BY <1>1, <1>4, StripAssumption DEF Sound
<1>7. order \in Plains(Phys) /\ Range(order) = Range(d.order[s]) \cup Range(free)
  BY <1>4, <1>5, <1>6, Inserted
<1>8. order \in Seq(Phys) /\ IsInjective(order)
  BY <1>7 DEF Plains
<1> HIDE DEF order
<1>9. strip \in [Phys -> Strips \cup {None}] /\ \A p \in Phys : strip[p] = IF p \in Range(free) THEN s ELSE d.strip[p]
  BY <1>1, DocParts
<1> HIDE DEF strip
<1>10. /\ e.levels = d.levels /\ e.strip = strip /\ e.phys = d.phys
       /\ e.order = [d.order EXCEPT ![s] = order]
  BY <1>1 DEF Docs
<1>11. e \in Docs
  BY <1>1, <1>8, <1>9 DEF Docs
<1> HIDE DEF e
<1>12. \A t \in Strips : e.order[t] = IF t = s THEN order ELSE d.order[t]
  BY <1>1, <1>10, DocParts
<1>13. Sound(e)
  <2>1. \A t \in Strips : IsInjective(e.order[t])
    BY <1>1, <1>8, <1>12 DEF Sound
  <2>2. ASSUME NEW t \in Strips, NEW p \in Range(e.order[t]) PROVE e.strip[p] = t
    <3>1. p \in Phys
      BY <1>11, DocParts, RangeOf
    <3>2. CASE p \in Range(free)
      <4>1. t = s
        BY <1>6, <1>12, <3>2
      <4> QED
        BY <1>9, <1>10, <3>1, <3>2, <4>1
    <3>3. CASE p \notin Range(free)
      <4>1. p \in Range(d.order[t])
        BY <1>7, <1>12, <3>3
      <4> QED
        BY <1>1, <1>9, <1>10, <3>1, <3>3, <4>1 DEF Sound
    <3> QED
      BY <3>2, <3>3
  <2> QED
    BY <1>1, <1>10, <2>1, <2>2 DEF Sound
<1>14. Fits(e, W, K, N)
  <2>1. ASSUME NEW p \in Phys, NEW r \in Range(e.levels[p]), e.strip[p] = None
        PROVE  <<p, r>> \in W
    <3>1. p \notin Range(free) /\ d.strip[p] = None
      BY <1>9, <1>10, <2>1, StripAssumption
    <3>2. p \notin Range(ps)
      BY <1>4, <3>1
    <3>3. <<p, r>> \in Outside(ps, W)
      BY <1>1, <1>10, <3>1 DEF Fits
    <3> QED
      BY <3>2, <3>3 DEF Outside
  <2>2. ASSUME NEW p \in N PROVE e.strip[p] # None
    <3>1. p \in Phys
      OBVIOUS
    <3>2. CASE p \in Range(ps)
      BY <1>4, <1>9, <1>10, <3>1, <3>2, StripAssumption
    <3>3. CASE p \notin Range(ps)
      <4>1. d.strip[p] # None
        BY <1>1, <3>3 DEF Fits
      <4> QED
        BY <1>9, <1>10, <3>1, <4>1, StripAssumption
    <3> QED
      BY <3>2, <3>3
  <2> QED
    BY <1>1, <1>10, <2>1, <2>2 DEF Fits
<1> QED
  BY <1>2, <1>11, <1>13, <1>14 DEF Good

\* What differs in bridges only.
Same(d) == {e \in Docs : /\ e.order = d.order /\ e.levels = d.levels
                         /\ e.strip = d.strip /\ e.phys = d.phys}

\* All the terminals of a physical terminal leave their bridges.
OffAll(d, rs) == Through(OffBridge, d, rs)

\* Taking terminals off their bridges.
LEMMA OffAllSame ==
    ASSUME NEW d \in Docs, NEW rs \in Seq(Reals)
    PROVE  OffAll(d, rs) \in Same(d)
<1> DEFINE m == Len(rs)
           D == Same(d)
           Step(e, n) == OffBridge(e, rs[n])
           F(f) == [n \in 0 .. m |-> IF n = 0 THEN d ELSE Step(f[n - 1], n)]
           after == CHOOSE f : f = F(f)
           G == [x \in D \X (1 .. m) |-> Step(x[1], x[2])]
<1>1. OffAll(d, rs) = after[m]
  BY DEF OffAll, Through
<1>2. m \in Nat /\ \A n \in 1 .. m : rs[n] \in Reals /\ rs[n] \in Range(rs)
  BY RangeOf
<1>3. ASSUME NEW e \in D, NEW n \in 1 .. m PROVE Step(e, n) \in D
  <2>1. e \in Docs
    BY DEF Same
  <2> QED
    BY <2>1, OffBridgeIs DEF Same
<1>4. d \in D
  BY DEF Same
<1> HIDE DEF m, D, Step
<1>5. G \in [D \X (1 .. m) -> D]
  BY <1>3
<1>6. PICK g : Loops(D, d, m, G, g)
  <2> HIDE DEF G
  <2> QED
    BY <1>2, <1>4, <1>5, LoopExists
<1>7. \A n \in 1 .. m : g[n] = Step(g[n - 1], n)
  <2>1. \A n \in 1 .. m : g[n - 1] \in D
    BY <1>2, <1>6, LoopStays
  <2>2. \A n \in 1 .. m : G[<<g[n - 1], n>>] = Step(g[n - 1], n)
    BY <2>1
  <2> HIDE DEF G
  <2> QED
    BY <1>6, <2>2 DEF Loops
<1>8. g = F(g)
  <2>1. g[0] = d /\ g = [n \in 0 .. m |-> g[n]]
    BY <1>6 DEF Loops
  <2>2. \A n \in 0 .. m : n # 0 => n \in 1 .. m
    BY <1>2
  <2> HIDE DEF G
  <2> QED
    BY <1>7, <2>1, <2>2
<1>9. after = F(after)
  <2> HIDE DEF F
  <2> QED
    BY <1>8
<1> HIDE DEF after
<1>10. after[0] = d /\ \A n \in 1 .. m : after[n] = Step(after[n - 1], n)
  BY <1>2, <1>9
<1>11. after[m] \in D
  <2>1. after[0] \in D /\ \A n \in 1 .. m : after[n - 1] \in D => after[n] \in D
    BY <1>3, <1>4, <1>10
  <2>2. m \in Nat
    BY <1>2
  <2> QED
    BY <2>1, <2>2, LoopLands
<1> QED
  BY <1>1, <1>11 DEF D

\* TerminalStrip::removeTerminals() of physical terminals.
LEMMA RemovePhysicalGood ==
    ASSUME NEW W, NEW K, NEW N, Keeps(K, N), NEW d \in Good(W, K, N),
           NEW s \in Strips, NEW ps \in Seq(Phys)
    PROVE  RemovePhysical(d, s, ps) \in Good(Outside(ps, W), K, N \ Range(ps))
<1> DEFINE m == Len(ps)
           D == Good(Outside(ps, W), K, N \ Range(ps))
           Step(e, n) == IF ps[n] \notin Range(e.order[s]) THEN e
                         ELSE [OffAll([e EXCEPT !.order[s] = Without(@, ps[n])], e.levels[ps[n]])
                                  EXCEPT !.strip[ps[n]] = None]
           F(f) == [n \in 0 .. m |-> IF n = 0 THEN d ELSE Step(f[n - 1], n)]
           after == CHOOSE f : f = F(f)
           G == [x \in D \X (1 .. m) |-> Step(x[1], x[2])]
<1>1. RemovePhysical(d, s, ps) = after[m]
  BY DEF RemovePhysical, Through, OffAll
<1>2. m \in Nat /\ \A n \in 1 .. m : ps[n] \in Phys /\ ps[n] \in Range(ps)
  BY RangeOf
<1>3. ASSUME NEW e \in D, NEW n \in 1 .. m PROVE Step(e, n) \in D
  <2> DEFINE p == ps[n]
             left == Without(e.order[s], p)
             out == [e EXCEPT !.order[s] = left]
             off == OffAll(out, e.levels[p])
             z == [off EXCEPT !.strip[p] = None]
  <2>1. CASE p \notin Range(e.order[s])
    BY <2>1
  <2>2. CASE p \in Range(e.order[s])
    <3>1. Step(e, n) = z
      BY <2>2
    <3>2. p \in Phys /\ p \in Range(ps)
      BY <1>2
    <3> HIDE DEF p, Step
    <3>3. /\ e \in Docs /\ Sound(e) /\ Fits(e, Outside(ps, W), K, N \ Range(ps))
      BY DEF Good
    <3>4. /\ left \in Seq(Phys) /\ IsInjective(left) /\ Range(left) = Range(e.order[s]) \ {p}
      BY <3>3, DocParts, WithoutIs DEF Sound
    <3> HIDE DEF left
    <3>5. out \in Good(Outside(ps, W), K, N \ Range(ps))
      BY <3>4, OrderGood DEF Plains
    <3>6. /\ out.order = [e.order EXCEPT ![s] = left] /\ out.levels = e.levels /\ out.strip = e.strip
          /\ out.phys = e.phys
      BY <3>3 DEF Docs
    <3> HIDE DEF out
    <3>7. e.levels[p] \in Seq(Reals) /\ out \in Docs
      BY <3>2, <3>3, <3>5, DocParts DEF Good
    <3>8. off \in Same(out)
      BY <3>7, OffAllSame
    <3> HIDE DEF off
    <3>9. off \in Good(Outside(ps, W), K, N \ Range(ps)) /\ off \in Docs
      BY <3>5, <3>8, BridgesAside DEF Same
    <3>10. /\ off.order = [e.order EXCEPT ![s] = left] /\ off.strip = e.strip
      BY <3>6, <3>8 DEF Same
    <3>11. z \in Docs
      <4>1. [off.strip EXCEPT ![p] = None] \in [Phys -> Strips \cup {None}]
        BY <3>9, DocParts
      <4> QED
        BY <3>9, <4>1 DEF Docs
    <3>12. /\ z.order = off.order /\ z.levels = off.levels /\ z.phys = off.phys
           /\ z.strip = [off.strip EXCEPT ![p] = None]
      BY <3>9 DEF Docs
    <3> HIDE DEF z
    <3>13. \A q \in Phys : z.strip[q] = IF q = p THEN None ELSE off.strip[q]
      BY <3>9, <3>12, DocParts
    <3>14. \A t \in Strips : p \notin Range(z.order[t])
      <4>1. \A t \in Strips : off.order[t] = IF t = s THEN left ELSE e.order[t]
        BY <3>3, <3>10, DocParts
      <4>2. \A t \in Strips : t # s => p \notin Range(e.order[t])
        BY <2>2, <3>3 DEF Sound
      <4> QED
        BY <3>4, <3>12, <4>1, <4>2
    <3>15. Sound(z)
      <4>1. Sound(off)
        BY <3>9 DEF Good
      <4>2. \A t \in Strips : \A q \in Range(z.order[t]) : q \in Phys
        BY <3>11, DocParts, RangeOf
      <4> QED
        BY <3>12, <3>13, <3>14, <4>1, <4>2 DEF Sound
    <3>16. Fits(z, Outside(ps, W), K, N \ Range(ps))
      <4>1. Fits(off, Outside(ps, W), K, N \ Range(ps))
        BY <3>9 DEF Good
      <4>2. ASSUME NEW q \in Phys, NEW r \in Range(z.levels[q]), z.strip[q] = None
            PROVE  <<q, r>> \in Outside(ps, W)
        <5>1. r \in Reals
          BY <3>11, DocParts, RangeOf
        <5>2. CASE q = p
          BY <3>2, <5>1, <5>2 DEF Outside
        <5>3. CASE q # p
          BY <3>12, <3>13, <4>1, <4>2, <5>3 DEF Fits
        <5> QED
          BY <5>2, <5>3
      <4>3. \A q \in N \ Range(ps) : z.strip[q] # None
        BY <3>2, <3>13, <4>1 DEF Fits, Keeps
      <4> QED
        BY <3>12, <4>1, <4>2, <4>3 DEF Fits
    <3> QED
      BY <3>1, <3>11, <3>15, <3>16 DEF Good
  <2> QED
    BY <2>1, <2>2
<1>4. d \in D
  BY DEF Good, Fits, Outside
<1> HIDE DEF m, D, Step
<1>5. G \in [D \X (1 .. m) -> D]
  BY <1>3
<1>6. PICK g : Loops(D, d, m, G, g)
  <2> HIDE DEF G
  <2> QED
    BY <1>2, <1>4, <1>5, LoopExists
<1>7. \A n \in 1 .. m : g[n] = Step(g[n - 1], n)
  <2>1. \A n \in 1 .. m : g[n - 1] \in D
    BY <1>2, <1>6, LoopStays
  <2>2. \A n \in 1 .. m : G[<<g[n - 1], n>>] = Step(g[n - 1], n)
    BY <2>1
  <2> HIDE DEF G
  <2> QED
    BY <1>6, <2>2 DEF Loops
<1>8. g = F(g)
  <2>1. g[0] = d /\ g = [n \in 0 .. m |-> g[n]]
    BY <1>6 DEF Loops
  <2>2. \A n \in 0 .. m : n # 0 => n \in 1 .. m
    BY <1>2
  <2> HIDE DEF G
  <2> QED
    BY <1>7, <2>1, <2>2
<1>9. after = F(after)
  <2> HIDE DEF F
  <2> QED
    BY <1>8
<1> HIDE DEF after
<1>10. after[0] = d /\ \A n \in 1 .. m : after[n] = Step(after[n - 1], n)
  BY <1>2, <1>9
<1>11. after[m] \in D
  <2>1. after[0] \in D /\ \A n \in 1 .. m : after[n - 1] \in D => after[n] \in D
    BY <1>3, <1>4, <1>10
  <2>2. m \in Nat
    BY <1>2
  <2> QED
    BY <2>1, <2>2, LoopLands
<1> QED
  BY <1>1, <1>11 DEF D

----------------------------------------------------------------------------
(****************************************************************************)
(* Moves, spares, groups and bridges.                                       *)
(****************************************************************************)

\* MoveTerminalCommand::redo() and undo(): out of one strip, into another.
LEMMA MovedGood ==
    ASSUME NEW W, NEW K, NEW N, Keeps(K, N), NEW d \in Good(W, K, N),
           NEW s \in Strips, NEW t \in Strips, NEW ps \in Plains(Phys)
    PROVE  AddPhysical(RemovePhysical(d, s, ps), t, ps) \in Good(W, K, N)
<1>1. ps \in Seq(Phys)
  BY DEF Plains
<1>2. RemovePhysical(d, s, ps) \in Good(Outside(ps, W), K, N \ Range(ps))
  BY <1>1, RemovePhysicalGood
<1>3. N \subseteq Phys
  BY DEF Keeps
<1> QED
  BY <1>2, <1>3, InsertTerminalsGood DEF AddPhysical

\* The undo of AddSpareTerminalsCommand leaves the spare in its physical
\* terminal.
LEMMA SpareOutGood ==
    ASSUME NEW W, NEW K, NEW N, Keeps(K, N), NEW d \in Good(W, K, N),
           NEW s \in Strips, NEW x \in K
    PROVE  RemovePhysical(d, s, <<x[1]>>) \in Good(W \cup {x}, K, N)
<1> DEFINE p == x[1]
           ps == <<p>>
           e == RemovePhysical(d, s, ps)
<1>1. p \in Phys /\ p \notin N /\ x = <<p, x[2]>>
  BY DEF Keeps
<1>2. ps \in Seq(Phys) /\ Range(ps) = {p}
  BY <1>1 DEF Range
<1> HIDE DEF ps
<1>3. e \in Good(Outside(ps, W), K, N \ Range(ps))
  BY <1>2, RemovePhysicalGood
<1> HIDE DEF e
<1>4. e \in Docs /\ Sound(e) /\ Fits(e, Outside(ps, W), K, N \ Range(ps))
  BY <1>3 DEF Good
<1>5. N \ Range(ps) = N
  BY <1>1, <1>2
<1>6. ASSUME NEW q \in Phys, NEW r \in Range(e.levels[q]), e.strip[q] = None
      PROVE  <<q, r>> \in W \cup {x}
  <2>1. <<q, r>> \in Outside(ps, W)
    BY <1>4, <1>6 DEF Fits
  <2>2. CASE q = p
    <3>1. Range(e.levels[p]) \subseteq {x[2]}
      BY <1>4 DEF Fits
    <3> QED
      BY <1>1, <1>6, <2>2, <3>1
  <2>3. CASE q # p
    BY <1>2, <2>1, <2>3 DEF Outside
  <2> QED
    BY <2>2, <2>3
<1>7. Fits(e, W \cup {x}, K, N)
  BY <1>4, <1>5, <1>6 DEF Fits
<1> QED
  BY <1>4, <1>7 DEF Good, e, ps

\* A terminal that is nowhere joins a physical terminal of a strip.
LEMMA JoinGood ==
    ASSUME NEW W, NEW K, NEW N, Keeps(K, N), NEW d \in Good(W, K, N),
           NEW p \in N, NEW r \in Reals, Nowhere(d, r)
    PROVE  [d EXCEPT !.levels[p] = Append(@, r), !.phys[r] = p] \in Good(W, K, N)
<1> DEFINE more == Append(d.levels[p], r)
           e == [d EXCEPT !.levels[p] = more, !.phys[r] = p]
<1>1. /\ d \in Docs /\ Sound(d) /\ Fits(d, W, K, N) /\ p \in Phys
  BY DEF Good, Keeps
<1>2. /\ more \in Seq(Reals) /\ IsInjective(more) /\ Range(more) = Range(d.levels[p]) \cup {r}
  BY <1>1, DocParts, Appended DEF Sound, Nowhere
<1>3. [d EXCEPT !.levels[p] = Append(@, r), !.phys[r] = p] = e
  OBVIOUS
<1> HIDE DEF more
<1>4. /\ [d.levels EXCEPT ![p] = more] \in [Phys -> Seq(Reals)]
      /\ [d.phys EXCEPT ![r] = p] \in [Reals -> Phys \cup {None}]
  BY <1>1, <1>2, DocParts
<1>5. /\ e \in Docs /\ e.order = d.order /\ e.strip = d.strip
      /\ e.levels = [d.levels EXCEPT ![p] = more]
      /\ e.phys = [d.phys EXCEPT ![r] = p]
  BY <1>1, <1>4 DEF Docs
<1> HIDE DEF e
<1>6. /\ \A q \in Phys : e.levels[q] = IF q = p THEN more ELSE d.levels[q]
      /\ \A x \in Reals : e.phys[x] = IF x = r THEN p ELSE d.phys[x]
  BY <1>1, <1>5, DocParts
<1>7. Sound(e)
  <2>1. \A q \in Phys : IsInjective(e.levels[q])
    BY <1>1, <1>2, <1>6 DEF Sound
  <2>2. ASSUME NEW q \in Phys, NEW x \in Range(e.levels[q]) PROVE e.phys[x] = q
    <3>1. x \in Reals
      BY <1>5, DocParts, RangeOf
    <3>2. CASE x = r
      <4>1. q = p
        BY <1>6, <2>2, <3>2 DEF Nowhere
      <4> QED
        BY <1>6, <3>1, <3>2, <4>1
    <3>3. CASE x # r
      <4>1. x \in Range(d.levels[q])
        BY <1>2, <1>6, <2>2, <3>3
      <4> QED
        BY <1>1, <1>6, <3>1, <3>3, <4>1 DEF Sound
    <3> QED
      BY <3>2, <3>3
  <2> QED
    BY <1>1, <1>5, <2>1, <2>2 DEF Sound
<1>8. Fits(e, W, K, N)
  <2>1. ASSUME NEW q \in Phys, NEW x \in Range(e.levels[q]), e.strip[q] = None
        PROVE  <<q, x>> \in W
    <3>1. q # p
      BY <1>1, <1>5, <2>1 DEF Fits
    <3> QED
      BY <1>1, <1>5, <1>6, <2>1, <3>1 DEF Fits
  <2>2. \A x \in K : Range(e.levels[x[1]]) \subseteq {x[2]}
    BY <1>1, <1>6 DEF Fits, Keeps
  <2> QED
    BY <1>1, <1>5, <2>1, <2>2 DEF Fits
<1> QED
  BY <1>3, <1>5, <1>7, <1>8 DEF Good

\* TerminalStrip::groupTerminals(), the loop.
LEMMA JoinedGood ==
    ASSUME NEW W, NEW K, NEW N, Keeps(K, N), NEW d \in Good(W, K, N),
           NEW p \in N, NEW rs \in Seq(Reals)
    PROVE  Joined(d, p, rs) \in Good(W, K, N)
<1> DEFINE m == Len(rs)
           D == Good(W, K, N)
           Step(e, n) == [TakeOut(e, e.phys[rs[n]], rs[n]) EXCEPT !.levels[p] = Append(@, rs[n]),
                                                               !.phys[rs[n]] = p]
           F(f) == [n \in 0 .. m |-> IF n = 0 THEN d ELSE Step(f[n - 1], n)]
           after == CHOOSE f : f = F(f)
           G == [x \in D \X (1 .. m) |-> Step(x[1], x[2])]
<1>1. Joined(d, p, rs) = after[m]
  BY DEF Joined, Through
<1>2. m \in Nat /\ \A n \in 1 .. m : rs[n] \in Reals /\ rs[n] \in Range(rs)
  BY RangeOf
<1>3. ASSUME NEW e \in D, NEW n \in 1 .. m PROVE Step(e, n) \in D
  <2> DEFINE r == rs[n]
             out == TakeOut(e, e.phys[r], r)
  <2>1. r \in Reals
    BY <1>2
  <2> HIDE DEF r
  <2>2. out \in Good(W, K, N) /\ Nowhere(out, r)
    BY <2>1, TakenOut
  <2> HIDE DEF out
  <2>3. [out EXCEPT !.levels[p] = Append(@, r), !.phys[r] = p] \in Good(W, K, N)
    BY <2>1, <2>2, JoinGood
  <2> QED
    BY <2>3 DEF r, out
<1>4. d \in D
  OBVIOUS
<1> HIDE DEF m, D, Step
<1>5. G \in [D \X (1 .. m) -> D]
  BY <1>3
<1>6. PICK g : Loops(D, d, m, G, g)
  <2> HIDE DEF G
  <2> QED
    BY <1>2, <1>4, <1>5, LoopExists
<1>7. \A n \in 1 .. m : g[n] = Step(g[n - 1], n)
  <2>1. \A n \in 1 .. m : g[n - 1] \in D
    BY <1>2, <1>6, LoopStays
  <2>2. \A n \in 1 .. m : G[<<g[n - 1], n>>] = Step(g[n - 1], n)
    BY <2>1
  <2> HIDE DEF G
  <2> QED
    BY <1>6, <2>2 DEF Loops
<1>8. g = F(g)
  <2>1. g[0] = d /\ g = [n \in 0 .. m |-> g[n]]
    BY <1>6 DEF Loops
  <2>2. \A n \in 0 .. m : n # 0 => n \in 1 .. m
    BY <1>2
  <2> HIDE DEF G
  <2> QED
    BY <1>7, <2>1, <2>2
<1>9. after = F(after)
  <2> HIDE DEF F
  <2> QED
    BY <1>8
<1> HIDE DEF after
<1>10. after[0] = d /\ \A n \in 1 .. m : after[n] = Step(after[n - 1], n)
  BY <1>2, <1>9
<1>11. after[m] \in D
  <2>1. after[0] \in D /\ \A n \in 1 .. m : after[n - 1] \in D => after[n] \in D
    BY <1>3, <1>4, <1>10
  <2>2. m \in Nat
    BY <1>2
  <2> QED
    BY <2>1, <2>2, LoopLands
<1> QED
  BY <1>1, <1>11 DEF D

\* TerminalStrip::groupTerminals() into a physical terminal of a strip.
LEMMA GroupTerminalsGood ==
    ASSUME NEW W, NEW K, NEW N, Keeps(K, N), NEW d \in Good(W, K, N),
           NEW s \in Strips, NEW p \in N, NEW rs \in Seq(Reals)
    PROVE  GroupTerminals(d, s, p, rs) \in Good(W, K, N)
<1> DEFINE joined == Joined(d, p, rs)
           q == Selected(joined.order[s], {t \in Phys : joined.levels[t] # << >>})
<1>1. joined \in Good(W, K, N)
  BY JoinedGood
<1>2. GroupTerminals(d, s, p, rs) = d \/ GroupTerminals(d, s, p, rs) = [joined EXCEPT !.order[s] = q]
  BY DEF GroupTerminals
<1> HIDE DEF joined
<1>3. joined.order[s] \in Seq(Phys) /\ IsInjective(joined.order[s])
  BY <1>1, DocParts DEF Good, Sound
<1>4. q \in Plains(Phys) /\ Range(q) \subseteq Range(joined.order[s])
  BY <1>3, SelectedIs DEF Plains
<1> HIDE DEF q
<1>5. [joined EXCEPT !.order[s] = q] \in Good(W, K, N)
  BY <1>1, <1>4, OrderGood
<1> QED
  BY <1>2, <1>5

\* TerminalStrip::insertSpareTerminals(): the physical terminal of a spare.
LEMMA MakeSpareGood ==
    ASSUME NEW W, NEW K, NEW N, Keeps(K, N), NEW d \in Good(W, K, N),
           NEW r \in Spare, Nowhere(d, r), FreePhys(d) # {}, N \subseteq Held
    PROVE  LET p == FreshPhys(d)
               e == MakeSpare(d, r)
           IN  /\ p \in Phys \ Held /\ e.phys[r] = p
               /\ e \in Good(W \cup {<<p, r>>}, K \cup {<<p, r>>}, N)
<1> DEFINE p == FreshPhys(d)
           e == MakeSpare(d, r)
           x == <<p, r>>
           one == <<r>>
<1>1. p \in FreePhys(d)
  BY FreshIs
<1>2. e = [d EXCEPT !.levels[p] = one, !.strip[p] = None, !.phys[r] = p]
  BY DEF MakeSpare
<1> HIDE DEF p, e
<1>3. /\ d \in Docs /\ Sound(d) /\ Fits(d, W, K, N) /\ r \in Reals
  BY DEF Good, Reals
<1>4. /\ p \in Phys /\ p \notin Held
      /\ \A q \in Reals : d.phys[q] # p
      /\ \A t \in Strips : p \notin Range(d.order[t])
  <2>1. d.phys \in [Reals -> Phys \cup {None}]
    BY <1>3, DocParts
  <2>2. p \in Phys /\ p \notin Held /\ p \notin Range(d.phys) /\ \A t \in Strips : p \notin Range(d.order[t])
    BY <1>1 DEF FreePhys, Live
  <2> QED
    BY <2>1, <2>2 DEF Range
<1>5. one \in Seq(Reals) /\ IsInjective(one) /\ Range(one) = {r}
  BY <1>3 DEF IsInjective, Range
<1> HIDE DEF one
<1>6. /\ [d.levels EXCEPT ![p] = one] \in [Phys -> Seq(Reals)]
      /\ [d.phys EXCEPT ![r] = p] \in [Reals -> Phys \cup {None}]
      /\ [d.strip EXCEPT ![p] = None] \in [Phys -> Strips \cup {None}]
  BY <1>3, <1>4, <1>5, DocParts
<1>7. /\ e \in Docs /\ e.order = d.order
      /\ e.strip = [d.strip EXCEPT ![p] = None]
      /\ e.levels = [d.levels EXCEPT ![p] = one]
      /\ e.phys = [d.phys EXCEPT ![r] = p]
  BY <1>2, <1>3, <1>6 DEF Docs
<1>8. /\ \A q \in Phys : e.levels[q] = IF q = p THEN one ELSE d.levels[q]
      /\ \A q \in Phys : e.strip[q] = IF q = p THEN None ELSE d.strip[q]
      /\ \A y \in Reals : e.phys[y] = IF y = r THEN p ELSE d.phys[y]
  BY <1>3, <1>4, <1>7, DocParts
<1>9. Sound(e)
  <2>1. \A q \in Phys : IsInjective(e.levels[q])
    BY <1>3, <1>5, <1>8 DEF Sound
  <2>2. ASSUME NEW q \in Phys, NEW y \in Range(e.levels[q]) PROVE e.phys[y] = q
    <3>1. y \in Reals
      BY <1>7, DocParts, RangeOf
    <3>2. CASE q = p
      BY <1>5, <1>8, <2>2, <3>1, <3>2
    <3>3. CASE q # p
      <4>1. y \in Range(d.levels[q]) /\ y # r
        BY <1>8, <2>2, <3>3 DEF Nowhere
      <4> QED
        BY <1>3, <1>8, <3>1, <4>1 DEF Sound
    <3> QED
      BY <3>2, <3>3
  <2>3. \A t \in Strips : \A q \in Range(d.order[t]) : q \in Phys /\ q # p
    BY <1>3, <1>4, DocParts, RangeOf
  <2>4. \A t \in Strips : \A q \in Range(e.order[t]) : e.strip[q] = t
    BY <1>3, <1>7, <1>8, <2>3 DEF Sound
  <2> QED
    BY <1>3, <1>7, <2>1, <2>2, <2>4 DEF Sound
<1>10. Fits(e, W \cup {x}, K \cup {x}, N)
  <2>1. ASSUME NEW q \in Phys, NEW y \in Range(e.levels[q]), e.strip[q] = None
        PROVE  <<q, y>> \in W \cup {x}
    <3>1. CASE q = p
      BY <1>5, <1>8, <2>1, <3>1
    <3>2. CASE q # p
      BY <1>3, <1>8, <2>1, <3>2 DEF Fits
    <3> QED
      BY <3>1, <3>2
  <2>2. \A y \in K : Range(e.levels[y[1]]) \subseteq {y[2]}
    BY <1>3, <1>4, <1>8 DEF Fits, Keeps
  <2>3. Range(e.levels[x[1]]) \subseteq {x[2]}
    BY <1>4, <1>5, <1>8
  <2>4. \A q \in N : e.strip[q] # None
    BY <1>3, <1>4, <1>8 DEF Fits, Keeps
  <2> QED
    BY <2>1, <2>2, <2>3, <2>4 DEF Fits
<1> QED
  BY <1>3, <1>4, <1>7, <1>8, <1>9, <1>10 DEF Good, p, e

\* TerminalStrip::isBridged() finds a bridge or none.
LEMMA BridgeOfIs ==
    ASSUME NEW d, NEW s, NEW r
    PROVE  BridgeOf(d, s, r) \in Bridges \cup {None}
BY DEF BridgeOf

\* TerminalStripBridge::addTerminals() takes no terminal from its place.
LEMMA AddToBridgeGood ==
    ASSUME NEW W, NEW K, NEW N, NEW d \in Good(W, K, N), NEW s \in Strips, NEW b,
           NEW R \in SUBSET Reals
    PROVE  AddToBridge(d, s, b, R) \in Good(W, K, N)
<1> DEFINE e == [d EXCEPT !.on[b] = @ \cup R, !.home[b] = s]
<1>1. AddToBridge(d, s, b, R) = d \/ AddToBridge(d, s, b, R) = e
  BY DEF AddToBridge
<1>2. d \in Docs
  BY DEF Good
<1>3. [d.on EXCEPT ![b] = @ \cup R] \in [Bridges -> SUBSET Reals]
  BY <1>2, DocParts
<1>4. [d.home EXCEPT ![b] = s] \in [Bridges -> Strips \cup {None}]
  BY <1>2, DocParts
<1>5. e \in Docs /\ e.order = d.order /\ e.levels = d.levels /\ e.strip = d.strip /\ e.phys = d.phys
  BY <1>2, <1>3, <1>4 DEF Docs
<1> HIDE DEF e
<1>6. e \in Good(W, K, N)
  BY <1>5, BridgesAside
<1> QED
  BY <1>1, <1>6

\* Setting and taking away a bridge takes no terminal from its place.
LEMMA BridgingGood ==
    ASSUME NEW W, NEW K, NEW N, NEW d \in Good(W, K, N), NEW s \in Strips, NEW b,
           NEW R \in SUBSET Reals
    PROVE  /\ SetBridge(d, s, R) \in Good(W, K, N)
           /\ SetKnownBridge(d, s, b, R) \in Good(W, K, N)
           /\ UnBridge(d, s, R) \in Good(W, K, N)
<1>1. SetBridge(d, s, R) \in Good(W, K, N)
  BY AddToBridgeGood DEF SetBridge
<1>2. SetKnownBridge(d, s, b, R) \in Good(W, K, N)
  BY AddToBridgeGood DEF SetKnownBridge
<1>3. UnBridge(d, s, R) \in Good(W, K, N)
  <2> DEFINE c == BridgeOf(d, s, CHOOSE r \in R : TRUE)
             e == [d EXCEPT !.on[c] = @ \ R]
  <2>1. UnBridge(d, s, R) = d \/ UnBridge(d, s, R) = e
    BY DEF UnBridge
  <2> HIDE DEF c
  <2>2. d \in Docs
    BY DEF Good
  <2>3. [d.on EXCEPT ![c] = @ \ R] \in [Bridges -> SUBSET Reals]
    BY <2>2, DocParts
  <2>4. e \in Docs /\ e.order = d.order /\ e.levels = d.levels /\ e.strip = d.strip /\ e.phys = d.phys
    BY <2>2, <2>3 DEF Docs
  <2> HIDE DEF e
  <2>5. e \in Good(W, K, N)
    BY <2>4, BridgesAside
  <2> QED
    BY <2>1, <2>5
<1> QED
  BY <1>1, <1>2, <1>3

----------------------------------------------------------------------------
(****************************************************************************)
(* The commands.                                                            *)
(****************************************************************************)

\* The commands, by their names, and what they hold: levels count from 1.
Positive == Nat \ {0}

Adds      == [name : {"Add"}, strip : Strips, reals : Seq(Drawn)]
Removes   == [name : {"Remove"}, strip : Strips, groups : Seq(Plains(Reals))]
Moves     == [name : {"Move"}, strip : Strips, to : Strips, phys : Plains(Phys)]
SpareAdds == [name : {"Spares"}, strip : Strips, at : Int, real : Spare, phys : Phys]
Levelings == [name : {"Level"}, strip : Strips, real : Reals, new : Positive, old : Positive]
Sorts     == [name : {"Sort"}, strip : Strips, old : Plains(Phys), new : Plains(Phys)]
Groups    == [name : {"Group"}, strip : Strips, receiver : Phys, reals : Seq(Reals)]
Groupings == [phys : Phys, reals : Seq(Reals)]
Ungroups  == [name : {"Ungroup"}, strip : Strips, groups : Seq(Groupings),
              levels : Seq(Reals \X Positive)]
Bridgings == [name : {"Bridge", "Unbridge"}, strip : Strips, reals : SUBSET Reals,
              bridge : Bridges \cup {None}]
StripAdds == [name : {"AddStrip"}, strip : Strips]

\* What can be on the undo stack of a user who deletes no strip.
Commands == Adds \cup Removes \cup Moves \cup SpareAdds \cup Levelings \cup Sorts
                \cup Groups \cup Ungroups \cup Bridgings \cup StripAdds

\* The physical terminals a command puts terminals into.
GrownBy(c) == CASE c.name = "Group"   -> {c.receiver}
                [] c.name = "Ungroup" -> {c.groups[i].phys : i \in DOMAIN c.groups}
                [] OTHER -> {}

\* The terminals a command can put somewhere.
Places(c) == IF c.name \in {"Bridge", "Unbridge"} THEN {} ELSE RealsIn(c)

\* RemoveTerminalFromStripCommand::redo().
LEMMA RedoRemove ==
    ASSUME NEW W, NEW K, NEW N, Keeps(K, N), NEW d \in Good(W, K, N), NEW c \in Removes
    PROVE  Redo1(d, c) \in Good(W, K, N)
<1> DEFINE m == Len(c.groups)
           D == Good(W, K, N)
           Step(e, n) == RemoveTerminals(e, c.strip, c.groups[n])
           F(f) == [n \in 0 .. m |-> IF n = 0 THEN d ELSE Step(f[n - 1], n)]
           after == CHOOSE f : f = F(f)
           G == [x \in D \X (1 .. m) |-> Step(x[1], x[2])]
<1>1. Redo1(d, c) = after[m]
  BY DEF Redo1, Through, Removes
<1>2. m \in Nat /\ \A n \in 1 .. m : c.groups[n] \in Plains(Reals) /\ c.groups[n] \in Range(c.groups)
  BY RangeOf DEF Removes
<1>3. ASSUME NEW e \in D, NEW n \in 1 .. m PROVE Step(e, n) \in D
  <2>1. c.groups[n] \in Seq(Reals) /\ c.strip \in Strips
    BY <1>2 DEF Plains, Removes
  <2> QED
    BY <2>1, RemoveTerminalsGood
<1>4. d \in D
  OBVIOUS
<1> HIDE DEF m, D, Step
<1>5. G \in [D \X (1 .. m) -> D]
  BY <1>3
<1>6. PICK g : Loops(D, d, m, G, g)
  <2> HIDE DEF G
  <2> QED
    BY <1>2, <1>4, <1>5, LoopExists
<1>7. \A n \in 1 .. m : g[n] = Step(g[n - 1], n)
  <2>1. \A n \in 1 .. m : g[n - 1] \in D
    BY <1>2, <1>6, LoopStays
  <2>2. \A n \in 1 .. m : G[<<g[n - 1], n>>] = Step(g[n - 1], n)
    BY <2>1
  <2> HIDE DEF G
  <2> QED
    BY <1>6, <2>2 DEF Loops
<1>8. g = F(g)
  <2>1. g[0] = d /\ g = [n \in 0 .. m |-> g[n]]
    BY <1>6 DEF Loops
  <2>2. \A n \in 0 .. m : n # 0 => n \in 1 .. m
    BY <1>2
  <2> HIDE DEF G
  <2> QED
    BY <1>7, <2>1, <2>2
<1>9. after = F(after)
  <2> HIDE DEF F
  <2> QED
    BY <1>8
<1> HIDE DEF after
<1>10. after[0] = d /\ \A n \in 1 .. m : after[n] = Step(after[n - 1], n)
  BY <1>2, <1>9
<1>11. after[m] \in D
  <2>1. after[0] \in D /\ \A n \in 1 .. m : after[n - 1] \in D => after[n] \in D
    BY <1>3, <1>4, <1>10
  <2>2. m \in Nat
    BY <1>2
  <2> QED
    BY <2>1, <2>2, LoopLands
<1> QED
  BY <1>1, <1>11 DEF D

\* UnGroupTerminalsCommand::redo().
LEMMA RedoUngroup ==
    ASSUME NEW W, NEW K, NEW N, Keeps(K, N), NEW d \in Good(W, K, N), NEW c \in Ungroups
    PROVE  Redo1(d, c) \in Good(W, K, N)
<1> DEFINE m == Len(c.groups)
           D == Good(W, K, N)
           Step(e, n) == UnGroupTerminals(e, c.strip, c.groups[n].reals)
           F(f) == [n \in 0 .. m |-> IF n = 0 THEN d ELSE Step(f[n - 1], n)]
           after == CHOOSE f : f = F(f)
           G == [x \in D \X (1 .. m) |-> Step(x[1], x[2])]
<1>1. Redo1(d, c) = after[m]
  BY DEF Redo1, Through, Ungroups
<1>2. m \in Nat /\ \A n \in 1 .. m : c.groups[n] \in Groupings /\ c.groups[n] \in Range(c.groups)
  BY RangeOf DEF Ungroups
<1>3. ASSUME NEW e \in D, NEW n \in 1 .. m PROVE Step(e, n) \in D
  <2>1. c.groups[n].reals \in Seq(Reals) /\ c.strip \in Strips
    BY <1>2 DEF Ungroups, Groupings
  <2> QED
    BY <2>1, UnGroupTerminalsGood
<1>4. d \in D
  OBVIOUS
<1> HIDE DEF m, D, Step
<1>5. G \in [D \X (1 .. m) -> D]
  BY <1>3
<1>6. PICK g : Loops(D, d, m, G, g)
  <2> HIDE DEF G
  <2> QED
    BY <1>2, <1>4, <1>5, LoopExists
<1>7. \A n \in 1 .. m : g[n] = Step(g[n - 1], n)
  <2>1. \A n \in 1 .. m : g[n - 1] \in D
    BY <1>2, <1>6, LoopStays
  <2>2. \A n \in 1 .. m : G[<<g[n - 1], n>>] = Step(g[n - 1], n)
    BY <2>1
  <2> HIDE DEF G
  <2> QED
    BY <1>6, <2>2 DEF Loops
<1>8. g = F(g)
  <2>1. g[0] = d /\ g = [n \in 0 .. m |-> g[n]]
    BY <1>6 DEF Loops
  <2>2. \A n \in 0 .. m : n # 0 => n \in 1 .. m
    BY <1>2
  <2> HIDE DEF G
  <2> QED
    BY <1>7, <2>1, <2>2
<1>9. after = F(after)
  <2> HIDE DEF F
  <2> QED
    BY <1>8
<1> HIDE DEF after
<1>10. after[0] = d /\ \A n \in 1 .. m : after[n] = Step(after[n - 1], n)
  BY <1>2, <1>9
<1>11. after[m] \in D
  <2>1. after[0] \in D /\ \A n \in 1 .. m : after[n - 1] \in D => after[n] \in D
    BY <1>3, <1>4, <1>10
  <2>2. m \in Nat
    BY <1>2
  <2> QED
    BY <2>1, <2>2, LoopLands
<1> QED
  BY <1>1, <1>11 DEF D

\* UnGroupTerminalsCommand::undo(): first the groups, then the levels.
Regroup(d, c) == Through(LAMBDA e, g : GroupTerminals(e, c.strip, g.phys, g.reals), d, c.groups)

\* Then each level is set back to what it was.
Relevel(d, c) == Through(LAMBDA e, l : SetLevel(e, l[1], l[2]), d, c.levels)

\* UnGroupTerminalsCommand::undo(), the groups.
LEMMA RegroupGood ==
    ASSUME NEW W, NEW K, NEW N, Keeps(K, N), NEW d \in Good(W, K, N),
           NEW c \in Ungroups, GrownBy(c) \subseteq N
    PROVE  Regroup(d, c) \in Good(W, K, N)
<1> DEFINE m == Len(c.groups)
           D == Good(W, K, N)
           Step(e, n) == GroupTerminals(e, c.strip, c.groups[n].phys, c.groups[n].reals)
           F(f) == [n \in 0 .. m |-> IF n = 0 THEN d ELSE Step(f[n - 1], n)]
           after == CHOOSE f : f = F(f)
           G == [x \in D \X (1 .. m) |-> Step(x[1], x[2])]
<1>1. Regroup(d, c) = after[m]
  BY DEF Regroup, Through
<1>2. m \in Nat /\ \A n \in 1 .. m : c.groups[n] \in Groupings /\ c.groups[n] \in Range(c.groups)
  BY RangeOf DEF Ungroups
<1>3. ASSUME NEW e \in D, NEW n \in 1 .. m PROVE Step(e, n) \in D
  <2>1. c.groups[n].reals \in Seq(Reals) /\ c.strip \in Strips
    BY <1>2 DEF Ungroups, Groupings
  <2>2. c.groups[n].phys \in N
    <3>1. c.name = "Ungroup" /\ c.groups \in Seq(Groupings)
      BY DEF Ungroups
    <3>2. GrownBy(c) = {c.groups[i].phys : i \in DOMAIN c.groups}
      BY <3>1 DEF GrownBy
    <3>3. n \in DOMAIN c.groups
      BY <3>1
    <3> QED
      BY <3>2, <3>3
  <2> QED
    BY <2>1, <2>2, GroupTerminalsGood
<1>4. d \in D
  OBVIOUS
<1> HIDE DEF m, D, Step
<1>5. G \in [D \X (1 .. m) -> D]
  BY <1>3
<1>6. PICK g : Loops(D, d, m, G, g)
  <2> HIDE DEF G
  <2> QED
    BY <1>2, <1>4, <1>5, LoopExists
<1>7. \A n \in 1 .. m : g[n] = Step(g[n - 1], n)
  <2>1. \A n \in 1 .. m : g[n - 1] \in D
    BY <1>2, <1>6, LoopStays
  <2>2. \A n \in 1 .. m : G[<<g[n - 1], n>>] = Step(g[n - 1], n)
    BY <2>1
  <2> HIDE DEF G
  <2> QED
    BY <1>6, <2>2 DEF Loops
<1>8. g = F(g)
  <2>1. g[0] = d /\ g = [n \in 0 .. m |-> g[n]]
    BY <1>6 DEF Loops
  <2>2. \A n \in 0 .. m : n # 0 => n \in 1 .. m
    BY <1>2
  <2> HIDE DEF G
  <2> QED
    BY <1>7, <2>1, <2>2
<1>9. after = F(after)
  <2> HIDE DEF F
  <2> QED
    BY <1>8
<1> HIDE DEF after
<1>10. after[0] = d /\ \A n \in 1 .. m : after[n] = Step(after[n - 1], n)
  BY <1>2, <1>9
<1>11. after[m] \in D
  <2>1. after[0] \in D /\ \A n \in 1 .. m : after[n - 1] \in D => after[n] \in D
    BY <1>3, <1>4, <1>10
  <2>2. m \in Nat
    BY <1>2
  <2> QED
    BY <2>1, <2>2, LoopLands
<1> QED
  BY <1>1, <1>11 DEF D

\* UnGroupTerminalsCommand::undo(), the levels.
LEMMA RelevelGood ==
    ASSUME NEW W, NEW K, NEW N, Keeps(K, N), NEW d \in Good(W, K, N), NEW c \in Ungroups
    PROVE  Relevel(d, c) \in Good(W, K, N)
<1> DEFINE m == Len(c.levels)
           D == Good(W, K, N)
           Step(e, n) == SetLevel(e, c.levels[n][1], c.levels[n][2])
           F(f) == [n \in 0 .. m |-> IF n = 0 THEN d ELSE Step(f[n - 1], n)]
           after == CHOOSE f : f = F(f)
           G == [x \in D \X (1 .. m) |-> Step(x[1], x[2])]
<1>1. Relevel(d, c) = after[m]
  BY DEF Relevel, Through
<1>2. m \in Nat /\ \A n \in 1 .. m : c.levels[n] \in Reals \X Positive /\ c.levels[n] \in Range(c.levels)
  BY RangeOf DEF Ungroups
<1>3. ASSUME NEW e \in D, NEW n \in 1 .. m PROVE Step(e, n) \in D
  <2>1. c.levels[n][1] \in Reals /\ c.levels[n][2] \in Nat \ {0}
    BY <1>2 DEF Positive
  <2> QED
    BY <2>1, SetLevelGood
<1>4. d \in D
  OBVIOUS
<1> HIDE DEF m, D, Step
<1>5. G \in [D \X (1 .. m) -> D]
  BY <1>3
<1>6. PICK g : Loops(D, d, m, G, g)
  <2> HIDE DEF G
  <2> QED
    BY <1>2, <1>4, <1>5, LoopExists
<1>7. \A n \in 1 .. m : g[n] = Step(g[n - 1], n)
  <2>1. \A n \in 1 .. m : g[n - 1] \in D
    BY <1>2, <1>6, LoopStays
  <2>2. \A n \in 1 .. m : G[<<g[n - 1], n>>] = Step(g[n - 1], n)
    BY <2>1
  <2> HIDE DEF G
  <2> QED
    BY <1>6, <2>2 DEF Loops
<1>8. g = F(g)
  <2>1. g[0] = d /\ g = [n \in 0 .. m |-> g[n]]
    BY <1>6 DEF Loops
  <2>2. \A n \in 0 .. m : n # 0 => n \in 1 .. m
    BY <1>2
  <2> HIDE DEF G
  <2> QED
    BY <1>7, <2>1, <2>2
<1>9. after = F(after)
  <2> HIDE DEF F
  <2> QED
    BY <1>8
<1> HIDE DEF after
<1>10. after[0] = d /\ \A n \in 1 .. m : after[n] = Step(after[n - 1], n)
  BY <1>2, <1>9
<1>11. after[m] \in D
  <2>1. after[0] \in D /\ \A n \in 1 .. m : after[n - 1] \in D => after[n] \in D
    BY <1>3, <1>4, <1>10
  <2>2. m \in Nat
    BY <1>2
  <2> QED
    BY <2>1, <2>2, LoopLands
<1> QED
  BY <1>1, <1>11 DEF D

\* A command made again, but the one that adds a spare.
LEMMA RedoGood ==
    ASSUME NEW W, NEW K, NEW N, Keeps(K, N), NEW d \in Good(W, K, N),
           NEW c \in Commands, c \notin SpareAdds, GrownBy(c) \subseteq N,
           \A r \in Places(c) : \A p \in Phys : <<p, r>> \notin W
    PROVE  Redo1(d, c) \in Good(W, K, N)
<1>1. CASE c \in Adds
  <2>1. c.name = "Add" /\ c.strip \in Strips /\ c.reals \in Seq(Reals)
    BY <1>1 DEF Adds, Reals
  <2>2. Places(c) = Range(c.reals)
    BY <2>1 DEF Places, RealsIn
  <2>3. Redo1(d, c) = AddTerminals(d, c.strip, c.reals)
    BY <2>1 DEF Redo1
  <2> QED
    BY <2>1, <2>2, <2>3, AddTerminalsGood
<1>2. CASE c \in Removes
  BY <1>2, RedoRemove
<1>3. CASE c \in Moves
  <2>1. Redo1(d, c) = AddPhysical(RemovePhysical(d, c.strip, c.phys), c.to, c.phys)
    BY <1>3 DEF Redo1, Moves
  <2> QED
    BY <1>3, <2>1, MovedGood DEF Moves
<1>4. CASE c \in Levelings
  <2>1. Redo1(d, c) = SetLevel(d, c.real, c.new)
    BY <1>4 DEF Redo1, Levelings
  <2> QED
    BY <1>4, <2>1, SetLevelGood DEF Levelings, Positive
<1>5. CASE c \in Sorts
  <2>1. Redo1(d, c) = SetOrderTo(d, c.strip, c.new)
    BY <1>5 DEF Redo1, Sorts
  <2> QED
    BY <1>5, <2>1, SetOrderToGood DEF Sorts
<1>6. CASE c \in Groups
  <2>1. Redo1(d, c) = GroupTerminals(d, c.strip, c.receiver, c.reals) /\ c.receiver \in N
    BY <1>6 DEF Redo1, Groups, GrownBy
  <2> QED
    BY <1>6, <2>1, GroupTerminalsGood DEF Groups
<1>7. CASE c \in Ungroups
  BY <1>7, RedoUngroup
<1>8. CASE c \in Bridgings
  <2>1. \/ Redo1(d, c) = SetBridge(d, c.strip, c.reals)
        \/ Redo1(d, c) = SetKnownBridge(d, c.strip, c.bridge, c.reals)
        \/ Redo1(d, c) = UnBridge(d, c.strip, c.reals)
    BY <1>8 DEF Redo1, Bridgings
  <2> QED
    BY <1>8, <2>1, BridgingGood DEF Bridgings
<1>9. CASE c \in StripAdds
  <2> DEFINE e == [d EXCEPT !.listed = @ \cup {c.strip}]
  <2>1. Redo1(d, c) = e
    BY <1>9 DEF Redo1, StripAdds
  <2>2. d \in Docs
    BY DEF Good
  <2>3. e \in Docs /\ e.order = d.order /\ e.levels = d.levels /\ e.strip = d.strip /\ e.phys = d.phys
    BY <1>9, <2>2 DEF Docs, StripAdds
  <2> HIDE DEF e
  <2> QED
    BY <2>1, <2>3, BridgesAside
<1> QED
  BY <1>1, <1>2, <1>3, <1>4, <1>5, <1>6, <1>7, <1>8, <1>9 DEF Commands

\* A command taken back, but the one that adds a spare.
LEMMA UndoGood ==
    ASSUME NEW W, NEW K, NEW N, Keeps(K, N), NEW d \in Good(W, K, N),
           NEW c \in Commands, c \notin SpareAdds, GrownBy(c) \subseteq N,
           \A r \in Places(c) : \A p \in Phys : <<p, r>> \notin W
    PROVE  Undo1(d, c) \in Good(W, K, N)
<1>1. CASE c \in Adds
  <2>1. c.name = "Add" /\ c.strip \in Strips /\ c.reals \in Seq(Reals)
    BY <1>1 DEF Adds, Reals
  <2>2. Undo1(d, c) = RemoveTerminals(d, c.strip, c.reals)
    BY <2>1 DEF Undo1
  <2> QED
    BY <2>1, <2>2, RemoveTerminalsGood
<1>2. CASE c \in Removes
  <2>1. c.name = "Remove" /\ c.strip \in Strips /\ c.groups \in Seq(Plains(Reals))
    BY <1>2 DEF Removes
  <2>2. Undo1(d, c) = AddAndGroupTerminals(d, c.strip, c.groups)
    BY <2>1 DEF Undo1
  <2>3. Places(c) = UNION {Range(c.groups[i]) : i \in DOMAIN c.groups}
    BY <2>1 DEF Places, RealsIn
  <2>4. DOMAIN c.groups = 1 .. Len(c.groups)
    BY <2>1
  <2>5. \A i \in 1 .. Len(c.groups) : \A r \in Range(c.groups[i]) : \A p \in Phys : <<p, r>> \notin W
    BY <2>3, <2>4
  <2> QED
    BY <2>1, <2>2, <2>5, AddAndGroupTerminalsGood
<1>3. CASE c \in Moves
  <2>1. Undo1(d, c) = AddPhysical(RemovePhysical(d, c.to, c.phys), c.strip, c.phys)
    BY <1>3 DEF Undo1, Moves
  <2> QED
    BY <1>3, <2>1, MovedGood DEF Moves
<1>4. CASE c \in Levelings
  <2>1. Undo1(d, c) = SetLevel(d, c.real, c.old)
    BY <1>4 DEF Undo1, Levelings
  <2> QED
    BY <1>4, <2>1, SetLevelGood DEF Levelings, Positive
<1>5. CASE c \in Sorts
  <2>1. Undo1(d, c) = SetOrderTo(d, c.strip, c.old)
    BY <1>5 DEF Undo1, Sorts
  <2> QED
    BY <1>5, <2>1, SetOrderToGood DEF Sorts
<1>6. CASE c \in Groups
  <2>1. Undo1(d, c) = UnGroupTerminals(d, c.strip, c.reals)
    BY <1>6 DEF Undo1, Groups
  <2> QED
    BY <1>6, <2>1, UnGroupTerminalsGood DEF Groups
<1>7. CASE c \in Ungroups
  <2>1. Undo1(d, c) = Relevel(Regroup(d, c), c)
    BY <1>7 DEF Undo1, Ungroups, Relevel, Regroup
  <2>2. Regroup(d, c) \in Good(W, K, N)
    BY <1>7, RegroupGood
  <2> QED
    BY <1>7, <2>1, <2>2, RelevelGood
<1>8. CASE c \in Bridgings
  <2>1. \/ Undo1(d, c) = UnBridge(d, c.strip, c.reals)
        \/ Undo1(d, c) = SetKnownBridge(d, c.strip, c.bridge, c.reals)
    BY <1>8 DEF Undo1, Bridgings
  <2> QED
    BY <1>8, <2>1, BridgingGood DEF Bridgings
<1>9. CASE c \in StripAdds
  <2> DEFINE e == [d EXCEPT !.listed = @ \ {c.strip}]
  <2>1. Undo1(d, c) = e
    BY <1>9 DEF Undo1, StripAdds
  <2>2. d \in Docs
    BY DEF Good
  <2>3. e \in Docs /\ e.order = d.order /\ e.levels = d.levels /\ e.strip = d.strip /\ e.phys = d.phys
    BY <1>9, <2>2 DEF Docs, StripAdds
  <2> HIDE DEF e
  <2> QED
    BY <2>1, <2>3, BridgesAside
<1> QED
  BY <1>1, <1>2, <1>3, <1>4, <1>5, <1>6, <1>7, <1>8, <1>9 DEF Commands

----------------------------------------------------------------------------
(****************************************************************************)
(* The undo stack: what stands before a command is made, undone or redone   *)
(* stands after it.                                                         *)
(****************************************************************************)

\* What a command put into a physical terminal it made itself.
MadeBy(c) == IF c.name = "Spares" THEN {<<c.phys, c.real>>} ELSE {}

\* The commands of the stack, those that can be undone first.
StackOf(a, b) == [k \in 1 .. (Len(a) + Len(b)) |->
                    IF k <= Len(a) THEN a[k].cmd ELSE b[k - Len(a)].cmd]

\* What the commands of a stack hold, what they made and what they put
\* terminals into.
HeldOf(S)  == UNION {HeldBy(S[i])  : i \in DOMAIN S}
Made(S)    == UNION {MadeBy(S[i])  : i \in DOMAIN S}
Growing(S) == UNION {GrownBy(S[i]) : i \in DOMAIN S}

\* The physical terminals with a spare that can be in no strip when n of the
\* commands are done: no command has to do with the spare before the one that
\* puts it into a strip.
Waiting(S, n) ==
    {x \in Phys \X Spare :
        \A i \in DOMAIN S : x[2] \in Places(S[i]) => \E j \in (n + 1) .. i : x \in MadeBy(S[j])}

\* A spare is named by no command before the one that made it.
InTurn(S) ==
    \A i, j \in DOMAIN S : i < j => \A x \in MadeBy(S[j]) : x[2] \notin Places(S[i])

\* Nothing is put into what a command made.
Apart(S) == \A x \in Made(S) : x[1] \notin Growing(S)

\* The invariant of the document and its stack, of which n commands are done.
Standing(d, S, n) ==
    d \in Good(Waiting(S, n), Made(S), Growing(S)) /\ InTurn(S) /\ Apart(S)

\* A document that fits what a stack relies on fits what a shorter one does.
LEMMA GoodWeaker ==
    ASSUME NEW W, NEW K, NEW N, NEW V, NEW L \in SUBSET K, NEW M \in SUBSET N,
           NEW d \in Good(W, K, N),
           \A p \in Phys : \A r \in Range(d.levels[p]) :
               d.strip[p] = None /\ <<p, r>> \in W => <<p, r>> \in V
    PROVE  d \in Good(V, L, M)
BY DEF Good, Fits

\* What a command makes and grows, it holds.
LEMMA CommandIs ==
    ASSUME NEW c \in Commands
    PROVE  /\ GrownBy(c) \subseteq HeldBy(c) \cap Phys
           /\ MadeBy(c) \subseteq Phys \X Spare
           /\ \A x \in MadeBy(c) : x[1] \in HeldBy(c) /\ x[2] \in Places(c)
           /\ c \notin SpareAdds => MadeBy(c) = {}
           /\ c \in SpareAdds => GrownBy(c) = {}
<1>1. CASE c \in Adds
  BY <1>1 DEF Adds, GrownBy, MadeBy, SpareAdds
<1>2. CASE c \in Removes
  BY <1>2 DEF Removes, GrownBy, MadeBy, SpareAdds
<1>3. CASE c \in Moves
  BY <1>3 DEF Moves, GrownBy, MadeBy, SpareAdds
<1>4. CASE c \in SpareAdds
  BY <1>4 DEF SpareAdds, GrownBy, MadeBy, HeldBy, Places, RealsIn
<1>5. CASE c \in Levelings
  BY <1>5 DEF Levelings, GrownBy, MadeBy, SpareAdds
<1>6. CASE c \in Sorts
  BY <1>6 DEF Sorts, GrownBy, MadeBy, SpareAdds
<1>7. CASE c \in Groups
  BY <1>7 DEF Groups, GrownBy, MadeBy, SpareAdds, HeldBy
<1>8. CASE c \in Ungroups
  <2>1. c.name = "Ungroup" /\ c.groups \in Seq(Groupings)
    BY <1>8 DEF Ungroups
  <2>2. \A i \in DOMAIN c.groups : c.groups[i] \in Groupings
    BY <2>1
  <2>3. \A i \in DOMAIN c.groups : c.groups[i].phys \in Phys
    BY <2>2 DEF Groupings
  <2>4. GrownBy(c) = HeldBy(c) /\ GrownBy(c) = {c.groups[i].phys : i \in DOMAIN c.groups}
    BY <2>1 DEF GrownBy, HeldBy
  <2>5. MadeBy(c) = {} /\ c \notin SpareAdds
    BY <2>1 DEF MadeBy, SpareAdds
  <2> QED
    BY <2>3, <2>4, <2>5
<1>9. CASE c \in Bridgings
  BY <1>9 DEF Bridgings, GrownBy, MadeBy, SpareAdds
<1>10. CASE c \in StripAdds
  BY <1>10 DEF StripAdds, GrownBy, MadeBy, SpareAdds
<1> QED
  BY <1>1, <1>2, <1>3, <1>4, <1>5, <1>6, <1>7, <1>8, <1>9, <1>10 DEF Commands

\* What a stack has made and grows, it holds.
LEMMA StackIs ==
    ASSUME NEW S \in Seq(Commands)
    PROVE  /\ Made(S) \subseteq Phys \X Spare
           /\ Growing(S) \subseteq HeldOf(S) \cap Phys
           /\ \A x \in Made(S) : x[1] \in HeldOf(S)
           /\ Apart(S) /\ Held = HeldOf(S) => Keeps(Made(S), Growing(S))
<1>1. \A i \in DOMAIN S : S[i] \in Commands
  OBVIOUS
<1>2. \A i \in DOMAIN S :
          /\ GrownBy(S[i]) \subseteq HeldBy(S[i]) \cap Phys
          /\ MadeBy(S[i]) \subseteq Phys \X Spare
          /\ \A x \in MadeBy(S[i]) : x[1] \in HeldBy(S[i])
  BY <1>1, CommandIs
<1>3. Made(S) \subseteq Phys \X Spare /\ \A x \in Made(S) : x[1] \in HeldOf(S)
  BY <1>2 DEF Made, HeldOf
<1>4. Growing(S) \subseteq HeldOf(S) \cap Phys
  BY <1>2 DEF Growing, HeldOf
<1> QED
  BY <1>3, <1>4 DEF Apart, Keeps

\* Undo keeps what stands.
LEMMA UndoStands ==
    ASSUME NEW S \in Seq(Commands), Held = HeldOf(S), NEW n \in 1 .. Len(S), NEW d,
           Standing(d, S, n)
    PROVE  Undo1(d, S[n]) \in Good(Waiting(S, n - 1), Made(S), Growing(S))
<1> DEFINE c == S[n]
           W == Waiting(S, n)
           V == Waiting(S, n - 1)
           K == Made(S)
           N == Growing(S)
<1>1. /\ Keeps(K, N) /\ d \in Good(W, K, N) /\ InTurn(S)
  BY StackIs DEF Standing
<1>2. c \in Commands /\ n \in DOMAIN S /\ n \in Nat /\ DOMAIN S \subseteq Nat
  OBVIOUS
<1>3. GrownBy(c) \subseteq N /\ MadeBy(c) \subseteq K
  BY <1>2 DEF Growing, Made
<1>4. W \subseteq V
  <2>1. \A i \in DOMAIN S : (n + 1) .. i \subseteq (n - 1 + 1) .. i
    BY <1>2
  <2> QED
    BY <2>1 DEF Waiting
<1>5. CASE c \notin SpareAdds
  <2>1. \A r \in Places(c) : \A p \in Phys : <<p, r>> \notin W
    <3>1. (n + 1) .. n = {}
      BY <1>2
    <3> QED
      BY <1>2, <3>1 DEF Waiting
  <2> HIDE DEF c, W, V, K, N
  <2>2. Undo1(d, c) \in Good(W, K, N)
    BY <1>1, <1>2, <1>3, <1>5, <2>1, UndoGood
  <2>3. Undo1(d, c) \in Good(V, K, N)
    BY <1>4, <2>2, GoodWeaker
  <2> QED
    BY <2>3 DEF c, V, K, N
<1>6. CASE c \in SpareAdds
  <2> DEFINE x == <<c.phys, c.real>>
  <2>1. /\ c.name = "Spares" /\ c.strip \in Strips /\ c.phys \in Phys /\ c.real \in Spare
    BY <1>6 DEF SpareAdds
  <2>2. MadeBy(c) = {x}
    BY <2>1 DEF MadeBy
  <2>3. x \in V
    <3>1. ASSUME NEW i \in DOMAIN S, x[2] \in Places(S[i])
          PROVE  n \in (n - 1 + 1) .. i
      <4>1. ~ (i < n)
        BY <1>1, <1>2, <2>2, <3>1 DEF InTurn
      <4> QED
        BY <1>2, <4>1
    <3>2. x \in Phys \X Spare /\ x \in MadeBy(S[n])
      BY <2>1, <2>2
    <3> QED
      BY <3>1, <3>2 DEF Waiting
  <2>4. Undo1(d, c) = RemovePhysical(d, c.strip, <<x[1]>>)
    BY <2>1 DEF Undo1
  <2>5. x \in K
    BY <1>3, <2>2
  <2> HIDE DEF c, W, V, K, N, x
  <2>6. Undo1(d, c) \in Good(W \cup {x}, K, N)
    BY <1>1, <2>1, <2>4, <2>5, SpareOutGood
  <2>7. Undo1(d, c) \in Good(V, K, N)
    BY <1>4, <2>3, <2>6, GoodWeaker
  <2> QED
    BY <2>7 DEF c, V, K, N
<1> QED
  BY <1>5, <1>6

\* Redo keeps what stands.
LEMMA RedoStands ==
    ASSUME NEW S \in Seq(Commands), Held = HeldOf(S), NEW n \in 0 .. (Len(S) - 1), NEW d,
           Standing(d, S, n)
    PROVE  Redo1(d, S[n + 1]) \in Good(Waiting(S, n + 1), Made(S), Growing(S))
<1> DEFINE c == S[n + 1]
           W == Waiting(S, n)
           V == Waiting(S, n + 1)
           K == Made(S)
           N == Growing(S)
<1>1. /\ Keeps(K, N) /\ d \in Good(W, K, N)
  BY StackIs DEF Standing
<1>2. c \in Commands /\ n + 1 \in DOMAIN S /\ n \in Nat /\ DOMAIN S \subseteq Nat
  OBVIOUS
<1>3. GrownBy(c) \subseteq N /\ MadeBy(c) \subseteq K
  BY <1>2 DEF Growing, Made
<1>4. \A i \in DOMAIN S : \A j \in (n + 1) .. i : j = n + 1 \/ j \in (n + 1 + 1) .. i
  BY <1>2
<1>5. \A x \in W : x \in MadeBy(c) \/ x \in V
  <2>1. ASSUME NEW x \in W, x \notin MadeBy(c) PROVE x \in V
    <3>1. x \in Phys \X Spare
      BY DEF Waiting
    <3>2. ASSUME NEW i \in DOMAIN S, x[2] \in Places(S[i])
          PROVE  \E j \in (n + 1 + 1) .. i : x \in MadeBy(S[j])
      <4>1. PICK j \in (n + 1) .. i : x \in MadeBy(S[j])
        BY <3>2 DEF Waiting
      <4> QED
        BY <1>4, <2>1, <4>1
    <3> QED
      BY <3>1, <3>2 DEF Waiting
  <2> QED
    BY <2>1
<1>6. CASE c \notin SpareAdds
  <2>0. MadeBy(c) = {}
    BY <1>2, <1>6, CommandIs
  <2>1. \A r \in Places(c) : \A p \in Phys : <<p, r>> \notin W
    <3>1. (n + 1) .. (n + 1) = {n + 1}
      BY <1>2
    <3> QED
      BY <1>2, <2>0, <3>1 DEF Waiting
  <2> HIDE DEF c, W, V, K, N
  <2>2. Redo1(d, c) \in Good(W, K, N)
    BY <1>1, <1>2, <1>3, <1>6, <2>1, RedoGood
  <2>3. Redo1(d, c) \in Good(V, K, N)
    BY <1>5, <2>0, <2>2, GoodWeaker
  <2> QED
    BY <2>3 DEF c, V, K, N
<1>7. CASE c \in SpareAdds
  <2> DEFINE p == c.phys
             ps == <<p>>
  <2>1. /\ c.name = "Spares" /\ c.strip \in Strips /\ p \in Phys /\ p # None
    BY <1>7, StripAssumption DEF SpareAdds
  <2>2. MadeBy(c) = {<<p, c.real>>}
    BY <2>1 DEF MadeBy
  <2>3. ps \in Plains(Phys) /\ Range(ps) = {p}
    BY <2>1 DEF Plains, IsInjective, Range
  <2>4. Redo1(d, c) = InsertTerminals(d, c.strip, c.at, ps)
    BY <2>1 DEF Redo1, AddSpare
  <2> HIDE DEF c, W, V, K, N, p, ps
  <2>5. d \in Good(Outside(ps, V), K, N \ Range(ps))
    <3>1. \A q \in Phys : \A r \in Range(d.levels[q]) :
              d.strip[q] = None /\ <<q, r>> \in W => <<q, r>> \in Outside(ps, V)
      <4>1. d \in Docs
        BY <1>1 DEF Good
      <4>2. \A q \in Phys : \A r \in Range(d.levels[q]) : r \in Reals
        BY <4>1, DocParts, RangeOf
      <4> QED
        BY <1>5, <2>2, <2>3, <4>2 DEF Outside
    <3>2. K \in SUBSET K /\ N \ Range(ps) \in SUBSET N
      OBVIOUS
    <3> QED
      BY <1>1, <3>1, <3>2, GoodWeaker
  <2>6. Redo1(d, c) \in Good(V, K, N)
    BY <1>1, <2>1, <2>3, <2>4, <2>5, InsertTerminalsGood DEF Keeps
  <2> QED
    BY <2>6 DEF c, V, K, N
<1> QED
  BY <1>6, <1>7

\* The stack after a push: what had been undone is forgotten.
Pushed(S, n, c) == Append(SubSeq(S, 1, n), c)

\* The stack after a push has the commands that were done and the new one.
LEMMA PushedIs ==
    ASSUME NEW S \in Seq(Commands), NEW n \in 0 .. Len(S), NEW c \in Commands
    PROVE  /\ Pushed(S, n, c) \in Seq(Commands)
           /\ DOMAIN Pushed(S, n, c) = 1 .. (n + 1)
           /\ \A i \in 1 .. n : Pushed(S, n, c)[i] = S[i] /\ i \in DOMAIN S
           /\ Pushed(S, n, c)[n + 1] = c
           /\ Made(Pushed(S, n, c)) \subseteq Made(S) \cup MadeBy(c)
           /\ MadeBy(c) \subseteq Made(Pushed(S, n, c))
           /\ Growing(Pushed(S, n, c)) \subseteq Growing(S) \cup GrownBy(c)
           /\ GrownBy(c) \subseteq Growing(Pushed(S, n, c))
<1> DEFINE T == Pushed(S, n, c)
           B == SubSeq(S, 1, n)
<1>1. n \in Nat /\ DOMAIN S = 1 .. Len(S) /\ Len(S) \in Nat
  OBVIOUS
<1>2. B \in Seq(Commands) /\ Len(B) = n /\ \A i \in 1 .. n : B[i] = S[i]
  BY <1>1
<1> HIDE DEF B
<1>3. /\ T \in Seq(Commands) /\ DOMAIN T = 1 .. (n + 1)
      /\ T[n + 1] = c /\ \A i \in 1 .. n : T[i] = B[i]
  BY <1>2 DEF Pushed, B
<1> HIDE DEF T
<1>4. \A i \in 1 .. (n + 1) : i \in 1 .. n \/ i = n + 1
  BY <1>1
<1>5. \A i \in 1 .. n : i \in DOMAIN S /\ T[i] = S[i]
  BY <1>1, <1>2, <1>3
<1>6. n + 1 \in DOMAIN T
  BY <1>1, <1>3
<1>7. Made(T) \subseteq Made(S) \cup MadeBy(c) /\ MadeBy(c) \subseteq Made(T)
  BY <1>3, <1>4, <1>5, <1>6 DEF Made
<1>8. Growing(T) \subseteq Growing(S) \cup GrownBy(c) /\ GrownBy(c) \subseteq Growing(T)
  BY <1>3, <1>4, <1>5, <1>6 DEF Growing
<1> QED
  BY <1>3, <1>5, <1>7, <1>8 DEF T

\* Two commands that differ only in what a redo() does not look at here.
Alike(b, c) ==
    /\ b \in Commands /\ GrownBy(b) = GrownBy(c) /\ MadeBy(b) = MadeBy(c)
    /\ Places(b) = Places(c)

\* A command is made for terminals that are in a strip or on a folio, and
\* groups nothing into what was made for a spare.
Given(d, S, c) ==
    /\ \A p \in GrownBy(c) : d.strip[p] # None
    /\ \A x \in Made(S) : x[1] \notin GrownBy(c)
    /\ \A r \in Places(c) : r \notin Spare \/ ParentStrip(d, r) # None

\* A command that is given to what stands, but the one that adds a spare,
\* leaves what stands.
LEMMA PushStands ==
    ASSUME NEW S \in Seq(Commands), Held = HeldOf(S), NEW n \in 0 .. Len(S), NEW d,
           Standing(d, S, n), NEW c \in Commands, c \notin SpareAdds, Given(d, S, c),
           NEW b, Alike(b, c)
    PROVE  LET T == Pushed(S, n, b)
           IN  /\ Redo1(d, c) \in Good(Waiting(T, n + 1), Made(T), Growing(T))
               /\ InTurn(T) /\ Apart(T)
<1> DEFINE T == Pushed(S, n, b)
           V == Waiting(T, n + 1)
           K == Made(T)
           N == Growing(T)
<1>1. /\ Keeps(Made(S), Growing(S)) /\ d \in Good(Waiting(S, n), Made(S), Growing(S))
      /\ InTurn(S) /\ Apart(S)
  BY StackIs DEF Standing
<1>2. MadeBy(c) = {} /\ GrownBy(c) \subseteq Phys
  BY CommandIs
<1>3. n \in Nat /\ b \in Commands /\ MadeBy(b) = {}
  BY <1>2 DEF Alike
<1>4. /\ DOMAIN T = 1 .. (n + 1) /\ T[n + 1] = b
      /\ \A i \in 1 .. n : T[i] = S[i] /\ i \in DOMAIN S
      /\ K \subseteq Made(S) /\ N \subseteq Growing(S) \cup GrownBy(c)
      /\ GrownBy(c) \subseteq N
  <2>1. b \in Commands /\ GrownBy(b) = GrownBy(c)
    BY DEF Alike
  <2> HIDE DEF T
  <2>2. T = Pushed(S, n, b)
    BY DEF T
  <2> QED
    BY <1>3, <2>1, <2>2, PushedIs
<1>5. n + 1 \in DOMAIN T /\ \A i \in DOMAIN T : i = n + 1 \/ i \in 1 .. n
  BY <1>3, <1>4
<1> HIDE DEF T
<1>6. V = {x \in Phys \X Spare : \A i \in DOMAIN T : x[2] \notin Places(T[i])}
  <2>1. \A i \in DOMAIN T : (n + 1 + 1) .. i = {}
    BY <1>3, <1>4
  <2> QED
    BY <2>1 DEF Waiting
<1>7. \A r \in Places(c) : \A p \in Phys : <<p, r>> \notin V
  BY <1>4, <1>5, <1>6 DEF Alike
<1>8. d \in Docs /\ Sound(d) /\ Fits(d, Waiting(S, n), Made(S), Growing(S))
  BY <1>1 DEF Good
<1>9. d \in Good(V, K, N)
  <2>1. ASSUME NEW p \in Phys, NEW r \in Range(d.levels[p]), d.strip[p] = None
        PROVE  <<p, r>> \in V
    <3>1. <<p, r>> \in Waiting(S, n)
      BY <1>8, <2>1 DEF Fits
    <3>2. r \in Spare
      BY <3>1 DEF Waiting
    <3>3. r \notin Places(b)
      <4>1. d.phys[r] = p
        BY <1>8 DEF Sound
      <4>2. ParentStrip(d, r) = None
        BY <2>1, <4>1 DEF ParentStrip
      <4> QED
        BY <3>2, <4>2 DEF Given, Alike
    <3>4. \A i \in 1 .. n : r \notin Places(S[i])
      <4>1. \A i \in 1 .. n : (n + 1) .. i = {} /\ i \in DOMAIN S
        BY <1>3, <1>4
      <4> QED
        BY <3>1, <4>1 DEF Waiting
    <3> QED
      BY <1>4, <1>5, <1>6, <3>2, <3>3, <3>4
  <2>2. \A x \in K : Range(d.levels[x[1]]) \subseteq {x[2]}
    BY <1>4, <1>8 DEF Fits
  <2>3. \A p \in N : d.strip[p] # None
    BY <1>4, <1>8 DEF Fits, Given
  <2> QED
    BY <1>8, <2>1, <2>2, <2>3 DEF Good, Fits
<1>10. Apart(T)
  BY <1>1, <1>4 DEF Apart, Given
<1>11. Keeps(K, N)
  BY <1>1, <1>2, <1>4, <1>10 DEF Keeps, Apart
<1>12. Redo1(d, c) \in Good(V, K, N)
  <2> HIDE DEF V, K, N
  <2> QED
    BY <1>4, <1>7, <1>9, <1>11, RedoGood
<1>13. InTurn(T)
  <2>1. ASSUME NEW i \in DOMAIN T, NEW j \in DOMAIN T, i < j, NEW x \in MadeBy(T[j])
        PROVE  x[2] \notin Places(T[i])
    <3>1. j \in 1 .. n
      BY <1>3, <1>4, <1>5, <2>1
    <3>2. i \in 1 .. n
      BY <1>3, <1>4, <2>1, <3>1
    <3> QED
      BY <1>1, <1>4, <2>1, <3>1, <3>2 DEF InTurn
  <2> QED
    BY <2>1 DEF InTurn
<1> QED
  BY <1>10, <1>12, <1>13 DEF T

\* AddSpareTerminalsCommand::redo() for the first time.
LEMMA SpareStands ==
    ASSUME NEW S \in Seq(Commands), Held = HeldOf(S), NEW n \in 0 .. Len(S), NEW d,
           Standing(d, S, n), NEW s \in Strips, NEW at \in Int, NEW r \in Spare,
           Nowhere(d, r), FreePhys(d) # {}, \A i \in DOMAIN S : r \notin Places(S[i])
    PROVE  LET c == [name |-> "Spares", strip |-> s, at |-> at, real |-> r, phys |-> None]
               b == [c EXCEPT !.phys = FreshPhys(d)]
               T == Pushed(S, n, b)
           IN  /\ b \in Commands /\ Kept(Redo1(d, c), c) = b
               /\ Redo1(d, c) \in Good(Waiting(T, n + 1), Made(T), Growing(T))
               /\ InTurn(T) /\ Apart(T)
<1> DEFINE c == [name |-> "Spares", strip |-> s, at |-> at, real |-> r, phys |-> None]
           p == FreshPhys(d)
           b == [c EXCEPT !.phys = p]
           T == Pushed(S, n, b)
           V == Waiting(T, n + 1)
           x == <<p, r>>
           ps == <<p>>
           K == Made(T)
           N == Growing(T)
           L == Made(S) \cap K
           e == MakeSpare(d, r)
<1>1. /\ Keeps(Made(S), Growing(S)) /\ d \in Good(Waiting(S, n), Made(S), Growing(S))
      /\ InTurn(S) /\ Apart(S) /\ Growing(S) \subseteq Held
  BY StackIs DEF Standing
<1>2. p \in FreePhys(d)
  BY FreshIs
<1>3. p \in Phys /\ p \notin Held
  BY <1>2 DEF FreePhys
<1> HIDE DEF p
<1>4. b = [name |-> "Spares", strip |-> s, at |-> at, real |-> r, phys |-> p]
  OBVIOUS
<1>5. b \in SpareAdds /\ b \in Commands
  BY <1>3, <1>4 DEF SpareAdds, Commands
<1>6. MadeBy(b) = {x} /\ GrownBy(b) = {} /\ Places(b) = {r}
  BY <1>4 DEF MadeBy, GrownBy, Places, RealsIn
<1> HIDE DEF b
<1>7. n \in Nat
  OBVIOUS
<1>8. /\ DOMAIN T = 1 .. (n + 1) /\ T[n + 1] = b
      /\ \A i \in 1 .. n : T[i] = S[i] /\ i \in DOMAIN S
      /\ K \subseteq Made(S) \cup {x} /\ x \in K /\ N \subseteq Growing(S)
  <2> HIDE DEF T
  <2>1. T = Pushed(S, n, b)
    BY DEF T
  <2> QED
    BY <1>5, <1>6, <2>1, PushedIs
<1>9. n + 1 \in DOMAIN T /\ \A i \in DOMAIN T : i = n + 1 \/ i \in 1 .. n
  BY <1>7, <1>8
<1> HIDE DEF T
<1>10. V = {y \in Phys \X Spare : \A i \in DOMAIN T : y[2] \notin Places(T[i])}
  <2>1. \A i \in DOMAIN T : (n + 1 + 1) .. i = {}
    BY <1>7, <1>8
  <2> QED
    BY <2>1 DEF Waiting
<1>11. d \in Docs /\ Sound(d)
  BY <1>1 DEF Good
<1>12. d \in Good(V, L, N)
  <2>1. ASSUME NEW q \in Phys, NEW y \in Range(d.levels[q]), <<q, y>> \in Waiting(S, n)
        PROVE  <<q, y>> \in V
    <3>1. y \in Spare /\ y # r
      BY <2>1 DEF Waiting, Nowhere
    <3>2. \A i \in 1 .. n : y \notin Places(S[i])
      <4>1. \A i \in 1 .. n : (n + 1) .. i = {} /\ i \in DOMAIN S
        BY <1>7, <1>8
      <4> QED
        BY <2>1, <4>1 DEF Waiting
    <3> QED
      BY <1>6, <1>8, <1>9, <1>10, <3>1, <3>2
  <2>2. L \in SUBSET Made(S) /\ N \in SUBSET Growing(S)
    BY <1>8
  <2> HIDE DEF V, L, N
  <2> QED
    BY <1>1, <2>1, <2>2, GoodWeaker
<1>13. Keeps(L, N) /\ N \subseteq Held /\ N \subseteq Phys
  BY <1>1, <1>8 DEF Keeps
<1>14. e.phys[r] = p /\ e \in Good(V \cup {x}, L \cup {x}, N)
  <2> HIDE DEF V, L, N, e, x
  <2> QED
    BY <1>12, <1>13, MakeSpareGood DEF p, x, e
<1>15. L \cup {x} = K
  BY <1>8
<1>16. ps \in Plains(Phys) /\ Range(ps) = {p}
  BY <1>3 DEF Plains, IsInjective, Range
<1>17. Redo1(d, c) = InsertTerminals(e, s, at, ps)
  <2>1. c.phys = None /\ c.name = "Spares" /\ c.real = r /\ c.strip = s /\ c.at = at
    OBVIOUS
  <2> HIDE DEF c
  <2>2. Redo1(d, c) = AddSpare(d, c)
    BY <2>1 DEF Redo1
  <2> QED
    BY <1>14, <2>1, <2>2 DEF AddSpare
<1> DEFINE f == InsertTerminals(e, s, at, ps)
<1>18. f \in Good(V, K, N) /\ f.phys[r] = p
  <2> HIDE DEF V, N, K, e, ps
  <2>1. e \in Good(Outside(ps, V), K, N \ Range(ps))
    <3>1. \A q \in Phys : \A y \in Range(e.levels[q]) :
              e.strip[q] = None /\ <<q, y>> \in V \cup {x} => <<q, y>> \in Outside(ps, V)
      BY <1>16 DEF Outside, Reals
    <3>2. K \in SUBSET K /\ N \ Range(ps) \in SUBSET N
      OBVIOUS
    <3> HIDE DEF x
    <3>3. e \in Good(V \cup {x}, K, N)
      BY <1>14, <1>15
    <3> QED
      BY <3>1, <3>2, <3>3, GoodWeaker
  <2>2. f \in Good(V, K, N)
    BY <1>13, <1>16, <2>1, InsertTerminalsGood
  <2>3. e \in Docs
    BY <1>14 DEF Good
  <2>4. f.phys = e.phys
    BY <2>3 DEF InsertTerminals, Docs
  <2> QED
    BY <1>14, <2>2, <2>4
<1>19. Kept(Redo1(d, c), c) = b
  <2>1. c.phys = None /\ c.name = "Spares" /\ c.real = r
    OBVIOUS
  <2> HIDE DEF c, f
  <2>2. Redo1(d, c) = f
    BY <1>17 DEF f
  <2>3. Kept(f, c) = [c EXCEPT !.phys = f.phys[c.real]]
    BY <2>1 DEF Kept
  <2> QED
    BY <1>18, <2>1, <2>2, <2>3 DEF b
<1>20. InTurn(T)
  <2>1. ASSUME NEW i \in DOMAIN T, NEW j \in DOMAIN T, i < j, NEW y \in MadeBy(T[j])
        PROVE  y[2] \notin Places(T[i])
    <3>1. i \in 1 .. n
      BY <1>7, <1>8, <1>9, <2>1
    <3>2. CASE j \in 1 .. n
      BY <1>1, <1>8, <2>1, <3>1, <3>2 DEF InTurn
    <3>3. CASE j = n + 1
      <4>1. y = x
        BY <1>6, <1>8, <2>1, <3>3
      <4> QED
        BY <1>8, <3>1, <4>1
    <3> QED
      BY <1>9, <3>2, <3>3
  <2> QED
    BY <2>1 DEF InTurn
<1>21. Apart(T)
  <2>1. x[1] \notin Held
    BY <1>3
  <2> QED
    BY <1>1, <1>8, <2>1 DEF Apart
<1> QED
  BY <1>5, <1>17, <1>18, <1>19, <1>20, <1>21 DEF T, b, p, f

----------------------------------------------------------------------------
(****************************************************************************)
(* What nothing refers to is gone.                                          *)
(****************************************************************************)

\* The physical terminals that a strip has or a command of the stack holds.
Reach(d, entries) == HeldIn(entries) \cup UNION {Range(d.order[s]) : s \in Strips}

\* A spare that is free to be made is in none of them.
LEMMA UnmadeIs ==
    ASSUME NEW d, NEW entries
    PROVE  Unmade(d, entries) =
               {r \in Spare : /\ \A e \in entries : r \notin RealsIn(e.cmd)
                              /\ \A p \in Reach(d, entries) \cap Phys : r \notin Range(d.levels[p])}
BY DEF Unmade, Reach

\* What is gone is in no strip and in no command.
LEMMA CollectedGood ==
    ASSUME NEW W, NEW K \in SUBSET (Phys \X Spare), NEW N \in SUBSET Phys,
           NEW d \in Good(W, K, N), NEW entries, N \subseteq HeldIn(entries)
    PROVE  /\ Collected(d, entries) \in Good(W, K, N)
           /\ \A r \in Unmade(Collected(d, entries), entries) :
                  Nowhere(Collected(d, entries), r)
<1> DEFINE unmade == Unmade(d, entries)
           owner == [r \in Reals |-> IF r \in unmade THEN None ELSE d.phys[r]]
           held == HeldIn(entries) \cup Live([d EXCEPT !.phys = owner])
           gone == {p \in Phys : p \notin held}
           levels == [p \in Phys |-> IF p \in gone THEN << >>
                                     ELSE Selected(d.levels[p], Reals \ unmade)]
           strip == [p \in Phys |-> IF p \in gone THEN None ELSE d.strip[p]]
           phys == [r \in Reals |-> IF \E p \in gone : r \in Range(d.levels[p])
                                    THEN None ELSE owner[r]]
           home == [b \in Bridges |-> IF d.on[b] = {} /\ b \notin held
                                      THEN None ELSE d.home[b]]
           e == [d EXCEPT !.levels = levels, !.strip = strip, !.phys = phys, !.home = home]
<1>1. d \in Docs /\ Sound(d) /\ Fits(d, W, K, N)
  BY DEF Good
<1>2. Collected(d, entries) = e
  BY DEF Collected
<1>3. /\ d.order \in [Strips -> Seq(Phys)] /\ d.levels \in [Phys -> Seq(Reals)]
      /\ d.strip \in [Phys -> Strips \cup {None}] /\ d.phys \in [Reals -> Phys \cup {None}]
      /\ d.on \in [Bridges -> SUBSET Reals] /\ d.home \in [Bridges -> Strips \cup {None}]
  BY <1>1, DocParts
<1>4. unmade \subseteq Spare
  BY DEF Unmade
<1>5. \A r \in Reals : owner[r] = IF r \in unmade THEN None ELSE d.phys[r]
  OBVIOUS
<1>6. \A p \in gone : p \in Phys /\ p \notin N /\ \A s \in Strips : p \notin Range(d.order[s])
  <2>1. [d EXCEPT !.phys = owner].order = d.order
    BY <1>1 DEF Docs
  <2> QED
    BY <2>1 DEF Live
<1> HIDE DEF unmade, owner, gone
<1>7. \A p \in Phys : LET q == Selected(d.levels[p], Reals \ unmade)
                      IN  q \in Seq(Reals) /\ IsInjective(q)
                          /\ Range(q) = Range(d.levels[p]) \ unmade
  <2> TAKE p \in Phys
  <2>1. d.levels[p] \in Seq(Reals) /\ IsInjective(d.levels[p])
    BY <1>1, <1>3 DEF Sound
  <2>2. Range(d.levels[p]) \cap (Reals \ unmade) = Range(d.levels[p]) \ unmade
    BY <2>1, RangeOf
  <2> QED
    BY <2>1, <2>2, SelectedIs
<1>8. \A p \in Phys : /\ levels[p] \in Seq(Reals) /\ IsInjective(levels[p])
                      /\ Range(levels[p]) \subseteq Range(d.levels[p]) \ unmade
                      /\ p \in gone => Range(levels[p]) = {}
                      /\ p \notin gone => Range(levels[p]) = Range(d.levels[p]) \ unmade
  <2>1. << >> \in Seq(Reals) /\ IsInjective(<< >>) /\ Range(<< >>) = {}
    BY DEF IsInjective, Range
  <2> QED
    BY <1>7, <2>1
<1>9. levels \in [Phys -> Seq(Reals)]
  BY <1>8
<1>10. strip \in [Phys -> Strips \cup {None}]
  BY <1>3
<1>11. phys \in [Reals -> Phys \cup {None}]
  BY <1>3, <1>5
<1>12. home \in [Bridges -> Strips \cup {None}]
  BY <1>3
<1>13. /\ \A p \in Phys : strip[p] = IF p \in gone THEN None ELSE d.strip[p]
       /\ \A r \in Reals : phys[r] = IF \E p \in gone : r \in Range(d.levels[p])
                                     THEN None ELSE owner[r]
  OBVIOUS
<1> HIDE DEF levels, strip, phys, home
<1>14. /\ e \in Docs /\ e.order = d.order /\ e.levels = levels /\ e.strip = strip
       /\ e.phys = phys
  BY <1>1, <1>9, <1>10, <1>11, <1>12 DEF Docs
<1> HIDE DEF e
<1>15. Sound(e)
  <2>1. ASSUME NEW s \in Strips, NEW p \in Range(e.order[s]) PROVE e.strip[p] = s
    <3>1. p \in Range(d.order[s]) /\ p \in Phys
      BY <1>3, <1>14, RangeOf
    <3>2. p \notin gone
      BY <1>6, <3>1
    <3> QED
      BY <1>1, <1>13, <1>14, <3>1, <3>2 DEF Sound
  <2>2. ASSUME NEW p \in Phys, NEW r \in Range(e.levels[p]) PROVE e.phys[r] = p
    <3>1. r \in Range(d.levels[p]) /\ r \notin unmade /\ p \notin gone
      BY <1>8, <1>14
    <3>2. r \in Reals
      BY <1>3, <3>1, RangeOf
    <3>3. d.phys[r] = p
      BY <1>1, <3>1 DEF Sound
    <3>4. ~ \E q \in gone : r \in Range(d.levels[q])
      BY <1>1, <1>6, <3>1, <3>3 DEF Sound
    <3> QED
      BY <1>5, <1>13, <1>14, <3>1, <3>2, <3>3, <3>4
  <2> QED
    BY <1>1, <1>8, <1>14, <2>1, <2>2 DEF Sound
<1>16. Fits(e, W, K, N)
  <2>1. ASSUME NEW p \in Phys, NEW r \in Range(e.levels[p]), e.strip[p] = None
        PROVE  <<p, r>> \in W
    <3>1. r \in Range(d.levels[p]) /\ p \notin gone
      BY <1>8, <1>14, <2>1
    <3> QED
      BY <1>1, <1>13, <1>14, <2>1, <3>1 DEF Fits
  <2>2. \A x \in K : Range(e.levels[x[1]]) \subseteq {x[2]}
    <3>1. \A x \in K : x[1] \in Phys
      OBVIOUS
    <3> QED
      BY <1>1, <1>8, <1>14, <3>1 DEF Fits
  <2>3. \A p \in N : e.strip[p] # None
    BY <1>1, <1>6, <1>13, <1>14 DEF Fits
  <2> QED
    BY <2>1, <2>2, <2>3 DEF Fits
<1>17. \A r \in Unmade(e, entries) : Nowhere(e, r)
  <2> SUFFICES ASSUME NEW r \in Unmade(e, entries), NEW p \in Phys, r \in Range(e.levels[p])
               PROVE  FALSE
    BY DEF Nowhere
  <2> DEFINE reach == Reach(d, entries)
  <2>0. Reach(e, entries) = reach
    BY <1>14 DEF Reach
  <2> HIDE DEF reach
  <2>1. /\ r \in Spare /\ \A f \in entries : r \notin RealsIn(f.cmd)
        /\ \A q \in reach \cap Phys : r \notin Range(e.levels[q])
    BY <2>0, UnmadeIs
  <2>2. r \in Range(d.levels[p]) /\ r \notin unmade /\ p \notin gone
    BY <1>8, <1>14
  <2>3. PICK q \in reach \cap Phys : r \in Range(d.levels[q])
    BY <2>1, <2>2, UnmadeIs DEF unmade, reach
  <2>4. p = q
    BY <1>1, <2>2, <2>3 DEF Sound
  <2> QED
    BY <2>1, <2>3, <2>4
<1> QED
  BY <1>2, <1>14, <1>15, <1>16, <1>17 DEF Good

----------------------------------------------------------------------------
(****************************************************************************)
(* The state: the two lists of the stack, and what they look like.          *)
(****************************************************************************)

\* What a document looks like, an entry of the stack, and the stack.
Views == [listed : SUBSET Strips, strips : [Strips -> Seq(Seq(Reals))],
          bridges : [Strips -> SUBSET SUBSET Reals]]

Logged == [cmd : Commands, before : Views, after : Views]

Stack == StackOf(done, undone)

\* A document looks like one of the views.
LEMMA ViewIs ==
    ASSUME NEW d \in Docs
    PROVE  View(d) \in Views
<1> DEFINE strips == [s \in Strips |-> [i \in DOMAIN d.order[s] |-> d.levels[d.order[s][i]]]]
           bridges == [s \in Strips |-> {d.on[b] : b \in {x \in Bridges : d.home[x] = s}} \ {{}}]
<1>1. /\ d.listed \in SUBSET Strips /\ d.order \in [Strips -> Seq(Phys)]
      /\ d.levels \in [Phys -> Seq(Reals)] /\ d.on \in [Bridges -> SUBSET Reals]
  BY DocParts
<1>2. strips \in [Strips -> Seq(Seq(Reals))]
  <2>1. ASSUME NEW s \in Strips
        PROVE  [i \in DOMAIN d.order[s] |-> d.levels[d.order[s][i]]] \in Seq(Seq(Reals))
    <3>1. /\ Len(d.order[s]) \in Nat /\ DOMAIN d.order[s] = 1 .. Len(d.order[s])
          /\ \A i \in 1 .. Len(d.order[s]) : d.order[s][i] \in Phys
      BY <1>1
    <3>2. \A i \in 1 .. Len(d.order[s]) : d.levels[d.order[s][i]] \in Seq(Reals)
      BY <1>1, <3>1
    <3> QED
      BY <3>1, <3>2
  <2> QED
    BY <2>1
<1>3. bridges \in [Strips -> SUBSET SUBSET Reals]
  <2>1. ASSUME NEW s \in Strips
        PROVE  {d.on[b] : b \in {x \in Bridges : d.home[x] = s}} \ {{}} \in SUBSET SUBSET Reals
    BY <1>1
  <2> QED
    BY <2>1
<1>4. View(d) = [listed |-> d.listed, strips |-> strips, bridges |-> bridges]
  BY DEF View
<1> HIDE DEF strips, bridges
<1> QED
  BY <1>1, <1>2, <1>3, <1>4 DEF Views

\* The stack has the commands of the two lists it is kept in, in that order.
LEMMA StackOfIs ==
    ASSUME NEW a \in Seq(Logged), NEW b \in Seq(Logged)
    PROVE  /\ StackOf(a, b) \in Seq(Commands)
           /\ Len(StackOf(a, b)) = Len(a) + Len(b)
           /\ \A i \in 1 .. Len(a) : StackOf(a, b)[i] = a[i].cmd
           /\ \A i \in 1 .. Len(b) : StackOf(a, b)[Len(a) + i] = b[i].cmd
           /\ \A i \in DOMAIN StackOf(a, b) :
                  \E e \in Range(a) \cup Range(b) : StackOf(a, b)[i] = e.cmd
           /\ \A e \in Range(a) \cup Range(b) :
                  \E i \in DOMAIN StackOf(a, b) : StackOf(a, b)[i] = e.cmd
           /\ HeldIn(Range(a) \cup Range(b)) = HeldOf(StackOf(a, b))
<1> DEFINE S == StackOf(a, b)
           k == Len(a)
           l == Len(b)
<1>1. /\ k \in Nat /\ l \in Nat
      /\ \A i \in 1 .. k : a[i] \in Logged /\ a[i] \in Range(a)
      /\ \A i \in 1 .. l : b[i] \in Logged /\ b[i] \in Range(b)
      /\ \A e \in Range(a) : \E i \in 1 .. k : e = a[i]
      /\ \A e \in Range(b) : \E i \in 1 .. l : e = b[i]
  BY RangeOf
<1>2. \A e \in Logged : e.cmd \in Commands
  BY DEF Logged
<1>3. /\ DOMAIN S = 1 .. (k + l)
      /\ S = [i \in 1 .. (k + l) |-> IF i <= k THEN a[i].cmd ELSE b[i - k].cmd]
  BY DEF StackOf
<1> HIDE DEF S, k, l
<1>4. \A i \in 1 .. k : i \in DOMAIN S /\ S[i] = a[i].cmd
  BY <1>1, <1>3
<1>5. \A i \in 1 .. l : k + i \in DOMAIN S /\ S[k + i] = b[i].cmd
  <2>1. \A i \in 1 .. l : k + i \in 1 .. (k + l) /\ ~ (k + i <= k) /\ (k + i) - k = i
    BY <1>1
  <2> QED
    BY <1>3, <2>1
<1>6. \A i \in DOMAIN S : i \in 1 .. k \/ (i - k \in 1 .. l /\ i = k + (i - k))
  BY <1>1, <1>3
<1>7. \A i \in DOMAIN S : \E e \in Range(a) \cup Range(b) : S[i] = e.cmd /\ e \in Logged
  <2> SUFFICES ASSUME NEW i \in DOMAIN S
               PROVE  \E e \in Range(a) \cup Range(b) : S[i] = e.cmd /\ e \in Logged
    OBVIOUS
  <2>1. CASE i \in 1 .. k
    BY <1>1, <1>4, <2>1
  <2>2. CASE i - k \in 1 .. l /\ i = k + (i - k)
    <3> DEFINE j == i - k
    <3>1. j \in 1 .. l /\ S[i] = S[k + j]
      BY <2>2
    <3> HIDE DEF j
    <3> QED
      BY <1>1, <1>5, <3>1
  <2> QED
    BY <1>6, <2>1, <2>2
<1>8. \A e \in Range(a) \cup Range(b) : \E i \in DOMAIN S : S[i] = e.cmd
  BY <1>1, <1>4, <1>5
<1>9. S \in Seq(Commands) /\ Len(S) = k + l
  <2>1. \A i \in 1 .. (k + l) : S[i] \in Commands
    BY <1>2, <1>3, <1>7
  <2>2. k + l \in Nat /\ S \in [1 .. (k + l) -> Commands]
    BY <1>1, <1>3, <2>1
  <2> QED
    BY <2>2
<1>10. HeldIn(Range(a) \cup Range(b)) = HeldOf(S)
  BY <1>7, <1>8 DEF HeldIn, HeldOf
<1> QED
  BY <1>4, <1>5, <1>7, <1>8, <1>9, <1>10 DEF S, k, l

\* What a stack of commands is alike with stands alike.
LEMMA AlikeStands ==
    ASSUME NEW S \in Seq(Commands), NEW T \in Seq(Commands), Len(T) = Len(S),
           \A i \in DOMAIN S : Alike(T[i], S[i]),
           NEW d, NEW n \in Nat, d \in Good(Waiting(S, n), Made(S), Growing(S)), InTurn(S), Apart(S)
    PROVE  Standing(d, T, n)
<1>1. DOMAIN T = DOMAIN S
  OBVIOUS
<1>2. \A i \in DOMAIN S : /\ MadeBy(T[i]) = MadeBy(S[i]) /\ GrownBy(T[i]) = GrownBy(S[i])
                          /\ Places(T[i]) = Places(S[i])
  BY DEF Alike
<1>3. Made(T) = Made(S) /\ Growing(T) = Growing(S)
  BY <1>1, <1>2 DEF Made, Growing
<1>4. Waiting(T, n) = Waiting(S, n)
  <2>1. \A i \in DOMAIN S : \A j \in (n + 1) .. i : j \in DOMAIN S
    OBVIOUS
  <2> QED
    BY <1>1, <1>2, <2>1 DEF Waiting
<1>5. InTurn(T) /\ Apart(T)
  BY <1>1, <1>2, <1>3 DEF InTurn, Apart
<1> QED
  BY <1>3, <1>4, <1>5 DEF Standing

\* The command after a redo() that kept what it made.
LEMMA KeptAlike ==
    ASSUME NEW c \in Commands, NEW d
    PROVE  Alike(Kept(d, c), c) /\ Kept(d, c).name = c.name
<1>1. CASE c.name = "Bridge" /\ c.bridge = None
  <2> DEFINE x == BridgeOf(d, c.strip, CHOOSE r \in c.reals : TRUE)
             b == [c EXCEPT !.bridge = x]
  <2>1. x \in Bridges \cup {None}
    BY BridgeOfIs
  <2>2. c \in Bridgings
    BY <1>1 DEF Commands, Adds, Removes, Moves, SpareAdds, Levelings, Sorts, Groups, Ungroups,
                StripAdds
  <2>3. Kept(d, c) = b
    BY <1>1 DEF Kept
  <2> HIDE DEF x
  <2>4. b \in Bridgings /\ b.name = "Bridge"
    BY <1>1, <2>1, <2>2 DEF Bridgings
  <2>5. b \in Commands
    BY <2>4 DEF Commands
  <2> HIDE DEF b
  <2> QED
    BY <1>1, <2>3, <2>4, <2>5 DEF Alike, GrownBy, MadeBy, Places
<1>2. CASE ~ (c.name = "Bridge" /\ c.bridge = None)
  <2>1. ~ (c.name = "Spares" /\ c.phys = None)
    <3>1. SUFFICES ASSUME c.name = "Spares" PROVE c.phys # None
      OBVIOUS
    <3>2. c \in SpareAdds
      BY <3>1 DEF Commands, Adds, Removes, Moves, Bridgings, Levelings, Sorts, Groups, Ungroups,
                  StripAdds
    <3> QED
      BY <3>2, StripAssumption DEF SpareAdds
  <2>2. Kept(d, c) = c
    BY <1>2, <2>1 DEF Kept
  <2> QED
    BY <2>2 DEF Alike
<1> QED
  BY <1>1, <1>2

\* What stands still does when what nothing refers to is gone.
LEMMA CollectedStands ==
    ASSUME NEW S \in Seq(Commands), NEW d, NEW n, Standing(d, S, n), NEW entries,
           HeldOf(S) = HeldIn(entries)
    PROVE  /\ Standing(Collected(d, entries), S, n)
           /\ \A r \in Unmade(Collected(d, entries), entries) :
                  Nowhere(Collected(d, entries), r)
<1> DEFINE W == Waiting(S, n)
           K == Made(S)
           N == Growing(S)
<1>1. K \in SUBSET (Phys \X Spare) /\ N \in SUBSET Phys /\ N \subseteq HeldIn(entries)
  BY StackIs
<1>2. d \in Good(W, K, N) /\ InTurn(S) /\ Apart(S)
  BY DEF Standing
<1> HIDE DEF W, K, N
<1>3. /\ Collected(d, entries) \in Good(W, K, N)
      /\ \A r \in Unmade(Collected(d, entries), entries) :
            Nowhere(Collected(d, entries), r)
  BY <1>1, <1>2, CollectedGood
<1> QED
  BY <1>2, <1>3 DEF Standing, W, K, N

----------------------------------------------------------------------------
(****************************************************************************)
(* The inductive invariant, and what pushes, undoes and redoes.             *)
(****************************************************************************)

\* The document and the entries of the stack are what they should be,
Types == doc \in Docs /\ done \in Seq(Logged) /\ undone \in Seq(Logged)

\* the stack has only commands of the kinds the user gives,
OnlyGiven == \A e \in Entries : e.cmd.name \in habit.names

\* a spare that is free to be made is in no physical terminal,
SparesNowhere == \A r \in UnusedSpare : Nowhere(doc, r)

\* and the document fits the commands of the stack.
Ready == Standing(doc, Stack, Len(done))

\* The inductive invariant behind OnePlace.
StripInv == Types /\ OnlyGiven /\ SparesNowhere /\ Ready

\* What a step does to the stack and the document is enough.
LEMMA StepKeeps ==
    ASSUME StripInv, NEW d, done' \in Seq(Logged), undone' \in Seq(Logged), habit' = habit,
           \A e \in Range(done') \cup Range(undone') : e.cmd.name \in habit.names,
           doc' = Collected(d, Entries'), Standing(d, Stack', Len(done'))
    PROVE  StripInv'
<1> DEFINE S == StackOf(done', undone')
           E == Range(done') \cup Range(undone')
           n == Len(done')
<1>1. Entries' = E /\ Stack' = S
  BY DEF Entries, Stack
<1>2. S \in Seq(Commands) /\ HeldIn(E) = HeldOf(S)
  BY StackOfIs
<1>3. Standing(d, S, n) /\ doc' = Collected(d, E)
  BY <1>1
<1> HIDE DEF S, E, n
<1>4. Standing(doc', S, n) /\ \A r \in Unmade(doc', E) : Nowhere(doc', r)
  BY <1>2, <1>3, CollectedStands
<1>5. doc' \in Docs
  BY <1>4 DEF Standing, Good
<1>6. UnusedSpare' = Unmade(doc', E)
  BY <1>1 DEF UnusedSpare
<1>7. Types' /\ Ready' /\ SparesNowhere'
  BY <1>1, <1>4, <1>5, <1>6 DEF Types, Ready, SparesNowhere, n
<1>8. OnlyGiven'
  BY <1>1 DEF OnlyGiven, E
<1> QED
  BY <1>7, <1>8 DEF StripInv

\* The stack as it is, from the two lists it is kept in.
StackIsOf(S, a, b) ==
    /\ S \in Seq(Commands) /\ Len(S) = Len(a) + Len(b)
    /\ \A i \in 1 .. Len(a) : S[i] = a[i].cmd
    /\ \A i \in 1 .. Len(b) : S[Len(a) + i] = b[i].cmd

\* The stack as it is, and what its commands hold.
LEMMA StackNow ==
    ASSUME done \in Seq(Logged), undone \in Seq(Logged)
    PROVE  StackIsOf(Stack, done, undone) /\ Held = HeldOf(Stack)
<1>1. HeldIn(Range(done) \cup Range(undone)) = Held
  BY DEF Held, Entries
<1>2. /\ StackIsOf(StackOf(done, undone), done, undone)
      /\ HeldIn(Range(done) \cup Range(undone)) = HeldOf(StackOf(done, undone))
  BY StackOfIs DEF StackIsOf
<1> QED
  BY <1>1, <1>2 DEF Stack

\* The stack as it is after a step, and where its commands come from.
LEMMA StackThen ==
    ASSUME done' \in Seq(Logged), undone' \in Seq(Logged)
    PROVE  /\ StackIsOf(Stack', done', undone')
           /\ \A e \in Range(done') \cup Range(undone') :
                  \E i \in DOMAIN Stack' : Stack'[i] = e.cmd
<1>1. Stack' = StackOf(done', undone')
  BY DEF Stack
<1>2. StackIsOf(StackOf(done', undone'), done', undone')
  BY StackOfIs DEF StackIsOf
<1>3. \A e \in Range(done') \cup Range(undone') :
          \E i \in DOMAIN StackOf(done', undone') : StackOf(done', undone')[i] = e.cmd
  BY StackOfIs
<1> QED
  BY <1>1, <1>2, <1>3

\* QUndoStack::push() keeps the invariant where the pushed stack stands.
LEMMA PushKeeps ==
    ASSUME StripInv, NEW c, NEW b \in Commands, b = Kept(Redo1(doc, c), c),
           b.name \in habit.names,
           Standing(Redo1(doc, c), Pushed(Stack, Len(done), b), Len(done) + 1), Push(c)
    PROVE  StripInv'
<1> DEFINE d == Redo1(doc, c)
           entry == [cmd |-> b, before |-> View(doc), after |-> View(d)]
           n == Len(done)
<1>1. doc \in Docs /\ done \in Seq(Logged) /\ undone \in Seq(Logged) /\ OnlyGiven
  BY DEF StripInv, Types
<1>2. d \in Docs
  BY DEF Standing, Good
<1>3. /\ done' = Append(done, entry) /\ undone' = << >> /\ habit' = habit
      /\ doc' = Collected(d, Range(done'))
  BY DEF Push
<1> HIDE DEF d
<1>4. entry \in Logged /\ entry.cmd = b
  BY <1>1, <1>2, ViewIs DEF Logged
<1> HIDE DEF entry
<1>5. /\ done' \in Seq(Logged) /\ undone' \in Seq(Logged) /\ Len(done') = n + 1 /\ n \in Nat
      /\ Range(done') = Range(done) \cup {entry} /\ Range(undone') = {}
      /\ done'[n + 1] = entry /\ \A i \in 1 .. n : done'[i] = done[i]
      /\ Len(undone') = 0
  <2>1. Range(<< >>) = {}
    BY DEF Range
  <2> QED
    BY <1>1, <1>3, <1>4, <2>1, Appended
<1>6. Entries' = Range(done')
  BY <1>5 DEF Entries
<1>7. \A e \in Range(done') \cup Range(undone') : e.cmd.name \in habit.names
  BY <1>1, <1>4, <1>5 DEF OnlyGiven, Entries
<1>8. Stack' = Pushed(Stack, n, b)
  <2> DEFINE S == Stack
             T == Stack'
             P == Pushed(S, n, b)
  <2>1. /\ S \in Seq(Commands) /\ Len(S) = n + Len(undone) /\ n \in 0 .. Len(S)
        /\ \A i \in 1 .. n : S[i] = done[i].cmd
    BY <1>1, StackNow DEF StackIsOf
  <2>2. /\ T \in Seq(Commands) /\ Len(T) = n + 1
        /\ \A i \in 1 .. (n + 1) : T[i] = done'[i].cmd
    <3>1. StackIsOf(Stack', done', undone')
      BY <1>5, StackThen
    <3> QED
      BY <1>5, <3>1 DEF StackIsOf
  <2> HIDE DEF S, T, n
  <2> HIDE DEF P
  <2>0. P = Pushed(S, n, b)
    BY DEF P
  <2>3. /\ P \in Seq(Commands) /\ DOMAIN P = 1 .. (n + 1) /\ P[n + 1] = b
        /\ \A i \in 1 .. n : P[i] = S[i]
    <3>1. S \in Seq(Commands) /\ n \in 0 .. Len(S)
      BY <2>1
    <3>2. /\ Pushed(S, n, b) \in Seq(Commands)
          /\ DOMAIN Pushed(S, n, b) = 1 .. (n + 1)
          /\ \A i \in 1 .. n : Pushed(S, n, b)[i] = S[i]
          /\ Pushed(S, n, b)[n + 1] = b
      BY ONLY <3>1, b \in Commands, PushedIs
    <3> QED
      BY <2>0, <3>2
  <2>4. DOMAIN T = 1 .. (n + 1)
    BY <2>2
  <2>5. \A i \in 1 .. (n + 1) : T[i] = P[i]
    <3>1. \A i \in 1 .. (n + 1) : i \in 1 .. n \/ i = n + 1
      BY <1>5
    <3>2. n + 1 \in 1 .. (n + 1) /\ \A i \in 1 .. n : i \in 1 .. (n + 1)
      BY <1>5
    <3> QED
      BY <1>4, <1>5, <2>1, <2>2, <2>3, <3>1, <3>2
  <2>6. T = P
    BY <2>2, <2>3, <2>4, <2>5
  <2> QED
    BY <2>6 DEF T, P, S
<1>9. Standing(d, Stack', Len(done'))
  BY <1>5, <1>8 DEF d
<1> QED
  BY <1>3, <1>5, <1>6, <1>7, <1>9, StepKeeps

\* A command other than the one that adds a spare.
LEMMA GivenKeeps ==
    ASSUME StripInv, NEW c \in Commands, c \notin SpareAdds, Given(doc, Stack, c),
           c.name \in habit.names, Push(c)
    PROVE  StripInv'
<1> DEFINE b == Kept(Redo1(doc, c), c)
           S == Stack
           n == Len(done)
<1>1. Alike(b, c) /\ b.name = c.name
  BY KeptAlike
<1>2. /\ S \in Seq(Commands) /\ Held = HeldOf(S) /\ n \in 0 .. Len(S)
      /\ Standing(doc, S, n)
  <2>1. done \in Seq(Logged) /\ undone \in Seq(Logged)
    BY DEF StripInv, Types
  <2>2. StackIsOf(S, done, undone) /\ Held = HeldOf(S)
    BY <2>1, StackNow
  <2>3. Standing(doc, S, n)
    BY DEF StripInv, Ready
  <2>4. Len(done) \in Nat /\ Len(undone) \in Nat
    BY <2>1
  <2> HIDE DEF S
  <2> QED
    BY <2>2, <2>3, <2>4 DEF StackIsOf
<1> HIDE DEF b, S, n
<1>3. Standing(Redo1(doc, c), Pushed(S, n, b), n + 1)
  BY <1>1, <1>2, PushStands DEF Standing, S
<1>4. b \in Commands
  BY <1>1 DEF Alike
<1> QED
  BY <1>1, <1>3, <1>4, PushKeeps DEF b, S, n

\* QUndoStack::undo() keeps the invariant.
LEMMA UndoKeeps ==
    ASSUME StripInv, Undo
    PROVE  StripInv'
<1> DEFINE n == Len(done)
           S == Stack
           last == done[n]
           d == Undo1(doc, last.cmd)
<1>1. /\ done \in Seq(Logged) /\ undone \in Seq(Logged) /\ OnlyGiven /\ Standing(doc, S, n)
  BY DEF StripInv, Types, Ready
<1>2. /\ done # << >> /\ done' = SubSeq(done, 1, n - 1) /\ undone' = <<last>> \o undone
      /\ habit' = habit /\ doc' = Collected(d, Entries')
  BY DEF Undo, Front, Last
<1>3. n \in Nat \ {0} /\ n \in 1 .. n /\ last \in Logged /\ n \in DOMAIN done
  BY <1>1, <1>2
<1>4. /\ S \in Seq(Commands) /\ Len(S) = n + Len(undone) /\ Len(undone) \in Nat
      /\ \A i \in 1 .. n : S[i] = done[i].cmd
      /\ \A i \in 1 .. Len(undone) : S[n + i] = undone[i].cmd
      /\ Held = HeldOf(S)
  <2>1. StackIsOf(S, done, undone) /\ Held = HeldOf(S)
    BY <1>1, StackNow
  <2> HIDE DEF S
  <2> QED
    BY <1>1, <2>1 DEF StackIsOf
<1> HIDE DEF S, d
<1>5. /\ done' \in Seq(Logged) /\ Len(done') = n - 1 /\ \A i \in 1 .. (n - 1) : done'[i] = done[i]
  BY <1>1, <1>2, <1>3
<1>6. /\ undone' \in Seq(Logged) /\ Len(undone') = Len(undone) + 1 /\ undone'[1] = last
      /\ \A i \in 1 .. Len(undone) : undone'[i + 1] = undone[i]
  <2> DEFINE one == <<last>>
  <2>1. one \in Seq(Logged) /\ Len(one) = 1 /\ one[1] = last
    <3> HIDE DEF last
    <3> QED
      BY <1>3
  <2> HIDE DEF one, last
  <2>2. undone' = one \o undone
    BY <1>2 DEF one
  <2> DEFINE q == one \o undone
             m == Len(undone)
  <2>3. /\ q \in Seq(Logged) /\ Len(q) = 1 + m /\ m \in Nat
        /\ \A i \in 1 .. (1 + m) : q[i] = IF i <= 1 THEN one[i] ELSE undone[i - 1]
    <3>1. \A i \in 1 .. (Len(one) + m) : q[i] = IF i <= Len(one) THEN one[i] ELSE undone[i - Len(one)]
      BY <1>1, <2>1, ConcatProperties
    <3>2. q \in Seq(Logged) /\ Len(q) = Len(one) + m
      BY <1>1, <2>1, ConcatProperties
    <3>3. m \in Nat
      BY <1>1
    <3> HIDE DEF q, m
    <3> QED
      BY <2>1, <3>1, <3>2, <3>3
  <2> HIDE DEF q
  <2>4. 1 \in 1 .. (1 + m) /\ \A i \in 1 .. m : i + 1 \in 1 .. (1 + m) /\ ~ (i + 1 <= 1) /\ (i + 1) - 1 = i
    BY <2>3
  <2>5. q[1] = last /\ \A i \in 1 .. m : q[i + 1] = undone[i]
    <3> HIDE DEF m
    <3> QED
      BY <2>1, <2>3, <2>4
  <2> QED
    BY <2>2, <2>3, <2>5 DEF q
<1> HIDE DEF last, n
<1>7. Stack' = S
  <2> DEFINE T == Stack'
             m == Len(undone)
  <2>1. /\ T \in Seq(Commands) /\ Len(T) = (n - 1) + (m + 1)
        /\ \A i \in 1 .. (n - 1) : T[i] = done'[i].cmd
        /\ \A i \in 1 .. (m + 1) : T[(n - 1) + i] = undone'[i].cmd
    <3>1. StackIsOf(Stack', done', undone')
      BY <1>5, <1>6, StackThen
    <3> QED
      BY <1>5, <1>6, <3>1 DEF StackIsOf
  <2> HIDE DEF T, m
  <2>2. m \in Nat /\ n \in Nat /\ Len(T) = n + m
    BY <1>3, <1>4, <2>1 DEF m
  <2>3. ASSUME NEW i \in 1 .. (n + m) PROVE T[i] = S[i]
    <3>1. CASE i \in 1 .. (n - 1)
      <4>1. i \in 1 .. n
        BY <1>3, <3>1
      <4> QED
        BY <1>4, <1>5, <2>1, <3>1, <4>1
    <3>2. CASE i = n
      <4>1. 1 \in 1 .. (m + 1) /\ (n - 1) + 1 = n
        BY <2>2
      <4> QED
        BY <1>3, <1>4, <1>6, <2>1, <3>2, <4>1 DEF last
    <3>3. CASE i > n
      <4> DEFINE j == i - n
      <4>1. j \in 1 .. m /\ j + 1 \in 1 .. (m + 1) /\ (n - 1) + (j + 1) = i /\ n + j = i
        BY <2>2, <3>3
      <4> HIDE DEF j
      <4>2. T[i] = undone'[j + 1].cmd
        BY <2>1, <4>1
      <4>3. S[i] = undone[j].cmd
        BY <1>4, <4>1 DEF m
      <4> QED
        BY <1>6, <4>1, <4>2, <4>3 DEF m
    <3> QED
      BY <2>2, <3>1, <3>2, <3>3
  <2>4. T = S
    <3>1. Len(S) = n + m
      BY <1>4 DEF m
    <3> QED
      BY <1>4, <2>1, <2>2, <2>3, <3>1
  <2> QED
    BY <2>4 DEF T
<1>8. Standing(d, Stack', Len(done'))
  <2>1. n \in 1 .. Len(S) /\ S[n] = last.cmd
    BY <1>3, <1>4 DEF last
  <2>2. d \in Good(Waiting(S, n - 1), Made(S), Growing(S))
    BY <1>1, <1>4, <2>1, UndoStands DEF d
  <2> QED
    BY <1>1, <1>5, <1>7, <2>2 DEF Standing
<1>9. \A e \in Range(done') \cup Range(undone') : e.cmd.name \in habit.names
  <2>1. \A c \in Commands : (\E i \in DOMAIN S : S[i] = c) => c.name \in habit.names
    <3>1. \A i \in DOMAIN S : \E e \in Entries : S[i] = e.cmd
      BY <1>1, StackOfIs DEF Stack, Entries, S
    <3> QED
      BY <1>1, <3>1 DEF OnlyGiven
  <2>2. \A e \in Range(done') \cup Range(undone') : \E i \in DOMAIN S : S[i] = e.cmd
    BY <1>5, <1>6, <1>7, StackThen
  <2>3. \A i \in DOMAIN S : S[i] \in Commands
    BY <1>4
  <2> QED
    BY <2>1, <2>2, <2>3
<1> QED
  BY <1>2, <1>5, <1>6, <1>8, <1>9, StepKeeps

\* QUndoStack::redo() keeps the invariant: it forgets nothing.
LEMMA RedoKeeps ==
    ASSUME StripInv, Redo
    PROVE  StripInv'
<1> DEFINE n == Len(done)
           m == Len(undone)
           S == Stack
           T == Stack'
           head == undone[1]
           c == head.cmd
           d == Redo1(doc, c)
           b == Kept(d, c)
           new == [head EXCEPT !.cmd = b]
<1>1. /\ done \in Seq(Logged) /\ undone \in Seq(Logged) /\ OnlyGiven /\ Standing(doc, S, n)
  BY DEF StripInv, Types, Ready
<1>2. /\ undone # << >> /\ done' = Append(done, new) /\ undone' = Tail(undone)
      /\ habit' = habit /\ doc' = Collected(d, Entries')
  BY DEF Redo
<1>3. /\ n \in Nat /\ m \in Nat \ {0} /\ 1 \in 1 .. m /\ head \in Logged
      /\ c \in Commands
  <2>1. n \in Nat /\ m \in Nat \ {0} /\ 1 \in 1 .. m /\ head \in Logged
    BY <1>1, <1>2
  <2> QED
    BY <2>1 DEF Logged
<1>4. /\ S \in Seq(Commands) /\ Len(S) = n + m /\ Held = HeldOf(S)
      /\ \A i \in 1 .. n : S[i] = done[i].cmd
      /\ \A i \in 1 .. m : S[n + i] = undone[i].cmd
  <2>1. StackIsOf(S, done, undone) /\ Held = HeldOf(S)
    BY <1>1, StackNow
  <2> HIDE DEF S
  <2> QED
    BY <1>1, <2>1 DEF StackIsOf
<1> HIDE DEF S, T, d, b
<1>5. Alike(b, c) /\ b.name = c.name /\ b \in Commands
  <2>1. Alike(b, c) /\ b.name = c.name
    BY <1>3, KeptAlike DEF b
  <2> QED
    BY <2>1 DEF Alike
<1>6. new \in Logged /\ new.cmd = b
  <2> HIDE DEF head
  <2> QED
    BY <1>3, <1>5 DEF Logged
<1> HIDE DEF new, c, head
<1>7. /\ done' \in Seq(Logged) /\ Len(done') = n + 1
      /\ done'[n + 1] = new /\ \A i \in 1 .. n : done'[i] = done[i]
  BY <1>1, <1>2, <1>6
<1>8. /\ undone' \in Seq(Logged) /\ Len(undone') = m - 1
      /\ \A i \in 1 .. (m - 1) : undone'[i] = undone[i + 1]
  BY <1>1, <1>2, <1>3
<1> HIDE DEF n, m
<1>9. /\ T \in Seq(Commands) /\ Len(T) = (n + 1) + (m - 1)
      /\ \A i \in 1 .. (n + 1) : T[i] = done'[i].cmd
      /\ \A i \in 1 .. (m - 1) : T[(n + 1) + i] = undone'[i].cmd
  <2>1. StackIsOf(T, done', undone')
    BY <1>7, <1>8, StackThen DEF T
  <2> QED
    BY <1>7, <1>8, <2>1 DEF StackIsOf
<1>10. S[n + 1] = c
  BY <1>3, <1>4 DEF c, head
<1>11. Len(T) = Len(S) /\ n + 1 \in DOMAIN S /\ DOMAIN S = 1 .. (n + m)
  BY <1>3, <1>4, <1>9
<1>12. ASSUME NEW i \in DOMAIN S PROVE Alike(T[i], S[i]) /\ T[i].name = S[i].name
  <2>1. i \in 1 .. (n + m) /\ S[i] \in Commands
    BY <1>4, <1>11
  <2>2. CASE i \in 1 .. n
    <3>1. i \in 1 .. (n + 1)
      BY <1>3, <2>2
    <3>2. T[i] = S[i]
      BY <1>4, <1>7, <1>9, <2>2, <3>1
    <3> QED
      BY <2>1, <3>2 DEF Alike
  <2>3. CASE i = n + 1
    <3>1. i \in 1 .. (n + 1)
      BY <1>3, <2>3
    <3>2. T[i] = b
      BY <1>6, <1>7, <1>9, <2>3, <3>1
    <3> QED
      BY <1>5, <1>10, <2>3, <3>2
  <2>4. CASE i > n + 1
    <3> DEFINE j == i - (n + 1)
    <3>1. j \in 1 .. (m - 1) /\ (n + 1) + j = i /\ j + 1 \in 1 .. m /\ n + (j + 1) = i
      BY <1>3, <2>1, <2>4
    <3> HIDE DEF j
    <3>2. T[i] = undone'[j].cmd
      BY <1>9, <3>1
    <3>3. S[i] = undone[j + 1].cmd
      BY <1>4, <3>1
    <3>4. T[i] = S[i]
      BY <1>8, <3>1, <3>2, <3>3
    <3> QED
      BY <2>1, <3>4 DEF Alike
  <2> QED
    BY <1>3, <2>1, <2>2, <2>3, <2>4
<1>13. Standing(d, T, n + 1)
  <2>1. n \in 0 .. (Len(S) - 1) /\ n + 1 \in Nat
    BY <1>3, <1>4
  <2>2. d \in Good(Waiting(S, n + 1), Made(S), Growing(S))
    BY <1>1, <1>4, <1>10, <2>1, RedoStands DEF d
  <2>3. InTurn(S) /\ Apart(S) /\ \A i \in DOMAIN S : Alike(T[i], S[i])
    BY <1>1, <1>12 DEF Standing
  <2> QED
    BY <1>4, <1>9, <1>11, <2>1, <2>2, <2>3, AlikeStands
<1>14. \A e \in Range(done') \cup Range(undone') : e.cmd.name \in habit.names
  <2>1. \A e \in Range(done') \cup Range(undone') : \E i \in DOMAIN T : T[i] = e.cmd
    BY <1>7, <1>8, StackThen DEF T
  <2>2. DOMAIN T = DOMAIN S
    BY <1>4, <1>9, <1>11
  <2>3. \A i \in DOMAIN S : \E e \in Entries : S[i] = e.cmd
    BY <1>1, StackOfIs DEF Stack, Entries, S
  <2> QED
    BY <1>1, <1>12, <2>1, <2>2, <2>3 DEF OnlyGiven
<1>15. Standing(d, Stack', Len(done'))
  BY <1>7, <1>13 DEF T
<1> QED
  BY <1>2, <1>7, <1>8, <1>14, <1>15, StepKeeps

\* What the stack is before a command is given.
LEMMA StripNow ==
    ASSUME StripInv
    PROVE  /\ doc \in Docs /\ Sound(doc) /\ Stack \in Seq(Commands) /\ Held = HeldOf(Stack)
           /\ Len(done) \in 0 .. Len(Stack) /\ Standing(doc, Stack, Len(done))
           /\ \A x \in Made(Stack) : Range(doc.levels[x[1]]) \subseteq {x[2]}
           /\ \A i \in DOMAIN Stack : \E e \in Entries : Stack[i] = e.cmd
<1>1. /\ done \in Seq(Logged) /\ undone \in Seq(Logged) /\ Standing(doc, Stack, Len(done))
      /\ doc \in Docs
  BY DEF StripInv, Types, Ready
<1>2. StackIsOf(Stack, done, undone) /\ Held = HeldOf(Stack)
  BY <1>1, StackNow
<1>3. Len(done) \in Nat /\ Len(undone) \in Nat
  BY <1>1
<1>4. \A i \in DOMAIN Stack : \E e \in Entries : Stack[i] = e.cmd
  BY <1>1, StackOfIs DEF Stack, Entries
<1>5. Sound(doc) /\ \A x \in Made(Stack) : Range(doc.levels[x[1]]) \subseteq {x[2]}
  BY <1>1 DEF Standing, Good, Fits
<1>6. Stack \in Seq(Commands) /\ Len(Stack) = Len(done) + Len(undone)
  BY <1>2 DEF StackIsOf
<1>7. Len(done) \in 0 .. Len(Stack)
  BY <1>3, <1>6
<1> QED
  BY <1>1, <1>2, <1>4, <1>5, <1>6, <1>7

----------------------------------------------------------------------------
(****************************************************************************)
(* What the user selects.                                                   *)
(****************************************************************************)

\* The elements of a sequence of sequences are those of its elements.
LEMMA FlattenIs ==
    ASSUME NEW U, NEW seqs \in Seq(Seq(U))
    PROVE  FlattenSeq(seqs) \in Seq(U)
<1> DEFINE m == Len(seqs)
           D == Seq(U)
           F(f) == [i \in 1 .. m |-> IF i = 1 THEN seqs[i] ELSE f[i - 1] \o seqs[i]]
           flat == CHOOSE f : f = F(f)
           G == [x \in D \X (1 .. m) |-> x[1] \o seqs[x[2]]]
<1>1. m \in Nat /\ \A i \in 1 .. m : seqs[i] \in Seq(U)
  OBVIOUS
<1>2. CASE m = 0
  <2>1. FlattenSeq(seqs) = << >>
    BY <1>2 DEF FlattenSeq
  <2> QED
    BY <2>1
<1>3. CASE m # 0
  <2>1. FlattenSeq(seqs) = flat[m]
    BY <1>3 DEF FlattenSeq
  <2>2. m \in 1 .. m
    BY <1>1, <1>3
  <2> HIDE DEF m
  <2>3. G \in [D \X (1 .. m) -> D]
    <3>1. \A x \in D \X (1 .. m) : x[1] \o seqs[x[2]] \in D
      BY <1>1, ConcatProperties
    <3> QED
      BY <3>1
  <2>4. << >> \in D
    OBVIOUS
  <2> HIDE DEF D
  <2>5. PICK g : Loops(D, << >>, m, G, g)
    <3> HIDE DEF G
    <3> QED
      BY <1>1, <2>3, <2>4, LoopExists
  <2>6. \A n \in 1 .. m : g[n] = g[n - 1] \o seqs[n] /\ g[n - 1] \in D
    <3>1. \A n \in 1 .. m : g[n - 1] \in D
      BY <1>1, <2>5, LoopStays
    <3>2. \A n \in 1 .. m : G[<<g[n - 1], n>>] = g[n - 1] \o seqs[n]
      BY <3>1
    <3> HIDE DEF G
    <3> QED
      BY <2>5, <3>1, <3>2 DEF Loops
  <2> DEFINE h == [i \in 1 .. m |-> g[i]]
  <2>7. h = F(h)
    <3>1. g[0] = << >>
      BY <2>5 DEF Loops
    <3>2. 1 \in 1 .. m /\ 1 - 1 = 0
      BY <1>1, <2>2
    <3>3. g[1] = seqs[1]
      <4>1. g[1] = << >> \o seqs[1]
        BY <2>6, <3>1, <3>2
      <4>2. seqs[1] \in Seq(U)
        BY <1>1, <3>2
      <4> QED
        BY <4>1, <4>2, ConcatEmptySeq
    <3>4. \A i \in 1 .. m : i # 1 => i - 1 \in 1 .. m
      BY <1>1
    <3>5. \A i \in 1 .. m : g[i] = IF i = 1 THEN seqs[i] ELSE h[i - 1] \o seqs[i]
      BY <2>6, <3>3, <3>4
    <3> QED
      BY <3>5
  <2>8. flat = F(flat)
    <3> HIDE DEF F, h
    <3> QED
      BY <2>7
  <2> HIDE DEF flat
  <2> DEFINE k == [i \in 0 .. m |-> IF i = 0 THEN << >> ELSE flat[i]]
  <2>9. k[0] \in D /\ \A n \in 1 .. m : k[n - 1] \in D => k[n] \in D
    <3>1. k[0] = << >>
      BY <1>1
    <3>2. ASSUME NEW n \in 1 .. m, k[n - 1] \in D PROVE k[n] \in D
      <4>1. k[n] = flat[n] /\ n - 1 \in 0 .. m
        BY <1>1
      <4>2. CASE n = 1
        BY <1>1, <2>8, <4>1, <4>2 DEF D
      <4>3. CASE n # 1
        <5>1. k[n - 1] = flat[n - 1]
          BY <1>1, <4>1, <4>3
        <5>2. flat[n] = flat[n - 1] \o seqs[n]
          BY <2>8, <4>3
        <5> HIDE DEF k
        <5> QED
          BY <1>1, <3>2, <4>1, <5>1, <5>2, ConcatProperties DEF D
      <4> QED
        BY <4>2, <4>3
    <3> HIDE DEF k
    <3> QED
      BY <2>4, <3>1, <3>2
  <2>10. k[m] = flat[m]
    BY <1>1, <2>2, <1>3
  <2> HIDE DEF k
  <2>11. k[m] \in D
    BY <1>1, <2>9, LoopLands
  <2> QED
    BY <2>1, <2>10, <2>11 DEF D
<1> QED
  BY <1>2, <1>3

\* The terminals of a strip are those of its physical terminals.
LEMMA RealsOfIs ==
    ASSUME NEW d \in Docs, NEW s \in Strips
    PROVE  /\ RealsOf(d, s) \in Seq(Reals)
           /\ \A r \in Range(RealsOf(d, s)) :
                  r \in Reals /\ \E p \in Range(d.order[s]) : p \in Phys /\ r \in Range(d.levels[p])
<1> DEFINE o == d.order[s]
           seqs == [i \in DOMAIN o |-> d.levels[o[i]]]
           U == {r \in Reals : \E p \in Range(o) : p \in Phys /\ r \in Range(d.levels[p])}
<1>1. /\ Len(o) \in Nat /\ DOMAIN o = 1 .. Len(o) /\ d.levels \in [Phys -> Seq(Reals)]
      /\ \A i \in 1 .. Len(o) : o[i] \in Phys /\ o[i] \in Range(o)
  BY DocParts, RangeOf
<1> HIDE DEF o
<1>2. \A i \in 1 .. Len(o) : d.levels[o[i]] \in Seq(U)
  <2>1. ASSUME NEW i \in 1 .. Len(o) PROVE d.levels[o[i]] \in Seq(U)
    <3> DEFINE q == d.levels[o[i]]
    <3>1. q \in Seq(Reals) /\ o[i] \in Phys /\ o[i] \in Range(o)
      BY <1>1
    <3>2. /\ Len(q) \in Nat /\ DOMAIN q = 1 .. Len(q) /\ q = [k \in 1 .. Len(q) |-> q[k]]
          /\ \A k \in 1 .. Len(q) : q[k] \in Reals /\ q[k] \in Range(q)
      BY <3>1, RangeOf
    <3>3. \A k \in 1 .. Len(q) : q[k] \in U
      BY <3>1, <3>2
    <3> HIDE DEF q, U
    <3> QED
      BY <3>2, <3>3 DEF q
  <2> QED
    BY <2>1
<1> HIDE DEF U
<1>3. seqs \in Seq(Seq(U))
  BY <1>1, <1>2
<1>4. RealsOf(d, s) = FlattenSeq(seqs)
  BY DEF RealsOf, o
<1> HIDE DEF seqs
<1>5. RealsOf(d, s) \in Seq(U)
  BY <1>3, <1>4, FlattenIs
<1>6. Range(RealsOf(d, s)) \subseteq U /\ RealsOf(d, s) \in Seq(Reals)
  <2>1. U \subseteq Reals
    BY DEF U
  <2> QED
    BY <1>5, <2>1, RangeOf
<1> QED
  BY <1>6 DEF U, o

\* A finite set as a sequence.
LEMMA SetToSeqIs ==
    ASSUME NEW T, IsFiniteSet(T)
    PROVE  SetToSeq(T) \in Seq(T)
<1> DEFINE n == Cardinality(T)
<1>1. n \in Nat /\ ExistsBijection(1 .. n, T)
  BY FS_CardinalityType
<1> HIDE DEF n
<1>2. PICK f : f \in [1 .. n -> T] /\ IsInjective(f)
  BY <1>1 DEF ExistsBijection, Bijection, Injection
<1>3. SetToSeq(T) = CHOOSE g \in [1 .. n -> T] : IsInjective(g)
  BY DEF SetToSeq, n
<1>4. SetToSeq(T) \in [1 .. n -> T]
  BY <1>2, <1>3
<1> QED
  BY <1>1, <1>4

\* A terminal of a listed strip is in it.
LEMMA TerminalIs ==
    ASSUME NEW d \in Docs, Sound(d), NEW s \in Strips, NEW p \in Range(d.order[s]),
           NEW r \in Range(d.levels[p])
    PROVE  /\ p \in Phys /\ r \in Reals /\ d.strip[p] = s /\ d.phys[r] = p
           /\ ParentStrip(d, r) = s /\ s # None
           /\ IsInjective(d.levels[p]) /\ d.levels[p] \in Seq(Reals)
<1>1. p \in Phys /\ d.levels[p] \in Seq(Reals)
  BY DocParts, RangeOf
<1>2. r \in Reals
  BY <1>1, RangeOf
<1> QED
  BY <1>1, <1>2, StripAssumption DEF Sound, ParentStrip

\* RealTerminal::level() of a terminal that is in a strip counts from 1.
LEMMA LevelIs ==
    ASSUME NEW d \in Docs, Sound(d), NEW s \in Strips, NEW p \in Range(d.order[s]),
           NEW r \in Range(d.levels[p])
    PROVE  Level(d, r) \in Positive
<1> DEFINE q == d.levels[p]
           First(i) == q[i] = r /\ \A j \in 1 .. (i - 1) : q[j] # r
           R == OpToRel(<, Nat)
<1>1. d.phys[r] = p /\ p \in Phys /\ p # None /\ q \in Seq(Reals)
  BY TerminalIs, StripAssumption
<1>2. DOMAIN q = 1 .. Len(q) /\ Len(q) \in Nat
  BY <1>1
<1>3. Level(d, r) = IndexIn(q, r)
  BY <1>1 DEF Level
<1> DEFINE I == {i \in DOMAIN q : q[i] = r}
<1>4. I # {} /\ I \subseteq Nat /\ \E i \in DOMAIN q : q[i] = r
  BY <1>2 DEF Range
<1>5. IsWellFoundedOn(R, Nat)
  BY NatLessThanWellFounded
<1>6. \A x, y \in Nat : y < x => <<y, x>> \in R
  BY DEF OpToRel
<1> HIDE DEF R, I
<1>7. PICK i \in I : \A k \in I : ~ (<<k, i>> \in R)
  BY <1>4, <1>5, WFMin
<1>8. i \in DOMAIN q /\ First(i)
  <2>1. i \in DOMAIN q /\ q[i] = r /\ i \in Nat
    BY <1>2, <1>7 DEF I
  <2>2. ASSUME NEW j \in 1 .. (i - 1) PROVE q[j] # r
    <3>1. j \in Nat /\ j < i /\ j \in DOMAIN q
      BY <1>2, <2>1
    <3>2. j \notin I
      BY <1>6, <1>7, <2>1, <3>1
    <3> QED
      BY <3>1, <3>2 DEF I
  <2> QED
    BY <2>1, <2>2
<1>9. IndexIn(q, r) = CHOOSE k \in DOMAIN q : First(k)
  BY <1>4 DEF IndexIn
<1> HIDE DEF First
<1>10. IndexIn(q, r) \in DOMAIN q
  BY <1>8, <1>9
<1> QED
  BY <1>2, <1>3, <1>10 DEF Positive

----------------------------------------------------------------------------
(****************************************************************************)
(* Each command as the user gives it.                                       *)
(****************************************************************************)

\* A listed strip.
LEMMA ListedIs ==
    ASSUME StripInv, NEW s \in doc.listed
    PROVE  /\ s \in Strips /\ doc.order[s] \in Plains(Phys)
           /\ \A P : Selected(doc.order[s], P) \in Plains(Phys)
           /\ \A P : Range(Selected(doc.order[s], P)) \subseteq Range(doc.order[s])
<1>1. doc \in Docs /\ Sound(doc)
  BY StripNow
<1>2. s \in Strips
  BY <1>1, DocParts
<1>3. doc.order[s] \in Seq(Phys) /\ IsInjective(doc.order[s])
  BY <1>1, <1>2, DocParts DEF Sound
<1> QED
  BY <1>2, <1>3, SelectedIs DEF Plains

\* A terminal of a listed strip is in a strip.
LEMMA ListedTerminal ==
    ASSUME StripInv, NEW s \in doc.listed, NEW r \in Range(RealsOf(doc, s))
    PROVE  \E p \in Range(doc.order[s]) :
              /\ r \in Range(doc.levels[p]) /\ doc.phys[r] = p
              /\ p \in Phys /\ r \in Reals /\ doc.strip[p] = s /\ s # None
              /\ ParentStrip(doc, r) # None /\ Level(doc, r) \in Positive
              /\ IsInjective(doc.levels[p]) /\ doc.levels[p] \in Seq(Reals)
<1>1. doc \in Docs /\ Sound(doc) /\ s \in Strips
  BY StripNow, ListedIs
<1>2. PICK p \in Range(doc.order[s]) : r \in Range(doc.levels[p])
  BY <1>1, RealsOfIs
<1>3. /\ p \in Phys /\ r \in Reals /\ doc.strip[p] = s /\ doc.phys[r] = p
      /\ ParentStrip(doc, r) # None /\ s # None
      /\ IsInjective(doc.levels[p]) /\ doc.levels[p] \in Seq(Reals)
  BY <1>1, <1>2, TerminalIs
<1>4. Level(doc, r) \in Positive
  BY <1>1, <1>2, LevelIs
<1> QED
  BY <1>2, <1>3, <1>4

\* AddTerminalToStripCommand: a free terminal is in no physical terminal, as
\* none that waits is drawn.
LEMMA AddKeeps ==
    ASSUME StripInv, AddTerminalToStripCommand
    PROVE  StripInv'
<1>1. "Add" \in habit.names
  BY DEF AddTerminalToStripCommand, Gives
<1>2. PICK s \in doc.listed, R \in (SUBSET Free) \ {{}} :
           Push([name |-> "Add", strip |-> s, reals |-> SetToSeq(R)])
  BY DEF AddTerminalToStripCommand
<1> DEFINE q == SetToSeq(R)
           c == [name |-> "Add", strip |-> s, reals |-> q]
<1>3. R \subseteq Drawn /\ IsFiniteSet(R)
  <2>1. R \subseteq Drawn /\ R \in SUBSET Reals
    BY DEF Free, Reals
  <2> QED
    BY <2>1, StripAssumption, FS_Subset
<1>4. q \in Seq(R)
  BY <1>3, SetToSeqIs
<1>5. q \in Seq(Drawn) /\ Range(q) \subseteq Drawn
  BY <1>3, <1>4, RangeOf
<1>6. s \in Strips
  BY ListedIs
<1>7. Push(c)
  BY <1>2
<1> HIDE DEF q
<1>8. c \in Adds
  BY <1>5, <1>6 DEF Adds
<1>9. c \in Commands /\ c \notin SpareAdds /\ c.name = "Add"
  BY <1>8 DEF Commands, SpareAdds
<1>10. GrownBy(c) = {} /\ Places(c) = Range(q)
  BY DEF GrownBy, Places, RealsIn
<1> HIDE DEF c
<1>11. Given(doc, Stack, c)
  BY <1>5, <1>10, StripAssumption DEF Given
<1> QED
  BY <1>1, <1>7, <1>9, <1>11, GivenKeeps

\* RemoveTerminalFromStripCommand: the levels of what is taken away are plain
\* sequences.
LEMMA RemoveKeeps ==
    ASSUME StripInv, RemoveTerminalFromStripCommand
    PROVE  StripInv'
<1>1. "Remove" \in habit.names
  BY DEF RemoveTerminalFromStripCommand, Gives
<1>2. PICK s \in doc.listed : \E P \in (SUBSET Listed(s)) \ {{}} :
          Push([name |-> "Remove", strip |-> s,
                groups |-> [i \in DOMAIN Selected(doc.order[s], P) |->
                              doc.levels[Selected(doc.order[s], P)[i]]]])
  BY DEF RemoveTerminalFromStripCommand
<1>3. PICK P \in (SUBSET Listed(s)) \ {{}} :
          Push([name |-> "Remove", strip |-> s,
                groups |-> [i \in DOMAIN Selected(doc.order[s], P) |->
                              doc.levels[Selected(doc.order[s], P)[i]]]])
  BY <1>2
<1> DEFINE ps == Selected(doc.order[s], P)
           groups == [i \in DOMAIN ps |-> doc.levels[ps[i]]]
           c == [name |-> "Remove", strip |-> s, groups |-> groups]
<1>4. /\ s \in Strips /\ ps \in Plains(Phys) /\ Range(ps) \subseteq Range(doc.order[s])
      /\ doc \in Docs /\ Sound(doc)
  BY ListedIs, StripNow
<1>5. Push(c)
  BY <1>3
<1> HIDE DEF ps
<1>6. /\ Len(ps) \in Nat /\ DOMAIN ps = 1 .. Len(ps)
      /\ \A i \in 1 .. Len(ps) : ps[i] \in Phys /\ ps[i] \in Range(ps)
  BY <1>4, RangeOf DEF Plains
<1>7. \A i \in 1 .. Len(ps) : doc.levels[ps[i]] \in Plains(Reals)
  BY <1>4, <1>6, DocParts DEF Plains, Sound
<1>8. groups \in Seq(Plains(Reals))
  BY <1>6, <1>7
<1>9. \A i \in DOMAIN groups : \A r \in Range(groups[i]) : ParentStrip(doc, r) # None
  <2>1. ASSUME NEW i \in DOMAIN groups, NEW r \in Range(groups[i])
        PROVE  ParentStrip(doc, r) # None
    <3>1. ps[i] \in Range(doc.order[s]) /\ r \in Range(doc.levels[ps[i]])
      BY <1>4, <1>6
    <3> QED
      BY <1>4, <3>1, TerminalIs
  <2> QED
    BY <2>1
<1> HIDE DEF groups
<1>10. c \in Removes
  BY <1>4, <1>8 DEF Removes
<1>11. c \in Commands /\ c \notin SpareAdds /\ c.name = "Remove"
  BY <1>10 DEF Commands, SpareAdds
<1>12. GrownBy(c) = {} /\ Places(c) = UNION {Range(groups[i]) : i \in DOMAIN groups}
  BY DEF GrownBy, Places, RealsIn
<1> HIDE DEF c
<1>13. Given(doc, Stack, c)
  BY <1>9, <1>12 DEF Given
<1> QED
  BY <1>1, <1>5, <1>11, <1>13, GivenKeeps

\* MoveTerminalCommand: a move puts no real terminal anywhere, its physical
\* terminals take theirs along.
LEMMA MoveKeeps ==
    ASSUME StripInv, MoveTerminalCommand
    PROVE  StripInv'
<1>1. "Move" \in habit.names
  BY DEF MoveTerminalCommand, Gives
<1>2. PICK s \in doc.listed, t \in doc.listed : \E P \in (SUBSET Listed(s)) \ {{}} :
          Push([name |-> "Move", strip |-> s, to |-> t, phys |-> Selected(doc.order[s], P)])
  BY DEF MoveTerminalCommand
<1>3. PICK P \in (SUBSET Listed(s)) \ {{}} :
          Push([name |-> "Move", strip |-> s, to |-> t, phys |-> Selected(doc.order[s], P)])
  BY <1>2
<1> DEFINE ps == Selected(doc.order[s], P)
           c == [name |-> "Move", strip |-> s, to |-> t, phys |-> ps]
<1>4. s \in Strips /\ t \in Strips /\ ps \in Plains(Phys)
  BY ListedIs
<1>5. Push(c)
  BY <1>3
<1> HIDE DEF ps
<1>6. c \in Moves
  BY <1>4 DEF Moves
<1>7. c \in Commands /\ c \notin SpareAdds /\ c.name = "Move"
  BY <1>6 DEF Commands, SpareAdds
<1>8. Given(doc, Stack, c)
  BY DEF Given, GrownBy, Places, RealsIn
<1> HIDE DEF c
<1> QED
  BY <1>1, <1>5, <1>7, <1>8, GivenKeeps

\* ChangeTerminalLevel: the level kept for undo() is one that a terminal can
\* have.
LEMMA LevelKeeps ==
    ASSUME StripInv, ChangeTerminalLevel
    PROVE  StripInv'
<1>1. "Level" \in habit.names
  BY DEF ChangeTerminalLevel, Gives
<1>2. PICK s \in doc.listed : \E r \in Range(RealsOf(doc, s)), level \in 1 .. MaxLevels :
          Push([name |-> "Level", strip |-> s, real |-> r, new |-> level,
                old |-> Level(doc, r)])
  BY DEF ChangeTerminalLevel
<1>3. PICK r \in Range(RealsOf(doc, s)), level \in 1 .. MaxLevels :
          Push([name |-> "Level", strip |-> s, real |-> r, new |-> level,
                old |-> Level(doc, r)])
  BY <1>2
<1> DEFINE old == Level(doc, r)
           c == [name |-> "Level", strip |-> s, real |-> r, new |-> level, old |-> old]
<1>4. s \in Strips /\ r \in Reals /\ old \in Positive /\ ParentStrip(doc, r) # None
  BY ListedIs, ListedTerminal
<1>5. level \in Positive
  BY StripAssumption DEF Positive
<1>6. Push(c)
  BY <1>3
<1> HIDE DEF old
<1>7. c \in Levelings
  BY <1>4, <1>5 DEF Levelings
<1>8. c \in Commands /\ c \notin SpareAdds /\ c.name = "Level"
  BY <1>7 DEF Commands, SpareAdds
<1>9. GrownBy(c) = {} /\ Places(c) = {r}
  BY DEF GrownBy, Places, RealsIn
<1> HIDE DEF c
<1>10. Given(doc, Stack, c)
  BY <1>4, <1>9 DEF Given
<1> QED
  BY <1>1, <1>6, <1>8, <1>10, GivenKeeps

\* SortTerminalStripCommand: a sorted strip has what the strip had.
LEMMA SortKeeps ==
    ASSUME StripInv, SortTerminalStripCommand
    PROVE  StripInv'
<1>1. "Sort" \in habit.names
  BY DEF SortTerminalStripCommand, Gives
<1>2. PICK s \in doc.listed :
        \E rank \in {f \in [DOMAIN doc.order[s] -> DOMAIN doc.order[s]] : IsInjective(f)} :
            Push([name |-> "Sort", strip |-> s, old |-> doc.order[s],
                  new |-> [i \in DOMAIN doc.order[s] |-> doc.order[s][rank[i]]]])
  BY DEF SortTerminalStripCommand
<1> DEFINE order == doc.order[s]
<1>3. PICK rank \in {f \in [DOMAIN order -> DOMAIN order] : IsInjective(f)} :
            Push([name |-> "Sort", strip |-> s, old |-> order,
                  new |-> [i \in DOMAIN order |-> order[rank[i]]]])
  BY <1>2
<1> DEFINE new == [i \in DOMAIN order |-> order[rank[i]]]
           c == [name |-> "Sort", strip |-> s, old |-> order, new |-> new]
<1>4. Push(c)
  BY <1>3
<1>5. s \in Strips /\ order \in Plains(Phys)
  BY ListedIs
<1>6. rank \in [DOMAIN order -> DOMAIN order] /\ IsInjective(rank)
  OBVIOUS
<1> HIDE DEF order
<1>7. order \in Seq(Phys) /\ IsInjective(order) /\ DOMAIN order = 1 .. Len(order) /\ Len(order) \in Nat
  BY <1>5 DEF Plains
<1>8. new \in Seq(Phys)
  BY <1>6, <1>7
<1>9. IsInjective(new)
  BY <1>6, <1>7 DEF IsInjective
<1> HIDE DEF new
<1>10. c \in Sorts
  BY <1>5, <1>8, <1>9 DEF Sorts, Plains
<1>11. c \in Commands /\ c \notin SpareAdds /\ c.name = "Sort"
  BY <1>10 DEF Commands, SpareAdds
<1>12. Given(doc, Stack, c)
  BY DEF Given, GrownBy, Places, RealsIn
<1> HIDE DEF c
<1> QED
  BY <1>1, <1>4, <1>11, <1>12, GivenKeeps

\* AddSpareTerminalsCommand: the spare is in no physical terminal and no
\* command has to do with it, so that it is the first to name it.
LEMMA SparesKeeps ==
    ASSUME StripInv, AddSpareTerminalsCommand
    PROVE  StripInv'
<1> DEFINE S == Stack
           n == Len(done)
<1>1. "Spares" \in habit.names /\ Room
  BY DEF AddSpareTerminalsCommand, Gives
<1>2. PICK s \in doc.listed : \E r \in UnusedSpare, at \in -1..Len(doc.order[s]) :
          Push([name |-> "Spares", strip |-> s, at |-> at, real |-> r, phys |-> None])
  BY DEF AddSpareTerminalsCommand
<1>3. PICK r \in UnusedSpare, at \in -1..Len(doc.order[s]) :
          Push([name |-> "Spares", strip |-> s, at |-> at, real |-> r, phys |-> None])
  BY <1>2
<1> DEFINE c == [name |-> "Spares", strip |-> s, at |-> at, real |-> r, phys |-> None]
           b == [c EXCEPT !.phys = FreshPhys(doc)]
<1>4. s \in Strips /\ at \in Int
  <2>1. s \in Strips /\ Len(doc.order[s]) \in Nat
    BY ListedIs DEF Plains
  <2> QED
    BY <2>1
<1>5. r \in Spare /\ \A e \in Entries : r \notin RealsIn(e.cmd)
  BY DEF UnusedSpare, Unmade
<1>6. Nowhere(doc, r)
  BY DEF StripInv, SparesNowhere
<1>7. FreePhys(doc) # {}
  <2>1. IsFiniteSet(Reals) /\ Reals # {}
    BY <1>5, StripAssumption DEF Reals
  <2>2. Cardinality(Reals) \in Nat /\ Cardinality(Reals) # 0
    BY <2>1, FS_EmptySet, FS_CardinalityType
  <2>3. Cardinality(FreePhys(doc)) >= Cardinality(Reals)
    BY <1>1 DEF Room
  <2>4. Cardinality({}) = 0
    BY FS_EmptySet
  <2>5. ASSUME FreePhys(doc) = {} PROVE FALSE
    BY <2>2, <2>3, <2>4, <2>5
  <2> QED
    BY <2>5
<1>8. /\ S \in Seq(Commands) /\ Held = HeldOf(S) /\ n \in 0 .. Len(S) /\ Standing(doc, S, n)
      /\ \A i \in DOMAIN S : \E e \in Entries : S[i] = e.cmd
  BY StripNow
<1>9. \A i \in DOMAIN S : r \notin Places(S[i])
  BY <1>5, <1>8 DEF Places
<1> HIDE DEF S, n
<1>10. /\ b \in Commands /\ Kept(Redo1(doc, c), c) = b
       /\ Redo1(doc, c) \in Good(Waiting(Pushed(S, n, b), n + 1), Made(Pushed(S, n, b)),
                                 Growing(Pushed(S, n, b)))
       /\ InTurn(Pushed(S, n, b)) /\ Apart(Pushed(S, n, b))
  BY <1>4, <1>5, <1>6, <1>7, <1>8, <1>9, SpareStands
<1>11. b.name = "Spares" /\ Push(c)
  BY <1>3
<1> HIDE DEF c, b
<1>12. Standing(Redo1(doc, c), Pushed(S, n, b), n + 1)
  BY <1>10 DEF Standing
<1> QED
  BY <1>1, <1>10, <1>11, <1>12, PushKeeps DEF S, n

\* Who groups makes no spares.
LEMMA GroupKeeps ==
    ASSUME StripInv, Plain, GroupTerminalsCommand
    PROVE  StripInv'
<1>1. "Group" \in habit.names
  BY DEF GroupTerminalsCommand, Gives
<1>2. PICK s \in doc.listed : \E R \in SUBSET Range(RealsOf(doc, s)) : \E p \in Listed(s) :
          Push([name |-> "Group", strip |-> s, receiver |-> p,
                reals |-> Selected(Selected(RealsOf(doc, s), R), {r \in R : doc.phys[r] # p})])
  BY DEF GroupTerminalsCommand
<1>3. PICK R \in SUBSET Range(RealsOf(doc, s)), p \in Listed(s) :
          Push([name |-> "Group", strip |-> s, receiver |-> p,
                reals |-> Selected(Selected(RealsOf(doc, s), R), {r \in R : doc.phys[r] # p})])
  BY <1>2
<1> DEFINE reals == Selected(RealsOf(doc, s), R)
           others == Selected(reals, {r \in R : doc.phys[r] # p})
           c == [name |-> "Group", strip |-> s, receiver |-> p, reals |-> others]
<1>4. Push(c)
  BY <1>3
<1>5. doc \in Docs /\ Sound(doc) /\ s \in Strips /\ Stack \in Seq(Commands)
  BY StripNow, ListedIs
<1>6. reals \in Seq(Reals) /\ Range(reals) \subseteq Range(RealsOf(doc, s))
  BY <1>5, RealsOfIs, SelectedIs
<1> HIDE DEF reals
<1>7. others \in Seq(Reals) /\ Range(others) \subseteq Range(RealsOf(doc, s))
  BY <1>6, SelectedIs
<1> HIDE DEF others
<1>8. p \in Phys /\ doc.strip[p] = s /\ s # None
  <2>1. p \in Range(doc.order[s])
    BY DEF Listed
  <2>2. p \in Phys
    BY <1>5, <2>1, DocParts, RangeOf
  <2> QED
    BY <1>5, <2>1, <2>2, StripAssumption DEF Sound
<1>9. c \in Groups
  BY <1>5, <1>7, <1>8 DEF Groups
<1>10. c \in Commands /\ c \notin SpareAdds /\ c.name = "Group"
  BY <1>9 DEF Commands, SpareAdds
<1>11. GrownBy(c) = {p} /\ Places(c) = Range(others)
  BY DEF GrownBy, Places, RealsIn
<1> HIDE DEF c
<1>12. Made(Stack) = {}
  <2>1. "Spares" \notin habit.names
    BY <1>1 DEF Plain
  <2>2. \A i \in DOMAIN Stack : Stack[i].name \in habit.names
    BY StripNow DEF StripInv, OnlyGiven
  <2> QED
    BY <2>1, <2>2 DEF Made, MadeBy
<1>13. \A r \in Range(others) : ParentStrip(doc, r) # None
  BY <1>7, ListedTerminal
<1>14. Given(doc, Stack, c)
  BY <1>8, <1>11, <1>12, <1>13 DEF Given
<1> QED
  BY <1>1, <1>4, <1>10, <1>14, GivenKeeps

\* BridgeTerminalsCommand: a new bridge puts nothing anywhere.
LEMMA BridgeKeeps ==
    ASSUME StripInv, BridgeTerminalsCommand
    PROVE  StripInv'
<1>1. "Bridge" \in habit.names
  BY DEF BridgeTerminalsCommand, Gives
<1>2. PICK s \in doc.listed : \E R \in SUBSET Range(RealsOf(doc, s)) :
          Push([name |-> "Bridge", strip |-> s, reals |-> R, bridge |-> None])
  BY DEF BridgeTerminalsCommand
<1>3. PICK R \in SUBSET Range(RealsOf(doc, s)) :
          Push([name |-> "Bridge", strip |-> s, reals |-> R, bridge |-> None])
  BY <1>2
<1> DEFINE c == [name |-> "Bridge", strip |-> s, reals |-> R, bridge |-> None]
<1>4. Push(c)
  BY <1>3
<1>5. s \in Strips /\ R \subseteq Reals
  <2>1. doc \in Docs /\ s \in Strips
    BY StripNow, ListedIs
  <2>2. Range(RealsOf(doc, s)) \subseteq Reals
    BY <2>1, RealsOfIs
  <2> QED
    BY <2>1, <2>2
<1>6. c \in Bridgings
  BY <1>5 DEF Bridgings
<1>7. c \in Commands /\ c \notin SpareAdds /\ c.name = "Bridge"
  BY <1>6 DEF Commands, SpareAdds
<1>8. Given(doc, Stack, c)
  BY DEF Given, GrownBy, Places
<1> HIDE DEF c
<1> QED
  BY <1>1, <1>4, <1>7, <1>8, GivenKeeps

\* UnBridgeTerminalsCommand: what is on a bridge are real terminals.
LEMMA UnbridgeKeeps ==
    ASSUME StripInv, UnBridgeTerminalsCommand
    PROVE  StripInv'
<1>1. "Unbridge" \in habit.names
  BY DEF UnBridgeTerminalsCommand, Gives
<1> DEFINE Of(s, R) == BridgeOf(doc, s, CHOOSE r \in R : TRUE)
           Off(s, R) == IF Cardinality(doc.on[Of(s, R)]) = Cardinality(R) + 1
                        THEN doc.on[Of(s, R)] ELSE R
<1>2. PICK s \in doc.listed : \E R \in SUBSET Range(RealsOf(doc, s)) :
          /\ CanUnBridge(doc, s, R)
          /\ Push([name |-> "Unbridge", strip |-> s, bridge |-> Of(s, R), reals |-> Off(s, R)])
  BY DEF UnBridgeTerminalsCommand
<1>3. PICK R \in SUBSET Range(RealsOf(doc, s)) :
          /\ CanUnBridge(doc, s, R)
          /\ Push([name |-> "Unbridge", strip |-> s, bridge |-> Of(s, R), reals |-> Off(s, R)])
  BY <1>2
<1> DEFINE bridge == Of(s, R)
           off == Off(s, R)
           c == [name |-> "Unbridge", strip |-> s, bridge |-> bridge, reals |-> off]
<1>4. Push(c)
  BY <1>3
<1>5. s \in Strips /\ R \subseteq Reals /\ doc \in Docs
  <2>1. doc \in Docs /\ s \in Strips
    BY StripNow, ListedIs
  <2>2. Range(RealsOf(doc, s)) \subseteq Reals
    BY <2>1, RealsOfIs
  <2> QED
    BY <2>1, <2>2
<1>6. bridge \in Bridges
  <2>1. bridge \in Bridges \cup {None}
    BY BridgeOfIs
  <2>2. R # {} /\ None \notin {BridgeOf(doc, s, r) : r \in R}
    BY <1>3 DEF CanUnBridge
  <2>3. (CHOOSE r \in R : TRUE) \in R
    BY <2>2
  <2> QED
    BY <2>1, <2>2, <2>3
<1>7. off \in SUBSET Reals
  <2>1. doc.on[bridge] \in SUBSET Reals
    BY <1>5, <1>6, DocParts
  <2> HIDE DEF bridge
  <2>2. off = doc.on[bridge] \/ off = R
    BY DEF bridge
  <2> HIDE DEF off
  <2> QED
    BY <1>5, <2>1, <2>2
<1> HIDE DEF bridge, off
<1>8. c \in Bridgings
  BY <1>5, <1>6, <1>7 DEF Bridgings
<1>9. c \in Commands /\ c \notin SpareAdds /\ c.name = "Unbridge"
  BY <1>8 DEF Commands, SpareAdds
<1>10. Given(doc, Stack, c)
  BY DEF Given, GrownBy, Places
<1> HIDE DEF c
<1> QED
  BY <1>1, <1>4, <1>9, <1>10, GivenKeeps

\* AddTerminalStripCommand: a strip that nobody has used is listed.
LEMMA AddStripKeeps ==
    ASSUME StripInv, AddTerminalStripCommand
    PROVE  StripInv'
<1>1. "AddStrip" \in habit.names
  BY DEF AddTerminalStripCommand, Gives
<1>2. PICK s \in UnusedStrips : Push([name |-> "AddStrip", strip |-> s])
  BY DEF AddTerminalStripCommand
<1> DEFINE c == [name |-> "AddStrip", strip |-> s]
<1>3. Push(c)
  BY <1>2
<1>4. c \in StripAdds
  BY DEF StripAdds, UnusedStrips
<1>5. c \in Commands /\ c \notin SpareAdds /\ c.name = "AddStrip"
  BY <1>4 DEF Commands, SpareAdds
<1>6. Given(doc, Stack, c)
  BY DEF Given, GrownBy, Places, RealsIn
<1> HIDE DEF c
<1> QED
  BY <1>1, <1>3, <1>5, <1>6, GivenKeeps

\* UnGroupTerminalsCommand: what is ungrouped has more than one level, so it
\* is not the physical terminal of a spare.
LEMMA UngroupKeeps ==
    ASSUME StripInv, UnGroupTerminalsCommand
    PROVE  StripInv'
<1>1. "Ungroup" \in habit.names
  BY DEF UnGroupTerminalsCommand, Gives
<1> DEFINE Chosen(R) == {r \in R : Len(doc.levels[doc.phys[r]]) > 1}
           Those(s, R) == Selected(RealsOf(doc, s), Chosen(R))
           GroupOf(s, R, p) ==
              [phys |-> p, reals |-> Selected(Those(s, R), {r \in R : doc.phys[r] = p})]
           Command(s, R, ps) ==
              [name |-> "Ungroup", strip |-> s,
               groups |-> [i \in DOMAIN ps |-> GroupOf(s, R, ps[i])],
               levels |-> [i \in DOMAIN Those(s, R) |->
                             <<Those(s, R)[i], Level(doc, Those(s, R)[i])>>]]
<1>2. PICK s \in doc.listed : \E R \in SUBSET Range(RealsOf(doc, s)) :
          /\ R = Chosen(R)
          /\ \E ps \in SetToSeqs({doc.phys[r] : r \in R}) : Push(Command(s, R, ps))
  BY DEF UnGroupTerminalsCommand
<1>3. PICK R \in SUBSET Range(RealsOf(doc, s)) :
          /\ R = Chosen(R)
          /\ \E ps \in SetToSeqs({doc.phys[r] : r \in R}) : Push(Command(s, R, ps))
  BY <1>2
<1> DEFINE Q == {doc.phys[r] : r \in R}
<1>4. PICK ps \in SetToSeqs(Q) : Push(Command(s, R, ps))
  BY <1>3
<1> DEFINE reals == Those(s, R)
           Of(p) == Selected(reals, {r \in R : doc.phys[r] = p})
           groups == [i \in DOMAIN ps |-> [phys |-> ps[i], reals |-> Of(ps[i])]]
           levels == [i \in DOMAIN reals |-> <<reals[i], Level(doc, reals[i])>>]
           c == [name |-> "Ungroup", strip |-> s, groups |-> groups, levels |-> levels]
<1>5. Push(c)
  BY <1>4
<1>6. \A r \in R : Len(doc.levels[doc.phys[r]]) > 1
  BY <1>3
<1> HIDE DEF Command, GroupOf
<1>7. doc \in Docs /\ Sound(doc) /\ s \in Strips /\ Stack \in Seq(Commands)
      /\ RealsOf(doc, s) \in Seq(Reals) /\ R \subseteq Reals
  <2>1. doc \in Docs /\ Sound(doc) /\ s \in Strips /\ Stack \in Seq(Commands)
    BY StripNow, ListedIs
  <2>2. RealsOf(doc, s) \in Seq(Reals) /\ Range(RealsOf(doc, s)) \subseteq Reals
    BY <2>1, RealsOfIs
  <2> QED
    BY <2>1, <2>2
<1>8. \A r \in Range(RealsOf(doc, s)) :
          /\ ParentStrip(doc, r) # None /\ Level(doc, r) \in Positive /\ r \in Reals
          /\ doc.phys[r] \in Phys /\ doc.strip[doc.phys[r]] # None
          /\ IsInjective(doc.levels[doc.phys[r]]) /\ doc.levels[doc.phys[r]] \in Seq(Reals)
  BY ListedTerminal
<1>9. reals \in Seq(Reals) /\ Range(reals) \subseteq Range(RealsOf(doc, s))
  BY <1>7, SelectedIs
<1> HIDE DEF reals, Those
<1>10. \A p : Of(p) \in Seq(Reals)
  BY <1>9, SelectedIs
<1> HIDE DEF Of
<1>11. Q \subseteq Phys /\ \A p \in Q : /\ doc.strip[p] # None /\ Len(doc.levels[p]) > 1
                                       /\ IsInjective(doc.levels[p])
                                       /\ doc.levels[p] \in Seq(Reals)
  BY <1>6, <1>8
<1>12. ps \in Seq(Q)
  <2>1. IsFiniteSet(R)
    BY <1>7, StripAssumption, FS_Subset
  <2> DEFINE f == [r \in R |-> doc.phys[r]]
  <2>2. f \in Surjection(R, Q)
    BY DEF Surjection
  <2>3. IsFiniteSet(Q)
    BY <2>1, <2>2, FS_Surjection
  <2> HIDE DEF Q
  <2>4. Cardinality(Q) \in Nat
    BY <2>3, FS_CardinalityType
  <2>5. ps \in [1 .. Cardinality(Q) -> Q]
    BY DEF SetToSeqs
  <2> QED
    BY <2>4, <2>5
<1>13. DOMAIN ps = 1 .. Len(ps) /\ Len(ps) \in Nat /\ \A i \in 1 .. Len(ps) : ps[i] \in Q
  BY <1>12
<1> HIDE DEF Q
<1>14. groups \in Seq(Groupings)
  <2>1. \A i \in 1 .. Len(ps) : [phys |-> ps[i], reals |-> Of(ps[i])] \in Groupings
    BY <1>10, <1>11, <1>13 DEF Groupings
  <2> QED
    BY <1>13, <2>1
<1>15. \A i \in DOMAIN reals : reals[i] \in Range(RealsOf(doc, s))
  BY <1>9, RangeOf
<1>16. levels \in Seq(Reals \X Positive)
  <2>1. DOMAIN reals = 1 .. Len(reals) /\ Len(reals) \in Nat
    BY <1>9
  <2>2. \A i \in DOMAIN reals : <<reals[i], Level(doc, reals[i])>> \in Reals \X Positive
    BY <1>8, <1>15
  <2> QED
    BY <2>1, <2>2
<1>17. /\ \A i \in DOMAIN groups : groups[i].phys \in Q
       /\ \A i \in DOMAIN levels : ParentStrip(doc, levels[i][1]) # None
  BY <1>8, <1>13, <1>15
<1> HIDE DEF groups, levels
<1>18. c \in Ungroups
  BY <1>7, <1>14, <1>16 DEF Ungroups
<1>19. c \in Commands /\ c \notin SpareAdds /\ c.name = "Ungroup"
  BY <1>18 DEF Commands, SpareAdds
<1>20. GrownBy(c) \subseteq Q /\ \A r \in Places(c) : ParentStrip(doc, r) # None
  BY <1>17 DEF GrownBy, Places, RealsIn
<1> HIDE DEF c
<1>21. \A x \in Made(Stack) : x[1] \notin Q
  <2> SUFFICES ASSUME NEW x \in Made(Stack), x[1] \in Q PROVE FALSE
    OBVIOUS
  <2> DEFINE q == doc.levels[x[1]]
  <2>1. q \in Seq(Reals) /\ IsInjective(q) /\ Len(q) > 1
    BY <1>11
  <2>2. Range(q) \subseteq {x[2]}
    BY StripNow
  <2> HIDE DEF q
  <2>3. 1 \in DOMAIN q /\ 2 \in DOMAIN q
    BY <2>1
  <2>4. q[1] = x[2] /\ q[2] = x[2]
    BY <2>2, <2>3 DEF Range
  <2> QED
    BY <2>1, <2>3, <2>4 DEF IsInjective
<1>22. Given(doc, Stack, c)
  BY <1>11, <1>20, <1>21 DEF Given
<1> QED
  BY <1>1, <1>5, <1>19, <1>22, GivenKeeps

----------------------------------------------------------------------------
(****************************************************************************)
(* The beginning, and the theorem.                                          *)
(****************************************************************************)

\* A strip's physical terminal and its levels, as a project file has them.
Layout == Strips \X Phys \X Plains(Reals)

\* A project file has each strip's physical terminals and real terminals
\* once.
LEMMA LayoutIs ==
    ASSUME NEW layout \in Layouts
    PROVE  /\ layout \in Seq(Layout)
           /\ IsInjective(layout)
           /\ \A l, m \in Range(layout) :
                 l # m => l[2] # m[2] /\ Range(l[3]) \cap Range(m[3]) = {}
<1>1. layout \in Seq(Layout)
  BY LayoutAssumption DEF Layout, Plains
<1>2. \A k, l \in DOMAIN layout : k # l =>
          layout[k][2] # layout[l][2] /\ Range(layout[k][3]) \cap Range(layout[l][3]) = {}
  BY LayoutAssumption
<1>3. IsInjective(layout)
  BY <1>2 DEF IsInjective
<1>4. \A l, m \in Range(layout) :
          l # m => l[2] # m[2] /\ Range(l[3]) \cap Range(m[3]) = {}
  <2>1. \A l \in Range(layout) : \E k \in DOMAIN layout : l = layout[k]
    BY DEF Range
  <2> QED
    BY <1>2, <2>1
<1> QED
  BY <1>1, <1>3, <1>4

\* A document as TerminalStrip::fromXml() reads it: each object is in its
\* place, and what is in no strip has nothing in it.
LEMMA LoadedIs ==
    ASSUME NEW layout \in Layouts, NEW d, d = Loaded(layout)
    PROVE  /\ d \in Docs /\ Sound(d)
           /\ \A p \in Phys : d.strip[p] = None => d.levels[p] = << >>
           /\ \A p \in Phys : d.levels[p] # << >> => \E s \in Strips : p \in Range(d.order[s])
           /\ \A p \in Phys : d.strip[p] # None => p \in Range(d.order[d.strip[p]])
           /\ \A r \in Reals : d.phys[r] # None => r \in Range(d.levels[d.phys[r]])
           /\ \A b \in Bridges : d.on[b] = {}
<1> DEFINE L == Range(layout)
           of(s) == {l \in L : l[1] = s}
           where(p) == {l \in L : l[2] = p}
           who(r) == {l \in L : r \in Range(l[3])}
           mine(s) == Selected(layout, of(s))
           At(p) == CHOOSE l \in where(p) : TRUE
           By(r) == CHOOSE l \in who(r) : TRUE
           listed == {l[1] : l \in L}
           order == [s \in Strips |-> [i \in DOMAIN mine(s) |-> mine(s)[i][2]]]
           levels == [p \in Phys |-> IF where(p) = {} THEN << >> ELSE At(p)[3]]
           strip == [p \in Phys |-> IF where(p) = {} THEN None ELSE At(p)[1]]
           phys == [r \in Reals |-> IF who(r) = {} THEN None ELSE By(r)[2]]
           on == [b \in Bridges |-> {}]
           home == [b \in Bridges |-> None]
<1>1. d = [listed |-> listed, order |-> order, levels |-> levels, strip |-> strip,
           phys |-> phys, on |-> on, home |-> home]
  BY DEF Loaded
<1>2. /\ layout \in Seq(Layout) /\ IsInjective(layout)
      /\ \A l, m \in L : l # m => l[2] # m[2] /\ Range(l[3]) \cap Range(m[3]) = {}
  BY LayoutIs
<1>3. L \subseteq Layout
  BY <1>2, RangeOf
<1>4. \A l \in L : /\ l[1] \in Strips /\ l[2] \in Phys /\ l[3] \in Seq(Reals)
                   /\ IsInjective(l[3])
  BY <1>3 DEF Layout, Plains
<1>5. ASSUME NEW s \in Strips
      PROVE  /\ mine(s) \in Seq(Layout) /\ IsInjective(mine(s))
             /\ Range(mine(s)) = of(s)
  <2>1. /\ mine(s) \in Seq(Layout) /\ IsInjective(mine(s))
        /\ Range(mine(s)) = L \cap of(s)
    BY <1>2, SelectedIs
  <2> QED
    BY <2>1
<1>6. ASSUME NEW p \in Phys, NEW l \in L, l[2] = p PROVE where(p) # {} /\ At(p) = l
  BY <1>2, <1>6
<1>7. ASSUME NEW r \in Reals, NEW l \in L, r \in Range(l[3]) PROVE who(r) # {} /\ By(r) = l
  BY <1>2, <1>7
<1>8. \A p \in Phys : where(p) # {} => At(p) \in L /\ At(p)[2] = p
  OBVIOUS
<1>9. \A r \in Reals : who(r) # {} => By(r) \in L
  OBVIOUS
<1> HIDE DEF mine, At, By, L
<1>10. ASSUME NEW s \in Strips
       PROVE  /\ order[s] \in Seq(Phys) /\ IsInjective(order[s])
              /\ \A p : p \in Range(order[s]) <=> \E l \in L : l[1] = s /\ l[2] = p
  <2> DEFINE q == mine(s)
             o == order[s]
  <2>1. q \in Seq(Layout) /\ IsInjective(q) /\ Range(q) = of(s)
    BY <1>5
  <2> HIDE DEF q
  <2>2. o = [i \in DOMAIN q |-> q[i][2]]
    BY DEF q
  <2> HIDE DEF o
  <2>3. /\ Len(q) \in Nat /\ DOMAIN q = 1 .. Len(q)
        /\ \A i \in DOMAIN q : q[i] \in Range(q)
        /\ \A x : x \in Range(q) <=> \E i \in DOMAIN q : q[i] = x
    BY <2>1, RangeOf
  <2>4. \A i \in DOMAIN q : q[i] \in L /\ q[i][1] = s /\ q[i][2] \in Phys
    BY <1>4, <2>1, <2>3
  <2>5. o \in Seq(Phys)
    <3>1. o \in [1 .. Len(q) -> Phys]
      BY <2>2, <2>3, <2>4
    <3> QED
      BY <2>3, <3>1
  <2>6. IsInjective(o)
    BY <1>2, <2>1, <2>2, <2>4 DEF IsInjective
  <2>7. \A p : p \in Range(o) <=> \E i \in DOMAIN q : q[i][2] = p
    BY <2>2 DEF Range
  <2>8. \A p : p \in Range(o) <=> \E l \in L : l[1] = s /\ l[2] = p
    BY <2>1, <2>3, <2>4, <2>7
  <2> QED
    BY <2>5, <2>6, <2>8 DEF o
<1>11. \A p \in Phys : /\ where(p) = {} => levels[p] = << >> /\ strip[p] = None
                       /\ where(p) # {} => levels[p] = At(p)[3] /\ strip[p] = At(p)[1]
  OBVIOUS
<1>12. \A r \in Reals : phys[r] = IF who(r) = {} THEN None ELSE By(r)[2]
  OBVIOUS
<1>13. d \in Docs
  <2>1. listed \in SUBSET Strips
    BY <1>4
  <2>2. order \in [Strips -> Seq(Phys)]
    <3>1. \A s \in Strips : order[s] \in Seq(Phys)
      BY <1>10
    <3> QED
      BY <3>1
  <2>3. levels \in [Phys -> Seq(Reals)]
    <3>1. \A p \in Phys : levels[p] \in Seq(Reals)
      <4>1. << >> \in Seq(Reals)
        OBVIOUS
      <4> QED
        BY <1>4, <1>8, <1>11, <4>1
    <3> QED
      BY <3>1
  <2>4. strip \in [Phys -> Strips \cup {None}]
    BY <1>4, <1>8
  <2>5. phys \in [Reals -> Phys \cup {None}]
    BY <1>4, <1>9
  <2>6. on \in [Bridges -> SUBSET Reals] /\ home \in [Bridges -> Strips \cup {None}]
    OBVIOUS
  <2> HIDE DEF listed, order, levels, strip, phys, on, home
  <2> QED
    BY <1>1, <2>1, <2>2, <2>3, <2>4, <2>5, <2>6 DEF Docs
<1>14. /\ d.order = order /\ d.levels = levels /\ d.strip = strip /\ d.phys = phys
  BY <1>1
<1> HIDE DEF order, levels, strip, phys
<1>15. \A s \in Strips : \A p \in Range(order[s]) : strip[p] = s
  BY <1>4, <1>6, <1>10, <1>11
<1>16. \A p \in Phys : IsInjective(levels[p])
  <2>1. IsInjective(<< >>)
    BY DEF IsInjective
  <2> QED
    BY <1>4, <1>8, <1>11, <2>1
<1>17. \A p \in Phys : \A r \in Range(levels[p]) : phys[r] = p
  <2> TAKE p \in Phys
  <2> TAKE r \in Range(levels[p])
  <2>1. CASE where(p) = {}
    <3>1. Range(levels[p]) = {}
      BY <1>11, <2>1 DEF Range
    <3> QED
      BY <3>1
  <2>2. CASE where(p) # {}
    <3>1. At(p) \in L /\ At(p)[2] = p /\ levels[p] = At(p)[3]
      BY <1>8, <1>11, <2>2
    <3>2. r \in Reals
      BY <1>4, <3>1, RangeOf
    <3>3. who(r) # {} /\ By(r) = At(p)
      BY <1>7, <3>1, <3>2
    <3> QED
      BY <1>12, <3>1, <3>2, <3>3
  <2> QED
    BY <2>1, <2>2
<1>18. Sound(d)
  BY <1>10, <1>14, <1>15, <1>16, <1>17 DEF Sound
<1>19. \A p \in Phys : strip[p] = None => levels[p] = << >>
  BY <1>4, <1>8, <1>11, StripAssumption
<1>20. \A p \in Phys : levels[p] # << >> => \E s \in Strips : p \in Range(order[s])
  <2> SUFFICES ASSUME NEW p \in Phys, levels[p] # << >>
               PROVE  \E s \in Strips : p \in Range(order[s])
    OBVIOUS
  <2>1. At(p) \in L /\ At(p)[2] = p
    BY <1>8, <1>11
  <2>2. At(p)[1] \in Strips
    BY <1>4, <2>1
  <2>3. p \in Range(order[At(p)[1]])
    BY <1>10, <2>1, <2>2
  <2> QED
    BY <2>2, <2>3
<1>21. ASSUME NEW p \in Phys, strip[p] # None PROVE p \in Range(order[strip[p]])
  <2>1. At(p) \in L /\ At(p)[2] = p /\ strip[p] = At(p)[1]
    BY <1>8, <1>11, <1>21
  <2> QED
    BY <1>4, <1>10, <2>1
<1>22. ASSUME NEW r \in Reals, phys[r] # None PROVE r \in Range(levels[phys[r]])
  <2>1. who(r) # {}
    BY <1>12, <1>22
  <2>2. By(r) \in L /\ r \in Range(By(r)[3]) /\ phys[r] = By(r)[2]
    BY <1>12, <2>1 DEF By
  <2>3. levels[By(r)[2]] = By(r)[3]
    BY <1>4, <1>6, <1>11, <2>2
  <2> QED
    BY <2>2, <2>3
<1>23. d.on = on
  BY <1>1
<1> QED
  BY <1>13, <1>14, <1>18, <1>19, <1>20, <1>21, <1>22, <1>23

\* The invariant holds when a project has been read.
LEMMA InitStrip ==
    ASSUME Init
    PROVE  StripInv
<1>1. done = << >> /\ undone = << >>
  BY DEF Init
<1>2. /\ doc \in Docs /\ Sound(doc)
      /\ \A p \in Phys : doc.strip[p] = None => doc.levels[p] = << >>
      /\ \A p \in Phys : doc.levels[p] # << >> => \E s \in Strips : p \in Range(doc.order[s])
  <2>1. PICK layout \in Layouts : doc = Loaded(layout)
    BY DEF Init
  <2> QED
    BY <2>1, LoadedIs
<1>3. Range(<< >>) = {}
  BY DEF Range
<1>4. Entries = {} /\ Len(done) = 0
  BY <1>1, <1>3 DEF Entries
<1>5. Types /\ OnlyGiven
  BY <1>1, <1>2, <1>4 DEF Types, OnlyGiven
<1>6. DOMAIN Stack = {}
  <2>1. Stack = [k \in 1 .. 0 |-> IF k <= 0 THEN << >>[k].cmd ELSE << >>[k].cmd]
    BY <1>1 DEF Stack, StackOf
  <2> QED
    BY <2>1
<1>7. Made(Stack) = {} /\ Growing(Stack) = {} /\ InTurn(Stack) /\ Apart(Stack)
  BY <1>6 DEF Made, Growing, InTurn, Apart
<1>8. doc \in Good(Waiting(Stack, 0), Made(Stack), Growing(Stack))
  BY <1>2, <1>3, <1>7 DEF Good, Fits
<1>9. Ready
  BY <1>4, <1>7, <1>8 DEF Ready, Standing
<1>10. SparesNowhere
  <2> SUFFICES ASSUME NEW r \in UnusedSpare, NEW p \in Phys PROVE r \notin Range(doc.levels[p])
    BY DEF SparesNowhere, Nowhere
  <2>1. CASE doc.levels[p] = << >>
    BY <1>3, <2>1
  <2>2. CASE doc.levels[p] # << >>
    <3>1. p \in Reach(doc, Entries)
      BY <1>2, <2>2 DEF Reach
    <3> QED
      BY <3>1, UnmadeIs DEF UnusedSpare
  <2> QED
    BY <2>1, <2>2
<1> QED
  BY <1>5, <1>9, <1>10 DEF StripInv

\* A user does not change his habits.
LEMMA HabitStays ==
    ASSUME Next
    PROVE  habit' = habit
<1>1. \A c : Push(c) => habit' = habit
  BY DEF Push
<1> HIDE DEF Push
<1>2. CASE AddTerminalToStripCommand
  BY <1>1, <1>2 DEF AddTerminalToStripCommand
<1>3. CASE RemoveTerminalFromStripCommand
  BY <1>1, <1>3 DEF RemoveTerminalFromStripCommand
<1>4. CASE MoveTerminalCommand
  BY <1>1, <1>4 DEF MoveTerminalCommand
<1>5. CASE AddSpareTerminalsCommand
  BY <1>1, <1>5 DEF AddSpareTerminalsCommand
<1>6. CASE ChangeTerminalLevel
  BY <1>1, <1>6 DEF ChangeTerminalLevel
<1>7. CASE SortTerminalStripCommand
  BY <1>1, <1>7 DEF SortTerminalStripCommand
<1>8. CASE GroupTerminalsCommand
  BY <1>1, <1>8 DEF GroupTerminalsCommand
<1>9. CASE UnGroupTerminalsCommand
  BY <1>1, <1>9 DEF UnGroupTerminalsCommand
<1>10. CASE BridgeTerminalsCommand
  BY <1>1, <1>10 DEF BridgeTerminalsCommand
<1>11. CASE UnBridgeTerminalsCommand
  BY <1>1, <1>11 DEF UnBridgeTerminalsCommand
<1>12. CASE AddTerminalStripCommand
  BY <1>1, <1>12 DEF AddTerminalStripCommand
<1>13. CASE RemoveTerminalStripCommand
  BY <1>1, <1>13 DEF RemoveTerminalStripCommand
<1>14. CASE Undo
  BY <1>14 DEF Undo
<1>15. CASE Redo
  BY <1>15 DEF Redo
<1> QED
  BY <1>2, <1>3, <1>4, <1>5, <1>6, <1>7, <1>8, <1>9, <1>10, <1>11, <1>12, <1>13, <1>14,
     <1>15 DEF Next

\* Each step of a user who deletes no strip, and does not both make spares
\* and group, keeps the invariant.
LEMMA NextKeeps ==
    ASSUME StripInv, Plain, Next
    PROVE  StripInv'
<1>1. ~ RemoveTerminalStripCommand
  BY DEF RemoveTerminalStripCommand, Gives, Plain
<1> QED
  BY <1>1, AddKeeps, RemoveKeeps, MoveKeeps, SparesKeeps, LevelKeeps, SortKeeps, GroupKeeps,
     UngroupKeeps, BridgeKeeps, UnbridgeKeeps, AddStripKeeps, UndoKeeps, RedoKeeps DEF Next

\* The invariant says that each terminal is in one place.
LEMMA StripInvSound ==
    ASSUME StripInv
    PROVE  InOnePlace
<1>1. doc \in Docs /\ Sound(doc)
  BY StripNow
<1>2. \A s \in Strips : Listed(s) \subseteq Phys
  BY <1>1, DocParts, RangeOf DEF Listed
<1> QED
  BY <1>1, <1>2 DEF Sound, InOnePlace, Listed

\* The inductive invariant of the strips holds for such a user however long
\* he works: nothing a command of the stack does, undone or made again, finds
\* a terminal in another place than the one it was made for.
THEOREM PlaceInvariant == Spec => [](Plain => StripInv)
<1>1. Init => (Plain => StripInv)
  BY InitStrip
<1>2. (Plain => StripInv) /\ [Next]_vars => (Plain => StripInv)'
  <2> SUFFICES ASSUME Plain => StripInv, [Next]_vars, Plain' PROVE StripInv'
    OBVIOUS
  <2>1. CASE Next
    <3>1. Plain
      BY <2>1, HabitStays DEF Plain
    <3> QED
      BY <2>1, <3>1, NextKeeps
  <2>2. CASE UNCHANGED vars
    <3>1. doc' = doc /\ done' = done /\ undone' = undone /\ habit' = habit
      BY <2>2 DEF vars
    <3>2. Plain /\ Types /\ OnlyGiven /\ SparesNowhere /\ Ready
      BY <3>1 DEF Plain, StripInv
    <3>3. Entries' = Entries /\ Stack' = Stack
      BY <3>1 DEF Entries, Stack
    <3>4. UnusedSpare' = UnusedSpare
      BY <3>1, <3>3 DEF UnusedSpare
    <3>5. Types' /\ OnlyGiven'
      BY <3>1, <3>2, <3>3 DEF Types, OnlyGiven
    <3>6. SparesNowhere' /\ Ready'
      BY <3>1, <3>2, <3>3, <3>4 DEF SparesNowhere, Ready
    <3> QED
      BY <3>5, <3>6 DEF StripInv
  <2> QED
    BY <2>1, <2>2
<1> QED
  BY <1>1, <1>2, PTL DEF Spec

\* The terminals of such a user are each in one place whatever he does,
\* undoes and redoes (OnePlace): no real terminal is in two physical
\* terminals, no physical terminal in two strips, and each knows its owner
\* (sources/TerminalStrip/terminalstrip.cpp, physicalterminal.cpp and the
\* undo commands).
THEOREM EachInOnePlace == Spec => []OnePlace
<1>1. (Plain => StripInv) => OnePlace
  BY StripInvSound DEF OnePlace
<1> QED
  BY <1>1, PlaceInvariant, PTL

----------------------------------------------------------------------------
(****************************************************************************)
(* What two documents that look alike have in common, and bridges in order. *)
(****************************************************************************)

\* Each object that has an owner is with it.
Owned(d) ==
    /\ \A p \in Phys : d.strip[p] # None => p \in Range(d.order[d.strip[p]])
    /\ \A r \in Reals : d.phys[r] # None => r \in Range(d.levels[d.phys[r]])

\* A document in which each object is with its owner and with no other.
Whole == {d \in Docs : Sound(d) /\ Owned(d)}

\* What is in the strips of d has the same levels in x,
SameLevels(d, x) == \A s \in Strips : \A p \in Range(d.order[s]) : x.levels[p] = d.levels[p]

\* the bridges join the same terminals, in the same strips,
SameBridges(d, x) ==
    x.on = d.on /\ \A b \in Bridges : d.on[b] # {} => x.home[b] = d.home[b]

\* and the strips have the same terminals.
SamePlaces(d, x) == x.order = d.order /\ SameLevels(d, x)

\* d and x are shown alike: they may differ in what is in no strip and in the
\* strip of a bridge that joins nothing.
LooksLike(d, x) == x.listed = d.listed /\ SamePlaces(d, x) /\ SameBridges(d, x)

\* The place of a real terminal in its strip.
Pos(d, s, r) == IndexIn(d.order[s], d.phys[r])

\* A terminal of a strip is in e where it was in d.
StillThere(d, e, r) ==
    /\ ParentStrip(d, r) # None
    /\ e.phys[r] = d.phys[r] /\ ParentStrip(e, r) = ParentStrip(d, r)
    /\ Level(e, r) = Level(d, r)
    /\ Pos(e, ParentStrip(d, r), r) = Pos(d, ParentStrip(d, r), r)

\* Terminals of one level of neighbouring physical terminals, two of them at
\* least: what a bridge can join.
InRow(d, s, R) ==
    /\ Cardinality(R) >= 2
    /\ \A q, r \in R : Level(d, q) = Level(d, r) /\ (q # r => d.phys[q] # d.phys[r])
    /\ Consecutive(PositionsOf(d, s, R))

\* The bridge b joins such a row of terminals of its strip, or nothing.
Joins(d, b) ==
    d.on[b] # {} =>
        /\ d.home[b] \in Strips
        /\ \A r \in d.on[b] : ParentStrip(d, r) = d.home[b]
        /\ InRow(d, d.home[b], d.on[b])

\* No terminal is on two bridges.
OneBridge(d) == \A b, c \in Bridges : b # c => d.on[b] \cap d.on[c] = {}

\* All bridges are in order.
Tidy(d) == (\A b \in Bridges : Joins(d, b)) /\ OneBridge(d)

\* A set of numbers has a least one.
LEMMA LeastOf ==
    ASSUME NEW I \in SUBSET Nat, I # {}
    PROVE  \E i \in I : \A j \in I : i <= j
<1> DEFINE R == OpToRel(<, Nat)
<1>1. IsWellFoundedOn(R, Nat)
  BY NatLessThanWellFounded
<1>2. \A x, y \in Nat : y < x => <<y, x>> \in R
  BY DEF OpToRel
<1> HIDE DEF R
<1>3. PICK i \in I : \A j \in I : ~ (<<j, i>> \in R)
  BY <1>1, WFMin
<1>4. ASSUME NEW j \in I PROVE i <= j
  <2>1. i \in Nat /\ j \in Nat
    OBVIOUS
  <2>2. ~ (j < i)
    BY <1>2, <1>3, <2>1
  <2> QED
    BY <2>1, <2>2
<1> QED
  BY <1>4

\* A bounded set of numbers has a greatest one.
LEMMA GreatestOf ==
    ASSUME NEW I \in SUBSET Nat, I # {}, NEW n \in Nat, \A i \in I : i <= n
    PROVE  \E i \in I : \A j \in I : i >= j
<1> DEFINE J == {n - i : i \in I}
<1>1. J \in (SUBSET Nat) /\ J # {}
  <2>1. \A i \in I : n - i \in Nat
    OBVIOUS
  <2> QED
    BY <2>1
<1>2. PICK k \in J : \A j \in J : k <= j
  <2> HIDE DEF J
  <2> QED
    BY <1>1, LeastOf
<1>3. PICK i \in I : k = n - i
  OBVIOUS
<1>4. ASSUME NEW j \in I PROVE i >= j
  <2>1. n - j \in J
    OBVIOUS
  <2>2. n - i <= n - j
    BY <1>2, <1>3, <2>1
  <2> QED
    BY <2>2
<1> QED
  BY <1>4

\* Where an element of a sequence is.
LEMMA IndexIs ==
    ASSUME NEW T, NEW q \in Seq(T), NEW e
    PROVE  /\ e \in Range(q) => IndexIn(q, e) \in 1 .. Len(q) /\ q[IndexIn(q, e)] = e
           /\ e \notin Range(q) => IndexIn(q, e) = 0
           /\ IsInjective(q) => \A i \in 1 .. Len(q) : IndexIn(q, q[i]) = i
<1> DEFINE I == {i \in 1 .. Len(q) : q[i] = e}
<1>1. /\ Len(q) \in Nat /\ DOMAIN q = 1 .. Len(q)
      /\ \A x : x \in Range(q) <=> \E i \in 1 .. Len(q) : q[i] = x
  BY RangeOf
<1>2. ASSUME e \in Range(q) PROVE IndexIn(q, e) \in 1 .. Len(q) /\ q[IndexIn(q, e)] = e
  <2>1. I \in (SUBSET Nat) /\ I # {}
    BY <1>1, <1>2
  <2>2. PICK i \in I : \A j \in I : i <= j
    BY <2>1, LeastOf
  <2>3. i \in DOMAIN q /\ q[i] = e /\ \A j \in 1 .. (i - 1) : q[j] # e
    BY <1>1, <2>2
  <2>4. \E k \in DOMAIN q : q[k] = e /\ \A j \in 1 .. (k - 1) : q[j] # e
    BY <2>3
  <2>5. \E k \in DOMAIN q : q[k] = e
    BY <2>3
  <2>6. IndexIn(q, e) = CHOOSE k \in DOMAIN q : q[k] = e /\ \A j \in 1 .. (k - 1) : q[j] # e
    BY <2>5 DEF IndexIn
  <2>7. IndexIn(q, e) \in DOMAIN q /\ q[IndexIn(q, e)] = e
    BY <2>4, <2>6
  <2> QED
    BY <1>1, <2>7
<1>3. e \notin Range(q) => IndexIn(q, e) = 0
  BY <1>1 DEF IndexIn
<1>4. ASSUME IsInjective(q), NEW i \in 1 .. Len(q) PROVE IndexIn(q, q[i]) = i
  <2>1. \E k \in DOMAIN q : q[k] = q[i]
    BY <1>1
  <2>2. \A j, k \in DOMAIN q : q[j] = q[k] => j = k
    BY <1>4 DEF IsInjective
  <2>3. i \in DOMAIN q /\ \A j \in 1 .. (i - 1) : q[j] # q[i]
    BY <1>1, <2>2
  <2>4. \E k \in DOMAIN q : q[k] = q[i] /\ \A j \in 1 .. (k - 1) : q[j] # q[i]
    BY <2>3
  <2>5. IndexIn(q, q[i]) =
           CHOOSE k \in DOMAIN q : q[k] = q[i] /\ \A j \in 1 .. (k - 1) : q[j] # q[i]
    BY <2>1 DEF IndexIn
  <2>6. IndexIn(q, q[i]) \in DOMAIN q /\ q[IndexIn(q, q[i])] = q[i]
    BY <2>4, <2>5
  <2> QED
    BY <1>1, <2>2, <2>6
<1> QED
  BY <1>2, <1>3, <1>4

\* A terminal that says it is in a strip is in its lists.
LEMMA PlacedIs ==
    ASSUME NEW d \in Whole, NEW r \in Reals, ParentStrip(d, r) # None
    PROVE  LET p == d.phys[r]
               s == ParentStrip(d, r)
           IN  /\ p \in Phys /\ s \in Strips /\ d.strip[p] = s
               /\ p \in Range(d.order[s]) /\ r \in Range(d.levels[p])
               /\ Pos(d, s, r) \in 1 .. Len(d.order[s]) /\ d.order[s][Pos(d, s, r)] = p
               /\ Level(d, r) \in 1 .. Len(d.levels[p]) /\ d.levels[p][Level(d, r)] = r
<1>1. d \in Docs /\ Sound(d) /\ Owned(d)
  BY DEF Whole
<1> DEFINE p == d.phys[r]
           s == ParentStrip(d, r)
<1>2. p # None /\ s = d.strip[p]
  BY DEF ParentStrip
<1>3. p \in Phys /\ s \in Strips
  BY <1>1, <1>2, DocParts
<1>4. p \in Range(d.order[s]) /\ r \in Range(d.levels[p])
  BY <1>1, <1>2, <1>3 DEF Owned
<1>5. d.order[s] \in Seq(Phys) /\ d.levels[p] \in Seq(Reals)
  BY <1>1, <1>3, DocParts
<1>6. Pos(d, s, r) = IndexIn(d.order[s], p) /\ Level(d, r) = IndexIn(d.levels[p], r)
  BY <1>2 DEF Pos, Level
<1> HIDE DEF p, s
<1>7. IndexIn(d.order[s], p) \in 1 .. Len(d.order[s]) /\ d.order[s][IndexIn(d.order[s], p)] = p
  BY <1>4, <1>5, IndexIs
<1>8. IndexIn(d.levels[p], r) \in 1 .. Len(d.levels[p]) /\ d.levels[p][IndexIn(d.levels[p], r)] = r
  BY <1>4, <1>5, IndexIs
<1> QED
  BY <1>2, <1>3, <1>4, <1>6, <1>7, <1>8 DEF p, s

\* What looks like another document is looked like by it,
LEMMA LooksSymmetric ==
    ASSUME NEW d, NEW x, LooksLike(d, x)
    PROVE  LooksLike(x, d)
BY DEF LooksLike, SamePlaces, SameLevels, SameBridges

\* and looks like whatever that one looks like.
LEMMA LooksOn ==
    ASSUME NEW d, NEW x, NEW y, LooksLike(d, x), LooksLike(x, y)
    PROVE  LooksLike(d, y)
BY DEF LooksLike, SamePlaces, SameLevels, SameBridges

\* Where everything is in its place, each terminal has the same one.
LEMMA LooksThere ==
    ASSUME NEW d \in Whole, NEW x \in Whole, SamePlaces(d, x),
           NEW r \in Reals, ParentStrip(d, r) # None
    PROVE  StillThere(d, x, r)
<1> DEFINE p == d.phys[r]
           s == ParentStrip(d, r)
<1>1. /\ p \in Phys /\ s \in Strips /\ d.strip[p] = s
      /\ p \in Range(d.order[s]) /\ r \in Range(d.levels[p])
  BY PlacedIs
<1>2. x.order = d.order /\ x.levels[p] = d.levels[p]
  BY <1>1 DEF SamePlaces, SameLevels
<1>3. x \in Docs /\ Sound(x)
  BY DEF Whole
<1>4. /\ p \in Range(x.order[s]) /\ r \in Range(x.levels[p])
  BY <1>1, <1>2
<1>5. x.strip[p] = s /\ x.phys[r] = p /\ ParentStrip(x, r) = s /\ s # None /\ p # None
  <2> HIDE DEF p, s
  <2> QED
    BY <1>1, <1>3, <1>4, TerminalIs, StripAssumption
<1>6. Level(x, r) = Level(d, r)
  BY <1>2, <1>5 DEF Level
<1>7. Pos(x, s, r) = Pos(d, s, r)
  BY <1>2, <1>5 DEF Pos
<1> QED
  BY <1>5, <1>6, <1>7 DEF StillThere

\* The positions isBridgeable() compares are those of the terminals.
LEMMA PositionsAre ==
    ASSUME NEW d, NEW s, NEW R
    PROVE  PositionsOf(d, s, R) = {Pos(d, s, r) : r \in R}
BY DEF PositionsOf, Pos

\* A document whose bridges are in order still is when they and what they
\* join stay as they are.
LEMMA TidyStays ==
    ASSUME NEW d \in Docs, NEW e \in Docs, Tidy(d), SameBridges(d, e),
           \A b \in Bridges : \A r \in d.on[b] : StillThere(d, e, r)
    PROVE  Tidy(e)
<1>1. e.on = d.on /\ \A b \in Bridges : d.on[b] # {} => e.home[b] = d.home[b]
  BY DEF SameBridges
<1>2. ASSUME NEW b \in Bridges, d.on[b] # {} PROVE Joins(e, b)
  <2> DEFINE R == d.on[b]
             s == d.home[b]
  <2>1. /\ s \in Strips /\ \A r \in R : ParentStrip(d, r) = s
        /\ Cardinality(R) >= 2
        /\ \A q, r \in R : Level(d, q) = Level(d, r) /\ (q # r => d.phys[q] # d.phys[r])
        /\ Consecutive(PositionsOf(d, s, R))
    BY <1>2 DEF Tidy, Joins, InRow
  <2>2. e.on[b] = R /\ e.home[b] = s
    BY <1>1, <1>2
  <2>3. \A r \in R : /\ e.phys[r] = d.phys[r] /\ ParentStrip(e, r) = s
                     /\ Level(e, r) = Level(d, r) /\ Pos(e, s, r) = Pos(d, s, r)
    BY <2>1 DEF StillThere
  <2> HIDE DEF R, s
  <2>4. PositionsOf(e, s, R) = PositionsOf(d, s, R)
    BY <2>3, PositionsAre
  <2>5. \A q, r \in R : Level(e, q) = Level(e, r) /\ (q # r => e.phys[q] # e.phys[r])
    BY <2>1, <2>3
  <2>6. InRow(e, s, R)
    BY <2>1, <2>4, <2>5 DEF InRow
  <2> QED
    BY <2>1, <2>2, <2>3, <2>6 DEF Joins
<1>3. \A b \in Bridges : Joins(e, b)
  BY <1>1, <1>2 DEF Joins
<1>4. OneBridge(e)
  BY <1>1 DEF Tidy, OneBridge
<1> QED
  BY <1>3, <1>4 DEF Tidy

\* What looks like a document whose bridges are in order has them in order.
LEMMA TidyLooks ==
    ASSUME NEW d \in Whole, NEW x \in Whole, LooksLike(d, x), Tidy(d)
    PROVE  Tidy(x)
<1>1. d \in Docs /\ x \in Docs /\ SamePlaces(d, x) /\ SameBridges(d, x)
  BY DEF Whole, LooksLike
<1>2. ASSUME NEW b \in Bridges, NEW r \in d.on[b] PROVE StillThere(d, x, r)
  <2>1. r \in Reals
    BY <1>1, DocParts
  <2>2. ParentStrip(d, r) \in Strips
    BY DEF Tidy, Joins
  <2> QED
    BY <1>1, <2>1, <2>2, LooksThere, StripAssumption
<1> QED
  BY <1>1, <1>2, TidyStays

\* TerminalStrip::isBridged() of a terminal that is on one bridge.
LEMMA BridgeFound ==
    ASSUME NEW d \in Docs, Tidy(d), NEW s \in Strips, NEW r
    PROVE  /\ \A b \in Bridges : d.home[b] = s /\ r \in d.on[b] => BridgeOf(d, s, r) = b
           /\ BridgeOf(d, s, r) # None =>
                 /\ BridgeOf(d, s, r) \in Bridges
                 /\ d.home[BridgeOf(d, s, r)] = s /\ r \in d.on[BridgeOf(d, s, r)]
<1>1. OneBridge(d)
  BY DEF Tidy
<1>2. CASE \E b \in Bridges : d.home[b] = s /\ r \in d.on[b]
  <2> DEFINE c == CHOOSE b \in Bridges : d.home[b] = s /\ r \in d.on[b]
  <2>1. BridgeOf(d, s, r) = c
    BY <1>2 DEF BridgeOf
  <2>2. c \in Bridges /\ d.home[c] = s /\ r \in d.on[c]
    BY <1>2
  <2> HIDE DEF c
  <2>3. \A b \in Bridges : r \in d.on[b] => b = c
    BY <1>1, <2>2 DEF OneBridge
  <2> QED
    BY <2>1, <2>2, <2>3
<1>3. CASE ~\E b \in Bridges : d.home[b] = s /\ r \in d.on[b]
  <2>1. BridgeOf(d, s, r) = None
    BY <1>3 DEF BridgeOf
  <2> QED
    BY <1>3, <2>1
<1> QED
  BY <1>2, <1>3

\* A terminal of a strip that is on no bridge there is on none.
LEMMA OnNone ==
    ASSUME NEW d \in Docs, Tidy(d), NEW s \in Strips, NEW r,
           ParentStrip(d, r) = s, BridgeOf(d, s, r) = None
    PROVE  \A b \in Bridges : r \notin d.on[b]
<1> SUFFICES ASSUME NEW b \in Bridges, r \in d.on[b] PROVE FALSE
  OBVIOUS
<1>1. d.home[b] = s
  BY DEF Tidy, Joins
<1>2. BridgeOf(d, s, r) = b
  BY <1>1, BridgeFound
<1> QED
  BY <1>2, StripAssumption

----------------------------------------------------------------------------
(****************************************************************************)
(* Rows of terminals, and what may be bridged and taken off a bridge.       *)
(****************************************************************************)

\* R is all that T has at one of its ends.
AtEnd(d, s, R, T) ==
    \/ \A q \in T \ R, r \in R : Pos(d, s, q) > Pos(d, s, r)
    \/ \A q \in T \ R, r \in R : Pos(d, s, q) < Pos(d, s, r)

\* Real terminals of the strip s.
InStrip(d, s, R) == R \in SUBSET Reals /\ \A r \in R : ParentStrip(d, r) = s

\* The positions of terminals of a strip are places of its order.
LEMMA RowPositions ==
    ASSUME NEW d \in Whole, NEW s \in Strips, NEW R, InStrip(d, s, R)
    PROVE  /\ \A r \in R : /\ Pos(d, s, r) \in 1 .. Len(d.order[s])
                           /\ d.order[s][Pos(d, s, r)] = d.phys[r]
           /\ Len(d.order[s]) \in Nat
           /\ PositionsOf(d, s, R) \in SUBSET (1 .. Len(d.order[s]))
<1>1. \A r \in R : r \in Reals /\ ParentStrip(d, r) = s /\ ParentStrip(d, r) # None
  BY StripAssumption DEF InStrip
<1>2. \A r \in R : /\ Pos(d, s, r) \in 1 .. Len(d.order[s])
                   /\ d.order[s][Pos(d, s, r)] = d.phys[r]
  BY <1>1, PlacedIs
<1>3. d.order[s] \in Seq(Phys)
  BY DocParts DEF Whole
<1>4. Len(d.order[s]) \in Nat
  BY <1>3
<1> QED
  BY <1>2, <1>4, PositionsAre

\* Terminals of as many physical terminals have as many positions.
LEMMA RowApart ==
    ASSUME NEW d \in Whole, NEW s \in Strips, NEW R, InStrip(d, s, R),
           \A q, r \in R : q # r => d.phys[q] # d.phys[r]
    PROVE  /\ \A q, r \in R : Pos(d, s, q) = Pos(d, s, r) => q = r
           /\ Cardinality(PositionsOf(d, s, R)) = Cardinality(R)
<1> DEFINE P == PositionsOf(d, s, R)
           f == [r \in R |-> Pos(d, s, r)]
<1>1. \A q, r \in R : Pos(d, s, q) = Pos(d, s, r) => q = r
  BY RowPositions
<1>2. P = {Pos(d, s, r) : r \in R}
  BY PositionsAre
<1> HIDE DEF P
<1>3. f \in [R -> P] /\ \A y \in P : \E r \in R : f[r] = y
  BY <1>2
<1>4. f \in Surjection(R, P)
  BY <1>3 DEF Surjection
<1>5. f \in Injection(R, P)
  BY <1>1, <1>3 DEF Injection, IsInjective
<1>6. IsFiniteSet(R)
  BY StripAssumption, FS_Subset DEF InStrip
<1> HIDE DEF f
<1>7. Cardinality(P) = Cardinality(R)
  BY <1>4, <1>5, <1>6, FS_Surjection
<1> QED
  BY <1>1, <1>7 DEF P

\* TerminalStrip::isBridgeable() of terminals in a row of which one at least
\* is on no bridge, and the others on b.
LEMMA RowBridgeable ==
    ASSUME NEW d \in Whole, NEW s \in Strips, NEW R, InStrip(d, s, R), InRow(d, s, R), NEW b,
           \A r \in R : BridgeOf(d, s, r) \in {None, b},
           \E r \in R : BridgeOf(d, s, r) = None
    PROVE  IsBridgeable(d, s, R)
<1> DEFINE bridged == {r \in R : BridgeOf(d, s, r) # None}
<1>1. /\ Cardinality(R) >= 2
      /\ \A q, r \in R : Level(d, q) = Level(d, r) /\ (q # r => d.phys[q] # d.phys[r])
      /\ Consecutive(PositionsOf(d, s, R))
  BY DEF InRow
<1>2. Cardinality(PositionsOf(d, s, R)) = Cardinality(R)
  BY <1>1, RowApart
<1>3. \A q, r \in bridged : BridgeOf(d, s, q) = BridgeOf(d, s, r)
  OBVIOUS
<1>4. bridged # R
  OBVIOUS
<1> QED
  BY <1>1, <1>2, <1>3, <1>4 DEF IsBridgeable

\* What TerminalStrip::isBridgeable() finds is in a row.
LEMMA BridgeableRow ==
    ASSUME NEW d, NEW s, NEW R, IsBridgeable(d, s, R)
    PROVE  InRow(d, s, R)
BY DEF IsBridgeable, InRow

\* What is left of a row when its end is taken away.
LEMMA RowRests ==
    ASSUME NEW d \in Whole, NEW s \in Strips, NEW T, InStrip(d, s, T), InRow(d, s, T),
           NEW R \in SUBSET T, R # {}, AtEnd(d, s, R, T), Cardinality(T \ R) >= 2
    PROVE  InRow(d, s, T \ R)
<1> DEFINE U == T \ R
<1>1. /\ \A q, r \in T : Level(d, q) = Level(d, r) /\ (q # r => d.phys[q] # d.phys[r])
      /\ Consecutive(PositionsOf(d, s, T))
  BY DEF InRow
<1>2. \A r \in T : Pos(d, s, r) \in Nat
  BY RowPositions
<1>3. Consecutive(PositionsOf(d, s, U))
  <2> SUFFICES ASSUME NEW q \in U, NEW r \in U, NEW k \in Pos(d, s, q) .. Pos(d, s, r)
               PROVE  \E u \in U : k = Pos(d, s, u)
    BY PositionsAre DEF Consecutive
  <2>1. \E t \in T : k = Pos(d, s, t)
    <3> DEFINE P == PositionsOf(d, s, T)
    <3>1. P = {Pos(d, s, t) : t \in T} /\ Pos(d, s, q) \in P /\ Pos(d, s, r) \in P
      BY PositionsAre
    <3> HIDE DEF P
    <3>2. k \in P
      BY <1>1, <3>1 DEF Consecutive, P
    <3> QED
      BY <3>1, <3>2
  <2>2. PICK t \in T : k = Pos(d, s, t)
    BY <2>1
  <2>3. k \in Nat /\ Pos(d, s, q) <= k /\ k <= Pos(d, s, r)
    BY <1>2, <2>2
  <2>4. t \notin R
    <3>1. CASE \A u \in T \ R, v \in R : Pos(d, s, u) > Pos(d, s, v)
      BY <1>2, <2>2, <2>3, <3>1
    <3>2. CASE \A u \in T \ R, v \in R : Pos(d, s, u) < Pos(d, s, v)
      BY <1>2, <2>2, <2>3, <3>2
    <3> QED
      BY <3>1, <3>2 DEF AtEnd
  <2> QED
    BY <2>2, <2>4
<1> QED
  BY <1>1, <1>3 DEF InRow

\* What may be left on a bridge is nothing or two terminals at least.
LEMMA TwoRest ==
    ASSUME NEW T, IsFiniteSet(T), NEW R \in SUBSET T, R # T,
           Cardinality(T) # Cardinality(R) + 1
    PROVE  Cardinality(T \ R) >= 2
<1>1. /\ Cardinality(T) \in Nat /\ IsFiniteSet(R) /\ Cardinality(R) <= Cardinality(T)
      /\ Cardinality(R) # Cardinality(T)
  BY FS_CardinalityType, FS_Subset
<1>2. Cardinality(R) \in Nat
  BY <1>1, FS_CardinalityType
<1>3. Cardinality(T \ R) = Cardinality(T) - Cardinality(T \cap R)
  BY FS_Difference
<1>4. T \cap R = R
  OBVIOUS
<1>5. Cardinality(T \ R) = Cardinality(T) - Cardinality(R)
  BY <1>3, <1>4
<1> DEFINE t == Cardinality(T)
           r == Cardinality(R)
<1>6. t \in Nat /\ r \in Nat /\ r <= t /\ r # t /\ t # r + 1
  BY <1>1, <1>2
<1> HIDE DEF t, r
<1>7. t - r >= 2
  BY <1>6
<1> QED
  BY <1>5, <1>7 DEF t, r

\* TerminalStrip::canUnBridge()
Neighbour(d, s, R, i, step) ==
    InLevelAt(d, s, Level(d, CHOOSE r \in R : Pos(d, s, r) = i), i + step)

\* What is next to the terminal at i is not on the bridge b.
Ends(d, s, R, b, i, step) ==
    Neighbour(d, s, R, i, step) = None \/ BridgeOf(d, s, Neighbour(d, s, R, i, step)) # b

\* What canUnBridge() asks, where no terminal is on two bridges.
LEMMA CanUnBridgeIs ==
    ASSUME NEW d \in Docs, Tidy(d), NEW s \in Strips, NEW R \in SUBSET Reals
    PROVE  CanUnBridge(d, s, R) <=>
              /\ R # {} /\ Consecutive(PositionsOf(d, s, R))
              /\ \E b \in Bridges :
                    /\ d.home[b] = s /\ R \subseteq d.on[b]
                    /\ LET P == PositionsOf(d, s, R)
                           least == CHOOSE i \in P : \A j \in P : i <= j
                           most == CHOOSE i \in P : \A j \in P : i >= j
                       IN  Ends(d, s, R, b, least, -1) \/ Ends(d, s, R, b, most, 1)
<1> DEFINE P == PositionsOf(d, s, R)
           bridge == {BridgeOf(d, s, r) : r \in R}
           least == CHOOSE i \in P : \A j \in P : i <= j
           most == CHOOSE i \in P : \A j \in P : i >= j
           Stops(i, step) ==
              Neighbour(d, s, R, i, step) = None \/ BridgeOf(d, s, Neighbour(d, s, R, i, step)) \notin bridge
<1>1. CanUnBridge(d, s, R) <=>
          /\ R # {} /\ Cardinality(bridge) = 1 /\ None \notin bridge
          /\ Consecutive(P) /\ (Stops(least, -1) \/ Stops(most, 1))
  BY DEF CanUnBridge, Neighbour, Pos
<1>2. R # {} /\ Cardinality(bridge) = 1 /\ None \notin bridge <=>
         R # {} /\ \E b \in Bridges : bridge = {b} /\ d.home[b] = s /\ R \subseteq d.on[b]
  <2>1. ASSUME R # {}, Cardinality(bridge) = 1, None \notin bridge
        PROVE  \E b \in Bridges : bridge = {b} /\ d.home[b] = s /\ R \subseteq d.on[b]
    <3> DEFINE f == [r \in R |-> BridgeOf(d, s, r)]
    <3>1. f \in Surjection(R, bridge)
      BY DEF Surjection
    <3>2. IsFiniteSet(R)
      BY StripAssumption, FS_Subset
    <3> HIDE DEF f, bridge
    <3>3. IsFiniteSet(bridge)
      BY <3>1, <3>2, FS_Surjection
    <3>4. PICK b : bridge = {b}
      BY <2>1, <3>3, FS_Singleton
    <3>5. \A r \in R : BridgeOf(d, s, r) = b /\ b # None
      BY <2>1, <3>4 DEF bridge
    <3>6. \A r \in R : b \in Bridges /\ d.home[b] = s /\ r \in d.on[b]
      BY <3>5, BridgeFound
    <3> QED
      BY <2>1, <3>4, <3>6
  <2>2. ASSUME R # {}, NEW b \in Bridges, bridge = {b}
        PROVE  Cardinality(bridge) = 1 /\ None \notin bridge
    BY <2>2, FS_Singleton, StripAssumption
  <2> HIDE DEF bridge
  <2> QED
    BY <2>1, <2>2
<1>3. ASSUME NEW b \in Bridges, d.home[b] = s, R \subseteq d.on[b], R # {}
      PROVE  bridge = {b}
  <2>1. \A r \in R : BridgeOf(d, s, r) = b
    BY <1>3, BridgeFound
  <2> QED
    BY <1>3, <2>1
<1>4. ASSUME NEW b, bridge = {b}, NEW i, NEW step
      PROVE  Stops(i, step) <=> Ends(d, s, R, b, i, step)
  BY <1>4 DEF Ends
<1> HIDE DEF bridge, Stops, least, most, P
<1>5. ASSUME NEW b, bridge = {b}
      PROVE  Stops(least, -1) \/ Stops(most, 1)
                <=> Ends(d, s, R, b, least, -1) \/ Ends(d, s, R, b, most, 1)
  BY <1>4, <1>5
<1> DEFINE E(b) == Ends(d, s, R, b, least, -1) \/ Ends(d, s, R, b, most, 1)
           S == Stops(least, -1) \/ Stops(most, 1)
<1>6. \A b : bridge = {b} => (S <=> E(b))
  BY <1>5
<1> HIDE DEF E, S
<1>7. CanUnBridge(d, s, R) <=>
         /\ R # {} /\ Consecutive(P)
         /\ \E b \in Bridges : d.home[b] = s /\ R \subseteq d.on[b] /\ E(b)
  <2>1. CanUnBridge(d, s, R) <=>
          /\ R # {} /\ Cardinality(bridge) = 1 /\ None \notin bridge /\ Consecutive(P) /\ S
    BY <1>1 DEF S
  <2>2. \A b \in Bridges : d.home[b] = s /\ R \subseteq d.on[b] /\ R # {} => bridge = {b}
    BY <1>3
  <2> QED
    BY <1>2, <1>6, <2>1, <2>2
<1> QED
  BY <1>7 DEF E, P, least, most

\* What a bridge joins is a row of terminals of its strip.
LEMMA JoinedAre ==
    ASSUME NEW d \in Whole, Tidy(d), NEW b \in Bridges, d.on[b] # {}
    PROVE  /\ d.home[b] \in Strips /\ InStrip(d, d.home[b], d.on[b])
           /\ InRow(d, d.home[b], d.on[b])
BY DocParts DEF Tidy, Joins, InStrip, Whole

\* Nothing next to a terminal is on its bridge where the bridge joins nothing
\* at the position next to it.
LEMMA EndsIs ==
    ASSUME NEW d \in Whole, Tidy(d), NEW b \in Bridges, NEW s \in Strips, d.home[b] = s,
           NEW R \in SUBSET d.on[b], NEW i \in PositionsOf(d, s, R), NEW step \in Int
    PROVE  Ends(d, s, R, b, i, step) <=> \A q \in d.on[b] : Pos(d, s, q) # i + step
<1> DEFINE T == d.on[b]
           at == CHOOSE r \in R : Pos(d, s, r) = i
           l == Level(d, at)
           j == i + step
           nb == InLevelAt(d, s, l, j)
<1>1. at \in R
  BY PositionsAre
<1>2. InStrip(d, s, T) /\ InRow(d, s, T) /\ at \in T
  BY <1>1, JoinedAre
<1>3. /\ \A q \in T : Level(d, q) = l
      /\ \A q \in T : q \in Reals /\ ParentStrip(d, q) = s /\ ParentStrip(d, q) # None
  BY <1>2, StripAssumption DEF InRow, InStrip
<1>4. /\ \A q \in T : /\ Pos(d, s, q) \in 1 .. Len(d.order[s])
                      /\ d.order[s][Pos(d, s, q)] = d.phys[q]
                      /\ l \in 1 .. Len(d.levels[d.phys[q]])
                      /\ d.levels[d.phys[q]][l] = q
  BY <1>3, PlacedIs
<1>5. d \in Docs /\ Sound(d)
  BY DEF Whole
<1>6. d.order[s] \in Seq(Phys) /\ IsInjective(d.order[s]) /\ DOMAIN d.order[s] = 1 .. Len(d.order[s])
  BY <1>5, DocParts DEF Sound
<1>7. Ends(d, s, R, b, i, step) <=> nb = None \/ BridgeOf(d, s, nb) # b
  BY DEF Ends, Neighbour
<1>8. i \in Int /\ j \in Int
  <2>1. InStrip(d, s, R)
    BY <1>2 DEF InStrip
  <2>2. i \in 1 .. Len(d.order[s]) /\ Len(d.order[s]) \in Nat
    BY <2>1, RowPositions
  <2> QED
    BY <2>2
<1> HIDE DEF at, l, j
<1>9. ASSUME NEW q \in T, Pos(d, s, q) = j PROVE nb = q
  <2>1. j \in DOMAIN d.order[s] /\ d.order[s][j] = d.phys[q]
    BY <1>4, <1>6, <1>9
  <2>2. Len(d.levels[d.order[s][j]]) >= l /\ d.levels[d.order[s][j]][l] = q
    BY <1>4, <2>1
  <2> QED
    BY <2>1, <2>2 DEF InLevelAt
<1>10. ASSUME nb # None, nb \in T PROVE Pos(d, s, nb) = j
  <2>1. j \in DOMAIN d.order[s] /\ nb = d.levels[d.order[s][j]][l] /\ Len(d.levels[d.order[s][j]]) >= l
    BY <1>10 DEF InLevelAt
  <2> DEFINE p == d.order[s][j]
  <2>2. p \in Phys /\ p \in Range(d.order[s]) /\ j \in 1 .. Len(d.order[s])
    BY <1>6, <2>1, RangeOf
  <2>3. d.levels[p] \in Seq(Reals) /\ Len(d.levels[p]) \in Nat
    BY <1>5, <2>2, DocParts, RangeOf
  <2>4. l \in 1 .. Len(d.levels[p])
    <3>1. l \in Nat /\ l >= 1
      BY <1>4, <1>10
    <3> QED
      BY <2>1, <2>3, <3>1
  <2>5. nb \in Range(d.levels[p])
    BY <2>1, <2>3, <2>4, RangeOf
  <2>6. d.phys[nb] = p
    BY <1>5, <2>2, <2>5, TerminalIs
  <2>7. IndexIn(d.order[s], p) = j
    BY <1>6, <2>2, IndexIs
  <2> QED
    BY <2>6, <2>7 DEF Pos
<1>11. nb # None => (BridgeOf(d, s, nb) = b <=> nb \in T)
  <2>1. nb \in T => BridgeOf(d, s, nb) = b
    BY <1>5, BridgeFound
  <2>2. BridgeOf(d, s, nb) = b => nb \in T
    BY <1>5, BridgeFound, StripAssumption
  <2> QED
    BY <2>1, <2>2
<1>12. None \notin T
  BY <1>3, StripAssumption
<1> HIDE DEF nb, T
<1>13. Ends(d, s, R, b, i, step) <=> nb = None \/ nb \notin T
  BY <1>7, <1>11
<1>14. (\E q \in T : Pos(d, s, q) = j) <=> nb # None /\ nb \in T
  BY <1>9, <1>10, <1>12
<1> QED
  BY <1>13, <1>14 DEF T, j

\* The least and the greatest of a bounded set of numbers.
LEMMA LeastAndMost ==
    ASSUME NEW P \in SUBSET Nat, P # {}, NEW n \in Nat, \A i \in P : i <= n, NEW a, NEW z,
           a = CHOOSE i \in P : \A j \in P : i <= j, z = CHOOSE i \in P : \A j \in P : i >= j
    PROVE  a \in P /\ z \in P /\ \A j \in P : a <= j /\ j <= z
<1>1. \E i \in P : \A j \in P : i <= j
  BY LeastOf
<1>2. \E i \in P : \A j \in P : i >= j
  BY GreatestOf
<1>3. a \in P /\ \A j \in P : a <= j
  BY <1>1
<1>4. z \in P /\ \A j \in P : z >= j
  BY <1>2
<1> QED
  BY <1>3, <1>4

\* TerminalStrip::canUnBridge(): what can be taken off a bridge is one of its
\* ends.
LEMMA UnBridgeable ==
    ASSUME NEW d \in Whole, Tidy(d), NEW b \in Bridges, NEW s \in Strips, d.home[b] = s,
           NEW R \in SUBSET d.on[b], R # {}
    PROVE  CanUnBridge(d, s, R) <=> AtEnd(d, s, R, d.on[b])
<1> DEFINE T == d.on[b]
           P == PositionsOf(d, s, R)
           least == CHOOSE i \in P : \A j \in P : i <= j
           most == CHOOSE i \in P : \A j \in P : i >= j
           pos(r) == Pos(d, s, r)
           Before(i) == \A q \in T : pos(q) # i
<1>1. InStrip(d, s, T) /\ InRow(d, s, T) /\ InStrip(d, s, R) /\ R \in SUBSET Reals /\ d \in Docs
  BY JoinedAre DEF InStrip, Whole
<1>2. \A q, r \in T : pos(q) = pos(r) => q = r
  BY <1>1, RowApart DEF InRow
<1>3. \A q \in T : pos(q) \in Nat
  BY <1>1, RowPositions
<1>4. P = {pos(r) : r \in R}
  BY PositionsAre
<1>5. P \in (SUBSET Nat) /\ P # {} /\ Len(d.order[s]) \in Nat /\ \A i \in P : i <= Len(d.order[s])
  BY <1>1, <1>4, RowPositions
<1>6. least \in P /\ most \in P /\ \A j \in P : least <= j /\ j <= most
  BY <1>5, LeastAndMost
<1>7. \A q, r \in T : \A k \in pos(q) .. pos(r) : \E t \in T : pos(t) = k
  <2>1. Consecutive(PositionsOf(d, s, T))
    BY <1>1 DEF InRow
  <2> DEFINE Z == PositionsOf(d, s, T)
  <2>2. Z = {pos(t) : t \in T}
    BY PositionsAre
  <2>3. \A i, j \in Z : \A k \in i .. j : k \in Z
    BY <2>1 DEF Consecutive
  <2> HIDE DEF Z
  <2> QED
    BY <2>2, <2>3
<1> DEFINE E(c) == Ends(d, s, R, c, least, -1) \/ Ends(d, s, R, c, most, 1)
<1>8. E(b) <=> Before(least - 1) \/ Before(most + 1)
  <2>0. least \in PositionsOf(d, s, R) /\ most \in PositionsOf(d, s, R) /\ -1 \in Int /\ 1 \in Int
    BY <1>6
  <2> HIDE DEF least, most
  <2>1. Ends(d, s, R, b, least, -1) <=> \A q \in d.on[b] : Pos(d, s, q) # least + (-1)
    BY <2>0, EndsIs
  <2>2. Ends(d, s, R, b, most, 1) <=> \A q \in d.on[b] : Pos(d, s, q) # most + 1
    BY <2>0, EndsIs
  <2>3. least + (-1) = least - 1
    BY <1>5, <1>6
  <2> HIDE DEF P
  <2> QED
    BY <2>1, <2>2, <2>3
<1>9. CanUnBridge(d, s, R) <=> Consecutive(P) /\ E(b)
  <2>1. CanUnBridge(d, s, R) <=>
           /\ R # {} /\ Consecutive(P)
           /\ \E c \in Bridges : d.home[c] = s /\ R \subseteq d.on[c] /\ E(c)
    BY <1>1, CanUnBridgeIs
  <2>2. \A c \in Bridges : R \subseteq d.on[c] => c = b
    BY DEF Tidy, OneBridge
  <2> HIDE DEF E, P
  <2> QED
    BY <2>1, <2>2
<1> HIDE DEF least, most, P, E, pos, T
<1>10. (\A i, j \in P : \A k \in i .. j : k \in P) <=> Consecutive(P)
  BY DEF Consecutive
<1>11. R \subseteq T
  BY DEF T
<1>12. ASSUME Consecutive(P), Before(least - 1)
       PROVE  \A q \in T \ R, r \in R : pos(q) > pos(r)
  <2> SUFFICES ASSUME NEW q \in T \ R, NEW r \in R, pos(q) <= pos(r) PROVE FALSE
    BY <1>3, <1>11
  <2>1. pos(q) \in Nat /\ pos(r) \in Nat /\ least \in Nat /\ pos(r) \in P /\ least <= pos(r)
    BY <1>3, <1>4, <1>5, <1>6, <1>11
  <2>2. PICK a \in R : least = pos(a)
    BY <1>4, <1>6
  <2>3. pos(q) < least
    <3> SUFFICES ASSUME pos(q) >= least PROVE FALSE
      BY <2>1
    <3>1. pos(q) \in P
      BY <1>6, <1>10, <1>12, <2>1
    <3> QED
      BY <1>2, <1>4, <1>11, <3>1
  <2>4. least - 1 \in pos(q) .. pos(a)
    BY <2>1, <2>2, <2>3
  <2> QED
    BY <1>7, <1>11, <1>12, <2>4
<1>13. ASSUME Consecutive(P), Before(most + 1)
       PROVE  \A q \in T \ R, r \in R : pos(q) < pos(r)
  <2> SUFFICES ASSUME NEW q \in T \ R, NEW r \in R, pos(q) >= pos(r) PROVE FALSE
    BY <1>3, <1>11
  <2>1. pos(q) \in Nat /\ pos(r) \in Nat /\ most \in Nat /\ pos(r) \in P /\ pos(r) <= most
    BY <1>3, <1>4, <1>5, <1>6, <1>11
  <2>2. PICK a \in R : most = pos(a)
    BY <1>4, <1>6
  <2>3. pos(q) > most
    <3> SUFFICES ASSUME pos(q) <= most PROVE FALSE
      BY <2>1
    <3>1. pos(q) \in P
      BY <1>6, <1>10, <1>13, <2>1
    <3> QED
      BY <1>2, <1>4, <1>11, <3>1
  <2>4. most + 1 \in pos(a) .. pos(q)
    BY <2>1, <2>2, <2>3
  <2> QED
    BY <1>7, <1>11, <1>13, <2>4
<1>14. ASSUME \A q \in T \ R, r \in R : pos(q) > pos(r)
       PROVE  Before(least - 1)
  <2> SUFFICES ASSUME NEW q \in T, pos(q) = least - 1 PROVE FALSE
    OBVIOUS
  <2>1. PICK a \in R : least = pos(a)
    BY <1>4, <1>6
  <2>2. pos(a) \in Nat /\ q \notin R
    BY <1>3, <1>4, <1>5, <1>6, <1>11, <2>1
  <2> QED
    BY <1>14, <2>1, <2>2
<1>15. ASSUME \A q \in T \ R, r \in R : pos(q) < pos(r)
       PROVE  Before(most + 1)
  <2> SUFFICES ASSUME NEW q \in T, pos(q) = most + 1 PROVE FALSE
    OBVIOUS
  <2>1. PICK a \in R : most = pos(a)
    BY <1>4, <1>6
  <2>2. pos(a) \in Nat /\ q \notin R
    BY <1>3, <1>4, <1>5, <1>6, <1>11, <2>1
  <2> QED
    BY <1>15, <2>1, <2>2
<1>16. AtEnd(d, s, R, T) <=> \/ \A q \in T \ R, r \in R : pos(q) > pos(r)
                             \/ \A q \in T \ R, r \in R : pos(q) < pos(r)
  BY DEF AtEnd, pos
<1>17. ASSUME AtEnd(d, s, R, T) PROVE Consecutive(P)
  <2> SUFFICES ASSUME NEW q \in R, NEW r \in R, NEW k \in pos(q) .. pos(r) PROVE k \in P
    BY <1>4, <1>10
  <2>1. PICK t \in T : pos(t) = k
    BY <1>7, <1>11
  <2>2. pos(q) \in Nat /\ pos(r) \in Nat /\ pos(q) <= pos(t) /\ pos(t) <= pos(r) /\ pos(t) \in Nat
    BY <1>3, <1>11, <2>1
  <2>3. t \in R
    BY <1>16, <1>17, <2>2
  <2> QED
    BY <1>4, <2>1, <2>3
<1> HIDE DEF Before
<1>18. AtEnd(d, s, R, T) => CanUnBridge(d, s, R)
  BY <1>8, <1>9, <1>14, <1>15, <1>16, <1>17
<1>19. CanUnBridge(d, s, R) => AtEnd(d, s, R, T)
  BY <1>8, <1>9, <1>12, <1>13, <1>16
<1> QED
  BY <1>18, <1>19 DEF T

----------------------------------------------------------------------------
(****************************************************************************)
(* Parts of sequences, and the ends of strips.                              *)
(****************************************************************************)

\* What is selected of the first elements of a sequence, one after the other.
SelectedSoFar(T, seq, S, kept) ==
    /\ kept \in [0 .. Len(seq) -> Seq(T)]
    /\ kept[0] = << >>
    /\ \A n \in 1 .. Len(seq) :
         kept[n] = IF seq[n] \in S THEN Append(kept[n - 1], seq[n]) ELSE kept[n - 1]
    /\ Selected(seq, S) = kept[Len(seq)]

\* What is selected of a sequence is found one element after the other.
LEMMA SelectedSteps ==
    ASSUME NEW T, NEW seq \in Seq(T), NEW S
    PROVE  \E kept : SelectedSoFar(T, seq, S, kept)
<1> DEFINE m == Len(seq)
           Step(k, n) == IF seq[n] \in S THEN Append(k, seq[n]) ELSE k
           F(f) == [n \in 0 .. m |-> IF n = 0 THEN << >> ELSE Step(f[n - 1], n)]
           kept == CHOOSE f : f = F(f)
           D == Seq(T)
           G == [x \in D \X (1 .. m) |-> Step(x[1], x[2])]
<1>1. Selected(seq, S) = kept[m]
  BY DEF Selected
<1>2. m \in Nat /\ DOMAIN seq = 1 .. m /\ \A n \in 1 .. m : seq[n] \in T
  OBVIOUS
<1> HIDE DEF m
<1>3. \A k \in Seq(T), n \in 1 .. m : Step(k, n) \in Seq(T)
  BY <1>2
<1>4. << >> \in D
  OBVIOUS
<1> HIDE DEF Step, D
<1>5. G \in [D \X (1 .. m) -> D]
  BY <1>3 DEF D
<1>6. PICK g : Loops(D, << >>, m, G, g)
  <2> HIDE DEF G
  <2> QED
    BY <1>2, <1>4, <1>5, LoopExists
<1>7. \A n \in 1 .. m : g[n] = Step(g[n - 1], n)
  <2>1. \A n \in 1 .. m : g[n - 1] \in D
    BY <1>2, <1>6, LoopStays
  <2>2. \A n \in 1 .. m : G[<<g[n - 1], n>>] = Step(g[n - 1], n)
    BY <2>1
  <2> HIDE DEF G
  <2> QED
    BY <1>6, <2>2 DEF Loops
<1>8. g = F(g)
  <2>1. g[0] = << >> /\ g = [n \in 0 .. m |-> g[n]]
    BY <1>6 DEF Loops
  <2>2. \A n \in 0 .. m : n # 0 => n \in 1 .. m
    BY <1>2
  <2> HIDE DEF G
  <2> QED
    BY <1>7, <2>1, <2>2
<1>9. kept = F(kept)
  <2> HIDE DEF F
  <2> QED
    BY <1>8
<1> HIDE DEF kept
<1>10. kept[0] = << >> /\ (\A n \in 1 .. m : kept[n] = Step(kept[n - 1], n))
       /\ kept = [n \in 0 .. m |-> kept[n]]
  <2>1. 0 \in 0 .. m /\ \A n \in 1 .. m : n \in 0 .. m /\ n # 0
    BY <1>2
  <2> QED
    BY <1>9, <2>1
<1> DEFINE Q == {n \in 0 .. m : kept[n] \in D}
<1>11. 0 \in Q /\ \A n \in 1 .. m : n - 1 \in Q => n \in Q
  <2>1. 0 \in 0 .. m /\ kept[0] \in D /\ \A n \in 1 .. m : n \in 0 .. m
    BY <1>2, <1>4, <1>10
  <2>2. \A n \in 1 .. m : kept[n - 1] \in D => kept[n] \in D
    BY <1>3, <1>10 DEF D
  <2> QED
    BY <2>1, <2>2
<1> HIDE DEF Q
<1>12. \A n \in 0 .. m : n \in Q
  BY <1>2, <1>11, Ladder
<1>13. kept \in [0 .. m -> Seq(T)]
  BY <1>10, <1>12 DEF Q, D
<1> HIDE DEF F
<1>14. \A n \in 1 .. m : kept[n] = IF seq[n] \in S THEN Append(kept[n - 1], seq[n]) ELSE kept[n - 1]
  BY <1>10 DEF Step
<1>15. m = Len(seq)
  BY DEF m
<1> QED
  BY <1>1, <1>10, <1>13, <1>14, <1>15 DEF SelectedSoFar

\* A sequence of which everything is selected,
LEMMA SelectedAll ==
    ASSUME NEW T, NEW seq \in Seq(T), NEW S, Range(seq) \subseteq S
    PROVE  Selected(seq, S) = seq
<1>0. PICK kept : SelectedSoFar(T, seq, S, kept)
  BY SelectedSteps
<1>1. /\ kept \in [0 .. Len(seq) -> Seq(T)]
      /\ kept[0] = << >>
      /\ \A n \in 1 .. Len(seq) :
           kept[n] = IF seq[n] \in S THEN Append(kept[n - 1], seq[n]) ELSE kept[n - 1]
      /\ Selected(seq, S) = kept[Len(seq)]
  BY <1>0 DEF SelectedSoFar
<1>2. Len(seq) \in Nat /\ \A n \in 1 .. Len(seq) : seq[n] \in S /\ seq[n] \in T
  BY RangeOf
<1> DEFINE Q == {n \in 0 .. Len(seq) : /\ Len(kept[n]) = n
                                       /\ \A i \in 1 .. n : kept[n][i] = seq[i]}
<1>3. 0 \in Q
  BY <1>1, <1>2
<1>4. ASSUME NEW n \in 1 .. Len(seq), n - 1 \in Q PROVE n \in Q
  <2> DEFINE k == kept[n - 1]
  <2>1. k \in Seq(T) /\ Len(k) = n - 1 /\ \A i \in 1 .. (n - 1) : k[i] = seq[i]
    BY <1>1, <1>4
  <2>2. kept[n] = Append(k, seq[n]) /\ seq[n] \in T
    BY <1>1, <1>2
  <2> HIDE DEF k
  <2>3. Len(kept[n]) = n /\ \A i \in 1 .. n : kept[n][i] = seq[i]
    BY <2>1, <2>2
  <2> QED
    BY <2>3
<1> HIDE DEF Q
<1>5. \A n \in 0 .. Len(seq) : n \in Q
  BY <1>2, <1>3, <1>4, Ladder
<1>6. Len(seq) \in Q
  BY <1>2, <1>5
<1>7. /\ kept[Len(seq)] \in Seq(T) /\ Len(kept[Len(seq)]) = Len(seq)
      /\ \A i \in 1 .. Len(seq) : kept[Len(seq)][i] = seq[i]
  BY <1>1, <1>2, <1>6 DEF Q
<1> QED
  BY <1>1, <1>7, SeqEqual

\* one of which nothing is,
LEMMA SelectedNone ==
    ASSUME NEW T, NEW seq \in Seq(T), NEW S, Range(seq) \cap S = {}
    PROVE  Selected(seq, S) = << >>
<1>1. /\ Selected(seq, S) \in Seq(T) /\ Range(Selected(seq, S)) = {}
  BY SelectedIs
<1> HIDE DEF Selected
<1> DEFINE q == Selected(seq, S)
<1>2. Len(q) \in Nat /\ \A i \in 1 .. Len(q) : q[i] \in Range(q)
  BY <1>1, RangeOf
<1>3. Len(q) = 0
  <2> HIDE DEF q
  <2> QED
    BY <1>1, <1>2 DEF q
<1> HIDE DEF q
<1> QED
  BY <1>1, <1>3 DEF q

\* and one that has two parts.
LEMMA SelectedBoth ==
    ASSUME NEW T, NEW a \in Seq(T), NEW b \in Seq(T), NEW S
    PROVE  Selected(a \o b, S) = Selected(a, S) \o Selected(b, S)
<1> DEFINE z == a \o b
           m == Len(a)
           l == Len(b)
<1>1. /\ z \in Seq(T) /\ Len(z) = m + l /\ m \in Nat /\ l \in Nat
      /\ \A n \in 1 .. m : z[n] = a[n]
      /\ \A n \in 1 .. l : z[m + n] = b[n] /\ b[n] \in T
  BY ConcatProperties
<1> HIDE DEF z, m, l
<1>2. PICK g : SelectedSoFar(T, a, S, g)
  BY SelectedSteps
<1>3. PICK h : SelectedSoFar(T, b, S, h)
  BY SelectedSteps
<1>4. PICK k : SelectedSoFar(T, z, S, k)
  BY <1>1, SelectedSteps
<1>5. /\ g \in [0 .. m -> Seq(T)] /\ g[0] = << >> /\ Selected(a, S) = g[m]
      /\ \A n \in 1 .. m : g[n] = IF a[n] \in S THEN Append(g[n - 1], a[n]) ELSE g[n - 1]
  BY <1>2 DEF m, SelectedSoFar
<1>6. /\ h \in [0 .. l -> Seq(T)] /\ h[0] = << >> /\ Selected(b, S) = h[l]
      /\ \A n \in 1 .. l : h[n] = IF b[n] \in S THEN Append(h[n - 1], b[n]) ELSE h[n - 1]
  BY <1>3 DEF l, SelectedSoFar
<1>7. /\ k[0] = << >> /\ Selected(z, S) = k[m + l]
      /\ \A n \in 1 .. (m + l) : k[n] = IF z[n] \in S THEN Append(k[n - 1], z[n]) ELSE k[n - 1]
  BY <1>1, <1>4 DEF SelectedSoFar
<1> DEFINE Q == {n \in 0 .. m : k[n] = g[n]}
<1>8. 0 \in Q /\ \A n \in 1 .. m : n - 1 \in Q => n \in Q
  <2>1. 0 \in 0 .. m /\ \A n \in 1 .. m : n \in 1 .. (m + l) /\ n \in 0 .. m
    BY <1>1
  <2>2. \A n \in 1 .. m : k[n] = IF a[n] \in S THEN Append(k[n - 1], a[n]) ELSE k[n - 1]
    BY <1>1, <1>7, <2>1
  <2>3. \A n \in 1 .. m : k[n - 1] = g[n - 1] => k[n] = g[n]
    BY <1>5, <2>2
  <2>4. k[0] = g[0]
    BY <1>5, <1>7
  <2> QED
    BY <2>1, <2>3, <2>4
<1> HIDE DEF Q
<1>9. m \in Q
  <2>1. \A n \in 0 .. m : n \in Q
    BY <1>1, <1>8, Ladder
  <2>2. m \in 0 .. m
    BY <1>1
  <2> QED
    BY <2>1, <2>2
<1> DEFINE R == {n \in 0 .. l : k[m + n] = g[m] \o h[n]}
<1>10. 0 \in R
  <2>1. k[m + 0] = g[m] /\ g[m] \in Seq(T)
    BY <1>1, <1>5, <1>9 DEF Q
  <2>2. g[m] \o << >> = g[m]
    BY <2>1, ConcatEmptySeq
  <2> QED
    BY <1>1, <1>6, <2>1, <2>2
<1>11. ASSUME NEW n \in 1 .. l, n - 1 \in R PROVE n \in R
  <2>1. m + n \in 1 .. (m + l) /\ (m + n) - 1 = m + (n - 1)
    BY <1>1
  <2>2. k[m + n] = IF b[n] \in S THEN Append(k[m + (n - 1)], b[n]) ELSE k[m + (n - 1)]
    BY <1>1, <1>7, <2>1
  <2>3. k[m + (n - 1)] = g[m] \o h[n - 1]
    BY <1>11
  <2>4. g[m] \in Seq(T) /\ h[n - 1] \in Seq(T) /\ b[n] \in T
    BY <1>1, <1>5, <1>6
  <2>5. Append(g[m] \o h[n - 1], b[n]) = g[m] \o Append(h[n - 1], b[n])
    <3> DEFINE u == g[m]
               v == h[n - 1]
               w == b[n]
    <3>1. u \in Seq(T) /\ v \in Seq(T) /\ w \in T
      BY <2>4
    <3> HIDE DEF u, v, w
    <3>2. Append(u \o v, w) = u \o Append(v, w)
      <4>1. /\ u \o v \in Seq(T) /\ <<w>> \in Seq(T)
            /\ Append(u \o v, w) = (u \o v) \o <<w>> /\ Append(v, w) = v \o <<w>>
        BY <3>1, AppendIsConcat, ConcatProperties
      <4>2. (u \o v) \o <<w>> = u \o (v \o <<w>>)
        BY <3>1, <4>1, ConcatAssociative
      <4> QED
        BY <4>1, <4>2
    <3> QED
      BY <3>2 DEF u, v, w
  <2>6. h[n] = IF b[n] \in S THEN Append(h[n - 1], b[n]) ELSE h[n - 1]
    BY <1>6
  <2>7. k[m + n] = g[m] \o h[n]
    BY <2>2, <2>3, <2>5, <2>6
  <2>8. n \in 0 .. l
    OBVIOUS
  <2> QED
    BY <2>7, <2>8
<1> HIDE DEF R
<1>12. l \in R
  <2>1. \A n \in 0 .. l : n \in R
    BY <1>1, <1>10, <1>11, Ladder
  <2>2. l \in 0 .. l
    BY <1>1
  <2> QED
    BY <2>1, <2>2
<1> QED
  BY <1>5, <1>6, <1>7, <1>12 DEF R, z

\* A sequence without its element between two parts is the two parts.
LEMMA WithoutMiddle ==
    ASSUME NEW T, NEW a \in Seq(T), NEW x \in T, NEW c \in Seq(T), NEW q,
           q = a \o (<<x>> \o c), IsInjective(q)
    PROVE  Without(q, x) = a \o c
<1> DEFINE b == <<x>>
           z == b \o c
           S == Range(q) \ {x}
<1>1. b \in Seq(T) /\ Len(b) = 1 /\ b[1] = x /\ Range(b) = {x}
  BY DEF Range
<1>2. /\ z \in Seq(T) /\ Len(z) = Len(c) + 1 /\ z[1] = x
      /\ \A i \in 1 .. Len(c) : z[i + 1] = c[i]
  <2>1. /\ z \in Seq(T) /\ Len(z) = Len(b) + Len(c)
        /\ \A i \in 1 .. Len(b) + Len(c) : z[i] = IF i <= Len(b) THEN b[i] ELSE c[i - Len(b)]
    BY <1>1, ConcatProperties
  <2> HIDE DEF z, b
  <2> QED
    BY <1>1, <2>1
<1> HIDE DEF b, z, S
<1>3. /\ q \in Seq(T) /\ Len(q) = Len(a) + Len(z) /\ DOMAIN q = 1 .. Len(q)
      /\ \A i \in 1 .. Len(a) : q[i] = a[i]
      /\ \A i \in 1 .. Len(z) : q[Len(a) + i] = z[i]
  <2>1. q = a \o z
    BY DEF z, b
  <2>2. /\ a \o z \in Seq(T) /\ Len(a \o z) = Len(a) + Len(z)
        /\ \A i \in 1 .. Len(a) + Len(z) : (a \o z)[i] = IF i <= Len(a) THEN a[i] ELSE z[i - Len(a)]
    BY <1>2, ConcatProperties
  <2>3. DOMAIN (a \o z) = 1 .. Len(a \o z) /\ Len(a) \in Nat /\ Len(z) \in Nat
    BY <1>2, <2>2
  <2> QED
    BY <1>2, <2>1, <2>2, <2>3
<1>4. Len(a) \in Nat /\ Len(c) \in Nat /\ DOMAIN a = 1 .. Len(a) /\ DOMAIN c = 1 .. Len(c)
  OBVIOUS
<1>5. q[Len(a) + 1] = x /\ Len(a) + 1 \in DOMAIN q
  BY <1>2, <1>3, <1>4
<1>6. \A i, j \in DOMAIN q : q[i] = q[j] => i = j
  BY DEF IsInjective
<1>7. ASSUME NEW i \in 1 .. Len(a) PROVE a[i] \in S
  <2>1. i \in DOMAIN q /\ q[i] = a[i] /\ i # Len(a) + 1
    BY <1>3, <1>4, <1>2
  <2> QED
    BY <1>5, <1>6, <2>1 DEF S, Range
<1>8. ASSUME NEW i \in 1 .. Len(c) PROVE c[i] \in S
  <2>1. i + 1 \in 1 .. Len(z) /\ z[i + 1] = c[i] /\ Len(a) + (i + 1) \in DOMAIN q
        /\ Len(a) + (i + 1) # Len(a) + 1
    BY <1>2, <1>3, <1>4
  <2>2. q[Len(a) + (i + 1)] = c[i]
    BY <1>3, <2>1
  <2> QED
    BY <1>5, <1>6, <2>1, <2>2 DEF S, Range
<1>9. Range(a) \subseteq S /\ Range(c) \subseteq S
  BY <1>4, <1>7, <1>8 DEF Range
<1>10. x \notin S
  BY DEF S
<1>11. Selected(a, S) = a /\ Selected(c, S) = c
  BY <1>9, SelectedAll
<1>12. Selected(b, S) = << >>
  <2>1. Range(b) \cap S = {}
    BY <1>1, <1>10
  <2> QED
    BY <1>1, <2>1, SelectedNone
<1>13. Selected(z, S) = << >> \o c
  <2>1. Selected(b \o c, S) = Selected(b, S) \o Selected(c, S)
    BY <1>1, SelectedBoth
  <2> QED
    BY <1>11, <1>12, <2>1 DEF z
<1>14. << >> \o c = c
  BY ConcatEmptySeq
<1>15. Selected(q, S) = a \o c
  <2>1. Selected(a \o z, S) = Selected(a, S) \o Selected(z, S)
    BY <1>2, SelectedBoth
  <2>2. q = a \o z
    BY DEF z, b
  <2> QED
    BY <1>11, <1>13, <1>14, <2>1, <2>2
<1> QED
  BY <1>15 DEF Without, S

\* No bridge joins any of R.
Unbridged(d, R) == \A b \in Bridges : d.on[b] \cap R = {}

\* What is on no bridge is left alone.
LEMMA OffBridgeNothing ==
    ASSUME NEW d, NEW r, Unbridged(d, {r})
    PROVE  OffBridge(d, r) = d
<1>1. BridgeOf(d, ParentStrip(d, r), r) = None
  BY DEF BridgeOf, Unbridged
<1> QED
  BY <1>1 DEF OffBridge

\* When none of them is on a bridge, taking them off changes nothing.
LEMMA OffAllNothing ==
    ASSUME NEW d \in Docs, NEW rs \in Seq(Reals), Unbridged(d, Range(rs))
    PROVE  OffAll(d, rs) = d
<1> DEFINE m == Len(rs)
           Step(e, n) == OffBridge(e, rs[n])
           F(f) == [n \in 0 .. m |-> IF n = 0 THEN d ELSE Step(f[n - 1], n)]
           after == CHOOSE f : f = F(f)
           g == [n \in 0 .. m |-> d]
<1>1. OffAll(d, rs) = after[m]
  BY DEF OffAll, Through
<1>2. m \in Nat /\ \A n \in 1 .. m : rs[n] \in Range(rs)
  BY RangeOf
<1>3. \A n \in 1 .. m : Step(d, n) = d
  BY <1>2, OffBridgeNothing DEF Unbridged
<1> HIDE DEF m, Step
<1>4. g = F(g)
  <2>1. \A n \in 0 .. m : n # 0 => n \in 1 .. m /\ n - 1 \in 0 .. m
    BY <1>2
  <2> QED
    BY <1>3, <2>1
<1>5. after = F(after)
  <2> HIDE DEF F, g
  <2> QED
    BY <1>4
<1> HIDE DEF after, g
<1>6. after[0] = d /\ \A n \in 1 .. m : after[n] = Step(after[n - 1], n)
  BY <1>2, <1>5
<1> DEFINE D == {d}
<1>7. after[0] \in D /\ \A n \in 1 .. m : after[n - 1] \in D => after[n] \in D
  BY <1>3, <1>6
<1>8. after[m] \in D
  <2> HIDE DEF F, D
  <2>1. m \in Nat
    BY <1>2
  <2> QED
    BY <1>7, <2>1, LoopLands
<1> QED
  BY <1>1, <1>8

\* e has the same things, with the same owners but for the strips.
Rearranged(d, e) ==
    /\ e \in Docs
    /\ e.listed = d.listed /\ e.levels = d.levels /\ e.phys = d.phys
    /\ e.on = d.on /\ e.home = d.home

\* The strip ends with physical terminals none of which is bridged.
LooseEnd(d, s, a, ps) ==
    /\ a \in Seq(Phys) /\ ps \in Seq(Phys)
    /\ d.order[s] = a \o ps /\ IsInjective(d.order[s])
    /\ \A p \in Range(ps) : Unbridged(d, Range(d.levels[p]))

\* The end of the strip is gone, and nothing else.
EndTaken(d, s, a, ps, e) ==
    /\ Rearranged(d, e) /\ e.order = [d.order EXCEPT ![s] = a]
    /\ e.strip = [p \in Phys |-> IF p \in Range(ps) THEN None ELSE d.strip[p]]

\* TerminalStrip::removeTerminals() of the last physical terminals of a
\* strip.
LEMMA LastRemoved ==
    ASSUME NEW d \in Docs, NEW s \in Strips, NEW a, NEW ps, LooseEnd(d, s, a, ps)
    PROVE  EndTaken(d, s, a, ps, RemovePhysical(d, s, ps))
<1> DEFINE e == RemovePhysical(d, s, ps)
<1> SUFFICES /\ Rearranged(d, e) /\ e.order = [d.order EXCEPT ![s] = a]
             /\ e.strip = [p \in Phys |-> IF p \in Range(ps) THEN None ELSE d.strip[p]]
  BY DEF EndTaken
<1>0. /\ a \in Seq(Phys) /\ ps \in Seq(Phys)
      /\ d.order[s] = a \o ps /\ IsInjective(d.order[s])
      /\ \A p \in Range(ps) : Unbridged(d, Range(d.levels[p]))
  BY DEF LooseEnd
<1> USE <1>0
<1> DEFINE m == Len(ps)
           Out(f, p) == [f EXCEPT !.order[s] = Without(@, p)]
           Step(f, n) == IF ps[n] \notin Range(f.order[s]) THEN f
                         ELSE [OffAll([f EXCEPT !.order[s] = Without(@, ps[n])], f.levels[ps[n]])
                                  EXCEPT !.strip[ps[n]] = None]
           F(f) == [n \in 0 .. m |-> IF n = 0 THEN d ELSE Step(f[n - 1], n)]
           after == CHOOSE f : f = F(f)
           rest(n) == SubSeq(ps, n + 1, m)
           order(n) == [d.order EXCEPT ![s] = a \o rest(n)]
           strip(n) == [p \in Phys |-> IF \E i \in 1 .. n : ps[i] = p THEN None ELSE d.strip[p]]
           g == [n \in 0 .. m |-> [d EXCEPT !.order = order(n), !.strip = strip(n)]]
<1>1. e = after[m]
  BY DEF RemovePhysical, Through, OffAll
<1> HIDE DEF e
<1>2. m \in Nat /\ DOMAIN ps = 1 .. m /\ \A n \in 1 .. m : ps[n] \in Phys /\ ps[n] \in Range(ps)
  BY RangeOf
<1>3. /\ d.order \in [Strips -> Seq(Phys)] /\ d.strip \in [Phys -> Strips \cup {None}]
      /\ d.levels \in [Phys -> Seq(Reals)]
  BY DocParts
<1> HIDE DEF m
<1>4. ASSUME NEW n \in 0 .. m PROVE rest(n) \in Seq(Phys)
  <2>1. \A i \in (n + 1) .. m : ps[i] \in Phys
    BY <1>2
  <2> QED
    BY <1>2, <2>1, SubSeqProperties
<1>5. ASSUME NEW n \in 1 .. m PROVE rest(n - 1) = <<ps[n]>> \o rest(n)
  <2>1. n \in 1 .. Len(ps) /\ m \in n .. Len(ps) /\ (n - 1) + 1 = n
    BY <1>2 DEF m
  <2>2. SubSeq(ps, n, m) = <<ps[n]>> \o SubSeq(ps, n + 1, m)
    BY <2>1, SubSeqRecursiveFirst
  <2> QED
    BY <2>1, <2>2
<1>6. rest(0) = ps /\ rest(m) = << >>
  <2>1. SubSeq(ps, 1, Len(ps)) = ps
    BY SubSeqFull
  <2>2. SubSeq(ps, m + 1, m) = << >>
    BY <1>2, SubSeqEmpty
  <2> QED
    BY <2>1, <2>2 DEF m
<1> HIDE DEF rest
<1>7. ASSUME NEW n \in 0 .. m
      PROVE  /\ order(n) \in [Strips -> Seq(Phys)] /\ order(n)[s] = a \o rest(n)
             /\ strip(n) \in [Phys -> Strips \cup {None}]
  <2>1. a \o rest(n) \in Seq(Phys)
    BY <1>4, ConcatProperties
  <2> QED
    BY <1>3, <2>1
<1>8. ASSUME NEW n \in 0 .. m
      PROVE  /\ g[n] \in Docs
             /\ g[n].order = order(n) /\ g[n].strip = strip(n) /\ g[n].levels = d.levels
             /\ g[n].on = d.on /\ g[n].listed = d.listed /\ g[n].phys = d.phys /\ g[n].home = d.home
  <2>1. order(n) \in [Strips -> Seq(Phys)] /\ strip(n) \in [Phys -> Strips \cup {None}]
    BY <1>7
  <2> HIDE DEF order, strip
  <2> QED
    BY <2>1 DEF Docs
<1>9. ASSUME NEW n \in 0 .. m PROVE IsInjective(a \o rest(n))
  <2> DEFINE Q == {k \in 0 .. m : IsInjective(a \o rest(k))}
  <2>1. 0 \in Q
    BY <1>2, <1>6
  <2>2. ASSUME NEW k \in 1 .. m, k - 1 \in Q PROVE k \in Q
    <3>1. IsInjective(a \o rest(k - 1)) /\ rest(k - 1) = <<ps[k]>> \o rest(k)
      BY <1>5, <2>2
    <3>2. k \in 0 .. m /\ rest(k) \in Seq(Phys) /\ ps[k] \in Phys
      BY <1>2, <1>4
    <3>3. Without(a \o rest(k - 1), ps[k]) = a \o rest(k)
      BY <3>1, <3>2, WithoutMiddle
    <3>4. a \o rest(k - 1) \in Seq(Phys)
      <4>1. rest(k - 1) \in Seq(Phys)
        BY <1>2, <1>4
      <4> QED
        BY <4>1, ConcatProperties
    <3> HIDE DEF Q
    <3>5. IsInjective(a \o rest(k))
      <4> DEFINE z == a \o rest(k - 1)
      <4>1. z \in Seq(Phys) /\ IsInjective(z)
        BY <3>1, <3>4
      <4> HIDE DEF z
      <4>2. IsInjective(Without(z, ps[k]))
        BY <4>1, WithoutIs
      <4> QED
        BY <3>3, <4>2 DEF z
    <3> QED
      BY <3>2, <3>5 DEF Q
  <2> HIDE DEF Q
  <2>3. \A k \in 0 .. m : k \in Q
    BY <1>2, <2>1, <2>2, Ladder
  <2> QED
    BY <2>3 DEF Q
<1>10. ASSUME NEW n \in 1 .. m PROVE Step(g[n - 1], n) = g[n]
  <2> DEFINE f == g[n - 1]
             p == ps[n]
             q == a \o rest(n - 1)
             out == [f EXCEPT !.order[s] = Without(@, p)]
  <2>1. n - 1 \in 0 .. m /\ n \in 0 .. m /\ p \in Phys /\ p \in Range(ps)
    BY <1>2
  <2>2. /\ f \in Docs /\ f.order = order(n - 1) /\ f.strip = strip(n - 1) /\ f.levels = d.levels
        /\ f.on = d.on /\ f.listed = d.listed /\ f.phys = d.phys /\ f.home = d.home
    BY <1>8, <2>1
  <2>3. f.order[s] = q /\ q = a \o (<<p>> \o rest(n)) /\ rest(n) \in Seq(Phys) /\ IsInjective(q)
    BY <1>4, <1>5, <1>7, <1>9, <2>1, <2>2
  <2> HIDE DEF f, p, q
  <2>4. Without(q, p) = a \o rest(n)
    BY <2>1, <2>3, WithoutMiddle
  <2>5. p \in Range(q)
    <3>1. q \in Seq(Phys)
      <4>1. f.order \in [Strips -> Seq(Phys)]
        BY <2>2, DocParts
      <4> QED
        BY <2>3, <4>1
    <3>2. Range(Without(q, p)) = Range(q) \ {p}
      BY <3>1, WithoutIs
    <3>3. <<p>> \in Seq(Phys) /\ Len(<<p>>) = 1 /\ <<p>>[1] = p /\ Len(rest(n)) \in Nat /\ Len(a) \in Nat
      BY <2>1, <2>3
    <3>4. /\ <<p>> \o rest(n) \in Seq(Phys) /\ Len(<<p>> \o rest(n)) = 1 + Len(rest(n))
          /\ (<<p>> \o rest(n))[1] = p
      BY <2>3, <3>3, ConcatProperties
    <3>5. q[Len(a) + 1] = p /\ Len(a) + 1 \in 1 .. Len(q)
      <4> DEFINE z == <<p>> \o rest(n)
      <4>1. z \in Seq(Phys) /\ Len(z) = 1 + Len(rest(n)) /\ z[1] = p /\ a \in Seq(Phys)
        BY <3>4
      <4> HIDE DEF z
      <4>2. /\ Len(a \o z) = Len(a) + Len(z)
            /\ \A i \in 1 .. Len(a) + Len(z) : (a \o z)[i] = IF i <= Len(a) THEN a[i] ELSE z[i - Len(a)]
        BY ONLY <4>1, ConcatProperties
      <4>3. q = a \o z
        BY <2>3 DEF z
      <4>4. Len(a) + 1 \in 1 .. Len(a) + Len(z) /\ (Len(a) + 1) - Len(a) = 1 /\ ~(Len(a) + 1 <= Len(a))
        BY <3>3, <4>1
      <4>5. (a \o z)[Len(a) + 1] = z[(Len(a) + 1) - Len(a)]
        BY <4>2, <4>4
      <4> QED
        BY <4>1, <4>2, <4>3, <4>4, <4>5
    <3> QED
      BY <3>1, <3>5, RangeOf
  <2>6. Step(f, n) = [OffAll(out, f.levels[p]) EXCEPT !.strip[p] = None]
    BY <2>3, <2>5 DEF p
  <2> HIDE DEF Step
  <2>7. out \in Docs /\ out.on = d.on
    <3>1. [f.order EXCEPT ![s] = Without(q, p)] \in [Strips -> Seq(Phys)]
      <4>0. f.order \in [Strips -> Seq(Phys)]
        BY <2>2, DocParts
      <4>1. f.order \in [Strips -> Seq(Phys)] /\ q \in Seq(Phys)
        BY <2>3, <4>0
      <4>2. Without(q, p) \in Seq(Phys)
        BY <4>1, WithoutIs
      <4> QED
        BY <4>1, <4>2
    <3>2. out = [f EXCEPT !.order = [f.order EXCEPT ![s] = Without(q, p)]]
      BY <2>2, <2>3 DEF Docs
    <3> HIDE DEF out
    <3> QED
      BY <2>2, <3>1, <3>2 DEF Docs
  <2>8. OffAll(out, f.levels[p]) = out
    <3>1. f.levels[p] = d.levels[p] /\ d.levels[p] \in Seq(Reals)
      BY <1>3, <2>1, <2>2
    <3>2. Unbridged(out, Range(d.levels[p]))
      BY <2>1, <2>7 DEF Unbridged
    <3> QED
      BY <2>7, <3>1, <3>2, OffAllNothing
  <2>9. [f.order EXCEPT ![s] = a \o rest(n)] = order(n)
    <3>1. f.order = [d.order EXCEPT ![s] = a \o rest(n - 1)]
      BY <2>2
    <3> QED
      BY <1>3, <3>1
  <2>10. [f.strip EXCEPT ![p] = None] = strip(n)
    <3>1. \A x : (\E i \in 1 .. n : ps[i] = x) <=> (\E i \in 1 .. (n - 1) : ps[i] = x) \/ x = p
      BY <1>2 DEF p
    <3>2. f.strip = strip(n - 1)
      BY <2>2
    <3>3. strip(n - 1) \in [Phys -> Strips \cup {None}]
      BY <1>7, <2>1
    <3> QED
      BY <2>1, <3>1, <3>2, <3>3
  <2>11. g[n] = [d EXCEPT !.order = order(n), !.strip = strip(n)]
    BY <2>1
  <2>12. out = [f EXCEPT !.order = order(n)]
    BY <2>2, <2>3, <2>4, <2>9 DEF Docs
  <2> HIDE DEF out, g, order, strip
  <2>13. Step(f, n) = [f EXCEPT !.order = order(n), !.strip = strip(n)]
    BY <2>2, <2>6, <2>8, <2>10, <2>12 DEF Docs
  <2>14. [f EXCEPT !.order = order(n), !.strip = strip(n)] = [d EXCEPT !.order = order(n), !.strip = strip(n)]
    BY <2>2 DEF Docs
  <2> QED
    BY <2>11, <2>13, <2>14 DEF f
<1>11. g[0] = d
  <2>1. order(0) = d.order /\ strip(0) = d.strip /\ 0 \in 0 .. m
    <3>1. order(0) = d.order
      BY <1>3, <1>6
    <3>2. strip(0) = [p \in Phys |-> d.strip[p]]
      <4>1. \A p : ~ \E i \in 1 .. 0 : ps[i] = p
        OBVIOUS
      <4> QED
        BY <4>1
    <3>3. d.strip = [p \in Phys |-> d.strip[p]]
      BY <1>3
    <3> QED
      BY <1>2, <3>1, <3>2, <3>3
  <2>2. g[0] = [d EXCEPT !.order = order(0), !.strip = strip(0)]
    BY <2>1
  <2> HIDE DEF g, order, strip
  <2> QED
    BY <2>1, <2>2 DEF Docs
<1> HIDE DEF Step, order, strip
<1>12. g = F(g)
  <2>1. g = [n \in 0 .. m |-> g[n]]
    OBVIOUS
  <2>2. \A n \in 0 .. m : n # 0 => n \in 1 .. m
    BY <1>2
  <2> HIDE DEF g
  <2> QED
    BY <1>10, <1>11, <2>1, <2>2
<1>13. after = F(after)
  <2> HIDE DEF F, g
  <2> QED
    BY <1>12
<1> HIDE DEF after, g
<1>14. after[0] = d /\ \A n \in 1 .. m : after[n] = Step(after[n - 1], n)
  BY <1>2, <1>13
<1> DEFINE Q == {n \in 0 .. m : after[n] = g[n]}
<1>15. 0 \in Q /\ \A n \in 1 .. m : n - 1 \in Q => n \in Q
  <2>1. 0 \in 0 .. m /\ \A n \in 1 .. m : n \in 0 .. m
    BY <1>2
  <2> HIDE DEF F
  <2> QED
    BY <1>10, <1>11, <1>14, <2>1
<1> HIDE DEF Q, F
<1>16. m \in Q
  <2>1. \A n \in 0 .. m : n \in Q
    BY <1>2, <1>15, Ladder
  <2> QED
    BY <1>2, <2>1
<1>17. e = g[m] /\ m \in 0 .. m
  BY <1>1, <1>2, <1>16 DEF Q
<1>18. e.order = order(m) /\ e.strip = strip(m) /\ Rearranged(d, e)
  BY <1>8, <1>17 DEF Rearranged
<1>19. order(m) = [d.order EXCEPT ![s] = a]
  <2>1. a \o << >> = a
    BY ConcatEmptySeq
  <2> QED
    BY <1>6, <2>1 DEF order
<1>20. strip(m) = [p \in Phys |-> IF p \in Range(ps) THEN None ELSE d.strip[p]]
  <2>1. \A p : (\E i \in 1 .. m : ps[i] = p) <=> p \in Range(ps)
    BY <1>2 DEF Range
  <2> QED
    BY <2>1 DEF strip
<1> QED
  BY <1>18, <1>19, <1>20

\* TerminalStrip::addTerminals() of physical terminals that are in no strip.
LEMMA InsertedEnd ==
    ASSUME NEW d \in Docs, NEW s \in Strips, NEW ps \in Seq(Phys),
           \A p \in Range(ps) : d.strip[p] = None,
           NEW e, e = AddPhysical(d, s, ps)
    PROVE  /\ Rearranged(d, e) /\ e.order = [d.order EXCEPT ![s] = @ \o ps]
           /\ e.strip = [p \in Phys |-> IF p \in Range(ps) THEN s ELSE d.strip[p]]
<1> DEFINE q == d.order[s]
           free == Selected(ps, {p \in Phys : d.strip[p] = None})
           order == [d.order EXCEPT ![s] = q \o ps]
           strip == [p \in Phys |-> IF p \in Range(ps) THEN s ELSE d.strip[p]]
<1>1. d.order \in [Strips -> Seq(Phys)] /\ d.strip \in [Phys -> Strips \cup {None}]
  BY DocParts
<1>2. q \in Seq(Phys) /\ Len(q) \in Nat
  BY <1>1
<1>3. free = ps
  <2> DEFINE S == {p \in Phys : d.strip[p] = None}
  <2>1. Range(ps) \subseteq S
    BY RangeOf
  <2> HIDE DEF S
  <2> QED
    BY <2>1, SelectedAll DEF S
<1> DEFINE from == IF -1 \in 0 .. Len(q) THEN -1 ELSE Len(q)
<1>4. from = Len(q)
  BY <1>2
<1> DEFINE new == SubSeq(q, 1, from) \o free \o SubSeq(q, from + 1, Len(q))
<1>5. new = q \o ps
  <2>1. SubSeq(q, 1, Len(q)) = q
    BY <1>2, SubSeqFull
  <2>2. SubSeq(q, Len(q) + 1, Len(q)) = << >>
    BY <1>2, SubSeqEmpty
  <2>3. q \o ps \in Seq(Phys)
    BY <1>2, ConcatProperties
  <2>4. (q \o ps) \o << >> = q \o ps
    <3> DEFINE z == q \o ps
    <3> HIDE DEF z
    <3>1. z \in Seq(Phys)
      BY <2>3 DEF z
    <3> QED
      BY <3>1, ConcatEmptySeq DEF z
  <2> HIDE DEF q, free, from
  <2> QED
    BY <1>3, <1>4, <2>1, <2>2, <2>4
<1>6. e = [d EXCEPT !.order[s] = new,
                    !.strip = [p \in Phys |-> IF p \in Range(free) THEN s ELSE d.strip[p]]]
  BY <1>1 DEF AddPhysical, InsertTerminals
<1> HIDE DEF free, new
<1>7. e = [d EXCEPT !.order = order, !.strip = strip]
  BY <1>3, <1>5, <1>6 DEF Docs
<1>8. order \in [Strips -> Seq(Phys)] /\ strip \in [Phys -> Strips \cup {None}]
  <2>1. q \o ps \in Seq(Phys)
    BY <1>2, ConcatProperties
  <2> QED
    BY <1>1, <2>1
<1>9. order = [d.order EXCEPT ![s] = @ \o ps]
  BY <1>1
<1> HIDE DEF order, strip
<1>10. /\ e \in Docs /\ e.order = order /\ e.strip = strip
       /\ e.listed = d.listed /\ e.levels = d.levels /\ e.phys = d.phys
       /\ e.on = d.on /\ e.home = d.home
  BY <1>7, <1>8 DEF Docs
<1> QED
  BY <1>9, <1>10 DEF Rearranged, strip

\* What is in one of two sequences.
LEMMA InBoth ==
    ASSUME NEW T, NEW a \in Seq(T), NEW b \in Seq(T)
    PROVE  Range(a \o b) = Range(a) \cup Range(b)
<1>1. /\ a \o b \in Seq(T) /\ Len(a \o b) = Len(a) + Len(b)
      /\ \A i \in 1 .. Len(a) + Len(b) : (a \o b)[i] = IF i <= Len(a) THEN a[i] ELSE b[i - Len(a)]
  BY ONLY a \in Seq(T), b \in Seq(T), ConcatProperties
<1> DEFINE z == a \o b
<1>2. /\ \A x : x \in Range(a) <=> \E i \in 1 .. Len(a) : a[i] = x
      /\ \A x : x \in Range(b) <=> \E i \in 1 .. Len(b) : b[i] = x
      /\ Len(a) \in Nat /\ Len(b) \in Nat
  BY RangeOf
<1> HIDE DEF z
<1>3. \A x : x \in Range(z) <=> \E i \in 1 .. Len(z) : z[i] = x
  BY <1>1, RangeOf DEF z
<1>4. Len(z) = Len(a) + Len(b) /\ \A i \in 1 .. Len(z) : z[i] = IF i <= Len(a) THEN a[i] ELSE b[i - Len(a)]
  BY <1>1 DEF z
<1>5. ASSUME NEW x \in Range(z) PROVE x \in Range(a) \cup Range(b)
  <2>1. PICK i \in 1 .. Len(z) : z[i] = x
    BY <1>3
  <2>2. CASE i <= Len(a)
    <3>1. i \in 1 .. Len(a) /\ a[i] = x
      BY <1>2, <1>4, <2>1, <2>2
    <3> QED
      BY <1>2, <3>1
  <2>3. CASE ~(i <= Len(a))
    <3>1. i - Len(a) \in 1 .. Len(b) /\ b[i - Len(a)] = x
      BY <1>2, <1>4, <2>1, <2>3
    <3> QED
      BY <1>2, <3>1
  <2> QED
    BY <2>2, <2>3
<1>6. ASSUME NEW x \in Range(a) PROVE x \in Range(z)
  <2>1. PICK i \in 1 .. Len(a) : a[i] = x
    BY <1>2
  <2>2. i \in 1 .. Len(z) /\ z[i] = x
    BY <1>2, <1>4, <2>1
  <2> QED
    BY <1>3, <2>2
<1>7. ASSUME NEW x \in Range(b) PROVE x \in Range(z)
  <2>1. PICK i \in 1 .. Len(b) : b[i] = x
    BY <1>2
  <2>2. Len(a) + i \in 1 .. Len(z) /\ ~(Len(a) + i <= Len(a)) /\ (Len(a) + i) - Len(a) = i
    BY <1>2, <1>4, <2>1
  <2>3. z[Len(a) + i] = b[(Len(a) + i) - Len(a)]
    BY <1>4, <2>2
  <2>4. z[Len(a) + i] = x
    BY <2>1, <2>2, <2>3
  <2> QED
    BY <1>3, <2>2, <2>4
<1> QED
  BY <1>5, <1>6, <1>7 DEF z

\* MoveTerminalCommand: the last physical terminals of a strip, none of which
\* is bridged, go to the end of another.
LEMMA MovedEnd ==
    ASSUME NEW d \in Whole, NEW s \in Strips, NEW t \in Strips, s # t,
           NEW a, NEW ps, LooseEnd(d, s, a, ps),
           NEW e, e = AddPhysical(RemovePhysical(d, s, ps), t, ps)
    PROVE  /\ Rearranged(d, e) /\ Owned(e)
           /\ e.order = [d.order EXCEPT ![s] = a, ![t] = @ \o ps]
<1> DEFINE f == RemovePhysical(d, s, ps)
<1>1. d \in Docs /\ Sound(d) /\ Owned(d)
  BY DEF Whole
<1>2. a \in Seq(Phys) /\ ps \in Seq(Phys) /\ d.order[s] = a \o ps
  BY DEF LooseEnd
<1>3. /\ Rearranged(d, f) /\ f.order = [d.order EXCEPT ![s] = a]
      /\ f.strip = [p \in Phys |-> IF p \in Range(ps) THEN None ELSE d.strip[p]]
  <2>1. EndTaken(d, s, a, ps, f)
    BY <1>1, LastRemoved
  <2> QED
    BY <2>1 DEF EndTaken
<1> HIDE DEF f
<1>4. \A p \in Range(ps) : p \in Phys /\ f.strip[p] = None
  BY <1>2, <1>3, RangeOf
<1>5. /\ Rearranged(f, e) /\ e.order = [f.order EXCEPT ![t] = @ \o ps]
      /\ e.strip = [p \in Phys |-> IF p \in Range(ps) THEN t ELSE f.strip[p]]
  <2>1. f \in Docs /\ e = AddPhysical(f, t, ps)
    BY <1>3 DEF Rearranged, f
  <2>2. ps \in Seq(Phys) /\ \A p \in Range(ps) : f.strip[p] = None
    BY <1>2, <1>4
  <2> QED
    BY ONLY <2>1, <2>2, t \in Strips, InsertedEnd
<1>6. Rearranged(d, e)
  BY <1>3, <1>5 DEF Rearranged
<1>7. /\ d.order \in [Strips -> Seq(Phys)] /\ d.strip \in [Phys -> Strips \cup {None}]
  BY <1>1, DocParts
<1>8. e.order = [d.order EXCEPT ![s] = a, ![t] = @ \o ps]
  BY <1>3, <1>5, <1>7
<1>9. e.order[s] = a /\ e.order[t] = d.order[t] \o ps /\ \A u \in Strips : u # s /\ u # t => e.order[u] = d.order[u]
  BY <1>7, <1>8
<1>10. Range(d.order[s]) = Range(a) \cup Range(ps) /\ Range(e.order[t]) = Range(d.order[t]) \cup Range(ps)
  <2>1. d.order[t] \in Seq(Phys)
    BY <1>7
  <2>2. Range(d.order[t] \o ps) = Range(d.order[t]) \cup Range(ps)
    BY <1>2, <2>1, InBoth
  <2>3. Range(a \o ps) = Range(a) \cup Range(ps)
    BY <1>2, InBoth
  <2> QED
    BY <1>2, <1>9, <2>2, <2>3
<1>11. ASSUME NEW p \in Phys, e.strip[p] # None PROVE p \in Range(e.order[e.strip[p]])
  <2>1. CASE p \in Range(ps)
    BY <1>5, <1>10, <2>1
  <2>2. CASE p \notin Range(ps)
    <3>1. e.strip[p] = d.strip[p] /\ d.strip[p] \in Strips /\ p \in Range(d.order[d.strip[p]])
      BY <1>1, <1>3, <1>5, <1>7, <1>11, <2>2 DEF Owned
    <3> QED
      BY <1>9, <1>10, <2>2, <3>1
  <2> QED
    BY <2>1, <2>2
<1>12. \A r \in Reals : e.phys[r] # None => r \in Range(e.levels[e.phys[r]])
  BY <1>1, <1>6 DEF Owned, Rearranged
<1> QED
  BY <1>6, <1>8, <1>11, <1>12 DEF Owned

----------------------------------------------------------------------------
(****************************************************************************)
(* The commands, done when the document looks like what they were made for. *)
(****************************************************************************)

\* Terminals that are still where they were are in a row as they were.
LEMMA RowThere ==
    ASSUME NEW d \in Whole, NEW x \in Whole, SamePlaces(d, x),
           NEW s \in Strips, NEW R, InStrip(d, s, R)
    PROVE  /\ InStrip(x, s, R)
           /\ InRow(d, s, R) => InRow(x, s, R)
           /\ \A Q \in SUBSET R : AtEnd(d, s, Q, R) => AtEnd(x, s, Q, R)
<1>1. /\ R \in SUBSET Reals /\ s # None /\ \A r \in R : ParentStrip(d, r) = s
  BY StripAssumption DEF InStrip
<1>2. \A r \in R : StillThere(d, x, r)
  BY <1>1, LooksThere
<1>3. \A r \in R : /\ x.phys[r] = d.phys[r] /\ ParentStrip(x, r) = s
                   /\ Level(x, r) = Level(d, r) /\ Pos(x, s, r) = Pos(d, s, r)
  BY <1>1, <1>2 DEF StillThere
<1>4. InStrip(x, s, R)
  BY <1>1, <1>3 DEF InStrip
<1>5. ASSUME InRow(d, s, R) PROVE InRow(x, s, R)
  <2>1. PositionsOf(x, s, R) = PositionsOf(d, s, R)
    BY <1>3, PositionsAre
  <2>2. /\ Cardinality(R) >= 2
        /\ \A q, r \in R : Level(d, q) = Level(d, r) /\ (q # r => d.phys[q] # d.phys[r])
        /\ Consecutive(PositionsOf(d, s, R))
    BY <1>5 DEF InRow
  <2>3. \A q, r \in R : Level(x, q) = Level(x, r) /\ (q # r => x.phys[q] # x.phys[r])
    BY <1>3, <2>2
  <2> QED
    BY <2>1, <2>2, <2>3 DEF InRow
<1>6. ASSUME NEW Q \in SUBSET R, AtEnd(d, s, Q, R) PROVE AtEnd(x, s, Q, R)
  BY <1>3, <1>6 DEF AtEnd
<1> QED
  BY <1>4, <1>5, <1>6

\* Bridges and physical terminals of one level stay as they were made.
KeepsMade(d, e) ==
    e.home = d.home /\ \A p \in Phys : Len(d.levels[p]) = 1 => e.levels[p] = d.levels[p]

\* A command leads from d to e, which looks like y.
Becomes(d, e, y) == e \in Docs /\ Owned(e) /\ LooksLike(e, y) /\ KeepsMade(d, e)

\* What two documents have in common when terminals are moved only.
Beside(x, y) == SameLevels(x, y) /\ SameBridges(x, y) /\ y.listed = x.listed

\* A document that was rearranged.
LEMMA RearrangedBecomes ==
    ASSUME NEW d \in Whole, NEW x \in Whole, LooksLike(d, x), NEW y \in Docs, Beside(x, y),
           NEW e, Rearranged(d, e), Owned(e), e.order = y.order,
           \A s \in Strips : \A p \in Range(e.order[s]) : \E t \in Strips : p \in Range(x.order[t])
    PROVE  Becomes(d, e, y)
<1>1. /\ e \in Docs /\ e.listed = d.listed /\ e.levels = d.levels /\ e.on = d.on /\ e.home = d.home
  BY DEF Rearranged
<1>2. /\ x.listed = d.listed /\ x.order = d.order /\ x.on = d.on
      /\ \A s \in Strips : \A p \in Range(d.order[s]) : x.levels[p] = d.levels[p]
      /\ \A b \in Bridges : d.on[b] # {} => x.home[b] = d.home[b]
  BY DEF LooksLike, SamePlaces, SameLevels, SameBridges
<1>3. /\ y.listed = x.listed /\ y.on = x.on
      /\ \A s \in Strips : \A p \in Range(x.order[s]) : y.levels[p] = x.levels[p]
      /\ \A b \in Bridges : x.on[b] # {} => y.home[b] = x.home[b]
  BY DEF Beside, SameLevels, SameBridges
<1>4. ASSUME NEW s \in Strips, NEW p \in Range(e.order[s]) PROVE y.levels[p] = e.levels[p]
  <2>1. PICK t \in Strips : p \in Range(x.order[t])
    OBVIOUS
  <2> QED
    BY <1>1, <1>2, <1>3, <2>1
<1>5. \A b \in Bridges : e.on[b] # {} => y.home[b] = e.home[b]
  BY <1>1, <1>2, <1>3
<1> QED
  BY <1>1, <1>2, <1>3, <1>4, <1>5 DEF Becomes, KeepsMade, LooksLike, SamePlaces, SameLevels, SameBridges

\* A strip that ends with ps ends so in what looks like it.
LEMMA LooseLike ==
    ASSUME NEW d, NEW x, LooksLike(d, x), NEW s \in Strips, NEW a, NEW ps, LooseEnd(x, s, a, ps)
    PROVE  LooseEnd(d, s, a, ps)
<1>1. /\ a \in Seq(Phys) /\ ps \in Seq(Phys)
      /\ x.order[s] = a \o ps /\ IsInjective(x.order[s])
      /\ \A p \in Range(ps) : Unbridged(x, Range(x.levels[p]))
  BY DEF LooseEnd
<1>2. /\ x.order = d.order /\ x.on = d.on
      /\ \A p \in Range(d.order[s]) : x.levels[p] = d.levels[p]
  BY DEF LooksLike, SamePlaces, SameLevels, SameBridges
<1>3. Range(ps) \subseteq Range(d.order[s])
  <2>1. Range(a \o ps) = Range(a) \cup Range(ps)
    BY <1>1, InBoth
  <2> QED
    BY <1>1, <1>2, <2>1
<1>4. \A p \in Range(ps) : Unbridged(d, Range(d.levels[p]))
  BY <1>1, <1>2, <1>3 DEF Unbridged
<1>5. d.order[s] = a \o ps /\ IsInjective(d.order[s])
  BY <1>1, <1>2
<1> QED
  BY <1>1, <1>4, <1>5 DEF LooseEnd

\* MoveTerminalCommand
MoveLeads(c, x, y) ==
    /\ c.strip # c.to
    /\ \E a : /\ LooseEnd(x, c.strip, a, c.phys)
              /\ y.order = [x.order EXCEPT ![c.strip] = a, ![c.to] = @ \o c.phys]
    /\ Beside(x, y)

\* MoveTerminalCommand::redo() of a command that was undone leads to the same
\* again.
LEMMA MoveAgain ==
    ASSUME NEW c \in Moves, NEW d \in Whole, NEW x \in Whole, NEW y \in Docs,
           MoveLeads(c, x, y), LooksLike(d, x)
    PROVE  Becomes(d, Redo1(d, c), y)
<1> DEFINE s == c.strip
           t == c.to
           ps == c.phys
           e == AddPhysical(RemovePhysical(d, s, ps), t, ps)
<1>1. s \in Strips /\ t \in Strips /\ s # t /\ Redo1(d, c) = e /\ Beside(x, y)
  BY DEF Moves, Redo1, MoveLeads
<1>2. PICK a : LooseEnd(x, s, a, ps) /\ y.order = [x.order EXCEPT ![s] = a, ![t] = @ \o ps]
  BY DEF MoveLeads
<1>3. d.order = x.order
  BY DEF LooksLike, SamePlaces
<1> HIDE DEF s, t, ps, e
<1>4. LooseEnd(d, s, a, ps)
  BY <1>1, <1>2, LooseLike
<1>5. /\ Rearranged(d, e) /\ Owned(e)
      /\ e.order = [d.order EXCEPT ![s] = a, ![t] = @ \o ps]
  <2>1. e = AddPhysical(RemovePhysical(d, s, ps), t, ps)
    BY DEF e
  <2> QED
    BY ONLY <1>1, <1>4, <2>1, d \in Whole, MovedEnd
<1>6. ASSUME NEW u \in Strips, NEW p \in Range(e.order[u])
      PROVE  \E v \in Strips : p \in Range(x.order[v])
  <2>1. a \in Seq(Phys) /\ ps \in Seq(Phys) /\ d.order[s] = a \o ps /\ d.order \in [Strips -> Seq(Phys)]
    BY <1>4, DocParts DEF LooseEnd, Whole
  <2>2. Range(d.order[s]) = Range(a) \cup Range(ps) /\ Range(d.order[t] \o ps) = Range(d.order[t]) \cup Range(ps)
    <3>1. d.order[t] \in Seq(Phys)
      BY <1>1, <2>1
    <3>2. Range(d.order[t] \o ps) = Range(d.order[t]) \cup Range(ps)
      BY <2>1, <3>1, InBoth
    <3>3. Range(a \o ps) = Range(a) \cup Range(ps)
      BY <2>1, InBoth
    <3> QED
      BY <2>1, <3>2, <3>3
  <2>3. e.order[u] = IF u = s THEN a ELSE IF u = t THEN d.order[t] \o ps ELSE d.order[u]
    BY <1>1, <1>5, <2>1
  <2> QED
    BY <1>1, <1>3, <2>2, <2>3
<1> QED
  <2>1. e.order = y.order
    BY <1>2, <1>3, <1>5
  <2>2. Becomes(d, e, y)
    BY ONLY <1>1, <1>5, <1>6, <2>1, d \in Whole, x \in Whole, y \in Docs, LooksLike(d, x),
            RearrangedBecomes
  <2> QED
    BY <1>1, <2>2

\* Two documents have in common what they have the other way around.
LEMMA BesideBack ==
    ASSUME NEW x, NEW y, Beside(x, y),
           \A s \in Strips : \A p \in Range(y.order[s]) : \E t \in Strips : p \in Range(x.order[t])
    PROVE  Beside(y, x)
BY DEF Beside, SameLevels, SameBridges

\* MoveTerminalCommand::undo() leads back.
LEMMA MoveBack ==
    ASSUME NEW c \in Moves, NEW d \in Whole, NEW x \in Docs, NEW y \in Whole,
           MoveLeads(c, x, y), LooksLike(d, y)
    PROVE  Becomes(d, Undo1(d, c), x)
<1> DEFINE s == c.strip
           t == c.to
           ps == c.phys
           e == AddPhysical(RemovePhysical(d, t, ps), s, ps)
<1>1. s \in Strips /\ t \in Strips /\ s # t /\ Undo1(d, c) = e /\ Beside(x, y)
  BY DEF Moves, Undo1, MoveLeads
<1>2. PICK a : LooseEnd(x, s, a, ps) /\ y.order = [x.order EXCEPT ![s] = a, ![t] = @ \o ps]
  BY DEF MoveLeads
<1>3. d.order = y.order
  BY DEF LooksLike, SamePlaces
<1> HIDE DEF s, t, ps, e
<1>4. /\ a \in Seq(Phys) /\ ps \in Seq(Phys) /\ x.order[s] = a \o ps
      /\ \A p \in Range(ps) : Unbridged(x, Range(x.levels[p]))
      /\ x.order \in [Strips -> Seq(Phys)] /\ x.order[t] \in Seq(Phys)
  BY <1>1, <1>2, DocParts DEF LooseEnd
<1>5. y.order[s] = a /\ y.order[t] = x.order[t] \o ps
  BY <1>1, <1>2, <1>4
<1>6. /\ Range(x.order[s]) = Range(a) \cup Range(ps)
      /\ Range(y.order[t]) = Range(x.order[t]) \cup Range(ps)
  <2>1. Range(x.order[t] \o ps) = Range(x.order[t]) \cup Range(ps)
    BY <1>4, InBoth
  <2>2. Range(a \o ps) = Range(a) \cup Range(ps)
    BY <1>4, InBoth
  <2> QED
    BY <1>4, <1>5, <2>1, <2>2
<1>7. Beside(y, x)
  <2>1. ASSUME NEW u \in Strips, NEW p \in Range(y.order[u])
        PROVE  \E v \in Strips : p \in Range(x.order[v])
    <3>1. y.order[u] = IF u = s THEN a ELSE IF u = t THEN y.order[t] ELSE x.order[u]
      BY <1>2, <1>4, <1>5
    <3> QED
      BY <1>1, <1>6, <3>1
  <2> QED
    BY <1>1, <2>1, BesideBack
<1>8. LooseEnd(y, t, x.order[t], ps)
  <2>1. IsInjective(y.order[t])
    BY <1>1 DEF Whole, Sound
  <2>2. \A p \in Range(ps) : Unbridged(y, Range(y.levels[p]))
    <3>1. y.on = x.on /\ \A p \in Range(x.order[s]) : y.levels[p] = x.levels[p]
      BY <1>1 DEF Beside, SameLevels, SameBridges
    <3> QED
      BY <1>4, <1>6, <3>1 DEF Unbridged
  <2> QED
    BY <1>4, <1>5, <2>1, <2>2 DEF LooseEnd
<1>9. LooseEnd(d, t, x.order[t], ps)
  BY <1>1, <1>8, LooseLike
<1>10. /\ Rearranged(d, e) /\ Owned(e)
       /\ e.order = [d.order EXCEPT ![t] = x.order[t], ![s] = @ \o ps]
  <2> DEFINE z == x.order[t]
  <2> HIDE DEF z
  <2>1. LooseEnd(d, t, z, ps)
    BY <1>9 DEF z
  <2>2. /\ Rearranged(d, e) /\ Owned(e) /\ e.order = [d.order EXCEPT ![t] = z, ![s] = @ \o ps]
    BY <1>1, <2>1, MovedEnd DEF e
  <2> QED
    BY <2>2 DEF z
<1>11. e.order = x.order
  <2>1. e.order = [[x.order EXCEPT ![s] = a, ![t] = @ \o ps] EXCEPT ![t] = x.order[t], ![s] = @ \o ps]
    BY <1>2, <1>3, <1>10
  <2> QED
    BY <1>1, <1>4, <2>1
<1>12. \A u \in Strips : \A p \in Range(e.order[u]) : \E v \in Strips : p \in Range(y.order[v])
  BY <1>1, <1>2, <1>4, <1>5, <1>6, <1>11
<1> QED
  BY <1>1, <1>7, <1>10, <1>11, <1>12, RearrangedBecomes

\* TerminalStrip::setOrderTo()
LEMMA Reordered ==
    ASSUME NEW d \in Whole, NEW s \in Strips, NEW ps \in Seq(Phys),
           Len(ps) = Len(d.order[s]), Range(ps) = Range(d.order[s]),
           NEW e, e = SetOrderTo(d, s, ps)
    PROVE  Rearranged(d, e) /\ Owned(e) /\ e.order = [d.order EXCEPT ![s] = ps]
<1>1. d \in Docs /\ Owned(d)
  BY DEF Whole
<1>2. d.order \in [Strips -> Seq(Phys)] /\ d.strip \in [Phys -> Strips \cup {None}]
  BY <1>1, DocParts
<1> DEFINE order == [d.order EXCEPT ![s] = ps]
<1>3. e = [d EXCEPT !.order = order]
  BY <1>1 DEF SetOrderTo, Docs
<1>4. order \in [Strips -> Seq(Phys)] /\ \A t \in Strips : Range(order[t]) = Range(d.order[t])
  BY <1>2
<1> HIDE DEF order
<1>5. /\ e \in Docs /\ e.order = order /\ e.listed = d.listed /\ e.levels = d.levels
      /\ e.strip = d.strip /\ e.phys = d.phys /\ e.on = d.on /\ e.home = d.home
  BY <1>1, <1>3, <1>4 DEF Docs
<1>6. Owned(e)
  BY <1>1, <1>2, <1>4, <1>5 DEF Owned
<1> QED
  BY <1>5, <1>6 DEF Rearranged, order

\* SortTerminalStripCommand
SortLeads(c, x, y) ==
    /\ x.order[c.strip] = c.old /\ y.order = [x.order EXCEPT ![c.strip] = c.new]
    /\ Len(c.new) = Len(c.old) /\ Range(c.new) = Range(c.old)
    /\ Beside(x, y)

\* SortTerminalStripCommand::redo() leads to the same again.
LEMMA SortAgain ==
    ASSUME NEW c \in Sorts, NEW d \in Whole, NEW x \in Whole, NEW y \in Docs,
           SortLeads(c, x, y), LooksLike(d, x)
    PROVE  Becomes(d, Redo1(d, c), y)
<1> DEFINE s == c.strip
           ps == c.new
           e == SetOrderTo(d, s, ps)
<1>1. s \in Strips /\ ps \in Seq(Phys) /\ Redo1(d, c) = e
  BY DEF Sorts, Plains, Redo1
<1>2. /\ d.order = x.order /\ y.order = [x.order EXCEPT ![s] = ps] /\ Beside(x, y)
      /\ Len(ps) = Len(x.order[s]) /\ Range(ps) = Range(x.order[s])
  BY DEF SortLeads, LooksLike, SamePlaces
<1> HIDE DEF s, ps, e
<1>3. Rearranged(d, e) /\ Owned(e) /\ e.order = [d.order EXCEPT ![s] = ps]
  BY <1>1, <1>2, Reordered DEF e
<1>4. ASSUME NEW u \in Strips, NEW p \in Range(e.order[u])
      PROVE  \E v \in Strips : p \in Range(x.order[v])
  <2>1. d.order \in [Strips -> Seq(Phys)]
    BY DocParts DEF Whole
  <2>2. e.order[u] = IF u = s THEN ps ELSE d.order[u]
    BY <1>1, <1>3, <2>1
  <2> QED
    BY <1>1, <1>2, <2>2
<1>5. e.order = y.order
  BY <1>2, <1>3
<1> QED
  BY <1>1, <1>2, <1>3, <1>4, <1>5, RearrangedBecomes

\* SortTerminalStripCommand::undo() leads back.
LEMMA SortBack ==
    ASSUME NEW c \in Sorts, NEW d \in Whole, NEW x \in Docs, NEW y \in Whole,
           SortLeads(c, x, y), LooksLike(d, y)
    PROVE  Becomes(d, Undo1(d, c), x)
<1> DEFINE s == c.strip
           ps == c.old
           e == SetOrderTo(d, s, ps)
<1>1. s \in Strips /\ ps \in Seq(Phys) /\ Undo1(d, c) = e
  BY DEF Sorts, Plains, Undo1
<1>2. /\ d.order = y.order /\ y.order = [x.order EXCEPT ![s] = c.new] /\ Beside(x, y)
      /\ ps = x.order[s] /\ Len(c.new) = Len(ps) /\ Range(c.new) = Range(ps)
  BY DEF SortLeads, LooksLike, SamePlaces
<1>3. x.order \in [Strips -> Seq(Phys)]
  BY DocParts
<1> HIDE DEF s, ps, e
<1>4. Len(ps) = Len(d.order[s]) /\ Range(ps) = Range(d.order[s])
  BY <1>1, <1>2, <1>3
<1>5. Rearranged(d, e) /\ Owned(e) /\ e.order = [d.order EXCEPT ![s] = ps]
  BY <1>1, <1>4, Reordered DEF e
<1>6. e.order = x.order
  BY <1>1, <1>2, <1>3, <1>5
<1>7. \A u \in Strips : Range(y.order[u]) = Range(x.order[u])
  BY <1>1, <1>2, <1>3
<1>8. Beside(y, x)
  BY <1>2, <1>7, BesideBack
<1> QED
  BY <1>1, <1>5, <1>6, <1>7, <1>8, RearrangedBecomes

\* AddSpareTerminalsCommand, when its physical terminal is made.
SpareLeads(c, x, y) ==
    /\ c.at = -1 /\ \A s \in Strips : c.phys \notin Range(x.order[s])
    /\ y.order = [x.order EXCEPT ![c.strip] = @ \o <<c.phys>>]
    /\ y.levels[c.phys] = <<c.real>> /\ Unbridged(y, {c.real})
    /\ Beside(x, y)

\* A sequence of one element.
LEMMA OneIs ==
    ASSUME NEW T, NEW x \in T
    PROVE  <<x>> \in Seq(T) /\ Range(<<x>>) = {x} /\ Len(<<x>>) = 1
<1>1. <<x>> \in Seq(T) /\ Len(<<x>>) = 1 /\ <<x>>[1] = x
  OBVIOUS
<1>2. \A y : y \in Range(<<x>>) <=> \E i \in 1 .. Len(<<x>>) : <<x>>[i] = y
  BY <1>1, RangeOf
<1> QED
  BY <1>1, <1>2

\* AddSpareTerminalsCommand::redo() puts what it made in again, at the end.
LEMMA SpareAgain ==
    ASSUME NEW c \in SpareAdds, NEW d \in Whole, NEW x \in Whole, NEW y \in Docs,
           SpareLeads(c, x, y), LooksLike(d, x), d.levels[c.phys] = <<c.real>>
    PROVE  Becomes(d, Redo1(d, c), y)
<1> DEFINE s == c.strip
           p == c.phys
           ps == <<p>>
           e == AddPhysical(d, s, ps)
<1>1. s \in Strips /\ p \in Phys /\ p # None /\ Redo1(d, c) = e
  BY StripAssumption DEF SpareAdds, SpareLeads, Redo1, AddSpare, AddPhysical
<1>2. /\ d.order = x.order /\ \A t \in Strips : p \notin Range(x.order[t])
      /\ y.order = [x.order EXCEPT ![s] = @ \o ps] /\ y.levels[p] = <<c.real>> /\ Beside(x, y)
  BY DEF SpareLeads, LooksLike, SamePlaces
<1>3. d \in Docs /\ Owned(d) /\ d.order \in [Strips -> Seq(Phys)] /\ d.strip \in [Phys -> Strips \cup {None}]
  BY DocParts DEF Whole
<1>4. d.strip[p] = None
  <2>1. d.strip[p] \in Strips => p \in Range(d.order[d.strip[p]])
    BY <1>1, <1>3, StripAssumption DEF Owned
  <2> QED
    BY <1>1, <1>2, <1>3, <2>1
<1>5. ps \in Seq(Phys) /\ Range(ps) = {p}
  BY <1>1, OneIs
<1> HIDE DEF s, p, ps, e
<1>6. /\ Rearranged(d, e) /\ e.order = [d.order EXCEPT ![s] = @ \o ps]
      /\ e.strip = [q \in Phys |-> IF q \in Range(ps) THEN s ELSE d.strip[q]]
  <2>1. e = AddPhysical(d, s, ps) /\ \A q \in Range(ps) : d.strip[q] = None
    BY <1>4, <1>5 DEF e
  <2>2. s \in Strips /\ d \in Docs /\ ps \in Seq(Phys)
    BY <1>1, <1>3, <1>5
  <2> QED
    BY ONLY <2>1, <2>2, InsertedEnd
<1>7. Range(e.order[s]) = Range(d.order[s]) \cup {p} /\ \A t \in Strips : t # s => e.order[t] = d.order[t]
  <2>1. Range(d.order[s] \o ps) = Range(d.order[s]) \cup Range(ps)
    BY <1>1, <1>3, <1>5, InBoth
  <2> QED
    BY <1>1, <1>3, <1>5, <1>6, <2>1
<1>8. Owned(e)
  <2>1. ASSUME NEW q \in Phys, e.strip[q] # None PROVE q \in Range(e.order[e.strip[q]])
    <3>1. CASE q = p
      BY <1>5, <1>6, <1>7, <3>1
    <3>2. CASE q # p
      <4>1. e.strip[q] = d.strip[q] /\ d.strip[q] \in Strips /\ q \in Range(d.order[d.strip[q]])
        BY <1>3, <1>5, <1>6, <2>1, <3>2 DEF Owned
      <4> QED
        BY <1>7, <4>1
    <3> QED
      BY <3>1, <3>2
  <2>2. \A r \in Reals : e.phys[r] # None => r \in Range(e.levels[e.phys[r]])
    BY <1>3, <1>6 DEF Owned, Rearranged
  <2> QED
    BY <2>1, <2>2 DEF Owned
<1>9. LooksLike(e, y)
  <2>1. /\ e.listed = d.listed /\ e.levels = d.levels /\ e.on = d.on /\ e.home = d.home
    BY <1>6 DEF Rearranged
  <2>2. /\ x.listed = d.listed /\ x.on = d.on
        /\ \A t \in Strips : \A q \in Range(d.order[t]) : x.levels[q] = d.levels[q]
        /\ \A b \in Bridges : d.on[b] # {} => x.home[b] = d.home[b]
    BY DEF LooksLike, SamePlaces, SameLevels, SameBridges
  <2>3. /\ y.listed = x.listed /\ y.on = x.on
        /\ \A t \in Strips : \A q \in Range(x.order[t]) : y.levels[q] = x.levels[q]
        /\ \A b \in Bridges : x.on[b] # {} => y.home[b] = x.home[b]
    BY <1>2 DEF Beside, SameLevels, SameBridges
  <2>4. ASSUME NEW t \in Strips, NEW q \in Range(e.order[t]) PROVE y.levels[q] = e.levels[q]
    <3>1. CASE q = p
      BY <1>2, <2>1, <3>1 DEF p
    <3>2. CASE q # p
      BY <1>2, <1>7, <2>1, <2>2, <2>3, <3>2
    <3> QED
      BY <3>1, <3>2
  <2>5. e.order = y.order
    BY <1>2, <1>6
  <2>6. \A b \in Bridges : e.on[b] # {} => y.home[b] = e.home[b]
    BY <2>1, <2>2, <2>3
  <2> QED
    BY <2>1, <2>2, <2>3, <2>4, <2>5, <2>6 DEF LooksLike, SamePlaces, SameLevels, SameBridges
<1> QED
  BY <1>1, <1>6, <1>8, <1>9 DEF Becomes, KeepsMade, Rearranged

\* AddSpareTerminalsCommand::undo() takes it from the end.
LEMMA SpareBack ==
    ASSUME NEW c \in SpareAdds, NEW d \in Whole, NEW x \in Docs, NEW y \in Whole,
           SpareLeads(c, x, y), LooksLike(d, y)
    PROVE  Becomes(d, Undo1(d, c), x)
<1> DEFINE s == c.strip
           p == c.phys
           ps == <<p>>
           a == x.order[s]
           e == RemovePhysical(d, s, ps)
<1>1. s \in Strips /\ p \in Phys /\ c.real \in Reals /\ Undo1(d, c) = e
  BY DEF SpareAdds, Undo1, Reals
<1>2. /\ d.order = y.order /\ \A t \in Strips : p \notin Range(x.order[t])
      /\ y.order = [x.order EXCEPT ![s] = @ \o ps]
      /\ y.levels[p] = <<c.real>> /\ Unbridged(y, {c.real}) /\ Beside(x, y)
  BY DEF SpareLeads, LooksLike, SamePlaces
<1>3. /\ d \in Docs /\ Owned(d) /\ d.strip \in [Phys -> Strips \cup {None}]
      /\ x.order \in [Strips -> Seq(Phys)]
  BY DocParts DEF Whole
<1>4. ps \in Seq(Phys) /\ Range(ps) = {p}
  BY <1>1, OneIs
<1> HIDE DEF s, p, ps, e
<1>5. a \in Seq(Phys) /\ y.order[s] = a \o ps /\ \A t \in Strips : t # s => y.order[t] = x.order[t]
  BY <1>1, <1>2, <1>3
<1>6. Range(y.order[s]) = Range(a) \cup {p}
  <2>1. Range(a \o ps) = Range(a) \cup Range(ps)
    BY <1>4, <1>5, InBoth
  <2> QED
    BY <1>4, <1>5, <2>1
<1>7. LooseEnd(d, s, a, ps)
  <2>1. IsInjective(y.order[s])
    BY <1>1 DEF Whole, Sound
  <2>2. \A q \in Range(ps) : Unbridged(y, Range(y.levels[q]))
    <3>1. Range(<<c.real>>) = {c.real}
      BY <1>1, OneIs
    <3> QED
      BY <1>2, <1>4, <3>1
  <2>3. LooseEnd(y, s, a, ps)
    BY <1>4, <1>5, <2>1, <2>2 DEF LooseEnd
  <2> HIDE DEF a
  <2> QED
    BY <1>1, <2>3, LooseLike
<1> HIDE DEF a
<1>8. /\ Rearranged(d, e) /\ e.order = [d.order EXCEPT ![s] = a]
      /\ e.strip = [q \in Phys |-> IF q \in {p} THEN None ELSE d.strip[q]]
  <2>1. EndTaken(d, s, a, ps, e)
    BY <1>1, <1>3, <1>7, LastRemoved DEF e
  <2> QED
    BY <1>4, <2>1 DEF EndTaken
<1>9. e.order = x.order
  <2>1. e.order = [[x.order EXCEPT ![s] = @ \o ps] EXCEPT ![s] = x.order[s]]
    BY <1>2, <1>8 DEF a
  <2> QED
    BY <1>1, <1>3, <2>1
<1>10. Owned(e)
  <2>1. ASSUME NEW q \in Phys, e.strip[q] # None PROVE q \in Range(e.order[e.strip[q]])
    <3>1. q # p /\ e.strip[q] = d.strip[q] /\ d.strip[q] \in Strips /\ q \in Range(d.order[d.strip[q]])
      BY <1>3, <1>8, <2>1 DEF Owned
    <3>2. CASE d.strip[q] = s
      BY <1>2, <1>6, <1>9, <3>1, <3>2 DEF a
    <3>3. CASE d.strip[q] # s
      BY <1>2, <1>5, <1>9, <3>1, <3>3
    <3> QED
      BY <3>2, <3>3
  <2>2. \A r \in Reals : e.phys[r] # None => r \in Range(e.levels[e.phys[r]])
    BY <1>3, <1>8 DEF Owned, Rearranged
  <2> QED
    BY <2>1, <2>2 DEF Owned
<1>11. ASSUME NEW u \in Strips, NEW q \in Range(x.order[u]) PROVE q \in Range(y.order[u])
  BY <1>5, <1>6 DEF a
<1>12. LooksLike(e, x)
  <2>1. /\ e.listed = d.listed /\ e.levels = d.levels /\ e.on = d.on /\ e.home = d.home
    BY <1>8 DEF Rearranged
  <2>2. /\ y.listed = d.listed /\ y.on = d.on
        /\ \A t \in Strips : \A q \in Range(d.order[t]) : y.levels[q] = d.levels[q]
        /\ \A b \in Bridges : d.on[b] # {} => y.home[b] = d.home[b]
    BY DEF LooksLike, SamePlaces, SameLevels, SameBridges
  <2>3. /\ y.listed = x.listed /\ y.on = x.on
        /\ \A t \in Strips : \A q \in Range(x.order[t]) : y.levels[q] = x.levels[q]
        /\ \A b \in Bridges : x.on[b] # {} => y.home[b] = x.home[b]
    BY <1>2 DEF Beside, SameLevels, SameBridges
  <2>4. ASSUME NEW t \in Strips, NEW q \in Range(e.order[t]) PROVE x.levels[q] = e.levels[q]
    BY <1>2, <1>9, <1>11, <2>1, <2>2, <2>3
  <2>6. \A b \in Bridges : e.on[b] # {} => x.home[b] = e.home[b]
    BY <2>1, <2>2, <2>3
  <2> QED
    BY <1>9, <2>1, <2>2, <2>3, <2>4, <2>6 DEF LooksLike, SamePlaces, SameLevels, SameBridges
<1> QED
  BY <1>1, <1>8, <1>10, <1>12 DEF Becomes, KeepsMade, Rearranged

\* An exchange leads to one result, and another exchange takes it back.
LEMMA SwapsSame ==
    ASSUME NEW T, NEW q, NEW i, NEW j, NEW a, NEW b, Swaps(T, q, i, j, a), Swaps(T, q, i, j, b)
    PROVE  a = b
BY DEF Swaps

\* A physical terminal in which two levels were exchanged has them back when
\* they are exchanged again.
LEMMA SwapsBack ==
    ASSUME NEW T, NEW q \in Plains(T), NEW i \in 1 .. Len(q), NEW j \in 1 .. Len(q), NEW a,
           Swaps(T, q, i, j, a)
    PROVE  a \in Plains(T) /\ Len(a) = Len(q) /\ a[j] = q[i] /\ Swaps(T, a, j, i, q)
<1>1. q \in Seq(T) /\ Len(q) \in Nat /\ q \in [1 .. Len(q) -> T]
  BY DEF Plains
<1>2. a \in Plains(T)
  BY Swapped
<1> DEFINE m == Len(q)
<1>3. a \in [1 .. m -> T] /\ \A k \in 1 .. m : a[k] = IF k = j THEN q[i] ELSE IF k = i THEN q[j] ELSE q[k]
  BY DEF Swaps
<1>4. Len(a) = m
  <2>1. a \in Seq(T) /\ DOMAIN a = 1 .. m
    BY <1>2, <1>3 DEF Plains
  <2> QED
    BY <1>1, <2>1
<1>5. \A k \in 1 .. m : q[k] = IF k = i THEN a[j] ELSE IF k = j THEN a[i] ELSE a[k]
  BY <1>3
<1> QED
  BY <1>1, <1>2, <1>3, <1>4, <1>5 DEF Swaps

\* TerminalStrip::setLevel()
Relevelled(d, e, p, a) ==
    /\ e \in Docs /\ Owned(e)
    /\ e.levels = [d.levels EXCEPT ![p] = a] /\ (Len(d.levels[p]) = 1 => a = d.levels[p])
    /\ e.listed = d.listed /\ e.order = d.order /\ e.on = d.on /\ e.home = d.home
    /\ e.strip = d.strip /\ e.phys = d.phys

\* A level past the last one is the last one.
ToLevel(level, q) == IF level < Len(q) THEN level ELSE Len(q)

\* RealTerminal::setLevel() exchanges the terminal and the one of that level.
LEMMA LevelSet ==
    ASSUME NEW d \in Whole, NEW s \in Strips, NEW p \in Range(d.order[s]), NEW q,
           q = d.levels[p], NEW i \in 1 .. Len(q), NEW level \in Positive
    PROVE  \E a : /\ Swaps(Reals, q, i, ToLevel(level, q), a)
                  /\ Relevelled(d, SetLevel(d, q[i], level), p, a)
<1>1. d \in Docs /\ Sound(d) /\ Owned(d)
  BY DEF Whole
<1>2. p \in Phys /\ d.levels \in [Phys -> Seq(Reals)] /\ d.order[s] \in Seq(Phys)
  <2>1. d.order[s] \in Seq(Phys) /\ d.levels \in [Phys -> Seq(Reals)]
    BY <1>1, DocParts
  <2> QED
    BY <2>1, RangeOf
<1>3. q \in Plains(Reals) /\ q \in Seq(Reals) /\ IsInjective(q) /\ Len(q) \in Nat /\ DOMAIN q = 1 .. Len(q)
  BY <1>1, <1>2 DEF Sound, Plains
<1> DEFINE r == q[i]
           to == ToLevel(level, q)
           a == [[q EXCEPT ![i] = q[to]] EXCEPT ![to] = q[i]]
           e == SetLevel(d, r, level)
<1>4. to \in 1 .. Len(q)
  BY <1>3 DEF ToLevel, Positive
<1>5. r \in Range(q) /\ r \in Reals
  BY <1>3, RangeOf
<1>6. d.phys[r] = p /\ p # None
  BY <1>1, <1>2, <1>5, StripAssumption DEF Sound
<1>7. Level(d, r) = i
  BY <1>3, <1>6, IndexIs DEF Level
<1>8. e = [d EXCEPT !.levels[p][i] = q[to], !.levels[p][to] = q[i]]
  <2>1. i # 0
    BY <1>3
  <2> HIDE DEF r
  <2> QED
    BY <1>6, <1>7, <2>1 DEF SetLevel, ToLevel, r
<1> HIDE DEF to
<1>9. e = [d EXCEPT !.levels[p] = a]
  <2> HIDE DEF e
  <2> QED
    BY <1>1, <1>2, <1>8 DEF Docs
<1>10. Swaps(Reals, q, i, to, a)
  BY <1>3, <1>4 DEF Swaps
<1> HIDE DEF a, e, r
<1>11. a \in Plains(Reals) /\ a \in Seq(Reals) /\ Range(a) = Range(q)
  <2>1. a \in Plains(Reals) /\ Range(a) = Range(q)
    BY <1>3, <1>4, <1>10, Swapped
  <2> QED
    BY <2>1 DEF Plains
<1> DEFINE levels == [d.levels EXCEPT ![p] = a]
<1>12. levels \in [Phys -> Seq(Reals)] /\ \A o \in Phys : Range(levels[o]) = Range(d.levels[o])
  BY <1>2, <1>11
<1> HIDE DEF levels
<1>13. e = [d EXCEPT !.levels = levels]
  BY <1>1, <1>9 DEF Docs, levels
<1>14. /\ e \in Docs /\ e.levels = levels /\ e.listed = d.listed /\ e.order = d.order
       /\ e.on = d.on /\ e.home = d.home /\ e.strip = d.strip /\ e.phys = d.phys
  BY <1>1, <1>12, <1>13 DEF Docs
<1>15. Owned(e)
  <2>1. d.phys \in [Reals -> Phys \cup {None}]
    BY <1>1, DocParts
  <2> QED
    BY <1>1, <1>12, <1>14, <2>1 DEF Owned
<1>16. Len(q) = 1 => a = q
  <2>1. ASSUME Len(q) = 1 PROVE a = q
    <3>0. q \in [1 .. Len(q) -> Reals]
      BY <1>3
    <3>1. i = 1 /\ to = 1 /\ q \in [1 .. 1 -> Reals]
      <4>1. i \in 1 .. 1 /\ to \in 1 .. 1
        BY <1>4, <2>1
      <4> QED
        BY <2>1, <3>0, <4>1
    <3>2. a \in [1 .. 1 -> Reals] /\ a[1] = q[1]
      BY <1>10, <2>1, <3>1 DEF Swaps
    <3>3. \A k \in 1 .. 1 : k = 1
      OBVIOUS
    <3> QED
      BY <3>1, <3>2, <3>3
  <2> QED
    BY <2>1
<1>17. Relevelled(d, e, p, a)
  BY <1>14, <1>15, <1>16 DEF Relevelled, levels
<1> QED
  BY <1>10, <1>17 DEF to, e, r

\* ChangeTerminalLevel, of the terminal at c.old of the physical terminal p.
LevelSwapped(c, x, y, p) ==
    /\ c.old \in 1 .. Len(x.levels[p]) /\ x.levels[p][c.old] = c.real
    /\ Swaps(Reals, x.levels[p], c.old, ToLevel(c.new, x.levels[p]), y.levels[p])
    /\ \A t \in Strips : \A o \in Range(x.order[t]) : o # p => y.levels[o] = x.levels[o]

\* One of a strip's physical terminals has two levels exchanged.
LevelLeads(c, x, y) ==
    /\ \E s \in Strips : \E p \in Range(x.order[s]) : LevelSwapped(c, x, y, p)
    /\ y.order = x.order /\ SameBridges(x, y) /\ y.listed = x.listed

\* A document one of whose physical terminals has its levels exchanged.
LEMMA RelevelledBecomes ==
    ASSUME NEW d, NEW x, LooksLike(d, x), NEW y, NEW p, NEW a, NEW e, Relevelled(d, e, p, a),
           y.order = x.order, SameBridges(x, y), y.listed = x.listed, y.levels[p] = a,
           d \in Docs,
           \A t \in Strips : \A o \in Range(x.order[t]) : o # p => y.levels[o] = x.levels[o]
    PROVE  Becomes(d, e, y)
<1>1. /\ e \in Docs /\ Owned(e)
      /\ e.levels = [d.levels EXCEPT ![p] = a] /\ (Len(d.levels[p]) = 1 => a = d.levels[p])
      /\ e.listed = d.listed /\ e.order = d.order /\ e.on = d.on /\ e.home = d.home
  BY DEF Relevelled
<1>2. /\ x.listed = d.listed /\ x.order = d.order /\ x.on = d.on
      /\ \A s \in Strips : \A o \in Range(d.order[s]) : x.levels[o] = d.levels[o]
      /\ \A b \in Bridges : d.on[b] # {} => x.home[b] = d.home[b]
  BY DEF LooksLike, SamePlaces, SameLevels, SameBridges
<1>3. y.on = x.on /\ \A b \in Bridges : x.on[b] # {} => y.home[b] = x.home[b]
  BY DEF SameBridges
<1>4. ASSUME NEW s \in Strips, NEW o \in Range(e.order[s]) PROVE y.levels[o] = e.levels[o]
  <2>1. d.levels \in [Phys -> Seq(Reals)] /\ d.order[s] \in Seq(Phys) /\ o \in Range(d.order[s])
    BY <1>1, DocParts
  <2>2. o \in Phys
    BY <2>1, RangeOf
  <2> QED
    BY <1>1, <1>2, <2>1, <2>2
<1>5. \A b \in Bridges : e.on[b] # {} => y.home[b] = e.home[b]
  BY <1>1, <1>2, <1>3
<1>6. KeepsMade(d, e)
  <2>1. d.levels \in [Phys -> Seq(Reals)]
    BY DocParts
  <2> QED
    BY <1>1, <2>1 DEF KeepsMade
<1> QED
  BY <1>1, <1>2, <1>3, <1>4, <1>5, <1>6 DEF Becomes, LooksLike, SamePlaces, SameLevels, SameBridges

\* ChangeTerminalLevel::redo() leads to the same again.
LEMMA LevelAgain ==
    ASSUME NEW c \in Levelings, NEW d \in Whole, NEW x \in Whole, NEW y \in Docs,
           LevelLeads(c, x, y), LooksLike(d, x)
    PROVE  Becomes(d, Redo1(d, c), y)
<1>1. Redo1(d, c) = SetLevel(d, c.real, c.new) /\ c.new \in Positive
  BY DEF Levelings, Redo1
<1>2. PICK s \in Strips : \E p \in Range(x.order[s]) : LevelSwapped(c, x, y, p)
  BY DEF LevelLeads
<1>3. PICK p \in Range(x.order[s]) : LevelSwapped(c, x, y, p)
  BY <1>2
<1> DEFINE q == x.levels[p]
<1>4. d.order = x.order /\ d.levels[p] = q
  BY DEF LooksLike, SamePlaces, SameLevels
<1>5. /\ c.old \in 1 .. Len(q) /\ q[c.old] = c.real
      /\ Swaps(Reals, q, c.old, ToLevel(c.new, q), y.levels[p])
      /\ \A t \in Strips : \A o \in Range(x.order[t]) : o # p => y.levels[o] = x.levels[o]
  BY <1>3 DEF LevelSwapped
<1> HIDE DEF q
<1>6. PICK a : /\ Swaps(Reals, q, c.old, ToLevel(c.new, q), a)
               /\ Relevelled(d, SetLevel(d, q[c.old], c.new), p, a)
  <2>1. p \in Range(d.order[s]) /\ q = d.levels[p]
    BY <1>4
  <2> QED
    BY ONLY <1>1, <1>5, <2>1, d \in Whole, s \in Strips, LevelSet
<1>7. a = y.levels[p]
  BY <1>5, <1>6, SwapsSame
<1>8. y.order = x.order /\ SameBridges(x, y) /\ y.listed = x.listed
  BY DEF LevelLeads
<1>9. Relevelled(d, Redo1(d, c), p, a) /\ d \in Docs
  BY <1>1, <1>5, <1>6 DEF Whole
<1>10. y.levels[p] = a
  BY <1>7
<1>11. \A t \in Strips : \A o \in Range(x.order[t]) : o # p => y.levels[o] = x.levels[o]
  BY <1>5
<1> DEFINE e == Redo1(d, c)
<1> HIDE DEF e
<1>12. Relevelled(d, e, p, a)
  BY <1>9 DEF e
<1>13. Becomes(d, e, y)
  BY ONLY <1>8, <1>9, <1>10, <1>11, <1>12, LooksLike(d, x), RelevelledBecomes
<1> QED
  BY <1>13 DEF e

\* ChangeTerminalLevel::undo() leads back: the level it goes to is the one
\* the terminal came from.
LEMMA LevelBack ==
    ASSUME NEW c \in Levelings, NEW d \in Whole, NEW x \in Whole, NEW y \in Whole,
           LevelLeads(c, x, y), LooksLike(d, y)
    PROVE  Becomes(d, Undo1(d, c), x)
<1>1. Undo1(d, c) = SetLevel(d, c.real, c.old) /\ c.old \in Positive /\ c.new \in Positive
  BY DEF Levelings, Undo1
<1>2. PICK s \in Strips : \E p \in Range(x.order[s]) : LevelSwapped(c, x, y, p)
  BY DEF LevelLeads
<1>3. PICK p \in Range(x.order[s]) : LevelSwapped(c, x, y, p)
  BY <1>2
<1> DEFINE q == x.levels[p]
           o == y.levels[p]
           to == ToLevel(c.new, q)
<1>4. d.order = x.order /\ d.levels[p] = o /\ y.order = x.order
  BY DEF LooksLike, SamePlaces, SameLevels, LevelLeads
<1>5. /\ c.old \in 1 .. Len(q) /\ q[c.old] = c.real
      /\ Swaps(Reals, q, c.old, to, o)
      /\ \A t \in Strips : \A z \in Range(x.order[t]) : z # p => y.levels[z] = x.levels[z]
  BY <1>3 DEF LevelSwapped
<1>6. q \in Plains(Reals) /\ Len(q) \in Nat
  <2>1. x \in Docs /\ Sound(x) /\ x.order[s] \in Seq(Phys) /\ x.levels \in [Phys -> Seq(Reals)]
    BY DocParts DEF Whole
  <2>2. p \in Phys
    BY <2>1, RangeOf
  <2> QED
    BY <2>1, <2>2 DEF Sound, Plains
<1> HIDE DEF q, o
<1>7. to \in 1 .. Len(q)
  BY <1>1, <1>5, <1>6 DEF ToLevel, Positive
<1> HIDE DEF to
<1>8. Len(o) = Len(q) /\ o[to] = c.real /\ Swaps(Reals, o, to, c.old, q)
  BY <1>5, <1>6, <1>7, SwapsBack
<1>9. ToLevel(c.old, o) = c.old
  BY <1>5, <1>6, <1>8 DEF ToLevel
<1>10. PICK a : /\ Swaps(Reals, o, to, ToLevel(c.old, o), a)
                /\ Relevelled(d, SetLevel(d, o[to], c.old), p, a)
  <2>1. p \in Range(d.order[s]) /\ o = d.levels[p] /\ to \in 1 .. Len(o)
    BY <1>4, <1>7, <1>8
  <2> QED
    BY ONLY <1>1, <2>1, d \in Whole, s \in Strips, LevelSet
<1>11. a = q
  BY <1>8, <1>9, <1>10, SwapsSame
<1>12. x.order = y.order /\ SameBridges(y, x) /\ x.listed = y.listed
  BY DEF LevelLeads, SameBridges
<1>13. Relevelled(d, Undo1(d, c), p, a) /\ d \in Docs
  BY <1>1, <1>8, <1>10 DEF Whole
<1>14. \A t \in Strips : \A z \in Range(y.order[t]) : z # p => x.levels[z] = y.levels[z]
  BY <1>4, <1>5
<1>15. x.levels[p] = a
  BY <1>11 DEF q
<1> QED
  BY <1>12, <1>13, <1>14, <1>15, RelevelledBecomes

\* AddTerminalStripCommand
AddLeads(c, x, y) ==
    /\ c.strip \notin x.listed /\ y.listed = x.listed \cup {c.strip}
    /\ SamePlaces(x, y) /\ SameBridges(x, y)

\* AddTerminalStripCommand::redo() leads to the same again.
LEMMA AddAgain ==
    ASSUME NEW c \in StripAdds, NEW d \in Whole, NEW x \in Whole, NEW y \in Docs,
           AddLeads(c, x, y), LooksLike(d, x)
    PROVE  Becomes(d, Redo1(d, c), y)
<1> DEFINE e == Redo1(d, c)
<1>1. e = [d EXCEPT !.listed = @ \cup {c.strip}] /\ c.strip \in Strips
  BY DEF StripAdds, Redo1
<1>2. d \in Docs /\ Owned(d)
  BY DEF Whole
<1> HIDE DEF e
<1>3. /\ e \in Docs /\ e.listed = d.listed \cup {c.strip} /\ e.order = d.order /\ e.levels = d.levels
      /\ e.strip = d.strip /\ e.phys = d.phys /\ e.on = d.on /\ e.home = d.home
  BY <1>1, <1>2 DEF Docs
<1>4. Owned(e)
  BY <1>2, <1>3 DEF Owned
<1>5. LooksLike(e, y)
  BY <1>3 DEF AddLeads, LooksLike, SamePlaces, SameLevels, SameBridges
<1> QED
  BY <1>3, <1>4, <1>5 DEF Becomes, KeepsMade, e

\* AddTerminalStripCommand::undo() leads back.
LEMMA AddBack ==
    ASSUME NEW c \in StripAdds, NEW d \in Whole, NEW x \in Docs, NEW y \in Whole,
           AddLeads(c, x, y), LooksLike(d, y)
    PROVE  Becomes(d, Undo1(d, c), x)
<1> DEFINE e == Undo1(d, c)
<1>1. e = [d EXCEPT !.listed = @ \ {c.strip}] /\ c.strip \in Strips
  BY DEF StripAdds, Undo1
<1>2. d \in Docs /\ Owned(d)
  BY DEF Whole
<1> HIDE DEF e
<1>3. /\ e \in Docs /\ e.listed = d.listed \ {c.strip} /\ e.order = d.order /\ e.levels = d.levels
      /\ e.strip = d.strip /\ e.phys = d.phys /\ e.on = d.on /\ e.home = d.home
  BY <1>1, <1>2 DEF Docs
<1>4. Owned(e)
  BY <1>2, <1>3 DEF Owned
<1>5. LooksLike(e, x)
  BY <1>3 DEF AddLeads, LooksLike, SamePlaces, SameLevels, SameBridges
<1> QED
  BY <1>3, <1>4, <1>5 DEF Becomes, KeepsMade, e

\* e has T on the bridge b, and everything else as d has it.
Rebridged(d, e, b, T) ==
    /\ e \in Docs /\ Owned(e)
    /\ e.on = [d.on EXCEPT ![b] = T]
    /\ e.listed = d.listed /\ e.order = d.order /\ e.levels = d.levels
    /\ e.strip = d.strip /\ e.phys = d.phys /\ e.home = d.home

\* A document in which a bridge is given other terminals.
LEMMA RebridgedIs ==
    ASSUME NEW d \in Whole, NEW b \in Bridges, NEW T \in SUBSET Reals, NEW e,
           e = [d EXCEPT !.on = [d.on EXCEPT ![b] = T]]
    PROVE  Rebridged(d, e, b, T)
<1>1. d \in Docs /\ Owned(d)
  BY DEF Whole
<1> DEFINE on == [d.on EXCEPT ![b] = T]
<1>2. on \in [Bridges -> SUBSET Reals]
  BY <1>1, DocParts
<1> HIDE DEF on
<1>3. e = [d EXCEPT !.on = on]
  BY DEF on
<1>4. /\ e \in Docs /\ e.on = on
      /\ e.listed = d.listed /\ e.order = d.order /\ e.levels = d.levels
      /\ e.strip = d.strip /\ e.phys = d.phys /\ e.home = d.home
  BY <1>1, <1>2, <1>3 DEF Docs
<1>5. Owned(e)
  BY <1>1, <1>4 DEF Owned
<1> QED
  BY <1>4, <1>5 DEF Rebridged, on

\* TerminalStripBridge::addTerminals() of terminals that make a row with what
\* is on the bridge
RowOf(d, s, b, T) ==
    /\ InStrip(d, s, T) /\ InRow(d, s, T)
    /\ \A z \in Bridges : z # b => d.on[z] \cap T = {}

\* TerminalStrip::setBridge() adds them when all of it is in a row.
LEMMA BridgeSet ==
    ASSUME NEW d \in Whole, Tidy(d), NEW s \in Strips, NEW b \in Bridges, d.home[b] = s,
           NEW R, R # {}, R \cap d.on[b] = {}, NEW T, T = R \cup d.on[b], RowOf(d, s, b, T)
    PROVE  Rebridged(d, SetKnownBridge(d, s, b, R), b, T)
<1>1. /\ InStrip(d, s, T) /\ InRow(d, s, T)
      /\ \A z \in Bridges : z # b => d.on[z] \cap T = {}
      /\ T \in SUBSET Reals /\ \A r \in T : ParentStrip(d, r) = s
  BY DEF RowOf, InStrip
<1>2. d \in Docs /\ d.home \in [Bridges -> Strips \cup {None}] /\ d.on \in [Bridges -> SUBSET Reals]
  BY DocParts DEF Whole
<1>3. ASSUME NEW r \in T PROVE /\ BridgeOf(d, s, r) \in {None, b}
                               /\ BridgeOf(d, s, r) = b => r \in d.on[b]
  <2>1. BridgeOf(d, s, r) # None => BridgeOf(d, s, r) \in Bridges /\ r \in d.on[BridgeOf(d, s, r)]
    BY <1>2, BridgeFound
  <2>2. b # None
    BY StripAssumption
  <2> QED
    BY <1>1, <2>1, <2>2
<1>4. PICK r \in R : TRUE
  OBVIOUS
<1>5. BridgeOf(d, s, r) = None
  BY <1>3, <1>4
<1>6. IsBridgeable(d, s, T)
  <2>1. r \in T /\ \A q \in T : BridgeOf(d, s, q) \in {None, b}
    BY <1>3
  <2> QED
    BY ONLY <1>1, <1>5, <2>1, d \in Whole, s \in Strips, RowBridgeable
<1> DEFINE e == SetKnownBridge(d, s, b, R)
<1>7. e = AddToBridge(d, s, b, R)
  BY <1>6 DEF SetKnownBridge
<1>8. e = [d EXCEPT !.on[b] = @ \cup R, !.home[b] = s]
  BY <1>1, <1>7 DEF AddToBridge
<1> HIDE DEF e
<1>9. [d.home EXCEPT ![b] = s] = d.home
  BY <1>2
<1>10. [d.on EXCEPT ![b] = @ \cup R] = [d.on EXCEPT ![b] = T]
  BY <1>2
<1>11. e = [d EXCEPT !.on = [d.on EXCEPT ![b] = T]]
  <2>1. e = [d EXCEPT !.on = [d.on EXCEPT ![b] = @ \cup R], !.home = [d.home EXCEPT ![b] = s]]
    BY <1>2, <1>8 DEF Docs
  <2>2. e = [d EXCEPT !.on = [d.on EXCEPT ![b] = T], !.home = d.home]
    BY <1>9, <1>10, <2>1
  <2> QED
    BY <1>2, <2>2 DEF Docs
<1> QED
  BY <1>1, <1>11, RebridgedIs DEF e

\* TerminalStrip::unBridge() of an end of a bridge.
LEMMA BridgeCut ==
    ASSUME NEW d \in Whole, Tidy(d), NEW s \in Strips, NEW b \in Bridges, d.home[b] = s,
           NEW R \in SUBSET d.on[b], R # {}, AtEnd(d, s, R, d.on[b])
    PROVE  Rebridged(d, UnBridge(d, s, R), b, d.on[b] \ R)
<1>1. d \in Docs /\ d.on \in [Bridges -> SUBSET Reals]
  BY DocParts DEF Whole
<1>2. CanUnBridge(d, s, R)
  BY UnBridgeable
<1> DEFINE r == CHOOSE q \in R : TRUE
<1>3. r \in d.on[b]
  OBVIOUS
<1> HIDE DEF r
<1>4. BridgeOf(d, s, r) = b
  BY <1>1, <1>3, BridgeFound
<1> DEFINE e == UnBridge(d, s, R)
<1>5. e = [d EXCEPT !.on[b] = @ \ R]
  BY <1>2, <1>4 DEF UnBridge, r
<1> HIDE DEF e
<1>6. e = [d EXCEPT !.on = [d.on EXCEPT ![b] = d.on[b] \ R]]
  BY <1>1, <1>5 DEF Docs
<1>7. d.on[b] \ R \in SUBSET Reals
  BY <1>1
<1> DEFINE T == d.on[b] \ R
<1> HIDE DEF T
<1>8. Rebridged(d, e, b, T)
  BY <1>6, <1>7, RebridgedIs DEF T
<1> QED
  BY <1>8 DEF T, e

\* A document one of whose bridges has other terminals.
LEMMA RebridgedBecomes ==
    ASSUME NEW d, NEW x, LooksLike(d, x), NEW y, SamePlaces(x, y), y.listed = x.listed,
           NEW e, NEW b, NEW T, Rebridged(d, e, b, T), y.on = [d.on EXCEPT ![b] = T],
           \A z \in Bridges : y.on[z] # {} => y.home[z] = d.home[z]
    PROVE  Becomes(d, e, y)
BY DEF Becomes, KeepsMade, Rebridged, LooksLike, SamePlaces, SameLevels, SameBridges

\* BridgeTerminalsCommand, when its bridge is made.
BridgeLeads(c, x, y) ==
    /\ c.bridge \in Bridges /\ c.reals # {} /\ x.on[c.bridge] = {}
    /\ y.on = [x.on EXCEPT ![c.bridge] = c.reals] /\ y.home[c.bridge] = c.strip
    /\ \A z \in Bridges : x.on[z] # {} => y.home[z] = x.home[z]
    /\ SamePlaces(x, y) /\ y.listed = x.listed

\* UnBridgeTerminalsCommand
UnbridgeLeads(c, x, y) ==
    /\ c.bridge \in Bridges /\ c.reals # {} /\ c.reals \subseteq x.on[c.bridge]
    /\ x.home[c.bridge] = c.strip
    /\ AtEnd(x, c.strip, c.reals, x.on[c.bridge])
    /\ y.on = [x.on EXCEPT ![c.bridge] = @ \ c.reals]
    /\ \A z \in Bridges : y.on[z] # {} => y.home[z] = x.home[z]
    /\ SamePlaces(x, y) /\ y.listed = x.listed

\* The commands that set a bridge,
Bridge1s == {c \in Bridgings : c.name = "Bridge"}
\* and those that take terminals off one.
Unbridge1s == {c \in Bridgings : c.name = "Unbridge"}

\* Strips that have the same terminals have them the other way around,
LEMMA SameBack ==
    ASSUME NEW x, NEW y, SamePlaces(x, y)
    PROVE  SamePlaces(y, x)
BY DEF SamePlaces, SameLevels

\* and as a third document has them.
LEMMA SameOn ==
    ASSUME NEW x, NEW y, NEW z, SamePlaces(x, y), SamePlaces(y, z)
    PROVE  SamePlaces(x, z)
BY DEF SamePlaces, SameLevels

\* BridgeTerminalsCommand::redo() joins the terminals again, with the bridge
\* it made.
LEMMA BridgeAgain ==
    ASSUME NEW c \in Bridge1s, NEW d \in Whole, NEW x \in Whole, NEW y \in Whole,
           Tidy(x), Tidy(y), BridgeLeads(c, x, y), LooksLike(d, x), d.home[c.bridge] = c.strip
    PROVE  Becomes(d, Redo1(d, c), y)
<1> DEFINE s == c.strip
           b == c.bridge
           R == c.reals
           e == SetKnownBridge(d, s, b, R)
<1>1. /\ s \in Strips /\ R \in SUBSET Reals /\ b \in Bridges /\ R # {} /\ x.on[b] = {}
      /\ y.on = [x.on EXCEPT ![b] = R] /\ y.home[b] = s
      /\ \A z \in Bridges : x.on[z] # {} => y.home[z] = x.home[z]
      /\ SamePlaces(x, y) /\ y.listed = x.listed
  BY DEF Bridge1s, Bridgings, BridgeLeads
<1>2. Redo1(d, c) = e
  <2>1. b # None
    BY <1>1, StripAssumption
  <2> QED
    BY <2>1 DEF Bridge1s, Redo1
<1>3. d.home[b] = s
  OBVIOUS
<1> HIDE DEF s, b, R, e
<1>4. /\ SamePlaces(d, x) /\ x.on = d.on /\ Tidy(d)
      /\ \A z \in Bridges : d.on[z] # {} => x.home[z] = d.home[z]
  <2>1. LooksLike(x, d)
    BY LooksSymmetric
  <2> QED
    BY <2>1, TidyLooks DEF LooksLike, SameBridges
<1>5. x.on \in [Bridges -> SUBSET Reals] /\ y.on[b] = R /\ \A z \in Bridges : z # b => y.on[z] = x.on[z]
  <2>1. x.on \in [Bridges -> SUBSET Reals]
    BY DocParts DEF Whole
  <2> QED
    BY <1>1, <2>1
<1>6. RowOf(d, s, b, R)
  <2>1. InStrip(y, s, R) /\ InRow(y, s, R)
    BY <1>1, <1>5, JoinedAre
  <2>2. SamePlaces(y, d)
    BY <1>1, <1>4, SameOn, SameBack
  <2>3. InStrip(d, s, R) /\ InRow(d, s, R)
    BY <1>1, <2>1, <2>2, RowThere
  <2>4. \A z \in Bridges : z # b => d.on[z] \cap R = {}
    <3>1. OneBridge(y)
      BY DEF Tidy
    <3> QED
      BY <1>1, <1>4, <1>5, <3>1 DEF OneBridge
  <2> QED
    BY <2>3, <2>4 DEF RowOf
<1>7. Rebridged(d, e, b, R)
  <2>1. R \cap d.on[b] = {} /\ R = R \cup d.on[b]
    BY <1>1, <1>4
  <2> QED
    BY ONLY <1>1, <1>3, <1>4, <1>6, <2>1, d \in Whole, BridgeSet DEF e
<1>8. y.on = [d.on EXCEPT ![b] = R] /\ \A z \in Bridges : y.on[z] # {} => y.home[z] = d.home[z]
  BY <1>1, <1>3, <1>4, <1>5
<1> QED
  BY <1>1, <1>2, <1>7, <1>8, RebridgedBecomes

\* BridgeTerminalsCommand::undo() takes them off it: a whole row has an end.
LEMMA BridgeBack ==
    ASSUME NEW c \in Bridge1s, NEW d \in Whole, NEW x \in Whole, NEW y \in Whole,
           Tidy(x), Tidy(y), BridgeLeads(c, x, y), LooksLike(d, y)
    PROVE  Becomes(d, Undo1(d, c), x)
<1> DEFINE s == c.strip
           b == c.bridge
           R == c.reals
           e == UnBridge(d, s, R)
<1>1. /\ s \in Strips /\ R \in SUBSET Reals /\ b \in Bridges /\ R # {} /\ x.on[b] = {}
      /\ y.on = [x.on EXCEPT ![b] = R] /\ y.home[b] = s
      /\ \A z \in Bridges : x.on[z] # {} => y.home[z] = x.home[z]
      /\ SamePlaces(x, y) /\ y.listed = x.listed
  BY DEF Bridge1s, Bridgings, BridgeLeads
<1>2. Undo1(d, c) = e
  BY DEF Bridge1s, Undo1
<1> HIDE DEF s, b, R, e
<1>4. /\ SamePlaces(d, y) /\ y.on = d.on /\ Tidy(d)
      /\ \A z \in Bridges : d.on[z] # {} => y.home[z] = d.home[z]
  <2>1. LooksLike(y, d)
    BY LooksSymmetric
  <2> QED
    BY <2>1, TidyLooks DEF LooksLike, SameBridges
<1>5. x.on \in [Bridges -> SUBSET Reals] /\ y.on[b] = R /\ \A z \in Bridges : z # b => y.on[z] = x.on[z]
  <2>1. x.on \in [Bridges -> SUBSET Reals]
    BY DocParts DEF Whole
  <2> QED
    BY <1>1, <2>1
<1>6. d.on[b] = R /\ d.home[b] = s
  BY <1>1, <1>4, <1>5
<1>7. Rebridged(d, e, b, {})
  <2>1. R \in SUBSET d.on[b] /\ AtEnd(d, s, R, d.on[b]) /\ d.on[b] \ R = {}
    BY <1>6 DEF AtEnd
  <2>2. Rebridged(d, e, b, d.on[b] \ R)
    BY <1>1, <1>4, <1>6, <2>1, BridgeCut DEF e
  <2> QED
    BY <2>1, <2>2
<1>8. x.on = [d.on EXCEPT ![b] = {}] /\ \A z \in Bridges : x.on[z] # {} => x.home[z] = d.home[z]
  BY <1>1, <1>4, <1>5
<1>9. SamePlaces(y, x) /\ x.listed = y.listed
  BY <1>1, SameBack
<1> QED
  BY <1>1, <1>2, <1>7, <1>8, <1>9, RebridgedBecomes

\* UnBridgeTerminalsCommand::redo() takes the same terminals off.
LEMMA UnbridgeAgain ==
    ASSUME NEW c \in Unbridge1s, NEW d \in Whole, NEW x \in Whole, NEW y \in Whole,
           Tidy(x), Tidy(y), UnbridgeLeads(c, x, y), LooksLike(d, x)
    PROVE  Becomes(d, Redo1(d, c), y)
<1> DEFINE s == c.strip
           b == c.bridge
           R == c.reals
           T == x.on[b] \ R
           e == UnBridge(d, s, R)
<1>1. /\ s \in Strips /\ b \in Bridges /\ R # {} /\ R \subseteq x.on[b] /\ x.home[b] = s
      /\ AtEnd(x, s, R, x.on[b]) /\ y.on = [x.on EXCEPT ![b] = T]
      /\ \A z \in Bridges : y.on[z] # {} => y.home[z] = x.home[z]
      /\ SamePlaces(x, y) /\ y.listed = x.listed
  BY DEF Unbridge1s, Bridgings, UnbridgeLeads
<1>2. Redo1(d, c) = e
  BY DEF Unbridge1s, Redo1
<1> HIDE DEF s, b, R, e
<1>4. /\ SamePlaces(x, d) /\ x.on = d.on /\ Tidy(d)
      /\ \A z \in Bridges : d.on[z] # {} => x.home[z] = d.home[z]
  <2>1. LooksLike(x, d)
    BY LooksSymmetric
  <2> QED
    BY <2>1, TidyLooks DEF LooksLike, SameBridges
<1>5. x.on \in [Bridges -> SUBSET Reals] /\ \A z \in Bridges : z # b => y.on[z] = x.on[z]
  <2>1. x.on \in [Bridges -> SUBSET Reals]
    BY DocParts DEF Whole
  <2> QED
    BY <1>1, <2>1
<1>6. d.on[b] = x.on[b] /\ d.home[b] = s
  BY <1>1, <1>4
<1>7. Rebridged(d, e, b, T)
  <2>1. InStrip(x, s, x.on[b])
    BY <1>1, JoinedAre
  <2>2. AtEnd(d, s, R, x.on[b])
    BY <1>1, <1>4, <2>1, RowThere
  <2>3. R \in SUBSET d.on[b] /\ AtEnd(d, s, R, d.on[b])
    BY <1>1, <1>6, <2>2
  <2>4. Rebridged(d, e, b, d.on[b] \ R)
    BY <1>1, <1>4, <1>6, <2>3, BridgeCut DEF e
  <2> QED
    BY <1>6, <2>4
<1>8. y.on = [d.on EXCEPT ![b] = T] /\ \A z \in Bridges : y.on[z] # {} => y.home[z] = d.home[z]
  BY <1>1, <1>4, <1>5
<1> QED
  BY <1>1, <1>2, <1>7, <1>8, RebridgedBecomes

\* UnBridgeTerminalsCommand::undo() joins them with the rest of the bridge,
\* next to which they still are.
LEMMA UnbridgeBack ==
    ASSUME NEW c \in Unbridge1s, NEW d \in Whole, NEW x \in Whole, NEW y \in Whole,
           Tidy(x), Tidy(y), UnbridgeLeads(c, x, y), LooksLike(d, y), d.home[c.bridge] = c.strip
    PROVE  Becomes(d, Undo1(d, c), x)
<1> DEFINE s == c.strip
           b == c.bridge
           R == c.reals
           T == x.on[b]
           e == SetKnownBridge(d, s, b, R)
<1>1. /\ s \in Strips /\ b \in Bridges /\ R # {} /\ R \subseteq T /\ x.home[b] = s
      /\ y.on = [x.on EXCEPT ![b] = T \ R]
      /\ \A z \in Bridges : y.on[z] # {} => y.home[z] = x.home[z]
      /\ SamePlaces(x, y) /\ y.listed = x.listed /\ d.home[b] = s
  BY DEF Unbridge1s, Bridgings, UnbridgeLeads
<1>2. Undo1(d, c) = e
  BY DEF Unbridge1s, Undo1
<1> HIDE DEF s, b, R, e
<1>4. /\ SamePlaces(d, y) /\ y.on = d.on /\ Tidy(d)
      /\ \A z \in Bridges : d.on[z] # {} => y.home[z] = d.home[z]
  <2>1. LooksLike(y, d)
    BY LooksSymmetric
  <2> QED
    BY <2>1, TidyLooks DEF LooksLike, SameBridges
<1>5. /\ x.on \in [Bridges -> SUBSET Reals] /\ y.on[b] = T \ R
      /\ \A z \in Bridges : z # b => y.on[z] = x.on[z]
  <2>1. x.on \in [Bridges -> SUBSET Reals]
    BY DocParts DEF Whole
  <2> QED
    BY <1>1, <2>1
<1>6. RowOf(d, s, b, T)
  <2>1. InStrip(x, s, T) /\ InRow(x, s, T)
    BY <1>1, JoinedAre
  <2>2. SamePlaces(x, d)
    BY <1>1, <1>4, SameOn, SameBack
  <2>3. InStrip(d, s, T) /\ InRow(d, s, T)
    <3> HIDE DEF T
    <3> QED
      BY <1>1, <2>1, <2>2, RowThere
  <2>4. \A z \in Bridges : z # b => d.on[z] \cap T = {}
    <3>1. OneBridge(x)
      BY DEF Tidy
    <3> QED
      BY <1>1, <1>4, <1>5, <3>1 DEF OneBridge
  <2> QED
    BY <2>3, <2>4 DEF RowOf
<1>7. Rebridged(d, e, b, T)
  <2>1. R \cap d.on[b] = {} /\ T = R \cup d.on[b]
    BY <1>1, <1>4, <1>5
  <2> HIDE DEF T
  <2> QED
    BY ONLY <1>1, <1>4, <1>6, <2>1, d \in Whole, BridgeSet DEF e
<1>8. x.on = [d.on EXCEPT ![b] = T] /\ \A z \in Bridges : x.on[z] # {} => x.home[z] = d.home[z]
  BY <1>1, <1>4, <1>5
<1>9. SamePlaces(y, x) /\ x.listed = y.listed
  BY <1>1, SameBack
<1> QED
  BY <1>1, <1>2, <1>7, <1>8, <1>9, RebridgedBecomes

----------------------------------------------------------------------------
(****************************************************************************)
(* Any of these commands, made again and taken back.                        *)
(****************************************************************************)

\* The commands that leave terminals in their physical terminals.
Keepers == Moves \cup SpareAdds \cup Levelings \cup Sorts \cup Bridge1s \cup Unbridge1s
              \cup StripAdds

\* The command c leads from x to y, or from what looks like it.
Leads(c, x, y) ==
    /\ c \in Moves      => MoveLeads(c, x, y)
    /\ c \in SpareAdds  => SpareLeads(c, x, y)
    /\ c \in Levelings  => LevelLeads(c, x, y)
    /\ c \in Sorts      => SortLeads(c, x, y)
    /\ c \in Bridge1s   => BridgeLeads(c, x, y)
    /\ c \in Unbridge1s => UnbridgeLeads(c, x, y)
    /\ c \in StripAdds  => AddLeads(c, x, y)

\* What a command made is as it made it.
Prepared(d, c) ==
    /\ c \in SpareAdds => d.levels[c.phys] = <<c.real>>
    /\ c \in Bridge1s \cup Unbridge1s => c.bridge \in Bridges /\ d.home[c.bridge] = c.strip

\* A command that is made again.
LEMMA RedoBecomes ==
    ASSUME NEW c \in Keepers, NEW d \in Whole, NEW x \in Whole, NEW y \in Whole,
           Tidy(x), Tidy(y), Leads(c, x, y), LooksLike(d, x), Prepared(d, c)
    PROVE  Becomes(d, Redo1(d, c), y)
<1>1. y \in Docs
  BY DEF Whole
<1>2. CASE c \in Moves
  BY <1>1, <1>2, MoveAgain DEF Leads
<1>3. CASE c \in SpareAdds
  BY <1>1, <1>3, SpareAgain DEF Leads, Prepared
<1>4. CASE c \in Levelings
  BY <1>1, <1>4, LevelAgain DEF Leads
<1>5. CASE c \in Sorts
  BY <1>1, <1>5, SortAgain DEF Leads
<1>6. CASE c \in Bridge1s
  BY <1>6, BridgeAgain DEF Leads, Prepared
<1>7. CASE c \in Unbridge1s
  BY <1>7, UnbridgeAgain DEF Leads
<1>8. CASE c \in StripAdds
  BY <1>1, <1>8, AddAgain DEF Leads
<1> QED
  BY <1>2, <1>3, <1>4, <1>5, <1>6, <1>7, <1>8 DEF Keepers

\* A command that is taken back.
LEMMA UndoBecomes ==
    ASSUME NEW c \in Keepers, NEW d \in Whole, NEW x \in Whole, NEW y \in Whole,
           Tidy(x), Tidy(y), Leads(c, x, y), LooksLike(d, y), Prepared(d, c)
    PROVE  Becomes(d, Undo1(d, c), x)
<1>1. x \in Docs
  BY DEF Whole
<1>2. CASE c \in Moves
  BY <1>1, <1>2, MoveBack DEF Leads
<1>3. CASE c \in SpareAdds
  BY <1>1, <1>3, SpareBack DEF Leads
<1>4. CASE c \in Levelings
  BY <1>4, LevelBack DEF Leads
<1>5. CASE c \in Sorts
  BY <1>1, <1>5, SortBack DEF Leads
<1>6. CASE c \in Bridge1s
  BY <1>6, BridgeBack DEF Leads
<1>7. CASE c \in Unbridge1s
  BY <1>7, UnbridgeBack DEF Leads, Prepared
<1>8. CASE c \in StripAdds
  BY <1>1, <1>8, AddBack DEF Leads
<1> QED
  BY <1>2, <1>3, <1>4, <1>5, <1>6, <1>7, <1>8 DEF Keepers

\* What keeps what was made keeps it for each command.
LEMMA PreparedStays ==
    ASSUME NEW c \in Keepers, NEW d, NEW e, KeepsMade(d, e), Prepared(d, c)
    PROVE  Prepared(e, c)
<1>1. ASSUME c \in SpareAdds PROVE e.levels[c.phys] = <<c.real>>
  <2>1. c.phys \in Phys /\ c.real \in Reals /\ d.levels[c.phys] = <<c.real>>
    BY <1>1 DEF SpareAdds, Reals, Prepared
  <2>2. Len(<<c.real>>) = 1
    BY <2>1, OneIs
  <2> QED
    BY <2>1, <2>2 DEF KeepsMade
<1>2. ASSUME c \in Bridge1s \cup Unbridge1s
      PROVE  c.bridge \in Bridges /\ e.home[c.bridge] = c.strip
  BY <1>2 DEF Prepared, KeepsMade
<1> QED
  BY <1>1, <1>2 DEF Prepared

\* What nothing refers to goes, and nobody sees it.
LEMMA CollectedLooks ==
    ASSUME NEW d \in Whole, NEW entries
    PROVE  /\ LooksLike(d, Collected(d, entries)) /\ Owned(Collected(d, entries))
           /\ \A f \in entries : f.cmd \in Keepers /\ Prepared(d, f.cmd)
                  => Prepared(Collected(d, entries), f.cmd)
<1> DEFINE unmade == Unmade(d, entries)
           owner == [r \in Reals |-> IF r \in unmade THEN None ELSE d.phys[r]]
           held == HeldIn(entries) \cup Live([d EXCEPT !.phys = owner])
           gone == {p \in Phys : p \notin held}
           levels == [p \in Phys |-> IF p \in gone THEN << >>
                                     ELSE Selected(d.levels[p], Reals \ unmade)]
           strip == [p \in Phys |-> IF p \in gone THEN None ELSE d.strip[p]]
           phys == [r \in Reals |-> IF \E p \in gone : r \in Range(d.levels[p])
                                    THEN None ELSE owner[r]]
           home == [b \in Bridges |-> IF d.on[b] = {} /\ b \notin held
                                      THEN None ELSE d.home[b]]
           e == [d EXCEPT !.levels = levels, !.strip = strip, !.phys = phys, !.home = home]
<1>1. d \in Docs /\ Sound(d) /\ Owned(d)
  BY DEF Whole
<1>2. Collected(d, entries) = e
  BY DEF Collected
<1>3. /\ d.order \in [Strips -> Seq(Phys)] /\ d.levels \in [Phys -> Seq(Reals)]
      /\ d.strip \in [Phys -> Strips \cup {None}] /\ d.phys \in [Reals -> Phys \cup {None}]
      /\ d.on \in [Bridges -> SUBSET Reals] /\ d.home \in [Bridges -> Strips \cup {None}]
  BY <1>1, DocParts
<1>4. /\ \A r \in unmade : \A f \in entries : r \notin RealsIn(f.cmd)
      /\ \A r \in unmade : \A s \in Strips : \A p \in Range(d.order[s]) \cap Phys : r \notin Range(d.levels[p])
  BY UnmadeIs DEF Reach
<1>5. \A r \in Reals : owner[r] = IF r \in unmade THEN None ELSE d.phys[r]
  OBVIOUS
<1>6. \A p \in gone : /\ p \in Phys /\ p \notin HeldIn(entries)
                      /\ \A s \in Strips : p \notin Range(d.order[s])
  <2>1. [d EXCEPT !.phys = owner].order = d.order
    BY <1>1 DEF Docs
  <2> QED
    BY <2>1 DEF Live
<1>7. \A p \in Phys : p \in HeldIn(entries) => p \notin gone
  BY <1>6
<1>8. \A b \in HeldIn(entries) : b \in held
  OBVIOUS
<1> HIDE DEF unmade, owner, gone, held
<1>9. ASSUME NEW p \in Phys, p \notin gone, \A r \in Range(d.levels[p]) : r \notin unmade
      PROVE  levels[p] = d.levels[p]
  <2>1. d.levels[p] \in Seq(Reals) /\ Range(d.levels[p]) \subseteq Reals
    BY <1>3, RangeOf
  <2>2. Range(d.levels[p]) \subseteq Reals \ unmade
    BY <1>9, <2>1
  <2>3. Selected(d.levels[p], Reals \ unmade) = d.levels[p]
    BY <2>1, <2>2, SelectedAll
  <2> QED
    BY <1>9, <2>3
<1>10. ASSUME NEW p \in Phys, p \notin gone
       PROVE  Range(d.levels[p]) \ unmade \subseteq Range(levels[p])
  <2>1. d.levels[p] \in Seq(Reals) /\ Range(d.levels[p]) \subseteq Reals
    BY <1>3, RangeOf
  <2>2. Range(Selected(d.levels[p], Reals \ unmade)) = Range(d.levels[p]) \cap (Reals \ unmade)
    BY <2>1, SelectedIs
  <2> QED
    BY <1>10, <2>1, <2>2
<1>11. /\ \A p \in Phys : strip[p] = IF p \in gone THEN None ELSE d.strip[p]
       /\ \A r \in Reals : phys[r] = IF \E p \in gone : r \in Range(d.levels[p])
                                     THEN None ELSE owner[r]
       /\ \A b \in Bridges : home[b] = IF d.on[b] = {} /\ b \notin held THEN None ELSE d.home[b]
  OBVIOUS
<1> HIDE DEF levels, strip, phys, home
<1>12. /\ e.order = d.order /\ e.listed = d.listed /\ e.on = d.on /\ e.levels = levels
       /\ e.strip = strip /\ e.phys = phys /\ e.home = home
  BY <1>1 DEF Docs
<1> HIDE DEF e
<1>13. ASSUME NEW s \in Strips, NEW p \in Range(d.order[s]) PROVE e.levels[p] = d.levels[p]
  <2>1. d.order[s] \in Seq(Phys)
    BY <1>3
  <2>2. p \in Phys
    BY <2>1, RangeOf
  <2>3. p \notin gone /\ \A r \in Range(d.levels[p]) : r \notin unmade
    BY <1>4, <1>6, <2>2
  <2> QED
    BY <1>9, <1>12, <2>2, <2>3
<1>14. LooksLike(d, e)
  <2>1. \A b \in Bridges : d.on[b] # {} => e.home[b] = d.home[b]
    BY <1>11, <1>12
  <2> QED
    BY <1>12, <1>13, <2>1 DEF LooksLike, SamePlaces, SameLevels, SameBridges
<1>15. Owned(e)
  <2>1. \A p \in Phys : e.strip[p] # None => p \in Range(e.order[e.strip[p]])
    BY <1>1, <1>11, <1>12 DEF Owned
  <2>2. ASSUME NEW r \in Reals, e.phys[r] # None PROVE r \in Range(e.levels[e.phys[r]])
    <3>1. /\ ~ \E p \in gone : r \in Range(d.levels[p])
          /\ r \notin unmade /\ e.phys[r] = d.phys[r]
      BY <1>5, <1>11, <1>12, <2>2
    <3>2. d.phys[r] \in Phys /\ r \in Range(d.levels[d.phys[r]])
      BY <1>1, <1>3, <2>2, <3>1 DEF Owned
    <3>3. d.phys[r] \notin gone
      BY <3>1, <3>2
    <3> QED
      BY <1>10, <1>12, <3>1, <3>2, <3>3
  <2> QED
    BY <2>1, <2>2 DEF Owned
<1>16. ASSUME NEW f \in entries, f.cmd \in Keepers, Prepared(d, f.cmd) PROVE Prepared(e, f.cmd)
  <2> DEFINE c == f.cmd
  <2>0. \A z \in HeldBy(c) : z \in HeldIn(entries)
    BY DEF HeldIn
  <2>1. ASSUME c \in SpareAdds PROVE e.levels[c.phys] = <<c.real>>
    <3>1. c.phys \in Phys /\ c.real \in Reals /\ d.levels[c.phys] = <<c.real>>
      BY <1>16, <2>1 DEF SpareAdds, Reals, Prepared
    <3>2. c.phys \in HeldBy(c) /\ c.real \in RealsIn(c)
      BY <2>1 DEF SpareAdds, HeldBy, RealsIn
    <3>3. c.phys \notin gone
      BY <1>7, <2>0, <3>1, <3>2
    <3>4. c.real \notin unmade
      BY <1>4, <3>2
    <3>5. Range(<<c.real>>) = {c.real}
      BY <3>1, OneIs
    <3> HIDE DEF c
    <3> QED
      BY <1>9, <1>12, <3>1, <3>3, <3>4, <3>5
  <2>2. ASSUME c \in Bridge1s \cup Unbridge1s
        PROVE  c.bridge \in Bridges /\ e.home[c.bridge] = c.strip
    <3>1. c.bridge \in Bridges /\ d.home[c.bridge] = c.strip
      BY <1>16, <2>2 DEF Prepared
    <3>2. c.bridge \in HeldBy(c)
      BY <2>2 DEF Bridge1s, Unbridge1s, HeldBy
    <3>3. c.bridge \in held
      BY <1>8, <2>0, <3>2
    <3> QED
      BY <1>11, <1>12, <3>1, <3>3
  <2> QED
    BY <2>1, <2>2 DEF Prepared
<1> QED
  BY <1>2, <1>14, <1>15, <1>16

----------------------------------------------------------------------------
(****************************************************************************)
(* What careful commands are given, and what they leave as it is.           *)
(****************************************************************************)

\* What comes after an element does not change where it is.
LEMMA IndexFirst ==
    ASSUME NEW T, NEW a \in Seq(T), NEW b \in Seq(T), IsInjective(a \o b), NEW x \in Range(a)
    PROVE  IndexIn(a \o b, x) = IndexIn(a, x)
<1> DEFINE z == a \o b
           i == IndexIn(a, x)
<1>1. z \in Seq(T) /\ \A k \in 1 .. Len(a) : z[k] = a[k] /\ k \in 1 .. Len(z)
  <2>1. /\ a \o b \in Seq(T) /\ Len(a \o b) = Len(a) + Len(b)
        /\ \A k \in 1 .. Len(a) + Len(b) : (a \o b)[k] = IF k <= Len(a) THEN a[k] ELSE b[k - Len(a)]
    BY ONLY a \in Seq(T), b \in Seq(T), ConcatProperties
  <2>2. Len(a) \in Nat /\ Len(b) \in Nat
    OBVIOUS
  <2> QED
    BY <2>1, <2>2
<1>2. i \in 1 .. Len(a) /\ a[i] = x
  BY IndexIs
<1> HIDE DEF z, i
<1>3. IsInjective(z) /\ i \in 1 .. Len(z) /\ z[i] = x
  BY <1>1, <1>2 DEF z
<1>4. IndexIn(z, z[i]) = i
  BY <1>1, <1>3, IndexIs
<1> QED
  BY <1>3, <1>4 DEF z, i

\* A terminal whose physical terminal is where it was is where it was.
LEMMA StillThereIf ==
    ASSUME NEW d \in Whole, NEW e \in Docs, Sound(e), NEW r \in Reals, NEW s \in Strips,
           ParentStrip(d, r) = s, NEW p, p = d.phys[r], p \in Range(e.order[s]),
           e.levels[p] = d.levels[p], IndexIn(e.order[s], p) = IndexIn(d.order[s], p)
    PROVE  StillThere(d, e, r)
<1>1. s # None
  BY StripAssumption
<1>2. p \in Phys /\ r \in Range(d.levels[p])
  BY <1>1, PlacedIs
<1>3. r \in Range(e.levels[p])
  BY <1>2
<1>4. e.phys[r] = p /\ ParentStrip(e, r) = s
  BY <1>3, TerminalIs
<1>5. Level(e, r) = Level(d, r) /\ Pos(e, s, r) = Pos(d, s, r)
  BY <1>4 DEF Level, Pos
<1> QED
  BY <1>1, <1>4, <1>5 DEF StillThere

\* The physical terminal p of strip s is where it was.
StaysAt(d, e, s, p) ==
    /\ p \in Range(e.order[s]) /\ e.levels[p] = d.levels[p]
    /\ IndexIn(e.order[s], p) = IndexIn(d.order[s], p)

\* A change to physical terminals that no bridge has to do with.
LEMMA TidyIf ==
    ASSUME NEW d \in Whole, Tidy(d), NEW e \in Docs, Sound(e), SameBridges(d, e),
           \A s \in Strips : \A p \in Range(d.order[s]) :
               Unbridged(d, Range(d.levels[p])) \/ StaysAt(d, e, s, p)
    PROVE  Tidy(e)
<1>1. d \in Docs
  BY DEF Whole
<1>2. ASSUME NEW b \in Bridges, NEW r \in d.on[b] PROVE StillThere(d, e, r)
  <2> DEFINE s == d.home[b]
             p == d.phys[r]
  <2>1. r \in Reals
    BY <1>1, DocParts
  <2>2. s \in Strips /\ ParentStrip(d, r) = s
    BY DEF Tidy, Joins
  <2>3. p \in Range(d.order[s]) /\ r \in Range(d.levels[p])
    BY <2>1, <2>2, PlacedIs, StripAssumption
  <2>4. ~Unbridged(d, Range(d.levels[p]))
    BY <2>3 DEF Unbridged
  <2>5. StaysAt(d, e, s, p)
    BY <2>2, <2>3, <2>4
  <2>6. p \in Range(e.order[s]) /\ e.levels[p] = d.levels[p] /\ IndexIn(e.order[s], p) = IndexIn(d.order[s], p)
    BY <2>5 DEF StaysAt
  <2>7. p = d.phys[r]
    OBVIOUS
  <2> HIDE DEF s, p
  <2> QED
    BY ONLY <2>1, <2>2, <2>6, <2>7, d \in Whole, e \in Docs, Sound(e), StillThereIf
<1> QED
  BY <1>1, <1>2, TidyStays

\* Nothing in it is bridged, so its terminals are on no bridge.
LEMMA LooseIs ==
    ASSUME doc \in Whole, Tidy(doc), NEW s \in Strips, NEW p \in Range(doc.order[s]), Loose(s, p)
    PROVE  Unbridged(doc, Range(doc.levels[p]))
<1>1. doc \in Docs /\ Sound(doc)
  BY DEF Whole
<1>2. ASSUME NEW r \in Range(doc.levels[p]), NEW b \in Bridges PROVE r \notin doc.on[b]
  <2>1. ParentStrip(doc, r) = s
    BY <1>1, TerminalIs
  <2>2. BridgeOf(doc, s, r) = None
    BY DEF Loose
  <2> QED
    BY <1>1, <2>1, <2>2, OnNone
<1> QED
  BY <1>2 DEF Unbridged

\* a has the first k elements of q, and z the others.
Halves(q, k, a, z) ==
    /\ q = a \o z
    /\ \A x : x \in Range(a) <=> \E i \in 1 .. k : q[i] = x
    /\ \A x : x \in Range(z) <=> \E i \in (k + 1) .. Len(q) : q[i] = x

\* A sequence has two parts wherever it is cut.
LEMMA SplitAt ==
    ASSUME NEW T, NEW q \in Seq(T), NEW m, m = Len(q), NEW k \in 0 .. m
    PROVE  \E a \in Seq(T), z \in Seq(T) : Halves(q, k, a, z)
<1> DEFINE a == SubSeq(q, 1, k)
           z == SubSeq(q, k + 1, m)
<1>1. m \in Nat /\ k \in Nat /\ k <= m /\ \A i \in 1 .. m : q[i] \in T
  BY RangeOf
<1>2. a \in Seq(T) /\ Len(a) = k /\ \A i \in 1 .. k : a[i] = q[i]
  <2>1. \A i \in 1 .. k : q[i] \in T
    BY <1>1
  <2>2. /\ SubSeq(q, 1, k) \in Seq(T) /\ Len(SubSeq(q, 1, k)) = IF 1 <= k THEN k - 1 + 1 ELSE 0
        /\ \A i \in 1 .. k - 1 + 1 : SubSeq(q, 1, k)[i] = q[1 + i - 1]
    <3>1. 1 \in Int /\ k \in Int
      BY <1>1
    <3> QED
      BY ONLY <2>1, <3>1, SubSeqProperties
  <2>3. \A i \in 1 .. k : 1 + i - 1 = i /\ i \in 1 .. k - 1 + 1
    BY <1>1
  <2> QED
    BY <1>1, <2>2, <2>3
<1>3. z \in Seq(T) /\ Len(z) = m - k /\ \A i \in 1 .. (m - k) : z[i] = q[k + i]
  <2>1. \A i \in (k + 1) .. m : q[i] \in T
    BY <1>1
  <2>2. /\ SubSeq(q, k + 1, m) \in Seq(T)
        /\ Len(SubSeq(q, k + 1, m)) = IF k + 1 <= m THEN m - (k + 1) + 1 ELSE 0
        /\ \A i \in 1 .. m - (k + 1) + 1 : SubSeq(q, k + 1, m)[i] = q[k + 1 + i - 1]
    <3>1. k + 1 \in Int /\ m \in Int
      BY <1>1
    <3> QED
      BY ONLY <2>1, <3>1, SubSeqProperties
  <2>3. \A i \in 1 .. (m - k) : k + 1 + i - 1 = k + i /\ i \in 1 .. m - (k + 1) + 1
    BY <1>1
  <2> QED
    BY <1>1, <2>2, <2>3
<1>4. q = a \o z
  <2>1. SubSeq(q, 1, k) \o SubSeq(q, k + 1, m) = SubSeq(q, 1, m)
    <3>1. 1 \in 1 .. Len(q) + 1 /\ k \in 1 - 1 .. Len(q) /\ m \in k .. Len(q)
      BY <1>1
    <3> QED
      BY ONLY <3>1, q \in Seq(T), ConcatAdjacentSubSeq
  <2>2. SubSeq(q, 1, m) = q
    BY SubSeqFull
  <2> QED
    BY <2>1, <2>2
<1> HIDE DEF a, z
<1>5. ASSUME NEW x PROVE x \in Range(a) <=> \E i \in 1 .. k : q[i] = x
  <2>1. x \in Range(a) <=> \E i \in 1 .. Len(a) : a[i] = x
    BY <1>2, RangeOf
  <2> QED
    BY <1>2, <2>1
<1>6. ASSUME NEW x PROVE x \in Range(z) <=> \E i \in (k + 1) .. m : q[i] = x
  <2>1. x \in Range(z) <=> \E i \in 1 .. Len(z) : z[i] = x
    BY <1>3, RangeOf
  <2>2. ASSUME NEW i \in 1 .. (m - k) PROVE k + i \in (k + 1) .. m
    BY <1>1
  <2>3. ASSUME NEW j \in (k + 1) .. m PROVE j - k \in 1 .. (m - k) /\ k + (j - k) = j
    BY <1>1
  <2>4. ASSUME NEW j \in (k + 1) .. m PROVE z[j - k] = q[j]
    BY <1>3, <2>3
  <2> QED
    BY <1>3, <2>1, <2>2, <2>3, <2>4
<1>7. Halves(q, k, a, z)
  BY <1>4, <1>5, <1>6 DEF Halves
<1> QED
  BY <1>2, <1>3, <1>7

\* A set of elements of a sequence is no larger than the sequence.
LEMMA PartSmall ==
    ASSUME NEW T, NEW q \in Seq(T), NEW P \in SUBSET Range(q)
    PROVE  Cardinality(P) \in 0 .. Len(q)
<1> DEFINE m == Len(q)
<1>1. m \in Nat /\ \A x : x \in Range(q) <=> \E i \in 1 .. m : q[i] = x
  BY RangeOf
<1> HIDE DEF m
<1>2. IsFiniteSet(1 .. m) /\ Cardinality(1 .. m) = m
  <2>1. 1 \in Int /\ m \in Int
    BY <1>1
  <2>2. IsFiniteSet(1 .. m) /\ Cardinality(1 .. m) = IF 1 > m THEN 0 ELSE m - 1 + 1
    BY ONLY <2>1, FS_Interval
  <2> QED
    BY <1>1, <2>2
<1>3. [i \in 1 .. m |-> q[i]] \in Surjection(1 .. m, Range(q))
  BY <1>1 DEF Surjection
<1>4. IsFiniteSet(Range(q)) /\ Cardinality(Range(q)) <= m
  BY <1>2, <1>3, FS_Surjection
<1>5. Cardinality(P) <= Cardinality(Range(q)) /\ IsFiniteSet(P)
  BY <1>4, FS_Subset
<1>6. Cardinality(P) \in Nat /\ Cardinality(Range(q)) \in Nat
  BY <1>4, <1>5, FS_CardinalityType
<1> QED
  BY <1>1, <1>4, <1>5, <1>6 DEF m

\* The last elements of a sequence, as many as a set of them has.
LEMMA LastSelected ==
    ASSUME NEW T, NEW q \in Seq(T), IsInjective(q), NEW P \in SUBSET Range(q), NEW k,
           k = Len(q) - Cardinality(P), P = {q[i] : i \in (k + 1) .. Len(q)}
    PROVE  \E a \in Seq(T) : q = a \o Selected(q, P)
<1> DEFINE m == Len(q)
<1>1. m \in Nat /\ DOMAIN q = 1 .. m
  BY RangeOf
<1>2. k \in 0 .. m
  <2>1. Cardinality(P) \in 0 .. m
    BY PartSmall
  <2>2. k = m - Cardinality(P)
    OBVIOUS
  <2> HIDE DEF m
  <2> QED
    BY ONLY <1>1, <2>1, <2>2
<1>3. \A x : x \in P <=> \E i \in (k + 1) .. m : q[i] = x
  OBVIOUS
<1> HIDE DEF m
<1>4. PICK a \in Seq(T), z \in Seq(T) : Halves(q, k, a, z)
  <2>1. m = Len(q)
    BY DEF m
  <2> QED
    BY ONLY <1>2, <2>1, q \in Seq(T), SplitAt
<1>5. /\ q = a \o z
      /\ \A x : x \in Range(a) <=> \E i \in 1 .. k : q[i] = x
      /\ \A x : x \in Range(z) <=> \E i \in (k + 1) .. m : q[i] = x
  BY <1>4 DEF Halves, m
<1>6. Range(z) = P
  BY <1>3, <1>5
<1>7. Range(a) \cap P = {}
  <2>1. ASSUME NEW x \in Range(a), x \in P PROVE FALSE
    <3>1. PICK i \in 1 .. k : q[i] = x
      BY <1>5, <2>1
    <3>2. PICK j \in (k + 1) .. m : q[j] = x
      BY <1>3, <2>1
    <3>3. i \in DOMAIN q /\ j \in DOMAIN q /\ i # j
      BY <1>1, <1>2
    <3> QED
      BY <3>1, <3>2, <3>3 DEF IsInjective
  <2> QED
    BY <2>1
<1>8. Selected(a, P) = << >> /\ Selected(z, P) = z
  BY <1>6, <1>7, SelectedNone, SelectedAll
<1>9. Selected(a \o z, P) = z
  <2>1. Selected(a \o z, P) = Selected(a, P) \o Selected(z, P)
    BY ONLY a \in Seq(T), z \in Seq(T), SelectedBoth
  <2>2. << >> \o z = z
    BY ONLY z \in Seq(T), ConcatEmptySeq
  <2> QED
    BY <1>8, <2>1, <2>2
<1> QED
  BY <1>9, <1>5

\* The last terminals of a strip, none of them bridged.
LEMMA LastAndLooseIs ==
    ASSUME doc \in Whole, Tidy(doc), NEW s \in Strips, NEW P \in SUBSET Range(doc.order[s]),
           LastAndLoose(s, P)
    PROVE  \E a : LooseEnd(doc, s, a, Selected(doc.order[s], P))
<1> DEFINE q == doc.order[s]
           k == Len(q) - Cardinality(P)
           ps == Selected(q, P)
<1>1. q \in Seq(Phys) /\ IsInjective(q)
  BY DocParts DEF Whole, Sound
<1>2. P = {q[i] : i \in (k + 1) .. Len(q)} /\ \A p \in P : Loose(s, p)
  BY DEF LastAndLoose
<1>3. \A p \in P : Unbridged(doc, Range(doc.levels[p]))
  BY <1>2, LooseIs
<1>4. PICK a \in Seq(Phys) : q = a \o ps
  <2>1. P \in SUBSET Range(q)
    OBVIOUS
  <2>2. k = Len(q) - Cardinality(P)
    OBVIOUS
  <2> HIDE DEF q, k
  <2> QED
    BY <1>1, <1>2, <2>1, <2>2, LastSelected
<1>5. ps \in Seq(Phys) /\ Range(ps) \subseteq P
  <2> HIDE DEF q
  <2> QED
    BY <1>1, SelectedIs
<1>6. LooseEnd(doc, s, a, ps)
  <2>1. doc.order[s] = a \o ps /\ IsInjective(doc.order[s])
    BY <1>1, <1>4
  <2> HIDE DEF q, ps
  <2> QED
    BY <1>3, <1>4, <1>5, <2>1 DEF LooseEnd
<1> QED
  BY <1>6

\* The command c, kept as b, leads from the document to e and leaves what the
\* other commands made as it is.
GoesTo(c, b, e) ==
    /\ e \in Whole /\ Tidy(e) /\ b = Kept(e, c)
    /\ b \in Keepers /\ Leads(b, doc, e) /\ Prepared(e, b)
    /\ \A p \in Phys \cap Held : Len(doc.levels[p]) = 1 => e.levels[p] = doc.levels[p]
    /\ \A z \in Bridges \cap Held : e.home[z] = doc.home[z]

\* The names of the commands tell their kinds apart.
LEMMA KindIs ==
    ASSUME NEW c \in Keepers
    PROVE  /\ c \in Moves      <=> c.name = "Move"
           /\ c \in SpareAdds  <=> c.name = "Spares"
           /\ c \in Levelings  <=> c.name = "Level"
           /\ c \in Sorts      <=> c.name = "Sort"
           /\ c \in Bridge1s   <=> c.name = "Bridge"
           /\ c \in Unbridge1s <=> c.name = "Unbridge"
           /\ c \in StripAdds  <=> c.name = "AddStrip"
BY DEF Keepers, Moves, SpareAdds, Levelings, Sorts, Bridge1s, Unbridge1s, Bridgings, StripAdds

\* Any document that is sound, for the lemmas about its operations.
LEMMA AllGood ==
    /\ Keeps({}, {})
    /\ \A d : d \in Good(Phys \X Reals, {}, {}) <=> d \in Docs /\ Sound(d)
<1>1. Keeps({}, {})
  BY DEF Keeps
<1>2. ASSUME NEW d \in Docs, Sound(d) PROVE d \in Good(Phys \X Reals, {}, {})
  <2>1. \A p \in Phys : Range(d.levels[p]) \subseteq Reals
    <3>1. d.levels \in [Phys -> Seq(Reals)]
      BY DocParts
    <3>2. \A p \in Phys : d.levels[p] \in Seq(Reals)
      BY <3>1
    <3> QED
      BY <3>2, RangeOf
  <2> QED
    BY <1>2, <2>1 DEF Good, Fits
<1> QED
  BY <1>1, <1>2 DEF Good

\* A change of the ends of strips that no bridge has to do with.
LEMMA TidyEnds ==
    ASSUME NEW d \in Whole, Tidy(d), NEW e \in Docs, Sound(e), SameBridges(d, e), SameLevels(d, e),
           \A s \in Strips : \E z \in Seq(Phys) :
               \/ e.order[s] = d.order[s] \o z
               \/ d.order[s] = e.order[s] \o z /\ \A p \in Range(z) : Unbridged(d, Range(d.levels[p]))
    PROVE  Tidy(e)
<1>1. ASSUME NEW s \in Strips, NEW p \in Range(d.order[s]), ~Unbridged(d, Range(d.levels[p]))
      PROVE  StaysAt(d, e, s, p)
  <2> DEFINE a == d.order[s]
             b == e.order[s]
  <2>1. a \in Seq(Phys) /\ IsInjective(a) /\ b \in Seq(Phys) /\ IsInjective(b)
    BY DocParts DEF Whole, Sound
  <2>2. PICK z \in Seq(Phys) : \/ b = a \o z
                               \/ a = b \o z /\ \A o \in Range(z) : Unbridged(d, Range(d.levels[o]))
    OBVIOUS
  <2>3. e.levels[p] = d.levels[p]
    BY DEF SameLevels
  <2>4. p \in Range(a)
    OBVIOUS
  <2>5. p \in Range(b) /\ IndexIn(b, p) = IndexIn(a, p)
    <3> HIDE DEF a, b
    <3>1. CASE b = a \o z
      <4>1. p \in Range(b)
        BY <2>1, <2>4, <3>1, InBoth
      <4>2. IndexIn(a \o z, p) = IndexIn(a, p)
        <5>1. IsInjective(a \o z)
          BY <2>1, <3>1
        <5> QED
          BY ONLY <2>1, <2>4, <5>1, z \in Seq(Phys), IndexFirst
      <4> QED
        BY <3>1, <4>1, <4>2
    <3>2. CASE a = b \o z /\ \A o \in Range(z) : Unbridged(d, Range(d.levels[o]))
      <4>1. p \in Range(b)
        <5>1. Range(b \o z) = Range(b) \cup Range(z)
          BY ONLY <2>1, z \in Seq(Phys), InBoth
        <5> QED
          BY <1>1, <2>4, <3>2, <5>1
      <4>2. IndexIn(b \o z, p) = IndexIn(b, p)
        <5>1. IsInjective(b \o z)
          BY <2>1, <3>2
        <5> QED
          BY ONLY <2>1, <4>1, <5>1, z \in Seq(Phys), IndexFirst
      <4> QED
        BY <3>2, <4>1, <4>2
    <3> QED
      BY <2>2, <3>1, <3>2
  <2> QED
    BY <2>3, <2>5 DEF StaysAt
<1> QED
  BY <1>1, TidyIf

\* Bridges change and no terminal moves: each bridge joins a row still.
LEMMA TidyRow ==
    ASSUME NEW d \in Whole, Tidy(d), NEW e \in Whole, SamePlaces(d, e),
           NEW b \in Bridges, NEW s \in Strips, NEW T, e.on[b] = T,
           T = {} \/ (e.home[b] = s /\ RowOf(d, s, b, T)),
           \A z \in Bridges : z # b =>
               e.on[z] = d.on[z] /\ (d.on[z] # {} => e.home[z] = d.home[z])
    PROVE  Tidy(e)
<1>1. d \in Docs /\ e \in Docs
  BY DEF Whole
<1>2. \A z \in Bridges : d.on[z] \in SUBSET Reals /\ e.on[z] \in SUBSET Reals
  BY <1>1, DocParts
<1>3. ASSUME NEW z \in Bridges, z # b, d.on[z] # {} PROVE Joins(e, z)
  <2>1. d.home[z] \in Strips /\ InStrip(d, d.home[z], d.on[z]) /\ InRow(d, d.home[z], d.on[z])
    BY <1>3, JoinedAre
  <2>2. InStrip(e, d.home[z], d.on[z]) /\ InRow(e, d.home[z], d.on[z])
    BY <2>1, RowThere
  <2> QED
    BY <1>3, <2>1, <2>2 DEF Joins, InStrip
<1>4. ASSUME NEW z \in Bridges, z # b, d.on[z] = {} PROVE Joins(e, z)
  BY <1>4 DEF Joins
<1>5. Joins(e, b)
  <2>1. CASE T = {}
    BY <2>1 DEF Joins
  <2>2. CASE T # {}
    <3>1. InStrip(d, s, T) /\ InRow(d, s, T) /\ e.home[b] = s
      BY <2>2 DEF RowOf
    <3>2. InStrip(e, s, T) /\ InRow(e, s, T)
      BY <3>1, RowThere
    <3> QED
      BY <3>1, <3>2 DEF Joins, InStrip
  <2> QED
    BY <2>1, <2>2
<1>6. OneBridge(e)
  <2>1. \A z \in Bridges : z # b => e.on[z] \cap T = {}
    BY DEF RowOf
  <2>2. ASSUME NEW x \in Bridges, NEW z \in Bridges, x # z PROVE e.on[x] \cap e.on[z] = {}
    BY <2>1, <2>2 DEF Tidy, OneBridge
  <2> QED
    BY <2>2 DEF OneBridge
<1> QED
  BY <1>3, <1>4, <1>5, <1>6 DEF Tidy

----------------------------------------------------------------------------
(****************************************************************************)
(* Each of the commands, given for the first time.                          *)
(****************************************************************************)

\* MoveTerminalCommand: the last terminals of a strip, none of them bridged.
LEMMA MoveGoes ==
    ASSUME doc \in Whole, Tidy(doc), NEW c \in Moves, c.strip # c.to, NEW a,
           LooseEnd(doc, c.strip, a, c.phys)
    PROVE  GoesTo(c, c, Redo1(doc, c))
<1> DEFINE s == c.strip
           t == c.to
           ps == c.phys
           e == Redo1(doc, c)
<1>1. s \in Strips /\ t \in Strips /\ ps \in Plains(Phys) /\ c.name = "Move" /\ c \in Keepers
  BY DEF Moves, Keepers
<1>2. e = AddPhysical(RemovePhysical(doc, s, ps), t, ps)
  BY <1>1 DEF Redo1
<1>3. a \in Seq(Phys) /\ ps \in Seq(Phys) /\ doc.order[s] = a \o ps
      /\ \A p \in Range(ps) : Unbridged(doc, Range(doc.levels[p]))
  BY DEF LooseEnd
<1>4. doc \in Docs /\ Sound(doc)
  BY DEF Whole
<1>5. s # t /\ LooseEnd(doc, s, a, ps)
  OBVIOUS
<1> HIDE DEF s, t, ps, e
<1>6. Rearranged(doc, e) /\ Owned(e) /\ e.order = [doc.order EXCEPT ![s] = a, ![t] = @ \o ps]
  <2>1. doc \in Whole /\ s \in Strips /\ t \in Strips
    BY <1>1
  <2> QED
    BY ONLY <2>1, <1>2, <1>5, MovedEnd
<1>7. e \in Docs /\ Sound(e)
  <2>1. e \in Good(Phys \X Reals, {}, {})
    BY <1>1, <1>2, <1>4, AllGood, MovedGood
  <2> QED
    BY <2>1, AllGood
<1>8. e \in Whole
  BY <1>6, <1>7 DEF Whole
<1>9. /\ e.listed = doc.listed /\ e.levels = doc.levels /\ e.phys = doc.phys
      /\ e.on = doc.on /\ e.home = doc.home
  BY <1>6 DEF Rearranged
<1>10. Beside(doc, e)
  BY <1>9 DEF Beside, SameLevels, SameBridges
<1>11. Tidy(e)
  <2>1. doc.order \in [Strips -> Seq(Phys)]
    BY <1>4, DocParts
  <2>2. e.order[s] = a /\ e.order[t] = doc.order[t] \o ps
        /\ \A u \in Strips : u # s /\ u # t => e.order[u] = doc.order[u]
    BY <1>1, <1>5, <1>6, <2>1
  <2>3. ASSUME NEW u \in Strips, u # s, u # t PROVE e.order[u] = doc.order[u] \o << >> /\ << >> \in Seq(Phys)
    BY <2>1, <2>2, <2>3, ConcatEmptySeq
  <2>4. \A u \in Strips : \E z \in Seq(Phys) :
            \/ e.order[u] = doc.order[u] \o z
            \/ doc.order[u] = e.order[u] \o z /\ \A p \in Range(z) : Unbridged(doc, Range(doc.levels[p]))
    BY <1>3, <2>2, <2>3
  <2> QED
    BY <1>7, <1>10, <2>4, TidyEnds DEF Beside
<1>12. Leads(c, doc, e)
  <2>1. MoveLeads(c, doc, e)
    BY <1>5, <1>6, <1>10 DEF MoveLeads, s, t, ps
  <2> QED
    BY <1>1, <2>1, KindIs DEF Leads
<1>13. c = Kept(e, c) /\ Prepared(e, c)
  BY <1>1, KindIs DEF Kept, Prepared
<1> QED
  BY <1>1, <1>8, <1>9, <1>11, <1>12, <1>13 DEF GoesTo, e

\* A careful user's MoveTerminalCommand leads where it says.
LEMMA MovePush ==
    ASSUME StripInv, doc \in Whole, Tidy(doc), Careful, MoveTerminalCommand
    PROVE  \E c : Push(c) /\ GoesTo(c, c, Redo1(doc, c))
<1>1. PICK s \in doc.listed, t \in doc.listed : \E P \in (SUBSET Listed(s)) \ {{}} :
          /\ s # t /\ LastAndLoose(s, P)
          /\ Push([name |-> "Move", strip |-> s, to |-> t, phys |-> Selected(doc.order[s], P)])
  BY DEF MoveTerminalCommand
<1>2. PICK P \in (SUBSET Listed(s)) \ {{}} :
          /\ s # t /\ LastAndLoose(s, P)
          /\ Push([name |-> "Move", strip |-> s, to |-> t, phys |-> Selected(doc.order[s], P)])
  BY <1>1
<1> DEFINE ps == Selected(doc.order[s], P)
           c == [name |-> "Move", strip |-> s, to |-> t, phys |-> ps]
<1>3. s \in Strips /\ t \in Strips /\ ps \in Plains(Phys)
  BY ListedIs
<1>4. P \in SUBSET Range(doc.order[s]) /\ LastAndLoose(s, P)
  BY <1>2 DEF Listed
<1>5. PICK a : LooseEnd(doc, s, a, ps)
  BY <1>3, <1>4, LastAndLooseIs
<1>6. Push(c)
  BY <1>2
<1> HIDE DEF ps
<1>7. c \in Moves /\ c.strip = s /\ c.to = t /\ c.phys = ps
  BY <1>3 DEF Moves
<1> HIDE DEF c
<1>8. c.strip # c.to /\ LooseEnd(doc, c.strip, a, c.phys)
  BY <1>2, <1>5, <1>7
<1> QED
  BY <1>6, <1>7, <1>8, MoveGoes

\* SortTerminalStripCommand: the same terminals, none of them bridged.
LEMMA SortGoes ==
    ASSUME doc \in Whole, Tidy(doc), NEW c \in Sorts, c.old = doc.order[c.strip],
           Len(c.new) = Len(c.old), Range(c.new) = Range(c.old),
           \A p \in Range(c.old) : Unbridged(doc, Range(doc.levels[p]))
    PROVE  GoesTo(c, c, Redo1(doc, c))
<1> DEFINE s == c.strip
           ps == c.new
           e == Redo1(doc, c)
<1>1. s \in Strips /\ ps \in Plains(Phys) /\ c.name = "Sort" /\ c \in Keepers
  BY DEF Sorts, Keepers
<1>2. e = SetOrderTo(doc, s, ps)
  BY <1>1 DEF Redo1
<1>3. doc \in Docs /\ Sound(doc)
  BY DEF Whole
<1>4. Len(ps) = Len(doc.order[s]) /\ Range(ps) = Range(doc.order[s]) /\ ps \in Seq(Phys)
  BY <1>1 DEF Plains
<1>5. \A p \in Range(doc.order[s]) : Unbridged(doc, Range(doc.levels[p]))
  OBVIOUS
<1> HIDE DEF s, ps, e
<1>6. Rearranged(doc, e) /\ Owned(e) /\ e.order = [doc.order EXCEPT ![s] = ps]
  BY <1>1, <1>2, <1>4, Reordered
<1>7. e \in Docs /\ Sound(e)
  <2>1. e \in Good(Phys \X Reals, {}, {})
    BY <1>1, <1>2, <1>3, AllGood, SetOrderToGood
  <2> QED
    BY <2>1, AllGood
<1>8. e \in Whole
  BY <1>6, <1>7 DEF Whole
<1>9. /\ e.listed = doc.listed /\ e.levels = doc.levels /\ e.phys = doc.phys
      /\ e.on = doc.on /\ e.home = doc.home
  BY <1>6 DEF Rearranged
<1>10. Beside(doc, e)
  BY <1>9 DEF Beside, SameLevels, SameBridges
<1>11. Tidy(e)
  <2>1. doc.order \in [Strips -> Seq(Phys)]
    BY <1>3, DocParts
  <2>2. \A u \in Strips : u # s => e.order[u] = doc.order[u]
    BY <1>1, <1>6, <2>1
  <2>3. \A u \in Strips : \A p \in Range(doc.order[u]) :
            Unbridged(doc, Range(doc.levels[p])) \/ StaysAt(doc, e, u, p)
    BY <1>5, <1>9, <2>2 DEF StaysAt
  <2> QED
    BY <1>7, <1>10, <2>3, TidyIf DEF Beside
<1>12. Leads(c, doc, e)
  <2>1. SortLeads(c, doc, e)
    BY <1>6, <1>10 DEF SortLeads, s, ps
  <2> QED
    BY <1>1, <2>1, KindIs DEF Leads
<1>13. c = Kept(e, c) /\ Prepared(e, c)
  BY <1>1, KindIs DEF Kept, Prepared
<1> QED
  BY <1>1, <1>8, <1>9, <1>11, <1>12, <1>13 DEF GoesTo, e

\* A careful user's SortTerminalStripCommand does.
LEMMA SortPush ==
    ASSUME StripInv, doc \in Whole, Tidy(doc), Careful, SortTerminalStripCommand
    PROVE  \E c : Push(c) /\ GoesTo(c, c, Redo1(doc, c))
<1>1. PICK s \in doc.listed :
        /\ \A p \in Listed(s) : Loose(s, p)
        /\ \E rank \in {f \in [DOMAIN doc.order[s] -> DOMAIN doc.order[s]] : IsInjective(f)} :
              Push([name |-> "Sort", strip |-> s, old |-> doc.order[s],
                    new |-> [i \in DOMAIN doc.order[s] |-> doc.order[s][rank[i]]]])
  BY DEF SortTerminalStripCommand
<1> DEFINE order == doc.order[s]
<1>2. PICK rank \in {f \in [DOMAIN order -> DOMAIN order] : IsInjective(f)} :
            Push([name |-> "Sort", strip |-> s, old |-> order,
                  new |-> [i \in DOMAIN order |-> order[rank[i]]]])
  BY <1>1
<1> DEFINE new == [i \in DOMAIN order |-> order[rank[i]]]
           c == [name |-> "Sort", strip |-> s, old |-> order, new |-> new]
<1>3. Push(c)
  BY <1>2
<1>4. s \in Strips /\ order \in Plains(Phys)
  BY ListedIs
<1>5. \A p \in Range(order) : Unbridged(doc, Range(doc.levels[p]))
  BY <1>1, <1>4, LooseIs DEF Listed
<1>6. rank \in [DOMAIN order -> DOMAIN order] /\ IsInjective(rank) /\ order = doc.order[s]
  OBVIOUS
<1> HIDE DEF order
<1>7. order \in Seq(Phys) /\ IsInjective(order) /\ DOMAIN order = 1 .. Len(order) /\ Len(order) \in Nat
  BY <1>4 DEF Plains
<1>8. new \in Seq(Phys) /\ Len(new) = Len(order) /\ IsInjective(new)
  <2>1. new \in Seq(Phys) /\ Len(new) = Len(order)
    BY <1>6, <1>7
  <2>2. IsInjective(new)
    BY <1>6, <1>7 DEF IsInjective
  <2> QED
    BY <2>1, <2>2
<1>9. Range(new) = Range(order)
  <2> DEFINE D == DOMAIN order
  <2>1. IsFiniteSet(D)
    <3>1. 1 \in Int /\ Len(order) \in Int
      BY <1>7
    <3>2. IsFiniteSet(1 .. Len(order))
      BY ONLY <3>1, FS_Interval
    <3> QED
      BY <1>7, <3>2
  <2>2. rank \in Injection(D, D)
    BY <1>6 DEF Injection
  <2> HIDE DEF D
  <2>3. rank \in Surjection(D, D)
    BY <2>1, <2>2, FS_Injection
  <2>4. \A i \in D : \E j \in D : rank[j] = i
    BY <2>3 DEF Surjection
  <2>5. \A j \in D : new[j] = order[rank[j]] /\ rank[j] \in D
    BY <1>6 DEF D
  <2>6. DOMAIN new = D /\ DOMAIN order = D
    BY DEF D
  <2> HIDE DEF new
  <2> QED
    BY <2>4, <2>5, <2>6 DEF Range
<1> HIDE DEF new
<1>10. c \in Sorts /\ c.strip = s /\ c.old = order /\ c.new = new
  BY <1>4, <1>8 DEF Sorts, Plains
<1> HIDE DEF c
<1>11. /\ c.old = doc.order[c.strip] /\ Len(c.new) = Len(c.old) /\ Range(c.new) = Range(c.old)
       /\ \A p \in Range(c.old) : Unbridged(doc, Range(doc.levels[p]))
  BY <1>5, <1>6, <1>8, <1>9, <1>10
<1> QED
  BY <1>3, <1>10, <1>11, SortGoes

\* ChangeTerminalLevel: a level of a physical terminal that is not bridged.
LEMMA LevelGoes ==
    ASSUME doc \in Whole, Tidy(doc), NEW c \in Levelings, NEW s \in Strips,
           NEW p \in Range(doc.order[s]), c.old \in 1 .. Len(doc.levels[p]),
           doc.levels[p][c.old] = c.real, Unbridged(doc, Range(doc.levels[p]))
    PROVE  GoesTo(c, c, Redo1(doc, c))
<1> DEFINE q == doc.levels[p]
           i == c.old
           level == c.new
           e == Redo1(doc, c)
<1>1. level \in Positive /\ c.name = "Level" /\ c \in Keepers /\ c.real \in Reals
  BY DEF Levelings, Keepers
<1>2. e = SetLevel(doc, q[i], level)
  BY <1>1 DEF Redo1
<1>3. doc \in Docs /\ Sound(doc)
  BY DEF Whole
<1>4. q = doc.levels[p] /\ i \in 1 .. Len(q) /\ q[i] = c.real
  OBVIOUS
<1> HIDE DEF q, i, level, e
<1>5. PICK a : Swaps(Reals, q, i, ToLevel(level, q), a) /\ Relevelled(doc, e, p, a)
  BY <1>1, <1>2, <1>4, LevelSet
<1>6. p \in Phys
  <2>1. doc.order \in [Strips -> Seq(Phys)]
    BY <1>3, DocParts
  <2>2. doc.order[s] \in Seq(Phys)
    BY <2>1
  <2> QED
    BY <2>2, RangeOf
<1>7. e \in Docs /\ Sound(e)
  <2>1. e = SetLevel(doc, c.real, level) /\ level \in Nat \ {0}
    BY <1>1, <1>2, <1>4 DEF Positive
  <2>2. e \in Good(Phys \X Reals, {}, {})
    BY <1>1, <1>3, <2>1, AllGood, SetLevelGood
  <2> QED
    BY <2>2, AllGood
<1>8. /\ e.levels = [doc.levels EXCEPT ![p] = a] /\ (Len(doc.levels[p]) = 1 => a = doc.levels[p])
      /\ e.listed = doc.listed /\ e.order = doc.order /\ e.on = doc.on /\ e.home = doc.home
      /\ Owned(e)
  BY <1>5 DEF Relevelled
<1>9. e \in Whole
  BY <1>7, <1>8 DEF Whole
<1>10. e.levels[p] = a /\ \A o \in Phys : o # p => e.levels[o] = doc.levels[o]
  BY <1>3, <1>6, <1>8, DocParts
<1>11. \A t \in Strips : \A o \in Range(doc.order[t]) : o # p => e.levels[o] = doc.levels[o]
  <2>1. doc.order \in [Strips -> Seq(Phys)]
    BY <1>3, DocParts
  <2>2. \A t \in Strips : doc.order[t] \in Seq(Phys)
    BY <2>1
  <2>3. \A t \in Strips : Range(doc.order[t]) \subseteq Phys
    BY <2>2, RangeOf
  <2> QED
    BY <1>10, <2>3
<1>12. Tidy(e)
  <2>1. SameBridges(doc, e)
    BY <1>8 DEF SameBridges
  <2>2. \A t \in Strips : \A o \in Range(doc.order[t]) :
            Unbridged(doc, Range(doc.levels[o])) \/ StaysAt(doc, e, t, o)
    BY <1>8, <1>11 DEF StaysAt
  <2> QED
    BY <1>7, <2>1, <2>2, TidyIf
<1>13. Leads(c, doc, e)
  <2>1. LevelSwapped(c, doc, e, p)
    BY <1>4, <1>5, <1>10, <1>11 DEF LevelSwapped, i, q, level
  <2>2. SameBridges(doc, e)
    BY <1>8 DEF SameBridges
  <2>3. LevelLeads(c, doc, e)
    BY <1>8, <2>1, <2>2 DEF LevelLeads
  <2> QED
    BY <1>1, <2>3, KindIs DEF Leads
<1>14. c = Kept(e, c) /\ Prepared(e, c)
  BY <1>1, KindIs DEF Kept, Prepared
<1>15. \A o \in Phys : Len(doc.levels[o]) = 1 => e.levels[o] = doc.levels[o]
  BY <1>8, <1>10
<1> QED
  BY <1>1, <1>8, <1>9, <1>12, <1>13, <1>14, <1>15 DEF GoesTo, e

\* A careful user's ChangeTerminalLevel does.
LEMMA LevelPush ==
    ASSUME StripInv, doc \in Whole, Tidy(doc), Careful, ChangeTerminalLevel
    PROVE  \E c : Push(c) /\ GoesTo(c, c, Redo1(doc, c))
<1>1. PICK s \in doc.listed : \E r \in Range(RealsOf(doc, s)), level \in 1 .. MaxLevels :
          /\ Loose(s, doc.phys[r])
          /\ Push([name |-> "Level", strip |-> s, real |-> r, new |-> level,
                   old |-> Level(doc, r)])
  BY DEF ChangeTerminalLevel
<1>2. PICK r \in Range(RealsOf(doc, s)), level \in 1 .. MaxLevels :
          /\ Loose(s, doc.phys[r])
          /\ Push([name |-> "Level", strip |-> s, real |-> r, new |-> level,
                   old |-> Level(doc, r)])
  BY <1>1
<1> DEFINE old == Level(doc, r)
           p == doc.phys[r]
           c == [name |-> "Level", strip |-> s, real |-> r, new |-> level, old |-> old]
<1>3. s \in Strips /\ r \in Reals /\ old \in Positive /\ ParentStrip(doc, r) # None
  BY ListedIs, ListedTerminal
<1>4. level \in Positive
  BY StripAssumption DEF Positive
<1>5. Push(c)
  BY <1>2
<1>6. p \in Range(doc.order[s]) /\ old \in 1 .. Len(doc.levels[p]) /\ doc.levels[p][old] = r
  <2>1. ParentStrip(doc, r) = s
    BY <1>3, ListedTerminal DEF ParentStrip
  <2> QED
    BY <1>3, <2>1, PlacedIs
<1>7. Unbridged(doc, Range(doc.levels[p]))
  <2>1. Loose(s, p)
    BY <1>2
  <2> HIDE DEF p
  <2> QED
    BY <1>3, <1>6, <2>1, LooseIs
<1> HIDE DEF old, p
<1>8. c \in Levelings /\ c.old = old /\ c.real = r
  BY <1>3, <1>4 DEF Levelings
<1> HIDE DEF c
<1>9. c.old \in 1 .. Len(doc.levels[p]) /\ doc.levels[p][c.old] = c.real
  BY <1>6, <1>8
<1> QED
  BY <1>3, <1>5, <1>6, <1>7, <1>8, <1>9, LevelGoes

\* AddTerminalStripCommand
LEMMA AddStripPush ==
    ASSUME StripInv, doc \in Whole, Tidy(doc), AddTerminalStripCommand
    PROVE  \E c : Push(c) /\ GoesTo(c, c, Redo1(doc, c))
<1>1. PICK s \in UnusedStrips : Push([name |-> "AddStrip", strip |-> s])
  BY DEF AddTerminalStripCommand
<1> DEFINE c == [name |-> "AddStrip", strip |-> s]
           e == Redo1(doc, c)
<1>2. Push(c)
  BY <1>1
<1>3. s \in Strips /\ s \notin doc.listed
  BY DEF UnusedStrips
<1>4. c \in StripAdds /\ c.name = "AddStrip" /\ c.strip = s
  BY <1>3 DEF StripAdds
<1>5. c \in Keepers
  BY <1>4 DEF Keepers
<1> HIDE DEF c
<1>6. e = [doc EXCEPT !.listed = @ \cup {s}]
  BY <1>4 DEF Redo1
<1>7. doc \in Docs /\ Sound(doc) /\ Owned(doc)
  BY DEF Whole
<1> HIDE DEF e
<1>8. /\ e \in Docs /\ e.listed = doc.listed \cup {s} /\ e.order = doc.order
      /\ e.levels = doc.levels /\ e.strip = doc.strip /\ e.phys = doc.phys
      /\ e.on = doc.on /\ e.home = doc.home
  BY <1>3, <1>6, <1>7 DEF Docs
<1>9. e \in Whole
  BY <1>7, <1>8 DEF Whole, Sound, Owned
<1>10. SamePlaces(doc, e) /\ SameBridges(doc, e)
  BY <1>8 DEF SamePlaces, SameLevels, SameBridges
<1>11. Tidy(e)
  <2>1. \A u \in Strips : \A p \in Range(doc.order[u]) : StaysAt(doc, e, u, p)
    BY <1>8 DEF StaysAt
  <2> QED
    BY <1>8, <1>9, <1>10, <2>1, TidyIf DEF Whole
<1>12. Leads(c, doc, e)
  <2>1. AddLeads(c, doc, e)
    BY <1>3, <1>4, <1>8, <1>10 DEF AddLeads
  <2> QED
    BY <1>4, <1>5, <2>1, KindIs DEF Leads
<1>13. c = Kept(e, c) /\ Prepared(e, c)
  BY <1>4, <1>5, KindIs DEF Kept, Prepared
<1> QED
  BY <1>2, <1>5, <1>8, <1>9, <1>11, <1>12, <1>13 DEF GoesTo, e

\* A physical terminal that is made for a spare and put at the end.
SpareMade(d, s, p, r, e) ==
    /\ e \in Docs /\ Owned(e)
    /\ e.order = [d.order EXCEPT ![s] = @ \o <<p>>]
    /\ e.levels = [d.levels EXCEPT ![p] = <<r>>]
    /\ e.listed = d.listed /\ e.on = d.on /\ e.home = d.home

\* AddSpareTerminalsCommand::redo(), the first time, at the end of the strip.
LEMMA SpareMadeIs ==
    ASSUME NEW d \in Whole, NEW s \in Strips, NEW r \in Spare, FreePhys(d) # {}, NEW p,
           p = FreshPhys(d), NEW e, e = InsertTerminals(MakeSpare(d, r), s, -1,
                                                        <<MakeSpare(d, r).phys[r]>>)
    PROVE  SpareMade(d, s, p, r, e)
<1> DEFINE f == MakeSpare(d, r)
<1>1. d \in Docs /\ Owned(d) /\ r \in Reals
  BY DEF Whole, Reals
<1>2. p \in Phys /\ p \notin Live(d)
  <2>1. p \in FreePhys(d)
    BY FreshIs
  <2> QED
    BY <2>1 DEF FreePhys
<1>3. f = [d EXCEPT !.levels[p] = <<r>>, !.strip[p] = None, !.phys[r] = p]
  BY DEF MakeSpare
<1>4. /\ d.order \in [Strips -> Seq(Phys)] /\ d.levels \in [Phys -> Seq(Reals)]
      /\ d.strip \in [Phys -> Strips \cup {None}] /\ d.phys \in [Reals -> Phys \cup {None}]
  BY <1>1, DocParts
<1>5. <<r>> \in Seq(Reals) /\ Range(<<r>>) = {r} /\ <<p>> \in Seq(Phys) /\ Range(<<p>>) = {p}
  BY <1>1, <1>2, OneIs
<1> HIDE DEF f
<1>6. /\ f \in Docs
      /\ f.levels = [d.levels EXCEPT ![p] = <<r>>] /\ f.strip = [d.strip EXCEPT ![p] = None]
      /\ f.phys = [d.phys EXCEPT ![r] = p] /\ f.order = d.order
      /\ f.listed = d.listed /\ f.on = d.on /\ f.home = d.home
  BY <1>1, <1>2, <1>3, <1>4, <1>5 DEF Docs
<1>7. f.phys[r] = p /\ f.strip[p] = None
  BY <1>1, <1>2, <1>4, <1>6
<1>8. e = AddPhysical(f, s, <<p>>)
  BY <1>7 DEF AddPhysical, f
<1>9. /\ Rearranged(f, e) /\ e.order = [f.order EXCEPT ![s] = @ \o <<p>>]
      /\ e.strip = [o \in Phys |-> IF o \in Range(<<p>>) THEN s ELSE f.strip[o]]
  <2> DEFINE ps == <<p>>
  <2>1. \A o \in Range(ps) : f.strip[o] = None
    BY <1>5, <1>7
  <2>2. ps \in Seq(Phys) /\ e = AddPhysical(f, s, ps)
    BY <1>5, <1>8
  <2> HIDE DEF ps
  <2>3. /\ Rearranged(f, e) /\ e.order = [f.order EXCEPT ![s] = @ \o ps]
        /\ e.strip = [o \in Phys |-> IF o \in Range(ps) THEN s ELSE f.strip[o]]
    <3>1. f \in Docs /\ s \in Strips
      BY <1>6
    <3>2. ps \in Seq(Phys) /\ e = AddPhysical(f, s, ps)
      BY <2>2
    <3> QED
      BY ONLY <2>1, <3>1, <3>2, InsertedEnd
  <2> QED
    BY <2>3 DEF ps
<1>10. /\ e \in Docs /\ e.listed = d.listed /\ e.levels = f.levels /\ e.phys = f.phys
       /\ e.on = d.on /\ e.home = d.home
  BY <1>6, <1>9 DEF Rearranged
<1>11. Owned(e)
  <2>1. ASSUME NEW o \in Phys, e.strip[o] # None PROVE o \in Range(e.order[e.strip[o]])
    <3>1. d.order[s] \in Seq(Phys) /\ e.order[s] = d.order[s] \o <<p>>
          /\ \A u \in Strips : u # s => e.order[u] = d.order[u]
      BY <1>4, <1>6, <1>9
    <3>2. Range(e.order[s]) = Range(d.order[s]) \cup {p}
      <4>1. Range(d.order[s] \o <<p>>) = Range(d.order[s]) \cup Range(<<p>>)
        <5>1. d.order[s] \in Seq(Phys) /\ <<p>> \in Seq(Phys)
          BY <1>5, <3>1
        <5> DEFINE ps == <<p>>
                   q == d.order[s]
        <5>2. q \in Seq(Phys) /\ ps \in Seq(Phys)
          BY <5>1
        <5> HIDE DEF ps, q
        <5>3. Range(q \o ps) = Range(q) \cup Range(ps)
          BY ONLY <5>2, InBoth
        <5> QED
          BY <5>3 DEF ps, q
      <4> QED
        BY <1>5, <3>1, <4>1
    <3>3. CASE o = p
      <4>1. e.strip[o] = s
        BY <1>5, <1>9, <3>3
      <4> QED
        BY <3>2, <3>3, <4>1
    <3>4. CASE o # p
      <4>1. e.strip[o] = d.strip[o]
        BY <1>2, <1>4, <1>5, <1>6, <1>9, <3>4
      <4>2. d.strip[o] \in Strips /\ o \in Range(d.order[d.strip[o]])
        BY <1>1, <1>4, <2>1, <4>1 DEF Owned
      <4> QED
        BY <3>1, <3>2, <4>1, <4>2
    <3> QED
      BY <3>3, <3>4
  <2>2. ASSUME NEW q \in Reals, e.phys[q] # None PROVE q \in Range(e.levels[e.phys[q]])
    <3>1. CASE q = r
      BY <1>1, <1>2, <1>4, <1>5, <1>6, <1>10, <3>1
    <3>2. CASE q # r
      <4>1. e.phys[q] = d.phys[q]
        BY <1>1, <1>4, <1>6, <1>10, <3>2
      <4>2. d.phys[q] \in Phys /\ q \in Range(d.levels[d.phys[q]])
        BY <1>1, <1>4, <2>2, <4>1 DEF Owned
      <4>3. d.phys[q] # p
        <5>1. d.phys[q] \in Range(d.phys)
          BY <1>4 DEF Range
        <5> QED
          BY <1>2, <5>1 DEF Live
      <4> QED
        BY <1>4, <1>6, <1>10, <4>1, <4>2, <4>3
    <3> QED
      BY <3>1, <3>2
  <2> QED
    BY <2>1, <2>2 DEF Owned
<1> QED
  BY <1>6, <1>9, <1>10, <1>11 DEF SpareMade

\* A spare that nothing refers to is on no bridge.
LEMMA NowhereUnbridged ==
    ASSUME NEW d \in Whole, Tidy(d), NEW r \in Reals, Nowhere(d, r)
    PROVE  Unbridged(d, {r})
<1>1. ASSUME NEW b \in Bridges, r \in d.on[b] PROVE FALSE
  <2>1. d.home[b] \in Strips /\ ParentStrip(d, r) = d.home[b]
    BY <1>1 DEF Tidy, Joins
  <2>2. d.phys[r] \in Phys /\ r \in Range(d.levels[d.phys[r]])
    BY <2>1, PlacedIs, StripAssumption
  <2> QED
    BY <2>2 DEF Nowhere
<1> QED
  BY <1>1 DEF Unbridged

\* AddSpareTerminalsCommand, with the physical terminal it makes.
LEMMA SpareGoes ==
    ASSUME doc \in Whole, Tidy(doc), NEW c, NEW b \in SpareAdds, b.at = -1, b.phys = FreshPhys(doc),
           FreePhys(doc) # {}, Nowhere(doc, b.real), NEW e, Sound(e), b = Kept(e, c),
           SpareMade(doc, b.strip, b.phys, b.real, e)
    PROVE  GoesTo(c, b, e)
<1> DEFINE s == b.strip
           p == b.phys
           r == b.real
<1>1. s \in Strips /\ p \in Phys /\ r \in Reals /\ b.name = "Spares" /\ b \in Keepers
  BY DEF SpareAdds, Keepers, Reals
<1>2. p \notin Held /\ \A u \in Strips : p \notin Range(doc.order[u])
  <2>1. p \in FreePhys(doc)
    BY FreshIs
  <2> QED
    BY <2>1 DEF FreePhys, Live
<1>3. doc \in Docs
  BY DEF Whole
<1>4. Nowhere(doc, r) /\ SpareMade(doc, s, p, r, e)
  OBVIOUS
<1> HIDE DEF s, p, r
<1>5. /\ e \in Docs /\ Owned(e) /\ e.order = [doc.order EXCEPT ![s] = @ \o <<p>>]
      /\ e.levels = [doc.levels EXCEPT ![p] = <<r>>]
      /\ e.listed = doc.listed /\ e.on = doc.on /\ e.home = doc.home
  BY <1>4 DEF SpareMade
<1>6. e \in Whole
  BY <1>5 DEF Whole
<1>7. e.levels[p] = <<r>> /\ \A o \in Phys : o # p => e.levels[o] = doc.levels[o]
  BY <1>1, <1>3, <1>5, DocParts
<1>8. doc.order \in [Strips -> Seq(Phys)]
  BY <1>3, DocParts
<1>9. Beside(doc, e)
  <2>1. \A u \in Strips : doc.order[u] \in Seq(Phys)
    BY <1>8
  <2>2. \A u \in Strips : Range(doc.order[u]) \subseteq Phys
    BY <2>1, RangeOf
  <2>3. SameLevels(doc, e)
    BY <1>2, <1>7, <2>2 DEF SameLevels
  <2> QED
    BY <1>5, <2>3 DEF Beside, SameBridges
<1>10. Tidy(e)
  <2>1. <<p>> \in Seq(Phys) /\ << >> \in Seq(Phys)
    BY <1>1
  <2>2. e.order[s] = doc.order[s] \o <<p>>
    BY <1>1, <1>5, <1>8
  <2>3. ASSUME NEW u \in Strips, u # s PROVE e.order[u] = doc.order[u] \o << >>
    BY <1>5, <1>8, <2>3, ConcatEmptySeq
  <2>4. \A u \in Strips : \E z \in Seq(Phys) :
            \/ e.order[u] = doc.order[u] \o z
            \/ doc.order[u] = e.order[u] \o z /\ \A o \in Range(z) : Unbridged(doc, Range(doc.levels[o]))
    BY <2>1, <2>2, <2>3
  <2> QED
    BY <1>5, <1>9, <2>4, TidyEnds DEF Beside
<1>11. Unbridged(e, {r})
  BY <1>1, <1>4, <1>5, NowhereUnbridged DEF Unbridged
<1>12. Leads(b, doc, e)
  <2>1. SpareLeads(b, doc, e)
    BY <1>2, <1>5, <1>7, <1>9, <1>11 DEF SpareLeads, s, p, r
  <2> QED
    BY <1>1, <2>1, KindIs DEF Leads
<1>13. Prepared(e, b)
  BY <1>1, <1>7, KindIs DEF Prepared, p, r
<1>14. \A o \in Phys \cap Held : e.levels[o] = doc.levels[o]
  BY <1>2, <1>7
<1> QED
  BY <1>1, <1>5, <1>6, <1>10, <1>12, <1>13, <1>14 DEF GoesTo

\* A spare is put into a strip for the first time.
LEMMA SpareFirst ==
    ASSUME NEW S, S \in Seq(Commands), Held = HeldOf(S), NEW n, n \in 0 .. Len(S), NEW d,
           Standing(d, S, n), NEW s, s \in Strips, NEW at, at \in Int, NEW r, r \in Spare,
           Nowhere(d, r), FreePhys(d) # {}, \A i \in DOMAIN S : r \notin Places(S[i]),
           NEW c, c = [name |-> "Spares", strip |-> s, at |-> at, real |-> r, phys |-> None],
           NEW b, b = [c EXCEPT !.phys = FreshPhys(d)], NEW e, e = Redo1(d, c)
    PROVE  Sound(e) /\ b = Kept(e, c)
BY SpareStands DEF Good

\* A careful user's AddSpareTerminalsCommand leads where it says: what it
\* makes is kept by the command.
LEMMA SparesPush ==
    ASSUME StripInv, doc \in Whole, Tidy(doc), Careful, AddSpareTerminalsCommand
    PROVE  \E c, b : Push(c) /\ GoesTo(c, b, Redo1(doc, c))
<1> DEFINE S == Stack
           n == Len(done)
<1>1. Room
  BY DEF AddSpareTerminalsCommand, Gives
<1>2. PICK s \in doc.listed : \E r \in UnusedSpare :
          Push([name |-> "Spares", strip |-> s, at |-> -1, real |-> r, phys |-> None])
  BY DEF AddSpareTerminalsCommand
<1>3. PICK r \in UnusedSpare :
          Push([name |-> "Spares", strip |-> s, at |-> -1, real |-> r, phys |-> None])
  BY <1>2
<1> DEFINE c == [name |-> "Spares", strip |-> s, at |-> -1, real |-> r, phys |-> None]
           b == [c EXCEPT !.phys = FreshPhys(doc)]
           e == Redo1(doc, c)
<1>4. s \in Strips
  BY ListedIs
<1>5. r \in Spare /\ \A x \in Entries : r \notin RealsIn(x.cmd)
  BY DEF UnusedSpare, Unmade
<1>6. Nowhere(doc, r)
  BY DEF StripInv, SparesNowhere
<1>7. FreePhys(doc) # {}
  <2>1. IsFiniteSet(Reals) /\ Reals # {}
    BY <1>5, StripAssumption DEF Reals
  <2>2. Cardinality(Reals) \in Nat /\ Cardinality(Reals) # 0
    BY <2>1, FS_EmptySet, FS_CardinalityType
  <2>3. Cardinality(FreePhys(doc)) >= Cardinality(Reals)
    BY <1>1 DEF Room
  <2>4. Cardinality({}) = 0
    BY FS_EmptySet
  <2>5. ASSUME FreePhys(doc) = {} PROVE FALSE
    BY <2>2, <2>3, <2>4, <2>5
  <2> QED
    BY <2>5
<1>8. /\ S \in Seq(Commands) /\ Held = HeldOf(S) /\ n \in 0 .. Len(S) /\ Standing(doc, S, n)
      /\ \A i \in DOMAIN S : \E x \in Entries : S[i] = x.cmd
  BY StripNow
<1>9. \A i \in DOMAIN S : r \notin Places(S[i])
  BY <1>5, <1>8 DEF Places
<1> HIDE DEF S, n
<1>10. FreshPhys(doc) \in Phys
  BY <1>7, FreshIs DEF FreePhys
<1>11. Sound(e) /\ b = Kept(e, c)
  <2> DEFINE at == -1
  <2>1. at \in Int /\ c = [name |-> "Spares", strip |-> s, at |-> at, real |-> r, phys |-> None]
        /\ b = [c EXCEPT !.phys = FreshPhys(doc)] /\ e = Redo1(doc, c)
    OBVIOUS
  <2> HIDE DEF at, c, b, e
  <2> QED
    BY ONLY <1>4, <1>5, <1>6, <1>7, <1>8, <1>9, <2>1, SpareFirst
<1>12. b \in SpareAdds /\ b.at = -1 /\ b.phys = FreshPhys(doc) /\ b.real = r /\ b.strip = s
  BY <1>4, <1>5, <1>10 DEF SpareAdds
<1>13. e = InsertTerminals(MakeSpare(doc, r), s, -1, <<MakeSpare(doc, r).phys[r]>>)
  BY DEF Redo1, AddSpare
<1>14. Push(c)
  BY <1>3
<1> HIDE DEF c, b, e
<1>15. SpareMade(doc, s, b.phys, r, e)
  BY <1>4, <1>5, <1>7, <1>12, <1>13, SpareMadeIs
<1>16. GoesTo(c, b, e)
  <2>1. Nowhere(doc, b.real) /\ b = Kept(e, c) /\ SpareMade(doc, b.strip, b.phys, b.real, e)
    BY <1>6, <1>11, <1>12, <1>15
  <2> QED
    BY <1>7, <1>11, <1>12, <2>1, SpareGoes
<1> QED
  BY <1>14, <1>16 DEF e

\* TerminalStrip::setBridge() of terminals none of which is bridged.
FirstBridged(d, s, b, R, e) ==
    /\ e \in Docs /\ e.on = [d.on EXCEPT ![b] = R] /\ e.home = [d.home EXCEPT ![b] = s]
    /\ e.listed = d.listed /\ e.order = d.order /\ e.levels = d.levels
    /\ e.strip = d.strip /\ e.phys = d.phys

\* The bridge that is made is one that joins nothing and no command holds.
LEMMA FreeBridgeIs ==
    ASSUME NEW d, FreeBridges(d) # {}
    PROVE  FreshBridge(d) \in Bridges /\ d.on[FreshBridge(d)] = {} /\ FreshBridge(d) \notin Held
<1>1. FreeBridges(d) \in SUBSET Nat
  BY StripAssumption DEF FreeBridges
<1>2. \E b \in FreeBridges(d) : \A c \in FreeBridges(d) : b <= c
  BY <1>1, LeastOf
<1>3. FreshBridge(d) \in FreeBridges(d)
  BY <1>2 DEF FreshBridge
<1> QED
  BY <1>3 DEF FreeBridges

\* TerminalStrip::setBridge() makes a bridge when none of them is on one.
LEMMA FirstBridge ==
    ASSUME NEW d \in Docs, NEW s \in Strips, NEW R \in SUBSET Reals, IsBridgeable(d, s, R),
           \A r \in R : ParentStrip(d, r) = s /\ BridgeOf(d, s, r) = None,
           FreeBridges(d) # {}
    PROVE  FirstBridged(d, s, FreshBridge(d), R, SetBridge(d, s, R))
<1> DEFINE b == FreshBridge(d)
           e == SetBridge(d, s, R)
<1>1. {BridgeOf(d, s, r) : r \in R} \ {None} = {}
  OBVIOUS
<1>2. e = AddToBridge(d, s, b, R)
  BY <1>1 DEF SetBridge
<1>3. b \in Bridges /\ d.on[b] = {}
  BY FreeBridgeIs
<1> HIDE DEF b, e
<1>4. e = [d EXCEPT !.on[b] = @ \cup R, !.home[b] = s]
  BY <1>2 DEF AddToBridge
<1>5. d.on \in [Bridges -> SUBSET Reals] /\ d.home \in [Bridges -> Strips \cup {None}]
  BY DocParts
<1>6. [d.on EXCEPT ![b] = @ \cup R] = [d.on EXCEPT ![b] = R]
  BY <1>3, <1>5
<1>7. FirstBridged(d, s, b, R, e)
  BY <1>3, <1>4, <1>5, <1>6 DEF FirstBridged, Docs
<1> QED
  BY <1>7 DEF b, e

\* BridgeTerminalsCommand: terminals none of which is bridged.
LEMMA BridgeGoes ==
    ASSUME doc \in Whole, Tidy(doc), NEW b \in Bridge1s, NEW R, b.reals = R,
           R \in SUBSET Reals, IsBridgeable(doc, b.strip, R),
           \A r \in R : ParentStrip(doc, r) = b.strip /\ BridgeOf(doc, b.strip, r) = None,
           FreeBridges(doc) # {}, b.bridge = FreshBridge(doc),
           NEW e, FirstBridged(doc, b.strip, b.bridge, R, e)
    PROVE  /\ GoesTo(b, b, e) /\ BridgeOf(e, b.strip, CHOOSE r \in R : TRUE) = b.bridge
<1> DEFINE s == b.strip
           z == b.bridge
<1>1. s \in Strips /\ b.name = "Bridge" /\ b \in Keepers
  BY DEF Bridge1s, Bridgings, Keepers
<1>2. z \in Bridges /\ doc.on[z] = {} /\ z \notin Held
  BY FreeBridgeIs
<1>3. /\ FirstBridged(doc, s, z, R, e) /\ IsBridgeable(doc, s, R)
      /\ \A r \in R : ParentStrip(doc, r) = s /\ BridgeOf(doc, s, r) = None
  OBVIOUS
<1>4. doc \in Docs /\ Sound(doc) /\ Owned(doc)
  BY DEF Whole
<1> HIDE DEF s, z
<1>5. /\ e \in Docs /\ e.on = [doc.on EXCEPT ![z] = R] /\ e.home = [doc.home EXCEPT ![z] = s]
      /\ e.listed = doc.listed /\ e.order = doc.order /\ e.levels = doc.levels
      /\ e.strip = doc.strip /\ e.phys = doc.phys
  BY <1>3 DEF FirstBridged
<1>6. e \in Whole
  BY <1>4, <1>5 DEF Whole, Sound, Owned
<1>7. SamePlaces(doc, e)
  BY <1>5 DEF SamePlaces, SameLevels
<1>8. doc.on \in [Bridges -> SUBSET Reals] /\ doc.home \in [Bridges -> Strips \cup {None}]
  BY <1>4, DocParts
<1>9. /\ e.on[z] = R /\ e.home[z] = s
      /\ \A y \in Bridges : y # z => e.on[y] = doc.on[y] /\ e.home[y] = doc.home[y]
  BY <1>1, <1>2, <1>5, <1>8
<1>10. InRow(doc, s, R)
  BY <1>3, BridgeableRow
<1>11. R # {}
  <2>1. Cardinality(R) >= 2
    BY <1>10 DEF InRow
  <2>2. Cardinality({}) = 0
    BY FS_EmptySet
  <2> QED
    BY <2>1, <2>2
<1>12. RowOf(doc, s, z, R)
  <2>1. \A r \in R : \A y \in Bridges : r \notin doc.on[y]
    BY <1>1, <1>3, <1>4, OnNone
  <2>2. InStrip(doc, s, R)
    BY <1>3 DEF InStrip
  <2> QED
    BY <1>10, <2>1, <2>2 DEF RowOf
<1>13. Tidy(e)
  <2>1. doc \in Whole /\ Tidy(doc) /\ z \in Bridges
    BY <1>2
  <2>2. R = {} \/ (e.home[z] = s /\ RowOf(doc, s, z, R))
    BY <1>9, <1>12
  <2>3. \A y \in Bridges : y # z => e.on[y] = doc.on[y] /\ (doc.on[y] # {} => e.home[y] = doc.home[y])
    BY <1>9
  <2>4. e.on[z] = R
    BY <1>9
  <2> QED
    BY ONLY <1>1, <1>6, <1>7, <2>1, <2>2, <2>3, <2>4, TidyRow
<1>14. BridgeOf(e, s, CHOOSE r \in R : TRUE) = z
  <2>1. (CHOOSE r \in R : TRUE) \in R
    BY <1>11
  <2> DEFINE q == CHOOSE r \in R : TRUE
  <2> HIDE DEF q
  <2>2. e.home[z] = s /\ q \in e.on[z]
    BY <1>9, <2>1 DEF q
  <2>3. BridgeOf(e, s, q) = z
    <3>1. e \in Docs /\ s \in Strips /\ z \in Bridges
      BY <1>1, <1>2, <1>5
    <3>2. \A y \in Bridges : e.home[y] = s /\ q \in e.on[y] => BridgeOf(e, s, q) = y
      BY ONLY <1>13, <3>1, BridgeFound
    <3> QED
      BY <2>2, <3>1, <3>2
  <2> QED
    BY <2>3 DEF q
<1>15. Leads(b, doc, e)
  <2>1. BridgeLeads(b, doc, e)
    BY <1>2, <1>5, <1>7, <1>9, <1>11 DEF BridgeLeads, s, z
  <2> QED
    BY <1>1, <2>1, KindIs DEF Leads
<1>16. Prepared(e, b)
  BY <1>1, <1>2, <1>9, KindIs DEF Prepared, s, z
<1>17. b = Kept(e, b)
  <2>1. z # None
    BY <1>2, StripAssumption
  <2> QED
    BY <1>1, <2>1 DEF Kept, z
<1>18. GoesTo(b, b, e)
  BY <1>1, <1>2, <1>5, <1>6, <1>9, <1>13, <1>15, <1>16, <1>17 DEF GoesTo
<1> QED
  BY <1>14, <1>18 DEF s, z

\* A careful user's BridgeTerminalsCommand leads where it says: the command
\* keeps the bridge it made.
LEMMA BridgePush ==
    ASSUME StripInv, doc \in Whole, Tidy(doc), Careful, BridgeTerminalsCommand
    PROVE  \E c, b : Push(c) /\ GoesTo(c, b, Redo1(doc, c))
<1>1. PICK s \in doc.listed : \E R \in SUBSET Range(RealsOf(doc, s)) :
          /\ IsBridgeable(doc, s, R) /\ \A r \in R : BridgeOf(doc, s, r) = None
          /\ Push([name |-> "Bridge", strip |-> s, reals |-> R, bridge |-> None])
  BY DEF BridgeTerminalsCommand
<1>2. PICK R \in SUBSET Range(RealsOf(doc, s)) :
          /\ IsBridgeable(doc, s, R) /\ \A r \in R : BridgeOf(doc, s, r) = None
          /\ Push([name |-> "Bridge", strip |-> s, reals |-> R, bridge |-> None])
  BY <1>1
<1> DEFINE c == [name |-> "Bridge", strip |-> s, reals |-> R, bridge |-> None]
           b == [name |-> "Bridge", strip |-> s, reals |-> R, bridge |-> FreshBridge(doc)]
           e == Redo1(doc, c)
<1>3. FreeBridges(doc) # {}
  BY DEF BridgeTerminalsCommand, Gives, Room
<1>4. s \in Strips /\ doc \in Docs
  BY ListedIs DEF Whole
<1>5. R \in SUBSET Reals /\ \A r \in R : ParentStrip(doc, r) = s
  <2>1. ASSUME NEW r \in R PROVE r \in Reals /\ ParentStrip(doc, r) = s
    BY ListedTerminal DEF ParentStrip
  <2> QED
    BY <2>1
<1>6. Push(c)
  BY <1>2
<1>7. e = SetBridge(doc, s, R)
  BY DEF Redo1
<1>8. FirstBridged(doc, s, FreshBridge(doc), R, e)
  <2> HIDE DEF e
  <2> QED
    BY <1>2, <1>3, <1>4, <1>5, <1>7, FirstBridge
<1>9. b \in Bridge1s /\ b.strip = s /\ b.reals = R /\ b.bridge = FreshBridge(doc)
  BY <1>3, <1>4, <1>5, FreeBridgeIs DEF Bridge1s, Bridgings
<1>10. Kept(e, c) = [b EXCEPT !.bridge = BridgeOf(e, s, CHOOSE r \in R : TRUE)]
  <2> HIDE DEF e
  <2> QED
    BY DEF Kept
<1> HIDE DEF c, b, e
<1>11. GoesTo(b, b, e) /\ BridgeOf(e, s, CHOOSE r \in R : TRUE) = b.bridge
  <2>1. /\ IsBridgeable(doc, b.strip, R) /\ FirstBridged(doc, b.strip, b.bridge, R, e)
        /\ \A r \in R : ParentStrip(doc, r) = b.strip /\ BridgeOf(doc, b.strip, r) = None
    BY <1>2, <1>5, <1>8, <1>9
  <2> QED
    BY <1>3, <1>5, <1>9, <2>1, BridgeGoes
<1>12. Kept(e, c) = b
  BY <1>10, <1>11 DEF b
<1>13. GoesTo(c, b, e)
  BY <1>11, <1>12 DEF GoesTo
<1> QED
  BY <1>6, <1>13 DEF e

\* UnBridgeTerminalsCommand: terminals at an end of a bridge.
LEMMA UnbridgeGoes ==
    ASSUME doc \in Whole, Tidy(doc), NEW c \in Unbridge1s, c.bridge \in Bridges,
           doc.home[c.bridge] = c.strip, c.reals # {}, c.reals \subseteq doc.on[c.bridge],
           AtEnd(doc, c.strip, c.reals, doc.on[c.bridge]),
           c.reals = doc.on[c.bridge] \/ Cardinality(doc.on[c.bridge]) # Cardinality(c.reals) + 1
    PROVE  GoesTo(c, c, Redo1(doc, c))
<1> DEFINE s == c.strip
           b == c.bridge
           R == c.reals
           T == doc.on[b]
           e == Redo1(doc, c)
<1>1. s \in Strips /\ R \in SUBSET Reals /\ b \in Bridges /\ c.name = "Unbridge" /\ c \in Keepers
  BY DEF Unbridge1s, Bridgings, Keepers
<1>2. doc \in Docs /\ Sound(doc)
  BY DEF Whole
<1>3. e = UnBridge(doc, s, R)
  BY <1>1 DEF Redo1
<1>4. /\ doc.home[b] = s /\ R # {} /\ R \in SUBSET T /\ AtEnd(doc, s, R, T)
      /\ R = T \/ Cardinality(T) # Cardinality(R) + 1
      /\ T = doc.on[b]
  OBVIOUS
<1> HIDE DEF s, b, R, T, e
<1>5. Rebridged(doc, e, b, T \ R)
  <2>1. doc \in Whole /\ Tidy(doc) /\ s \in Strips /\ b \in Bridges
    BY <1>1
  <2>2. doc.home[b] = s /\ R # {}
    BY <1>4
  <2>3. R \in SUBSET doc.on[b] /\ AtEnd(doc, s, R, doc.on[b])
    BY <1>4
  <2>4. Rebridged(doc, UnBridge(doc, s, R), b, doc.on[b] \ R)
    BY ONLY <2>1, <2>2, <2>3, BridgeCut
  <2> QED
    BY <1>3, <1>4, <2>4
<1>6. e \in Docs /\ Sound(e)
  <2>1. e \in Good(Phys \X Reals, {}, {})
    BY <1>1, <1>2, <1>3, AllGood, BridgingGood
  <2> QED
    BY <2>1, AllGood
<1>7. /\ Owned(e) /\ e.on = [doc.on EXCEPT ![b] = T \ R]
      /\ e.listed = doc.listed /\ e.order = doc.order /\ e.levels = doc.levels
      /\ e.strip = doc.strip /\ e.phys = doc.phys /\ e.home = doc.home
  BY <1>5 DEF Rebridged
<1>8. e \in Whole
  BY <1>6, <1>7 DEF Whole
<1>9. SamePlaces(doc, e)
  BY <1>7 DEF SamePlaces, SameLevels
<1>10. e.on[b] = T \ R /\ \A z \in Bridges : z # b => e.on[z] = doc.on[z]
  BY <1>1, <1>2, <1>7, DocParts
<1>11. InStrip(doc, s, T) /\ InRow(doc, s, T)
  <2>1. doc.on[b] # {} /\ doc.home[b] = s /\ T = doc.on[b]
    BY <1>4
  <2>2. InStrip(doc, doc.home[b], doc.on[b]) /\ InRow(doc, doc.home[b], doc.on[b])
    BY <1>1, <2>1, JoinedAre
  <2> QED
    BY <2>1, <2>2
<1>12. T \ R = {} \/ (e.home[b] = s /\ RowOf(doc, s, b, T \ R))
  <2>1. ASSUME R # T PROVE RowOf(doc, s, b, T \ R)
    <3>1. IsFiniteSet(T)
      <4>1. T \in SUBSET Reals /\ IsFiniteSet(Reals)
        BY <1>11, StripAssumption DEF InStrip
      <4> QED
        BY <4>1, FS_Subset
    <3>2. Cardinality(T \ R) >= 2
      BY <1>4, <2>1, <3>1, TwoRest
    <3>3. InRow(doc, s, T \ R)
      BY <1>1, <1>4, <1>11, <3>2, RowRests
    <3>4. InStrip(doc, s, T \ R)
      BY <1>11 DEF InStrip
    <3>5. \A z \in Bridges : z # b => doc.on[z] \cap (T \ R) = {}
      BY <1>1, <1>4 DEF Tidy, OneBridge
    <3> QED
      BY <3>3, <3>4, <3>5 DEF RowOf
  <2> QED
    BY <1>4, <1>7, <2>1
<1>13. Tidy(e)
  <2> DEFINE U == T \ R
  <2>1. doc \in Whole /\ Tidy(doc) /\ b \in Bridges
    BY <1>1
  <2>2. U = {} \/ (e.home[b] = s /\ RowOf(doc, s, b, U))
    BY <1>12
  <2>3. \A z \in Bridges : z # b => e.on[z] = doc.on[z] /\ (doc.on[z] # {} => e.home[z] = doc.home[z])
    BY <1>7, <1>10
  <2>4. e.on[b] = U
    BY <1>10
  <2>5. s \in Strips
    BY <1>1
  <2> HIDE DEF U
  <2> QED
    BY ONLY <1>8, <1>9, <2>1, <2>2, <2>3, <2>4, <2>5, TidyRow
<1>14. Leads(c, doc, e)
  <2>1. UnbridgeLeads(c, doc, e)
    BY <1>1, <1>4, <1>7, <1>9 DEF UnbridgeLeads, s, b, R, T
  <2> QED
    BY <1>1, <2>1, KindIs DEF Leads
<1>15. Prepared(e, c)
  BY <1>1, <1>4, <1>7, KindIs DEF Prepared, b, s
<1>16. c = Kept(e, c)
  BY <1>1 DEF Kept
<1> QED
  BY <1>1, <1>7, <1>8, <1>13, <1>14, <1>15, <1>16 DEF GoesTo, e

\* Any UnBridgeTerminalsCommand leads where it says: canUnBridge() lets an
\* end be taken only, and of the last two both.
LEMMA UnbridgePush ==
    ASSUME StripInv, doc \in Whole, Tidy(doc), UnBridgeTerminalsCommand
    PROVE  \E c : Push(c) /\ GoesTo(c, c, Redo1(doc, c))
<1> DEFINE Of(s, R) == BridgeOf(doc, s, CHOOSE r \in R : TRUE)
           Off(s, R) == IF Cardinality(doc.on[Of(s, R)]) = Cardinality(R) + 1
                        THEN doc.on[Of(s, R)] ELSE R
<1>1. PICK s \in doc.listed : \E R \in SUBSET Range(RealsOf(doc, s)) :
          /\ CanUnBridge(doc, s, R)
          /\ Push([name |-> "Unbridge", strip |-> s, bridge |-> Of(s, R), reals |-> Off(s, R)])
  BY DEF UnBridgeTerminalsCommand
<1>2. PICK R \in SUBSET Range(RealsOf(doc, s)) :
          /\ CanUnBridge(doc, s, R)
          /\ Push([name |-> "Unbridge", strip |-> s, bridge |-> Of(s, R), reals |-> Off(s, R)])
  BY <1>1
<1> DEFINE b == Of(s, R)
           off == Off(s, R)
           c == [name |-> "Unbridge", strip |-> s, bridge |-> b, reals |-> off]
<1>3. Push(c)
  BY <1>2
<1>4. s \in Strips /\ R \in SUBSET Reals /\ doc \in Docs
  <2>1. doc \in Docs /\ s \in Strips
    BY StripNow, ListedIs
  <2>2. Range(RealsOf(doc, s)) \subseteq Reals
    BY <2>1, RealsOfIs
  <2> QED
    BY <2>1, <2>2
<1>5. b = BridgeOf(doc, s, CHOOSE r \in R : TRUE) /\ CanUnBridge(doc, s, R)
  BY <1>2
<1>6. off = doc.on[b] \/ (off = R /\ Cardinality(doc.on[b]) # Cardinality(R) + 1)
  OBVIOUS
<1> HIDE DEF b, off
<1>7. R # {} /\ \E z \in Bridges : doc.home[z] = s /\ R \subseteq doc.on[z]
  BY <1>4, <1>5, CanUnBridgeIs
<1>8. PICK z \in Bridges : doc.home[z] = s /\ R \subseteq doc.on[z]
  BY <1>7
<1>9. b = z
  <2> DEFINE q == CHOOSE r \in R : TRUE
  <2>1. q \in R
    BY <1>7
  <2>2. b = BridgeOf(doc, s, q)
    BY <1>5
  <2> HIDE DEF q
  <2>3. \A y \in Bridges : doc.home[y] = s /\ q \in doc.on[y] => BridgeOf(doc, s, q) = y
    BY <1>4, BridgeFound
  <2> QED
    BY <1>8, <2>1, <2>2, <2>3
<1>10. /\ b \in Bridges /\ doc.home[b] = s /\ R \subseteq doc.on[b]
  BY <1>8, <1>9
<1>11. AtEnd(doc, s, R, doc.on[b])
  BY <1>4, <1>5, <1>7, <1>10, UnBridgeable
<1>12. off # {} /\ off \subseteq doc.on[b] /\ AtEnd(doc, s, off, doc.on[b])
  BY <1>6, <1>7, <1>10, <1>11 DEF AtEnd
<1>13. off \in SUBSET Reals
  BY <1>4, <1>10, <1>12, DocParts
<1>14. c \in Unbridge1s /\ c.strip = s /\ c.bridge = b /\ c.reals = off
  BY <1>4, <1>10, <1>13 DEF Unbridge1s, Bridgings
<1> HIDE DEF c
<1>15. GoesTo(c, c, Redo1(doc, c))
  BY <1>6, <1>10, <1>12, <1>14, UnbridgeGoes
<1> QED
  BY <1>3, <1>15

\* The commands that leave terminals in their physical terminals, for a user
\* who is careful.
Keeping == {"Move", "Sort", "Spares", "Level", "Bridge", "Unbridge", "AddStrip"}

\* A careful user who gives no other commands.
KeepsTerminals == Careful /\ habit.names \subseteq Keeping

\* A command is pushed, and leads where it says.
Pushes == \E c, b : Push(c) /\ GoesTo(c, b, Redo1(doc, c))

\* Each step of such a user is a push, an undo or a redo.
LEMMA NextIs ==
    ASSUME StripInv, doc \in Whole, Tidy(doc), KeepsTerminals, Next
    PROVE  Pushes \/ Undo \/ Redo
<1>1. Careful /\ habit.names \subseteq Keeping
  BY DEF KeepsTerminals
<1>2. ~AddTerminalToStripCommand
  BY <1>1 DEF AddTerminalToStripCommand, Gives, Keeping
<1>3. ~RemoveTerminalFromStripCommand
  BY <1>1 DEF RemoveTerminalFromStripCommand, Gives, Keeping
<1>4. ~GroupTerminalsCommand
  BY <1>1 DEF GroupTerminalsCommand, Gives, Keeping
<1>5. ~UnGroupTerminalsCommand
  BY <1>1 DEF UnGroupTerminalsCommand, Gives, Keeping
<1>6. ~RemoveTerminalStripCommand
  BY <1>1 DEF RemoveTerminalStripCommand, Gives, Keeping
<1>7. CASE MoveTerminalCommand
  BY <1>1, <1>7, MovePush DEF Pushes
<1>8. CASE AddSpareTerminalsCommand
  BY <1>1, <1>8, SparesPush DEF Pushes
<1>9. CASE ChangeTerminalLevel
  BY <1>1, <1>9, LevelPush DEF Pushes
<1>10. CASE SortTerminalStripCommand
  BY <1>1, <1>10, SortPush DEF Pushes
<1>11. CASE BridgeTerminalsCommand
  BY <1>1, <1>11, BridgePush DEF Pushes
<1>12. CASE UnBridgeTerminalsCommand
  BY <1>1, <1>12, UnbridgePush DEF Pushes
<1>13. CASE AddTerminalStripCommand
  BY <1>1, <1>13, AddStripPush DEF Pushes
<1> QED
  BY <1>2, <1>3, <1>4, <1>5, <1>6, <1>7, <1>8, <1>9, <1>10, <1>11, <1>12, <1>13 DEF Next

\* Such a user is one of those whose terminals stay in one place.
LEMMA KeepingPlain ==
    ASSUME KeepsTerminals
    PROVE  Plain
BY DEF KeepsTerminals, Keeping, Plain

----------------------------------------------------------------------------
(****************************************************************************)
(* What the stack remembers.                                                *)
(****************************************************************************)

\* Documents that look alike are shown alike.
LEMMA ViewLooks ==
    ASSUME NEW d \in Docs, NEW x \in Docs, LooksLike(d, x)
    PROVE  View(d) = View(x)
<1>1. /\ x.listed = d.listed /\ x.order = d.order /\ x.on = d.on
      /\ \A s \in Strips : \A p \in Range(d.order[s]) : x.levels[p] = d.levels[p]
      /\ \A b \in Bridges : d.on[b] # {} => x.home[b] = d.home[b]
  BY DEF LooksLike, SamePlaces, SameLevels, SameBridges
<1>2. ASSUME NEW s \in Strips
      PROVE  [i \in DOMAIN d.order[s] |-> d.levels[d.order[s][i]]]
                 = [i \in DOMAIN x.order[s] |-> x.levels[x.order[s][i]]]
  <2>1. \A i \in DOMAIN d.order[s] : d.order[s][i] \in Range(d.order[s])
    BY DEF Range
  <2>2. \A i \in DOMAIN d.order[s] : x.levels[d.order[s][i]] = d.levels[d.order[s][i]]
    BY <1>1, <2>1
  <2> QED
    BY <1>1, <2>2
<1>3. ASSUME NEW s \in Strips
      PROVE  {d.on[b] : b \in {y \in Bridges : d.home[y] = s}} \ {{}}
                 = {x.on[b] : b \in {y \in Bridges : x.home[y] = s}} \ {{}}
  <2>1. \A b \in Bridges : x.on[b] = d.on[b] /\ (x.on[b] # {} => x.home[b] = d.home[b])
    BY <1>1
  <2> QED
    BY <2>1
<1> QED
  BY <1>1, <1>2, <1>3 DEF View

\* A command leads to the same from any document that looks alike.
LEMMA LeadsFrom ==
    ASSUME NEW c \in Keepers, NEW x \in Whole, NEW w \in Whole, Tidy(x), LooksLike(x, w),
           LooksLike(w, x), NEW y, Leads(c, x, y)
    PROVE  Leads(c, w, y)
<1>1. /\ w.listed = x.listed /\ w.order = x.order /\ w.on = x.on
      /\ \A s \in Strips : \A p \in Range(x.order[s]) : w.levels[p] = x.levels[p]
      /\ \A b \in Bridges : x.on[b] # {} => w.home[b] = x.home[b]
      /\ SamePlaces(x, w) /\ SamePlaces(w, x)
  BY DEF LooksLike, SamePlaces, SameLevels, SameBridges
<1>2. ASSUME Beside(x, y) PROVE Beside(w, y)
  BY <1>1, <1>2 DEF Beside, SameLevels, SameBridges
<1>3. ASSUME SamePlaces(x, y) PROVE SamePlaces(w, y)
  BY <1>1, <1>3 DEF SamePlaces, SameLevels
<1>4. ASSUME SameBridges(x, y) PROVE SameBridges(w, y)
  BY <1>1, <1>4 DEF SameBridges
<1>5. ASSUME c \in Moves PROVE MoveLeads(c, w, y)
  <2>1. MoveLeads(c, x, y)
    BY <1>5 DEF Leads
  <2>2. PICK a : /\ LooseEnd(x, c.strip, a, c.phys)
                 /\ y.order = [x.order EXCEPT ![c.strip] = a, ![c.to] = @ \o c.phys]
    BY <2>1 DEF MoveLeads
  <2>3. LooseEnd(w, c.strip, a, c.phys)
    <3>1. c.strip \in Strips
      BY <1>5 DEF Moves
    <3> QED
      BY <2>2, <3>1, LooseLike
  <2> QED
    BY <1>1, <1>2, <2>1, <2>2, <2>3 DEF MoveLeads
<1>6. ASSUME c \in SpareAdds PROVE SpareLeads(c, w, y)
  <2>1. SpareLeads(c, x, y)
    BY <1>6 DEF Leads
  <2> QED
    BY <1>1, <1>2, <2>1 DEF SpareLeads
<1>7. ASSUME c \in Levelings PROVE LevelLeads(c, w, y)
  <2>1. LevelLeads(c, x, y)
    BY <1>7 DEF Leads
  <2>2. PICK s \in Strips : \E p \in Range(x.order[s]) : LevelSwapped(c, x, y, p)
    BY <2>1 DEF LevelLeads
  <2>3. PICK p \in Range(x.order[s]) : LevelSwapped(c, x, y, p)
    BY <2>2
  <2>4. p \in Range(w.order[s]) /\ w.levels[p] = x.levels[p]
    BY <1>1
  <2>5. LevelSwapped(c, w, y, p)
    BY <1>1, <2>3, <2>4 DEF LevelSwapped
  <2>6. y.order = w.order /\ SameBridges(w, y) /\ y.listed = w.listed
    BY <1>1, <1>4, <2>1 DEF LevelLeads
  <2> QED
    BY <2>4, <2>5, <2>6 DEF LevelLeads
<1>8. ASSUME c \in Sorts PROVE SortLeads(c, w, y)
  <2>1. SortLeads(c, x, y)
    BY <1>8 DEF Leads
  <2> QED
    BY <1>1, <1>2, <2>1 DEF SortLeads
<1>9. ASSUME c \in Bridge1s PROVE BridgeLeads(c, w, y)
  <2>1. BridgeLeads(c, x, y)
    BY <1>9 DEF Leads
  <2> QED
    BY <1>1, <1>3, <2>1 DEF BridgeLeads
<1>10. ASSUME c \in Unbridge1s PROVE UnbridgeLeads(c, w, y)
  <2>1. UnbridgeLeads(c, x, y)
    BY <1>10 DEF Leads
  <2> DEFINE b == c.bridge
             s == c.strip
             R == c.reals
             T == x.on[b]
  <2>2. b \in Bridges /\ x.home[b] = s /\ R \in SUBSET T /\ R # {} /\ AtEnd(x, s, R, T) /\ T # {}
    BY <2>1 DEF UnbridgeLeads
  <2>3. s \in Strips /\ InStrip(x, s, T)
    BY <2>2, JoinedAre
  <2>4. w.home[b] = s
    BY <1>1, <2>2
  <2> HIDE DEF b, s, R, T
  <2>5. \A Q \in SUBSET T : AtEnd(x, s, Q, T) => AtEnd(w, s, Q, T)
    BY ONLY <1>1, <2>3, x \in Whole, w \in Whole, RowThere
  <2>6. AtEnd(w, s, R, T)
    BY <2>2, <2>5
  <2> QED
    BY <1>1, <1>3, <2>1, <2>4, <2>6 DEF UnbridgeLeads, b, s, R, T
<1>11. ASSUME c \in StripAdds PROVE AddLeads(c, w, y)
  <2>1. AddLeads(c, x, y)
    BY <1>11 DEF Leads
  <2> QED
    BY <1>1, <1>3, <1>4, <2>1 DEF AddLeads
<1> QED
  BY <1>5, <1>6, <1>7, <1>8, <1>9, <1>10, <1>11 DEF Leads

\* The commands of the stack, those that can be undone first.
Log == done \o undone

\* An entry of the stack whose command leads from x to y, and which says what
\* these looked like.
Remembered(f, x, y) ==
    f.cmd \in Keepers /\ Leads(f.cmd, x, y) /\ f.before = View(x) /\ f.after = View(y)

\* X is what the document was before the first command of L and after each of
\* them; n of them are done, and d looks like what it was then.
Remembers(X, L, n, d) ==
    /\ X \in [1 .. (Len(L) + 1) -> Whole] /\ \A k \in 1 .. (Len(L) + 1) : Tidy(X[k])
    /\ \A k \in 1 .. Len(L) : Remembered(L[k], X[k], X[k + 1])
    /\ n \in 0 .. Len(L) /\ LooksLike(d, X[n + 1])

\* What the commands made is as they made it.
AllPrepared(d, L) == \A k \in 1 .. Len(L) : Prepared(d, L[k].cmd)

\* What is remembered of a command.
LEMMA WhatWas ==
    ASSUME NEW L \in Seq(Logged), NEW X, NEW n, NEW d, Remembers(X, L, n, d),
           NEW k, k \in 1 .. Len(L)
    PROVE  /\ X[k] \in Whole /\ X[k + 1] \in Whole /\ Tidy(X[k]) /\ Tidy(X[k + 1])
           /\ L[k].cmd \in Keepers /\ Leads(L[k].cmd, X[k], X[k + 1])
           /\ L[k].before = View(X[k]) /\ L[k].after = View(X[k + 1])
<1>1. Len(L) \in Nat
  OBVIOUS
<1>2. k \in 1 .. (Len(L) + 1) /\ k + 1 \in 1 .. (Len(L) + 1)
  BY <1>1
<1> QED
  BY <1>2 DEF Remembers, Remembered

\* The document looks like what is remembered, so its bridges are in order.
LEMMA NowIs ==
    ASSUME NEW L \in Seq(Logged), NEW X, NEW n, NEW d \in Whole, Remembers(X, L, n, d)
    PROVE  /\ n \in 0 .. Len(L) /\ X[n + 1] \in Whole /\ Tidy(X[n + 1])
           /\ LooksLike(d, X[n + 1]) /\ LooksLike(X[n + 1], d)
           /\ View(d) = View(X[n + 1]) /\ Tidy(d)
<1>1. Len(L) \in Nat /\ n \in 0 .. Len(L)
  BY DEF Remembers
<1>2. n + 1 \in 1 .. (Len(L) + 1)
  BY <1>1
<1>3. X[n + 1] \in Whole /\ Tidy(X[n + 1]) /\ LooksLike(d, X[n + 1])
  BY <1>2 DEF Remembers
<1>4. LooksLike(X[n + 1], d)
  BY <1>3, LooksSymmetric
<1>5. View(d) = View(X[n + 1])
  BY <1>3, ViewLooks DEF Whole
<1>6. Tidy(d)
  BY <1>3, <1>4, TidyLooks
<1> QED
  BY <1>1, <1>3, <1>4, <1>5, <1>6

\* The same commands, another number of which are done.
LEMMA OtherNow ==
    ASSUME NEW L, NEW X, NEW n, NEW d, Remembers(X, L, n, d),
           NEW m, m \in 0 .. Len(L), NEW e, LooksLike(e, X[m + 1])
    PROVE  Remembers(X, L, m, e)
BY DEF Remembers

\* What all commands made stays where none of it is changed.
LEMMA PreparedStill ==
    ASSUME NEW L \in Seq(Logged), NEW X, NEW n, NEW d, Remembers(X, L, n, d),
           AllPrepared(d, L), NEW e, KeepsMade(d, e)
    PROVE  AllPrepared(e, L)
<1>1. ASSUME NEW k \in 1 .. Len(L) PROVE Prepared(e, L[k].cmd)
  <2> DEFINE c == L[k].cmd
  <2>1. c \in Keepers /\ Prepared(d, c)
    BY WhatWas DEF AllPrepared
  <2> HIDE DEF c
  <2>2. Prepared(e, c)
    BY <2>1, PreparedStays
  <2> QED
    BY <2>2 DEF c
<1> QED
  BY <1>1 DEF AllPrepared

\* The last command that was done is taken back.
LEMMA BackOne ==
    ASSUME NEW L \in Seq(Logged), NEW X, NEW n, NEW d \in Whole, Remembers(X, L, n, d),
           AllPrepared(d, L), n \in 1 .. Len(L), NEW e, e = Undo1(d, L[n].cmd), Sound(e)
    PROVE  /\ e \in Whole /\ AllPrepared(e, L) /\ Remembers(X, L, n - 1, e)
           /\ L[n].before = View(e) /\ L[n].after = View(d)
<1> DEFINE c == L[n].cmd
           x == X[n]
           y == X[n + 1]
<1>1. /\ x \in Whole /\ y \in Whole /\ Tidy(x) /\ Tidy(y) /\ c \in Keepers /\ Leads(c, x, y)
      /\ L[n].before = View(x) /\ L[n].after = View(y)
  BY WhatWas
<1>2. LooksLike(d, y) /\ View(d) = View(y)
  BY NowIs
<1>3. Prepared(d, c) /\ e = Undo1(d, c)
  BY DEF AllPrepared
<1>4. Len(L) \in Nat /\ n - 1 \in 0 .. Len(L) /\ (n - 1) + 1 = n
  OBVIOUS
<1> HIDE DEF c, y
<1>5. Becomes(d, e, x)
  <2> HIDE DEF x
  <2> QED
    BY <1>1, <1>2, <1>3, UndoBecomes
<1>6. e \in Docs /\ Owned(e) /\ LooksLike(e, x) /\ KeepsMade(d, e)
  BY <1>5 DEF Becomes
<1>7. e \in Whole
  BY <1>6 DEF Whole
<1>8. View(e) = View(x)
  BY <1>1, <1>6, ViewLooks DEF Whole
<1>9. Remembers(X, L, n - 1, e)
  BY <1>4, <1>6, OtherNow
<1>10. AllPrepared(e, L)
  BY <1>6, PreparedStill
<1> QED
  BY <1>1, <1>2, <1>7, <1>8, <1>9, <1>10

\* The next command is made again.
LEMMA ForthOne ==
    ASSUME NEW L \in Seq(Logged), NEW X, NEW n, NEW d \in Whole, Remembers(X, L, n, d),
           AllPrepared(d, L), NEW k, k = n + 1, k \in 1 .. Len(L),
           NEW e, e = Redo1(d, L[k].cmd), Sound(e)
    PROVE  /\ e \in Whole /\ AllPrepared(e, L) /\ Remembers(X, L, k, e)
           /\ L[k].before = View(d) /\ L[k].after = View(e)
           /\ Kept(e, L[k].cmd) = L[k].cmd
<1> DEFINE c == L[k].cmd
           x == X[k]
           y == X[k + 1]
<1>1. /\ x \in Whole /\ y \in Whole /\ Tidy(x) /\ Tidy(y) /\ c \in Keepers /\ Leads(c, x, y)
      /\ L[k].before = View(x) /\ L[k].after = View(y)
  BY WhatWas
<1>2. LooksLike(d, x) /\ View(d) = View(x)
  BY NowIs
<1>3. Prepared(d, c) /\ e = Redo1(d, c)
  BY DEF AllPrepared
<1>4. Len(L) \in Nat /\ k \in 0 .. Len(L)
  OBVIOUS
<1> HIDE DEF c, x
<1>5. Becomes(d, e, y)
  <2> HIDE DEF y
  <2> QED
    BY <1>1, <1>2, <1>3, RedoBecomes
<1>6. e \in Docs /\ Owned(e) /\ LooksLike(e, y) /\ KeepsMade(d, e)
  BY <1>5 DEF Becomes
<1>7. e \in Whole
  BY <1>6 DEF Whole
<1>8. View(e) = View(y)
  BY <1>1, <1>6, ViewLooks DEF Whole
<1>9. Remembers(X, L, k, e)
  BY <1>4, <1>6, OtherNow
<1>10. AllPrepared(e, L)
  BY <1>6, PreparedStill
<1>11. Kept(e, c) = c
  <2>1. c.name = "Spares" => c.phys # None
    BY <1>1, KindIs, StripAssumption DEF SpareAdds
  <2>2. c.name = "Bridge" => c.bridge # None
    <3>1. c.name = "Bridge" => c.bridge \in Bridges
      BY <1>1, <1>3, KindIs DEF Prepared
    <3> QED
      BY <3>1, StripAssumption
  <2> QED
    BY <2>1, <2>2 DEF Kept
<1> QED
  BY <1>1, <1>2, <1>7, <1>8, <1>9, <1>10, <1>11 DEF c

\* What goes because nothing refers to it is not missed.
LEMMA CollectedStill ==
    ASSUME NEW L \in Seq(Logged), NEW X, NEW n, NEW e \in Whole, Remembers(X, L, n, e),
           AllPrepared(e, L), NEW entries, \A k \in 1 .. Len(L) : L[k] \in entries,
           NEW d, d = Collected(e, entries), d \in Docs, Sound(d)
    PROVE  d \in Whole /\ AllPrepared(d, L) /\ Remembers(X, L, n, d) /\ View(d) = View(e)
<1>1. /\ LooksLike(e, d) /\ Owned(d)
      /\ \A f \in entries : f.cmd \in Keepers /\ Prepared(e, f.cmd) => Prepared(d, f.cmd)
  BY CollectedLooks
<1>2. d \in Whole
  BY <1>1 DEF Whole
<1>3. AllPrepared(d, L)
  <2>1. ASSUME NEW k \in 1 .. Len(L) PROVE Prepared(d, L[k].cmd)
    <3>1. L[k].cmd \in Keepers /\ Prepared(e, L[k].cmd) /\ L[k] \in entries
      BY WhatWas DEF AllPrepared
    <3> QED
      BY <1>1, <3>1
  <2> QED
    BY <2>1 DEF AllPrepared
<1>4. LooksLike(d, X[n + 1]) /\ n \in 0 .. Len(L)
  <2>1. LooksLike(e, X[n + 1]) /\ n \in 0 .. Len(L)
    BY NowIs
  <2>2. LooksLike(d, e)
    BY <1>1, LooksSymmetric
  <2> QED
    BY <2>1, <2>2, LooksOn
<1>5. Remembers(X, L, n, d)
  BY <1>4, OtherNow
<1>6. View(d) = View(e)
  BY <1>1, <1>2, ViewLooks DEF Whole
<1> QED
  BY <1>2, <1>3, <1>5, <1>6

\* A new command: what had been taken back is forgotten.
LEMMA PushOne ==
    ASSUME doc \in Whole, NEW L \in Seq(Logged), NEW X, NEW n, Remembers(X, L, n, doc),
           AllPrepared(doc, L), \A k \in 1 .. n : L[k] \in Entries,
           NEW c, NEW b, NEW e, GoesTo(c, b, e),
           NEW M \in Seq(Logged), Len(M) = n + 1, \A k \in 1 .. n : M[k] = L[k],
           NEW m, m = n + 1,
           M[m].cmd = b, M[m].before = View(doc), M[m].after = View(e)
    PROVE  AllPrepared(e, M) /\ \E Y : Remembers(Y, M, m, e)
<1>1. /\ e \in Whole /\ Tidy(e) /\ b \in Keepers /\ Leads(b, doc, e) /\ Prepared(e, b)
      /\ \A p \in Phys \cap Held : Len(doc.levels[p]) = 1 => e.levels[p] = doc.levels[p]
      /\ \A z \in Bridges \cap Held : e.home[z] = doc.home[z]
  BY DEF GoesTo
<1>2. /\ n \in 0 .. Len(L) /\ X[m] \in Whole /\ Tidy(X[m])
      /\ LooksLike(doc, X[m]) /\ LooksLike(X[m], doc) /\ View(doc) = View(X[m]) /\ Tidy(doc)
  BY NowIs
<1>3. Len(L) \in Nat /\ n \in Nat /\ n <= Len(L) /\ m \in Nat /\ \A k \in 1 .. n : k \in 1 .. Len(L)
  BY <1>2
<1>4. ASSUME NEW k \in 1 .. n PROVE Prepared(e, M[k].cmd)
  <2> DEFINE f == L[k].cmd
  <2>1. f \in Keepers /\ Prepared(doc, f)
    <3>1. k \in 1 .. Len(L)
      BY <1>3
    <3> QED
      BY <3>1, WhatWas DEF AllPrepared
  <2>2. \A z \in HeldBy(f) : z \in Held
    <3>1. L[k] \in Entries
      OBVIOUS
    <3> QED
      BY <3>1 DEF Held, HeldIn
  <2>3. M[k].cmd = f
    OBVIOUS
  <2> HIDE DEF f
  <2>4. ASSUME f \in SpareAdds PROVE e.levels[f.phys] = <<f.real>>
    <3>1. f.phys \in Phys /\ f.real \in Reals /\ doc.levels[f.phys] = <<f.real>>
      BY <2>1, <2>4 DEF SpareAdds, Reals, Prepared
    <3>2. f.phys \in Held
      BY <2>2, <2>4 DEF SpareAdds, HeldBy
    <3>3. Len(<<f.real>>) = 1
      BY <3>1, OneIs
    <3> QED
      BY <1>1, <3>1, <3>2, <3>3
  <2>5. ASSUME f \in Bridge1s \cup Unbridge1s
        PROVE  f.bridge \in Bridges /\ e.home[f.bridge] = f.strip
    <3>1. f.bridge \in Bridges /\ doc.home[f.bridge] = f.strip
      BY <2>1, <2>5 DEF Prepared
    <3>2. f.bridge \in Held
      BY <2>2, <2>5 DEF Bridge1s, Unbridge1s, HeldBy
    <3> QED
      BY <1>1, <3>1, <3>2
  <2> QED
    BY <2>3, <2>4, <2>5 DEF Prepared
<1>5. \A k \in 1 .. Len(M) : k \in 1 .. n \/ k = m
  BY <1>3
<1>6. AllPrepared(e, M)
  BY <1>1, <1>4, <1>5 DEF AllPrepared
<1>7. Leads(b, X[m], e)
  BY <1>1, <1>2, LeadsFrom
<1> DEFINE Y == [k \in 1 .. (Len(M) + 1) |-> IF k = m + 1 THEN e ELSE X[k]]
<1>8. /\ Len(M) = m /\ Y[m + 1] = e /\ \A k \in 1 .. m : Y[k] = X[k] /\ k \in 1 .. (Len(L) + 1)
      /\ \A k \in 1 .. (Len(M) + 1) : k \in 1 .. m \/ k = m + 1
      /\ \A k \in 1 .. n : k \in 1 .. m /\ k + 1 \in 1 .. m
      /\ m \in 1 .. m
  BY <1>3
<1>9. \A k \in 1 .. (Len(L) + 1) : X[k] \in Whole /\ Tidy(X[k])
  BY DEF Remembers
<1>10. DOMAIN Y = 1 .. (Len(M) + 1) /\ Y = [k \in 1 .. (Len(M) + 1) |-> Y[k]]
  OBVIOUS
<1> HIDE DEF Y
<1>11. \A k \in 1 .. (Len(M) + 1) : Y[k] \in Whole /\ Tidy(Y[k])
  BY <1>1, <1>8, <1>9
<1>12. \A k \in 1 .. n : Remembered(L[k], X[k], X[k + 1])
  BY <1>3 DEF Remembers
<1>13. \A k \in 1 .. n : Remembered(M[k], Y[k], Y[k + 1])
  BY <1>8, <1>12
<1>14. Remembered(M[m], Y[m], Y[m + 1])
  BY <1>1, <1>2, <1>7, <1>8 DEF Remembered
<1>15. \A k \in 1 .. Len(M) : Remembered(M[k], Y[k], Y[k + 1])
  BY <1>5, <1>13, <1>14
<1>16. LooksLike(e, e)
  BY DEF LooksLike, SamePlaces, SameLevels, SameBridges
<1>17. m \in 0 .. Len(M)
  BY <1>3, <1>8
<1>18. Y \in [1 .. (Len(M) + 1) -> Whole]
  BY <1>10, <1>11
<1>19. Remembers(Y, M, m, e)
  BY <1>8, <1>11, <1>15, <1>16, <1>17, <1>18 DEF Remembers
<1> QED
  BY <1>6, <1>19

\* The commands that can be undone come first, in their order.
LEMMA LogIs ==
    ASSUME NEW a \in Seq(Logged), NEW b \in Seq(Logged)
    PROVE  /\ a \o b \in Seq(Logged) /\ Len(a \o b) = Len(a) + Len(b)
           /\ \A i \in 1 .. Len(a) : (a \o b)[i] = a[i] /\ i \in 1 .. Len(a \o b)
           /\ \A i \in 1 .. Len(b) : (a \o b)[Len(a) + i] = b[i]
           /\ \A k \in 1 .. Len(a \o b) : (a \o b)[k] \in Range(a) \cup Range(b)
<1> DEFINE q == a \o b
           n == Len(a)
           m == Len(b)
<1>1. /\ q \in Seq(Logged) /\ Len(q) = n + m
      /\ \A i \in 1 .. (n + m) : q[i] = IF i <= n THEN a[i] ELSE b[i - n]
  BY ONLY a \in Seq(Logged), b \in Seq(Logged), ConcatProperties
<1>2. n \in Nat /\ m \in Nat
  OBVIOUS
<1>3. Range(q) = Range(a) \cup Range(b)
  BY ONLY a \in Seq(Logged), b \in Seq(Logged), InBoth
<1>4. \A k \in 1 .. Len(q) : q[k] \in Range(q)
  BY <1>1, RangeOf
<1> HIDE DEF q, n, m
<1>5. /\ \A i \in 1 .. n : i \in 1 .. (n + m) /\ i <= n
      /\ \A i \in 1 .. m : n + i \in 1 .. (n + m) /\ ~(n + i <= n) /\ (n + i) - n = i
  BY <1>2
<1>6. \A i \in 1 .. n : q[i] = a[i] /\ i \in 1 .. Len(q)
  BY <1>1, <1>5
<1>7. \A i \in 1 .. m : q[n + i] = b[i]
  BY <1>1, <1>5
<1> QED
  BY <1>1, <1>3, <1>4, <1>6, <1>7 DEF q, n, m

\* Undo and redo leave the order of the commands as it is.
LEMMA LogBack ==
    ASSUME NEW a \in Seq(Logged), NEW b \in Seq(Logged), a # << >>
    PROVE  /\ Front(a) \in Seq(Logged) /\ <<Last(a)>> \o b \in Seq(Logged)
           /\ Front(a) \o (<<Last(a)>> \o b) = a \o b
           /\ Len(Front(a)) = Len(a) - 1 /\ Len(a) \in Nat \ {0} /\ Last(a) = a[Len(a)]
<1> DEFINE n == Len(a)
           f == SubSeq(a, 1, n - 1)
           one == <<a[n]>>
<1>1. n \in Nat \ {0} /\ 1 \in 1 .. n /\ n \in 1 .. n /\ a[n] \in Logged
  OBVIOUS
<1>2. Front(a) = f /\ Last(a) = a[n]
  BY DEF Front, Last
<1>3. f \in Seq(Logged) /\ Len(f) = n - 1
  <2> DEFINE k == n - 1
  <2>1. \A i \in 1 .. k : a[i] \in Logged
    BY <1>1
  <2>2. 1 \in Int /\ k \in Int /\ k \in Nat
    BY <1>1
  <2> HIDE DEF k, n
  <2>3. SubSeq(a, 1, k) \in Seq(Logged) /\ Len(SubSeq(a, 1, k)) = IF 1 <= k THEN k - 1 + 1 ELSE 0
    BY ONLY <2>1, <2>2, SubSeqProperties
  <2>4. (IF 1 <= k THEN k - 1 + 1 ELSE 0) = k
    BY <2>2
  <2> QED
    BY <2>3, <2>4 DEF k
<1>4. SubSeq(a, 1, n) = f \o one
  BY ONLY <1>1, a \in Seq(Logged), SubSeqRecursiveSecond
<1>5. SubSeq(a, 1, n) = a
  BY SubSeqFull
<1>6. one \in Seq(Logged)
  BY <1>1
<1> HIDE DEF n, f, one
<1>7. (f \o one) \o b = f \o (one \o b)
  BY ONLY <1>3, <1>6, b \in Seq(Logged), ConcatAssociative
<1>8. one \o b \in Seq(Logged)
  BY ONLY <1>6, b \in Seq(Logged), ConcatProperties
<1> QED
  BY <1>1, <1>2, <1>3, <1>4, <1>5, <1>7, <1>8 DEF n, one

\* Redo does so too.
LEMMA LogForth ==
    ASSUME NEW a \in Seq(Logged), NEW b \in Seq(Logged), b # << >>
    PROVE  /\ Append(a, Head(b)) \in Seq(Logged) /\ Tail(b) \in Seq(Logged)
           /\ Append(a, Head(b)) \o Tail(b) = a \o b
           /\ Len(Append(a, Head(b))) = Len(a) + 1 /\ Head(b) = b[1] /\ 1 \in 1 .. Len(b)
<1> DEFINE m == Len(b)
           one == <<b[1]>>
           t == SubSeq(b, 1 + 1, m)
<1>1. m \in Nat \ {0} /\ 1 \in 1 .. m /\ m \in 1 .. m /\ b[1] \in Logged
  OBVIOUS
<1>2. Head(b) = b[1] /\ Tail(b) = t /\ Tail(b) \in Seq(Logged)
  <2>1. Tail(b) \in Seq(Logged)
    OBVIOUS
  <2>2. Tail(b) = SubSeq(b, 2, Len(b))
    BY TailIsSubSeq
  <2>3. 1 + 1 = 2
    OBVIOUS
  <2> QED
    BY <2>1, <2>2, <2>3
<1>3. SubSeq(b, 1, m) = one \o t
  BY ONLY <1>1, b \in Seq(Logged), SubSeqRecursiveFirst
<1>4. SubSeq(b, 1, m) = b
  BY SubSeqFull
<1>5. one \in Seq(Logged)
  BY <1>1
<1>6. Append(a, b[1]) = a \o one
  BY <1>1, AppendIsConcat
<1>7. Append(a, b[1]) \in Seq(Logged) /\ Len(Append(a, b[1])) = Len(a) + 1
  BY <1>1
<1>8. t \in Seq(Logged)
  BY <1>2
<1> HIDE DEF m, t, one
<1>9. (a \o one) \o t = a \o (one \o t)
  BY ONLY <1>5, <1>8, a \in Seq(Logged), ConcatAssociative
<1> QED
  BY <1>1, <1>2, <1>3, <1>4, <1>6, <1>7, <1>9 DEF m

----------------------------------------------------------------------------
(****************************************************************************)
(* The invariant of the undo history, and its theorems.                     *)
(****************************************************************************)

\* The document looks like what the commands that are done made of the one
\* that was loaded.
HistInv ==
    /\ StripInv /\ doc \in Whole /\ AllPrepared(doc, Log)
    /\ \E X : Remembers(X, Log, Len(done), doc)

\* The invariant after a step.
LEMMA HistThen ==
    ASSUME StripInv', NEW L, L = Log', doc' \in Whole, AllPrepared(doc', L),
           NEW n, n = Len(done'), NEW X, Remembers(X, L, n, doc')
    PROVE  HistInv'
BY DEF HistInv

\* The invariant, and what it says of the stack.
LEMMA HistNow ==
    ASSUME HistInv
    PROVE  /\ StripInv /\ doc \in Whole /\ Tidy(doc) /\ done \in Seq(Logged) /\ undone \in Seq(Logged)
           /\ Log \in Seq(Logged) /\ Log = done \o undone /\ Len(done) \in Nat
           /\ AllPrepared(doc, Log) /\ \E X : Remembers(X, Log, Len(done), doc)
           /\ \A i \in 1 .. Len(done) : Log[i] = done[i] /\ i \in 1 .. Len(Log)
           /\ \A i \in 1 .. Len(undone) : Log[Len(done) + i] = undone[i]
           /\ \A k \in 1 .. Len(Log) : Log[k] \in Entries
           /\ Len(Log) = Len(done) + Len(undone)
<1>1. StripInv /\ doc \in Whole /\ AllPrepared(doc, Log) /\ done \in Seq(Logged) /\ undone \in Seq(Logged)
  BY DEF HistInv, StripInv, Types
<1>2. PICK X : Remembers(X, Log, Len(done), doc)
  BY DEF HistInv
<1>3. Log = done \o undone
  BY DEF Log
<1>4. /\ Log \in Seq(Logged)
      /\ \A i \in 1 .. Len(done) : Log[i] = done[i] /\ i \in 1 .. Len(Log)
      /\ \A i \in 1 .. Len(undone) : Log[Len(done) + i] = undone[i]
      /\ \A k \in 1 .. Len(Log) : Log[k] \in Range(done) \cup Range(undone)
      /\ Len(Log) = Len(done) + Len(undone)
  BY <1>1, <1>3, LogIs
<1>5. Tidy(doc)
  BY <1>1, <1>2, <1>4, NowIs
<1>6. Len(done) \in Nat
  BY <1>1
<1> QED
  BY <1>1, <1>2, <1>3, <1>4, <1>5, <1>6 DEF Entries

\* QUndoStack::undo()
LEMMA UndoHist ==
    ASSUME HistInv, Undo, StripInv'
    PROVE  HistInv' /\ View(doc') = Last(done).before /\ Last(done).after = View(doc)
<1> DEFINE n == Len(done)
           L == Log
           c == L[n].cmd
           e == Undo1(doc, c)
           S == Stack
<1>1. /\ StripInv /\ doc \in Whole /\ done \in Seq(Logged) /\ undone \in Seq(Logged)
      /\ L \in Seq(Logged) /\ L = done \o undone /\ n \in Nat /\ AllPrepared(doc, L)
      /\ \A i \in 1 .. n : L[i] = done[i] /\ i \in 1 .. Len(L)
  BY HistNow
<1>2. PICK X : Remembers(X, L, n, doc)
  BY HistNow
<1>3. /\ done # << >> /\ done' = Front(done) /\ undone' = <<Last(done)>> \o undone
      /\ doc' = Collected(Undo1(doc, Last(done).cmd), Entries')
  BY DEF Undo
<1>4. /\ Front(done) \in Seq(Logged) /\ <<Last(done)>> \o undone \in Seq(Logged)
      /\ Front(done) \o (<<Last(done)>> \o undone) = done \o undone
      /\ Len(Front(done)) = n - 1 /\ n \in Nat \ {0} /\ Last(done) = done[n]
  BY <1>1, <1>3, LogBack
<1>5. n \in 1 .. n /\ n \in 1 .. Len(L) /\ L[n] = Last(done)
  BY <1>1, <1>4
<1>6. Log' = L /\ Len(done') = n - 1
  BY <1>1, <1>3, <1>4 DEF Log
<1>7. doc' = Collected(e, Entries')
  BY <1>3, <1>5
<1>8. Sound(e)
  <2>1. /\ S \in Seq(Commands) /\ Held = HeldOf(S) /\ Standing(doc, S, n)
    BY <1>1, StripNow
  <2>2. S[n] = c /\ n \in 1 .. Len(S)
    <3>1. StackIsOf(S, done, undone)
      BY <1>1, StackNow
    <3>2. Len(S) = n + Len(undone) /\ Len(undone) \in Nat /\ \A i \in 1 .. n : S[i] = done[i].cmd
      BY <1>1, <3>1 DEF StackIsOf
    <3> HIDE DEF S
    <3> QED
      BY <1>1, <1>4, <1>5, <3>2
  <2> HIDE DEF S
  <2>3. Undo1(doc, S[n]) \in Good(Waiting(S, n - 1), Made(S), Growing(S))
    BY <2>1, <2>2, UndoStands
  <2> QED
    BY <2>2, <2>3 DEF Good
<1>9. \A k \in 1 .. Len(L) : L[k] \in Entries'
  <2>1. \A k \in 1 .. Len(done' \o undone') : (done' \o undone')[k] \in Range(done') \cup Range(undone')
    BY <1>3, <1>4, LogIs
  <2>2. done' \o undone' = L
    BY <1>6 DEF Log
  <2> QED
    BY <2>1, <2>2 DEF Entries
<1>10. doc' \in Docs /\ Sound(doc')
  <2>1. Types' /\ Ready'
    BY DEF StripInv
  <2> QED
    BY <2>1 DEF Types, Ready, Standing, Good
<1> HIDE DEF n, L, S
<1>11. e = Undo1(doc, L[n].cmd)
  OBVIOUS
<1> HIDE DEF c, e
<1>12. /\ e \in Whole /\ AllPrepared(e, L) /\ Remembers(X, L, n - 1, e)
       /\ L[n].before = View(e) /\ L[n].after = View(doc)
  <2>1. n \in 1 .. Len(L)
    BY <1>5
  <2>2. L \in Seq(Logged) /\ doc \in Whole /\ AllPrepared(doc, L)
    BY <1>1
  <2> QED
    BY ONLY <1>2, <1>8, <1>11, <2>1, <2>2, BackOne
<1> DEFINE d == doc'
           entries == Entries'
           m == n - 1
<1>13. d \in Whole /\ AllPrepared(d, L) /\ Remembers(X, L, m, d) /\ View(d) = View(e)
  <2>1. d = Collected(e, entries) /\ d \in Docs /\ Sound(d)
    BY <1>7, <1>10
  <2>2. \A k \in 1 .. Len(L) : L[k] \in entries
    BY <1>9
  <2>3. L \in Seq(Logged) /\ e \in Whole /\ AllPrepared(e, L) /\ Remembers(X, L, m, e)
    BY <1>1, <1>12
  <2> HIDE DEF d, entries, m
  <2> QED
    BY ONLY <2>1, <2>2, <2>3, CollectedStill
<1>14. HistInv'
  BY <1>6, <1>13, HistThen
<1> QED
  BY <1>5, <1>12, <1>13, <1>14

\* QUndoStack::redo()
LEMMA RedoHist ==
    ASSUME HistInv, Redo, StripInv'
    PROVE  /\ HistInv' /\ View(doc') = Head(undone).after /\ Head(undone).before = View(doc)
           /\ done' = Append(done, Head(undone)) /\ undone' = Tail(undone) /\ undone # << >>
<1> DEFINE n == Len(done)
           k == n + 1
           L == Log
           c == L[k].cmd
           e == Redo1(doc, c)
           S == Stack
<1>1. /\ StripInv /\ doc \in Whole /\ done \in Seq(Logged) /\ undone \in Seq(Logged)
      /\ L \in Seq(Logged) /\ L = done \o undone /\ n \in Nat /\ AllPrepared(doc, L)
      /\ \A i \in 1 .. Len(undone) : L[n + i] = undone[i]
      /\ Len(L) = n + Len(undone)
  BY HistNow
<1>2. PICK X : Remembers(X, L, n, doc)
  BY HistNow
<1>3. undone # << >>
  BY DEF Redo
<1>4. /\ Append(done, Head(undone)) \in Seq(Logged) /\ Tail(undone) \in Seq(Logged)
      /\ Append(done, Head(undone)) \o Tail(undone) = done \o undone
      /\ Len(Append(done, Head(undone))) = n + 1 /\ Head(undone) = undone[1] /\ 1 \in 1 .. Len(undone)
  BY <1>1, <1>3, LogForth
<1>5. L[k] = Head(undone) /\ k \in 1 .. Len(L)
  <2>1. Len(undone) \in Nat /\ Len(undone) >= 1
    BY <1>1, <1>4
  <2>2. k \in 1 .. Len(L)
    BY <1>1, <2>1
  <2> HIDE DEF L, n
  <2> QED
    BY <1>1, <1>4, <2>2
<1>6. /\ done' = Append(done, [Head(undone) EXCEPT !.cmd = Kept(e, c)]) /\ undone' = Tail(undone)
      /\ doc' = Collected(e, Entries')
  BY <1>5 DEF Redo
<1>7. Sound(e)
  <2>1. /\ S \in Seq(Commands) /\ Held = HeldOf(S) /\ Standing(doc, S, n)
    BY <1>1, StripNow
  <2>2. S[n + 1] = c /\ n \in 0 .. (Len(S) - 1)
    <3>1. StackIsOf(S, done, undone)
      BY <1>1, StackNow
    <3>2. /\ Len(S) = n + Len(undone) /\ Len(undone) \in Nat
          /\ \A i \in 1 .. Len(undone) : S[n + i] = undone[i].cmd
      BY <1>1, <3>1 DEF StackIsOf
    <3>3. c = undone[1].cmd
      BY <1>4, <1>5
    <3> HIDE DEF S, c
    <3> QED
      BY <1>1, <1>4, <3>2, <3>3
  <2> HIDE DEF S
  <2>3. Redo1(doc, S[n + 1]) \in Good(Waiting(S, n + 1), Made(S), Growing(S))
    BY <2>1, <2>2, RedoStands
  <2> QED
    BY <2>2, <2>3 DEF Good
<1>8. doc' \in Docs /\ Sound(doc')
  <2>1. Types' /\ Ready'
    BY DEF StripInv
  <2> QED
    BY <2>1 DEF Types, Ready, Standing, Good
<1>9. Head(undone) \in Logged
  BY <1>1, <1>4
<1> HIDE DEF L, S
<1>10. e = Redo1(doc, L[k].cmd) /\ c = L[k].cmd
  OBVIOUS
<1>11. k = n + 1
  OBVIOUS
<1> HIDE DEF c, e, n, k
<1>12. /\ e \in Whole /\ AllPrepared(e, L) /\ Remembers(X, L, k, e)
       /\ L[k].before = View(doc) /\ L[k].after = View(e) /\ Kept(e, c) = c
  <2>1. /\ e \in Whole /\ AllPrepared(e, L) /\ Remembers(X, L, k, e)
        /\ L[k].before = View(doc) /\ L[k].after = View(e) /\ Kept(e, L[k].cmd) = L[k].cmd
    <3>1. e = Redo1(doc, L[k].cmd)
      BY <1>10
    <3>2. k \in 1 .. Len(L)
      BY <1>5
    <3>3. L \in Seq(Logged) /\ doc \in Whole /\ AllPrepared(doc, L)
      BY <1>1
    <3> QED
      BY ONLY <1>2, <1>7, <1>11, <3>1, <3>2, <3>3, ForthOne
  <2> QED
    BY <1>10, <2>1
<1>13. done' = Append(done, Head(undone))
  <2>1. [Head(undone) EXCEPT !.cmd = c] = Head(undone)
    BY <1>5, <1>9, <1>10 DEF Logged
  <2> QED
    BY <1>6, <1>12, <2>1
<1>14. Log' = L /\ Len(done') = k
  <2>1. Len(done') = k
    BY <1>4, <1>11, <1>13 DEF n
  <2>2. done' \o undone' = L
    BY <1>1, <1>4, <1>6, <1>13
  <2> QED
    BY <2>1, <2>2 DEF Log
<1>15. \A i \in 1 .. Len(L) : L[i] \in Entries'
  <2>1. \A i \in 1 .. Len(done' \o undone') : (done' \o undone')[i] \in Range(done') \cup Range(undone')
    BY <1>4, <1>6, <1>13, LogIs
  <2>2. done' \o undone' = L
    BY <1>14 DEF Log
  <2> QED
    BY <2>1, <2>2 DEF Entries
<1> DEFINE d == doc'
           entries == Entries'
<1>16. d \in Whole /\ AllPrepared(d, L) /\ Remembers(X, L, k, d) /\ View(d) = View(e)
  <2>1. d = Collected(e, entries) /\ d \in Docs /\ Sound(d)
    BY <1>6, <1>8
  <2>2. \A i \in 1 .. Len(L) : L[i] \in entries
    BY <1>15
  <2>3. L \in Seq(Logged) /\ e \in Whole /\ AllPrepared(e, L) /\ Remembers(X, L, k, e)
    BY <1>1, <1>12
  <2> HIDE DEF d, entries
  <2> QED
    BY ONLY <2>1, <2>2, <2>3, CollectedStill
<1>17. HistInv'
  BY <1>14, <1>16, HistThen
<1> QED
  BY <1>3, <1>5, <1>6, <1>12, <1>13, <1>16, <1>17

\* QUndoStack::push()
LEMMA PushHist ==
    ASSUME HistInv, Pushes, StripInv'
    PROVE  /\ HistInv' /\ undone' = << >>
           /\ \E f : done' = Append(done, f) /\ f.before = View(doc)
<1> DEFINE n == Len(done)
           L == Log
<1>1. PICK c, b : Push(c) /\ GoesTo(c, b, Redo1(doc, c))
  BY DEF Pushes
<1> DEFINE e == Redo1(doc, c)
           f == [cmd |-> b, before |-> View(doc), after |-> View(e)]
           M == Append(done, f)
           m == n + 1
<1>2. /\ StripInv /\ doc \in Whole /\ done \in Seq(Logged) /\ L \in Seq(Logged) /\ n \in Nat
      /\ AllPrepared(doc, L) /\ \A i \in 1 .. n : L[i] = done[i] /\ i \in 1 .. Len(L)
      /\ \A i \in 1 .. Len(L) : L[i] \in Entries
  BY HistNow
<1>3. PICK X : Remembers(X, L, n, doc)
  BY HistNow
<1>4. GoesTo(c, b, e) /\ b = Kept(e, c) /\ e \in Whole
  BY <1>1 DEF GoesTo
<1>5. done' = M /\ undone' = << >> /\ doc' = Collected(e, Range(done'))
  <2> HIDE DEF e
  <2>1. e = Redo1(doc, c)
    BY DEF e
  <2> QED
    BY <1>1, <1>4, <2>1 DEF Push
<1>6. doc' \in Docs /\ Sound(doc') /\ M \in Seq(Logged)
  <2>1. Types' /\ Ready'
    BY DEF StripInv
  <2> QED
    BY <1>5, <2>1 DEF Types, Ready, Standing, Good
<1> HIDE DEF L, e
<1>7. f.cmd = b /\ f.before = View(doc) /\ f.after = View(e)
  OBVIOUS
<1> HIDE DEF f
<1>8. Len(M) = m /\ M[m] = f /\ \A i \in 1 .. n : M[i] = L[i]
  BY <1>2
<1>9. Range(M) = Entries'
  <2>1. Range(<< >>) = {}
    BY DEF Range
  <2> QED
    BY <1>5, <2>1 DEF Entries
<1>10. \A i \in 1 .. Len(M) : M[i] \in Range(M)
  BY <1>6, RangeOf
<1>11. Log' = M /\ Len(done') = m
  <2>1. M \o << >> = M
    BY <1>6, ConcatEmptySeq
  <2> QED
    BY <1>5, <1>8, <2>1 DEF Log
<1>12. m = n + 1
  OBVIOUS
<1> HIDE DEF M, m, n
<1>13. AllPrepared(e, M) /\ \E Y : Remembers(Y, M, m, e)
  <2>1. \A i \in 1 .. n : L[i] \in Entries
    BY <1>2
  <2>2. M[m].cmd = b /\ M[m].before = View(doc) /\ M[m].after = View(e)
    BY <1>7, <1>8
  <2>3. M \in Seq(Logged) /\ Len(M) = n + 1 /\ \A i \in 1 .. n : M[i] = L[i]
    BY <1>6, <1>8, <1>12
  <2>4. doc \in Whole /\ L \in Seq(Logged) /\ AllPrepared(doc, L) /\ GoesTo(c, b, e)
    BY <1>2, <1>4
  <2> QED
    BY ONLY <1>3, <1>12, <2>1, <2>2, <2>3, <2>4, PushOne
<1>14. PICK Y : Remembers(Y, M, m, e)
  BY <1>13
<1> DEFINE d == doc'
           entries == Range(M)
<1>15. d \in Whole /\ AllPrepared(d, M) /\ Remembers(Y, M, m, d)
  <2>1. d = Collected(e, entries) /\ d \in Docs /\ Sound(d)
    BY <1>5, <1>6
  <2>2. \A i \in 1 .. Len(M) : M[i] \in entries
    BY <1>10
  <2>3. M \in Seq(Logged) /\ e \in Whole /\ AllPrepared(e, M) /\ Remembers(Y, M, m, e)
    BY <1>4, <1>6, <1>13, <1>14
  <2> HIDE DEF d, entries
  <2> QED
    BY ONLY <2>1, <2>2, <2>3, CollectedStill
<1>16. HistInv'
  BY <1>11, <1>15, HistThen
<1> QED
  BY <1>5, <1>7, <1>16 DEF M

\* A project has been read: there is no command, and no bridge.
LEMMA InitHist ==
    ASSUME Init
    PROVE  HistInv
<1>1. PICK layout \in Layouts : doc = Loaded(layout)
  BY DEF Init
<1>2. done = << >> /\ undone = << >>
  BY DEF Init
<1>3. /\ doc \in Docs /\ Sound(doc) /\ \A b \in Bridges : doc.on[b] = {}
      /\ \A p \in Phys : doc.strip[p] # None => p \in Range(doc.order[doc.strip[p]])
      /\ \A r \in Reals : doc.phys[r] # None => r \in Range(doc.levels[doc.phys[r]])
  BY <1>1, LoadedIs
<1>4. doc \in Whole
  BY <1>3 DEF Whole, Owned
<1>5. Tidy(doc)
  BY <1>3 DEF Tidy, Joins, OneBridge
<1>6. Log = << >> /\ Len(Log) = 0 /\ Len(done) = 0
  BY <1>2 DEF Log
<1> DEFINE X == [k \in 1 .. (Len(Log) + 1) |-> doc]
<1>7. Remembers(X, Log, Len(done), doc)
  <2>1. X \in [1 .. (Len(Log) + 1) -> Whole]
    BY <1>4
  <2>2. X[Len(done) + 1] = doc
    BY <1>6
  <2>3. \A k \in 1 .. (Len(Log) + 1) : Tidy(X[k])
    BY <1>5
  <2>4. LooksLike(doc, doc)
    BY DEF LooksLike, SamePlaces, SameLevels, SameBridges
  <2>5. 1 .. Len(Log) = {} /\ Len(done) \in 0 .. Len(Log)
    BY <1>6
  <2> HIDE DEF X
  <2> QED
    BY <2>1, <2>2, <2>3, <2>4, <2>5 DEF Remembers
<1>8. AllPrepared(doc, Log)
  BY <1>6 DEF AllPrepared
<1> QED
  BY <1>4, <1>7, <1>8, InitStrip DEF HistInv

\* Each step of such a user keeps the invariant.
LEMMA HistKept ==
    ASSUME HistInv, KeepsTerminals, Next
    PROVE  /\ HistInv' /\ (Pushes \/ Undo \/ Redo) /\ StripInv'
<1>1. StripInv /\ doc \in Whole /\ Tidy(doc)
  BY HistNow
<1>2. Plain
  BY KeepingPlain
<1>3. StripInv'
  BY <1>1, <1>2, NextKeeps
<1>4. Pushes \/ Undo \/ Redo
  BY <1>1, NextIs
<1> QED
  BY <1>3, <1>4, PushHist, UndoHist, RedoHist

\* A step that changes nothing does.
LEMMA HistStutters ==
    ASSUME HistInv, UNCHANGED vars
    PROVE  HistInv'
<1>1. doc' = doc /\ done' = done /\ undone' = undone /\ habit' = habit
  BY DEF vars
<1>2. Types /\ OnlyGiven /\ SparesNowhere /\ Ready
  BY DEF HistInv, StripInv
<1>3. Entries' = Entries /\ Stack' = Stack /\ Log' = Log
  BY <1>1 DEF Entries, Stack, Log
<1>4. UnusedSpare' = UnusedSpare
  BY <1>1, <1>3 DEF UnusedSpare
<1>5. Types' /\ OnlyGiven'
  BY <1>1, <1>2, <1>3 DEF Types, OnlyGiven
<1>6. SparesNowhere' /\ Ready'
  BY <1>1, <1>2, <1>3, <1>4 DEF SparesNowhere, Ready
<1>7. StripInv'
  BY <1>5, <1>6 DEF StripInv
<1>8. doc \in Whole /\ AllPrepared(doc, Log)
  BY DEF HistInv
<1>9. PICK X : Remembers(X, Log, Len(done), doc)
  BY DEF HistInv
<1>10. Len(done') = Len(done)
  BY <1>1
<1> QED
  BY <1>1, <1>3, <1>7, <1>8, <1>9, <1>10, HistThen

\* Whatever such a user does, takes back and makes again, the strips look
\* like what the commands that are done made of the loaded project, each of
\* them from what it was made for (the undo commands of
\* sources/TerminalStrip/UndoCommand).
THEOREM HistoryInvariant == Spec => [](KeepsTerminals => HistInv)
<1>1. Init => (KeepsTerminals => HistInv)
  BY InitHist
<1>2. (KeepsTerminals => HistInv) /\ [Next]_vars => (KeepsTerminals => HistInv)'
  <2> SUFFICES ASSUME KeepsTerminals => HistInv, [Next]_vars, KeepsTerminals' PROVE HistInv'
    OBVIOUS
  <2>1. habit' = habit
    BY HabitStays DEF vars
  <2>2. KeepsTerminals
    BY <2>1 DEF KeepsTerminals, Careful
  <2> QED
    BY <2>2, HistKept, HistStutters
<1> QED
  BY <1>1, <1>2, PTL DEF Spec

\* Whatever such a user moves, sorts, makes, bridges, undoes and redoes, what
\* a bridge joins is in the strip of the bridge, and no terminal is on two
\* bridges (BridgesOnStrip; TerminalStrip::setBridge(), unBridge(),
\* isBridgeable() and canUnBridge() in
\* sources/TerminalStrip/terminalstrip.cpp).
THEOREM BridgesStayOnStrip == Spec => [](KeepsTerminals => BridgesOnStrip)
<1>1. (KeepsTerminals => HistInv) => (KeepsTerminals => BridgesOnStrip)
  <2> SUFFICES ASSUME KeepsTerminals, HistInv PROVE BridgesOnStrip
    OBVIOUS
  <2>1. doc \in Docs /\ (\A b \in Bridges : Joins(doc, b)) /\ OneBridge(doc)
    BY HistNow DEF Tidy, Whole
  <2>2. InItsStrip
    BY <2>1 DEF InItsStrip, Joins
  <2> QED
    BY <2>1, <2>2 DEF BridgesOnStrip, OneBridge
<1> QED
  BY <1>1, HistoryInvariant, PTL

\* What the strips looked like before each command,
Befores(a) == [i \in DOMAIN a |-> a[i].before]
\* and after each.
Afters(a) == [i \in DOMAIN a |-> a[i].after]

\* One more command is done,
LEMMA BeforesAppend ==
    ASSUME NEW a \in Seq(Logged), NEW f
    PROVE  Befores(Append(a, f)) = Append(Befores(a), f.before)
BY DEF Befores

\* one less is;
LEMMA BeforesFront ==
    ASSUME NEW a \in Seq(Logged), a # << >>
    PROVE  /\ Befores(a) # << >> /\ Last(Befores(a)) = Last(a).before
           /\ Befores(Front(a)) = Front(Befores(a))
<1>1. Len(a) \in Nat \ {0} /\ DOMAIN a = 1 .. Len(a) /\ Len(a) \in 1 .. Len(a)
  OBVIOUS
<1>2. Len(Befores(a)) = Len(a) /\ DOMAIN Befores(a) = DOMAIN a /\ \A i \in DOMAIN a : Befores(a)[i] = a[i].before
  BY <1>1 DEF Befores
<1>3. Befores(a) # << >> /\ Last(Befores(a)) = Last(a).before
  BY <1>1, <1>2 DEF Last
<1>4. SubSeq(a, 1, Len(a) - 1) = [i \in 1 .. (Len(a) - 1) |-> a[i]]
  BY <1>1
<1> QED
  BY <1>1, <1>2, <1>3, <1>4 DEF Front, Befores

\* one less can be redone,
LEMMA AftersTail ==
    ASSUME NEW b \in Seq(Logged), b # << >>
    PROVE  /\ Afters(b) # << >> /\ Head(Afters(b)) = Head(b).after
           /\ Afters(Tail(b)) = Tail(Afters(b))
BY DEF Afters

\* one more can.
LEMMA AftersCons ==
    ASSUME NEW b \in Seq(Logged), NEW f \in Logged
    PROVE  Afters(<<f>> \o b) = <<f.after>> \o Afters(b)
BY DEF Afters

\* What the undo history of such a user is.
LEMMA HistoryIs ==
    ASSUME KeepsTerminals
    PROVE  /\ (IF Careful THEN View(doc) ELSE << >>) = View(doc)
           /\ (IF Careful THEN [i \in DOMAIN done |-> done[i].before] ELSE << >>) = Befores(done)
           /\ (IF Careful THEN [i \in DOMAIN undone |-> undone[i].after] ELSE << >>) = Afters(undone)
BY DEF KeepsTerminals, Befores, Afters

\* What a step of such a user makes of the strips and the history.
LEMMA HistSteps ==
    ASSUME HistInv, KeepsTerminals, Next
    PROVE  \/ /\ Befores(done') = Append(Befores(done), View(doc))
              /\ Afters(undone') = << >>
           \/ /\ Befores(done) # << >>
              /\ View(doc') = Last(Befores(done))
              /\ Befores(done') = Front(Befores(done))
              /\ Afters(undone') = <<View(doc)>> \o Afters(undone)
           \/ /\ Afters(undone) # << >>
              /\ View(doc') = Head(Afters(undone))
              /\ Befores(done') = Append(Befores(done), View(doc))
              /\ Afters(undone') = Tail(Afters(undone))
<1>1. StripInv' /\ (Pushes \/ Undo \/ Redo)
  BY HistKept
<1>2. done \in Seq(Logged) /\ undone \in Seq(Logged)
  BY HistNow
<1>3. CASE Pushes
  <2>1. undone' = << >> /\ \E f : done' = Append(done, f) /\ f.before = View(doc)
    BY <1>1, <1>3, PushHist
  <2>2. PICK f : done' = Append(done, f) /\ f.before = View(doc)
    BY <2>1
  <2>3. Befores(done') = Append(Befores(done), View(doc))
    BY <1>2, <2>2, BeforesAppend
  <2>4. Afters(undone') = << >>
    BY <2>1 DEF Afters
  <2> QED
    BY <2>3, <2>4
<1>4. CASE Undo
  <2>1. View(doc') = Last(done).before /\ Last(done).after = View(doc)
    BY <1>1, <1>4, UndoHist
  <2>2. done # << >> /\ done' = Front(done) /\ undone' = <<Last(done)>> \o undone
    BY <1>4 DEF Undo
  <2>3. Last(done) \in Logged
    BY <1>2, <2>2 DEF Last
  <2>4. /\ Befores(done) # << >> /\ Last(Befores(done)) = Last(done).before
        /\ Befores(Front(done)) = Front(Befores(done))
    BY <1>2, <2>2, BeforesFront
  <2>5. Afters(undone') = <<Last(done).after>> \o Afters(undone)
    BY <1>2, <2>2, <2>3, AftersCons
  <2> QED
    BY <2>1, <2>2, <2>4, <2>5
<1>5. CASE Redo
  <2>1. /\ View(doc') = Head(undone).after /\ Head(undone).before = View(doc)
        /\ done' = Append(done, Head(undone)) /\ undone' = Tail(undone) /\ undone # << >>
    BY <1>1, <1>5, RedoHist
  <2>2. /\ Afters(undone) # << >> /\ Head(Afters(undone)) = Head(undone).after
        /\ Afters(Tail(undone)) = Tail(Afters(undone))
    BY <1>2, <2>1, AftersTail
  <2>3. Befores(done') = Append(Befores(done), View(doc))
    BY <1>2, <2>1, BeforesAppend
  <2> QED
    BY <2>1, <2>2, <2>3
<1> QED
  BY <1>1, <1>3, <1>4, <1>5

\* Whatever such a user does, undo takes the last command back and redo makes
\* it again, and each time the strips, their terminals, levels and bridges
\* are what they were then (UndoRestores, a refinement of UndoHistory; the
\* undo() and redo() of MoveTerminalCommand, SortTerminalStripCommand,
\* AddSpareTerminalsCommand, ChangeTerminalLevel, BridgeTerminalsCommand,
\* UnBridgeTerminalsCommand and AddTerminalStripCommand in
\* sources/TerminalStrip/UndoCommand).
THEOREM UndoTakesBack == Spec /\ KeepsTerminals => UndoRestores
<1>1. Init => H!Init
  <2> SUFFICES ASSUME Init PROVE H!Init
    OBVIOUS
  <2>1. done = << >> /\ undone = << >>
    BY DEF Init
  <2> QED
    BY <2>1 DEF H!Init
<1>2. KeepsTerminals /\ [Next]_vars => KeepsTerminals'
  BY HabitStays DEF KeepsTerminals, Careful, vars
<1>3. KeepsTerminals /\ HistInv /\ [Next]_vars => [H!Next]_(H!history)
  <2> SUFFICES ASSUME KeepsTerminals, HistInv, [Next]_vars PROVE [H!Next]_(H!history)
    OBVIOUS
  <2>1. Careful /\ Careful'
    BY <1>2 DEF KeepsTerminals
  <2>2. CASE UNCHANGED vars
    BY <2>2 DEF vars, H!history, Careful
  <2>3. CASE Next
    <3> DEFINE then == IF Careful THEN View(doc) ELSE << >>
               past == IF Careful THEN [i \in DOMAIN done |-> done[i].before] ELSE << >>
               future == IF Careful THEN [i \in DOMAIN undone |-> undone[i].after] ELSE << >>
    <3>1. then = View(doc) /\ past = Befores(done) /\ future = Afters(undone)
      BY HistoryIs
    <3>2. (then)' = View(doc')
      BY <2>1
    <3>3. (past)' = Befores(done')
      BY <2>1 DEF Befores
    <3>4. (future)' = Afters(undone')
      BY <2>1 DEF Afters
    <3> HIDE DEF then, past, future
    <3>5. \/ (past)' = Append(past, then) /\ (future)' = << >>
          \/ /\ past # << >> /\ (then)' = Last(past) /\ (past)' = Front(past)
             /\ (future)' = <<then>> \o future
          \/ /\ future # << >> /\ (then)' = Head(future)
             /\ (past)' = Append(past, then) /\ (future)' = Tail(future)
      BY <2>3, <3>1, <3>2, <3>3, <3>4, HistSteps
    <3>6. \A x : H!Last(x) = Last(x) /\ H!Front(x) = Front(x)
      BY DEF H!Last, H!Front, Last, Front
    <3>7. H!Next
      BY ONLY <3>5, <3>6 DEF then, past, future, H!Next, H!Change, H!Undo, H!Redo
    <3> QED
      BY <3>7
  <2> QED
    BY <2>2, <2>3
<1>4. Spec => [](KeepsTerminals => HistInv)
  BY HistoryInvariant
<1> QED
  BY <1>1, <1>2, <1>3, <1>4, PTL DEF Spec, UndoRestores, H!Spec

============================================================================
