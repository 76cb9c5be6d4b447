-------------------------- MODULE AssemblerProofs --------------------------
(***************************************************************************)
(* Proofs about Assembler for every set of statements, texts of every      *)
(* length that keep to KeepsRules, and every size of memory.               *)
(***************************************************************************)
EXTENDS Assembler, SequenceTheorems, FiniteSetTheorems, TLAPS

-----------------------------------------------------------------------------
(* Tables, and definitions that look one step back.                        *)

\* A set that has 0 and the successor of each of its members has every
\* natural number.
LEMMA NatSetInduction ==
    ASSUME NEW S, 0 \in S, \A n \in Nat : n \in S => n + 1 \in S
    PROVE  Nat \subseteq S
<1> DEFINE T == Nat \ S
<1>1. SUFFICES ASSUME T # {} PROVE FALSE
  OBVIOUS
<1>2. PICK x \in T : \A y \in T : ~ (<<y, x>> \in OpToRel(<, Nat))
  BY <1>1, NatLessThanWellFounded, WFMin
<1>3. \A y \in T : ~ (y < x)
  BY <1>2 DEF OpToRel
<1>4. x # 0 /\ x - 1 \in Nat
  OBVIOUS
<1>5. x - 1 \notin T
  BY <1>3, <1>4
<1> QED BY <1>4, <1>5

Partial(X, Y) == UNION {[S -> Y] : S \in SUBSET X}

LEMMA PartialDef ==
    ASSUME NEW X, NEW Y, NEW f
    PROVE  f \in Partial(X, Y) <=>
             /\ f = [x \in DOMAIN f |-> f[x]]
             /\ DOMAIN f \subseteq X /\ \A x \in DOMAIN f : f[x] \in Y
<1>1. ASSUME f \in Partial(X, Y)
      PROVE  f = [x \in DOMAIN f |-> f[x]] /\ DOMAIN f \subseteq X /\ \A x \in DOMAIN f : f[x] \in Y
  BY <1>1 DEF Partial
<1>2. ASSUME f = [x \in DOMAIN f |-> f[x]], DOMAIN f \subseteq X, \A x \in DOMAIN f : f[x] \in Y
      PROVE  f \in Partial(X, Y)
  <2>1. f \in [DOMAIN f -> Y]
    BY <1>2
  <2>2. DOMAIN f \in SUBSET X
    BY <1>2
  <2> QED BY <2>1, <2>2 DEF Partial
<1> QED BY <1>1, <1>2

\* h is f before g; h is f with y at x.
Joins(h, f, g) ==
    /\ DOMAIN h = DOMAIN f \cup DOMAIN g
    /\ \A z \in DOMAIN f : h[z] = f[z]
    /\ \A z \in DOMAIN g \ DOMAIN f : h[z] = g[z]
Extends(h, f, x, y) ==
    /\ DOMAIN h = DOMAIN f \cup {x} /\ h[x] = y
    /\ \A z \in DOMAIN f \ {x} : h[z] = f[z]

LEMMA OverIsTable ==
    ASSUME NEW X, NEW Y, NEW f \in Partial(X, Y), NEW g \in Partial(X, Y)
    PROVE  Over(f, g) \in Partial(X, Y) /\ Joins(Over(f, g), f, g)
<1> DEFINE h == Over(f, g)
<1>1. h = [z \in DOMAIN h |-> h[z]] /\ Joins(h, f, g)
  BY DEF Over, Joins
<1> HIDE DEF h
<1>2. /\ DOMAIN f \subseteq X /\ \A z \in DOMAIN f : f[z] \in Y
      /\ DOMAIN g \subseteq X /\ \A z \in DOMAIN g : g[z] \in Y
  BY PartialDef
<1>3. DOMAIN h \subseteq X /\ \A z \in DOMAIN h : h[z] \in Y
  BY <1>1, <1>2 DEF Joins
<1>4. h \in Partial(X, Y)
  BY <1>1, <1>3, PartialDef
<1> QED BY <1>1, <1>4 DEF h

LEMMA StoreIsTable ==
    ASSUME NEW X, NEW Y, NEW f \in Partial(X, Y), NEW x \in X, NEW y \in Y
    PROVE  Store(f, x, y) \in Partial(X, Y) /\ Extends(Store(f, x, y), f, x, y)
<1> DEFINE g == [z \in {x} |-> y]
<1>1. g = [z \in DOMAIN g |-> g[z]] /\ DOMAIN g = {x} /\ g[x] = y
  OBVIOUS
<1> HIDE DEF g
<1>2. g \in Partial(X, Y)
  BY <1>1, PartialDef
<1>3. Store(f, x, y) = Over(g, f)
  BY DEF Store, g
<1>4. Over(g, f) \in Partial(X, Y) /\ Joins(Over(g, f), g, f)
  BY <1>2, OverIsTable
<1> QED BY <1>1, <1>3, <1>4 DEF Joins, Extends

-----------------------------------------------------------------------------
(* The tables the model computes one entry after the other.                *)

Step(kind, t, prev, i) ==
    CASE kind = "place" ->
           (IF i = 1 THEN 0
            ELSE LET s == t[i - 1] IN
                 CASE s.op = "org" -> s.n
                   [] s.op = "align" -> prev + ((-prev) % s.n)
                   [] OTHER -> prev + SizeOf(s))
      [] kind = "open" ->
           (IF i = 1 THEN <<0>>
            ELSE CASE t[i - 1].op = "proc" -> Append(prev, i - 1)
                   [] t[i - 1].op = "endp" /\ Len(prev) > 1 -> Front(prev)
                   [] OTHER -> prev)
      [] kind = "space" ->
           (IF i = 1 THEN <<"">>
            ELSE LET s == t[i - 1] IN
                 CASE s.op = "namespace" -> Append(Front(prev), s.name)
                   [] s.op = "push" -> Append(prev, s.name)
                   [] s.op = "pop" /\ Len(prev) > 1 -> Front(prev)
                   [] OTHER -> prev)
      [] kind = "value" ->
           [o \in 0..Len(t) |->
               IF o = 0 THEN 0
               ELSE IF i = 0 \/ t[o].value = None THEN None
               ELSE LET rest == prev[t[o].value.lab]
                    IN  IF rest = None THEN None ELSE t[o].value.k + rest]

Stepping(f, kind, t, lo, n) == f = [i \in lo..n |-> Step(kind, t, f[i - 1], i)]
StartsAlone(kind, t, lo) == \A p, q : Step(kind, t, p, lo) = Step(kind, t, q, lo)

\* Such a table exists when its first entry does not look back.
LEMMA SteppingDefined ==
    ASSUME NEW kind, NEW t, NEW lo \in Int, NEW n \in Int, n >= lo, StartsAlone(kind, t, lo)
    PROVE  \E f : Stepping(f, kind, t, lo, n)
<1> DEFINE Upto(f, k) == \A i \in lo..(lo + k) : f[i] = Step(kind, t, f[i - 1], i)
           K == {k \in Nat : \E f : Upto(f, k)}
<1>1. 0 \in K
  <2> DEFINE f == [i \in {lo} |-> Step(kind, t, 0, lo)]
  <2>1. ASSUME NEW i \in lo..(lo + 0) PROVE f[i] = Step(kind, t, f[i - 1], i)
    <3>1. i = lo
      OBVIOUS
    <3> QED BY <3>1 DEF StartsAlone
  <2> HIDE DEF f
  <2> QED BY <2>1
<1>2. ASSUME NEW k \in Nat, k \in K PROVE k + 1 \in K
  <2>1. PICK f : Upto(f, k)
    BY <1>2
  <2> DEFINE g == [i \in lo..(lo + (k + 1)) |->
                      IF i <= lo + k THEN f[i] ELSE Step(kind, t, f[lo + k], i)]
  <2>2. ASSUME NEW i \in lo..(lo + (k + 1)) PROVE g[i] = Step(kind, t, g[i - 1], i)
    <3>1. CASE i = lo
      <4>1. i \in lo..(lo + k) /\ g[i] = f[i]
        BY <3>1
      <4>2. f[i] = Step(kind, t, f[i - 1], i)
        BY <2>1, <4>1
      <4> HIDE DEF g
      <4> QED BY <3>1, <4>1, <4>2 DEF StartsAlone
    <3>2. CASE i > lo /\ i <= lo + k
      <4>1. i \in lo..(lo + k) /\ g[i] = f[i] /\ g[i - 1] = f[i - 1]
        BY <3>2
      <4>2. f[i] = Step(kind, t, f[i - 1], i)
        BY <2>1, <4>1
      <4> HIDE DEF g
      <4> QED BY <4>1, <4>2
    <3>3. CASE i = lo + (k + 1)
      <4>1. g[i] = Step(kind, t, f[lo + k], i) /\ g[i - 1] = f[lo + k]
        BY <3>3
      <4> HIDE DEF g
      <4> QED BY <4>1
    <3> QED BY <3>1, <3>2, <3>3
  <2> HIDE DEF g
  <2> QED BY <2>2
<1>3. n - lo \in K
  <2> HIDE DEF K
  <2>1. Nat \subseteq K
    BY <1>1, <1>2, NatSetInduction
  <2> QED BY <2>1
<1>4. PICK f : \A i \in lo..n : f[i] = Step(kind, t, f[i - 1], i)
  <2>1. lo + (n - lo) = n
    OBVIOUS
  <2> QED BY <1>3, <2>1
<1> DEFINE g == [i \in lo..n |-> f[i]]
<1>5. ASSUME NEW i \in lo..n PROVE g[i] = Step(kind, t, g[i - 1], i)
  <2>1. f[i] = Step(kind, t, f[i - 1], i) /\ g[i] = f[i]
    BY <1>4
  <2>2. CASE i = lo
    <3> HIDE DEF g
    <3> QED BY <2>1, <2>2 DEF StartsAlone
  <2>3. CASE i # lo
    <3>1. g[i - 1] = f[i - 1]
      BY <2>3
    <3> HIDE DEF g
    <3> QED BY <2>1, <3>1
  <2> QED BY <2>2, <2>3
<1>6. g = [i \in lo..n |-> g[i]]
  OBVIOUS
<1> HIDE DEF g
<1>7. g = [i \in lo..n |-> Step(kind, t, g[i - 1], i)]
  BY <1>5, <1>6, Zenon
<1> QED BY <1>7 DEF Stepping

LEMMA PlacesStep ==
    ASSUME NEW t, Len(t) \in Nat
    PROVE  Stepping(Places(t), "place", t, 1, Len(t) + 1)
<1> DEFINE Body(P) == P = [i \in 1..(Len(t) + 1) |->
            IF i = 1 THEN 0
            ELSE LET s == t[i - 1] IN
                 CASE s.op = "org" -> s.n
                   [] s.op = "align" -> P[i - 1] + ((-P[i - 1]) % s.n)
                   [] OTHER -> P[i - 1] + SizeOf(s)]
<1>1. Places(t) = CHOOSE P : Body(P)
  BY DEF Places
<1>2. \A P : Body(P) <=> Stepping(P, "place", t, 1, Len(t) + 1)
  BY DEF Stepping, Step
<1>3. StartsAlone("place", t, 1)
  BY DEF StartsAlone, Step
<1>4. \E P : Body(P)
  <2>1. 1 \in Int /\ Len(t) + 1 \in Int /\ Len(t) + 1 >= 1
    OBVIOUS
  <2>2. \E f : Stepping(f, "place", t, 1, Len(t) + 1)
    BY <1>3, <2>1, SteppingDefined
  <2> HIDE DEF Body
  <2> QED BY <1>2, <2>2
<1> HIDE DEF Body
<1> QED BY <1>1, <1>2, <1>4

LEMMA OpensStep ==
    ASSUME NEW t, Len(t) \in Nat
    PROVE  Stepping(Opens(t), "open", t, 1, Len(t) + 1)
<1> DEFINE Body(O) == O = [i \in 1..(Len(t) + 1) |->
            IF i = 1 THEN <<0>>
            ELSE CASE t[i - 1].op = "proc" -> Append(O[i - 1], i - 1)
                   [] t[i - 1].op = "endp" /\ Len(O[i - 1]) > 1 -> Front(O[i - 1])
                   [] OTHER -> O[i - 1]]
<1>1. Opens(t) = CHOOSE O : Body(O)
  BY DEF Opens
<1>2. \A O : Body(O) <=> Stepping(O, "open", t, 1, Len(t) + 1)
  BY DEF Stepping, Step
<1>3. StartsAlone("open", t, 1)
  BY DEF StartsAlone, Step
<1>4. \E O : Body(O)
  <2>1. 1 \in Int /\ Len(t) + 1 \in Int /\ Len(t) + 1 >= 1
    OBVIOUS
  <2>2. \E f : Stepping(f, "open", t, 1, Len(t) + 1)
    BY <1>3, <2>1, SteppingDefined
  <2> HIDE DEF Body
  <2> QED BY <1>2, <2>2
<1> HIDE DEF Body
<1> QED BY <1>1, <1>2, <1>4

LEMMA SpacesStep ==
    ASSUME NEW t, Len(t) \in Nat
    PROVE  Stepping(Spaces(t), "space", t, 1, Len(t) + 1)
<1> DEFINE Body(S) == S = [i \in 1..(Len(t) + 1) |->
            IF i = 1 THEN <<"">>
            ELSE LET s == t[i - 1] IN
                 CASE s.op = "namespace" -> Append(Front(S[i - 1]), s.name)
                   [] s.op = "push" -> Append(S[i - 1], s.name)
                   [] s.op = "pop" /\ Len(S[i - 1]) > 1 -> Front(S[i - 1])
                   [] OTHER -> S[i - 1]]
<1>1. Spaces(t) = CHOOSE S : Body(S)
  BY DEF Spaces
<1>2. \A S : Body(S) <=> Stepping(S, "space", t, 1, Len(t) + 1)
  BY DEF Stepping, Step
<1>3. StartsAlone("space", t, 1)
  BY DEF StartsAlone, Step
<1>4. \E S : Body(S)
  <2>1. 1 \in Int /\ Len(t) + 1 \in Int /\ Len(t) + 1 >= 1
    OBVIOUS
  <2>2. \E f : Stepping(f, "space", t, 1, Len(t) + 1)
    BY <1>3, <2>1, SteppingDefined
  <2> HIDE DEF Body
  <2> QED BY <1>2, <2>2
<1> HIDE DEF Body
<1> QED BY <1>1, <1>2, <1>4

LEMMA LabelValueStep ==
    ASSUME NEW t, Len(t) \in Nat
    PROVE  \E V : Stepping(V, "value", t, 0, Len(t)) /\ LabelValue(t) = V[Len(t)]
<1> DEFINE Body(V) == V = [d \in 0..Len(t) |->
            [o \in 0..Len(t) |->
               IF o = 0 THEN 0
               ELSE IF d = 0 \/ t[o].value = None THEN None
               ELSE LET rest == V[d - 1][t[o].value.lab]
                    IN  IF rest = None THEN None ELSE t[o].value.k + rest]]
<1>1. LabelValue(t) = (CHOOSE V : Body(V))[Len(t)]
  BY DEF LabelValue
<1>2. \A V : Body(V) <=> Stepping(V, "value", t, 0, Len(t))
  BY DEF Stepping, Step
<1>3. StartsAlone("value", t, 0)
  BY DEF StartsAlone, Step
<1>4. \E V : Body(V)
  BY <1>2, <1>3, SteppingDefined
<1> HIDE DEF Body
<1> QED BY <1>1, <1>2, <1>4

-----------------------------------------------------------------------------
(* The memory, typed.                                                      *)

\* Every name and namespace of the statements.
Stmts == UNION {P.of : P \in Pools}
Words == {""} \cup {s.name : s \in Stmts} \cup {s.of : s \in Stmts}
Keys == Words \X Words
Names == Keys \cup Words
Values == {None} \cup Exprs
Dirs == {"", "B", "F"}
Labels == [name : Names, value : Values, local : BOOLEAN, line : Nat, dir : Dirs, ns : Words]
Instrs == [id : Int, size : Nat, arg : Exprs, rel : BOOLEAN, data : BOOLEAN, pending : BOOLEAN]
Temps == [name : Words, line : Nat, ns : Words, value : Nat]
Tables == Partial(Keys, Nat)

Messages ==
    {"none", "already defined", "ENDP without PROC", "missing ENDP", "undefined LOCAL",
     "undefined GLOBAL", "undefined label", "undefined temporary label", "jump out of range",
     "ORG out of range", "no namespace to pop"}

Memory ==
    [index : Nat, bytes : Partial(Nat, Cell), orgs : Partial(Nat, Seq(Instrs)),
     labels : Seq(Labels), scopes : Seq(Tables), tmp : SUBSET Temps, waiting : Seq(Nat),
     ns : Words, nsStack : Seq(Words), err : Messages]

\* What an operation leaves alone.
SameNames(n, m) == n.scopes = m.scopes /\ n.labels = m.labels /\ n.waiting = m.waiting
SameCode(n, m) == n.orgs = m.orgs /\ n.bytes = m.bytes /\ n.index = m.index
SameRest(n, m) == n.tmp = m.tmp /\ n.ns = m.ns /\ n.nsStack = m.nsStack

\* n is m after the message e.
Complains(n, m, e) ==
    /\ n \in Memory /\ SameNames(n, m) /\ SameCode(n, m) /\ SameRest(n, m)
    /\ n.err = IF m.err = "none" THEN e ELSE m.err

LEMMA ErrorFields ==
    ASSUME NEW m \in Memory, NEW e \in Messages
    PROVE  Complains(Error(m, e), m, e)
BY DEF Error, Memory, SameNames, SameCode, SameRest, Complains

\* n is m with the label o given the value v.
Defines(n, m, o, v) ==
    /\ n \in Memory
    /\ n.labels = [m.labels EXCEPT ![o].value = v]
    /\ n.scopes = m.scopes /\ n.waiting = m.waiting
    /\ SameCode(n, m) /\ SameRest(n, m)
    /\ n.err = IF Defined(m, o) /\ m.err = "none" THEN "already defined" ELSE m.err

LEMMA DefineFields ==
    ASSUME NEW m \in Memory, NEW o \in 1..Len(m.labels), NEW v \in Values
    PROVE  Defines(Define(m, o, v), m, o, v)
<1> DEFINE r == IF Defined(m, o) THEN Error(m, "already defined") ELSE m
<1>1. /\ r \in Memory /\ SameNames(r, m) /\ SameCode(r, m) /\ SameRest(r, m)
      /\ r.err = IF Defined(m, o) /\ m.err = "none" THEN "already defined" ELSE m.err
  <2>1. CASE Defined(m, o)
    <3>1. "already defined" \in Messages
      BY DEF Messages
    <3>2. Complains(Error(m, "already defined"), m, "already defined")
      BY <3>1, ErrorFields
    <3> QED BY <2>1, <3>2 DEF Complains, Defined
  <2>2. CASE ~Defined(m, o)
    BY <2>2 DEF SameNames, SameCode, SameRest, Defined
  <2> HIDE DEF r
  <2> QED BY <2>1, <2>2 DEF Defined
<1>2. Define(m, o, v) = [r EXCEPT !.labels[o].value = v]
  BY DEF Define
<1> HIDE DEF r
<1> DEFINE q == [r.labels EXCEPT ![o].value = v]
<1>3. q \in Seq(Labels) /\ q = [m.labels EXCEPT ![o].value = v]
  <2>1. r.labels = m.labels /\ m.labels \in Seq(Labels)
    BY <1>1 DEF SameNames, Memory
  <2>2. [m.labels[o] EXCEPT !.value = v] \in Labels
    <3>1. m.labels[o] \in Labels
      BY <2>1, ElementOfSeq
    <3> QED BY <3>1 DEF Labels
  <2> QED BY <2>1, <2>2, ExceptSeq
<1>4. Define(m, o, v) = [r EXCEPT !.labels = q]
  BY <1>1, <1>2 DEF Memory
<1> HIDE DEF q
<1> QED BY <1>1, <1>3, <1>4 DEF Memory, SameNames, SameCode, SameRest, Defines

\* n is m with a new label, named in the innermost scope.
Declares(n, m, name, label) ==
    /\ n \in Memory
    /\ n.labels = Append(m.labels, label)
    /\ n.scopes = [m.scopes EXCEPT ![Len(m.scopes)] = Store(Here(m), name, Len(m.labels) + 1)]
    /\ n.waiting = m.waiting /\ SameCode(n, m) /\ SameRest(n, m) /\ n.err = m.err

LEMMA AddLabelFields ==
    ASSUME NEW m \in Memory, m.scopes # << >>, NEW name \in Keys, NEW label \in Labels
    PROVE  Declares(AddLabel(m, name, label), m, name, label)
<1>1. Len(m.scopes) \in DOMAIN m.scopes /\ Here(m) \in Tables
  BY DEF Memory, Here
<1> DEFINE f == Store(Here(m), name, Len(m.labels) + 1)
           q == Append(m.labels, label)
           sc == [m.scopes EXCEPT ![Len(m.scopes)] = f]
<1>2. f \in Tables
  <2>1. Len(m.labels) + 1 \in Nat
    BY DEF Memory
  <2> QED BY <1>1, <2>1, StoreIsTable DEF Tables
<1>3. q \in Seq(Labels)
  BY DEF Memory
<1>4. AddLabel(m, name, label) = [m EXCEPT !.labels = q, !.scopes = sc]
  BY DEF AddLabel, Here
<1>5. sc \in Seq(Tables)
  BY <1>1, <1>2, ExceptSeq DEF Memory
<1> HIDE DEF f, q, sc
<1> QED BY <1>2, <1>3, <1>4, <1>5 DEF Memory, SameCode, SameRest, f, q, sc, Declares

-----------------------------------------------------------------------------
(* A text and one more statement.                                          *)

Texts == Seq(Stmts)
Place(t) == Places(t)[Len(t) + 1]
Open(t) == Opens(t)[Len(t) + 1]
Space(t) == Spaces(t)[Len(t) + 1]

\* g has the first n entries of f, and the next one after them.
Agrees(g, f, kind, u, n) ==
    /\ \A i \in 1..n : g[i] = f[i]
    /\ g[n + 1] = Step(kind, u, f[n], n + 1)

LEMMA StepsAgree ==
    ASSUME NEW t \in Texts, NEW s \in Stmts, NEW u, u = Append(t, s),
           NEW kind \in {"place", "open", "space"},
           NEW f, Stepping(f, kind, t, 1, Len(t) + 1),
           NEW g, Stepping(g, kind, u, 1, Len(u) + 1)
    PROVE  Agrees(g, f, kind, u, Len(t) + 1)
<1> DEFINE N == Len(t)
           K == {k \in Nat : k <= N => g[k + 1] = f[k + 1]}
<1>1. /\ N \in Nat /\ Len(u) = N + 1 /\ \A i \in 1..N : u[i] = t[i]
  BY DEF Texts
<1>2. \A i \in 1..(N + 1) : f[i] = Step(kind, t, f[i - 1], i)
  BY Zenon DEF Stepping
<1>3. \A i \in 1..(N + 2) : g[i] = Step(kind, u, g[i - 1], i)
  <2>1. Len(u) + 1 = N + 2
    BY <1>1
  <2> HIDE DEF N
  <2> QED BY <2>1, Zenon DEF Stepping
<1> HIDE DEF N
<1>4. ASSUME NEW i \in 1..(N + 1), NEW p PROVE Step(kind, u, p, i) = Step(kind, t, p, i)
  <2>1. CASE i = 1
    BY <2>1 DEF Step
  <2>2. CASE i # 1
    <3>1. u[i - 1] = t[i - 1]
      BY <1>1, <2>2
    <3> QED BY <3>1 DEF Step
  <2> QED BY <2>1, <2>2
<1>5. 0 \in K
  <2>1. 1 \in 1..(N + 1) /\ 1 \in 1..(N + 2)
    BY <1>1
  <2>2. f[1] = Step(kind, t, f[1 - 1], 1) /\ g[1] = Step(kind, u, g[1 - 1], 1)
    BY <1>2, <1>3, <2>1
  <2>3. Step(kind, u, g[1 - 1], 1) = Step(kind, t, f[1 - 1], 1)
    BY DEF Step
  <2> QED BY <2>2, <2>3
<1>6. ASSUME NEW k \in Nat, k \in K PROVE k + 1 \in K
  <2> SUFFICES ASSUME k + 1 <= N PROVE g[k + 1 + 1] = f[k + 1 + 1]
    OBVIOUS
  <2>1. g[k + 1] = f[k + 1]
    BY <1>1, <1>6
  <2> DEFINE i == k + 1 + 1
  <2>2. i \in 1..(N + 1) /\ i \in 1..(N + 2) /\ i - 1 = k + 1
    BY <1>1
  <2> HIDE DEF i
  <2>3. f[i] = Step(kind, t, f[i - 1], i) /\ g[i] = Step(kind, u, g[i - 1], i)
    BY <1>2, <1>3, <2>2
  <2>4. g[i] = f[i]
    BY <1>4, <2>1, <2>2, <2>3
  <2> QED BY <2>4 DEF i
<1>7. Nat \subseteq K
  <2> HIDE DEF K
  <2> QED BY <1>5, <1>6, NatSetInduction
<1>8. ASSUME NEW i \in 1..(N + 1) PROVE g[i] = f[i]
  <2>1. i - 1 \in Nat /\ i - 1 <= N /\ i - 1 + 1 = i
    BY <1>1
  <2>2. i - 1 \in K
    BY <1>7, <2>1
  <2> QED BY <2>1, <2>2
<1>9. g[N + 2] = Step(kind, u, f[N + 1], N + 2)
  <2>1. N + 1 \in 1..(N + 1) /\ N + 2 \in 1..(N + 2) /\ (N + 2) - 1 = N + 1
    BY <1>1
  <2> QED BY <1>3, <1>8, <2>1
<1>10. (N + 1) + 1 = N + 2
  BY <1>1
<1> QED BY <1>8, <1>9, <1>10 DEF N, Agrees

\* u is t with s at its end.
Grown(u, t, s) ==
    /\ u \in Texts /\ Len(t) \in Nat /\ Len(u) = Len(t) + 1 /\ u[Len(u)] = s
    /\ \A i \in 1..Len(t) : u[i] = t[i]
    /\ \A i \in 1..Len(u) : Places(u)[i] = Places(t)[i]
    /\ \A i \in 1..Len(u) : Opens(u)[i] = Opens(t)[i]
    /\ \A i \in 1..Len(u) : Spaces(u)[i] = Spaces(t)[i]
    /\ Place(u) = Step("place", u, Place(t), Len(u) + 1)
    /\ Open(u) = Step("open", u, Open(t), Len(u) + 1)
    /\ Space(u) = Step("space", u, Space(t), Len(u) + 1)

LEMMA TextGrows ==
    ASSUME NEW t \in Texts, NEW s \in Stmts, NEW u, u = Append(t, s)
    PROVE  Grown(u, t, s)
<1>1. /\ u \in Texts /\ Len(t) \in Nat /\ Len(u) = Len(t) + 1 /\ u[Len(u)] = s
      /\ \A i \in 1..Len(t) : u[i] = t[i]
  BY DEF Texts
<1>2. Len(t) \in Nat /\ Len(u) \in Nat
  BY <1>1
<1>3. /\ \A i \in 1..Len(u) : Places(u)[i] = Places(t)[i]
      /\ Place(u) = Step("place", u, Place(t), Len(u) + 1)
  <2>1. Stepping(Places(t), "place", t, 1, Len(t) + 1) /\ Stepping(Places(u), "place", u, 1, Len(u) + 1)
    BY <1>2, PlacesStep, Zenon
  <2>2. Agrees(Places(u), Places(t), "place", u, Len(t) + 1)
    BY <2>1, StepsAgree
  <2> QED BY <1>1, <2>2 DEF Place, Agrees
<1>4. /\ \A i \in 1..Len(u) : Opens(u)[i] = Opens(t)[i]
      /\ Open(u) = Step("open", u, Open(t), Len(u) + 1)
  <2>1. Stepping(Opens(t), "open", t, 1, Len(t) + 1) /\ Stepping(Opens(u), "open", u, 1, Len(u) + 1)
    BY <1>2, OpensStep, Zenon
  <2>2. Agrees(Opens(u), Opens(t), "open", u, Len(t) + 1)
    BY <2>1, StepsAgree
  <2> QED BY <1>1, <2>2 DEF Open, Agrees
<1>5. /\ \A i \in 1..Len(u) : Spaces(u)[i] = Spaces(t)[i]
      /\ Space(u) = Step("space", u, Space(t), Len(u) + 1)
  <2>1. Stepping(Spaces(t), "space", t, 1, Len(t) + 1) /\ Stepping(Spaces(u), "space", u, 1, Len(u) + 1)
    BY <1>2, SpacesStep, Zenon
  <2>2. Agrees(Spaces(u), Spaces(t), "space", u, Len(t) + 1)
    BY <2>1, StepsAgree
  <2> QED BY <1>1, <2>2 DEF Space, Agrees
<1> QED BY <1>1, <1>3, <1>4, <1>5 DEF Grown

\* The PROCs open at line i: the text itself, then each later than the last.
OpenStack(o, i) ==
    /\ o \in Seq(Nat) /\ Len(o) >= 1 /\ o[1] = 0
    /\ \A j, k \in 1..Len(o) : j < k => o[j] < o[k]
    /\ \A k \in 1..Len(o) : o[k] < i

LEMMA FrontOf ==
    ASSUME NEW S, NEW q \in Seq(S), Len(q) >= 1
    PROVE  /\ Front(q) \in Seq(S) /\ Len(Front(q)) = Len(q) - 1
           /\ \A k \in 1..(Len(q) - 1) : Front(q)[k] = q[k]
<1> DEFINE n == Len(q) - 1
           f == SubSeq(q, 1, n)
<1>1. Len(q) \in Nat /\ n \in Nat /\ n \in Int /\ 1 \in Int
  OBVIOUS
<1>2. \A i \in 1..n : q[i] \in S
  <2>1. \A i \in 1..n : i \in 1..Len(q)
    BY <1>1
  <2> QED BY <2>1, ElementOfSeq
<1>3. Front(q) = f
  BY DEF Front
<1> HIDE DEF n
<1>4. /\ f \in Seq(S) /\ Len(f) = IF 1 <= n THEN n - 1 + 1 ELSE 0
      /\ \A i \in 1..(n - 1 + 1) : f[i] = q[1 + i - 1]
  <2>1. \A i \in 1..n : q[i] \in S
    BY <1>2
  <2>2. f \in Seq(S)
    BY <1>1, <2>1, SubSeqProperties
  <2>3. Len(f) = IF 1 <= n THEN n - 1 + 1 ELSE 0
    BY <1>1, <2>1, SubSeqProperties
  <2>4. \A i \in 1..(n - 1 + 1) : f[i] = q[1 + i - 1]
    BY <1>1, <2>1, SubSeqProperties
  <2> QED BY <2>2, <2>3, <2>4
<1> HIDE DEF f
<1>5. Len(f) = n
  BY <1>1, <1>4
<1>6. ASSUME NEW k \in 1..n PROVE f[k] = q[k]
  <2>1. k \in 1..(n - 1 + 1) /\ 1 + k - 1 = k
    BY <1>1
  <2> QED BY <1>4, <2>1
<1> QED BY <1>3, <1>4, <1>5, <1>6 DEF n

LEMMA OpenStep ==
    ASSUME NEW t \in Texts, NEW i \in 2..(Len(t) + 1), NEW o, OpenStack(o, i - 1)
    PROVE  OpenStack(Step("open", t, o, i), i)
<1>1. Len(t) \in Nat /\ i \in Nat /\ i >= 2 /\ i - 1 \in Nat
  BY DEF Texts
<1>2. o \in Seq(Nat) /\ Len(o) \in Nat
  BY DEF OpenStack
<1>3. CASE t[i - 1].op = "proc"
  <2> DEFINE p == Append(o, i - 1)
  <2>1. /\ p \in Seq(Nat) /\ Len(p) = Len(o) + 1 /\ p[Len(o) + 1] = i - 1
        /\ \A k \in 1..Len(o) : p[k] = o[k]
    BY <1>1, <1>2
  <2>2. Step("open", t, o, i) = p
    BY <1>1, <1>3 DEF Step
  <2> HIDE DEF p
  <2>3. OpenStack(p, i)
    <3>1. p[1] = 0
      BY <1>2, <2>1 DEF OpenStack
    <3>2. ASSUME NEW k \in 1..Len(p) PROVE p[k] < i
      <4>1. CASE k \in 1..Len(o)
        <5>1. o[k] \in Nat /\ o[k] < i - 1
          BY <1>2, <4>1, ElementOfSeq DEF OpenStack
        <5> QED BY <1>1, <2>1, <4>1, <5>1
      <4>2. CASE k = Len(o) + 1
        BY <1>1, <2>1, <4>2
      <4> QED BY <1>2, <2>1, <4>1, <4>2
    <3>3. ASSUME NEW j \in 1..Len(p), NEW k \in 1..Len(p), j < k PROVE p[j] < p[k]
      <4>1. CASE k \in 1..Len(o)
        <5>1. j \in 1..Len(o)
          BY <1>2, <2>1, <3>3, <4>1
        <5>2. o[j] < o[k]
          BY <3>3, <4>1, <5>1 DEF OpenStack
        <5> QED BY <2>1, <4>1, <5>1, <5>2
      <4>2. CASE k = Len(o) + 1
        <5>1. j \in 1..Len(o) /\ p[j] = o[j] /\ o[j] < i - 1
          BY <1>2, <2>1, <3>3, <4>2 DEF OpenStack
        <5> QED BY <2>1, <4>2, <5>1
      <4> QED BY <1>2, <2>1, <4>1, <4>2
    <3> QED BY <1>2, <2>1, <3>1, <3>2, <3>3 DEF OpenStack
  <2> QED BY <2>2, <2>3
<1>4. CASE t[i - 1].op = "endp" /\ Len(o) > 1
  <2> DEFINE p == Front(o)
  <2>1. p \in Seq(Nat) /\ Len(p) = Len(o) - 1 /\ \A k \in 1..Len(p) : p[k] = o[k]
    BY <1>2, <1>4, FrontOf
  <2>2. Step("open", t, o, i) = p
    BY <1>1, <1>4 DEF Step
  <2> HIDE DEF p
  <2>3. OpenStack(p, i)
    <3>1. \A k \in 1..Len(p) : k \in 1..Len(o)
      BY <1>2, <2>1
    <3>2. Len(p) >= 1
      BY <1>2, <1>4, <2>1
    <3>3. p[1] = 0
      <4>1. 1 \in 1..Len(p)
        BY <1>2, <2>1, <3>2
      <4> QED BY <2>1, <4>1 DEF OpenStack
    <3>4. ASSUME NEW k \in 1..Len(p) PROVE p[k] < i
      <4>1. o[k] \in Nat /\ o[k] < i - 1
        BY <1>2, <3>1, ElementOfSeq DEF OpenStack
      <4> QED BY <1>1, <2>1, <4>1
    <3>5. \A j, k \in 1..Len(p) : j < k => p[j] < p[k]
      <4>1. \A j, k \in 1..Len(p) : j < k => o[j] < o[k]
        BY <3>1 DEF OpenStack
      <4> QED BY <2>1, <4>1
    <3> QED BY <2>1, <3>2, <3>3, <3>4, <3>5 DEF OpenStack
  <2> QED BY <2>2, <2>3
<1>5. CASE ~(t[i - 1].op = "proc") /\ ~(t[i - 1].op = "endp" /\ Len(o) > 1)
  <2>1. Step("open", t, o, i) = o
    BY <1>1, <1>5 DEF Step
  <2>2. ASSUME NEW k \in 1..Len(o) PROVE o[k] < i
    <3>1. o[k] \in Nat /\ o[k] < i - 1
      BY <1>2, ElementOfSeq DEF OpenStack
    <3> QED BY <1>1, <3>1
  <2> QED BY <2>1, <2>2 DEF OpenStack
<1> QED BY <1>3, <1>4, <1>5

LEMMA SpaceStep ==
    ASSUME NEW t \in Texts, NEW i \in 2..(Len(t) + 1), NEW o \in Seq(Words), Len(o) >= 1
    PROVE  Step("space", t, o, i) \in Seq(Words) /\ Len(Step("space", t, o, i)) >= 1
<1>1. Len(t) \in Nat /\ i \in Nat /\ i >= 2 /\ i - 1 \in 1..Len(t)
  BY DEF Texts
<1>2. t[i - 1] \in Stmts
  BY <1>1, ElementOfSeq DEF Texts
<1>3. t[i - 1].name \in Words
  BY <1>2 DEF Words
<1> DEFINE f == Front(o)
           w == t[i - 1].name
           k == t[i - 1].op
<1>4. f \in Seq(Words) /\ Len(f) = Len(o) - 1 /\ Len(o) \in Nat /\ w \in Words
  BY <1>3, FrontOf
<1>5. i # 1
  BY <1>1
<1>6. CASE k = "namespace"
  <2>1. Step("space", t, o, i) = Append(f, w)
    BY <1>5, <1>6 DEF Step
  <2> HIDE DEF f, w
  <2>2. Append(f, w) \in Seq(Words) /\ Len(Append(f, w)) = Len(f) + 1
    BY <1>4, AppendProperties
  <2> QED BY <1>4, <2>1, <2>2
<1>7. CASE k = "push"
  <2>1. Step("space", t, o, i) = Append(o, w)
    BY <1>5, <1>7 DEF Step
  <2> HIDE DEF f, w
  <2> DEFINE a == Append(o, w)
  <2>2. a \in Seq(Words) /\ Len(a) = Len(o) + 1
    BY <1>4, AppendProperties
  <2>3. Step("space", t, o, i) = a
    BY <2>1
  <2> HIDE DEF a
  <2>4. a \in Seq(Words) /\ Len(a) >= 1
    BY <1>4, <2>2
  <2> QED BY <2>3, <2>4
<1>8. CASE k = "pop" /\ Len(o) > 1
  <2>1. Step("space", t, o, i) = f
    BY <1>5, <1>8 DEF Step
  <2> HIDE DEF f, w
  <2> QED BY <1>4, <1>8, <2>1
<1>9. CASE k # "namespace" /\ k # "push" /\ ~(k = "pop" /\ Len(o) > 1)
  <2>1. Step("space", t, o, i) = o
    BY <1>5, <1>9 DEF Step
  <2> HIDE DEF f, w
  <2> QED BY <1>4, <2>1
<1> QED BY <1>6, <1>7, <1>8, <1>9

LEMMA SizeIsNat ==
    ASSUME NEW s \in Stmts
    PROVE  s.n \in Nat /\ SizeOf(s) \in Nat /\ (s.op = "align" => s.n > 1) /\ s.join \in BOOLEAN
<1>1. s.n \in Nat /\ (s.op = "align" => s.n > 1) /\ s.join \in BOOLEAN
  BY PoolsAssumption DEF Stmts
<1> QED BY <1>1 DEF SizeOf

\* ALIGN goes up by less than its number.
LEMMA AlignUp ==
    ASSUME NEW p \in Nat, NEW n \in Nat, n > 1
    PROVE  (-p) % n \in Nat /\ (-p) % n = (n - (p % n)) % n
<1> DEFINE q == p \div n
           r == p % n
           u == (-p) % n
           v == (-p) \div n
<1>1. q \in Nat /\ r \in Nat /\ r < n /\ p = n * q + r
  OBVIOUS
<1>2. u \in Nat /\ u < n /\ v \in Int /\ -p = n * v + u
  OBVIOUS
<1> HIDE DEF q, r, u, v
<1>3. n * (q + v) = -(r + u)
  BY <1>1, <1>2
<1> DEFINE w == q + v
<1>4. w \in Int /\ n * w = -(r + u)
  BY <1>1, <1>2, <1>3
<1> HIDE DEF w
<1>5. w = 0 \/ w = -1
  <2>1. CASE w >= 1
    <3>1. n * w >= n
      BY <1>4, <2>1
    <3> QED BY <1>1, <1>2, <1>4, <3>1
  <2>2. CASE w <= -2
    <3>1. n * w <= -(n + n)
      BY <1>4, <2>2
    <3> QED BY <1>1, <1>2, <1>4, <3>1
  <2> QED BY <1>4, <2>1, <2>2
<1>6. u = IF r = 0 THEN 0 ELSE n - r
  <2>1. CASE w = 0
    <3>1. n * w = 0
      BY <2>1
    <3> QED BY <1>1, <1>2, <1>4, <3>1
  <2>2. CASE w = -1
    <3>1. n * w = -n
      BY <2>2
    <3> QED BY <1>1, <1>2, <1>4, <3>1
  <2> QED BY <1>5, <2>1, <2>2
<1>7. (n - r) % n = IF r = 0 THEN 0 ELSE n - r
  <2>1. CASE r = 0
    BY <2>1
  <2>2. CASE r # 0
    <3>1. n - r \in 0..(n - 1)
      BY <1>1, <2>2
    <3> QED BY <3>1, <2>2
  <2> QED BY <2>1, <2>2
<1> QED BY <1>2, <1>6, <1>7 DEF r, u

LEMMA PlaceStep ==
    ASSUME NEW t \in Texts, NEW i \in 2..(Len(t) + 1), NEW p \in Nat
    PROVE  Step("place", t, p, i) \in Nat
<1>1. Len(t) \in Nat /\ i \in Nat /\ i >= 2 /\ i - 1 \in 1..Len(t)
  BY DEF Texts
<1>2. t[i - 1] \in Stmts
  BY <1>1, ElementOfSeq DEF Texts
<1> DEFINE s == t[i - 1]
<1>3. s.n \in Nat /\ SizeOf(s) \in Nat /\ (s.op = "align" => s.n > 1)
  BY <1>2, SizeIsNat
<1>4. s.op = "align" => (-p) % s.n \in Nat
  BY <1>3, AlignUp
<1>5. Step("place", t, p, i) = CASE s.op = "org" -> s.n
                   [] s.op = "align" -> p + ((-p) % s.n)
                   [] OTHER -> p + SizeOf(s)
  BY <1>1 DEF Step
<1> HIDE DEF s
<1> QED BY <1>3, <1>4, <1>5

\* The address, the open PROCs and the namespaces of every line.
LineTyped(t, i) ==
    /\ Places(t)[i] \in Nat /\ OpenStack(Opens(t)[i], i)
    /\ Spaces(t)[i] \in Seq(Words) /\ Len(Spaces(t)[i]) >= 1

LEMMA LinesTyped ==
    ASSUME NEW t \in Texts, NEW i \in 1..(Len(t) + 1)
    PROVE  LineTyped(t, i)
<1> DEFINE N == Len(t)
           K == {k \in Nat : k <= N => LineTyped(t, k + 1)}
<1>1. N \in Nat
  BY DEF Texts
<1>2. /\ \A j \in 1..(N + 1) : Places(t)[j] = Step("place", t, Places(t)[j - 1], j)
      /\ \A j \in 1..(N + 1) : Opens(t)[j] = Step("open", t, Opens(t)[j - 1], j)
      /\ \A j \in 1..(N + 1) : Spaces(t)[j] = Step("space", t, Spaces(t)[j - 1], j)
  <2>1. Stepping(Places(t), "place", t, 1, Len(t) + 1)
    BY <1>1, PlacesStep
  <2>2. Stepping(Opens(t), "open", t, 1, Len(t) + 1)
    BY <1>1, OpensStep
  <2>3. Stepping(Spaces(t), "space", t, 1, Len(t) + 1)
    BY <1>1, SpacesStep
  <2> QED BY <2>1, <2>2, <2>3, Zenon DEF Stepping
<1> HIDE DEF N
<1>3. 0 \in K
  <2>1. 1 \in 1..(N + 1)
    BY <1>1
  <2>2. Places(t)[1] = 0 /\ Opens(t)[1] = <<0>> /\ Spaces(t)[1] = <<"">>
    BY <1>2, <2>1 DEF Step
  <2>3. "" \in Words
    BY DEF Words
  <2> DEFINE e == ""
             o == <<0>>
             w == <<e>>
  <2>4. o \in Seq(Nat) /\ Len(o) = 1 /\ o[1] = 0
    OBVIOUS
  <2>5. Opens(t)[1] = o /\ Spaces(t)[1] = w
    BY <2>2
  <2> HIDE DEF e
  <2>6. w \in Seq(Words) /\ Len(w) = 1
    <3>1. e \in Words
      BY <2>3 DEF e
    <3> DEFINE W == Words
    <3>2. e \in W
      BY <3>1
    <3> HIDE DEF W
    <3>3. <<e>> \in Seq(W) /\ Len(<<e>>) = 1
      BY <3>2
    <3> QED BY <3>3 DEF W
  <2> HIDE DEF o, w
  <2>7. OpenStack(o, 1)
    BY <2>4 DEF OpenStack
  <2>8. LineTyped(t, 1)
    <3>1. Places(t)[1] = 0
      BY <2>2
    <3>2. Places(t)[1] \in Nat
      BY <3>1
    <3> QED BY <2>5, <2>6, <2>7, <3>2 DEF LineTyped
  <2> QED BY <2>8
<1>4. ASSUME NEW k \in Nat, k \in K PROVE k + 1 \in K
  <2> SUFFICES ASSUME k + 1 <= N PROVE LineTyped(t, k + 1 + 1)
    OBVIOUS
  <2> DEFINE j == k + 1 + 1
  <2>1. j \in 1..(N + 1) /\ j \in 2..(Len(t) + 1) /\ j - 1 = k + 1
    BY <1>1 DEF N
  <2>2. LineTyped(t, j - 1)
    BY <1>1, <1>4, <2>1
  <2> HIDE DEF j
  <2>3. /\ Step("place", t, Places(t)[j - 1], j) \in Nat
        /\ OpenStack(Step("open", t, Opens(t)[j - 1], j), j)
    BY <2>1, <2>2, PlaceStep, OpenStep DEF LineTyped
  <2>4. /\ Step("space", t, Spaces(t)[j - 1], j) \in Seq(Words)
        /\ Len(Step("space", t, Spaces(t)[j - 1], j)) >= 1
    BY <2>1, <2>2, SpaceStep DEF LineTyped
  <2>5. LineTyped(t, j)
    BY <1>2, <2>1, <2>3, <2>4 DEF LineTyped
  <2> QED BY <2>5 DEF j
<1>5. Nat \subseteq K
  <2> HIDE DEF K
  <2> QED BY <1>3, <1>4, NatSetInduction
<1>6. i - 1 \in Nat /\ i - 1 <= N /\ i - 1 + 1 = i
  BY <1>1 DEF N
<1>7. i - 1 \in K
  BY <1>5, <1>6
<1> QED BY <1>6, <1>7

-----------------------------------------------------------------------------
(* What the memory keeps.                                                  *)

\* Every value that is known depends on a label of the memory.
Rooted(labels) ==
    \A o \in 1..Len(labels) : labels[o].value # None => labels[o].value.lab \in 0..Len(labels)

\* The value of an expression is a number or not known.
LEMMA LabelValueTyped ==
    ASSUME NEW t \in Seq(Labels), Rooted(t), NEW o \in 0..Len(t)
    PROVE  LabelValue(t)[o] \in Int \cup {None}
<1> DEFINE N == Len(t)
           Some == Int \cup {None}
<1>1. N \in Nat
  OBVIOUS
<1>2. PICK V : Stepping(V, "value", t, 0, N) /\ LabelValue(t) = V[N]
  BY <1>1, LabelValueStep
<1> DEFINE K == {k \in Nat : k <= N => \A p \in 0..N : V[k][p] \in Some}
<1>3. ASSUME NEW k \in 0..N, NEW p \in 0..N
      PROVE  V[k][p] = IF p = 0 THEN 0
               ELSE IF k = 0 \/ t[p].value = None THEN None
               ELSE LET rest == V[k - 1][t[p].value.lab]
                    IN  IF rest = None THEN None ELSE t[p].value.k + rest
  <2>1. V[k] = Step("value", t, V[k - 1], k)
    BY <1>2, Zenon DEF Stepping
  <2> QED BY <2>1 DEF Step
<1>4. ASSUME NEW p \in 1..N, t[p].value # None
      PROVE  t[p].value.lab \in 0..N /\ t[p].value.k \in Int
  <2>1. t[p] \in Labels
    BY ElementOfSeq
  <2>2. t[p].value \in Exprs
    BY <1>4, <2>1 DEF Labels, Values
  <2> QED BY <1>4, <2>2 DEF Exprs, Rooted
<1>5. 0 \in K
  BY <1>1, <1>3
<1>6. ASSUME NEW k \in Nat, k \in K PROVE k + 1 \in K
  <2> SUFFICES ASSUME k + 1 <= N, NEW p \in 0..N PROVE V[k + 1][p] \in Some
    OBVIOUS
  <2>1. \A q \in 0..N : V[k][q] \in Some
    BY <1>1, <1>6
  <2>2. V[k + 1][p] = IF p = 0 THEN 0
               ELSE IF t[p].value = None THEN None
               ELSE LET rest == V[k][t[p].value.lab]
                    IN  IF rest = None THEN None ELSE t[p].value.k + rest
    <3>1. k + 1 \in 0..N /\ k + 1 # 0 /\ (k + 1) - 1 = k
      BY <1>1
    <3> QED BY <1>3, <3>1
  <2>3. CASE p = 0 \/ t[p].value = None
    BY <2>2, <2>3
  <2>4. CASE ~(p = 0 \/ t[p].value = None)
    <3>1. t[p].value.lab \in 0..N /\ t[p].value.k \in Int
      BY <1>1, <1>4, <2>4
    <3>2. V[k][t[p].value.lab] \in Some
      BY <2>1, <3>1
    <3> DEFINE rest == V[k][t[p].value.lab]
               e == t[p].value.k
    <3>3. V[k + 1][p] = IF rest = None THEN None ELSE e + rest
      BY <2>2, <2>4
    <3>4. rest \in Some /\ e \in Int
      BY <3>1, <3>2
    <3> HIDE DEF rest, e
    <3> QED BY <3>3, <3>4
  <2> QED BY <2>3, <2>4
<1>7. Nat \subseteq K
  <2> HIDE DEF K
  <2> QED BY <1>5, <1>6, NatSetInduction
<1>8. N \in K
  BY <1>1, <1>7
<1> QED BY <1>1, <1>2, <1>8

LEMMA TryEvalTyped ==
    ASSUME NEW t \in Seq(Labels), Rooted(t), NEW e \in Exprs, e.lab \in 0..Len(t)
    PROVE  TryEval(t, e) \in Int \cup {None}
<1> DEFINE v == LabelValue(t)[e.lab]
           k == e.k
<1>1. v \in Int \cup {None} /\ k \in Int
  BY LabelValueTyped DEF Exprs
<1>2. TryEval(t, e) = IF v = None THEN None ELSE v + k
  BY DEF TryEval
<1> HIDE DEF v, k
<1> QED BY <1>1, <1>2

LEMMA ArgValTyped ==
    ASSUME NEW m \in Memory, Rooted(m.labels), NEW i \in Instrs, i.arg.lab \in 0..Len(m.labels)
    PROVE  ArgVal(m, i).v \in Int /\ ArgVal(m, i).err \in Messages
<1> DEFINE v == TryEval(m.labels, i.arg)
           e == IF i.rel /\ v \notin -Reach..(Reach - 1) THEN "jump out of range" ELSE "none"
           r == IF v = None THEN [v |-> 0, err |-> "undefined label"] ELSE [v |-> v, err |-> e]
<1>1. v \in Int \cup {None}
  BY TryEvalTyped DEF Memory, Instrs
<1>2. ArgVal(m, i) = r
  BY DEF ArgVal
<1>3. e \in Messages /\ "undefined label" \in Messages
  BY DEF Messages
<1>4. r.v \in Int /\ r.err \in Messages
  <2>1. CASE v = None
    <3> DEFINE w == "undefined label"
    <3>1. r = [v |-> 0, err |-> w] /\ w \in Messages
      BY <1>3, <2>1
    <3> HIDE DEF w, e, v, r
    <3> QED BY <3>1
  <2>2. CASE v # None
    <3>1. r = [v |-> v, err |-> e] /\ v \in Int
      BY <1>1, <2>2
    <3> HIDE DEF e, v
    <3> QED BY <1>3, <3>1
  <2> QED BY <2>1, <2>2
<1> QED BY <1>2, <1>4

\* The scopes name labels of the memory.
ScopesName(m) ==
    /\ m.scopes # << >>
    /\ \A d \in 1..Len(m.scopes) :
         /\ IsFiniteSet(DOMAIN m.scopes[d])
         /\ \A x \in DOMAIN m.scopes[d] : m.scopes[d][x] \in 1..Len(m.labels)

\* A label has a value, or a scope or the list of those that wait still has it.
Held(m, o) ==
    \/ Defined(m, o)
    \/ \E d \in 1..Len(m.scopes) : \E x \in DOMAIN m.scopes[d] : m.scopes[d][x] = o
    \/ \E k \in 1..Len(m.waiting) : m.waiting[k] = o

NamesSound(m) ==
    /\ ScopesName(m) /\ Rooted(m.labels)
    /\ \A k \in 1..Len(m.waiting) : m.waiting[k] \in 1..Len(m.labels)
    /\ \A o \in 1..Len(m.labels) : Held(m, o)

\* Instructions use labels of the memory; the first at an address is a
\* statement of t or three bytes of main, and ends at the index or before it.
Fits(m, t, a) ==
    /\ a + m.orgs[a][1].size <= m.index
    /\ \/ m.orgs[a][1].size = 3
       \/ m.orgs[a][1].id \in 1..Len(t) /\ m.orgs[a][1].size = SizeOf(t[m.orgs[a][1].id])

CodeSound(m, t) ==
    /\ DOMAIN m.orgs \subseteq DOMAIN m.bytes /\ IsFiniteSet(DOMAIN m.bytes)
    /\ DOMAIN m.orgs = {} => DOMAIN m.bytes = {}
    /\ \A a \in DOMAIN m.orgs :
         /\ \A k \in 1..Len(m.orgs[a]) : m.orgs[a][k].arg.lab \in 0..Len(m.labels)
         /\ m.orgs[a] # << >> => Fits(m, t, a)

\* n has the labels of m, none of them forgotten, and perhaps more.
Grows(n, m) ==
    /\ Len(n.labels) \in Nat /\ Len(m.labels) \in Nat /\ Len(m.labels) <= Len(n.labels)
    /\ \A o \in 1..Len(m.labels) :
         /\ Defined(m, o) => Defined(n, o)
         /\ m.labels[o].local => n.labels[o].local

LEMMA GrowsSame == ASSUME NEW m \in Memory, NEW n, n.labels = m.labels PROVE Grows(n, m)
BY DEF Grows, Memory, Defined

LEMMA GrowsOn ==
    ASSUME NEW m, NEW n, NEW q, Grows(n, m), Grows(q, n)
    PROVE  Grows(q, m)
BY DEF Grows

\* What an operation that leaves the names alone, or the code, keeps.
LEMMA NamesKept ==
    ASSUME NEW m, NEW n, NamesSound(m), SameNames(n, m)
    PROVE  NamesSound(n)
BY DEF NamesSound, ScopesName, Held, Defined, SameNames

LEMMA CodeKept ==
    ASSUME NEW m, NEW n, NEW t, CodeSound(m, t), SameCode(n, m), Grows(n, m)
    PROVE  CodeSound(n, t)
<1>1. \A l \in 0..Len(m.labels) : l \in 0..Len(n.labels)
  BY DEF Grows
<1> QED BY <1>1 DEF CodeSound, SameCode, Fits

-----------------------------------------------------------------------------
(* Bytes and instructions.                                                 *)

LEMMA CellsTyped ==
    ASSUME NEW i \in Instrs, NEW v \in Int
    PROVE  Cells(i, v) \in Seq(Cell) /\ Len(Cells(i, v)) = i.size
<1> DEFINE n == i.size
           d == i.id
<1>1. n \in Nat /\ d \in Int
  BY DEF Instrs
<1>2. Cells(i, v) = [k \in 1..n |-> <<d, k, v>>]
  BY DEF Cells
<1>3. \A k \in 1..n : <<d, k, v>> \in Cell
  BY <1>1 DEF Cell
<1> HIDE DEF n, d
<1>4. [k \in 1..n |-> <<d, k, v>>] \in Seq(Cell) /\ Len([k \in 1..n |-> <<d, k, v>>]) = n
  BY <1>1, <1>3
<1> QED BY <1>2, <1>4 DEF n

\* b holds the bytes of a and of the n addresses from "at".
Covers(b, a, at, n) ==
    b \in Partial(Nat, Cell) /\ DOMAIN b = (at..(at + n - 1)) \cup DOMAIN a

LEMMA PutCovers ==
    ASSUME NEW b \in Partial(Nat, Cell), NEW at \in Nat, NEW c \in Seq(Cell)
    PROVE  Covers(Put(b, at, c), b, at, Len(c))
<1> DEFINE n == Len(c)
           D == at..(at + n - 1)
           f == [a \in D |-> c[a - at + 1]]
<1>1. n \in Nat
  OBVIOUS
<1>2. \A a \in D : a \in Nat /\ a - at + 1 \in 1..n
  BY <1>1
<1>3. f = [a \in DOMAIN f |-> f[a]] /\ DOMAIN f = D /\ \A a \in D : f[a] = c[a - at + 1]
  OBVIOUS
<1>4. \A a \in D : f[a] \in Cell
  BY <1>2, <1>3, ElementOfSeq
<1>5. Put(b, at, c) = Over(f, b)
  BY DEF Put
<1> HIDE DEF f, D
<1>6. f \in Partial(Nat, Cell)
  BY <1>2, <1>3, <1>4, PartialDef
<1>7. Over(f, b) \in Partial(Nat, Cell) /\ Joins(Over(f, b), f, b)
  BY <1>6, OverIsTable
<1> QED BY <1>3, <1>5, <1>7 DEF Joins, Covers, D

LEMMA ZeroIsCell == Zero \in Cell
BY DEF Zero, Cell

\* The slot of the index exists, with its byte; nothing else has changed.
Slots(n, m) ==
    /\ n \in Memory /\ SameNames(n, m) /\ SameRest(n, m)
    /\ n.index = m.index /\ n.err = m.err
    /\ DOMAIN n.orgs = DOMAIN m.orgs \cup {m.index}
    /\ \A a \in DOMAIN m.orgs : n.orgs[a] = m.orgs[a]
    /\ m.index \notin DOMAIN m.orgs => n.orgs[m.index] = << >>
    /\ DOMAIN n.bytes = DOMAIN m.bytes \cup (DOMAIN n.orgs \ DOMAIN m.orgs)

LEMMA SetMemorySlotFields ==
    ASSUME NEW m \in Memory
    PROVE  Slots(SetMemorySlot(m), m)
<1>1. CASE m.index \in DOMAIN m.orgs
  BY <1>1 DEF SetMemorySlot, Slots, SameNames, SameRest
<1>2. CASE m.index \notin DOMAIN m.orgs
  <2> DEFINE e == << >>
             p == m.index
             o == Store(m.orgs, p, e)
             b == Store(m.bytes, p, Zero)
  <2>1. e \in Seq(Instrs) /\ p \in Nat
    BY DEF Memory
  <2>2. SetMemorySlot(m) = [m EXCEPT !.orgs = o, !.bytes = b]
    BY <1>2 DEF SetMemorySlot
  <2> HIDE DEF e, p
  <2>3. o \in Partial(Nat, Seq(Instrs)) /\ Extends(o, m.orgs, p, e)
    BY <2>1, StoreIsTable DEF Memory
  <2>4. b \in Partial(Nat, Cell) /\ Extends(b, m.bytes, p, Zero)
    BY <2>1, ZeroIsCell, StoreIsTable DEF Memory
  <2> HIDE DEF o, b
  <2> DEFINE n == SetMemorySlot(m)
  <2>5. /\ n \in Memory /\ SameNames(n, m) /\ SameRest(n, m)
        /\ n.index = m.index /\ n.err = m.err /\ n.orgs = o /\ n.bytes = b
    BY <2>2, <2>3, <2>4 DEF Memory, SameNames, SameRest
  <2> HIDE DEF n
  <2>6. DOMAIN o = DOMAIN m.orgs \cup {p} /\ DOMAIN b = DOMAIN m.bytes \cup {p} /\ o[p] = e
        /\ \A a \in DOMAIN m.orgs \ {p} : o[a] = m.orgs[a]
    BY <2>3, <2>4 DEF Extends
  <2>7. Slots(n, m)
    BY <1>2, <2>5, <2>6 DEF Slots, p, e
  <2> QED BY <2>7 DEF n
<1> QED BY <1>1, <1>2

LEMMA SetMemorySlotSound ==
    ASSUME NEW m \in Memory, NEW t, CodeSound(m, t)
    PROVE  CodeSound(SetMemorySlot(m), t)
<1> DEFINE n == SetMemorySlot(m)
<1>1. Slots(n, m)
  BY SetMemorySlotFields
<1> HIDE DEF n
<1>2. DOMAIN n.orgs \subseteq DOMAIN n.bytes
  BY <1>1 DEF Slots, CodeSound
<1>3. IsFiniteSet(DOMAIN n.bytes)
  <2>1. CASE m.index \in DOMAIN m.orgs
    <3>1. DOMAIN n.bytes = DOMAIN m.bytes
      BY <1>1, <2>1 DEF Slots
    <3> QED BY <3>1 DEF CodeSound
  <2>2. CASE m.index \notin DOMAIN m.orgs
    <3>1. DOMAIN n.bytes = DOMAIN m.bytes \cup {m.index}
      BY <1>1, <2>2 DEF Slots
    <3>2. IsFiniteSet(DOMAIN m.bytes)
      BY DEF CodeSound
    <3> QED BY <3>1, <3>2, FS_AddElement
  <2> QED BY <2>1, <2>2
<1>4. n.labels = m.labels /\ n.index = m.index
  BY <1>1 DEF Slots, SameNames
<1>5. ASSUME NEW a \in DOMAIN n.orgs
      PROVE  /\ \A k \in 1..Len(n.orgs[a]) : n.orgs[a][k].arg.lab \in 0..Len(n.labels)
             /\ n.orgs[a] # << >> => Fits(n, t, a)
  <2>1. CASE a \in DOMAIN m.orgs
    <3>1. n.orgs[a] = m.orgs[a]
      BY <1>1, <2>1 DEF Slots
    <3> QED BY <1>4, <2>1, <3>1 DEF CodeSound, Fits
  <2>2. CASE a \notin DOMAIN m.orgs
    <3>1. n.orgs[a] = << >>
      BY <1>1, <2>2 DEF Slots
    <3>2. \A k : k \notin 1..Len(n.orgs[a])
      BY <3>1
    <3> QED BY <3>1, <3>2
  <2> QED BY <2>1, <2>2
<1>6. DOMAIN n.orgs # {}
  BY <1>1 DEF Slots
<1>7. CodeSound(n, t)
  BY <1>2, <1>3, <1>5, <1>6, Zenon DEF CodeSound
<1> QED BY <1>7 DEF n

\* The instruction is at the index with its bytes, or there is a message.
Assembles(n, m, t, size) ==
    /\ n \in Memory /\ SameNames(n, m) /\ SameRest(n, m) /\ CodeSound(n, t)
    /\ DOMAIN m.bytes \subseteq DOMAIN n.bytes
    /\ n.err = "none" => m.err = "none" /\ n.index = m.index + size
    /\ n.err # "none" => n.index = m.index \/ n.index = m.index + size

LEMMA AddInstructionSound ==
    ASSUME NEW m \in Memory, NEW t, CodeSound(m, t), Rooted(m.labels),
           NEW i \in Instrs, i.arg.lab \in 0..Len(m.labels),
           i.size = 3 \/ (i.id \in 1..Len(t) /\ i.size = SizeOf(t[i.id]))
    PROVE  Assembles(AddInstruction(m, i), m, t, i.size)
<1> DEFINE pending == i.data \/ TryEval(m.labels, i.arg) = None
           val == ArgVal(m, i)
           r == SetMemorySlot(m)
           v == IF pending THEN 0 ELSE val.v
           j == [i EXCEPT !.pending = pending]
           p == m.index
           o == [r.orgs EXCEPT ![p] = Append(@, j)]
           c == Cells(i, v)
           b == Put(r.bytes, p, c)
           x == p + i.size
           n == [r EXCEPT !.orgs = o, !.bytes = b, !.index = x]
<1>1. val.v \in Int /\ val.err \in Messages
  BY ArgValTyped
<1>2. v \in Int
  BY <1>1
<1>3. p \in Nat /\ i.size \in Nat /\ x \in Nat
  BY DEF Memory, Instrs
<1>4. Slots(r, m) /\ CodeSound(r, t)
  BY SetMemorySlotFields, SetMemorySlotSound
<1>5. r.index = p /\ r \in Memory /\ r.labels = m.labels
  BY <1>4 DEF Slots, SameNames
<1>6. j \in Instrs /\ j.size = i.size /\ j.arg = i.arg /\ j.id = i.id
  <2> DEFINE pe == pending
  <2>1. pe \in BOOLEAN
    BY DEF Instrs
  <2>2. j = [i EXCEPT !.pending = pe]
    OBVIOUS
  <2> HIDE DEF pe, j
  <2> QED BY <2>1, <2>2 DEF Instrs
<1>7. AddInstruction(m, i) = IF ~pending /\ val.err # "none" THEN Error(m, val.err) ELSE n
  <2>1. [r EXCEPT !.orgs[m.index] = Append(@, [i EXCEPT !.pending = pending]),
                  !.bytes = Put(@, m.index, Cells(i, IF pending THEN 0 ELSE val.v)),
                  !.index = @ + i.size] = n
    BY <1>5 DEF Memory
  <2> QED BY <2>1 DEF AddInstruction
<1>8. CASE ~pending /\ val.err # "none"
  <2> DEFINE q == Error(m, val.err)
  <2>1. Complains(q, m, val.err)
    BY <1>1, ErrorFields
  <2>2. AddInstruction(m, i) = q
    BY <1>7, <1>8
  <2> HIDE DEF q
  <2>3. q.labels = m.labels
    BY <2>1 DEF Complains, SameNames
  <2>4. CodeSound(q, t)
    BY <2>1, <2>3, CodeKept, GrowsSame DEF Complains
  <2>5. q.err # "none" /\ q.index = m.index
    BY <1>8, <2>1 DEF Complains, SameCode
  <2> QED BY <2>1, <2>2, <2>4, <2>5 DEF Complains, Assembles, SameCode
<1>9. CASE ~(~pending /\ val.err # "none")
  <2>1. AddInstruction(m, i) = n
    BY <1>7, <1>9
  <2> HIDE DEF pending, val, v, j
  <2>2. c \in Seq(Cell) /\ Len(c) = i.size
    BY <1>2, CellsTyped
  <2> HIDE DEF c, r, p, x
  <2>3. Covers(b, r.bytes, p, i.size)
    BY <1>3, <1>5, <2>2, PutCovers DEF Memory
  <2>4. p \in DOMAIN r.orgs
    BY <1>4 DEF Slots, p
  <2>5. r.orgs[p] \in Seq(Instrs)
    BY <1>5, <2>4, PartialDef DEF Memory
  <2>6. /\ DOMAIN o = DOMAIN r.orgs /\ o[p] = Append(r.orgs[p], j)
        /\ \A a \in DOMAIN r.orgs \ {p} : o[a] = r.orgs[a]
        /\ o = [a \in DOMAIN o |-> o[a]]
    BY <1>5, <2>4, PartialDef DEF Memory
  <2> HIDE DEF o
  <2>7. o \in Partial(Nat, Seq(Instrs))
    <3>1. DOMAIN r.orgs \subseteq Nat /\ \A a \in DOMAIN r.orgs : r.orgs[a] \in Seq(Instrs)
      BY <1>5, PartialDef DEF Memory
    <3>2. o[p] \in Seq(Instrs)
      BY <1>6, <2>5, <2>6
    <3>3. \A a \in DOMAIN o : o[a] \in Seq(Instrs)
      BY <2>6, <3>1, <3>2
    <3> QED BY <2>6, <3>1, <3>3, PartialDef
  <2> HIDE DEF b
  <2>8. /\ n \in Memory /\ SameNames(n, r) /\ SameRest(n, r)
        /\ n.orgs = o /\ n.bytes = b /\ n.index = x /\ n.err = r.err
    BY <1>3, <1>5, <2>3, <2>7 DEF Memory, SameNames, SameRest, Covers
  <2> HIDE DEF n
  <2>9. SameNames(n, m) /\ SameRest(n, m) /\ n.err = m.err
    BY <1>4, <2>8 DEF Slots, SameNames, SameRest
  <2>10. CodeSound(n, t)
    <3>1. DOMAIN n.orgs \subseteq DOMAIN n.bytes
      BY <1>4, <2>3, <2>6, <2>8 DEF CodeSound, Covers
    <3>2. IsFiniteSet(DOMAIN n.bytes)
      <4>1. IsFiniteSet(p..(p + i.size - 1))
        BY <1>3, FS_Interval
      <4>2. IsFiniteSet(DOMAIN r.bytes)
        BY <1>4 DEF CodeSound
      <4>3. IsFiniteSet((p..(p + i.size - 1)) \cup DOMAIN r.bytes)
        BY <4>1, <4>2, FS_Union
      <4>4. DOMAIN n.bytes = (p..(p + i.size - 1)) \cup DOMAIN r.bytes
        BY <2>3, <2>8 DEF Covers
      <4> QED BY <4>3, <4>4
    <3>3. n.labels = r.labels /\ n.labels = m.labels /\ r.index = p /\ n.index = p + i.size
      BY <1>5, <2>8 DEF SameNames, x
    <3>4. ASSUME NEW a \in DOMAIN n.orgs
          PROVE  /\ \A k \in 1..Len(n.orgs[a]) : n.orgs[a][k].arg.lab \in 0..Len(n.labels)
                 /\ n.orgs[a] # << >> => Fits(n, t, a)
      <4>1. a \in Nat /\ a \in DOMAIN r.orgs
        <5>1. a \in DOMAIN r.orgs
          BY <2>6, <2>8
        <5>2. DOMAIN r.orgs \subseteq Nat
          BY <1>5, PartialDef DEF Memory
        <5> QED BY <5>1, <5>2
      <4>2. /\ \A k \in 1..Len(r.orgs[a]) : r.orgs[a][k].arg.lab \in 0..Len(r.labels)
            /\ r.orgs[a] # << >> => Fits(r, t, a)
        BY <1>4, <4>1 DEF CodeSound
      <4>3. r.orgs[a] \in Seq(Instrs)
        BY <1>5, <4>1, PartialDef DEF Memory
      <4>4. ASSUME r.orgs[a] # << >>, n.orgs[a][1] = r.orgs[a][1] PROVE Fits(n, t, a)
        <5>1. r.orgs[a][1] \in Instrs
          BY <4>3, <4>4, ElementOfSeq
        <5>2. r.orgs[a][1].size \in Nat
          BY <5>1 DEF Instrs
        <5>3. Fits(r, t, a)
          BY <4>2, <4>4
        <5> QED BY <1>3, <3>3, <4>1, <4>4, <5>2, <5>3 DEF Fits
      <4>5. CASE a # p
        <5>1. n.orgs[a] = r.orgs[a]
          BY <2>6, <2>8, <4>1, <4>5
        <5> QED BY <3>3, <4>2, <4>4, <5>1
      <4>6. CASE a = p
        <5> DEFINE old == r.orgs[a]
        <5>1. n.orgs[a] = Append(old, j) /\ old \in Seq(Instrs) /\ j \in Instrs
          BY <1>6, <2>6, <2>8, <4>3, <4>6
        <5>2. \A k \in 1..Len(old) : old[k].arg.lab \in 0..Len(n.labels)
          BY <3>3, <4>2
        <5>3. j.arg.lab \in 0..Len(n.labels)
          BY <1>6, <3>3
        <5>4. ASSUME old # << >> PROVE Fits(n, t, a)
          <6>1. n.orgs[a][1] = old[1]
            BY <5>1, <5>4
          <6> QED BY <4>4, <5>4, <6>1
        <5>5. ASSUME old = << >> PROVE Fits(n, t, a)
          <6>1. n.orgs[a][1] = j
            BY <5>1, <5>5
          <6> QED BY <1>3, <1>6, <3>3, <4>6, <6>1 DEF Fits
        <5> HIDE DEF old
        <5>6. \A k \in 1..Len(n.orgs[a]) : n.orgs[a][k].arg.lab \in 0..Len(n.labels)
          BY <5>1, <5>2, <5>3
        <5> QED BY <5>4, <5>5, <5>6
      <4> QED BY <4>5, <4>6
    <3>5. DOMAIN n.orgs # {}
      BY <2>4, <2>6, <2>8
    <3> QED BY <3>1, <3>2, <3>4, <3>5, Zenon DEF CodeSound
  <2>12. DOMAIN m.bytes \subseteq DOMAIN n.bytes
    BY <1>4, <2>3, <2>8 DEF Slots, Covers
  <2>11. n.index = m.index + i.size
    BY <2>8 DEF x, p
  <2> QED BY <2>1, <2>8, <2>9, <2>10, <2>11, <2>12 DEF Assembles
<1> QED BY <1>8, <1>9

-----------------------------------------------------------------------------
(* Names.                                                                  *)

MemSound(m, t) == m \in Memory /\ NamesSound(m) /\ CodeSound(m, t)

\* n has the names of m and, in its innermost scope, one more of a new label.
Adds(n, m, name, local) ==
    /\ Len(m.labels) \in Nat /\ Len(n.labels) = Len(m.labels) + 1
    /\ \A o \in 1..Len(m.labels) : n.labels[o] = m.labels[o]
    /\ n.labels[Len(n.labels)].local = local
    /\ Len(m.scopes) \in Nat \ {0} /\ Len(n.scopes) = Len(m.scopes)
    /\ \A d \in 1..Len(m.scopes) : d # Len(m.scopes) => n.scopes[d] = m.scopes[d]
    /\ Extends(n.scopes[Len(n.scopes)], m.scopes[Len(m.scopes)], name, Len(n.labels))

\* The labels have grown, and the rest is as it was.
Kept(n, m) ==
    /\ Grows(n, m) /\ n.index = m.index /\ n.waiting = m.waiting /\ SameRest(n, m)
    /\ DOMAIN m.bytes \subseteq DOMAIN n.bytes

LEMMA AddLabelSound ==
    ASSUME NEW m, NEW t, MemSound(m, t), NEW name \in Keys, name \notin DOMAIN Here(m),
           NEW label \in Labels,
           label.value # None => label.value.lab \in 0..Len(m.labels)
    PROVE  LET n == AddLabel(m, name, label) IN
           /\ MemSound(n, t) /\ Kept(n, m) /\ Adds(n, m, name, label.local) /\ n.err = m.err
           /\ n.labels[Len(n.labels)] = label
<1> DEFINE n == AddLabel(m, name, label)
           L == Len(m.labels)
           D == Len(m.scopes)
<1>1. /\ m \in Memory /\ m.scopes # << >> /\ L \in Nat /\ D \in Nat /\ D >= 1
      /\ m.labels \in Seq(Labels) /\ m.scopes \in Seq(Tables)
  BY DEF MemSound, NamesSound, ScopesName, Memory
<1>2. Declares(n, m, name, label)
  BY <1>1, AddLabelFields
<1> HIDE DEF n
<1>3. /\ n \in Memory /\ n.waiting = m.waiting /\ SameCode(n, m) /\ SameRest(n, m) /\ n.err = m.err
  BY <1>2 DEF Declares
<1>4. Len(n.labels) = L + 1 /\ (\A o \in 1..L : n.labels[o] = m.labels[o]) /\ n.labels[L + 1] = label
  BY <1>1, <1>2 DEF Declares
<1> DEFINE f == Store(m.scopes[D], name, L + 1)
<1>5. Extends(f, m.scopes[D], name, L + 1)
  <2>1. m.scopes[D] \in Tables /\ L + 1 \in Nat
    BY <1>1, ElementOfSeq
  <2> QED BY <2>1, StoreIsTable DEF Tables
<1>6. /\ Len(n.scopes) = D /\ \A d \in 1..D : d # D => n.scopes[d] = m.scopes[d]
      /\ n.scopes[D] = f
  <2>1. n.scopes = [m.scopes EXCEPT ![D] = f]
    BY <1>2 DEF Declares, Here
  <2> HIDE DEF f
  <2> QED BY <1>1, <2>1
<1> HIDE DEF f
<1>7. Adds(n, m, name, label.local)
  BY <1>1, <1>4, <1>5, <1>6 DEF Adds
<1>8. Grows(n, m)
  BY <1>1, <1>4 DEF Grows, Defined
<1>9. DOMAIN n.scopes[D] = DOMAIN m.scopes[D] \cup {name} /\ n.scopes[D][name] = L + 1
      /\ \A x \in DOMAIN m.scopes[D] : n.scopes[D][x] = m.scopes[D][x]
  <2>1. name \notin DOMAIN m.scopes[D]
    BY DEF Here
  <2> QED BY <1>5, <1>6, <2>1 DEF Extends
<1>10. ScopesName(n)
  <2>1. n.scopes # << >>
    BY <1>1, <1>6
  <2>2. ASSUME NEW d \in 1..D
        PROVE  /\ IsFiniteSet(DOMAIN n.scopes[d])
               /\ \A x \in DOMAIN n.scopes[d] : n.scopes[d][x] \in 1..(L + 1)
    <3>1. /\ IsFiniteSet(DOMAIN m.scopes[d])
          /\ \A x \in DOMAIN m.scopes[d] : m.scopes[d][x] \in 1..L
      BY DEF MemSound, NamesSound, ScopesName
    <3>2. CASE d = D
      <4>1. IsFiniteSet(DOMAIN n.scopes[D])
        <5>1. IsFiniteSet(DOMAIN m.scopes[D] \cup {name})
          BY <3>1, <3>2, FS_AddElement
        <5> QED BY <1>9, <5>1
      <4>2. ASSUME NEW x \in DOMAIN n.scopes[D] PROVE n.scopes[D][x] \in 1..(L + 1)
        <5>1. CASE x = name
          BY <1>1, <1>9, <5>1
        <5>2. CASE x # name
          <6>1. x \in DOMAIN m.scopes[D] /\ n.scopes[D][x] = m.scopes[D][x]
            BY <1>9, <5>2
          <6>2. m.scopes[D][x] \in 1..L
            BY <3>1, <3>2, <6>1
          <6> QED BY <1>1, <6>1, <6>2
        <5> QED BY <5>1, <5>2
      <4> QED BY <3>2, <4>1, <4>2
    <3>3. CASE d # D
      BY <1>1, <1>6, <3>1, <3>3
    <3> QED BY <3>2, <3>3
  <2> QED BY <1>4, <1>6, <2>1, <2>2 DEF ScopesName
<1>11. Rooted(n.labels)
  <2> SUFFICES ASSUME NEW o \in 1..(L + 1), n.labels[o].value # None
               PROVE  n.labels[o].value.lab \in 0..(L + 1)
    BY <1>4 DEF Rooted
  <2>1. CASE o = L + 1
    BY <1>1, <1>4, <2>1
  <2>2. CASE o \in 1..L
    <3>1. m.labels[o].value.lab \in 0..L
      BY <1>4, <2>2 DEF MemSound, NamesSound, Rooted
    <3> QED BY <1>1, <1>4, <2>2, <3>1
  <2> QED BY <1>1, <2>1, <2>2
<1>12. \A k \in 1..Len(n.waiting) : n.waiting[k] \in 1..Len(n.labels)
  BY <1>1, <1>3, <1>4 DEF MemSound, NamesSound
<1>13. ASSUME NEW o \in 1..Len(n.labels) PROVE Held(n, o)
  <2>1. CASE o = L + 1
    <3>1. D \in 1..Len(n.scopes) /\ name \in DOMAIN n.scopes[D] /\ n.scopes[D][name] = o
      BY <1>1, <1>6, <1>9, <2>1
    <3> QED BY <3>1 DEF Held
  <2>2. CASE o \in 1..L
    <3>1. Held(m, o)
      BY <2>2 DEF MemSound, NamesSound
    <3>2. Defined(m, o) => Defined(n, o)
      BY <1>4, <2>2 DEF Defined
    <3>3. ASSUME NEW d \in 1..D, NEW x \in DOMAIN m.scopes[d], m.scopes[d][x] = o
          PROVE  x \in DOMAIN n.scopes[d] /\ n.scopes[d][x] = o
      BY <1>6, <1>9, <3>3
    <3> QED BY <1>3, <1>6, <3>1, <3>2, <3>3 DEF Held
  <2> QED BY <1>1, <1>4, <2>1, <2>2
<1>14. CodeSound(n, t)
  BY <1>3, <1>8, CodeKept DEF MemSound
<1>15. MemSound(n, t)
  BY <1>3, <1>10, <1>11, <1>12, <1>13, <1>14 DEF MemSound, NamesSound
<1>16. n.index = m.index /\ n.bytes = m.bytes
  BY <1>3 DEF SameCode
<1>17. n.labels[Len(n.labels)] = label
  BY <1>4
<1> QED BY <1>3, <1>7, <1>8, <1>15, <1>16, <1>17 DEF n, Kept

LEMMA DefineSound ==
    ASSUME NEW m, NEW t, MemSound(m, t), NEW o \in 1..Len(m.labels),
           NEW v \in Exprs, v.lab \in 0..Len(m.labels)
    PROVE  LET n == Define(m, o, v) IN
           /\ MemSound(n, t) /\ Kept(n, m) /\ n.scopes = m.scopes
           /\ Len(n.labels) = Len(m.labels)
           /\ \A p \in 1..Len(m.labels) : n.labels[p].local = m.labels[p].local
           /\ n.err = "none" => m.err = "none"
<1> DEFINE n == Define(m, o, v)
           L == Len(m.labels)
<1>1. m \in Memory /\ L \in Nat /\ m.labels \in Seq(Labels)
  BY DEF MemSound, Memory
<1>2. Defines(n, m, o, v)
  BY <1>1, DefineFields DEF Values
<1> HIDE DEF n
<1>3. /\ n \in Memory /\ n.scopes = m.scopes /\ n.waiting = m.waiting
      /\ SameCode(n, m) /\ SameRest(n, m)
      /\ n.err = "none" => m.err = "none"
  BY <1>2 DEF Defines
<1>4. v # None
  BY NoneAssumption
<1> DEFINE e == [m.labels[o] EXCEPT !.value = v]
<1>5. e \in Labels /\ e.value = v /\ e.local = m.labels[o].local
  <2>1. m.labels[o] \in Labels /\ v \in Values
    BY <1>1, ElementOfSeq DEF Values
  <2> QED BY <2>1 DEF Labels
<1>6. /\ Len(n.labels) = L /\ n.labels[o].value = v /\ n.labels[o].local = m.labels[o].local
      /\ \A p \in 1..L : p # o => n.labels[p] = m.labels[p]
  <2>1. n.labels = [m.labels EXCEPT ![o] = e]
    BY <1>1, <1>2 DEF Defines
  <2> HIDE DEF e
  <2> QED BY <1>1, <1>5, <2>1
<1>7. \A p \in 1..L : n.labels[p].local = m.labels[p].local /\ (Defined(m, p) => Defined(n, p))
  BY <1>4, <1>6 DEF Defined
<1>8. Grows(n, m)
  BY <1>1, <1>6, <1>7 DEF Grows
<1>9. ScopesName(n)
  BY <1>3, <1>6 DEF MemSound, NamesSound, ScopesName
<1>10. Rooted(n.labels)
  BY <1>6 DEF Rooted, MemSound, NamesSound
<1>11. \A k \in 1..Len(n.waiting) : n.waiting[k] \in 1..Len(n.labels)
  BY <1>3, <1>6 DEF MemSound, NamesSound
<1>12. ASSUME NEW p \in 1..Len(n.labels) PROVE Held(n, p)
  <2>1. Held(m, p)
    BY <1>6 DEF MemSound, NamesSound
  <2> QED BY <1>3, <1>6, <1>7, <2>1 DEF Held
<1>13. CodeSound(n, t)
  BY <1>3, <1>8, CodeKept DEF MemSound
<1>14. MemSound(n, t)
  BY <1>3, <1>9, <1>10, <1>11, <1>12, <1>13 DEF MemSound, NamesSound
<1>15. n.index = m.index /\ n.bytes = m.bytes
  BY <1>3 DEF SameCode
<1> QED BY <1>3, <1>6, <1>7, <1>8, <1>14, <1>15 DEF n, Kept

LEMMA SlotKept ==
    ASSUME NEW m, NEW t, MemSound(m, t)
    PROVE  LET n == SetMemorySlot(m) IN
           MemSound(n, t) /\ Kept(n, m) /\ SameNames(n, m) /\ n.err = m.err
<1> DEFINE n == SetMemorySlot(m)
<1>1. Slots(n, m) /\ CodeSound(n, t)
  BY SetMemorySlotFields, SetMemorySlotSound DEF MemSound
<1> HIDE DEF n
<1>2. SameNames(n, m) /\ n \in Memory
  BY <1>1 DEF Slots
<1>3. NamesSound(n)
  BY <1>2, NamesKept DEF MemSound
<1>4. Grows(n, m)
  BY <1>2, GrowsSame DEF MemSound, SameNames
<1>5. MemSound(n, t) /\ Kept(n, m) /\ SameNames(n, m) /\ n.err = m.err
  BY <1>1, <1>2, <1>3, <1>4 DEF MemSound, Kept, Slots, SameNames
<1> QED BY <1>5 DEF n

\* A finite set of numbers that is not empty has a greatest one, and a least one.
LEMMA GreatestExists ==
    ASSUME NEW S \in SUBSET Nat, IsFiniteSet(S), S # {}
    PROVE  \E x \in S : \A y \in S : x >= y
<1> DEFINE Top(T) == \E x \in T : \A y \in T : x >= y
           K == {k \in Nat : \A T \in SUBSET Nat : IsFiniteSet(T) /\ Cardinality(T) = k + 1 => Top(T)}
<1>1. 0 \in K
  <2> SUFFICES ASSUME NEW T \in SUBSET Nat, IsFiniteSet(T), Cardinality(T) = 1 PROVE Top(T)
    OBVIOUS
  <2>1. PICK x : T = {x}
    BY FS_Singleton
  <2> QED BY <2>1
<1>2. ASSUME NEW k \in Nat, k \in K PROVE k + 1 \in K
  <2> SUFFICES ASSUME NEW T \in SUBSET Nat, IsFiniteSet(T), Cardinality(T) = (k + 1) + 1 PROVE Top(T)
    OBVIOUS
  <2>1. T # {}
    BY FS_EmptySet
  <2>2. PICK x \in T : TRUE
    BY <2>1
  <2> DEFINE R == T \ {x}
  <2>3. IsFiniteSet(R) /\ Cardinality(R) = k + 1 /\ R \in SUBSET Nat
    BY <2>2, FS_RemoveElement
  <2>4. PICK z \in R : \A y \in R : z >= y
    BY <1>2, <2>3
  <2>5. x \in Nat /\ z \in Nat /\ z \in T /\ \A y \in T : y = x \/ y \in R
    BY <2>2
  <2>6. CASE x >= z
    <3>1. \A y \in T : x >= y
      BY <2>4, <2>5, <2>6
    <3> QED BY <2>2, <3>1
  <2>7. CASE z >= x
    <3>1. \A y \in T : z >= y
      BY <2>4, <2>5, <2>7
    <3> QED BY <2>5, <3>1
  <2> QED BY <2>5, <2>6, <2>7
<1>3. Nat \subseteq K
  <2> HIDE DEF K
  <2> QED BY <1>1, <1>2, NatSetInduction
<1>4. Cardinality(S) \in Nat /\ Cardinality(S) # 0
  BY FS_CardinalityType, FS_EmptySet
<1>5. Cardinality(S) - 1 \in K /\ (Cardinality(S) - 1) + 1 = Cardinality(S)
  BY <1>3, <1>4
<1> QED BY <1>5

\* What looking a name up leaves: [m, o].
Looks(g, m, t, name) ==
    /\ MemSound(g.m, t) /\ Kept(g.m, m) /\ g.m.err = m.err /\ g.o \in 1..Len(g.m.labels)
    /\ \/ g.m = m
       \/ /\ \A d \in 1..Len(m.scopes) : name \notin DOMAIN m.scopes[d]
          /\ Adds(g.m, m, name, FALSE)

\* l is a new label with these fields.
Fresh(l, v, local) == l \in Labels /\ l.value = v /\ l.local = local

LEMMA NewLabelTyped ==
    ASSUME NEW name \in Names, NEW v \in Values, NEW local, local \in BOOLEAN, NEW line0 \in Nat,
           NEW dir \in Dirs, NEW ns \in Words
    PROVE  Fresh(NewLabel(name, v, local, line0, dir, ns), v, local)
BY DEF NewLabel, Labels, Fresh

LEMMA NewNameTyped ==
    ASSUME NEW name \in Keys, NEW v \in Values, NEW local, local \in BOOLEAN, NEW ns \in Words
    PROVE  Fresh(NewLabel(name, v, local, 0, "", ns), v, local)
<1> DEFINE e == ""
           z == 0
<1>1. e \in Dirs /\ z \in Nat /\ name \in Names
  BY DEF Names, Dirs
<1> HIDE DEF e, z
<1>2. Fresh(NewLabel(name, v, local, z, e, ns), v, local)
  BY <1>1, NewLabelTyped
<1> QED BY <1>2 DEF e, z

LEMMA Facts ==
    ASSUME NEW m, NEW t, MemSound(m, t)
    PROVE  /\ m \in Memory /\ m.ns \in Words /\ m.index \in Nat /\ m.labels \in Seq(Labels)
           /\ Len(m.labels) \in Nat /\ Rooted(m.labels)
           /\ m.scopes \in Seq(Tables) /\ Len(m.scopes) \in Nat /\ Len(m.scopes) >= 1
           /\ Here(m) = m.scopes[Len(m.scopes)]
           /\ \A x \in DOMAIN Here(m) : Here(m)[x] \in 1..Len(m.labels)
<1>1. m \in Memory /\ m.scopes # << >> /\ Rooted(m.labels)
  BY DEF MemSound, NamesSound, ScopesName
<1>2. /\ m.ns \in Words /\ m.index \in Nat /\ m.labels \in Seq(Labels) /\ m.scopes \in Seq(Tables)
  BY <1>1 DEF Memory
<1>3. Len(m.labels) \in Nat /\ Len(m.scopes) \in Nat /\ Len(m.scopes) >= 1
  BY <1>1, <1>2
<1>4. \A x \in DOMAIN Here(m) : Here(m)[x] \in 1..Len(m.labels)
  BY <1>3 DEF Here, MemSound, NamesSound, ScopesName
<1> QED BY <1>1, <1>2, <1>3, <1>4 DEF Here

LEMMA GetLabelSound ==
    ASSUME NEW m, NEW t, MemSound(m, t), NEW name \in Keys
    PROVE  Looks(GetLabel(m, name), m, t, name)
<1> DEFINE known == {d \in DOMAIN m.scopes : name \in DOMAIN m.scopes[d]}
           l == NewLabel(name, None, FALSE, 0, "", m.ns)
           g == GetLabel(m, name)
<1>1. /\ m \in Memory /\ m.ns \in Words /\ Len(m.labels) \in Nat
      /\ Len(m.scopes) \in Nat /\ Len(m.scopes) >= 1 /\ DOMAIN m.scopes = 1..Len(m.scopes)
      /\ Here(m) = m.scopes[Len(m.scopes)]
  BY Facts
<1>2. CASE known # {}
  <2> DEFINE d == CHOOSE d \in known : \A e \in known : e <= d
  <2>1. g = [m |-> m, o |-> m.scopes[d][name]]
    BY <1>2 DEF GetLabel
  <2>2. \E x \in known : \A y \in known : x >= y
    <3>1. known \in SUBSET (1..Len(m.scopes)) /\ known \in SUBSET Nat
      BY <1>1
    <3>2. IsFiniteSet(known)
      <4>1. IsFiniteSet(1..Len(m.scopes))
        BY <1>1, FS_Interval
      <4> HIDE DEF known
      <4> QED BY <3>1, <4>1, FS_Subset
    <3> HIDE DEF known
    <3> QED BY <1>2, <3>1, <3>2, GreatestExists
  <2>3. \E x \in known : \A y \in known : y <= x
    <3>1. \A x \in known : x \in Nat
      BY <1>1
    <3> HIDE DEF known
    <3> QED BY <2>2, <3>1
  <2>4. d \in known
    <3> HIDE DEF known
    <3> QED BY <2>3
  <2>5. m.scopes[d][name] \in 1..Len(m.labels)
    BY <1>1, <2>4 DEF MemSound, NamesSound, ScopesName
  <2> HIDE DEF d
  <2>6. Kept(m, m)
    BY <1>1, GrowsSame DEF Kept, SameRest
  <2>7. g.m = m /\ g.o \in 1..Len(m.labels)
    BY <2>1, <2>5
  <2> HIDE DEF g
  <2>8. Looks(g, m, t, name)
    BY <2>6, <2>7 DEF Looks
  <2> QED BY <2>8 DEF g
<1>3. CASE known = {}
  <2> DEFINE n == AddLabel(m, name, l)
  <2>1. g = [m |-> n, o |-> Len(m.labels) + 1]
    BY <1>3 DEF GetLabel
  <2>2. l \in Labels /\ l.value = None /\ l.local = FALSE
    <3> DEFINE f == FALSE
    <3>1. None \in Values /\ f \in BOOLEAN
      BY DEF Values
    <3> HIDE DEF f
    <3>2. Fresh(NewLabel(name, None, f, 0, "", m.ns), None, f)
      BY <1>1, <3>1, NewNameTyped
    <3> QED BY <3>2 DEF f, Fresh
  <2>3. \A d \in 1..Len(m.scopes) : name \notin DOMAIN m.scopes[d]
    BY <1>1, <1>3
  <2>4. name \notin DOMAIN Here(m)
    BY <1>1, <2>3
  <2> HIDE DEF l, known
  <2>5. MemSound(n, t) /\ Kept(n, m) /\ Adds(n, m, name, l.local) /\ n.err = m.err
    BY <2>2, <2>4, AddLabelSound
  <2> HIDE DEF n
  <2>6. g.m = n /\ g.o = Len(m.labels) + 1
    BY <2>1
  <2> HIDE DEF g
  <2>7. g.o \in 1..Len(n.labels)
    BY <1>1, <2>5, <2>6 DEF Adds
  <2>8. Looks(g, m, t, name)
    BY <2>2, <2>3, <2>5, <2>6, <2>7 DEF Looks
  <2> QED BY <2>8 DEF g
<1> QED BY <1>2, <1>3

\* What giving a name a value leaves.
Puts(n, m, t, name) ==
    /\ MemSound(n, t) /\ Kept(n, m)
    /\ n.err = "none" => m.err = "none"
    /\ \/ name \in DOMAIN Here(m) /\ n.scopes = m.scopes
       \/ name \notin DOMAIN Here(m) /\ Adds(n, m, name, FALSE) /\ Defined(n, Len(n.labels))

LEMMA DeclareLabelSound ==
    ASSUME NEW m, NEW t, MemSound(m, t), NEW name \in Keys,
           NEW v \in Exprs, v.lab \in 0..Len(m.labels)
    PROVE  Puts(DeclareLabel(m, name, v), m, t, name)
<1> DEFINE l == NewLabel(name, v, FALSE, 0, "", m.ns)
           r == IF name \in DOMAIN Here(m) THEN Define(m, Here(m)[name], v) ELSE AddLabel(m, name, l)
           n == SetMemorySlot(r)
<1>1. DeclareLabel(m, name, v) = n
  BY DEF DeclareLabel
<1>2. /\ m \in Memory /\ m.ns \in Words /\ Len(m.labels) \in Nat
      /\ \A x \in DOMAIN Here(m) : Here(m)[x] \in 1..Len(m.labels)
  BY Facts
<1>3. Puts(r, m, t, name)
  <2>1. CASE name \in DOMAIN Here(m)
    <3> DEFINE o == Here(m)[name]
    <3>1. o \in 1..Len(m.labels)
      BY <1>2, <2>1
    <3>2. r = Define(m, o, v)
      BY <2>1
    <3> HIDE DEF o
    <3>3. LET q == Define(m, o, v) IN
          MemSound(q, t) /\ Kept(q, m) /\ q.scopes = m.scopes /\ (q.err = "none" => m.err = "none")
      BY <3>1, DefineSound
    <3> HIDE DEF r
    <3> QED BY <2>1, <3>2, <3>3 DEF Puts
  <2>2. CASE name \notin DOMAIN Here(m)
    <3>1. l \in Labels /\ l.value = v /\ l.local = FALSE
      <4> DEFINE f == FALSE
      <4>1. v \in Values /\ f \in BOOLEAN
        BY DEF Values
      <4> HIDE DEF f
      <4>2. Fresh(NewLabel(name, v, f, 0, "", m.ns), v, f)
        BY <1>2, <4>1, NewNameTyped
      <4> QED BY <4>2 DEF f, Fresh
    <3>2. r = AddLabel(m, name, l)
      BY <2>2
    <3> HIDE DEF l
    <3>3. LET q == AddLabel(m, name, l) IN
          /\ MemSound(q, t) /\ Kept(q, m) /\ Adds(q, m, name, l.local) /\ q.err = m.err
          /\ q.labels[Len(q.labels)] = l
      BY <2>2, <3>1, AddLabelSound
    <3> HIDE DEF r
    <3>4. Defined(r, Len(r.labels))
      BY <3>1, <3>2, <3>3, NoneAssumption DEF Defined
    <3> QED BY <2>2, <3>1, <3>2, <3>3, <3>4 DEF Puts
  <2> QED BY <2>1, <2>2
<1> HIDE DEF r
<1>4. MemSound(n, t) /\ Kept(n, r) /\ SameNames(n, r) /\ n.err = r.err
  BY <1>3, SlotKept DEF Puts
<1> HIDE DEF n
<1>5. Kept(n, m)
  BY <1>3, <1>4, GrowsOn DEF Puts, Kept, SameRest
<1>6. /\ n.scopes = r.scopes /\ n.labels = r.labels
      /\ Adds(r, m, name, FALSE) => Adds(n, m, name, FALSE)
      /\ Defined(r, Len(r.labels)) => Defined(n, Len(n.labels))
  BY <1>4 DEF SameNames, Adds, Defined
<1> QED BY <1>1, <1>3, <1>4, <1>5, <1>6 DEF Puts

\* What LOCAL leaves.
Hides(n, m, t, name) ==
    /\ MemSound(n, t) /\ Kept(n, m) /\ n.err = m.err
    /\ \/ /\ name \in DOMAIN Here(m) /\ n.scopes = m.scopes
          /\ n.labels[Here(n)[name]].local
       \/ name \notin DOMAIN Here(m) /\ Adds(n, m, name, TRUE)

LEMMA SetLabelSound ==
    ASSUME NEW m, NEW t, MemSound(m, t), NEW name \in Keys
    PROVE  Hides(SetLabel(m, name), m, t, name)
<1> DEFINE l == NewLabel(name, None, TRUE, 0, "", m.ns)
           L == Len(m.labels)
           n == SetLabel(m, name)
<1>1. /\ m \in Memory /\ m.ns \in Words /\ L \in Nat /\ m.labels \in Seq(Labels)
      /\ \A x \in DOMAIN Here(m) : Here(m)[x] \in 1..L
  BY Facts
<1>2. CASE name \in DOMAIN Here(m)
  <2> DEFINE o == Here(m)[name]
             e == [m.labels[o] EXCEPT !.local = TRUE]
             q == [m.labels EXCEPT ![o] = e]
  <2>1. o \in 1..L
    BY <1>1, <1>2
  <2>2. n = [m EXCEPT !.labels = q]
    BY <1>1, <1>2 DEF SetLabel, Memory
  <2> HIDE DEF o, n
  <2>3. e \in Labels /\ e.local = TRUE /\ e.value = m.labels[o].value
    <3>1. m.labels[o] \in Labels
      BY <1>1, <2>1, ElementOfSeq
    <3> QED BY <3>1 DEF Labels
  <2> HIDE DEF e
  <2>4. /\ q \in Seq(Labels) /\ Len(q) = L /\ q[o] = e
        /\ \A p \in 1..L : p # o => q[p] = m.labels[p]
    BY <1>1, <2>1, <2>3
  <2> HIDE DEF q
  <2>5. /\ n \in Memory /\ n.labels = q /\ n.scopes = m.scopes /\ n.waiting = m.waiting
        /\ SameCode(n, m) /\ SameRest(n, m) /\ n.err = m.err
    BY <1>1, <2>2, <2>4 DEF Memory, SameCode, SameRest
  <2>6. /\ Len(n.labels) = L
        /\ \A p \in 1..L : /\ n.labels[p].value = m.labels[p].value
                           /\ m.labels[p].local => n.labels[p].local
    BY <2>3, <2>4, <2>5
  <2>7. Grows(n, m)
    BY <1>1, <2>6 DEF Grows, Defined
  <2>8. ScopesName(n)
    BY <2>5, <2>6 DEF MemSound, NamesSound, ScopesName
  <2>9. Rooted(n.labels)
    BY <2>6 DEF Rooted, MemSound, NamesSound
  <2>10. \A k \in 1..Len(n.waiting) : n.waiting[k] \in 1..Len(n.labels)
    BY <2>5, <2>6 DEF MemSound, NamesSound
  <2>11. ASSUME NEW p \in 1..Len(n.labels) PROVE Held(n, p)
    <3>1. Held(m, p)
      BY <2>6 DEF MemSound, NamesSound
    <3>2. Defined(m, p) => Defined(n, p)
      BY <2>6 DEF Defined
    <3> QED BY <2>5, <3>1, <3>2 DEF Held
  <2>12. CodeSound(n, t)
    BY <2>5, <2>7, CodeKept DEF MemSound
  <2>13. MemSound(n, t) /\ Kept(n, m)
    BY <2>5, <2>7, <2>8, <2>9, <2>10, <2>11, <2>12 DEF MemSound, NamesSound, Kept, SameCode
  <2>14. n.labels[Here(n)[name]].local
    BY <2>3, <2>4, <2>5 DEF Here, o
  <2>15. Hides(n, m, t, name)
    BY <1>2, <2>5, <2>13, <2>14 DEF Hides
  <2> QED BY <2>15 DEF n
<1>3. CASE name \notin DOMAIN Here(m)
  <2>1. Fresh(l, None, TRUE)
    <3> DEFINE f == TRUE
    <3>1. None \in Values /\ f \in BOOLEAN
      BY DEF Values
    <3> HIDE DEF f
    <3>2. Fresh(NewLabel(name, None, f, 0, "", m.ns), None, f)
      BY <1>1, <3>1, NewNameTyped
    <3> QED BY <3>2 DEF f
  <2>2. n = AddLabel(m, name, l)
    BY <1>3 DEF SetLabel
  <2> HIDE DEF l, n
  <2>3. LET q == AddLabel(m, name, l) IN
        MemSound(q, t) /\ Kept(q, m) /\ Adds(q, m, name, l.local) /\ q.err = m.err
    BY <1>3, <2>1, AddLabelSound DEF Fresh
  <2>4. Hides(n, m, t, name)
    BY <1>3, <2>1, <2>2, <2>3 DEF Hides, Fresh
  <2> QED BY <2>4 DEF n
<1> QED BY <1>2, <1>3

\* What the use of a temporary label leaves: [m, o].
Waits(g, m, t) ==
    /\ MemSound(g.m, t) /\ Grows(g.m, m) /\ g.m.scopes = m.scopes /\ g.m.index = m.index
    /\ SameRest(g.m, m) /\ g.m.err = m.err /\ g.o \in 1..Len(g.m.labels)

LEMMA GetTemporarySound ==
    ASSUME NEW m, NEW t, MemSound(m, t), NEW name \in Words, NEW dir \in Dirs,
           NEW line0 \in Nat
    PROVE  Waits(GetTemporary(m, name, dir, line0), m, t)
<1> DEFINE l == NewLabel(name, None, FALSE, line0, dir, m.ns)
           L == Len(m.labels)
           q == Append(m.labels, l)
           w == Append(m.waiting, L + 1)
           n == [m EXCEPT !.labels = q, !.waiting = w]
           g == GetTemporary(m, name, dir, line0)
<1>1. m \in Memory /\ m.ns \in Words /\ L \in Nat /\ m.labels \in Seq(Labels) /\ m.waiting \in Seq(Nat)
  BY Facts DEF Memory
<1>2. g = [m |-> n, o |-> L + 1]
  BY DEF GetTemporary
<1>3. Fresh(l, None, FALSE)
  <2> DEFINE f == FALSE
  <2>1. None \in Values /\ f \in BOOLEAN /\ name \in Names
    BY DEF Values, Names
  <2> HIDE DEF f
  <2>2. Fresh(NewLabel(name, None, f, line0, dir, m.ns), None, f)
    BY <1>1, <2>1, NewLabelTyped
  <2> QED BY <2>2 DEF f
<1> HIDE DEF l
<1>4. /\ q \in Seq(Labels) /\ Len(q) = L + 1 /\ q[L + 1] = l
      /\ \A o \in 1..L : q[o] = m.labels[o]
  BY <1>1, <1>3 DEF Fresh
<1>5. /\ w \in Seq(Nat) /\ Len(w) = Len(m.waiting) + 1 /\ w[Len(m.waiting) + 1] = L + 1
      /\ \A k \in 1..Len(m.waiting) : w[k] = m.waiting[k]
  BY <1>1
<1> HIDE DEF q, w
<1>6. /\ n \in Memory /\ n.labels = q /\ n.waiting = w /\ n.scopes = m.scopes
      /\ SameCode(n, m) /\ SameRest(n, m) /\ n.err = m.err
  BY <1>1, <1>4, <1>5 DEF Memory, SameCode, SameRest
<1>7. g.m = n /\ g.o = L + 1
  BY <1>2
<1> HIDE DEF n, g
<1>8. Grows(n, m)
  BY <1>1, <1>4, <1>6 DEF Grows, Defined
<1>9. ScopesName(n)
  BY <1>1, <1>4, <1>6 DEF MemSound, NamesSound, ScopesName
<1>10. Rooted(n.labels)
  <2> SUFFICES ASSUME NEW o \in 1..(L + 1), q[o].value # None
               PROVE  q[o].value.lab \in 0..(L + 1)
    BY <1>4, <1>6 DEF Rooted
  <2>1. CASE o = L + 1
    BY <1>3, <1>4, <2>1 DEF Fresh
  <2>2. CASE o \in 1..L
    <3>1. m.labels[o].value.lab \in 0..L
      BY <1>4, <2>2 DEF MemSound, NamesSound, Rooted
    <3> QED BY <1>1, <1>4, <2>2, <3>1
  <2> QED BY <1>1, <2>1, <2>2
<1>11. ASSUME NEW k \in 1..Len(n.waiting) PROVE n.waiting[k] \in 1..Len(n.labels)
  <2>1. CASE k \in 1..Len(m.waiting)
    <3>1. m.waiting[k] \in 1..L
      BY <2>1 DEF MemSound, NamesSound
    <3>2. n.waiting[k] = m.waiting[k]
      BY <1>5, <1>6, <2>1
    <3>3. \A o \in 1..L : o \in 1..Len(n.labels)
      BY <1>1, <1>4, <1>6
    <3> QED BY <3>1, <3>2, <3>3
  <2>2. CASE k = Len(m.waiting) + 1
    BY <1>1, <1>4, <1>5, <1>6, <2>2
  <2> QED BY <1>1, <1>5, <1>6, <2>1, <2>2
<1>12. ASSUME NEW o \in 1..Len(n.labels) PROVE Held(n, o)
  <2>1. CASE o = L + 1
    <3> DEFINE k == Len(m.waiting) + 1
    <3>1. k \in 1..Len(n.waiting) /\ n.waiting[k] = o
      BY <1>1, <1>5, <1>6, <2>1
    <3> HIDE DEF k
    <3> QED BY <3>1 DEF Held
  <2>2. CASE o \in 1..L
    <3>1. Held(m, o)
      BY <2>2 DEF MemSound, NamesSound
    <3>2. Defined(m, o) => Defined(n, o)
      BY <1>4, <1>6, <2>2 DEF Defined
    <3>3. ASSUME NEW k \in 1..Len(m.waiting), m.waiting[k] = o PROVE Held(n, o)
      <4>1. k \in 1..Len(n.waiting)
        BY <1>1, <1>5, <1>6, <3>3
      <4>2. n.waiting[k] = o
        BY <1>5, <1>6, <3>3
      <4> QED BY <4>1, <4>2 DEF Held
    <3>4. ASSUME NEW d \in 1..Len(m.scopes), NEW x \in DOMAIN m.scopes[d], m.scopes[d][x] = o
          PROVE  Held(n, o)
      BY <1>6, <3>4 DEF Held
    <3>5. Defined(n, o) => Held(n, o)
      BY DEF Held
    <3> QED BY <3>1, <3>2, <3>3, <3>4, <3>5 DEF Held
  <2> QED BY <1>1, <1>4, <1>6, <2>1, <2>2
<1>13. CodeSound(n, t)
  BY <1>6, <1>8, CodeKept DEF MemSound
<1>14. MemSound(n, t)
  BY <1>6, <1>9, <1>10, <1>11, <1>12, <1>13 DEF MemSound, NamesSound
<1>15. g.o \in 1..Len(n.labels) /\ n.index = m.index
  BY <1>1, <1>4, <1>6, <1>7 DEF SameCode
<1>16. Waits(g, m, t)
  BY <1>6, <1>7, <1>8, <1>14, <1>15 DEF Waits
<1> QED BY <1>16 DEF g

\* n and m name the same things and hold the same code.
Alike(n, m, t) == MemSound(n, t) /\ SameNames(n, m) /\ SameCode(n, m)

LEMMA AlikeSound ==
    ASSUME NEW m, NEW n \in Memory, NEW t, MemSound(m, t), SameNames(n, m), SameCode(n, m)
    PROVE  Alike(n, m, t)
<1>1. NamesSound(n)
  BY NamesKept DEF MemSound
<1>2. Grows(n, m)
  BY GrowsSame DEF MemSound, SameNames
<1>3. CodeSound(n, t)
  BY <1>2, CodeKept DEF MemSound
<1> QED BY <1>1, <1>3 DEF MemSound, Alike

LEMMA ErrorSound ==
    ASSUME NEW m, NEW t, MemSound(m, t), NEW e \in Messages, e # "none"
    PROVE  Alike(Error(m, e), m, t) /\ SameRest(Error(m, e), m) /\ Error(m, e).err # "none"
<1> DEFINE n == Error(m, e)
<1>1. Complains(n, m, e)
  BY ErrorFields DEF MemSound
<1> HIDE DEF n
<1>2. Alike(n, m, t)
  BY <1>1, AlikeSound DEF Complains
<1>3. SameRest(n, m) /\ n.err # "none"
  BY <1>1 DEF Complains
<1> QED BY <1>2, <1>3 DEF n

LEMMA DeclareTemporarySound ==
    ASSUME NEW m, NEW t, MemSound(m, t), NEW name \in Words, NEW line0 \in Nat
    PROVE  LET n == DeclareTemporary(m, name, line0) IN
           Alike(n, m, t) /\ n.ns = m.ns /\ n.nsStack = m.nsStack /\ n.err = m.err
<1> DEFINE u == [name |-> name, line |-> line0, ns |-> m.ns, value |-> m.index]
           s == {v \in m.tmp : <<v.line, v.name>> # <<line0, name>>} \cup {u}
           n == DeclareTemporary(m, name, line0)
<1>1. m \in Memory /\ m.ns \in Words /\ m.index \in Nat
  BY Facts
<1>2. u \in Temps
  BY <1>1 DEF Temps
<1>3. n = [m EXCEPT !.tmp = s]
  BY <1>1 DEF DeclareTemporary, Memory
<1> HIDE DEF u, n
<1>4. s \in SUBSET Temps
  BY <1>1, <1>2 DEF Memory
<1> HIDE DEF s
<1>5. n \in Memory /\ SameNames(n, m) /\ SameCode(n, m) /\ n.ns = m.ns /\ n.nsStack = m.nsStack /\ n.err = m.err
  BY <1>1, <1>3, <1>4 DEF Memory, SameNames, SameCode
<1>6. Alike(n, m, t)
  BY <1>5, AlikeSound
<1> QED BY <1>5, <1>6 DEF n

\* What PROC leaves.
Enters(n, m, t) ==
    /\ MemSound(n, t) /\ Kept(n, m) /\ n.labels = m.labels /\ n.err = m.err
    /\ Len(n.scopes) = Len(m.scopes) + 1 /\ DOMAIN n.scopes[Len(n.scopes)] = {}
    /\ \A d \in 1..Len(m.scopes) : n.scopes[d] = m.scopes[d]

LEMMA EnterProcSound ==
    ASSUME NEW m, NEW t, MemSound(m, t)
    PROVE  Enters(EnterProc(m), m, t)
<1> DEFINE e == [x \in {} |-> 0]
           q == Append(m.scopes, e)
           n == EnterProc(m)
           D == Len(m.scopes)
<1>1. m \in Memory /\ m.scopes \in Seq(Tables) /\ D \in Nat /\ D >= 1
  BY Facts
<1>2. e \in Tables /\ DOMAIN e = {}
  <2>1. e = [x \in DOMAIN e |-> e[x]] /\ DOMAIN e = {}
    OBVIOUS
  <2> HIDE DEF e
  <2> QED BY <2>1, PartialDef DEF Tables
<1>3. n = [m EXCEPT !.scopes = q]
  BY <1>1 DEF EnterProc, Memory
<1> HIDE DEF e, n
<1>4. /\ q \in Seq(Tables) /\ Len(q) = D + 1 /\ q[D + 1] = e
      /\ \A d \in 1..D : q[d] = m.scopes[d]
  BY <1>1, <1>2
<1> HIDE DEF q
<1>5. /\ n \in Memory /\ n.scopes = q /\ n.labels = m.labels /\ n.waiting = m.waiting
      /\ SameCode(n, m) /\ SameRest(n, m) /\ n.err = m.err
  BY <1>1, <1>3, <1>4 DEF Memory, SameCode, SameRest
<1>6. Grows(n, m)
  BY <1>1, <1>5, GrowsSame
<1>7. ScopesName(n)
  <2>1. n.scopes # << >>
    BY <1>1, <1>4, <1>5
  <2>2. ASSUME NEW d \in 1..(D + 1)
        PROVE  /\ IsFiniteSet(DOMAIN q[d])
               /\ \A x \in DOMAIN q[d] : q[d][x] \in 1..Len(m.labels)
    <3>1. CASE d \in 1..D
      BY <1>4, <3>1 DEF MemSound, NamesSound, ScopesName
    <3>2. CASE d = D + 1
      BY <1>2, <1>4, <3>2, FS_EmptySet
    <3> QED BY <1>1, <3>1, <3>2
  <2> QED BY <1>4, <1>5, <2>1, <2>2 DEF ScopesName
<1>8. ASSUME NEW o \in 1..Len(n.labels) PROVE Held(n, o)
  <2>1. Held(m, o)
    BY <1>5 DEF MemSound, NamesSound
  <2>2. ASSUME NEW d \in 1..D, NEW x \in DOMAIN m.scopes[d], m.scopes[d][x] = o
        PROVE  Held(n, o)
    <3>1. d \in 1..Len(n.scopes) /\ n.scopes[d] = m.scopes[d]
      BY <1>1, <1>4, <1>5
    <3> QED BY <2>2, <3>1 DEF Held
  <2> QED BY <1>5, <2>1, <2>2 DEF Held, Defined
<1>9. NamesSound(n)
  BY <1>5, <1>7, <1>8 DEF MemSound, NamesSound
<1>10. CodeSound(n, t)
  BY <1>5, <1>6, CodeKept DEF MemSound
<1>11. Enters(n, m, t)
  BY <1>2, <1>4, <1>5, <1>6, <1>9, <1>10 DEF Enters, MemSound, Kept, SameCode
<1> QED BY <1>11 DEF n

\* What ORG leaves when no temporary label waits.
Moves(n, m, t, v) ==
    /\ MemSound(n, t) /\ SameNames(n, m) /\ n.index = v /\ n.ns = m.ns /\ n.nsStack = m.nsStack
    /\ n.err = "none" => m.err = "none" /\ v <= MaxMem
    /\ n.err \in {m.err, "ORG out of range"}

LEMMA SetOrgSound ==
    ASSUME NEW m, NEW t, MemSound(m, t), NEW v \in Nat, v >= m.index, m.waiting = << >>
    PROVE  Moves(SetOrg(m, v), m, t, v)
<1> DEFINE c == IF v < 0 \/ v > MaxMem THEN Error(m, "ORG out of range") ELSE m
           n == SetOrg(m, v)
           e == "ORG out of range"
<1>1. m \in Memory /\ m.index \in Nat
  BY Facts
<1>2. /\ c \in Memory /\ SameNames(c, m) /\ SameCode(c, m) /\ SameRest(c, m)
      /\ c.err = "none" => m.err = "none" /\ v <= MaxMem
      /\ c.err \in {m.err, e}
  <2>1. CASE v > MaxMem
    <3>1. e \in Messages
      BY DEF Messages
    <3>2. Complains(Error(m, e), m, e)
      BY <1>1, <3>1, ErrorFields
    <3>3. c = Error(m, e)
      BY <2>1
    <3>4. e # "none"
      OBVIOUS
    <3> HIDE DEF c, e
    <3> QED BY <3>2, <3>3, <3>4 DEF Complains
  <2>2. CASE ~(v > MaxMem)
    <3>1. c = m
      <4>1. ~(v < 0)
        OBVIOUS
      <4> QED BY <2>2, <4>1
    <3>2. v <= MaxMem
      BY <2>2, BoundsAssumption
    <3> HIDE DEF c, e
    <3> QED BY <1>1, <3>1, <3>2 DEF SameNames, SameCode, SameRest
  <2> QED BY <2>1, <2>2
<1> DEFINE none == {}
           nobody == << >>
<1>3. n = [[c EXCEPT !.tmp = none, !.waiting = nobody] EXCEPT !.index = v]
  BY DEF SetOrg, ClearTemporaryLabels
<1>9. none \in SUBSET Temps /\ nobody \in Seq(Nat)
  OBVIOUS
<1> HIDE DEF c, n, e, none, nobody
<1>4. /\ n \in Memory /\ n.index = v /\ n.waiting = nobody /\ n.scopes = c.scopes /\ n.labels = c.labels
      /\ n.orgs = c.orgs /\ n.bytes = c.bytes /\ n.ns = c.ns /\ n.nsStack = c.nsStack /\ n.err = c.err
  BY <1>2, <1>3, <1>9 DEF Memory
<1>5. SameNames(n, m) /\ n.orgs = m.orgs /\ n.bytes = m.bytes /\ n.ns = m.ns /\ n.nsStack = m.nsStack
  BY <1>2, <1>4 DEF SameNames, SameCode, SameRest, nobody
<1>6. NamesSound(n)
  BY <1>5, NamesKept DEF MemSound
<1>7. CodeSound(n, t)
  <2>1. ASSUME NEW a \in DOMAIN m.orgs, m.orgs[a] # << >> PROVE Fits(n, t, a)
    <3>1. Fits(m, t, a)
      BY <2>1 DEF MemSound, CodeSound
    <3>2. a \in Nat /\ m.orgs[a] \in Seq(Instrs)
      BY <1>1, PartialDef DEF Memory
    <3>3. m.orgs[a][1] \in Instrs
      BY <2>1, <3>2, ElementOfSeq
    <3>4. m.orgs[a][1].size \in Nat
      BY <3>3 DEF Instrs
    <3> QED BY <1>1, <1>4, <1>5, <3>1, <3>2, <3>4 DEF Fits
  <2>2. n.labels = m.labels
    BY <1>5 DEF SameNames
  <2> QED BY <1>5, <2>1, <2>2 DEF MemSound, CodeSound
<1>8. Moves(n, m, t, v)
  BY <1>2, <1>4, <1>5, <1>6, <1>7 DEF Moves, MemSound, e
<1> QED BY <1>8 DEF n

-----------------------------------------------------------------------------
(* Loops.  Those of the model are folds, over a set with CHOOSE or over a  *)
(* sequence with the greatest index first: Body is what each does.         *)

Body(kind, env, acc, x) ==
    CASE kind = "define" -> Define(acc, env.scopes[1][x], env.labels[Here(env)[x]].value)
      [] kind = "resolve" -> ResolveTemporaryLabel(acc, x)
      [] kind = "dump" -> DumpAt(acc, x)
      [] kind = "call" -> (LET g == GetLabel(acc, <<acc.ns, x>>)
                           IN  AddInstruction(g.m, Jump(-1, [lab |-> g.o, k |-> 0])))

Chosen(kind, s) == IF kind = "define" THEN CHOOSE x \in s : TRUE ELSE Max(s)
Item(kind, seq, x) == IF kind = "define" THEN x ELSE seq[x]

Folding(g, kind, env, base, seq, S) ==
    g = [s \in SUBSET S |->
           IF s = {} THEN base
           ELSE Body(kind, env, g[s \ {Chosen(kind, s)}], Item(kind, seq, Chosen(kind, s)))]

\* A loop over a finite set has a result.
LEMMA FoldExists ==
    ASSUME NEW kind, NEW env, NEW base, NEW seq, NEW S, IsFiniteSet(S),
           \A s \in SUBSET S : s # {} => Chosen(kind, s) \in s
    PROVE  \E g : Folding(g, kind, env, base, seq, S)
<1> DEFINE Next1(h, s) == Body(kind, env, h[s \ {Chosen(kind, s)}], Item(kind, seq, Chosen(kind, s)))
           Right(h, s) == h[s] = IF s = {} THEN base ELSE Next1(h, s)
           Upto(h, k) == \A s \in SUBSET S : Cardinality(s) <= k => Right(h, s)
           K == {k \in Nat : \E h : Upto(h, k)}
<1>1. \A s \in SUBSET S : IsFiniteSet(s) /\ Cardinality(s) \in Nat
                          /\ Cardinality(s) <= Cardinality(S)
  BY FS_Subset, FS_CardinalityType
<1>2. 0 \in K
  <2> DEFINE h == [s \in SUBSET S |-> base]
  <2>1. ASSUME NEW s \in SUBSET S, Cardinality(s) <= 0 PROVE Right(h, s)
    <3>1. s = {}
      BY <1>1, <2>1, FS_EmptySet
    <3> QED BY <3>1
  <2>2. Upto(h, 0)
    BY <2>1
  <2> HIDE DEF Upto, h
  <2> QED BY <2>2
<1>3. ASSUME NEW k \in Nat, k \in K PROVE k + 1 \in K
  <2>1. PICK h : Upto(h, k)
    BY <1>3
  <2> DEFINE h2 == [s \in SUBSET S |-> IF Cardinality(s) <= k THEN h[s] ELSE Next1(h, s)]
  <2>2. ASSUME NEW s \in SUBSET S, Cardinality(s) <= k + 1 PROVE Right(h2, s)
    <3>1. CASE s = {}
      <4>1. Cardinality(s) <= k
        BY <3>1, FS_EmptySet
      <4> QED BY <2>1, <3>1, <4>1
    <3>2. CASE s # {}
      <4> DEFINE c == Chosen(kind, s)
                 u == s \ {c}
      <4>1. c \in s /\ u \in SUBSET S
        BY <3>2
      <4> HIDE DEF c
      <4>2. Cardinality(u) = Cardinality(s) - 1 /\ Cardinality(u) \in Nat
        BY <1>1, <4>1, FS_RemoveElement
      <4>3. Cardinality(u) <= k
        BY <1>1, <2>2, <4>2
      <4> HIDE DEF u
      <4>4. h2[u] = h[u]
        BY <4>1, <4>3
      <4>5. h2[s] = Body(kind, env, h[u], Item(kind, seq, c))
        <5>1. CASE Cardinality(s) <= k
          BY <2>1, <3>2, <5>1 DEF u, c
        <5>2. CASE ~(Cardinality(s) <= k)
          BY <5>2 DEF u, c
        <5> QED BY <5>1, <5>2
      <4> HIDE DEF h2
      <4> QED BY <3>2, <4>4, <4>5 DEF u, c
    <3> QED BY <3>1, <3>2
  <2>3. Upto(h2, k + 1)
    BY <2>2
  <2> HIDE DEF Upto, h2
  <2> QED BY <2>3
<1>4. Nat \subseteq K
  <2> HIDE DEF K
  <2> QED BY <1>2, <1>3, NatSetInduction
<1>5. Cardinality(S) \in K
  BY <1>4, FS_CardinalityType
<1>6. PICK h : Upto(h, Cardinality(S))
  BY <1>5
<1> DEFINE g == [s \in SUBSET S |-> h[s]]
<1>7. ASSUME NEW s \in SUBSET S
      PROVE  g[s] = IF s = {} THEN base
                    ELSE Body(kind, env, g[s \ {Chosen(kind, s)}], Item(kind, seq, Chosen(kind, s)))
  <2>1. Right(h, s)
    BY <1>1, <1>6
  <2>2. g[s] = h[s] /\ g[s \ {Chosen(kind, s)}] = h[s \ {Chosen(kind, s)}]
    OBVIOUS
  <2> HIDE DEF g
  <2> QED BY <2>1, <2>2
<1>8. g = [s \in SUBSET S |-> g[s]]
  OBVIOUS
<1> HIDE DEF g
<1>9. Folding(g, kind, env, base, seq, S)
  BY <1>7, <1>8, Zenon DEF Folding
<1> QED BY <1>9

\* It keeps what each step keeps.
LEMMA FoldStays ==
    ASSUME NEW kind, NEW env, NEW base, NEW seq, NEW S, IsFiniteSet(S),
           \A s \in SUBSET S : s # {} => Chosen(kind, s) \in s,
           NEW Good, base \in Good,
           \A acc \in Good, x \in S : Body(kind, env, acc, Item(kind, seq, x)) \in Good
    PROVE  /\ \E g : Folding(g, kind, env, base, seq, S)
           /\ \A g : Folding(g, kind, env, base, seq, S) => g[S] \in Good
<1>1. \A s \in SUBSET S : IsFiniteSet(s) /\ Cardinality(s) \in Nat
                          /\ Cardinality(s) <= Cardinality(S)
  BY FS_Subset, FS_CardinalityType
<1>2. ASSUME NEW f, Folding(f, kind, env, base, seq, S) PROVE f[S] \in Good
  <2> DEFINE J == {k \in Nat : \A s \in SUBSET S : Cardinality(s) <= k => f[s] \in Good}
  <2>1. \A s \in SUBSET S : f[s] = IF s = {} THEN base
           ELSE Body(kind, env, f[s \ {Chosen(kind, s)}], Item(kind, seq, Chosen(kind, s)))
    BY <1>2, Zenon DEF Folding
  <2>2. 0 \in J
    <3> SUFFICES ASSUME NEW s \in SUBSET S, Cardinality(s) <= 0 PROVE f[s] \in Good
      OBVIOUS
    <3>1. s = {}
      BY <1>1, FS_EmptySet
    <3> QED BY <2>1, <3>1
  <2>3. ASSUME NEW k \in Nat, k \in J PROVE k + 1 \in J
    <3> SUFFICES ASSUME NEW s \in SUBSET S, Cardinality(s) <= k + 1 PROVE f[s] \in Good
      OBVIOUS
    <3>1. CASE s = {}
      BY <2>1, <3>1
    <3>2. CASE s # {}
      <4> DEFINE c == Chosen(kind, s)
                 u == s \ {c}
      <4>1. c \in s /\ u \in SUBSET S /\ c \in S
        BY <3>2
      <4>2. f[s] = Body(kind, env, f[u], Item(kind, seq, c))
        BY <2>1, <3>2
      <4> HIDE DEF c
      <4>3. Cardinality(u) = Cardinality(s) - 1 /\ Cardinality(u) \in Nat
        BY <1>1, <4>1, FS_RemoveElement
      <4>4. Cardinality(u) <= k
        BY <1>1, <4>3
      <4> HIDE DEF u
      <4>5. f[u] \in Good
        BY <2>3, <4>1, <4>4
      <4> QED BY <4>1, <4>2, <4>5
    <3> QED BY <3>1, <3>2
  <2>4. Nat \subseteq J
    <3> HIDE DEF J
    <3> QED BY <2>2, <2>3, NatSetInduction
  <2>5. Cardinality(S) \in J /\ Cardinality(S) <= Cardinality(S)
    BY <2>4, FS_CardinalityType
  <2> QED BY <2>5
<1>3. \E g : Folding(g, kind, env, base, seq, S)
  BY FoldExists
<1> QED BY <1>2, <1>3

\* The last index is one of them.
LEMMA MaxChosen ==
    ASSUME NEW n \in Nat, NEW kind, kind # "define"
    PROVE  IsFiniteSet(1..n) /\ \A s \in SUBSET (1..n) : s # {} => Chosen(kind, s) \in s
<1>1. IsFiniteSet(1..n)
  BY FS_Interval
<1>2. ASSUME NEW s \in SUBSET (1..n), s # {} PROVE Chosen(kind, s) \in s
  <2>1. s \in SUBSET Nat /\ IsFiniteSet(s)
    <3>1. s \in SUBSET Nat
      OBVIOUS
    <3> QED BY <1>1, <3>1, FS_Subset
  <2>2. \E x \in s : \A y \in s : x >= y
    BY <1>2, <2>1, GreatestExists
  <2> QED BY <2>2 DEF Chosen, Max
<1> QED BY <1>1, <1>2

-----------------------------------------------------------------------------
(* ENDP.                                                                   *)

\* The public names of the innermost scope.
Public(m) == {x \in DOMAIN Here(m) : ~m.labels[Here(m)[x]].local}

\* m with the values of the names in S given to the labels of the outermost scope.
Merged(m, S) ==
    FoldSet(LAMBDA x, r : Define(r, m.scopes[1][x], m.labels[Here(m)[x]].value), m, S)

\* n has the scopes of m, its labels with no value less and as local as they were.
Merges(n, m, t) ==
    /\ MemSound(n, t) /\ Kept(n, m) /\ n.scopes = m.scopes
    /\ Len(n.labels) = Len(m.labels)
    /\ \A p \in 1..Len(m.labels) : n.labels[p].local = m.labels[p].local
    /\ n.err = "none" => m.err = "none"

LEMMA MergedSound ==
    ASSUME NEW m, NEW t, MemSound(m, t), NEW S, IsFiniteSet(S),
           \A x \in S : /\ x \in DOMAIN Here(m) /\ x \in DOMAIN m.scopes[1]
                        /\ Defined(m, Here(m)[x])
    PROVE  Merges(Merged(m, S), m, t)
<1> DEFINE L == Len(m.labels)
           Good == {n \in Memory : Merges(n, m, t)}
           Is(g) == g = [s \in SUBSET S |->
                 IF s = {} THEN m
                 ELSE Define(g[s \ {CHOOSE x \in s : TRUE}], m.scopes[1][CHOOSE x \in s : TRUE],
                             m.labels[Here(m)[CHOOSE x \in s : TRUE]].value)]
           f == CHOOSE g : Is(g)
<1>1. /\ m \in Memory /\ L \in Nat /\ m.labels \in Seq(Labels) /\ Rooted(m.labels)
      /\ Len(m.scopes) \in Nat /\ Len(m.scopes) >= 1
      /\ \A x \in DOMAIN Here(m) : Here(m)[x] \in 1..L
  BY Facts
<1>2. m \in Good
  <2>1. Kept(m, m)
    BY <1>1, GrowsSame DEF Kept, SameRest
  <2> QED BY <1>1, <2>1 DEF Merges
<1>3. ASSUME NEW acc \in Good, NEW x \in S
      PROVE  Body("define", m, acc, Item("define", 0, x)) \in Good
  <2> DEFINE o == m.scopes[1][x]
             v == m.labels[Here(m)[x]].value
             n == Define(acc, o, v)
  <2>1. Merges(acc, m, t)
    OBVIOUS
  <2>2. Body("define", m, acc, Item("define", 0, x)) = n
    BY DEF Body, Item
  <2>3. o \in 1..L
    <3>1. 1 \in 1..Len(m.scopes) /\ x \in DOMAIN m.scopes[1]
      BY <1>1
    <3> QED BY <3>1 DEF MemSound, NamesSound, ScopesName
  <2>4. v \in Exprs /\ v.lab \in 0..L
    <3>1. Here(m)[x] \in 1..L /\ v # None
      BY <1>1 DEF Defined
    <3>2. m.labels[Here(m)[x]] \in Labels
      BY <1>1, <3>1, ElementOfSeq
    <3>3. v \in Exprs
      BY <3>1, <3>2 DEF Labels, Values
    <3> QED BY <1>1, <3>1, <3>3 DEF Rooted
  <2> HIDE DEF o, v
  <2>5. LET q == Define(acc, o, v) IN
        /\ MemSound(q, t) /\ Kept(q, acc) /\ q.scopes = acc.scopes
        /\ Len(q.labels) = Len(acc.labels)
        /\ \A p \in 1..Len(acc.labels) : q.labels[p].local = acc.labels[p].local
        /\ q.err = "none" => acc.err = "none"
    BY <2>1, <2>3, <2>4, DefineSound DEF Merges
  <2> HIDE DEF n
  <2>6. /\ MemSound(n, t) /\ Kept(n, acc) /\ n.scopes = acc.scopes
        /\ Len(n.labels) = Len(acc.labels)
        /\ \A p \in 1..Len(acc.labels) : n.labels[p].local = acc.labels[p].local
        /\ n.err = "none" => acc.err = "none"
    BY <2>5 DEF n
  <2>7. Kept(n, m)
    BY <2>1, <2>6, GrowsOn DEF Merges, Kept, SameRest
  <2>8. Merges(n, m, t) /\ n \in Memory
    BY <2>1, <2>6, <2>7 DEF Merges, MemSound
  <2> QED BY <2>2, <2>8
<1> HIDE DEF Good
<1>4. \A s \in SUBSET S : s # {} => Chosen("define", s) \in s
  BY DEF Chosen
<1>5. /\ \E g : Folding(g, "define", m, m, 0, S)
      /\ \A g : Folding(g, "define", m, m, 0, S) => g[S] \in Good
  BY <1>2, <1>3, <1>4, FoldStays
<1>6. Merged(m, S) = f[S]
  BY DEF Merged, FoldSet, MapThenFoldSet
<1>7. \A g : Is(g) <=> Folding(g, "define", m, m, 0, S)
  BY DEF Folding, Body, Item, Chosen
<1>8. Is(f)
  <2> HIDE DEF Is
  <2>1. \E g : Is(g)
    BY <1>5, <1>7
  <2> QED BY <2>1
<1> HIDE DEF f, Is
<1>9. f[S] \in Good
  BY <1>5, <1>7, <1>8
<1> QED BY <1>6, <1>9 DEF Good

\* What ENDP leaves.
Leaves(n, m, t) ==
    /\ MemSound(n, t) /\ Kept(n, m)
    /\ n.err = "none" =>
         /\ m.err = "none" /\ Len(m.scopes) > 1 /\ Len(n.scopes) = Len(m.scopes) - 1
         /\ \A d \in 2..Len(n.scopes) : n.scopes[d] = m.scopes[d]
         /\ DOMAIN n.scopes[1] = DOMAIN m.scopes[1] \cup Public(m)
         /\ Len(n.labels) = Len(m.labels)
         /\ \A p \in 1..Len(m.labels) : n.labels[p].local = m.labels[p].local

LEMMA ExitProcSound ==
    ASSUME NEW m, NEW t, MemSound(m, t),
           \A x \in Public(m) : x \in DOMAIN m.scopes[1] => Defined(m, Here(m)[x])
    PROVE  Leaves(ExitProc(m), m, t)
<1> DEFINE L == Len(m.labels)
           D == Len(m.scopes)
           P == Public(m)
           S == P \cap DOMAIN m.scopes[1]
           lost == \E o \in {Here(m)[x] : x \in DOMAIN Here(m) \ P} : ~Defined(m, o)
           r == Merged(m, S)
           h == [x \in P |-> Here(m)[x]]
           sc == [Front(r.scopes) EXCEPT ![1] = Over(m.scopes[1], h)]
           q == [r EXCEPT !.scopes = sc]
           n == ExitProc(m)
<1>1. /\ m \in Memory /\ L \in Nat /\ m.labels \in Seq(Labels) /\ m.scopes \in Seq(Tables)
      /\ D \in Nat /\ D >= 1 /\ Here(m) = m.scopes[D]
      /\ \A x \in DOMAIN Here(m) : Here(m)[x] \in 1..L
  BY Facts
<1>2. n = IF D <= 1 THEN Error(m, "ENDP without PROC")
          ELSE IF lost THEN Error(m, "undefined LOCAL") ELSE q
  <2>1. [r EXCEPT !.scopes = [Front(@) EXCEPT ![1] = Over(m.scopes[1], h)]] = q
    OBVIOUS
  <2> QED BY <2>1 DEF ExitProc, Merged, Public
<1> HIDE DEF n
<1>3. ASSUME NEW e \in Messages, e # "none", n = Error(m, e) PROVE Leaves(n, m, t)
  <2>1. Alike(n, m, t) /\ SameRest(n, m) /\ n.err # "none"
    BY <1>3, ErrorSound
  <2>2. Kept(n, m)
    BY <1>1, <2>1, GrowsSame DEF Alike, SameNames, SameCode, Kept
  <2> QED BY <2>1, <2>2 DEF Leaves, Alike
<1>4. "ENDP without PROC" \in Messages /\ "undefined LOCAL" \in Messages
  BY DEF Messages
<1>5. ASSUME D <= 1 PROVE Leaves(n, m, t)
  <2> DEFINE e == "ENDP without PROC"
  <2>1. e \in Messages /\ e # "none" /\ n = Error(m, e)
    BY <1>2, <1>4, <1>5
  <2> HIDE DEF e
  <2> QED BY <1>3, <2>1
<1>6. ASSUME ~(D <= 1), lost PROVE Leaves(n, m, t)
  <2> DEFINE e == "undefined LOCAL"
  <2>1. e \in Messages /\ e # "none" /\ n = Error(m, e)
    BY <1>2, <1>4, <1>6
  <2> HIDE DEF e
  <2> QED BY <1>3, <2>1
<1>7. ASSUME ~(D <= 1), ~lost PROVE Leaves(n, m, t)
  <2>1. n = q
    BY <1>2, <1>7
  <2>2. \A x \in DOMAIN Here(m) \ P : Defined(m, Here(m)[x])
    BY <1>7
  <2>3. P \subseteq DOMAIN Here(m) /\ IsFiniteSet(P)
    <3>1. IsFiniteSet(DOMAIN Here(m))
      BY <1>1 DEF MemSound, NamesSound, ScopesName
    <3>2. P \subseteq DOMAIN Here(m)
      BY DEF Public
    <3> QED BY <3>1, <3>2, FS_Subset
  <2> HIDE DEF lost, P
  <2>4. Merges(r, m, t)
    <3>1. IsFiniteSet(S)
      <4>1. S \subseteq P
        OBVIOUS
      <4> HIDE DEF S
      <4> QED BY <2>3, <4>1, FS_Subset
    <3>2. \A x \in S : x \in DOMAIN Here(m) /\ x \in DOMAIN m.scopes[1] /\ Defined(m, Here(m)[x])
      BY <2>3 DEF P
    <3> HIDE DEF S
    <3> QED BY <3>1, <3>2, MergedSound
  <2> HIDE DEF r
  <2>5. r \in Memory /\ r.scopes = m.scopes /\ Len(r.labels) = L
    BY <2>4 DEF Merges, MemSound
  <2>6. h \in Tables /\ DOMAIN h = P /\ \A x \in P : h[x] = m.scopes[D][x]
    <3>1. h = [x \in DOMAIN h |-> h[x]] /\ DOMAIN h = P /\ \A x \in P : h[x] = Here(m)[x]
      OBVIOUS
    <3> HIDE DEF h
    <3>2. Here(m) \in Tables
      BY <1>1, ElementOfSeq
    <3>3. DOMAIN Here(m) \subseteq Keys /\ \A x \in DOMAIN Here(m) : Here(m)[x] \in Nat
      BY <3>2, PartialDef DEF Tables
    <3>4. DOMAIN h \subseteq Keys /\ \A x \in DOMAIN h : h[x] \in Nat
      BY <2>3, <3>1, <3>3
    <3> QED BY <1>1, <3>1, <3>4, PartialDef DEF Tables
  <2> HIDE DEF h
  <2> DEFINE fr == Front(m.scopes)
             ov == Over(m.scopes[1], h)
  <2>7. fr \in Seq(Tables) /\ Len(fr) = D - 1 /\ \A d \in 1..(D - 1) : fr[d] = m.scopes[d]
    BY <1>1, FrontOf
  <2>8. ov \in Tables /\ Joins(ov, m.scopes[1], h)
    <3>1. m.scopes[1] \in Tables
      BY <1>1, ElementOfSeq
    <3> QED BY <2>6, <3>1, OverIsTable DEF Tables
  <2>9. sc = [fr EXCEPT ![1] = ov]
    <3>1. 1 \in 1..(D - 1)
      BY <1>1, <1>7
    <3>2. fr[1] = m.scopes[1]
      BY <2>7, <3>1
    <3> QED BY <2>5, <3>2
  <2> HIDE DEF fr, ov, sc
  <2>10. /\ sc \in Seq(Tables) /\ Len(sc) = D - 1 /\ sc[1] = ov
         /\ \A d \in 2..(D - 1) : sc[d] = m.scopes[d]
    <3>1. 1 \in 1..Len(fr)
      BY <1>1, <1>7, <2>7
    <3>2. /\ sc \in Seq(Tables) /\ Len(sc) = Len(fr)
          /\ \A d \in 1..Len(fr) : sc[d] = IF d = 1 THEN ov ELSE fr[d]
      BY <2>7, <2>8, <2>9, <3>1, ExceptSeq
    <3>3. \A d \in 2..(D - 1) : d \in 1..Len(fr) /\ d # 1
      BY <1>1, <2>7
    <3> QED BY <2>7, <3>1, <3>2, <3>3
  <2>11. /\ q \in Memory /\ q.scopes = sc /\ q.labels = r.labels /\ q.waiting = r.waiting
         /\ SameCode(q, r) /\ SameRest(q, r) /\ q.err = r.err
    BY <2>5, <2>10 DEF Memory, SameCode, SameRest
  <2> HIDE DEF q
  <2>12. Grows(q, m) /\ Grows(q, r)
    <3>1. Grows(q, r)
      BY <2>5, <2>11, GrowsSame
    <3> QED BY <2>4, <3>1, GrowsOn DEF Merges, Kept
  <2>13. Kept(q, m)
    BY <2>4, <2>11, <2>12 DEF Merges, Kept, SameCode, SameRest
  <2>14. /\ DOMAIN sc[1] = DOMAIN m.scopes[1] \cup P
         /\ \A x \in DOMAIN m.scopes[1] : sc[1][x] = m.scopes[1][x]
         /\ \A x \in P \ DOMAIN m.scopes[1] : sc[1][x] = m.scopes[D][x]
    BY <2>6, <2>8, <2>10 DEF Joins
  <2>15. \A d \in 1..D : /\ IsFiniteSet(DOMAIN m.scopes[d])
                         /\ \A x \in DOMAIN m.scopes[d] : m.scopes[d][x] \in 1..L
    BY DEF MemSound, NamesSound, ScopesName
  <2>16. ScopesName(q)
    <3>1. q.scopes # << >>
      BY <1>1, <1>7, <2>10, <2>11
    <3>2. ASSUME NEW d \in 1..(D - 1)
          PROVE  /\ IsFiniteSet(DOMAIN sc[d])
                 /\ \A x \in DOMAIN sc[d] : sc[d][x] \in 1..L
      <4>1. CASE d = 1
        <5>1. IsFiniteSet(DOMAIN m.scopes[1]) /\ \A x \in DOMAIN m.scopes[1] : m.scopes[1][x] \in 1..L
          BY <1>1, <2>15
        <5>2. IsFiniteSet(DOMAIN m.scopes[1] \cup P)
          BY <2>3, <5>1, FS_Union
        <5>3. \A x \in P : m.scopes[D][x] \in 1..L
          BY <1>1, <2>3
        <5>4. IsFiniteSet(DOMAIN sc[1])
          BY <2>14, <5>2
        <5>5. \A x \in DOMAIN sc[1] : sc[1][x] \in 1..L
          BY <2>14, <5>1, <5>3
        <5> QED BY <4>1, <5>4, <5>5
      <4>2. CASE d # 1
        <5>1. d \in 2..(D - 1) /\ d \in 1..D
          BY <1>1, <4>2
        <5> QED BY <2>10, <2>15, <5>1
      <4> QED BY <4>1, <4>2
    <3> QED BY <2>5, <2>10, <2>11, <3>1, <3>2 DEF ScopesName
  <2>17. ASSUME NEW o \in 1..Len(q.labels) PROVE Held(q, o)
    <3>1. o \in 1..L /\ o \in 1..Len(r.labels) /\ Held(r, o)
      BY <2>4, <2>5, <2>11 DEF Merges, MemSound, NamesSound
    <3>2. Defined(m, o) => Held(q, o)
      BY <2>12, <3>1 DEF Grows, Held
    <3>3. Defined(r, o) => Held(q, o)
      BY <2>11 DEF Held, Defined
    <3>4. (\E k \in 1..Len(r.waiting) : r.waiting[k] = o) => Held(q, o)
      BY <2>11 DEF Held
    <3>5. ASSUME NEW d \in 1..D, NEW x \in DOMAIN m.scopes[d], m.scopes[d][x] = o
          PROVE  Held(q, o)
      <4>1. ASSUME NEW e \in 1..(D - 1), x \in DOMAIN sc[e], sc[e][x] = o PROVE Held(q, o)
        <5>1. e \in 1..Len(q.scopes) /\ x \in DOMAIN q.scopes[e] /\ q.scopes[e][x] = o
          BY <2>10, <2>11, <4>1
        <5> QED BY <5>1 DEF Held
      <4>2. 1 \in 1..(D - 1)
        BY <1>1, <1>7
      <4>3. CASE d = 1
        <5>1. x \in DOMAIN sc[1] /\ sc[1][x] = o
          BY <2>14, <3>5, <4>3
        <5> QED BY <4>1, <4>2, <5>1
      <4>4. CASE d # 1 /\ d # D
        <5>1. d \in 2..(D - 1) /\ d \in 1..(D - 1)
          BY <1>1, <4>4
        <5>2. sc[d] = m.scopes[d]
          BY <2>10, <5>1
        <5> QED BY <3>5, <4>1, <5>1, <5>2
      <4>5. CASE d = D
        <5>1. x \in DOMAIN Here(m) /\ Here(m)[x] = o
          BY <1>1, <3>5, <4>5
        <5>2. CASE x \notin P
          <6>1. Defined(m, o)
            BY <2>2, <5>1, <5>2
          <6> QED BY <3>2, <6>1
        <5>3. CASE x \in P /\ x \in DOMAIN m.scopes[1]
          <6>1. Defined(m, o)
            BY <5>1, <5>3 DEF P
          <6> QED BY <3>2, <6>1
        <5>4. CASE x \in P /\ x \notin DOMAIN m.scopes[1]
          <6>1. x \in DOMAIN sc[1] /\ sc[1][x] = o
            BY <2>14, <3>5, <4>5, <5>4
          <6> QED BY <4>1, <4>2, <6>1
        <5> QED BY <5>2, <5>3, <5>4
      <4> QED BY <4>3, <4>4, <4>5
    <3>6. \/ Defined(r, o)
          \/ \E d \in 1..D : \E x \in DOMAIN m.scopes[d] : m.scopes[d][x] = o
          \/ \E k \in 1..Len(r.waiting) : r.waiting[k] = o
      BY <2>5, <3>1 DEF Held
    <3> QED BY <3>3, <3>4, <3>5, <3>6
  <2>18. NamesSound(q)
    BY <2>4, <2>11, <2>16, <2>17 DEF NamesSound, Merges, MemSound
  <2>19. CodeSound(q, t)
    BY <2>4, <2>11, <2>12, CodeKept DEF Merges, MemSound
  <2>20. Leaves(q, m, t)
    <3>1. /\ m.scopes \in Seq(Tables) /\ D > 1 /\ Len(q.scopes) = D - 1
          /\ \A d \in 2..Len(q.scopes) : q.scopes[d] = m.scopes[d]
          /\ DOMAIN q.scopes[1] = DOMAIN m.scopes[1] \cup P
      BY <1>1, <1>7, <2>10, <2>11, <2>14
    <3>2. /\ Len(q.labels) = L
          /\ q.err = "none" => m.err = "none"
          /\ \A p \in 1..L : q.labels[p].local = m.labels[p].local
      BY <2>4, <2>11 DEF Merges
    <3> QED BY <2>11, <2>13, <2>18, <2>19, <3>1, <3>2 DEF Leaves, MemSound, P
  <2> QED BY <2>1, <2>20
<1>8. Leaves(n, m, t)
  BY <1>5, <1>6, <1>7
<1> QED BY <1>8 DEF n

-----------------------------------------------------------------------------
(* The scopes and the text read so far.                                    *)

\* Line j of t, in the PROC at line p or below it, mentions the name x.
MentionedAt(t, x, p, j) ==
    /\ j \in Uses(t) \cup Definitions(t) /\ p \in ToSet(Opens(t)[j])
    /\ x \in {Full(t, j, t[j].name), UsedName(t, j)}
Mentions(t, x, p) == \E j \in 1..Len(t) : MentionedAt(t, x, p, j)

\* The PROCs in o are those open, each with its scope.  A name is in the scope
\* of a PROC because it is LOCAL there or because the PROC mentions it, and a
\* LOCAL name is there.  What two PROCs have in common is LOCAL in the inner
\* one, and a public name with no value yet is not in the outermost scope.
Bound(m, t, o) ==
    /\ Len(m.scopes) = Len(o)
    /\ \A d \in 2..Len(o) : \A x \in DOMAIN m.scopes[d] :
         (x \in Locals(t, o[d]) /\ m.labels[m.scopes[d][x]].local) \/ Mentions(t, x, o[d])
    /\ \A d \in 2..Len(o) : \A x \in Locals(t, o[d]) :
         x \in DOMAIN m.scopes[d] /\ m.labels[m.scopes[d][x]].local
    /\ \A e \in 2..Len(o) : \A d \in 2..(e - 1) : \A x \in DOMAIN m.scopes[e] :
         x \in DOMAIN m.scopes[d] => m.labels[m.scopes[e][x]].local
    /\ \A e \in 2..Len(o) : \A x \in DOMAIN m.scopes[e] :
         ~Defined(m, m.scopes[e][x]) /\ ~m.labels[m.scopes[e][x]].local => x \notin DOMAIN m.scopes[1]

\* The lines of the grown text: the old ones and perhaps the last.
LEMMA LinesGrow ==
    ASSUME NEW t \in Texts, NEW s \in Stmts, NEW u, Grown(u, t, s), NEW ops
    PROVE  /\ DOMAIN u = 1..Len(u) /\ DOMAIN t = 1..Len(t)
           /\ \A j : j \in Lines(t, ops) <=> j \in 1..Len(t) /\ t[j].op \in ops
           /\ \A j : j \in Lines(u, ops) <=>
                j \in Lines(t, ops) \/ (j = Len(u) /\ s.op \in ops)
<1>1. /\ u \in Texts /\ Len(t) \in Nat /\ Len(u) = Len(t) + 1 /\ u[Len(u)] = s
      /\ \A i \in 1..Len(t) : u[i] = t[i]
  BY DEF Grown
<1>2. DOMAIN u = 1..Len(u) /\ DOMAIN t = 1..Len(t)
  BY <1>1 DEF Texts
<1>3. \A j : j \in Lines(t, ops) <=> j \in 1..Len(t) /\ t[j].op \in ops
  BY <1>2 DEF Lines
<1>4. \A j : j \in Lines(u, ops) <=> j \in 1..Len(u) /\ u[j].op \in ops
  BY <1>2 DEF Lines
<1>5. \A j : j \in 1..Len(u) <=> j \in 1..Len(t) \/ j = Len(u)
  BY <1>1
<1> QED BY <1>1, <1>2, <1>3, <1>4, <1>5

\* Names at the old lines and at the new one.
LEMMA NamesGrow ==
    ASSUME NEW t \in Texts, NEW s \in Stmts, NEW u, Grown(u, t, s)
    PROVE  /\ \A j \in 1..Len(t) : \A x : Full(u, j, x) = Full(t, j, x)
           /\ \A j \in 1..Len(t) : /\ UsedName(u, j) = UsedName(t, j)
                                   /\ Opens(u)[j] = Opens(t)[j] /\ u[j] = t[j]
           /\ \A x : Full(u, Len(u), x) = <<Last(Space(t)), x>>
           /\ UsedName(u, Len(u)) = <<Last(Space(t)), IF s.op = "equ" THEN s.of ELSE s.name>>
           /\ Opens(u)[Len(u)] = Open(t)
<1>1. /\ Len(t) \in Nat /\ Len(u) = Len(t) + 1 /\ u[Len(u)] = s
      /\ \A i \in 1..Len(t) : u[i] = t[i]
      /\ \A i \in 1..Len(u) : Opens(u)[i] = Opens(t)[i]
      /\ \A i \in 1..Len(u) : Spaces(u)[i] = Spaces(t)[i]
  BY DEF Grown
<1>2. \A j \in 1..Len(t) : j \in 1..Len(u)
  BY <1>1
<1>3. Len(u) \in 1..Len(u)
  BY <1>1
<1>4. \A j \in 1..Len(t) : \A x : Full(u, j, x) = Full(t, j, x)
  BY <1>1, <1>2 DEF Full
<1>5. \A x : Full(u, Len(u), x) = <<Last(Space(t)), x>>
  <2>1. Spaces(u)[Len(u)] = Space(t)
    BY <1>1, <1>3 DEF Space
  <2> QED BY <2>1 DEF Full
<1>6. Opens(u)[Len(u)] = Open(t)
  BY <1>1, <1>3 DEF Open
<1>7. \A j \in 1..Len(t) : UsedName(u, j) = UsedName(t, j)
  BY <1>1, <1>4 DEF UsedName
<1>8. UsedName(u, Len(u)) = <<Last(Space(t)), IF s.op = "equ" THEN s.of ELSE s.name>>
  BY <1>1, <1>5 DEF UsedName
<1> QED BY <1>1, <1>2, <1>4, <1>5, <1>6, <1>7, <1>8

LEMMA UsesGrow ==
    ASSUME NEW t \in Texts, NEW s \in Stmts, NEW u, Grown(u, t, s)
    PROVE  /\ \A j \in Uses(t) : j \in Uses(u)
           /\ \A j \in Definitions(t) : j \in Definitions(u)
           /\ s.op \in {"label", "equ"} => Len(u) \in Definitions(u)
           /\ s.op \in {"jp", "jr", "defw", "end"} => Len(u) \in Uses(u)
           /\ s.op = "equ" /\ s.of # "" => Len(u) \in Uses(u)
<1> DEFINE A == {"label", "equ"}
           B == {"jp", "jr", "defw", "end"}
           C == {"equ"}
<1>1. /\ \A j : j \in Lines(u, A) <=> j \in Lines(t, A) \/ (j = Len(u) /\ s.op \in A)
      /\ \A j : j \in Lines(u, B) <=> j \in Lines(t, B) \/ (j = Len(u) /\ s.op \in B)
      /\ \A j : j \in Lines(u, C) <=> j \in Lines(t, C) \/ (j = Len(u) /\ s.op \in C)
      /\ \A j : j \in Lines(t, C) => j \in 1..Len(t)
  <2> HIDE DEF A, B, C
  <2> QED BY LinesGrow
<1>2. s.op = "equ" <=> s.op \in C
  OBVIOUS
<1>3. /\ \A i \in 1..Len(t) : u[i] = t[i]
      /\ u[Len(u)] = s
  BY DEF Grown
<1>4. Definitions(t) = Lines(t, A) /\ Definitions(u) = Lines(u, A)
  BY DEF Definitions
<1>5. /\ Uses(t) = Lines(t, B) \cup {i \in Lines(t, C) : t[i].of # ""}
      /\ Uses(u) = Lines(u, B) \cup {i \in Lines(u, C) : u[i].of # ""}
  BY DEF Uses
<1> HIDE DEF A, B, C
<1>6. /\ \A j \in Uses(t) : j \in Uses(u)
      /\ \A j \in Definitions(t) : j \in Definitions(u)
      /\ s.op \in A => Len(u) \in Definitions(u)
      /\ s.op \in B => Len(u) \in Uses(u)
      /\ s.op \in C /\ s.of # "" => Len(u) \in Uses(u)
  BY <1>1, <1>3, <1>4, <1>5
<1> QED BY <1>2, <1>6 DEF A, B

LEMMA MentionsGrow ==
    ASSUME NEW t \in Texts, NEW s \in Stmts, NEW u, Grown(u, t, s), NEW x, NEW p, Mentions(t, x, p)
    PROVE  Mentions(u, x, p)
<1>1. PICK j \in 1..Len(t) : MentionedAt(t, x, p, j)
  BY DEF Mentions
<1>2. j \in 1..Len(u)
  BY DEF Grown
<1>3. /\ Full(u, j, t[j].name) = Full(t, j, t[j].name) /\ UsedName(u, j) = UsedName(t, j)
      /\ Opens(u)[j] = Opens(t)[j] /\ u[j] = t[j]
  BY NamesGrow
<1>4. j \in Uses(u) \cup Definitions(u)
  BY <1>1, UsesGrow DEF MentionedAt
<1>5. MentionedAt(u, x, p, j)
  BY <1>1, <1>3, <1>4 DEF MentionedAt
<1> QED BY <1>2, <1>5 DEF Mentions

\* The statement s after t mentions the name x.
Says(t, s, x) ==
    \/ s.op \in {"label", "equ", "jp", "jr", "defw", "end"} /\ x = <<Last(Space(t)), s.name>>
    \/ s.op = "equ" /\ s.of # "" /\ x = <<Last(Space(t)), s.of>>

\* The new line mentions its names in every PROC open.
LEMMA NewMention ==
    ASSUME NEW t \in Texts, NEW s \in Stmts, NEW u, Grown(u, t, s),
           NEW d \in 1..Len(Open(t)), NEW x, Says(t, s, x)
    PROVE  Mentions(u, x, Open(t)[d])
<1> DEFINE j == Len(u)
<1>1. j \in 1..Len(u) /\ u[j] = s /\ OpenStack(Open(t), Len(t) + 1) /\ Len(t) + 1 \in 1..(Len(t) + 1)
  <2>1. Len(t) + 1 \in 1..(Len(t) + 1)
    <3> DEFINE n == Len(t)
    <3>1. n \in Nat
      BY DEF Grown
    <3> HIDE DEF n
    <3>2. n + 1 \in 1..(n + 1)
      BY <3>1
    <3> QED BY <3>2 DEF n
  <2>2. LineTyped(t, Len(t) + 1)
    BY <2>1, LinesTyped
  <2> QED BY <2>1, <2>2 DEF Grown, LineTyped, Open
<1>2. Opens(u)[j] = Open(t) /\ Full(u, j, s.name) = <<Last(Space(t)), s.name>>
  <2>1. /\ \A y : Full(u, Len(u), y) = <<Last(Space(t)), y>>
        /\ Opens(u)[Len(u)] = Open(t)
    BY NamesGrow
  <2> QED BY <2>1
<1>3. UsedName(u, j) = <<Last(Space(t)), IF s.op = "equ" THEN s.of ELSE s.name>>
  BY NamesGrow
<1>4. Open(t)[d] \in ToSet(Opens(u)[j])
  <2>1. Open(t) \in Seq(Nat)
    BY <1>1 DEF OpenStack
  <2>2. d \in DOMAIN Open(t)
    BY <2>1, LenProperties
  <2> QED BY <1>2, <2>2 DEF ToSet
<1>5. j \in Uses(u) \cup Definitions(u)
  <2>1. /\ s.op \in {"label", "equ"} => j \in Definitions(u)
        /\ s.op \in {"jp", "jr", "defw", "end"} => j \in Uses(u)
    BY UsesGrow
  <2> HIDE DEF j
  <2> QED BY <2>1 DEF Says
<1>6. x \in {Full(u, j, u[j].name), UsedName(u, j)}
  <2> HIDE DEF j
  <2> QED BY <1>1, <1>2, <1>3 DEF Says
<1> HIDE DEF j
<1>7. MentionedAt(u, x, Open(t)[d], j)
  BY <1>4, <1>5, <1>6 DEF MentionedAt
<1> QED BY <1>1, <1>7 DEF Mentions

LEMMA LocalsDef ==
    ASSUME NEW t \in Texts, NEW p, NEW x
    PROVE  x \in Locals(t, p) <=>
             \E j \in 1..Len(t) : /\ t[j].op = "local" /\ Last(Opens(t)[j]) = p
                                  /\ x = Full(t, j, t[j].name)
<1>1. DOMAIN t = 1..Len(t)
  BY DEF Texts
<1> QED BY <1>1 DEF Locals, Lines

LEMMA LocalsGrow ==
    ASSUME NEW t \in Texts, NEW s \in Stmts, NEW u, Grown(u, t, s), NEW p, NEW x
    PROVE  x \in Locals(u, p) <=>
             \/ x \in Locals(t, p)
             \/ s.op = "local" /\ Last(Open(t)) = p /\ x = <<Last(Space(t)), s.name>>
<1>1. /\ Len(t) \in Nat /\ Len(u) = Len(t) + 1 /\ u[Len(u)] = s /\ u \in Texts
      /\ \A j : j \in 1..Len(u) <=> j \in 1..Len(t) \/ j = Len(u)
  BY DEF Grown
<1>2. /\ \A j \in 1..Len(t) : \A y : Full(u, j, y) = Full(t, j, y)
      /\ \A j \in 1..Len(t) : Opens(u)[j] = Opens(t)[j] /\ u[j] = t[j]
      /\ \A y : Full(u, Len(u), y) = <<Last(Space(t)), y>>
      /\ Opens(u)[Len(u)] = Open(t)
  BY NamesGrow
<1>3. x \in Locals(t, p) <=>
             \E j \in 1..Len(t) : /\ t[j].op = "local" /\ Last(Opens(t)[j]) = p
                                  /\ x = Full(t, j, t[j].name)
  BY LocalsDef
<1>4. x \in Locals(u, p) <=>
             \E j \in 1..Len(u) : /\ u[j].op = "local" /\ Last(Opens(u)[j]) = p
                                  /\ x = Full(u, j, u[j].name)
  BY <1>1, LocalsDef
<1>5. ASSUME x \in Locals(u, p)
      PROVE  \/ x \in Locals(t, p)
             \/ s.op = "local" /\ Last(Open(t)) = p /\ x = <<Last(Space(t)), s.name>>
  <2>1. PICK j \in 1..Len(u) : /\ u[j].op = "local" /\ Last(Opens(u)[j]) = p
                               /\ x = Full(u, j, u[j].name)
    BY <1>4, <1>5
  <2>2. CASE j \in 1..Len(t)
    BY <1>2, <1>3, <2>1, <2>2
  <2>3. CASE j = Len(u)
    BY <1>1, <1>2, <2>1, <2>3
  <2> QED BY <1>1, <2>2, <2>3
<1>6. ASSUME x \in Locals(t, p) PROVE x \in Locals(u, p)
  <2>1. PICK j \in 1..Len(t) : /\ t[j].op = "local" /\ Last(Opens(t)[j]) = p
                               /\ x = Full(t, j, t[j].name)
    BY <1>3, <1>6
  <2>2. j \in 1..Len(u)
    BY <1>1
  <2> QED BY <1>2, <1>4, <2>1, <2>2
<1>7. ASSUME s.op = "local", Last(Open(t)) = p, x = <<Last(Space(t)), s.name>>
      PROVE  x \in Locals(u, p)
  <2> DEFINE j == Len(u)
  <2>1. j \in 1..Len(u)
    BY <1>1
  <2>2. u[j].op = "local" /\ Last(Opens(u)[j]) = p /\ x = Full(u, j, u[j].name)
    BY <1>1, <1>2, <1>7
  <2> QED BY <1>4, <2>1, <2>2
<1> QED BY <1>5, <1>6, <1>7

\* A line that is no LOCAL changes nothing about the scopes there are.
LEMMA BoundGrows ==
    ASSUME NEW t \in Texts, NEW s \in Stmts, NEW u, Grown(u, t, s), s.op # "local",
           NEW m, NEW o, Bound(m, t, o)
    PROVE  Bound(m, u, o)
<1>1. \A x, p : x \in Locals(u, p) <=> x \in Locals(t, p)
  BY LocalsGrow
<1>2. \A x, p : Mentions(t, x, p) => Mentions(u, x, p)
  BY MentionsGrow
<1> QED BY <1>1, <1>2 DEF Bound

\* A memory with the same scopes and no label less.
LEMMA BoundKept ==
    ASSUME NEW t, NEW m, NEW n, NEW o, Bound(m, t, o), ScopesName(m), Grows(n, m), n.scopes = m.scopes
    PROVE  Bound(n, t, o)
<1>1. Len(m.scopes) = Len(o)
  BY DEF Bound
<1>2. \A d \in 2..Len(o) : d \in 1..Len(m.scopes)
  BY <1>1
<1>3. \A d \in 2..Len(o) : \A x \in DOMAIN m.scopes[d] :
         /\ Defined(m, m.scopes[d][x]) => Defined(n, m.scopes[d][x])
         /\ m.labels[m.scopes[d][x]].local => n.labels[m.scopes[d][x]].local
  BY <1>2 DEF ScopesName, Grows
<1> QED BY <1>3 DEF Bound

\* One more name in the innermost scope, public there: an open PROC mentions
\* it, and no other PROC that is open has it.
LEMMA BoundAdds ==
    ASSUME NEW t, NEW m, NEW n, NEW o, Bound(m, t, o), ScopesName(m), Grows(n, m), NEW name,
           Adds(n, m, name, FALSE), name \notin DOMAIN Here(m),
           \A d \in 2..Len(o) : Mentions(t, name, o[d]),
           \A d \in 2..Len(o) : d # Len(o) => name \notin DOMAIN m.scopes[d],
           Defined(n, Len(n.labels)) \/ name \notin DOMAIN m.scopes[1]
    PROVE  Bound(n, t, o)
<1> DEFINE D == Len(m.scopes)
           L == Len(n.labels)
<1>1. /\ Len(n.scopes) = D /\ D = Len(o) /\ D \in Nat /\ D >= 1
      /\ \A d \in 1..D : d # D => n.scopes[d] = m.scopes[d]
      /\ n.labels[L].local = FALSE
  BY DEF Adds, Bound
<1>2. /\ DOMAIN n.scopes[D] = DOMAIN m.scopes[D] \cup {name} /\ n.scopes[D][name] = L
      /\ \A x \in DOMAIN m.scopes[D] : n.scopes[D][x] = m.scopes[D][x]
  <2>1. Extends(n.scopes[D], m.scopes[D], name, L)
    BY <1>1 DEF Adds
  <2>2. name \notin DOMAIN m.scopes[D]
    BY DEF Here
  <2> HIDE DEF D, L
  <2> QED BY <2>1, <2>2 DEF Extends
<1>3. \A d \in 2..D : d \in 1..D
  BY <1>1
<1>4. \A d \in 1..D : \A x \in DOMAIN m.scopes[d] :
         /\ Defined(m, m.scopes[d][x]) => Defined(n, m.scopes[d][x])
         /\ m.labels[m.scopes[d][x]].local => n.labels[m.scopes[d][x]].local
  BY DEF ScopesName, Grows
<1>5. \A d \in 1..D : \A x \in DOMAIN m.scopes[d] : x \in DOMAIN n.scopes[d] /\ n.scopes[d][x] = m.scopes[d][x]
  BY <1>1, <1>2
<1>6. \A d \in 1..D : \A x \in DOMAIN n.scopes[d] :
        x \in DOMAIN m.scopes[d] \/ (d = D /\ x = name)
  BY <1>1, <1>2
<1>7. Defined(n, L) \/ name \notin DOMAIN m.scopes[1]
  OBVIOUS
<1> HIDE DEF D, L
<1>8. ASSUME NEW d \in 2..D, NEW x \in DOMAIN n.scopes[d]
      PROVE  (x \in Locals(t, o[d]) /\ n.labels[n.scopes[d][x]].local) \/ Mentions(t, x, o[d])
  <2>1. CASE x \in DOMAIN m.scopes[d]
    BY <1>1, <1>3, <1>4, <1>5, <2>1 DEF Bound
  <2>2. CASE x = name
    BY <1>1, <2>2
  <2> QED BY <1>3, <1>6, <2>1, <2>2
<1>9. ASSUME NEW d \in 2..D, NEW x \in Locals(t, o[d])
      PROVE  x \in DOMAIN n.scopes[d] /\ n.labels[n.scopes[d][x]].local
  <2>1. x \in DOMAIN m.scopes[d] /\ m.labels[m.scopes[d][x]].local
    BY <1>1 DEF Bound
  <2> QED BY <1>3, <1>4, <1>5, <2>1
<1>10. ASSUME NEW e \in 2..D, NEW d \in 2..(e - 1), NEW x \in DOMAIN n.scopes[e], x \in DOMAIN n.scopes[d]
       PROVE  n.labels[n.scopes[e][x]].local
  <2>1. d \in 1..D /\ d # D /\ d \in 2..D /\ x \in DOMAIN m.scopes[d]
    BY <1>1, <1>10
  <2>2. x # name
    BY <1>1, <2>1
  <2>3. x \in DOMAIN m.scopes[e] /\ e \in 1..D
    BY <1>3, <1>6, <2>2
  <2>4. m.labels[m.scopes[e][x]].local
    BY <1>1, <2>1, <2>3 DEF Bound
  <2> QED BY <1>4, <1>5, <2>3, <2>4
<1>11. ASSUME NEW e \in 2..D, NEW x \in DOMAIN n.scopes[e],
              ~Defined(n, n.scopes[e][x]), ~n.labels[n.scopes[e][x]].local
       PROVE  x \notin DOMAIN n.scopes[1]
  <2>1. e \in 1..D /\ 1 \in 1..D /\ 1 # D
    BY <1>1
  <2>2. n.scopes[1] = m.scopes[1]
    BY <1>1, <2>1
  <2>3. CASE x \in DOMAIN m.scopes[e]
    <3>1. n.scopes[e][x] = m.scopes[e][x]
      BY <1>5, <2>1, <2>3
    <3>2. ~Defined(m, m.scopes[e][x]) /\ ~m.labels[m.scopes[e][x]].local
      BY <1>4, <1>11, <2>1, <2>3, <3>1
    <3>3. x \notin DOMAIN m.scopes[1]
      BY <1>1, <2>3, <3>2 DEF Bound
    <3> QED BY <2>2, <3>3
  <2>4. CASE e = D /\ x = name
    <3>1. ~Defined(n, L)
      BY <1>2, <1>11, <2>4
    <3> QED BY <1>7, <2>2, <2>4, <3>1
  <2> QED BY <1>6, <2>1, <2>3, <2>4
<1> QED BY <1>1, <1>8, <1>9, <1>10, <1>11 DEF Bound

\* PROC.
LEMMA BoundEnters ==
    ASSUME NEW t \in Texts, NEW s \in Stmts, NEW u, Grown(u, t, s), s.op = "proc",
           NEW m, NEW n, Bound(m, t, Open(t)), Enters(n, m, t), ScopesName(m)
    PROVE  Bound(n, u, Open(u))
<1> DEFINE o == Open(t)
           D == Len(o)
           q == Open(u)
           p == Len(u)
<1>1. /\ OpenStack(o, Len(t) + 1) /\ Len(t) \in Nat /\ p = Len(t) + 1 /\ u \in Texts /\ u[p] = s
  <2>1. Len(t) \in Nat
    BY DEF Grown
  <2>2. Len(t) + 1 \in 1..(Len(t) + 1)
    BY <2>1
  <2>3. LineTyped(t, Len(t) + 1)
    BY <2>2, LinesTyped
  <2> QED BY <2>1, <2>3 DEF Grown, LineTyped, Open
<1>2. o \in Seq(Nat) /\ D \in Nat /\ D >= 1 /\ Len(m.scopes) = D
  BY <1>1 DEF OpenStack, Bound
<1>3. q = Append(o, p)
  <2>1. Open(u) = Step("open", u, Open(t), p + 1) /\ (p + 1) - 1 = p /\ p + 1 # 1
    BY <1>1 DEF Grown
  <2> QED BY <1>1, <2>1 DEF Step
<1>4. Len(q) = D + 1 /\ q[D + 1] = p /\ \A d \in 1..D : q[d] = o[d]
  <2> HIDE DEF o, p
  <2> QED BY <1>2, <1>3
<1>5. /\ Len(n.scopes) = D + 1 /\ DOMAIN n.scopes[D + 1] = {} /\ n.labels = m.labels
      /\ \A d \in 1..D : n.scopes[d] = m.scopes[d]
  BY <1>2 DEF Enters
<1>6. Bound(m, u, o)
  BY BoundGrows
<1>7. ASSUME NEW x PROVE x \notin Locals(u, p)
  <2>1. SUFFICES ASSUME NEW j \in 1..p, u[j].op = "local", Last(Opens(u)[j]) = p PROVE FALSE
    BY <1>1, LocalsDef
  <2>2. OpenStack(Opens(u)[j], j) /\ j \in Nat /\ j <= p
    <3>1. j \in 1..(Len(u) + 1) /\ j \in Nat /\ j <= p
      BY <1>1
    <3> QED BY <1>1, <3>1, LinesTyped DEF LineTyped
  <2> DEFINE c == Opens(u)[j]
  <2>3. Last(c) < j
    <3>1. Len(c) \in Nat /\ Len(c) >= 1
      BY <2>2 DEF OpenStack
    <3> QED BY <2>2, <3>1 DEF OpenStack, Last
  <2> QED BY <1>1, <2>1, <2>2, <2>3
<1> HIDE DEF o, D, q, p
<1>8. \A d \in 2..(D + 1) : d \in 2..D \/ d = D + 1
  BY <1>2
<1>9. \A d \in 2..D : d \in 1..D
  BY <1>2
<1>10. ASSUME NEW d \in 2..(D + 1), NEW x \in DOMAIN n.scopes[d]
       PROVE  (x \in Locals(u, q[d]) /\ n.labels[n.scopes[d][x]].local) \/ Mentions(u, x, q[d])
  BY <1>4, <1>5, <1>6, <1>8, <1>9 DEF Bound, D
<1>11. ASSUME NEW d \in 2..(D + 1), NEW x \in Locals(u, q[d])
       PROVE  x \in DOMAIN n.scopes[d] /\ n.labels[n.scopes[d][x]].local
  <2>1. d \in 2..D
    BY <1>4, <1>7, <1>8
  <2> QED BY <1>4, <1>5, <1>6, <1>9, <2>1 DEF Bound, D
<1>12. ASSUME NEW e \in 2..(D + 1), NEW d \in 2..(e - 1), NEW x \in DOMAIN n.scopes[e], x \in DOMAIN n.scopes[d]
       PROVE  n.labels[n.scopes[e][x]].local
  <2>1. e \in 2..D
    BY <1>5, <1>8
  <2>2. d \in 1..D
    BY <1>2, <2>1
  <2> QED BY <1>5, <1>6, <1>9, <1>12, <2>1, <2>2 DEF Bound, D
<1>13. ASSUME NEW e \in 2..(D + 1), NEW x \in DOMAIN n.scopes[e],
              ~Defined(n, n.scopes[e][x]), ~n.labels[n.scopes[e][x]].local
       PROVE  x \notin DOMAIN n.scopes[1]
  <2>1. e \in 2..D /\ 1 \in 1..D
    BY <1>2, <1>5, <1>8
  <2> QED BY <1>5, <1>6, <1>9, <1>13, <2>1 DEF Bound, D, Defined
<1>14. Bound(n, u, q)
  BY <1>4, <1>5, <1>10, <1>11, <1>12, <1>13 DEF Bound
<1> QED BY <1>14 DEF q

\* ENDP.
LEMMA BoundLeaves ==
    ASSUME NEW t \in Texts, NEW s \in Stmts, NEW u, Grown(u, t, s), s.op = "endp",
           NEW m, NEW n, Bound(m, t, Open(t)), Leaves(n, m, t), n.err = "none", ScopesName(m)
    PROVE  Bound(n, u, Open(u))
<1> DEFINE o == Open(t)
           D == Len(o)
           q == Open(u)
           p == Len(u)
<1>1. /\ OpenStack(o, Len(t) + 1) /\ Len(t) \in Nat /\ p = Len(t) + 1 /\ u \in Texts /\ u[p] = s
  <2>1. Len(t) \in Nat
    BY DEF Grown
  <2>2. Len(t) + 1 \in 1..(Len(t) + 1)
    BY <2>1
  <2>3. LineTyped(t, Len(t) + 1)
    BY <2>2, LinesTyped
  <2> QED BY <2>1, <2>3 DEF Grown, LineTyped, Open
<1>2. o \in Seq(Nat) /\ D \in Nat /\ D > 1 /\ Len(m.scopes) = D
  BY <1>1 DEF OpenStack, Bound, Leaves
<1>3. q = Front(o)
  <2>1. Open(u) = Step("open", u, Open(t), p + 1) /\ (p + 1) - 1 = p /\ p + 1 # 1
    BY <1>1 DEF Grown
  <2> QED BY <1>1, <1>2, <2>1 DEF Step
<1>4. Len(q) = D - 1 /\ \A d \in 1..(D - 1) : q[d] = o[d]
  <2> HIDE DEF o
  <2> QED BY <1>2, <1>3, FrontOf DEF D
<1>5. /\ Len(n.scopes) = D - 1 /\ \A d \in 2..(D - 1) : n.scopes[d] = m.scopes[d]
      /\ DOMAIN n.scopes[1] = DOMAIN m.scopes[1] \cup Public(m) /\ Grows(n, m)
      /\ \A x \in 1..Len(m.labels) : n.labels[x].local = m.labels[x].local
  <2>1. Len(n.scopes) = Len(m.scopes) - 1 /\ \A d \in 2..Len(n.scopes) : n.scopes[d] = m.scopes[d]
    BY DEF Leaves
  <2>2. Len(n.scopes) = D - 1
    BY <1>2, <2>1
  <2> HIDE DEF D
  <2> QED BY <2>1, <2>2 DEF Leaves, Kept
<1>6. Bound(m, u, o)
  BY BoundGrows
<1>7. \A d \in 2..(D - 1) : d \in 1..(D - 1) /\ d \in 2..D /\ d \in 1..Len(m.scopes)
  BY <1>2
<1>8. \A d \in 2..(D - 1) : \A x \in DOMAIN m.scopes[d] :
         /\ Defined(m, m.scopes[d][x]) => Defined(n, m.scopes[d][x])
         /\ n.labels[m.scopes[d][x]].local = m.labels[m.scopes[d][x]].local
  BY <1>5, <1>7 DEF ScopesName, Grows
<1> HIDE DEF o, D, q, p
<1>9. ASSUME NEW d \in 2..(D - 1), NEW x \in DOMAIN n.scopes[d]
      PROVE  (x \in Locals(u, q[d]) /\ n.labels[n.scopes[d][x]].local) \/ Mentions(u, x, q[d])
  <2>1. n.scopes[d] = m.scopes[d] /\ q[d] = o[d] /\ d \in 2..D
    BY <1>4, <1>5, <1>7
  <2>2. (x \in Locals(u, o[d]) /\ m.labels[m.scopes[d][x]].local) \/ Mentions(u, x, o[d])
    BY <1>6, <2>1 DEF Bound, D
  <2>3. n.labels[m.scopes[d][x]].local = m.labels[m.scopes[d][x]].local
    BY <1>8, <2>1
  <2> QED BY <2>1, <2>2, <2>3
<1>10. ASSUME NEW d \in 2..(D - 1), NEW x \in Locals(u, q[d])
       PROVE  x \in DOMAIN n.scopes[d] /\ n.labels[n.scopes[d][x]].local
  <2>1. x \in DOMAIN m.scopes[d] /\ m.labels[m.scopes[d][x]].local
    BY <1>4, <1>6, <1>7 DEF Bound, D
  <2> QED BY <1>5, <1>8, <2>1
<1>11. ASSUME NEW e \in 2..(D - 1), NEW d \in 2..(e - 1), NEW x \in DOMAIN n.scopes[e], x \in DOMAIN n.scopes[d]
       PROVE  n.labels[n.scopes[e][x]].local
  <2>1. d \in 2..(D - 1)
    BY <1>2
  <2>2. m.labels[m.scopes[e][x]].local
    BY <1>5, <1>6, <1>7, <1>11, <2>1 DEF Bound, D
  <2> QED BY <1>5, <1>8, <2>2
<1>12. ASSUME NEW e \in 2..(D - 1), NEW x \in DOMAIN n.scopes[e],
              ~Defined(n, n.scopes[e][x]), ~n.labels[n.scopes[e][x]].local
       PROVE  x \notin DOMAIN n.scopes[1]
  <2>1. x \in DOMAIN m.scopes[e] /\ ~Defined(m, m.scopes[e][x]) /\ ~m.labels[m.scopes[e][x]].local
    BY <1>5, <1>8, <1>12
  <2>2. x \notin DOMAIN m.scopes[1]
    BY <1>6, <1>7, <2>1 DEF Bound, D
  <2>3. x \notin Public(m)
    <3>1. SUFFICES ASSUME x \in Public(m) PROVE FALSE
      OBVIOUS
    <3>2. x \in DOMAIN m.scopes[D] /\ ~m.labels[m.scopes[D][x]].local
      BY <1>2, <3>1 DEF Public, Here
    <3>3. D \in 2..D /\ e \in 2..(D - 1)
      BY <1>2
    <3>4. m.labels[m.scopes[D][x]].local
      BY <1>6, <2>1, <3>2, <3>3 DEF Bound, D
    <3> QED BY <3>2, <3>4
  <2> QED BY <1>5, <2>2, <2>3
<1>13. Bound(n, u, q)
  BY <1>4, <1>5, <1>9, <1>10, <1>11, <1>12 DEF Bound
<1> QED BY <1>13 DEF q

\* LOCAL.
LEMMA BoundHides ==
    ASSUME NEW t \in Texts, NEW s \in Stmts, NEW u, Grown(u, t, s), s.op = "local",
           NEW m, NEW n, NEW name, name = <<Last(Space(t)), s.name>>,
           Bound(m, t, Open(t)), Hides(n, m, t, name), ScopesName(m)
    PROVE  Bound(n, u, Open(t))
<1> DEFINE o == Open(t)
           D == Len(m.scopes)
<1>1. /\ Len(o) = D /\ D \in Nat /\ D >= 1 /\ o \in Seq(Nat)
      /\ \A j, k \in 1..D : j < k => o[j] < o[k]
      /\ Last(o) = o[D] /\ \A d \in 1..D : o[d] \in Nat
  <2>1. Len(t) \in Nat
    BY DEF Grown
  <2>2. Len(t) + 1 \in 1..(Len(t) + 1)
    BY <2>1
  <2>3. OpenStack(o, Len(t) + 1)
    BY <2>2, LinesTyped DEF LineTyped, Open
  <2>4. Len(o) = D
    BY DEF Bound
  <2> HIDE DEF o
  <2> QED BY <2>3, <2>4 DEF OpenStack, Last
<1>2. Grows(n, m) /\ Len(n.scopes) = D
  BY DEF Hides, Kept, Adds
<1>3. \A d \in 1..D : d # D => n.scopes[d] = m.scopes[d]
  BY DEF Hides, Adds
<1>4. /\ \A x \in DOMAIN m.scopes[D] : x \in DOMAIN n.scopes[D] /\ n.scopes[D][x] = m.scopes[D][x]
      /\ \A x \in DOMAIN n.scopes[D] : x \in DOMAIN m.scopes[D] \/ x = name
      /\ name \in DOMAIN n.scopes[D] /\ n.labels[n.scopes[D][name]].local
  <2>1. CASE name \in DOMAIN Here(m) /\ n.scopes = m.scopes /\ n.labels[Here(n)[name]].local
    BY <1>2, <2>1 DEF Here
  <2>2. CASE name \notin DOMAIN Here(m) /\ Adds(n, m, name, TRUE)
    <3>1. Extends(n.scopes[D], m.scopes[D], name, Len(n.labels)) /\ n.labels[Len(n.labels)].local
      BY <1>2, <2>2 DEF Adds
    <3>2. name \notin DOMAIN m.scopes[D]
      BY <2>2 DEF Here
    <3> QED BY <3>1, <3>2 DEF Extends
  <2> QED BY <2>1, <2>2 DEF Hides
<1> HIDE DEF o, D
<1>5. \A d \in 2..D : d \in 1..D
  BY <1>1
<1>6. \A d \in 1..D : \A x \in DOMAIN m.scopes[d] : x \in DOMAIN n.scopes[d] /\ n.scopes[d][x] = m.scopes[d][x]
  BY <1>3, <1>4
<1>7. \A d \in 1..D : \A x \in DOMAIN n.scopes[d] : x \in DOMAIN m.scopes[d] \/ (d = D /\ x = name)
  BY <1>3, <1>4
<1>8. \A d \in 1..D : \A x \in DOMAIN m.scopes[d] :
         /\ Defined(m, m.scopes[d][x]) => Defined(n, m.scopes[d][x])
         /\ m.labels[m.scopes[d][x]].local => n.labels[m.scopes[d][x]].local
  BY <1>2 DEF ScopesName, Grows, D
<1>9. \A x, p : Mentions(t, x, p) => Mentions(u, x, p)
  BY MentionsGrow
<1>10. \A x, p : x \in Locals(u, p) <=> x \in Locals(t, p) \/ (o[D] = p /\ x = name)
  BY <1>1, LocalsGrow DEF o
<1>11. /\ \A d \in 2..D : \A x \in DOMAIN m.scopes[d] :
            (x \in Locals(t, o[d]) /\ m.labels[m.scopes[d][x]].local) \/ Mentions(t, x, o[d])
       /\ \A d \in 2..D : \A x \in Locals(t, o[d]) :
            x \in DOMAIN m.scopes[d] /\ m.labels[m.scopes[d][x]].local
       /\ \A e \in 2..D : \A d \in 2..(e - 1) : \A x \in DOMAIN m.scopes[e] :
            x \in DOMAIN m.scopes[d] => m.labels[m.scopes[e][x]].local
       /\ \A e \in 2..D : \A x \in DOMAIN m.scopes[e] :
            ~Defined(m, m.scopes[e][x]) /\ ~m.labels[m.scopes[e][x]].local => x \notin DOMAIN m.scopes[1]
  BY <1>1 DEF Bound, o
<1>12. ASSUME NEW d \in 2..D, NEW x \in DOMAIN n.scopes[d]
       PROVE  (x \in Locals(u, o[d]) /\ n.labels[n.scopes[d][x]].local) \/ Mentions(u, x, o[d])
  <2>1. CASE x \in DOMAIN m.scopes[d]
    <3>1. n.scopes[d][x] = m.scopes[d][x] /\ (m.labels[m.scopes[d][x]].local => n.labels[m.scopes[d][x]].local)
      BY <1>5, <1>6, <1>8, <2>1
    <3> QED BY <1>9, <1>10, <1>11, <2>1, <3>1
  <2>2. CASE d = D /\ x = name
    BY <1>4, <1>10, <2>2
  <2> QED BY <1>5, <1>7, <2>1, <2>2
<1>13. ASSUME NEW d \in 2..D, NEW x \in Locals(u, o[d])
       PROVE  x \in DOMAIN n.scopes[d] /\ n.labels[n.scopes[d][x]].local
  <2>1. CASE x \in Locals(t, o[d])
    <3>1. x \in DOMAIN m.scopes[d] /\ m.labels[m.scopes[d][x]].local
      BY <1>11, <2>1
    <3> QED BY <1>5, <1>6, <1>8, <3>1
  <2>2. CASE o[D] = o[d] /\ x = name
    <3>1. d = D
      BY <1>1, <1>5, <2>2
    <3> QED BY <1>4, <2>2, <3>1
  <2> QED BY <1>10, <2>1, <2>2
<1>14. ASSUME NEW e \in 2..D, NEW d \in 2..(e - 1), NEW x \in DOMAIN n.scopes[e], x \in DOMAIN n.scopes[d]
       PROVE  n.labels[n.scopes[e][x]].local
  <2>1. d \in 1..D /\ d # D /\ e \in 1..D
    BY <1>1
  <2>2. x \in DOMAIN m.scopes[d]
    BY <1>7, <1>14, <2>1
  <2>3. CASE x \in DOMAIN m.scopes[e]
    <3>1. m.labels[m.scopes[e][x]].local
      BY <1>11, <2>2, <2>3
    <3> QED BY <1>6, <1>8, <2>1, <2>3, <3>1
  <2>4. CASE e = D /\ x = name
    BY <1>4, <2>4
  <2> QED BY <1>7, <2>1, <2>3, <2>4
<1>15. ASSUME NEW e \in 2..D, NEW x \in DOMAIN n.scopes[e],
              ~Defined(n, n.scopes[e][x]), ~n.labels[n.scopes[e][x]].local
       PROVE  x \notin DOMAIN n.scopes[1]
  <2>1. e \in 1..D /\ 1 \in 1..D /\ 1 # D
    BY <1>1
  <2>2. x \in DOMAIN m.scopes[e]
    BY <1>4, <1>7, <1>15, <2>1
  <2>3. ~Defined(m, m.scopes[e][x]) /\ ~m.labels[m.scopes[e][x]].local
    BY <1>6, <1>8, <1>15, <2>1, <2>2
  <2>4. x \notin DOMAIN m.scopes[1]
    BY <1>11, <2>2, <2>3
  <2> QED BY <1>3, <2>1, <2>4
<1>16. Bound(n, u, o)
  BY <1>1, <1>2, <1>12, <1>13, <1>14, <1>15 DEF Bound
<1> QED BY <1>16 DEF o

\* A name that a PROC defines and that its scope has not yet is in no other
\* PROC that is open.
LEMMA NewNameIsOwn ==
    ASSUME NEW t \in Texts, NEW s \in Stmts, NEW u, Grown(u, t, s), s.op \in {"label", "equ"},
           NEW m, NEW name, name = <<Last(Space(t)), s.name>>,
           Bound(m, t, Open(t)), name \notin DOMAIN Here(m), OwnNames(u)
    PROVE  \A d \in 2..Len(Open(t)) : d # Len(Open(t)) => name \notin DOMAIN m.scopes[d]
<1> DEFINE o == Open(t)
           D == Len(o)
           i == Len(u)
<1>1. /\ D \in Nat /\ D >= 1 /\ o \in Seq(Nat) /\ o[1] = 0 /\ i = Len(t) + 1 /\ Len(t) \in Nat
      /\ \A j, k \in 1..D : j < k => o[j] < o[k]
      /\ Last(o) = o[D] /\ \A d \in 1..D : o[d] \in Nat /\ o[d] < i
  <2>1. Len(t) \in Nat /\ i = Len(t) + 1
    BY DEF Grown
  <2>2. Len(t) + 1 \in 1..(Len(t) + 1)
    BY <2>1
  <2>3. OpenStack(o, Len(t) + 1)
    BY <2>2, LinesTyped DEF LineTyped, Open
  <2> HIDE DEF o, i
  <2>4. /\ D \in Nat /\ D >= 1 /\ o \in Seq(Nat) /\ o[1] = 0
        /\ \A j, k \in 1..D : j < k => o[j] < o[k]
    BY <2>3 DEF OpenStack
  <2>5. Last(o) = o[D]
    BY DEF Last
  <2>6. ASSUME NEW d \in 1..D PROVE o[d] \in Nat /\ o[d] < i
    <3>1. o[d] \in Nat
      BY <2>4, ElementOfSeq
    <3>2. o[d] < Len(t) + 1
      BY <2>3 DEF OpenStack
    <3> QED BY <2>1, <3>1, <3>2
  <2> QED BY <2>1, <2>4, <2>5, <2>6
<1>2. i \in Definitions(u)
  BY UsesGrow
<1>3. Opens(u)[i] = o /\ Full(u, i, u[i].name) = name
  <2>1. u[i] = s
    BY DEF Grown
  <2> QED BY <2>1, NamesGrow
<1>4. Len(m.scopes) = D
  BY DEF Bound
<1> SUFFICES ASSUME NEW d \in 2..D, d # D, name \in DOMAIN m.scopes[d] PROVE FALSE
  BY DEF D, o
<1> DEFINE p == o[d]
<1>5. d \in 1..D /\ D \in 1..D /\ d < D /\ 1 \in 1..D /\ 1 < d /\ D \in 2..D
  BY <1>1
<1>6. p # 0 /\ p # o[D] /\ p < i
  BY <1>1, <1>5
<1>7. p \in ToSet(o)
  BY <1>1, <1>5 DEF ToSet
<1>8. name \notin Locals(u, o[D])
  <2>1. name \notin Locals(t, o[D])
    BY <1>4, <1>5 DEF Bound, Here
  <2>2. \A q : name \in Locals(u, q) <=> name \in Locals(t, q)
    <3>1. s.op # "local"
      OBVIOUS
    <3> QED BY <3>1, LocalsGrow
  <2> QED BY <2>1, <2>2
<1> HIDE DEF o, D, i
<1>9. /\ name \notin Locals(u, p)
      /\ \A j \in Uses(u) \cup Definitions(u) :
            ~(j < i /\ p \in ToSet(Opens(u)[j]) /\ name \in {Full(u, j, u[j].name), UsedName(u, j)})
  <2>1. p \in ToSet(Opens(u)[i]) \ {0, Last(Opens(u)[i])}
    BY <1>1, <1>3, <1>6, <1>7
  <2>2. name \notin Locals(u, Last(Opens(u)[i]))
    BY <1>1, <1>3, <1>8
  <2> QED BY <1>2, <1>3, <2>1, <2>2 DEF OwnNames
<1>10. name \notin Locals(t, p)
  <2>1. name \in Locals(t, p) => name \in Locals(u, p)
    BY LocalsGrow
  <2> QED BY <1>9, <2>1
<1>11. Mentions(t, name, p)
  BY <1>10 DEF Bound, D, o
<1>12. PICK j \in 1..Len(t) : MentionedAt(t, name, p, j)
  BY <1>11 DEF Mentions
<1>13. j \in Uses(u) \cup Definitions(u)
  BY <1>12, UsesGrow DEF MentionedAt
<1>14. /\ Full(u, j, t[j].name) = Full(t, j, t[j].name) /\ UsedName(u, j) = UsedName(t, j)
       /\ Opens(u)[j] = Opens(t)[j] /\ u[j] = t[j]
  BY NamesGrow
<1>15. j < i
  BY <1>1
<1> QED BY <1>9, <1>12, <1>13, <1>14, <1>15 DEF MentionedAt

-----------------------------------------------------------------------------
(* The invariant: what the memory is while the text is read.               *)

\* A memory that is sound for a text is sound for a longer one.
LEMMA SoundGrows ==
    ASSUME NEW t \in Texts, NEW s \in Stmts, NEW u, Grown(u, t, s), NEW m, MemSound(m, t)
    PROVE  MemSound(m, u)
<1>1. /\ \A i \in 1..Len(t) : i \in 1..Len(u) /\ u[i] = t[i]
  BY DEF Grown
<1>2. ASSUME NEW a, Fits(m, t, a) PROVE Fits(m, u, a)
  BY <1>1, <1>2 DEF Fits
<1>3. CodeSound(m, t)
  BY DEF MemSound
<1> HIDE DEF Fits
<1>4. CodeSound(m, u)
  BY <1>2, <1>3 DEF CodeSound
<1> QED BY <1>4 DEF MemSound

\* Where the grown text ends.
LEMMA EndsGrow ==
    ASSUME NEW t \in Texts, NEW s \in Stmts, NEW u, Grown(u, t, s)
    PROVE  /\ s.op \notin {"proc", "endp"} => Open(u) = Open(t)
           /\ s.op \notin {"namespace", "push", "pop"} => Space(u) = Space(t)
           /\ s.op = "namespace" => Space(u) = Append(Front(Space(t)), s.name)
           /\ s.op = "push" => Space(u) = Append(Space(t), s.name)
           /\ s.op = "pop" /\ Len(Space(t)) > 1 => Space(u) = Front(Space(t))
           /\ s.op \notin {"org", "align"} => Place(u) = Place(t) + SizeOf(s)
           /\ s.op = "org" => Place(u) = s.n
           /\ s.op = "align" => Place(u) = Place(t) + ((-Place(t)) % s.n)
<1> DEFINE k == Len(u) + 1
<1>1. k # 1 /\ k - 1 = Len(u) /\ u[k - 1] = s
  BY DEF Grown
<1>2. /\ Place(u) = Step("place", u, Place(t), k)
      /\ Open(u) = Step("open", u, Open(t), k)
      /\ Space(u) = Step("space", u, Space(t), k)
  BY DEF Grown
<1> HIDE DEF k
<1>3. s.op \notin {"proc", "endp"} => Open(u) = Open(t)
  <2> HIDE DEF Open
  <2> QED BY <1>1, <1>2 DEF Step
<1>4. /\ s.op \notin {"namespace", "push", "pop"} => Space(u) = Space(t)
      /\ s.op = "namespace" => Space(u) = Append(Front(Space(t)), s.name)
      /\ s.op = "push" => Space(u) = Append(Space(t), s.name)
      /\ s.op = "pop" /\ Len(Space(t)) > 1 => Space(u) = Front(Space(t))
  <2> DEFINE p == Space(t)
             q == Space(u)
  <2>1. q = Step("space", u, p, k)
    BY <1>2
  <2> HIDE DEF p, q
  <2>2. q = CASE s.op = "namespace" -> Append(Front(p), s.name)
              [] s.op = "push" -> Append(p, s.name)
              [] s.op = "pop" /\ Len(p) > 1 -> Front(p)
              [] OTHER -> p
    BY <1>1, <2>1 DEF Step
  <2>3. s.op \notin {"namespace", "push", "pop"} => q = p
    BY <2>2
  <2>4. s.op = "namespace" => q = Append(Front(p), s.name)
    BY <2>2
  <2>5. s.op = "push" => q = Append(p, s.name)
    BY <2>2
  <2>6. s.op = "pop" /\ Len(p) > 1 => q = Front(p)
    BY <2>2
  <2> QED BY <2>3, <2>4, <2>5, <2>6 DEF p, q
<1>5. /\ s.op \notin {"org", "align"} => Place(u) = Place(t) + SizeOf(s)
      /\ s.op = "org" => Place(u) = s.n
      /\ s.op = "align" => Place(u) = Place(t) + ((-Place(t)) % s.n)
  <2> DEFINE p == Place(t)
             q == Place(u)
  <2>1. q = Step("place", u, p, k)
    BY <1>2
  <2> HIDE DEF p, q
  <2>2. q = CASE s.op = "org" -> s.n
              [] s.op = "align" -> p + ((-p) % s.n)
              [] OTHER -> p + SizeOf(s)
    BY <1>1, <2>1 DEF Step
  <2>3. s.op \notin {"org", "align"} => q = p + SizeOf(s)
    BY <2>2
  <2>4. s.op = "org" => q = s.n
    BY <2>2
  <2>5. s.op = "align" => q = p + ((-p) % s.n)
    BY <2>2
  <2> QED BY <2>3, <2>4, <2>5 DEF p, q
<1> QED BY <1>3, <1>4, <1>5

\* The size of the statements that are no instructions.
LEMMA NoSize ==
    ASSUME NEW s, s.op \notin {"nop", "jr", "back", "fwd", "defw", "jp", "defs"}
    PROVE  SizeOf(s) = 0
  BY DEF SizeOf

\* The address and the namespaces after the text t.
LEMMA EndTyped ==
    ASSUME NEW t \in Texts
    PROVE  /\ Place(t) \in Nat /\ Space(t) \in Seq(Words) /\ Len(Space(t)) >= 1
           /\ Len(Space(t)) \in Nat /\ Last(Space(t)) \in Words
<1>1. Len(t) \in Nat
  BY DEF Texts
<1>2. Len(t) + 1 \in 1..(Len(t) + 1)
  BY <1>1
<1>3. LineTyped(t, Len(t) + 1)
  BY <1>2, LinesTyped
<1> DEFINE p == Space(t)
<1>4. Place(t) \in Nat /\ p \in Seq(Words) /\ Len(p) >= 1
  BY <1>3 DEF LineTyped, Place, Space
<1> HIDE DEF p
<1>5. Len(p) \in Nat /\ Last(p) \in Words
  BY <1>4 DEF Last
<1> QED BY <1>4, <1>5 DEF p

\* While t is read: the scopes are those of the PROCs open, the namespaces and
\* the address are those the text has there, and only a jump makes a label wait.
Waiting(m, t) == m.waiting # << >> => Lines(t, {"back", "fwd"}) # {}
ReadInv(m, t) ==
    /\ Bound(m, t, Open(t)) /\ Waiting(m, t)
    /\ m.ns = Last(Space(t)) /\ m.nsStack = Front(Space(t))
    /\ m.index = Place(t)

\* n is the memory after the text u.
Follows(n, u) == MemSound(n, u) /\ (n.err = "none" => ReadInv(n, u))

\* A label that waits comes from a line that is still there.
LEMMA WaitingGrows ==
    ASSUME NEW t \in Texts, NEW s \in Stmts, NEW u, Grown(u, t, s), NEW m, NEW n,
           Waiting(m, t), n.waiting = m.waiting \/ s.op \in {"back", "fwd"}
    PROVE  Waiting(n, u)
<1> DEFINE J == {"back", "fwd"}
<1>1. n.waiting = m.waiting \/ s.op \in J
  OBVIOUS
<1>2. m.waiting # << >> => Lines(t, J) # {}
  BY DEF Waiting
<1> HIDE DEF J
<1>3. \A j : j \in Lines(u, J) <=> j \in Lines(t, J) \/ (j = Len(u) /\ s.op \in J)
  BY LinesGrow
<1>4. n.waiting # << >> => Lines(u, J) # {}
  BY <1>1, <1>2, <1>3
<1> QED BY <1>4 DEF Waiting, J

\* A statement that changes no namespace.
LEMMA ReadsOn ==
    ASSUME NEW t \in Texts, NEW s \in Stmts, NEW u, Grown(u, t, s),
           s.op \notin {"namespace", "push", "pop"},
           NEW m, ReadInv(m, t), NEW n, MemSound(n, u),
           n.ns = m.ns /\ n.nsStack = m.nsStack,
           n.waiting = m.waiting \/ s.op \in {"back", "fwd"},
           n.err = "none" => Bound(n, u, Open(u)) /\ n.index = Place(u)
    PROVE  Follows(n, u)
<1>1. Space(u) = Space(t)
  BY EndsGrow
<1>2. Waiting(n, u)
  BY WaitingGrows DEF ReadInv
<1> HIDE DEF Waiting
<1> QED BY <1>1, <1>2 DEF Follows, ReadInv

-----------------------------------------------------------------------------
(* The statements, one after the other.                                    *)

\* s is read after the text t, which left m; the text is u then.
Reading1(u, t, s, m) ==
    /\ t \in Texts /\ s \in Stmts /\ Grown(u, t, s)
    /\ MemSound(m, t) /\ ReadInv(m, t)

\* The facts every statement starts from.
LEMMA Starting ==
    ASSUME NEW u, NEW t, NEW s, NEW m, Reading1(u, t, s, m)
    PROVE  /\ t \in Texts /\ s \in Stmts /\ Grown(u, t, s) /\ MemSound(m, t) /\ MemSound(m, u)
           /\ ReadInv(m, t) /\ Bound(m, t, Open(t)) /\ ScopesName(m) /\ m \in Memory
           /\ m.ns = Last(Space(t)) /\ m.index = Place(t) /\ m.index \in Nat /\ m.ns \in Words
           /\ s.name \in Words /\ s.of \in Words /\ s.n \in Nat
           /\ Len(u) \in 1..Len(u) /\ u[Len(u)] = s
<1>1. t \in Texts /\ s \in Stmts /\ Grown(u, t, s) /\ MemSound(m, t) /\ ReadInv(m, t)
  BY DEF Reading1
<1>2. MemSound(m, u)
  BY <1>1, SoundGrows
<1>3. Bound(m, t, Open(t)) /\ m.ns = Last(Space(t)) /\ m.index = Place(t)
  BY <1>1 DEF ReadInv
<1>4. m \in Memory /\ ScopesName(m)
  BY <1>1 DEF MemSound, NamesSound
<1>5. m.index \in Nat /\ m.ns \in Words
  BY <1>4 DEF Memory
<1>6. s.name \in Words /\ s.of \in Words
  BY <1>1 DEF Words
<1>7. s.n \in Nat
  BY <1>1, SizeIsNat
<1>8. Len(u) \in 1..Len(u) /\ u[Len(u)] = s
  BY <1>1 DEF Grown
<1> QED BY <1>1, <1>2, <1>3, <1>4, <1>5, <1>6, <1>7, <1>8

\* Looking up a name that the new line mentions.
LEMMA LookedUp ==
    ASSUME NEW u, NEW t, NEW s, NEW m, Reading1(u, t, s, m), s.op # "local",
           NEW g, NEW name, Looks(g, m, u, name), Says(t, s, name)
    PROVE  /\ Bound(g.m, u, Open(t)) /\ Len(g.m.scopes) = Len(m.scopes)
           /\ \A d \in 1..Len(m.scopes) : d # Len(m.scopes) => g.m.scopes[d] = m.scopes[d]
           /\ DOMAIN Here(m) \subseteq DOMAIN Here(g.m)
<1> DEFINE o == Open(t)
           n == g.m
<1>1. t \in Texts /\ s \in Stmts /\ Grown(u, t, s) /\ ScopesName(m) /\ Bound(m, t, o)
  BY Starting
<1>2. Bound(m, u, o)
  BY <1>1, BoundGrows
<1>3. CASE n = m
  BY <1>2, <1>3
<1>4. CASE (\A d \in 1..Len(m.scopes) : name \notin DOMAIN m.scopes[d]) /\ Adds(n, m, name, FALSE)
  <2>1. Len(m.scopes) = Len(o) /\ Len(m.scopes) \in Nat /\ Len(m.scopes) >= 1 /\ Grows(n, m)
    <3>1. Len(m.scopes) = Len(o)
      BY <1>2 DEF Bound
    <3>2. Len(m.scopes) \in Nat \ {0}
      BY <1>4 DEF Adds
    <3>3. Grows(n, m)
      BY DEF Looks, Kept
    <3>4. Len(m.scopes) \in Nat /\ Len(m.scopes) >= 1
      BY <3>2
    <3> QED BY <3>1, <3>3, <3>4
  <2>2. name \notin DOMAIN Here(m) /\ name \notin DOMAIN m.scopes[1]
    BY <1>4, <2>1 DEF Here
  <2>3. \A d \in 2..Len(o) : name \notin DOMAIN m.scopes[d] /\ d \in 1..Len(o)
    <3> HIDE DEF o
    <3> QED BY <1>4, <2>1
  <2>4. \A d \in 2..Len(o) : Mentions(u, name, o[d])
    BY <1>1, <2>3, NewMention
  <2> HIDE DEF o, n
  <2>5. Bound(n, u, o)
    BY <1>1, <1>2, <1>4, <2>1, <2>2, <2>3, <2>4, BoundAdds
  <2>6. DOMAIN Here(m) \subseteq DOMAIN Here(n)
    BY <1>4 DEF Here, Adds, Extends
  <2>7. /\ Len(n.scopes) = Len(m.scopes)
        /\ \A d \in 1..Len(m.scopes) : d # Len(m.scopes) => n.scopes[d] = m.scopes[d]
    BY <1>4 DEF Adds
  <2> QED BY <2>5, <2>6, <2>7 DEF o, n
<1> QED BY <1>3, <1>4 DEF Looks

\* Giving the name of the new line its value, perhaps after a look at another.
LEMMA Declared ==
    ASSUME NEW u, NEW t, NEW s, NEW m, Reading1(u, t, s, m), s.op \in {"label", "equ"}, OwnNames(u),
           NEW name, name = <<Last(Space(t)), s.name>>,
           NEW g, Bound(g, u, Open(t)), ScopesName(g), Len(g.scopes) = Len(m.scopes),
           \A d \in 1..Len(m.scopes) : d # Len(m.scopes) => g.scopes[d] = m.scopes[d],
           DOMAIN Here(m) \subseteq DOMAIN Here(g),
           NEW n, Puts(n, g, u, name)
    PROVE  Bound(n, u, Open(t))
<1> DEFINE o == Open(t)
<1>1. t \in Texts /\ s \in Stmts /\ Grown(u, t, s) /\ Bound(m, t, o)
  BY Starting
<1>2. Grows(n, g)
  BY DEF Puts, Kept
<1>3. CASE n.scopes = g.scopes
  BY <1>2, <1>3, BoundKept
<1>4. CASE name \notin DOMAIN Here(g) /\ Adds(n, g, name, FALSE) /\ Defined(n, Len(n.labels))
  <2>1. name \notin DOMAIN Here(m)
    BY <1>4
  <2>2. Len(m.scopes) = Len(o) /\ Len(o) \in Nat
    BY <1>1, <1>4 DEF Bound, Adds
  <2>3. \A d \in 2..Len(o) : d # Len(o) => name \notin DOMAIN m.scopes[d]
    BY <1>1, <2>1, NewNameIsOwn
  <2>4. \A d \in 2..Len(o) : d \in 1..Len(o)
    <3> HIDE DEF o
    <3> QED BY <2>2
  <2>5. \A d \in 2..Len(o) : d # Len(o) => name \notin DOMAIN g.scopes[d]
    <3> HIDE DEF o
    <3> QED BY <2>2, <2>3, <2>4
  <2>6. Says(t, s, name)
    BY DEF Says
  <2>7. \A d \in 2..Len(o) : Mentions(u, name, o[d])
    BY <1>1, <2>4, <2>6, NewMention
  <2> HIDE DEF o
  <2> QED BY <1>2, <1>4, <2>5, <2>7, BoundAdds DEF o
<1> QED BY <1>3, <1>4 DEF Puts

\* The name of a statement in the current namespace.
LEMMA KeyTyped ==
    ASSUME NEW u, NEW t, NEW s, NEW m, Reading1(u, t, s, m)
    PROVE  /\ <<m.ns, s.name>> \in Keys /\ <<m.ns, s.name>> = <<Last(Space(t)), s.name>>
           /\ <<m.ns, s.of>> \in Keys /\ <<m.ns, s.of>> = <<Last(Space(t)), s.of>>
<1>1. m.ns \in Words /\ s.name \in Words /\ s.of \in Words /\ m.ns = Last(Space(t))
  BY Starting
<1> QED BY <1>1 DEF Keys

LEMMA LabelReads ==
    ASSUME NEW u, NEW t, NEW s, NEW m, Reading1(u, t, s, m), s.op \in {"label", "equ"}, OwnNames(u),
           NEW k \in Int
    PROVE  Follows(DeclareLabel(m, <<m.ns, s.name>>, Number(k)), u)
<1> DEFINE name == <<m.ns, s.name>>
           n == DeclareLabel(m, name, Number(k))
<1>1. /\ t \in Texts /\ s \in Stmts /\ Grown(u, t, s) /\ MemSound(m, u) /\ ScopesName(m)
      /\ ReadInv(m, t) /\ Bound(m, t, Open(t)) /\ m.index = Place(t) /\ m.index \in Nat
  BY Starting
<1>2. name \in Keys /\ name = <<Last(Space(t)), s.name>>
  BY KeyTyped, ZenonT(30)
<1>3. Number(k) \in Exprs /\ Number(k).lab \in 0..Len(m.labels)
  <2>1. Len(m.labels) \in Nat
    BY <1>1, Facts
  <2> QED BY <2>1 DEF Number, Exprs
<1>4. Puts(n, m, u, name)
  <2> DEFINE v == Number(k)
  <2> HIDE DEF v, name
  <2>1. Puts(DeclareLabel(m, name, v), m, u, name)
    BY <1>1, <1>2, <1>3, DeclareLabelSound DEF v
  <2> QED BY <2>1 DEF v
<1>5. Bound(m, u, Open(t))
  <2>1. s.op # "local"
    OBVIOUS
  <2> QED BY <1>1, <2>1, BoundGrows
<1> HIDE DEF n, name
<1>6. Bound(n, u, Open(t))
  BY <1>1, <1>2, <1>4, <1>5, Declared
<1>7. Open(u) = Open(t) /\ Place(u) = Place(t) + SizeOf(s) /\ SizeOf(s) = 0
  BY <1>1, EndsGrow, NoSize
<1>8. /\ MemSound(n, u) /\ n.waiting = m.waiting /\ n.index = m.index
      /\ n.ns = m.ns /\ n.nsStack = m.nsStack
  BY <1>4 DEF Puts, Kept, SameRest
<1>9. n.index = Place(u)
  BY <1>1, <1>7, <1>8
<1>10. s.op \notin {"namespace", "push", "pop"}
  OBVIOUS
<1>11. Follows(n, u)
  BY <1>1, <1>6, <1>7, <1>8, <1>9, <1>10, ReadsOn
<1> QED BY <1>11 DEF n, name

\* EQU with a name in its expression.
Relays(s) == s.op = "equ" /\ s.of # ""

LEMMA EquReads ==
    ASSUME NEW u, NEW t, NEW s, NEW m, Reading1(u, t, s, m), Relays(s), OwnNames(u)
    PROVE  LET g == GetLabel(m, <<m.ns, s.of>>)
           IN  Follows(DeclareLabel(g.m, <<m.ns, s.name>>, [lab |-> g.o, k |-> s.n]), u)
<1> DEFINE name == <<m.ns, s.name>>
           other == <<m.ns, s.of>>
           g == GetLabel(m, other)
           v == [lab |-> g.o, k |-> s.n]
           n == DeclareLabel(g.m, name, v)
<1>1. /\ t \in Texts /\ s \in Stmts /\ Grown(u, t, s) /\ MemSound(m, u) /\ ScopesName(m)
      /\ ReadInv(m, t) /\ Bound(m, t, Open(t)) /\ m.index = Place(t) /\ m.index \in Nat /\ s.n \in Nat
  BY Starting
<1>2. /\ name \in Keys /\ name = <<Last(Space(t)), s.name>>
      /\ other \in Keys /\ other = <<Last(Space(t)), s.of>>
  BY KeyTyped
<1>3. Says(t, s, other)
  BY <1>2 DEF Says, Relays
<1> HIDE DEF name, other
<1>4. Looks(g, m, u, other)
  BY <1>1, <1>2, GetLabelSound
<1> HIDE DEF g
<1>5. /\ Bound(g.m, u, Open(t)) /\ Len(g.m.scopes) = Len(m.scopes)
      /\ \A d \in 1..Len(m.scopes) : d # Len(m.scopes) => g.m.scopes[d] = m.scopes[d]
      /\ DOMAIN Here(m) \subseteq DOMAIN Here(g.m)
  <2>1. s.op # "local"
    BY DEF Relays
  <2> QED BY <1>3, <1>4, <2>1, LookedUp
<1>6. MemSound(g.m, u) /\ g.o \in 1..Len(g.m.labels) /\ Kept(g.m, m) /\ g.m.err = m.err
  BY <1>4 DEF Looks
<1>7. ScopesName(g.m)
  BY <1>6 DEF MemSound, NamesSound
<1>8. v \in Exprs /\ v.lab \in 0..Len(g.m.labels)
  <2>1. Len(g.m.labels) \in Nat
    BY <1>6, Facts
  <2> QED BY <1>1, <1>6, <2>1 DEF Exprs
<1> HIDE DEF v
<1>9. Puts(n, g.m, u, name)
  <2> DEFINE q == g.m
  <2> HIDE DEF q
  <2>1. Puts(DeclareLabel(q, name, v), q, u, name)
    BY <1>2, <1>6, <1>8, DeclareLabelSound DEF q
  <2> QED BY <2>1 DEF q
<1> HIDE DEF n
<1>10. Bound(n, u, Open(t))
  <2> DEFINE q == g.m
  <2>1. s.op \in {"label", "equ"}
    BY DEF Relays
  <2> HIDE DEF q
  <2> QED BY <1>2, <1>5, <1>7, <1>9, <2>1, Declared DEF q
<1>11. Open(u) = Open(t) /\ Place(u) = Place(t) + SizeOf(s) /\ SizeOf(s) = 0
  BY <1>1, EndsGrow, NoSize DEF Relays
<1>12. /\ MemSound(n, u) /\ n.waiting = m.waiting /\ n.index = m.index
       /\ n.ns = m.ns /\ n.nsStack = m.nsStack
  BY <1>6, <1>9 DEF Puts, Kept, SameRest
<1>13. n.index = Place(u)
  BY <1>1, <1>11, <1>12
<1>14. s.op \notin {"namespace", "push", "pop"}
  BY DEF Relays
<1>15. Follows(n, u)
  BY <1>1, <1>10, <1>11, <1>12, <1>13, <1>14, ReadsOn
<1> QED BY <1>15 DEF n, g, v, name, other

\* An instruction of the new line, its operand a label of the memory.
LEMMA InstructionTyped ==
    ASSUME NEW s \in Stmts, NEW id \in Int, NEW arg \in Exprs
    PROVE  /\ Instruction(s, id, arg) \in Instrs /\ Instruction(s, id, arg).arg = arg
           /\ Instruction(s, id, arg).id = id /\ Instruction(s, id, arg).size = SizeOf(s)
<1>1. SizeOf(s) \in Nat
  BY SizeIsNat
<1>2. (s.op \in Relative) \in BOOLEAN /\ (s.op \in {"defs", "defw"}) \in BOOLEAN
  OBVIOUS
<1> DEFINE r == s.op \in Relative
           d == s.op \in {"defs", "defw"}
           z == SizeOf(s)
<1> HIDE DEF r, d, z
<1>3. [id |-> id, size |-> z, arg |-> arg, rel |-> r, data |-> d, pending |-> FALSE] \in Instrs
  BY <1>1, <1>2 DEF r, d, z, Instrs
<1> QED BY <1>3 DEF Instruction, r, d, z

LEMMA CodeReads ==
    ASSUME NEW u, NEW t, NEW s, NEW m, Reading1(u, t, s, m),
           s.op \in {"nop", "defs", "jp", "jr", "defw", "back", "fwd"},
           NEW g, MemSound(g, u), Bound(g, u, Open(t)), g.index = m.index, SameRest(g, m),
           g.waiting = m.waiting \/ s.op \in {"back", "fwd"},
           NEW arg \in Exprs, arg.lab \in 0..Len(g.labels)
    PROVE  Follows(AddInstruction(g, Instruction(s, Len(t) + 1, arg)), u)
<1> DEFINE i == Instruction(s, Len(t) + 1, arg)
           n == AddInstruction(g, i)
           z == SizeOf(s)
<1>1. /\ t \in Texts /\ s \in Stmts /\ Grown(u, t, s) /\ ReadInv(m, t)
      /\ m.index = Place(t) /\ m.index \in Nat /\ Len(u) \in 1..Len(u) /\ u[Len(u)] = s
  BY Starting
<1>2. Len(t) \in Nat /\ Len(u) = Len(t) + 1
  BY <1>1 DEF Grown
<1>3. i \in Instrs /\ i.arg = arg /\ i.id = Len(u) /\ i.size = z
  <2>1. Len(t) + 1 \in Int
    BY <1>2
  <2> QED BY <1>1, <1>2, <2>1, InstructionTyped
<1>4. i.id \in 1..Len(u) /\ i.size = SizeOf(u[i.id])
  <2> HIDE DEF i
  <2> QED BY <1>1, <1>3
<1>5. g \in Memory /\ NamesSound(g) /\ CodeSound(g, u) /\ Rooted(g.labels) /\ ScopesName(g)
  BY DEF MemSound, NamesSound
<1> HIDE DEF i
<1>6. Assembles(n, g, u, i.size)
  <2>1. i.arg.lab \in 0..Len(g.labels)
    BY <1>3
  <2> QED BY <1>3, <1>4, <1>5, <2>1, AddInstructionSound
<1> HIDE DEF n, z
<1>7. n \in Memory /\ SameNames(n, g) /\ SameRest(n, g) /\ CodeSound(n, u)
  BY <1>6 DEF Assembles
<1>8. NamesSound(n)
  BY <1>5, <1>7, NamesKept
<1>9. MemSound(n, u)
  BY <1>7, <1>8 DEF MemSound
<1>10. n.scopes = g.scopes /\ Grows(n, g)
  BY <1>5, <1>7, GrowsSame DEF SameNames
<1>11. Bound(n, u, Open(t))
  BY <1>5, <1>10, BoundKept
<1>12. Open(u) = Open(t) /\ Place(u) = Place(t) + z /\ s.op \notin {"namespace", "push", "pop"}
  BY <1>1, EndsGrow DEF z
<1>13. n.err = "none" => n.index = Place(u)
  BY <1>1, <1>3, <1>6, <1>12 DEF Assembles
<1>14. /\ n.ns = m.ns /\ n.nsStack = m.nsStack
       /\ n.waiting = m.waiting \/ s.op \in {"back", "fwd"}
  BY <1>7 DEF SameRest, SameNames
<1>15. Follows(n, u)
  BY <1>1, <1>9, <1>11, <1>12, <1>13, <1>14, ReadsOn
<1> QED BY <1>15 DEF n, i

LEMMA PlainReads ==
    ASSUME NEW u, NEW t, NEW s, NEW m, Reading1(u, t, s, m), s.op \in {"nop", "defs"}
    PROVE  Follows(AddInstruction(m, Instruction(s, Len(t) + 1, Number(0))), u)
<1>1. /\ t \in Texts /\ s \in Stmts /\ Grown(u, t, s) /\ MemSound(m, u) /\ Bound(m, t, Open(t))
  BY Starting
<1>2. s.op # "local" /\ s.op \in {"nop", "defs", "jp", "jr", "defw", "back", "fwd"}
  OBVIOUS
<1>3. Bound(m, u, Open(t))
  BY <1>1, <1>2, BoundGrows
<1>4. Number(0) \in Exprs /\ Number(0).lab \in 0..Len(m.labels)
  <2>1. Len(m.labels) \in Nat
    BY <1>1, Facts
  <2> QED BY <2>1 DEF Number, Exprs
<1>5. SameRest(m, m)
  BY DEF SameRest
<1> DEFINE v == Number(0)
<1> HIDE DEF v
<1>6. Follows(AddInstruction(m, Instruction(s, Len(t) + 1, v)), u)
  BY <1>1, <1>2, <1>3, <1>4, <1>5, CodeReads DEF v
<1> QED BY <1>6 DEF v

LEMMA ReferenceReads ==
    ASSUME NEW u, NEW t, NEW s, NEW m, Reading1(u, t, s, m), s.op \in {"jp", "jr", "defw"}
    PROVE  LET g == GetLabel(m, <<m.ns, s.name>>)
           IN  Follows(AddInstruction(g.m, Instruction(s, Len(t) + 1,
                                              [lab |-> g.o, k |-> Displacement(m, s)])), u)
<1> DEFINE name == <<m.ns, s.name>>
           g == GetLabel(m, name)
           k == Displacement(m, s)
           v == [lab |-> g.o, k |-> k]
<1>1. /\ t \in Texts /\ s \in Stmts /\ Grown(u, t, s) /\ MemSound(m, u) /\ Bound(m, t, Open(t))
      /\ m.index \in Nat
  BY Starting
<1>2. s.op # "local" /\ s.op \in {"nop", "defs", "jp", "jr", "defw", "back", "fwd"}
  OBVIOUS
<1>3. name \in Keys /\ name = <<Last(Space(t)), s.name>>
  BY KeyTyped, ZenonT(30)
<1>4. Says(t, s, name)
  BY <1>3 DEF Says
<1>5. k \in Int
  BY <1>1 DEF Displacement
<1> HIDE DEF name, k
<1>6. Looks(g, m, u, name)
  BY <1>1, <1>3, GetLabelSound
<1> HIDE DEF g
<1>7. Bound(g.m, u, Open(t))
  BY <1>2, <1>4, <1>6, LookedUp
<1>8. /\ MemSound(g.m, u) /\ g.o \in 1..Len(g.m.labels)
      /\ g.m.index = m.index /\ g.m.waiting = m.waiting /\ SameRest(g.m, m)
  BY <1>6 DEF Looks, Kept
<1>9. v \in Exprs /\ v.lab \in 0..Len(g.m.labels)
  <2>1. Len(g.m.labels) \in Nat
    BY <1>8, Facts
  <2> QED BY <1>5, <1>8, <2>1 DEF Exprs
<1> HIDE DEF v
<1> DEFINE q == g.m
<1> HIDE DEF q
<1>10. Follows(AddInstruction(q, Instruction(s, Len(t) + 1, v)), u)
  BY <1>2, <1>7, <1>8, <1>9, CodeReads DEF q
<1> QED BY <1>10 DEF q, v, g, name, k

LEMMA TemporaryJumpReads ==
    ASSUME NEW u, NEW t, NEW s, NEW m, Reading1(u, t, s, m), s.op \in {"back", "fwd"},
           NEW dir \in Dirs, NEW line0 \in Nat
    PROVE  LET g == GetTemporary(m, s.name, dir, line0)
           IN  Follows(AddInstruction(g.m, Instruction(s, Len(t) + 1,
                                              [lab |-> g.o, k |-> Displacement(m, s)])), u)
<1> DEFINE g == GetTemporary(m, s.name, dir, line0)
           k == Displacement(m, s)
           v == [lab |-> g.o, k |-> k]
<1>1. /\ t \in Texts /\ s \in Stmts /\ Grown(u, t, s) /\ MemSound(m, u) /\ Bound(m, t, Open(t))
      /\ m.index \in Nat /\ ScopesName(m) /\ s.name \in Words
  BY Starting
<1>2. s.op # "local" /\ s.op \in {"nop", "defs", "jp", "jr", "defw", "back", "fwd"}
  OBVIOUS
<1>3. k \in Int
  BY <1>1 DEF Displacement
<1> HIDE DEF k
<1>4. Waits(g, m, u)
  BY <1>1, GetTemporarySound
<1> HIDE DEF g
<1>5. /\ MemSound(g.m, u) /\ g.o \in 1..Len(g.m.labels) /\ Grows(g.m, m)
      /\ g.m.index = m.index /\ g.m.scopes = m.scopes /\ SameRest(g.m, m)
  BY <1>4 DEF Waits
<1>6. Bound(m, u, Open(t))
  BY <1>1, <1>2, BoundGrows
<1>7. v \in Exprs /\ v.lab \in 0..Len(g.m.labels)
  <2>1. Len(g.m.labels) \in Nat
    BY <1>5, Facts
  <2> QED BY <1>3, <1>5, <2>1 DEF Exprs
<1> HIDE DEF v
<1> DEFINE q == g.m
<1> HIDE DEF q
<1>8. Bound(q, u, Open(t))
  BY <1>1, <1>5, <1>6, BoundKept DEF q
<1>9. Follows(AddInstruction(q, Instruction(s, Len(t) + 1, v)), u)
  BY <1>2, <1>5, <1>7, <1>8, CodeReads DEF q
<1> QED BY <1>9 DEF q, v, g, k

\* No label waits at an ORG or an ALIGN.
LEMMA NoneWaits ==
    ASSUME NEW u, NEW t, NEW s, NEW m, Reading1(u, t, s, m), s.op \in {"org", "align"},
           NoOrgAfterTemporary(u)
    PROVE  m.waiting = << >>
<1> DEFINE J == {"back", "fwd"}
           K == {"org", "align"}
<1>1. t \in Texts /\ s \in Stmts /\ Grown(u, t, s) /\ ReadInv(m, t)
  BY Starting
<1>2. m.waiting # << >> => Lines(t, J) # {}
  BY <1>1 DEF ReadInv, Waiting
<1>3. \A i \in Lines(u, J) : \A j \in Lines(u, K) : j < i
  BY DEF NoOrgAfterTemporary
<1>4. s.op \in K
  OBVIOUS
<1> HIDE DEF J, K
<1>5. SUFFICES ASSUME NEW i \in Lines(t, J) PROVE FALSE
  BY <1>2
<1>6. i \in Lines(u, J) /\ Len(u) \in Lines(u, K) /\ i \in 1..Len(t)
  BY <1>1, <1>4, LinesGrow
<1>7. Len(u) = Len(t) + 1 /\ Len(t) \in Nat
  BY <1>1 DEF Grown
<1> QED BY <1>3, <1>6, <1>7

LEMMA OrgReads ==
    ASSUME NEW u, NEW t, NEW s, NEW m, Reading1(u, t, s, m), s.op \in {"org", "align"},
           NoOrgAfterTemporary(u), NEW v \in Nat, v >= m.index, v = Place(u)
    PROVE  Follows(SetOrg(m, v), u)
<1> DEFINE n == SetOrg(m, v)
<1>1. /\ t \in Texts /\ s \in Stmts /\ Grown(u, t, s) /\ MemSound(m, u) /\ Bound(m, t, Open(t))
      /\ ScopesName(m) /\ ReadInv(m, t) /\ m \in Memory
  BY Starting
<1>2. m.waiting = << >>
  BY NoneWaits
<1>3. Moves(n, m, u, v)
  BY <1>1, <1>2, SetOrgSound
<1> HIDE DEF n
<1>4. s.op # "local" /\ s.op \notin {"namespace", "push", "pop"}
  OBVIOUS
<1>5. Bound(m, u, Open(t)) /\ Open(u) = Open(t)
  BY <1>1, <1>4, BoundGrows, EndsGrow
<1>6. /\ MemSound(n, u) /\ n.scopes = m.scopes /\ n.labels = m.labels /\ n.waiting = m.waiting
      /\ n.index = v /\ n.ns = m.ns /\ n.nsStack = m.nsStack
  BY <1>3 DEF Moves, SameNames
<1>7. Grows(n, m)
  BY <1>1, <1>6, GrowsSame
<1>8. Bound(n, u, Open(u))
  BY <1>1, <1>5, <1>6, <1>7, BoundKept
<1>9. Follows(n, u)
  BY <1>1, <1>4, <1>6, <1>8, ReadsOn
<1> QED BY <1>9 DEF n

\* ORG up, and ALIGN.
LEMMA OrgGoesUp ==
    ASSUME NEW u, NEW t, NEW s, NEW m, Reading1(u, t, s, m), s.op = "org", OrgUp(u)
    PROVE  s.n \in Nat /\ s.n >= m.index /\ s.n = Place(u)
<1>1. /\ t \in Texts /\ s \in Stmts /\ Grown(u, t, s) /\ m.index = Place(t) /\ s.n \in Nat
      /\ Len(u) \in 1..Len(u) /\ u[Len(u)] = s
  BY Starting
<1>2. Len(u) \in Lines(u, {"org"})
  <2> DEFINE K == {"org"}
  <2>1. s.op \in K
    OBVIOUS
  <2> HIDE DEF K
  <2>2. Len(u) \in Lines(u, K)
    BY <1>1, <2>1, LinesGrow
  <2> QED BY <2>2 DEF K
<1>3. Places(u)[Len(u)] = Place(t)
  <2>1. Places(u)[Len(u)] = Places(t)[Len(u)] /\ Len(u) = Len(t) + 1
    BY <1>1 DEF Grown
  <2> QED BY <2>1 DEF Place
<1>4. u[Len(u)].n >= Places(u)[Len(u)]
  BY <1>2 DEF OrgUp
<1>5. s.n = Place(u)
  BY <1>1, EndsGrow
<1> QED BY <1>1, <1>3, <1>4, <1>5

LEMMA AlignGoesUp ==
    ASSUME NEW u, NEW t, NEW s, NEW m, Reading1(u, t, s, m), s.op = "align"
    PROVE  LET v == m.index + ((s.n - (m.index % s.n)) % s.n)
           IN  v \in Nat /\ v >= m.index /\ v = Place(u)
<1> DEFINE p == m.index
           k == (-p) % s.n
           w == (s.n - (p % s.n)) % s.n
<1>1. t \in Texts /\ s \in Stmts /\ Grown(u, t, s) /\ p = Place(t) /\ p \in Nat
  BY Starting
<1>2. s.n \in Nat /\ s.n > 1
  BY <1>1, SizeIsNat
<1> HIDE DEF p
<1>3. k \in Nat /\ k = w
  BY <1>1, <1>2, AlignUp
<1>4. Place(u) = p + k
  <2>1. Place(u) = Place(t) + ((-Place(t)) % s.n)
    BY <1>1, EndsGrow
  <2> QED BY <1>1, <2>1
<1> HIDE DEF k, w
<1>5. p + w \in Nat /\ p + w >= p /\ p + w = Place(u)
  BY <1>1, <1>3, <1>4
<1> QED BY <1>5 DEF w, p

LEMMA TemporaryReads ==
    ASSUME NEW u, NEW t, NEW s, NEW m, Reading1(u, t, s, m), s.op = "tmp", NEW line0 \in Nat
    PROVE  Follows(DeclareTemporary(m, s.name, line0), u)
<1> DEFINE n == DeclareTemporary(m, s.name, line0)
<1>1. /\ t \in Texts /\ s \in Stmts /\ Grown(u, t, s) /\ MemSound(m, u) /\ Bound(m, t, Open(t))
      /\ ScopesName(m) /\ ReadInv(m, t) /\ m \in Memory /\ s.name \in Words
      /\ m.index = Place(t) /\ m.index \in Nat
  BY Starting
<1>2. Alike(n, m, u) /\ n.ns = m.ns /\ n.nsStack = m.nsStack /\ n.err = m.err
  BY <1>1, DeclareTemporarySound
<1> HIDE DEF n
<1>3. s.op # "local" /\ s.op \notin {"namespace", "push", "pop"}
  OBVIOUS
<1>4. Bound(m, u, Open(t)) /\ Open(u) = Open(t)
  BY <1>1, <1>3, BoundGrows, EndsGrow
<1>5. /\ MemSound(n, u) /\ n.scopes = m.scopes /\ n.labels = m.labels /\ n.waiting = m.waiting
      /\ n.index = m.index
  BY <1>2 DEF Alike, SameNames, SameCode
<1>6. Grows(n, m)
  BY <1>1, <1>5, GrowsSame
<1>7. Bound(n, u, Open(u))
  BY <1>1, <1>4, <1>5, <1>6, BoundKept
<1>8. n.index = Place(u)
  <2>1. Place(u) = Place(t) + SizeOf(s) /\ SizeOf(s) = 0
    BY <1>1, EndsGrow, NoSize
  <2> QED BY <1>1, <1>5, <2>1
<1>9. Follows(n, u)
  BY <1>1, <1>2, <1>3, <1>5, <1>7, <1>8, ReadsOn
<1> QED BY <1>9 DEF n

LEMMA ProcReads ==
    ASSUME NEW u, NEW t, NEW s, NEW m, Reading1(u, t, s, m), s.op = "proc"
    PROVE  Follows(EnterProc(m), u)
<1> DEFINE n == EnterProc(m)
<1>1. /\ t \in Texts /\ s \in Stmts /\ Grown(u, t, s) /\ MemSound(m, u) /\ Bound(m, t, Open(t))
      /\ MemSound(m, t) /\ ScopesName(m) /\ ReadInv(m, t) /\ m.index = Place(t) /\ m.index \in Nat
  BY Starting
<1>2. Enters(n, m, u) /\ Enters(n, m, t)
  BY <1>1, EnterProcSound
<1> HIDE DEF n
<1>3. s.op \notin {"namespace", "push", "pop"}
  OBVIOUS
<1>4. Bound(n, u, Open(u))
  BY <1>1, <1>2, BoundEnters
<1>5. /\ MemSound(n, u) /\ n.waiting = m.waiting /\ n.index = m.index
      /\ n.ns = m.ns /\ n.nsStack = m.nsStack
  BY <1>2 DEF Enters, Kept, SameRest
<1>6. n.index = Place(u)
  <2>1. Place(u) = Place(t) + SizeOf(s) /\ SizeOf(s) = 0
    BY <1>1, EndsGrow, NoSize
  <2> QED BY <1>1, <1>5, <2>1
<1>7. Follows(n, u)
  BY <1>1, <1>3, <1>4, <1>5, <1>6, ReadsOn
<1> QED BY <1>7 DEF n

LEMMA EndpReads ==
    ASSUME NEW u, NEW t, NEW s, NEW m, Reading1(u, t, s, m), s.op = "endp"
    PROVE  Follows(ExitProc(m), u)
<1> DEFINE n == ExitProc(m)
<1>1. /\ t \in Texts /\ s \in Stmts /\ Grown(u, t, s) /\ MemSound(m, u) /\ Bound(m, t, Open(t))
      /\ MemSound(m, t) /\ ScopesName(m) /\ ReadInv(m, t) /\ m.index = Place(t) /\ m.index \in Nat
  BY Starting
<1>2. CASE Len(m.scopes) <= 1
  <2> DEFINE e == "ENDP without PROC"
  <2>1. n = Error(m, e)
    BY <1>2 DEF ExitProc
  <2>2. e \in Messages /\ e # "none"
    BY DEF Messages
  <2> HIDE DEF e, n
  <2>3. MemSound(n, u) /\ n.err # "none"
    BY <1>1, <2>1, <2>2, ErrorSound DEF Alike
  <2> QED BY <2>3 DEF Follows, n
<1>3. CASE ~(Len(m.scopes) <= 1)
  <2>1. \A x \in Public(m) : x \in DOMAIN m.scopes[1] => Defined(m, Here(m)[x])
    <3>1. Len(m.scopes) = Len(Open(t)) /\ Len(m.scopes) \in Nat
      BY <1>1, Facts DEF Bound
    <3>2. Len(m.scopes) \in 2..Len(Open(t))
      BY <1>3, <3>1
    <3> QED BY <1>1, <3>2 DEF Bound, Public, Here
  <2>2. Leaves(n, m, u) /\ Leaves(n, m, t)
    BY <1>1, <2>1, ExitProcSound
  <2> HIDE DEF n
  <2>3. s.op \notin {"namespace", "push", "pop"}
    OBVIOUS
  <2>4. n.err = "none" => Bound(n, u, Open(u))
    BY <1>1, <2>2, BoundLeaves
  <2>5. /\ MemSound(n, u) /\ n.waiting = m.waiting /\ n.index = m.index
        /\ n.ns = m.ns /\ n.nsStack = m.nsStack
    BY <2>2 DEF Leaves, Kept, SameRest
  <2>6. n.index = Place(u)
    <3>1. Place(u) = Place(t) + SizeOf(s) /\ SizeOf(s) = 0
      BY <1>1, EndsGrow, NoSize
    <3> QED BY <1>1, <2>5, <3>1
  <2>7. Follows(n, u)
    BY <1>1, <2>3, <2>4, <2>5, <2>6, ReadsOn
  <2> QED BY <2>7 DEF n
<1> QED BY <1>2, <1>3

LEMMA LocalReads ==
    ASSUME NEW u, NEW t, NEW s, NEW m, Reading1(u, t, s, m), s.op = "local"
    PROVE  Follows(SetLabel(m, <<m.ns, s.name>>), u)
<1> DEFINE name == <<m.ns, s.name>>
           n == SetLabel(m, name)
<1>1. /\ t \in Texts /\ s \in Stmts /\ Grown(u, t, s) /\ MemSound(m, u) /\ Bound(m, t, Open(t))
      /\ MemSound(m, t) /\ ScopesName(m) /\ ReadInv(m, t) /\ m.index = Place(t) /\ m.index \in Nat
  BY Starting
<1>2. name \in Keys /\ name = <<Last(Space(t)), s.name>>
  BY KeyTyped, ZenonT(30)
<1> HIDE DEF name
<1>3. Hides(n, m, u, name) /\ Hides(n, m, t, name)
  BY <1>1, <1>2, SetLabelSound
<1> HIDE DEF n
<1>4. s.op \notin {"namespace", "push", "pop"}
  OBVIOUS
<1>5. Bound(n, u, Open(t)) /\ Open(u) = Open(t)
  BY <1>1, <1>2, <1>3, BoundHides, EndsGrow
<1>6. /\ MemSound(n, u) /\ n.waiting = m.waiting /\ n.index = m.index
      /\ n.ns = m.ns /\ n.nsStack = m.nsStack
  BY <1>3 DEF Hides, Kept, SameRest
<1>7. n.index = Place(u)
  <2>1. Place(u) = Place(t) + SizeOf(s) /\ SizeOf(s) = 0
    BY <1>1, EndsGrow, NoSize
  <2> QED BY <1>1, <1>6, <2>1
<1>8. Follows(n, u)
  BY <1>1, <1>4, <1>5, <1>6, <1>7, ReadsOn
<1> QED BY <1>8 DEF n, name

LEMMA FrontOfAppend ==
    ASSUME NEW S, NEW q \in Seq(S), NEW x \in S
    PROVE  Front(Append(q, x)) = q /\ Last(Append(q, x)) = x
<1> DEFINE r == Append(q, x)
<1>1. r \in Seq(S) /\ Len(q) \in Nat /\ Len(r) = Len(q) + 1 /\ r[Len(q) + 1] = x
      /\ \A k \in 1..Len(q) : r[k] = q[k]
  OBVIOUS
<1> HIDE DEF r
<1>2. /\ Front(r) \in Seq(S) /\ Len(Front(r)) = Len(q)
      /\ \A k \in 1..Len(q) : Front(r)[k] = q[k]
  <2>1. Len(r) >= 1 /\ Len(r) - 1 = Len(q)
    BY <1>1
  <2>2. /\ Front(r) \in Seq(S) /\ Len(Front(r)) = Len(r) - 1
        /\ \A k \in 1..(Len(r) - 1) : Front(r)[k] = r[k]
    BY <1>1, <2>1, FrontOf
  <2> QED BY <1>1, <2>1, <2>2
<1>3. Front(r) = q
  BY <1>2, SeqEqual
<1>4. Last(r) = x
  BY <1>1 DEF Last
<1> QED BY <1>3, <1>4 DEF r

LEMMA AppendToFront ==
    ASSUME NEW S, NEW q \in Seq(S), Len(q) >= 1
    PROVE  Append(Front(q), Last(q)) = q /\ Last(q) \in S
<1> DEFINE f == Front(q)
           x == Last(q)
           r == Append(f, x)
<1>1. /\ Len(q) \in Nat /\ f \in Seq(S) /\ Len(f) = Len(q) - 1
      /\ \A k \in 1..(Len(q) - 1) : f[k] = q[k]
  BY FrontOf
<1>2. x = q[Len(q)] /\ x \in S
  BY <1>1 DEF Last
<1> HIDE DEF f, x
<1>3. r \in Seq(S) /\ Len(r) = Len(q) /\ \A k \in 1..Len(q) : r[k] = q[k]
  BY <1>1, <1>2
<1> HIDE DEF r
<1>4. r = q
  BY <1>3, SeqEqual
<1> QED BY <1>2, <1>4 DEF r, f, x

\* A statement that only moves to other namespaces.
LEMMA SpaceReads ==
    ASSUME NEW u, NEW t, NEW s, NEW m, Reading1(u, t, s, m), s.op \in {"namespace", "push", "pop"},
           NEW n \in Memory, SameNames(n, m), SameCode(n, m),
           n.ns = Last(Space(u)), n.nsStack = Front(Space(u))
    PROVE  Follows(n, u)
<1>1. /\ t \in Texts /\ s \in Stmts /\ Grown(u, t, s) /\ MemSound(m, u) /\ Bound(m, t, Open(t))
      /\ ScopesName(m) /\ ReadInv(m, t) /\ m \in Memory /\ m.index = Place(t) /\ m.index \in Nat
  BY Starting
<1>2. Alike(n, m, u)
  BY <1>1, AlikeSound
<1>3. s.op # "local"
  OBVIOUS
<1>4. Bound(m, u, Open(t)) /\ Open(u) = Open(t)
  BY <1>1, <1>3, BoundGrows, EndsGrow
<1>5. /\ MemSound(n, u) /\ n.scopes = m.scopes /\ n.labels = m.labels /\ n.waiting = m.waiting
      /\ n.index = m.index
  BY <1>2 DEF Alike, SameNames, SameCode
<1>6. Grows(n, m)
  BY <1>1, <1>5, GrowsSame
<1>7. Bound(n, u, Open(u))
  BY <1>1, <1>4, <1>5, <1>6, BoundKept
<1>8. n.index = Place(u)
  <2>1. Place(u) = Place(t) + SizeOf(s) /\ SizeOf(s) = 0
    BY <1>1, EndsGrow, NoSize
  <2> QED BY <1>1, <1>5, <2>1
<1>9. Waiting(n, u)
  BY <1>1, <1>5, WaitingGrows DEF ReadInv
<1> HIDE DEF Waiting
<1> QED BY <1>5, <1>7, <1>8, <1>9 DEF Follows, ReadInv

\* n is m in another namespace.
Turns(n, m, w, q) ==
    n \in Memory /\ SameNames(n, m) /\ SameCode(n, m) /\ n.ns = w /\ n.nsStack = q

LEMMA OtherSpace ==
    ASSUME NEW m \in Memory, NEW w \in Words, NEW q \in Seq(Words)
    PROVE  Turns([m EXCEPT !.ns = w, !.nsStack = q], m, w, q)
  BY DEF Memory, SameNames, SameCode, Turns

LEMMA NamespaceReads ==
    ASSUME NEW u, NEW t, NEW s, NEW m, Reading1(u, t, s, m), s.op = "namespace"
    PROVE  Follows([m EXCEPT !.ns = s.name], u)
<1> DEFINE p == Space(t)
           n == [m EXCEPT !.ns = s.name, !.nsStack = Front(p)]
<1>1. /\ t \in Texts /\ s \in Stmts /\ Grown(u, t, s) /\ m \in Memory /\ ReadInv(m, t)
      /\ s.name \in Words
  BY Starting
<1>2. p \in Seq(Words) /\ Len(p) >= 1
  BY <1>1, EndTyped
<1>3. m.nsStack = Front(p)
  BY <1>1 DEF ReadInv
<1>4. Front(p) \in Seq(Words)
  <2> HIDE DEF p
  <2> QED BY <1>2, FrontOf
<1>5. [m EXCEPT !.ns = s.name] = n
  <2> DEFINE f == Front(p)
  <2>1. m.nsStack = f
    BY <1>3
  <2> HIDE DEF f
  <2>2. [m EXCEPT !.ns = s.name] = [m EXCEPT !.ns = s.name, !.nsStack = f]
    BY <1>1, <2>1 DEF Memory
  <2> QED BY <2>2 DEF f
<1>6. Space(u) = Append(Front(p), s.name)
  BY <1>1, EndsGrow
<1>7. Last(Space(u)) = s.name /\ Front(Space(u)) = Front(p)
  <2> DEFINE f == Front(p)
  <2> HIDE DEF f
  <2>1. Front(Append(f, s.name)) = f /\ Last(Append(f, s.name)) = s.name
    BY <1>1, <1>4, FrontOfAppend DEF f
  <2> QED BY <1>6, <2>1 DEF f
<1>8. Turns(n, m, s.name, Front(p))
  <2> DEFINE f == Front(p)
             w == s.name
  <2> HIDE DEF f, w
  <2>1. Turns([m EXCEPT !.ns = w, !.nsStack = f], m, w, f)
    BY <1>1, <1>4, OtherSpace DEF f, w
  <2> QED BY <2>1 DEF f, w
<1> HIDE DEF n
<1>9. Follows(n, u)
  BY <1>7, <1>8, SpaceReads DEF Turns
<1> QED BY <1>5, <1>9

LEMMA PushReads ==
    ASSUME NEW u, NEW t, NEW s, NEW m, Reading1(u, t, s, m), s.op = "push"
    PROVE  Follows([m EXCEPT !.ns = s.name, !.nsStack = Append(@, m.ns)], u)
<1> DEFINE p == Space(t)
           w == s.name
           n == [m EXCEPT !.ns = w, !.nsStack = p]
<1>1. /\ t \in Texts /\ s \in Stmts /\ Grown(u, t, s) /\ m \in Memory /\ ReadInv(m, t)
      /\ s.name \in Words
  BY Starting
<1>2. p \in Seq(Words) /\ Len(p) >= 1
  BY <1>1, EndTyped
<1>3. m.nsStack = Front(p) /\ m.ns = Last(p)
  BY <1>1 DEF ReadInv
<1>4. Space(u) = Append(p, w)
  BY <1>1, EndsGrow
<1> HIDE DEF p, w
<1>5. Append(m.nsStack, m.ns) = p
  BY <1>2, <1>3, AppendToFront
<1>6. Last(Space(u)) = w /\ Front(Space(u)) = p
  BY <1>1, <1>2, <1>4, FrontOfAppend DEF w
<1>7. [m EXCEPT !.ns = w, !.nsStack = Append(@, m.ns)] = n
  BY <1>5
<1>8. Turns(n, m, w, p)
  BY <1>1, <1>2, OtherSpace DEF w
<1> HIDE DEF n
<1>9. Follows(n, u)
  BY <1>6, <1>8, SpaceReads DEF Turns
<1> QED BY <1>7, <1>9 DEF w

LEMMA PopReads ==
    ASSUME NEW u, NEW t, NEW s, NEW m, Reading1(u, t, s, m), s.op = "pop"
    PROVE  Follows(IF m.nsStack = << >> THEN Error(m, "no namespace to pop")
                   ELSE [m EXCEPT !.ns = Last(m.nsStack), !.nsStack = Front(@)], u)
<1> DEFINE p == Space(t)
           f == Front(p)
           n == [m EXCEPT !.ns = Last(f), !.nsStack = Front(f)]
<1>1. /\ t \in Texts /\ s \in Stmts /\ Grown(u, t, s) /\ m \in Memory /\ ReadInv(m, t)
      /\ s.name \in Words /\ MemSound(m, u)
  BY Starting
<1>2. p \in Seq(Words) /\ Len(p) >= 1
  BY <1>1, EndTyped
<1>3. m.nsStack = f
  BY <1>1 DEF ReadInv
<1>4. Len(p) > 1 => Space(u) = f
  BY <1>1, EndsGrow
<1> HIDE DEF p
<1>5. f \in Seq(Words) /\ Len(f) = Len(p) - 1 /\ Len(p) \in Nat
  BY <1>2, FrontOf
<1> HIDE DEF f
<1>6. CASE m.nsStack = << >>
  <2> DEFINE e == "no namespace to pop"
             q == Error(m, e)
  <2>1. e \in Messages /\ e # "none"
    BY DEF Messages
  <2> HIDE DEF e
  <2>2. MemSound(q, u) /\ q.err # "none"
    BY <1>1, <2>1, ErrorSound DEF Alike
  <2> HIDE DEF q
  <2>3. Follows(q, u)
    BY <2>2 DEF Follows
  <2> QED BY <1>6, <2>3 DEF q, e
<1>7. CASE m.nsStack # << >>
  <2>1. Len(f) >= 1
    BY <1>3, <1>5, <1>7
  <2>2. Space(u) = f
    BY <1>4, <1>5, <2>1
  <2>3. Last(f) \in Words /\ Front(f) \in Seq(Words)
    BY <1>5, <2>1, AppendToFront, FrontOf
  <2>4. [m EXCEPT !.ns = Last(m.nsStack), !.nsStack = Front(@)] = n
    BY <1>3
  <2>5. /\ n \in Memory /\ SameNames(n, m) /\ SameCode(n, m)
        /\ n.ns = Last(Space(u)) /\ n.nsStack = Front(Space(u))
    <3> DEFINE w == Last(f)
               g == Front(f)
    <3> HIDE DEF w, g
    <3>1. Turns([m EXCEPT !.ns = w, !.nsStack = g], m, w, g)
      BY <1>1, <2>3, OtherSpace DEF w, g
    <3>2. Turns(n, m, Last(f), Front(f))
      BY <3>1 DEF w, g
    <3> HIDE DEF n
    <3> QED BY <2>2, <3>2 DEF Turns
  <2> HIDE DEF n
  <2>6. Follows(n, u)
    BY <2>5, SpaceReads
  <2> QED BY <1>7, <2>4, <2>6
<1> QED BY <1>6, <1>7

LEMMA InitReads ==
    ASSUME NEW u, NEW t, NEW s, NEW m, Reading1(u, t, s, m), s.op = "init"
    PROVE  Follows(m, u)
<1>1. /\ t \in Texts /\ s \in Stmts /\ Grown(u, t, s) /\ MemSound(m, u) /\ Bound(m, t, Open(t))
      /\ ReadInv(m, t) /\ m.index = Place(t) /\ m.index \in Nat
  BY Starting
<1>2. s.op # "local" /\ s.op \notin {"namespace", "push", "pop"}
  OBVIOUS
<1>3. Bound(m, u, Open(u))
  BY <1>1, <1>2, BoundGrows, EndsGrow
<1>4. Place(u) = Place(t) + SizeOf(s) /\ SizeOf(s) = 0
  BY <1>1, EndsGrow, NoSize
<1>5. m.index = Place(u)
  BY <1>1, <1>4
<1> QED BY <1>1, <1>2, <1>3, <1>5, ReadsOn

LEMMA EndReads ==
    ASSUME NEW u, NEW t, NEW s, NEW m, Reading1(u, t, s, m)
    PROVE  LET g == GetLabel(m, <<m.ns, s.name>>)
               v == TryEval(g.m.labels, [lab |-> g.o, k |-> 0])
           IN  /\ v \in Int \cup {None} /\ MemSound(g.m, u)
               /\ MemSound(Error(g.m, "undefined label"), u)
<1> DEFINE name == <<m.ns, s.name>>
           g == GetLabel(m, name)
           e == [lab |-> g.o, k |-> 0]
           w == "undefined label"
<1>1. MemSound(m, u) /\ name \in Keys
  BY Starting, KeyTyped
<1> HIDE DEF name
<1>2. Looks(g, m, u, name)
  BY <1>1, GetLabelSound
<1> HIDE DEF g
<1>3. MemSound(g.m, u) /\ g.o \in 1..Len(g.m.labels)
  BY <1>2 DEF Looks
<1>4. g.m.labels \in Seq(Labels) /\ Rooted(g.m.labels) /\ Len(g.m.labels) \in Nat
  BY <1>3, Facts
<1>5. e \in Exprs /\ e.lab \in 0..Len(g.m.labels)
  BY <1>3, <1>4 DEF Exprs
<1> HIDE DEF e
<1>6. TryEval(g.m.labels, e) \in Int \cup {None}
  <2> DEFINE l == g.m.labels
  <2> HIDE DEF l
  <2> QED BY <1>4, <1>5, TryEvalTyped DEF l
<1>7. w \in Messages /\ w # "none"
  BY DEF Messages
<1> DEFINE q == g.m
<1> HIDE DEF w, q
<1>8. MemSound(Error(q, w), u)
  BY <1>3, <1>7, ErrorSound DEF q, Alike
<1> QED BY <1>3, <1>6, <1>8 DEF g, e, w, name, q

-----------------------------------------------------------------------------
(* After the text: the calls of main, and dump.                            *)

LEMMA CodeAdded ==
    ASSUME NEW m, NEW t, MemSound(m, t), NEW i \in Instrs, i.arg.lab \in 0..Len(m.labels), i.size = 3
    PROVE  /\ MemSound(AddInstruction(m, i), t)
           /\ DOMAIN m.bytes \subseteq DOMAIN AddInstruction(m, i).bytes
<1> DEFINE n == AddInstruction(m, i)
<1>1. m \in Memory /\ NamesSound(m) /\ CodeSound(m, t) /\ Rooted(m.labels)
  BY DEF MemSound, NamesSound
<1>2. Assembles(n, m, t, i.size)
  BY <1>1, AddInstructionSound
<1> HIDE DEF n
<1>3. n \in Memory /\ SameNames(n, m) /\ CodeSound(n, t) /\ DOMAIN m.bytes \subseteq DOMAIN n.bytes
  BY <1>2 DEF Assembles
<1>4. NamesSound(n)
  BY <1>1, <1>3, NamesKept
<1>5. MemSound(n, t)
  BY <1>3, <1>4 DEF MemSound
<1> QED BY <1>3, <1>5 DEF n

LEMMA JumpTyped ==
    ASSUME NEW id \in Int, NEW arg \in Exprs
    PROVE  Jump(id, arg) \in Instrs /\ Jump(id, arg).arg = arg /\ Jump(id, arg).size = 3
<1> DEFINE s == [op |-> "jp"]
           i == Instruction(s, id, arg)
           r == s.op \in Relative
           d == s.op \in {"defs", "defw"}
<1>1. SizeOf(s) = 3
  BY DEF SizeOf
<1>2. i = [id |-> id, size |-> SizeOf(s), arg |-> arg, rel |-> r, data |-> d, pending |-> FALSE]
  BY DEF Instruction
<1>3. r \in BOOLEAN /\ d \in BOOLEAN
  OBVIOUS
<1> HIDE DEF r, d, s
<1>4. i \in Instrs /\ i.arg = arg /\ i.size = 3
  BY <1>1, <1>2, <1>3 DEF Instrs
<1> HIDE DEF i
<1>5. [i EXCEPT !.rel = FALSE] \in Instrs /\ [i EXCEPT !.rel = FALSE].arg = arg
      /\ [i EXCEPT !.rel = FALSE].size = 3
  BY <1>4 DEF Instrs
<1> QED BY <1>5 DEF Jump, i, s

\* The three loops over a sequence.
Called(m, xs) ==
    FoldLeft(LAMBDA r, x : LET g == GetLabel(r, <<r.ns, x>>)
                           IN  AddInstruction(g.m, Jump(-1, [lab |-> g.o, k |-> 0])), m, xs)
Resolved(m, os) == FoldLeft(ResolveTemporaryLabel, m, os)
Dumped(d, as) == FoldLeft(DumpAt, d, as)

LEMMA CalledStays ==
    ASSUME NEW m, NEW seq, NEW n \in Nat, DOMAIN seq = 1..n, NEW Good, m \in Good,
           \A acc \in Good, x \in 1..n : Body("call", 0, acc, seq[x]) \in Good
    PROVE  Called(m, seq) \in Good
<1> DEFINE S == DOMAIN seq
           Is(g) == g = [s \in SUBSET S |->
                 IF s = {} THEN m ELSE Body("call", 0, g[s \ {Max(s)}], seq[Max(s)])]
           f == CHOOSE g : Is(g)
<1>1. IsFiniteSet(S) /\ \A s \in SUBSET S : s # {} => Chosen("call", s) \in s
  BY MaxChosen
<1>2. \A acc \in Good, x \in S : Body("call", 0, acc, Item("call", seq, x)) \in Good
  BY DEF Item
<1>3. /\ \E g : Folding(g, "call", 0, m, seq, S)
      /\ \A g : Folding(g, "call", 0, m, seq, S) => g[S] \in Good
  <2> HIDE DEF S
  <2> QED BY <1>1, <1>2, FoldStays
<1>4. Called(m, seq) = f[S]
  BY DEF Called, FoldLeft, MapThenFoldSet, Body
<1>5. \A g : Is(g) <=> Folding(g, "call", 0, m, seq, S)
  BY DEF Folding, Item, Chosen
<1>6. Is(f)
  <2> HIDE DEF Is
  <2>1. \E g : Is(g)
    BY <1>3, <1>5
  <2> QED BY <2>1
<1> HIDE DEF f, Is, S
<1> QED BY <1>3, <1>4, <1>5, <1>6

LEMMA ResolvedStays ==
    ASSUME NEW m, NEW seq, NEW n \in Nat, DOMAIN seq = 1..n, NEW Good, m \in Good,
           \A acc \in Good, x \in 1..n : ResolveTemporaryLabel(acc, seq[x]) \in Good
    PROVE  Resolved(m, seq) \in Good
<1> DEFINE S == DOMAIN seq
           Is(g) == g = [s \in SUBSET S |->
                 IF s = {} THEN m ELSE ResolveTemporaryLabel(g[s \ {Max(s)}], seq[Max(s)])]
           f == CHOOSE g : Is(g)
<1>1. IsFiniteSet(S) /\ \A s \in SUBSET S : s # {} => Chosen("resolve", s) \in s
  BY MaxChosen
<1>2. \A acc \in Good, x \in S : Body("resolve", 0, acc, Item("resolve", seq, x)) \in Good
  BY DEF Item, Body
<1>3. /\ \E g : Folding(g, "resolve", 0, m, seq, S)
      /\ \A g : Folding(g, "resolve", 0, m, seq, S) => g[S] \in Good
  <2> HIDE DEF S
  <2> QED BY <1>1, <1>2, FoldStays
<1>4. Resolved(m, seq) = f[S]
  BY DEF Resolved, FoldLeft, MapThenFoldSet
<1>5. \A g : Is(g) <=> Folding(g, "resolve", 0, m, seq, S)
  BY DEF Folding, Item, Chosen, Body
<1>6. Is(f)
  <2> HIDE DEF Is
  <2>1. \E g : Is(g)
    BY <1>3, <1>5
  <2> QED BY <2>1
<1> HIDE DEF f, Is, S
<1> QED BY <1>3, <1>4, <1>5, <1>6

LEMMA DumpedStays ==
    ASSUME NEW d, NEW seq, NEW n \in Nat, DOMAIN seq = 1..n, NEW Good, d \in Good,
           \A acc \in Good, x \in 1..n : DumpAt(acc, seq[x]) \in Good
    PROVE  Dumped(d, seq) \in Good
<1> DEFINE S == DOMAIN seq
           Is(g) == g = [s \in SUBSET S |->
                 IF s = {} THEN d ELSE DumpAt(g[s \ {Max(s)}], seq[Max(s)])]
           f == CHOOSE g : Is(g)
<1>1. IsFiniteSet(S) /\ \A s \in SUBSET S : s # {} => Chosen("dump", s) \in s
  BY MaxChosen
<1>2. \A acc \in Good, x \in S : Body("dump", 0, acc, Item("dump", seq, x)) \in Good
  BY DEF Item, Body
<1>3. /\ \E g : Folding(g, "dump", 0, d, seq, S)
      /\ \A g : Folding(g, "dump", 0, d, seq, S) => g[S] \in Good
  <2> HIDE DEF S
  <2> QED BY <1>1, <1>2, FoldStays
<1>4. Dumped(d, seq) = f[S]
  BY DEF Dumped, FoldLeft, MapThenFoldSet
<1>5. \A g : Is(g) <=> Folding(g, "dump", 0, d, seq, S)
  BY DEF Folding, Item, Chosen, Body
<1>6. Is(f)
  <2> HIDE DEF Is
  <2>1. \E g : Is(g)
    BY <1>3, <1>5
  <2> QED BY <2>1
<1> HIDE DEF f, Is, S
<1> QED BY <1>3, <1>4, <1>5, <1>6

\* The calls that main adds.
LEMMA CalledSound ==
    ASSUME NEW m, NEW t, MemSound(m, t), NEW xs \in Seq(Words)
    PROVE  MemSound(Called(m, xs), t) /\ DOMAIN m.bytes \subseteq DOMAIN Called(m, xs).bytes
<1> DEFINE n == Len(xs)
           Good == {r \in Memory : MemSound(r, t) /\ DOMAIN m.bytes \subseteq DOMAIN r.bytes}
<1>1. n \in Nat /\ DOMAIN xs = 1..n /\ m \in Good
  BY DEF MemSound
<1>2. ASSUME NEW acc \in Good, NEW k \in 1..n PROVE Body("call", 0, acc, xs[k]) \in Good
  <2> DEFINE x == xs[k]
             name == <<acc.ns, x>>
             g == GetLabel(acc, name)
             e == [lab |-> g.o, k |-> 0]
             i == Jump(-1, e)
             r == AddInstruction(g.m, i)
  <2>1. Body("call", 0, acc, x) = r
    BY DEF Body
  <2>2. acc \in Memory /\ MemSound(acc, t) /\ DOMAIN m.bytes \subseteq DOMAIN acc.bytes
    OBVIOUS
  <2>3. x \in Words /\ acc.ns \in Words
    BY <2>2 DEF Memory
  <2> HIDE DEF x
  <2>4. name \in Keys
    BY <2>3 DEF Keys
  <2> HIDE DEF name
  <2>5. Looks(g, acc, t, name)
    BY <2>2, <2>4, GetLabelSound
  <2> HIDE DEF g
  <2>6. MemSound(g.m, t) /\ g.o \in 1..Len(g.m.labels) /\ DOMAIN acc.bytes \subseteq DOMAIN g.m.bytes
    BY <2>5 DEF Looks, Kept
  <2>7. Len(g.m.labels) \in Nat
    BY <2>6, Facts
  <2>8. e \in Exprs /\ e.lab \in 0..Len(g.m.labels)
    BY <2>6, <2>7 DEF Exprs
  <2> HIDE DEF e
  <2>9. i \in Instrs /\ i.arg.lab \in 0..Len(g.m.labels) /\ i.size = 3
    <3>1. -1 \in Int
      OBVIOUS
    <3>2. i \in Instrs /\ i.arg = e /\ i.size = 3
      BY <2>8, <3>1, JumpTyped
    <3> HIDE DEF i
    <3> QED BY <2>8, <3>2
  <2> HIDE DEF i
  <2>10. MemSound(r, t) /\ DOMAIN g.m.bytes \subseteq DOMAIN r.bytes
    BY <2>6, <2>9, CodeAdded
  <2> HIDE DEF r
  <2>11. r \in Good
    BY <2>2, <2>6, <2>10 DEF MemSound
  <2> QED BY <2>1, <2>11 DEF x
<1> HIDE DEF n, Good
<1>3. Called(m, xs) \in Good
  BY <1>1, <1>2, CalledStays
<1> QED BY <1>3 DEF Good

\* A set of numbers that is not empty has a least one.
LEMMA LeastExists ==
    ASSUME NEW S \in SUBSET Nat, S # {}
    PROVE  \E x \in S : \A y \in S : x <= y
<1> SUFFICES ASSUME \A x \in S : \E y \in S : ~(x <= y) PROVE FALSE
  OBVIOUS
<1> DEFINE K == {n \in Nat : \A y \in S : n <= y}
<1>1. 0 \in K
  OBVIOUS
<1>2. ASSUME NEW n \in Nat, n \in K PROVE n + 1 \in K
  <2>1. n \notin S
    BY <1>2
  <2> QED BY <1>2, <2>1
<1> HIDE DEF K
<1>3. Nat \subseteq K
  BY <1>1, <1>2, NatSetInduction
<1>4. PICK x \in S : TRUE
  OBVIOUS
<1>5. x + 1 \in K
  BY <1>3, <1>4
<1> QED BY <1>4, <1>5 DEF K

LEMMA ExtremesExist ==
    ASSUME NEW S \in SUBSET Nat, IsFiniteSet(S), S # {}
    PROVE  SetMin(S) \in S /\ SetMax(S) \in S /\ SetMin(S) <= SetMax(S)
<1>1. SetMin(S) \in S /\ \A y \in S : SetMin(S) <= y
  BY LeastExists DEF SetMin
<1>2. SetMax(S) \in S
  BY GreatestExists DEF SetMax
<1> QED BY <1>1, <1>2

LEMMA ResolveSound ==
    ASSUME NEW m, NEW t, MemSound(m, t), NEW o \in 1..Len(m.labels)
    PROVE  LET n == ResolveTemporaryLabel(m, o) IN
           MemSound(n, t) /\ Len(n.labels) = Len(m.labels) /\ SameCode(n, m)
<1> DEFINE found == {x \in m.tmp : Found(m, m.labels[o], x)}
           w == "undefined temporary label"
           n == ResolveTemporaryLabel(m, o)
<1>1. m \in Memory /\ m.labels \in Seq(Labels) /\ Len(m.labels) \in Nat
  BY Facts
<1> HIDE DEF found
<1>2. CASE found = {}
  <2>1. n = Error(m, w)
    BY <1>2 DEF ResolveTemporaryLabel, found
  <2>2. w \in Messages /\ w # "none"
    BY DEF Messages
  <2> HIDE DEF n, w
  <2>3. Alike(n, m, t)
    BY <2>1, <2>2, ErrorSound
  <2>4. MemSound(n, t) /\ n.labels = m.labels /\ SameCode(n, m)
    BY <2>3 DEF Alike, SameNames
  <2> QED BY <2>4 DEF n
<1>3. CASE found # {}
  <2> DEFINE x == CHOOSE x \in found : TRUE
             v == [lab |-> 0, k |-> x.value]
             d == Define(m, o, v)
             q == [m EXCEPT !.labels[o].value = v]
  <2>1. n = q
    BY <1>3 DEF ResolveTemporaryLabel, found
  <2>2. x \in found
    BY <1>3
  <2> HIDE DEF x
  <2>3. x.value \in Nat
    <3>1. x \in Temps
      BY <1>1, <2>2 DEF Memory, found
    <3> QED BY <3>1 DEF Temps
  <2>4. v \in Exprs /\ v.lab \in 0..Len(m.labels) /\ v \in Values
    BY <1>1, <2>3 DEF Exprs, Values
  <2> HIDE DEF v
  <2>5. Defines(d, m, o, v)
    BY <1>1, <2>4, DefineFields
  <2>6. MemSound(d, t) /\ Len(d.labels) = Len(m.labels)
    BY <2>4, DefineSound
  <2> HIDE DEF d, n
  <2>7. d \in Memory /\ d.labels = [m.labels EXCEPT ![o].value = v] /\ d.scopes = m.scopes
        /\ d.waiting = m.waiting /\ SameCode(d, m)
    BY <2>5 DEF Defines
  <2>8. q = [m EXCEPT !.labels = d.labels]
    BY <1>1, <2>7 DEF Memory
  <2>9. /\ q \in Memory /\ q.labels = d.labels /\ q.scopes = m.scopes
        /\ q.waiting = m.waiting /\ SameCode(q, m)
    <3> HIDE DEF q
    <3>1. d.labels \in Seq(Labels)
      BY <2>7 DEF Memory
    <3> DEFINE l == d.labels
    <3> HIDE DEF l
    <3>2. q = [m EXCEPT !.labels = l] /\ l \in Seq(Labels)
      BY <2>8, <3>1 DEF l
    <3>3. q \in Memory /\ q.labels = l
      BY <1>1, <3>2 DEF Memory
    <3>4. q.scopes = m.scopes /\ q.waiting = m.waiting /\ SameCode(q, m)
      BY <1>1, <3>2 DEF Memory, SameCode
    <3> QED BY <3>3, <3>4 DEF l
  <2> HIDE DEF q
  <2>10. SameNames(q, d) /\ SameCode(q, d)
    BY <2>7, <2>9 DEF SameNames, SameCode
  <2>11. Alike(q, d, t)
    BY <2>6, <2>9, <2>10, AlikeSound
  <2>12. MemSound(q, t) /\ Len(q.labels) = Len(m.labels) /\ SameCode(q, m)
    BY <2>6, <2>9, <2>11 DEF Alike
  <2>13. MemSound(n, t) /\ Len(n.labels) = Len(m.labels) /\ SameCode(n, m)
    BY <2>1, <2>12
  <2> QED BY <2>13 DEF n
<1> QED BY <1>2, <1>3

LEMMA ResolvedSound ==
    ASSUME NEW m, NEW t, MemSound(m, t)
    PROVE  MemSound(Resolved(m, m.waiting), t) /\ SameCode(Resolved(m, m.waiting), m)
<1> DEFINE q == m.waiting
           n == Len(q)
           L == Len(m.labels)
           Good == {r \in Memory : MemSound(r, t) /\ Len(r.labels) = L /\ SameCode(r, m)}
<1>1. m \in Memory /\ q \in Seq(Nat) /\ \A k \in 1..n : q[k] \in 1..L
  BY DEF MemSound, NamesSound, Memory
<1>2. n \in Nat /\ DOMAIN q = 1..n /\ m \in Good
  BY <1>1 DEF SameCode
<1>3. ASSUME NEW acc \in Good, NEW k \in 1..n PROVE ResolveTemporaryLabel(acc, q[k]) \in Good
  <2> DEFINE r == ResolveTemporaryLabel(acc, q[k])
             o == q[k]
  <2>1. MemSound(acc, t) /\ Len(acc.labels) = L /\ SameCode(acc, m) /\ o \in 1..L
    BY <1>1
  <2> HIDE DEF o
  <2>2. LET p == ResolveTemporaryLabel(acc, o) IN
        MemSound(p, t) /\ Len(p.labels) = Len(acc.labels) /\ SameCode(p, acc)
    BY <2>1, ResolveSound
  <2>3. MemSound(r, t) /\ Len(r.labels) = Len(acc.labels) /\ SameCode(r, acc)
    BY <2>2 DEF o
  <2> HIDE DEF r
  <2>4. r \in Good
    BY <2>1, <2>3 DEF MemSound, SameCode
  <2> QED BY <2>4 DEF r
<1> HIDE DEF Good, n
<1>4. Resolved(m, q) \in Good
  BY <1>2, <1>3, ResolvedStays
<1> QED BY <1>4 DEF Good

LEMMA GlobalsSound ==
    ASSUME NEW m, NEW t, MemSound(m, t)
    PROVE  Alike(CheckGlobals(m), m, t)
<1> DEFINE w == "undefined GLOBAL"
<1>1. w \in Messages /\ w # "none"
  BY DEF Messages
<1>2. CheckGlobals(m) = Error(m, w) \/ CheckGlobals(m) = m
  BY DEF CheckGlobals
<1> HIDE DEF w
<1>3. Alike(Error(m, w), m, t)
  BY <1>1, ErrorSound
<1>4. Alike(m, m, t)
  BY DEF Alike, SameNames, SameCode
<1> QED BY <1>2, <1>3, <1>4

\* What dump has so far.
Dumps == [m : Memory, out : Seq(Cell), align : Nat]

LEMMA DumpAtSound ==
    ASSUME NEW d \in Dumps, NEW t, MemSound(d.m, t), NEW a \in Nat
    PROVE  DumpAt(d, a) \in Dumps /\ MemSound(DumpAt(d, a).m, t)
<1> DEFINE m == d.m
           first == m.orgs[a][1]
           val == ArgVal(m, first)
           done == IF first.pending
                   THEN [m EXCEPT !.err = val.err, !.bytes = Put(@, a, Cells(first, val.v))]
                   ELSE m
           e == DumpAt(d, a)
<1>1. /\ m \in Memory /\ NamesSound(m) /\ CodeSound(m, t) /\ Rooted(m.labels)
      /\ d.out \in Seq(Cell) /\ d.align \in Nat
  BY DEF Dumps, MemSound, NamesSound
<1>2. m.bytes \in Partial(Nat, Cell) /\ m.orgs \in Partial(Nat, Seq(Instrs))
  BY <1>1 DEF Memory
<1>3. \A b \in DOMAIN m.bytes : m.bytes[b] \in Cell
  BY <1>2, PartialDef
<1>4. CASE m.err # "none"
  BY <1>4 DEF DumpAt
<1>5. CASE m.err = "none" /\ a \notin DOMAIN m.orgs
  <2> DEFINE c == IF a \in DOMAIN m.bytes THEN m.bytes[a] ELSE Zero
             o == Append(d.out, c)
  <2>1. e = [d EXCEPT !.out = o]
    BY <1>5 DEF DumpAt
  <2>2. c \in Cell
    BY <1>3, ZeroIsCell
  <2> HIDE DEF c
  <2>3. o \in Seq(Cell)
    BY <1>1, <2>2
  <2> HIDE DEF o, e
  <2>4. e \in Dumps /\ e.m = m
    BY <2>1, <2>3 DEF Dumps
  <2> QED BY <2>4 DEF e
<1>6. CASE m.err = "none" /\ a \in DOMAIN m.orgs /\ m.orgs[a] = << >>
  <2>1. e = [d EXCEPT !.align = @ + 1]
    BY <1>6 DEF DumpAt
  <2> HIDE DEF e
  <2>2. e \in Dumps /\ e.m = m
    BY <1>1, <2>1 DEF Dumps
  <2> QED BY <2>2 DEF e
<1>7. CASE m.err = "none" /\ a \in DOMAIN m.orgs /\ m.orgs[a] # << >>
  <2> DEFINE z == [k \in 1..d.align |-> Zero]
             o == d.out \o z \o <<done.bytes[a]>>
  <2>1. e = [m |-> done, align |-> 0, out |-> o]
    BY <1>7 DEF DumpAt
  <2>2. m.orgs[a] \in Seq(Instrs) /\ Len(m.orgs[a]) >= 1 /\ a \in DOMAIN m.bytes
    <3>1. m.orgs[a] \in Seq(Instrs)
      BY <1>2, <1>7, PartialDef
    <3>2. Len(m.orgs[a]) >= 1
      BY <1>7, <3>1
    <3> QED BY <1>1, <1>7, <3>1, <3>2 DEF CodeSound
  <2>3. first \in Instrs /\ first.arg.lab \in 0..Len(m.labels)
    <3>1. 1 \in 1..Len(m.orgs[a])
      BY <2>2
    <3>2. first.arg.lab \in 0..Len(m.labels)
      BY <1>1, <1>7, <3>1 DEF CodeSound
    <3> QED BY <2>2, <3>1, <3>2, ElementOfSeq
  <2> HIDE DEF first
  <2>4. val.v \in Int /\ val.err \in Messages
    <3> HIDE DEF m
    <3> QED BY <1>1, <2>3, ArgValTyped
  <2> HIDE DEF val
  <2>5. /\ MemSound(done, t) /\ done.bytes[a] \in Cell
    <3>1. CASE first.pending
      <4> DEFINE c == Cells(first, val.v)
                 b == Put(m.bytes, a, c)
                 x == val.err
                 n == [m EXCEPT !.err = x, !.bytes = b]
      <4>1. done = n
        BY <3>1
      <4>2. c \in Seq(Cell) /\ Len(c) = first.size
        BY <2>3, <2>4, CellsTyped
      <4> HIDE DEF c
      <4>3. Covers(b, m.bytes, a, Len(c))
        BY <1>2, <4>2, PutCovers
      <4>4. b \in Partial(Nat, Cell) /\ DOMAIN b = (a..(a + Len(c) - 1)) \cup DOMAIN m.bytes
        BY <4>3 DEF Covers
      <4> HIDE DEF b, x
      <4>5. x \in Messages
        BY <2>4 DEF x
      <4>6. /\ n \in Memory /\ SameNames(n, m) /\ n.orgs = m.orgs /\ n.index = m.index
            /\ n.bytes = b /\ n.labels = m.labels
        <5> HIDE DEF m
        <5> QED BY <1>1, <4>4, <4>5 DEF Memory, SameNames
      <4> HIDE DEF n
      <4>7. NamesSound(n)
        BY <1>1, <4>6, NamesKept
      <4>8. IsFiniteSet(DOMAIN b)
        <5> DEFINE K == a..(a + Len(c) - 1)
        <5>1. IsFiniteSet(DOMAIN m.bytes)
          BY <1>1 DEF CodeSound
        <5>2. IsFiniteSet(K)
          <6>1. Len(c) \in Nat
            BY <4>2
          <6>2. a + Len(c) - 1 \in Int /\ a \in Int
            BY <6>1
          <6> QED BY <6>2, FS_Interval
        <5> HIDE DEF K
        <5>3. IsFiniteSet(K \cup DOMAIN m.bytes)
          BY <5>1, <5>2, FS_Union
        <5> QED BY <4>4, <5>3 DEF K
      <4>9. CodeSound(n, t)
        <5>1. /\ DOMAIN m.orgs \subseteq DOMAIN m.bytes
              /\ \A y \in DOMAIN m.orgs :
                   /\ \A k \in 1..Len(m.orgs[y]) : m.orgs[y][k].arg.lab \in 0..Len(m.labels)
                   /\ m.orgs[y] # << >> => Fits(m, t, y)
          BY <1>1 DEF CodeSound
        <5>2. \A y : Fits(m, t, y) => Fits(n, t, y)
          BY <4>6 DEF Fits
        <5> HIDE DEF m
        <5> QED BY <1>7, <4>4, <4>6, <4>8, <5>1, <5>2 DEF CodeSound
      <4>10. n.bytes[a] \in Cell
        BY <2>2, <4>4, <4>6, PartialDef
      <4>11. MemSound(n, t)
        BY <4>6, <4>7, <4>9 DEF MemSound
      <4> QED BY <4>1, <4>10, <4>11
    <3>2. CASE ~first.pending
      BY <1>3, <2>2, <3>2
    <3> QED BY <3>1, <3>2
  <2> HIDE DEF done
  <2>6. o \in Seq(Cell)
    <3> DEFINE y == <<done.bytes[a]>>
    <3>1. z \in Seq(Cell)
      BY <1>1, ZeroIsCell
    <3>2. y \in Seq(Cell)
      BY <2>5
    <3> HIDE DEF z, y
    <3> QED BY <1>1, <3>1, <3>2 DEF y
  <2> HIDE DEF o, e
  <2>7. done \in Memory
    BY <2>5 DEF MemSound
  <2>8. e \in Dumps /\ e.m = done
    BY <2>1, <2>6, <2>7 DEF Dumps
  <2> QED BY <2>5, <2>8 DEF e
<1> QED BY <1>4, <1>5, <1>6, <1>7

\* The first and the last address dump writes.
LEMMA SpanTyped ==
    ASSUME NEW m, NEW t, MemSound(m, t), DOMAIN m.bytes # {}
    PROVE  /\ SetMin(DOMAIN m.bytes) \in Nat /\ SetMax(DOMAIN m.bytes) \in Nat
           /\ SetMin(DOMAIN m.bytes) <= SetMax(DOMAIN m.bytes)
<1> DEFINE S == DOMAIN m.bytes
<1>1. m.bytes \in Partial(Nat, Cell) /\ IsFiniteSet(S)
  BY DEF MemSound, Memory, CodeSound
<1>2. S \in SUBSET Nat
  BY <1>1, PartialDef
<1> HIDE DEF S
<1>3. SetMin(S) \in S /\ SetMax(S) \in S /\ SetMin(S) <= SetMax(S)
  BY <1>1, <1>2, ExtremesExist DEF S
<1> QED BY <1>2, <1>3 DEF S

\* dump gives an image, or an error.
LEMMA DumpSound ==
    ASSUME NEW m, NEW t, MemSound(m, t), DOMAIN m.bytes # {}
    PROVE  MemSound(Dump(m).m, t) /\ Dump(m).org \in Nat /\ Dump(m).out \in Seq(Cell)
<1> DEFINE org == SetMin(DOMAIN m.bytes)
           top == SetMax(DOMAIN m.bytes)
           n == top - org + 1
           seq == [k \in 1..n |-> org + k - 1]
           ready == CheckGlobals(Resolved(m, m.waiting))
           base == [m |-> ready, out |-> << >>, align |-> 0]
           d == Dumped(base, seq)
           Good == {e \in Dumps : MemSound(e.m, t)}
<1>1. Dump(m) = [m |-> d.m, out |-> d.out, org |-> org]
  BY DEF Dump, Dumped, Resolved
<1>2. org \in Nat /\ top \in Nat /\ org <= top
  BY SpanTyped
<1> HIDE DEF org, top
<1>3. n \in Nat /\ DOMAIN seq = 1..n /\ \A k \in 1..n : seq[k] \in Nat
  BY <1>2
<1>4. MemSound(ready, t)
  <2> DEFINE r == Resolved(m, m.waiting)
  <2> HIDE DEF r
  <2>1. MemSound(r, t)
    BY ResolvedSound DEF r
  <2>2. Alike(CheckGlobals(r), r, t)
    BY <2>1, GlobalsSound
  <2> QED BY <2>2 DEF Alike, r
<1> HIDE DEF ready
<1>5. base \in Good
  BY <1>4 DEF Dumps, MemSound
<1> HIDE DEF base, n, seq
<1>6. ASSUME NEW acc \in Good, NEW k \in 1..n PROVE DumpAt(acc, seq[k]) \in Good
  <2>1. acc \in Dumps /\ MemSound(acc.m, t) /\ seq[k] \in Nat
    BY <1>3
  <2>2. DumpAt(acc, seq[k]) \in Dumps /\ MemSound(DumpAt(acc, seq[k]).m, t)
    BY <2>1, DumpAtSound
  <2> QED BY <2>2
<1> HIDE DEF Good
<1>7. d \in Good
  BY <1>3, <1>5, <1>6, DumpedStays
<1> HIDE DEF d
<1>8. d.out \in Seq(Cell) /\ MemSound(d.m, t)
  BY <1>7 DEF Good, Dumps
<1> QED BY <1>1, <1>2, <1>8

-----------------------------------------------------------------------------
(* The invariant of the specification.                                     *)

Phases == {"reading", "ended", "assembled", "called", "written", "failed", "empty"}
HasCode == phase \in {"assembled", "called"}

\* TypeOK and WaitsReachable are not kept by themselves: a name stays in reach
\* only because the scopes are those of the PROCs open in the text, and the
\* index does not go back only because it is the address the text has there.
Inv ==
    /\ text \in Texts /\ line \in 1..(Len(text) + 1)
    /\ inits \in Seq(Words) /\ autorun \in Int \cup {None}
    /\ phase \in Phases
    /\ MemSound(mem, text)
    /\ Reading => ReadInv(mem, text)
    /\ HasCode => DOMAIN mem.bytes # {}
    /\ phase = "written" <=> image # None

\* A statement of the text after what has been read.
LEMMA StatementStarts ==
    ASSUME Inv, Reading, NEW op, NEW s \in Statement(op), NEW u, u = Append(text, s)
    PROVE  Reading1(u, text, s, mem) /\ KeepsRules(u) /\ s.op = op
<1>1. s \in Stmts /\ KeepsRules(u) /\ s.op = op
  BY DEF Statement, Stmts
<1>2. text \in Texts /\ MemSound(mem, text) /\ ReadInv(mem, text)
  BY DEF Inv
<1>3. Grown(u, text, s)
  BY <1>1, <1>2, TextGrows
<1> QED BY <1>1, <1>2, <1>3 DEF Reading1

\* What a statement leaves; nothing is read after END.
After(op, n, u) == MemSound(n, u) /\ (op # "end" => Follows(n, u))

LEMMA ReadKeeps ==
    ASSUME Inv, Reading, NEW op, NEW s \in Statement(op), NEW n, Reads(s, n),
           After(op, n, Append(text, s)),
           inits' \in Seq(Words), autorun' \in Int \cup {None}, image' = image
    PROVE  Inv'
<1>1. s \in Stmts /\ s.op = op /\ text \in Texts
  BY DEF Statement, Stmts, Inv
<1>2. text' = Append(text, s) /\ mem' = n
  BY DEF Reads
<1>3. text' \in Texts /\ Len(text') = Len(text) + 1 /\ Len(text) \in Nat
  BY <1>1, <1>2 DEF Texts
<1>4. line' \in 1..(Len(text') + 1)
  <2>1. line \in 1..(Len(text) + 1) /\ (line' = line \/ line' = line + 1)
    BY DEF Inv, Reads
  <2> QED BY <1>3, <2>1
<1>5. MemSound(mem', text')
  BY <1>2 DEF After
<1>6. phase' = IF n.err # "none" THEN "failed" ELSE IF s.op = "end" THEN "ended" ELSE "reading"
  BY DEF Reads
<1>7. phase' \in Phases /\ ~HasCode' /\ phase' # "written"
  BY <1>6 DEF Phases, HasCode
<1>8. Reading' => ReadInv(mem', text')
  <2>1. SUFFICES ASSUME phase' = "reading" PROVE ReadInv(mem', text')
    BY DEF Reading
  <2>2. n.err = "none" /\ op # "end"
    BY <1>1, <1>6, <2>1
  <2> QED BY <1>2, <2>2 DEF After, Follows
<1>9. image' = None
  BY DEF Inv, Reading
<1> QED BY <1>3, <1>4, <1>5, <1>7, <1>8, <1>9 DEF Inv

\* Reading a statement.
LEMMA NamesKeep ==
    ASSUME Inv, Reading, ReadLabel \/ ReadEqu \/ ReadTemporary PROVE Inv'
<1>0. inits \in Seq(Words) /\ autorun \in Int \cup {None} /\ line \in Nat
  BY DEF Inv, Texts
<1>1. CASE ReadLabel
  <2>1. PICK s \in Statement("label") :
          Reads(s, DeclareLabel(mem, <<mem.ns, s.name>>, Number(mem.index)))
    BY <1>1 DEF ReadLabel
  <2> DEFINE u == Append(text, s)
             n == DeclareLabel(mem, <<mem.ns, s.name>>, Number(mem.index))
  <2>2. Reading1(u, text, s, mem) /\ KeepsRules(u) /\ s.op = "label"
    BY StatementStarts
  <2> HIDE DEF u
  <2>3. mem.index \in Int
    BY <2>2, Starting
  <2>4. s.op \in {"label", "equ"} /\ OwnNames(u)
    BY <2>2 DEF KeepsRules
  <2>5. Follows(n, u)
    BY <2>2, <2>3, <2>4, LabelReads
  <2> HIDE DEF n
  <2>6. After("label", n, u)
    BY <2>5 DEF After, Follows
  <2>7. Reads(s, n) /\ UNCHANGED <<inits, autorun, image>>
    BY <1>1, <2>1 DEF ReadLabel, n
  <2> QED BY <1>0, <2>6, <2>7, ReadKeeps DEF u
<1>2. CASE ReadEqu
  <2>1. PICK s \in Statement("equ") :
          LET g == GetLabel(mem, <<mem.ns, s.of>>)
          IN  Reads(s, IF s.of = "" THEN DeclareLabel(mem, <<mem.ns, s.name>>, Number(s.n))
                       ELSE DeclareLabel(g.m, <<mem.ns, s.name>>, [lab |-> g.o, k |-> s.n]))
    BY <1>2 DEF ReadEqu
  <2> DEFINE u == Append(text, s)
             g == GetLabel(mem, <<mem.ns, s.of>>)
             p == DeclareLabel(mem, <<mem.ns, s.name>>, Number(s.n))
             q == DeclareLabel(g.m, <<mem.ns, s.name>>, [lab |-> g.o, k |-> s.n])
             n == IF s.of = "" THEN p ELSE q
  <2>2. Reading1(u, text, s, mem) /\ KeepsRules(u) /\ s.op = "equ"
    BY StatementStarts
  <2> HIDE DEF u
  <2>3. s.n \in Int
    BY <2>2, Starting
  <2>4. s.op \in {"label", "equ"} /\ OwnNames(u)
    BY <2>2 DEF KeepsRules
  <2>5. Follows(p, u)
    <3> DEFINE k == s.n
    <3> HIDE DEF k
    <3>1. Follows(DeclareLabel(mem, <<mem.ns, s.name>>, Number(k)), u)
      BY <2>2, <2>3, <2>4, LabelReads DEF k
    <3> QED BY <3>1 DEF k
  <2>6. s.of # "" => Follows(q, u)
    <3>1. s.of # "" => Relays(s)
      BY <2>2 DEF Relays
    <3>2. Relays(s) => Follows(q, u)
      BY <2>2, <2>4, EquReads
    <3> QED BY <3>1, <3>2
  <2> HIDE DEF p, q
  <2>7. Follows(n, u)
    BY <2>5, <2>6
  <2>8. Reads(s, n) /\ UNCHANGED <<inits, autorun, image>>
    BY <1>2, <2>1 DEF ReadEqu, p, q
  <2> HIDE DEF n
  <2>9. After("equ", n, u)
    BY <2>7 DEF After, Follows
  <2> QED BY <1>0, <2>8, <2>9, ReadKeeps DEF u
<1>3. CASE ReadTemporary
  <2>1. PICK s \in Statement("tmp") : Reads(s, DeclareTemporary(mem, s.name, line))
    BY <1>3 DEF ReadTemporary
  <2> DEFINE u == Append(text, s)
             n == DeclareTemporary(mem, s.name, line)
  <2>2. Reading1(u, text, s, mem) /\ s.op = "tmp"
    BY StatementStarts
  <2> HIDE DEF u
  <2>3. Follows(n, u)
    BY <1>0, <2>2, TemporaryReads
  <2> HIDE DEF n
  <2>4. After("tmp", n, u)
    BY <2>3 DEF After, Follows
  <2>5. Reads(s, n) /\ UNCHANGED <<inits, autorun, image>>
    BY <1>3, <2>1 DEF ReadTemporary, n
  <2> QED BY <1>0, <2>4, <2>5, ReadKeeps DEF u
<1> QED BY <1>1, <1>2, <1>3

LEMMA CodeKeeps ==
    ASSUME Inv, Reading, ReadPlain \/ ReadReference \/ ReadTemporaryJump PROVE Inv'
<1>0. inits \in Seq(Words) /\ autorun \in Int \cup {None} /\ line \in Nat
  BY DEF Inv, Texts
<1>1. CASE ReadPlain
  <2>1. PICK s \in Statement("nop") \cup Statement("defs") :
          Reads(s, AddInstruction(mem, Instruction(s, Len(text) + 1, Number(0))))
    BY <1>1 DEF ReadPlain
  <2> DEFINE u == Append(text, s)
             n == AddInstruction(mem, Instruction(s, Len(text) + 1, Number(0)))
  <2>2. PICK op \in {"nop", "defs"} : s \in Statement(op)
    OBVIOUS
  <2>3. Reading1(u, text, s, mem) /\ s.op = op
    BY <2>2, StatementStarts
  <2> HIDE DEF u
  <2>4. s.op \in {"nop", "defs"}
    BY <2>3
  <2>5. Follows(n, u)
    BY <2>3, <2>4, PlainReads
  <2> HIDE DEF n
  <2>6. After(op, n, u)
    BY <2>5 DEF After, Follows
  <2>7. Reads(s, n) /\ UNCHANGED <<inits, autorun, image>>
    BY <1>1, <2>1 DEF ReadPlain, n
  <2> QED BY <1>0, <2>2, <2>6, <2>7, ReadKeeps DEF u
<1>2. CASE ReadReference
  <2>1. PICK op \in {"jp", "jr", "defw"} : \E s \in Statement(op) :
          LET g == GetLabel(mem, <<mem.ns, s.name>>)
          IN  Reads(s, AddInstruction(g.m, Instruction(s, Len(text) + 1,
                                               [lab |-> g.o, k |-> Displacement(mem, s)])))
    BY <1>2 DEF ReadReference
  <2>2. PICK s \in Statement(op) :
          LET g == GetLabel(mem, <<mem.ns, s.name>>)
          IN  Reads(s, AddInstruction(g.m, Instruction(s, Len(text) + 1,
                                               [lab |-> g.o, k |-> Displacement(mem, s)])))
    BY <2>1
  <2> DEFINE u == Append(text, s)
             g == GetLabel(mem, <<mem.ns, s.name>>)
             n == AddInstruction(g.m, Instruction(s, Len(text) + 1,
                                                  [lab |-> g.o, k |-> Displacement(mem, s)]))
  <2>3. Reading1(u, text, s, mem) /\ s.op = op
    BY StatementStarts
  <2> HIDE DEF u
  <2>4. s.op \in {"jp", "jr", "defw"}
    BY <2>3
  <2>5. Follows(n, u)
    BY <2>3, <2>4, ReferenceReads
  <2> HIDE DEF n
  <2>6. After(op, n, u)
    BY <2>5 DEF After, Follows
  <2>7. Reads(s, n) /\ UNCHANGED <<inits, autorun, image>>
    BY <1>2, <2>2 DEF ReadReference, n
  <2> QED BY <1>0, <2>6, <2>7, ReadKeeps DEF u
<1>3. CASE ReadTemporaryJump
  <2>1. PICK op \in {"back", "fwd"} : \E s \in Statement(op) :
          LET g == GetTemporary(mem, s.name, IF op = "back" THEN "B" ELSE "F", line)
          IN  Reads(s, AddInstruction(g.m, Instruction(s, Len(text) + 1,
                                               [lab |-> g.o, k |-> Displacement(mem, s)])))
    BY <1>3 DEF ReadTemporaryJump
  <2> DEFINE dir == IF op = "back" THEN "B" ELSE "F"
  <2>2. PICK s \in Statement(op) :
          LET g == GetTemporary(mem, s.name, dir, line)
          IN  Reads(s, AddInstruction(g.m, Instruction(s, Len(text) + 1,
                                               [lab |-> g.o, k |-> Displacement(mem, s)])))
    BY <2>1
  <2> DEFINE u == Append(text, s)
             g == GetTemporary(mem, s.name, dir, line)
             n == AddInstruction(g.m, Instruction(s, Len(text) + 1,
                                                  [lab |-> g.o, k |-> Displacement(mem, s)]))
  <2>3. Reading1(u, text, s, mem) /\ s.op = op
    BY StatementStarts
  <2>4. dir \in Dirs
    BY DEF Dirs
  <2> HIDE DEF u, dir
  <2>5. s.op \in {"back", "fwd"}
    BY <2>3
  <2>6. Follows(n, u)
    BY <1>0, <2>3, <2>4, <2>5, TemporaryJumpReads
  <2> HIDE DEF n
  <2>7. After(op, n, u)
    BY <2>6 DEF After, Follows
  <2>8. Reads(s, n)
    BY <2>2 DEF n
  <2>9. UNCHANGED <<inits, autorun, image>>
    BY <1>3 DEF ReadTemporaryJump
  <2> QED BY <1>0, <2>7, <2>8, <2>9, ReadKeeps DEF u
<1> QED BY <1>1, <1>2, <1>3

LEMMA PlaceKeeps ==
    ASSUME Inv, Reading, ReadOrg \/ ReadAlign PROVE Inv'
<1>0. inits \in Seq(Words) /\ autorun \in Int \cup {None}
  BY DEF Inv
<1>1. CASE ReadOrg
  <2>1. PICK s \in Statement("org") : Reads(s, SetOrg(mem, s.n))
    BY <1>1 DEF ReadOrg
  <2> DEFINE u == Append(text, s)
             v == s.n
             n == SetOrg(mem, v)
  <2>2. Reading1(u, text, s, mem) /\ KeepsRules(u) /\ s.op = "org"
    BY StatementStarts
  <2> HIDE DEF u
  <2>3. v \in Nat /\ v >= mem.index /\ v = Place(u)
    BY <2>2, OrgGoesUp DEF KeepsRules
  <2>4. s.op \in {"org", "align"} /\ NoOrgAfterTemporary(u)
    BY <2>2 DEF KeepsRules
  <2> HIDE DEF v
  <2>5. Follows(n, u)
    BY <2>2, <2>3, <2>4, OrgReads
  <2> HIDE DEF n
  <2>6. After("org", n, u)
    BY <2>5 DEF After, Follows
  <2>7. Reads(s, n) /\ UNCHANGED <<inits, autorun, image>>
    BY <1>1, <2>1 DEF ReadOrg, n, v
  <2> QED BY <1>0, <2>6, <2>7, ReadKeeps DEF u
<1>2. CASE ReadAlign
  <2>1. PICK s \in Statement("align") :
          Reads(s, SetOrg(mem, mem.index + ((s.n - (mem.index % s.n)) % s.n)))
    BY <1>2 DEF ReadAlign
  <2> DEFINE u == Append(text, s)
             v == mem.index + ((s.n - (mem.index % s.n)) % s.n)
             n == SetOrg(mem, v)
  <2>2. Reading1(u, text, s, mem) /\ KeepsRules(u) /\ s.op = "align"
    BY StatementStarts
  <2> HIDE DEF u
  <2>3. v \in Nat /\ v >= mem.index /\ v = Place(u)
    BY <2>2, AlignGoesUp
  <2>4. s.op \in {"org", "align"} /\ NoOrgAfterTemporary(u)
    BY <2>2 DEF KeepsRules
  <2> HIDE DEF v
  <2>5. Follows(n, u)
    BY <2>2, <2>3, <2>4, OrgReads
  <2> HIDE DEF n
  <2>6. After("align", n, u)
    BY <2>5 DEF After, Follows
  <2>7. Reads(s, n) /\ UNCHANGED <<inits, autorun, image>>
    BY <1>2, <2>1 DEF ReadAlign, n, v
  <2> QED BY <1>0, <2>6, <2>7, ReadKeeps DEF u
<1> QED BY <1>1, <1>2

LEMMA ScopeKeeps ==
    ASSUME Inv, Reading, ReadProc \/ ReadEndp \/ ReadLocal PROVE Inv'
<1>0. inits \in Seq(Words) /\ autorun \in Int \cup {None}
  BY DEF Inv
<1>1. CASE ReadProc
  <2>1. PICK s \in Statement("proc") : Reads(s, EnterProc(mem))
    BY <1>1 DEF ReadProc
  <2> DEFINE u == Append(text, s)
  <2>2. Reading1(u, text, s, mem) /\ s.op = "proc"
    BY StatementStarts
  <2> HIDE DEF u
  <2>3. Follows(EnterProc(mem), u)
    BY <2>2, ProcReads
  <2>4. After("proc", EnterProc(mem), u)
    BY <2>3 DEF After, Follows
  <2>5. UNCHANGED <<inits, autorun, image>>
    BY <1>1 DEF ReadProc
  <2> QED BY <1>0, <2>1, <2>4, <2>5, ReadKeeps DEF u
<1>2. CASE ReadEndp
  <2>1. PICK s \in Statement("endp") : Reads(s, ExitProc(mem))
    BY <1>2 DEF ReadEndp
  <2> DEFINE u == Append(text, s)
  <2>2. Reading1(u, text, s, mem) /\ s.op = "endp"
    BY StatementStarts
  <2> HIDE DEF u
  <2>3. Follows(ExitProc(mem), u)
    BY <2>2, EndpReads
  <2>4. After("endp", ExitProc(mem), u)
    BY <2>3 DEF After, Follows
  <2>5. UNCHANGED <<inits, autorun, image>>
    BY <1>2 DEF ReadEndp
  <2> QED BY <1>0, <2>1, <2>4, <2>5, ReadKeeps DEF u
<1>3. CASE ReadLocal
  <2>1. PICK s \in Statement("local") : Reads(s, SetLabel(mem, <<mem.ns, s.name>>))
    BY <1>3 DEF ReadLocal
  <2> DEFINE u == Append(text, s)
             n == SetLabel(mem, <<mem.ns, s.name>>)
  <2>2. Reading1(u, text, s, mem) /\ s.op = "local"
    BY StatementStarts
  <2> HIDE DEF u
  <2>3. Follows(n, u)
    BY <2>2, LocalReads
  <2> HIDE DEF n
  <2>4. After("local", n, u)
    BY <2>3 DEF After, Follows
  <2>5. Reads(s, n) /\ UNCHANGED <<inits, autorun, image>>
    BY <1>3, <2>1 DEF ReadLocal, n
  <2> QED BY <1>0, <2>4, <2>5, ReadKeeps DEF u
<1> QED BY <1>1, <1>2, <1>3

LEMMA SpaceKeeps ==
    ASSUME Inv, Reading, ReadNamespace PROVE Inv'
<1>0. inits \in Seq(Words) /\ autorun \in Int \cup {None} /\ UNCHANGED <<inits, autorun, image>>
  BY DEF Inv, ReadNamespace
<1> DEFINE pops == IF mem.nsStack = << >> THEN Error(mem, "no namespace to pop")
                   ELSE [mem EXCEPT !.ns = Last(mem.nsStack), !.nsStack = Front(@)]
<1>1. CASE \E s \in Statement("namespace") : Reads(s, [mem EXCEPT !.ns = s.name])
  <2>1. PICK s \in Statement("namespace") : Reads(s, [mem EXCEPT !.ns = s.name])
    BY <1>1
  <2> DEFINE u == Append(text, s)
             n == [mem EXCEPT !.ns = s.name]
  <2>2. Reading1(u, text, s, mem) /\ s.op = "namespace"
    BY StatementStarts
  <2> HIDE DEF u
  <2>3. Follows(n, u)
    BY <2>2, NamespaceReads
  <2>4. Reads(s, n)
    BY <2>1
  <2> HIDE DEF n
  <2>5. After("namespace", n, u)
    BY <2>3 DEF After, Follows
  <2> QED BY <1>0, <2>4, <2>5, ReadKeeps DEF u
<1>2. CASE \E s \in Statement("push") :
             Reads(s, [mem EXCEPT !.ns = s.name, !.nsStack = Append(@, mem.ns)])
  <2>1. PICK s \in Statement("push") :
          Reads(s, [mem EXCEPT !.ns = s.name, !.nsStack = Append(@, mem.ns)])
    BY <1>2
  <2> DEFINE u == Append(text, s)
             n == [mem EXCEPT !.ns = s.name, !.nsStack = Append(@, mem.ns)]
  <2>2. Reading1(u, text, s, mem) /\ s.op = "push"
    BY StatementStarts
  <2> HIDE DEF u
  <2>3. Follows(n, u)
    BY <2>2, PushReads
  <2>4. Reads(s, n)
    BY <2>1
  <2> HIDE DEF n
  <2>5. After("push", n, u)
    BY <2>3 DEF After, Follows
  <2> QED BY <1>0, <2>4, <2>5, ReadKeeps DEF u
<1>3. CASE \E s \in Statement("pop") : Reads(s, pops)
  <2>1. PICK s \in Statement("pop") : Reads(s, pops)
    BY <1>3
  <2> DEFINE u == Append(text, s)
  <2>2. Reading1(u, text, s, mem) /\ s.op = "pop"
    BY StatementStarts
  <2> HIDE DEF u
  <2>3. Follows(pops, u)
    BY <2>2, PopReads
  <2> HIDE DEF pops
  <2>4. After("pop", pops, u)
    BY <2>3 DEF After, Follows
  <2> QED BY <1>0, <2>1, <2>4, ReadKeeps DEF u
<1> QED BY <1>1, <1>2, <1>3 DEF ReadNamespace

LEMMA EntryKeeps ==
    ASSUME Inv, Reading, ReadInit \/ ReadEnd PROVE Inv'
<1>0. inits \in Seq(Words) /\ autorun \in Int \cup {None}
  BY DEF Inv
<1>1. CASE ReadInit
  <2>1. PICK s \in Statement("init") : Reads(s, mem) /\ inits' = Append(inits, s.name)
    BY <1>1 DEF ReadInit
  <2> DEFINE u == Append(text, s)
  <2>2. Reading1(u, text, s, mem) /\ s.op = "init"
    BY StatementStarts
  <2> HIDE DEF u
  <2>3. Follows(mem, u) /\ s.name \in Words
    BY <2>2, InitReads, Starting
  <2>4. After("init", mem, u)
    BY <2>3 DEF After, Follows
  <2>5. UNCHANGED <<autorun, image>>
    BY <1>1 DEF ReadInit
  <2>6. inits' \in Seq(Words)
    BY <1>0, <2>1, <2>3
  <2> QED BY <1>0, <2>1, <2>4, <2>5, <2>6, ReadKeeps DEF u
<1>2. CASE ReadEnd
  <2>1. PICK s \in Statement("end") :
          LET g == GetLabel(mem, <<mem.ns, s.name>>)
              v == TryEval(g.m.labels, [lab |-> g.o, k |-> 0])
          IN  /\ Reads(s, IF v = None THEN Error(g.m, "undefined label") ELSE g.m)
              /\ autorun' = v
    BY <1>2 DEF ReadEnd
  <2> DEFINE u == Append(text, s)
             g == GetLabel(mem, <<mem.ns, s.name>>)
             v == TryEval(g.m.labels, [lab |-> g.o, k |-> 0])
             p == Error(g.m, "undefined label")
             q == g.m
             n == IF v = None THEN p ELSE q
  <2>2. Reading1(u, text, s, mem)
    BY StatementStarts
  <2> HIDE DEF u
  <2>3. v \in Int \cup {None} /\ MemSound(q, u) /\ MemSound(p, u)
    BY <2>2, EndReads
  <2>4. Reads(s, n) /\ autorun' = v
    BY <2>1
  <2> HIDE DEF p, q, v
  <2>5. After("end", n, u)
    BY <2>3 DEF After
  <2> HIDE DEF n
  <2>6. UNCHANGED <<inits, image>>
    BY <1>2 DEF ReadEnd
  <2> QED BY <1>0, <2>3, <2>4, <2>5, <2>6, ReadKeeps DEF u
<1> QED BY <1>1, <1>2

\* A table with no entry is the empty sequence.
LEMMA NoEntry ==
    ASSUME NEW X, NEW Y, NEW f \in Partial(X, Y), f # << >>
    PROVE  DOMAIN f # {}
<1>1. f = [x \in DOMAIN f |-> f[x]]
  BY PartialDef
<1>2. SUFFICES ASSUME DOMAIN f = {} PROVE f = << >>
  OBVIOUS
<1>3. f \in [1..0 -> {}]
  BY <1>1, <1>2
<1>4. f \in Seq({}) /\ Len(f) = 0
  BY <1>3
<1> QED BY <1>4, EmptySeq

LEMMA AssembleKeeps ==
    ASSUME Inv, Assemble PROVE Inv'
<1> DEFINE w == "missing ENDP"
           m == IF Len(mem.scopes) > 1 THEN Error(mem, w) ELSE mem
<1>1. /\ phase \in {"reading", "ended"} /\ mem' = m /\ UNCHANGED <<text, line, inits, autorun, image>>
      /\ phase' = IF m.err # "none" THEN "failed"
                  ELSE IF m.bytes = << >> THEN "empty" ELSE "assembled"
  BY DEF Assemble
<1>2. w \in Messages /\ w # "none"
  BY DEF Messages
<1> HIDE DEF w
<1>3. MemSound(mem, text)
  BY DEF Inv
<1>4. MemSound(m, text)
  BY <1>2, <1>3, ErrorSound DEF Alike
<1> HIDE DEF m
<1>5. m.bytes # << >> => DOMAIN m.bytes # {}
  <2>1. m.bytes \in Partial(Nat, Cell)
    BY <1>4 DEF MemSound, Memory
  <2> QED BY <2>1, NoEntry
<1>6. phase' \in Phases /\ phase' # "written" /\ ~Reading'
  BY <1>1 DEF Phases, Reading
<1>7. HasCode' => m.bytes # << >>
  BY <1>1 DEF HasCode
<1>8. image = None
  BY <1>1 DEF Inv
<1> QED BY <1>1, <1>4, <1>5, <1>6, <1>7, <1>8 DEF Inv

\* The address the program starts at.
LEMMA StartTyped ==
    ASSUME NEW m, NEW t, MemSound(m, t), DOMAIN m.bytes # {}, NEW run \in Int \cup {None}
    PROVE  (IF run # None THEN run ELSE SetMin(DOMAIN m.orgs)) \in Int
<1>1. CASE run # None
  BY <1>1
<1>2. CASE run = None
  <2>1. m \in Memory /\ CodeSound(m, t)
    BY DEF MemSound
  <2>2. m.orgs \in Partial(Nat, Seq(Instrs))
    BY <2>1 DEF Memory
  <2> DEFINE S == DOMAIN m.orgs
  <2>3. S \in SUBSET Nat
    BY <2>2, PartialDef
  <2>4. IsFiniteSet(S)
    BY <2>1, FS_Subset DEF CodeSound
  <2>5. S # {}
    BY <2>1 DEF CodeSound
  <2> HIDE DEF S
  <2>6. SetMin(S) \in S
    BY <2>3, <2>4, <2>5, ExtremesExist
  <2>7. SetMin(S) \in Int
    <3> DEFINE x == SetMin(S)
    <3> HIDE DEF x
    <3>1. x \in S
      BY <2>6 DEF x
    <3>2. x \in Int
      BY <2>3, <3>1
    <3> QED BY <3>2 DEF x
  <2> QED BY <1>2, <2>7 DEF S
<1> QED BY <1>1, <1>2

LEMMA AddCallsKeeps ==
    ASSUME Inv, AddCalls PROVE Inv'
<1> DEFINE m == Called(mem, inits)
           start == IF autorun # None THEN autorun ELSE SetMin(DOMAIN m.orgs)
           i == Jump(-2, Number(start))
           n == AddInstruction(m, i)
<1>1. /\ phase = "assembled" /\ phase' = "called" /\ UNCHANGED <<text, line, inits, image>>
      /\ \/ UNCHANGED <<mem, autorun>>
         \/ mem' = n /\ autorun' = FirstCall(mem)
  BY DEF AddCalls, Called
<1>2. /\ MemSound(mem, text) /\ inits \in Seq(Words) /\ autorun \in Int \cup {None}
      /\ DOMAIN mem.bytes # {} /\ image = None
  BY <1>1 DEF Inv, HasCode
<1>3. MemSound(m, text) /\ DOMAIN mem.bytes \subseteq DOMAIN m.bytes
  BY <1>2, CalledSound
<1> HIDE DEF m
<1>4. start \in Int
  <2>1. DOMAIN m.bytes # {}
    BY <1>2, <1>3
  <2> QED BY <1>2, <1>3, <2>1, StartTyped
<1> HIDE DEF start
<1>5. i \in Instrs /\ i.arg.lab \in 0..Len(m.labels) /\ i.size = 3
  <2> DEFINE e == Number(start)
  <2>1. e \in Exprs /\ e.lab = 0
    BY <1>4 DEF Number, Exprs
  <2> HIDE DEF e
  <2>2. -2 \in Int
    OBVIOUS
  <2>3. i \in Instrs /\ i.arg = e /\ i.size = 3
    BY <2>1, <2>2, JumpTyped DEF e
  <2>4. Len(m.labels) \in Nat
    BY <1>3, Facts
  <2> HIDE DEF i
  <2> QED BY <2>1, <2>3, <2>4
<1> HIDE DEF i
<1>6. MemSound(n, text) /\ DOMAIN m.bytes \subseteq DOMAIN n.bytes
  BY <1>3, <1>5, CodeAdded
<1> HIDE DEF n
<1>7. FirstCall(mem) \in Int
  <2> DEFINE S == DOMAIN mem.bytes
  <2>1. mem.bytes \in Partial(Nat, Cell) /\ IsFiniteSet(S)
    BY <1>2 DEF MemSound, Memory, CodeSound
  <2>2. S \in SUBSET Nat
    BY <2>1, PartialDef
  <2> HIDE DEF S
  <2>3. SetMax(S) \in S
    BY <1>2, <2>1, <2>2, ExtremesExist DEF S
  <2>4. SetMax(S) + 1 \in Int
    <3> DEFINE x == SetMax(S)
    <3> HIDE DEF x
    <3>1. x \in Nat
      BY <2>2, <2>3 DEF x
    <3>2. x + 1 \in Int
      BY <3>1
    <3> QED BY <3>2 DEF x
  <2> QED BY <2>4 DEF FirstCall, S
<1>8. MemSound(mem', text') /\ DOMAIN mem'.bytes # {} /\ autorun' \in Int \cup {None}
  <2>1. CASE UNCHANGED <<mem, autorun>>
    BY <1>1, <1>2, <2>1
  <2>2. CASE mem' = n /\ autorun' = FirstCall(mem)
    BY <1>1, <1>2, <1>3, <1>6, <1>7, <2>2
  <2> QED BY <1>1, <2>1, <2>2
<1>9. phase' \in Phases /\ phase' # "written" /\ ~Reading'
  BY <1>1 DEF Phases, Reading
<1> QED BY <1>1, <1>2, <1>8, <1>9 DEF Inv

LEMMA WriteKeeps ==
    ASSUME Inv, Write PROVE Inv'
<1> DEFINE d == Dump(mem)
           r == [org |-> d.org, out |-> d.out]
<1>1. /\ phase = "called" /\ mem' = d.m /\ UNCHANGED <<text, line, inits>>
      /\ \/ phase' = "failed" /\ UNCHANGED <<image, autorun>>
         \/ /\ phase' = "written" /\ image' = r
            /\ autorun' = IF autorun = None THEN d.org ELSE autorun
  BY DEF Write
<1>2. /\ MemSound(mem, text) /\ autorun \in Int \cup {None}
      /\ DOMAIN mem.bytes # {} /\ image = None
  BY <1>1 DEF Inv, HasCode
<1>3. MemSound(d.m, text) /\ d.org \in Nat /\ d.out \in Seq(Cell)
  BY <1>2, DumpSound
<1> HIDE DEF d
<1>4. r \in [org : Nat, out : Seq(Cell)]
  BY <1>3
<1>5. r # None
  BY <1>4, NoneAssumption
<1> HIDE DEF r
<1>6. autorun' \in Int \cup {None} /\ (phase' = "written" <=> image' # None)
  BY <1>1, <1>2, <1>3, <1>5
<1>7. phase' \in Phases /\ ~Reading' /\ ~HasCode'
  BY <1>1 DEF Phases, Reading, HasCode
<1> QED BY <1>1, <1>3, <1>6, <1>7 DEF Inv

LEMMA StutterKeeps == ASSUME Inv, UNCHANGED vars PROVE Inv'
  BY DEF Inv, vars, Reading, HasCode, ReadInv, Waiting, Bound, MemSound, Mentions, MentionedAt

LEMMA InvStarts == ASSUME Init PROVE Inv
<1>1. /\ text = << >> /\ line = 1 /\ inits = << >> /\ autorun = None
      /\ mem = NewMemory /\ phase = "reading" /\ image = None
  BY DEF Init
<1>2. text \in Texts /\ Len(text) = 0 /\ inits \in Seq(Words)
  BY <1>1 DEF Texts
<1> DEFINE e == [x \in {} |-> 0]
           m == mem
<1>3. /\ m.index = 0 /\ m.bytes = << >> /\ m.orgs = << >> /\ m.labels = << >>
      /\ m.scopes = <<e>> /\ m.tmp = {} /\ m.waiting = << >> /\ m.ns = ""
      /\ m.nsStack = << >> /\ m.err = "none"
  BY <1>1 DEF NewMemory
<1>4. << >> \in Partial(Nat, Cell) /\ << >> \in Partial(Nat, Seq(Instrs)) /\ DOMAIN << >> = {}
  <2>1. DOMAIN << >> = {} /\ << >> = [x \in DOMAIN << >> |-> << >>[x]]
    OBVIOUS
  <2> QED BY <2>1, PartialDef
<1>5. e \in Tables /\ DOMAIN e = {}
  <2>1. DOMAIN e = {} /\ e = [x \in DOMAIN e |-> e[x]]
    OBVIOUS
  <2> HIDE DEF e
  <2> QED BY <2>1, PartialDef DEF Tables
<1>6. m \in Memory
  <2>1. "" \in Words /\ "none" \in Messages
    BY DEF Words, Messages
  <2> HIDE DEF e
  <2> DEFINE w == ""
             none == "none"
  <2> HIDE DEF w, none
  <2>2. m = [index |-> 0, bytes |-> << >>, orgs |-> << >>,
             labels |-> << >>, scopes |-> <<e>>,
             tmp |-> {}, waiting |-> << >>,
             ns |-> w, nsStack |-> << >>, err |-> none]
    BY <1>1 DEF NewMemory, e, w, none
  <2>3. w \in Words /\ none \in Messages
    BY <2>1 DEF w, none
  <2> HIDE DEF m
  <2>4. << >> \in Seq(Labels) /\ <<e>> \in Seq(Tables) /\ << >> \in Seq(Nat) /\ << >> \in Seq(Words)
    BY <1>5
  <2> DEFINE c == <<e>>
  <2> HIDE DEF c
  <2>5. m = [index |-> 0, bytes |-> << >>, orgs |-> << >>,
             labels |-> << >>, scopes |-> c,
             tmp |-> {}, waiting |-> << >>,
             ns |-> w, nsStack |-> << >>, err |-> none]
    BY <2>2 DEF c
  <2>6. c \in Seq(Tables)
    BY <2>4 DEF c
  <2> QED BY <1>4, <2>3, <2>4, <2>5, <2>6 DEF Memory
<1> HIDE DEF e, m
<1>7. Len(m.scopes) = 1 /\ m.scopes[1] = e /\ Len(m.labels) = 0 /\ Len(m.waiting) = 0
  <2>1. Len(<<e>>) = 1 /\ <<e>>[1] = e /\ Len(<< >>) = 0
    OBVIOUS
  <2>2. m.scopes = <<e>> /\ m.labels = << >> /\ m.waiting = << >>
    BY <1>3
  <2> QED BY <2>1, <2>2
<1>8. NamesSound(m)
  <2>1. IsFiniteSet(DOMAIN e)
    BY <1>5, FS_EmptySet
  <2>2. ScopesName(m)
    <3>1. \A d \in 1..Len(m.scopes) : d = 1
      BY <1>7
    <3>2. m.scopes # << >>
      <4>1. Len(<< >>) = 0
        OBVIOUS
      <4> QED BY <1>7, <4>1
    <3> QED BY <1>5, <1>7, <2>1, <3>1, <3>2 DEF ScopesName
  <2>3. Rooted(m.labels)
    BY <1>7 DEF Rooted
  <2> QED BY <1>7, <2>2, <2>3 DEF NamesSound
<1>9. CodeSound(m, text)
  <2>1. DOMAIN m.orgs = {} /\ DOMAIN m.bytes = {}
    BY <1>3, <1>4
  <2> QED BY <2>1, FS_EmptySet DEF CodeSound
<1>10. MemSound(m, text)
  BY <1>6, <1>8, <1>9 DEF MemSound
<1>11. Open(text) = <<0>> /\ Place(text) = 0 /\ Space(text) = <<"">>
  <2>1. Len(text) \in Nat /\ Len(text) + 1 = 1 /\ 1 \in 1..1
    BY <1>2
  <2>2. /\ Stepping(Opens(text), "open", text, 1, 1)
        /\ Stepping(Places(text), "place", text, 1, 1)
        /\ Stepping(Spaces(text), "space", text, 1, 1)
    BY <2>1, OpensStep, PlacesStep, SpacesStep
  <2>3. /\ Opens(text)[1] = Step("open", text, Opens(text)[1 - 1], 1)
        /\ Places(text)[1] = Step("place", text, Places(text)[1 - 1], 1)
        /\ Spaces(text)[1] = Step("space", text, Spaces(text)[1 - 1], 1)
    BY <2>1, <2>2 DEF Stepping
  <2>4. /\ \A p : Step("open", text, p, 1) = <<0>>
        /\ \A p : Step("place", text, p, 1) = 0
        /\ \A p : Step("space", text, p, 1) = <<"">>
    BY DEF Step
  <2> QED BY <2>1, <2>3, <2>4 DEF Open, Place, Space
<1>12. Bound(m, text, Open(text))
  <2> DEFINE o == <<0>>
  <2>1. Len(o) = 1 /\ \A d \in 2..Len(o) : FALSE
    OBVIOUS
  <2> HIDE DEF o
  <2>2. Bound(m, text, o)
    BY <1>7, <2>1 DEF Bound
  <2> QED BY <1>11, <2>2 DEF o
<1>13. m.ns = Last(Space(text)) /\ m.nsStack = Front(Space(text))
  <2> DEFINE w == ""
             q == << >>
             p == Append(q, w)
  <2>1. w \in Words /\ q \in Seq(Words) /\ p = <<w>>
    BY DEF Words
  <2> HIDE DEF w, q
  <2>2. Front(p) = q /\ Last(p) = w
    BY <2>1, FrontOfAppend
  <2> HIDE DEF p
  <2>3. Space(text) = p /\ m.ns = w /\ m.nsStack = q
    BY <1>3, <1>11, <2>1 DEF w, q
  <2> QED BY <2>2, <2>3
<1>14. ReadInv(m, text)
  BY <1>3, <1>11, <1>12, <1>13 DEF ReadInv, Waiting
<1>15. phase \in Phases /\ ~HasCode /\ phase # "written"
  BY <1>1 DEF Phases, HasCode
<1>16. line \in 1..(Len(text) + 1)
  BY <1>1, <1>2
<1> QED BY <1>1, <1>2, <1>10, <1>14, <1>15, <1>16 DEF Inv, m

LEMMA NextKeeps == ASSUME Inv, [Next]_vars PROVE Inv'
<1>1. CASE ReadLabel \/ ReadEqu \/ ReadTemporary
  <2>1. Reading
    BY <1>1 DEF ReadLabel, ReadEqu, ReadTemporary
  <2> QED BY <1>1, <2>1, NamesKeep
<1>2. CASE ReadPlain \/ ReadReference \/ ReadTemporaryJump
  <2>1. Reading
    BY <1>2 DEF ReadPlain, ReadReference, ReadTemporaryJump
  <2> QED BY <1>2, <2>1, CodeKeeps
<1>3. CASE ReadOrg \/ ReadAlign
  <2>1. Reading
    BY <1>3 DEF ReadOrg, ReadAlign
  <2> QED BY <1>3, <2>1, PlaceKeeps
<1>4. CASE ReadProc \/ ReadEndp \/ ReadLocal
  <2>1. Reading
    BY <1>4 DEF ReadProc, ReadEndp, ReadLocal
  <2> QED BY <1>4, <2>1, ScopeKeeps
<1>5. CASE ReadNamespace
  <2>1. Reading
    BY <1>5 DEF ReadNamespace
  <2> QED BY <1>5, <2>1, SpaceKeeps
<1>6. CASE ReadInit \/ ReadEnd
  <2>1. Reading
    BY <1>6 DEF ReadInit, ReadEnd
  <2> QED BY <1>6, <2>1, EntryKeeps
<1>7. CASE Assemble
  BY <1>7, AssembleKeeps
<1>8. CASE AddCalls
  BY <1>8, AddCallsKeeps
<1>9. CASE Write
  BY <1>9, WriteKeeps
<1>10. CASE Ended \/ UNCHANGED vars
  <2>1. UNCHANGED vars
    BY <1>10 DEF Ended
  <2> QED BY <2>1, StutterKeeps
<1> QED BY <1>1, <1>2, <1>3, <1>4, <1>5, <1>6, <1>7, <1>8, <1>9, <1>10 DEF Next

LEMMA InvIsTypeOK == ASSUME Inv PROVE TypeOK
<1>1. /\ text \in Texts /\ line \in 1..(Len(text) + 1) /\ phase \in Phases
      /\ MemSound(mem, text) /\ (phase = "written" <=> image # None)
  BY DEF Inv
<1>2. /\ mem \in Memory /\ ScopesName(mem) /\ CodeSound(mem, text)
  BY <1>1 DEF MemSound, NamesSound
<1>3. mem.scopes # << >> /\ mem.index \in Nat
  BY <1>2 DEF ScopesName, Memory
<1>4. \A d \in DOMAIN mem.scopes : Range(mem.scopes[d]) \subseteq DOMAIN mem.labels
  <2>1. mem.scopes \in Seq(Tables) /\ mem.labels \in Seq(Labels)
    BY <1>2 DEF Memory
  <2>2. DOMAIN mem.scopes = 1..Len(mem.scopes) /\ DOMAIN mem.labels = 1..Len(mem.labels)
    BY <2>1
  <2> QED BY <1>2, <2>2 DEF ScopesName, Range
<1>5. DOMAIN mem.orgs \subseteq DOMAIN mem.bytes
  BY <1>2 DEF CodeSound
<1>6. ASSUME NEW a \in DOMAIN mem.orgs, mem.orgs[a] # << >>
      PROVE  a < mem.index \/ SizeOf(text[mem.orgs[a][1].id]) = 0
  <2>1. Fits(mem, text, a)
    BY <1>2, <1>6 DEF CodeSound
  <2>2. a \in Nat
    <3>1. mem.orgs \in Partial(Nat, Seq(Instrs))
      BY <1>2 DEF Memory
    <3> QED BY <3>1, PartialDef
  <2> DEFINE i == mem.orgs[a][1]
  <2>3. CASE i.size = 3
    BY <1>3, <2>1, <2>2, <2>3 DEF Fits
  <2>4. CASE i.id \in 1..Len(text) /\ i.size = SizeOf(text[i.id])
    <3> DEFINE s == text[i.id]
    <3>1. s \in Stmts
      BY <1>1, <2>4, ElementOfSeq DEF Texts
    <3>2. SizeOf(s) \in Nat
      BY <3>1, SizeIsNat
    <3> DEFINE z == SizeOf(s)
    <3>3. a + z <= mem.index
      BY <2>1, <2>4 DEF Fits
    <3> HIDE DEF z
    <3>4. a < mem.index \/ z = 0
      BY <1>3, <2>2, <3>2, <3>3 DEF z
    <3> QED BY <3>4 DEF z
  <2> QED BY <2>1, <2>3, <2>4 DEF Fits
<1>7. (phase = "written") = (image # None)
  BY <1>1
<1> QED BY <1>1, <1>3, <1>4, <1>5, <1>6, <1>7 DEF TypeOK, Phases

LEMMA InvIsReachable == ASSUME Inv PROVE WaitsReachable
<1>1. MemSound(mem, text)
  BY DEF Inv
<1>2. mem \in Memory /\ NamesSound(mem) /\ CodeSound(mem, text)
  BY <1>1 DEF MemSound
<1> DEFINE A == {i.arg.lab : i \in Pending}
           B == {mem.labels[x].value.lab : x \in {x \in DOMAIN mem.labels : Defined(mem, x)}}
<1>3. /\ mem.labels \in Seq(Labels) /\ mem.scopes \in Seq(Tables) /\ mem.waiting \in Seq(Nat)
      /\ mem.orgs \in Partial(Nat, Seq(Instrs))
  BY <1>2 DEF Memory
<1>4. /\ DOMAIN mem.labels = 1..Len(mem.labels) /\ DOMAIN mem.scopes = 1..Len(mem.scopes)
      /\ DOMAIN mem.waiting = 1..Len(mem.waiting) /\ Len(mem.labels) \in Nat
  BY <1>3
<1>5. ASSUME NEW o \in A PROVE o \in 0..Len(mem.labels)
  <2>1. PICK i \in Pending : o = i.arg.lab
    OBVIOUS
  <2>2. PICK a \in DOMAIN mem.orgs : i \in ToSet(mem.orgs[a])
    BY <2>1 DEF Pending, Range
  <2>3. mem.orgs[a] \in Seq(Instrs)
    BY <1>3, <2>2, PartialDef
  <2>4. PICK k \in 1..Len(mem.orgs[a]) : i = mem.orgs[a][k]
    BY <2>2, <2>3 DEF ToSet
  <2> QED BY <1>2, <2>1, <2>2, <2>4 DEF CodeSound
<1>6. ASSUME NEW o \in B PROVE o \in 0..Len(mem.labels)
  <2>1. PICK x \in 1..Len(mem.labels) : Defined(mem, x) /\ o = mem.labels[x].value.lab
    BY <1>4
  <2> QED BY <1>2, <2>1 DEF NamesSound, Rooted, Defined
<1>7. ASSUME NEW o \in (A \cup B) \ {0}
      PROVE  \/ Defined(mem, o)
             \/ \E d \in DOMAIN mem.scopes : o \in Range(mem.scopes[d])
             \/ o \in ToSet(mem.waiting)
  <2>1. o \in 1..Len(mem.labels)
    <3> HIDE DEF A, B
    <3> QED BY <1>4, <1>5, <1>6
  <2>2. Held(mem, o)
    BY <1>2, <2>1 DEF NamesSound
  <2> QED BY <1>4, <2>2 DEF Held, Range, ToSet
<1> QED BY <1>7 DEF WaitsReachable

-----------------------------------------------------------------------------
(* The theorems.                                                           *)

\* The invariant of the assembler holds for every text it reads.
LEMMA InvHolds == Spec => []Inv
<1>1. Init => Inv
  BY InvStarts
<1>2. Inv /\ [Next]_vars => Inv'
  BY NextKeeps
<1> QED BY <1>1, <1>2, PTL DEF Spec

\* For every set of statements, every size of memory and every reach of the
\* jumps: scopes name labels that exist, every slot has its byte and no code
\* lies behind the index, from the first statement to the binary
\* (zxbasm/memory.py, asmparse.py).
THEOREM AssemblerTypes == Spec => []TypeOK
<1>1. Inv => TypeOK
  BY InvIsTypeOK
<1> QED BY <1>1, InvHolds, PTL

\* No label is lost: what an instruction or an EQU waits for is named by a scope
\* or waits among the temporary labels, whatever PROCs have been left and
\* whatever LOCAL has hidden, in a text that keeps to KeepsRules (exit_proc and
\* set_org of zxbasm/memory.py).
THEOREM AssemblerLosesNoLabel == Spec => []WaitsReachable
<1>1. Inv => WaitsReachable
  BY InvIsReachable
<1> QED BY <1>1, InvHolds, PTL
=============================================================================
