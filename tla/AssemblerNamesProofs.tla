------------------------ MODULE AssemblerNamesProofs ------------------------
(***************************************************************************)
(* What the assembler says of the names of a text: every message about a   *)
(* name, a PROC, a namespace or an ORG is right, and a text that gives a   *)
(* binary has none of these faults.                                        *)
(***************************************************************************)
EXTENDS AssemblerProofs

-----------------------------------------------------------------------------
(* Faults one by one.                                                      *)

NameOf(t, i) == Full(t, i, t[i].name)
OwnerOf(t, i) == Owner(t, i, NameOf(t, i))

Twice(t) ==
    \E i, j \in Definitions(t) :
        i # j /\ NameOf(t, i) = NameOf(t, j) /\ OwnerOf(t, i) = OwnerOf(t, j)
Unopened(t) == \E i \in Lines(t, {"endp"}) : Len(Opens(t)[i]) = 1
Unclosed(t) == Len(Open(t)) > 1
LocalLost(t, o) ==
    \E p \in Lines(t, {"proc"}) : p \notin ToSet(o) /\ \E x \in Locals(t, p) : Defs(t, p, x) = {}
TooFar(t) == \E i \in Lines(t, {"org", "align"}) : Places(t)[i + 1] > MaxMem
Unpushed(t) == \E i \in Lines(t, {"pop"}) : Len(Spaces(t)[i]) = 1
Inits(t) == {Full(t, Len(t) + 1, t[i].name) : i \in Lines(t, {"init"})}
UsesOf(t, x) == {i \in Uses(t) : UsedName(t, i) = x /\ Owner(t, i, x) = 0}
GlobalLost(t) ==
    \/ \E i \in Uses(t) : Owner(t, i, UsedName(t, i)) = 0 /\ DefsUsed(t, i) = {}
    \/ \E x \in Inits(t) : Defs(t, 0, x) = {}

-----------------------------------------------------------------------------
(* The scopes and the definitions and uses read so far.                    *)

\* The scope a definition is seated in: that of its PROC while it is open, the
\* outermost one afterwards.
Seat(t, o, i) == IF Last(Opens(t)[i]) \in ToSet(o) THEN Last(Opens(t)[i]) ELSE 0

Local(m, d, x) == m.labels[m.scopes[d][x]].local
Given(m, d, x) == Defined(m, m.scopes[d][x])
OwnerIn(m, o, d, x) == IF Local(m, d, x) THEN o[d] ELSE 0

\* A scope has a LOCAL label for exactly the LOCAL names of its PROC.
Scoped(m, t, o) ==
    /\ Len(m.scopes) = Len(o)
    /\ \A d \in 1..Len(o) : \A x \in DOMAIN m.scopes[d] :
         Local(m, d, x) => d > 1 /\ x \in Locals(t, o[d])
    /\ \A d \in 2..Len(o) : \A x \in Locals(t, o[d]) :
         x \in DOMAIN m.scopes[d] /\ Local(m, d, x)

\* No label has two names, and none that has one waits.
Apart(m) ==
    \A d \in 1..Len(m.scopes) : \A x \in DOMAIN m.scopes[d] :
        /\ \A e \in 1..Len(m.scopes) : \A y \in DOMAIN m.scopes[e] :
             m.scopes[d][x] = m.scopes[e][y] => d = e /\ x = y
        /\ \A k \in 1..Len(m.waiting) : m.scopes[d][x] # m.waiting[k]

\* The definition at line i is of x for the owner w and seated in the scope of h.
DefinedAt(t, o, i, x, w, h) == NameOf(t, i) = x /\ OwnerOf(t, i) = w /\ Seat(t, o, i) = h

\* A name of a scope has a value because a definition in D seated there gives it,
\* and one that is not LOCAL and has none is there because a line uses it.
Entry(m, t, o, D, d, x) ==
    /\ Given(m, d, x) => \E i \in D : DefinedAt(t, o, i, x, OwnerIn(m, o, d, x), o[d])
    /\ ~Given(m, d, x) /\ ~Local(m, d, x) => UsesOf(t, x) # {}
Entries(m, t, o, D) == \A d \in 1..Len(o) : \A x \in DOMAIN m.scopes[d] : Entry(m, t, o, D, d, x)

\* The definitions in D are public or LOCAL in their own PROC, have given their
\* names a value where they are seated, and no two have done so there.
Seated(m, t, o, i) ==
    \A d \in 1..Len(o) :
        o[d] = Seat(t, o, i) /\ (o[d] # 0 \/ OwnerOf(t, i) = 0) =>
            NameOf(t, i) \in DOMAIN m.scopes[d] /\ Given(m, d, NameOf(t, i))
Definers(m, t, o, D) ==
    /\ \A i \in D : OwnerOf(t, i) \in {0, Last(Opens(t)[i])} /\ Seated(m, t, o, i)
    /\ \A i, j \in D : NameOf(t, i) = NameOf(t, j) /\ OwnerOf(t, i) = OwnerOf(t, j)
                          /\ Seat(t, o, i) = Seat(t, o, j) => i = j

\* A public name that a line of U uses is in some scope.
Users(m, t, o, U) ==
    \A i \in U : Owner(t, i, UsedName(t, i)) = 0 =>
        \E d \in 1..Len(o) : UsedName(t, i) \in DOMAIN m.scopes[d] /\ ~Local(m, d, UsedName(t, i))

NamesOf(m, t, o, D, U) ==
    /\ Scoped(m, t, o) /\ Apart(m) /\ Entries(m, t, o, D)
    /\ Definers(m, t, o, D) /\ Users(m, t, o, U)

\* Nothing is wrong yet with a text whose PROCs o are open.
FineYet(t, o) == ~Unopened(t) /\ ~TooFar(t) /\ ~Unpushed(t) /\ ~LocalLost(t, o)

\* The outermost scope once the text has been read.
Globals(m, t) ==
    /\ Len(m.scopes) = 1 /\ Apart(m)
    /\ \A x \in DOMAIN m.scopes[1] :
         /\ Given(m, 1, x) => Defs(t, 0, x) # {}
         /\ ~Given(m, 1, x) => GlobalLost(t)
    /\ \A i \in Definitions(t) : OwnerOf(t, i) = 0 => NameOf(t, i) \in DOMAIN m.scopes[1]
    /\ \A i \in Uses(t) : Owner(t, i, UsedName(t, i)) = 0 => UsedName(t, i) \in DOMAIN m.scopes[1]

Sound(t) == FineYet(t, <<0>>) /\ ~Twice(t) /\ ~Unclosed(t)

-----------------------------------------------------------------------------
(* Lines and owners.                                                       *)

\* Line i of the text, or the place after its last line.
LEMMA LineFacts ==
    ASSUME NEW t \in Texts, NEW i \in 1..(Len(t) + 1)
    PROVE  /\ OpenStack(Opens(t)[i], i) /\ Opens(t)[i] \in Seq(Nat) /\ Len(Opens(t)[i]) \in Nat
           /\ Len(Opens(t)[i]) >= 1 /\ IsFiniteSet(ToSet(Opens(t)[i]))
           /\ ToSet(Opens(t)[i]) \in SUBSET Nat
           /\ \A p : p \in ToSet(Opens(t)[i]) <=> \E d \in 1..Len(Opens(t)[i]) : p = Opens(t)[i][d]
           /\ Last(Opens(t)[i]) \in ToSet(Opens(t)[i])
           /\ Last(Opens(t)[i]) = Opens(t)[i][Len(Opens(t)[i])]
<1> DEFINE q == Opens(t)[i]
<1>1. OpenStack(q, i)
  BY LinesTyped DEF LineTyped
<1> HIDE DEF q
<1>2. q \in Seq(Nat) /\ Len(q) \in Nat /\ Len(q) >= 1
  BY <1>1 DEF OpenStack
<1>3. DOMAIN q = 1..Len(q)
  BY <1>2
<1>4. \A p : p \in ToSet(q) <=> \E d \in 1..Len(q) : p = q[d]
  BY <1>3 DEF ToSet
<1>5. ToSet(q) \in SUBSET Nat
  BY <1>2, <1>4, ElementOfSeq
<1>6. IsFiniteSet(ToSet(q))
  <2>1. i \in Int /\ IsFiniteSet(0..i)
    <3>1. i \in Int
      BY DEF Texts
    <3> QED BY <3>1, FS_Interval
  <2>2. \A p \in ToSet(q) : p \in 0..i
    BY <1>1, <1>4, <1>5, <2>1 DEF OpenStack
  <2> QED BY <2>1, <2>2, FS_Subset
<1>7. Last(q) = q[Len(q)] /\ Len(q) \in 1..Len(q)
  BY <1>2 DEF Last
<1>8. Last(q) \in ToSet(q)
  BY <1>4, <1>7
<1> QED BY <1>1, <1>2, <1>4, <1>5, <1>6, <1>7, <1>8 DEF q

\* w is the innermost PROC of q that has x for itself, or 0.
OwnerFor(t, q, x, w) ==
    /\ w \in Nat /\ (w = 0 \/ (w \in ToSet(q) /\ x \in Locals(t, w)))
    /\ \A p \in ToSet(q) : x \in Locals(t, p) => p <= w

LEMMA OwnerIs ==
    ASSUME NEW t \in Texts, NEW i \in 1..(Len(t) + 1), NEW x
    PROVE  OwnerFor(t, Opens(t)[i], x, Owner(t, i, x))
<1> DEFINE q == Opens(t)[i]
           own == {p \in ToSet(q) : x \in Locals(t, p)}
           S == own \cup {0}
<1>1. Owner(t, i, x) = SetMax(S)
  BY DEF Owner
<1>2. IsFiniteSet(ToSet(q)) /\ ToSet(q) \in SUBSET Nat
  BY LineFacts
<1>3. S \in SUBSET Nat /\ S # {} /\ IsFiniteSet(S)
  <2>1. IsFiniteSet(own)
    <3>1. own \subseteq ToSet(q)
      OBVIOUS
    <3> HIDE DEF own
    <3> QED BY <1>2, <3>1, FS_Subset
  <2>2. IsFiniteSet({0})
    BY FS_Singleton
  <2>3. own \in SUBSET Nat
    BY <1>2
  <2> HIDE DEF own
  <2>4. IsFiniteSet(own \cup {0})
    BY <2>1, <2>2, FS_Union
  <2> QED BY <2>3, <2>4
<1> HIDE DEF S
<1>4. \E w \in S : \A y \in S : w >= y
  BY <1>3, GreatestExists
<1>5. SetMax(S) \in S /\ \A y \in S : SetMax(S) >= y
  BY <1>4 DEF SetMax
<1> DEFINE w == SetMax(S)
<1> HIDE DEF w
<1>6. w \in S /\ w \in Nat /\ \A y \in S : y \in Nat /\ y <= w
  BY <1>3, <1>5 DEF w
<1> HIDE DEF q
<1>7. OwnerFor(t, q, x, w)
  BY <1>6 DEF OwnerFor, S
<1> QED BY <1>1, <1>7 DEF w, q

LEMMA OwnerUnique ==
    ASSUME NEW t \in Texts, NEW i \in 1..(Len(t) + 1), NEW x, NEW w,
           OwnerFor(t, Opens(t)[i], x, w)
    PROVE  Owner(t, i, x) = w
<1> DEFINE v == Owner(t, i, x)
           q == Opens(t)[i]
<1>1. OwnerFor(t, q, x, v)
  BY OwnerIs
<1> HIDE DEF v, q
<1>2. OwnerFor(t, q, x, w)
  BY DEF q
<1>3. v \in Nat /\ w \in Nat /\ v <= w /\ w <= v
  BY <1>1, <1>2 DEF OwnerFor
<1> QED BY <1>3 DEF v

\* The lines of a text are what its sets of lines are made of.
LEMMA LinesAre ==
    ASSUME NEW t \in Texts
    PROVE  /\ Len(t) \in Nat
           /\ \A i \in Definitions(t) : i \in 1..Len(t) /\ t[i].op \in {"label", "equ"}
           /\ \A i \in Uses(t) : i \in 1..Len(t)
           /\ \A i \in 1..Len(t) : i \in 1..(Len(t) + 1)
<1>1. DOMAIN t = 1..Len(t) /\ Len(t) \in Nat
  BY DEF Texts
<1>2. \A i \in Definitions(t) : i \in 1..Len(t) /\ t[i].op \in {"label", "equ"}
  BY <1>1 DEF Definitions, Lines
<1>3. \A i \in Uses(t) : i \in 1..Len(t)
  BY <1>1 DEF Uses, Lines
<1>4. \A i \in 1..Len(t) : i \in 1..(Len(t) + 1)
  BY <1>1
<1> QED BY <1>1, <1>2, <1>3, <1>4

\* LOCAL comes before the first mention of the name in its PROC.
Early(u, s) == s.op = "local" => LocalFirst(u)

\* A name that a line of the text mentions keeps its owner.
LEMMA OwnerGrows ==
    ASSUME NEW t \in Texts, NEW s \in Stmts, NEW u, Grown(u, t, s), Early(u, s),
           NEW i \in Uses(t) \cup Definitions(t), NEW x \in {NameOf(t, i), UsedName(t, i)}
    PROVE  Owner(u, i, x) = Owner(t, i, x)
<1>1. /\ i \in 1..Len(t) /\ i \in 1..(Len(t) + 1) /\ Len(t) \in Nat
  BY LinesAre
<1>2. /\ u \in Texts /\ Len(u) = Len(t) + 1 /\ i \in 1..(Len(u) + 1) /\ u[Len(u)] = s /\ i < Len(u)
  BY <1>1 DEF Grown
<1>3. Opens(u)[i] = Opens(t)[i] /\ NameOf(u, i) = NameOf(t, i) /\ UsedName(u, i) = UsedName(t, i)
  BY <1>1, NamesGrow DEF NameOf
<1> DEFINE q == Opens(t)[i]
<1>4. ASSUME NEW p \in ToSet(q) PROVE x \in Locals(u, p) <=> x \in Locals(t, p)
  <2>1. SUFFICES ASSUME s.op = "local", Last(Open(t)) = p, x = <<Last(Space(t)), s.name>> PROVE FALSE
    BY LocalsGrow
  <2>2. LocalFirst(u)
    BY <2>1 DEF Early
  <2> DEFINE j == Len(u)
  <2>3. j \in Lines(u, {"local"})
    <3>1. j \in 1..Len(u) /\ DOMAIN u = 1..Len(u)
      BY <1>1, <1>2 DEF Texts
    <3> QED BY <1>2, <2>1, <3>1 DEF Lines
  <2>4. i \in Uses(u) \cup Definitions(u)
    BY UsesGrow
  <2>5. Last(Opens(u)[j]) = p /\ Full(u, j, u[j].name) = x
    <3>1. Opens(u)[Len(u)] = Open(t) /\ Full(u, Len(u), s.name) = <<Last(Space(t)), s.name>>
      BY NamesGrow
    <3> QED BY <1>2, <2>1, <3>1
  <2>6. ~(i < j /\ Last(Opens(u)[j]) \in ToSet(Opens(u)[i])
            /\ Full(u, j, u[j].name) \in {Full(u, i, u[i].name), UsedName(u, i)})
    BY <2>2, <2>3, <2>4 DEF LocalFirst
  <2>7. x \in {Full(u, i, u[i].name), UsedName(u, i)}
    BY <1>3 DEF NameOf
  <2> QED BY <1>2, <1>3, <2>5, <2>6, <2>7
<1>5. OwnerFor(t, q, x, Owner(t, i, x))
  BY <1>1, OwnerIs
<1>6. OwnerFor(u, q, x, Owner(t, i, x))
  <2> HIDE DEF q
  <2> DEFINE w == Owner(t, i, x)
  <2> HIDE DEF w
  <2>1. OwnerFor(t, q, x, w)
    BY <1>5 DEF w
  <2>2. OwnerFor(u, q, x, w)
    BY <1>4, <2>1 DEF OwnerFor
  <2> QED BY <2>2 DEF w
<1> QED BY <1>2, <1>3, <1>6, OwnerUnique

\* A statement that defines a name, one that uses a name.
Naming(s) == s.op \in {"label", "equ"}
Refers(s) == s.op \in {"jp", "jr", "defw", "end"} \/ Relays(s)
Closing(s) == s.op \in {"proc", "endp"}

\* The lines of t are what they were in the longer text u.
Keeps(u, t, s) ==
    /\ \A i \in Definitions(t) :
         /\ i \in Definitions(u) /\ NameOf(u, i) = NameOf(t, i)
         /\ OwnerOf(u, i) = OwnerOf(t, i) /\ Opens(u)[i] = Opens(t)[i]
    /\ \A i \in Uses(t) :
         /\ i \in Uses(u) /\ UsedName(u, i) = UsedName(t, i)
         /\ Owner(u, i, UsedName(t, i)) = Owner(t, i, UsedName(t, i))
    /\ \A i \in Definitions(u) : i \in Definitions(t) \/ (i = Len(u) /\ Naming(s))
    /\ \A i \in Uses(u) : i \in Uses(t) \/ (i = Len(u) /\ Refers(s))
    /\ \A x : UsesOf(t, x) \subseteq UsesOf(u, x)
    /\ \A w, x : Defs(t, w, x) \subseteq Defs(u, w, x)

LEMMA NamingOf ==
    ASSUME NEW s
    PROVE  /\ Naming(s) <=> s.op \in {"label", "equ"}
           /\ Refers(s) <=> s.op \in {"jp", "jr", "defw", "end"} \/ (s.op \in {"equ"} /\ s.of # "")
BY DEF Naming, Refers, Relays

LEMMA TextKeeps ==
    ASSUME NEW t \in Texts, NEW s \in Stmts, NEW u, Grown(u, t, s), Early(u, s)
    PROVE  Keeps(u, t, s)
<1>1. ASSUME NEW i \in Definitions(t)
      PROVE  /\ i \in Definitions(u) /\ NameOf(u, i) = NameOf(t, i)
             /\ OwnerOf(u, i) = OwnerOf(t, i) /\ Opens(u)[i] = Opens(t)[i]
  <2>1. i \in 1..Len(t)
    BY LinesAre
  <2>2. NameOf(u, i) = NameOf(t, i) /\ Opens(u)[i] = Opens(t)[i]
    BY <2>1, NamesGrow DEF NameOf
  <2>3. Owner(u, i, NameOf(t, i)) = Owner(t, i, NameOf(t, i))
    BY OwnerGrows
  <2> QED BY <2>2, <2>3, UsesGrow DEF OwnerOf
<1>2. ASSUME NEW i \in Uses(t)
      PROVE  /\ i \in Uses(u) /\ UsedName(u, i) = UsedName(t, i)
             /\ Owner(u, i, UsedName(t, i)) = Owner(t, i, UsedName(t, i))
  <2>1. i \in 1..Len(t)
    BY LinesAre
  <2>2. UsedName(u, i) = UsedName(t, i)
    BY <2>1, NamesGrow
  <2>3. Owner(u, i, UsedName(t, i)) = Owner(t, i, UsedName(t, i))
    BY OwnerGrows
  <2> QED BY <2>2, <2>3, UsesGrow
<1> DEFINE A == {"label", "equ"}
           B == {"jp", "jr", "defw", "end"}
           C == {"equ"}
           e == ""
<1>3. /\ \A j : j \in Lines(u, A) <=> j \in Lines(t, A) \/ (j = Len(u) /\ s.op \in A)
      /\ \A j : j \in Lines(u, B) <=> j \in Lines(t, B) \/ (j = Len(u) /\ s.op \in B)
      /\ \A j : j \in Lines(u, C) <=> j \in Lines(t, C) \/ (j = Len(u) /\ s.op \in C)
      /\ \A j : j \in Lines(t, C) => j \in 1..Len(t)
  <2> HIDE DEF A, B, C
  <2> QED BY LinesGrow
<1>4. Definitions(t) = Lines(t, A) /\ Definitions(u) = Lines(u, A)
  BY DEF Definitions
<1>5. /\ Uses(t) = Lines(t, B) \cup {i \in Lines(t, C) : t[i].of # e}
      /\ Uses(u) = Lines(u, B) \cup {i \in Lines(u, C) : u[i].of # e}
  BY DEF Uses
<1>6. /\ Naming(s) <=> s.op \in A
      /\ Refers(s) <=> s.op \in B \/ (s.op \in C /\ s.of # e)
  BY NamingOf
<1>7. (\A i \in 1..Len(t) : u[i] = t[i]) /\ u[Len(u)] = s
  BY DEF Grown
<1> HIDE DEF A, B, C, e
<1>8. \A i \in Definitions(u) : i \in Definitions(t) \/ (i = Len(u) /\ Naming(s))
  BY <1>3, <1>4, <1>6
<1>9. \A i \in Uses(u) : i \in Uses(t) \/ (i = Len(u) /\ Refers(s))
  BY <1>3, <1>5, <1>6, <1>7
<1>10. \A x : UsesOf(t, x) \subseteq UsesOf(u, x)
  BY <1>2 DEF UsesOf
<1>11. ASSUME NEW w, NEW x PROVE Defs(t, w, x) \subseteq Defs(u, w, x)
  <2>1. ASSUME NEW i \in Defs(t, w, x) PROVE i \in Defs(u, w, x)
    <3>1. i \in Definitions(t) /\ NameOf(t, i) = x /\ OwnerOf(t, i) = w
      BY DEF Defs, OwnerOf, NameOf
    <3>2. i \in Definitions(u) /\ NameOf(u, i) = x /\ OwnerOf(u, i) = w
      BY <1>1, <3>1
    <3> QED BY <3>2 DEF Defs, OwnerOf, NameOf
  <2> QED BY <2>1
<1> QED BY <1>1, <1>2, <1>8, <1>9, <1>10, <1>11 DEF Keeps

\* A longer text: nothing changes for the scopes but what is LOCAL.
LEMMA RestGrows ==
    ASSUME NEW t, NEW s, NEW u, Keeps(u, t, s),
           NEW m, NEW o, NEW D, NEW U, D \subseteq Definitions(t), U \subseteq Uses(t)
    PROVE  /\ Entries(m, t, o, D) => Entries(m, u, o, D)
           /\ Definers(m, t, o, D) => Definers(m, u, o, D)
           /\ Users(m, t, o, U) => Users(m, u, o, U)
<1>1. ASSUME NEW i \in D, NEW x, NEW w, NEW h, DefinedAt(t, o, i, x, w, h) PROVE DefinedAt(u, o, i, x, w, h)
  BY <1>1 DEF DefinedAt, Keeps, Seat
<1>2. Entries(m, t, o, D) => Entries(m, u, o, D)
  <2>1. \A x : UsesOf(t, x) # {} => UsesOf(u, x) # {}
    BY DEF Keeps
  <2>2. \A d, x : Entry(m, t, o, D, d, x) => Entry(m, u, o, D, d, x)
    BY <1>1, <2>1 DEF Entry
  <2> QED BY <2>2 DEF Entries
<1>3. ASSUME Definers(m, t, o, D) PROVE Definers(m, u, o, D)
  <2>1. \A i \in D : /\ NameOf(u, i) = NameOf(t, i) /\ OwnerOf(u, i) = OwnerOf(t, i)
                     /\ Opens(u)[i] = Opens(t)[i] /\ Seat(u, o, i) = Seat(t, o, i)
    BY DEF Keeps, Seat
  <2>2. \A i \in D : Seated(m, u, o, i) <=> Seated(m, t, o, i)
    BY <2>1 DEF Seated
  <2> QED BY <1>3, <2>1, <2>2 DEF Definers
<1>4. ASSUME Users(m, t, o, U) PROVE Users(m, u, o, U)
  <2>1. \A i \in U : UsedName(u, i) = UsedName(t, i)
                     /\ Owner(u, i, UsedName(u, i)) = Owner(t, i, UsedName(t, i))
    BY DEF Keeps
  <2> QED BY <1>4, <2>1 DEF Users
<1> QED BY <1>2, <1>3, <1>4

LEMMA NamesOfGrow ==
    ASSUME NEW t \in Texts, NEW s \in Stmts, NEW u, Grown(u, t, s), s.op # "local",
           NEW m, NEW o, NEW D, NEW U, D \subseteq Definitions(t), U \subseteq Uses(t),
           NamesOf(m, t, o, D, U)
    PROVE  NamesOf(m, u, o, D, U)
<1>1. Keeps(u, t, s)
  BY TextKeeps DEF Early
<1>2. \A x, p : x \in Locals(u, p) <=> x \in Locals(t, p)
  BY LocalsGrow
<1>3. Scoped(m, u, o)
  BY <1>2 DEF NamesOf, Scoped
<1>4. Entries(m, u, o, D) /\ Definers(m, u, o, D) /\ Users(m, u, o, U)
  BY <1>1, RestGrows DEF NamesOf
<1> QED BY <1>3, <1>4 DEF NamesOf

-----------------------------------------------------------------------------
(* One more name in the innermost scope.                                   *)

\* The owner of a name read off the scopes.
LEMMA OwnerByScope ==
    ASSUME NEW t \in Texts, NEW i \in 1..(Len(t) + 1), NEW m, Scoped(m, t, Opens(t)[i]), NEW x
    PROVE  LET o == Opens(t)[i] IN
           /\ (\A d \in 1..Len(o) : x \in DOMAIN m.scopes[d] => ~Local(m, d, x)) => Owner(t, i, x) = 0
           /\ \A d \in 1..Len(o) : x \in DOMAIN m.scopes[d] /\ Local(m, d, x) => Owner(t, i, x) # 0
           /\ x \in DOMAIN m.scopes[Len(o)] /\ Local(m, Len(o), x) => Owner(t, i, x) = o[Len(o)]
<1> DEFINE o == Opens(t)[i]
           w == Owner(t, i, x)
<1>1. OpenStack(o, i) /\ Len(o) \in Nat /\ Len(o) >= 1 /\ o \in Seq(Nat)
      /\ \A p : p \in ToSet(o) <=> \E d \in 1..Len(o) : p = o[d]
  BY LineFacts
<1>2. OwnerFor(t, o, x, w)
  BY OwnerIs
<1>3. \A v : OwnerFor(t, o, x, v) => w = v
  BY OwnerUnique
<1>4. Scoped(m, t, o)
  OBVIOUS
<1> HIDE DEF o, w
<1>5. o[1] = 0 /\ \A d \in 1..Len(o) : o[d] \in Nat /\ (d > 1 => o[d] > 0) /\ o[d] <= o[Len(o)]
  <2>1. o[1] = 0 /\ \A j, k \in 1..Len(o) : j < k => o[j] < o[k]
    BY <1>1 DEF OpenStack
  <2>2. ASSUME NEW d \in 1..Len(o) PROVE o[d] \in Nat /\ (d > 1 => o[d] > 0) /\ o[d] <= o[Len(o)]
    <3>1. o[d] \in Nat /\ 1 \in 1..Len(o) /\ Len(o) \in 1..Len(o) /\ o[Len(o)] \in Nat
      BY <1>1, ElementOfSeq
    <3>2. d > 1 => o[1] < o[d]
      BY <1>1, <2>1, <3>1
    <3>3. d < Len(o) => o[d] < o[Len(o)]
      BY <2>1, <3>1
    <3> QED BY <1>1, <2>1, <3>1, <3>2, <3>3
  <2> QED BY <2>1, <2>2
<1>6. ASSUME \A d \in 1..Len(o) : x \in DOMAIN m.scopes[d] => ~Local(m, d, x) PROVE w = 0
  <2>1. ASSUME NEW p \in ToSet(o), x \in Locals(t, p) PROVE p <= 0
    <3>1. PICK d \in 1..Len(o) : p = o[d]
      BY <1>1
    <3>2. CASE d = 1
      BY <1>5, <3>1, <3>2
    <3>3. CASE d # 1
      <4>1. d \in 2..Len(o)
        BY <1>1, <3>3
      <4>2. x \in DOMAIN m.scopes[d] /\ Local(m, d, x)
        BY <1>4, <2>1, <3>1, <4>1 DEF Scoped
      <4> QED BY <1>6, <4>2
    <3> QED BY <3>2, <3>3
  <2>2. OwnerFor(t, o, x, 0)
    BY <2>1 DEF OwnerFor
  <2> QED BY <1>3, <2>2
<1>7. ASSUME NEW d \in 1..Len(o), x \in DOMAIN m.scopes[d], Local(m, d, x)
      PROVE  w # 0 /\ o[d] <= w
  <2>1. d > 1 /\ x \in Locals(t, o[d])
    BY <1>4, <1>7 DEF Scoped
  <2>2. o[d] \in ToSet(o)
    BY <1>1
  <2> QED BY <1>2, <1>5, <2>1, <2>2 DEF OwnerFor
<1>8. ASSUME x \in DOMAIN m.scopes[Len(o)], Local(m, Len(o), x) PROVE w = o[Len(o)]
  <2>1. Len(o) \in 1..Len(o)
    BY <1>1
  <2>2. w # 0 /\ o[Len(o)] <= w
    BY <1>7, <1>8, <2>1
  <2>3. w \in Nat /\ w \in ToSet(o)
    BY <1>2, <2>2 DEF OwnerFor
  <2>4. w <= o[Len(o)]
    BY <1>1, <1>5, <2>3
  <2> QED BY <1>5, <2>1, <2>2, <2>3, <2>4
<1> QED BY <1>6, <1>7, <1>8 DEF o, w

\* n has the names of m, as they were, and x in its innermost scope.
OneMore(n, m, x, local) ==
    LET k == Len(m.scopes) IN
    /\ Len(n.scopes) = k /\ k \in 1..k
    /\ \A d \in 1..k : \A y \in DOMAIN m.scopes[d] :
         /\ y \in DOMAIN n.scopes[d]
         /\ Local(n, d, y) = Local(m, d, y) /\ Given(n, d, y) = Given(m, d, y)
    /\ \A d \in 1..k : \A y \in DOMAIN n.scopes[d] : y \in DOMAIN m.scopes[d] \/ (d = k /\ y = x)
    /\ x \in DOMAIN n.scopes[k] /\ x \notin DOMAIN m.scopes[k]
    /\ Local(n, k, x) = local /\ Given(n, k, x) = Defined(n, Len(n.labels))
    /\ Apart(m) => Apart(n)

LEMMA AddsOneMore ==
    ASSUME NEW m, NEW t, MemSound(m, t), NEW n, NEW x, NEW local, Adds(n, m, x, local),
           x \notin DOMAIN Here(m), n.waiting = m.waiting
    PROVE  OneMore(n, m, x, local)
<1> DEFINE k == Len(m.scopes)
           L == Len(m.labels)
<1>1. k \in Nat /\ k >= 1 /\ Here(m) = m.scopes[k] /\ L \in Nat /\ k \in 1..k
  BY Facts
<1>2. /\ Len(n.scopes) = k /\ Len(n.labels) = L + 1 /\ \A o \in 1..L : n.labels[o] = m.labels[o]
      /\ n.labels[L + 1].local = local
      /\ \A d \in 1..k : d # k => n.scopes[d] = m.scopes[d]
      /\ DOMAIN n.scopes[k] = DOMAIN m.scopes[k] \cup {x} /\ n.scopes[k][x] = L + 1
      /\ \A y \in DOMAIN m.scopes[k] : n.scopes[k][y] = m.scopes[k][y]
  BY <1>1 DEF Adds, Extends
<1>3. /\ \A d \in 1..k : \A y \in DOMAIN m.scopes[d] : m.scopes[d][y] \in 1..L
      /\ \A j \in 1..Len(m.waiting) : m.waiting[j] \in 1..L
  BY DEF MemSound, NamesSound, ScopesName
<1>4. x \notin DOMAIN m.scopes[k]
  BY <1>1
<1> HIDE DEF k, L
<1>5. ASSUME NEW d \in 1..k, NEW y \in DOMAIN m.scopes[d]
      PROVE  /\ y \in DOMAIN n.scopes[d] /\ n.scopes[d][y] = m.scopes[d][y]
             /\ n.labels[n.scopes[d][y]] = m.labels[m.scopes[d][y]]
  <2>1. y \in DOMAIN n.scopes[d] /\ n.scopes[d][y] = m.scopes[d][y]
    BY <1>2
  <2> QED BY <1>2, <1>3, <2>1
<1>6. ASSUME NEW d \in 1..k, NEW y \in DOMAIN n.scopes[d]
      PROVE  (y \in DOMAIN m.scopes[d] /\ n.scopes[d][y] = m.scopes[d][y])
                \/ (d = k /\ y = x /\ n.scopes[d][y] = L + 1)
  BY <1>2
<1>7. ASSUME Apart(m) PROVE Apart(n)
  <2>1. ASSUME NEW d \in 1..k, NEW y \in DOMAIN n.scopes[d], NEW e \in 1..k, NEW z \in DOMAIN n.scopes[e],
               n.scopes[d][y] = n.scopes[e][z]
        PROVE  d = e /\ y = z
    <3>1. CASE y \in DOMAIN m.scopes[d] /\ n.scopes[d][y] = m.scopes[d][y]
      <4>1. n.scopes[d][y] \in 1..L
        BY <1>3, <3>1
      <4>2. z \in DOMAIN m.scopes[e] /\ n.scopes[e][z] = m.scopes[e][z]
        BY <1>1, <1>6, <2>1, <4>1 DEF L
      <4>3. m.scopes[d][y] = m.scopes[e][z]
        BY <2>1, <3>1, <4>2
      <4> QED BY <1>7, <3>1, <4>2, <4>3 DEF Apart, k
    <3>2. CASE d = k /\ y = x /\ n.scopes[d][y] = L + 1
      <4>1. L + 1 \notin 1..L
        BY <1>1 DEF L
      <4>2. ~(z \in DOMAIN m.scopes[e] /\ n.scopes[e][z] = m.scopes[e][z])
        BY <1>3, <2>1, <3>2, <4>1
      <4> QED BY <1>6, <3>2, <4>2
    <3> QED BY <1>6, <3>1, <3>2
  <2>2. ASSUME NEW d \in 1..k, NEW y \in DOMAIN n.scopes[d], NEW j \in 1..Len(n.waiting)
        PROVE  n.scopes[d][y] # n.waiting[j]
    <3>1. n.waiting = m.waiting /\ m.waiting[j] \in 1..L
      BY <1>3
    <3>2. L + 1 \notin 1..L
      BY <1>1 DEF L
    <3>3. y \in DOMAIN m.scopes[d] => m.scopes[d][y] # m.waiting[j]
      BY <1>7, <3>1 DEF Apart, k
    <3> QED BY <1>6, <3>1, <3>2, <3>3
  <2> QED BY <1>2, <2>1, <2>2 DEF Apart
<1>8. \A d \in 1..k : \A y \in DOMAIN m.scopes[d] :
         /\ y \in DOMAIN n.scopes[d]
         /\ Local(n, d, y) = Local(m, d, y) /\ Given(n, d, y) = Given(m, d, y)
  BY <1>5 DEF Local, Given, Defined
<1>9. /\ Local(n, k, x) = local /\ Given(n, k, x) = Defined(n, Len(n.labels))
      /\ x \in DOMAIN n.scopes[k]
  BY <1>2 DEF Local, Given
<1>10. \A d \in 1..k : \A y \in DOMAIN n.scopes[d] : y \in DOMAIN m.scopes[d] \/ (d = k /\ y = x)
  BY <1>6
<1>11. k \in 1..k
  BY <1>1 DEF k
<1> QED BY <1>2, <1>4, <1>7, <1>8, <1>9, <1>10, <1>11 DEF OneMore, k

\* What was named before is named as it was.
LEMMA OldKept ==
    ASSUME NEW t, NEW o, NEW m, NEW n, NEW x, NEW local, OneMore(n, m, x, local),
           Len(m.scopes) = Len(o), NEW D, NEW U, Apart(m), Entries(m, t, o, D),
           Definers(m, t, o, D), Users(m, t, o, U)
    PROVE  /\ Apart(n) /\ Definers(n, t, o, D) /\ Users(n, t, o, U)
           /\ \A d \in 1..Len(o) : \A y \in DOMAIN m.scopes[d] : Entry(n, t, o, D, d, y)
<1>1. \A d \in 1..Len(o) : \A y \in DOMAIN m.scopes[d] :
         /\ y \in DOMAIN n.scopes[d]
         /\ Local(n, d, y) = Local(m, d, y) /\ Given(n, d, y) = Given(m, d, y)
  BY DEF OneMore
<1>2. Apart(n)
  BY DEF OneMore
<1>3. \A d \in 1..Len(o) : \A y \in DOMAIN m.scopes[d] : Entry(n, t, o, D, d, y)
  BY <1>1 DEF Entries, Entry, OwnerIn
<1>4. Definers(n, t, o, D)
  <2>1. \A i \in D : Seated(m, t, o, i) => Seated(n, t, o, i)
    BY <1>1 DEF Seated
  <2> QED BY <2>1 DEF Definers
<1>5. Users(n, t, o, U)
  BY <1>1 DEF Users
<1> QED BY <1>2, <1>3, <1>4, <1>5

\* Scopes that got no LOCAL label and lost none.
LEMMA ScopedCarries ==
    ASSUME NEW t, NEW o, Len(o) \in Nat, NEW m, NEW n, Scoped(m, t, o), Len(n.scopes) = Len(m.scopes),
           \A d \in 1..Len(o) : \A y \in DOMAIN m.scopes[d] :
               y \in DOMAIN n.scopes[d] /\ Local(n, d, y) = Local(m, d, y),
           \A d \in 1..Len(o) : \A y \in DOMAIN n.scopes[d] :
               y \in DOMAIN m.scopes[d] \/ ~Local(n, d, y)
    PROVE  Scoped(n, t, o)
<1>1. Len(n.scopes) = Len(o)
  BY DEF Scoped
<1>2. ASSUME NEW d \in 1..Len(o), NEW y \in DOMAIN n.scopes[d], Local(n, d, y)
      PROVE  d > 1 /\ y \in Locals(t, o[d])
  <2>1. y \in DOMAIN m.scopes[d] /\ Local(m, d, y)
    BY <1>2
  <2> QED BY <2>1 DEF Scoped
<1>3. ASSUME NEW d \in 2..Len(o), NEW y \in Locals(t, o[d])
      PROVE  y \in DOMAIN n.scopes[d] /\ Local(n, d, y)
  <2>1. y \in DOMAIN m.scopes[d] /\ Local(m, d, y)
    BY DEF Scoped
  <2>2. d \in 1..Len(o)
    OBVIOUS
  <2> QED BY <2>1, <2>2
<1> QED BY <1>1, <1>2, <1>3 DEF Scoped

\* A name that is looked up and new.
LEMMA NewUse ==
    ASSUME NEW t \in Texts, NEW i \in Uses(t), NEW o, o = Opens(t)[i],
           NEW m, NEW D, NEW U, NamesOf(m, t, o, D, U), NEW x, x = UsedName(t, i),
           NEW n, OneMore(n, m, x, FALSE), ~Defined(n, Len(n.labels)),
           \A d \in 1..Len(m.scopes) : x \notin DOMAIN m.scopes[d]
    PROVE  NamesOf(n, t, o, D, U \cup {i})
<1> DEFINE k == Len(o)
<1>1. Len(m.scopes) = k /\ Len(n.scopes) = k /\ Scoped(m, t, o) /\ k \in 1..k /\ k \in Nat
  <2>1. Len(m.scopes) = k /\ Scoped(m, t, o)
    BY DEF NamesOf, Scoped
  <2>2. Len(n.scopes) = Len(m.scopes) /\ Len(m.scopes) \in 1..Len(m.scopes)
    BY DEF OneMore
  <2>3. i \in 1..(Len(t) + 1)
    BY LinesAre
  <2>4. Len(o) \in Nat
    BY <2>3, LineFacts
  <2> QED BY <2>1, <2>2, <2>4
<1>2. /\ Apart(n) /\ Definers(n, t, o, D) /\ Users(n, t, o, U)
      /\ \A d \in 1..k : \A y \in DOMAIN m.scopes[d] : Entry(n, t, o, D, d, y)
  BY <1>1, OldKept DEF NamesOf
<1>3. Owner(t, i, x) = 0
  <2>1. i \in 1..(Len(t) + 1)
    BY LinesAre
  <2> QED BY <1>1, <2>1, OwnerByScope
<1>4. /\ x \in DOMAIN n.scopes[k] /\ Local(n, k, x) = FALSE /\ ~Given(n, k, x)
      /\ \A d \in 1..k : \A y \in DOMAIN n.scopes[d] : y \in DOMAIN m.scopes[d] \/ (d = k /\ y = x)
      /\ \A d \in 1..k : \A y \in DOMAIN m.scopes[d] : y \in DOMAIN n.scopes[d] /\ Local(n, d, y) = Local(m, d, y)
  BY <1>1 DEF OneMore
<1>5. Entry(n, t, o, D, k, x)
  BY <1>3, <1>4 DEF Entry, UsesOf
<1>6. Entries(n, t, o, D)
  BY <1>2, <1>4, <1>5 DEF Entries
<1>7. Users(n, t, o, U \cup {i})
  BY <1>1, <1>2, <1>4 DEF Users
<1>8. Scoped(n, t, o)
  <2>1. \A d \in 1..k : \A y \in DOMAIN n.scopes[d] : y \in DOMAIN m.scopes[d] \/ ~Local(n, d, y)
    BY <1>4
  <2> QED BY <1>1, <1>4, <2>1, ScopedCarries
<1> QED BY <1>2, <1>6, <1>7, <1>8 DEF NamesOf

\* A name that is looked up and known.
LEMMA OldUse ==
    ASSUME NEW t \in Texts, NEW i \in Uses(t), NEW o, o = Opens(t)[i],
           NEW m, NEW D, NEW U, NamesOf(m, t, o, D, U), NEW x, x = UsedName(t, i),
           NEW d \in 1..Len(m.scopes), x \in DOMAIN m.scopes[d]
    PROVE  NamesOf(m, t, o, D, U \cup {i})
<1>1. Scoped(m, t, o) /\ d \in 1..Len(o) /\ Users(m, t, o, U)
  BY DEF NamesOf, Scoped
<1>2. i \in 1..(Len(t) + 1)
  BY LinesAre
<1>3. Owner(t, i, x) = 0 => ~Local(m, d, x)
  BY <1>1, <1>2, OwnerByScope
<1>4. Users(m, t, o, U \cup {i})
  BY <1>1, <1>3 DEF Users
<1> QED BY <1>4 DEF NamesOf

\* What looking a name up leaves: [m, o].
Meets(g, m, x) ==
    \/ g.m = m /\ \E d \in 1..Len(m.scopes) : x \in DOMAIN m.scopes[d]
    \/ /\ \A d \in 1..Len(m.scopes) : x \notin DOMAIN m.scopes[d]
       /\ Adds(g.m, m, x, FALSE) /\ ~Defined(g.m, Len(g.m.labels)) /\ g.m.waiting = m.waiting

LEMMA GetLabelMeets ==
    ASSUME NEW m, NEW t, MemSound(m, t), NEW x \in Keys
    PROVE  Meets(GetLabel(m, x), m, x)
<1> DEFINE known == {d \in DOMAIN m.scopes : x \in DOMAIN m.scopes[d]}
           l == NewLabel(x, None, FALSE, 0, "", m.ns)
           g == GetLabel(m, x)
<1>1. /\ m \in Memory /\ m.ns \in Words /\ Len(m.labels) \in Nat
      /\ Len(m.scopes) \in Nat /\ Len(m.scopes) >= 1 /\ DOMAIN m.scopes = 1..Len(m.scopes)
      /\ Here(m) = m.scopes[Len(m.scopes)]
  BY Facts
<1>2. CASE known # {}
  <2>1. g.m = m
    BY <1>2 DEF GetLabel
  <2>2. \E d \in 1..Len(m.scopes) : x \in DOMAIN m.scopes[d]
    BY <1>1, <1>2
  <2> HIDE DEF g
  <2>3. Meets(g, m, x)
    BY <2>1, <2>2 DEF Meets
  <2> QED BY <2>3 DEF g
<1>3. CASE known = {}
  <2> DEFINE n == AddLabel(m, x, l)
  <2>1. g.m = n
    BY <1>3 DEF GetLabel
  <2>2. l \in Labels /\ l.value = None /\ l.local = FALSE
    <3> DEFINE f == FALSE
    <3>1. None \in Values /\ f \in BOOLEAN
      BY DEF Values
    <3> HIDE DEF f
    <3>2. Fresh(NewLabel(x, None, f, 0, "", m.ns), None, f)
      BY <1>1, <3>1, NewNameTyped
    <3> QED BY <3>2 DEF f, Fresh
  <2>3. \A d \in 1..Len(m.scopes) : x \notin DOMAIN m.scopes[d]
    BY <1>1, <1>3
  <2>4. x \notin DOMAIN Here(m)
    BY <1>1, <2>3
  <2> HIDE DEF l, known
  <2>5. /\ MemSound(n, t) /\ Kept(n, m) /\ Adds(n, m, x, l.local) /\ n.labels[Len(n.labels)] = l
    BY <2>2, <2>4, AddLabelSound
  <2> HIDE DEF n, g
  <2>6. Meets(g, m, x)
    BY <2>1, <2>2, <2>3, <2>5 DEF Meets, Defined, Kept
  <2> QED BY <2>6 DEF g
<1> QED BY <1>2, <1>3

\* What giving the name x a value leaves: its label in the innermost scope has
\* one and no other label has changed, or it is new there.
Values1(n, m, o) ==
    /\ n.scopes = m.scopes /\ n.waiting = m.waiting /\ Len(n.labels) = Len(m.labels)
    /\ \A p \in 1..Len(m.labels) : /\ n.labels[p].local = m.labels[p].local
                                   /\ p # o => n.labels[p] = m.labels[p]
    /\ Defined(n, o)
    /\ n.err = IF Defined(m, o) /\ m.err = "none" THEN "already defined" ELSE m.err
NamesOne(n, m, x) ==
    \/ x \in DOMAIN Here(m) /\ Values1(n, m, Here(m)[x])
    \/ /\ x \notin DOMAIN Here(m) /\ Adds(n, m, x, FALSE) /\ Defined(n, Len(n.labels))
       /\ n.waiting = m.waiting /\ n.err = m.err

LEMMA DefineValues ==
    ASSUME NEW m \in Memory, NEW o \in 1..Len(m.labels), NEW v \in Exprs
    PROVE  Values1(Define(m, o, v), m, o)
<1>1. v \in Values /\ v # None
  BY NoneAssumption DEF Values
<1> DEFINE n == Define(m, o, v)
<1>2. Defines(n, m, o, v)
  BY <1>1, DefineFields
<1> HIDE DEF n
<1>3. n.labels = [m.labels EXCEPT ![o].value = v] /\ m.labels \in Seq(Labels)
  BY <1>2 DEF Defines, Memory
<1>4. \A p \in 1..Len(m.labels) : m.labels[p] \in Labels
  BY <1>3, ElementOfSeq
<1>5. Len(n.labels) = Len(m.labels) /\ DOMAIN m.labels = 1..Len(m.labels)
  BY <1>3
<1>6. n.labels[o].value = v /\ n.labels[o].local = m.labels[o].local
  BY <1>3, <1>4, <1>5 DEF Labels
<1>7. \A p \in 1..Len(m.labels) : p # o => n.labels[p] = m.labels[p]
  BY <1>3, <1>5
<1>8. Values1(n, m, o)
  BY <1>1, <1>2, <1>5, <1>6, <1>7 DEF Values1, Defines, Defined
<1> QED BY <1>8 DEF n

LEMMA DeclareLabelNames ==
    ASSUME NEW m, NEW t, MemSound(m, t), NEW x \in Keys,
           NEW v \in Exprs, v.lab \in 0..Len(m.labels)
    PROVE  NamesOne(DeclareLabel(m, x, v), m, x)
<1> DEFINE l == NewLabel(x, v, FALSE, 0, "", m.ns)
           r == IF x \in DOMAIN Here(m) THEN Define(m, Here(m)[x], v) ELSE AddLabel(m, x, l)
           n == SetMemorySlot(r)
<1>1. DeclareLabel(m, x, v) = n
  BY DEF DeclareLabel
<1>2. /\ m \in Memory /\ m.ns \in Words /\ Len(m.labels) \in Nat
      /\ \A y \in DOMAIN Here(m) : Here(m)[y] \in 1..Len(m.labels)
  BY Facts
<1>3. NamesOne(r, m, x) /\ MemSound(r, t)
  <2>1. CASE x \in DOMAIN Here(m)
    <3> DEFINE o == Here(m)[x]
    <3>1. o \in 1..Len(m.labels)
      BY <1>2, <2>1
    <3>2. r = Define(m, o, v)
      BY <2>1
    <3> HIDE DEF o
    <3>3. Values1(r, m, o)
      BY <1>2, <3>1, <3>2, DefineValues
    <3>4. LET q == Define(m, o, v) IN MemSound(q, t)
      BY <3>1, DefineSound
    <3> HIDE DEF r
    <3> QED BY <2>1, <3>2, <3>3, <3>4 DEF NamesOne, o
  <2>2. CASE x \notin DOMAIN Here(m)
    <3>1. l \in Labels /\ l.value = v /\ l.local = FALSE
      <4> DEFINE f == FALSE
      <4>1. v \in Values /\ f \in BOOLEAN
        BY DEF Values
      <4> HIDE DEF f
      <4>2. Fresh(NewLabel(x, v, f, 0, "", m.ns), v, f)
        BY <1>2, <4>1, NewNameTyped
      <4> QED BY <4>2 DEF f, Fresh
    <3>2. r = AddLabel(m, x, l)
      BY <2>2
    <3> HIDE DEF l
    <3>3. LET q == AddLabel(m, x, l) IN
          /\ MemSound(q, t) /\ Kept(q, m) /\ Adds(q, m, x, l.local) /\ q.err = m.err
          /\ q.labels[Len(q.labels)] = l
      BY <2>2, <3>1, AddLabelSound
    <3> HIDE DEF r
    <3>4. Defined(r, Len(r.labels))
      BY <3>1, <3>2, <3>3, NoneAssumption DEF Defined
    <3> QED BY <2>2, <3>1, <3>2, <3>3, <3>4 DEF NamesOne, Kept
  <2> QED BY <2>1, <2>2
<1> HIDE DEF r
<1>4. MemSound(n, t) /\ Kept(n, r) /\ SameNames(n, r) /\ n.err = r.err
  BY <1>3, SlotKept
<1> HIDE DEF n
<1>5. NamesOne(n, m, x)
  BY <1>3, <1>4 DEF NamesOne, Values1, SameNames, Adds, Defined
<1> QED BY <1>1, <1>5

\* A definition is of the name that is LOCAL in its PROC, or else of the public one.
LEMMA OwnerHere ==
    ASSUME NEW t \in Texts, NEW i \in Definitions(t), OwnNames(t), NEW o, o = Opens(t)[i],
           NEW m, Scoped(m, t, o), NEW x, x = NameOf(t, i)
    PROVE  OwnerOf(t, i) = IF x \in DOMAIN m.scopes[Len(o)] /\ Local(m, Len(o), x) THEN o[Len(o)] ELSE 0
<1>1. i \in 1..(Len(t) + 1) /\ OwnerOf(t, i) = Owner(t, i, x)
  BY LinesAre DEF OwnerOf
<1>2. OpenStack(o, i) /\ o \in Seq(Nat) /\ Len(o) \in Nat /\ Len(o) >= 1 /\ Last(o) = o[Len(o)]
  BY <1>1, LineFacts
<1>5. Len(o) = 1 \/ Len(o) > 1
  <2> DEFINE k == Len(o)
  <2>1. k \in Nat /\ k >= 1
    BY <1>2, Zenon
  <2> HIDE DEF k
  <2>2. k = 1 \/ k > 1
    BY <2>1
  <2> QED BY <2>2 DEF k
<1>0. ASSUME NEW p \in ToSet(o) PROVE \E d \in 1..Len(o) : p = o[d]
  <2> DEFINE q == Opens(t)[i]
  <2>1. \A r : r \in ToSet(q) <=> \E d \in 1..Len(q) : r = q[d]
    BY <1>1, LineFacts
  <2>2. o = q
    OBVIOUS
  <2> HIDE DEF q
  <2> QED BY <2>1, <2>2
<1>3. CASE x \in DOMAIN m.scopes[Len(o)] /\ Local(m, Len(o), x)
  BY <1>1, <1>3, OwnerByScope
<1>4. CASE ~(x \in DOMAIN m.scopes[Len(o)] /\ Local(m, Len(o), x))
  <2>1. Len(o) > 1 => x \notin Locals(t, Last(o))
    <3>1. Len(o) > 1 => Len(o) \in 2..Len(o)
      BY <1>2
    <3> QED BY <1>2, <1>4, <3>1 DEF Scoped
  <2>2. ASSUME NEW p \in ToSet(o), x \in Locals(t, p) PROVE p <= 0
    <3>1. PICK d \in 1..Len(o) : p = o[d]
      BY <1>0
    <3>2. p \in Nat /\ o[1] = 0
      BY <1>2, <3>1, ElementOfSeq DEF OpenStack
    <3>3. CASE Len(o) = 1
      <4>1. d = 1
        BY <3>1, <3>3
      <4> QED BY <3>1, <3>2, <4>1
    <3>4. CASE Len(o) > 1
      <4>1. p = 0 \/ p \in ToSet(Opens(t)[i]) \ {0, Last(Opens(t)[i])}
        BY <2>1, <2>2, <3>4
      <4>2. ASSUME p \in ToSet(Opens(t)[i]) \ {0, Last(Opens(t)[i])} PROVE FALSE
        <5>1. x = Full(t, i, t[i].name)
          BY DEF NameOf
        <5>2. x \in Locals(t, Last(Opens(t)[i])) \/ x \notin Locals(t, p)
          BY <4>2, <5>1 DEF OwnNames
        <5> QED BY <2>1, <2>2, <3>4, <5>2
      <4>3. p = 0
        BY <4>1, <4>2, Zenon
      <4> QED BY <4>3
    <3> QED BY <1>5, <3>3, <3>4
  <2>3. OwnerFor(t, o, x, 0)
    BY <2>2 DEF OwnerFor
  <2>4. Owner(t, i, x) = 0
    BY <1>1, <2>3, OwnerUnique
  <2> QED BY <1>1, <1>4, <2>4
<1> QED BY <1>3, <1>4

\* The line i gives the name x its value.
LEMMA Defining ==
    ASSUME NEW t \in Texts, NEW i \in Definitions(t), OwnNames(t), NEW o, o = Opens(t)[i],
           NEW m, MemSound(m, t), m.err = "none", NEW D, NEW U, D \subseteq Definitions(t), i \notin D,
           NamesOf(m, t, o, D, U), NEW x, x = NameOf(t, i), NEW n, NamesOne(n, m, x)
    PROVE  IF n.err = "none" THEN NamesOf(n, t, o, D \cup {i}, U)
           ELSE n.err = "already defined" /\ Twice(t)
<1> DEFINE k == Len(o)
<1>1. i \in 1..(Len(t) + 1)
  BY LinesAre
<1>2. OpenStack(o, i) /\ o \in Seq(Nat) /\ k \in Nat /\ k >= 1 /\ k \in 1..k /\ Last(o) = o[k] /\ Last(o) \in ToSet(o)
  BY <1>1, LineFacts
<1>3. /\ Len(m.scopes) = k /\ Scoped(m, t, o) /\ Here(m) = m.scopes[k]
      /\ Apart(m) /\ Entries(m, t, o, D) /\ Definers(m, t, o, D) /\ Users(m, t, o, U)
  BY Facts DEF NamesOf, Scoped
<1>4. OwnerOf(t, i) = IF x \in DOMAIN m.scopes[k] /\ Local(m, k, x) THEN o[k] ELSE 0
  BY <1>3, OwnerHere
<1>5. Seat(t, o, i) = o[k] /\ OwnerOf(t, i) \in {0, o[k]} /\ Last(Opens(t)[i]) = o[k]
  BY <1>2, <1>4 DEF Seat
<1>6. \A j, l \in 1..k : j < l => o[j] < o[l]
  BY <1>2 DEF OpenStack
<1>7. ASSUME NEW d \in 1..k, o[d] = o[k] PROVE d = k
  <2>1. o[d] \in Nat /\ o[k] \in Nat
    BY <1>2, ElementOfSeq
  <2> QED BY <1>2, <1>6, <1>7, <2>1
<1> HIDE DEF k
<1>8. CASE x \in DOMAIN Here(m) /\ Values1(n, m, Here(m)[x])
  <2> DEFINE a == Here(m)[x]
  <2>1. /\ n.scopes = m.scopes /\ n.waiting = m.waiting /\ Len(n.labels) = Len(m.labels)
        /\ \A p \in 1..Len(m.labels) : /\ n.labels[p].local = m.labels[p].local
                                       /\ p # a => n.labels[p] = m.labels[p]
        /\ Defined(n, a)
        /\ n.err = IF Defined(m, a) /\ m.err = "none" THEN "already defined" ELSE m.err
    BY <1>8 DEF Values1
  <2>2. x \in DOMAIN m.scopes[k] /\ a = m.scopes[k][x] /\ OwnerIn(m, o, k, x) = OwnerOf(t, i)
    BY <1>3, <1>4, <1>8 DEF OwnerIn
  <2> HIDE DEF a
  <2>3. CASE Defined(m, a)
    <3>1. Given(m, k, x)
      BY <2>2, <2>3 DEF Given
    <3>2. Entry(m, t, o, D, k, x)
      BY <1>2, <1>3, <2>2 DEF Entries, k
    <3>3. PICK j \in D : DefinedAt(t, o, j, x, OwnerOf(t, i), o[k])
      BY <2>2, <3>1, <3>2 DEF Entry
    <3>4. Twice(t)
      BY <3>3 DEF Twice, DefinedAt
    <3> DEFINE e == "already defined"
    <3>5. n.err = e /\ e # "none"
      BY <2>1, <2>3
    <3> HIDE DEF e
    <3> QED BY <3>4, <3>5 DEF e
  <2>4. CASE ~Defined(m, a)
    <3>1. \A d \in 1..k : \A y \in DOMAIN m.scopes[d] : m.scopes[d][y] \in 1..Len(m.labels)
      BY <1>3 DEF MemSound, NamesSound, ScopesName, k
    <3>2. ASSUME NEW d \in 1..k, NEW y \in DOMAIN m.scopes[d]
          PROVE  /\ Local(n, d, y) = Local(m, d, y)
                 /\ IF d = k /\ y = x THEN Given(n, d, y) ELSE Given(n, d, y) = Given(m, d, y)
      <4>1. m.scopes[d][y] = a => d = k /\ y = x
        BY <1>2, <1>3, <2>2, <3>2 DEF Apart, k
      <4>2. Local(n, d, y) = Local(m, d, y)
        BY <2>1, <3>1 DEF Local
      <4>3. ~(d = k /\ y = x) => Given(n, d, y) = Given(m, d, y)
        BY <2>1, <3>1, <4>1 DEF Given, Defined
      <4>4. d = k /\ y = x => Given(n, d, y)
        BY <2>1, <2>2 DEF Given
      <4> QED BY <4>2, <4>3, <4>4
    <3>3. ~Given(m, k, x) /\ Given(n, k, x)
      BY <1>2, <2>2, <2>4, <3>2 DEF Given, k
    <3>4. \A d \in 1..k : \A y \in DOMAIN m.scopes[d] : Given(m, d, y) => Given(n, d, y)
      BY <3>2, <3>3
    <3>5. Scoped(n, t, o)
      <4>1. n.scopes = m.scopes /\ Scoped(m, t, o) /\ k \in Nat
        BY <1>2, <1>3, <2>1
      <4>2. \A d \in 1..k : \A y \in DOMAIN m.scopes[d] :
              y \in DOMAIN n.scopes[d] /\ Local(n, d, y) = Local(m, d, y)
        BY <3>2, <4>1
      <4>3. \A d \in 1..k : \A y \in DOMAIN n.scopes[d] : y \in DOMAIN m.scopes[d] \/ ~Local(n, d, y)
        BY <4>1
      <4> QED BY <4>1, <4>2, <4>3, ScopedCarries DEF k
    <3>6. Apart(n)
      <4>1. n.scopes = m.scopes /\ n.waiting = m.waiting /\ Apart(m)
        BY <1>3, <2>1
      <4> QED BY <4>1, SMT DEF Apart
    <3>7. Entries(n, t, o, D \cup {i})
      <4>1. ASSUME NEW d \in 1..k, NEW y \in DOMAIN m.scopes[d] PROVE Entry(n, t, o, D \cup {i}, d, y)
        <5>1. Entry(m, t, o, D, d, y) /\ OwnerIn(n, o, d, y) = OwnerIn(m, o, d, y)
          BY <1>3, <3>2 DEF Entries, OwnerIn, k
        <5>2. CASE d = k /\ y = x
          <6>1. DefinedAt(t, o, i, y, OwnerIn(n, o, d, y), o[d])
            BY <1>5, <2>2, <5>1, <5>2 DEF DefinedAt
          <6> QED BY <3>3, <5>2, <6>1 DEF Entry
        <5>3. CASE ~(d = k /\ y = x)
          BY <3>2, <5>1, <5>3 DEF Entry
        <5> QED BY <5>2, <5>3
      <4> QED BY <2>1, <4>1 DEF Entries, k
    <3>8. Definers(n, t, o, D \cup {i})
      <4>1. ASSUME NEW j \in D PROVE Seated(n, t, o, j)
        <5>1. Seated(m, t, o, j)
          BY <1>3 DEF Definers
        <5> QED BY <2>1, <3>4, <5>1 DEF Seated, k
      <4>2. Seated(n, t, o, i)
        BY <1>5, <1>7, <2>1, <2>2, <3>3 DEF Seated, k
      <4>3. ASSUME NEW j \in D, NameOf(t, j) = x, OwnerOf(t, j) = OwnerOf(t, i), Seat(t, o, j) = o[k] PROVE FALSE
        <5>1. Seated(m, t, o, j)
          BY <1>3 DEF Definers
        <5>2. o[k] # 0 \/ OwnerOf(t, j) = 0
          BY <1>5, <4>3
        <5>3. Given(m, k, x)
          BY <1>2, <4>3, <5>1, <5>2 DEF Seated, k
        <5> QED BY <3>3, <5>3
      <4> QED BY <1>3, <1>5, <4>1, <4>2, <4>3 DEF Definers
    <3>9. Users(n, t, o, U)
      <4>1. \A d \in 1..k : \A y \in DOMAIN m.scopes[d] : Local(n, d, y) = Local(m, d, y)
        BY <3>2
      <4> QED BY <1>3, <2>1, <4>1 DEF Users, k
    <3>10. NamesOf(n, t, o, D \cup {i}, U)
      BY <3>5, <3>6, <3>7, <3>8, <3>9 DEF NamesOf
    <3>11. n.err = "none"
      BY <2>1, <2>4
    <3> QED BY <3>10, <3>11
  <2> QED BY <2>3, <2>4
<1>9. CASE /\ x \notin DOMAIN Here(m) /\ Adds(n, m, x, FALSE) /\ Defined(n, Len(n.labels))
           /\ n.waiting = m.waiting /\ n.err = m.err
  <2>1. OneMore(n, m, x, FALSE)
    BY <1>9, AddsOneMore
  <2>2. /\ Apart(n) /\ Definers(n, t, o, D) /\ Users(n, t, o, U)
        /\ \A d \in 1..k : \A y \in DOMAIN m.scopes[d] : Entry(n, t, o, D, d, y)
    BY <1>3, <2>1, OldKept DEF k
  <2>3. /\ x \in DOMAIN n.scopes[k] /\ Local(n, k, x) = FALSE /\ Given(n, k, x) /\ x \notin DOMAIN m.scopes[k]
        /\ \A d \in 1..k : \A y \in DOMAIN n.scopes[d] : y \in DOMAIN m.scopes[d] \/ (d = k /\ y = x)
        /\ \A d \in 1..k : \A y \in DOMAIN m.scopes[d] : y \in DOMAIN n.scopes[d] /\ Local(n, d, y) = Local(m, d, y)
        /\ Len(n.scopes) = k
    BY <1>3, <1>9, <2>1 DEF OneMore
  <2>4. OwnerOf(t, i) = 0
    BY <1>4, <2>3
  <2>5. Scoped(n, t, o)
    <3>1. \A d \in 2..k : d \in 1..k
      BY <1>2 DEF k
    <3> QED BY <1>3, <2>3, <3>1 DEF Scoped, k
  <2>6. Entries(n, t, o, D \cup {i})
    <3>1. Entry(n, t, o, D \cup {i}, k, x)
      <4>1. DefinedAt(t, o, i, x, OwnerIn(n, o, k, x), o[k])
        BY <1>5, <2>3, <2>4 DEF DefinedAt, OwnerIn
      <4> QED BY <2>3, <4>1 DEF Entry
    <3>2. \A d \in 1..k : \A y \in DOMAIN m.scopes[d] : Entry(n, t, o, D \cup {i}, d, y)
      BY <2>2 DEF Entry
    <3> QED BY <2>3, <3>1, <3>2 DEF Entries, k
  <2>7. Definers(n, t, o, D \cup {i})
    <3>1. Seated(n, t, o, i)
      BY <1>5, <1>7, <2>3 DEF Seated, k
    <3>2. ASSUME NEW j \in D, NameOf(t, j) = x, OwnerOf(t, j) = OwnerOf(t, i), Seat(t, o, j) = o[k] PROVE FALSE
      <4>1. Seated(m, t, o, j)
        BY <1>3 DEF Definers
      <4>2. x \in DOMAIN m.scopes[k]
        BY <1>2, <2>4, <3>2, <4>1 DEF Seated, k
      <4> QED BY <2>3, <4>2
    <3> QED BY <1>5, <2>2, <3>1, <3>2 DEF Definers
  <2>8. NamesOf(n, t, o, D \cup {i}, U)
    BY <2>2, <2>5, <2>6, <2>7 DEF NamesOf
  <2> QED BY <1>9, <2>8
<1> QED BY <1>8, <1>9 DEF NamesOne

-----------------------------------------------------------------------------
(* The same names, with another label waiting or another name LOCAL.       *)

\* The names of n are those of m, with a value and LOCAL where they were.
SameScopes(n, m) ==
    /\ n.scopes = m.scopes
    /\ \A d \in 1..Len(m.scopes) : \A x \in DOMAIN m.scopes[d] :
         Local(n, d, x) = Local(m, d, x) /\ Given(n, d, x) = Given(m, d, x)

LEMMA NamesOfAlike ==
    ASSUME NEW t, NEW o, Len(o) \in Nat, NEW m, NEW n, SameScopes(n, m), Apart(n), NEW D, NEW U
    PROVE  /\ NamesOf(m, t, o, D, U) => NamesOf(n, t, o, D, U)
           /\ Entries(m, t, o, D) /\ Len(m.scopes) = Len(o) => Entries(n, t, o, D)
           /\ Definers(m, t, o, D) /\ Len(m.scopes) = Len(o) => Definers(n, t, o, D)
           /\ Users(m, t, o, U) /\ Len(m.scopes) = Len(o) => Users(n, t, o, U)
<1> SUFFICES ASSUME Len(m.scopes) = Len(o)
             PROVE  /\ Scoped(m, t, o) => Scoped(n, t, o)
                    /\ Entries(m, t, o, D) => Entries(n, t, o, D)
                    /\ Definers(m, t, o, D) => Definers(n, t, o, D)
                    /\ Users(m, t, o, U) => Users(n, t, o, U)
  BY DEF NamesOf, Scoped
<1> DEFINE k == Len(o)
<1>1. n.scopes = m.scopes /\ \A d \in 1..k : \A x \in DOMAIN m.scopes[d] :
         Local(n, d, x) = Local(m, d, x) /\ Given(n, d, x) = Given(m, d, x)
  BY DEF SameScopes
<1>2. Entries(m, t, o, D) => Entries(n, t, o, D)
  BY <1>1 DEF Entries, Entry, OwnerIn
<1>3. Definers(m, t, o, D) => Definers(n, t, o, D)
  <2>1. \A i \in D : Seated(m, t, o, i) => Seated(n, t, o, i)
    BY <1>1 DEF Seated
  <2> QED BY <2>1 DEF Definers
<1>4. Users(m, t, o, U) => Users(n, t, o, U)
  BY <1>1 DEF Users
<1>5. Scoped(m, t, o) => Scoped(n, t, o)
  <2>1. \A d \in 2..k : d \in 1..k
    OBVIOUS
  <2> HIDE DEF k
  <2>2. k = Len(o)
    BY DEF k
  <2> QED BY <1>1, <2>1, <2>2 DEF Scoped
<1> QED BY <1>2, <1>3, <1>4, <1>5

LEMMA ApartAlike ==
    ASSUME NEW m, NEW n, n.scopes = m.scopes, n.waiting = m.waiting, Apart(m)
    PROVE  Apart(n)
BY DEF Apart

LEMMA NamesOfSame ==
    ASSUME NEW t, NEW o, Len(o) \in Nat, NEW m, NEW n, SameNames(n, m), NEW D, NEW U,
           NamesOf(m, t, o, D, U)
    PROVE  NamesOf(n, t, o, D, U)
<1>1. n.scopes = m.scopes /\ n.waiting = m.waiting /\ n.labels = m.labels /\ Apart(m)
  BY DEF SameNames, NamesOf
<1>2. Apart(n)
  BY <1>1, ApartAlike
<1>3. SameScopes(n, m)
  BY <1>1 DEF SameScopes, Local, Given, Defined
<1> QED BY <1>2, <1>3, NamesOfAlike

\* The use of a temporary label.
LEMMA TemporaryNames ==
    ASSUME NEW m, NEW v, MemSound(m, v), NEW t, NEW o, Len(o) \in Nat, NEW D, NEW U,
           NamesOf(m, t, o, D, U),
           NEW name, NEW dir, NEW line0
    PROVE  NamesOf(GetTemporary(m, name, dir, line0).m, t, o, D, U)
<1> DEFINE l == NewLabel(name, None, FALSE, line0, dir, m.ns)
           L == Len(m.labels)
           q == Append(m.labels, l)
           w == Append(m.waiting, L + 1)
           n == [m EXCEPT !.labels = q, !.waiting = w]
<1>1. m \in Memory /\ L \in Nat /\ m.labels \in Seq(Labels) /\ m.waiting \in Seq(Nat) /\ Len(m.waiting) \in Nat
  BY Facts DEF Memory
<1>2. GetTemporary(m, name, dir, line0).m = n
  BY DEF GetTemporary
<1> HIDE DEF l
<1>3. \A p \in 1..L : q[p] = m.labels[p]
  BY <1>1
<1>4. /\ Len(w) = Len(m.waiting) + 1 /\ w[Len(m.waiting) + 1] = L + 1
      /\ \A j \in 1..Len(m.waiting) : w[j] = m.waiting[j]
  BY <1>1
<1> HIDE DEF q, w
<1>5. n.labels = q /\ n.waiting = w /\ n.scopes = m.scopes
  BY <1>1 DEF Memory
<1> HIDE DEF n
<1>6. \A d \in 1..Len(m.scopes) : \A x \in DOMAIN m.scopes[d] : m.scopes[d][x] \in 1..L
  BY DEF MemSound, NamesSound, ScopesName
<1>7. SameScopes(n, m)
  BY <1>3, <1>5, <1>6 DEF SameScopes, Local, Given, Defined
<1>8. Apart(n)
  <2>1. Apart(m)
    BY DEF NamesOf
  <2>2. ASSUME NEW d \in 1..Len(m.scopes), NEW x \in DOMAIN m.scopes[d], NEW j \in 1..Len(w)
        PROVE  m.scopes[d][x] # w[j]
    <3>1. CASE j \in 1..Len(m.waiting)
      <4>1. w[j] = m.waiting[j]
        BY <1>4, <3>1
      <4>2. m.scopes[d][x] # m.waiting[j]
        BY <2>1, <3>1 DEF Apart
      <4> QED BY <4>1, <4>2
    <3>2. CASE j \notin 1..Len(m.waiting)
      <4>1. j = Len(m.waiting) + 1
        BY <1>1, <1>4, <3>2
      <4>2. w[j] = L + 1 /\ m.scopes[d][x] \in 1..L
        BY <1>4, <1>6, <4>1
      <4> QED BY <1>1, <4>2
    <3> QED BY <3>1, <3>2
  <2> QED BY <1>5, <2>1, <2>2 DEF Apart
<1> QED BY <1>2, <1>7, <1>8, NamesOfAlike

\* What LOCAL leaves: the name is LOCAL in the innermost scope, new there or not.
HidesOne(n, m, x) ==
    \/ /\ x \in DOMAIN Here(m) /\ n.scopes = m.scopes /\ n.waiting = m.waiting
       /\ \A p \in 1..Len(m.labels) :
            /\ n.labels[p].value = m.labels[p].value
            /\ n.labels[p].local = IF p = Here(m)[x] THEN TRUE ELSE m.labels[p].local
    \/ /\ x \notin DOMAIN Here(m) /\ Adds(n, m, x, TRUE) /\ n.waiting = m.waiting
       /\ ~Defined(n, Len(n.labels))

LEMMA SetLabelHides ==
    ASSUME NEW m, NEW t, MemSound(m, t), NEW x \in Keys
    PROVE  HidesOne(SetLabel(m, x), m, x)
<1> DEFINE l == NewLabel(x, None, TRUE, 0, "", m.ns)
           L == Len(m.labels)
           n == SetLabel(m, x)
<1>1. /\ m \in Memory /\ m.ns \in Words /\ L \in Nat /\ m.labels \in Seq(Labels)
      /\ \A y \in DOMAIN Here(m) : Here(m)[y] \in 1..L
  BY Facts
<1>2. CASE x \in DOMAIN Here(m)
  <2> DEFINE o == Here(m)[x]
             e == [m.labels[o] EXCEPT !.local = TRUE]
             q == [m.labels EXCEPT ![o] = e]
  <2>1. o \in 1..L
    BY <1>1, <1>2
  <2>2. n = [m EXCEPT !.labels = q]
    BY <1>1, <1>2 DEF SetLabel, Memory
  <2> HIDE DEF o, n
  <2>3. e \in Labels /\ e.local = TRUE /\ e.value = m.labels[o].value
    <3>1. m.labels[o] \in Labels
      BY <1>1, <2>1, ElementOfSeq
    <3> QED BY <3>1 DEF Labels
  <2> HIDE DEF e
  <2>4. q[o] = e /\ \A p \in 1..L : p # o => q[p] = m.labels[p]
    BY <1>1, <2>1, <2>3
  <2> HIDE DEF q
  <2>5. n.labels = q /\ n.scopes = m.scopes /\ n.waiting = m.waiting
    BY <1>1, <2>2 DEF Memory
  <2>6. \A p \in 1..L : /\ n.labels[p].value = m.labels[p].value
                        /\ n.labels[p].local = IF p = o THEN TRUE ELSE m.labels[p].local
    BY <2>3, <2>4, <2>5
  <2>7. HidesOne(n, m, x)
    BY <1>2, <2>5, <2>6 DEF HidesOne, o
  <2> QED BY <2>7 DEF n
<1>3. CASE x \notin DOMAIN Here(m)
  <2>1. Fresh(l, None, TRUE)
    <3> DEFINE f == TRUE
    <3>1. None \in Values /\ f \in BOOLEAN
      BY DEF Values
    <3> HIDE DEF f
    <3>2. Fresh(NewLabel(x, None, f, 0, "", m.ns), None, f)
      BY <1>1, <3>1, NewNameTyped
    <3> QED BY <3>2 DEF f
  <2>2. n = AddLabel(m, x, l)
    BY <1>3 DEF SetLabel
  <2> HIDE DEF l, n
  <2>3. LET q == AddLabel(m, x, l) IN
        /\ MemSound(q, t) /\ Kept(q, m) /\ Adds(q, m, x, l.local) /\ q.labels[Len(q.labels)] = l
    BY <1>3, <2>1, AddLabelSound DEF Fresh
  <2>4. HidesOne(n, m, x)
    BY <1>3, <2>1, <2>2, <2>3 DEF HidesOne, Fresh, Kept, Defined
  <2> QED BY <2>4 DEF n
<1> QED BY <1>2, <1>3

LEMMA LocalNames ==
    ASSUME NEW t \in Texts, NEW s \in Stmts, NEW u, Grown(u, t, s), s.op = "local", LocalFirst(u),
           NEW m, MemSound(m, t), NEW o, o = Open(t), Bound(m, t, o), NEW D, NEW U,
           D \subseteq Definitions(t), U \subseteq Uses(t), NamesOf(m, t, o, D, U),
           NEW x, x = <<Last(Space(t)), s.name>>, NEW n, HidesOne(n, m, x)
    PROVE  NamesOf(n, u, o, D, U)
<1> DEFINE k == Len(o)
           i == Len(u)
<1>1. /\ u \in Texts /\ Len(t) \in Nat /\ i = Len(t) + 1 /\ u[i] = s /\ i \in 1..i
      /\ i \in 1..(Len(t) + 1) /\ DOMAIN u = 1..i
  BY DEF Grown, Texts
<1>2. Keeps(u, t, s)
  BY TextKeeps DEF Early
<1>3. Opens(u)[i] = o /\ Full(u, i, u[i].name) = x
  BY <1>1, NamesGrow
<1>4. i \in Lines(u, {"local"})
  BY <1>1 DEF Lines
<1>5. /\ k > 1
      /\ \A j \in Uses(u) \cup Definitions(u) :
            ~(j < i /\ Last(o) \in ToSet(Opens(u)[j]) /\ x \in {Full(u, j, u[j].name), UsedName(u, j)})
  BY <1>3, <1>4 DEF LocalFirst
<1>6. /\ o \in Seq(Nat) /\ k \in Nat /\ Last(o) = o[k]
  <2> DEFINE q == Opens(t)[Len(t) + 1]
  <2>1. q \in Seq(Nat) /\ Len(q) \in Nat /\ Last(q) = q[Len(q)]
    BY <1>1, LineFacts
  <2>2. o = q
    BY DEF Open
  <2> HIDE DEF q
  <2> QED BY <2>1, <2>2
<1> HIDE DEF k
<1>7. k \in 2..k /\ k \in 1..k /\ \A d \in 2..k : d \in 1..k
  BY <1>5, <1>6
<1>8. /\ Len(m.scopes) = k /\ Scoped(m, t, o) /\ Here(m) = m.scopes[k]
      /\ Apart(m) /\ Entries(m, t, o, D) /\ Definers(m, t, o, D) /\ Users(m, t, o, U)
  BY Facts DEF NamesOf, Scoped, k
<1>9. ASSUME Mentions(t, x, o[k]) PROVE FALSE
  <2>1. PICK j \in 1..Len(t) : MentionedAt(t, x, o[k], j)
    BY <1>9 DEF Mentions
  <2>2. j \in Uses(u) \cup Definitions(u) /\ j < i
    <3>1. j \in Uses(t) \cup Definitions(t)
      BY <2>1 DEF MentionedAt
    <3>2. (\A l \in Uses(t) : l \in Uses(u)) /\ (\A l \in Definitions(t) : l \in Definitions(u))
      BY UsesGrow
    <3>3. j < i
      BY <1>1
    <3> QED BY <3>1, <3>2, <3>3
  <2>3. /\ Opens(u)[j] = Opens(t)[j] /\ Full(u, j, u[j].name) = Full(t, j, t[j].name)
        /\ UsedName(u, j) = UsedName(t, j)
    BY NamesGrow
  <2>4. o[k] \in ToSet(Opens(t)[j]) /\ x \in {Full(t, j, t[j].name), UsedName(t, j)}
    BY <2>1 DEF MentionedAt
  <2> QED BY <1>5, <1>6, <2>2, <2>3, <2>4
<1>10. Entries(m, u, o, D) /\ Definers(m, u, o, D) /\ Users(m, u, o, U)
  BY <1>2, <1>8, RestGrows
<1>11. \A p, y : y \in Locals(u, p) <=> y \in Locals(t, p) \/ (p = o[k] /\ y = x)
  <2>1. \A p, y : y \in Locals(u, p) <=> y \in Locals(t, p) \/ (Last(Open(t)) = p /\ y = <<Last(Space(t)), s.name>>)
    BY LocalsGrow
  <2> QED BY <1>6, <2>1
<1>12. CASE x \in DOMAIN Here(m)
  <2>1. x \in Locals(t, o[k]) /\ m.labels[m.scopes[k][x]].local
    BY <1>7, <1>8, <1>9, <1>12 DEF Bound, k
  <2>2. \A d \in 1..k : \A y \in DOMAIN m.scopes[d] : m.scopes[d][y] \in 1..Len(m.labels)
    BY <1>8 DEF MemSound, NamesSound, ScopesName
  <2>3. m.labels[m.scopes[k][x]].local = TRUE
    <3>1. m.labels \in Seq(Labels) /\ m.scopes[k][x] \in 1..Len(m.labels)
      BY <1>7, <1>8, <1>12, <2>2, Facts
    <3>2. m.labels[m.scopes[k][x]] \in Labels
      BY <3>1, ElementOfSeq
    <3>3. m.labels[m.scopes[k][x]].local \in BOOLEAN
      BY <3>2 DEF Labels
    <3> QED BY <2>1, <3>3
  <2>4. /\ n.scopes = m.scopes /\ n.waiting = m.waiting
        /\ \A p \in 1..Len(m.labels) :
             /\ n.labels[p].value = m.labels[p].value
             /\ n.labels[p].local = IF p = m.scopes[k][x] THEN TRUE ELSE m.labels[p].local
    BY <1>8, <1>12 DEF HidesOne
  <2>5. SameScopes(n, m)
    <3> DEFINE a == m.scopes[k][x]
    <3>1. /\ m.labels[a].local = TRUE
          /\ \A p \in 1..Len(m.labels) :
               /\ n.labels[p].value = m.labels[p].value
               /\ n.labels[p].local = IF p = a THEN TRUE ELSE m.labels[p].local
      BY <2>3, <2>4
    <3> HIDE DEF a
    <3>2. \A p \in 1..Len(m.labels) :
            n.labels[p].local = m.labels[p].local /\ Defined(n, p) = Defined(m, p)
      BY <3>1 DEF Defined
    <3>3. ASSUME NEW d \in 1..Len(m.scopes), NEW y \in DOMAIN m.scopes[d]
          PROVE  Local(n, d, y) = Local(m, d, y) /\ Given(n, d, y) = Given(m, d, y)
      <4>1. m.scopes[d][y] \in 1..Len(m.labels) /\ n.scopes = m.scopes
        BY <1>8, <2>2, <2>4
      <4> QED BY <3>2, <4>1 DEF Local, Given
    <3> QED BY <2>4, <3>3 DEF SameScopes
  <2>6. Apart(n)
    BY <1>8, <2>4, ApartAlike
  <2>7. Scoped(m, u, o)
    <3>1. \A p, y : y \in Locals(u, p) <=> y \in Locals(t, p)
      BY <1>11, <2>1
    <3> QED BY <1>8, <3>1 DEF Scoped
  <2>8. NamesOf(m, u, o, D, U)
    BY <1>8, <1>10, <2>7 DEF NamesOf
  <2>9. Len(o) \in Nat
    BY <1>6 DEF k
  <2> QED BY <2>5, <2>6, <2>8, <2>9, NamesOfAlike
<1>13. CASE /\ x \notin DOMAIN Here(m) /\ Adds(n, m, x, TRUE) /\ n.waiting = m.waiting
            /\ ~Defined(n, Len(n.labels))
  <2>1. OneMore(n, m, x, TRUE)
    BY <1>13, AddsOneMore
  <2>2. /\ Apart(n) /\ Definers(n, u, o, D) /\ Users(n, u, o, U)
        /\ \A d \in 1..k : \A y \in DOMAIN m.scopes[d] : Entry(n, u, o, D, d, y)
    <3> DEFINE f == TRUE
    <3>1. OneMore(n, m, x, f) /\ Len(m.scopes) = Len(o) /\ Apart(m)
      BY <1>8, <2>1 DEF k
    <3>2. Entries(m, u, o, D) /\ Definers(m, u, o, D) /\ Users(m, u, o, U)
      BY <1>10
    <3> HIDE DEF f
    <3> QED BY <3>1, <3>2, OldKept DEF k
  <2>3. /\ x \in DOMAIN n.scopes[k] /\ Local(n, k, x) = TRUE /\ ~Given(n, k, x) /\ x \notin DOMAIN m.scopes[k]
        /\ \A d \in 1..k : \A y \in DOMAIN n.scopes[d] : y \in DOMAIN m.scopes[d] \/ (d = k /\ y = x)
        /\ \A d \in 1..k : \A y \in DOMAIN m.scopes[d] : y \in DOMAIN n.scopes[d] /\ Local(n, d, y) = Local(m, d, y)
        /\ Len(n.scopes) = k
    BY <1>8, <1>13, <2>1 DEF OneMore
  <2>4. Entries(n, u, o, D)
    <3>1. Entry(n, u, o, D, k, x)
      BY <2>3 DEF Entry
    <3> QED BY <2>2, <2>3, <3>1 DEF Entries, k
  <2>5. Scoped(n, u, o)
    <3>1. ASSUME NEW d \in 1..k, NEW y \in DOMAIN n.scopes[d], Local(n, d, y)
          PROVE  d > 1 /\ y \in Locals(u, o[d])
      <4>1. CASE y \in DOMAIN m.scopes[d]
        <5>1. Local(m, d, y)
          BY <2>3, <3>1, <4>1
        <5>2. d > 1 /\ y \in Locals(t, o[d])
          BY <1>8, <4>1, <5>1 DEF Scoped, k
        <5> QED BY <1>11, <5>2
      <4>2. CASE d = k /\ y = x
        BY <1>5, <1>11, <4>2 DEF k
      <4> QED BY <2>3, <4>1, <4>2
    <3>2. ASSUME NEW d \in 2..k, NEW y \in Locals(u, o[d]) PROVE y \in DOMAIN n.scopes[d] /\ Local(n, d, y)
      <4>1. CASE y \in Locals(t, o[d])
        <5>1. y \in DOMAIN m.scopes[d] /\ Local(m, d, y) /\ d \in 1..k
          BY <1>7, <1>8, <4>1 DEF Scoped, k
        <5> QED BY <2>3, <5>1
      <4>2. CASE o[d] = o[k] /\ y = x
        <5>1. d = k
          <6>1. \A j, l \in 1..k : j < l => o[j] < o[l]
            <7> DEFINE q == Opens(t)[Len(t) + 1]
            <7>1. OpenStack(q, Len(t) + 1)
              BY <1>1, LineFacts
            <7>2. o = q
              BY DEF Open
            <7> HIDE DEF q
            <7> QED BY <7>1, <7>2 DEF OpenStack, k
          <6>2. d \in 1..k /\ o[d] \in Nat /\ o[k] \in Nat
            BY <1>6, <1>7, ElementOfSeq DEF k
          <6> QED BY <1>6, <1>7, <4>2, <6>1, <6>2
        <5> QED BY <2>3, <4>2, <5>1
      <4> QED BY <1>11, <4>1, <4>2
    <3> QED BY <2>3, <3>1, <3>2 DEF Scoped, k
  <2> QED BY <2>2, <2>4, <2>5 DEF NamesOf
<1> QED BY <1>12, <1>13 DEF HidesOne

-----------------------------------------------------------------------------
(* ENDP.                                                                   *)

\* A loop over a finite set, with what it has done so far: Good holds pairs of
\* a result and the items it has seen.
LEMMA FoldHolds ==
    ASSUME NEW kind, NEW env, NEW base, NEW seq, NEW S, IsFiniteSet(S),
           \A s \in SUBSET S : s # {} => Chosen(kind, s) \in s,
           NEW Good, <<base, {}>> \in Good,
           \A acc, s, x : <<acc, s>> \in Good /\ s \subseteq S /\ x \in S \ s =>
                <<Body(kind, env, acc, Item(kind, seq, x)), s \cup {x}>> \in Good,
           NEW f, Folding(f, kind, env, base, seq, S)
    PROVE  <<f[S], S>> \in Good
<1> DEFINE J == {k \in Nat : \A s \in SUBSET S : Cardinality(s) <= k => <<f[s], s>> \in Good}
<1>1. \A s \in SUBSET S : IsFiniteSet(s) /\ Cardinality(s) \in Nat
  BY FS_Subset, FS_CardinalityType
<1>2. \A s \in SUBSET S : f[s] = IF s = {} THEN base
         ELSE Body(kind, env, f[s \ {Chosen(kind, s)}], Item(kind, seq, Chosen(kind, s)))
  BY Zenon DEF Folding
<1>3. 0 \in J
  <2> SUFFICES ASSUME NEW s \in SUBSET S, Cardinality(s) <= 0 PROVE <<f[s], s>> \in Good
    OBVIOUS
  <2>1. s = {}
    BY <1>1, FS_EmptySet
  <2> QED BY <1>2, <2>1
<1>4. ASSUME NEW k \in Nat, k \in J PROVE k + 1 \in J
  <2> SUFFICES ASSUME NEW s \in SUBSET S, Cardinality(s) <= k + 1 PROVE <<f[s], s>> \in Good
    OBVIOUS
  <2>1. CASE s = {}
    BY <1>2, <2>1
  <2>2. CASE s # {}
    <3> DEFINE c == Chosen(kind, s)
               u == s \ {c}
    <3>1. c \in s /\ u \in SUBSET S /\ c \in S /\ c \notin u /\ s = u \cup {c}
      BY <2>2
    <3>2. f[s] = Body(kind, env, f[u], Item(kind, seq, c))
      BY <1>2, <2>2
    <3> HIDE DEF c
    <3>3. Cardinality(u) = Cardinality(s) - 1 /\ Cardinality(u) \in Nat
      BY <1>1, <3>1, FS_RemoveElement
    <3>4. Cardinality(u) <= k
      BY <1>1, <3>3
    <3> HIDE DEF u
    <3>5. <<f[u], u>> \in Good
      BY <1>4, <3>1, <3>4
    <3>6. <<Body(kind, env, f[u], Item(kind, seq, c)), u \cup {c}>> \in Good
      BY <3>1, <3>5
    <3> QED BY <3>1, <3>2, <3>6
  <2> QED BY <2>1, <2>2
<1>5. Nat \subseteq J
  <2> HIDE DEF J
  <2> QED BY <1>3, <1>4, NatSetInduction
<1>6. Cardinality(S) \in J /\ Cardinality(S) <= Cardinality(S)
  BY <1>5, FS_CardinalityType
<1> QED BY <1>6

\* n is m with the values of the names in s given to the outermost scope.
MergesSome(n, m, t, s) ==
    /\ Merges(n, m, t)
    /\ \A p \in 1..Len(m.labels) : (\A x \in s : p # m.scopes[1][x]) => n.labels[p] = m.labels[p]
    /\ \A x \in s : Defined(n, m.scopes[1][x])
    /\ IF n.err = "none" THEN \A x \in s : ~Given(m, 1, x)
       ELSE n.err = "already defined" /\ \E x \in s : Given(m, 1, x)

\* One name more is merged.
LEMMA MergeOne ==
    ASSUME NEW m, NEW t, MemSound(m, t), Apart(m), NEW s, NEW acc, acc \in Memory, MergesSome(acc, m, t, s),
           NEW x, x \notin s, x \in DOMAIN m.scopes[1], s \subseteq DOMAIN m.scopes[1],
           NEW v \in Exprs, v.lab \in 0..Len(m.labels)
    PROVE  LET n == Define(acc, m.scopes[1][x], v) IN n \in Memory /\ MergesSome(n, m, t, s \cup {x})
<1> DEFINE a == m.scopes[1][x]
           L == Len(m.labels)
           n == Define(acc, a, v)
<1>1. 1 \in 1..Len(m.scopes)
  BY Facts
<1>2. a \in 1..L /\ \A y \in s : m.scopes[1][y] \in 1..L /\ m.scopes[1][y] # a
  BY <1>1 DEF MemSound, NamesSound, ScopesName, Apart
<1>3. Merges(acc, m, t) /\ Len(acc.labels) = L /\ MemSound(acc, t)
  BY DEF MergesSome, Merges
<1> HIDE DEF a
<1>4. /\ MemSound(n, t) /\ Kept(n, acc) /\ n.scopes = acc.scopes
      /\ Len(n.labels) = Len(acc.labels)
      /\ \A p \in 1..Len(acc.labels) : n.labels[p].local = acc.labels[p].local
      /\ n.err = "none" => acc.err = "none"
  <2>1. LET q == Define(acc, a, v) IN
        /\ MemSound(q, t) /\ Kept(q, acc) /\ q.scopes = acc.scopes
        /\ Len(q.labels) = Len(acc.labels)
        /\ \A p \in 1..Len(acc.labels) : q.labels[p].local = acc.labels[p].local
        /\ q.err = "none" => acc.err = "none"
    BY <1>2, <1>3, DefineSound
  <2> QED BY <2>1
<1>5. Values1(n, acc, a)
  BY <1>2, <1>3, DefineValues
<1> HIDE DEF n
<1>6. Merges(n, m, t)
  <2>1. Kept(n, m)
    BY <1>3, <1>4, GrowsOn DEF Merges, Kept, SameRest
  <2> QED BY <1>3, <1>4, <2>1 DEF Merges
<1>7. acc.labels[a] = m.labels[a]
  BY <1>2 DEF MergesSome
<1>8. Defined(acc, a) <=> Given(m, 1, x)
  BY <1>7 DEF Defined, Given, a
<1>9. /\ \A p \in 1..L : p # a => n.labels[p] = acc.labels[p]
      /\ Defined(n, a)
      /\ n.err = IF Defined(acc, a) /\ acc.err = "none" THEN "already defined" ELSE acc.err
  BY <1>3, <1>5 DEF Values1
<1>10. ASSUME NEW p \in 1..L, \A y \in s \cup {x} : p # m.scopes[1][y] PROVE n.labels[p] = m.labels[p]
  <2>1. p # a /\ \A y \in s : p # m.scopes[1][y]
    BY <1>10 DEF a
  <2> QED BY <1>9, <2>1 DEF MergesSome
<1>11. ASSUME NEW y \in s \cup {x} PROVE Defined(n, m.scopes[1][y])
  <2>1. CASE y = x
    BY <1>9, <2>1 DEF a
  <2>2. CASE y \in s
    <3>1. Defined(acc, m.scopes[1][y]) /\ n.labels[m.scopes[1][y]] = acc.labels[m.scopes[1][y]]
      BY <1>2, <1>9, <2>2 DEF MergesSome
    <3> QED BY <3>1 DEF Defined
  <2> QED BY <2>1, <2>2
<1>12. IF n.err = "none" THEN \A y \in s \cup {x} : ~Given(m, 1, y)
       ELSE n.err = "already defined" /\ \E y \in s \cup {x} : Given(m, 1, y)
  <2> DEFINE e == "already defined"
             z == "none"
  <2>1. IF acc.err = z THEN \A y \in s : ~Given(m, 1, y) ELSE acc.err = e /\ \E y \in s : Given(m, 1, y)
    BY DEF MergesSome
  <2>2. n.err = IF Defined(acc, a) /\ acc.err = z THEN e ELSE acc.err
    BY <1>9
  <2>3. e # z
    OBVIOUS
  <2> HIDE DEF e, z
  <2>4. IF n.err = z THEN \A y \in s \cup {x} : ~Given(m, 1, y)
        ELSE n.err = e /\ \E y \in s \cup {x} : Given(m, 1, y)
    BY <1>8, <2>1, <2>2, <2>3
  <2> QED BY <2>4 DEF e, z
<1>13. MergesSome(n, m, t, s \cup {x}) /\ n \in Memory
  BY <1>6, <1>10, <1>11, <1>12 DEF MergesSome, Merges, MemSound
<1> QED BY <1>13 DEF n, a

LEMMA MergedNames ==
    ASSUME NEW m, NEW t, MemSound(m, t), Apart(m), m.err = "none", NEW S, IsFiniteSet(S),
           \A x \in S : /\ x \in DOMAIN Here(m) /\ x \in DOMAIN m.scopes[1]
                        /\ Defined(m, Here(m)[x])
    PROVE  MergesSome(Merged(m, S), m, t, S)
<1> DEFINE L == Len(m.labels)
           Good == {p \in Memory \X SUBSET S : MergesSome(p[1], m, t, p[2])}
           Is(g) == g = [s \in SUBSET S |->
                 IF s = {} THEN m
                 ELSE Define(g[s \ {CHOOSE x \in s : TRUE}], m.scopes[1][CHOOSE x \in s : TRUE],
                             m.labels[Here(m)[CHOOSE x \in s : TRUE]].value)]
           f == CHOOSE g : Is(g)
<1>1. /\ m \in Memory /\ L \in Nat /\ m.labels \in Seq(Labels) /\ Rooted(m.labels)
      /\ Len(m.scopes) \in Nat /\ Len(m.scopes) >= 1
      /\ \A x \in DOMAIN Here(m) : Here(m)[x] \in 1..L
  BY Facts
<1>2. <<m, {}>> \in Good
  <2>1. Kept(m, m)
    BY <1>1, GrowsSame DEF Kept, SameRest
  <2>2. MergesSome(m, m, t, {})
    BY <1>1, <2>1 DEF Merges, MergesSome
  <2> QED BY <1>1, <2>2
<1>3. ASSUME NEW acc, NEW s, NEW x, <<acc, s>> \in Good, s \subseteq S, x \in S \ s
      PROVE  <<Body("define", m, acc, Item("define", 0, x)), s \cup {x}>> \in Good
  <2> DEFINE v == m.labels[Here(m)[x]].value
             n == Define(acc, m.scopes[1][x], v)
  <2>1. acc \in Memory /\ MergesSome(acc, m, t, s)
    BY <1>3
  <2>2. Body("define", m, acc, Item("define", 0, x)) = n
    BY DEF Body, Item
  <2>3. v \in Exprs /\ v.lab \in 0..L
    <3>1. Here(m)[x] \in 1..L /\ v # None
      BY <1>1, <1>3 DEF Defined
    <3>2. m.labels[Here(m)[x]] \in Labels
      BY <1>1, <3>1, ElementOfSeq
    <3>3. v \in Exprs
      BY <3>1, <3>2 DEF Labels, Values
    <3> QED BY <1>1, <3>1, <3>3 DEF Rooted
  <2>4. x \notin s /\ x \in DOMAIN m.scopes[1] /\ s \subseteq DOMAIN m.scopes[1]
    BY <1>3
  <2> HIDE DEF v
  <2>5. n \in Memory /\ MergesSome(n, m, t, s \cup {x})
    BY <2>1, <2>3, <2>4, MergeOne
  <2> HIDE DEF n
  <2>6. s \cup {x} \in SUBSET S
    BY <1>3
  <2>7. <<n, s \cup {x}>> \in Good
    BY <2>5, <2>6
  <2> QED BY <2>2, <2>7
<1> HIDE DEF Good
<1>4. \A s \in SUBSET S : s # {} => Chosen("define", s) \in s
  BY DEF Chosen
<1>5. \E g : Folding(g, "define", m, m, 0, S)
  <2> QED BY <1>4, FoldExists
<1>6. Merged(m, S) = f[S]
  BY DEF Merged, FoldSet, MapThenFoldSet
<1>7. \A g : Is(g) <=> Folding(g, "define", m, m, 0, S)
  BY DEF Folding, Body, Item, Chosen
<1>8. Is(f)
  <2> HIDE DEF Is
  <2>1. \E g : Is(g)
    BY <1>5, <1>7
  <2> QED BY <2>1
<1> HIDE DEF f, Is
<1>9. <<f[S], S>> \in Good
  <2>1. Folding(f, "define", m, m, 0, S)
    BY <1>7, <1>8
  <2> QED BY <1>2, <1>3, <1>4, <2>1, FoldHolds
<1>10. MergesSome(f[S], m, t, S)
  BY <1>9 DEF Good
<1> QED BY <1>6, <1>10

\* What ENDP leaves: the innermost scope is gone, and the outermost one has its
\* public names, each with its value.
Shared(m) == Public(m) \cap DOMAIN m.scopes[1]
Closes(n, m) ==
    LET k == Len(m.scopes) IN
    /\ Len(n.scopes) = k - 1 /\ \A d \in 2..(k - 1) : n.scopes[d] = m.scopes[d]
    /\ DOMAIN n.scopes[1] = DOMAIN m.scopes[1] \cup Public(m)
    /\ \A x \in DOMAIN m.scopes[1] : n.scopes[1][x] = m.scopes[1][x]
    /\ \A x \in Public(m) \ DOMAIN m.scopes[1] : n.scopes[1][x] = m.scopes[k][x]
    /\ n.waiting = m.waiting
    /\ \A p \in 1..Len(m.labels) :
         /\ n.labels[p].local = m.labels[p].local
         /\ (\A x \in Shared(m) : p # m.scopes[1][x]) => n.labels[p] = m.labels[p]
    /\ \A x \in Shared(m) : ~Given(m, 1, x) /\ Defined(n, m.scopes[1][x])
Exits(n, m) ==
    LET k == Len(m.scopes) IN
    IF k <= 1 THEN n.err = "ENDP without PROC"
    ELSE IF \E x \in DOMAIN m.scopes[k] : Local(m, k, x) /\ ~Given(m, k, x) THEN n.err = "undefined LOCAL"
    ELSE IF n.err = "none" THEN Closes(n, m)
    ELSE n.err = "already defined" /\ \E x \in Shared(m) : Given(m, 1, x)

LEMMA ExitProcExits ==
    ASSUME NEW m, NEW t, MemSound(m, t), Apart(m), m.err = "none",
           \A x \in Public(m) : x \in DOMAIN m.scopes[1] => Defined(m, Here(m)[x])
    PROVE  Exits(ExitProc(m), m)
<1> DEFINE L == Len(m.labels)
           D == Len(m.scopes)
           P == Public(m)
           S == P \cap DOMAIN m.scopes[1]
           lost == \E o \in {Here(m)[x] : x \in DOMAIN Here(m) \ P} : ~Defined(m, o)
           r == Merged(m, S)
           h == [x \in P |-> Here(m)[x]]
           sc == [Front(r.scopes) EXCEPT ![1] = Over(m.scopes[1], h)]
           q == [r EXCEPT !.scopes = sc]
           n == ExitProc(m)
<1>1. /\ m \in Memory /\ L \in Nat /\ m.labels \in Seq(Labels) /\ m.scopes \in Seq(Tables)
      /\ D \in Nat /\ D >= 1 /\ Here(m) = m.scopes[D]
      /\ \A x \in DOMAIN Here(m) : Here(m)[x] \in 1..L
  BY Facts
<1>2. n = IF D <= 1 THEN Error(m, "ENDP without PROC")
          ELSE IF lost THEN Error(m, "undefined LOCAL") ELSE q
  <2>1. [r EXCEPT !.scopes = [Front(@) EXCEPT ![1] = Over(m.scopes[1], h)]] = q
    OBVIOUS
  <2> QED BY <2>1 DEF ExitProc, Merged, Public
<1> HIDE DEF n
<1>3. ASSUME NEW e \in Messages, n = Error(m, e) PROVE n.err = e
  <2>1. Complains(Error(m, e), m, e)
    BY <1>1, ErrorFields
  <2> QED BY <1>3, <2>1 DEF Complains
<1>4. "ENDP without PROC" \in Messages /\ "undefined LOCAL" \in Messages
  BY DEF Messages
<1>5. lost <=> \E x \in DOMAIN m.scopes[D] : Local(m, D, x) /\ ~Given(m, D, x)
  <2>1. \A x : x \in DOMAIN Here(m) \ P <=> x \in DOMAIN m.scopes[D] /\ Local(m, D, x)
    BY <1>1 DEF Public, Local
  <2>2. \A x : Given(m, D, x) <=> Defined(m, Here(m)[x])
    BY <1>1 DEF Given
  <2> QED BY <2>1, <2>2
<1>6. ASSUME D <= 1 PROVE Exits(n, m)
  BY <1>2, <1>3, <1>4, <1>6 DEF Exits
<1>7. ASSUME ~(D <= 1), lost PROVE Exits(n, m)
  <2>1. n.err = "undefined LOCAL"
    <3>1. n = Error(m, "undefined LOCAL")
      BY <1>2, <1>7
    <3> QED BY <1>3, <1>4, <3>1
  <2> QED BY <1>5, <1>7, <2>1 DEF Exits
<1>8. ASSUME ~(D <= 1), ~lost PROVE Exits(n, m)
  <2>1. n = q
    BY <1>2, <1>8
  <2>2. P \subseteq DOMAIN Here(m) /\ IsFiniteSet(P)
    <3>1. IsFiniteSet(DOMAIN Here(m))
      BY <1>1 DEF MemSound, NamesSound, ScopesName
    <3>2. P \subseteq DOMAIN Here(m)
      BY DEF Public
    <3> QED BY <3>1, <3>2, FS_Subset
  <2> HIDE DEF lost, P
  <2>3. MergesSome(r, m, t, S)
    <3>1. IsFiniteSet(S)
      <4>1. S \subseteq P
        OBVIOUS
      <4> HIDE DEF S
      <4> QED BY <2>2, <4>1, FS_Subset
    <3>2. \A x \in S : x \in DOMAIN Here(m) /\ x \in DOMAIN m.scopes[1] /\ Defined(m, Here(m)[x])
      BY <2>2 DEF P
    <3> HIDE DEF S
    <3> QED BY <3>1, <3>2, MergedNames
  <2>4. S = Shared(m)
    BY DEF Shared, P
  <2> HIDE DEF r, S
  <2>5. r \in Memory /\ r.scopes = m.scopes /\ Len(r.labels) = L /\ r.waiting = m.waiting
        /\ \A p \in 1..L : r.labels[p].local = m.labels[p].local
    BY <2>3 DEF MergesSome, Merges, MemSound, Kept
  <2>6. h \in Tables /\ DOMAIN h = P /\ \A x \in P : h[x] = m.scopes[D][x]
    <3>1. h = [x \in DOMAIN h |-> h[x]] /\ DOMAIN h = P /\ \A x \in P : h[x] = Here(m)[x]
      OBVIOUS
    <3> HIDE DEF h
    <3>2. Here(m) \in Tables
      BY <1>1, ElementOfSeq
    <3>3. DOMAIN Here(m) \subseteq Keys /\ \A x \in DOMAIN Here(m) : Here(m)[x] \in Nat
      BY <3>2, PartialDef DEF Tables
    <3>4. DOMAIN h \subseteq Keys /\ \A x \in DOMAIN h : h[x] \in Nat
      BY <2>2, <3>1, <3>3
    <3> QED BY <1>1, <3>1, <3>4, PartialDef DEF Tables
  <2> HIDE DEF h
  <2> DEFINE fr == Front(m.scopes)
             ov == Over(m.scopes[1], h)
  <2>7. fr \in Seq(Tables) /\ Len(fr) = D - 1 /\ \A d \in 1..(D - 1) : fr[d] = m.scopes[d]
    BY <1>1, FrontOf
  <2>8. ov \in Tables /\ Joins(ov, m.scopes[1], h)
    <3>1. m.scopes[1] \in Tables
      BY <1>1, ElementOfSeq
    <3> QED BY <2>6, <3>1, OverIsTable DEF Tables
  <2>9. sc = [fr EXCEPT ![1] = ov]
    BY <2>5
  <2> HIDE DEF fr, ov, sc
  <2>10. /\ sc \in Seq(Tables) /\ Len(sc) = D - 1 /\ sc[1] = ov
         /\ \A d \in 2..(D - 1) : sc[d] = m.scopes[d]
    <3>1. 1 \in 1..Len(fr)
      BY <1>1, <1>8, <2>7
    <3>2. /\ sc \in Seq(Tables) /\ Len(sc) = Len(fr)
          /\ \A d \in 1..Len(fr) : sc[d] = IF d = 1 THEN ov ELSE fr[d]
      BY <2>7, <2>8, <2>9, <3>1, ExceptSeq
    <3>3. \A d \in 2..(D - 1) : d \in 1..Len(fr) /\ d # 1
      BY <1>1, <2>7
    <3> QED BY <2>7, <3>1, <3>2, <3>3
  <2>11. q.scopes = sc /\ q.labels = r.labels /\ q.waiting = r.waiting /\ q.err = r.err
    BY <2>5 DEF Memory
  <2> HIDE DEF q
  <2>12. /\ DOMAIN sc[1] = DOMAIN m.scopes[1] \cup P
         /\ \A x \in DOMAIN m.scopes[1] : sc[1][x] = m.scopes[1][x]
         /\ \A x \in P \ DOMAIN m.scopes[1] : sc[1][x] = m.scopes[D][x]
    BY <2>6, <2>8, <2>10 DEF Joins
  <2>13. ASSUME q.err = "none" PROVE Closes(q, m)
    <3>1. \A p \in 1..L : (\A x \in S : p # m.scopes[1][x]) => q.labels[p] = m.labels[p]
      BY <2>3, <2>11 DEF MergesSome
    <3>2. \A x \in S : ~Given(m, 1, x) /\ Defined(q, m.scopes[1][x])
      BY <2>3, <2>11, <2>13 DEF MergesSome, Defined
    <3>3. \A p \in 1..L : q.labels[p].local = m.labels[p].local
      BY <2>5, <2>11
    <3>4. /\ Len(q.scopes) = D - 1 /\ q.waiting = m.waiting
          /\ \A d \in 2..(D - 1) : q.scopes[d] = m.scopes[d]
      BY <2>5, <2>10, <2>11
    <3>5. /\ DOMAIN q.scopes[1] = DOMAIN m.scopes[1] \cup Public(m)
          /\ \A x \in DOMAIN m.scopes[1] : q.scopes[1][x] = m.scopes[1][x]
          /\ \A x \in Public(m) \ DOMAIN m.scopes[1] : q.scopes[1][x] = m.scopes[D][x]
      BY <2>11, <2>12 DEF P
    <3> QED BY <2>4, <3>1, <3>2, <3>3, <3>4, <3>5 DEF Closes
  <2>14. q.err = "none" \/ (q.err = "already defined" /\ \E x \in Shared(m) : Given(m, 1, x))
    BY <2>3, <2>4, <2>11 DEF MergesSome
  <2>15. ~(\E x \in DOMAIN m.scopes[D] : Local(m, D, x) /\ ~Given(m, D, x))
    BY <1>5, <1>8
  <2> HIDE DEF D
  <2>16. IF q.err = "none" THEN Closes(q, m)
         ELSE q.err = "already defined" /\ \E x \in Shared(m) : Given(m, 1, x)
    BY <2>13, <2>14
  <2>17. Exits(q, m)
    BY <1>8, <2>15, <2>16 DEF Exits, D
  <2> QED BY <2>1, <2>17
<1>9. Exits(n, m)
  BY <1>6, <1>7, <1>8
<1> QED BY <1>9 DEF n

\* The scopes after ENDP: those in between as they were; a name of the outermost
\* scope has a value if it had one there or the PROC gave it one.
ClosesScopes(n, m) ==
    LET k == Len(m.scopes) IN
    /\ \A d \in 2..(k - 1) : \A x \in DOMAIN m.scopes[d] :
         Local(n, d, x) = Local(m, d, x) /\ Given(n, d, x) = Given(m, d, x)
    /\ \A x \in DOMAIN m.scopes[1] :
         /\ x \in DOMAIN n.scopes[1] /\ Local(n, 1, x) = Local(m, 1, x)
         /\ Given(n, 1, x) <=> Given(m, 1, x) \/ x \in Public(m)
         /\ x \in Public(m) => ~Given(m, 1, x)
    /\ \A x \in Public(m) \ DOMAIN m.scopes[1] :
         /\ x \in DOMAIN n.scopes[1] /\ ~Local(n, 1, x)
         /\ Given(n, 1, x) <=> Given(m, k, x)
    /\ \A x \in DOMAIN n.scopes[1] : x \in DOMAIN m.scopes[1] \/ x \in Public(m)
    /\ \A x : x \in Public(m) <=> x \in DOMAIN m.scopes[k] /\ ~Local(m, k, x)

LEMMA ScopesClose ==
    ASSUME NEW m, NEW t, MemSound(m, t), Apart(m), Len(m.scopes) > 1, NEW n, Closes(n, m)
    PROVE  ClosesScopes(n, m) /\ Apart(n)
<1> DEFINE k == Len(m.scopes)
           L == Len(m.labels)
<1>1. k \in Nat /\ 1 \in 1..k /\ k \in 1..k /\ Here(m) = m.scopes[k] /\ \A d \in 2..(k - 1) : d \in 1..k /\ d # 1 /\ d # k
  BY Facts
<1>2. k # 1
  BY <1>1
<1>3. /\ \A d \in 1..k : \A x \in DOMAIN m.scopes[d] : m.scopes[d][x] \in 1..L
      /\ \A d \in 1..k : \A x \in DOMAIN m.scopes[d] :
            /\ \A e \in 1..k : \A y \in DOMAIN m.scopes[e] : m.scopes[d][x] = m.scopes[e][y] => d = e /\ x = y
            /\ \A j \in 1..Len(m.waiting) : m.scopes[d][x] # m.waiting[j]
  BY DEF MemSound, NamesSound, ScopesName, Apart
<1>4. /\ Len(n.scopes) = k - 1 /\ \A d \in 2..(k - 1) : n.scopes[d] = m.scopes[d]
      /\ DOMAIN n.scopes[1] = DOMAIN m.scopes[1] \cup Public(m)
      /\ \A x \in DOMAIN m.scopes[1] : n.scopes[1][x] = m.scopes[1][x]
      /\ \A x \in Public(m) \ DOMAIN m.scopes[1] : n.scopes[1][x] = m.scopes[k][x]
      /\ n.waiting = m.waiting
      /\ \A p \in 1..L :
           /\ n.labels[p].local = m.labels[p].local
           /\ (\A x \in Shared(m) : p # m.scopes[1][x]) => n.labels[p] = m.labels[p]
      /\ \A x \in Shared(m) : ~Given(m, 1, x) /\ Defined(n, m.scopes[1][x])
  BY DEF Closes
<1>5. \A x : x \in Public(m) <=> x \in DOMAIN m.scopes[k] /\ ~Local(m, k, x)
  BY <1>1 DEF Public, Local
<1>6. \A x \in Shared(m) : x \in DOMAIN m.scopes[1] /\ x \in Public(m)
  BY DEF Shared
<1>7. \A x \in DOMAIN m.scopes[1] : x \in Public(m) => x \in Shared(m)
  BY DEF Shared
<1> HIDE DEF k, L
<1>8. ASSUME NEW d \in 1..k, NEW x \in DOMAIN m.scopes[d], d # 1 \/ x \notin Public(m)
      PROVE  n.labels[m.scopes[d][x]] = m.labels[m.scopes[d][x]]
  <2>1. \A y \in Shared(m) : m.scopes[d][x] # m.scopes[1][y]
    BY <1>1, <1>3, <1>6, <1>8
  <2> QED BY <1>3, <1>4, <2>1
<1>9. ASSUME NEW d \in 2..(k - 1), NEW x \in DOMAIN m.scopes[d]
      PROVE  Local(n, d, x) = Local(m, d, x) /\ Given(n, d, x) = Given(m, d, x)
  <2>1. n.labels[m.scopes[d][x]] = m.labels[m.scopes[d][x]] /\ n.scopes[d] = m.scopes[d]
    BY <1>1, <1>4, <1>8
  <2> QED BY <2>1 DEF Local, Given, Defined
<1>10. ASSUME NEW x \in DOMAIN m.scopes[1]
       PROVE  /\ x \in DOMAIN n.scopes[1] /\ Local(n, 1, x) = Local(m, 1, x)
              /\ Given(n, 1, x) <=> Given(m, 1, x) \/ x \in Public(m)
              /\ x \in Public(m) => ~Given(m, 1, x)
  <2>1. x \in DOMAIN n.scopes[1] /\ n.scopes[1][x] = m.scopes[1][x] /\ m.scopes[1][x] \in 1..L
    BY <1>1, <1>3, <1>4
  <2>2. Local(n, 1, x) = Local(m, 1, x)
    BY <1>4, <2>1 DEF Local
  <2>3. CASE x \in Public(m)
    <3>1. ~Given(m, 1, x) /\ Defined(n, m.scopes[1][x])
      BY <1>4, <1>7, <2>3
    <3> QED BY <2>1, <2>2, <2>3, <3>1 DEF Given
  <2>4. CASE x \notin Public(m)
    <3>1. n.labels[m.scopes[1][x]] = m.labels[m.scopes[1][x]]
      BY <1>1, <1>8, <2>4
    <3>2. Given(n, 1, x) <=> Given(m, 1, x)
      BY <2>1, <3>1 DEF Given, Defined
    <3> QED BY <2>1, <2>2, <2>4, <3>2
  <2> QED BY <2>3, <2>4
<1>11. ASSUME NEW x \in Public(m) \ DOMAIN m.scopes[1]
       PROVE  /\ x \in DOMAIN n.scopes[1] /\ ~Local(n, 1, x)
              /\ Given(n, 1, x) <=> Given(m, k, x)
  <2>1. x \in DOMAIN n.scopes[1] /\ n.scopes[1][x] = m.scopes[k][x] /\ x \in DOMAIN m.scopes[k] /\ ~Local(m, k, x)
    BY <1>4, <1>5
  <2>2. n.labels[m.scopes[k][x]] = m.labels[m.scopes[k][x]]
    BY <1>1, <1>2, <1>8, <2>1 DEF k
  <2> QED BY <2>1, <2>2 DEF Local, Given, Defined
<1>12. \A x \in DOMAIN n.scopes[1] : x \in DOMAIN m.scopes[1] \/ x \in Public(m)
  BY <1>4
<1>13. ClosesScopes(n, m)
  BY <1>5, <1>9, <1>10, <1>11, <1>12 DEF ClosesScopes, k
<1>14. Apart(n)
  <2>1. ASSUME NEW d \in 1..(k - 1), NEW x \in DOMAIN n.scopes[d]
        PROVE  \E e \in 1..k : /\ x \in DOMAIN m.scopes[e] /\ n.scopes[d][x] = m.scopes[e][x]
                               /\ e = d \/ (e = k /\ d = 1 /\ x \notin DOMAIN m.scopes[1])
    <3>1. CASE d = 1
      <4>1. CASE x \in DOMAIN m.scopes[1]
        BY <1>1, <1>4, <3>1, <4>1
      <4>2. CASE x \notin DOMAIN m.scopes[1]
        <5>1. x \in Public(m)
          BY <1>12, <3>1, <4>2
        <5>2. x \in DOMAIN m.scopes[k] /\ n.scopes[1][x] = m.scopes[k][x]
          BY <1>4, <1>5, <4>2, <5>1
        <5> QED BY <1>1, <3>1, <4>2, <5>2 DEF k
      <4> QED BY <4>1, <4>2
    <3>2. CASE d # 1
      <4>1. d \in 2..(k - 1)
        BY <1>1, <3>2 DEF k
      <4>2. n.scopes[d] = m.scopes[d] /\ d \in 1..k
        BY <1>1, <1>4, <4>1
      <4> QED BY <4>2
    <3> QED BY <3>1, <3>2
  <2>2. \A d \in 1..(k - 1) : d # k
    BY <1>1 DEF k
  <2>3. ASSUME NEW d \in 1..(k - 1), NEW x \in DOMAIN n.scopes[d],
               NEW e \in 1..(k - 1), NEW y \in DOMAIN n.scopes[e], n.scopes[d][x] = n.scopes[e][y]
        PROVE  d = e /\ x = y
    <3>1. PICK d1 \in 1..k : /\ x \in DOMAIN m.scopes[d1] /\ n.scopes[d][x] = m.scopes[d1][x]
                             /\ d1 = d \/ (d1 = k /\ d = 1 /\ x \notin DOMAIN m.scopes[1])
      BY <2>1
    <3>2. PICK e1 \in 1..k : /\ y \in DOMAIN m.scopes[e1] /\ n.scopes[e][y] = m.scopes[e1][y]
                             /\ e1 = e \/ (e1 = k /\ e = 1 /\ y \notin DOMAIN m.scopes[1])
      BY <2>1
    <3>3. m.scopes[d1][x] = m.scopes[e1][y]
      BY <2>3, <3>1, <3>2
    <3>4. d1 = e1 /\ x = y
      BY <1>3, <3>1, <3>2, <3>3
    <3> QED BY <2>2, <3>1, <3>2, <3>4
  <2>4. ASSUME NEW d \in 1..(k - 1), NEW x \in DOMAIN n.scopes[d], NEW j \in 1..Len(n.waiting)
        PROVE  n.scopes[d][x] # n.waiting[j]
    <3>1. PICK d1 \in 1..k : x \in DOMAIN m.scopes[d1] /\ n.scopes[d][x] = m.scopes[d1][x]
      BY <2>1
    <3> QED BY <1>3, <1>4, <3>1
  <2> QED BY <1>4, <2>3, <2>4 DEF Apart
<1> QED BY <1>13, <1>14

\* The PROCs that stay open after the innermost one has ended.
StackCloses(o, c) ==
    LET k == Len(o) IN
    /\ k \in Nat /\ k > 1 /\ k \in 1..k /\ 1 \in 1..(k - 1) /\ \A d \in 1..(k - 1) : d \in 1..k /\ d # k
    /\ Len(c) = k - 1 /\ \A d \in 1..(k - 1) : c[d] = o[d]
    /\ \A p : p \in ToSet(c) <=> p \in ToSet(o) /\ p # o[k]
    /\ o[1] = 0 /\ o[k] # 0 /\ o[k] \in Nat /\ 0 \in ToSet(c)
    /\ \A d \in 1..k : (o[d] = 0 => d = 1) /\ (o[d] = o[k] => d = k)

LEMMA StackFront ==
    ASSUME NEW o, NEW j, OpenStack(o, j), Len(o) > 1
    PROVE  StackCloses(o, Front(o))
<1> DEFINE k == Len(o)
           c == Front(o)
<1>1. /\ o \in Seq(Nat) /\ k \in Nat /\ o[1] = 0 /\ \A d, e \in 1..k : d < e => o[d] < o[e]
      /\ k > 1
  BY DEF OpenStack
<1>2. c \in Seq(Nat) /\ Len(c) = k - 1 /\ \A d \in 1..(k - 1) : c[d] = o[d]
  BY <1>1, FrontOf
<1>3. DOMAIN o = 1..k /\ DOMAIN c = 1..(k - 1)
  BY <1>1, <1>2
<1> HIDE DEF k, c
<1>4. /\ k \in 1..k /\ 1 \in 1..(k - 1) /\ 1 \in 1..k /\ \A d \in 1..(k - 1) : d \in 1..k /\ d # k /\ d < k
      /\ \A d \in 1..k : d = k \/ d \in 1..(k - 1)
  BY <1>1
<1>5. \A d \in 1..k : o[d] \in Nat
  BY <1>1, ElementOfSeq DEF k
<1>6. \A d, e \in 1..k : o[d] = o[e] => d = e
  <2> SUFFICES ASSUME NEW d \in 1..k, NEW e \in 1..k, o[d] = o[e], d # e PROVE FALSE
    OBVIOUS
  <2>1. d < e \/ e < d
    BY <1>1
  <2> QED BY <1>1, <1>5, <2>1
<1>7. \A p : p \in ToSet(c) <=> p \in ToSet(o) /\ p # o[k]
  <2>1. /\ \A p : p \in ToSet(o) <=> \E d \in 1..k : p = o[d]
        /\ \A p : p \in ToSet(c) <=> \E d \in 1..(k - 1) : p = c[d]
    BY <1>3 DEF ToSet
  <2>2. ASSUME NEW p \in ToSet(c) PROVE p \in ToSet(o) /\ p # o[k]
    <3>1. PICK d \in 1..(k - 1) : p = c[d]
      BY <2>1
    <3> QED BY <1>2, <1>4, <1>6, <2>1, <3>1
  <2>3. ASSUME NEW p \in ToSet(o), p # o[k] PROVE p \in ToSet(c)
    <3>1. PICK d \in 1..k : p = o[d]
      BY <2>1
    <3>2. d \in 1..(k - 1)
      BY <1>4, <2>3, <3>1
    <3> QED BY <1>2, <2>1, <3>1, <3>2
  <2> QED BY <2>2, <2>3
<1>8. o[k] # 0 /\ o[k] \in Nat
  BY <1>1, <1>4, <1>5, <1>6
<1>9. 0 \in ToSet(c)
  <2>1. 1 \in DOMAIN c /\ c[1] = 0
    BY <1>1, <1>2, <1>3, <1>4
  <2> QED BY <2>1 DEF ToSet
<1>10. \A d \in 1..k : (o[d] = 0 => d = 1) /\ (o[d] = o[k] => d = k)
  BY <1>1, <1>4, <1>6
<1>11. StackCloses(o, c)
  BY <1>1, <1>2, <1>4, <1>7, <1>8, <1>9, <1>10 DEF StackCloses, k
<1> QED BY <1>11 DEF c

\* The definitions of the PROC that ends are seated in the outermost scope now.
LEMMA SeatCloses ==
    ASSUME NEW o, NEW c, StackCloses(o, c), NEW t, NEW i
    PROVE  Seat(t, c, i) = IF Seat(t, o, i) = o[Len(o)] THEN 0 ELSE Seat(t, o, i)
<1>1. \A p : p \in ToSet(c) <=> p \in ToSet(o) /\ p # o[Len(o)]
  BY DEF StackCloses
<1>2. o[Len(o)] # 0
  BY DEF StackCloses
<1> QED BY <1>1, <1>2 DEF Seat

LEMMA ClosesNames ==
    ASSUME NEW t \in Texts, NEW o, NEW c, StackCloses(o, c),
           NEW m, MemSound(m, t), NEW D, NEW U, D \subseteq Definitions(t), NamesOf(m, t, o, D, U),
           \A x \in Shared(m) : Given(m, Len(o), x), NEW n, Closes(n, m)
    PROVE  NamesOf(n, t, c, D, U)
<1> DEFINE k == Len(o)
<1>1. /\ k \in Nat /\ k > 1 /\ k \in 1..k /\ 1 \in 1..(k - 1) /\ \A d \in 1..(k - 1) : d \in 1..k /\ d # k
      /\ Len(c) = k - 1 /\ \A d \in 1..(k - 1) : c[d] = o[d]
      /\ o[1] = 0 /\ o[k] # 0 /\ o[k] \in Nat
      /\ \A d \in 1..k : (o[d] = 0 => d = 1) /\ (o[d] = o[k] => d = k)
  BY DEF StackCloses
<1>2. /\ Len(m.scopes) = k /\ Scoped(m, t, o) /\ Here(m) = m.scopes[k]
      /\ Apart(m) /\ Entries(m, t, o, D) /\ Definers(m, t, o, D) /\ Users(m, t, o, U)
  BY Facts DEF NamesOf, Scoped
<1>3. \A i : Seat(t, c, i) = IF Seat(t, o, i) = o[k] THEN 0 ELSE Seat(t, o, i)
  BY SeatCloses
<1>4. Len(n.scopes) = k - 1
  BY <1>2 DEF Closes
<1>5. ClosesScopes(n, m) /\ Apart(n)
  BY <1>1, <1>2, ScopesClose
<1>6. /\ \A d \in 2..(k - 1) : \A x \in DOMAIN m.scopes[d] :
           Local(n, d, x) = Local(m, d, x) /\ Given(n, d, x) = Given(m, d, x)
      /\ \A x \in DOMAIN m.scopes[1] :
           /\ x \in DOMAIN n.scopes[1] /\ Local(n, 1, x) = Local(m, 1, x)
           /\ Given(n, 1, x) <=> Given(m, 1, x) \/ x \in Public(m)
           /\ x \in Public(m) => ~Given(m, 1, x)
      /\ \A x \in Public(m) \ DOMAIN m.scopes[1] :
           /\ x \in DOMAIN n.scopes[1] /\ ~Local(n, 1, x)
           /\ Given(n, 1, x) <=> Given(m, k, x)
      /\ \A x \in DOMAIN n.scopes[1] : x \in DOMAIN m.scopes[1] \/ x \in Public(m)
      /\ \A x : x \in Public(m) <=> x \in DOMAIN m.scopes[k] /\ ~Local(m, k, x)
  BY <1>2, <1>5 DEF ClosesScopes
<1>7. \A d \in 2..(k - 1) : n.scopes[d] = m.scopes[d]
  BY <1>2 DEF Closes
<1>8. \A x \in DOMAIN m.scopes[1] : x \in Public(m) => Given(m, k, x)
  BY DEF Shared
<1>9. \A x \in DOMAIN m.scopes[1] : ~Local(m, 1, x)
  BY <1>1, <1>2 DEF Scoped
<1>10. \A d \in 1..(k - 1) : d = 1 \/ d \in 2..(k - 1)
  BY <1>1
<1>11. \A d \in 1..k : d \in 1..(k - 1) \/ d = k
  BY <1>1
<1> HIDE DEF k
<1>12. \A x \in DOMAIN n.scopes[1] : ~Local(n, 1, x)
  BY <1>6, <1>9
\* A public definition of the PROC that ends has given a public name its value.
<1>13. ASSUME NEW i \in D, Seat(t, o, i) = o[k], OwnerOf(t, i) = 0
       PROVE  NameOf(t, i) \in Public(m) /\ Given(m, k, NameOf(t, i))
  <2> DEFINE x == NameOf(t, i)
  <2>1. Seated(m, t, o, i)
    BY <1>2 DEF Definers
  <2>2. x \in DOMAIN m.scopes[k] /\ Given(m, k, x)
    BY <1>1, <1>13, <2>1 DEF Seated, k
  <2>3. ASSUME Local(m, k, x) PROVE FALSE
    <3>1. x \in Locals(t, o[k])
      BY <1>1, <1>2, <2>2, <2>3 DEF Scoped, k
    <3>2. i \in 1..(Len(t) + 1)
      BY LinesAre
    <3>3. Last(Opens(t)[i]) = o[k]
      BY <1>1, <1>13 DEF Seat
    <3>4. o[k] \in ToSet(Opens(t)[i])
      BY <3>2, <3>3, LineFacts
    <3>5. OwnerFor(t, Opens(t)[i], x, Owner(t, i, x))
      BY <3>2, OwnerIs
    <3>6. o[k] <= 0
      BY <1>13, <3>1, <3>4, <3>5 DEF OwnerFor, OwnerOf
    <3> QED BY <1>1, <3>6
  <2> QED BY <1>6, <2>2, <2>3
<1>14. Scoped(n, t, c)
  <2>1. ASSUME NEW d \in 1..(k - 1), NEW x \in DOMAIN n.scopes[d], Local(n, d, x)
        PROVE  d > 1 /\ x \in Locals(t, c[d])
    <3>1. d \in 2..(k - 1)
      BY <1>10, <1>12, <2>1
    <3>2. x \in DOMAIN m.scopes[d] /\ Local(m, d, x)
      BY <1>6, <1>7, <2>1, <3>1
    <3>3. d > 1 /\ x \in Locals(t, o[d])
      BY <1>1, <1>2, <3>2 DEF Scoped, k
    <3> QED BY <1>1, <3>3
  <2>2. ASSUME NEW d \in 2..(k - 1), NEW x \in Locals(t, c[d]) PROVE x \in DOMAIN n.scopes[d] /\ Local(n, d, x)
    <3>1. d \in 1..(k - 1) /\ d \in 2..k
      BY <1>1 DEF k
    <3>2. x \in Locals(t, o[d])
      BY <1>1, <3>1
    <3>3. x \in DOMAIN m.scopes[d] /\ Local(m, d, x)
      BY <1>2, <3>1, <3>2 DEF Scoped, k
    <3> QED BY <1>6, <1>7, <3>3
  <2> QED BY <1>1, <1>4, <2>1, <2>2 DEF Scoped
<1>15. Entries(n, t, c, D)
  <2>1. ASSUME NEW d \in 2..(k - 1), NEW x \in DOMAIN n.scopes[d] PROVE Entry(n, t, c, D, d, x)
    <3>1. x \in DOMAIN m.scopes[d] /\ Local(n, d, x) = Local(m, d, x) /\ Given(n, d, x) = Given(m, d, x)
      BY <1>6, <1>7
    <3>2. d \in 1..(k - 1) /\ d \in 1..k /\ d # k /\ d # 1
      BY <1>1 DEF k
    <3>3. Entry(m, t, o, D, d, x)
      BY <1>2, <3>1, <3>2 DEF Entries, k
    <3>4. o[d] # o[k] /\ c[d] = o[d]
      BY <1>1, <3>2
    <3>5. \A i \in D : \A w : DefinedAt(t, o, i, x, w, o[d]) => DefinedAt(t, c, i, x, w, c[d])
      BY <1>3, <3>4 DEF DefinedAt
    <3>6. OwnerIn(n, c, d, x) = OwnerIn(m, o, d, x)
      BY <3>1, <3>4 DEF OwnerIn
    <3> QED BY <3>1, <3>3, <3>5, <3>6 DEF Entry
  <2>2. ASSUME NEW x \in DOMAIN n.scopes[1] PROVE Entry(n, t, c, D, 1, x)
    <3>1. ~Local(n, 1, x) /\ OwnerIn(n, c, 1, x) = 0 /\ c[1] = 0
      BY <1>1, <1>12 DEF OwnerIn
    <3>2. \A i \in D : DefinedAt(t, o, i, x, 0, 0) \/ DefinedAt(t, o, i, x, 0, o[k]) => DefinedAt(t, c, i, x, 0, 0)
      BY <1>1, <1>3 DEF DefinedAt
    <3>3. CASE x \in Public(m)
      <4>1. Entry(m, t, o, D, k, x) /\ OwnerIn(m, o, k, x) = 0 /\ ~Local(m, k, x)
        BY <1>1, <1>2, <1>6, <3>3 DEF Entries, OwnerIn, k
      <4>2. Given(m, k, x) => \E i \in D : DefinedAt(t, c, i, x, 0, 0)
        BY <3>2, <4>1 DEF Entry
      <4>3. Given(n, 1, x) <=> Given(m, k, x)
        BY <1>6, <1>8, <3>3
      <4>4. ~Given(m, k, x) => UsesOf(t, x) # {}
        BY <4>1 DEF Entry
      <4> QED BY <3>1, <4>2, <4>3, <4>4 DEF Entry
    <3>4. CASE x \notin Public(m)
      <4>1. x \in DOMAIN m.scopes[1] /\ (Given(n, 1, x) <=> Given(m, 1, x)) /\ ~Local(m, 1, x)
        BY <1>6, <1>9, <3>4
      <4>2. Entry(m, t, o, D, 1, x) /\ OwnerIn(m, o, 1, x) = 0 /\ o[1] = 0
        BY <1>1, <1>2, <4>1 DEF Entries, OwnerIn, k
      <4>3. Given(m, 1, x) => \E i \in D : DefinedAt(t, c, i, x, 0, 0)
        BY <3>2, <4>2 DEF Entry
      <4>4. ~Given(m, 1, x) => UsesOf(t, x) # {}
        BY <4>1, <4>2 DEF Entry
      <4> QED BY <3>1, <4>1, <4>3, <4>4 DEF Entry
    <3> QED BY <3>3, <3>4
  <2>3. \A d \in 1..(k - 1) : \A x \in DOMAIN n.scopes[d] : Entry(n, t, c, D, d, x)
    BY <1>10, <2>1, <2>2
  <2> QED BY <1>1, <2>3 DEF Entries
<1>16. ASSUME NEW i \in D PROVE Seated(n, t, c, i)
  <2> DEFINE x == NameOf(t, i)
  <2>1. Seated(m, t, o, i)
    BY <1>2 DEF Definers
  <2>2. ASSUME NEW d \in 2..(k - 1), c[d] = Seat(t, c, i), c[d] # 0 \/ OwnerOf(t, i) = 0
        PROVE  x \in DOMAIN n.scopes[d] /\ Given(n, d, x)
    <3>1. d \in 1..(k - 1) /\ d \in 1..k /\ d # 1
      BY <1>1 DEF k
    <3>2. c[d] = o[d] /\ o[d] # 0
      BY <1>1, <3>1
    <3>3. Seat(t, o, i) = o[d]
      BY <1>3, <2>2, <3>2
    <3>4. x \in DOMAIN m.scopes[d] /\ Given(m, d, x)
      BY <2>1, <3>1, <3>2, <3>3 DEF Seated, k
    <3> QED BY <1>6, <1>7, <3>4
  <2>3. ASSUME Seat(t, c, i) = 0, OwnerOf(t, i) = 0 PROVE x \in DOMAIN n.scopes[1] /\ Given(n, 1, x)
    <3>1. CASE Seat(t, o, i) = o[k]
      <4>1. x \in Public(m) /\ Given(m, k, x)
        BY <1>13, <2>3, <3>1
      <4> QED BY <1>6, <4>1
    <3>2. CASE Seat(t, o, i) # o[k]
      <4>1. Seat(t, o, i) = o[1] /\ 1 \in 1..k
        BY <1>1, <1>3, <2>3, <3>2
      <4>2. x \in DOMAIN m.scopes[1] /\ Given(m, 1, x)
        BY <2>1, <2>3, <4>1 DEF Seated, k
      <4> QED BY <1>6, <4>2
    <3> QED BY <3>1, <3>2
  <2>4. ASSUME NEW d \in 1..(k - 1), c[d] = Seat(t, c, i), c[d] # 0 \/ OwnerOf(t, i) = 0
        PROVE  x \in DOMAIN n.scopes[d] /\ Given(n, d, x)
    <3>1. CASE d = 1
      <4>1. c[d] = 0
        BY <1>1, <3>1
      <4> QED BY <2>3, <2>4, <3>1, <4>1
    <3>2. CASE d \in 2..(k - 1)
      BY <2>2, <2>4, <3>2
    <3> QED BY <1>10, <3>1, <3>2
  <2> QED BY <1>1, <2>4 DEF Seated
<1>17. ASSUME NEW i \in D, NEW j \in D, NameOf(t, i) = NameOf(t, j), OwnerOf(t, i) = OwnerOf(t, j),
              Seat(t, o, i) = o[k], Seat(t, o, j) = 0
       PROVE  FALSE
  <2> DEFINE x == NameOf(t, i)
  <2>1. CASE OwnerOf(t, i) = 0
    <3>1. x \in Public(m)
      BY <1>13, <1>17, <2>1
    <3>2. Seated(m, t, o, j) /\ 1 \in 1..k /\ o[1] = 0
      BY <1>1, <1>2 DEF Definers
    <3>3. x \in DOMAIN m.scopes[1] /\ Given(m, 1, x)
      BY <1>17, <2>1, <3>2 DEF Seated, k
    <3> QED BY <1>6, <3>1, <3>3
  <2>2. CASE OwnerOf(t, i) # 0
    <3>1. OwnerOf(t, i) \in {0, Last(Opens(t)[i])} /\ OwnerOf(t, j) \in {0, Last(Opens(t)[j])}
      BY <1>2 DEF Definers
    <3>2. Last(Opens(t)[i]) = Last(Opens(t)[j])
      BY <1>17, <2>2, <3>1
    <3> QED BY <1>1, <1>17, <3>2 DEF Seat
  <2> QED BY <2>1, <2>2
<1>18. Definers(n, t, c, D)
  <2>1. ASSUME NEW i \in D, NEW j \in D, NameOf(t, i) = NameOf(t, j), OwnerOf(t, i) = OwnerOf(t, j),
               Seat(t, c, i) = Seat(t, c, j)
        PROVE  i = j
    <3>1. \/ Seat(t, o, i) = Seat(t, o, j) \/ (Seat(t, o, i) = o[k] /\ Seat(t, o, j) = 0)
          \/ (Seat(t, o, j) = o[k] /\ Seat(t, o, i) = 0)
      BY <1>3, <2>1
    <3>2. Seat(t, o, i) = Seat(t, o, j)
      BY <1>17, <2>1, <3>1
    <3> QED BY <1>2, <2>1, <3>2 DEF Definers
  <2>2. \A i \in D : OwnerOf(t, i) \in {0, Last(Opens(t)[i])}
    BY <1>2 DEF Definers
  <2> QED BY <1>16, <2>1, <2>2 DEF Definers
<1>19. Users(n, t, c, U)
  <2>1. ASSUME NEW i \in U, Owner(t, i, UsedName(t, i)) = 0
        PROVE  \E d \in 1..(k - 1) : UsedName(t, i) \in DOMAIN n.scopes[d] /\ ~Local(n, d, UsedName(t, i))
    <3> DEFINE x == UsedName(t, i)
    <3>1. PICK d \in 1..k : x \in DOMAIN m.scopes[d] /\ ~Local(m, d, x)
      BY <1>2, <2>1 DEF Users, k
    <3>2. CASE d = k
      <4>1. x \in DOMAIN n.scopes[1]
        BY <1>6, <3>1, <3>2
      <4> QED BY <1>1, <1>12, <4>1
    <3>3. CASE d = 1
      <4>1. x \in DOMAIN n.scopes[1]
        BY <1>6, <3>1, <3>3
      <4> QED BY <1>1, <1>12, <4>1
    <3>4. CASE d \in 2..(k - 1)
      <4>1. x \in DOMAIN n.scopes[d] /\ ~Local(n, d, x)
        BY <1>6, <1>7, <3>1, <3>4
      <4>2. d \in 1..(k - 1)
        BY <1>1, <3>4 DEF k
      <4> QED BY <4>1, <4>2
    <3> QED BY <1>10, <1>11, <3>2, <3>3, <3>4
  <2> QED BY <1>1, <2>1 DEF Users
<1> QED BY <1>5, <1>14, <1>15, <1>18, <1>19 DEF NamesOf

-----------------------------------------------------------------------------
(* One more statement, and what is wrong with the text then.               *)

\* Every PROC that is open has its line.
LEMMA OpenIsProc ==
    ASSUME NEW t \in Texts, NEW i \in 1..(Len(t) + 1), NEW p \in ToSet(Opens(t)[i])
    PROVE  p = 0 \/ p \in Lines(t, {"proc"})
<1> DEFINE N == Len(t)
           Procs(j) == \A r \in ToSet(Opens(t)[j]) : r = 0 \/ r \in Lines(t, {"proc"})
           K == {k \in Nat : k <= N => Procs(k + 1)}
<1>1. N \in Nat /\ DOMAIN t = 1..N
  BY DEF Texts
<1>2. \A j \in 1..(N + 1) : Opens(t)[j] = Step("open", t, Opens(t)[j - 1], j)
  <2>1. Stepping(Opens(t), "open", t, 1, Len(t) + 1)
    BY <1>1, OpensStep
  <2> QED BY <2>1, Zenon DEF Stepping
<1>3. \A j \in 1..(N + 1) : \A r : r \in ToSet(Opens(t)[j]) <=> \E d \in 1..Len(Opens(t)[j]) : r = Opens(t)[j][d]
  BY LineFacts
<1>4. \A j \in 1..(N + 1) : Opens(t)[j] \in Seq(Nat) /\ Len(Opens(t)[j]) \in Nat /\ Len(Opens(t)[j]) >= 1
  BY LineFacts
<1> HIDE DEF N
<1>5. 0 \in K
  <2>1. 1 \in 1..(N + 1)
    BY <1>1
  <2>2. Opens(t)[1] = <<0>>
    BY <1>2, <2>1 DEF Step
  <2> DEFINE q == Opens(t)[1]
  <2>3. \A r \in ToSet(q) : r = 0
    <3>1. \A r : r \in ToSet(q) <=> \E d \in 1..Len(q) : r = q[d]
      BY <1>3, <2>1
    <3>2. q = <<0>>
      BY <2>2
    <3> HIDE DEF q
    <3> QED BY <3>1, <3>2
  <2> QED BY <2>3
<1>6. ASSUME NEW k \in Nat, k \in K PROVE k + 1 \in K
  <2> SUFFICES ASSUME k + 1 <= N PROVE Procs(k + 1 + 1)
    OBVIOUS
  <2> DEFINE j == k + 1 + 1
             l == k + 1
             o == Opens(t)[l]
             q == Opens(t)[j]
  <2>1. j \in 1..(N + 1) /\ l \in 1..(N + 1) /\ j - 1 = l /\ j # 1 /\ l \in 1..N
    BY <1>1
  <2>2. Procs(l)
    BY <1>1, <1>6
  <2> HIDE DEF j, l
  <2>3. q = Step("open", t, o, j)
    BY <1>2, <2>1
  <2>4. o \in Seq(Nat) /\ Len(o) \in Nat /\ Len(o) >= 1
    BY <1>4, <2>1
  <2>5. /\ \A r : r \in ToSet(o) <=> \E d \in 1..Len(o) : r = o[d]
        /\ \A r : r \in ToSet(q) <=> \E d \in 1..Len(q) : r = q[d]
    BY <1>3, <2>1
  <2>6. \A r \in ToSet(o) : r = 0 \/ r \in Lines(t, {"proc"})
    BY <2>2
  <2> HIDE DEF o, q
  <2>7. CASE t[l].op = "proc"
    <3>1. q = Append(o, l)
      BY <2>1, <2>3, <2>7 DEF Step
    <3>2. \A d \in 1..Len(q) : (d \in 1..Len(o) /\ q[d] = o[d]) \/ q[d] = l
      <4>1. l \in Nat
        BY <1>1, <2>1
      <4> QED BY <2>4, <3>1, <4>1
    <3>3. l \in Lines(t, {"proc"})
      BY <1>1, <2>1, <2>7 DEF Lines
    <3>4. \A r \in ToSet(q) : r = l \/ r \in ToSet(o)
      BY <2>5, <3>2
    <3>5. \A r \in ToSet(q) : r = 0 \/ r \in Lines(t, {"proc"})
      BY <2>6, <3>3, <3>4
    <3> QED BY <3>5 DEF q, j
  <2>8. CASE ~(t[l].op = "proc")
    <3>1. q = Front(o) \/ q = o
      BY <2>1, <2>3, <2>8 DEF Step
    <3>2. Len(Front(o)) = Len(o) - 1 /\ \A d \in 1..(Len(o) - 1) : Front(o)[d] = o[d]
      BY <2>4, FrontOf
    <3>3. \A d \in 1..Len(q) : d \in 1..Len(o) /\ q[d] = o[d]
      <4>1. CASE q = Front(o)
        <5>1. Len(q) = Len(o) - 1 /\ \A d \in 1..(Len(o) - 1) : q[d] = o[d]
          BY <3>2, <4>1
        <5>2. \A d \in 1..Len(q) : d \in 1..(Len(o) - 1) /\ d \in 1..Len(o)
          BY <2>4, <5>1
        <5> QED BY <5>1, <5>2
      <4>2. CASE q = o
        BY <4>2
      <4> QED BY <3>1, <4>1, <4>2
    <3>4. \A r \in ToSet(q) : r \in ToSet(o)
      BY <2>5, <3>3
    <3>5. \A r \in ToSet(q) : r = 0 \/ r \in Lines(t, {"proc"})
      BY <2>6, <3>4
    <3> QED BY <3>5 DEF q, j
  <2> QED BY <2>7, <2>8
<1>7. Nat \subseteq K
  <2> HIDE DEF K
  <2> QED BY <1>5, <1>6, NatSetInduction
<1>8. i - 1 \in Nat /\ i - 1 <= N /\ i - 1 + 1 = i
  BY <1>1 DEF N
<1>9. i - 1 \in K
  BY <1>7, <1>8
<1> QED BY <1>8, <1>9

\* PROC: one more is open.
OneDeeper(c, o, p) ==
    LET k == Len(o) IN
    /\ k \in Nat /\ k >= 1 /\ Len(c) = k + 1 /\ c[k + 1] = p /\ p # 0 /\ p \notin ToSet(o)
    /\ \A d \in 1..k : c[d] = o[d] /\ o[d] # p
    /\ \A r : r \in ToSet(c) <=> r \in ToSet(o) \/ r = p

LEMMA OpensMore ==
    ASSUME NEW t \in Texts, NEW s \in Stmts, NEW u, Grown(u, t, s), s.op = "proc"
    PROVE  OneDeeper(Open(u), Open(t), Len(u))
<1> DEFINE o == Open(t)
           p == Len(u)
           k == Len(o)
           c == Open(u)
<1>1. Len(t) \in Nat /\ p = Len(t) + 1 /\ u[p] = s /\ p + 1 # 1 /\ p + 1 - 1 = p
  BY DEF Grown
<1>2. OpenStack(o, p) /\ \A r : r \in ToSet(o) <=> \E d \in 1..k : r = o[d]
  <2> DEFINE q == Opens(t)[Len(t) + 1]
  <2>1. Len(t) + 1 \in 1..(Len(t) + 1)
    BY <1>1
  <2>2. OpenStack(q, Len(t) + 1) /\ \A r : r \in ToSet(q) <=> \E d \in 1..Len(q) : r = q[d]
    BY <2>1, LineFacts
  <2>3. o = q
    BY DEF Open
  <2> HIDE DEF q, o, p
  <2> QED BY <1>1, <2>2, <2>3
<1>3. c = Append(o, p)
  <2>1. c = Step("open", u, o, p + 1)
    BY DEF Grown
  <2> HIDE DEF o, p, c
  <2> QED BY <1>1, <2>1 DEF Step
<1> HIDE DEF o, c
<1>4. o \in Seq(Nat) /\ k \in Nat /\ k >= 1 /\ \A d \in 1..k : o[d] \in Nat /\ o[d] < p
  <2>1. o \in Seq(Nat) /\ k \in Nat /\ k >= 1 /\ \A d \in 1..k : o[d] < p
    BY <1>2 DEF OpenStack
  <2> QED BY <2>1, ElementOfSeq
<1> HIDE DEF p
<1>5. p \in Nat /\ p # 0
  BY <1>1
<1>6. \A d \in 1..k : o[d] # p
  BY <1>4, <1>5
<1>7. Len(c) = k + 1 /\ c[k + 1] = p /\ \A d \in 1..k : c[d] = o[d]
  BY <1>3, <1>4, <1>5
<1>8. c \in Seq(Nat)
  BY <1>3, <1>4, <1>5
<1>9. \A r : r \in ToSet(c) <=> \E d \in 1..(k + 1) : r = c[d]
  <2>1. DOMAIN c = 1..(k + 1)
    BY <1>7, <1>8
  <2> QED BY <2>1 DEF ToSet
<1> HIDE DEF k
<1>10. \A r : r \in ToSet(c) <=> r \in ToSet(o) \/ r = p
  <2>1. \A d \in 1..(k + 1) : d \in 1..k \/ d = k + 1
    BY <1>4 DEF k
  <2>2. (\A d \in 1..k : d \in 1..(k + 1)) /\ k + 1 \in 1..(k + 1)
    BY <1>4 DEF k
  <2> QED BY <1>2, <1>7, <1>9, <2>1, <2>2 DEF k
<1>11. p \notin ToSet(o)
  BY <1>2, <1>6 DEF k
<1>12. OneDeeper(c, o, p)
  BY <1>4, <1>5, <1>6, <1>7, <1>10, <1>11 DEF OneDeeper, k
<1> QED BY <1>12 DEF c, o, p

\* The definitions and the uses of the grown text.
NewLine(u, t, s) ==
    /\ Len(u) \notin Definitions(t) /\ Len(u) \notin Uses(t)
    /\ Naming(s) => Definitions(u) = Definitions(t) \cup {Len(u)}
    /\ ~Naming(s) => Definitions(u) = Definitions(t)
    /\ Refers(s) => Uses(u) = Uses(t) \cup {Len(u)}
    /\ ~Refers(s) => Uses(u) = Uses(t)

LEMMA NewLineIs ==
    ASSUME NEW t \in Texts, NEW s \in Stmts, NEW u, Grown(u, t, s), Early(u, s)
    PROVE  NewLine(u, t, s)
<1>1. Keeps(u, t, s)
  BY TextKeeps
<1>2. /\ \A i \in Definitions(t) : i \in Definitions(u)
      /\ \A i \in Uses(t) : i \in Uses(u)
      /\ \A i \in Definitions(u) : i \in Definitions(t) \/ (i = Len(u) /\ Naming(s))
      /\ \A i \in Uses(u) : i \in Uses(t) \/ (i = Len(u) /\ Refers(s))
  BY <1>1 DEF Keeps
<1>3. Naming(s) => Len(u) \in Definitions(u)
  BY NamingOf, UsesGrow
<1>4. Refers(s) => Len(u) \in Uses(u)
  <2>1. Refers(s) <=> s.op \in {"jp", "jr", "defw", "end"} \/ (s.op = "equ" /\ s.of # "")
    BY DEF Refers, Relays
  <2> QED BY <2>1, UsesGrow
<1>5. Len(u) \notin Definitions(t) /\ Len(u) \notin Uses(t)
  <2>1. Len(u) \notin 1..Len(t)
    BY DEF Grown
  <2> QED BY <2>1, LinesAre
<1> QED BY <1>2, <1>3, <1>4, <1>5 DEF NewLine

\* What is wrong with the grown text and was not with the old one.
LEMMA FaultsGrow ==
    ASSUME NEW t \in Texts, NEW s \in Stmts, NEW u, Grown(u, t, s)
    PROVE  /\ Unopened(u) <=> Unopened(t) \/ (s.op = "endp" /\ Len(Open(t)) = 1)
           /\ TooFar(u) <=> TooFar(t) \/ (s.op \in {"org", "align"} /\ Place(u) > MaxMem)
           /\ Unpushed(u) <=> Unpushed(t) \/ (s.op = "pop" /\ Len(Space(t)) = 1)
<1>1. /\ Len(t) \in Nat /\ Len(u) = Len(t) + 1
      /\ \A i \in 1..Len(u) : Opens(u)[i] = Opens(t)[i] /\ Spaces(u)[i] = Spaces(t)[i] /\ Places(u)[i] = Places(t)[i]
  BY DEF Grown
<1>2. /\ Opens(u)[Len(u)] = Open(t) /\ Spaces(u)[Len(u)] = Space(t) /\ Places(u)[Len(u) + 1] = Place(u)
      /\ \A i \in 1..Len(t) : Places(u)[i + 1] = Places(t)[i + 1] /\ i \in 1..Len(u)
  <2>1. Len(u) \in 1..Len(u) /\ \A i \in 1..Len(t) : i + 1 \in 1..Len(u) /\ i \in 1..Len(u)
    BY <1>1
  <2> QED BY <1>1, <2>1 DEF Open, Space, Place
<1> DEFINE A == {"endp"}
           B == {"org", "align"}
           C == {"pop"}
<1>3. /\ \A j : j \in Lines(u, A) <=> j \in Lines(t, A) \/ (j = Len(u) /\ s.op \in A)
      /\ \A j : j \in Lines(u, B) <=> j \in Lines(t, B) \/ (j = Len(u) /\ s.op \in B)
      /\ \A j : j \in Lines(u, C) <=> j \in Lines(t, C) \/ (j = Len(u) /\ s.op \in C)
      /\ \A j : j \in Lines(t, A) \/ j \in Lines(t, B) \/ j \in Lines(t, C) => j \in 1..Len(t)
  <2> HIDE DEF A, B, C
  <2> QED BY LinesGrow
<1> HIDE DEF A, B, C
<1>4. (\E i \in Lines(u, A) : Len(Opens(u)[i]) = 1)
        <=> (\E i \in Lines(t, A) : Len(Opens(t)[i]) = 1) \/ (s.op \in A /\ Len(Open(t)) = 1)
  BY <1>1, <1>2, <1>3
<1>5. (\E i \in Lines(u, B) : Places(u)[i + 1] > MaxMem)
        <=> (\E i \in Lines(t, B) : Places(t)[i + 1] > MaxMem) \/ (s.op \in B /\ Place(u) > MaxMem)
  BY <1>1, <1>2, <1>3
<1>6. (\E i \in Lines(u, C) : Len(Spaces(u)[i]) = 1)
        <=> (\E i \in Lines(t, C) : Len(Spaces(t)[i]) = 1) \/ (s.op \in C /\ Len(Space(t)) = 1)
  BY <1>1, <1>2, <1>3
<1>7. Unopened(u) <=> Unopened(t) \/ (s.op = "endp" /\ Len(Open(t)) = 1)
  BY <1>4 DEF A, Unopened
<1>8. TooFar(u) <=> TooFar(t) \/ (s.op \in {"org", "align"} /\ Place(u) > MaxMem)
  BY <1>5 DEF B, TooFar
<1>9. Unpushed(u) <=> Unpushed(t) \/ (s.op = "pop" /\ Len(Space(t)) = 1)
  BY <1>6 DEF C, Unpushed
<1> QED BY <1>7, <1>8, <1>9

\* A LOCAL that has its definition keeps it, and none is added to a PROC that
\* has ended.
LEMMA LocalsKept ==
    ASSUME NEW t \in Texts, NEW s \in Stmts, NEW u, Grown(u, t, s), Early(u, s),
           NEW p, p \notin ToSet(Open(t)), p \in Lines(u, {"proc"}), ~LocalLost(t, Open(t)),
           p \in Lines(t, {"proc"}), NEW x \in Locals(u, p)
    PROVE  Defs(u, p, x) # {}
<1>1. Last(Open(t)) \in ToSet(Open(t))
  <2>1. Len(t) + 1 \in 1..(Len(t) + 1)
    BY DEF Texts
  <2> QED BY <2>1, LineFacts DEF Open
<1>2. x \in Locals(t, p)
  <2>1. Last(Open(t)) # p
    BY <1>1
  <2> QED BY <2>1, LocalsGrow
<1>3. Defs(t, p, x) # {}
  BY <1>2 DEF LocalLost
<1>4. Defs(t, p, x) \subseteq Defs(u, p, x)
  BY TextKeeps DEF Keeps
<1> QED BY <1>3, <1>4

LEMMA FineGrows ==
    ASSUME NEW t \in Texts, NEW s \in Stmts, NEW u, Grown(u, t, s), Early(u, s), s.op # "endp",
           FineYet(t, Open(t)), s.op \in {"org", "align"} => ~(Place(u) > MaxMem),
           s.op = "pop" => Len(Space(t)) # 1
    PROVE  FineYet(u, Open(u))
<1>1. ~Unopened(u) /\ ~TooFar(u) /\ ~Unpushed(u)
  BY FaultsGrow DEF FineYet
<1>2. \A p : p \in ToSet(Open(t)) => p \in ToSet(Open(u))
  <2>1. CASE s.op = "proc"
    BY <2>1, OpensMore DEF OneDeeper
  <2>2. CASE s.op # "proc"
    <3>1. Open(u) = Open(t)
      BY <2>2, EndsGrow
    <3> QED BY <3>1
  <2> QED BY <2>1, <2>2
<1>3. \A p \in Lines(u, {"proc"}) : p \notin ToSet(Open(u)) => p \in Lines(t, {"proc"})
  <2> SUFFICES ASSUME NEW p \in Lines(u, {"proc"}), p \notin ToSet(Open(u)), p \notin Lines(t, {"proc"})
               PROVE  FALSE
    OBVIOUS
  <2> DEFINE A == {"proc"}
  <2>1. p = Len(u) /\ s.op \in A
    <3>1. \A j : j \in Lines(u, A) <=> j \in Lines(t, A) \/ (j = Len(u) /\ s.op \in A)
      <4> HIDE DEF A
      <4> QED BY LinesGrow
    <3> QED BY <3>1
  <2>2. s.op = "proc"
    BY <2>1
  <2>3. Len(u) \in ToSet(Open(u))
    BY <2>2, OpensMore DEF OneDeeper
  <2> QED BY <2>1, <2>3
<1>4. ASSUME NEW p \in Lines(u, {"proc"}), p \notin ToSet(Open(u)), NEW x \in Locals(u, p)
      PROVE  Defs(u, p, x) # {}
  <2>1. p \in Lines(t, {"proc"}) /\ p \notin ToSet(Open(t))
    BY <1>2, <1>3, <1>4
  <2>2. ~LocalLost(t, Open(t))
    BY DEF FineYet
  <2> QED BY <2>1, <2>2, LocalsKept
<1>5. ~LocalLost(u, Open(u))
  BY <1>4 DEF LocalLost
<1> QED BY <1>1, <1>5 DEF FineYet

LEMMA ProcNames ==
    ASSUME NEW t \in Texts, NEW s \in Stmts, NEW u, Grown(u, t, s), s.op = "proc",
           NEW D, NEW U, D \subseteq Definitions(t), U \subseteq Uses(t),
           NEW m, NamesOf(m, t, Open(t), D, U), NEW n, Enters(n, m, t)
    PROVE  NamesOf(n, u, Open(u), D, U)
<1> DEFINE o == Open(t)
           c == Open(u)
           p == Len(u)
           k == Len(o)
<1>1. /\ k \in Nat /\ k >= 1 /\ Len(c) = k + 1 /\ c[k + 1] = p /\ p # 0 /\ p \notin ToSet(o)
      /\ \A d \in 1..k : c[d] = o[d] /\ o[d] # p
      /\ \A r : r \in ToSet(c) <=> r \in ToSet(o) \/ r = p
  BY OpensMore DEF OneDeeper
<1>2. NamesOf(m, u, o, D, U)
  BY NamesOfGrow
<1>3. /\ Len(m.scopes) = k /\ Scoped(m, u, o) /\ Apart(m) /\ Entries(m, u, o, D)
      /\ Definers(m, u, o, D) /\ Users(m, u, o, U)
  BY <1>2 DEF NamesOf, Scoped
<1>4. /\ n.labels = m.labels /\ n.waiting = m.waiting /\ Len(n.scopes) = k + 1
      /\ DOMAIN n.scopes[k + 1] = {} /\ \A d \in 1..k : n.scopes[d] = m.scopes[d]
  BY <1>1, <1>3 DEF Enters, Kept
<1>5. /\ u \in Texts /\ Len(t) \in Nat /\ p = Len(t) + 1
  BY DEF Grown
<1> HIDE DEF o, c, p, k
\* The new PROC starts at the last line, so nothing stands in it yet.
<1>6. \A i \in 1..p : Last(Opens(u)[i]) # p
  <2> SUFFICES ASSUME NEW i \in 1..p PROVE Last(Opens(u)[i]) # p
    OBVIOUS
  <2>1. i \in 1..(Len(u) + 1) /\ i \in Nat /\ p \in Nat /\ i <= p
    BY <1>5 DEF p
  <2> DEFINE q == Opens(u)[i]
  <2>2. OpenStack(q, i) /\ q \in Seq(Nat) /\ Len(q) \in Nat /\ Len(q) >= 1 /\ Last(q) = q[Len(q)]
    <3>1. u \in Texts /\ i \in 1..(Len(u) + 1)
      BY <1>5, <2>1
    <3> QED BY <3>1, LineFacts
  <2> HIDE DEF q
  <2>3. Len(q) \in 1..Len(q) /\ q[Len(q)] \in Nat
    BY <2>2, ElementOfSeq
  <2>4. q[Len(q)] < i
    BY <2>2, <2>3 DEF OpenStack
  <2>5. Last(q) # p
    BY <2>1, <2>2, <2>3, <2>4
  <2> QED BY <2>5 DEF q
<1>7. \A x : x \notin Locals(u, p)
  BY <1>5, <1>6, LocalsDef DEF p
<1>8. \A i \in D : Seat(u, c, i) = Seat(u, o, i) /\ Seat(u, o, i) # p
  <2> SUFFICES ASSUME NEW i \in D PROVE Seat(u, c, i) = Seat(u, o, i) /\ Seat(u, o, i) # p
    OBVIOUS
  <2>1. i \in 1..Len(t)
    BY LinesAre
  <2>2. i \in 1..p
    BY <1>5, <2>1
  <2>3. Last(Opens(u)[i]) # p
    BY <1>6, <2>2
  <2> QED BY <1>1, <2>3 DEF Seat
<1>9. /\ \A d \in 1..(k + 1) : d \in 1..k \/ d = k + 1
      /\ \A d \in 2..(k + 1) : d \in 2..k \/ d = k + 1
      /\ \A d \in 1..k : d \in 1..(k + 1)
      /\ \A d \in 2..k : d \in 1..k
  BY <1>1
<1>10. \A d \in 1..k : \A x : Local(n, d, x) = Local(m, d, x) /\ Given(n, d, x) = Given(m, d, x)
  BY <1>4 DEF Local, Given, Defined
<1>11. Scoped(n, u, c)
  <2>1. ASSUME NEW d \in 1..(k + 1), NEW x \in DOMAIN n.scopes[d], Local(n, d, x)
        PROVE  d > 1 /\ x \in Locals(u, c[d])
    <3>1. d \in 1..k /\ x \in DOMAIN m.scopes[d] /\ Local(m, d, x)
      BY <1>4, <1>9, <1>10, <2>1
    <3>2. d > 1 /\ x \in Locals(u, o[d])
      BY <1>3, <3>1 DEF Scoped, k
    <3> QED BY <1>1, <3>1, <3>2
  <2>2. ASSUME NEW d \in 2..(k + 1), NEW x \in Locals(u, c[d]) PROVE x \in DOMAIN n.scopes[d] /\ Local(n, d, x)
    <3>1. d \in 2..k
      BY <1>1, <1>7, <1>9, <2>2
    <3>2. x \in Locals(u, o[d])
      BY <1>1, <1>9, <3>1
    <3>3. x \in DOMAIN m.scopes[d] /\ Local(m, d, x)
      BY <1>3, <3>1, <3>2 DEF Scoped, k
    <3> QED BY <1>4, <1>9, <1>10, <3>1, <3>3
  <2> QED BY <1>1, <1>4, <2>1, <2>2 DEF Scoped
<1>12. Apart(n)
  <2>1. \A d \in 1..(k + 1) : \A x \in DOMAIN n.scopes[d] : d \in 1..k /\ x \in DOMAIN m.scopes[d] /\ n.scopes[d][x] = m.scopes[d][x]
    BY <1>4, <1>9
  <2>2. \A d \in 1..k : \A x \in DOMAIN m.scopes[d] :
          /\ \A e \in 1..k : \A y \in DOMAIN m.scopes[e] : m.scopes[d][x] = m.scopes[e][y] => d = e /\ x = y
          /\ \A j \in 1..Len(m.waiting) : m.scopes[d][x] # m.waiting[j]
    BY <1>3 DEF Apart
  <2> QED BY <1>4, <2>1, <2>2 DEF Apart
<1>13. Entries(n, u, c, D)
  <2>1. ASSUME NEW d \in 1..k, NEW x \in DOMAIN m.scopes[d] PROVE Entry(n, u, c, D, d, x)
    <3>1. Entry(m, u, o, D, d, x) /\ c[d] = o[d]
      BY <1>1, <1>3 DEF Entries, k
    <3>2. \A i \in D : \A w : DefinedAt(u, o, i, x, w, o[d]) => DefinedAt(u, c, i, x, w, c[d])
      BY <1>8, <3>1 DEF DefinedAt
    <3>3. OwnerIn(n, c, d, x) = OwnerIn(m, o, d, x)
      BY <1>10, <3>1 DEF OwnerIn
    <3> QED BY <1>10, <3>1, <3>2, <3>3 DEF Entry
  <2>2. \A d \in 1..(k + 1) : \A x \in DOMAIN n.scopes[d] : Entry(n, u, c, D, d, x)
    BY <1>4, <1>9, <2>1
  <2> QED BY <1>1, <2>2 DEF Entries
<1>14. Definers(n, u, c, D)
  <2>1. ASSUME NEW i \in D PROVE Seated(n, u, c, i)
    <3>1. Seated(m, u, o, i)
      BY <1>3 DEF Definers
    <3>2. ASSUME NEW d \in 1..(k + 1), c[d] = Seat(u, c, i), c[d] # 0 \/ OwnerOf(u, i) = 0
          PROVE  NameOf(u, i) \in DOMAIN n.scopes[d] /\ Given(n, d, NameOf(u, i))
      <4>1. d \in 1..k /\ o[d] = Seat(u, o, i) /\ (o[d] # 0 \/ OwnerOf(u, i) = 0)
        BY <1>1, <1>8, <1>9, <3>2
      <4>2. NameOf(u, i) \in DOMAIN m.scopes[d] /\ Given(m, d, NameOf(u, i))
        BY <3>1, <4>1 DEF Seated, k
      <4> QED BY <1>4, <1>10, <4>1, <4>2
    <3> QED BY <1>1, <3>2 DEF Seated
  <2>2. \A i, j \in D : Seat(u, c, i) = Seat(u, c, j) => Seat(u, o, i) = Seat(u, o, j)
    BY <1>8
  <2> QED BY <1>3, <2>1, <2>2 DEF Definers
<1>15. Users(n, u, c, U)
  <2>1. ASSUME NEW i \in U, Owner(u, i, UsedName(u, i)) = 0
        PROVE  \E d \in 1..(k + 1) : UsedName(u, i) \in DOMAIN n.scopes[d] /\ ~Local(n, d, UsedName(u, i))
    <3>1. PICK d \in 1..k : UsedName(u, i) \in DOMAIN m.scopes[d] /\ ~Local(m, d, UsedName(u, i))
      BY <1>3, <2>1 DEF Users, k
    <3> QED BY <1>4, <1>9, <1>10, <3>1
  <2> QED BY <1>1, <2>1 DEF Users
<1>16. NamesOf(n, u, c, D, U)
  BY <1>11, <1>12, <1>13, <1>14, <1>15 DEF NamesOf
<1> QED BY <1>16 DEF c

-----------------------------------------------------------------------------
(* Answers: a message that is right, or none and the names of the text.    *)

Tracks(m, t) == NamesOf(m, t, Open(t), Definitions(t), Uses(t)) /\ FineYet(t, Open(t))

\* The message e names a fault of the text t.
Justified(e, t) ==
    /\ e = "already defined" => Twice(t)
    /\ e = "ENDP without PROC" => Unopened(t)
    /\ e = "missing ENDP" => Unclosed(t)
    /\ e = "undefined LOCAL" => LocalLost(t, Open(t))
    /\ e = "undefined GLOBAL" => GlobalLost(t)
    /\ e = "ORG out of range" => TooFar(t)
    /\ e = "no namespace to pop" => Unpushed(t)
Others == {"none", "undefined label", "undefined temporary label", "jump out of range"}

LEMMA JustifiedBy ==
    ASSUME NEW t, NEW e
    PROVE  /\ e = "already defined" /\ Twice(t) => Justified(e, t)
           /\ e = "ENDP without PROC" /\ Unopened(t) => Justified(e, t)
           /\ e = "missing ENDP" /\ Unclosed(t) => Justified(e, t)
           /\ e = "undefined LOCAL" /\ LocalLost(t, Open(t)) => Justified(e, t)
           /\ e = "undefined GLOBAL" /\ GlobalLost(t) => Justified(e, t)
           /\ e = "ORG out of range" /\ TooFar(t) => Justified(e, t)
           /\ e = "no namespace to pop" /\ Unpushed(t) => Justified(e, t)
           /\ e \in Others => Justified(e, t)
BY DEF Justified, Others

Answers(n, u) == Justified(n.err, u) /\ (n.err = "none" => Tracks(n, u))

LEMMA TwiceGrows ==
    ASSUME NEW t, NEW s, NEW u, Keeps(u, t, s), Twice(t)
    PROVE  Twice(u)
BY DEF Twice, Keeps

\* A LOCAL name with no value at ENDP has no definition, and one with a value has.
LEMMA LocalsGiven ==
    ASSUME NEW t \in Texts, NEW s \in Stmts, NEW u, Grown(u, t, s), s.op = "endp",
           NEW o, NEW c, StackCloses(o, c),
           NEW m, NEW U, NamesOf(m, t, o, Definitions(t), U),
           NEW x \in DOMAIN m.scopes[Len(o)], Local(m, Len(o), x)
    PROVE  x \in Locals(u, o[Len(o)]) /\ (Given(m, Len(o), x) <=> Defs(u, o[Len(o)], x) # {})
<1> DEFINE k == Len(o)
           D == Definitions(t)
<1>1. k \in 1..k /\ o[k] # 0
  BY DEF StackCloses
<1>2. Scoped(m, t, o) /\ Entries(m, t, o, D) /\ Definers(m, t, o, D)
  BY DEF NamesOf
<1>3. x \in Locals(t, o[k])
  BY <1>1, <1>2 DEF Scoped
<1>4. x \in Locals(u, o[k])
  BY <1>3, LocalsGrow
<1>5. Keeps(u, t, s)
  BY TextKeeps DEF Early
<1>6. D = Definitions(u)
  <2>1. ~Naming(s)
    BY DEF Naming
  <2> QED BY <2>1, NewLineIs DEF NewLine, Early
<1> HIDE DEF k
<1>7. ASSUME Given(m, k, x) PROVE Defs(u, o[k], x) # {}
  <2>1. Entry(m, t, o, D, k, x) /\ OwnerIn(m, o, k, x) = o[k]
    BY <1>1, <1>2 DEF Entries, OwnerIn, k
  <2>2. PICK i \in D : DefinedAt(t, o, i, x, o[k], o[k])
    BY <1>7, <2>1 DEF Entry
  <2>3. i \in Defs(t, o[k], x)
    BY <2>2 DEF DefinedAt, Defs, NameOf, OwnerOf
  <2>4. Defs(t, o[k], x) \subseteq Defs(u, o[k], x)
    BY <1>5 DEF Keeps
  <2> QED BY <2>3, <2>4
<1>8. ASSUME NEW i \in Defs(u, o[k], x) PROVE Given(m, k, x)
  <2>1. i \in D /\ NameOf(u, i) = x /\ Owner(u, i, x) = o[k]
    BY <1>6 DEF Defs, NameOf
  <2>2. NameOf(t, i) = x /\ OwnerOf(t, i) = o[k]
    BY <1>5, <2>1 DEF Keeps, OwnerOf
  <2>3. OwnerOf(t, i) \in {0, Last(Opens(t)[i])} /\ Seated(m, t, o, i)
    BY <1>2, <2>1 DEF Definers
  <2>4. Last(Opens(t)[i]) = o[k]
    BY <1>1, <2>2, <2>3
  <2>5. o[k] \in ToSet(o)
    <3>1. k \in DOMAIN o
      BY <1>1, <1>2 DEF StackCloses, k
    <3> QED BY <3>1 DEF ToSet
  <2>6. Seat(t, o, i) = o[k]
    BY <2>4, <2>5 DEF Seat
  <2> QED BY <1>1, <2>2, <2>3, <2>6 DEF Seated, k
<1> QED BY <1>4, <1>7, <1>8 DEF k

LEMMA EndpAnswers ==
    ASSUME NEW u, NEW t, NEW s, NEW m, Reading1(u, t, s, m), s.op = "endp", m.err = "none", Tracks(m, t)
    PROVE  Answers(ExitProc(m), u)
<1> DEFINE n == ExitProc(m)
           o == Open(t)
           k == Len(o)
           D == Definitions(t)
           U == Uses(t)
           c == Open(u)
<1>1. /\ t \in Texts /\ s \in Stmts /\ Grown(u, t, s) /\ MemSound(m, t) /\ MemSound(m, u) /\ Bound(m, t, Open(t))
  BY Starting
<1>2. NamesOf(m, t, o, D, U) /\ FineYet(t, o)
  BY DEF Tracks
<1>3. /\ Len(m.scopes) = k /\ Scoped(m, t, o) /\ Apart(m) /\ Entries(m, t, o, D) /\ Here(m) = m.scopes[k]
  BY <1>1, <1>2, Facts DEF NamesOf, Scoped
<1>4. OpenStack(o, Len(u)) /\ k \in Nat /\ k >= 1 /\ Len(t) \in Nat /\ Len(u) = Len(t) + 1 /\ u[Len(u)] = s
  <2>1. Len(t) \in Nat /\ Len(u) = Len(t) + 1 /\ u[Len(u)] = s
    BY <1>1 DEF Grown
  <2>2. Len(t) + 1 \in 1..(Len(t) + 1)
    BY <2>1
  <2> QED BY <1>1, <2>1, <2>2, LineFacts DEF Open
<1>5. Early(u, s) /\ ~Naming(s) /\ ~Refers(s)
  BY DEF Early, Naming, Refers, Relays
<1>6. Keeps(u, t, s)
  BY <1>1, <1>5, TextKeeps
<1>7. Definitions(u) = D /\ Uses(u) = U
  BY <1>1, <1>5, NewLineIs DEF NewLine
<1>8. \A x \in Public(m) : x \in DOMAIN m.scopes[1] => k = 1 \/ Given(m, k, x)
  <2>1. \A x \in Public(m) : x \in DOMAIN m.scopes[k] /\ ~m.labels[m.scopes[k][x]].local
    BY <1>3 DEF Public
  <2> HIDE DEF k, o
  <2>2. k = 1 \/ k \in 2..k
    BY <1>4
  <2> QED BY <1>1, <2>1, <2>2 DEF Bound, Given, k, o
<1> HIDE DEF n, o, c, k, D, U
<1>9. CASE k <= 1
  <2>1. k = 1 /\ Len(m.scopes) <= 1
    BY <1>3, <1>4, <1>9
  <2>2. n = Error(m, "ENDP without PROC")
    BY <2>1 DEF ExitProc, n
  <2>3. n.err = "ENDP without PROC"
    <3> DEFINE e == "ENDP without PROC"
    <3>1. e \in Messages
      BY DEF Messages
    <3> HIDE DEF e
    <3>2. Complains(Error(m, e), m, e)
      BY <1>1, <3>1, ErrorFields DEF MemSound
    <3>3. n = Error(m, e)
      BY <2>2 DEF e
    <3>4. n.err = e
      BY <3>2, <3>3 DEF Complains
    <3> QED BY <3>4 DEF e
  <2>4. Unopened(u)
    BY <1>1, <2>1, FaultsGrow DEF k, o
  <2>5. Justified(n.err, u)
    BY <2>3, <2>4, JustifiedBy
  <2>6. n.err # "none"
    BY <2>3
  <2> QED BY <2>5, <2>6 DEF Answers, n
<1>10. CASE ~(k <= 1)
  <2>1. k > 1 /\ k # 1
    BY <1>4, <1>10
  <2>2. c = Front(o)
    <3>1. c = Step("open", u, o, Len(u) + 1) /\ Len(u) + 1 # 1 /\ Len(u) + 1 - 1 = Len(u)
      BY <1>1, <1>4 DEF Grown, c, o
    <3> QED BY <1>4, <2>1, <3>1 DEF Step, k
  <2>3. StackCloses(o, c)
    BY <1>4, <2>1, <2>2, StackFront DEF k
  <2>4. \A x \in Shared(m) : Given(m, k, x)
    BY <1>8, <2>1 DEF Shared
  <2>5. Exits(n, m)
    <3>1. \A x \in Public(m) : x \in DOMAIN m.scopes[1] => Defined(m, Here(m)[x])
      BY <1>3, <1>8, <2>1 DEF Given
    <3> QED BY <1>1, <1>3, <3>1, ExitProcExits DEF n
  <2>6. o[k] \in Lines(u, {"proc"}) /\ o[k] \notin ToSet(c) /\ o[k] \in ToSet(o)
    <3>1. o[k] # 0 /\ o[k] \notin ToSet(c)
      BY <2>3 DEF StackCloses, k
    <3>2. o[k] \in ToSet(o)
      <4>1. k \in DOMAIN o
        BY <1>4, <2>1 DEF OpenStack, k
      <4> QED BY <4>1 DEF ToSet
    <3>3. o[k] \in Lines(t, {"proc"})
      <4>1. Len(t) + 1 \in 1..(Len(t) + 1) /\ o = Opens(t)[Len(t) + 1]
        BY <1>4 DEF o, Open
      <4> QED BY <1>1, <3>1, <3>2, <4>1, OpenIsProc
    <3> DEFINE A == {"proc"}
    <3>4. \A j : j \in Lines(t, A) => j \in Lines(u, A)
      <4> HIDE DEF A
      <4> QED BY <1>1, LinesGrow
    <3> QED BY <3>1, <3>2, <3>3, <3>4
  <2>7. \A x \in DOMAIN m.scopes[k] : Local(m, k, x) =>
           x \in Locals(u, o[k]) /\ (Given(m, k, x) <=> Defs(u, o[k], x) # {})
    BY <1>1, <1>2, <2>3, LocalsGiven DEF k, D
  <2>8. CASE \E x \in DOMAIN m.scopes[k] : Local(m, k, x) /\ ~Given(m, k, x)
    <3>1. n.err = "undefined LOCAL"
      BY <1>3, <2>5, <2>8, <1>10 DEF Exits
    <3>2. PICK x \in DOMAIN m.scopes[k] : Local(m, k, x) /\ ~Given(m, k, x)
      BY <2>8
    <3>3. x \in Locals(u, o[k]) /\ Defs(u, o[k], x) = {}
      BY <2>7, <3>2
    <3>4. LocalLost(u, c)
      BY <2>6, <3>3 DEF LocalLost
    <3>5. Justified(n.err, u)
      BY <3>1, <3>4, JustifiedBy DEF c
    <3>6. n.err # "none"
      BY <3>1
    <3> QED BY <3>5, <3>6 DEF Answers, n
  <2>9. CASE ~(\E x \in DOMAIN m.scopes[k] : Local(m, k, x) /\ ~Given(m, k, x))
    <3>1. CASE n.err = "none"
      <4>1. Closes(n, m)
        BY <1>3, <1>10, <2>5, <2>9, <3>1 DEF Exits
      <4>2. NamesOf(m, u, o, D, U)
        BY <1>1, <1>2, NamesOfGrow DEF D, U
      <4>3. NamesOf(n, u, c, D, U)
        <5>1. u \in Texts /\ D \subseteq Definitions(u)
          BY <1>1, <1>7 DEF Grown
        <5>2. \A x \in Shared(m) : Given(m, Len(o), x)
          BY <2>4 DEF k
        <5> QED BY <1>1, <2>3, <4>1, <4>2, <5>1, <5>2, ClosesNames
      <4>4. ~Unopened(u) /\ ~TooFar(u) /\ ~Unpushed(u)
        <5>1. ~Unopened(t) /\ ~TooFar(t) /\ ~Unpushed(t)
          BY <1>2 DEF FineYet
        <5>2. Len(Open(t)) # 1
          BY <2>1 DEF k, o
        <5> QED BY <1>1, <5>1, <5>2, FaultsGrow
      <4>5. ASSUME NEW p \in Lines(u, {"proc"}), p \notin ToSet(c), NEW x \in Locals(u, p)
            PROVE  Defs(u, p, x) # {}
        <5>1. CASE p = o[k]
          <6>1. x \in Locals(t, o[k])
            BY <1>1, <4>5, <5>1, LocalsGrow
          <6>2. k \in 2..Len(o)
            BY <1>4, <2>1 DEF k
          <6>3. x \in DOMAIN m.scopes[k] /\ Local(m, k, x)
            BY <1>3, <6>1, <6>2 DEF Scoped
          <6>4. Given(m, k, x)
            BY <2>9, <6>3
          <6> QED BY <2>7, <5>1, <6>3, <6>4
        <5>2. CASE p # o[k]
          <6>1. p \notin ToSet(o)
            BY <2>3, <4>5, <5>2 DEF StackCloses, k
          <6>2. p \in Lines(t, {"proc"})
            <7> DEFINE A == {"proc"}
            <7>1. \A j : j \in Lines(u, A) <=> j \in Lines(t, A) \/ (j = Len(u) /\ s.op \in A)
              <8> HIDE DEF A
              <8> QED BY <1>1, LinesGrow
            <7>2. s.op \notin A
              OBVIOUS
            <7> QED BY <4>5, <7>1, <7>2
          <6>3. ~LocalLost(t, Open(t)) /\ p \notin ToSet(Open(t))
            BY <1>2, <6>1 DEF FineYet, o
          <6> QED BY <1>1, <1>5, <4>5, <6>2, <6>3, LocalsKept
        <5> QED BY <5>1, <5>2
      <4>6. FineYet(u, c)
        BY <4>4, <4>5 DEF FineYet, LocalLost
      <4>7. Tracks(n, u)
        BY <1>7, <4>3, <4>6 DEF Tracks, c
      <4>8. n.err \in Others
        BY <3>1 DEF Others
      <4>9. Justified(n.err, u)
        BY <4>8, JustifiedBy
      <4> QED BY <4>7, <4>9 DEF Answers, n
    <3>2. CASE n.err # "none"
      <4>1. n.err = "already defined" /\ \E x \in Shared(m) : Given(m, 1, x)
        BY <1>3, <1>10, <2>5, <2>9, <3>2 DEF Exits
      <4>2. PICK x \in Shared(m) : Given(m, 1, x)
        BY <4>1
      <4>3. x \in DOMAIN m.scopes[1] /\ x \in DOMAIN m.scopes[k] /\ ~Local(m, k, x) /\ Given(m, k, x)
        BY <1>3, <2>4 DEF Shared, Public, Local
      <4>4. 1 \in 1..k /\ k \in 1..k /\ o[1] = 0 /\ o[k] # 0
        BY <1>4, <2>1, <2>3 DEF StackCloses, k
      <4>5. ~Local(m, 1, x)
        BY <1>3, <4>3, <4>4 DEF Scoped, k
      <4>6. OwnerIn(m, o, 1, x) = 0 /\ OwnerIn(m, o, k, x) = 0
        BY <4>3, <4>5 DEF OwnerIn
      <4>7. Entry(m, t, o, D, 1, x) /\ Entry(m, t, o, D, k, x)
        BY <1>3, <4>3, <4>4 DEF Entries, k
      <4>8. PICK i \in D : DefinedAt(t, o, i, x, 0, 0)
        BY <4>2, <4>4, <4>6, <4>7 DEF Entry
      <4>9. PICK j \in D : DefinedAt(t, o, j, x, 0, o[k])
        BY <4>3, <4>6, <4>7 DEF Entry
      <4>10. Twice(t)
        BY <4>4, <4>8, <4>9 DEF Twice, DefinedAt, D
      <4>11. Twice(u)
        BY <1>6, <4>10, TwiceGrows
      <4>12. Justified(n.err, u)
        BY <4>1, <4>11, JustifiedBy
      <4> QED BY <3>2, <4>12 DEF Answers, n
    <3> QED BY <3>1, <3>2
  <2> QED BY <2>8, <2>9
<1> QED BY <1>9, <1>10

-----------------------------------------------------------------------------
(* The other statements.                                                   *)

\* What the new line says.
LEMMA LastLine ==
    ASSUME NEW u, NEW t, NEW s, NEW m, Reading1(u, t, s, m)
    PROVE  /\ t \in Texts /\ s \in Stmts /\ Grown(u, t, s) /\ u \in Texts
           /\ Opens(u)[Len(u)] = Open(t) /\ Len(Open(t)) \in Nat
           /\ NameOf(u, Len(u)) = <<Last(Space(t)), s.name>>
           /\ UsedName(u, Len(u)) = <<Last(Space(t)), IF s.op = "equ" THEN s.of ELSE s.name>>
<1>1. t \in Texts /\ s \in Stmts /\ Grown(u, t, s) /\ u[Len(u)] = s
  BY Starting
<1>2. u \in Texts /\ Len(t) \in Nat /\ Len(t) + 1 \in 1..(Len(t) + 1)
  BY <1>1 DEF Grown
<1>3. /\ Full(u, Len(u), s.name) = <<Last(Space(t)), s.name>> /\ Opens(u)[Len(u)] = Open(t)
      /\ UsedName(u, Len(u)) = <<Last(Space(t)), IF s.op = "equ" THEN s.of ELSE s.name>>
  BY <1>1, NamesGrow
<1>4. Len(Open(t)) \in Nat
  BY <1>1, <1>2, LineFacts DEF Open
<1> QED BY <1>1, <1>2, <1>3, <1>4 DEF NameOf

\* The lines that are neither PROC nor ENDP.
LEMMA TracksOn ==
    ASSUME NEW u, NEW t, NEW s, NEW m, Reading1(u, t, s, m), Tracks(m, t), ~Closing(s), Early(u, s),
           s.op \in {"org", "align"} => ~(Place(u) > MaxMem), s.op = "pop" => Len(Space(t)) # 1,
           NEW n, NamesOf(n, u, Open(t), Definitions(u), Uses(u))
    PROVE  Tracks(n, u)
<1>1. t \in Texts /\ s \in Stmts /\ Grown(u, t, s)
  BY Starting
<1>2. s.op # "endp" /\ s.op \notin {"proc", "endp"}
  BY DEF Closing
<1>3. Open(u) = Open(t)
  BY <1>1, <1>2, EndsGrow
<1>4. FineYet(t, Open(t))
  BY DEF Tracks
<1>5. FineYet(u, Open(u))
  BY <1>1, <1>2, <1>4, FineGrows
<1> QED BY <1>3, <1>5 DEF Tracks

\* The lines that can break no rule about what is open.
Even(s) == s.op \notin {"proc", "endp", "org", "align", "pop"}

LEMMA AnswersOn ==
    ASSUME NEW u, NEW t, NEW s, NEW m, Reading1(u, t, s, m), Tracks(m, t), Even(s), Early(u, s),
           NEW n, NamesOf(n, u, Open(t), Definitions(u), Uses(u)), n.err \in Others
    PROVE  Answers(n, u)
<1>1. ~Closing(s) /\ s.op \notin {"org", "align"} /\ s.op # "pop"
  BY DEF Even, Closing
<1>2. Tracks(n, u)
  BY <1>1, TracksOn
<1>3. Justified(n.err, u)
  BY JustifiedBy
<1> QED BY <1>2, <1>3 DEF Answers

LEMMA DefinesAnswers ==
    ASSUME NEW u, NEW t, NEW s, NEW m, Reading1(u, t, s, m), Tracks(m, t), Naming(s), OwnNames(u),
           NEW g, MemSound(g, u), g.err = "none", NamesOf(g, u, Open(t), Definitions(t), Uses(u)),
           NEW n, NamesOne(n, g, <<Last(Space(t)), s.name>>)
    PROVE  Answers(n, u)
<1> DEFINE i == Len(u)
           D == Definitions(t)
           o == Open(t)
           x == <<Last(Space(t)), s.name>>
<1>1. /\ t \in Texts /\ s \in Stmts /\ Grown(u, t, s) /\ u \in Texts
      /\ o = Opens(u)[i] /\ x = NameOf(u, i)
  BY LastLine
<1>2. Even(s) /\ Early(u, s)
  BY DEF Naming, Even, Early
<1>3. i \notin D /\ Definitions(u) = D \cup {i}
  BY <1>1, <1>2, NewLineIs DEF NewLine
<1> HIDE DEF i, D, o, x
<1>4. NamesOf(g, u, o, D, Uses(u)) /\ NamesOne(n, g, x) /\ i \in Definitions(u) /\ D \subseteq Definitions(u)
  BY <1>3 DEF D, o, x
<1>5. IF n.err = "none" THEN NamesOf(n, u, o, D \cup {i}, Uses(u))
      ELSE n.err = "already defined" /\ Twice(u)
  BY <1>1, <1>3, <1>4, Defining
<1>6. CASE n.err = "none"
  <2>1. n.err \in Others
    BY <1>6 DEF Others
  <2>2. NamesOf(n, u, Open(t), Definitions(u), Uses(u))
    BY <1>3, <1>5, <1>6 DEF o
  <2> QED BY <1>2, <2>1, <2>2, AnswersOn
<1>7. CASE n.err # "none"
  <2>1. Justified(n.err, u)
    BY <1>5, <1>7, JustifiedBy
  <2> QED BY <1>7, <2>1 DEF Answers
<1> QED BY <1>6, <1>7

\* Looking up the name the new line uses.
LEMMA UseNames ==
    ASSUME NEW u, NEW t, NEW s, NEW m, Reading1(u, t, s, m), Tracks(m, t), Refers(s),
           NEW x \in Keys, x = UsedName(u, Len(u)), NEW g, Looks(g, m, u, x), Meets(g, m, x)
    PROVE  /\ NamesOf(g.m, u, Open(t), Definitions(t), Uses(u))
           /\ MemSound(g.m, u) /\ g.m.err = m.err
<1> DEFINE i == Len(u)
           D == Definitions(t)
           U == Uses(t)
           o == Open(t)
           q == g.m
<1>1. /\ t \in Texts /\ s \in Stmts /\ Grown(u, t, s) /\ u \in Texts /\ o = Opens(u)[i]
  BY LastLine
<1>2. s.op # "local" /\ Early(u, s)
  BY DEF Refers, Relays, Early
<1>3. Uses(u) = U \cup {i}
  BY <1>1, <1>2, NewLineIs DEF NewLine
<1>4. NamesOf(m, t, o, D, U)
  BY DEF Tracks
<1>5. MemSound(m, u)
  BY Starting
<1> HIDE DEF i, D, U, o
<1>6. NamesOf(m, u, o, D, U)
  BY <1>1, <1>2, <1>4, NamesOfGrow DEF D, U
<1>7. i \in Uses(u) /\ x = UsedName(u, i)
  BY <1>3 DEF i
<1>8. MemSound(q, u) /\ q.err = m.err
  BY DEF Looks
<1>9. /\ (q = m /\ \E d \in 1..Len(m.scopes) : x \in DOMAIN m.scopes[d])
         \/ /\ \A d \in 1..Len(m.scopes) : x \notin DOMAIN m.scopes[d]
            /\ Adds(q, m, x, FALSE) /\ ~Defined(q, Len(q.labels)) /\ q.waiting = m.waiting
  BY DEF Meets
<1> HIDE DEF q
<1>10. NamesOf(q, u, o, D, U \cup {i})
  <2>1. CASE q = m /\ \E d \in 1..Len(m.scopes) : x \in DOMAIN m.scopes[d]
    <3>1. PICK d \in 1..Len(m.scopes) : x \in DOMAIN m.scopes[d]
      BY <2>1
    <3>2. NamesOf(m, u, o, D, U \cup {i})
      BY <1>1, <1>6, <1>7, <3>1, OldUse
    <3> QED BY <2>1, <3>2
  <2>2. CASE /\ \A d \in 1..Len(m.scopes) : x \notin DOMAIN m.scopes[d]
             /\ Adds(q, m, x, FALSE) /\ ~Defined(q, Len(q.labels)) /\ q.waiting = m.waiting
    <3>1. x \notin DOMAIN Here(m)
      <4>1. Here(m) = m.scopes[Len(m.scopes)] /\ Len(m.scopes) \in Nat /\ Len(m.scopes) >= 1
        BY <1>5, Facts
      <4>2. Len(m.scopes) \in 1..Len(m.scopes)
        BY <4>1
      <4> QED BY <2>2, <4>1, <4>2
    <3> DEFINE f == FALSE
    <3>2. Adds(q, m, x, f)
      BY <2>2
    <3> HIDE DEF f
    <3>3. OneMore(q, m, x, f)
      BY <1>5, <2>2, <3>1, <3>2, AddsOneMore
    <3>4. OneMore(q, m, x, FALSE)
      BY <3>3 DEF f
    <3> QED BY <1>1, <1>6, <1>7, <2>2, <3>4, NewUse
  <2> QED BY <1>9, <2>1, <2>2
<1> QED BY <1>3, <1>8, <1>10 DEF q, D, o

\* An instruction complains of its operand only.
LEMMA AddInstructionErr ==
    ASSUME NEW m \in Memory, NEW t, CodeSound(m, t), Rooted(m.labels), m.err \in Others,
           NEW i \in Instrs, i.arg.lab \in 0..Len(m.labels)
    PROVE  AddInstruction(m, i).err \in Others
<1> DEFINE pending == i.data \/ TryEval(m.labels, i.arg) = None
           val == ArgVal(m, i)
           r == SetMemorySlot(m)
           o == [r.orgs EXCEPT ![m.index] = Append(@, [i EXCEPT !.pending = pending])]
           b == Put(r.bytes, m.index, Cells(i, IF pending THEN 0 ELSE val.v))
           x == r.index + i.size
           n == [r EXCEPT !.orgs = o, !.bytes = b, !.index = x]
<1>1. val.err \in Messages /\ val.err \in Others
  <2>1. val.err \in Messages
    BY ArgValTyped
  <2> DEFINE v == TryEval(m.labels, i.arg)
             far == i.rel /\ v \notin -Reach..(Reach - 1)
  <2>2. val.err = IF v = None THEN "undefined label" ELSE IF far THEN "jump out of range" ELSE "none"
    BY DEF ArgVal
  <2> HIDE DEF v, far, val
  <2>3. val.err \in Others
    BY <2>2 DEF Others
  <2> QED BY <2>1, <2>3
<1>2. Slots(r, m)
  BY SetMemorySlotFields
<1>3. r.err = m.err /\ r \in Memory
  BY <1>2 DEF Slots
<1>4. AddInstruction(m, i) = IF ~pending /\ val.err # "none" THEN Error(m, val.err) ELSE n
  <2>1. [r EXCEPT !.orgs[m.index] = Append(@, [i EXCEPT !.pending = pending]),
                  !.bytes = Put(@, m.index, Cells(i, IF pending THEN 0 ELSE val.v)),
                  !.index = @ + i.size] = n
    BY <1>3 DEF Memory
  <2> QED BY <2>1 DEF AddInstruction
<1> HIDE DEF o, b, x
<1>5. n.err = r.err
  BY <1>3 DEF Memory
<1>6. Error(m, val.err).err \in Others
  <2> DEFINE e == val.err
  <2> HIDE DEF e
  <2>1. Complains(Error(m, e), m, e)
    BY <1>1, ErrorFields DEF e
  <2>2. Error(m, e).err = m.err \/ Error(m, e).err = e
    BY <2>1 DEF Complains
  <2> QED BY <1>1, <2>2 DEF e
<1> QED BY <1>3, <1>4, <1>5, <1>6

Coding(s) == s.op \in {"nop", "defs", "jp", "jr", "defw", "back", "fwd"}

LEMMA CodeAnswers ==
    ASSUME NEW u, NEW t, NEW s, NEW m, Reading1(u, t, s, m), Tracks(m, t), Coding(s),
           NEW g, MemSound(g, u), g.err = "none", NamesOf(g, u, Open(t), Definitions(u), Uses(u)),
           NEW arg \in Exprs, arg.lab \in 0..Len(g.labels)
    PROVE  Answers(AddInstruction(g, Instruction(s, Len(t) + 1, arg)), u)
<1> DEFINE i == Instruction(s, Len(t) + 1, arg)
           n == AddInstruction(g, i)
<1>1. /\ t \in Texts /\ s \in Stmts /\ Grown(u, t, s) /\ Len(u) \in 1..Len(u) /\ u[Len(u)] = s
  BY Starting
<1>2. Len(t) \in Nat /\ Len(u) = Len(t) + 1
  BY <1>1 DEF Grown
<1>3. i \in Instrs /\ i.arg = arg /\ i.id = Len(u) /\ i.size = SizeOf(s)
  <2>1. Len(t) + 1 \in Int
    BY <1>2
  <2> QED BY <1>1, <1>2, <2>1, InstructionTyped
<1>4. g \in Memory /\ CodeSound(g, u) /\ Rooted(g.labels)
  BY DEF MemSound, NamesSound
<1> HIDE DEF i
<1>5. i.arg.lab \in 0..Len(g.labels) /\ i.id \in 1..Len(u) /\ i.size = SizeOf(u[i.id])
  BY <1>1, <1>3
<1>6. Assembles(n, g, u, i.size)
  BY <1>3, <1>4, <1>5, AddInstructionSound
<1>7. g.err \in Others
  BY DEF Others
<1>8. n.err \in Others
  BY <1>3, <1>4, <1>5, <1>7, AddInstructionErr
<1> HIDE DEF n
<1>9. SameNames(n, g)
  BY <1>6 DEF Assembles
<1>10. Len(Open(t)) \in Nat
  BY LastLine
<1>11. NamesOf(n, u, Open(t), Definitions(u), Uses(u))
  BY <1>9, <1>10, NamesOfSame
<1>12. Even(s) /\ Early(u, s)
  BY DEF Coding, Even, Early
<1>13. Answers(n, u)
  BY <1>8, <1>11, <1>12, AnswersOn
<1> QED BY <1>13 DEF n, i

\* The names of the text when the new line mentions none.
LEMMA NoNewName ==
    ASSUME NEW u, NEW t, NEW s, NEW m, Reading1(u, t, s, m), Tracks(m, t),
           ~Naming(s), ~Refers(s), s.op # "local"
    PROVE  /\ NamesOf(m, u, Open(t), Definitions(u), Uses(u)) /\ Early(u, s)
           /\ Definitions(u) = Definitions(t) /\ Uses(u) = Uses(t)
<1>1. t \in Texts /\ s \in Stmts /\ Grown(u, t, s)
  BY Starting
<1>2. Early(u, s)
  BY DEF Early
<1>3. Definitions(u) = Definitions(t) /\ Uses(u) = Uses(t)
  BY <1>1, <1>2, NewLineIs DEF NewLine
<1>4. NamesOf(m, t, Open(t), Definitions(t), Uses(t))
  BY DEF Tracks
<1>5. NamesOf(m, u, Open(t), Definitions(t), Uses(t))
  BY <1>1, <1>4, NamesOfGrow
<1> QED BY <1>2, <1>3, <1>5

LEMMA PlainAnswers ==
    ASSUME NEW u, NEW t, NEW s, NEW m, Reading1(u, t, s, m), Tracks(m, t), m.err = "none",
           s.op \in {"nop", "defs"}
    PROVE  Answers(AddInstruction(m, Instruction(s, Len(t) + 1, Number(0))), u)
<1>1. MemSound(m, u)
  BY Starting
<1>2. ~Naming(s) /\ ~Refers(s) /\ s.op # "local" /\ Coding(s)
  BY DEF Naming, Refers, Relays, Coding
<1>3. NamesOf(m, u, Open(t), Definitions(u), Uses(u))
  BY <1>2, NoNewName
<1> DEFINE v == Number(0)
<1>4. v \in Exprs /\ v.lab \in 0..Len(m.labels)
  <2>1. Len(m.labels) \in Nat
    BY <1>1, Facts
  <2> QED BY <2>1 DEF Number, Exprs
<1> HIDE DEF v
<1>5. Answers(AddInstruction(m, Instruction(s, Len(t) + 1, v)), u)
  BY <1>1, <1>2, <1>3, <1>4, CodeAnswers
<1> QED BY <1>5 DEF v

LEMMA ReferenceAnswers ==
    ASSUME NEW u, NEW t, NEW s, NEW m, Reading1(u, t, s, m), Tracks(m, t), m.err = "none",
           s.op \in {"jp", "jr", "defw"}
    PROVE  LET g == GetLabel(m, <<m.ns, s.name>>)
           IN  Answers(AddInstruction(g.m, Instruction(s, Len(t) + 1,
                                              [lab |-> g.o, k |-> Displacement(m, s)])), u)
<1> DEFINE name == <<m.ns, s.name>>
           g == GetLabel(m, name)
           k == Displacement(m, s)
           v == [lab |-> g.o, k |-> k]
           q == g.m
<1>1. MemSound(m, u) /\ m.index \in Nat /\ t \in Texts /\ s \in Stmts /\ Grown(u, t, s)
  BY Starting
<1>2. Refers(s) /\ ~Naming(s) /\ Coding(s) /\ Early(u, s) /\ s.op # "equ"
  BY DEF Refers, Naming, Coding, Early
<1>3. name \in Keys /\ name = <<Last(Space(t)), s.name>>
  BY KeyTyped, ZenonT(30)
<1>4. name = UsedName(u, Len(u))
  BY <1>2, <1>3, LastLine
<1>5. k \in Int
  BY <1>1 DEF Displacement
<1> HIDE DEF name, k
<1>6. Looks(g, m, u, name) /\ Meets(g, m, name)
  BY <1>1, <1>3, GetLabelSound, GetLabelMeets
<1> HIDE DEF g
<1>7. NamesOf(g.m, u, Open(t), Definitions(t), Uses(u)) /\ MemSound(g.m, u) /\ g.m.err = m.err
  BY <1>2, <1>3, <1>4, <1>6, UseNames
<1>8. v \in Exprs /\ v.lab \in 0..Len(g.m.labels)
  <2>1. Len(g.m.labels) \in Nat /\ g.o \in 1..Len(g.m.labels)
    BY <1>6, <1>7, Facts DEF Looks
  <2> QED BY <1>5, <2>1 DEF Exprs
<1>9. Definitions(u) = Definitions(t)
  BY <1>1, <1>2, NewLineIs DEF NewLine
<1> HIDE DEF v, q
<1>10. Answers(AddInstruction(q, Instruction(s, Len(t) + 1, v)), u)
  BY <1>2, <1>7, <1>8, <1>9, CodeAnswers DEF q
<1> QED BY <1>10 DEF q, v, g, name, k

LEMMA TemporaryJumpAnswers ==
    ASSUME NEW u, NEW t, NEW s, NEW m, Reading1(u, t, s, m), Tracks(m, t), m.err = "none",
           s.op \in {"back", "fwd"}, NEW dir \in Dirs, NEW line0 \in Nat
    PROVE  LET g == GetTemporary(m, s.name, dir, line0)
           IN  Answers(AddInstruction(g.m, Instruction(s, Len(t) + 1,
                                              [lab |-> g.o, k |-> Displacement(m, s)])), u)
<1> DEFINE g == GetTemporary(m, s.name, dir, line0)
           k == Displacement(m, s)
           v == [lab |-> g.o, k |-> k]
           q == g.m
<1>1. MemSound(m, u) /\ m.index \in Nat /\ s.name \in Words
  BY Starting
<1>2. ~Naming(s) /\ ~Refers(s) /\ s.op # "local" /\ Coding(s)
  BY DEF Naming, Refers, Relays, Coding
<1>3. NamesOf(m, u, Open(t), Definitions(u), Uses(u)) /\ Len(Open(t)) \in Nat
  BY <1>2, NoNewName, LastLine
<1>4. k \in Int
  BY <1>1 DEF Displacement
<1>5. Waits(g, m, u)
  BY <1>1, GetTemporarySound
<1>6. NamesOf(g.m, u, Open(t), Definitions(u), Uses(u))
  BY <1>1, <1>3, TemporaryNames
<1> HIDE DEF g, k
<1>7. MemSound(g.m, u) /\ g.o \in 1..Len(g.m.labels) /\ g.m.err = m.err
  BY <1>5 DEF Waits
<1>8. v \in Exprs /\ v.lab \in 0..Len(g.m.labels)
  <2>1. Len(g.m.labels) \in Nat
    BY <1>7, Facts
  <2> QED BY <1>4, <1>7, <2>1 DEF Exprs
<1> HIDE DEF v, q
<1>9. Answers(AddInstruction(q, Instruction(s, Len(t) + 1, v)), u)
  BY <1>2, <1>6, <1>7, <1>8, CodeAnswers DEF q
<1> QED BY <1>9 DEF q, v, g, k

LEMMA LabelAnswers ==
    ASSUME NEW u, NEW t, NEW s, NEW m, Reading1(u, t, s, m), Tracks(m, t), m.err = "none",
           Naming(s), ~Refers(s), OwnNames(u), NEW k \in Int
    PROVE  Answers(DeclareLabel(m, <<m.ns, s.name>>, Number(k)), u)
<1> DEFINE name == <<m.ns, s.name>>
           v == Number(k)
           n == DeclareLabel(m, name, v)
<1>1. MemSound(m, u) /\ t \in Texts /\ s \in Stmts /\ Grown(u, t, s)
  BY Starting
<1>2. name \in Keys /\ name = <<Last(Space(t)), s.name>>
  BY KeyTyped, ZenonT(30)
<1>3. v \in Exprs /\ v.lab \in 0..Len(m.labels)
  <2>1. Len(m.labels) \in Nat
    BY <1>1, Facts
  <2> QED BY <2>1 DEF Number, Exprs
<1> HIDE DEF v, name
<1>4. NamesOne(n, m, name)
  BY <1>1, <1>2, <1>3, DeclareLabelNames
<1>5. s.op # "local" /\ Early(u, s)
  BY DEF Naming, Early
<1>6. Uses(u) = Uses(t)
  BY <1>1, <1>5, NewLineIs DEF NewLine
<1>7. NamesOf(m, t, Open(t), Definitions(t), Uses(t))
  BY DEF Tracks
<1>8. NamesOf(m, u, Open(t), Definitions(t), Uses(u))
  BY <1>1, <1>5, <1>6, <1>7, NamesOfGrow
<1> HIDE DEF n
<1>9. Answers(n, u)
  BY <1>1, <1>2, <1>4, <1>8, DefinesAnswers
<1> QED BY <1>9 DEF n, v, name

LEMMA EquAnswers ==
    ASSUME NEW u, NEW t, NEW s, NEW m, Reading1(u, t, s, m), Tracks(m, t), m.err = "none",
           Relays(s), OwnNames(u)
    PROVE  LET g == GetLabel(m, <<m.ns, s.of>>)
           IN  Answers(DeclareLabel(g.m, <<m.ns, s.name>>, [lab |-> g.o, k |-> s.n]), u)
<1> DEFINE name == <<m.ns, s.name>>
           other == <<m.ns, s.of>>
           g == GetLabel(m, other)
           v == [lab |-> g.o, k |-> s.n]
           q == g.m
           n == DeclareLabel(q, name, v)
<1>1. MemSound(m, u) /\ s.n \in Nat
  BY Starting
<1>2. Naming(s) /\ Refers(s) /\ s.op = "equ"
  BY DEF Naming, Refers, Relays
<1>3. /\ name \in Keys /\ name = <<Last(Space(t)), s.name>>
      /\ other \in Keys /\ other = <<Last(Space(t)), s.of>>
  BY KeyTyped
<1>4. other = UsedName(u, Len(u))
  BY <1>2, <1>3, LastLine
<1> HIDE DEF name, other
<1>5. Looks(g, m, u, other) /\ Meets(g, m, other)
  BY <1>1, <1>3, GetLabelSound, GetLabelMeets
<1> HIDE DEF g
<1>6. NamesOf(g.m, u, Open(t), Definitions(t), Uses(u)) /\ MemSound(g.m, u) /\ g.m.err = m.err
  BY <1>2, <1>3, <1>4, <1>5, UseNames
<1>7. v \in Exprs /\ v.lab \in 0..Len(g.m.labels)
  <2>1. Len(g.m.labels) \in Nat /\ g.o \in 1..Len(g.m.labels)
    BY <1>5, <1>6, Facts DEF Looks
  <2> QED BY <1>1, <2>1 DEF Exprs
<1> HIDE DEF v, q
<1>8. NamesOne(n, q, name)
  BY <1>3, <1>6, <1>7, DeclareLabelNames DEF q
<1> HIDE DEF n
<1>9. Answers(n, u)
  BY <1>2, <1>3, <1>6, <1>8, DefinesAnswers DEF q
<1> QED BY <1>9 DEF n, q, v, g, name, other

LEMMA TemporaryAnswers ==
    ASSUME NEW u, NEW t, NEW s, NEW m, Reading1(u, t, s, m), Tracks(m, t), m.err = "none",
           s.op = "tmp", NEW line0 \in Nat
    PROVE  Answers(DeclareTemporary(m, s.name, line0), u)
<1> DEFINE n == DeclareTemporary(m, s.name, line0)
<1>1. MemSound(m, u) /\ s.name \in Words
  BY Starting
<1>2. ~Naming(s) /\ ~Refers(s) /\ s.op # "local" /\ Even(s)
  BY DEF Naming, Refers, Relays, Even
<1>3. NamesOf(m, u, Open(t), Definitions(u), Uses(u)) /\ Len(Open(t)) \in Nat /\ Early(u, s)
  BY <1>2, NoNewName, LastLine
<1>4. Alike(n, m, u) /\ n.err = m.err
  BY <1>1, DeclareTemporarySound
<1> HIDE DEF n
<1>5. NamesOf(n, u, Open(t), Definitions(u), Uses(u))
  BY <1>3, <1>4, NamesOfSame DEF Alike
<1>6. n.err \in Others
  BY <1>4 DEF Others
<1>7. Answers(n, u)
  BY <1>2, <1>3, <1>5, <1>6, AnswersOn
<1> QED BY <1>7 DEF n

\* ORG complains of what is beyond the memory.
LEMMA SetOrgErr ==
    ASSUME NEW m \in Memory, m.err = "none", NEW v \in Nat
    PROVE  SetOrg(m, v).err = IF v > MaxMem THEN "ORG out of range" ELSE "none"
<1> DEFINE e == "ORG out of range"
           far == v > MaxMem
           q == IF far THEN Error(m, e) ELSE m
           n == SetOrg(m, v)
<1>1. (v < 0 \/ v > MaxMem) <=> far
  OBVIOUS
<1>2. n = [ClearTemporaryLabels(q) EXCEPT !.index = v]
  BY <1>1 DEF SetOrg
<1>3. e \in Messages
  BY DEF Messages
<1> HIDE DEF e, far, n
<1>4. q \in Memory /\ q.err = IF far THEN e ELSE "none"
  <2>1. Complains(Error(m, e), m, e)
    BY <1>3, ErrorFields
  <2>2. Error(m, e) \in Memory /\ Error(m, e).err = e
    BY <2>1 DEF Complains
  <2> QED BY <2>2
<1> HIDE DEF q
<1>5. n.err = q.err
  BY <1>2, <1>4 DEF ClearTemporaryLabels, Memory
<1> QED BY <1>4, <1>5 DEF n, far, e

LEMMA OrgAnswers ==
    ASSUME NEW u, NEW t, NEW s, NEW m, Reading1(u, t, s, m), Tracks(m, t), m.err = "none",
           s.op \in {"org", "align"}, NoOrgAfterTemporary(u),
           NEW v \in Nat, v >= m.index, v = Place(u)
    PROVE  Answers(SetOrg(m, v), u)
<1> DEFINE n == SetOrg(m, v)
           e == "ORG out of range"
<1>1. MemSound(m, u) /\ m \in Memory /\ t \in Texts /\ s \in Stmts /\ Grown(u, t, s)
  BY Starting
<1>2. ~Naming(s) /\ ~Refers(s) /\ s.op # "local" /\ ~Closing(s) /\ s.op # "pop"
  BY DEF Naming, Refers, Relays, Closing
<1>3. NamesOf(m, u, Open(t), Definitions(u), Uses(u)) /\ Len(Open(t)) \in Nat /\ Early(u, s)
  BY <1>2, NoNewName, LastLine
<1>4. m.waiting = << >>
  BY NoneWaits
<1>5. Moves(n, m, u, v)
  BY <1>1, <1>4, SetOrgSound
<1>6. n.err = IF v > MaxMem THEN e ELSE "none"
  BY <1>1, SetOrgErr
<1>7. e # "none" /\ (TooFar(u) => Justified(e, u))
  BY JustifiedBy
<1> HIDE DEF n, e
<1>8. CASE v > MaxMem
  <2>1. TooFar(u)
    BY <1>1, <1>8, FaultsGrow
  <2>2. n.err = e
    BY <1>6, <1>8
  <2>3. Justified(n.err, u)
    BY <1>7, <2>1, <2>2
  <2>4. Answers(n, u)
    BY <1>7, <2>2, <2>3 DEF Answers
  <2> QED BY <2>4 DEF n
<1>9. CASE ~(v > MaxMem)
  <2>1. n.err = "none"
    BY <1>6, <1>9
  <2>2. SameNames(n, m)
    BY <1>5 DEF Moves
  <2>3. NamesOf(n, u, Open(t), Definitions(u), Uses(u))
    BY <1>3, <2>2, NamesOfSame
  <2>4. Tracks(n, u)
    BY <1>2, <1>3, <1>9, <2>3, TracksOn
  <2>5. n.err \in Others
    BY <2>1 DEF Others
  <2>6. Justified(n.err, u)
    BY <2>5, JustifiedBy
  <2>7. Answers(n, u)
    BY <2>4, <2>6 DEF Answers
  <2> QED BY <2>7 DEF n
<1> QED BY <1>8, <1>9

LEMMA ProcAnswers ==
    ASSUME NEW u, NEW t, NEW s, NEW m, Reading1(u, t, s, m), Tracks(m, t), m.err = "none", s.op = "proc"
    PROVE  Answers(EnterProc(m), u)
<1> DEFINE n == EnterProc(m)
<1>1. MemSound(m, t) /\ t \in Texts /\ s \in Stmts /\ Grown(u, t, s)
  BY Starting
<1>2. ~Naming(s) /\ ~Refers(s) /\ s.op # "local" /\ s.op # "endp" /\ s.op # "pop" /\ s.op \notin {"org", "align"}
  BY DEF Naming, Refers, Relays
<1>3. Definitions(u) = Definitions(t) /\ Uses(u) = Uses(t) /\ Early(u, s)
  BY <1>2, NoNewName
<1>4. Enters(n, m, t)
  BY <1>1, EnterProcSound
<1> HIDE DEF n
<1>5. NamesOf(m, t, Open(t), Definitions(t), Uses(t)) /\ FineYet(t, Open(t))
  BY DEF Tracks
<1>6. NamesOf(n, u, Open(u), Definitions(t), Uses(t))
  BY <1>1, <1>4, <1>5, ProcNames
<1>7. FineYet(u, Open(u))
  BY <1>1, <1>2, <1>3, <1>5, FineGrows
<1>8. Tracks(n, u)
  BY <1>3, <1>6, <1>7 DEF Tracks
<1>9. n.err \in Others
  BY <1>4 DEF Enters, Others
<1>10. Justified(n.err, u)
  BY <1>9, JustifiedBy
<1>11. Answers(n, u)
  BY <1>8, <1>10 DEF Answers
<1> QED BY <1>11 DEF n

LEMMA LocalAnswers ==
    ASSUME NEW u, NEW t, NEW s, NEW m, Reading1(u, t, s, m), Tracks(m, t), m.err = "none",
           s.op = "local", LocalFirst(u)
    PROVE  Answers(SetLabel(m, <<m.ns, s.name>>), u)
<1> DEFINE name == <<m.ns, s.name>>
           n == SetLabel(m, name)
           o == Open(t)
<1>1. MemSound(m, t) /\ t \in Texts /\ s \in Stmts /\ Grown(u, t, s) /\ Bound(m, t, o)
  BY Starting
<1>2. name \in Keys /\ name = <<Last(Space(t)), s.name>>
  BY KeyTyped, ZenonT(30)
<1>3. ~Naming(s) /\ ~Refers(s) /\ Even(s) /\ Early(u, s)
  BY DEF Naming, Refers, Relays, Even, Early
<1> HIDE DEF name
<1>4. HidesOne(n, m, name) /\ n.err = m.err
  BY <1>1, <1>2, SetLabelHides, SetLabelSound DEF Hides
<1>5. Definitions(u) = Definitions(t) /\ Uses(u) = Uses(t)
  BY <1>1, <1>3, NewLineIs DEF NewLine
<1>6. NamesOf(m, t, o, Definitions(t), Uses(t))
  BY DEF Tracks
<1> HIDE DEF n, o
<1>7. NamesOf(n, u, o, Definitions(t), Uses(t))
  BY <1>1, <1>2, <1>4, <1>6, LocalNames DEF o
<1>8. n.err \in Others
  BY <1>4 DEF Others
<1>9. Answers(n, u)
  BY <1>3, <1>5, <1>7, <1>8, AnswersOn DEF o
<1> QED BY <1>9 DEF n, name

\* A line that leaves the names as they are.
LEMMA SameAnswers ==
    ASSUME NEW u, NEW t, NEW s, NEW m, Reading1(u, t, s, m), Tracks(m, t), m.err = "none",
           s.op \in {"namespace", "push", "init", "pop"}, s.op = "pop" => Len(Space(t)) # 1,
           NEW n, SameNames(n, m), n.err = m.err
    PROVE  Answers(n, u)
<1>1. ~Naming(s) /\ ~Refers(s) /\ s.op # "local" /\ ~Closing(s) /\ s.op \notin {"org", "align"}
  BY DEF Naming, Refers, Relays, Closing
<1>2. NamesOf(m, u, Open(t), Definitions(u), Uses(u)) /\ Len(Open(t)) \in Nat /\ Early(u, s)
  BY <1>1, NoNewName, LastLine
<1>3. NamesOf(n, u, Open(t), Definitions(u), Uses(u))
  BY <1>2, NamesOfSame
<1>4. Tracks(n, u)
  BY <1>1, <1>2, <1>3, TracksOn
<1>5. n.err \in Others
  BY DEF Others
<1> QED BY <1>4, <1>5, JustifiedBy DEF Answers

LEMMA SpaceAnswers ==
    ASSUME NEW u, NEW t, NEW s, NEW m, Reading1(u, t, s, m), Tracks(m, t), m.err = "none"
    PROVE  /\ s.op = "namespace" => Answers([m EXCEPT !.ns = s.name], u)
           /\ s.op = "push" => Answers([m EXCEPT !.ns = s.name, !.nsStack = Append(@, m.ns)], u)
           /\ s.op = "init" => Answers(m, u)
<1>1. m \in Memory
  BY Starting
<1>2. ASSUME s.op = "namespace" PROVE Answers([m EXCEPT !.ns = s.name], u)
  <2> DEFINE n == [m EXCEPT !.ns = s.name]
  <2>1. SameNames(n, m) /\ n.err = m.err
    BY <1>1 DEF Memory, SameNames
  <2>2. s.op \in {"namespace", "push", "init", "pop"} /\ s.op # "pop"
    BY <1>2
  <2> HIDE DEF n
  <2>3. Answers(n, u)
    BY <2>1, <2>2, SameAnswers
  <2> QED BY <2>3 DEF n
<1>3. ASSUME s.op = "push" PROVE Answers([m EXCEPT !.ns = s.name, !.nsStack = Append(@, m.ns)], u)
  <2> DEFINE f == Append(m.nsStack, m.ns)
             n == [m EXCEPT !.ns = s.name, !.nsStack = f]
  <2> HIDE DEF f
  <2>1. SameNames(n, m) /\ n.err = m.err
    BY <1>1 DEF Memory, SameNames
  <2>2. s.op \in {"namespace", "push", "init", "pop"} /\ s.op # "pop"
    BY <1>3
  <2> HIDE DEF n
  <2>3. Answers(n, u)
    BY <2>1, <2>2, SameAnswers
  <2> QED BY <2>3 DEF n, f
<1>4. ASSUME s.op = "init" PROVE Answers(m, u)
  <2>1. SameNames(m, m)
    BY DEF SameNames
  <2>2. s.op \in {"namespace", "push", "init", "pop"} /\ s.op # "pop"
    BY <1>4
  <2> QED BY <2>1, <2>2, SameAnswers
<1> QED BY <1>2, <1>3, <1>4

LEMMA PopAnswers ==
    ASSUME NEW u, NEW t, NEW s, NEW m, Reading1(u, t, s, m), Tracks(m, t), m.err = "none", s.op = "pop"
    PROVE  Answers(IF m.nsStack = << >> THEN Error(m, "no namespace to pop")
                   ELSE [m EXCEPT !.ns = Last(m.nsStack), !.nsStack = Front(@)], u)
<1> DEFINE p == Space(t)
           e == "no namespace to pop"
<1>1. m \in Memory /\ t \in Texts /\ s \in Stmts /\ Grown(u, t, s) /\ ReadInv(m, t)
  BY Starting
<1>2. p \in Seq(Words) /\ Len(p) >= 1
  BY <1>1, EndTyped
<1>3. m.nsStack = Front(p)
  BY <1>1 DEF ReadInv
<1> HIDE DEF p
<1>4. Front(p) \in Seq(Words) /\ Len(Front(p)) = Len(p) - 1 /\ Len(p) \in Nat
  BY <1>2, FrontOf
<1>5. m.nsStack = << >> <=> Len(p) = 1
  <2> DEFINE f == Front(p)
             k == Len(p)
  <2>1. f \in Seq(Words) /\ Len(f) = k - 1 /\ k \in Nat
    BY <1>4
  <2> HIDE DEF f, k
  <2>2. f = << >> <=> k = 1
    BY <2>1
  <2> QED BY <1>3, <2>2 DEF f, k
<1>6. e \in Messages /\ e # "none" /\ (Unpushed(u) => Justified(e, u))
  BY JustifiedBy DEF Messages
<1> HIDE DEF e
<1>7. CASE m.nsStack = << >>
  <2> DEFINE q == Error(m, e)
  <2>1. Complains(q, m, e)
    BY <1>1, <1>6, ErrorFields
  <2> HIDE DEF q
  <2>2. q.err = e
    BY <2>1 DEF Complains
  <2>3. Unpushed(u)
    BY <1>1, <1>5, <1>7, FaultsGrow DEF p
  <2>4. Answers(q, u)
    BY <1>6, <2>2, <2>3 DEF Answers
  <2> QED BY <1>7, <2>4 DEF q, e
<1>8. CASE m.nsStack # << >>
  <2> DEFINE w == Last(m.nsStack)
             f == Front(m.nsStack)
             n == [m EXCEPT !.ns = w, !.nsStack = f]
  <2> HIDE DEF w, f
  <2>1. SameNames(n, m) /\ n.err = m.err
    BY <1>1 DEF Memory, SameNames
  <2>2. s.op \in {"namespace", "push", "init", "pop"} /\ Len(Space(t)) # 1
    BY <1>5, <1>8 DEF p
  <2> HIDE DEF n
  <2>3. Answers(n, u)
    BY <2>1, <2>2, SameAnswers
  <2> QED BY <1>8, <2>3 DEF n, w, f
<1> QED BY <1>7, <1>8

\* What END leaves when the value of its name is v.
Ends(m, s, v) ==
    LET g == GetLabel(m, <<m.ns, s.name>>)
    IN  IF v = None THEN Error(g.m, "undefined label") ELSE g.m

LEMMA EndAnswers ==
    ASSUME NEW u, NEW t, NEW s, NEW m, Reading1(u, t, s, m), Tracks(m, t), m.err = "none", s.op = "end",
           NEW v
    PROVE  Answers(Ends(m, s, v), u) /\ Ends(m, s, v).ns = m.ns
<1> DEFINE name == <<m.ns, s.name>>
           g == GetLabel(m, name)
           e == "undefined label"
           q == g.m
           n == IF v = None THEN Error(q, e) ELSE q
<1>1. MemSound(m, u) /\ t \in Texts /\ s \in Stmts /\ Grown(u, t, s)
  BY Starting
<1>2. Refers(s) /\ ~Naming(s) /\ Even(s) /\ Early(u, s) /\ s.op # "equ"
  BY DEF Refers, Naming, Even, Early
<1>3. name \in Keys /\ name = <<Last(Space(t)), s.name>>
  BY KeyTyped, ZenonT(30)
<1>4. name = UsedName(u, Len(u))
  BY <1>2, <1>3, LastLine
<1> HIDE DEF name
<1>5. Looks(g, m, u, name) /\ Meets(g, m, name)
  BY <1>1, <1>3, GetLabelSound, GetLabelMeets
<1> HIDE DEF g
<1>6. NamesOf(g.m, u, Open(t), Definitions(t), Uses(u)) /\ MemSound(g.m, u) /\ g.m.err = m.err
  BY <1>2, <1>3, <1>4, <1>5, UseNames
<1>7. Definitions(u) = Definitions(t) /\ g.m.ns = m.ns
  BY <1>1, <1>2, <1>5, NewLineIs DEF NewLine, Looks, Kept, SameRest
<1>8. e \in Messages /\ e # "none" /\ e \in Others /\ m.err \in Others
  BY DEF Messages, Others
<1> HIDE DEF e, q
<1>9. Alike(Error(q, e), q, u) /\ SameRest(Error(q, e), q) /\ Complains(Error(q, e), q, e)
  BY <1>6, <1>8, ErrorSound, ErrorFields DEF q, MemSound
<1>10. SameNames(n, q) /\ n.ns = m.ns /\ n.err \in Others
  <2>1. CASE v = None
    <3>1. n = Error(q, e)
      BY <2>1
    <3>2. n.err = e
      BY <1>6, <1>9, <3>1 DEF Complains, q
    <3> QED BY <1>7, <1>8, <1>9, <3>1, <3>2 DEF Alike, SameRest, q
  <2>2. CASE v # None
    <3>1. n = q
      BY <2>2
    <3> QED BY <1>6, <1>7, <1>8, <3>1 DEF SameNames, q
  <2> QED BY <2>1, <2>2
<1> HIDE DEF n
<1>11. NamesOf(q, u, Open(t), Definitions(u), Uses(u)) /\ Len(Open(t)) \in Nat
  BY <1>6, <1>7, LastLine DEF q
<1>12. NamesOf(n, u, Open(t), Definitions(u), Uses(u))
  BY <1>10, <1>11, NamesOfSame
<1>13. Answers(n, u)
  BY <1>2, <1>10, <1>12, AnswersOn
<1> QED BY <1>10, <1>13 DEF n, q, e, g, name, Ends

-----------------------------------------------------------------------------
(* The invariant.                                                          *)

\* The text asks for _INIT to call x.
Inited(t, x) == \E i \in Lines(t, {"init"}) : t[i].name = x

NamesInv ==
    /\ Justified(mem.err, text)
    /\ phase \in {"reading", "ended"} => mem.err = "none" /\ Tracks(mem, text)
    /\ phase \in {"assembled", "called"} =>
         Sound(text) /\ Globals(mem, text) /\ mem.err \in Others
    /\ phase \in {"ended", "assembled", "called"} => mem.ns = Last(Space(text))
    /\ \A x \in Words : x \in Range(inits) <=> Inited(text, x)
    /\ phase = "called" => Inits(text) \subseteq DOMAIN mem.scopes[1]
    /\ phase = "written" => Sound(text) /\ ~GlobalLost(text)


LEMMA InitedGrows ==
    ASSUME NEW t \in Texts, NEW s \in Stmts, NEW u, Grown(u, t, s), NEW x
    PROVE  Inited(u, x) <=> Inited(t, x) \/ (s.op = "init" /\ s.name = x)
<1> DEFINE A == {"init"}
<1>1. /\ DOMAIN t = 1..Len(t) /\ Len(t) \in Nat /\ DOMAIN u = 1..Len(u) /\ Len(u) = Len(t) + 1
      /\ u[Len(u)] = s /\ \A i \in 1..Len(t) : u[i] = t[i]
  BY DEF Grown, Texts
<1>2. 1..Len(u) = 1..Len(t) \cup {Len(u)}
  BY <1>1
<1>3. s.op \in A <=> s.op = "init"
  OBVIOUS
<1> HIDE DEF A
<1>4. \A i \in 1..Len(u) : i \in 1..Len(t) \/ i = Len(u)
  BY <1>2
<1>5. \A i \in 1..Len(t) : i \in 1..Len(u)
  BY <1>2
<1>6. \A i : i \in Lines(u, A) <=> i \in Lines(t, A) \/ (i = Len(u) /\ s.op \in A)
  BY <1>1, <1>2 DEF Lines
<1>7. \A i \in Lines(t, A) : u[i] = t[i]
  BY <1>1 DEF Lines
<1>8. Inited(u, x) <=> \E i \in Lines(u, A) : u[i].name = x
  BY DEF Inited, A
<1>9. Inited(t, x) <=> \E i \in Lines(t, A) : t[i].name = x
  BY DEF Inited, A
<1> QED BY <1>1, <1>3, <1>6, <1>7, <1>8, <1>9

LEMMA RangeOfAppend ==
    ASSUME NEW q \in Seq(Words), NEW v \in Words, NEW x
    PROVE  x \in Range(Append(q, v)) <=> x \in Range(q) \/ x = v
<1> DEFINE r == Append(q, v)
<1>1. /\ DOMAIN q = 1..Len(q) /\ Len(q) \in Nat /\ DOMAIN r = 1..(Len(q) + 1)
      /\ r[Len(q) + 1] = v /\ \A i \in 1..Len(q) : r[i] = q[i]
  OBVIOUS
<1> HIDE DEF r
<1>2. \A i : i \in DOMAIN r <=> i \in DOMAIN q \/ i = Len(q) + 1
  BY <1>1
<1>3. \A i \in DOMAIN q : r[i] = q[i]
  BY <1>1
<1>4. x \in Range(r) <=> \E i \in DOMAIN r : r[i] = x
  BY DEF Range
<1>5. x \in Range(q) <=> \E i \in DOMAIN q : q[i] = x
  BY DEF Range
<1> QED BY <1>1, <1>2, <1>3, <1>4, <1>5 DEF r

LEMMA SpaceAtEnd ==
    ASSUME NEW t, NEW s, NEW u, Grown(u, t, s), s.op = "end" PROVE Space(u) = Space(t)
<1>1. /\ Len(u) \in Nat /\ Len(u) >= 1 /\ u[Len(u)] = s
      /\ Space(u) = Step("space", u, Space(t), Len(u) + 1)
  BY DEF Grown
<1>2. Len(u) + 1 # 1 /\ (Len(u) + 1) - 1 = Len(u)
  BY <1>1
<1> QED BY <1>1, <1>2 DEF Step

LEMMA ReadAnswers ==
    ASSUME Inv, NamesInv, Reading, NEW op, NEW s \in Statement(op), NEW n, Reads(s, n),
           Answers(n, Append(text, s)), op = "end" => n.ns = mem.ns,
           inits' = IF op = "init" THEN Append(inits, s.name) ELSE inits
    PROVE  NamesInv'
<1> DEFINE u == Append(text, s)
<1>1. Reading1(u, text, s, mem) /\ s.op = op
  BY StatementStarts
<1>2. text' = u /\ mem' = n
  BY DEF Reads
<1>3. phase' = IF n.err # "none" THEN "failed" ELSE IF s.op = "end" THEN "ended" ELSE "reading"
  BY DEF Reads
<1>4. Justified(n.err, u) /\ (n.err = "none" => Tracks(n, u))
  BY DEF Answers
<1> HIDE DEF u
<1>5. /\ text \in Texts /\ s \in Stmts /\ Grown(u, text, s) /\ s.name \in Words
      /\ mem.ns = Last(Space(text))
  BY <1>1, Starting
<1>6. phase' \in {"reading", "ended"} => mem'.err = "none" /\ Tracks(mem', text')
  BY <1>2, <1>3, <1>4
<1>7. phase' \notin {"assembled", "called", "written"} /\ phase' # "called" /\ phase' # "written"
  BY <1>3
<1>8. phase' = "ended" => mem'.ns = Last(Space(text'))
  BY <1>1, <1>2, <1>3, <1>5, SpaceAtEnd
<1>9. ASSUME NEW x \in Words PROVE x \in Range(inits') <=> Inited(text', x)
  <2>1. x \in Range(inits) <=> Inited(text, x)
    BY DEF NamesInv
  <2>2. Inited(u, x) <=> Inited(text, x) \/ (op = "init" /\ s.name = x)
    BY <1>1, <1>5, InitedGrows
  <2>3. inits \in Seq(Words)
    BY DEF Inv
  <2>4. CASE op = "init"
    <3>1. x \in Range(Append(inits, s.name)) <=> x \in Range(inits) \/ x = s.name
      BY <1>5, <2>3, RangeOfAppend
    <3> QED BY <1>2, <2>1, <2>2, <2>4, <3>1
  <2>5. CASE op # "init"
    BY <1>2, <2>1, <2>2, <2>5
  <2> QED BY <2>4, <2>5
<1>10. Justified(mem'.err, text')
  BY <1>2, <1>4
<1> QED BY <1>6, <1>7, <1>8, <1>9, <1>10 DEF NamesInv

\* What has been read.
LEMMA SoFar ==
    ASSUME NamesInv, Reading
    PROVE  Tracks(mem, text) /\ mem.err = "none"
BY DEF NamesInv, Reading

LEMMA NamesAnswered ==
    ASSUME Inv, NamesInv, Reading, ReadLabel \/ ReadEqu \/ ReadTemporary PROVE NamesInv'
<1>0. Tracks(mem, text) /\ mem.err = "none" /\ line \in Nat
  BY SoFar DEF Inv, Texts
<1>1. CASE ReadLabel
  <2>1. PICK s \in Statement("label") :
          Reads(s, DeclareLabel(mem, <<mem.ns, s.name>>, Number(mem.index)))
    BY <1>1 DEF ReadLabel
  <2> DEFINE u == Append(text, s)
             n == DeclareLabel(mem, <<mem.ns, s.name>>, Number(mem.index))
  <2>2. Reading1(u, text, s, mem) /\ KeepsRules(u) /\ s.op = "label"
    BY StatementStarts
  <2> HIDE DEF u
  <2>3. mem.index \in Int
    BY <2>2, Starting
  <2>4. Naming(s) /\ ~Refers(s) /\ OwnNames(u)
    BY <2>2 DEF KeepsRules, Naming, Refers, Relays
  <2>5. Answers(n, u)
    BY <1>0, <2>2, <2>3, <2>4, LabelAnswers
  <2>6. Reads(s, n) /\ inits' = inits
    BY <1>1, <2>1 DEF ReadLabel
  <2> HIDE DEF n
  <2> QED BY <2>5, <2>6, ReadAnswers DEF u
<1>2. CASE ReadEqu
  <2>1. PICK s \in Statement("equ") :
          LET g == GetLabel(mem, <<mem.ns, s.of>>)
          IN  Reads(s, IF s.of = "" THEN DeclareLabel(mem, <<mem.ns, s.name>>, Number(s.n))
                       ELSE DeclareLabel(g.m, <<mem.ns, s.name>>, [lab |-> g.o, k |-> s.n]))
    BY <1>2 DEF ReadEqu
  <2> DEFINE u == Append(text, s)
             g == GetLabel(mem, <<mem.ns, s.of>>)
             p == DeclareLabel(mem, <<mem.ns, s.name>>, Number(s.n))
             q == DeclareLabel(g.m, <<mem.ns, s.name>>, [lab |-> g.o, k |-> s.n])
             n == IF s.of = "" THEN p ELSE q
  <2>2. Reading1(u, text, s, mem) /\ KeepsRules(u) /\ s.op = "equ"
    BY StatementStarts
  <2> HIDE DEF u
  <2>3. s.n \in Int
    BY <2>2, Starting
  <2>4. Naming(s) /\ OwnNames(u) /\ (s.of = "" => ~Refers(s)) /\ (s.of # "" => Relays(s))
    BY <2>2 DEF KeepsRules, Naming, Refers, Relays
  <2>5. s.of = "" => Answers(p, u)
    <3> DEFINE k == s.n
    <3> HIDE DEF k
    <3>1. s.of = "" => Answers(DeclareLabel(mem, <<mem.ns, s.name>>, Number(k)), u)
      BY <1>0, <2>2, <2>3, <2>4, LabelAnswers DEF k
    <3> QED BY <3>1 DEF k
  <2>6. s.of # "" => Answers(q, u)
    BY <1>0, <2>2, <2>4, EquAnswers
  <2> HIDE DEF p, q
  <2>7. Answers(n, u)
    BY <2>5, <2>6
  <2>8. Reads(s, n) /\ inits' = inits
    BY <1>2, <2>1 DEF ReadEqu, p, q
  <2> HIDE DEF n
  <2> QED BY <2>7, <2>8, ReadAnswers DEF u
<1>3. CASE ReadTemporary
  <2>1. PICK s \in Statement("tmp") : Reads(s, DeclareTemporary(mem, s.name, line))
    BY <1>3 DEF ReadTemporary
  <2> DEFINE u == Append(text, s)
             n == DeclareTemporary(mem, s.name, line)
  <2>2. Reading1(u, text, s, mem) /\ s.op = "tmp"
    BY StatementStarts
  <2> HIDE DEF u
  <2>3. Answers(n, u)
    BY <1>0, <2>2, TemporaryAnswers
  <2>4. Reads(s, n) /\ inits' = inits
    BY <1>3, <2>1 DEF ReadTemporary
  <2> HIDE DEF n
  <2> QED BY <2>3, <2>4, ReadAnswers DEF u
<1> QED BY <1>1, <1>2, <1>3

LEMMA CodeAnswered ==
    ASSUME Inv, NamesInv, Reading, ReadPlain \/ ReadReference \/ ReadTemporaryJump PROVE NamesInv'
<1>0. Tracks(mem, text) /\ mem.err = "none" /\ line \in Nat
  BY SoFar DEF Inv, Texts
<1>1. CASE ReadPlain
  <2>1. PICK s \in Statement("nop") \cup Statement("defs") :
          Reads(s, AddInstruction(mem, Instruction(s, Len(text) + 1, Number(0))))
    BY <1>1 DEF ReadPlain
  <2> DEFINE u == Append(text, s)
             n == AddInstruction(mem, Instruction(s, Len(text) + 1, Number(0)))
  <2>2. PICK op \in {"nop", "defs"} : s \in Statement(op)
    OBVIOUS
  <2>3. Reading1(u, text, s, mem) /\ s.op = op
    BY <2>2, StatementStarts
  <2> HIDE DEF u
  <2>4. s.op \in {"nop", "defs"} /\ op # "init" /\ op # "end"
    BY <2>3
  <2>5. Answers(n, u)
    BY <1>0, <2>3, <2>4, PlainAnswers
  <2>6. Reads(s, n) /\ inits' = inits
    BY <1>1, <2>1 DEF ReadPlain
  <2> HIDE DEF n
  <2> QED BY <2>2, <2>4, <2>5, <2>6, ReadAnswers DEF u
<1>2. CASE ReadReference
  <2>1. PICK op \in {"jp", "jr", "defw"} : \E s \in Statement(op) :
          LET g == GetLabel(mem, <<mem.ns, s.name>>)
          IN  Reads(s, AddInstruction(g.m, Instruction(s, Len(text) + 1,
                                               [lab |-> g.o, k |-> Displacement(mem, s)])))
    BY <1>2 DEF ReadReference
  <2>2. PICK s \in Statement(op) :
          LET g == GetLabel(mem, <<mem.ns, s.name>>)
          IN  Reads(s, AddInstruction(g.m, Instruction(s, Len(text) + 1,
                                               [lab |-> g.o, k |-> Displacement(mem, s)])))
    BY <2>1
  <2> DEFINE u == Append(text, s)
             g == GetLabel(mem, <<mem.ns, s.name>>)
             n == AddInstruction(g.m, Instruction(s, Len(text) + 1,
                                                  [lab |-> g.o, k |-> Displacement(mem, s)]))
  <2>3. Reading1(u, text, s, mem) /\ s.op = op
    BY StatementStarts
  <2> HIDE DEF u
  <2>4. s.op \in {"jp", "jr", "defw"} /\ op # "init" /\ op # "end"
    BY <2>3
  <2>5. Answers(n, u)
    BY <1>0, <2>3, <2>4, ReferenceAnswers
  <2>6. Reads(s, n) /\ inits' = inits
    BY <1>2, <2>2 DEF ReadReference
  <2> HIDE DEF n
  <2> QED BY <2>4, <2>5, <2>6, ReadAnswers DEF u
<1>3. CASE ReadTemporaryJump
  <2>1. PICK op \in {"back", "fwd"} : \E s \in Statement(op) :
          LET g == GetTemporary(mem, s.name, IF op = "back" THEN "B" ELSE "F", line)
          IN  Reads(s, AddInstruction(g.m, Instruction(s, Len(text) + 1,
                                               [lab |-> g.o, k |-> Displacement(mem, s)])))
    BY <1>3 DEF ReadTemporaryJump
  <2> DEFINE dir == IF op = "back" THEN "B" ELSE "F"
  <2>2. PICK s \in Statement(op) :
          LET g == GetTemporary(mem, s.name, dir, line)
          IN  Reads(s, AddInstruction(g.m, Instruction(s, Len(text) + 1,
                                               [lab |-> g.o, k |-> Displacement(mem, s)])))
    BY <2>1
  <2> DEFINE u == Append(text, s)
             g == GetTemporary(mem, s.name, dir, line)
             n == AddInstruction(g.m, Instruction(s, Len(text) + 1,
                                                  [lab |-> g.o, k |-> Displacement(mem, s)]))
  <2>3. Reading1(u, text, s, mem) /\ s.op = op
    BY StatementStarts
  <2>4. dir \in Dirs
    BY DEF Dirs
  <2> HIDE DEF u, dir
  <2>5. s.op \in {"back", "fwd"} /\ op # "init" /\ op # "end"
    BY <2>3
  <2>6. Answers(n, u)
    BY <1>0, <2>3, <2>4, <2>5, TemporaryJumpAnswers
  <2>7. Reads(s, n) /\ inits' = inits
    BY <1>3, <2>2 DEF ReadTemporaryJump
  <2> HIDE DEF n
  <2> QED BY <2>5, <2>6, <2>7, ReadAnswers DEF u
<1> QED BY <1>1, <1>2, <1>3

LEMMA PlaceAnswered ==
    ASSUME Inv, NamesInv, Reading, ReadOrg \/ ReadAlign PROVE NamesInv'
<1>0. Tracks(mem, text) /\ mem.err = "none"
  BY SoFar
<1>1. CASE ReadOrg
  <2>1. PICK s \in Statement("org") : Reads(s, SetOrg(mem, s.n))
    BY <1>1 DEF ReadOrg
  <2> DEFINE u == Append(text, s)
             v == s.n
             n == SetOrg(mem, v)
  <2>2. Reading1(u, text, s, mem) /\ KeepsRules(u) /\ s.op = "org"
    BY StatementStarts
  <2> HIDE DEF u
  <2>3. v \in Nat /\ v >= mem.index /\ v = Place(u)
    BY <2>2, OrgGoesUp DEF KeepsRules
  <2>4. s.op \in {"org", "align"} /\ NoOrgAfterTemporary(u)
    BY <2>2 DEF KeepsRules
  <2> HIDE DEF v
  <2>5. Answers(n, u)
    BY <1>0, <2>2, <2>3, <2>4, OrgAnswers
  <2>6. Reads(s, n) /\ inits' = inits
    BY <1>1, <2>1 DEF ReadOrg, v
  <2> HIDE DEF n
  <2> QED BY <2>5, <2>6, ReadAnswers DEF u
<1>2. CASE ReadAlign
  <2>1. PICK s \in Statement("align") :
          Reads(s, SetOrg(mem, mem.index + ((s.n - (mem.index % s.n)) % s.n)))
    BY <1>2 DEF ReadAlign
  <2> DEFINE u == Append(text, s)
             v == mem.index + ((s.n - (mem.index % s.n)) % s.n)
             n == SetOrg(mem, v)
  <2>2. Reading1(u, text, s, mem) /\ KeepsRules(u) /\ s.op = "align"
    BY StatementStarts
  <2> HIDE DEF u
  <2>3. v \in Nat /\ v >= mem.index /\ v = Place(u)
    BY <2>2, AlignGoesUp
  <2>4. s.op \in {"org", "align"} /\ NoOrgAfterTemporary(u)
    BY <2>2 DEF KeepsRules
  <2> HIDE DEF v
  <2>5. Answers(n, u)
    BY <1>0, <2>2, <2>3, <2>4, OrgAnswers
  <2>6. Reads(s, n) /\ inits' = inits
    BY <1>2, <2>1 DEF ReadAlign, v
  <2> HIDE DEF n
  <2> QED BY <2>5, <2>6, ReadAnswers DEF u
<1> QED BY <1>1, <1>2

LEMMA ScopeAnswered ==
    ASSUME Inv, NamesInv, Reading, ReadProc \/ ReadEndp \/ ReadLocal PROVE NamesInv'
<1>0. Tracks(mem, text) /\ mem.err = "none"
  BY SoFar
<1>1. CASE ReadProc
  <2>1. PICK s \in Statement("proc") : Reads(s, EnterProc(mem))
    BY <1>1 DEF ReadProc
  <2> DEFINE u == Append(text, s)
  <2>2. Reading1(u, text, s, mem) /\ s.op = "proc"
    BY StatementStarts
  <2> HIDE DEF u
  <2>3. Answers(EnterProc(mem), u)
    BY <1>0, <2>2, ProcAnswers
  <2>4. inits' = inits
    BY <1>1 DEF ReadProc
  <2> QED BY <2>1, <2>3, <2>4, ReadAnswers DEF u
<1>2. CASE ReadEndp
  <2>1. PICK s \in Statement("endp") : Reads(s, ExitProc(mem))
    BY <1>2 DEF ReadEndp
  <2> DEFINE u == Append(text, s)
  <2>2. Reading1(u, text, s, mem) /\ s.op = "endp"
    BY StatementStarts
  <2> HIDE DEF u
  <2>3. Answers(ExitProc(mem), u)
    BY <1>0, <2>2, EndpAnswers
  <2>4. inits' = inits
    BY <1>2 DEF ReadEndp
  <2> QED BY <2>1, <2>3, <2>4, ReadAnswers DEF u
<1>3. CASE ReadLocal
  <2>1. PICK s \in Statement("local") : Reads(s, SetLabel(mem, <<mem.ns, s.name>>))
    BY <1>3 DEF ReadLocal
  <2> DEFINE u == Append(text, s)
             n == SetLabel(mem, <<mem.ns, s.name>>)
  <2>2. Reading1(u, text, s, mem) /\ KeepsRules(u) /\ s.op = "local"
    BY StatementStarts
  <2> HIDE DEF u
  <2>3. LocalFirst(u)
    BY <2>2 DEF KeepsRules
  <2>4. Answers(n, u)
    BY <1>0, <2>2, <2>3, LocalAnswers
  <2>5. Reads(s, n) /\ inits' = inits
    BY <1>3, <2>1 DEF ReadLocal
  <2> HIDE DEF n
  <2> QED BY <2>4, <2>5, ReadAnswers DEF u
<1> QED BY <1>1, <1>2, <1>3

LEMMA SpaceAnswered ==
    ASSUME Inv, NamesInv, Reading, ReadNamespace PROVE NamesInv'
<1>0. Tracks(mem, text) /\ mem.err = "none" /\ inits' = inits
  BY SoFar DEF ReadNamespace
<1> DEFINE pops == IF mem.nsStack = << >> THEN Error(mem, "no namespace to pop")
                   ELSE [mem EXCEPT !.ns = Last(mem.nsStack), !.nsStack = Front(@)]
<1>1. CASE \E s \in Statement("namespace") : Reads(s, [mem EXCEPT !.ns = s.name])
  <2>1. PICK s \in Statement("namespace") : Reads(s, [mem EXCEPT !.ns = s.name])
    BY <1>1
  <2> DEFINE u == Append(text, s)
             n == [mem EXCEPT !.ns = s.name]
  <2>2. Reading1(u, text, s, mem) /\ s.op = "namespace"
    BY StatementStarts
  <2> HIDE DEF u
  <2>3. Answers(n, u)
    BY <1>0, <2>2, SpaceAnswers
  <2>4. Reads(s, n)
    BY <2>1
  <2> HIDE DEF n
  <2> QED BY <1>0, <2>3, <2>4, ReadAnswers DEF u
<1>2. CASE \E s \in Statement("push") :
             Reads(s, [mem EXCEPT !.ns = s.name, !.nsStack = Append(@, mem.ns)])
  <2>1. PICK s \in Statement("push") :
          Reads(s, [mem EXCEPT !.ns = s.name, !.nsStack = Append(@, mem.ns)])
    BY <1>2
  <2> DEFINE u == Append(text, s)
             n == [mem EXCEPT !.ns = s.name, !.nsStack = Append(@, mem.ns)]
  <2>2. Reading1(u, text, s, mem) /\ s.op = "push"
    BY StatementStarts
  <2> HIDE DEF u
  <2>3. Answers(n, u)
    BY <1>0, <2>2, SpaceAnswers
  <2>4. Reads(s, n)
    BY <2>1
  <2> HIDE DEF n
  <2> QED BY <1>0, <2>3, <2>4, ReadAnswers DEF u
<1>3. CASE \E s \in Statement("pop") : Reads(s, pops)
  <2>1. PICK s \in Statement("pop") : Reads(s, pops)
    BY <1>3
  <2> DEFINE u == Append(text, s)
  <2>2. Reading1(u, text, s, mem) /\ s.op = "pop"
    BY StatementStarts
  <2> HIDE DEF u
  <2>3. Answers(pops, u)
    BY <1>0, <2>2, PopAnswers
  <2> HIDE DEF pops
  <2> QED BY <1>0, <2>1, <2>3, ReadAnswers DEF u
<1> QED BY <1>1, <1>2, <1>3 DEF ReadNamespace

LEMMA EntryAnswered ==
    ASSUME Inv, NamesInv, Reading, ReadInit \/ ReadEnd PROVE NamesInv'
<1>0. Tracks(mem, text) /\ mem.err = "none"
  BY SoFar
<1>1. CASE ReadInit
  <2>1. PICK s \in Statement("init") : Reads(s, mem) /\ inits' = Append(inits, s.name)
    BY <1>1 DEF ReadInit
  <2> DEFINE u == Append(text, s)
  <2>2. Reading1(u, text, s, mem) /\ s.op = "init"
    BY StatementStarts
  <2> HIDE DEF u
  <2>3. Answers(mem, u)
    BY <1>0, <2>2, SpaceAnswers
  <2> QED BY <2>1, <2>3, ReadAnswers DEF u
<1>2. CASE ReadEnd
  <2>1. PICK s \in Statement("end") :
          LET g == GetLabel(mem, <<mem.ns, s.name>>)
              v == TryEval(g.m.labels, [lab |-> g.o, k |-> 0])
          IN  /\ Reads(s, IF v = None THEN Error(g.m, "undefined label") ELSE g.m)
              /\ autorun' = v
    BY <1>2 DEF ReadEnd
  <2> DEFINE u == Append(text, s)
             g == GetLabel(mem, <<mem.ns, s.name>>)
             v == TryEval(g.m.labels, [lab |-> g.o, k |-> 0])
             n == Ends(mem, s, v)
  <2>2. Reading1(u, text, s, mem) /\ s.op = "end"
    BY StatementStarts
  <2> HIDE DEF u
  <2>3. Reads(s, n) /\ inits' = inits
    BY <1>2, <2>1 DEF ReadEnd, Ends
  <2> HIDE DEF v
  <2>4. Answers(n, u) /\ n.ns = mem.ns
    BY <1>0, <2>2, EndAnswers
  <2> HIDE DEF n
  <2> QED BY <2>3, <2>4, ReadAnswers DEF u
<1> QED BY <1>1, <1>2

-----------------------------------------------------------------------------
(* After the last line.                                                    *)

LEMMA OpenTyped ==
    ASSUME NEW t \in Texts PROVE OpenStack(Open(t), Len(t) + 1)
<1>1. Len(t) + 1 \in 1..(Len(t) + 1)
  BY DEF Texts
<1> QED BY <1>1, LineFacts DEF Open

LEMMA OnlyGlobals ==
    ASSUME NEW t \in Texts, NEW m, NEW o, o = Open(t), Len(o) = 1, o[1] = 0, Tracks(m, t)
    PROVE  Sound(t) /\ Globals(m, t)
<1> DEFINE D == Definitions(t)
           U == Uses(t)
<1>1. o = <<0>> /\ ToSet(o) = {0} /\ 1..Len(o) = {1}
  <2>1. o \in Seq(Nat)
    BY OpenTyped DEF OpenStack
  <2>2. DOMAIN o = 1..1 /\ o = [d \in 1..1 |-> 0]
    BY <2>1
  <2>3. <<0>> \in Seq(Nat) /\ Len(<<0>>) = 1 /\ <<0>>[1] = 0
    OBVIOUS
  <2>4. o = <<0>>
    BY <2>1, <2>3
  <2>5. ToSet(o) = {0}
    BY <2>2 DEF ToSet
  <2> QED BY <2>4, <2>5
<1>2. Scoped(m, t, o) /\ Apart(m) /\ Entries(m, t, o, D) /\ Definers(m, t, o, D) /\ Users(m, t, o, U)
  BY DEF Tracks, NamesOf
<1>3. FineYet(t, <<0>>)
  BY <1>1 DEF Tracks
<1>4. \A i : Seat(t, o, i) = 0
  BY <1>1 DEF Seat
<1>5. ~Unclosed(t)
  BY DEF Unclosed
<1> HIDE DEF D, U
<1>6. ~Twice(t)
  BY <1>2, <1>4 DEF Definers, Twice, D
<1>7. Len(m.scopes) = 1 /\ \A x \in DOMAIN m.scopes[1] : ~Local(m, 1, x)
  BY <1>1, <1>2 DEF Scoped
<1>8. ASSUME NEW i \in D, OwnerOf(t, i) = 0
      PROVE  NameOf(t, i) \in DOMAIN m.scopes[1] /\ Given(m, 1, NameOf(t, i))
  <2>1. Seated(m, t, o, i)
    BY <1>2 DEF Definers
  <2>2. 1 \in 1..Len(o) /\ o[1] = Seat(t, o, i)
    BY <1>1, <1>4
  <2> QED BY <1>8, <2>1, <2>2 DEF Seated
<1>9. ASSUME NEW x \in DOMAIN m.scopes[1], Given(m, 1, x) PROVE Defs(t, 0, x) # {}
  <2>1. Entry(m, t, o, D, 1, x) /\ OwnerIn(m, o, 1, x) = 0
    BY <1>1, <1>2, <1>7 DEF Entries, OwnerIn
  <2>2. PICK i \in D : DefinedAt(t, o, i, x, 0, o[1])
    BY <1>9, <2>1 DEF Entry
  <2>3. i \in Defs(t, 0, x)
    BY <2>2 DEF DefinedAt, Defs, NameOf, OwnerOf, D
  <2> QED BY <2>3
<1>10. ASSUME NEW x \in DOMAIN m.scopes[1], ~Given(m, 1, x) PROVE GlobalLost(t)
  <2>1. Entry(m, t, o, D, 1, x)
    BY <1>1, <1>2 DEF Entries
  <2>2. UsesOf(t, x) # {}
    BY <1>7, <1>10, <2>1 DEF Entry
  <2>3. PICK i \in Uses(t) : UsedName(t, i) = x /\ Owner(t, i, x) = 0
    BY <2>2 DEF UsesOf
  <2>4. ASSUME NEW j \in Defs(t, 0, x) PROVE FALSE
    <3>1. j \in D /\ NameOf(t, j) = x /\ OwnerOf(t, j) = 0
      BY DEF Defs, NameOf, OwnerOf, D
    <3> QED BY <1>8, <1>10, <3>1
  <2>5. Owner(t, i, UsedName(t, i)) = 0 /\ DefsUsed(t, i) = {}
    BY <2>3, <2>4 DEF DefsUsed
  <2> QED BY <2>5 DEF GlobalLost
<1>11. ASSUME NEW i \in U, Owner(t, i, UsedName(t, i)) = 0 PROVE UsedName(t, i) \in DOMAIN m.scopes[1]
  BY <1>1, <1>2, <1>11 DEF Users
<1>12. Globals(m, t)
  BY <1>2, <1>7, <1>8, <1>9, <1>10, <1>11 DEF Globals, D, U
<1> QED BY <1>3, <1>5, <1>6, <1>12 DEF Sound

LEMMA AssembleAnswered ==
    ASSUME Inv, NamesInv, Assemble PROVE NamesInv'
<1> DEFINE w == "missing ENDP"
           m == IF Len(mem.scopes) > 1 THEN Error(mem, w) ELSE mem
           o == Open(text)
<1>1. /\ phase \in {"reading", "ended"} /\ mem' = m /\ UNCHANGED <<text, inits>>
      /\ phase' = IF m.err # "none" THEN "failed"
                  ELSE IF m.bytes = << >> THEN "empty" ELSE "assembled"
  BY DEF Assemble
<1>2. mem.err = "none" /\ Tracks(mem, text)
  BY <1>1 DEF NamesInv
<1>3. w \in Messages /\ w # "none" /\ (Unclosed(text) => Justified(w, text))
  BY JustifiedBy DEF Messages
<1> HIDE DEF w
<1>4. text \in Texts /\ MemSound(mem, text) /\ mem \in Memory
  BY DEF Inv, MemSound
<1>5. OpenStack(o, Len(text) + 1) /\ Len(o) \in Nat /\ Len(o) >= 1 /\ o[1] = 0 /\ Len(mem.scopes) = Len(o)
  <2>1. OpenStack(o, Len(text) + 1)
    BY <1>4, OpenTyped
  <2>2. Len(mem.scopes) = Len(o)
    BY <1>2 DEF Tracks, NamesOf, Scoped
  <2> HIDE DEF o
  <2> QED BY <2>1, <2>2 DEF OpenStack
<1>6. mem.ns = Last(Space(text))
  <2>1. CASE phase = "reading"
    BY <2>1 DEF Inv, Reading, ReadInv
  <2>2. CASE phase = "ended"
    BY <2>2 DEF NamesInv
  <2> QED BY <1>1, <2>1, <2>2
<1>7. \A x \in Words : x \in Range(inits') <=> Inited(text', x)
  <2>1. \A x \in Words : x \in Range(inits) <=> Inited(text, x)
    BY DEF NamesInv
  <2> QED BY <1>1, <2>1
<1>8. CASE Len(o) > 1
  <2> DEFINE q == Error(mem, w)
  <2>1. Complains(q, mem, w)
    BY <1>3, <1>4, ErrorFields
  <2>2. m = q
    BY <1>5, <1>8
  <2> HIDE DEF q, m
  <2>3. m.err = w
    BY <1>2, <2>1, <2>2 DEF Complains
  <2>4. phase' = "failed"
    BY <1>1, <1>3, <2>3
  <2>5. Justified(mem'.err, text')
    BY <1>1, <1>3, <1>8, <2>3 DEF Unclosed
  <2> QED BY <1>7, <2>4, <2>5 DEF NamesInv
<1>9. CASE ~(Len(o) > 1)
  <2>1. m = mem /\ Len(o) = 1
    <3> DEFINE k == Len(o)
    <3>1. k \in Nat /\ k >= 1 /\ ~(k > 1) /\ Len(mem.scopes) = k
      BY <1>5, <1>9
    <3> HIDE DEF k, o, w
    <3>2. k = 1
      BY <3>1
    <3>3. ~(Len(mem.scopes) > 1)
      BY <3>1
    <3> QED BY <3>2, <3>3 DEF k
  <2> HIDE DEF o, m
  <2>2. Sound(text) /\ Globals(mem, text)
    BY <1>2, <1>4, <1>5, <2>1, OnlyGlobals DEF o
  <2>3. mem' = mem /\ text' = text /\ phase' \in {"empty", "assembled"}
    BY <1>1, <1>2, <2>1
  <2>4. mem'.err \in Others
    BY <1>2, <2>3 DEF Others
  <2>5. Justified(mem'.err, text')
    BY <2>4, JustifiedBy
  <2>6. Sound(text') /\ Globals(mem', text') /\ mem'.ns = Last(Space(text'))
    BY <1>6, <2>2, <2>3
  <2> QED BY <1>7, <2>3, <2>4, <2>5, <2>6 DEF NamesInv
<1> QED BY <1>8, <1>9

-----------------------------------------------------------------------------
(* The calls of main.                                                      *)

LEMMA GlobalsAlike ==
    ASSUME NEW t, NEW m, NEW n, SameScopes(n, m), Apart(n), Globals(m, t)
    PROVE  Globals(n, t)
<1>1. n.scopes = m.scopes /\ Len(m.scopes) = 1 /\ 1 \in 1..Len(m.scopes)
  BY DEF SameScopes, Globals
<1>2. \A x \in DOMAIN m.scopes[1] : Given(n, 1, x) = Given(m, 1, x)
  BY <1>1 DEF SameScopes
<1>3. \A x \in DOMAIN m.scopes[1] :
        (Given(m, 1, x) => Defs(t, 0, x) # {}) /\ (~Given(m, 1, x) => GlobalLost(t))
  BY DEF Globals
<1>4. /\ \A i \in Definitions(t) : OwnerOf(t, i) = 0 => NameOf(t, i) \in DOMAIN m.scopes[1]
      /\ \A i \in Uses(t) : Owner(t, i, UsedName(t, i)) = 0 => UsedName(t, i) \in DOMAIN m.scopes[1]
  BY DEF Globals
<1> HIDE DEF Given
<1> QED BY <1>1, <1>2, <1>3, <1>4 DEF Globals

LEMMA GlobalsSame ==
    ASSUME NEW t, NEW m, NEW n, SameNames(n, m), Globals(m, t)
    PROVE  Globals(n, t)
<1>1. Apart(n)
  BY ApartAlike DEF SameNames, Globals
<1>2. SameScopes(n, m)
  BY DEF SameNames, SameScopes, Local, Given, Defined
<1> QED BY <1>1, <1>2, GlobalsAlike

\* A public name that is not in the outermost scope has no definition.
LEMMA NoGlobal ==
    ASSUME NEW t, NEW m, Globals(m, t), NEW y, y \notin DOMAIN m.scopes[1], y \in Inits(t)
    PROVE  GlobalLost(t)
<1>1. ASSUME NEW i \in Defs(t, 0, y) PROVE FALSE
  <2>1. i \in Definitions(t) /\ NameOf(t, i) = y /\ OwnerOf(t, i) = 0
    BY DEF Defs, NameOf, OwnerOf
  <2> QED BY <2>1 DEF Globals
<1> QED BY <1>1 DEF GlobalLost

LEMMA GlobalsCalled ==
    ASSUME NEW t, NEW m, MemSound(m, t), Globals(m, t), NEW y \in Keys, y \in Inits(t),
           NEW g, Looks(g, m, t, y), Meets(g, m, y)
    PROVE  /\ Globals(g.m, t) /\ y \in DOMAIN g.m.scopes[1]
           /\ DOMAIN m.scopes[1] \subseteq DOMAIN g.m.scopes[1]
<1> DEFINE q == g.m
<1>1. Len(m.scopes) = 1 /\ Apart(m) /\ 1..Len(m.scopes) = {1} /\ Here(m) = m.scopes[1]
  BY DEF Globals, Here
<1>2. /\ (q = m /\ \E d \in 1..Len(m.scopes) : y \in DOMAIN m.scopes[d])
         \/ /\ \A d \in 1..Len(m.scopes) : y \notin DOMAIN m.scopes[d]
            /\ Adds(q, m, y, FALSE) /\ ~Defined(q, Len(q.labels)) /\ q.waiting = m.waiting
  BY DEF Meets
<1> HIDE DEF q
<1>3. CASE q = m /\ \E d \in 1..Len(m.scopes) : y \in DOMAIN m.scopes[d]
  BY <1>1, <1>3 DEF q
<1>4. CASE /\ \A d \in 1..Len(m.scopes) : y \notin DOMAIN m.scopes[d]
           /\ Adds(q, m, y, FALSE) /\ ~Defined(q, Len(q.labels)) /\ q.waiting = m.waiting
  <2>1. y \notin DOMAIN m.scopes[1] /\ y \notin DOMAIN Here(m)
    BY <1>1, <1>4
  <2>2. OneMore(q, m, y, FALSE)
    <3> DEFINE f == FALSE
    <3>1. Adds(q, m, y, f)
      BY <1>4
    <3> HIDE DEF f
    <3>2. OneMore(q, m, y, f)
      BY <1>4, <2>1, <3>1, AddsOneMore
    <3> QED BY <3>2 DEF f
  <2>3. /\ Len(q.scopes) = 1 /\ Apart(q) /\ y \in DOMAIN q.scopes[1] /\ ~Given(q, 1, y)
        /\ \A x \in DOMAIN m.scopes[1] : x \in DOMAIN q.scopes[1] /\ Given(q, 1, x) = Given(m, 1, x)
        /\ \A x \in DOMAIN q.scopes[1] : x \in DOMAIN m.scopes[1] \/ x = y
    BY <1>1, <1>4, <2>2 DEF OneMore
  <2>4. GlobalLost(t)
    BY <2>1, NoGlobal
  <2>5. Globals(q, t)
    <3>1. \A x \in DOMAIN m.scopes[1] : Given(m, 1, x) => Defs(t, 0, x) # {}
      BY DEF Globals
    <3>2. /\ \A i \in Definitions(t) : OwnerOf(t, i) = 0 => NameOf(t, i) \in DOMAIN m.scopes[1]
          /\ \A i \in Uses(t) : Owner(t, i, UsedName(t, i)) = 0 => UsedName(t, i) \in DOMAIN m.scopes[1]
      BY DEF Globals
    <3> QED BY <2>3, <2>4, <3>1, <3>2 DEF Globals
  <2> QED BY <2>3, <2>5 DEF q
<1> QED BY <1>2, <1>3, <1>4

\* r is acc with one name more called.
Calls(r, acc, t, y) ==
    /\ MemSound(r, t) /\ Globals(r, t) /\ r.err \in Others /\ r.ns = acc.ns
    /\ y \in DOMAIN r.scopes[1] /\ DOMAIN acc.scopes[1] \subseteq DOMAIN r.scopes[1]

LEMMA CallOne ==
    ASSUME NEW t, NEW acc, MemSound(acc, t), Globals(acc, t), acc.err \in Others,
           NEW x \in Words, <<acc.ns, x>> \in Inits(t)
    PROVE  Calls(Body("call", 0, acc, x), acc, t, <<acc.ns, x>>)
<1> DEFINE name == <<acc.ns, x>>
           g == GetLabel(acc, name)
           q == g.m
           e == [lab |-> g.o, k |-> 0]
           i == Jump(-1, e)
           r == AddInstruction(g.m, i)
<1>1. Body("call", 0, acc, x) = r
  BY DEF Body
<1>2. name \in Keys /\ name \in Inits(t)
  <2>1. acc.ns \in Words
    BY Facts
  <2> QED BY <2>1 DEF Keys
<1> HIDE DEF name
<1>3. Looks(g, acc, t, name) /\ Meets(g, acc, name)
  BY <1>2, GetLabelSound, GetLabelMeets
<1> HIDE DEF g
<1>4. Globals(g.m, t) /\ name \in DOMAIN g.m.scopes[1] /\ DOMAIN acc.scopes[1] \subseteq DOMAIN g.m.scopes[1]
  BY <1>2, <1>3, GlobalsCalled
<1>5. MemSound(q, t) /\ g.o \in 1..Len(q.labels) /\ q.err = acc.err /\ q.ns = acc.ns
  BY <1>3 DEF Looks, Kept, SameRest
<1>6. Len(q.labels) \in Nat
  BY <1>5, Facts
<1>7. e \in Exprs /\ e.lab \in 0..Len(q.labels)
  BY <1>5, <1>6 DEF Exprs
<1> HIDE DEF e
<1>8. i \in Instrs /\ i.arg.lab \in 0..Len(q.labels) /\ i.size = 3
  <2>1. -1 \in Int
    OBVIOUS
  <2>2. i \in Instrs /\ i.arg = e /\ i.size = 3
    BY <1>7, <2>1, JumpTyped
  <2> HIDE DEF i
  <2> QED BY <1>7, <2>2
<1> HIDE DEF i
<1>9. r = AddInstruction(q, i)
  OBVIOUS
<1> HIDE DEF q, r
<1>10. q \in Memory /\ CodeSound(q, t) /\ Rooted(q.labels) /\ q.err \in Others
  BY <1>5 DEF MemSound, NamesSound
<1>11. Assembles(r, q, t, i.size) /\ r.err \in Others
  BY <1>8, <1>9, <1>10, AddInstructionSound, AddInstructionErr
<1>12. MemSound(r, t)
  BY <1>5, <1>8, <1>9, CodeAdded
<1>13. SameNames(r, q) /\ r.ns = q.ns
  BY <1>11 DEF Assembles, SameRest
<1>14. Globals(r, t) /\ r.scopes = q.scopes
  <2>1. Globals(q, t)
    BY <1>4 DEF q
  <2> QED BY <1>13, <2>1, GlobalsSame DEF SameNames
<1>15. Calls(r, acc, t, name)
  <2>1. name \in DOMAIN r.scopes[1] /\ DOMAIN acc.scopes[1] \subseteq DOMAIN r.scopes[1]
    BY <1>4, <1>14 DEF q
  <2> QED BY <1>5, <1>11, <1>12, <1>13, <1>14, <2>1 DEF Calls
<1> QED BY <1>1, <1>15 DEF name

LEMMA CalledHolds ==
    ASSUME NEW m, NEW seq, NEW n \in Nat, DOMAIN seq = 1..n, NEW Good, <<m, {}>> \in Good,
           \A acc, s, x : <<acc, s>> \in Good /\ s \subseteq 1..n /\ x \in (1..n) \ s =>
                <<Body("call", 0, acc, seq[x]), s \cup {x}>> \in Good
    PROVE  <<Called(m, seq), 1..n>> \in Good
<1> DEFINE S == DOMAIN seq
           Is(g) == g = [s \in SUBSET S |->
                 IF s = {} THEN m ELSE Body("call", 0, g[s \ {Max(s)}], seq[Max(s)])]
           f == CHOOSE g : Is(g)
<1>1. IsFiniteSet(S) /\ \A s \in SUBSET S : s # {} => Chosen("call", s) \in s
  BY MaxChosen
<1>2. \A acc, s, x : <<acc, s>> \in Good /\ s \subseteq S /\ x \in S \ s =>
        <<Body("call", 0, acc, Item("call", seq, x)), s \cup {x}>> \in Good
  BY DEF Item
<1>3. \E g : Folding(g, "call", 0, m, seq, S)
  <2> HIDE DEF S
  <2> QED BY <1>1, FoldExists
<1>4. Called(m, seq) = f[S]
  BY DEF Called, FoldLeft, MapThenFoldSet, Body
<1>5. \A g : Is(g) <=> Folding(g, "call", 0, m, seq, S)
  BY DEF Folding, Item, Chosen
<1>6. Is(f)
  <2> HIDE DEF Is
  <2>1. \E g : Is(g)
    BY <1>3, <1>5
  <2> QED BY <2>1
<1>7. S = 1..n
  OBVIOUS
<1> HIDE DEF f, Is, S
<1>8. <<f[S], S>> \in Good
  <2>1. Folding(f, "call", 0, m, seq, S)
    BY <1>5, <1>6
  <2> QED BY <1>1, <1>2, <2>1, FoldHolds
<1> QED BY <1>4, <1>7, <1>8

\* r is m with the calls of the entries s of xs.
CallsSome(r, m, t, xs, s) ==
    /\ MemSound(r, t) /\ Globals(r, t) /\ r.err \in Others /\ r.ns = m.ns
    /\ \A k \in s : <<m.ns, xs[k]>> \in DOMAIN r.scopes[1]

LEMMA CalledNames ==
    ASSUME NEW t, NEW m, MemSound(m, t), Globals(m, t), m.err \in Others, NEW xs \in Seq(Words),
           \A k \in 1..Len(xs) : <<m.ns, xs[k]>> \in Inits(t)
    PROVE  CallsSome(Called(m, xs), m, t, xs, 1..Len(xs))
<1> DEFINE n == Len(xs)
           Good == {p \in Memory \X SUBSET (1..n) : CallsSome(p[1], m, t, xs, p[2])}
<1>1. n \in Nat /\ DOMAIN xs = 1..n /\ \A k \in 1..n : xs[k] \in Words
  BY ElementOfSeq
<1>2. <<m, {}>> \in Good
  <2>1. CallsSome(m, m, t, xs, {}) /\ m \in Memory
    BY DEF CallsSome, MemSound
  <2> QED BY <2>1
<1>3. ASSUME NEW acc, NEW s, NEW k, <<acc, s>> \in Good, s \subseteq 1..n, k \in (1..n) \ s
      PROVE  <<Body("call", 0, acc, xs[k]), s \cup {k}>> \in Good
  <2> DEFINE x == xs[k]
             r == Body("call", 0, acc, x)
  <2>1. CallsSome(acc, m, t, xs, s)
    BY <1>3
  <2>2. x \in Words /\ <<m.ns, x>> \in Inits(t)
    BY <1>1, <1>3
  <2>3. acc.ns = m.ns /\ MemSound(acc, t) /\ Globals(acc, t) /\ acc.err \in Others
    BY <2>1 DEF CallsSome
  <2> HIDE DEF x
  <2>4. Calls(r, acc, t, <<acc.ns, x>>)
    BY <2>2, <2>3, CallOne
  <2> HIDE DEF r
  <2>5. CallsSome(r, m, t, xs, s \cup {k})
    <3>1. \A j \in s \cup {k} : <<m.ns, xs[j]>> \in DOMAIN r.scopes[1]
      BY <2>1, <2>3, <2>4 DEF Calls, CallsSome, x
    <3> QED BY <2>3, <2>4, <3>1 DEF Calls, CallsSome
  <2>6. r \in Memory /\ s \cup {k} \in SUBSET (1..n)
    BY <1>3, <2>4 DEF Calls, MemSound
  <2>7. <<r, s \cup {k}>> \in Good
    BY <2>5, <2>6
  <2> QED BY <2>7 DEF r, x
<1> HIDE DEF Good
<1>4. <<Called(m, xs), 1..n>> \in Good
  <2> HIDE DEF n
  <2> QED BY <1>1, <1>2, <1>3, CalledHolds
<1> QED BY <1>4 DEF Good

LEMMA InitsAre ==
    ASSUME NEW t \in Texts, NEW z
    PROVE  z \in Inits(t) <=> \E x \in Words : Inited(t, x) /\ z = <<Last(Space(t)), x>>
<1> DEFINE A == {"init"}
<1>1. \A x : Full(t, Len(t) + 1, x) = <<Last(Space(t)), x>>
  BY DEF Full, Space
<1>2. \A i \in DOMAIN t : t[i].name \in Words
  <2> SUFFICES ASSUME NEW i \in DOMAIN t PROVE t[i].name \in Words
    OBVIOUS
  <2>1. t[i] \in Stmts
    BY DEF Texts
  <2> QED BY <2>1 DEF Words
<1> HIDE DEF A
<1>3. \A i \in Lines(t, A) : t[i].name \in Words
  BY <1>2 DEF Lines
<1>4. z \in Inits(t) <=> \E i \in Lines(t, A) : z = <<Last(Space(t)), t[i].name>>
  BY <1>1 DEF Inits, A
<1>5. \A x : Inited(t, x) <=> \E i \in Lines(t, A) : t[i].name = x
  BY DEF Inited, A
<1> QED BY <1>3, <1>4, <1>5

LEMMA AddCallsAnswered ==
    ASSUME Inv, NamesInv, AddCalls PROVE NamesInv'
<1> DEFINE m == Called(mem, inits)
           start == IF autorun # None THEN autorun ELSE SetMin(DOMAIN m.orgs)
           i == Jump(-2, Number(start))
           n == AddInstruction(m, i)
<1>1. /\ phase = "assembled" /\ phase' = "called" /\ UNCHANGED <<text, inits>>
      /\ IF inits = << >> THEN mem' = mem ELSE mem' = n
  BY DEF AddCalls, Called
<1>2. /\ MemSound(mem, text) /\ text \in Texts /\ inits \in Seq(Words) /\ autorun \in Int \cup {None}
      /\ DOMAIN mem.bytes # {}
  BY <1>1 DEF Inv, HasCode
<1>3. /\ Sound(text) /\ Globals(mem, text) /\ mem.err \in Others /\ mem.ns = Last(Space(text))
      /\ \A x \in Words : x \in Range(inits) <=> Inited(text, x)
  BY <1>1 DEF NamesInv
<1>4. \A x : x \in Range(inits) <=> \E k \in 1..Len(inits) : inits[k] = x
  BY <1>2 DEF Range
<1>5. \A k \in 1..Len(inits) : inits[k] \in Words /\ <<mem.ns, inits[k]>> \in Inits(text)
  <2> SUFFICES ASSUME NEW k \in 1..Len(inits)
               PROVE  inits[k] \in Words /\ <<mem.ns, inits[k]>> \in Inits(text)
    OBVIOUS
  <2>1. inits[k] \in Words
    BY <1>2, ElementOfSeq
  <2>2. Inited(text, inits[k])
    BY <1>3, <1>4, <2>1
  <2> QED BY <1>2, <1>3, <2>1, <2>2, InitsAre
<1>6. ASSUME NEW z \in Inits(text) PROVE \E k \in 1..Len(inits) : z = <<mem.ns, inits[k]>>
  <2>1. PICK x \in Words : Inited(text, x) /\ z = <<Last(Space(text)), x>>
    BY <1>2, InitsAre
  <2>2. PICK k \in 1..Len(inits) : inits[k] = x
    BY <1>3, <1>4, <2>1
  <2> QED BY <1>3, <2>1, <2>2
<1>7. /\ MemSound(mem', text) /\ Globals(mem', text) /\ mem'.err \in Others /\ mem'.ns = mem.ns
      /\ Inits(text) \subseteq DOMAIN mem'.scopes[1]
  <2>1. CASE inits = << >>
    <3>1. Len(inits) = 0
      BY <2>1
    <3>2. Inits(text) = {}
      BY <1>6, <3>1
    <3> QED BY <1>1, <1>2, <1>3, <2>1, <3>2
  <2>2. CASE inits # << >>
    <3>1. mem' = n
      BY <1>1, <2>2
    <3>2. CallsSome(m, mem, text, inits, 1..Len(inits))
      BY <1>2, <1>3, <1>5, CalledNames
    <3>3. MemSound(m, text) /\ DOMAIN mem.bytes \subseteq DOMAIN m.bytes
      BY <1>2, CalledSound
    <3> HIDE DEF m
    <3>4. start \in Int
      <4>1. DOMAIN m.bytes # {}
        BY <1>2, <3>3
      <4> QED BY <1>2, <3>3, <4>1, StartTyped
    <3> HIDE DEF start
    <3>5. i \in Instrs /\ i.arg.lab \in 0..Len(m.labels) /\ i.size = 3
      <4> DEFINE e == Number(start)
      <4>1. e \in Exprs /\ e.lab = 0
        BY <3>4 DEF Number, Exprs
      <4> HIDE DEF e
      <4>2. -2 \in Int
        OBVIOUS
      <4>3. i \in Instrs /\ i.arg = e /\ i.size = 3
        BY <4>1, <4>2, JumpTyped DEF e
      <4>4. Len(m.labels) \in Nat
        BY <3>3, Facts
      <4> HIDE DEF i
      <4> QED BY <4>1, <4>3, <4>4
    <3> HIDE DEF i
    <3>6. /\ m \in Memory /\ CodeSound(m, text) /\ Rooted(m.labels) /\ m.err \in Others
          /\ Globals(m, text) /\ m.ns = mem.ns
      BY <3>2, <3>3 DEF MemSound, NamesSound, CallsSome
    <3>7. Assembles(n, m, text, i.size) /\ n.err \in Others
      BY <3>5, <3>6, AddInstructionSound, AddInstructionErr
    <3>8. MemSound(n, text)
      BY <3>3, <3>5, CodeAdded
    <3> HIDE DEF n
    <3>9. SameNames(n, m) /\ n.ns = m.ns
      BY <3>7 DEF Assembles, SameRest
    <3>10. Globals(n, text) /\ n.scopes = m.scopes
      BY <3>6, <3>9, GlobalsSame DEF SameNames
    <3>11. Inits(text) \subseteq DOMAIN m.scopes[1]
      BY <1>6, <3>2 DEF CallsSome
    <3> QED BY <3>1, <3>6, <3>7, <3>8, <3>9, <3>10, <3>11
  <2> QED BY <2>1, <2>2
<1> HIDE DEF n
<1>8. Justified(mem'.err, text')
  BY <1>7, JustifiedBy
<1>9. /\ Sound(text') /\ Globals(mem', text') /\ mem'.ns = Last(Space(text'))
      /\ Inits(text') \subseteq DOMAIN mem'.scopes[1]
      /\ \A x \in Words : x \in Range(inits') <=> Inited(text', x)
  BY <1>1, <1>3, <1>7
<1> QED BY <1>1, <1>7, <1>8, <1>9 DEF NamesInv

-----------------------------------------------------------------------------
(* dump.                                                                   *)

LEMMA ResolveKeeps ==
    ASSUME NEW t, NEW m, MemSound(m, t), Globals(m, t), m.err \in Others,
           NEW k \in 1..Len(m.waiting), NEW o \in 1..Len(m.labels), o = m.waiting[k]
    PROVE  LET n == ResolveTemporaryLabel(m, o) IN
           /\ Globals(n, t) /\ n.err \in Others /\ n.scopes = m.scopes /\ n.waiting = m.waiting
<1> DEFINE found == {x \in m.tmp : Found(m, m.labels[o], x)}
           w == "undefined temporary label"
           n == ResolveTemporaryLabel(m, o)
<1>1. m \in Memory /\ m.labels \in Seq(Labels) /\ Len(m.labels) \in Nat
  BY Facts
<1>2. w \in Messages /\ w \in Others
  BY DEF Messages, Others
<1> HIDE DEF found
<1>3. CASE found = {}
  <2>1. n = Error(m, w)
    BY <1>3 DEF ResolveTemporaryLabel, found
  <2> HIDE DEF n, w
  <2>2. Complains(n, m, w)
    BY <1>1, <1>2, <2>1, ErrorFields
  <2>3. SameNames(n, m) /\ n.err \in Others
    BY <1>2, <2>2 DEF Complains
  <2>4. Globals(n, t) /\ n.scopes = m.scopes /\ n.waiting = m.waiting
    BY <2>3, GlobalsSame DEF SameNames
  <2> QED BY <2>3, <2>4 DEF n
<1>4. CASE found # {}
  <2> DEFINE v == [lab |-> 0, k |-> (CHOOSE x \in found : TRUE).value]
  <2>1. n = [m EXCEPT !.labels[o].value = v]
    BY <1>4 DEF ResolveTemporaryLabel, found
  <2> HIDE DEF v, n
  <2> DEFINE l == [m.labels EXCEPT ![o].value = v]
  <2>2. n = [m EXCEPT !.labels = l]
    BY <1>1, <2>1 DEF Memory
  <2>3. \A p \in 1..Len(m.labels) : p # o => l[p] = m.labels[p]
    BY <1>1
  <2> HIDE DEF l
  <2>4. n.labels = l /\ n.scopes = m.scopes /\ n.waiting = m.waiting /\ n.err = m.err
    BY <1>1, <2>2 DEF Memory
  <2>5. Apart(m) /\ Len(m.scopes) = 1
    BY DEF Globals
  <2>6. Apart(n)
    BY <2>4, <2>5, ApartAlike
  <2>7. ASSUME NEW d \in 1..Len(m.scopes), NEW x \in DOMAIN m.scopes[d]
        PROVE  Local(n, d, x) = Local(m, d, x) /\ Given(n, d, x) = Given(m, d, x)
    <3> DEFINE p == m.scopes[d][x]
    <3>1. p # o
      BY <2>5 DEF Apart
    <3>2. p \in 1..Len(m.labels)
      BY DEF MemSound, NamesSound, ScopesName
    <3>3. n.scopes[d][x] = p
      BY <2>4
    <3> HIDE DEF p
    <3>4. n.labels[p] = m.labels[p]
      BY <2>3, <2>4, <3>1, <3>2
    <3> QED BY <3>3, <3>4 DEF Local, Given, Defined, p
  <2>8. SameScopes(n, m)
    BY <2>4, <2>7 DEF SameScopes
  <2>9. Globals(n, t)
    BY <2>6, <2>8, GlobalsAlike
  <2> QED BY <2>4, <2>9 DEF n
<1> QED BY <1>3, <1>4

LEMMA ResolvedNames ==
    ASSUME NEW t, NEW m, MemSound(m, t), Globals(m, t), m.err \in Others
    PROVE  LET r == Resolved(m, m.waiting) IN
           /\ MemSound(r, t) /\ Globals(r, t) /\ r.err \in Others /\ r.scopes = m.scopes
<1> DEFINE q == m.waiting
           n == Len(q)
           L == Len(m.labels)
           Good == {r \in Memory : /\ MemSound(r, t) /\ Globals(r, t) /\ r.err \in Others
                                   /\ r.scopes = m.scopes /\ r.waiting = q /\ Len(r.labels) = L}
<1>1. m \in Memory /\ q \in Seq(Nat) /\ \A k \in 1..n : q[k] \in 1..L
  BY DEF MemSound, NamesSound, Memory
<1>2. n \in Nat /\ DOMAIN q = 1..n /\ m \in Good
  BY <1>1
<1>3. ASSUME NEW acc \in Good, NEW k \in 1..n PROVE ResolveTemporaryLabel(acc, q[k]) \in Good
  <2> DEFINE o == q[k]
             r == ResolveTemporaryLabel(acc, o)
  <2>1. /\ MemSound(acc, t) /\ Globals(acc, t) /\ acc.err \in Others
        /\ acc.scopes = m.scopes /\ acc.waiting = q /\ Len(acc.labels) = L /\ o \in 1..L
    BY <1>1
  <2>2. o = acc.waiting[k] /\ k \in 1..Len(acc.waiting)
    BY <2>1
  <2> HIDE DEF o
  <2>3. LET p == ResolveTemporaryLabel(acc, o) IN
        MemSound(p, t) /\ Len(p.labels) = Len(acc.labels) /\ SameCode(p, acc)
    BY <2>1, ResolveSound
  <2>4. LET p == ResolveTemporaryLabel(acc, o) IN
        Globals(p, t) /\ p.err \in Others /\ p.scopes = acc.scopes /\ p.waiting = acc.waiting
    BY <2>1, <2>2, ResolveKeeps
  <2>5. MemSound(r, t) /\ Len(r.labels) = L /\ Globals(r, t) /\ r.err \in Others
        /\ r.scopes = m.scopes /\ r.waiting = q
    BY <2>1, <2>3, <2>4
  <2> HIDE DEF r
  <2>6. r \in Good
    BY <2>5 DEF MemSound
  <2> QED BY <2>6 DEF r, o
<1> HIDE DEF Good, n
<1>4. Resolved(m, q) \in Good
  BY <1>2, <1>3, ResolvedStays
<1> QED BY <1>4 DEF Good

\* A public name without a value is missed, and it alone.
LEMMA GlobalsMissed ==
    ASSUME NEW t, NEW m, MemSound(m, t), Globals(m, t), m.err \in Others,
           Inits(t) \subseteq DOMAIN m.scopes[1]
    PROVE  LET n == CheckGlobals(m) IN
           /\ n.err \in Others \/ (n.err = "undefined GLOBAL" /\ GlobalLost(t))
           /\ n.err = "none" => ~GlobalLost(t)
<1> DEFINE w == "undefined GLOBAL"
           n == CheckGlobals(m)
           lost == \E x \in DOMAIN m.scopes[1] : ~Given(m, 1, x)
<1>1. n = IF lost THEN Error(m, w) ELSE m
  BY DEF CheckGlobals, Given
<1>2. m \in Memory /\ w \in Messages /\ w # "none"
  BY DEF MemSound, Messages
<1> HIDE DEF w, n
<1>3. lost => GlobalLost(t)
  BY DEF Globals
<1>4. ~lost => ~GlobalLost(t)
  <2> SUFFICES ASSUME \A x \in DOMAIN m.scopes[1] : Given(m, 1, x), GlobalLost(t) PROVE FALSE
    OBVIOUS
  <2>1. \A x \in DOMAIN m.scopes[1] : Defs(t, 0, x) # {}
    BY DEF Globals
  <2>2. \A x \in Inits(t) : Defs(t, 0, x) # {}
    BY <2>1
  <2>3. PICK i \in Uses(t) : Owner(t, i, UsedName(t, i)) = 0 /\ DefsUsed(t, i) = {}
    BY <2>2 DEF GlobalLost
  <2>4. UsedName(t, i) \in DOMAIN m.scopes[1]
    BY <2>3 DEF Globals
  <2>5. DefsUsed(t, i) = Defs(t, 0, UsedName(t, i))
    BY <2>3 DEF DefsUsed
  <2> QED BY <2>1, <2>3, <2>4, <2>5
<1> HIDE DEF lost
<1>5. CASE lost
  <2>1. Complains(Error(m, w), m, w)
    BY <1>2, ErrorFields
  <2>2. n.err = IF m.err = "none" THEN w ELSE m.err
    BY <1>1, <1>5, <2>1 DEF Complains
  <2>3. n.err # "none"
    BY <1>2, <2>2
  <2>4. n.err \in Others \/ (n.err = w /\ GlobalLost(t))
    BY <1>3, <1>5, <2>2
  <2> QED BY <2>3, <2>4 DEF w, n
<1>6. CASE ~lost
  <2>1. n = m /\ ~GlobalLost(t)
    BY <1>1, <1>4, <1>6
  <2>2. n.err \in Others
    BY <2>1
  <2> QED BY <2>1, <2>2 DEF n
<1> QED BY <1>5, <1>6

LEMMA ArgValErr ==
    ASSUME NEW m, NEW i PROVE ArgVal(m, i).err \in Others
<1> DEFINE v == TryEval(m.labels, i.arg)
           far == i.rel /\ v \notin -Reach..(Reach - 1)
           e == ArgVal(m, i).err
<1>1. e = IF v = None THEN "undefined label" ELSE IF far THEN "jump out of range" ELSE "none"
  BY DEF ArgVal
<1> HIDE DEF v, far, e
<1>2. e \in Others
  BY <1>1 DEF Others
<1> QED BY <1>2 DEF e

\* An address is dumped with the messages of an operand at most.
Tells(e, d) == e.m.err = d.m.err \/ (d.m.err = "none" /\ e.m.err \in Others)

LEMMA DumpAtTells ==
    ASSUME NEW d \in Dumps, NEW a
    PROVE  Tells(DumpAt(d, a), d)
<1> DEFINE m == d.m
           first == m.orgs[a][1]
           val == ArgVal(m, first)
           done == IF first.pending
                   THEN [m EXCEPT !.err = val.err, !.bytes = Put(@, a, Cells(first, val.v))]
                   ELSE m
           e == DumpAt(d, a)
<1>1. m \in Memory
  BY DEF Dumps
<1>2. CASE m.err # "none"
  BY <1>2 DEF DumpAt, Tells
<1>3. CASE m.err = "none" /\ a \notin DOMAIN m.orgs
  <2> DEFINE o == Append(d.out, IF a \in DOMAIN m.bytes THEN m.bytes[a] ELSE Zero)
  <2>1. e = [d EXCEPT !.out = o]
    BY <1>3 DEF DumpAt
  <2> HIDE DEF o, e
  <2>2. e.m = m
    BY <2>1 DEF Dumps
  <2> QED BY <2>2 DEF Tells, e
<1>4. CASE m.err = "none" /\ a \in DOMAIN m.orgs /\ m.orgs[a] = << >>
  <2>1. e = [d EXCEPT !.align = @ + 1]
    BY <1>4 DEF DumpAt
  <2> HIDE DEF e
  <2>2. e.m = m
    BY <2>1 DEF Dumps
  <2> QED BY <2>2 DEF Tells, e
<1>5. CASE m.err = "none" /\ a \in DOMAIN m.orgs /\ m.orgs[a] # << >>
  <2> DEFINE o == d.out \o [k \in 1..d.align |-> Zero] \o <<done.bytes[a]>>
  <2>1. e = [m |-> done, align |-> 0, out |-> o]
    BY <1>5 DEF DumpAt
  <2> HIDE DEF e, o
  <2>2. e.m = done
    BY <2>1
  <2>3. val.err \in Others
    BY ArgValErr
  <2>4. done.err = m.err \/ done.err \in Others
    <3> DEFINE x == val.err
               b == Put(m.bytes, a, Cells(first, val.v))
               n == [m EXCEPT !.err = x, !.bytes = b]
    <3>1. done = n \/ done = m
      OBVIOUS
    <3> HIDE DEF x, b, m, done
    <3>2. n.err = x
      BY <1>1 DEF Memory
    <3> QED BY <2>3, <3>1, <3>2 DEF x
  <2> QED BY <1>5, <2>2, <2>4 DEF Tells, e
<1> QED BY <1>2, <1>3, <1>4, <1>5

LEMMA DumpTells ==
    ASSUME NEW m, NEW t, MemSound(m, t), DOMAIN m.bytes # {}, Globals(m, t), m.err \in Others,
           Inits(t) \subseteq DOMAIN m.scopes[1]
    PROVE  LET n == Dump(m).m IN Justified(n.err, t) /\ (n.err = "none" => ~GlobalLost(t))
<1> DEFINE org == SetMin(DOMAIN m.bytes)
           top == SetMax(DOMAIN m.bytes)
           n == top - org + 1
           seq == [k \in 1..n |-> org + k - 1]
           r == Resolved(m, m.waiting)
           ready == CheckGlobals(r)
           base == [m |-> ready, out |-> << >>, align |-> 0]
           d == Dumped(base, seq)
           Good == {e \in Dumps : MemSound(e.m, t) /\ Tells(e, base)}
<1>1. Dump(m).m = d.m
  BY DEF Dump, Dumped, Resolved
<1>2. org \in Nat /\ top \in Nat /\ org <= top
  BY SpanTyped
<1> HIDE DEF org, top
<1>3. n \in Nat /\ DOMAIN seq = 1..n /\ \A k \in 1..n : seq[k] \in Nat
  BY <1>2
<1>4. MemSound(r, t) /\ Globals(r, t) /\ r.err \in Others /\ r.scopes = m.scopes
  BY ResolvedNames
<1> HIDE DEF r
<1>5. /\ ready.err \in Others \/ (ready.err = "undefined GLOBAL" /\ GlobalLost(t))
      /\ ready.err = "none" => ~GlobalLost(t)
  BY <1>4, GlobalsMissed
<1>6. MemSound(ready, t)
  BY <1>4, GlobalsSound DEF Alike
<1> HIDE DEF ready
<1>7. base \in Good /\ base.m = ready
  BY <1>6 DEF Dumps, MemSound, Tells
<1> HIDE DEF base, n, seq
<1>8. ASSUME NEW acc \in Good, NEW k \in 1..n PROVE DumpAt(acc, seq[k]) \in Good
  <2> DEFINE e == DumpAt(acc, seq[k])
  <2>1. acc \in Dumps /\ MemSound(acc.m, t) /\ seq[k] \in Nat /\ Tells(acc, base)
    BY <1>3
  <2>2. e \in Dumps /\ MemSound(e.m, t) /\ Tells(e, acc)
    BY <2>1, DumpAtSound, DumpAtTells
  <2> HIDE DEF e
  <2>3. Tells(e, base)
    BY <2>1, <2>2 DEF Tells
  <2> QED BY <2>2, <2>3 DEF e
<1> HIDE DEF Good
<1>9. d \in Good
  BY <1>3, <1>7, <1>8, DumpedStays
<1> HIDE DEF d
<1>10. d.m.err = ready.err \/ (ready.err = "none" /\ d.m.err \in Others)
  BY <1>7, <1>9 DEF Good, Tells
<1>11. Justified(ready.err, t)
  BY <1>5, JustifiedBy
<1>12. Justified(d.m.err, t)
  BY <1>10, <1>11, JustifiedBy
<1>13. d.m.err = "none" => ~GlobalLost(t)
  BY <1>5, <1>10
<1> QED BY <1>1, <1>12, <1>13

LEMMA WriteAnswered ==
    ASSUME Inv, NamesInv, Write PROVE NamesInv'
<1> DEFINE d == Dump(mem)
           n == d.m
<1>1. /\ phase = "called" /\ mem' = n /\ UNCHANGED <<text, inits>>
      /\ \/ phase' = "failed"
         \/ phase' = "written" /\ n.err = "none"
  BY DEF Write
<1>2. MemSound(mem, text) /\ DOMAIN mem.bytes # {}
  BY <1>1 DEF Inv, HasCode
<1>3. /\ Sound(text) /\ Globals(mem, text) /\ mem.err \in Others
      /\ Inits(text) \subseteq DOMAIN mem.scopes[1]
      /\ \A x \in Words : x \in Range(inits) <=> Inited(text, x)
  BY <1>1 DEF NamesInv
<1>4. Justified(n.err, text) /\ (n.err = "none" => ~GlobalLost(text))
  BY <1>2, <1>3, DumpTells
<1> HIDE DEF n
<1>5. Justified(mem'.err, text') /\ \A x \in Words : x \in Range(inits') <=> Inited(text', x)
  BY <1>1, <1>3, <1>4
<1>6. phase' = "written" => Sound(text') /\ ~GlobalLost(text')
  BY <1>1, <1>3, <1>4
<1>7. phase' \in {"failed", "written"}
  BY <1>1
<1> QED BY <1>5, <1>6, <1>7 DEF NamesInv

-----------------------------------------------------------------------------
(* The invariant.                                                          *)

LEMMA NamesStutter == ASSUME NamesInv, UNCHANGED vars PROVE NamesInv'
<1>1. text' = text /\ mem' = mem /\ inits' = inits /\ phase' = phase
  BY DEF vars
<1> QED BY <1>1 DEF NamesInv

\* Nothing is wrong with the empty text and it names nothing.
LEMMA EmptyText ==
    ASSUME NEW t, t = << >>
    PROVE  /\ \A ops : Lines(t, ops) = {}
           /\ Open(t) = <<0>> /\ Definitions(t) = {} /\ Uses(t) = {}
<1>1. Len(t) = 0 /\ DOMAIN t = {}
  OBVIOUS
<1>2. \A ops : Lines(t, ops) = {}
  BY <1>1 DEF Lines
<1>3. Open(t) = <<0>>
  <2>1. t \in Texts
    BY DEF Texts
  <2>2. Len(t) \in Nat /\ Len(t) + 1 = 1 /\ 1 \in 1..1
    BY <1>1
  <2>3. Stepping(Opens(t), "open", t, 1, 1)
    BY <2>1, <2>2, OpensStep
  <2>4. Opens(t)[1] = Step("open", t, Opens(t)[1 - 1], 1)
    BY <2>2, <2>3 DEF Stepping
  <2>5. \A p : Step("open", t, p, 1) = <<0>>
    BY DEF Step
  <2> QED BY <2>2, <2>4, <2>5 DEF Open
<1>4. Definitions(t) = {}
  BY <1>2 DEF Definitions
<1>5. Uses(t) = {}
  <2> DEFINE A == {"jp", "jr", "defw", "end"}
             B == {"equ"}
  <2>1. Lines(t, A) = {} /\ Lines(t, B) = {}
    BY <1>2
  <2>2. Uses(t) = Lines(t, A) \cup {i \in Lines(t, B) : t[i].of # ""}
    BY DEF Uses
  <2> HIDE DEF A, B
  <2> QED BY <2>1, <2>2
<1> QED BY <1>2, <1>3, <1>4, <1>5

LEMMA NamesInvStarts == ASSUME Init PROVE NamesInv
<1> DEFINE e == [x \in {} |-> 0]
           o == <<0>>
           t == text
           m == mem
<1>1. t = << >> /\ inits = << >> /\ phase = "reading"
  BY DEF Init
<1>2. m.scopes = <<e>> /\ m.waiting = << >> /\ m.err = "none"
  BY DEF Init, NewMemory
<1>3. /\ \A ops : Lines(t, ops) = {}
      /\ Open(t) = o /\ Definitions(t) = {} /\ Uses(t) = {}
  BY <1>1, EmptyText
<1>4. Len(m.scopes) = 1 /\ m.scopes[1] = e /\ Len(m.waiting) = 0 /\ DOMAIN e = {} /\ Len(o) = 1
  <2>1. Len(<<e>>) = 1 /\ <<e>>[1] = e /\ Len(<< >>) = 0 /\ DOMAIN e = {} /\ Len(o) = 1
    OBVIOUS
  <2> HIDE DEF e, o
  <2> QED BY <1>2, <2>1
<1> HIDE DEF e, o, m
<1>5. \A d \in 1..Len(m.scopes) : DOMAIN m.scopes[d] = {}
  BY <1>4
<1>6. 2..Len(o) = {} /\ 1..Len(m.scopes) = 1..Len(o)
  BY <1>4
<1>7. Scoped(m, t, o) /\ Apart(m) /\ Entries(m, t, o, {})
  BY <1>4, <1>5, <1>6 DEF Scoped, Apart, Entries
<1>8. Definers(m, t, o, {}) /\ Users(m, t, o, {})
  BY DEF Definers, Users
<1>9. FineYet(t, o)
  BY <1>3 DEF FineYet, Unopened, TooFar, Unpushed, LocalLost
<1>10. Tracks(m, t)
  BY <1>3, <1>7, <1>8, <1>9 DEF Tracks, NamesOf
<1>11. Justified(m.err, t)
  <2>1. m.err \in Others
    BY <1>2 DEF Others
  <2> QED BY <2>1, JustifiedBy
<1>12. \A x : x \in Range(inits) <=> Inited(t, x)
  <2>1. DOMAIN inits = {}
    BY <1>1
  <2> QED BY <1>3, <2>1 DEF Range, Inited
<1>13. phase = "reading"
  BY <1>1
<1> HIDE DEF t
<1>14. /\ phase \in {"reading", "ended"} => m.err = "none" /\ Tracks(m, t)
       /\ phase \notin {"assembled", "called", "written", "ended"}
  BY <1>2, <1>10, <1>13
<1> QED BY <1>11, <1>12, <1>14 DEF NamesInv, m, t

LEMMA NamesNext == ASSUME Inv, NamesInv, [Next]_vars PROVE NamesInv'
<1>1. CASE ReadLabel \/ ReadEqu \/ ReadTemporary
  <2>1. Reading
    BY <1>1 DEF ReadLabel, ReadEqu, ReadTemporary
  <2> QED BY <1>1, <2>1, NamesAnswered
<1>2. CASE ReadPlain \/ ReadReference \/ ReadTemporaryJump
  <2>1. Reading
    BY <1>2 DEF ReadPlain, ReadReference, ReadTemporaryJump
  <2> QED BY <1>2, <2>1, CodeAnswered
<1>3. CASE ReadOrg \/ ReadAlign
  <2>1. Reading
    BY <1>3 DEF ReadOrg, ReadAlign
  <2> QED BY <1>3, <2>1, PlaceAnswered
<1>4. CASE ReadProc \/ ReadEndp \/ ReadLocal
  <2>1. Reading
    BY <1>4 DEF ReadProc, ReadEndp, ReadLocal
  <2> QED BY <1>4, <2>1, ScopeAnswered
<1>5. CASE ReadNamespace
  <2>1. Reading
    BY <1>5 DEF ReadNamespace
  <2> QED BY <1>5, <2>1, SpaceAnswered
<1>6. CASE ReadInit \/ ReadEnd
  <2>1. Reading
    BY <1>6 DEF ReadInit, ReadEnd
  <2> QED BY <1>6, <2>1, EntryAnswered
<1>7. CASE Assemble
  BY <1>7, AssembleAnswered
<1>8. CASE AddCalls
  BY <1>8, AddCallsAnswered
<1>9. CASE Write
  BY <1>9, WriteAnswered
<1>10. CASE Ended \/ UNCHANGED vars
  <2>1. UNCHANGED vars
    BY <1>10 DEF Ended
  <2> QED BY <2>1, NamesStutter
<1> QED BY <1>1, <1>2, <1>3, <1>4, <1>5, <1>6, <1>7, <1>8, <1>9, <1>10 DEF Next

LEMMA NamesHold == Spec => []NamesInv
<1>1. Init => NamesInv
  BY NamesInvStarts
<1>2. Inv /\ NamesInv /\ [Next]_vars => NamesInv'
  BY NamesNext
<1> QED BY <1>1, <1>2, InvHolds, PTL DEF Spec

-----------------------------------------------------------------------------
(* The faults in the words of the messages.                                *)

NameKinds ==
    {"already defined", "undefined LOCAL", "undefined GLOBAL", "missing ENDP",
     "ENDP without PROC", "no namespace to pop", "ORG out of range"}

\* What Faults says of every kind of message about a name.
Told(t) ==
    /\ "already defined" \in Faults(t) <=> Twice(t)
    /\ "ENDP without PROC" \in Faults(t) <=> Unopened(t)
    /\ "missing ENDP" \in Faults(t) <=> Unclosed(t)
    /\ "undefined LOCAL" \in Faults(t) <=> LocalLost(t, Open(t))
    /\ "undefined GLOBAL" \in Faults(t) <=> GlobalLost(t)
    /\ "ORG out of range" \in Faults(t) <=> TooFar(t)
    /\ "no namespace to pop" \in Faults(t) <=> Unpushed(t)

LEMMA FaultsAre == ASSUME NEW t PROVE Told(t)
<1>1. "already defined" \in Faults(t) <=> Twice(t)
  BY DEF Faults, Twice, NameOf, OwnerOf
<1>2. "ENDP without PROC" \in Faults(t) <=> Unopened(t)
  BY DEF Faults, Unopened
<1>3. "missing ENDP" \in Faults(t) <=> Unclosed(t)
  BY DEF Faults, Unclosed, Open
<1>4. "undefined LOCAL" \in Faults(t) <=> LocalLost(t, Open(t))
  BY DEF Faults, LocalLost, Open
<1>5. "undefined GLOBAL" \in Faults(t) <=> GlobalLost(t)
  BY DEF Faults, GlobalLost, Inits
<1>6. "ORG out of range" \in Faults(t) <=> TooFar(t)
  BY DEF Faults, TooFar
<1>7. "no namespace to pop" \in Faults(t) <=> Unpushed(t)
  BY DEF Faults, Unpushed
<1> QED BY <1>1, <1>2, <1>3, <1>4, <1>5, <1>6, <1>7 DEF Told

LEMMA JustifiedFault ==
    ASSUME NEW t, NEW e \in NameKinds, Justified(e, t) PROVE e \in Faults(t)
<1>1. Told(t)
  BY FaultsAre
<1>2. \/ e = "already defined" \/ e = "undefined LOCAL" \/ e = "undefined GLOBAL"
      \/ e = "missing ENDP" \/ e = "ENDP without PROC" \/ e = "no namespace to pop"
      \/ e = "ORG out of range"
  BY DEF NameKinds
<1> QED BY <1>1, <1>2 DEF Told, Justified

LEMMA SoundHasNone ==
    ASSUME NEW t \in Texts, Sound(t), ~GlobalLost(t), NEW f \in NameKinds PROVE f \notin Faults(t)
<1>1. Told(t)
  BY FaultsAre
<1>2. Open(t) = <<0>>
  <2> DEFINE o == Open(t)
  <2>1. OpenStack(o, Len(t) + 1) /\ ~(Len(o) > 1)
    BY OpenTyped DEF Sound, Unclosed
  <2> HIDE DEF o
  <2>2. o \in Seq(Nat) /\ Len(o) \in Nat /\ Len(o) >= 1 /\ ~(Len(o) > 1) /\ o[1] = 0
    BY <2>1 DEF OpenStack
  <2>3. Len(o) = 1
    <3> DEFINE k == Len(o)
    <3>1. k \in Nat /\ k >= 1 /\ ~(k > 1)
      BY <2>2
    <3> HIDE DEF k
    <3>2. k = 1
      BY <3>1
    <3> QED BY <3>2 DEF k
  <2>4. o = <<0>>
    BY <2>2, <2>3
  <2> QED BY <2>4 DEF o
<1>3. /\ ~Twice(t) /\ ~Unopened(t) /\ ~Unclosed(t) /\ ~LocalLost(t, Open(t))
      /\ ~GlobalLost(t) /\ ~TooFar(t) /\ ~Unpushed(t)
  BY <1>2 DEF Sound, FineYet
<1>4. \/ f = "already defined" \/ f = "undefined LOCAL" \/ f = "undefined GLOBAL"
      \/ f = "missing ENDP" \/ f = "ENDP without PROC" \/ f = "no namespace to pop"
      \/ f = "ORG out of range"
  BY DEF NameKinds
<1> QED BY <1>1, <1>3, <1>4 DEF Told

LEMMA NamesInvIsRight == ASSUME Inv, NamesInv PROVE NameComplaintsAreRight
<1>1. /\ text \in Texts /\ Justified(mem.err, text)
      /\ phase = "written" => Sound(text) /\ ~GlobalLost(text)
  BY DEF Inv, NamesInv
<1>2. mem.err \in NameKinds => mem.err \in Faults(text)
  BY <1>1, JustifiedFault
<1>3. phase = "written" => \A f \in NameKinds : f \notin Faults(text)
  BY <1>1, SoundHasNone
<1>4. ComplaintsAbout(NameKinds)
  BY <1>2, <1>3 DEF ComplaintsAbout
<1> QED BY <1>4 DEF NameComplaintsAreRight, NameKinds

\* For every set of statements that keep to KeepsRules: a message about a name,
\* a PROC, a namespace or an ORG names a fault that the text has, and a text with
\* one of these seven faults gives no binary (declare_label, exit_proc, set_org
\* and dump of zxbasm/memory.py, the namespaces and ENDP of asmparse.py).
THEOREM AssemblerComplainsOfNames == Spec => []NameComplaintsAreRight
<1>1. Inv /\ NamesInv => NameComplaintsAreRight
  BY NamesInvIsRight
<1> QED BY <1>1, InvHolds, NamesHold, PTL
=============================================================================
